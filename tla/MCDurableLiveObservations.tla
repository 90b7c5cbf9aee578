--------------------- MODULE MCDurableLiveObservations ---------------------
(***************************************************************************)
(* Instances of DurableLiveObservations for TLC.                            *)
(***************************************************************************)
EXTENDS DurableLiveObservations, TLC

CONSTANTS demo, dark

\* demo_browser is switched on; dark is a source an operator has switched off.
MCCatalog ==
  [s \in Sources |->
     [enabled |-> s # dark, attested |-> TRUE, validFrom |-> 0, validUntil |-> 9]]

Symmetry ==
  Permutations(Handlers) \cup Permutations(Cleaners) \cup Permutations(Keys)
  \cup Permutations(Users) \cup Permutations(Fingerprints)
  \cup Permutations(GrantIds) \cup Permutations(ObservationIds)
=============================================================================
