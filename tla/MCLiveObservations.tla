------------------------- MODULE MCLiveObservations -------------------------
(***************************************************************************)
(* An instance of LiveObservations for TLC: one source, whose permission     *)
(* lapses while the clock runs, beside one that is not in the catalog.      *)
(***************************************************************************)
EXTENDS LiveObservations, TLC

CONSTANTS demo, unknown

MCCatalog ==
  demo :> [enabled |-> TRUE, attested |-> TRUE, validFrom |-> 0, validUntil |-> 3]

Symmetry ==
  Permutations(Users) \cup Permutations(Fingerprints)
  \cup Permutations(CallbackKeys)
  \cup Permutations(GrantIds) \cup Permutations(ObservationIds)
=============================================================================
