-------------------------- MODULE ObservationLedger --------------------------
(***************************************************************************)
(* What the live-observation control plane promises its callers (ADR 0014    *)
(* and 0016), with no rows, sessions or clean-up: a ledger of accepted       *)
(* observations that grows by one at a time, such that                      *)
(*   - a grant pays for one observation only;                               *)
(*   - a caller's idempotency key names at most one active observation;     *)
(*   - a search is refreshed again only after the minimum gap.              *)
(* LiveObservations keeps this promise; DurableLiveObservations keeps it     *)
(* when requests do not overlap.                                            *)
(***************************************************************************)
EXTENDS ControlPlane

VARIABLES
  clock,
  made     \* the accepted observations, each with the key it was asked under

ledgerVars == <<clock, made>>

Active(e) == e.row.expires > clock

SameSearch(o, p) ==
  o.user = p.user /\ o.source = p.source /\ o.fingerprint = p.fingerprint

\* The gap is counted from the instant the earlier request was received.
Admissible(row, key) ==
  \A e \in made :
    /\ e.row.id # row.id
    /\ e.row.grant # row.grant
    /\ Active(e) => ~(e.row.user = row.user /\ e.key = key)
    /\ SameSearch(e.row, row) => e.row.created + MinGap <= clock'

\* The answer takes time: the clock may advance while the request is served.
Accept(row, key) ==
  /\ clock <= clock'
  /\ row.created <= clock'
  /\ Admissible(row, key)
  /\ made' = made \cup {[row |-> row, key |-> key]}

Pass ==
  /\ clock < clock'
  /\ UNCHANGED made

\* An accepted observation is a new one; saying so first spares the checker
\* the search for it in every other step.
AcceptSome ==
  /\ made' # made
  /\ \E id \in ObservationIds, g \in GrantIds, u \in Users, s \in Sources,
        f \in Fingerprints, k \in Keys, now, done \in 0..MaxClock :
       Accept(NewObservation(id, g, u, s, f, now, done), k)

Step == Pass \/ AcceptSome

LedgerInit == clock = 0 /\ made = {}

LedgerSpec == LedgerInit /\ [][Step]_ledgerVars
=============================================================================
