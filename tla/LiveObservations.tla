-------------------------- MODULE LiveObservations --------------------------
(***************************************************************************)
(* The in-memory control plane, LiveObservationService, and the Telegram     *)
(* "check live price" callback that calls it, TelegramLiveCheckService.      *)
(*                                                                         *)
(* Every operation is one synchronous call, hence one step; the clock may    *)
(* advance between the readings one call makes.  Nothing is ever evicted.   *)
(* A call that is refused, a replay and a read leave the state as it is and *)
(* are not steps; a refused callback is one, because it leaves a grant.     *)
(***************************************************************************)
EXTENDS ControlPlane

CONSTANT CallbackKeys   \* the keys derived from Telegram callback queries

ASSUME CallbackAssumption == CallbackKeys \subseteq Keys

VARIABLES
  clock,
  grants,        \* _grants
  observations,  \* _observations
  replays,       \* _idempotency, as rows [user, key, observation]
  refreshed,     \* _last_refresh_at: (user, source, intent) -> {} or {time}
  callbacks      \* _callback_observations: callback key -> {} or {observation}

vars == <<clock, grants, observations, replays, refreshed, callbacks>>

Searches == Users \X Sources \X Fingerprints

CreateRequest ==
  [user: Users, key: Keys, source: Sources, fingerprint: Fingerprints,
   grant: GrantIds, context: Contexts]

Callback ==
  [user: Users, key: CallbackKeys, source: Sources, fingerprint: Fingerprints]

Search(r) == <<r.user, r.source, r.fingerprint>>

Recorded(r) ==
  {p.observation : p \in {p \in replays : p.user = r.user /\ p.key = r.key}}

FreshGrants == GrantIds \ {g.id : g \in grants}
FreshObservations == ObservationIds \ {o.id : o \in observations}

-----------------------------------------------------------------------------
IssueGrant(user, source, fingerprint) ==
  /\ SourceVerdict(source, clock) = Allowed
  /\ \E id \in FreshGrants :
       grants' = grants \cup {NewGrant(id, user, source, fingerprint, clock)}
  /\ UNCHANGED <<clock, observations, replays, refreshed, callbacks>>

\* Everything create_observation checks once the key is new: all is the set of
\* grants it knows, at its first clock reading and gate the gate's.
CreateVerdict(r, all, at, gate) ==
  LET found == {g \in all : g.id = r.grant}
      source == SourceVerdict(r.source, at)
      grant == AnyGrantVerdict(found, r.source, r.fingerprint, at)
  IN  IF source # Allowed THEN source
      ELSE IF \E g \in found : g.user # r.user
             THEN "user_action_grant_user_mismatch"
      ELSE IF grant # Allowed THEN grant
      ELSE GateVerdict(SourcePolicy(r.source, at), r.context, r.fingerprint,
                       found, refreshed[Search(r)], gate, MinGap)

\* Mutant of Accept: the gap is counted from the grant, not from the request.
AcceptStampsGrant(r, all, at, done, id) ==
  /\ grants' = {IF g.id = r.grant THEN [g EXCEPT !.consumed = TRUE] ELSE g : g \in all}
  /\ observations' = observations \cup
       {NewObservation(id, r.grant, r.user, r.source, r.fingerprint, at, done)}
  /\ replays' = replays \cup [user: {r.user}, key: {r.key}, observation: {id}]
  /\ refreshed' = [refreshed EXCEPT
       ![Search(r)] = {g.issued : g \in {g \in all : g.id = r.grant}}]

\* What an accepted request leaves behind.
Accept(r, all, at, done, id) ==
  /\ grants' = {IF g.id = r.grant THEN [g EXCEPT !.consumed = TRUE] ELSE g : g \in all}
  /\ observations' = observations \cup
       {NewObservation(id, r.grant, r.user, r.source, r.fingerprint, at, done)}
  /\ replays' = replays \cup [user: {r.user}, key: {r.key}, observation: {id}]
  /\ refreshed' = [refreshed EXCEPT ![Search(r)] = {at}]

CreateObservation(r) ==
  /\ Recorded(r) = {}
  /\ \E gate \in clock..MaxClock, id \in FreshObservations :
       /\ CreateVerdict(r, grants, clock, gate) = Allowed
       /\ clock' \in gate..MaxClock
       /\ Accept(r, grants, clock, clock', id)
  /\ UNCHANGED callbacks

-----------------------------------------------------------------------------
(* handle_callback: a replay by callback key, else a grant and a create      *)
(* with that grant.                                                         *)

CallbackRequest(cb, g) ==
  [user |-> cb.user, key |-> cb.key, source |-> cb.source,
   fingerprint |-> cb.fingerprint, grant |-> g, context |-> "telegram_callback"]

\* The callback makes an observation.
CallbackServed(cb) ==
  /\ callbacks[cb.key] = {}
  /\ SourceVerdict(cb.source, clock) = Allowed
  /\ Recorded(cb) = {}
  /\ \E g \in FreshGrants, at \in clock..MaxClock, id \in FreshObservations :
       LET all == grants \cup {NewGrant(g, cb.user, cb.source, cb.fingerprint, clock)}
       IN  \E gate \in at..MaxClock :
             /\ CreateVerdict(CallbackRequest(cb, g), all, at, gate) = Allowed
             /\ clock' \in gate..MaxClock
             /\ Accept(CallbackRequest(cb, g), all, at, clock', id)
             /\ callbacks' = [callbacks EXCEPT ![cb.key] = {id}]

\* Mutant of CallbackAdopted: the row is remembered instead of its observation.
CallbackAdoptedRow(cb) ==
  /\ callbacks[cb.key] = {}
  /\ SourceVerdict(cb.source, clock) = Allowed
  /\ Recorded(cb) # {}
  /\ \E g \in FreshGrants :
       grants' = grants \cup {NewGrant(g, cb.user, cb.source, cb.fingerprint, clock)}
  /\ callbacks' = [callbacks EXCEPT ![cb.key] =
       {p \in replays : p.user = cb.user /\ p.key = cb.key}]
  /\ UNCHANGED <<clock, observations, replays, refreshed>>

\* The key was already used with the service itself: its observation is
\* adopted; the grant issued for the callback stays behind.
CallbackAdopted(cb) ==
  /\ callbacks[cb.key] = {}
  /\ SourceVerdict(cb.source, clock) = Allowed
  /\ Recorded(cb) # {}
  /\ \E g \in FreshGrants :
       grants' = grants \cup {NewGrant(g, cb.user, cb.source, cb.fingerprint, clock)}
  /\ callbacks' = [callbacks EXCEPT ![cb.key] = Recorded(cb)]
  /\ UNCHANGED <<clock, observations, replays, refreshed>>

\* Mutant of CallbackRefused: an id is remembered before the create succeeds.
CallbackRefusedRemembered(cb) ==
  /\ callbacks[cb.key] = {}
  /\ SourceVerdict(cb.source, clock) = Allowed
  /\ Recorded(cb) = {}
  /\ \E g \in FreshGrants, at \in clock..MaxClock, id \in FreshObservations :
       LET all == grants \cup {NewGrant(g, cb.user, cb.source, cb.fingerprint, clock)}
       IN  /\ clock' \in at..MaxClock
           /\ CreateVerdict(CallbackRequest(cb, g), all, at, clock') # Allowed
           /\ grants' = all
           /\ callbacks' = [callbacks EXCEPT ![cb.key] = {id}]
  /\ UNCHANGED <<observations, replays, refreshed>>

\* The create is refused (too soon, or the grant or permission lapsed in
\* between); the grant issued for the callback stays behind, unused.
CallbackRefused(cb) ==
  /\ callbacks[cb.key] = {}
  /\ SourceVerdict(cb.source, clock) = Allowed
  /\ Recorded(cb) = {}
  /\ \E g \in FreshGrants, at \in clock..MaxClock :
       LET all == grants \cup {NewGrant(g, cb.user, cb.source, cb.fingerprint, clock)}
       IN  /\ clock' \in at..MaxClock
           /\ CreateVerdict(CallbackRequest(cb, g), all, at, clock') # Allowed
           /\ grants' = all
  /\ UNCHANGED <<observations, replays, refreshed, callbacks>>

-----------------------------------------------------------------------------
Tick ==
  /\ clock < MaxClock
  /\ clock' = clock + 1
  /\ UNCHANGED <<grants, observations, replays, refreshed, callbacks>>

Next ==
  \/ Tick
  \/ \E u \in Users, s \in Sources, f \in Fingerprints : IssueGrant(u, s, f)
  \/ \E r \in CreateRequest : CreateObservation(r)
  \/ \E cb \in Callback :
       CallbackServed(cb) \/ CallbackAdopted(cb) \/ CallbackRefused(cb)

Init ==
  /\ clock = 0
  /\ grants = {} /\ observations = {} /\ replays = {}
  /\ refreshed = [search \in Searches |-> {}]
  /\ callbacks = [k \in CallbackKeys |-> {}]

Spec == Init /\ [][Next]_vars

-----------------------------------------------------------------------------
TypeOK ==
  /\ clock \in 0..MaxClock
  /\ grants \subseteq Grant
  /\ observations \subseteq Observation
  /\ replays \subseteq [user: Users, key: Keys, observation: ObservationIds]
  /\ refreshed \in [Searches -> SUBSET Nat]
  /\ callbacks \in [CallbackKeys -> SUBSET ObservationIds]

\* The stamp the gap is computed from is the latest request time among the
\* observations of that search, so the dictionary and the table agree.
RefreshStampIsLatest ==
  \A search \in Searches :
    LET times == {o.created : o \in {o \in observations : Search(o) = search}}
    IN  refreshed[search] = {t \in times : \A other \in times : other <= t}

\* A pressed button is answered from one observation for good, and it is one
\* the service itself records under the callback's key.
CallbacksAgreeWithService ==
  \A k \in CallbackKeys : \A id \in callbacks[k] :
    /\ callbacks[k] = {id}
    /\ id \in {o.id : o \in observations}
    /\ \E p \in replays : p.key = k /\ p.observation = id

\* The service keeps the promise of the ledger.
Made ==
  UNION {{[row |-> o, key |-> p.key] : p \in {p \in replays : p.observation = o.id}} :
           o \in observations}

Ledger == INSTANCE ObservationLedger WITH made <- Made

ImplementsLedger == Ledger!LedgerSpec
=============================================================================
