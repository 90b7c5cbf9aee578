----------------------- MODULE LiveObservationsProofs -----------------------
(***************************************************************************)
(* The in-memory control plane, for any number of users, searches, keys and  *)
(* callbacks and any lifetimes: its types, what its dictionaries say of each *)
(* other, and that it keeps the promise of ObservationLedger.                *)
(*                                                                         *)
(* ServiceInv is the inductive invariant: how the observations, the replay   *)
(* rows, the stamps, the grants and the callback table hang together.  The   *)
(* ledger's guarantees follow from it step by step: an accepted request is   *)
(* admissible because each of its checks reads a dictionary that still says  *)
(* everything about the observations made before.                            *)
(***************************************************************************)
EXTENDS LiveObservations, TLAPS

\* An id names one observation, and none was asked for in the future.
ObservationsOK ==
  /\ \A o, p \in observations : o.id = p.id => o = p
  /\ \A o \in observations : o.created <= clock

\* A user's key names one row, and a row names an observation of its user.
ReplaysOK ==
  /\ \A p, q \in replays : p.user = q.user /\ p.key = q.key => p = q
  /\ \A p \in replays : p.observation \in {o.id : o \in observations}
  /\ \A p \in replays, o \in observations : p.observation = o.id => p.user = o.user

\* The grant of an observation is there, and every grant of that id is spent.
GrantsOK ==
  \A o \in observations :
    /\ o.grant \in {g.id : g \in grants}
    /\ \A g \in grants : g.id = o.grant => g.consumed

\* A search has one stamp at most: the request time of one of its observations,
\* and no earlier than that of any other.
StampsOK ==
  /\ \A o \in observations : \E t \in refreshed[Search(o)] : o.created <= t
  /\ \A search \in Searches : \A t \in refreshed[search] :
       /\ \A other \in refreshed[search] : other = t
       /\ \E o \in observations : Search(o) = search /\ o.created = t

ServiceInv ==
  ObservationsOK /\ ReplaysOK /\ GrantsOK /\ StampsOK /\ CallbacksAgreeWithService

\* Enough of a request to accept it: a callback's carries a context of its own.
WellFormed(r) ==
  /\ r.user \in Users /\ r.key \in Keys /\ r.source \in Sources
  /\ r.fingerprint \in Fingerprints /\ r.grant \in GrantIds

\* What create_observation works with: the grants it knows cover the service's,
\* and every observation's grant is spent among them.
Knows(all) ==
  /\ grants \subseteq all /\ all \subseteq Grant
  /\ \A o \in observations :
       /\ o.grant \in {g.id : g \in all}
       /\ \A g \in all : g.id = o.grant => g.consumed

(***************************************************************************)
(* Types.                                                                  *)
(***************************************************************************)
\* A new grant and a new observation have the types of their tables.
LEMMA NewGrantType ==
  ASSUME NEW id \in GrantIds, NEW u \in Users, NEW s \in Sources, NEW f \in Fingerprints,
         NEW now \in Nat
  PROVE  NewGrant(id, u, s, f, now) \in Grant
BY TimeAssumption DEF NewGrant, Grant

LEMMA NewObservationType ==
  ASSUME NEW id \in ObservationIds, NEW g \in GrantIds, NEW u \in Users, NEW s \in Sources,
         NEW f \in Fingerprints, NEW now \in Nat, NEW done \in Nat
  PROVE  NewObservation(id, g, u, s, f, now, done) \in Observation
BY TimeAssumption DEF NewObservation, Observation

\* A search is one of those the stamps are kept for.
LEMMA SearchType ==
  ASSUME NEW r, r.user \in Users, r.source \in Sources, r.fingerprint \in Fingerprints
  PROVE  Search(r) \in Searches
BY DEF Search, Searches

\* What an accepted request writes has the types of the tables.
LEMMA AcceptType ==
  ASSUME TypeOK, NEW r, WellFormed(r), NEW all \in SUBSET Grant, NEW at \in Nat,
         NEW done \in Nat, NEW id \in ObservationIds, Accept(r, all, at, done, id)
  PROVE  /\ grants' \subseteq Grant /\ observations' \subseteq Observation
         /\ replays' \subseteq [user: Users, key: Keys, observation: ObservationIds]
         /\ refreshed' \in [Searches -> SUBSET Nat]
<1>1. grants' \subseteq Grant
  <2>1. \A g \in all : [g EXCEPT !.consumed = TRUE] \in Grant
    BY DEF Grant
  <2> QED
    BY <2>1 DEF Accept
<1>2. NewObservation(id, r.grant, r.user, r.source, r.fingerprint, at, done) \in Observation
  BY NewObservationType DEF WellFormed
<1>3. observations' \subseteq Observation
  BY <1>2 DEF Accept, TypeOK
<1>4. replays' \subseteq [user: Users, key: Keys, observation: ObservationIds]
  BY DEF Accept, TypeOK, WellFormed
<1>5. refreshed' \in [Searches -> SUBSET Nat]
  BY DEF Accept, TypeOK
<1> QED
  BY <1>1, <1>3, <1>4, <1>5

\* The request a callback makes is well formed, and so are the grants it knows.
LEMMA CallbackType ==
  ASSUME TypeOK, NEW cb \in Callback, NEW g \in FreshGrants
  PROVE  /\ WellFormed(CallbackRequest(cb, g))
         /\ grants \cup {NewGrant(g, cb.user, cb.source, cb.fingerprint, clock)} \subseteq Grant
<1>1. cb.user \in Users /\ cb.key \in CallbackKeys /\ cb.source \in Sources
      /\ cb.fingerprint \in Fingerprints
  BY DEF Callback
<1>2. g \in GrantIds /\ clock \in Nat
  BY TimeAssumption DEF FreshGrants, TypeOK
<1>3. NewGrant(g, cb.user, cb.source, cb.fingerprint, clock) \in Grant
  BY <1>1, <1>2, NewGrantType
<1> QED
  BY <1>1, <1>2, <1>3, CallbackAssumption DEF WellFormed, CallbackRequest, TypeOK

LEMMA ServiceTypeInit == Init => TypeOK
BY TimeAssumption DEF Init, TypeOK

\* Every step keeps the types.
LEMMA ServiceTypeStep ==
  ASSUME TypeOK, [Next]_vars
  PROVE  TypeOK'
<1>1. CASE Tick
  BY <1>1, TimeAssumption DEF Tick, TypeOK
<1>2. ASSUME NEW u \in Users, NEW s \in Sources, NEW f \in Fingerprints, IssueGrant(u, s, f)
      PROVE  TypeOK'
  <2>1. PICK id \in FreshGrants : grants' = grants \cup {NewGrant(id, u, s, f, clock)}
    BY <1>2 DEF IssueGrant
  <2>2. NewGrant(id, u, s, f, clock) \in Grant
    BY <2>1, NewGrantType, TimeAssumption DEF FreshGrants, TypeOK
  <2> QED
    BY <1>2, <2>1, <2>2 DEF IssueGrant, TypeOK
<1>3. ASSUME NEW r \in CreateRequest, CreateObservation(r)
      PROVE  TypeOK'
  <2>1. PICK gate \in clock..MaxClock, id \in FreshObservations :
          clock' \in gate..MaxClock /\ Accept(r, grants, clock, clock', id)
    BY <1>3 DEF CreateObservation
  <2>2. WellFormed(r) /\ id \in ObservationIds
    BY DEF WellFormed, CreateRequest, FreshObservations
  <2>3. clock \in Nat /\ clock' \in 0..MaxClock /\ clock' \in Nat
    BY <2>1, TimeAssumption DEF TypeOK
  <2>4. grants \in SUBSET Grant
    BY DEF TypeOK
  <2> QED
    BY <1>3, <2>1, <2>2, <2>3, <2>4, AcceptType DEF CreateObservation, TypeOK
<1>4. ASSUME NEW cb \in Callback, CallbackServed(cb)
      PROVE  TypeOK'
  <2>1. PICK g \in FreshGrants, at \in clock..MaxClock, id \in FreshObservations :
          \E gate \in at..MaxClock :
            /\ clock' \in gate..MaxClock
            /\ Accept(CallbackRequest(cb, g),
                      grants \cup {NewGrant(g, cb.user, cb.source, cb.fingerprint, clock)},
                      at, clock', id)
            /\ callbacks' = [callbacks EXCEPT ![cb.key] = {id}]
    BY <1>4 DEF CallbackServed
  <2>2. at \in Nat /\ clock' \in 0..MaxClock /\ clock' \in Nat
    BY <2>1, TimeAssumption DEF TypeOK
  <2>3. id \in ObservationIds
    BY DEF FreshObservations
  <2>4. callbacks' \in [CallbackKeys -> SUBSET ObservationIds]
    BY <2>1, <2>3 DEF TypeOK
  <2> QED
    BY <2>1, <2>2, <2>3, <2>4, CallbackType, AcceptType DEF TypeOK
<1>5. ASSUME NEW cb \in Callback, CallbackAdopted(cb)
      PROVE  TypeOK'
  <2>1. PICK g \in FreshGrants :
          grants' = grants \cup {NewGrant(g, cb.user, cb.source, cb.fingerprint, clock)}
    BY <1>5 DEF CallbackAdopted
  <2>2. grants' \subseteq Grant
    BY <2>1, CallbackType
  <2>3. Recorded(cb) \subseteq ObservationIds
    BY DEF Recorded, TypeOK
  <2> QED
    BY <1>5, <2>2, <2>3 DEF CallbackAdopted, TypeOK
<1>6. ASSUME NEW cb \in Callback, CallbackRefused(cb)
      PROVE  TypeOK'
  <2>1. PICK g \in FreshGrants, at \in clock..MaxClock :
          /\ grants' = grants \cup {NewGrant(g, cb.user, cb.source, cb.fingerprint, clock)}
          /\ clock' \in at..MaxClock
    BY <1>6 DEF CallbackRefused
  <2>2. grants' \subseteq Grant
    BY <2>1, CallbackType
  <2>3. clock' \in 0..MaxClock
    BY <2>1, TimeAssumption DEF TypeOK
  <2> QED
    BY <1>6, <2>2, <2>3 DEF CallbackRefused, TypeOK
<1>7. CASE UNCHANGED vars
  BY <1>7 DEF vars, TypeOK
<1> QED
  BY <1>1, <1>2, <1>3, <1>4, <1>5, <1>6, <1>7 DEF Next

\* Every variable of the service and the callback keeps its type, for any number
\* of users, searches and keys: no operation stores half a row.
THEOREM ServiceTypes == Spec => []TypeOK
<1> QED
  BY ServiceTypeInit, ServiceTypeStep, PTL DEF Spec

(***************************************************************************)
(* The dictionaries.                                                       *)
(***************************************************************************)
\* What the checks of an accepted request establish: a grant of the id it
\* names is not spent, and the gap since the search's stamp has passed.
LEMMA VerdictAllows ==
  ASSUME NEW r, NEW all, NEW at, NEW gate, CreateVerdict(r, all, at, gate) = Allowed
  PROVE  /\ SourceVerdict(r.source, at) = Allowed
         /\ \E g \in all : g.id = r.grant /\ ~g.consumed
         /\ \A t \in refreshed[Search(r)] : ~(gate < t + MinGap)
<1> DEFINE found == {g \in all : g.id = r.grant}
<1>1. SourceVerdict(r.source, at) = Allowed
  BY DEF CreateVerdict
<1>2. AnyGrantVerdict(found, r.source, r.fingerprint, at) = Allowed
  BY <1>1 DEF CreateVerdict, Allowed
<1>3. GateVerdict(SourcePolicy(r.source, at), r.context, r.fingerprint,
                  found, refreshed[Search(r)], gate, MinGap) = Allowed
  BY <1>1, <1>2 DEF CreateVerdict, Allowed
<1>4. \E g \in found : ~g.consumed
  <2>1. found # {}
    BY <1>2 DEF AnyGrantVerdict, Allowed
  <2>2. GrantVerdict(CHOOSE g \in found : TRUE, r.source, r.fingerprint, at) = Allowed
    BY <1>2, <2>1 DEF AnyGrantVerdict
  <2>3. ~(CHOOSE g \in found : TRUE).consumed
    BY <2>2 DEF GrantVerdict, Allowed
  <2> QED
    BY <2>1, <2>3
<1>5. ~TooSoon(refreshed[Search(r)], gate, MinGap)
  BY <1>3 DEF GateVerdict, Allowed
<1> QED
  BY <1>1, <1>4, <1>5 DEF TooSoon

\* A grant issued now is unknown to every observation.
LEMMA IssueKnows ==
  ASSUME TypeOK, GrantsOK, NEW id \in FreshGrants, NEW u \in Users, NEW s \in Sources,
         NEW f \in Fingerprints
  PROVE  Knows(grants \cup {NewGrant(id, u, s, f, clock)})
<1>1. NewGrant(id, u, s, f, clock) \in Grant
  BY NewGrantType, TimeAssumption DEF FreshGrants, TypeOK
<1>2. NewGrant(id, u, s, f, clock).id = id
  BY DEF NewGrant
<1>3. \A o \in observations : o.grant # id
  BY DEF GrantsOK, FreshGrants
<1> QED
  BY <1>1, <1>2, <1>3 DEF Knows, GrantsOK, TypeOK

\* So the dictionaries agree after a grant was issued and nothing else happened
\* but the passing of time.
LEMMA IssueKeeps ==
  ASSUME TypeOK, ServiceInv, Knows(grants'), clock <= clock', clock' \in Nat,
         UNCHANGED <<observations, replays, refreshed>>
  PROVE  ObservationsOK' /\ ReplaysOK' /\ GrantsOK' /\ StampsOK'
<1>1. ObservationsOK'
  BY TimeAssumption DEF ServiceInv, ObservationsOK, TypeOK, Observation
<1>2. ReplaysOK'
  BY DEF ServiceInv, ReplaysOK
<1>3. GrantsOK'
  BY DEF Knows, GrantsOK
<1>4. StampsOK'
  BY DEF ServiceInv, StampsOK
<1> QED
  BY <1>1, <1>2, <1>3, <1>4

\* And after a request was accepted: the row of its key, the mark of its grant
\* and the stamp of its search are those of the observation it made.
LEMMA AcceptKeeps ==
  ASSUME TypeOK, ServiceInv, NEW all, Knows(all), NEW r, WellFormed(r),
         NEW at \in Nat, clock <= at, at <= clock', clock' \in Nat,
         NEW id \in FreshObservations,
         \E g \in all : g.id = r.grant,
         Recorded(r) = {}, Accept(r, all, at, clock', id)
  PROVE  ObservationsOK' /\ ReplaysOK' /\ GrantsOK' /\ StampsOK'
<1> DEFINE new == NewObservation(id, r.grant, r.user, r.source, r.fingerprint, at, clock')
           row == [user |-> r.user, key |-> r.key, observation |-> id]
<1>1. /\ new.id = id /\ new.grant = r.grant /\ new.user = r.user /\ new.created = at
      /\ Search(new) = Search(r)
  BY DEF NewObservation, Search
<1>2. /\ observations' = observations \cup {new}
      /\ replays' = replays \cup {row}
      /\ grants' = {IF g.id = r.grant THEN [g EXCEPT !.consumed = TRUE] ELSE g : g \in all}
      /\ refreshed' = [refreshed EXCEPT ![Search(r)] = {at}]
  <2>1. [user: {r.user}, key: {r.key}, observation: {id}] = {row}
    <3>1. ASSUME NEW p \in [user: {r.user}, key: {r.key}, observation: {id}]
          PROVE  p = row
      <4>1. p = [user |-> p.user, key |-> p.key, observation |-> p.observation]
        OBVIOUS
      <4> QED
        BY <4>1
    <3>2. row \in [user: {r.user}, key: {r.key}, observation: {id}]
      OBVIOUS
    <3> QED
      BY <3>1, <3>2
  <2> QED
    BY <2>1 DEF Accept
<1>3. \A o \in observations : o.id # id /\ o.created \in Nat /\ o.created <= clock
  BY DEF FreshObservations, ServiceInv, ObservationsOK, TypeOK, Observation
<1>4. clock \in Nat
  BY TimeAssumption DEF TypeOK
<1> HIDE DEF new
<1>5. ObservationsOK'
  <2>1. \A o, p \in observations' : o.id = p.id => o = p
    BY <1>1, <1>2, <1>3 DEF ServiceInv, ObservationsOK
  <2>2. \A o \in observations' : o.created <= clock'
    BY <1>1, <1>2, <1>3, <1>4
  <2> QED
    BY <2>1, <2>2 DEF ObservationsOK
<1>6. ReplaysOK'
  <2>1. \A p \in replays : ~(p.user = r.user /\ p.key = r.key)
    BY DEF Recorded
  <2>2. \A p, q \in replays' : p.user = q.user /\ p.key = q.key => p = q
    BY <1>2, <2>1 DEF ServiceInv, ReplaysOK
  <2>3. \A p \in replays : p.observation # id
    BY <1>3 DEF ServiceInv, ReplaysOK
  <2>4. \A p \in replays' : p.observation \in {o.id : o \in observations'}
    BY <1>1, <1>2 DEF ServiceInv, ReplaysOK
  <2>5. \A p \in replays', o \in observations' : p.observation = o.id => p.user = o.user
    BY <1>1, <1>2, <1>3, <2>3 DEF ServiceInv, ReplaysOK
  <2> QED
    BY <2>2, <2>4, <2>5 DEF ReplaysOK
<1>7. GrantsOK'
  <2>1. \A g \in all : [g EXCEPT !.consumed = TRUE].id = g.id
                       /\ [g EXCEPT !.consumed = TRUE].consumed
    BY DEF Knows, Grant
  <2>2. {g.id : g \in grants'} = {g.id : g \in all}
    BY <1>2, <2>1
  <2>3. \A h \in grants' : h.id = r.grant => h.consumed
    BY <1>2, <2>1
  <2>4. \A h \in grants' : h.consumed \/ h \in all
    BY <1>2, <2>1
  <2>5. \A o \in observations' : o.grant \in {g.id : g \in all}
    BY <1>1, <1>2 DEF Knows
  <2>6. \A o \in observations', h \in grants' : h.id = o.grant => h.consumed
    BY <1>1, <1>2, <2>3, <2>4 DEF Knows
  <2> QED
    BY <2>2, <2>5, <2>6 DEF GrantsOK
<1>8. StampsOK'
  <2>1. Search(r) \in Searches
    BY SearchType DEF WellFormed
  <2>2. \A search \in Searches :
          refreshed'[search] = IF search = Search(r) THEN {at} ELSE refreshed[search]
    BY <1>2, <2>1 DEF TypeOK
  <2>3. \A o \in observations : Search(o) \in Searches
    BY SearchType DEF TypeOK, Observation
  <2>4. \A o \in observations' : \E t \in refreshed'[Search(o)] : o.created <= t
    <3>1. ASSUME NEW o \in observations, Search(o) = Search(r)
          PROVE  o.created <= at
      BY <1>3, <1>4
    <3> QED
      BY <1>1, <1>2, <2>1, <2>2, <2>3, <3>1 DEF ServiceInv, StampsOK
  <2>5. ASSUME NEW search \in Searches, NEW t \in refreshed'[search]
        PROVE  /\ \A other \in refreshed'[search] : other = t
               /\ \E o \in observations' : Search(o) = search /\ o.created = t
    BY <1>1, <1>2, <2>2 DEF ServiceInv, StampsOK
  <2> QED
    BY <2>4, <2>5 DEF StampsOK
<1> QED
  BY <1>5, <1>6, <1>7, <1>8

\* A remembered answer stays one the service records, while rows only come.
LEMMA CallbacksKeep ==
  ASSUME TypeOK, CallbacksAgreeWithService,
         observations \subseteq observations', replays \subseteq replays',
         UNCHANGED callbacks
  PROVE  CallbacksAgreeWithService'
BY DEF CallbacksAgreeWithService

\* An accepted create: what its checks said and what it wrote.
LEMMA CreateAccepts ==
  ASSUME TypeOK, ServiceInv, NEW r \in CreateRequest, CreateObservation(r)
  PROVE  \E id \in FreshObservations, gate \in Nat :
           /\ clock <= gate /\ gate <= clock' /\ clock' \in 0..MaxClock
           /\ CreateVerdict(r, grants, clock, gate) = Allowed
           /\ Accept(r, grants, clock, clock', id)
<1>1. PICK gate \in clock..MaxClock, id \in FreshObservations :
        /\ CreateVerdict(r, grants, clock, gate) = Allowed
        /\ clock' \in gate..MaxClock /\ Accept(r, grants, clock, clock', id)
  BY DEF CreateObservation
<1>2. gate \in Nat /\ clock <= gate /\ gate <= clock' /\ clock' \in 0..MaxClock
  BY <1>1, TimeAssumption DEF TypeOK
<1> QED
  BY <1>1, <1>2

\* The same of a callback that is served: it knows its own new grant as well.
LEMMA CallbackAccepts ==
  ASSUME TypeOK, ServiceInv, NEW cb \in Callback, CallbackServed(cb)
  PROVE  \E g \in FreshGrants, at \in 0..MaxClock, gate \in Nat, id \in FreshObservations :
           LET all == grants \cup {NewGrant(g, cb.user, cb.source, cb.fingerprint, clock)}
               r == CallbackRequest(cb, g)
           IN  /\ clock <= at /\ at <= gate /\ gate <= clock' /\ clock' \in 0..MaxClock
               /\ Knows(all) /\ WellFormed(r) /\ Recorded(r) = {}
               /\ CreateVerdict(r, all, at, gate) = Allowed
               /\ Accept(r, all, at, clock', id)
               /\ callbacks' = [callbacks EXCEPT ![cb.key] = {id}]
<1>1. PICK g \in FreshGrants, at \in clock..MaxClock, id \in FreshObservations :
        LET all == grants \cup {NewGrant(g, cb.user, cb.source, cb.fingerprint, clock)}
            r == CallbackRequest(cb, g)
        IN  \E gate \in at..MaxClock :
              /\ CreateVerdict(r, all, at, gate) = Allowed
              /\ clock' \in gate..MaxClock /\ Accept(r, all, at, clock', id)
              /\ callbacks' = [callbacks EXCEPT ![cb.key] = {id}]
  BY DEF CallbackServed
<1> DEFINE all == grants \cup {NewGrant(g, cb.user, cb.source, cb.fingerprint, clock)}
           r == CallbackRequest(cb, g)
<1>2. PICK gate \in at..MaxClock :
        /\ CreateVerdict(r, all, at, gate) = Allowed
        /\ clock' \in gate..MaxClock /\ Accept(r, all, at, clock', id)
        /\ callbacks' = [callbacks EXCEPT ![cb.key] = {id}]
  BY <1>1
<1>3. /\ clock <= at /\ at <= gate /\ gate <= clock' /\ clock' \in 0..MaxClock
      /\ gate \in Nat /\ at \in 0..MaxClock
  BY <1>2, TimeAssumption DEF TypeOK
<1>4. Knows(all)
  BY IssueKnows DEF ServiceInv, Callback
<1>5. WellFormed(r)
  BY CallbackType
<1>6. Recorded(r) = {}
  <2>1. Recorded(cb) = {} /\ r.user = cb.user /\ r.key = cb.key
    BY DEF CallbackServed, CallbackRequest
  <2> QED
    BY <2>1 DEF Recorded
<1> QED
  BY <1>2, <1>3, <1>4, <1>5, <1>6

LEMMA ServiceInit == Init => ServiceInv
<1> SUFFICES ASSUME Init PROVE ServiceInv
  OBVIOUS
<1>1. ObservationsOK /\ ReplaysOK /\ GrantsOK
  BY DEF Init, ObservationsOK, ReplaysOK, GrantsOK
<1>2. StampsOK
  BY DEF Init, StampsOK
<1>3. CallbacksAgreeWithService
  BY DEF Init, CallbacksAgreeWithService
<1> QED
  BY <1>1, <1>2, <1>3 DEF ServiceInv

\* Every step keeps the dictionaries in agreement.
LEMMA ServiceStep ==
  ASSUME TypeOK, ServiceInv, [Next]_vars
  PROVE  ServiceInv'
<1> USE DEF ServiceInv
<1>1. TypeOK' /\ clock \in Nat /\ clock' \in Nat
  BY ServiceTypeStep, TimeAssumption DEF TypeOK
<1>2. CASE Tick
  <2>1. Knows(grants')
    BY <1>2 DEF Tick, Knows, GrantsOK, TypeOK
  <2> QED
    BY <1>1, <1>2, <2>1, IssueKeeps, CallbacksKeep DEF Tick
<1>3. ASSUME NEW u \in Users, NEW s \in Sources, NEW f \in Fingerprints, IssueGrant(u, s, f)
      PROVE  ServiceInv'
  <2>1. Knows(grants')
    BY <1>3, IssueKnows DEF IssueGrant
  <2> QED
    BY <1>1, <1>3, <2>1, IssueKeeps, CallbacksKeep DEF IssueGrant
<1>4. ASSUME NEW r \in CreateRequest, CreateObservation(r)
      PROVE  ServiceInv'
  <2>1. PICK id \in FreshObservations, gate \in Nat :
          /\ clock <= gate /\ gate <= clock'
          /\ CreateVerdict(r, grants, clock, gate) = Allowed
          /\ Accept(r, grants, clock, clock', id)
    BY <1>4, CreateAccepts
  <2>2. \E g \in grants : g.id = r.grant
    BY <2>1, VerdictAllows
  <2>3. WellFormed(r) /\ Recorded(r) = {} /\ UNCHANGED callbacks
    BY <1>4 DEF WellFormed, CreateRequest, CreateObservation
  <2>4. Knows(grants)
    BY DEF Knows, GrantsOK, TypeOK
  <2>5. clock <= clock'
    BY <1>1, <2>1
  <2>6. ObservationsOK' /\ ReplaysOK' /\ GrantsOK' /\ StampsOK'
    BY <1>1, <2>1, <2>2, <2>3, <2>4, <2>5, AcceptKeeps
  <2>7. CallbacksAgreeWithService'
    BY <2>1, <2>3, CallbacksKeep DEF Accept
  <2> QED
    BY <2>6, <2>7
<1>5. ASSUME NEW cb \in Callback, CallbackServed(cb)
      PROVE  ServiceInv'
  <2>1. PICK g \in FreshGrants, at \in 0..MaxClock, gate \in Nat, id \in FreshObservations :
          LET all == grants \cup {NewGrant(g, cb.user, cb.source, cb.fingerprint, clock)}
              r == CallbackRequest(cb, g)
          IN  /\ clock <= at /\ at <= gate /\ gate <= clock'
              /\ Knows(all) /\ WellFormed(r) /\ Recorded(r) = {}
              /\ CreateVerdict(r, all, at, gate) = Allowed
              /\ Accept(r, all, at, clock', id)
              /\ callbacks' = [callbacks EXCEPT ![cb.key] = {id}]
    BY <1>5, CallbackAccepts
  <2> DEFINE all == grants \cup {NewGrant(g, cb.user, cb.source, cb.fingerprint, clock)}
             r == CallbackRequest(cb, g)
  <2>2. at \in Nat /\ at <= clock'
    BY <1>1, <2>1, TimeAssumption
  <2>3. \E h \in all : h.id = r.grant
    BY <2>1, VerdictAllows
  <2>4. ObservationsOK' /\ ReplaysOK' /\ GrantsOK' /\ StampsOK'
    BY <1>1, <2>1, <2>2, <2>3, AcceptKeeps
  <2>5. CallbacksAgreeWithService'
    <3>1. cb.key \in CallbackKeys /\ r.key = cb.key
      BY DEF Callback, CallbackRequest
    <3>2. /\ observations \subseteq observations' /\ replays \subseteq replays'
          /\ \E o \in observations' : o.id = id
          /\ \E p \in replays' : p.key = r.key /\ p.observation = id
      <4>1. NewObservation(id, r.grant, r.user, r.source, r.fingerprint, at, clock').id = id
        BY DEF NewObservation
      <4>2. [user |-> r.user, key |-> r.key, observation |-> id]
              \in [user: {r.user}, key: {r.key}, observation: {id}]
        OBVIOUS
      <4>3. [user |-> r.user, key |-> r.key, observation |-> id] \in replays'
        BY <2>1, <4>2 DEF Accept
      <4> HIDE DEF r
      <4> QED
        BY <2>1, <4>1, <4>3 DEF Accept, r
    <3>3. \A k \in CallbackKeys :
            callbacks'[k] = IF k = cb.key THEN {id} ELSE callbacks[k]
      BY <2>1, <3>1 DEF TypeOK
    <3> QED
      BY <3>1, <3>2, <3>3 DEF CallbacksAgreeWithService
  <2> QED
    BY <2>4, <2>5
<1>6. ASSUME NEW cb \in Callback, CallbackAdopted(cb)
      PROVE  ServiceInv'
  <2>1. Knows(grants')
    BY <1>6, IssueKnows DEF CallbackAdopted, Callback
  <2>2. ObservationsOK' /\ ReplaysOK' /\ GrantsOK' /\ StampsOK'
    BY <1>1, <1>6, <2>1, IssueKeeps DEF CallbackAdopted
  <2>3. PICK p \in replays : p.user = cb.user /\ p.key = cb.key
    BY <1>6 DEF CallbackAdopted, Recorded
  <2>4. Recorded(cb) = {p.observation}
    BY <2>3 DEF Recorded, ReplaysOK
  <2>5. \A k \in CallbackKeys :
          callbacks'[k] = IF k = cb.key THEN {p.observation} ELSE callbacks[k]
    BY <1>6, <2>4 DEF CallbackAdopted, TypeOK
  <2>6. CallbacksAgreeWithService'
    BY <1>6, <2>3, <2>5 DEF CallbackAdopted, CallbacksAgreeWithService, ReplaysOK
  <2> QED
    BY <2>2, <2>6
<1>7. ASSUME NEW cb \in Callback, CallbackRefused(cb)
      PROVE  ServiceInv'
  <2>1. Knows(grants')
    BY <1>7, IssueKnows DEF CallbackRefused, Callback
  <2>2. clock <= clock'
    BY <1>1, <1>7, TimeAssumption DEF CallbackRefused
  <2> QED
    BY <1>1, <1>7, <2>1, <2>2, IssueKeeps, CallbacksKeep DEF CallbackRefused
<1>8. CASE UNCHANGED vars
  BY <1>8 DEF vars, ObservationsOK, ReplaysOK, GrantsOK, StampsOK, CallbacksAgreeWithService
<1> QED
  BY <1>2, <1>3, <1>4, <1>5, <1>6, <1>7, <1>8 DEF Next

\* The inductive invariant: the five dictionaries of the service and the
\* callback's own agree with each other after any sequence of calls.
THEOREM ServiceInvariant == Spec => []ServiceInv
<1> QED
  BY ServiceTypes, ServiceInit, ServiceStep, ServiceTypeInit, ServiceTypeStep, PTL DEF Spec

\* The stamp the in-memory gap is computed from is what the table would say:
\* the latest request time of the search, for a search without one no stamp.
LEMMA StampIsLatest ==
  ASSUME TypeOK, ServiceInv
  PROVE  RefreshStampIsLatest
<1> SUFFICES ASSUME NEW search \in Searches
             PROVE  LET times == {o.created : o \in {o \in observations : Search(o) = search}}
                    IN  refreshed[search] =
                          {t \in times : \A other \in times : other <= t}
  BY DEF RefreshStampIsLatest
<1> DEFINE times == {o.created : o \in {o \in observations : Search(o) = search}}
<1>1. \A t \in times : t \in Nat
  BY DEF TypeOK, Observation
<1>2. \A t \in refreshed[search] : t \in times /\ \A other \in refreshed[search] : other = t
  BY DEF ServiceInv, StampsOK
<1>3. \A other \in times : \E t \in refreshed[search] : other <= t
  BY DEF ServiceInv, StampsOK
<1> HIDE DEF times
<1>4. ASSUME NEW t \in refreshed[search]
      PROVE  t \in times /\ \A other \in times : other <= t
  BY <1>2, <1>3
<1>5. ASSUME NEW t \in times, \A other \in times : other <= t
      PROVE  t \in refreshed[search]
  <2>1. PICK u \in refreshed[search] : t <= u
    BY <1>3, <1>5
  <2>2. u \in times /\ u <= t
    BY <1>2, <1>5
  <2>3. u = t
    BY <1>1, <1>5, <2>1, <2>2
  <2> QED
    BY <2>3
<1>6. refreshed[search] = {t \in times : \A other \in times : other <= t}
  BY <1>4, <1>5
<1> QED
  BY <1>6 DEF times

\* The dictionary the gap is read from and the table of observations agree, so
\* the in-memory service enforces the gap the durable one computes by a SELECT.
THEOREM StampsAreLatest == Spec => []RefreshStampIsLatest
<1> QED
  BY ServiceTypes, ServiceInvariant, StampIsLatest, PTL

\* A pressed button is answered from one observation for good, which the service
\* itself records under the callback's key, although the two dictionaries are
\* written by different objects and a key may have been used with either.
THEOREM CallbacksAgree == Spec => []CallbacksAgreeWithService
<1>1. ServiceInv => CallbacksAgreeWithService
  BY DEF ServiceInv
<1> QED
  BY <1>1, ServiceInvariant, PTL

(***************************************************************************)
(* The promise.                                                            *)
(***************************************************************************)
\* The ledger's entries are the observations with the key of their replay row.
LEMMA MadeEntries ==
  ASSUME TypeOK
  PROVE  \A e : e \in Made <=>
           \E o \in observations, p \in replays :
             p.observation = o.id /\ e = [row |-> o, key |-> p.key]
BY DEF Made

\* An accepted request is an entry more, and one the ledger admits: its grant
\* paid for no other entry, no active entry has its key, its search rested.
LEMMA AcceptIsAdmitted ==
  ASSUME TypeOK, ServiceInv, NEW all, Knows(all), NEW r, WellFormed(r),
         NEW at \in 0..MaxClock, NEW gate \in Nat, NEW id \in FreshObservations,
         clock <= at, at <= gate, gate <= clock', clock' \in 0..MaxClock,
         CreateVerdict(r, all, at, gate) = Allowed,
         Recorded(r) = {}, Accept(r, all, at, clock', id)
  PROVE  Ledger!AcceptSome
<1> DEFINE new == NewObservation(id, r.grant, r.user, r.source, r.fingerprint, at, clock')
           entry == [row |-> new, key |-> r.key]
<1>1. /\ new.id = id /\ new.grant = r.grant /\ new.user = r.user /\ new.created = at
      /\ new.source = r.source /\ new.fingerprint = r.fingerprint
  BY DEF NewObservation
<1>2. /\ observations' = observations \cup {new}
      /\ \A p : p \in replays' <=>
           p \in replays \/ p = [user |-> r.user, key |-> r.key, observation |-> id]
  BY DEF Accept
<1>3. \A o \in observations : o.id # id
  BY DEF FreshObservations
<1>4. \A p \in replays : p.observation # id
  BY <1>3 DEF ServiceInv, ReplaysOK
<1> HIDE DEF new
<1>5. Made' = Made \cup {entry}
  <2>1. \A e : e \in Made' <=>
          \E o \in observations', p \in replays' :
            p.observation = o.id /\ e = [row |-> o, key |-> p.key]
    BY DEF Made
  <2>2. ASSUME NEW e \in Made'
        PROVE  e \in Made \cup {entry}
    <3>1. PICK o \in observations', p \in replays' :
            p.observation = o.id /\ e = [row |-> o, key |-> p.key]
      BY <2>1
    <3>2. CASE o \in observations /\ p \in replays
      BY <3>1, <3>2, MadeEntries
    <3>3. CASE o = new
      <4>1. p.key = r.key
        BY <1>1, <1>2, <1>4, <3>1, <3>3
      <4> QED
        BY <3>1, <3>3, <4>1
    <3>4. CASE o \in observations /\ p \notin replays
      BY <1>2, <1>3, <3>1, <3>4
    <3> QED
      BY <1>2, <3>2, <3>3, <3>4
  <2>3. Made \subseteq Made'
    BY <1>2, <2>1, MadeEntries
  <2>4. entry \in Made'
    <3> DEFINE q == [user |-> r.user, key |-> r.key, observation |-> id]
    <3>1. q \in replays' /\ q.key = r.key /\ q.observation = id
      BY <1>2
    <3> HIDE DEF q
    <3>2. new \in observations' /\ q.observation = new.id /\ entry = [row |-> new, key |-> q.key]
      BY <1>1, <1>2, <3>1
    <3> QED
      BY <2>1, <3>1, <3>2
  <2> QED
    BY <2>2, <2>3, <2>4
<1>6. Made' # Made
  <2>1. entry \notin Made
    BY <1>1, <1>3, MadeEntries
  <2> QED
    BY <1>5, <2>1
<1>7. ASSUME NEW e \in Made
      PROVE  /\ e.row.id # new.id
             /\ e.row.grant # new.grant
             /\ ~(e.row.user = new.user /\ e.key = r.key)
             /\ Ledger!SameSearch(e.row, new) => e.row.created + MinGap <= clock'
  <2>1. PICK o \in observations, p \in replays :
          p.observation = o.id /\ e = [row |-> o, key |-> p.key]
    BY MadeEntries
  <2>2. e.row = o /\ e.key = p.key
    BY <2>1
  <2>3. o.id # new.id
    BY <1>1, <1>3
  <2>4. o.grant # new.grant
    BY <1>1, VerdictAllows DEF Knows
  <2>5. ~(o.user = new.user /\ p.key = r.key)
    BY <1>1, <2>1 DEF ServiceInv, ReplaysOK, Recorded
  <2>6. ASSUME o.user = new.user, o.source = new.source, o.fingerprint = new.fingerprint
        PROVE  o.created + MinGap <= clock'
    <3>1. Search(o) = Search(r)
      BY <1>1, <2>6 DEF Search
    <3>2. PICK t \in refreshed[Search(r)] : o.created <= t
      BY <3>1 DEF ServiceInv, StampsOK
    <3>3. ~(gate < t + MinGap)
      BY VerdictAllows
    <3>4. Search(r) \in Searches
      BY SearchType DEF WellFormed
    <3>5. t \in Nat /\ o.created \in Nat /\ MinGap \in Nat /\ clock' \in Nat
      BY <3>4, TimeAssumption DEF TypeOK, Observation
    <3> QED
      BY <3>2, <3>3, <3>5
  <2> QED
    BY <2>2, <2>3, <2>4, <2>5, <2>6 DEF Ledger!SameSearch
<1>8. Ledger!Admissible(new, r.key)
  BY <1>7 DEF Ledger!Admissible, Ledger!Active
<1>9. Ledger!Accept(new, r.key)
  <2>1. clock <= clock' /\ at <= clock'
    BY TimeAssumption DEF TypeOK
  <2> QED
    BY <1>1, <1>5, <1>8, <2>1 DEF Ledger!Accept
<1>10. new = Ledger!NewObservation(id, r.grant, r.user, r.source, r.fingerprint, at, clock')
  BY DEF new, NewObservation, Ledger!NewObservation
<1>11. id \in ObservationIds
  BY DEF FreshObservations
<1> QED
  BY <1>6, <1>9, <1>10, <1>11 DEF Ledger!AcceptSome, WellFormed

\* Every step of the service is a step of the ledger or none.
LEMMA LedgerStep ==
  ASSUME TypeOK, ServiceInv, [Next]_vars
  PROVE  [Ledger!Step]_(Ledger!ledgerVars)
<1>1. clock \in 0..MaxClock /\ clock \in Nat
  BY TimeAssumption DEF TypeOK
<1>2. CASE Tick
  <2>1. clock < clock'
    BY <1>1, <1>2 DEF Tick
  <2> QED
    BY <1>2, <2>1 DEF Tick, Made, Ledger!Step, Ledger!Pass
<1>3. ASSUME NEW u \in Users, NEW s \in Sources, NEW f \in Fingerprints, IssueGrant(u, s, f)
      PROVE  UNCHANGED Ledger!ledgerVars
  BY <1>3 DEF IssueGrant, Made, Ledger!ledgerVars
<1>4. ASSUME NEW r \in CreateRequest, CreateObservation(r)
      PROVE  Ledger!AcceptSome
  <2>1. PICK id \in FreshObservations, gate \in Nat :
          /\ clock <= gate /\ gate <= clock' /\ clock' \in 0..MaxClock
          /\ CreateVerdict(r, grants, clock, gate) = Allowed
          /\ Accept(r, grants, clock, clock', id)
    BY <1>4, CreateAccepts
  <2>2. WellFormed(r) /\ Recorded(r) = {}
    BY <1>4 DEF WellFormed, CreateRequest, CreateObservation
  <2>3. Knows(grants)
    BY DEF Knows, ServiceInv, GrantsOK, TypeOK
  <2> QED
    BY <1>1, <2>1, <2>2, <2>3, AcceptIsAdmitted
<1>5. ASSUME NEW cb \in Callback, CallbackServed(cb)
      PROVE  Ledger!AcceptSome
  BY <1>5, CallbackAccepts, AcceptIsAdmitted
<1>6. ASSUME NEW cb \in Callback, CallbackAdopted(cb)
      PROVE  UNCHANGED Ledger!ledgerVars
  BY <1>6 DEF CallbackAdopted, Made, Ledger!ledgerVars
<1>7. ASSUME NEW cb \in Callback, CallbackRefused(cb)
      PROVE  Ledger!Pass \/ UNCHANGED Ledger!ledgerVars
  <2>1. clock < clock' \/ clock' = clock
    BY <1>1, <1>7, TimeAssumption DEF CallbackRefused
  <2> QED
    BY <1>7, <2>1 DEF CallbackRefused, Made, Ledger!Pass, Ledger!ledgerVars
<1>8. CASE UNCHANGED vars
  BY <1>8 DEF vars, Made, Ledger!ledgerVars
<1> QED
  BY <1>2, <1>3, <1>4, <1>5, <1>6, <1>7, <1>8 DEF Next, Ledger!Step

\* The in-memory service keeps the promise of the ledger: whatever is called in
\* whatever order, a grant pays for one observation, a key names one active
\* observation and a search rests for the gap.  The durable service does not
\* (see the runs grant_race and gap_race); what it lacks is that a call is one step.
THEOREM ServiceImplementsLedger == Spec => ImplementsLedger
<1>1. Init => Ledger!LedgerInit
  BY DEF Init, Made, Ledger!LedgerInit
<1> QED
  BY <1>1, ServiceTypes, ServiceInvariant, LedgerStep, PTL
  DEF Spec, ImplementsLedger, Ledger!LedgerSpec
=============================================================================
