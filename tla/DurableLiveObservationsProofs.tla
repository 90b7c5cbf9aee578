-------------------- MODULE DurableLiveObservationsProofs -------------------
(***************************************************************************)
(* Theorems about DurableLiveObservations, for every set of users, keys,     *)
(* handlers and cleaners and every choice of the time constants: first the   *)
(* types, then the tables.  DurableLiveObservationsGuarantees goes on from   *)
(* here to what the service guarantees its callers.                         *)
(***************************************************************************)
EXTENDS DurableLiveObservations, TLAPS

\* What the guards and checks return is always one of their codes.
LEMMA VerdictType ==
  /\ \A source, now : SourceVerdict(source, now) \in SourceVerdicts
  /\ \A grants, source, f, now :
       AnyGrantVerdict(grants, source, f, now) \in Verdicts
  /\ \A p, c, f, grants, done, now, gap :
       GateVerdict(p, c, f, grants, done, now, gap) \in Verdicts
<1>1. \A source, now : SourceVerdict(source, now) \in SourceVerdicts
  BY DEF SourceVerdict, SourceVerdicts, Allowed
<1>2. \A g, source, f, now : GrantVerdict(g, source, f, now) \in Verdicts
  BY DEF GrantVerdict, Verdicts, GrantCodes, Allowed
<1>3. \A grants, source, f, now :
        AnyGrantVerdict(grants, source, f, now) \in Verdicts
  BY <1>2 DEF AnyGrantVerdict, Verdicts, GrantCodes
<1>4. \A p, op, c, f, grants, now :
        GuardVerdict(p, op, c, f, grants, now) \in Verdicts
  BY <1>3 DEF GuardVerdict, Verdicts, Allowed
<1>5. \A p, c, f, grants, done, now, gap :
        GateVerdict(p, c, f, grants, done, now, gap) \in Verdicts
  BY <1>4 DEF GateVerdict, Verdicts
<1>6. QED
  BY <1>1, <1>3, <1>5

\* The tables a session sees are tables.
LEMMA ViewType ==
  ASSUME TypeOK, NEW s \in Sessions
  PROVE  View(s) \in Tables
BY DEF TypeOK, View

\* Where a session may stand, with which request and locals.
LEMMA Places ==
  ASSUME NEW s \in Sessions, NEW place, NEW r, NEW m
  PROVE  /\ SessionOK(s, "idle", r, m)
         /\ s \in Handlers /\ place \in IssueAt /\ r \in IssueRequest
              /\ m \in IssueLocals => SessionOK(s, place, r, m)
         /\ s \in Handlers /\ place \in CreateAt /\ r \in CreateRequest
              /\ m \in CreateLocals => SessionOK(s, place, r, m)
         /\ s \in Handlers /\ place \in GetAt /\ r \in GetRequest
              /\ m \in GetLocals => SessionOK(s, place, r, m)
         /\ s \in Cleaners /\ place \in CleanAt /\ r \in CleanCommand
              /\ m \in CleanLocals => SessionOK(s, place, r, m)
         /\ s \in Handlers /\ r \in Requests /\ m \in Answer
              => SessionOK(s, "answered", r, m)
BY SessionAssumption
   DEF Sessions, SessionOK, IssueAt, CreateAt, WritingAt, GetAt, CleanAt

\* A step of one session that keeps the tables and that session well typed
\* keeps every variable well typed.
LEMMA MoveType ==
  ASSUME TypeOK, NEW s \in Sessions,
         DOMAIN pc' = Sessions /\ DOMAIN req' = Sessions /\ DOMAIN mem' = Sessions,
         \A t \in Sessions \ {s} :
           pc'[t] = pc[t] /\ req'[t] = req[t] /\ mem'[t] = mem[t],
         SessionOK(s, pc'[s], req'[s], mem'[s]),
         db' \in Tables, work' \in Tables, writer' \in Sessions \cup {NULL},
         clock' = clock, tokens' \subseteq GrantIds, ledger' \subseteq Entry
  PROVE  TypeOK'
<1>1. ASSUME NEW t \in Sessions
      PROVE  SessionOK(t, pc'[t], req'[t], mem'[t])
  <2>1. CASE t = s
    BY <2>1
  <2>2. CASE t # s
    <3>1. pc'[t] = pc[t] /\ req'[t] = req[t] /\ mem'[t] = mem[t]
      BY <2>2
    <3>2. SessionOK(t, pc[t], req[t], mem[t])
      BY DEF TypeOK
    <3>3. QED BY <3>1, <3>2
  <2>3. QED BY <2>1, <2>2
<1>2. clock' \in Nat /\ clock' <= MaxClock
  BY DEF TypeOK
<1>3. QED BY <1>1, <1>2 DEF TypeOK

\* Closing a session, for whatever reason, keeps every variable well typed.
LEMMA CloseType ==
  ASSUME TypeOK, NEW s \in Sessions, Close(s)
  PROVE  TypeOK'
<1>1. /\ DOMAIN pc' = Sessions /\ DOMAIN req' = Sessions /\ DOMAIN mem' = Sessions
      /\ pc'[s] = "idle"
      /\ \A t \in Sessions \ {s} :
           pc'[t] = pc[t] /\ req'[t] = req[t] /\ mem'[t] = mem[t]
  BY DEF TypeOK, Close
<1>2. SessionOK(s, pc'[s], req'[s], mem'[s])
  BY <1>1, Places
<1>3. /\ db' \in Tables /\ work' \in Tables /\ writer' \in Sessions \cup {NULL}
      /\ clock' = clock /\ tokens' \subseteq GrantIds /\ ledger' \subseteq Entry
  BY DEF TypeOK, Close, Discard, History
<1>4. QED BY <1>1, <1>2, <1>3, MoveType

\* A step that ends in Goto keeps every variable well typed when the place it
\* goes to suits the session and the tables it leaves are tables.
LEMMA StepType ==
  ASSUME TypeOK, NEW s \in Sessions, NEW place, NEW m, NEW r,
         Goto(s, place, m),
         req' = [req EXCEPT ![s] = r] \/ (req' = req /\ r = req[s]),
         SessionOK(s, place, r, m),
         db' \in Tables, work' \in Tables, writer' \in Sessions \cup {NULL},
         clock' = clock, tokens' \subseteq GrantIds, ledger' \subseteq Entry
  PROVE  TypeOK'
<1>1. /\ DOMAIN pc' = Sessions /\ DOMAIN req' = Sessions /\ DOMAIN mem' = Sessions
      /\ pc'[s] = place /\ mem'[s] = m /\ req'[s] = r
      /\ \A t \in Sessions \ {s} :
           pc'[t] = pc[t] /\ req'[t] = req[t] /\ mem'[t] = mem[t]
  BY DEF TypeOK, Goto
<1>2. SessionOK(s, pc'[s], req'[s], mem'[s])
  BY <1>1
<1>3. QED BY <1>1, <1>2, MoveType

\* The same for a step that reads the tables and leaves the history alone.
LEMMA ReadType ==
  ASSUME TypeOK, NEW s \in Sessions, NEW place, NEW m, NEW r,
         Goto(s, place, m),
         req' = [req EXCEPT ![s] = r] \/ (req' = req /\ r = req[s]),
         SessionOK(s, place, r, m),
         ReadOnly, UNCHANGED <<clock, History>>
  PROVE  TypeOK'
<1>1. /\ db' \in Tables /\ work' \in Tables /\ writer' \in Sessions \cup {NULL}
      /\ clock' = clock /\ tokens' \subseteq GrantIds /\ ledger' \subseteq Entry
  BY DEF TypeOK, ReadOnly, History
<1>2. QED BY <1>1, StepType

\* The same for a step that writes, under the lock.
LEMMA WriteType ==
  ASSUME TypeOK, NEW s \in Sessions, NEW place, NEW m, NEW tables,
         Goto(s, place, m), SessionOK(s, place, req[s], m),
         Write(s, tables), tables \in Tables,
         UNCHANGED <<clock, req, History>>
  PROVE  TypeOK'
<1>1. /\ db' \in Tables /\ work' \in Tables /\ writer' \in Sessions \cup {NULL}
      /\ clock' = clock /\ tokens' \subseteq GrantIds /\ ledger' \subseteq Entry
  BY DEF TypeOK, Write, History
<1>2. QED BY <1>1, StepType

\* The answers that carry a code alone are answers.
LEMMA DeniedType ==
  ASSUME NEW code \in Verdicts \cup SourceVerdicts \cup
                      {"issued", "observation_not_found"}
  PROVE  Denied(code) \in Answer
BY DEF Denied, Answer

\* The steps of a request for a grant keep every variable well typed.
LEMMA IssueType ==
  ASSUME TypeOK, NEW s \in Handlers,
         \/ \E r \in IssueRequest : IssueStart(s, r)
         \/ IssueInsert(s) \/ IssueCommit(s)
  PROVE  TypeOK'
<1>0. s \in Sessions /\ SessionOK(s, pc[s], req[s], mem[s])
  BY DEF Sessions, TypeOK
<1>1. ASSUME NEW r \in IssueRequest, IssueStart(s, r)
      PROVE  TypeOK'
  <2> DEFINE verdict == SourceVerdict(r.source, clock)
             m == [at |-> clock, granted |-> {}]
  <2>1. CASE Goto(s, "answered", Denied(verdict))
    <3>1. SessionOK(s, "answered", r, Denied(verdict))
      BY <1>0, DeniedType, VerdictType, Places DEF Requests
    <3>2. QED BY <1>0, <1>1, <2>1, <3>1, ReadType DEF IssueStart, Start
  <2>2. CASE Goto(s, "insert_grant", m)
    <3>1. SessionOK(s, "insert_grant", r, m)
      BY <1>0, Places DEF IssueAt, IssueLocals, TypeOK
    <3>2. QED BY <1>0, <1>1, <2>2, <3>1, ReadType DEF IssueStart, Start
  <2>3. QED BY <1>1, <2>1, <2>2 DEF IssueStart
<1>2. ASSUME IssueInsert(s)
      PROVE  TypeOK'
  <2>1. req[s] \in IssueRequest /\ mem[s] \in IssueLocals
    BY <1>0, <1>2 DEF IssueInsert, SessionOK, IssueAt
  <2>2. PICK g \in GrantIds \ tokens :
          LET row == NewGrant(g, req[s].user, req[s].source,
                              req[s].fingerprint, mem[s].at)
          IN  /\ Write(s, [View(s) EXCEPT !.grants = @ \cup {row}])
              /\ Goto(s, "commit_grant", [mem[s] EXCEPT !.granted = {g}])
    BY <1>2 DEF IssueInsert
  <2> DEFINE row == NewGrant(g, req[s].user, req[s].source,
                             req[s].fingerprint, mem[s].at)
  <2>3. row \in Grant
    BY <2>1, TimeAssumption DEF NewGrant, Grant, IssueRequest, IssueLocals
  <2>4. [View(s) EXCEPT !.grants = @ \cup {row}] \in Tables
    BY <1>0, <2>3, ViewType DEF Tables
  <2>5. [mem[s] EXCEPT !.granted = {g}] \in IssueLocals
    BY <2>1 DEF IssueLocals
  <2>6. SessionOK(s, "commit_grant", req[s], [mem[s] EXCEPT !.granted = {g}])
    BY <1>0, <2>1, <2>5, Places DEF IssueAt
  <2>7. UNCHANGED <<clock, req, History>>
    BY <1>2 DEF IssueInsert
  <2>8. QED BY <1>0, <2>2, <2>4, <2>6, <2>7, WriteType
<1>3. ASSUME IssueCommit(s)
      PROVE  TypeOK'
  <2>1. req[s] \in IssueRequest /\ mem[s] \in IssueLocals
    BY <1>0, <1>3 DEF IssueCommit, SessionOK, IssueAt
  <2>2. SessionOK(s, "answered", req[s], Denied("issued"))
    BY <1>0, <2>1, DeniedType, Places DEF Requests
  <2>3. /\ db' \in Tables /\ work' \in Tables /\ writer' \in Sessions \cup {NULL}
        /\ clock' = clock /\ tokens' \subseteq GrantIds /\ ledger' \subseteq Entry
    BY <1>3, <2>1 DEF IssueCommit, Publish, IssueLocals, TypeOK
  <2>4. QED BY <1>0, <1>3, <2>2, <2>3, StepType DEF IssueCommit
<1>4. QED BY <1>1, <1>2, <1>3

\* The first three steps of a request for an observation keep every variable
\* well typed.
LEMMA CreateReadType ==
  ASSUME TypeOK, NEW s \in Handlers,
         \/ \E r \in CreateRequest : CreateStart(s, r)
         \/ SelectGrant(s) \/ Authorize(s) \/ CheckGrant(s)
  PROVE  TypeOK'
<1>0. s \in Sessions /\ SessionOK(s, pc[s], req[s], mem[s])
  BY DEF Sessions, TypeOK
<1>1. ASSUME NEW r \in CreateRequest, CreateStart(s, r)
      PROVE  TypeOK'
  <2> DEFINE verdict == SourceVerdict(r.source, clock)
             hits == {p \in View(s).replays : p.user = r.user /\ p.key = r.key}
             m == [at |-> clock, before |-> {e.row.id : e \in ledger},
                   grants |-> {}, gate |-> clock, made |-> {}]
  <2>1. CASE Goto(s, "answered", Queued({p.observation : p \in hits}))
    <3>1. Queued({p.observation : p \in hits}) \in Answer
      BY <1>0, ViewType DEF Queued, Answer, Tables, Replay
    <3>2. SessionOK(s, "answered", r, Queued({p.observation : p \in hits}))
      BY <1>0, <3>1, Places DEF Requests
    <3>3. QED BY <1>0, <1>1, <2>1, <3>2, ReadType DEF CreateStart, Start
  <2>2. CASE Goto(s, "answered", Denied(verdict))
    <3>1. SessionOK(s, "answered", r, Denied(verdict))
      BY <1>0, DeniedType, VerdictType, Places DEF Requests
    <3>2. QED BY <1>0, <1>1, <2>2, <3>1, ReadType DEF CreateStart, Start
  <2>3. CASE Goto(s, "select_grant", m)
    <3>1. {e.row.id : e \in ledger} \subseteq ObservationIds
      BY DEF TypeOK, Entry, Observation
    <3>2. m \in CreateLocals
      BY <3>1 DEF CreateLocals, TypeOK
    <3>3. SessionOK(s, "select_grant", r, m)
      BY <1>0, <3>2, Places DEF CreateAt
    <3>4. QED BY <1>0, <1>1, <2>3, <3>3, ReadType DEF CreateStart, Start
  <2>4. QED BY <1>1, <2>1, <2>2, <2>3 DEF CreateStart
<1>2. ASSUME pc[s] \in CreateAt
      PROVE  req[s] \in CreateRequest /\ mem[s] \in CreateLocals
  BY <1>0, <1>2 DEF SessionOK
<1>3. ASSUME SelectGrant(s)
      PROVE  TypeOK'
  <2> DEFINE r == req[s]
             found == {g \in View(s).grants : g.user = r.user /\ g.id = r.grant}
             verdict == AnyGrantVerdict(found, r.source, r.fingerprint, mem[s].at)
             m == [mem[s] EXCEPT !.grants = found]
  <2>1. req[s] \in CreateRequest /\ mem[s] \in CreateLocals
    BY <1>2, <1>3 DEF SelectGrant, CreateAt
  <2>2. CASE Goto(s, "answered", Denied(verdict))
    <3>1. SessionOK(s, "answered", req[s], Denied(verdict))
      BY <1>0, <2>1, DeniedType, VerdictType, Places DEF Requests
    <3>2. QED BY <1>0, <1>3, <2>2, <3>1, ReadType DEF SelectGrant
  <2>3. CASE Goto(s, "authorize", m)
    <3>1. m \in CreateLocals
      BY <1>0, <2>1, ViewType DEF CreateLocals, Tables
    <3>2. SessionOK(s, "authorize", req[s], m)
      BY <1>0, <2>1, <3>1, Places DEF CreateAt
    <3>3. QED BY <1>0, <1>3, <2>3, <3>2, ReadType DEF SelectGrant
  <2>4. QED BY <1>3, <2>2, <2>3 DEF SelectGrant
<1>4. ASSUME Authorize(s)
      PROVE  TypeOK'
  <2> DEFINE r == req[s]
             done == {o.completed : o \in {o \in View(s).observations :
                        /\ o.user = r.user
                        /\ o.source = r.source
                        /\ o.fingerprint = r.fingerprint}}
             verdict == GateVerdict(SourcePolicy(r.source, mem[s].at), r.context,
                          r.fingerprint, mem[s].grants, done, clock, MinGap)
             m == [mem[s] EXCEPT !.gate = clock]
  <2>1. req[s] \in CreateRequest /\ mem[s] \in CreateLocals
    BY <1>2, <1>4 DEF Authorize, CreateAt
  <2>2. CASE Goto(s, "answered", Denied(verdict))
    <3>1. SessionOK(s, "answered", req[s], Denied(verdict))
      BY <1>0, <2>1, DeniedType, VerdictType, Places DEF Requests
    <3>2. QED BY <1>0, <1>4, <2>2, <3>1, ReadType DEF Authorize
  <2>3. CASE Goto(s, "check_grant", m)
    <3>1. m \in CreateLocals
      BY <2>1 DEF CreateLocals, TypeOK
    <3>2. SessionOK(s, "check_grant", req[s], m)
      BY <1>0, <2>1, <3>1, Places DEF CreateAt, WritingAt
    <3>3. QED BY <1>0, <1>4, <2>3, <3>2, ReadType DEF Authorize
  <2>4. QED BY <1>4, <2>2, <2>3 DEF Authorize
<1>5. ASSUME CheckGrant(s)
      PROVE  TypeOK'
  <2>1. req[s] \in CreateRequest /\ mem[s] \in CreateLocals
    BY <1>2, <1>5 DEF CheckGrant, CreateAt, WritingAt
  <2>2. SessionOK(s, "answered", req[s], Denied("user_action_grant_consumed"))
    BY <1>0, <2>1, DeniedType, Places DEF Requests, Verdicts, GrantCodes
  <2>3. SessionOK(s, "consume", req[s], mem[s])
    BY <1>0, <2>1, Places DEF CreateAt, WritingAt
  <2>4. QED BY <1>0, <1>5, <2>2, <2>3, ReadType DEF CheckGrant
<1>6. QED BY <1>1, <1>3, <1>4, <1>5

\* The writing steps of a request for an observation keep every variable well
\* typed.
LEMMA CreateWriteType ==
  ASSUME TypeOK, NEW s \in Handlers,
         \/ Consume(s) \/ Observe(s) \/ RecordIdempotency(s)
         \/ RecordConflict(s) \/ CreateCommit(s)
  PROVE  TypeOK'
<1>0. s \in Sessions /\ SessionOK(s, pc[s], req[s], mem[s])
  BY DEF Sessions, TypeOK
<1>1. ASSUME pc[s] \in WritingAt
      PROVE  req[s] \in CreateRequest /\ mem[s] \in CreateLocals
  BY <1>0, <1>1 DEF SessionOK, CreateAt
<1>2. ASSUME Consume(s)
      PROVE  TypeOK'
  <2> DEFINE tables == [View(s) EXCEPT !.grants =
               {IF g.id = req[s].grant THEN [g EXCEPT !.consumed = TRUE]
                ELSE g : g \in @}]
  <2>1. req[s] \in CreateRequest /\ mem[s] \in CreateLocals
    BY <1>1, <1>2 DEF Consume, WritingAt
  <2>2. \A g \in Grant : [g EXCEPT !.consumed = TRUE] \in Grant
    BY DEF Grant
  <2>3. tables \in Tables
    BY <1>0, <2>2, ViewType DEF Tables
  <2>4. SessionOK(s, "observe", req[s], mem[s])
    BY <1>0, <2>1, Places DEF CreateAt, WritingAt
  <2>5. QED BY <1>0, <1>2, <2>3, <2>4, WriteType DEF Consume
<1>3. ASSUME Observe(s)
      PROVE  TypeOK'
  <2> DEFINE r == req[s]
             row(id) == NewObservation(id, r.grant, r.user, r.source,
                          r.fingerprint, mem[s].at, mem[s].at)
  <2>1. req[s] \in CreateRequest /\ mem[s] \in CreateLocals
    BY <1>1, <1>3 DEF Observe, WritingAt
  <2>2. PICK id \in ObservationIds :
          /\ Write(s, [View(s) EXCEPT !.observations = @ \cup {row(id)},
                                      !.offers = @ \cup {id}])
          /\ Goto(s, "record", [mem[s] EXCEPT !.made = {row(id)}])
    BY <1>3 DEF Observe
  <2>3. row(id) \in Observation
    BY <2>1, TimeAssumption
    DEF NewObservation, Observation, CreateRequest, CreateLocals
  <2>4. [View(s) EXCEPT !.observations = @ \cup {row(id)},
                        !.offers = @ \cup {id}] \in Tables
    BY <1>0, <2>3, ViewType DEF Tables
  <2>5. [mem[s] EXCEPT !.made = {row(id)}] \in CreateLocals
    BY <2>1, <2>3 DEF CreateLocals
  <2>6. SessionOK(s, "record", req[s], [mem[s] EXCEPT !.made = {row(id)}])
    BY <1>0, <2>1, <2>5, Places DEF CreateAt, WritingAt
  <2>7. UNCHANGED <<clock, req, History>>
    BY <1>3 DEF Observe
  <2>8. QED BY <1>0, <2>2, <2>4, <2>6, <2>7, WriteType
<1>4. ASSUME RecordIdempotency(s)
      PROVE  TypeOK'
  <2> DEFINE new == {[user |-> req[s].user, key |-> req[s].key,
                      observation |-> o.id] : o \in mem[s].made}
             tables == [View(s) EXCEPT !.replays = @ \cup new]
  <2>1. req[s] \in CreateRequest /\ mem[s] \in CreateLocals
    BY <1>1, <1>4 DEF RecordIdempotency, WritingAt
  <2>2. new \subseteq Replay
    BY <2>1 DEF Replay, CreateRequest, CreateLocals, Observation
  <2>3. tables \in Tables
    BY <1>0, <2>2, ViewType DEF Tables
  <2>4. SessionOK(s, "commit_observation", req[s], mem[s])
    BY <1>0, <2>1, Places DEF CreateAt, WritingAt
  <2>5. QED BY <1>0, <1>4, <2>3, <2>4, WriteType DEF RecordIdempotency
<1>5. ASSUME RecordConflict(s)
      PROVE  TypeOK'
  BY <1>0, <1>5, CloseType DEF RecordConflict
<1>6. ASSUME CreateCommit(s)
      PROVE  TypeOK'
  <2> DEFINE new == {[row |-> o, key |-> req[s].key] : o \in mem[s].made}
  <2>1. req[s] \in CreateRequest /\ mem[s] \in CreateLocals
    BY <1>1, <1>6 DEF CreateCommit, WritingAt
  <2>2. Queued(Ids(mem[s].made)) \in Answer
    BY <2>1 DEF Queued, Ids, Answer, CreateLocals, Observation
  <2>3. SessionOK(s, "answered", req[s], Queued(Ids(mem[s].made)))
    BY <1>0, <2>1, <2>2, Places DEF Requests
  <2>4. new \subseteq Entry
    BY <2>1 DEF Entry, CreateRequest, CreateLocals
  <2>5. /\ db' \in Tables /\ work' \in Tables /\ writer' \in Sessions \cup {NULL}
        /\ clock' = clock /\ tokens' \subseteq GrantIds /\ ledger' \subseteq Entry
    BY <1>6, <2>4 DEF CreateCommit, Publish, TypeOK
  <2>6. QED BY <1>0, <1>6, <2>3, <2>5, StepType DEF CreateCommit
<1>7. QED BY <1>2, <1>3, <1>4, <1>5, <1>6

\* The steps of a GET keep every variable well typed.
LEMMA GetType ==
  ASSUME TypeOK, NEW s \in Handlers,
         (\E r \in GetRequest : GetStart(s, r)) \/ GetOffers(s)
  PROVE  TypeOK'
<1>0. s \in Sessions /\ SessionOK(s, pc[s], req[s], mem[s])
  BY DEF Sessions, TypeOK
<1>1. ASSUME NEW r \in GetRequest, GetStart(s, r)
      PROVE  TypeOK'
  <2> DEFINE rows == {o \in View(s).observations :
                        o.user = r.user /\ o.id = r.observation}
  <2>1. CASE Goto(s, "answered", Denied("observation_not_found"))
    <3>1. SessionOK(s, "answered", r, Denied("observation_not_found"))
      BY <1>0, DeniedType, Places DEF Requests
    <3>2. QED BY <1>0, <1>1, <2>1, <3>1, ReadType DEF GetStart, Start
  <2>2. CASE Goto(s, "select_offers", [rows |-> rows])
    <3>1. [rows |-> rows] \in GetLocals
      BY <1>0, ViewType DEF GetLocals, Tables
    <3>2. SessionOK(s, "select_offers", r, [rows |-> rows])
      BY <1>0, <3>1, Places DEF GetAt
    <3>3. QED BY <1>0, <1>1, <2>2, <3>2, ReadType DEF GetStart, Start
  <2>3. QED BY <1>1, <2>1, <2>2 DEF GetStart
<1>2. ASSUME GetOffers(s)
      PROVE  TypeOK'
  <2> DEFINE answer == [code |-> "found", accepted |-> {}, rows |-> mem[s].rows,
                        offers |-> View(s).offers \cap Ids(mem[s].rows)]
  <2>1. req[s] \in GetRequest /\ mem[s] \in GetLocals
    BY <1>0, <1>2 DEF GetOffers, SessionOK, GetAt
  <2>2. answer \in Answer
    BY <1>0, <2>1, ViewType DEF Answer, GetLocals, Tables
  <2>3. SessionOK(s, "answered", req[s], answer)
    BY <1>0, <2>1, <2>2, Places DEF Requests
  <2>4. QED BY <1>0, <1>2, <2>3, ReadType DEF GetOffers
<1>3. QED BY <1>1, <1>2

\* The steps of the clean-up command keep every variable well typed.
LEMMA CleanType ==
  ASSUME TypeOK, NEW c \in Cleaners,
         (\E r \in CleanCommand : CleanStart(c, r)) \/ CleanerStep(c)
  PROVE  TypeOK'
<1>0. c \in Sessions /\ SessionOK(c, pc[c], req[c], mem[c]) /\ View(c) \in Tables
  BY ViewType DEF Sessions, TypeOK
<1>1. \A place \in CleanAt, r \in CleanCommand, m \in CleanLocals :
        SessionOK(c, place, r, m)
  BY <1>0, Places
<1>2. ASSUME NEW r \in CleanCommand, CleanStart(c, r)
      PROVE  TypeOK'
  <2> DEFINE expired == Ids({o \in View(c).observations : o.expires <= clock})
             m == [now |-> clock, expired |-> expired, offers |-> {},
                   keys |-> {}, grants |-> {}]
             place == IF expired = {} THEN "scan_grants" ELSE "scan_offers"
  <2>1. expired \subseteq ObservationIds
    BY <1>0 DEF Ids, Tables, Observation
  <2>2. m \in CleanLocals
    BY <2>1 DEF CleanLocals, TypeOK
  <2>3. SessionOK(c, place, r, m)
    BY <1>1, <2>2 DEF CleanAt
  <2>4. QED BY <1>0, <1>2, <2>3, ReadType DEF CleanStart, Start
<1>3. ASSUME pc[c] \in CleanAt
      PROVE  req[c] \in CleanCommand /\ mem[c] \in CleanLocals
  BY <1>0, <1>3 DEF SessionOK
<1>4. ASSUME ScanOffers(c)
      PROVE  TypeOK'
  <2> DEFINE m == [mem[c] EXCEPT !.offers = View(c).offers \cap mem[c].expired]
  <2>1. req[c] \in CleanCommand /\ mem[c] \in CleanLocals
    BY <1>3, <1>4 DEF ScanOffers, CleanAt
  <2>2. m \in CleanLocals
    BY <1>0, <2>1 DEF CleanLocals, Tables
  <2>3. SessionOK(c, "scan_replays", req[c], m)
    BY <1>1, <2>1, <2>2 DEF CleanAt
  <2>4. QED BY <1>0, <1>4, <2>3, ReadType DEF ScanOffers
<1>5. ASSUME ScanReplays(c)
      PROVE  TypeOK'
  <2> DEFINE keys == {<<p.user, p.key>> :
                        p \in {p \in View(c).replays : p.observation \in mem[c].expired}}
             m == [mem[c] EXCEPT !.keys = keys]
  <2>1. req[c] \in CleanCommand /\ mem[c] \in CleanLocals
    BY <1>3, <1>5 DEF ScanReplays, CleanAt
  <2>2. keys \subseteq Users \X Keys
    BY <1>0 DEF Tables, Replay
  <2>3. m \in CleanLocals
    BY <2>1, <2>2 DEF CleanLocals
  <2>4. SessionOK(c, "purge", req[c], m)
    BY <1>1, <2>1, <2>3 DEF CleanAt
  <2>5. QED BY <1>0, <1>5, <2>4, ReadType DEF ScanReplays
<1>6. ASSUME Purge(c)
      PROVE  TypeOK'
  <2> DEFINE tables == [View(c) EXCEPT
               !.offers = @ \ mem[c].offers,
               !.replays = {p \in @ : <<p.user, p.key>> \notin mem[c].keys},
               !.observations = {o \in @ : o.id \notin mem[c].expired}]
  <2>1. req[c] \in CleanCommand /\ mem[c] \in CleanLocals
    BY <1>3, <1>6 DEF Purge, CleanAt
  <2>2. tables \in Tables
    BY <1>0 DEF Tables
  <2>3. SessionOK(c, "scan_grants", req[c], mem[c])
    BY <1>1, <2>1 DEF CleanAt
  <2>4. QED BY <1>0, <1>6, <2>2, <2>3, WriteType DEF Purge
<1>7. ASSUME ScanGrants(c)
      PROVE  TypeOK'
  <2> DEFINE dead == Ids({g \in View(c).grants : g.expires <= mem[c].now})
             m == [mem[c] EXCEPT !.grants = dead]
             place == IF dead = {} THEN "finish" ELSE "purge_grants"
  <2>1. req[c] \in CleanCommand /\ mem[c] \in CleanLocals
    BY <1>3, <1>7 DEF ScanGrants, CleanAt
  <2>2. dead \subseteq GrantIds
    BY <1>0 DEF Ids, Tables, Grant
  <2>3. m \in CleanLocals
    BY <2>1, <2>2 DEF CleanLocals
  <2>4. SessionOK(c, place, req[c], m)
    BY <1>1, <2>1, <2>3 DEF CleanAt
  <2>5. QED BY <1>0, <1>7, <2>4, ReadType DEF ScanGrants
<1>8. ASSUME PurgeGrants(c)
      PROVE  TypeOK'
  <2> DEFINE tables == [View(c) EXCEPT
               !.grants = {g \in @ : g.id \notin mem[c].grants}]
  <2>1. req[c] \in CleanCommand /\ mem[c] \in CleanLocals
    BY <1>3, <1>8 DEF PurgeGrants, CleanAt
  <2>2. tables \in Tables
    BY <1>0 DEF Tables
  <2>3. SessionOK(c, "finish", req[c], mem[c])
    BY <1>1, <2>1 DEF CleanAt
  <2>4. QED BY <1>0, <1>8, <2>2, <2>3, WriteType DEF PurgeGrants
<1>9. ASSUME Finish(c)
      PROVE  TypeOK'
  <2>1. /\ DOMAIN pc' = Sessions /\ DOMAIN req' = Sessions /\ DOMAIN mem' = Sessions
        /\ pc'[c] = "idle"
        /\ \A t \in Sessions \ {c} :
             pc'[t] = pc[t] /\ req'[t] = req[t] /\ mem'[t] = mem[t]
    BY <1>0, <1>9 DEF TypeOK, Finish
  <2>2. SessionOK(c, pc'[c], req'[c], mem'[c])
    BY <1>0, <2>1, Places
  <2>3. /\ db' \in Tables /\ work' \in Tables /\ writer' \in Sessions \cup {NULL}
        /\ clock' = clock /\ tokens' \subseteq GrantIds /\ ledger' \subseteq Entry
    BY <1>9 DEF TypeOK, Finish, Publish, Discard, History
  <2>4. QED BY <1>0, <2>1, <2>2, <2>3, MoveType
<1>10. ASSUME BusyTimeout(c)
       PROVE  TypeOK'
  BY <1>0, <1>10, CloseType DEF BusyTimeout
<1>11. QED
  BY <1>2, <1>4, <1>5, <1>6, <1>7, <1>8, <1>9, <1>10 DEF CleanerStep

\* Every step keeps every variable well typed.
LEMMA TypeStep == TypeOK /\ [Next]_vars => TypeOK'
<1> SUFFICES ASSUME TypeOK, [Next]_vars
             PROVE  TypeOK'
  OBVIOUS
<1>1. ASSUME NEW s \in Handlers, Arrival(s)
      PROVE  TypeOK'
  BY <1>1, IssueType, CreateReadType, GetType DEF Arrival
<1>2. ASSUME NEW s \in Handlers, HandlerStep(s)
      PROVE  TypeOK'
  <2>1. s \in Sessions
    BY DEF Sessions
  <2>2. CASE Respond(s) \/ BusyTimeout(s)
    BY <2>1, <2>2, CloseType DEF Respond, BusyTimeout
  <2>3. QED
    BY <1>2, <2>2, IssueType, CreateReadType, CreateWriteType, GetType
    DEF HandlerStep
<1>3. ASSUME NEW c \in Cleaners,
             (\E r \in CleanCommand : CleanStart(c, r)) \/ CleanerStep(c)
      PROVE  TypeOK'
  BY <1>3, CleanType
<1>4. ASSUME NEW s \in Sessions, Crash(s)
      PROVE  TypeOK'
  BY <1>4, CloseType DEF Crash
<1>5. CASE Tick
  BY <1>5, TimeAssumption DEF Tick, TypeOK
<1>6. CASE UNCHANGED vars
  BY <1>6 DEF vars, TypeOK
<1>7. QED BY <1>1, <1>2, <1>3, <1>4, <1>5, <1>6 DEF Next

\* The variables start well typed.
LEMMA TypeInit == Init => TypeOK
<1> SUFFICES ASSUME Init PROVE TypeOK
  OBVIOUS
<1>1. NoRows \in Tables
  BY DEF NoRows, Tables
<1>2. \A s \in Sessions : SessionOK(s, pc[s], req[s], mem[s])
  BY Places DEF Init
<1>3. QED BY <1>1, <1>2, TimeAssumption DEF Init, TypeOK

\* Every session of the durable service and of its clean-up command always
\* stands where its code may stand, with the request and the locals that
\* belong there, over tables of well-formed rows.
THEOREM TypeCorrect == Spec => []TypeOK
<1>1. QED BY TypeInit, TypeStep, PTL DEF Spec

(***************************************************************************)
(* The tables of the durable service are consistent and an accepted answer  *)
(* is durable, whatever handlers and clean-ups run, overlap or die.         *)
(*                                                                         *)
(* Neither property is inductive: what a session is about to publish or to   *)
(* delete was computed in earlier steps.  TableInv adds who holds the write *)
(* lock, how the uncommitted tables differ from the committed ones, and     *)
(* what the ids read by a clean-up still mean when it deletes by them.      *)
(***************************************************************************)
LedgerIds == {e.row.id : e \in ledger}

\* Where a session holds the write lock.
HandlerLocks == {"commit_grant", "observe", "record", "commit_observation"}
CleanerLocks == {"scan_grants", "purge_grants", "finish"}

\* Uncommitted writes exist only under the lock, and the places of the
\* sessions tell who holds it.
LockOK ==
  /\ writer = NULL => work = db
  /\ \A s \in Handlers : writer = s <=> pc[s] \in HandlerLocks
  /\ \A c \in Cleaners : writer = c => pc[c] \in CleanerLocks

\* The rows a request has inserted and not yet committed.
MadeBy(s) == IF pc[s] \in {"record", "commit_observation"} THEN mem[s].made ELSE {}
ReplaysBy(s) ==
  IF pc[s] = "commit_observation"
  THEN {[user |-> req[s].user, key |-> req[s].key, observation |-> o.id] :
          o \in mem[s].made}
  ELSE {}

\* They are in the uncommitted tables, and the observation is the one built
\* from the request, under an id no committed observation has.
MadeOK(s) ==
  /\ pc[s] \in {"record", "commit_observation"} =>
       \E id \in ObservationIds \ LedgerIds :
         mem[s].made = {NewObservation(id, req[s].grant, req[s].user,
                          req[s].source, req[s].fingerprint,
                          mem[s].at, mem[s].at)}
  /\ MadeBy(s) \subseteq work.observations
  /\ ReplaysBy(s) \subseteq work.replays

Committed(o) == \E e \in ledger : e.row = o
Recorded(p) ==
  \E e \in ledger : /\ e.row.id = p.observation
                    /\ e.row.user = p.user /\ e.key = p.key

\* Every row is that of a committed request, or of the one being written.
OriginOK ==
  /\ \A o \in db.observations : Committed(o)
  /\ \A p \in db.replays : Recorded(p)
  /\ \A o \in work.observations :
       Committed(o) \/ \E s \in Handlers : o \in MadeBy(s)
  /\ \A p \in work.replays :
       Recorded(p) \/ \E s \in Handlers : p \in ReplaysBy(s)
  /\ \A id \in work.offers : id \in LedgerIds => id \in db.offers
  /\ \A p \in work.replays : p.observation \in LedgerIds => p \in db.replays

Consistent(t) ==
  /\ t.offers = Ids(t.observations)
  /\ {p.observation : p \in t.replays} \subseteq Ids(t.observations)
  /\ \A p, q \in t.replays : p.user = q.user /\ p.key = q.key => p = q

\* What a clean-up read still covers every row it must delete together.
CleanOK(c) ==
  /\ pc[c] \in {"scan_offers", "scan_replays", "purge"} =>
       mem[c].expired \subseteq LedgerIds
  /\ pc[c] \in {"scan_replays", "purge"} =>
       /\ mem[c].offers \subseteq mem[c].expired
       /\ db.offers \cap mem[c].expired \subseteq mem[c].offers
  /\ pc[c] = "purge" =>
       \A p \in db.replays :
         p.observation \in mem[c].expired => <<p.user, p.key>> \in mem[c].keys

\* AcceptedIsDurable, for one handler.
AnswerOK(s) ==
  pc[s] = "answered" =>
    \A id \in mem[s].accepted :
      \E e \in ledger : /\ e.row.id = id /\ mem[s].accepted = {id}
                        /\ e.row.user = req[s].user /\ e.key = req[s].key

UniqueIds == \A e, f \in ledger : e.row.id = f.row.id => e = f

TableInv ==
  /\ LockOK
  /\ \A s \in Handlers : MadeOK(s)
  /\ OriginOK
  /\ Consistent(db) /\ Consistent(work)
  /\ \A c \in Cleaners : CleanOK(c)
  /\ UniqueIds
  /\ \A s \in Handlers : AnswerOK(s)

-----------------------------------------------------------------------------
(* Frames: what a step leaves alone.                                        *)

\* The sessions other than s stay as they are.
Still(s) ==
  \A t \in Sessions \ {s} :
    pc'[t] = pc[t] /\ req'[t] = req[t] /\ mem'[t] = mem[t]

\* Goto moves its session to the place and the locals it names.
LEMMA GotoEffect ==
  ASSUME TypeOK, NEW s \in Sessions, NEW place, NEW m, Goto(s, place, m)
  PROVE  /\ pc'[s] = place /\ mem'[s] = m
         /\ req' = req => Still(s) /\ req'[s] = req[s]
         /\ \A r : Start(s, r) => Still(s) /\ req'[s] = r /\ pc[s] = "idle"
BY DEF TypeOK, Goto, Start, Still

\* Close sends its session home.
LEMMA CloseEffect ==
  ASSUME TypeOK, NEW s \in Sessions, Close(s)
  PROVE  pc'[s] = "idle" /\ Still(s)
BY DEF TypeOK, Close, Still

\* A step that only reads, outside the lock, keeps the invariant if its own
\* session's clean-up snapshot or answer does.
LEMMA QuietKeeps ==
  ASSUME TypeOK, TableInv, NEW s \in Sessions, Still(s), ReadOnly, ledger' = ledger,
         s \in Handlers => /\ pc[s] \notin HandlerLocks /\ pc'[s] \notin HandlerLocks
                          /\ AnswerOK(s)',
         s \in Cleaners => /\ pc'[s] \in CleanerLocks \/ writer # s
                          /\ CleanOK(s)'
  PROVE  TableInv'
<1>1. LockOK'
  BY DEF TableInv, LockOK, ReadOnly, Still, Sessions
<1>2. \A t \in Handlers : MadeOK(t)'
  BY DEF TableInv, MadeOK, MadeBy, ReplaysBy, ReadOnly, Still, Sessions,
         HandlerLocks, LedgerIds
<1>3. \A t \in Handlers : MadeBy(t)' = MadeBy(t) /\ ReplaysBy(t)' = ReplaysBy(t)
  BY DEF MadeBy, ReplaysBy, Still, Sessions, HandlerLocks
<1>4. OriginOK'
  BY <1>3 DEF TableInv, OriginOK, ReadOnly, Committed, Recorded, LedgerIds
<1>5. Consistent(db)' /\ Consistent(work)' /\ UniqueIds'
  BY DEF TableInv, Consistent, ReadOnly, UniqueIds
<1>6. \A c \in Cleaners : CleanOK(c)'
  BY DEF TableInv, CleanOK, Still, Sessions, LedgerIds, ReadOnly
<1>7. \A t \in Handlers : AnswerOK(t)'
  BY DEF TableInv, AnswerOK, Still, Sessions
<1>8. QED BY <1>1, <1>2, <1>4, <1>5, <1>6, <1>7 DEF TableInv

\* A session that closes takes its uncommitted rows with it.
LEMMA CloseKeeps ==
  ASSUME TypeOK, TableInv, NEW s \in Sessions, Close(s)
  PROVE  TableInv'
<1>1. pc'[s] = "idle" /\ Still(s)
  BY CloseEffect
<1>2. /\ db' = db /\ ledger' = ledger
      /\ writer = s => writer' = NULL /\ work' = db
      /\ writer # s => writer' = writer /\ work' = work
  BY DEF Close, Discard, History
<1>3. LockOK'
  BY <1>1, <1>2, SessionAssumption
  DEF TableInv, LockOK, Still, Sessions, HandlerLocks, CleanerLocks
<1>4. \A t \in Handlers : MadeOK(t)'
  BY <1>1, <1>2
  DEF TableInv, LockOK, HandlerLocks, MadeOK, MadeBy, ReplaysBy, Still, Sessions,
      LedgerIds
<1>5. ASSUME writer # s
      PROVE  OriginOK'
  <2>1. \A t \in Handlers : MadeBy(t)' = MadeBy(t) /\ ReplaysBy(t)' = ReplaysBy(t)
    BY <1>1, <1>5 DEF TableInv, LockOK, MadeBy, ReplaysBy, Still, Sessions, HandlerLocks
  <2>2. QED
    BY <1>2, <1>5, <2>1 DEF TableInv, OriginOK, Committed, Recorded, LedgerIds
<1>6. OriginOK'
  BY <1>2, <1>5 DEF TableInv, OriginOK, Committed, Recorded, LedgerIds
<1>7. Consistent(db)' /\ Consistent(work)' /\ UniqueIds'
  BY <1>2 DEF TableInv, Consistent, UniqueIds
<1>8. \A c \in Cleaners : CleanOK(c)'
  BY <1>1, <1>2 DEF TableInv, CleanOK, Still, Sessions, LedgerIds
<1>9. \A t \in Handlers : AnswerOK(t)'
  BY <1>1, <1>2 DEF TableInv, AnswerOK, Still, Sessions
<1>10. QED BY <1>3, <1>4, <1>6, <1>7, <1>8, <1>9 DEF TableInv

-----------------------------------------------------------------------------
(* The steps that read.                                                     *)

\* The reading steps of a handler keep the invariant: a replayed answer names
\* the committed observation its replay row was recorded with.
LEMMA HandlerReadsKeep ==
  ASSUME TypeOK, TableInv, NEW s \in Handlers,
         \/ Arrival(s) \/ SelectGrant(s) \/ Authorize(s) \/ CheckGrant(s)
         \/ GetOffers(s)
  PROVE  TableInv'
<1>0. s \in Sessions /\ s \notin Cleaners
  BY SessionAssumption DEF Sessions
<1> DEFINE Safe == /\ Still(s) /\ ReadOnly /\ ledger' = ledger
                   /\ pc[s] \notin HandlerLocks /\ pc'[s] \notin HandlerLocks
                   /\ AnswerOK(s)'
<1>1. ASSUME NEW code, Goto(s, "answered", Denied(code))
      PROVE  pc'[s] = "answered" /\ AnswerOK(s)'
  BY <1>0, <1>1, GotoEffect DEF AnswerOK, Denied
<1>2. ASSUME NEW r \in IssueRequest, IssueStart(s, r)
      PROVE  Safe
  <2>1. Still(s) /\ pc[s] = "idle" /\ ReadOnly /\ ledger' = ledger
    BY <1>0, <1>2, GotoEffect DEF IssueStart, History
  <2>2. pc'[s] \in {"answered", "insert_grant"} /\ AnswerOK(s)'
    BY <1>0, <1>1, <1>2, GotoEffect DEF IssueStart, AnswerOK
  <2>3. QED BY <2>1, <2>2 DEF HandlerLocks
<1>3. ASSUME NEW r \in CreateRequest, CreateStart(s, r)
      PROVE  Safe
  <2> DEFINE hits == {p \in View(s).replays : p.user = r.user /\ p.key = r.key}
  <2>1. Still(s) /\ pc[s] = "idle" /\ req'[s] = r /\ ReadOnly /\ ledger' = ledger
    BY <1>0, <1>3, GotoEffect DEF CreateStart, History
  <2>2. CASE Goto(s, "answered", Queued({p.observation : p \in hits}))
    <3>1. pc'[s] = "answered" /\ mem'[s].accepted = {p.observation : p \in hits}
      BY <1>0, <2>2, GotoEffect DEF Queued
    <3>2. View(s) = db
      BY <2>1 DEF TableInv, LockOK, View, HandlerLocks
    <3>3. \A p \in hits : hits = {p} /\ Recorded(p)
      BY <3>2 DEF TableInv, Consistent, OriginOK
    <3>4. AnswerOK(s)'
      BY <2>1, <3>1, <3>3 DEF AnswerOK, Recorded
    <3>5. QED BY <2>1, <3>1, <3>4 DEF HandlerLocks
  <2>3. CASE ~ Goto(s, "answered", Queued({p.observation : p \in hits}))
    <3>1. pc'[s] \in {"answered", "select_grant"} /\ AnswerOK(s)'
      BY <1>0, <1>1, <1>3, <2>3, GotoEffect DEF CreateStart, AnswerOK
    <3>2. QED BY <2>1, <3>1 DEF HandlerLocks
  <2>4. QED BY <2>2, <2>3
<1>4. ASSUME SelectGrant(s)
      PROVE  Safe
  <2>1. Still(s) /\ pc[s] = "select_grant" /\ ReadOnly /\ ledger' = ledger
    BY <1>0, <1>4, GotoEffect DEF SelectGrant, History
  <2>2. pc'[s] \in {"answered", "authorize"} /\ AnswerOK(s)'
    BY <1>0, <1>1, <1>4, GotoEffect DEF SelectGrant, AnswerOK
  <2>3. QED BY <2>1, <2>2 DEF HandlerLocks
<1>5. ASSUME Authorize(s)
      PROVE  Safe
  <2>1. Still(s) /\ pc[s] = "authorize" /\ ReadOnly /\ ledger' = ledger
    BY <1>0, <1>5, GotoEffect DEF Authorize, History
  <2>2. pc'[s] \in {"answered", "check_grant"} /\ AnswerOK(s)'
    BY <1>0, <1>1, <1>5, GotoEffect DEF Authorize, AnswerOK
  <2>3. QED BY <2>1, <2>2 DEF HandlerLocks
<1>6. ASSUME CheckGrant(s)
      PROVE  Safe
  <2>1. Still(s) /\ pc[s] = "check_grant" /\ ReadOnly /\ ledger' = ledger
    BY <1>0, <1>6, GotoEffect DEF CheckGrant, History
  <2>2. pc'[s] \in {"answered", "consume"} /\ AnswerOK(s)'
    BY <1>0, <1>1, <1>6, GotoEffect DEF CheckGrant, AnswerOK
  <2>3. QED BY <2>1, <2>2 DEF HandlerLocks
<1>7. ASSUME NEW r \in GetRequest, GetStart(s, r)
      PROVE  Safe
  <2>1. Still(s) /\ pc[s] = "idle" /\ ReadOnly /\ ledger' = ledger
    BY <1>0, <1>7, GotoEffect DEF GetStart, History
  <2>2. pc'[s] \in {"answered", "select_offers"} /\ AnswerOK(s)'
    BY <1>0, <1>1, <1>7, GotoEffect DEF GetStart, AnswerOK
  <2>3. QED BY <2>1, <2>2 DEF HandlerLocks
<1>8. ASSUME GetOffers(s)
      PROVE  Safe
  <2>1. Still(s) /\ pc[s] = "select_offers" /\ ReadOnly /\ ledger' = ledger
    BY <1>0, <1>8, GotoEffect DEF GetOffers, History
  <2>2. pc'[s] = "answered" /\ mem'[s].accepted = {}
    BY <1>0, <1>8, GotoEffect DEF GetOffers
  <2>3. QED BY <2>1, <2>2 DEF HandlerLocks, AnswerOK
<1>9. Safe
  BY <1>2, <1>3, <1>4, <1>5, <1>6, <1>7, <1>8 DEF Arrival
<1>10. QED BY <1>0, <1>9, QuietKeeps

\* The reading steps of a clean-up keep the invariant: each SELECT finds the
\* rows its DELETE will have to cover.
LEMMA CleanerReadsKeep ==
  ASSUME TypeOK, TableInv, NEW c \in Cleaners,
         \/ \E r \in CleanCommand : CleanStart(c, r)
         \/ ScanOffers(c) \/ ScanReplays(c) \/ ScanGrants(c)
  PROVE  TableInv'
<1>0. c \in Sessions /\ c \notin Handlers /\ SessionOK(c, pc[c], req[c], mem[c])
  BY SessionAssumption DEF Sessions, TypeOK
<1> DEFINE Safe == /\ Still(c) /\ ReadOnly /\ ledger' = ledger
                   /\ pc'[c] \in CleanerLocks \/ writer # c
                   /\ CleanOK(c)'
<1>1. pc[c] \notin CleanerLocks => writer # c /\ View(c) = db
  BY DEF TableInv, LockOK, View
<1>2. ASSUME NEW r \in CleanCommand, CleanStart(c, r)
      PROVE  Safe
  <2>1. Still(c) /\ pc[c] = "idle" /\ ReadOnly /\ ledger' = ledger
    BY <1>0, <1>2, GotoEffect DEF CleanStart, History
  <2>2. /\ pc'[c] \in {"scan_grants", "scan_offers"}
        /\ mem'[c].expired \subseteq Ids(View(c).observations)
    BY <1>0, <1>2, GotoEffect DEF CleanStart, Ids
  <2>3. writer # c /\ View(c) = db
    BY <1>1, <2>1 DEF CleanerLocks
  <2>4. mem'[c].expired \subseteq LedgerIds
    BY <2>2, <2>3 DEF Ids, LedgerIds, TableInv, OriginOK, Committed
  <2>5. CleanOK(c)'
    BY <2>1, <2>2, <2>4 DEF CleanOK, LedgerIds
  <2>6. QED BY <2>1, <2>3, <2>5
<1>3. ASSUME ScanOffers(c)
      PROVE  Safe
  <2>1. pc[c] = "scan_offers" /\ mem[c] \in CleanLocals
    BY <1>0, <1>3 DEF ScanOffers, SessionOK, CleanAt
  <2>2. Still(c) /\ ReadOnly /\ ledger' = ledger /\ writer # c /\ View(c) = db
    BY <1>0, <1>1, <1>3, <2>1, GotoEffect DEF ScanOffers, History, CleanerLocks
  <2>3. /\ pc'[c] = "scan_replays" /\ mem'[c].expired = mem[c].expired
        /\ mem'[c].offers = db.offers \cap mem[c].expired
    BY <1>0, <1>3, <2>1, <2>2, GotoEffect DEF ScanOffers, CleanLocals
  <2>4. CleanOK(c)'
    BY <2>1, <2>2, <2>3 DEF CleanOK, TableInv, ReadOnly, LedgerIds
  <2>5. QED BY <2>2, <2>4
<1>4. ASSUME ScanReplays(c)
      PROVE  Safe
  <2>1. pc[c] = "scan_replays" /\ mem[c] \in CleanLocals
    BY <1>0, <1>4 DEF ScanReplays, SessionOK, CleanAt
  <2>2. Still(c) /\ ReadOnly /\ ledger' = ledger /\ writer # c /\ View(c) = db
    BY <1>0, <1>1, <1>4, <2>1, GotoEffect DEF ScanReplays, History, CleanerLocks
  <2>3. /\ pc'[c] = "purge" /\ mem'[c].expired = mem[c].expired
        /\ mem'[c].offers = mem[c].offers
        /\ mem'[c].keys = {<<p.user, p.key>> :
             p \in {p \in db.replays : p.observation \in mem[c].expired}}
    BY <1>0, <1>4, <2>1, <2>2, GotoEffect DEF ScanReplays, CleanLocals
  <2>4. CleanOK(c)'
    BY <2>1, <2>2, <2>3 DEF CleanOK, TableInv, ReadOnly, LedgerIds
  <2>5. QED BY <2>2, <2>4
<1>5. ASSUME ScanGrants(c)
      PROVE  Safe
  <2>1. Still(c) /\ ReadOnly /\ ledger' = ledger
    BY <1>0, <1>5, GotoEffect DEF ScanGrants, History
  <2>2. pc'[c] \in {"finish", "purge_grants"}
    BY <1>0, <1>5, GotoEffect DEF ScanGrants
  <2>3. QED BY <2>1, <2>2 DEF CleanOK, CleanerLocks
<1>6. Safe
  BY <1>2, <1>3, <1>4, <1>5
<1>7. QED BY <1>0, <1>6, QuietKeeps

-----------------------------------------------------------------------------
(* The steps that write under the lock.                                     *)

\* Writes to the grants table alone.
LEMMA GrantWriteKeeps ==
  ASSUME TypeOK, TableInv, NEW s \in Sessions, Still(s),
         db' = db, ledger' = ledger, writer \in {NULL, s}, writer' = s,
         /\ work'.observations = work.observations
         /\ work'.offers = work.offers
         /\ work'.replays = work.replays,
         s \in Handlers => /\ pc[s] \notin {"record", "commit_observation"}
                          /\ pc'[s] \in {"commit_grant", "observe"},
         s \in Cleaners => pc'[s] = "finish"
  PROVE  TableInv'
<1>0. s # NULL
  BY SessionAssumption DEF Sessions
<1>1. LockOK'
  BY <1>0, SessionAssumption
  DEF TableInv, LockOK, Still, Sessions, HandlerLocks, CleanerLocks
<1>2. \A t \in Handlers : MadeBy(t)' = MadeBy(t) /\ ReplaysBy(t)' = ReplaysBy(t)
  BY SessionAssumption DEF MadeBy, ReplaysBy, Still, Sessions
<1>3. \A t \in Handlers : MadeOK(t)'
  BY <1>2, SessionAssumption DEF TableInv, MadeOK, Still, Sessions, LedgerIds
<1>4. OriginOK'
  BY <1>2 DEF TableInv, OriginOK, Committed, Recorded, LedgerIds
<1>5. Consistent(db)' /\ Consistent(work)' /\ UniqueIds'
  BY DEF TableInv, Consistent, UniqueIds
<1>6. \A c \in Cleaners : CleanOK(c)'
  BY SessionAssumption DEF TableInv, CleanOK, Still, Sessions, LedgerIds
<1>7. \A t \in Handlers : AnswerOK(t)'
  BY SessionAssumption DEF TableInv, AnswerOK, Still, Sessions
<1>8. QED BY <1>1, <1>3, <1>4, <1>5, <1>6, <1>7 DEF TableInv

\* IssueInsert, Consume and PurgeGrants write to the grants table alone.
LEMMA GrantWritesKeep ==
  ASSUME TypeOK, TableInv, NEW s \in Sessions,
         \/ s \in Handlers /\ (IssueInsert(s) \/ Consume(s))
         \/ s \in Cleaners /\ PurgeGrants(s)
  PROVE  TableInv'
<1> DEFINE Safe == /\ Still(s)
                   /\ db' = db /\ ledger' = ledger /\ writer \in {NULL, s} /\ writer' = s
                   /\ work'.observations = View(s).observations
                   /\ work'.offers = View(s).offers
                   /\ work'.replays = View(s).replays
<1>0. View(s) = work \/ writer \notin {NULL, s}
  BY DEF TableInv, LockOK, View
<1>1. View(s) \in Tables
  BY ViewType
<1>2. ASSUME s \in Handlers, IssueInsert(s)
      PROVE  Safe /\ pc[s] = "insert_grant" /\ pc'[s] = "commit_grant"
  BY <1>1, <1>2, GotoEffect DEF IssueInsert, Write, Tables, History
<1>3. ASSUME s \in Handlers, Consume(s)
      PROVE  Safe /\ pc[s] = "consume" /\ pc'[s] = "observe"
  BY <1>1, <1>3, GotoEffect DEF Consume, Write, Tables, History
<1>4. ASSUME s \in Cleaners, PurgeGrants(s)
      PROVE  Safe /\ pc'[s] = "finish"
  BY <1>1, <1>4, GotoEffect DEF PurgeGrants, Write, Tables, History
<1>5. Safe
  BY <1>2, <1>3, <1>4
<1>6. QED
  BY <1>0, <1>2, <1>3, <1>4, <1>5, GrantWriteKeeps, SessionAssumption

\* The inserted observation brings its offer.
LEMMA ObserveKeeps ==
  ASSUME TypeOK, TableInv, NEW s \in Handlers, Observe(s)
  PROVE  TableInv'
<1>0. s \in Sessions /\ s # NULL /\ SessionOK(s, pc[s], req[s], mem[s])
  BY SessionAssumption DEF Sessions, TypeOK
<1>1. pc[s] = "observe" /\ req[s] \in CreateRequest /\ mem[s] \in CreateLocals
  BY <1>0 DEF Observe, SessionOK, CreateAt, WritingAt
<1>2. writer = s /\ View(s) = work /\ work \in Tables
  BY <1>1 DEF TableInv, LockOK, HandlerLocks, View, TypeOK
<1> DEFINE row(id) == NewObservation(id, req[s].grant, req[s].user, req[s].source,
                        req[s].fingerprint, mem[s].at, mem[s].at)
<1>3. PICK id \in ObservationIds \ LedgerIds :
        /\ Write(s, [View(s) EXCEPT !.observations = @ \cup {row(id)},
                                    !.offers = @ \cup {id}])
        /\ Goto(s, "record", [mem[s] EXCEPT !.made = {row(id)}])
  BY DEF Observe, LedgerIds
<1>4. /\ Still(s) /\ pc'[s] = "record" /\ req'[s] = req[s]
      /\ mem'[s].made = {row(id)} /\ mem'[s].at = mem[s].at
  BY <1>0, <1>1, <1>3, GotoEffect DEF Observe, CreateLocals
<1>5. /\ db' = db /\ ledger' = ledger /\ writer' = s
      /\ work'.observations = work.observations \cup {row(id)}
      /\ work'.offers = work.offers \cup {id}
      /\ work'.replays = work.replays
  BY <1>2, <1>3 DEF Write, Tables, Observe, History
<1>6. LockOK'
  BY <1>0, <1>1, <1>4, <1>5, SessionAssumption
  DEF TableInv, LockOK, Still, Sessions, HandlerLocks, CleanerLocks
<1>7. /\ MadeBy(s) = {} /\ ReplaysBy(s) = {}
      /\ MadeBy(s)' = {row(id)} /\ ReplaysBy(s)' = {}
      /\ \A t \in Handlers \ {s} : /\ MadeBy(t)' = MadeBy(t)
                                   /\ ReplaysBy(t)' = ReplaysBy(t)
  BY <1>1, <1>4 DEF MadeBy, ReplaysBy, Still, Sessions
<1>8. ASSUME NEW t \in Handlers
      PROVE  MadeOK(t)'
  <2>1. CASE t = s
    BY <1>4, <1>5, <1>7, <2>1 DEF MadeOK, LedgerIds
  <2>2. CASE t # s
    BY <1>4, <1>5, <1>7, <2>2 DEF TableInv, MadeOK, Still, Sessions, LedgerIds
  <2>3. QED BY <2>1, <2>2
<1>9. OriginOK'
  BY <1>3, <1>5, <1>7 DEF TableInv, OriginOK, Committed, Recorded, LedgerIds
<1>10. Consistent(db)' /\ UniqueIds'
  BY <1>5 DEF TableInv, Consistent, UniqueIds
<1>11. Consistent(work)'
  <2>1. row(id).id = id
    BY DEF NewObservation
  <2>2. Ids(work'.observations) = Ids(work.observations) \cup {id}
    BY <1>5, <2>1 DEF Ids
  <2>3. QED BY <1>5, <2>2 DEF TableInv, Consistent
<1>12. \A c \in Cleaners : CleanOK(c)'
  BY <1>4, <1>5, SessionAssumption DEF TableInv, CleanOK, Still, Sessions, LedgerIds
<1>13. \A t \in Handlers : AnswerOK(t)'
  BY <1>4, <1>5 DEF TableInv, AnswerOK, Still, Sessions
<1>14. QED BY <1>6, <1>8, <1>9, <1>10, <1>11, <1>12, <1>13 DEF TableInv

\* The replay row is recorded under a key no other row has.
LEMMA RecordKeeps ==
  ASSUME TypeOK, TableInv, NEW s \in Handlers, RecordIdempotency(s)
  PROVE  TableInv'
<1>0. s \in Sessions /\ s # NULL /\ SessionOK(s, pc[s], req[s], mem[s])
  BY SessionAssumption DEF Sessions, TypeOK
<1>1. pc[s] = "record" /\ req[s] \in CreateRequest /\ mem[s] \in CreateLocals
  BY <1>0 DEF RecordIdempotency, SessionOK, CreateAt, WritingAt
<1>2. writer = s /\ View(s) = work /\ work \in Tables
  BY <1>1 DEF TableInv, LockOK, HandlerLocks, View, TypeOK
<1>3. PICK id \in ObservationIds \ LedgerIds :
        mem[s].made = {NewObservation(id, req[s].grant, req[s].user, req[s].source,
                         req[s].fingerprint, mem[s].at, mem[s].at)}
  BY <1>1 DEF TableInv, MadeOK
<1> DEFINE o == NewObservation(id, req[s].grant, req[s].user, req[s].source,
                               req[s].fingerprint, mem[s].at, mem[s].at)
           row == [user |-> req[s].user, key |-> req[s].key, observation |-> id]
           new == {[user |-> req[s].user, key |-> req[s].key,
                    observation |-> p.id] : p \in mem[s].made}
<1>4. o.id = id /\ new = {row}
  BY <1>3 DEF NewObservation
<1>5. o \in work.observations
  BY <1>1, <1>3 DEF TableInv, MadeOK, MadeBy
<1>6. /\ Still(s) /\ pc'[s] = "commit_observation" /\ req'[s] = req[s]
      /\ mem'[s] = mem[s]
  BY <1>0, GotoEffect DEF RecordIdempotency
<1>7. /\ db' = db /\ ledger' = ledger /\ writer' = s
      /\ work'.observations = work.observations
      /\ work'.offers = work.offers
      /\ work'.replays = work.replays \cup {row}
  BY <1>2, <1>4 DEF Write, Tables, RecordIdempotency, History
<1>8. LockOK'
  BY <1>0, <1>1, <1>6, <1>7, SessionAssumption
  DEF TableInv, LockOK, Still, Sessions, HandlerLocks, CleanerLocks
<1>9. /\ MadeBy(s)' = MadeBy(s) /\ ReplaysBy(s) = {} /\ ReplaysBy(s)' = {row}
      /\ \A t \in Handlers \ {s} : /\ MadeBy(t)' = MadeBy(t)
                                   /\ ReplaysBy(t)' = ReplaysBy(t)
  BY <1>1, <1>4, <1>6 DEF MadeBy, ReplaysBy, Still, Sessions
<1>10. ASSUME NEW t \in Handlers
       PROVE  MadeOK(t)'
  <2>1. CASE t = s
    BY <1>1, <1>3, <1>6, <1>7, <1>9, <2>1 DEF TableInv, MadeOK, LedgerIds
  <2>2. CASE t # s
    BY <1>6, <1>7, <1>9, <2>2 DEF TableInv, MadeOK, Still, Sessions, LedgerIds
  <2>3. QED BY <2>1, <2>2
<1>11. OriginOK'
  BY <1>3, <1>7, <1>9 DEF TableInv, OriginOK, Committed, Recorded, LedgerIds
<1>12. Consistent(db)' /\ UniqueIds'
  BY <1>7 DEF TableInv, Consistent, UniqueIds
<1>13. Consistent(work)'
  <2>1. id \in Ids(work.observations)
    BY <1>4, <1>5 DEF Ids
  <2>2. \A p \in work.replays : ~(p.user = row.user /\ p.key = row.key)
    BY <1>2 DEF RecordIdempotency, Taken
  <2>3. QED BY <1>7, <2>1, <2>2 DEF TableInv, Consistent
<1>14. \A c \in Cleaners : CleanOK(c)'
  BY <1>6, <1>7, SessionAssumption DEF TableInv, CleanOK, Still, Sessions, LedgerIds
<1>15. \A t \in Handlers : AnswerOK(t)'
  BY <1>6, <1>7 DEF TableInv, AnswerOK, Still, Sessions
<1>16. QED BY <1>8, <1>10, <1>11, <1>12, <1>13, <1>14, <1>15 DEF TableInv

\* The clean-up deletes an observation with its offer and its replay row: no
\* row it had to read was added since it read them.
LEMMA PurgeKeeps ==
  ASSUME TypeOK, TableInv, NEW c \in Cleaners, Purge(c)
  PROVE  TableInv'
<1>0. /\ c \in Sessions /\ c # NULL /\ c \notin Handlers
      /\ SessionOK(c, pc[c], req[c], mem[c])
  BY SessionAssumption DEF Sessions, TypeOK
<1>1. pc[c] = "purge" /\ mem[c] \in CleanLocals
  BY <1>0 DEF Purge, SessionOK, CleanAt
<1>2. writer = NULL /\ work = db /\ View(c) = db /\ db \in Tables
  <2>1. writer # c
    BY <1>1 DEF TableInv, LockOK, CleanerLocks
  <2>2. QED BY <2>1 DEF Purge, Write, TableInv, LockOK, View, TypeOK
<1>3. Still(c) /\ pc'[c] = "scan_grants"
  BY <1>0, GotoEffect DEF Purge
<1>4. /\ db' = db /\ ledger' = ledger /\ writer' = c
      /\ work'.observations = {o \in db.observations : o.id \notin mem[c].expired}
      /\ work'.offers = db.offers \ mem[c].offers
      /\ work'.replays = {p \in db.replays : <<p.user, p.key>> \notin mem[c].keys}
  BY <1>2 DEF Purge, Write, Tables, History
<1>5. LockOK'
  BY <1>0, <1>2, <1>3, <1>4, SessionAssumption
  DEF TableInv, LockOK, Still, Sessions, CleanerLocks
<1>6. \A t \in Handlers :
        MadeBy(t) = {} /\ MadeBy(t)' = {} /\ ReplaysBy(t) = {} /\ ReplaysBy(t)' = {}
  BY <1>0, <1>2, <1>3, SessionAssumption
  DEF TableInv, LockOK, HandlerLocks, MadeBy, ReplaysBy, Still, Sessions
<1>7. \A t \in Handlers : MadeOK(t)'
  BY <1>0, <1>2, <1>3, <1>6, SessionAssumption
  DEF TableInv, LockOK, HandlerLocks, MadeOK, Still, Sessions
<1>8. OriginOK'
  BY <1>2, <1>4, <1>6 DEF TableInv, OriginOK, Committed, Recorded, LedgerIds
<1>9. Consistent(db)' /\ UniqueIds'
  BY <1>4 DEF TableInv, Consistent, UniqueIds
<1>10. Consistent(work)'
  <2>1. db.offers \cap mem[c].expired = mem[c].offers \cap db.offers
    BY <1>1 DEF TableInv, CleanOK
  <2>2. Ids(work'.observations) = Ids(db.observations) \ mem[c].expired
    BY <1>4 DEF Ids
  <2>3. work'.offers = Ids(work'.observations)
    BY <1>4, <2>1, <2>2 DEF TableInv, Consistent
  <2>4. \A p \in work'.replays : p.observation \notin mem[c].expired
    BY <1>1, <1>4 DEF TableInv, CleanOK
  <2>5. \A p \in work'.replays : p.observation \in Ids(work'.observations)
    <3>1. \A p \in db.replays : p.observation \in Ids(db.observations)
      BY DEF TableInv, Consistent
    <3>2. QED BY <1>4, <2>2, <2>4, <3>1
  <2>6. \A p, q \in work'.replays : p.user = q.user /\ p.key = q.key => p = q
    BY <1>4 DEF TableInv, Consistent
  <2>7. QED BY <2>3, <2>5, <2>6 DEF Consistent
<1>11. \A d \in Cleaners : CleanOK(d)'
  BY <1>3, <1>4 DEF TableInv, CleanOK, Still, Sessions, LedgerIds
<1>12. \A t \in Handlers : AnswerOK(t)'
  BY <1>0, <1>3, <1>4 DEF TableInv, AnswerOK, Still, Sessions
<1>13. QED BY <1>5, <1>7, <1>8, <1>9, <1>10, <1>11, <1>12 DEF TableInv

-----------------------------------------------------------------------------
(* The steps that commit.                                                   *)

\* A commit without a new observation publishes rows of committed requests.
LEMMA PublishKeeps ==
  ASSUME TypeOK, TableInv, NEW s \in Sessions, Still(s), Publish(s), writer = s,
         ledger' = ledger,
         s \in Handlers => pc[s] = "commit_grant" /\ pc'[s] = "answered" /\ AnswerOK(s)',
         s \in Cleaners => pc'[s] = "idle"
  PROVE  TableInv'
<1>0. s # NULL
  BY SessionAssumption DEF Sessions
<1>1. db' = work /\ work' = work /\ writer' = NULL
  BY DEF Publish
<1>2. LockOK'
  BY <1>0, <1>1, SessionAssumption
  DEF TableInv, LockOK, Still, Sessions, HandlerLocks, CleanerLocks
<1>3. \A t \in Handlers :
        MadeBy(t) = {} /\ MadeBy(t)' = {} /\ ReplaysBy(t) = {} /\ ReplaysBy(t)' = {}
  BY SessionAssumption
  DEF TableInv, LockOK, HandlerLocks, MadeBy, ReplaysBy, Still, Sessions
<1>4. \A t \in Handlers : MadeOK(t)'
  BY <1>3, SessionAssumption
  DEF TableInv, LockOK, HandlerLocks, MadeOK, Still, Sessions
<1>5. OriginOK'
  <2>1. \A o \in work.observations : Committed(o)
    BY <1>3 DEF TableInv, OriginOK
  <2>2. \A p \in work.replays : Recorded(p)
    BY <1>3 DEF TableInv, OriginOK
  <2>3. QED BY <1>1, <2>1, <2>2 DEF OriginOK, Committed, Recorded
<1>6. Consistent(db)' /\ Consistent(work)' /\ UniqueIds'
  BY <1>1 DEF TableInv, Consistent, UniqueIds
<1>7. ASSUME NEW c \in Cleaners
      PROVE  CleanOK(c)'
  <2>1. CASE c = s
    BY <2>1 DEF CleanOK
  <2>2. CASE c # s
    <3>1. pc'[c] = pc[c] /\ mem'[c] = mem[c] /\ LedgerIds' = LedgerIds
      BY <2>2 DEF Still, Sessions, LedgerIds
    <3>2. \A p \in work.replays : p.observation \in LedgerIds => p \in db.replays
      BY DEF TableInv, OriginOK
    <3>3. QED BY <1>1, <3>1, <3>2 DEF TableInv, CleanOK, OriginOK
  <2>3. QED BY <2>1, <2>2
<1>8. \A t \in Handlers : AnswerOK(t)'
  BY DEF TableInv, AnswerOK, Still, Sessions
<1>9. QED BY <1>2, <1>4, <1>5, <1>6, <1>7, <1>8 DEF TableInv

\* IssueCommit publishes the grant.
LEMMA IssueCommitKeeps ==
  ASSUME TypeOK, TableInv, NEW s \in Handlers, IssueCommit(s)
  PROVE  TableInv'
<1>1. s \in Sessions /\ s \notin Cleaners
  BY SessionAssumption DEF Sessions
<1>2. pc[s] = "commit_grant" /\ writer = s
  BY DEF IssueCommit, TableInv, LockOK, HandlerLocks
<1>3. Still(s) /\ pc'[s] = "answered" /\ mem'[s].accepted = {}
  BY <1>1, GotoEffect DEF IssueCommit, Denied
<1>4. AnswerOK(s)'
  BY <1>3 DEF AnswerOK
<1>5. QED BY <1>1, <1>2, <1>3, <1>4, PublishKeeps DEF IssueCommit

\* Finish publishes what the clean-up deleted, or leaves the tables alone.
LEMMA FinishKeeps ==
  ASSUME TypeOK, TableInv, NEW c \in Cleaners, Finish(c)
  PROVE  TableInv'
<1>1. c \in Sessions /\ c \notin Handlers
  BY SessionAssumption DEF Sessions
<1>2. CASE writer = c /\ ~req[c].dry
  <2>1. Still(c) /\ pc'[c] = "idle" /\ Publish(c) /\ ledger' = ledger
    BY <1>1, <1>2 DEF Finish, TypeOK, Still, History
  <2>2. QED BY <1>1, <1>2, <2>1, PublishKeeps
<1>3. CASE ~(writer = c /\ ~req[c].dry)
  <2>1. Close(c)
    BY <1>3 DEF Finish, Close
  <2>2. QED BY <1>1, <2>1, CloseKeeps
<1>4. QED BY <1>2, <1>3

\* The commit of an observation makes its rows those of a committed request.
LEMMA CreateCommitKeeps ==
  ASSUME TypeOK, TableInv, NEW s \in Handlers, CreateCommit(s)
  PROVE  TableInv'
<1>0. s \in Sessions /\ s # NULL /\ s \notin Cleaners
  BY SessionAssumption DEF Sessions
<1>1. pc[s] = "commit_observation" /\ writer = s
  BY DEF CreateCommit, TableInv, LockOK, HandlerLocks
<1>2. PICK id \in ObservationIds \ LedgerIds :
        mem[s].made = {NewObservation(id, req[s].grant, req[s].user, req[s].source,
                         req[s].fingerprint, mem[s].at, mem[s].at)}
  BY <1>1 DEF TableInv, MadeOK
<1> DEFINE o == NewObservation(id, req[s].grant, req[s].user, req[s].source,
                               req[s].fingerprint, mem[s].at, mem[s].at)
           entry == [row |-> o, key |-> req[s].key]
           replay == [user |-> req[s].user, key |-> req[s].key, observation |-> id]
<1>3. /\ o.id = id /\ o.user = req[s].user
      /\ entry.row = o /\ entry.key = req[s].key
      /\ replay.user = req[s].user /\ replay.key = req[s].key
      /\ replay.observation = id
  BY DEF NewObservation
<1>4. /\ db' = work /\ work' = work /\ writer' = NULL
      /\ ledger' = ledger \cup {entry}
  BY <1>2 DEF CreateCommit, Publish
<1>5. /\ Still(s) /\ pc'[s] = "answered" /\ req'[s] = req[s]
      /\ mem'[s].accepted = {id}
  BY <1>0, <1>2, <1>3, GotoEffect DEF CreateCommit, Queued, Ids
<1>6. LockOK'
  BY <1>0, <1>1, <1>4, <1>5, SessionAssumption
  DEF TableInv, LockOK, Still, Sessions, HandlerLocks, CleanerLocks
<1>7. /\ MadeBy(s) = {o} /\ ReplaysBy(s) = {replay}
      /\ \A t \in Handlers \ {s} : MadeBy(t) = {} /\ ReplaysBy(t) = {}
  BY <1>1, <1>2, <1>3 DEF TableInv, LockOK, HandlerLocks, MadeBy, ReplaysBy
<1> HIDE DEF o, entry, replay
<1>8. LedgerIds' = LedgerIds \cup {id}
  BY <1>3, <1>4 DEF LedgerIds
<1>9. \A t \in Handlers :
        /\ pc'[t] \notin {"record", "commit_observation"}
        /\ MadeBy(t)' = {} /\ ReplaysBy(t)' = {}
  BY <1>1, <1>5 DEF TableInv, LockOK, HandlerLocks, MadeBy, ReplaysBy, Still, Sessions
<1>10. \A t \in Handlers : MadeOK(t)'
  BY <1>9 DEF MadeOK
<1>11. OriginOK'
  <2>1. \A x : Committed(x) => Committed(x)'
    BY <1>4 DEF Committed
  <2>2. \A p : Recorded(p) => Recorded(p)'
    BY <1>4 DEF Recorded
  <2>3. /\ \E e \in ledger' : e.row = o
        /\ \E e \in ledger' : /\ e.row.id = replay.observation
                             /\ e.row.user = replay.user /\ e.key = replay.key
    BY <1>3, <1>4
  <2>4. \A x \in work.observations : Committed(x)'
    BY <1>7, <2>1, <2>3 DEF TableInv, OriginOK, Committed
  <2>5. \A p \in work.replays : Recorded(p)'
    BY <1>7, <2>2, <2>3 DEF TableInv, OriginOK, Recorded
  <2>6. QED BY <1>4, <2>4, <2>5 DEF OriginOK, Committed, Recorded
<1>12. Consistent(db)' /\ Consistent(work)'
  BY <1>4 DEF TableInv, Consistent
<1>13. UniqueIds'
  BY <1>3, <1>4 DEF TableInv, UniqueIds, LedgerIds
<1>14. ASSUME NEW c \in Cleaners
       PROVE  CleanOK(c)'
  <2>1. pc'[c] = pc[c] /\ mem'[c] = mem[c]
    BY <1>0, <1>5 DEF Still, Sessions
  <2>2. \A p \in work.replays : p.observation \in LedgerIds => p \in db.replays
    BY DEF TableInv, OriginOK
  <2>3. QED BY <1>4, <1>8, <2>1, <2>2 DEF TableInv, CleanOK, OriginOK
<1>15. ASSUME NEW t \in Handlers
       PROVE  AnswerOK(t)'
  <2>1. CASE t = s
    BY <1>3, <1>4, <1>5, <2>1 DEF AnswerOK
  <2>2. CASE t # s
    BY <1>4, <1>5, <2>2 DEF TableInv, AnswerOK, Still, Sessions
  <2>3. QED BY <2>1, <2>2
<1>16. QED
  BY <1>6, <1>10, <1>11, <1>12, <1>13, <1>14, <1>15 DEF TableInv

-----------------------------------------------------------------------------
\* Every step keeps the invariant.
LEMMA TableStep == TypeOK /\ TableInv /\ [Next]_vars => TableInv'
<1> SUFFICES ASSUME TypeOK, TableInv, [Next]_vars
             PROVE  TableInv'
  OBVIOUS
<1>1. ASSUME NEW s \in Handlers, Arrival(s) \/ HandlerStep(s)
      PROVE  TableInv'
  <2>1. s \in Sessions
    BY DEF Sessions
  <2>2. CASE Respond(s) \/ BusyTimeout(s) \/ RecordConflict(s)
    BY <2>1, <2>2, CloseKeeps DEF Respond, BusyTimeout, RecordConflict
  <2>3. QED
    BY <1>1, <2>1, <2>2, HandlerReadsKeep, GrantWritesKeep, ObserveKeeps,
       RecordKeeps, IssueCommitKeeps, CreateCommitKeeps
    DEF HandlerStep
<1>2. ASSUME NEW c \in Cleaners,
             (\E r \in CleanCommand : CleanStart(c, r)) \/ CleanerStep(c)
      PROVE  TableInv'
  <2>1. c \in Sessions
    BY DEF Sessions
  <2>2. CASE BusyTimeout(c)
    BY <2>1, <2>2, CloseKeeps DEF BusyTimeout
  <2>3. QED
    BY <1>2, <2>1, <2>2, CleanerReadsKeep, GrantWritesKeep, PurgeKeeps, FinishKeeps
    DEF CleanerStep
<1>3. ASSUME NEW s \in Sessions, Crash(s)
      PROVE  TableInv'
  BY <1>3, CloseKeeps DEF Crash
<1>4. CASE Tick \/ UNCHANGED vars
  <2>1. UNCHANGED <<db, work, writer, pc, req, mem, ledger>>
    BY <1>4 DEF Tick, vars
  <2>2. QED
    BY <2>1 DEF TableInv, LockOK, MadeOK, MadeBy, ReplaysBy, OriginOK, Committed,
       Recorded, LedgerIds, Consistent, CleanOK, AnswerOK, UniqueIds
<1>5. QED BY <1>1, <1>2, <1>3, <1>4 DEF Next

\* The empty tables satisfy the invariant.
LEMMA TableInit == Init => TableInv
<1> SUFFICES ASSUME Init PROVE TableInv
  OBVIOUS
<1>1. LockOK
  BY SessionAssumption DEF Init, LockOK, Sessions, HandlerLocks
<1>2. \A s \in Handlers : MadeOK(s) /\ AnswerOK(s) /\ MadeBy(s) = {} /\ ReplaysBy(s) = {}
  BY DEF Init, Sessions, MadeOK, AnswerOK, MadeBy, ReplaysBy
<1>3. OriginOK /\ UniqueIds
  BY DEF Init, NoRows, OriginOK, UniqueIds
<1>4. Consistent(db) /\ Consistent(work)
  BY DEF Init, NoRows, Consistent, Ids
<1>5. \A c \in Cleaners : CleanOK(c)
  BY DEF Init, Sessions, CleanOK
<1>6. QED BY <1>1, <1>2, <1>3, <1>4, <1>5 DEF TableInv

\* The invariant of the tables holds in every state.
THEOREM TableInvariant == Spec => []TableInv
<1>1. QED BY TypeCorrect, TableInit, TableStep, PTL DEF Spec

\* However requests, crashes, conflicts and overlapping clean-ups interleave,
\* no request leaves part of itself in the committed tables, and no clean-up
\* takes part of one away.
THEOREM TablesStayConsistent == Spec => []TablesConsistent
<1>1. TableInv => TablesConsistent
  BY DEF TableInv, Consistent, TablesConsistent
<1>2. QED BY <1>1, TableInvariant, PTL

\* An accepted answer, first or replayed, names one committed observation of
\* the caller's own user and key.
THEOREM AnswersAreDurable == Spec => []AcceptedIsDurable
<1>1. TableInv => AcceptedIsDurable
  BY DEF TableInv, AnswerOK, AcceptedIsDurable
<1>2. QED BY <1>1, TableInvariant, PTL
=============================================================================
