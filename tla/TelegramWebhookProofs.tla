----------------------- MODULE TelegramWebhookProofs -----------------------
(***************************************************************************)
(* Any number of processes and deliveries accepts an update once, and an    *)
(* update is lost only after a delivery of it failed.                       *)
(*                                                                         *)
(* The invariant adds who holds the write lock, that what it is about to     *)
(* commit has no row yet, and that every mark and every pending success     *)
(* answer stands for an update that is accounted for.                       *)
(***************************************************************************)
EXTENDS TelegramWebhook, TLAPS

\* The write lock is held exactly between the INSERT and the commit.
LockOK == \A d \in Slots : writer = d <=> pc[d] = "commit"

\* A row is written once, by the delivery that accepts the update.
RowsOK ==
  /\ \A d \in Slots : pc[d] = "commit" => job[d].update \notin rows
  /\ \A u \in Updates : accepted[u] = IF u \in rows THEN 1 ELSE 0

\* Recorded, being recorded, or known to have failed.
Accounted(u) ==
  \/ u \in rows \/ u \in failed
  \/ \E d \in Slots : pc[d] \in Recording /\ job[d].update = u

AccountsOK ==
  /\ \A w \in Workers : \A u \in seen[w] : Accounted(u)
  /\ \A d \in Slots : pc[d] = "answered" /\ answer[d] \in Success => Accounted(job[d].update)
  /\ \A u \in acked : Accounted(u)

WebhookInv == LockOK /\ RowsOK /\ AccountsOK

-----------------------------------------------------------------------------
\* The initial state has the types.
LEMMA TypeInit == Init => TypeOK
BY DEF Init, TypeOK

\* Every step keeps the types.
LEMMA TypeStep == TypeOK /\ [Next]_vars => TypeOK'
<1> SUFFICES ASSUME TypeOK, [Next]_vars
             PROVE  TypeOK'
  OBVIOUS
<1> USE DEF TypeOK
<1>1. ASSUME NEW d \in Slots, NEW w \in Workers, NEW u \in Updates \cup {Malformed},
             NEW g \in BOOLEAN, Deliver(d, w, u, g)
      PROVE  TypeOK'
  <2> DEFINE code == Decision(seen[w], g, u)
             j == [worker |-> w, update |-> u]
  <2>1. j \in Jobs /\ j.update = u
    BY DEF Jobs
  <2>2. /\ code \in Codes
        /\ u = Malformed => code \notin Success
    BY WebhookAssumption DEF Decision, Codes, Success
  <2>3. code = "accepted" => u \in Updates
    BY <2>2 DEF Success
  <2> HIDE DEF code, j
  <2>4. /\ job' = [job EXCEPT ![d] = j]
        /\ \/ /\ code = "accepted"
              /\ seen' = [seen EXCEPT ![w] = @ \cup {u}]
              /\ pc' = [pc EXCEPT ![d] = "select"]
              /\ UNCHANGED answer
           \/ /\ code # "accepted"
              /\ pc' = [pc EXCEPT ![d] = "answered"]
              /\ answer' = [answer EXCEPT ![d] = code]
              /\ UNCHANGED seen
        /\ UNCHANGED <<rows, writer, acked, accepted, failed>>
    BY <1>1 DEF Deliver, code, j
  <2>5. QED BY <2>1, <2>2, <2>3, <2>4, WebhookAssumption DEF Recording
<1>2. ASSUME NEW d \in Slots, Select(d)
      PROVE  TypeOK'
  BY <1>2, WebhookAssumption DEF Select, Recording, Codes, Success, Jobs
<1>3. ASSUME NEW d \in Slots, Insert(d)
      PROVE  TypeOK'
  BY <1>3 DEF Insert, Recording
<1>4. ASSUME NEW d \in Slots, Commit(d)
      PROVE  TypeOK'
  <2>1. job[d] \in Jobs /\ job[d].update \in Updates
    BY <1>4 DEF Commit, Recording, Jobs
  <2>2. QED BY <1>4, <2>1, WebhookAssumption DEF Commit, Recording, Codes
<1>5. ASSUME NEW d \in Slots, pc[d] \in Recording, Fail(d)
      PROVE  TypeOK'
  <2>1. job[d].update \in Updates
    BY <1>5 DEF Recording, Jobs
  <2>2. QED BY <1>5, <2>1 DEF Fail
<1>6. ASSUME NEW d \in Slots, NEW arrives \in BOOLEAN, Respond(d, arrives)
      PROVE  TypeOK'
  <2>1. answer[d] \in Success => job[d].update \in Updates
    BY <1>6 DEF Respond, Jobs, Recording
  <2>2. QED BY <1>6, <2>1 DEF Respond
<1>7. ASSUME NEW w \in Workers, Restart(w)
      PROVE  TypeOK'
  <2>1. failed' \subseteq Updates
    BY <1>7 DEF Restart, Recording, Jobs
  <2>2. QED BY <1>7, <2>1 DEF Restart
<1>8. CASE UNCHANGED vars
  BY <1>8 DEF vars
<1>9. QED
  BY <1>1, <1>2, <1>3, <1>4, <1>5, <1>6, <1>7, <1>8
  DEF Next, DeliveryStep, Conflict, BusyTimeout, DatabaseError, Recording

\* Every variable keeps its type, for any number of processes and deliveries.
THEOREM WebhookTypes == Spec => []TypeOK
<1>1. QED BY TypeInit, TypeStep, PTL DEF Spec

-----------------------------------------------------------------------------
\* What is accounted for stays so while no recording ends without its outcome.
LEMMA AccountsFrame ==
  ASSUME rows \subseteq rows', failed \subseteq failed',
         \A d \in Slots : pc[d] \in Recording =>
           \/ pc'[d] \in Recording /\ job'[d].update = job[d].update
           \/ job[d].update \in rows' \cup failed',
         NEW u, Accounted(u)
  PROVE  Accounted(u)'
BY DEF Accounted

\* Every step keeps the invariant.
LEMMA WebhookStep == TypeOK /\ WebhookInv /\ [Next]_vars => WebhookInv'
<1> SUFFICES ASSUME TypeOK, WebhookInv, [Next]_vars
             PROVE  WebhookInv'
  OBVIOUS
<1> USE DEF WebhookInv
<1>0. NULL \notin Slots /\ DOMAIN pc = Slots /\ DOMAIN job = Slots /\ DOMAIN answer = Slots
  BY WebhookAssumption DEF TypeOK
<1>1. ASSUME NEW d \in Slots, NEW w \in Workers, NEW u \in Updates \cup {Malformed},
             NEW g \in BOOLEAN, Deliver(d, w, u, g)
      PROVE  WebhookInv'
  <2>1. /\ pc[d] = "idle" /\ UNCHANGED <<rows, writer, acked, accepted, failed>>
        /\ pc'[d] \in {"select", "answered"} /\ job'[d].update = u
        /\ \A e \in Slots \ {d} : /\ pc'[e] = pc[e] /\ job'[e] = job[e]
                                  /\ answer'[e] = answer[e]
    BY <1>0, <1>1 DEF Deliver
  <2>2. \A v : Accounted(v) => Accounted(v)'
    BY <2>1, AccountsFrame DEF Recording
  <2>3. CASE pc'[d] = "select"
    <3>1. Accounted(u)'
      BY <2>1, <2>3 DEF Accounted, Recording
    <3>2. seen' = [seen EXCEPT ![w] = @ \cup {u}]
      BY <1>0, <1>1, <2>3 DEF Deliver
    <3>3. seen \in [Workers -> SUBSET Updates]
      BY DEF TypeOK
    <3>4. AccountsOK'
      BY <2>1, <2>2, <2>3, <3>1, <3>2, <3>3 DEF AccountsOK
    <3>5. LockOK' /\ RowsOK'
      BY <2>1, <2>3 DEF LockOK, RowsOK
    <3>6. QED BY <3>4, <3>5
  <2>4. CASE pc'[d] = "answered"
    <3>1. seen' = seen /\ answer'[d] = Decision(seen[w], g, u) /\ answer'[d] # "accepted"
      BY <1>0, <1>1, <2>4 DEF Deliver
    <3>2. answer'[d] \in Success => u \in seen[w]
      BY <3>1 DEF Decision, Success
    <3>3. answer'[d] \in Success => Accounted(u)'
      BY <2>2, <3>2 DEF AccountsOK
    <3>4. AccountsOK'
      BY <2>1, <2>2, <3>1, <3>3 DEF AccountsOK
    <3>5. LockOK' /\ RowsOK'
      BY <2>1, <2>4 DEF LockOK, RowsOK
    <3>6. QED BY <3>4, <3>5
  <2>5. QED BY <2>1, <2>3, <2>4
<1>2. ASSUME NEW d \in Slots, Select(d)
      PROVE  WebhookInv'
  <2>1. /\ pc[d] = "select"
        /\ UNCHANGED <<seen, rows, writer, job, acked, accepted, failed>>
        /\ pc'[d] = IF job[d].update \in rows THEN "answered" ELSE "insert"
        /\ \A e \in Slots \ {d} : pc'[e] = pc[e] /\ answer'[e] = answer[e]
    BY <1>0, <1>2 DEF Select
  <2>2. \A v : Accounted(v) => Accounted(v)'
    BY <2>1, AccountsFrame DEF Recording
  <2>3. pc'[d] = "answered" => Accounted(job[d].update)'
    BY <2>1 DEF Accounted
  <2>4. AccountsOK'
    BY <2>1, <2>2, <2>3 DEF AccountsOK
  <2>5. LockOK' /\ RowsOK'
    BY <2>1 DEF LockOK, RowsOK
  <2>6. QED BY <2>4, <2>5
<1>3. ASSUME NEW d \in Slots, Insert(d)
      PROVE  WebhookInv'
  <2>1. /\ pc[d] = "insert" /\ pc'[d] = "commit" /\ writer = NULL /\ writer' = d
        /\ job[d].update \notin rows
        /\ UNCHANGED <<seen, rows, job, answer, acked, accepted, failed>>
        /\ \A e \in Slots \ {d} : pc'[e] = pc[e]
    BY <1>0, <1>3 DEF Insert, Taken
  <2>2. \A v : Accounted(v) => Accounted(v)'
    BY <2>1, AccountsFrame DEF Recording
  <2>3. AccountsOK'
    BY <2>1, <2>2 DEF AccountsOK
  <2>4. LockOK' /\ RowsOK'
    BY <1>0, <2>1 DEF LockOK, RowsOK
  <2>5. QED BY <2>3, <2>4
<1>4. ASSUME NEW d \in Slots, Commit(d)
      PROVE  WebhookInv'
  <2>1. /\ pc[d] = "commit" /\ pc'[d] = "answered" /\ writer' = NULL
        /\ rows' = rows \cup {job[d].update}
        /\ accepted' = [accepted EXCEPT ![job[d].update] = @ + 1]
        /\ UNCHANGED <<seen, job, acked, failed>>
        /\ \A e \in Slots \ {d} : pc'[e] = pc[e] /\ answer'[e] = answer[e]
    BY <1>0, <1>4 DEF Commit
  <2>2. \A v : Accounted(v) => Accounted(v)'
    BY <2>1, AccountsFrame
  <2>3. Accounted(job[d].update)'
    BY <2>1 DEF Accounted
  <2>4. AccountsOK'
    BY <2>1, <2>2, <2>3 DEF AccountsOK
  <2>5. \A e \in Slots \ {d} : pc[e] # "commit"
    BY <2>1 DEF LockOK
  <2>6. RowsOK'
    BY <2>1, <2>5 DEF RowsOK, TypeOK
  <2>7. LockOK'
    BY <1>0, <2>1, <2>5 DEF LockOK
  <2>8. QED BY <2>4, <2>6, <2>7
<1>5. ASSUME NEW d \in Slots, pc[d] \in Recording, Fail(d)
      PROVE  WebhookInv'
  <2>1. /\ pc'[d] = "idle" /\ failed' = failed \cup {job[d].update}
        /\ writer' = IF writer = d THEN NULL ELSE writer
        /\ UNCHANGED <<seen, rows, acked, accepted>>
        /\ \A e \in Slots \ {d} : /\ pc'[e] = pc[e] /\ job'[e] = job[e]
                                  /\ answer'[e] = answer[e]
    BY <1>0, <1>5 DEF Fail
  <2>2. \A v : Accounted(v) => Accounted(v)'
    BY <2>1, AccountsFrame
  <2>3. AccountsOK'
    BY <2>1, <2>2 DEF AccountsOK
  <2>4. LockOK' /\ RowsOK'
    BY <1>0, <2>1 DEF LockOK, RowsOK
  <2>5. QED BY <2>3, <2>4
<1>6. ASSUME NEW d \in Slots, NEW arrives \in BOOLEAN, Respond(d, arrives)
      PROVE  WebhookInv'
  <2>1. /\ pc[d] = "answered" /\ pc'[d] = "idle"
        /\ acked' \subseteq IF answer[d] \in Success THEN acked \cup {job[d].update}
                            ELSE acked
        /\ UNCHANGED <<seen, rows, writer, accepted, failed>>
        /\ \A e \in Slots \ {d} : /\ pc'[e] = pc[e] /\ job'[e] = job[e]
                                  /\ answer'[e] = answer[e]
    BY <1>0, <1>6 DEF Respond
  <2>2. \A v : Accounted(v) => Accounted(v)'
    BY <2>1, AccountsFrame DEF Recording
  <2>3. AccountsOK'
    BY <2>1, <2>2 DEF AccountsOK
  <2>4. LockOK' /\ RowsOK'
    BY <2>1 DEF LockOK, RowsOK
  <2>5. QED BY <2>3, <2>4
<1>7. ASSUME NEW w \in Workers, Restart(w)
      PROVE  WebhookInv'
  <2> DEFINE dead == {d \in Slots : pc[d] # "idle" /\ job[d].worker = w}
  <2>1. /\ seen' = [seen EXCEPT ![w] = {}]
        /\ failed' = failed \cup {job[d].update : d \in {d \in dead : pc[d] # "answered"}}
        /\ writer' = IF writer \in dead THEN NULL ELSE writer
        /\ UNCHANGED <<rows, acked, accepted>>
        /\ \A d \in dead : pc'[d] = "idle"
        /\ \A d \in Slots \ dead : /\ pc'[d] = pc[d] /\ job'[d] = job[d]
                                   /\ answer'[d] = answer[d]
    BY <1>7 DEF Restart
  <2> HIDE DEF dead
  <2>2. \A v : Accounted(v) => Accounted(v)'
    <3>1. \A d \in Slots : pc[d] \in Recording =>
            \/ pc'[d] \in Recording /\ job'[d].update = job[d].update
            \/ job[d].update \in rows' \cup failed'
      BY <2>1 DEF Recording
    <3>2. QED BY <2>1, <3>1, AccountsFrame
  <2>3. \A v \in Workers : seen'[v] \subseteq seen[v]
    BY <2>1 DEF TypeOK
  <2>4. AccountsOK'
    BY <2>1, <2>2, <2>3 DEF AccountsOK
  <2>5. LockOK' /\ RowsOK'
    BY <1>0, <2>1 DEF LockOK, RowsOK
  <2>6. QED BY <2>4, <2>5
<1>8. CASE UNCHANGED vars
  BY <1>8 DEF vars, LockOK, RowsOK, AccountsOK, Accounted
<1>9. QED
  BY <1>1, <1>2, <1>3, <1>4, <1>5, <1>6, <1>7, <1>8
  DEF Next, DeliveryStep, Conflict, BusyTimeout, DatabaseError, Recording

\* Nothing is marked, recorded or acknowledged at the start.
LEMMA WebhookInit == Init => WebhookInv
BY WebhookAssumption DEF Init, WebhookInv, LockOK, RowsOK, AccountsOK

\* The invariant holds in every state.
THEOREM WebhookInvariant == Spec => []WebhookInv
<1>1. QED BY WebhookTypes, WebhookInit, WebhookStep, PTL DEF Spec

\* An update is accepted once, whatever processes race, fail or restart.
THEOREM UpdatesAcceptedOnce == Spec => []AcceptedOnce
<1>1. WebhookInv => AcceptedOnce
  BY DEF WebhookInv, RowsOK, AcceptedOnce
<1>2. QED BY <1>1, WebhookInvariant, PTL

\* An update the provider has stopped delivering is recorded or being recorded,
\* unless a delivery of it failed.
THEOREM LossesHaveFailures == Spec => []LossNeedsFailure
<1>1. WebhookInv => LossNeedsFailure
  BY DEF WebhookInv, AccountsOK, Accounted, LossNeedsFailure, InFlight
<1>2. QED BY <1>1, WebhookInvariant, PTL
=============================================================================
