-------------------------- MODULE TelegramWebhook --------------------------
(***************************************************************************)
(* POST /api/v1/telegram/webhook: TelegramWebhookHandler keeps the update   *)
(* ids one process has seen, TelegramUpdateRepository the ids recorded in   *)
(* the database that all processes share.                                   *)
(*                                                                         *)
(* An update id is marked as seen before its row is written, so a delivery  *)
(* that fails in between leaves a mark that only a restart removes.         *)
(*                                                                         *)
(* The provider is external: it delivers an update, again and also while an  *)
(* earlier delivery is in flight, until it gets an answer with status 2xx.   *)
(***************************************************************************)
EXTENDS Naturals

CONSTANTS
  Workers,   \* processes that serve the endpoint
  Slots,     \* deliveries in flight at once
  Updates,   \* genuine update ids
  Malformed, \* a body without an update id
  NULL       \* no delivery, no session

ASSUME WebhookAssumption ==
  /\ NULL \notin Slots
  /\ Malformed \notin Updates

VARIABLES
  seen,      \* the seen set of each process
  rows,      \* the committed rows of telegram_update_dedupe
  writer,    \* the delivery whose session holds the write lock, or NULL
  pc,        \* where each delivery stands
  job,       \* the process that serves it and the update it brings
  answer,    \* the code it is about to send
  acked,     \* updates the provider got a 2xx answer for
  accepted,  \* history: how often an update was accepted
  failed     \* history: updates whose recording failed

vars == <<seen, rows, writer, pc, job, answer, acked, accepted, failed>>

Codes == {"accepted", "duplicate", "invalid_update", "secret_mismatch"}

\* _telegram_response_status: 202 and 200 against 400 and 403.
Success == {"accepted", "duplicate"}

Jobs == [worker: Workers, update: Updates \cup {Malformed}]

\* Mutant of Decision: an update without an id is let through.
DecisionUnchecked(marked, genuine, u) ==
  IF ~genuine THEN "secret_mismatch"
  ELSE IF u \in marked THEN "duplicate"
  ELSE "accepted"

\* TelegramWebhookHandler.handle_update, with the bot enabled.
Decision(marked, genuine, u) ==
  IF ~genuine THEN "secret_mismatch"
  ELSE IF u = Malformed THEN "invalid_update"
  ELSE IF u \in marked THEN "duplicate"
  ELSE "accepted"

Init ==
  /\ seen = [w \in Workers |-> {}]
  /\ rows = {} /\ writer = NULL
  /\ pc = [d \in Slots |-> "idle"]
  /\ job = [d \in Slots |-> NULL]
  /\ answer = [d \in Slots |-> NULL]
  /\ acked = {} /\ accepted = [u \in Updates |-> 0] /\ failed = {}

-----------------------------------------------------------------------------
\* A delivery arrives: handle_update decides, marks the update as seen and,
\* if it accepts, a session opens.
Deliver(d, w, u, genuine) ==
  LET code == Decision(seen[w], genuine, u)
  IN  /\ pc[d] = "idle" /\ u \notin acked
      /\ job' = [job EXCEPT ![d] = [worker |-> w, update |-> u]]
      /\ \/ /\ code = "accepted"
            /\ seen' = [seen EXCEPT ![w] = @ \cup {u}]
            /\ pc' = [pc EXCEPT ![d] = "select"]
            /\ UNCHANGED answer
         \/ /\ code # "accepted"
            /\ pc' = [pc EXCEPT ![d] = "answered"]
            /\ answer' = [answer EXCEPT ![d] = code]
            /\ UNCHANGED seen
      /\ UNCHANGED <<rows, writer, acked, accepted, failed>>

\* Mutant of Select: the lookup takes any row for the update's.
SelectAnyRow(d) ==
  LET known == rows # {}
  IN  /\ pc[d] = "select"
      /\ pc' = [pc EXCEPT ![d] = IF known THEN "answered" ELSE "insert"]
      /\ answer' = [answer EXCEPT ![d] = IF known THEN "duplicate" ELSE @]
      /\ UNCHANGED <<seen, rows, writer, job, acked, accepted, failed>>

\* record_update, its SELECT: a recorded update is a duplicate; the commit
\* that follows has nothing to write.
Select(d) ==
  LET known == job[d].update \in rows
  IN  /\ pc[d] = "select"
      /\ pc' = [pc EXCEPT ![d] = IF known THEN "answered" ELSE "insert"]
      /\ answer' = [answer EXCEPT ![d] = IF known THEN "duplicate" ELSE @]
      /\ UNCHANGED <<seen, rows, writer, job, acked, accepted, failed>>

\* Mutant of Taken: the table has no primary key.
TakenNever(u) == FALSE

\* The primary key of telegram_update_dedupe.
Taken(u) == u \in rows

\* record_update, its INSERT, which takes the database's only write lock.
Insert(d) ==
  /\ pc[d] = "insert" /\ writer = NULL
  /\ ~Taken(job[d].update)
  /\ writer' = d
  /\ pc' = [pc EXCEPT ![d] = "commit"]
  /\ UNCHANGED <<seen, rows, job, answer, acked, accepted, failed>>

\* Mutant of Commit: the session closes without its commit.
CommitForgotten(d) ==
  /\ pc[d] = "commit"
  /\ writer' = NULL
  /\ accepted' = [accepted EXCEPT ![job[d].update] = @ + 1]
  /\ pc' = [pc EXCEPT ![d] = "answered"]
  /\ answer' = [answer EXCEPT ![d] = "accepted"]
  /\ UNCHANGED <<seen, rows, job, acked, failed>>

Commit(d) ==
  /\ pc[d] = "commit"
  /\ rows' = rows \cup {job[d].update}
  /\ writer' = NULL
  /\ accepted' = [accepted EXCEPT ![job[d].update] = @ + 1]
  /\ pc' = [pc EXCEPT ![d] = "answered"]
  /\ answer' = [answer EXCEPT ![d] = "accepted"]
  /\ UNCHANGED <<seen, job, acked, failed>>

-----------------------------------------------------------------------------
\* A statement or the commit raises: the session rolls back and the answer is
\* 500.  The mark in the process stays.
Fail(d) ==
  /\ writer' = IF writer = d THEN NULL ELSE writer
  /\ pc' = [pc EXCEPT ![d] = "idle"]
  /\ job' = [job EXCEPT ![d] = NULL]
  /\ answer' = [answer EXCEPT ![d] = NULL]
  /\ failed' = failed \cup {job[d].update}
  /\ UNCHANGED <<seen, rows, acked, accepted>>

\* Another process recorded the update between the SELECT and the INSERT.
Conflict(d) ==
  /\ pc[d] = "insert" /\ writer = NULL
  /\ Taken(job[d].update)
  /\ Fail(d)

\* Another session kept the write lock past the busy timeout.
BusyTimeout(d) == pc[d] = "insert" /\ writer # NULL /\ Fail(d)

\* The database is unreachable, the disk is full, the request is cancelled.
DatabaseError(d) == pc[d] \in {"select", "insert", "commit"} /\ Fail(d)

\* The answer reaches the provider, or is lost on the way.
Respond(d, arrives) ==
  /\ pc[d] = "answered"
  /\ acked' = IF arrives /\ answer[d] \in Success
              THEN acked \cup {job[d].update} ELSE acked
  /\ pc' = [pc EXCEPT ![d] = "idle"]
  /\ job' = [job EXCEPT ![d] = NULL]
  /\ answer' = [answer EXCEPT ![d] = NULL]
  /\ UNCHANGED <<seen, rows, writer, accepted, failed>>

\* A process dies and starts again: its seen set is empty and its deliveries
\* are gone with their uncommitted rows.
Restart(w) ==
  LET dead == {d \in Slots : pc[d] # "idle" /\ job[d].worker = w}
  IN  /\ seen' = [seen EXCEPT ![w] = {}]
      /\ writer' = IF writer \in dead THEN NULL ELSE writer
      /\ pc' = [d \in Slots |-> IF d \in dead THEN "idle" ELSE pc[d]]
      /\ job' = [d \in Slots |-> IF d \in dead THEN NULL ELSE job[d]]
      /\ answer' = [d \in Slots |-> IF d \in dead THEN NULL ELSE answer[d]]
      /\ failed' = failed \cup
           {job[d].update : d \in {d \in dead : pc[d] # "answered"}}
      /\ UNCHANGED <<rows, acked, accepted>>

DeliveryStep(d) ==
  \/ Select(d) \/ Insert(d) \/ Commit(d) \/ Conflict(d) \/ BusyTimeout(d)
  \/ \E arrives \in BOOLEAN : Respond(d, arrives)

Next ==
  \/ \E d \in Slots, w \in Workers, u \in Updates \cup {Malformed}, g \in BOOLEAN :
       Deliver(d, w, u, g)
  \/ \E d \in Slots : DeliveryStep(d) \/ DatabaseError(d)
  \/ \E w \in Workers : Restart(w)

Spec == Init /\ [][Next]_vars

\* The provider goes on delivering an update it has no 2xx answer for, and the
\* event loop goes on with every delivery; nothing has to fail or die.
Fairness ==
  /\ \A u \in Updates : SF_vars(\E d \in Slots, w \in Workers : Deliver(d, w, u, TRUE))
  /\ \A d \in Slots : WF_vars(DeliveryStep(d))

FairSpec == Spec /\ Fairness

-----------------------------------------------------------------------------
\* The update is being recorded by a delivery in flight.
Recording == {"select", "insert", "commit"}
InFlight == {job[d].update : d \in {d \in Slots : pc[d] \in Recording}}

\* Every variable has its type, and a delivery stands where its job and its
\* answer belong.
TypeOK ==
  /\ seen \in [Workers -> SUBSET Updates]
  /\ rows \subseteq Updates /\ acked \subseteq Updates /\ failed \subseteq Updates
  /\ writer \in Slots \cup {NULL}
  /\ accepted \in [Updates -> Nat]
  /\ DOMAIN pc = Slots /\ DOMAIN job = Slots /\ DOMAIN answer = Slots
  /\ \A d \in Slots :
       \/ pc[d] = "idle" /\ job[d] = NULL
       \/ /\ pc[d] \in Recording
          /\ job[d] \in Jobs /\ job[d].update # Malformed
       \/ /\ pc[d] = "answered" /\ job[d] \in Jobs /\ answer[d] \in Codes
          /\ job[d].update = Malformed => answer[d] \notin Success

\* Duplicates are ignored across processes, restarts and concurrent
\* deliveries: an update is accepted once (ADR 0019, consequences).
AcceptedOnce == \A u \in Updates : accepted[u] <= 1

\* When the provider stops delivering an update, the update is recorded, or is
\* being recorded, or a delivery of it failed after it was marked as seen.
LossNeedsFailure == acked \subseteq rows \cup failed \cup InFlight

\* An update the provider keeps delivering is recorded in the end, unless
\* recording it failed.
UpdatesSettle == \A u \in Updates : <>(u \in rows \/ u \in failed)
=============================================================================
