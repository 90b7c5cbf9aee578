---------------------- MODULE DurableLiveObservations ----------------------
(***************************************************************************)
(* The durable control plane behind the live-observation API:               *)
(* DurableLiveObservationService, its endpoints in api/app.py,              *)
(* LiveObservationRepository and LiveObservationCleanupService, over the    *)
(* SQLite database the default configuration names.                         *)
(*                                                                         *)
(* A handler serves one request in one database session; a cleaner is one   *)
(* run of the clean-up command.  Every await of a SQL statement is a step,   *)
(* so requests, clean-ups and the clock interleave between statements:      *)
(*                                                                         *)
(*   - a SELECT sees the committed tables, or the session's own writes once  *)
(*     it has made one (the driver opens no transaction before the first    *)
(*     write, so two SELECTs of one request may see different commits);     *)
(*   - the first write takes the database's only write lock, which is held   *)
(*     until commit or rollback; a session that waits for it too long gets  *)
(*     an error and answers 500;                                            *)
(*   - a session may also die at any step; its uncommitted writes are lost. *)
(***************************************************************************)
EXTENDS ControlPlane, FiniteSets

CONSTANTS
  Handlers,   \* request slots: requests in flight at once
  Cleaners,   \* clean-up runs in flight at once
  NULL        \* no session, no request

ASSUME SessionAssumption ==
  /\ Handlers \cap Cleaners = {}
  /\ NULL \notin Handlers \cup Cleaners

VARIABLES
  clock,
  db,       \* the committed tables
  work,     \* the tables as the session that holds the write lock sees them
  writer,   \* that session, or NULL
  pc,       \* where each session stands
  req,      \* the request or command it serves
  mem,      \* its local variables, or the answer it is about to send
  tokens,   \* history: the grants ever handed out
  ledger    \* history: every observation ever committed, with its key

vars == <<clock, db, work, writer, pc, req, mem, tokens, ledger>>

Sessions == Handlers \cup Cleaners

\* A row of live_observation_idempotency.  Its primary key is the pair
\* (user, key); live_observation_offers holds one row per observation, so it
\* is kept as the set of the observations that have theirs.
Replay == [user: Users, key: Keys, observation: ObservationIds]

Tables ==
  [grants: SUBSET Grant, observations: SUBSET Observation,
   offers: SUBSET ObservationIds, replays: SUBSET Replay]

IssueRequest ==
  [op: {"issue"}, user: Users, source: Sources, fingerprint: Fingerprints]
CreateRequest ==
  [op: {"create"}, user: Users, key: Keys, source: Sources,
   fingerprint: Fingerprints, grant: GrantIds, context: Contexts]
GetRequest == [op: {"get"}, user: Users, observation: ObservationIds]
CleanCommand == [op: {"clean"}, dry: BOOLEAN]

IssueAt == {"insert_grant", "commit_grant"}
WritingAt == {"check_grant", "consume", "observe", "record", "commit_observation"}
CreateAt == {"select_grant", "authorize"} \cup WritingAt
GetAt == {"select_offers"}
CleanAt == {"scan_offers", "scan_replays", "purge", "scan_grants",
            "purge_grants", "finish"}
\* Where the next statement is a write, which may have to wait for the lock.
WriteAt == {"insert_grant", "consume", "observe", "record", "purge", "purge_grants"}

\* at and before are read when the request starts; grants is what the SELECT
\* of the grant returned, gate the clock reading of the gate, made the
\* observation built for this request.
CreateLocals ==
  [at: Nat, before: SUBSET ObservationIds, grants: SUBSET Grant, gate: Nat,
   made: SUBSET Observation]
IssueLocals == [at: Nat, granted: SUBSET GrantIds]
GetLocals == [rows: SUBSET Observation]
CleanLocals ==
  [now: Nat, expired: SUBSET ObservationIds, offers: SUBSET ObservationIds,
   keys: SUBSET (Users \X Keys), grants: SUBSET GrantIds]
Answer ==
  [code: Verdicts \cup SourceVerdicts \cup
     {"issued", "queued", "found", "observation_not_found"},
   accepted: SUBSET ObservationIds, rows: SUBSET Observation,
   offers: SUBSET ObservationIds]

Entry == [row: Observation, key: Keys]

-----------------------------------------------------------------------------
(* The database as a session sees it, and what a session does to it.        *)

View(s) == IF writer = s THEN work ELSE db

\* A write statement: it has, or now takes, the write lock.
Write(s, tables) ==
  /\ writer \in {NULL, s}
  /\ writer' = s
  /\ work' = tables
  /\ UNCHANGED db

Publish(s) ==
  /\ writer' = NULL
  /\ db' = work
  /\ UNCHANGED work

Discard(s) ==
  /\ writer' = IF writer = s THEN NULL ELSE writer
  /\ work' = IF writer = s THEN db ELSE work
  /\ UNCHANGED db

ReadOnly == UNCHANGED <<db, work, writer>>

History == <<tokens, ledger>>

Goto(s, label, locals) ==
  /\ pc' = [pc EXCEPT ![s] = label]
  /\ mem' = [mem EXCEPT ![s] = locals]

Start(s, r) ==
  /\ pc[s] = "idle"
  /\ req' = [req EXCEPT ![s] = r]

\* Mutant of Close: the session forgets its request and stays where it was.
CloseKeepsPlace(s) ==
  /\ Discard(s)
  /\ req' = [req EXCEPT ![s] = NULL]
  /\ mem' = [mem EXCEPT ![s] = NULL]
  /\ UNCHANGED <<clock, pc, History>>

\* The session closes: what it had not committed is rolled back.
Close(s) ==
  /\ Discard(s)
  /\ pc' = [pc EXCEPT ![s] = "idle"]
  /\ req' = [req EXCEPT ![s] = NULL]
  /\ mem' = [mem EXCEPT ![s] = NULL]
  /\ UNCHANGED <<clock, History>>

Denied(code) == [code |-> code, accepted |-> {}, rows |-> {}, offers |-> {}]
Queued(ids) == [code |-> "queued", accepted |-> ids, rows |-> {}, offers |-> {}]

Ids(rows) == {o.id : o \in rows}

-----------------------------------------------------------------------------
(* POST /live-observation-grants                                            *)

IssueStart(s, r) ==
  LET verdict == SourceVerdict(r.source, clock)
  IN  /\ Start(s, r)
      /\ \/ verdict # Allowed /\ Goto(s, "answered", Denied(verdict))
         \/ verdict = Allowed
            /\ Goto(s, "insert_grant", [at |-> clock, granted |-> {}])
      /\ ReadOnly /\ UNCHANGED <<clock, History>>

IssueInsert(s) ==
  LET r == req[s]
  IN  /\ pc[s] = "insert_grant"
      /\ \E g \in GrantIds \ tokens :
           /\ Write(s, [View(s) EXCEPT !.grants = @ \cup
                {NewGrant(g, r.user, r.source, r.fingerprint, mem[s].at)}])
           /\ Goto(s, "commit_grant", [mem[s] EXCEPT !.granted = {g}])
      /\ UNCHANGED <<clock, req, History>>

IssueCommit(s) ==
  /\ pc[s] = "commit_grant"
  /\ Publish(s)
  /\ tokens' = tokens \cup mem[s].granted
  /\ Goto(s, "answered", Denied("issued"))
  /\ UNCHANGED <<clock, req, ledger>>

-----------------------------------------------------------------------------
(* POST /live-observations                                                  *)

\* The idempotency SELECT, the request's clock reading and the source check.
\* A caller can only present a grant token it was handed.
CreateStart(s, r) ==
  LET hits == {p \in View(s).replays : p.user = r.user /\ p.key = r.key}
      verdict == SourceVerdict(r.source, clock)
  IN  /\ r.grant \in tokens
      /\ Start(s, r)
      /\ \/ hits # {}
            /\ Goto(s, "answered", Queued({p.observation : p \in hits}))
         \/ hits = {} /\ verdict # Allowed
            /\ Goto(s, "answered", Denied(verdict))
         \/ hits = {} /\ verdict = Allowed
            /\ Goto(s, "select_grant",
                    [at |-> clock, before |-> {e.row.id : e \in ledger},
                     grants |-> {}, gate |-> clock, made |-> {}])
      /\ ReadOnly /\ UNCHANGED <<clock, History>>

\* The SELECT of the grant, by user and id, and the checks that precede the gap.
SelectGrant(s) ==
  LET r == req[s]
      found == {g \in View(s).grants : g.user = r.user /\ g.id = r.grant}
      verdict == AnyGrantVerdict(found, r.source, r.fingerprint, mem[s].at)
  IN  /\ pc[s] = "select_grant"
      /\ \/ verdict # Allowed /\ Goto(s, "answered", Denied(verdict))
         \/ verdict = Allowed
            /\ Goto(s, "authorize", [mem[s] EXCEPT !.grants = found])
      /\ ReadOnly /\ UNCHANGED <<clock, req, History>>

\* The SELECT of the last completed observation, and the gate, which reads
\* the clock again and judges the copy of the grant read one step before.
Authorize(s) ==
  LET r == req[s]
      done == {o.completed : o \in {o \in View(s).observations :
                 /\ o.user = r.user
                 /\ o.source = r.source
                 /\ o.fingerprint = r.fingerprint}}
      verdict == GateVerdict(SourcePolicy(r.source, mem[s].at), r.context,
                   r.fingerprint, mem[s].grants, done, clock, MinGap)
  IN  /\ pc[s] = "authorize"
      /\ \/ verdict # Allowed /\ Goto(s, "answered", Denied(verdict))
         \/ verdict = Allowed
            /\ Goto(s, "check_grant", [mem[s] EXCEPT !.gate = clock])
      /\ ReadOnly /\ UNCHANGED <<clock, req, History>>

\* consume_grant reads consumed_at in one statement ...
CheckGrant(s) ==
  LET live == {g \in View(s).grants : g.id = req[s].grant /\ ~g.consumed}
  IN  /\ pc[s] = "check_grant"
      /\ \/ live = {}
            /\ Goto(s, "answered", Denied("user_action_grant_consumed"))
         \/ live # {} /\ Goto(s, "consume", mem[s])
      /\ ReadOnly /\ UNCHANGED <<clock, req, History>>

\* Mutant of Consume: the UPDATE matches no row.
ConsumeNothing(s) ==
  /\ pc[s] = "consume"
  /\ Write(s, View(s))
  /\ Goto(s, "observe", mem[s])
  /\ UNCHANGED <<clock, req, History>>

\* Mutant of Consume: it commits the consumption at once.
ConsumeAndCommit(s) ==
  /\ pc[s] = "consume"
  /\ writer \in {NULL, s}
  /\ db' = [View(s) EXCEPT !.grants =
       {IF g.id = req[s].grant THEN [g EXCEPT !.consumed = TRUE] ELSE g : g \in @}]
  /\ work' = db'
  /\ Goto(s, "observe", mem[s])
  /\ UNCHANGED <<clock, writer, req, History>>

\* ... and sets it in the next, whatever it has become by then.
Consume(s) ==
  /\ pc[s] = "consume"
  /\ Write(s, [View(s) EXCEPT !.grants =
       {IF g.id = req[s].grant THEN [g EXCEPT !.consumed = TRUE] ELSE g : g \in @}])
  /\ Goto(s, "observe", mem[s])
  /\ UNCHANGED <<clock, req, History>>

\* The fake worker completes the observation at the request's own clock
\* reading; the observation is inserted, then its offer.
Observe(s) ==
  LET r == req[s]
  IN  /\ pc[s] = "observe"
      /\ \E id \in ObservationIds \ {e.row.id : e \in ledger} :
           LET o == NewObservation(id, r.grant, r.user, r.source,
                                   r.fingerprint, mem[s].at, mem[s].at)
           IN  /\ Write(s, [View(s) EXCEPT !.observations = @ \cup {o},
                                           !.offers = @ \cup {id}])
               /\ Goto(s, "record", [mem[s] EXCEPT !.made = {o}])
      /\ UNCHANGED <<clock, req, History>>

\* Mutant of Taken: no primary key on the replay rows.
TakenNever(s) == FALSE

Taken(s) ==
  \E p \in View(s).replays : p.user = req[s].user /\ p.key = req[s].key

RecordIdempotency(s) ==
  LET r == req[s]
  IN  /\ pc[s] = "record"
      /\ ~Taken(s)
      /\ Write(s, [View(s) EXCEPT !.replays = @ \cup
           {[user |-> r.user, key |-> r.key, observation |-> o.id] :
              o \in mem[s].made}])
      /\ Goto(s, "commit_observation", mem[s])
      /\ UNCHANGED <<clock, req, History>>

\* Mutant of RecordConflict: the conflict is answered with the request's own
\* observation, which the rollback discards.
RecordConflictAnswered(s) ==
  /\ pc[s] = "record"
  /\ Taken(s)
  /\ Discard(s)
  /\ Goto(s, "answered", Queued(Ids(mem[s].made)))
  /\ UNCHANGED <<clock, req, History>>

\* The key was recorded since the first step looked for it: the primary key
\* refuses the row, the error leaves the session, the request answers 500.
RecordConflict(s) ==
  /\ pc[s] = "record"
  /\ Taken(s)
  /\ Close(s)

CreateCommit(s) ==
  /\ pc[s] = "commit_observation"
  /\ Publish(s)
  /\ ledger' = ledger \cup {[row |-> o, key |-> req[s].key] : o \in mem[s].made}
  /\ Goto(s, "answered", Queued(Ids(mem[s].made)))
  /\ UNCHANGED <<clock, req, tokens>>

-----------------------------------------------------------------------------
(* GET /live-observations/{observation_id}: two SELECTs, no transaction.    *)

GetStart(s, r) ==
  LET rows == {o \in View(s).observations :
                 o.user = r.user /\ o.id = r.observation}
  IN  /\ Start(s, r)
      /\ \/ rows = {} /\ Goto(s, "answered", Denied("observation_not_found"))
         \/ rows # {} /\ Goto(s, "select_offers", [rows |-> rows])
      /\ ReadOnly /\ UNCHANGED <<clock, History>>

GetOffers(s) ==
  /\ pc[s] = "select_offers"
  /\ Goto(s, "answered",
       [code |-> "found", accepted |-> {}, rows |-> mem[s].rows,
        offers |-> View(s).offers \cap Ids(mem[s].rows)])
  /\ ReadOnly /\ UNCHANGED <<clock, req, History>>

-----------------------------------------------------------------------------
(* flight-hunter-cleanup-live-observations: the candidates of each table    *)
(* are read before the first DELETE and deleted by the ids that were read.  *)

\* Mutant of CleanStart: results are collected by the grants' lifetime.
CleanStartEarly(c, r) ==
  LET expired == Ids({o \in View(c).observations : o.created + GrantTTL <= clock})
  IN  /\ Start(c, r)
      /\ Goto(c, IF expired = {} THEN "scan_grants" ELSE "scan_offers",
              [now |-> clock, expired |-> expired, offers |-> {},
               keys |-> {}, grants |-> {}])
      /\ ReadOnly /\ UNCHANGED <<clock, History>>

CleanStart(c, r) ==
  LET expired == Ids({o \in View(c).observations : o.expires <= clock})
  IN  /\ Start(c, r)
      /\ Goto(c, IF expired = {} THEN "scan_grants" ELSE "scan_offers",
              [now |-> clock, expired |-> expired, offers |-> {},
               keys |-> {}, grants |-> {}])
      /\ ReadOnly /\ UNCHANGED <<clock, History>>

ScanOffers(c) ==
  /\ pc[c] = "scan_offers"
  /\ Goto(c, "scan_replays",
          [mem[c] EXCEPT !.offers = View(c).offers \cap mem[c].expired])
  /\ ReadOnly /\ UNCHANGED <<clock, req, History>>

ScanReplays(c) ==
  /\ pc[c] = "scan_replays"
  /\ Goto(c, "purge", [mem[c] EXCEPT !.keys =
       {<<p.user, p.key>> :
          p \in {p \in View(c).replays : p.observation \in mem[c].expired}}])
  /\ ReadOnly /\ UNCHANGED <<clock, req, History>>

\* Mutant of Purge: the parent rows go, their dependents stay.
PurgeParentsOnly(c) ==
  /\ pc[c] = "purge"
  /\ Write(c, [View(c) EXCEPT
       !.observations = {o \in @ : o.id \notin mem[c].expired}])
  /\ Goto(c, "scan_grants", mem[c])
  /\ UNCHANGED <<clock, req, History>>

\* DELETE of the offers, of the replay rows and of the observations: three
\* statements under the write lock that the first of them takes.
Purge(c) ==
  LET t == View(c)
  IN  /\ pc[c] = "purge"
      /\ Write(c, [t EXCEPT
           !.offers = @ \ mem[c].offers,
           !.replays = {p \in @ : <<p.user, p.key>> \notin mem[c].keys},
           !.observations = {o \in @ : o.id \notin mem[c].expired}])
      /\ Goto(c, "scan_grants", mem[c])
      /\ UNCHANGED <<clock, req, History>>

ScanGrants(c) ==
  LET dead == Ids({g \in View(c).grants : g.expires <= mem[c].now})
  IN  /\ pc[c] = "scan_grants"
      /\ Goto(c, IF dead = {} THEN "finish" ELSE "purge_grants",
              [mem[c] EXCEPT !.grants = dead])
      /\ ReadOnly /\ UNCHANGED <<clock, req, History>>

PurgeGrants(c) ==
  /\ pc[c] = "purge_grants"
  /\ Write(c, [View(c) EXCEPT !.grants = {g \in @ : g.id \notin mem[c].grants}])
  /\ Goto(c, "finish", mem[c])
  /\ UNCHANGED <<clock, req, History>>

\* Mutant of Finish: a dry run ends without its rollback.
FinishDryLeavesOpen(c) ==
  /\ pc[c] = "finish"
  /\ IF req[c].dry THEN ReadOnly ELSE IF writer = c THEN Publish(c) ELSE Discard(c)
  /\ pc' = [pc EXCEPT ![c] = "idle"]
  /\ req' = [req EXCEPT ![c] = NULL]
  /\ mem' = [mem EXCEPT ![c] = NULL]
  /\ UNCHANGED <<clock, History>>

\* run_once: a dry run rolls back what a real one commits.
Finish(c) ==
  /\ pc[c] = "finish"
  /\ IF writer = c /\ ~req[c].dry THEN Publish(c) ELSE Discard(c)
  /\ pc' = [pc EXCEPT ![c] = "idle"]
  /\ req' = [req EXCEPT ![c] = NULL]
  /\ mem' = [mem EXCEPT ![c] = NULL]
  /\ UNCHANGED <<clock, History>>

-----------------------------------------------------------------------------
\* The answer is delivered, or lost with the connection.
Respond(s) == pc[s] = "answered" /\ Close(s)

\* Another session kept the write lock past SQLite's busy timeout.
BusyTimeout(s) ==
  /\ pc[s] \in WriteAt
  /\ writer \notin {NULL, s}
  /\ Close(s)

\* The process or the connection dies; a restart is this step in every session.
Crash(s) == pc[s] # "idle" /\ Close(s)

Tick ==
  /\ clock < MaxClock
  /\ clock' = clock + 1
  /\ UNCHANGED <<db, work, writer, pc, req, mem, tokens, ledger>>

HandlerStep(s) ==
  \/ IssueInsert(s) \/ IssueCommit(s)
  \/ SelectGrant(s) \/ Authorize(s) \/ CheckGrant(s) \/ Consume(s)
  \/ Observe(s) \/ RecordIdempotency(s) \/ RecordConflict(s) \/ CreateCommit(s)
  \/ GetOffers(s)
  \/ Respond(s) \/ BusyTimeout(s)

CleanerStep(c) ==
  \/ ScanOffers(c) \/ ScanReplays(c) \/ Purge(c)
  \/ ScanGrants(c) \/ PurgeGrants(c) \/ Finish(c) \/ BusyTimeout(c)

Arrival(s) ==
  \/ \E r \in IssueRequest : IssueStart(s, r)
  \/ \E r \in CreateRequest : CreateStart(s, r)
  \/ \E r \in GetRequest : GetStart(s, r)

Next ==
  \/ \E s \in Handlers : Arrival(s) \/ HandlerStep(s)
  \/ \E c \in Cleaners : (\E r \in CleanCommand : CleanStart(c, r)) \/ CleanerStep(c)
  \/ \E s \in Sessions : Crash(s)
  \/ Tick

NoRows == [grants |-> {}, observations |-> {}, offers |-> {}, replays |-> {}]

Init ==
  /\ clock = 0
  /\ db = NoRows /\ work = NoRows /\ writer = NULL
  /\ pc = [s \in Sessions |-> "idle"]
  /\ req = [s \in Sessions |-> NULL]
  /\ mem = [s \in Sessions |-> NULL]
  /\ tokens = {} /\ ledger = {}

Spec == Init /\ [][Next]_vars

\* The event loop serves every session that can go on, and SQLite ends a wait
\* for the lock; nothing makes a client call or a process die.
Fairness ==
  /\ \A s \in Handlers : WF_vars(HandlerStep(s))
  /\ \A c \in Cleaners : WF_vars(CleanerStep(c))

FairSpec == Spec /\ Fairness

-----------------------------------------------------------------------------
Requests == IssueRequest \cup CreateRequest \cup GetRequest \cup CleanCommand

\* A session stands where its kind may stand, and holds the request and the
\* locals that belong there.
SessionOK(s, place, r, m) ==
  /\ s \in Handlers => place \in {"idle", "answered"} \cup IssueAt \cup CreateAt \cup GetAt
  /\ s \in Cleaners => place \in {"idle"} \cup CleanAt
  /\ place \in IssueAt => r \in IssueRequest /\ m \in IssueLocals
  /\ place \in CreateAt => r \in CreateRequest /\ m \in CreateLocals
  /\ place \in GetAt => r \in GetRequest /\ m \in GetLocals
  /\ place \in CleanAt => r \in CleanCommand /\ m \in CleanLocals
  /\ place = "answered" => r \in Requests /\ m \in Answer

\* Every variable has its type.
TypeOK ==
  /\ clock \in Nat /\ clock <= MaxClock
  /\ db \in Tables /\ work \in Tables
  /\ writer \in Sessions \cup {NULL}
  /\ tokens \subseteq GrantIds
  /\ ledger \subseteq Entry
  /\ DOMAIN pc = Sessions /\ DOMAIN req = Sessions /\ DOMAIN mem = Sessions
  /\ \A s \in Sessions : SessionOK(s, pc[s], req[s], mem[s])

\* A committed observation always has its offer, no offer or replay row is
\* committed without its observation, and a user's key names one row: no
\* crash, conflict or clean-up leaves part of a request behind.
TablesConsistent ==
  /\ db.offers = Ids(db.observations)
  /\ {p.observation : p \in db.replays} \subseteq Ids(db.observations)
  /\ \A p, q \in db.replays : p.user = q.user /\ p.key = q.key => p = q

\* Until an observation expires, its result, its offer and the replay row of
\* the request that made it are all there (ADR 0018, decision 4).
ActiveResultsPreserved ==
  \A e \in ledger : e.row.expires > clock =>
    /\ e.row \in db.observations
    /\ e.row.id \in db.offers
    /\ [user |-> e.row.user, key |-> e.key, observation |-> e.row.id] \in db.replays

\* A retried request never makes a second observation while the first one is
\* active, however the retries interleave with each other and the clean-up.
RetriesAreIdempotent ==
  \A e, f \in ledger :
    /\ e.row.user = f.row.user /\ e.key = f.key
    /\ e.row.expires > clock /\ f.row.expires > clock
    => e = f

\* A grant row says "consumed" exactly when an observation was committed with
\* it: neither a crash between the statements nor a conflict burns a grant,
\* and no observation leaves its grant usable.
ConsumptionMatchesObservations ==
  \A g \in db.grants : g.consumed <=> \E e \in ledger : e.row.grant = g.id

\* An observation was made by the grant's own user, for its source and intent,
\* inside its lifetime, although the grant is judged from an earlier read.
ObservationsMatchTheirGrants ==
  \A e \in ledger, g \in db.grants : e.row.grant = g.id =>
    /\ e.row.user = g.user /\ e.row.source = g.source
    /\ e.row.fingerprint = g.fingerprint
    /\ g.issued <= e.row.created /\ e.row.created < g.expires

\* A request that starts after an observation was committed with its grant
\* does not get as far as writing.
SpentGrantStaysSpent ==
  \A s \in Handlers : pc[s] \in WritingAt \ {"check_grant"} =>
    \A e \in ledger : e.row.id \in mem[s].before => e.row.grant # req[s].grant

\* A request that starts after an observation was committed is let through
\* only once the gap has passed, even if that observation was cleaned up.
GapSinceStart ==
  \A s \in Handlers : pc[s] \in WritingAt =>
    \A e \in ledger :
      /\ e.row.id \in mem[s].before
      /\ e.row.user = req[s].user /\ e.row.source = req[s].source
      /\ e.row.fingerprint = req[s].fingerprint
      => mem[s].gate >= e.row.completed + MinGap

\* An accepted answer, first or replayed, names one committed observation of
\* the caller's own user and key.
AcceptedIsDurable ==
  \A s \in Handlers : pc[s] = "answered" =>
    \A id \in mem[s].accepted :
      \E e \in ledger : /\ e.row.id = id /\ mem[s].accepted = {id}
                        /\ e.row.user = req[s].user /\ e.key = req[s].key

\* A result may be read without its offer (the clean-up committed between the
\* two SELECTs), but only when it had expired.
TornReadOnlyAfterExpiry ==
  \A s \in Handlers : pc[s] = "answered" =>
    \A o \in mem[s].rows : o.id \notin mem[s].offers => o.expires <= clock

\* No session keeps the write lock for good, so no request or clean-up locks
\* out the others.
WriteLockReleased == \A s \in Sessions : writer = s ~> writer # s

\* When requests do not overlap, the service keeps the promise of the ledger.
Ledger == INSTANCE ObservationLedger WITH made <- ledger

ImplementsLedger == Ledger!LedgerSpec

-----------------------------------------------------------------------------
\* ADR 0016: a grant is one-time.
GrantUsedOnce ==
  \A e, f \in ledger : e.row.grant = f.row.grant => e = f

\* ADR 0014: a minimum gap between live refreshes of one search.
MinimumGapKept ==
  \A e, f \in ledger :
    /\ e # f /\ e.row.user = f.row.user /\ e.row.source = f.row.source
    /\ e.row.fingerprint = f.row.fingerprint
    /\ e.row.completed <= f.row.completed
    => e.row.completed + MinGap <= f.row.completed
=============================================================================
