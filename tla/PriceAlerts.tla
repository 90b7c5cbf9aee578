---------------------------- MODULE PriceAlerts ----------------------------
(***************************************************************************)
(* From a scheduled provider call to a durable price alert of one watch and *)
(* one itinerary: AlertEvaluator decides from the state that                *)
(* AlertDedupeRepository.load_state read, and record_alert selects and      *)
(* inserts.  Nothing in src/ connects these parts yet; the order of the     *)
(* calls is the one the tests use, one session per evaluation.              *)
(*                                                                         *)
(* Several evaluations run at once, an observation may be evaluated again   *)
(* and late, and an evaluation may fail anywhere.  A session takes SQLite's *)
(* write lock with its insert; its earlier selects see what is committed.   *)
(***************************************************************************)
EXTENDS WatchScheduler, Integers, FiniteSets

CONSTANTS
  Evaluations,     \* evaluations in flight at once
  Prices,          \* prices an observation may have
  Baselines,       \* previous best prices a caller may compare with
  DropThreshold,   \* percent
  Cooldown,        \* ticks
  MaxClock,        \* bound: ticks
  MaxObservations, \* bound: provider calls
  NULL             \* none

\* A row of alert_dedupe_entries, with the rows its evaluation had read, and
\* the file.  The dedupe key of a row is its price: watch, itinerary and
\* reason are fixed.
Keys == [price: Prices, at: Nat]
Rows == [price: Prices, at: Nat, saw: SUBSET Keys]
Files == [readable: BOOLEAN, rows: SUBSET Rows]

ASSUME AlertAssumption ==
  /\ Prices \subseteq Nat /\ Baselines \subseteq Nat
  /\ DropThreshold \in Nat \ {0} /\ Cooldown \in Nat
  /\ {MaxClock, MaxObservations} \subseteq Nat
  /\ NULL \notin Evaluations /\ NULL \notin Files

VARIABLES
  now,        \* the clock
  observed,   \* price observations, each with what the provider was chosen by
  db,         \* the committed rows of alert_dedupe_entries, if the file is readable
  writer,     \* the evaluation whose session holds the write lock, or NULL
  ev,         \* the evaluations in flight
  recorded,   \* history: the prices whose alert was committed, with the epoch
  twice,      \* history: an alert was committed twice in one epoch
  epoch       \* history: how often the database was replaced

alertVars == <<now, observed, db, writer, ev, recorded, twice, epoch>>

Key(row) == [price |-> row.price, at |-> row.at]

Idle == [at |-> "idle"]
Malformed == [readable |-> FALSE, rows |-> {}]

AlertInit ==
  /\ now = 0 /\ observed = {} /\ writer = NULL
  /\ db = [readable |-> TRUE, rows |-> {}]
  /\ ev = [e \in Evaluations |-> Idle]
  /\ recorded = {} /\ twice = FALSE /\ epoch = 0

Tick ==
  /\ now < MaxClock /\ now' = now + 1
  /\ UNCHANGED <<observed, db, writer, ev, recorded, twice, epoch>>

-----------------------------------------------------------------------------
(* The decisions of AlertEvaluator.                                         *)

\* AlertEvaluator._drop_percent, rounded down.
DropPercent(previous, current) ==
  IF previous <= 0 \/ current >= previous THEN 0
  ELSE ((previous - current) * 100) \div previous

\* AlertDedupeRepository.load_state: the keys and the latest time of sending.
Loaded(rows) ==
  [keys |-> {r.price : r \in rows},
   last |-> {r.at : r \in {s \in rows : \A t \in rows : t.at <= s.at}},
   saw |-> {Key(r) : r \in rows}]

\* Mutant of InCooldown: the difference is taken without its sign.
InCooldownEitherWay(last, at) ==
  \E sent \in last : (IF at < sent THEN sent - at ELSE at - sent) < Cooldown

\* A late observation has a negative difference and is always suppressed.
InCooldown(last, at) == \E sent \in last : at - sent < Cooldown

\* AlertEvaluator.evaluate: an alert, or the reason it is suppressed.
Evaluate(previous, obs, state) ==
  IF DropPercent(previous, obs.price) < DropThreshold THEN "below_threshold"
  ELSE IF obs.price \in state.keys THEN "duplicate"
  ELSE IF InCooldown(state.last, obs.at) THEN "cooldown"
  ELSE "alert"

-----------------------------------------------------------------------------
\* A due watch is given to a provider, which answers with a price.
Schedule(watch, runtime, p, price) ==
  /\ p \in Eligible(watch, runtime, now)
  /\ observed' = observed \cup {[price |-> price, at |-> now, provider |-> p, watch |-> watch,
                                 runtime |-> runtime]}
  /\ UNCHANGED <<now, db, writer, ev, recorded, twice, epoch>>

\* An evaluation of an observation, the first one or a retry: load_state.
Load(e, obs) ==
  /\ ev[e] = Idle /\ obs \in observed /\ db.readable
  /\ ev' = [ev EXCEPT ![e] = [at |-> "loaded", obs |-> [price |-> obs.price, at |-> obs.at],
                              state |-> Loaded(db.rows), replaced |-> FALSE]]
  /\ UNCHANGED <<now, observed, db, writer, recorded, twice, epoch>>

\* Mutant of Taken: the row another session committed is overlooked.
TakenNever(price) == FALSE

\* A committed row has the key.
Taken(price) == \E r \in db.rows : r.price = price

\* evaluate, and the select of record_alert when there is something to record.
Judge(e, previous) ==
  /\ ev[e].at = "loaded" /\ db.readable
  /\ ev' = [ev EXCEPT ![e] =
       IF Evaluate(previous, ev[e].obs, ev[e].state) # "alert" \/ Taken(ev[e].obs.price) THEN Idle
       ELSE [@ EXCEPT !.at = "selected"]]
  /\ UNCHANGED <<now, observed, db, writer, recorded, twice, epoch>>

\* The insert of record_alert; the primary key refuses a second row.
Insert(e) ==
  /\ ev[e].at = "selected" /\ writer = NULL /\ db.readable
  /\ IF Taken(ev[e].obs.price)
     THEN ev' = [ev EXCEPT ![e] = Idle] /\ UNCHANGED writer
     ELSE ev' = [ev EXCEPT ![e].at = "inserted"] /\ writer' = e
  /\ UNCHANGED <<now, observed, db, recorded, twice, epoch>>

NewRow(e) == [price |-> ev[e].obs.price, at |-> ev[e].obs.at, saw |-> ev[e].state.saw]

\* The session commits.  If the file was replaced under it, the pages it
\* writes may not fit the others.
Commit(e) ==
  /\ ev[e].at = "inserted" /\ writer = e
  /\ LET written == [db EXCEPT !.rows = @ \cup {NewRow(e)}]
         entry == [price |-> ev[e].obs.price, epoch |-> epoch]
     IN  /\ db' \in IF ev[e].replaced THEN {written, Malformed} ELSE {written}
         /\ recorded' = recorded \cup {entry}
         /\ twice' = (twice \/ entry \in recorded)
  /\ ev' = [ev EXCEPT ![e] = Idle] /\ writer' = NULL
  /\ UNCHANGED <<now, observed, epoch>>

\* A statement fails, or the process dies; nothing of the session remains.
Fail(e) ==
  /\ ev[e] # Idle
  /\ ev' = [ev EXCEPT ![e] = Idle]
  /\ writer' = IF writer = e THEN NULL ELSE writer
  /\ UNCHANGED <<now, observed, db, recorded, twice, epoch>>

Evaluation(e) ==
  \/ \E obs \in observed : Load(e, obs)
  \/ \E previous \in Baselines : Judge(e, previous)
  \/ Insert(e) \/ Fail(e)

Scheduling ==
  /\ Cardinality(observed) < MaxObservations
  /\ \E watch \in Watches, runtime \in Runtimes : \E p \in Providers, price \in Prices :
       Schedule(watch, runtime, p, price)

-----------------------------------------------------------------------------
\* A price is recorded again only after the database was replaced: neither
\* retries, nor races of evaluations, nor failures record one twice.
AlertedOnce == ~twice

\* Two alerts are closer than the cooldown only if neither evaluation had read
\* the other's row: whoever loads the state after an alert was committed waits
\* for the cooldown, in the order of the observations' own times.
CooldownKept ==
  \A r, s \in db.rows : Key(r) \in s.saw => s.at >= r.at + Cooldown

\* A provider that answered was asked for a due watch of a flight still to come,
\* may be called in the background without a click, is no live source, and was
\* permitted by the watch; when it was chosen its circuit was captured as closed
\* and its quota as reserved.
BackgroundOnly ==
  \A o \in observed : LET policy == Policies[o.provider] IN
    /\ ~policy.live /\ ~policy.userActionRequired /\ policy.backgroundAllowed
    /\ policy.enabled /\ policy.credentialsPresent /\ policy.accessApproved
    /\ o.watch.enabled /\ o.at \div DayLength <= o.watch.departureDay
    /\ o.watch.providers = {} \/ o.provider \in o.watch.providers
    /\ \A instant \in {o.watch.pausedUntil, o.watch.nextEligibleAt, o.watch.freshUntil} :
         instant # Never => instant <= o.at
    /\ o.provider \in o.runtime.reserved \ o.runtime.circuitOpen
=============================================================================
