------------------------- MODULE DatabaseBackupProofs -------------------------
(***************************************************************************)
(* Proofs about price alerts under races, failures, backups and restores,    *)
(* for any number of evaluations and copies and any clock.                   *)
(*                                                                         *)
(* No row of the database remembers who else was evaluating, so none of the  *)
(* invariants is inductive by itself: the strengthenings say what an         *)
(* evaluation in flight still knows, and what a copy of the file made        *)
(* earlier may bring back.                                                   *)
(***************************************************************************)
EXTENDS DatabaseBackup, TLAPS, WellFoundedInduction

States == [keys: SUBSET Prices, last: SUBSET Nat, saw: SUBSET Keys]

Busy == [at: {"loaded", "selected", "inserted"}, obs: Keys, state: States, replaced: BOOLEAN]

AlertTypes ==
  /\ now \in Nat /\ now <= MaxClock /\ epoch \in Nat
  /\ \A o \in observed : o.price \in Prices /\ o.at \in Nat
  /\ db \in Files
  /\ writer \in Evaluations \cup {NULL}
  /\ ev \in [Evaluations -> Busy \cup {Idle}]
  /\ writer # NULL => ev[writer].at = "inserted"
  /\ recorded \subseteq [price: Prices, epoch: Nat]

BackupTypes ==
  /\ backups \in [Seconds -> Files \cup {NULL}]
  /\ kept \in [Seconds -> Files \cup {NULL}]
  /\ backing \in Backups \cup {NULL}
  /\ restoring \in Restores \cup {NULL}
  /\ restoring # NULL => Exists(restoring.from)

\* The second copy of a restore, whatever it finds in the backup.
Restoring == restoring # NULL /\ \E copy \in BackupContents(restoring.from) : RestoreEnd(copy)

Types == AlertTypes /\ BackupTypes

(***************************************************************************)
(* Types.                                                                  *)
(***************************************************************************)
\* A busy evaluation is not idle.
LEMMA BusyOrIdle ==
  ASSUME AlertTypes, NEW e \in Evaluations, ev[e] # Idle \/ ev[e].at # "idle"
  PROVE  ev[e] \in Busy
BY DEF AlertTypes, Idle

LEMMA CopiesAreFiles ==
  ASSUME db \in Files, NEW start \in Files, NEW dirty \in BOOLEAN
  PROVE  CopyOf(start, dirty) \subseteq Files
<1>1. Malformed \in Files
  BY DEF Malformed, Files
<1> QED
  BY <1>1 DEF CopyOf

\* What a restore finds in its backup is a file, if only a malformed one.
LEMMA BackupIsFile ==
  ASSUME BackupTypes, restoring # NULL, NEW copy \in BackupContents(restoring.from)
  PROVE  copy \in Files /\ (copy = Malformed \/ (copy = backups[restoring.from] /\ copy # NULL))
<1>1. Malformed \in Files
  BY DEF Malformed, Files
<1>2. restoring.from \in Seconds /\ Exists(restoring.from)
  BY DEF BackupTypes, Restores
<1>3. copy = Malformed \/ (copy = backups[restoring.from] /\ copy # NULL)
  BY <1>2 DEF BackupContents, Exists
<1>4. backups[restoring.from] \in Files \cup {NULL}
  BY <1>2 DEF BackupTypes
<1> QED
  BY <1>1, <1>3, <1>4

LEMMA LoadedTypes ==
  ASSUME NEW file \in Files
  PROVE  Loaded(file.rows) \in States
<1>1. \A r \in file.rows : r.price \in Prices /\ r.at \in Nat /\ Key(r) \in Keys
  BY DEF Files, Rows, Keys, Key
<1> DEFINE keys == {r.price : r \in file.rows}
           last == {r.at : r \in {s \in file.rows : \A t \in file.rows : t.at <= s.at}}
           saw == {Key(r) : r \in file.rows}
<1>2. keys \subseteq Prices /\ last \subseteq Nat /\ saw \subseteq Keys
  BY <1>1
<1>3. Loaded(file.rows) = [keys |-> keys, last |-> last, saw |-> saw]
  BY DEF Loaded
<1> HIDE DEF keys, last, saw
<1> QED
  BY <1>2, <1>3 DEF States

LEMMA NewRowTypes ==
  ASSUME AlertTypes, NEW e \in Evaluations, ev[e] \in Busy
  PROVE  NewRow(e) \in Rows /\ [db EXCEPT !.rows = @ \cup {NewRow(e)}] \in Files
<1>1. NewRow(e) \in Rows
  BY DEF NewRow, Busy, Keys, States, Rows
<1> QED
  BY <1>1 DEF AlertTypes, Files

\* The steps of an evaluation up to its commit.
LEMMA EvaluationTypes ==
  ASSUME AlertTypes, NEW e \in Evaluations, Evaluation(e)
  PROVE  AlertTypes'
<1> USE DEF AlertTypes
<1>1. ASSUME NEW obs \in observed, Load(e, obs) PROVE AlertTypes'
  <2>1. Loaded(db.rows) \in States
    BY LoadedTypes
  <2>2. ev'[e] \in Busy /\ ev' \in [Evaluations -> Busy \cup {Idle}]
    BY <1>1, <2>1 DEF Load, Busy, Keys
  <2>3. writer # NULL => writer # e
    BY <1>1 DEF Load, Idle
  <2> QED
    BY <1>1, <2>2, <2>3 DEF Load
<1>2. ASSUME NEW previous \in Baselines, Judge(e, previous) PROVE AlertTypes'
  <2>1. ev[e] \in Busy
    BY <1>2, BusyOrIdle DEF Judge
  <2>2. [ev[e] EXCEPT !.at = "selected"] \in Busy
    BY <2>1 DEF Busy
  <2>3. ev' \in [Evaluations -> Busy \cup {Idle}] /\ \A f \in Evaluations \ {e} : ev'[f] = ev[f]
    BY <1>2, <2>2 DEF Judge
  <2>4. writer # NULL => writer # e
    BY <1>2 DEF Judge
  <2> QED
    BY <1>2, <2>3, <2>4 DEF Judge
<1>3. ASSUME Insert(e) PROVE AlertTypes'
  <2>1. ev[e] \in Busy
    BY <1>3, BusyOrIdle DEF Insert
  <2>2. [ev[e] EXCEPT !.at = "inserted"] \in Busy /\ [ev[e] EXCEPT !.at = "inserted"].at = "inserted"
    BY <2>1 DEF Busy
  <2>3. CASE Taken(ev[e].obs.price)
    BY <1>3, <2>3 DEF Insert
  <2>4. CASE ~Taken(ev[e].obs.price)
    <3>1. writer' = e /\ ev' = [ev EXCEPT ![e] = [ev[e] EXCEPT !.at = "inserted"]]
      BY <1>3, <2>4 DEF Insert
    <3>2. ev' \in [Evaluations -> Busy \cup {Idle}] /\ ev'[e].at = "inserted"
      BY <2>2, <3>1
    <3> QED
      BY <1>3, <3>1, <3>2 DEF Insert
  <2> QED
    BY <2>3, <2>4
<1>4. ASSUME Fail(e) PROVE AlertTypes'
  BY <1>4 DEF Fail
<1> QED
  BY <1>1, <1>2, <1>3, <1>4 DEF Evaluation

LEMMA CommitTypes ==
  ASSUME Types, NEW e \in Evaluations, CommitBeside(e)
  PROVE  Types'
<1>1. ev[e] \in Busy
  BY BusyOrIdle DEF CommitBeside, Commit, Types
<1>2. db' \in Files
  <2>1. Malformed \in Files
    BY DEF Malformed, Files
  <2>2. db' \in {[db EXCEPT !.rows = @ \cup {NewRow(e)}], Malformed}
    BY DEF CommitBeside, Commit
  <2> QED
    BY <1>1, <2>1, <2>2, NewRowTypes DEF Types
<1>3. recorded' \subseteq [price: Prices, epoch: Nat]
  BY <1>1 DEF CommitBeside, Commit, Types, AlertTypes, Busy, Keys
<1>4. AlertTypes'
  BY <1>2, <1>3 DEF CommitBeside, Commit, Types, AlertTypes
<1>5. backing' \in Backups \cup {NULL} /\ restoring' \in Restores \cup {NULL}
  BY DEF CommitBeside, Types, BackupTypes, Backups, Restores
<1>6. (restoring # NULL => Exists(restoring.from))'
  <2>1. /\ restoring' # NULL => restoring # NULL /\ restoring'.from = restoring.from
        /\ backing # NULL => backing' # NULL /\ backing'.second = backing.second
        /\ backups' = backups
    BY BackupAssumption DEF CommitBeside, Types, BackupTypes, Backups, Restores
  <2> QED
    BY <2>1 DEF Exists, Types, BackupTypes
<1> QED
  BY <1>4, <1>5, <1>6 DEF CommitBeside, Types, BackupTypes

LEMMA CopyingTypes ==
  ASSUME Types, Copying
  PROVE  Types'
<1> USE DEF Types, BackupTypes
<1>1. now \in Seconds
  BY BackupAssumption, AlertAssumption DEF AlertTypes, Seconds
<1>2. CASE BackupStart
  <2>1. backing' \in Backups
    BY <1>1, <1>2 DEF BackupStart, Backups, AlertTypes
  <2> QED
    BY <1>2, <2>1 DEF BackupStart, alertVars, AlertTypes, Exists
<1>3. ASSUME backing # NULL, NEW copy \in CopyOf(backing.start, backing.dirty), BackupEnd(copy)
      PROVE  Types'
  <2>1. backing \in Backups /\ copy \in Files
    BY <1>3, CopiesAreFiles DEF Backups, AlertTypes
  <2>2. backups' \in [Seconds -> Files \cup {NULL}]
    BY <1>3, <2>1 DEF BackupEnd
  <2>3. \A t \in Seconds : Exists(t) => Exists(t)'
    BY <1>3, <2>1, AlertAssumption DEF BackupEnd, Exists, Backups
  <2>4. restoring' = restoring /\ (restoring # NULL => restoring.from \in Seconds)
    BY <1>3 DEF BackupEnd, Restores
  <2>5. (restoring # NULL => Exists(restoring.from))'
    BY <2>3, <2>4 DEF Exists
  <2> QED
    BY <1>3, <2>2, <2>4, <2>5 DEF BackupEnd, alertVars, AlertTypes
<1>4. ASSUME NEW t \in Seconds, RestoreStart(t) PROVE Types'
  <2>1. restoring' \in Restores
    BY <1>1, <1>4 DEF RestoreStart, Restores, AlertTypes
  <2> QED
    BY <1>4, <2>1 DEF RestoreStart, alertVars, AlertTypes, Exists
<1>5. ASSUME restoring # NULL, NEW copy \in SavedCopies, RestoreSaved(copy) PROVE Types'
  <2>1. restoring \in Restores /\ copy \in Files
    BY <1>5, CopiesAreFiles DEF Restores, SavedCopies, AlertTypes
  <2>2. kept' \in [Seconds -> Files \cup {NULL}] /\ restoring' \in Restores
    BY <1>5, <2>1 DEF RestoreSaved, Restores
  <2>3. restoring'.from = restoring.from
    BY <1>5, <2>1 DEF RestoreSaved, Restores
  <2> QED
    BY <1>5, <2>2, <2>3 DEF RestoreSaved, alertVars, AlertTypes, Exists
<1>6. ASSUME restoring # NULL, NEW copy \in BackupContents(restoring.from), RestoreEnd(copy)
      PROVE  Types'
  <2>1. db' \in Files /\ epoch' \in Nat
    BY <1>6, BackupIsFile DEF RestoreEnd, AlertTypes
  <2>2. \A e \in Evaluations : writer = e => ev[e] \in Busy
    BY BusyOrIdle, AlertAssumption DEF AlertTypes
  <2>3. ev' \in [Evaluations -> Busy \cup {Idle}] /\ \A e \in Evaluations : ev'[e].at = ev[e].at
    BY <1>6, <2>2 DEF RestoreEnd, AlertTypes, Busy
  <2>4. backing' \in Backups \cup {NULL}
    BY <1>6 DEF RestoreEnd, Backups
  <2> QED
    BY <1>6, <2>1, <2>3, <2>4 DEF RestoreEnd, AlertTypes
<1> QED
  BY <1>2, <1>3, <1>4, <1>5, <1>6 DEF Copying

LEMMA TypesStep ==
  ASSUME Types, [Next]_vars
  PROVE  Types'
<1>1. CASE Tick /\ UNCHANGED backupVars
  BY <1>1, AlertAssumption DEF Tick, Types, AlertTypes, BackupTypes, backupVars, Exists
<1>2. CASE Scheduling /\ UNCHANGED backupVars
  BY <1>2 DEF Scheduling, Schedule, Types, AlertTypes, BackupTypes, backupVars, Exists
<1>3. ASSUME NEW e \in Evaluations, Evaluation(e), UNCHANGED backupVars PROVE Types'
  BY <1>3, EvaluationTypes DEF Types, BackupTypes, backupVars, Exists
<1>4. CASE UNCHANGED vars
  BY <1>4 DEF vars, alertVars, backupVars, Types, AlertTypes, BackupTypes,
              Exists
<1> QED
  BY <1>1, <1>2, <1>3, <1>4, CommitTypes, CopyingTypes DEF Next

(***************************************************************************)
(* Alerts are recorded once.                                               *)
(***************************************************************************)
\* What was recorded since the database was last replaced is in it, unless it
\* became unreadable; and the alert about to be committed was not.
OnceInv ==
  /\ \A x \in recorded :
       /\ x.epoch <= epoch
       /\ x.epoch = epoch /\ db.readable => Taken(x.price)
  /\ writer # NULL => [price |-> ev[writer].obs.price, epoch |-> epoch] \notin recorded
  /\ ~twice

\* Before its commit an evaluation changes no row; the primary key lets its
\* insert pass only if no row has the price.
LEMMA OnceEvaluation ==
  ASSUME AlertTypes, OnceInv, NEW e \in Evaluations, Evaluation(e)
  PROVE  OnceInv'
<1>1. UNCHANGED <<db, recorded, twice, epoch>>
  BY DEF Evaluation, Load, Judge, Insert, Fail
<1>2. CASE writer' = NULL
  BY <1>1, <1>2 DEF OnceInv, Taken
<1>3. CASE writer' # NULL /\ writer' # writer
  <2>1. /\ Insert(e) /\ writer' = e /\ ~Taken(ev[e].obs.price) /\ db.readable
        /\ ev' = [ev EXCEPT ![e].at = "inserted"]
    BY <1>3 DEF Evaluation, Load, Judge, Insert, Fail
  <2>2. ev[e] \in Busy
    BY <2>1, BusyOrIdle DEF Insert
  <2>3. ev'[e].obs = ev[e].obs
    BY <2>1, <2>2 DEF AlertTypes, Busy
  <2>4. [price |-> ev[e].obs.price, epoch |-> epoch] \notin recorded
    BY <2>1 DEF OnceInv
  <2> QED
    BY <1>1, <2>1, <2>3, <2>4 DEF OnceInv, Taken
<1>4. CASE writer' # NULL /\ writer' = writer
  <2>1. ev[writer].at = "inserted" /\ writer \in Evaluations
    BY <1>4 DEF AlertTypes
  <2>2. ev'[writer] = ev[writer]
    BY <1>4, <2>1 DEF Evaluation, Load, Judge, Insert, Fail, AlertTypes, Idle
  <2> QED
    BY <1>1, <1>4, <2>2 DEF OnceInv, Taken
<1> QED
  BY <1>2, <1>3, <1>4

LEMMA OnceCommit ==
  ASSUME Types, OnceInv, NEW e \in Evaluations, CommitBeside(e)
  PROVE  OnceInv'
<1> DEFINE entry == [price |-> ev[e].obs.price, epoch |-> epoch]
           written == [db EXCEPT !.rows = @ \cup {NewRow(e)}]
<1>1. /\ writer = e /\ writer # NULL /\ writer' = NULL /\ epoch' = epoch
      /\ db' \in {written, Malformed}
      /\ recorded' = recorded \cup {entry} /\ twice' = (twice \/ entry \in recorded)
  BY AlertAssumption DEF CommitBeside, Commit
<1>2. written.rows = db.rows \cup {NewRow(e)} /\ written.readable = db.readable
  BY DEF Types, AlertTypes, Files
<1>3. NewRow(e).price = ev[e].obs.price
  BY DEF NewRow
<1>4. CASE db' = written
  <2>1. \A price : Taken(price) \/ price = ev[e].obs.price => Taken(price)'
    BY <1>2, <1>3, <1>4 DEF Taken
  <2>2. \A x \in recorded' : x.epoch <= epoch' /\ (x.epoch = epoch' /\ db'.readable => Taken(x.price)')
    BY <1>1, <1>2, <1>4, <2>1 DEF OnceInv, Types, AlertTypes
  <2> QED
    BY <1>1, <2>2 DEF OnceInv
<1>5. CASE db' = Malformed
  <2>1. ~db'.readable
    BY <1>5 DEF Malformed
  <2>2. \A x \in recorded' : x.epoch <= epoch'
    BY <1>1 DEF OnceInv, Types, AlertTypes
  <2> QED
    BY <1>1, <2>1, <2>2 DEF OnceInv
<1> QED
  BY <1>1, <1>4, <1>5

LEMMA OnceStep ==
  ASSUME Types, OnceInv, [Next]_vars
  PROVE  OnceInv'
<1>1. CASE Restoring
  <2>1. epoch' = epoch + 1 /\ recorded' = recorded /\ twice' = twice
    BY <1>1 DEF Restoring, RestoreEnd
  <2>2. \A x \in recorded : x.epoch \in Nat /\ x.epoch <= epoch
    BY DEF OnceInv, Types, AlertTypes
  <2>3. \A x \in recorded : x.epoch <= epoch' /\ x.epoch # epoch'
    BY <2>1, <2>2 DEF Types, AlertTypes
  <2> QED
    BY <2>1, <2>3 DEF OnceInv
<1>2. ASSUME NEW e \in Evaluations, Evaluation(e) PROVE OnceInv'
  BY <1>2, OnceEvaluation DEF Types
<1>3. CASE UNCHANGED <<db, writer, ev, recorded, twice, epoch>>
  BY <1>3 DEF OnceInv, Taken
<1>4. CASE Tick \/ Scheduling \/ (Copying /\ ~Restoring) \/ UNCHANGED vars
  BY <1>3, <1>4 DEF Restoring, Tick, Scheduling, Schedule, Copying, BackupStart, BackupEnd, RestoreStart,
                    RestoreSaved, alertVars, vars
<1> QED
  BY <1>1, <1>2, <1>4, OnceCommit DEF Next

(***************************************************************************)
(* The cooldown.                                                           *)
(***************************************************************************)
\* No row is from the future, or closer than the cooldown to one its own
\* evaluation had read.  Of an evaluation in flight: the latest times it
\* loaded bound the rest, and once it decided to alert, all are far enough.
Spaced(rows) ==
  \A s \in rows : s.at <= now /\ \A k \in s.saw : s.at >= k.at + Cooldown

Informed(one) ==
  /\ one.obs.at <= now
  /\ one.at = "loaded" => \A k \in one.state.saw : \E last \in one.state.last : k.at <= last
  /\ one.at # "loaded" => \A k \in one.state.saw : one.obs.at >= k.at + Cooldown

SpacedInv ==
  /\ \A o \in observed : o.at <= now
  /\ Spaced(db.rows)
  /\ \A t \in Seconds : backups[t] # NULL => Spaced(backups[t].rows)
  /\ backing # NULL => Spaced(backing.start.rows)
  /\ \A e \in Evaluations : ev[e] # Idle => Informed(ev[e])

LEMMA Least ==
  ASSUME NEW T \in SUBSET Nat, T # {}
  PROVE  \E x \in T : \A y \in T : x <= y
<1>1. IsWellFoundedOn(OpToRel(<, Nat), Nat)
  BY NatLessThanWellFounded
<1>2. PICK x \in T : \A y \in T : ~(<<y, x>> \in OpToRel(<, Nat))
  BY <1>1, WFMin
<1>3. \A y \in T : ~(y < x)
  BY <1>2 DEF OpToRel
<1> QED
  BY <1>3

\* load_state returns a latest time of sending when there is a row at all.
LEMMA LatestIsLoaded ==
  ASSUME now \in Nat, NEW file \in Files, Spaced(file.rows), NEW r \in file.rows
  PROVE  \E last \in Loaded(file.rows).last : r.at <= last
<1> DEFINE ages == {now - s.at : s \in file.rows}
<1>1. \A s \in file.rows : s.at \in Nat /\ s.at <= now
  BY DEF Files, Rows, Spaced
<1>2. ages \in SUBSET Nat /\ ages # {}
  BY <1>1
<1>3. PICK age \in ages : \A other \in ages : age <= other
  BY <1>2, Least
<1>4. PICK s \in file.rows : age = now - s.at
  BY <1>3
<1>5. ASSUME NEW t \in file.rows PROVE t.at <= s.at
  <2>1. now - s.at <= now - t.at
    BY <1>3, <1>4
  <2>2. t.at \in Nat /\ s.at \in Nat
    BY <1>1, <1>4
  <2> QED
    BY <2>1, <2>2
<1> QED
  BY <1>5 DEF Loaded

LEMMA SpacedEvaluation ==
  ASSUME AlertTypes, SpacedInv, NEW e \in Evaluations, Evaluation(e), UNCHANGED backupVars
  PROVE  SpacedInv'
<1>1. UNCHANGED <<now, observed, db, backups, backing, restoring>>
  BY DEF Evaluation, Load, Judge, Insert, Fail, backupVars
<1>2. \A f \in Evaluations \ {e} : ev'[f] = ev[f]
  BY DEF Evaluation, Load, Judge, Insert, Fail, AlertTypes
<1>3. ev'[e] # Idle => Informed(ev'[e])
  <2>1. ASSUME NEW obs \in observed, Load(e, obs) PROVE Informed(ev'[e])
    <3>1. ev'[e] = [at |-> "loaded", obs |-> [price |-> obs.price, at |-> obs.at],
                    state |-> Loaded(db.rows), replaced |-> FALSE]
      BY <2>1 DEF Load, AlertTypes
    <3>2. obs.at <= now
      BY DEF SpacedInv
    <3>3. \A k \in Loaded(db.rows).saw : \E last \in Loaded(db.rows).last : k.at <= last
      <4> SUFFICES ASSUME NEW r \in db.rows
                   PROVE  \E last \in Loaded(db.rows).last : Key(r).at <= last
        BY DEF Loaded
      <4> QED
        BY LatestIsLoaded DEF AlertTypes, SpacedInv, Key
    <3> QED
      BY <3>1, <3>2, <3>3 DEF Informed
  <2>2. ASSUME NEW previous \in Baselines, Judge(e, previous), ev'[e] # Idle PROVE Informed(ev'[e])
    <3>1. ev[e] \in Busy /\ ev[e].at = "loaded"
      BY <2>2, BusyOrIdle DEF Judge
    <3>2. /\ Evaluate(previous, ev[e].obs, ev[e].state) = "alert"
          /\ ev'[e] = [ev[e] EXCEPT !.at = "selected"]
      BY <2>2 DEF Judge, AlertTypes
    <3>3. ev'[e].at = "selected" /\ ev'[e].obs = ev[e].obs /\ ev'[e].state = ev[e].state
      BY <3>1, <3>2 DEF Busy
    <3>4. \A last \in ev[e].state.last : ~(ev[e].obs.at - last < Cooldown)
      BY <3>2 DEF Evaluate, InCooldown
    <3>5. ASSUME NEW k \in ev[e].state.saw PROVE ev[e].obs.at >= k.at + Cooldown
      <4>1. PICK last \in ev[e].state.last : k.at <= last
        BY <3>1 DEF SpacedInv, Informed, Idle, Busy
      <4>2. k.at \in Nat /\ last \in Nat /\ ev[e].obs.at \in Nat /\ Cooldown \in Nat
        BY <3>1, AlertAssumption DEF Busy, States, Keys
      <4>3. ~(ev[e].obs.at - last < Cooldown)
        BY <3>4
      <4> QED
        BY <4>1, <4>2, <4>3
    <3>6. ev[e].obs.at <= now
      BY <3>1 DEF SpacedInv, Informed, Idle
    <3> QED
      BY <3>3, <3>5, <3>6 DEF Informed
  <2>3. ASSUME Insert(e), ev'[e] # Idle PROVE Informed(ev'[e])
    <3>1. ev[e] \in Busy /\ ev[e].at = "selected" /\ Informed(ev[e])
      BY <2>3, BusyOrIdle DEF Insert, SpacedInv, Idle
    <3>2. ev'[e] = [ev[e] EXCEPT !.at = "inserted"]
      BY <2>3 DEF Insert, AlertTypes
    <3>3. ev'[e].at = "inserted" /\ ev'[e].obs = ev[e].obs /\ ev'[e].state = ev[e].state
      BY <3>1, <3>2 DEF Busy
    <3> QED
      BY <1>1, <3>1, <3>3 DEF Informed
  <2>4. Fail(e) => ev'[e] = Idle
    BY DEF Fail, AlertTypes
  <2> QED
    BY <1>1, <2>1, <2>2, <2>3, <2>4 DEF Evaluation, Informed
<1> QED
  BY <1>1, <1>2, <1>3 DEF SpacedInv, Spaced, Informed

LEMMA SpacedCommit ==
  ASSUME Types, SpacedInv, NEW e \in Evaluations, CommitBeside(e)
  PROVE  SpacedInv'
<1>1. ev[e] \in Busy /\ ev[e].at = "inserted" /\ Informed(ev[e])
  BY BusyOrIdle DEF CommitBeside, Commit, Types, SpacedInv, Idle
<1>2. UNCHANGED <<now, observed, backups>>
  BY DEF CommitBeside, Commit
<1>3. Spaced(db.rows \cup {NewRow(e)}) /\ Spaced({})
  BY <1>1 DEF SpacedInv, Spaced, Informed, NewRow
<1>4. db'.rows \in {db.rows \cup {NewRow(e)}, {}}
  <2>1. db' \in {[db EXCEPT !.rows = @ \cup {NewRow(e)}], Malformed}
    BY DEF CommitBeside, Commit
  <2> QED
    BY <2>1 DEF Malformed, Types, AlertTypes, Files
<1>5. Spaced(db'.rows)
  BY <1>3, <1>4
<1>6. backing' # NULL => backing # NULL /\ backing'.start = backing.start
  BY DEF CommitBeside, Types, BackupTypes, Backups
<1>7. \A f \in Evaluations : ev'[f] # Idle => ev'[f] = ev[f]
  BY DEF CommitBeside, Commit, Types, AlertTypes
<1> QED
  BY <1>2, <1>5, <1>6, <1>7 DEF SpacedInv, Spaced, Informed

LEMMA SpacedCopying ==
  ASSUME Types, SpacedInv, Copying
  PROVE  SpacedInv'
<1>1. UNCHANGED <<now, observed>>
  BY DEF Copying, BackupStart, BackupEnd, RestoreStart, RestoreSaved, RestoreEnd, alertVars
<1>2. Spaced(Malformed.rows)
  BY DEF Malformed, Spaced
<1>3. Spaced(db'.rows)
  <2>1. ASSUME restoring # NULL, NEW copy \in BackupContents(restoring.from), RestoreEnd(copy)
        PROVE  Spaced(db'.rows)
    <3>1. restoring.from \in Seconds
      BY <2>1 DEF Types, BackupTypes, Restores
    <3>2. Spaced(copy.rows)
      BY <1>2, <2>1, <3>1, BackupIsFile DEF SpacedInv, Types
    <3> QED
      BY <2>1, <3>2 DEF RestoreEnd
  <2> QED
    BY <2>1 DEF Copying, BackupStart, BackupEnd, RestoreStart, RestoreSaved, alertVars, SpacedInv
<1>4. \A t \in Seconds : backups'[t] # NULL => Spaced(backups'[t].rows)
  <2>1. ASSUME backing # NULL, NEW copy \in CopyOf(backing.start, backing.dirty), BackupEnd(copy)
        PROVE  \A t \in Seconds : backups'[t] # NULL => Spaced(backups'[t].rows)
    <3>1. Spaced(copy.rows)
      BY <1>2, <2>1 DEF CopyOf, SpacedInv
    <3> QED
      BY <2>1, <3>1 DEF BackupEnd, SpacedInv, Types, BackupTypes
  <2> QED
    BY <2>1 DEF Copying, BackupStart, RestoreStart, RestoreSaved, RestoreEnd, SpacedInv
<1>5. backing' # NULL => Spaced(backing'.start.rows)
  <2>1. CASE BackupStart
    BY <2>1 DEF BackupStart, SpacedInv
  <2>2. CASE Restoring
    BY <2>2 DEF Restoring, RestoreEnd, SpacedInv, Types, BackupTypes, Backups
  <2>3. CASE ~BackupStart /\ ~Restoring
    BY <2>3 DEF Copying, BackupEnd, RestoreStart, RestoreSaved, Restoring, SpacedInv
  <2> QED
    BY <2>1, <2>2, <2>3
<1>6. \A e \in Evaluations : ev'[e] # Idle => Informed(ev'[e])
  <2>1. CASE Restoring
    <3> SUFFICES ASSUME NEW e \in Evaluations, ev'[e] # Idle PROVE Informed(ev'[e])
      OBVIOUS
    <3>1. CASE writer = e
      <4>1. ev[e] \in Busy /\ ev[e] # Idle /\ ev'[e] = [ev[e] EXCEPT !.replaced = TRUE]
        BY <2>1, <3>1, BusyOrIdle, AlertAssumption DEF Restoring, RestoreEnd, Types, AlertTypes, Idle
      <4>2. ev'[e].at = ev[e].at /\ ev'[e].obs = ev[e].obs /\ ev'[e].state = ev[e].state
        BY <4>1 DEF Busy
      <4> QED
        BY <4>1, <4>2 DEF SpacedInv, Informed
    <3>2. CASE writer # e
      BY <2>1, <3>2 DEF Restoring, RestoreEnd, Types, AlertTypes, SpacedInv
    <3> QED
      BY <3>1, <3>2
  <2>2. CASE ~Restoring
    BY <2>2 DEF Copying, BackupStart, BackupEnd, RestoreStart, RestoreSaved, Restoring, alertVars,
                SpacedInv
  <2> QED
    BY <2>1, <2>2
<1> QED
  BY <1>1, <1>3, <1>4, <1>5, <1>6 DEF SpacedInv, Spaced, Informed

LEMMA SpacedTick ==
  ASSUME Types, SpacedInv, Tick, UNCHANGED backupVars
  PROVE  SpacedInv'
<1>1. /\ now' \in Nat /\ now <= now' /\ now \in Nat
      /\ UNCHANGED <<observed, db, ev, backups, backing, restoring>>
  BY DEF Tick, backupVars, Types, AlertTypes
<1>2. /\ db \in Files
      /\ \A t \in Seconds : backups[t] # NULL => backups[t] \in Files
      /\ backing # NULL => backing.start \in Files
  BY DEF Types, AlertTypes, BackupTypes, Backups
<1>3. \A o \in observed : o.at <= now'
  BY <1>1 DEF SpacedInv, Types, AlertTypes
<1>4. ASSUME NEW e \in Evaluations, ev[e] # Idle PROVE Informed(ev[e])'
  <2>1. ev[e] \in Busy /\ Informed(ev[e])
    BY <1>4, BusyOrIdle DEF Types, SpacedInv
  <2>2. ev[e].obs.at <= now'
    BY <1>1, <2>1 DEF Informed, Busy, Keys
  <2> QED
    BY <1>1, <2>1, <2>2 DEF Informed
<1>5. /\ Spaced(db.rows)'
      /\ \A t \in Seconds : backups[t] # NULL => Spaced(backups[t].rows)'
      /\ backing # NULL => Spaced(backing.start.rows)'
  BY <1>1, <1>2 DEF SpacedInv, Spaced, Files, Rows
<1> QED
  BY <1>1, <1>3, <1>4, <1>5 DEF SpacedInv

LEMMA SpacedStep ==
  ASSUME Types, SpacedInv, [Next]_vars
  PROVE  SpacedInv'
<1>1. CASE Scheduling /\ UNCHANGED backupVars
  BY <1>1 DEF Scheduling, Schedule, backupVars, SpacedInv, Spaced, Informed, Types, AlertTypes
<1>2. CASE UNCHANGED vars
  BY <1>2 DEF vars, alertVars, backupVars, SpacedInv, Spaced, Informed
<1> QED
  BY <1>1, <1>2, SpacedTick, SpacedEvaluation, SpacedCommit, SpacedCopying DEF Next, Types

(***************************************************************************)
(* Recorded alerts survive a restore.                                      *)
(***************************************************************************)
\* What is in no danger: prices of the copies restores saved, and those the
\* property excuses.
Safe == exposed \cup UNION {PricesIn(kept[t]) : t \in Seconds}

\* From the moment a restore has saved its copy, the database may be lost; a
\* commit that the copy may have missed is excused.
SurviveInv ==
  /\ \A x \in recorded : x.price \in PricesIn(db) \cup Safe
  /\ restoring # NULL /\ restoring.saved => PricesIn(db) \subseteq Safe
  /\ restoring # NULL /\ restoring.dirty => PricesIn(db) \subseteq exposed

LEMMA PricesOfFile ==
  ASSUME NEW file \in Files
  PROVE  PricesIn(file) = {r.price : r \in file.rows}
BY AlertAssumption DEF PricesIn

LEMMA SurviveCommit ==
  ASSUME Types, SurviveInv, NEW e \in Evaluations, CommitBeside(e)
  PROVE  SurviveInv'
<1> DEFINE price == ev[e].obs.price
           written == [db EXCEPT !.rows = @ \cup {NewRow(e)}]
<1>1. ev[e] \in Busy
  BY BusyOrIdle DEF CommitBeside, Commit, Types
<1>2. /\ db \in Files /\ db' \in Files
      /\ written \in Files /\ written.rows = db.rows \cup {NewRow(e)}
      /\ Malformed \in Files /\ Malformed.rows = {}
      /\ db' \in (IF ev[e].replaced THEN {written, Malformed} ELSE {written})
  <2>1. Malformed \in Files /\ Malformed.rows = {}
    BY DEF Malformed, Files
  <2>2. db \in Files /\ written \in Files
    BY <1>1, NewRowTypes DEF Types, AlertTypes
  <2>3. written.rows = db.rows \cup {NewRow(e)}
    BY <2>2 DEF Files
  <2>4. db' \in (IF ev[e].replaced THEN {written, Malformed} ELSE {written})
    BY DEF CommitBeside, Commit
  <2> QED
    BY <2>1, <2>2, <2>3, <2>4
<1> HIDE DEF written
<1>3. PricesIn(written) = PricesIn(db) \cup {price} /\ PricesIn(Malformed) = {}
  <2>1. NewRow(e).price = price
    BY DEF NewRow
  <2>2. PricesIn(db) = {r.price : r \in db.rows} /\ PricesIn(Malformed) = {}
    BY <1>2, PricesOfFile
  <2>3. PricesIn(written) = {r.price : r \in db.rows \cup {NewRow(e)}}
    BY <1>2, PricesOfFile
  <2> HIDE DEF price
  <2> QED
    BY <2>1, <2>2, <2>3
<1>4. PricesIn(db') \subseteq PricesIn(db) \cup {price}
  BY <1>2, <1>3
<1>5. PricesIn(db') = PricesIn(db) \cup {price} \/ ev[e].replaced
  BY <1>2, <1>3
<1>6. kept' = kept /\ recorded' = recorded \cup {[price |-> price, epoch |-> epoch]}
  BY DEF CommitBeside, Commit
<1>7. /\ exposed \subseteq exposed'
      /\ restoring # NULL \/ ev[e].replaced => PricesIn(db) \cup {price} \subseteq exposed'
  BY DEF CommitBeside
<1>8. Safe \subseteq Safe' /\ exposed' \subseteq Safe'
  BY <1>6, <1>7 DEF Safe, PricesIn
<1>9. \A x \in recorded' : x.price \in PricesIn(db') \cup Safe'
  <2>1. \A x \in recorded' : x.price \in PricesIn(db) \cup {price} \cup Safe
    BY <1>6 DEF SurviveInv
  <2> QED
    BY <1>5, <1>7, <1>8, <2>1
<1>10. restoring' # NULL => PricesIn(db') \subseteq exposed'
  <2>1. restoring' # NULL => restoring # NULL
    BY DEF CommitBeside
  <2> QED
    BY <1>4, <1>7, <2>1
<1>11. \A file : PricesIn(file)' = PricesIn(file')
  BY DEF PricesIn
<1> QED
  BY <1>8, <1>9, <1>10, <1>11 DEF SurviveInv, PricesIn

\* A restore saves what it will overwrite; what it saves it over is excused.
LEMMA SurviveSaved ==
  ASSUME Types, SurviveInv, restoring # NULL, NEW copy \in SavedCopies, RestoreSaved(copy)
  PROVE  SurviveInv'
<1>1. /\ restoring \in Restores /\ db' = db /\ recorded' = recorded
      /\ restoring'.dirty = restoring.dirty
  BY DEF RestoreSaved, Types, BackupTypes, Restores, alertVars
<1>2. /\ exposed' = exposed \cup PricesIn(kept[restoring.second])
      /\ kept' = [kept EXCEPT ![restoring.second] = copy]
      /\ restoring.second \in Seconds
  BY <1>1 DEF RestoreSaved, Restores
<1>3. /\ kept'[restoring.second] = copy
      /\ \A t \in Seconds \ {restoring.second} : kept'[t] = kept[t]
  BY <1>2 DEF Types, BackupTypes
<1>4. Safe' = exposed' \cup UNION {PricesIn(kept'[t]) : t \in Seconds}
  BY DEF Safe, PricesIn
<1>5. Safe \subseteq Safe' /\ exposed \subseteq exposed' /\ exposed' \subseteq Safe'
  BY <1>2, <1>3, <1>4 DEF Safe
<1>6. PricesIn(db) \subseteq Safe'
  <2>1. CASE restoring.dirty
    BY <1>5, <2>1 DEF SurviveInv
  <2>2. CASE ~restoring.dirty
    <3>1. copy = db
      BY <2>2 DEF SavedCopies, CopyOf
    <3> QED
      BY <1>2, <1>3, <1>4, <3>1
  <2> QED
    BY <2>1, <2>2
<1>7. PricesIn(db)' = PricesIn(db)
  BY <1>1 DEF PricesIn
<1>8. restoring'.dirty => PricesIn(db) \subseteq exposed'
  BY <1>1, <1>5 DEF SurviveInv
<1> QED
  BY <1>1, <1>5, <1>6, <1>7, <1>8 DEF SurviveInv

LEMMA SurviveStep ==
  ASSUME Types, SurviveInv, [Next]_vars
  PROVE  SurviveInv'
<1>1. CASE Restoring
  <2>1. restoring' = NULL /\ UNCHANGED <<recorded, kept, exposed>>
    BY <1>1 DEF Restoring, RestoreEnd
  <2>2. PricesIn(db) \subseteq Safe
    BY <1>1 DEF Restoring, RestoreEnd, SurviveInv
  <2>3. Safe' = Safe
    BY <2>1 DEF Safe, PricesIn
  <2>4. \A x \in recorded : x.price \in Safe
    BY <2>2 DEF SurviveInv
  <2> QED
    BY <2>1, <2>3, <2>4 DEF SurviveInv
<1>2. ASSUME NEW t \in Seconds, RestoreStart(t) PROVE SurviveInv'
  BY <1>2 DEF RestoreStart, SurviveInv, Safe, PricesIn, alertVars
<1>3. CASE UNCHANGED <<db, recorded, kept, restoring, exposed>>
  BY <1>3 DEF SurviveInv, Safe, PricesIn
<1>4. CASE \/ UNCHANGED backupVars /\ (Tick \/ Scheduling \/ \E e \in Evaluations : Evaluation(e))
           \/ BackupStart \/ UNCHANGED vars
           \/ backing # NULL /\ \E copy \in CopyOf(backing.start, backing.dirty) : BackupEnd(copy)
  BY <1>3, <1>4 DEF Tick, Scheduling, Schedule, Evaluation, Load, Judge, Insert, Fail, BackupStart,
                    BackupEnd, backupVars, alertVars, vars
<1> QED
  BY <1>1, <1>2, <1>4, SurviveCommit, SurviveSaved DEF Next, Copying, Restoring

(***************************************************************************)
(* The scheduler.                                                          *)
(***************************************************************************)
LEMMA EligibleInBackground ==
  ASSUME NEW watch \in Watches, NEW runtime, now \in Nat, NEW p \in Eligible(watch, runtime, now)
  PROVE  /\ ~Policies[p].live /\ ~Policies[p].userActionRequired
         /\ Policies[p].backgroundAllowed /\ Policies[p].enabled
         /\ Policies[p].credentialsPresent /\ Policies[p].accessApproved
         /\ watch.enabled /\ now \div DayLength <= watch.departureDay
         /\ watch.providers = {} \/ p \in watch.providers
         /\ \A instant \in {watch.pausedUntil, watch.nextEligibleAt, watch.freshUntil} :
               instant # Never => instant <= now
         /\ p \in runtime.reserved \ runtime.circuitOpen
<1>1. /\ p \in Registry /\ BlockedReason(watch, now) = Allowed
      /\ ProviderDenial(watch, p, runtime, now) = Allowed
  BY DEF Eligible
<1>2. RegistrationDenial(Policies[p]) = Accepted
  BY <1>1 DEF Registry
<1>3. /\ ~Policies[p].live /\ ~Policies[p].userActionRequired /\ Policies[p].backgroundAllowed
  BY <1>2 DEF RegistrationDenial, Accepted
<1>4. /\ watch.providers = {} \/ p \in watch.providers
      /\ p \in runtime.reserved \ runtime.circuitOpen
      /\ GuardVerdict(Policies[p], "search", "scheduler", watch, {}, now) = Allowed
  BY <1>1 DEF ProviderDenial, Allowed
<1>5. Policies[p].enabled /\ Policies[p].credentialsPresent /\ Policies[p].accessApproved
  BY <1>4 DEF GuardVerdict, Allowed
<1>6. /\ watch.enabled /\ ~(watch.departureDay < now \div DayLength)
      /\ ~Before(now, watch.pausedUntil) /\ ~Before(now, watch.nextEligibleAt)
      /\ ~Before(now, watch.freshUntil)
  BY <1>1 DEF BlockedReason, Allowed
<1>7. /\ {watch.pausedUntil, watch.nextEligibleAt, watch.freshUntil} \subseteq Nat \cup {Never}
      /\ watch.departureDay \in Int /\ now \div DayLength \in Int
  BY SchedulerAssumption
<1>8. \A instant \in {watch.pausedUntil, watch.nextEligibleAt, watch.freshUntil} :
        instant # Never => instant <= now
  BY <1>6, <1>7 DEF Before
<1>9. now \div DayLength <= watch.departureDay
  BY <1>6, <1>7
<1> QED
  BY <1>3, <1>4, <1>5, <1>6, <1>8, <1>9

LEMMA BackgroundStep ==
  ASSUME Types, BackgroundOnly, [Next]_vars
  PROVE  BackgroundOnly'
<1>1. CASE Scheduling
  <2>1. PICK watch \in Watches, runtime \in Runtimes, p \in Providers, price \in Prices :
          Schedule(watch, runtime, p, price)
    BY <1>1 DEF Scheduling
  <2>2. /\ p \in Eligible(watch, runtime, now)
        /\ observed' = observed \cup {[price |-> price, at |-> now, provider |-> p, watch |-> watch,
                                       runtime |-> runtime]}
    BY <2>1 DEF Schedule
  <2>3. now \in Nat
    BY DEF Types, AlertTypes
  <2> QED
    BY <2>2, <2>3, EligibleInBackground DEF BackgroundOnly
<1>2. CASE ~Scheduling
  <2>1. observed' = observed
    BY <1>2 DEF Next, Tick, Evaluation, Load, Judge, Insert, Fail, CommitBeside, Commit, Copying,
                BackupStart, BackupEnd, RestoreStart, RestoreSaved, RestoreEnd, alertVars, vars
  <2> QED
    BY <2>1 DEF BackgroundOnly
<1> QED
  BY <1>1, <1>2

(***************************************************************************)
(* The theorems.                                                           *)
(***************************************************************************)
LEMMA InitHolds ==
  ASSUME Init
  PROVE  Types /\ OnceInv /\ SpacedInv /\ SurviveInv /\ BackgroundOnly
<1>1. db \in Files /\ db.rows = {}
  BY DEF Init, AlertInit, Files
<1>2. \A t \in Seconds : backups[t] \in {NULL, db}
  BY DEF Init
<1>3. /\ backups \in [Seconds -> Files \cup {NULL}]
      /\ kept \in [Seconds -> Files \cup {NULL}]
  BY <1>1, <1>2 DEF Init
<1>4. Types
  BY <1>1, <1>3, AlertAssumption DEF Init, AlertInit, Types, AlertTypes, BackupTypes
<1>5. OnceInv /\ SurviveInv /\ BackgroundOnly
  BY DEF Init, AlertInit, OnceInv, SurviveInv, BackgroundOnly
<1>6. SpacedInv
  BY <1>1, <1>2 DEF Init, AlertInit, SpacedInv, Spaced
<1> QED
  BY <1>4, <1>5, <1>6

LEMMA Invariants == Spec => [](Types /\ OnceInv /\ SpacedInv /\ SurviveInv /\ BackgroundOnly)
<1> DEFINE Inv == Types /\ OnceInv /\ SpacedInv /\ SurviveInv /\ BackgroundOnly
<1>1. Init => Inv
  BY InitHolds
<1>2. Inv /\ [Next]_vars => Inv'
  BY TypesStep, OnceStep, SpacedStep, SurviveStep, BackgroundStep
<1> QED
  BY <1>1, <1>2, PTL DEF Spec

\* record_alert records a price at most once between two replacements of the
\* database, however evaluations race, fail, are repeated or arrive late.
THEOREM AlertsAreRecordedOnce == Spec => []AlertedOnce
<1>1. OnceInv => AlertedOnce
  BY DEF OnceInv, AlertedOnce
<1> QED
  BY <1>1, Invariants, PTL

\* AlertEvaluator's cooldown separates an alert from every alert its evaluation
\* had read, also across backups and restores of the dedupe table.
THEOREM CooldownSeparatesAlerts == Spec => []CooldownKept
<1>1. SpacedInv => CooldownKept
  BY DEF SpacedInv, Spaced, CooldownKept, Key
<1> QED
  BY <1>1, Invariants, PTL

\* A provider the scheduler called was registered for background use and
\* permitted by a watch that was due.
THEOREM SchedulerStaysInBackground == Spec => []BackgroundOnly
BY Invariants, PTL

\* A recorded alert is in the database or in a copy some restore saved, but
\* for the commits and the copies that AlertsSurviveRestore names.
THEOREM RestoreKeepsAlerts == Spec => []AlertsSurviveRestore
<1>1. SurviveInv => AlertsSurviveRestore
  BY DEF SurviveInv, Safe, AlertsSurviveRestore
<1> QED
  BY <1>1, Invariants, PTL
=============================================================================
