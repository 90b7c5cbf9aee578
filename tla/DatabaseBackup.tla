--------------------------- MODULE DatabaseBackup ---------------------------
(***************************************************************************)
(* flight-hunter-backup and flight-hunter-restore beside the sessions that  *)
(* write the database: plain copies of the file, whose names carry the time *)
(* to the second (one tick here).  Neither takes SQLite's lock, so a copy   *)
(* that a commit overlaps may hold the file before, after, or neither.      *)
(***************************************************************************)
EXTENDS PriceAlerts

CONSTANT MaxCopies \* bound: backups and restores

Seconds == 0 .. MaxClock

\* A backup and a restore on their way; a restore knows its backup by name.
Backups == [second: Seconds, start: Files, dirty: BOOLEAN]
Restores == [from: Seconds, second: Seconds, start: Files, dirty: BOOLEAN, saved: BOOLEAN]

ASSUME BackupAssumption ==
  MaxCopies \in Nat /\ NULL \notin Backups /\ NULL \notin Restores

VARIABLES
  backups,   \* flight_hunter_<second>.db
  kept,      \* <database>.before-restore-<second>.db
  backing,   \* the backup that is being copied, or NULL
  restoring, \* the restore that runs, or NULL
  exposed,   \* history: prices a commit or a second restore took protection from
  copies     \* history: backups and restores begun

backupVars == <<backups, kept, backing, restoring, exposed, copies>>
vars == <<alertVars, backupVars>>

\* A backup of the empty database may have been made before.
Init ==
  /\ AlertInit
  /\ \E earlier \in {NULL, db} : backups = [t \in Seconds |-> IF t = 0 THEN earlier ELSE NULL]
  /\ kept = [t \in Seconds |-> NULL]
  /\ backing = NULL /\ restoring = NULL /\ exposed = {} /\ copies = 0

PricesIn(copy) == IF copy = NULL THEN {} ELSE {r.price : r \in copy.rows}

\* What a copy may hold that was started from one state of the file.
CopyOf(start, dirty) == IF dirty THEN {start, db, Malformed} ELSE {db}

BackupStart ==
  /\ backing = NULL /\ copies < MaxCopies /\ copies' = copies + 1
  /\ backing' = [second |-> now, start |-> db, dirty |-> FALSE]
  /\ UNCHANGED <<alertVars, backups, kept, restoring, exposed>>

\* copy2 to a name an earlier backup of the same second may have.
BackupEnd(copy) ==
  /\ backing # NULL /\ backing' = NULL
  /\ copy \in CopyOf(backing.start, backing.dirty)
  /\ backups' = [backups EXCEPT ![backing.second] = copy]
  /\ UNCHANGED <<alertVars, kept, restoring, exposed, copies>>

\* A backup that is just being copied has a name as well.
Exists(t) == backups[t] # NULL \/ (backing # NULL /\ backing.second = t)

\* What a restore finds in the backup: perhaps a part, while it is being copied.
BackupContents(t) ==
  IF backing # NULL /\ backing.second = t THEN ({backups[t]} \ {NULL}) \cup {Malformed}
  ELSE {backups[t]}

\* restore_sqlite_backup up to the start of its first copy.
RestoreStart(t) ==
  /\ restoring = NULL /\ copies < MaxCopies /\ copies' = copies + 1
  /\ Exists(t)
  /\ restoring' = [from |-> t, second |-> now, start |-> db, dirty |-> FALSE, saved |-> FALSE]
  /\ UNCHANGED <<alertVars, backups, kept, backing, exposed>>

\* Mutant of SavedCopies: saved after the backup was copied over.
SavedCopiesAfter == BackupContents(restoring.from)

SavedCopies == CopyOf(restoring.start, restoring.dirty)

\* The previous database is saved, over what another restore saved that second.
RestoreSaved(copy) ==
  /\ restoring # NULL /\ ~restoring.saved
  /\ copy \in SavedCopies
  /\ kept' = [kept EXCEPT ![restoring.second] = copy]
  /\ exposed' = exposed \cup PricesIn(kept[restoring.second])
  /\ restoring' = [restoring EXCEPT !.saved = TRUE]
  /\ UNCHANGED <<alertVars, backups, backing, copies>>

\* The backup, as it is by now, is copied over the database.
RestoreEnd(copy) ==
  /\ restoring # NULL /\ restoring.saved /\ restoring' = NULL
  /\ copy \in BackupContents(restoring.from)
  /\ db' = copy /\ epoch' = epoch + 1
  /\ ev' = [e \in Evaluations |-> IF writer = e THEN [ev[e] EXCEPT !.replaced = TRUE] ELSE ev[e]]
  /\ backing' = IF backing = NULL THEN NULL ELSE [backing EXCEPT !.dirty = TRUE]
  /\ UNCHANGED <<now, observed, writer, recorded, twice, backups, kept, exposed, copies>>

\* A commit beside the copies.
CommitBeside(e) ==
  /\ Commit(e)
  /\ backing' = IF backing = NULL THEN NULL ELSE [backing EXCEPT !.dirty = TRUE]
  /\ restoring' = IF restoring = NULL THEN NULL ELSE [restoring EXCEPT !.dirty = TRUE]
  /\ exposed' = IF restoring # NULL \/ ev[e].replaced
                THEN exposed \cup PricesIn(db) \cup {ev[e].obs.price} ELSE exposed
  /\ UNCHANGED <<backups, kept, copies>>

Copying ==
  \/ BackupStart
  \/ backing # NULL /\ \E copy \in CopyOf(backing.start, backing.dirty) : BackupEnd(copy)
  \/ \E t \in Seconds : RestoreStart(t)
  \/ restoring # NULL /\ \E copy \in SavedCopies : RestoreSaved(copy)
  \/ restoring # NULL /\ \E copy \in BackupContents(restoring.from) : RestoreEnd(copy)

Next ==
  \/ (Tick \/ Scheduling \/ \E e \in Evaluations : Evaluation(e)) /\ UNCHANGED backupVars
  \/ \E e \in Evaluations : CommitBeside(e)
  \/ Copying

Spec == Init /\ [][Next]_vars

-----------------------------------------------------------------------------
\* Every alert that was ever recorded is still in the database or in a copy
\* that a restore saved, unless a commit overlapped a restore or a second
\* restore of the same second overwrote the saved copy.
AlertsSurviveRestore ==
  \A entry \in recorded :
    entry.price \in PricesIn(db) \cup exposed \cup UNION {PricesIn(kept[t]) : t \in Seconds}
=============================================================================
