------------------------------ MODULE Backups ------------------------------
(***************************************************************************)
(* The import of the earlier program's files, the encrypted backups and    *)
(* their restore: web_console.WebConsoleController (startup, the retry of  *)
(* a blocked cleanup, create and restore of a backup), migration.py and    *)
(* the database's import, snapshot and replacement.                        *)
(*                                                                         *)
(* A file's content is a version number, 0 when there is no such file; the *)
(* digest of a set of sources is the function of their versions.  Backups  *)
(* are numbered in the order they are written and never altered (they are  *)
(* authenticated: a damaged one cannot be read, which is an error here).   *)
(* Abstracted: what the tables hold beyond three kinds of rows, and the    *)
(* moment between the last look at a source and its removal.               *)
(***************************************************************************)
EXTENDS Integers, Sequences, FiniteSets

CONSTANTS MaxSourceEdits,    \* edits of the old files by their owner
          MaxBackupFaults,   \* failing calls
          MaxBackupCrashes,  \* deaths of the process
          MaxBackups         \* bound on the backups written

ASSUME BackupBoundsAssumption ==
  {MaxSourceEdits, MaxBackupFaults, MaxBackupCrashes, MaxBackups} \subseteq Nat

VARIABLES disk,     \* the old program's files
          db,       \* the database: meta, kinds of rows, pause, run at work
          vault,    \* the backups written
          removed,  \* history: the <<source, version>> the program deleted
          mem,      \* _migration_status of the process, "down" without one
          queue,    \* "up", "down", or "closing" while a run outlasts its stop
          alertsUp, \* whether the alert coordinator runs
          step,     \* where startup or retry_migration_cleanup stands
          job,      \* its locals: sources read, what is left, who runs it
          rs,       \* where a restore stands
          restore,  \* its locals: the backup, the previous database, and whether it settled
          backupCounts

backupVars == <<disk, db, vault, removed, mem, queue, alertsUp, step, job,
                rs, restore, backupCounts>>
dataVars    == <<disk, db, vault, removed>>
processVars == <<mem, queue, alertsUp>>
jobVars     == <<step, job>>
restoreVars == <<rs, restore>>

Sources   == {"config", "mail", "state"}
Removable == {"config", "state"}
NoSources == [s \in Sources |-> 0]
OfConsole == [s \in Sources |-> IF s = "state" THEN 0 ELSE -1]
NoJob     == [seen |-> NoSources, todo |-> {}, blocked |-> FALSE, by |-> "nobody"]
NoRestore == [file |-> 0, old |-> <<>>, settled |-> FALSE]

Empty == [status |-> "none", mid |-> NoSources, path |-> 0, marker |-> FALSE,
          rows |-> {}, paused |-> FALSE, running |-> FALSE]
Statuses == {"none", "imported", "backup_verified", "cleanup_blocked",
             "complete", "ready", "migration_error"}
Databases == [status : Statuses, mid : [Sources -> -1 .. MaxSourceEdits + 1],
              path : 0 .. MaxBackups, marker : BOOLEAN,
              rows : SUBSET {"accounts", "inventory", "work"},
              paused : BOOLEAN, running : BOOLEAN]
MigrationSteps == {"discover", "validate", "import", "backup", "path",
                   "verified", "cleanup"}

BackupsTypeOK ==
  /\ disk \in [Sources -> 0 .. MaxSourceEdits + 1]
  /\ db \in Databases
  /\ \A i \in DOMAIN vault : vault[i].snap \in Databases
  /\ mem \in {"down", "starting", "ready", "cleanup_blocked", "migration_error",
              "inventory_migration_error"}
  /\ queue \in {"up", "closing", "down"} /\ alertsUp \in BOOLEAN
  /\ step \in {"idle", "inventory", "open"} \cup MigrationSteps
  /\ rs \in {"idle", "close", "replace", "initialize", "settle", "inventory", "reopen"}
  /\ restore.file \in 0 .. Len(vault)
  /\ (rs = "initialize") => restore.old \in Databases

BackupsInit ==
  /\ disk \in {NoSources} \cup {[config |-> 1, mail |-> 1, state |-> n] : n \in {0, 1}}
  /\ db = Empty /\ vault = <<>> /\ removed = {}
  /\ mem = "down" /\ queue = "down" /\ alertsUp = FALSE
  /\ step = "idle" /\ job = NoJob
  /\ rs = "idle" /\ restore = NoRestore
  /\ backupCounts = [edits |-> 0, faults |-> 0, crashes |-> 0, gaveUp |-> FALSE]

Fault == /\ backupCounts.faults < MaxBackupFaults
         /\ backupCounts' = [backupCounts EXCEPT !.faults = @ + 1]

(***************************************************************************)
(* Startup and the retry of the migration.                                 *)
(***************************************************************************)
Goes(s) == step' = s
SetMeta(status) == db' = [db EXCEPT !.status = status]

\* The part of startup that looks at the persisted status.
PrepareMigration ==
  LET absent == disk["config"] = 0 IN
  /\ mem = "down" /\ step = "idle"
  /\ job' = [NoJob EXCEPT !.by = "startup"]
  /\ \/ /\ db.status \in {"ready", "complete"}
        /\ mem' = "ready" /\ Goes("inventory") /\ UNCHANGED db
     \/ /\ db.status = "cleanup_blocked"
        /\ mem' = "cleanup_blocked" /\ Goes("idle") /\ UNCHANGED db
     \/ /\ db.status \notin {"ready", "complete", "cleanup_blocked"}
        /\ \/ /\ ~absent /\ mem' = "starting" /\ Goes("discover") /\ UNCHANGED db
           \/ /\ absent /\ db.mid # NoSources
              /\ mem' = "migration_error" /\ Goes("idle") /\ UNCHANGED db
           \/ /\ absent /\ db.mid = NoSources
              /\ mem' = "ready" /\ SetMeta("ready") /\ Goes("inventory")
  /\ UNCHANGED <<disk, vault, removed, queue, alertsUp, restoreVars, backupCounts>>

\* The request that retries a blocked migration.
RetryMigrationCleanup ==
  /\ mem \notin {"down", "starting", "ready"} /\ step = "idle" /\ rs = "idle"
  /\ \/ /\ mem = "inventory_migration_error"
        /\ mem' = "ready" /\ Goes("inventory")
        /\ job' = [NoJob EXCEPT !.by = "retry"]
     \/ /\ mem = "cleanup_blocked" /\ db.path # 0
        /\ job' = [NoJob EXCEPT !.by = "retry", !.seen = vault[db.path].sources,
                     !.todo = {s \in Removable : vault[db.path].sources[s] > 0}]
        /\ Goes("cleanup") /\ UNCHANGED mem
     \/ /\ mem # "inventory_migration_error" /\ ~(mem = "cleanup_blocked" /\ db.path # 0)
        /\ disk["config"] # 0
        /\ job' = [NoJob EXCEPT !.by = "retry"]
        /\ Goes("discover") /\ UNCHANGED mem
  /\ UNCHANGED <<dataVars, queue, alertsUp, restoreVars, backupCounts>>

MigrationFails ==
  /\ mem' = "migration_error" /\ SetMeta("migration_error")
  /\ Goes("idle")
  /\ UNCHANGED <<disk, vault, removed, queue, alertsUp, job, restoreVars>>

MigrationFault == step \in MigrationSteps /\ Fault /\ MigrationFails

\* The sources are read, and read again before they are used.
DiscoverLegacy ==
  /\ step = "discover"
  /\ \/ /\ disk["config"] = 0 \/ disk["mail"] = 0
        /\ MigrationFails
     \/ /\ disk["config"] # 0 /\ disk["mail"] # 0
        /\ job' = [job EXCEPT !.seen = disk]
        /\ Goes("validate")
        /\ UNCHANGED <<dataVars, processVars, restoreVars>>
  /\ UNCHANGED backupCounts

ReadSources ==
  LET unchanged == \A s \in Sources : job.seen[s] # 0 => disk[s] = job.seen[s] IN
  /\ step = "validate"
  /\ \/ ~unchanged /\ MigrationFails
     \/ /\ unchanged /\ Goes("import")
        /\ UNCHANGED <<dataVars, processVars, job, restoreVars>>
  /\ UNCHANGED backupCounts

SameImport == db.mid = job.seen

\* The import inserts its status as a new row: after an earlier failure there
\* is one, and the insertion fails.
NotFresh == db.mid # NoSources \/ db.rows # {}
StatusIsTaken == db.status # "none"

ApplyLegacyImport ==
  /\ step = "import"
  /\ \/ /\ SameImport
        /\ Goes("backup") /\ UNCHANGED <<dataVars, processVars, job, restoreVars>>
     \/ /\ ~SameImport
        /\ NotFresh \/ StatusIsTaken
        /\ MigrationFails
     \/ /\ ~NotFresh /\ ~StatusIsTaken
        /\ db' = [db EXCEPT !.mid = job.seen, !.status = "imported", !.rows = {"accounts"}]
        /\ Goes("backup")
        /\ UNCHANGED <<disk, vault, removed, processVars, job, restoreVars>>
  /\ UNCHANGED backupCounts

Backup(kind, mid, sources, snap) ==
  [kind |-> kind, mid |-> mid, sources |-> sources, snap |-> snap]
MigrationBackups(mid) == {i \in DOMAIN vault : vault[i].kind = "migration" /\ vault[i].mid = mid}

\* The backup of the import, unless an earlier attempt has written it.
WriteMigrationBackup ==
  /\ step = "backup"
  /\ \/ MigrationBackups(job.seen) # {} /\ UNCHANGED vault
     \/ /\ MigrationBackups(job.seen) = {} /\ Len(vault) < MaxBackups
        /\ vault' = Append(vault, Backup("migration", job.seen, job.seen, db))
  /\ Goes("path")
  /\ UNCHANGED <<disk, db, removed, processVars, job, restoreVars, backupCounts>>

RecordBackup ==
  /\ \/ /\ step = "path"
        /\ \E i \in MigrationBackups(job.seen) : db' = [db EXCEPT !.path = i]
        /\ Goes("verified") /\ UNCHANGED job
     \/ /\ step = "verified"
        /\ SetMeta("backup_verified")
        /\ job' = [job EXCEPT !.todo = {s \in Removable : job.seen[s] > 0}]
        /\ Goes("cleanup")
  /\ UNCHANGED <<disk, vault, removed, processVars, restoreVars, backupCounts>>

\* Mutant: the file is removed although it is no longer the one backed up.
AnyContent(s) == TRUE
StillTheSource(s) == disk[s] = job.seen[s]

\* One file of the cleanup: gone already, changed, not removable, or removed.
Remove(s) ==
  /\ step = "cleanup" /\ s \in job.todo
  /\ (s = "state") => "config" \notin job.todo
  /\ \/ /\ disk[s] = 0
        /\ job' = [job EXCEPT !.todo = @ \ {s}]
        /\ UNCHANGED <<disk, removed, backupCounts>>
     \/ /\ disk[s] # 0
        /\ \/ ~StillTheSource(s) /\ UNCHANGED backupCounts
           \/ Fault
        /\ job' = [job EXCEPT !.todo = @ \ {s}, !.blocked = TRUE]
        /\ UNCHANGED <<disk, removed>>
     \/ /\ disk[s] # 0 /\ StillTheSource(s)
        /\ disk' = [disk EXCEPT ![s] = 0]
        /\ removed' = removed \cup {<<s, disk[s]>>}
        /\ job' = [job EXCEPT !.todo = @ \ {s}]
        /\ UNCHANGED backupCounts
  /\ UNCHANGED <<db, vault, processVars, step, restoreVars>>

FinishCleanup ==
  /\ step = "cleanup" /\ job.todo = {}
  /\ \/ /\ job.blocked
        /\ mem' = "cleanup_blocked" /\ SetMeta("cleanup_blocked") /\ Goes("idle")
     \/ /\ ~job.blocked
        /\ mem' = "ready" /\ SetMeta("complete") /\ Goes("inventory")
  /\ UNCHANGED <<disk, vault, removed, queue, alertsUp, job, restoreVars, backupCounts>>

(***************************************************************************)
(* The mailbox inventory of an imported database is filled from the        *)
(* backup, once; the marker is written with the rows.                      *)
(***************************************************************************)
Marked == [db EXCEPT !.marker = TRUE]
Backfilled == [Marked EXCEPT !.rows = @ \cup {"inventory"}]
Prechange == Append(vault, Backup("console", db.mid, vault[db.path].sources, db))

Backfill ==
  \/ /\ db.marker \/ db.path = 0
     /\ db' = Marked /\ UNCHANGED <<vault, mem, backupCounts>>
  \/ /\ ~db.marker /\ db.path # 0 /\ vault[db.path].mid = db.mid
     /\ Len(vault) < MaxBackups /\ vault' = Prechange
     /\ \/ db' = Backfilled /\ UNCHANGED <<mem, backupCounts>>
        \/ Fault /\ mem' = "inventory_migration_error" /\ UNCHANGED db
  \/ /\ ~db.marker /\ db.path # 0
     /\ \/ Fault
        \/ vault[db.path].mid # db.mid /\ UNCHANGED backupCounts
     /\ mem' = "inventory_migration_error" /\ UNCHANGED <<db, vault>>

PrepareInventory ==
  /\ step = "inventory" /\ Backfill
  /\ Goes(IF mem' = "ready" THEN "open" ELSE "idle")
  /\ UNCHANGED <<disk, removed, queue, alertsUp, job, restoreVars>>

\* A queue that starts puts the run of a dead worker back; while its thread
\* lives, also a thread about to leave, start() does nothing.
StartQueue ==
  \/ queue = "down" /\ queue' = "up" /\ db' = [db EXCEPT !.running = FALSE]
  \/ queue # "down" /\ UNCHANGED <<queue, db>>

\* Only startup opens the alerts; the retry opens the queue alone.
OpenConsole ==
  /\ step = "open"
  /\ StartQueue
  /\ alertsUp' = (alertsUp \/ job.by = "startup")
  /\ Goes("idle") /\ job' = NoJob
  /\ UNCHANGED <<disk, vault, removed, mem, restoreVars, backupCounts>>

(***************************************************************************)
(* Requests and the worker.  None of them reaches the database while a     *)
(* restore holds the maintenance lock.                                     *)
(***************************************************************************)
Unlocked == rs # "initialize"
Served   == mem = "ready" /\ Unlocked
OnlyDb   == UNCHANGED <<disk, vault, removed, processVars, jobVars, restoreVars, backupCounts>>

TogglePause == Served /\ db' = [db EXCEPT !.paused = ~@] /\ OnlyDb
AddWork     == Served /\ db' = [db EXCEPT !.rows = @ \cup {"work"}] /\ OnlyDb
ClaimWork   == /\ queue = "up" /\ Unlocked /\ ~db.paused /\ ~db.running /\ "work" \in db.rows
               /\ db' = [db EXCEPT !.running = TRUE] /\ OnlyDb
FinishWork  == /\ queue # "down" /\ db.running /\ Unlocked
               /\ db' = [db EXCEPT !.running = FALSE, !.rows = @ \ {"work"}]
               /\ queue' = (IF queue = "closing" THEN "down" ELSE queue)
               /\ UNCHANGED <<disk, vault, removed, mem, alertsUp, jobVars,
                              restoreVars, backupCounts>>

\* The sources a console backup names: those of the import, or the console.
BackedUpSources == IF db.path = 0 THEN OfConsole ELSE vault[db.path].sources

CreateEncryptedBackup ==
  LET mid == IF db.path = 0 THEN OfConsole ELSE vault[db.path].mid IN
  /\ Served /\ Len(vault) < MaxBackups
  /\ db.mid \in {NoSources, mid}
  /\ db' = [db EXCEPT !.mid = mid]
  /\ vault' = Append(vault, Backup("console", mid, BackedUpSources, db'))
  /\ UNCHANGED <<disk, removed, processVars, jobVars, restoreVars, backupCounts>>

(***************************************************************************)
(* A restore.  It also reaches a console whose migration is blocked.       *)
(***************************************************************************)
RestoreGoes(s) == rs' = s

RestoreRequest(i) ==
  /\ rs = "idle" /\ step = "idle" /\ mem \notin {"down", "starting"}
  /\ db.paused /\ ~db.running
  /\ restore' = [NoRestore EXCEPT !.file = i]
  /\ RestoreGoes("close")
  /\ UNCHANGED <<dataVars, processVars, jobVars, backupCounts>>

\* The alerts and the queue are stopped; a run claimed since is cancelled,
\* or goes on when the join gives up.
RestoreCloses ==
  /\ rs = "close"
  /\ alertsUp' = FALSE
  /\ \/ queue' = "down" /\ db' = [db EXCEPT !.running = FALSE] /\ UNCHANGED backupCounts
     \/ /\ db.running /\ queue' = "closing" /\ UNCHANGED db
        /\ backupCounts.faults < MaxBackupFaults
        /\ backupCounts' = [backupCounts EXCEPT !.faults = @ + 1, !.gaveUp = TRUE]
  /\ RestoreGoes("replace")
  /\ UNCHANGED <<disk, vault, removed, mem, jobVars, restore>>

QuietDatabase == db.paused /\ ~db.running

\* Mutant: the replaced database is not kept.
NothingKept == <<>>
Previous == db

\* Under the maintenance lock, until the new database is initialized.
RestoreReplaces ==
  /\ rs = "replace"
  /\ \/ /\ QuietDatabase
        /\ restore' = [restore EXCEPT !.old = Previous]
        /\ db' = vault[restore.file].snap
        /\ RestoreGoes("initialize") /\ UNCHANGED backupCounts
     \/ /\ \/ Fault
           \/ ~QuietDatabase /\ UNCHANGED backupCounts
        /\ RestoreGoes("reopen") /\ UNCHANGED <<db, restore>>
  /\ UNCHANGED <<disk, vault, removed, processVars, jobVars>>

RestoreInitializes ==
  /\ rs = "initialize"
  /\ \/ /\ db' = [db EXCEPT !.paused = TRUE]
        /\ RestoreGoes("settle") /\ UNCHANGED backupCounts
     \/ /\ Fault
        /\ db' = restore.old
        /\ RestoreGoes("reopen")
  /\ UNCHANGED <<disk, vault, removed, processVars, jobVars, restore>>

Settled == [db EXCEPT !.status = "complete", !.path = restore.file]

RestoreSettles ==
  LET imported == db.status \in {"imported", "backup_verified"}
      status   == IF imported THEN "complete" ELSE db.status
  IN /\ rs = "settle"
     /\ IF imported THEN db' = Settled ELSE UNCHANGED db
     /\ mem' = (IF status \in {"ready", "complete", "none"} THEN "ready" ELSE status)
     /\ RestoreGoes(IF mem' = "ready" THEN "inventory" ELSE "reopen")
     /\ restore' = [restore EXCEPT !.settled = TRUE]
     /\ UNCHANGED <<disk, vault, removed, queue, alertsUp, jobVars, backupCounts>>

RestoreBackfills ==
  /\ rs = "inventory" /\ Backfill /\ RestoreGoes("reopen")
  /\ UNCHANGED <<disk, removed, queue, alertsUp, jobVars, restore>>

Reopens == mem = "ready"

RestoreReopens ==
  /\ rs = "reopen"
  /\ \/ Reopens /\ StartQueue /\ alertsUp' = TRUE
     \/ ~Reopens /\ UNCHANGED <<db, queue, alertsUp>>
  /\ RestoreGoes("idle") /\ restore' = NoRestore
  /\ UNCHANGED <<disk, vault, removed, mem, jobVars, backupCounts>>

(***************************************************************************)
(* The surroundings.                                                       *)
(***************************************************************************)
EditSource(s) ==
  /\ disk[s] # 0 /\ backupCounts.edits < MaxSourceEdits
  /\ disk' = [disk EXCEPT ![s] = @ + 1]
  /\ backupCounts' = [backupCounts EXCEPT !.edits = @ + 1]
  /\ UNCHANGED <<db, vault, removed, processVars, jobVars, restoreVars>>

BackupCrash ==
  /\ mem # "down" /\ backupCounts.crashes < MaxBackupCrashes
  /\ backupCounts' = [backupCounts EXCEPT !.crashes = @ + 1, !.gaveUp = FALSE]
  /\ mem' = "down" /\ queue' = "down" /\ alertsUp' = FALSE
  /\ step' = "idle" /\ job' = NoJob /\ rs' = "idle" /\ restore' = NoRestore
  /\ UNCHANGED dataVars

MigrationNext ==
  \/ PrepareMigration \/ RetryMigrationCleanup \/ MigrationFault
  \/ DiscoverLegacy \/ ReadSources \/ ApplyLegacyImport
  \/ WriteMigrationBackup \/ RecordBackup
  \/ \E s \in Removable : Remove(s)
  \/ FinishCleanup \/ PrepareInventory \/ OpenConsole

RestoreNext ==
  \/ \E i \in DOMAIN vault : RestoreRequest(i)
  \/ RestoreCloses \/ RestoreReplaces \/ RestoreInitializes
  \/ RestoreSettles \/ RestoreBackfills \/ RestoreReopens

BackupsNext ==
  \/ MigrationNext \/ RestoreNext
  \/ TogglePause \/ AddWork \/ ClaimWork \/ FinishWork \/ CreateEncryptedBackup
  \/ \E s \in Sources : EditSource(s)
  \/ BackupCrash

BackupsSpec == BackupsInit /\ [][BackupsNext]_backupVars

(***************************************************************************)
(* Properties.                                                             *)
(***************************************************************************)
\* What the program deleted is in the verified backup of the very import the
\* database holds, whatever was edited, failed, crashed or was restored.
PlaintextIsBackedUp ==
  \A x \in removed : \E i \in MigrationBackups(db.mid) : vault[i].sources[x[1]] = x[2]

\* No restore replaces the database under a run: the queue may have been
\* resumed after the request looked, or the worker not have stopped in time.
NoRunIsReplaced ==
  [][rs = "replace" /\ rs' = "initialize" => ~db.running]_backupVars

\* A console at rest works its queue exactly when its migration is ready:
\* not while it is blocked, and again after a restore however that ended,
\* unless the restore gave up waiting for a run (then the queue stays closed).
QueueFollowsStatus ==
  step = "idle" /\ rs = "idle" =>
    /\ queue = "up" => mem = "ready"
    /\ mem = "ready" => queue = "up" \/ backupCounts.gaveUp

\* A database that counts the inventory as filled has it, wherever the
\* import was interrupted and whatever backup was restored since.
InventoryIsComplete ==
  db.marker /\ "accounts" \in db.rows => "inventory" \in db.rows

\* What RestoredIsReady leaves: a restore blocks the console with a migration's
\* backup alone, and as that migration was when it was written. Whatever a user
\* backed up, also between the steps of another restore, is worked with again,
\* once an inventory that could not be filled is retried.
RestoredWorks ==
  restore.settled =>
    \/ mem \in {"ready", "inventory_migration_error"}
    \/ /\ vault[restore.file].kind = "migration"
       /\ vault[restore.file].snap.status = mem

\* Whichever step fails or dies, nothing is lost by it: the plaintext removed is
\* in a backup, the queue runs exactly on a ready console, the inventory is what
\* its marker says, and a user's backup restored is one at work. It is not said
\* that a migration ends: a first import that fails is never made up for, but it
\* has not removed anything then.
RestorableState ==
  PlaintextIsBackedUp /\ QueueFollowsStatus /\ InventoryIsComplete /\ RestoredWorks

\* The console's tests: restoring the verified backup of a migration completes
\* that migration, and no restored database is in a failed one.
RestoredIsReady == restore.settled => mem # "migration_error"
===========================================================================
