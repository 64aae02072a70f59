------------------------------ MODULE ImportDb ------------------------------
(***************************************************************************)
(* The import of a database backup (ImportDB, restoreDatabaseBackup and    *)
(* InitDB of src/database) with the files it moves, a request whose        *)
(* transaction is open meanwhile, and kills of the process.                *)
(*                                                                         *)
(* A file holds a database: the one in use before the imports ("old", with *)
(* the number of commits in it), an uploaded one ("upload"), the same      *)
(* after its migration ("migrated"), or the one InitDB creates where there *)
(* is none ("fresh").  SQLite (WAL) keeps commits in a -wal file beside    *)
(* the database until a checkpoint; the last connection to close does one. *)
(***************************************************************************)
EXTENDS Integers

CONSTANTS MaxImports,   \* bound: imports
          MaxCommits,   \* bound: commits to the old database
          MaxFaults,    \* steps of one import that may fail
          MaxKills      \* bound: kills of the process

ASSUME ImportAssumption ==
    MaxImports \in Nat /\ MaxCommits \in Nat /\ MaxFaults \in Nat /\ MaxKills \in Nat

VARIABLES
    file,     \* what is at dbPath, at dbPath.backup, and in the temporary file
    wal,      \* commits in the -wal file of dbPath
    pool,     \* the package variable db: "open" or "closed"
    tx,       \* the open transaction: "none", "open", or "cut" off from its -wal
    pc,       \* control point of ImportDB
    result,   \* what the last import returned: "none", "ok", "error", or
              \* "unsent", the error of SendSighup
    faults,   \* failed steps of this import
    before,   \* history: the kind of database in use before this import
    acked,    \* history: commits that were acknowledged on the old database
    imports, kills

hist == <<before, acked, imports, kills>>
vars == <<file, wal, pool, tx, pc, result, faults, hist>>

Paths == {"db", "backup", "temp"}
None == [kind |-> "none", n |-> 0]
Fresh == [kind |-> "fresh", n |-> 0]
Upload == [kind |-> "upload", n |-> 0]
Migrated == [kind |-> "migrated", n |-> 0]
Old(n) == [kind |-> "old", n |-> n]

Fault == faults < MaxFaults /\ faults' = faults + 1
NoFault == UNCHANGED faults

\* The deferred removal of the temporary file, and the answer.
Return(f, r) ==
    /\ file' = [f EXCEPT !["temp"] = None]
    /\ pc' = "idle" /\ result' = r

\* InitDB creates a database where there is no file.
InitDB(f) == IF f["db"] = None THEN [f EXCEPT !["db"] = Fresh] ELSE f

\* A checkpoint moves the commits of the -wal file into the database.
Flushed(commits) ==
    [file EXCEPT !["db"] = [kind |-> @.kind, n |-> @.n + commits]]

-----------------------------------------------------------------------------
(* ImportDB, in the order of its steps. *)

\* The upload is copied to a temporary file, synced and checked.
Receive ==
    /\ pc = "idle" /\ imports < MaxImports
    /\ imports' = imports + 1
    /\ before' = file["db"].kind
    /\ faults' = 0
    /\ \/ pc' = "fallback" /\ file' = [file EXCEPT !["temp"] = Upload]
          /\ UNCHANGED result
       \/ Return(file, "error")          \* not a database, or not one of ours
    /\ UNCHANGED <<wal, pool, tx, acked, kills>>

RemoveFallback ==
    /\ pc = "fallback"
    /\ \/ /\ NoFault
          /\ file' = [file EXCEPT !["backup"] = None]
          /\ pc' = "checkpoint"
          /\ UNCHANGED result
       \/ /\ Fault                      \* the file, or a sidecar of it
          /\ \/ Return(file, "error")
             \/ Return([file EXCEPT !["backup"] = None], "error")
    /\ UNCHANGED <<wal, pool, tx, hist>>

\* The pragma returns without an error when a transaction keeps it busy.
Checkpoint ==
    /\ pc = "checkpoint"
    /\ \/ /\ NoFault
          /\ IF tx = "open" THEN UNCHANGED <<file, wal>>
             ELSE wal' = 0 /\ file' = Flushed(wal)
          /\ pc' = "close"
          /\ UNCHANGED result
       \/ Fault /\ Return(file, "error") /\ UNCHANGED wal
    /\ UNCHANGED <<pool, tx, hist>>

\* closeCurrentDatabase closes the idle connections; the one of an open
\* transaction stays until the transaction ends.  On an error InitDB puts a
\* new pool in place.
CloseDb ==
    /\ pc = "close"
    /\ \/ /\ NoFault
          /\ pool' = "closed"
          /\ IF tx = "open" THEN UNCHANGED <<file, wal>>
             ELSE wal' = 0 /\ file' = Flushed(wal)
          /\ pc' = "sidecars"
          /\ UNCHANGED result
       \/ Fault /\ pool' = "open" /\ Return(InitDB(file), "error") /\ UNCHANGED wal
    /\ UNCHANGED <<tx, hist>>

\* The -wal file goes first, then the -shm file.
RemoveWal == wal' = 0 /\ tx' = IF tx = "open" THEN "cut" ELSE tx

RemoveSidecars ==
    /\ pc = "sidecars"
    /\ \/ /\ NoFault
          /\ RemoveWal
          /\ pc' = "rename_old"
          /\ UNCHANGED <<file, pool, result>>
       \/ /\ Fault
          /\ pool' = "open"
          /\ Return(InitDB(file), "error")
          /\ RemoveWal \/ UNCHANGED <<wal, tx>>
    /\ UNCHANGED <<hist>>

RenameOld ==
    /\ pc = "rename_old"
    /\ \/ /\ NoFault
          /\ file' = [file EXCEPT !["backup"] = file["db"], !["db"] = None]
          /\ pc' = "rename_new"
          /\ UNCHANGED <<pool, result>>
       \/ Fault /\ pool' = "open" /\ Return(InitDB(file), "error")
    /\ UNCHANGED <<wal, tx, hist>>

\* Mutant: a failed rename returns without restoring the backup.
RenameNewNoRestore ==
    /\ pc = "rename_new"
    /\ \/ /\ NoFault
          /\ file' = [file EXCEPT !["db"] = file["temp"], !["temp"] = None]
          /\ pc' = "migrate"
          /\ UNCHANGED <<pool, result>>
       \/ Fault /\ pool' = "open" /\ Return(InitDB(file), "error")
    /\ UNCHANGED <<wal, tx, hist>>

RenameNew ==
    /\ pc = "rename_new"
    /\ \/ /\ NoFault
          /\ file' = [file EXCEPT !["db"] = file["temp"], !["temp"] = None]
          /\ pc' = "migrate"
       \/ Fault /\ pc' = "restore" /\ UNCHANGED file
    /\ UNCHANGED <<wal, pool, tx, result, hist>>

\* Mutant: the backup is removed before the migration.
MigrateDbEarlyDrop ==
    /\ pc = "migrate"
    /\ \/ /\ NoFault
          /\ file' = [file EXCEPT !["db"] = Migrated, !["backup"] = None]
          /\ pc' = "open"
       \/ /\ Fault
          /\ pc' = "restore"
          /\ file' = [file EXCEPT !["backup"] = None]
    /\ UNCHANGED <<wal, pool, tx, result, hist>>

\* The migration is one transaction.
MigrateDb ==
    /\ pc = "migrate"
    /\ \/ /\ NoFault
          /\ file' = [file EXCEPT !["db"] = Migrated]
          /\ pc' = "open"
       \/ Fault /\ pc' = "restore" /\ UNCHANGED file
    /\ UNCHANGED <<wal, pool, tx, result, hist>>

OpenDb ==
    /\ pc = "open"
    /\ \/ NoFault /\ pool' = "open" /\ pc' = "drop"
       \/ Fault /\ pool' \in {"open", "closed"} /\ pc' = "restore"
    /\ UNCHANGED <<file, wal, tx, result, hist>>

\* An error of the removal is only logged; the SIGHUP sent three seconds later
\* restarts the core on the same file.  The process is not found to send it to
\* (which os.FindProcess reports on Windows only): the caller is told of an
\* error, and the upload is in place.
DropFallback ==
    /\ pc = "drop"
    /\ \/ NoFault /\ Return([file EXCEPT !["backup"] = None], "ok")
       \/ Fault /\ Return(file, "ok")
       \/ Fault /\ Return([file EXCEPT !["backup"] = None], "unsent")
    /\ UNCHANGED <<wal, pool, tx, hist>>

\* restoreDatabaseBackup up to its rename.
RestoreBackup ==
    /\ pc = "restore"
    /\ \/ /\ NoFault
          /\ file' = [file EXCEPT !["db"] = file["backup"], !["backup"] = None]
          /\ pc' = "reopen"
          /\ UNCHANGED result
       \/ Fault /\ Return([file EXCEPT !["db"] = None], "error")
    /\ pool' = "closed"
    /\ wal' = 0
    /\ UNCHANGED <<tx, hist>>

Reopen ==
    /\ pc = "reopen"
    /\ \/ NoFault /\ pool' = "open"
       \/ Fault /\ UNCHANGED pool
    /\ Return(InitDB(file), "error")
    /\ UNCHANGED <<wal, tx, hist>>

-----------------------------------------------------------------------------
(* A request of another goroutine on the old database. *)

InUseIsOld == file["db"].kind = "old"

Begin ==
    /\ pool = "open" /\ tx = "none" /\ InUseIsOld /\ acked < MaxCommits
    /\ tx' = "open"
    /\ UNCHANGED <<file, wal, pool, pc, result, faults, hist>>

\* The commit of a transaction whose -wal file was removed is acknowledged
\* too; the last connection of a closed pool checkpoints as it closes.
Commit ==
    /\ tx # "none"
    /\ acked' = acked + 1
    /\ tx' = "none"
    /\ IF tx = "open"
       THEN IF pool = "closed"
            THEN wal' = 0 /\ file' = Flushed(wal + 1)
            ELSE wal' = wal + 1 /\ UNCHANGED file
       ELSE UNCHANGED <<file, wal>>
    /\ UNCHANGED <<pool, pc, result, faults, before, imports, kills>>

-----------------------------------------------------------------------------
\* The process is killed and started again: App.Init opens the database.
Kill ==
    /\ kills < MaxKills
    /\ kills' = kills + 1
    /\ file' = InitDB(file)
    /\ pool' = "open" /\ tx' = "none" /\ pc' = "idle" /\ faults' = 0
    /\ UNCHANGED <<wal, result, before, acked, imports>>

Init ==
    /\ file = [p \in Paths |-> IF p = "db" THEN Old(0) ELSE None]
    /\ wal = 0 /\ pool = "open" /\ tx = "none"
    /\ pc = "idle" /\ result = "none"
    /\ faults = 0 /\ before = "old" /\ acked = 0 /\ imports = 0 /\ kills = 0

Import ==
    \/ Receive \/ RemoveFallback \/ Checkpoint \/ CloseDb \/ RemoveSidecars
    \/ RenameOld \/ RenameNew \/ MigrateDb \/ OpenDb \/ DropFallback
    \/ RestoreBackup \/ Reopen

Next == Import \/ Begin \/ Commit \/ Kill

Spec == Init /\ [][Next]_vars

-----------------------------------------------------------------------------
(* Properties *)

\* While no process is killed and at most one step of an import fails, it ends
\* with an open pool on the migrated upload if it reports success, or that only
\* the signal to restart was not sent, and on the database in use before if it
\* reports any other error.
OkOrRestored ==
    kills = 0 /\ pc = "idle" =>
        /\ pool = "open"
        /\ result \in {"ok", "unsent"} => file["db"].kind = "migrated"
        /\ result = "error" => file["db"].kind = before

\* Wherever a first import is killed and whatever one of its steps fails, the
\* database in use before it is at dbPath or at dbPath.backup until a
\* migrated upload has taken its place.
OneImportKeepsData ==
    imports <= 1 =>
        \E p \in {"db", "backup"} : file[p].kind \in {"old", "migrated"}

\* What the README promises ("replaces it atomically"): a process that is
\* started again after a kill finds the old database or the uploaded one.
ReplacedAtomically ==
    pc = "idle" => file["db"].kind \in {"old", "upload", "migrated"}

=============================================================================
