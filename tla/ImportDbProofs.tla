--------------------------- MODULE ImportDbProofs ---------------------------
(***************************************************************************)
(* Proofs about ImportDb, for any number of imports, commits and kills.    *)
(***************************************************************************)
EXTENDS ImportDb, TLAPS

Kinds == {"none", "fresh", "upload", "migrated", "old"}
Pcs == {"idle", "fallback", "checkpoint", "close", "sidecars", "rename_old",
        "rename_new", "migrate", "open", "drop", "restore", "reopen"}

\* The parts of the state the arguments below use have their types.
Types ==
    /\ file \in [Paths -> [kind : Kinds, n : Nat]]
    /\ wal \in Nat /\ acked \in Nat
    /\ imports \in Nat /\ kills \in Nat /\ faults \in Nat
    /\ pool \in {"open", "closed"} /\ tx \in {"none", "open", "cut"}
    /\ pc \in Pcs /\ before \in Kinds /\ result \in {"none", "ok", "error", "unsent"}

Kind(p) == file[p].kind

\* Where the database in use before is, at each control point of a first
\* import; after a kill the import is over.
Kept ==
    /\ imports = 0 => pc = "idle" /\ Kind("db") = "old"
    /\ pc \in {"fallback", "checkpoint", "close", "sidecars", "rename_old", "reopen"}
          => Kind("db") = "old"
    /\ pc \in {"rename_new", "migrate", "open", "restore"} => Kind("backup") = "old"
    /\ pc \in {"open", "drop"} => Kind("db") = "migrated"
    /\ pc = "idle" => \E p \in {"db", "backup"} : Kind(p) \in {"old", "migrated"}

\* The same for any import, while no process is killed: where the database in
\* use before is, and that no step has failed before the restore.
Placed ==
    /\ before # "none"
    /\ pc \notin {"idle", "drop", "restore", "reopen"} => faults = 0
    /\ pc \in {"restore", "reopen"} => faults >= 1
    /\ pc \in {"fallback", "checkpoint", "close", "sidecars", "rename_old", "reopen"}
          => Kind("db") = before
    /\ pc \in {"fallback", "checkpoint", "close"} => pool = "open"
    /\ pc \in {"rename_new", "migrate", "open", "restore"} => Kind("backup") = before
    /\ pc \in {"open", "drop"} => Kind("db") = "migrated"
    /\ pc = "drop" => pool = "open"
    /\ pc = "idle" => /\ pool = "open"
                      /\ Kind("db") # "none"
                      /\ result \in {"ok", "unsent"} => Kind("db") = "migrated"
                      /\ result = "error" => Kind("db") = before

\* Every step keeps the types.
LEMMA TypeStep == ASSUME Types, Next PROVE Types'
<1> USE DEF Types, Paths, Kinds, Pcs, None, Fresh, Upload, Migrated, Old,
            Fault, NoFault, Return, InitDB, Flushed, hist
<1>1. CASE Receive BY <1>1 DEF Receive
<1>2. CASE RemoveFallback BY <1>2 DEF RemoveFallback
<1>3. CASE Checkpoint BY <1>3 DEF Checkpoint
<1>4. CASE CloseDb BY <1>4 DEF CloseDb
<1>5. CASE RemoveSidecars BY <1>5 DEF RemoveSidecars, RemoveWal
<1>6. CASE RenameOld BY <1>6 DEF RenameOld
<1>7. CASE RenameNew BY <1>7 DEF RenameNew
<1>8. CASE MigrateDb BY <1>8 DEF MigrateDb
<1>9. CASE OpenDb BY <1>9 DEF OpenDb
<1>10. CASE DropFallback BY <1>10 DEF DropFallback
<1>11. CASE RestoreBackup BY <1>11 DEF RestoreBackup
<1>12. CASE Reopen BY <1>12 DEF Reopen
<1>13. CASE Begin BY <1>13 DEF Begin
<1>14. CASE Commit BY <1>14 DEF Commit
<1>15. CASE Kill BY <1>15 DEF Kill
<1> QED BY <1>1, <1>2, <1>3, <1>4, <1>5, <1>6, <1>7, <1>8, <1>9, <1>10,
           <1>11, <1>12, <1>13, <1>14, <1>15 DEF Next, Import

\* No step of a first import, no kill and no other request loses the database
\* that was in use.
LEMMA KeptStep ==
    ASSUME Types, Next, imports' <= 1, imports <= 1 => Kept PROVE Kept'
<1> USE DEF Types, Paths, Kinds, Pcs, None, Fresh, Upload, Migrated, Old,
            Fault, NoFault, Return, InitDB, Flushed, hist, Kept, Kind
<1>1. CASE Receive BY <1>1 DEF Receive
<1>2. CASE RemoveFallback BY <1>2 DEF RemoveFallback
<1>3. CASE Checkpoint BY <1>3 DEF Checkpoint
<1>4. CASE CloseDb BY <1>4 DEF CloseDb
<1>5. CASE RemoveSidecars BY <1>5 DEF RemoveSidecars, RemoveWal
<1>6. CASE RenameOld BY <1>6 DEF RenameOld
<1>7. CASE RenameNew BY <1>7 DEF RenameNew
<1>8. CASE MigrateDb BY <1>8 DEF MigrateDb
<1>9. CASE OpenDb BY <1>9 DEF OpenDb
<1>10. CASE DropFallback BY <1>10 DEF DropFallback
<1>11. CASE RestoreBackup BY <1>11 DEF RestoreBackup
<1>12. CASE Reopen BY <1>12 DEF Reopen
<1>13. CASE Begin BY <1>13 DEF Begin
<1>14. CASE Commit BY <1>14 DEF Commit
<1>15. CASE Kill BY <1>15 DEF Kill
<1> QED BY <1>1, <1>2, <1>3, <1>4, <1>5, <1>6, <1>7, <1>8, <1>9, <1>10,
           <1>11, <1>12, <1>13, <1>14, <1>15 DEF Next, Import

\* Every step of an import without kills, one step of which fails at most,
\* leaves the database in use before where the next step looks for it.
LEMMA PlacedStep ==
    ASSUME Types, Next, MaxFaults <= 1, kills' = 0, kills = 0 => Placed PROVE Placed'
<1> USE ImportAssumption DEF Types, Paths, Kinds, Pcs, None, Fresh, Upload, Migrated, Old,
            Fault, NoFault, Return, InitDB, Flushed, hist, Placed, Kind
<1>1. CASE Receive BY <1>1 DEF Receive
<1>2. CASE RemoveFallback BY <1>2 DEF RemoveFallback
<1>3. CASE Checkpoint BY <1>3 DEF Checkpoint
<1>4. CASE CloseDb BY <1>4 DEF CloseDb
<1>5. CASE RemoveSidecars BY <1>5 DEF RemoveSidecars, RemoveWal
<1>6. CASE RenameOld BY <1>6 DEF RenameOld
<1>7. CASE RenameNew BY <1>7 DEF RenameNew
<1>8. CASE MigrateDb BY <1>8 DEF MigrateDb
<1>9. CASE OpenDb BY <1>9 DEF OpenDb
<1>10. CASE DropFallback BY <1>10 DEF DropFallback
<1>11. CASE RestoreBackup BY <1>11 DEF RestoreBackup
<1>12. CASE Reopen BY <1>12 DEF Reopen
<1>13. CASE Begin BY <1>13 DEF Begin
<1>14. CASE Commit BY <1>14 DEF Commit
<1>15. CASE Kill BY <1>15 DEF Kill
<1> QED BY <1>1, <1>2, <1>3, <1>4, <1>5, <1>6, <1>7, <1>8, <1>9, <1>10,
           <1>11, <1>12, <1>13, <1>14, <1>15 DEF Next, Import

\* The invariants of both arguments hold initially.
LEMMA InitPlaces == Init => Types /\ Kept /\ Placed
  BY DEF Init, Types, Paths, Kinds, Pcs, None, Old, Kept, Placed, Kind

\* No variable of the invariants changes when the system stutters.
LEMMA Stutter ==
    ASSUME UNCHANGED vars
    PROVE  /\ Types => Types'
           /\ (imports <= 1 => Kept) => (imports <= 1 => Kept)'
           /\ (kills = 0 => Placed) => (kills = 0 => Placed)'
  BY DEF vars, hist, Types, Kept, Placed, Kind

\* A first import never destroys the database it finds (ImportDB): wherever it
\* is killed and whatever fails, that database is at dbPath or beside it until
\* the migrated upload has taken its place.
THEOREM FirstImportKeeps == Spec => []OneImportKeepsData
<1>1. Init => Types /\ (imports <= 1 => Kept)
  BY InitPlaces
<1>2. Types /\ (imports <= 1 => Kept) /\ [Next]_vars => (Types /\ (imports <= 1 => Kept))'
  BY TypeStep, KeptStep, Stutter
<1>3. Types /\ (imports <= 1 => Kept) => OneImportKeepsData
  BY DEF Types, Pcs, Kept, Kind, OneImportKeepsData
<1> QED BY <1>1, <1>2, <1>3, PTL DEF Spec

\* An import that is not killed and one step of which fails at most ends on
\* the upload if it reports success, or that only the signal was not sent, and
\* on the database in use before if it reports any other error (ImportDB,
\* restoreDatabaseBackup).
THEOREM ImportOkOrRestored == ASSUME MaxFaults <= 1 PROVE Spec => []OkOrRestored
<1>1. Init => Types /\ (kills = 0 => Placed)
  BY InitPlaces
<1>2. Types /\ (kills = 0 => Placed) /\ [Next]_vars => (Types /\ (kills = 0 => Placed))'
  BY TypeStep, PlacedStep, Stutter
<1>3. Types /\ (kills = 0 => Placed) => OkOrRestored
  BY DEF Types, Placed, Kind, OkOrRestored
<1> QED BY <1>1, <1>2, <1>3, PTL DEF Spec

=============================================================================
