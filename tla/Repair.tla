------------------------------- MODULE Repair -------------------------------
(***************************************************************************)
(* RepairDB (db/repair.cc) on the files of module Recovery: every log      *)
(* becomes a table and goes to lost/, every table is scanned, one with     *)
(* damage is copied as far as it can be read and the copy renamed over it, *)
(* and a new MANIFEST-1 names what was found.  The repair may crash at any *)
(* step, and be run again, or the database be opened instead.              *)
(*                                                                         *)
(* lost/ keeps what can be read of a file under the file's name; of a log, *)
(* what was synced.  Levels and key ranges are left out.  A database with  *)
(* a damaged table in its version is repaired before it is opened: module  *)
(* Recovery has no unreadable blocks.                                      *)
(***************************************************************************)
EXTENDS Recovery

VARIABLES
  rep,         \* the Repairer: where it is and its fields, see Repairer
  lost,        \* <<kind, number>> -> ids in the file of that name in lost/
  damaged,     \* table number -> its entries that cannot be read
  unsynced,    \* tables that were written and closed without Sync
  (* History. *)
  runs, faults,   \* repairs begun; their file operations that failed
  saved,       \* ids of synced writes that could be read when a repair began
  unkept,      \* ids in tables that repairs failed to archive, and in files
               \* of lost/ over which others of that name were archived
  settled      \* no repair was cut short or failed since the last good one

repairVars == <<rep, lost, damaged, unsynced, runs, faults, saved, unkept,
                settled>>
allVars == <<vars, repairVars>>

inProcess == <<vs, opening, logNumber, mem, imm, hasImm, bgVars, iters>>

Repairer(at, next, logNumbers, tableNumbers, manifestNumbers) ==
  [at |-> at, next |-> next,
   logs |-> logNumbers, tables |-> tableNumbers,   \* still to do
   manifests |-> manifestNumbers,
   file |-> 0,           \* the log or table in work
   copy |-> NoTable, ents |-> {},   \* RepairTable: the new file, its entries
   found |-> <<>>,       \* tables_: number -> max_sequence
   readable |-> {},      \* history: ids this run could read at its start
   failed |-> FALSE]     \* history: a file operation failed
Idle == Repairer("idle", 1, {}, {}, {})

Readable(n) == tables[n].ents \ (IF n \in DOMAIN damaged THEN damaged[n] ELSE {})
Intact(n) == tables[n].whole /\ n \notin DOMAIN damaged
LogRecords(n) == ToSet(logs[n].recs)
OnDisk(n) == ToSet(SubSeq(logs[n].recs, 1, logs[n].synced))

RepairInit ==
  /\ Init
  /\ rep = Idle /\ lost = <<>> /\ damaged = <<>> /\ unsynced = {}
  /\ runs = 0 /\ faults = 0 /\ saved = {} /\ unkept = {} /\ settled = TRUE

-----------------------------------------------------------------------------
(* A block of a table goes bad while nobody has the database open; what    *)
(* was in it is owed by nobody any more.                                   *)
Damage(n, E) ==
  /\ pc = "closed" /\ runs < scenario.repairs /\ damaged = <<>>
  /\ tables[n].whole
  /\ damaged' = With(damaged, n, E)
  /\ saved' = saved \ IdsOf(E)
  /\ synced' = synced \ IdsOf(E)
  /\ UNCHANGED <<disk, pc, inProcess, scenario, torn, excused, ids, required,
                 crashes, rep, lost, unsynced, runs, faults, unkept, settled>>

(* A file operation of the repair fails.                                   *)
Fault ==
  /\ faults < scenario.faults
  /\ faults' = faults + 1

At(where) == pc = "repair" /\ rep.at = where

-----------------------------------------------------------------------------
(* FindFiles.  The numbers of MANIFESTs do not count.                      *)
FindFiles ==
  LET numbers == DOMAIN logs \cup DOMAIN tables
      In(T) == IdsOf(UNION {Readable(n) : n \in T}
                       \cup UNION {LogRecords(n) : n \in DOMAIN logs})
  IN /\ pc \in {"closed", "corrupt"} /\ runs < scenario.repairs
     /\ pc' = "repair"
     /\ rep' = [Repairer("log", Max({0} \cup numbers) + 1, DOMAIN logs,
                         DOMAIN tables, DOMAIN manifests)
                  EXCEPT !.readable = In(DOMAIN tables)]
     /\ runs' = runs + 1
     /\ saved' = saved \cup (synced \cap In(DOMAIN tables \ unsynced))
     /\ settled' = FALSE
     /\ required' = {}
     /\ UNCHANGED <<disk, inProcess, scenario, torn, excused, ids, synced,
                    crashes, lost, damaged, unsynced, faults, unkept>>

(* ConvertLogToTable.  Damaged records are skipped by the reader.  If the  *)
(* log cannot be opened no number is used; a table that cannot be built is *)
(* removed.  Either way the log is archived next.                          *)
ConvertLogToTable(n) ==
  LET ents == LogRecords(n)
      r == [rep EXCEPT !.at = "archive log", !.file = n]
  IN /\ At("log") /\ n \in rep.logs
     /\ \/ /\ tables' = IF ents = {} THEN tables
                        ELSE With(tables, rep.next, [ents |-> ents, whole |-> TRUE])
           /\ rep' = [r EXCEPT !.next = @ + 1,
                               !.tables = IF ents = {} THEN @
                                          ELSE @ \cup {rep.next}]
           /\ UNCHANGED faults
        \/ /\ Fault
           /\ \E used \in {0, 1} :
                rep' = [r EXCEPT !.next = @ + used, !.failed = TRUE]
           /\ UNCHANGED tables
     /\ UNCHANGED <<logs, manifests, current, pc, inProcess, history, lost,
                    damaged, unsynced, runs, saved, unkept, settled>>

(* ArchiveFile of the log; its errors are ignored.                         *)
ArchiveLog ==
  /\ At("archive log")
  /\ \/ /\ logs' = Without(logs, {rep.file})
        /\ lost' = With(lost, <<"log", rep.file>>, IdsOf(OnDisk(rep.file)))
        /\ UNCHANGED faults
     \/ Fault /\ UNCHANGED <<logs, lost>>
  /\ rep' = [rep EXCEPT !.at = "log", !.logs = @ \ {rep.file}]
  /\ UNCHANGED <<tables, manifests, current, pc, inProcess, history, damaged,
                 unsynced, runs, saved, unkept, settled>>

-----------------------------------------------------------------------------
(* ScanTable of a table that can be read to the end.                       *)
MaxSequence(E) == Max({0} \cup {r.seq : r \in E})

ScanTable(n) ==
  /\ At("log") /\ rep.logs = {} /\ n \in rep.tables /\ Intact(n)
  /\ rep' = [rep EXCEPT !.tables = @ \ {n},
                        !.found = With(@, n, MaxSequence(Readable(n)))]
  /\ UNCHANGED <<vars, lost, damaged, unsynced, runs, faults, saved, unkept,
                 settled>>

(* The file of table n moves to lost/, over what an earlier repair put     *)
(* there under this name.                                                  *)
Archived(n) == IF <<"table", n>> \in DOMAIN lost THEN lost[<<"table", n>>] ELSE {}
ArchiveTable(n) ==
  /\ tables' = Without(tables, {n})
  /\ damaged' = Without(damaged, {n})
  /\ lost' = With(lost, <<"table", n>>, IdsOf(Readable(n)))
  /\ unkept' = unkept \cup Archived(n)

(* ScanTable of a table whose size cannot be had.                          *)
Dropped_Listed(n) ==   \* mutant: ScanTable goes on after archiving
  [rep EXCEPT !.tables = @ \ {n}, !.failed = TRUE, !.found = With(@, n, 0)]

Dropped(n) == [rep EXCEPT !.tables = @ \ {n}, !.failed = TRUE]

DropTable(n) ==
  /\ At("log") /\ rep.logs = {} /\ n \in rep.tables
  /\ Fault
  /\ ArchiveTable(n)
  /\ rep' = Dropped(n)
  /\ UNCHANGED <<logs, manifests, current, pc, inProcess, history, unsynced,
                 runs, saved, settled>>

(* RepairTable: a new file, and what can be read of the table for it.  The *)
(* scan of an intact table may fail as well, and the copy then miss some   *)
(* of it.  Without the new file RepairTable returns at once, and the table *)
(* stays where it is and is not listed.                                    *)
Copied(n, E) ==
  [rep EXCEPT !.at = "archive table", !.next = @ + 1, !.tables = @ \ {n},
              !.file = n, !.copy = rep.next, !.ents = E]

CopyTable(n) ==
  LET opened == With(tables, rep.next, [ents |-> {}, whole |-> FALSE])
  IN /\ At("log") /\ rep.logs = {} /\ n \in rep.tables
     /\ \/ /\ ~Intact(n)
           /\ tables' = opened
           /\ rep' = Copied(n, Readable(n))
           /\ UNCHANGED <<faults, unkept>>
        \/ /\ Intact(n) /\ Fault
           /\ tables' = opened
           /\ \E E \in SUBSET Readable(n) :
                rep' = [Copied(n, E) EXCEPT !.failed = TRUE]
           /\ UNCHANGED unkept
        \/ /\ ~Intact(n) /\ Fault
           /\ rep' = [rep EXCEPT !.next = @ + 1, !.tables = @ \ {n},
                                 !.failed = TRUE]
           /\ unkept' = unkept \cup IdsOf(Readable(n))
           /\ UNCHANGED tables
     /\ UNCHANGED <<logs, manifests, current, pc, inProcess, history, lost,
                    damaged, unsynced, runs, saved, settled>>

(* ArchiveFile of the table.  If it fails the table stays where it is, to  *)
(* be replaced by a copy that is not synced.                               *)
ArchiveSource_Skip ==   \* mutant: the copy replaces the table
  /\ At("archive table")
  /\ rep' = [rep EXCEPT !.at = "finish"]
  /\ UNCHANGED <<vars, lost, damaged, unsynced, runs, faults, saved, unkept,
                 settled>>

ArchiveSource ==
  /\ At("archive table")
  /\ rep' = [rep EXCEPT !.at = "finish"]
  /\ \/ ArchiveTable(rep.file) /\ UNCHANGED faults
     \/ /\ Fault
        /\ unkept' = unkept \cup IdsOf(Readable(rep.file))
        /\ UNCHANGED <<tables, damaged, lost>>
  /\ UNCHANGED <<logs, manifests, current, pc, inProcess, history, unsynced,
                 runs, saved, settled>>

(* Finish and Close, without Sync.  A copy with nothing in it is abandoned *)
(* and its file left; one that cannot be written is removed.               *)
FinishCopy ==
  /\ At("finish")
  /\ \/ /\ rep.ents = {}
        /\ rep' = [rep EXCEPT !.at = "log"]
        /\ UNCHANGED <<tables, unsynced, faults>>
     \/ /\ rep.ents # {}
        /\ tables' = With(tables, rep.copy, [ents |-> rep.ents, whole |-> TRUE])
        /\ unsynced' = unsynced \cup {rep.copy}
        /\ rep' = [rep EXCEPT !.at = "rename"]
        /\ UNCHANGED faults
     \/ /\ Fault
        /\ tables' = Without(tables, {rep.copy})
        /\ rep' = [rep EXCEPT !.at = "log", !.failed = TRUE]
        /\ UNCHANGED unsynced
  /\ UNCHANGED <<logs, manifests, current, pc, inProcess, history, lost,
                 damaged, runs, saved, unkept, settled>>

RenameCopy ==
  /\ At("rename")
  /\ \/ /\ tables' = With(Without(tables, {rep.copy}), rep.file,
                          tables[rep.copy])
        /\ damaged' = Without(damaged, {rep.file})
        /\ unsynced' = (unsynced \ {rep.copy}) \cup {rep.file}
        /\ rep' = [rep EXCEPT !.at = "log",
                     !.found = With(@, rep.file, MaxSequence(rep.ents))]
        /\ UNCHANGED faults
     \/ /\ Fault
        /\ tables' = Without(tables, {rep.copy})
        /\ unsynced' = unsynced \ {rep.copy}
        /\ rep' = [rep EXCEPT !.at = "log", !.failed = TRUE]
        /\ UNCHANGED damaged
  /\ UNCHANGED <<logs, manifests, current, pc, inProcess, history, lost, runs,
                 saved, unkept, settled>>

-----------------------------------------------------------------------------
(* WriteDescriptor: the new MANIFEST is written to a temporary file, not   *)
(* synced; the old ones are archived; the file is renamed; CURRENT is set. *)

Descriptor ==
  [add |-> DOMAIN rep.found, del |-> {}, hasNumbers |-> TRUE, log |-> 0,
   next |-> rep.next, seq |-> Max({0} \cup Range(rep.found))]

(* Run returns an error.                                                   *)
RunFails ==
  /\ Fault
  /\ pc' = "closed" /\ rep' = Idle

ArchiveManifests ==
  /\ At("log") /\ rep.logs = {} /\ rep.tables = {}
  /\ \/ /\ manifests' = Without(manifests, rep.manifests)
        /\ rep' = [rep EXCEPT !.at = "install"]
        /\ UNCHANGED <<pc, faults>>
     \/ /\ Fault   \* one of them cannot be moved, which is ignored
        /\ \E n \in rep.manifests : manifests' = Without(manifests, rep.manifests \ {n})
        /\ rep' = [rep EXCEPT !.at = "install"]
        /\ UNCHANGED pc
     \/ RunFails /\ UNCHANGED manifests
  /\ UNCHANGED <<logs, tables, current, inProcess, history, lost, damaged,
                 unsynced, runs, saved, unkept, settled>>

InstallDescriptor ==
  /\ At("install")
  /\ \/ /\ manifests' = With(manifests, 1, Appended(EmptyFile, Descriptor))
        /\ torn' = [torn EXCEPT !.manifests = @ \ {1}, !.behind = @ \ {1}]
        /\ rep' = [rep EXCEPT !.at = "current"]
        /\ UNCHANGED <<pc, faults>>
     \/ RunFails /\ UNCHANGED <<manifests, torn>>
  /\ UNCHANGED <<logs, tables, current, inProcess, scenario, excused, ids,
                 synced, required, crashes, lost, damaged, unsynced, runs,
                 saved, unkept, settled>>

(* Run returns OK.  If nothing failed on the way the database has all that *)
(* could be read.                                                          *)
RepairDone ==
  /\ At("current")
  /\ \/ /\ SetCurrentFile(1)
        /\ pc' = "closed" /\ rep' = Idle
        /\ required' = IF rep.failed THEN {} ELSE rep.readable
        /\ settled' = TRUE
        /\ UNCHANGED faults
     \/ RunFails /\ UNCHANGED <<current, required, settled>>
  /\ UNCHANGED <<logs, tables, manifests, inProcess, scenario, torn, excused,
                 ids, synced, crashes, lost, damaged, unsynced, runs, saved,
                 unkept>>

-----------------------------------------------------------------------------
(* The process or the machine crashes, in use or in a repair; of tables    *)
(* without Sync the machine may lose anything.  A repaired MANIFEST that   *)
(* was never synced may be gone too: then the database is not settled.     *)
CrashAnywhere(reboot) ==
  /\ Crash(reboot)
  /\ rep' = Idle
  /\ \E U \in SUBSET (IF reboot THEN unsynced \cap DOMAIN tables' ELSE {}) :
       damaged' = [n \in (DOMAIN damaged \cap DOMAIN tables') \cup U |->
                     IF n \in U THEN tables[n].ents ELSE damaged[n]]
  /\ unsynced' = IF reboot THEN {} ELSE unsynced
  /\ settled' = (/\ settled
                 /\ reboot => \/ current = 0
                              \/ /\ current \in DOMAIN manifests
                                 /\ manifests[current].synced > 0)
  /\ UNCHANGED <<lost, runs, faults, saved, unkept>>

(* A step of module Recovery.  No table that a version names is damaged; a *)
(* damaged one that a repair left unlisted is removed like any other.      *)
Listed ==
  vs.files \cup (IF current \in DOMAIN manifests
                 THEN FilesAfter(manifests[current].recs) ELSE {})

RecoveryStep ==
  /\ pc # "repair" /\ Listed \cap DOMAIN damaged = {}
  /\ Step
  /\ damaged' = [n \in DOMAIN damaged \cap DOMAIN tables' |-> damaged[n]]
  /\ UNCHANGED <<rep, lost, unsynced, runs, faults, saved, unkept, settled>>

RepairNext ==
  \/ RecoveryStep
  \/ \E reboot \in {FALSE, scenario.reboots} : CrashAnywhere(reboot)
  \/ \E n \in DOMAIN tables : \E E \in SUBSET tables[n].ents \ {{}} : Damage(n, E)
  \/ FindFiles
  \/ \E n \in rep.logs : ConvertLogToTable(n)
  \/ ArchiveLog
  \/ \E n \in rep.tables : ScanTable(n)
  \/ \E n \in rep.tables : DropTable(n)
  \/ \E n \in rep.tables : CopyTable(n)
  \/ ArchiveSource
  \/ FinishCopy
  \/ RenameCopy
  \/ ArchiveManifests
  \/ InstallDescriptor
  \/ RepairDone

RepairSpec == RepairInit /\ [][RepairNext]_allVars

-----------------------------------------------------------------------------
(* A synced write that a repair could read stays on disk, in the directory *)
(* or in lost/: a repair that is cut short, run again or given up for a    *)
(* DB::Open that removes its tables as obsolete destroys nothing, nor does *)
(* losing the copies it does not sync.  Two cases are excepted: a table    *)
(* that RepairTable could not archive or not begin to copy, which its copy *)
(* replaces or the next Open removes, and a file of lost/ over which a     *)
(* later repair archives another of the same name.                         *)
OnDiskOrLost ==
  IdsOf(UNION {Readable(n) : n \in DOMAIN tables}
          \cup UNION {LogRecords(n) : n \in DOMAIN logs})
    \cup UNION Range(lost)
NothingDestroyed == saved \ unkept \subseteq OnDiskOrLost

(* An Open never finds that CURRENT names no complete MANIFEST or that a   *)
(* table of the version is missing ("%d missing files", DBImpl::Recover),  *)
(* whatever step a crash came at: not without repairs, and not after one   *)
(* that returned OK, unless the machine crashed before the repaired        *)
(* MANIFEST was ever synced.  And it finds that MANIFEST readable, unless  *)
(* a running compaction appended to it behind a record that a failed       *)
(* append had torn (version_set.cc:869).                                   *)
OpenSucceeds == settled /\ current \notin torn.behind => pc # "corrupt"
=============================================================================
