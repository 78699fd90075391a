------------------------------ MODULE Recovery ------------------------------
(***************************************************************************)
(* What a database keeps on disk and how DB::Open finds it again: log      *)
(* files, table files, MANIFESTs and CURRENT, with a crash at any step     *)
(* (db/db_impl.cc, db/version_set.cc, db/filename.cc).                     *)
(*                                                                         *)
(* A write is one log record [seq, id]; ids are never used twice, sequence *)
(* numbers of lost writes are.  A table is the set of its records, and     *)
(* the levels are left out (module LSM).  A file's bytes are safe up to    *)
(* its last Sync; a crash of the machine may cut what follows anywhere, a  *)
(* crash of the process cuts nothing.  A reader stops silently at the cut. *)
(* An append that fails may tear the record and put the writer out of step *)
(* with the file (module LogFormat): a reader may then drop what was       *)
(* appended behind it.                                                     *)
(* Creating, renaming and removing files is taken to be durable at once.   *)
(* Write is one action: module WriteQueue has its steps.                   *)
(***************************************************************************)
EXTENDS Integers, Sequences, FiniteSets, FiniteSetsExt, SequencesExt

CONSTANTS
  BufferRecords,   \* records that fill write_buffer_size
  Scenarios        \* the options and bounds of the behaviours, see below

(* What a behaviour is about: whether options.reuse_logs and               *)
(* options.paranoid_checks are set; whether operations on tables,          *)
(* MANIFESTs and CURRENT may fail, and on logs; whether the machine may    *)
(* crash or the process only; and the bounds: writes, file numbers,        *)
(* crashes, iterators at a time, repairs and failing operations of repairs *)
(* (module Repair).                                                        *)
Scenario ==
  [reuseLogs : BOOLEAN, paranoid : BOOLEAN, ioErrors : BOOLEAN,
   logErrors : BOOLEAN, reboots : BOOLEAN, writes : Nat, files : Nat,
   crashes : Nat, iterators : Nat, repairs : Nat, faults : Nat]

ASSUME RecoveryAssumption ==
  BufferRecords \in Nat \ {0} /\ Scenarios \subseteq Scenario

VARIABLES
  scenario,    \* the member of Scenarios this behaviour is about
  (* On disk. *)
  logs,        \* log number -> [recs, synced]
  tables,      \* table number -> [ents, whole]; whole: finished and synced
  manifests,   \* MANIFEST number -> [recs, synced]
  current,     \* the MANIFEST that CURRENT names; 0: there is no CURRENT
  (* In the process. *)
  pc,          \* where DB::Open is; "open": the database is in use
  vs,          \* VersionSet: files of current(), log_number_,
               \* next_file_number_, manifest_file_number_, last_sequence_,
               \* and whether there is a descriptor_log_
  opening,     \* DB::Open: logs still to read, tables to add, save_manifest,
               \* max_sequence, hasMem
  logNumber,   \* logfile_number_
  mem, imm, hasImm,
  pending,     \* pending_outputs_
  flush,       \* the table CompactMemTable is building, or NoTable
  compaction,  \* a running compaction: inputs, outputs finished, the output
               \* being written and the records left; or NoCompaction
  saving,      \* the edit in LogAndApply and for whom, or NotSaving
  garbage,     \* files_to_delete of RemoveObsoleteFiles, being removed
  bgError,     \* !bg_error_.ok()
  iters,       \* the versions that iterators hold
  (* What failed appends did to files, and history. *)
  torn,        \* logs and manifests with a torn record; behind: MANIFESTs
               \* with records behind it that will not be found
  excused,     \* ids that the code may lose: acknowledged behind a torn
               \* record, or in a log that could not be closed or read
  ids,         \* writes made so far
  synced,      \* ids of writes that returned with sync set
  required,    \* ids of writes that must be found again
  crashes

disk == <<logs, tables, manifests, current>>
bgVars == <<pending, flush, compaction, saving, garbage, bgError>>
history == <<scenario, torn, excused, ids, synced, required, crashes>>
vars == <<disk, pc, vs, opening, logNumber, mem, imm, hasImm, bgVars, iters,
          history>>

-----------------------------------------------------------------------------
NoTable == 0
NoCompaction == [inputs |-> {}, outs |-> {}, out |-> NoTable, left |-> {}]
NotSaving == [who |-> "nobody"]
NoGarbage == [tables |-> {}, logs |-> {}, manifests |-> {}]
NotOpening == [todo |-> {}, add |-> {}, save |-> FALSE, maxSeq |-> 0,
               hasMem |-> FALSE]
NoVersions == [files |-> {}, log |-> 0, next |-> 2, manifest |-> 0,
               seq |-> 0, desc |-> FALSE]

Outputs(c) == c.outs \cup {c.out}

With(f, n, v) == [x \in DOMAIN f \cup {n} |-> IF x = n THEN v ELSE f[x]]
Without(f, S) == [x \in DOMAIN f \ S |-> f[x]]

EmptyFile == [recs |-> <<>>, synced |-> 0]
Appended(f, r) == [f EXCEPT !.recs = Append(@, r)]
Synced(f) == [f EXCEPT !.synced = Len(f.recs)]

(* A VersionEdit as LogAndApply completes it; the snapshot of a new        *)
(* MANIFEST has no numbers.                                                *)
Edit(add, del, log) ==
  [add |-> add, del |-> del, hasNumbers |-> TRUE, log |-> log,
   next |-> vs.next, seq |-> vs.seq]
SnapshotEdit ==
  [add |-> vs.files, del |-> {}, hasNumbers |-> FALSE, log |-> 0, next |-> 0,
   seq |-> 0]

(* VersionSet::Builder over the edits of a MANIFEST: what an edit adds is  *)
(* in the version unless a later one deletes it.  And the edits that have  *)
(* the numbers, the last of which counts.                                  *)
FilesAfter(recs) ==
  UNION {recs[i].add \ UNION {recs[j].del : j \in i + 1 .. Len(recs)} :
           i \in DOMAIN recs}
Numbers(recs) == {i \in DOMAIN recs : recs[i].hasNumbers}

Init ==
  /\ scenario \in Scenarios
  /\ logs = <<>> /\ tables = <<>> /\ manifests = <<>> /\ current = 0
  /\ pc = "closed"
  /\ vs = NoVersions /\ opening = NotOpening /\ logNumber = 0
  /\ mem = {} /\ imm = {} /\ hasImm = FALSE
  /\ pending = {} /\ flush = NoTable /\ compaction = NoCompaction
  /\ saving = NotSaving /\ garbage = NoGarbage /\ bgError = FALSE
  /\ iters = {}
  /\ torn = [logs |-> {}, manifests |-> {}, behind |-> {}] /\ excused = {}
  /\ ids = 0 /\ synced = {} /\ required = {} /\ crashes = 0

-----------------------------------------------------------------------------
(* RemoveObsoleteFiles: what is not live is collected under the mutex and  *)
(* removed afterwards without it.                                          *)

AddLiveFiles(v) == v.files \cup UNION iters

Obsolete_KeepLogs(v, p) ==   \* mutant: no log is ever removed
  [tables    |-> DOMAIN tables \ (AddLiveFiles(v) \cup p),
   logs      |-> {},
   manifests |-> {n \in DOMAIN manifests : n < v.manifest}]

Obsolete(v, p) ==
  [tables    |-> DOMAIN tables \ (AddLiveFiles(v) \cup p),
   logs      |-> {n \in DOMAIN logs : n < v.log},
   manifests |-> {n \in DOMAIN manifests : n < v.manifest}]

RemoveObsoleteFiles_NoPending(v, p, error) ==   \* mutant: outputs not live
  garbage' = IF error THEN NoGarbage ELSE Obsolete(v, {})

RemoveObsoleteFiles(v, p, error) ==
  garbage' = IF error THEN NoGarbage ELSE Obsolete(v, p)

(* The loop over files_to_delete.                                          *)
RemoveFiles(g) ==
  /\ tables' = Without(tables, g.tables)
  /\ logs' = Without(logs, g.logs)
  /\ manifests' = Without(manifests, g.manifests)

-----------------------------------------------------------------------------
(* LogAndApply, in two steps: the edit is fixed under the mutex and its    *)
(* record appended without it; then the file is synced, CURRENT renamed    *)
(* and the version installed.                                              *)

LogAndApply(who, edit) == saving' = [who |-> who, edit |-> edit, logged |-> FALSE]

(* The first record of this process opens a new MANIFEST.                  *)
Logged(edit) ==
  IF vs.desc THEN Appended(manifests[vs.manifest], edit)
  ELSE Appended(Appended(EmptyFile, SnapshotEdit), edit)

(* The MANIFEST in use has a torn record.  Appending goes on behind it all *)
(* the same: CompactMemTable in a running compaction does not look at      *)
(* bg_error_, nor does the compaction's own edit.  The record is found as  *)
(* long as those before it are.                                            *)
Torn == vs.desc /\ vs.manifest \in torn.manifests

LogEdit ==
  /\ saving # NotSaving /\ ~saving.logged
  /\ \/ /\ vs.manifest \notin torn.behind
        /\ manifests' = With(manifests, vs.manifest, Logged(saving.edit))
        /\ UNCHANGED torn
     \/ /\ Torn
        /\ torn' = [torn EXCEPT !.behind = @ \cup {vs.manifest}]
        /\ UNCHANGED manifests
  /\ saving' = [saving EXCEPT !.logged = TRUE]
  /\ UNCHANGED <<logs, tables, current, pc, vs, opening, logNumber, mem, imm,
                 hasImm, pending, flush, compaction, garbage, bgError, iters,
                 scenario, excused, ids, synced, required, crashes>>

Installed(edit) ==
  [vs EXCEPT !.files = (@ \ edit.del) \cup edit.add, !.log = edit.log,
             !.desc = TRUE]

InTables(F) == UNION {tables[n].ents : n \in F \cap DOMAIN tables}
IdsOf(E) == {r.id : r \in E}

(* SetCurrentFile writes and syncs a temporary file and renames it.        *)
SetCurrentFile(n) == current' = n

(* The second half went well.  The caller goes on: Open and the flush and  *)
(* the compaction all collect garbage, with what each of them gives up.    *)
InstallEdit ==
  LET v == Installed(saving.edit)
      p == IF saving.who = "compact" THEN pending \ Outputs(compaction)
           ELSE pending
  IN /\ saving # NotSaving /\ saving.logged
     /\ manifests' = With(manifests, vs.manifest, Synced(manifests[vs.manifest]))
     /\ IF vs.desc THEN UNCHANGED current ELSE SetCurrentFile(vs.manifest)
     /\ vs' = v
     /\ saving' = NotSaving
     /\ pending' = p
     /\ RemoveObsoleteFiles(v, p, bgError)
     /\ \/ /\ saving.who = "open"
           /\ pc' = "clean"
           /\ UNCHANGED <<imm, hasImm, flush, compaction>>
        \/ /\ saving.who = "flush"
           /\ imm' = {} /\ hasImm' = FALSE /\ flush' = NoTable
           /\ UNCHANGED <<pc, compaction>>
        \/ /\ saving.who = "compact"
           /\ compaction' = NoCompaction
           /\ UNCHANGED <<pc, imm, hasImm, flush>>
     /\ excused' = IF Torn THEN excused ELSE excused \ IdsOf(InTables(v.files))
     /\ UNCHANGED <<logs, tables, opening, logNumber, mem, bgError, iters,
                    scenario, torn, ids, synced, required, crashes>>

(* The append, the sync or the rename failed.  The record may be in the    *)
(* file, or torn, or not there.  A new MANIFEST is removed; otherwise the  *)
(* process goes on with bg_error_ set and the record may come up again     *)
(* after a crash.                                                          *)
EditFails ==
  /\ scenario.ioErrors /\ saving # NotSaving
  /\ saving' = NotSaving
  /\ \/ UNCHANGED torn
     \/ /\ ~saving.logged /\ vs.desc
        /\ torn' = [torn EXCEPT !.manifests = @ \cup {vs.manifest}]
  /\ \/ /\ saving.who = "open"
        /\ manifests' = IF vs.desc THEN manifests
                        ELSE Without(manifests, {vs.manifest})
        /\ pc' = "failed"
        /\ UNCHANGED <<flush, compaction, pending, garbage, bgError>>
     \/ /\ saving.who = "flush"
        /\ flush' = NoTable /\ bgError' = TRUE
        /\ UNCHANGED <<pc, manifests, compaction, pending, garbage>>
     \/ /\ saving.who = "compact"
        /\ pending' = pending \ Outputs(compaction)
        /\ compaction' = NoCompaction /\ bgError' = TRUE
        /\ RemoveObsoleteFiles(vs, pending', TRUE)
        /\ UNCHANGED <<pc, manifests, flush>>
  /\ UNCHANGED <<logs, tables, current, vs, opening, logNumber, mem, imm,
                 hasImm, iters, scenario, excused, ids, synced, required,
                 crashes>>

-----------------------------------------------------------------------------
(* DB::Open.                                                               *)

(* NewDB, when there is no CURRENT: MANIFEST-1 with one record; then its   *)
(* Sync and CURRENT.                                                       *)
NewDB ==
  /\ pc = "closed" /\ current = 0
  /\ pc' = "newdb"
  /\ manifests' =
       With(manifests, 1,
            Appended(EmptyFile,
                     [add |-> {}, del |-> {}, hasNumbers |-> TRUE, log |-> 0,
                      next |-> 2, seq |-> 0]))
  /\ UNCHANGED <<logs, tables, current, vs, opening, logNumber, mem, imm,
                 hasImm, bgVars, iters, history>>

NewDBCurrent ==
  /\ pc = "newdb"
  /\ pc' = "closed"
  /\ manifests' = With(manifests, 1, Synced(manifests[1]))
  /\ SetCurrentFile(1)
  /\ UNCHANGED <<logs, tables, vs, opening, logNumber, mem, imm, hasImm,
                 bgVars, iters, history>>

(* Any file with the number of a live table passes for that table.         *)
Missing(files) ==
  files \ (DOMAIN logs \cup DOMAIN tables \cup DOMAIN manifests)

(* The logs that may hold what no table does.                              *)
LogsToRecover_Newer(log) == {n \in DOMAIN logs : n > log}   \* mutant

LogsToRecover(log) == {n \in DOMAIN logs : n >= log}

(* VersionSet::Recover and the look for missing files.  The manifest of    *)
(* this process gets the next number, unless the old one is used again.    *)
(* Records behind a torn one may show as a corruption.                     *)
RecoverVersions ==
  LET recs == IF current \in DOMAIN manifests
              THEN manifests[current].recs ELSE <<>>
      numbers == Numbers(recs)
      e == recs[Max(numbers)]
      files == FilesAfter(recs)
  IN /\ pc = "closed" /\ current # 0
     /\ \/ /\ numbers = {} \/ Missing(files) # {} \/ current \in torn.behind
           /\ pc' = "corrupt"
           /\ UNCHANGED <<vs, opening>>
        \/ /\ numbers # {} /\ Missing(files) = {}
           /\ \E reuse \in {FALSE, scenario.reuseLogs} :
                /\ vs' = [files |-> files, log |-> e.log, next |-> e.next + 1,
                          manifest |-> IF reuse THEN current ELSE e.next,
                          seq |-> e.seq, desc |-> reuse]
                /\ opening' = [NotOpening EXCEPT
                                 !.todo = LogsToRecover(e.log),
                                 !.save = ~reuse]
           /\ pc' = "logs"
     /\ UNCHANGED <<disk, logNumber, mem, imm, hasImm, bgVars, iters, history>>

MarkFileNumberUsed(next, n) == IF next <= n THEN n + 1 ELSE next

MayReuse(n, full) == scenario.reuseLogs /\ opening.todo = {n} /\ full = 0

(* The records that are read of a log.  Without paranoid_checks a log that *)
(* cannot be opened, or cannot be read on from some record, counts as read *)
(* (MaybeIgnoreError, and the reporter without a status).                  *)
RecordsRead(n) ==
  IF scenario.logErrors /\ ~scenario.paranoid
  THEN {SubSeq(logs[n].recs, 1, k) : k \in 0 .. Len(logs[n].recs)}
  ELSE {logs[n].recs}

(* The records become a table for every BufferRecords of them and one for  *)
(* the rest, unless this is the last log, fills no table and is used again *)
(* with the rest as memtable.                                              *)
RecoverRecords(n, recs) ==
  LET full == Len(recs) \div BufferRecords
      Chunk(i) == {recs[j] : j \in {k \in DOMAIN recs :
                                      (k - 1) \div BufferRecords = i}}
      maxSeq == Max({opening.maxSeq} \cup {recs[j].seq : j \in DOMAIN recs})
  IN \E reuse \in {FALSE, MayReuse(n, full)} :
       LET count == IF reuse \/ Chunk(full) = {} THEN full ELSE full + 1
           new == vs.next .. vs.next + count - 1
       IN /\ tables' = [t \in DOMAIN tables \cup new |->
                          IF t \in new
                          THEN [ents |-> Chunk(t - vs.next), whole |-> TRUE]
                          ELSE tables[t]]
          /\ vs' = [vs EXCEPT !.next = MarkFileNumberUsed(@ + count, n)]
          /\ opening' = [todo   |-> opening.todo \ {n},
                         add    |-> opening.add \cup new,
                         save   |-> opening.save \/ count > 0,
                         maxSeq |-> maxSeq, hasMem |-> reuse]
          /\ logNumber' = IF reuse THEN n ELSE logNumber
          /\ mem' = IF reuse THEN Chunk(0) ELSE mem

(* RecoverLogFile of the oldest log left.                                  *)
RecoverLogFile ==
  LET n == Min(opening.todo)
  IN /\ pc = "logs" /\ opening.todo # {}
     /\ \E recs \in RecordsRead(n) :
          /\ RecoverRecords(n, recs)
          /\ excused' = excused \cup IdsOf(ToSet(logs[n].recs) \ ToSet(recs))
     /\ UNCHANGED <<logs, manifests, current, pc, imm, hasImm, bgVars, iters,
                    scenario, torn, ids, synced, required, crashes>>

SetLastSequence_Kept(v) == v.seq   \* mutant: the logs' numbers are forgotten

SetLastSequence(v) == Max({v.seq, opening.maxSeq})

(* The rest of DB::Open: a new log if none is used again, LogAndApply if   *)
(* there is anything to save.                                              *)
OpenLog ==
  LET fresh == ~opening.hasMem
      n == IF fresh THEN vs.next ELSE logNumber
      v == [vs EXCEPT !.seq = SetLastSequence(vs),
                      !.next = IF fresh THEN @ + 1 ELSE @]
  IN /\ pc = "logs" /\ opening.todo = {}
     /\ logNumber' = n
     /\ logs' = IF fresh THEN With(logs, n, EmptyFile) ELSE logs
     /\ vs' = v
     /\ \/ /\ opening.save
           /\ pc' = "saving"
           /\ LogAndApply("open", [add |-> opening.add, del |-> {},
                                   hasNumbers |-> TRUE, log |-> n,
                                   next |-> v.next, seq |-> v.seq])
           /\ UNCHANGED garbage
        \/ /\ ~opening.save
           /\ pc' = "clean"
           /\ RemoveObsoleteFiles(vs, pending, bgError)
           /\ UNCHANGED saving
     /\ UNCHANGED <<tables, manifests, current, opening, mem, imm, hasImm,
                    pending, flush, compaction, bgError, iters, history>>

(* A file operation of Open fails and the error is not ignored: it is in   *)
(* NewDB, a table or the new log cannot be written, or paranoid_checks is  *)
(* set and a log cannot be read.  The DBImpl is deleted.                   *)
OpenFails ==
  /\ \/ scenario.ioErrors /\ pc \in {"newdb", "logs"}
     \/ scenario.logErrors /\ pc = "logs"
  /\ pc' = "failed"
  /\ manifests' \in {manifests, Without(manifests, {1} \ {current})}
  /\ UNCHANGED <<logs, tables, current, vs, opening, logNumber, mem, imm,
                 hasImm, bgVars, iters, history>>

OpenDone ==
  /\ pc = "clean"
  /\ pc' = "open"
  /\ RemoveFiles(garbage) /\ garbage' = NoGarbage
  /\ opening' = NotOpening
  /\ UNCHANGED <<current, vs, logNumber, mem, imm, hasImm, pending, flush,
                 compaction, saving, bgError, iters, history>>

-----------------------------------------------------------------------------
(* The database in use.                                                    *)

Contents == mem \cup imm \cup InTables(vs.files)

(* The log once a record was appended to it: behind a torn record a reader *)
(* may not find it.                                                        *)
Recorded(r) ==
  {Appended(logs[logNumber], r)}
    \cup (IF logNumber \in torn.logs THEN {logs[logNumber]} ELSE {})

NextRecord == [seq |-> vs.seq + 1, id |-> ids + 1]
MayWrite == pc = "open" /\ ~bgError /\ ids < scenario.writes

Write(sync) ==
  LET r == NextRecord
  IN /\ MayWrite
     /\ \E f \in Recorded(r) :
          logs' = With(logs, logNumber, IF sync THEN Synced(f) ELSE f)
     /\ mem' = mem \cup {r}
     /\ vs' = [vs EXCEPT !.seq = @ + 1]
     /\ ids' = ids + 1
     /\ required' = required \cup {r.id}
     /\ synced' = IF sync THEN synced \cup {r.id} ELSE synced
     /\ excused' = IF logNumber \in torn.logs THEN excused \cup {r.id} ELSE excused
     /\ UNCHANGED <<tables, manifests, current, pc, opening, logNumber, imm,
                    hasImm, bgVars, iters, scenario, torn, crashes>>

(* AddRecord or Sync fails, with the record whole in the log, or AddRecord *)
(* tears it.  Only a failing Sync sets bg_error_.  The sequence number is  *)
(* used up.                                                                *)
WriteFails ==
  /\ scenario.logErrors /\ MayWrite
  /\ \/ /\ \E f \in Recorded(NextRecord) : logs' = With(logs, logNumber, f)
        /\ bgError' \in BOOLEAN
        /\ UNCHANGED torn
     \/ /\ torn' = [torn EXCEPT !.logs = @ \cup {logNumber}]
        /\ UNCHANGED <<logs, bgError>>
  /\ vs' = [vs EXCEPT !.seq = @ + 1]
  /\ ids' = ids + 1
  /\ UNCHANGED <<tables, manifests, current, pc, opening, logNumber, mem, imm,
                 hasImm, pending, flush, compaction, saving, garbage, iters,
                 scenario, excused, synced, required, crashes>>

(* MakeRoomForWrite: a new log for a new memtable.  The old log is closed  *)
(* and not synced; if that fails the switch stands, and the old log may    *)
(* have lost what was not synced.                                          *)
CloseFails(f) ==
  /\ scenario.logErrors
  /\ \E k \in f.synced .. Len(f.recs) :
       /\ logs' = With(With(logs, logNumber, [f EXCEPT !.recs = SubSeq(@, 1, k)]),
                       vs.next, EmptyFile)
       /\ excused' = excused \cup IdsOf(ToSet(SubSeq(f.recs, k + 1, Len(f.recs))))
  /\ bgError' = TRUE

SwitchLog ==
  /\ pc = "open" /\ ~bgError /\ ~hasImm /\ vs.next < scenario.files
  /\ \/ /\ logs' = With(logs, vs.next, EmptyFile)
        /\ UNCHANGED <<bgError, excused>>
     \/ CloseFails(logs[logNumber])
  /\ logNumber' = vs.next
  /\ vs' = [vs EXCEPT !.next = @ + 1]
  /\ imm' = mem /\ hasImm' = TRUE /\ mem' = {}
  /\ UNCHANGED <<tables, manifests, current, pc, opening, pending, flush,
                 compaction, saving, garbage, iters, scenario, torn, ids,
                 synced, required, crashes>>

NewIterator ==
  /\ pc = "open" /\ Cardinality(iters) < scenario.iterators
  /\ iters' = iters \cup {vs.files}
  /\ UNCHANGED <<disk, pc, vs, opening, logNumber, mem, imm, hasImm, bgVars,
                 history>>

DeleteIterator ==
  /\ \E f \in iters : iters' = iters \ {f}
  /\ UNCHANGED <<disk, pc, vs, opening, logNumber, mem, imm, hasImm, bgVars,
                 history>>

-----------------------------------------------------------------------------
(* The background thread.  It flushes when it is called and in the middle  *)
(* of a compaction, there also after an error.                             *)

(* The thread is between a flush, a LogAndApply and a removal of files.    *)
Free == /\ pc = "open" /\ flush = NoTable /\ saving = NotSaving
        /\ garbage = NoGarbage
Compacting == compaction # NoCompaction

(* BackgroundCall finds work to do.  Which files need a compaction is left *)
(* to module LSM.                                                          *)
MaybeScheduleCompaction ==
  /\ Free /\ ~Compacting   \* ~background_compaction_scheduled_
  /\ ~bgError
  /\ hasImm \/ vs.files # {}

(* CompactMemTable, up to the table; then the table and the edit, which    *)
(* gives up all logs but the one in use.                                   *)
StartFlush ==
  /\ MaybeScheduleCompaction \/ (Free /\ Compacting)
  /\ hasImm /\ vs.next < scenario.files
  /\ flush' = vs.next
  /\ pending' = pending \cup {vs.next}
  /\ vs' = [vs EXCEPT !.next = @ + 1]
  /\ UNCHANGED <<disk, pc, opening, logNumber, mem, imm, hasImm, compaction,
                 saving, garbage, bgError, iters, history>>

BuildTable ==
  /\ flush # NoTable /\ saving = NotSaving
  /\ tables' = IF imm = {} THEN tables
               ELSE With(tables, flush, [ents |-> imm, whole |-> TRUE])
  /\ pending' = pending \ {flush}
  /\ LogAndApply("flush", Edit(IF imm = {} THEN {} ELSE {flush}, {}, logNumber))
  /\ UNCHANGED <<logs, manifests, current, pc, vs, opening, logNumber, mem,
                 imm, hasImm, flush, compaction, garbage, bgError, iters,
                 history>>

(* The table cannot be written; BuildTable removes it.                     *)
BuildFails ==
  /\ scenario.ioErrors /\ flush # NoTable /\ saving = NotSaving
  /\ pending' = pending \ {flush}
  /\ flush' = NoTable /\ bgError' = TRUE
  /\ UNCHANGED <<disk, pc, vs, opening, logNumber, mem, imm, hasImm,
                 compaction, saving, garbage, iters, history>>

(* A compaction opens an output, may close it after some of the records    *)
(* and open another, and at last closes all and logs its edit.             *)
Closed(n, E) == IF n \in DOMAIN tables
                THEN [tables EXCEPT ![n] = [ents |-> E, whole |-> TRUE]]
                ELSE tables   \* the file was removed while it was written
OpenOutput(c, T) ==
  /\ vs.next < scenario.files
  /\ compaction' = [c EXCEPT !.out = vs.next]
  /\ pending' = pending \cup {vs.next}
  /\ tables' = With(T, vs.next, [ents |-> {}, whole |-> FALSE])
  /\ vs' = [vs EXCEPT !.next = @ + 1]
  /\ UNCHANGED <<logs, manifests, current, pc, opening, logNumber, mem, imm,
                 hasImm, flush, saving, garbage, bgError, iters, history>>

StartCompaction(inputs) ==
  /\ MaybeScheduleCompaction /\ ~hasImm
  /\ OpenOutput([NoCompaction EXCEPT
                   !.inputs = inputs,
                   !.left = UNION {tables[i].ents : i \in inputs}], tables)

NextOutput(part) ==
  /\ Free /\ Compacting /\ part # compaction.left
  /\ OpenOutput([compaction EXCEPT !.outs = @ \cup {compaction.out},
                                   !.left = @ \ part],
                Closed(compaction.out, part))

FinishCompaction ==
  /\ Free /\ Compacting
  /\ tables' = Closed(compaction.out, compaction.left)
  /\ LogAndApply("compact", Edit(Outputs(compaction), compaction.inputs, vs.log))
  /\ UNCHANGED <<logs, manifests, current, pc, vs, opening, logNumber, mem,
                 imm, hasImm, pending, flush, compaction, garbage, bgError,
                 iters, history>>

CompactionFails ==
  /\ scenario.ioErrors /\ Free /\ Compacting
  /\ pending' = pending \ Outputs(compaction)
  /\ compaction' = NoCompaction /\ bgError' = TRUE
  /\ RemoveObsoleteFiles(vs, pending', TRUE)
  /\ UNCHANGED <<disk, pc, vs, opening, logNumber, mem, imm, hasImm, flush,
                 saving, iters, history>>

RemoveGarbage ==
  /\ pc = "open" /\ garbage # NoGarbage
  /\ RemoveFiles(garbage) /\ garbage' = NoGarbage
  /\ UNCHANGED <<current, pc, vs, opening, logNumber, mem, imm, hasImm,
                 pending, flush, compaction, saving, bgError, iters, history>>

-----------------------------------------------------------------------------
(* The process ends: it is closed, it crashes, or the machine does.        *)

(* What may be left of files after the machine crashed.                    *)
Cut(f, n) == [recs |-> SubSeq(f.recs, 1, n), synced |-> n]
CutFiles(F) ==
  LET longest == Max({0} \cup {Len(F[n].recs) : n \in DOMAIN F})
      lens == {len \in [DOMAIN F -> 0 .. longest] :
                 \A n \in DOMAIN F : len[n] \in F[n].synced .. Len(F[n].recs)}
  IN {[n \in DOMAIN F |-> Cut(F[n], len[n])] : len \in lens}

Crash(reboot) ==
  /\ pc # "closed" /\ pc # "corrupt" /\ crashes < scenario.crashes
  /\ crashes' = crashes + 1
  /\ \E t \in SUBSET garbage.tables, l \in SUBSET garbage.logs,
        m \in SUBSET garbage.manifests :
       /\ tables' = Without(tables, t)
       /\ logs' \in (IF reboot THEN CutFiles(Without(logs, l))
                     ELSE {Without(logs, l)})
       /\ manifests' \in (IF reboot THEN CutFiles(Without(manifests, m))
                          ELSE {Without(manifests, m)})
  /\ required' = IF reboot THEN required \cap synced ELSE required
  /\ pc' = "closed"
  /\ vs' = NoVersions /\ opening' = NotOpening /\ logNumber' = 0
  /\ mem' = {} /\ imm' = {} /\ hasImm' = FALSE
  /\ pending' = {} /\ flush' = NoTable /\ compaction' = NoCompaction
  /\ saving' = NotSaving /\ garbage' = NoGarbage /\ bgError' = FALSE
  /\ iters' = {}
  /\ UNCHANGED <<current, scenario, torn, excused, ids, synced>>

-----------------------------------------------------------------------------
Step ==
  \/ NewDB
  \/ NewDBCurrent
  \/ RecoverVersions
  \/ RecoverLogFile
  \/ OpenLog
  \/ OpenFails
  \/ OpenDone
  \/ LogEdit
  \/ InstallEdit
  \/ EditFails
  \/ \E sync \in BOOLEAN : Write(sync)
  \/ WriteFails
  \/ SwitchLog
  \/ NewIterator
  \/ DeleteIterator
  \/ StartFlush
  \/ BuildTable
  \/ BuildFails
  \/ \E inputs \in SUBSET vs.files \ {{}} : StartCompaction(inputs)
  \/ \E part \in SUBSET compaction.left \ {{}} : NextOutput(part)
  \/ FinishCompaction
  \/ CompactionFails
  \/ RemoveGarbage

Next ==
  \/ Step
  \/ \E reboot \in {FALSE, scenario.reboots} : Crash(reboot)

Spec == Init /\ [][Next]_vars

-----------------------------------------------------------------------------
(* Properties.                                                             *)

Record == [seq : 1 .. scenario.writes, id : 1 .. scenario.writes]
Numbered == 0 .. scenario.files + 10 * (scenario.crashes + 1)

(* Every variable has its type, and the assertions of LogAndApply hold: an *)
(* edit's log is not older than the one in force and its number is taken.  *)
TypeOK ==
  /\ \A n \in DOMAIN logs : /\ logs[n].recs \in Seq(Record)
                             /\ logs[n].synced \in 0 .. Len(logs[n].recs)
  /\ \A n \in DOMAIN tables : tables[n].ents \subseteq Record
  /\ \A n \in DOMAIN manifests :
       manifests[n].synced \in 0 .. Len(manifests[n].recs)
  /\ pc \in {"closed", "newdb", "logs", "saving", "clean", "open", "failed",
             "corrupt", "repair"}
  /\ vs.files \subseteq Numbered /\ vs.next \in Numbered
  /\ mem \subseteq Record /\ imm \subseteq Record
  /\ hasImm \in BOOLEAN /\ bgError \in BOOLEAN
  /\ pending \subseteq Numbered
  /\ saving # NotSaving => saving.edit.log \in vs.log .. vs.next - 1

(* An open database has every write that returned OK: all of them after a  *)
(* crash of the process, the synced ones after a crash of the machine; but *)
(* for those, not yet in a table, that were acknowledged behind a failed   *)
(* append to their log (db_impl.cc:1298), were in a log whose Close failed *)
(* (db_impl.cc:1470) or in one that Open could not read and let go         *)
(* (db_impl.cc:406).  Errors of tables and MANIFESTs lose nothing.         *)
NothingLost == pc = "open" => required \subseteq IdsOf(Contents) \cup excused

(* Entries of an open database are never told apart wrongly: no two writes *)
(* have one sequence number, and none is beyond LastSequence, where        *)
(* readers would not see it.                                               *)
SequencesFresh ==
  pc = "open" =>
    /\ \A r \in Contents : r.seq <= vs.seq
    /\ \A q, r \in Contents : q.seq = r.seq => q = r

(* The tables of the current version, and of every version an iterator     *)
(* holds, are on disk and finished, although obsolete files are removed    *)
(* without the mutex and a flush may do it in the middle of a compaction.  *)
FilesHeld ==
  pc = "open" => \A n \in vs.files \cup UNION iters :
                    n \in DOMAIN tables /\ tables[n].whole

(* What crashes left behind does not pile up: when Open returns, the only  *)
(* tables are those of the version, and all logs but the one in use are    *)
(* gone or hold nothing that is not in the memtable.                       *)
LeftoversRemoved ==
  [][pc = "clean" /\ pc' = "open" =>
       /\ DOMAIN tables' = vs'.files
       /\ \A n \in DOMAIN logs' : n = logNumber' \/ logs'[n].recs = <<>>]_vars
=============================================================================
