----------------------------- MODULE WriteQueue -----------------------------
(***************************************************************************)
(* The write path of DBImpl (db/db_impl.cc): the queue of writers and its  *)
(* group commit, MakeRoomForWrite and the switch of the memtable, the one  *)
(* background thread that flushes imm_ and compacts level 0, the waits on  *)
(* background_work_finished_signal_, iterators that capture the state      *)
(* under the mutex and read it after releasing it, and the destructor.     *)
(*                                                                         *)
(* mutex_ is explicit: an action is the code between two points at which   *)
(* the thread takes or gives up the mutex, or a step of a thread that does *)
(* not hold it.  A thread makes one call; a second call is another thread. *)
(* A batch is its number of operations and operation i of the batch of     *)
(* thread w is the pair (w, i); a table is a set of entries.               *)
(***************************************************************************)
EXTENDS Integers, Sequences, FiniteSets

CONSTANTS
  Writers,          \* threads that call Write once
  Iters,            \* threads that take a snapshot, then open an iterator
  Requests,         \* the requests a writer may make: [ops, sync]
  SmallBatch,       \* 128 << 10 of BuildBatchGroup, in operations
  MaxGroup,         \* 1 << 20 of BuildBatchGroup, in operations
  WriteBufferSize,  \* options_.write_buffer_size, in entries
  L0Trigger, L0Slowdown, L0Stop,   \* the kL0_* limits of config
  IOErrors,         \* may operations on files fail?
  MaxLogs,          \* bound: log files (and memtables) made
  NoThread, BG      \* no owner of the mutex; the background thread

NullBatch == -1     \* Write(options, nullptr), made by TEST_CompactMemTable

ASSUME WQAssumption ==
  /\ NoThread \notin Writers /\ BG \notin Writers /\ NoThread # BG
  /\ Requests \subseteq [ops : Nat \cup {NullBatch}, sync : BOOLEAN]
  /\ WriteBufferSize \in Nat /\ SmallBatch \in Nat /\ MaxGroup \in Nat
  /\ L0Trigger \in Nat \ {0} /\ L0Slowdown \in Nat /\ L0Stop \in Nat
  /\ L0Trigger <= L0Stop
  /\ MaxLogs \in Nat \ {0}
  /\ IOErrors \in BOOLEAN

VARIABLES
  mutex,         \* owner of mutex_
  pc, req,       \* per writer: where it is, and its batch and sync flag
  done, status,  \* per writer: Writer::done, Writer::status (TRUE is OK)
  force, delay,  \* per writer: force and allow_delay of MakeRoomForWrite
  group,         \* per writer: the group it leads (BuildBatchGroup)
  queue,         \* writers_
  log, synced,   \* per log file: its records, and how many are synced
  sound,         \* per log file: how many records recovery surely finds
  table,         \* per memtable, named by its log's number: its entries
  mem, imm,      \* logfile_number_ (and so mem_); imm_, 0 is nullptr
  lastSequence,  \* versions_->LastSequence()
  version, l0,   \* entries in the tables of current(); NumLevelFiles(0)
  logNumber,     \* versions_->LogNumber(): earlier logs are not needed
  bgError,       \* !bg_error_.ok()
  scheduled,     \* background_compaction_scheduled_
  bg,            \* where the background thread is, and its local state
  iter,          \* per iterator: snapshot, and the state it captured
  dtor,          \* where ~DBImpl is; "open" before it is called
  committed,     \* history: entries of the groups that succeeded
  before         \* history: per writer, committed when its call began

writerVars == <<pc, req, done, status, force, delay, group, queue>>
dataVars == <<log, synced, sound, table, mem, imm, lastSequence, version, l0,
              logNumber>>
bgVars == <<bgError, scheduled, bg>>
sharedVars == <<dataVars, bgVars, iter, dtor, committed, before>>
ownVars == <<req, done, status, force, delay, group, queue>>
allButBg == <<writerVars, dataVars, bgError, scheduled, iter, dtor,
              committed, before>>
vars == <<mutex, writerVars, dataVars, bgVars, iter, dtor, committed, before>>

-----------------------------------------------------------------------------
(* Where a writer can be.  In "cv" it waits on its own condition variable, *)
(* in "bgwait" and "cmwait" on background_work_finished_signal_; a signal  *)
(* moves it to the state in which it waits for the mutex again.            *)
Leading == {"room", "sleep", "bgwait", "bgwoken", "group",
            "log", "sync", "insert", "relock", "finish"}
WriterPc == Leading \cup {"start", "lock", "check", "cv", "woken", "cmlock",
                          "cmwait", "cmwoken", "return"}

BgPc == {"idle", "sched", "flush", "build", "built", "manifest", "pick",
         "compact", "cmanifest", "mmanifest", "purge", "end"}

Entry == [seq : Nat, w : Writers, i : Nat]
NoGroup == [last |-> 0, count |-> 0, entries |-> {}, syncError |-> FALSE]
NoView == [open |-> "no", snap |-> 0, mem |-> 0, imm |-> 0, version |-> {}]
LogNumbers == 1 .. MaxLogs

MemEntries(m, i) == table[m] \cup (IF i = 0 THEN {} ELSE table[i])
Stored == MemEntries(mem, imm) \cup version
UpTo(E, s) == {e \in E : e.seq <= s}

Init ==
  /\ mutex = NoThread
  /\ pc = [w \in Writers |-> "start"]
  /\ req \in [Writers -> Requests]
  /\ done = [w \in Writers |-> FALSE]
  /\ status = [w \in Writers |-> TRUE]
  /\ force = [w \in Writers |-> FALSE]
  /\ delay = [w \in Writers |-> FALSE]
  /\ group = [w \in Writers |-> NoGroup]
  /\ queue = <<>>
  /\ log = [n \in LogNumbers |-> <<>>]
  /\ synced = [n \in LogNumbers |-> 0]
  /\ sound = [n \in LogNumbers |-> 0]
  /\ table = [n \in LogNumbers |-> {}]
  /\ mem = 1 /\ imm = 0
  /\ lastSequence = 0 /\ version = {} /\ l0 = 0 /\ logNumber = 1
  /\ bgError = FALSE /\ scheduled = FALSE
  /\ bg = [pc |-> "idle", ok |-> TRUE, ret |-> "end", l0 |-> 0]
  /\ iter = [r \in Iters |-> NoView]
  /\ dtor = "open"
  /\ committed = {}
  /\ before = [w \in Writers |-> {}]

-----------------------------------------------------------------------------
(* Condition variables.                                                    *)

Woken(p) == IF p = "bgwait" THEN "bgwoken"
            ELSE IF p = "cmwait" THEN "cmwoken" ELSE p

(* background_work_finished_signal_.SignalAll(), given the pc to wake from *)
WakeAll(p) == [w \in Writers |-> Woken(p[w])]
WakeDtor == IF dtor = "cv" THEN "woken" ELSE dtor

(* Signal() of a writer's own condition variable: lost when it waits not.  *)
SignalTo(S, p) == [w \in Writers |->
                     IF w \in S /\ p[w] = "cv" THEN "woken" ELSE p[w]]

Goto(w, where) == pc' = [pc EXCEPT ![w] = where]

(* RecordBackgroundError: the first error is kept and wakes every waiter.  *)
(* p is the pc of the writers after the step apart from the waking.        *)
RecordBackgroundError(p) ==
  /\ bgError' = TRUE
  /\ pc' = IF bgError THEN p ELSE WakeAll(p)
  /\ dtor' = IF bgError THEN dtor ELSE WakeDtor

NeedsCompaction(n) == n >= L0Trigger

MaybeScheduleCompaction_Closing(i, n, err, sched) ==
  LET go == ~sched /\ ~err /\ (i # 0 \/ NeedsCompaction(n))
  IN  /\ scheduled' = (sched \/ go)   \* mutant: also when shutting down
      /\ bg' = IF go THEN [bg EXCEPT !.pc = "sched"]
               ELSE IF sched THEN bg ELSE [bg EXCEPT !.pc = "idle"]

(* MaybeScheduleCompaction, on the values imm_, the number of level-0      *)
(* files, bg_error_ and scheduled have at the call.                        *)
MaybeScheduleCompaction(i, n, err, sched) ==
  LET go == ~sched /\ dtor = "open" /\ ~err /\ (i # 0 \/ NeedsCompaction(n))
  IN  /\ scheduled' = (sched \/ go)
      /\ bg' = IF go THEN [bg EXCEPT !.pc = "sched"]
               ELSE IF sched THEN bg ELSE [bg EXCEPT !.pc = "idle"]

-----------------------------------------------------------------------------
(* DBImpl::Write.                                                          *)

IsNull(w) == req[w].ops = NullBatch
Ops(w) == IF IsNull(w) THEN 0 ELSE req[w].ops

(* The call is made; db_impl.cc builds the Writer before it locks.         *)
Call(w) ==
  /\ pc[w] = "start" /\ dtor = "open"
  /\ before' = [before EXCEPT ![w] = committed]
  /\ Goto(w, "lock")
  /\ UNCHANGED <<mutex, ownVars, dataVars, bgVars, iter, dtor, committed>>

Enqueue(w) ==
  /\ pc[w] = "lock" /\ mutex = NoThread
  /\ mutex' = w
  /\ queue' = Append(queue, w)
  /\ Goto(w, "check")
  /\ UNCHANGED <<req, done, status, force, delay, group, sharedVars>>

(* What a call does once its Write() has returned: TEST_CompactMemTable    *)
(* goes on to wait for the flush when its Write(nullptr) succeeded.        *)
AfterWrite(w, ok) == IF IsNull(w) /\ ok THEN "cmlock" ELSE "return"

(* while (!w.done && &w != writers_.front()) w.cv.Wait();                  *)
CheckFront(w) ==
  /\ pc[w] = "check" /\ mutex = w
  /\ \/ /\ done[w]                        \* written by another leader
        /\ Goto(w, AfterWrite(w, status[w]))
        /\ mutex' = NoThread
        /\ UNCHANGED <<force, delay>>
     \/ /\ ~done[w] /\ w # Head(queue)
        /\ Goto(w, "cv")
        /\ mutex' = NoThread
        /\ UNCHANGED <<force, delay>>
     \/ /\ ~done[w] /\ w = Head(queue)
        /\ Goto(w, "room")                \* MakeRoomForWrite(force)
        /\ force' = [force EXCEPT ![w] = IsNull(w)]
        /\ delay' = [delay EXCEPT ![w] = ~IsNull(w)]
        /\ UNCHANGED mutex
  /\ UNCHANGED <<req, done, status, group, queue, sharedVars>>

Rewait_IfNotWhile(w) ==           \* mutant: the wait does not loop
  /\ mutex = NoThread
  /\ mutex' = w
  /\ pc[w] \in {"woken", "bgwoken", "sleep"}
  /\ Goto(w, "room")
  /\ UNCHANGED <<ownVars, sharedVars>>

(* Wait() returns: after a signal, or spuriously (SpuriousWake).           *)
Rewait(w) ==
  /\ mutex = NoThread
  /\ mutex' = w
  /\ \/ pc[w] = "woken" /\ Goto(w, "check")
     \/ pc[w] \in {"bgwoken", "sleep"} /\ Goto(w, "room")
  /\ UNCHANGED <<ownVars, sharedVars>>

SpuriousWake(w) ==
  /\ \/ pc[w] = "cv" /\ Goto(w, "woken")
     \/ pc[w] = "bgwait" /\ Goto(w, "bgwoken")
     \/ pc[w] = "cmwait" /\ Goto(w, "cmwoken")
  /\ UNCHANGED <<mutex, ownVars, sharedVars>>

-----------------------------------------------------------------------------
(* One round of the loop of MakeRoomForWrite, at the front of the queue.   *)

MemFull == Cardinality(table[mem]) > WriteBufferSize
RoomInMem(w) == ~force[w] /\ ~MemFull
MustDelay(w) == delay[w] /\ l0 >= L0Slowdown

RoomError(w) ==
  /\ pc[w] = "room" /\ mutex = w /\ bgError
  /\ status' = [status EXCEPT ![w] = FALSE]
  /\ Goto(w, "group")
  /\ UNCHANGED <<mutex, req, done, force, delay, group, queue, sharedVars>>

RoomDelay(w) ==
  /\ pc[w] = "room" /\ mutex = w /\ ~bgError /\ MustDelay(w)
  /\ delay' = [delay EXCEPT ![w] = FALSE]
  /\ mutex' = NoThread
  /\ Goto(w, "sleep")
  /\ UNCHANGED <<req, done, status, force, group, queue, sharedVars>>

RoomAvailable(w) ==
  /\ pc[w] = "room" /\ mutex = w /\ ~bgError /\ ~MustDelay(w) /\ RoomInMem(w)
  /\ Goto(w, "group")
  /\ UNCHANGED <<mutex, ownVars, sharedVars>>

RoomWait(w) ==
  /\ pc[w] = "room" /\ mutex = w /\ ~bgError /\ ~MustDelay(w) /\ ~RoomInMem(w)
  /\ imm # 0 \/ l0 >= L0Stop
  /\ mutex' = NoThread
  /\ Goto(w, "bgwait")
  /\ UNCHANGED <<ownVars, sharedVars>>

CanSwitch_NoImmCheck(w) ==        \* mutant: imm_ is not waited for
  /\ pc[w] = "room" /\ mutex = w /\ ~bgError /\ ~MustDelay(w) /\ ~RoomInMem(w)
  /\ l0 < L0Stop
  /\ mem < MaxLogs

CanSwitch(w) ==
  /\ pc[w] = "room" /\ mutex = w /\ ~bgError /\ ~MustDelay(w) /\ ~RoomInMem(w)
  /\ imm = 0 /\ l0 < L0Stop
  /\ mem < MaxLogs

(* NewWritableFile fails: the number goes back and the call fails.         *)
RoomNewLogFails(w) ==
  /\ IOErrors /\ CanSwitch(w)
  /\ status' = [status EXCEPT ![w] = FALSE]
  /\ Goto(w, "group")
  /\ UNCHANGED <<mutex, req, done, force, delay, group, queue, sharedVars>>

(* The switch to a new log and memtable.  Closing the old log may fail and *)
(* lose what was not synced; that is a background error but does not stop  *)
(* the switch.                                                             *)
RoomSwitch(w) ==
  /\ CanSwitch(w)
  /\ imm' = mem
  /\ mem' = mem + 1
  /\ force' = [force EXCEPT ![w] = FALSE]
  /\ \/ /\ UNCHANGED <<pc, bgError, dtor, sound>>
        /\ MaybeScheduleCompaction(mem, l0, FALSE, scheduled)
     \/ /\ IOErrors
        /\ \E k \in 0 .. sound[mem] :
             /\ k = sound[mem] \/ synced[mem] <= k
             /\ sound' = [sound EXCEPT ![mem] = k]
        /\ RecordBackgroundError(pc)
        /\ UNCHANGED <<scheduled, bg>>
  /\ UNCHANGED <<mutex, req, done, status, delay, group, queue, log, synced,
                 table, lastSequence, version, l0, logNumber, iter, committed,
                 before>>

-----------------------------------------------------------------------------
(* BuildBatchGroup and the write of the group.                             *)

(* The number of operations of the first j writers of the queue.           *)
OpsTo(j) == UNION {{<<i, m>> : m \in 1 .. Ops(queue[i])} : i \in 1 .. j}
SizeTo(j) == Cardinality(OpsTo(j))

MaxSize(first) == IF Ops(first) <= SmallBatch THEN Ops(first) + SmallBatch
                  ELSE MaxGroup

Joins_AnySync(j) ==               \* mutant: a sync write joins any group
  IsNull(queue[j]) \/ SizeTo(j) <= MaxSize(queue[1])

(* Does the loop of BuildBatchGroup go past the writer at position j?      *)
Joins(j) ==
  LET w == queue[j]
      first == queue[1]
  IN  /\ req[first].sync \/ ~req[w].sync
      /\ IsNull(w) \/ SizeTo(j) <= MaxSize(first)

(* k is the position of last_writer.                                       *)
IsGroupEnd(k) ==
  /\ \A j \in 2 .. k : Joins(j)
  /\ k < Len(queue) => ~Joins(k + 1)

EntriesAt(j) ==
  {[seq |-> lastSequence + SizeTo(j - 1) + i, w |-> queue[j], i |-> i] :
     i \in 1 .. Ops(queue[j])}

(* The entries of the first k writers, in the order of the queue.          *)
GroupEntries(k) == UNION {EntriesAt(j) : j \in 1 .. k}

BuildGroup(w) ==
  /\ pc[w] = "group" /\ mutex = w
  /\ \/ /\ status[w] /\ ~IsNull(w)
        /\ \E k \in 1 .. Len(queue) :
             /\ IsGroupEnd(k)
             /\ group' = [group EXCEPT ![w] =
                  [last |-> k, count |-> SizeTo(k),
                   entries |-> GroupEntries(k), syncError |-> FALSE]]
        /\ mutex' = NoThread
        /\ Goto(w, "log")
     \/ /\ ~status[w] \/ IsNull(w)
        /\ group' = [group EXCEPT ![w] = [NoGroup EXCEPT !.last = 1]]
        /\ Goto(w, "finish")
        /\ UNCHANGED mutex
  /\ UNCHANGED <<req, done, status, force, delay, queue, sharedVars>>

(* The log::Writer is in step with the file as long as no append failed;   *)
(* then the record it appends is found.                                    *)
InStep == sound[mem] = Len(log[mem])
RecordFound == sound' = IF InStep THEN [sound EXCEPT ![mem] = @ + 1] ELSE sound

(* log_->AddRecord.  When it fails the record may be whole in the file all *)
(* the same, or torn; Writer::block_offset_ has moved on in either case,   *)
(* and behind a torn record later ones need not be found.                  *)
AddRecord(w) ==
  /\ pc[w] = "log"
  /\ log' = [log EXCEPT ![mem] = Append(@, group[w].entries)]
  /\ \/ /\ RecordFound
        /\ Goto(w, IF req[w].sync THEN "sync" ELSE "insert")
        /\ UNCHANGED status
     \/ /\ IOErrors
        /\ RecordFound \/ UNCHANGED sound
        /\ Goto(w, "relock")
        /\ status' = [status EXCEPT ![w] = FALSE]
  /\ UNCHANGED <<mutex, req, done, force, delay, group, queue, synced, table,
                 mem, imm, lastSequence, version, l0, logNumber, bgVars, iter,
                 dtor, committed, before>>

(* logfile_->Sync().                                                       *)
SyncLog(w) ==
  /\ pc[w] = "sync"
  /\ \/ /\ synced' = [synced EXCEPT ![mem] = Len(log[mem])]
        /\ Goto(w, "insert")
        /\ UNCHANGED <<status, group>>
     \/ /\ IOErrors
        /\ status' = [status EXCEPT ![w] = FALSE]
        /\ group' = [group EXCEPT ![w].syncError = TRUE]
        /\ Goto(w, "relock")
        /\ UNCHANGED synced
  /\ UNCHANGED <<mutex, req, done, force, delay, queue, log, sound, table,
                 mem, imm, lastSequence, version, l0, logNumber, bgVars, iter, dtor,
                 committed, before>>

(* WriteBatchInternal::InsertInto: one MemTable::Add at a time, in order,  *)
(* while readers may be in the same memtable.  Its errors are those of a   *)
(* malformed batch, which the methods of WriteBatch do not build.          *)
InsertInto(w) ==
  /\ pc[w] = "insert"
  /\ LET rest == group[w].entries \ table[mem]
     IN  \/ /\ rest # {}
            /\ \E e \in rest :
                 /\ \A f \in rest : e.seq <= f.seq
                 /\ table' = [table EXCEPT ![mem] = @ \cup {e}]
            /\ UNCHANGED pc
         \/ /\ rest = {}
            /\ Goto(w, "relock")
            /\ UNCHANGED table
  /\ UNCHANGED <<mutex, ownVars, log, synced, sound, mem, imm, lastSequence,
                 version, l0, logNumber, bgVars, iter, dtor, committed, before>>

NewLastSequence_OffByOne(w) ==    \* mutant: one number too few
  lastSequence + group[w].count - 1

NewLastSequence(w) == lastSequence + group[w].count

(* mutex_.Lock() after the group is written, and SetLastSequence: the      *)
(* sequence numbers are used up even when the write failed.                *)
Relock(w) ==
  /\ pc[w] = "relock" /\ mutex = NoThread
  /\ mutex' = w
  /\ lastSequence' = NewLastSequence(w)
  /\ committed' = committed \cup (IF status[w] THEN group[w].entries ELSE {})
  /\ IF group[w].syncError
     THEN RecordBackgroundError([pc EXCEPT ![w] = "finish"])
     ELSE Goto(w, "finish") /\ UNCHANGED <<bgError, dtor>>
  /\ UNCHANGED <<ownVars, log, synced, sound, table, mem, imm, version, l0,
                 logNumber, scheduled, bg, iter, before>>

NewFront_Silent(rest) == {}       \* mutant: the new front is not signalled

(* The new head of the queue, which is notified.                           *)
NewFront(rest) == IF rest = <<>> THEN {} ELSE {Head(rest)}

(* The writers up to last_writer leave the queue with the leader's status  *)
(* and are signalled; so is the new front; the leader's Write() returns.   *)
Finish(w) ==
  /\ pc[w] = "finish" /\ mutex = w
  /\ LET k == group[w].last
         ready == {queue[j] : j \in 2 .. k}
         rest == SubSeq(queue, k + 1, Len(queue))
     IN  /\ queue' = rest
         /\ done' = [u \in Writers |-> done[u] \/ u \in ready]
         /\ status' = [u \in Writers |->
                         IF u \in ready THEN status[w] ELSE status[u]]
         /\ pc' = SignalTo(ready \cup NewFront(rest),
                           [pc EXCEPT ![w] = AfterWrite(w, status[w])])
  /\ mutex' = NoThread
  /\ UNCHANGED <<req, force, delay, group, sharedVars>>

(* TEST_CompactMemTable waits until imm_ is flushed or an error stops it.  *)
AwaitFlush(w) ==
  /\ pc[w] \in {"cmlock", "cmwoken"} /\ mutex = NoThread
  /\ \/ /\ imm # 0 /\ ~bgError
        /\ Goto(w, "cmwait")
        /\ UNCHANGED status
     \/ /\ imm = 0 \/ bgError
        /\ Goto(w, "return")
        /\ status' = [status EXCEPT ![w] = (imm = 0)]
  /\ UNCHANGED <<mutex, req, done, force, delay, group, queue, sharedVars>>

-----------------------------------------------------------------------------
(* The background thread: BackgroundCall and what it calls.                *)

BgGoto(where) == bg' = [bg EXCEPT !.pc = where]

(* BackgroundCall takes the mutex and BackgroundCompaction picks the work. *)
BackgroundCall ==
  /\ bg.pc = "sched" /\ mutex = NoThread
  /\ mutex' = BG
  /\ bg' = [bg EXCEPT !.ret = "end",
              !.pc = IF dtor # "open" \/ bgError THEN "end"
                     ELSE IF imm # 0 THEN "flush"
                     ELSE IF NeedsCompaction(l0) THEN "pick" ELSE "end"]
  /\ UNCHANGED allButBg

(* CompactMemTable begins: WriteLevel0Table gives up the mutex to build    *)
(* the table, which may fail.                                              *)
FlushBegin ==
  /\ bg.pc = "flush" /\ mutex = BG
  /\ mutex' = NoThread
  /\ BgGoto("build")
  /\ UNCHANGED allButBg

BuildTable ==
  /\ bg.pc = "build"
  /\ \E ok \in {TRUE, ~IOErrors} : bg' = [bg EXCEPT !.pc = "built", !.ok = ok]
  /\ UNCHANGED <<mutex, allButBg>>

(* Back with the mutex: an error or a shutdown ends the flush; otherwise   *)
(* LogAndApply gives the mutex up again to write the MANIFEST.             *)
FlushRelock ==
  /\ bg.pc = "built" /\ mutex = NoThread
  /\ IF bg.ok /\ dtor = "open"
     THEN /\ BgGoto("manifest")
          /\ UNCHANGED <<mutex, pc, bgError, dtor>>
     ELSE /\ BgGoto(bg.ret)
          /\ mutex' = BG
          /\ RecordBackgroundError(pc)
  /\ UNCHANGED <<ownVars, dataVars, scheduled, iter, committed, before>>

FlushedLogNumber_Next == mem + 1  \* mutant: the current log is given up too
FlushedLogNumber == mem           \* edit.SetLogNumber(logfile_number_)

(* RemoveObsoleteFiles at the end of a flush or a compaction: it deletes   *)
(* files with the mutex given up, unless there is a background error.      *)
RemoveObsoleteFiles(ret) ==
  /\ bg' = [bg EXCEPT !.pc = IF bgError THEN ret ELSE "purge", !.ret = ret]
  /\ mutex' = IF bgError THEN BG ELSE NoThread

FilesRemoved ==
  /\ bg.pc = "purge" /\ mutex = NoThread
  /\ mutex' = BG
  /\ BgGoto(bg.ret)
  /\ UNCHANGED allButBg

(* The MANIFEST is written: the new version is installed and imm_ dropped. *)
(* The level is PickLevelForMemTableOutput's; an empty memtable gives no   *)
(* file.                                                                   *)
FlushInstall ==
  /\ bg.pc = "manifest" /\ mutex = NoThread
  /\ \/ /\ version' = version \cup table[imm]
        /\ imm' = 0
        /\ logNumber' = FlushedLogNumber
        /\ l0' \in IF table[imm] = {} THEN {l0} ELSE {l0, l0 + 1}
        /\ RemoveObsoleteFiles(bg.ret)
        /\ UNCHANGED <<pc, bgError, dtor>>
     \/ /\ IOErrors
        /\ RecordBackgroundError(pc)
        /\ mutex' = BG
        /\ BgGoto(bg.ret)
        /\ UNCHANGED <<version, imm, l0, logNumber>>
  /\ UNCHANGED <<ownVars, log, synced, sound, table, mem, lastSequence, scheduled,
                 iter, committed, before>>

(* DoCompactionWork begins: the inputs are the level-0 files of now.       *)
CompactionBegin ==
  /\ bg.pc = "pick" /\ mutex = BG
  /\ mutex' = NoThread
  /\ bg' = [bg EXCEPT !.pc = "compact", !.l0 = l0]
  /\ UNCHANGED allButBg

(* A trivial move only writes the MANIFEST.                                *)
TrivialMove ==
  /\ bg.pc = "pick" /\ mutex = BG
  /\ mutex' = NoThread
  /\ BgGoto("mmanifest")
  /\ UNCHANGED allButBg

(* The loop of DoCompactionWork sees has_imm_ and flushes imm_ first, even *)
(* when a background error is recorded; the flush returns to the loop.     *)
CompactionFlush ==
  /\ bg.pc = "compact" /\ mutex = NoThread /\ imm # 0
  /\ mutex' = BG
  /\ bg' = [bg EXCEPT !.pc = "flush", !.ret = "compact"]
  /\ UNCHANGED allButBg

(* After that flush the loop signals and gives the mutex up again.         *)
CompactionFlushed ==
  /\ bg.pc = "compact" /\ mutex = BG
  /\ mutex' = NoThread
  /\ pc' = WakeAll(pc)
  /\ dtor' = WakeDtor
  /\ UNCHANGED <<ownVars, dataVars, bgVars, iter, committed, before>>

(* The merge ends, well or not; LogAndApply writes the MANIFEST unlocked.  *)
CompactionRelock ==
  /\ bg.pc = "compact" /\ mutex = NoThread
  /\ \/ /\ dtor = "open"
        /\ BgGoto("cmanifest")
        /\ UNCHANGED <<mutex, pc, bgError, dtor>>
     \/ /\ IOErrors \/ dtor # "open"
        /\ BgGoto("end")
        /\ mutex' = BG
        /\ RecordBackgroundError(pc)
  /\ UNCHANGED <<ownVars, dataVars, scheduled, iter, committed, before>>

CompactedFiles == 1 .. bg.l0      \* how many files may leave level 0

(* InstallCompactionResults: some of the level-0 inputs leave level 0; or  *)
(* a trivial move, of one file.                                            *)
CompactionInstall ==
  /\ bg.pc \in {"cmanifest", "mmanifest"} /\ mutex = NoThread
  /\ \/ /\ bg.pc = "cmanifest"
        /\ \E n \in CompactedFiles : l0' = l0 - n
        /\ RemoveObsoleteFiles("end")
        /\ UNCHANGED <<pc, bgError, dtor>>
     \/ /\ bg.pc = "mmanifest"
        /\ l0' = l0 - 1
        /\ mutex' = BG
        /\ BgGoto("end")
        /\ UNCHANGED <<pc, bgError, dtor>>
     \/ /\ IOErrors
        /\ RecordBackgroundError(pc)
        /\ mutex' = BG
        /\ BgGoto("end")
        /\ UNCHANGED l0
  /\ UNCHANGED <<ownVars, log, synced, sound, table, mem, imm, lastSequence,
                 version, logNumber, scheduled, iter, committed, before>>

BackgroundReturn ==
  /\ bg.pc = "end" /\ mutex = BG
  /\ mutex' = NoThread
  /\ MaybeScheduleCompaction(imm, l0, bgError, FALSE)
  /\ pc' = WakeAll(pc)
  /\ dtor' = WakeDtor
  /\ UNCHANGED <<ownVars, dataVars, bgError, iter, committed, before>>

-----------------------------------------------------------------------------
(* Readers and the destructor.                                             *)

(* GetSnapshot.                                                            *)
TakeSnapshot(r) ==
  /\ iter[r].open = "no" /\ mutex = NoThread /\ dtor = "open"
  /\ iter' = [iter EXCEPT ![r].open = "snap", ![r].snap = lastSequence]
  /\ UNCHANGED <<mutex, writerVars, dataVars, bgVars, dtor, committed,
                 before>>

Capture_NoImm(r) ==               \* mutant: imm_ is not read
  [open |-> "yes", snap |-> iter[r].snap,
   mem |-> mem, imm |-> 0, version |-> version]

Capture(r) == [open |-> "yes", snap |-> iter[r].snap,
               mem |-> mem, imm |-> imm, version |-> version]

(* Get or NewInternalIterator at that snapshot: what it captures under the *)
(* mutex, to be read after the mutex is released.                          *)
OpenIterator(r) ==
  /\ iter[r].open = "snap" /\ mutex = NoThread
  /\ iter' = [iter EXCEPT ![r] = Capture(r)]
  /\ UNCHANGED <<mutex, writerVars, dataVars, bgVars, dtor, committed,
                 before>>

(* CleanupIteratorState and ReleaseSnapshot.                               *)
CloseIterator(r) ==
  /\ iter[r].open = "yes" /\ mutex = NoThread
  /\ iter' = [iter EXCEPT ![r] = [NoView EXCEPT !.open = "closed"]]
  /\ UNCHANGED <<mutex, writerVars, dataVars, bgVars, dtor, committed,
                 before>>

(* ~DBImpl may be called when no other call is in progress.                *)
Quiet ==
  /\ \A w \in Writers : pc[w] \in {"start", "return"}
  /\ \A r \in Iters : iter[r].open \in {"no", "closed"}

Destroy ==
  /\ \/ dtor = "open" /\ Quiet
     \/ dtor = "woken"
  /\ mutex = NoThread
  /\ dtor' = IF scheduled THEN "cv" ELSE "closed"
  /\ UNCHANGED <<mutex, writerVars, dataVars, bgVars, iter, committed,
                 before>>

Closed == dtor = "closed" /\ UNCHANGED vars

-----------------------------------------------------------------------------
WriterStep(w) ==
  \/ Call(w) \/ Enqueue(w) \/ CheckFront(w) \/ Rewait(w)
  \/ RoomError(w) \/ RoomDelay(w) \/ RoomAvailable(w) \/ RoomWait(w)
  \/ RoomNewLogFails(w) \/ RoomSwitch(w)
  \/ BuildGroup(w) \/ AddRecord(w) \/ SyncLog(w) \/ InsertInto(w)
  \/ Relock(w) \/ Finish(w) \/ AwaitFlush(w)

BgStep ==
  \/ BackgroundCall \/ FlushBegin \/ BuildTable \/ FlushRelock \/ FlushInstall
  \/ FilesRemoved \/ CompactionBegin \/ TrivialMove
  \/ CompactionFlush \/ CompactionFlushed
  \/ CompactionRelock \/ CompactionInstall \/ BackgroundReturn

ReaderStep(r) == TakeSnapshot(r) \/ OpenIterator(r) \/ CloseIterator(r)

Next ==
  \/ \E w \in Writers : WriterStep(w) \/ SpuriousWake(w)
  \/ BgStep
  \/ \E r \in Iters : ReaderStep(r)
  \/ Destroy
  \/ Closed

Spec == Init /\ [][Next]_vars

(* Every thread that can run runs.  std::mutex promises no more: a thread  *)
(* that keeps waking without a signal could starve the others of mutex_,   *)
(* so there are only finitely many spurious wakeups.  The input iterator   *)
(* of a compaction is finite, so its loop ends (SF on CompactionRelock).   *)
Fairness ==
  /\ \A w \in Writers : WF_vars(WriterStep(w))
  /\ WF_vars(BgStep)
  /\ SF_vars(CompactionRelock)
  /\ \A r \in Iters : WF_vars(ReaderStep(r))
  /\ WF_vars(Destroy)
  /\ <>[][\A w \in Writers : ~SpuriousWake(w)]_vars

FairSpec == Spec /\ Fairness

-----------------------------------------------------------------------------
(* Properties.                                                             *)

GroupType == [last : Nat, count : Nat,
              entries : SUBSET Entry, syncError : BOOLEAN]
ViewType == [open : {"no", "snap", "yes", "closed"}, snap : Nat,
             mem : 0 .. MaxLogs, imm : 0 .. MaxLogs, version : SUBSET Entry]

WriterTypes ==
  /\ mutex \in Writers \cup {NoThread, BG}
  /\ pc \in [Writers -> WriterPc]
  /\ req \in [Writers -> Requests]
  /\ done \in [Writers -> BOOLEAN] /\ status \in [Writers -> BOOLEAN]
  /\ force \in [Writers -> BOOLEAN] /\ delay \in [Writers -> BOOLEAN]
  /\ group \in [Writers -> GroupType]
  /\ queue \in Seq(Writers)

DataTypes ==
  /\ log \in [LogNumbers -> Seq(SUBSET Entry)]
  /\ synced \in [LogNumbers -> Nat] /\ sound \in [LogNumbers -> Nat]
  /\ table \in [LogNumbers -> SUBSET Entry]
  /\ mem \in LogNumbers /\ imm \in {0} \cup LogNumbers
  /\ logNumber \in LogNumbers
  /\ lastSequence \in Nat /\ version \in SUBSET Entry /\ l0 \in Nat
  /\ committed \in SUBSET Entry
  /\ before \in [Writers -> SUBSET Entry]

BgTypes ==
  /\ bgError \in BOOLEAN /\ scheduled \in BOOLEAN
  /\ bg \in [pc : BgPc, ok : BOOLEAN, ret : {"end", "compact"}, l0 : Nat]
  /\ dtor \in {"open", "cv", "woken", "closed"}

(* Every variable of the write path holds a value of its type.             *)
TypeOK ==
  /\ WriterTypes /\ DataTypes /\ BgTypes
  /\ iter \in [Iters -> ViewType]

(* The comment in Write() "&w is currently responsible for logging and     *)
(* protects against concurrent loggers and concurrent writes into mem_":   *)
(* only the front of writers_ is in MakeRoomForWrite, in the log or in the *)
(* memtable, although it gives up mutex_ there.                            *)
ExclusiveLogger ==
  \A w \in Writers : pc[w] \in Leading => queue # <<>> /\ Head(queue) = w

(* What an iterator or a Get reads after it released mutex_, from the      *)
(* memtables and the version it captured and up to its snapshot, is what   *)
(* was committed up to the snapshot: whole batches, nothing of a group     *)
(* being inserted, nothing lost to a switch or a flush since.              *)
SnapshotConsistency ==
  \A r \in Iters : iter[r].open = "yes" =>
    UpTo(MemEntries(iter[r].mem, iter[r].imm) \cup iter[r].version,
         iter[r].snap)
      = UpTo(committed, iter[r].snap)

(* No committed entry is ever missing from mem_, imm_ and current()        *)
(* together, whatever fails in the flush, and up to LastSequence() there   *)
(* is nothing else in them.                                                *)
StoreComplete == UpTo(Stored, lastSequence) = committed

LogSequencesIncrease ==
  \A m, n \in 1 .. mem : \A i \in 1 .. Len(log[m]), j \in 1 .. Len(log[n]) :
    (m < n \/ (m = n /\ i < j)) =>
      \A e \in log[m][i], f \in log[n][j] : e.seq < f.seq

(* Record i of log n is not sure to be found, and this is why: an append   *)
(* before it failed, to a write that was told so; or what was not synced   *)
(* went when the log could not be closed, and bg_error_ refuses writes.    *)
BehindFailure(n, i) ==
  i > sound[n] + 1 /\ log[n][sound[n] + 1] \cap committed = {}
LostInClose(n, i) == bgError /\ n < mem /\ i > synced[n]

(* What is committed is in tables or in the logs that recovery will read,  *)
(* those from LogNumber() on: the flush of imm_ gives up its log, and the  *)
(* log of mem_ is never given up, whatever was switched meanwhile.  There  *)
(* recovery finds its record, but for two reasons: it was appended behind  *)
(* one that failed, or the log could not be closed.  The records of the    *)
(* logs have disjoint, increasing sequence numbers in the order in which   *)
(* recovery replays them, also when AddRecord or Sync failed and the       *)
(* record nevertheless got into the file.                                  *)
Recoverable ==
  /\ \A e \in committed \ version :
       \E n \in logNumber .. mem : \E i \in 1 .. Len(log[n]) :
         /\ e \in log[n][i]
         /\ i <= sound[n] \/ BehindFailure(n, i) \/ LostInClose(n, i)
  /\ LogSequencesIncrease

EntriesOf(w, E) == {e \in E : e.w = w}
SyncedIn(w) ==
  \A i \in 1 .. Ops(w) : \E n \in 1 .. mem : \E j \in 1 .. synced[n] :
    \E e \in log[n][j] : e.w = w /\ e.i = i

(* What Write() returns, to a leader or to a writer whose batch another    *)
(* leader wrote, is what happened to its batch: OK means that every        *)
(* operation can be read, an error that none can, as long as the database  *)
(* is open ("the log record ... may or may not show up when the DB is      *)
(* re-opened"); and OK for a sync write, that it is in the synced part of  *)
(* a log, also when another leader wrote it ("Do not include a sync write  *)
(* into a batch handled by a non-sync write").                             *)
StatusTruthful ==
  \A w \in Writers : pc[w] = "return" /\ ~IsNull(w) =>
    /\ {e.i : e \in EntriesOf(w, Stored)} = IF status[w] THEN 1 .. Ops(w) ELSE {}
    /\ req[w].sync /\ status[w] => SyncedIn(w)

(* A write gets later sequence numbers than everything committed before it *)
(* was called, and its operations get theirs in the order of the batch.    *)
RealTimeOrder ==
  \A f \in committed :
    /\ \A e \in before[f.w] : e.seq < f.seq
    /\ \A e \in EntriesOf(f.w, committed) : e.i < f.i => e.seq < f.seq

(* Every call of Write() and TEST_CompactMemTable returns: no wakeup is    *)
(* lost when leadership passes on, and nobody waits for ever for room or   *)
(* for a flush, also after a background error.                             *)
EveryCallReturns == \A w \in Writers : pc[w] = "lock" ~> pc[w] = "return"

(* ~DBImpl ends: the background thread it waits for finishes and says so.  *)
DestructorEnds == dtor = "cv" ~> dtor = "closed"

=============================================================================
