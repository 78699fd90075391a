-------------------------- MODULE ManualCompaction --------------------------
(***************************************************************************)
(* The handshake between threads in DBImpl::TEST_CompactRange and the      *)
(* background thread (db/db_impl.cc).  manual_compaction_ points to a      *)
(* ManualCompaction on the stack of the caller that posted it; the         *)
(* background thread works on it piece by piece, without the mutex while   *)
(* it merges, and writes to it afterwards.                                 *)
(*                                                                         *)
(* An action is what a thread does while it holds the mutex.  The range of *)
(* a caller is the number of compactions it takes: versions_->CompactRange *)
(* returns nullptr when it is 0.  The Env runs the work of this database   *)
(* ("db") and of others that share its background thread ("other").        *)
(***************************************************************************)
EXTENDS Integers, FiniteSets, WorkQueue

CONSTANTS
  Callers,     \* threads that call TEST_CompactRange once
  NoCaller,    \* manual_compaction_ is nullptr
  MaxPieces,   \* bound: compactions that one range takes
  MaxOther,    \* bound: flushes and compactions for other reasons
  MaxShared,   \* bound: work of other databases
  IOErrors     \* may the background thread or a writer record an error?

ASSUME ManualAssumption ==
  /\ NoCaller \notin Callers
  /\ MaxPieces \in Nat /\ MaxOther \in Nat /\ MaxShared \in Nat
  /\ IOErrors \in BOOLEAN

VARIABLES
  manual,     \* manual_compaction_
  caller,     \* per caller: where it is
  done,       \* per caller: ManualCompaction::done
  pieces,     \* per caller: compactions left of its range
  imm,        \* imm_ != nullptr
  needs,      \* versions_->NeedsCompaction()
  made,       \* bound: times imm or needs became true
  scheduled,  \* background_compaction_scheduled_
  bg,         \* the background thread: where it is, and is_manual
  bgError,    \* !bg_error_.ok()
  crashed,    \* a null manual_compaction_ was dereferenced
  shared      \* bound: how often another database called Schedule

work == <<imm, needs, made>>
pool == <<shared, poolVars>>
manualVars == <<manual, caller, done, pieces, work, scheduled, bg, bgError,
                crashed, pool>>

ManualInit ==
  /\ manual = NoCaller
  /\ caller = [c \in Callers |-> "start"]
  /\ done = [c \in Callers |-> FALSE]
  /\ pieces \in [Callers -> 0 .. MaxPieces]
  /\ imm = FALSE /\ needs = FALSE /\ made = 0
  /\ scheduled = FALSE
  /\ bg = [pc |-> "idle", isManual |-> FALSE]
  /\ bgError = FALSE /\ crashed = FALSE
  /\ shared = 0 /\ PoolInit

(* background_work_finished_signal_.SignalAll()                            *)
SignalAll == [c \in Callers |-> IF caller[c] = "wait" THEN "loop" ELSE caller[c]]

(* MaybeScheduleCompaction, in the state the action leads to: sched is     *)
(* background_compaction_scheduled_ and at is where the background thread  *)
(* is when it is called.                                                   *)
HasWork == ~bgError /\ (imm \/ needs \/ manual # NoCaller)
MaybeScheduleCompaction(sched, at) ==
  /\ scheduled' = (sched \/ HasWork')
  /\ IF ~sched /\ HasWork' THEN Schedule("db", at)
     ELSE worker' = at /\ UNCHANGED queue

-----------------------------------------------------------------------------
(* TEST_CompactRange.                                                      *)

Call(c) ==
  /\ caller[c] = "start"
  /\ caller' = [caller EXCEPT ![c] = "loop"]
  /\ UNCHANGED <<manual, done, pieces, work, scheduled, bg, bgError, crashed,
                 pool>>

GoesOn(c) == ~done[c] /\ ~bgError

Post(c) ==   \* "Idle": post the request, and look again
  /\ caller[c] = "loop" /\ GoesOn(c) /\ manual = NoCaller
  /\ manual' = c
  /\ UNCHANGED <<caller, done, pieces, work, bg, bgError, crashed, shared>>
  /\ MaybeScheduleCompaction(scheduled, worker)

Wait(c) ==   \* "Running either my compaction or another compaction."
  /\ caller[c] = "loop" /\ GoesOn(c) /\ manual # NoCaller
  /\ caller' = [caller EXCEPT ![c] = "wait"]
  /\ UNCHANGED <<manual, done, pieces, work, scheduled, bg, bgError, crashed,
                 pool>>

Withdrawn_Not(c) == manual   \* mutant: the request is left behind
Withdrawn(c) == IF manual = c THEN NoCaller ELSE manual

Return(c) ==
  /\ caller[c] = "loop" /\ ~GoesOn(c)
  /\ manual' = Withdrawn(c)
  /\ caller' = [caller EXCEPT ![c] = "return"]
  /\ UNCHANGED <<done, pieces, work, scheduled, bg, bgError, crashed, pool>>

-----------------------------------------------------------------------------
(* The background thread: BackgroundCall and BackgroundCompaction.         *)

Begins == worker = "db" /\ bg.pc = "idle"

EndCall ==   \* the end of BackgroundCall
  /\ bg' = [pc |-> "idle", isManual |-> FALSE]
  /\ MaybeScheduleCompaction(FALSE, "loop")
  /\ caller' = SignalAll

(* With an error nothing is done.                                          *)
BackgroundNothing ==
  /\ Begins /\ bgError
  /\ UNCHANGED <<manual, done, pieces, work, bgError, crashed, shared>>
  /\ EndCall

(* imm_ comes first; a compaction nobody asked for, when it is a move, is  *)
(* over at once, too.                                                      *)
BackgroundFlush ==
  /\ Begins /\ ~bgError /\ imm
  /\ bgError' \in {FALSE, IOErrors}
  /\ imm' = bgError'
  /\ UNCHANGED <<manual, done, pieces, needs, made, crashed, shared>>
  /\ EndCall

BackgroundMove ==
  /\ Begins /\ ~bgError /\ ~imm /\ manual = NoCaller
  /\ bgError' \in {FALSE, IOErrors /\ needs}
  /\ needs' = (needs /\ bgError')
  /\ UNCHANGED <<manual, done, pieces, imm, made, crashed, shared>>
  /\ EndCall

(* CompactRange finds no file: done, and the request is taken down.        *)
BackgroundManualDone ==
  /\ Begins /\ ~bgError /\ ~imm /\ manual # NoCaller
  /\ pieces[manual] = 0
  /\ done' = [done EXCEPT ![manual] = TRUE]
  /\ manual' = NoCaller
  /\ UNCHANGED <<pieces, work, bgError, crashed, shared>>
  /\ EndCall

(* DoCompactionWork gives up the mutex, for a manual or another compaction.*)
BackgroundWork ==
  /\ Begins /\ ~bgError /\ ~imm
  /\ \/ manual # NoCaller /\ pieces[manual] > 0
     \/ manual = NoCaller /\ needs
  /\ bg' = [pc |-> "work", isManual |-> manual # NoCaller]
  /\ UNCHANGED <<manual, caller, done, pieces, work, scheduled, bgError, crashed,
                 pool>>

(* It flushes a memtable in between; a failure is recorded, and signalled, *)
(* and does not end the compaction.                                        *)
FlushDuringWork ==
  /\ bg.pc = "work" /\ imm
  /\ \/ imm' = FALSE /\ UNCHANGED bgError
     \/ IOErrors /\ bgError' = TRUE /\ UNCHANGED imm
  /\ caller' = SignalAll
  /\ UNCHANGED <<manual, done, pieces, needs, made, scheduled, bg, crashed, pool>>

(* It ends, with an error or not, and BackgroundCompaction looks at        *)
(* manual_compaction_ again: the range goes on behind this piece, or is    *)
(* done after an error.                                                    *)
ManualTurn_Done(m, ok) ==   \* mutant: one compaction is taken for all
  /\ done' = [done EXCEPT ![m] = TRUE]
  /\ pieces' = IF ok THEN [pieces EXCEPT ![m] = @ - 1] ELSE pieces
  /\ manual' = NoCaller
ManualTurn(m, ok) ==
  /\ done' = IF ok THEN done ELSE [done EXCEPT ![m] = TRUE]
  /\ pieces' = IF ok THEN [pieces EXCEPT ![m] = @ - 1] ELSE pieces
  /\ manual' = NoCaller

EndWork ==
  /\ bg.pc = "work"
  /\ \E ok \in {TRUE, ~IOErrors} :
       /\ bgError' = (bgError \/ ~ok)
       /\ \/ /\ ~bg.isManual
             /\ needs' = (needs /\ ~ok)
             /\ UNCHANGED <<manual, done, pieces, imm, made, crashed, shared>>
             /\ EndCall
          \/ /\ bg.isManual /\ manual # NoCaller
             /\ ManualTurn(manual, ok)
             /\ UNCHANGED <<work, crashed, shared>>
             /\ EndCall
          \/ /\ bg.isManual /\ manual = NoCaller   \* m->done of a nullptr
             /\ crashed' = TRUE
             /\ bg' = [bg EXCEPT !.pc = "crashed"]
             /\ UNCHANGED <<manual, caller, done, pieces, work, scheduled, pool>>

-----------------------------------------------------------------------------
(* Other threads: a full memtable, reads that ask for a compaction, and a  *)
(* failure to sync the log.                                                *)

NewWork ==
  /\ made < MaxOther /\ ~bgError
  /\ made' = made + 1
  /\ \/ ~imm /\ imm' = TRUE /\ UNCHANGED needs
     \/ ~needs /\ needs' = TRUE /\ UNCHANGED imm
  /\ UNCHANGED <<manual, caller, done, pieces, bg, bgError, crashed, shared>>
  /\ MaybeScheduleCompaction(scheduled, worker)

SyncError ==
  /\ IOErrors /\ ~bgError
  /\ bgError' = TRUE
  /\ caller' = SignalAll
  /\ UNCHANGED <<manual, done, pieces, work, scheduled, bg, crashed, pool>>

(* The thread itself, and other databases of the process.                  *)

(* This database does not move while the thread does.                      *)
Apart == UNCHANGED <<manual, caller, done, pieces, work, scheduled, bg,
                     bgError, crashed>>

ThreadMain ==
  /\ WaitForWork \/ TakeWork \/ WorkDone("other")
  /\ Apart /\ UNCHANGED shared

OtherSchedule ==
  /\ shared < MaxShared
  /\ shared' = shared + 1
  /\ Schedule("other", worker)
  /\ Apart

Background ==
  \/ ThreadMain \/ BackgroundNothing \/ BackgroundFlush \/ BackgroundMove
  \/ BackgroundManualDone \/ BackgroundWork \/ FlushDuringWork \/ EndWork
Caller(c) == Call(c) \/ Post(c) \/ Wait(c) \/ Return(c)

(* The end: every call has returned and the database is at rest, or has    *)
(* crashed.                                                                *)
Rest ==
  /\ crashed \/ \A c \in Callers : caller[c] = "return"
  /\ UNCHANGED manualVars

ManualNext ==
  \/ ~crashed /\ (\E c \in Callers : Caller(c))
  \/ ~crashed /\ (Background \/ NewWork \/ SyncError \/ OtherSchedule)
  \/ Rest

ManualSpec == ManualInit /\ [][ManualNext]_manualVars

(* The background thread goes on while it has work and the work of other   *)
(* databases ends, and a caller that has been woken gets the mutex again.  *)
FairManualSpec ==
  /\ ManualSpec
  /\ WF_manualVars(~crashed /\ Background)
  /\ \A c \in Callers : WF_manualVars(~crashed /\ Caller(c))

-----------------------------------------------------------------------------
(* Properties.                                                             *)

(* Every variable has its type; in particular no caller has more           *)
(* compactions made for it than its range has.                             *)
ManualTypeOK ==
  /\ manual \in Callers \cup {NoCaller}
  /\ caller \in [Callers -> {"start", "loop", "wait", "return"}]
  /\ done \in [Callers -> BOOLEAN]
  /\ pieces \in [Callers -> 0 .. MaxPieces]
  /\ imm \in BOOLEAN /\ needs \in BOOLEAN /\ made \in 0 .. MaxOther
  /\ scheduled \in BOOLEAN /\ bgError \in BOOLEAN /\ crashed \in BOOLEAN
  /\ bg \in [pc : {"idle", "work", "crashed"}, isManual : BOOLEAN]
  /\ queue \in Seq({"db", "other"}) /\ shared \in 0 .. MaxShared
  /\ worker \in {"none", "loop", "waiting", "db", "other"}

(* manual_compaction_ never points into the stack of a call that has       *)
(* returned, whatever error made the call give up; and the work of this    *)
(* database is with the Env exactly while                                  *)
(* background_compaction_scheduled_ says so, and at most once (the         *)
(* assertion of BackgroundCall).                                           *)
NoDanglingRequest ==
  LET mine == {i \in DOMAIN queue : queue[i] = "db"}
  IN /\ manual # NoCaller => caller[manual] # "return"
     /\ Cardinality(mine) + (IF worker = "db" THEN 1 ELSE 0)
          = (IF scheduled THEN 1 ELSE 0)

(* A call of TEST_CompactRange that returns, when no error has been        *)
(* recorded, has had its whole range compacted.                            *)
ReturnMeansDone ==
  \A c \in Callers : caller[c] = "return" => pieces[c] = 0 \/ bgError

(* "Cancel my manual compaction since we aborted early" must not take      *)
(* manual_compaction_ away from the background thread that is working on   *)
(* it: BackgroundCompaction dereferences it when the compaction is over.   *)
NoNullRequest == ~crashed

(* Every call returns, if only to report an error, as long as the process  *)
(* has not crashed: no wakeup of the background thread or of a caller is   *)
(* lost, although Schedule signals only when it finds the queue empty and  *)
(* other databases keep the thread busy.                                   *)
EveryCallReturns ==
  \A c \in Callers : caller[c] = "loop" ~> caller[c] = "return" \/ crashed
=============================================================================
