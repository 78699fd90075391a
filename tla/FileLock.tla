------------------------------ MODULE FileLock ------------------------------
(***************************************************************************)
(* PosixEnv::LockFile and UnlockFile (util/env_posix.cc) on the LOCK file  *)
(* of one database, called by threads of several processes: the table of   *)
(* locked files of each process and the lock the kernel keeps.             *)
(*                                                                         *)
(* Every system call and every use of the table is a step.  The lock of    *)
(* fcntl belongs to a process, not to a descriptor: a process is given it  *)
(* again if it has it, and loses it when it closes any descriptor of the   *)
(* file.                                                                   *)
(***************************************************************************)
EXTENDS Integers, FiniteSets

CONSTANTS
  Processes, Threads,   \* Threads are those of one process
  Nobody,
  MaxKills              \* bound: processes that are killed

ASSUME LockAssumption == Nobody \notin Processes /\ MaxKills \in Nat

VARIABLES
  lockedFiles,   \* the processes whose locked_files_ has the file
  kernelLock,    \* the process that has the lock of fcntl, or Nobody
  locker,        \* per process and thread: where it is
  leaked,        \* processes in which UnlockFile failed to unlock
  kills

lockVars == <<lockedFiles, kernelLock, locker, leaked, kills>>

LockInit ==
  /\ lockedFiles = {} /\ kernelLock = Nobody
  /\ locker = [p \in Processes |-> [t \in Threads |-> "idle"]]
  /\ leaked = {} /\ kills = 0

Moves(p, t, from, to) ==
  /\ locker[p][t] = from
  /\ locker' = [locker EXCEPT ![p][t] = to]

(* close(fd)                                                               *)
CloseDescriptor(p) == kernelLock' = IF kernelLock = p THEN Nobody ELSE kernelLock

-----------------------------------------------------------------------------
(* LockFile.                                                               *)

OpenLockFile(p, t) ==
  /\ Moves(p, t, "idle", "opened")
  /\ UNCHANGED <<lockedFiles, kernelLock, leaked, kills>>

TableInsert_Always(p, t) ==   \* mutant: the result of Insert is not tested
  /\ Moves(p, t, "opened", "inserted")
  /\ lockedFiles' = lockedFiles \cup {p}
  /\ UNCHANGED <<kernelLock, leaked, kills>>

TableInsert(p, t) ==
  /\ p \notin lockedFiles
  /\ Moves(p, t, "opened", "inserted")
  /\ lockedFiles' = lockedFiles \cup {p}
  /\ UNCHANGED <<kernelLock, leaked, kills>>

(* "already held by process"                                               *)
RefusedByTable(p, t) ==
  /\ p \in lockedFiles
  /\ Moves(p, t, "opened", "idle")
  /\ CloseDescriptor(p)
  /\ UNCHANGED <<lockedFiles, leaked, kills>>

LockSucceeds(p, t) ==
  /\ kernelLock \in {p, Nobody}
  /\ Moves(p, t, "inserted", "holds")
  /\ kernelLock' = p
  /\ UNCHANGED <<lockedFiles, leaked, kills>>

LockRefused(p, t) ==   \* fcntl fails, and close(fd)
  /\ kernelLock \notin {p, Nobody}
  /\ Moves(p, t, "inserted", "refused")
  /\ CloseDescriptor(p)
  /\ UNCHANGED <<lockedFiles, leaked, kills>>

RefusedRemove(p, t) ==
  /\ Moves(p, t, "refused", "idle")
  /\ lockedFiles' = lockedFiles \ {p}
  /\ UNCHANGED <<kernelLock, leaked, kills>>

-----------------------------------------------------------------------------
(* UnlockFile.                                                             *)

Unlock(p, t) ==
  /\ Moves(p, t, "holds", "unlocked")
  /\ CloseDescriptor(p)   \* F_UNLCK does the same to the lock
  /\ UNCHANGED <<lockedFiles, leaked, kills>>

(* The table keeps the file, and the descriptor stays open.                *)
UnlockFails(p, t) ==
  /\ Moves(p, t, "holds", "idle")
  /\ leaked' = leaked \cup {p}
  /\ UNCHANGED <<lockedFiles, kernelLock, kills>>

TableRemove(p, t) ==
  /\ Moves(p, t, "unlocked", "removed")
  /\ lockedFiles' = lockedFiles \ {p}
  /\ UNCHANGED <<kernelLock, leaked, kills>>

CloseUnlocked(p, t) ==
  /\ Moves(p, t, "removed", "idle")
  /\ CloseDescriptor(p)
  /\ UNCHANGED <<lockedFiles, leaked, kills>>

(* A process is killed, and may be started again.                          *)
Kill(p) ==
  /\ kills < MaxKills
  /\ kills' = kills + 1
  /\ locker' = [locker EXCEPT ![p] = [t \in Threads |-> "idle"]]
  /\ lockedFiles' = lockedFiles \ {p} /\ leaked' = leaked \ {p}
  /\ CloseDescriptor(p)

LockNext ==
  \/ \E p \in Processes, t \in Threads :
       \/ OpenLockFile(p, t)
       \/ TableInsert(p, t)
       \/ RefusedByTable(p, t)
       \/ LockSucceeds(p, t)
       \/ LockRefused(p, t)
       \/ RefusedRemove(p, t)
       \/ Unlock(p, t)
       \/ UnlockFails(p, t)
       \/ TableRemove(p, t)
       \/ CloseUnlocked(p, t)
  \/ \E p \in Processes : Kill(p)

LockSpec == LockInit /\ [][LockNext]_lockVars

-----------------------------------------------------------------------------
(* Properties.                                                             *)

At(p, where) == {t \in Threads : locker[p][t] \in where}

(* Env::LockFile is "used to prevent concurrent access to the same db by   *)
(* multiple processes": no two of them hold the lock at a time.            *)
LockExcludes ==
  \A p, q \in Processes :
    At(p, {"holds"}) # {} /\ At(q, {"holds"}) # {} => p = q

(* What the table is there for: in one process at most one thread has or   *)
(* is about to take the lock, whatever system calls fail in between; and   *)
(* the file is in the table only while there is such a thread, so that a   *)
(* database can be opened again after a call of LockFile was refused.      *)
LockTableExact ==
  \A p \in Processes :
    LET owners == At(p, {"inserted", "holds", "refused", "unlocked"})
    IN /\ Cardinality(owners) <= 1
       /\ p \in lockedFiles <=> owners # {} \/ p \in leaked
       /\ p \in leaked => owners = {}
=============================================================================
