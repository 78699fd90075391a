-------------------------- MODULE EnvironmentProofs --------------------------
(***************************************************************************)
(* Proofs about what PosixEnv gives a database: the lock of its LOCK file  *)
(* (FileLock), files that are written through a buffer and synced          *)
(* (WritableFile), and the background thread with its queue (WorkQueue),   *)
(* with which TEST_CompactRange shakes hands (ManualCompaction), for any   *)
(* number of callers, any ranges, and any work of other databases.         *)
(***************************************************************************)
EXTENDS FileLock, WritableFile, ManualCompaction, FiniteSetTheorems,
        SequenceTheorems, TLAPS

-----------------------------------------------------------------------------
(* The lock of a database.                                                 *)

LockPcs ==
  {"idle", "opened", "inserted", "holds", "refused", "unlocked", "removed"}
Owning == {"inserted", "holds", "refused", "unlocked"}
Owns(p, t) == locker[p][t] \in Owning

LockTypeOK ==
  /\ lockedFiles \subseteq Processes /\ leaked \subseteq Processes
  /\ kernelLock \in Processes \cup {Nobody}
  /\ locker \in [Processes -> [Threads -> LockPcs]]
  /\ kills \in 0 .. MaxKills

(* At most one thread of a process is between Insert and Remove.           *)
OneOwner ==
  \A p \in Processes : \A t, u \in Threads : Owns(p, t) /\ Owns(p, u) => t = u

(* The table has the file while there is such a thread, or for ever after  *)
(* an unlock that failed.                                                  *)
TableHasOwner ==
  \A p \in Processes :
    p \in lockedFiles <=> (\E t \in Threads : Owns(p, t)) \/ p \in leaked

(* No thread gets past Insert in a process that has leaked the entry.      *)
LeakedHasNoOwner ==
  \A p \in leaked : \A t \in Threads : ~Owns(p, t)

LockIInv == LockTypeOK /\ OneOwner /\ TableHasOwner /\ LeakedHasNoOwner

(* The invariant of FileLock holds before any thread calls LockFile.       *)
LEMMA LockInitInv == LockInit => LockIInv
BY LockAssumption
   DEF LockInit, LockIInv, LockTypeOK, LockPcs, OneOwner, TableHasOwner,
       LeakedHasNoOwner, Owns, Owning

(* A step of one thread, which changes nothing of the others and says of   *)
(* its process what it does to the table, keeps the invariant.             *)
LEMMA MoveKeepsLockInv ==
  ASSUME LockIInv, NEW p \in Processes, NEW t \in Threads,
         NEW from \in LockPcs, NEW to \in LockPcs, Moves(p, t, from, to),
         leaked' \in SUBSET Processes, lockedFiles' \in SUBSET Processes,
         kernelLock' \in Processes \cup {Nobody}, kills' = kills,
         \A q \in Processes \ {p} : /\ q \in leaked' <=> q \in leaked
                                    /\ q \in lockedFiles' <=> q \in lockedFiles,
         \/ to \in Owning /\ from \in Owning /\ leaked' = leaked
              /\ lockedFiles' = lockedFiles
         \/ to \in Owning /\ p \notin lockedFiles /\ leaked' = leaked
              /\ p \in lockedFiles'
         \/ to \notin Owning /\ from \in Owning /\ p \notin lockedFiles'
              /\ leaked' = leaked
         \/ to \notin Owning /\ from \in Owning /\ lockedFiles' = lockedFiles
              /\ p \in leaked'
         \/ to \notin Owning /\ from \notin Owning /\ leaked' = leaked
              /\ lockedFiles' = lockedFiles
  PROVE  LockIInv'
<1> USE DEF LockIInv
<1>1. /\ locker[p][t] = from /\ locker'[p][t] = to
      /\ \A q \in Processes : \A u \in Threads :
           <<q, u>> # <<p, t>> => locker'[q][u] = locker[q][u]
  BY DEF Moves, LockTypeOK
<1>2. LockTypeOK'
  BY DEF Moves, LockTypeOK
<1>3. \A q \in Processes \ {p} : \A u \in Threads : Owns(q, u)' <=> Owns(q, u)
  BY <1>1 DEF Owns
<1>4. \A u \in Threads \ {t} : Owns(p, u)' <=> Owns(p, u)
  BY <1>1 DEF Owns
<1>5. (Owns(p, t) <=> from \in Owning) /\ (Owns(p, t)' <=> to \in Owning)
  BY <1>1 DEF Owns
<1>6. OneOwner'
  BY <1>3, <1>4, <1>5 DEF OneOwner, TableHasOwner
<1>7. TableHasOwner'
  BY <1>3, <1>4, <1>5 DEF OneOwner, TableHasOwner, LeakedHasNoOwner
<1>8. LeakedHasNoOwner'
  BY <1>2, <1>3, <1>4, <1>5
     DEF OneOwner, TableHasOwner, LeakedHasNoOwner, LockTypeOK
<1> QED  BY <1>2, <1>6, <1>7, <1>8

(* Every step of a thread of LockFile or UnlockFile, and the death of a    *)
(* process, keeps the invariant.                                           *)
LEMMA LockNextInv == LockIInv /\ [LockNext]_lockVars => LockIInv'
<1> SUFFICES ASSUME LockIInv, [LockNext]_lockVars PROVE LockIInv'
  OBVIOUS
<1>t. LockTypeOK
  BY DEF LockIInv
<1>1. CASE UNCHANGED lockVars
  BY <1>1 DEF LockIInv, LockTypeOK, OneOwner, TableHasOwner, LeakedHasNoOwner,
              Owns, lockVars
<1>2. ASSUME NEW p \in Processes, NEW t \in Threads,
             OpenLockFile(p, t) \/ TableInsert(p, t) \/ RefusedByTable(p, t)
      PROVE  LockIInv'
  <2>1. CASE OpenLockFile(p, t)
    BY <1>t, <2>1, MoveKeepsLockInv
       DEF OpenLockFile, LockTypeOK, LockPcs, Owning
  <2>2. CASE TableInsert(p, t)
    BY <1>t, <2>2, MoveKeepsLockInv
       DEF TableInsert, LockTypeOK, LockPcs, Owning
  <2>3. CASE RefusedByTable(p, t)
    BY <1>t, <2>3, MoveKeepsLockInv
       DEF RefusedByTable, CloseDescriptor, LockTypeOK, LockPcs, Owning
  <2> QED  BY <1>2, <2>1, <2>2, <2>3
<1>3. ASSUME NEW p \in Processes, NEW t \in Threads,
             LockSucceeds(p, t) \/ LockRefused(p, t) \/ RefusedRemove(p, t)
      PROVE  LockIInv'
  <2>1. CASE LockSucceeds(p, t)
    BY <1>t, <2>1, MoveKeepsLockInv
       DEF LockSucceeds, LockTypeOK, LockPcs, Owning
  <2>2. CASE LockRefused(p, t)
    BY <1>t, <2>2, MoveKeepsLockInv
       DEF LockRefused, CloseDescriptor, LockTypeOK, LockPcs, Owning
  <2>3. CASE RefusedRemove(p, t)
    BY <1>t, <2>3, MoveKeepsLockInv
       DEF RefusedRemove, LockTypeOK, LockPcs, Owning
  <2> QED  BY <1>3, <2>1, <2>2, <2>3
<1>4. ASSUME NEW p \in Processes, NEW t \in Threads,
             \/ Unlock(p, t) \/ UnlockFails(p, t) \/ TableRemove(p, t)
             \/ CloseUnlocked(p, t)
      PROVE  LockIInv'
  <2>1. CASE Unlock(p, t)
    BY <1>t, <2>1, MoveKeepsLockInv
       DEF Unlock, CloseDescriptor, LockTypeOK, LockPcs, Owning
  <2>2. CASE UnlockFails(p, t)
    BY <1>t, <2>2, MoveKeepsLockInv
       DEF UnlockFails, LockTypeOK, LockPcs, Owning
  <2>3. CASE TableRemove(p, t)
    BY <1>t, <2>3, MoveKeepsLockInv
       DEF TableRemove, LockTypeOK, LockPcs, Owning
  <2>4. CASE CloseUnlocked(p, t)
    BY <1>t, <2>4, MoveKeepsLockInv
       DEF CloseUnlocked, CloseDescriptor, LockTypeOK, LockPcs, Owning
  <2> QED  BY <1>4, <2>1, <2>2, <2>3, <2>4
<1>5. ASSUME NEW p \in Processes, Kill(p)
      PROVE  LockIInv'
  <2>1. LockTypeOK'
    BY <1>t, <1>5, LockAssumption
       DEF Kill, CloseDescriptor, LockTypeOK, LockPcs
  <2>2. /\ \A u \in Threads : ~Owns(p, u)'
        /\ \A q \in Processes \ {p} : \A u \in Threads :
             Owns(q, u)' <=> Owns(q, u)
    BY <1>t, <1>5 DEF Kill, LockTypeOK, Owns, Owning
  <2>3. /\ p \notin lockedFiles' /\ p \notin leaked'
        /\ \A q \in Processes \ {p} : /\ q \in leaked' <=> q \in leaked
                                      /\ q \in lockedFiles' <=> q \in lockedFiles
    BY <1>5 DEF Kill
  <2> QED
    BY <2>1, <2>2, <2>3
       DEF LockIInv, OneOwner, TableHasOwner, LeakedHasNoOwner, LockTypeOK
<1> QED  BY <1>1, <1>2, <1>3, <1>4, <1>5 DEF LockNext

(* The invariant says what LockTableExact says of the owners of a process. *)
LEMMA LockInvExact == LockIInv => LockTableExact
<1> SUFFICES ASSUME LockIInv, NEW p \in Processes
             PROVE  LET owners == At(p, Owning)
                    IN /\ Cardinality(owners) <= 1
                       /\ p \in lockedFiles <=> owners # {} \/ p \in leaked
                       /\ p \in leaked => owners = {}
  BY DEF LockTableExact, Owning
<1> DEFINE owners == At(p, Owning)
<1>1. owners = {t \in Threads : Owns(p, t)}
  BY DEF At, Owns
<1>2. Cardinality(owners) <= 1
  <2>1. CASE owners = {}
    BY <2>1, FS_EmptySet
  <2>2. ASSUME NEW t \in owners PROVE Cardinality(owners) <= 1
    <3>1. owners = {t}
      BY <1>1 DEF LockIInv, OneOwner
    <3> QED  BY <3>1, FS_Singleton
  <2> QED  BY <2>1, <2>2
<1> QED  BY <1>1, <1>2 DEF LockIInv, TableHasOwner, LeakedHasNoOwner

(* In any number of processes with any number of threads, at most one      *)
(* thread of a process is between the insertion into locked_files_ and its *)
(* removal, and the table has the file exactly while one is (or after an   *)
(* unlock that failed).                                                    *)
THEOREM LockTableIsExact == LockSpec => []LockTableExact
<1>1. LockSpec => []LockIInv
  BY LockInitInv, LockNextInv, PTL DEF LockSpec
<1> QED  BY <1>1, LockInvExact, PTL

-----------------------------------------------------------------------------
(* A file that is written.                                                 *)

Ops == {"none", "closed", "crashed", "append", "flush", "close", "sync"}
Stages == {"none", "buffer", "direct", "dir", "fsync"}

FileTypeOK ==
  /\ isManifest \in BOOLEAN /\ intact \in BOOLEAN
  /\ buf \in Seq(Nat) /\ file \in Seq(Nat) /\ refers \in Seq(Nat)
  /\ base \in Seq(Nat) /\ acked \in Seq(Nat)
  /\ call \in [op : Ops, stage : Stages, todo : Seq(Nat), rest : Seq(Nat)]
  /\ appended \in Nat /\ start \in 0 .. appended /\ Len(refers) = appended
  /\ synced \in 0 .. Len(file)
  /\ dirSynced \in Nat /\ created \in Nat /\ dirSynced <= created
  /\ crashes \in Nat

(* What a call in progress still has to write, by how far it is.           *)
CallShape ==
  /\ call.stage = "none" =>
       /\ call \in {Idle, Closed, Crashed}
       /\ call # Idle => buf = <<>>
  /\ call.stage = "buffer" =>
       /\ call.op \in {"append", "flush", "close", "sync"}
       /\ call.op # "append" => call.rest = <<>>
  /\ call.stage = "direct" => call.op = "append" /\ call.rest = <<>> /\ buf = <<>>
  /\ call.stage = "dir" => call.op = "sync"
  /\ call.stage = "fsync" => call.op = "sync" /\ buf = <<>>

(* The file, and behind it what is pending.                                *)
All == file \o Pending

(* Bytes numbered from a, bytes up to a in order, and what they refer to.  *)
Numbered(t, a) == \A i \in 1 .. Len(t) : t[i] = a + i
InOrder(s, a) ==
  /\ \A i \in 1 .. Len(s) : s[i] \in 1 .. a
  /\ \A i, j \in 1 .. Len(s) : i < j => s[i] < s[j]
Refer(s, r, c) == \A i \in 1 .. Len(s) : r[s[i]] <= c

(* Each byte was given to Append, comes once, and in order.                *)
Ordered(s) == InOrder(s, appended)

(* A byte refers to no file behind the first n.                            *)
RefersWithin(s, n) == Refer(s, refers, n)

(* The files that a MANIFEST refers to exist, unless the machine crashed;  *)
(* from the moment that Sync has put the directory on the medium until it  *)
(* returns they are on the medium.                                         *)
ReferredExist ==
  isManifest =>
    /\ call # Crashed => RefersWithin(All, created)
    /\ call.op = "sync" /\ call.stage \in {"buffer", "fsync"} =>
         RefersWithin(All, dirSynced)

FileIInv ==
  /\ FileTypeOK
  /\ CallShape
  /\ Ordered(All)
  /\ intact /\ call # Crashed => All = Contents
  /\ Len(buf) <= BufferSize
  /\ ReferredExist
  /\ SyncedSurvives

-----------------------------------------------------------------------------
(* Sequences.                                                              *)

(* The first n elements of a sequence.                                     *)
LEMMA FirstFacts ==
  ASSUME NEW S, NEW s \in Seq(S), NEW n \in 0 .. Len(s)
  PROVE  /\ First(s, n) \in Seq(S) /\ Len(First(s, n)) = n
         /\ \A i \in 1 .. n : First(s, n)[i] = s[i]
<1>1. /\ 1 \in Int /\ n \in Int /\ Len(s) \in Nat
      /\ \A i \in 1 .. n : s[i] \in S
  BY LenProperties, ElementOfSeq
<1> QED  BY <1>1, SubSeqProperties DEF First

(* A sequence is its first n elements, and the others.                     *)
LEMMA SplitFacts ==
  ASSUME NEW S, NEW s \in Seq(S), NEW n \in 0 .. Len(s)
  PROVE  /\ First(s, n) \in Seq(S) /\ After(s, n) \in Seq(S)
         /\ Len(First(s, n)) = n /\ Len(After(s, n)) = Len(s) - n
         /\ First(s, n) \o After(s, n) = s
<1>0. Len(s) \in Nat
  BY LenProperties
<1>1. First(s, n) \in Seq(S) /\ Len(First(s, n)) = n
  BY FirstFacts
<1>2. After(s, n) \in Seq(S) /\ Len(After(s, n)) = Len(s) - n
  <2>1. n + 1 \in Int /\ Len(s) \in Int /\ \A i \in n + 1 .. Len(s) : s[i] \in S
    BY <1>0, ElementOfSeq
  <2> QED  BY <1>0, <2>1, SubSeqProperties DEF After
<1>3. First(s, n) \o After(s, n) = SubSeq(s, 1, Len(s))
  <2>1. 1 \in 1 .. Len(s) + 1 /\ n \in 1 - 1 .. Len(s) /\ Len(s) \in n .. Len(s)
    BY <1>0
  <2> QED  BY <2>1, ConcatAdjacentSubSeq DEF First, After
<1> QED  BY <1>1, <1>2, <1>3, SubSeqFull

(* Pieces of a file can be put together in any order.                      *)
LEMMA ConcatAssoc ==
  ASSUME NEW s \in Seq(Nat), NEW t \in Seq(Nat), NEW u \in Seq(Nat)
  PROVE  (s \o t) \o u = s \o (t \o u)
BY SMTT(20)

(* Bytes that are numbered one after the other.                            *)
LEMMA IdsFacts ==
  ASSUME NEW a \in Nat, NEW b \in Nat, a <= b
  PROVE  /\ Ids(a, b) \in Seq(Nat) /\ Len(Ids(a, b)) = b - a
         /\ \A i \in 1 .. b - a : Ids(a, b)[i] = a + i
<1>1. b - a \in Nat /\ \A i \in 1 .. b - a : a + i \in Nat
  OBVIOUS
<1>2. [i \in 1 .. b - a |-> a + i] \in Seq(Nat)
  BY <1>1
<1> QED  BY <1>1, <1>2 DEF Ids

(* The bytes of a Slice of n, and of an empty one.                         *)
LEMMA SliceFacts ==
  ASSUME NEW a \in Nat, NEW n \in Nat
  PROVE  /\ Ids(a, a + n) \in Seq(Nat) /\ Len(Ids(a, a + n)) = n
         /\ \A i \in 1 .. n : Ids(a, a + n)[i] = a + i
         /\ Ids(a, a) = <<>>
<1>1. a + n \in Nat /\ a <= a + n /\ (a + n) - a = n /\ a <= a /\ a - a = 0
  OBVIOUS
<1>2. /\ Ids(a, a + n) \in Seq(Nat) /\ Len(Ids(a, a + n)) = (a + n) - a
      /\ \A i \in 1 .. (a + n) - a : Ids(a, a + n)[i] = a + i
  BY <1>1, IdsFacts
<1>3. Ids(a, a) \in Seq(Nat) /\ Len(Ids(a, a)) = a - a
  BY <1>1, IdsFacts
<1>4. Ids(a, a) = <<>>
  BY <1>1, <1>3, EmptySeq, SeqEqual
<1> QED  BY <1>1, <1>2, <1>4

(* The elements of two pieces put together.                                *)
LEMMA ConcatElements ==
  ASSUME NEW s \in Seq(Nat), NEW t \in Seq(Nat)
  PROVE  /\ s \o t \in Seq(Nat) /\ Len(s \o t) = Len(s) + Len(t)
         /\ Len(s) \in Nat /\ Len(t) \in Nat
         /\ \A i \in 1 .. Len(s) : (s \o t)[i] = s[i]
         /\ \A i \in 1 .. Len(t) : (s \o t)[Len(s) + i] = t[i]
         /\ \A i \in 1 .. Len(s) + Len(t) :
              i \in 1 .. Len(s) \/ \E j \in 1 .. Len(t) : i = Len(s) + j
<1> DEFINE u == s \o t
<1>0. Len(s) \in Nat /\ Len(t) \in Nat
  BY LenProperties
<1>1. /\ u \in Seq(Nat) /\ Len(u) = Len(s) + Len(t)
      /\ \A i \in 1 .. Len(s) + Len(t) :
           u[i] = IF i <= Len(s) THEN s[i] ELSE t[i - Len(s)]
  BY ConcatProperties
<1> HIDE DEF u
<1>2. \A i \in 1 .. Len(s) : u[i] = s[i]
  <2>1. \A i \in 1 .. Len(s) : i \in 1 .. Len(s) + Len(t) /\ i <= Len(s)
    BY <1>0
  <2> QED  BY <1>1, <2>1
<1>3. \A i \in 1 .. Len(t) : u[Len(s) + i] = t[i]
  <2>1. \A i \in 1 .. Len(t) :
          /\ Len(s) + i \in 1 .. Len(s) + Len(t) /\ ~(Len(s) + i <= Len(s))
          /\ (Len(s) + i) - Len(s) = i
    BY <1>0
  <2> QED  BY <1>1, <2>1
<1>4. \A i \in 1 .. Len(s) + Len(t) :
        i \in 1 .. Len(s) \/ \E j \in 1 .. Len(t) : i = Len(s) + j
  <2> SUFFICES ASSUME NEW i \in 1 .. Len(s) + Len(t), i \notin 1 .. Len(s)
               PROVE  \E j \in 1 .. Len(t) : i = Len(s) + j
    OBVIOUS
  <2>1. i - Len(s) \in 1 .. Len(t) /\ i = Len(s) + (i - Len(s))
    BY <1>0
  <2> QED  BY <2>1
<1> QED  BY <1>0, <1>1, <1>2, <1>3, <1>4 DEF u

(* u is s and behind it t, by its elements.                                *)
Joined(u, s, t) ==
  /\ Len(u) = Len(s) + Len(t) /\ Len(s) \in Nat /\ Len(t) \in Nat
  /\ \A i \in 1 .. Len(s) : u[i] = s[i]
  /\ \A i \in 1 .. Len(t) : u[Len(s) + i] = t[i]
  /\ \A i \in 1 .. Len(u) :
       i \in 1 .. Len(s) \/ \E j \in 1 .. Len(t) : i = Len(s) + j

(* What \o does.                                                           *)
LEMMA ConcatJoined ==
  \A s, t \in Seq(Nat) : s \o t \in Seq(Nat) /\ Joined(s \o t, s, t)
BY ConcatElements DEF Joined

(* Bytes in order stay so when those of the next Slice come behind them.   *)
LEMMA OrderedConcat ==
  ASSUME NEW s, NEW t, NEW u, Joined(u, s, t), NEW a \in Nat,
         Numbered(t, a), InOrder(s, a)
  PROVE  InOrder(u, a + Len(t))
<1>0. Len(u) = Len(s) + Len(t) /\ Len(s) \in Nat /\ Len(t) \in Nat
  BY DEF Joined
<1>1. /\ \A i \in 1 .. Len(s) : u[i] = s[i] /\ u[i] \in 1 .. a
      /\ \A i, j \in 1 .. Len(s) : i < j => s[i] < s[j]
  BY DEF Joined, InOrder
<1>2. \A i \in 1 .. Len(t) : u[Len(s) + i] = a + i
  BY DEF Joined, Numbered
<1>3. \A i \in 1 .. Len(u) :
        i \in 1 .. Len(s) \/ \E j \in 1 .. Len(t) : i = Len(s) + j
  BY DEF Joined
<1>4. ASSUME NEW i \in 1 .. Len(u) PROVE u[i] \in 1 .. a + Len(t)
  <2>1. CASE i \in 1 .. Len(s)
    BY <1>0, <1>1, <2>1
  <2>2. ASSUME NEW k \in 1 .. Len(t), i = Len(s) + k
        PROVE  u[i] \in 1 .. a + Len(t)
    BY <1>0, <1>2, <2>2
  <2> QED  BY <1>3, <2>1, <2>2
<1>5. ASSUME NEW i \in 1 .. Len(u), NEW j \in 1 .. Len(u), i < j
      PROVE  u[i] < u[j]
  <2>1. CASE j \in 1 .. Len(s)
    <3>1. i \in 1 .. Len(s)
      BY <1>0, <1>5, <2>1
    <3> QED  BY <1>1, <1>5, <2>1, <3>1
  <2>2. ASSUME i \in 1 .. Len(s), NEW m \in 1 .. Len(t), j = Len(s) + m
        PROVE  u[i] < u[j]
    BY <1>0, <1>1, <1>2, <2>2
  <2>3. ASSUME NEW k \in 1 .. Len(t), i = Len(s) + k,
               NEW m \in 1 .. Len(t), j = Len(s) + m
        PROVE  u[i] < u[j]
    BY <1>0, <1>2, <1>5, <2>3
  <2> QED  BY <1>3, <2>1, <2>2, <2>3
<1> QED  BY <1>4, <1>5 DEF InOrder

(* q is r with n more entries c.                                           *)
Grown(q, r, n, c) ==
  /\ Len(q) = Len(r) + n
  /\ \A x \in 1 .. Len(r) : q[x] = r[x]
  /\ \A i \in 1 .. n : q[Len(r) + i] = c

(* The bytes of the next Slice refer to the files created so far.          *)
LEMMA RefersConcat ==
  ASSUME NEW s, NEW t, NEW u, Joined(u, s, t), NEW r, Len(r) \in Nat,
         Numbered(t, Len(r)), InOrder(s, Len(r)),
         NEW c \in Nat, NEW q, Grown(q, r, Len(t), c), Refer(s, r, c)
  PROVE  Refer(u, q, c)
<1>1. /\ \A i \in 1 .. Len(s) : u[i] = s[i] /\ q[u[i]] = r[s[i]]
      /\ \A i \in 1 .. Len(t) : q[u[Len(s) + i]] = c
  BY SMTT(20) DEF Joined, Numbered, InOrder, Grown
<1>2. \A i \in 1 .. Len(u) :
        i \in 1 .. Len(s) \/ \E j \in 1 .. Len(t) : i = Len(s) + j
  BY DEF Joined
<1>3. ASSUME NEW i \in 1 .. Len(u) PROVE q[u[i]] <= c
  <2>1. CASE i \in 1 .. Len(s)
    BY <1>1, <2>1 DEF Refer
  <2>2. ASSUME NEW k \in 1 .. Len(t), i = Len(s) + k PROVE q[u[i]] <= c
    <3>1. q[u[i]] = c
      BY <1>1, <2>2
    <3> QED  BY <3>1
  <2> QED  BY <1>2, <2>1, <2>2
<1> QED  BY <1>3 DEF Refer

(* One more piece.                                                         *)
LEMMA IdsConcat ==
  ASSUME NEW a \in Nat, NEW b \in Nat, NEW c \in Nat, a <= b, b <= c
  PROVE  Ids(a, b) \o Ids(b, c) = Ids(a, c)
<1>1. /\ Ids(a, b) \in Seq(Nat) /\ Len(Ids(a, b)) = b - a
      /\ \A i \in 1 .. b - a : Ids(a, b)[i] = a + i
  BY IdsFacts
<1>2. /\ Ids(b, c) \in Seq(Nat) /\ Len(Ids(b, c)) = c - b
      /\ \A i \in 1 .. c - b : Ids(b, c)[i] = b + i
  BY IdsFacts
<1>3. a <= c
  OBVIOUS
<1>4. /\ Ids(a, c) \in Seq(Nat) /\ Len(Ids(a, c)) = c - a
      /\ \A i \in 1 .. c - a : Ids(a, c)[i] = a + i
  BY <1>3, IdsFacts
<1> DEFINE s == Ids(a, b) \o Ids(b, c)
<1>5. /\ s \in Seq(Nat) /\ Len(s) = Len(Ids(a, b)) + Len(Ids(b, c))
      /\ \A i \in 1 .. Len(Ids(a, b)) + Len(Ids(b, c)) :
           s[i] = IF i <= Len(Ids(a, b)) THEN Ids(a, b)[i]
                  ELSE Ids(b, c)[i - Len(Ids(a, b))]
  BY <1>1, <1>2, ConcatProperties
<1>6. (b - a) + (c - b) = c - a
  OBVIOUS
<1>7. Len(s) = c - a /\ \A i \in 1 .. c - a :
           s[i] = IF i <= b - a THEN Ids(a, b)[i] ELSE Ids(b, c)[i - (b - a)]
  BY <1>1, <1>2, <1>5, <1>6
<1>8. \A i \in 1 .. c - a : s[i] = Ids(a, c)[i]
  <2> SUFFICES ASSUME NEW i \in 1 .. c - a PROVE s[i] = Ids(a, c)[i]
    OBVIOUS
  <2> HIDE DEF s
  <2>1. CASE i <= b - a
    BY <1>1, <1>4, <1>7, <2>1
  <2>2. CASE ~(i <= b - a)
    <3>1. i - (b - a) \in 1 .. c - b /\ b + (i - (b - a)) = a + i
      BY <2>2
    <3> QED  BY <1>2, <1>4, <1>7, <2>2, <3>1
  <2> QED  BY <2>1, <2>2
<1> HIDE DEF s
<1>9. s = Ids(a, c)
  BY <1>4, <1>5, <1>7, <1>8, SeqEqual
<1> QED  BY <1>9 DEF s

(* A prefix, by its elements.                                              *)
LEMMA PrefixFacts ==
  ASSUME NEW s \in Seq(Nat), NEW t \in Seq(Nat)
  PROVE  Prefix(s, t) <=>
           Len(s) <= Len(t) /\ \A i \in 1 .. Len(s) : t[i] = s[i]
<1>0. Len(s) \in Nat /\ Len(t) \in Nat
  BY LenProperties
<1>1. ASSUME Len(s) <= Len(t)
      PROVE  First(t, Len(s)) = s <=> \A i \in 1 .. Len(s) : t[i] = s[i]
  <2>1. Len(s) \in 0 .. Len(t)
    BY <1>0, <1>1
  <2>2. /\ First(t, Len(s)) \in Seq(Nat) /\ Len(First(t, Len(s))) = Len(s)
        /\ \A i \in 1 .. Len(s) : First(t, Len(s))[i] = t[i]
    BY <2>1, FirstFacts
  <2>3. ASSUME \A i \in 1 .. Len(s) : t[i] = s[i]
        PROVE  First(t, Len(s)) = s
    BY <2>2, <2>3, SeqEqual
  <2> QED  BY <2>2, <2>3
<1> QED  BY <1>1 DEF Prefix

(* A sequence is a prefix of itself.                                       *)
LEMMA PrefixSelf == \A s \in Seq(Nat) : Prefix(s, s)
<1> SUFFICES ASSUME NEW s \in Seq(Nat) PROVE Prefix(s, s)
  OBVIOUS
<1>1. Len(s) \in Nat
  BY LenProperties
<1> QED  BY <1>1, PrefixFacts

(* All is a sequence that begins with the file.                            *)
LEMMA AllFacts ==
  ASSUME FileTypeOK
  PROVE  /\ Pending \in Seq(Nat) /\ All \in Seq(Nat)
         /\ Len(file) \in Nat /\ Len(file) <= Len(All) /\ Len(All) \in Nat
         /\ \A i \in 1 .. Len(file) : All[i] = file[i]
<1>1. /\ file \in Seq(Nat) /\ buf \in Seq(Nat)
      /\ call.todo \in Seq(Nat) /\ call.rest \in Seq(Nat)
  BY DEF FileTypeOK
<1>2. call.todo \o call.rest \in Seq(Nat)
  BY <1>1, ConcatProperties
<1>3. Pending \in Seq(Nat)
  BY <1>1, <1>2 DEF Pending
<1>4. /\ file \o Pending \in Seq(Nat)
      /\ Len(file \o Pending) = Len(file) + Len(Pending)
      /\ \A i \in 1 .. Len(file) + Len(Pending) :
           (file \o Pending)[i] = IF i <= Len(file) THEN file[i]
                                  ELSE Pending[i - Len(file)]
  BY <1>1, <1>3, ConcatProperties
<1>5. Len(file) \in Nat /\ Len(Pending) \in Nat
  BY <1>1, <1>3, LenProperties
<1> QED  BY <1>3, <1>4, <1>5 DEF All

(* A step that neither adds nor drops a byte, and only moves bytes of the  *)
(* one thread's call towards the file, keeps the invariant.                *)
LEMMA SameBytes ==
  ASSUME FileIInv, FileTypeOK', CallShape', All' = All,
         UNCHANGED <<isManifest, appended, refers, base, start, intact, acked,
                     synced>>,
         call # Crashed, call' # Crashed, created <= created',
         dirSynced <= dirSynced', Len(buf') <= BufferSize,
         Len(file) <= Len(file'),
         \A i \in 1 .. Len(file) : file'[i] = file[i],
         isManifest /\ call'.op = "sync" /\ call'.stage \in {"buffer", "fsync"} =>
           \/ call.op = "sync" /\ call.stage \in {"buffer", "fsync"}
           \/ dirSynced' = created
  PROVE  FileIInv'
<1>1. Ordered(All)'
  BY DEF Ordered, InOrder, FileIInv
<1>2. (intact /\ call # Crashed => All = Contents)'
  BY DEF FileIInv, Contents
<1>t. /\ All \in Seq(Nat) /\ Len(All) \in Nat
      /\ \A i \in 1 .. Len(All) : All[i] \in 1 .. Len(refers)
      /\ \A i \in 1 .. Len(All) : refers[All[i]] \in Nat
      /\ dirSynced \in Nat /\ dirSynced' \in Nat
      /\ created \in Nat /\ created' \in Nat
  <2>1. All \in Seq(Nat) /\ Len(All) \in Nat
    BY AllFacts DEF FileIInv
  <2>2. \A i \in 1 .. Len(All) : All[i] \in 1 .. Len(refers)
    BY DEF FileIInv, Ordered, InOrder, FileTypeOK
  <2>3. \A i \in 1 .. Len(All) : refers[All[i]] \in Nat
    BY <2>2, ElementOfSeq DEF FileIInv, FileTypeOK
  <2> QED  BY <2>1, <2>2, <2>3 DEF FileIInv, FileTypeOK
<1>3. ReferredExist'
  <2>0. ASSUME NEW m \in Nat, NEW n \in Nat, m <= n, RefersWithin(All, m)
        PROVE  RefersWithin(All, n)
    <3>1. \A i \in 1 .. Len(All) : refers[All[i]] <= m
      BY <2>0 DEF RefersWithin, Refer
    <3>2. \A i \in 1 .. Len(All) : refers[All[i]] \in Nat
      BY <1>t
    <3>3. \A i \in 1 .. Len(All) : refers[All[i]] <= n
      BY <2>0, <3>1, <3>2
    <3> QED  BY <3>3 DEF RefersWithin, Refer
  <2>1. /\ RefersWithin(All, dirSynced) => RefersWithin(All, dirSynced')
        /\ RefersWithin(All, created) => RefersWithin(All, created')
    BY <1>t, <2>0
  <2>2. /\ RefersWithin(All, created)' <=> RefersWithin(All, created')
        /\ RefersWithin(All, dirSynced)' <=> RefersWithin(All, dirSynced')
    BY DEF RefersWithin, Refer
  <2> QED  BY <2>1, <2>2 DEF FileIInv, ReferredExist
<1>4. SyncedSurvives'
  <2>1. Len(acked) <= synced /\ synced <= Len(file) /\ synced \in Nat
        /\ Len(acked) \in Nat /\ Len(file) \in Nat /\ Len(file') \in Nat
    BY LenProperties DEF FileIInv, SyncedSurvives, FileTypeOK
  <2>2. Prefix(acked, file')
    <3>1. \A i \in 1 .. Len(acked) : file[i] = acked[i]
      BY PrefixFacts DEF FileIInv, SyncedSurvives, FileTypeOK
    <3>2. Len(acked) <= Len(file') /\ \A i \in 1 .. Len(acked) : file'[i] = acked[i]
      BY <2>1, <3>1
    <3>3. acked \in Seq(Nat) /\ file' \in Seq(Nat)
      BY DEF FileIInv, FileTypeOK
    <3> QED  BY <3>2, <3>3, PrefixFacts
  <2>3. isManifest => \A i \in 1 .. synced : refers[file'[i]] <= dirSynced'
    <3> SUFFICES ASSUME isManifest, NEW i \in 1 .. synced
                 PROVE  refers[file'[i]] <= dirSynced'
      OBVIOUS
    <3>0. i \in 1 .. Len(file)
      BY <2>1
    <3>1. file'[i] = file[i] /\ file[i] = All[i] /\ i \in 1 .. Len(All)
      BY <1>t, <2>1, <3>0, AllFacts DEF FileIInv
    <3>2. refers[file[i]] <= dirSynced
      BY DEF FileIInv, SyncedSurvives
    <3> QED  BY <1>t, <3>1, <3>2, SMTT(20)
  <2>4. /\ (Prefix(acked, file))' <=> Prefix(acked, file')
        /\ Len(acked') = Len(acked) /\ synced' = synced
    BY DEF Prefix, First
  <2> QED  BY <2>1, <2>2, <2>3, <2>4 DEF SyncedSurvives
<1> QED  BY <1>1, <1>2, <1>3, <1>4 DEF FileIInv

(* A step that drops bytes behind a part of the file that is at least as   *)
(* long as what was synced, and is over, keeps the invariant.              *)
LEMMA BytesDropped ==
  ASSUME FileIInv, FileTypeOK', CallShape', buf' = <<>>,
         UNCHANGED <<isManifest, appended, refers, base, start, acked, synced,
                     dirSynced>>,
         call' \in {Idle, Closed, Crashed},
         Len(file') <= Len(file), synced <= Len(file'),
         \A i \in 1 .. Len(file') : file'[i] = file[i],
         call' = Crashed \/ (intact' = FALSE /\ created' = created),
         call # Crashed
  PROVE  FileIInv'
<1>0. /\ Len(file) \in Nat /\ file \in Seq(Nat)
      /\ file' \in Seq(Nat) /\ Len(file') \in Nat
  BY LenProperties DEF FileIInv, FileTypeOK
<1>1. call'.stage = "none" /\ call'.op # "sync"
  BY DEF Idle, Closed, Crashed
<1>2. All' = file'
  <2>1. Pending' = <<>>
    BY <1>1 DEF Pending
  <2> QED  BY <1>0, <2>1, ConcatEmptySeq DEF All
<1>3. /\ Len(All) \in Nat /\ Len(file') <= Len(All)
      /\ \A i \in 1 .. Len(file') : file'[i] = All[i]
  BY <1>0, AllFacts DEF FileIInv
<1>4. Ordered(All)'
  <2>1. Ordered(All)
    BY DEF FileIInv
  <2>2. \A i \in 1 .. Len(file') : i \in 1 .. Len(All)
    BY <1>0, <1>3
  <2>3. /\ \A i \in 1 .. Len(file') : file'[i] \in 1 .. appended
        /\ \A i, j \in 1 .. Len(file') : i < j => file'[i] < file'[j]
    BY <1>3, <2>1, <2>2 DEF Ordered, InOrder
  <2> QED  BY <1>2, <2>3 DEF Ordered, InOrder
<1>5. (intact /\ call # Crashed => All = Contents)'
  BY DEF FileIInv
<1>6. ReferredExist'
  <2>1. ASSUME isManifest, call' # Crashed PROVE RefersWithin(All, created)'
    <3>1. RefersWithin(All, created)
      BY <2>1 DEF FileIInv, ReferredExist
    <3>2. \A i \in 1 .. Len(All) : refers[All[i]] <= created
      BY <3>1 DEF RefersWithin, Refer
    <3>3. \A i \in 1 .. Len(file') : i \in 1 .. Len(All) /\ file'[i] = All[i]
      BY <1>0, <1>3
    <3>4. \A i \in 1 .. Len(file') : refers[file'[i]] <= created
      BY <3>2, <3>3
    <3>5. refers' = refers /\ created' = created
      BY <2>1
    <3> QED  BY <1>2, <3>4, <3>5 DEF RefersWithin, Refer
  <2> QED  BY <1>1, <2>1 DEF ReferredExist
<1>7. SyncedSurvives'
  <2>1. Len(acked) <= synced /\ synced <= Len(file) /\ synced \in Nat
        /\ Len(acked) \in Nat /\ acked \in Seq(Nat)
    BY LenProperties DEF FileIInv, SyncedSurvives, FileTypeOK
  <2>2. Prefix(acked, file')
    <3>1. \A i \in 1 .. Len(acked) : file[i] = acked[i]
      BY PrefixFacts DEF FileIInv, SyncedSurvives, FileTypeOK
    <3>2. Len(acked) <= Len(file') /\ \A i \in 1 .. Len(acked) : file'[i] = acked[i]
      <4>1. Len(acked) <= Len(file')
        BY <1>0, <2>1
      <4>2. \A i \in 1 .. Len(acked) : i \in 1 .. Len(file')
        BY <1>0, <2>1, <4>1
      <4> QED  BY <3>1, <4>1, <4>2
    <3>3. acked \in Seq(Nat) /\ file' \in Seq(Nat)
      BY DEF FileIInv, FileTypeOK
    <3> QED  BY <3>2, <3>3, PrefixFacts
  <2>3. isManifest => \A i \in 1 .. synced : refers[file'[i]] <= dirSynced
    <3>1. \A i \in 1 .. synced : i \in 1 .. Len(file')
      BY <1>0, <2>1
    <3> QED  BY <3>1 DEF FileIInv, SyncedSurvives
  <2>4. (Prefix(acked, file))' <=> Prefix(acked, file')
    BY DEF Prefix, First
  <2> QED  BY <2>1, <2>2, <2>3, <2>4 DEF SyncedSurvives
<1>8. Len(buf') <= BufferSize
  BY FileAssumption
<1> QED  BY <1>4, <1>5, <1>6, <1>7, <1>8 DEF FileIInv

-----------------------------------------------------------------------------
(* The steps of the one thread that uses the file.                         *)

(* A file that has just been created.                                      *)
LEMMA FileInitInv == FileInit => FileIInv
<1> SUFFICES ASSUME FileInit PROVE FileIInv
  OBVIOUS
<1>0. <<>> \in Seq(Nat) /\ Len(<<>>) = 0 /\ <<>> \o <<>> = <<>>
  BY EmptySeq, ConcatEmptySeq
<1>1. FileTypeOK
  BY <1>0 DEF FileInit, FileTypeOK, Idle, Ops, Stages
<1>2. CallShape
  BY DEF FileInit, CallShape, Idle
<1>3. All = <<>>
  BY <1>0 DEF All, Pending, FileInit, Idle
<1>4. Contents = <<>>
  <2>1. Ids(0, 0) = <<>>
    BY SliceFacts
  <2> QED  BY <1>0, <2>1 DEF Contents, FileInit
<1>5. SyncedSurvives
  <2>1. Prefix(<<>>, <<>>)
    BY <1>0, PrefixSelf
  <2>2. acked = <<>> /\ file = <<>> /\ synced = 0
    BY DEF FileInit
  <2> QED  BY <1>0, <2>1, <2>2 DEF SyncedSurvives
<1> QED
  BY <1>0, <1>1, <1>2, <1>3, <1>4, <1>5, FileAssumption
     DEF FileIInv, Ordered, InOrder, ReferredExist, RefersWithin, Refer, FileInit

(* Flush, Close and Sync begin, and the directory of a MANIFEST is synced: *)
(* nothing is written yet.                                                 *)
LEMMA CallBegins ==
  ASSUME FileIInv, Flush \/ Close \/ Sync \/ SyncDirIfManifest \/ SyncDirFails
  PROVE  FileIInv'
<1>0. /\ FileTypeOK /\ CallShape /\ buf \in Seq(Nat) /\ buf \o <<>> = buf
      /\ <<>> \in Seq(Nat)
  BY ConcatEmptySeq, EmptySeq DEF FileIInv, FileTypeOK
<1>u. UNCHANGED <<bytesVars, openVars, created, intact, acked, crashes>>
  BY DEF Flush, Close, Sync, SyncDirIfManifest, SyncDirFails, dirVars
<1>d. dirSynced' \in {dirSynced, created}
  BY DEF Flush, Close, Sync, SyncDirIfManifest, SyncDirFails, dirVars
<1>1. /\ call.stage \in {"none", "dir"} /\ call # Crashed
      /\ call.stage = "none" => call = Idle
  BY DEF Flush, Close, Sync, SyncDirIfManifest, SyncDirFails, Idle, Crashed
<1>2. \/ call' = Idle
      \/ call' = [op |-> "flush", stage |-> "buffer", todo |-> buf, rest |-> <<>>]
      \/ call' = [op |-> "close", stage |-> "buffer", todo |-> buf, rest |-> <<>>]
      \/ /\ call' = [op |-> "sync", stage |-> "buffer", todo |-> buf, rest |-> <<>>]
         /\ isManifest => dirSynced' = created
      \/ call' = [op |-> "sync", stage |-> "dir", todo |-> <<>>, rest |-> <<>>]
  BY DEF Flush, Close, Sync, SyncDirIfManifest, SyncDirFails, SyncStart,
         FlushBuffer, Idle
<1>3. FileTypeOK'
  <2>1. dirSynced' \in Nat /\ dirSynced' <= created
    BY <1>0, <1>d DEF FileTypeOK
  <2>2. call' \in [op : Ops, stage : Stages, todo : Seq(Nat), rest : Seq(Nat)]
    <3>1. \A o \in Ops, g \in Stages, t \in Seq(Nat) :
            [op |-> o, stage |-> g, todo |-> t, rest |-> <<>>]
              \in [op : Ops, stage : Stages, todo : Seq(Nat), rest : Seq(Nat)]
      BY <1>0
    <3>2. /\ {"none", "flush", "close", "sync"} \subseteq Ops
          /\ {"none", "buffer", "dir"} \subseteq Stages
      BY DEF Ops, Stages
    <3> QED  BY <1>0, <1>2, <3>1, <3>2 DEF Idle
  <2> QED  BY <1>0, <1>u, <2>1, <2>2 DEF FileTypeOK, bytesVars, openVars
<1>4. CallShape' /\ call' # Crashed
  BY <1>2 DEF CallShape, Idle, Crashed
<1>5. All' = All
  <2>1. Pending = buf
    BY <1>1 DEF Pending
  <2>2. Pending' = buf
    <3>1. buf' = buf
      BY <1>u DEF bytesVars
    <3>2. CASE call'.stage \in {"none", "dir"}
      BY <3>1, <3>2 DEF Pending
    <3>3. CASE call'.stage = "buffer"
      <4>1. call'.todo = buf /\ call'.rest = <<>>
        BY <1>2, <3>3 DEF Idle
      <4> QED  BY <1>0, <3>3, <4>1 DEF Pending
    <3> QED  BY <1>2, <3>2, <3>3 DEF Idle
  <2> QED  BY <1>u, <2>1, <2>2 DEF All, bytesVars
<1>6. isManifest /\ call'.op = "sync" /\ call'.stage \in {"buffer", "fsync"} =>
           dirSynced' = created
  BY <1>2 DEF Idle
<1>7. /\ Len(buf') <= BufferSize /\ Len(file) <= Len(file')
      /\ \A i \in 1 .. Len(file) : file'[i] = file[i]
      /\ dirSynced <= dirSynced' /\ created <= created'
  BY <1>0, <1>u, <1>d DEF FileIInv, FileTypeOK, bytesVars
<1> QED
  BY <1>1, <1>u, <1>3, <1>4, <1>5, <1>6, <1>7, SameBytes
     DEF bytesVars, openVars

(* A write moves the first bytes that are pending to the file.             *)
LEMMA WriteKeeps ==
  ASSUME FileIInv, NEW w \in 1 .. MaxBytes, WriteUnbuffered(w)
  PROVE  FileIInv'
<1>0. /\ FileTypeOK /\ CallShape /\ file \in Seq(Nat)
      /\ call.todo \in Seq(Nat) /\ call.rest \in Seq(Nat)
      /\ Len(call.todo) \in Nat /\ w \in 0 .. Len(call.todo)
      /\ call \in [op : Ops, stage : Stages, todo : Seq(Nat), rest : Seq(Nat)]
  BY LenProperties DEF FileIInv, FileTypeOK, WriteUnbuffered
<1> DEFINE a == First(call.todo, w)
           b == After(call.todo, w)
<1>1. a \in Seq(Nat) /\ b \in Seq(Nat) /\ a \o b = call.todo
  BY <1>0, SplitFacts
<1>2. /\ file' = file \o a /\ call' = [call EXCEPT !.todo = b]
      /\ call.stage \in {"buffer", "direct"}
      /\ UNCHANGED <<buf, synced, appended, refers, openVars, dirVars, intact,
                     acked, crashes>>
  BY DEF WriteUnbuffered
<1> HIDE DEF a, b
<1>3. /\ file' \in Seq(Nat) /\ Len(file') = Len(file) + Len(a)
      /\ \A i \in 1 .. Len(file) + Len(a) :
           file'[i] = IF i <= Len(file) THEN file[i] ELSE a[i - Len(file)]
      /\ Len(file) \in Nat /\ Len(a) \in Nat
  BY <1>0, <1>1, <1>2, ConcatProperties, LenProperties
<1>4. /\ call'.op = call.op /\ call'.stage = call.stage
      /\ call'.todo = b /\ call'.rest = call.rest
  BY <1>0, <1>2
<1>5. FileTypeOK'
  <2>1. synced' \in 0 .. Len(file')
    BY <1>0, <1>2, <1>3, SMTT(20) DEF FileTypeOK
  <2>2. call' \in [op : Ops, stage : Stages, todo : Seq(Nat), rest : Seq(Nat)]
    BY <1>0, <1>1, <1>2
  <2>3. /\ file' \in Seq(Nat)
        /\ UNCHANGED <<buf, appended, refers, isManifest, base, start,
                       created, dirSynced, intact, acked, crashes>>
    BY <1>2, <1>3 DEF openVars, dirVars
  <2> QED  BY <1>0, <2>1, <2>2, <2>3 DEF FileTypeOK
<1>6. CallShape' /\ call # Crashed /\ call' # Crashed
  BY <1>0, <1>2, <1>4 DEF CallShape, Crashed, Idle
<1>7. All' = All
  <2>1. All = file \o (call.todo \o call.rest)
    BY <1>2 DEF All, Pending
  <2>2. All' = (file \o a) \o (b \o call.rest)
    BY <1>2, <1>4 DEF All, Pending
  <2>3. (a \o b) \o call.rest = a \o (b \o call.rest)
    BY <1>0, <1>1, ConcatAssoc
  <2>4. b \o call.rest \in Seq(Nat)
    BY <1>0, <1>1, ConcatProperties
  <2>5. (file \o a) \o (b \o call.rest) = file \o (a \o (b \o call.rest))
    BY <1>0, <1>1, <2>4, ConcatAssoc
  <2> QED  BY <1>1, <2>1, <2>2, <2>3, <2>5
<1>8. /\ Len(buf') <= BufferSize /\ Len(file) <= Len(file')
      /\ \A i \in 1 .. Len(file) : file'[i] = file[i]
      /\ dirSynced <= dirSynced' /\ created <= created'
  <2>1. buf' = buf /\ dirSynced' = dirSynced /\ created' = created
    BY <1>2 DEF dirVars
  <2>2. Len(buf) <= BufferSize /\ dirSynced \in Nat /\ created \in Nat
    BY DEF FileIInv, FileTypeOK
  <2>3. Len(buf') <= BufferSize /\ dirSynced <= dirSynced' /\ created <= created'
    BY <2>1, <2>2
  <2> QED  BY <1>3, <2>3
<1>9. UNCHANGED <<isManifest, appended, refers, base, start, intact, acked,
                  synced>>
  BY <1>2 DEF openVars
<1> QED
  BY <1>2, <1>4, <1>5, <1>6, <1>7, <1>8, <1>9, SameBytes

(* FlushBuffer ends, and the rest of an Append finds its place; or a large *)
(* one has been written.                                                   *)
LEMMA FlushedKeeps ==
  ASSUME FileIInv, BufferFlushed \/ DirectDone
  PROVE  FileIInv'
<1>0. /\ FileTypeOK /\ CallShape /\ file \in Seq(Nat)
      /\ call.rest \in Seq(Nat) /\ Len(call.rest) \in Nat
      /\ call \in [op : Ops, stage : Stages, todo : Seq(Nat), rest : Seq(Nat)]
      /\ <<>> \in Seq(Nat) /\ Len(<<>>) = 0
      /\ <<>> \o call.rest = call.rest /\ call.rest \o <<>> = call.rest
      /\ BufferSize \in Nat \ {0}
  BY LenProperties, EmptySeq, ConcatEmptySeq, FileAssumption
     DEF FileIInv, FileTypeOK
<1>u. UNCHANGED <<file, synced, appended, refers, openVars, dirVars, intact,
                  acked, crashes>>
  BY DEF BufferFlushed, DirectDone, bytesVars
<1>1. /\ call.stage \in {"buffer", "direct"} /\ call # Crashed
      /\ Pending = call.rest
  <2>1. call.stage \in {"buffer", "direct"} /\ call.todo = <<>>
    BY DEF BufferFlushed, DirectDone
  <2> QED  BY <1>0, <2>1 DEF Pending, Crashed, Idle
<1>2. /\ FileTypeOK' /\ CallShape' /\ call' # Crashed /\ Pending' = call.rest
      /\ Len(buf') <= BufferSize
      /\ call'.op = "sync" => call.op = "sync" /\ call.stage = "buffer"
  <2>1. CASE DirectDone
    <3>1. call' = Idle /\ buf' = buf /\ buf = <<>> /\ call.rest = <<>>
      BY <1>0, <2>1 DEF DirectDone, CallShape, bytesVars
    <3>2. FileTypeOK'
      BY <1>0, <1>u, <3>1 DEF FileTypeOK, openVars, dirVars, Idle, Ops, Stages
    <3> QED
      BY <1>0, <3>1, <3>2 DEF CallShape, Idle, Crashed, Pending
  <2>2. CASE BufferFlushed
    <3>b. /\ buf' = IF Len(call.rest) < BufferSize THEN call.rest ELSE <<>>
          /\ call.stage = "buffer" /\ call.todo = <<>>
          /\ call.op \in {"append", "flush", "close", "sync"}
          /\ call.op # "append" => call.rest = <<>>
      BY <1>0, <2>2 DEF BufferFlushed, CallShape
    <3>1. CASE call.op = "sync"
      <4>1. /\ call' = [call EXCEPT !.stage = "fsync"]
            /\ buf' = <<>> /\ call.rest = <<>>
        BY <1>0, <2>2, <3>b, <3>1 DEF BufferFlushed
      <4>2. /\ call'.op = "sync" /\ call'.stage = "fsync"
            /\ call' \in [op : Ops, stage : Stages, todo : Seq(Nat), rest : Seq(Nat)]
        BY <1>0, <3>1, <4>1 DEF Stages
      <4>3. FileTypeOK'
        BY <1>0, <1>u, <4>1, <4>2 DEF FileTypeOK, openVars, dirVars
      <4> QED
        BY <1>0, <3>b, <3>1, <4>1, <4>2, <4>3 DEF CallShape, Pending, Crashed, Idle
    <3>2. CASE call.op = "close"
      <4>1. call' = Closed /\ buf' = <<>> /\ call.rest = <<>>
        BY <1>0, <2>2, <3>b, <3>2 DEF BufferFlushed
      <4>2. FileTypeOK'
        BY <1>0, <1>u, <4>1
           DEF FileTypeOK, openVars, dirVars, Closed, Idle, Ops, Stages
      <4> QED
        BY <1>0, <4>1, <4>2 DEF CallShape, Pending, Closed, Crashed, Idle
    <3>3. CASE call.op \in {"append", "flush"} /\ Len(call.rest) >= BufferSize
      <4>1. /\ call' = [call EXCEPT !.stage = "direct", !.todo = call.rest,
                                    !.rest = <<>>]
            /\ buf' = <<>> /\ call.op = "append"
        BY <1>0, <2>2, <3>b, <3>3 DEF BufferFlushed
      <4>2. /\ call'.op = "append" /\ call'.stage = "direct"
            /\ call'.todo = call.rest /\ call'.rest = <<>>
            /\ call' \in [op : Ops, stage : Stages, todo : Seq(Nat), rest : Seq(Nat)]
        BY <1>0, <4>1 DEF Stages
      <4>3. FileTypeOK'
        BY <1>0, <1>u, <4>1, <4>2 DEF FileTypeOK, openVars, dirVars
      <4>4. Pending' = call.rest
        BY <1>0, <4>2 DEF Pending
      <4>5. CallShape' /\ call' # Crashed
        BY <4>1, <4>2 DEF CallShape, Crashed, Idle
      <4> QED  BY <1>0, <4>1, <4>2, <4>3, <4>4, <4>5
    <3>4. CASE call.op \in {"append", "flush"} /\ ~(Len(call.rest) >= BufferSize)
      <4>1. call' = Idle /\ buf' = call.rest
        BY <1>0, <2>2, <3>b, <3>4 DEF BufferFlushed
      <4>2. FileTypeOK'
        BY <1>0, <1>u, <4>1
           DEF FileTypeOK, openVars, dirVars, Idle, Ops, Stages
      <4> QED
        BY <1>0, <3>4, <4>1, <4>2 DEF CallShape, Pending, Crashed, Idle
    <3> QED  BY <3>b, <3>1, <3>2, <3>3, <3>4
  <2> QED  BY <2>1, <2>2
<1>3. All' = All
  BY <1>u, <1>1, <1>2 DEF All
<1>4. /\ Len(file) <= Len(file')
      /\ \A i \in 1 .. Len(file) : file'[i] = file[i]
      /\ dirSynced <= dirSynced' /\ created <= created'
  BY <1>0, <1>u, LenProperties DEF FileTypeOK, dirVars
<1>5. UNCHANGED <<isManifest, appended, refers, base, start, intact, acked,
                  synced>>
  BY <1>u DEF openVars
<1> QED
  BY <1>1, <1>2, <1>3, <1>4, <1>5, SameBytes

(* A write fails, or the machine crashes: bytes are lost, but none that    *)
(* were synced.                                                            *)
LEMMA LossKeeps ==
  ASSUME FileIInv, WriteFails \/ Crash
  PROVE  FileIInv'
<1>0. /\ FileTypeOK /\ file \in Seq(Nat) /\ Len(file) \in Nat
      /\ synced \in 0 .. Len(file) /\ <<>> \in Seq(Nat)
  BY LenProperties, EmptySeq DEF FileIInv, FileTypeOK
<1>1. CASE WriteFails
  <2>1. /\ intact' = FALSE /\ buf' = <<>> /\ call' \in {Idle, Closed}
        /\ call.stage \in {"buffer", "direct"}
        /\ UNCHANGED <<file, synced, appended, refers, isManifest, base, start,
                       created, dirSynced, acked, crashes>>
    BY <1>1 DEF WriteFails, openVars, dirVars
  <2>2. call # Crashed /\ CallShape'
    BY <2>1 DEF Crashed, Closed, Idle, CallShape
  <2>3. FileTypeOK'
    <3>1. call' \in [op : Ops, stage : Stages, todo : Seq(Nat), rest : Seq(Nat)]
      <4>1. Idle \in [op : Ops, stage : Stages, todo : Seq(Nat), rest : Seq(Nat)]
        BY <1>0 DEF Idle, Ops, Stages
      <4>2. Closed \in [op : Ops, stage : Stages, todo : Seq(Nat), rest : Seq(Nat)]
        BY <4>1 DEF Closed, Ops
      <4> QED  BY <2>1, <4>1, <4>2
    <3> QED  BY <1>0, <2>1, <3>1 DEF FileTypeOK
  <2>4. /\ Len(file') <= Len(file) /\ synced <= Len(file')
        /\ \A i \in 1 .. Len(file') : file'[i] = file[i]
    BY <1>0, <2>1
  <2> QED  BY <2>1, <2>2, <2>3, <2>4, BytesDropped
<1>2. CASE Crash
  <2> PICK n \in synced .. Len(file) : file' = First(file, n)
    BY <1>2 DEF Crash
  <2>1. /\ buf' = <<>> /\ call' = Crashed /\ call # Crashed
        /\ created' \in dirSynced .. created
        /\ UNCHANGED <<synced, appended, refers, isManifest, base, start,
                       dirSynced, acked, intact>>
        /\ crashes' = crashes + 1
    BY <1>2 DEF Crash, openVars
  <2>2. CallShape'
    BY <2>1 DEF Crashed, Idle, CallShape
  <2>3. n \in 0 .. Len(file)
    BY <1>0
  <2>4. /\ file' \in Seq(Nat) /\ Len(file') = n
        /\ \A i \in 1 .. n : file'[i] = file[i]
    BY <1>0, <2>3, FirstFacts
  <2>5. FileTypeOK'
    <3>1. /\ synced' \in 0 .. Len(file') /\ created' \in Nat
          /\ dirSynced' <= created' /\ crashes' \in Nat
      BY <1>0, <2>1, <2>4 DEF FileTypeOK
    <3> QED
      BY <1>0, <2>1, <2>4, <3>1 DEF FileTypeOK, Crashed, Idle, Ops, Stages
  <2>6. Len(file') <= Len(file) /\ synced <= Len(file')
    BY <1>0, <2>3, <2>4
  <2> QED  BY <2>1, <2>2, <2>4, <2>5, <2>6, BytesDropped
<1> QED  BY <1>1, <1>2

(* Another thread creates a file in the directory.                         *)
LEMMA CreateKeeps ==
  ASSUME FileIInv, CreateFile
  PROVE  FileIInv'
<1>1. /\ created' = created + 1 /\ call # Crashed
      /\ UNCHANGED <<buf, file, synced, appended, refers, isManifest, base,
                     start, dirSynced, call, intact, acked, crashes>>
  BY DEF CreateFile, bytesVars, openVars
<1>2. FileTypeOK'
  BY <1>1 DEF FileIInv, FileTypeOK
<1>3. CallShape'
  BY <1>1 DEF FileIInv, CallShape
<1>4. All' = All
  BY <1>1 DEF All, Pending
<1>5. /\ Len(buf') <= BufferSize /\ Len(file) <= Len(file')
      /\ \A i \in 1 .. Len(file) : file'[i] = file[i]
      /\ dirSynced <= dirSynced' /\ created <= created'
  BY <1>1, LenProperties DEF FileIInv, FileTypeOK
<1> QED  BY <1>1, <1>2, <1>3, <1>4, <1>5, SameBytes

(* fsync: all of the file is on the medium, if nothing failed before, and  *)
(* that is all that was appended.                                          *)
LEMMA SyncFdKeeps ==
  ASSUME FileIInv, SyncFd
  PROVE  FileIInv'
<1>0. /\ FileTypeOK /\ file \in Seq(Nat) /\ Len(file) \in Nat
      /\ synced \in 0 .. Len(file) /\ file \o <<>> = file
  BY LenProperties, ConcatEmptySeq DEF FileIInv, FileTypeOK
<1>1. /\ call.stage = "fsync" /\ call.op = "sync" /\ buf = <<>>
      /\ call' = Idle /\ call # Crashed /\ call' # Crashed
      /\ UNCHANGED <<buf, file, appended, refers, isManifest, base, start,
                     created, dirSynced, crashes>>
      /\ intact' \in {intact, FALSE}
      /\ \/ synced' = synced /\ acked' = acked
         \/ intact /\ synced' = Len(file) /\ acked' = Contents
  BY DEF FileIInv, CallShape, SyncFd, openVars, dirVars, Crashed, Idle
<1>2. All = file /\ All' = file
  BY <1>0, <1>1 DEF All, Pending, Idle
<1>3. acked' \in {acked, file}
  BY <1>1, <1>2 DEF FileIInv
<1>4. FileTypeOK'
  <2>1. synced' \in 0 .. Len(file')
    BY <1>0, <1>1
  <2>2. acked' \in Seq(Nat)
    BY <1>0, <1>3 DEF FileTypeOK
  <2>3. intact' \in BOOLEAN
    BY <1>0, <1>1 DEF FileTypeOK
  <2>4. call' \in [op : Ops, stage : Stages, todo : Seq(Nat), rest : Seq(Nat)]
    BY <1>1, EmptySeq DEF Idle, Ops, Stages
  <2> QED  BY <1>0, <1>1, <2>1, <2>2, <2>3, <2>4 DEF FileTypeOK
<1>5. CallShape'
  BY <1>1 DEF CallShape, Idle
<1>6. Ordered(All)'
  BY <1>1, <1>2 DEF FileIInv, Ordered, InOrder
<1>7. (intact /\ call # Crashed => All = Contents)'
  BY <1>1, <1>2 DEF FileIInv, Contents
<1>8. ReferredExist'
  BY <1>1, <1>2 DEF FileIInv, ReferredExist, RefersWithin, Refer, Idle
<1>9. SyncedSurvives'
  <2>1. CASE synced' = synced /\ acked' = acked
    BY <1>1, <2>1 DEF FileIInv, SyncedSurvives, Prefix, First
  <2>2. CASE intact /\ synced' = Len(file) /\ acked' = Contents
    <3>1. acked' = file
      BY <1>1, <1>2, <2>2 DEF FileIInv
    <3>2. Prefix(acked', file')
      BY <1>0, <1>1, <3>1, PrefixSelf
    <3>3. isManifest => \A i \in 1 .. Len(file) : refers[file[i]] <= dirSynced
      BY <1>1, <1>2 DEF FileIInv, ReferredExist, RefersWithin, Refer
    <3>4. Prefix(acked, file)' <=> Prefix(acked', file')
      BY DEF Prefix, First
    <3> QED
      BY <1>0, <1>1, <2>2, <3>1, <3>2, <3>3, <3>4 DEF SyncedSurvives
  <2> QED  BY <1>1, <2>1, <2>2
<1>b. Len(buf') <= BufferSize
  BY <1>1 DEF FileIInv
<1> QED
  BY <1>4, <1>5, <1>6, <1>7, <1>8, <1>9, <1>b DEF FileIInv

(* The file is opened again, to append to what is there or empty.          *)
LEMMA OpenKeeps ==
  ASSUME FileIInv, NewAppendableFile \/ NewWritableFile
  PROVE  FileIInv'
<1>0. /\ FileTypeOK /\ file \in Seq(Nat) /\ Len(file) \in Nat
      /\ synced \in 0 .. Len(file) /\ appended \in Nat
      /\ <<>> \in Seq(Nat) /\ Len(<<>>) = 0
      /\ file \o <<>> = file /\ <<>> \o <<>> = <<>>
  BY LenProperties, ConcatEmptySeq, EmptySeq DEF FileIInv, FileTypeOK
<1>e. Ids(appended, appended) = <<>>
  BY <1>0, SliceFacts
<1>1. /\ call \in {Closed, Crashed} /\ call' = Idle /\ buf = <<>> /\ buf' = <<>>
      /\ UNCHANGED <<appended, refers, isManifest, created, dirSynced, crashes>>
      /\ start' = appended /\ intact' = TRUE /\ base' = file'
  BY DEF FileIInv, CallShape, NewAppendableFile, NewWritableFile, dirVars,
         bytesVars, Closed, Crashed, Idle
<1>2. \/ /\ file' = file /\ synced' = synced /\ acked' = acked
         /\ isManifest => \A i \in DOMAIN file : refers[file[i]] <= created
      \/ file' = <<>> /\ synced' = 0 /\ acked' = <<>>
  BY DEF NewAppendableFile, NewWritableFile, bytesVars
<1>3. All = file /\ All' = file'
  <2>1. Pending = <<>> /\ Pending' = <<>>
    BY <1>1 DEF Pending, Closed, Crashed, Idle
  <2>2. file' \o <<>> = file'
    BY <1>0, <1>2
  <2> QED  BY <1>0, <2>1, <2>2 DEF All
<1>4. FileTypeOK'
  <2>1. /\ synced' \in 0 .. Len(file') /\ acked' \in Seq(Nat)
        /\ file' \in Seq(Nat) /\ start' \in 0 .. appended'
    <3>1. synced' \in 0 .. Len(file')
      BY <1>0, <1>2
    <3>2. acked' \in Seq(Nat) /\ file' \in Seq(Nat)
      BY <1>0, <1>2 DEF FileTypeOK
    <3>3. start' \in 0 .. appended'
      BY <1>0, <1>1
    <3> QED  BY <3>1, <3>2, <3>3
  <2>2. call' \in [op : Ops, stage : Stages, todo : Seq(Nat), rest : Seq(Nat)]
    BY <1>0, <1>1 DEF Idle, Ops, Stages
  <2> QED  BY <1>0, <1>1, <2>1, <2>2 DEF FileTypeOK
<1>5. CallShape'
  BY <1>1 DEF CallShape, Idle
<1>6. Ordered(All)'
  <2>1. CASE file' = file
    BY <1>1, <1>3, <2>1 DEF FileIInv, Ordered, InOrder
  <2>2. CASE file' = <<>>
    BY <1>0, <1>3, <2>2 DEF Ordered, InOrder
  <2> QED  BY <1>2, <2>1, <2>2
<1>7. (intact /\ call # Crashed => All = Contents)'
  <2>1. Contents' = file' \o <<>>
    BY <1>1, <1>e DEF Contents
  <2>2. file' \o <<>> = file'
    BY <1>0, <1>2
  <2> QED  BY <1>3, <2>1, <2>2
<1>8. ReferredExist'
  <2>1. call'.op # "sync"
    BY <1>1 DEF Idle
  <2>2. DOMAIN file = 1 .. Len(file)
    BY <1>0, LenProperties
  <2>3. isManifest => RefersWithin(All, created)'
    <3>1. CASE file' = <<>>
      BY <1>0, <1>3, <3>1 DEF RefersWithin, Refer
    <3>2. CASE /\ file' = file
               /\ isManifest => \A i \in DOMAIN file : refers[file[i]] <= created
      BY <1>1, <1>2, <1>3, <2>2, <3>2 DEF RefersWithin, Refer
    <3> QED  BY <1>2, <3>1, <3>2
  <2> QED  BY <1>1, <2>1, <2>3 DEF ReferredExist
<1>9. SyncedSurvives'
  <2>1. CASE file' = file /\ synced' = synced /\ acked' = acked
    BY <1>1, <2>1 DEF FileIInv, SyncedSurvives, Prefix, First
  <2>2. CASE file' = <<>> /\ synced' = 0 /\ acked' = <<>>
    <3>1. Prefix(acked, file)' <=> Prefix(acked', file')
      BY DEF Prefix, First
    <3>2. Prefix(acked', file')
      BY <1>0, <2>2, PrefixSelf
    <3>3. Len(acked') <= synced' /\ 1 .. synced' = {}
      BY <1>0, <2>2
    <3> QED  BY <3>1, <3>2, <3>3 DEF SyncedSurvives
  <2> QED  BY <1>2, <2>1, <2>2
<1>b. Len(buf') <= BufferSize
  BY <1>0, <1>1, FileAssumption
<1> QED
  BY <1>4, <1>5, <1>6, <1>7, <1>8, <1>9, <1>b DEF FileIInv

(* Append: the bytes of the Slice come behind all others, in the buffer or *)
(* behind it.                                                              *)
LEMMA AppendKeeps ==
  ASSUME FileIInv, NEW n \in AppendSizes, AppendData(n)
  PROVE  FileIInv'
<1> DEFINE data == Ids(appended, appended + n)
           fits == IF n < BufferSize - Len(buf) THEN n ELSE BufferSize - Len(buf)
           more == [i \in 1 .. n |-> created]
<1>0. /\ FileTypeOK /\ file \in Seq(Nat) /\ buf \in Seq(Nat)
      /\ refers \in Seq(Nat) /\ Len(refers) = appended
      /\ Len(buf) \in Nat /\ Len(buf) <= BufferSize /\ BufferSize \in Nat
      /\ appended \in Nat /\ created \in Nat /\ n \in Nat \ {0}
      /\ appended + n \in Nat /\ appended <= appended + n
      /\ start \in 0 .. appended /\ base \in Seq(Nat)
  BY LenProperties, FileAssumption DEF FileIInv, FileTypeOK
<1>d. /\ data \in Seq(Nat) /\ Len(data) = n
      /\ \A i \in 1 .. n : data[i] = appended + i
  BY <1>0, SliceFacts
<1>f. fits \in 0 .. n /\ Len(buf) + fits <= BufferSize
  BY <1>0
<1>1. /\ call = Idle /\ appended' = appended + n
      /\ refers' = refers \o more
      /\ buf' = buf \o First(data, fits)
      /\ IF fits = n THEN call' = call
         ELSE call' = [op |-> "append", stage |-> "buffer", todo |-> buf',
                       rest |-> After(data, fits)]
      /\ UNCHANGED <<file, synced, isManifest, base, start, created, dirSynced,
                     intact, acked, crashes>>
  BY DEF AppendData, FlushBuffer, openVars, dirVars
<1> HIDE DEF data, fits, more
<1>2. /\ First(data, fits) \in Seq(Nat) /\ After(data, fits) \in Seq(Nat)
      /\ Len(First(data, fits)) = fits /\ Len(After(data, fits)) = n - fits
      /\ First(data, fits) \o After(data, fits) = data
  BY <1>d, <1>f, SplitFacts
<1>3. buf' \in Seq(Nat) /\ Len(buf') <= BufferSize
  <2>1. buf' \in Seq(Nat) /\ Len(buf') = Len(buf) + Len(First(data, fits))
    BY <1>0, <1>1, <1>2, ConcatProperties
  <2> QED  BY <1>2, <1>f, <2>1
<1>4. buf' \o After(data, fits) = buf \o data
  <2>1. PICK s, t : s = First(data, fits) /\ t = After(data, fits)
    OBVIOUS
  <2>2. buf \in Seq(Nat) /\ s \in Seq(Nat) /\ t \in Seq(Nat)
    BY <1>0, <1>2, <2>1
  <2>3. (buf \o s) \o t = buf \o (s \o t)
    BY <2>2, ConcatAssoc
  <2> QED  BY <1>1, <1>2, <2>1, <2>3
<1>5. /\ Pending = buf /\ Pending' = buf \o data
      /\ call'.op # "sync" /\ call' # Crashed /\ CallShape'
      /\ call' \in [op : Ops, stage : Stages, todo : Seq(Nat), rest : Seq(Nat)]
  <2>1. Pending = buf
    BY <1>1 DEF Pending, Idle
  <2>2. CASE fits = n
    <3>1. call' = Idle
      BY <1>1, <2>2
    <3>2. Len(After(data, fits)) = 0
      BY <1>0, <1>2, <2>2
    <3>3. After(data, fits) = <<>>
      BY <1>2, <3>2, EmptySeq, SeqEqual
    <3>4. buf' \o <<>> = buf'
      BY <1>3, ConcatEmptySeq
    <3>5. Pending' = buf'
      BY <3>1 DEF Pending, Idle
    <3>6. call' \in [op : Ops, stage : Stages, todo : Seq(Nat), rest : Seq(Nat)]
      BY <3>1, EmptySeq DEF Idle, Ops, Stages
    <3> QED
      BY <1>4, <2>1, <3>1, <3>3, <3>4, <3>5, <3>6 DEF CallShape, Idle, Crashed
  <2>3. CASE fits # n
    <3>1. call' = [op |-> "append", stage |-> "buffer", todo |-> buf',
                   rest |-> After(data, fits)]
      BY <1>1, <2>3
    <3>2. Pending' = buf' \o After(data, fits)
      BY <3>1 DEF Pending
    <3>3. call' \in [op : Ops, stage : Stages, todo : Seq(Nat), rest : Seq(Nat)]
      BY <1>2, <1>3, <3>1 DEF Ops, Stages
    <3>4. CallShape' /\ call' # Crashed
      BY <3>1 DEF CallShape, Crashed, Idle
    <3> QED  BY <1>4, <2>1, <3>1, <3>2, <3>3, <3>4
  <2> QED  BY <2>2, <2>3
<1>6. All' = All \o data
  <2>1. All = file \o buf /\ All' = file \o (buf \o data)
    BY <1>1, <1>5 DEF All
  <2>2. (file \o buf) \o data = file \o (buf \o data)
    <3>1. file \in Seq(Nat) /\ buf \in Seq(Nat) /\ data \in Seq(Nat)
      BY <1>0, <1>d
    <3> QED  BY <3>1, ConcatAssoc
  <2> QED  BY <2>1, <2>2
<1>7. All \in Seq(Nat) /\ Len(All) \in Nat
  BY <1>0, AllFacts
<1>o. InOrder(All, appended) /\ Numbered(data, appended) /\ Joined(All', All, data)
  BY <1>d, <1>6, <1>7, ConcatJoined DEF FileIInv, Ordered, Numbered
<1>8. refers' \in Seq(Nat) /\ Grown(refers', refers, n, created)
  <2>1. more \in Seq(Nat) /\ Len(more) = n /\ \A i \in 1 .. n : more[i] = created
    BY <1>0 DEF more
  <2>2. Joined(refers', refers, more) /\ refers' \in Seq(Nat)
    BY <1>0, <1>1, <2>1, ConcatJoined
  <2> QED  BY <2>1, <2>2 DEF Joined, Grown
<1>9. FileTypeOK'
  <2>1. start' \in 0 .. appended' /\ appended' \in Nat
    BY <1>0, <1>1
  <2>2. refers' \in Seq(Nat) /\ Len(refers') = appended'
    BY <1>0, <1>1, <1>8 DEF Grown
  <2> QED  BY <1>0, <1>1, <1>3, <1>5, <2>1, <2>2 DEF FileTypeOK
<1>10. Ordered(All)'
  <2>1. InOrder(All', appended + Len(data))
    BY <1>0, <1>o, OrderedConcat
  <2> QED  BY <1>1, <1>d, <2>1 DEF Ordered
<1>11. (intact /\ call # Crashed => All = Contents)'
  <2> SUFFICES ASSUME intact PROVE All' = Contents'
    BY <1>1
  <2>1. All = base \o Ids(start, appended)
    BY <1>1 DEF FileIInv, Contents, Idle, Crashed
  <2>2. Contents' = base \o Ids(start, appended + n)
    BY <1>1 DEF Contents
  <2>3. start \in Nat /\ start <= appended
    BY <1>0
  <2>4. Ids(start, appended) \in Seq(Nat)
    BY <1>0, <2>3, IdsFacts
  <2>5. Ids(start, appended) \o data = Ids(start, appended + n)
    BY <1>0, <2>3, IdsConcat DEF data
  <2>6. (base \o Ids(start, appended)) \o data = base \o (Ids(start, appended) \o data)
    <3>1. base \in Seq(Nat) /\ data \in Seq(Nat)
      BY <1>0, <1>d
    <3> QED  BY <2>4, <3>1, ConcatAssoc
  <2> QED  BY <1>6, <2>1, <2>2, <2>5, <2>6
<1>12. ReferredExist'
  <2> SUFFICES ASSUME isManifest PROVE Refer(All', refers', created')
    BY <1>1, <1>5 DEF ReferredExist, RefersWithin
  <2>1. Refer(All, refers, created)
    BY <1>1 DEF FileIInv, ReferredExist, RefersWithin, Idle, Crashed
  <2> QED  BY <1>0, <1>1, <1>d, <1>o, <1>8, <2>1, RefersConcat
<1>13. SyncedSurvives'
  <2>1. synced \in 0 .. Len(file) /\ Len(file) \in Nat /\ Len(file) <= Len(All)
        /\ \A i \in 1 .. Len(file) : All[i] = file[i]
    BY <1>0, AllFacts DEF FileTypeOK
  <2>2. isManifest => \A i \in 1 .. synced : refers'[file[i]] <= dirSynced
    <3> SUFFICES ASSUME isManifest, NEW i \in 1 .. synced
                 PROVE  refers'[file[i]] <= dirSynced
      OBVIOUS
    <3>1. refers[file[i]] <= dirSynced
      BY DEF FileIInv, SyncedSurvives
    <3>2. i \in 1 .. Len(file) /\ i \in 1 .. Len(All)
      BY <1>7, <2>1
    <3>3. file[i] \in 1 .. appended
      BY <1>o, <2>1, <3>2 DEF InOrder
    <3> QED  BY <1>0, <1>8, <3>1, <3>3 DEF Grown
  <2> QED
    BY <1>1, <2>2 DEF FileIInv, SyncedSurvives, Prefix, First
<1> QED
  BY <1>3, <1>5, <1>9, <1>10, <1>11, <1>12, <1>13 DEF FileIInv

(* Every step keeps the invariant.                                         *)
LEMMA FileNextInv == FileIInv /\ [FileNext]_fileVars => FileIInv'
<1> SUFFICES ASSUME FileIInv, [FileNext]_fileVars PROVE FileIInv'
  OBVIOUS
<1>1. CASE UNCHANGED fileVars
  <2>1. UNCHANGED <<buf, file, synced, appended, refers, isManifest, base,
                    start, created, dirSynced, call, intact, acked, crashes>>
    BY <1>1 DEF fileVars, bytesVars, openVars, dirVars
  <2>2. FileTypeOK' /\ CallShape'
    BY <2>1 DEF FileIInv, FileTypeOK, CallShape
  <2>3. All' = All
    BY <2>1 DEF All, Pending
  <2> QED
    BY <2>1, <2>2, <2>3
       DEF FileIInv, Ordered, InOrder, Contents, ReferredExist, RefersWithin,
           SyncedSurvives, Prefix, First
<1> QED
  BY <1>1, AppendKeeps, CallBegins, WriteKeeps, LossKeeps, FlushedKeeps,
     SyncFdKeeps, CreateKeeps, OpenKeeps DEF FileNext

(* The invariant holds in every reachable state.                           *)
LEMMA FileInv == FileSpec => []FileIInv
BY FileInitInv, FileNextInv, PTL DEF FileSpec

(* The file and what is pending are what was given to Append, each byte    *)
(* once and in order, for every size of the buffer and of the Slices and   *)
(* however the kernel cuts the writes; and the file stays in order after a *)
(* failure, too.                                                           *)
THEOREM AppendsInOrder == FileSpec => []AppendedInOrder
<1>1. FileIInv => AppendedInOrder
  <2> SUFFICES ASSUME FileIInv PROVE AppendedInOrder
    OBVIOUS
  <2>1. /\ Len(file) \in Nat /\ Len(file) <= Len(All) /\ Len(All) \in Nat
        /\ \A i \in 1 .. Len(file) : All[i] = file[i]
    BY AllFacts DEF FileIInv
  <2>2. DOMAIN file = 1 .. Len(file)
    BY LenProperties DEF FileIInv, FileTypeOK
  <2>3. \A i \in 1 .. Len(file) : i \in 1 .. Len(All)
    BY <2>1
  <2>4. \A i, j \in DOMAIN file : i < j => file[i] < file[j]
    BY <2>1, <2>2, <2>3 DEF FileIInv, Ordered, InOrder
  <2> QED  BY <2>4 DEF FileIInv, AppendedInOrder, All
<1> QED  BY <1>1, FileInv, PTL

(* What a good Sync has acknowledged is on the medium and stays in the     *)
(* file through every later write, failure, crash and reopening; and what  *)
(* is on the medium of a MANIFEST refers to no file that is not.           *)
THEOREM SyncedDataSurvives == FileSpec => []SyncedSurvives
BY FileInv, PTL DEF FileIInv

-----------------------------------------------------------------------------
(* The background thread and a request for a manual compaction.            *)

(* A caller whose request is posted is in its loop, or waits, and has not  *)
(* been told that it is done.                                              *)
PostedIsInside ==
  manual # NoCaller => caller[manual] \in {"loop", "wait"} /\ ~done[manual]

(* done is set when nothing is left of the range, or after an error.       *)
DoneIsDone == \A c \in Callers : done[c] => pieces[c] = 0 \/ bgError

(* While the background thread merges for a request, the request is        *)
(* posted, and something of its range is left, unless its caller withdrew  *)
(* it after an error; and the thread does so only when it runs the work of *)
(* this database.                                                          *)
WorkHasRequest ==
  /\ bg.pc = "work" => worker = "db"
  /\ bg.pc = "work" /\ bg.isManual =>
       /\ manual = NoCaller => bgError
       /\ manual # NoCaller => pieces[manual] > 0

(* background_compaction_scheduled_: the work of this database is in the   *)
(* queue, at one place, or runs.                                           *)
InQueue == \E i \in 1 .. Len(queue) : queue[i] = "db"
ScheduledOnce ==
  /\ scheduled <=> worker = "db" \/ InQueue
  /\ worker = "db" => ~InQueue
  /\ \A i, j \in 1 .. Len(queue) : queue[i] = "db" /\ queue[j] = "db" => i = j

ManualIInv ==
  /\ ManualTypeOK
  /\ PostedIsInside
  /\ DoneIsDone
  /\ ReturnMeansDone
  /\ WorkHasRequest
  /\ ScheduledOnce

-----------------------------------------------------------------------------
(* The queue of the background thread.                                     *)

(* The queue after work was put: its elements, and their places.           *)
LEMMA AppendPlaces ==
  ASSUME NEW S, NEW q \in Seq(S), NEW w \in S
  PROVE  /\ Append(q, w) \in Seq(S)
         /\ Len(Append(q, w)) = Len(q) + 1 /\ Len(q) \in Nat
         /\ Append(q, w)[Len(q) + 1] = w
         /\ \A i \in 1 .. Len(q) : Append(q, w)[i] = q[i]
OBVIOUS

(* The queue after work was taken.                                         *)
LEMMA TailPlaces ==
  ASSUME NEW S, NEW q \in Seq(S), q # <<>>
  PROVE  /\ Tail(q) \in Seq(S) /\ Head(q) = q[1] /\ Head(q) \in S
         /\ Len(Tail(q)) = Len(q) - 1 /\ Len(q) \in Nat \ {0}
         /\ \A i \in 1 .. Len(Tail(q)) : Tail(q)[i] = q[i + 1]
OBVIOUS

(* MaybeScheduleCompaction, given a flag that says whether the work of     *)
(* this database is with the Env, leads to a flag that says so again, and  *)
(* leaves the thread with the work it had.                                 *)
LEMMA MaybeScheduleKeeps ==
  ASSUME queue \in Seq({"db", "other"}), NEW sched \in BOOLEAN,
         NEW at \in {"none", "loop", "waiting", "db", "other"},
         sched <=> at = "db" \/ InQueue,
         at = "db" => ~InQueue,
         \A i, j \in 1 .. Len(queue) :
            queue[i] = "db" /\ queue[j] = "db" => i = j,
         HasWork' \in BOOLEAN,
         MaybeScheduleCompaction(sched, at)
  PROVE  /\ queue' \in Seq({"db", "other"}) /\ scheduled' \in BOOLEAN
         /\ worker' \in {"none", "loop", "waiting", "db", "other"}
         /\ worker' = "db" <=> at = "db"
         /\ ScheduledOnce'
<1>1. CASE ~sched /\ HasWork'
  <2>1. queue' = Append(queue, "db") /\ worker' = Signalled(at) /\ scheduled'
    BY <1>1 DEF MaybeScheduleCompaction, Schedule
  <2>2. /\ worker' \in {"none", "loop", "waiting", "db", "other"}
        /\ worker' # "db" /\ at # "db" /\ ~InQueue
    BY <1>1, <2>1 DEF Signalled
  <2>3. /\ queue' \in Seq({"db", "other"})
        /\ Len(queue') = Len(queue) + 1 /\ Len(queue) \in Nat
        /\ queue'[Len(queue) + 1] = "db"
        /\ \A i \in 1 .. Len(queue) : queue'[i] = queue[i]
    BY <2>1, AppendPlaces
  <2> QED
    BY <2>1, <2>2, <2>3 DEF ScheduledOnce, InQueue, MaybeScheduleCompaction
<1>2. CASE ~(~sched /\ HasWork')
  <2>1. queue' = queue /\ worker' = at /\ scheduled' = sched
    BY <1>2 DEF MaybeScheduleCompaction
  <2> QED  BY <2>1 DEF ScheduledOnce, InQueue
<1> QED  BY <1>1, <1>2

(* The end of BackgroundCall: the work that ran is over, and its successor *)
(* is in the queue exactly if there is something to do.                    *)
LEMMA EndCallKeeps ==
  ASSUME ManualIInv, worker = "db", EndCall, HasWork' \in BOOLEAN
  PROVE  /\ queue' \in Seq({"db", "other"}) /\ scheduled' \in BOOLEAN
         /\ worker' \in {"none", "loop", "waiting", "db", "other"}
         /\ ScheduledOnce'
         /\ bg' = [pc |-> "idle", isManual |-> FALSE]
         /\ caller' = SignalAll
<1>1. queue \in Seq({"db", "other"}) /\ ~InQueue
      /\ \A i, j \in 1 .. Len(queue) :
            queue[i] = "db" /\ queue[j] = "db" => i = j
  BY DEF ManualIInv, ManualTypeOK, ScheduledOnce
<1>2. MaybeScheduleCompaction(FALSE, "loop")
  BY DEF EndCall
<1> QED  BY <1>1, <1>2, MaybeScheduleKeeps DEF EndCall

(* SignalAll wakes waiters, and moves nobody else.                         *)
LEMMA SignalAllFacts ==
  ASSUME ManualTypeOK
  PROVE  /\ SignalAll \in [Callers -> {"start", "loop", "wait", "return"}]
         /\ \A c \in Callers :
              /\ SignalAll[c] = "return" <=> caller[c] = "return"
              /\ SignalAll[c] \in {"loop", "wait"} <=>
                   caller[c] \in {"loop", "wait"}
BY DEF ManualTypeOK, SignalAll

-----------------------------------------------------------------------------
(* The invariant.                                                          *)

(* Before any call nothing is posted or scheduled.                         *)
LEMMA ManualInitInv == ManualInit => ManualIInv
<1> SUFFICES ASSUME ManualInit PROVE ManualIInv
  OBVIOUS
<1>1. ManualTypeOK
  <2>1. 0 \in 0 .. MaxOther /\ 0 \in 0 .. MaxShared
    BY ManualAssumption
  <2>2. <<>> \in Seq({"db", "other"})
    OBVIOUS
  <2>3. /\ caller \in [Callers -> {"start", "loop", "wait", "return"}]
        /\ done \in [Callers -> BOOLEAN]
        /\ bg \in [pc : {"idle", "work", "crashed"}, isManual : BOOLEAN]
    BY DEF ManualInit
  <2> QED  BY <2>1, <2>2, <2>3, Zenon DEF ManualInit, PoolInit, ManualTypeOK
<1>2. ScheduledOnce
  BY DEF ManualInit, PoolInit, ScheduledOnce, InQueue
<1> QED
  BY <1>1, <1>2
     DEF ManualInit, ManualIInv, PostedIsInside, DoneIsDone, ReturnMeansDone,
         WorkHasRequest

(* The steps of a thread in TEST_CompactRange keep the invariant.          *)
LEMMA CallerKeeps ==
  ASSUME ManualIInv, NEW c \in Callers, Caller(c)
  PROVE  ManualIInv'
<1>t. ManualTypeOK /\ ScheduledOnce
  BY DEF ManualIInv
<1>1. CASE Call(c)
  <2>1. ScheduledOnce'
    BY <1>t, <1>1 DEF Call, pool, poolVars, ScheduledOnce, InQueue
  <2>2. ManualTypeOK'
    BY <1>t, <1>1 DEF Call, pool, poolVars, work, ManualTypeOK
  <2> QED
    BY <1>1, <2>1, <2>2
       DEF Call, pool, poolVars, ManualIInv, ManualTypeOK, PostedIsInside,
           DoneIsDone, ReturnMeansDone, WorkHasRequest
<1>2. CASE Post(c)
  <2>1. HasWork' \in BOOLEAN
    BY <1>t, <1>2 DEF Post, HasWork, ManualTypeOK, work
  <2>2. /\ queue' \in Seq({"db", "other"}) /\ scheduled' \in BOOLEAN
        /\ worker' \in {"none", "loop", "waiting", "db", "other"}
        /\ worker' = "db" <=> worker = "db"
        /\ ScheduledOnce'
    BY <1>t, <1>2, <2>1, MaybeScheduleKeeps
       DEF Post, ManualTypeOK, ScheduledOnce
  <2>3. ManualTypeOK'
    BY <1>t, <1>2, <2>2 DEF Post, work, ManualTypeOK
  <2> QED
    BY <1>2, <2>2, <2>3, ManualAssumption
       DEF Post, GoesOn, ManualIInv, ManualTypeOK, PostedIsInside,
           DoneIsDone, ReturnMeansDone, WorkHasRequest
<1>3. CASE Wait(c)
  <2>1. ScheduledOnce'
    BY <1>t, <1>3 DEF Wait, pool, poolVars, ScheduledOnce, InQueue
  <2>2. ManualTypeOK'
    BY <1>t, <1>3 DEF Wait, pool, poolVars, work, ManualTypeOK
  <2> QED
    BY <1>3, <2>1, <2>2
       DEF Wait, pool, poolVars, ManualIInv, ManualTypeOK, PostedIsInside,
           DoneIsDone, ReturnMeansDone, WorkHasRequest
<1>4. CASE Return(c)
  <2>1. ScheduledOnce'
    BY <1>t, <1>4 DEF Return, pool, poolVars, ScheduledOnce, InQueue
  <2>2. ManualTypeOK'
    BY <1>t, <1>4 DEF Return, Withdrawn, pool, poolVars, work, ManualTypeOK
  <2> QED
    BY <1>4, <2>1, <2>2
       DEF Return, Withdrawn, GoesOn, pool, poolVars, ManualIInv, ManualTypeOK,
           PostedIsInside, DoneIsDone, ReturnMeansDone, WorkHasRequest
<1> QED  BY <1>1, <1>2, <1>3, <1>4 DEF Caller

(* What the background thread does for this database keeps it.             *)
LEMMA BackgroundKeeps ==
  ASSUME ManualIInv,
         \/ BackgroundNothing \/ BackgroundFlush \/ BackgroundMove
         \/ BackgroundManualDone \/ BackgroundWork \/ FlushDuringWork
         \/ EndWork
  PROVE  ManualIInv'
<1>t. ManualTypeOK /\ ScheduledOnce
  BY DEF ManualIInv
<1>s. /\ SignalAll \in [Callers -> {"start", "loop", "wait", "return"}]
      /\ \A c \in Callers :
              /\ SignalAll[c] = "return" <=> caller[c] = "return"
              /\ SignalAll[c] \in {"loop", "wait"} <=>
                   caller[c] \in {"loop", "wait"}
  BY <1>t, SignalAllFacts
<1> DEFINE Ended == /\ queue' \in Seq({"db", "other"}) /\ scheduled' \in BOOLEAN
                    /\ worker' \in {"none", "loop", "waiting", "db", "other"}
                    /\ ScheduledOnce'
                    /\ bg' = [pc |-> "idle", isManual |-> FALSE]
                    /\ caller' = SignalAll
<1>1. CASE BackgroundNothing
  <2>1. Ended
    BY <1>t, <1>1, EndCallKeeps
       DEF BackgroundNothing, Begins, HasWork, ManualTypeOK, work
  <2> QED
    BY <1>t, <1>s, <1>1, <2>1
       DEF BackgroundNothing, work, ManualIInv, ManualTypeOK, PostedIsInside,
           DoneIsDone, ReturnMeansDone, WorkHasRequest
<1>2. CASE BackgroundFlush
  <2>1. bgError' \in BOOLEAN /\ imm' \in BOOLEAN
    BY <1>2, ManualAssumption DEF BackgroundFlush
  <2>2. Ended
    BY <1>t, <1>2, <2>1, EndCallKeeps
       DEF BackgroundFlush, Begins, HasWork, ManualTypeOK
  <2> QED
    BY <1>t, <1>s, <1>2, <2>1, <2>2
       DEF BackgroundFlush, ManualIInv, ManualTypeOK, PostedIsInside,
           DoneIsDone, ReturnMeansDone, WorkHasRequest
<1>3. CASE BackgroundMove
  <2>1. bgError' \in BOOLEAN /\ needs' \in BOOLEAN
    BY <1>t, <1>3, ManualAssumption DEF BackgroundMove, ManualTypeOK
  <2>2. Ended
    BY <1>t, <1>3, <2>1, EndCallKeeps
       DEF BackgroundMove, Begins, HasWork, ManualTypeOK
  <2> QED
    BY <1>t, <1>s, <1>3, <2>1, <2>2
       DEF BackgroundMove, ManualIInv, ManualTypeOK, PostedIsInside,
           DoneIsDone, ReturnMeansDone, WorkHasRequest
<1>4. CASE BackgroundManualDone
  <2>1. Ended
    BY <1>t, <1>4, EndCallKeeps
       DEF BackgroundManualDone, Begins, HasWork, ManualTypeOK, work
  <2> QED
    BY <1>t, <1>s, <1>4, <2>1
       DEF BackgroundManualDone, work, ManualIInv, ManualTypeOK,
           PostedIsInside, DoneIsDone, ReturnMeansDone, WorkHasRequest
<1>5. CASE BackgroundWork
  <2>1. ScheduledOnce'
    BY <1>t, <1>5 DEF BackgroundWork, pool, poolVars, ScheduledOnce, InQueue
  <2>2. ManualTypeOK'
    BY <1>t, <1>5 DEF BackgroundWork, pool, poolVars, work, ManualTypeOK
  <2> QED
    BY <1>5, <2>1, <2>2
       DEF BackgroundWork, Begins, pool, poolVars, ManualIInv,
           PostedIsInside, DoneIsDone, ReturnMeansDone, WorkHasRequest
<1>6. CASE FlushDuringWork
  <2>1. ScheduledOnce'
    BY <1>t, <1>6 DEF FlushDuringWork, pool, poolVars, ScheduledOnce, InQueue
  <2>2. ManualTypeOK'
    BY <1>t, <1>s, <1>6 DEF FlushDuringWork, pool, poolVars, ManualTypeOK
  <2>3. bgError => bgError'
    BY <1>6 DEF FlushDuringWork
  <2> QED
    BY <1>t, <1>s, <1>6, <2>1, <2>2, <2>3
       DEF FlushDuringWork, pool, poolVars, ManualIInv, ManualTypeOK,
           PostedIsInside, DoneIsDone, ReturnMeansDone, WorkHasRequest
<1>7. CASE EndWork
  <2> PICK ok \in {TRUE, ~IOErrors} :
       /\ bgError' = (bgError \/ ~ok)
       /\ \/ /\ ~bg.isManual
             /\ needs' = (needs /\ ~ok)
             /\ UNCHANGED <<manual, done, pieces, imm, made, crashed, shared>>
             /\ EndCall
          \/ /\ bg.isManual /\ manual # NoCaller
             /\ ManualTurn(manual, ok)
             /\ UNCHANGED <<work, crashed, shared>>
             /\ EndCall
          \/ /\ bg.isManual /\ manual = NoCaller
             /\ crashed' = TRUE
             /\ bg' = [bg EXCEPT !.pc = "crashed"]
             /\ UNCHANGED <<manual, caller, done, pieces, work, scheduled, pool>>
    BY <1>7 DEF EndWork
  <2>0. worker = "db" /\ ok \in BOOLEAN /\ bgError' \in BOOLEAN
    BY <1>t, <1>7, ManualAssumption DEF EndWork, ManualIInv, WorkHasRequest, ManualTypeOK
  <2>1. CASE /\ ~bg.isManual
             /\ needs' = (needs /\ ~ok)
             /\ UNCHANGED <<manual, done, pieces, imm, made, crashed, shared>>
             /\ EndCall
    <3>1. Ended
      BY <1>t, <2>0, <2>1, EndCallKeeps DEF HasWork, ManualTypeOK
    <3> QED
      BY <1>t, <1>s, <2>0, <2>1, <3>1
         DEF ManualIInv, ManualTypeOK, PostedIsInside, DoneIsDone,
             ReturnMeansDone, WorkHasRequest
  <2>2. CASE /\ bg.isManual /\ manual # NoCaller
             /\ ManualTurn(manual, ok)
             /\ UNCHANGED <<work, crashed, shared>>
             /\ EndCall
    <3>1. Ended
      BY <1>t, <2>0, <2>2, EndCallKeeps DEF HasWork, ManualTypeOK, ManualTurn, work
    <3>2. pieces[manual] \in 1 .. MaxPieces /\ manual \in Callers
      BY <1>7, <2>2, ManualAssumption DEF EndWork, ManualIInv, ManualTypeOK, WorkHasRequest
    <3>3. ManualTypeOK'
      BY <1>t, <1>s, <2>0, <2>2, <3>1, <3>2, ManualAssumption
         DEF ManualTypeOK, ManualTurn, work
    <3>4. DoneIsDone'
      BY <1>t, <2>0, <2>2, <3>2
         DEF ManualIInv, ManualTypeOK, PostedIsInside, DoneIsDone, ManualTurn
    <3>5. ReturnMeansDone'
      BY <1>t, <1>s, <2>0, <2>2, <3>1, <3>2
         DEF ManualIInv, ManualTypeOK, PostedIsInside, ReturnMeansDone, ManualTurn
    <3> QED
      BY <2>2, <3>1, <3>3, <3>4, <3>5
         DEF ManualIInv, PostedIsInside, WorkHasRequest, ManualTurn
  <2>3. CASE /\ bg.isManual /\ manual = NoCaller
             /\ crashed' = TRUE
             /\ bg' = [bg EXCEPT !.pc = "crashed"]
             /\ UNCHANGED <<manual, caller, done, pieces, work, scheduled, pool>>
    <3>1. ScheduledOnce'
      BY <1>t, <2>3 DEF pool, poolVars, ScheduledOnce, InQueue
    <3>2. ManualTypeOK'
      BY <1>t, <2>0, <2>3 DEF pool, poolVars, work, ManualTypeOK
    <3> QED
      BY <1>t, <2>0, <2>3, <3>1, <3>2
         DEF ManualIInv, ManualTypeOK, PostedIsInside, DoneIsDone,
             ReturnMeansDone, WorkHasRequest
  <2> QED  BY <2>1, <2>2, <2>3
<1> QED  BY <1>1, <1>2, <1>3, <1>4, <1>5, <1>6, <1>7

(* The thread itself, and the other threads and databases, keep it.        *)
LEMMA OthersKeep ==
  ASSUME ManualIInv, ThreadMain \/ NewWork \/ SyncError \/ OtherSchedule
  PROVE  ManualIInv'
<1>t. ManualTypeOK /\ ScheduledOnce
  BY DEF ManualIInv
<1>a. ASSUME Apart, ScheduledOnce', shared' \in 0 .. MaxShared,
             queue' \in Seq({"db", "other"}),
             worker' \in {"none", "loop", "waiting", "db", "other"},
             worker = "db" => worker' = "db"
      PROVE  ManualIInv'
  BY <1>t, <1>a
     DEF Apart, work, ManualIInv, ManualTypeOK, PostedIsInside, DoneIsDone,
         ReturnMeansDone, WorkHasRequest
<1>1. CASE ThreadMain
  <2>1. CASE WaitForWork \/ WorkDone("other")
    BY <1>t, <1>a, <1>1, <2>1
       DEF ThreadMain, WaitForWork, WorkDone, Apart, ScheduledOnce, InQueue, ManualTypeOK
  <2>2. CASE TakeWork
    <3>1. /\ queue' \in Seq({"db", "other"}) /\ worker' = queue[1]
          /\ queue[1] \in {"db", "other"}
          /\ Len(queue') = Len(queue) - 1 /\ Len(queue) \in Nat \ {0}
          /\ \A i \in 1 .. Len(queue') : queue'[i] = queue[i + 1]
      BY <1>t, <2>2, TailPlaces DEF TakeWork, ManualTypeOK
    <3>2. \A i \in 1 .. Len(queue') : i + 1 \in 1 .. Len(queue) /\ i + 1 # 1
      BY <3>1
    <3>3. \A i \in 1 .. Len(queue) :
            i = 1 \/ (i - 1 \in 1 .. Len(queue') /\ queue'[i - 1] = queue[i])
      BY <3>1
    <3>4. InQueue <=> queue[1] = "db" \/ InQueue'
      BY <3>1, <3>2, <3>3 DEF InQueue
    <3>5. queue[1] = "db" => ~InQueue'
      BY <1>t, <3>1, <3>2 DEF InQueue, ScheduledOnce
    <3>6. \A i, j \in 1 .. Len(queue') :
            queue'[i] = "db" /\ queue'[j] = "db" => i = j
      BY <1>t, <3>1, <3>2 DEF ScheduledOnce
    <3>7. ScheduledOnce'
      BY <1>t, <1>1, <2>2, <3>1, <3>4, <3>5, <3>6
         DEF ScheduledOnce, ThreadMain, Apart, TakeWork
    <3> QED
      BY <1>t, <1>a, <1>1, <2>2, <3>1, <3>7 DEF ThreadMain, TakeWork, ManualTypeOK
  <2> QED  BY <1>1, <2>1, <2>2 DEF ThreadMain
<1>2. CASE NewWork
  <2>1. imm' \in BOOLEAN /\ needs' \in BOOLEAN /\ made' \in 0 .. MaxOther
    <3>1. imm' \in BOOLEAN /\ needs' \in BOOLEAN
      BY <1>t, <1>2, Zenon DEF NewWork, ManualTypeOK
    <3>2. made' \in 0 .. MaxOther
      BY <1>t, <1>2, ManualAssumption DEF NewWork, ManualTypeOK
    <3> QED  BY <3>1, <3>2
  <2>2. HasWork' \in BOOLEAN
    BY <1>t, <1>2, <2>1 DEF NewWork, HasWork, ManualTypeOK
  <2>3. /\ queue' \in Seq({"db", "other"}) /\ scheduled' \in BOOLEAN
        /\ worker' \in {"none", "loop", "waiting", "db", "other"}
        /\ worker' = "db" <=> worker = "db"
        /\ ScheduledOnce'
    BY <1>t, <1>2, <2>2, MaybeScheduleKeeps
       DEF NewWork, ManualTypeOK, ScheduledOnce
  <2> QED
    BY <1>t, <1>2, <2>1, <2>3
       DEF NewWork, ManualIInv, ManualTypeOK, PostedIsInside, DoneIsDone,
           ReturnMeansDone, WorkHasRequest
<1>3. CASE SyncError
  <2>1. ScheduledOnce'
    BY <1>t, <1>3 DEF SyncError, pool, poolVars, ScheduledOnce, InQueue
  <2>2. ManualTypeOK'
    BY <1>t, <1>3, SignalAllFacts
       DEF SyncError, pool, poolVars, work, ManualTypeOK
  <2> QED
    BY <1>t, <1>3, <2>1, <2>2, SignalAllFacts
       DEF SyncError, pool, poolVars, ManualIInv, ManualTypeOK,
           PostedIsInside, DoneIsDone, ReturnMeansDone, WorkHasRequest
<1>4. CASE OtherSchedule
  <2>1. /\ queue' \in Seq({"db", "other"})
        /\ Len(queue') = Len(queue) + 1 /\ Len(queue) \in Nat
        /\ queue'[Len(queue) + 1] = "other"
        /\ \A i \in 1 .. Len(queue) : queue'[i] = queue[i]
    BY <1>t, <1>4, AppendPlaces DEF OtherSchedule, Schedule, ManualTypeOK
  <2>2. /\ worker' \in {"none", "loop", "waiting", "db", "other"}
        /\ worker' = "db" <=> worker = "db"
    BY <1>t, <1>4 DEF OtherSchedule, Schedule, Signalled, ManualTypeOK
  <2>3. ScheduledOnce'
    BY <1>t, <1>4, <2>1, <2>2 DEF OtherSchedule, Apart, ScheduledOnce, InQueue
  <2> QED
    BY <1>t, <1>4, <1>a, <2>1, <2>2, <2>3, ManualAssumption
       DEF OtherSchedule, ManualTypeOK
<1> QED  BY <1>1, <1>2, <1>3, <1>4

(* Every step keeps the invariant.                                         *)
LEMMA ManualNextInv == ManualIInv /\ [ManualNext]_manualVars => ManualIInv'
<1> SUFFICES ASSUME ManualIInv, [ManualNext]_manualVars PROVE ManualIInv'
  OBVIOUS
<1>1. CASE UNCHANGED manualVars
  BY <1>1 DEF manualVars, work, pool, poolVars, ManualIInv, ManualTypeOK,
              PostedIsInside, DoneIsDone, ReturnMeansDone, WorkHasRequest,
              ScheduledOnce, InQueue
<1> QED
  BY <1>1, CallerKeeps, BackgroundKeeps, OthersKeep
     DEF ManualNext, Background, Rest

(* The invariant holds in every reachable state.                           *)
LEMMA ManualInv == ManualSpec => []ManualIInv
BY ManualInitInv, ManualNextInv, PTL DEF ManualSpec


(* Every variable keeps its type: in particular pieces of a range never    *)
(* go below zero.                                                          *)
THEOREM ManualTypeCorrect == ManualSpec => []ManualTypeOK
BY ManualInv, PTL DEF ManualIInv

(* manual_compaction_ never points into a call that has returned, and the  *)
(* work of this database is with the Env exactly once while                *)
(* background_compaction_scheduled_ says so: the assertion of              *)
(* BackgroundCall holds however callers, errors and other databases        *)
(* interleave.                                                             *)
THEOREM RequestsDoNotDangle == ManualSpec => []NoDanglingRequest
<1>1. ManualIInv => NoDanglingRequest
  <2> SUFFICES ASSUME ManualIInv PROVE NoDanglingRequest
    OBVIOUS
  <2> DEFINE mine == {i \in DOMAIN queue : queue[i] = "db"}
  <2>0. /\ queue \in Seq({"db", "other"}) /\ DOMAIN queue = 1 .. Len(queue)
        /\ scheduled \in BOOLEAN
    BY DEF ManualIInv, ManualTypeOK
  <2>1. CASE InQueue
    <3>1. PICK i \in 1 .. Len(queue) : mine = {i}
      BY <2>0, <2>1 DEF InQueue, ManualIInv, ScheduledOnce
    <3>2. Cardinality(mine) = 1
      BY <3>1, FS_Singleton
    <3> QED
      BY <2>1, <3>2
         DEF ManualIInv, ScheduledOnce, PostedIsInside, NoDanglingRequest
  <2>2. CASE ~InQueue
    <3>1. mine = {}
      BY <2>0, <2>2 DEF InQueue
    <3>2. Cardinality(mine) = 0
      BY <3>1, FS_EmptySet
    <3> QED
      BY <2>2, <3>2
         DEF ManualIInv, ScheduledOnce, PostedIsInside, NoDanglingRequest
  <2> QED  BY <2>1, <2>2
<1> QED  BY <1>1, ManualInv, PTL

(* A call of TEST_CompactRange that has returned while no error is         *)
(* recorded has had all of its range compacted.                            *)
THEOREM ReturnsAreDone == ManualSpec => []ReturnMeansDone
BY ManualInv, PTL DEF ManualIInv
=============================================================================
