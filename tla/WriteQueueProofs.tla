-------------------------- MODULE WriteQueueProofs --------------------------
(***************************************************************************)
(* Proofs about the write path, for any number of writers and iterators,   *)
(* any requests and any limits: TypeOK, ExclusiveLogger, StoreComplete,    *)
(* SnapshotConsistency, Recoverable, StatusTruthful and RealTimeOrder hold *)
(* in every behaviour of Spec.                                             *)
(*                                                                         *)
(* None of them is inductive.  BgInv says what the background thread knows *)
(* of imm_ and level 0 at each of its steps; QueueInv that a writer that   *)
(* is not done is in the queue; StoreInv which entries may be above        *)
(* LastSequence(); SnapInv that no snapshot is ahead of it.  LogInv        *)
(* follows the records of a group from the log into the memtable and says  *)
(* which logs are still needed.  OutcomeInv follows the batches: a writer  *)
(* that is not finished, one that has not yet queued or is in the queue,   *)
(* has entries in the store only through the group that is being written;  *)
(* the group has exactly the operations of its writers, each in order; and *)
(* what a finished writer was told is what the store has.                  *)
(***************************************************************************)
EXTENDS WriteQueue, FiniteSetTheorems, FunctionTheorems, SequenceTheorems, TLAPS

Unlocked == {"log", "sync", "insert", "relock"}   \* the group is written
FlushPc == {"flush", "build", "built", "manifest"}

BgInv ==
  /\ scheduled = (bg.pc # "idle")
  /\ bg.pc \in FlushPc => imm # 0
  /\ bg.pc = "pick" => l0 >= L0Trigger
  /\ bg.pc = "mmanifest" => l0 >= 1
  /\ \/ bg.pc \in {"compact", "cmanifest"}
     \/ bg.pc \in FlushPc \cup {"purge"} /\ bg.ret = "compact"
     => bg.l0 <= l0

TInv == TypeOK /\ BgInv

QueueInv ==
  \A w \in Writers :
    pc[w] \in {"check", "cv", "woken"} /\ ~done[w] =>
      \E j \in 1 .. Len(queue) : queue[j] = w

-----------------------------------------------------------------------------
(* Facts about the operators.                                              *)

(* Waking writers keeps the type of pc.                                    *)
LEMMA WakeAllType ==
  ASSUME NEW p \in [Writers -> WriterPc]
  PROVE  WakeAll(p) \in [Writers -> WriterPc]
BY DEF WakeAll, Woken, WriterPc, Leading

(* Signalling writers keeps the type of pc.                                *)
LEMMA SignalToType ==
  ASSUME NEW p \in [Writers -> WriterPc], NEW S
  PROVE  SignalTo(S, p) \in [Writers -> WriterPc]
BY DEF SignalTo, WriterPc, Leading

(* A signal changes only where waiting writers are, and none of them leads *)
(* or starts to lead.                                                      *)
LEMMA WakeAllLeading ==
  ASSUME NEW p \in [Writers -> WriterPc], NEW w \in Writers
  PROVE  /\ WakeAll(p)[w] \in Leading <=> p[w] \in Leading
         /\ WakeAll(p)[w] \in Unlocked <=> p[w] \in Unlocked
         /\ p[w] \in Unlocked => WakeAll(p)[w] = p[w]
         /\ WakeAll(p)[w] \in Unlocked \cup {"check", "cv", "woken"} =>
              p[w] = WakeAll(p)[w]
BY DEF WakeAll, Woken, WriterPc, Leading, Unlocked

(* The number of operations of a batch is a natural number.                *)
LEMMA OpsType ==
  ASSUME TypeOK, NEW w \in Writers
  PROVE  Ops(w) \in Nat
<1>1. req[w] \in Requests
  BY DEF TypeOK, WriterTypes
<1>2. req[w].ops \in Nat \cup {NullBatch}
  BY <1>1, WQAssumption
<1>. QED
  BY <1>2 DEF Ops, IsNull

(* The operations of the first j writers are finitely many, and a prefix   *)
(* of the queue has no more of them than a longer one.                     *)
LEMMA OpsToFinite ==
  ASSUME TypeOK, NEW j \in 0 .. Len(queue)
  PROVE  IsFiniteSet(OpsTo(j))
<1>. DEFINE Block(i) == {<<i, m>> : m \in 1 .. Ops(queue[i])}
<1>. DEFINE Blocks == {Block(i) : i \in 1 .. j}
<1>1. j \in Nat /\ \A i \in 1 .. j : queue[i] \in Writers
  BY DEF TypeOK, WriterTypes
<1>2. \A i \in 1 .. j : IsFiniteSet(Block(i))
  <2>. SUFFICES ASSUME NEW i \in 1 .. j
                PROVE  IsFiniteSet(Block(i))
    OBVIOUS
  <2>1. Ops(queue[i]) \in Nat
    BY <1>1, OpsType
  <2>2. IsFiniteSet(1 .. Ops(queue[i]))
    BY <2>1, FS_Interval
  <2>. DEFINE f == [m \in 1 .. Ops(queue[i]) |-> <<i, m>>]
  <2>3. f \in Surjection(1 .. Ops(queue[i]), Block(i))
    BY DEF Surjection
  <2>. QED
    BY <2>2, <2>3, FS_Surjection
<1>3. IsFiniteSet(Blocks)
  <2>1. IsFiniteSet(1 .. j)
    BY <1>1, FS_Interval
  <2>. DEFINE g == [i \in 1 .. j |-> Block(i)]
  <2>2. g \in Surjection(1 .. j, Blocks)
    BY DEF Surjection
  <2>. QED
    BY <2>1, <2>2, FS_Surjection
<1>4. IsFiniteSet(UNION Blocks)
  BY <1>2, <1>3, FS_UNION
<1>. QED
  BY <1>4 DEF OpsTo

(* One more writer adds its operations to the size of the group.           *)
LEMMA SizeToStep ==
  ASSUME TypeOK, NEW j \in 1 .. Len(queue)
  PROVE  /\ SizeTo(j) \in Nat /\ SizeTo(j - 1) \in Nat
         /\ SizeTo(j) = SizeTo(j - 1) + Ops(queue[j])
<1>. DEFINE Block == {<<j, m>> : m \in 1 .. Ops(queue[j])}
<1>1. Ops(queue[j]) \in Nat
  <2>1. queue \in Seq(Writers)
    BY DEF TypeOK, WriterTypes
  <2>2. queue[j] \in Writers
    BY <2>1
  <2>. QED
    BY <2>2, OpsType
<1>2. IsFiniteSet(OpsTo(j)) /\ IsFiniteSet(OpsTo(j - 1))
  <2>1. j \in 0 .. Len(queue) /\ j - 1 \in 0 .. Len(queue)
    BY DEF TypeOK, WriterTypes
  <2>. QED
    BY <2>1, OpsToFinite
<1>3. IsFiniteSet(Block) /\ Cardinality(Block) = Ops(queue[j])
  <2>1. IsFiniteSet(1 .. Ops(queue[j])) /\ Cardinality(1 .. Ops(queue[j])) = Ops(queue[j])
    BY <1>1, FS_Interval
  <2>. DEFINE f == [m \in 1 .. Ops(queue[j]) |-> <<j, m>>]
  <2>2. f \in Injection(1 .. Ops(queue[j]), Block)
    BY DEF Injection, IsInjective
  <2>4. f \in Surjection(1 .. Ops(queue[j]), Block)
    BY DEF Surjection
  <2>3. ExistsBijection(1 .. Ops(queue[j]), Block)
    BY <2>2, <2>4 DEF ExistsBijection, Bijection
  <2>. QED
    BY <2>1, <2>3, FS_Bijection
<1>4. OpsTo(j) = OpsTo(j - 1) \cup Block
  <2>1. 1 .. j = (1 .. (j - 1)) \cup {j}
    BY DEF TypeOK, WriterTypes
  <2>. QED
    BY <2>1 DEF OpsTo
<1>5. OpsTo(j - 1) \cap Block = {}
  <2>1. \A i \in 1 .. (j - 1) : i # j
    BY DEF TypeOK, WriterTypes
  <2>. QED
    BY <2>1 DEF OpsTo
<1>6. Cardinality({}) = 0
  BY FS_EmptySet
<1>7. Cardinality(OpsTo(j - 1) \cup Block)
        = Cardinality(OpsTo(j - 1)) + Cardinality(Block) - Cardinality(OpsTo(j - 1) \cap Block)
  BY <1>2, <1>3, FS_Union
<1>8. Cardinality(OpsTo(j)) \in Nat /\ Cardinality(OpsTo(j - 1)) \in Nat
  BY <1>2, FS_CardinalityType
<1>9. Cardinality(OpsTo(j)) = Cardinality(OpsTo(j - 1)) + Ops(queue[j]) - 0
  BY <1>3, <1>4, <1>5, <1>6, <1>7, Zenon
<1>. QED
  BY <1>1, <1>8, <1>9 DEF SizeTo

(* A longer prefix of the queue has at least as many operations.           *)
LEMMA SizeToMonotone ==
  ASSUME TypeOK, NEW k \in 0 .. Len(queue), NEW j \in 0 .. k
  PROVE  /\ SizeTo(j) \in Nat /\ SizeTo(k) \in Nat
         /\ SizeTo(j) <= SizeTo(k)
<1>1. j \in 0 .. Len(queue) /\ 1 .. j \subseteq 1 .. k
  BY DEF TypeOK, WriterTypes
<1>2. IsFiniteSet(OpsTo(j)) /\ IsFiniteSet(OpsTo(k))
  BY <1>1, OpsToFinite
<1>3. OpsTo(j) \subseteq OpsTo(k)
  BY <1>1 DEF OpsTo
<1>. QED
  BY <1>2, <1>3, FS_Subset, FS_CardinalityType DEF SizeTo

(* The entries of a group have the sequence numbers that follow            *)
(* LastSequence(), and no others.                                          *)
LEMMA GroupEntriesRange ==
  ASSUME TypeOK, NEW k \in 1 .. Len(queue)
  PROVE  /\ GroupEntries(k) \subseteq Entry
         /\ SizeTo(k) \in Nat
         /\ \A e \in GroupEntries(k) :
              lastSequence < e.seq /\ e.seq <= lastSequence + SizeTo(k)
<1>0. k \in 0 .. Len(queue)
  BY DEF TypeOK, WriterTypes
<1>1. SizeTo(k) \in Nat
  BY <1>0, SizeToMonotone DEF TypeOK, WriterTypes
<1>2. ASSUME NEW j \in 1 .. k, NEW i \in 1 .. Ops(queue[j])
      PROVE  LET e == [seq |-> lastSequence + SizeTo(j - 1) + i, w |-> queue[j], i |-> i]
             IN  e \in Entry /\ lastSequence < e.seq
                   /\ e.seq <= lastSequence + SizeTo(k)
  <2>1. j \in 1 .. Len(queue) /\ j \in 0 .. k /\ queue[j] \in Writers
    BY DEF TypeOK, WriterTypes
  <2>2. /\ SizeTo(j) \in Nat /\ SizeTo(j - 1) \in Nat
        /\ SizeTo(j) = SizeTo(j - 1) + Ops(queue[j])
    BY <2>1, SizeToStep
  <2>3. SizeTo(j) <= SizeTo(k)
    BY <1>0, <2>1, SizeToMonotone
  <2>4. Ops(queue[j]) \in Nat /\ lastSequence \in Nat
    BY <2>1, OpsType DEF TypeOK, WriterTypes, DataTypes
  <2>. QED
    BY <1>1, <2>1, <2>2, <2>3, <2>4, SMTT(20) DEF Entry
<1>. QED
  BY <1>1, <1>2 DEF GroupEntries, EntriesAt

-----------------------------------------------------------------------------
(* Type correctness.                                                       *)

(* The initial state satisfies the types.                                  *)
LEMMA TInvInit == Init => TInv
<1>. SUFFICES ASSUME Init PROVE TInv
  OBVIOUS
<1>. USE WQAssumption
<1>1. WriterTypes
  <2>1. NoGroup \in GroupType
    BY DEF NoGroup, GroupType
  <2>. QED
    BY <2>1 DEF Init, WriterTypes, WriterPc
<1>2. DataTypes
  BY DEF Init, DataTypes, LogNumbers
<1>3. BgTypes /\ BgInv
  BY DEF Init, BgTypes, BgPc, BgInv, FlushPc
<1>4. iter \in [Iters -> ViewType]
  <2>1. NoView \in ViewType
    BY DEF NoView, ViewType
  <2>. QED
    BY <2>1 DEF Init
<1>. QED
  BY <1>1, <1>2, <1>3, <1>4 DEF TInv, TypeOK

(* What does not touch the shared state keeps its types.                   *)
LEMMA SharedFrame ==
  ASSUME DataTypes, BgTypes, BgInv, iter \in [Iters -> ViewType],
         UNCHANGED sharedVars
  PROVE  DataTypes' /\ BgTypes' /\ BgInv' /\ iter' \in [Iters -> ViewType]
<1>1. /\ log' = log /\ synced' = synced /\ sound' = sound /\ table' = table
      /\ mem' = mem /\ imm' = imm /\ lastSequence' = lastSequence
      /\ version' = version /\ l0' = l0 /\ logNumber' = logNumber
      /\ bgError' = bgError /\ scheduled' = scheduled /\ bg' = bg
      /\ iter' = iter /\ dtor' = dtor /\ committed' = committed
      /\ before' = before
  BY DEF sharedVars, dataVars, bgVars
<1>2. DataTypes'
  BY <1>1, Zenon DEF DataTypes
<1>3. BgTypes'
  BY <1>1, Zenon DEF BgTypes
<1>4. BgInv'
  BY <1>1, Zenon DEF BgInv
<1>. QED
  BY <1>1, <1>2, <1>3, <1>4

(* A reader changes only its iterator.                                     *)
LEMMA ReaderFrame ==
  ASSUME WriterTypes, DataTypes, BgTypes, BgInv,
         UNCHANGED <<mutex, writerVars, dataVars, bgVars, dtor, committed, before>>
  PROVE  WriterTypes' /\ DataTypes' /\ BgTypes' /\ BgInv'
<1>1. /\ log' = log /\ synced' = synced /\ sound' = sound /\ table' = table
      /\ mem' = mem /\ imm' = imm /\ lastSequence' = lastSequence
      /\ version' = version /\ l0' = l0 /\ logNumber' = logNumber
      /\ bgError' = bgError /\ scheduled' = scheduled /\ bg' = bg
      /\ dtor' = dtor /\ committed' = committed /\ before' = before
  BY DEF dataVars, bgVars
<1>2. /\ mutex' = mutex /\ pc' = pc /\ req' = req /\ done' = done
      /\ status' = status /\ force' = force /\ delay' = delay
      /\ group' = group /\ queue' = queue
  BY DEF writerVars
<1>3. DataTypes'
  BY <1>1, Zenon DEF DataTypes
<1>4. BgTypes' /\ BgInv'
  BY <1>1, Zenon DEF BgTypes, BgInv
<1>5. WriterTypes'
  BY <1>2, Zenon DEF WriterTypes
<1>. QED
  BY <1>3, <1>4, <1>5

(* Every step keeps them.                                                  *)
LEMMA TInvNext == TInv /\ [Next]_vars => TInv'
<1>. SUFFICES ASSUME TInv, [Next]_vars PROVE TInv'
  OBVIOUS
<1>. USE WQAssumption
<1>0. WriterTypes /\ DataTypes /\ BgTypes /\ BgInv /\ iter \in [Iters -> ViewType]
  BY DEF TInv, TypeOK
<1>1. ASSUME NEW w \in Writers, Call(w)
      PROVE  TInv'
  <2>1. WriterTypes'
    BY <1>0, <1>1
    DEF Call, Goto, WriterTypes, WriterPc, Leading, writerVars, dataVars, bgVars, sharedVars, ownVars, allButBg
  <2>2. DataTypes'
    BY <1>0, <1>1
    DEF Call, Goto, DataTypes, LogNumbers, writerVars, dataVars, bgVars, sharedVars, ownVars, allButBg
  <2>3. BgTypes' /\ BgInv' /\ iter' \in [Iters -> ViewType]
    BY <1>0, <1>1 DEF Call, WriterTypes, DataTypes, BgTypes, BgInv, writerVars, dataVars, bgVars, sharedVars, ownVars, allButBg
  <2>. QED
    BY <2>1, <2>2, <2>3 DEF TInv, TypeOK
<1>2. ASSUME NEW w \in Writers, Enqueue(w)
      PROVE  TInv'
  <2>1. WriterTypes'
    BY <1>0, <1>2
    DEF Enqueue, Goto, WriterTypes, WriterPc, Leading, writerVars, dataVars, bgVars, sharedVars, ownVars, allButBg
  <2>2. DataTypes' /\ BgTypes' /\ BgInv' /\ iter' \in [Iters -> ViewType]
    <3>. UNCHANGED sharedVars
      BY <1>2 DEF Enqueue
    <3>. QED
      BY <1>0, SharedFrame
  <2>. QED
    BY <2>1, <2>2 DEF TInv, TypeOK
<1>3. ASSUME NEW w \in Writers, CheckFront(w)
      PROVE  TInv'
  <2>1. WriterTypes'
    <3>1. AfterWrite(w, status[w]) \in WriterPc
      BY DEF AfterWrite, WriterPc
    <3>2. "cv" \in WriterPc /\ "room" \in WriterPc /\ IsNull(w) \in BOOLEAN
      BY DEF WriterPc, Leading, IsNull
    <3>3. PICK p \in WriterPc : pc' = [pc EXCEPT ![w] = p]
      BY <3>1, <3>2, <1>3 DEF CheckFront, Goto
    <3>4. mutex' \in {mutex, NoThread}
      BY <1>3 DEF CheckFront
    <3>5. /\ force' = force \/ force' = [force EXCEPT ![w] = IsNull(w)]
          /\ delay' = delay \/ delay' = [delay EXCEPT ![w] = ~IsNull(w)]
      BY <1>3 DEF CheckFront
    <3>6. UNCHANGED <<req, done, status, group, queue>>
      BY <1>3 DEF CheckFront
    <3>. QED
      BY <1>0, <3>2, <3>3, <3>4, <3>5, <3>6 DEF WriterTypes
  <2>2. DataTypes' /\ BgTypes' /\ BgInv' /\ iter' \in [Iters -> ViewType]
    <3>. UNCHANGED sharedVars
      BY <1>3 DEF CheckFront
    <3>. QED
      BY <1>0, SharedFrame
  <2>. QED
    BY <2>1, <2>2 DEF TInv, TypeOK
<1>4. ASSUME NEW w \in Writers, Rewait(w)
      PROVE  TInv'
  <2>1. WriterTypes'
    BY <1>0, <1>4
    DEF Rewait, Goto, WriterTypes, WriterPc, Leading, writerVars, dataVars, bgVars, sharedVars, ownVars, allButBg
  <2>2. DataTypes' /\ BgTypes' /\ BgInv' /\ iter' \in [Iters -> ViewType]
    <3>. UNCHANGED sharedVars
      BY <1>4 DEF Rewait
    <3>. QED
      BY <1>0, SharedFrame
  <2>. QED
    BY <2>1, <2>2 DEF TInv, TypeOK
<1>5. ASSUME NEW w \in Writers, RoomError(w)
      PROVE  TInv'
  <2>1. WriterTypes'
    BY <1>0, <1>5
    DEF RoomError, Goto, WriterTypes, WriterPc, Leading, writerVars, dataVars, bgVars, sharedVars, ownVars, allButBg
  <2>2. DataTypes' /\ BgTypes' /\ BgInv' /\ iter' \in [Iters -> ViewType]
    <3>. UNCHANGED sharedVars
      BY <1>5 DEF RoomError
    <3>. QED
      BY <1>0, SharedFrame
  <2>. QED
    BY <2>1, <2>2 DEF TInv, TypeOK
<1>6. ASSUME NEW w \in Writers, RoomDelay(w)
      PROVE  TInv'
  <2>1. WriterTypes'
    BY <1>0, <1>6
    DEF RoomDelay, Goto, WriterTypes, WriterPc, Leading, writerVars, dataVars, bgVars, sharedVars, ownVars, allButBg
  <2>2. DataTypes' /\ BgTypes' /\ BgInv' /\ iter' \in [Iters -> ViewType]
    <3>. UNCHANGED sharedVars
      BY <1>6 DEF RoomDelay
    <3>. QED
      BY <1>0, SharedFrame
  <2>. QED
    BY <2>1, <2>2 DEF TInv, TypeOK
<1>7. ASSUME NEW w \in Writers, RoomAvailable(w)
      PROVE  TInv'
  <2>1. WriterTypes'
    BY <1>0, <1>7
    DEF RoomAvailable, Goto, WriterTypes, WriterPc, Leading, writerVars, dataVars, bgVars, sharedVars, ownVars, allButBg
  <2>2. DataTypes' /\ BgTypes' /\ BgInv' /\ iter' \in [Iters -> ViewType]
    <3>. UNCHANGED sharedVars
      BY <1>7 DEF RoomAvailable
    <3>. QED
      BY <1>0, SharedFrame
  <2>. QED
    BY <2>1, <2>2 DEF TInv, TypeOK
<1>8. ASSUME NEW w \in Writers, RoomWait(w)
      PROVE  TInv'
  <2>1. WriterTypes'
    BY <1>0, <1>8
    DEF RoomWait, Goto, WriterTypes, WriterPc, Leading, writerVars, dataVars, bgVars, sharedVars, ownVars, allButBg
  <2>2. DataTypes' /\ BgTypes' /\ BgInv' /\ iter' \in [Iters -> ViewType]
    <3>. UNCHANGED sharedVars
      BY <1>8 DEF RoomWait
    <3>. QED
      BY <1>0, SharedFrame
  <2>. QED
    BY <2>1, <2>2 DEF TInv, TypeOK
<1>9. ASSUME NEW w \in Writers, RoomNewLogFails(w)
      PROVE  TInv'
  <2>1. WriterTypes'
    BY <1>0, <1>9
    DEF RoomNewLogFails, Goto, WriterTypes, WriterPc, Leading, writerVars, dataVars, bgVars, sharedVars, ownVars, allButBg
  <2>2. DataTypes' /\ BgTypes' /\ BgInv' /\ iter' \in [Iters -> ViewType]
    <3>. UNCHANGED sharedVars
      BY <1>9 DEF RoomNewLogFails
    <3>. QED
      BY <1>0, SharedFrame
  <2>. QED
    BY <2>1, <2>2 DEF TInv, TypeOK
<1>10. ASSUME NEW w \in Writers, RoomSwitch(w)
      PROVE  TInv'
  <2>1. WriterTypes'
    BY <1>0, <1>10, WakeAllType
    DEF RoomSwitch, CanSwitch, RecordBackgroundError, WakeDtor, MaybeScheduleCompaction, LogNumbers, WriterTypes, WriterPc, Leading, writerVars, dataVars, bgVars, sharedVars, ownVars, allButBg
  <2>2. DataTypes'
    <3>1. mem < MaxLogs /\ mem' = mem + 1 /\ imm' = mem
      BY <1>10 DEF RoomSwitch, CanSwitch
    <3>2. UNCHANGED <<log, synced, table, logNumber, lastSequence, version, l0,
                      committed, before>>
      BY <1>10 DEF RoomSwitch
    <3>3. mem + 1 \in LogNumbers
      BY <1>0, <3>1 DEF DataTypes, LogNumbers
    <3>4. sound' \in [LogNumbers -> Nat]
      <4>1. \/ sound' = sound
            \/ \E k \in 0 .. sound[mem] : sound' = [sound EXCEPT ![mem] = k]
        BY <1>10 DEF RoomSwitch
      <4>2. sound \in [LogNumbers -> Nat] /\ sound[mem] \in Nat
        BY <1>0 DEF DataTypes
      <4>. QED
        BY <4>1, <4>2
    <3>. QED
      BY <1>0, <3>1, <3>2, <3>3, <3>4 DEF DataTypes
  <2>3. BgTypes' /\ BgInv'
    BY <1>0, <1>10, ZenonT(40)
    DEF RoomSwitch, CanSwitch, RecordBackgroundError, WakeDtor, MaybeScheduleCompaction, LogNumbers, BgTypes, BgPc, BgInv, FlushPc, DataTypes, writerVars, dataVars, bgVars, sharedVars, ownVars, allButBg
  <2>4. iter' \in [Iters -> ViewType]
    BY <1>0, <1>10 DEF RoomSwitch
  <2>. QED
    BY <2>1, <2>2, <2>3, <2>4 DEF TInv, TypeOK
<1>11. ASSUME NEW w \in Writers, BuildGroup(w)
      PROVE  TInv'
  <2>1. WriterTypes'
    <3>1. PICK g \in GroupType : group' = [group EXCEPT ![w] = g]
      <4>1. CASE status[w] /\ ~IsNull(w)
        <5>1. PICK k \in 1 .. Len(queue) : group' = [group EXCEPT ![w] =
                 [last |-> k, count |-> SizeTo(k),
                  entries |-> GroupEntries(k), syncError |-> FALSE]]
          BY <4>1, <1>11 DEF BuildGroup
        <5>2. k \in Nat /\ SizeTo(k) \in Nat /\ GroupEntries(k) \subseteq Entry
          BY GroupEntriesRange DEF TInv
        <5>. QED
          BY <5>1, <5>2 DEF GroupType
      <4>2. CASE ~(status[w] /\ ~IsNull(w))
        BY <4>2, <1>11 DEF BuildGroup, NoGroup, GroupType
      <4>. QED
        BY <4>1, <4>2
    <3>2. \E p \in {"log", "finish"} : pc' = [pc EXCEPT ![w] = p]
      BY <1>11 DEF BuildGroup, Goto
    <3>3. mutex' \in {mutex, NoThread} /\ UNCHANGED <<req, done, status, force, delay, queue>>
      BY <1>11 DEF BuildGroup
    <3>. QED
      BY <1>0, <3>1, <3>2, <3>3 DEF WriterTypes, WriterPc, Leading
  <2>2. DataTypes' /\ BgTypes' /\ BgInv' /\ iter' \in [Iters -> ViewType]
    <3>. UNCHANGED sharedVars
      BY <1>11 DEF BuildGroup
    <3>. QED
      BY <1>0, SharedFrame
  <2>. QED
    BY <2>1, <2>2 DEF TInv, TypeOK
<1>12. ASSUME NEW w \in Writers, AddRecord(w)
      PROVE  TInv'
  <2>1. WriterTypes'
    BY <1>0, <1>12
    DEF AddRecord, Goto, WriterTypes, WriterPc, Leading, writerVars, dataVars, bgVars, sharedVars, ownVars, allButBg
  <2>2. DataTypes'
    <3>1. group[w].entries \in SUBSET Entry
      BY <1>0 DEF WriterTypes, GroupType
    <3>2. mem \in LogNumbers /\ log[mem] \in Seq(SUBSET Entry)
      BY <1>0 DEF DataTypes
    <3>3. Append(log[mem], group[w].entries) \in Seq(SUBSET Entry)
      BY <3>1, <3>2
    <3>4. log' = [log EXCEPT ![mem] = Append(@, group[w].entries)]
      BY <1>12 DEF AddRecord
    <3>6. sound' \in [LogNumbers -> Nat]
      <4>1. sound' = sound \/ sound' = [sound EXCEPT ![mem] = @ + 1]
        BY <1>12 DEF AddRecord, RecordFound
      <4>2. sound \in [LogNumbers -> Nat] /\ sound[mem] + 1 \in Nat
        BY <1>0 DEF DataTypes
      <4>. QED
        BY <4>1, <4>2
    <3>5. UNCHANGED <<synced, table, mem, imm, logNumber, lastSequence, version,
                      l0, committed, before>>
      BY <1>12 DEF AddRecord
    <3>. QED
      BY <1>0, <3>3, <3>4, <3>5, <3>6, ZenonT(40) DEF DataTypes
  <2>3. BgTypes' /\ BgInv' /\ iter' \in [Iters -> ViewType]
    BY <1>0, <1>12 DEF AddRecord, WriterTypes, DataTypes, BgTypes, BgInv, writerVars, dataVars, bgVars, sharedVars, ownVars, allButBg
  <2>. QED
    BY <2>1, <2>2, <2>3 DEF TInv, TypeOK
<1>13. ASSUME NEW w \in Writers, SyncLog(w)
      PROVE  TInv'
  <2>1. WriterTypes'
    <3>1. group' \in [Writers -> GroupType]
      <4>1. group' = group \/ group' = [group EXCEPT ![w] = [group[w] EXCEPT !.syncError = TRUE]]
        BY <1>13 DEF SyncLog
      <4>2. group[w] \in GroupType
        BY <1>0 DEF WriterTypes
      <4>3. [group[w] EXCEPT !.syncError = TRUE] \in GroupType
        BY <4>2 DEF GroupType
      <4>. QED
        BY <1>0, <4>1, <4>3 DEF WriterTypes
    <3>. QED
      BY <1>0, <3>1, <1>13 DEF SyncLog, Goto, WriterTypes, WriterPc, Leading
  <2>2. DataTypes'
    <3>1. mem \in LogNumbers /\ Len(log[mem]) \in Nat
      BY <1>0 DEF DataTypes
    <3>2. synced' = synced \/ synced' = [synced EXCEPT ![mem] = Len(log[mem])]
      BY <1>13 DEF SyncLog
    <3>3. UNCHANGED <<log, sound, table, mem, imm, logNumber, lastSequence,
                      version, l0, committed, before>>
      BY <1>13 DEF SyncLog
    <3>. QED
      BY <1>0, <3>1, <3>2, <3>3 DEF DataTypes
  <2>3. BgTypes' /\ BgInv' /\ iter' \in [Iters -> ViewType]
    BY <1>0, <1>13 DEF SyncLog, WriterTypes, DataTypes, BgTypes, BgInv, writerVars, dataVars, bgVars, sharedVars, ownVars, allButBg
  <2>. QED
    BY <2>1, <2>2, <2>3 DEF TInv, TypeOK
<1>14. ASSUME NEW w \in Writers, InsertInto(w)
      PROVE  TInv'
  <2>1. WriterTypes'
    BY <1>0, <1>14
    DEF InsertInto, Goto, WriterTypes, WriterPc, Leading, writerVars, dataVars, bgVars, sharedVars, ownVars, allButBg
  <2>2. DataTypes'
    <3>1. group[w].entries \in SUBSET Entry
      BY <1>0 DEF WriterTypes, GroupType
    <3>2. table' = table \/ \E e \in group[w].entries :
                              table' = [table EXCEPT ![mem] = table[mem] \cup {e}]
      BY <1>14 DEF InsertInto
    <3>4. \A e \in group[w].entries : table[mem] \cup {e} \in SUBSET Entry
      BY <1>0, <3>1 DEF DataTypes
    <3>5. table' \in [LogNumbers -> SUBSET Entry]
      <4>1. table \in [LogNumbers -> SUBSET Entry]
        BY <1>0 DEF DataTypes
      <4>. QED
        BY <3>2, <3>4, <4>1
    <3>3. UNCHANGED <<log, synced, sound, mem, imm, logNumber, lastSequence,
                      version, l0, committed, before>>
      BY <1>14 DEF InsertInto
    <3>. QED
      BY <1>0, <3>3, <3>5, Zenon DEF DataTypes
  <2>3. BgTypes' /\ BgInv' /\ iter' \in [Iters -> ViewType]
    BY <1>0, <1>14 DEF InsertInto, WriterTypes, DataTypes, BgTypes, BgInv, writerVars, dataVars, bgVars, sharedVars, ownVars, allButBg
  <2>. QED
    BY <2>1, <2>2, <2>3 DEF TInv, TypeOK
<1>15. ASSUME NEW w \in Writers, Relock(w)
      PROVE  TInv'
  <2>1. WriterTypes'
    <3>1. [pc EXCEPT ![w] = "finish"] \in [Writers -> WriterPc]
      BY <1>0 DEF WriterTypes, WriterPc, Leading
    <3>2. pc' = [pc EXCEPT ![w] = "finish"] \/ pc' = WakeAll([pc EXCEPT ![w] = "finish"])
      BY <1>15 DEF Relock, Goto, RecordBackgroundError
    <3>3. pc' \in [Writers -> WriterPc]
      BY <3>1, <3>2, WakeAllType
    <3>. QED
      BY <1>0, <3>3, <1>15 DEF Relock, WriterTypes, ownVars
  <2>2. DataTypes'
    <3>1. group[w].count \in Nat /\ group[w].entries \in SUBSET Entry
      BY <1>0 DEF WriterTypes, GroupType
    <3>2. lastSequence' \in Nat
      BY <1>0, <1>15, <3>1 DEF Relock, NewLastSequence, DataTypes
    <3>3. committed' \in SUBSET Entry
      BY <1>0, <1>15, <3>1 DEF Relock, DataTypes
    <3>4. /\ log' = log /\ synced' = synced /\ sound' = sound /\ table' = table
          /\ mem' = mem /\ imm' = imm /\ logNumber' = logNumber
          /\ version' = version /\ l0' = l0 /\ before' = before
      BY <1>15 DEF Relock
    <3>. QED
      BY <1>0, <3>2, <3>3, <3>4, Zenon DEF DataTypes
  <2>3. BgTypes' /\ BgInv'
    BY <1>0, <1>15
    DEF Relock, Goto, RecordBackgroundError, WakeDtor, NewLastSequence, BgTypes, BgPc, BgInv, FlushPc, writerVars, dataVars, bgVars, sharedVars, ownVars, allButBg
  <2>4. iter' \in [Iters -> ViewType]
    BY <1>0, <1>15 DEF Relock
  <2>. QED
    BY <2>1, <2>2, <2>3, <2>4 DEF TInv, TypeOK
<1>16. ASSUME NEW w \in Writers, Finish(w)
      PROVE  TInv'
  <2>1. WriterTypes'
    <3>. DEFINE q == [pc EXCEPT ![w] = AfterWrite(w, status[w])]
    <3>1. q \in [Writers -> WriterPc]
      BY <1>0 DEF WriterTypes, AfterWrite, WriterPc
    <3>2. pc' \in [Writers -> WriterPc]
      <4>1. PICK S : pc' = SignalTo(S, q)
        BY <1>16 DEF Finish
      <4>. HIDE DEF q
      <4>. QED
        BY <3>1, <4>1, SignalToType
    <3>3. queue' \in Seq(Writers)
      <4>1. group[w].last \in Nat /\ queue \in Seq(Writers) /\ Len(queue) \in Nat
        BY <1>0 DEF WriterTypes, GroupType
      <4>2. queue' = SubSeq(queue, group[w].last + 1, Len(queue))
        BY <1>16 DEF Finish
      <4>. QED
        BY <4>1, <4>2
    <3>4. done' \in [Writers -> BOOLEAN] /\ status' \in [Writers -> BOOLEAN]
      BY <1>0, <1>16 DEF Finish, WriterTypes
    <3>. QED
      BY <1>0, <3>2, <3>3, <3>4, <1>16 DEF Finish, WriterTypes
  <2>2. DataTypes' /\ BgTypes' /\ BgInv' /\ iter' \in [Iters -> ViewType]
    <3>. UNCHANGED sharedVars
      BY <1>16 DEF Finish
    <3>. QED
      BY <1>0, SharedFrame
  <2>. QED
    BY <2>1, <2>2 DEF TInv, TypeOK
<1>17. ASSUME NEW w \in Writers, AwaitFlush(w)
      PROVE  TInv'
  <2>1. WriterTypes'
    BY <1>0, <1>17
    DEF AwaitFlush, Goto, WriterTypes, WriterPc, Leading, writerVars, dataVars, bgVars, sharedVars, ownVars, allButBg
  <2>2. DataTypes' /\ BgTypes' /\ BgInv' /\ iter' \in [Iters -> ViewType]
    <3>. UNCHANGED sharedVars
      BY <1>17 DEF AwaitFlush
    <3>. QED
      BY <1>0, SharedFrame
  <2>. QED
    BY <2>1, <2>2 DEF TInv, TypeOK
<1>18. ASSUME NEW w \in Writers, SpuriousWake(w)
      PROVE  TInv'
  <2>1. WriterTypes'
    BY <1>0, <1>18
    DEF SpuriousWake, Goto, WriterTypes, WriterPc, Leading, writerVars, dataVars, bgVars, sharedVars, ownVars, allButBg
  <2>2. DataTypes' /\ BgTypes' /\ BgInv' /\ iter' \in [Iters -> ViewType]
    <3>. UNCHANGED sharedVars
      BY <1>18 DEF SpuriousWake
    <3>. QED
      BY <1>0, SharedFrame
  <2>. QED
    BY <2>1, <2>2 DEF TInv, TypeOK
<1>19. CASE BackgroundCall
  <2>1. WriterTypes'
    BY <1>0, <1>19
    DEF BackgroundCall, NeedsCompaction, WriterTypes, WriterPc, Leading, writerVars, dataVars, bgVars, sharedVars, ownVars, allButBg
  <2>2. BgTypes' /\ BgInv'
    BY <1>0, <1>19
    DEF BackgroundCall, NeedsCompaction, BgTypes, BgPc, BgInv, FlushPc, DataTypes, writerVars, dataVars, bgVars, sharedVars, ownVars, allButBg
  <2>3. DataTypes' /\ iter' \in [Iters -> ViewType]
    BY <1>0, <1>19 DEF BackgroundCall, WriterTypes, DataTypes, BgTypes, BgInv, writerVars, dataVars, bgVars, sharedVars, ownVars, allButBg
  <2>. QED
    BY <2>1, <2>2, <2>3 DEF TInv, TypeOK
<1>20. CASE FlushBegin
  <2>1. WriterTypes'
    BY <1>0, <1>20
    DEF FlushBegin, BgGoto, WriterTypes, WriterPc, Leading, writerVars, dataVars, bgVars, sharedVars, ownVars, allButBg
  <2>2. BgTypes' /\ BgInv'
    BY <1>0, <1>20
    DEF FlushBegin, BgGoto, BgTypes, BgPc, BgInv, FlushPc, writerVars, dataVars, bgVars, sharedVars, ownVars, allButBg
  <2>3. DataTypes' /\ iter' \in [Iters -> ViewType]
    BY <1>0, <1>20 DEF FlushBegin, WriterTypes, DataTypes, BgTypes, BgInv, writerVars, dataVars, bgVars, sharedVars, ownVars, allButBg
  <2>. QED
    BY <2>1, <2>2, <2>3 DEF TInv, TypeOK
<1>21. CASE BuildTable
  <2>1. BgTypes' /\ BgInv'
    BY <1>0, <1>21
    DEF BuildTable, BgTypes, BgPc, BgInv, FlushPc, writerVars, dataVars, bgVars, sharedVars, ownVars, allButBg
  <2>2. WriterTypes' /\ DataTypes' /\ iter' \in [Iters -> ViewType]
    BY <1>0, <1>21 DEF BuildTable, WriterTypes, DataTypes, BgTypes, BgInv, writerVars, dataVars, bgVars, sharedVars, ownVars, allButBg
  <2>. QED
    BY <2>1, <2>2 DEF TInv, TypeOK
<1>22. CASE FlushRelock
  <2>1. WriterTypes'
    BY <1>0, <1>22, WakeAllType
    DEF FlushRelock, BgGoto, RecordBackgroundError, WakeDtor, WriterTypes, WriterPc, Leading, writerVars, dataVars, bgVars, sharedVars, ownVars, allButBg
  <2>2. BgTypes' /\ BgInv'
    BY <1>0, <1>22
    DEF FlushRelock, BgGoto, RecordBackgroundError, WakeDtor, BgTypes, BgPc, BgInv, FlushPc, writerVars, dataVars, bgVars, sharedVars, ownVars, allButBg
  <2>3. DataTypes' /\ iter' \in [Iters -> ViewType]
    BY <1>0, <1>22 DEF FlushRelock, WriterTypes, DataTypes, BgTypes, BgInv, writerVars, dataVars, bgVars, sharedVars, ownVars, allButBg
  <2>. QED
    BY <2>1, <2>2, <2>3 DEF TInv, TypeOK
<1>23. CASE FlushInstall
  <2>1. WriterTypes'
    <3>1. /\ mutex' \in {BG, NoThread} /\ UNCHANGED ownVars
          /\ pc' \in {pc, WakeAll(pc)}
      BY <1>23 DEF FlushInstall, RecordBackgroundError, RemoveObsoleteFiles
    <3>2. pc' \in [Writers -> WriterPc]
      BY <1>0, <3>1, WakeAllType DEF WriterTypes
    <3>. QED
      BY <1>0, <3>1, <3>2 DEF WriterTypes, ownVars
  <2>2. DataTypes'
    <3>1. imm \in LogNumbers
      BY <1>0, <1>23 DEF FlushInstall, BgInv, FlushPc, DataTypes
    <3>2. /\ version' \in {version, version \cup table[imm]}
          /\ imm' \in {0, imm} /\ logNumber' \in {mem, logNumber}
          /\ l0' \in {l0, l0 + 1}
      BY <1>23 DEF FlushInstall, FlushedLogNumber
    <3>3. UNCHANGED <<log, synced, sound, table, mem, lastSequence, committed,
                      before>>
      BY <1>23 DEF FlushInstall
    <3>. QED
      <4>1. version' \in SUBSET Entry
        BY <1>0, <3>1, <3>2 DEF DataTypes
      <4>4. mem \in LogNumbers /\ logNumber \in LogNumbers /\ l0 \in Nat
        BY <1>0 DEF DataTypes
      <4>2. /\ imm' \in {0} \cup LogNumbers /\ logNumber' \in LogNumbers
            /\ l0' \in Nat
        BY <3>1, <3>2, <4>4
      <4>3. /\ log' = log /\ synced' = synced /\ sound' = sound
            /\ table' = table /\ mem' = mem /\ lastSequence' = lastSequence
            /\ committed' = committed /\ before' = before
        BY <3>3
      <4>. QED
        BY <1>0, <4>1, <4>2, <4>3, Zenon DEF DataTypes
  <2>3. BgTypes' /\ BgInv'
    <3>1. bg.pc = "manifest" /\ bg.ret \in {"end", "compact"} /\ l0 \in Nat
      BY <1>0, <1>23 DEF FlushInstall, BgTypes, DataTypes
    <3>2. l0' \in {l0, l0 + 1} /\ UNCHANGED scheduled
      BY <1>23 DEF FlushInstall
    <3>3. /\ bg'.pc \in {bg.ret, "purge"} /\ bg'.ret = bg.ret /\ bg'.l0 = bg.l0
          /\ bg.l0 \in Nat
          /\ bg' \in [pc : BgPc, ok : BOOLEAN, ret : {"end", "compact"}, l0 : Nat]
      BY <1>0, <3>1, <1>23 DEF FlushInstall, BgGoto, RemoveObsoleteFiles, BgTypes, BgPc
    <3>4. bgError' \in BOOLEAN /\ dtor' \in {"open", "cv", "woken", "closed"}
      BY <1>0, <1>23 DEF FlushInstall, RecordBackgroundError, WakeDtor, BgTypes
    <3>5. bg.ret = "compact" => bg.l0 <= l0
      BY <1>0, <3>1 DEF BgInv, FlushPc
    <3>6. BgInv'
      BY <1>0, <3>1, <3>2, <3>3, <3>5 DEF BgInv, FlushPc
    <3>. QED
      BY <1>0, <3>2, <3>3, <3>4, <3>6 DEF BgTypes
  <2>4. iter' \in [Iters -> ViewType]
    BY <1>0, <1>23 DEF FlushInstall
  <2>. QED
    BY <2>1, <2>2, <2>3, <2>4 DEF TInv, TypeOK
<1>24. CASE FilesRemoved
  <2>1. WriterTypes'
    BY <1>0, <1>24
    DEF FilesRemoved, BgGoto, WriterTypes, WriterPc, Leading, writerVars, dataVars, bgVars, sharedVars, ownVars, allButBg
  <2>2. BgTypes' /\ BgInv'
    BY <1>0, <1>24
    DEF FilesRemoved, BgGoto, BgTypes, BgPc, BgInv, FlushPc, writerVars, dataVars, bgVars, sharedVars, ownVars, allButBg
  <2>3. DataTypes' /\ iter' \in [Iters -> ViewType]
    BY <1>0, <1>24 DEF FilesRemoved, WriterTypes, DataTypes, BgTypes, BgInv, writerVars, dataVars, bgVars, sharedVars, ownVars, allButBg
  <2>. QED
    BY <2>1, <2>2, <2>3 DEF TInv, TypeOK
<1>25. CASE CompactionBegin
  <2>1. WriterTypes'
    BY <1>0, <1>25
    DEF CompactionBegin, WriterTypes, WriterPc, Leading, writerVars, dataVars, bgVars, sharedVars, ownVars, allButBg
  <2>2. BgTypes' /\ BgInv'
    <3>1. bg' = [bg EXCEPT !.pc = "compact", !.l0 = l0] /\ l0 \in Nat
      BY <1>0, <1>25 DEF CompactionBegin, DataTypes
    <3>2. bg.pc = "pick" /\ UNCHANGED <<bgError, scheduled, dtor, imm, l0>>
      BY <1>25 DEF CompactionBegin, allButBg, dataVars
    <3>3. /\ bg'.pc = "compact" /\ bg'.l0 = l0
          /\ bg' \in [pc : BgPc, ok : BOOLEAN, ret : {"end", "compact"}, l0 : Nat]
      BY <1>0, <3>1 DEF BgTypes, BgPc
    <3>4. BgInv'
      BY <1>0, <3>1, <3>2, <3>3 DEF BgInv, FlushPc
    <3>. QED
      BY <1>0, <3>2, <3>3, <3>4 DEF BgTypes
  <2>3. DataTypes' /\ iter' \in [Iters -> ViewType]
    BY <1>0, <1>25 DEF CompactionBegin, WriterTypes, DataTypes, BgTypes, BgInv, writerVars, dataVars, bgVars, sharedVars, ownVars, allButBg
  <2>. QED
    BY <2>1, <2>2, <2>3 DEF TInv, TypeOK
<1>26. CASE TrivialMove
  <2>1. WriterTypes'
    BY <1>0, <1>26
    DEF TrivialMove, BgGoto, WriterTypes, WriterPc, Leading, writerVars, dataVars, bgVars, sharedVars, ownVars, allButBg
  <2>2. BgTypes' /\ BgInv'
    <3>1. bg' = [bg EXCEPT !.pc = "mmanifest"] /\ l0 \in Nat
      BY <1>0, <1>26 DEF TrivialMove, BgGoto, DataTypes
    <3>2. bg.pc = "pick" /\ UNCHANGED <<bgError, scheduled, dtor, imm, l0>>
      BY <1>26 DEF TrivialMove, allButBg, dataVars
    <3>3. l0 >= L0Trigger /\ l0 >= 1
      BY <1>0, <3>1, <3>2 DEF BgInv
    <3>. QED
      BY <1>0, <3>1, <3>2, <3>3 DEF BgTypes, BgInv, BgPc, FlushPc
  <2>3. DataTypes' /\ iter' \in [Iters -> ViewType]
    BY <1>0, <1>26 DEF TrivialMove, WriterTypes, DataTypes, BgTypes, BgInv, writerVars, dataVars, bgVars, sharedVars, ownVars, allButBg
  <2>. QED
    BY <2>1, <2>2, <2>3 DEF TInv, TypeOK
<1>27. CASE CompactionFlush
  <2>1. WriterTypes'
    BY <1>0, <1>27
    DEF CompactionFlush, WriterTypes, WriterPc, Leading, writerVars, dataVars, bgVars, sharedVars, ownVars, allButBg
  <2>2. BgTypes' /\ BgInv'
    BY <1>0, <1>27
    DEF CompactionFlush, BgTypes, BgPc, BgInv, FlushPc, writerVars, dataVars, bgVars, sharedVars, ownVars, allButBg
  <2>3. DataTypes' /\ iter' \in [Iters -> ViewType]
    BY <1>0, <1>27 DEF CompactionFlush, WriterTypes, DataTypes, BgTypes, BgInv, writerVars, dataVars, bgVars, sharedVars, ownVars, allButBg
  <2>. QED
    BY <2>1, <2>2, <2>3 DEF TInv, TypeOK
<1>28. CASE CompactionFlushed
  <2>1. WriterTypes'
    BY <1>0, <1>28, WakeAllType
    DEF CompactionFlushed, WakeDtor, WriterTypes, WriterPc, Leading, writerVars, dataVars, bgVars, sharedVars, ownVars, allButBg
  <2>2. BgTypes' /\ BgInv'
    BY <1>0, <1>28
    DEF CompactionFlushed, WakeDtor, BgTypes, BgPc, BgInv, FlushPc, writerVars, dataVars, bgVars, sharedVars, ownVars, allButBg
  <2>3. DataTypes' /\ iter' \in [Iters -> ViewType]
    BY <1>0, <1>28 DEF CompactionFlushed, WriterTypes, DataTypes, BgTypes, BgInv, writerVars, dataVars, bgVars, sharedVars, ownVars, allButBg
  <2>. QED
    BY <2>1, <2>2, <2>3 DEF TInv, TypeOK
<1>29. CASE CompactionRelock
  <2>1. WriterTypes'
    <3>1. pc' \in {pc, WakeAll(pc)} /\ mutex' \in {BG, NoThread} /\ UNCHANGED ownVars
      BY <1>29 DEF CompactionRelock, RecordBackgroundError
    <3>. QED
      BY <1>0, <3>1, WakeAllType DEF WriterTypes, ownVars
  <2>2. BgTypes' /\ BgInv'
    BY <1>0, <1>29
    DEF CompactionRelock, BgGoto, RecordBackgroundError, WakeDtor, BgTypes, BgPc, BgInv, FlushPc, writerVars, dataVars, bgVars, sharedVars, ownVars, allButBg
  <2>3. DataTypes' /\ iter' \in [Iters -> ViewType]
    BY <1>0, <1>29 DEF CompactionRelock, WriterTypes, DataTypes, BgTypes, BgInv, writerVars, dataVars, bgVars, sharedVars, ownVars, allButBg
  <2>. QED
    BY <2>1, <2>2, <2>3 DEF TInv, TypeOK
<1>30. CASE CompactionInstall
  <2>1. WriterTypes'
    <3>1. pc' \in {pc, WakeAll(pc)} /\ mutex' \in {BG, NoThread} /\ UNCHANGED ownVars
      BY <1>30 DEF CompactionInstall, RecordBackgroundError, RemoveObsoleteFiles
    <3>. QED
      BY <1>0, <3>1, WakeAllType DEF WriterTypes, ownVars
  <2>2. DataTypes'
    <3>1. l0' \in Nat
      <4>1. l0 \in Nat /\ bg.l0 \in Nat
        BY <1>0 DEF DataTypes, BgTypes
      <4>2. CASE l0' = l0
        BY <4>1, <4>2
      <4>3. CASE bg.pc = "cmanifest" /\ \E n \in CompactedFiles : l0' = l0 - n
        <5>1. bg.l0 <= l0
          BY <1>0, <4>3 DEF BgInv
        <5>. QED
          BY <4>1, <4>3, <5>1 DEF CompactedFiles
      <4>4. CASE bg.pc = "mmanifest" /\ l0' = l0 - 1
        BY <1>0, <4>1, <4>4 DEF BgInv
      <4>. QED
        BY <4>2, <4>3, <4>4, <1>30 DEF CompactionInstall
    <3>2. UNCHANGED <<log, synced, sound, table, mem, imm, logNumber,
                      lastSequence, version, committed, before>>
      BY <1>30 DEF CompactionInstall
    <3>. QED
      BY <1>0, <3>1, <3>2, Zenon DEF DataTypes
  <2>3. BgTypes' /\ BgInv'
    <3>1. /\ \/ bg' = [bg EXCEPT !.pc = "end"]
             \/ bg' = [bg EXCEPT !.pc = "end", !.ret = "end"]
             \/ bg' = [bg EXCEPT !.pc = "purge", !.ret = "end"]
          /\ UNCHANGED scheduled
          /\ bg.pc \in {"cmanifest", "mmanifest"}
      BY <1>30 DEF CompactionInstall, BgGoto, RemoveObsoleteFiles
    <3>2. bgError' \in BOOLEAN /\ dtor' \in {"open", "cv", "woken", "closed"}
      BY <1>0, <1>30
      DEF CompactionInstall, RecordBackgroundError, WakeDtor, BgTypes
    <3>3. bg \in [pc : BgPc, ok : BOOLEAN, ret : {"end", "compact"}, l0 : Nat]
      BY <1>0 DEF BgTypes
    <3>4. /\ bg' \in [pc : BgPc, ok : BOOLEAN, ret : {"end", "compact"}, l0 : Nat]
          /\ bg'.pc = "end" \/ (bg'.pc = "purge" /\ bg'.ret = "end")
      <4>1. CASE bg' = [bg EXCEPT !.pc = "end"]
        BY <3>3, <4>1 DEF BgPc
      <4>2. CASE bg' = [bg EXCEPT !.pc = "end", !.ret = "end"]
        BY <3>3, <4>2 DEF BgPc
      <4>3. CASE bg' = [bg EXCEPT !.pc = "purge", !.ret = "end"]
        BY <3>3, <4>3 DEF BgPc
      <4>. QED
        BY <3>1, <4>1, <4>2, <4>3
    <3>5. BgTypes'
      BY <1>0, <3>1, <3>2, <3>4 DEF BgTypes
    <3>6. BgInv'
      BY <1>0, <3>1, <3>4 DEF BgInv, FlushPc
    <3>. QED
      BY <3>5, <3>6
  <2>4. iter' \in [Iters -> ViewType]
    BY <1>0, <1>30 DEF CompactionInstall
  <2>. QED
    BY <2>1, <2>2, <2>3, <2>4 DEF TInv, TypeOK
<1>31. CASE BackgroundReturn
  <2>1. WriterTypes'
    BY <1>0, <1>31, WakeAllType
    DEF BackgroundReturn, WakeDtor, MaybeScheduleCompaction, WriterTypes, WriterPc, Leading, writerVars, dataVars, bgVars, sharedVars, ownVars, allButBg
  <2>2. BgTypes' /\ BgInv'
    BY <1>0, <1>31
    DEF BackgroundReturn, WakeDtor, MaybeScheduleCompaction, BgTypes, BgPc, BgInv, FlushPc, DataTypes, writerVars, dataVars, bgVars, sharedVars, ownVars, allButBg
  <2>3. DataTypes' /\ iter' \in [Iters -> ViewType]
    BY <1>0, <1>31 DEF BackgroundReturn, WriterTypes, DataTypes, BgTypes, BgInv, writerVars, dataVars, bgVars, sharedVars, ownVars, allButBg
  <2>. QED
    BY <2>1, <2>2, <2>3 DEF TInv, TypeOK
<1>32. ASSUME NEW r \in Iters, TakeSnapshot(r)
      PROVE  TInv'
  <2>1. iter' \in [Iters -> ViewType]
    BY <1>0, <1>32, ZenonT(40) DEF TakeSnapshot, ViewType, DataTypes
  <2>2. WriterTypes' /\ DataTypes' /\ BgTypes' /\ BgInv'
    BY <1>0, <1>32, ReaderFrame DEF TakeSnapshot
  <2>. QED
    BY <2>1, <2>2 DEF TInv, TypeOK
<1>33. ASSUME NEW r \in Iters, OpenIterator(r)
      PROVE  TInv'
  <2>1. iter' \in [Iters -> ViewType]
    <3>1. Capture(r) \in ViewType
      BY <1>0 DEF Capture, ViewType, DataTypes, LogNumbers
    <3>. QED
      BY <1>0, <3>1, <1>33 DEF OpenIterator
  <2>2. WriterTypes' /\ DataTypes' /\ BgTypes' /\ BgInv'
    BY <1>0, <1>33, ReaderFrame DEF OpenIterator
  <2>. QED
    BY <2>1, <2>2 DEF TInv, TypeOK
<1>34. ASSUME NEW r \in Iters, CloseIterator(r)
      PROVE  TInv'
  <2>1. iter' \in [Iters -> ViewType]
    BY <1>0, <1>34
    DEF CloseIterator, ViewType, NoView, writerVars, dataVars, bgVars, sharedVars, ownVars, allButBg
  <2>2. WriterTypes' /\ DataTypes' /\ BgTypes' /\ BgInv'
    BY <1>0, <1>34, ZenonT(40) DEF CloseIterator, WriterTypes, DataTypes, BgTypes, BgInv, writerVars, dataVars, bgVars, sharedVars, ownVars, allButBg
  <2>. QED
    BY <2>1, <2>2 DEF TInv, TypeOK
<1>35. CASE Destroy
  BY <1>0, <1>35 DEF Destroy, TInv, TypeOK, WriterTypes, DataTypes, BgTypes, BgInv, writerVars, dataVars, bgVars
<1>36. CASE Closed \/ UNCHANGED vars
  BY <1>0, <1>36, ZenonT(40)
  DEF Closed, vars, TInv, TypeOK, WriterTypes, DataTypes, BgTypes, BgInv, writerVars, dataVars, bgVars
<1>. QED
  BY <1>1, <1>2, <1>3, <1>4, <1>5, <1>6, <1>7, <1>8, <1>9, <1>10, <1>11, <1>12, <1>13, <1>14, <1>15, <1>16, <1>17, <1>18, <1>19, <1>20, <1>21, <1>22, <1>23, <1>24, <1>25, <1>26, <1>27, <1>28, <1>29, <1>30, <1>31, <1>32, <1>33, <1>34, <1>35, <1>36
  DEF Next, WriterStep, BgStep, ReaderStep

(* The variables of the write path keep their types.                       *)
THEOREM TypeCorrect == Spec => []TypeOK
<1>1. Spec => []TInv
  BY TInvInit, TInvNext, PTL DEF Spec
<1>. QED
  BY <1>1, PTL DEF TInv

-----------------------------------------------------------------------------
(* Only the front of the queue leads.                                      *)

EInv == ExclusiveLogger /\ QueueInv

(* A step of the background thread changes of the writers only that it     *)
(* wakes those that wait for it.                                           *)
LEMMA BgStepWriters ==
  ASSUME BgStep
  PROVE  /\ UNCHANGED ownVars /\ pc' \in {pc, WakeAll(pc)}
         /\ UNCHANGED <<iter, committed, lastSequence, table, mem>>
<1>. USE DEF ownVars, allButBg, writerVars, bgVars, dataVars
<1>1. CASE BackgroundCall \/ FlushBegin \/ BuildTable \/ FilesRemoved
             \/ CompactionBegin \/ TrivialMove \/ CompactionFlush
  BY <1>1 DEF BackgroundCall, FlushBegin, BuildTable, FilesRemoved,
              CompactionBegin, TrivialMove, CompactionFlush
<1>2. CASE FlushRelock \/ CompactionRelock
  BY <1>2 DEF FlushRelock, CompactionRelock, RecordBackgroundError
<1>3. CASE FlushInstall \/ CompactionInstall
  BY <1>3 DEF FlushInstall, CompactionInstall, RecordBackgroundError
<1>4. CASE CompactionFlushed \/ BackgroundReturn
  BY <1>4 DEF CompactionFlushed, BackgroundReturn
<1>. QED
  BY <1>1, <1>2, <1>3, <1>4 DEF BgStep

(* Readers and the destructor do not touch the writers.                    *)
LEMMA OtherStepWriters ==
  ASSUME \/ \E r \in Iters : ReaderStep(r)
         \/ Destroy \/ Closed \/ UNCHANGED vars
  PROVE  UNCHANGED <<pc, ownVars, dataVars, committed>>
BY DEF ReaderStep, TakeSnapshot, OpenIterator, CloseIterator, Destroy, Closed,
       vars, writerVars, ownVars

(* Initially nobody leads and nobody is in the queue.                      *)
LEMMA EInvInit == Init => EInv
BY DEF Init, EInv, ExclusiveLogger, QueueInv, Leading

(* Leadership passes on only when the leader leaves the queue.             *)
LEMMA EInvNext == TInv /\ EInv /\ [Next]_vars => EInv'
<1>. SUFFICES ASSUME TInv, EInv, [Next]_vars PROVE EInv'
  OBVIOUS
<1>0. /\ pc \in [Writers -> WriterPc] /\ done \in [Writers -> BOOLEAN]
      /\ queue \in Seq(Writers) /\ Len(queue) \in Nat
      /\ group \in [Writers -> GroupType]
  BY DEF TInv, TypeOK, WriterTypes
<1>. USE DEF EInv, ExclusiveLogger, QueueInv
<1>1. ASSUME NEW w \in Writers,
             Call(w) \/ Rewait(w) \/ SpuriousWake(w) \/ AwaitFlush(w)
      PROVE  EInv'
  <2>1. UNCHANGED <<queue, done>>
    BY <1>1 DEF Call, Rewait, SpuriousWake, AwaitFlush, ownVars
  <2>2. PICK p : pc' = [pc EXCEPT ![w] = p] /\ (p \in Leading => pc[w] \in Leading)
                 /\ (p \in {"check", "cv", "woken"} => pc[w] \in {"check", "cv", "woken"})
    <3>1. CASE Call(w)
      BY <3>1 DEF Call, Goto, Leading
    <3>2. CASE Rewait(w)
      <4>1. CASE pc[w] = "woken" /\ pc' = [pc EXCEPT ![w] = "check"]
        BY <4>1, ZenonT(30) DEF Leading
      <4>2. CASE pc[w] \in {"bgwoken", "sleep"} /\ pc' = [pc EXCEPT ![w] = "room"]
        BY <4>2, ZenonT(30) DEF Leading
      <4>. QED
        BY <3>2, <4>1, <4>2, SMTT(20) DEF Rewait, Goto
    <3>3. CASE SpuriousWake(w)
      BY <3>3 DEF SpuriousWake, Goto, Leading
    <3>4. CASE AwaitFlush(w)
      BY <3>4, SMTT(20) DEF AwaitFlush, Goto, Leading
    <3>. QED
      BY <1>1, <3>1, <3>2, <3>3, <3>4
  <2>. QED
    BY <1>0, <2>1, <2>2
<1>2. ASSUME NEW w \in Writers, Enqueue(w)
      PROVE  EInv'
  <2>1. queue' = Append(queue, w) /\ pc' = [pc EXCEPT ![w] = "check"] /\ UNCHANGED done
    BY <1>2 DEF Enqueue, Goto
  <2>2. /\ queue' # <<>> /\ Len(queue') = Len(queue) + 1
        /\ \A j \in 1 .. Len(queue) : queue'[j] = queue[j]
        /\ queue'[Len(queue) + 1] = w
        /\ queue # <<>> => Head(queue') = Head(queue)
    BY <1>0, <2>1, SMTT(20)
  <2>3. ExclusiveLogger'
    BY <1>0, <2>1, <2>2 DEF Leading
  <2>4. QueueInv'
    <3>. SUFFICES ASSUME NEW u \in Writers, pc'[u] \in {"check", "cv", "woken"}, ~done'[u]
                  PROVE  \E j \in 1 .. Len(queue') : queue'[j] = u
      OBVIOUS
    <3>1. CASE u = w
      BY <1>0, <2>2, <3>1
    <3>2. CASE u # w
      <4>1. PICK j \in 1 .. Len(queue) : queue[j] = u
        BY <1>0, <2>1, <3>2
      <4>. QED
        BY <1>0, <2>2, <4>1
    <3>. QED
      BY <3>1, <3>2
  <2>. QED
    BY <2>3, <2>4
<1>3. ASSUME NEW w \in Writers, CheckFront(w)
      PROVE  EInv'
  <2>1. UNCHANGED <<queue, done>> /\ pc[w] = "check"
    BY <1>3 DEF CheckFront
  <2>2. CASE pc' = [pc EXCEPT ![w] = "room"] /\ ~done[w] /\ w = Head(queue)
    <3>1. queue # <<>>
      BY <1>0, <2>1, <2>2
    <3>. QED
      BY <1>0, <2>1, <2>2, <3>1 DEF Leading
  <2>3. CASE pc' = [pc EXCEPT ![w] = AfterWrite(w, status[w])]
    BY <1>0, <2>1, <2>3 DEF AfterWrite, Leading
  <2>4. CASE pc' = [pc EXCEPT ![w] = "cv"]
    BY <1>0, <2>1, <2>4 DEF Leading
  <2>. QED
    BY <1>3, <2>2, <2>3, <2>4 DEF CheckFront, Goto
<1>4. ASSUME NEW w \in Writers,
             \/ RoomError(w) \/ RoomDelay(w) \/ RoomAvailable(w) \/ RoomWait(w)
             \/ RoomNewLogFails(w) \/ BuildGroup(w) \/ AddRecord(w)
             \/ SyncLog(w) \/ InsertInto(w)
      PROVE  EInv'
  <2>1. UNCHANGED <<queue, done>> /\ pc[w] \in Leading
    BY <1>4 DEF RoomError, RoomDelay, RoomAvailable, RoomWait, RoomNewLogFails, CanSwitch,
                BuildGroup, AddRecord, SyncLog, InsertInto, ownVars, Leading
  <2>2. PICK p \in Leading : pc' = [pc EXCEPT ![w] = p]
    BY <1>0, <1>4 DEF RoomError, RoomDelay, RoomAvailable, RoomWait, RoomNewLogFails,
                BuildGroup, AddRecord, SyncLog, InsertInto, Goto, Leading
  <2>3. p \notin {"check", "cv", "woken"}
    BY DEF Leading
  <2>. QED
    BY <1>0, <2>1, <2>2, <2>3
<1>5. ASSUME NEW w \in Writers, RoomSwitch(w) \/ Relock(w)
      PROVE  EInv'
  <2>1. UNCHANGED <<queue, done>> /\ pc[w] \in Leading
    BY <1>5 DEF RoomSwitch, CanSwitch, Relock, ownVars, Leading
  <2>2. PICK p \in Leading : pc' \in {[pc EXCEPT ![w] = p], WakeAll([pc EXCEPT ![w] = p])}
    BY <1>0, <1>5, <2>1 DEF RoomSwitch, Relock, RecordBackgroundError, Goto, Leading
  <2>. DEFINE q == [pc EXCEPT ![w] = p]
  <2>3. q \in [Writers -> WriterPc]
    BY <1>0 DEF WriterPc
  <2>4. \A u \in Writers : /\ q[u] \in Leading => pc[u] \in Leading
                           /\ q[u] \in {"check", "cv", "woken"} => q[u] = pc[u]
    BY <1>0, <2>1 DEF Leading
  <2>. HIDE DEF q
  <2>5. \A u \in Writers : /\ pc'[u] \in Leading => q[u] \in Leading
                           /\ pc'[u] \in {"check", "cv", "woken"} => q[u] = pc'[u]
    BY <2>2, <2>3, WakeAllLeading DEF q
  <2>. QED
    BY <2>1, <2>4, <2>5
<1>6. ASSUME NEW w \in Writers, Finish(w)
      PROVE  EInv'
  <2>. DEFINE k == group[w].last
              rest == SubSeq(queue, k + 1, Len(queue))
              ready == {queue[j] : j \in 2 .. k}
              q == [pc EXCEPT ![w] = AfterWrite(w, status[w])]
  <2>1. /\ pc[w] = "finish" /\ queue' = rest
        /\ done' = [u \in Writers |-> done[u] \/ u \in ready]
        /\ pc' = SignalTo(ready \cup NewFront(rest), q)
    BY <1>6 DEF Finish
  <2>2. k \in Nat /\ queue # <<>> /\ Head(queue) = w
    BY <1>0, <2>1 DEF GroupType, Leading
  <2>3. q \in [Writers -> WriterPc] /\ q[w] \notin Leading \cup {"check", "cv", "woken"}
        /\ \A u \in Writers : u # w => q[u] = pc[u]
    BY <1>0 DEF AfterWrite, WriterPc, Leading
  <2>4. \A u \in Writers : /\ pc'[u] \in Leading => q[u] \in Leading
                           /\ pc'[u] \in {"check", "cv", "woken"} => q[u] \in {"check", "cv", "woken"}
    BY <2>1, <2>3 DEF SignalTo, Leading
  <2>5. ExclusiveLogger'
    BY <2>2, <2>3, <2>4
  <2>6. QueueInv'
    <3>. SUFFICES ASSUME NEW u \in Writers, pc'[u] \in {"check", "cv", "woken"}, ~done'[u]
                  PROVE  \E j \in 1 .. Len(rest) : rest[j] = u
      BY <2>1
    <3>1. u # w /\ pc[u] \in {"check", "cv", "woken"} /\ ~done[u] /\ u \notin ready
      BY <2>1, <2>3, <2>4
    <3>2. PICK j \in 1 .. Len(queue) : queue[j] = u
      BY <3>1
    <3>3. j # 1
      BY <1>0, <2>2, <3>1, <3>2
    <3>4. j > k
      BY <1>0, <2>2, <3>1, <3>2, <3>3
    <3>5. j - k \in 1 .. Len(rest) /\ rest[j - k] = queue[j]
      <4>. HIDE DEF k
      <4>1. k + 1 \in 1 .. Len(queue) + 1 /\ Len(queue) \in k .. Len(queue)
        BY <1>0, <2>2, <3>2, <3>4
      <4>2. /\ Len(rest) = Len(queue) - (k + 1) + 1
            /\ \A i \in 1 .. Len(queue) - (k + 1) + 1 : rest[i] = queue[k + 1 + i - 1]
        BY <1>0, <4>1, SubSeqProperties
      <4>3. j - k \in 1 .. Len(queue) - (k + 1) + 1 /\ k + 1 + (j - k) - 1 = j
        BY <1>0, <2>2, <3>2, <3>4
      <4>. HIDE DEF rest
      <4>. QED
        BY <4>2, <4>3
    <3>. QED
      BY <3>2, <3>5
  <2>. QED
    BY <2>5, <2>6
<1>7. CASE BgStep
  <2>1. UNCHANGED <<queue, done>> /\ pc' \in {pc, WakeAll(pc)}
    BY <1>7, BgStepWriters DEF ownVars
  <2>2. \A u \in Writers : /\ pc'[u] \in Leading => pc[u] \in Leading
                           /\ pc'[u] \in {"check", "cv", "woken"} => pc[u] = pc'[u]
    BY <1>0, <2>1, WakeAllLeading
  <2>. QED
    BY <2>1, <2>2
<1>8. CASE \/ \E r \in Iters : ReaderStep(r)
           \/ Destroy \/ Closed \/ UNCHANGED vars
  BY <1>8, OtherStepWriters DEF ownVars
<1>. QED
  BY <1>1, <1>2, <1>3, <1>4, <1>5, <1>6, <1>7, <1>8 DEF Next, WriterStep

(* Only the front of writers_ logs, inserts or makes room.                 *)
THEOREM LeaderIsFront == Spec => []ExclusiveLogger
<1>1. Spec => [](TInv /\ EInv)
  BY TInvInit, TInvNext, EInvInit, EInvNext, PTL DEF Spec
<1>. QED
  BY <1>1, PTL DEF EInv

-----------------------------------------------------------------------------
(* The store holds what is committed, and snapshots see no more.           *)

(* Above LastSequence() there are only entries of the group being          *)
(* inserted; a group that was inserted is in mem_ when its numbers are     *)
(* used up; a new memtable is empty.                                       *)
StoreInv ==
  /\ \A e \in Stored :
       \/ e.seq <= lastSequence
       \/ \E w \in Writers : /\ pc[w] \in {"insert", "relock"} /\ status[w]
                             /\ e \in group[w].entries
  /\ \A w \in Writers : pc[w] \in Unlocked =>
       \A e \in group[w].entries :
         lastSequence < e.seq /\ e.seq <= lastSequence + group[w].count
  /\ \A w \in Writers : pc[w] = "relock" /\ status[w] =>
       group[w].entries \subseteq table[mem]
  /\ \A w \in Writers : pc[w] \in {"log", "sync", "insert"} => status[w]
  /\ \A n \in LogNumbers : n > mem => table[n] = {}
  /\ imm < mem

SnapInv ==
  \A r \in Iters :
    /\ iter[r].open \in {"snap", "yes"} => iter[r].snap <= lastSequence
    /\ iter[r].open = "yes" =>
         iter[r].mem \in LogNumbers /\ iter[r].imm \in {0} \cup LogNumbers

SInv == StoreInv /\ StoreComplete /\ SnapInv /\ SnapshotConsistency

(* The types the proof needs, as facts about members.                      *)
LEMMA StoreTypes ==
  ASSUME TInv
  PROVE  /\ lastSequence \in Nat /\ mem \in LogNumbers /\ mem \in Nat
         /\ imm \in {0} \cup LogNumbers
         /\ \A e \in Entry : e.seq \in Nat
         /\ \A n \in LogNumbers : table[n] \subseteq Entry
         /\ table \in [LogNumbers -> SUBSET Entry]
         /\ Stored \subseteq Entry /\ version \subseteq Entry /\ committed \subseteq Entry
         /\ \A w \in Writers : group[w].entries \subseteq Entry /\ group[w].count \in Nat
         /\ pc \in [Writers -> WriterPc] /\ group \in [Writers -> GroupType]
         /\ status \in [Writers -> BOOLEAN]
<1>. USE DEF TInv, TypeOK
<1>1. /\ lastSequence \in Nat /\ mem \in LogNumbers /\ imm \in {0} \cup LogNumbers
      /\ version \subseteq Entry /\ committed \subseteq Entry
      /\ table \in [LogNumbers -> SUBSET Entry]
  BY DEF DataTypes
<1>2. mem \in Nat
  BY <1>1, WQAssumption DEF LogNumbers
<1>3. \A e \in Entry : e.seq \in Nat
  BY DEF Entry
<1>4. Stored \subseteq Entry
  BY <1>1 DEF Stored, MemEntries
<1>5. pc \in [Writers -> WriterPc] /\ group \in [Writers -> GroupType]
      /\ status \in [Writers -> BOOLEAN]
  BY DEF WriterTypes
<1>6. \A w \in Writers : group[w].entries \subseteq Entry /\ group[w].count \in Nat
  BY <1>5 DEF GroupType
<1>. QED
  BY <1>1, <1>2, <1>3, <1>4, <1>5, <1>6

(* Initially everything is empty.                                          *)
LEMMA SInvInit == Init => SInv
<1>. SUFFICES ASSUME Init PROVE SInv
  OBVIOUS
<1>1. Stored = {} /\ committed = {} /\ lastSequence = 0
  BY WQAssumption DEF Init, Stored, MemEntries, LogNumbers
<1>2. StoreInv
  BY <1>1 DEF Init, StoreInv, Unlocked
<1>3. StoreComplete
  BY <1>1 DEF StoreComplete, UpTo
<1>4. SnapInv /\ SnapshotConsistency
  BY DEF Init, SnapInv, SnapshotConsistency, NoView
<1>. QED
  BY <1>2, <1>3, <1>4 DEF SInv

(* While nothing in the store, in the groups being written and in the      *)
(* readers changes, SInv stays.                                            *)
LEMMA SInvFrame ==
  ASSUME TInv, SInv,
         UNCHANGED <<group, table, lastSequence, committed, iter>>,
         Stored' = Stored, imm' < mem', mem' = mem,
         \A u \in Writers : /\ pc'[u] \in Unlocked => pc'[u] = pc[u] /\ status'[u] = status[u]
                            /\ pc[u] \in Unlocked => pc'[u] = pc[u]
  PROVE  SInv'
<1>. USE DEF SInv, Unlocked
<1>1. StoreInv'
  <2>1. \A e \in Stored' :
          \/ e.seq <= lastSequence'
          \/ \E w \in Writers : /\ pc'[w] \in {"insert", "relock"} /\ status'[w]
                                /\ e \in group'[w].entries
    BY DEF StoreInv
  <2>. QED
    BY <2>1 DEF StoreInv
<1>2. StoreComplete' /\ SnapInv'
  BY DEF StoreComplete, SnapInv, UpTo
<1>3. SnapshotConsistency'
  BY DEF SnapshotConsistency, UpTo, MemEntries
<1>. QED
  BY <1>1, <1>2, <1>3

(* Every step keeps the store complete.                                    *)
LEMMA SInvNext == TInv /\ TInv' /\ EInv /\ SInv /\ [Next]_vars => SInv'
<1>. SUFFICES ASSUME TInv, TInv', EInv, SInv, [Next]_vars PROVE SInv'
  OBVIOUS
<1>0. /\ lastSequence \in Nat /\ mem \in LogNumbers /\ mem \in Nat
      /\ imm \in {0} \cup LogNumbers
      /\ \A e \in Entry : e.seq \in Nat
      /\ \A n \in LogNumbers : table[n] \subseteq Entry
      /\ table \in [LogNumbers -> SUBSET Entry]
      /\ Stored \subseteq Entry /\ version \subseteq Entry /\ committed \subseteq Entry
      /\ \A w \in Writers : group[w].entries \subseteq Entry /\ group[w].count \in Nat
      /\ pc \in [Writers -> WriterPc] /\ group \in [Writers -> GroupType]
      /\ status \in [Writers -> BOOLEAN]
  BY StoreTypes
<1>1. imm < mem
  BY DEF SInv, StoreInv
<1>2. ASSUME NEW w \in Writers, NEW u \in Writers, pc[w] \in Leading, pc[u] \in Leading
      PROVE  u = w
  BY <1>2 DEF EInv, ExclusiveLogger
<1>3. ASSUME NEW w \in Writers,
             \/ Call(w) \/ Enqueue(w) \/ CheckFront(w) \/ Rewait(w) \/ SpuriousWake(w)
             \/ RoomError(w) \/ RoomDelay(w) \/ RoomAvailable(w) \/ RoomWait(w)
             \/ RoomNewLogFails(w) \/ AwaitFlush(w)
      PROVE  SInv'
  <2>1. UNCHANGED <<group, table, lastSequence, committed, iter, version, imm, mem>>
    BY <1>3 DEF Call, Enqueue, CheckFront, Rewait, SpuriousWake, RoomError, RoomDelay,
      RoomAvailable, RoomWait, RoomNewLogFails, AwaitFlush, sharedVars, ownVars, dataVars
  <2>2. \A u \in Writers : u # w => pc'[u] = pc[u] /\ status'[u] = status[u]
    BY <1>0, <1>3 DEF Call, Enqueue, CheckFront, Rewait, SpuriousWake, RoomError, RoomDelay,
      RoomAvailable, RoomWait, RoomNewLogFails, AwaitFlush, Goto, ownVars
  <2>3. pc[w] \notin Unlocked /\ pc'[w] \notin Unlocked
    <3>1. CASE Call(w) \/ Enqueue(w) \/ Rewait(w) \/ SpuriousWake(w)
      BY <1>0, <3>1 DEF Call, Enqueue, Rewait, SpuriousWake, Goto, Unlocked
    <3>2. CASE CheckFront(w) \/ AwaitFlush(w)
      BY <1>0, <3>2 DEF CheckFront, AwaitFlush, AfterWrite, Goto, Unlocked
    <3>3. CASE RoomError(w) \/ RoomDelay(w) \/ RoomAvailable(w) \/ RoomWait(w) \/ RoomNewLogFails(w)
      BY <1>0, <3>3 DEF RoomError, RoomDelay, RoomAvailable, RoomWait, RoomNewLogFails,
                        CanSwitch, Goto, Unlocked
    <3>. QED
      BY <1>3, <3>1, <3>2, <3>3
  <2>4. Stored' = Stored
    BY <2>1 DEF Stored, MemEntries
  <2>. QED
    BY <1>1, <2>1, <2>2, <2>3, <2>4, SInvFrame
<1>4. ASSUME NEW w \in Writers, RoomSwitch(w)
      PROVE  SInv'
  <2>1. /\ pc[w] = "room" /\ imm = 0 /\ imm' = mem /\ mem' = mem + 1
        /\ UNCHANGED <<group, table, lastSequence, committed, iter, version, status>>
        /\ pc' \in {pc, WakeAll(pc)}
    BY <1>4 DEF RoomSwitch, CanSwitch, RecordBackgroundError
  <2>2. \A u \in Writers : pc[u] \notin Unlocked /\ pc'[u] \notin Unlocked
    <3>. SUFFICES ASSUME NEW u \in Writers PROVE pc[u] \notin Unlocked /\ pc'[u] \notin Unlocked
      OBVIOUS
    <3>1. pc[u] \notin Unlocked
      BY <1>2, <2>1 DEF Unlocked, Leading
    <3>. QED
      BY <1>0, <2>1, <3>1, WakeAllLeading
  <2>3. mem + 1 \in LogNumbers /\ table[mem + 1] = {}
    <3>1. mem + 1 \in LogNumbers
      BY <2>1 DEF TInv, TypeOK, DataTypes
    <3>. QED
      BY <1>0, <3>1 DEF SInv, StoreInv
  <2>4. Stored' = Stored
    <3>1. mem # 0
      BY <1>0, WQAssumption DEF LogNumbers
    <3>2. Stored = table[mem] \cup version
      BY <2>1 DEF Stored, MemEntries
    <3>3. Stored' = table[mem + 1] \cup table[mem] \cup version
      BY <2>1, <3>1 DEF Stored, MemEntries
    <3>. QED
      BY <2>3, <3>2, <3>3
  <2>5. StoreInv'
    <3>1. \A e \in Stored : e.seq <= lastSequence
      BY <2>2 DEF SInv, StoreInv, Unlocked
    <3>2. \A n \in LogNumbers : n > mem + 1 => table[n] = {}
      BY <1>0 DEF SInv, StoreInv, LogNumbers
    <3>. QED
      BY <1>0, <2>1, <2>2, <2>4, <3>1, <3>2 DEF StoreInv, Unlocked
  <2>6. StoreComplete' /\ SnapInv' /\ SnapshotConsistency'
    BY <2>1, <2>4 DEF SInv, StoreComplete, SnapInv, SnapshotConsistency, UpTo, MemEntries
  <2>. QED
    BY <2>5, <2>6 DEF SInv
<1>5. ASSUME NEW w \in Writers, BuildGroup(w)
      PROVE  SInv'
  <2>1. /\ pc[w] = "group" /\ UNCHANGED <<status, table, lastSequence, committed, iter,
                                           version, imm, mem>>
        /\ \A u \in Writers : u # w => pc'[u] = pc[u] /\ group'[u] = group[u]
    BY <1>0, <1>5 DEF BuildGroup, Goto, sharedVars, dataVars
  <2>2. Stored' = Stored
    BY <2>1 DEF Stored, MemEntries
  <2>3. \A u \in Writers : pc[u] \notin Unlocked /\ (u # w => pc'[u] \notin Unlocked)
    BY <1>2, <2>1 DEF Unlocked, Leading
  <2>4. \A e \in Stored : e.seq <= lastSequence
    BY <2>3 DEF SInv, StoreInv, Unlocked
  <2>5. /\ pc'[w] \in {"log", "finish"}
        /\ pc'[w] = "log" => status[w] /\ \A e \in group'[w].entries :
                lastSequence < e.seq /\ e.seq <= lastSequence + group'[w].count
    <3>1. CASE status[w] /\ ~IsNull(w)
      <4>1. PICK k \in 1 .. Len(queue) : group' = [group EXCEPT ![w] =
               [last |-> k, count |-> SizeTo(k),
                entries |-> GroupEntries(k), syncError |-> FALSE]]
        BY <1>5, <3>1 DEF BuildGroup
      <4>2. \A e \in GroupEntries(k) :
              lastSequence < e.seq /\ e.seq <= lastSequence + SizeTo(k)
        BY GroupEntriesRange DEF TInv
      <4>. QED
        BY <1>0, <1>5, <3>1, <4>1, <4>2 DEF BuildGroup, Goto
    <3>2. CASE ~(status[w] /\ ~IsNull(w))
      BY <1>0, <1>5, <3>2 DEF BuildGroup, Goto
    <3>. QED
      BY <3>1, <3>2
  <2>6. StoreInv'
    <3>1. \A u \in Writers : pc'[u] \in Unlocked => u = w /\ pc'[u] = "log"
      BY <2>3, <2>5 DEF Unlocked
    <3>. QED
      BY <1>1, <2>1, <2>2, <2>4, <2>5, <3>1 DEF SInv, StoreInv, Unlocked
  <2>7. StoreComplete' /\ SnapInv' /\ SnapshotConsistency'
    BY <2>1, <2>2 DEF SInv, StoreComplete, SnapInv, SnapshotConsistency, UpTo, MemEntries
  <2>. QED
    BY <2>6, <2>7 DEF SInv
<1>6. ASSUME NEW w \in Writers, AddRecord(w) \/ SyncLog(w)
      PROVE  SInv'
  <2>1. /\ pc[w] \in {"log", "sync"}
        /\ UNCHANGED <<table, lastSequence, committed, iter, version, imm, mem>>
        /\ \A u \in Writers : u # w => pc'[u] = pc[u] /\ status'[u] = status[u]
    BY <1>0, <1>6 DEF AddRecord, SyncLog, Goto
  <2>2. \A u \in Writers : group'[u].entries = group[u].entries /\ group'[u].count = group[u].count
    <3>1. \A u \in Writers : group[u] \in GroupType
      BY <1>0
    <3>2. group' = group \/ group' = [group EXCEPT ![w] = [group[w] EXCEPT !.syncError = TRUE]]
      BY <1>6 DEF AddRecord, SyncLog
    <3>. QED
      BY <1>0, <3>1, <3>2 DEF GroupType
  <2>3. Stored' = Stored
    BY <2>1 DEF Stored, MemEntries
  <2>4. status[w]
    BY <2>1 DEF SInv, StoreInv
  <2>5. \/ pc'[w] \in {"sync", "insert"} /\ status'[w] = status[w]
        \/ pc'[w] = "relock" /\ ~status'[w]
    BY <1>0, <1>6 DEF AddRecord, SyncLog, Goto
  <2>6. \A u \in Writers : u # w => pc[u] \notin Unlocked
    BY <1>2, <2>1 DEF Unlocked, Leading
  <2>7. \A e \in Stored : e.seq <= lastSequence
    BY <2>1, <2>6 DEF SInv, StoreInv, Unlocked
  <2>8. StoreInv'
    <3>1. \A e \in group[w].entries :
            lastSequence < e.seq /\ e.seq <= lastSequence + group[w].count
      BY <2>1 DEF SInv, StoreInv, Unlocked
    <3>2. \A u \in Writers : pc'[u] \in Unlocked => u = w
      BY <2>1, <2>6
    <3>. QED
      BY <1>1, <2>1, <2>2, <2>3, <2>4, <2>5, <2>7, <3>1, <3>2, ZenonT(40)
      DEF SInv, StoreInv, Unlocked
  <2>9. StoreComplete' /\ SnapInv' /\ SnapshotConsistency'
    BY <2>1, <2>3 DEF SInv, StoreComplete, SnapInv, SnapshotConsistency, UpTo, MemEntries
  <2>. QED
    BY <2>8, <2>9 DEF SInv
<1>7. ASSUME NEW w \in Writers, InsertInto(w)
      PROVE  SInv'
  <2>1. /\ pc[w] = "insert" /\ UNCHANGED <<status, group, lastSequence, committed, iter,
                                            version, imm, mem>>
        /\ \A u \in Writers : u # w => pc'[u] = pc[u]
    BY <1>0, <1>7 DEF InsertInto, Goto, ownVars
  <2>2. status[w] /\ \A e \in group[w].entries :
          lastSequence < e.seq /\ e.seq <= lastSequence + group[w].count
    BY <2>1 DEF SInv, StoreInv, Unlocked
  <2>3. \A u \in Writers : u # w => pc[u] \notin Unlocked
    BY <1>2, <2>1 DEF Unlocked, Leading
  <2>4. CASE pc'[w] = "relock" /\ UNCHANGED table /\ group[w].entries \subseteq table[mem]
    <3>1. Stored' = Stored
      BY <2>1, <2>4 DEF Stored, MemEntries
    <3>2. StoreInv'
      BY <1>1, <2>1, <2>2, <2>3, <2>4, <3>1 DEF SInv, StoreInv, Unlocked
    <3>3. StoreComplete' /\ SnapInv' /\ SnapshotConsistency'
      BY <2>1, <2>4, <3>1 DEF SInv, StoreComplete, SnapInv, SnapshotConsistency, UpTo, MemEntries
    <3>. QED
      BY <3>2, <3>3 DEF SInv
  <2>5. ASSUME NEW e \in group[w].entries, UNCHANGED pc,
               table' = [table EXCEPT ![mem] = table[mem] \cup {e}]
        PROVE  SInv'
    <3>1. /\ table'[mem] = table[mem] \cup {e}
          /\ \A n \in LogNumbers : n # mem => table'[n] = table[n]
          /\ e.seq > lastSequence
      BY <1>0, <2>2, <2>5
    <3>2. Stored' = Stored \cup {e}
      BY <1>0, <1>1, <2>1, <3>1 DEF Stored, MemEntries
    <3>3. StoreInv'
      <4>1. \A f \in Stored' :
              \/ f.seq <= lastSequence
              \/ \E u \in Writers : /\ pc[u] \in {"insert", "relock"} /\ status[u]
                                    /\ f \in group[u].entries
        BY <2>1, <2>2, <3>2 DEF SInv, StoreInv
      <4>2. \A u \in Writers : pc[u] # "relock"
        BY <2>1, <2>3 DEF Unlocked
      <4>3. \A n \in LogNumbers : n > mem => table'[n] = {}
        BY <1>0, <3>1 DEF SInv, StoreInv
      <4>. QED
        BY <1>1, <2>1, <2>5, <4>1, <4>2, <4>3 DEF SInv, StoreInv, Unlocked
    <3>4. StoreComplete' /\ SnapInv'
      BY <1>0, <2>1, <3>1, <3>2 DEF SInv, StoreComplete, SnapInv, UpTo
    <3>5. SnapshotConsistency'
      <4>. SUFFICES ASSUME NEW r \in Iters, iter[r].open = "yes"
                    PROVE  UpTo(MemEntries(iter[r].mem, iter[r].imm)' \cup iter[r].version, iter[r].snap)
                             = UpTo(committed, iter[r].snap)
        BY <2>1 DEF SnapshotConsistency, MemEntries
      <4>1. /\ iter[r].snap <= lastSequence /\ iter[r].snap \in Nat
            /\ iter[r].mem \in LogNumbers /\ iter[r].imm \in {0} \cup LogNumbers
        BY DEF SInv, SnapInv, TInv, TypeOK, ViewType
      <4>2. \A n \in LogNumbers : table'[n] \in {table[n], table[n] \cup {e}}
        BY <1>0, <3>1
      <4>3. e \notin UpTo(table'[iter[r].mem], iter[r].snap) /\ ~(e.seq <= iter[r].snap)
        BY <1>0, <3>1, <4>1 DEF UpTo
      <4>4. UpTo(table[iter[r].mem] \cup (IF iter[r].imm = 0 THEN {} ELSE table[iter[r].imm])
                   \cup iter[r].version, iter[r].snap)
              = UpTo(committed, iter[r].snap)
        BY DEF SInv, SnapshotConsistency, MemEntries
      <4>. QED
        BY <2>1, <4>1, <4>2, <4>3, <4>4 DEF UpTo, MemEntries
    <3>. QED
      BY <3>3, <3>4, <3>5 DEF SInv
  <2>6. QED
    BY <1>0, <1>7, <2>4, <2>5 DEF InsertInto, Goto
<1>8. ASSUME NEW w \in Writers, Relock(w)
      PROVE  SInv'
  <2>1. /\ pc[w] = "relock" /\ UNCHANGED <<status, group, table, iter, version, imm, mem>>
        /\ lastSequence' = lastSequence + group[w].count
        /\ committed' = committed \cup (IF status[w] THEN group[w].entries ELSE {})
    BY <1>8 DEF Relock, ownVars, NewLastSequence
  <2>2. \A u \in Writers : u # w => pc[u] \notin Unlocked
    BY <1>2, <2>1 DEF Unlocked, Leading
  <2>3. \A u \in Writers : pc'[u] \notin Unlocked
    <3>. DEFINE q == [pc EXCEPT ![w] = "finish"]
    <3>1. q \in [Writers -> WriterPc] /\ \A u \in Writers : q[u] \notin Unlocked
      BY <1>0, <2>2 DEF WriterPc, Leading, Unlocked
    <3>2. pc' \in {q, WakeAll(q)}
      BY <1>8 DEF Relock, RecordBackgroundError, Goto
    <3>. HIDE DEF q
    <3>. QED
      BY <3>1, <3>2, WakeAllLeading
  <2>4. Stored' = Stored
    BY <2>1 DEF Stored, MemEntries
  <2>5. /\ group[w].count \in Nat
        /\ \A e \in group[w].entries :
             lastSequence < e.seq /\ e.seq <= lastSequence + group[w].count
    BY <1>0, <2>1 DEF SInv, StoreInv, Unlocked
  <2>6. \A e \in Stored : e.seq <= lastSequence \/ (status[w] /\ e \in group[w].entries)
    BY <2>1, <2>2 DEF SInv, StoreInv, Unlocked
  <2>7. \A e \in Stored : e.seq <= lastSequence'
    BY <1>0, <2>1, <2>5, <2>6
  <2>8. status[w] => group[w].entries \subseteq Stored
    BY <2>1 DEF SInv, StoreInv, Stored, MemEntries
  <2>9. StoreInv'
    BY <1>1, <2>1, <2>3, <2>4, <2>7 DEF SInv, StoreInv, Unlocked
  <2>10. StoreComplete'
    <3>1. UpTo(Stored, lastSequence) = committed
      BY DEF SInv, StoreComplete
    <3>2. Stored = UpTo(Stored, lastSequence) \cup (IF status[w] THEN group[w].entries ELSE {})
      BY <2>6, <2>8 DEF UpTo
    <3>3. UpTo(Stored, lastSequence') = Stored
      BY <2>7 DEF UpTo
    <3>. QED
      BY <2>1, <2>4, <3>1, <3>2, <3>3 DEF StoreComplete, UpTo
  <2>11. SnapInv'
    BY <1>0, <2>1, <2>5 DEF SInv, SnapInv, TInv, TypeOK, ViewType
  <2>12. SnapshotConsistency'
    <3>. SUFFICES ASSUME NEW r \in Iters, iter[r].open = "yes"
                  PROVE  UpTo(committed', iter[r].snap) = UpTo(committed, iter[r].snap)
      BY <2>1 DEF SInv, SnapshotConsistency, MemEntries
    <3>1. iter[r].snap <= lastSequence /\ iter[r].snap \in Nat
      BY DEF SInv, SnapInv, TInv, TypeOK, ViewType
    <3>2. \A e \in group[w].entries : ~(e.seq <= iter[r].snap)
      BY <1>0, <2>5, <3>1
    <3>. QED
      BY <2>1, <3>2 DEF UpTo
  <2>. QED
    BY <2>9, <2>10, <2>11, <2>12 DEF SInv
<1>9. ASSUME NEW w \in Writers, Finish(w)
      PROVE  SInv'
  <2>1. /\ pc[w] = "finish"
        /\ UNCHANGED <<group, table, lastSequence, committed, iter, version, imm, mem>>
        /\ \E S : pc' = SignalTo(S, [pc EXCEPT ![w] = AfterWrite(w, status[w])])
    BY <1>9 DEF Finish, sharedVars, dataVars
  <2>2. \A u \in Writers : pc[u] \notin Unlocked
    BY <1>2, <2>1 DEF Unlocked, Leading
  <2>3. \A u \in Writers : pc'[u] \notin Unlocked
    BY <1>0, <2>1, <2>2 DEF SignalTo, AfterWrite, Unlocked
  <2>4. Stored' = Stored
    BY <2>1 DEF Stored, MemEntries
  <2>. QED
    BY <1>1, <2>1, <2>2, <2>3, <2>4, SInvFrame
<1>10. CASE BgStep
  <2>1. /\ UNCHANGED <<group, status, iter, committed, lastSequence, table, mem>>
        /\ pc' \in {pc, WakeAll(pc)}
    BY <1>10, BgStepWriters DEF ownVars
  <2>2. \A u \in Writers : /\ pc'[u] \in Unlocked => pc'[u] = pc[u]
                           /\ pc[u] \in Unlocked => pc'[u] = pc[u]
    BY <1>0, <2>1, WakeAllLeading
  <2>3. \/ UNCHANGED <<version, imm>>
        \/ imm # 0 /\ version' = version \cup table[imm] /\ imm' = 0
    <3>1. CASE FlushInstall
      BY <3>1 DEF FlushInstall, TInv, BgInv, FlushPc
    <3>2. CASE ~FlushInstall
      BY <1>10, <3>2 DEF BgStep, BackgroundCall, FlushBegin, BuildTable, FilesRemoved,
         CompactionBegin, TrivialMove, CompactionFlush, FlushRelock, CompactionRelock,
         CompactionInstall, CompactionFlushed, BackgroundReturn, allButBg, dataVars
    <3>. QED
      BY <3>1, <3>2
  <2>4. Stored' = Stored /\ imm' < mem'
    BY <1>0, <1>1, <2>1, <2>3, WQAssumption DEF Stored, MemEntries, LogNumbers
  <2>. QED
    BY <2>1, <2>2, <2>4, SInvFrame
<1>11. ASSUME NEW r \in Iters, ReaderStep(r)
       PROVE  SInv'
  <2>1. UNCHANGED <<pc, status, group, table, lastSequence, committed, version, imm, mem>>
    BY <1>11, OtherStepWriters DEF ownVars, dataVars
  <2>2. StoreInv' /\ StoreComplete' /\ Stored' = Stored
    BY <2>1 DEF SInv, StoreInv, StoreComplete, Stored, MemEntries, UpTo
  <2>3. iter \in [Iters -> ViewType]
    BY DEF TInv, TypeOK
  <2>4. \/ iter'[r].open = "snap" /\ iter'[r].snap = lastSequence
        \/ iter'[r].open = "closed"
        \/ /\ iter[r].open = "snap" /\ iter'[r].snap = iter[r].snap /\ iter'[r].mem = mem
           /\ iter'[r].imm = imm /\ iter'[r].version = version
    BY <1>11, <2>3 DEF ReaderStep, TakeSnapshot, OpenIterator, CloseIterator, Capture,
                       NoView, ViewType
  <2>5. \A q \in Iters : q # r => iter'[q] = iter[q]
    BY <1>11, <2>3 DEF ReaderStep, TakeSnapshot, OpenIterator, CloseIterator
  <2>6. iter[r].snap \in Nat
    BY <2>3 DEF ViewType
  <2>7. SnapInv'
    BY <1>0, <2>1, <2>4, <2>5, <2>6 DEF SInv, SnapInv
  <2>8. SnapshotConsistency'
    <3>. SUFFICES ASSUME NEW q \in Iters, iter'[q].open = "yes"
                  PROVE  UpTo(MemEntries(iter'[q].mem, iter'[q].imm) \cup iter'[q].version,
                              iter'[q].snap) = UpTo(committed, iter'[q].snap)
      BY <2>1 DEF SnapshotConsistency, MemEntries, UpTo
    <3>1. CASE q # r
      BY <2>5, <3>1 DEF SInv, SnapshotConsistency
    <3>2. CASE q = r
      <4>1. /\ iter[r].open = "snap" /\ iter'[r].snap = iter[r].snap
            /\ MemEntries(iter'[q].mem, iter'[q].imm) \cup iter'[q].version = Stored
        BY <2>4, <3>2 DEF Stored
      <4>2. iter[r].snap <= lastSequence
        BY <4>1 DEF SInv, SnapInv
      <4>3. UpTo(Stored, iter[r].snap) = UpTo(UpTo(Stored, lastSequence), iter[r].snap)
        BY <1>0, <2>6, <4>2 DEF UpTo
      <4>. QED
        BY <3>2, <4>1, <4>3 DEF SInv, StoreComplete
    <3>. QED
      BY <3>1, <3>2
  <2>. QED
    BY <2>2, <2>7, <2>8 DEF SInv
<1>12. CASE Destroy \/ Closed \/ UNCHANGED vars
  <2>1. UNCHANGED <<pc, status, group, table, lastSequence, committed, version, imm, mem, iter>>
    BY <1>12 DEF Destroy, Closed, vars, writerVars, dataVars
  <2>2. Stored' = Stored
    BY <2>1 DEF Stored, MemEntries
  <2>. QED
    BY <1>1, <2>1, <2>2, SInvFrame
<1>. QED
  BY <1>3, <1>4, <1>5, <1>6, <1>7, <1>8, <1>9, <1>10, <1>11, <1>12 DEF Next, WriterStep

(* mem_, imm_ and current() together hold exactly what is committed.       *)
THEOREM StoreIsComplete == Spec => []StoreComplete
<1>1. Spec => [](TInv /\ EInv /\ SInv)
  BY TInvInit, TInvNext, EInvInit, EInvNext, SInvInit, SInvNext, PTL DEF Spec
<1>. QED
  BY <1>1, PTL DEF SInv

(* A reader sees exactly what was committed up to its snapshot.            *)
THEOREM SnapshotsAreConsistent == Spec => []SnapshotConsistency
<1>1. Spec => [](TInv /\ EInv /\ SInv)
  BY TInvInit, TInvNext, EInvInit, EInvNext, SInvInit, SInvNext, PTL DEF Spec
<1>. QED
  BY <1>1, PTL DEF SInv

-----------------------------------------------------------------------------
(* What becomes of a write.                                                *)

LogEntries(n) == UNION {log[n][i] : i \in 1 .. Len(log[n])}

(* The group of w is in the log, or will not be in the store.              *)
InLog(w) == pc[w] \in {"sync", "insert"}
MaybeInLog(w) == pc[w] \in {"sync", "insert", "relock"}

LogInv ==
  /\ logNumber <= mem /\ (imm # 0 => logNumber <= imm)
  /\ \A n \in LogNumbers : n > mem => log[n] = <<>>
  /\ \A n \in LogNumbers : table[n] \subseteq LogEntries(n)
  /\ \A w \in Writers : InLog(w) => group[w].entries \subseteq LogEntries(mem)
  /\ \A n \in LogNumbers : \A e \in LogEntries(n) :
       \/ e.seq <= lastSequence
       \/ \E w \in Writers : MaybeInLog(w) /\ e \in group[w].entries
  /\ LogSequencesIncrease

-----------------------------------------------------------------------------
InQueue(u) == \E j \in 1 .. Len(queue) : queue[j] = u
Unfinished(u) == pc[u] \in {"start", "lock"} \/ InQueue(u)
Grouped == Unlocked \cup {"finish"}   \* the leader has made its group
Inserting == {"insert", "relock", "finish"}

(* A writer is in the queue once, until it is finished.                    *)
QueueShape ==
  /\ \A i, j \in 1 .. Len(queue) : queue[i] = queue[j] => i = j
  /\ \A j \in 1 .. Len(queue) :
       /\ ~done[queue[j]]
       /\ pc[queue[j]] \in {"check", "cv", "woken"} \cup Leading
  /\ \A w \in Writers : pc[w] \in {"check", "cv", "woken"} =>
       InQueue(w) \/ done[w]
  /\ \A w \in Writers : pc[w] \in {"start", "lock"} => ~done[w]
  /\ \A w \in Writers : pc[w] \in {"cmlock", "cmwait", "cmwoken"} => IsNull(w)

(* The operations of writer u in a set of entries, and whether the entries *)
(* of each writer are in the order of its batch.                           *)
Indexes(u, E) == {e.i : e \in EntriesOf(u, E)}
InBatchOrder(E) == \A e, f \in E : e.w = f.w /\ e.i < f.i => e.seq < f.seq

(* The group of a leader: all operations of its writers and no others; a   *)
(* leader that has failed, or has no batch, is alone.                      *)
GroupOK(w) ==
  /\ group[w].last \in 1 .. Len(queue)
  /\ \A e \in group[w].entries :
       \E j \in 1 .. group[w].last : queue[j] = e.w
  /\ InBatchOrder(group[w].entries)
  /\ \A j \in 1 .. group[w].last :
       /\ status[w] => Indexes(queue[j], group[w].entries) = 1 .. Ops(queue[j])
       /\ req[queue[j]].sync => req[w].sync
GroupShape == \A w \in Writers : pc[w] \in Grouped => GroupOK(w)

SyncedBound == \A n \in LogNumbers : synced[n] <= Len(log[n])
InSyncedPart(e) == \E n \in 1 .. mem : \E j \in 1 .. synced[n] : e \in log[n][j]

StoreOutcome ==
  /\ \A e \in Stored : Unfinished(e.w) =>
       \E w \in Writers : /\ pc[w] \in Inserting /\ status[w]
                          /\ e \in group[w].entries
  /\ \A w \in Writers : pc[w] \in {"relock", "finish"} /\ status[w] =>
       group[w].entries \subseteq Stored
  /\ \A w \in Writers : pc[w] \in Inserting /\ status[w] /\ req[w].sync =>
       \A e \in group[w].entries : InSyncedPart(e)
  /\ SyncedBound

(* What a finished writer was told.                                        *)
Told(u) ==
  /\ Indexes(u, Stored) = IF status[u] THEN 1 .. Ops(u) ELSE {}
  /\ req[u].sync /\ status[u] => SyncedIn(u)

Outcomes == \A u \in Writers : ~Unfinished(u) /\ ~IsNull(u) => Told(u)

(* Entries of a group come after all that was committed before their       *)
(* writers called.                                                         *)
AfterBefore(E) == \A f \in E : \A e \in before[f.w] : e.seq < f.seq
BeforeInv ==
  /\ \A u \in Writers : before[u] \subseteq committed
  /\ \A w \in Writers : pc[w] \in Unlocked => AfterBefore(group[w].entries)
  /\ RealTimeOrder

OutcomeInv ==
  QueueShape /\ GroupShape /\ StoreOutcome /\ Outcomes /\ BeforeInv

-----------------------------------------------------------------------------
(* The types, as facts about members.                                      *)
LEMMA LogTypes ==
  ASSUME TInv
  PROVE  /\ lastSequence \in Nat /\ mem \in LogNumbers /\ mem \in Nat
         /\ imm \in {0} \cup LogNumbers /\ imm \in Nat /\ logNumber \in Nat
         /\ log \in [LogNumbers -> Seq(SUBSET Entry)]
         /\ table \in [LogNumbers -> SUBSET Entry]
         /\ \A n \in LogNumbers : n \in Nat /\ Len(log[n]) \in Nat
         /\ \A n \in LogNumbers : LogEntries(n) \subseteq Entry
         /\ \A e \in Entry : e.seq \in Nat
         /\ \A w \in Writers : /\ group[w].entries \subseteq Entry
                               /\ group[w].count \in Nat
         /\ pc \in [Writers -> WriterPc] /\ group \in [Writers -> GroupType]
         /\ status \in [Writers -> BOOLEAN]
<1>1. /\ logNumber \in LogNumbers /\ log \in [LogNumbers -> Seq(SUBSET Entry)]
      /\ \A n \in LogNumbers : n \in Nat
  BY WQAssumption DEF TInv, TypeOK, DataTypes, LogNumbers
<1>2. \A n \in LogNumbers : Len(log[n]) \in Nat
  BY <1>1
<1>3. \A n \in LogNumbers : LogEntries(n) \subseteq Entry
  <2> SUFFICES ASSUME NEW n \in LogNumbers, NEW i \in 1 .. Len(log[n])
               PROVE  log[n][i] \subseteq Entry
    BY DEF LogEntries
  <2>1. log[n] \in Seq(SUBSET Entry)
    BY <1>1
  <2>2. log[n][i] \in SUBSET Entry
    BY <2>1
  <2> QED  BY <2>2
<1> QED  BY <1>1, <1>2, <1>3, StoreTypes

(* Two leaders are one.                                                    *)
LEMMA OneLeader ==
  ASSUME EInv, NEW w \in Writers, NEW u \in Writers,
         pc[w] \in Leading, pc[u] \in Leading
  PROVE  u = w
BY DEF EInv, ExclusiveLogger

(* The steps of a writer that is neither making nor writing a group.       *)
IdleStep(w) ==
  \/ Call(w) \/ Enqueue(w) \/ CheckFront(w) \/ Rewait(w) \/ SpuriousWake(w)
  \/ RoomError(w) \/ RoomDelay(w) \/ RoomAvailable(w) \/ RoomWait(w)
  \/ RoomNewLogFails(w) \/ AwaitFlush(w)

(* Such a step touches no data.                                            *)
LEMMA IdleStepFrame ==
  ASSUME TInv, NEW w \in Writers, IdleStep(w)
  PROVE  /\ UNCHANGED <<group, dataVars, committed, req>>
         /\ pc[w] \notin Unlocked \cup {"finish"}
         /\ pc'[w] \notin Unlocked \cup {"finish"}
         /\ \A u \in Writers : u # w => pc'[u] = pc[u] /\ status'[u] = status[u]
<1>0. pc \in [Writers -> WriterPc] /\ status \in [Writers -> BOOLEAN]
  BY LogTypes
<1>1. UNCHANGED <<group, dataVars, committed, req>>
  BY DEF IdleStep, Call, Enqueue, CheckFront, Rewait, SpuriousWake, RoomError,
         RoomDelay, RoomAvailable, RoomWait, RoomNewLogFails, AwaitFlush,
         sharedVars, ownVars
<1>2. \A u \in Writers : u # w => pc'[u] = pc[u] /\ status'[u] = status[u]
  BY <1>0 DEF IdleStep, Call, Enqueue, CheckFront, Rewait, SpuriousWake,
      RoomError, RoomDelay, RoomAvailable, RoomWait, RoomNewLogFails,
      AwaitFlush, Goto, ownVars
<1>3. /\ pc[w] \notin Unlocked \cup {"finish"}
      /\ pc'[w] \notin Unlocked \cup {"finish"}
  <2>1. CASE Call(w) \/ Enqueue(w) \/ Rewait(w) \/ SpuriousWake(w)
    BY <1>0, <2>1 DEF Call, Enqueue, Rewait, SpuriousWake, Goto, Unlocked
  <2>2. CASE CheckFront(w) \/ AwaitFlush(w)
    BY <1>0, <2>2 DEF CheckFront, AwaitFlush, AfterWrite, Goto, Unlocked
  <2>3. CASE RoomError(w) \/ RoomDelay(w) \/ RoomAvailable(w) \/ RoomWait(w)
               \/ RoomNewLogFails(w)
    BY <1>0, <2>3 DEF RoomError, RoomDelay, RoomAvailable, RoomWait,
                      RoomNewLogFails, CanSwitch, Goto, Unlocked
  <2> QED  BY <2>1, <2>2, <2>3 DEF IdleStep
<1> QED  BY <1>1, <1>2, <1>3

-----------------------------------------------------------------------------
(* What the logs hold.                                                     *)

(* Initially nothing is logged.                                            *)
LEMMA LogInvInit == Init => LogInv
<1> SUFFICES ASSUME Init PROVE LogInv
  OBVIOUS
<1>1. /\ logNumber = 1 /\ mem = 1 /\ imm = 0
      /\ \A n \in LogNumbers : log[n] = <<>> /\ table[n] = {}
      /\ \A w \in Writers : pc[w] = "start"
  BY DEF Init
<1>2. 1 .. mem \subseteq LogNumbers
  BY <1>1, WQAssumption DEF LogNumbers
<1>3. \A n \in LogNumbers : LogEntries(n) = {}
  BY <1>1 DEF LogEntries
<1>4. LogSequencesIncrease
  BY <1>1, <1>2 DEF LogSequencesIncrease
<1> QED  BY <1>1, <1>3, <1>4 DEF LogInv, InLog

(* While logs, memtables and the groups in the log do not change, and the  *)
(* logs that are needed stay, LogInv stays.                                *)
LEMMA LogFrame ==
  ASSUME LogInv, UNCHANGED <<log, table, mem>>, lastSequence' = lastSequence,
         logNumber' <= mem, imm' # 0 => logNumber' <= imm',
         \A u \in Writers : pc[u] \in Unlocked =>
           pc'[u] = pc[u] /\ group'[u].entries = group[u].entries,
         \A u \in Writers : pc'[u] \in Unlocked => pc'[u] = pc[u]
  PROVE  LogInv'
<1>1. \A n : LogEntries(n)' = LogEntries(n)
  BY DEF LogEntries
<1>2. \A u \in Writers : InLog(u)' => /\ InLog(u)
                                      /\ group'[u].entries = group[u].entries
  BY DEF InLog, Unlocked
<1>3. \A u \in Writers :
        MaybeInLog(u) => MaybeInLog(u)' /\ group'[u].entries = group[u].entries
  BY DEF MaybeInLog, Unlocked
<1>4. LogSequencesIncrease'
  BY DEF LogInv, LogSequencesIncrease
<1>5. \A n \in LogNumbers : \A e \in LogEntries(n) :
       \/ e.seq <= lastSequence
       \/ \E w \in Writers : MaybeInLog(w)' /\ e \in group'[w].entries
  BY <1>3 DEF LogInv
<1>6. \A u \in Writers : InLog(u)' => group'[u].entries \subseteq LogEntries(mem)
  BY <1>2 DEF LogInv
<1> QED  BY <1>1, <1>4, <1>5, <1>6 DEF LogInv

(* A record is appended to the log of mem_.                                *)
LEMMA AppendedLog ==
  ASSUME TInv, NEW E, log' = [log EXCEPT ![mem] = Append(@, E)]
  PROVE  /\ Len(log'[mem]) = Len(log[mem]) + 1
         /\ \A i \in 1 .. Len(log[mem]) : log'[mem][i] = log[mem][i]
         /\ log'[mem][Len(log[mem]) + 1] = E
         /\ \A n \in LogNumbers : n # mem => log'[n] = log[n]
         /\ \A n \in LogNumbers :
              LogEntries(n)' = IF n = mem THEN LogEntries(n) \cup E ELSE LogEntries(n)
<1>1. log[mem] \in Seq(SUBSET Entry) /\ mem \in LogNumbers
  BY LogTypes
<1>2. log'[mem] = Append(log[mem], E)
  BY <1>1, LogTypes
<1>3. /\ Len(log'[mem]) = Len(log[mem]) + 1
      /\ \A i \in 1 .. Len(log[mem]) : log'[mem][i] = log[mem][i]
      /\ log'[mem][Len(log[mem]) + 1] = E
  BY <1>1, <1>2
<1>4. UNION {log'[mem][i] : i \in 1 .. Len(log'[mem])} = LogEntries(mem) \cup E
  <2>1. Len(log[mem]) \in Nat
    BY <1>1
  <2> QED  BY <1>3, <2>1 DEF LogEntries
<1>5. \A n \in LogNumbers : n # mem => log'[n] = log[n]
  BY <1>1, LogTypes
<1> QED  BY <1>3, <1>4, <1>5 DEF LogEntries

(* Every step keeps LogInv.                                                *)
LEMMA LogInvNext ==
  TInv /\ TInv' /\ EInv /\ SInv /\ LogInv /\ [Next]_vars => LogInv'
<1> SUFFICES ASSUME TInv, TInv', EInv, SInv, LogInv, [Next]_vars PROVE LogInv'
  OBVIOUS
<1>0. /\ lastSequence \in Nat /\ mem \in LogNumbers /\ mem \in Nat
      /\ imm \in {0} \cup LogNumbers /\ imm \in Nat /\ logNumber \in Nat
      /\ log \in [LogNumbers -> Seq(SUBSET Entry)]
      /\ table \in [LogNumbers -> SUBSET Entry]
      /\ \A n \in LogNumbers : n \in Nat /\ Len(log[n]) \in Nat
      /\ \A n \in LogNumbers : LogEntries(n) \subseteq Entry
      /\ \A e \in Entry : e.seq \in Nat
      /\ \A w \in Writers : /\ group[w].entries \subseteq Entry
                            /\ group[w].count \in Nat
      /\ pc \in [Writers -> WriterPc] /\ group \in [Writers -> GroupType]
      /\ status \in [Writers -> BOOLEAN]
  BY LogTypes
<1>1. logNumber <= mem /\ (imm # 0 => logNumber <= imm) /\ imm < mem
  BY DEF LogInv, SInv, StoreInv
<1>2. ASSUME NEW w \in Writers, pc[w] \in Leading, NEW u \in Writers, u # w
      PROVE  pc[u] \notin Unlocked
  BY <1>2, OneLeader DEF Leading, Unlocked
<1>3. ASSUME NEW w \in Writers, IdleStep(w) PROVE LogInv'
  <2>1. UNCHANGED <<group, log, table, mem, imm, lastSequence, logNumber>>
    BY <1>3, IdleStepFrame DEF dataVars
  <2>2. /\ pc[w] \notin Unlocked /\ pc'[w] \notin Unlocked
        /\ \A u \in Writers : u # w => pc'[u] = pc[u]
    BY <1>3, IdleStepFrame
  <2> QED  BY <1>1, <2>1, <2>2, LogFrame
<1>4. ASSUME NEW w \in Writers, RoomSwitch(w) PROVE LogInv'
  <2>1. /\ pc[w] = "room" /\ imm' = mem /\ mem' = mem + 1
        /\ UNCHANGED <<group, table, log, lastSequence, logNumber>>
        /\ pc' \in {pc, WakeAll(pc)}
    BY <1>4 DEF RoomSwitch, CanSwitch, RecordBackgroundError
  <2>2. \A u \in Writers : pc[u] \notin Unlocked
    BY <1>2, <2>1 DEF Leading, Unlocked
  <2>3. \A u \in Writers : pc'[u] \notin Unlocked
    BY <1>0, <2>1, <2>2, WakeAllLeading
  <2>4. mem + 1 \in LogNumbers
    BY <2>1 DEF TInv, TypeOK, DataTypes
  <2>5. \A n : LogEntries(n)' = LogEntries(n)
    BY <2>1 DEF LogEntries
  <2>6. log[mem + 1] = <<>>
    BY <1>0, <2>4 DEF LogInv
  <2>7. \A n \in 1 .. mem + 1 : n \in 1 .. mem \/ Len(log[n]) = 0
    BY <1>0, <2>6
  <2>8. LogSequencesIncrease'
    <3> SUFFICES ASSUME NEW m \in 1 .. mem + 1, NEW n \in 1 .. mem + 1,
                        NEW i \in 1 .. Len(log[m]), NEW j \in 1 .. Len(log[n]),
                        m < n \/ (m = n /\ i < j),
                        NEW e \in log[m][i], NEW f \in log[n][j]
                 PROVE  e.seq < f.seq
      BY <2>1 DEF LogSequencesIncrease
    <3>1. m \in 1 .. mem /\ n \in 1 .. mem
      BY <2>7
    <3> QED  BY <3>1 DEF LogInv, LogSequencesIncrease
  <2>9. \A n \in LogNumbers : \A e \in LogEntries(n) : e.seq <= lastSequence
    BY <2>2 DEF LogInv, MaybeInLog, Unlocked
  <2>10. \A n \in LogNumbers : n > mem + 1 => log[n] = <<>>
    BY <1>0 DEF LogInv
  <2>11. \A u \in Writers : ~InLog(u)'
    BY <2>3 DEF InLog, Unlocked
  <2>12. \A n \in LogNumbers : table[n] \subseteq LogEntries(n)
    BY DEF LogInv
  <2> QED  BY <1>0, <1>1, <2>1, <2>5, <2>8, <2>9, <2>10, <2>11, <2>12 DEF LogInv
<1>5. ASSUME NEW w \in Writers, BuildGroup(w) PROVE LogInv'
  <2>1. /\ pc[w] = "group"
        /\ UNCHANGED <<log, table, mem, imm, lastSequence, logNumber>>
        /\ \A u \in Writers : u # w => pc'[u] = pc[u] /\ group'[u] = group[u]
        /\ pc'[w] \in {"log", "finish"}
    BY <1>0, <1>5 DEF BuildGroup, Goto, sharedVars, dataVars
  <2>2. \A u \in Writers : pc[u] \notin Unlocked
    BY <1>2, <2>1 DEF Leading, Unlocked
  <2>3. \A u \in Writers : ~InLog(u)'
    BY <2>1, <2>2 DEF InLog, Unlocked
  <2>4. \A n : LogEntries(n)' = LogEntries(n)
    BY <2>1 DEF LogEntries
  <2>5. \A n \in LogNumbers : \A e \in LogEntries(n) : e.seq <= lastSequence
    BY <2>2 DEF LogInv, MaybeInLog, Unlocked
  <2>6. LogSequencesIncrease'
    BY <2>1 DEF LogInv, LogSequencesIncrease
  <2> QED  BY <2>1, <2>3, <2>4, <2>5, <2>6 DEF LogInv
<1>6. ASSUME NEW w \in Writers, AddRecord(w) PROVE LogInv'
  <2>1. /\ pc[w] = "log"
        /\ UNCHANGED <<table, mem, imm, lastSequence, logNumber, group>>
        /\ \A u \in Writers : u # w => pc'[u] = pc[u]
    BY <1>0, <1>6 DEF AddRecord, Goto
  <2>2. \A u \in Writers : u # w => pc[u] \notin Unlocked
    BY <1>2, <2>1 DEF Leading
  <2>3. \A n \in LogNumbers : \A e \in LogEntries(n) : e.seq <= lastSequence
    BY <2>1, <2>2 DEF LogInv, MaybeInLog, Unlocked
  <2>5. CASE /\ log' = [log EXCEPT ![mem] = Append(@, group[w].entries)]
             /\ pc'[w] \in {"sync", "insert", "relock"}
    <3> DEFINE E == group[w].entries
               len == Len(log[mem])
    <3>1. /\ Len(log'[mem]) = len + 1
          /\ \A i \in 1 .. len : log'[mem][i] = log[mem][i]
          /\ log'[mem][len + 1] = E
          /\ \A n \in LogNumbers : n # mem => log'[n] = log[n]
          /\ \A n \in LogNumbers :
               LogEntries(n)' = IF n = mem THEN LogEntries(n) \cup E ELSE LogEntries(n)
      BY <2>5, AppendedLog
    <3>2. len \in Nat
      BY <1>0
    <3>3. \A e \in E : lastSequence < e.seq /\ e \in Entry
      BY <1>0, <2>1 DEF SInv, StoreInv, Unlocked
    <3> HIDE DEF E, len
    <3>4. \A n \in LogNumbers : LogEntries(n) \subseteq LogEntries(n)'
      BY <3>1
    <3>5. \A u \in Writers : InLog(u)' => u = w
      BY <2>1, <2>2 DEF InLog, Unlocked
    <3>6. group'[w].entries \subseteq LogEntries(mem)'
      BY <1>0, <2>1, <3>1 DEF E
    <3>7. MaybeInLog(w)'
      BY <2>5 DEF MaybeInLog
    <3>8. \A n \in LogNumbers : \A e \in LogEntries(n)' :
            \/ e.seq <= lastSequence
            \/ \E u \in Writers : MaybeInLog(u)' /\ e \in group'[u].entries
      BY <2>1, <2>3, <3>1, <3>7 DEF E
    <3>9. LogSequencesIncrease'
      <4> SUFFICES ASSUME NEW m \in 1 .. mem, NEW n \in 1 .. mem,
                          NEW i \in 1 .. Len(log'[m]),
                          NEW j \in 1 .. Len(log'[n]),
                          m < n \/ (m = n /\ i < j),
                          NEW e \in log'[m][i], NEW f \in log'[n][j]
                   PROVE  e.seq < f.seq
        BY <2>1 DEF LogSequencesIncrease
      <4>0. m \in LogNumbers /\ n \in LogNumbers
        <5>1. MaxLogs \in Nat /\ mem \in 1 .. MaxLogs
          BY <1>0, WQAssumption DEF LogNumbers
        <5> QED  BY <5>1 DEF LogNumbers
      <4>1. m = mem => i # len + 1
        BY <1>0, <3>1, <3>2
      <4>2. i \in 1 .. Len(log[m]) /\ log'[m][i] = log[m][i]
        BY <1>0, <3>1, <3>2, <4>0, <4>1, SMTT(20) DEF len
      <4>3. e \in LogEntries(m)
        BY <4>2 DEF LogEntries
      <4>4. CASE n = mem /\ j = len + 1
        <5>1. f \in E
          BY <3>1, <4>4
        <5>2. e.seq <= lastSequence /\ e.seq \in Nat /\ f.seq \in Nat
          BY <1>0, <2>3, <3>3, <4>0, <4>3, <5>1
        <5> QED  BY <1>0, <3>3, <5>1, <5>2
      <4>5. CASE ~(n = mem /\ j = len + 1)
        <5>1. j \in 1 .. Len(log[n]) /\ log'[n][j] = log[n][j]
          BY <1>0, <3>1, <3>2, <4>0, <4>5, SMTT(20) DEF len
        <5> QED  BY <4>2, <5>1 DEF LogInv, LogSequencesIncrease
      <4> QED  BY <4>4, <4>5
    <3>10. \A n \in LogNumbers : n > mem => log'[n] = <<>>
      BY <1>0, <3>1 DEF LogInv
    <3>11. \A n \in LogNumbers : table'[n] \subseteq LogEntries(n)'
      BY <2>1, <3>4 DEF LogInv
    <3>12. \A u \in Writers : InLog(u)' => group'[u].entries \subseteq LogEntries(mem)'
      BY <3>5, <3>6
    <3> QED  BY <1>1, <2>1, <3>8, <3>9, <3>10, <3>11, <3>12 DEF LogInv
  <2> QED  BY <1>0, <1>6, <2>5 DEF AddRecord, Goto
<1>7. ASSUME NEW w \in Writers, SyncLog(w) PROVE LogInv'
  <2>1. /\ pc[w] = "sync"
        /\ UNCHANGED <<log, table, mem, imm, lastSequence, logNumber>>
        /\ \A u \in Writers : u # w => pc'[u] = pc[u]
        /\ pc'[w] \in {"insert", "relock"}
    BY <1>0, <1>7 DEF SyncLog, Goto
  <2>2. \A u \in Writers : group'[u].entries = group[u].entries
    <3>1. \A u \in Writers : group[u] \in GroupType
      BY <1>0
    <3>2. \/ group' = group
          \/ group' = [group EXCEPT ![w] = [group[w] EXCEPT !.syncError = TRUE]]
      BY <1>7 DEF SyncLog
    <3>3. [group[w] EXCEPT !.syncError = TRUE].entries = group[w].entries
      BY <3>1 DEF GroupType
    <3>4. group \in [Writers -> GroupType]
      BY <1>0
    <3> QED  BY <3>2, <3>3, <3>4
  <2>3. \A u \in Writers : InLog(u)' => InLog(u)
    BY <2>1 DEF InLog
  <2>4. \A u \in Writers : MaybeInLog(u) => MaybeInLog(u)'
    BY <2>1 DEF MaybeInLog
  <2>5. \A n : LogEntries(n)' = LogEntries(n)
    BY <2>1 DEF LogEntries
  <2>6. LogSequencesIncrease'
    BY <2>1 DEF LogInv, LogSequencesIncrease
  <2>7. \A n \in LogNumbers : \A e \in LogEntries(n) :
          \/ e.seq <= lastSequence
          \/ \E u \in Writers : MaybeInLog(u)' /\ e \in group'[u].entries
    BY <2>2, <2>4 DEF LogInv
  <2>8. \A u \in Writers : InLog(u)' => group'[u].entries \subseteq LogEntries(mem)
    BY <2>2, <2>3 DEF LogInv
  <2> QED  BY <2>1, <2>5, <2>6, <2>7, <2>8 DEF LogInv
<1>8. ASSUME NEW w \in Writers, InsertInto(w) PROVE LogInv'
  <2>1. /\ pc[w] = "insert"
        /\ UNCHANGED <<log, mem, imm, lastSequence, logNumber, group>>
        /\ \A u \in Writers : u # w => pc'[u] = pc[u]
        /\ pc'[w] \in {"insert", "relock"}
        /\ \/ table' = table
           \/ \E e \in group[w].entries :
                table' = [table EXCEPT ![mem] = @ \cup {e}]
    BY <1>0, <1>8 DEF InsertInto, Goto, ownVars
  <2>2. group[w].entries \subseteq LogEntries(mem)
    BY <2>1 DEF LogInv, InLog
  <2>3. \A n \in LogNumbers : table'[n] \subseteq LogEntries(n)
    <3>1. table \in [LogNumbers -> SUBSET Entry] /\ mem \in LogNumbers
      BY <1>0
    <3>2. \A n \in LogNumbers : table[n] \subseteq LogEntries(n)
      BY DEF LogInv
    <3>3. CASE table' = table
      BY <3>2, <3>3
    <3>4. ASSUME NEW e \in group[w].entries,
                 table' = [table EXCEPT ![mem] = @ \cup {e}]
          PROVE  \A n \in LogNumbers : table'[n] \subseteq LogEntries(n)
      <4>1. e \in LogEntries(mem)
        BY <2>2
      <4>. HIDE DEF LogEntries
      <4>2. \A n \in LogNumbers :
              table'[n] = IF n = mem THEN table[mem] \cup {e} ELSE table[n]
        BY <3>1, <3>4
      <4>. QED
        BY <3>2, <4>1, <4>2
    <3>. QED
      BY <2>1, <3>3, <3>4
  <2>4. \A u \in Writers : InLog(u)' => InLog(u)
    BY <2>1 DEF InLog
  <2>5. \A u \in Writers : MaybeInLog(u) => MaybeInLog(u)'
    BY <2>1 DEF MaybeInLog
  <2>6. \A n : LogEntries(n)' = LogEntries(n)
    BY <2>1 DEF LogEntries
  <2>7. LogSequencesIncrease'
    BY <2>1 DEF LogInv, LogSequencesIncrease
  <2>8. \A n \in LogNumbers : \A e \in LogEntries(n) :
          \/ e.seq <= lastSequence
          \/ \E u \in Writers : MaybeInLog(u)' /\ e \in group[u].entries
    BY <2>5 DEF LogInv
  <2>9. \A u \in Writers : InLog(u)' => group[u].entries \subseteq LogEntries(mem)
    BY <2>4 DEF LogInv
  <2> QED  BY <2>1, <2>3, <2>6, <2>7, <2>8, <2>9 DEF LogInv
<1>9. ASSUME NEW w \in Writers, Relock(w) PROVE LogInv'
  <2>1. /\ pc[w] = "relock" /\ UNCHANGED <<group, log, table, mem, imm, logNumber>>
        /\ lastSequence' = lastSequence + group[w].count
    BY <1>9 DEF Relock, ownVars, NewLastSequence
  <2>2. \A u \in Writers : u # w => pc[u] \notin Unlocked
    BY <1>2, <2>1 DEF Leading
  <2>3. \A u \in Writers : pc'[u] \notin Unlocked
    <3> DEFINE q == [pc EXCEPT ![w] = "finish"]
    <3>1. q \in [Writers -> WriterPc] /\ \A u \in Writers : q[u] \notin Unlocked
      BY <1>0, <2>2 DEF WriterPc, Leading, Unlocked
    <3>2. pc' \in {q, WakeAll(q)}
      BY <1>9 DEF Relock, RecordBackgroundError, Goto
    <3> HIDE DEF q
    <3> QED  BY <3>1, <3>2, WakeAllLeading
  <2>4. \A e \in group[w].entries : e.seq <= lastSequence + group[w].count
    BY <2>1 DEF SInv, StoreInv, Unlocked
  <2>5. \A n \in LogNumbers : \A e \in LogEntries(n) : e.seq <= lastSequence'
    <3> SUFFICES ASSUME NEW n \in LogNumbers, NEW e \in LogEntries(n)
                 PROVE  e.seq <= lastSequence + group[w].count
      BY <2>1
    <3>1. e.seq <= lastSequence \/ e \in group[w].entries
      BY <2>2 DEF LogInv, MaybeInLog, Unlocked
    <3>2. e.seq \in Nat /\ group[w].count \in Nat
      BY <1>0
    <3> QED  BY <1>0, <2>4, <3>1, <3>2
  <2>6. \A u \in Writers : ~InLog(u)'
    BY <2>3 DEF InLog, Unlocked
  <2>7. \A n : LogEntries(n)' = LogEntries(n)
    BY <2>1 DEF LogEntries
  <2>8. LogSequencesIncrease'
    BY <2>1 DEF LogInv, LogSequencesIncrease
  <2> QED  BY <2>1, <2>5, <2>6, <2>7, <2>8 DEF LogInv
<1>10. ASSUME NEW w \in Writers, Finish(w) PROVE LogInv'
  <2>1. /\ pc[w] = "finish"
        /\ UNCHANGED <<group, log, table, mem, imm, lastSequence, logNumber>>
        /\ \E S : pc' = SignalTo(S, [pc EXCEPT ![w] = AfterWrite(w, status[w])])
    BY <1>10 DEF Finish, sharedVars, dataVars
  <2>2. \A u \in Writers : pc[u] \notin Unlocked
    BY <1>2, <2>1 DEF Unlocked, Leading
  <2>3. \A u \in Writers : pc'[u] \notin Unlocked
    BY <1>0, <2>1, <2>2 DEF SignalTo, AfterWrite, Unlocked
  <2> QED  BY <1>1, <2>1, <2>2, <2>3, LogFrame
<1>11. CASE BgStep
  <2>1. /\ UNCHANGED <<group, lastSequence, table, mem>>
        /\ pc' \in {pc, WakeAll(pc)}
    BY <1>11, BgStepWriters DEF ownVars
  <2>2. \A u \in Writers : /\ pc'[u] \in Unlocked => pc'[u] = pc[u]
                           /\ pc[u] \in Unlocked => pc'[u] = pc[u]
    BY <1>0, <2>1, WakeAllLeading
  <2>3. /\ log' = log
        /\ UNCHANGED <<imm, logNumber>> \/ (imm' = 0 /\ logNumber' = mem)
    <3>1. CASE FlushInstall
      BY <3>1 DEF FlushInstall, FlushedLogNumber
    <3>2. CASE ~FlushInstall
      BY <1>11, <3>2 DEF BgStep, BackgroundCall, FlushBegin, BuildTable,
         FilesRemoved, CompactionBegin, TrivialMove, CompactionFlush,
         FlushRelock, CompactionRelock, CompactionInstall, CompactionFlushed,
         BackgroundReturn, allButBg, dataVars
    <3> QED  BY <3>1, <3>2
  <2> QED  BY <1>0, <1>1, <2>1, <2>2, <2>3, LogFrame
<1>12. CASE (\E r \in Iters : ReaderStep(r)) \/ Destroy \/ Closed \/ UNCHANGED vars
  <2>1. UNCHANGED <<pc, group, log, table, mem, imm, lastSequence, logNumber>>
    BY <1>12, OtherStepWriters DEF ownVars, dataVars
  <2> QED  BY <1>1, <2>1, LogFrame
<1> QED  BY <1>3, <1>4, <1>5, <1>6, <1>7, <1>8, <1>9, <1>10, <1>11, <1>12
         DEF Next, WriterStep, IdleStep

-----------------------------------------------------------------------------
(* What recovery finds in the logs.                                        *)

(* Entries that may still be committed.                                    *)
Pledged(w) == MaybeInLog(w) /\ status[w]

(* The first record that is not surely found is of a write that failed.    *)
Refused(n) ==
  LET F == log[n][sound[n] + 1]
  IN F \cap committed = {}
     /\ \A w \in Writers : Pledged(w) => F \cap group[w].entries = {}

SoundLog(n) ==
  /\ sound[n] <= Len(log[n])
  /\ sound[n] < Len(log[n]) =>
       Refused(n) \/ (bgError /\ n < mem /\ synced[n] <= sound[n])

SoundInv == \A n \in LogNumbers : SoundLog(n)

(* While the logs stay as they are and no other entries are committed or   *)
(* may be, so does what recovery finds.                                    *)
LEMMA SoundFrame ==
  ASSUME TInv, TInv', SoundInv, UNCHANGED <<log, sound, committed>>,
         mem <= mem', bgError => bgError',
         \A n \in LogNumbers : n < mem => synced'[n] = synced[n],
         \A u \in Writers : Pledged(u)' =>
           Pledged(u) /\ group'[u].entries = group[u].entries
  PROVE  SoundInv'
<1>1. mem \in Nat /\ mem' \in Nat /\ \A n \in LogNumbers : n \in Nat
  BY LogTypes, WQAssumption DEF TInv, TypeOK, DataTypes, LogNumbers
<1>2. ASSUME NEW n \in LogNumbers, Refused(n) PROVE Refused(n)'
  BY <1>2 DEF Refused
<1>3. ASSUME NEW n \in LogNumbers, bgError, n < mem, synced[n] <= sound[n]
      PROVE  (bgError /\ n < mem /\ synced[n] <= sound[n])'
  BY <1>1, <1>3
<1>4. ASSUME NEW n \in LogNumbers PROVE SoundLog(n)'
  BY <1>2, <1>3 DEF SoundInv, SoundLog
<1> QED  BY <1>4 DEF SoundInv

(* Initially the logs are empty.                                           *)
LEMMA SoundInvInit == Init => SoundInv
BY DEF Init, SoundInv, SoundLog

(* A record is appended, found or torn.                                    *)
LEMMA SoundAppend ==
  ASSUME TInv, TInv', EInv, SInv, LogInv, SoundInv, NEW w \in Writers,
         AddRecord(w)
  PROVE  SoundInv'
<1> DEFINE E == group[w].entries
           len == Len(log[mem])
<1>0. /\ mem \in LogNumbers /\ lastSequence \in Nat
      /\ pc \in [Writers -> WriterPc] /\ status \in [Writers -> BOOLEAN]
      /\ \A n \in LogNumbers : Len(log[n]) \in Nat /\ sound[n] \in Nat
      /\ \A n \in LogNumbers : LogEntries(n) \subseteq Entry
      /\ \A e \in Entry : e.seq \in Nat
      /\ E \subseteq Entry /\ committed \subseteq Entry
      /\ sound \in [LogNumbers -> Nat]
  BY LogTypes, StoreTypes DEF TInv, TypeOK, DataTypes
<1>1. /\ pc[w] = "log" /\ UNCHANGED <<mem, synced, group, committed, bgError>>
      /\ \A u \in Writers : u # w => pc'[u] = pc[u] /\ status'[u] = status[u]
  BY <1>0 DEF AddRecord, Goto, bgVars
<1>2. log' = [log EXCEPT ![mem] = Append(@, E)]
  BY DEF AddRecord
<1>3. /\ Len(log'[mem]) = len + 1
      /\ \A i \in 1 .. len : log'[mem][i] = log[mem][i]
      /\ log'[mem][len + 1] = E
      /\ \A n \in LogNumbers : n # mem => log'[n] = log[n]
  BY <1>2, AppendedLog
<1>4. \A u \in Writers : u # w => pc[u] \notin Unlocked
  BY <1>1, OneLeader DEF Leading, Unlocked
<1>5. \A u \in Writers : Pledged(u)' => u = w
  BY <1>1, <1>4 DEF Pledged, MaybeInLog, Unlocked
<1>6. \A e \in E : lastSequence < e.seq
  BY <1>1 DEF SInv, StoreInv, Unlocked
<1>7. \A n \in LogNumbers : \A e \in LogEntries(n) : e.seq <= lastSequence
  BY <1>1, <1>4 DEF LogInv, MaybeInLog, Unlocked
<1>8. \A e \in committed : e.seq <= lastSequence
  BY DEF SInv, StoreComplete, UpTo
<1>9. E \cap committed = {} /\ \A n \in LogNumbers : LogEntries(n) \cap E = {}
  <2>1. ASSUME NEW e \in E PROVE ~(e.seq <= lastSequence)
    <3>1. e.seq \in Nat
      BY <1>0
    <3> QED  BY <1>0, <1>6, <3>1
  <2> QED  BY <1>7, <1>8, <2>1
<1> HIDE DEF E, len
(* A log that was not in step stays as it was up to the first torn record. *)
<1>10. ASSUME NEW n \in LogNumbers, sound[n] < Len(log[n]), sound'[n] = sound[n]
       PROVE  SoundLog(n)'
  <2>1. /\ sound[n] <= Len(log'[n])
        /\ log'[n][sound[n] + 1] = log[n][sound[n] + 1]
    <3>1. CASE n = mem
      <4>1. sound[mem] + 1 \in 1 .. len /\ len \in Nat /\ sound[mem] \in Nat
        BY <1>0, <1>10, <3>1 DEF len
      <4>2. sound[mem] <= len + 1
        BY <4>1
      <4> QED  BY <1>3, <3>1, <4>1, <4>2
    <3>2. CASE n # mem
      BY <1>0, <1>3, <1>10, <3>2
    <3> QED  BY <3>1, <3>2
  <2>2. log[n][sound[n] + 1] \subseteq LogEntries(n)
    <3>1. sound[n] + 1 \in 1 .. Len(log[n])
      BY <1>0, <1>10
    <3> QED  BY <3>1 DEF LogEntries
  <2>3. ASSUME Refused(n) PROVE Refused(n)'
    <3>1. log[n][sound[n] + 1] \cap E = {}
      BY <1>9, <2>2
    <3>2. log[n][sound[n] + 1] \cap committed = {}
      BY <2>3 DEF Refused
    <3> QED  BY <1>1, <1>5, <1>10, <2>1, <3>1, <3>2 DEF Refused, E
  <2>4. Refused(n) \/ (bgError /\ n < mem /\ synced[n] <= sound[n])
    BY <1>10 DEF SoundInv, SoundLog
  <2> QED  BY <1>1, <1>10, <2>1, <2>3, <2>4 DEF SoundLog
<1>11. ASSUME NEW n \in LogNumbers, n # mem PROVE SoundLog(n)'
  <2>1. sound'[n] = sound[n] /\ log'[n] = log[n]
    BY <1>0, <1>3, <1>11 DEF AddRecord, RecordFound
  <2>2. CASE sound[n] < Len(log[n])
    BY <1>10, <2>1, <2>2
  <2>3. CASE ~(sound[n] < Len(log[n]))
    BY <2>1, <2>3 DEF SoundLog, SoundInv
  <2> QED  BY <2>2, <2>3
<1>12. SoundLog(mem)'
  <2>1. sound[mem] <= len
    BY <1>0 DEF SoundInv, SoundLog, len
  <2>2. CASE sound[mem] < len
    <3>1. sound'[mem] = sound[mem]
      BY <1>0, <2>2 DEF AddRecord, RecordFound, InStep, len
    <3> QED  BY <1>0, <1>1, <1>10, <2>2, <3>1 DEF len
  <2>3. CASE sound[mem] = len /\ sound'[mem] = len + 1
    BY <1>0, <1>1, <1>3, <2>3 DEF SoundLog, len
  <2>4. CASE sound[mem] = len /\ sound'[mem] = len
    <3>1. ~status'[w]
      <4>1. len + 1 # len
        BY <1>0 DEF len
      <4>2. ~RecordFound
        BY <1>0, <2>4, <4>1 DEF RecordFound, InStep, len
      <4> QED  BY <1>0, <4>2 DEF AddRecord
    <3>2. \A u \in Writers : ~Pledged(u)'
      BY <1>5, <3>1 DEF Pledged
    <3>3. Refused(mem)'
      BY <1>1, <1>3, <1>9, <2>4, <3>2 DEF Refused
    <3> QED  BY <1>0, <1>1, <1>3, <2>4, <3>3 DEF SoundLog, len
  <2>5. sound[mem] = len => sound'[mem] \in {len, len + 1}
    BY <1>0 DEF AddRecord, RecordFound
  <2> QED  BY <1>0, <2>1, <2>2, <2>3, <2>4, <2>5 DEF len
<1> QED  BY <1>1, <1>11, <1>12 DEF SoundInv

(* The log is closed, and perhaps loses what was not synced.               *)
LEMMA SoundSwitch ==
  ASSUME TInv, TInv', EInv, SoundInv, NEW w \in Writers, RoomSwitch(w)
  PROVE  SoundInv'
<1>0. /\ mem \in LogNumbers /\ mem \in Nat
      /\ pc \in [Writers -> WriterPc] /\ status \in [Writers -> BOOLEAN]
      /\ sound \in [LogNumbers -> Nat]
      /\ \A n \in LogNumbers : Len(log[n]) \in Nat /\ sound[n] \in Nat /\ n \in Nat
      /\ synced \in [LogNumbers -> Nat]
  BY LogTypes DEF TInv, TypeOK, DataTypes
<1>1. /\ pc[w] = "room" /\ mem' = mem + 1
      /\ UNCHANGED <<group, log, synced, committed, status>>
      /\ pc' \in {pc, WakeAll(pc)}
  BY DEF RoomSwitch, CanSwitch, RecordBackgroundError
<1>2. \A u \in Writers : u # w => pc[u] \notin Unlocked
  BY <1>1, OneLeader DEF Leading, Unlocked
<1>3. \A u \in Writers : pc[u] \notin Unlocked
  BY <1>1, <1>2 DEF Unlocked
<1>4. \A u \in Writers : pc'[u] \notin Unlocked
  BY <1>0, <1>1, <1>3, WakeAllLeading
<1>5. \A u \in Writers : ~Pledged(u)'
  BY <1>4 DEF Pledged, MaybeInLog, Unlocked
<1>6. CASE sound' = sound
  <2>1. bgError => bgError'
    BY DEF RoomSwitch, RecordBackgroundError
  <2>2. mem <= mem' /\ \A n \in LogNumbers : synced'[n] = synced[n]
    BY <1>0, <1>1
  <2> QED  BY <1>1, <1>5, <1>6, <2>1, <2>2, SoundFrame
<1>7. CASE sound' # sound
  <2>1. PICK k \in 0 .. sound[mem] :
          /\ k = sound[mem] \/ synced[mem] <= k
          /\ sound' = [sound EXCEPT ![mem] = k]
    BY <1>7 DEF RoomSwitch
  <2>2. bgError'
    BY <1>7 DEF RoomSwitch, RecordBackgroundError
  <2>3. k # sound[mem]
    BY <1>0, <1>7, <2>1
  <2>4. ASSUME NEW m \in LogNumbers, m = mem PROVE SoundLog(m)'
    <3>1. sound'[m] = k /\ k \in Nat /\ k <= Len(log[m])
      BY <1>0, <2>1, <2>4 DEF SoundInv, SoundLog
    <3>2. m < mem' /\ synced'[m] <= k
      BY <1>0, <1>1, <2>1, <2>3, <2>4
    <3> QED  BY <1>1, <2>2, <3>1, <3>2 DEF SoundLog
  <2>5. ASSUME NEW n \in LogNumbers, n # mem PROVE SoundLog(n)'
    <3>1. sound'[n] = sound[n]
      BY <1>0, <2>1, <2>5
    <3>2. ASSUME Refused(n) PROVE Refused(n)'
      BY <1>1, <1>5, <3>1, <3>2 DEF Refused
    <3>3. n < mem => n < mem'
      BY <1>0, <1>1
    <3> QED  BY <1>1, <2>2, <3>1, <3>2, <3>3 DEF SoundInv, SoundLog
  <2> QED  BY <1>0, <2>4, <2>5 DEF SoundInv
<1> QED  BY <1>6, <1>7

(* Every step keeps SoundInv.                                              *)
LEMMA SoundInvNext ==
  TInv /\ TInv' /\ EInv /\ SInv /\ LogInv /\ SoundInv /\ [Next]_vars => SoundInv'
<1> SUFFICES ASSUME TInv, TInv', EInv, SInv, LogInv, SoundInv, [Next]_vars
             PROVE  SoundInv'
  OBVIOUS
<1>0. /\ pc \in [Writers -> WriterPc] /\ group \in [Writers -> GroupType]
      /\ status \in [Writers -> BOOLEAN]
      /\ mem \in Nat /\ mem <= mem /\ synced \in [LogNumbers -> Nat]
      /\ \A n \in LogNumbers : n \in Nat
  <2>1. mem \in Nat /\ synced \in [LogNumbers -> Nat]
    BY LogTypes DEF TInv, TypeOK, DataTypes
  <2> QED  BY <2>1, LogTypes
<1>2. ASSUME NEW w \in Writers, pc[w] \in Leading, NEW u \in Writers, u # w
      PROVE  pc[u] \notin Unlocked
  BY <1>2, OneLeader DEF Leading, Unlocked
<1>3. ASSUME NEW w \in Writers, IdleStep(w) PROVE SoundInv'
  <2>1. UNCHANGED <<group, log, sound, synced, mem, committed>>
    BY <1>3, IdleStepFrame DEF dataVars
  <2>2. /\ pc'[w] \notin Unlocked
        /\ \A u \in Writers : u # w => pc'[u] = pc[u] /\ status'[u] = status[u]
    BY <1>3, IdleStepFrame
  <2>3. \A u \in Writers : Pledged(u)' => Pledged(u)
    BY <2>2 DEF Pledged, MaybeInLog, Unlocked
  <2>4. bgError' = bgError
    BY <1>3 DEF IdleStep, Call, Enqueue, CheckFront, Rewait, SpuriousWake,
         RoomError, RoomDelay, RoomAvailable, RoomWait, RoomNewLogFails,
         AwaitFlush, sharedVars, bgVars
  <2> QED  BY <1>0, <2>1, <2>3, <2>4, SoundFrame
<1>4. ASSUME NEW w \in Writers, RoomSwitch(w) PROVE SoundInv'
  BY <1>4, SoundSwitch
<1>5. ASSUME NEW w \in Writers, BuildGroup(w) PROVE SoundInv'
  <2>1. /\ UNCHANGED <<log, sound, synced, mem, committed, status, bgError>>
        /\ \A u \in Writers : u # w => pc'[u] = pc[u] /\ group'[u] = group[u]
        /\ pc'[w] \in {"log", "finish"}
    BY <1>0, <1>5 DEF BuildGroup, Goto, sharedVars, dataVars, bgVars
  <2>2. \A u \in Writers : Pledged(u)' =>
          Pledged(u) /\ group'[u].entries = group[u].entries
    BY <2>1 DEF Pledged, MaybeInLog
  <2> QED  BY <1>0, <2>1, <2>2, SoundFrame
<1>6. ASSUME NEW w \in Writers, AddRecord(w) PROVE SoundInv'
  BY <1>6, SoundAppend
<1>7. ASSUME NEW w \in Writers, SyncLog(w) PROVE SoundInv'
  <2>1. /\ pc[w] = "sync" /\ UNCHANGED <<log, sound, mem, committed, bgError>>
        /\ \A u \in Writers : u # w => pc'[u] = pc[u] /\ status'[u] = status[u]
        /\ \A u \in Writers : status'[u] => status[u]
    BY <1>0, <1>7 DEF SyncLog, Goto, bgVars
  <2>2. \A u \in Writers : group'[u].entries = group[u].entries
    <3>2. \/ group' = group
          \/ group' = [group EXCEPT ![w] = [group[w] EXCEPT !.syncError = TRUE]]
      BY <1>7 DEF SyncLog
    <3>3. [group[w] EXCEPT !.syncError = TRUE].entries = group[w].entries
      BY <1>0 DEF GroupType
    <3> QED  BY <1>0, <3>2, <3>3
  <2>3. \A n \in LogNumbers : n < mem => synced'[n] = synced[n]
    BY <1>0, <1>7 DEF SyncLog
  <2>4. \A u \in Writers : Pledged(u)' => Pledged(u)
    BY <2>1 DEF Pledged, MaybeInLog
  <2> QED  BY <1>0, <2>1, <2>2, <2>3, <2>4, SoundFrame
<1>8. ASSUME NEW w \in Writers, InsertInto(w) PROVE SoundInv'
  <2>1. /\ pc[w] = "insert"
        /\ UNCHANGED <<log, sound, synced, mem, committed, bgError, status, group>>
        /\ \A u \in Writers : u # w => pc'[u] = pc[u]
    BY <1>0, <1>8 DEF InsertInto, Goto, ownVars, bgVars
  <2>2. \A u \in Writers : Pledged(u)' => Pledged(u)
    BY <2>1 DEF Pledged, MaybeInLog
  <2> QED  BY <1>0, <2>1, <2>2, SoundFrame
<1>9. ASSUME NEW w \in Writers, Relock(w) PROVE SoundInv'
  <2>1. /\ pc[w] = "relock"
        /\ UNCHANGED <<group, log, sound, synced, mem, status>>
        /\ committed' = committed \cup (IF status[w] THEN group[w].entries ELSE {})
        /\ bgError => bgError'
    BY <1>9 DEF Relock, ownVars, RecordBackgroundError
  <2>2. \A u \in Writers : u # w => pc[u] \notin Unlocked
    BY <1>2, <2>1 DEF Leading
  <2>3. \A u \in Writers : pc'[u] \notin Unlocked
    <3> DEFINE q == [pc EXCEPT ![w] = "finish"]
    <3>1. q \in [Writers -> WriterPc] /\ \A u \in Writers : q[u] \notin Unlocked
      BY <1>0, <2>2 DEF WriterPc, Leading, Unlocked
    <3>2. pc' \in {q, WakeAll(q)}
      BY <1>9 DEF Relock, RecordBackgroundError, Goto
    <3> HIDE DEF q
    <3> QED  BY <3>1, <3>2, WakeAllLeading
  <2>4. \A u \in Writers : ~Pledged(u)'
    BY <2>3 DEF Pledged, MaybeInLog, Unlocked
  <2>5. ASSUME NEW n \in LogNumbers, Refused(n) PROVE Refused(n)'
    <3>1. status[w] => Pledged(w)
      BY <2>1 DEF Pledged, MaybeInLog
    <3>2. log[n][sound[n] + 1] \cap committed' = {}
      BY <2>1, <2>5, <3>1 DEF Refused
    <3> QED  BY <2>1, <2>4, <3>2 DEF Refused
  <2>6. ASSUME NEW n \in LogNumbers PROVE SoundLog(n)'
    BY <2>1, <2>5 DEF SoundInv, SoundLog
  <2> QED  BY <2>6 DEF SoundInv
<1>10. ASSUME NEW w \in Writers, Finish(w) PROVE SoundInv'
  <2>1. /\ pc[w] = "finish"
        /\ UNCHANGED <<group, log, sound, synced, mem, committed, bgError>>
        /\ \E S : pc' = SignalTo(S, [pc EXCEPT ![w] = AfterWrite(w, status[w])])
    BY <1>10 DEF Finish, sharedVars, dataVars, bgVars
  <2>2. \A u \in Writers : pc[u] \notin Unlocked
    BY <1>2, <2>1 DEF Unlocked, Leading
  <2>3. \A u \in Writers : pc'[u] \notin Unlocked
    BY <1>0, <2>1, <2>2 DEF SignalTo, AfterWrite, Unlocked
  <2>4. \A u \in Writers : ~Pledged(u)'
    BY <2>3 DEF Pledged, MaybeInLog, Unlocked
  <2> QED  BY <1>0, <2>1, <2>4, SoundFrame
<1>11. CASE BgStep
  <2>1. /\ UNCHANGED <<group, status, committed, mem>>
        /\ pc' \in {pc, WakeAll(pc)}
    BY <1>11, BgStepWriters DEF ownVars
  <2>2. \A u \in Writers : pc'[u] \in Unlocked => pc'[u] = pc[u]
    BY <1>0, <2>1, WakeAllLeading
  <2>3. UNCHANGED <<log, sound, synced>> /\ (bgError => bgError')
    <3>1. CASE FlushInstall \/ CompactionInstall
      BY <3>1 DEF FlushInstall, CompactionInstall, RecordBackgroundError
    <3>2. CASE FlushRelock \/ CompactionRelock
      BY <3>2 DEF FlushRelock, CompactionRelock, RecordBackgroundError, dataVars
    <3>3. CASE CompactionFlushed
      BY <3>3 DEF CompactionFlushed, dataVars, bgVars
    <3>5. CASE BackgroundReturn
      <4>1. UNCHANGED <<dataVars, bgError>>
        BY <3>5 DEF BackgroundReturn
      <4> QED  BY <4>1 DEF dataVars
    <3>4. CASE BackgroundCall \/ FlushBegin \/ BuildTable \/ FilesRemoved
                 \/ CompactionBegin \/ TrivialMove \/ CompactionFlush
      BY <3>4 DEF BackgroundCall, FlushBegin, BuildTable, FilesRemoved,
                  CompactionBegin, TrivialMove, CompactionFlush, allButBg, dataVars
    <3> QED  BY <1>11, <3>1, <3>2, <3>3, <3>4, <3>5 DEF BgStep
  <2>4. \A u \in Writers : Pledged(u)' => Pledged(u)
    BY <2>1, <2>2 DEF Pledged, MaybeInLog, Unlocked
  <2> QED  BY <1>0, <2>1, <2>3, <2>4, SoundFrame
<1>12. CASE (\E r \in Iters : ReaderStep(r)) \/ Destroy \/ Closed \/ UNCHANGED vars
  <2>1. /\ UNCHANGED <<pc, status, group, log, sound, synced, mem, committed>>
        /\ bgError' = bgError
    BY <1>12 DEF ReaderStep, TakeSnapshot, OpenIterator, CloseIterator, Destroy,
                 Closed, vars, writerVars, dataVars, bgVars
  <2>2. \A u \in Writers : Pledged(u)' => Pledged(u)
    BY <2>1 DEF Pledged, MaybeInLog
  <2> QED  BY <1>0, <2>1, <2>2, SoundFrame
<1> QED  BY <1>3, <1>4, <1>5, <1>6, <1>7, <1>8, <1>9, <1>10, <1>11, <1>12
         DEF Next, WriterStep, IdleStep

(* All invariants of the write path so far, in every state.                *)
LEMMA PathInvariance == Spec => [](TInv /\ EInv /\ SInv /\ LogInv)
<1>1. Init => TInv /\ EInv /\ SInv /\ LogInv
  BY TInvInit, EInvInit, SInvInit, LogInvInit
<1>2. TInv /\ EInv /\ SInv /\ LogInv /\ [Next]_vars
        => (TInv /\ EInv /\ SInv /\ LogInv)'
  BY TInvNext, EInvNext, SInvNext, LogInvNext
<1> QED  BY <1>1, <1>2, PTL DEF Spec

(* What recovery finds, in every state.                                    *)
LEMMA SoundInvariance == Spec => []SoundInv
<1>1. TInv /\ TInv' /\ EInv /\ SInv /\ LogInv /\ SoundInv /\ [Next]_vars => SoundInv'
  BY SoundInvNext
<1>2. Init => SoundInv
  BY SoundInvInit
<1> QED  BY <1>1, <1>2, PathInvariance, PTL DEF Spec

(* A crash at any moment finds every committed entry in a table or in a    *)
(* log that recovery will read, in a record that is found there unless an  *)
(* append before it failed or the log could not be closed; and the logs    *)
(* are replayed in the order of the sequence numbers.                      *)
THEOREM CommittedIsRecoverable == Spec => []Recoverable
<1>1. TInv /\ SInv /\ LogInv /\ SoundInv => Recoverable
  <2> SUFFICES ASSUME TInv, SInv, LogInv, SoundInv,
                      NEW e \in committed, e \notin version
               PROVE  \E n \in logNumber .. mem : \E i \in 1 .. Len(log[n]) :
                        /\ e \in log[n][i]
                        /\ i <= sound[n] \/ BehindFailure(n, i) \/ LostInClose(n, i)
    BY DEF Recoverable, LogInv
  <2>0. /\ mem \in LogNumbers /\ mem \in Nat /\ imm \in {0} \cup LogNumbers
        /\ imm \in Nat /\ logNumber \in Nat
        /\ \A n \in LogNumbers : Len(log[n]) \in Nat /\ sound[n] \in Nat
                                 /\ synced[n] \in Nat
    BY LogTypes DEF TInv, TypeOK, DataTypes
  <2>1. committed \subseteq Stored
    BY DEF SInv, StoreComplete, UpTo
  <2>2. mem \in logNumber .. mem /\ (imm # 0 => imm \in logNumber .. mem)
    BY <2>0 DEF LogInv, SInv, StoreInv
  <2>3. table[mem] \subseteq LogEntries(mem)
        /\ (imm # 0 => table[imm] \subseteq LogEntries(imm))
    BY <2>0 DEF LogInv
  <2>4. PICK n \in {mem, imm} : /\ n \in LogNumbers /\ n \in logNumber .. mem
                                /\ e \in LogEntries(n)
    BY <2>0, <2>1, <2>2, <2>3 DEF Stored, MemEntries
  <2>5. PICK i \in 1 .. Len(log[n]) : e \in log[n][i]
    BY <2>4 DEF LogEntries
  <2>6. i <= sound[n] \/ BehindFailure(n, i) \/ LostInClose(n, i)
    <3>1. SUFFICES ASSUME i > sound[n]
                   PROVE  BehindFailure(n, i) \/ LostInClose(n, i)
      BY <2>0, <2>4
    <3>2. Refused(n) \/ (bgError /\ n < mem /\ synced[n] <= sound[n])
      BY <2>0, <2>4, <3>1 DEF SoundInv, SoundLog
    <3>3. CASE Refused(n)
      <4>1. log[n][sound[n] + 1] \cap committed = {}
        BY <3>3 DEF Refused
      <4>2. i # sound[n] + 1
        BY <2>5, <4>1
      <4> QED  BY <2>0, <2>4, <3>1, <4>1, <4>2 DEF BehindFailure
    <3>4. CASE bgError /\ n < mem /\ synced[n] <= sound[n]
      BY <2>0, <2>4, <3>1, <3>4 DEF LostInClose
    <3> QED  BY <3>2, <3>3, <3>4
  <2> QED  BY <2>4, <2>5, <2>6
<1> QED  BY <1>1, PathInvariance, SoundInvariance, PTL

-----------------------------------------------------------------------------
(* The queue.                                                              *)

(* No step but Enqueue and Finish changes the queue or who is done.        *)
LEMMA QueueSame ==
  ASSUME [Next]_vars, ~(\E w \in Writers : Enqueue(w) \/ Finish(w))
  PROVE  UNCHANGED <<queue, done, req>>
<1>1. ASSUME NEW w \in Writers, WriterStep(w) \/ SpuriousWake(w)
      PROVE  UNCHANGED <<queue, done, req>>
  BY <1>1 DEF WriterStep, Call, CheckFront, Rewait, RoomError, RoomDelay,
       RoomAvailable, RoomWait, RoomNewLogFails, RoomSwitch, BuildGroup,
       AddRecord, SyncLog, InsertInto, Relock, AwaitFlush, SpuriousWake, ownVars
<1>2. CASE BgStep
  BY <1>2, BgStepWriters DEF ownVars
<1>3. CASE (\E r \in Iters : ReaderStep(r)) \/ Destroy \/ Closed \/ UNCHANGED vars
  BY <1>3, OtherStepWriters DEF ownVars
<1> QED  BY <1>1, <1>2, <1>3 DEF Next

(* Requests never change.                                                  *)
LEMMA ReqSame ==
  ASSUME [Next]_vars
  PROVE  req' = req
BY QueueSame DEF Enqueue, Finish

Queued == {"check", "cv", "woken"} \cup Leading
Flushing == {"cmlock", "cmwait", "cmwoken"}

(* How a step that leaves the queue alone may move a writer.               *)
MayMove(u) ==
  /\ pc[u] \in Queued => pc'[u] \in Queued \/ (pc[u] = "check" /\ done[u])
  /\ pc'[u] \in {"check", "cv", "woken"} => pc[u] \in {"check", "cv", "woken"}
  /\ pc'[u] \in {"start", "lock"} <=> pc[u] \in {"start", "lock"}
  /\ pc'[u] \in Flushing => pc[u] \in Flushing \/ IsNull(u)

(* Waking the writers that wait for the background thread moves them so.   *)
LEMMA WakeMoves ==
  ASSUME NEW u \in Writers, NEW p \in [Writers -> WriterPc]
  PROVE  /\ WakeAll(p)[u] \in Queued <=> p[u] \in Queued
         /\ WakeAll(p)[u] \in {"check", "cv", "woken"} <=> p[u] \in {"check", "cv", "woken"}
         /\ WakeAll(p)[u] \in {"start", "lock"} <=> p[u] \in {"start", "lock"}
         /\ WakeAll(p)[u] \in Flushing <=> p[u] \in Flushing
BY DEF WakeAll, Woken, WriterPc, Leading, Queued, Flushing

(* Every step but Enqueue and Finish moves writers so.                     *)
LEMMA StepMoves ==
  ASSUME TInv, [Next]_vars, ~(\E w \in Writers : Enqueue(w) \/ Finish(w)),
         NEW u \in Writers
  PROVE  MayMove(u)
<1>0. pc \in [Writers -> WriterPc]
  BY LogTypes
<1>1. ASSUME pc'[u] = pc[u] PROVE MayMove(u)
  BY <1>1 DEF MayMove
<1>2. ASSUME pc' = WakeAll(pc) PROVE MayMove(u)
  BY <1>0, <1>2, WakeMoves DEF MayMove
<1>3. ASSUME NEW w \in Writers,
             \/ Call(w) \/ CheckFront(w) \/ Rewait(w) \/ SpuriousWake(w)
             \/ AwaitFlush(w)
      PROVE  MayMove(u)
  <2>1. CASE Call(w)
    BY <1>0, <2>1 DEF Call, Goto, MayMove, Queued, Leading, Flushing
  <2>2. CASE CheckFront(w)
    BY <1>0, <2>2 DEF CheckFront, AfterWrite, Goto, MayMove, Queued, Leading, Flushing
  <2>3. CASE Rewait(w) \/ SpuriousWake(w)
    BY <1>0, <2>3 DEF Rewait, SpuriousWake, Goto, MayMove, Queued, Leading, Flushing
  <2>4. CASE AwaitFlush(w)
    BY <1>0, <2>4 DEF AwaitFlush, Goto, MayMove, Queued, Leading, Flushing
  <2> QED  BY <1>3, <2>1, <2>2, <2>3, <2>4
<1>4. ASSUME NEW w \in Writers,
             \/ RoomError(w) \/ RoomDelay(w) \/ RoomAvailable(w) \/ RoomWait(w)
             \/ RoomNewLogFails(w) \/ BuildGroup(w) \/ AddRecord(w)
             \/ SyncLog(w) \/ InsertInto(w)
      PROVE  MayMove(u)
  <2>1. pc[w] \in Leading
    BY <1>4 DEF RoomError, RoomDelay, RoomAvailable, RoomWait, RoomNewLogFails,
                CanSwitch, BuildGroup, AddRecord, SyncLog, InsertInto, Leading
  <2>2. PICK p \in Leading : pc' = [pc EXCEPT ![w] = p]
    BY <1>0, <1>4, <2>1
       DEF RoomError, RoomDelay, RoomAvailable, RoomWait, RoomNewLogFails,
           BuildGroup, AddRecord, SyncLog, InsertInto, Goto, Leading
  <2> QED  BY <1>0, <2>1, <2>2 DEF MayMove, Queued, Leading, Flushing
<1>5. ASSUME NEW w \in Writers, RoomSwitch(w) PROVE MayMove(u)
  BY <1>1, <1>2, <1>5 DEF RoomSwitch, RecordBackgroundError
<1>6. ASSUME NEW w \in Writers, Relock(w) PROVE MayMove(u)
  <2> DEFINE q == [pc EXCEPT ![w] = "finish"]
  <2>1. q \in [Writers -> WriterPc] /\ pc[w] = "relock"
    BY <1>0, <1>6 DEF WriterPc, Leading, Relock
  <2>2. pc' \in {q, WakeAll(q)}
    BY <1>6 DEF Relock, RecordBackgroundError, Goto
  <2>3. /\ q[u] \in Queued <=> pc[u] \in Queued
        /\ q[u] \in {"check", "cv", "woken"} <=> pc[u] \in {"check", "cv", "woken"}
        /\ q[u] \in {"start", "lock"} <=> pc[u] \in {"start", "lock"}
        /\ q[u] \in Flushing <=> pc[u] \in Flushing
    BY <1>0, <2>1 DEF Queued, Leading, Flushing
  <2> HIDE DEF q
  <2> QED  BY <2>1, <2>2, <2>3, WakeMoves DEF MayMove
<1>7. CASE BgStep
  BY <1>1, <1>2, <1>7, BgStepWriters
<1>8. CASE (\E r \in Iters : ReaderStep(r)) \/ Destroy \/ Closed \/ UNCHANGED vars
  BY <1>1, <1>8, OtherStepWriters
<1> QED  BY <1>3, <1>4, <1>5, <1>6, <1>7, <1>8 DEF Next, WriterStep

(* Who is finished changes only in Finish.                                 *)
LEMMA UnfinishedSame ==
  ASSUME TInv, QueueShape, [Next]_vars, ~(\E w \in Writers : Finish(w)),
         NEW u \in Writers
  PROVE  Unfinished(u)' <=> Unfinished(u)
<1>0. /\ pc \in [Writers -> WriterPc] /\ queue \in Seq(Writers)
      /\ Len(queue) \in Nat
  BY LogTypes DEF TInv, TypeOK, WriterTypes
<1>1. CASE ~(\E w \in Writers : Enqueue(w))
  <2>1. queue' = queue /\ MayMove(u)
    BY <1>1, QueueSame, StepMoves
  <2>2. InQueue(u)' <=> InQueue(u)
    BY <2>1 DEF InQueue
  <2> QED  BY <2>1, <2>2 DEF Unfinished, MayMove
<1>2. ASSUME NEW w \in Writers, Enqueue(w)
      PROVE  Unfinished(u)' <=> Unfinished(u)
  <2>1. queue' = Append(queue, w) /\ pc' = [pc EXCEPT ![w] = "check"]
        /\ pc[w] = "lock"
    BY <1>2 DEF Enqueue, Goto
  <2>2. /\ Len(queue') = Len(queue) + 1
        /\ \A j \in 1 .. Len(queue) : queue'[j] = queue[j]
        /\ queue'[Len(queue) + 1] = w
    BY <1>0, <2>1
  <2>3. InQueue(u)' <=> InQueue(u) \/ u = w
    BY <1>0, <2>2 DEF InQueue
  <2> QED  BY <1>0, <2>1, <2>3 DEF Unfinished
<1> QED  BY <1>1, <1>2

(* What Finish does: the first k writers leave the queue with the status   *)
(* of the leader, which is the front, and the others move up.              *)
Finished(w, k) ==
  /\ k \in 1 .. Len(queue) /\ pc[w] = "finish" /\ queue[1] = w
  /\ Len(queue') = Len(queue) - k
  /\ \A i \in 1 .. Len(queue') : queue'[i] = queue[k + i]
  /\ \A u \in Writers :
       InQueue(u)' <=> \E j \in k + 1 .. Len(queue) : queue[j] = u
  /\ \A u \in Writers :
       done'[u] <=> done[u] \/ \E j \in 2 .. k : queue[j] = u
  /\ \A u \in Writers :
       status'[u] = IF \E j \in 2 .. k : queue[j] = u
                    THEN status[w] ELSE status[u]
  /\ pc'[w] \in Flushing \cup {"return"}
  /\ pc'[w] \in Flushing => IsNull(w)
  /\ \A u \in Writers : u # w =>
       \/ pc'[u] = pc[u]
       \/ pc[u] = "cv" /\ pc'[u] = "woken"

(* The writers of the group that Finish ends, and the rest of the queue.   *)
LEMMA FinishQueue ==
  ASSUME TInv, EInv, QueueShape, GroupShape, NEW w \in Writers, Finish(w)
  PROVE  Finished(w, group[w].last)
<1>k. PICK k : k = group[w].last
  OBVIOUS
<1> DEFINE rest == SubSeq(queue, k + 1, Len(queue))
           ready == {queue[j] : j \in 2 .. k}
           q == [pc EXCEPT ![w] = AfterWrite(w, status[w])]
<1>0. /\ pc \in [Writers -> WriterPc] /\ queue \in Seq(Writers)
      /\ Len(queue) \in Nat /\ \A j \in 1 .. Len(queue) : queue[j] \in Writers
  BY LogTypes DEF TInv, TypeOK, WriterTypes
<1>1. /\ pc[w] = "finish" /\ queue' = rest
      /\ done' = [u \in Writers |-> done[u] \/ u \in ready]
      /\ status' = [u \in Writers |->
                      IF u \in ready THEN status[w] ELSE status[u]]
      /\ pc' = SignalTo(ready \cup NewFront(rest), q)
  BY <1>k DEF Finish
<1>2. k \in 1 .. Len(queue) /\ k \in Nat
  BY <1>0, <1>1, <1>k DEF GroupShape, GroupOK, Grouped
<1>3. queue[1] = w
  <2>1. Head(queue) = w
    BY <1>1 DEF EInv, ExclusiveLogger, Leading
  <2> QED  BY <1>0, <1>2, <2>1
<1>4. /\ Len(queue') = Len(queue) - k
      /\ \A i \in 1 .. Len(queue') : queue'[i] = queue[k + i]
  <2>1. k + 1 \in 1 .. Len(queue) + 1 /\ Len(queue) \in k .. Len(queue)
    BY <1>0, <1>2
  <2>2. /\ Len(rest) = Len(queue) - (k + 1) + 1
        /\ \A i \in 1 .. Len(queue) - (k + 1) + 1 : rest[i] = queue[k + 1 + i - 1]
    BY <1>0, <2>1, SubSeqProperties
  <2>3. Len(queue) - (k + 1) + 1 = Len(queue) - k
        /\ \A i \in 1 .. Len(queue) - k : k + 1 + i - 1 = k + i
    BY <1>0, <1>2
  <2> HIDE DEF rest
  <2> QED  BY <1>1, <2>2, <2>3
<1>5. ASSUME NEW u \in Writers
      PROVE  InQueue(u)' <=> \E j \in k + 1 .. Len(queue) : queue[j] = u
  <2>1. ASSUME NEW i \in 1 .. Len(queue'), queue'[i] = u
        PROVE  \E j \in k + 1 .. Len(queue) : queue[j] = u
    <3>1. k + i \in k + 1 .. Len(queue)
      BY <1>0, <1>2, <1>4
    <3> QED  BY <1>4, <2>1, <3>1
  <2>2. ASSUME NEW j \in k + 1 .. Len(queue), queue[j] = u
        PROVE  \E i \in 1 .. Len(queue') : queue'[i] = u
    <3>1. j - k \in 1 .. Len(queue') /\ k + (j - k) = j
      BY <1>0, <1>2, <1>4
    <3> QED  BY <1>4, <2>2, <3>1
  <2> QED  BY <2>1, <2>2 DEF InQueue
<1>6. \A u \in Writers : u \in ready <=> \E j \in 2 .. k : queue[j] = u
  OBVIOUS
<1>7. /\ q[w] \in Flushing \cup {"return"} /\ (q[w] \in Flushing => IsNull(w))
      /\ \A u \in Writers : u # w => q[u] = pc[u]
  BY <1>0 DEF AfterWrite, Flushing
<1>8. /\ pc'[w] = q[w]
      /\ \A u \in Writers : u # w =>
           pc'[u] = q[u] \/ (q[u] = "cv" /\ pc'[u] = "woken")
  BY <1>1, <1>7 DEF SignalTo, Flushing
<1>9. \A u \in Writers : done'[u] <=> done[u] \/ \E j \in 2 .. k : queue[j] = u
  BY <1>1, <1>6
<1>10. \A u \in Writers : status'[u] = IF \E j \in 2 .. k : queue[j] = u
                                        THEN status[w] ELSE status[u]
  BY <1>1, <1>6
<1> HIDE DEF q, ready, rest
<1>11. /\ pc'[w] \in Flushing \cup {"return"} /\ (pc'[w] \in Flushing => IsNull(w))
       /\ \A u \in Writers : u # w =>
            pc'[u] = pc[u] \/ (pc[u] = "cv" /\ pc'[u] = "woken")
  BY <1>7, <1>8
<1>12. pc[w] = "finish"
  BY <1>1
<1>13. Finished(w, k)
  BY <1>2, <1>3, <1>4, <1>5, <1>9, <1>10, <1>11, <1>12 DEF Finished
<1> QED  BY <1>k, <1>13

(* The queue keeps its shape.                                              *)
LEMMA QueueShapeNext ==
  ASSUME TInv, EInv, QueueShape, GroupShape, [Next]_vars
  PROVE  QueueShape'
<1>0. /\ pc \in [Writers -> WriterPc] /\ queue \in Seq(Writers)
      /\ Len(queue) \in Nat /\ \A j \in 1 .. Len(queue) : queue[j] \in Writers
      /\ done \in [Writers -> BOOLEAN]
  BY LogTypes DEF TInv, TypeOK, WriterTypes
<1>1. \A u : IsNull(u)' <=> IsNull(u)
  BY ReqSame DEF IsNull
<1>2. CASE ~(\E w \in Writers : Enqueue(w) \/ Finish(w))
  <2>1. queue' = queue /\ done' = done /\ \A u \in Writers : MayMove(u)
    BY <1>2, QueueSame, StepMoves
  <2>2. \A u : InQueue(u)' <=> InQueue(u)
    BY <2>1 DEF InQueue
  <2>3. \A j \in 1 .. Len(queue) : pc[queue[j]] \in Queued /\ ~done[queue[j]]
    BY DEF QueueShape, Queued
  <2>4. \A j \in 1 .. Len(queue) : pc'[queue[j]] \in Queued
    BY <1>0, <2>1, <2>3 DEF MayMove
  <2>5. \A u \in Writers : pc'[u] \in Flushing => IsNull(u)'
    BY <1>1, <2>1 DEF MayMove, QueueShape, Flushing
  <2>6. \A u \in Writers : pc'[u] \in {"check", "cv", "woken"} =>
           InQueue(u)' \/ done'[u]
    BY <2>1, <2>2 DEF MayMove, QueueShape
  <2>7. \A u \in Writers : pc'[u] \in {"start", "lock"} => ~done'[u]
    BY <2>1 DEF MayMove, QueueShape
  <2>8. \A i, j \in 1 .. Len(queue) : queue[i] = queue[j] => i = j
    BY DEF QueueShape
  <2> QED  BY <2>1, <2>3, <2>4, <2>5, <2>6, <2>7, <2>8
           DEF QueueShape, Flushing, Queued
<1>3. ASSUME NEW w \in Writers, Enqueue(w) PROVE QueueShape'
  <2>1. queue' = Append(queue, w) /\ pc' = [pc EXCEPT ![w] = "check"]
        /\ pc[w] = "lock" /\ done' = done
    BY <1>3 DEF Enqueue, Goto
  <2>2. /\ Len(queue') = Len(queue) + 1
        /\ \A j \in 1 .. Len(queue) : queue'[j] = queue[j]
        /\ queue'[Len(queue) + 1] = w
    BY <1>0, <2>1
  <2>3. \A j \in 1 .. Len(queue) : queue[j] # w
    BY <2>1 DEF QueueShape, Leading
  <2>4. ~done[w]
    BY <2>1 DEF QueueShape
  <2>5. \A j \in 1 .. Len(queue') :
          j \in 1 .. Len(queue) \/ (j = Len(queue) + 1 /\ queue'[j] = w)
    BY <1>0, <2>2
  <2>6. \A i, j \in 1 .. Len(queue') : queue'[i] = queue'[j] => i = j
    BY <2>2, <2>3, <2>5 DEF QueueShape
  <2>7. \A j \in 1 .. Len(queue') :
          /\ ~done'[queue'[j]]
          /\ pc'[queue'[j]] \in {"check", "cv", "woken"} \cup Leading
    BY <1>0, <2>1, <2>2, <2>3, <2>4, <2>5 DEF QueueShape
  <2>8. \A u \in Writers : InQueue(u)' <=> InQueue(u) \/ u = w
    BY <1>0, <2>2 DEF InQueue
  <2> QED  BY <1>0, <1>1, <2>1, <2>6, <2>7, <2>8 DEF QueueShape
<1>4. ASSUME NEW w \in Writers, Finish(w) PROVE QueueShape'
  <2>1. PICK k : Finished(w, k)
    BY <1>4, FinishQueue
  <2>2. /\ k \in 1 .. Len(queue) /\ pc[w] = "finish" /\ queue[1] = w
        /\ Len(queue') = Len(queue) - k
        /\ \A i \in 1 .. Len(queue') : queue'[i] = queue[k + i]
        /\ \A u \in Writers :
             InQueue(u)' <=> \E j \in k + 1 .. Len(queue) : queue[j] = u
        /\ \A u \in Writers :
             done'[u] <=> done[u] \/ \E j \in 2 .. k : queue[j] = u
        /\ pc'[w] \in Flushing \cup {"return"}
        /\ pc'[w] \in Flushing => IsNull(w)
        /\ \A u \in Writers : u # w =>
             \/ pc'[u] = pc[u]
             \/ pc[u] = "cv" /\ pc'[u] = "woken"
    BY <2>1 DEF Finished
  <2>3. \A i \in 1 .. Len(queue') : k + i \in 1 .. Len(queue) /\ k + i > k
    BY <1>0, <2>2
  <2>4. \A i, j \in 1 .. Len(queue') : queue'[i] = queue'[j] => i = j
    <3> SUFFICES ASSUME NEW i \in 1 .. Len(queue'), NEW j \in 1 .. Len(queue'),
                        queue'[i] = queue'[j]
                 PROVE  i = j
      OBVIOUS
    <3>1. k + i = k + j
      BY <2>2, <2>3 DEF QueueShape
    <3> QED  BY <1>0, <2>2, <3>1
  <2>5. ASSUME NEW j \in 1 .. Len(queue')
        PROVE  /\ ~done'[queue'[j]]
               /\ pc'[queue'[j]] \in {"check", "cv", "woken"} \cup Leading
    <3> DEFINE u == queue[k + j]
    <3>1. queue'[j] = u /\ u \in Writers /\ u # w /\ ~done[u]
          /\ pc[u] \in {"check", "cv", "woken"} \cup Leading
      BY <1>0, <2>2, <2>3 DEF QueueShape
    <3>2. \A i \in 2 .. k : queue[i] # u
      BY <1>0, <2>2, <2>3 DEF QueueShape
    <3>3. ~done'[u]
      BY <2>2, <3>1, <3>2
    <3>4. pc'[u] \in {"check", "cv", "woken"} \cup Leading
      BY <2>2, <3>1
    <3> QED  BY <3>1, <3>3, <3>4
  <2>6. ASSUME NEW u \in Writers, pc'[u] \in {"check", "cv", "woken"}, ~done'[u]
        PROVE  InQueue(u)'
    <3>1. u # w
      BY <2>2, <2>6 DEF Flushing
    <3>2. pc[u] \in {"check", "cv", "woken"}
      BY <2>2, <2>6, <3>1
    <3>3. ~done[u] /\ ~(\E j \in 2 .. k : queue[j] = u)
      BY <2>2, <2>6
    <3>4. PICK j \in 1 .. Len(queue) : queue[j] = u
      BY <3>2, <3>3 DEF QueueShape, InQueue
    <3>5. j # 1
      BY <2>2, <3>1, <3>4
    <3>6. j \in k + 1 .. Len(queue)
      BY <1>0, <2>2, <3>3, <3>4, <3>5
    <3> QED  BY <2>2, <3>4, <3>6
  <2>7. ASSUME NEW u \in Writers, pc'[u] \in {"start", "lock"}
        PROVE  ~done'[u]
    <3>1. u # w
      BY <2>2, <2>7 DEF Flushing
    <3>2. pc[u] \in {"start", "lock"}
      BY <2>2, <2>7, <3>1
    <3>3. \A j \in 2 .. k : j \in 1 .. Len(queue)
      BY <1>0, <2>2
    <3>4. \A j \in 2 .. k : queue[j] # u
      BY <3>2, <3>3 DEF QueueShape, Leading
    <3>5. ~done[u]
      BY <3>2 DEF QueueShape
    <3> QED  BY <2>2, <3>4, <3>5
  <2>8. \A u \in Writers : pc'[u] \in Flushing => IsNull(u)'
    <3> SUFFICES ASSUME NEW u \in Writers, pc'[u] \in Flushing PROVE IsNull(u)
      BY <1>1
    <3>1. CASE u = w
      BY <2>2, <3>1
    <3>2. CASE u # w
      <4>1. pc[u] \in Flushing
        BY <2>2, <3>2 DEF Flushing
      <4> QED  BY <4>1 DEF QueueShape, Flushing
    <3> QED  BY <3>1, <3>2
  <2> QED  BY <2>4, <2>5, <2>6, <2>7, <2>8 DEF QueueShape, Flushing
<1> QED  BY <1>2, <1>3, <1>4

-----------------------------------------------------------------------------
(* The group of a leader.                                                  *)

(* What BuildBatchGroup puts into the group of the first k writers.        *)
LEMMA GroupEntriesShape ==
  ASSUME TInv, QueueShape, NEW k \in 1 .. Len(queue)
  PROVE  /\ \A e \in GroupEntries(k) : \E j \in 1 .. k : queue[j] = e.w
         /\ InBatchOrder(GroupEntries(k))
         /\ \A j \in 1 .. k :
              Indexes(queue[j], GroupEntries(k)) = 1 .. Ops(queue[j])
<1>0. /\ Len(queue) \in Nat /\ \A j \in 1 .. Len(queue) : queue[j] \in Writers
      /\ TypeOK /\ lastSequence \in Nat
  BY LogTypes DEF TInv, TypeOK, WriterTypes
<1>1. \A j \in 1 .. k : j \in 1 .. Len(queue)
  BY <1>0
<1>2. \A e \in GroupEntries(k) : \E j \in 1 .. k : \E i \in 1 .. Ops(queue[j]) :
        e = [seq |-> lastSequence + SizeTo(j - 1) + i, w |-> queue[j], i |-> i]
  BY DEF GroupEntries, EntriesAt
<1>3. \A i, j \in 1 .. k : queue[i] = queue[j] => i = j
  BY <1>1 DEF QueueShape
<1>4. InBatchOrder(GroupEntries(k))
  <2> SUFFICES ASSUME NEW e \in GroupEntries(k), NEW f \in GroupEntries(k),
                      e.w = f.w, e.i < f.i
               PROVE  e.seq < f.seq
    BY DEF InBatchOrder
  <2>1. PICK j \in 1 .. k : \E i \in 1 .. Ops(queue[j]) :
          e = [seq |-> lastSequence + SizeTo(j - 1) + i, w |-> queue[j], i |-> i]
    BY <1>2
  <2>2. PICK n \in 1 .. k : \E m \in 1 .. Ops(queue[n]) :
          f = [seq |-> lastSequence + SizeTo(n - 1) + m, w |-> queue[n], i |-> m]
    BY <1>2
  <2>3. n = j
    BY <1>3, <2>1, <2>2
  <2>7. PICK i \in 1 .. Ops(queue[j]) :
          e = [seq |-> lastSequence + SizeTo(j - 1) + i, w |-> queue[j], i |-> i]
    BY <2>1
  <2>8. PICK m \in 1 .. Ops(queue[j]) :
          f = [seq |-> lastSequence + SizeTo(j - 1) + m, w |-> queue[j], i |-> m]
    BY <2>2, <2>3
  <2>4. SizeTo(j - 1) \in Nat
    BY <1>0, <1>1, SizeToStep
  <2>5. Ops(queue[j]) \in Nat /\ i < m
    BY <1>0, <1>1, <2>7, <2>8, OpsType
  <2>6. e.seq = lastSequence + SizeTo(j - 1) + i
        /\ f.seq = lastSequence + SizeTo(j - 1) + m
    BY <2>7, <2>8
  <2> QED  BY <1>0, <2>4, <2>5, <2>6
<1>5. ASSUME NEW j \in 1 .. k
      PROVE  Indexes(queue[j], GroupEntries(k)) = 1 .. Ops(queue[j])
  <2>1. ASSUME NEW x \in Indexes(queue[j], GroupEntries(k))
        PROVE  x \in 1 .. Ops(queue[j])
    <3>1. PICK e \in GroupEntries(k) : e.w = queue[j] /\ e.i = x
      BY <2>1 DEF Indexes, EntriesOf
    <3>2. PICK n \in 1 .. k : \E m \in 1 .. Ops(queue[n]) :
            e = [seq |-> lastSequence + SizeTo(n - 1) + m, w |-> queue[n], i |-> m]
      BY <1>2
    <3>3. n = j
      BY <1>3, <3>1, <3>2
    <3> QED  BY <3>1, <3>2, <3>3
  <2>2. ASSUME NEW x \in 1 .. Ops(queue[j])
        PROVE  x \in Indexes(queue[j], GroupEntries(k))
    <3> DEFINE e == [seq |-> lastSequence + SizeTo(j - 1) + x, w |-> queue[j], i |-> x]
    <3>1. e \in GroupEntries(k)
      BY DEF GroupEntries, EntriesAt
    <3>2. e.w = queue[j] /\ e.i = x
      OBVIOUS
    <3> HIDE DEF e
    <3> QED  BY <3>1, <3>2 DEF Indexes, EntriesOf
  <2> QED  BY <2>1, <2>2
<1>6. \A e \in GroupEntries(k) : \E j \in 1 .. k : queue[j] = e.w
  BY <1>2
<1> QED  BY <1>4, <1>5, <1>6

(* The steps of a leader that change its group or what becomes of it.      *)
GroupStep(u) ==
  BuildGroup(u) \/ AddRecord(u) \/ SyncLog(u) \/ InsertInto(u) \/ Relock(u)

(* Any other step, apart from Finish, leaves the group of u alone.         *)
GroupKept(u) ==
  /\ pc[u] \in Grouped <=> pc'[u] \in Grouped
  /\ pc[u] \in Grouped =>
       pc'[u] = pc[u] /\ group'[u] = group[u] /\ status'[u] = status[u]

(* Waking the waiters moves no leader that has a group.                    *)
LEMMA WakeGrouped ==
  ASSUME NEW u \in Writers, NEW p \in [Writers -> WriterPc]
  PROVE  /\ p[u] \in Grouped <=> WakeAll(p)[u] \in Grouped
         /\ p[u] \in Grouped => WakeAll(p)[u] = p[u]
BY DEF WakeAll, Woken, Grouped, Unlocked

(* GroupKept holds of every step that is not one of the group's own.       *)
LEMMA GroupFrame ==
  ASSUME TInv, [Next]_vars, NEW u \in Writers,
         ~(\E w \in Writers : Finish(w)), ~GroupStep(u)
  PROVE  GroupKept(u)
<1>0. /\ pc \in [Writers -> WriterPc] /\ group \in [Writers -> GroupType]
      /\ status \in [Writers -> BOOLEAN]
  BY LogTypes
<1>1. ASSUME pc'[u] = pc[u], group'[u] = group[u], status'[u] = status[u]
      PROVE  GroupKept(u)
  BY <1>1 DEF GroupKept
<1>2. ASSUME pc' = WakeAll(pc), group'[u] = group[u], status'[u] = status[u]
      PROVE  GroupKept(u)
  BY <1>0, <1>2, WakeGrouped DEF GroupKept
<1>3. ASSUME NEW w \in Writers, IdleStep(w) PROVE GroupKept(u)
  <2>1. CASE u = w
    BY <1>3, <2>1, IdleStepFrame DEF GroupKept, Grouped
  <2>2. CASE u # w
    BY <1>1, <1>3, <2>2, IdleStepFrame
  <2> QED  BY <2>1, <2>2
<1>4. ASSUME NEW w \in Writers, RoomSwitch(w) PROVE GroupKept(u)
  BY <1>1, <1>2, <1>4 DEF RoomSwitch, RecordBackgroundError
<1>5. ASSUME NEW w \in Writers, w # u,
             BuildGroup(w) \/ AddRecord(w) \/ SyncLog(w) \/ InsertInto(w)
      PROVE  GroupKept(u)
  <2>1. group'[u] = group[u] /\ status'[u] = status[u] /\ pc'[u] = pc[u]
    BY <1>0, <1>5 DEF BuildGroup, AddRecord, SyncLog, InsertInto, Goto, ownVars
  <2> QED  BY <1>1, <2>1
<1>6. ASSUME NEW w \in Writers, w # u, Relock(w) PROVE GroupKept(u)
  <2> DEFINE q == [pc EXCEPT ![w] = "finish"]
  <2>1. q \in [Writers -> WriterPc] /\ q[u] = pc[u]
    BY <1>0, <1>6 DEF WriterPc, Leading
  <2>2. pc' \in {q, WakeAll(q)} /\ group' = group /\ status' = status
    BY <1>6 DEF Relock, RecordBackgroundError, Goto, ownVars
  <2> HIDE DEF q
  <2> QED  BY <2>1, <2>2, WakeGrouped DEF GroupKept
<1>7. CASE BgStep
  BY <1>1, <1>2, <1>7, BgStepWriters DEF ownVars
<1>8. CASE (\E r \in Iters : ReaderStep(r)) \/ Destroy \/ Closed \/ UNCHANGED vars
  BY <1>1, <1>8, OtherStepWriters DEF ownVars
<1>9. ASSUME NEW w \in Writers, WriterStep(w) \/ SpuriousWake(w)
      PROVE  GroupKept(u)
  <2>1. \/ IdleStep(w) \/ RoomSwitch(w)
        \/ (w # u /\ (BuildGroup(w) \/ AddRecord(w) \/ SyncLog(w) \/ InsertInto(w)))
        \/ (w # u /\ Relock(w))
    BY <1>9 DEF WriterStep, IdleStep, GroupStep
  <2> QED  BY <1>3, <1>4, <1>5, <1>6, <2>1
<1> QED  BY <1>7, <1>8, <1>9 DEF Next

(* The front of the queue stays as it is until Finish.                     *)
LEMMA QueueGrows ==
  ASSUME TInv, [Next]_vars, ~(\E w \in Writers : Finish(w))
  PROVE  /\ Len(queue) \in Nat /\ Len(queue') \in Nat
         /\ Len(queue) <= Len(queue')
         /\ \A j \in 1 .. Len(queue) : queue'[j] = queue[j] /\ queue[j] \in Writers
<1>0. /\ queue \in Seq(Writers) /\ Len(queue) \in Nat
      /\ \A j \in 1 .. Len(queue) : queue[j] \in Writers
  BY DEF TInv, TypeOK, WriterTypes
<1>1. CASE ~(\E w \in Writers : Enqueue(w))
  BY <1>0, <1>1, QueueSame
<1>2. ASSUME NEW w \in Writers, Enqueue(w)
      PROVE  /\ Len(queue') = Len(queue) + 1
             /\ \A j \in 1 .. Len(queue) : queue'[j] = queue[j]
  BY <1>0, <1>2 DEF Enqueue
<1> QED  BY <1>0, <1>1, <1>2

(* A group is as its leader made it while its writers are in the queue.    *)
LEMMA GroupTransfer ==
  ASSUME TInv, [Next]_vars, ~(\E w \in Writers : Finish(w)),
         NEW u \in Writers, GroupOK(u), group'[u].last = group[u].last,
         group'[u].entries = group[u].entries, status'[u] => status[u]
  PROVE  GroupOK(u)'
<1>1. /\ Len(queue) \in Nat /\ Len(queue') \in Nat /\ Len(queue) <= Len(queue')
      /\ \A j \in 1 .. Len(queue) : queue'[j] = queue[j]
  BY QueueGrows
<1>2. \A j : queue'[j] = queue[j] => Ops(queue[j])' = Ops(queue[j])
  BY ReqSame DEF Ops, IsNull
<1>3. PICK k : k = group[u].last
  OBVIOUS
<1>4. PICK E : E = group[u].entries
  OBVIOUS
<1>5. k \in 1 .. Len(queue)
  BY <1>3 DEF GroupOK
<1>6. \A j \in 1 .. k : j \in 1 .. Len(queue)
  BY <1>1, <1>5
<1>7. \A j \in 1 .. k : queue'[j] = queue[j]
  BY <1>1, <1>6
<1>8. /\ \A e \in E : \E j \in 1 .. k : queue[j] = e.w
      /\ InBatchOrder(E)
      /\ \A j \in 1 .. k :
           /\ status[u] => Indexes(queue[j], E) = 1 .. Ops(queue[j])
           /\ req[queue[j]].sync => req[u].sync
  BY <1>3, <1>4 DEF GroupOK
<1>9. req' = req
  BY ReqSame
<1>10. k \in 1 .. Len(queue')
  BY <1>1, <1>5
<1>11. \A e \in E : \E j \in 1 .. k : queue'[j] = e.w
  BY <1>7, <1>8
<1>12. \A j \in 1 .. k :
         /\ status'[u] => Indexes(queue'[j], E) = 1 .. Ops(queue[j])'
         /\ req'[queue'[j]].sync => req'[u].sync
  BY <1>2, <1>7, <1>8, <1>9
<1>13. group'[u].last = k /\ group'[u].entries = E
  BY <1>3, <1>4
<1> QED  BY <1>8, <1>10, <1>11, <1>12, <1>13
         DEF GroupOK, InBatchOrder, Indexes, EntriesOf

(* A leader that makes its group makes it right.                           *)
LEMMA BuildGroupOK ==
  ASSUME TInv, EInv, QueueShape, NEW w \in Writers, BuildGroup(w)
  PROVE  GroupOK(w)'
<1>0. /\ Len(queue) \in Nat /\ queue \in Seq(Writers)
      /\ group \in [Writers -> GroupType] /\ status \in [Writers -> BOOLEAN]
  BY LogTypes DEF TInv, TypeOK, WriterTypes
<1>1. queue' = queue /\ req' = req /\ status' = status /\ pc[w] = "group"
  BY DEF BuildGroup
<1>2. queue # <<>> /\ Head(queue) = w
  BY <1>1 DEF EInv, ExclusiveLogger, Leading
<1>3. 1 \in 1 .. Len(queue) /\ queue[1] = w
  BY <1>0, <1>2
<1>4. ASSUME NEW k \in 1 .. Len(queue), IsGroupEnd(k),
             group' = [group EXCEPT ![w] =
                  [last |-> k, count |-> SizeTo(k),
                   entries |-> GroupEntries(k), syncError |-> FALSE]]
      PROVE  GroupOK(w)'
  <2>1. group'[w].last = k /\ group'[w].entries = GroupEntries(k)
    BY <1>0, <1>4
  <2>2. /\ \A e \in GroupEntries(k) : \E j \in 1 .. k : queue[j] = e.w
        /\ InBatchOrder(GroupEntries(k))
        /\ \A j \in 1 .. k :
             Indexes(queue[j], GroupEntries(k)) = 1 .. Ops(queue[j])
    BY GroupEntriesShape
  <2>3. \A j \in 1 .. k : req[queue[j]].sync => req[w].sync
    <3> SUFFICES ASSUME NEW j \in 1 .. k, j # 1, req[queue[j]].sync
                 PROVE  req[w].sync
      BY <1>3
    <3>1. j \in 2 .. k
      BY <1>0
    <3>2. Joins(j)
      BY <1>4, <3>1 DEF IsGroupEnd
    <3> QED  BY <1>3, <3>2 DEF Joins
  <2>4. PICK E : E = GroupEntries(k)
    OBVIOUS
  <2>5. /\ k \in 1 .. Len(queue')
        /\ \A e \in E : \E j \in 1 .. k : queue'[j] = e.w
        /\ InBatchOrder(E)
        /\ \A j \in 1 .. k :
             Indexes(queue'[j], E) = 1 .. Ops(queue[j])'
    BY <1>1, <2>2, <2>4 DEF Ops, IsNull
  <2>6. group'[w].last = k /\ group'[w].entries = E
    BY <2>1, <2>4
  <2>7. \A j \in 1 .. k : req'[queue'[j]].sync => req'[w].sync
    BY <1>1, <2>3
  <2> QED  BY <2>5, <2>6, <2>7 DEF GroupOK, InBatchOrder, Indexes, EntriesOf
<1>5. ASSUME ~status[w] \/ IsNull(w),
             group' = [group EXCEPT ![w] = [NoGroup EXCEPT !.last = 1]]
      PROVE  GroupOK(w)'
  <2>1. group'[w].last = 1 /\ group'[w].entries = {}
    BY <1>0, <1>5 DEF NoGroup
  <2>2. \A j \in 1 .. 1 : queue'[j] = w /\ j = 1
    BY <1>1, <1>3
  <2>3. Indexes(w, {}) = {}
    BY DEF Indexes, EntriesOf
  <2>4. status'[w] => 1 .. Ops(w)' = {}
    BY <1>1, <1>5 DEF Ops, IsNull
  <2>5. 1 \in 1 .. Len(queue')
    BY <1>1, <1>3
  <2> QED  BY <2>1, <2>2, <2>3, <2>4, <2>5
           DEF GroupOK, InBatchOrder, Indexes, EntriesOf
<1> QED  BY <1>4, <1>5 DEF BuildGroup

(* What the steps of a leader do to its group.                             *)
LEMMA GroupStepKeeps ==
  ASSUME TInv, NEW w \in Writers,
         AddRecord(w) \/ SyncLog(w) \/ InsertInto(w) \/ Relock(w)
  PROVE  /\ pc[w] \in Unlocked
         /\ group'[w].last = group[w].last /\ group'[w].entries = group[w].entries
         /\ status'[w] => status[w]
<1>0. /\ pc \in [Writers -> WriterPc] /\ group \in [Writers -> GroupType]
      /\ status \in [Writers -> BOOLEAN]
  BY LogTypes
<1>1. pc[w] \in Unlocked
  BY DEF AddRecord, SyncLog, InsertInto, Relock, Unlocked
<1>2. status'[w] => status[w]
  BY <1>0 DEF AddRecord, SyncLog, InsertInto, Relock, ownVars
<1>3. group'[w].last = group[w].last /\ group'[w].entries = group[w].entries
  <2>1. CASE group' = group
    BY <2>1
  <2>2. CASE group' = [group EXCEPT ![w].syncError = TRUE]
    BY <1>0, <2>2 DEF GroupType
  <2> QED  BY <2>1, <2>2 DEF AddRecord, SyncLog, InsertInto, Relock, ownVars
<1> QED  BY <1>1, <1>2, <1>3

(* Groups keep their shape.                                                *)
LEMMA GroupShapeNext ==
  ASSUME TInv, EInv, QueueShape, GroupShape, [Next]_vars
  PROVE  GroupShape'
<1> SUFFICES ASSUME NEW u \in Writers, pc'[u] \in Grouped PROVE GroupOK(u)'
  BY DEF GroupShape, Grouped, Unlocked
<1>1. ASSUME NEW w \in Writers, Finish(w) PROVE FALSE
  <2>1. PICK k : Finished(w, k)
    BY <1>1, FinishQueue
  <2>2. u # w
    BY <2>1 DEF Finished, Flushing, Grouped, Unlocked
  <2>3. pc[u] \in Grouped
    BY <2>1, <2>2 DEF Finished, Grouped, Unlocked
  <2>4. pc[u] \in Leading /\ pc[w] \in Leading
    BY <2>1, <2>3 DEF Finished, Grouped, Unlocked, Leading
  <2> QED  BY <2>2, <2>4, OneLeader
<1>2. CASE BuildGroup(u)
  BY <1>2, BuildGroupOK
<1>3. CASE AddRecord(u) \/ SyncLog(u) \/ InsertInto(u) \/ Relock(u)
  <2>1. /\ pc[u] \in Unlocked
        /\ group'[u].last = group[u].last /\ group'[u].entries = group[u].entries
        /\ status'[u] => status[u]
    BY <1>3, GroupStepKeeps
  <2>2. GroupOK(u)
    BY <2>1 DEF GroupShape, Grouped
  <2> QED  BY <1>1, <2>1, <2>2, GroupTransfer
<1>4. CASE ~GroupStep(u)
  <2>1. GroupKept(u)
    BY <1>1, <1>4, GroupFrame
  <2>2. /\ pc[u] \in Grouped /\ group'[u] = group[u] /\ status'[u] = status[u]
    BY <2>1 DEF GroupKept
  <2>3. GroupOK(u)
    BY <2>2 DEF GroupShape
  <2> QED  BY <1>1, <2>2, <2>3, GroupTransfer
<1> QED  BY <1>2, <1>3, <1>4 DEF GroupStep

-----------------------------------------------------------------------------
(* What the store and the synced parts of the logs hold.                   *)

(* Of all the steps only InsertInto changes what the store holds: a switch *)
(* of the memtable and the installation of a flush move entries about.     *)
LEMMA StoredSteps ==
  ASSUME TInv, SInv, [Next]_vars
  PROVE  \/ Stored' = Stored
         \/ \E w \in Writers : \E e \in group[w].entries :
              InsertInto(w) /\ Stored' = Stored \cup {e}
<1>0. /\ mem \in LogNumbers /\ mem \in Nat /\ imm \in {0} \cup LogNumbers
      /\ table \in [LogNumbers -> SUBSET Entry] /\ imm < mem
  BY LogTypes DEF SInv, StoreInv
<1>1. ASSUME UNCHANGED <<table, mem, imm, version>> PROVE Stored' = Stored
  BY <1>1 DEF Stored, MemEntries
<1>2. ASSUME NEW w \in Writers, IdleStep(w) PROVE Stored' = Stored
  BY <1>1, <1>2, IdleStepFrame DEF dataVars
<1>3. ASSUME NEW w \in Writers,
             BuildGroup(w) \/ AddRecord(w) \/ SyncLog(w) \/ Relock(w) \/ Finish(w)
      PROVE  Stored' = Stored
  BY <1>1, <1>3 DEF BuildGroup, AddRecord, SyncLog, Relock, Finish, sharedVars,
                    dataVars
<1>4. ASSUME NEW w \in Writers, RoomSwitch(w) PROVE Stored' = Stored
  <2>1. /\ imm = 0 /\ imm' = mem /\ mem' = mem + 1 /\ mem < MaxLogs
        /\ UNCHANGED <<table, version>>
    BY <1>4 DEF RoomSwitch, CanSwitch
  <2>2. mem + 1 \in LogNumbers /\ mem # 0
    BY <1>0, <2>1, WQAssumption DEF LogNumbers
  <2>3. table[mem + 1] = {}
    BY <1>0, <2>2 DEF SInv, StoreInv
  <2> QED  BY <2>1, <2>2, <2>3 DEF Stored, MemEntries
<1>5. ASSUME NEW w \in Writers, InsertInto(w)
      PROVE  \/ Stored' = Stored
             \/ \E e \in group[w].entries : Stored' = Stored \cup {e}
  <2>1. UNCHANGED <<mem, imm, version>>
    BY <1>5 DEF InsertInto
  <2>2. CASE table' = table
    BY <1>1, <2>1, <2>2
  <2>3. ASSUME NEW e \in group[w].entries,
               table' = [table EXCEPT ![mem] = @ \cup {e}]
        PROVE  Stored' = Stored \cup {e}
    <3>1. table'[mem] = table[mem] \cup {e} /\ (imm # 0 => table'[imm] = table[imm])
      BY <1>0, <2>3
    <3> QED  BY <2>1, <3>1 DEF Stored, MemEntries
  <2> QED  BY <1>5, <2>2, <2>3 DEF InsertInto
<1>6. CASE BgStep
  <2>1. CASE FlushInstall
    <3>1. CASE version' = version \cup table[imm] /\ imm' = 0 /\ UNCHANGED <<table, mem>>
      <4>1. imm # 0
        BY <2>1 DEF FlushInstall, TInv, BgInv, FlushPc
      <4> QED  BY <3>1, <4>1 DEF Stored, MemEntries
    <3>2. CASE UNCHANGED <<table, mem, imm, version>>
      BY <1>1, <3>2
    <3> QED  BY <2>1, <3>1, <3>2 DEF FlushInstall
  <2>2. CASE ~FlushInstall
    <3>1. UNCHANGED <<table, mem, imm, version>>
      BY <1>6, <2>2 DEF BgStep, BackgroundCall, FlushBegin, BuildTable,
         FlushRelock, FilesRemoved, CompactionBegin, TrivialMove, CompactionFlush,
         CompactionFlushed, CompactionRelock, CompactionInstall,
         BackgroundReturn, allButBg, dataVars
    <3> QED  BY <1>1, <3>1
  <2> QED  BY <2>1, <2>2
<1>7. CASE (\E r \in Iters : ReaderStep(r)) \/ Destroy \/ Closed \/ UNCHANGED vars
  BY <1>1, <1>7, OtherStepWriters DEF dataVars
<1> QED  BY <1>2, <1>3, <1>4, <1>5, <1>6, <1>7 DEF Next, WriterStep, IdleStep

(* What is synced stays synced, and no more is synced than was written.    *)
LEMMA SyncedGrows ==
  ASSUME TInv, SyncedBound, [Next]_vars
  PROVE  /\ SyncedBound' /\ mem \in Nat /\ mem' \in Nat /\ mem <= mem'
         /\ \A n \in LogNumbers :
              /\ synced[n] \in Nat /\ synced'[n] \in Nat /\ synced[n] <= synced'[n]
              /\ \A j \in 1 .. synced[n] : log'[n][j] = log[n][j]
<1>0. /\ mem \in LogNumbers /\ mem \in Nat
      /\ log \in [LogNumbers -> Seq(SUBSET Entry)]
      /\ synced \in [LogNumbers -> Nat]
      /\ \A n \in LogNumbers : n \in Nat /\ Len(log[n]) \in Nat
  BY LogTypes DEF TInv, TypeOK, DataTypes
<1>1. ASSUME UNCHANGED <<log, synced>>, mem' \in {mem, mem + 1}
      PROVE  /\ SyncedBound' /\ mem' \in Nat /\ mem <= mem'
             /\ \A n \in LogNumbers :
                  /\ synced'[n] \in Nat /\ synced[n] <= synced'[n]
                  /\ \A j \in 1 .. synced[n] : log'[n][j] = log[n][j]
  <2>1. mem' \in Nat /\ mem <= mem'
    BY <1>0, <1>1
  <2>2. \A n \in LogNumbers : synced[n] \in Nat /\ synced[n] <= synced[n]
    BY <1>0
  <2> QED  BY <1>1, <2>1, <2>2 DEF SyncedBound
<1>2. ASSUME NEW w \in Writers, AddRecord(w), log' # log
      PROVE  /\ SyncedBound' /\ mem' = mem
             /\ \A n \in LogNumbers :
                  /\ synced'[n] = synced[n]
                  /\ \A j \in 1 .. synced[n] : log'[n][j] = log[n][j]
  <2>1. /\ log' = [log EXCEPT ![mem] = Append(@, group[w].entries)]
        /\ mem' = mem /\ synced' = synced
    BY <1>2 DEF AddRecord
  <2>2. /\ Len(log'[mem]) = Len(log[mem]) + 1
        /\ \A i \in 1 .. Len(log[mem]) : log'[mem][i] = log[mem][i]
        /\ \A n \in LogNumbers : n # mem => log'[n] = log[n]
    BY <2>1, AppendedLog
  <2>3. \A n \in LogNumbers : \A j \in 1 .. synced[n] : j \in 1 .. Len(log[n])
    BY <1>0 DEF SyncedBound
  <2>4. \A n \in LogNumbers : \A j \in 1 .. synced[n] : log'[n][j] = log[n][j]
    BY <2>2, <2>3
  <2>5. \A n \in LogNumbers : synced[n] <= Len(log'[n])
    <3> SUFFICES ASSUME NEW n \in LogNumbers PROVE synced[n] <= Len(log'[n])
      OBVIOUS
    <3>1. synced[n] \in Nat /\ Len(log[n]) \in Nat /\ synced[n] <= Len(log[n])
      BY <1>0 DEF SyncedBound
    <3>2. Len(log'[n]) \in {Len(log[n]), Len(log[n]) + 1}
      BY <2>2
    <3> QED  BY <3>1, <3>2
  <2> QED  BY <2>1, <2>4, <2>5 DEF SyncedBound
<1>3. ASSUME NEW w \in Writers, SyncLog(w), synced' # synced
      PROVE  /\ SyncedBound' /\ mem' = mem /\ log' = log
             /\ \A n \in LogNumbers : synced'[n] \in Nat /\ synced[n] <= synced'[n]
  <2>1. /\ synced' = [synced EXCEPT ![mem] = Len(log[mem])]
        /\ mem' = mem /\ log' = log
    BY <1>3 DEF SyncLog
  <2>2. \A n \in LogNumbers :
          synced'[n] = IF n = mem THEN Len(log[n]) ELSE synced[n]
    BY <1>0, <2>1
  <2>3. \A n \in LogNumbers : /\ synced[n] \in Nat /\ Len(log[n]) \in Nat
                              /\ synced[n] <= Len(log[n])
    BY <1>0 DEF SyncedBound
  <2>4. \A n \in LogNumbers : /\ synced'[n] \in Nat /\ synced[n] <= synced'[n]
                              /\ synced'[n] <= Len(log[n])
    BY <2>2, <2>3
  <2> QED  BY <2>1, <2>4 DEF SyncedBound
<1>4. ASSUME NEW w \in Writers, WriterStep(w) \/ SpuriousWake(w),
             ~(AddRecord(w) /\ log' # log), ~(SyncLog(w) /\ synced' # synced)
      PROVE  UNCHANGED <<log, synced>> /\ mem' \in {mem, mem + 1}
  <2>1. CASE IdleStep(w)
    BY <2>1, IdleStepFrame DEF dataVars
  <2>2. CASE ~IdleStep(w)
    BY <1>4, <2>2 DEF WriterStep, IdleStep, RoomSwitch, BuildGroup, AddRecord,
       SyncLog, InsertInto, Relock, Finish, sharedVars, dataVars
  <2> QED  BY <2>1, <2>2
<1>5. CASE BgStep
  <2>1. UNCHANGED <<log, synced, mem>>
    BY <1>5 DEF BgStep, BackgroundCall, FlushBegin, BuildTable, FlushInstall,
         FlushRelock, FilesRemoved, CompactionBegin, TrivialMove, CompactionFlush,
         CompactionFlushed, CompactionRelock, CompactionInstall,
         BackgroundReturn, allButBg, dataVars
  <2> QED  BY <1>0, <1>1, <2>1
<1>6. CASE (\E r \in Iters : ReaderStep(r)) \/ Destroy \/ Closed \/ UNCHANGED vars
  BY <1>0, <1>1, <1>6, OtherStepWriters DEF dataVars
<1>7. ASSUME NEW w \in Writers, WriterStep(w) \/ SpuriousWake(w)
      PROVE  /\ SyncedBound' /\ mem' \in Nat /\ mem <= mem'
             /\ \A n \in LogNumbers :
                  /\ synced'[n] \in Nat /\ synced[n] <= synced'[n]
                  /\ \A j \in 1 .. synced[n] : log'[n][j] = log[n][j]
  <2>1. mem <= mem /\ \A n \in LogNumbers : synced[n] \in Nat /\ synced[n] <= synced[n]
    BY <1>0
  <2>2. CASE AddRecord(w) /\ log' # log
    BY <1>0, <1>2, <2>1, <2>2
  <2>3. CASE SyncLog(w) /\ synced' # synced
    BY <1>0, <1>3, <2>1, <2>3
  <2> QED  BY <1>1, <1>4, <1>7, <2>2, <2>3
<1> QED  BY <1>0, <1>5, <1>6, <1>7 DEF Next

(* So an entry in the synced part of a log stays there.                    *)
LEMMA InSyncedPartStays ==
  ASSUME TInv, SyncedBound, [Next]_vars
  PROVE  /\ \A e : (\E n \in 1 .. mem : \E j \in 1 .. synced[n] : e \in log[n][j])
               => \E n \in 1 .. mem' : \E j \in 1 .. synced'[n] : e \in log'[n][j]
         /\ \A u \in Writers : SyncedIn(u) => SyncedIn(u)'
<1>1. /\ mem \in Nat /\ mem' \in Nat /\ mem <= mem'
      /\ \A n \in LogNumbers :
           /\ synced[n] \in Nat /\ synced'[n] \in Nat /\ synced[n] <= synced'[n]
           /\ \A j \in 1 .. synced[n] : log'[n][j] = log[n][j]
  BY SyncedGrows
<1>2. \A n \in 1 .. mem : n \in 1 .. mem' /\ n \in LogNumbers
  BY <1>1, LogTypes, WQAssumption DEF LogNumbers
<1>3. \A n \in 1 .. mem : \A j \in 1 .. synced[n] :
        j \in 1 .. synced'[n] /\ log'[n][j] = log[n][j]
  BY <1>1, <1>2
<1>4. ASSUME NEW e, \E n \in 1 .. mem : \E j \in 1 .. synced[n] : e \in log[n][j]
      PROVE  \E n \in 1 .. mem' : \E j \in 1 .. synced'[n] : e \in log'[n][j]
  BY <1>2, <1>3, <1>4
<1>5. ASSUME NEW u \in Writers, SyncedIn(u) PROVE SyncedIn(u)'
  <2>1. Ops(u)' = Ops(u)
    BY ReqSame DEF Ops, IsNull
  <2>2. SUFFICES ASSUME NEW i \in 1 .. Ops(u)
                 PROVE  \E n \in 1 .. mem' : \E j \in 1 .. synced'[n] :
                          \E e \in log'[n][j] : e.w = u /\ e.i = i
    BY <2>1 DEF SyncedIn
  <2>3. PICK n \in 1 .. mem : \E j \in 1 .. synced[n] :
          \E e \in log[n][j] : e.w = u /\ e.i = i
    BY <1>5 DEF SyncedIn
  <2>4. PICK j \in 1 .. synced[n] : \E e \in log[n][j] : e.w = u /\ e.i = i
    BY <2>3
  <2> QED  BY <1>2, <1>3, <2>4
<1> QED  BY <1>4, <1>5

(* Finish finishes the writers of the group and no others.                 *)
LEMMA FinishedWriters ==
  ASSUME TInv, EInv, QueueShape, GroupShape, NEW w \in Writers, Finish(w),
         NEW u \in Writers
  PROVE  Unfinished(u)' <=>
           /\ Unfinished(u)
           /\ ~(\E j \in 1 .. group[w].last : queue[j] = u)
<1>0. Len(queue) \in Nat
  BY DEF TInv, TypeOK, WriterTypes
<1>1. PICK k : k = group[w].last /\ Finished(w, k)
  BY FinishQueue
<1>2. /\ k \in 1 .. Len(queue) /\ pc[w] = "finish" /\ queue[1] = w
      /\ InQueue(u)' <=> \E j \in k + 1 .. Len(queue) : queue[j] = u
      /\ pc'[w] \in Flushing \cup {"return"}
      /\ u # w => pc'[u] = pc[u] \/ (pc[u] = "cv" /\ pc'[u] = "woken")
  BY <1>1 DEF Finished
<1>3. /\ \A j \in 1 .. k : j \in 1 .. Len(queue) /\ j \notin k + 1 .. Len(queue)
      /\ \A j \in k + 1 .. Len(queue) : j \in 1 .. Len(queue) /\ j \notin 1 .. k
      /\ \A j \in 1 .. Len(queue) : j \in 1 .. k \/ j \in k + 1 .. Len(queue)
      /\ 1 \in 1 .. k
  BY <1>0, <1>2
<1>4. pc'[u] \in {"start", "lock"} <=> pc[u] \in {"start", "lock"}
  BY <1>2 DEF Flushing
<1>5. \A j \in 1 .. Len(queue) : queue[j] = u => pc[u] \notin {"start", "lock"}
  BY DEF QueueShape, Leading
<1>6. InQueue(u)' <=> InQueue(u) /\ ~(\E j \in 1 .. k : queue[j] = u)
  <2>1. ASSUME NEW i \in k + 1 .. Len(queue), queue[i] = u,
               NEW j \in 1 .. k, queue[j] = u
        PROVE  FALSE
    BY <1>3, <2>1 DEF QueueShape
  <2>2. (\E j \in k + 1 .. Len(queue) : queue[j] = u) =>
          InQueue(u) /\ ~(\E j \in 1 .. k : queue[j] = u)
    BY <1>3, <2>1 DEF InQueue
  <2>3. InQueue(u) /\ ~(\E j \in 1 .. k : queue[j] = u) =>
          \E j \in k + 1 .. Len(queue) : queue[j] = u
    BY <1>3 DEF InQueue
  <2> QED  BY <1>2, <2>2, <2>3
<1>7. (\E j \in 1 .. k : queue[j] = u) => pc[u] \notin {"start", "lock"}
  BY <1>3, <1>5
<1> QED  BY <1>1, <1>4, <1>6, <1>7 DEF Unfinished

(* The writers of a group are in the queue and so not finished.            *)
LEMMA GroupUnfinished ==
  ASSUME TInv, QueueShape, GroupShape, NEW w \in Writers, pc[w] \in Grouped,
         NEW e \in group[w].entries
  PROVE  /\ Unfinished(e.w) /\ pc[e.w] \notin {"start", "lock"}
         /\ \E j \in 1 .. group[w].last : queue[j] = e.w
<1>1. /\ group[w].last \in 1 .. Len(queue) /\ Len(queue) \in Nat
      /\ \E j \in 1 .. group[w].last : queue[j] = e.w
  BY DEF GroupShape, GroupOK, TInv, TypeOK, WriterTypes
<1>2. \A j \in 1 .. group[w].last : j \in 1 .. Len(queue)
  BY <1>1
<1>3. PICK j \in 1 .. Len(queue) : queue[j] = e.w
  BY <1>1, <1>2
<1> QED  BY <1>1, <1>3 DEF Unfinished, InQueue, QueueShape, Leading

(* How a leader that is writing its group goes on.                         *)
LEMMA LeaderMoves ==
  ASSUME TInv, NEW w \in Writers, GroupStep(w)
  PROVE  /\ BuildGroup(w) => /\ pc[w] = "group"
                             /\ pc'[w] = "log" \/ (pc'[w] = "finish" /\ group'[w].entries = {})
         /\ AddRecord(w) => /\ pc[w] = "log"
                            /\ \/ pc'[w] = "sync"
                               \/ pc'[w] = "insert" /\ ~req[w].sync
                               \/ pc'[w] = "relock" /\ ~status'[w]
         /\ SyncLog(w) => /\ pc[w] = "sync"
                          /\ \/ /\ pc'[w] = "insert" /\ log' = log /\ mem' = mem
                                /\ synced'[mem] = Len(log[mem])
                             \/ pc'[w] = "relock" /\ ~status'[w]
         /\ InsertInto(w) => /\ pc[w] = "insert" /\ status' = status
                             /\ group' = group
                             /\ \/ pc'[w] = "insert"
                                \/ /\ pc'[w] = "relock"
                                   /\ group[w].entries \subseteq table[mem]
         /\ Relock(w) => /\ pc[w] = "relock" /\ pc'[w] = "finish"
                         /\ status' = status /\ group' = group
<1>0. /\ pc \in [Writers -> WriterPc] /\ group \in [Writers -> GroupType]
      /\ status \in [Writers -> BOOLEAN] /\ mem \in LogNumbers
      /\ synced \in [LogNumbers -> Nat]
  BY LogTypes DEF TInv, TypeOK, DataTypes
<1>1. BuildGroup(w) => /\ pc[w] = "group"
                       /\ pc'[w] = "log" \/ (pc'[w] = "finish" /\ group'[w].entries = {})
  BY <1>0 DEF BuildGroup, Goto, NoGroup
<1>2. AddRecord(w) => /\ pc[w] = "log"
                      /\ \/ pc'[w] = "sync"
                         \/ pc'[w] = "insert" /\ ~req[w].sync
                         \/ pc'[w] = "relock" /\ ~status'[w]
  BY <1>0 DEF AddRecord, Goto
<1>3. SyncLog(w) => /\ pc[w] = "sync"
                    /\ \/ /\ pc'[w] = "insert" /\ log' = log /\ mem' = mem
                          /\ synced'[mem] = Len(log[mem])
                       \/ pc'[w] = "relock" /\ ~status'[w]
  BY <1>0 DEF SyncLog, Goto
<1>4. InsertInto(w) => /\ pc[w] = "insert" /\ status' = status
                       /\ group' = group
                       /\ \/ pc'[w] = "insert"
                          \/ /\ pc'[w] = "relock"
                             /\ group[w].entries \subseteq table[mem]
  BY <1>0 DEF InsertInto, Goto, ownVars
<1>5. Relock(w) => /\ pc[w] = "relock" /\ pc'[w] = "finish"
                   /\ status' = status /\ group' = group
  <2> SUFFICES ASSUME Relock(w)
               PROVE  /\ pc[w] = "relock" /\ pc'[w] = "finish"
                      /\ status' = status /\ group' = group
    OBVIOUS
  <2> DEFINE q == [pc EXCEPT ![w] = "finish"]
  <2>1. q \in [Writers -> WriterPc] /\ q[w] = "finish"
    BY <1>0 DEF WriterPc, Leading
  <2>2. pc' \in {q, WakeAll(q)} /\ group' = group /\ status' = status
        /\ pc[w] = "relock"
    BY DEF Relock, RecordBackgroundError, Goto, ownVars
  <2> HIDE DEF q
  <2>3. WakeAll(q)[w] = "finish"
    BY <2>1, WakeGrouped DEF Grouped
  <2> QED  BY <2>1, <2>2, <2>3
<1> QED  BY <1>1, <1>2, <1>3, <1>4, <1>5

(* An entry that is inserted is of the group being inserted, and so is the *)
(* entry of any writer that is not finished.                               *)
StoredByGroup(e) == \E w \in Writers : /\ pc[w] \in Inserting /\ status[w]
                                       /\ e \in group[w].entries

(* A group that is being inserted goes on being inserted until Finish.     *)
LEMMA InsertingStays ==
  ASSUME TInv, [Next]_vars, ~(\E w \in Writers : Finish(w)),
         NEW w \in Writers, pc[w] \in Inserting
  PROVE  /\ pc'[w] \in Inserting /\ status'[w] = status[w]
         /\ group'[w].entries = group[w].entries
<1>1. CASE GroupStep(w)
  <2>1. InsertInto(w) \/ Relock(w)
    BY <1>1, LeaderMoves DEF GroupStep, Inserting
  <2> QED  BY <1>1, <2>1, LeaderMoves DEF Inserting
<1>2. CASE ~GroupStep(w)
  <2>1. GroupKept(w)
    BY <1>2, GroupFrame
  <2> QED  BY <2>1 DEF GroupKept, Inserting, Grouped, Unlocked
<1> QED  BY <1>1, <1>2

(* What the store holds of unfinished writers, and what a group that was   *)
(* inserted or synced has, every step keeps.                               *)
LEMMA StoreOutcomeNext ==
  ASSUME TInv, EInv, SInv, LogInv, QueueShape, GroupShape, StoreOutcome,
         [Next]_vars
  PROVE  StoreOutcome'
<1>0. /\ mem \in LogNumbers /\ \A u \in Writers : group[u].entries \subseteq Entry
      /\ Stored \subseteq Entry /\ \A e \in Entry : e.w \in Writers
      /\ \A n \in LogNumbers : Len(log[n]) \in Nat
  BY LogTypes, StoreTypes DEF Entry
<1>1. SyncedBound'
  BY SyncedGrows DEF StoreOutcome
<1>2. Stored \subseteq Stored'
  BY StoredSteps
<1>3. \A e : InSyncedPart(e) => InSyncedPart(e)'
  BY InSyncedPartStays DEF StoreOutcome, InSyncedPart
<1>4. CASE \E w \in Writers : Finish(w)
  <2>1. PICK w \in Writers : Finish(w)
    BY <1>4
  <2>2. PICK k : k = group[w].last /\ Finished(w, k)
    BY <2>1, FinishQueue
  <2>3. /\ pc[w] = "finish" /\ pc'[w] \in Flushing \cup {"return"}
        /\ \A u \in Writers : u # w =>
             pc'[u] = pc[u] \/ (pc[u] = "cv" /\ pc'[u] = "woken")
    BY <2>2 DEF Finished
  <2>4. \A u \in Writers : pc[u] \in Grouped => u = w
    BY <2>3, OneLeader DEF Grouped, Unlocked, Leading
  <2>5. \A u \in Writers : pc'[u] \notin Grouped
    BY <2>3, <2>4 DEF Grouped, Unlocked, Flushing
  <2>6. Stored' = Stored
    BY <2>1, <2>3, <2>4, StoredSteps DEF InsertInto, Grouped, Unlocked
  <2>7. ASSUME NEW e \in Stored', Unfinished(e.w)' PROVE FALSE
    <3>1. e.w \in Writers
      BY <1>0, <2>6
    <3>2. Unfinished(e.w) /\ ~(\E j \in 1 .. group[w].last : queue[j] = e.w)
      BY <2>1, <2>7, <3>1, FinishedWriters
    <3>3. PICK v \in Writers : pc[v] \in Inserting /\ e \in group[v].entries
      BY <2>6, <3>2 DEF StoreOutcome
    <3>4. v = w
      BY <2>4, <3>3 DEF Inserting, Grouped, Unlocked
    <3>5. pc[w] \in Grouped
      BY <2>3 DEF Grouped
    <3> QED  BY <3>2, <3>3, <3>4, <3>5, GroupUnfinished
  <2> QED  BY <1>1, <2>5, <2>7 DEF StoreOutcome, Grouped, Unlocked, Inserting
<1>5. CASE ~(\E w \in Writers : Finish(w))
  <2>1. \A u \in Writers : Unfinished(u)' <=> Unfinished(u)
    BY <1>5, UnfinishedSame
  <2>2. ASSUME NEW e, StoredByGroup(e) PROVE StoredByGroup(e)'
    BY <1>5, <2>2, InsertingStays DEF StoredByGroup
  <2>3. ASSUME NEW e \in Stored', Unfinished(e.w)' PROVE StoredByGroup(e)'
    <3>1. CASE e \in Stored
      <4>1. Unfinished(e.w)
        BY <1>0, <2>1, <2>3, <3>1
      <4>2. StoredByGroup(e)
        BY <3>1, <4>1 DEF StoreOutcome, StoredByGroup
      <4> QED  BY <2>2, <4>2
    <3>2. CASE e \notin Stored
      <4>1. PICK w \in Writers : e \in group[w].entries /\ InsertInto(w)
        BY <3>2, StoredSteps
      <4>2. pc[w] = "insert"
        BY <4>1 DEF InsertInto
      <4>3. status[w]
        BY <4>2 DEF SInv, StoreInv
      <4>4. StoredByGroup(e)
        BY <4>1, <4>2, <4>3 DEF StoredByGroup, Inserting
      <4> QED  BY <2>2, <4>4
    <3> QED  BY <3>1, <3>2
  <2>4. ASSUME NEW w \in Writers, pc'[w] \in {"relock", "finish"}, status'[w]
        PROVE  group'[w].entries \subseteq Stored'
    <3>1. CASE BuildGroup(w)
      BY <2>4, <3>1, LeaderMoves DEF GroupStep
    <3>2. CASE AddRecord(w) \/ SyncLog(w)
      BY <2>4, <3>2, LeaderMoves DEF GroupStep
    <3>3. CASE InsertInto(w)
      <4>1. group[w].entries \subseteq table[mem] /\ group' = group
        BY <2>4, <3>3, LeaderMoves DEF GroupStep
      <4>2. table[mem] \subseteq Stored
        BY DEF Stored, MemEntries
      <4> QED  BY <1>2, <4>1, <4>2
    <3>4. CASE Relock(w) \/ ~GroupStep(w)
      <4>1. pc[w] \in {"relock", "finish"}
        <5>1. CASE Relock(w)
          BY <5>1, LeaderMoves DEF GroupStep
        <5>2. CASE ~GroupStep(w)
          BY <1>5, <2>4, <5>2, GroupFrame DEF GroupKept, Grouped, Unlocked
        <5> QED  BY <3>4, <5>1, <5>2
      <4>2. status'[w] = status[w] /\ group'[w].entries = group[w].entries
        BY <1>5, <4>1, InsertingStays DEF Inserting
      <4>3. group[w].entries \subseteq Stored
        BY <2>4, <4>1, <4>2 DEF StoreOutcome
      <4> QED  BY <1>2, <4>2, <4>3
    <3> QED  BY <3>1, <3>2, <3>3, <3>4 DEF GroupStep
  <2>5. ASSUME NEW w \in Writers, pc'[w] \in Inserting, status'[w], req'[w].sync,
               NEW e \in group'[w].entries
        PROVE  InSyncedPart(e)'
    <3>0. req[w].sync
      BY <2>5, ReqSame
    <3>1. CASE BuildGroup(w)
      BY <2>5, <3>1, LeaderMoves DEF GroupStep, Inserting
    <3>2. CASE AddRecord(w)
      BY <2>5, <3>0, <3>2, LeaderMoves DEF GroupStep, Inserting
    <3>3. CASE SyncLog(w)
      <4>1. /\ pc[w] = "sync" /\ log' = log /\ mem' = mem
            /\ synced'[mem] = Len(log[mem])
        BY <2>5, <3>3, LeaderMoves DEF GroupStep, Inserting
      <4>2. group'[w].entries = group[w].entries
        BY <3>3, GroupStepKeeps
      <4>3. e \in LogEntries(mem)
        BY <2>5, <4>1, <4>2 DEF LogInv, InLog
      <4>4. PICK j \in 1 .. Len(log[mem]) : e \in log[mem][j]
        BY <4>3 DEF LogEntries
      <4>5. mem \in 1 .. mem
        BY <1>0, WQAssumption DEF LogNumbers
      <4> QED  BY <4>1, <4>4, <4>5 DEF InSyncedPart
    <3>4. CASE InsertInto(w) \/ Relock(w) \/ ~GroupStep(w)
      <4>1. pc[w] \in Inserting
        <5>1. CASE InsertInto(w) \/ Relock(w)
          BY <5>1, LeaderMoves DEF GroupStep, Inserting
        <5>2. CASE ~GroupStep(w)
          BY <1>5, <2>5, <5>2, GroupFrame DEF GroupKept, Grouped, Unlocked, Inserting
        <5> QED  BY <3>4, <5>1, <5>2
      <4>2. status'[w] = status[w] /\ group'[w].entries = group[w].entries
        BY <1>5, <4>1, InsertingStays
      <4>3. InSyncedPart(e)
        BY <2>5, <3>0, <4>1, <4>2 DEF StoreOutcome
      <4> QED  BY <1>3, <4>3
    <3> QED  BY <3>1, <3>2, <3>3, <3>4 DEF GroupStep
  <2>6. \A e \in Stored' : Unfinished(e.w)' => StoredByGroup(e)'
    BY <2>3
  <2> QED  BY <1>1, <2>4, <2>5, <2>6 DEF StoreOutcome, StoredByGroup
<1> QED  BY <1>4, <1>5

-----------------------------------------------------------------------------
(* What the writers are told.                                              *)

(* A finished writer with a batch of its own keeps its status, and may     *)
(* only be about to return.                                                *)
LEMMA FinishedStatus ==
  ASSUME TInv, EInv, QueueShape, [Next]_vars, ~(\E w \in Writers : Finish(w)),
         NEW u \in Writers, ~Unfinished(u), ~IsNull(u)
  PROVE  status'[u] = status[u]
<1>0. status \in [Writers -> BOOLEAN] /\ queue \in Seq(Writers) /\ Len(queue) \in Nat
  BY DEF TInv, TypeOK, WriterTypes
<1>1. pc[u] \notin Leading
  <2> SUFFICES ASSUME pc[u] \in Leading PROVE FALSE
    OBVIOUS
  <2>1. queue # <<>> /\ Head(queue) = u
    BY DEF EInv, ExclusiveLogger
  <2>2. 1 \in 1 .. Len(queue) /\ queue[1] = u
    BY <1>0, <2>1
  <2> QED  BY <2>2 DEF Unfinished, InQueue
<1>2. pc[u] \notin Flushing
  BY DEF QueueShape, Flushing
<1>3. ASSUME NEW w \in Writers, WriterStep(w) \/ SpuriousWake(w)
      PROVE  status'[u] = status[u]
  <2>1. CASE RoomError(w) \/ RoomNewLogFails(w) \/ AddRecord(w) \/ SyncLog(w)
    <3>1. pc[w] \in Leading
      BY <2>1 DEF RoomError, RoomNewLogFails, CanSwitch, AddRecord, SyncLog, Leading
    <3>2. w # u
      BY <1>1, <3>1
    <3> QED  BY <1>0, <2>1, <3>2 DEF RoomError, RoomNewLogFails, AddRecord, SyncLog
  <2>2. CASE AwaitFlush(w)
    <3>1. w # u
      BY <1>2, <2>2 DEF AwaitFlush, Flushing
    <3> QED  BY <1>0, <2>2, <3>1 DEF AwaitFlush
  <2>3. CASE status' = status
    BY <2>3
  <2> QED  BY <1>3, <2>1, <2>2, <2>3 DEF WriterStep, SpuriousWake, Call, Enqueue,
       CheckFront, Rewait, RoomDelay, RoomAvailable, RoomWait, RoomSwitch,
       BuildGroup, InsertInto, Relock, ownVars
<1>4. CASE BgStep
  BY <1>4, BgStepWriters DEF ownVars
<1>5. CASE (\E r \in Iters : ReaderStep(r)) \/ Destroy \/ Closed \/ UNCHANGED vars
  BY <1>5, OtherStepWriters DEF ownVars
<1> QED  BY <1>3, <1>4, <1>5 DEF Next

(* What a writer was told stays true while no entry of its batch is added. *)
LEMMA ToldStays ==
  ASSUME TInv, SyncedBound, [Next]_vars, NEW u \in Writers, Told(u),
         EntriesOf(u, Stored') = EntriesOf(u, Stored), status'[u] = status[u]
  PROVE  Told(u)'
<1>1. Ops(u)' = Ops(u) /\ req' = req
  BY ReqSame DEF Ops, IsNull
<1>2. SyncedIn(u) => SyncedIn(u)'
  BY InSyncedPartStays
<1>3. Indexes(u, Stored)' = Indexes(u, Stored)
  BY DEF Indexes, EntriesOf
<1> QED  BY <1>1, <1>2, <1>3 DEF Told

(* The outcome of a writer of the group that Finish ends.                  *)
LEMMA GroupOutcome ==
  ASSUME TInv, EInv, QueueShape, GroupShape, StoreOutcome,
         NEW w \in Writers, pc[w] = "finish", NEW j \in 1 .. group[w].last,
         NEW u \in Writers, queue[j] = u
  PROVE  /\ Indexes(u, Stored) = IF status[w] THEN 1 .. Ops(u) ELSE {}
         /\ req[u].sync /\ status[w] => SyncedIn(u)
<1>0. Stored \subseteq Entry /\ status \in [Writers -> BOOLEAN]
  BY StoreTypes
<1>1. GroupOK(w)
  BY DEF GroupShape, Grouped
<1>2. Unfinished(u)
  <2>1. j \in 1 .. Len(queue)
    BY <1>1 DEF GroupOK, TInv, TypeOK, WriterTypes
  <2> QED  BY <2>1 DEF Unfinished, InQueue
<1>3. ASSUME NEW e \in Stored, e.w = u
      PROVE  status[w] /\ e \in group[w].entries
  <2>1. PICK v \in Writers : pc[v] \in Inserting /\ status[v] /\ e \in group[v].entries
    BY <1>2, <1>3 DEF StoreOutcome
  <2>2. v = w
    BY <2>1, OneLeader DEF Inserting, Leading
  <2> QED  BY <2>1, <2>2
<1>4. CASE status[w]
  <2>1. Indexes(u, group[w].entries) = 1 .. Ops(u)
        /\ (req[u].sync => req[w].sync)
    BY <1>1, <1>4 DEF GroupOK
  <2>2. group[w].entries \subseteq Stored
    BY <1>4 DEF StoreOutcome
  <2>3. EntriesOf(u, Stored) = EntriesOf(u, group[w].entries)
    BY <1>3, <2>2 DEF EntriesOf
  <2>4. ASSUME req[u].sync PROVE SyncedIn(u)
    <3> SUFFICES ASSUME NEW i \in 1 .. Ops(u)
                 PROVE  \E n \in 1 .. mem : \E m \in 1 .. synced[n] :
                          \E e \in log[n][m] : e.w = u /\ e.i = i
      BY DEF SyncedIn
    <3>1. i \in Indexes(u, group[w].entries)
      BY <2>1
    <3>2. PICK e \in group[w].entries : e.w = u /\ e.i = i
      BY <3>1 DEF Indexes, EntriesOf
    <3>3. InSyncedPart(e)
      BY <1>4, <2>1, <2>4, <3>2 DEF StoreOutcome, Inserting
    <3> QED  BY <3>2, <3>3 DEF InSyncedPart
  <2> QED  BY <1>4, <2>1, <2>3, <2>4 DEF Indexes
<1>5. CASE ~status[w]
  <2>1. EntriesOf(u, Stored) = {}
    BY <1>3, <1>5 DEF EntriesOf
  <2> QED  BY <1>5, <2>1 DEF Indexes
<1> QED  BY <1>4, <1>5

(* Finished writers go on having been told the truth.                      *)
LEMMA OutcomesNext ==
  ASSUME TInv, EInv, SInv, QueueShape, GroupShape, StoreOutcome, Outcomes,
         [Next]_vars
  PROVE  Outcomes'
<1> SUFFICES ASSUME NEW u \in Writers, ~Unfinished(u)', ~IsNull(u)'
             PROVE  Told(u)'
  BY DEF Outcomes
<1>0. SyncedBound /\ ~IsNull(u)
  BY ReqSame DEF StoreOutcome, IsNull
<1>1. ASSUME ~(\E w \in Writers : Finish(w)) PROVE Told(u)'
  <2>1. ~Unfinished(u)
    BY <1>1, UnfinishedSame
  <2>2. status'[u] = status[u]
    BY <1>0, <1>1, <2>1, FinishedStatus
  <2>3. ASSUME NEW e \in Stored', e \notin Stored PROVE e.w # u
    <3>1. PICK w \in Writers : e \in group[w].entries /\ InsertInto(w)
      BY <2>3, StoredSteps
    <3>2. pc[w] \in Grouped
      BY <3>1 DEF InsertInto, Grouped, Unlocked
    <3> QED  BY <2>1, <3>1, <3>2, GroupUnfinished
  <2>4. Stored \subseteq Stored'
    BY StoredSteps
  <2>5. EntriesOf(u, Stored') = EntriesOf(u, Stored)
    BY <2>3, <2>4 DEF EntriesOf
  <2>6. Told(u)
    BY <1>0, <2>1 DEF Outcomes
  <2> QED  BY <1>0, <2>2, <2>5, <2>6, ToldStays
<1>2. ASSUME NEW w \in Writers, Finish(w) PROVE Told(u)'
  <2>1. PICK k : k = group[w].last /\ Finished(w, k)
    BY <1>2, FinishQueue
  <2>2. /\ k \in 1 .. Len(queue) /\ pc[w] = "finish" /\ queue[1] = w
        /\ status'[u] = IF \E j \in 2 .. k : queue[j] = u
                        THEN status[w] ELSE status[u]
    BY <2>1 DEF Finished
  <2>3. Stored' = Stored
    <3>1. \A v \in Writers : ~InsertInto(v)
      BY <2>2, OneLeader DEF InsertInto, Leading
    <3> QED  BY <3>1, StoredSteps
  <2>4. Len(queue) \in Nat /\ k \in Nat
    BY <2>2 DEF TInv, TypeOK, WriterTypes
  <2>5. CASE \E j \in 1 .. k : queue[j] = u
    <3>1. PICK j \in 1 .. k : queue[j] = u
      BY <2>5
    <3>2. status'[u] = status[w]
      <4>1. j \in 2 .. k \/ j = 1
        BY <2>4
      <4> QED  BY <2>2, <3>1, <4>1
    <3>3. /\ Indexes(u, Stored) = IF status[w] THEN 1 .. Ops(u) ELSE {}
          /\ req[u].sync /\ status[w] => SyncedIn(u)
      BY <2>1, <2>2, <3>1, GroupOutcome
    <3>4. Ops(u)' = Ops(u) /\ req' = req /\ (SyncedIn(u) => SyncedIn(u)')
      BY <1>0, ReqSame, InSyncedPartStays DEF Ops, IsNull
    <3>5. Indexes(u, Stored)' = Indexes(u, Stored)
      BY <2>3 DEF Indexes, EntriesOf
    <3> QED  BY <3>2, <3>3, <3>4, <3>5 DEF Told
  <2>6. CASE ~(\E j \in 1 .. k : queue[j] = u)
    <3>1. ~Unfinished(u)
      BY <1>2, <2>1, <2>6, FinishedWriters
    <3>2. \A j \in 2 .. k : j \in 1 .. k
      BY <2>4
    <3>3. status'[u] = status[u]
      BY <2>2, <2>6, <3>2
    <3>4. Told(u)
      BY <1>0, <3>1 DEF Outcomes
    <3> QED  BY <1>0, <2>3, <3>3, <3>4, ToldStays
  <2> QED  BY <2>5, <2>6
<1> QED  BY <1>1, <1>2

-----------------------------------------------------------------------------
(* The order of the sequence numbers.                                      *)

(* Only a call changes before, and only Relock commits.                    *)
LEMMA HistorySteps ==
  ASSUME [Next]_vars
  PROVE  /\ before' = before \/ \E w \in Writers : Call(w)
         /\ committed' = committed \/ \E w \in Writers : Relock(w)
<1>1. ASSUME NEW w \in Writers, WriterStep(w) \/ SpuriousWake(w)
      PROVE  /\ before' = before \/ Call(w)
             /\ committed' = committed \/ Relock(w)
  BY <1>1 DEF WriterStep, SpuriousWake, Call, Enqueue, CheckFront, Rewait,
       RoomError, RoomDelay, RoomAvailable, RoomWait, RoomNewLogFails,
       RoomSwitch, BuildGroup, AddRecord, SyncLog, InsertInto, Relock, Finish,
       AwaitFlush, sharedVars
<1>2. CASE BgStep
  BY <1>2 DEF BgStep, BackgroundCall, FlushBegin, BuildTable, FlushInstall,
       FlushRelock, FilesRemoved, CompactionBegin, TrivialMove, CompactionFlush,
       CompactionFlushed, CompactionRelock, CompactionInstall,
       BackgroundReturn, allButBg
<1>3. CASE (\E r \in Iters : ReaderStep(r)) \/ Destroy \/ Closed \/ UNCHANGED vars
  BY <1>3 DEF ReaderStep, TakeSnapshot, OpenIterator, CloseIterator, Destroy,
              Closed, vars
<1> QED  BY <1>1, <1>2, <1>3 DEF Next

(* Every step keeps the order of the sequence numbers.                     *)
LEMMA BeforeNext ==
  ASSUME TInv, EInv, SInv, QueueShape, GroupShape, StoreOutcome, BeforeInv,
         [Next]_vars
  PROVE  BeforeInv'
<1>0. /\ pc \in [Writers -> WriterPc] /\ lastSequence \in Nat
      /\ committed \subseteq Entry /\ before \in [Writers -> SUBSET Entry]
      /\ \A u \in Writers : group[u].entries \subseteq Entry
      /\ \A e \in Entry : e.seq \in Nat /\ e.w \in Writers
  BY LogTypes, StoreTypes DEF TInv, TypeOK, DataTypes, Entry
<1>1. /\ committed \subseteq Stored
      /\ \A e \in committed : e.seq <= lastSequence
  BY DEF SInv, StoreComplete, UpTo
<1>2. \A w \in Writers : pc[w] \in Unlocked => \A e \in group[w].entries :
        lastSequence < e.seq
  BY DEF SInv, StoreInv
(* A committed entry of an unfinished writer would be of the current group *)
(* and have a number that is not used yet.                                 *)
<1>3. ASSUME NEW f \in committed, NEW w \in Writers, pc[w] \in Unlocked
      PROVE  ~Unfinished(f.w)
  <2> SUFFICES ASSUME Unfinished(f.w) PROVE FALSE
    OBVIOUS
  <2>1. PICK v \in Writers : pc[v] \in Inserting /\ f \in group[v].entries
    BY <1>1 DEF StoreOutcome
  <2>2. v = w
    BY <1>3, <2>1, OneLeader DEF Inserting, Unlocked, Leading
  <2>3. lastSequence < f.seq /\ f.seq <= lastSequence /\ f.seq \in Nat
    BY <1>0, <1>1, <1>2, <1>3, <2>1, <2>2
  <2> QED  BY <1>0, <2>3
<1>4. ASSUME NEW w \in Writers, pc'[w] \in Unlocked,
             ~(\E v \in Writers : Call(v))
      PROVE  AfterBefore(group[w].entries)'
  <2>0. before' = before
    BY <1>4, HistorySteps
  <2>1. \A v \in Writers : ~Finish(v)
    <3> SUFFICES ASSUME NEW v \in Writers, Finish(v) PROVE FALSE
      OBVIOUS
    <3>1. PICK k : Finished(v, k)
      BY FinishQueue
    <3>2. pc[v] = "finish" /\ pc[w] \in Unlocked /\ w # v
      BY <1>4, <3>1 DEF Finished, Unlocked, Flushing
    <3> QED  BY <3>2, OneLeader DEF Unlocked, Leading
  <2>2. CASE BuildGroup(w)
    <3>1. PICK k \in 1 .. Len(queue) :
            group' = [group EXCEPT ![w] = [last |-> k, count |-> SizeTo(k),
                        entries |-> GroupEntries(k), syncError |-> FALSE]]
      BY <1>0, <1>4, <2>2 DEF BuildGroup, Goto, Unlocked
    <3>2. group'[w].entries = GroupEntries(k)
      BY <3>1, LogTypes
    <3>3. /\ GroupEntries(k) \subseteq Entry
          /\ \A f \in GroupEntries(k) : lastSequence < f.seq
      BY GroupEntriesRange DEF TInv
    <3>4. \A f \in GroupEntries(k) : \A e \in before[f.w] : e.seq < f.seq
      <4> SUFFICES ASSUME NEW f \in GroupEntries(k), NEW e \in before[f.w]
                   PROVE  e.seq < f.seq
        OBVIOUS
      <4>1. e \in committed
        BY <1>0, <3>3 DEF BeforeInv
      <4>2. e.seq \in Nat /\ f.seq \in Nat /\ e.seq <= lastSequence /\ lastSequence < f.seq
        BY <1>0, <1>1, <3>3, <4>1
      <4> QED  BY <1>0, <4>2
    <3> QED  BY <2>0, <3>2, <3>4 DEF AfterBefore
  <2>3. CASE AddRecord(w) \/ SyncLog(w) \/ InsertInto(w) \/ Relock(w)
    <3>1. pc[w] \in Unlocked /\ group'[w].entries = group[w].entries
      BY <2>3, GroupStepKeeps
    <3> QED  BY <2>0, <3>1 DEF BeforeInv, AfterBefore
  <2>4. CASE ~GroupStep(w)
    <3>1. GroupKept(w)
      BY <2>1, <2>4, GroupFrame
    <3>2. pc[w] \in Unlocked /\ group'[w].entries = group[w].entries
      BY <1>4, <3>1 DEF GroupKept, Grouped
    <3> QED  BY <2>0, <3>2 DEF BeforeInv, AfterBefore
  <2> QED  BY <2>2, <2>3, <2>4 DEF GroupStep
<1>5. ASSUME NEW u \in Writers, Call(u) PROVE BeforeInv'
  <2>1. /\ pc[u] = "start" /\ before' = [before EXCEPT ![u] = committed]
        /\ committed' = committed /\ group' = group
        /\ pc' = [pc EXCEPT ![u] = "lock"]
    BY <1>5 DEF Call, Goto, ownVars
  <2>2. \A w \in Writers : before'[w] \subseteq committed'
    BY <1>0, <2>1 DEF BeforeInv
  <2>3. ASSUME NEW w \in Writers, pc'[w] \in Unlocked, NEW f \in group'[w].entries
        PROVE  f.w # u /\ pc[w] \in Unlocked /\ f \in group[w].entries /\ f.w \in Writers
    <3>1. pc[w] \in Unlocked /\ f \in group[w].entries
      BY <1>0, <2>1, <2>3 DEF Unlocked
    <3>2. pc[f.w] \notin {"start", "lock"}
      BY <3>1, GroupUnfinished DEF Grouped
    <3> QED  BY <1>0, <2>1, <3>1, <3>2
  <2>4. ASSUME NEW f \in committed PROVE f.w # u /\ f.w \in Writers
    <3> SUFFICES ASSUME f.w = u PROVE FALSE
      BY <1>0
    <3>1. PICK v \in Writers : pc[v] \in Inserting /\ f \in group[v].entries
      BY <1>1, <2>1 DEF StoreOutcome, Unfinished
    <3>2. pc[f.w] \notin {"start", "lock"}
      BY <3>1, GroupUnfinished DEF Inserting, Grouped, Unlocked
    <3> QED  BY <2>1, <3>2
  <2>5. \A v \in Writers : v # u => before'[v] = before[v]
    BY <1>0, <2>1
  <2>6. \A w \in Writers : pc'[w] \in Unlocked => AfterBefore(group[w].entries)'
    BY <2>3, <2>5 DEF BeforeInv, AfterBefore
  <2>7. RealTimeOrder'
    BY <2>1, <2>4, <2>5 DEF BeforeInv, RealTimeOrder, EntriesOf
  <2> QED  BY <2>2, <2>6, <2>7 DEF BeforeInv
<1>6. ASSUME NEW w \in Writers, Relock(w) PROVE RealTimeOrder'
  <2>1. /\ pc[w] = "relock" /\ before' = before
        /\ committed' = committed \/ committed' = committed \cup group[w].entries
    BY <1>6 DEF Relock
  <2>2. CASE committed' = committed
    BY <2>1, <2>2 DEF BeforeInv, RealTimeOrder, EntriesOf
  <2>3. CASE committed' = committed \cup group[w].entries
    <3>0. pc[w] \in Unlocked /\ pc[w] \in Grouped
      BY <2>1 DEF Unlocked, Grouped
    <3>1. \A f \in committed' : \A e \in before[f.w] : e.seq < f.seq
      BY <2>3, <3>0 DEF BeforeInv, RealTimeOrder, AfterBefore
    <3>2. ASSUME NEW e \in committed', NEW f \in committed', e.w = f.w, e.i < f.i
          PROVE  e.seq < f.seq
      <4>1. CASE e \in committed /\ f \in committed
        BY <3>2, <4>1 DEF BeforeInv, RealTimeOrder, EntriesOf
      <4>2. CASE e \in group[w].entries /\ f \in group[w].entries
        BY <3>0, <3>2, <4>2 DEF GroupShape, GroupOK, InBatchOrder
      <4>3. CASE e \in committed /\ f \in group[w].entries
        <5>1. e.seq \in Nat /\ f.seq \in Nat /\ e.seq <= lastSequence /\ lastSequence < f.seq
          BY <1>0, <1>1, <1>2, <3>0, <4>3
        <5> QED  BY <1>0, <5>1
      <4>4. CASE e \in group[w].entries /\ f \in committed
        BY <1>3, <3>0, <3>2, <4>4, GroupUnfinished
      <4> QED  BY <2>3, <4>1, <4>2, <4>3, <4>4
    <3> QED  BY <2>1, <3>1, <3>2 DEF RealTimeOrder, EntriesOf
  <2> QED  BY <2>1, <2>2, <2>3
<1>7. CASE ~(\E w \in Writers : Call(w))
  <2>1. before' = before /\ committed \subseteq committed'
    BY <1>7, HistorySteps DEF Relock
  <2>2. \A u \in Writers : before'[u] \subseteq committed'
    BY <2>1 DEF BeforeInv
  <2>3. RealTimeOrder'
    <3>1. CASE committed' = committed
      BY <2>1, <3>1 DEF BeforeInv, RealTimeOrder, EntriesOf
    <3> QED  BY <1>6, <3>1, HistorySteps
  <2> QED  BY <1>4, <1>7, <2>2, <2>3 DEF BeforeInv
<1> QED  BY <1>5, <1>7

-----------------------------------------------------------------------------
(* Initially nobody has called.                                            *)
LEMMA OutcomeInit == Init => OutcomeInv
<1> SUFFICES ASSUME Init PROVE OutcomeInv
  OBVIOUS
<1>0. /\ queue = <<>> /\ \A w \in Writers : pc[w] = "start" /\ ~done[w]
      /\ committed = {} /\ \A w \in Writers : before[w] = {}
      /\ \A n \in LogNumbers : synced[n] = 0 /\ log[n] = <<>>
  BY DEF Init
<1>1. Stored = {}
  BY WQAssumption DEF Init, Stored, MemEntries, LogNumbers
<1>2. QueueShape
  BY <1>0 DEF QueueShape
<1>3. GroupShape
  BY <1>0 DEF GroupShape, Grouped, Unlocked
<1>4. StoreOutcome
  BY <1>0, <1>1 DEF StoreOutcome, Inserting, SyncedBound
<1>5. Outcomes
  BY <1>0 DEF Outcomes, Unfinished
<1>6. BeforeInv
  BY <1>0 DEF BeforeInv, RealTimeOrder, Unlocked
<1> QED  BY <1>2, <1>3, <1>4, <1>5, <1>6 DEF OutcomeInv

(* Every state of the write path satisfies OutcomeInv.                     *)
LEMMA OutcomeInvariance ==
  Spec => [](TInv /\ EInv /\ SInv /\ LogInv /\ OutcomeInv)
<1>1. TInv /\ EInv /\ SInv /\ LogInv /\ OutcomeInv /\ [Next]_vars => OutcomeInv'
  BY QueueShapeNext, GroupShapeNext, StoreOutcomeNext, OutcomesNext, BeforeNext
     DEF OutcomeInv
<1> QED  BY <1>1, OutcomeInit, PathInvariance, PTL DEF Spec

(* What Write() returned, to a leader or to a writer whose batch another   *)
(* leader wrote, is what happened: after OK every operation of the batch   *)
(* is in the store, after an error none is or ever will be, and after OK   *)
(* for a sync write all of them are in the synced part of a log.           *)
THEOREM ReturnedStatusIsTrue == Spec => []StatusTruthful
<1>1. TInv /\ OutcomeInv => StatusTruthful
  <2> SUFFICES ASSUME TInv, OutcomeInv, NEW u \in Writers, pc[u] = "return", ~IsNull(u)
               PROVE  /\ {e.i : e \in EntriesOf(u, Stored)} =
                           IF status[u] THEN 1 .. Ops(u) ELSE {}
                      /\ req[u].sync /\ status[u] => SyncedIn(u)
    BY DEF StatusTruthful
  <2>1. ~Unfinished(u)
    BY DEF OutcomeInv, QueueShape, Unfinished, InQueue, Leading
  <2>2. Told(u)
    BY <2>1 DEF OutcomeInv, Outcomes
  <2> QED  BY <2>2 DEF Told, Indexes
<1> QED  BY <1>1, OutcomeInvariance, PTL

(* A write gets later sequence numbers than all that was committed when it *)
(* was called, and its operations get theirs in the order of the batch.    *)
THEOREM WritesAreInRealTimeOrder == Spec => []RealTimeOrder
<1>1. OutcomeInv => RealTimeOrder
  BY DEF OutcomeInv, BeforeInv
<1> QED  BY <1>1, OutcomeInvariance, PTL
=============================================================================
