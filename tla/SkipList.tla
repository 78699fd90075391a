------------------------------ MODULE SkipList ------------------------------
(***************************************************************************)
(* The skip list of a memtable (db/skiplist.h) and the memtable over it    *)
(* (db/memtable.cc): one writer, which the writers' queue keeps alone, and *)
(* readers that take no lock.                                              *)
(*                                                                         *)
(* Memory is the sequence of the writer's stores.  A thread has a view: a  *)
(* prefix of that sequence that happens before its next step.  A load of a *)
(* location returns the last store to it in the view, or any later one; an *)
(* acquire load that returns a release store brings the view up to it.     *)
(* max_height_ is read relaxed, so only the order of the stores to itself  *)
(* binds a reader.  A location with no store in the view may be read as    *)
(* Garbage: memory of the arena that nobody has written yet.               *)
(*                                                                         *)
(* A node is its internal key <<user key, sequence>>; what else the entry  *)
(* holds is whether it is a value or a deletion.  A reader gets its first  *)
(* view from DBImpl::mutex_: NewIterator and Get read the last sequence    *)
(* under it, after the writer has published it there.                      *)
(***************************************************************************)
EXTENDS Integers, Sequences, FiniteSets

CONSTANTS
  Readers,     \* threads in DBImpl::Get, or with an iterator
  Writer,      \* the thread at the head of the writers' queue
  UserKeys,    \* a set of positive integers
  Writes,      \* what may be added: pairs of a user key and TRUE for a value,
               \* FALSE for a deletion
  MaxHeight,   \* kMaxHeight
  MaxSequence  \* bound: entries added

ASSUME SkipListAssumption ==
  /\ Writer \notin Readers
  /\ UserKeys \subseteq Nat \ {0}
  /\ Writes \subseteq UserKeys \X BOOLEAN
  /\ MaxHeight \in Nat \ {0}
  /\ MaxSequence \in Nat

Threads == Readers \cup {Writer}
Levels == 0 .. MaxHeight - 1
head == <<0, 0>>
Null == <<0, 1>>
Garbage == <<0, 2>>

(* Locations: next_[level] of a node, the entry of a node, max_height_.    *)
NextLoc(n, level) == <<n, level>>
EntryLoc(n) == <<n, -1>>
HeightLoc == <<head, -2>>

VARIABLES
  stores,     \* the writer's stores: [loc, val, rel]
  sequence,   \* entries added so far; the next one has sequence + 1
  published,  \* under mutex_: [time, sequence] of the last finished group
  entry,      \* the writer's: the entry it adds
  height,     \* the writer's: height of the new node
  prev,       \* the writer's: prev[kMaxHeight]
  pc,         \* per thread
  op,         \* per thread: [name, key] of the call
  node,       \* per thread: node_ of the iterator, or x of a search
  level,      \* per thread: level of a search, or of Insert's loop
  view,       \* per thread: stores that happened before
  heightSeen  \* per thread: the last store to max_height_ it has read

writerVars == <<stores, sequence, published, entry, height, prev>>
threadVars == <<pc, op, node, level, view, heightSeen>>
vars == <<writerVars, threadVars>>

-----------------------------------------------------------------------------
Store(loc, val, rel) == [loc |-> loc, val |-> val, rel |-> rel]

(* The stores a load may return; 0 stands for memory never written.        *)
Readable(loc, seen) ==
  LET To == {i \in 1 .. Len(stores) : stores[i].loc = loc}
      Old == {i \in To : i <= seen}
  IN {i \in To : \A j \in Old : i >= j} \cup (IF Old = {} THEN {0} ELSE {})

Value(i) == IF i = 0 THEN Garbage ELSE stores[i].val

(* The view after an acquire load that returned store i.                   *)
Acquired(seen, i) ==
  IF i > seen /\ stores[i].rel THEN i ELSE seen

Latest(loc) ==
  stores[CHOOSE i \in 1 .. Len(stores) :
           /\ stores[i].loc = loc
           /\ \A j \in i + 1 .. Len(stores) : stores[j].loc # loc].val

(* The internal key comparator: user key up, sequence down.                *)
Before(a, b) == a[1] < b[1] \/ (a[1] = b[1] /\ a[2] > b[2])

(* KeyIsAfterNode(key, n): null is infinite.                               *)
KeyIsAfterNode(key, n) == n # Null /\ Before(n, key)

MaxHeightNow == Latest(HeightLoc)

-----------------------------------------------------------------------------
Init ==
  /\ stores = <<Store(HeightLoc, 1, FALSE)>> \o
              [i \in 1 .. MaxHeight |-> Store(NextLoc(head, i - 1), Null, TRUE)]
  /\ sequence = 0
  /\ published = [time |-> MaxHeight + 1, sequence |-> 0]
  /\ entry = [node |-> Null, live |-> TRUE]
  /\ height = 1
  /\ prev = [l \in Levels |-> Null]
  /\ pc = [t \in Threads |-> "idle"]
  /\ op = [t \in Threads |-> [name |-> "none", key |-> head]]
  /\ node = [t \in Threads |-> Null]
  /\ level = [t \in Threads |-> 0]
  /\ view = [t \in Threads |-> MaxHeight + 1]
  /\ heightSeen = [t \in Threads |-> 1]

(* A call of a thread that searches from the top of the list.              *)
Search(t, name, key) ==
  /\ op' = [op EXCEPT ![t] = [name |-> name, key |-> key]]
  /\ pc' = [pc EXCEPT ![t] = "height"]

(* int level = GetMaxHeight() - 1, a relaxed load.                         *)
GetMaxHeight(t) ==
  /\ pc[t] = "height"
  /\ \E i \in Readable(HeightLoc, view[t]) :
       /\ i >= heightSeen[t]
       /\ heightSeen' = [heightSeen EXCEPT ![t] = i]
       /\ level' = [level EXCEPT ![t] = Value(i) - 1]
  /\ node' = [node EXCEPT ![t] = head]
  /\ pc' = [pc EXCEPT ![t] = "search"]
  /\ UNCHANGED <<writerVars, op, view>>

(* What FindGreaterOrEqual, FindLessThan and FindLast move over.           *)
MovesOver(o, n) ==
  IF o.name = "FindLast" THEN n # Null ELSE KeyIsAfterNode(o.key, n)

(* The node a finished search returns: FindGreaterOrEqual the node after   *)
(* x, the others x, with head_ turned to nullptr by the iterator.          *)
Returned(o, x, next) ==
  IF o.name \in {"FindLessThan", "FindLast"}
  THEN IF x = head THEN Null ELSE x
  ELSE next

(* One turn of the loop of a search: an acquire load of x->Next(level),    *)
(* and the comparison with the key of the node it points to.               *)
SearchStep(t) ==
  /\ pc[t] = "search"
  /\ \E i \in Readable(NextLoc(node[t], level[t]), view[t]) :
       LET next == Value(i)
           seen == Acquired(view[t], i)
       IN /\ view' = [view EXCEPT ![t] = seen]
          /\ \/ /\ \/ next = Garbage
                   \/ next # Null /\ 0 \in Readable(EntryLoc(next), seen)
                /\ pc' = [pc EXCEPT ![t] = "garbage"]
                /\ UNCHANGED <<node, level, prev>>
             \/ /\ next # Garbage
                /\ next = Null \/ 0 \notin Readable(EntryLoc(next), seen)
                /\ IF MovesOver(op[t], next)
                   THEN /\ node' = [node EXCEPT ![t] = next]
                        /\ UNCHANGED <<pc, level, prev>>
                   ELSE /\ prev' = IF t = Writer
                                   THEN [prev EXCEPT ![level[t]] = node[t]]
                                   ELSE prev
                        /\ IF level[t] = 0
                           THEN /\ node' = [node EXCEPT ![t] =
                                              Returned(op[t], node[t], next)]
                                /\ pc' = [pc EXCEPT ![t] = "done"]
                                /\ UNCHANGED level
                           ELSE /\ level' = [level EXCEPT ![t] = @ - 1]
                                /\ UNCHANGED <<node, pc>>
  /\ UNCHANGED <<stores, sequence, published, entry, height, op, heightSeen>>

-----------------------------------------------------------------------------
(* The writer.  Its view is everything it has stored.                      *)

WriterView == view' = [view EXCEPT ![Writer] = Len(stores')]

(* Insert up to its call of FindGreaterOrEqual with prev.                  *)
Insert(key) == Search(Writer, "FindGreaterOrEqual", key)

(* mutant: the last sequence is advanced before the entry is in the list.  *)
Add_PublishFirst(u, live) ==
  /\ pc[Writer] = "idle"
  /\ sequence < MaxSequence
  /\ sequence' = sequence + 1
  /\ published' = [time |-> Len(stores), sequence |-> sequence + 1]
  /\ entry' = [node |-> <<u, sequence + 1>>, live |-> live]
  /\ Insert(<<u, sequence + 1>>)
  /\ UNCHANGED <<stores, height, prev, node, level, view, heightSeen>>

(* MemTable::Add up to that call.                                          *)
Add(u, live) ==
  /\ pc[Writer] = "idle"
  /\ sequence < MaxSequence
  /\ sequence' = sequence + 1
  /\ entry' = [node |-> <<u, sequence + 1>>, live |-> live]
  /\ Insert(<<u, sequence + 1>>)
  /\ UNCHANGED <<stores, published, height, prev, node, level, view,
                 heightSeen>>

(* What RandomHeight may return.                                           *)
RandomHeight == 1 .. MaxHeight

(* A relaxed store of max_height_ when the new node is higher.             *)
SetMaxHeight(h) ==
  /\ pc[Writer] = "done"
  /\ height' = h
  /\ IF h > MaxHeightNow
     THEN /\ prev' = [l \in Levels |->
                        IF l \in MaxHeightNow .. h - 1 THEN head ELSE prev[l]]
          /\ stores' = Append(stores, Store(HeightLoc, h, FALSE))
     ELSE UNCHANGED <<prev, stores>>
  /\ WriterView
  /\ pc' = [pc EXCEPT ![Writer] = "new"]
  /\ UNCHANGED <<sequence, published, entry, op, node, level, heightSeen>>

(* NewNode: the entry and the key of the node, plain writes.               *)
NewNode ==
  /\ pc[Writer] = "new"
  /\ stores' = Append(stores, Store(EntryLoc(entry.node), entry.live, FALSE))
  /\ WriterView
  /\ level' = [level EXCEPT ![Writer] = 0]
  /\ pc' = [pc EXCEPT ![Writer] = "link"]
  /\ UNCHANGED <<sequence, published, entry, height, prev, op, node,
                 heightSeen>>

(* mutant: the pointer to the new node is stored without a barrier.        *)
SetNext_NoBarrier(n, l, x) == Store(NextLoc(n, l), x, FALSE)

NoBarrier_SetNext(n, l, x) == Store(NextLoc(n, l), x, FALSE)

SetNext(n, l, x) == Store(NextLoc(n, l), x, TRUE)

(* mutant: the new node is linked from the top level down.                 *)
LinkLevel_TopDown(i) == height - 1 - i

LinkLevel(i) == i

(* One turn of Insert's loop.                                              *)
Link ==
  /\ pc[Writer] = "link"
  /\ LET i == LinkLevel(level[Writer])
         x == entry.node
     IN stores' = stores \o
          <<NoBarrier_SetNext(x, i, Latest(NextLoc(prev[i], i))),
            SetNext(prev[i], i, x)>>
  /\ WriterView
  /\ IF level[Writer] + 1 < height
     THEN /\ level' = [level EXCEPT ![Writer] = @ + 1]
          /\ UNCHANGED <<pc, prev, node, op>>
     ELSE /\ level' = [level EXCEPT ![Writer] = 0]
          /\ pc' = [pc EXCEPT ![Writer] = "idle"]
          /\ prev' = [l \in Levels |-> Null]
          /\ node' = [node EXCEPT ![Writer] = Null]
          /\ op' = [op EXCEPT ![Writer] = [name |-> "none", key |-> head]]
  /\ UNCHANGED <<sequence, published, entry, height, heightSeen>>

(* DBImpl::Write after InsertInto: mutex_ again, and SetLastSequence.  A   *)
(* group may have added several entries.                                   *)
Publish ==
  /\ pc[Writer] = "idle"
  /\ published.sequence < sequence
  /\ published' = [time |-> Len(stores), sequence |-> sequence]
  /\ UNCHANGED <<stores, sequence, entry, height, prev, threadVars>>

-----------------------------------------------------------------------------
(* The readers.                                                            *)

LaterOf(a, b) == IF a > b THEN a ELSE b

(* DBImpl::Get takes mutex_ for the last sequence, and MemTable::Get seeks *)
(* to the newest entry of the key at or below it.                          *)
Get(r, u) ==
  /\ pc[r] = "idle"
  /\ view' = [view EXCEPT ![r] = LaterOf(@, published.time)]
  /\ Search(r, "Get", <<u, published.sequence>>)
  /\ node' = [node EXCEPT ![r] = Null]
  /\ UNCHANGED <<writerVars, level, heightSeen>>

(* What MemTable::Get returns for the node its Seek has found.             *)
GetResult(key, n) ==
  IF n = Null \/ n[1] # key[1] THEN "absent"
  ELSE IF Latest(EntryLoc(n)) THEN "value" ELSE "deleted"

(* NewIterator takes mutex_; the iterator is not positioned.               *)
NewIterator(r) ==
  /\ pc[r] = "idle"
  /\ view[r] < published.time
  /\ view' = [view EXCEPT ![r] = published.time]
  /\ node' = [node EXCEPT ![r] = Null]
  /\ UNCHANGED <<writerVars, pc, op, level, heightSeen>>

(* Seek, with internal keys of any sequence; SeekToLast and Prev.          *)
Seek(r, key) ==
  /\ pc[r] = "idle"
  /\ Search(r, "FindGreaterOrEqual", key)
  /\ UNCHANGED <<writerVars, node, level, view, heightSeen>>

SeekToLast(r) ==
  /\ pc[r] = "idle"
  /\ Search(r, "FindLast", head)
  /\ UNCHANGED <<writerVars, node, level, view, heightSeen>>

Prev(r) ==
  /\ pc[r] = "idle"
  /\ node[r] # Null
  /\ Search(r, "FindLessThan", node[r])
  /\ UNCHANGED <<writerVars, node, level, view, heightSeen>>

(* SeekToFirst and Next are one load of a pointer at level 0.              *)
LoadNext(r, x, name) ==
  /\ pc[r] = "idle"
  /\ \E i \in Readable(NextLoc(x, 0), view[r]) :
       /\ view' = [view EXCEPT ![r] = Acquired(@, i)]
       /\ node' = [node EXCEPT ![r] = Value(i)]
  /\ op' = [op EXCEPT ![r] = [name |-> name, key |-> x]]
  /\ pc' = [pc EXCEPT ![r] = "done"]
  /\ UNCHANGED <<writerVars, level, heightSeen>>

SeekToFirst(r) == LoadNext(r, head, "Next")

Next_(r) == node[r] # Null /\ LoadNext(r, node[r], "Next")

(* The call returns; the reader uses node_ until its next call.            *)
Return(r) ==
  /\ pc[r] = "done"
  /\ pc' = [pc EXCEPT ![r] = "idle"]
  /\ node' = IF op[r].name = "Get" THEN [node EXCEPT ![r] = Null] ELSE node
  /\ op' = [op EXCEPT ![r] = [name |-> "none", key |-> head]]
  /\ level' = [level EXCEPT ![r] = 0]
  /\ UNCHANGED <<writerVars, view, heightSeen>>

Next ==
  \/ \E t \in Threads : GetMaxHeight(t) \/ SearchStep(t)
  \/ \E w \in Writes : Add(w[1], w[2])
  \/ \E h \in RandomHeight : SetMaxHeight(h)
  \/ NewNode \/ Link \/ Publish
  \/ \E r \in Readers :
       \/ \E u \in UserKeys : Get(r, u)
       \/ \E u \in UserKeys, s \in 0 .. MaxSequence : Seek(r, <<u, s>>)
       \/ NewIterator(r) \/ SeekToLast(r) \/ Prev(r)
       \/ SeekToFirst(r) \/ Next_(r) \/ Return(r)

Spec == Init /\ [][Next]_vars

-----------------------------------------------------------------------------
(* The nodes a pointer at level l leads to after the first n stores.       *)
LinkedAt(l, n) ==
  {stores[i].val : i \in {j \in 1 .. n : stores[j].loc[2] = l}} \ {Null}

(* The first and the last of a set of nodes.                               *)
FirstOf(S) == IF S = {} THEN Null
              ELSE CHOOSE n \in S : \A m \in S : m = n \/ Before(n, m)
LastOf(S) == IF S = {} THEN Null
             ELSE CHOOSE n \in S : \A m \in S : m = n \/ Before(m, n)

(* What a call promises, of a list that holds S and does not change.       *)
Answer(o, S) ==
  CASE o.name = "Next"         -> FirstOf({n \in S : Before(o.key, n)})
    [] o.name = "FindLessThan" -> LastOf({n \in S : Before(n, o.key)})
    [] o.name = "FindLast"     -> LastOf(S)
    [] OTHER                   -> FirstOf({n \in S : ~Before(n, o.key)})

(* No search reads memory that is not yet written, and each call answers   *)
(* exactly as a list that held still would have: the list at one moment of *)
(* the writer's history, no earlier than the mutex or any earlier call     *)
(* made visible.  That is what "reads need no lock" claims, although       *)
(* max_height_ may be older or newer than the pointers.                    *)
SearchExact ==
  \A r \in Readers :
    /\ pc[r] # "garbage"
    /\ pc[r] = "done" => node[r] = Answer(op[r], LinkedAt(0, view[r]))

(* A Get concurrent with writers returns the newest entry of its key at or *)
(* below the sequence it read under the mutex, deletions included, however *)
(* far the writer has come since.                                          *)
GetSeesSnapshot ==
  \A r \in Readers :
    pc[r] = "done" /\ op[r].name = "Get" =>
      LET key == op[r].key
          Mine == {s \in 1 .. key[2] :
                     \E i \in 1 .. Len(stores) :
                       stores[i].loc = EntryLoc(<<key[1], s>>)}
          top == CHOOSE s \in Mine : \A q \in Mine : q <= s
      IN GetResult(key, node[r]) =
           IF Mine = {} THEN "absent"
           ELSE IF Latest(EntryLoc(<<key[1], top>>)) THEN "value"
           ELSE "deleted"

(* At every moment of an Insert, each level is a sorted list that ends in  *)
(* null and skips over the level below: what is on it is linked below.     *)
LevelsNested ==
  \A l \in Levels :
    LET S == LinkedAt(l, Len(stores))
    IN /\ l > 0 => S \subseteq LinkedAt(l - 1, Len(stores))
       /\ \A n \in S \cup {head} :
            Latest(NextLoc(n, l)) =
              FirstOf({m \in S : n = head \/ Before(n, m)})
=============================================================================
