--------------------------- MODULE SkipListProofs ---------------------------
(***************************************************************************)
(* Proofs about the skip list, for any number of readers, any keys and any *)
(* heights: LevelsNested, SearchExact and GetSeesSnapshot hold in every    *)
(* behaviour of Spec, that is, readers need no lock.                       *)
(*                                                                         *)
(* ListInv speaks of every moment of the writer's history at once: after   *)
(* each prefix of the stores every level is a sorted list that skips over  *)
(* the levels below, and whatever it links is written.  A reader's view is *)
(* such a prefix, and an acquire load moves it to a later one in which the *)
(* store it returned is the last to its location: so a search, which never *)
(* looks back, is a search of the list at the moment of its last load.     *)
(* WriterInv says where the new node belongs at each level, ThreadInv what *)
(* a search has found so far, and PublishedInv that the entries up to the  *)
(* published sequence are linked in the published prefix.                  *)
(***************************************************************************)
EXTENDS SkipList, SequenceTheorems, TLAPS

Node == UserKeys \X (Nat \ {0})
Key == (UserKeys \X Nat) \cup {head}
AnyStore == [loc : (Node \cup {head}) \X Int,
             val : Node \cup {Null} \cup Nat \cup BOOLEAN,
             rel : BOOLEAN]
Moments == MaxHeight + 1 .. Len(stores)   \* from the constructor's end on
Now(l) == LinkedAt(l, Len(stores))

(* Store i is the last to loc among the first n.                           *)
IsLast(i, loc, n) ==
  /\ i \in 1 .. n /\ stores[i].loc = loc
  /\ \A j \in i + 1 .. n : stores[j].loc # loc

(* y comes next after x in S, or is null when nothing does.                *)
Follows(x, y, S) ==
  /\ \A m \in S : Before(x, m) => y # Null /\ (m = y \/ Before(y, m))
  /\ y # Null => y \in S /\ Before(x, y)

SortedAt(l, n) ==
  \A x \in LinkedAt(l, n) \cup {head} : \E i \in 1 .. n :
    IsLast(i, NextLoc(x, l), n) /\ Follows(x, stores[i].val, LinkedAt(l, n))

ListAt(l, n) ==
  /\ LinkedAt(l, n) \subseteq Node
  /\ \A m \in Levels : m <= l => LinkedAt(l, n) \subseteq LinkedAt(m, n)
  /\ \A x \in LinkedAt(l, n) : \E i \in 1 .. n : stores[i].loc = EntryLoc(x)
  /\ SortedAt(l, n)

(* Only the first store to a pointer, of a node no pointer leads to yet,   *)
(* is without a barrier.                                                   *)
Barriers ==
  \A i \in 1 .. Len(stores) : \A x : \A l \in Levels :
    stores[i].loc = NextLoc(x, l) =>
      stores[i].rel \/ \A j \in 1 .. i - 1 : stores[j].loc # NextLoc(x, l)

Heights ==
  /\ stores[1].loc = HeightLoc
  /\ \A i \in 1 .. Len(stores) : stores[i].loc = HeightLoc =>
       stores[i].val \in 1 .. MaxHeight
  /\ \E i \in 1 .. Len(stores) :
       /\ IsLast(i, HeightLoc, Len(stores))
       /\ \A l \in Levels : l >= stores[i].val => Now(l) = {}

ListInv ==
  /\ Len(stores) >= MaxHeight + 1
  /\ \A n \in Moments : \A l \in Levels : ListAt(l, n)
  /\ \A i \in 1 .. Len(stores) : \A x : \A l \in Levels :
       stores[i].loc = NextLoc(x, l) => x \in Now(l) \cup {head}
  /\ Barriers /\ Heights

(* Where the writer's new node x belongs at level l: behind prev[l].       *)
PrevOK(l, x) ==
  /\ prev[l] \in Now(l) \cup {head}
  /\ Before(prev[l], x)
  /\ \A m \in Now(l) : Before(prev[l], m) => Before(x, m)

Inserting == {"height", "search", "done", "new", "link"}
LinkedTo == IF pc[Writer] = "link" THEN level[Writer] ELSE 0

WriterInv ==
  /\ view[Writer] = Len(stores)
  /\ sequence \in Nat /\ prev \in [Levels -> Node \cup {head, Null}]
  /\ pc[Writer] \in Inserting \cup {"idle"}
  /\ \A m \in Now(0) : m[2] <= sequence
  /\ \A i \in 1 .. Len(stores) : \A m : stores[i].loc = EntryLoc(m) =>
       m \in Node /\ (m \in Now(0) \/ (pc[Writer] = "link" /\ m = entry.node))
  /\ pc[Writer] \in Inserting =>
       LET x == entry.node
       IN /\ x \in Node /\ x[2] = sequence /\ entry.live \in BOOLEAN
          /\ \A m \in Now(0) : m = x \/ m[2] < sequence
          /\ \A l \in Levels : x \in Now(l) <=> l < LinkedTo
  /\ pc[Writer] \in {"height", "search", "done"} =>
       op[Writer] = [name |-> "FindGreaterOrEqual", key |-> entry.node]
  /\ pc[Writer] = "search" =>
       \A l \in level[Writer] + 1 .. MaxHeightNow - 1 : PrevOK(l, entry.node)
  /\ pc[Writer] = "done" =>
       \A l \in 0 .. MaxHeightNow - 1 : PrevOK(l, entry.node)
  /\ pc[Writer] \in {"new", "link"} =>
       /\ height \in 1 .. MaxHeight /\ height <= MaxHeightNow
       /\ \A l \in LinkedTo .. height - 1 : PrevOK(l, entry.node)
  /\ pc[Writer] = "link" =>
       /\ level[Writer] \in 0 .. height - 1
       /\ \E i \in 1 .. Len(stores) : stores[i].loc = EntryLoc(entry.node)

Pcs == Inserting \cup {"idle", "garbage"}
Names == {"none", "Get", "FindGreaterOrEqual", "FindLessThan", "FindLast", "Next"}

(* What a thread has found: it is on the list, and before what it seeks.   *)
ThreadOK(t) ==
  /\ view[t] \in Moments
  /\ pc[t] \in {"height", "search"} =>
       /\ op[t].name \notin {"none", "Next"}
       /\ op[t].name # "FindLast" => op[t].key # head
  /\ pc[t] = "search" =>
       /\ level[t] \in Levels
       /\ node[t] \in LinkedAt(level[t], view[t]) \cup {head}
       /\ op[t].name # "FindLast" => Before(node[t], op[t].key)

ThreadInv == \A t \in Threads : ThreadOK(t)

(* y is the first, or the last, of the nodes in T, or null for no nodes.   *)
IsFirst(y, T) ==
  \/ y = Null /\ T = {}
  \/ y \in T /\ \A m \in T : m = y \/ Before(y, m)
IsFinal(y, T) ==
  \/ y = Null /\ T = {}
  \/ y \in T /\ \A m \in T : m = y \/ Before(m, y)

(* y answers the call o on a list that holds S.                            *)
Answers(o, y, S) ==
  /\ o.name = "Next" => IsFirst(y, {n \in S : Before(o.key, n)})
  /\ o.name = "FindLessThan" => IsFinal(y, {n \in S : Before(n, o.key)})
  /\ o.name = "FindLast" => IsFinal(y, S)
  /\ o.name \in {"Get", "FindGreaterOrEqual"} =>
       IsFirst(y, {n \in S : ~Before(n, o.key)})

ReaderOK(r) ==
  /\ pc[r] \in {"idle", "height", "search", "done"}
  /\ pc[r] \in {"idle", "done"} => node[r] \in LinkedAt(0, view[r]) \cup {Null}
  /\ pc[r] = "done" =>
       op[r].name # "none" /\ Answers(op[r], node[r], LinkedAt(0, view[r]))

ReaderInv == \A r \in Readers : ReaderOK(r)

(* The entries written with a sequence up to s are linked after n stores.  *)
EntriesLinked(s, n) ==
  \A i \in 1 .. Len(stores) : \A m :
    stores[i].loc = EntryLoc(m) /\ m[2] <= s => m \in LinkedAt(0, n)

(* A Get looks for a sequence whose entries its view holds.                *)
GetOK(r) ==
  op[r].name = "Get" =>
    /\ op[r].key # head /\ op[r].key[2] <= published.sequence
    /\ EntriesLinked(op[r].key[2], view[r])

PublishedInv ==
  /\ published.time \in Moments
  /\ published.sequence \in Nat /\ published.sequence <= sequence
  /\ pc[Writer] \in Inserting => published.sequence < sequence
  /\ EntriesLinked(published.sequence, published.time)
  /\ \A r \in Readers : GetOK(r)

TypeInv ==
  /\ stores \in Seq(AnyStore)
  /\ published \in [time : Nat, sequence : Nat]
  /\ entry \in [node : Node \cup {Null}, live : BOOLEAN]
  /\ pc \in [Threads -> Pcs]
  /\ op \in [Threads -> [name : Names, key : Key]]
  /\ node \in [Threads -> Node \cup {head, Null}]
  /\ level \in [Threads -> Nat]
  /\ view \in [Threads -> Nat]
  /\ heightSeen \in [Threads -> Nat]

IInv == TypeInv /\ ListInv /\ WriterInv /\ ThreadInv /\ ReaderInv /\ PublishedInv

-----------------------------------------------------------------------------
(* Keys and locations.                                                     *)

(* The comparator is a strict total order, and head_ comes before all.     *)
LEMMA KeyOrder ==
  /\ Node \subseteq Key /\ head \in Key
  /\ \A a \in Key : a[1] \in Nat /\ a[2] \in Nat /\ a = <<a[1], a[2]>>
  /\ \A a, b \in Key : a = b \/ Before(a, b) \/ Before(b, a)
  /\ \A a, b \in Key : Before(a, b) => ~Before(b, a) /\ a # b
  /\ \A a, b, c \in Key : Before(a, b) /\ Before(b, c) => Before(a, c)
  /\ \A a \in Key : a # head => Before(head, a)
  /\ \A a \in Node : a # head /\ a # Null /\ a # Garbage
  /\ head # Null /\ Null # Garbage
<1>1. Node \subseteq Key /\ head \in Key
  BY DEF Node, Key
<1>2. \A a \in Key : a[1] \in Nat /\ a[2] \in Nat /\ a = <<a[1], a[2]>>
  <2>1. \A a \in UserKeys \X Nat :
          a[1] \in UserKeys /\ a[2] \in Nat /\ a = <<a[1], a[2]>>
    OBVIOUS
  <2>2. head[1] = 0 /\ head[2] = 0 /\ head = <<head[1], head[2]>>
    BY DEF head
  <2> QED  BY <2>1, <2>2, SkipListAssumption DEF Key
<1>3. \A a, b \in Key : a = b \/ Before(a, b) \/ Before(b, a)
  <2> SUFFICES ASSUME NEW a \in Key, NEW b \in Key, a # b
               PROVE  Before(a, b) \/ Before(b, a)
    OBVIOUS
  <2>1. a[1] # b[1] \/ a[2] # b[2]
    BY <1>2
  <2> QED  BY <1>2, <2>1 DEF Before
<1>4. \A a, b \in Key : Before(a, b) => ~Before(b, a) /\ a # b
  BY <1>2 DEF Before
<1>5. \A a, b, c \in Key : Before(a, b) /\ Before(b, c) => Before(a, c)
  BY <1>2 DEF Before
<1>6. \A a \in Key : a # head => Before(head, a)
  <2>1. \A a \in UserKeys \X Nat : a[1] \in UserKeys
    OBVIOUS
  <2>2. \A a \in UserKeys \X Nat : a[1] > 0
    <3>1. \A u \in UserKeys : u \in Nat /\ u > 0
      BY SkipListAssumption
    <3> QED  BY <2>1, <3>1
  <2>3. head[1] = 0
    BY DEF head
  <2> QED  BY <2>2, <2>3 DEF Key, Before
<1>7. \A a \in Node : a # head /\ a # Null /\ a # Garbage
  BY SkipListAssumption DEF Node, head, Null, Garbage
<1>8. head # Null /\ Null # Garbage
  BY DEF head, Null, Garbage
<1> QED  BY <1>1, <1>2, <1>3, <1>4, <1>5, <1>6, <1>7, <1>8

(* Locations of different things are different.                            *)
LEMMA Locations ==
  /\ Levels \subseteq Nat
  /\ \A x, l : NextLoc(x, l)[1] = x /\ NextLoc(x, l)[2] = l
  /\ \A x, y, l, m : NextLoc(x, l) = NextLoc(y, m) => x = y /\ l = m
  /\ \A x, y : EntryLoc(x) = EntryLoc(y) => x = y
  /\ \A x, y, l : l \in Levels => EntryLoc(y) # NextLoc(x, l) /\ HeightLoc # NextLoc(x, l)
  /\ \A x : EntryLoc(x) # HeightLoc /\ EntryLoc(x)[2] \notin Levels
  /\ HeightLoc[2] \notin Levels
<1>1. Levels \subseteq Nat /\ -1 \notin Levels /\ -2 \notin Levels
  BY SkipListAssumption DEF Levels
<1> QED  BY <1>1 DEF NextLoc, EntryLoc, HeightLoc

(* A store to a pointer of level l is a store to some NextLoc(x, l).       *)
LEMMA StoreLocations ==
  ASSUME TypeInv, NEW i \in 1 .. Len(stores)
  PROVE  \A l : stores[i].loc[2] = l <=> \E x : stores[i].loc = NextLoc(x, l)
<1>1. stores[i] \in AnyStore
  BY DEF TypeInv
<1>2. stores[i].loc \in (Node \cup {head}) \X Int
  BY <1>1 DEF AnyStore
<1>3. stores[i].loc = <<stores[i].loc[1], stores[i].loc[2]>>
  BY <1>2
<1> QED  BY <1>3 DEF NextLoc

-----------------------------------------------------------------------------
(* Prefixes of the stores.                                                 *)

(* What is linked stays linked.                                            *)
LEMMA LinkedGrows ==
  ASSUME NEW l, NEW m \in Nat, NEW n \in Nat, m <= n
  PROVE  LinkedAt(l, m) \subseteq LinkedAt(l, n)
<1>1. 1 .. m \subseteq 1 .. n
  OBVIOUS
<1> QED  BY <1>1 DEF LinkedAt

(* One more store links the node it points to.                             *)
LEMMA LinkedNext ==
  ASSUME NEW l, NEW n \in Nat
  PROVE  /\ stores'[n + 1].loc[2] # l => LinkedAt(l, n + 1)' = LinkedAt(l, n)'
         /\ stores'[n + 1].loc[2] = l =>
              LinkedAt(l, n + 1)' = LinkedAt(l, n)' \cup ({stores'[n + 1].val} \ {Null})
<1>1. 1 .. n + 1 = (1 .. n) \cup {n + 1}
  OBVIOUS
<1> QED  BY <1>1 DEF LinkedAt

(* The list of a moment depends on the stores up to it.                    *)
LEMMA MomentStays ==
  ASSUME NEW n \in Nat, \A i \in 1 .. n : stores'[i] = stores[i], NEW l
  PROVE  /\ LinkedAt(l, n)' = LinkedAt(l, n)
         /\ ListAt(l, n) => ListAt(l, n)'
<1>1. \A k : LinkedAt(k, n)' = LinkedAt(k, n)
  BY DEF LinkedAt
<1>2. \A i, loc : IsLast(i, loc, n) => IsLast(i, loc, n)'
  BY DEF IsLast
<1>3. SortedAt(l, n) => SortedAt(l, n)'
  BY <1>1, <1>2 DEF SortedAt, Follows
<1> QED  BY <1>1, <1>3 DEF ListAt

(* There is one last store.                                                *)
LEMMA LastUnique ==
  ASSUME NEW loc, NEW n \in Nat, NEW i, NEW j, IsLast(i, loc, n), IsLast(j, loc, n)
  PROVE  i = j
<1>1. i \in 1 .. n /\ j \in 1 .. n
  BY DEF IsLast
<1>2. i < j => j \in i + 1 .. n
  BY <1>1
<1>3. j < i => i \in j + 1 .. n
  BY <1>1
<1> QED  BY <1>1, <1>2, <1>3 DEF IsLast

(* The writer's own load returns the last store.                           *)
LEMMA LatestIs ==
  ASSUME TypeInv, NEW loc, NEW i, IsLast(i, loc, Len(stores))
  PROVE  Latest(loc) = stores[i].val
<1>0. Len(stores) \in Nat
  BY DEF TypeInv
<1> DEFINE P(k) == /\ stores[k].loc = loc
                   /\ \A j \in k + 1 .. Len(stores) : stores[j].loc # loc
           c == CHOOSE k \in 1 .. Len(stores) : P(k)
<1>1. i \in 1 .. Len(stores) /\ P(i)
  BY DEF IsLast
<1>2. c \in 1 .. Len(stores) /\ P(c)
  BY <1>1
<1>3. IsLast(c, loc, Len(stores))
  BY <1>2 DEF IsLast
<1>4. c = i
  BY <1>0, <1>3, LastUnique
<1> QED  BY <1>4 DEF Latest

(* The same after a step.                                                  *)
LEMMA LatestIsNext ==
  ASSUME Len(stores') \in Nat, NEW loc, NEW i, IsLast(i, loc, Len(stores))'
  PROVE  Latest(loc)' = stores'[i].val
<1> DEFINE P(k) == /\ stores'[k].loc = loc
                   /\ \A j \in k + 1 .. Len(stores') : stores'[j].loc # loc
           c == CHOOSE k \in 1 .. Len(stores') : P(k)
<1>1. i \in 1 .. Len(stores') /\ P(i)
  BY DEF IsLast
<1>2. c \in 1 .. Len(stores') /\ P(c)
  BY <1>1
<1>3. c = i
  <2>1. i < c => c \in i + 1 .. Len(stores')
    BY <1>1, <1>2
  <2>2. c < i => i \in c + 1 .. Len(stores')
    BY <1>1, <1>2
  <2> QED  BY <1>1, <1>2, <2>1, <2>2
<1> QED  BY <1>3 DEF Latest

(* What a thread finds in a pointer of a node that is linked in its view:  *)
(* the node that comes next at one moment, not earlier than its view, to   *)
(* which the load brings the view; and that node is written.               *)
LEMMA LoadIsExact ==
  ASSUME TypeInv, ListInv, NEW l \in Levels, NEW v \in Moments,
         NEW x \in LinkedAt(l, v) \cup {head}, NEW i \in Readable(NextLoc(x, l), v)
  PROVE  /\ Acquired(v, i) \in Moments /\ v <= Acquired(v, i)
         /\ Follows(x, Value(i), LinkedAt(l, Acquired(v, i)))
         /\ Value(i) \in LinkedAt(l, Acquired(v, i)) \cup {Null}
         /\ Value(i) # Garbage
         /\ Value(i) # Null => 0 \notin Readable(EntryLoc(Value(i)), Acquired(v, i))
<1>0. Len(stores) \in Nat /\ v \in Nat /\ v <= Len(stores) /\ v \in 1 .. Len(stores)
      /\ MaxHeight \in Nat /\ MaxHeight + 1 <= v
  BY SkipListAssumption DEF TypeInv, Moments
<1>1. ListAt(l, v)
  BY DEF ListInv
<1>2. PICK k \in 1 .. v :
        IsLast(k, NextLoc(x, l), v) /\ Follows(x, stores[k].val, LinkedAt(l, v))
  BY <1>1 DEF ListAt, SortedAt
<1>3. k \in 1 .. Len(stores) /\ stores[k].loc = NextLoc(x, l) /\ k <= v
  BY <1>0, <1>2 DEF IsLast
<1>4. i \in 1 .. Len(stores) /\ stores[i].loc = NextLoc(x, l) /\ i >= k
  BY <1>0, <1>3 DEF Readable
<1>5. Value(i) = stores[i].val
  BY <1>4 DEF Value
<1>6. PICK w : w = Acquired(v, i)
  OBVIOUS
<1>7. /\ w \in Moments /\ v <= w /\ w \in Nat
      /\ Follows(x, stores[i].val, LinkedAt(l, w))
  <2>1. CASE i <= v
    <3>1. i = k
      <4>1. i # k => i \in k + 1 .. v
        BY <1>0, <1>3, <1>4, <2>1
      <4> QED  BY <1>2, <1>4, <4>1 DEF IsLast
    <3>2. w = v
      BY <1>0, <1>4, <1>6, <2>1 DEF Acquired
    <3> QED  BY <1>0, <1>2, <3>1, <3>2
  <2>2. CASE i > v
    <3>1. k \in 1 .. i - 1
      BY <1>0, <1>3, <1>4, <2>2
    <3>2. stores[i].rel
      BY <1>3, <1>4, <3>1 DEF ListInv, Barriers
    <3>3. w = i
      BY <1>6, <2>2, <3>2 DEF Acquired
    <3>4. i \in Moments /\ i \in Nat /\ v <= i
      BY <1>0, <1>4, <2>2 DEF Moments
    <3>5. ListAt(l, i)
      BY <3>4 DEF ListInv
    <3>6. x \in LinkedAt(l, i) \cup {head}
      BY <1>0, <3>4, LinkedGrows
    <3>7. PICK j \in 1 .. i :
            IsLast(j, NextLoc(x, l), i) /\ Follows(x, stores[j].val, LinkedAt(l, i))
      BY <3>5, <3>6 DEF ListAt, SortedAt
    <3>8. IsLast(i, NextLoc(x, l), i)
      BY <1>4, <3>4 DEF IsLast
    <3>9. j = i
      BY <3>4, <3>7, <3>8, LastUnique
    <3> QED  BY <3>3, <3>4, <3>7, <3>9
  <2> QED  BY <1>0, <1>4, <2>1, <2>2
<1>8. Value(i) \in LinkedAt(l, w) \cup {Null} /\ Follows(x, Value(i), LinkedAt(l, w))
  BY <1>5, <1>7 DEF Follows
<1>9. ListAt(l, w)
  BY <1>7 DEF ListInv
<1>10. Value(i) # Garbage
  BY <1>8, <1>9, KeyOrder DEF ListAt
<1>11. ASSUME Value(i) # Null PROVE 0 \notin Readable(EntryLoc(Value(i)), w)
  <2>1. PICK j \in 1 .. w : stores[j].loc = EntryLoc(Value(i))
    BY <1>8, <1>9, <1>11 DEF ListAt
  <2>2. j \in 1 .. Len(stores) /\ j <= w /\ j # 0
    BY <1>0, <1>7 DEF Moments
  <2>3. 0 \notin 1 .. Len(stores)
    BY <1>0
  <2> QED  BY <2>1, <2>2, <2>3 DEF Readable
<1> QED  BY <1>6, <1>7, <1>8, <1>10, <1>11

-----------------------------------------------------------------------------
(* The writer's stores.                                                    *)

(* The history is only extended.                                           *)
Grown ==
  /\ stores' \in Seq(AnyStore) /\ Len(stores) <= Len(stores')
  /\ \A i \in 1 .. Len(stores) : stores'[i] = stores[i]

(* The list of every earlier moment is as it was.                          *)
LEMMA GrownKeeps ==
  ASSUME TypeInv, ListInv, Grown, NEW n \in Moments
  PROVE  /\ n \in Moments' /\ n \in Nat /\ n <= Len(stores)
         /\ \A l : LinkedAt(l, n)' = LinkedAt(l, n)
         /\ \A l \in Levels : ListAt(l, n) /\ ListAt(l, n)'
<1>1. n \in Nat /\ n <= Len(stores) /\ n \in Moments' /\ 1 .. n \subseteq 1 .. Len(stores)
  BY SkipListAssumption DEF TypeInv, Grown, Moments
<1>2. \A i \in 1 .. n : stores'[i] = stores[i]
  BY <1>1 DEF Grown
<1>3. \A l \in Levels : ListAt(l, n)
  BY DEF ListInv
<1>4. \A l : LinkedAt(l, n)' = LinkedAt(l, n) /\ (ListAt(l, n) => ListAt(l, n)')
  BY <1>1, <1>2, MomentStays
<1> QED  BY <1>1, <1>3, <1>4

(* A store that links nothing new, and to no pointer of the list, leaves   *)
(* the list as it is.                                                      *)
LEMMA OtherStore ==
  ASSUME NEW n \in Nat, NEW l \in Levels, ListAt(l, n)',
         LinkedAt(l, n + 1)' = LinkedAt(l, n)',
         \A m \in Levels : LinkedAt(m, n)' \subseteq LinkedAt(m, n + 1)',
         \A x \in LinkedAt(l, n)' \cup {head} : stores'[n + 1].loc # NextLoc(x, l)
  PROVE  ListAt(l, n + 1)'
<1>1. 1 .. n \subseteq 1 .. n + 1
  OBVIOUS
<1>2. SortedAt(l, n + 1)'
  <2> SUFFICES ASSUME NEW x \in LinkedAt(l, n + 1)' \cup {head}
               PROVE  \E i \in 1 .. n + 1 :
                        /\ IsLast(i, NextLoc(x, l), n + 1)'
                        /\ Follows(x, stores'[i].val, LinkedAt(l, n + 1)')
    BY DEF SortedAt, Follows
  <2>1. x \in LinkedAt(l, n)' \cup {head} /\ LinkedAt(l, n + 1)' = LinkedAt(l, n)'
    OBVIOUS
  <2>2. PICK i \in 1 .. n :
          /\ IsLast(i, NextLoc(x, l), n)'
          /\ Follows(x, stores'[i].val, LinkedAt(l, n)')
    BY <2>1 DEF ListAt, SortedAt, Follows
  <2>3. \A j \in i + 1 .. n + 1 : j \in i + 1 .. n \/ j = n + 1
    OBVIOUS
  <2>4. IsLast(i, NextLoc(x, l), n + 1)'
    BY <1>1, <2>1, <2>2, <2>3 DEF IsLast
  <2> QED  BY <1>1, <2>1, <2>2, <2>4
<1> QED  BY <1>1, <1>2 DEF ListAt

(* Where a load of max_height_ may look.                                   *)
LEMMA HeightIs ==
  ASSUME TypeInv, ListInv
  PROVE  /\ MaxHeightNow \in 1 .. MaxHeight
         /\ \A l \in Levels : l >= MaxHeightNow => Now(l) = {}
<1>1. PICK i \in 1 .. Len(stores) :
        /\ IsLast(i, HeightLoc, Len(stores))
        /\ \A l \in Levels : l >= stores[i].val => Now(l) = {}
  BY DEF ListInv, Heights
<1>2. MaxHeightNow = stores[i].val
  BY <1>1, LatestIs DEF MaxHeightNow
<1>3. stores[i].val \in 1 .. MaxHeight
  BY <1>1 DEF ListInv, Heights, IsLast
<1> QED  BY <1>1, <1>2, <1>3

(* What max_height_ is after more stores.                                  *)
LEMMA HeightKept ==
  ASSUME TypeInv, ListInv, Grown
  PROVE  /\ (\A j \in Len(stores) + 1 .. Len(stores') : stores'[j].loc # HeightLoc) =>
              MaxHeightNow' = MaxHeightNow
         /\ (Len(stores') = Len(stores) + 1 /\ stores'[Len(stores')].loc = HeightLoc) =>
              MaxHeightNow' = stores'[Len(stores')].val
<1>0. Len(stores) \in Nat /\ Len(stores') \in Nat /\ Len(stores) <= Len(stores')
  BY DEF TypeInv, Grown
<1>1. PICK k \in 1 .. Len(stores) : IsLast(k, HeightLoc, Len(stores))
  BY DEF ListInv, Heights
<1>2. MaxHeightNow = stores[k].val /\ stores'[k] = stores[k]
  BY <1>1, LatestIs DEF MaxHeightNow, Grown
<1>3. ASSUME \A j \in Len(stores) + 1 .. Len(stores') : stores'[j].loc # HeightLoc
      PROVE  MaxHeightNow' = MaxHeightNow
  <2>1. \A j \in k + 1 .. Len(stores') :
          j \in Len(stores) + 1 .. Len(stores') \/ (j \in k + 1 .. Len(stores) /\ j \in 1 .. Len(stores))
    BY <1>0
  <2>2. k \in 1 .. Len(stores')
    BY <1>0
  <2>3. IsLast(k, HeightLoc, Len(stores))'
    BY <1>1, <1>2, <1>3, <2>1, <2>2 DEF IsLast, Grown
  <2> QED  BY <1>0, <1>2, <2>3, LatestIsNext DEF MaxHeightNow
<1>4. ASSUME Len(stores') = Len(stores) + 1, stores'[Len(stores')].loc = HeightLoc
      PROVE  MaxHeightNow' = stores'[Len(stores')].val
  <2>1. IsLast(Len(stores), HeightLoc, Len(stores))'
    BY <1>0, <1>4 DEF IsLast
  <2> QED  BY <1>0, <2>1, LatestIsNext DEF MaxHeightNow
<1> QED  BY <1>3, <1>4

(* A store to something other than a pointer, and what it leaves.          *)
Plain(s) ==
  /\ s \in AnyStore /\ s.loc[2] \notin Levels
  /\ s.loc = HeightLoc => s.val \in 1 .. MaxHeight /\ MaxHeightNow < s.val
  /\ stores' = Append(stores, s)

PlainDone(s) ==
  /\ ListInv' /\ Grown
  /\ Len(stores') = Len(stores) + 1 /\ stores'[Len(stores) + 1] = s
  /\ \A l \in Levels : Now(l)' = Now(l)
  /\ MaxHeightNow' = IF s.loc = HeightLoc THEN s.val ELSE MaxHeightNow

(* Such a store leaves every list as it is.                                *)
LEMMA PlainStore ==
  ASSUME TypeInv, ListInv, NEW s, Plain(s)
  PROVE  PlainDone(s)
<1> PICK N : N = Len(stores)
  OBVIOUS
<1>0. N \in Nat /\ MaxHeight \in Nat /\ stores \in Seq(AnyStore) /\ N >= MaxHeight + 1
  BY SkipListAssumption DEF TypeInv, ListInv
<1>1. /\ stores' \in Seq(AnyStore) /\ Len(stores') = N + 1 /\ stores'[N + 1] = s
      /\ \A i \in 1 .. N : stores'[i] = stores[i]
  BY <1>0 DEF Plain
<1>2. Grown
  BY <1>0, <1>1 DEF Grown
<1>3. ASSUME NEW l \in Levels PROVE LinkedAt(l, N + 1)' = LinkedAt(l, N)'
  <2>1. stores'[N + 1].loc[2] # l
    BY <1>1 DEF Plain
  <2> QED  BY <1>0, <2>1, LinkedNext
<1>4. N \in Moments /\ \A n \in Moments' : n \in Moments \/ n = N + 1
  BY <1>0, <1>1 DEF Moments
<1>5. \A l : LinkedAt(l, N)' = LinkedAt(l, N)
  BY <1>2, <1>4, GrownKeeps
<1>6. \A l \in Levels : Now(l)' = Now(l)
  BY <1>1, <1>3, <1>5 DEF Now
<1>7. \A x : \A l \in Levels : s.loc # NextLoc(x, l)
  BY Locations DEF Plain
<1>8. \A n \in Moments' : \A l \in Levels : ListAt(l, n)'
  <2>1. ASSUME NEW n \in Moments, NEW l \in Levels PROVE ListAt(l, n)'
    BY <1>2, GrownKeeps
  <2>2. ASSUME NEW l \in Levels PROVE ListAt(l, N + 1)'
    BY <1>0, <1>1, <1>3, <1>4, <1>7, <2>1, OtherStore
  <2> QED  BY <1>4, <2>1, <2>2
<1>9. \A i \in 1 .. N + 1 : i \in 1 .. N \/ i = N + 1
  BY <1>0
<1>10. \A i \in 1 .. Len(stores') : \A x : \A l \in Levels :
         stores'[i].loc = NextLoc(x, l) =>
           i \in 1 .. N /\ stores[i].loc = NextLoc(x, l)
  BY <1>1, <1>7, <1>9
<1>11. \A i \in 1 .. Len(stores') : \A x : \A l \in Levels :
         stores'[i].loc = NextLoc(x, l) => x \in Now(l)' \cup {head}
  BY <1>6, <1>10 DEF ListInv
<1>12. Barriers'
  <2> SUFFICES ASSUME NEW i \in 1 .. Len(stores'), NEW x, NEW l \in Levels,
                      stores'[i].loc = NextLoc(x, l), ~stores'[i].rel
               PROVE  \A j \in 1 .. i - 1 : stores'[j].loc # NextLoc(x, l)
    BY DEF Barriers
  <2>1. i \in 1 .. N /\ stores[i].loc = NextLoc(x, l) /\ ~stores[i].rel
    BY <1>1, <1>10
  <2>2. \A j \in 1 .. i - 1 : j \in 1 .. N /\ stores[j].loc # NextLoc(x, l)
    BY <1>0, <2>1 DEF ListInv, Barriers
  <2> QED  BY <1>1, <2>2
<1>13. Heights'
  <2>0. 1 \in 1 .. N /\ N + 1 \in 1 .. N + 1
    BY <1>0
  <2>1. stores'[1].loc = HeightLoc
    BY <1>1, <2>0 DEF ListInv, Heights
  <2>2. \A i \in 1 .. N + 1 : stores'[i].loc = HeightLoc => stores'[i].val \in 1 .. MaxHeight
    BY <1>1, <1>9 DEF ListInv, Heights, Plain
  <2>3. PICK k \in 1 .. N :
          /\ IsLast(k, HeightLoc, N)
          /\ \A l \in Levels : l >= stores[k].val => Now(l) = {}
    BY DEF ListInv, Heights
  <2>4. CASE s.loc = HeightLoc
    <3>1. IsLast(N + 1, HeightLoc, N + 1)'
      BY <1>0, <1>1, <2>0, <2>4 DEF IsLast
    <3>2. stores'[N + 1].val \in 1 .. MaxHeight /\ MaxHeightNow < stores'[N + 1].val
      BY <1>1, <2>4 DEF Plain
    <3>3. \A l \in Levels : l >= stores'[N + 1].val => l >= MaxHeightNow
      BY <1>0, <3>2, HeightIs, Locations
    <3>4. \A l \in Levels : l >= stores'[N + 1].val => Now(l)' = {}
      BY <1>6, <3>3, HeightIs
    <3> QED  BY <1>1, <2>0, <2>1, <2>2, <3>1, <3>4 DEF Heights
  <2>5. CASE s.loc # HeightLoc
    <3>1. \A j \in k + 1 .. N + 1 : j \in k + 1 .. N \/ j = N + 1
      BY <1>0
    <3>2. k \in 1 .. N + 1 /\ \A j \in k + 1 .. N : j \in 1 .. N
      BY <1>0, <2>3
    <3>3. IsLast(k, HeightLoc, N + 1)'
      BY <1>1, <2>3, <2>5, <3>1, <3>2 DEF IsLast
    <3>4. \A l \in Levels : l >= stores'[k].val => Now(l)' = {}
      BY <1>1, <1>6, <2>3
    <3> QED  BY <1>1, <2>1, <2>2, <3>2, <3>3, <3>4 DEF Heights
  <2> QED  BY <2>4, <2>5
<1>14. Len(stores') >= MaxHeight + 1
  BY <1>0, <1>1
<1>15. MaxHeightNow' = IF s.loc = HeightLoc THEN s.val ELSE MaxHeightNow
  BY <1>0, <1>1, <1>2, HeightKept
<1> QED  BY <1>1, <1>2, <1>6, <1>8, <1>11, <1>12, <1>13, <1>14, <1>15 DEF ListInv, PlainDone

(* The two stores of Link: x is put behind p at level i, and what that     *)
(* leaves.                                                                 *)
Linking(i, x, p, y) ==
  /\ i \in Levels /\ i < MaxHeightNow
  /\ x \in Node /\ x \notin Now(i) /\ \A m \in Levels : m < i => x \in Now(m)
  /\ \E k \in 1 .. Len(stores) : stores[k].loc = EntryLoc(x)
  /\ p \in Now(i) \cup {head} /\ Before(p, x)
  /\ \A m \in Now(i) : Before(p, m) => Before(x, m)
  /\ y = Latest(NextLoc(p, i))
  /\ stores' = stores \o <<NoBarrier_SetNext(x, i, y), SetNext(p, i, x)>>

LinkDone(i, x) ==
  /\ ListInv' /\ Grown
  /\ Len(stores') = Len(stores) + 2
  /\ \A j \in Len(stores) + 1 .. Len(stores') : stores'[j].loc[2] = i
  /\ \A l \in Levels : Now(l)' = IF l = i THEN Now(l) \cup {x} ELSE Now(l)
  /\ MaxHeightNow' = MaxHeightNow

(* The new node is on the list, and every moment of that is a list.        *)
LEMMA LinkStores ==
  ASSUME TypeInv, ListInv, NEW i, NEW x, NEW p, NEW y, Linking(i, x, p, y)
  PROVE  LinkDone(i, x)
<1> PICK N : N = Len(stores)
  OBVIOUS
<1> PICK S : S = LinkedAt(i, N)
  OBVIOUS
<1>0. N \in Nat /\ MaxHeight \in Nat /\ stores \in Seq(AnyStore) /\ N >= MaxHeight + 1
  BY SkipListAssumption DEF TypeInv, ListInv
<1>1. /\ i \in Levels /\ i \in Nat /\ x \in Node /\ x \notin S
      /\ \A m \in Levels : m < i => x \in LinkedAt(m, N)
      /\ p \in S \cup {head} /\ Before(p, x)
      /\ \A m \in S : Before(p, m) => Before(x, m)
  BY Locations DEF Linking, Now
<1>2. N \in Moments /\ \A l \in Levels : ListAt(l, N)
  BY <1>0 DEF ListInv, Moments
<1>3. S \subseteq Node /\ p \in Key /\ x \in Key /\ S \subseteq Key /\ p # x /\ x # head /\ x # Null
      /\ head \notin S /\ p \in Node \cup {head}
  BY <1>1, <1>2, KeyOrder DEF ListAt
<1>4. y \in S \cup {Null} /\ Follows(p, y, S)
  <2>1. PICK k \in 1 .. N : IsLast(k, NextLoc(p, i), N) /\ Follows(p, stores[k].val, S)
    BY <1>1, <1>2 DEF ListAt, SortedAt
  <2>2. y = stores[k].val
    BY <2>1, LatestIs DEF Linking
  <2> QED  BY <2>1, <2>2 DEF Follows
<1>5. /\ stores' \in Seq(AnyStore) /\ Len(stores') = N + 2
      /\ stores'[N + 1] = [loc |-> NextLoc(x, i), val |-> y, rel |-> FALSE]
      /\ stores'[N + 2] = [loc |-> NextLoc(p, i), val |-> x, rel |-> TRUE]
      /\ \A j \in 1 .. N : stores'[j] = stores[j]
  <2>1. PICK a : a = NoBarrier_SetNext(x, i, y)
    OBVIOUS
  <2>2. PICK b : b = SetNext(p, i, x)
    OBVIOUS
  <2>3. a = [loc |-> NextLoc(x, i), val |-> y, rel |-> FALSE]
    BY <2>1 DEF NoBarrier_SetNext, Store
  <2>4. b = [loc |-> NextLoc(p, i), val |-> x, rel |-> TRUE]
    BY <2>2 DEF SetNext, Store
  <2>5. a \in AnyStore /\ b \in AnyStore
    <3>1. NextLoc(x, i) \in (Node \cup {head}) \X Int /\ NextLoc(p, i) \in (Node \cup {head}) \X Int
      BY <1>1, <1>3 DEF NextLoc
    <3>2. y \in Node \cup {Null} \cup Nat \cup BOOLEAN /\ x \in Node \cup {Null} \cup Nat \cup BOOLEAN
      BY <1>1, <1>3, <1>4
    <3> QED  BY <2>3, <2>4, <3>1, <3>2 DEF AnyStore
  <2>6. stores' = stores \o <<a, b>>
    BY <2>1, <2>2 DEF Linking
  <2>7. /\ <<a, b>> \in Seq(AnyStore) /\ Len(<<a, b>>) = 2
        /\ <<a, b>>[1] = a /\ <<a, b>>[2] = b
    BY <2>5
  <2>8. PICK q : q = <<a, b>>
    OBVIOUS
  <2>9. stores' = stores \o q /\ q \in Seq(AnyStore) /\ Len(q) = 2 /\ q[1] = a /\ q[2] = b
    BY <2>6, <2>7, <2>8
  <2>10. /\ stores' \in Seq(AnyStore) /\ Len(stores') = N + 2
         /\ stores'[N + 1] = a /\ stores'[N + 2] = b
         /\ \A j \in 1 .. N : stores'[j] = stores[j]
    <3>1. /\ stores \o q \in Seq(AnyStore) /\ Len(stores \o q) = N + 2
          /\ \A j \in 1 .. N + 2 :
               (stores \o q)[j] = IF j <= N THEN stores[j] ELSE q[j - N]
      <4>1. stores \in Seq(AnyStore) /\ q \in Seq(AnyStore) /\ Len(stores) + Len(q) = N + 2
        BY <1>0, <2>9
      <4>2. /\ stores \o q \in Seq(AnyStore)
            /\ Len(stores \o q) = Len(stores) + Len(q)
            /\ \A j \in 1 .. Len(stores) + Len(q) : (stores \o q)[j] =
                 IF j <= Len(stores) THEN stores[j] ELSE q[j - Len(stores)]
        BY <4>1, ConcatProperties, Zenon
      <4> QED  BY <4>1, <4>2, Zenon
    <3>2. N + 1 \in 1 .. N + 2 /\ N + 2 \in 1 .. N + 2 /\ (N + 1) - N = 1 /\ (N + 2) - N = 2
          /\ ~(N + 1 <= N) /\ ~(N + 2 <= N) /\ \A j \in 1 .. N : j \in 1 .. N + 2 /\ j <= N
      BY <1>0
    <3> QED  BY <2>9, <3>1, <3>2
  <2> QED  BY <2>3, <2>4, <2>10
<1>6. Grown
  BY <1>0, <1>5 DEF Grown
<1>7. /\ stores'[N + 1].loc = NextLoc(x, i) /\ stores'[N + 1].val = y
      /\ stores'[N + 2].loc = NextLoc(p, i) /\ stores'[N + 2].val = x /\ stores'[N + 2].rel
      /\ stores'[N + 1].loc[2] = i /\ stores'[N + 2].loc[2] = i
  BY <1>5, Locations
<1>8. \A l : LinkedAt(l, N)' = LinkedAt(l, N)
  BY <1>2, <1>6, GrownKeeps
<1>9. \A l : LinkedAt(l, N + 1)' = LinkedAt(l, N)
  <2> TAKE l
  <2>1. /\ i # l => LinkedAt(l, N + 1)' = LinkedAt(l, N)'
        /\ i = l => LinkedAt(l, N + 1)' = LinkedAt(l, N)' \cup ({y} \ {Null})
    <3>1. /\ stores'[N + 1].loc[2] # l => LinkedAt(l, N + 1)' = LinkedAt(l, N)'
          /\ stores'[N + 1].loc[2] = l =>
               LinkedAt(l, N + 1)' = LinkedAt(l, N)' \cup ({stores'[N + 1].val} \ {Null})
      BY <1>0, LinkedNext, Zenon
    <3> QED  BY <1>7, <3>1, Zenon
  <2> QED  BY <1>4, <1>8, <2>1
<1>10. \A l : LinkedAt(l, N + 2)' = IF l = i THEN LinkedAt(l, N) \cup {x} ELSE LinkedAt(l, N)
  <2> TAKE l
  <2>1. N + 1 \in Nat /\ (N + 1) + 1 = N + 2
    BY <1>0
  <2>2. /\ i # l => LinkedAt(l, N + 2)' = LinkedAt(l, N + 1)'
        /\ i = l => LinkedAt(l, N + 2)' = LinkedAt(l, N + 1)' \cup ({x} \ {Null})
    <3>1. PICK k : k = N + 1
      OBVIOUS
    <3>2. /\ stores'[k + 1].loc[2] # l => LinkedAt(l, k + 1)' = LinkedAt(l, k)'
          /\ stores'[k + 1].loc[2] = l =>
               LinkedAt(l, k + 1)' = LinkedAt(l, k)' \cup ({stores'[k + 1].val} \ {Null})
      BY <2>1, <3>1, LinkedNext, Zenon
    <3> QED  BY <1>7, <2>1, <3>1, <3>2, Zenon
  <2> QED  BY <1>3, <1>9, <2>2
<1>11. \A l \in Levels : ListAt(l, N + 1)'
  <2> TAKE l \in Levels
  <2>1. ListAt(l, N)'
    BY <1>2, <1>6, GrownKeeps
  <2>2. \A z \in LinkedAt(l, N)' \cup {head} : stores'[N + 1].loc # NextLoc(z, l)
    BY <1>1, <1>3, <1>7, <1>8, Locations
  <2> QED  BY <1>0, <1>8, <1>9, <2>1, <2>2, OtherStore
<1> DEFINE T == S \cup {x}
<1>12. LinkedAt(i, N + 2)' = T
  BY <1>10
<1>13. SortedAt(i, N + 2)'
  <2> SUFFICES ASSUME NEW z \in T \cup {head}
               PROVE  \E j \in 1 .. N + 2 :
                        /\ IsLast(j, NextLoc(z, i), N + 2)'
                        /\ Follows(z, stores'[j].val, T)
    BY <1>12 DEF SortedAt, Follows
  <2>0. z \in Key /\ N + 1 \in 1 .. N + 2 /\ N + 2 \in 1 .. N + 2
    BY <1>0, <1>3, KeyOrder
  <2>1. CASE z = x
    <3>1. IsLast(N + 1, NextLoc(x, i), N + 2)'
      <4>1. \A j \in (N + 1) + 1 .. N + 2 : j = N + 2
        BY <1>0
      <4> QED  BY <1>3, <1>7, <2>0, <4>1, Locations DEF IsLast
    <3>2. ASSUME NEW m \in T, Before(x, m) PROVE y # Null /\ (m = y \/ Before(y, m))
      <4>1. m \in S /\ Before(p, m)
        BY <1>1, <1>3, <3>2, KeyOrder
      <4> QED  BY <1>4, <4>1 DEF Follows
    <3>3. y # Null => y \in T /\ Before(x, y)
      BY <1>1, <1>4 DEF Follows
    <3>4. Follows(x, y, T)
      BY <3>2, <3>3 DEF Follows
    <3> QED  BY <1>7, <2>0, <2>1, <3>1, <3>4
  <2>2. CASE z = p
    <3>1. IsLast(N + 2, NextLoc(p, i), N + 2)'
      BY <1>0, <1>7, <2>0 DEF IsLast
    <3>2. Follows(p, x, T)
      BY <1>1, <1>3 DEF Follows
    <3> QED  BY <1>7, <2>0, <2>2, <3>1, <3>2
  <2>3. CASE z # x /\ z # p
    <3>1. PICK j \in 1 .. N : IsLast(j, NextLoc(z, i), N) /\ Follows(z, stores[j].val, S)
      BY <1>1, <1>2, <2>3 DEF ListAt, SortedAt
    <3>2. j \in 1 .. N + 2 /\ stores'[j] = stores[j]
      BY <1>0, <1>5
    <3>3. \A m \in j + 1 .. N + 2 : (m \in j + 1 .. N /\ m \in 1 .. N) \/ m = N + 1 \/ m = N + 2
      BY <1>0
    <3>4. IsLast(j, NextLoc(z, i), N + 2)'
      <4>1. stores'[N + 1].loc # NextLoc(z, i) /\ stores'[N + 2].loc # NextLoc(z, i)
        BY <1>7, <2>3, Locations
      <4> QED  BY <1>5, <3>1, <3>2, <3>3, <4>1 DEF IsLast
    <3>5. PICK v : v = stores[j].val
      OBVIOUS
    <3>6. Follows(z, v, S)
      BY <3>1, <3>5
    <3>7. v # Null => v \in S /\ v \in Key /\ Before(z, v)
      BY <1>3, <3>6 DEF Follows
    <3>8. ASSUME Before(z, x) PROVE v # Null /\ (x = v \/ Before(v, x))
      <4>1. ~Before(p, z)
        <5>1. ASSUME Before(p, z) PROVE FALSE
          <6>1. z # head
            BY <1>3, <2>0, <2>3, <5>1, KeyOrder
          <6>2. z \in S
            BY <2>3, <6>1
          <6>3. Before(x, z)
            BY <1>1, <5>1, <6>2
          <6> QED  BY <1>3, <2>0, <3>8, <6>3, KeyOrder
        <5> QED  BY <5>1
      <4>2. Before(z, p)
        BY <1>3, <2>0, <2>3, <4>1, KeyOrder
      <4>3. p # head
        BY <1>3, <2>0, <2>3, <4>2, KeyOrder
      <4>4. p \in S
        BY <1>1, <4>3
      <4>5. v # Null /\ (p = v \/ Before(v, p))
        BY <3>6, <4>2, <4>4 DEF Follows
      <4> QED  BY <1>1, <1>3, <3>7, <4>5, KeyOrder
    <3>9. Follows(z, v, T)
      BY <3>6, <3>7, <3>8 DEF Follows
    <3> QED  BY <3>2, <3>4, <3>5, <3>9
  <2> QED  BY <2>1, <2>2, <2>3
<1>14. ListAt(i, N + 2)'
  <2>1. T \subseteq Node
    BY <1>1, <1>3
  <2>2. \A m \in Levels : m <= i => T \subseteq LinkedAt(m, N + 2)'
    <3> SUFFICES ASSUME NEW m \in Levels, m <= i PROVE T \subseteq LinkedAt(m, N + 2)'
      OBVIOUS
    <3>1. S \subseteq LinkedAt(m, N)
      BY <1>1, <1>2 DEF ListAt
    <3>2. m = i \/ m < i
      BY <1>1, Locations
    <3>3. m < i => x \in LinkedAt(m, N)
      BY <1>1
    <3>4. LinkedAt(m, N) \subseteq LinkedAt(m, N + 2)'
      BY <1>10
    <3> QED  BY <1>12, <3>1, <3>2, <3>3, <3>4
  <2>3. \A z \in T : \E j \in 1 .. N + 2 : stores'[j].loc = EntryLoc(z)
    <3>1. \A z \in T : \E j \in 1 .. N : stores[j].loc = EntryLoc(z)
      BY <1>1, <1>2 DEF ListAt, Linking
    <3>2. 1 .. N \subseteq 1 .. N + 2
      BY <1>0
    <3> QED  BY <1>5, <3>1, <3>2
  <2> QED  BY <1>12, <1>13, <2>1, <2>2, <2>3 DEF ListAt
<1>15. ASSUME NEW l \in Levels, l # i PROVE ListAt(l, N + 2)'
  <2>1. N + 1 \in Nat /\ (N + 1) + 1 = N + 2
    BY <1>0
  <2>2. \A z : stores'[N + 2].loc # NextLoc(z, l)
    BY <1>7, <1>15, Locations
  <2>3. LinkedAt(l, N + 2)' = LinkedAt(l, N + 1)'
    BY <1>9, <1>10, <1>15
  <2>4. \A m \in Levels : LinkedAt(m, N + 1)' \subseteq LinkedAt(m, N + 2)'
    BY <1>9, <1>10
  <2> QED  BY <1>11, <2>1, <2>2, <2>3, <2>4, OtherStore
<1>16. \A n \in Moments' : \A l \in Levels : ListAt(l, n)'
  <2>1. \A n \in Moments' : n \in Moments \/ n = N + 1 \/ n = N + 2
    BY <1>0, <1>5, SMTT(20) DEF Moments
  <2>2. ASSUME NEW n \in Moments, NEW l \in Levels PROVE ListAt(l, n)'
    BY <1>6, GrownKeeps
  <2> QED  BY <1>11, <1>14, <1>15, <2>1, <2>2
<1>17. \A l \in Levels : Now(l)' = IF l = i THEN Now(l) \cup {x} ELSE Now(l)
  BY <1>5, <1>10 DEF Now
<1>18. \A j \in 1 .. N + 2 : j \in 1 .. N \/ j = N + 1 \/ j = N + 2
  BY <1>0
<1>19. \A j \in 1 .. Len(stores') : \A z : \A l \in Levels :
         stores'[j].loc = NextLoc(z, l) => z \in Now(l)' \cup {head}
  <2> SUFFICES ASSUME NEW j \in 1 .. N + 2, NEW z, NEW l \in Levels,
                      stores'[j].loc = NextLoc(z, l)
               PROVE  z \in Now(l)' \cup {head}
    BY <1>5
  <2>1. CASE j \in 1 .. N
    <3>1. stores[j].loc = NextLoc(z, l)
      BY <1>5, <2>1
    <3>2. z \in Now(l) \cup {head}
      BY <2>1, <3>1 DEF ListInv
    <3> QED  BY <1>17, <3>2
  <2>2. CASE j = N + 1
    BY <1>7, <1>17, <2>2, Locations
  <2>3. CASE j = N + 2
    <3>1. z = p /\ l = i
      BY <1>7, <2>3, Locations
    <3> QED  BY <1>17, <3>1 DEF Linking
  <2> QED  BY <1>18, <2>1, <2>2, <2>3
<1>20. Barriers'
  <2> SUFFICES ASSUME NEW k \in 1 .. N + 2, NEW z, NEW l \in Levels,
                      stores'[k].loc = NextLoc(z, l), ~stores'[k].rel
               PROVE  \A j \in 1 .. k - 1 : stores'[j].loc # NextLoc(z, l)
    BY <1>5 DEF Barriers
  <2>1. CASE k \in 1 .. N
    <3>1. stores[k].loc = NextLoc(z, l) /\ ~stores[k].rel
      BY <1>5, <2>1
    <3>2. \A j \in 1 .. k - 1 : j \in 1 .. N /\ stores[j].loc # NextLoc(z, l)
      BY <1>0, <2>1, <3>1 DEF ListInv, Barriers
    <3> QED  BY <1>5, <3>2
  <2>2. CASE k = N + 1
    <3>1. z = x /\ l = i
      BY <1>7, <2>2, Locations
    <3>2. \A j \in 1 .. k - 1 : j \in 1 .. N
      BY <1>0, <2>2
    <3>3. \A j \in 1 .. N : stores[j].loc # NextLoc(x, i)
      BY <1>1, <1>3 DEF ListInv, Now
    <3> QED  BY <1>5, <3>1, <3>2, <3>3
  <2>3. CASE k = N + 2
    BY <1>7, <2>3
  <2> QED  BY <1>18, <2>1, <2>2, <2>3
<1>21. stores'[N + 1].loc # HeightLoc /\ stores'[N + 2].loc # HeightLoc
  BY <1>1, <1>7, Locations
<1>22. MaxHeightNow' = MaxHeightNow
  <2>1. \A j \in N + 1 .. N + 2 : j = N + 1 \/ j = N + 2
    BY <1>0
  <2> QED  BY <1>5, <1>6, <1>21, <2>1, HeightKept
<1>23. Heights'
  <2>1. stores'[1].loc = HeightLoc
    <3>1. 1 \in 1 .. N
      BY <1>0
    <3> QED  BY <1>5, <3>1 DEF ListInv, Heights
  <2>2. \A j \in 1 .. N + 2 : stores'[j].loc = HeightLoc => stores'[j].val \in 1 .. MaxHeight
    BY <1>5, <1>18, <1>21 DEF ListInv, Heights
  <2>3. PICK k \in 1 .. N :
          /\ IsLast(k, HeightLoc, N)
          /\ \A l \in Levels : l >= stores[k].val => Now(l) = {}
    BY DEF ListInv, Heights
  <2>4. \A j \in k + 1 .. N + 2 : (j \in k + 1 .. N /\ j \in 1 .. N) \/ j = N + 1 \/ j = N + 2
    BY <1>0
  <2>5. k \in 1 .. N + 2 /\ stores'[k] = stores[k]
    BY <1>0, <1>5
  <2>6. IsLast(k, HeightLoc, N + 2)'
    BY <1>5, <1>21, <2>3, <2>4, <2>5 DEF IsLast
  <2>7. MaxHeightNow = stores[k].val
    BY <2>3, LatestIs DEF MaxHeightNow
  <2>8. \A l \in Levels : l >= stores[k].val => l # i
    BY <1>1, <2>7, HeightIs, Locations DEF Linking
  <2>9. \A l \in Levels : l >= stores'[k].val => Now(l)' = {}
    BY <1>17, <2>3, <2>5, <2>8
  <2> QED  BY <1>5, <2>1, <2>2, <2>5, <2>6, <2>9 DEF Heights
<1>24. \A j \in Len(stores) + 1 .. Len(stores') : stores'[j].loc[2] = i
  <2>1. \A j \in N + 1 .. N + 2 : j = N + 1 \/ j = N + 2
    BY <1>0
  <2> QED  BY <1>5, <1>7, <2>1
<1>25. Len(stores') >= MaxHeight + 1
  BY <1>0, <1>5
<1>26. ListInv'
  BY <1>16, <1>19, <1>20, <1>23, <1>25 DEF ListInv
<1> QED  BY <1>5, <1>6, <1>17, <1>22, <1>24, <1>26 DEF LinkDone

-----------------------------------------------------------------------------
(* What a step leaves alone.                                               *)

Kept ==
  /\ ListInv' /\ Grown /\ MaxHeightNow' = MaxHeightNow
  /\ Moments' = Moments /\ Len(stores') = Len(stores)
  /\ \A l, n : LinkedAt(l, n)' = LinkedAt(l, n)
  /\ \A l : Now(l)' = Now(l)
  /\ \A s, n : EntriesLinked(s, n)' = EntriesLinked(s, n)

(* A step without stores leaves every list.                                *)
LEMMA StoresKept ==
  ASSUME TypeInv, ListInv, stores' = stores
  PROVE  Kept
<1>1. Grown
  BY DEF TypeInv, Grown
<1>2. Moments' = Moments /\ \A l, n : LinkedAt(l, n)' = LinkedAt(l, n)
  BY DEF Moments, LinkedAt
<1>3. \A l : Now(l)' = Now(l)
  BY <1>2 DEF Now
<1>4. \A s, n : EntriesLinked(s, n)' = EntriesLinked(s, n)
  BY <1>2 DEF EntriesLinked
<1>5. Barriers' = Barriers
  BY DEF Barriers
<1>6. \A i, loc, n : IsLast(i, loc, n)' = IsLast(i, loc, n)
  BY DEF IsLast
<1>7. Heights'
  BY <1>3, <1>6 DEF Heights, ListInv
<1>8. \A n \in Moments' : \A l \in Levels : ListAt(l, n)'
  BY <1>1, <1>2, GrownKeeps
<1>9. ListInv'
  BY <1>3, <1>5, <1>7, <1>8 DEF ListInv
<1>10. MaxHeightNow' = MaxHeightNow
  BY DEF MaxHeightNow, Latest
<1> QED  BY <1>1, <1>2, <1>3, <1>4, <1>9, <1>10 DEF Kept

(* Thread t takes no part in the step.                                     *)
Same(t) ==
  /\ pc'[t] = pc[t] /\ op'[t] = op[t] /\ node'[t] = node[t]
  /\ level'[t] = level[t] /\ view'[t] = view[t]

(* What a thread has found stays on the list of its view.                  *)
LEMMA ThreadFrame ==
  ASSUME TypeInv, ListInv, Grown, NEW t, Same(t), ThreadOK(t)
  PROVE  /\ ThreadOK(t)'
         /\ ReaderOK(t) => ReaderOK(t)'
<1>1. view[t] \in Moments
  BY DEF ThreadOK
<1>2. PICK v : v = view[t]
  OBVIOUS
<1>3. v = view'[t] /\ v \in Moments' /\ \A l : LinkedAt(l, v)' = LinkedAt(l, v)
  BY <1>1, <1>2, GrownKeeps DEF Same
<1>4. ThreadOK(t)'
  BY <1>2, <1>3 DEF ThreadOK, Same
<1>5. ReaderOK(t) => ReaderOK(t)'
  BY <1>2, <1>3 DEF ReaderOK, Same, Answers
<1> QED  BY <1>4, <1>5

(* No new entry has a published sequence.                                  *)
NewEntries ==
  \A i \in Len(stores) + 1 .. Len(stores') : \A m :
    stores'[i].loc = EntryLoc(m) => ~(m[2] <= published.sequence)

(* What was published stays in the lists that held it.                     *)
LEMMA EntriesFrame ==
  ASSUME TypeInv, ListInv, Grown, NewEntries, published.sequence \in Nat,
         NEW s \in Nat, s <= published.sequence, NEW n \in Moments, EntriesLinked(s, n),
         \A i \in 1 .. Len(stores) : \A m : stores[i].loc = EntryLoc(m) => m[2] \in Nat,
         \A i \in 1 .. Len(stores') : \A m : stores'[i].loc = EntryLoc(m) => m[2] \in Nat
  PROVE  EntriesLinked(s, n)'
<1> SUFFICES ASSUME NEW i \in 1 .. Len(stores'), NEW m,
                    stores'[i].loc = EntryLoc(m), m[2] <= s
             PROVE  m \in LinkedAt(0, n)'
  BY DEF EntriesLinked
<1>0. Len(stores) \in Nat /\ Len(stores') \in Nat /\ m[2] \in Nat
  BY DEF TypeInv, Grown
<1>1. i \in 1 .. Len(stores)
  <2>1. i \in 1 .. Len(stores) \/ i \in Len(stores) + 1 .. Len(stores')
    BY <1>0
  <2>2. m[2] <= published.sequence
    BY <1>0
  <2> QED  BY <2>1, <2>2 DEF NewEntries
<1>2. stores[i].loc = EntryLoc(m)
  BY <1>1 DEF Grown
<1>3. m \in LinkedAt(0, n)
  BY <1>1, <1>2 DEF EntriesLinked
<1> QED  BY <1>3, GrownKeeps

-----------------------------------------------------------------------------
(* Searches.                                                               *)

(* The three ends of a turn of a search that finds next in the pointer.    *)
TurnOver(t, next) ==
  /\ MovesOver(op[t], next)
  /\ node' = [node EXCEPT ![t] = next]
  /\ pc' = pc /\ level' = level /\ prev' = prev

PrevNoted(t) ==
  prev' = IF t = Writer THEN [prev EXCEPT ![level[t]] = node[t]] ELSE prev

TurnDown(t, next) ==
  /\ ~MovesOver(op[t], next) /\ level[t] # 0
  /\ level' = [level EXCEPT ![t] = @ - 1]
  /\ node' = node /\ pc' = pc /\ PrevNoted(t)

TurnEnd(t, next) ==
  /\ ~MovesOver(op[t], next) /\ level[t] = 0
  /\ node' = [node EXCEPT ![t] = Returned(op[t], node[t], next)]
  /\ pc' = [pc EXCEPT ![t] = "done"]
  /\ level' = level /\ PrevNoted(t)

Turn(t, next, w) ==
  /\ pc[t] = "search" /\ level[t] \in Levels /\ level[t] \in Nat
  /\ w \in Moments /\ view[t] <= w /\ view' = [view EXCEPT ![t] = w]
  /\ node[t] \in LinkedAt(level[t], w) \cup {head}
  /\ Follows(node[t], next, LinkedAt(level[t], w))
  /\ next \in LinkedAt(level[t], w) \cup {Null}
  /\ TurnOver(t, next) \/ TurnDown(t, next) \/ TurnEnd(t, next)
  /\ stores' = stores /\ sequence' = sequence /\ published' = published
  /\ entry' = entry /\ height' = height /\ op' = op /\ heightSeen' = heightSeen

(* A turn of a search is a turn in the list of one moment, never earlier   *)
(* than the one before, and reads only what is written.                    *)
LEMMA SearchStepIs ==
  ASSUME TypeInv, ListInv, NEW t \in Threads, ThreadOK(t), SearchStep(t)
  PROVE  \E next, w : Turn(t, next, w)
<1>1. PICK i \in Readable(NextLoc(node[t], level[t]), view[t]) :
       LET next == Value(i)
           seen == Acquired(view[t], i)
       IN /\ view' = [view EXCEPT ![t] = seen]
          /\ \/ /\ \/ next = Garbage
                   \/ next # Null /\ 0 \in Readable(EntryLoc(next), seen)
                /\ pc' = [pc EXCEPT ![t] = "garbage"]
                /\ UNCHANGED <<node, level, prev>>
             \/ /\ next # Garbage
                /\ next = Null \/ 0 \notin Readable(EntryLoc(next), seen)
                /\ IF MovesOver(op[t], next)
                   THEN /\ node' = [node EXCEPT ![t] = next]
                        /\ UNCHANGED <<pc, level, prev>>
                   ELSE /\ prev' = IF t = Writer
                                   THEN [prev EXCEPT ![level[t]] = node[t]]
                                   ELSE prev
                        /\ IF level[t] = 0
                           THEN /\ node' = [node EXCEPT ![t] =
                                              Returned(op[t], node[t], next)]
                                /\ pc' = [pc EXCEPT ![t] = "done"]
                                /\ UNCHANGED level
                           ELSE /\ level' = [level EXCEPT ![t] = @ - 1]
                                /\ UNCHANGED <<node, pc>>
  BY DEF SearchStep
<1>2. PICK next : next = Value(i)
  OBVIOUS
<1>3. PICK w : w = Acquired(view[t], i)
  OBVIOUS
<1>4. /\ pc[t] = "search" /\ level[t] \in Levels /\ level[t] \in Nat
      /\ view[t] \in Moments /\ node[t] \in LinkedAt(level[t], view[t]) \cup {head}
  BY Locations DEF ThreadOK, SearchStep
<1>5. /\ w \in Moments /\ view[t] <= w
      /\ Follows(node[t], next, LinkedAt(level[t], w))
      /\ next \in LinkedAt(level[t], w) \cup {Null}
      /\ next # Garbage
      /\ next # Null => 0 \notin Readable(EntryLoc(next), w)
  BY <1>2, <1>3, <1>4, LoadIsExact
<1>6. node[t] \in LinkedAt(level[t], w) \cup {head}
  <2>1. view[t] \in Nat /\ w \in Nat
    BY <1>4, <1>5, SkipListAssumption DEF Moments, TypeInv
  <2> QED  BY <1>4, <1>5, <2>1, LinkedGrows
<1>7. view' = [view EXCEPT ![t] = w]
  BY <1>1, <1>3
<1>8. TurnOver(t, next) \/ TurnDown(t, next) \/ TurnEnd(t, next)
  BY <1>1, <1>2, <1>3, <1>5 DEF TurnOver, TurnDown, TurnEnd, PrevNoted
<1>9. /\ stores' = stores /\ sequence' = sequence /\ published' = published
      /\ entry' = entry /\ height' = height /\ op' = op /\ heightSeen' = heightSeen
  BY DEF SearchStep
<1>10. Turn(t, next, w)
  BY <1>4, <1>5, <1>6, <1>7, <1>8, <1>9 DEF Turn
<1> QED  BY <1>10

(* Where a search ends is the answer of its call.                          *)
LEMMA SearchAnswers ==
  ASSUME NEW o, o.name \in {"Get", "FindGreaterOrEqual", "FindLessThan", "FindLast"},
         NEW S, S \subseteq Node, NEW x \in S \cup {head}, NEW y, Follows(x, y, S),
         o.key \in Key, o.name # "FindLast" => Before(x, o.key), ~MovesOver(o, y)
  PROVE  /\ Answers(o, Returned(o, x, y), S)
         /\ Returned(o, x, y) \in S \cup {Null}
<1>1. S \subseteq Key /\ x \in Key /\ head \notin S /\ Null \notin S
  BY KeyOrder
<1>2. y = Null \/ (y \in S /\ Before(x, y))
  BY DEF Follows
<1>3. ASSUME NEW n \in S PROVE n = x \/ Before(n, x) \/ (Before(x, n) /\ y \in S /\ (n = y \/ Before(y, n)))
  <2>1. n = x \/ Before(n, x) \/ Before(x, n)
    BY <1>1, KeyOrder
  <2> QED  BY <1>2, <2>1 DEF Follows
<1>4. CASE o.name \in {"Get", "FindGreaterOrEqual"}
  <2>1. Returned(o, x, y) = y /\ Before(x, o.key) /\ (y = Null \/ ~Before(y, o.key))
    BY <1>4 DEF Returned, MovesOver, KeyIsAfterNode
  <2>2. ASSUME NEW n \in S, ~Before(n, o.key)
        PROVE  y \in S /\ (n = y \/ Before(y, n))
    <3>1. n # x /\ ~Before(n, x)
      BY <1>1, <2>1, <2>2, KeyOrder
    <3> QED  BY <1>3, <3>1
  <2>3. IsFirst(y, {n \in S : ~Before(n, o.key)})
    <3>1. CASE y = Null
      BY <1>1, <2>2, <3>1 DEF IsFirst
    <3>2. CASE y # Null
      BY <1>2, <2>1, <2>2, <3>2 DEF IsFirst
    <3> QED  BY <3>1, <3>2
  <2> QED  BY <1>2, <1>4, <2>1, <2>3 DEF Answers
<1>5. CASE o.name = "FindLessThan"
  <2>1. /\ Returned(o, x, y) = (IF x = head THEN Null ELSE x)
        /\ Before(x, o.key) /\ (y = Null \/ ~Before(y, o.key))
    BY <1>5 DEF Returned, MovesOver, KeyIsAfterNode
  <2>2. ASSUME NEW n \in S, Before(n, o.key) PROVE n = x \/ Before(n, x)
    <3>1. ASSUME y \in S, n = y \/ Before(y, n) PROVE FALSE
      BY <1>1, <2>1, <2>2, <3>1, KeyOrder
    <3> QED  BY <1>3, <3>1
  <2>3. IsFinal(Returned(o, x, y), {n \in S : Before(n, o.key)})
    <3>1. CASE x = head
      <4>1. \A n \in S : ~Before(n, o.key)
        BY <1>1, <2>2, <3>1, KeyOrder
      <4> QED  BY <2>1, <3>1, <4>1 DEF IsFinal
    <3>2. CASE x # head
      BY <2>1, <2>2, <3>2 DEF IsFinal
    <3> QED  BY <3>1, <3>2
  <2> QED  BY <1>5, <2>1, <2>3 DEF Answers
<1>6. CASE o.name = "FindLast"
  <2>1. Returned(o, x, y) = (IF x = head THEN Null ELSE x) /\ y = Null
    BY <1>6 DEF Returned, MovesOver
  <2>2. ASSUME NEW n \in S PROVE n = x \/ Before(n, x)
    BY <1>1, <1>3, <2>1
  <2>3. IsFinal(Returned(o, x, y), S)
    <3>1. CASE x = head
      <4>1. S = {}
        BY <1>1, <2>2, <3>1, KeyOrder
      <4> QED  BY <2>1, <3>1, <4>1 DEF IsFinal
    <3>2. CASE x # head
      BY <2>1, <2>2, <3>2 DEF IsFinal
    <3> QED  BY <3>1, <3>2
  <2> QED  BY <1>6, <2>1, <2>3 DEF Answers
<1> QED  BY <1>4, <1>5, <1>6

-----------------------------------------------------------------------------
(* The invariant, part by part, when one thread takes a step.              *)

Only(t) == \A u \in Threads \ {t} : Same(u)

(* The threads that take no part keep what they have found.                *)
LEMMA OthersFrame ==
  ASSUME IInv, Grown, NEW t, Only(t),
         t \in Threads => ThreadOK(t)', t \in Readers => ReaderOK(t)'
  PROVE  ThreadInv' /\ ReaderInv'
<1>1. TypeInv /\ ListInv
  BY DEF IInv
<1>2. ASSUME NEW u \in Threads PROVE ThreadOK(u)'
  <2>1. CASE u = t
    BY <2>1
  <2>2. CASE u # t
    BY <1>1, <2>2, ThreadFrame DEF IInv, ThreadInv, Only
  <2> QED  BY <2>1, <2>2
<1>3. ASSUME NEW u \in Readers PROVE ReaderOK(u)'
  <2>1. CASE u = t
    BY <2>1
  <2>2. CASE u # t
    BY <1>1, <2>2, ThreadFrame DEF IInv, ThreadInv, ReaderInv, Only, Threads
  <2> QED  BY <2>1, <2>2
<1> QED  BY <1>2, <1>3 DEF ThreadInv, ReaderInv

(* A reader's step leaves what the writer knows.                           *)
LEMMA WriterFrame ==
  ASSUME WriterInv, Kept, Same(Writer), stores' = stores, sequence' = sequence, entry' = entry,
         height' = height, prev' = prev
  PROVE  WriterInv'
<1>1. \A l, x : PrevOK(l, x)' = PrevOK(l, x)
  BY DEF PrevOK, Kept
<1>2. LinkedTo' = LinkedTo
  BY DEF LinkedTo, Same
<1>3. \A l : Now(l)' = Now(l)
  BY DEF Kept
<1>4. MaxHeightNow' = MaxHeightNow
  BY DEF Kept
<1> QED  BY <1>1, <1>2, <1>3, <1>4 DEF WriterInv, Same

(* A step of thread t that stores and publishes nothing.                   *)
LEMMA PublishedFrame ==
  ASSUME PublishedInv, Kept, sequence' = sequence, published' = published,
         pc'[Writer] \in Inserting => pc[Writer] \in Inserting,
         NEW t, Only(t), t \in Readers => GetOK(t)'
  PROVE  PublishedInv'
<1>1. ASSUME NEW r \in Readers PROVE GetOK(r)'
  <2>1. CASE r = t
    BY <2>1
  <2>2. CASE r # t
    <3>1. op'[r] = op[r] /\ view'[r] = view[r]
      BY <2>2 DEF Only, Same, Threads
    <3>2. GetOK(r)
      BY DEF PublishedInv
    <3> QED  BY <3>1, <3>2 DEF GetOK, Kept
  <2> QED  BY <2>1, <2>2
<1>2. EntriesLinked(published.sequence, published.time)'
  BY DEF PublishedInv, Kept
<1> QED  BY <1>1, <1>2 DEF PublishedInv, Kept

(* A view that grows still holds what it held.                             *)
LEMMA GetGrows ==
  ASSUME TypeInv, NEW r, GetOK(r), Kept, op'[r] = op[r], published' = published,
         NEW w, w \in Moments, view[r] \in Moments, view[r] <= w, view'[r] = w
  PROVE  GetOK(r)'
<1>1. view[r] \in Nat /\ w \in Nat
  BY SkipListAssumption DEF Moments, TypeInv
<1>2. LinkedAt(0, view[r]) \subseteq LinkedAt(0, w)
  BY <1>1, LinkedGrows
<1>3. \A s : EntriesLinked(s, view[r]) => EntriesLinked(s, w)
  BY <1>2 DEF EntriesLinked
<1>4. \A s : EntriesLinked(s, w)' = EntriesLinked(s, w)
  BY DEF Kept
<1> QED  BY <1>3, <1>4 DEF GetOK

-----------------------------------------------------------------------------
(* The steps.                                                              *)

(* One turn of a search, of a reader or of the writer.                     *)
LEMMA SearchStepInv ==
  ASSUME IInv, NEW t \in Threads, SearchStep(t)
  PROVE  IInv'
<1>0. TypeInv /\ ListInv /\ WriterInv /\ ThreadOK(t) /\ PublishedInv
  BY DEF IInv, ThreadInv
<1>1. \E next, w : Turn(t, next, w)
  BY <1>0, SearchStepIs
<1>2. PICK next, w : Turn(t, next, w)
  BY <1>1
<1>3. PICK l, x, o : l = level[t] /\ x = node[t] /\ o = op[t]
  OBVIOUS
<1>4. PICK S : S = LinkedAt(l, w)
  OBVIOUS
<1>5. /\ l \in Levels /\ l \in Nat /\ pc[t] = "search"
      /\ w \in Moments /\ view[t] <= w /\ view[t] \in Moments
      /\ x \in S \cup {head} /\ Follows(x, next, S) /\ next \in S \cup {Null}
  BY <1>0, <1>2, <1>3, <1>4 DEF Turn, ThreadOK
<1>6. Kept
  BY <1>0, <1>2, StoresKept DEF Turn
<1>7. ListAt(l, w) /\ S \subseteq Node
  BY <1>0, <1>4, <1>5 DEF ListInv, ListAt
<1>8. /\ pc \in [Threads -> Pcs] /\ op \in [Threads -> [name : Names, key : Key]]
      /\ node \in [Threads -> Node \cup {head, Null}] /\ level \in [Threads -> Nat]
      /\ view \in [Threads -> Nat] /\ prev \in [Levels -> Node \cup {head, Null}]
      /\ w \in Nat /\ MaxHeight \in Nat
  BY <1>0, <1>5, SkipListAssumption, SMTT(20) DEF TypeInv, WriterInv, Moments
<1>9. /\ view' = [view EXCEPT ![t] = w] /\ op' = op /\ stores' = stores /\ entry' = entry
      /\ height' = height /\ sequence' = sequence /\ published' = published
      /\ heightSeen' = heightSeen
  BY <1>2 DEF Turn
<1>10. TurnOver(t, next) \/ TurnDown(t, next) \/ TurnEnd(t, next)
  BY <1>2 DEF Turn
<1>11. /\ o.name \in {"Get", "FindGreaterOrEqual", "FindLessThan", "FindLast"}
       /\ o.key \in Key
       /\ o.name # "FindLast" => o.key # head /\ Before(x, o.key)
  <2>1. o \in [name : Names, key : Key]
    BY <1>3, <1>8
  <2> QED  BY <1>0, <1>3, <1>5, <2>1 DEF ThreadOK, Names
<1>12. Returned(o, x, next) \in Node \cup {head, Null}
  BY <1>5, <1>7 DEF Returned
<1>13. TypeInv'
  <2>1. node' \in [Threads -> Node \cup {head, Null}]
    BY <1>3, <1>5, <1>7, <1>8, <1>10, <1>12 DEF TurnOver, TurnDown, TurnEnd
  <2>2. level' \in [Threads -> Nat]
    <3>1. l # 0 => l - 1 \in Nat
      BY <1>5
    <3>2. level \in [Threads -> Nat] /\ level[t] = l
      BY <1>3, <1>8
    <3> QED  BY <1>10, <3>1, <3>2 DEF TurnOver, TurnDown, TurnEnd
  <2>3. pc' \in [Threads -> Pcs]
    BY <1>8, <1>10 DEF TurnOver, TurnDown, TurnEnd, Pcs, Inserting
  <2>4. view' \in [Threads -> Nat]
    BY <1>8, <1>9
  <2> QED  BY <1>0, <1>9, <2>1, <2>2, <2>3, <2>4 DEF TypeInv
<1>14. Only(t)
  <2> SUFFICES ASSUME NEW u \in Threads \ {t} PROVE Same(u)
    BY DEF Only
  <2>1. pc'[u] = pc[u] /\ node'[u] = node[u] /\ level'[u] = level[u]
    BY <1>8, <1>10 DEF TurnOver, TurnDown, TurnEnd
  <2>2. view'[u] = view[u]
    BY <1>8, <1>9
  <2> QED  BY <1>9, <2>1, <2>2 DEF Same
<1>15. view'[t] = w /\ op'[t] = o /\ w \in Moments'
       /\ \A k : LinkedAt(k, w)' = LinkedAt(k, w)
  BY <1>3, <1>5, <1>6, <1>8, <1>9 DEF Kept
<1>16. pc'[t] \in {"search", "done"}
  BY <1>5, <1>8, <1>10 DEF TurnOver, TurnDown, TurnEnd
<1>17. ThreadOK(t)'
  <2>1. ASSUME pc'[t] = "search"
        PROVE  /\ level'[t] \in Levels
               /\ node'[t] \in LinkedAt(level'[t], w) \cup {head}
               /\ o.name # "FindLast" => Before(node'[t], o.key)
    <3>1. CASE TurnOver(t, next)
      <4>1. node'[t] = next /\ level'[t] = l /\ MovesOver(o, next)
        BY <1>3, <1>8, <3>1 DEF TurnOver
      <4>2. next # Null /\ (o.name # "FindLast" => Before(next, o.key))
        BY <4>1 DEF MovesOver, KeyIsAfterNode
      <4> QED  BY <1>4, <1>5, <4>1, <4>2
    <3>2. CASE TurnDown(t, next)
      <4>1. node'[t] = x /\ level'[t] = l - 1 /\ l # 0
        BY <1>3, <1>8, <3>2 DEF TurnDown
      <4>2. l - 1 \in Levels /\ l - 1 <= l
        BY <1>5, <1>8, <4>1 DEF Levels
      <4>3. S \subseteq LinkedAt(l - 1, w)
        BY <1>4, <1>7, <4>2 DEF ListAt
      <4> QED  BY <1>5, <1>11, <4>1, <4>2, <4>3
    <3>3. CASE TurnEnd(t, next)
      BY <1>8, <2>1, <3>3 DEF TurnEnd
    <3> QED  BY <1>10, <3>1, <3>2, <3>3
  <2>2. o.name \notin {"none", "Next"} /\ (o.name # "FindLast" => o.key # head)
    BY <1>11
  <2> QED  BY <1>15, <2>1, <2>2 DEF ThreadOK
<1>18. ASSUME t \in Readers PROVE ReaderOK(t)'
  <2>1. ASSUME pc'[t] = "done"
        PROVE  /\ node'[t] \in LinkedAt(0, w) \cup {Null}
               /\ o.name # "none" /\ Answers(o, node'[t], LinkedAt(0, w))
    <3>1. TurnEnd(t, next)
      BY <1>5, <1>8, <1>10, <2>1 DEF TurnOver, TurnDown
    <3>2. node'[t] = Returned(o, x, next) /\ l = 0 /\ ~MovesOver(o, next)
      BY <1>3, <1>8, <3>1 DEF TurnEnd
    <3>3. Answers(o, Returned(o, x, next), S) /\ Returned(o, x, next) \in S \cup {Null}
      BY <1>5, <1>7, <1>11, <3>2, SearchAnswers
    <3> QED  BY <1>4, <1>11, <3>2, <3>3
  <2> QED  BY <1>15, <1>16, <2>1 DEF ReaderOK, Answers
<1>19. ThreadInv' /\ ReaderInv'
  BY <1>6, <1>14, <1>17, <1>18, OthersFrame DEF Kept
<1>20. WriterInv'
  <2>1. CASE t # Writer
    <3>1. Same(Writer)
      BY <1>14, <2>1 DEF Only, Threads
    <3>2. prev' = prev
      BY <1>10, <2>1 DEF TurnOver, TurnDown, TurnEnd, PrevNoted
    <3> QED  BY <1>0, <1>6, <1>9, <3>1, <3>2, WriterFrame
  <2>2. CASE t = Writer
    <3>1. w = Len(stores)
      BY <1>0, <1>5, <1>8, <2>2 DEF WriterInv, Moments, TypeInv
    <3>2. /\ entry.node \in Node /\ entry.node \in Key /\ o.key = entry.node /\ o.name = "FindGreaterOrEqual"
          /\ \A k \in Levels : entry.node \notin Now(k)
          /\ \A k \in l + 1 .. MaxHeightNow - 1 : PrevOK(k, entry.node)
      <4>1. pc[Writer] = "search" /\ LinkedTo = 0 /\ pc[Writer] \in Inserting
        BY <1>5, <2>2 DEF LinkedTo, Inserting
      <4>2. \A k \in Levels : ~(k < 0)
        BY Locations
      <4> QED  BY <1>0, <1>3, <2>2, <4>1, <4>2, KeyOrder DEF WriterInv
    <3>3. S = Now(l) /\ Now(l) \subseteq Key
      BY <1>4, <1>7, <3>1, KeyOrder DEF Now
    <3>4. ASSUME ~MovesOver(o, next), NEW m \in Now(l), Before(x, m)
          PROVE  Before(entry.node, m)
      <4>1. next # Null /\ next \in S /\ (m = next \/ Before(next, m))
        BY <1>5, <3>3, <3>4 DEF Follows
      <4>2. ~Before(next, entry.node) /\ next # entry.node
        BY <1>5, <3>2, <3>3, <3>4, <4>1 DEF MovesOver, KeyIsAfterNode
      <4>3. Before(entry.node, next)
        BY <3>2, <3>3, <4>1, <4>2, KeyOrder
      <4> QED  BY <3>2, <3>3, <4>1, <4>3, KeyOrder
    <3>5. prev' \in [Levels -> Node \cup {head, Null}]
      BY <1>3, <1>5, <1>7, <1>8, <1>10, <2>2 DEF TurnOver, TurnDown, TurnEnd, PrevNoted
    <3>6. \A k \in Levels : k # l => prev'[k] = prev[k]
      BY <1>3, <1>8, <1>10, <2>2 DEF TurnOver, TurnDown, TurnEnd, PrevNoted
    <3>7. \A k \in Levels : k # l /\ PrevOK(k, entry.node) => PrevOK(k, entry.node)'
      BY <1>6, <1>9, <3>6 DEF PrevOK, Kept
    <3>8. ~MovesOver(o, next) => PrevOK(l, entry.node)'
      <4> SUFFICES ASSUME ~MovesOver(o, next) PROVE PrevOK(l, entry.node)'
        OBVIOUS
      <4>1. prev'[l] = x
        BY <1>3, <1>5, <1>8, <1>10, <2>2 DEF TurnOver, TurnDown, TurnEnd, PrevNoted
      <4>2. x \in Now(l) \cup {head} /\ Before(x, entry.node)
        BY <1>5, <1>11, <3>2, <3>3
      <4> QED  BY <1>6, <1>9, <3>4, <4>1, <4>2 DEF PrevOK, Kept
    <3>9. MaxHeightNow' = MaxHeightNow /\ MaxHeightNow \in 1 .. MaxHeight
      BY <1>0, <1>6, HeightIs DEF Kept
    <3>10. pc'[Writer] = "search" =>
             \A k \in level'[Writer] + 1 .. MaxHeightNow - 1 : PrevOK(k, entry.node)'
      <4> SUFFICES ASSUME pc'[Writer] = "search", NEW k \in level'[Writer] + 1 .. MaxHeightNow - 1
                   PROVE  PrevOK(k, entry.node)'
        OBVIOUS
      <4>1. \/ level'[Writer] = l
            \/ level'[Writer] = l - 1 /\ ~MovesOver(o, next)
        BY <1>3, <1>5, <1>8, <1>10, <2>2 DEF TurnOver, TurnDown, TurnEnd
      <4>2. k \in l + 1 .. MaxHeightNow - 1 \/ (k = l /\ ~MovesOver(o, next))
        BY <1>5, <3>9, <4>1
      <4>3. k \in l + 1 .. MaxHeightNow - 1 => k \in Levels /\ k # l
        BY <1>5, <1>8, <3>9 DEF Levels
      <4> QED  BY <3>2, <3>7, <3>8, <4>2, <4>3
    <3>11. pc'[Writer] = "done" =>
             \A k \in 0 .. MaxHeightNow - 1 : PrevOK(k, entry.node)'
      <4> SUFFICES ASSUME pc'[Writer] = "done", NEW k \in 0 .. MaxHeightNow - 1
                   PROVE  PrevOK(k, entry.node)'
        OBVIOUS
      <4>1. l = 0 /\ ~MovesOver(o, next)
        BY <1>3, <1>5, <1>8, <1>10, <2>2 DEF TurnOver, TurnDown, TurnEnd
      <4>2. k \in l + 1 .. MaxHeightNow - 1 \/ k = l
        BY <3>9, <4>1
      <4>3. k \in l + 1 .. MaxHeightNow - 1 => k \in Levels /\ k # l
        BY <1>5, <1>8, <3>9 DEF Levels
      <4> QED  BY <3>2, <3>7, <3>8, <4>1, <4>2, <4>3
    <3>12. LinkedTo' = 0 /\ LinkedTo = 0 /\ pc'[Writer] \in {"search", "done"}
      BY <1>5, <1>16, <2>2 DEF LinkedTo
    <3>13. \A k : Now(k)' = Now(k)
      BY <1>6 DEF Kept
    <3>14. /\ view'[Writer] = Len(stores') /\ sequence' \in Nat
           /\ \A m \in Now(0) : m[2] <= sequence
           /\ \A i \in 1 .. Len(stores) : \A m : stores[i].loc = EntryLoc(m) =>
                m \in Node /\ m \in Now(0)
           /\ entry.node[2] = sequence /\ entry.live \in BOOLEAN
           /\ \A m \in Now(0) : m = entry.node \/ m[2] < sequence
           /\ op'[Writer] = [name |-> "FindGreaterOrEqual", key |-> entry.node]
      BY <1>0, <1>5, <1>9, <1>15, <2>2, <3>1 DEF WriterInv, Inserting
    <3> QED
      BY <1>9, <3>2, <3>5, <3>9, <3>10, <3>11, <3>12, <3>13, <3>14, Locations
      DEF WriterInv, Inserting
  <2> QED  BY <2>1, <2>2
<1>21. PublishedInv'
  <2>1. pc'[Writer] \in Inserting => pc[Writer] \in Inserting
    BY <1>5, <1>8, <1>14 DEF Only, Same, Threads, Inserting
  <2>2. ASSUME t \in Readers PROVE GetOK(t)'
    BY <1>0, <1>3, <1>5, <1>6, <1>9, <1>15, <2>2, GetGrows DEF PublishedInv
  <2> QED  BY <1>0, <1>6, <1>9, <1>14, <2>1, <2>2, PublishedFrame
<1> QED  BY <1>6, <1>13, <1>19, <1>20, <1>21 DEF IInv, Kept

(* The relaxed load of max_height_: any height starts a search.            *)
LEMMA GetMaxHeightInv ==
  ASSUME IInv, NEW t \in Threads, GetMaxHeight(t)
  PROVE  IInv'
<1>0. TypeInv /\ ListInv /\ WriterInv /\ ThreadOK(t) /\ PublishedInv
  BY DEF IInv, ThreadInv
<1>1. PICK i \in Readable(HeightLoc, view[t]) :
        /\ heightSeen' = [heightSeen EXCEPT ![t] = i]
        /\ level' = [level EXCEPT ![t] = Value(i) - 1]
  BY DEF GetMaxHeight
<1>2. /\ pc[t] = "height" /\ pc' = [pc EXCEPT ![t] = "search"]
      /\ node' = [node EXCEPT ![t] = head] /\ view' = view /\ op' = op
      /\ stores' = stores /\ sequence' = sequence /\ published' = published
      /\ entry' = entry /\ height' = height /\ prev' = prev
  BY DEF GetMaxHeight, writerVars
<1>3. /\ pc \in [Threads -> Pcs] /\ op \in [Threads -> [name : Names, key : Key]]
      /\ node \in [Threads -> Node \cup {head, Null}] /\ level \in [Threads -> Nat]
      /\ view \in [Threads -> Nat] /\ heightSeen \in [Threads -> Nat]
      /\ MaxHeight \in Nat /\ Len(stores) \in Nat
      /\ view[t] \in Moments /\ MaxHeight + 1 <= view[t] /\ view[t] <= Len(stores)
  BY <1>0, SkipListAssumption DEF TypeInv, ThreadOK, Moments
<1>4. i \in 1 .. Len(stores) /\ stores[i].loc = HeightLoc
  <2>1. 1 \in 1 .. Len(stores) /\ 1 <= view[t]
    BY <1>3
  <2>2. stores[1].loc = HeightLoc
    BY <1>0 DEF ListInv, Heights
  <2> QED  BY <2>1, <2>2 DEF Readable
<1>5. PICK h : h = Value(i)
  OBVIOUS
<1>6. h \in 1 .. MaxHeight
  <2>1. h = stores[i].val
    BY <1>4, <1>5 DEF Value
  <2> QED  BY <1>0, <1>4, <2>1 DEF ListInv, Heights
<1>7. h - 1 \in Levels /\ h - 1 \in Nat
  BY <1>3, <1>6 DEF Levels
<1>8. level'[t] = h - 1 /\ node'[t] = head /\ pc'[t] = "search" /\ view'[t] = view[t]
      /\ op'[t] = op[t]
  BY <1>1, <1>2, <1>3, <1>5
<1>9. Kept
  BY <1>0, <1>2, StoresKept
<1>10. TypeInv'
  <2>1. level' \in [Threads -> Nat]
    BY <1>1, <1>3, <1>5, <1>7
  <2>2. node' \in [Threads -> Node \cup {head, Null}]
    BY <1>2, <1>3
  <2>3. pc' \in [Threads -> Pcs]
    BY <1>2, <1>3 DEF Pcs, Inserting
  <2>4. heightSeen' \in [Threads -> Nat]
    BY <1>1, <1>3, <1>4
  <2> QED  BY <1>0, <1>2, <2>1, <2>2, <2>3, <2>4 DEF TypeInv
<1>11. Only(t)
  <2> SUFFICES ASSUME NEW u \in Threads \ {t} PROVE Same(u)
    BY DEF Only
  <2>1. pc'[u] = pc[u] /\ node'[u] = node[u]
    BY <1>2, <1>3
  <2>2. level'[u] = level[u]
    BY <1>1, <1>3
  <2> QED  BY <1>2, <2>1, <2>2 DEF Same
<1>12. ThreadOK(t)'
  <2>1. op[t] \in [name : Names, key : Key]
    BY <1>3
  <2>2. op[t].name \notin {"none", "Next"} /\ (op[t].name # "FindLast" => op[t].key # head)
    BY <1>0, <1>2 DEF ThreadOK
  <2>3. op[t].name # "FindLast" => Before(head, op[t].key)
    BY <2>1, <2>2, KeyOrder
  <2> QED  BY <1>3, <1>7, <1>8, <1>9, <2>2, <2>3 DEF ThreadOK, Kept
<1>13. ThreadInv' /\ ReaderInv'
  BY <1>8, <1>9, <1>11, <1>12, OthersFrame DEF Kept, ReaderOK
<1>14. WriterInv'
  <2>1. CASE t # Writer
    <3>1. Same(Writer)
      BY <1>11, <2>1 DEF Only, Threads
    <3> QED  BY <1>0, <1>2, <1>9, <3>1, WriterFrame
  <2>2. CASE t = Writer
    <3>1. view[Writer] = Len(stores) /\ pc[Writer] = "height"
      BY <1>0, <1>2, <2>2 DEF WriterInv
    <3>2. PICK k \in 1 .. Len(stores) : IsLast(k, HeightLoc, Len(stores))
      BY <1>0 DEF ListInv, Heights
    <3>3. k <= view[Writer] /\ stores[k].loc = HeightLoc
      BY <1>3, <2>2, <3>1, <3>2 DEF IsLast
    <3>4. i >= k
      BY <2>2, <3>2, <3>3 DEF Readable
    <3>5. i = k
      <4>1. i # k => i \in k + 1 .. Len(stores)
        BY <1>3, <1>4, <3>4
      <4> QED  BY <1>4, <3>2, <4>1 DEF IsLast
    <3>6. MaxHeightNow = h
      BY <1>0, <1>4, <1>5, <3>2, <3>5, LatestIs DEF MaxHeightNow, Value
    <3>7. MaxHeightNow' = h /\ level'[Writer] = h - 1 /\ pc'[Writer] = "search"
          /\ op'[Writer] = op[Writer] /\ view'[Writer] = Len(stores')
      BY <1>2, <1>8, <1>9, <2>2, <3>1, <3>6 DEF Kept
    <3>8. \A k1 \in level'[Writer] + 1 .. MaxHeightNow' - 1 : FALSE
      BY <1>6, <3>7
    <3>9. \A k1 : Now(k1)' = Now(k1)
      BY <1>9 DEF Kept
    <3>10. LinkedTo' = 0 /\ LinkedTo = 0
      BY <3>1, <3>7 DEF LinkedTo
    <3> QED
      BY <1>0, <1>2, <3>1, <3>7, <3>8, <3>9, <3>10 DEF WriterInv, Inserting
  <2> QED  BY <2>1, <2>2
<1>15. PublishedInv'
  <2>1. pc'[Writer] \in Inserting => pc[Writer] \in Inserting
    BY <1>2, <1>3, <1>11 DEF Only, Same, Threads, Inserting
  <2>2. ASSUME t \in Readers PROVE GetOK(t)'
    BY <1>0, <1>2, <1>9, <2>2 DEF PublishedInv, GetOK, Kept
  <2> QED  BY <1>0, <1>2, <1>9, <1>11, <2>1, <2>2, PublishedFrame
<1> QED  BY <1>9, <1>10, <1>13, <1>14, <1>15 DEF IInv, Kept

(* MemTable::Add takes the next sequence.                                  *)
LEMMA AddInv ==
  ASSUME IInv, NEW u \in UserKeys, NEW live \in BOOLEAN, Add(u, live)
  PROVE  IInv'
<1>0. TypeInv /\ ListInv /\ WriterInv /\ ThreadOK(Writer) /\ PublishedInv
  BY DEF IInv, ThreadInv, Threads
<1>1. PICK x : x = <<u, sequence + 1>>
  OBVIOUS
<1>2. /\ pc[Writer] = "idle" /\ sequence' = sequence + 1
      /\ entry' = [node |-> x, live |-> live]
      /\ op' = [op EXCEPT ![Writer] = [name |-> "FindGreaterOrEqual", key |-> x]]
      /\ pc' = [pc EXCEPT ![Writer] = "height"]
      /\ stores' = stores /\ published' = published /\ height' = height /\ prev' = prev
      /\ node' = node /\ level' = level /\ view' = view /\ heightSeen' = heightSeen
  BY <1>1 DEF Add, Insert, Search
<1>3. /\ pc \in [Threads -> Pcs] /\ op \in [Threads -> [name : Names, key : Key]]
      /\ Writer \in Threads /\ Writer \notin Readers /\ sequence \in Nat
  BY <1>0, SkipListAssumption DEF TypeInv, WriterInv, Threads
<1>4. x \in Node /\ x \in Key /\ x # head /\ x[2] = sequence'
  <2>1. x \in Node /\ x[2] = sequence'
    BY <1>1, <1>2, <1>3 DEF Node
  <2> QED  BY <2>1, KeyOrder
<1>5. Kept
  BY <1>0, <1>2, StoresKept
<1>6. pc'[Writer] = "height" /\ op'[Writer] = [name |-> "FindGreaterOrEqual", key |-> x]
      /\ entry'.node = x /\ entry'.live = live
  BY <1>2, <1>3
<1>7. TypeInv'
  <2>1. entry' \in [node : Node \cup {Null}, live : BOOLEAN]
    BY <1>2, <1>4
  <2>2. pc' \in [Threads -> Pcs]
    BY <1>2, <1>3 DEF Pcs, Inserting
  <2>3. [name |-> "FindGreaterOrEqual", key |-> x] \in [name : Names, key : Key]
    BY <1>4 DEF Names
  <2>4. op' \in [Threads -> [name : Names, key : Key]]
    BY <1>2, <1>3, <2>3
  <2> QED  BY <1>0, <1>2, <2>1, <2>2, <2>4 DEF TypeInv
<1>8. Only(Writer)
  BY <1>2, <1>3 DEF Only, Same
<1>9. ThreadOK(Writer)'
  BY <1>0, <1>2, <1>4, <1>5, <1>6 DEF ThreadOK, Kept
<1>10. ThreadInv' /\ ReaderInv'
  BY <1>3, <1>5, <1>8, <1>9, OthersFrame DEF Kept
<1>11. WriterInv'
  <2>1. \A l : Now(l)' = Now(l)
    BY <1>5 DEF Kept
  <2>2. LinkedTo' = 0
    BY <1>6 DEF LinkedTo
  <2>3. \A m \in Now(0) : m \in Node /\ m[2] \in Nat /\ m[2] <= sequence
    <3>1. Len(stores) \in Moments /\ 0 \in Levels
      BY <1>0, SkipListAssumption DEF ListInv, Moments, Levels, TypeInv
    <3>2. Now(0) \subseteq Node
      BY <1>0, <3>1 DEF ListInv, ListAt, Now
    <3> QED  BY <1>0, <3>2, KeyOrder DEF WriterInv
  <2>4. \A m \in Now(0) : m[2] <= sequence' /\ m[2] < sequence' /\ m # x
    BY <1>2, <1>3, <1>4, <2>3
  <2>5. \A l \in Levels : x \notin Now(l) /\ ~(l < 0)
    <3> SUFFICES ASSUME NEW l \in Levels PROVE x \notin Now(l) /\ ~(l < 0)
      OBVIOUS
    <3>1. Len(stores) \in Moments /\ 0 \in Levels /\ 0 <= l /\ l \in Nat
      BY <1>0, SkipListAssumption DEF ListInv, Moments, Levels, TypeInv
    <3>2. Now(l) \subseteq Now(0)
      BY <1>0, <3>1 DEF ListInv, ListAt, Now
    <3> QED  BY <2>4, <3>1, <3>2
  <2>6. /\ view'[Writer] = Len(stores') /\ sequence' \in Nat
        /\ prev' \in [Levels -> Node \cup {head, Null}]
        /\ \A i \in 1 .. Len(stores') : \A m : stores'[i].loc = EntryLoc(m) =>
             m \in Node /\ m \in Now(0)
    BY <1>0, <1>2, <1>3 DEF WriterInv
  <2> QED  BY <1>4, <1>6, <2>1, <2>2, <2>4, <2>5, <2>6 DEF WriterInv, Inserting
<1>12. PublishedInv'
  <2>1. \A r \in Readers : op'[r] = op[r] /\ view'[r] = view[r]
    BY <1>3, <1>8 DEF Only, Same, Threads
  <2>2. \A r \in Readers : GetOK(r)'
    BY <1>0, <1>2, <1>5, <2>1 DEF PublishedInv, GetOK, Kept
  <2>3. published'.sequence <= sequence' /\ published'.sequence < sequence'
    BY <1>0, <1>2, <1>3 DEF PublishedInv
  <2> QED  BY <1>0, <1>2, <1>5, <2>2, <2>3 DEF PublishedInv, Kept
<1> QED  BY <1>5, <1>7, <1>10, <1>11, <1>12 DEF IInv, Kept

(* What the stores of SetMaxHeight, NewNode and Link have in common for    *)
(* the threads and for what is published.                                  *)
LEMMA WriterStores ==
  ASSUME IInv, Grown, ListInv', Only(Writer), published' = published, sequence' = sequence,
         pc[Writer] \in Inserting, pc'[Writer] \in {"new", "link", "idle"},
         view'[Writer] = Len(stores'),
         \A i \in Len(stores) + 1 .. Len(stores') : \A m :
           stores'[i].loc = EntryLoc(m) => m = entry.node
  PROVE  ThreadInv' /\ ReaderInv' /\ PublishedInv'
<1>0. TypeInv /\ ListInv /\ WriterInv /\ ThreadInv /\ PublishedInv
  BY DEF IInv
<1>1. Writer \notin Readers /\ MaxHeight \in Nat
  BY SkipListAssumption
<1>2. ThreadOK(Writer)'
  <2>1. Len(stores') \in Moments'
    BY <1>1 DEF ListInv, Moments, Grown
  <2> QED  BY <2>1 DEF ThreadOK
<1>3. ThreadInv' /\ ReaderInv'
  BY <1>1, <1>2, OthersFrame
<1>4. /\ sequence \in Nat /\ published.sequence \in Nat /\ published.sequence < sequence
      /\ entry.node \in Node /\ entry.node[2] = sequence
  BY <1>0 DEF WriterInv, PublishedInv
<1>5. NewEntries
  <2>1. ~(entry.node[2] <= published.sequence)
    BY <1>4
  <2> QED  BY <2>1 DEF NewEntries
<1>6. \A i \in 1 .. Len(stores) : \A m : stores[i].loc = EntryLoc(m) => m[2] \in Nat
  BY <1>0, KeyOrder DEF WriterInv
<1>7. \A i \in 1 .. Len(stores') : \A m : stores'[i].loc = EntryLoc(m) => m[2] \in Nat
  <2>1. \A i \in 1 .. Len(stores') : i \in 1 .. Len(stores) \/ i \in Len(stores) + 1 .. Len(stores')
    BY <1>0 DEF TypeInv, Grown
  <2> QED  BY <1>4, <1>6, <2>1 DEF Grown
<1>8. ASSUME NEW s \in Nat, s <= published.sequence, NEW n \in Moments, EntriesLinked(s, n)
      PROVE  EntriesLinked(s, n)'
  BY <1>0, <1>4, <1>5, <1>6, <1>7, <1>8, EntriesFrame
<1>9. ASSUME NEW r \in Readers PROVE GetOK(r)'
  <2>1. op'[r] = op[r] /\ view'[r] = view[r] /\ r \in Threads
    BY <1>1 DEF Only, Same, Threads
  <2>2. view[r] \in Moments /\ GetOK(r) /\ op[r] \in [name : Names, key : Key]
    BY <1>0, <2>1 DEF ThreadInv, ThreadOK, PublishedInv, TypeInv
  <2>3. op[r].key[2] \in Nat
    BY <2>2, KeyOrder
  <2>4. PICK s, n : s = op[r].key[2] /\ n = view[r]
    OBVIOUS
  <2>5. op[r].name = "Get" => EntriesLinked(s, n)'
    BY <1>8, <2>2, <2>3, <2>4 DEF GetOK
  <2> QED  BY <2>1, <2>2, <2>4, <2>5 DEF GetOK
<1>10. published.time \in Moments' /\ EntriesLinked(published.sequence, published.time)'
  <2>1. PICK s, n : s = published.sequence /\ n = published.time
    OBVIOUS
  <2>2. s \in Nat /\ s <= published.sequence /\ n \in Moments /\ EntriesLinked(s, n)
    BY <1>0, <1>4, <2>1 DEF PublishedInv
  <2>3. EntriesLinked(s, n)' /\ n \in Moments'
    BY <1>0, <1>8, <2>2, GrownKeeps
  <2> QED  BY <2>1, <2>3
<1>11. PublishedInv'
  BY <1>4, <1>9, <1>10 DEF PublishedInv
<1> QED  BY <1>3, <1>11

(* A higher max_height_, with head_ as the new prev.                       *)
LEMMA SetMaxHeightInv ==
  ASSUME IInv, NEW h \in 1 .. MaxHeight, SetMaxHeight(h)
  PROVE  IInv'
<1>0. TypeInv /\ ListInv /\ WriterInv
  BY DEF IInv
<1>1. /\ pc[Writer] = "done" /\ height' = h /\ pc' = [pc EXCEPT ![Writer] = "new"]
      /\ view' = [view EXCEPT ![Writer] = Len(stores')]
      /\ sequence' = sequence /\ published' = published /\ entry' = entry /\ op' = op
      /\ node' = node /\ level' = level /\ heightSeen' = heightSeen
  BY DEF SetMaxHeight, WriterView
<1>2. /\ pc \in [Threads -> Pcs] /\ view \in [Threads -> Nat] /\ Writer \in Threads
      /\ prev \in [Levels -> Node \cup {head, Null}] /\ MaxHeight \in Nat /\ Len(stores) \in Nat
      /\ MaxHeightNow \in 1 .. MaxHeight
  BY <1>0, HeightIs, SkipListAssumption DEF TypeInv, WriterInv, Threads
<1>3. /\ ListInv' /\ Grown /\ (\A l \in Levels : Now(l)' = Now(l))
      /\ \A i \in Len(stores) + 1 .. Len(stores') : stores'[i].loc = HeightLoc
      /\ MaxHeightNow' = IF h > MaxHeightNow THEN h ELSE MaxHeightNow
  <2>1. CASE h > MaxHeightNow
    <3>1. PICK s : s = Store(HeightLoc, h, FALSE)
      OBVIOUS
    <3>2. s.loc = HeightLoc /\ s.val = h /\ s = [loc |-> HeightLoc, val |-> h, rel |-> FALSE]
      BY <3>1 DEF Store
    <3>3. s \in AnyStore
      <4>1. HeightLoc \in (Node \cup {head}) \X Int /\ h \in Nat
        BY DEF HeightLoc
      <4> QED  BY <3>2, <4>1 DEF AnyStore
    <3>4. stores' = Append(stores, s)
      BY <2>1, <3>1 DEF SetMaxHeight
    <3>5. Plain(s)
      BY <1>2, <2>1, <3>2, <3>3, <3>4, Locations DEF Plain
    <3>6. PlainDone(s)
      BY <1>0, <3>5, PlainStore
    <3>7. \A i \in Len(stores) + 1 .. Len(stores) + 1 : i = Len(stores) + 1
      BY <1>2
    <3> QED  BY <2>1, <3>2, <3>6, <3>7 DEF PlainDone
  <2>2. CASE ~(h > MaxHeightNow)
    <3>1. stores' = stores
      BY <2>2 DEF SetMaxHeight
    <3>2. Kept
      BY <1>0, <3>1, StoresKept
    <3>3. \A i \in Len(stores) + 1 .. Len(stores) : FALSE
      BY <1>2
    <3> QED  BY <2>2, <3>1, <3>2, <3>3 DEF Kept
  <2> QED  BY <2>1, <2>2
<1>4. TypeInv'
  <2>1. pc' \in [Threads -> Pcs]
    BY <1>1, <1>2 DEF Pcs, Inserting
  <2>2. view' \in [Threads -> Nat]
    BY <1>1, <1>2, <1>3 DEF Grown
  <2> QED  BY <1>0, <1>1, <1>3, <2>1, <2>2 DEF TypeInv, Grown
<1>5. Only(Writer) /\ pc'[Writer] = "new" /\ view'[Writer] = Len(stores')
  BY <1>1, <1>2 DEF Only, Same
<1>6. ThreadInv' /\ ReaderInv' /\ PublishedInv'
  <2>1. \A i \in Len(stores) + 1 .. Len(stores') : \A m : stores'[i].loc # EntryLoc(m)
    BY <1>3, Locations
  <2>2. pc[Writer] \in Inserting
    BY <1>1 DEF Inserting
  <2> QED  BY <1>1, <1>3, <1>5, <2>1, <2>2, WriterStores
<1>7. WriterInv'
  <2>1. LinkedTo' = 0 /\ LinkedTo = 0 /\ 0 \in Levels
    BY <1>1, <1>2, <1>5 DEF LinkedTo, Levels
  <2>2. prev' \in [Levels -> Node \cup {head, Null}]
    <3>1. CASE h > MaxHeightNow
      <4>1. prev' = [l \in Levels |->
                        IF l \in MaxHeightNow .. h - 1 THEN head ELSE prev[l]]
        BY <3>1 DEF SetMaxHeight
      <4> QED  BY <1>2, <4>1
    <3>2. CASE ~(h > MaxHeightNow)
      BY <1>2, <3>2 DEF SetMaxHeight
    <3> QED  BY <3>1, <3>2
  <2>3. /\ entry.node \in Node /\ entry.node[2] = sequence /\ entry.live \in BOOLEAN
        /\ \A m \in Now(0) : m = entry.node \/ m[2] < sequence
        /\ \A l \in Levels : entry.node \in Now(l) <=> l < 0
        /\ \A l \in 0 .. MaxHeightNow - 1 : PrevOK(l, entry.node)
        /\ sequence \in Nat /\ \A m \in Now(0) : m[2] <= sequence
    BY <1>0, <1>1, <2>1 DEF WriterInv, Inserting
  <2>4. h \in 1 .. MaxHeight /\ h <= MaxHeightNow'
    BY <1>2, <1>3
  <2>5. ASSUME NEW l \in 0 .. h - 1 PROVE PrevOK(l, entry.node)'
    <3>0. l \in Levels
      BY <1>2 DEF Levels
    <3>1. CASE l < MaxHeightNow
      <4>1. prev'[l] = prev[l]
        <5>1. l \notin MaxHeightNow .. h - 1
          BY <1>2, <3>1
        <5> QED  BY <3>0, <5>1 DEF SetMaxHeight
      <4>2. PrevOK(l, entry.node)
        BY <1>2, <2>3, <3>1
      <4> QED  BY <1>1, <1>3, <3>0, <4>1, <4>2 DEF PrevOK
    <3>2. CASE l >= MaxHeightNow
      <4>1. h > MaxHeightNow /\ l \in MaxHeightNow .. h - 1
        BY <1>2, <3>2
      <4>2. prev'[l] = head
        BY <3>0, <4>1 DEF SetMaxHeight
      <4>3. Now(l) = {}
        BY <1>0, <3>0, <3>2, HeightIs
      <4>4. Before(head, entry.node)
        BY <2>3, KeyOrder
      <4> QED  BY <1>1, <1>3, <3>0, <4>2, <4>3, <4>4 DEF PrevOK
    <3> QED  BY <1>2, <3>1, <3>2
  <2>6. \A i \in 1 .. Len(stores') : \A m : stores'[i].loc = EntryLoc(m) =>
          m \in Node /\ m \in Now(0)
    <3>1. \A i \in 1 .. Len(stores') : i \in 1 .. Len(stores) \/ i \in Len(stores) + 1 .. Len(stores')
      BY <1>2, <1>3 DEF Grown
    <3>2. \A i \in 1 .. Len(stores) : \A m : stores[i].loc = EntryLoc(m) =>
            m \in Node /\ m \in Now(0)
      BY <1>0, <1>1 DEF WriterInv
    <3> QED  BY <1>3, <3>1, <3>2, Locations DEF Grown
  <2> QED
    BY <1>1, <1>3, <1>5, <2>1, <2>2, <2>3, <2>4, <2>5, <2>6 DEF WriterInv, Inserting
<1> QED  BY <1>3, <1>4, <1>6, <1>7 DEF IInv

(* The entry of the new node, before any pointer leads to it.              *)
LEMMA NewNodeInv ==
  ASSUME IInv, NewNode
  PROVE  IInv'
<1>0. TypeInv /\ ListInv /\ WriterInv
  BY DEF IInv
<1>1. /\ pc[Writer] = "new" /\ pc' = [pc EXCEPT ![Writer] = "link"]
      /\ view' = [view EXCEPT ![Writer] = Len(stores')]
      /\ level' = [level EXCEPT ![Writer] = 0]
      /\ sequence' = sequence /\ published' = published /\ entry' = entry /\ op' = op
      /\ node' = node /\ height' = height /\ prev' = prev /\ heightSeen' = heightSeen
  BY DEF NewNode, WriterView
<1>2. /\ pc \in [Threads -> Pcs] /\ view \in [Threads -> Nat] /\ level \in [Threads -> Nat]
      /\ Writer \in Threads /\ MaxHeight \in Nat /\ Len(stores) \in Nat
  BY <1>0, SkipListAssumption DEF TypeInv, WriterInv, Threads
<1>3. PICK x : x = entry.node
  OBVIOUS
<1>4. /\ x \in Node /\ x[2] = sequence /\ entry.live \in BOOLEAN /\ sequence \in Nat
      /\ \A m \in Now(0) : m = x \/ m[2] < sequence
      /\ \A m \in Now(0) : m[2] <= sequence
      /\ \A l \in Levels : x \in Now(l) <=> l < 0
      /\ height \in 1 .. MaxHeight /\ height <= MaxHeightNow
      /\ \A l \in 0 .. height - 1 : PrevOK(l, x)
      /\ prev \in [Levels -> Node \cup {head, Null}]
  <2>1. LinkedTo = 0
    BY <1>1 DEF LinkedTo
  <2> QED  BY <1>0, <1>1, <1>3, <2>1 DEF WriterInv, Inserting
<1>5. PICK s : s = Store(EntryLoc(x), entry.live, FALSE)
  OBVIOUS
<1>6. s.loc = EntryLoc(x) /\ s = [loc |-> EntryLoc(x), val |-> entry.live, rel |-> FALSE]
  BY <1>5 DEF Store
<1>7. s \in AnyStore
  <2>1. EntryLoc(x) \in (Node \cup {head}) \X Int
    BY <1>4 DEF EntryLoc
  <2> QED  BY <1>4, <1>6, <2>1 DEF AnyStore
<1>8. Plain(s)
  BY <1>3, <1>5, <1>6, <1>7, Locations DEF Plain, NewNode
<1>9. PlainDone(s)
  BY <1>0, <1>8, PlainStore
<1>10. /\ ListInv' /\ Grown /\ (\A l \in Levels : Now(l)' = Now(l))
       /\ Len(stores') = Len(stores) + 1 /\ stores'[Len(stores) + 1].loc = EntryLoc(x)
       /\ MaxHeightNow' = MaxHeightNow
  BY <1>6, <1>9, Locations DEF PlainDone
<1>11. TypeInv'
  <2>1. pc' \in [Threads -> Pcs]
    BY <1>1, <1>2 DEF Pcs, Inserting
  <2>2. view' \in [Threads -> Nat]
    BY <1>1, <1>2, <1>10 DEF Grown
  <2>3. level' \in [Threads -> Nat]
    BY <1>1, <1>2
  <2> QED  BY <1>0, <1>1, <1>10, <2>1, <2>2, <2>3 DEF TypeInv, Grown
<1>12. Only(Writer) /\ pc'[Writer] = "link" /\ view'[Writer] = Len(stores') /\ level'[Writer] = 0
  BY <1>1, <1>2 DEF Only, Same
<1>13. \A i \in Len(stores) + 1 .. Len(stores') : i = Len(stores) + 1
  BY <1>2, <1>10
<1>14. ThreadInv' /\ ReaderInv' /\ PublishedInv'
  <2>1. \A i \in Len(stores) + 1 .. Len(stores') : \A m :
          stores'[i].loc = EntryLoc(m) => m = entry.node
    BY <1>3, <1>10, <1>13, Locations
  <2>2. pc[Writer] \in Inserting
    BY <1>1 DEF Inserting
  <2> QED  BY <1>1, <1>10, <1>12, <2>1, <2>2, WriterStores
<1>15. WriterInv'
  <2>1. LinkedTo' = 0 /\ 0 \in Levels
    BY <1>2, <1>4, <1>12 DEF LinkedTo, Levels
  <2>2. \A l \in 0 .. height - 1 : PrevOK(l, x)'
    <3>1. \A l \in 0 .. height - 1 : l \in Levels
      BY <1>2, <1>4 DEF Levels
    <3> QED  BY <1>1, <1>4, <1>10, <3>1 DEF PrevOK
  <2>3. \A i \in 1 .. Len(stores') : \A m : stores'[i].loc = EntryLoc(m) =>
          m \in Node /\ (m \in Now(0) \/ m = x)
    <3>1. \A i \in 1 .. Len(stores') : i \in 1 .. Len(stores) \/ i = Len(stores) + 1
      BY <1>2, <1>10
    <3>2. \A i \in 1 .. Len(stores) : \A m : stores[i].loc = EntryLoc(m) =>
            m \in Node /\ m \in Now(0)
      BY <1>0, <1>1 DEF WriterInv
    <3> QED  BY <1>4, <1>10, <3>1, <3>2, Locations DEF Grown
  <2>4. \E i \in 1 .. Len(stores') : stores'[i].loc = EntryLoc(x)
    <3>1. Len(stores) + 1 \in 1 .. Len(stores')
      BY <1>2, <1>10
    <3> QED  BY <1>10, <3>1
  <2>5. 0 \in 0 .. height - 1
    BY <1>4
  <2> QED
    BY <1>1, <1>3, <1>4, <1>10, <1>12, <2>1, <2>2, <2>3, <2>4, <2>5 DEF WriterInv, Inserting
<1> QED  BY <1>10, <1>11, <1>14, <1>15 DEF IInv

(* One turn of Insert's loop: the new node at one more level.              *)
LEMMA LinkInv ==
  ASSUME IInv, Link
  PROVE  IInv'
<1>0. TypeInv /\ ListInv /\ WriterInv
  BY DEF IInv
<1>1. PICK i, x, p : i = level[Writer] /\ x = entry.node /\ p = prev[i]
  OBVIOUS
<1>2. PICK y : y = Latest(NextLoc(p, i))
  OBVIOUS
<1>3. /\ pc[Writer] = "link" /\ view' = [view EXCEPT ![Writer] = Len(stores')]
      /\ stores' = stores \o <<NoBarrier_SetNext(x, i, y), SetNext(p, i, x)>>
      /\ sequence' = sequence /\ published' = published /\ entry' = entry
      /\ height' = height /\ heightSeen' = heightSeen
  BY <1>1, <1>2 DEF Link, WriterView, LinkLevel
<1>4. /\ pc \in [Threads -> Pcs] /\ view \in [Threads -> Nat] /\ level \in [Threads -> Nat]
      /\ node \in [Threads -> Node \cup {head, Null}]
      /\ op \in [Threads -> [name : Names, key : Key]]
      /\ Writer \in Threads /\ MaxHeight \in Nat /\ Len(stores) \in Nat
  BY <1>0, SkipListAssumption DEF TypeInv, WriterInv, Threads
<1>5. /\ x \in Node /\ x[2] = sequence /\ entry.live \in BOOLEAN /\ sequence \in Nat
      /\ \A m \in Now(0) : m = x \/ m[2] < sequence
      /\ \A m \in Now(0) : m[2] <= sequence
      /\ \A l \in Levels : x \in Now(l) <=> l < i
      /\ height \in 1 .. MaxHeight /\ height <= MaxHeightNow
      /\ \A l \in i .. height - 1 : PrevOK(l, x)
      /\ i \in 0 .. height - 1
      /\ \E k \in 1 .. Len(stores) : stores[k].loc = EntryLoc(x)
      /\ prev \in [Levels -> Node \cup {head, Null}]
  <2>1. LinkedTo = i
    BY <1>1, <1>3 DEF LinkedTo
  <2> QED  BY <1>0, <1>1, <1>3, <2>1 DEF WriterInv, Inserting
<1>6. MaxHeightNow \in 1 .. MaxHeight
  BY <1>0, HeightIs
<1>7. i \in Levels /\ i \in Nat /\ i < MaxHeightNow /\ i \in i .. height - 1 /\ ~(i < i)
      /\ 0 \in Levels
  BY <1>4, <1>5, <1>6 DEF Levels
<1>8. Linking(i, x, p, y)
  <2>1. p \in Now(i) \cup {head} /\ Before(p, x) /\ \A m \in Now(i) : Before(p, m) => Before(x, m)
    BY <1>1, <1>5, <1>7 DEF PrevOK
  <2> QED  BY <1>2, <1>3, <1>5, <1>7, <2>1 DEF Linking
<1>9. LinkDone(i, x)
  BY <1>0, <1>8, LinkStores
<1>10. /\ ListInv' /\ Grown /\ MaxHeightNow' = MaxHeightNow
       /\ \A l \in Levels : Now(l)' = IF l = i THEN Now(l) \cup {x} ELSE Now(l)
       /\ \A j \in Len(stores) + 1 .. Len(stores') : stores'[j].loc[2] = i
  BY <1>9 DEF LinkDone
<1>11. \A j \in Len(stores) + 1 .. Len(stores') : \A m : stores'[j].loc # EntryLoc(m)
  BY <1>7, <1>10, Locations
<1>12. /\ \A j \in 1 .. Len(stores') : \A m : stores'[j].loc = EntryLoc(m) =>
            m \in Node /\ m \in Now(0)'
  <2>1. \A j \in 1 .. Len(stores') : j \in 1 .. Len(stores) \/ j \in Len(stores) + 1 .. Len(stores')
    BY <1>4, <1>10 DEF Grown
  <2>2. \A j \in 1 .. Len(stores) : \A m : stores[j].loc = EntryLoc(m) =>
          m \in Node /\ (m \in Now(0) \/ m = x)
    BY <1>0, <1>1 DEF WriterInv
  <2>3. x \in Now(0)' /\ Now(0) \subseteq Now(0)'
    <3>1. i = 0 \/ 0 < i
      BY <1>7
    <3> QED  BY <1>5, <1>7, <1>10, <3>1
  <2> QED  BY <1>10, <1>11, <2>1, <2>2, <2>3 DEF Grown
<1>13. /\ \A m \in Now(0)' : m = x \/ m[2] < sequence
       /\ \A m \in Now(0)' : m[2] <= sequence
  BY <1>5, <1>7, <1>10
<1>14. CASE i + 1 < height
  <2>1. level' = [level EXCEPT ![Writer] = @ + 1] /\ pc' = pc /\ prev' = prev /\ node' = node /\ op' = op
    BY <1>1, <1>14 DEF Link
  <2>2. TypeInv'
    <3>1. view' \in [Threads -> Nat] /\ level' \in [Threads -> Nat]
      BY <1>3, <1>4, <1>10, <2>1 DEF Grown
    <3> QED  BY <1>0, <1>3, <1>10, <2>1, <3>1 DEF TypeInv, Grown
  <2>3. Only(Writer) /\ view'[Writer] = Len(stores') /\ level'[Writer] = i + 1 /\ pc'[Writer] = "link"
    BY <1>1, <1>3, <1>4, <2>1 DEF Only, Same
  <2>4. ThreadInv' /\ ReaderInv' /\ PublishedInv'
    <3>1. pc[Writer] \in Inserting
      BY <1>3 DEF Inserting
    <3> QED  BY <1>3, <1>10, <1>11, <2>3, <3>1, WriterStores
  <2>5. WriterInv'
    <3>1. LinkedTo' = i + 1 /\ i + 1 \in 0 .. height' - 1
      BY <1>3, <1>5, <1>7, <1>14, <2>3 DEF LinkedTo
    <3>2. \A l \in Levels : x \in Now(l)' <=> l < i + 1
      <4>1. \A l \in Levels : l < i + 1 <=> (l = i \/ l < i)
        BY <1>7, Locations
      <4> QED  BY <1>5, <1>10, <4>1
    <3>3. \A l \in i + 1 .. height - 1 : PrevOK(l, x)'
      <4>1. \A l \in i + 1 .. height - 1 : l \in Levels /\ l # i /\ l \in i .. height - 1
        BY <1>4, <1>5, <1>7 DEF Levels
      <4> QED  BY <1>5, <1>10, <2>1, <4>1 DEF PrevOK
    <3>4. \E k \in 1 .. Len(stores') : stores'[k].loc = EntryLoc(x)
      <4>1. 1 .. Len(stores) \subseteq 1 .. Len(stores')
        BY <1>4, <1>10 DEF Grown
      <4> QED  BY <1>5, <1>10, <4>1 DEF Grown
    <3> QED
      BY <1>1, <1>3, <1>5, <1>10, <1>12, <1>13, <2>1, <2>3, <3>1, <3>2, <3>3, <3>4,
         SMTT(30)
      DEF WriterInv, Inserting
  <2> QED  BY <1>10, <2>2, <2>4, <2>5 DEF IInv
<1>15. CASE ~(i + 1 < height)
  <2>1. /\ level' = [level EXCEPT ![Writer] = 0] /\ pc' = [pc EXCEPT ![Writer] = "idle"]
        /\ prev' = [l \in Levels |-> Null] /\ node' = [node EXCEPT ![Writer] = Null]
        /\ op' = [op EXCEPT ![Writer] = [name |-> "none", key |-> head]]
    BY <1>1, <1>15 DEF Link
  <2>2. TypeInv'
    <3>1. view' \in [Threads -> Nat] /\ level' \in [Threads -> Nat]
      BY <1>3, <1>4, <1>10, <2>1 DEF Grown
    <3>2. pc' \in [Threads -> Pcs]
      BY <1>4, <2>1 DEF Pcs, Inserting
    <3>3. node' \in [Threads -> Node \cup {head, Null}]
      BY <1>4, <2>1
    <3>4. [name |-> "none", key |-> head] \in [name : Names, key : Key]
      BY DEF Names, Key
    <3>5. op' \in [Threads -> [name : Names, key : Key]]
      BY <1>4, <2>1, <3>4
    <3> QED  BY <1>0, <1>3, <1>10, <3>1, <3>2, <3>3, <3>5 DEF TypeInv, Grown
  <2>3. Only(Writer) /\ view'[Writer] = Len(stores') /\ pc'[Writer] = "idle"
    BY <1>1, <1>3, <1>4, <2>1 DEF Only, Same
  <2>4. ThreadInv' /\ ReaderInv' /\ PublishedInv'
    <3>1. pc[Writer] \in Inserting
      BY <1>3 DEF Inserting
    <3> QED  BY <1>3, <1>10, <1>11, <2>3, <3>1, WriterStores
  <2>5. WriterInv'
    <3>1. prev' \in [Levels -> Node \cup {head, Null}]
      BY <2>1
    <3> QED  BY <1>3, <1>5, <1>12, <1>13, <2>3, <3>1 DEF WriterInv, Inserting
  <2> QED  BY <1>10, <2>2, <2>4, <2>5 DEF IInv
<1> QED  BY <1>14, <1>15

(* The last sequence is set when every entry is linked.                    *)
LEMMA PublishInv ==
  ASSUME IInv, Publish
  PROVE  IInv'
<1>0. TypeInv /\ ListInv /\ WriterInv /\ ThreadInv /\ ReaderInv /\ PublishedInv
  BY DEF IInv
<1>1. /\ pc[Writer] = "idle" /\ published.sequence < sequence
      /\ published' = [time |-> Len(stores), sequence |-> sequence]
      /\ stores' = stores /\ sequence' = sequence /\ entry' = entry /\ height' = height
      /\ prev' = prev /\ pc' = pc /\ op' = op /\ node' = node /\ level' = level
      /\ view' = view /\ heightSeen' = heightSeen
  BY DEF Publish, threadVars
<1>2. Kept
  BY <1>0, <1>1, StoresKept
<1>3. Len(stores) \in Nat /\ sequence \in Nat /\ MaxHeight \in Nat /\ published.sequence \in Nat
  BY <1>0, SkipListAssumption DEF TypeInv, WriterInv, PublishedInv
<1>4. TypeInv'
  BY <1>0, <1>1, <1>3 DEF TypeInv
<1>5. Same(Writer) /\ Only(Writer)
  BY <1>1 DEF Same, Only
<1>6. WriterInv'
  BY <1>0, <1>1, <1>2, <1>5, WriterFrame
<1>7. ThreadInv' /\ ReaderInv'
  <2>1. Writer \notin Readers /\ Writer \in Threads
    BY SkipListAssumption DEF Threads
  <2>2. ThreadOK(Writer)'
    BY <1>0, <1>2, <1>5, <2>1, ThreadFrame DEF ThreadInv, Kept
  <2> QED  BY <1>2, <1>5, <2>1, <2>2, OthersFrame DEF Kept
<1>8. EntriesLinked(sequence, Len(stores))
  BY <1>0, <1>1 DEF EntriesLinked, WriterInv, Now
<1>9. Len(stores) \in Moments
  BY <1>0, <1>3 DEF ListInv, Moments
<1>10. \A r \in Readers : GetOK(r)'
  <2> SUFFICES ASSUME NEW r \in Readers PROVE GetOK(r)'
    OBVIOUS
  <2>1. GetOK(r) /\ op[r] \in [name : Names, key : Key]
    BY <1>0 DEF PublishedInv, TypeInv, Threads
  <2>2. op[r].key[2] \in Nat
    BY <2>1, KeyOrder
  <2>3. op[r].key[2] <= published.sequence => op[r].key[2] <= sequence
    BY <1>1, <1>3, <2>2
  <2> QED  BY <1>1, <1>2, <2>1, <2>3 DEF GetOK, Kept
<1>11. PublishedInv'
  <2>1. published'.time = Len(stores) /\ published'.sequence = sequence
    BY <1>1
  <2>2. published'.time \in Moments' /\ published'.sequence \in Nat /\ published'.sequence <= sequence'
    BY <1>1, <1>2, <1>3, <1>9, <2>1 DEF Kept
  <2>3. EntriesLinked(published.sequence, published.time)'
    BY <1>2, <1>8, <2>1 DEF Kept
  <2>4. pc'[Writer] \notin Inserting
    BY <1>1 DEF Inserting
  <2> QED  BY <1>10, <2>2, <2>3, <2>4 DEF PublishedInv
<1> QED  BY <1>2, <1>4, <1>6, <1>7, <1>11 DEF IInv, Kept

(* A call, or the end of a call, of a reader: where it leaves pc, op,      *)
(* node, level and view.                                                   *)
ReaderStep(r, p, o, x, l, v) ==
  /\ pc' = [pc EXCEPT ![r] = p] /\ op' = [op EXCEPT ![r] = o]
  /\ node' = [node EXCEPT ![r] = x] /\ level' = [level EXCEPT ![r] = l]
  /\ view' = [view EXCEPT ![r] = v] /\ heightSeen' = heightSeen
  /\ stores' = stores /\ sequence' = sequence /\ published' = published
  /\ entry' = entry /\ height' = height /\ prev' = prev

ReaderStepOK(p, o, x, l, v) ==
  /\ p \in {"idle", "height", "done"} /\ o \in [name : Names, key : Key]
  /\ x \in Node \cup {head, Null} /\ l \in Nat /\ v \in Moments
  /\ p = "height" => /\ o.name \notin {"none", "Next"}
                     /\ o.name # "FindLast" => o.key # head
  /\ p # "height" => x \in LinkedAt(0, v) \cup {Null}
  /\ p = "done" => o.name # "none" /\ Answers(o, x, LinkedAt(0, v))
  /\ o.name = "Get" => /\ o.key # head /\ o.key[2] <= published.sequence
                       /\ EntriesLinked(o.key[2], v)

(* Such a step keeps the invariant.                                        *)
LEMMA ReaderStepInv ==
  ASSUME IInv, NEW r \in Readers, NEW p, NEW o, NEW x, NEW l, NEW v,
         ReaderStep(r, p, o, x, l, v), ReaderStepOK(p, o, x, l, v)
  PROVE  IInv'
<1>0. TypeInv /\ ListInv /\ WriterInv /\ ThreadInv /\ ReaderInv /\ PublishedInv
  BY DEF IInv
<1>1. r \in Threads /\ r # Writer /\ Writer \in Threads /\ v \in Nat
  BY <1>0, SkipListAssumption DEF Threads, ReaderStepOK, Moments, TypeInv
<1>2. /\ pc \in [Threads -> Pcs] /\ view \in [Threads -> Nat] /\ level \in [Threads -> Nat]
      /\ node \in [Threads -> Node \cup {head, Null}]
      /\ op \in [Threads -> [name : Names, key : Key]]
  BY <1>0 DEF TypeInv
<1>3. Kept
  BY <1>0, StoresKept DEF ReaderStep
<1>4. TypeInv'
  <2>1. p \in Pcs
    BY DEF ReaderStepOK, Pcs, Inserting
  <2>2. pc' \in [Threads -> Pcs] /\ view' \in [Threads -> Nat] /\ level' \in [Threads -> Nat]
    BY <1>1, <1>2, <2>1 DEF ReaderStep, ReaderStepOK
  <2>3. node' \in [Threads -> Node \cup {head, Null}]
    BY <1>2 DEF ReaderStep, ReaderStepOK
  <2>4. op' \in [Threads -> [name : Names, key : Key]]
    BY <1>2 DEF ReaderStep, ReaderStepOK
  <2> QED  BY <1>0, <2>2, <2>3, <2>4 DEF TypeInv, ReaderStep
<1>5. /\ pc'[r] = p /\ op'[r] = o /\ node'[r] = x /\ level'[r] = l /\ view'[r] = v
      /\ Only(r)
  BY <1>1, <1>2 DEF ReaderStep, Only, Same
<1>6. ThreadOK(r)'
  <2>1. v \in Moments' /\ p # "search"
    BY <1>3 DEF ReaderStepOK, Kept
  <2> QED  BY <1>5, <2>1 DEF ThreadOK, ReaderStepOK
<1>7. ReaderOK(r)'
  BY <1>3, <1>5 DEF ReaderOK, ReaderStepOK, Kept
<1>8. ThreadInv' /\ ReaderInv'
  BY <1>3, <1>5, <1>6, <1>7, OthersFrame DEF Kept
<1>9. Same(Writer)
  BY <1>1, <1>5 DEF Only
<1>10. WriterInv'
  BY <1>0, <1>3, <1>9, WriterFrame DEF ReaderStep
<1>11. GetOK(r)'
  <2>1. published' = published
    BY DEF ReaderStep
  <2> QED  BY <1>3, <1>5, <2>1 DEF GetOK, ReaderStepOK, Kept
<1>12. PublishedInv'
  BY <1>0, <1>3, <1>5, <1>9, <1>11, PublishedFrame DEF ReaderStep, Same
<1> QED  BY <1>3, <1>4, <1>8, <1>10, <1>12 DEF IInv, Kept

(* What a reader that is not in a search knows.                            *)
LEMMA ReaderKnows ==
  ASSUME IInv, NEW r \in Readers
  PROVE  /\ TypeInv /\ ListInv /\ PublishedInv /\ r \in Threads
         /\ view[r] \in Moments /\ view[r] \in Nat /\ level[r] \in Nat
         /\ op[r] \in [name : Names, key : Key] /\ node[r] \in Node \cup {head, Null}
         /\ pc[r] \in {"idle", "done"} => node[r] \in LinkedAt(0, view[r]) \cup {Null}
         /\ 0 \in Levels /\ \A v \in Moments : v \in Nat /\ LinkedAt(0, v) \subseteq Node
         /\ op[r].name = "Get" =>
              /\ op[r].key # head /\ op[r].key[2] <= published.sequence
              /\ EntriesLinked(op[r].key[2], view[r])
         /\ /\ pc = [pc EXCEPT ![r] = pc[r]] /\ op = [op EXCEPT ![r] = op[r]]
            /\ node = [node EXCEPT ![r] = node[r]] /\ level = [level EXCEPT ![r] = level[r]]
            /\ view = [view EXCEPT ![r] = view[r]]
<1>0. TypeInv /\ ListInv /\ PublishedInv /\ r \in Threads /\ ThreadOK(r) /\ ReaderOK(r)
  BY DEF IInv, ThreadInv, ReaderInv, Threads
<1>1. /\ pc \in [Threads -> Pcs] /\ view \in [Threads -> Nat] /\ level \in [Threads -> Nat]
      /\ node \in [Threads -> Node \cup {head, Null}]
      /\ op \in [Threads -> [name : Names, key : Key]]
  BY <1>0 DEF TypeInv
<1>2. 0 \in Levels /\ \A v \in Moments : v \in Nat
  BY <1>0, SkipListAssumption DEF Levels, Moments, TypeInv
<1>3. \A v \in Moments : LinkedAt(0, v) \subseteq Node
  BY <1>0, <1>2 DEF ListInv, ListAt
<1>4. /\ pc = [pc EXCEPT ![r] = pc[r]] /\ op = [op EXCEPT ![r] = op[r]]
      /\ node = [node EXCEPT ![r] = node[r]] /\ level = [level EXCEPT ![r] = level[r]]
      /\ view = [view EXCEPT ![r] = view[r]]
  BY <1>0, <1>1
<1>5. /\ view[r] \in Moments /\ (pc[r] \in {"idle", "done"} => node[r] \in LinkedAt(0, view[r]) \cup {Null})
      /\ GetOK(r)
  BY <1>0 DEF ThreadOK, ReaderOK, PublishedInv
<1> QED  BY <1>0, <1>1, <1>2, <1>3, <1>4, <1>5 DEF GetOK

(* DBImpl::Get takes its view and its sequence under mutex_.               *)
LEMMA GetInv ==
  ASSUME IInv, NEW r \in Readers, NEW u \in UserKeys, Get(r, u)
  PROVE  IInv'
<1>0. /\ TypeInv /\ ListInv /\ PublishedInv /\ view[r] \in Moments /\ view[r] \in Nat
      /\ level[r] \in Nat /\ level = [level EXCEPT ![r] = level[r]]
  BY ReaderKnows
<1>1. PICK v, o : v = LaterOf(view[r], published.time)
                  /\ o = [name |-> "Get", key |-> <<u, published.sequence>>]
  OBVIOUS
<1>2. ReaderStep(r, "height", o, Null, level[r], v)
  BY <1>0, <1>1 DEF Get, Search, ReaderStep, writerVars
<1>3. published.time \in Moments /\ published.time \in Nat /\ published.sequence \in Nat
  BY <1>0, SkipListAssumption DEF PublishedInv, Moments, TypeInv
<1>4. v \in Moments /\ v \in Nat /\ published.time <= v
  BY <1>0, <1>1, <1>3 DEF LaterOf
<1>5. LinkedAt(0, published.time) \subseteq LinkedAt(0, v)
  BY <1>3, <1>4, LinkedGrows
<1>6. EntriesLinked(published.sequence, v)
  BY <1>0, <1>5 DEF EntriesLinked, PublishedInv
<1>7. /\ o.name = "Get" /\ o.key \in Key /\ o.key # head /\ o.key[2] = published.sequence
      /\ o \in [name : Names, key : Key]
  <2>1. <<u, published.sequence>> \in UserKeys \X Nat
    BY <1>3
  <2>2. <<u, published.sequence>> # head
    <3>1. u # 0
      BY SkipListAssumption
    <3> QED  BY <3>1 DEF head
  <2> QED  BY <1>1, <2>1, <2>2 DEF Key, Names
<1>8. published.sequence <= published.sequence
  BY <1>3
<1>9. ReaderStepOK("height", o, Null, level[r], v)
  BY <1>0, <1>4, <1>6, <1>7, <1>8 DEF ReaderStepOK
<1> QED  BY <1>2, <1>9, ReaderStepInv

(* NewIterator takes its view under mutex_.                                *)
LEMMA NewIteratorInv ==
  ASSUME IInv, NEW r \in Readers, NewIterator(r)
  PROVE  IInv'
<1>0. /\ TypeInv /\ PublishedInv /\ view[r] \in Moments /\ view[r] \in Nat /\ level[r] \in Nat
      /\ op[r] \in [name : Names, key : Key]
      /\ pc = [pc EXCEPT ![r] = pc[r]] /\ op = [op EXCEPT ![r] = op[r]]
      /\ level = [level EXCEPT ![r] = level[r]]
      /\ op[r].name = "Get" =>
           /\ op[r].key # head /\ op[r].key[2] <= published.sequence
           /\ EntriesLinked(op[r].key[2], view[r])
  BY ReaderKnows
<1>1. ReaderStep(r, "idle", op[r], Null, level[r], published.time)
  BY <1>0 DEF NewIterator, ReaderStep, writerVars
<1>2. published.time \in Moments /\ published.time \in Nat /\ view[r] <= published.time
  BY <1>0, SkipListAssumption DEF PublishedInv, Moments, TypeInv, NewIterator
<1>3. LinkedAt(0, view[r]) \subseteq LinkedAt(0, published.time)
  BY <1>0, <1>2, LinkedGrows
<1>4. EntriesLinked(op[r].key[2], view[r]) => EntriesLinked(op[r].key[2], published.time)
  BY <1>3 DEF EntriesLinked
<1>5. ReaderStepOK("idle", op[r], Null, level[r], published.time)
  BY <1>0, <1>2, <1>4 DEF ReaderStepOK
<1> QED  BY <1>1, <1>5, ReaderStepInv

(* Seek, SeekToLast and Prev start a search.                               *)
LEMMA SeekInv ==
  ASSUME IInv, NEW r \in Readers, NEW name \in {"FindGreaterOrEqual", "FindLast", "FindLessThan"},
         NEW key \in Key, name # "FindLast" => key # head,
         Search(r, name, key), UNCHANGED <<writerVars, node, level, view, heightSeen>>
  PROVE  IInv'
<1>0. /\ view[r] \in Moments /\ level[r] \in Nat /\ node[r] \in Node \cup {head, Null}
      /\ level = [level EXCEPT ![r] = level[r]] /\ node = [node EXCEPT ![r] = node[r]]
      /\ view = [view EXCEPT ![r] = view[r]]
  BY ReaderKnows
<1>1. PICK o : o = [name |-> name, key |-> key]
  OBVIOUS
<1>2. ReaderStep(r, "height", o, node[r], level[r], view[r])
  BY <1>0, <1>1 DEF Search, ReaderStep, writerVars
<1>3. o.name = name /\ o.key = key /\ o \in [name : Names, key : Key]
  BY <1>1 DEF Names
<1>4. ReaderStepOK("height", o, node[r], level[r], view[r])
  BY <1>0, <1>3 DEF ReaderStepOK
<1> QED  BY <1>2, <1>4, ReaderStepInv

(* SeekToFirst and Next are one exact load.                                *)
LEMMA LoadNextInv ==
  ASSUME IInv, NEW r \in Readers, NEW x \in LinkedAt(0, view[r]) \cup {head}, LoadNext(r, x, "Next")
  PROVE  IInv'
<1>0. /\ TypeInv /\ ListInv /\ view[r] \in Moments /\ level[r] \in Nat /\ 0 \in Levels
      /\ level = [level EXCEPT ![r] = level[r]]
      /\ \A v \in Moments : v \in Nat /\ LinkedAt(0, v) \subseteq Node
  BY ReaderKnows
<1>1. PICK i \in Readable(NextLoc(x, 0), view[r]) :
        /\ view' = [view EXCEPT ![r] = Acquired(@, i)]
        /\ node' = [node EXCEPT ![r] = Value(i)]
  BY DEF LoadNext
<1>2. PICK w, y, o : w = Acquired(view[r], i) /\ y = Value(i) /\ o = [name |-> "Next", key |-> x]
  OBVIOUS
<1>3. ReaderStep(r, "done", o, y, level[r], w)
  BY <1>0, <1>1, <1>2 DEF LoadNext, ReaderStep, writerVars
<1>4. /\ w \in Moments /\ Follows(x, y, LinkedAt(0, w)) /\ y \in LinkedAt(0, w) \cup {Null}
  BY <1>0, <1>2, LoadIsExact
<1>5. IsFirst(y, {n \in LinkedAt(0, w) : Before(x, n)})
  <2>1. CASE y = Null
    BY <1>4, <2>1 DEF IsFirst, Follows
  <2>2. CASE y # Null
    BY <1>4, <2>2 DEF IsFirst, Follows
  <2> QED  BY <2>1, <2>2
<1>6. o.name = "Next" /\ o.key = x /\ o \in [name : Names, key : Key]
  <2>1. x \in Key
    BY <1>0, KeyOrder
  <2> QED  BY <1>2, <2>1 DEF Names
<1>7. Answers(o, y, LinkedAt(0, w))
  BY <1>5, <1>6 DEF Answers
<1>8. y \in Node \cup {head, Null}
  BY <1>0, <1>4
<1>9. ReaderStepOK("done", o, y, level[r], w)
  BY <1>0, <1>4, <1>6, <1>7, <1>8 DEF ReaderStepOK
<1> QED  BY <1>3, <1>9, ReaderStepInv

(* A call returns.                                                         *)
LEMMA ReturnInv ==
  ASSUME IInv, NEW r \in Readers, Return(r)
  PROVE  IInv'
<1>0. /\ view[r] \in Moments /\ node[r] \in Node \cup {head, Null}
      /\ pc[r] \in {"idle", "done"} => node[r] \in LinkedAt(0, view[r]) \cup {Null}
      /\ node = [node EXCEPT ![r] = node[r]] /\ view = [view EXCEPT ![r] = view[r]]
  BY ReaderKnows
<1>1. PICK o, x : o = [name |-> "none", key |-> head]
                  /\ x = IF op[r].name = "Get" THEN Null ELSE node[r]
  OBVIOUS
<1>2. ReaderStep(r, "idle", o, x, 0, view[r])
  BY <1>0, <1>1 DEF Return, ReaderStep, writerVars
<1>3. o.name = "none" /\ o \in [name : Names, key : Key]
  BY <1>1 DEF Names, Key
<1>4. x \in LinkedAt(0, view[r]) \cup {Null} /\ x \in Node \cup {head, Null}
  BY <1>0, <1>1 DEF Return
<1>5. ReaderStepOK("idle", o, x, 0, view[r])
  BY <1>0, <1>3, <1>4 DEF ReaderStepOK
<1> QED  BY <1>2, <1>5, ReaderStepInv

-----------------------------------------------------------------------------
(* The constructor's list is empty at every level.                         *)
LEMMA InitInv ==
  ASSUME Init
  PROVE  IInv
<1>0. MaxHeight \in Nat /\ MaxHeight >= 1 /\ Writer \notin Readers
  BY SkipListAssumption
<1>1. PICK M, a, q :
        /\ M = MaxHeight + 1 /\ a = <<Store(HeightLoc, 1, FALSE)>>
        /\ q = [i \in 1 .. MaxHeight |-> Store(NextLoc(head, i - 1), Null, TRUE)]
  OBVIOUS
<1>2. stores = a \o q
  BY <1>1 DEF Init
<1>3. a \in Seq(AnyStore) /\ Len(a) = 1 /\ a[1] = [loc |-> HeightLoc, val |-> 1, rel |-> FALSE]
  <2>1. HeightLoc \in (Node \cup {head}) \X Int
    BY DEF HeightLoc
  <2>2. Store(HeightLoc, 1, FALSE) \in AnyStore
    BY <2>1 DEF AnyStore, Store
  <2> QED  BY <1>1, <2>2 DEF Store
<1>4. /\ q \in Seq(AnyStore) /\ Len(q) = MaxHeight
      /\ \A i \in 1 .. MaxHeight : q[i] = [loc |-> NextLoc(head, i - 1), val |-> Null, rel |-> TRUE]
  <2>1. \A i \in 1 .. MaxHeight : Store(NextLoc(head, i - 1), Null, TRUE) \in AnyStore
    <3> TAKE i \in 1 .. MaxHeight
    <3>1. NextLoc(head, i - 1) \in (Node \cup {head}) \X Int
      BY <1>0 DEF NextLoc
    <3> QED  BY <3>1 DEF Store, AnyStore
  <2>2. q \in [1 .. MaxHeight -> AnyStore]
    BY <1>1, <2>1
  <2>3. q \in Seq(AnyStore) /\ Len(q) = MaxHeight
    BY <1>0, <2>2
  <2> QED  BY <1>1, <2>3 DEF Store
<1>5. /\ stores \in Seq(AnyStore) /\ Len(stores) = M
      /\ \A i \in 1 .. M : stores[i] = IF i <= 1 THEN a[i] ELSE q[i - 1]
  <2>1. /\ a \o q \in Seq(AnyStore) /\ Len(a \o q) = Len(a) + Len(q)
        /\ \A i \in 1 .. Len(a) + Len(q) :
             (a \o q)[i] = IF i <= Len(a) THEN a[i] ELSE q[i - Len(a)]
    BY <1>3, <1>4, ConcatProperties, Zenon
  <2>2. Len(a) + Len(q) = M
    BY <1>0, <1>1, <1>3, <1>4
  <2> QED  BY <1>2, <1>3, <2>1, <2>2, Zenon
<1>6. M \in Nat /\ M >= 2 /\ 1 \in 1 .. M /\ stores[1].loc = HeightLoc /\ stores[1].val = 1
  <2>1. M = MaxHeight + 1
    BY <1>1
  <2>2. M \in Nat /\ M >= 2 /\ 1 \in 1 .. M /\ 1 <= 1
    BY <1>0, <2>1
  <2>3. stores[1] = a[1]
    BY <1>5, <2>2
  <2> QED  BY <1>3, <2>2, <2>3
<1>7. ASSUME NEW i \in 1 .. M, i # 1
      PROVE  stores[i] = [loc |-> NextLoc(head, i - 2), val |-> Null, rel |-> TRUE]
  <2>1. i - 1 \in 1 .. MaxHeight /\ ~(i <= 1) /\ (i - 1) - 1 = i - 2
    BY <1>0, <1>1, <1>7
  <2> QED  BY <1>4, <1>5, <2>1
<1>8. ASSUME NEW i \in 1 .. M, i # 1
      PROVE  /\ stores[i].loc = NextLoc(head, i - 2) /\ stores[i].val = Null /\ stores[i].rel
             /\ i - 2 \in Levels
  <2>1. M = MaxHeight + 1
    BY <1>1
  <2>2. i - 2 \in Levels
    BY <1>0, <1>8, <2>1 DEF Levels
  <2>3. stores[i] = [loc |-> NextLoc(head, i - 2), val |-> Null, rel |-> TRUE]
    BY <1>7, <1>8
  <2> QED  BY <2>2, <2>3
<1>9. \A l \in Levels : LinkedAt(l, M) = {}
  <2>1. \A l \in Levels : \A i \in 1 .. M : stores[i].loc[2] = l => stores[i].val = Null
    BY <1>6, <1>8, Locations
  <2> QED  BY <2>1 DEF LinkedAt
<1>10. Moments = {M} /\ 0 \in Levels
  BY <1>0, <1>1, <1>5 DEF Moments, Levels
<1>11. \A i \in 1 .. M : \A m : stores[i].loc # EntryLoc(m)
  BY <1>6, <1>8, Locations
<1>12. ASSUME NEW l \in Levels PROVE ListAt(l, M)
  <2>1. l + 2 \in 1 .. M /\ l + 2 # 1 /\ (l + 2) - 2 = l /\ l \in Nat
    BY <1>0, <1>1 DEF Levels
  <2>2. stores[l + 2].loc = NextLoc(head, l) /\ stores[l + 2].val = Null
    BY <1>8, <2>1
  <2>3. ASSUME NEW j \in (l + 2) + 1 .. M PROVE stores[j].loc # NextLoc(head, l)
    <3>1. j \in 1 .. M /\ j # 1 /\ j - 2 # l
      BY <1>6, <2>1
    <3> QED  BY <1>8, <3>1, Locations
  <2>4. IsLast(l + 2, NextLoc(head, l), M)
    BY <2>1, <2>2, <2>3 DEF IsLast
  <2>5. Follows(head, Null, {})
    BY DEF Follows
  <2>6. SortedAt(l, M)
    BY <1>9, <2>1, <2>2, <2>4, <2>5 DEF SortedAt
  <2> QED  BY <1>9, <2>6 DEF ListAt
<1>13. \A i \in 1 .. M : \A x : \A l \in Levels : stores[i].loc = NextLoc(x, l) => x = head /\ stores[i].rel
  BY <1>6, <1>8, Locations
<1>14. Heights
  <2>1. ASSUME NEW j \in 1 + 1 .. M PROVE stores[j].loc # HeightLoc
    <3>1. j \in 1 .. M /\ j # 1
      BY <1>6
    <3> QED  BY <1>8, <3>1, Locations
  <2>2. IsLast(1, HeightLoc, M)
    BY <1>6, <2>1 DEF IsLast
  <2>3. \A i \in 1 .. M : stores[i].loc = HeightLoc => stores[i].val \in 1 .. MaxHeight
    <3>1. 1 \in 1 .. MaxHeight
      BY <1>0
    <3> QED  BY <1>6, <1>8, <3>1, Locations
  <2>4. \A l \in Levels : Now(l) = {}
    BY <1>5, <1>9 DEF Now
  <2> QED  BY <1>5, <1>6, <2>2, <2>3, <2>4 DEF Heights
<1>15. ListInv
  <2>1. Barriers
    BY <1>5, <1>13 DEF Barriers
  <2>2. Len(stores) >= MaxHeight + 1
    BY <1>0, <1>1, <1>5
  <2> QED  BY <1>5, <1>10, <1>12, <1>13, <1>14, <2>1, <2>2 DEF ListInv
<1>16. /\ pc = [t \in Threads |-> "idle"] /\ view = [t \in Threads |-> M]
       /\ node = [t \in Threads |-> Null] /\ level = [t \in Threads |-> 0]
       /\ op = [t \in Threads |-> [name |-> "none", key |-> head]]
       /\ heightSeen = [t \in Threads |-> 1]
       /\ published = [time |-> M, sequence |-> 0] /\ sequence = 0
       /\ entry = [node |-> Null, live |-> TRUE] /\ prev = [l \in Levels |-> Null]
  BY <1>1 DEF Init
<1>17. TypeInv
  <2>1. "idle" \in Pcs /\ [name |-> "none", key |-> head] \in [name : Names, key : Key]
    BY DEF Pcs, Names, Key
  <2>2. /\ pc \in [Threads -> Pcs] /\ view \in [Threads -> Nat] /\ level \in [Threads -> Nat]
        /\ node \in [Threads -> Node \cup {head, Null}]
        /\ heightSeen \in [Threads -> Nat]
    BY <1>6, <1>16, <2>1
  <2>3. op \in [Threads -> [name : Names, key : Key]]
    BY <1>16, <2>1
  <2>4. published \in [time : Nat, sequence : Nat] /\ entry \in [node : Node \cup {Null}, live : BOOLEAN]
    BY <1>6, <1>16
  <2> QED  BY <1>5, <2>2, <2>3, <2>4 DEF TypeInv
<1>18. Now(0) = {}
  BY <1>5, <1>9, <1>10 DEF Now
<1>19. WriterInv
  <2>1. Writer \in Threads
    BY DEF Threads
  <2>2. view[Writer] = Len(stores) /\ pc[Writer] = "idle" /\ sequence \in Nat
    BY <1>5, <1>16, <2>1
  <2>3. prev \in [Levels -> Node \cup {head, Null}]
    BY <1>16
  <2> QED  BY <1>5, <1>11, <1>18, <2>2, <2>3 DEF WriterInv, Inserting
<1>20. ThreadInv /\ ReaderInv
  <2>1. \A t \in Threads : pc[t] = "idle" /\ view[t] \in Moments /\ node[t] = Null
    BY <1>10, <1>16
  <2> QED  BY <2>1 DEF ThreadInv, ThreadOK, ReaderInv, ReaderOK, Threads
<1>21. PublishedInv
  <2>1. \A r \in Readers : op[r].name = "none"
    BY <1>16 DEF Threads
  <2>2. published.time = M /\ published.sequence = 0 /\ pc[Writer] = "idle"
    BY <1>16 DEF Threads
  <2>3. EntriesLinked(0, M)
    BY <1>5, <1>11 DEF EntriesLinked
  <2> QED  BY <1>10, <1>16, <2>1, <2>2, <2>3 DEF PublishedInv, GetOK, Inserting
<1> QED  BY <1>15, <1>17, <1>19, <1>20, <1>21 DEF IInv

(* Every step keeps the invariant.                                         *)
LEMMA StepInv ==
  ASSUME IInv, [Next]_vars
  PROVE  IInv'
<1>1. CASE UNCHANGED vars
  <2>1. /\ stores' = stores /\ sequence' = sequence /\ published' = published
        /\ entry' = entry /\ height' = height /\ prev' = prev /\ heightSeen' = heightSeen
        /\ pc' = pc /\ op' = op /\ node' = node /\ level' = level /\ view' = view
    BY <1>1 DEF vars, writerVars, threadVars
  <2>2. TypeInv /\ ListInv /\ WriterInv /\ ThreadInv /\ ReaderInv /\ PublishedInv
    BY DEF IInv
  <2>3. Kept
    BY <2>1, <2>2, StoresKept
  <2>4. TypeInv'
    BY <2>1, <2>2 DEF TypeInv
  <2>5. Same(Writer) /\ Only(Writer) /\ Writer \notin Readers /\ Writer \in Threads
    BY <2>1, SkipListAssumption DEF Same, Only, Threads
  <2>6. ThreadOK(Writer)'
    BY <2>2, <2>3, <2>5, ThreadFrame DEF ThreadInv, Kept
  <2>7. ThreadInv' /\ ReaderInv'
    BY <2>3, <2>5, <2>6, OthersFrame DEF Kept
  <2>8. WriterInv'
    BY <2>1, <2>2, <2>3, <2>5, WriterFrame
  <2>9. PublishedInv'
    BY <2>1, <2>2, <2>3, <2>5, PublishedFrame
  <2> QED  BY <2>3, <2>4, <2>7, <2>8, <2>9 DEF IInv, Kept
<1>2. ASSUME NEW t \in Threads, GetMaxHeight(t) \/ SearchStep(t) PROVE IInv'
  BY <1>2, GetMaxHeightInv, SearchStepInv
<1>3. ASSUME NEW w \in Writes, Add(w[1], w[2]) PROVE IInv'
  <2>1. w[1] \in UserKeys /\ w[2] \in BOOLEAN
    BY SkipListAssumption
  <2> QED  BY <1>3, <2>1, AddInv
<1>4. ASSUME NEW h \in RandomHeight, SetMaxHeight(h) PROVE IInv'
  BY <1>4, SetMaxHeightInv DEF RandomHeight
<1>5. CASE NewNode \/ Link \/ Publish
  BY <1>5, NewNodeInv, LinkInv, PublishInv
<1>6. ASSUME NEW r \in Readers,
             \/ \E u \in UserKeys : Get(r, u)
             \/ \E u \in UserKeys, s \in 0 .. MaxSequence : Seek(r, <<u, s>>)
             \/ NewIterator(r) \/ SeekToLast(r) \/ Prev(r)
             \/ SeekToFirst(r) \/ Next_(r) \/ Return(r)
      PROVE  IInv'
  <2>0. /\ view[r] \in Moments /\ LinkedAt(0, view[r]) \subseteq Node
        /\ pc[r] \in {"idle", "done"} => node[r] \in LinkedAt(0, view[r]) \cup {Null}
    BY ReaderKnows
  <2>1. ASSUME NEW u \in UserKeys, Get(r, u) PROVE IInv'
    BY <2>1, GetInv
  <2>2. ASSUME NEW u \in UserKeys, NEW s \in 0 .. MaxSequence, Seek(r, <<u, s>>) PROVE IInv'
    <3>1. <<u, s>> \in Key /\ <<u, s>> # head
      <4>1. u # 0
        BY SkipListAssumption
      <4> QED  BY <4>1 DEF Key, head
    <3> QED  BY <2>2, <3>1, SeekInv DEF Seek
  <2>3. CASE NewIterator(r) \/ Return(r)
    BY <2>3, NewIteratorInv, ReturnInv
  <2>4. CASE SeekToLast(r)
    <3>1. head \in Key
      BY DEF Key
    <3> QED  BY <2>4, <3>1, SeekInv DEF SeekToLast
  <2>5. CASE Prev(r)
    <3>1. node[r] \in Key /\ node[r] # head
      BY <2>0, <2>5, KeyOrder DEF Prev
    <3> QED  BY <2>5, <3>1, SeekInv DEF Prev
  <2>6. CASE SeekToFirst(r)
    BY <2>6, LoadNextInv DEF SeekToFirst
  <2>7. CASE Next_(r)
    <3>1. node[r] \in LinkedAt(0, view[r]) \cup {head}
      BY <2>0, <2>7 DEF Next_, LoadNext
    <3> QED  BY <2>7, <3>1, LoadNextInv DEF Next_
  <2> QED  BY <1>6, <2>1, <2>2, <2>3, <2>4, <2>5, <2>6, <2>7
<1> QED  BY <1>1, <1>2, <1>3, <1>4, <1>5, <1>6 DEF Next

-----------------------------------------------------------------------------
(* The theorems.                                                           *)

(* The invariant holds in every behaviour.                                 *)
LEMMA InvariantHolds == Spec => []IInv
<1>1. Init => IInv
  BY InitInv
<1>2. IInv /\ [Next]_vars => IInv'
  BY StepInv
<1> QED  BY <1>1, <1>2, PTL DEF Spec

(* The order has one first and one last node.                              *)
LEMMA FirstAndLast ==
  ASSUME NEW T, T \subseteq Node, NEW y
  PROVE  /\ IsFirst(y, T) => FirstOf(T) = y
         /\ IsFinal(y, T) => LastOf(T) = y
<1>1. ASSUME IsFirst(y, T) PROVE FirstOf(T) = y
  <2>1. CASE T = {}
    BY <1>1, <2>1 DEF IsFirst, FirstOf
  <2>2. CASE T # {}
    <3> DEFINE P(n) == \A m \in T : m = n \/ Before(n, m)
               c == CHOOSE n \in T : P(n)
    <3>1. y \in T /\ P(y)
      BY <1>1, <2>2 DEF IsFirst
    <3>2. c \in T /\ P(c)
      BY <3>1
    <3>3. c = y
      <4>1. c \in Key /\ y \in Key
        BY <3>1, <3>2, KeyOrder
      <4>2. (y = c \/ Before(c, y)) /\ (c = y \/ Before(y, c))
        BY <3>1, <3>2
      <4> QED  BY <4>1, <4>2, KeyOrder
    <3> QED  BY <2>2, <3>3 DEF FirstOf
  <2> QED  BY <2>1, <2>2
<1>2. ASSUME IsFinal(y, T) PROVE LastOf(T) = y
  <2>1. CASE T = {}
    BY <1>2, <2>1 DEF IsFinal, LastOf
  <2>2. CASE T # {}
    <3> DEFINE P(n) == \A m \in T : m = n \/ Before(m, n)
               c == CHOOSE n \in T : P(n)
    <3>1. y \in T /\ P(y)
      BY <1>2, <2>2 DEF IsFinal
    <3>2. c \in T /\ P(c)
      BY <3>1
    <3>3. c = y
      <4>1. c \in Key /\ y \in Key
        BY <3>1, <3>2, KeyOrder
      <4>2. (y = c \/ Before(y, c)) /\ (c = y \/ Before(c, y))
        BY <3>1, <3>2
      <4> QED  BY <4>1, <4>2, KeyOrder
    <3> QED  BY <2>2, <3>3 DEF LastOf
  <2> QED  BY <2>1, <2>2
<1> QED  BY <1>1, <1>2

(* At every moment of an Insert each level is a sorted list that ends in   *)
(* null and skips over the level below.                                    *)
THEOREM LevelsAreNested == Spec => []LevelsNested
<1>1. IInv => LevelsNested
  <2> SUFFICES ASSUME IInv, NEW l \in Levels
               PROVE  /\ l > 0 => Now(l) \subseteq Now(l - 1)
                      /\ \A n \in Now(l) \cup {head} :
                           Latest(NextLoc(n, l)) =
                             FirstOf({m \in Now(l) : n = head \/ Before(n, m)})
    BY DEF LevelsNested, Now
  <2>0. TypeInv /\ ListInv /\ l \in Nat /\ MaxHeight \in Nat
    BY Locations, SkipListAssumption DEF IInv
  <2>1. Len(stores) \in Moments
    BY <2>0 DEF ListInv, Moments, TypeInv
  <2>2. ListAt(l, Len(stores)) /\ Now(l) \subseteq Node
    BY <2>0, <2>1 DEF ListInv, ListAt, Now
  <2>3. l > 0 => Now(l) \subseteq Now(l - 1)
    <3> SUFFICES ASSUME l > 0 PROVE Now(l) \subseteq Now(l - 1)
      OBVIOUS
    <3>1. l - 1 \in Levels /\ l - 1 <= l
      BY <2>0 DEF Levels
    <3> QED  BY <2>2, <3>1 DEF ListAt, Now
  <2>4. ASSUME NEW n \in Now(l) \cup {head}
        PROVE  Latest(NextLoc(n, l)) =
                 FirstOf({m \in Now(l) : n = head \/ Before(n, m)})
    <3>1. PICK i \in 1 .. Len(stores) :
            IsLast(i, NextLoc(n, l), Len(stores)) /\ Follows(n, stores[i].val, Now(l))
      BY <2>2 DEF ListAt, SortedAt, Now
    <3>2. PICK y, T : y = stores[i].val /\ T = {m \in Now(l) : n = head \/ Before(n, m)}
      OBVIOUS
    <3>3. Latest(NextLoc(n, l)) = y
      BY <2>0, <3>1, <3>2, LatestIs
    <3>4. \A m \in Now(l) : m \in T <=> Before(n, m)
      BY <2>2, <3>2, KeyOrder
    <3>5. Follows(n, y, Now(l)) /\ T \subseteq Now(l)
      BY <3>1, <3>2
    <3>6. IsFirst(y, T)
      BY <3>4, <3>5 DEF Follows, IsFirst
    <3>7. FirstOf(T) = y
      BY <2>2, <3>5, <3>6, FirstAndLast
    <3> QED  BY <3>2, <3>3, <3>7
  <2> QED  BY <2>3, <2>4
<1> QED  BY <1>1, InvariantHolds, PTL

(* Reads need no lock: no search reads memory that is not yet written, and *)
(* each call of a reader answers as a list that held still would have, the *)
(* list of one moment of the writer's history.                             *)
THEOREM SearchesAreExact == Spec => []SearchExact
<1>1. IInv => SearchExact
  <2> SUFFICES ASSUME IInv, NEW r \in Readers
               PROVE  /\ pc[r] # "garbage"
                      /\ pc[r] = "done" => node[r] = Answer(op[r], LinkedAt(0, view[r]))
    BY DEF SearchExact
  <2>1. /\ op[r] \in [name : Names, key : Key] /\ view[r] \in Moments
        /\ \A v \in Moments : LinkedAt(0, v) \subseteq Node
    BY ReaderKnows
  <2>2. ReaderOK(r)
    BY DEF IInv, ReaderInv
  <2>3. PICK S, o, y : S = LinkedAt(0, view[r]) /\ o = op[r] /\ y = node[r]
    OBVIOUS
  <2>4. ASSUME pc[r] = "done" PROVE y = Answer(o, S)
    <3>1. Answers(o, y, S) /\ o.name \in Names /\ o.name # "none" /\ S \subseteq Node
      BY <2>1, <2>2, <2>3, <2>4 DEF ReaderOK
    <3>2. CASE o.name = "Next"
      <4>1. PICK T : T = {n \in S : Before(o.key, n)}
        OBVIOUS
      <4>2. IsFirst(y, T) /\ T \subseteq Node
        BY <3>1, <3>2, <4>1 DEF Answers
      <4>3. FirstOf(T) = y
        BY <4>2, FirstAndLast
      <4> QED  BY <3>2, <4>1, <4>3 DEF Answer
    <3>3. CASE o.name = "FindLessThan"
      <4>1. PICK T : T = {n \in S : Before(n, o.key)}
        OBVIOUS
      <4>2. IsFinal(y, T) /\ T \subseteq Node
        BY <3>1, <3>3, <4>1 DEF Answers
      <4>3. LastOf(T) = y
        BY <4>2, FirstAndLast
      <4> QED  BY <3>3, <4>1, <4>3 DEF Answer
    <3>4. CASE o.name = "FindLast"
      <4>1. LastOf(S) = y
        BY <3>1, <3>4, FirstAndLast DEF Answers
      <4> QED  BY <3>4, <4>1 DEF Answer
    <3>5. CASE o.name \in {"Get", "FindGreaterOrEqual"}
      <4>1. PICK T : T = {n \in S : ~Before(n, o.key)}
        OBVIOUS
      <4>2. IsFirst(y, T) /\ T \subseteq Node
        BY <3>1, <3>5, <4>1 DEF Answers
      <4>3. FirstOf(T) = y
        BY <4>2, FirstAndLast
      <4> QED  BY <3>5, <4>1, <4>3 DEF Answer
    <3> QED  BY <3>1, <3>2, <3>3, <3>4, <3>5 DEF Names
  <2> QED  BY <2>2, <2>3, <2>4 DEF ReaderOK
<1> QED  BY <1>1, InvariantHolds, PTL

(* A Get concurrent with the writer returns the newest entry of its key at *)
(* or below the sequence it read under the mutex, deletions included.      *)
THEOREM GetsSeeTheirSnapshot == Spec => []GetSeesSnapshot
<1>1. IInv => GetSeesSnapshot
  <2> SUFFICES ASSUME IInv, NEW r \in Readers, pc[r] = "done", op[r].name = "Get"
               PROVE  LET key == op[r].key
                          Mine == {s \in 1 .. key[2] :
                                     \E i \in 1 .. Len(stores) :
                                       stores[i].loc = EntryLoc(<<key[1], s>>)}
                          top == CHOOSE s \in Mine : \A q \in Mine : q <= s
                      IN GetResult(key, node[r]) =
                           IF Mine = {} THEN "absent"
                           ELSE IF Latest(EntryLoc(<<key[1], top>>)) THEN "value"
                           ELSE "deleted"
    BY DEF GetSeesSnapshot
  <2>1. PICK key, y, v, S : key = op[r].key /\ y = node[r] /\ v = view[r] /\ S = LinkedAt(0, v)
    OBVIOUS
  <2> DEFINE Mine == {s \in 1 .. key[2] :
                        \E i \in 1 .. Len(stores) : stores[i].loc = EntryLoc(<<key[1], s>>)}
             top == CHOOSE s \in Mine : \A q \in Mine : q <= s
  <2>2. /\ key \in Key /\ key # head /\ v \in Moments /\ v \in Nat /\ S \subseteq Node
        /\ EntriesLinked(key[2], v) /\ TypeInv /\ ListInv /\ 0 \in Levels
    <3>1. /\ op[r] \in [name : Names, key : Key] /\ view[r] \in Moments
          /\ \A w \in Moments : w \in Nat /\ LinkedAt(0, w) \subseteq Node
          /\ op[r].key # head /\ EntriesLinked(op[r].key[2], view[r])
          /\ TypeInv /\ ListInv /\ 0 \in Levels
      BY ReaderKnows
    <3> QED  BY <2>1, <3>1
  <2>3. IsFirst(y, {n \in S : ~Before(n, key)})
    BY <2>1 DEF IInv, ReaderInv, ReaderOK, Answers
  <2>4. key[1] \in UserKeys /\ key[1] \in Nat /\ key[2] \in Nat
    BY <2>2, KeyOrder DEF Key
  <2>5. \A n \in S : n \in Key /\ n[1] \in Nat /\ n[2] \in Nat /\ n[2] # 0 /\ n = <<n[1], n[2]>>
                     /\ n # Null
    <3>1. \A n \in Node : n[2] # 0
      BY DEF Node
    <3> QED  BY <2>2, <3>1, KeyOrder
  <2>6. ASSUME NEW s \in Mine
        PROVE  <<key[1], s>> \in S /\ ~Before(<<key[1], s>>, key) /\ s \in Nat
    <3>1. s \in 1 .. key[2] /\ \E i \in 1 .. Len(stores) : stores[i].loc = EntryLoc(<<key[1], s>>)
      OBVIOUS
    <3>2. <<key[1], s>>[2] = s /\ <<key[1], s>>[1] = key[1] /\ s <= key[2] /\ s \in Nat
      BY <2>4, <3>1
    <3>3. <<key[1], s>> \in S
      BY <2>1, <2>2, <3>1, <3>2 DEF EntriesLinked
    <3> QED  BY <2>4, <3>2, <3>3 DEF Before
  <2>7. ASSUME NEW n \in S, n[1] = key[1], ~Before(n, key)
        PROVE  n[2] \in Mine
    <3>1. ListAt(0, v)
      BY <2>2 DEF ListInv
    <3>2. \E i \in 1 .. v : stores[i].loc = EntryLoc(n)
      BY <2>1, <3>1 DEF ListAt
    <3>3. 1 .. v \subseteq 1 .. Len(stores)
      BY <2>2 DEF Moments, TypeInv
    <3>4. n[2] \in 1 .. key[2]
      BY <2>4, <2>5, <2>7 DEF Before
    <3>5. n = <<key[1], n[2]>>
      BY <2>5, <2>7
    <3> QED  BY <3>2, <3>3, <3>4, <3>5
  <2>8. CASE y = Null \/ y[1] # key[1]
    <3>1. Mine = {}
      <4> SUFFICES ASSUME NEW s \in Mine PROVE FALSE
        OBVIOUS
      <4>1. PICK n : n = <<key[1], s>>
        OBVIOUS
      <4>2. n \in S /\ ~Before(n, key) /\ n[1] = key[1] /\ n[2] = s
        BY <2>6, <4>1
      <4>3. y \in S /\ ~Before(y, key) /\ (n = y \/ Before(y, n))
        BY <2>3, <4>2 DEF IsFirst
      <4>4. y[1] # key[1]
        BY <2>5, <2>8, <4>3
      <4> QED  BY <2>4, <2>5, <4>2, <4>3, <4>4 DEF Before
    <3>2. GetResult(key, y) = "absent"
      BY <2>8 DEF GetResult
    <3> QED  BY <2>1, <3>1, <3>2
  <2>9. CASE ~(y = Null \/ y[1] # key[1])
    <3>1. y \in S /\ ~Before(y, key) /\ y[1] = key[1]
          /\ \A n \in S : ~Before(n, key) => n = y \/ Before(y, n)
      BY <2>3, <2>9 DEF IsFirst
    <3>2. y[2] \in Mine /\ y[2] \in Nat /\ y = <<key[1], y[2]>>
      BY <2>5, <2>7, <3>1
    <3>3. \A q \in Mine : q \in Nat /\ q <= y[2]
      <4> SUFFICES ASSUME NEW q \in Mine PROVE q \in Nat /\ q <= y[2]
        OBVIOUS
      <4>1. PICK n : n = <<key[1], q>>
        OBVIOUS
      <4>2. n \in S /\ ~Before(n, key) /\ n[1] = key[1] /\ n[2] = q /\ q \in Nat
        BY <2>6, <4>1
      <4>3. n = y \/ Before(y, n)
        BY <3>1, <4>2
      <4> QED  BY <2>4, <3>1, <3>2, <4>2, <4>3 DEF Before
    <3>4. top = y[2]
      <4>1. top \in Mine /\ \A q \in Mine : q <= top
        BY <3>2, <3>3
      <4>2. top \in Nat /\ top <= y[2] /\ y[2] <= top
        BY <3>2, <3>3, <4>1
      <4> HIDE DEF top, Mine
      <4> QED  BY <3>2, <4>2
    <3>5. Mine # {} /\ <<key[1], top>> = y
      BY <3>2, <3>4
    <3>6. GetResult(key, y) = IF Latest(EntryLoc(y)) THEN "value" ELSE "deleted"
      BY <2>9 DEF GetResult
    <3> QED  BY <2>1, <3>5, <3>6, ZenonT(40)
  <2> QED  BY <2>8, <2>9
<1> QED  BY <1>1, InvariantHolds, PTL
=============================================================================
