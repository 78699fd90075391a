---------------------------- MODULE MCIterators -----------------------------
(* Instances of Iterators for TLC.                                         *)
EXTENDS Iterators

(* Three groups of scenarios.  Versions: every way to write two user keys  *)
(* with four sequence numbers, spread over two tables and the memtable.    *)
(* Files: one longer table of several blocks, with each kind of damage.    *)
(* Layouts: tables whose blocks lie differently in the filters' ranges.    *)
A == <<1, 1>>
B == <<3>>
C == <<1, 2>>
D == <<5, 1>>
E == <<2>>        \* in no table: the separator of C and B

MCBloomHash == [u \in {A, B, C, D, E} |->
  CASE u = A -> <<1, 2>> [] u = B -> <<2, 1>> [] u = C -> <<3, 3>>
    [] u = D -> <<1, 1>> [] u = E -> <<6, 1>>]

K(u, s, t) == Append(u, PackSequenceAndType(s, t))

SortedKeys(S) ==
  LET Rank(k) == Cardinality({j \in S : ~Less(k, j)})
  IN [n \in 1 .. Cardinality(S) |-> CHOOSE k \in S : Rank(k) = n]

Lax == [paranoid |-> FALSE, verify |-> FALSE]
Intact == [table |-> 0, part |-> "none", block |-> 0, entry |-> 0,
           fault |-> "none"]
Strict == [paranoid |-> TRUE, verify |-> TRUE]

Histories == [1 .. 4 -> {A, B} \X {0, 1}]

Versions ==
  {[mem |-> {K(h[4][1], 4, h[4][2])},
    runs |-> <<SortedKeys({K(h[s][1], s, h[s][2]) : s \in {1, 2}}),
               <<K(h[3][1], 3, h[3][2])>> >>,
    damage |-> Intact, checks |-> Lax, snapshot |-> q] :
      h \in Histories, q \in {3, 4}}

(* With values of these sizes, BlockSize 3 and FilterBase 8 the blocks of  *)
(* LongRun begin at 0, 4, 8, 24 and 28: two share the first filter, the    *)
(* third begins its filter's range and passes over the next, which has no  *)
(* block, and the last two share a filter.  The separator between C and B  *)
(* is shortened to E; the other borders split the entries of one key.      *)
MCValueSize(k) ==
  CASE k = K(C, 1, 1) -> 2 [] k = K(B, 4, 1) -> 15 [] k = K(B, 1, 1) -> 2
    [] k = K(A, 5, 1) -> 6 [] OTHER -> 1

LongRun ==
  <<K(A, 4, 1), K(A, 1, 1), K(C, 3, 0), K(C, 2, 1), K(C, 1, 1), K(B, 4, 1),
    K(B, 2, 0), K(B, 1, 1), K(D, 3, 1)>>

Damage(part, block, entry, fault) ==
  [table |-> 1, part |-> part, block |-> block, entry |-> entry, fault |-> fault]

Damages ==
  {Damage(p, 0, 0, "read") : p \in {"footer", "meta", "filter", "index"}}
  \cup {Damage("data", b, 0, "read") : b \in 1 .. 5}
  \cup {Damage("data", b, e, "bytes") : b \in 1 .. 2, e \in 1 .. 2}
  \cup {Damage("index", 0, e, "bytes") : e \in 2 .. 3}
  \cup {Damage("meta", 0, 0, "bytes"), Damage("data", 4, 0, "type")}

Files ==
  {[mem |-> m, runs |-> <<LongRun>>, damage |-> d, checks |-> c, snapshot |-> q] :
     m \in {{}, {K(C, 5, 1)}}, q \in {2, 5}, c \in {Lax, Strict},
     d \in {Intact} \cup Damages}
  \cup
  {[mem |-> {K(B, 3, 1)}, runs |-> <<<<K(A, 2, 1), K(B, 1, 2)>>>>,
    damage |-> Intact, checks |-> Lax, snapshot |-> 3]}

(* Every run of entries of LongRun, whose blocks begin elsewhere, and one  *)
(* with a block at 7, the last offset of the first filter.                 *)
Layouts ==
  {[mem |-> {}, runs |-> <<r>>, damage |-> Intact, checks |-> Lax, snapshot |-> 5] :
     r \in {SubSeq(LongRun, i, j) : i \in 1 .. 9, j \in 6 .. 9}
           \cup {<<K(A, 5, 1), K(C, 2, 1), K(C, 1, 1), K(D, 3, 1)>>}}

MCScenarios == Versions \cup Files \cup Layouts
MCSeekKeys == {C, B, D, E}
MCLaterWrites == {K(A, 7, 0), K(B, 6, 1)}
=============================================================================
