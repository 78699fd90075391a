---------------------------- MODULE LSMProofs -------------------------------
(***************************************************************************)
(* Proofs about module LSM, for every number of keys, levels and writes    *)
(* and every scenario.  The types, the inputs of the running compaction    *)
(* and the place of every entry follow from an invariant of all            *)
(* behaviours.  That the levels stay disjoint, that Get and iterators      *)
(* agree and that the tables implement the mapping of KVStore is proved of *)
(* the behaviours in which no manual compaction takes inputs with a gap    *)
(* between them: with such a gap it is false (run lsm_manual_overlap).     *)
(***************************************************************************)
EXTENDS LSM, FiniteSetTheorems, SequenceTheorems, TLAPS

-----------------------------------------------------------------------------
(* The invariant of all behaviours.                                        *)

TableEntries == UNION {Entries(version[l]) : l \in Levels}

Distinct(E) == \A a, b \in E : a.seq = b.seq => a = b

(* Sequence numbers: each is used once, and what is in a memtable is newer *)
(* than what was switched or flushed before.                               *)
SeqsOK ==
  /\ \A e \in AllEntries : e.seq <= lastSequence
  /\ Distinct(AllEntries)
  /\ \A e \in mem : \A d \in imm \cup TableEntries : d.seq < e.seq
  /\ \A e \in imm : \A d \in TableEntries : d.seq < e.seq
  /\ ~hasImm => imm = {}

(* The bounds of a file are its first and last entry.                      *)
FileOK(f) ==
  /\ f.smallest \in f.ents /\ f.largest \in f.ents
  /\ \A e \in f.ents : /\ e = f.smallest \/ Before(f.smallest, e)
                       /\ e = f.largest \/ Before(e, f.largest)

(* Every entry is in one file of one level; the files of level 0 have      *)
(* numbers of their own.                                                   *)
FilesOK ==
  /\ \A l \in Levels : \A f \in version[l] : FileOK(f) /\ (l > 0 => f.num = 0)
  /\ \A l, m \in Levels : \A f \in version[l], g \in version[m] :
       \A e \in f.ents : e \in g.ents => l = m /\ f = g
  /\ \A f, g \in version[0] : f.num = g.num => f = g
  /\ \E n \in Nat : \A f \in version[0] : f.num <= n

SnapshotsOK ==
  \A i \in DOMAIN snapshots :
    /\ snapshots[i] <= lastSequence
    /\ \A j \in DOMAIN snapshots : i <= j => snapshots[i] <= snapshots[j]

In(c) == c.in0 \cup c.in1

(* What holds of a running compaction while writes, snapshots and flushes  *)
(* go on: it drops nothing that a snapshot sees, and what has come to the  *)
(* deeper levels since it started is newer than its inputs.                *)
RunningOK ==
  compaction.running =>
    /\ compaction.in0 # {}
    /\ compaction.smallestSnapshot <= lastSequence
    /\ \A i \in DOMAIN snapshots : compaction.smallestSnapshot <= snapshots[i]
    /\ compaction.manual => manual.pc = "level"
    /\ \A m \in Levels : compaction.level + 2 <= m =>
         \A f \in version[m] :
           \/ f \in compaction.base[m]
           \/ \A d \in f.ents : \A e \in Entries(In(compaction)) : e.seq < d.seq

Inv ==
  TypeOK /\ SeqsOK /\ FilesOK /\ SnapshotsOK /\ InputsInVersion /\ RunningOK

-----------------------------------------------------------------------------
(* The invariant of the levels.                                            *)

(* No user key lies between the files without lying in one of them.        *)
Connected(S) ==
  \A k \in Keys : (\A f \in S : ~Meets(f, k, k)) =>
    (\A f \in S : Largest(f).key < k) \/ (\A f \in S : k < Smallest(f).key)

(* The assumption: the inputs of a manual compaction are connected.        *)
ManualConnected ==
  compaction.running /\ compaction.manual => Connected(In(compaction))

(* f lies before g.                                                        *)
Precedes(f, g) == Before(Largest(f), Smallest(g))

(* A running compaction can install its outputs: they will not overlap the *)
(* files that stay in their level, and what stays there or in the level    *)
(* above of a key that it merges is newer than what it merges.             *)
MergeOK ==
  compaction.running =>
    LET c == compaction
        rest0 == version[c.level] \ c.in0
        rest1 == version[c.level + 1] \ c.in1
    IN /\ Connected(In(c))
       /\ \A g \in rest1 : \/ \A f \in In(c) : Precedes(g, f)
                           \/ \A f \in In(c) : Precedes(f, g)
       /\ \A g \in rest0 \cup rest1 : \A d \in g.ents :
            \A e \in Entries(In(c)) : d.key = e.key => e.seq < d.seq

LevelInv == LevelsDisjoint /\ NewerAbove /\ MergeOK
-----------------------------------------------------------------------------
(* Numbers.                                                                *)

(* A set of natural numbers has a least member, and Min is it.             *)
LEMMA MinIsLeast ==
  ASSUME NEW S \in SUBSET Nat, S # {}
  PROVE  Min(S) \in S /\ \A x \in S : Min(S) <= x
<1>1. PICK x \in S : \A y \in S : ~(<<y, x>> \in OpToRel(<, Nat))
  BY NatLessThanWellFounded, WFMin, Zenon
<1>2. \A y \in S : ~(y < x)
  BY <1>1 DEF OpToRel
<1>3. \A y \in S : x <= y
  BY <1>2
<1> QED BY <1>3 DEF Min

(* A bounded set of natural numbers has a greatest member, and Max is it.  *)
LEMMA MaxIsGreatest ==
  ASSUME NEW S \in SUBSET Nat, S # {}, NEW b \in Nat, \A x \in S : x <= b
  PROVE  Max(S) \in S /\ \A x \in S : x <= Max(S)
<1> DEFINE B == {n \in Nat : \A x \in S : x <= n}
<1>1. B \in SUBSET Nat /\ B # {}
  OBVIOUS
<1>2. PICK m \in B : \A n \in B : m <= n
  <2>1. Min(B) \in B /\ \A n \in B : Min(B) <= n
    BY <1>1, MinIsLeast
  <2> QED BY <2>1
<1>3. m \in S
  <2>1. SUFFICES ASSUME m \notin S PROVE FALSE
    OBVIOUS
  <2>2. \A x \in S : x <= m /\ x # m
    BY <2>1
  <2>3. \A x \in S : x <= m - 1 /\ x \in Nat
    BY <2>2
  <2>4. m - 1 \in Nat
    <3>1. PICK x \in S : TRUE
      OBVIOUS
    <3> QED BY <3>1, <2>3
  <2>5. m - 1 \in B
    BY <2>3, <2>4
  <2> QED BY <1>2, <2>5
<1>4. \A x \in S : x <= m
  OBVIOUS
<1> QED BY <1>3, <1>4 DEF Max

(* Induction over the numbers up to n, with a set for the predicate.       *)
LEMMA UpTo ==
  ASSUME NEW n \in Nat, NEW S, 0 \in S,
         \A i \in 0 .. n - 1 : i \in S => i + 1 \in S
  PROVE  0 .. n \subseteq S
<1> DEFINE B == (0 .. n) \ S
<1>1. SUFFICES ASSUME B # {} PROVE FALSE
  OBVIOUS
<1>2. B \in SUBSET Nat
  OBVIOUS
<1>3. PICK m \in B : \A x \in B : m <= x
  <2> HIDE DEF B
  <2> QED BY <1>1, <1>2, MinIsLeast
<1>4. m # 0 /\ m \in 1 .. n
  BY <1>3
<1>5. m - 1 \in S
  BY <1>3, <1>4
<1>6. m - 1 \in 0 .. n - 1 /\ (m - 1) + 1 = m
  BY <1>4
<1> QED BY <1>5, <1>6

-----------------------------------------------------------------------------
(* The order of internal keys.                                             *)

LEMMA EntryType ==
  ASSUME NEW e \in Entry
  PROVE  /\ e.key \in Nat /\ e.key \in Keys /\ 1 <= e.key /\ e.key <= MaxKey
         /\ e.seq \in Nat /\ 1 <= e.seq /\ e.seq <= MaxWrites
         /\ e.type \in {"value", "deletion"}
BY LSMAssumption DEF Entry, Keys

LEMMA BeforeTransitive ==
  ASSUME NEW a \in Entry, NEW b \in Entry, NEW c \in Entry,
         Before(a, b), Before(b, c)
  PROVE  Before(a, c)
BY EntryType DEF Before

LEMMA BeforeIrreflexive ==
  ASSUME NEW a \in Entry
  PROVE  ~Before(a, a)
BY EntryType DEF Before

LEMMA BeforeAsymmetric ==
  ASSUME NEW a \in Entry, NEW b \in Entry, Before(a, b)
  PROVE  ~Before(b, a) /\ a # b
BY EntryType DEF Before

LEMMA BeforeTotal ==
  ASSUME NEW E, Distinct(E), NEW a \in E, NEW b \in E,
         a \in Entry, b \in Entry
  PROVE  a = b \/ Before(a, b) \/ Before(b, a)
BY EntryType DEF Before, Distinct

(* A set of entries has a first one.                                       *)
LEMMA MinEntryIs ==
  ASSUME NEW E \in SUBSET Entry, E # {}, Distinct(E)
  PROVE  /\ MinEntry(E) \in E
         /\ \A d \in E : d = MinEntry(E) \/ Before(MinEntry(E), d)
<1> DEFINE K == {e.key : e \in E}
<1>1. PICK k \in K : \A x \in K : k <= x
  <2>1. K \in SUBSET Nat /\ K # {}
    BY EntryType
  <2> HIDE DEF K
  <2> QED BY <2>1, MinIsLeast
<1> DEFINE Q == {e.seq : e \in {x \in E : x.key = k}}
<1>2. PICK q \in Q : \A x \in Q : x <= q
  <2>1. Q \in SUBSET Nat /\ Q # {} /\ \A x \in Q : x <= MaxWrites
    BY EntryType
  <2>2. MaxWrites \in Nat
    BY LSMAssumption
  <2> HIDE DEF Q
  <2> QED BY <2>1, <2>2, MaxIsGreatest
<1>3. PICK e \in E : e.key = k /\ e.seq = q
  BY <1>2
<1>4. \A d \in E : d = e \/ Before(e, d)
  <2> TAKE d \in E
  <2>1. k <= d.key
    BY <1>1
  <2>2. d.key = k => d.seq <= q
    BY <1>2
  <2> QED BY <1>3, <2>1, <2>2, EntryType DEF Before, Distinct
<1> HIDE DEF K, Q
<1> QED BY <1>4 DEF MinEntry

(* And a last one.                                                         *)
LEMMA MaxEntryIs ==
  ASSUME NEW E \in SUBSET Entry, E # {}, Distinct(E)
  PROVE  /\ MaxEntry(E) \in E
         /\ \A d \in E : d = MaxEntry(E) \/ Before(d, MaxEntry(E))
<1> DEFINE K == {e.key : e \in E}
<1>1. PICK k \in K : \A x \in K : x <= k
  <2>1. K \in SUBSET Nat /\ K # {} /\ \A x \in K : x <= MaxKey
    BY EntryType
  <2>2. MaxKey \in Nat
    BY LSMAssumption
  <2> HIDE DEF K
  <2> QED BY <2>1, <2>2, MaxIsGreatest
<1> DEFINE Q == {e.seq : e \in {x \in E : x.key = k}}
<1>2. PICK q \in Q : \A x \in Q : q <= x
  <2>1. Q \in SUBSET Nat /\ Q # {}
    BY EntryType
  <2> HIDE DEF Q
  <2> QED BY <2>1, MinIsLeast
<1>3. PICK e \in E : e.key = k /\ e.seq = q
  BY <1>2
<1>4. \A d \in E : d = e \/ Before(d, e)
  <2> TAKE d \in E
  <2>1. d.key <= k
    BY <1>1
  <2>2. d.key = k => q <= d.seq
    BY <1>2
  <2> QED BY <1>3, <2>1, <2>2, EntryType DEF Before, Distinct
<1> HIDE DEF K, Q
<1> QED BY <1>4 DEF MaxEntry

(* There are finitely many entries.                                        *)
LEMMA EntryFinite == IsFiniteSet(Entry)
<1> DEFINE T == {"value", "deletion"}
           P == (Keys \X (1 .. MaxWrites)) \X T
           f == [e \in Entry |-> <<<<e.key, e.seq>>, e.type>>]
<1>1. IsFiniteSet(Keys) /\ IsFiniteSet(1 .. MaxWrites)
  <2>1. 1 \in Int /\ MaxKey \in Int /\ MaxWrites \in Int
    BY LSMAssumption
  <2>2. IsFiniteSet(1 .. MaxKey) /\ IsFiniteSet(1 .. MaxWrites)
    BY <2>1, FS_Interval
  <2> QED BY <2>2 DEF Keys
<1>2. IsFiniteSet(T)
  <2>1. IsFiniteSet({"value"})
    BY FS_Singleton, Zenon
  <2>2. IsFiniteSet({"value"} \cup {"deletion"})
    BY <2>1, FS_AddElement, Zenon
  <2>3. T = {"value"} \cup {"deletion"}
    OBVIOUS
  <2> QED BY <2>2, <2>3, Zenon
<1>3. IsFiniteSet(P)
  BY <1>1, <1>2, FS_Product
<1>4. f \in Injection(Entry, P)
  <2>1. f \in [Entry -> P]
    BY DEF Entry
  <2>2. \A a, b \in Entry : f[a] = f[b] => a = b
    BY DEF Entry
  <2> QED BY <2>1, <2>2 DEF Injection, IsInjective
<1> HIDE DEF P, f
<1> QED BY <1>3, <1>4, FS_Injection

LEMMA EntriesFinite ==
  ASSUME NEW E \in SUBSET Entry
  PROVE  IsFiniteSet(E) /\ Cardinality(E) \in Nat
BY EntryFinite, FS_Subset, FS_CardinalityType

-----------------------------------------------------------------------------
(* Files and the order of a level.                                         *)

TablesOK ==
  version \in [Levels -> SUBSET File] /\ FilesOK /\ Distinct(TableEntries)

LEMMA FileType ==
  ASSUME NEW f \in File
  PROVE  /\ f.num \in Nat /\ f.ents \in SUBSET Entry /\ f.ents # {}
         /\ Smallest(f) \in Entry /\ Largest(f) \in Entry
         /\ Smallest(f) = f.smallest /\ Largest(f) = f.largest
<1>1. f.num \in Nat /\ f.ents \in (SUBSET Entry) \ {{}}
  BY DEF File
<1>2. f.smallest \in Entry /\ f.largest \in Entry
  BY DEF File
<1> QED BY <1>1, <1>2 DEF Smallest, Largest

(* What is known of a file of some level.                                  *)
LEMMA FileFacts ==
  ASSUME TablesOK, NEW l \in Levels, NEW f \in version[l]
  PROVE  /\ f \in File /\ f.ents \in SUBSET Entry /\ f.ents # {}
         /\ f.ents \subseteq TableEntries
         /\ Smallest(f) \in f.ents /\ Largest(f) \in f.ents
         /\ Smallest(f) \in Entry /\ Largest(f) \in Entry
         /\ f.num \in Nat /\ (l > 0 => f.num = 0)
<1>1. f \in File /\ FileOK(f) /\ (l > 0 => f.num = 0)
  BY DEF TablesOK, FilesOK
<1>2. f.ents \subseteq TableEntries
  BY DEF TableEntries, Entries
<1> QED BY <1>1, <1>2, FileType DEF FileOK

LEMMA FileBounds ==
  ASSUME TablesOK, NEW l \in Levels, NEW f \in version[l], NEW e \in f.ents
  PROVE  /\ e \in Entry
         /\ e = Smallest(f) \/ Before(Smallest(f), e)
         /\ e = Largest(f) \/ Before(e, Largest(f))
         /\ Smallest(f).key <= e.key /\ e.key <= Largest(f).key
<1>1. FileOK(f)
  BY DEF TablesOK, FilesOK
<1>2. e \in Entry /\ Smallest(f) \in Entry /\ Largest(f) \in Entry
  BY FileFacts
<1>3. /\ e = Smallest(f) \/ Before(Smallest(f), e)
      /\ e = Largest(f) \/ Before(e, Largest(f))
  BY <1>1 DEF FileOK, Smallest, Largest
<1>4. Smallest(f).key <= e.key /\ e.key <= Largest(f).key
  BY <1>2, <1>3, EntryType DEF Before
<1> QED BY <1>2, <1>3, <1>4

LEMMA FileKeys ==
  ASSUME TablesOK, NEW l \in Levels, NEW f \in version[l]
  PROVE  /\ Smallest(f).key \in Keys /\ Largest(f).key \in Keys
         /\ Smallest(f).key \in Nat /\ Largest(f).key \in Nat
         /\ Smallest(f).key <= Largest(f).key
BY FileFacts, FileBounds, EntryType

(* An entry is in one file only.                                           *)
LEMMA OneFile ==
  ASSUME TablesOK, NEW l \in Levels, NEW m \in Levels,
         NEW f \in version[l], NEW g \in version[m],
         NEW e \in f.ents, e \in g.ents
  PROVE  l = m /\ f = g
BY DEF TablesOK, FilesOK

LEMMA SmallestUnique ==
  ASSUME TablesOK, NEW l \in Levels, NEW f \in version[l], NEW g \in version[l]
  PROVE  /\ Smallest(f) = Smallest(g) => f = g
         /\ Largest(f) = Largest(g) => f = g
BY FileFacts, OneFile

LEMMA SmallestsDistinct ==
  ASSUME TablesOK, NEW l \in Levels, NEW F \in SUBSET version[l]
  PROVE  /\ {Smallest(f) : f \in F} \in SUBSET Entry
         /\ Distinct({Smallest(f) : f \in F})
         /\ {Largest(f) : f \in F} \in SUBSET Entry
         /\ Distinct({Largest(f) : f \in F})
         /\ Entries(F) \in SUBSET Entry
         /\ Distinct(Entries(F))
         /\ F # {} => Entries(F) # {}
<1>1. \A f \in F : /\ Smallest(f) \in Entry /\ Smallest(f) \in TableEntries
                   /\ Largest(f) \in Entry /\ Largest(f) \in TableEntries
                   /\ f.ents \subseteq Entry /\ f.ents \subseteq TableEntries
                   /\ f.ents # {}
  BY FileFacts
<1>2. Distinct(TableEntries)
  BY DEF TablesOK
<1>3. /\ {Smallest(f) : f \in F} \subseteq TableEntries
      /\ {Largest(f) : f \in F} \subseteq TableEntries
      /\ {Smallest(f) : f \in F} \subseteq Entry
      /\ {Largest(f) : f \in F} \subseteq Entry
  BY <1>1
<1>4. Entries(F) \subseteq Entry /\ Entries(F) \subseteq TableEntries
  BY <1>1 DEF Entries
<1>5. F # {} => Entries(F) # {}
  BY <1>1 DEF Entries
<1>6. \A S : S \subseteq TableEntries => Distinct(S)
  BY <1>2 DEF Distinct
<1> HIDE DEF TableEntries
<1> QED BY <1>3, <1>4, <1>5, <1>6, Zenon

(* The first file of a set of files of a level starts before the others.   *)
LEMMA FirstFileIs ==
  ASSUME TablesOK, NEW l \in Levels, NEW F \in SUBSET version[l], F # {}
  PROVE  /\ FirstFile(F) \in F
         /\ \A g \in F : g = FirstFile(F)
                           \/ Before(Smallest(FirstFile(F)), Smallest(g))
<1> DEFINE E == {Smallest(f) : f \in F}
<1>1. E \in SUBSET Entry /\ Distinct(E) /\ E # {}
  BY SmallestsDistinct
<1>2. PICK e \in E : \A d \in E : d = e \/ Before(e, d)
  <2> HIDE DEF E
  <2> QED BY <1>1, MinEntryIs
<1>3. PICK f \in F : Smallest(f) = e
  BY <1>2
<1>4. \A g \in F : g = f \/ BySmallestKey(f, g)
  BY <1>2, <1>3, SmallestUnique DEF BySmallestKey
<1>5. /\ FirstFile(F) \in F
      /\ \A g \in F : g = FirstFile(F) \/ BySmallestKey(FirstFile(F), g)
  <2> HIDE DEF E
  <2> QED BY <1>4 DEF FirstFile
<1> QED BY <1>5, SmallestUnique DEF BySmallestKey

LEMMA LastFileIs ==
  ASSUME TablesOK, NEW l \in Levels, NEW F \in SUBSET version[l], F # {}
  PROVE  LastFile(F) \in F
<1> DEFINE E == {Smallest(f) : f \in F}
<1>1. E \in SUBSET Entry /\ Distinct(E) /\ E # {}
  BY SmallestsDistinct
<1>2. PICK e \in E : \A d \in E : d = e \/ Before(d, e)
  <2> HIDE DEF E
  <2> QED BY <1>1, MaxEntryIs
<1>3. PICK f \in F : Smallest(f) = e
  BY <1>2
<1>4. \A g \in F : g = f \/ BySmallestKey(g, f)
  BY <1>2, <1>3, SmallestUnique DEF BySmallestKey
<1> HIDE DEF E
<1> QED BY <1>4 DEF LastFile

(* A level has finitely many files.                                        *)
LEMMA LevelFinite ==
  ASSUME TablesOK, NEW l \in Levels, NEW F \in SUBSET version[l]
  PROVE  IsFiniteSet(F) /\ Cardinality(F) \in Nat
<1> DEFINE s == [f \in F |-> Smallest(f)]
<1>1. s \in Injection(F, Entry)
  <2>1. s \in [F -> Entry]
    BY FileFacts
  <2>2. \A f, g \in F : s[f] = s[g] => f = g
    BY SmallestUnique
  <2> QED BY <2>1, <2>2 DEF Injection, IsInjective
<1>2. IsFiniteSet(F)
  <2> HIDE DEF s
  <2> QED BY <1>1, EntryFinite, FS_Injection
<1> QED BY <1>2, FS_CardinalityType

-----------------------------------------------------------------------------
(* GetOverlappingInputs.                                                   *)

LEMMA OverlapSubset ==
  ASSUME NEW l \in Levels, NEW b, NEW e
  PROVE  GetOverlappingInputs(l, b, e) \in SUBSET version[l]
BY LSMAssumption DEF GetOverlappingInputs, Levels

LEMMA OverlapBelow ==
  ASSUME NEW l \in Levels, l > 0, NEW b, NEW e, NEW f
  PROVE  f \in GetOverlappingInputs(l, b, e)
           <=> f \in version[l] /\ Meets(f, b, e)
BY DEF GetOverlappingInputs

(* The range after the files of S have widened it.                         *)
LEMMA WidenedRange ==
  ASSUME TablesOK, NEW b \in Nat, NEW e \in Nat, NEW S \in SUBSET version[0]
  PROVE  \E mn \in Nat, mx \in Nat :
           /\ WidenedBy(b, e, S) = {f \in version[0] : Meets(f, mn, mx)}
           /\ mn <= b /\ e <= mx
           /\ \A f \in S : mn <= Smallest(f).key /\ Largest(f).key <= mx
           /\ mn = b \/ \E f \in S : mn = Smallest(f).key
           /\ mx = e \/ \E f \in S : mx = Largest(f).key
<1> DEFINE A == {b} \cup {Smallest(g).key : g \in S}
           Z == {e} \cup {Largest(g).key : g \in S}
<1>0. 0 \in Levels
  BY LSMAssumption DEF Levels
<1>1. \A f \in S : /\ Smallest(f).key \in Nat /\ Largest(f).key \in Nat
                   /\ Largest(f).key <= MaxKey
  BY <1>0, FileKeys, LSMAssumption DEF Keys
<1>2. Min(A) \in A /\ \A x \in A : Min(A) <= x
  <2>1. A \in SUBSET Nat /\ A # {}
    BY <1>1
  <2> HIDE DEF A
  <2> QED BY <2>1, MinIsLeast
<1>3. Max(Z) \in Z /\ \A x \in Z : x <= Max(Z)
  <2>1. Z \in SUBSET Nat /\ Z # {} /\ \A x \in Z : x <= MaxKey + e
    BY <1>1, LSMAssumption
  <2>2. MaxKey + e \in Nat
    BY LSMAssumption
  <2> HIDE DEF Z
  <2> QED BY <2>1, <2>2, MaxIsGreatest
<1>4. WidenedBy(b, e, S) = {f \in version[0] : Meets(f, Min(A), Max(Z))}
  BY DEF WidenedBy
<1>5. PICK mn, mx : mn = Min(A) /\ mx = Max(Z)
  OBVIOUS
<1>6. mn \in Nat /\ mx \in Nat
  BY <1>1, <1>2, <1>3, <1>5
<1>7. mn <= b /\ e <= mx
  BY <1>2, <1>3, <1>5
<1>8. \A f \in S : mn <= Smallest(f).key /\ Largest(f).key <= mx
  BY <1>2, <1>3, <1>5
<1>9. mn = b \/ \E f \in S : mn = Smallest(f).key
  BY <1>2, <1>5
<1>10. mx = e \/ \E f \in S : mx = Largest(f).key
  BY <1>3, <1>5
<1>11. WidenedBy(b, e, S) = {f \in version[0] : Meets(f, mn, mx)}
  BY <1>4, <1>5, Zenon
<1> HIDE DEF A, Z
<1> QED BY <1>6, <1>7, <1>8, <1>9, <1>10, <1>11

Widening(b, e, S) == S \in SUBSET version[0] /\ WidenedBy(b, e, S) \subseteq S

LEMMA OverlapAbove ==
  ASSUME NEW b, NEW e, NEW f
  PROVE  f \in GetOverlappingInputs(0, b, e)
           <=> /\ f \in version[0]
               /\ \A S : Widening(b, e, S) => f \in S
BY DEF GetOverlappingInputs, Widening

(* At level 0 the files taken include those of the range, and those that   *)
(* share a user key with one that is taken.                                *)
LEMMA OverlapZero ==
  ASSUME TablesOK, NEW b \in Nat, NEW e \in Nat, NEW g \in version[0]
  PROVE  /\ Meets(g, b, e) => g \in GetOverlappingInputs(0, b, e)
         /\ \A f \in GetOverlappingInputs(0, b, e) :
              Meets(g, Smallest(f).key, Largest(f).key)
                => g \in GetOverlappingInputs(0, b, e)
<1>0. 0 \in Levels
  BY LSMAssumption DEF Levels
<1>1. Smallest(g).key \in Nat /\ Largest(g).key \in Nat
  BY <1>0, FileKeys
<1>2. ASSUME Meets(g, b, e), NEW S, Widening(b, e, S)
      PROVE  g \in S
  <2>1. PICK mn \in Nat, mx \in Nat :
           /\ WidenedBy(b, e, S) = {f \in version[0] : Meets(f, mn, mx)}
           /\ mn <= b /\ e <= mx
    BY <1>2, WidenedRange DEF Widening
  <2>2. Meets(g, mn, mx)
    BY <1>1, <1>2, <2>1 DEF Meets
  <2> QED BY <1>2, <2>1, <2>2 DEF Widening
<1>3. ASSUME NEW f \in GetOverlappingInputs(0, b, e),
             Meets(g, Smallest(f).key, Largest(f).key),
             NEW S, Widening(b, e, S)
      PROVE  g \in S
  <2>1. PICK mn \in Nat, mx \in Nat :
           /\ WidenedBy(b, e, S) = {x \in version[0] : Meets(x, mn, mx)}
           /\ \A x \in S : mn <= Smallest(x).key /\ Largest(x).key <= mx
    BY <1>3, WidenedRange DEF Widening
  <2>2. f \in S /\ f \in version[0]
    BY <1>3, OverlapAbove
  <2>3. Smallest(f).key \in Nat /\ Largest(f).key \in Nat
    BY <1>0, <2>2, FileKeys
  <2>4. mn <= Smallest(f).key /\ Largest(f).key <= mx
    BY <2>1, <2>2
  <2>5. Meets(g, mn, mx)
    BY <1>1, <1>3, <2>3, <2>4 DEF Meets
  <2> QED BY <1>3, <2>1, <2>5 DEF Widening
<1> QED BY <1>2, <1>3, OverlapAbove

(* Nothing is taken beyond a user key that none of the files taken has.    *)
LEMMA OverlapConnected ==
  ASSUME TablesOK, NEW b \in Nat, NEW e \in Nat, NEW k \in Nat,
         \A f \in GetOverlappingInputs(0, b, e) : ~Meets(f, k, k)
  PROVE  /\ e < k => \A f \in GetOverlappingInputs(0, b, e) : Largest(f).key < k
         /\ k < b => \A f \in GetOverlappingInputs(0, b, e) : k < Smallest(f).key
<1> DEFINE G == GetOverlappingInputs(0, b, e)
<1>0. 0 \in Levels
  BY LSMAssumption DEF Levels
<1>1. G \in SUBSET version[0]
  BY <1>0, OverlapSubset
<1>2. \A f \in version[0] : /\ Smallest(f).key \in Nat /\ Largest(f).key \in Nat
                            /\ Smallest(f).key <= Largest(f).key
  BY <1>0, FileKeys
<1>3. ASSUME NEW T \in SUBSET G, NEW g \in WidenedBy(b, e, T)
      PROVE  g \in G
  <2>1. T \in SUBSET version[0]
    BY <1>1
  <2>2. PICK mn \in Nat, mx \in Nat :
           /\ WidenedBy(b, e, T) = {x \in version[0] : Meets(x, mn, mx)}
           /\ mn = b \/ \E f \in T : mn = Smallest(f).key
           /\ mx = e \/ \E f \in T : mx = Largest(f).key
    BY <2>1, WidenedRange
  <2>3. g \in version[0] /\ Meets(g, mn, mx)
    BY <1>3, <2>2
  <2>4. ASSUME NEW S, Widening(b, e, S) PROVE g \in S
    <3>1. PICK sn \in Nat, sx \in Nat :
             /\ WidenedBy(b, e, S) = {x \in version[0] : Meets(x, sn, sx)}
             /\ sn <= b /\ e <= sx
             /\ \A x \in S : sn <= Smallest(x).key /\ Largest(x).key <= sx
      BY <2>4, WidenedRange DEF Widening
    <3>2. T \subseteq S
      BY <2>4, OverlapAbove
    <3>3. sn <= mn /\ mx <= sx
      BY <2>2, <3>1, <3>2
    <3>4. Meets(g, sn, sx)
      BY <1>2, <2>3, <3>3 DEF Meets
    <3> QED BY <2>3, <2>4, <3>1, <3>4 DEF Widening
  <2> QED BY <2>3, <2>4, OverlapAbove
<1>4. ASSUME e < k PROVE \A f \in G : Largest(f).key < k
  <2> DEFINE T == {f \in G : Largest(f).key < k}
  <2>1. WidenedBy(b, e, T) \subseteq T
    <3> SUFFICES ASSUME NEW g \in WidenedBy(b, e, T) PROVE g \in T
      OBVIOUS
    <3>1. g \in G
      BY <1>3
    <3>2. PICK mn \in Nat, mx \in Nat :
             /\ WidenedBy(b, e, T) = {x \in version[0] : Meets(x, mn, mx)}
             /\ mx = e \/ \E f \in T : mx = Largest(f).key
      <4>1. T \in SUBSET version[0]
        BY <1>1
      <4> HIDE DEF T
      <4> QED BY <4>1, WidenedRange
    <3>3. Smallest(g).key <= mx
      BY <3>2 DEF Meets
    <3>4. mx < k
      BY <1>4, <3>2
    <3>5. ~Meets(g, k, k)
      BY <3>1
    <3> QED BY <1>1, <1>2, <3>1, <3>3, <3>4, <3>5 DEF Meets
  <2>2. Widening(b, e, T)
    BY <1>1, <2>1 DEF Widening
  <2>3. G \subseteq T
    <3> HIDE DEF T
    <3> QED BY <2>2, OverlapAbove
  <2> QED BY <2>3
<1>5. ASSUME k < b PROVE \A f \in G : k < Smallest(f).key
  <2> DEFINE T == {f \in G : k < Smallest(f).key}
  <2>1. WidenedBy(b, e, T) \subseteq T
    <3> SUFFICES ASSUME NEW g \in WidenedBy(b, e, T) PROVE g \in T
      OBVIOUS
    <3>1. g \in G
      BY <1>3
    <3>2. PICK mn \in Nat, mx \in Nat :
             /\ WidenedBy(b, e, T) = {x \in version[0] : Meets(x, mn, mx)}
             /\ mn = b \/ \E f \in T : mn = Smallest(f).key
      <4>1. T \in SUBSET version[0]
        BY <1>1
      <4> HIDE DEF T
      <4> QED BY <4>1, WidenedRange
    <3>3. mn <= Largest(g).key
      BY <3>2 DEF Meets
    <3>4. k < mn
      BY <1>5, <3>2
    <3>5. ~Meets(g, k, k)
      BY <3>1
    <3> QED BY <1>1, <1>2, <3>1, <3>3, <3>4, <3>5 DEF Meets
  <2>2. Widening(b, e, T)
    BY <1>1, <2>1 DEF Widening
  <2>3. G \subseteq T
    <3> HIDE DEF T
    <3> QED BY <2>2, OverlapAbove
  <2> QED BY <2>3
<1> QED BY <1>4, <1>5

-----------------------------------------------------------------------------
(* The range of a set of files.                                            *)

AllFiles == UNION {version[l] : l \in Levels}

LEMMA AllFilesIs ==
  ASSUME NEW f
  PROVE  f \in AllFiles <=> \E l \in Levels : f \in version[l]
BY DEF AllFiles

LEMMA RangeEntries ==
  ASSUME TablesOK, NEW F \in SUBSET AllFiles
  PROVE  /\ Entries(F) \in SUBSET Entry /\ Distinct(Entries(F))
         /\ F # {} => Entries(F) # {}
<1>1. \A f \in F : /\ f.ents \subseteq Entry /\ f.ents \subseteq TableEntries
                   /\ f.ents # {}
  BY AllFilesIs, FileFacts
<1>2. Distinct(TableEntries)
  BY DEF TablesOK
<1>3. Entries(F) \subseteq Entry /\ Entries(F) \subseteq TableEntries
  BY <1>1 DEF Entries
<1>4. F # {} => Entries(F) # {}
  BY <1>1 DEF Entries
<1>5. Distinct(Entries(F))
  BY <1>2, <1>3 DEF Distinct
<1> QED BY <1>3, <1>4, <1>5

(* The last entry of a set of files is the last of one of them.            *)
LEMMA LastEntry ==
  ASSUME TablesOK, NEW F \in SUBSET AllFiles, F # {}
  PROVE  /\ \E x \in F : MaxEntry(Entries(F)) = Largest(x)
         /\ \A f \in F : \/ Largest(f) = MaxEntry(Entries(F))
                         \/ Before(Largest(f), MaxEntry(Entries(F)))
<1>1. PICK m : m = MaxEntry(Entries(F))
  OBVIOUS
<1>2. m \in Entries(F) /\ \A d \in Entries(F) : d = m \/ Before(d, m)
  BY <1>1, RangeEntries, MaxEntryIs
<1>3. PICK x \in F : m \in x.ents
  BY <1>2 DEF Entries
<1>4. \A f \in F : Largest(f) \in f.ents /\ Largest(f) \in Entry
  BY AllFilesIs, FileFacts
<1>5. \A f \in F : Largest(f) \in Entries(F)
  BY <1>4 DEF Entries
<1>6. m \in Entry /\ (m = Largest(x) \/ Before(m, Largest(x)))
  BY <1>3, AllFilesIs, FileBounds
<1>7. m = Largest(x)
  BY <1>2, <1>4, <1>5, <1>6, BeforeAsymmetric
<1> QED BY <1>1, <1>2, <1>5, <1>7

LEMMA FirstEntry ==
  ASSUME TablesOK, NEW F \in SUBSET AllFiles, F # {}
  PROVE  /\ \E x \in F : MinEntry(Entries(F)) = Smallest(x)
         /\ \A f \in F : \/ Smallest(f) = MinEntry(Entries(F))
                         \/ Before(MinEntry(Entries(F)), Smallest(f))
<1>1. PICK m : m = MinEntry(Entries(F))
  OBVIOUS
<1>2. m \in Entries(F) /\ \A d \in Entries(F) : d = m \/ Before(m, d)
  BY <1>1, RangeEntries, MinEntryIs
<1>3. PICK x \in F : m \in x.ents
  BY <1>2 DEF Entries
<1>4. \A f \in F : Smallest(f) \in f.ents /\ Smallest(f) \in Entry
  BY AllFilesIs, FileFacts
<1>5. \A f \in F : Smallest(f) \in Entries(F)
  BY <1>4 DEF Entries
<1>6. m \in Entry /\ (m = Smallest(x) \/ Before(Smallest(x), m))
  BY <1>3, AllFilesIs, FileBounds
<1>7. m = Smallest(x)
  BY <1>2, <1>4, <1>5, <1>6, BeforeAsymmetric
<1> QED BY <1>1, <1>2, <1>5, <1>7

LEMMA RangeOfIs ==
  ASSUME TablesOK, NEW F \in SUBSET AllFiles, F # {}
  PROVE  /\ RangeOf(F).b \in Keys /\ RangeOf(F).e \in Keys
         /\ RangeOf(F).b \in Nat /\ RangeOf(F).e \in Nat
         /\ \E x \in F : RangeOf(F).b = Smallest(x).key
         /\ \E x \in F : RangeOf(F).e = Largest(x).key
         /\ \A f \in F : /\ RangeOf(F).b <= Smallest(f).key
                         /\ Largest(f).key <= RangeOf(F).e
<1>1. PICK b, e : b = RangeOf(F).b /\ e = RangeOf(F).e
  OBVIOUS
<1>2. b = MinEntry(Entries(F)).key /\ e = MaxEntry(Entries(F)).key
  BY <1>1 DEF RangeOf
<1>3. \A f \in F : Smallest(f) \in Entry /\ Largest(f) \in Entry
  BY AllFilesIs, FileFacts
<1>4. PICK x \in F : MinEntry(Entries(F)) = Smallest(x)
  BY FirstEntry
<1>5. PICK y \in F : MaxEntry(Entries(F)) = Largest(y)
  BY LastEntry
<1>6. \A f \in F : Smallest(f) = Smallest(x) \/ Before(Smallest(x), Smallest(f))
  BY <1>4, FirstEntry
<1>7. \A f \in F : Largest(f) = Largest(y) \/ Before(Largest(f), Largest(y))
  BY <1>5, LastEntry
<1>8. b = Smallest(x).key /\ e = Largest(y).key
  BY <1>2, <1>4, <1>5
<1>9. \A f \in F : Smallest(x).key <= Smallest(f).key
  BY <1>3, <1>6, EntryType DEF Before
<1>10. \A f \in F : Largest(f).key <= Largest(y).key
  BY <1>3, <1>7, EntryType DEF Before
<1>11. b \in Keys /\ e \in Keys /\ b \in Nat /\ e \in Nat
  BY <1>3, <1>8, EntryType
<1> QED BY <1>1, <1>8, <1>9, <1>10, <1>11, Zenon

-----------------------------------------------------------------------------
(* AddBoundaryInputs.                                                      *)

LEMMA ChainExists ==
  ASSUME NEW N \in Nat, NEW l, NEW z
  PROVE  \E ch : ch = [n \in 0 .. N |-> IF n = 0 THEN z
                                        ELSE AddBoundaryFile(l, ch[n - 1])]
<1> DEFINE Is(g, m) == g = [n \in 0 .. m |-> IF n = 0 THEN z
                                             ELSE AddBoundaryFile(l, g[n - 1])]
           S == {m \in 0 .. N : \E g : Is(g, m)}
<1>1. 0 \in S
  <2>1. Is([n \in 0 .. 0 |-> z], 0)
    OBVIOUS
  <2> HIDE DEF Is
  <2> QED BY <2>1
<1>2. ASSUME NEW i \in 0 .. N - 1, i \in S PROVE i + 1 \in S
  <2>1. PICK g : Is(g, i)
    BY <1>2
  <2> DEFINE h == [n \in 0 .. i + 1 |-> IF n = i + 1 THEN AddBoundaryFile(l, g[i])
                                        ELSE g[n]]
  <2>2. \A n \in 0 .. i : h[n] = g[n]
    OBVIOUS
  <2>3. \A n \in 0 .. i + 1 :
          h[n] = IF n = 0 THEN z ELSE AddBoundaryFile(l, h[n - 1])
    <3> TAKE n \in 0 .. i + 1
    <3>1. CASE n = 0
      BY <2>1, <2>2, <3>1
    <3>2. CASE n \in 1 .. i
      <4>1. n - 1 \in 0 .. i /\ n \in 0 .. i /\ n # 0
        BY <3>2
      <4>2. h[n] = g[n] /\ h[n - 1] = g[n - 1]
        BY <2>2, <4>1
      <4>3. g[n] = AddBoundaryFile(l, g[n - 1])
        BY <2>1, <4>1
      <4> HIDE DEF h
      <4> QED BY <4>1, <4>2, <4>3
    <3>3. CASE n = i + 1
      BY <2>2, <3>3
    <3> QED BY <3>1, <3>2, <3>3
  <2>4. Is(h, i + 1)
    BY <2>3
  <2>5. i + 1 \in 0 .. N
    OBVIOUS
  <2> HIDE DEF Is, h
  <2> QED BY <2>4, <2>5
<1>3. 0 .. N \subseteq S
  <2> HIDE DEF S
  <2> QED BY <1>1, <1>2, UpTo
<1>4. N \in S
  BY <1>3
<1> QED BY <1>4

(* A file that AddBoundaryInputs adds starts right behind another one,     *)
(* with the user key that one ends with.                                   *)
Added(l, F, B, y) ==
  /\ \A f \in F : Precedes(f, y)
  /\ \E x \in B : /\ Precedes(x, y) /\ Largest(x).key = Smallest(y).key
                  /\ \A g \in version[l] :
                       Precedes(x, g) /\ Smallest(g).key = Smallest(y).key
                         => g = y \/ Before(Smallest(y), Smallest(g))

ChainOK(l, F, c) ==
  /\ F \subseteq c.files /\ c.files \subseteq version[l]
  /\ \E x \in c.files : c.largest = Largest(x)
  /\ \A f \in c.files : Largest(f) = c.largest \/ Before(Largest(f), c.largest)
  /\ \A y \in c.files : y \in F \/ Added(l, F, c.files, y)

LEMMA ChainStep ==
  ASSUME TablesOK, NEW l \in Levels, NEW F, NEW c, ChainOK(l, F, c),
         Boundary(l, c.largest) # {}
  PROVE  /\ ChainOK(l, F, AddBoundaryFile(l, c))
         /\ \E y : y \notin c.files /\ AddBoundaryFile(l, c).files = c.files \cup {y}
<1>1. PICK y : y = FirstFile(Boundary(l, c.largest))
  OBVIOUS
<1>2. Boundary(l, c.largest) \in SUBSET version[l]
  BY DEF Boundary
<1>3. /\ y \in Boundary(l, c.largest)
      /\ \A g \in Boundary(l, c.largest) : g = y \/ Before(Smallest(y), Smallest(g))
  BY <1>1, <1>2, FirstFileIs
<1>4. y \in version[l] /\ Smallest(y).key = c.largest.key /\ Before(c.largest, Smallest(y))
  BY <1>3 DEF Boundary
<1>5. PICK x \in c.files : c.largest = Largest(x)
  BY DEF ChainOK
<1>6. \A f \in version[l] : Largest(f) \in Entry /\ Smallest(f) \in Entry
  BY FileFacts
<1>7. c.files \subseteq version[l] /\ F \subseteq c.files
  BY DEF ChainOK
<1>8. \A f \in c.files : Precedes(f, y)
  <2> TAKE f \in c.files
  <2>1. Largest(f) = c.largest \/ Before(Largest(f), c.largest)
    BY DEF ChainOK
  <2> QED BY <1>4, <1>5, <1>6, <1>7, <2>1, BeforeTransitive DEF Precedes
<1>9. Smallest(y) = Largest(y) \/ Before(Smallest(y), Largest(y))
  BY <1>4, FileFacts, FileBounds
<1>10. \A f \in c.files : Before(Largest(f), Largest(y))
  BY <1>4, <1>6, <1>7, <1>8, <1>9, BeforeTransitive DEF Precedes
<1>11. y \notin c.files
  BY <1>4, <1>6, <1>10, BeforeIrreflexive
<1>12. PICK B : B = c.files \cup {y}
  OBVIOUS
<1>13. /\ AddBoundaryFile(l, c).files = B
       /\ AddBoundaryFile(l, c).largest = Largest(y)
  BY <1>1, <1>12 DEF AddBoundaryFile
<1>14. \A z \in B : z \in F \/ Added(l, F, B, z)
  <2>1. ASSUME NEW z \in c.files PROVE z \in F \/ Added(l, F, B, z)
    <3>1. z \in F \/ Added(l, F, c.files, z)
      BY DEF ChainOK
    <3> QED BY <3>1, <1>12 DEF Added
  <2>2. Added(l, F, B, y)
    <3>1. \A f \in F : Precedes(f, y)
      BY <1>7, <1>8
    <3>2. x \in B /\ Precedes(x, y) /\ Largest(x).key = Smallest(y).key
      BY <1>4, <1>5, <1>8, <1>12
    <3>3. \A g \in version[l] :
            Precedes(x, g) /\ Smallest(g).key = Smallest(y).key
              => g = y \/ Before(Smallest(y), Smallest(g))
      BY <1>3, <1>4, <1>5 DEF Precedes, Boundary
    <3> QED BY <3>1, <3>2, <3>3 DEF Added
  <2> QED BY <1>12, <2>1, <2>2
<1>15. \A f \in B : Largest(f) = Largest(y) \/ Before(Largest(f), Largest(y))
  BY <1>10, <1>12
<1>16. F \subseteq B /\ B \subseteq version[l] /\ y \in B
  BY <1>4, <1>7, <1>12
<1>17. ChainOK(l, F, AddBoundaryFile(l, c))
  BY <1>13, <1>14, <1>15, <1>16 DEF ChainOK
<1> QED BY <1>11, <1>12, <1>13, <1>17

(* What AddBoundaryInputs makes of the files F of a level: no file is left *)
(* that starts, behind the last one, with the user key that one ends with. *)
BoundaryOK(l, F, B) ==
  /\ F \subseteq B /\ B \subseteq version[l]
  /\ \A y \in B : y \in F \/ Added(l, F, B, y)
  /\ \E x \in B :
       /\ \A f \in B : Largest(f) = Largest(x) \/ Before(Largest(f), Largest(x))
       /\ Boundary(l, Largest(x)) = {}

LEMMA BoundaryFacts ==
  ASSUME TablesOK, NEW l \in Levels, NEW F \in SUBSET version[l], F # {}
  PROVE  BoundaryOK(l, F, AddBoundaryInputs(l, F))
<1>1. PICK N \in Nat : N = Cardinality(version[l])
  <2>1. Cardinality(version[l]) \in Nat
    BY LevelFinite
  <2> QED BY <2>1
<1>2. PICK z : z = [files |-> F, largest |-> MaxEntry(Entries(F))]
  OBVIOUS
<1> DEFINE ch == CHOOSE ch : ch = [n \in 0 .. N |->
                   IF n = 0 THEN z ELSE AddBoundaryFile(l, ch[n - 1])]
<1>3. ch = [n \in 0 .. N |-> IF n = 0 THEN z ELSE AddBoundaryFile(l, ch[n - 1])]
  BY ChainExists
<1>4. AddBoundaryInputs(l, F) = ch[N].files
  BY <1>1, <1>2 DEF AddBoundaryInputs
<1> HIDE DEF ch
<1>5. ch[0] = z /\ \A n \in 1 .. N : ch[n] = AddBoundaryFile(l, ch[n - 1])
  BY <1>3
<1> DEFINE Full(n) == Boundary(l, ch[n].largest) = {} \/ Cardinality(ch[n].files) > n
           S == {n \in 0 .. N : ChainOK(l, F, ch[n]) /\ Full(n)}
<1>6. 0 \in S
  <2>1. F \in SUBSET AllFiles
    BY AllFilesIs
  <2>2. ch[0].files = F /\ ch[0].largest = MaxEntry(Entries(F))
    BY <1>2, <1>5
  <2>3. ChainOK(l, F, ch[0])
    BY <2>1, <2>2, LastEntry DEF ChainOK
  <2>4. Cardinality(F) > 0
    <3>1. IsFiniteSet(F) /\ Cardinality(F) \in Nat
      BY LevelFinite
    <3>2. Cardinality(F) # 0
      BY <3>1, FS_EmptySet
    <3> QED BY <3>1, <3>2
  <2> QED BY <2>2, <2>3, <2>4
<1>7. ASSUME NEW i \in 0 .. N - 1, i \in S PROVE i + 1 \in S
  <2>1. i + 1 \in 1 .. N /\ (i + 1) - 1 = i /\ i + 1 \in 0 .. N
    OBVIOUS
  <2>2. ch[i + 1] = AddBoundaryFile(l, ch[i])
    BY <1>5, <2>1
  <2>3. ChainOK(l, F, ch[i]) /\ Full(i)
    BY <1>7
  <2>4. CASE Boundary(l, ch[i].largest) = {}
    <3>1. ch[i + 1] = ch[i]
      BY <2>2, <2>4 DEF AddBoundaryFile
    <3> QED BY <2>1, <2>3, <2>4, <3>1
  <2>5. CASE Boundary(l, ch[i].largest) # {}
    <3>1. ChainOK(l, F, ch[i + 1])
      BY <2>2, <2>3, <2>5, ChainStep
    <3>2. PICK y : y \notin ch[i].files /\ ch[i + 1].files = ch[i].files \cup {y}
      <4>1. PICK c : c = ch[i]
        OBVIOUS
      <4>2. \E y : /\ y \notin c.files
                   /\ AddBoundaryFile(l, c).files = c.files \cup {y}
        <5>1. ChainOK(l, F, c) /\ Boundary(l, c.largest) # {}
          BY <2>3, <2>5, <4>1
        <5> QED BY <5>1, ChainStep, Zenon
      <4> QED BY <2>2, <4>1, <4>2
    <3>3. IsFiniteSet(ch[i].files) /\ Cardinality(ch[i].files) \in Nat
      BY <2>3, LevelFinite DEF ChainOK
    <3>4. Cardinality(ch[i + 1].files) = Cardinality(ch[i].files) + 1
      BY <3>2, <3>3, FS_AddElement
    <3>5. Cardinality(ch[i].files) > i
      BY <2>3, <2>5
    <3>6. Cardinality(ch[i + 1].files) > i + 1
      BY <3>3, <3>4, <3>5
    <3> QED BY <2>1, <3>1, <3>6
  <2> QED BY <2>4, <2>5
<1>8. N \in S
  <2>1. 0 .. N \subseteq S
    <3> HIDE DEF S
    <3> QED BY <1>6, <1>7, UpTo
  <2> QED BY <2>1
<1>9. ChainOK(l, F, ch[N])
  BY <1>8
<1>10. Boundary(l, ch[N].largest) = {}
  <2>1. IsFiniteSet(version[l])
    BY LevelFinite
  <2>2. ch[N].files \in SUBSET version[l]
    BY <1>9 DEF ChainOK
  <2>3. Cardinality(ch[N].files) <= N
    BY <1>1, <2>1, <2>2, FS_Subset
  <2>4. Cardinality(ch[N].files) \in Nat
    BY <2>2, LevelFinite
  <2> QED BY <1>8, <2>3, <2>4
<1> HIDE DEF S, Full
<1>11. BoundaryOK(l, F, ch[N].files)
  BY <1>9, <1>10 DEF ChainOK, BoundaryOK
<1> QED BY <1>4, <1>11

LEMMA BoundaryEmpty ==
  ASSUME NEW l
  PROVE  AddBoundaryInputs(l, {}) = {}
BY DEF AddBoundaryInputs

LEMMA BoundarySubset ==
  ASSUME TablesOK, NEW l \in Levels, NEW F \in SUBSET version[l]
  PROVE  /\ AddBoundaryInputs(l, F) \in SUBSET version[l]
         /\ F \subseteq AddBoundaryInputs(l, F)
BY BoundaryFacts, BoundaryEmpty DEF BoundaryOK

-----------------------------------------------------------------------------
(* SetupOtherInputs: which files of a level and the next are merged.       *)

LowLevel == 0 .. NumLevels - 2   \* the levels that can be compacted

LEMMA LevelFacts ==
  /\ 0 \in Levels /\ 0 \in LowLevel
  /\ \A l \in Levels : l \in Nat /\ l <= NumLevels - 1
  /\ \A l \in LowLevel : /\ l \in Levels /\ l + 1 \in Levels /\ l + 1 > 0
                         /\ l \in Nat /\ l < NumLevels - 1
  /\ \A l \in Levels : l # 0 => l > 0
  /\ \A l \in LowLevel : l + 2 < NumLevels => l + 2 \in Levels
BY LSMAssumption DEF Levels, LowLevel

LEMMA NextSubset ==
  ASSUME TablesOK, NEW l \in LowLevel, NEW F
  PROVE  NextInputs(l, F) \in SUBSET version[l + 1]
<1>1. l + 1 \in Levels
  BY LevelFacts
<1> QED BY <1>1, OverlapSubset, BoundarySubset DEF NextInputs

(* The inputs are F or the expansion of F, with the files of the next      *)
(* level that belong to them.                                              *)
Expanded(l, F) ==
  AddBoundaryInputs(l, GetOverlappingInputs(l, RangeOf(F \cup NextInputs(l, F)).b,
                                               RangeOf(F \cup NextInputs(l, F)).e))

LEMMA SetupCases ==
  ASSUME NEW l, NEW picked, NEW F, F = AddBoundaryInputs(l, picked)
  PROVE  \/ SetupOtherInputs(l, picked) = Inputs(l, F, NextInputs(l, F))
         \/ /\ NextInputs(l, F) # {}
            /\ Cardinality(NextInputs(l, Expanded(l, F))) = Cardinality(NextInputs(l, F))
            /\ SetupOtherInputs(l, picked)
                 = Inputs(l, Expanded(l, F), NextInputs(l, Expanded(l, F)))
<1>1. PICK N : N = NextInputs(l, F)
  OBVIOUS
<1>2. SetupOtherInputs(l, picked) = WithNextLevel(l, F, N)
  BY <1>1 DEF SetupOtherInputs
<1>3. CASE N = {}
  BY <1>1, <1>2, <1>3 DEF WithNextLevel
<1>4. CASE N # {}
  <2>1. PICK X : X = Expanded(l, F)
    OBVIOUS
  <2>2. WithNextLevel(l, F, N) = Expansion(l, F, N, X)
    BY <1>1, <1>4, <2>1 DEF WithNextLevel, Expanded
  <2>3. \/ Expansion(l, F, N, X) = Inputs(l, F, N)
        \/ /\ Expansion(l, F, N, X) = Inputs(l, X, NextInputs(l, X))
           /\ Cardinality(NextInputs(l, X)) = Cardinality(N)
    BY DEF Expansion, ExpandTo, CanExpand
  <2> QED BY <1>1, <1>2, <1>4, <2>1, <2>2, <2>3
<1> QED BY <1>3, <1>4

LEMMA ExpandedFacts ==
  ASSUME TablesOK, NEW l \in LowLevel, NEW F \in SUBSET version[l], F # {}
  PROVE  /\ Expanded(l, F) \in SUBSET version[l]
         /\ F \subseteq Expanded(l, F)
<1>1. l \in Levels /\ l + 1 \in Levels
  BY LevelFacts
<1>2. PICK A : A = F \cup NextInputs(l, F)
  OBVIOUS
<1>3. A \in SUBSET AllFiles /\ A # {}
  BY <1>1, <1>2, NextSubset, AllFilesIs
<1>4. PICK b, e : b = RangeOf(A).b /\ e = RangeOf(A).e
  OBVIOUS
<1>5. /\ b \in Nat /\ e \in Nat
      /\ \A f \in A : b <= Smallest(f).key /\ Largest(f).key <= e
  BY <1>3, <1>4, RangeOfIs
<1>6. \A f \in F : Meets(f, b, e)
  <2> TAKE f \in F
  <2>1. /\ Smallest(f).key \in Nat /\ Largest(f).key \in Nat
        /\ Smallest(f).key <= Largest(f).key
    BY <1>1, FileKeys
  <2> QED BY <1>2, <1>5, <2>1 DEF Meets
<1>7. \A f \in F : f \in GetOverlappingInputs(l, b, e)
  <2>1. CASE l = 0
    BY <1>5, <1>6, <2>1, OverlapZero
  <2>2. CASE l # 0
    BY <1>1, <1>6, <2>2, LevelFacts, OverlapBelow
  <2> QED BY <2>1, <2>2
<1>8. Expanded(l, F) = AddBoundaryInputs(l, GetOverlappingInputs(l, b, e))
  BY <1>2, <1>4 DEF Expanded
<1>9. GetOverlappingInputs(l, b, e) \in SUBSET version[l]
  BY <1>1, OverlapSubset
<1> QED BY <1>1, <1>7, <1>8, <1>9, BoundarySubset

LEMMA SetupSubset ==
  ASSUME TablesOK, NEW l \in LowLevel, NEW picked \in SUBSET version[l],
         picked # {}, NEW c, c = SetupOtherInputs(l, picked)
  PROVE  /\ c.in0 \in SUBSET version[l] /\ c.in0 # {}
         /\ c.in1 \in SUBSET version[l + 1]
         /\ c.grandparents \in SUBSET AllFiles
<1>1. l \in Levels /\ l + 1 \in Levels
  BY LevelFacts
<1>2. PICK F : F = AddBoundaryInputs(l, picked)
  OBVIOUS
<1>3. F \in SUBSET version[l] /\ F # {}
  BY <1>1, <1>2, BoundarySubset
<1>4. ASSUME NEW X \in SUBSET version[l], X # {}, c = Inputs(l, X, NextInputs(l, X))
      PROVE  /\ c.in0 \in SUBSET version[l] /\ c.in0 # {}
             /\ c.in1 \in SUBSET version[l + 1]
             /\ c.grandparents \in SUBSET AllFiles
  <2>1. \A b, e : l + 2 < NumLevels =>
          GetOverlappingInputs(l + 2, b, e) \in SUBSET AllFiles
    BY LevelFacts, OverlapSubset, AllFilesIs
  <2>2. PICK N : N = NextInputs(l, X)
    OBVIOUS
  <2>3. c = Inputs(l, X, N)
    BY <1>4, <2>2
  <2>4. c.in0 = X /\ c.in1 = N
    BY <2>3 DEF Inputs
  <2>5. c.grandparents \in SUBSET AllFiles
    BY <2>1, <2>3 DEF Inputs
  <2> QED BY <1>4, <2>2, <2>4, <2>5, NextSubset
<1>5. CASE c = Inputs(l, F, NextInputs(l, F))
  BY <1>3, <1>4, <1>5
<1>6. CASE c = Inputs(l, Expanded(l, F), NextInputs(l, Expanded(l, F)))
  <2>1. Expanded(l, F) \in SUBSET version[l] /\ Expanded(l, F) # {}
    BY <1>3, ExpandedFacts
  <2> QED BY <1>4, <1>6, <2>1
<1> QED BY <1>2, <1>5, <1>6, SetupCases

-----------------------------------------------------------------------------
(* The merging iterator: the entries in order.                             *)

Sorted(M, E) ==
  /\ M \in [1 .. Cardinality(E) -> E]
  /\ \A e \in E : \E i \in 1 .. Cardinality(E) : M[i] = e
  /\ \A i, j \in 1 .. Cardinality(E) : i < j => Before(M[i], M[j])

LEMMA MergedIs ==
  ASSUME NEW E \in SUBSET Entry, Distinct(E)
  PROVE  Sorted(Merged(E), E) /\ Len(Merged(E)) = Cardinality(E)
<1> DEFINE Below(e) == {d \in E : Before(d, e)}
           N == Cardinality(E)
<1>1. IsFiniteSet(E) /\ N \in Nat
  BY EntriesFinite
<1>2. \A e \in E : IsFiniteSet(Below(e)) /\ Cardinality(Below(e)) \in Nat
  <2> TAKE e \in E
  <2>1. Below(e) \in SUBSET Entry
    OBVIOUS
  <2> HIDE DEF Below
  <2> QED BY <2>1, EntriesFinite
<1>3. \A e \in E : Cardinality(Below(e)) \in 0 .. N - 1
  <2> TAKE e \in E
  <2>1. Below(e) \in SUBSET (E \ {e})
    BY BeforeIrreflexive
  <2>2. IsFiniteSet(E \ {e}) /\ Cardinality(E \ {e}) = N - 1
    BY <1>1, FS_RemoveElement
  <2>3. Cardinality(Below(e)) <= N - 1
    <3> HIDE DEF Below
    <3> QED BY <2>1, <2>2, FS_Subset
  <2> HIDE DEF Below, N
  <2> QED BY <1>1, <1>2, <2>3
<1>4. \A a, b \in E : Before(a, b) => Cardinality(Below(a)) < Cardinality(Below(b))
  <2> SUFFICES ASSUME NEW a \in E, NEW b \in E, Before(a, b)
               PROVE  Cardinality(Below(a)) < Cardinality(Below(b))
    OBVIOUS
  <2>1. Below(a) \in SUBSET Below(b)
    BY BeforeTransitive
  <2>2. a \in Below(b) /\ a \notin Below(a)
    BY BeforeIrreflexive
  <2>3. IsFiniteSet(Below(b)) /\ Cardinality(Below(b)) \in Nat
        /\ Cardinality(Below(a)) \in Nat
    BY <1>2
  <2> HIDE DEF Below
  <2>4. /\ Cardinality(Below(a)) <= Cardinality(Below(b))
        /\ Cardinality(Below(b)) = Cardinality(Below(a)) => Below(b) = Below(a)
    BY <2>1, <2>3, FS_Subset
  <2> QED BY <2>2, <2>3, <2>4
<1> DEFINE rk == [e \in E |-> Cardinality(Below(e))]
<1>5. \A a, b \in E : rk[a] = rk[b] => a = b
  <2> SUFFICES ASSUME NEW a \in E, NEW b \in E, rk[a] = rk[b] PROVE a = b
    OBVIOUS
  <2>1. a = b \/ Before(a, b) \/ Before(b, a)
    BY BeforeTotal
  <2>2. Cardinality(Below(a)) = Cardinality(Below(b))
    OBVIOUS
  <2> HIDE DEF Below, rk
  <2> QED BY <1>2, <1>4, <2>1, <2>2
<1>6. rk \in Injection(E, 0 .. N - 1)
  <2>1. rk \in [E -> 0 .. N - 1]
    BY <1>3
  <2> HIDE DEF rk, N
  <2> QED BY <1>5, <2>1 DEF Injection, IsInjective
<1>7. IsFiniteSet(0 .. N - 1) /\ Cardinality(0 .. N - 1) = N
  <2> HIDE DEF N
  <2>1. 0 \in Int /\ N - 1 \in Int
    BY <1>1
  <2> QED BY <1>1, <2>1, FS_Interval
<1>8. rk \in Surjection(E, 0 .. N - 1)
  <2> HIDE DEF rk
  <2> QED BY <1>6, <1>7, FS_Injection
<1>9. \A i \in 1 .. N : \E e \in E : Cardinality(Below(e)) = i - 1
  <2> TAKE i \in 1 .. N
  <2>1. i - 1 \in 0 .. N - 1
    BY <1>1
  <2>2. PICK e \in E : rk[e] = i - 1
    <3> HIDE DEF rk, N
    <3> QED BY <1>8, <2>1 DEF Surjection
  <2> QED BY <2>2
<1>10. PICK M : M = Merged(E)
  OBVIOUS
<1>11. M = [i \in 1 .. N |-> CHOOSE e \in E : Cardinality(Below(e)) = i - 1]
  BY <1>10 DEF Merged
<1>12. \A i \in 1 .. N : M[i] \in E /\ Cardinality(Below(M[i])) = i - 1
  <2> HIDE DEF Below, N
  <2> QED BY <1>9, <1>11
<1>13. M \in [1 .. N -> E]
  BY <1>11, <1>12
<1>14. ASSUME NEW e \in E PROVE \E i \in 1 .. N : M[i] = e
  <2>1. PICK i : i = Cardinality(Below(e)) + 1
    OBVIOUS
  <2>2. i \in 1 .. N /\ i - 1 = Cardinality(Below(e))
    <3> HIDE DEF Below, N
    <3> QED BY <1>1, <1>3, <2>1
  <2>3. M[i] \in E /\ rk[M[i]] = rk[e]
    BY <1>12, <2>2
  <2>4. M[i] = e
    <3> HIDE DEF rk
    <3> QED BY <1>5, <2>3
  <2> QED BY <2>2, <2>4
<1>15. ASSUME NEW i \in 1 .. N, NEW j \in 1 .. N, i < j
       PROVE  Before(M[i], M[j])
  <2>1. M[i] = M[j] \/ Before(M[i], M[j]) \/ Before(M[j], M[i])
    BY <1>12, BeforeTotal
  <2> HIDE DEF Below, N
  <2> QED BY <1>1, <1>4, <1>12, <1>15, <2>1
<1>16. Len(M) = N
  <2>1. DOMAIN M = 1 .. N
    BY <1>13
  <2> HIDE DEF N
  <2> QED BY <1>1, <1>13, <2>1
<1> HIDE DEF Below, rk
<1> QED BY <1>10, <1>13, <1>14, <1>15, <1>16 DEF Sorted

-----------------------------------------------------------------------------
(* The loop of DoCompactionWork.                                           *)

IsLoop(a, c, M, N) ==
  a = [n \in 0 .. N |-> IF n = 0 THEN MergeStart
                        ELSE MergeStep(c, a[n - 1], M[n])]

LEMMA LoopExists ==
  ASSUME NEW N \in Nat, NEW c, NEW M
  PROVE  \E a : IsLoop(a, c, M, N)
<1> DEFINE Is(g, m) == g = [n \in 0 .. m |-> IF n = 0 THEN MergeStart
                                             ELSE MergeStep(c, g[n - 1], M[n])]
           S == {m \in 0 .. N : \E g : Is(g, m)}
<1>1. 0 \in S
  <2>1. Is([n \in 0 .. 0 |-> MergeStart], 0)
    OBVIOUS
  <2> HIDE DEF Is
  <2> QED BY <2>1
<1>2. ASSUME NEW i \in 0 .. N - 1, i \in S PROVE i + 1 \in S
  <2>1. PICK g : Is(g, i)
    BY <1>2
  <2> DEFINE h == [n \in 0 .. i + 1 |-> IF n = i + 1
                                        THEN MergeStep(c, g[i], M[n]) ELSE g[n]]
  <2>2. \A n \in 0 .. i : h[n] = g[n]
    OBVIOUS
  <2>3. \A n \in 0 .. i + 1 :
          h[n] = IF n = 0 THEN MergeStart ELSE MergeStep(c, h[n - 1], M[n])
    <3> TAKE n \in 0 .. i + 1
    <3>1. CASE n = 0
      BY <2>1, <2>2, <3>1
    <3>2. CASE n \in 1 .. i
      <4>1. n - 1 \in 0 .. i /\ n \in 0 .. i /\ n # 0
        BY <3>2
      <4>2. h[n] = g[n] /\ h[n - 1] = g[n - 1]
        BY <2>2, <4>1
      <4>3. g[n] = MergeStep(c, g[n - 1], M[n])
        BY <2>1, <4>1
      <4> HIDE DEF h
      <4> QED BY <4>1, <4>2, <4>3
    <3>3. CASE n = i + 1
      BY <2>2, <3>3
    <3> QED BY <3>1, <3>2, <3>3
  <2>4. Is(h, i + 1)
    BY <2>3
  <2>5. i + 1 \in 0 .. N
    OBVIOUS
  <2> HIDE DEF Is, h
  <2> QED BY <2>4, <2>5
<1>3. 0 .. N \subseteq S
  <2> HIDE DEF S
  <2> QED BY <1>1, <1>2, UpTo
<1>4. N \in S
  BY <1>3
<1> QED BY <1>4 DEF IsLoop

(* The entry before the i-th, and whether the i-th is dropped.             *)
Previous(M, i) == IF i = 1 THEN NoPointer ELSE M[i - 1]
Dropped(c, M, i) == Drop(c, Previous(M, i), M[i])
Kept(c, M, n) == {M[i] : i \in {j \in 1 .. n : ~Dropped(c, M, j)}}

LEMMA KeptIs ==
  ASSUME NEW c, NEW M, NEW n, NEW e
  PROVE  e \in Kept(c, M, n) <=> \E i \in 1 .. n : ~Dropped(c, M, i) /\ e = M[i]
BY DEF Kept

(* One turn: the open output may be closed, the entry is dropped or added, *)
(* and the output may be closed again.                                     *)
Turn(st, st1, D) ==
  \E O, P, Q :
    /\ \/ O = st.outs /\ P = st.open
       \/ O = st.outs \cup {st.open} /\ P = {} /\ st.open # {}
    /\ Q = P \cup D
    /\ \/ st1.outs = O /\ st1.open = Q
       \/ st1.outs = O \cup {Q} /\ st1.open = {} /\ D # {}

Survives(c, st, e) == IF Drop(c, st, e) THEN {} ELSE {e}

LEMMA MergeStepIs ==
  ASSUME NEW c, NEW st, NEW e
  PROVE  /\ MergeStep(c, st, e).key = e.key /\ MergeStep(c, st, e).seq = e.seq
         /\ Turn(st, MergeStep(c, st, e), Survives(c, st, e))
<1>1. PICK s : s = ShouldStopBefore(c, st, e)
  OBVIOUS
<1>2. PICK O : O = IF s.stop /\ st.open # {} THEN st.outs \cup {st.open} ELSE st.outs
  OBVIOUS
<1>3. PICK P : P = IF s.stop /\ st.open # {} THEN {} ELSE st.open
  OBVIOUS
<1>4. PICK D : D = Survives(c, st, e)
  OBVIOUS
<1>9. PICK Q : Q = P \cup D
  OBVIOUS
<1>5. PICK st1 : st1 = MergeStep(c, st, e)
  OBVIOUS
<1>6. /\ st1.outs = IF ~Drop(c, st, e) /\ Cardinality(Q) >= TargetFileSize
                    THEN O \cup {Q} ELSE O
      /\ st1.open = IF ~Drop(c, st, e) /\ Cardinality(Q) >= TargetFileSize
                    THEN {} ELSE Q
      /\ st1.key = e.key /\ st1.seq = e.seq
  BY <1>1, <1>2, <1>3, <1>4, <1>5, <1>9 DEF MergeStep, Survives
<1>7. \/ O = st.outs /\ P = st.open
      \/ O = st.outs \cup {st.open} /\ P = {} /\ st.open # {}
  BY <1>2, <1>3
<1>8. \/ st1.outs = O /\ st1.open = Q
      \/ st1.outs = O \cup {Q} /\ st1.open = {} /\ D # {}
  BY <1>4, <1>6 DEF Survives
<1>10. Turn(st, st1, D)
  BY <1>7, <1>8, <1>9 DEF Turn
<1> QED BY <1>4, <1>5, <1>6, <1>10

(* X lies before Y.                                                        *)
AllBefore(X, Y) == \A a \in X : \A b \in Y : Before(a, b)

(* The outputs so far: none is empty, they are in order, and together with *)
(* the open one they hold what was kept.                                   *)
OutsOK(outs, open) ==
  /\ {} \notin outs
  /\ \A X \in outs : AllBefore(X, open)
  /\ \A X, Y \in outs : X = Y \/ AllBefore(X, Y) \/ AllBefore(Y, X)

LEMMA TurnOK ==
  ASSUME NEW st, NEW st1, NEW D, NEW K,
         Turn(st, st1, D), OutsOK(st.outs, st.open),
         (UNION st.outs) \cup st.open = K, AllBefore(K, D)
  PROVE  /\ OutsOK(st1.outs, st1.open)
         /\ (UNION st1.outs) \cup st1.open = K \cup D
<1>1. PICK O, P, Q :
        /\ \/ O = st.outs /\ P = st.open
           \/ O = st.outs \cup {st.open} /\ P = {} /\ st.open # {}
        /\ Q = P \cup D
        /\ \/ st1.outs = O /\ st1.open = Q
           \/ st1.outs = O \cup {Q} /\ st1.open = {} /\ D # {}
  BY DEF Turn
<1>2. OutsOK(O, P) /\ (UNION O) \cup P = K
  <2>1. CASE O = st.outs /\ P = st.open
    BY <2>1
  <2>2. CASE O = st.outs \cup {st.open} /\ P = {} /\ st.open # {}
    <3>1. (UNION O) \cup P = K
      BY <2>2
    <3>2. {} \notin O /\ \A X \in O : AllBefore(X, P)
      BY <2>2 DEF OutsOK, AllBefore
    <3>3. \A X, Y \in O : X = Y \/ AllBefore(X, Y) \/ AllBefore(Y, X)
      BY <2>2 DEF OutsOK
    <3> QED BY <3>1, <3>2, <3>3 DEF OutsOK
  <2> QED BY <1>1, <2>1, <2>2
<1>3. OutsOK(O, Q)
  <2>1. \A X \in O : AllBefore(X, Q)
    <3> SUFFICES ASSUME NEW X \in O, NEW a \in X, NEW b \in Q PROVE Before(a, b)
      BY DEF AllBefore
    <3>1. AllBefore(X, P) /\ a \in K
      BY <1>2 DEF OutsOK
    <3>2. b \in P \/ b \in D
      BY <1>1
    <3> QED BY <3>1, <3>2 DEF AllBefore
  <2> QED BY <1>2, <2>1 DEF OutsOK
<1>4. (UNION O) \cup Q = K \cup D
  BY <1>1, <1>2
<1>5. CASE st1.outs = O /\ st1.open = Q
  BY <1>3, <1>4, <1>5
<1>6. CASE st1.outs = O \cup {Q} /\ st1.open = {} /\ D # {}
  <2>1. (UNION st1.outs) \cup st1.open = (UNION O) \cup Q
    BY <1>6
  <2>2. Q # {}
    BY <1>1, <1>6
  <2>3. {} \notin st1.outs /\ \A X \in st1.outs : AllBefore(X, st1.open)
    BY <1>3, <1>6, <2>2 DEF OutsOK, AllBefore
  <2>4. \A X, Y \in st1.outs : X = Y \/ AllBefore(X, Y) \/ AllBefore(Y, X)
    BY <1>3, <1>6 DEF OutsOK
  <2> QED BY <1>4, <2>1, <2>3, <2>4 DEF OutsOK
<1> QED BY <1>1, <1>5, <1>6

LoopDone(c, M, N, a) ==
  /\ OutsOK(a[N].outs, a[N].open)
  /\ (UNION a[N].outs) \cup a[N].open = Kept(c, M, N)

LEMMA LoopOK ==
  ASSUME NEW c, NEW E \in SUBSET Entry, NEW M, Sorted(M, E),
         NEW N \in Nat, N = Cardinality(E),
         NEW a, IsLoop(a, c, M, N)
  PROVE  LoopDone(c, M, N, a)
<1> DEFINE OK(n) ==
             /\ a[n].key = Previous(M, n + 1).key
             /\ a[n].seq = Previous(M, n + 1).seq
             /\ OutsOK(a[n].outs, a[n].open)
             /\ (UNION a[n].outs) \cup a[n].open = Kept(c, M, n)
           S == {n \in 0 .. N : OK(n)}
<1>1. a[0] = MergeStart /\ \A n \in 1 .. N : a[n] = MergeStep(c, a[n - 1], M[n])
  BY DEF IsLoop
<1>2. 0 \in S
  <2>1. a[0].outs = {} /\ a[0].open = {} /\ a[0].key = 0 /\ a[0].seq = 0
    BY <1>1 DEF MergeStart
  <2>2. Previous(M, 0 + 1).key = 0 /\ Previous(M, 0 + 1).seq = 0
    BY DEF Previous, NoPointer, IKey
  <2>3. Kept(c, M, 0) = {}
    BY DEF Kept
  <2>4. OutsOK(a[0].outs, a[0].open)
    BY <2>1 DEF OutsOK
  <2> QED BY <2>1, <2>2, <2>3, <2>4
<1>3. ASSUME NEW i \in 0 .. N - 1, i \in S PROVE i + 1 \in S
  <2>1. PICK n \in 1 .. N : n = i + 1
    BY <1>3
  <2>2. OK(i) /\ n - 1 = i
    BY <1>3, <2>1
  <2>3. PICK st, st1, e : st = a[i] /\ st1 = a[n] /\ e = M[n]
    OBVIOUS
  <2>4. st1 = MergeStep(c, st, e)
    BY <1>1, <2>2, <2>3
  <2>5. Drop(c, st, e) <=> Dropped(c, M, n)
    <3>1. st.key = Previous(M, n).key /\ st.seq = Previous(M, n).seq
      BY <2>1, <2>2, <2>3
    <3> QED BY <3>1, <2>3 DEF Drop, Dropped
  <2>6. PICK D : D = Survives(c, st, e)
    OBVIOUS
  <2>7. st1.key = e.key /\ st1.seq = e.seq /\ Turn(st, st1, D)
    BY <2>4, <2>6, MergeStepIs
  <2>8. OutsOK(st.outs, st.open) /\ (UNION st.outs) \cup st.open = Kept(c, M, i)
    BY <2>2, <2>3
  <2>9. \A d \in Kept(c, M, i) : Before(d, e)
    <3> TAKE d \in Kept(c, M, i)
    <3>1. PICK j \in 1 .. i : d = M[j]
      BY KeptIs
    <3>2. j \in 1 .. N /\ n \in 1 .. N /\ j < n
      BY <2>1, <3>1
    <3> QED BY <2>3, <3>1, <3>2 DEF Sorted
  <2>10. AllBefore(Kept(c, M, i), D)
    BY <2>6, <2>9 DEF AllBefore, Survives
  <2>11. /\ OutsOK(st1.outs, st1.open)
         /\ (UNION st1.outs) \cup st1.open = Kept(c, M, i) \cup D
    BY <2>7, <2>8, <2>10, TurnOK
  <2>12. Kept(c, M, n) = Kept(c, M, i) \cup D
    <3> SUFFICES ASSUME NEW x
                 PROVE  x \in Kept(c, M, n) <=> x \in Kept(c, M, i) \/ x \in D
      OBVIOUS
    <3>1. 1 .. n = (1 .. i) \cup {n}
      BY <2>1
    <3>2. x \in D <=> ~Dropped(c, M, n) /\ x = M[n]
      BY <2>3, <2>5, <2>6 DEF Survives
    <3>3. x \in Kept(c, M, n) <=> \E j \in 1 .. n : ~Dropped(c, M, j) /\ x = M[j]
      BY DEF Kept
    <3>4. x \in Kept(c, M, i) <=> \E j \in 1 .. i : ~Dropped(c, M, j) /\ x = M[j]
      BY DEF Kept
    <3> QED BY <3>1, <3>2, <3>3, <3>4
  <2>13. Previous(M, n + 1) = e
    BY <2>1, <2>3 DEF Previous
  <2>14. OK(n)
    BY <2>3, <2>7, <2>11, <2>12, <2>13
  <2> HIDE DEF OK
  <2> QED BY <2>1, <2>14
<1>4. N \in S
  <2>1. 0 .. N \subseteq S
    <3> HIDE DEF S
    <3> QED BY <1>2, <1>3, UpTo
  <2> QED BY <2>1
<1> QED BY <1>4 DEF LoopDone

-----------------------------------------------------------------------------
(* The outputs of a compaction.                                            *)

(* An entry is dropped only if a newer one hides it from every snapshot,   *)
(* or if it is a deletion with nothing left below to hide; and it is kept  *)
(* only if no newer one hides it from every snapshot.                      *)
Hidden(c, e) ==
  \E p \in Entries(In(c)) :
    p.key = e.key /\ e.seq < p.seq /\ p.seq <= c.smallestSnapshot
Obsolete(c, e) ==
  /\ e.type = "deletion" /\ e.seq <= c.smallestSnapshot
  /\ IsBaseLevelForKey(c, e.key)

OutputsOK(c, O) ==
  /\ \A f \in O : /\ f \in File /\ FileOK(f) /\ f.num = 0
                  /\ f.ents \subseteq Entries(In(c))
  /\ \A f, g \in O : f = g \/ AllBefore(f.ents, g.ents) \/ AllBefore(g.ents, f.ents)
  /\ \A e \in Entries(In(c)) :
       /\ e \notin Entries(O) => Hidden(c, e) \/ Obsolete(c, e)
       /\ Hidden(c, e) => e \notin Entries(O)

LEMMA DroppedIs ==
  ASSUME NEW c, NEW E \in SUBSET Entry, E = Entries(In(c)), NEW M, Sorted(M, E),
         NEW N \in Nat, N = Cardinality(E), NEW i \in 1 .. N,
         c.smallestSnapshot \in Nat
  PROVE  /\ Dropped(c, M, i) => Hidden(c, M[i]) \/ Obsolete(c, M[i])
         /\ Hidden(c, M[i]) => Dropped(c, M, i)
<1>1. \A j \in 1 .. N : M[j] \in E /\ M[j] \in Entry
  BY DEF Sorted
<1>2. PICK e : e = M[i]
  OBVIOUS
<1>3. e \in Entry /\ e \in E
  BY <1>1, <1>2
<1>4. ASSUME Dropped(c, M, i) PROVE Hidden(c, e) \/ Obsolete(c, e)
  <2>1. \/ Previous(M, i).key = e.key /\ Previous(M, i).seq <= c.smallestSnapshot
        \/ Obsolete(c, e)
    BY <1>2, <1>4 DEF Dropped, Drop, Obsolete
  <2>2. CASE Previous(M, i).key = e.key /\ Previous(M, i).seq <= c.smallestSnapshot
    <3>1. i # 1
      <4>1. i = 1 => Previous(M, i).key = 0
        BY DEF Previous, NoPointer, IKey
      <4> QED BY <1>3, <2>2, <4>1, EntryType
    <3>2. i - 1 \in 1 .. N /\ i - 1 < i /\ Previous(M, i) = M[i - 1]
      BY <3>1 DEF Previous
    <3>3. PICK p : p = M[i - 1]
      OBVIOUS
    <3>4. p \in E /\ p \in Entry /\ Before(p, e)
      BY <1>1, <1>2, <3>2, <3>3 DEF Sorted
    <3>5. p.key = e.key /\ p.seq <= c.smallestSnapshot
      BY <2>2, <3>2, <3>3
    <3>6. e.seq < p.seq
      BY <1>3, <3>4, <3>5, EntryType DEF Before
    <3> QED BY <3>4, <3>5, <3>6 DEF Hidden
  <2> QED BY <2>1, <2>2
<1>5. ASSUME Hidden(c, e) PROVE Dropped(c, M, i)
  <2>1. PICK p \in E : /\ p.key = e.key /\ e.seq < p.seq
                       /\ p.seq <= c.smallestSnapshot
    BY <1>5 DEF Hidden
  <2>2. PICK j \in 1 .. N : M[j] = p
    BY <2>1 DEF Sorted
  <2>3. p \in Entry /\ Before(p, e)
    BY <1>1, <2>1, <2>2 DEF Before
  <2>4. j < i
    <3>1. i < j => Before(e, p)
      BY <1>2, <2>2 DEF Sorted
    <3>2. i = j => e = p
      BY <1>2, <2>2
    <3> QED BY <1>3, <2>2, <2>3, <3>1, <3>2, BeforeAsymmetric
  <2>5. i # 1 /\ i - 1 \in 1 .. N /\ Previous(M, i) = M[i - 1] /\ i - 1 < i
    BY <2>2, <2>4 DEF Previous
  <2>6. PICK q : q = M[i - 1]
    OBVIOUS
  <2>7. q \in Entry /\ Before(q, e) /\ (q = p \/ Before(p, q))
    <3>1. q \in Entry /\ Before(q, e)
      BY <1>1, <1>2, <2>5, <2>6 DEF Sorted
    <3>2. j < i - 1 => Before(p, q)
      BY <2>2, <2>5, <2>6 DEF Sorted
    <3>3. j = i - 1 => q = p
      BY <2>2, <2>6
    <3> QED BY <2>4, <3>1, <3>2, <3>3
  <2>8. q.key = e.key /\ q.seq <= c.smallestSnapshot
    BY <1>3, <2>1, <2>3, <2>7, EntryType DEF Before
  <2> QED BY <1>2, <2>5, <2>6, <2>8 DEF Dropped, Drop
<1> QED BY <1>2, <1>4, <1>5

LEMMA NewTableIs ==
  ASSUME NEW l, NEW X \in SUBSET Entry, X # {}, Distinct(X),
         l = 0 => NewFileNumber \in Nat
  PROVE  /\ NewTable(l, X) \in File /\ FileOK(NewTable(l, X))
         /\ NewTable(l, X).ents = X
         /\ NewTable(l, X).num = IF l = 0 THEN NewFileNumber ELSE 0
         /\ Smallest(NewTable(l, X)) = MinEntry(X)
         /\ Largest(NewTable(l, X)) = MaxEntry(X)
<1>1. PICK f : f = NewTable(l, X)
  OBVIOUS
<1>2. PICK a, z, n : a = MinEntry(X) /\ z = MaxEntry(X)
                     /\ n = IF l = 0 THEN NewFileNumber ELSE 0
  OBVIOUS
<1>3. f = [num |-> n, ents |-> X, smallest |-> a, largest |-> z]
  BY <1>1, <1>2 DEF NewTable
<1>4. /\ a \in X /\ \A d \in X : d = a \/ Before(a, d)
      /\ z \in X /\ \A d \in X : d = z \/ Before(d, z)
  BY <1>2, MinEntryIs, MaxEntryIs
<1>5. n \in Nat
  BY <1>2
<1>6. f \in File
  BY <1>3, <1>4, <1>5 DEF File
<1>7. FileOK(f)
  BY <1>3, <1>4 DEF FileOK
<1> QED BY <1>1, <1>2, <1>3, <1>6, <1>7 DEF Smallest, Largest

LEMMA OutputsFacts ==
  ASSUME NEW c, c.level \in Nat, c.smallestSnapshot \in Nat,
         Entries(In(c)) \in SUBSET Entry, Distinct(Entries(In(c)))
  PROVE  OutputsOK(c, Outputs(c))
<1>1. PICK E \in SUBSET Entry : E = Entries(In(c))
  OBVIOUS
<1>2. PICK M : M = Merged(E)
  OBVIOUS
<1>3. PICK N \in Nat : N = Cardinality(E)
  BY EntriesFinite
<1>4. Sorted(M, E) /\ Len(M) = N
  BY <1>1, <1>2, <1>3, MergedIs
<1> DEFINE a == CHOOSE a : IsLoop(a, c, M, N)
<1>5. IsLoop(a, c, M, N)
  BY LoopExists
<1>6. CompactionEnd(c) = a[N]
  BY <1>1, <1>2, <1>4 DEF CompactionEnd, In, IsLoop
<1> HIDE DEF a
<1>7. PICK outs, open : outs = a[N].outs /\ open = a[N].open
  OBVIOUS
<1>8. OutsOK(outs, open) /\ (UNION outs) \cup open = Kept(c, M, N)
  <2>1. LoopDone(c, M, N, a)
    BY <1>3, <1>4, <1>5, LoopOK
  <2> QED BY <1>7, <2>1, Zenon DEF LoopDone
<1>9. PICK Z : Z = (outs \cup {open}) \ {{}}
  OBVIOUS
<1>10. Outputs(c) = {NewTable(c.level + 1, X) : X \in Z}
  BY <1>6, <1>7, <1>9 DEF Outputs
<1>11. Kept(c, M, N) \subseteq E
  BY <1>3, <1>4, KeptIs DEF Sorted
<1>12. \A X \in Z : X \in SUBSET E /\ X # {}
  BY <1>8, <1>9, <1>11
<1>13. UNION Z = Kept(c, M, N)
  BY <1>8, <1>9
<1>14. \A X, Y \in Z : X = Y \/ AllBefore(X, Y) \/ AllBefore(Y, X)
  BY <1>8, <1>9 DEF OutsOK
<1>15. PICK l : l = c.level + 1
  OBVIOUS
<1>16. \A X \in Z : /\ NewTable(l, X) \in File /\ FileOK(NewTable(l, X))
                    /\ NewTable(l, X).ents = X /\ NewTable(l, X).num = 0
  <2> TAKE X \in Z
  <2>1. X \in SUBSET Entry /\ X # {} /\ Distinct(X)
    BY <1>1, <1>12 DEF Distinct
  <2>2. l # 0
    BY <1>15
  <2> QED BY <2>1, <2>2, NewTableIs
<1>17. PICK O : O = Outputs(c)
  OBVIOUS
<1>18. O = {NewTable(l, X) : X \in Z}
  BY <1>10, <1>15, <1>17
<1>19. \A f \in O : f \in File /\ FileOK(f) /\ f.num = 0 /\ f.ents \in Z
  BY <1>16, <1>18
<1>20. \A f \in O : f.ents \subseteq E
  BY <1>12, <1>19
<1>21. \A f, g \in O : f = g \/ AllBefore(f.ents, g.ents) \/ AllBefore(g.ents, f.ents)
  <2> TAKE f, g \in O
  <2>1. f = NewTable(l, f.ents) /\ g = NewTable(l, g.ents)
    BY <1>16, <1>18
  <2>2. \/ f.ents = g.ents \/ AllBefore(f.ents, g.ents)
        \/ AllBefore(g.ents, f.ents)
    BY <1>14, <1>19
  <2> QED BY <2>1, <2>2
<1>22. Entries(O) = Kept(c, M, N)
  <2>1. Entries(O) = UNION Z
    BY <1>16, <1>18 DEF Entries
  <2> QED BY <1>13, <2>1
<1>23. ASSUME NEW e \in E
       PROVE  /\ e \notin Entries(O) => Hidden(c, e) \/ Obsolete(c, e)
              /\ Hidden(c, e) => e \notin Entries(O)
  <2>1. PICK i \in 1 .. N : M[i] = e
    BY <1>3, <1>4 DEF Sorted
  <2>2. /\ Dropped(c, M, i) => Hidden(c, e) \/ Obsolete(c, e)
    BY <1>1, <1>3, <1>4, <2>1, DroppedIs
  <2>3. e \notin Entries(O) => Dropped(c, M, i)
    BY <1>22, <2>1, KeptIs
  <2>4. ASSUME Hidden(c, e), e \in Kept(c, M, N) PROVE FALSE
    <3>1. PICK j \in 1 .. N : ~Dropped(c, M, j) /\ e = M[j]
      BY <2>4, KeptIs
    <3>2. Hidden(c, M[j]) => Dropped(c, M, j)
      BY <1>1, <1>3, <1>4, DroppedIs
    <3> QED BY <2>4, <3>1, <3>2
  <2> QED BY <1>22, <2>2, <2>3, <2>4
<1> QED BY <1>1, <1>17, <1>19, <1>20, <1>21, <1>23 DEF OutputsOK

-----------------------------------------------------------------------------
(* Finding files, and the level for the output of a flush.                 *)

LEMMA FindFileIs ==
  ASSUME TablesOK, NEW l \in Levels, NEW ik
  PROVE  /\ FindFile(l, ik) \in SUBSET version[l]
         /\ \A f, g \in FindFile(l, ik) : f = g
         /\ \A f \in FindFile(l, ik) : ~Before(Largest(f), ik)
         /\ \A g \in version[l] : ~Before(Largest(g), ik) =>
              \E f \in FindFile(l, ik) :
                g = f \/ Before(Smallest(f), Smallest(g))
<1>1. PICK A \in SUBSET version[l] :
        A = {f \in version[l] : ~Before(Largest(f), ik)}
  OBVIOUS
<1>2. FindFile(l, ik) = IF A = {} THEN {} ELSE {FirstFile(A)}
  BY <1>1 DEF FindFile
<1>3. A # {} => /\ FirstFile(A) \in A
                /\ \A g \in A : g = FirstFile(A)
                                  \/ Before(Smallest(FirstFile(A)), Smallest(g))
  BY FirstFileIs
<1> QED BY <1>1, <1>2, <1>3

LEMMA NoOverlap ==
  ASSUME TablesOK, NEW l \in Levels, NEW b \in Nat, NEW e \in Nat,
         ~OverlapInLevel(l, b, e), NEW f \in version[l]
  PROVE  ~Meets(f, b, e)
<1>1. CASE l = 0
  BY <1>1 DEF OverlapInLevel
<1>2. CASE l # 0
  <2>1. PICK ik : ik = IKey(b, MaxWrites + 1)
    OBVIOUS
  <2>2. ik.key = b /\ ik.seq = MaxWrites + 1
    BY <2>1 DEF IKey
  <2>3. \A g \in FindFile(l, ik) : ~(Smallest(g).key <= e)
    BY <1>2, <2>1 DEF OverlapInLevel
  <2>4. Smallest(f) \in Entry /\ Largest(f) \in Entry
    BY FileFacts
  <2>5. SUFFICES ASSUME Meets(f, b, e) PROVE FALSE
    OBVIOUS
  <2>6. ~Before(Largest(f), ik)
    BY <2>2, <2>4, <2>5, EntryType, LSMAssumption DEF Before, Meets
  <2>7. PICK g \in FindFile(l, ik) : f = g \/ Before(Smallest(g), Smallest(f))
    BY <2>6, FindFileIs
  <2>8. Smallest(g) \in Entry
    BY <2>7, FindFileIs, FileFacts
  <2> QED BY <2>3, <2>4, <2>5, <2>7, <2>8, EntryType DEF Before, Meets
<1> QED BY <1>1, <1>2

(* A flush below level 0 goes where no file of its level or above shares a *)
(* user key with it.                                                       *)
LEMMA FlushLevel ==
  ASSUME TablesOK, NEW b \in Nat, NEW e \in Nat,
         NEW p, p = PickLevelForMemTableOutput(b, e)
  PROVE  /\ p \in Levels
         /\ p # 0 => \A m \in Levels : m <= p =>
                       \A f \in version[m] : ~Meets(f, b, e)
<1>1. CASE OverlapInLevel(0, b, e)
  BY <1>1, LevelFacts DEF PickLevelForMemTableOutput
<1>2. CASE ~OverlapInLevel(0, b, e)
  <2>1. PICK L : /\ p = Max(L) /\ L \in SUBSET (0 .. MaxMemCompactLevel) /\ 0 \in L
                 /\ \A l \in L : \A m \in 0 .. l - 1 : ~OverlapInLevel(m + 1, b, e)
    <3> DEFINE Fits(l) == l + 2 < NumLevels =>
                 TotalFileSize(GetOverlappingInputs(l + 2, b, e)) <= MaxGrandparent
               L == {l \in 0 .. MaxMemCompactLevel : \A m \in 0 .. l - 1 :
                       ~OverlapInLevel(m + 1, b, e) /\ Fits(m)}
    <3>1. p = Max(L)
      BY <1>2 DEF PickLevelForMemTableOutput
    <3> HIDE DEF Fits
    <3>2. 0 \in L
      BY LSMAssumption
    <3>3. /\ L \in SUBSET (0 .. MaxMemCompactLevel)
          /\ \A l \in L : \A m \in 0 .. l - 1 : ~OverlapInLevel(m + 1, b, e)
      OBVIOUS
    <3> HIDE DEF L
    <3> QED BY <3>1, <3>2, <3>3
  <2>2. p \in L
    <3>1. /\ L \in SUBSET Nat /\ L # {} /\ \A x \in L : x <= MaxMemCompactLevel
          /\ MaxMemCompactLevel \in Nat
      BY <2>1, LSMAssumption
    <3> QED BY <2>1, <3>1, MaxIsGreatest
  <2>3. p \in Levels
    BY <2>1, <2>2, LSMAssumption DEF Levels
  <2>4. \A m \in Levels : m <= p => ~OverlapInLevel(m, b, e)
    <3> SUFFICES ASSUME NEW m \in Levels, m <= p, m # 0
                 PROVE  ~OverlapInLevel(m, b, e)
      BY <1>2
    <3>1. m - 1 \in 0 .. p - 1 /\ (m - 1) + 1 = m
      BY <2>3, LevelFacts
    <3> QED BY <2>1, <2>2, <3>1
  <2> QED BY <2>3, <2>4, NoOverlap
<1> QED BY <1>1, <1>2

LEMMA NewFileNumberIs ==
  ASSUME TablesOK
  PROVE  /\ NewFileNumber \in Nat
         /\ \A f \in version[0] : f.num < NewFileNumber
<1> DEFINE Z == {0} \cup {f.num : f \in version[0]}
<1>1. PICK n \in Nat : \A f \in version[0] : f.num <= n
  BY DEF TablesOK, FilesOK
<1>2. Z \in SUBSET Nat /\ Z # {} /\ \A x \in Z : x <= n
  BY <1>1, LevelFacts, FileFacts
<1>3. Max(Z) \in Z /\ \A x \in Z : x <= Max(Z)
  <2> HIDE DEF Z
  <2> QED BY <1>2, MaxIsGreatest
<1>4. NewFileNumber = 1 + Max(Z)
  BY DEF NewFileNumber
<1>5. PICK m : m = Max(Z)
  OBVIOUS
<1>6. m \in Nat /\ NewFileNumber = 1 + m
  BY <1>2, <1>3, <1>4, <1>5
<1>7. \A f \in version[0] : f.num \in Nat /\ f.num <= m
  BY <1>3, <1>5, LevelFacts, FileFacts
<1> QED BY <1>6, <1>7

-----------------------------------------------------------------------------
(* The invariant of all behaviours: what a step does to each part of it.   *)

LEMMA EntriesOf ==
  /\ AllEntries = mem \cup imm \cup TableEntries
  /\ \A e : e \in TableEntries <=> \E l \in Levels : \E f \in version[l] : e \in f.ents
BY DEF AllEntries, TableEntries, Entries

LEMMA InvTables ==
  ASSUME TypeOK, SeqsOK, FilesOK
  PROVE  TablesOK
BY EntriesOf DEF TypeOK, SeqsOK, TablesOK, Distinct

(* A step that leaves the memtables alone and makes no entry, or flushes   *)
(* imm_.                                                                   *)
LEMMA SeqsKept ==
  ASSUME SeqsOK, lastSequence' = lastSequence, mem' = mem,
         \/ imm' = imm /\ hasImm' = hasImm /\ TableEntries' \subseteq TableEntries
         \/ imm' = {} /\ TableEntries' \subseteq TableEntries \cup imm
  PROVE  SeqsOK'
<1>1. AllEntries = mem \cup imm \cup TableEntries
  BY EntriesOf
<1>2. AllEntries' = mem' \cup imm' \cup TableEntries'
  BY DEF AllEntries, TableEntries
<1>3. AllEntries' \subseteq AllEntries
  BY <1>1, <1>2
<1>4. \A e \in AllEntries' : e.seq <= lastSequence'
  BY <1>3 DEF SeqsOK
<1>5. Distinct(AllEntries')
  BY <1>3 DEF SeqsOK, Distinct
<1>6. \A e \in mem' : \A d \in imm' \cup TableEntries' : d.seq < e.seq
  BY DEF SeqsOK
<1>7. \A e \in imm' : \A d \in TableEntries' : d.seq < e.seq
  BY DEF SeqsOK
<1>8. ~hasImm' => imm' = {}
  BY DEF SeqsOK
<1> QED BY <1>4, <1>5, <1>6, <1>7, <1>8 DEF SeqsOK

(* A version that differs by files N of level p, which have entries of     *)
(* their own, and by files that have left.                                 *)
Replaces(p, N) ==
  /\ version' \in [Levels -> SUBSET File]
  /\ \A m \in Levels : \A g \in version'[m] : g \in version[m] \/ (m = p /\ g \in N)
  /\ \A f \in N : FileOK(f) /\ (p > 0 => f.num = 0)
  /\ \A f \in N : \A m \in Levels : \A g \in version'[m] :
       \A e \in f.ents : e \in g.ents => m = p /\ g = f
  /\ p = 0 => \A f \in N : \A g \in version[0] : g.num < f.num
  /\ p = 0 => \A f, g \in N : f = g
  /\ p = 0 => \E n \in Nat : \A f \in N : f.num <= n

LEMMA FilesReplaced ==
  ASSUME TablesOK, NEW p \in Levels, NEW N, Replaces(p, N)
  PROVE  FilesOK'
<1>1. /\ version' \in [Levels -> SUBSET File]
      /\ \A m \in Levels : \A g \in version'[m] : g \in version[m] \/ (m = p /\ g \in N)
      /\ \A f \in N : FileOK(f) /\ (p > 0 => f.num = 0)
  BY DEF Replaces
<1>2. \A f \in N : \A m \in Levels : \A g \in version'[m] :
        \A e \in f.ents : e \in g.ents => m = p /\ g = f
  BY DEF Replaces
<1>3. \A l \in Levels : \A f \in version'[l] : FileOK(f) /\ (l > 0 => f.num = 0)
  BY <1>1 DEF TablesOK, FilesOK
<1>4. \A l, m \in Levels : \A f \in version'[l], g \in version'[m] :
        \A e \in f.ents : e \in g.ents => l = m /\ f = g
  <2> SUFFICES ASSUME NEW l \in Levels, NEW m \in Levels, NEW f \in version'[l],
                      NEW g \in version'[m], NEW e \in f.ents, e \in g.ents
               PROVE  l = m /\ f = g
    OBVIOUS
  <2>1. CASE f \in version[l] /\ g \in version[m]
    BY <2>1, OneFile
  <2>2. CASE l = p /\ f \in N
    BY <1>2, <2>2
  <2>3. CASE m = p /\ g \in N
    BY <1>2, <2>3
  <2> QED BY <1>1, <2>1, <2>2, <2>3
<1>5. \A f \in version'[0] : f \in File /\ f.num \in Nat
  BY <1>1, LevelFacts, FileType
<1>6. \A f, g \in version'[0] : f.num = g.num => f = g
  <2> SUFFICES ASSUME NEW f \in version'[0], NEW g \in version'[0], f.num = g.num
               PROVE  f = g
    OBVIOUS
  <2>1. CASE f \in version[0] /\ g \in version[0]
    BY <2>1 DEF TablesOK, FilesOK
  <2>2. CASE p = 0 /\ f \in N /\ g \in N
    BY <2>2 DEF Replaces
  <2>3. CASE p = 0 /\ f \in N /\ g \in version[0]
    <3>1. g.num < f.num
      BY <2>3 DEF Replaces
    <3> QED BY <3>1, <1>5
  <2>4. CASE p = 0 /\ g \in N /\ f \in version[0]
    <3>1. f.num < g.num
      BY <2>4 DEF Replaces
    <3> QED BY <3>1, <1>5
  <2> QED BY <1>1, <2>1, <2>2, <2>3, <2>4, LevelFacts
<1>7. \E n \in Nat : \A f \in version'[0] : f.num <= n
  <2>1. PICK n \in Nat : \A f \in version[0] : f.num <= n
    BY DEF TablesOK, FilesOK
  <2>2. CASE p # 0
    BY <1>1, <2>1, <2>2, LevelFacts
  <2>3. CASE p = 0
    <3>1. PICK k \in Nat : \A f \in N : f.num <= k
      BY <2>3 DEF Replaces
    <3>2. \A f \in version'[0] : f.num <= n + k
      BY <1>1, <1>5, <2>1, <3>1, LevelFacts
    <3> QED BY <3>2
  <2> QED BY <2>2, <2>3
<1> QED BY <1>3, <1>4, <1>6, <1>7 DEF FilesOK
(* The flush of a memtable.                                                *)
Flushes(l, t) ==
  /\ l \in Levels /\ t \in File /\ FileOK(t) /\ t.ents = imm
  /\ version' = [version EXCEPT ![l] = @ \cup {t}]
  /\ l > 0 => t.num = 0
  /\ l = 0 => \A g \in version[0] : g.num < t.num
  /\ l # 0 => \A m \in Levels : m <= l => \A f \in version[m] :
                ~Meets(f, Smallest(t).key, Largest(t).key)

LEMMA FlushIs ==
  ASSUME TypeOK, SeqsOK, FilesOK, imm # {},
         NEW l, l = PickLevelForMemTableOutput(MinEntry(imm).key, MaxEntry(imm).key),
         version' = [version EXCEPT ![l] = @ \cup {NewTable(l, imm)}]
  PROVE  Flushes(l, NewTable(l, imm))
<1>0. TablesOK
  BY InvTables
<1>1. imm \in SUBSET Entry /\ Distinct(imm)
  BY EntriesOf DEF TypeOK, SeqsOK, Distinct
<1>2. MinEntry(imm) \in Entry /\ MaxEntry(imm) \in Entry
  BY <1>1, MinEntryIs, MaxEntryIs
<1>3. MinEntry(imm).key \in Nat /\ MaxEntry(imm).key \in Nat
  BY <1>2, EntryType
<1>4. PICK b, e : b = MinEntry(imm).key /\ e = MaxEntry(imm).key
  OBVIOUS
<1>5. /\ l \in Levels
      /\ l # 0 => \A m \in Levels : m <= l => \A f \in version[m] : ~Meets(f, b, e)
  BY <1>0, <1>3, <1>4, FlushLevel
<1>6. /\ NewFileNumber \in Nat
      /\ \A f \in version[0] : f.num < NewFileNumber
  BY <1>0, NewFileNumberIs
<1>7. PICK t : t = NewTable(l, imm)
  OBVIOUS
<1>8. /\ t \in File /\ FileOK(t) /\ t.ents = imm
      /\ t.num = (IF l = 0 THEN NewFileNumber ELSE 0)
      /\ Smallest(t) = MinEntry(imm) /\ Largest(t) = MaxEntry(imm)
  BY <1>1, <1>6, <1>7, NewTableIs
<1>9. l > 0 => t.num = 0
  BY <1>5, <1>8, LevelFacts
<1>10. Flushes(l, t)
  BY <1>4, <1>5, <1>6, <1>7, <1>8, <1>9 DEF Flushes
<1> QED BY <1>7, <1>10

LEMMA FlushReplaces ==
  ASSUME TypeOK, SeqsOK, FilesOK, NEW l, NEW t, Flushes(l, t)
  PROVE  /\ Replaces(l, {t}) /\ TableEntries' \subseteq TableEntries \cup imm
         /\ \A m \in Levels : version[m] \subseteq version'[m]
         /\ \A m \in Levels : \A f \in version'[m] : f \in version[m] \/ (m = l /\ f = t)
<1>1. version \in [Levels -> SUBSET File] /\ l \in Levels /\ t \in File
  BY DEF TypeOK, Flushes
<1>2. version' = [version EXCEPT ![l] = @ \cup {t}]
  BY DEF Flushes
<1>3. version' \in [Levels -> SUBSET File]
  BY <1>1, <1>2
<1>4. /\ \A m \in Levels : version[m] \subseteq version'[m]
      /\ \A m \in Levels : \A f \in version'[m] : f \in version[m] \/ (m = l /\ f = t)
  BY <1>1, <1>2
<1>5. TableEntries' \subseteq TableEntries \cup imm
  <2> SUFFICES ASSUME NEW e \in TableEntries' PROVE e \in TableEntries \cup imm
    OBVIOUS
  <2>1. PICK m \in Levels : \E f \in version'[m] : e \in f.ents
    BY DEF TableEntries, Entries
  <2> QED BY <1>4, <2>1, EntriesOf DEF Flushes
<1>6. \A m \in Levels : \A g \in version'[m] :
        \A e \in t.ents : e \in g.ents => m = l /\ g = t
  <2> SUFFICES ASSUME NEW m \in Levels, NEW g \in version'[m], NEW e \in t.ents,
                      e \in g.ents, g \in version[m]
               PROVE  FALSE
    BY <1>4
  <2>1. e \in TableEntries /\ e \in imm
    BY EntriesOf DEF Flushes
  <2>2. e.seq < e.seq /\ e \in Entry
    BY <2>1 DEF SeqsOK, TypeOK
  <2> QED BY <2>2, EntryType
<1>7. t.num \in Nat
  BY <1>1, FileType
<1> QED BY <1>3, <1>4, <1>5, <1>6, <1>7 DEF Replaces, Flushes

(* A compaction's results: files N, made of its inputs' entries, replace   *)
(* the inputs.                                                             *)
Installs(l, in0, in1, N) ==
  /\ l \in LowLevel /\ in0 \subseteq version[l] /\ in1 \subseteq version[l + 1]
  /\ version' = [version EXCEPT ![l] = @ \ in0, ![l + 1] = (@ \ in1) \cup N]
  /\ \A f \in N : /\ f \in File /\ FileOK(f) /\ f.num = 0
                  /\ f.ents \subseteq Entries(in0 \cup in1)
  /\ \A f, g \in N : \A e \in f.ents : e \in g.ents => f = g

LEMMA InstallReplaces ==
  ASSUME TypeOK, SeqsOK, FilesOK, NEW l, NEW in0, NEW in1, NEW N,
         Installs(l, in0, in1, N)
  PROVE  /\ Replaces(l + 1, N) /\ TableEntries' \subseteq TableEntries
         /\ \A m \in Levels : m # l /\ m # l + 1 => version'[m] = version[m]
         /\ version'[l] = version[l] \ in0
         /\ version'[l + 1] = (version[l + 1] \ in1) \cup N
<1>0. TablesOK
  BY InvTables
<1>1. /\ version \in [Levels -> SUBSET File]
      /\ l \in Levels /\ l + 1 \in Levels /\ l \in Nat /\ l # l + 1 /\ l + 1 > 0
  BY LevelFacts DEF TypeOK, Installs
<1>2. version' = [version EXCEPT ![l] = @ \ in0, ![l + 1] = (@ \ in1) \cup N]
  BY DEF Installs
<1>3. /\ \A m \in Levels : m # l /\ m # l + 1 => version'[m] = version[m]
      /\ version'[l] = version[l] \ in0
      /\ version'[l + 1] = (version[l + 1] \ in1) \cup N
  BY <1>1, <1>2
<1>4. N \subseteq File
  BY DEF Installs
<1>5. version' \in [Levels -> SUBSET File]
  BY <1>1, <1>2, <1>4
<1>6. \A m \in Levels : \A g \in version'[m] :
        (g \in version[m] /\ ~(m = l /\ g \in in0) /\ ~(m = l + 1 /\ g \in in1))
          \/ (m = l + 1 /\ g \in N)
  BY <1>1, <1>3
<1>7. \A f \in N : \A e \in f.ents :
        \/ \E g \in in0 : e \in g.ents /\ g \in version[l]
        \/ \E g \in in1 : e \in g.ents /\ g \in version[l + 1]
  BY DEF Installs, Entries
<1>8. TableEntries' \subseteq TableEntries
  <2> SUFFICES ASSUME NEW e \in TableEntries' PROVE e \in TableEntries
    OBVIOUS
  <2>1. PICK m \in Levels : \E f \in version'[m] : e \in f.ents
    BY DEF TableEntries, Entries
  <2>2. PICK f \in version'[m] : e \in f.ents
    BY <2>1
  <2>3. CASE f \in version[m]
    BY <2>2, <2>3, EntriesOf
  <2>4. CASE f \in N
    BY <1>1, <1>7, <2>2, <2>4, EntriesOf
  <2> QED BY <1>6, <2>3, <2>4
<1>9. \A f \in N : \A m \in Levels : \A g \in version'[m] :
        \A e \in f.ents : e \in g.ents => m = l + 1 /\ g = f
  <2> SUFFICES ASSUME NEW f \in N, NEW m \in Levels, NEW g \in version'[m],
                      NEW e \in f.ents, e \in g.ents
               PROVE  m = l + 1 /\ g = f
    OBVIOUS
  <2>1. CASE m = l + 1 /\ g \in N
    BY <2>1 DEF Installs
  <2>2. CASE g \in version[m] /\ ~(m = l /\ g \in in0) /\ ~(m = l + 1 /\ g \in in1)
    <3>1. CASE \E h \in in0 : e \in h.ents /\ h \in version[l]
      BY <1>0, <1>1, <2>2, <3>1, OneFile
    <3>2. CASE \E h \in in1 : e \in h.ents /\ h \in version[l + 1]
      BY <1>0, <1>1, <2>2, <3>2, OneFile
    <3> QED BY <1>7, <3>1, <3>2
  <2> QED BY <1>6, <2>1, <2>2
<1>10. \A m \in Levels : \A g \in version'[m] :
         g \in version[m] \/ (m = l + 1 /\ g \in N)
  BY <1>6
<1>11. \A f \in N : FileOK(f) /\ f.num = 0
  BY DEF Installs
<1>12. Replaces(l + 1, N)
  BY <1>1, <1>5, <1>9, <1>10, <1>11 DEF Replaces
<1> QED BY <1>3, <1>8, <1>12
LEMMA MoveInstalls ==
  ASSUME TypeOK, SeqsOK, FilesOK, NEW l \in LowLevel, NEW c,
         c.in0 \in SUBSET version[l], Cardinality(c.in0) = 1, MoveFile(c, l)
  PROVE  /\ seekFile' = {}
         /\ \E f : /\ c.in0 = {f} /\ f \in version[l]
                   /\ Installs(l, {f}, {}, {[f EXCEPT !.num = 0]})
<1>0. TablesOK
  BY InvTables
<1>1. l \in Levels /\ l + 1 \in Levels /\ l # l + 1
  BY LevelFacts
<1>2. IsFiniteSet(c.in0)
  BY <1>0, <1>1, LevelFinite
<1>3. PICK x : c.in0 = {x}
  BY <1>2, FS_Singleton
<1>4. PICK f : f = CHOOSE y \in c.in0 : TRUE
  OBVIOUS
<1>5. f = x /\ f \in version[l] /\ c.in0 = {f}
  BY <1>3, <1>4
<1>6. PICK g : g = [f EXCEPT !.num = 0]
  OBVIOUS
<1>7. version' = [version EXCEPT ![l] = @ \ {f}, ![l + 1] = @ \cup {g}] /\ seekFile' = {}
  BY <1>4, <1>6 DEF MoveFile, LogAndApply
<1>8. f \in File /\ FileOK(f)
  BY <1>0, <1>1, <1>5 DEF TablesOK, FilesOK
<1>9. /\ g \in File /\ g.num = 0 /\ g.ents = f.ents
      /\ g.smallest = f.smallest /\ g.largest = f.largest
  BY <1>6, <1>8 DEF File
<1>10. FileOK(g)
  BY <1>8, <1>9 DEF FileOK
<1>11. version' = [version EXCEPT ![l] = @ \ {f}, ![l + 1] = (@ \ {}) \cup {g}]
  BY <1>7
<1>12. g.ents \subseteq Entries({f} \cup {})
  BY <1>9 DEF Entries
<1>13. Installs(l, {f}, {}, {g})
  BY <1>5, <1>9, <1>10, <1>11, <1>12 DEF Installs
<1> QED BY <1>5, <1>6, <1>7, <1>13

LEMMA RunningInputs ==
  ASSUME TypeOK, SeqsOK, FilesOK, InputsInVersion, compaction.running
  PROVE  /\ compaction \in CompactionType /\ compaction.level \in LowLevel
         /\ compaction.level \in Nat /\ compaction.smallestSnapshot \in Nat
         /\ compaction.in0 \subseteq version[compaction.level]
         /\ compaction.in1 \subseteq version[compaction.level + 1]
         /\ In(compaction) \in SUBSET AllFiles
         /\ Entries(In(compaction)) \in SUBSET Entry
         /\ Distinct(Entries(In(compaction)))
         /\ Entries(In(compaction)) \subseteq TableEntries
<1>0. TablesOK
  BY InvTables
<1>1. compaction # NoCompaction
  BY DEF NoCompaction
<1>2. compaction \in CompactionType
  BY <1>1 DEF TypeOK
<1>3. compaction.level \in LowLevel /\ compaction.smallestSnapshot \in Nat
  BY <1>2, LSMAssumption DEF CompactionType, LowLevel
<1>4. /\ compaction.in0 \subseteq version[compaction.level]
      /\ compaction.in1 \subseteq version[compaction.level + 1]
  BY DEF InputsInVersion
<1>5. compaction.level \in Levels /\ compaction.level + 1 \in Levels /\ compaction.level \in Nat
  BY <1>3, LevelFacts
<1>6. In(compaction) \in SUBSET AllFiles
  BY <1>4, <1>5, AllFilesIs DEF In
<1>7. Entries(In(compaction)) \in SUBSET Entry /\ Distinct(Entries(In(compaction)))
  BY <1>0, <1>6, RangeEntries
<1>8. Entries(In(compaction)) \subseteq TableEntries
  BY <1>4, <1>5, EntriesOf DEF In, Entries
<1> QED BY <1>2, <1>3, <1>4, <1>5, <1>6, <1>7, <1>8

LEMMA ResultsInstalls ==
  ASSUME TypeOK, SeqsOK, FilesOK, InputsInVersion, compaction.running,
         InstallCompactionResults(compaction)
  PROVE  /\ seekFile' = {}
         /\ OutputsOK(compaction, Outputs(compaction))
         /\ Installs(compaction.level, compaction.in0, compaction.in1,
                     Outputs(compaction))
<1>1. PICK c, l, O : c = compaction /\ l = compaction.level /\ O = Outputs(c)
  OBVIOUS
<1>2. /\ c.level \in Nat /\ c.smallestSnapshot \in Nat /\ l \in LowLevel
      /\ c.in0 \subseteq version[l] /\ c.in1 \subseteq version[l + 1]
      /\ Entries(In(c)) \in SUBSET Entry /\ Distinct(Entries(In(c)))
  BY <1>1, RunningInputs
<1>3. OutputsOK(c, O)
  BY <1>1, <1>2, OutputsFacts
<1>4. /\ version' = [version EXCEPT ![l] = @ \ c.in0, ![l + 1] = (@ \ c.in1) \cup O]
      /\ seekFile' = {}
  BY <1>1 DEF InstallCompactionResults, LogAndApply
<1>5. \A f \in O : /\ f \in File /\ FileOK(f) /\ f.num = 0
                   /\ f.ents \subseteq Entries(c.in0 \cup c.in1)
  BY <1>3 DEF OutputsOK, In
<1>6. \A f, g \in O : \A e \in f.ents : e \in g.ents => f = g
  <2> SUFFICES ASSUME NEW f \in O, NEW g \in O, NEW e \in f.ents, e \in g.ents, f # g
               PROVE  FALSE
    OBVIOUS
  <2>1. Before(e, e)
    BY <1>3 DEF OutputsOK, AllBefore
  <2>2. e \in Entry
    BY <1>5, FileType
  <2> QED BY <2>1, <2>2, BeforeIrreflexive
<1>7. Installs(l, c.in0, c.in1, O)
  BY <1>2, <1>4, <1>5, <1>6 DEF Installs
<1> QED BY <1>1, <1>3, <1>4, <1>7
-----------------------------------------------------------------------------
(* The files a lookup examines, and the first of them.                     *)

Examined(k, s, l, f) ==
  /\ l \in Levels /\ f \in version[l]
  /\ l = 0 => Meets(f, k, k)
  /\ l # 0 => f \in FindFile(l, IKey(k, s)) /\ Smallest(f).key <= k

LEMMA OverlappingIs ==
  ASSUME TablesOK, NEW k, NEW s, NEW p
  PROVE  p \in Overlapping(k, s) <=>
           \E l, f : Examined(k, s, l, f) /\ p = [level |-> l, file |-> f]
<1> DEFINE at(l) == IF l = 0 THEN {f \in version[0] : Meets(f, k, k)}
                    ELSE {f \in FindFile(l, IKey(k, s)) : Smallest(f).key <= k}
<1>1. Overlapping(k, s) = UNION {{[level |-> l, file |-> f] : f \in at(l)} : l \in Levels}
  BY DEF Overlapping
<1>2. \A l \in Levels : \A f : f \in at(l) <=> Examined(k, s, l, f)
  <2> TAKE l \in Levels
  <2>1. FindFile(l, IKey(k, s)) \in SUBSET version[l]
    BY FindFileIs
  <2> QED BY <2>1 DEF Examined
<1>3. \A l, f : Examined(k, s, l, f) => l \in Levels
  BY DEF Examined
<1> HIDE DEF at
<1> QED BY <1>1, <1>2, <1>3

(* The lowest level with such files, then the file with the highest number *)
LEMMA FirstOfIs ==
  ASSUME TablesOK, NEW k, NEW s, NEW P \in SUBSET Overlapping(k, s), P # {}
  PROVE  /\ FirstOf(P) \in P
         /\ \A q \in P : q = FirstOf(P) \/ NewestFirst(FirstOf(P), q)
<1>1. \A p \in P : /\ Examined(k, s, p.level, p.file)
                   /\ p = [level |-> p.level, file |-> p.file]
                   /\ p.level \in Nat
  <2> TAKE p \in P
  <2>1. PICK l, f : Examined(k, s, l, f) /\ p = [level |-> l, file |-> f]
    BY OverlappingIs
  <2>2. p.level = l /\ p.file = f
    BY <2>1
  <2> QED BY <2>1, <2>2, LevelFacts DEF Examined
<1> DEFINE L == {p.level : p \in P}
<1>2. PICK n \in L : \A x \in L : n <= x
  <2>1. L \in SUBSET Nat /\ L # {}
    BY <1>1
  <2> HIDE DEF L
  <2> QED BY <2>1, MinIsLeast
<1> DEFINE Q == {p.file.num : p \in {x \in P : x.level = n}}
<1>3. PICK b \in Nat : \A x \in Q : x \in Nat /\ x <= b
  <2>1. CASE n = 0
    <3>1. PICK b \in Nat : \A f \in version[0] : f.num <= b
      BY DEF TablesOK, FilesOK
    <3> QED BY <1>1, <2>1, <3>1, FileFacts, LevelFacts DEF Examined
  <2>2. CASE n # 0
    <3>1. \A x \in Q : x = 0
      BY <1>1, <2>2, FileFacts, LevelFacts DEF Examined
    <3> QED BY <3>1
  <2> QED BY <2>1, <2>2
<1>4. PICK q \in Q : \A x \in Q : x <= q
  <2>1. Q \in SUBSET Nat /\ Q # {}
    BY <1>2, <1>3
  <2> HIDE DEF Q
  <2> QED BY <1>3, <2>1, MaxIsGreatest
<1>5. PICK p \in P : p.level = n /\ p.file.num = q
  BY <1>4
<1>6. \A r \in P : r = p \/ NewestFirst(p, r)
  <2> TAKE r \in P
  <2>1. CASE r.level # n
    BY <1>1, <1>2, <1>5, <2>1 DEF NewestFirst
  <2>2. CASE r.level = n /\ n # 0
    <3>1. r.file = p.file
      BY <1>1, <1>5, <2>2, FindFileIs DEF Examined
    <3> QED BY <1>1, <1>5, <2>2, <3>1
  <2>3. CASE r.level = n /\ n = 0
    <3>1. r.file.num <= q /\ r.file.num \in Nat /\ q \in Nat
      BY <1>3, <1>4, <2>3
    <3>2. r.file.num = q => r.file = p.file
      BY <1>1, <1>5, <2>3 DEF Examined, TablesOK, FilesOK
    <3>3. CASE r.file.num = q
      BY <1>1, <1>5, <2>3, <3>2, <3>3
    <3>4. CASE r.file.num # q
      BY <1>5, <2>3, <3>1, <3>4 DEF NewestFirst
    <3> QED BY <3>3, <3>4
  <2> QED BY <2>1, <2>2, <2>3
<1> HIDE DEF L, Q
<1> QED BY <1>6 DEF FirstOf

(* The file charged for a seek is never of the last level.                 *)
LEMMA SeekFileIs ==
  ASSUME TablesOK, NEW k, NEW s, Cardinality(Overlapping(k, s)) >= 2,
         NEW p, p = FirstOf(Overlapping(k, s))
  PROVE  /\ p \in [level : 0 .. NumLevels - 2, file : File]
         /\ p.file \in version[p.level]
<1> DEFINE P == Overlapping(k, s)
<1>1. P # {}
  <2>1. Cardinality({}) = 0
    BY FS_EmptySet
  <2> QED BY <2>1
<1>2. p \in P /\ \A q \in P : q = p \/ NewestFirst(p, q)
  BY <1>1, FirstOfIs
<1>3. \E q \in P : q # p
  <2>1. SUFFICES ASSUME P = {p} PROVE FALSE
    BY <1>2
  <2>2. Cardinality(P) = 1
    BY <2>1, FS_Singleton
  <2> QED BY <2>2
<1>4. PICK q \in P : NewestFirst(p, q)
  BY <1>2, <1>3
<1>5. PICK l, f : Examined(k, s, l, f) /\ p = [level |-> l, file |-> f]
  BY <1>2, OverlappingIs
<1>6. PICK m, g : Examined(k, s, m, g) /\ q = [level |-> m, file |-> g]
  BY <1>4, OverlappingIs
<1>7. l \in Nat /\ m \in Nat /\ l <= NumLevels - 1 /\ m <= NumLevels - 1
  BY <1>5, <1>6, LevelFacts DEF Examined
<1>8. l < m \/ (l = m /\ f.num > g.num)
  BY <1>4, <1>5, <1>6 DEF NewestFirst
<1>9. l = m => l = 0
  <2>1. l = m /\ l # 0 => f.num = 0 /\ g.num = 0
    BY <1>5, <1>6, FileFacts, LevelFacts DEF Examined
  <2> QED BY <1>7, <1>8, <2>1
<1>10. l \in 0 .. NumLevels - 2
  BY <1>7, <1>8, <1>9, LSMAssumption
<1>11. f \in version[l] /\ f \in File
  BY <1>5, FileFacts DEF Examined
<1> QED BY <1>5, <1>10, <1>11
-----------------------------------------------------------------------------
(* What a compaction starts from.                                          *)

(* Fractions u/a compare like their cross products, transitively.          *)
LEMMA Fractions ==
  ASSUME NEW u1 \in Nat, NEW u2 \in Nat, NEW u3 \in Nat,
         NEW a1 \in Nat \ {0}, NEW a2 \in Nat \ {0}, NEW a3 \in Nat \ {0},
         u1 * a2 > u2 * a1, u2 * a3 >= u3 * a2
  PROVE  u1 * a3 > u3 * a1
<1>1. (u1 * a2) * a3 > (u2 * a1) * a3
  OBVIOUS
<1>2. (u2 * a3) * a1 >= (u3 * a2) * a1
  OBVIOUS
<1>3. (u1 * a3) * a2 > (u3 * a1) * a2
  BY <1>1, <1>2
<1> QED BY <1>3

LEMMA ScoreType ==
  ASSUME TablesOK, NEW l \in LowLevel
  PROVE  Used(l) \in Nat /\ Allowed(l) \in Nat \ {0}
<1>1. l \in Levels
  BY LevelFacts
<1>2. Used(l) \in Nat
  <2>1. version[l] \in SUBSET version[l] /\ version[0] \in SUBSET version[0] /\ 0 \in Levels
    BY LevelFacts
  <2>2. Cardinality(version[0]) \in Nat
    BY <2>1, LevelFinite
  <2>3. Entries(version[l]) \in SUBSET Entry
    BY <1>1, <2>1, SmallestsDistinct
  <2>4. Cardinality(Entries(version[l])) \in Nat
    BY <2>3, EntriesFinite
  <2> QED BY <2>2, <2>4 DEF Used, TotalFileSize
<1>3. Allowed(l) \in Nat \ {0}
  BY LSMAssumption DEF Allowed, LowLevel
<1> QED BY <1>2, <1>3

LEMMA CompactionLevelIs ==
  ASSUME TablesOK
  PROVE  CompactionLevel \in LowLevel
<1> DEFINE Best(l, n) ==
      /\ \A m \in 0 .. n : Used(l) * Allowed(m) >= Used(m) * Allowed(l)
      /\ \A m \in 0 .. l - 1 : Used(l) * Allowed(m) > Used(m) * Allowed(l)
    S == {n \in LowLevel : \E l \in 0 .. n : Best(l, n)}
<1>1. NumLevels - 2 \in Nat /\ LowLevel = 0 .. NumLevels - 2
  BY LSMAssumption DEF LowLevel
<1>2. 0 \in S
  <2>1. 0 \in LowLevel
    BY LevelFacts
  <2>2. Used(0) \in Nat /\ Allowed(0) \in Nat
    BY <2>1, ScoreType
  <2>3. Best(0, 0)
    BY <2>2
  <2> QED BY <2>1, <2>3
<1>3. \A n \in 0 .. (NumLevels - 2) - 1 : n \in S => n + 1 \in S
  <2> SUFFICES ASSUME NEW n \in 0 .. (NumLevels - 2) - 1, n \in S
               PROVE  n + 1 \in S
    OBVIOUS
  <2>1. PICK l \in 0 .. n : Best(l, n)
    OBVIOUS
  <2>2. /\ n + 1 \in LowLevel /\ l \in LowLevel /\ n \in Nat /\ l \in Nat
        /\ l \in 0 .. n + 1 /\ n + 1 \in 0 .. n + 1
        /\ \A m \in 0 .. n : m \in LowLevel
        /\ \A m \in 0 .. n + 1 : m \in 0 .. n \/ m = n + 1
        /\ \A m \in 0 .. (n + 1) - 1 : m \in 0 .. n
    BY <1>1
  <2>3. /\ Used(n + 1) \in Nat /\ Allowed(n + 1) \in Nat \ {0}
        /\ Used(l) \in Nat /\ Allowed(l) \in Nat \ {0}
    BY <2>2, ScoreType
  <2>4. \A m \in 0 .. n : Used(m) \in Nat /\ Allowed(m) \in Nat \ {0}
    BY <2>2, ScoreType
  <2>5. CASE Used(n + 1) * Allowed(l) > Used(l) * Allowed(n + 1)
    <3>1. \A m \in 0 .. n : Used(n + 1) * Allowed(m) > Used(m) * Allowed(n + 1)
      <4> TAKE m \in 0 .. n
      <4>1. Used(l) * Allowed(m) >= Used(m) * Allowed(l)
        BY <2>1
      <4> QED BY <2>3, <2>4, <2>5, <4>1, Fractions
    <3>2. \A m \in 0 .. n + 1 : Used(n + 1) * Allowed(m) >= Used(m) * Allowed(n + 1)
      <4> TAKE m \in 0 .. n + 1
      <4>1. CASE m = n + 1
        <5>1. PICK x \in Nat : x = Used(n + 1) * Allowed(n + 1)
          BY <2>3
        <5> QED BY <4>1, <5>1
      <4>2. CASE m \in 0 .. n
        <5>1. PICK x \in Nat, y \in Nat : /\ x = Used(n + 1) * Allowed(m)
                                          /\ y = Used(m) * Allowed(n + 1)
          BY <2>3, <2>4, <4>2
        <5>2. x > y
          BY <3>1, <4>2, <5>1
        <5> QED BY <5>1, <5>2
      <4> QED BY <2>2, <4>1, <4>2
    <3>3. Best(n + 1, n + 1)
      BY <2>2, <3>1, <3>2
    <3> HIDE DEF Best
    <3> QED BY <2>2, <3>3
  <2>6. CASE ~(Used(n + 1) * Allowed(l) > Used(l) * Allowed(n + 1))
    <3>1. PICK x \in Nat, y \in Nat : /\ x = Used(l) * Allowed(n + 1)
                                      /\ y = Used(n + 1) * Allowed(l)
      BY <2>3
    <3>2. x >= y
      BY <2>6, <3>1
    <3>3. Best(l, n + 1)
      BY <2>1, <2>2, <3>1, <3>2
    <3> HIDE DEF Best
    <3> QED BY <2>2, <3>3
  <2> QED BY <2>5, <2>6
<1>4. NumLevels - 2 \in S
  <2> HIDE DEF S
  <2>1. 0 .. NumLevels - 2 \subseteq S
    BY <1>1, <1>2, <1>3, UpTo
  <2> QED BY <1>1, <2>1
<1>5. PICK l \in 0 .. NumLevels - 2 : Best(l, NumLevels - 2)
  BY <1>4
<1> QED BY <1>1, <1>5 DEF CompactionLevel
LEMMA SizeStartIs ==
  ASSUME TablesOK, SizeCompaction, NEW l, l = CompactionLevel
  PROVE  l \in LowLevel /\ SizeStart(l) \in version[l]
<1>1. l \in LowLevel /\ l \in Levels
  BY CompactionLevelIs, LevelFacts
<1>2. version[l] # {}
  <2> SUFFICES ASSUME version[l] = {} PROVE FALSE
    OBVIOUS
  <2>1. Cardinality({}) = 0 /\ Entries({}) = {}
    BY FS_EmptySet DEF Entries
  <2>2. Used(l) = 0
    BY <2>1 DEF Used, TotalFileSize
  <2>3. Allowed(l) \in Nat \ {0} /\ Used(l) >= Allowed(l)
    BY <1>1, ScoreType DEF SizeCompaction
  <2> QED BY <2>2, <2>3
<1>3. PICK A : A = {f \in version[l] : Before(compactPointer[l], Largest(f))}
  OBVIOUS
<1>4. PICK B : B = IF A = {} THEN version[l] ELSE A
  OBVIOUS
<1>5. B \in SUBSET version[l] /\ B # {}
  BY <1>2, <1>3, <1>4
<1>6. SizeStart(l) = FirstFile(B)
  BY <1>3, <1>4 DEF SizeStart
<1> QED BY <1>1, <1>5, <1>6, FirstFileIs

(* PickCompaction starts from files of a level that can be compacted.      *)
LEMMA PickIs ==
  ASSUME TypeOK, SeqsOK, FilesOK, InputsInVersion, NeedsCompaction,
         NEW p, p = PickStart
  PROVE  /\ p.level \in LowLevel /\ p.file \in version[p.level]
         /\ PickedFiles(p) \in SUBSET version[p.level] /\ PickedFiles(p) # {}
<1>0. TablesOK
  BY InvTables
<1>1. p.level \in LowLevel /\ p.file \in version[p.level]
  <2>1. CASE SizeCompaction
    <3>1. p.level = CompactionLevel /\ p.file = SizeStart(CompactionLevel)
      BY <2>1 DEF PickStart
    <3> QED BY <1>0, <2>1, <3>1, SizeStartIs
  <2>2. CASE ~SizeCompaction
    <3>1. p = (CHOOSE x \in seekFile : TRUE) /\ seekFile # {}
      BY <2>2 DEF PickStart, NeedsCompaction
    <3>2. p \in seekFile
      BY <3>1
    <3>3. p \in [level : 0 .. NumLevels - 2, file : File]
      BY <3>2 DEF TypeOK
    <3>4. p.level \in LowLevel
      BY <3>3 DEF LowLevel
    <3> QED BY <3>2, <3>4 DEF InputsInVersion
  <2> QED BY <2>1, <2>2
<1>2. p.level \in Levels /\ p.level \in Nat
  BY <1>1, LevelFacts
<1>3. CASE p.level > 0
  BY <1>1, <1>3 DEF PickedFiles
<1>4. CASE ~(p.level > 0)
  <2>1. p.level = 0 /\ p.file \in version[0]
    BY <1>1, <1>2, <1>4
  <2>2. PICK b, e : b = Smallest(p.file).key /\ e = Largest(p.file).key
    OBVIOUS
  <2>3. b \in Nat /\ e \in Nat /\ b <= e
    BY <1>0, <1>1, <1>2, <2>2, FileKeys
  <2>4. PickedFiles(p) = GetOverlappingInputs(0, b, e)
    BY <1>4, <2>2 DEF PickedFiles
  <2>5. Meets(p.file, b, e)
    BY <2>2, <2>3 DEF Meets
  <2>6. p.file \in GetOverlappingInputs(0, b, e)
    BY <1>0, <2>1, <2>3, <2>5, OverlapZero
  <2> QED BY <1>1, <2>1, <2>4, <2>6, LevelFacts, OverlapSubset
<1> QED BY <1>1, <1>3, <1>4

LEMMA ManualFilesIs ==
  ASSUME NEW l \in Levels, NEW b, NEW e
  PROVE  ManualFiles(l, b, e) \in SUBSET version[l]
<1>1. ManualFiles(l, b, e) \subseteq GetOverlappingInputs(l, b, e)
  BY DEF ManualFiles
<1> QED BY <1>1, OverlapSubset

LEMMA SmallestSnapshotIs ==
  ASSUME TypeOK, SnapshotsOK
  PROVE  /\ SmallestSnapshot \in 0 .. MaxWrites /\ SmallestSnapshot <= lastSequence
         /\ \A i \in DOMAIN snapshots : SmallestSnapshot <= snapshots[i]
<1>1. snapshots \in Seq(0 .. MaxWrites) /\ lastSequence \in 0 .. MaxWrites
  BY DEF TypeOK
<1>2. CASE snapshots = <<>>
  BY <1>1, <1>2, LSMAssumption DEF SmallestSnapshot
<1>3. CASE snapshots # <<>>
  <2>1. 1 \in DOMAIN snapshots /\ \A i \in DOMAIN snapshots : 1 <= i
    BY <1>1, <1>3
  <2>2. SmallestSnapshot = snapshots[1]
    BY <1>3 DEF SmallestSnapshot
  <2>3. snapshots[1] \in 0 .. MaxWrites
    <3>1. 1 \in 1 .. Len(snapshots)
      BY <1>1, <1>3
    <3> QED BY <1>1, <3>1, ElementOfSeq
  <2> QED BY <2>1, <2>2, <2>3 DEF SnapshotsOK
<1> QED BY <1>2, <1>3

(* A compaction that has just started.                                     *)
Starts(l, c, x) ==
  /\ x \in CompactionType /\ x.running
  /\ x.level = l /\ x.in0 = c.in0 /\ x.in1 = c.in1 /\ x.base = version
  /\ x.smallestSnapshot <= lastSequence
  /\ \A i \in DOMAIN snapshots : x.smallestSnapshot <= snapshots[i]

LEMMA StartedIs ==
  ASSUME TypeOK, SeqsOK, FilesOK, SnapshotsOK, NEW l \in LowLevel,
         NEW picked \in SUBSET version[l], picked # {},
         NEW c, c = SetupOtherInputs(l, picked), NEW man \in BOOLEAN
  PROVE  /\ Starts(l, c, Started(l, c, man)) /\ Started(l, c, man).manual = man
         /\ c.in0 \in SUBSET version[l] /\ c.in0 # {} /\ c.in1 \in SUBSET version[l + 1]
         /\ IKey(MaxEntry(Entries(c.in0)).key, MaxEntry(Entries(c.in0)).seq)
              \in [key : 0 .. MaxKey, seq : 0 .. MaxWrites]
<1>0. TablesOK /\ version \in [Levels -> SUBSET File]
  BY InvTables DEF TypeOK
<1>1. l \in Levels /\ l + 1 \in Levels
  BY LevelFacts
<1>2. /\ c.in0 \in SUBSET version[l] /\ c.in0 # {}
      /\ c.in1 \in SUBSET version[l + 1]
      /\ c.grandparents \in SUBSET AllFiles
  BY <1>0, SetupSubset
<1>3. c.in0 \in SUBSET File /\ c.in1 \in SUBSET File /\ c.grandparents \in SUBSET File
  BY <1>0, <1>1, <1>2, AllFilesIs
<1>4. PICK x : x = Started(l, c, man)
  OBVIOUS
<1>5. /\ x.running = TRUE /\ x.level = l /\ x.in0 = c.in0 /\ x.in1 = c.in1
      /\ x.base = version /\ x.smallestSnapshot = SmallestSnapshot /\ x.manual = man
  BY <1>4 DEF Started
<1>6. /\ SmallestSnapshot \in 0 .. MaxWrites /\ SmallestSnapshot <= lastSequence
      /\ \A i \in DOMAIN snapshots : SmallestSnapshot <= snapshots[i]
  BY SmallestSnapshotIs
<1>7. x \in CompactionType
  BY <1>0, <1>3, <1>4, <1>6 DEF Started, CompactionType, LowLevel
<1>8. Starts(l, c, x) /\ x.manual = man
  BY <1>5, <1>6, <1>7 DEF Starts
<1>9. PICK m : m = MaxEntry(Entries(c.in0))
  OBVIOUS
<1>10. m \in Entry
  <2>1. Entries(c.in0) \in SUBSET Entry /\ Distinct(Entries(c.in0)) /\ Entries(c.in0) # {}
    BY <1>0, <1>1, <1>2, SmallestsDistinct
  <2> QED BY <1>9, <2>1, MaxEntryIs
<1>11. IKey(m.key, m.seq) \in [key : 0 .. MaxKey, seq : 0 .. MaxWrites]
  <2>1. m.key \in 0 .. MaxKey /\ m.seq \in 0 .. MaxWrites
    BY <1>10, EntryType, LSMAssumption
  <2> QED BY <2>1 DEF IKey
<1> QED BY <1>2, <1>4, <1>8, <1>9, <1>11
-----------------------------------------------------------------------------
(* Every step preserves the invariant of all behaviours.                   *)

LEMMA ScenarioType ==
  ASSUME TypeOK
  PROVE  /\ scenario.writes \in 0 .. MaxWrites /\ scenario.ioErrors \in BOOLEAN
         /\ scenario.ranges \subseteq [begin : 0 .. MaxKey, end : 1 .. MaxKey + 1]
<1>1. scenario \in Scenario
  BY LSMAssumption DEF TypeOK
<1> QED BY <1>1 DEF Scenario

LEMMA SnapshotType ==
  ASSUME TypeOK
  PROVE  /\ DOMAIN snapshots = 1 .. Len(snapshots) /\ Len(snapshots) \in Nat
         /\ lastSequence \in Nat
         /\ \A i \in DOMAIN snapshots : snapshots[i] \in 0 .. MaxWrites /\ snapshots[i] \in Nat
<1>1. snapshots \in Seq(0 .. MaxWrites) /\ lastSequence \in 0 .. MaxWrites
  BY DEF TypeOK
<1>2. DOMAIN snapshots = 1 .. Len(snapshots) /\ Len(snapshots) \in Nat
  BY <1>1
<1>3. \A i \in 1 .. Len(snapshots) : snapshots[i] \in 0 .. MaxWrites
  BY <1>1, ElementOfSeq
<1> QED BY <1>1, <1>2, <1>3, LSMAssumption

(* A step that leaves the tables alone.                                    *)
LEMMA TablesKept ==
  ASSUME FilesOK, version' = version
  PROVE  FilesOK' /\ TableEntries' = TableEntries
<1>1. FilesOK'
  BY DEF FilesOK, FileOK
<1>2. TableEntries' = TableEntries
  BY DEF TableEntries, Entries
<1> QED BY <1>1, <1>2

LEMMA InvInit ==
  ASSUME Init
  PROVE  Inv
<1>1. /\ \A l \in Levels : version[l] = {}
      /\ compaction.running = FALSE /\ snapshots = <<>>
      /\ mem = {} /\ imm = {} /\ seekFile = {}
  BY DEF Init, NoCompaction
<1>2. TypeOK
  <2>1. 0 \in 0 .. MaxKey /\ 0 \in 0 .. MaxWrites
    BY LSMAssumption
  <2>2. compactPointer \in [Levels -> [key : 0 .. MaxKey, seq : 0 .. MaxWrites]]
    BY <2>1 DEF Init, NoPointer, IKey
  <2>3. version \in [Levels -> SUBSET File]
    BY DEF Init
  <2>4. <<>> \in Seq(0 .. MaxWrites)
    OBVIOUS
  <2> QED BY <2>1, <2>2, <2>3, <2>4 DEF Init, TypeOK
<1>3. TableEntries = {} /\ AllEntries = {}
  BY <1>1, EntriesOf
<1>4. SeqsOK
  BY <1>1, <1>3 DEF SeqsOK, Distinct
<1>5. FilesOK
  BY <1>1, LevelFacts DEF FilesOK
<1>6. SnapshotsOK /\ InputsInVersion /\ RunningOK
  BY <1>1 DEF SnapshotsOK, InputsInVersion, RunningOK
<1> QED BY <1>2, <1>4, <1>5, <1>6 DEF Inv

LEMMA InvWrite ==
  ASSUME Inv, UNCHANGED scenario, NEW k \in Keys, NEW t \in {"value", "deletion"},
         Write(k, t)
  PROVE  Inv'
<1>1. PICK e : e = [key |-> k, seq |-> lastSequence + 1, type |-> t]
  OBVIOUS
<1>2. /\ mem' = mem \cup {e} /\ lastSequence' = lastSequence + 1
      /\ lastSequence < scenario.writes
      /\ imm' = imm /\ hasImm' = hasImm /\ version' = version
      /\ seekFile' = seekFile /\ compactPointer' = compactPointer
      /\ snapshots' = snapshots /\ compaction' = compaction /\ bgError' = bgError
      /\ manual' = manual /\ manuals' = manuals /\ scenario' = scenario
  BY <1>1 DEF Write, manualVars
<1>3. lastSequence \in Nat /\ lastSequence' \in 1 .. MaxWrites
  BY <1>2, ScenarioType, LSMAssumption DEF Inv, TypeOK
<1>4. e \in Entry /\ e.seq = lastSequence + 1
  BY <1>1, <1>2, <1>3 DEF Entry
<1>5. TypeOK'
  <2>1. lastSequence' \in 0 .. MaxWrites /\ mem' \subseteq Entry
    BY <1>2, <1>3, <1>4 DEF Inv, TypeOK
  <2> QED BY <1>2, <2>1 DEF Inv, TypeOK
<1>6. FilesOK' /\ TableEntries' = TableEntries
  BY <1>2, TablesKept DEF Inv
<1>7. /\ AllEntries = mem \cup imm \cup TableEntries
      /\ AllEntries' = mem' \cup imm' \cup TableEntries'
  BY EntriesOf DEF AllEntries, TableEntries
<1>8. \A d \in AllEntries : d.seq \in Nat /\ d.seq < e.seq /\ d.seq <= lastSequence
  <2>1. AllEntries \subseteq Entry
    <3>1. TableEntries \subseteq Entry
      BY InvTables, FileFacts, EntriesOf DEF Inv
    <3> QED BY <1>7, <3>1 DEF Inv, TypeOK
  <2> QED BY <1>3, <1>4, <2>1, EntryType DEF Inv, SeqsOK
<1>9. AllEntries' = AllEntries \cup {e}
  BY <1>2, <1>6, <1>7
<1>10. SeqsOK'
  <2>1. \A d \in AllEntries' : d.seq <= lastSequence'
    BY <1>2, <1>3, <1>4, <1>8, <1>9
  <2>2. Distinct(AllEntries')
    BY <1>3, <1>4, <1>8, <1>9 DEF Inv, SeqsOK, Distinct
  <2>3. \A a \in mem' : \A d \in imm' \cup TableEntries' : d.seq < a.seq
    BY <1>2, <1>6, <1>7, <1>8 DEF Inv, SeqsOK
  <2> QED BY <1>2, <1>6, <2>1, <2>2, <2>3 DEF Inv, SeqsOK
<1>11. SnapshotsOK'
  <2>1. \A i \in DOMAIN snapshots : snapshots[i] \in Nat
    BY SnapshotType DEF Inv
  <2> QED BY <1>2, <1>3, <2>1 DEF Inv, SnapshotsOK
<1>12. InputsInVersion'
  BY <1>2 DEF Inv, InputsInVersion
<1>13. RunningOK'
  <2>1. compaction.running => compaction.smallestSnapshot <= lastSequence'
    BY <1>2, <1>3, RunningInputs DEF Inv, RunningOK
  <2> QED BY <1>2, <2>1 DEF Inv, RunningOK, In, Entries
<1> QED BY <1>5, <1>6, <1>10, <1>11, <1>12, <1>13 DEF Inv
LEMMA InvSwitch ==
  ASSUME Inv, UNCHANGED scenario, SwitchMemTable,
         manual' \in {NoManual} \cup ManualType,
         compaction.running /\ compaction.manual => manual'.pc = "level"
  PROVE  Inv'
<1>1. /\ ~hasImm /\ imm' = mem /\ mem' = {} /\ hasImm' = TRUE
      /\ bgError' \in {FALSE, IOErrors}
      /\ lastSequence' = lastSequence /\ version' = version
      /\ seekFile' = seekFile /\ compactPointer' = compactPointer
      /\ snapshots' = snapshots /\ compaction' = compaction
      /\ manuals' = manuals /\ scenario' = scenario
  BY DEF SwitchMemTable
<1>2. TypeOK'
  BY <1>1, ScenarioType DEF Inv, TypeOK, IOErrors
<1>3. FilesOK' /\ TableEntries' = TableEntries
  BY <1>1, TablesKept DEF Inv
<1>4. /\ AllEntries = mem \cup imm \cup TableEntries
      /\ AllEntries' = mem' \cup imm' \cup TableEntries'
  BY EntriesOf DEF AllEntries, TableEntries
<1>5. imm = {}
  BY <1>1 DEF Inv, SeqsOK
<1>6. AllEntries' = AllEntries
  BY <1>1, <1>3, <1>4, <1>5
<1>7. SeqsOK'
  <2>1. \A e \in AllEntries' : e.seq <= lastSequence'
    BY <1>1, <1>6 DEF Inv, SeqsOK
  <2>2. Distinct(AllEntries')
    BY <1>6 DEF Inv, SeqsOK, Distinct
  <2>3. \A e \in imm' : \A d \in TableEntries' : d.seq < e.seq
    BY <1>1, <1>3 DEF Inv, SeqsOK
  <2> QED BY <1>1, <2>1, <2>2, <2>3 DEF SeqsOK
<1>8. SnapshotsOK' /\ InputsInVersion'
  BY <1>1 DEF Inv, SnapshotsOK, InputsInVersion
<1>9. RunningOK'
  BY <1>1 DEF Inv, RunningOK, In, Entries
<1> QED BY <1>2, <1>3, <1>7, <1>8, <1>9 DEF Inv

(* A step that changes the seek file or the thread in CompactRange only.   *)
LEMMA InvFrame ==
  ASSUME Inv, UNCHANGED <<scenario, memVars, version, compactPointer, snapshots,
                          compaction, bgError>>,
         seekFile' \subseteq [level : 0 .. NumLevels - 2, file : File],
         \A p \in seekFile' : p.file \in version[p.level],
         manual' \in {NoManual} \cup ManualType, manuals' \in Nat,
         compaction.running /\ compaction.manual => manual'.pc = "level"
  PROVE  Inv'
<1>1. /\ lastSequence' = lastSequence /\ mem' = mem /\ imm' = imm /\ hasImm' = hasImm
      /\ version' = version /\ compactPointer' = compactPointer
      /\ snapshots' = snapshots /\ compaction' = compaction
      /\ bgError' = bgError /\ scenario' = scenario
  BY DEF memVars
<1>2. TypeOK'
  BY <1>1 DEF Inv, TypeOK
<1>3. FilesOK' /\ TableEntries' = TableEntries
  BY <1>1, TablesKept DEF Inv
<1>4. SeqsOK'
  BY <1>1, <1>3, SeqsKept DEF Inv
<1>5. SnapshotsOK'
  BY <1>1 DEF Inv, SnapshotsOK
<1>6. InputsInVersion'
  BY <1>1 DEF Inv, InputsInVersion
<1>7. RunningOK'
  BY <1>1 DEF Inv, RunningOK, In, Entries
<1> QED BY <1>2, <1>3, <1>4, <1>5, <1>6, <1>7 DEF Inv

LEMMA InvUpdateStats ==
  ASSUME Inv, UNCHANGED scenario, NEW k, NEW s, UpdateStats(k, s)
  PROVE  Inv'
<1>1. PICK p : p = FirstOf(Overlapping(k, s))
  OBVIOUS
<1>2. /\ seekFile' = {p} /\ Cardinality(Overlapping(k, s)) >= 2
      /\ UNCHANGED <<memVars, version, compactPointer, snapshots, compaction,
                     bgError, manual, manuals>>
  BY <1>1 DEF UpdateStats, manualVars
<1>3. /\ p \in [level : 0 .. NumLevels - 2, file : File]
      /\ p.file \in version[p.level]
  BY <1>1, <1>2, InvTables, SeekFileIs DEF Inv
<1>4. /\ manual' \in {NoManual} \cup ManualType /\ manuals' \in Nat
      /\ compaction.running /\ compaction.manual => manual'.pc = "level"
  BY <1>2 DEF Inv, TypeOK, RunningOK
<1> QED BY <1>2, <1>3, <1>4, InvFrame

LEMMA RemoveAtIs ==
  ASSUME NEW S, NEW s \in Seq(S), NEW n \in 1 .. Len(s), NEW t, t = RemoveAt(s, n)
  PROVE  /\ t \in Seq(S) /\ Len(t) = Len(s) - 1 /\ DOMAIN t = 1 .. Len(s) - 1
         /\ \A i \in 1 .. n - 1 : t[i] = s[i]
         /\ \A i \in n .. Len(s) - 1 : t[i] = s[i + 1]
<1>0. Len(s) \in Nat /\ \A i \in 1 .. Len(s) : s[i] \in S
  BY ElementOfSeq, LenProperties
<1>1. PICK a, z : a = SubSeq(s, 1, n - 1) /\ z = SubSeq(s, n + 1, Len(s))
  OBVIOUS
<1>2. /\ 1 \in Int /\ n - 1 \in Int /\ n + 1 \in Int /\ Len(s) \in Int
      /\ \A i \in 1 .. n - 1 : s[i] \in S
      /\ \A i \in n + 1 .. Len(s) : s[i] \in S
  BY <1>0
<1>3. /\ a \in Seq(S) /\ Len(a) = IF 1 <= n - 1 THEN (n - 1) - 1 + 1 ELSE 0
      /\ \A i \in 1 .. (n - 1) - 1 + 1 : a[i] = s[1 + i - 1]
  BY <1>1, <1>2, SubSeqProperties
<1>4. /\ z \in Seq(S) /\ Len(z) = IF n + 1 <= Len(s) THEN Len(s) - (n + 1) + 1 ELSE 0
      /\ \A i \in 1 .. Len(s) - (n + 1) + 1 : z[i] = s[(n + 1) + i - 1]
  BY <1>1, <1>2, SubSeqProperties
<1>5. Len(a) = n - 1 /\ \A i \in 1 .. n - 1 : a[i] = s[i]
  BY <1>0, <1>3
<1>6. Len(z) = Len(s) - n /\ \A i \in 1 .. Len(s) - n : z[i] = s[n + i]
  BY <1>0, <1>4
<1>7. t = a \o z
  BY <1>1 DEF RemoveAt
<1>8. /\ t \in Seq(S) /\ Len(t) = Len(a) + Len(z)
      /\ \A i \in 1 .. Len(a) + Len(z) : t[i] = IF i <= Len(a) THEN a[i] ELSE z[i - Len(a)]
  <2>1. a \in Seq(S) /\ z \in Seq(S)
    BY <1>3, <1>4
  <2> QED BY <1>7, <2>1, ConcatProperties, Zenon
<1>9. Len(t) = Len(s) - 1
  BY <1>0, <1>5, <1>6, <1>8
<1>10. DOMAIN t = 1 .. Len(s) - 1
  BY <1>8, <1>9, LenProperties
<1>11. \A i \in 1 .. n - 1 : t[i] = s[i]
  <2> TAKE i \in 1 .. n - 1
  <2>1. i \in 1 .. Len(a) + Len(z) /\ i <= Len(a)
    BY <1>0, <1>5, <1>6
  <2>2. t[i] = a[i]
    BY <1>8, <2>1
  <2> QED BY <1>5, <2>2
<1>12. \A i \in n .. Len(s) - 1 : t[i] = s[i + 1]
  <2> TAKE i \in n .. Len(s) - 1
  <2>1. t[i] = z[i - (n - 1)]
    <3>1. i \in 1 .. Len(a) + Len(z) /\ ~(i <= Len(a)) /\ i - Len(a) = i - (n - 1)
      BY <1>0, <1>5, <1>6
    <3> QED BY <1>8, <3>1
  <2>2. i - (n - 1) \in 1 .. Len(s) - n /\ n + (i - (n - 1)) = i + 1
    BY <1>0
  <2> QED BY <1>6, <2>1, <2>2
<1> QED BY <1>8, <1>9, <1>10, <1>11, <1>12

(* Snapshots are released from anywhere in the list.                       *)
LEMMA InvSnapshots ==
  ASSUME Inv, UNCHANGED scenario, GetSnapshot \/ ReleaseSnapshot
  PROVE  Inv'
<1>1. /\ lastSequence' = lastSequence /\ mem' = mem /\ imm' = imm /\ hasImm' = hasImm
      /\ version' = version /\ seekFile' = seekFile /\ compactPointer' = compactPointer
      /\ compaction' = compaction /\ bgError' = bgError /\ scenario' = scenario
      /\ manual' = manual /\ manuals' = manuals
  BY DEF GetSnapshot, ReleaseSnapshot, memVars, manualVars
<1>2. /\ DOMAIN snapshots = 1 .. Len(snapshots) /\ Len(snapshots) \in Nat
      /\ snapshots \in Seq(0 .. MaxWrites) /\ lastSequence \in 0 .. MaxWrites
      /\ \A i \in DOMAIN snapshots : snapshots[i] \in Nat
      /\ lastSequence \in Nat
  BY SnapshotType DEF Inv, TypeOK
<1>3. /\ snapshots' \in Seq(0 .. MaxWrites)
      /\ SnapshotsOK'
      /\ \A i \in DOMAIN snapshots' : \/ snapshots'[i] = lastSequence
                                      \/ \E j \in DOMAIN snapshots : snapshots'[i] = snapshots[j]
  <2>1. CASE GetSnapshot
    <3>1. snapshots' = Append(snapshots, lastSequence)
      BY <2>1 DEF GetSnapshot
    <3>2. /\ snapshots' \in Seq(0 .. MaxWrites)
          /\ DOMAIN snapshots' = 1 .. Len(snapshots) + 1
          /\ \A i \in 1 .. Len(snapshots) : snapshots'[i] = snapshots[i]
          /\ snapshots'[Len(snapshots) + 1] = lastSequence
      BY <1>2, <3>1, AppendProperties
    <3>3. SnapshotsOK'
      BY <1>1, <1>2, <3>2 DEF Inv, SnapshotsOK
    <3> QED BY <1>2, <3>2, <3>3
  <2>2. CASE ReleaseSnapshot
    <3>1. PICK n \in DOMAIN snapshots : snapshots' = RemoveAt(snapshots, n)
      BY <2>2 DEF ReleaseSnapshot
    <3>2. n \in 1 .. Len(snapshots)
      BY <1>2
    <3>3. /\ snapshots' \in Seq(0 .. MaxWrites)
          /\ DOMAIN snapshots' = 1 .. Len(snapshots) - 1
          /\ \A i \in 1 .. n - 1 : snapshots'[i] = snapshots[i]
          /\ \A i \in n .. Len(snapshots) - 1 : snapshots'[i] = snapshots[i + 1]
      <4>1. PICK S, s, t : S = 0 .. MaxWrites /\ s = snapshots /\ t = snapshots'
        OBVIOUS
      <4>2. s \in Seq(S) /\ n \in 1 .. Len(s) /\ t = RemoveAt(s, n)
        BY <1>2, <3>1, <3>2, <4>1
      <4>3. /\ t \in Seq(S) /\ DOMAIN t = 1 .. Len(s) - 1
            /\ \A i \in 1 .. n - 1 : t[i] = s[i]
            /\ \A i \in n .. Len(s) - 1 : t[i] = s[i + 1]
        BY <4>2, RemoveAtIs, SMTT(60)
      <4> QED BY <4>1, <4>3
    <3>4. PICK f \in [DOMAIN snapshots' -> DOMAIN snapshots] :
            /\ \A i \in DOMAIN snapshots' : snapshots'[i] = snapshots[f[i]]
            /\ \A i, j \in DOMAIN snapshots' : i <= j => f[i] <= f[j]
      <4> DEFINE g == [i \in DOMAIN snapshots' |-> IF i < n THEN i ELSE i + 1]
      <4>1. g \in [DOMAIN snapshots' -> DOMAIN snapshots]
        BY <1>2, <3>2, <3>3
      <4>2. \A i \in DOMAIN snapshots' : snapshots'[i] = snapshots[g[i]]
        BY <1>2, <3>2, <3>3
      <4>3. \A i, j \in DOMAIN snapshots' : i <= j => g[i] <= g[j]
        BY <1>2, <3>2, <3>3
      <4> QED BY <4>1, <4>2, <4>3
    <3>7. SnapshotsOK'
      BY <1>1, <3>4 DEF Inv, SnapshotsOK
    <3> QED BY <3>3, <3>4, <3>7
  <2> QED BY <2>1, <2>2
<1>4. TypeOK'
  BY <1>1, <1>3 DEF Inv, TypeOK
<1>5. FilesOK' /\ TableEntries' = TableEntries
  BY <1>1, TablesKept DEF Inv
<1>6. SeqsOK'
  BY <1>1, <1>5, SeqsKept DEF Inv
<1>7. InputsInVersion'
  BY <1>1 DEF Inv, InputsInVersion
<1>8. RunningOK'
  <2>1. compaction.running => \A i \in DOMAIN snapshots' :
          compaction.smallestSnapshot <= snapshots'[i]
    BY <1>1, <1>3 DEF Inv, RunningOK
  <2> QED BY <1>1, <2>1 DEF Inv, RunningOK, In, Entries
<1> QED BY <1>3, <1>4, <1>5, <1>6, <1>7, <1>8 DEF Inv
(* Steps that put a new version in place while nothing else changes but    *)
(* the memtable that was flushed.                                          *)
LEMMA InvCompactMemTable ==
  ASSUME Inv, UNCHANGED scenario, CompactMemTable
  PROVE  Inv'
<1>1. /\ lastSequence' = lastSequence /\ mem' = mem
      /\ compactPointer' = compactPointer /\ snapshots' = snapshots
      /\ compaction' = compaction /\ manual' = manual /\ manuals' = manuals
      /\ scenario' = scenario
  BY DEF CompactMemTable, manualVars
<1>2. CASE imm' = {} /\ hasImm' = FALSE /\ bgError' = bgError /\ seekFile' = {}
           /\ (version' = version \/ \E l, t : Flushes(l, t))
  <2>1. /\ version' \in [Levels -> SUBSET File] /\ FilesOK'
        /\ TableEntries' \subseteq TableEntries \cup imm
        /\ \A m \in Levels : version[m] \subseteq version'[m]
        /\ \A m \in Levels : \A f \in version'[m] : f \in version[m] \/ f.ents = imm
    <3>1. CASE version' = version
      BY <3>1, TablesKept DEF Inv, TypeOK
    <3>2. CASE \E l, t : Flushes(l, t)
      <4>1. PICK l, t : Flushes(l, t)
        BY <3>2
      <4>2. /\ Replaces(l, {t}) /\ TableEntries' \subseteq TableEntries \cup imm
            /\ \A m \in Levels : version[m] \subseteq version'[m]
            /\ \A m \in Levels : \A f \in version'[m] : f \in version[m] \/ (m = l /\ f = t)
        BY <4>1, FlushReplaces DEF Inv
      <4>3. l \in Levels /\ t.ents = imm
        BY <4>1 DEF Flushes
      <4>4. FilesOK'
        BY <4>2, <4>3, InvTables, FilesReplaced DEF Inv
      <4> QED BY <4>2, <4>3, <4>4 DEF Replaces
    <3> QED BY <1>2, <3>1, <3>2
  <2>2. TypeOK'
    BY <1>1, <1>2, <2>1 DEF Inv, TypeOK
  <2>3. SeqsOK'
    BY <1>1, <1>2, <2>1, SeqsKept DEF Inv
  <2>4. SnapshotsOK'
    BY <1>1 DEF Inv, SnapshotsOK
  <2>5. InputsInVersion'
    <3>1. compaction.running => compaction.level \in Levels /\ compaction.level + 1 \in Levels
      BY RunningInputs, LevelFacts DEF Inv
    <3> QED BY <1>1, <1>2, <2>1, <3>1 DEF Inv, InputsInVersion
  <2>6. RunningOK'
    <3>1. SUFFICES ASSUME compaction.running
                   PROVE  \A m \in Levels : compaction.level + 2 <= m =>
                            \A f \in version'[m] :
                              \/ f \in compaction.base[m]
                              \/ \A d \in f.ents : \A e \in Entries(In(compaction)) : e.seq < d.seq
      BY <1>1 DEF Inv, RunningOK, In, Entries
    <3>2. \A d \in imm : \A e \in Entries(In(compaction)) : e.seq < d.seq
      BY <3>1, RunningInputs DEF Inv, SeqsOK
    <3> QED BY <2>1, <3>1, <3>2 DEF Inv, RunningOK
  <2> QED BY <2>1, <2>2, <2>3, <2>4, <2>5, <2>6 DEF Inv
<1>3. CASE bgError' = TRUE /\ UNCHANGED <<version, seekFile, imm, hasImm>>
  <2>1. version' = version /\ seekFile' = seekFile /\ imm' = imm /\ hasImm' = hasImm
    BY <1>3
  <2>2. FilesOK' /\ TableEntries' = TableEntries
    BY <2>1, TablesKept DEF Inv
  <2>3. TypeOK'
    BY <1>1, <1>3, <2>1 DEF Inv, TypeOK
  <2>4. SeqsOK'
    BY <1>1, <2>1, <2>2, SeqsKept DEF Inv
  <2>5. SnapshotsOK' /\ InputsInVersion'
    BY <1>1, <2>1 DEF Inv, SnapshotsOK, InputsInVersion
  <2>6. RunningOK'
    BY <1>1, <2>1 DEF Inv, RunningOK, In, Entries
  <2> QED BY <2>2, <2>3, <2>4, <2>5, <2>6 DEF Inv
<1>4. \/ /\ imm' = {} /\ hasImm' = FALSE /\ bgError' = bgError /\ seekFile' = {}
         /\ (version' = version \/ \E l, t : Flushes(l, t))
      \/ bgError' = TRUE /\ UNCHANGED <<version, seekFile, imm, hasImm>>
  <2>1. PICK l : l = PickLevelForMemTableOutput(MinEntry(imm).key, MaxEntry(imm).key)
    OBVIOUS
  <2>2. \/ /\ LogAndApply(IF imm = {} THEN version
                          ELSE [version EXCEPT ![l] = @ \cup {NewTable(l, imm)}])
           /\ imm' = {} /\ hasImm' = FALSE /\ bgError' = bgError
        \/ bgError' = TRUE /\ UNCHANGED <<version, seekFile, imm, hasImm>>
    BY <2>1 DEF CompactMemTable
  <2>3. CASE /\ LogAndApply(IF imm = {} THEN version
                          ELSE [version EXCEPT ![l] = @ \cup {NewTable(l, imm)}])
             /\ imm' = {} /\ hasImm' = FALSE /\ bgError' = bgError
    <3>1. CASE imm = {}
      BY <2>3, <3>1 DEF LogAndApply
    <3>2. CASE imm # {}
      <4>1. version' = [version EXCEPT ![l] = @ \cup {NewTable(l, imm)}] /\ seekFile' = {}
        BY <2>3, <3>2 DEF LogAndApply
      <4>2. Flushes(l, NewTable(l, imm))
        BY <2>1, <3>2, <4>1, FlushIs DEF Inv
      <4> QED BY <2>3, <4>1, <4>2
    <3> QED BY <3>1, <3>2
  <2> QED BY <2>2, <2>3
<1> QED BY <1>2, <1>3, <1>4

(* The files of a version with new files in the place of some.             *)
LEMMA InvInstalls ==
  ASSUME Inv, UNCHANGED <<scenario, memVars, snapshots>>,
         NEW l, NEW in0, NEW in1, NEW N, Installs(l, in0, in1, N),
         seekFile' = {}, compaction'.running = FALSE, compaction' = NoCompaction,
         compactPointer' \in [Levels -> [key : 0 .. MaxKey, seq : 0 .. MaxWrites]],
         bgError' \in BOOLEAN, manuals' \in Nat,
         manual' \in {NoManual} \cup ManualType
  PROVE  Inv'
<1>1. /\ lastSequence' = lastSequence /\ mem' = mem /\ imm' = imm /\ hasImm' = hasImm
      /\ snapshots' = snapshots /\ scenario' = scenario
  BY DEF memVars
<1>2. Replaces(l + 1, N) /\ TableEntries' \subseteq TableEntries
  BY InstallReplaces DEF Inv
<1>3. l + 1 \in Levels
  BY LevelFacts DEF Installs
<1>4. FilesOK' /\ version' \in [Levels -> SUBSET File]
  BY <1>2, <1>3, InvTables, FilesReplaced DEF Inv, Replaces
<1>5. TypeOK'
  BY <1>1, <1>4 DEF Inv, TypeOK
<1>6. SeqsOK'
  BY <1>1, <1>2, SeqsKept DEF Inv
<1>7. SnapshotsOK' /\ InputsInVersion' /\ RunningOK'
  BY <1>1 DEF Inv, SnapshotsOK, InputsInVersion, RunningOK
<1> QED BY <1>4, <1>5, <1>6, <1>7 DEF Inv
LEMMA InvStarts ==
  ASSUME Inv, UNCHANGED <<scenario, memVars, version, seekFile, snapshots, bgError,
                          manual, manuals>>,
         NEW l \in LowLevel, NEW c, Starts(l, c, compaction'),
         c.in0 \in SUBSET version[l], c.in0 # {}, c.in1 \in SUBSET version[l + 1],
         compactPointer' \in [Levels -> [key : 0 .. MaxKey, seq : 0 .. MaxWrites]],
         compaction'.manual => manual.pc = "level"
  PROVE  Inv'
<1>1. /\ lastSequence' = lastSequence /\ mem' = mem /\ imm' = imm /\ hasImm' = hasImm
      /\ version' = version /\ seekFile' = seekFile /\ snapshots' = snapshots
      /\ bgError' = bgError /\ scenario' = scenario
      /\ manual' = manual /\ manuals' = manuals
  BY DEF memVars
<1>2. TypeOK'
  BY <1>1 DEF Inv, TypeOK, Starts
<1>3. FilesOK' /\ TableEntries' = TableEntries
  BY <1>1, TablesKept DEF Inv
<1>4. SeqsOK'
  BY <1>1, <1>3, SeqsKept DEF Inv
<1>5. SnapshotsOK'
  BY <1>1 DEF Inv, SnapshotsOK
<1>6. InputsInVersion'
  BY <1>1 DEF Inv, InputsInVersion, Starts
<1>7. RunningOK'
  BY <1>1 DEF Inv, RunningOK, Starts
<1> QED BY <1>2, <1>3, <1>4, <1>5, <1>6, <1>7 DEF Inv

LEMMA InvBackgroundCompaction ==
  ASSUME Inv, UNCHANGED scenario, BackgroundCompaction
  PROVE  Inv'
<1>1. PICK p : p = PickStart
  OBVIOUS
<1>2. PICK l : l = p.level
  OBVIOUS
<1>3. PICK picked : picked = PickedFiles(p)
  OBVIOUS
<1>4. PICK c : c = SetupOtherInputs(l, picked)
  OBVIOUS
<1>5. NeedsCompaction /\ ~compaction.running
  BY DEF BackgroundCompaction, Idle
<1>6. l \in LowLevel /\ picked \in SUBSET version[l] /\ picked # {}
  BY <1>1, <1>2, <1>3, <1>5, PickIs DEF Inv
<1>7. RunCompaction(l, c) /\ UNCHANGED <<memVars, snapshots, manual, manuals>>
  BY <1>1, <1>2, <1>3, <1>4 DEF BackgroundCompaction, StartFrom, manualVars
<1>8. /\ Starts(l, c, Started(l, c, FALSE)) /\ Started(l, c, FALSE).manual = FALSE
      /\ c.in0 \in SUBSET version[l] /\ c.in0 # {} /\ c.in1 \in SUBSET version[l + 1]
      /\ IKey(MaxEntry(Entries(c.in0)).key, MaxEntry(Entries(c.in0)).seq)
           \in [key : 0 .. MaxKey, seq : 0 .. MaxWrites]
  BY <1>4, <1>6, StartedIs DEF Inv
<1>9. compactPointer' \in [Levels -> [key : 0 .. MaxKey, seq : 0 .. MaxWrites]]
  BY <1>7, <1>8 DEF RunCompaction, SetCompactPointer, Inv, TypeOK
<1>10. compaction = NoCompaction
  BY <1>5 DEF Inv, TypeOK, CompactionType
<1>11. /\ manual' \in {NoManual} \cup ManualType /\ manuals' \in Nat
  BY <1>7 DEF Inv, TypeOK
<1>12. CASE IsTrivialMove(c) /\ MoveFile(c, l) /\ UNCHANGED <<compaction, bgError>>
  <2>1. PICK f : Installs(l, {f}, {}, {[f EXCEPT !.num = 0]}) /\ seekFile' = {}
    BY <1>6, <1>8, <1>12, MoveInstalls DEF Inv, IsTrivialMove
  <2>2. compaction' = NoCompaction /\ compaction'.running = FALSE /\ bgError' \in BOOLEAN
    BY <1>10, <1>12 DEF NoCompaction, Inv, TypeOK
  <2> QED BY <1>7, <1>9, <1>11, <2>1, <2>2, InvInstalls
<1>13. CASE bgError' = TRUE /\ UNCHANGED <<version, seekFile, compaction>>
  <2>1. /\ version' = version /\ seekFile' = seekFile /\ compaction' = compaction
        /\ lastSequence' = lastSequence /\ mem' = mem /\ imm' = imm /\ hasImm' = hasImm
        /\ snapshots' = snapshots /\ manual' = manual /\ manuals' = manuals
    BY <1>7, <1>13 DEF memVars
  <2>2. FilesOK' /\ TableEntries' = TableEntries
    BY <2>1, TablesKept DEF Inv
  <2>3. TypeOK'
    BY <1>9, <1>13, <2>1 DEF Inv, TypeOK
  <2>4. SeqsOK'
    BY <2>1, <2>2, SeqsKept DEF Inv
  <2>5. SnapshotsOK' /\ InputsInVersion'
    BY <2>1 DEF Inv, SnapshotsOK, InputsInVersion
  <2>6. RunningOK'
    BY <1>5, <2>1 DEF RunningOK
  <2> QED BY <2>2, <2>3, <2>4, <2>5, <2>6 DEF Inv
<1>14. CASE compaction' = Started(l, c, FALSE) /\ UNCHANGED <<version, seekFile, bgError>>
  <2>1. Starts(l, c, compaction') /\ compaction'.manual = FALSE
    BY <1>8, <1>14
  <2> QED BY <1>6, <1>7, <1>8, <1>9, <1>14, <2>1, InvStarts
<1> QED BY <1>7, <1>12, <1>13, <1>14 DEF RunCompaction

LEMMA ManualIs ==
  ASSUME TypeOK, manual.pc # "idle"
  PROVE  manual \in ManualType
<1>1. manual # NoManual
  BY DEF NoManual
<1> QED BY <1>1 DEF TypeOK

LEMMA InvManualCompaction ==
  ASSUME Inv, UNCHANGED scenario, ManualCompaction
  PROVE  Inv'
<1>1. PICK l, picked : /\ l = manual.level
                       /\ picked = ManualFiles(manual.level, manual.cur, manual.end)
  OBVIOUS
<1>2. /\ manual.pc = "level" /\ ~compaction.running
      /\ UNCHANGED <<memVars, version, seekFile, snapshots, bgError, manuals>>
      /\ StartManual(l, picked)
  BY <1>1 DEF ManualCompaction, Idle, ManualPosted
<1>3. manual \in ManualType /\ l \in LowLevel /\ l \in Levels
  BY <1>1, <1>2, ManualIs, LevelFacts DEF Inv, ManualType, LowLevel
<1>4. picked \in SUBSET version[l]
  BY <1>1, <1>3, ManualFilesIs
<1>5. CASE /\ manual' = [manual EXCEPT !.done = TRUE, !.posted = FALSE]
           /\ UNCHANGED <<compactPointer, compaction>>
  <2>1. manual' \in ManualType
    BY <1>3, <1>5 DEF ManualType
  <2>2. seekFile' \subseteq [level : 0 .. NumLevels - 2, file : File] /\ manuals' \in Nat
    BY <1>2 DEF Inv, TypeOK
  <2>3. \A p \in seekFile' : p.file \in version[p.level]
    BY <1>2 DEF Inv, InputsInVersion
  <2> QED BY <1>2, <1>5, <2>1, <2>2, <2>3, InvFrame
<1>6. CASE picked # {} /\ RunManual(l, SetupOtherInputs(l, picked))
  <2>1. PICK c : c = SetupOtherInputs(l, picked)
    OBVIOUS
  <2>2. RunManual(l, c)
    BY <1>6, <2>1
  <2>3. /\ Starts(l, c, Started(l, c, TRUE)) /\ Started(l, c, TRUE).manual = TRUE
        /\ c.in0 \in SUBSET version[l] /\ c.in0 # {} /\ c.in1 \in SUBSET version[l + 1]
        /\ IKey(MaxEntry(Entries(c.in0)).key, MaxEntry(Entries(c.in0)).seq)
             \in [key : 0 .. MaxKey, seq : 0 .. MaxWrites]
    BY <1>3, <1>4, <1>6, <2>1, StartedIs DEF Inv
  <2>4. compactPointer' \in [Levels -> [key : 0 .. MaxKey, seq : 0 .. MaxWrites]]
    BY <2>2, <2>3 DEF RunManual, SetCompactPointer, Inv, TypeOK
  <2>5. Starts(l, c, compaction') /\ manual' = manual
    BY <2>2, <2>3 DEF RunManual
  <2> QED BY <1>2, <1>3, <2>3, <2>4, <2>5, InvStarts
<1> QED BY <1>2, <1>5, <1>6 DEF StartManual

LEMMA InvDoCompactionWork ==
  ASSUME Inv, UNCHANGED scenario, DoCompactionWork
  PROVE  Inv'
<1>1. /\ compaction.running /\ compaction' = NoCompaction /\ compaction'.running = FALSE
      /\ UNCHANGED <<memVars, compactPointer, snapshots, manuals>>
  BY DEF DoCompactionWork, NoCompaction
<1>2. /\ compactPointer' \in [Levels -> [key : 0 .. MaxKey, seq : 0 .. MaxWrites]]
      /\ manuals' \in Nat
  BY <1>1 DEF Inv, TypeOK
<1>3. manual' \in {NoManual} \cup ManualType
  <2>1. CASE ~compaction.manual
    BY <2>1 DEF DoCompactionWork, Inv, TypeOK
  <2>2. CASE compaction.manual
    <3>1. manual.pc = "level" /\ manual \in ManualType
      BY <1>1, <2>2, ManualIs DEF Inv, RunningOK
    <3>2. Largest(LastFile(compaction.in0)).key \in 0 .. MaxKey
      <4>1. PICK l, F : l = compaction.level /\ F = compaction.in0
        OBVIOUS
      <4>2. l \in Levels /\ F \in SUBSET version[l] /\ F # {}
        BY <1>1, <4>1, RunningInputs, LevelFacts DEF Inv, RunningOK
      <4>3. LastFile(F) \in version[l]
        BY <4>2, InvTables, LastFileIs DEF Inv
      <4>4. Largest(LastFile(F)).key \in Keys
        BY <4>2, <4>3, InvTables, FileKeys DEF Inv
      <4> QED BY <4>1, <4>4, LSMAssumption DEF Keys
    <3>3. PICK k \in 0 .. MaxKey : k = Largest(LastFile(compaction.in0)).key
      BY <3>2
    <3>4. \/ manual' = [manual EXCEPT !.posted = FALSE, !.cur = k]
          \/ manual' = [manual EXCEPT !.posted = FALSE, !.done = TRUE]
      BY <2>2, <3>3 DEF DoCompactionWork
    <3> QED BY <3>1, <3>4 DEF ManualType
  <2> QED BY <2>1, <2>2
<1>4. CASE InstallCompactionResults(compaction) /\ UNCHANGED bgError
  <2>1. /\ seekFile' = {}
        /\ Installs(compaction.level, compaction.in0, compaction.in1, Outputs(compaction))
    BY <1>1, <1>4, ResultsInstalls DEF Inv
  <2>2. bgError' \in BOOLEAN
    BY <1>4 DEF Inv, TypeOK
  <2> QED BY <1>1, <1>2, <1>3, <2>1, <2>2, InvInstalls
<1>5. CASE bgError' = TRUE /\ UNCHANGED <<version, seekFile>>
  <2>1. /\ version' = version /\ seekFile' = seekFile
        /\ lastSequence' = lastSequence /\ mem' = mem /\ imm' = imm /\ hasImm' = hasImm
        /\ snapshots' = snapshots
    BY <1>1, <1>5 DEF memVars
  <2>2. FilesOK' /\ TableEntries' = TableEntries
    BY <2>1, TablesKept DEF Inv
  <2>3. TypeOK'
    BY <1>1, <1>2, <1>3, <1>5, <2>1 DEF Inv, TypeOK
  <2>4. SeqsOK'
    BY <2>1, <2>2, SeqsKept DEF Inv
  <2>5. SnapshotsOK' /\ InputsInVersion'
    BY <1>1, <2>1 DEF Inv, SnapshotsOK, InputsInVersion
  <2>6. RunningOK'
    BY <1>1 DEF RunningOK
  <2> QED BY <2>2, <2>3, <2>4, <2>5, <2>6 DEF Inv
<1>6. \/ InstallCompactionResults(compaction) /\ UNCHANGED bgError
      \/ bgError' = TRUE /\ UNCHANGED <<version, seekFile>>
  BY DEF DoCompactionWork
<1> QED BY <1>4, <1>5, <1>6
(* The thread in CompactRange.                                             *)
LEMMA InvManualThread ==
  ASSUME Inv, UNCHANGED scenario, NEW m, Manual(m),
         m \in {NoManual} \cup ManualType, manuals' \in Nat,
         compaction.running /\ compaction.manual => m.pc = "level"
  PROVE  Inv'
<1>1. /\ manual' = m
      /\ UNCHANGED <<memVars, version, seekFile, compactPointer, snapshots,
                     compaction, bgError>>
  BY DEF Manual
<1>2. seekFile' \subseteq [level : 0 .. NumLevels - 2, file : File]
  BY <1>1 DEF Inv, TypeOK
<1>3. \A p \in seekFile' : p.file \in version[p.level]
  BY <1>1 DEF Inv, InputsInVersion
<1> QED BY <1>1, <1>2, <1>3, InvFrame

LEMMA InvCompactRange ==
  ASSUME Inv, UNCHANGED scenario, NEW r \in scenario.ranges, CompactRange(r.begin, r.end)
  PROVE  Inv'
<1>1. r.begin \in 0 .. MaxKey /\ r.end \in 1 .. MaxKey + 1
  BY ScenarioType DEF Inv
<1>2. PICK D : D = {1} \cup {l \in 1 .. NumLevels - 1 : OverlapInLevel(l, r.begin, r.end)}
  OBVIOUS
<1>3. Max(D) \in 1 .. NumLevels - 1
  <2>1. 1 \in 1 .. NumLevels - 1 /\ NumLevels - 1 \in Nat
    BY LSMAssumption
  <2>2. D \in SUBSET (1 .. NumLevels - 1) /\ D # {}
    BY <1>2, <2>1
  <2>3. D \in SUBSET Nat /\ \A x \in D : x <= NumLevels - 1
    BY <2>1, <2>2
  <2> QED BY <2>1, <2>2, <2>3, MaxIsGreatest
<1>4. PICK m : m = [pc |-> "mem", level |-> 0, begin |-> r.begin, end |-> r.end,
                    cur |-> r.begin, posted |-> FALSE, done |-> FALSE, max |-> Max(D)]
  OBVIOUS
<1>5. Manual(m) /\ manual.pc = "idle" /\ manuals' = manuals + 1
  BY <1>2, <1>4 DEF CompactRange
<1>6. m \in ManualType
  <2>1. 0 \in 0 .. NumLevels - 2
    BY LSMAssumption
  <2> QED BY <1>1, <1>3, <1>4, <2>1 DEF ManualType
<1>7. manuals' \in Nat
  BY <1>5 DEF Inv, TypeOK
<1>8. ~(compaction.running /\ compaction.manual)
  BY <1>5 DEF Inv, RunningOK
<1> QED BY <1>5, <1>6, <1>7, <1>8, InvManualThread

LEMMA InvManualSwitch ==
  ASSUME Inv, UNCHANGED scenario, ManualSwitch
  PROVE  Inv'
<1>1. manual.pc = "mem" /\ manual \in ManualType /\ manuals \in Nat
  BY ManualIs DEF ManualSwitch, Inv, TypeOK
<1>2. ~(compaction.running /\ compaction.manual)
  BY <1>1 DEF Inv, RunningOK
<1>3. \A x \in {"wait", "level"} : [manual EXCEPT !.pc = x] \in ManualType
  BY <1>1 DEF ManualType
<1>4. CASE SwitchMemTable /\ manual' = [manual EXCEPT !.pc = "wait"]
  BY <1>2, <1>3, <1>4, InvSwitch
<1>5. CASE Manual([manual EXCEPT !.pc = "wait"]) /\ UNCHANGED manuals
  BY <1>1, <1>2, <1>3, <1>5, InvManualThread
<1>6. CASE Manual([manual EXCEPT !.pc = "level"]) /\ UNCHANGED manuals
  BY <1>1, <1>2, <1>3, <1>6, InvManualThread
<1> QED BY <1>4, <1>5, <1>6 DEF ManualSwitch

LEMMA InvManualSteps ==
  ASSUME Inv, UNCHANGED scenario, ManualWait \/ ManualPost \/ ManualNextLevel
  PROVE  Inv'
<1>0. manuals \in Nat
  BY DEF Inv, TypeOK
<1>1. CASE ManualWait
  <2>1. manual.pc = "wait" /\ manual \in ManualType /\ manuals' \in Nat
    BY <1>0, <1>1, ManualIs DEF ManualWait, Inv, TypeOK
  <2>2. PICK m : m = [manual EXCEPT !.pc = "level"]
    OBVIOUS
  <2>3. m \in ManualType /\ Manual(m) /\ m.pc = "level"
    BY <1>1, <2>1, <2>2 DEF ManualType, ManualWait
  <2> QED BY <2>1, <2>3, InvManualThread
<1>2. CASE ManualPost
  <2>1. manual.pc = "level" /\ manual \in ManualType /\ manuals' \in Nat
    BY <1>0, <1>2, ManualIs DEF ManualPost, Inv, TypeOK
  <2>2. PICK m : m = [manual EXCEPT !.posted = TRUE]
    OBVIOUS
  <2>3. m \in ManualType /\ Manual(m) /\ m.pc = "level"
    BY <1>2, <2>1, <2>2 DEF ManualType, ManualPost
  <2> QED BY <2>1, <2>3, InvManualThread
<1>3. CASE ManualNextLevel
  <2>1. /\ manual.pc = "level" /\ manual \in ManualType /\ manuals' \in Nat
        /\ ~(compaction.running /\ compaction.manual)
    BY <1>0, <1>3, ManualIs DEF ManualNextLevel, Inv, TypeOK
  <2>2. PICK m : m = [manual EXCEPT !.level = @ + 1, !.cur = manual.begin,
                                    !.posted = FALSE, !.done = FALSE]
    OBVIOUS
  <2>3. manual.level + 1 < manual.max => m \in ManualType
    <3>1. /\ manual.level \in 0 .. NumLevels - 2 /\ manual.max \in 1 .. NumLevels - 1
          /\ manual.begin \in 0 .. MaxKey
      BY <2>1 DEF ManualType
    <3>2. manual.level + 1 < manual.max => manual.level + 1 \in 0 .. NumLevels - 2
      BY <3>1, LSMAssumption
    <3> QED BY <2>1, <2>2, <3>1, <3>2 DEF ManualType
  <2>4. Manual(IF manual.level + 1 < manual.max THEN m ELSE NoManual)
    BY <1>3, <2>2 DEF ManualNextLevel
  <2>5. CASE manual.level + 1 < manual.max
    <3>1. Manual(m)
      BY <2>4, <2>5
    <3> QED BY <2>1, <2>3, <2>5, <3>1, InvManualThread
  <2>6. CASE ~(manual.level + 1 < manual.max)
    <3>1. Manual(NoManual)
      BY <2>4, <2>6
    <3> QED BY <2>1, <3>1, InvManualThread
  <2> QED BY <2>5, <2>6
<1> QED BY <1>1, <1>2, <1>3

LEMMA InvNext ==
  ASSUME Inv, [Next]_vars
  PROVE  Inv'
<1>1. CASE UNCHANGED vars
  <2>1. UNCHANGED <<scenario, memVars, version, seekFile, compactPointer, snapshots,
                    compaction, bgError, manual, manuals>>
    BY <1>1 DEF vars, manualVars
  <2>2. /\ seekFile' \subseteq [level : 0 .. NumLevels - 2, file : File]
        /\ manual' \in {NoManual} \cup ManualType /\ manuals' \in Nat
    BY <2>1 DEF Inv, TypeOK
  <2>3. \A p \in seekFile' : p.file \in version[p.level]
    BY <2>1 DEF Inv, InputsInVersion
  <2>4. compaction.running /\ compaction.manual => manual'.pc = "level"
    BY <2>1 DEF Inv, RunningOK
  <2> QED BY <2>1, <2>2, <2>3, <2>4, InvFrame
<1>2. CASE Next
  <2>1. Step /\ UNCHANGED scenario
    BY <1>2 DEF Next
  <2>2. ASSUME NEW k \in Keys, NEW t \in {"value", "deletion"}, Write(k, t) PROVE Inv'
    BY <2>1, <2>2, InvWrite
  <2>3. CASE MakeRoomForWrite
    <3>1. SwitchMemTable /\ manual' = manual
      BY <2>3 DEF MakeRoomForWrite
    <3> QED BY <2>1, <3>1, InvSwitch DEF Inv, TypeOK, RunningOK
  <2>4. CASE GetSnapshot \/ ReleaseSnapshot
    BY <2>1, <2>4, InvSnapshots
  <2>5. ASSUME NEW k \in Keys, NEW s \in 0 .. lastSequence, UpdateStats(k, s) PROVE Inv'
    BY <2>1, <2>5, InvUpdateStats
  <2>6. CASE CompactMemTable
    BY <2>1, <2>6, InvCompactMemTable
  <2>7. CASE BackgroundCompaction
    BY <2>1, <2>7, InvBackgroundCompaction
  <2>8. CASE ManualCompaction
    BY <2>1, <2>8, InvManualCompaction
  <2>9. CASE DoCompactionWork
    BY <2>1, <2>9, InvDoCompactionWork
  <2>10. ASSUME NEW r \in scenario.ranges, CompactRange(r.begin, r.end) PROVE Inv'
    BY <2>1, <2>10, InvCompactRange
  <2>11. CASE ManualSwitch
    BY <2>1, <2>11, InvManualSwitch
  <2>12. CASE ManualWait \/ ManualPost \/ ManualNextLevel
    BY <2>1, <2>12, InvManualSteps
  <2> QED BY <2>1, <2>2, <2>3, <2>4, <2>5, <2>6, <2>7, <2>8, <2>9, <2>10, <2>11,
             <2>12 DEF Step
<1> QED BY <1>1, <1>2

(* The invariant of all behaviours: sequence numbers, the bounds of files, *)
(* the single place of every entry, the order of snapshots and what holds  *)
(* of a compaction while writes, snapshots and flushes go on beside it.    *)
THEOREM AlwaysInv == Spec => []Inv
<1>1. Init => Inv
  BY InvInit
<1>2. Inv /\ [Next]_vars => Inv'
  BY InvNext
<1> QED BY <1>1, <1>2, PTL DEF Spec

(* Every variable has its type; files are never empty, and no compaction   *)
(* takes files of the last level, whatever Finalize, UpdateStats and       *)
(* CompactRange ask for.                                                   *)
THEOREM LSMTypeCorrect == Spec => []TypeOK
<1>1. Inv => TypeOK
  BY DEF Inv
<1> QED BY <1>1, AlwaysInv, PTL

(* The inputs of the running compaction stay in the current version until  *)
(* InstallCompactionResults replaces them, and a file charged for seeks is *)
(* in the level that PickCompaction will look for it in.                   *)
THEOREM InputsStay == Spec => []InputsInVersion
<1>1. Inv => InputsInVersion
  BY DEF Inv
<1> QED BY <1>1, AlwaysInv, PTL
-----------------------------------------------------------------------------
(* The order of the files of a sorted level.                               *)

LEMMA PrecedesFacts ==
  ASSUME TablesOK, NEW l \in Levels, NEW m \in Levels,
         NEW f \in version[l], NEW g \in version[m], Precedes(f, g)
  PROVE  /\ Largest(f).key <= Smallest(g).key
         /\ Before(Smallest(f), Smallest(g)) /\ Before(Largest(f), Largest(g))
         /\ ~Precedes(g, f) /\ f # g
         /\ \A a \in f.ents, b \in g.ents : Before(a, b)
<1>1. /\ Smallest(f) \in Entry /\ Largest(f) \in Entry
      /\ Smallest(g) \in Entry /\ Largest(g) \in Entry
      /\ Smallest(f) \in f.ents /\ Largest(f) \in f.ents
      /\ Smallest(g) \in g.ents /\ Largest(g) \in g.ents
  BY FileFacts
<1>2. Before(Largest(f), Smallest(g))
  BY DEF Precedes
<1>3. Largest(f).key <= Smallest(g).key
  BY <1>1, <1>2, EntryType DEF Before
<1>4. \A a \in f.ents, b \in g.ents : Before(a, b)
  <2> TAKE a \in f.ents, b \in g.ents
  <2>1. a \in Entry /\ (a = Largest(f) \/ Before(a, Largest(f)))
    BY FileBounds
  <2>2. b \in Entry /\ (b = Smallest(g) \/ Before(Smallest(g), b))
    BY FileBounds
  <2> QED BY <1>1, <1>2, <2>1, <2>2, BeforeTransitive
<1>5. Before(Smallest(f), Smallest(g)) /\ Before(Largest(f), Largest(g))
      /\ Before(Smallest(f), Largest(g))
  BY <1>1, <1>4
<1>6. ~Precedes(g, f)
  BY <1>1, <1>5, BeforeAsymmetric DEF Precedes
<1>7. f # g
  BY <1>1, <1>5, BeforeIrreflexive
<1> QED BY <1>3, <1>4, <1>5, <1>6, <1>7

LEMMA PrecedesTransitive ==
  ASSUME TablesOK, NEW l \in Levels, NEW f \in version[l], NEW g \in version[l],
         NEW h \in version[l], Precedes(f, g), Precedes(g, h)
  PROVE  Precedes(f, h)
<1>1. /\ Largest(f) \in Entry /\ Smallest(g) \in Entry /\ Largest(g) \in Entry
      /\ Smallest(h) \in Entry
  BY FileFacts
<1>2. Before(Largest(f), Largest(g)) /\ Before(Largest(g), Smallest(h))
  BY PrecedesFacts DEF Precedes
<1> QED BY <1>1, <1>2, BeforeTransitive DEF Precedes

LEMMA LevelTotal ==
  ASSUME LevelsDisjoint, NEW l \in Levels, l > 0, NEW f \in version[l], NEW g \in version[l]
  PROVE  f = g \/ Precedes(f, g) \/ Precedes(g, f)
<1>1. l \in 1 .. NumLevels - 1
  BY LevelFacts
<1> QED BY <1>1 DEF LevelsDisjoint, Precedes

LEMMA KeyOrder ==
  ASSUME TablesOK, LevelsDisjoint, NEW l \in Levels, l > 0,
         NEW f \in version[l], NEW g \in version[l]
  PROVE  /\ Before(Smallest(f), Smallest(g)) => Precedes(f, g)
         /\ Largest(f).key < Smallest(g).key => Precedes(f, g)
<1>1. Smallest(f) \in Entry /\ Smallest(g) \in Entry /\ Largest(f) \in Entry
  BY FileFacts
<1>2. ASSUME Before(Smallest(f), Smallest(g)) PROVE Precedes(f, g)
  BY <1>1, <1>2, LevelTotal, PrecedesFacts, BeforeAsymmetric
<1>3. ASSUME Largest(f).key < Smallest(g).key PROVE Precedes(f, g)
  BY <1>1, <1>3, EntryType DEF Precedes, Before
<1> QED BY <1>2, <1>3

(* Files between two files of the set are in the set.                      *)
Contiguous(l, F) ==
  \A f, h \in F : \A g \in version[l] : Precedes(f, g) /\ Precedes(g, h) => g \in F

(* A file that is not in the set lies before it, or after it and shares no *)
(* user key with it.                                                       *)
Block(l, B) ==
  \A g \in version[l] \ B :
    \/ \A f \in B : Precedes(g, f)
    \/ \A f \in B : Largest(f).key < Smallest(g).key

LEMMA OverlapContiguous ==
  ASSUME TablesOK, NEW l \in Levels, l > 0, NEW b \in Nat, NEW e \in Nat
  PROVE  Contiguous(l, GetOverlappingInputs(l, b, e))
<1> SUFFICES ASSUME NEW f \in GetOverlappingInputs(l, b, e),
                    NEW h \in GetOverlappingInputs(l, b, e), NEW g \in version[l],
                    Precedes(f, g), Precedes(g, h)
             PROVE  g \in GetOverlappingInputs(l, b, e)
  BY DEF Contiguous
<1>1. f \in version[l] /\ h \in version[l] /\ Meets(f, b, e) /\ Meets(h, b, e)
  BY OverlapBelow
<1>2. Largest(f).key <= Smallest(g).key /\ Largest(g).key <= Smallest(h).key
  BY <1>1, PrecedesFacts
<1>3. /\ Smallest(g).key \in Nat /\ Largest(g).key \in Nat
      /\ Smallest(g).key <= Largest(g).key
      /\ Smallest(h).key \in Nat /\ Largest(f).key \in Nat
  BY <1>1, FileKeys
<1>4. Meets(g, b, e)
  BY <1>1, <1>2, <1>3 DEF Meets
<1> QED BY <1>4, OverlapBelow

LEMMA BoundaryContiguous ==
  ASSUME TablesOK, LevelsDisjoint, NEW l \in Levels, l > 0, NEW F, NEW B,
         BoundaryOK(l, F, B), Contiguous(l, F)
  PROVE  Contiguous(l, B)
<1> SUFFICES ASSUME NEW f \in B, NEW h \in B, NEW g \in version[l],
                    Precedes(f, g), Precedes(g, h), g \notin B
             PROVE  FALSE
  BY DEF Contiguous
<1>1. /\ F \subseteq B /\ B \subseteq version[l]
      /\ \A y \in B : y \in F \/ Added(l, F, B, y)
  BY DEF BoundaryOK
<1>2. PICK Y : Y = {y \in B : Precedes(g, y)}
  OBVIOUS
<1>3. Y \in SUBSET version[l] /\ Y # {}
  BY <1>1, <1>2
<1>4. PICK y \in Y : \A z \in Y : z = y \/ Before(Smallest(y), Smallest(z))
  BY <1>3, FirstFileIs
<1>5. y \in B /\ y \in version[l] /\ Precedes(g, y) /\ f \in version[l]
  BY <1>1, <1>2
<1>6. y \notin F
  <2> SUFFICES ASSUME y \in F PROVE FALSE
    OBVIOUS
  <2>1. CASE f \in F
    BY <1>1, <1>5, <2>1 DEF Contiguous
  <2>2. CASE f \notin F
    <3>1. Precedes(y, f)
      BY <1>1, <2>2 DEF Added
    <3>2. Precedes(y, g)
      BY <1>5, <3>1, PrecedesTransitive
    <3> QED BY <1>5, <3>2, PrecedesFacts
  <2> QED BY <2>1, <2>2
<1>7. PICK x \in B : /\ Precedes(x, y) /\ Largest(x).key = Smallest(y).key
                     /\ \A u \in version[l] :
                          Precedes(x, u) /\ Smallest(u).key = Smallest(y).key
                            => u = y \/ Before(Smallest(y), Smallest(u))
  BY <1>1, <1>5, <1>6 DEF Added
<1>8. x \in version[l] /\ x # g
  BY <1>1
<1>9. ~Precedes(g, x)
  <2> SUFFICES ASSUME Precedes(g, x) PROVE FALSE
    OBVIOUS
  <2>1. x \in Y
    BY <1>2
  <2>2. x = y \/ Before(Smallest(y), Smallest(x))
    BY <1>4, <2>1
  <2>3. x # y /\ Before(Smallest(x), Smallest(y))
    BY <1>5, <1>7, <1>8, PrecedesFacts
  <2>4. Smallest(x) \in Entry /\ Smallest(y) \in Entry
    BY <1>5, <1>8, FileFacts
  <2> QED BY <2>2, <2>3, <2>4, BeforeAsymmetric
<1>10. Precedes(x, g)
  BY <1>8, <1>9, LevelTotal
<1>11. Smallest(g).key = Smallest(y).key
  <2>1. Largest(x).key <= Smallest(g).key /\ Largest(g).key <= Smallest(y).key
    BY <1>5, <1>8, <1>10, PrecedesFacts
  <2>2. /\ Smallest(g).key \in Nat /\ Largest(g).key \in Nat
        /\ Smallest(g).key <= Largest(g).key /\ Smallest(y).key \in Nat
    BY <1>5, FileKeys
  <2> QED BY <1>7, <2>1, <2>2
<1>12. g = y \/ Before(Smallest(y), Smallest(g))
  BY <1>7, <1>10, <1>11
<1>13. g # y /\ Before(Smallest(g), Smallest(y))
  BY <1>5, PrecedesFacts
<1>14. Smallest(g) \in Entry /\ Smallest(y) \in Entry
  BY <1>5, FileFacts
<1> QED BY <1>12, <1>13, <1>14, BeforeAsymmetric

LEMMA BoundaryBlock ==
  ASSUME TablesOK, LevelsDisjoint, NEW l \in Levels, l > 0,
         NEW F \in SUBSET version[l], Contiguous(l, F)
  PROVE  Block(l, AddBoundaryInputs(l, F))
<1>1. CASE F = {}
  BY <1>1, BoundaryEmpty DEF Block
<1>2. CASE F # {}
  <2>1. PICK B : B = AddBoundaryInputs(l, F)
    OBVIOUS
  <2>2. BoundaryOK(l, F, B)
    BY <1>2, <2>1, BoundaryFacts
  <2>3. Contiguous(l, B)
    BY <2>2, BoundaryContiguous
  <2>4. B \subseteq version[l]
    BY <2>2 DEF BoundaryOK
  <2>5. PICK x \in B :
          /\ \A f \in B : Largest(f) = Largest(x) \/ Before(Largest(f), Largest(x))
          /\ Boundary(l, Largest(x)) = {}
    BY <2>2 DEF BoundaryOK
  <2>6. ASSUME NEW g \in version[l] \ B
        PROVE  \/ \A f \in B : Precedes(g, f)
               \/ \A f \in B : Largest(f).key < Smallest(g).key
    <3>1. CASE \E f \in B : ~Precedes(g, f)
      <4>1. PICK f \in B : ~Precedes(g, f)
        BY <3>1
      <4>2. Precedes(f, g)
        BY <2>4, <2>6, <4>1, LevelTotal
      <4>3. Precedes(x, g)
        <5>1. ~Precedes(g, x)
          BY <2>3, <2>6, <4>2 DEF Contiguous
        <5> QED BY <2>4, <2>6, <5>1, LevelTotal
      <4>4. Smallest(g).key # Largest(x).key
        BY <2>5, <2>6, <4>3 DEF Boundary, Precedes
      <4>5. Largest(x).key <= Smallest(g).key
        BY <2>4, <2>6, <4>3, PrecedesFacts
      <4>6. \A u \in B : Largest(u).key <= Largest(x).key
        <5> TAKE u \in B
        <5>1. Largest(u) \in Entry /\ Largest(x) \in Entry
          BY <2>4, FileFacts
        <5>2. Largest(u) = Largest(x) \/ Before(Largest(u), Largest(x))
          BY <2>5
        <5> QED BY <5>1, <5>2, EntryType DEF Before
      <4>7. \A u \in B : Largest(u).key \in Nat
        BY <2>4, FileKeys
      <4>8. Smallest(g).key \in Nat
        BY <2>6, FileKeys
      <4> QED BY <4>4, <4>5, <4>6, <4>7, <4>8
    <3> QED BY <3>1
  <2> QED BY <2>1, <2>6 DEF Block
<1> QED BY <1>1, <1>2
(* At level 0 the files that overlap the range share no user key with the  *)
(* others, and there are no boundary files to add.                         *)
LEMMA ZeroClosed ==
  ASSUME TablesOK, NEW b \in Nat, NEW e \in Nat, NEW F, F = GetOverlappingInputs(0, b, e)
  PROVE  /\ AddBoundaryInputs(0, F) = F
         /\ \A g \in version[0] \ F : \A f \in F :
              ~Meets(g, Smallest(f).key, Largest(f).key)
<1>1. 0 \in Levels /\ F \in SUBSET version[0]
  BY LevelFacts, OverlapSubset
<1>2. \A g \in version[0] \ F : \A f \in F : ~Meets(g, Smallest(f).key, Largest(f).key)
  BY OverlapZero
<1>3. CASE F = {}
  BY <1>2, <1>3, BoundaryEmpty
<1>4. CASE F # {}
  <2>1. PICK B : B = AddBoundaryInputs(0, F)
    OBVIOUS
  <2>2. BoundaryOK(0, F, B)
    BY <1>1, <1>4, <2>1, BoundaryFacts
  <2>3. /\ F \subseteq B /\ B \subseteq version[0]
        /\ \A y \in B : y \in F \/ Added(0, F, B, y)
    BY <2>2 DEF BoundaryOK
  <2>4. SUFFICES ASSUME B \ F # {} PROVE FALSE
    BY <1>2, <2>1, <2>3
  <2>5. B \ F \in SUBSET version[0]
    BY <2>3
  <2>6. PICK y \in B \ F : \A z \in B \ F : z = y \/ Before(Smallest(y), Smallest(z))
    <3>1. PICK D : D = B \ F
      OBVIOUS
    <3>2. D \in SUBSET version[0] /\ D # {}
      BY <2>4, <2>5, <3>1
    <3>3. \E y \in D : \A z \in D : z = y \/ Before(Smallest(y), Smallest(z))
      BY <1>1, <3>2, FirstFileIs
    <3> QED BY <3>1, <3>3
  <2>7. PICK x \in B : Precedes(x, y) /\ Largest(x).key = Smallest(y).key
    BY <2>3, <2>6 DEF Added
  <2>8. x \in version[0] /\ y \in version[0]
    BY <2>3, <2>6
  <2>9. x \in F
    <3> SUFFICES ASSUME x \notin F PROVE FALSE
      OBVIOUS
    <3>1. x = y \/ Before(Smallest(y), Smallest(x))
      BY <2>6
    <3>2. x # y /\ Before(Smallest(x), Smallest(y))
      BY <1>1, <2>7, <2>8, PrecedesFacts
    <3>3. Smallest(x) \in Entry /\ Smallest(y) \in Entry
      BY <1>1, <2>8, FileFacts
    <3> QED BY <3>1, <3>2, <3>3, BeforeAsymmetric
  <2>10. Meets(y, Smallest(x).key, Largest(x).key)
    <3>1. /\ Smallest(y).key \in Nat /\ Largest(y).key \in Nat
          /\ Smallest(y).key <= Largest(y).key
          /\ Smallest(x).key \in Nat /\ Largest(x).key \in Nat
          /\ Smallest(x).key <= Largest(x).key
      BY <1>1, <2>8, FileKeys
    <3> QED BY <2>7, <3>1 DEF Meets
  <2> QED BY <1>2, <2>6, <2>8, <2>9, <2>10
<1> QED BY <1>3, <1>4

(* What is left of the level of a key that the files have is newer.        *)
Apart(l, F) ==
  \A g \in version[l] \ F : \A d \in g.ents : \A e \in Entries(F) :
    d.key = e.key => e.seq < d.seq

LEMMA NewerLevels ==
  ASSUME NewerAbove, NEW l \in Levels, NEW m \in Levels, l < m,
         NEW f \in version[l], NEW g \in version[m],
         NEW d \in f.ents, NEW e \in g.ents, d.key = e.key
  PROVE  e.seq < d.seq
<1>1. d \in Entries(version[l]) /\ e \in Entries(version[m])
  BY DEF Entries
<1>2. \A a \in Entries(version[l]), b \in Entries(version[m]) :
        a.key = b.key => a.seq > b.seq
  BY DEF NewerAbove
<1> QED BY <1>1, <1>2

LEMMA BesideNewer ==
  ASSUME TablesOK, NEW l \in Levels, NEW m \in Levels, NEW g \in version[l],
         NEW f \in version[m], Precedes(g, f) \/ Largest(f).key < Smallest(g).key,
         NEW d \in g.ents, NEW e \in f.ents, d.key = e.key
  PROVE  e.seq < d.seq
<1>1. d \in Entry /\ e \in Entry
  BY FileBounds
<1>2. CASE Precedes(g, f)
  BY <1>1, <1>2, PrecedesFacts, EntryType DEF Before
<1>3. CASE Largest(f).key < Smallest(g).key
  <2>1. Smallest(g).key <= d.key /\ e.key <= Largest(f).key
    BY FileBounds
  <2>2. Smallest(g).key \in Nat /\ Largest(f).key \in Nat
    BY FileKeys
  <2> QED BY <1>1, <1>3, <2>1, <2>2, EntryType
<1> QED BY <1>2, <1>3

LEMMA BlockApart ==
  ASSUME TablesOK, NEW l \in Levels, NEW F \in SUBSET version[l],
         \/ Block(l, F)
         \/ \A g \in version[l] \ F : \A f \in F :
              ~Meets(g, Smallest(f).key, Largest(f).key)
  PROVE  Apart(l, F)
<1> SUFFICES ASSUME NEW g \in version[l] \ F, NEW d \in g.ents, NEW e \in Entries(F),
                    d.key = e.key
             PROVE  e.seq < d.seq
  BY DEF Apart
<1>1. PICK f \in F : e \in f.ents
  BY DEF Entries
<1>2. f \in version[l] /\ g \in version[l]
  OBVIOUS
<1>3. CASE Block(l, F)
  <2>1. Precedes(g, f) \/ Largest(f).key < Smallest(g).key
    BY <1>3 DEF Block
  <2> QED BY <1>1, <1>2, <2>1, BesideNewer
<1>4. CASE ~Meets(g, Smallest(f).key, Largest(f).key)
  <2>1. /\ Smallest(g).key <= d.key /\ d.key <= Largest(g).key
        /\ Smallest(f).key <= e.key /\ e.key <= Largest(f).key
        /\ d \in Entry
    BY <1>1, <1>2, FileBounds
  <2>2. /\ Smallest(g).key \in Nat /\ Largest(g).key \in Nat
        /\ Smallest(f).key \in Nat /\ Largest(f).key \in Nat
    BY <1>2, FileKeys
  <2> QED BY <1>4, <2>1, <2>2, EntryType DEF Meets
<1> QED BY <1>3, <1>4

(* The inputs of both levels lie together in the lower one, and what is    *)
(* left of either level is newer.                                          *)
Separated(l, in0, in1) ==
  /\ \A g \in version[l + 1] \ in1 : \/ \A f \in in0 \cup in1 : Precedes(g, f)
                                     \/ \A f \in in0 \cup in1 : Precedes(f, g)
  /\ \A g \in (version[l] \ in0) \cup (version[l + 1] \ in1) : \A d \in g.ents :
       \A e \in Entries(in0 \cup in1) : d.key = e.key => e.seq < d.seq

LEMMA NextInputsIs ==
  ASSUME TablesOK, NEW l \in LowLevel, NEW F \in SUBSET version[l], F # {}
  PROVE  \E b \in Nat, e \in Nat :
           /\ b = RangeOf(F).b /\ e = RangeOf(F).e
           /\ NextInputs(l, F) = AddBoundaryInputs(l + 1, GetOverlappingInputs(l + 1, b, e))
           /\ \A f \in F : b <= Smallest(f).key /\ Largest(f).key <= e
           /\ \E f \in F : b = Smallest(f).key
           /\ \E f \in F : e = Largest(f).key
<1>1. PICK b, e : b = RangeOf(F).b /\ e = RangeOf(F).e
  OBVIOUS
<1>2. F \in SUBSET AllFiles
  BY LevelFacts, AllFilesIs
<1>3. /\ b \in Nat /\ e \in Nat
      /\ \A f \in F : b <= Smallest(f).key /\ Largest(f).key <= e
      /\ \E f \in F : b = Smallest(f).key
      /\ \E f \in F : e = Largest(f).key
  BY <1>1, <1>2, RangeOfIs
<1>4. NextInputs(l, F) = AddBoundaryInputs(l + 1, GetOverlappingInputs(l + 1, b, e))
  BY <1>1 DEF NextInputs
<1> QED BY <1>1, <1>3, <1>4

LEMMA InputsSeparated ==
  ASSUME TablesOK, LevelsDisjoint, NewerAbove, NEW l \in LowLevel,
         NEW F \in SUBSET version[l], F # {}, Apart(l, F),
         NEW N, N = NextInputs(l, F)
  PROVE  Separated(l, F, N)
<1>0. l \in Levels /\ l + 1 \in Levels /\ l + 1 > 0 /\ l < l + 1
  BY LevelFacts
<1>1. PICK b \in Nat, e \in Nat :
        /\ N = AddBoundaryInputs(l + 1, GetOverlappingInputs(l + 1, b, e))
        /\ \A f \in F : b <= Smallest(f).key /\ Largest(f).key <= e
  BY NextInputsIs
<1>2. PICK G : G = GetOverlappingInputs(l + 1, b, e)
  OBVIOUS
<1>3. G \in SUBSET version[l + 1] /\ Contiguous(l + 1, G)
  BY <1>0, <1>2, OverlapSubset, OverlapContiguous
<1>4. Block(l + 1, N) /\ N \in SUBSET version[l + 1] /\ G \subseteq N
  BY <1>0, <1>1, <1>2, <1>3, BoundaryBlock, BoundarySubset
<1>5. N # {} => G # {}
  BY <1>1, <1>2, BoundaryEmpty
<1>6. ASSUME NEW g \in version[l + 1] \ N
      PROVE  \/ \A f \in F \cup N : Precedes(g, f)
             \/ \A f \in F \cup N : Largest(f).key < Smallest(g).key
  <2>1. ~Meets(g, b, e)
    BY <1>0, <1>2, <1>4, <1>6, OverlapBelow
  <2>2. /\ Smallest(g).key \in Nat /\ Largest(g).key \in Nat
        /\ Smallest(g).key <= Largest(g).key
    BY <1>0, <1>6, FileKeys
  <2>3. \A f \in F : Smallest(f).key \in Nat /\ Largest(f).key \in Nat
    BY <1>0, FileKeys
  <2>4. \A f \in G : /\ Smallest(f).key \in Nat /\ Largest(f).key \in Nat
                     /\ b <= Largest(f).key /\ Smallest(f).key <= e
    BY <1>0, <1>2, <1>3, FileKeys, OverlapBelow DEF Meets
  <2>5. CASE Largest(g).key < b
    <3>1. \A f \in F : Precedes(g, f)
      BY <1>1, <2>2, <2>3, <2>5 DEF Precedes, Before
    <3>2. \A f \in N : Precedes(g, f)
      <4> SUFFICES ASSUME \A f \in N : Largest(f).key < Smallest(g).key, N # {}
                   PROVE  FALSE
        BY <1>4, <1>6 DEF Block
      <4>1. PICK f \in G : TRUE
        BY <1>5
      <4>2. Largest(f).key < Smallest(g).key /\ b <= Largest(f).key /\ Largest(f).key \in Nat
        BY <1>4, <2>4
      <4> QED BY <2>2, <2>5, <4>2
    <3> QED BY <3>1, <3>2
  <2>6. CASE e < Smallest(g).key
    <3>1. \A f \in F : Largest(f).key < Smallest(g).key
      BY <1>1, <2>2, <2>3, <2>6
    <3>2. \A f \in N : Largest(f).key < Smallest(g).key
      <4> SUFFICES ASSUME \A f \in N : Precedes(g, f), N # {}
                   PROVE  FALSE
        BY <1>4, <1>6 DEF Block
      <4>1. PICK f \in G : TRUE
        BY <1>5
      <4>2. f \in version[l + 1] /\ Precedes(g, f)
        BY <1>3, <1>4, <4>1
      <4>3. Largest(g).key <= Smallest(f).key
        BY <1>0, <1>6, <4>2, PrecedesFacts
      <4>4. Smallest(f).key <= e /\ Smallest(f).key \in Nat
        BY <2>4
      <4> QED BY <2>2, <2>6, <4>3, <4>4
    <3> QED BY <3>1, <3>2
  <2> QED BY <2>1, <2>2, <2>5, <2>6 DEF Meets
<1>7. \A f \in F \cup N : \E m \in Levels : f \in version[m]
  BY <1>0, <1>4
<1>8. ASSUME NEW g \in version[l + 1] \ N
      PROVE  \/ \A f \in F \cup N : Precedes(g, f)
             \/ \A f \in F \cup N : Precedes(f, g)
  <2>1. CASE \A f \in F \cup N : Largest(f).key < Smallest(g).key
    BY <2>1 DEF Precedes, Before
  <2> QED BY <1>6, <1>8, <2>1
<1>9. ASSUME NEW g \in (version[l] \ F) \cup (version[l + 1] \ N), NEW d \in g.ents,
             NEW x \in Entries(F \cup N), d.key = x.key
      PROVE  x.seq < d.seq
  <2>1. PICK f \in F \cup N : x \in f.ents
    BY DEF Entries
  <2>2. CASE g \in version[l + 1] \ N
    <3>1. Precedes(g, f) \/ Largest(f).key < Smallest(g).key
      BY <1>6, <2>2
    <3> QED BY <1>0, <1>7, <1>9, <2>1, <2>2, <3>1, BesideNewer
  <2>3. CASE g \in version[l] \ F /\ f \in F
    <3>1. x \in Entries(F)
      BY <2>1, <2>3 DEF Entries
    <3> QED BY <1>9, <2>3, <3>1 DEF Apart
  <2>4. CASE g \in version[l] \ F /\ f \in N
    BY <1>0, <1>4, <1>9, <2>1, <2>4, NewerLevels
  <2> QED BY <1>9, <2>2, <2>3, <2>4
<1> QED BY <1>8, <1>9 DEF Separated
(* Boundary files lie on the same side of a user key that none of them has *)
(* as the files they are added to.                                         *)
LEMMA BoundarySide ==
  ASSUME TablesOK, NEW l \in Levels, NEW F \in SUBSET version[l],
         NEW B, B = AddBoundaryInputs(l, F),
         NEW k \in Nat, \A f \in B : ~Meets(f, k, k)
  PROVE  /\ (\A f \in F : Largest(f).key < k) => \A f \in B : Largest(f).key < k
         /\ (\A f \in F : k < Smallest(f).key) => \A f \in B : k < Smallest(f).key
<1>1. CASE F = {}
  BY <1>1, BoundaryEmpty
<1>2. CASE F # {}
  <2>1. BoundaryOK(l, F, B)
    BY <1>2, BoundaryFacts
  <2>2. /\ F \subseteq B /\ B \subseteq version[l]
        /\ \A y \in B : y \in F \/ Added(l, F, B, y)
    BY <2>1 DEF BoundaryOK
  <2>3. \A f \in B : /\ Smallest(f).key \in Nat /\ Largest(f).key \in Nat
                     /\ Smallest(f).key <= Largest(f).key
                     /\ Largest(f).key < k \/ k < Smallest(f).key
    <3> TAKE f \in B
    <3>1. /\ Smallest(f).key \in Nat /\ Largest(f).key \in Nat
          /\ Smallest(f).key <= Largest(f).key
      BY <2>2, FileKeys
    <3> QED BY <3>1 DEF Meets
  <2>4. ASSUME \A f \in F : Largest(f).key < k
        PROVE  \A f \in B : Largest(f).key < k
    <3>1. PICK Y : Y = {y \in B : ~(Largest(y).key < k)}
      OBVIOUS
    <3>2. SUFFICES ASSUME Y # {} PROVE FALSE
      BY <3>1
    <3>3. Y \in SUBSET version[l]
      BY <2>2, <3>1
    <3>4. PICK y \in Y : \A z \in Y : z = y \/ Before(Smallest(y), Smallest(z))
      BY <3>2, <3>3, FirstFileIs
    <3>5. y \in B /\ y \notin F /\ k < Smallest(y).key
      BY <2>3, <2>4, <3>1
    <3>6. PICK x \in B : Precedes(x, y) /\ Largest(x).key = Smallest(y).key
      BY <2>2, <3>5 DEF Added
    <3>7. x \in Y
      BY <2>3, <3>1, <3>5, <3>6
    <3>8. x # y /\ Before(Smallest(x), Smallest(y))
      BY <2>2, <3>5, <3>6, PrecedesFacts
    <3>9. Smallest(x) \in Entry /\ Smallest(y) \in Entry
      BY <2>2, <3>5, FileFacts
    <3>10. Before(Smallest(y), Smallest(x))
      BY <3>4, <3>7, <3>8
    <3> QED BY <3>8, <3>9, <3>10, BeforeAsymmetric
  <2>5. ASSUME \A f \in F : k < Smallest(f).key
        PROVE  \A f \in B : k < Smallest(f).key
    <3> SUFFICES ASSUME NEW y \in B, y \notin F PROVE k < Smallest(y).key
      BY <2>5
    <3>1. PICK f \in F : TRUE
      BY <1>2
    <3>2. Precedes(f, y)
      BY <2>2 DEF Added
    <3>3. Largest(f).key <= Smallest(y).key
      BY <2>2, <3>2, PrecedesFacts
    <3> QED BY <2>2, <2>3, <2>5, <3>3
  <2> QED BY <2>4, <2>5
<1> QED BY <1>1, <1>2

(* The side of the files that overlap a range, likewise.                   *)
LEMMA OverlapSide ==
  ASSUME TablesOK, NEW l \in Levels, NEW b \in Nat, NEW e \in Nat,
         NEW B, B = AddBoundaryInputs(l, GetOverlappingInputs(l, b, e)),
         NEW k \in Nat, \A f \in B : ~Meets(f, k, k)
  PROVE  /\ e < k => \A f \in B : Largest(f).key < k
         /\ k < b => \A f \in B : k < Smallest(f).key
<1>1. PICK G : G = GetOverlappingInputs(l, b, e)
  OBVIOUS
<1>2. G \in SUBSET version[l] /\ G \subseteq B
  BY <1>1, OverlapSubset, BoundarySubset
<1>3. \A f \in G : ~Meets(f, k, k)
  BY <1>2
<1>4. CASE l = 0
  BY <1>1, <1>3, <1>4, ZeroClosed, OverlapConnected
<1>5. CASE l # 0
  <2>1. \A f \in G : Meets(f, b, e)
    BY <1>1, <1>5, LevelFacts, OverlapBelow
  <2>2. \A f \in G : Smallest(f).key \in Nat /\ Largest(f).key \in Nat
    BY <1>2, FileKeys
  <2>3. e < k => \A f \in G : Largest(f).key < k
    BY <1>3, <2>1, <2>2 DEF Meets
  <2>4. k < b => \A f \in G : k < Smallest(f).key
    BY <1>3, <2>1, <2>2 DEF Meets
  <2> QED BY <1>1, <1>2, <2>3, <2>4, BoundarySide
<1> QED BY <1>4, <1>5

LEMMA KeysNat == \A k \in Keys : k \in Nat
BY LSMAssumption DEF Keys

LEMMA NextConnected ==
  ASSUME TablesOK, NEW l \in LowLevel, NEW F \in SUBSET version[l], F # {}, Connected(F)
  PROVE  Connected(F \cup NextInputs(l, F))
<1>0. l \in Levels /\ l + 1 \in Levels
  BY LevelFacts
<1>1. PICK b \in Nat, e \in Nat :
        /\ NextInputs(l, F) = AddBoundaryInputs(l + 1, GetOverlappingInputs(l + 1, b, e))
        /\ \E f \in F : b = Smallest(f).key
        /\ \E f \in F : e = Largest(f).key
  BY NextInputsIs
<1>2. PICK N : N = NextInputs(l, F)
  OBVIOUS
<1> SUFFICES ASSUME NEW k \in Keys, \A f \in F \cup N : ~Meets(f, k, k)
             PROVE  \/ \A f \in F \cup N : Largest(f).key < k
                    \/ \A f \in F \cup N : k < Smallest(f).key
  BY <1>2 DEF Connected
<1>3. k \in Nat
  BY KeysNat
<1>4. CASE \A f \in F : Largest(f).key < k
  <2>1. e < k
    BY <1>1, <1>4
  <2>2. \A f \in N : Largest(f).key < k
    BY <1>0, <1>1, <1>2, <1>3, <2>1, OverlapSide
  <2> QED BY <1>4, <2>2
<1>5. CASE \A f \in F : k < Smallest(f).key
  <2>1. k < b
    BY <1>1, <1>5
  <2>2. \A f \in N : k < Smallest(f).key
    BY <1>0, <1>1, <1>2, <1>3, <2>1, OverlapSide
  <2> QED BY <1>5, <2>2
<1> QED BY <1>4, <1>5 DEF Connected

LEMMA ExpandedConnected ==
  ASSUME TablesOK, NEW l \in LowLevel, NEW F \in SUBSET version[l], F # {},
         NEW N, N = NextInputs(l, F), Connected(F \cup N)
  PROVE  Connected(Expanded(l, F) \cup N)
<1>0. l \in Levels /\ l + 1 \in Levels /\ N \in SUBSET version[l + 1]
  BY LevelFacts, NextSubset
<1>1. PICK A : A = F \cup N
  OBVIOUS
<1>2. A \in SUBSET AllFiles /\ A # {}
  BY <1>0, <1>1, AllFilesIs
<1>3. PICK b, e : b = RangeOf(A).b /\ e = RangeOf(A).e
  OBVIOUS
<1>4. /\ b \in Nat /\ e \in Nat
      /\ \E f \in A : b = Smallest(f).key
      /\ \E f \in A : e = Largest(f).key
  BY <1>2, <1>3, RangeOfIs
<1>5. PICK X : X = Expanded(l, F)
  OBVIOUS
<1>6. X = AddBoundaryInputs(l, GetOverlappingInputs(l, b, e)) /\ F \subseteq X
  BY <1>1, <1>3, <1>5, ExpandedFacts DEF Expanded
<1> SUFFICES ASSUME NEW k \in Keys, \A f \in X \cup N : ~Meets(f, k, k)
             PROVE  \/ \A f \in X \cup N : Largest(f).key < k
                    \/ \A f \in X \cup N : k < Smallest(f).key
  BY <1>5 DEF Connected
<1>7. k \in Nat
  BY KeysNat
<1>8. CASE \A f \in A : Largest(f).key < k
  <2>1. e < k
    BY <1>4, <1>8
  <2>2. \A f \in X : Largest(f).key < k
    BY <1>0, <1>4, <1>6, <1>7, <2>1, OverlapSide
  <2> QED BY <1>1, <1>8, <2>2
<1>9. CASE \A f \in A : k < Smallest(f).key
  <2>1. k < b
    BY <1>4, <1>9
  <2>2. \A f \in X : k < Smallest(f).key
    BY <1>0, <1>4, <1>6, <1>7, <2>1, OverlapSide
  <2> QED BY <1>1, <1>9, <2>2
<1>10. \A f \in A : ~Meets(f, k, k)
  BY <1>1, <1>6
<1> QED BY <1>1, <1>8, <1>9, <1>10 DEF Connected

(* More files of a level take no less of the next.                         *)
LEMMA NextMonotone ==
  ASSUME TablesOK, LevelsDisjoint, NEW l \in LowLevel, NEW X \in SUBSET version[l],
         NEW F \in SUBSET X, F # {}
  PROVE  NextInputs(l, F) \subseteq NextInputs(l, X)
<1>0. l \in Levels /\ l + 1 \in Levels /\ l + 1 > 0
  BY LevelFacts
<1>1. PICK b \in Nat, e \in Nat :
        /\ NextInputs(l, F) = AddBoundaryInputs(l + 1, GetOverlappingInputs(l + 1, b, e))
        /\ \E f \in F : b = Smallest(f).key
        /\ \E f \in F : e = Largest(f).key
  BY NextInputsIs
<1>2. PICK b2 \in Nat, e2 \in Nat :
        /\ NextInputs(l, X) = AddBoundaryInputs(l + 1, GetOverlappingInputs(l + 1, b2, e2))
        /\ \A f \in X : b2 <= Smallest(f).key /\ Largest(f).key <= e2
  <2>1. X # {}
    OBVIOUS
  <2> QED BY <2>1, NextInputsIs
<1>3. b2 <= b /\ e <= e2
  BY <1>1, <1>2
<1>4. PICK G, G2, N, N2 : /\ G = GetOverlappingInputs(l + 1, b, e)
                          /\ G2 = GetOverlappingInputs(l + 1, b2, e2)
                          /\ N = NextInputs(l, F) /\ N2 = NextInputs(l, X)
  OBVIOUS
<1>5. G \in SUBSET version[l + 1] /\ G2 \in SUBSET version[l + 1]
  BY <1>0, <1>4, OverlapSubset
<1>6. G \subseteq G2
  <2> SUFFICES ASSUME NEW f \in G PROVE f \in G2
    OBVIOUS
  <2>1. f \in version[l + 1] /\ Meets(f, b, e)
    BY <1>0, <1>4, OverlapBelow
  <2>2. Smallest(f).key \in Nat /\ Largest(f).key \in Nat
    BY <1>0, <2>1, FileKeys
  <2>3. Meets(f, b2, e2)
    BY <1>3, <2>1, <2>2 DEF Meets
  <2> QED BY <1>0, <1>4, <2>1, <2>3, OverlapBelow
<1>7. G2 \subseteq N2 /\ N2 \in SUBSET version[l + 1] /\ Block(l + 1, N2)
  BY <1>0, <1>2, <1>4, <1>5, BoundarySubset, BoundaryBlock, OverlapContiguous
<1>8. CASE G = {}
  BY <1>1, <1>4, <1>8, BoundaryEmpty
<1>9. CASE G # {}
  <2>1. BoundaryOK(l + 1, G, N)
    BY <1>0, <1>1, <1>4, <1>5, <1>9, BoundaryFacts
  <2>2. /\ N \subseteq version[l + 1]
        /\ \A y \in N : y \in G \/ Added(l + 1, G, N, y)
    BY <2>1 DEF BoundaryOK
  <2>3. PICK Y : Y = N \ N2
    OBVIOUS
  <2>4. SUFFICES ASSUME Y # {} PROVE FALSE
    BY <1>4, <2>3
  <2>5. Y \in SUBSET version[l + 1]
    BY <2>2, <2>3
  <2>6. PICK y \in Y : \A z \in Y : z = y \/ Before(Smallest(y), Smallest(z))
    BY <1>0, <2>4, <2>5, FirstFileIs
  <2>7. y \in N /\ y \notin N2 /\ y \in version[l + 1] /\ y \notin G
    BY <1>6, <1>7, <2>3, <2>5
  <2>8. /\ \A f \in G : Precedes(f, y)
        /\ \E x \in N : Precedes(x, y) /\ Largest(x).key = Smallest(y).key
    BY <2>2, <2>7 DEF Added
  <2>9. \A f \in N2 : Largest(f).key < Smallest(y).key
    <3> SUFFICES ASSUME \A f \in N2 : Precedes(y, f) PROVE FALSE
      BY <1>7, <2>7 DEF Block
    <3>1. PICK f \in G : TRUE
      BY <1>9
    <3>2. Precedes(f, y) /\ Precedes(y, f) /\ f \in version[l + 1]
      BY <1>5, <1>6, <1>7, <2>8
    <3> QED BY <1>0, <2>7, <3>2, PrecedesFacts
  <2>10. PICK x \in N : Precedes(x, y) /\ Largest(x).key = Smallest(y).key
    BY <2>8
  <2>11. x \in version[l + 1] /\ Largest(x).key \in Nat
    BY <1>0, <2>2, FileKeys
  <2>12. x \in Y
    BY <2>3, <2>9, <2>10, <2>11
  <2>13. x # y /\ Before(Smallest(x), Smallest(y))
    BY <1>0, <2>7, <2>10, <2>11, PrecedesFacts
  <2>14. Smallest(x) \in Entry /\ Smallest(y) \in Entry
    BY <1>0, <2>7, <2>11, FileFacts
  <2> QED BY <2>6, <2>12, <2>13, <2>14, BeforeAsymmetric
<1> QED BY <1>8, <1>9
(* What SetupOtherInputs may be given: at level 0 all that overlaps some   *)
(* range, elsewhere files without others between them.                     *)
Pickable(l, P) ==
  /\ l = 0 => \E b \in Nat, e \in Nat : P = GetOverlappingInputs(0, b, e)
  /\ l # 0 => Contiguous(l, P)

LEMMA PickedApart ==
  ASSUME TablesOK, LevelsDisjoint, NEW l \in Levels, NEW P \in SUBSET version[l],
         Pickable(l, P)
  PROVE  Apart(l, AddBoundaryInputs(l, P))
<1>1. AddBoundaryInputs(l, P) \in SUBSET version[l]
  BY BoundarySubset
<1>2. CASE l = 0
  <2>1. PICK b \in Nat, e \in Nat : P = GetOverlappingInputs(0, b, e)
    BY <1>2 DEF Pickable
  <2>2. /\ AddBoundaryInputs(0, P) = P
        /\ \A g \in version[0] \ P : \A f \in P :
             ~Meets(g, Smallest(f).key, Largest(f).key)
    BY <2>1, ZeroClosed
  <2> QED BY <1>2, <2>2, BlockApart
<1>3. CASE l # 0
  <2>1. l > 0 /\ Contiguous(l, P)
    BY <1>3, LevelFacts DEF Pickable
  <2>2. Block(l, AddBoundaryInputs(l, P))
    BY <2>1, BoundaryBlock
  <2> QED BY <1>1, <2>2, BlockApart
<1> QED BY <1>2, <1>3

LEMMA OverlapPickable ==
  ASSUME TablesOK, NEW l \in Levels, NEW b \in Nat, NEW e \in Nat
  PROVE  Pickable(l, GetOverlappingInputs(l, b, e))
BY LevelFacts, OverlapContiguous DEF Pickable

LEMMA SetupOK ==
  ASSUME TablesOK, LevelsDisjoint, NewerAbove, NEW l \in LowLevel,
         NEW picked \in SUBSET version[l], picked # {}, Pickable(l, picked),
         NEW c, c = SetupOtherInputs(l, picked)
  PROVE  /\ Separated(l, c.in0, c.in1)
         /\ Connected(AddBoundaryInputs(l, picked)) => Connected(In(c))
<1>0. l \in Levels /\ l + 1 \in Levels
  BY LevelFacts
<1>1. PICK F, N : F = AddBoundaryInputs(l, picked) /\ N = NextInputs(l, F)
  OBVIOUS
<1>2. F \in SUBSET version[l] /\ F # {} /\ Apart(l, F)
  BY <1>0, <1>1, BoundarySubset, PickedApart
<1>3. Connected(F) => Connected(F \cup N)
  BY <1>1, <1>2, NextConnected
<1>4. CASE c = Inputs(l, F, N)
  <2>1. c.in0 = F /\ c.in1 = N
    BY <1>4 DEF Inputs
  <2>2. Separated(l, F, N)
    BY <1>1, <1>2, InputsSeparated
  <2> QED BY <1>1, <1>3, <2>1, <2>2 DEF In
<1>5. CASE /\ Cardinality(NextInputs(l, Expanded(l, F))) = Cardinality(N)
           /\ c = Inputs(l, Expanded(l, F), NextInputs(l, Expanded(l, F)))
  <2>1. PICK X, M : X = Expanded(l, F) /\ M = NextInputs(l, X)
    OBVIOUS
  <2>2. c.in0 = X /\ c.in1 = M
    BY <1>5, <2>1 DEF Inputs
  <2>3. X \in SUBSET version[l] /\ F \subseteq X /\ X # {}
    BY <1>2, <2>1, ExpandedFacts
  <2>4. Apart(l, X)
    <3>1. PICK A : A = F \cup N
      OBVIOUS
    <3>2. A \in SUBSET AllFiles /\ A # {}
      BY <1>0, <1>1, <1>2, <3>1, NextSubset, AllFilesIs
    <3>3. PICK b, e : b = RangeOf(A).b /\ e = RangeOf(A).e
      OBVIOUS
    <3>4. b \in Nat /\ e \in Nat
      BY <3>2, <3>3, RangeOfIs
    <3>5. X = AddBoundaryInputs(l, GetOverlappingInputs(l, b, e))
      BY <1>1, <2>1, <3>1, <3>3 DEF Expanded
    <3>6. /\ GetOverlappingInputs(l, b, e) \in SUBSET version[l]
          /\ Pickable(l, GetOverlappingInputs(l, b, e))
      BY <1>0, <3>4, OverlapSubset, OverlapPickable
    <3> QED BY <1>0, <3>5, <3>6, PickedApart
  <2>5. Separated(l, X, M)
    BY <2>1, <2>3, <2>4, InputsSeparated
  <2>6. M = N
    <3>1. N \subseteq M /\ M \in SUBSET version[l + 1]
      BY <1>1, <1>2, <2>1, <2>3, NextMonotone, NextSubset
    <3>2. IsFiniteSet(M)
      BY <1>0, <3>1, LevelFinite
    <3>3. Cardinality(M) = Cardinality(N)
      BY <1>5, <2>1
    <3> QED BY <3>1, <3>2, <3>3, FS_Subset
  <2>7. Connected(F) => Connected(X \cup M)
    BY <1>1, <1>2, <1>3, <2>1, <2>6, ExpandedConnected
  <2> QED BY <1>1, <2>2, <2>5, <2>7 DEF In
<1>6. \/ c = Inputs(l, F, N)
      \/ /\ Cardinality(NextInputs(l, Expanded(l, F))) = Cardinality(N)
         /\ c = Inputs(l, Expanded(l, F), NextInputs(l, Expanded(l, F)))
  BY <1>1, SetupCases
<1> QED BY <1>4, <1>5, <1>6

(* A compaction for size or seeks starts from one file, or at level 0 from *)
(* those that overlap it: its inputs have no gap.                          *)
LEMMA PickConnected ==
  ASSUME TypeOK, SeqsOK, FilesOK, InputsInVersion, NeedsCompaction,
         NEW p, p = PickStart
  PROVE  /\ Pickable(p.level, PickedFiles(p))
         /\ Connected(AddBoundaryInputs(p.level, PickedFiles(p)))
<1>0. TablesOK
  BY InvTables
<1>1. PICK l, f, P : l = p.level /\ f = p.file /\ P = PickedFiles(p)
  OBVIOUS
<1>2. /\ l \in LowLevel /\ f \in version[l] /\ P \in SUBSET version[l]
      /\ l \in Levels /\ l \in Nat
  BY <1>1, PickIs, LevelFacts
<1>3. PICK b, e : b = Smallest(f).key /\ e = Largest(f).key
  OBVIOUS
<1>4. b \in Nat /\ e \in Nat /\ b <= e
  BY <1>0, <1>2, <1>3, FileKeys
<1>5. CASE l = 0
  <2>1. P = GetOverlappingInputs(0, b, e)
    BY <1>1, <1>3, <1>5 DEF PickedFiles
  <2>2. AddBoundaryInputs(0, P) = P
    BY <1>0, <1>4, <2>1, ZeroClosed
  <2>3. f \in P
    <3>1. Meets(f, b, e)
      BY <1>3, <1>4 DEF Meets
    <3> QED BY <1>0, <1>2, <1>4, <1>5, <2>1, <3>1, OverlapZero
  <2>4. Connected(P)
    <3> SUFFICES ASSUME NEW k \in Keys, \A g \in P : ~Meets(g, k, k)
                 PROVE  (\A g \in P : Largest(g).key < k) \/ (\A g \in P : k < Smallest(g).key)
      BY DEF Connected
    <3>1. k \in Nat
      BY KeysNat
    <3>2. e < k \/ k < b
      BY <1>3, <1>4, <2>3, <3>1 DEF Meets
    <3> QED BY <1>0, <1>4, <2>1, <3>1, <3>2, OverlapConnected
  <2>5. Pickable(0, P)
    BY <1>0, <1>4, <2>1, LevelFacts, OverlapPickable
  <2> QED BY <1>1, <1>5, <2>2, <2>4, <2>5
<1>6. CASE l # 0
  <2>1. P = {f} /\ l > 0
    BY <1>1, <1>2, <1>6 DEF PickedFiles
  <2>2. Contiguous(l, P)
    <3> SUFFICES ASSUME NEW g \in version[l], Precedes(f, g), Precedes(g, f)
                 PROVE  FALSE
      BY <2>1 DEF Contiguous
    <3> QED BY <1>0, <1>2, PrecedesFacts
  <2>3. PICK B : B = AddBoundaryInputs(l, P)
    OBVIOUS
  <2>4. Connected(B)
    <3> SUFFICES ASSUME NEW k \in Keys, \A g \in B : ~Meets(g, k, k)
                 PROVE  (\A g \in B : Largest(g).key < k) \/ (\A g \in B : k < Smallest(g).key)
      BY DEF Connected
    <3>1. k \in Nat
      BY KeysNat
    <3>2. f \in B
      BY <1>0, <1>2, <2>1, <2>3, BoundarySubset
    <3>3. e < k \/ k < b
      BY <1>3, <1>4, <3>1, <3>2 DEF Meets
    <3>4. (\A g \in P : Largest(g).key < k) \/ (\A g \in P : k < Smallest(g).key)
      BY <1>3, <2>1, <3>3
    <3> QED BY <1>0, <1>2, <2>3, <3>1, <3>4, BoundarySide
  <2> QED BY <1>1, <1>6, <2>2, <2>3, <2>4 DEF Pickable
<1> QED BY <1>5, <1>6

(* CompactRange takes the files of a range from the first on, up to a      *)
(* size.                                                                   *)
LEMMA ManualPickable ==
  ASSUME TablesOK, LevelsDisjoint, NEW l \in LowLevel, NEW b \in Nat, NEW e \in Nat,
         TargetFileSize \in Nat
  PROVE  Pickable(l, ManualFiles(l, b, e))
<1>0. l \in Levels
  BY LevelFacts
<1>1. CASE l = 0
  <2>1. ManualFiles(l, b, e) = GetOverlappingInputs(l, b, e)
    BY <1>1 DEF ManualFiles
  <2> QED BY <1>0, <2>1, OverlapPickable
<1>2. CASE l # 0
  <2>0. l > 0
    BY <1>0, <1>2, LevelFacts
  <2>1. PICK G : G = GetOverlappingInputs(l, b, e)
    OBVIOUS
  <2>2. G \in SUBSET version[l] /\ Contiguous(l, G)
    BY <1>0, <2>0, <2>1, OverlapSubset, OverlapContiguous
  <2> DEFINE Upto(f) == {g \in G : BySmallestKey(g, f)}
  <2>3. \A f : f \in ManualFiles(l, b, e)
                 <=> f \in G /\ TotalFileSize(Upto(f)) < TargetFileSize
    BY <1>2, <2>1 DEF ManualFiles
  <2>4. ASSUME NEW f \in G, NEW g \in G, NEW h \in G, Precedes(g, h),
               TotalFileSize(Upto(h)) < TargetFileSize
        PROVE  TotalFileSize(Upto(g)) < TargetFileSize
    <3>1. Upto(g) \subseteq Upto(h)
      <4> SUFFICES ASSUME NEW x \in G, BySmallestKey(x, g) PROVE BySmallestKey(x, h)
        OBVIOUS
      <4>1. /\ Smallest(x) \in Entry /\ Smallest(g) \in Entry /\ Smallest(h) \in Entry
            /\ Before(Smallest(g), Smallest(h))
        BY <1>0, <2>2, <2>4, FileFacts, PrecedesFacts
      <4>2. Smallest(x) = Smallest(g) \/ Before(Smallest(x), Smallest(g))
        BY DEF BySmallestKey
      <4> QED BY <4>1, <4>2, BeforeTransitive DEF BySmallestKey
    <3>2. PICK U, V : U = Entries(Upto(g)) /\ V = Entries(Upto(h))
      OBVIOUS
    <3>3. U \subseteq V
      BY <3>1, <3>2 DEF Entries
    <3>4. V \in SUBSET Entry
      <4>1. Upto(h) \in SUBSET version[l]
        BY <2>2
      <4> QED BY <1>0, <3>2, <4>1, SmallestsDistinct
    <3>5. IsFiniteSet(V) /\ Cardinality(V) \in Nat /\ Cardinality(U) \in Nat
      BY <3>3, <3>4, EntriesFinite
    <3>6. Cardinality(U) <= Cardinality(V)
      BY <3>3, <3>5, FS_Subset
    <3>7. Cardinality(V) < TargetFileSize
      BY <2>4, <3>2 DEF TotalFileSize
    <3> QED BY <3>2, <3>5, <3>6, <3>7 DEF TotalFileSize
  <2> HIDE DEF Upto
  <2>5. Contiguous(l, ManualFiles(l, b, e))
    BY <2>2, <2>3, <2>4 DEF Contiguous
  <2> QED BY <1>2, <2>5 DEF Pickable
<1> QED BY <1>1, <1>2
-----------------------------------------------------------------------------
(* The invariant of the levels: what a step does to it.                    *)

LEMMA MergeIs ==
  MergeOK <=> (compaction.running =>
                 /\ Connected(In(compaction))
                 /\ Separated(compaction.level, compaction.in0, compaction.in1))
BY DEF MergeOK, Separated, In

LEMMA LevelKept ==
  ASSUME LevelsDisjoint, NewerAbove, SeqsOK', version' = version
  PROVE  LevelsDisjoint' /\ NewerAbove'
<1>1. LevelsDisjoint'
  BY DEF LevelsDisjoint
<1> DEFINE Newer(E, D) == \A e \in E, d \in D : e.key = d.key => e.seq > d.seq
<1>2. Newer(imm', UNION {Entries(version'[l]) : l \in Levels})
  BY DEF SeqsOK, TableEntries
<1>3. \A f, g \in version'[0] : f.num > g.num => Newer(f.ents, g.ents)
  BY DEF NewerAbove
<1>4. \A l, m \in Levels : l < m => Newer(Entries(version'[l]), Entries(version'[m]))
  BY DEF NewerAbove
<1>5. NewerAbove'
  BY <1>2, <1>3, <1>4 DEF NewerAbove
<1> QED BY <1>1, <1>5

LEMMA NewerZero ==
  ASSUME NewerAbove, NEW f \in version[0], NEW g \in version[0], f.num > g.num,
         NEW e \in f.ents, NEW d \in g.ents, e.key = d.key
  PROVE  e.seq > d.seq
<1>1. \A a \in f.ents, b \in g.ents : a.key = b.key => a.seq > b.seq
  BY DEF NewerAbove
<1> QED BY <1>1

(* A flushed table is newer than all others, and below level 0 it shares   *)
(* no user key with its level and the levels above.                        *)
LEMMA LevelFlush ==
  ASSUME TypeOK, SeqsOK, FilesOK, LevelsDisjoint, NewerAbove, SeqsOK', FilesOK',
         NEW p, NEW t, Flushes(p, t)
  PROVE  LevelsDisjoint' /\ NewerAbove'
<1>0. TablesOK
  BY InvTables
<1>1. /\ p \in Levels /\ t \in File /\ FileOK(t) /\ t.ents = imm
      /\ p = 0 => \A g \in version[0] : g.num < t.num
      /\ p # 0 => \A m \in Levels : m <= p => \A f \in version[m] :
                    ~Meets(f, Smallest(t).key, Largest(t).key)
  BY DEF Flushes
<1>2. \A m \in Levels : \A f \in version'[m] : f \in version[m] \/ (m = p /\ f = t)
  BY FlushReplaces
<1>3. /\ t.num \in Nat /\ Smallest(t) \in Entry /\ Largest(t) \in Entry
      /\ t.ents \in SUBSET Entry /\ Smallest(t) \in t.ents /\ Largest(t) \in t.ents
  BY <1>1, FileType DEF FileOK
<1>4. \A e \in t.ents : Smallest(t).key <= e.key /\ e.key <= Largest(t).key
  <2> TAKE e \in t.ents
  <2>1. /\ e = Smallest(t) \/ Before(Smallest(t), e)
        /\ e = Largest(t) \/ Before(e, Largest(t))
    BY <1>1 DEF FileOK, Smallest, Largest
  <2> QED BY <1>3, <2>1, EntryType DEF Before
<1>5. \A m \in Levels : \A f \in version[m] : \A e \in t.ents : \A d \in f.ents : e.seq > d.seq
  <2> SUFFICES ASSUME NEW m \in Levels, NEW f \in version[m], NEW e \in t.ents, NEW d \in f.ents
               PROVE  e.seq > d.seq
    OBVIOUS
  <2>1. d \in TableEntries /\ e \in imm
    BY <1>1, EntriesOf
  <2>2. d.seq < e.seq
    BY <2>1 DEF SeqsOK
  <2>3. d.seq \in Nat /\ e.seq \in Nat
    BY <1>0, <1>3, FileBounds, EntryType
  <2> QED BY <2>2, <2>3
<1>6. ASSUME NEW m \in Levels, m <= p, p # 0, NEW f \in version[m], NEW d \in f.ents, NEW e \in t.ents
      PROVE  d.key # e.key
  <2>1. ~Meets(f, Smallest(t).key, Largest(t).key)
    BY <1>1, <1>6
  <2>2. Smallest(f).key <= d.key /\ d.key <= Largest(f).key /\ d \in Entry
    BY <1>0, <1>6, FileBounds
  <2>3. Smallest(f).key \in Nat /\ Largest(f).key \in Nat
    BY <1>0, <1>6, FileKeys
  <2>4. Smallest(t).key \in Nat /\ Largest(t).key \in Nat
    BY <1>3, EntryType
  <2>5. Smallest(t).key <= e.key /\ e.key <= Largest(t).key
    BY <1>4, <1>6
  <2> QED BY <2>1, <2>2, <2>3, <2>4, <2>5, EntryType DEF Meets
<1>7. LevelsDisjoint'
  <2>1. ASSUME NEW f \in version[p], p # 0
        PROVE  Precedes(f, t) \/ Precedes(t, f)
    <3>1. ~Meets(f, Smallest(t).key, Largest(t).key)
      BY <1>1, <2>1, LevelFacts
    <3>2. /\ Smallest(f).key \in Nat /\ Largest(f).key \in Nat
          /\ Smallest(t).key \in Nat /\ Largest(t).key \in Nat
      BY <1>0, <1>1, <1>3, <2>1, FileKeys, EntryType
    <3> QED BY <3>1, <3>2 DEF Meets, Precedes, Before
  <2>2. ASSUME NEW l \in 1 .. NumLevels - 1, NEW f \in version'[l], NEW g \in version'[l]
        PROVE  f = g \/ Before(Largest(f), Smallest(g)) \/ Before(Largest(g), Smallest(f))
    <3>1. l \in Levels /\ l # 0
      BY <2>2, LSMAssumption DEF Levels
    <3>2. CASE f \in version[l] /\ g \in version[l]
      BY <2>2, <3>2 DEF LevelsDisjoint
    <3>3. CASE l = p /\ f = t /\ g \in version[l]
      BY <2>1, <3>1, <3>3 DEF Precedes
    <3>4. CASE l = p /\ g = t /\ f \in version[l]
      BY <2>1, <3>1, <3>4 DEF Precedes
    <3> QED BY <1>2, <2>2, <3>1, <3>2, <3>3, <3>4
  <2> QED BY <2>2 DEF LevelsDisjoint, Smallest, Largest
<1>8. ASSUME NEW f \in version'[0], NEW g \in version'[0], f.num > g.num,
             NEW e \in f.ents, NEW d \in g.ents, e.key = d.key
      PROVE  e.seq > d.seq
  <2>1. CASE f \in version[0] /\ g \in version[0]
    BY <1>8, <2>1, NewerZero
  <2>2. CASE f = t /\ g \in version[0]
    BY <1>5, <1>8, <2>2, LevelFacts
  <2>3. CASE g = t /\ p = 0
    <3>1. f = t \/ f \in version[0]
      BY <1>2, <1>8, LevelFacts
    <3>2. f \in version[0] => f.num < t.num /\ f.num \in Nat
      BY <1>0, <1>1, <2>3, LevelFacts, FileFacts
    <3> QED BY <1>3, <1>8, <2>3, <3>1, <3>2
  <2> QED BY <1>2, <1>8, <2>1, <2>2, <2>3, LevelFacts
<1>9. ASSUME NEW l \in Levels, NEW m \in Levels, l < m, NEW f \in version'[l],
             NEW g \in version'[m], NEW e \in f.ents, NEW d \in g.ents, e.key = d.key
      PROVE  e.seq > d.seq
  <2>0. l # m /\ l \in Nat /\ m \in Nat
    BY <1>9, LevelFacts
  <2>1. CASE f \in version[l] /\ g \in version[m]
    <3>1. d.seq < e.seq
      BY <1>9, <2>1, NewerLevels
    <3>2. d.seq \in Nat /\ e.seq \in Nat
      BY <1>0, <2>1, <1>9, FileBounds, EntryType
    <3> QED BY <3>1, <3>2
  <2>2. CASE f = t /\ g \in version[m]
    BY <1>5, <1>9, <2>2
  <2>3. CASE m = p /\ g = t /\ f \in version[l]
    BY <1>6, <1>9, <2>0, <2>3
  <2> QED BY <1>2, <1>9, <2>0, <2>1, <2>2, <2>3
<1>10. NewerAbove'
  <2> DEFINE Newer(E, D) == \A e \in E, d \in D : e.key = d.key => e.seq > d.seq
  <2>1. Newer(imm', UNION {Entries(version'[l]) : l \in Levels})
    BY DEF SeqsOK, TableEntries
  <2>2. \A f, g \in version'[0] : f.num > g.num => Newer(f.ents, g.ents)
    BY <1>8
  <2>3. \A l, m \in Levels : l < m => Newer(Entries(version'[l]), Entries(version'[m]))
    BY <1>9 DEF Entries
  <2> QED BY <2>1, <2>2, <2>3 DEF NewerAbove
<1> QED BY <1>7, <1>10
(* A running compaction and a flush: below level 0 the new table lies      *)
(* beside the inputs, because they have no gap it could fall into.         *)
LEMMA MergeFlush ==
  ASSUME TypeOK, SeqsOK, FilesOK, InputsInVersion, MergeOK, compaction' = compaction,
         NEW p, NEW t, Flushes(p, t)
  PROVE  MergeOK'
<1> SUFFICES ASSUME compaction.running PROVE MergeOK'
  BY DEF MergeOK
<1>0. TablesOK
  BY InvTables
<1>1. PICK c, l, S : c = compaction /\ l = c.level /\ S = In(c)
  OBVIOUS
<1>2. /\ l \in LowLevel /\ c.in0 \subseteq version[l] /\ c.in1 \subseteq version[l + 1]
      /\ l \in Levels /\ l + 1 \in Levels /\ l + 1 > 0 /\ l \in Nat
      /\ Entries(S) \subseteq TableEntries /\ Entries(S) \in SUBSET Entry
      /\ S = c.in0 \cup c.in1
  BY <1>1, RunningInputs, LevelFacts DEF In
<1>3. Connected(S) /\ Separated(l, c.in0, c.in1)
  BY <1>1, MergeIs
<1>4. \A m \in Levels : \A f \in version'[m] : f \in version[m] \/ (m = p /\ f = t)
  BY FlushReplaces
<1>5. /\ p \in Levels /\ t \in File /\ FileOK(t) /\ t.ents = imm
      /\ p # 0 => \A m \in Levels : m <= p => \A f \in version[m] :
                    ~Meets(f, Smallest(t).key, Largest(t).key)
  BY DEF Flushes
<1>6. \A d \in t.ents : \A e \in Entries(S) : e.seq < d.seq
  BY <1>2, <1>5 DEF SeqsOK
<1>7. ASSUME p = l + 1
      PROVE  (\A f \in S : Precedes(t, f)) \/ (\A f \in S : Precedes(f, t))
  <2>1. /\ Smallest(t) \in Entry /\ Largest(t) \in Entry
        /\ Smallest(t).key \in Keys /\ Smallest(t).key \in Nat /\ Largest(t).key \in Nat
        /\ Smallest(t).key <= Largest(t).key
    <3>1. /\ Smallest(t) \in Entry /\ Largest(t) \in Entry
          /\ Smallest(t) \in t.ents /\ Largest(t) \in t.ents
      BY <1>5, FileType DEF FileOK
    <3>2. Smallest(t) = Largest(t) \/ Before(Smallest(t), Largest(t))
      BY <1>5, <3>1 DEF FileOK, Smallest, Largest
    <3> QED BY <3>1, <3>2, EntryType DEF Before
  <2>2. \A f \in S : /\ Smallest(f).key \in Nat /\ Largest(f).key \in Nat
                     /\ Smallest(f).key <= Largest(f).key
    BY <1>0, <1>2, FileKeys
  <2>3. \A f \in S : ~Meets(f, Smallest(t).key, Largest(t).key)
    <3>1. \A f \in c.in0 : ~Meets(f, Smallest(t).key, Largest(t).key)
      BY <1>2, <1>5, <1>7
    <3>2. \A f \in c.in1 : ~Meets(f, Smallest(t).key, Largest(t).key)
      BY <1>2, <1>5, <1>7
    <3> QED BY <1>2, <3>1, <3>2
  <2>4. \A f \in S : Largest(f).key < Smallest(t).key \/ Largest(t).key < Smallest(f).key
    BY <2>1, <2>2, <2>3 DEF Meets
  <2>5. \A f \in S : ~Meets(f, Smallest(t).key, Smallest(t).key)
    BY <2>1, <2>2, <2>4 DEF Meets
  <2>6. CASE \A f \in S : Largest(f).key < Smallest(t).key
    BY <2>6 DEF Precedes, Before
  <2>7. CASE \A f \in S : Smallest(t).key < Smallest(f).key
    <3>1. \A f \in S : Largest(t).key < Smallest(f).key
      BY <2>1, <2>2, <2>4, <2>7
    <3> QED BY <3>1 DEF Precedes, Before
  <2> QED BY <1>3, <2>1, <2>5, <2>6, <2>7 DEF Connected
<1>8. \A g \in version'[l + 1] \ c.in1 : \/ \A f \in S : Precedes(g, f)
                                         \/ \A f \in S : Precedes(f, g)
  <2> TAKE g \in version'[l + 1] \ c.in1
  <2>1. CASE g \in version[l + 1]
    BY <1>2, <1>3, <2>1 DEF Separated
  <2>2. CASE p = l + 1 /\ g = t
    BY <1>7, <2>2
  <2> QED BY <1>2, <1>4, <2>1, <2>2
<1>9. \A g \in (version'[l] \ c.in0) \cup (version'[l + 1] \ c.in1) : \A d \in g.ents :
        \A e \in Entries(S) : d.key = e.key => e.seq < d.seq
  <2> TAKE g \in (version'[l] \ c.in0) \cup (version'[l + 1] \ c.in1)
  <2>1. CASE g = t
    BY <1>6, <2>1
  <2>2. CASE g \in (version[l] \ c.in0) \cup (version[l + 1] \ c.in1)
    BY <1>2, <1>3, <2>2 DEF Separated
  <2> QED BY <1>2, <1>4, <2>1, <2>2
<1> QED BY <1>1, <1>2, <1>3, <1>8, <1>9 DEF MergeOK

(* The results of a compaction take the place of its inputs.               *)
LEMMA LevelInstalls ==
  ASSUME TypeOK, SeqsOK, FilesOK, LevelsDisjoint, NewerAbove, SeqsOK',
         NEW l, NEW in0, NEW in1, NEW N, Installs(l, in0, in1, N),
         Separated(l, in0, in1),
         \A f, g \in N : f = g \/ AllBefore(f.ents, g.ents) \/ AllBefore(g.ents, f.ents)
  PROVE  LevelsDisjoint' /\ NewerAbove'
<1>0. TablesOK
  BY InvTables
<1>1. /\ l \in LowLevel /\ in0 \subseteq version[l] /\ in1 \subseteq version[l + 1]
      /\ l \in Levels /\ l + 1 \in Levels /\ l + 1 > 0 /\ l \in Nat
  BY LevelFacts DEF Installs
<1>2. /\ \A m \in Levels : m # l /\ m # l + 1 => version'[m] = version[m]
      /\ version'[l] = version[l] \ in0
      /\ version'[l + 1] = (version[l + 1] \ in1) \cup N
  BY InstallReplaces
<1>3. \A m \in Levels : \A g \in version'[m] :
        \/ g \in version[m] /\ ~(m = l /\ g \in in0) /\ ~(m = l + 1 /\ g \in in1)
        \/ m = l + 1 /\ g \in N
  BY <1>1, <1>2
<1>4. \A f \in N : /\ f \in File /\ FileOK(f) /\ Smallest(f) \in f.ents
                   /\ Largest(f) \in f.ents /\ f.ents \in SUBSET Entry
  BY FileType DEF Installs, FileOK
<1>5. \A f \in N : \A e \in f.ents :
        /\ e \in Entries(in0 \cup in1)
        /\ \E h \in in0 \cup in1 : e \in h.ents
  BY DEF Installs, Entries
<1>6. \A h \in in0 \cup in1 : h \in version[l] \/ h \in version[l + 1]
  BY <1>1
<1>7. ASSUME NEW g \in version[l + 1] \ in1, NEW f \in N
      PROVE  Precedes(g, f) \/ Precedes(f, g)
  <2>1. CASE \A h \in in0 \cup in1 : Precedes(g, h)
    <3>1. PICK h \in in0 \cup in1 : Smallest(f) \in h.ents
      BY <1>4, <1>5, <1>7
    <3>2. Precedes(g, h) /\ Largest(g) \in g.ents
      BY <1>0, <1>1, <1>7, <2>1, FileFacts
    <3>3. Before(Largest(g), Smallest(f))
      BY <1>0, <1>1, <1>6, <1>7, <3>1, <3>2, PrecedesFacts
    <3> QED BY <3>3 DEF Precedes
  <2>2. CASE \A h \in in0 \cup in1 : Precedes(h, g)
    <3>1. PICK h \in in0 \cup in1 : Largest(f) \in h.ents
      BY <1>4, <1>5, <1>7
    <3>2. Precedes(h, g) /\ Smallest(g) \in g.ents
      BY <1>0, <1>1, <1>7, <2>2, FileFacts
    <3>3. Before(Largest(f), Smallest(g))
      BY <1>0, <1>1, <1>6, <1>7, <3>1, <3>2, PrecedesFacts
    <3> QED BY <3>3 DEF Precedes
  <2> QED BY <1>7, <2>1, <2>2 DEF Separated
<1>8. LevelsDisjoint'
  <2>1. ASSUME NEW m \in 1 .. NumLevels - 1, NEW f \in version'[m], NEW g \in version'[m]
        PROVE  f = g \/ Before(Largest(f), Smallest(g)) \/ Before(Largest(g), Smallest(f))
    <3>1. m \in Levels
      BY <2>1, LSMAssumption DEF Levels
    <3>2. CASE f \in version[m] /\ g \in version[m]
      BY <2>1, <3>2 DEF LevelsDisjoint
    <3>3. CASE f \in N /\ g \in N
      BY <1>4, <3>3 DEF AllBefore
    <3>4. CASE m = l + 1 /\ f \in N /\ g \in version[m] /\ g \notin in1
      BY <1>7, <3>4 DEF Precedes
    <3>5. CASE m = l + 1 /\ g \in N /\ f \in version[m] /\ f \notin in1
      BY <1>7, <3>5 DEF Precedes
    <3> QED BY <1>3, <2>1, <3>1, <3>2, <3>3, <3>4, <3>5
  <2> QED BY <2>1 DEF LevelsDisjoint, Smallest, Largest
<1>9. ASSUME NEW i \in Levels, NEW j \in Levels, i < j, NEW f \in version'[i],
             NEW g \in version'[j], NEW e \in f.ents, NEW d \in g.ents, e.key = d.key
      PROVE  e.seq > d.seq
  <2>0. i \in Nat /\ j \in Nat
    BY LevelFacts
  <2>1. CASE f \in version[i] /\ g \in version[j]
    BY <1>9, <2>1, NewerLevels
  <2>2. CASE i = l + 1 /\ f \in N /\ g \in version[j]
    <3>1. PICK h \in in0 \cup in1 : e \in h.ents
      BY <1>5, <1>9, <2>2
    <3>2. CASE h \in version[l]
      BY <1>1, <1>9, <2>0, <2>2, <3>1, <3>2, NewerLevels
    <3>3. CASE h \in version[l + 1]
      BY <1>1, <1>9, <2>0, <2>2, <3>1, <3>3, NewerLevels
    <3> QED BY <1>6, <3>2, <3>3
  <2>3. CASE j = l + 1 /\ g \in N /\ f \in version[i] /\ ~(i = l /\ f \in in0)
    <3>1. PICK h \in in0 \cup in1 : d \in h.ents
      BY <1>5, <1>9, <2>3
    <3>2. CASE i = l
      <4>1. f \in version[l] \ in0 /\ d \in Entries(in0 \cup in1)
        BY <1>5, <1>9, <2>3, <3>2
      <4> QED BY <1>9, <4>1 DEF Separated
    <3>3. CASE i # l
      <4>1. i < l
        BY <1>1, <1>9, <2>0, <2>3, <3>3
      <4>2. CASE h \in version[l]
        BY <1>1, <1>9, <2>0, <2>3, <3>1, <4>1, <4>2, NewerLevels
      <4>3. CASE h \in version[l + 1]
        BY <1>1, <1>9, <2>0, <2>3, <3>1, <4>1, <4>3, NewerLevels
      <4> QED BY <1>6, <4>2, <4>3
    <3> QED BY <3>2, <3>3
  <2>4. ~(i = l + 1 /\ j = l + 1)
    BY <1>9, <2>0
  <2> QED BY <1>3, <1>9, <2>1, <2>2, <2>3, <2>4
<1>10. NewerAbove'
  <2> DEFINE Newer(E, D) == \A e \in E, d \in D : e.key = d.key => e.seq > d.seq
  <2>1. Newer(imm', UNION {Entries(version'[m]) : m \in Levels})
    BY DEF SeqsOK, TableEntries
  <2>2. version'[0] \subseteq version[0]
    BY <1>1, <1>2, LevelFacts
  <2>3. \A f, g \in version'[0] : f.num > g.num => Newer(f.ents, g.ents)
    BY <2>2, NewerZero
  <2>4. \A i, j \in Levels : i < j => Newer(Entries(version'[i]), Entries(version'[j]))
    BY <1>9 DEF Entries
  <2> QED BY <2>1, <2>3, <2>4 DEF NewerAbove
<1> QED BY <1>8, <1>10
-----------------------------------------------------------------------------
(* What a step can do to the tables.                                       *)

Beside == UNCHANGED <<lastSequence, mem, snapshots>>

Quiet ==   \* no table changes; imm_ may be a new one
  /\ lastSequence' = lastSequence /\ snapshots' = snapshots
  /\ mem' \cup imm' = mem \cup imm
  /\ version' = version /\ (compaction' = compaction \/ compaction' = NoCompaction)
Flushing ==
  /\ Beside /\ imm' = {} /\ compaction' = compaction
  /\ \E p, t : Flushes(p, t)
Moving ==
  /\ Beside /\ imm' = imm /\ compaction' = NoCompaction
  /\ \E l, f : /\ Installs(l, {f}, {}, {[f EXCEPT !.num = 0]})
               /\ \E picked : /\ Pickable(l, picked) /\ picked \in SUBSET version[l]
                              /\ picked # {}
                              /\ SetupOtherInputs(l, picked).in0 = {f}
                              /\ SetupOtherInputs(l, picked).in1 = {}
Installing ==
  /\ Beside /\ imm' = imm /\ compaction.running /\ compaction' = NoCompaction
  /\ OutputsOK(compaction, Outputs(compaction))
  /\ Installs(compaction.level, compaction.in0, compaction.in1, Outputs(compaction))
Starting ==
  /\ Beside /\ imm' = imm /\ version' = version
  /\ \E l \in LowLevel : \E picked :
       /\ Pickable(l, picked) /\ picked \in SUBSET version[l] /\ picked # {}
       /\ Starts(l, SetupOtherInputs(l, picked), compaction')
       /\ compaction'.manual \/ Connected(AddBoundaryInputs(l, picked))

LEMMA FlushEffect ==
  ASSUME Inv, CompactMemTable
  PROVE  Quiet \/ Flushing
<1>1. PICK l : l = PickLevelForMemTableOutput(MinEntry(imm).key, MaxEntry(imm).key)
  OBVIOUS
<1>2. /\ lastSequence' = lastSequence /\ mem' = mem /\ snapshots' = snapshots
      /\ compaction' = compaction
  BY DEF CompactMemTable
<1>3. \/ /\ LogAndApply(IF imm = {} THEN version
                        ELSE [version EXCEPT ![l] = @ \cup {NewTable(l, imm)}])
         /\ imm' = {}
      \/ version' = version /\ imm' = imm
  BY <1>1 DEF CompactMemTable
<1>4. CASE version' = version /\ imm' = imm
  BY <1>2, <1>4 DEF Quiet
<1>5. CASE /\ LogAndApply(IF imm = {} THEN version
                          ELSE [version EXCEPT ![l] = @ \cup {NewTable(l, imm)}])
           /\ imm' = {}
  <2>1. CASE imm = {}
    BY <1>2, <1>5, <2>1 DEF LogAndApply, Quiet
  <2>2. CASE imm # {}
    <3>1. version' = [version EXCEPT ![l] = @ \cup {NewTable(l, imm)}]
      BY <1>5, <2>2 DEF LogAndApply
    <3>2. Flushes(l, NewTable(l, imm))
      BY <1>1, <2>2, <3>1, FlushIs DEF Inv
    <3> QED BY <1>2, <1>5, <3>2 DEF Flushing, Beside
  <2> QED BY <2>1, <2>2
<1> QED BY <1>3, <1>4, <1>5

LEMMA BackgroundEffect ==
  ASSUME Inv, BackgroundCompaction, LevelsDisjoint
  PROVE  Quiet \/ Moving \/ Starting
<1>1. PICK p : p = PickStart
  OBVIOUS
<1>2. PICK l, picked : l = p.level /\ picked = PickedFiles(p)
  OBVIOUS
<1>3. PICK c : c = SetupOtherInputs(l, picked)
  OBVIOUS
<1>4. NeedsCompaction /\ ~compaction.running
  BY DEF BackgroundCompaction, Idle
<1>5. l \in LowLevel /\ picked \in SUBSET version[l] /\ picked # {}
  BY <1>1, <1>2, <1>4, PickIs DEF Inv
<1>6. Pickable(l, picked) /\ Connected(AddBoundaryInputs(l, picked))
  BY <1>1, <1>2, <1>4, PickConnected DEF Inv
<1>7. /\ RunCompaction(l, c)
      /\ lastSequence' = lastSequence /\ mem' = mem /\ imm' = imm /\ snapshots' = snapshots
  BY <1>1, <1>2, <1>3 DEF BackgroundCompaction, StartFrom, memVars
<1>8. /\ Starts(l, c, Started(l, c, FALSE))
      /\ c.in0 \in SUBSET version[l]
  BY <1>3, <1>5, StartedIs DEF Inv
<1>9. compaction = NoCompaction
  BY <1>4 DEF Inv, TypeOK, CompactionType
<1>10. CASE IsTrivialMove(c) /\ MoveFile(c, l) /\ UNCHANGED <<compaction, bgError>>
  <2>1. Cardinality(c.in0) = 1 /\ c.in1 = {}
    BY <1>10 DEF IsTrivialMove
  <2>2. PICK f : c.in0 = {f} /\ Installs(l, {f}, {}, {[f EXCEPT !.num = 0]})
    BY <1>5, <1>8, <1>10, <2>1, MoveInstalls DEF Inv
  <2>3. SetupOtherInputs(l, picked).in0 = {f} /\ SetupOtherInputs(l, picked).in1 = {}
    BY <1>3, <2>1, <2>2
  <2>4. compaction' = NoCompaction
    BY <1>9, <1>10
  <2> QED BY <1>5, <1>6, <1>7, <2>2, <2>3, <2>4 DEF Moving, Beside
<1>11. CASE UNCHANGED <<version, seekFile, compaction>>
  BY <1>7, <1>11 DEF Quiet
<1>12. CASE compaction' = Started(l, c, FALSE) /\ UNCHANGED <<version, seekFile, bgError>>
  <2>1. Starts(l, SetupOtherInputs(l, picked), compaction')
    BY <1>3, <1>8, <1>12
  <2> QED BY <1>5, <1>6, <1>7, <1>12, <2>1 DEF Starting, Beside
<1> QED BY <1>7, <1>10, <1>11, <1>12 DEF RunCompaction

LEMMA ManualEffect ==
  ASSUME Inv, ManualCompaction, LevelsDisjoint
  PROVE  Quiet \/ Starting
<1>1. PICK l, picked : /\ l = manual.level
                       /\ picked = ManualFiles(manual.level, manual.cur, manual.end)
  OBVIOUS
<1>2. /\ manual.pc = "level"
      /\ lastSequence' = lastSequence /\ mem' = mem /\ imm' = imm /\ snapshots' = snapshots
      /\ version' = version /\ StartManual(l, picked)
  BY <1>1 DEF ManualCompaction, ManualPosted, memVars
<1>3. manual \in ManualType
  BY <1>2, ManualIs DEF Inv
<1>4. /\ l \in LowLevel /\ l \in Levels /\ manual.cur \in Nat /\ manual.end \in Nat
      /\ TargetFileSize \in Nat
  <2>1. scenario \in Scenario
    BY LSMAssumption DEF Inv, TypeOK
  <2>2. TargetFileSize \in Nat
    BY <2>1 DEF TargetFileSize, Scenario
  <2> QED BY <1>1, <1>3, <2>2, LevelFacts, LSMAssumption DEF ManualType, LowLevel
<1>5. picked \in SUBSET version[l] /\ Pickable(l, picked)
  BY <1>1, <1>4, InvTables, ManualFilesIs, ManualPickable DEF Inv
<1>6. CASE UNCHANGED <<compactPointer, compaction>>
  BY <1>2, <1>6 DEF Quiet
<1>7. CASE picked # {} /\ RunManual(l, SetupOtherInputs(l, picked))
  <2>1. PICK c : c = SetupOtherInputs(l, picked)
    OBVIOUS
  <2>2. compaction' = Started(l, c, TRUE)
    BY <1>7, <2>1 DEF RunManual
  <2>3. Starts(l, c, Started(l, c, TRUE)) /\ Started(l, c, TRUE).manual = TRUE
    BY <1>4, <1>5, <1>7, <2>1, StartedIs DEF Inv
  <2>4. Starts(l, SetupOtherInputs(l, picked), compaction') /\ compaction'.manual
    BY <2>1, <2>2, <2>3
  <2> QED BY <1>2, <1>4, <1>5, <1>7, <2>4 DEF Starting, Beside
<1> QED BY <1>2, <1>6, <1>7 DEF StartManual

LEMMA InstallEffect ==
  ASSUME Inv, DoCompactionWork
  PROVE  Quiet \/ Installing
<1>1. /\ compaction.running /\ compaction' = NoCompaction
      /\ lastSequence' = lastSequence /\ mem' = mem /\ imm' = imm /\ snapshots' = snapshots
  BY DEF DoCompactionWork, memVars
<1>2. CASE InstallCompactionResults(compaction)
  BY <1>1, <1>2, ResultsInstalls DEF Inv, Installing, Beside
<1>3. CASE version' = version
  BY <1>1, <1>3 DEF Quiet
<1> QED BY <1>2, <1>3 DEF DoCompactionWork

LEMMA SwitchEffect ==
  ASSUME Inv, SwitchMemTable
  PROVE  Quiet
<1>1. imm = {}
  BY DEF SwitchMemTable, Inv, SeqsOK
<1> QED BY <1>1 DEF SwitchMemTable, Quiet

LEMMA StepEffect ==
  ASSUME Inv, LevelsDisjoint, [Next]_vars
  PROVE  \/ \E k \in Keys, t \in {"value", "deletion"} : Write(k, t)
         \/ GetSnapshot
         \/ ReleaseSnapshot
         \/ Quiet \/ Flushing \/ Moving \/ Installing \/ Starting
<1>1. CASE UNCHANGED vars
  BY <1>1 DEF vars, memVars, Quiet
<1>2. ASSUME NEW m, Manual(m) PROVE Quiet
  BY <1>2 DEF Manual, memVars, Quiet
<1>3. CASE Step
  <2>1. CASE MakeRoomForWrite
    BY <2>1, SwitchEffect DEF MakeRoomForWrite
  <2>2. ASSUME NEW k \in Keys, NEW s \in 0 .. lastSequence, UpdateStats(k, s) PROVE Quiet
    BY <2>2 DEF UpdateStats, memVars, Quiet
  <2>3. CASE CompactMemTable
    BY <2>3, FlushEffect
  <2>4. CASE BackgroundCompaction
    BY <2>4, BackgroundEffect
  <2>5. CASE ManualCompaction
    BY <2>5, ManualEffect
  <2>6. CASE DoCompactionWork
    BY <2>6, InstallEffect
  <2>7. ASSUME NEW r \in scenario.ranges, CompactRange(r.begin, r.end) PROVE Quiet
    BY <1>2, <2>7 DEF CompactRange
  <2>8. CASE ManualSwitch
    BY <1>2, <2>8, SwitchEffect DEF ManualSwitch
  <2>9. CASE ManualWait \/ ManualPost \/ ManualNextLevel
    BY <1>2, <2>9 DEF ManualWait, ManualPost, ManualNextLevel
  <2> QED BY <1>3, <2>1, <2>2, <2>3, <2>4, <2>5, <2>6, <2>7, <2>8, <2>9 DEF Step
<1> QED BY <1>1, <1>3 DEF Next
LEMMA StartOK ==
  ASSUME Inv, LevelsDisjoint, NewerAbove, ManualConnected', Starting
  PROVE  MergeOK'
<1>0. TablesOK /\ version' = version
  BY InvTables DEF Inv, Starting
<1>1. PICK l \in LowLevel : \E picked :
        /\ Pickable(l, picked) /\ picked \in SUBSET version[l] /\ picked # {}
        /\ Starts(l, SetupOtherInputs(l, picked), compaction')
        /\ compaction'.manual \/ Connected(AddBoundaryInputs(l, picked))
  BY DEF Starting
<1>2. PICK picked :
        /\ Pickable(l, picked) /\ picked \in SUBSET version[l] /\ picked # {}
        /\ Starts(l, SetupOtherInputs(l, picked), compaction')
        /\ compaction'.manual \/ Connected(AddBoundaryInputs(l, picked))
  BY <1>1
<1>3. PICK c : c = SetupOtherInputs(l, picked)
  OBVIOUS
<1>4. /\ Separated(l, c.in0, c.in1)
      /\ Connected(AddBoundaryInputs(l, picked)) => Connected(In(c))
  BY <1>0, <1>2, <1>3, SetupOK
<1>5. PICK x : x = compaction'
  OBVIOUS
<1>6. x.running /\ x.level = l /\ x.in0 = c.in0 /\ x.in1 = c.in1
  BY <1>2, <1>3, <1>5 DEF Starts
<1>7. x.manual => Connected(In(x))
  BY <1>5, <1>6 DEF ManualConnected, Connected, In
<1>8. Connected(In(x))
  BY <1>2, <1>4, <1>5, <1>6, <1>7 DEF In
<1>9. Separated(x.level, x.in0, x.in1)
  BY <1>4, <1>6
<1> QED BY <1>0, <1>5, <1>8, <1>9 DEF MergeOK, Separated, In, Connected

LEMMA LevelNext ==
  ASSUME Inv, Inv', LevelInv, ManualConnected', [Next]_vars
  PROVE  LevelInv'
<1>0. LevelsDisjoint /\ NewerAbove /\ MergeOK /\ SeqsOK' /\ FilesOK'
  BY DEF LevelInv, Inv
<1>1. CASE Quiet \/ (\E k \in Keys, t \in {"value", "deletion"} : Write(k, t))
           \/ GetSnapshot \/ ReleaseSnapshot
  <2>1. version' = version /\ (compaction' = compaction \/ compaction' = NoCompaction)
    BY <1>1 DEF Quiet, Write, GetSnapshot, ReleaseSnapshot
  <2>2. LevelsDisjoint' /\ NewerAbove'
    BY <1>0, <2>1, LevelKept
  <2>3. MergeOK'
    <3>1. CASE compaction' = compaction
      BY <1>0, <2>1, <3>1 DEF MergeOK, Connected, In
    <3>2. CASE compaction' = NoCompaction
      BY <3>2 DEF MergeOK, NoCompaction
    <3> QED BY <2>1, <3>1, <3>2
  <2> QED BY <2>2, <2>3 DEF LevelInv
<1>2. CASE Flushing
  <2>1. PICK p, t : Flushes(p, t)
    BY <1>2 DEF Flushing
  <2>2. LevelsDisjoint' /\ NewerAbove'
    BY <1>0, <2>1, LevelFlush DEF Inv
  <2>3. MergeOK'
    BY <1>0, <1>2, <2>1, MergeFlush DEF Inv, Flushing
  <2> QED BY <2>2, <2>3 DEF LevelInv
<1>3. CASE Moving
  <2>1. PICK l, f : /\ Installs(l, {f}, {}, {[f EXCEPT !.num = 0]})
                    /\ \E picked : /\ Pickable(l, picked) /\ picked \in SUBSET version[l]
                                   /\ picked # {}
                                   /\ SetupOtherInputs(l, picked).in0 = {f}
                                   /\ SetupOtherInputs(l, picked).in1 = {}
    BY <1>3 DEF Moving
  <2>2. PICK picked : /\ Pickable(l, picked) /\ picked \in SUBSET version[l]
                      /\ picked # {}
                      /\ SetupOtherInputs(l, picked).in0 = {f}
                      /\ SetupOtherInputs(l, picked).in1 = {}
    BY <2>1
  <2>3. PICK c : c = SetupOtherInputs(l, picked)
    OBVIOUS
  <2>4. l \in LowLevel
    BY <2>1 DEF Installs
  <2>5. Separated(l, c.in0, c.in1)
    BY <1>0, <2>2, <2>3, <2>4, InvTables, SetupOK DEF Inv
  <2>6. Separated(l, {f}, {})
    BY <2>2, <2>3, <2>5
  <2>7. PICK g : g = [f EXCEPT !.num = 0]
    OBVIOUS
  <2>8. \A u, v \in {g} : u = v \/ AllBefore(u.ents, v.ents) \/ AllBefore(v.ents, u.ents)
    OBVIOUS
  <2>9. LevelsDisjoint' /\ NewerAbove'
    BY <1>0, <2>1, <2>6, <2>7, <2>8, LevelInstalls DEF Inv
  <2>10. MergeOK'
    BY <1>3 DEF Moving, MergeOK, NoCompaction
  <2> QED BY <2>9, <2>10 DEF LevelInv
<1>4. CASE Installing
  <2>1. PICK c, O : c = compaction /\ O = Outputs(compaction)
    OBVIOUS
  <2>2. Installs(c.level, c.in0, c.in1, O) /\ OutputsOK(c, O)
    BY <1>4, <2>1 DEF Installing
  <2>3. Separated(c.level, c.in0, c.in1)
    BY <1>0, <1>4, <2>1, MergeIs DEF Installing
  <2>4. \A u, v \in O : u = v \/ AllBefore(u.ents, v.ents) \/ AllBefore(v.ents, u.ents)
    BY <2>2 DEF OutputsOK
  <2>5. LevelsDisjoint' /\ NewerAbove'
    BY <1>0, <2>2, <2>3, <2>4, LevelInstalls DEF Inv
  <2>6. MergeOK'
    BY <1>4 DEF Installing, MergeOK, NoCompaction
  <2> QED BY <2>5, <2>6 DEF LevelInv
<1>5. CASE Starting
  <2>1. LevelsDisjoint' /\ NewerAbove'
    BY <1>0, <1>5, LevelKept DEF Starting
  <2>2. MergeOK'
    BY <1>0, <1>5, StartOK
  <2> QED BY <2>1, <2>2 DEF LevelInv
<1> QED BY <1>0, <1>1, <1>2, <1>3, <1>4, <1>5, StepEffect

LEMMA LevelInit ==
  ASSUME Init
  PROVE  LevelInv
<1>1. /\ \A l \in Levels : version[l] = {}
      /\ compaction.running = FALSE /\ imm = {}
  BY DEF Init, NoCompaction
<1>2. LevelsDisjoint
  <2>1. \A l \in 1 .. NumLevels - 1 : l \in Levels
    BY LSMAssumption DEF Levels
  <2> QED BY <1>1, <2>1 DEF LevelsDisjoint
<1>3. NewerAbove
  <2>1. \A l \in Levels : Entries(version[l]) = {}
    BY <1>1 DEF Entries
  <2> QED BY <1>1, <2>1, LevelFacts DEF NewerAbove
<1>4. MergeOK
  BY <1>1 DEF MergeOK
<1> QED BY <1>2, <1>3, <1>4 DEF LevelInv

(* The invariant of the levels, in every behaviour in which the inputs of  *)
(* manual compactions have no gap.                                         *)
THEOREM AlwaysLevelInv == Spec /\ []ManualConnected => []LevelInv
<1>1. Init => LevelInv
  BY LevelInit
<1>2. Inv /\ Inv' /\ LevelInv /\ ManualConnected' /\ [Next]_vars => LevelInv'
  BY LevelNext
<1> QED BY <1>1, <1>2, AlwaysInv, PTL DEF Spec

(* The files of every level from 1 on do not overlap: the assertion of     *)
(* VersionSet::Builder never fails, although memtables are flushed into    *)
(* those levels beside a running compaction.                               *)
THEOREM LevelsStayDisjoint == Spec /\ []ManualConnected => []LevelsDisjoint
<1>1. LevelInv => LevelsDisjoint
  BY DEF LevelInv
<1> QED BY <1>1, AlwaysLevelInv, PTL

(* Of two entries of a key, the one that Version::Get reaches first is the *)
(* newer.                                                                  *)
THEOREM NewerStaysAbove == Spec /\ []ManualConnected => []NewerAbove
<1>1. LevelInv => NewerAbove
  BY DEF LevelInv
<1> QED BY <1>1, AlwaysLevelInv, PTL
-----------------------------------------------------------------------------
(* What Get and an iterator return.                                        *)

Sees(e, k, s) == e.key = k /\ e.seq <= s

(* The newest of the entries that a read of the key at the snapshot sees.  *)
Newest(E, k, s, e) ==
  /\ e \in E /\ Sees(e, k, s)
  /\ \A d \in E : Sees(d, k, s) => d.seq <= e.seq

LEMMA NewestIs ==
  ASSUME NEW E \in SUBSET Entry, Distinct(E), NEW k, NEW s
  PROVE  /\ Visible(E, k, s) # {} => Newest(E, k, s, MinEntry(Visible(E, k, s)))
         /\ \A e : Newest(E, k, s, e) =>
              Visible(E, k, s) # {} /\ MinEntry(Visible(E, k, s)) = e
<1>1. PICK V : V = Visible(E, k, s)
  OBVIOUS
<1>2. V \in SUBSET Entry /\ Distinct(V) /\ \A e : e \in V <=> e \in E /\ Sees(e, k, s)
  BY <1>1 DEF Visible, Sees, Distinct
<1>3. V # {} => /\ MinEntry(V) \in V
                /\ \A d \in V : d = MinEntry(V) \/ Before(MinEntry(V), d)
  BY <1>2, MinEntryIs
<1>4. ASSUME V # {} PROVE Newest(E, k, s, MinEntry(V))
  <2>1. PICK m : m = MinEntry(V)
    OBVIOUS
  <2>2. m \in V /\ m \in Entry /\ \A d \in V : d = m \/ Before(m, d)
    BY <1>2, <1>3, <1>4, <2>1
  <2>3. \A d \in V : d.seq <= m.seq
    BY <1>2, <2>2, EntryType DEF Before, Sees
  <2> QED BY <1>2, <2>1, <2>2, <2>3 DEF Newest
<1>5. ASSUME NEW e, Newest(E, k, s, e) PROVE V # {} /\ MinEntry(V) = e
  <2>1. e \in V /\ \A d \in V : d.seq <= e.seq
    BY <1>2, <1>5 DEF Newest
  <2>2. MinEntry(V) \in V /\ (e = MinEntry(V) \/ Before(MinEntry(V), e))
    BY <1>3, <2>1
  <2>3. PICK m : m = MinEntry(V)
    OBVIOUS
  <2>4. m \in Entry /\ e \in Entry /\ m.key = e.key /\ m.seq <= e.seq
    BY <1>2, <2>1, <2>2, <2>3 DEF Sees
  <2> QED BY <2>1, <2>2, <2>3, <2>4, EntryType DEF Before
<1> QED BY <1>1, <1>4, <1>5

(* What an iterator over the entries shows.                                *)
Shown(E, k, s) ==
  LET seen == Visible(E, k, s)
  IN IF seen = {} THEN NotFound ELSE ValueOf(MinEntry(seen))

LEMMA ShownIs ==
  ASSUME NEW E \in SUBSET Entry, Distinct(E), NEW k, NEW s
  PROVE  /\ \A e : Newest(E, k, s, e) => Shown(E, k, s) = ValueOf(e)
         /\ (\A e \in E : ~Sees(e, k, s)) => Shown(E, k, s) = NotFound
         /\ \/ \E e : Newest(E, k, s, e)
            \/ \A e \in E : ~Sees(e, k, s)
<1>1. PICK V : V = Visible(E, k, s)
  OBVIOUS
<1>2. Shown(E, k, s) = IF V = {} THEN NotFound ELSE ValueOf(MinEntry(V))
  BY <1>1 DEF Shown
<1>3. \A e : e \in V <=> e \in E /\ Sees(e, k, s)
  BY <1>1 DEF Visible, Sees
<1>4. /\ V # {} => Newest(E, k, s, MinEntry(V))
      /\ \A e : Newest(E, k, s, e) => V # {} /\ MinEntry(V) = e
  BY <1>1, NewestIs
<1> QED BY <1>2, <1>3, <1>4

LEMMA EntriesType ==
  ASSUME TypeOK, SeqsOK
  PROVE  AllEntries \in SUBSET Entry /\ Distinct(AllEntries)
<1>1. TableEntries \subseteq Entry
  BY EntriesOf, FileType DEF TypeOK
<1> QED BY <1>1, EntriesOf DEF TypeOK, SeqsOK

LEMMA IterValueIs ==
  ASSUME TypeOK, SeqsOK, NEW k, NEW s
  PROVE  /\ \A e : Newest(AllEntries, k, s, e) => IterValue(k, s) = ValueOf(e)
         /\ (\A e \in AllEntries : ~Sees(e, k, s)) => IterValue(k, s) = NotFound
<1>1. PICK E : E = AllEntries
  OBVIOUS
<1>2. IterValue(k, s) = Shown(E, k, s)
  BY <1>1 DEF IterValue, Shown
<1>3. E \in SUBSET Entry /\ Distinct(E)
  BY <1>1, EntriesType
<1> QED BY <1>1, <1>2, <1>3, ShownIs

(* A lookup examines, at the level of an entry it should see, a file with  *)
(* that entry or a newer one: FindFile does not end too early or too late. *)
LEMMA LookupFinds ==
  ASSUME TablesOK, LevelsDisjoint, NEW k \in Keys, NEW s \in Nat,
         NEW m \in Levels, NEW g \in version[m], NEW d \in g.ents, Sees(d, k, s)
  PROVE  \E h : /\ Examined(k, s, m, h)
                /\ \E x \in h.ents : Sees(x, k, s) /\ d.seq <= x.seq
<1>1. /\ d \in Entry /\ k \in Nat /\ d.key = k /\ d.seq <= s /\ d.seq \in Nat
      /\ Smallest(g).key <= k /\ k <= Largest(g).key
      /\ d = Largest(g) \/ Before(d, Largest(g))
  BY FileBounds, EntryType, KeysNat DEF Sees
<1>2. /\ Smallest(g) \in Entry /\ Largest(g) \in Entry
      /\ Smallest(g).key \in Nat /\ Largest(g).key \in Nat
  BY FileFacts, FileKeys
<1>3. CASE m = 0
  <2>1. Examined(k, s, m, g)
    BY <1>1, <1>3 DEF Examined, Meets
  <2> QED BY <1>1, <2>1
<1>4. CASE m # 0
  <2>0. m > 0
    BY <1>4, LevelFacts
  <2>1. PICK ik : ik = IKey(k, s)
    OBVIOUS
  <2>2. ik.key = k /\ ik.seq = s
    BY <2>1 DEF IKey
  <2>3. ~Before(Largest(g), ik)
    BY <1>1, <1>2, <2>2, EntryType DEF Before
  <2>4. PICK h \in FindFile(m, ik) : g = h \/ Before(Smallest(h), Smallest(g))
    BY <2>3, FindFileIs
  <2>5. h \in version[m] /\ ~Before(Largest(h), ik)
    BY <2>4, FindFileIs
  <2>6. CASE g = h
    <3>1. Examined(k, s, m, h)
      BY <1>1, <1>4, <2>1, <2>4, <2>6 DEF Examined
    <3> QED BY <1>1, <2>6, <3>1
  <2>7. CASE Before(Smallest(h), Smallest(g))
    <3>1. Precedes(h, g)
      BY <2>0, <2>5, <2>7, KeyOrder
    <3>2. /\ Smallest(h) \in Entry /\ Largest(h) \in Entry /\ Largest(h) \in h.ents
          /\ Smallest(h).key <= Largest(h).key
      BY <2>5, FileFacts, FileKeys
    <3>3. Before(Largest(h), d)
      BY <2>5, <3>1, <3>2, PrecedesFacts
    <3>4. PICK x : x = Largest(h)
      OBVIOUS
    <3>5. x.key = k /\ x.seq <= s /\ d.seq <= x.seq
      BY <1>1, <2>2, <2>5, <3>2, <3>3, <3>4, EntryType DEF Before
    <3>6. Examined(k, s, m, h)
      BY <1>4, <2>1, <2>4, <2>5, <3>2, <3>4, <3>5 DEF Examined
    <3> QED BY <3>2, <3>4, <3>5, <3>6 DEF Sees
  <2> QED BY <2>4, <2>6, <2>7
<1> QED BY <1>3, <1>4

LEMMA GetIsIterValue ==
  ASSUME Inv, LevelsDisjoint, NewerAbove, NEW k \in Keys, NEW s \in Nat
  PROVE  Get(k, s) = IterValue(k, s)
<1>0. TablesOK /\ TypeOK /\ SeqsOK
  BY InvTables DEF Inv
<1>1. /\ mem \in SUBSET Entry /\ imm \in SUBSET Entry
      /\ Distinct(mem) /\ Distinct(imm)
  BY <1>0, EntriesOf DEF TypeOK, SeqsOK, Distinct
<1>2. PICK H : H = {p \in Overlapping(k, s) : Visible(p.file.ents, k, s) # {}}
  OBVIOUS
<1> DEFINE Answer(E) == ValueOf(MinEntry(Visible(E, k, s)))
<1>3. Get(k, s) = IF Visible(mem, k, s) # {} THEN Answer(mem)
                  ELSE IF Visible(imm, k, s) # {} THEN Answer(imm)
                  ELSE IF H # {} THEN Answer(FirstOf(H).file.ents)
                  ELSE NotFound
  BY <1>2, Zenon DEF Get
<1> HIDE DEF Answer
<1>4. \A e : Newest(AllEntries, k, s, e) => IterValue(k, s) = ValueOf(e)
  BY <1>0, IterValueIs
<1>5. ASSUME NEW E \in SUBSET Entry, Distinct(E), Visible(E, k, s) # {}
      PROVE  \E e : Newest(E, k, s, e) /\ Answer(E) = ValueOf(e)
  BY <1>5, NewestIs DEF Answer
<1>6. \A d \in AllEntries : d \in mem \/ d \in imm \/ d \in TableEntries
  BY EntriesOf
<1>7. CASE Visible(mem, k, s) # {}
  <2>1. PICK e : Newest(mem, k, s, e) /\ Answer(mem) = ValueOf(e)
    BY <1>1, <1>5, <1>7
  <2>2. e \in Entry /\ e \in mem /\ e \in AllEntries
    BY <1>1, <2>1, EntriesOf DEF Newest
  <2>3. \A d \in AllEntries : d \in mem \/ d.seq < e.seq
    BY <1>0, <1>6, <2>2 DEF SeqsOK
  <2>4. \A d \in AllEntries : d.seq \in Nat
    BY <1>0, <1>1, <1>6, EntriesOf, FileFacts, EntryType
  <2>5. Newest(AllEntries, k, s, e)
    BY <2>1, <2>2, <2>3, <2>4, EntryType DEF Newest
  <2> QED BY <1>3, <1>4, <1>7, <2>1, <2>5
<1>8. CASE Visible(mem, k, s) = {} /\ Visible(imm, k, s) # {}
  <2>1. PICK e : Newest(imm, k, s, e) /\ Answer(imm) = ValueOf(e)
    BY <1>1, <1>5, <1>8
  <2>2. e \in Entry /\ e \in imm /\ e \in AllEntries
    BY <1>1, <2>1, EntriesOf DEF Newest
  <2>3. \A d \in mem : ~Sees(d, k, s)
    BY <1>8 DEF Visible, Sees
  <2>4. \A d \in TableEntries : d.seq < e.seq
    BY <1>0, <2>2 DEF SeqsOK
  <2>5. \A d \in AllEntries : d.seq \in Nat
    BY <1>0, <1>1, <1>6, EntriesOf, FileFacts, EntryType
  <2>6. Newest(AllEntries, k, s, e)
    BY <1>6, <2>1, <2>2, <2>3, <2>4, <2>5, EntryType DEF Newest
  <2> QED BY <1>3, <1>4, <1>8, <2>1, <2>6
<1>9. CASE Visible(mem, k, s) = {} /\ Visible(imm, k, s) = {}
  <2>1. \A d \in mem \cup imm : ~Sees(d, k, s)
    BY <1>9 DEF Visible, Sees
  <2>2. ASSUME NEW d \in AllEntries, Sees(d, k, s)
        PROVE  \E m, h, x : /\ Examined(k, s, m, h) /\ x \in h.ents
                            /\ Sees(x, k, s) /\ d.seq <= x.seq
                            /\ [level |-> m, file |-> h] \in H
    <3>1. PICK m \in Levels : \E g \in version[m] : d \in g.ents
      BY <1>6, <2>1, <2>2, EntriesOf
    <3>2. PICK h : /\ Examined(k, s, m, h)
                   /\ \E x \in h.ents : Sees(x, k, s) /\ d.seq <= x.seq
      BY <1>0, <2>2, <3>1, LookupFinds
    <3>3. [level |-> m, file |-> h] \in Overlapping(k, s)
      BY <1>0, <3>2, OverlappingIs
    <3>4. Visible(h.ents, k, s) # {}
      BY <3>2 DEF Visible, Sees
    <3> QED BY <1>2, <3>2, <3>3, <3>4
  <2>3. CASE H = {}
    <3>1. \A d \in AllEntries : ~Sees(d, k, s)
      BY <2>2, <2>3
    <3>2. IterValue(k, s) = NotFound
      BY <1>0, <3>1, IterValueIs
    <3> QED BY <1>3, <1>9, <2>3, <3>2
  <2>4. CASE H # {}
    <3>1. PICK p : p = FirstOf(H)
      OBVIOUS
    <3>2. H \in SUBSET Overlapping(k, s)
      BY <1>2
    <3>3. p \in H /\ \A q \in H : q = p \/ NewestFirst(p, q)
      BY <1>0, <2>4, <3>1, <3>2, FirstOfIs
    <3>4. PICK l, f : Examined(k, s, l, f) /\ p = [level |-> l, file |-> f]
      BY <1>0, <3>2, <3>3, OverlappingIs
    <3>5. /\ l \in Levels /\ f \in version[l] /\ p.level = l /\ p.file = f
          /\ f.ents \in SUBSET Entry /\ f.ents \subseteq TableEntries /\ f.num \in Nat
          /\ l # 0 => f.num = 0
      BY <1>0, <3>4, FileFacts, LevelFacts DEF Examined
    <3>6. Distinct(f.ents)
      BY <1>0, <3>5 DEF TablesOK, Distinct
    <3>7. Visible(f.ents, k, s) # {}
      BY <1>2, <3>3, <3>5
    <3>8. PICK e : Newest(f.ents, k, s, e) /\ Answer(f.ents) = ValueOf(e)
      BY <1>5, <3>5, <3>6, <3>7
    <3>9. e \in f.ents /\ e \in Entry /\ e \in AllEntries /\ Sees(e, k, s)
      BY <3>5, <3>8, EntriesOf DEF Newest
    <3>10. ASSUME NEW d \in AllEntries, Sees(d, k, s) PROVE d.seq <= e.seq
      <4>1. PICK m, h, x : /\ Examined(k, s, m, h) /\ x \in h.ents
                           /\ Sees(x, k, s) /\ d.seq <= x.seq
                           /\ [level |-> m, file |-> h] \in H
        BY <2>2, <3>10
      <4>2. /\ m \in Levels /\ h \in version[m] /\ x \in Entry
            /\ h.num \in Nat /\ (m # 0 => h.num = 0)
        BY <1>0, <4>1, FileFacts, LevelFacts DEF Examined
      <4>3. \/ [level |-> m, file |-> h] = p
            \/ l < m
            \/ l = m /\ f.num > h.num
        BY <3>3, <3>5, <4>1 DEF NewestFirst
      <4>4. d \in Entry
        BY <1>0, <1>1, <1>6, EntriesOf, FileFacts
      <4>5. x.seq <= e.seq
        <5>1. CASE [level |-> m, file |-> h] = p
          <6>1. h = f
            BY <3>5, <5>1
          <6> QED BY <3>8, <4>1, <6>1 DEF Newest
        <5>2. CASE l < m
          <6>1. x.seq < e.seq
            BY <3>5, <3>9, <4>1, <4>2, <5>2, NewerLevels DEF Sees
          <6> QED BY <3>9, <4>2, <6>1, EntryType
        <5>3. CASE l = m /\ f.num > h.num
          <6>1. l = 0 /\ m = 0
            BY <3>5, <4>2, <5>3
          <6>2. x.seq < e.seq
            BY <3>5, <3>9, <4>1, <4>2, <5>3, <6>1, NewerZero DEF Sees
          <6> QED BY <3>9, <4>2, <6>2, EntryType
        <5> QED BY <4>3, <5>1, <5>2, <5>3
      <4> QED BY <3>9, <4>1, <4>2, <4>4, <4>5, EntryType
    <3>11. Newest(AllEntries, k, s, e)
      BY <3>9, <3>10 DEF Newest
    <3>12. Get(k, s) = ValueOf(e)
      BY <1>3, <1>9, <2>4, <3>1, <3>5, <3>8
    <3> QED BY <1>4, <3>11, <3>12
  <2> QED BY <2>3, <2>4
<1> QED BY <1>7, <1>8, <1>9

(* Get, which looks at one file of each level and stops at the first that  *)
(* has the key, and an iterator, which merges all tables, agree on every   *)
(* key at every sequence number in use.                                    *)
THEOREM GetAgreesWithIterator == Spec /\ []ManualConnected => []GetMatchesIterator
<1>1. ASSUME Inv, LevelInv PROVE GetMatchesIterator
  <2>1. \A s \in {lastSequence} \cup Range(snapshots) : s \in Nat
    <3>1. lastSequence \in Nat
      BY <1>1, LSMAssumption DEF Inv, TypeOK
    <3>2. \A i \in DOMAIN snapshots : snapshots[i] \in Nat
      BY <1>1, SnapshotType DEF Inv
    <3> QED BY <3>1, <3>2 DEF Range
  <2>2. LevelsDisjoint /\ NewerAbove
    BY <1>1 DEF LevelInv
  <2> QED BY <1>1, <2>1, <2>2, GetIsIterValue DEF GetMatchesIterator
<1> QED BY <1>1, AlwaysInv, AlwaysLevelInv, PTL
-----------------------------------------------------------------------------
(* The tables implement the mapping of KVStore.                            *)

(* What a step may drop without a read at the snapshot noticing: what a    *)
(* newer entry hides, and deletions with nothing left to hide.             *)
Spares(A, B, s) ==
  /\ B \subseteq A
  /\ \A e \in A : e \notin B =>
       \/ \E p \in A : p.key = e.key /\ e.seq < p.seq /\ p.seq <= s
       \/ e.type = "deletion" /\ \A d \in B : d.key = e.key => e.seq < d.seq

LEMMA SameShown ==
  ASSUME NEW A \in SUBSET Entry, Distinct(A), NEW B, NEW s \in Nat, Spares(A, B, s),
         NEW k
  PROVE  Shown(B, k, s) = Shown(A, k, s)
<1>0. B \in SUBSET Entry /\ Distinct(B) /\ B \subseteq A
  BY DEF Spares, Distinct
<1>1. CASE \A e \in A : ~Sees(e, k, s)
  BY <1>0, <1>1, ShownIs
<1>2. ASSUME NEW e, Newest(A, k, s, e) PROVE Shown(B, k, s) = Shown(A, k, s)
  <2>1. /\ e \in A /\ e \in Entry /\ Sees(e, k, s)
        /\ \A d \in A : Sees(d, k, s) => d.seq <= e.seq
    BY <1>2 DEF Newest
  <2>2. CASE e \in B
    <3>1. Newest(B, k, s, e)
      BY <1>0, <2>1, <2>2 DEF Newest
    <3> QED BY <1>0, <1>2, <3>1, ShownIs
  <2>3. CASE e \notin B
    <3>1. ~\E p \in A : p.key = e.key /\ e.seq < p.seq /\ p.seq <= s
      BY <2>1, EntryType DEF Sees
    <3>2. e.type = "deletion" /\ \A d \in B : d.key = e.key => e.seq < d.seq
      BY <2>1, <2>3, <3>1 DEF Spares
    <3>3. Shown(A, k, s) = NotFound
      BY <1>2, <3>2, ShownIs DEF ValueOf
    <3>4. \A d \in B : ~Sees(d, k, s)
      BY <1>0, <2>1, <3>2, EntryType DEF Sees
    <3> QED BY <1>0, <3>3, <3>4, ShownIs
  <2> QED BY <2>2, <2>3
<1> QED BY <1>1, <1>2, ShownIs

LEMMA EntriesOfNext ==
  /\ AllEntries' = mem' \cup imm' \cup TableEntries'
  /\ \A e : e \in TableEntries' <=> \E l \in Levels : \E f \in version'[l] : e \in f.ents
BY DEF AllEntries, TableEntries, Entries

(* Switching, flushing and moving lose no entry and make none.             *)
LEMMA EntriesKept ==
  ASSUME Inv, Quiet \/ Flushing \/ Moving \/ Starting
  PROVE  AllEntries' = AllEntries
<1>1. AllEntries = mem \cup imm \cup TableEntries
  BY EntriesOf
<1>2. AllEntries' = mem' \cup imm' \cup TableEntries'
  BY EntriesOfNext
<1>3. CASE Quiet \/ Starting
  <2>1. version' = version /\ mem' \cup imm' = mem \cup imm
    BY <1>3 DEF Quiet, Starting, Beside
  <2>2. TableEntries' = TableEntries
    BY <2>1 DEF TableEntries
  <2> QED BY <1>1, <1>2, <2>1, <2>2
<1>4. CASE Flushing
  <2>1. PICK p, t : Flushes(p, t)
    BY <1>4 DEF Flushing
  <2>2. /\ TableEntries' \subseteq TableEntries \cup imm
        /\ \A m \in Levels : version[m] \subseteq version'[m]
    BY <2>1, FlushReplaces DEF Inv
  <2>3. TableEntries \subseteq TableEntries'
    BY <2>2, EntriesOf, EntriesOfNext
  <2>4. p \in Levels /\ t \in version'[p] /\ t.ents = imm
    <3>1. /\ p \in Levels /\ t.ents = imm /\ version \in [Levels -> SUBSET File]
          /\ version' = [version EXCEPT ![p] = @ \cup {t}]
      BY <2>1 DEF Flushes, Inv, TypeOK
    <3> QED BY <3>1
  <2>5. imm \subseteq TableEntries'
    BY <2>4, EntriesOfNext
  <2>6. mem' = mem /\ imm' = {}
    BY <1>4 DEF Flushing, Beside
  <2> QED BY <1>1, <1>2, <2>2, <2>3, <2>5, <2>6
<1>5. CASE Moving
  <2>1. PICK l, f : Installs(l, {f}, {}, {[f EXCEPT !.num = 0]})
    BY <1>5 DEF Moving
  <2>2. PICK g : g = [f EXCEPT !.num = 0]
    OBVIOUS
  <2>3. /\ TableEntries' \subseteq TableEntries
        /\ \A m \in Levels : m # l /\ m # l + 1 => version'[m] = version[m]
        /\ version'[l] = version[l] \ {f}
        /\ version'[l + 1] = (version[l + 1] \ {}) \cup {g}
    BY <2>1, <2>2, InstallReplaces DEF Inv
  <2>4. l \in LowLevel /\ f \in version[l]
    BY <2>1 DEF Installs
  <2>5. l \in Levels /\ l + 1 \in Levels /\ l # l + 1
    BY <2>4, LevelFacts
  <2>6. f \in File
    BY <2>4, <2>5 DEF Inv, TypeOK
  <2>7. g.ents = f.ents
    BY <2>2, <2>6 DEF File
  <2>8. ASSUME NEW m \in Levels, NEW h \in version[m]
        PROVE  \E i \in Levels : \E x \in version'[i] : x.ents = h.ents
    <3>1. CASE m = l /\ h = f
      BY <2>3, <2>5, <2>7, <3>1
    <3>2. CASE ~(m = l /\ h = f)
      BY <2>3, <2>8, <3>2
    <3> QED BY <3>1, <3>2
  <2>9. TableEntries \subseteq TableEntries'
    BY <2>8, EntriesOf, EntriesOfNext
  <2>10. mem' = mem /\ imm' = imm
    BY <1>5 DEF Moving, Beside
  <2> QED BY <1>1, <1>2, <2>3, <2>9, <2>10
<1> QED BY <1>3, <1>4, <1>5

(* The results of a compaction spare every snapshot that it has looked at. *)
(* A deletion is dropped only when nothing older of its key is left: not   *)
(* in its inputs, for it hides that; not beside or above them, for what is *)
(* there is newer; and not below, where no file reached over the key when  *)
(* the compaction began and what came since is newer.                      *)
LEMMA InstallSpares ==
  ASSUME Inv, LevelInv, Installing, NEW s \in Nat, compaction.smallestSnapshot <= s
  PROVE  Spares(AllEntries, AllEntries', s)
<1>1. PICK c, l, O : c = compaction /\ l = compaction.level /\ O = Outputs(compaction)
  OBVIOUS
<1>2. /\ l \in LowLevel /\ l \in Nat /\ c.smallestSnapshot \in Nat
      /\ c.in0 \subseteq version[l] /\ c.in1 \subseteq version[l + 1]
      /\ Entries(In(c)) \in SUBSET Entry /\ Distinct(Entries(In(c)))
      /\ Entries(In(c)) \subseteq TableEntries
  BY <1>1, RunningInputs DEF Inv, Installing
<1>3. /\ Installs(l, c.in0, c.in1, O) /\ OutputsOK(c, O)
      /\ mem' = mem /\ imm' = imm
  BY <1>1 DEF Installing, Beside
<1>4. /\ TableEntries' \subseteq TableEntries
      /\ \A m \in Levels : m # l /\ m # l + 1 => version'[m] = version[m]
      /\ version'[l] = version[l] \ c.in0
      /\ version'[l + 1] = (version[l + 1] \ c.in1) \cup O
  BY <1>3, InstallReplaces DEF Inv
<1>5. l \in Levels /\ l + 1 \in Levels /\ l # l + 1
  BY <1>2, LevelFacts
<1>6. Separated(l, c.in0, c.in1)
  BY <1>1, MergeIs DEF LevelInv, Installing
<1>7. /\ AllEntries = mem \cup imm \cup TableEntries
      /\ AllEntries' = mem \cup imm \cup TableEntries'
  BY <1>3, EntriesOf, EntriesOfNext
<1>8. TablesOK /\ SeqsOK /\ NewerAbove
  BY InvTables DEF Inv, LevelInv
<1>9. Entries(O) \subseteq TableEntries'
  BY <1>4, <1>5, EntriesOfNext DEF Entries
<1>10. ASSUME NEW e \in AllEntries, e \notin AllEntries'
       PROVE  e \in Entries(In(c)) /\ e \notin Entries(O) /\ e \in TableEntries
  <2>1. e \in TableEntries /\ e \notin TableEntries'
    BY <1>7, <1>10
  <2>2. PICK m \in Levels : \E g \in version[m] : e \in g.ents
    BY <2>1, EntriesOf
  <2>3. PICK g \in version[m] : e \in g.ents
    BY <2>2
  <2>4. g \notin version'[m]
    BY <2>1, <2>3, EntriesOfNext
  <2>5. g \in c.in0 \cup c.in1
    BY <1>4, <2>4
  <2>6. e \in Entries(In(c))
    BY <2>3, <2>5 DEF Entries, In
  <2> QED BY <1>9, <2>1, <2>6
<1>11. ASSUME NEW e \in Entries(In(c)), e \notin Entries(O), Obsolete(c, e),
              NEW d \in AllEntries', d.key = e.key
       PROVE  e.seq < d.seq
  <2>0. e \in TableEntries /\ e \in Entry
    BY <1>2
  <2>1. CASE d \in mem \cup imm
    BY <1>8, <2>0, <2>1 DEF SeqsOK
  <2>2. CASE d \in TableEntries'
    <3>1. PICK m \in Levels : \E g \in version'[m] : d \in g.ents
      BY <2>2, EntriesOfNext
    <3>2. PICK g \in version'[m] : d \in g.ents
      BY <3>1
    <3>3. CASE g \in O /\ m = l + 1
      <4>1. d \in Entries(O)
        BY <3>2, <3>3 DEF Entries
      <4>2. d \in Entries(In(c)) /\ d \in Entry
        BY <1>2, <1>3, <3>2, <3>3 DEF OutputsOK
      <4>3. ~Hidden(c, d)
        BY <1>3, <4>1, <4>2 DEF OutputsOK
      <4>4. ~(d.seq < e.seq)
        BY <1>11, <4>3 DEF Hidden, Obsolete
      <4>5. d.seq # e.seq
        BY <1>2, <1>11, <4>1, <4>2 DEF Distinct
      <4> QED BY <2>0, <4>2, <4>4, <4>5, EntryType
    <3>4. CASE g \in (version[l] \ c.in0) \cup (version[l + 1] \ c.in1)
      BY <1>6, <1>11, <3>2, <3>4 DEF Separated, In
    <3>5. CASE m # l /\ m # l + 1 /\ g \in version[m]
      <4>0. m \in Nat
        BY LevelFacts
      <4>1. CASE m < l
        <5>1. PICK f \in In(c) : e \in f.ents
          BY <1>11 DEF Entries
        <5>2. CASE f \in version[l]
          BY <1>5, <1>8, <1>11, <3>2, <3>5, <4>1, <5>1, <5>2, NewerLevels
        <5>3. CASE f \in version[l + 1]
          <6>1. m < l + 1
            BY <1>2, <4>0, <4>1
          <6> QED BY <1>5, <1>8, <1>11, <3>2, <3>5, <6>1, <5>1, <5>3, NewerLevels
        <5> QED BY <1>2, <5>1, <5>2, <5>3 DEF In
      <4>2. CASE l + 2 <= m
        <5>1. \/ g \in c.base[m]
              \/ \A x \in g.ents : \A y \in Entries(In(c)) : y.seq < x.seq
          BY <1>1, <3>5, <4>2 DEF Inv, RunningOK, Installing
        <5>2. ASSUME g \in c.base[m] PROVE FALSE
          <6>1. ~Meets(g, e.key, e.key)
            <7>1. m \in c.level + 2 .. NumLevels - 1
              BY <1>1, <1>2, <4>0, <4>2, LevelFacts
            <7> QED BY <1>11, <5>2, <7>1 DEF Obsolete, IsBaseLevelForKey
          <6>2. Smallest(g).key <= e.key /\ e.key <= Largest(g).key
            BY <1>8, <1>11, <3>2, <3>5, FileBounds
          <6> QED BY <6>1, <6>2 DEF Meets
        <5> QED BY <1>11, <3>2, <5>1, <5>2
      <4> QED BY <1>2, <3>5, <4>0, <4>1, <4>2
    <3> QED BY <1>4, <3>2, <3>3, <3>4, <3>5
  <2> QED BY <1>7, <2>1, <2>2
<1>12. ASSUME NEW e \in AllEntries, e \notin AllEntries'
       PROVE  \/ \E p \in AllEntries : p.key = e.key /\ e.seq < p.seq /\ p.seq <= s
              \/ e.type = "deletion" /\ \A d \in AllEntries' : d.key = e.key => e.seq < d.seq
  <2>1. e \in Entries(In(c)) /\ e \notin Entries(O)
    BY <1>10, <1>12
  <2>2. Hidden(c, e) \/ Obsolete(c, e)
    BY <1>3, <2>1 DEF OutputsOK
  <2>3. CASE Hidden(c, e)
    <3>1. PICK p \in Entries(In(c)) : /\ p.key = e.key /\ e.seq < p.seq
                                      /\ p.seq <= c.smallestSnapshot
      BY <2>3 DEF Hidden
    <3>2. p \in AllEntries /\ p \in Entry
      BY <1>2, <1>7, <3>1
    <3>3. p.seq <= s
      BY <1>1, <1>2, <3>1, <3>2, EntryType
    <3> QED BY <3>1, <3>2, <3>3
  <2>4. CASE Obsolete(c, e)
    <3>1. e.type = "deletion"
      BY <2>4 DEF Obsolete
    <3> QED BY <1>11, <2>1, <2>4, <3>1
  <2> QED BY <2>2, <2>3, <2>4
<1> QED BY <1>4, <1>7, <1>12 DEF Spares

(* The mapping of KVStore, in terms of the entries.                        *)
LEMMA StoreIs ==
  ASSUME GetMatchesIterator
  PROVE  /\ Store = [k \in Keys |-> Shown(AllEntries, k, lastSequence)]
         /\ Views = [i \in DOMAIN snapshots |->
                       [k \in Keys |-> Shown(AllEntries, k, snapshots[i])]]
<1>1. \A k \in Keys, s \in {lastSequence} \cup Range(snapshots) :
        Get(k, s) = Shown(AllEntries, k, s)
  BY DEF GetMatchesIterator, IterValue, Shown
<1>2. \A i \in DOMAIN snapshots : snapshots[i] \in Range(snapshots)
  BY DEF Range
<1> QED BY <1>1, <1>2 DEF Store, Views

LEMMA StoreIsNext ==
  ASSUME GetMatchesIterator'
  PROVE  /\ Store' = [k \in Keys |-> Shown(AllEntries', k, lastSequence')]
         /\ Views' = [i \in DOMAIN snapshots' |->
                        [k \in Keys |-> Shown(AllEntries', k, snapshots'[i])]]
<1>1. \A k \in Keys, s \in {lastSequence'} \cup Range(snapshots') :
        Get(k, s)' = Shown(AllEntries', k, s)
  BY DEF GetMatchesIterator, IterValue, Shown
<1>2. \A i \in DOMAIN snapshots' : snapshots'[i] \in Range(snapshots')
  BY DEF Range
<1> QED BY <1>1, <1>2 DEF Store, Views

(* Flushes and compactions change nothing that a caller can see.           *)
LEMMA BackgroundStutters ==
  ASSUME Inv, Inv', LevelInv, GetMatchesIterator, GetMatchesIterator',
         Quiet \/ Flushing \/ Moving \/ Starting \/ Installing
  PROVE  lastSequence' = lastSequence /\ Store' = Store /\ Views' = Views
<1>1. lastSequence' = lastSequence /\ snapshots' = snapshots
  BY DEF Quiet, Flushing, Moving, Starting, Installing, Beside
<1>2. /\ lastSequence \in Nat
      /\ \A i \in DOMAIN snapshots : snapshots[i] \in Nat
  BY SnapshotType DEF Inv
<1>3. PICK A, B : A = AllEntries /\ B = AllEntries'
  OBVIOUS
<1>4. A \in SUBSET Entry /\ Distinct(A)
  BY <1>3, EntriesType DEF Inv
<1>5. CASE Quiet \/ Flushing \/ Moving \/ Starting
  <2>1. B = A
    BY <1>3, <1>5, EntriesKept
  <2> QED BY <1>1, <1>3, <2>1, StoreIs, StoreIsNext
<1>6. CASE Installing
  <2>1. /\ compaction.smallestSnapshot <= lastSequence
        /\ \A i \in DOMAIN snapshots : compaction.smallestSnapshot <= snapshots[i]
    BY <1>6 DEF Inv, RunningOK, Installing
  <2>2. \A s \in Nat : compaction.smallestSnapshot <= s => Spares(A, B, s)
    BY <1>3, <1>6, InstallSpares
  <2>3. \A k \in Keys : Shown(B, k, lastSequence) = Shown(A, k, lastSequence)
    BY <1>2, <1>4, <2>1, <2>2, SameShown
  <2>4. \A i \in DOMAIN snapshots : \A k \in Keys :
          Shown(B, k, snapshots[i]) = Shown(A, k, snapshots[i])
    BY <1>2, <1>4, <2>1, <2>2, SameShown
  <2>5. Store' = Store
    BY <1>1, <1>3, <2>3, StoreIs, StoreIsNext
  <2>6. Views' = Views
    BY <1>1, <1>3, <2>4, StoreIs, StoreIsNext
  <2> QED BY <1>1, <2>5, <2>6
<1> QED BY <1>5, <1>6

(* A write changes the mapping at its key and no snapshot's view.          *)
LEMMA WriteMaps ==
  ASSUME Inv, Inv', GetMatchesIterator, GetMatchesIterator',
         NEW k \in Keys, NEW t \in {"value", "deletion"}, Write(k, t)
  PROVE  KV!Put(k) \/ KV!Delete(k)
<1>1. /\ lastSequence' = lastSequence + 1 /\ snapshots' = snapshots
      /\ mem' = mem \cup {[key |-> k, seq |-> lastSequence', type |-> t]}
      /\ imm' = imm /\ version' = version
  BY DEF Write
<1>2. /\ lastSequence \in Nat
      /\ \A i \in DOMAIN snapshots : snapshots[i] \in Nat /\ snapshots[i] <= lastSequence
  BY SnapshotType DEF Inv, SnapshotsOK
<1>3. PICK A, B, n, e : /\ A = AllEntries /\ B = AllEntries' /\ n = lastSequence
                        /\ e = [key |-> k, seq |-> lastSequence', type |-> t]
  OBVIOUS
<1>4. /\ e.key = k /\ e.seq = n + 1 /\ e.type = t
      /\ n \in Nat
  BY <1>1, <1>2, <1>3
<1>5. B = A \cup {e}
  <2>1. TableEntries' = TableEntries
    BY <1>1 DEF TableEntries
  <2> QED BY <1>1, <1>3, <2>1, EntriesOf, EntriesOfNext
<1>6. A \in SUBSET Entry /\ Distinct(A) /\ \A d \in A : d.seq <= n
  BY <1>3, EntriesType DEF Inv, SeqsOK
<1>7. B \in SUBSET Entry /\ Distinct(B)
  <2>1. e \in mem' /\ mem' \subseteq Entry
    BY <1>1, <1>3 DEF Inv, TypeOK
  <2>2. Distinct(AllEntries')
    BY DEF Inv, SeqsOK, Distinct
  <2> QED BY <1>3, <1>5, <1>6, <2>1, <2>2
<1>8. \A d \in A : d.seq \in Nat
  BY <1>6, EntryType
<1>9. ASSUME NEW j \in Keys, j # k PROVE Shown(B, j, n + 1) = Shown(A, j, n)
  <2>1. Visible(B, j, n + 1) = Visible(A, j, n)
    BY <1>4, <1>5, <1>6, <1>8, <1>9 DEF Visible
  <2> QED BY <2>1 DEF Shown
<1>10. Shown(B, k, n + 1) = ValueOf(e)
  <2>1. Newest(B, k, n + 1, e)
    BY <1>4, <1>5, <1>6, <1>8 DEF Newest, Sees
  <2> QED BY <1>7, <2>1, ShownIs
<1>11. ASSUME NEW j \in Keys, NEW s \in Nat, s <= n PROVE Shown(B, j, s) = Shown(A, j, s)
  <2>1. Visible(B, j, s) = Visible(A, j, s)
    BY <1>4, <1>5, <1>11 DEF Visible
  <2> QED BY <2>1 DEF Shown
<1>12. Views' = Views
  <2>1. \A i \in DOMAIN snapshots : \A j \in Keys :
          Shown(B, j, snapshots[i]) = Shown(A, j, snapshots[i])
    BY <1>2, <1>3, <1>11
  <2> QED BY <1>1, <1>3, <2>1, StoreIs, StoreIsNext
<1>13. Store' = [Store EXCEPT ![k] = ValueOf(e)]
  <2>1. Store = [j \in Keys |-> Shown(A, j, n)]
    BY <1>3, StoreIs
  <2>2. Store' = [j \in Keys |-> Shown(B, j, n + 1)]
    BY <1>1, <1>3, StoreIsNext
  <2> QED BY <1>9, <1>10, <2>1, <2>2
<1>14. CASE t = "value"
  <2>1. ValueOf(e) = lastSequence'
    BY <1>1, <1>3, <1>4, <1>14 DEF ValueOf
  <2>2. KV!Put(k)
    BY <1>1, <1>12, <1>13, <2>1 DEF KV!Put
  <2> QED BY <2>2
<1>15. CASE t = "deletion"
  <2>1. ValueOf(e) = KV!NotFound
    BY <1>4, <1>15 DEF ValueOf, NotFound, KV!NotFound
  <2>2. KV!Delete(k)
    BY <1>1, <1>12, <1>13, <2>1 DEF KV!Delete
  <2> QED BY <2>2
<1> QED BY <1>14, <1>15

(* Sequences given by their elements.                                      *)
LEMMA ListIsSeq ==
  ASSUME NEW n \in Nat, NEW S, NEW V \in [1 .. n -> S]
  PROVE  V \in Seq(S) /\ Len(V) = n
<1>1. V \in Seq(S)
  BY SeqDef, Zenon
<1>2. Len(V) \in Nat /\ DOMAIN V = 1 .. Len(V)
  BY <1>1, LenProperties
<1>3. 1 .. Len(V) = 1 .. n
  BY <1>2
<1>4. PICK m \in Nat : m = Len(V)
  BY <1>2
<1>5. 1 .. m = 1 .. n
  BY <1>3, <1>4
<1>6. m = n
  <2>1. m < n => n \in 1 .. n /\ n \notin 1 .. m
    OBVIOUS
  <2>2. n < m => m \in 1 .. m /\ m \notin 1 .. n
    OBVIOUS
  <2> QED BY <1>5, <2>1, <2>2
<1> QED BY <1>1, <1>4, <1>6

LEMMA AppendElements ==
  ASSUME NEW n \in Nat, NEW S, NEW V \in [1 .. n -> S], NEW x \in S,
         NEW W \in [1 .. n + 1 -> S],
         \A i \in 1 .. n : W[i] = V[i], W[n + 1] = x
  PROVE  W = Append(V, x)
<1>1. V \in Seq(S) /\ Len(V) = n
  BY ListIsSeq
<1>2. W \in Seq(S) /\ Len(W) = n + 1
  BY ListIsSeq
<1>3. PICK U : U = Append(V, x)
  OBVIOUS
<1>4. /\ U \in Seq(S) /\ Len(U) = n + 1
      /\ \A i \in 1 .. n : U[i] = V[i]
      /\ U[n + 1] = x
  BY <1>1, <1>3, AppendProperties
<1>5. \A i \in 1 .. Len(W) : W[i] = U[i]
  BY <1>2, <1>4
<1> QED BY <1>2, <1>3, <1>4, <1>5, SeqEqual

Removed(S, s, n, t) ==
  /\ t \in Seq(S) /\ Len(t) = Len(s) - 1
  /\ \A i \in 1 .. n - 1 : t[i] = s[i]
  /\ \A i \in n .. Len(s) - 1 : t[i] = s[i + 1]

LEMMA RemoveAtRemoves ==
  ASSUME NEW S, NEW s \in Seq(S), NEW n \in 1 .. Len(s)
  PROVE  Removed(S, s, n, RemoveAt(s, n))
<1>1. PICK t : t = RemoveAt(s, n)
  OBVIOUS
<1>2. Removed(S, s, n, t)
  BY <1>1, RemoveAtIs, SMTT(60) DEF Removed
<1> QED BY <1>1, <1>2

Skips(V, m, n, W) ==
  /\ \A i \in 1 .. m - 1 : W[i] = V[i]
  /\ \A i \in m .. n - 1 : W[i] = V[i + 1]

LEMMA RemoveElements ==
  ASSUME NEW n \in Nat, NEW S, NEW V \in [1 .. n -> S], NEW m \in 1 .. n,
         NEW W \in [1 .. n - 1 -> S], Skips(V, m, n, W)
  PROVE  W = RemoveAt(V, m)
<1>1. V \in Seq(S) /\ Len(V) = n
  BY ListIsSeq
<1>2. W \in Seq(S) /\ Len(W) = n - 1
  <2>1. n - 1 \in Nat
    OBVIOUS
  <2> QED BY <2>1, ListIsSeq
<1>3. PICK U : U = RemoveAt(V, m)
  OBVIOUS
<1>4. /\ U \in Seq(S) /\ Len(U) = n - 1
      /\ \A i \in 1 .. m - 1 : U[i] = V[i]
      /\ \A i \in m .. n - 1 : U[i] = V[i + 1]
  <2>1. m \in 1 .. Len(V)
    BY <1>1
  <2>2. /\ U \in Seq(S) /\ Len(U) = Len(V) - 1
        /\ \A i \in 1 .. m - 1 : U[i] = V[i]
        /\ \A i \in m .. Len(V) - 1 : U[i] = V[i + 1]
    BY <1>1, <1>3, <2>1, RemoveAtRemoves DEF Removed
  <2> QED BY <1>1, <2>2
<1>5. \A i \in 1 .. n - 1 : i \in 1 .. m - 1 \/ i \in m .. n - 1
  OBVIOUS
<1>6. \A i \in 1 .. Len(W) : W[i] = U[i]
  BY <1>2, <1>4, <1>5 DEF Skips
<1> QED BY <1>2, <1>3, <1>4, <1>6, SeqEqual

(* A new snapshot shows the mapping, and one that is released takes away   *)
(* its own view.                                                           *)
LEMMA SnapshotMaps ==
  ASSUME Inv, Inv', GetMatchesIterator, GetMatchesIterator',
         GetSnapshot \/ ReleaseSnapshot
  PROVE  KV!GetSnapshot \/ KV!ReleaseSnapshot
<1>1. /\ lastSequence' = lastSequence /\ mem' = mem /\ imm' = imm
      /\ version' = version
  BY DEF GetSnapshot, ReleaseSnapshot, memVars
<1>2. AllEntries' = AllEntries
  BY <1>1 DEF AllEntries
<1>3. Store' = Store
  BY <1>1, <1>2, StoreIs, StoreIsNext
<1>4. PICK n, q, r, V, W, A : /\ n = Len(snapshots) /\ q = snapshots /\ r = snapshots'
                              /\ V = Views /\ W = Views' /\ A = AllEntries
  OBVIOUS
<1>5. /\ n \in Nat /\ DOMAIN q = 1 .. n /\ q \in Seq(0 .. MaxWrites)
      /\ lastSequence \in 0 .. MaxWrites
  BY <1>4, SnapshotType DEF Inv, TypeOK
<1>6. /\ V = [i \in DOMAIN q |-> [k \in Keys |-> Shown(A, k, q[i])]]
      /\ W = [i \in DOMAIN r |-> [k \in Keys |-> Shown(A, k, r[i])]]
      /\ Store = [k \in Keys |-> Shown(A, k, lastSequence)]
  BY <1>2, <1>4, StoreIs, StoreIsNext
<1>7. PICK x, S : /\ x = Store
                  /\ S = {V[i] : i \in DOMAIN V} \cup {W[i] : i \in DOMAIN W}
  OBVIOUS
<1>8. DOMAIN V = 1 .. n /\ DOMAIN W = DOMAIN r
  BY <1>5, <1>6
<1>9. V \in [DOMAIN V -> S]
  <2>1. V = [i \in DOMAIN V |-> V[i]]
    BY <1>6
  <2> QED BY <1>7, <2>1
<1>10. W \in [DOMAIN W -> S]
  <2>1. W = [i \in DOMAIN W |-> W[i]]
    BY <1>6
  <2> QED BY <1>7, <2>1
<1>11. CASE GetSnapshot
  <2>1. r = Append(q, lastSequence)
    BY <1>4, <1>11 DEF GetSnapshot
  <2>2. /\ DOMAIN r = 1 .. n + 1 /\ \A i \in 1 .. n : r[i] = q[i]
        /\ r[n + 1] = lastSequence
    BY <1>4, <1>5, <2>1, AppendProperties
  <2>3. V \in [1 .. n -> S] /\ W \in [1 .. n + 1 -> S]
    BY <1>8, <1>9, <1>10, <2>2
  <2>4. \A i \in 1 .. n : W[i] = V[i]
    <3> TAKE i \in 1 .. n
    <3>1. i \in DOMAIN r /\ i \in DOMAIN q /\ r[i] = q[i]
      BY <1>5, <2>2
    <3> QED BY <1>6, <3>1
  <2>5. n + 1 \in DOMAIN r
    BY <1>5, <2>2
  <2>6. W[n + 1] = x /\ W[n + 1] \in S
    BY <1>6, <1>7, <1>8, <2>2, <2>5
  <2>7. W = Append(V, x)
    BY <1>5, <2>3, <2>4, <2>6, AppendElements
  <2>8. DOMAIN W # DOMAIN V
    <3>1. n + 1 \notin 1 .. n
      BY <1>5
    <3> QED BY <1>8, <2>5, <3>1
  <2>9. Views' = Append(Views, Store) /\ DOMAIN Views' # DOMAIN Views
    BY <1>4, <1>7, <2>7, <2>8
  <2> QED BY <1>1, <1>3, <2>9 DEF KV!GetSnapshot
<1>12. CASE ReleaseSnapshot
  <2>1. PICK m \in DOMAIN q : r = RemoveAt(q, m)
    BY <1>4, <1>12 DEF ReleaseSnapshot
  <2>2. m \in 1 .. n /\ Len(q) = n
    BY <1>4, <1>5
  <2>3. /\ DOMAIN r = 1 .. n - 1 /\ \A i \in 1 .. m - 1 : r[i] = q[i]
        /\ \A i \in m .. n - 1 : r[i] = q[i + 1]
    <3>1. PICK Q : Q = 0 .. MaxWrites
      OBVIOUS
    <3>2. q \in Seq(Q)
      BY <1>5, <3>1
    <3> QED BY <2>1, <2>2, <3>2, RemoveAtIs, SMTT(60)
  <2>4. V \in [1 .. n -> S] /\ W \in [1 .. n - 1 -> S]
    BY <1>8, <1>9, <1>10, <2>3
  <2>5. \A i \in 1 .. m - 1 : W[i] = V[i]
    <3> TAKE i \in 1 .. m - 1
    <3>1. i \in DOMAIN r /\ i \in DOMAIN q /\ r[i] = q[i]
      BY <1>5, <2>2, <2>3
    <3> QED BY <1>6, <3>1
  <2>6. \A i \in m .. n - 1 : W[i] = V[i + 1]
    <3> TAKE i \in m .. n - 1
    <3>1. i \in DOMAIN r /\ i + 1 \in DOMAIN q /\ r[i] = q[i + 1]
      BY <1>5, <2>2, <2>3
    <3> QED BY <1>6, <3>1
  <2>7. W = RemoveAt(V, m)
    <3>1. Skips(V, m, n, W)
      BY <2>5, <2>6 DEF Skips
    <3> QED BY <1>5, <2>2, <2>4, <3>1, RemoveElements
  <2>8. DOMAIN W # DOMAIN V
    <3>1. n \in 1 .. n /\ n \notin 1 .. n - 1
      BY <1>5, <2>2
    <3> QED BY <1>8, <2>3, <3>1
  <2>9. m \in DOMAIN Views /\ DOMAIN Views' # DOMAIN Views
    BY <1>4, <1>8, <2>2, <2>8
  <2>10. Views' = RemoveAt(Views, m)
    BY <1>4, <2>7
  <2> QED BY <1>1, <1>3, <2>9, <2>10 DEF KV!ReleaseSnapshot, KV!RemoveAt, RemoveAt
<1> QED BY <1>11, <1>12

(* The database implements the mapping with snapshots of KVStore: a write  *)
(* changes what Get returns for its key only; flushes, moves and           *)
(* compactions, with any writes, snapshots and flushes while they run,     *)
(* change nothing a caller can see, now or through a snapshot.             *)
THEOREM ImplementsKVStore == Spec /\ []ManualConnected => KVSpec
<1>1. ASSUME Init PROVE KV!Init
  <2>1. lastSequence = 0 /\ snapshots = <<>> /\ mem = {} /\ imm = {}
        /\ \A l \in Levels : version[l] = {}
    BY <1>1 DEF Init
  <2>2. Views = <<>>
    BY <2>1 DEF Views
  <2>3. \A k, s : Overlapping(k, s) = {}
    BY <2>1 DEF Overlapping, FindFile
  <2>4. \A k, s : Get(k, s) = NotFound
    BY <2>1, <2>3 DEF Get, Visible
  <2>5. Store = [k \in Keys |-> KV!NotFound]
    BY <2>4 DEF Store, NotFound, KV!NotFound
  <2> QED BY <2>1, <2>2, <2>5 DEF KV!Init
<1>2. ASSUME Inv, Inv', LevelInv, GetMatchesIterator, GetMatchesIterator', [Next]_vars
      PROVE  [KV!Next]_KV!kvVars
  <2>1. ASSUME NEW k \in Keys, NEW t \in {"value", "deletion"}, Write(k, t)
        PROVE  KV!Next
    BY <1>2, <2>1, WriteMaps DEF KV!Next
  <2>2. CASE GetSnapshot \/ ReleaseSnapshot
    BY <1>2, <2>2, SnapshotMaps DEF KV!Next
  <2>3. CASE Quiet \/ Flushing \/ Moving \/ Starting \/ Installing
    <3>1. lastSequence' = lastSequence /\ Store' = Store /\ Views' = Views
      BY <1>2, <2>3, BackgroundStutters
    <3> QED BY <3>1 DEF KV!kvVars
  <2>4. LevelsDisjoint
    BY <1>2 DEF LevelInv
  <2> QED BY <1>2, <2>1, <2>2, <2>3, <2>4, StepEffect
<1> QED BY <1>1, <1>2, AlwaysInv, AlwaysLevelInv, GetAgreesWithIterator, PTL
        DEF Spec, KVSpec, KV!Spec

-----------------------------------------------------------------------------
(* A database on which CompactRange is never called.                       *)

Unasked == scenario.manuals = 0 /\ manuals = 0 /\ manual.pc = "idle"

(* Nothing but CompactRange leads into a manual compaction.                *)
LEMMA UnaskedNext ==
  ASSUME Inv, Unasked, [Next]_vars
  PROVE  Unasked'
<1>1. CASE UNCHANGED vars
  BY <1>1 DEF Unasked, vars, manualVars
<1>2. CASE Next
  <2>0. scenario' = scenario
    BY <1>2 DEF Next
  <2>1. ASSUME UNCHANGED manualVars PROVE Unasked'
    BY <2>0, <2>1 DEF Unasked, manualVars
  <2>2. CASE \E k \in Keys, t \in {"value", "deletion"} : Write(k, t)
    BY <2>1, <2>2 DEF Write
  <2>3. CASE MakeRoomForWrite
    BY <2>1, <2>3 DEF MakeRoomForWrite, SwitchMemTable, manualVars
  <2>4. CASE GetSnapshot \/ ReleaseSnapshot
    BY <2>1, <2>4 DEF GetSnapshot, ReleaseSnapshot
  <2>5. CASE \E k \in Keys, s \in 0 .. lastSequence : UpdateStats(k, s)
    BY <2>1, <2>5 DEF UpdateStats
  <2>6. CASE CompactMemTable
    BY <2>1, <2>6 DEF CompactMemTable
  <2>7. CASE BackgroundCompaction
    BY <2>1, <2>7 DEF BackgroundCompaction
  <2>8. CASE DoCompactionWork
    <3>1. compaction.running /\ manuals' = manuals
      BY <2>8 DEF DoCompactionWork
    <3>2. ~compaction.manual
      BY <3>1 DEF Inv, RunningOK, Unasked
    <3>3. manual' = manual
      BY <2>8, <3>2 DEF DoCompactionWork
    <3> QED BY <2>1, <3>1, <3>3 DEF manualVars
  <2>9. CASE \/ ManualCompaction \/ ManualSwitch \/ ManualWait \/ ManualPost
             \/ ManualNextLevel
    BY <2>9 DEF ManualCompaction, ManualPosted, ManualSwitch, ManualWait,
                ManualPost, ManualNextLevel, Unasked
  <2>10. CASE \E r \in scenario.ranges : CompactRange(r.begin, r.end)
    BY <2>10 DEF CompactRange, Unasked
  <2> QED BY <1>2, <2>2, <2>3, <2>4, <2>5, <2>6, <2>7, <2>8, <2>9, <2>10
          DEF Next, Step
<1> QED BY <1>1, <1>2

(* Without calls of CompactRange nothing is assumed: automatic compactions *)
(* by size and by seeks, moves and flushes keep the levels disjoint and    *)
(* implement the mapping with snapshots.                                   *)
THEOREM ImplementsWithoutCompactRange ==
  Spec /\ scenario.manuals = 0 => []LevelsDisjoint /\ KVSpec
<1>1. Init /\ scenario.manuals = 0 => Unasked
  BY DEF Init, Unasked, NoManual
<1>2. Inv /\ Unasked /\ [Next]_vars => Unasked'
  BY UnaskedNext
<1>3. Inv /\ Unasked => ManualConnected
  BY DEF Inv, RunningOK, Unasked, ManualConnected
<1>4. Spec /\ scenario.manuals = 0 => []ManualConnected
  BY <1>1, <1>2, <1>3, AlwaysInv, PTL DEF Spec
<1> QED BY <1>4, LevelsStayDisjoint, ImplementsKVStore, PTL
=============================================================================
