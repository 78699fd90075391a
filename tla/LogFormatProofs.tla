-------------------------- MODULE LogFormatProofs --------------------------
(***************************************************************************)
(* Proofs about the format of logs, for every size of blocks, headers and  *)
(* records, every number of records and crashes, every cut and every tail  *)
(* of zeros: a Reader that checks checksums forges nothing, and the torn   *)
(* end of a file is passed over in silence.                                *)
(*                                                                         *)
(* The first rests on LogInv.  Every checksum in the file is one of a      *)
(* fragment of a known record, at a known place in it, even when the cells *)
(* behind it are lost or written over; and the fragment that it continues  *)
(* is complete and ends less than a header before it.  So the fragments    *)
(* that the Reader puts together, each of which begins less than a header  *)
(* behind the one before, are those that one AddRecord wrote.              *)
(*                                                                         *)
(* The second rests on TailInv.  In a file that one Writer wrote there is  *)
(* a chain of places from 0 on, each with its offset in the block and      *)
(* whether it is inside a record, that leads from fragment to fragment and *)
(* over the rests of blocks to the end of the file, or to a fragment that  *)
(* the end cuts off.  The Writer is at its end, and the Reader goes along  *)
(* it.                                                                     *)
(***************************************************************************)
EXTENDS LogFormat, FiniteSetTheorems, SequenceTheorems, TLAPS

-----------------------------------------------------------------------------
(* Cells.                                                                  *)

Kinds == {"full", "first", "middle", "last"}
DataCell == {Data(id, i) : id \in Nat, i \in Nat}
CrcCell == {Crc(t, d) : t \in Kinds, d \in Seq(DataCell)}
AnyCell ==
  DataCell \cup CrcCell \cup {Length(n) : n \in Nat} \cup {Type(t) : t \in Kinds}
    \cup {Zero}

IsCrc(c) == c \in CrcCell
IsType(c) == c \in {Type(t) : t \in Kinds}

Record == [id : Nat, size : Nat, start : Nat]
Adding == [id : Nat, size : Nat, left : Nat, begin : BOOLEAN, start : Nat]

WriterTypes ==
  /\ scenario \in Scenarios
  /\ phase \in {"write", "down", "read", "end"}
  /\ file \in Seq(AnyCell)
  /\ blockOffset \in 0 .. BlockSize
  /\ begun \subseteq Record /\ IsFiniteSet(begun)
  /\ adding \in {NoRecord} \cup Adding
  /\ adding # NoRecord => /\ adding \in Adding /\ adding.left <= adding.size
                          /\ adding.begin => adding.left = adding.size
                          /\ adding.start <= Len(file)
  /\ \A r \in added : /\ r.start \in Nat /\ r.end \in Nat
                       /\ r.start < r.end /\ r.end <= Len(file)

(* The kinds of cells differ.                                              *)
LEMMA CellKinds ==
  /\ \A c \in DataCell : ~IsCrc(c) /\ ~IsType(c) /\ c \in AnyCell
  /\ \A n \in Nat : ~IsCrc(Length(n)) /\ ~IsType(Length(n)) /\ Length(n) \in AnyCell
  /\ \A t \in Kinds : ~IsCrc(Type(t)) /\ IsType(Type(t)) /\ Type(t) \in AnyCell
  /\ ~IsCrc(Zero) /\ ~IsType(Zero) /\ Zero \in AnyCell
  /\ \A t \in Kinds, d \in Seq(DataCell) :
       ~IsType(Crc(t, d)) /\ IsCrc(Crc(t, d)) /\ Crc(t, d) \in AnyCell
<1>1. \A id, i, t, d, n :
        /\ Data(id, i) # Crc(t, d) /\ Data(id, i) # Type(t)
        /\ Length(n) # Crc(t, d) /\ Length(n) # Type(t)
        /\ Zero # Crc(t, d) /\ Zero # Type(t)
  BY DEF Data, Crc, Type, Length, Zero
<1>2. \A t, u, d : Type(t) # Crc(u, d)
  BY DEF Crc, Type
<1>3. \A c \in DataCell : ~IsCrc(c) /\ ~IsType(c) /\ c \in AnyCell
  <2> SUFFICES ASSUME NEW c \in DataCell PROVE ~IsCrc(c) /\ ~IsType(c) /\ c \in AnyCell
    OBVIOUS
  <2>1. PICK id \in Nat, i \in Nat : c = Data(id, i)
    BY DEF DataCell
  <2> QED BY <1>1, <2>1 DEF IsCrc, IsType, AnyCell, CrcCell
<1>4. \A n \in Nat : ~IsCrc(Length(n)) /\ ~IsType(Length(n)) /\ Length(n) \in AnyCell
  BY <1>1 DEF IsCrc, IsType, AnyCell, CrcCell
<1>5. \A t \in Kinds : ~IsCrc(Type(t)) /\ IsType(Type(t)) /\ Type(t) \in AnyCell
  BY <1>2 DEF IsCrc, IsType, AnyCell, CrcCell
<1>6. ~IsCrc(Zero) /\ ~IsType(Zero) /\ Zero \in AnyCell
  BY <1>1 DEF IsCrc, IsType, AnyCell, CrcCell
<1>7. \A t \in Kinds, d \in Seq(DataCell) :
        ~IsType(Crc(t, d)) /\ IsCrc(Crc(t, d)) /\ Crc(t, d) \in AnyCell
  BY <1>2 DEF IsCrc, IsType, AnyCell, CrcCell
<1> QED BY <1>3, <1>4, <1>5, <1>6, <1>7

(* A checksum tells type and data.                                         *)
LEMMA CrcTells ==
  /\ \A t, u, d, c : Crc(t, d) = Crc(u, c) <=> t = u /\ d = c
  /\ \A t, u : Type(t) = Type(u) <=> t = u
BY DEF Crc, Type

-----------------------------------------------------------------------------
(* Sequences.                                                              *)

(* n cells alike.                                                          *)
LEMMA CellsIs ==
  ASSUME NEW S, NEW n \in Nat, NEW c \in S
  PROVE  /\ Cells(n, c) \in Seq(S) /\ Len(Cells(n, c)) = n
         /\ \A i \in 1 .. n : Cells(n, c)[i] = c
BY DEF Cells

(* The first n elements of a sequence.                                     *)
LEMMA FirstIs ==
  ASSUME NEW S, NEW s \in Seq(S), NEW n \in 0 .. Len(s)
  PROVE  /\ SubSeq(s, 1, n) \in Seq(S) /\ Len(SubSeq(s, 1, n)) = n
         /\ \A i \in 1 .. n : SubSeq(s, 1, n)[i] = s[i]
<1>1. /\ 1 \in Int /\ n \in Int /\ Len(s) \in Nat
      /\ \A i \in 1 .. n : s[i] \in S
  BY LenProperties, ElementOfSeq
<1> QED BY <1>1, SubSeqProperties

(* A part of a sequence.                                                   *)
LEMMA PartIs ==
  ASSUME NEW S, NEW s \in Seq(S), NEW a \in Nat, NEW n \in Nat, a + n <= Len(s)
  PROVE  /\ SubSeq(s, a + 1, a + n) \in Seq(S) /\ Len(SubSeq(s, a + 1, a + n)) = n
         /\ \A i \in 1 .. n : SubSeq(s, a + 1, a + n)[i] = s[a + i]
<1>1. Len(s) \in Nat
  BY LenProperties
<1>2. /\ a + 1 \in Int /\ a + n \in Int
      /\ \A i \in a + 1 .. a + n : i \in 1 .. Len(s)
  BY <1>1
<1>3. \A i \in a + 1 .. a + n : s[i] \in S
  BY <1>2, ElementOfSeq
<1>4. PICK p \in Int, q \in Int : p = a + 1 /\ q = a + n
  OBVIOUS
<1>5. /\ SubSeq(s, p, q) \in Seq(S)
      /\ Len(SubSeq(s, p, q)) = IF p <= q THEN q - p + 1 ELSE 0
      /\ \A i \in 1 .. q - p + 1 : SubSeq(s, p, q)[i] = s[p + i - 1]
  <2>1. \A i \in p .. q : s[i] \in S
    BY <1>3, <1>4
  <2> HIDE <1>4
  <2> QED BY <2>1, SubSeqProperties
<1>6. /\ q - p + 1 = n /\ (p <= q \/ n = 0)
      /\ \A i \in 1 .. n : p + i - 1 = a + i
  BY <1>4
<1> QED BY <1>4, <1>5, <1>6

(* A sequence behind another.                                              *)
LEMMA BehindIs ==
  ASSUME NEW S, NEW s \in Seq(S), NEW t \in Seq(S)
  PROVE  /\ s \o t \in Seq(S) /\ Len(s \o t) = Len(s) + Len(t)
         /\ Len(s) \in Nat /\ Len(t) \in Nat
         /\ \A i \in 1 .. Len(s) : (s \o t)[i] = s[i]
         /\ \A i \in 1 .. Len(t) : (s \o t)[Len(s) + i] = t[i]
OBVIOUS

(* The payload of a record, and a prefix of it that grows.                 *)
LEMMA PayloadIs ==
  ASSUME NEW r, r.id \in Nat, r.size \in Nat
  PROVE  /\ Payload(r) \in Seq(DataCell) /\ Len(Payload(r)) = r.size
         /\ \A i \in 1 .. r.size : Payload(r)[i] = Data(r.id, i)
<1>1. \A i \in 1 .. r.size : Data(r.id, i) \in DataCell
  BY DEF DataCell
<1> QED BY <1>1 DEF Payload

(* d is the part of P behind the first a elements.                         *)
PartOf(d, P, a) == a + Len(d) <= Len(P) /\ \A i \in 1 .. Len(d) : d[i] = P[a + i]

(* The prefix of a payload that the Reader has grows by the next part.     *)
LEMMA PrefixGrows ==
  ASSUME NEW S, NEW P \in Seq(S), NEW a \in Nat, NEW d \in Seq(S), PartOf(d, P, a)
  PROVE  SubSeq(P, 1, a) \o d = SubSeq(P, 1, a + Len(d))
<1>1. PICK n \in Nat : n = Len(d)
  BY LenProperties
<1>2. Len(P) \in Nat /\ a \in 0 .. Len(P) /\ a + n \in 0 .. Len(P)
  BY <1>1, LenProperties DEF PartOf
<1>3. /\ SubSeq(P, 1, a) \in Seq(S) /\ Len(SubSeq(P, 1, a)) = a
      /\ \A i \in 1 .. a : SubSeq(P, 1, a)[i] = P[i]
  BY <1>2, FirstIs
<1>4. /\ SubSeq(P, 1, a + n) \in Seq(S) /\ Len(SubSeq(P, 1, a + n)) = a + n
      /\ \A i \in 1 .. a + n : SubSeq(P, 1, a + n)[i] = P[i]
  BY <1>2, FirstIs
<1>5. PICK s, t : s = SubSeq(P, 1, a) /\ t = SubSeq(P, 1, a + n)
  OBVIOUS
<1>6. /\ s \o d \in Seq(S) /\ Len(s \o d) = a + n
      /\ \A i \in 1 .. a : (s \o d)[i] = s[i]
      /\ \A i \in 1 .. n : (s \o d)[a + i] = d[i]
  <2>1. s \in Seq(S) /\ Len(s) = a
    BY <1>3, <1>5
  <2>2. /\ s \o d \in Seq(S) /\ Len(s \o d) = Len(s) + Len(d)
        /\ \A i \in 1 .. Len(s) : (s \o d)[i] = s[i]
        /\ \A i \in 1 .. Len(d) : (s \o d)[Len(s) + i] = d[i]
    BY <2>1
  <2> QED BY <1>1, <2>1, <2>2
<1>7. \A i \in 1 .. a + n : (s \o d)[i] = t[i]
  <2> SUFFICES ASSUME NEW i \in 1 .. a + n PROVE (s \o d)[i] = t[i]
    OBVIOUS
  <2>1. CASE i <= a
    BY <1>3, <1>4, <1>5, <1>6, <2>1
  <2>2. CASE i > a
    <3>1. PICK j \in 1 .. n : i = a + j
      BY <2>2
    <3> QED BY <1>1, <1>4, <1>5, <1>6, <3>1 DEF PartOf
  <2>3. i <= a \/ i > a
    OBVIOUS
  <2> QED BY <2>1, <2>2, <2>3
<1> QED BY <1>1, <1>4, <1>5, <1>6, <1>7, SeqEqual

-----------------------------------------------------------------------------
(* Fragments.                                                              *)

(* The cells of s from p on are a fragment, complete.                      *)
Whole(s, p, t, d) ==
  /\ p \in Nat \ {0} /\ p + HeaderSize + Len(d) - 1 <= Len(s)
  /\ s[p] = Crc(t, d)
  /\ \A i \in p + 1 .. p + HeaderSize - 2 : ~IsCrc(s[i]) /\ ~IsType(s[i])
  /\ s[p + HeaderSize - 2] = Length(Len(d))
  /\ s[p + HeaderSize - 1] = Type(t)
  /\ \A i \in 1 .. Len(d) : s[p + HeaderSize - 1 + i] = d[i]

(* What EmitPhysicalRecord writes.                                         *)
LEMMA FragmentIs ==
  ASSUME NEW t \in Kinds, NEW d \in Seq(DataCell)
  PROVE  /\ Fragment(t, d) \in Seq(AnyCell)
         /\ Len(Fragment(t, d)) = HeaderSize + Len(d)
         /\ Whole(Fragment(t, d), 1, t, d)
<1>1. PICK h \in Nat, m \in Nat, n \in Nat :
        h = HeaderSize /\ m = HeaderSize - 3 /\ n = Len(d) /\ h >= 3 /\ m = h - 3
  <2>1. HeaderSize \in Nat /\ HeaderSize >= 3
    BY LogAssumption
  <2>2. Len(d) \in Nat
    BY LenProperties
  <2>3. HeaderSize - 3 \in Nat
    BY <2>1
  <2> QED BY <2>1, <2>2, <2>3
<1>2. d \in Seq(AnyCell)
  BY CellKinds, SeqMonotonic
<1>3. PICK a, b, c, e : /\ a = <<Crc(t, d)>> /\ b = Cells(m, Zero)
                        /\ c = <<Length(n), Type(t)>> /\ e = a \o b
  OBVIOUS
<1>4. /\ a \in Seq(AnyCell) /\ Len(a) = 1 /\ a[1] = Crc(t, d)
      /\ c \in Seq(AnyCell) /\ Len(c) = 2 /\ c[1] = Length(n) /\ c[2] = Type(t)
  BY <1>3, CellKinds
<1>5. b \in Seq(AnyCell) /\ Len(b) = m /\ \A i \in 1 .. m : b[i] = Zero
  BY <1>3, CellsIs, CellKinds
<1>6. /\ e \in Seq(AnyCell) /\ Len(e) = m + 1
      /\ e[1] = Crc(t, d) /\ \A i \in 2 .. m + 1 : e[i] = Zero
  <2>1. /\ e \in Seq(AnyCell) /\ Len(e) = 1 + m
        /\ \A i \in 1 .. 1 : e[i] = a[i]
        /\ \A i \in 1 .. m : e[1 + i] = b[i]
    BY <1>3, <1>4, <1>5
  <2>2. \A i \in 2 .. m + 1 : \E j \in 1 .. m : i = 1 + j
    <3> SUFFICES ASSUME NEW i \in 2 .. m + 1 PROVE \E j \in 1 .. m : i = 1 + j
      OBVIOUS
    <3> WITNESS i - 1 \in 1 .. m
    <3> QED OBVIOUS
  <2>3. e[1] = Crc(t, d)
    BY <1>4, <2>1
  <2>4. \A i \in 2 .. m + 1 : e[i] = Zero
    BY <1>5, <2>1, <2>2
  <2> QED BY <2>1, <2>3, <2>4
<1>7. PICK f : f = e \o c
  OBVIOUS
<1>8. /\ f \in Seq(AnyCell) /\ Len(f) = m + 3
      /\ \A i \in 1 .. m + 1 : f[i] = e[i]
      /\ f[m + 2] = Length(n) /\ f[m + 3] = Type(t)
  <2>1. /\ f \in Seq(AnyCell) /\ Len(f) = (m + 1) + 2
        /\ \A i \in 1 .. m + 1 : f[i] = e[i]
        /\ \A i \in 1 .. 2 : f[(m + 1) + i] = c[i]
    <3>1. e \in Seq(AnyCell) /\ Len(e) = m + 1 /\ c \in Seq(AnyCell) /\ Len(c) = 2
      BY <1>4, <1>6
    <3>2. /\ f \in Seq(AnyCell) /\ Len(f) = Len(e) + Len(c)
          /\ \A i \in 1 .. Len(e) : f[i] = e[i]
          /\ \A i \in 1 .. Len(c) : f[Len(e) + i] = c[i]
      <4>1. e \in Seq(AnyCell) /\ c \in Seq(AnyCell)
        BY <3>1
      <4> QED BY <1>7, <4>1
    <3> QED BY <3>1, <3>2
  <2> QED BY <1>4, <2>1
<1>9. PICK s : s = Fragment(t, d)
  OBVIOUS
<1>10. s = f \o d
  BY <1>1, <1>3, <1>7, <1>9 DEF Fragment
<1>11. /\ s \in Seq(AnyCell) /\ Len(s) = h + n
       /\ \A i \in 1 .. h : s[i] = f[i]
       /\ \A i \in 1 .. n : s[h + i] = d[i]
  <2>1. Len(f) = h
    BY <1>1, <1>8
  <2>2. /\ s \in Seq(AnyCell) /\ Len(s) = Len(f) + Len(d)
        /\ \A i \in 1 .. Len(f) : s[i] = f[i]
        /\ \A i \in 1 .. Len(d) : s[Len(f) + i] = d[i]
    <3>1. f \in Seq(AnyCell) /\ d \in Seq(AnyCell)
      BY <1>2, <1>8
    <3> QED BY <1>10, <3>1
  <2> QED BY <1>1, <2>1, <2>2
<1>12. /\ s[1] = Crc(t, d) /\ s[h - 1] = Length(n) /\ s[h] = Type(t)
       /\ \A i \in 2 .. h - 2 : s[i] = Zero
  <2>1. 1 \in 1 .. h /\ h - 1 \in 1 .. h /\ h \in 1 .. h /\ h - 1 = m + 2 /\ h = m + 3
        /\ 1 \in 1 .. m + 1 /\ h - 2 = m + 1
    BY <1>1
  <2>2. \A i \in 2 .. h - 2 : i \in 1 .. h /\ i \in 1 .. m + 1 /\ i \in 2 .. m + 1
    BY <1>1
  <2> QED BY <1>6, <1>8, <1>11, <2>1, <2>2
<1>13. \A i \in 2 .. h - 1 : ~IsCrc(s[i]) /\ ~IsType(s[i])
  <2> SUFFICES ASSUME NEW i \in 2 .. h - 1 PROVE ~IsCrc(s[i]) /\ ~IsType(s[i])
    OBVIOUS
  <2>1. i \in 2 .. h - 2 \/ i = h - 1
    BY <1>1
  <2>2. s[i] = Zero \/ s[i] = Length(n)
    BY <1>12, <2>1
  <2> QED BY <2>2, CellKinds
<1>14. Whole(s, 1, t, d)
  <2>1. /\ 1 + h - 2 = h - 1 /\ 1 + h - 1 = h /\ 1 + 1 = 2 /\ 1 + h + n - 1 = h + n
        /\ \A i \in 1 .. n : 1 + h - 1 + i = h + i
    OBVIOUS
  <2>2. \A i \in 1 .. n : s[1 + h - 1 + i] = d[i]
    BY <1>11, <2>1
  <2>3. s[1 + h - 2] = Length(n) /\ s[1 + h - 1] = Type(t)
    BY <1>12, <2>1
  <2>4. \A i \in 1 + 1 .. 1 + h - 2 : ~IsCrc(s[i]) /\ ~IsType(s[i])
    BY <1>13, <2>1
  <2> QED BY <1>1, <1>11, <1>12, <2>1, <2>2, <2>3, <2>4 DEF Whole
<1> QED BY <1>1, <1>9, <1>11, <1>14

(* Two sequences have the same first k cells.                              *)
Agree(s, u, k) == /\ k \in Nat /\ k <= Len(s) /\ k <= Len(u)
                  /\ \A i \in 1 .. k : s[i] = u[i]

(* A fragment that is complete in the cells they share.                    *)
LEMMA WholeAgrees ==
  ASSUME NEW s, NEW u, NEW k, NEW p, NEW t, NEW d \in Seq(DataCell), NEW S,
         u \in Seq(S), Agree(s, u, k),
         Whole(s, p, t, d), p + HeaderSize + Len(d) - 1 <= k
  PROVE  Whole(u, p, t, d)
<1>1. PICK h \in Nat, n \in Nat : h = HeaderSize /\ n = Len(d) /\ h >= 3
  <2>1. HeaderSize \in Nat /\ HeaderSize >= 3
    BY LogAssumption
  <2>2. Len(d) \in Nat
    BY LenProperties
  <2> QED BY <2>1, <2>2
<1>2. p \in Nat \ {0} /\ k \in Nat /\ k <= Len(u) /\ Len(u) \in Nat /\ p + h + n - 1 <= k
  BY <1>1, LenProperties DEF Whole, Agree
<1>3. \A i \in 1 .. k : s[i] = u[i]
  BY DEF Agree
<1>4. p \in 1 .. k /\ p + h - 2 \in 1 .. k /\ p + h - 1 \in 1 .. k
  BY <1>1, <1>2
<1>5. \A i \in p + 1 .. p + h - 2 : i \in 1 .. k
  BY <1>1, <1>2
<1>6. \A i \in 1 .. n : p + h - 1 + i \in 1 .. k
  BY <1>1, <1>2
<1>7. /\ s[p] = Crc(t, d) /\ s[p + h - 2] = Length(n) /\ s[p + h - 1] = Type(t)
      /\ \A i \in p + 1 .. p + h - 2 : ~IsCrc(s[i]) /\ ~IsType(s[i])
      /\ \A i \in 1 .. n : s[p + h - 1 + i] = d[i]
  BY <1>1 DEF Whole
<1>8. /\ u[p] = Crc(t, d) /\ u[p + h - 2] = Length(n) /\ u[p + h - 1] = Type(t)
  BY <1>3, <1>4, <1>7
<1>9. \A i \in p + 1 .. p + h - 2 : ~IsCrc(u[i]) /\ ~IsType(u[i])
  BY <1>3, <1>5, <1>7
<1>10. \A i \in 1 .. n : u[p + h - 1 + i] = d[i]
  BY <1>3, <1>6, <1>7
<1>11. p + h + n - 1 <= Len(u)
  BY <1>2
<1> QED BY <1>1, <1>2, <1>8, <1>9, <1>10, <1>11 DEF Whole

(* A fragment behind other cells.                                          *)
LEMMA WholeBehind ==
  ASSUME NEW S, NEW u \in Seq(S), NEW s \in Seq(S), NEW p, NEW t,
         NEW d \in Seq(DataCell), Whole(s, p, t, d)
  PROVE  Whole(u \o s, Len(u) + p, t, d)
<1>1. PICK h \in Nat, n \in Nat : h = HeaderSize /\ n = Len(d) /\ h >= 3
  <2>1. HeaderSize \in Nat /\ HeaderSize >= 3
    BY LogAssumption
  <2>2. Len(d) \in Nat
    BY LenProperties
  <2> QED BY <2>1, <2>2
<1>2. PICK k, l, v : k = Len(u) /\ l = Len(s) /\ v = u \o s
  OBVIOUS
<1>3. /\ v \in Seq(S) /\ Len(v) = k + l
      /\ \A i \in 1 .. l : v[k + i] = s[i]
      /\ k \in Nat /\ l \in Nat
  <2>1. /\ v \in Seq(S) /\ Len(v) = Len(u) + Len(s)
        /\ \A i \in 1 .. Len(s) : v[Len(u) + i] = s[i]
        /\ Len(u) \in Nat /\ Len(s) \in Nat
    BY <1>2
  <2> QED BY <1>2, <2>1
<1>4. p \in Nat \ {0} /\ p + h + n - 1 <= l
  BY <1>1, <1>2 DEF Whole
<1>5. /\ s[p] = Crc(t, d) /\ s[p + h - 2] = Length(n) /\ s[p + h - 1] = Type(t)
      /\ \A i \in p + 1 .. p + h - 2 : ~IsCrc(s[i]) /\ ~IsType(s[i])
      /\ \A i \in 1 .. n : s[p + h - 1 + i] = d[i]
  BY <1>1 DEF Whole
<1>6. PICK q \in Nat \ {0} : q = k + p
  BY <1>3, <1>4
<1>7. /\ v[q] = Crc(t, d) /\ v[q + h - 2] = Length(n) /\ v[q + h - 1] = Type(t)
  <2>1. /\ p \in 1 .. l /\ p + h - 2 \in 1 .. l /\ p + h - 1 \in 1 .. l
        /\ q + h - 2 = k + (p + h - 2) /\ q + h - 1 = k + (p + h - 1)
    BY <1>1, <1>3, <1>4, <1>6
  <2> QED BY <1>3, <1>5, <1>6, <2>1
<1>8. \A i \in q + 1 .. q + h - 2 : ~IsCrc(v[i]) /\ ~IsType(v[i])
  <2> SUFFICES ASSUME NEW i \in q + 1 .. q + h - 2 PROVE ~IsCrc(v[i]) /\ ~IsType(v[i])
    OBVIOUS
  <2>1. PICK j : j = i - k
    OBVIOUS
  <2>2. j \in p + 1 .. p + h - 2 /\ j \in 1 .. l /\ i = k + j
    BY <1>1, <1>3, <1>4, <1>6, <2>1
  <2> QED BY <1>3, <1>5, <2>2
<1>9. \A i \in 1 .. n : v[q + h - 1 + i] = d[i]
  <2> SUFFICES ASSUME NEW i \in 1 .. n PROVE v[q + h - 1 + i] = d[i]
    OBVIOUS
  <2>1. p + h - 1 + i \in 1 .. l /\ q + h - 1 + i = k + (p + h - 1 + i)
    BY <1>1, <1>3, <1>4, <1>6
  <2> QED BY <1>3, <1>5, <2>1
<1>10. q + h + n - 1 <= Len(v)
  BY <1>3, <1>4, <1>6
<1> QED BY <1>1, <1>2, <1>6, <1>7, <1>8, <1>9, <1>10 DEF Whole

(* What a turn of the loop of AddRecord writes: z zeros and a fragment of  *)
(* type t with data d, which come behind the first a bytes of the record.  *)
Writes(z, a, t, d) ==
  /\ z = Len(Trailer) /\ z \in 0 .. HeaderSize - 1
  /\ a = adding.size - adding.left /\ a \in Nat
  /\ d \in Seq(DataCell) /\ Len(d) = FragmentLength
  /\ Len(d) \in Nat /\ Len(d) <= adding.left
  /\ \A i \in 1 .. Len(d) : d[i] = Data(adding.id, a + i)
  /\ t \in Kinds /\ t = FragmentType(adding.begin, Len(d) = adding.left)
  /\ Written \in Seq(AnyCell) /\ Len(Written) = z + HeaderSize + Len(d)
  /\ \A i \in 1 .. z : Written[i] = Zero
  /\ Whole(Written, z + 1, t, d)
  /\ Offset + HeaderSize + Len(d) \in 0 .. BlockSize

(* What a turn of the loop writes.                                         *)
LEMMA WrittenIs ==
  ASSUME WriterTypes, adding # NoRecord
  PROVE  \E z, a, t, d : Writes(z, a, t, d)
<1>1. PICK h \in Nat, b \in Nat : h = HeaderSize /\ b = BlockSize /\ h >= 3 /\ b > h
  BY LogAssumption
<1>2. /\ blockOffset \in 0 .. b
      /\ adding.id \in Nat /\ adding.size \in Nat /\ adding.left \in Nat
      /\ adding.left <= adding.size /\ adding.begin \in BOOLEAN
  BY <1>1 DEF WriterTypes, Adding
<1>3. PICK l \in 0 .. b : l = Leftover
  BY <1>1, <1>2 DEF Leftover
<1>4. PICK z : z = Len(Trailer)
  OBVIOUS
<1>5. /\ z \in 0 .. h - 1 /\ Trailer \in Seq(AnyCell)
      /\ \A i \in 1 .. z : Trailer[i] = Zero
  <2>1. CASE l < h
    <3>1. Trailer = Cells(l, Zero) /\ l \in Nat
      BY <1>1, <1>3, <2>1 DEF Trailer
    <3>2. /\ Cells(l, Zero) \in Seq(AnyCell) /\ Len(Cells(l, Zero)) = l
          /\ \A i \in 1 .. l : Cells(l, Zero)[i] = Zero
      <4>1. Zero \in AnyCell
        BY CellKinds
      <4> QED BY <3>1, <4>1, CellsIs
    <3>3. z = l /\ z \in 0 .. h - 1
      BY <1>1, <1>3, <1>4, <2>1, <3>1, <3>2
    <3> QED BY <3>1, <3>2, <3>3
  <2>2. CASE ~(l < h)
    <3>1. Trailer = <<>>
      BY <1>1, <1>3, <2>2 DEF Trailer
    <3>2. Len(<<>>) = 0 /\ <<>> \in Seq(AnyCell)
      OBVIOUS
    <3> QED BY <1>1, <1>4, <3>1, <3>2
  <2> QED BY <2>1, <2>2
<1>6. Offset \in Nat /\ Offset + h <= b
  <2>1. CASE l < h
    BY <1>1, <1>3, <2>1 DEF Offset
  <2>2. CASE ~(l < h)
    BY <1>1, <1>2, <1>3, <2>2 DEF Offset, Leftover
  <2> QED BY <2>1, <2>2
<1>7. PICK n \in Nat : n = FragmentLength /\ n <= adding.left /\ Offset + h + n <= b
  <2>1. Available \in Nat /\ Available = b - Offset - h
    BY <1>1, <1>6 DEF Available
  <2> QED BY <1>1, <1>2, <1>6, <2>1 DEF FragmentLength
<1>8. PICK a \in Nat : a = adding.size - adding.left
  BY <1>2
<1>9. a + n <= adding.size
  BY <1>2, <1>7, <1>8
<1>10. PICK P : P = Payload(adding)
  OBVIOUS
<1>11. /\ P \in Seq(DataCell) /\ Len(P) = adding.size
       /\ \A i \in 1 .. adding.size : P[i] = Data(adding.id, i)
  BY <1>2, <1>10, PayloadIs
<1>12. PICK d : d = FragmentData
  OBVIOUS
<1>13. d = SubSeq(P, a + 1, a + n)
  BY <1>7, <1>8, <1>10, <1>12 DEF FragmentData
<1>14. /\ d \in Seq(DataCell) /\ Len(d) = n
       /\ \A i \in 1 .. n : d[i] = P[a + i]
  <2>1. P \in Seq(DataCell) /\ a + n <= Len(P)
    BY <1>9, <1>11
  <2> QED BY <1>13, <2>1, PartIs
<1>15. \A i \in 1 .. n : d[i] = Data(adding.id, a + i)
  <2>1. \A i \in 1 .. n : a + i \in 1 .. adding.size
    BY <1>2, <1>9
  <2> QED BY <1>11, <1>14, <2>1
<1>16. PICK t : t = FragmentType(adding.begin, n = adding.left)
  OBVIOUS
<1>17. t \in Kinds
  BY <1>2, <1>16 DEF FragmentType, Kinds
<1>18. PICK f : f = Fragment(t, d)
  OBVIOUS
<1>19. f \in Seq(AnyCell) /\ Len(f) = h + n /\ Whole(f, 1, t, d)
  BY <1>1, <1>14, <1>17, <1>18, FragmentIs
<1>20. Written = Trailer \o f
  BY <1>7, <1>12, <1>16, <1>18 DEF Written
<1>21. /\ Written \in Seq(AnyCell) /\ Len(Written) = z + h + n
       /\ \A i \in 1 .. z : Written[i] = Zero
  <2>1. PICK u, w : u = Trailer /\ w = Written
    OBVIOUS
  <2>2. u \in Seq(AnyCell) /\ f \in Seq(AnyCell) /\ w = u \o f
    BY <1>5, <1>19, <1>20, <2>1
  <2>3. /\ w \in Seq(AnyCell) /\ Len(w) = Len(u) + Len(f)
        /\ \A i \in 1 .. Len(u) : w[i] = u[i]
    BY <2>2
  <2>4. z + h + n = z + (h + n)
    BY <1>5
  <2> QED BY <1>4, <1>5, <1>19, <2>1, <2>3, <2>4
<1>22. Whole(Written, z + 1, t, d)
  BY <1>4, <1>5, <1>14, <1>19, <1>20, WholeBehind
<1>23. Offset + h + n \in 0 .. b
  BY <1>6, <1>7
<1>24. Writes(z, a, t, d)
  BY <1>1, <1>4, <1>5, <1>7, <1>8, <1>14, <1>15, <1>16, <1>17, <1>21, <1>22, <1>23 DEF Writes
<1> QED BY <1>24

-----------------------------------------------------------------------------
(* What is in the file.                                                    *)

(* The fragment u with data e, complete at q, is followed by the fragment  *)
(* at p, of the same record.                                               *)
Leads(s, fr, q, u, e, p) ==
  /\ u \in {"first", "middle"} /\ e \in Seq(DataCell) /\ Whole(s, q, u, e)
  /\ fr[q].rec = fr[p].rec /\ fr[q].from + Len(e) = fr[p].from
  /\ q + HeaderSize + Len(e) <= p /\ p < q + HeaderSize + Len(e) + HeaderSize

(* fr says of a checksum, at cell p, of which record its fragment is and   *)
(* how many bytes of the record come before it.                            *)
Piece(s, B, fr, p, t, d) ==
  /\ t \in Kinds /\ d \in Seq(DataCell) /\ s[p] = Crc(t, d)
  /\ fr[p].rec \in B /\ fr[p].from \in Nat
  /\ fr[p].from + Len(d) <= fr[p].rec.size
  /\ \A i \in 1 .. Len(d) : d[i] = Data(fr[p].rec.id, fr[p].from + i)
  /\ t \in {"full", "first"} => fr[p].from = 0 /\ p = fr[p].rec.start + 1
  /\ t \in {"full", "last"} => fr[p].from + Len(d) = fr[p].rec.size
  /\ t \in {"middle", "last"} => \E q, u, e : Leads(s, fr, q, u, e, p)

FileOK(s, B, fr) ==
  \A p \in 1 .. Len(s) : IsCrc(s[p]) => \E t, d : Piece(s, B, fr, p, t, d)

(* Between two fragments of a record the first of them ends the file.      *)
AddedTo == [id |-> adding.id, size |-> adding.size, start |-> adding.start]
AddingOK(fr) ==
  adding # NoRecord /\ ~adding.begin =>
    /\ AddedTo \in begun
    /\ \E q, u, e :
         /\ u \in {"first", "middle"} /\ e \in Seq(DataCell) /\ Whole(file, q, u, e)
         /\ fr[q].rec = AddedTo /\ fr[q].from \in Nat
         /\ fr[q].from + Len(e) = adding.size - adding.left
         /\ q + HeaderSize + Len(e) = Len(file) + 1

FileInv == WriterTypes /\ \E fr : FileOK(file, begun, fr) /\ AddingOK(fr)

(* Fragments stay what they are when the file is cut or written on.        *)
LEMMA FileGrows ==
  ASSUME NEW S, NEW s, NEW v \in Seq(S), NEW B, NEW C, NEW fr, NEW g, NEW k,
         FileOK(s, B, fr), B \subseteq C, Agree(s, v, k),
         \A x \in 1 .. k : g[x] = fr[x],
         \A p \in k + 1 .. Len(v) : IsCrc(v[p]) => \E t, d : Piece(v, C, g, p, t, d)
  PROVE  FileOK(v, C, g)
<1>1. SUFFICES ASSUME NEW p \in 1 .. Len(v), IsCrc(v[p])
               PROVE  \E t, d : Piece(v, C, g, p, t, d)
  BY DEF FileOK
<1>2. k \in Nat /\ k <= Len(v) /\ Len(v) \in Nat /\ k <= Len(s)
  BY LenProperties DEF Agree
<1>3. CASE p > k
  BY <1>1, <1>2, <1>3
<1>4. CASE p <= k
  <2>1. p \in 1 .. k /\ s[p] = v[p] /\ g[p] = fr[p]
    BY <1>2, <1>4 DEF Agree
  <2>2. p \in 1 .. Len(s)
    BY <1>2, <2>1
  <2>3. PICK t, d : Piece(s, B, fr, p, t, d)
    BY <1>1, <2>1, <2>2 DEF FileOK
  <2>4. t \in {"middle", "last"} => \E q, u, e : Leads(v, g, q, u, e, p)
    <3> SUFFICES ASSUME t \in {"middle", "last"}
                 PROVE  \E q, u, e : Leads(v, g, q, u, e, p)
      OBVIOUS
    <3>1. PICK q, u, e : Leads(s, fr, q, u, e, p)
      BY <2>3 DEF Piece
    <3>2. /\ q \in Nat \ {0} /\ Len(e) \in Nat /\ HeaderSize \in Nat
          /\ q + HeaderSize + Len(e) <= p
      BY <3>1, LenProperties, LogAssumption DEF Leads, Whole
    <3>3. q \in 1 .. k /\ q + HeaderSize + Len(e) - 1 <= k
      BY <1>2, <2>1, <3>2, LogAssumption
    <3>4. Whole(v, q, u, e)
      BY <3>1, <3>3, WholeAgrees DEF Leads
    <3>5. g[q] = fr[q]
      BY <3>3
    <3>6. Leads(v, g, q, u, e, p)
      BY <2>1, <3>1, <3>4, <3>5 DEF Leads
    <3> QED BY <3>6
  <2>5. Piece(v, C, g, p, t, d)
    BY <2>1, <2>3, <2>4 DEF Piece
  <2> QED BY <2>5
<1> QED BY <1>2, <1>3, <1>4

(* The only checksum in what a turn writes is that of its fragment.        *)
LEMMA OneCrc ==
  ASSUME NEW z, NEW a, NEW t, NEW d, Writes(z, a, t, d),
         NEW j \in 1 .. Len(Written), IsCrc(Written[j])
  PROVE  j = z + 1
<1>1. PICK h \in Nat, n \in Nat : h = HeaderSize /\ n = Len(d) /\ h >= 3
  BY LogAssumption DEF Writes
<1>2. z \in Nat /\ Len(Written) = z + h + n /\ d \in Seq(DataCell) /\ t \in Kinds
  BY <1>1 DEF Writes
<1>3. j \in 1 .. z => Written[j] = Zero
  BY DEF Writes
<1>4. Whole(Written, z + 1, t, d)
  BY DEF Writes
<1>5. \A i \in z + 1 + 1 .. z + 1 + h - 2 : ~IsCrc(Written[i])
  BY <1>1, <1>4 DEF Whole
<1>6. Written[z + 1 + h - 1] = Type(t)
  BY <1>1, <1>4 DEF Whole
<1>7. \A i \in 1 .. n : Written[z + 1 + h - 1 + i] = d[i] /\ d[i] \in DataCell
  BY <1>1, <1>2, <1>4, ElementOfSeq DEF Whole
<1>8. j \notin 1 .. z
  BY <1>3, CellKinds
<1>9. j \notin z + 1 + 1 .. z + 1 + h - 2
  BY <1>5
<1>10. j # z + 1 + h - 1
  BY <1>2, <1>6, CellKinds
<1>11. ~(j > z + 1 + h - 1)
  <2> SUFFICES ASSUME j > z + 1 + h - 1 PROVE FALSE
    OBVIOUS
  <2>1. PICK i \in 1 .. n : j = z + 1 + h - 1 + i
    BY <1>1, <1>2
  <2> QED BY <1>7, <2>1, CellKinds
<1> QED BY <1>1, <1>2, <1>8, <1>9, <1>10, <1>11

(* A turn of the loop of AddRecord.                                        *)
LEMMA EmitTypes ==
  ASSUME WriterTypes, NEW ok \in BOOLEAN, NEW lost \in Nat, ok => lost = 0,
         Emit(ok, lost)
  PROVE  WriterTypes'
<1>1. adding # NoRecord /\ phase = "write" /\ adding \in Adding
      /\ Len(Written) - lost >= 0
  BY DEF Emit, WriterTypes
<1>2. PICK z, a, t, d : Writes(z, a, t, d)
  BY <1>1, WrittenIs
<1>3. PICK w, f, got : w = Written /\ f = file /\ got = Len(Written) - lost
  OBVIOUS
<1>4. w \in Seq(AnyCell) /\ f \in Seq(AnyCell) /\ Len(w) \in Nat /\ got \in 0 .. Len(w)
  BY <1>1, <1>2, <1>3, LenProperties DEF Writes, WriterTypes
<1>5. file' \in Seq(AnyCell)
  <2>1. SubSeq(w, 1, got) \in Seq(AnyCell)
    BY <1>4, FirstIs
  <2>2. file' = f \o SubSeq(w, 1, got)
    BY <1>3 DEF Emit
  <2> QED BY <1>4, <2>1, <2>2
<1>6. blockOffset' \in 0 .. BlockSize
  BY <1>2 DEF Emit, Writes
<1>7. RecordStart \in Nat
  <2>1. Len(file) \in Nat /\ Len(Trailer) \in Nat
    BY <1>2, <1>3, <1>4, LenProperties, LogAssumption DEF Writes
  <2> QED BY <1>1, <2>1 DEF RecordStart, Adding
<1>8. begun' \subseteq Record /\ IsFiniteSet(begun')
  <2>1. [id |-> adding.id, size |-> adding.size, start |-> RecordStart] \in Record
    BY <1>1, <1>7 DEF Adding, Record
  <2>2. PICK R : R = [id |-> adding.id, size |-> adding.size, start |-> RecordStart]
    OBVIOUS
  <2>3. begun' = begun \/ begun' = begun \cup {R}
    BY <2>2 DEF Emit
  <2>4. IsFiniteSet(begun) /\ begun \subseteq Record
    BY DEF WriterTypes
  <2> QED BY <2>1, <2>2, <2>3, <2>4, FS_AddElement
<1>10. /\ Len(file') = Len(f) + got /\ Len(f) \in Nat /\ got \in Nat
       /\ Len(file') \in Nat /\ Len(f) <= Len(file')
  <2>1. PICK c, v : c = SubSeq(w, 1, got) /\ v = file'
    OBVIOUS
  <2>2. c \in Seq(AnyCell) /\ Len(c) = got
    BY <1>4, <2>1, FirstIs
  <2>3. v = f \o c
    BY <1>3, <2>1 DEF Emit
  <2>4. Len(v) = Len(f) + Len(c) /\ Len(f) \in Nat
    <3>1. f \in Seq(AnyCell) /\ c \in Seq(AnyCell)
      BY <1>4, <2>2
    <3> QED BY <2>3, <3>1
  <2> QED BY <1>4, <2>1, <2>2, <2>4
<1>11. ASSUME ok PROVE RecordStart < Len(file')
  <2>1. lost = 0
    BY <1>11
  <2>2. /\ got = Len(Trailer) + HeaderSize + Len(d) /\ Len(d) \in Nat
        /\ Len(Trailer) \in Nat /\ HeaderSize \in Nat /\ HeaderSize >= 3
    BY <1>2, <1>3, <2>1, LogAssumption DEF Writes
  <2>3. CASE adding.begin
    <3>1. RecordStart = Len(f) + Len(Trailer)
      BY <1>3, <2>3 DEF RecordStart
    <3> QED BY <1>10, <2>2, <3>1
  <2>4. CASE ~adding.begin
    <3>1. RecordStart = adding.start /\ adding.start \in Nat
      BY <1>1, <2>4 DEF RecordStart, Adding
    <3>2. adding.start <= Len(f)
      BY <1>1, <1>3 DEF WriterTypes
    <3> QED BY <1>10, <2>2, <3>1, <3>2
  <2> QED BY <2>3, <2>4
<1>9. /\ adding' \in {NoRecord} \cup Adding
      /\ adding' # NoRecord => /\ adding' \in Adding /\ adding'.left <= adding'.size
                               /\ adding'.begin => adding'.left = adding'.size
                               /\ adding'.start <= Len(file')
  <2>1. CASE adding' = NoRecord
    BY <2>1
  <2>2. CASE adding' # NoRecord
    <3>1. adding' = [adding EXCEPT !.left = @ - FragmentLength, !.begin = FALSE,
                                   !.start = RecordStart]
      BY <2>2 DEF Emit
    <3>2. FragmentLength \in Nat /\ FragmentLength <= adding.left
      BY <1>2 DEF Writes
    <3>3. adding.left \in Nat /\ adding.size \in Nat /\ adding.left <= adding.size
      BY <1>1 DEF WriterTypes, Adding
    <3>4. adding' \in Adding
      <4>1. PICK m \in Nat : m = adding.left - FragmentLength
        BY <3>2, <3>3
      <4>2. adding' = [adding EXCEPT !.left = m, !.begin = FALSE,
                                     !.start = RecordStart]
        BY <3>1, <4>1
      <4> QED BY <1>1, <1>7, <4>2 DEF Adding
    <3>5. adding'.left = adding.left - FragmentLength /\ adding'.size = adding.size
          /\ adding'.begin = FALSE /\ adding'.start = RecordStart
      BY <1>1, <3>1 DEF Adding
    <3>6. ok
      BY <2>2 DEF Emit
    <3>7. RecordStart < Len(file')
      BY <1>11, <3>6
    <3>8. RecordStart <= Len(file')
      BY <1>7, <1>10, <3>7
    <3> QED BY <3>2, <3>3, <3>4, <3>5, <3>8
  <2> QED BY <2>1, <2>2
<1>12. \A r \in added' : /\ r.start \in Nat /\ r.end \in Nat
                         /\ r.start < r.end /\ r.end <= Len(file')
  <2> SUFFICES ASSUME NEW r \in added'
               PROVE  /\ r.start \in Nat /\ r.end \in Nat
                      /\ r.start < r.end /\ r.end <= Len(file')
    OBVIOUS
  <2>1. CASE r \in added
    <3>1. /\ r.start \in Nat /\ r.end \in Nat
          /\ r.start < r.end /\ r.end <= Len(f)
      BY <1>3, <2>1 DEF WriterTypes
    <3> QED BY <1>10, <3>1
  <2>2. CASE r \notin added
    <3>1. PICK e : e = Len(f) + got
      OBVIOUS
    <3>2. ok /\ r = [id |-> adding.id, size |-> adding.size, start |-> RecordStart, end |-> e]
      BY <1>3, <2>2, <3>1 DEF Emit
    <3>3. r.start = RecordStart /\ r.end = Len(file')
      BY <1>10, <3>1, <3>2
    <3> QED BY <1>7, <1>10, <1>11, <3>2, <3>3
  <2> QED BY <2>1, <2>2
<1>13. phase' = phase /\ scenario' \in Scenarios
  BY DEF Emit, WriterTypes
<1> QED BY <1>1, <1>5, <1>6, <1>8, <1>9, <1>12, <1>13 DEF WriterTypes

(* It keeps what is known of the file.                                     *)
LEMMA EmitInv ==
  ASSUME FileInv, NEW ok \in BOOLEAN, NEW lost \in Nat, ok => lost = 0, Emit(ok, lost)
  PROVE  FileInv'
<1>1. WriterTypes /\ WriterTypes'
  BY EmitTypes DEF FileInv
<1>2. PICK fr : FileOK(file, begun, fr) /\ AddingOK(fr)
  BY DEF FileInv
<1>3. /\ adding # NoRecord /\ adding \in Adding /\ Len(Written) - lost >= 0
      /\ adding.begin => adding.left = adding.size
  BY <1>1 DEF Emit, WriterTypes
<1>4. PICK z, a, t, d : Writes(z, a, t, d)
  BY <1>1, <1>3, WrittenIs
<1>5. PICK w, f, v, got : /\ w = Written /\ f = file /\ v = file'
                          /\ got = Len(Written) - lost
  OBVIOUS
<1>6. PICK h \in Nat, n \in Nat : h = HeaderSize /\ n = Len(d) /\ h >= 3
  BY <1>4, LogAssumption DEF Writes
<1>7. /\ w \in Seq(AnyCell) /\ f \in Seq(AnyCell) /\ v \in Seq(AnyCell)
      /\ z \in 0 .. h - 1 /\ Len(w) = z + h + n /\ got \in 0 .. Len(w)
      /\ a \in Nat /\ d \in Seq(DataCell) /\ t \in Kinds
  <2>1. /\ w \in Seq(AnyCell) /\ a \in Nat /\ d \in Seq(DataCell) /\ t \in Kinds
        /\ z \in 0 .. h - 1 /\ Len(w) = z + h + n
    BY <1>4, <1>5, <1>6 DEF Writes
  <2>2. f \in Seq(AnyCell)
    BY <1>1, <1>5 DEF WriterTypes
  <2>3. v \in Seq(AnyCell)
    BY <1>1, <1>5 DEF WriterTypes
  <2>4. got \in 0 .. Len(w)
    BY <1>3, <1>5, <1>6, <2>1
  <2> QED BY <2>1, <2>2, <2>3, <2>4
<1>8. PICK c : c = SubSeq(w, 1, got)
  OBVIOUS
<1>9. /\ c \in Seq(AnyCell) /\ Len(c) = got /\ \A i \in 1 .. got : c[i] = w[i]
  BY <1>7, <1>8, FirstIs
<1>10. v = f \o c
  BY <1>5, <1>8 DEF Emit
<1>11. PICK l \in Nat : l = Len(f)
  BY <1>7, LenProperties
<1>12. /\ Len(v) = l + got
       /\ \A i \in 1 .. l : f[i] = v[i]
       /\ \A i \in 1 .. got : v[l + i] = w[i]
  <2>1. c \in Seq(AnyCell) /\ Len(c) = got
    BY <1>9
  <2>2. /\ Len(v) = Len(f) + Len(c)
        /\ \A i \in 1 .. Len(f) : v[i] = f[i]
        /\ \A i \in 1 .. Len(c) : v[Len(f) + i] = c[i]
    <3>1. f \in Seq(AnyCell) /\ c \in Seq(AnyCell)
      BY <1>7, <2>1
    <3> QED BY <1>10, <3>1
  <2>3. /\ Len(v) = l + got
        /\ \A i \in 1 .. l : v[i] = f[i]
        /\ \A i \in 1 .. got : v[l + i] = c[i]
    BY <1>11, <2>1, <2>2
  <2> QED BY <1>9, <2>3
<1>13. Agree(f, v, l)
  BY <1>7, <1>11, <1>12 DEF Agree
<1>14. PICK p \in Nat : p = l + z + 1
  BY <1>7
<1>15. PICK R : R = [id |-> adding.id, size |-> adding.size, start |-> RecordStart]
  OBVIOUS
<1>16. R \in begun' /\ begun \subseteq begun'
  <2>1. CASE adding.begin
    BY <1>15, <2>1 DEF Emit
  <2>2. CASE ~adding.begin
    <3>1. R = AddedTo
      BY <1>15, <2>2 DEF AddedTo, RecordStart
    <3> QED BY <1>2, <1>3, <2>2, <3>1 DEF AddingOK, Emit
  <2> QED BY <2>1, <2>2
<1>17. PICK g : g = [x \in Nat |-> IF x = p THEN [rec |-> R, from |-> a] ELSE fr[x]]
  OBVIOUS
<1>18. /\ g[p].rec = R /\ g[p].from = a
       /\ \A x \in 1 .. l : g[x] = fr[x]
  BY <1>7, <1>14, <1>17
<1>19. /\ adding.size \in Nat /\ adding.left \in Nat /\ a = adding.size - adding.left
       /\ n <= adding.left /\ t = FragmentType(adding.begin, n = adding.left)
       /\ adding.begin \in BOOLEAN
  BY <1>3, <1>4, <1>6 DEF Writes, Adding
<1>20. ASSUME NEW x \in l + 1 .. Len(v), IsCrc(v[x]) PROVE \E u, e : Piece(v, begun', g, x, u, e)
  <2>1. PICK j \in 1 .. got : x = l + j
    BY <1>7, <1>12, <1>20
  <2>2. j \in 1 .. Len(w) /\ IsCrc(w[j])
    BY <1>7, <1>12, <1>20, <2>1
  <2>3. j = z + 1
    BY <1>4, <1>5, <2>2, OneCrc
  <2>4. x = p
    BY <1>7, <1>14, <2>1, <2>3
  <2>5. v[p] = Crc(t, d)
    <3>1. Whole(w, z + 1, t, d)
      BY <1>4, <1>5 DEF Writes
    <3>2. w[z + 1] = Crc(t, d)
      BY <3>1 DEF Whole
    <3> QED BY <1>12, <2>1, <2>3, <2>4, <3>2
  <2>6. R.id = adding.id /\ R.size = adding.size /\ R.start = RecordStart
    BY <1>15
  <2>7. \A i \in 1 .. n : d[i] = Data(R.id, a + i)
    BY <1>4, <1>6, <2>6 DEF Writes
  <2>8. a + n <= R.size
    <3>1. a = R.size - adding.left /\ R.size \in Nat /\ adding.left \in Nat
          /\ n <= adding.left
      BY <1>19, <2>6
    <3> QED BY <3>1
  <2>9. ASSUME t \in {"full", "first"} PROVE a = 0 /\ p = R.start + 1
    <3>1. adding.begin
      BY <1>19, <2>9 DEF FragmentType
    <3>2. RecordStart = l + z
      BY <1>4, <1>5, <1>11, <3>1 DEF RecordStart, Writes
    <3> QED BY <1>3, <1>7, <1>14, <1>19, <2>6, <3>1, <3>2
  <2>10. ASSUME t \in {"full", "last"} PROVE a + n = R.size
    <3>1. n = adding.left
      BY <1>19, <2>10 DEF FragmentType
    <3> QED BY <1>19, <2>6, <3>1
  <2>11. ASSUME t \in {"middle", "last"} PROVE \E q, u, e : Leads(v, g, q, u, e, p)
    <3>1. ~adding.begin
      BY <1>19, <2>11 DEF FragmentType
    <3>2. PICK q, u, e :
            /\ u \in {"first", "middle"} /\ e \in Seq(DataCell) /\ Whole(file, q, u, e)
            /\ fr[q].rec = AddedTo /\ fr[q].from \in Nat
            /\ fr[q].from + Len(e) = adding.size - adding.left
            /\ q + HeaderSize + Len(e) = Len(file) + 1
      BY <1>2, <1>3, <3>1 DEF AddingOK
    <3>3. q \in Nat \ {0} /\ Len(e) \in Nat /\ q + h + Len(e) = l + 1
      BY <1>5, <1>6, <1>11, <3>2, LenProperties DEF Whole
    <3>4. q \in 1 .. l /\ q + HeaderSize + Len(e) - 1 <= l
      BY <1>6, <3>3
    <3>5. Whole(v, q, u, e)
      BY <1>5, <1>7, <1>13, <3>2, <3>4, WholeAgrees
    <3>6. g[q] = fr[q]
      BY <1>18, <3>4
    <3>7. R = AddedTo
      BY <1>15, <3>1 DEF AddedTo, RecordStart
    <3>8. q + h + Len(e) <= p /\ p < q + h + Len(e) + h
      BY <1>7, <1>14, <3>3
    <3>9. Leads(v, g, q, u, e, p)
      BY <1>6, <1>18, <1>19, <3>2, <3>5, <3>6, <3>7, <3>8 DEF Leads
    <3> QED BY <3>9
  <2>12. Piece(v, begun', g, p, t, d)
    BY <1>6, <1>7, <1>16, <1>18, <2>5, <2>7, <2>8, <2>9, <2>10, <2>11 DEF Piece
  <2> QED BY <2>4, <2>12
<1>21. FileOK(v, begun', g)
  BY <1>2, <1>5, <1>7, <1>13, <1>16, <1>18, <1>20, FileGrows
<1>22. AddingOK(g)'
  <2> SUFFICES ASSUME adding' # NoRecord, ~adding'.begin
               PROVE  /\ AddedTo' \in begun'
                      /\ \E q, u, e :
                           /\ u \in {"first", "middle"} /\ e \in Seq(DataCell)
                           /\ Whole(v, q, u, e)
                           /\ g[q].rec = AddedTo' /\ g[q].from \in Nat
                           /\ g[q].from + Len(e) = adding'.size - adding'.left
                           /\ q + HeaderSize + Len(e) = Len(v) + 1
    BY <1>5 DEF AddingOK
  <2>1. /\ ok /\ FragmentLength < adding.left
        /\ adding' = [adding EXCEPT !.left = @ - FragmentLength, !.begin = FALSE,
                                    !.start = RecordStart]
    BY DEF Emit
  <2>2. FragmentLength = n
    BY <1>4, <1>6 DEF Writes
  <2>3. /\ adding'.id = adding.id /\ adding'.size = adding.size
        /\ adding'.start = RecordStart /\ adding'.left = adding.left - n
    BY <1>3, <2>1, <2>2 DEF Adding
  <2>4. AddedTo' = R
    BY <1>15, <2>3 DEF AddedTo
  <2>5. got = Len(w) /\ c = w
    <3>1. got = Len(w)
      BY <1>5, <1>7, <2>1
    <3> QED BY <1>7, <1>8, <3>1, SubSeqFull
  <2>6. Whole(v, p, t, d)
    <3>1. Whole(w, z + 1, t, d)
      BY <1>4, <1>5 DEF Writes
    <3>2. Whole(f \o w, Len(f) + (z + 1), t, d)
      BY <1>7, <3>1, WholeBehind
    <3>3. Len(f) + (z + 1) = p
      BY <1>7, <1>11, <1>14
    <3> QED BY <1>10, <2>5, <3>2, <3>3
  <2>7. t \in {"first", "middle"}
    BY <1>19, <2>1, <2>2 DEF FragmentType
  <2>8. a + n = adding'.size - adding'.left
    BY <1>7, <1>19, <2>3
  <2>9. p + h + n = Len(v) + 1
    BY <1>7, <1>12, <1>14, <2>5
  <2>10. /\ g[p].rec = AddedTo' /\ g[p].from \in Nat
         /\ g[p].from + Len(d) = adding'.size - adding'.left
         /\ p + HeaderSize + Len(d) = Len(v) + 1
    BY <1>6, <1>7, <1>18, <2>4, <2>8, <2>9
  <2> QED BY <1>7, <1>16, <2>4, <2>6, <2>7, <2>10
<1> QED BY <1>1, <1>5, <1>21, <1>22 DEF FileInv

(* The other steps that write.                                             *)
LEMMA OthersInv ==
  ASSUME FileInv, (\E n \in Sizes : AddRecord(n)) \/ Reopen
                  \/ \E keep \in 0 .. Len(file), z \in scenario.zeros : Crash(keep, z)
  PROVE  FileInv'
<1>1. WriterTypes /\ Len(file) \in Nat
  BY LenProperties DEF FileInv, WriterTypes
<1>2. PICK fr : FileOK(file, begun, fr) /\ AddingOK(fr)
  BY DEF FileInv
<1>3. ASSUME NEW n \in Sizes, AddRecord(n) PROVE FileInv'
  <2>1. /\ scenario' = scenario /\ phase' = phase /\ file' = file
        /\ blockOffset' = blockOffset /\ begun' = begun /\ added' = added
    BY <1>3 DEF AddRecord
  <2>2. PICK m \in Nat : m = Cardinality(begun) + 1
    <3>1. Cardinality(begun) \in Nat
      BY <1>1, FS_CardinalityType DEF WriterTypes
    <3> QED BY <3>1
  <2>3. n \in Nat
    BY LogAssumption
  <2>4. adding' = [id |-> m, size |-> n, left |-> n, begin |-> TRUE, start |-> 0]
    BY <1>3, <2>2 DEF AddRecord
  <2>5. adding' \in Adding /\ adding'.left = adding'.size /\ adding'.begin
        /\ adding'.start = 0 /\ adding'.size \in Nat
    BY <2>3, <2>4 DEF Adding
  <2>6. WriterTypes'
    BY <1>1, <2>1, <2>5 DEF WriterTypes
  <2>7. AddingOK(fr)'
    BY <2>5 DEF AddingOK
  <2> QED BY <1>2, <2>1, <2>6, <2>7 DEF FileInv
<1>4. ASSUME Reopen PROVE FileInv'
  <2>1. /\ scenario' = scenario /\ phase' = "write" /\ file' = file
        /\ adding' = adding /\ begun' = begun /\ added' = added
        /\ blockOffset' = Len(file) % BlockSize
    BY <1>4 DEF Reopen
  <2>2. blockOffset' \in 0 .. BlockSize
    BY <1>1, <2>1, LogAssumption
  <2>3. WriterTypes'
    BY <1>1, <2>1, <2>2 DEF WriterTypes
  <2>4. AddingOK(fr)'
    BY <1>2, <2>1 DEF AddingOK, AddedTo
  <2> QED BY <1>2, <2>1, <2>3, <2>4 DEF FileInv
<1>5. ASSUME NEW keep \in 0 .. Len(file), NEW z \in scenario.zeros, Crash(keep, z)
      PROVE  FileInv'
  <2>1. z \in Nat
    <3>1. scenario \in Scenario
      BY <1>1, LogAssumption DEF WriterTypes
    <3> QED BY <3>1 DEF Scenario
  <2>2. /\ scenario' = scenario /\ phase' = "down" /\ adding' = NoRecord
        /\ begun' = begun /\ blockOffset' = blockOffset
        /\ added' = {r \in added : r.end <= keep}
        /\ file' = SubSeq(file, 1, keep) \o Cells(z, Zero)
    BY <1>5 DEF Crash
  <2>3. PICK c, o, v, f : /\ c = SubSeq(file, 1, keep) /\ o = Cells(z, Zero)
                          /\ v = file' /\ f = file
    OBVIOUS
  <2>4. /\ c \in Seq(AnyCell) /\ Len(c) = keep
        /\ \A i \in 1 .. keep : c[i] = f[i]
    BY <1>1, <2>3, FirstIs DEF WriterTypes
  <2>5. o \in Seq(AnyCell) /\ Len(o) = z /\ \A i \in 1 .. z : o[i] = Zero
    BY <2>1, <2>3, CellsIs, CellKinds
  <2>6. /\ v \in Seq(AnyCell) /\ Len(v) = keep + z
        /\ \A i \in 1 .. keep : v[i] = c[i]
        /\ \A i \in 1 .. z : v[keep + i] = o[i]
    <3>1. c \in Seq(AnyCell) /\ o \in Seq(AnyCell) /\ v = c \o o
      BY <2>2, <2>3, <2>4, <2>5
    <3>2. /\ v \in Seq(AnyCell) /\ Len(v) = Len(c) + Len(o)
          /\ \A i \in 1 .. Len(c) : v[i] = c[i]
          /\ \A i \in 1 .. Len(o) : v[Len(c) + i] = o[i]
      BY <3>1
    <3> QED BY <2>4, <2>5, <3>2
  <2>7. Agree(f, v, keep)
    BY <1>1, <2>1, <2>3, <2>4, <2>6 DEF Agree
  <2>8. \A p \in keep + 1 .. Len(v) : ~IsCrc(v[p])
    <3> SUFFICES ASSUME NEW p \in keep + 1 .. Len(v) PROVE ~IsCrc(v[p])
      OBVIOUS
    <3>1. PICK i \in 1 .. z : p = keep + i
      BY <1>1, <2>1, <2>6
    <3>2. v[p] = Zero
      BY <2>5, <2>6, <3>1
    <3> QED BY <3>2, CellKinds
  <2>9. FileOK(v, begun, fr)
    BY <1>2, <2>3, <2>6, <2>7, <2>8, FileGrows
  <2>10. \A r \in added' : /\ r.start \in Nat /\ r.end \in Nat
                           /\ r.start < r.end /\ r.end <= Len(v)
    <3> SUFFICES ASSUME NEW r \in added'
                 PROVE  /\ r.start \in Nat /\ r.end \in Nat
                        /\ r.start < r.end /\ r.end <= Len(v)
      OBVIOUS
    <3>1. r \in added /\ r.end <= keep
      BY <2>2
    <3>2. r.start \in Nat /\ r.end \in Nat /\ r.start < r.end
      BY <1>1, <3>1 DEF WriterTypes
    <3> QED BY <1>1, <2>1, <2>6, <3>1, <3>2
  <2>11. WriterTypes'
    BY <1>1, <2>2, <2>3, <2>6, <2>10 DEF WriterTypes
  <2>12. AddingOK(fr)'
    BY <2>2 DEF AddingOK
  <2> QED BY <2>2, <2>3, <2>9, <2>11, <2>12 DEF FileInv
<1> QED BY <1>3, <1>4, <1>5

-----------------------------------------------------------------------------
(* What the Reader has.                                                    *)

(* The Reader has accepted a fragment at g: only its checksum, type and    *)
(* data are known to be there.                                             *)
Accepted(s, g, t, d) ==
  /\ g \in Nat \ {0} /\ g + HeaderSize + Len(d) - 1 <= Len(s)
  /\ s[g] = Crc(t, d) /\ s[g + HeaderSize - 1] = Type(t)
  /\ \A i \in 1 .. Len(d) : s[g + HeaderSize - 1 + i] = d[i]

(* Of the fragments that end less than a header before p there is one:     *)
(* the one accepted there is the one that was written there.               *)
LEMMA OneBefore ==
  ASSUME NEW s, NEW g, NEW t \in Kinds, NEW d \in Seq(DataCell), Accepted(s, g, t, d),
         NEW q, NEW u \in Kinds, NEW e \in Seq(DataCell), Whole(s, q, u, e),
         NEW p \in Nat,
         g + HeaderSize + Len(d) <= p, p < g + HeaderSize + Len(d) + HeaderSize,
         q + HeaderSize + Len(e) <= p, p < q + HeaderSize + Len(e) + HeaderSize
  PROVE  g = q /\ t = u /\ d = e
<1>1. PICK h \in Nat, m \in Nat, n \in Nat :
        h = HeaderSize /\ h >= 3 /\ m = Len(d) /\ n = Len(e)
  <2>1. HeaderSize \in Nat /\ HeaderSize >= 3
    BY LogAssumption
  <2>2. Len(d) \in Nat /\ Len(e) \in Nat
    BY LenProperties
  <2> QED BY <2>1, <2>2
<1>2. /\ g \in Nat \ {0} /\ s[g] = Crc(t, d) /\ s[g + h - 1] = Type(t)
      /\ \A i \in 1 .. m : s[g + h - 1 + i] = d[i]
  BY <1>1 DEF Accepted
<1>3. /\ q \in Nat \ {0} /\ s[q] = Crc(u, e) /\ s[q + h - 1] = Type(u)
      /\ \A i \in q + 1 .. q + h - 2 : ~IsCrc(s[i]) /\ ~IsType(s[i])
      /\ \A i \in 1 .. n : s[q + h - 1 + i] = e[i]
  BY <1>1 DEF Whole
<1>4. g + h + m <= p /\ p < g + h + m + h /\ q + h + n <= p /\ p < q + h + n + h
  BY <1>1
<1>5. /\ IsCrc(s[g]) /\ IsType(s[g + h - 1]) /\ ~IsCrc(s[g + h - 1])
      /\ IsCrc(s[q]) /\ IsType(s[q + h - 1]) /\ ~IsCrc(s[q + h - 1])
  BY <1>2, <1>3, CellKinds
<1>6. \A i \in 1 .. m : ~IsCrc(s[g + h - 1 + i])
  <2>1. \A i \in 1 .. m : d[i] \in DataCell
    BY <1>1, ElementOfSeq
  <2> QED BY <1>2, <2>1, CellKinds
<1>7. \A i \in 1 .. n : ~IsCrc(s[q + h - 1 + i])
  <2>1. \A i \in 1 .. n : e[i] \in DataCell
    BY <1>1, ElementOfSeq
  <2> QED BY <1>3, <2>1, CellKinds
<1>8. ~(g < q)
  <2> SUFFICES ASSUME g < q PROVE FALSE
    OBVIOUS
  <2>1. q < g + h + m
    BY <1>1, <1>2, <1>3, <1>4
  <2>2. CASE q > g + h - 1
    <3>1. PICK i \in 1 .. m : q = g + h - 1 + i
      BY <1>1, <1>2, <1>3, <2>1, <2>2
    <3> QED BY <1>5, <1>6, <3>1
  <2>3. CASE q = g + h - 1
    BY <1>5, <2>3
  <2>4. CASE q < g + h - 1
    <3>1. g + h - 1 \in q + 1 .. q + h - 2
      BY <1>1, <1>2, <1>3, <2>4
    <3> QED BY <1>3, <1>5, <3>1
  <2> QED BY <1>1, <1>2, <1>3, <2>2, <2>3, <2>4
<1>9. ~(q < g)
  <2> SUFFICES ASSUME q < g PROVE FALSE
    OBVIOUS
  <2>1. g < q + h + n
    BY <1>1, <1>2, <1>3, <1>4
  <2>2. CASE g > q + h - 1
    <3>1. PICK i \in 1 .. n : g = q + h - 1 + i
      BY <1>1, <1>2, <1>3, <2>1, <2>2
    <3> QED BY <1>5, <1>7, <3>1
  <2>3. CASE g = q + h - 1
    BY <1>5, <2>3
  <2>4. CASE g < q + h - 1
    <3>1. g \in q + 1 .. q + h - 2
      BY <1>1, <1>2, <1>3, <2>4
    <3> QED BY <1>3, <1>5, <3>1
  <2> QED BY <1>1, <1>2, <1>3, <2>2, <2>3, <2>4
<1>10. g = q
  BY <1>2, <1>3, <1>8, <1>9
<1> QED BY <1>2, <1>3, <1>10, CrcTells

Output == [offset : Nat, data : Seq(AnyCell)]
ReaderType ==
  [checksum : BOOLEAN, initial : Nat, buffer : 0 .. BlockSize, endOffset : Nat,
   eof : BOOLEAN, resyncing : BOOLEAN, inFragmented : BOOLEAN,
   scratch : Seq(AnyCell), prospective : Nat, out : Seq(Output),
   reported : BOOLEAN, ioError : BOOLEAN]

(* The buffer holds cells of the file; fragments before the first one of a *)
(* record are skipped only while none is kept.                             *)
ReaderTypes(r, s) ==
  /\ r \in ReaderType /\ r.buffer <= r.endOffset
  /\ r.buffer > 0 => r.endOffset <= Len(s)
  /\ r.resyncing => ~r.inFragmented

StartOf(r) == r.endOffset - r.buffer

(* What was returned are records, in order, that start before limit.       *)
Original(o, B) == \E r \in B : o.offset = r.start /\ o.data = Payload(r)
OutOK(out, initial, B, limit) ==
  \A i \in DOMAIN out :
    /\ out[i].offset >= initial /\ out[i].offset < limit
    /\ i > 1 => out[i - 1].offset < out[i].offset
    /\ Original(out[i], B)

Returns(r, B) ==
  r.checksum =>
    /\ OutOK(r.out, r.initial, B, StartOf(r))
    /\ r.inFragmented => /\ r.prospective >= r.initial /\ r.prospective < StartOf(r)
                         /\ OutOK(r.out, r.initial, B, r.prospective)

(* The fragments kept are the first ones of a record, and the last of them *)
(* ends where the Reader is, or before the rest of a block too small for a *)
(* header.                                                                 *)
Keeps(r, s, fr, g, t, d) ==
  /\ t \in {"first", "middle"} /\ d \in Seq(DataCell) /\ Accepted(s, g, t, d)
  /\ g + HeaderSize + Len(d) - 1 <= StartOf(r)
  /\ StartOf(r) < g + HeaderSize + Len(d) - 1 + HeaderSize
  /\ \/ StartOf(r) = g + HeaderSize + Len(d) - 1
     \/ r.eof \/ r.buffer >= HeaderSize
  /\ r.scratch = SubSeq(Payload(fr[g].rec), 1, fr[g].from + Len(d))
  /\ r.prospective = fr[g].rec.start
Held(r, s, fr) ==
  r.checksum /\ r.inFragmented => \E g, t, d : Keeps(r, s, fr, g, t, d)

ReaderOK(r, s, B, fr) == ReaderTypes(r, s) /\ Returns(r, B) /\ Held(r, s, fr)

(* What was returned started before a later limit, too.                    *)
LEMMA OutLater ==
  ASSUME NEW out \in Seq(Output), NEW initial, NEW B, NEW l \in Int, NEW k \in Int,
         OutOK(out, initial, B, l), l <= k
  PROVE  OutOK(out, initial, B, k)
<1> SUFFICES ASSUME NEW i \in DOMAIN out
             PROVE  /\ out[i].offset >= initial /\ out[i].offset < k
                    /\ i > 1 => out[i - 1].offset < out[i].offset
                    /\ Original(out[i], B)
  BY DEF OutOK
<1>1. /\ out[i].offset >= initial /\ out[i].offset < l
      /\ i > 1 => out[i - 1].offset < out[i].offset
      /\ Original(out[i], B)
  BY DEF OutOK
<1>2. out[i].offset \in Nat
  <2>1. i \in 1 .. Len(out)
    BY LenProperties
  <2>2. out[i] \in Output
    BY <2>1, ElementOfSeq
  <2> QED BY <2>2 DEF Output
<1>3. out[i].offset < k
  BY <1>1, <1>2
<1> QED BY <1>1, <1>3

(* One more record is returned.                                            *)
LEMMA OutGrows ==
  ASSUME NEW out \in Seq(Output), NEW x \in Output, NEW initial, NEW B,
         NEW k \in Int, OutOK(out, initial, B, x.offset),
         x.offset >= initial, x.offset < k, Original(x, B)
  PROVE  OutOK(Append(out, x), initial, B, k)
<1>0. PICK n \in Nat : n = Len(out)
  BY LenProperties
<1>1. PICK o : o = Append(out, x)
  OBVIOUS
<1>2. /\ o \in Seq(Output) /\ Len(o) = n + 1
      /\ \A i \in 1 .. n : o[i] = out[i]
      /\ o[n + 1] = x
  BY <1>0, <1>1, AppendProperties
<1>3. x.offset \in Nat
  BY DEF Output
<1>4. OutOK(out, initial, B, k)
  BY <1>3, OutLater
<1>5. DOMAIN out = 1 .. n /\ DOMAIN o = 1 .. n + 1
  BY <1>0, <1>2, LenProperties
<1> SUFFICES ASSUME NEW i \in 1 .. n + 1
             PROVE  /\ o[i].offset >= initial /\ o[i].offset < k
                    /\ i > 1 => o[i - 1].offset < o[i].offset
                    /\ Original(o[i], B)
  BY <1>1, <1>5 DEF OutOK
<1>6. CASE i \in 1 .. n
  <2>1. /\ out[i].offset >= initial /\ out[i].offset < k
        /\ i > 1 => out[i - 1].offset < out[i].offset
        /\ Original(out[i], B)
    BY <1>4, <1>5, <1>6 DEF OutOK
  <2>2. o[i] = out[i] /\ (i > 1 => i - 1 \in 1 .. n)
    BY <1>2, <1>6
  <2> QED BY <1>2, <2>1, <2>2
<1>7. CASE i = n + 1
  <2>1. o[i] = x
    BY <1>2, <1>7
  <2>2. ASSUME i > 1 PROVE o[i - 1].offset < x.offset
    <3>1. i - 1 = n /\ n \in 1 .. n
      BY <1>7, <2>2
    <3>2. out[n].offset < x.offset
      BY <1>5, <3>1 DEF OutOK
    <3> QED BY <1>2, <3>1, <3>2
  <2> QED BY <2>1, <2>2
<1>8. i \in 1 .. n \/ i = n + 1
  OBVIOUS
<1> QED BY <1>6, <1>7, <1>8

(* q is where r is, with the same parameters.                              *)
Placed(q, r) ==
  /\ q.checksum = r.checksum /\ q.initial = r.initial /\ q.buffer = r.buffer
  /\ q.endOffset = r.endOffset /\ q.eof = r.eof /\ q.resyncing = r.resyncing
SameRecord(q, r) ==
  /\ q.inFragmented = r.inFragmented /\ q.scratch = r.scratch
  /\ q.prospective = r.prospective /\ q.out = r.out

(* ReportDrop changes nothing else.                                        *)
LEMMA ReportIs ==
  ASSUME NEW r \in ReaderType, NEW bytes
  PROVE  /\ Report(r, bytes) \in ReaderType
         /\ Placed(Report(r, bytes), r) /\ SameRecord(Report(r, bytes), r)
<1>1. PICK b : b = (r.reported \/ Reports(r, bytes))
  OBVIOUS
<1>2. b \in BOOLEAN
  BY <1>1
<1>3. PICK q : q = Report(r, bytes)
  OBVIOUS
<1>4. q = [r EXCEPT !.reported = b]
  BY <1>1, <1>3 DEF Report
<1>5. q \in ReaderType
  BY <1>2, <1>4 DEF ReaderType
<1>6. Placed(q, r) /\ SameRecord(q, r)
  BY <1>4 DEF ReaderType, Placed, SameRecord
<1> QED BY <1>3, <1>5, <1>6

(* What a Reader is after ReadRecord has dealt with a fragment.            *)
Assembles(q, r, t, data) ==
  /\ q \in ReaderType /\ Placed(q, r)
  /\ t = "full" => /\ ~q.inFragmented
                   /\ q.out = Append(r.out, [offset |-> FragmentOffset(r, data),
                                             data |-> data])
  /\ t = "first" => /\ q.inFragmented /\ q.scratch = data /\ q.out = r.out
                    /\ q.prospective = FragmentOffset(r, data)
  /\ t = "middle" /\ r.inFragmented =>
       /\ q.inFragmented /\ q.scratch = r.scratch \o data /\ q.out = r.out
       /\ q.prospective = r.prospective
  /\ t = "last" /\ r.inFragmented =>
       /\ ~q.inFragmented
       /\ q.out = Append(r.out, [offset |-> r.prospective,
                                 data |-> r.scratch \o data])
  /\ t \in {"middle", "last"} /\ ~r.inFragmented => ~q.inFragmented /\ q.out = r.out
  /\ t \notin Kinds => ~q.inFragmented /\ q.out = r.out

(* ReadRecord returns a record.                                            *)
LEMMA ReturnedIs ==
  ASSUME NEW r \in ReaderType, NEW offset \in Nat, NEW data \in Seq(AnyCell)
  PROVE  /\ Returned(r, offset, data) \in ReaderType
         /\ Placed(Returned(r, offset, data), r)
         /\ ~Returned(r, offset, data).inFragmented
         /\ Returned(r, offset, data).out
              = Append(r.out, [offset |-> offset, data |-> data])
<1>1. [offset |-> offset, data |-> data] \in Output
  BY DEF Output
<1>2. PICK o : o = Append(r.out, [offset |-> offset, data |-> data])
  OBVIOUS
<1>3. r.out \in Seq(Output)
  BY DEF ReaderType
<1>4. o \in Seq(Output)
  BY <1>1, <1>2, <1>3, AppendProperties
<1>5. PICK e : e = <<>>
  OBVIOUS
<1>6. e \in Seq(AnyCell)
  BY <1>5
<1>7. PICK q : q = Returned(r, offset, data)
  OBVIOUS
<1>8. q = [r EXCEPT !.out = o, !.inFragmented = FALSE, !.scratch = e]
  BY <1>2, <1>5, <1>7 DEF Returned
<1>9. q \in ReaderType
  BY <1>4, <1>6, <1>8 DEF ReaderType
<1>10. Placed(q, r) /\ ~q.inFragmented /\ q.out = o
  BY <1>8 DEF ReaderType, Placed
<1> QED BY <1>2, <1>7, <1>9, <1>10

(* The cases of ReadRecord.                                                *)
LEMMA AssembledIs ==
  ASSUME NEW r \in ReaderType, NEW data \in Seq(AnyCell), NEW t,
         t \in Kinds => FragmentOffset(r, data) \in Nat
  PROVE  Assembles(Assembled(r, t, data), r, t, data)
<1>1. PICK q : q = Assembled(r, t, data)
  OBVIOUS
<1>2. PICK f : f = FragmentOffset(r, data)
  OBVIOUS
<1>3. PICK e : e = <<>> /\ e \in Seq(AnyCell)
  <2>1. <<>> \in Seq(AnyCell)
    OBVIOUS
  <2> QED BY <2>1
<1>4. PICK p : p = Partial(r)
  OBVIOUS
<1>5. p \in ReaderType /\ Placed(p, r) /\ SameRecord(p, r)
  <2>1. p = r \/ p = Report(r, Len(r.scratch))
    BY <1>4 DEF Partial
  <2>2. Placed(r, r) /\ SameRecord(r, r)
    BY DEF Placed, SameRecord
  <2> QED BY <2>1, <2>2, ReportIs
<1>6. CASE t = "full"
  <2>1. q = Returned(p, f, data)
    BY <1>1, <1>2, <1>4, <1>6 DEF Assembled
  <2>2. f \in Nat
    BY <1>2, <1>6 DEF Kinds
  <2>3. /\ q \in ReaderType /\ Placed(q, p) /\ ~q.inFragmented
        /\ q.out = Append(p.out, [offset |-> f, data |-> data])
    BY <1>5, <2>1, <2>2, ReturnedIs
  <2>4. Placed(q, r) /\ p.out = r.out
    BY <1>5, <2>3 DEF Placed, SameRecord
  <2> QED BY <1>1, <1>2, <1>6, <2>3, <2>4 DEF Assembles, Kinds
<1>7. CASE t = "first"
  <2>1. q = [p EXCEPT !.prospective = f, !.scratch = data, !.inFragmented = TRUE]
    BY <1>1, <1>2, <1>4, <1>7 DEF Assembled
  <2>2. f \in Nat
    BY <1>2, <1>7 DEF Kinds
  <2>3. q \in ReaderType
    BY <1>5, <2>1, <2>2 DEF ReaderType
  <2>4. /\ Placed(q, p) /\ q.inFragmented /\ q.scratch = data /\ q.out = p.out
        /\ q.prospective = f
    BY <1>5, <2>1 DEF ReaderType, Placed
  <2>5. Placed(q, r) /\ p.out = r.out
    BY <1>5, <2>4 DEF Placed, SameRecord
  <2> QED BY <1>1, <1>2, <1>7, <2>3, <2>4, <2>5 DEF Assembles, Kinds
<1>8. CASE t \in {"middle", "last"} /\ ~r.inFragmented
  <2>1. q = Report(r, Len(data))
    BY <1>1, <1>8 DEF Assembled
  <2>2. q \in ReaderType /\ Placed(q, r) /\ SameRecord(q, r)
    BY <2>1, ReportIs
  <2> QED BY <1>1, <1>8, <2>2 DEF Assembles, SameRecord, Kinds
<1>9. CASE t \in {"middle", "last"} /\ r.inFragmented
  <2>1. PICK c : c = r.scratch \o data
    OBVIOUS
  <2>2. c \in Seq(AnyCell)
    <3>1. r.scratch \in Seq(AnyCell)
      BY DEF ReaderType
    <3> QED BY <2>1, <3>1, ConcatProperties
  <2>3. CASE t = "middle"
    <3>1. q = [r EXCEPT !.scratch = c]
      BY <1>1, <1>9, <2>1, <2>3 DEF Assembled
    <3>2. q \in ReaderType
      BY <2>2, <3>1 DEF ReaderType
    <3>3. /\ Placed(q, r) /\ q.inFragmented = r.inFragmented /\ q.scratch = c
          /\ q.out = r.out /\ q.prospective = r.prospective
      BY <3>1 DEF ReaderType, Placed
    <3> QED BY <1>1, <1>9, <2>1, <2>3, <3>2, <3>3 DEF Assembles, Kinds
  <2>4. CASE t = "last"
    <3>1. q = Returned(r, r.prospective, c)
      BY <1>1, <1>9, <2>1, <2>4 DEF Assembled
    <3>2. r.prospective \in Nat
      BY DEF ReaderType
    <3>3. /\ q \in ReaderType /\ Placed(q, r) /\ ~q.inFragmented
          /\ q.out = Append(r.out, [offset |-> r.prospective, data |-> c])
      BY <2>2, <3>1, <3>2, ReturnedIs
    <3> QED BY <1>1, <1>9, <2>1, <2>4, <3>3 DEF Assembles, Kinds
  <2> QED BY <1>9, <2>3, <2>4
<1>10. CASE t \notin Kinds
  <2>2. \/ q = r /\ ~r.inFragmented
        \/ \E x : q = [Report(r, x) EXCEPT !.inFragmented = FALSE, !.scratch = e]
    BY <1>1, <1>3, <1>10 DEF Assembled, AfterBadRecord, Kinds
  <2>3. CASE q = r /\ ~r.inFragmented
    BY <1>1, <1>10, <2>3 DEF Assembles, Placed, Kinds
  <2>4. ASSUME NEW x, q = [Report(r, x) EXCEPT !.inFragmented = FALSE, !.scratch = e]
        PROVE  q \in ReaderType /\ Placed(q, r) /\ ~q.inFragmented /\ q.out = r.out
    <3>1. PICK y : y = Report(r, x)
      OBVIOUS
    <3>2. y \in ReaderType /\ Placed(y, r) /\ SameRecord(y, r)
      BY <3>1, ReportIs
    <3>3. q = [y EXCEPT !.inFragmented = FALSE, !.scratch = e]
      BY <2>4, <3>1
    <3>4. q \in ReaderType
      BY <1>3, <3>2, <3>3 DEF ReaderType
    <3>5. Placed(q, y) /\ ~q.inFragmented /\ q.out = y.out
      BY <3>2, <3>3 DEF ReaderType, Placed
    <3> QED BY <3>2, <3>4, <3>5 DEF Placed, SameRecord
  <2>5. CASE \E x : q = [Report(r, x) EXCEPT !.inFragmented = FALSE, !.scratch = e]
    BY <1>1, <1>10, <2>4, <2>5 DEF Assembles, Kinds
  <2> QED BY <2>2, <2>3, <2>5
<1>11. t \in Kinds => t \in {"full", "first", "middle", "last"}
  BY DEF Kinds
<1> QED BY <1>6, <1>7, <1>8, <1>9, <1>10, <1>11

(* A Reader that moves on with what it has.                                *)
LEMMA MovesOn ==
  ASSUME NEW r \in ReaderType, NEW q \in ReaderType, NEW B, SameRecord(q, r),
         q.checksum = r.checksum, q.initial = r.initial,
         StartOf(r) <= StartOf(q), Returns(r, B)
  PROVE  Returns(q, B)
<1> SUFFICES ASSUME q.checksum PROVE Returns(q, B)
  BY DEF Returns
<1>1. /\ StartOf(r) \in Int /\ StartOf(q) \in Int /\ r.out \in Seq(Output)
      /\ r.prospective \in Nat
  BY DEF ReaderType, StartOf
<1>2. /\ q.out = r.out /\ q.prospective = r.prospective
      /\ q.inFragmented = r.inFragmented
  BY DEF SameRecord
<1>3. /\ OutOK(r.out, r.initial, B, StartOf(r))
      /\ r.inFragmented => /\ r.prospective >= r.initial /\ r.prospective < StartOf(r)
                           /\ OutOK(r.out, r.initial, B, r.prospective)
  BY DEF Returns
<1>4. OutOK(q.out, q.initial, B, StartOf(q))
  BY <1>1, <1>2, <1>3, OutLater
<1>5. ASSUME q.inFragmented
      PROVE  /\ q.prospective >= q.initial /\ q.prospective < StartOf(q)
             /\ OutOK(q.out, q.initial, B, q.prospective)
  <2>1. r.prospective >= r.initial /\ r.prospective < StartOf(r)
    BY <1>2, <1>3, <1>5
  <2>2. q.prospective < StartOf(q)
    BY <1>1, <1>2, <2>1
  <2> QED BY <1>2, <1>3, <1>5, <2>1, <2>2
<1> QED BY <1>4, <1>5 DEF Returns

(* The Reader after ReadRecord has been given a fragment.                  *)
NextReader(r, t, data) ==
  IF r.resyncing /\ t \in {"middle", "last"}
  THEN [r EXCEPT !.resyncing = (t = "middle")]
  ELSE Assembled([r EXCEPT !.resyncing = FALSE], t, data)

(* It either skips the fragment or deals with it.                          *)
Continues(q, r, s, t, data) ==
  /\ ReaderTypes(q, s) /\ q.checksum = r.checksum /\ q.initial = r.initial
  /\ StartOf(q) = StartOf(r) /\ q.eof = r.eof
  /\ \/ t \in {"middle", "last"} /\ ~r.inFragmented /\ SameRecord(q, r)
     \/ \E y \in ReaderType :
          /\ Assembles(q, y, t, data) /\ SameRecord(y, r)
          /\ FragmentOffset(y, data) = FragmentOffset(r, data)

(* ReadRecord keeps where the Reader is.                                   *)
LEMMA NextReaderIs ==
  ASSUME NEW s, NEW r, ReaderTypes(r, s), NEW t, NEW data \in Seq(AnyCell),
         t \in Kinds => FragmentOffset(r, data) \in Nat,
         NEW q, q = NextReader(r, t, data)
  PROVE  Continues(q, r, s, t, data)
<1>1. r \in ReaderType
  BY DEF ReaderTypes
<1>2. CASE r.resyncing /\ t \in {"middle", "last"}
  <2>1. PICK b \in BOOLEAN : b = (t = "middle")
    OBVIOUS
  <2>2. q = [r EXCEPT !.resyncing = b]
    BY <1>2, <2>1 DEF NextReader
  <2>3. q \in ReaderType
    BY <1>1, <2>2 DEF ReaderType
  <2>4. /\ q.checksum = r.checksum /\ q.initial = r.initial /\ q.buffer = r.buffer
        /\ q.endOffset = r.endOffset /\ q.eof = r.eof /\ SameRecord(q, r)
    BY <1>1, <2>2 DEF ReaderType, SameRecord
  <2>5. ~r.inFragmented /\ ~q.inFragmented
    BY <1>2, <2>4 DEF ReaderTypes, SameRecord
  <2>6. ReaderTypes(q, s)
    BY <2>3, <2>4, <2>5 DEF ReaderTypes
  <2> QED BY <1>2, <2>4, <2>5, <2>6 DEF StartOf, Continues
<1>3. CASE ~(r.resyncing /\ t \in {"middle", "last"})
  <2>1. PICK y : y = [r EXCEPT !.resyncing = FALSE]
    OBVIOUS
  <2>2. q = Assembled(y, t, data)
    BY <1>3, <2>1 DEF NextReader
  <2>3. y \in ReaderType
    BY <1>1, <2>1 DEF ReaderType
  <2>4. /\ y.checksum = r.checksum /\ y.initial = r.initial /\ y.buffer = r.buffer
        /\ y.endOffset = r.endOffset /\ y.eof = r.eof /\ SameRecord(y, r)
        /\ ~y.resyncing
    BY <1>1, <2>1 DEF ReaderType, SameRecord
  <2>5. FragmentOffset(y, data) = FragmentOffset(r, data)
    BY <2>4 DEF FragmentOffset
  <2>6. Assembles(q, y, t, data)
    BY <2>2, <2>3, <2>5, AssembledIs
  <2>7. /\ q \in ReaderType /\ q.checksum = r.checksum /\ q.initial = r.initial
        /\ q.buffer = r.buffer /\ q.endOffset = r.endOffset /\ q.eof = r.eof
        /\ ~q.resyncing
    BY <2>4, <2>6 DEF Assembles, Placed
  <2>8. ReaderTypes(q, s)
    BY <2>7 DEF ReaderTypes
  <2> QED BY <2>3, <2>4, <2>5, <2>6, <2>7, <2>8 DEF StartOf, Continues
<1> QED BY <1>2, <1>3

(* A fragment that is not one of a record: what was kept is dropped.       *)
LEMMA BadRecordOK ==
  ASSUME NEW s, NEW B, NEW fr, NEW r, ReaderTypes(r, s), Returns(r, B), NEW t,
         t \notin Kinds, NEW data \in Seq(AnyCell),
         NEW q, q = NextReader(r, t, data)
  PROVE  ReaderOK(q, s, B, fr)
<1>1. /\ ReaderTypes(q, s) /\ q.checksum = r.checksum /\ q.initial = r.initial
      /\ StartOf(q) = StartOf(r)
      /\ \/ t \in {"middle", "last"}
         \/ \E y \in ReaderType : Assembles(q, y, t, data) /\ SameRecord(y, r)
  <2>1. Continues(q, r, s, t, data)
    BY NextReaderIs
  <2> QED BY <2>1 DEF Continues
<1>2. PICK y \in ReaderType : Assembles(q, y, t, data) /\ SameRecord(y, r)
  BY <1>1 DEF Kinds
<1>3. ~q.inFragmented /\ q.out = r.out
  BY <1>2 DEF Assembles, SameRecord
<1>4. Returns(q, B)
  BY <1>1, <1>3 DEF Returns
<1>5. Held(q, s, fr)
  BY <1>3 DEF Held
<1> QED BY <1>1, <1>4, <1>5 DEF ReaderOK

(* The data of a whole record, and of its first fragment.                  *)
LEMMA PartsOfPayload ==
  ASSUME NEW r, r.id \in Nat, r.size \in Nat, NEW d \in Seq(DataCell), NEW a \in Nat,
         a + Len(d) <= r.size, \A i \in 1 .. Len(d) : d[i] = Data(r.id, a + i)
  PROVE  /\ SubSeq(Payload(r), 1, a) \o d = SubSeq(Payload(r), 1, a + Len(d))
         /\ a = 0 => d = SubSeq(Payload(r), 1, a + Len(d))
         /\ SubSeq(Payload(r), 1, r.size) = Payload(r)
<1>1. PICK P : P = Payload(r)
  OBVIOUS
<1>2. PICK n \in Nat : n = Len(d)
  BY LenProperties
<1>3. /\ P \in Seq(DataCell) /\ Len(P) = r.size
      /\ \A i \in 1 .. r.size : P[i] = Data(r.id, i)
  BY <1>1, PayloadIs
<1>4. PartOf(d, P, a)
  <2>1. \A i \in 1 .. n : a + i \in 1 .. r.size
    BY <1>2
  <2>2. \A i \in 1 .. n : d[i] = P[a + i]
    BY <1>2, <1>3, <2>1
  <2> QED BY <1>2, <1>3, <2>2 DEF PartOf
<1>5. SubSeq(P, 1, a) \o d = SubSeq(P, 1, a + Len(d))
  BY <1>3, <1>4, PrefixGrows
<1>6. ASSUME a = 0 PROVE d = SubSeq(P, 1, a + Len(d))
  <2>1. n \in 0 .. Len(P) /\ a + Len(d) = n
    BY <1>2, <1>3, <1>6
  <2>2. /\ SubSeq(P, 1, n) \in Seq(DataCell) /\ Len(SubSeq(P, 1, n)) = n
        /\ \A i \in 1 .. n : SubSeq(P, 1, n)[i] = P[i]
    BY <1>3, <2>1, FirstIs
  <2>3. \A i \in 1 .. n : d[i] = SubSeq(P, 1, n)[i]
    <3>1. \A i \in 1 .. n : d[i] = P[i]
      BY <1>2, <1>4, <1>6 DEF PartOf
    <3> QED BY <2>2, <3>1
  <2>4. d = SubSeq(P, 1, n)
    BY <1>2, <2>2, <2>3, SeqEqual
  <2> QED BY <2>1, <2>4
<1>7. SubSeq(P, 1, r.size) = P
  BY <1>3, SubSeqFull
<1> QED BY <1>1, <1>5, <1>6, <1>7

(* What is known of a fragment that the Reader accepts at p, which is of   *)
(* record R behind its first a bytes.                                      *)
PieceOf(s, B, fr, p, t, d, R, a) ==
  /\ Piece(s, B, fr, p, t, d) /\ R = fr[p].rec /\ a = fr[p].from
  /\ R \in B /\ R.id \in Nat /\ R.size \in Nat /\ R.start \in Nat
  /\ SubSeq(Payload(R), 1, a) \o d = SubSeq(Payload(R), 1, a + Len(d))
  /\ a = 0 => d = SubSeq(Payload(R), 1, a + Len(d))
  /\ t \in {"full", "last"} => SubSeq(Payload(R), 1, a + Len(d)) = Payload(R)

(* The fragment at a checksum, and the record it is a part of.             *)
LEMMA PieceIs ==
  ASSUME NEW s, NEW B, B \subseteq Record, NEW fr, FileOK(s, B, fr),
         NEW p \in 1 .. Len(s), NEW t \in Kinds, NEW d \in Seq(DataCell),
         s[p] = Crc(t, d)
  PROVE  \E R, a : PieceOf(s, B, fr, p, t, d, R, a)
<1>1. IsCrc(s[p])
  BY CellKinds
<1>2. PICK u, e : Piece(s, B, fr, p, u, e)
  BY <1>1 DEF FileOK
<1>3. Crc(u, e) = Crc(t, d)
  BY <1>2 DEF Piece
<1>4. u = t /\ e = d
  BY <1>3, CrcTells
<1>5. Piece(s, B, fr, p, t, d)
  BY <1>2, <1>4
<1>6. PICK R, a : R = fr[p].rec /\ a = fr[p].from
  OBVIOUS
<1>7. /\ R \in B /\ a \in Nat /\ a + Len(d) <= R.size
      /\ \A i \in 1 .. Len(d) : d[i] = Data(R.id, a + i)
      /\ t \in {"full", "last"} => a + Len(d) = R.size
  BY <1>5, <1>6 DEF Piece
<1>8. R.id \in Nat /\ R.size \in Nat /\ R.start \in Nat
  BY <1>7 DEF Record
<1>9. /\ SubSeq(Payload(R), 1, a) \o d = SubSeq(Payload(R), 1, a + Len(d))
      /\ a = 0 => d = SubSeq(Payload(R), 1, a + Len(d))
      /\ SubSeq(Payload(R), 1, R.size) = Payload(R)
  BY <1>7, <1>8, PartsOfPayload
<1>10. PieceOf(s, B, fr, p, t, d, R, a)
  BY <1>5, <1>6, <1>7, <1>8, <1>9 DEF PieceOf
<1> QED BY <1>10

(* The Reader o accepts a fragment: r has gone behind it, and ReadRecord   *)
(* is given it.                                                            *)
LEMMA AcceptOK ==
  ASSUME NEW s, NEW B, B \subseteq Record, NEW fr, FileOK(s, B, fr),
         NEW o, ReaderOK(o, s, B, fr), o.checksum, o.buffer >= HeaderSize,
         NEW p \in 1 .. Len(s), p = StartOf(o) + 1, StartOf(o) >= o.initial,
         NEW t \in Kinds, NEW d \in Seq(DataCell), Accepted(s, p, t, d),
         NEW r, ReaderTypes(r, s), SameRecord(r, o), r.checksum = o.checksum,
         r.initial = o.initial, StartOf(r) = StartOf(o) + HeaderSize + Len(d),
         FragmentOffset(r, d) = StartOf(o),
         NEW q, q = NextReader(r, t, d)
  PROVE  ReaderOK(q, s, B, fr)
<1>1. PICK h \in Nat, n \in Nat : h = HeaderSize /\ h >= 3 /\ n = Len(d)
  <2>1. HeaderSize \in Nat /\ HeaderSize >= 3
    BY LogAssumption
  <2>2. Len(d) \in Nat
    BY LenProperties
  <2> QED BY <2>1, <2>2
<1>2. PICK b \in Nat : b = StartOf(o)
  BY DEF ReaderOK, ReaderTypes, ReaderType, StartOf
<1>3. /\ o \in ReaderType /\ r \in ReaderType /\ o.out \in Seq(Output)
      /\ o.prospective \in Nat /\ o.initial \in Nat
  BY DEF ReaderOK, ReaderTypes, ReaderType
<1>4. d \in Seq(AnyCell)
  BY CellKinds, SeqMonotonic
<1>5. /\ ReaderTypes(q, s) /\ q.checksum = o.checksum /\ q.initial = o.initial
      /\ StartOf(q) = b + h + n
      /\ \/ t \in {"middle", "last"} /\ ~r.inFragmented /\ SameRecord(q, r)
         \/ \E y \in ReaderType :
              /\ Assembles(q, y, t, d) /\ SameRecord(y, r)
              /\ FragmentOffset(y, d) = FragmentOffset(r, d)
  <2>1. FragmentOffset(r, d) \in Nat
    BY <1>2
  <2>2. /\ ReaderTypes(q, s) /\ q.checksum = r.checksum /\ q.initial = r.initial
        /\ StartOf(q) = StartOf(r) /\ q.eof = r.eof
        /\ \/ t \in {"middle", "last"} /\ ~r.inFragmented /\ SameRecord(q, r)
           \/ \E y \in ReaderType :
                /\ Assembles(q, y, t, d) /\ SameRecord(y, r)
                /\ FragmentOffset(y, d) = FragmentOffset(r, d)
    <3>1. Continues(q, r, s, t, d)
      BY <1>4, <2>1, NextReaderIs
    <3> QED BY <3>1 DEF Continues
  <2>3. StartOf(q) = b + h + n
    BY <1>1, <1>2, <2>2
  <2> QED BY <2>2, <2>3
<1>6. /\ OutOK(o.out, o.initial, B, b)
      /\ o.inFragmented => /\ o.prospective >= o.initial /\ o.prospective < b
                           /\ OutOK(o.out, o.initial, B, o.prospective)
  BY <1>2 DEF ReaderOK, Returns
<1>7. OutOK(o.out, o.initial, B, b + h + n)
  BY <1>1, <1>2, <1>3, <1>6, OutLater
<1>8. ASSUME ~q.inFragmented, q.out = o.out PROVE ReaderOK(q, s, B, fr)
  BY <1>5, <1>7, <1>8 DEF ReaderOK, Returns, Held
<1>9. CASE t \in {"middle", "last"} /\ ~r.inFragmented /\ SameRecord(q, r)
  BY <1>8, <1>9 DEF SameRecord
<1>10. ASSUME NEW y \in ReaderType, Assembles(q, y, t, d), SameRecord(y, r),
              FragmentOffset(y, d) = FragmentOffset(r, d)
       PROVE  ReaderOK(q, s, B, fr)
  <2>1. /\ y.out = o.out /\ y.inFragmented = o.inFragmented /\ y.scratch = o.scratch
        /\ y.prospective = o.prospective /\ FragmentOffset(y, d) = b
    BY <1>2, <1>10 DEF SameRecord
  <2>20. PICK R, a : PieceOf(s, B, fr, p, t, d, R, a)
    <3>1. s[p] = Crc(t, d)
      BY DEF Accepted
    <3> QED BY <3>1, PieceIs
  <2>2. R = fr[p].rec /\ a = fr[p].from
    BY <2>20 DEF PieceOf
  <2>3. /\ Piece(s, B, fr, p, t, d) /\ R \in B /\ R.start \in Nat
        /\ SubSeq(Payload(R), 1, a) \o d = SubSeq(Payload(R), 1, a + n)
        /\ a = 0 => d = SubSeq(Payload(R), 1, a + n)
        /\ t \in {"full", "last"} => SubSeq(Payload(R), 1, a + n) = Payload(R)
    BY <1>1, <2>20 DEF PieceOf
  <2>4. p + h + n - 1 = StartOf(q) /\ StartOf(q) \in Nat /\ b < StartOf(q) /\ p = b + 1
    BY <1>1, <1>2, <1>5
  <2>5. ASSUME NEW x \in Output, q.out = Append(o.out, x), ~q.inFragmented,
               OutOK(o.out, o.initial, B, x.offset), x.offset >= o.initial,
               x.offset <= b, Original(x, B)
        PROVE  ReaderOK(q, s, B, fr)
    <3>1. x.offset \in Nat /\ x.offset < StartOf(q)
      BY <1>2, <2>4, <2>5 DEF Output
    <3>2. OutOK(q.out, q.initial, B, StartOf(q))
      BY <1>3, <1>5, <2>4, <2>5, <3>1, OutGrows
    <3> QED BY <1>5, <2>5, <3>2 DEF ReaderOK, Returns, Held
  <2>6. CASE t = "full"
    <3>1. a = 0 /\ R.start = b
      <4>1. a = 0 /\ p = R.start + 1
        BY <2>2, <2>3, <2>6 DEF Piece
      <4>2. R.start \in Nat /\ p = b + 1
        BY <2>3, <2>4
      <4> QED BY <1>2, <4>1, <4>2
    <3>2. d = Payload(R)
      BY <2>3, <2>6, <3>1
    <3>3. PICK x : x = [offset |-> b, data |-> d]
      OBVIOUS
    <3>4. x \in Output /\ x.offset = b /\ x.data = d
      BY <1>2, <1>4, <3>3 DEF Output
    <3>5. q.out = Append(o.out, x) /\ ~q.inFragmented
      BY <1>10, <2>1, <2>6, <3>3 DEF Assembles
    <3>6. Original(x, B)
      BY <2>3, <3>1, <3>2, <3>4 DEF Original
    <3> QED BY <1>2, <1>6, <2>5, <3>4, <3>5, <3>6
  <2>7. ASSUME t \in {"first", "middle"}, q.inFragmented, q.out = o.out,
               q.scratch = SubSeq(Payload(R), 1, a + n), q.prospective = R.start,
               R.start >= o.initial, R.start <= b, OutOK(o.out, o.initial, B, R.start)
        PROVE  ReaderOK(q, s, B, fr)
    <3>1. Keeps(q, s, fr, p, t, d)
      <4>1. /\ p + h + n - 1 <= StartOf(q) /\ StartOf(q) < p + h + n - 1 + h
            /\ StartOf(q) = p + h + n - 1
        BY <1>1, <2>4
      <4> QED BY <1>1, <2>2, <2>7, <4>1 DEF Keeps
    <3>2. Held(q, s, fr)
      BY <3>1 DEF Held
    <3>3. R.start < StartOf(q)
      <4>1. R.start \in Nat /\ R.start <= b /\ b < StartOf(q) /\ StartOf(q) \in Nat
        BY <2>3, <2>4, <2>7
      <4> QED BY <1>2, <4>1
    <3>4. Returns(q, B)
      BY <1>5, <1>7, <2>4, <2>7, <3>3 DEF Returns
    <3> QED BY <1>5, <3>2, <3>4 DEF ReaderOK
  <2>8. CASE t = "first"
    <3>1. a = 0 /\ R.start = b
      <4>1. a = 0 /\ p = R.start + 1
        BY <2>2, <2>3, <2>8 DEF Piece
      <4>2. R.start \in Nat /\ p = b + 1
        BY <2>3, <2>4
      <4> QED BY <1>2, <4>1, <4>2
    <3>2. /\ q.inFragmented /\ q.scratch = d /\ q.out = o.out /\ q.prospective = R.start
      BY <1>10, <2>1, <2>8, <3>1 DEF Assembles
    <3> QED BY <1>2, <1>6, <2>3, <2>7, <2>8, <3>1, <3>2
  <2>9. CASE t \in {"middle", "last"} /\ ~o.inFragmented
    <3>1. ~q.inFragmented /\ q.out = o.out
      BY <1>10, <2>1, <2>9 DEF Assembles
    <3> QED BY <1>8, <3>1
  <2>10. CASE t \in {"middle", "last"} /\ o.inFragmented
    <3>1. PICK g, u, e : Keeps(o, s, fr, g, u, e)
      BY <2>10 DEF ReaderOK, Held
    <3>2. PICK k, w, c : Leads(s, fr, k, w, c, p)
      BY <2>3, <2>10 DEF Piece
    <3>3. /\ u \in Kinds /\ e \in Seq(DataCell) /\ Accepted(s, g, u, e)
          /\ w \in Kinds /\ c \in Seq(DataCell) /\ Whole(s, k, w, c)
      BY <3>1, <3>2 DEF Keeps, Leads, Kinds
    <3>4. k + HeaderSize + Len(c) <= p /\ p < k + HeaderSize + Len(c) + HeaderSize
      BY <3>2 DEF Leads
    <3>5. g + HeaderSize + Len(e) <= p /\ p < g + HeaderSize + Len(e) + HeaderSize
      <4>1. g + h + Len(e) - 1 <= b /\ b < g + h + Len(e) - 1 + h
        BY <1>1, <1>2, <3>1 DEF Keeps
      <4>2. g \in Nat /\ Len(e) \in Nat
        BY <3>3, LenProperties DEF Accepted
      <4> QED BY <1>1, <2>4, <4>1, <4>2
    <3>6. g = k /\ e = c
      BY <3>3, <3>4, <3>5, OneBefore
    <3>7. fr[g].rec = R /\ fr[g].from + Len(e) = a
      BY <2>2, <3>2, <3>6 DEF Leads
    <3>8. o.scratch = SubSeq(Payload(R), 1, a) /\ o.prospective = R.start
      BY <3>1, <3>7 DEF Keeps
    <3>9. y.scratch \o d = SubSeq(Payload(R), 1, a + n)
      BY <2>1, <2>3, <3>8
    <3>10. /\ R.start >= o.initial /\ R.start <= b
           /\ OutOK(o.out, o.initial, B, R.start)
      BY <1>2, <1>6, <2>3, <2>10, <3>8
    <3>11. CASE t = "middle"
      <4>1. /\ q.inFragmented /\ q.scratch = SubSeq(Payload(R), 1, a + n)
            /\ q.out = o.out /\ q.prospective = R.start
        BY <1>10, <2>1, <2>10, <3>8, <3>9, <3>11 DEF Assembles
      <4> QED BY <2>7, <3>10, <3>11, <4>1
    <3>12. CASE t = "last"
      <4>1. PICK x : x = [offset |-> R.start, data |-> Payload(R)]
        OBVIOUS
      <4>2. y.scratch \o d = Payload(R)
        BY <2>3, <3>9, <3>12
      <4>3. Payload(R) \in Seq(AnyCell)
        <5>1. y.scratch \in Seq(AnyCell)
          BY DEF ReaderType
        <5> QED BY <1>4, <4>2, <5>1, ConcatProperties
      <4>4. x \in Output /\ x.offset = R.start /\ x.data = Payload(R)
        BY <2>3, <4>1, <4>3 DEF Output
      <4>5. ~q.inFragmented /\ q.out = Append(o.out, x)
        BY <1>10, <2>1, <2>10, <3>8, <3>12, <4>1, <4>2 DEF Assembles
      <4>6. Original(x, B)
        BY <2>3, <4>4 DEF Original
      <4> QED BY <2>5, <3>10, <4>4, <4>5, <4>6
    <3> QED BY <2>10, <3>11, <3>12
  <2>11. t \in {"full", "first", "middle", "last"}
    BY DEF Kinds
  <2> QED BY <2>6, <2>8, <2>9, <2>10, <2>11
<1> QED BY <1>5, <1>9, <1>10

-----------------------------------------------------------------------------
(* The steps of the Reader.                                                *)

(* What is returned stays what it is when the Reader has come to the end.  *)
Ended(r, B) ==
  /\ r \in ReaderType
  /\ r.checksum => \E k \in Int : OutOK(r.out, r.initial, B, k)

LogInv ==
  /\ WriterTypes
  /\ phase \in {"write", "down"} => reader = NoReader
  /\ phase = "end" => Ended(reader, begun)
  /\ \E fr : /\ FileOK(file, begun, fr) /\ AddingOK(fr)
             /\ phase = "read" => ReaderOK(reader, file, begun, fr)

(* ReadRecord returns false.                                               *)
LEMMA EofOK ==
  ASSUME NEW B, NEW r \in ReaderType, Returns(r, B),
         NEW q, q = [r EXCEPT !.scratch = <<>>, !.resyncing = FALSE]
  PROVE  Ended(q, B)
<1>1. PICK e : e = <<>> /\ e \in Seq(AnyCell)
  <2>1. <<>> \in Seq(AnyCell)
    OBVIOUS
  <2> QED BY <2>1
<1>2. q = [r EXCEPT !.scratch = e, !.resyncing = FALSE]
  BY <1>1
<1>3. q \in ReaderType
  BY <1>1, <1>2 DEF ReaderType
<1>4. q.checksum = r.checksum /\ q.out = r.out /\ q.initial = r.initial
  BY <1>2 DEF ReaderType
<1>5. StartOf(r) \in Int
  BY DEF ReaderType, StartOf
<1> QED BY <1>3, <1>4, <1>5 DEF Ended, Returns

(* The rest of the block is dropped, with a report or without.             *)
LEMMA DroppedOK ==
  ASSUME NEW s, NEW B, NEW o, ReaderTypes(o, s), Returns(o, B),
         NEW r, r = [o EXCEPT !.buffer = 0]
  PROVE  /\ r \in ReaderType /\ ReaderTypes(r, s) /\ Returns(r, B)
         /\ \A x : /\ Report(r, x) \in ReaderType
                   /\ ReaderTypes(Report(r, x), s) /\ Returns(Report(r, x), B)
<1>1. o \in ReaderType
  BY DEF ReaderTypes
<1>2. r \in ReaderType
  <2>1. 0 \in 0 .. BlockSize
    BY LogAssumption
  <2> QED BY <1>1, <2>1 DEF ReaderType
<1>3. /\ r.checksum = o.checksum /\ r.initial = o.initial /\ r.buffer = 0
      /\ r.endOffset = o.endOffset /\ r.resyncing = o.resyncing /\ SameRecord(r, o)
  BY <1>1 DEF ReaderType, SameRecord
<1>4. StartOf(o) <= StartOf(r)
  <2>1. o.endOffset \in Nat /\ o.buffer \in Nat
    BY <1>1, LogAssumption DEF ReaderType
  <2> QED BY <1>3, <2>1 DEF StartOf
<1>5. ReaderTypes(r, s)
  <2>1. r.endOffset \in Nat /\ r.inFragmented = o.inFragmented
    BY <1>1, <1>3 DEF ReaderType, SameRecord
  <2>2. r.buffer <= r.endOffset /\ ~(r.buffer > 0)
    BY <1>3, <2>1
  <2> QED BY <1>2, <1>3, <2>1, <2>2 DEF ReaderTypes
<1>6. Returns(r, B)
  BY <1>1, <1>2, <1>3, <1>4, MovesOn
<1>7. ASSUME NEW x
      PROVE  /\ Report(r, x) \in ReaderType
             /\ ReaderTypes(Report(r, x), s) /\ Returns(Report(r, x), B)
  <2>1. PICK q : q = Report(r, x)
    OBVIOUS
  <2>2. q \in ReaderType /\ Placed(q, r) /\ SameRecord(q, r)
    BY <1>2, <2>1, ReportIs
  <2>3. ReaderTypes(q, s)
    BY <1>5, <2>2 DEF ReaderTypes, Placed, SameRecord
  <2>4. StartOf(q) = StartOf(r) /\ StartOf(r) \in Int
    BY <1>2, <2>2 DEF Placed, StartOf, ReaderType
  <2>5. Returns(q, B)
    <3>1. StartOf(r) <= StartOf(q)
      BY <2>4
    <3> QED BY <1>2, <1>6, <2>2, <3>1, MovesOn DEF Placed
  <2> QED BY <2>1, <2>2, <2>3, <2>5
<1> QED BY <1>2, <1>5, <1>6, <1>7

(* The next block is read.                                                 *)
LEMMA RefillOK ==
  ASSUME NEW s \in Seq(AnyCell), NEW B, NEW fr, NEW o, ReaderOK(o, s, B, fr),
         o.buffer < HeaderSize, ~o.eof, NEW n \in 0 .. BlockSize,
         n > 0 => o.endOffset + n <= Len(s),
         NEW q, q = [o EXCEPT !.buffer = n, !.endOffset = @ + n, !.eof = AtEnd(n)]
  PROVE  ReaderOK(q, s, B, fr)
<1>1. PICK b, m : b = (n < BlockSize) /\ b \in BOOLEAN /\ m = o.endOffset + n
  <2>1. (n < BlockSize) \in BOOLEAN
    OBVIOUS
  <2> QED BY <2>1
<1>2. /\ o \in ReaderType /\ ReaderTypes(o, s) /\ Returns(o, B) /\ Held(o, s, fr)
      /\ o.endOffset \in Nat /\ o.buffer \in Nat /\ o.buffer <= o.endOffset
      /\ HeaderSize \in Nat /\ BlockSize \in Nat /\ BlockSize > HeaderSize
  BY LogAssumption DEF ReaderOK, ReaderTypes, ReaderType
<1>3. m \in Nat /\ n \in Nat /\ n <= BlockSize
  BY <1>1, <1>2
<1>4. q = [o EXCEPT !.buffer = n, !.endOffset = m, !.eof = b]
  BY <1>1, <1>2 DEF ReaderType, AtEnd
<1>5. q \in ReaderType
  <2>1. b \in BOOLEAN /\ n \in 0 .. BlockSize
    BY <1>1
  <2> QED BY <1>2, <1>3, <1>4, <2>1 DEF ReaderType
<1>6. /\ q.checksum = o.checksum /\ q.initial = o.initial /\ q.buffer = n
      /\ q.endOffset = m /\ q.resyncing = o.resyncing /\ q.eof = b /\ SameRecord(q, o)
  BY <1>2, <1>4 DEF ReaderType, SameRecord
<1>7. StartOf(q) = o.endOffset /\ StartOf(o) = o.endOffset - o.buffer
  BY <1>1, <1>2, <1>3, <1>6 DEF StartOf
<1>8. ReaderTypes(q, s)
  <2>1. q.buffer <= q.endOffset /\ (q.buffer > 0 => q.endOffset <= Len(s))
    BY <1>1, <1>2, <1>3, <1>6
  <2>2. q.resyncing => ~q.inFragmented
    BY <1>2, <1>6 DEF ReaderTypes, SameRecord
  <2> QED BY <1>5, <2>1, <2>2 DEF ReaderTypes
<1>9. Returns(q, B)
  <2>1. StartOf(o) <= StartOf(q)
    BY <1>2, <1>7
  <2> QED BY <1>2, <1>5, <1>6, <2>1, MovesOn
<1>10. ASSUME q.checksum, q.inFragmented PROVE \E g, t, d : Keeps(q, s, fr, g, t, d)
  <2>1. o.checksum /\ o.inFragmented
    BY <1>6, <1>10 DEF SameRecord
  <2>2. PICK g, t, d : Keeps(o, s, fr, g, t, d)
    BY <1>2, <2>1 DEF Held
  <2>3. PICK e : e = g + HeaderSize + Len(d) - 1
    OBVIOUS
  <2>4. StartOf(o) = e
    <3>1. ~(o.buffer >= HeaderSize)
      BY <1>2
    <3> QED BY <2>2, <2>3, <3>1 DEF Keeps
  <2>5. e \in Int /\ StartOf(q) = e + o.buffer
    BY <1>2, <1>7, <2>4
  <2>6. e <= StartOf(q) /\ StartOf(q) < e + HeaderSize
    BY <1>2, <2>5
  <2>7. q.eof \/ q.buffer >= HeaderSize
    <3>1. CASE n < BlockSize
      BY <1>1, <1>6, <3>1
    <3>2. CASE ~(n < BlockSize)
      BY <1>2, <1>3, <1>6, <3>2
    <3> QED BY <3>1, <3>2
  <2>8. Keeps(q, s, fr, g, t, d)
    BY <1>6, <2>2, <2>3, <2>6, <2>7 DEF Keeps, SameRecord
  <2> QED BY <2>8
<1>11. Held(q, s, fr)
  BY <1>10 DEF Held
<1> QED BY <1>8, <1>9, <1>11 DEF ReaderOK

(* A checksum in a file is one of a fragment, and a length is a number.    *)
LEMMA CellTells ==
  ASSUME NEW c \in AnyCell
  PROVE  /\ \A t, d : c = Crc(t, d) => t \in Kinds /\ d \in Seq(DataCell)
         /\ c[1] = "length" => c[2] \in Nat
<1>1. ASSUME NEW t, NEW d, c = Crc(t, d) PROVE t \in Kinds /\ d \in Seq(DataCell)
  <2>1. c[1] = "crc"
    BY <1>1 DEF Crc
  <2>2. c \in CrcCell
    BY <2>1 DEF AnyCell, DataCell, Data, Length, Type, Zero
  <2>3. PICK u \in Kinds, e \in Seq(DataCell) : c = Crc(u, e)
    BY <2>2 DEF CrcCell
  <2>4. Crc(t, d) = Crc(u, e)
    BY <1>1, <2>3
  <2>5. t = u /\ d = e
    BY <2>4, CrcTells
  <2> QED BY <2>3, <2>5
<1>2. ASSUME c[1] = "length" PROVE c[2] \in Nat
  <2>1. c \notin DataCell
    BY <1>2 DEF DataCell, Data
  <2>2. c \notin CrcCell
    BY <1>2 DEF CrcCell, Crc
  <2>3. c \notin {Type(t) : t \in Kinds} /\ c # Zero
    BY <1>2 DEF Type, Zero
  <2>4. PICK n \in Nat : c = Length(n)
    BY <2>1, <2>2, <2>3 DEF AnyCell
  <2> QED BY <2>4 DEF Length
<1> QED BY <1>1, <1>2

(* ReadPhysicalRecord, with a header in the buffer.                        *)
LEMMA PhysicalOK ==
  ASSUME LogInv, Reading, NEW t, NEW n \in Lengths, ReadPhysicalRecord(t, n)
  PROVE  LogInv'
<1>1. PICK fr : /\ FileOK(file, begun, fr) /\ AddingOK(fr)
                /\ ReaderOK(reader, file, begun, fr)
  BY DEF LogInv, Reading
<1>2. PICK s, B, o, b : s = file /\ B = begun /\ o = reader /\ b = Start
  OBVIOUS
<1>3. /\ s \in Seq(AnyCell) /\ B \subseteq Record /\ WriterTypes
      /\ FileOK(s, B, fr) /\ ReaderOK(o, s, B, fr) /\ ReaderTypes(o, s)
      /\ Returns(o, B) /\ o \in ReaderType
  BY <1>1, <1>2 DEF LogInv, WriterTypes, ReaderOK, ReaderTypes
<1>4. PICK h \in Nat : h = HeaderSize /\ h >= 3 /\ o.buffer >= h
  BY <1>2, LogAssumption DEF ReadPhysicalRecord
<1>5. /\ o.endOffset \in Nat /\ o.buffer \in Nat /\ o.buffer <= o.endOffset
      /\ o.endOffset <= Len(s) /\ Len(s) \in Nat /\ o.buffer <= BlockSize
  BY <1>3, <1>4, LenProperties, LogAssumption DEF ReaderTypes, ReaderType
<1>6. b \in Nat /\ b = o.endOffset - o.buffer /\ StartOf(o) = b /\ b + o.buffer <= Len(s)
  BY <1>2, <1>5 DEF Start, StartOf
<1>7. \A i \in 1 .. h : b + i \in 1 .. Len(s) /\ s[b + i] \in AnyCell
  <2>1. \A i \in 1 .. h : b + i \in 1 .. Len(s)
    BY <1>4, <1>5, <1>6
  <2> QED BY <1>3, <2>1, ElementOfSeq
<1>8. n \in Nat
  <2>1. LengthCell \in AnyCell
    <3>1. h - 1 \in 1 .. h
      BY <1>4
    <3>2. LengthCell = s[b + (h - 1)]
      BY <1>2, <1>4 DEF LengthCell, Cell
    <3> QED BY <1>7, <3>1, <3>2
  <2>2. LengthCell[1] = "length" => LengthCell[2] \in Nat
    BY <2>1, CellTells
  <2>3. \/ n \in {LengthCell[2]} /\ LengthCell[1] = "length"
        \/ n \in {0}
        \/ n \in 0 .. BlockSize
    BY DEF Lengths
  <2>4. 0 .. BlockSize \subseteq Nat
    BY LogAssumption
  <2> QED BY <2>2, <2>3, <2>4
<1>9. /\ Dropped = [o EXCEPT !.buffer = 0]
      /\ Dropped \in ReaderType /\ ReaderTypes(Dropped, s) /\ Returns(Dropped, B)
      /\ \A x : /\ Report(Dropped, x) \in ReaderType
                /\ ReaderTypes(Report(Dropped, x), s) /\ Returns(Report(Dropped, x), B)
  <2>1. Dropped = [o EXCEPT !.buffer = 0]
    BY <1>2 DEF Dropped
  <2> QED BY <1>3, <2>1, DroppedOK
<1>10. <<>> \in Seq(AnyCell) /\ "bad" \notin Kinds
  BY DEF Kinds
<1>11. ASSUME UNCHANGED <<phase, writerVars, crashes>>,
              ReaderOK(reader', s, B, fr)
       PROVE  LogInv'
  <2>1. /\ scenario' = scenario /\ phase' = phase /\ file' = file
        /\ blockOffset' = blockOffset /\ begun' = begun /\ added' = added
        /\ adding' = adding
    BY <1>11 DEF writerVars
  <2>2. WriterTypes'
    BY <1>3, <2>1 DEF WriterTypes
  <2>3. AddingOK(fr)'
    BY <1>1, <2>1 DEF AddingOK, AddedTo
  <2>4. FileOK(file', begun', fr) /\ ReaderOK(reader', file', begun', fr)
    BY <1>1, <1>2, <1>11, <2>1
  <2>5. phase' = "read"
    BY <2>1 DEF Reading
  <2> QED BY <2>2, <2>3, <2>4, <2>5 DEF LogInv
<1>12. ASSUME NEW r, ReaderTypes(r, s), Returns(r, B), ReadRecord(r, "bad", <<>>)
       PROVE  LogInv'
  <2>1. reader' = NextReader(r, "bad", <<>>)
    BY <1>12 DEF ReadRecord, NextReader
  <2>2. ReaderOK(reader', s, B, fr)
    BY <1>10, <1>12, <2>1, BadRecordOK
  <2> QED BY <1>11, <1>12, <2>2 DEF ReadRecord
<1>13. ASSUME NEW r \in ReaderType, Returns(r, B), Eof(r) PROVE LogInv'
  <2>1. /\ scenario' = scenario /\ phase' = "end" /\ file' = file
        /\ blockOffset' = blockOffset /\ begun' = begun /\ added' = added
        /\ adding' = adding
    BY <1>13 DEF Eof, writerVars
  <2>2. WriterTypes'
    BY <1>3, <2>1 DEF WriterTypes
  <2>3. AddingOK(fr)'
    BY <1>1, <2>1 DEF AddingOK, AddedTo
  <2>4. Ended(reader', B)
    BY <1>13, EofOK DEF Eof
  <2> QED BY <1>1, <1>2, <2>1, <2>2, <2>3, <2>4 DEF LogInv
<1>14. CASE HeaderSize + n > reader.buffer /\ BadLength
  <2>1. CASE ReadRecord(Report(Dropped, reader.buffer), "bad", <<>>)
    BY <1>9, <1>12, <2>1
  <2>2. CASE Eof(Dropped)
    BY <1>9, <1>13, <2>2
  <2> QED BY <1>14, <2>1, <2>2 DEF BadLength
<1>15. CASE ZeroRecord
  BY <1>9, <1>12, <1>15 DEF ZeroRecord
<1>16. CASE ReadRecord(Report(Dropped, reader.buffer), "bad", <<>>)
  BY <1>9, <1>12, <1>16
<1>17. PICK d : d = DataOf(n)
  OBVIOUS
<1>18. PICK r : r = [o EXCEPT !.buffer = @ - (HeaderSize + n)]
  OBVIOUS
<1>19. CASE /\ HeaderSize + n <= reader.buffer
            /\ ~reader.checksum \/ CrcMatches(t, n)
            /\ IF FragmentOffset(r, d) < reader.initial
               THEN ReadRecord(r, "bad", <<>>)
               ELSE ReadRecord(r, t, d)
  <2>1. h + n <= o.buffer
    BY <1>2, <1>4, <1>19
  <2>2. /\ d \in Seq(AnyCell) /\ Len(d) = n
        /\ \A i \in 1 .. n : d[i] = s[b + h + i]
    <3>1. b + h \in Nat /\ b + h + n <= Len(s)
      <4>1. PICK k \in Nat, l \in Nat : k = o.buffer /\ l = Len(s)
        BY <1>5
      <4>2. b \in Nat /\ h + n <= k /\ b + k <= l
        BY <1>6, <2>1, <4>1
      <4> QED BY <1>8, <4>1, <4>2
    <3>2. PICK k \in Nat : k = b + h
      BY <3>1
    <3>3. d = SubSeq(s, k + 1, k + n) /\ k + n <= Len(s)
      BY <1>2, <1>4, <1>17, <3>1, <3>2 DEF DataOf
    <3>4. /\ d \in Seq(AnyCell) /\ Len(d) = n
          /\ \A i \in 1 .. n : d[i] = s[k + i]
      BY <1>3, <1>8, <3>3, PartIs
    <3> QED BY <3>2, <3>4
  <2>3. PICK m \in 0 .. BlockSize : m = o.buffer - (h + n)
    <3>1. PICK c \in Nat : c = o.buffer /\ c <= BlockSize /\ h + n <= c
      BY <1>5, <2>1
    <3>2. c - (h + n) \in 0 .. BlockSize
      BY <1>8, <3>1, LogAssumption
    <3> QED BY <3>1, <3>2
  <2>4. r = [o EXCEPT !.buffer = m]
    BY <1>3, <1>4, <1>18, <2>3 DEF ReaderType
  <2>5. r \in ReaderType
    BY <1>3, <2>4 DEF ReaderType
  <2>6. /\ r.checksum = o.checksum /\ r.initial = o.initial /\ r.buffer = m
        /\ r.endOffset = o.endOffset /\ r.resyncing = o.resyncing /\ r.eof = o.eof
        /\ SameRecord(r, o)
    BY <1>3, <2>4 DEF ReaderType, SameRecord
  <2>7. m \in Nat /\ m <= o.buffer
    BY <1>4, <1>5, <1>8, <2>1, <2>3
  <2>8. StartOf(r) = b + h + n /\ FragmentOffset(r, d) = b
    <3>1. r.endOffset - r.buffer = b + h + n
      <4>1. /\ r.endOffset = o.endOffset /\ r.buffer = o.buffer - (h + n)
            /\ b = o.endOffset - o.buffer
        BY <1>6, <2>3, <2>6
      <4>2. o.endOffset \in Nat /\ o.buffer \in Nat
        BY <1>5
      <4> QED BY <1>8, <4>1, <4>2
    <3>2. FragmentOffset(r, d) = (r.endOffset - r.buffer) - h - n
      BY <1>4, <2>2 DEF FragmentOffset
    <3> QED BY <1>4, <1>6, <1>8, <3>1, <3>2 DEF StartOf
  <2>9. ReaderTypes(r, s)
    <3>1. r.buffer <= r.endOffset /\ r.endOffset <= Len(s)
      BY <1>5, <2>6, <2>7
    <3>2. r.resyncing => ~r.inFragmented
      BY <1>3, <2>6 DEF ReaderTypes, SameRecord
    <3> QED BY <2>5, <3>1, <3>2 DEF ReaderTypes
  <2>10. Returns(r, B)
    <3>1. StartOf(o) <= StartOf(r)
      BY <1>4, <1>6, <1>8, <2>8
    <3> QED BY <1>3, <2>5, <2>6, <3>1, MovesOn
  <2>11. CASE ReadRecord(r, "bad", <<>>)
    BY <1>12, <2>9, <2>10, <2>11
  <2>12. CASE ReadRecord(r, t, d) /\ ~(b < o.initial)
    <3>1. PICK q : q = reader'
      OBVIOUS
    <3>2. q = NextReader(r, t, d)
      BY <2>12, <3>1 DEF ReadRecord, NextReader
    <3>3. CASE ~o.checksum
      <4>1. Continues(q, r, s, t, d)
        BY <1>6, <2>2, <2>8, <2>9, <3>2, NextReaderIs
      <4>2. ReaderTypes(q, s) /\ ~q.checksum
        BY <2>6, <3>3, <4>1 DEF Continues
      <4>3. ReaderOK(q, s, B, fr)
        BY <4>2 DEF ReaderOK, Returns, Held
      <4> QED BY <1>11, <2>12, <3>1, <4>3 DEF ReadRecord
    <3>4. CASE o.checksum
      <4>1. CrcMatches(t, n)
        BY <1>2, <1>19, <3>4
      <4>2. s[b + 1] = Crc(t, d) /\ s[b + h] = Type(t)
        BY <1>2, <1>4, <1>17, <4>1 DEF CrcMatches, Cell, TypeCell
      <4>3. s[b + 1] \in AnyCell /\ b + 1 \in 1 .. Len(s)
        BY <1>4, <1>7
      <4>4. t \in Kinds /\ d \in Seq(DataCell)
        BY <4>2, <4>3, CellTells
      <4>5. PICK p \in 1 .. Len(s) : p = b + 1
        BY <4>3
      <4>6. Accepted(s, p, t, d)
        <5>1. /\ p \in Nat \ {0} /\ p + h - 1 = b + h /\ p + h + n - 1 <= Len(s)
              /\ \A i \in 1 .. n : p + h - 1 + i = b + h + i
          <6>1. b \in Nat /\ b + h + n <= Len(s) /\ Len(s) \in Nat
            BY <1>5, <1>6, <1>8, <2>1
          <6> QED BY <1>8, <4>5, <6>1
        <5>2. \A i \in 1 .. n : s[p + h - 1 + i] = d[i]
          BY <2>2, <5>1
        <5>3. s[p] = Crc(t, d) /\ s[p + h - 1] = Type(t)
          BY <4>2, <4>5, <5>1
        <5> QED BY <1>4, <2>2, <5>1, <5>2, <5>3 DEF Accepted
      <4>7. StartOf(o) >= o.initial
        <5>1. o.initial \in Nat
          BY <1>3 DEF ReaderType
        <5> QED BY <1>6, <2>12, <5>1
      <4>8. /\ p = StartOf(o) + 1 /\ o.buffer >= HeaderSize
            /\ StartOf(r) = StartOf(o) + HeaderSize + Len(d)
            /\ FragmentOffset(r, d) = StartOf(o)
        BY <1>4, <1>6, <2>2, <2>8, <4>5
      <4>9. ReaderOK(q, s, B, fr)
        BY <1>3, <2>6, <2>9, <3>2, <3>4, <4>4, <4>6, <4>7, <4>8, AcceptOK
      <4> QED BY <1>11, <2>12, <3>1, <4>9 DEF ReadRecord
    <3> QED BY <3>3, <3>4
  <2> QED BY <1>2, <1>19, <2>8, <2>11, <2>12
<1>20. \/ HeaderSize + n > reader.buffer /\ BadLength
       \/ ZeroRecord
       \/ ReadRecord(Report(Dropped, reader.buffer), "bad", <<>>)
       \/ /\ HeaderSize + n <= reader.buffer
          /\ ~reader.checksum \/ CrcMatches(t, n)
          /\ IF FragmentOffset(r, d) < reader.initial
             THEN ReadRecord(r, "bad", <<>>)
             ELSE ReadRecord(r, t, d)
  BY <1>2, <1>17, <1>18 DEF ReadPhysicalRecord
<1> QED BY <1>14, <1>15, <1>16, <1>19, <1>20

(* A step that leaves the Writer alone.                                    *)
LEMMA WriterIdle ==
  ASSUME WriterTypes, UNCHANGED writerVars, phase' \in {"write", "down", "read", "end"},
         NEW fr, FileOK(file, begun, fr), AddingOK(fr)
  PROVE  /\ WriterTypes' /\ FileOK(file', begun', fr) /\ AddingOK(fr)'
         /\ file' = file /\ begun' = begun
<1>1. /\ scenario' = scenario /\ file' = file /\ blockOffset' = blockOffset
      /\ begun' = begun /\ added' = added /\ adding' = adding
  BY DEF writerVars
<1>2. WriterTypes'
  BY <1>1 DEF WriterTypes
<1>3. AddingOK(fr)'
  BY <1>1 DEF AddingOK, AddedTo
<1> QED BY <1>1, <1>2, <1>3

(* A new Reader.                                                           *)
LEMMA NewReader ==
  ASSUME NEW checksum \in BOOLEAN, NEW initial \in Nat, NEW r,
         r = [NoReader EXCEPT !.checksum = checksum, !.initial = initial,
                              !.endOffset = InitialBlock(initial),
                              !.resyncing = initial > 0]
  PROVE  /\ r \in ReaderType /\ r.buffer = 0 /\ ~r.inFragmented /\ r.out = <<>>
         /\ NoReader \in ReaderType /\ NoReader.out = <<>>
<1>1. /\ <<>> \in Seq(AnyCell) /\ <<>> \in Seq(Output) /\ 0 \in 0 .. BlockSize
  BY LogAssumption
<1>2. NoReader \in ReaderType /\ NoReader.out = <<>>
  BY <1>1 DEF NoReader, ReaderType
<1>3. InitialBlock(initial) \in Nat
  <2>1. PICK b, m : b \in Nat /\ b = BlockSize /\ b > 0 /\ m = initial % b
    BY LogAssumption
  <2>2. m \in 0 .. b - 1
    BY <2>1
  <2>3. m <= initial
    <3>1. initial = b * (initial \div b) + (initial % b)
      BY <2>1
    <3>2. initial \div b \in Nat
      BY <2>1
    <3>3. b * (initial \div b) \in Nat
      BY <2>1, <3>2
    <3> QED BY <2>1, <2>2, <3>1, <3>3
  <2>4. \/ InitialBlock(initial) = initial - m + b
        \/ InitialBlock(initial) = initial - m + 0
    BY <2>1 DEF InitialBlock
  <2> QED BY <2>1, <2>2, <2>3, <2>4
<1>4. PICK e, y : e = InitialBlock(initial) /\ y = (initial > 0) /\ y \in BOOLEAN
  <2>1. (initial > 0) \in BOOLEAN
    OBVIOUS
  <2> QED BY <2>1
<1>5. r = [NoReader EXCEPT !.checksum = checksum, !.initial = initial,
                           !.endOffset = e, !.resyncing = y]
  BY <1>4
<1>6. e \in Nat /\ y \in BOOLEAN
  BY <1>3, <1>4
<1>7. r \in ReaderType
  BY <1>2, <1>5, <1>6 DEF ReaderType
<1>8. r.buffer = 0 /\ ~r.inFragmented /\ r.out = <<>>
  BY <1>5 DEF NoReader
<1> QED BY <1>2, <1>7, <1>8

(* The constructor and SkipToInitialBlock.                                 *)
LEMMA StartReadOK ==
  ASSUME LogInv, NEW checksum \in BOOLEAN, NEW initial \in scenario.initialOffsets,
         StartRead(checksum, initial)
  PROVE  LogInv'
<1>1. PICK fr : FileOK(file, begun, fr) /\ AddingOK(fr)
  BY DEF LogInv
<1>2. WriterTypes /\ UNCHANGED writerVars
  BY DEF LogInv, StartRead
<1>3. initial \in Nat
  <2>1. scenario \in Scenario
    BY <1>2, LogAssumption DEF WriterTypes
  <2> QED BY <2>1 DEF Scenario
<1>4. PICK r : r = [NoReader EXCEPT !.checksum = checksum, !.initial = initial,
                                    !.endOffset = InitialBlock(initial),
                                    !.resyncing = initial > 0]
  OBVIOUS
<1>5. r \in ReaderType /\ r.buffer = 0 /\ ~r.inFragmented /\ r.out = <<>>
  BY <1>3, <1>4, NewReader
<1>6. \A k, B : OutOK(<<>>, r.initial, B, k)
  BY DEF OutOK
<1>7. CASE phase' = "read" /\ reader' = r
  <2>1. ReaderTypes(r, file)
    <3>1. r.endOffset \in Nat
      BY <1>5 DEF ReaderType
    <3>2. r.buffer <= r.endOffset /\ ~(r.buffer > 0)
      BY <1>5, <3>1
    <3> QED BY <1>5, <3>2 DEF ReaderTypes
  <2>2. ReaderOK(r, file, begun, fr)
    BY <1>5, <1>6, <2>1 DEF ReaderOK, Returns, Held
  <2>3. /\ WriterTypes' /\ FileOK(file', begun', fr) /\ AddingOK(fr)'
        /\ file' = file /\ begun' = begun
    BY <1>1, <1>2, <1>7, WriterIdle
  <2>4. ReaderOK(reader', file', begun', fr)
    BY <1>7, <2>2, <2>3
  <2> QED BY <1>7, <2>3, <2>4 DEF LogInv
<1>8. CASE /\ phase' = "end"
           /\ reader' = [Report(r, r.endOffset) EXCEPT !.ioError = TRUE]
  <2>1. PICK q : q = Report(r, r.endOffset)
    OBVIOUS
  <2>2. q \in ReaderType /\ q.out = <<>> /\ q.initial = r.initial
    BY <1>5, <2>1, ReportIs DEF Placed, SameRecord
  <2>3. reader' = [q EXCEPT !.ioError = TRUE]
    BY <1>8, <2>1
  <2>4. reader' \in ReaderType /\ reader'.out = <<>> /\ reader'.initial = r.initial
    BY <2>2, <2>3 DEF ReaderType
  <2>5. Ended(reader', begun')
    <3>1. 0 \in Int /\ OutOK(<<>>, r.initial, begun', 0)
      BY <1>6
    <3> QED BY <2>4, <3>1 DEF Ended
  <2>6. WriterTypes' /\ FileOK(file', begun', fr) /\ AddingOK(fr)'
    BY <1>1, <1>2, <1>8, WriterIdle
  <2> QED BY <1>8, <2>5, <2>6 DEF LogInv
<1> QED BY <1>4, <1>7, <1>8 DEF StartRead

(* The steps that read the next block, or come to the end of the file.     *)
LEMMA RefillsOK ==
  ASSUME LogInv, Refill \/ ReadFails \/ EndOfFile
  PROVE  LogInv'
<1>1. Reading /\ UNCHANGED writerVars /\ phase = "read"
  BY DEF Refill, ReadFails, EndOfFile, Eof, Reading
<1>2. PICK fr : /\ FileOK(file, begun, fr) /\ AddingOK(fr)
                /\ ReaderOK(reader, file, begun, fr)
  BY <1>1 DEF LogInv
<1>3. /\ WriterTypes /\ file \in Seq(AnyCell) /\ Len(file) \in Nat
      /\ ReaderTypes(reader, file) /\ Returns(reader, begun) /\ reader \in ReaderType
  BY <1>2, LenProperties DEF LogInv, WriterTypes, ReaderOK, ReaderTypes
<1>4. CASE Refill
  <2>1. PICK l : l = Len(file) - reader.endOffset
    OBVIOUS
  <2>2. PICK n : n = IF l < 0 THEN 0 ELSE IF l < BlockSize THEN l ELSE BlockSize
    OBVIOUS
  <2>3. /\ reader' = [reader EXCEPT !.buffer = n, !.endOffset = @ + n, !.eof = AtEnd(n)]
        /\ reader.buffer < HeaderSize /\ ~reader.eof /\ phase' = phase
    BY <1>4, <2>1, <2>2 DEF Refill
  <2>4. reader.endOffset \in Nat /\ BlockSize \in Nat
    BY <1>3, LogAssumption DEF ReaderType
  <2>5. n \in 0 .. BlockSize /\ (n > 0 => reader.endOffset + n <= Len(file))
    <3>1. l \in Int
      BY <1>3, <2>1, <2>4
    <3>2. CASE l < 0
      BY <2>2, <2>4, <3>2
    <3>3. CASE l >= 0 /\ l < BlockSize
      BY <1>3, <2>1, <2>2, <2>4, <3>1, <3>3
    <3>4. CASE l >= 0 /\ ~(l < BlockSize)
      BY <1>3, <2>1, <2>2, <2>4, <3>1, <3>4
    <3> QED BY <3>1, <3>2, <3>3, <3>4
  <2>6. ReaderOK(reader', file, begun, fr)
    BY <1>2, <1>3, <2>3, <2>5, RefillOK
  <2>7. /\ WriterTypes' /\ FileOK(file', begun', fr) /\ AddingOK(fr)'
        /\ file' = file /\ begun' = begun /\ phase' = "read"
    BY <1>1, <1>2, <1>3, <2>3, WriterIdle
  <2>8. ReaderOK(reader', file', begun', fr)
    BY <2>6, <2>7
  <2> QED BY <2>7, <2>8 DEF LogInv
<1>5. ASSUME NEW r \in ReaderType, Returns(r, begun), Eof(r) PROVE LogInv'
  <2>1. Ended(reader', begun)
    BY <1>5, EofOK DEF Eof
  <2>2. phase' = "end"
    BY <1>5 DEF Eof
  <2>3. /\ WriterTypes' /\ FileOK(file', begun', fr) /\ AddingOK(fr)'
        /\ begun' = begun
    BY <1>1, <1>2, <1>3, <2>2, WriterIdle
  <2> QED BY <2>1, <2>2, <2>3 DEF LogInv
<1>6. PICK d : d = [reader EXCEPT !.buffer = 0]
  OBVIOUS
<1>7. /\ d \in ReaderType /\ Returns(d, begun)
      /\ \A x : Report(d, x) \in ReaderType /\ Returns(Report(d, x), begun)
  BY <1>3, <1>6, DroppedOK
<1>8. CASE EndOfFile
  BY <1>5, <1>6, <1>7, <1>8 DEF EndOfFile
<1>9. CASE ReadFails
  <2>1. PICK y : y = Report(d, BlockSize)
    OBVIOUS
  <2>2. y \in ReaderType /\ Returns(y, begun)
    BY <1>7, <2>1
  <2>3. PICK z : z = [y EXCEPT !.eof = TRUE, !.ioError = TRUE]
    OBVIOUS
  <2>4. z \in ReaderType
    BY <2>2, <2>3 DEF ReaderType
  <2>5. /\ SameRecord(z, y) /\ z.checksum = y.checksum /\ z.initial = y.initial
        /\ z.endOffset = y.endOffset /\ z.buffer = y.buffer
    BY <2>2, <2>3 DEF ReaderType, SameRecord
  <2>6. StartOf(y) <= StartOf(z)
    <3>1. StartOf(z) = StartOf(y) /\ StartOf(y) \in Int
      BY <2>2, <2>5 DEF StartOf, ReaderType
    <3> QED BY <3>1
  <2>7. Returns(z, begun)
    BY <2>2, <2>4, <2>5, <2>6, MovesOn
  <2>8. Eof(z)
    BY <1>6, <1>9, <2>1, <2>3 DEF ReadFails
  <2> QED BY <1>5, <2>4, <2>7, <2>8
<1> QED BY <1>4, <1>8, <1>9

(* The steps of the Writer find no Reader.                                 *)
LEMMA WritesOK ==
  ASSUME LogInv,
         \/ \E n \in Sizes : AddRecord(n)
         \/ Emit(TRUE, 0)
         \/ \E lost \in 0 .. 2 * BlockSize : Emit(FALSE, lost)
         \/ \E keep \in 0 .. Len(file), z \in scenario.zeros : Crash(keep, z)
         \/ Reopen
  PROVE  LogInv'
<1>1. FileInv
  BY DEF LogInv, FileInv
<1>2. FileInv'
  <2>1. CASE Emit(TRUE, 0)
    BY <1>1, <2>1, EmitInv
  <2>2. CASE \E lost \in 0 .. 2 * BlockSize : Emit(FALSE, lost)
    <3>1. PICK lost \in 0 .. 2 * BlockSize : Emit(FALSE, lost)
      BY <2>2
    <3>2. lost \in Nat
      BY LogAssumption
    <3> QED BY <1>1, <3>1, <3>2, EmitInv
  <2> QED BY <1>1, <2>1, <2>2, OthersInv
<1>3. phase \in {"write", "down"} /\ phase' \in {"write", "down"} /\ reader' = reader
  BY DEF AddRecord, Emit, Crash, Reopen
<1> QED BY <1>2, <1>3 DEF LogInv, FileInv

(* The invariant holds at first.                                           *)
LEMMA LogInit == Init => LogInv
<1> SUFFICES ASSUME Init PROVE LogInv
  OBVIOUS
<1>1. /\ scenario \in Scenarios /\ phase = "write" /\ file = <<>> /\ blockOffset = 0
      /\ adding = NoRecord /\ begun = {} /\ added = {} /\ reader = NoReader
  BY DEF Init
<1>2. file \in Seq(AnyCell) /\ Len(file) = 0 /\ blockOffset \in 0 .. BlockSize
  BY <1>1, LogAssumption
<1>3. IsFiniteSet(begun)
  BY <1>1, FS_EmptySet
<1>4. WriterTypes
  BY <1>1, <1>2, <1>3 DEF WriterTypes
<1>5. \A fr : FileOK(file, begun, fr) /\ AddingOK(fr)
  BY <1>1, <1>2 DEF FileOK, AddingOK
<1> QED BY <1>1, <1>4, <1>5 DEF LogInv

(* Every step keeps it.                                                    *)
LEMMA LogNext == LogInv /\ [Next]_vars => LogInv'
<1> SUFFICES ASSUME LogInv, [Next]_vars PROVE LogInv'
  OBVIOUS
<1>1. CASE UNCHANGED vars
  <2>1. /\ UNCHANGED writerVars /\ phase' = phase /\ reader' = reader
    BY <1>1 DEF vars
  <2>2. PICK fr : /\ FileOK(file, begun, fr) /\ AddingOK(fr)
                  /\ phase = "read" => ReaderOK(reader, file, begun, fr)
    BY DEF LogInv
  <2>3. /\ WriterTypes' /\ FileOK(file', begun', fr) /\ AddingOK(fr)'
        /\ file' = file /\ begun' = begun
    BY <2>1, <2>2, WriterIdle DEF LogInv, WriterTypes
  <2> QED BY <2>1, <2>2, <2>3 DEF LogInv
<1>2. CASE Next
  <2>1. CASE \/ \E n \in Sizes : AddRecord(n)
             \/ Emit(TRUE, 0)
             \/ \E lost \in 0 .. 2 * BlockSize : Emit(FALSE, lost)
             \/ \E keep \in 0 .. Len(file), z \in scenario.zeros : Crash(keep, z)
             \/ Reopen
    BY <2>1, WritesOK
  <2>2. CASE \E checksum \in BOOLEAN, initial \in scenario.initialOffsets :
               StartRead(checksum, initial)
    BY <2>2, StartReadOK
  <2>3. CASE Refill \/ ReadFails \/ EndOfFile
    BY <2>3, RefillsOK
  <2>4. CASE Reading /\ \E t \in Types, n \in Lengths : ReadPhysicalRecord(t, n)
    BY <2>4, PhysicalOK
  <2>5. CASE Done
    BY <1>1, <2>5 DEF Done
  <2> QED BY <1>2, <2>1, <2>2, <2>3, <2>4, <2>5 DEF Next, ReaderStep
<1> QED BY <1>1, <1>2

(* What the inductive invariant says of what the Reader returns.           *)
LEMMA LogInvIs == LogInv => TypeOK /\ NothingForged
<1> SUFFICES ASSUME LogInv PROVE TypeOK /\ NothingForged
  OBVIOUS
<1>1. WriterTypes /\ BlockSize \in Nat /\ HeaderSize \in Nat /\ BlockSize > HeaderSize
  BY LogAssumption DEF LogInv
<1>2. reader \in ReaderType /\ (reader.checksum => \E k : OutOK(reader.out, reader.initial, begun, k))
  <2>1. CASE phase \in {"write", "down"}
    <3>1. reader = NoReader
      BY <2>1 DEF LogInv
    <3>2. NoReader \in ReaderType /\ NoReader.out = <<>>
      BY NewReader
    <3>3. OutOK(<<>>, reader.initial, begun, 0)
      BY DEF OutOK
    <3> QED BY <3>1, <3>2, <3>3
  <2>2. CASE phase = "end"
    BY <2>2 DEF LogInv, Ended
  <2>3. CASE phase = "read"
    BY <2>3 DEF LogInv, ReaderOK, ReaderTypes, Returns
  <2> QED BY <1>1, <2>1, <2>2, <2>3 DEF WriterTypes
<1>3. TypeOK
  <2>1. Available >= 0
    <3>1. blockOffset \in 0 .. BlockSize
      BY <1>1 DEF WriterTypes
    <3> QED BY <1>1, <3>1 DEF Available, Offset, Leftover
  <2>2. reader.buffer \in 0 .. BlockSize /\ reader.endOffset \in Nat
    BY <1>2 DEF ReaderType
  <2> QED BY <1>1, <2>1, <2>2 DEF TypeOK, WriterTypes
<1>4. NothingForged
  <2> SUFFICES ASSUME reader.checksum, NEW i \in DOMAIN reader.out
               PROVE  /\ reader.out[i].offset >= reader.initial
                      /\ i > 1 => reader.out[i - 1].offset < reader.out[i].offset
                      /\ \E r \in begun : /\ reader.out[i].offset = r.start
                                          /\ reader.out[i].data = Payload(r)
    BY DEF NothingForged
  <2>1. PICK k : OutOK(reader.out, reader.initial, begun, k)
    BY <1>2
  <2> QED BY <2>1 DEF OutOK, Original
<1> QED BY <1>3, <1>4

(* The Writer's assertions about the space in a block hold, and the Reader *)
(* never has more than a block.                                            *)
THEOREM LogTypeCorrect == Spec => []TypeOK
<1>1. Spec => []LogInv
  BY LogInit, LogNext, PTL DEF Spec
<1> QED BY <1>1, LogInvIs, PTL

(* For every size of blocks and headers, whatever was torn, lost or        *)
(* written behind a torn record, and wherever it starts: a Reader that     *)
(* checks checksums returns records only that were given to AddRecord,     *)
(* whole, once, and in order.                                              *)
THEOREM NeverForged == Spec => []NothingForged
<1>1. Spec => []LogInv
  BY LogInit, LogNext, PTL DEF Spec
<1> QED BY <1>1, LogInvIs, PTL

-----------------------------------------------------------------------------
(* A file that one Writer wrote, but for a cut at the end.                 *)

(* x is o cells behind the start of a block.                               *)
InBlock(x, o) == o \in 0 .. BlockSize - 1 /\ \E k \in Nat : x = BlockSize * k + o

(* Where the block offset o is when it may be the end of the block.        *)
Wrapped(o) == IF o = BlockSize THEN 0 ELSE o

(* m cells on, in the block or at the start of the next one.               *)
LEMMA InBlockMoves ==
  ASSUME NEW x \in Nat, NEW o, InBlock(x, o), NEW m \in Nat, o + m <= BlockSize
  PROVE  InBlock(x + m, Wrapped(o + m))
<1>1. PICK b \in Nat : b = BlockSize /\ b > 0
  BY LogAssumption
<1>2. PICK k \in Nat : x = b * k + o
  BY <1>1 DEF InBlock
<1>3. o \in 0 .. b - 1
  BY <1>1 DEF InBlock
<1>4. PICK c \in Nat : c = b * k
  BY <1>1
<1>5. CASE o + m < b
  <2>1. Wrapped(o + m) = o + m /\ o + m \in 0 .. b - 1
    BY <1>1, <1>3, <1>5 DEF Wrapped
  <2>2. x + m = c + (o + m)
    BY <1>2, <1>3, <1>4
  <2> QED BY <1>1, <1>4, <2>1, <2>2 DEF InBlock
<1>6. CASE o + m = b
  <2>1. Wrapped(o + m) = 0 /\ 0 \in 0 .. b - 1
    BY <1>1, <1>6 DEF Wrapped
  <2>2. x + m = c + b
    BY <1>1, <1>2, <1>3, <1>4, <1>6
  <2>3. b * (k + 1) = b * k + b
    BY <1>1
  <2>4. x + m = b * (k + 1) + 0 /\ k + 1 \in Nat
    BY <1>4, <2>2, <2>3
  <2> QED BY <1>1, <2>1, <2>4 DEF InBlock
<1> QED BY <1>1, <1>3, <1>5, <1>6

(* What the Writer that goes on with a file takes for its block offset.    *)
LEMMA InBlockIs ==
  ASSUME NEW x \in Nat, NEW o, InBlock(x, o)
  PROVE  x % BlockSize = o
<1>1. PICK b \in Nat : b = BlockSize /\ b > 0
  BY LogAssumption
<1>2. PICK k \in Nat : x = b * k + o
  BY <1>1 DEF InBlock
<1>3. o \in 0 .. b - 1
  BY <1>1 DEF InBlock
<1>4. PICK m, q : m = x % b /\ q = x \div b
  OBVIOUS
<1>5. m \in 0 .. b - 1 /\ q \in Nat
  BY <1>1, <1>4
<1>6. x = b * q + m
  <2>1. x = b * (x \div b) + (x % b)
    BY <1>1
  <2> QED BY <1>4, <2>1
<1>7. ASSUME NEW i \in Nat, NEW j \in Nat, i < j PROVE b * i + b <= b * j
  <2>1. PICK e \in Nat : j = i + 1 + e
    <3>1. j - i - 1 \in Nat /\ j = i + 1 + (j - i - 1)
      BY <1>7
    <3> QED BY <3>1
  <2>2. b * j = b * i + b + b * e /\ b * e \in Nat /\ b * i \in Nat
    BY <1>1, <2>1
  <2> QED BY <1>1, <2>2
<1>8. b * k \in Nat /\ b * q \in Nat
  BY <1>1, <1>5
<1>9. ~(k < q)
  <2> SUFFICES ASSUME k < q PROVE FALSE
    OBVIOUS
  <2>1. b * k + b <= b * q
    BY <1>5, <1>7
  <2> QED BY <1>1, <1>2, <1>3, <1>5, <1>6, <1>8, <2>1
<1>10. ~(q < k)
  <2> SUFFICES ASSUME q < k PROVE FALSE
    OBVIOUS
  <2>1. b * q + b <= b * k
    BY <1>5, <1>7
  <2> QED BY <1>1, <1>2, <1>3, <1>5, <1>6, <1>8, <2>1
<1>11. k = q
  BY <1>5, <1>9, <1>10
<1> QED BY <1>1, <1>2, <1>3, <1>4, <1>5, <1>6, <1>8, <1>11

(* At x a fragment begins, as far as the file goes.                        *)
Begins(s, x, t, d) ==
  /\ t \in Kinds /\ d \in Seq(DataCell)
  /\ x + HeaderSize <= Len(s) =>
       /\ s[x + 1] = Crc(t, d) /\ s[x + HeaderSize - 1] = Length(Len(d))
       /\ s[x + HeaderSize] = Type(t)
  /\ x + HeaderSize + Len(d) <= Len(s) =>
       \A i \in 1 .. Len(d) : s[x + HeaderSize + i] = d[i]

(* Of a place between fragments: its offset in the block, and whether it   *)
(* is inside a record.  The rest of a block leads to the next block, a     *)
(* fragment to where it ends.                                              *)
Place == [off : 0 .. BlockSize - 1, open : BOOLEAN]

Segment(s, a, x, y, b, t, d) ==
  /\ Begins(s, x, t, d) /\ a.off + HeaderSize + Len(d) <= BlockSize
  /\ a.open <=> t \in {"middle", "last"}
  /\ y = x + HeaderSize + Len(d)
  /\ b.off = Wrapped(a.off + HeaderSize + Len(d))
  /\ b.open <=> t \in {"first", "middle"}
Link(s, a, x, y, b) ==
  \/ /\ a.off + HeaderSize > BlockSize /\ y = x + (BlockSize - a.off)
     /\ b.off = 0 /\ (b.open <=> a.open)
  \/ \E t, d : Segment(s, a, x, y, b, t, d)

(* Every place of bd in the file leads to the next, or out of a torn file. *)
Linked(s, bd, c, torn, x) ==
  \E y \in Nat : \E b \in Place :
    /\ Link(s, c[x], x, y, b) /\ \A z \in bd : z <= x \/ z >= y
    /\ (torn /\ y > Len(s)) \/ (y \in bd /\ c[y] = b)
Chain(s, bd, c, torn) ==
  /\ bd \subseteq 0 .. Len(s) /\ 0 \in bd /\ c[0].off = 0 /\ ~c[0].open
  /\ \A x \in bd : c[x] \in Place /\ InBlock(x, c[x].off)
  /\ \A x \in bd : x < Len(s) => Linked(s, bd, c, torn, x)

(* A fragment that begins in the cells two files share: the second of them *)
(* is cut, or the fragment is complete.                                    *)
LEMMA BeginsAgrees ==
  ASSUME NEW S, NEW s \in Seq(S), NEW v \in Seq(S), NEW k, Agree(s, v, k),
         NEW x \in Nat, NEW t, NEW d, Begins(s, x, t, d),
         Len(v) = k \/ x + HeaderSize + Len(d) <= k
  PROVE  Begins(v, x, t, d)
<1>1. PICK h \in Nat, n \in Nat : h = HeaderSize /\ h >= 3 /\ n = Len(d)
  <2>1. HeaderSize \in Nat /\ HeaderSize >= 3
    BY LogAssumption
  <2>2. Len(d) \in Nat
    BY LenProperties DEF Begins
  <2> QED BY <2>1, <2>2
<1>2. k \in Nat /\ k <= Len(s) /\ k <= Len(v) /\ \A i \in 1 .. k : s[i] = v[i]
  BY DEF Agree
<1>3. Len(v) \in Nat /\ Len(s) \in Nat
  BY LenProperties
<1>4. Len(v) = k \/ x + h + n <= k
  BY <1>1
<1>5. ASSUME x + h <= Len(v)
      PROVE  v[x + 1] = Crc(t, d) /\ v[x + h - 1] = Length(n) /\ v[x + h] = Type(t)
  <2>1. x + h <= k
    BY <1>2, <1>3, <1>4, <1>5
  <2>2. x + h <= Len(s)
    BY <1>2, <1>3, <2>1
  <2>3. s[x + 1] = Crc(t, d) /\ s[x + h - 1] = Length(n) /\ s[x + h] = Type(t)
    BY <1>1, <2>2 DEF Begins
  <2>4. x + 1 \in 1 .. k /\ x + h - 1 \in 1 .. k /\ x + h \in 1 .. k
    BY <1>1, <1>2, <2>1
  <2> QED BY <1>2, <2>3, <2>4
<1>6. ASSUME x + h + n <= Len(v) PROVE \A i \in 1 .. n : v[x + h + i] = d[i]
  <2>1. x + h + n <= k
    BY <1>2, <1>3, <1>4, <1>6
  <2>2. x + h + n <= Len(s)
    BY <1>2, <1>3, <2>1
  <2>3. \A i \in 1 .. n : s[x + h + i] = d[i]
    BY <1>1, <2>2 DEF Begins
  <2>4. \A i \in 1 .. n : x + h + i \in 1 .. k
    BY <1>2, <2>1
  <2> QED BY <1>2, <2>3, <2>4
<1> QED BY <1>1, <1>5, <1>6 DEF Begins

(* Every fragment is linked in a file that is cut.                         *)
LEMMA LinkedCut ==
  ASSUME NEW S, NEW s \in Seq(S), NEW v \in Seq(S), Agree(s, v, Len(v)),
         NEW bd, NEW c, NEW torn, NEW x \in Nat, x < Len(s), Linked(s, bd, c, torn, x)
  PROVE  Linked(v, {z \in bd : z <= Len(v)}, c, TRUE, x)
<1>1. PICK y \in Nat, b \in Place :
        /\ Link(s, c[x], x, y, b) /\ \A z \in bd : z <= x \/ z >= y
        /\ (torn /\ y > Len(s)) \/ (y \in bd /\ c[y] = b)
  BY DEF Linked
<1>2. Link(v, c[x], x, y, b)
  <2>1. \A t, d : Segment(s, c[x], x, y, b, t, d) => Segment(v, c[x], x, y, b, t, d)
    BY BeginsAgrees DEF Segment
  <2> QED BY <1>1, <2>1 DEF Link
<1>3. Len(v) \in Nat /\ Len(s) \in Nat /\ Len(v) <= Len(s)
  BY LenProperties DEF Agree
<1>4. y > Len(v) \/ (y \in {z \in bd : z <= Len(v)} /\ c[y] = b)
  BY <1>1, <1>3
<1>5. \A z \in {k \in bd : k <= Len(v)} : z <= x \/ z >= y
  BY <1>1
<1> QED BY <1>2, <1>4, <1>5 DEF Linked

(* A crash cuts the chain where it cuts the file.                          *)
LEMMA ChainCut ==
  ASSUME NEW S, NEW s \in Seq(S), NEW v \in Seq(S), Agree(s, v, Len(v)),
         NEW bd, NEW c, NEW torn, Chain(s, bd, c, torn)
  PROVE  Chain(v, {z \in bd : z <= Len(v)}, c, TRUE)
<1>1. PICK e : e = {z \in bd : z <= Len(v)}
  OBVIOUS
<1>2. Len(v) \in Nat /\ Len(s) \in Nat /\ Len(v) <= Len(s)
  BY LenProperties DEF Agree
<1>3. bd \subseteq 0 .. Len(s) /\ 0 \in bd /\ c[0].off = 0 /\ ~c[0].open
  BY DEF Chain
<1>4. e \subseteq 0 .. Len(v) /\ 0 \in e /\ e \subseteq bd
  <2>1. e \subseteq bd
    BY <1>1
  <2>2. ASSUME NEW z \in e PROVE z \in 0 .. Len(v)
    <3>1. z \in 0 .. Len(s) /\ z <= Len(v)
      BY <1>1, <1>3
    <3> QED BY <1>2, <3>1
  <2>3. 0 \in e
    BY <1>1, <1>2, <1>3
  <2> QED BY <2>1, <2>2, <2>3
<1>5. \A x \in e : c[x] \in Place /\ InBlock(x, c[x].off)
  BY <1>4 DEF Chain
<1>6. ASSUME NEW x \in e, x < Len(v) PROVE Linked(v, e, c, TRUE, x)
  <2>1. x \in bd /\ x \in Nat /\ x < Len(s)
    BY <1>2, <1>4, <1>6
  <2>2. Linked(s, bd, c, torn, x)
    BY <2>1 DEF Chain
  <2> QED BY <1>1, <2>1, <2>2, LinkedCut
<1> QED BY <1>1, <1>3, <1>4, <1>5, <1>6 DEF Chain

(* A complete file is written on with the rest of a block, or nothing, and *)
(* a fragment.                                                             *)
Joins(l, c, x, a) ==
  \/ x = l /\ a = c[l]
  \/ /\ l < x /\ a.off = 0 /\ (a.open <=> c[l].open)
     /\ c[l].off + HeaderSize > BlockSize
     /\ x = l + (BlockSize - c[l].off)
Grown(v, bd, c, x, y, b, g) ==
  /\ Chain(v, bd \cup {x, y}, g, FALSE) /\ g[y] = b
  /\ \A z \in bd : g[z] = c[z]

(* The chain grows with the file.                                          *)
LEMMA ChainGrows ==
  ASSUME NEW S, NEW s \in Seq(S), NEW v \in Seq(S), Agree(s, v, Len(s)),
         NEW bd, NEW c, Chain(s, bd, c, FALSE), Len(s) \in bd,
         NEW x \in Nat, NEW a \in Place, NEW y \in Nat, NEW b \in Place, NEW t, NEW d,
         y = Len(v), x < y, Segment(v, a, x, y, b, t, d), Joins(Len(s), c, x, a)
  PROVE  \E g : Grown(v, bd, c, x, y, b, g)
<1>1. PICK l \in Nat : l = Len(s)
  BY LenProperties
<1>2. PICK g, e : /\ g = [z \in Nat |-> IF z = y THEN b ELSE IF z = x THEN a ELSE c[z]]
                  /\ e = bd \cup {x, y}
  OBVIOUS
<1>3. /\ bd \subseteq 0 .. l /\ 0 \in bd /\ c[0].off = 0 /\ ~c[0].open /\ l \in bd
      /\ \A z \in bd : c[z] \in Place /\ InBlock(z, c[z].off)
      /\ \A z \in bd : z < l => Linked(s, bd, c, FALSE, z)
  BY <1>1 DEF Chain
<1>4. \/ x = l /\ a = c[x]
      \/ /\ l < x /\ a.off = 0 /\ (a.open <=> c[l].open)
         /\ c[l].off + HeaderSize > BlockSize
         /\ x = l + (BlockSize - c[l].off)
  BY <1>1 DEF Joins
<1>5. l <= x /\ x < y
  BY <1>4
<1>6. \A z \in bd : z \in Nat /\ z <= l /\ g[z] = c[z]
  <2> SUFFICES ASSUME NEW z \in bd PROVE z \in Nat /\ z <= l /\ g[z] = c[z]
    OBVIOUS
  <2>1. z \in Nat /\ z <= l /\ z # y
    BY <1>3, <1>5
  <2>2. z = x => a = c[z]
    BY <1>4, <2>1
  <2> QED BY <1>2, <2>1, <2>2
<1>7. g[y] = b /\ g[x] = a
  BY <1>2, <1>5
<1>8. e \subseteq 0 .. Len(v) /\ 0 \in e
  <2>1. ASSUME NEW z \in bd PROVE z \in 0 .. y
    BY <1>5, <1>6
  <2>2. x \in 0 .. y /\ y \in 0 .. y
    BY <1>5
  <2> QED BY <1>2, <1>3, <2>1, <2>2
<1>9. g[0].off = 0 /\ ~g[0].open
  BY <1>3, <1>6
<1>10. PICK h \in Nat, n \in Nat, B \in Nat : h = HeaderSize /\ n = Len(d) /\ B = BlockSize
  BY LogAssumption, LenProperties DEF Segment, Begins
<1>11. InBlock(x, a.off)
  <2>1. CASE x = l /\ a = c[x]
    BY <1>3, <2>1
  <2>2. CASE /\ l < x /\ a.off = 0
             /\ x = l + (BlockSize - c[l].off)
    <3>1. InBlock(l, c[l].off) /\ c[l].off \in 0 .. B - 1
      BY <1>3, <1>10 DEF InBlock
    <3>2. PICK m \in Nat : m = B - c[l].off
      BY <1>10, <3>1
    <3>3. c[l].off + m = B /\ c[l].off + m <= B
      BY <1>10, <3>1, <3>2
    <3>4. InBlock(l + m, Wrapped(c[l].off + m))
      BY <1>10, <3>1, <3>3, InBlockMoves
    <3>5. Wrapped(c[l].off + m) = 0
      BY <1>10, <3>3 DEF Wrapped
    <3> QED BY <1>10, <2>2, <3>2, <3>4, <3>5
  <2> QED BY <1>4, <2>1, <2>2
<1>12. InBlock(y, b.off)
  <2>1. PICK o \in 0 .. B - 1 : o = a.off
    BY <1>10 DEF Place
  <2>2. /\ o + h + n <= B /\ y = x + h + n /\ b.off = Wrapped(o + h + n)
    BY <1>10, <2>1 DEF Segment
  <2>3. PICK m \in Nat : m = h + n
    BY <1>10
  <2>4. o + m <= B /\ o + m = o + h + n /\ x + m = x + h + n
    <3>1. o \in Nat /\ o + h + n <= B
      BY <1>10, <2>1, <2>2
    <3>2. o + m = o + h + n /\ x + m = x + h + n
      BY <2>3, <3>1
    <3> QED BY <3>1, <3>2
  <2>5. InBlock(x + m, Wrapped(o + m))
    BY <1>10, <1>11, <2>1, <2>4, InBlockMoves
  <2> QED BY <2>2, <2>4, <2>5
<1>13. \A z \in e : g[z] \in Place /\ InBlock(z, g[z].off)
  BY <1>2, <1>3, <1>6, <1>7, <1>11, <1>12
<1>14. ASSUME NEW z \in bd, z < l PROVE Linked(v, e, g, FALSE, z)
  <2>1. Linked(s, bd, c, FALSE, z) /\ z \in Nat
    BY <1>3, <1>6, <1>14
  <2>2. PICK w \in Nat, f \in Place :
          /\ Link(s, c[z], z, w, f) /\ w \in bd /\ c[w] = f
          /\ \A k \in bd : k <= z \/ k >= w
    BY <2>1 DEF Linked
  <2>3. w <= l /\ w \in e /\ g[w] = f /\ g[z] = c[z]
    BY <1>2, <1>6, <1>14, <2>2
  <2>4. ASSUME NEW k, NEW j, Segment(s, c[z], z, w, f, k, j)
        PROVE  Segment(v, c[z], z, w, f, k, j)
    <3>1. Begins(s, z, k, j) /\ w = z + HeaderSize + Len(j)
      BY <2>4 DEF Segment
    <3>2. z + HeaderSize + Len(j) <= Len(s)
      BY <1>1, <2>3, <3>1
    <3>3. Begins(v, z, k, j)
      BY <2>1, <3>1, <3>2, BeginsAgrees
    <3> QED BY <2>4, <3>3 DEF Segment
  <2>5. Link(v, c[z], z, w, f)
    BY <2>2, <2>4 DEF Link
  <2>6. \A k \in e : k <= z \/ k >= w
    <3>1. x >= w /\ y >= w
      BY <1>5, <2>3
    <3> QED BY <1>2, <2>2, <3>1
  <2> QED BY <2>2, <2>3, <2>5, <2>6 DEF Linked
<1>15. Linked(v, e, g, FALSE, x)
  <2>1. Link(v, g[x], x, y, b) /\ y \in e /\ g[y] = b
    BY <1>2, <1>7 DEF Link
  <2>2. \A k \in e : k <= x \/ k >= y
    <3>1. \A k \in bd : k <= x
      BY <1>5, <1>6
    <3> QED BY <1>2, <3>1
  <2> QED BY <2>1, <2>2 DEF Linked
<1>16. Linked(v, e, g, FALSE, l)
  <2>1. CASE x = l
    BY <1>15, <2>1
  <2>2. CASE x # l
    <3>1. /\ a.off = 0 /\ (a.open <=> c[l].open)
          /\ c[l].off + HeaderSize > BlockSize
          /\ x = l + (BlockSize - c[l].off)
      BY <1>4, <2>2
    <3>2. Link(v, c[l], l, x, a)
      BY <3>1 DEF Link
    <3>3. g[l] = c[l] /\ x \in e /\ g[x] = a
      BY <1>2, <1>3, <1>6, <1>7
    <3>4. \A k \in e : k <= l \/ k >= x
      <4>1. \A k \in bd : k <= l
        BY <1>6
      <4>2. y >= x
        BY <1>5
      <4> QED BY <1>2, <4>1, <4>2
    <3> QED BY <3>2, <3>3, <3>4 DEF Linked
  <2> QED BY <2>1, <2>2
<1>17. ASSUME NEW z \in e, z < Len(v) PROVE Linked(v, e, g, FALSE, z)
  <2>1. z # y
    BY <1>17
  <2>2. CASE z = x
    BY <1>15, <2>2
  <2>3. CASE z \in bd
    <3>1. z < l \/ z = l
      BY <1>6, <2>3
    <3> QED BY <1>14, <1>16, <2>3, <3>1
  <2> QED BY <1>2, <2>1, <2>2, <2>3
<1>18. Chain(v, e, g, FALSE)
  BY <1>8, <1>9, <1>13, <1>17 DEF Chain
<1> QED BY <1>2, <1>6, <1>7, <1>18 DEF Grown

(* A torn file that ends between fragments is complete.                    *)
LEMMA ChainClosed ==
  ASSUME NEW s, Len(s) \in Nat, NEW bd, NEW c, NEW torn, Chain(s, bd, c, torn),
         Len(s) \in bd
  PROVE  Chain(s, bd, c, FALSE)
<1>1. ASSUME NEW x \in bd, x < Len(s) PROVE Linked(s, bd, c, FALSE, x)
  <2>1. PICK y \in Nat, b \in Place :
          /\ Link(s, c[x], x, y, b) /\ \A z \in bd : z <= x \/ z >= y
          /\ (torn /\ y > Len(s)) \/ (y \in bd /\ c[y] = b)
    BY <1>1 DEF Chain, Linked
  <2>2. x \in Nat
    BY DEF Chain
  <2>3. ~(y > Len(s))
    BY <1>1, <2>1, <2>2
  <2>4. y \in bd /\ c[y] = b
    BY <2>1, <2>3
  <2> QED BY <2>1, <2>4 DEF Linked
<1> QED BY <1>1 DEF Chain

(* A complete fragment.                                                    *)
LEMMA BeginsWhole ==
  ASSUME NEW s, NEW x \in Nat, NEW t \in Kinds, NEW d \in Seq(DataCell),
         Whole(s, x + 1, t, d)
  PROVE  Begins(s, x, t, d)
<1>1. PICK h \in Nat, n \in Nat : h = HeaderSize /\ n = Len(d) /\ h >= 3
  <2>1. HeaderSize \in Nat /\ HeaderSize >= 3
    BY LogAssumption
  <2>2. Len(d) \in Nat
    BY LenProperties
  <2> QED BY <2>1, <2>2
<1>2. /\ s[x + 1] = Crc(t, d) /\ s[x + 1 + h - 2] = Length(n)
      /\ s[x + 1 + h - 1] = Type(t)
      /\ \A i \in 1 .. n : s[x + 1 + h - 1 + i] = d[i]
  BY <1>1 DEF Whole
<1>3. x + 1 + h - 2 = x + h - 1 /\ x + 1 + h - 1 = x + h
  BY <1>1
<1>4. \A i \in 1 .. n : x + 1 + h - 1 + i = x + h + i
  BY <1>1
<1>5. \A i \in 1 .. n : s[x + h + i] = d[i]
  BY <1>2, <1>4
<1> QED BY <1>1, <1>2, <1>3, <1>5 DEF Begins

(* The inductive invariant: the Writer is at the end of the chain, inside  *)
(* a record if it is; records added end between records; and the Reader of *)
(* the whole file goes along the chain.                                    *)
WriterAt(bd, c) ==
  /\ Len(file) \in bd
  /\ c[Len(file)].open <=> adding # NoRecord /\ ~adding.begin
  /\ c[Len(file)].off = Wrapped(blockOffset)
AddedAt(bd, c) == \A r \in added : r.end \in bd /\ ~c[r.end].open
ReaderAt(r, s, bd, c) ==
  /\ StartOf(r) \in bd /\ (c[StartOf(r)].open <=> r.inFragmented)
  /\ ~r.resyncing /\ ~r.reported /\ r.endOffset <= Len(s)
  /\ ~r.eof => \/ r.buffer = 0 /\ c[StartOf(r)].off = 0
               \/ c[StartOf(r)].off + r.buffer = BlockSize
  /\ c[StartOf(r)].off + r.buffer <= BlockSize

Along(bd, c) ==
  /\ phase = "write" => Chain(file, bd, c, FALSE) /\ WriterAt(bd, c)
  /\ phase # "write" => Chain(file, bd, c, TRUE) /\ adding = NoRecord
  /\ AddedAt(bd, c)
  /\ phase = "read" /\ reader.initial = 0 => ReaderAt(reader, file, bd, c)
  /\ phase = "end" /\ reader.initial = 0 /\ ~reader.ioError => ~reader.reported
TailInv == plain => \E bd, c : Along(bd, c)

(* Where the fragment comes that a turn of the loop of AddRecord writes.   *)
LEMMA NextPlace ==
  ASSUME WriterTypes, NEW z, z = Len(Trailer), NEW k \in Place,
         k.off = Wrapped(blockOffset)
  PROVE  /\ Offset \in 0 .. BlockSize - 1
         /\ \/ z = 0 /\ Offset = k.off
            \/ /\ z > 0 /\ Offset = 0 /\ k.off + HeaderSize > BlockSize
               /\ z = BlockSize - k.off
<1>1. PICK h \in Nat, b \in Nat : h = HeaderSize /\ b = BlockSize /\ h >= 3 /\ b > h
  BY LogAssumption
<1>2. PICK o \in 0 .. b : o = blockOffset
  BY <1>1 DEF WriterTypes
<1>3. Leftover = b - o
  BY <1>1, <1>2 DEF Leftover
<1>4. Len(<<>>) = 0
  OBVIOUS
<1>5. CASE o = b
  <2>1. Leftover = 0 /\ Leftover < h
    BY <1>1, <1>3, <1>5
  <2>2. Trailer = Cells(0, Zero) /\ Offset = 0
    BY <1>1, <2>1 DEF Trailer, Offset
  <2>3. z = 0
    BY <2>2, CellsIs, CellKinds
  <2>4. k.off = 0
    BY <1>1, <1>2, <1>5 DEF Wrapped
  <2> QED BY <1>1, <2>2, <2>3, <2>4
<1>6. CASE o # b /\ b - o < h
  <2>1. k.off = o
    BY <1>1, <1>2, <1>6 DEF Wrapped
  <2>2. Trailer = Cells(b - o, Zero) /\ Offset = 0
    BY <1>1, <1>3, <1>6 DEF Trailer, Offset
  <2>3. b - o \in Nat /\ b - o > 0
    BY <1>1, <1>2, <1>6
  <2>4. z = b - o
    BY <2>2, <2>3, CellsIs, CellKinds
  <2>5. o + h > b
    BY <1>1, <1>2, <1>6
  <2> QED BY <1>1, <2>1, <2>2, <2>3, <2>4, <2>5
<1>7. CASE ~(b - o < h)
  <2>1. o # b /\ o \in 0 .. b - 1
    BY <1>1, <1>2, <1>7
  <2>2. k.off = o
    BY <1>1, <1>2, <2>1 DEF Wrapped
  <2>3. Trailer = <<>> /\ Offset = o
    BY <1>1, <1>2, <1>3, <1>7 DEF Trailer, Offset
  <2> QED BY <1>1, <1>4, <2>1, <2>2, <2>3
<1> QED BY <1>5, <1>6, <1>7

(* A turn of the loop of AddRecord makes the chain longer.                 *)
LEMMA EmitAlong ==
  ASSUME WriterTypes, NEW bd, NEW c, Along(bd, c), Emit(TRUE, 0)
  PROVE  \E e, g : Along(e, g)'
<1>1. /\ phase = "write" /\ phase' = "write" /\ adding # NoRecord /\ adding \in Adding
      /\ adding.begin \in BOOLEAN
  BY DEF Emit, WriterTypes, Adding
<1>2. Chain(file, bd, c, FALSE) /\ WriterAt(bd, c) /\ AddedAt(bd, c)
  BY <1>1 DEF Along
<1>3. PICK z, a, t, d : Writes(z, a, t, d)
  BY <1>1, WrittenIs
<1>4. PICK f, v, w : f = file /\ v = file' /\ w = Written
  OBVIOUS
<1>5. PICK h \in Nat, n \in Nat : /\ h = HeaderSize /\ h >= 3 /\ n = Len(d)
                                  /\ n = FragmentLength /\ n <= adding.left
  BY <1>3, LogAssumption DEF Writes
<1>6. /\ w \in Seq(AnyCell) /\ f \in Seq(AnyCell) /\ z \in Nat
      /\ Len(w) = z + h + n /\ t \in Kinds /\ d \in Seq(DataCell)
      /\ t = FragmentType(adding.begin, n = adding.left)
      /\ Whole(w, z + 1, t, d)
  BY <1>3, <1>4, <1>5 DEF Writes, WriterTypes
<1>7. v = f \o w
  <2>1. Len(w) - 0 = Len(w) /\ SubSeq(w, 1, Len(w)) = w
    BY <1>6, LenProperties, SubSeqFull
  <2>2. v = f \o SubSeq(w, 1, Len(w) - 0)
    BY <1>4 DEF Emit
  <2> QED BY <2>1, <2>2
<1>8. PICK l \in Nat : l = Len(f)
  BY <1>6, LenProperties
<1>9. /\ v \in Seq(AnyCell) /\ Len(v) = l + (z + h + n)
      /\ \A i \in 1 .. l : v[i] = f[i]
  <2>1. /\ f \o w \in Seq(AnyCell) /\ Len(f \o w) = Len(f) + Len(w)
        /\ \A i \in 1 .. Len(f) : (f \o w)[i] = f[i]
    <3>1. f \in Seq(AnyCell) /\ w \in Seq(AnyCell)
      BY <1>6
    <3> QED BY <3>1, BehindIs
  <2> QED BY <1>6, <1>7, <1>8, <2>1
<1>10. Agree(f, v, l)
  <2>1. l <= Len(f) /\ l <= Len(v)
    BY <1>5, <1>6, <1>8, <1>9
  <2> QED BY <1>9, <2>1 DEF Agree
<1>11. PICK x \in Nat, y \in Nat : x = l + z /\ y = Len(v) /\ y = x + h + n
  BY <1>5, <1>6, <1>8, <1>9
<1>12. Begins(v, x, t, d)
  <2>1. Whole(f \o w, Len(f) + (z + 1), t, d)
    BY <1>6, WholeBehind
  <2>2. Len(f) + (z + 1) = x + 1
    BY <1>6, <1>8, <1>11
  <2>3. Whole(v, x + 1, t, d)
    BY <1>7, <2>1, <2>2
  <2> QED BY <1>6, <2>3, BeginsWhole
<1>13. PICK k \in Place : k = c[l]
  BY <1>2, <1>4, <1>8 DEF Chain, WriterAt
<1>14. (k.open <=> ~adding.begin) /\ k.off = Wrapped(blockOffset) /\ l \in bd
  BY <1>1, <1>2, <1>4, <1>8, <1>13 DEF WriterAt
<1>15. /\ Offset \in 0 .. BlockSize - 1
       /\ \/ z = 0 /\ Offset = k.off
          \/ /\ z > 0 /\ Offset = 0 /\ k.off + h > BlockSize
             /\ z = BlockSize - k.off
  <2>1. z = Len(Trailer)
    BY <1>3 DEF Writes
  <2> QED BY <1>5, <1>14, <2>1, NextPlace
<1>16. PICK m : m = Offset + h + n /\ m \in 0 .. BlockSize
  BY <1>3, <1>5 DEF Writes
<1>17. PICK q, b : /\ q = [off |-> Offset, open |-> k.open]
                   /\ b = [off |-> Wrapped(m), open |-> t \in {"first", "middle"}]
  OBVIOUS
<1>18. /\ q \in Place /\ q.off = Offset /\ q.open = k.open
       /\ b \in Place /\ b.off = Wrapped(m) /\ (b.open <=> t \in {"first", "middle"})
  <2>1. Wrapped(m) \in 0 .. BlockSize - 1
    BY <1>16, LogAssumption DEF Wrapped
  <2>2. k.open \in BOOLEAN /\ (t \in {"first", "middle"}) \in BOOLEAN
    BY DEF Place
  <2>3. q \in Place /\ q.off = Offset /\ q.open = k.open
    BY <1>15, <1>17, <2>2 DEF Place
  <2>4. b \in Place /\ b.off = Wrapped(m) /\ (b.open <=> t \in {"first", "middle"})
    BY <1>17, <2>1, <2>2 DEF Place
  <2> QED BY <2>3, <2>4
<1>19. Segment(v, q, x, y, b, t, d)
  <2>1. q.open <=> t \in {"middle", "last"}
    BY <1>1, <1>6, <1>14, <1>18 DEF FragmentType
  <2>2. q.off + HeaderSize + Len(d) = m /\ m <= BlockSize
    BY <1>5, <1>16, <1>18, LogAssumption
  <2> QED BY <1>5, <1>11, <1>12, <1>18, <2>1, <2>2 DEF Segment
<1>20. Joins(l, c, x, q)
  <2>1. CASE z = 0 /\ Offset = k.off
    <3>1. x = l
      BY <1>11, <2>1
    <3>2. q = k
      BY <1>17, <2>1 DEF Place
    <3> QED BY <1>13, <3>1, <3>2 DEF Joins
  <2>2. CASE /\ z > 0 /\ Offset = 0 /\ k.off + h > BlockSize
             /\ z = BlockSize - k.off
    <3>1. l < x
      <4>1. z \in Nat /\ z > 0
        BY <1>6, <2>2
      <4> QED BY <1>11, <4>1
    <3> QED BY <1>5, <1>11, <1>13, <1>18, <2>2, <3>1 DEF Joins
  <2> QED BY <1>15, <2>1, <2>2
<1>21. PICK g : /\ Chain(v, bd \cup {x, y}, g, FALSE) /\ g[y] = b
                /\ \A i \in bd : g[i] = c[i]
  <2>1. x < y
    BY <1>5, <1>11
  <2>2. Chain(f, bd, c, FALSE) /\ Len(f) \in bd /\ Agree(f, v, Len(f)) /\ y = Len(v)
    BY <1>2, <1>4, <1>8, <1>10, <1>11, <1>14
  <2>3. f \in Seq(AnyCell) /\ v \in Seq(AnyCell) /\ q \in Place /\ b \in Place
    BY <1>6, <1>9, <1>18
  <2>4. Joins(Len(f), c, x, q)
    BY <1>8, <1>20
  <2>5. PICK g : Grown(v, bd, c, x, y, b, g)
    BY <1>19, <2>1, <2>2, <2>3, <2>4, ChainGrows
  <2> QED BY <2>5 DEF Grown
<1>22. PICK e : e = bd \cup {x, y}
  OBVIOUS
<1>23. adding.left \in Nat /\ (b.open <=> n < adding.left)
  <2>1. adding.left \in Nat
    BY <1>1 DEF Adding
  <2>2. n < adding.left <=> n # adding.left
    BY <1>5, <2>1
  <2>3. t \in {"first", "middle"} <=> n # adding.left
    BY <1>1, <1>6 DEF FragmentType
  <2> QED BY <1>18, <2>1, <2>2, <2>3
<1>24. WriterAt(e, g)'
  <2>1. Len(file') = y /\ y \in e /\ g[Len(file')] = b
    BY <1>4, <1>11, <1>21, <1>22
  <2>2. blockOffset' = m
    BY <1>5, <1>16 DEF Emit
  <2>3. n < adding.left =>
          adding' = [adding EXCEPT !.left = @ - n, !.begin = FALSE, !.start = RecordStart]
    BY <1>5 DEF Emit
  <2>4. n < adding.left => adding' # NoRecord /\ ~adding'.begin
    <3>1. CASE n < adding.left
      <4>1. PICK i, j : i = adding.left - n /\ j = RecordStart
        OBVIOUS
      <4>2. adding' = [adding EXCEPT !.left = i, !.begin = FALSE, !.start = j]
        BY <2>3, <3>1, <4>1
      <4>3. adding'.begin = FALSE /\ DOMAIN adding' = DOMAIN adding
        BY <1>1, <4>2 DEF Adding
      <4>4. "left" \in DOMAIN adding /\ "left" \notin DOMAIN NoRecord
        BY <1>1 DEF Adding, NoRecord
      <4> QED BY <4>3, <4>4
    <3> QED BY <3>1
  <2>5. ~(n < adding.left) => adding' = NoRecord
    BY <1>5 DEF Emit
  <2>6. g[Len(file')].open <=> adding' # NoRecord /\ ~adding'.begin
    BY <1>23, <2>1, <2>4, <2>5
  <2>7. g[Len(file')].off = Wrapped(blockOffset')
    BY <1>18, <2>1, <2>2
  <2> QED BY <2>1, <2>6, <2>7 DEF WriterAt, Wrapped
<1>25. AddedAt(e, g)'
  <2> SUFFICES ASSUME NEW r \in added' PROVE r.end \in e /\ ~g[r.end].open
    BY DEF AddedAt
  <2>1. CASE r \in added
    BY <1>2, <1>21, <1>22, <2>1 DEF AddedAt
  <2>2. CASE r \notin added
    <3>1. PICK i : i = Len(file) + (Len(Written) - 0)
      OBVIOUS
    <3>2. /\ n = adding.left
          /\ r = [id |-> adding.id, size |-> adding.size, start |-> RecordStart,
                  end |-> i]
      BY <1>5, <2>2, <3>1 DEF Emit
    <3>3. r.end = y
      <4>1. r.end = l + (z + h + n - 0)
        BY <1>4, <1>6, <1>8, <3>1, <3>2
      <4>2. z \in Nat
        BY <1>6
      <4> QED BY <1>11, <4>1, <4>2
    <3>4. ~(n < adding.left)
      BY <1>23, <3>2
    <3> QED BY <1>21, <1>22, <1>23, <3>3, <3>4
  <2> QED BY <2>1, <2>2
<1>26. Chain(file', e, g, FALSE)
  BY <1>4, <1>21, <1>22
<1>27. Along(e, g)'
  BY <1>1, <1>24, <1>25, <1>26 DEF Along
<1> QED BY <1>27

(* AddRecord begins outside of records.                                    *)
LEMMA AddRecordAlong ==
  ASSUME WriterTypes, NEW bd, NEW c, Along(bd, c), NEW n \in Sizes, AddRecord(n)
  PROVE  Along(bd, c)'
<1>1. /\ phase = "write" /\ phase' = "write" /\ file' = file /\ adding = NoRecord
      /\ blockOffset' = blockOffset /\ added' = added
  BY DEF AddRecord
<1>2. PICK m : m = Cardinality(begun) + 1
  OBVIOUS
<1>3. adding' = [id |-> m, size |-> n, left |-> n, begin |-> TRUE, start |-> 0]
  BY <1>2 DEF AddRecord
<1>4. adding'.begin
  BY <1>3
<1>5. WriterAt(bd, c)'
  BY <1>1, <1>4 DEF Along, WriterAt, Wrapped
<1>6. AddedAt(bd, c)'
  BY <1>1 DEF Along, AddedAt
<1> QED BY <1>1, <1>5, <1>6 DEF Along

(* A crash without zeros leaves a torn file.                               *)
LEMMA CrashAlong ==
  ASSUME WriterTypes, NEW bd, NEW c, Along(bd, c), NEW keep \in 0 .. Len(file), NEW z,
         Crash(keep, z), plain'
  PROVE  \E e : Along(e, c)'
<1>1. /\ phase = "write" /\ phase' = "down" /\ adding' = NoRecord /\ z = 0
      /\ added' = {r \in added : r.end <= keep}
      /\ file' = SubSeq(file, 1, keep) \o Cells(z, Zero)
  BY DEF Crash
<1>2. PICK f, v, u, o : /\ f = file /\ v = file' /\ u = SubSeq(file, 1, keep)
                        /\ o = Cells(z, Zero)
  OBVIOUS
<1>3. /\ f \in Seq(AnyCell) /\ Len(f) \in Nat /\ u \in Seq(AnyCell) /\ Len(u) = keep
      /\ \A i \in 1 .. keep : u[i] = f[i]
  <2>1. f \in Seq(AnyCell)
    BY <1>2 DEF WriterTypes
  <2> QED BY <1>2, <2>1, FirstIs, LenProperties
<1>4. o \in Seq(AnyCell) /\ Len(o) = 0
  BY <1>1, <1>2, CellsIs, CellKinds
<1>5. /\ v \in Seq(AnyCell) /\ Len(v) = keep + 0
      /\ \A i \in 1 .. keep : v[i] = u[i]
  <2>1. u \in Seq(AnyCell) /\ o \in Seq(AnyCell)
    BY <1>3, <1>4
  <2>2. /\ u \o o \in Seq(AnyCell) /\ Len(u \o o) = Len(u) + Len(o)
        /\ \A i \in 1 .. Len(u) : (u \o o)[i] = u[i]
    BY <2>1, BehindIs
  <2>3. v = u \o o
    BY <1>1, <1>2
  <2> QED BY <1>3, <1>4, <2>2, <2>3
<1>6. keep \in Nat /\ keep <= Len(f) /\ Len(v) = keep
  BY <1>2, <1>3, <1>5
<1>7. Agree(f, v, Len(v))
  BY <1>3, <1>5, <1>6 DEF Agree
<1>8. PICK e : e = {i \in bd : i <= Len(v)}
  OBVIOUS
<1>9. Chain(v, e, c, TRUE)
  <2>1. Chain(f, bd, c, FALSE)
    BY <1>1, <1>2 DEF Along
  <2> QED BY <1>3, <1>5, <1>7, <1>8, <2>1, ChainCut
<1>10. AddedAt(e, c)'
  <2> SUFFICES ASSUME NEW r \in added' PROVE r.end \in e /\ ~c[r.end].open
    BY DEF AddedAt
  <2>1. r \in added /\ r.end <= keep
    BY <1>1
  <2>2. r.end \in bd /\ ~c[r.end].open
    BY <2>1 DEF Along, AddedAt
  <2> QED BY <1>6, <1>8, <2>1, <2>2
<1>11. Along(e, c)'
  BY <1>1, <1>2, <1>9, <1>10 DEF Along
<1> QED BY <1>11

(* A Writer that goes on behind a complete record.                         *)
LEMMA ReopenAlong ==
  ASSUME WriterTypes, NEW bd, NEW c, Along(bd, c), Reopen, plain'
  PROVE  Along(bd, c)'
<1>1. /\ phase = "down" /\ phase' = "write" /\ file' = file /\ adding' = adding
      /\ added' = added /\ blockOffset' = Len(file) % BlockSize
      /\ Len(file) \in {0} \cup {r.end : r \in added}
  BY DEF Reopen
<1>2. Chain(file, bd, c, TRUE) /\ adding = NoRecord /\ AddedAt(bd, c)
  BY <1>1 DEF Along
<1>3. PICK l \in Nat : l = Len(file)
  BY LenProperties DEF WriterTypes
<1>4. l \in bd /\ ~c[l].open
  <2>1. CASE l = 0
    BY <1>2, <2>1 DEF Chain
  <2>2. CASE \E r \in added : l = r.end
    BY <1>2, <2>2 DEF AddedAt
  <2> QED BY <1>1, <1>3, <2>1, <2>2
<1>5. Chain(file, bd, c, FALSE)
  BY <1>2, <1>3, <1>4, ChainClosed
<1>6. InBlock(l, c[l].off) /\ c[l] \in Place
  BY <1>2, <1>4 DEF Chain
<1>7. PICK o : o = c[l].off
  OBVIOUS
<1>8. blockOffset' = o
  BY <1>1, <1>3, <1>6, <1>7, InBlockIs
<1>9. Wrapped(o) = o
  <2>1. o \in 0 .. BlockSize - 1 /\ BlockSize \in Nat
    BY <1>6, <1>7, LogAssumption DEF InBlock
  <2>2. o # BlockSize
    BY <2>1
  <2> QED BY <2>2 DEF Wrapped
<1>10. WriterAt(bd, c)'
  BY <1>1, <1>2, <1>3, <1>4, <1>7, <1>8, <1>9 DEF WriterAt, Wrapped
<1>11. AddedAt(bd, c)'
  BY <1>1, <1>2 DEF AddedAt
<1> QED BY <1>1, <1>5, <1>10, <1>11 DEF Along

(* A step that leaves the Writer alone.                                    *)
LEMMA ReadsAlong ==
  ASSUME NEW bd, NEW c, Along(bd, c), UNCHANGED writerVars, phase # "write",
         \/ /\ phase' = "read"
            /\ reader'.initial = 0 => ReaderAt(reader', file, bd, c)
         \/ /\ phase' = "end"
            /\ reader'.initial = 0 /\ ~reader'.ioError => ~reader'.reported
  PROVE  Along(bd, c)'
<1>1. file' = file /\ adding' = adding /\ added' = added
  BY DEF writerVars
<1>2. Chain(file', bd, c, TRUE) /\ adding' = NoRecord
  BY <1>1 DEF Along
<1>3. AddedAt(bd, c)'
  BY <1>1 DEF Along, AddedAt
<1>4. CASE phase' = "read" /\ (reader'.initial = 0 => ReaderAt(reader', file, bd, c))
  <2>1. phase' # "write" /\ phase' # "end"
    BY <1>4
  <2>2. reader'.initial = 0 => ReaderAt(reader', file', bd, c)
    BY <1>1, <1>4
  <2> QED BY <1>2, <1>3, <2>1, <2>2 DEF Along
<1>5. CASE /\ phase' = "end"
           /\ reader'.initial = 0 /\ ~reader'.ioError => ~reader'.reported
  <2>1. phase' # "write" /\ phase' # "read"
    BY <1>5
  <2> QED BY <1>2, <1>3, <1>5, <2>1 DEF Along
<1> QED BY <1>4, <1>5

(* A Reader of the whole file starts where the chain does.                 *)
LEMMA StartReadAlong ==
  ASSUME NEW bd, NEW c, Along(bd, c), NEW checksum \in BOOLEAN, NEW initial \in Nat,
         StartRead(checksum, initial), Len(file) \in Nat
  PROVE  Along(bd, c)'
<1>1. phase = "down" /\ UNCHANGED writerVars
  BY DEF StartRead
<1>2. PICK r : r = [NoReader EXCEPT !.checksum = checksum, !.initial = initial,
                                    !.endOffset = InitialBlock(initial),
                                    !.resyncing = initial > 0]
  OBVIOUS
<1>3. CASE phase' = "read" /\ reader' = r
  <2>1. ASSUME r.initial = 0 PROVE ReaderAt(r, file, bd, c)
    <3>1. initial = 0
      BY <1>2, <2>1 DEF NoReader
    <3>2. InitialBlock(initial) = 0
      <4>1. PICK b \in Nat, h \in Nat : b = BlockSize /\ h = HeaderSize /\ b > h /\ h >= 3
        BY LogAssumption
      <4>2. 0 % b = 0
        BY <4>1
      <4>3. ~(0 > b - (h - 1))
        BY <4>1
      <4> QED BY <3>1, <4>1, <4>2, <4>3 DEF InitialBlock
    <3>3. PICK i : i = (initial > 0) /\ ~i /\ i \in BOOLEAN
      <4>1. ~(initial > 0) /\ (initial > 0) \in BOOLEAN
        BY <3>1
      <4> QED BY <4>1
    <3>4. r = [NoReader EXCEPT !.checksum = checksum, !.initial = 0, !.endOffset = 0,
                               !.resyncing = i]
      BY <1>2, <3>1, <3>2, <3>3
    <3>5. /\ r.endOffset = 0 /\ r.buffer = 0 /\ ~r.resyncing /\ ~r.reported
          /\ ~r.inFragmented
      BY <3>3, <3>4 DEF NoReader
    <3>6. StartOf(r) = 0
      BY <3>5 DEF StartOf
    <3>7. 0 \in bd /\ c[0].off = 0 /\ ~c[0].open
      BY <1>1 DEF Along, Chain
    <3>8. 0 + 0 <= BlockSize /\ 0 <= Len(file)
      BY LogAssumption
    <3> QED BY <3>5, <3>6, <3>7, <3>8 DEF ReaderAt
  <2> QED BY <1>1, <1>3, <2>1, ReadsAlong
<1>4. CASE /\ phase' = "end"
           /\ reader' = [Report(r, r.endOffset) EXCEPT !.ioError = TRUE]
  <2>1. "ioError" \in DOMAIN Report(r, r.endOffset)
    BY <1>2 DEF NoReader, Report
  <2>2. reader'.ioError
    BY <1>4, <2>1
  <2> QED BY <1>1, <1>4, <2>2, ReadsAlong
<1> QED BY <1>2, <1>3, <1>4 DEF StartRead

(* The next block begins where the chain leads to.                         *)
LEMMA RefillAlong ==
  ASSUME NEW s, Len(s) \in Nat, NEW bd, NEW c, Chain(s, bd, c, TRUE),
         NEW o, ReaderTypes(o, s), ReaderAt(o, s, bd, c), o.buffer < HeaderSize, ~o.eof,
         NEW l, l = Len(s) - o.endOffset,
         NEW n, n = IF l < 0 THEN 0 ELSE IF l < BlockSize THEN l ELSE BlockSize,
         NEW q, q = [o EXCEPT !.buffer = n, !.endOffset = @ + n, !.eof = AtEnd(n)]
  PROVE  ReaderAt(q, s, bd, c)
<1>1. PICK B \in Nat, h \in Nat, m \in Nat, k \in Nat, e \in Nat :
        /\ B = BlockSize /\ h = HeaderSize /\ B > h /\ h >= 3 /\ m = Len(s)
        /\ k = o.buffer /\ e = o.endOffset
  <2>1. o.buffer \in Nat /\ o.endOffset \in Nat
    BY LogAssumption DEF ReaderTypes, ReaderType
  <2>2. /\ BlockSize \in Nat /\ HeaderSize \in Nat
        /\ BlockSize > HeaderSize /\ HeaderSize >= 3
    BY LogAssumption
  <2> QED BY <2>1, <2>2
<1>2. o \in ReaderType /\ k <= e /\ e <= m /\ k < h
  BY <1>1 DEF ReaderTypes, ReaderAt
<1>3. n \in Nat /\ n <= B /\ e + n <= m
  <2>1. l = m - e /\ l \in Nat
    BY <1>1, <1>2
  <2>2. n = IF l < B THEN l ELSE B
    BY <1>1, <2>1
  <2> QED BY <1>1, <1>2, <2>1, <2>2
<1>4. PICK b, z : b = (n < BlockSize) /\ b \in BOOLEAN /\ z = e + n /\ z \in Nat
  <2>1. (n < BlockSize) \in BOOLEAN
    OBVIOUS
  <2>2. e + n \in Nat
    BY <1>3
  <2> QED BY <2>1, <2>2
<1>5. q = [o EXCEPT !.buffer = n, !.endOffset = z, !.eof = b]
  BY <1>1, <1>2, <1>4 DEF AtEnd, ReaderType
<1>6. /\ q.buffer = n /\ q.endOffset = z /\ q.eof = b /\ q.resyncing = o.resyncing
      /\ q.reported = o.reported /\ q.inFragmented = o.inFragmented
  BY <1>2, <1>5 DEF ReaderType
<1>7. PICK x \in Nat : x = e - k /\ x = StartOf(o)
  BY <1>1, <1>2 DEF StartOf
<1>8. StartOf(q) = e
  <2>1. z - n = e
    BY <1>3, <1>4
  <2> QED BY <1>6, <2>1 DEF StartOf
<1>9. x \in bd /\ c[x] \in Place /\ (c[x].open <=> o.inFragmented)
  BY <1>7 DEF ReaderAt, Chain
<1>10. PICK f \in 0 .. B - 1 : f = c[x].off
  BY <1>1, <1>9 DEF Place
<1>11. (k = 0 /\ f = 0) \/ f + k = B
  BY <1>1, <1>7, <1>10 DEF ReaderAt
<1>12. e \in bd /\ c[e].off = 0 /\ (c[e].open <=> o.inFragmented)
  <2>1. CASE k = 0 /\ f = 0
    <3>1. e = x
      BY <1>1, <1>7, <2>1
    <3> QED BY <1>9, <1>10, <2>1, <3>1
  <2>2. CASE f + k = B
    <3>1. k > 0 /\ x < m
      <4>1. k > 0
        BY <1>10, <2>2
      <4>2. x = e - k /\ e <= m
        BY <1>2, <1>7
      <4> QED BY <4>1, <4>2
    <3>2. Linked(s, bd, c, TRUE, x)
      BY <1>1, <1>9, <3>1 DEF Chain
    <3>3. PICK y \in Nat, p \in Place :
            /\ Link(s, c[x], x, y, p)
            /\ y > Len(s) \/ (y \in bd /\ c[y] = p)
      BY <3>2 DEF Linked
    <3>4. ~ \E t, d : Segment(s, c[x], x, y, p, t, d)
      <4> SUFFICES ASSUME NEW t, NEW d, Segment(s, c[x], x, y, p, t, d) PROVE FALSE
        OBVIOUS
      <4>1. PICK j \in Nat : j = Len(d)
        BY LenProperties DEF Segment, Begins
      <4>2. f + h + j <= B
        BY <1>1, <1>10, <4>1 DEF Segment
      <4>3. k < h
        BY <1>2
      <4> QED BY <2>2, <4>2, <4>3
    <3>5. y = x + (B - f) /\ p.off = 0 /\ (p.open <=> c[x].open)
      BY <1>1, <1>10, <3>3, <3>4 DEF Link
    <3>6. y = e
      <4>1. x = e - k /\ y = x + (B - f)
        BY <1>7, <3>5
      <4>2. B - f = k
        BY <2>2
      <4>3. y = x + k
        BY <4>1, <4>2
      <4> QED BY <4>1, <4>3
    <3>7. ~(y > Len(s))
      BY <1>1, <1>2, <3>6
    <3> QED BY <1>9, <3>3, <3>5, <3>6, <3>7
  <2> QED BY <1>11, <2>1, <2>2
<1>13. ~o.resyncing /\ ~o.reported
  BY DEF ReaderAt
<1>14. z <= m /\ 0 + n <= B /\ (~b => 0 + n = B)
  <2>1. b <=> n < B
    BY <1>1, <1>4
  <2>2. z <= m
    BY <1>3, <1>4
  <2> QED BY <1>3, <2>1, <2>2
<1> QED BY <1>1, <1>6, <1>8, <1>12, <1>13, <1>14 DEF ReaderAt

(* A fragment that continues what the Reader has is put to it, and nothing *)
(* is reported.                                                            *)
Silent(q, r, t) ==
  /\ q.buffer = r.buffer /\ q.endOffset = r.endOffset /\ q.eof = r.eof
  /\ ~q.resyncing /\ ~q.reported /\ q.initial = r.initial
  /\ q.inFragmented <=> t \in {"first", "middle"}

(* The cases of ReadRecord that report nothing.                            *)
LEMMA AssembledSilently ==
  ASSUME NEW r \in ReaderType, ~r.resyncing, ~r.reported, NEW t \in Kinds,
         r.inFragmented <=> t \in {"middle", "last"}, NEW data \in Seq(AnyCell),
         FragmentOffset(r, data) \in Nat, NEW q, q = NextReader(r, t, data)
  PROVE  Silent(q, r, t)
<1>1. PICK y : y = [r EXCEPT !.resyncing = FALSE]
  OBVIOUS
<1>2. q = Assembled(y, t, data)
  BY <1>1 DEF NextReader
<1>3. /\ y \in ReaderType /\ ~y.resyncing /\ ~y.reported
      /\ y.inFragmented = r.inFragmented /\ y.buffer = r.buffer
      /\ y.endOffset = r.endOffset /\ y.eof = r.eof /\ y.initial = r.initial
  BY <1>1 DEF ReaderType
<1>4. FragmentOffset(y, data) = FragmentOffset(r, data)
  BY <1>3 DEF FragmentOffset
<1>5. Assembles(q, y, t, data)
  BY <1>2, <1>3, <1>4, AssembledIs
<1>6. /\ q \in ReaderType /\ q.buffer = r.buffer /\ q.endOffset = r.endOffset
      /\ q.eof = r.eof /\ ~q.resyncing /\ q.initial = r.initial
  BY <1>3, <1>5 DEF Assembles, Placed
<1>7. PICK f : f = FragmentOffset(y, data)
  OBVIOUS
<1>8. ~y.inFragmented => Partial(y) = y
  BY DEF Partial
<1>9. \A i, j : Returned(y, i, j).reported = y.reported
  <2> SUFFICES ASSUME NEW i, NEW j PROVE Returned(y, i, j).reported = y.reported
    OBVIOUS
  <2>1. PICK z, e : z = Append(y.out, [offset |-> i, data |-> j]) /\ e = <<>>
    OBVIOUS
  <2>2. Returned(y, i, j) = [y EXCEPT !.out = z, !.inFragmented = FALSE, !.scratch = e]
    BY <2>1 DEF Returned
  <2> QED BY <1>3, <2>2 DEF ReaderType
<1>10. CASE t = "full"
  <2>1. ~y.inFragmented /\ ~q.inFragmented
    BY <1>3, <1>5, <1>10 DEF Assembles
  <2>2. q = Returned(y, f, data)
    BY <1>2, <1>7, <1>8, <1>10, <2>1 DEF Assembled
  <2> QED BY <1>3, <1>6, <1>9, <1>10, <2>1, <2>2 DEF Silent
<1>11. CASE t = "first"
  <2>1. ~y.inFragmented /\ q.inFragmented
    BY <1>3, <1>5, <1>11 DEF Assembles
  <2>2. q = [y EXCEPT !.prospective = f, !.scratch = data, !.inFragmented = TRUE]
    BY <1>2, <1>7, <1>8, <1>11, <2>1 DEF Assembled
  <2>3. q.reported = y.reported
    BY <1>3, <2>2 DEF ReaderType
  <2> QED BY <1>3, <1>6, <1>11, <2>1, <2>3 DEF Silent
<1>12. CASE t = "middle"
  <2>1. y.inFragmented /\ q.inFragmented
    BY <1>3, <1>5, <1>12 DEF Assembles
  <2>2. PICK z : z = y.scratch \o data
    OBVIOUS
  <2>3. q = [y EXCEPT !.scratch = z]
    BY <1>2, <1>12, <2>1, <2>2 DEF Assembled
  <2>4. q.reported = y.reported
    BY <1>3, <2>3 DEF ReaderType
  <2> QED BY <1>3, <1>6, <1>12, <2>1, <2>4 DEF Silent
<1>13. CASE t = "last"
  <2>1. y.inFragmented /\ ~q.inFragmented
    BY <1>3, <1>5, <1>13 DEF Assembles
  <2>2. q = Returned(y, y.prospective, y.scratch \o data)
    BY <1>2, <1>13, <2>1 DEF Assembled
  <2> QED BY <1>3, <1>6, <1>9, <1>13, <2>1, <2>2 DEF Silent
<1> QED BY <1>10, <1>11, <1>12, <1>13 DEF Kinds

(* With a header in its buffer the Reader is at a fragment, and accepts    *)
(* it or has come to where the file is cut.                                *)
LEMMA AtFragment ==
  ASSUME NEW s, Len(s) \in Nat, NEW bd, NEW c, Chain(s, bd, c, TRUE),
         NEW o, ReaderTypes(o, s), ReaderAt(o, s, bd, c), o.buffer >= HeaderSize,
         NEW x, x = StartOf(o)
  PROVE  \E t, d, y, p : /\ Segment(s, c[x], x, y, p, t, d)
                         /\ y > Len(s) \/ (y \in bd /\ c[y] = p)
                         /\ x + HeaderSize <= Len(s)
                         /\ ~o.eof => HeaderSize + Len(d) <= o.buffer
<1>1. PICK B \in Nat, h \in Nat, m \in Nat, k \in Nat, e \in Nat :
        /\ B = BlockSize /\ h = HeaderSize /\ B > h /\ h >= 3 /\ m = Len(s)
        /\ k = o.buffer /\ e = o.endOffset
  <2>1. o.buffer \in Nat /\ o.endOffset \in Nat
    BY LogAssumption DEF ReaderTypes, ReaderType
  <2>2. /\ BlockSize \in Nat /\ HeaderSize \in Nat
        /\ BlockSize > HeaderSize /\ HeaderSize >= 3
    BY LogAssumption
  <2> QED BY <2>1, <2>2
<1>2. k <= e /\ e <= m /\ k >= h
  BY <1>1 DEF ReaderTypes, ReaderAt
<1>3. x = e - k
  BY <1>1 DEF StartOf
<1>4. x \in Nat /\ x + h <= m /\ x < m
  BY <1>1, <1>2, <1>3
<1>5. x \in bd /\ c[x] \in Place
  BY DEF ReaderAt, Chain
<1>6. PICK f \in 0 .. B - 1 : f = c[x].off
  BY <1>1, <1>5 DEF Place
<1>7. f + k <= B /\ (~o.eof => f + k = B)
  <2>1. f + k <= B /\ (~o.eof => (k = 0 /\ f = 0) \/ f + k = B)
    BY <1>1, <1>6 DEF ReaderAt
  <2>2. k # 0
    BY <1>1, <1>2
  <2> QED BY <2>1, <2>2
<1>8. PICK y \in Nat, p \in Place :
        Link(s, c[x], x, y, p) /\ (y > Len(s) \/ (y \in bd /\ c[y] = p))
  <2>1. Linked(s, bd, c, TRUE, x)
    BY <1>1, <1>4, <1>5 DEF Chain
  <2> QED BY <2>1 DEF Linked
<1>9. ~(f + h > B)
  BY <1>2, <1>7
<1>10. PICK t, d : Segment(s, c[x], x, y, p, t, d)
  BY <1>1, <1>6, <1>8, <1>9 DEF Link
<1>11. ~o.eof => h + Len(d) <= k
  <2>1. PICK j \in Nat : j = Len(d)
    BY <1>10, LenProperties DEF Segment, Begins
  <2>2. f + h + j <= B
    BY <1>1, <1>6, <1>10, <2>1 DEF Segment
  <2>3. CASE ~o.eof
    <3>1. f + k = B
      BY <1>7, <2>3
    <3>2. h + j <= k
      BY <2>2, <3>1
    <3> QED BY <2>1, <3>2
  <2> QED BY <2>3
<1> QED BY <1>1, <1>4, <1>8, <1>10, <1>11

(* The Reader behind the fragment.                                         *)
LEMMA BehindFragment ==
  ASSUME NEW s, Len(s) \in Nat, NEW bd, NEW c, NEW o, ReaderTypes(o, s),
         ReaderAt(o, s, bd, c), NEW x, x = StartOf(o), NEW t, NEW d, NEW y, NEW p,
         Segment(s, c[x], x, y, p, t, d), y \in bd, c[y] = p, c[x] \in Place,
         HeaderSize + Len(d) <= o.buffer,
         NEW r, r.endOffset = o.endOffset, r.buffer = o.buffer - (HeaderSize + Len(d)),
         r.eof = o.eof, NEW q, Silent(q, r, t)
  PROVE  ReaderAt(q, s, bd, c)
<1>1. PICK B \in Nat, h \in Nat, m \in Nat, k \in Nat, e \in Nat, n \in Nat :
        /\ B = BlockSize /\ h = HeaderSize /\ B > h /\ h >= 3 /\ m = Len(s)
        /\ k = o.buffer /\ e = o.endOffset /\ n = Len(d)
  <2>1. Len(d) \in Nat
    BY LenProperties DEF Segment, Begins
  <2>2. o.buffer \in Nat /\ o.endOffset \in Nat
    BY LogAssumption DEF ReaderTypes, ReaderType
  <2>3. /\ BlockSize \in Nat /\ HeaderSize \in Nat
        /\ BlockSize > HeaderSize /\ HeaderSize >= 3
    BY LogAssumption
  <2> QED BY <2>1, <2>2, <2>3
<1>2. PICK f \in 0 .. B - 1 : f = c[x].off
  BY <1>1 DEF Place
<1>3. /\ y = x + h + n /\ f + h + n <= B /\ p.off = Wrapped(f + h + n)
      /\ (p.open <=> t \in {"first", "middle"})
  BY <1>1, <1>2 DEF Segment
<1>4. PICK j \in Nat : j = k - (h + n)
  BY <1>1
<1>5. q.buffer = j /\ q.endOffset = e /\ q.eof = o.eof /\ ~q.resyncing /\ ~q.reported
      /\ (q.inFragmented <=> t \in {"first", "middle"})
  BY <1>1, <1>4 DEF Silent
<1>6. x = e - k
  BY <1>1 DEF StartOf
<1>7. StartOf(q) = y
  <2>1. e - j = y
    <3>1. y = x + h + n
      BY <1>3
    <3> QED BY <1>4, <1>6, <3>1
  <2> QED BY <1>5, <2>1 DEF StartOf
<1>8. e <= m /\ f + k <= B /\ (~o.eof => f + k = B)
  <2>1. /\ e <= m /\ f + k <= B
        /\ ~o.eof => (k = 0 /\ f = 0) \/ f + k = B
    BY <1>1, <1>2 DEF ReaderAt
  <2>2. k # 0
    BY <1>1
  <2> QED BY <2>1, <2>2
<1>9. PICK i \in Nat : i = f + h + n /\ i + j = f + k /\ i <= B
  <2>1. f + h + n \in Nat /\ f + h + n <= B
    BY <1>3
  <2>2. f + h + n + j = f + k
    BY <1>4
  <2> QED BY <2>1, <2>2
<1>10. /\ p.off + j <= B
       /\ ~o.eof => (j = 0 /\ p.off = 0) \/ p.off + j = B
  <2>1. CASE i = B
    <3>1. p.off = 0
      BY <1>1, <1>3, <1>9, <2>1 DEF Wrapped
    <3>2. j = 0
      <4>1. B + j = f + k /\ f + k <= B
        BY <1>8, <1>9, <2>1
      <4> QED BY <4>1
    <3>3. 0 + j <= B
      BY <3>2
    <3> QED BY <3>1, <3>2, <3>3
  <2>2. CASE i # B
    <3>1. p.off = i
      BY <1>1, <1>3, <1>9, <2>2 DEF Wrapped
    <3> QED BY <1>8, <1>9, <3>1
  <2> QED BY <2>1, <2>2
<1> QED BY <1>1, <1>3, <1>5, <1>7, <1>8, <1>10 DEF ReaderAt

(* initial_offset_ stays.                                                  *)
LEMMA InitialStays ==
  ASSUME NEW r, "initial" \in DOMAIN r, NEW t, NEW data
  PROVE  NextReader(r, t, data).initial = r.initial
<1>1. \A q, x : "initial" \in DOMAIN q =>
                  /\ Report(q, x).initial = q.initial
                  /\ "initial" \in DOMAIN Report(q, x)
  <2> SUFFICES ASSUME NEW q, NEW x, "initial" \in DOMAIN q
               PROVE  /\ Report(q, x).initial = q.initial
                      /\ "initial" \in DOMAIN Report(q, x)
    OBVIOUS
  <2>1. PICK b : b = (q.reported \/ Reports(q, x))
    OBVIOUS
  <2>2. Report(q, x) = [q EXCEPT !.reported = b]
    BY <2>1 DEF Report
  <2> QED BY <2>2
<1>2. \A q, x, y : "initial" \in DOMAIN q => Returned(q, x, y).initial = q.initial
  <2> SUFFICES ASSUME NEW q, NEW x, NEW y, "initial" \in DOMAIN q
               PROVE  Returned(q, x, y).initial = q.initial
    OBVIOUS
  <2>1. PICK b, e : b = Append(q.out, [offset |-> x, data |-> y]) /\ e = <<>>
    OBVIOUS
  <2>2. Returned(q, x, y) = [q EXCEPT !.out = b, !.inFragmented = FALSE, !.scratch = e]
    BY <2>1 DEF Returned
  <2> QED BY <2>2
<1>3. PICK y : y = [r EXCEPT !.resyncing = FALSE]
  OBVIOUS
<1>4. y.initial = r.initial /\ "initial" \in DOMAIN y
  BY <1>3
<1>5. Partial(y).initial = r.initial /\ "initial" \in DOMAIN Partial(y)
  BY <1>1, <1>4 DEF Partial
<1>6. Assembled(y, t, data).initial = r.initial
  <2>1. PICK q, f, e, a, b : /\ q = Partial(y) /\ f = FragmentOffset(y, data) /\ e = <<>>
                             /\ a = y.scratch \o data
                             /\ b = Len(data) + (IF y.inFragmented THEN Len(y.scratch) ELSE 0)
    OBVIOUS
  <2>2. q.initial = r.initial /\ "initial" \in DOMAIN q
    BY <1>5, <2>1
  <2>3. CASE t = "full"
    <3>1. Assembled(y, t, data) = Returned(q, f, data)
      BY <2>1, <2>3 DEF Assembled
    <3> QED BY <1>2, <2>2, <3>1
  <2>4. CASE t = "first"
    <3>1. Assembled(y, t, data) = [q EXCEPT !.prospective = f, !.scratch = data,
                                            !.inFragmented = TRUE]
      BY <2>1, <2>4 DEF Assembled
    <3> QED BY <2>2, <3>1
  <2>5. CASE t = "middle"
    <3>1. \/ Assembled(y, t, data) = Report(y, Len(data))
          \/ Assembled(y, t, data) = [y EXCEPT !.scratch = a]
      BY <2>1, <2>5 DEF Assembled
    <3> QED BY <1>1, <1>4, <3>1
  <2>6. CASE t = "last"
    <3>1. \/ Assembled(y, t, data) = Report(y, Len(data))
          \/ Assembled(y, t, data) = Returned(y, y.prospective, a)
      BY <2>1, <2>6 DEF Assembled
    <3> QED BY <1>1, <1>2, <1>4, <3>1
  <2>7. CASE t = "bad"
    <3>1. PICK g : g = Report(y, Len(y.scratch))
      OBVIOUS
    <3>2. \/ Assembled(y, t, data) = [g EXCEPT !.inFragmented = FALSE, !.scratch = e]
          \/ Assembled(y, t, data) = y
      BY <2>1, <2>7, <3>1 DEF Assembled, AfterBadRecord
    <3>3. g.initial = r.initial /\ "initial" \in DOMAIN g
      BY <1>1, <1>4, <3>1
    <3> QED BY <1>4, <3>2, <3>3
  <2>8. CASE t \notin {"full", "first", "middle", "last", "bad"}
    <3>1. PICK g : g = Report(y, b)
      OBVIOUS
    <3>2. Assembled(y, t, data) = [g EXCEPT !.inFragmented = FALSE, !.scratch = e]
      BY <2>1, <2>8, <3>1 DEF Assembled
    <3>3. g.initial = r.initial /\ "initial" \in DOMAIN g
      BY <1>1, <1>4, <3>1
    <3> QED BY <3>2, <3>3
  <2> QED BY <2>3, <2>4, <2>5, <2>6, <2>7, <2>8
<1>7. CASE r.resyncing /\ t \in {"middle", "last"}
  <2>1. PICK b : b = (t = "middle")
    OBVIOUS
  <2>2. NextReader(r, t, data) = [r EXCEPT !.resyncing = b]
    BY <1>7, <2>1 DEF NextReader
  <2> QED BY <2>2
<1>8. CASE ~(r.resyncing /\ t \in {"middle", "last"})
  BY <1>3, <1>6, <1>8 DEF NextReader
<1> QED BY <1>7, <1>8

(* What ReadPhysicalRecord does, in short.                                 *)
LEMMA PhysicalIs ==
  ASSUME reader \in ReaderType, NEW t, NEW n, ReadPhysicalRecord(t, n)
  PROVE  /\ UNCHANGED writerVars /\ reader'.initial = reader.initial
         /\ phase' = phase \/ phase' = "end"
<1>1. "initial" \in DOMAIN reader
  BY DEF ReaderType
<1>2. PICK b : b = reader.buffer - (HeaderSize + n)
  OBVIOUS
<1>3. PICK d, r : d = Dropped /\ r = [reader EXCEPT !.buffer = b]
  OBVIOUS
<1>4. /\ "initial" \in DOMAIN d /\ d.initial = reader.initial
      /\ "initial" \in DOMAIN r /\ r.initial = reader.initial
  BY <1>1, <1>3 DEF Dropped
<1>5. PICK q : q = Report(d, reader.buffer)
  OBVIOUS
<1>6. "initial" \in DOMAIN q /\ q.initial = reader.initial
  <2>1. PICK a : a = (d.reported \/ Reports(d, reader.buffer))
    OBVIOUS
  <2>2. q = [d EXCEPT !.reported = a]
    BY <1>5, <2>1 DEF Report
  <2> QED BY <1>4, <2>2
<1>7. \/ \E y \in {d, q, r} : \E u, e : ReadRecord(y, u, e)
      \/ Eof(d)
  <2>1. r = [reader EXCEPT !.buffer = @ - (HeaderSize + n)]
    BY <1>2, <1>3 DEF ReaderType
  <2> QED BY <1>3, <1>5, <2>1 DEF ReadPhysicalRecord, BadLength, ZeroRecord
<1>8. CASE \E y \in {d, q, r} : \E u, e : ReadRecord(y, u, e)
  <2>1. PICK y \in {d, q, r} : \E u, e : ReadRecord(y, u, e)
    BY <1>8
  <2>2. PICK u, e : ReadRecord(y, u, e)
    BY <2>1
  <2>3. reader' = NextReader(y, u, e) /\ UNCHANGED writerVars /\ phase' = phase
    BY <2>2 DEF ReadRecord, NextReader
  <2>4. "initial" \in DOMAIN y /\ y.initial = reader.initial
    BY <1>4, <1>6, <2>1
  <2> QED BY <2>3, <2>4, InitialStays
<1>9. CASE Eof(d)
  <2>1. PICK e : e = <<>>
    OBVIOUS
  <2>2. /\ reader' = [d EXCEPT !.scratch = e, !.resyncing = FALSE]
        /\ UNCHANGED writerVars /\ phase' = "end"
    BY <1>9, <2>1 DEF Eof
  <2> QED BY <1>4, <2>2
<1> QED BY <1>7, <1>8, <1>9

(* A Reader of the whole file goes on along the chain, or ends silently.   *)
LEMMA PhysicalAlong ==
  ASSUME WriterTypes, ReaderTypes(reader, file), phase = "read", NEW bd, NEW c, Along(bd, c),
         NEW t \in Types, NEW n \in Lengths, ReadPhysicalRecord(t, n)
  PROVE  Along(bd, c)'
<1>1. /\ UNCHANGED writerVars /\ reader'.initial = reader.initial
      /\ phase' = "read" \/ phase' = "end"
      /\ reader \in ReaderType
  BY PhysicalIs DEF ReaderTypes
<1>2. CASE reader.initial # 0
  BY <1>1, <1>2, ReadsAlong
<1>3. CASE reader.initial = 0
  <2>1. PICK s, o, x : s = file /\ o = reader /\ x = Start
    OBVIOUS
  <2>2. /\ s \in Seq(AnyCell) /\ Len(s) \in Nat /\ Chain(s, bd, c, TRUE)
        /\ ReaderTypes(o, s) /\ ReaderAt(o, s, bd, c) /\ o \in ReaderType
        /\ x = StartOf(o) /\ o.buffer >= HeaderSize
    BY <1>1, <1>3, <2>1, LenProperties
       DEF WriterTypes, Along, StartOf, Start, ReadPhysicalRecord
  <2>3. PICK u, d, y, p : /\ Segment(s, c[x], x, y, p, u, d)
                          /\ y > Len(s) \/ (y \in bd /\ c[y] = p)
                          /\ x + HeaderSize <= Len(s)
                          /\ ~o.eof => HeaderSize + Len(d) <= o.buffer
    BY <2>2, AtFragment
  <2>4. PICK h \in Nat, k \in Nat, e \in Nat, m \in Nat :
          /\ h = HeaderSize /\ h >= 3 /\ k = o.buffer /\ e = o.endOffset /\ m = Len(s)
    <3>1. o.buffer \in Nat /\ o.endOffset \in Nat
      BY <2>2, LogAssumption DEF ReaderType
    <3>2. HeaderSize \in Nat /\ HeaderSize >= 3
      BY LogAssumption
    <3> QED BY <2>2, <3>1, <3>2
  <2>5. /\ u \in Kinds /\ d \in Seq(DataCell) /\ Len(d) \in Nat
        /\ s[x + 1] = Crc(u, d) /\ s[x + h - 1] = Length(Len(d)) /\ s[x + h] = Type(u)
    BY <2>3, <2>4, LenProperties DEF Segment, Begins
  <2>6. x \in Nat /\ x = e - k /\ k <= e /\ e <= m
    <3>1. x = e - k /\ k <= e /\ e <= m
      BY <2>2, <2>4 DEF StartOf, ReaderTypes, ReaderAt
    <3> QED BY <3>1
  <2>7. n = Len(d) /\ t = u
    <3>1. x + (h - 1) = x + h - 1
      BY <2>6
    <3>2. LengthCell = Length(Len(d)) /\ TypeCell = Type(u)
      BY <2>1, <2>4, <2>5, <3>1 DEF LengthCell, TypeCell, Cell
    <3>3. Lengths = {Len(d)}
      BY <3>2 DEF Lengths, Length
    <3>4. Types = {u}
      BY <3>2 DEF Types, Type
    <3> QED BY <3>3, <3>4
  <2>8. n \in Nat /\ t \in Kinds
    BY <2>5, <2>7
  <2>9. CASE h + n > k
    <3>1. o.eof
      <4>1. CASE ~o.eof
        <5>1. h + n <= k
          BY <2>3, <2>4, <2>7, <4>1
        <5> QED BY <2>8, <2>9, <5>1
      <4> QED BY <4>1
    <3>2. BadLength
      <4>1. ~(h + n <= k)
        BY <2>8, <2>9
      <4> QED BY <2>1, <2>4, <4>1 DEF ReadPhysicalRecord
    <3>3. Eof(Dropped)
      BY <2>1, <3>1, <3>2 DEF BadLength
    <3>4. PICK a, b : a = <<>> /\ b = Dropped
      OBVIOUS
    <3>5. reader' = [b EXCEPT !.scratch = a, !.resyncing = FALSE] /\ phase' = "end"
      BY <3>3, <3>4 DEF Eof
    <3>6. b = [o EXCEPT !.buffer = 0]
      BY <2>1, <3>4 DEF Dropped
    <3>7. reader'.reported = o.reported
      BY <2>2, <3>5, <3>6 DEF ReaderType
    <3>8. ~reader'.reported
      BY <2>2, <3>7 DEF ReaderAt
    <3> QED BY <1>1, <3>5, <3>8, ReadsAlong
  <2>10. CASE ~(h + n > k)
    <3>1. h + n <= k
      BY <2>8, <2>10
    <3>2. x + h + n <= m
      BY <2>6, <2>8, <3>1
    <3>3. DataOf(n) = d
      <4>1. PICK j \in Nat : j = x + h
        BY <2>6
      <4>2. DataOf(n) = SubSeq(s, j + 1, j + n) /\ j + n <= Len(s)
        BY <2>1, <2>4, <3>2, <4>1 DEF DataOf
      <4>3. PICK w : w = SubSeq(s, j + 1, j + n)
        OBVIOUS
      <4>4. /\ w \in Seq(AnyCell) /\ Len(w) = n
            /\ \A i \in 1 .. n : w[i] = s[j + i]
        BY <2>2, <2>8, <4>2, <4>3, PartIs
      <4>5. \A i \in 1 .. n : s[j + i] = d[i]
        <5>1. Begins(s, x, u, d)
          BY <2>3 DEF Segment
        <5>2. x + HeaderSize + Len(d) <= Len(s)
          BY <2>4, <2>7, <3>2
        <5> QED BY <2>4, <2>7, <4>1, <5>1, <5>2 DEF Begins
      <4>6. Len(w) = Len(d) /\ \A i \in 1 .. Len(w) : w[i] = d[i]
        BY <2>7, <4>4, <4>5
      <4>7. w = d
        BY <2>5, <4>4, <4>6, SeqEqual
      <4> QED BY <4>2, <4>3, <4>7
    <3>4. CrcMatches(t, n)
      BY <2>1, <2>4, <2>5, <2>7, <3>3 DEF CrcMatches, Cell, TypeCell
    <3>5. t # "zero"
      BY <2>8 DEF Kinds
    <3>6. PICK r : r = [o EXCEPT !.buffer = @ - (HeaderSize + n)]
      OBVIOUS
    <3>7. PICK i \in 0 .. BlockSize : i = k - (h + n)
      <4>1. k <= BlockSize /\ BlockSize \in Nat
        BY <2>2, <2>4, LogAssumption DEF ReaderType
      <4>2. k - (h + n) \in 0 .. BlockSize
        BY <2>8, <3>1, <4>1
      <4> QED BY <4>2
    <3>8. r = [o EXCEPT !.buffer = i]
      BY <2>2, <2>4, <3>6, <3>7 DEF ReaderType
    <3>9. /\ r \in ReaderType /\ r.buffer = i /\ r.endOffset = e /\ r.eof = o.eof
          /\ r.resyncing = o.resyncing /\ r.reported = o.reported
          /\ r.inFragmented = o.inFragmented
      BY <2>2, <2>4, <3>8 DEF ReaderType
    <3>10. FragmentOffset(r, d) = x
      <4>1. FragmentOffset(r, d) = e - i - h - n
        BY <2>4, <2>7, <3>9 DEF FragmentOffset
      <4> QED BY <2>6, <2>8, <3>7, <4>1
    <3>11. ReadRecord(r, t, d)
      <4>1. ~(FragmentOffset(r, d) < reader.initial)
        BY <1>3, <2>6, <3>10
      <4>2. HeaderSize + n <= reader.buffer /\ ~(HeaderSize + n > reader.buffer)
        BY <2>1, <2>4, <2>10, <3>1
      <4> QED BY <2>1, <3>3, <3>4, <3>5, <3>6, <4>1, <4>2 DEF ReadPhysicalRecord
    <3>12. reader' = NextReader(r, t, d) /\ phase' = phase
      BY <3>11 DEF ReadRecord, NextReader
    <3>13. ~r.resyncing /\ ~r.reported /\ (r.inFragmented <=> t \in {"middle", "last"})
      BY <2>2, <2>3, <2>7, <3>9 DEF ReaderAt, Segment
    <3>14. d \in Seq(AnyCell)
      BY <2>5 DEF AnyCell
    <3>15. Silent(reader', r, t)
      BY <2>6, <2>8, <3>9, <3>10, <3>12, <3>13, <3>14, AssembledSilently
    <3>16. y \in bd /\ c[y] = p
      <4>1. y = x + h + n
        BY <2>3, <2>4, <2>7 DEF Segment
      <4>2. ~(y > m)
        BY <2>6, <2>8, <3>2, <4>1
      <4> QED BY <2>3, <2>4, <4>2
    <3>17. ReaderAt(reader', s, bd, c)
      <4>1. /\ HeaderSize + Len(d) <= o.buffer /\ r.endOffset = o.endOffset
            /\ r.buffer = o.buffer - (HeaderSize + Len(d)) /\ r.eof = o.eof
        BY <2>4, <2>7, <3>1, <3>7, <3>9
      <4>2. Segment(s, c[x], x, y, p, t, d) /\ c[x] \in Place
        BY <2>2, <2>3, <2>7 DEF ReaderAt, Chain
      <4> QED BY <2>2, <3>15, <3>16, <4>1, <4>2, BehindFragment
    <3> QED BY <1>1, <2>1, <3>12, <3>17, ReadsAlong
  <2> QED BY <2>9, <2>10
<1> QED BY <1>2, <1>3

(* The steps that read the next block, or come to the end of the file.     *)
LEMMA RefillsAlong ==
  ASSUME WriterTypes, ReaderTypes(reader, file), NEW bd, NEW c, Along(bd, c),
         Refill \/ ReadFails \/ EndOfFile
  PROVE  Along(bd, c)'
<1>1. phase = "read" /\ UNCHANGED writerVars /\ reader \in ReaderType
  BY DEF Refill, ReadFails, EndOfFile, Eof, Reading, ReaderTypes
<1>2. Len(file) \in Nat /\ Chain(file, bd, c, TRUE)
  BY <1>1, LenProperties DEF WriterTypes, Along
<1>3. reader.initial = 0 => ReaderAt(reader, file, bd, c)
  BY <1>1 DEF Along
<1>4. CASE Refill
  <2>1. PICK l : l = Len(file) - reader.endOffset
    OBVIOUS
  <2>2. PICK n : n = IF l < 0 THEN 0 ELSE IF l < BlockSize THEN l ELSE BlockSize
    OBVIOUS
  <2>3. /\ reader' = [reader EXCEPT !.buffer = n, !.endOffset = @ + n, !.eof = AtEnd(n)]
        /\ reader.buffer < HeaderSize /\ ~reader.eof /\ phase' = "read"
    BY <1>1, <1>4, <2>1, <2>2 DEF Refill
  <2>4. PICK q, k, b : q = reader' /\ k = reader.endOffset + n /\ b = AtEnd(n)
    OBVIOUS
  <2>5. q = [reader EXCEPT !.buffer = n, !.endOffset = k, !.eof = b]
    BY <1>1, <2>3, <2>4 DEF ReaderType
  <2>6. q.initial = reader.initial
    BY <1>1, <2>5 DEF ReaderType
  <2>7. ASSUME reader.initial = 0 PROVE ReaderAt(q, file, bd, c)
    <3>1. q = [reader EXCEPT !.buffer = n, !.endOffset = @ + n, !.eof = AtEnd(n)]
      BY <2>3, <2>4
    <3>2. ReaderAt(reader, file, bd, c)
      BY <1>3, <2>7
    <3> QED BY <1>2, <2>1, <2>2, <2>3, <3>1, <3>2, RefillAlong
  <2> QED BY <1>1, <2>3, <2>4, <2>6, <2>7, ReadsAlong
<1>5. PICK e, d : e = <<>> /\ d = [reader EXCEPT !.buffer = 0]
  OBVIOUS
<1>6. CASE EndOfFile
  <2>1. reader' = [d EXCEPT !.scratch = e, !.resyncing = FALSE] /\ phase' = "end"
    BY <1>5, <1>6 DEF EndOfFile, Eof
  <2>2. reader'.initial = reader.initial /\ reader'.reported = reader.reported
    BY <1>1, <1>5, <2>1 DEF ReaderType
  <2>3. reader.initial = 0 => ~reader.reported
    BY <1>3 DEF ReaderAt
  <2> QED BY <1>1, <2>1, <2>2, <2>3, ReadsAlong
<1>7. CASE ReadFails
  <2>1. PICK y : y = Report(d, BlockSize)
    OBVIOUS
  <2>2. PICK z : z = [y EXCEPT !.eof = TRUE, !.ioError = TRUE]
    OBVIOUS
  <2>3. reader' = [z EXCEPT !.scratch = e, !.resyncing = FALSE] /\ phase' = "end"
    BY <1>5, <1>7, <2>1, <2>2 DEF ReadFails, Eof
  <2>4. "ioError" \in DOMAIN y
    BY <1>1, <1>5, <2>1 DEF Report, ReaderType
  <2>5. reader'.ioError
    BY <2>2, <2>3, <2>4
  <2> QED BY <1>1, <2>3, <2>5, ReadsAlong
<1> QED BY <1>4, <1>6, <1>7

(* The invariant holds at first.                                           *)
LEMMA TailInit == Init => TailInv
<1> SUFFICES ASSUME Init PROVE TailInv
  OBVIOUS
<1>1. /\ phase = "write" /\ file = <<>> /\ blockOffset = 0 /\ adding = NoRecord
      /\ added = {}
  BY DEF Init
<1>2. Len(file) = 0
  BY <1>1
<1>3. PICK p, c, bd : /\ p = [off |-> 0, open |-> FALSE] /\ c = [x \in {0} |-> p]
                      /\ bd = {0}
  OBVIOUS
<1>4. p \in Place /\ p.off = 0 /\ ~p.open /\ c[0] = p
  <2>1. 0 \in 0 .. BlockSize - 1
    BY LogAssumption
  <2> QED BY <1>3, <2>1 DEF Place
<1>5. InBlock(0, 0)
  <2>1. 0 \in 0 .. BlockSize - 1 /\ 0 = BlockSize * 0 + 0
    BY LogAssumption
  <2> QED BY <2>1 DEF InBlock
<1>6. Chain(file, bd, c, FALSE)
  <2>1. bd \subseteq 0 .. Len(file) /\ 0 \in bd
    BY <1>2, <1>3
  <2>2. \A x \in bd : x = 0 /\ ~(x < Len(file))
    BY <1>2, <1>3
  <2> QED BY <1>4, <1>5, <2>1, <2>2 DEF Chain
<1>7. Wrapped(0) = 0
  BY DEF Wrapped
<1>8. WriterAt(bd, c) /\ AddedAt(bd, c)
  BY <1>1, <1>2, <1>3, <1>4, <1>7 DEF WriterAt, AddedAt
<1>9. Along(bd, c)
  BY <1>1, <1>6, <1>8 DEF Along
<1> QED BY <1>9 DEF TailInv

(* Every step keeps it.                                                    *)
LEMMA TailNext == LogInv /\ TailInv /\ [Next]_vars => TailInv'
<1> SUFFICES ASSUME LogInv, TailInv, [Next]_vars, plain' PROVE \E e, g : Along(e, g)'
  BY DEF TailInv
<1>1. plain
  BY DEF Next, vars, writerVars, AddRecord, Emit, Crash, Reopen, StartRead, ReaderStep,
         Refill, ReadFails, EndOfFile, Eof, ReadPhysicalRecord, BadLength, ZeroRecord,
         ReadRecord, Done
<1>2. PICK bd, c : Along(bd, c)
  BY <1>1 DEF TailInv
<1>3. WriterTypes /\ Len(file) \in Nat /\ (phase = "read" => ReaderTypes(reader, file))
  BY LenProperties DEF LogInv, WriterTypes, ReaderOK
<1>4. CASE UNCHANGED vars
  <2>1. /\ phase' = phase /\ file' = file /\ adding' = adding /\ added' = added
        /\ blockOffset' = blockOffset /\ reader' = reader
    BY <1>4 DEF vars, writerVars
  <2>2. WriterAt(bd, c) => WriterAt(bd, c)'
    BY <2>1 DEF WriterAt, Wrapped
  <2>3. AddedAt(bd, c)'
    BY <1>2, <2>1 DEF Along, AddedAt
  <2>4. Along(bd, c)'
    BY <1>2, <2>1, <2>2, <2>3 DEF Along
  <2> QED BY <2>4
<1>5. CASE Next
  <2>1. CASE \E n \in Sizes : AddRecord(n)
    BY <1>2, <1>3, <2>1, AddRecordAlong
  <2>2. CASE Emit(TRUE, 0)
    BY <1>2, <1>3, <2>2, EmitAlong
  <2>3. CASE \E lost \in 0 .. 2 * BlockSize : Emit(FALSE, lost)
    BY <2>3 DEF Emit
  <2>4. CASE \E keep \in 0 .. Len(file), z \in scenario.zeros : Crash(keep, z)
    BY <1>2, <1>3, <2>4, CrashAlong
  <2>5. CASE Reopen
    BY <1>2, <1>3, <2>5, ReopenAlong
  <2>6. CASE \E checksum \in BOOLEAN, initial \in scenario.initialOffsets :
               StartRead(checksum, initial)
    <3>1. scenario.initialOffsets \subseteq Nat
      <4>1. scenario \in Scenario
        BY <1>3, LogAssumption DEF WriterTypes
      <4> QED BY <4>1 DEF Scenario
    <3>2. PICK checksum \in BOOLEAN, initial \in Nat : StartRead(checksum, initial)
      BY <2>6, <3>1
    <3> QED BY <1>2, <1>3, <3>2, StartReadAlong
  <2>7. CASE Refill \/ ReadFails \/ EndOfFile
    <3>1. phase = "read"
      BY <2>7 DEF Refill, ReadFails, EndOfFile, Reading
    <3> QED BY <1>2, <1>3, <2>7, <3>1, RefillsAlong
  <2>8. CASE Reading /\ \E t \in Types, n \in Lengths : ReadPhysicalRecord(t, n)
    <3>1. phase = "read"
      BY <2>8 DEF Reading
    <3> QED BY <1>2, <1>3, <2>8, <3>1, PhysicalAlong
  <2>9. CASE Done
    BY <1>4, <2>9 DEF Done
  <2> QED BY <1>5, <2>1, <2>2, <2>3, <2>4, <2>5, <2>6, <2>7, <2>8, <2>9 DEF Next, ReaderStep
<1> QED BY <1>4, <1>5

(* What it says of what the Reader reports.                                *)
LEMMA TailInvIs == LogInv /\ TailInv => TornTailSilent
<1> SUFFICES ASSUME LogInv, TailInv, plain, reader.initial = 0, ~reader.ioError
             PROVE  ~reader.reported
  BY DEF TornTailSilent
<1>1. PICK bd, c : Along(bd, c)
  BY DEF TailInv
<1>2. CASE phase \in {"write", "down"}
  <2>1. reader = NoReader
    BY <1>2 DEF LogInv
  <2> QED BY <2>1 DEF NoReader
<1>3. CASE phase = "read"
  BY <1>1, <1>3 DEF Along, ReaderAt
<1>4. CASE phase = "end"
  BY <1>1, <1>4 DEF Along
<1> QED BY <1>2, <1>3, <1>4 DEF LogInv, WriterTypes

(* Whatever the sizes of blocks, headers and records, and wherever it is   *)
(* cut: of a file that one Writer wrote, or that a later Writer went on    *)
(* with behind complete records, a Reader of the whole of it reports       *)
(* nothing unless reading fails.                                           *)
THEOREM TornTailsAreSilent == Spec => []TornTailSilent
<1>1. Spec => [](LogInv /\ TailInv)
  <2>1. LogInv /\ TailInv /\ [Next]_vars => (LogInv /\ TailInv)'
    BY LogNext, TailNext
  <2> QED BY LogInit, TailInit, <2>1, PTL DEF Spec
<1> QED BY <1>1, TailInvIs, PTL
=============================================================================
