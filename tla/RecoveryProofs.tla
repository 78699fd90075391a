--------------------------- MODULE RecoveryProofs ---------------------------
(***************************************************************************)
(* Proofs about module Recovery, for every buffer size and for behaviours  *)
(* of any length: whatever crashes, and whatever operations on tables,     *)
(* MANIFESTs and CURRENT fail, an open database has its tables and the     *)
(* writes it owes, and tells sequence numbers apart.  The theorems assume  *)
(* that no operation on a log fails, since the code may then lose writes   *)
(* (see excused), and that with reuse_logs neither the machine crashes nor *)
(* any operation fails (RecoveryReuseReboot.cfg shows why).                *)
(*                                                                         *)
(* The invariant speaks of the versions that a crash in this moment may    *)
(* leave on disk: one for every length of the current MANIFEST that may    *)
(* survive.  Each of them is complete: its tables are on disk and nobody   *)
(* is about to remove them, and with the logs it does not give up it       *)
(* reaches all that must not be lost.  While the database is in use each   *)
(* of them reaches exactly the contents.                                   *)
(***************************************************************************)
EXTENDS Recovery, FiniteSetTheorems, SequenceTheorems, NaturalsInduction, TLAPS

-----------------------------------------------------------------------------
(* What files hold.                                                        *)

Ents(T, F) == UNION {T[n].ents : n \in F}
RecsOf(f) == {f.recs[i] : i \in DOMAIN f.recs}
SyncedOf(f) == {f.recs[i] : i \in 1 .. f.synced}
From(L, n) == {m \in DOMAIN L : m >= n}
LogRecs(L, n) == UNION {RecsOf(L[m]) : m \in From(L, n)}
SyncedRecs(L, n) == UNION {SyncedOf(L[m]) : m \in From(L, n)}
Distinct(E) == \A q, r \in E : q.seq = r.seq => q = r
UpTo(E, s) == \A r \in E : r.seq <= s

(* The version that Recover finds in a MANIFEST of these records, and      *)
(* those that may be found after a crash.                                  *)
Found(recs) ==
  LET e == recs[Len(recs)]
  IN [files |-> FilesAfter(recs), log |-> e.log, next |-> e.next,
      seq |-> e.seq, numbers |-> e.hasNumbers]
Lengths(f, reboots) == IF reboots THEN f.synced .. Len(f.recs) ELSE {Len(f.recs)}
FoundIn(f, reboots) ==
  {Found(SubSeq(f.recs, 1, k)) : k \in Lengths(f, reboots)}

Latest == Found(manifests[current].recs)
Versions == FoundIn(manifests[current], scenario.reboots)

Reach(v) == Ents(tables, v.files) \cup LogRecs(logs, v.log)

(* A version after one more edit.                                          *)
Applied(F, e) ==
  [files |-> (F \ e.del) \cup e.add, log |-> e.log, next |-> e.next,
   seq |-> e.seq, numbers |-> e.hasNumbers]

-----------------------------------------------------------------------------
(* Types.                                                                  *)

Rec(n) == [seq : 0 .. n, id : Nat]
LogFile(n) == {f \in [recs : Seq(Rec(n)), synced : Nat] : f.synced <= Len(f.recs)}
TableFile(n) == [ents : SUBSET Rec(n), whole : BOOLEAN]
EditRec(n) ==
  [add : SUBSET Nat, del : SUBSET Nat, hasNumbers : BOOLEAN, log : Nat,
   next : Nat, seq : 0 .. n]
ManifestFile(n) ==
  {f \in [recs : Seq(EditRec(n)), synced : Nat] : f.synced <= Len(f.recs)}

Numbering(f, S) == f \in [DOMAIN f -> S] /\ DOMAIN f \subseteq Nat

DiskTypes ==
  /\ scenario \in Scenario /\ ids \in Nat
  /\ Numbering(logs, LogFile(ids))
  /\ Numbering(tables, TableFile(ids))
  /\ Numbering(manifests, ManifestFile(ids))
  /\ current \in Nat

ProcessTypes ==
  /\ pc \in {"closed", "newdb", "logs", "saving", "clean", "open", "failed",
             "corrupt"}
  /\ vs \in [files : SUBSET Nat, log : Nat, next : Nat, manifest : Nat,
             seq : 0 .. ids, desc : BOOLEAN]
  /\ opening \in [todo : SUBSET Nat, add : SUBSET Nat, save : BOOLEAN,
                  maxSeq : 0 .. ids, hasMem : BOOLEAN]
  /\ logNumber \in Nat
  /\ mem \subseteq Rec(ids) /\ imm \subseteq Rec(ids)
  /\ hasImm \in BOOLEAN /\ bgError \in BOOLEAN
  /\ pending \subseteq Nat /\ flush \in Nat
  /\ compaction \in [inputs : SUBSET Nat, outs : SUBSET Nat, out : Nat,
                     left : SUBSET Rec(ids)]
  /\ saving # NotSaving =>
       saving \in [who : {"open", "flush", "compact"}, edit : EditRec(ids),
                   logged : BOOLEAN]
  /\ garbage \in [tables : SUBSET Nat, logs : SUBSET Nat,
                  manifests : SUBSET Nat]
  /\ iters \subseteq SUBSET Nat

Types == DiskTypes /\ ProcessTypes

-----------------------------------------------------------------------------
(* The disk.                                                               *)

(* Operations on logs do not fail; and where a MANIFEST is used again the  *)
(* machine does not crash and no operation fails.                          *)
Sound ==
  /\ ~scenario.logErrors
  /\ scenario.reuseLogs => ~scenario.reboots /\ ~scenario.ioErrors

(* Nobody removes these tables, and all that comes is younger.             *)
Held(F, next) ==
  \A f \in F : /\ f \in DOMAIN tables /\ tables[f].whole
               /\ f \notin garbage.tables /\ f < next

(* These tables and logs have all that must be found again, after a crash  *)
(* of the process or of the machine.                                       *)
Covers(F, n) ==
  /\ required \subseteq IdsOf(Ents(tables, F) \cup LogRecs(logs, n))
  /\ scenario.reboots =>
       required \cap synced \subseteq
         IdsOf(Ents(tables, F) \cup SyncedRecs(logs, n))

VersionOK(v) ==
  /\ v.numbers /\ current < v.next /\ v.log < v.next /\ v.next <= Latest.next
  /\ Held(v.files, v.next)
  /\ UpTo(Ents(tables, v.files), v.seq)
  /\ Distinct(Reach(v))
  /\ Covers(v.files, v.log)

NoDatabase ==
  /\ DOMAIN logs = {} /\ DOMAIN tables = {} /\ required = {}
  /\ pc \in {"closed", "newdb", "failed"}
  /\ pc = "newdb" =>
       /\ 1 \in DOMAIN manifests
       /\ manifests[1] =
            [recs |-> <<[add |-> {}, del |-> {}, hasNumbers |-> TRUE,
                         log |-> 0, next |-> 2, seq |-> 0]>>, synced |-> 0]

Database ==
  /\ pc # "newdb"
  /\ current \in DOMAIN manifests /\ current \notin garbage.manifests
  /\ manifests[current].recs # <<>>
  /\ scenario.reboots => manifests[current].synced >= 1
  /\ \A v \in Versions : VersionOK(v)

DiskOK == IF current = 0 THEN NoDatabase ELSE Database

-----------------------------------------------------------------------------
(* DB::Open.                                                               *)

(* What belongs to no step of Open is not under way.                       *)
Quiet ==
  /\ pc # "open" =>
       /\ imm = {} /\ ~hasImm /\ pending = {} /\ flush = NoTable
       /\ compaction = NoCompaction /\ ~bgError /\ iters = {}
  /\ pc \notin {"saving", "open"} => saving = NotSaving
  /\ pc \notin {"clean", "open"} => garbage = NoGarbage
  /\ pc \in {"closed", "newdb"} => mem = {}
  /\ pc = "saving" => saving # NotSaving /\ saving.who = "open"
  /\ pc = "open" => saving = NotSaving \/ saving.who \in {"flush", "compact"}

(* The MANIFEST that the process is going to write.                        *)
ManifestChosen ==
  /\ current # 0
  /\ IF vs.desc THEN vs.manifest = current /\ scenario.reuseLogs
     ELSE current < vs.manifest /\ vs.manifest < vs.next /\ opening.save
  /\ vs.log < vs.next
  /\ Held(opening.add, vs.next)
  /\ Ents(tables, opening.add) \subseteq LogRecs(logs, vs.log)

(* RecoverLogFile has turned every log into tables or the memtable, in     *)
(* the order of their numbers.                                             *)
Read(n) ==
  /\ \A m \in opening.todo : n < m
  /\ UpTo(RecsOf(logs[n]), opening.maxSeq)
  /\ \/ RecsOf(logs[n]) \subseteq Ents(tables, opening.add)
     \/ opening.hasMem /\ n = logNumber

Reading ==
  /\ ManifestChosen
  /\ vs.files = Latest.files /\ vs.log = Latest.log /\ vs.seq = Latest.seq
  /\ Latest.next < vs.next
  /\ opening.todo \subseteq From(logs, vs.log)
  /\ \A n \in DOMAIN logs : n \in opening.todo \/ n < vs.next
  /\ \A n \in From(logs, vs.log) : n \in opening.todo \/ Read(n)
  /\ ~opening.save => opening.add = {}
  /\ IF opening.hasMem
     THEN /\ opening.todo = {} /\ logNumber \in From(logs, vs.log)
          /\ \A n \in From(logs, vs.log) : n <= logNumber
          /\ mem = RecsOf(logs[logNumber])
          /\ scenario.reuseLogs
     ELSE mem = {}
ReadingOK == pc = "logs" => Reading

(* The log in use: the youngest, with the memtable's records.              *)
LogInUse ==
  /\ logNumber \in From(logs, vs.log) /\ mem = RecsOf(logs[logNumber])
  /\ \A n \in DOMAIN logs : n < vs.next

SavingAtOpen ==
  /\ ManifestChosen
  /\ LogInUse
  /\ \A n \in From(logs, vs.log) :
       /\ n <= logNumber
       /\ n = logNumber \/ RecsOf(logs[n]) \subseteq Ents(tables, opening.add)
  /\ saving.edit = [add |-> opening.add, del |-> {}, hasNumbers |-> TRUE,
                    log |-> logNumber, next |-> vs.next, seq |-> vs.seq]
  /\ Held(vs.files, vs.next)
  /\ UpTo(Ents(tables, vs.files \cup opening.add) \cup mem, vs.seq)
  /\ Distinct(Ents(tables, vs.files \cup opening.add) \cup mem)
  /\ Covers(vs.files \cup opening.add, logNumber)
  /\ Latest.next <= vs.next
  /\ IF saving.logged /\ vs.desc THEN Latest = Applied(vs.files, saving.edit)
     ELSE vs.files = Latest.files /\ vs.log = Latest.log
  /\ saving.logged /\ ~vs.desc =>
       /\ vs.manifest \in DOMAIN manifests
       /\ manifests[vs.manifest].recs = <<SnapshotEdit, saving.edit>>
SavingOK == pc = "saving" => SavingAtOpen

-----------------------------------------------------------------------------
(* The database in use.                                                    *)

Running == pc \in {"clean", "open"}

(* A MANIFEST is torn by the process that made it, which then has an error *)
(* and removes no files; no record is torn in a log.                       *)
Missed == current \in torn.behind
TornOK ==
  /\ torn \in [logs : SUBSET Nat, manifests : SUBSET Nat, behind : SUBSET Nat]
  /\ torn.logs = {} /\ excused = {}
  /\ torn.behind \subseteq torn.manifests
  /\ \A n \in torn.manifests : n <= current
  /\ scenario.reuseLogs => torn.manifests = {}
  /\ Running /\ current \in torn.manifests => bgError
  /\ Running /\ Missed => garbage = NoGarbage

(* What the versions on disk have to do with the one in use.  Once edits   *)
(* were logged behind a torn record they stay where they are.              *)
Behind(v) ==
  /\ v.log <= logNumber /\ v.next <= vs.next
  /\ Reach(v) = Contents
  /\ ~Missed =>
       /\ vs.log <= v.log
       /\ Ents(tables, vs.files) \subseteq Ents(tables, v.files)

(* The files of the version once the edit under way is installed.          *)
Target ==
  IF saving # NotSaving /\ saving.logged
  THEN (vs.files \ saving.edit.del) \cup saving.edit.add
  ELSE vs.files

InUse ==
  /\ current # 0 /\ vs.manifest = current /\ vs.desc
  /\ LogInUse
  /\ Held(vs.files \cup UNION iters, vs.next)
  /\ \A n \in garbage.logs : n < vs.log
  /\ \A n \in From(logs, vs.log) :
       n = logNumber \/ RecsOf(logs[n]) \subseteq imm \cup Ents(tables, vs.files)
  /\ imm \subseteq LogRecs(logs, vs.log)
  /\ UpTo(Contents, vs.seq)
  /\ \A v \in Versions : Behind(v)
  /\ ~bgError => Latest.files \subseteq Target
RunningOK == Running => InUse

Cleaning ==
  /\ garbage = Obsolete(vs, {})
  /\ \A n \in From(logs, vs.log) : n = logNumber \/ logs[n].recs = <<>>
CleanOK == pc = "clean" => Cleaning

(* The background thread.                                                  *)
FlushOK ==
  flush # NoTable =>
    /\ hasImm /\ garbage = NoGarbage
    /\ saving # NotSaving => saving.who = "flush"
    /\ saving = NotSaving =>
         /\ flush < vs.next /\ flush \notin vs.files \cup UNION iters
         /\ \A v \in Versions : flush \notin v.files
         /\ Compacting => flush \notin Outputs(compaction)

CompactionOK ==
  Compacting =>
    /\ compaction.inputs \subseteq vs.files
    /\ \A n \in Outputs(compaction) :
         /\ n \in DOMAIN tables /\ n \in pending /\ n < vs.next
         /\ n \notin garbage.tables
    /\ \A n \in compaction.outs : tables[n].whole
    /\ saving.who # "compact" =>
         /\ Ents(tables, compaction.inputs)
              = Ents(tables, compaction.outs) \cup compaction.left
         /\ compaction.out \notin vs.files \cup compaction.outs \cup UNION iters
         /\ \A v \in Versions : compaction.out \notin v.files

EditOK ==
  pc = "open" /\ saving # NotSaving =>
    LET e == saving.edit
    IN /\ garbage = NoGarbage
       /\ e.hasNumbers /\ e.next <= vs.next /\ e.log < e.next
       /\ Held(e.add, e.next) /\ UpTo(Ents(tables, e.add), e.seq)
       /\ \A v \in Versions : /\ v.next <= e.next
                              /\ UpTo(Ents(tables, v.files), e.seq)
       /\ saving.logged /\ ~Missed =>
            e.add \subseteq Latest.files /\ Latest.log = e.log
       /\ \/ /\ saving.who = "flush" /\ flush # NoTable
             /\ e.del = {} /\ e.log = logNumber /\ Ents(tables, e.add) = imm
             /\ Compacting => compaction.out \notin e.add
          \/ /\ saving.who = "compact" /\ Compacting /\ flush = NoTable
             /\ e.add = Outputs(compaction) /\ e.del = compaction.inputs
             /\ e.log = vs.log
             /\ Ents(tables, e.add) = Ents(tables, e.del)

ImmOK == ~hasImm => imm = {}

IInv ==
  /\ DiskOK /\ Quiet /\ ReadingOK /\ SavingOK
  /\ RunningOK /\ CleanOK /\ FlushOK /\ CompactionOK /\ EditOK /\ ImmOK

Inv == Sound /\ Types /\ TornOK /\ IInv /\ synced \subseteq 0 .. ids

-----------------------------------------------------------------------------
(* Numbers.                                                                *)

(* A set of natural numbers has a least member, and Min is it.             *)
LEMMA MinIsLeast ==
  ASSUME NEW S \in SUBSET Nat, S # {}
  PROVE  Min(S) \in S /\ \A x \in S : Min(S) <= x
<1>1. PICK x \in S : \A y \in S : ~(<<y, x>> \in OpToRel(<, Nat))
  BY NatLessThanWellFounded, WFMin, Zenon
<1>2. \A y \in S : ~(y < x)
  BY <1>1 DEF OpToRel
<1>3. \A y \in S : x <= y
  BY <1>2
<1> QED BY <1>3 DEF Min

(* A bounded set of natural numbers has a greatest member, and Max is it.  *)
LEMMA MaxIsGreatest ==
  ASSUME NEW S \in SUBSET Nat, S # {}, NEW b \in Nat, \A x \in S : x <= b
  PROVE  Max(S) \in S /\ \A x \in S : x <= Max(S)
<1> DEFINE B == {n \in Nat : \A x \in S : x <= n}
<1>1. B \in SUBSET Nat /\ B # {}
  OBVIOUS
<1>2. PICK m \in B : \A n \in B : m <= n
  <2>1. Min(B) \in B /\ \A n \in B : Min(B) <= n
    BY <1>1, MinIsLeast
  <2> QED BY <2>1
<1>3. m \in S
  <2>1. SUFFICES ASSUME m \notin S PROVE FALSE
    OBVIOUS
  <2>2. \A x \in S : x <= m /\ x # m
    BY <2>1
  <2>3. \A x \in S : x <= m - 1 /\ x \in Nat
    BY <2>2
  <2>4. m - 1 \in Nat
    <3>1. PICK x \in S : TRUE
      OBVIOUS
    <3> QED BY <3>1, <2>3
  <2>5. m - 1 \in B
    BY <2>3, <2>4
  <2> QED BY <2>5, <1>2
<1>4. \A x \in S : m >= x
  OBVIOUS
<1>5. \E x \in S : \A y \in S : x >= y
  BY <1>3, <1>4
<1>6. Max(S) \in S /\ \A x \in S : Max(S) >= x
  BY <1>5 DEF Max
<1> QED BY <1>6

(* Division does not change the order.                                     *)
LEMMA DivMonotone ==
  ASSUME NEW a \in Nat, NEW b \in Nat, a <= b, NEW d \in Nat \ {0}
  PROVE  a \div d \in Nat /\ b \div d \in Nat /\ a \div d <= b \div d
<1> DEFINE p == a \div d
           q == b \div d
<1>1. p \in Nat /\ q \in Nat
  OBVIOUS
<1>2. d * p <= a /\ a < d * (p + 1) /\ d * q <= b /\ b < d * (q + 1)
  OBVIOUS
<1> QED BY <1>1, <1>2

-----------------------------------------------------------------------------
(* Sequences and the edits of a MANIFEST.                                  *)

(* The beginning of a longer sequence.                                     *)
LEMMA PrefixOfAppend ==
  ASSUME NEW S, NEW s \in Seq(S), NEW e \in S, NEW k \in 0 .. Len(s)
  PROVE  SubSeq(Append(s, e), 1, k) = SubSeq(s, 1, k)
<1>1. Append(s, e) \in Seq(S) /\ Len(Append(s, e)) = Len(s) + 1
      /\ \A i \in 1 .. Len(s) : Append(s, e)[i] = s[i]
  OBVIOUS
<1>2. \A i \in 1 .. k : s[i] \in S /\ Append(s, e)[i] = s[i] /\ Append(s, e)[i] \in S
  BY <1>1
<1>3. SubSeq(s, 1, k) \in Seq(S) /\ Len(SubSeq(s, 1, k)) = k
      /\ \A i \in 1 .. k : SubSeq(s, 1, k)[i] = s[i]
  <2>1. \A i \in 1 .. k : s[i] \in S
    BY <1>2
  <2> QED BY <2>1, SubSeqProperties
<1>4. SubSeq(Append(s, e), 1, k) \in Seq(S) /\ Len(SubSeq(Append(s, e), 1, k)) = k
      /\ \A i \in 1 .. k : SubSeq(Append(s, e), 1, k)[i] = Append(s, e)[i]
  <2>1. \A i \in 1 .. k : Append(s, e)[i] \in S
    BY <1>2
  <2> QED BY <2>1, SubSeqProperties
<1> QED BY <1>2, <1>3, <1>4

(* The beginning of a sequence is one.                                     *)
LEMMA PrefixFacts ==
  ASSUME NEW S, NEW s \in Seq(S), NEW k \in 0 .. Len(s)
  PROVE  /\ SubSeq(s, 1, k) \in Seq(S) /\ Len(SubSeq(s, 1, k)) = k
         /\ \A i \in 1 .. k : SubSeq(s, 1, k)[i] = s[i]
<1>1. \A i \in 1 .. k : s[i] \in S
  OBVIOUS
<1> QED BY <1>1, SubSeqProperties

(* Builder applies one edit more.                                          *)
LEMMA FilesAfterAppend ==
  ASSUME NEW n \in Nat, NEW recs \in Seq(EditRec(n)), NEW e \in EditRec(n)
  PROVE  FilesAfter(Append(recs, e)) = (FilesAfter(recs) \ e.del) \cup e.add
<1> DEFINE all == Append(recs, e)
           Later(s, i) == UNION {s[j].del : j \in i + 1 .. Len(s)}
<1>1. Len(recs) \in Nat /\ Len(all) = Len(recs) + 1
      /\ DOMAIN recs = 1 .. Len(recs) /\ DOMAIN all = 1 .. Len(recs) + 1
      /\ all[Len(recs) + 1] = e
      /\ \A i \in 1 .. Len(recs) : all[i] = recs[i]
  OBVIOUS
<1> HIDE DEF all
<1>2. Later(all, Len(recs) + 1) = {}
  BY <1>1
<1>3. ASSUME NEW i \in 1 .. Len(recs)
      PROVE  Later(all, i) = Later(recs, i) \cup e.del
  <2>1. i + 1 .. Len(all) = (i + 1 .. Len(recs)) \cup {Len(recs) + 1}
    BY <1>1
  <2>2. \A j \in i + 1 .. Len(recs) : all[j] = recs[j]
    BY <1>1
  <2> QED BY <2>1, <2>2, <1>1
<1>4. FilesAfter(recs) = UNION {recs[i].add \ Later(recs, i) : i \in 1 .. Len(recs)}
  BY <1>1 DEF FilesAfter
<1>5. FilesAfter(all) = UNION {all[i].add \ Later(all, i) : i \in 1 .. Len(recs) + 1}
  BY <1>1 DEF FilesAfter
<1> HIDE DEF Later
<1>6. ASSUME NEW i \in 1 .. Len(recs)
      PROVE  all[i].add \ Later(all, i) = (recs[i].add \ Later(recs, i)) \ e.del
  BY <1>1, <1>3
<1>7. all[Len(recs) + 1].add \ Later(all, Len(recs) + 1) = e.add
  BY <1>1, <1>2
<1>8. \A x : x \in FilesAfter(all) <=>
               \/ \E i \in 1 .. Len(recs) : x \in all[i].add \ Later(all, i)
               \/ x \in all[Len(recs) + 1].add \ Later(all, Len(recs) + 1)
  <2>1. 1 .. Len(recs) + 1 = (1 .. Len(recs)) \cup {Len(recs) + 1}
    BY <1>1
  <2> QED BY <2>1, <1>5
<1>9. \A x : x \in FilesAfter(recs) <=>
               \E i \in 1 .. Len(recs) : x \in recs[i].add \ Later(recs, i)
  BY <1>4
<1>10. \A x : x \in FilesAfter(all) <=> x \in (FilesAfter(recs) \ e.del) \cup e.add
  BY <1>6, <1>7, <1>8, <1>9
<1> QED BY <1>10 DEF all
(* The records on disk are of one type, whatever was added since.          *)
LEMMA MoreIds ==
  ASSUME NEW m \in Nat, NEW n \in Nat, m <= n
  PROVE  /\ Rec(m) \subseteq Rec(n) /\ EditRec(m) \subseteq EditRec(n)
         /\ LogFile(m) \subseteq LogFile(n) /\ TableFile(m) \subseteq TableFile(n)
         /\ ManifestFile(m) \subseteq ManifestFile(n)
<1>1. 0 .. m \subseteq 0 .. n
  OBVIOUS
<1>2. Rec(m) \subseteq Rec(n) /\ EditRec(m) \subseteq EditRec(n)
  BY <1>1 DEF Rec, EditRec
<1>3. Seq(Rec(m)) \subseteq Seq(Rec(n)) /\ Seq(EditRec(m)) \subseteq Seq(EditRec(n))
  BY <1>2
<1>4. LogFile(m) \subseteq LogFile(n) /\ ManifestFile(m) \subseteq ManifestFile(n)
  BY <1>3 DEF LogFile, ManifestFile
<1>5. TableFile(m) \subseteq TableFile(n)
  BY <1>2 DEF TableFile
<1> QED BY <1>2, <1>4, <1>5

(* A record is appended, the file is synced.                               *)
LEMMA FileSteps ==
  ASSUME NEW S, NEW f \in [recs : Seq(S), synced : Nat], NEW e
  PROVE  /\ Appended(f, e) = [recs |-> Append(f.recs, e), synced |-> f.synced]
         /\ Synced(f) = [recs |-> f.recs, synced |-> Len(f.recs)]
<1>1. ASSUME NEW q
      PROVE  [f EXCEPT !.recs = q] = [recs |-> q, synced |-> f.synced]
  OBVIOUS
<1>2. Appended(f, e) = [f EXCEPT !.recs = Append(f.recs, e)]
  BY DEF Appended
<1>3. Synced(f) = [recs |-> f.recs, synced |-> Len(f.recs)]
  BY DEF Synced
<1> QED BY <1>1, <1>2, <1>3

(* A cut file.                                                             *)
LEMMA CutFacts ==
  ASSUME NEW S, NEW f \in [recs : Seq(S), synced : Nat], f.synced <= Len(f.recs),
         NEW k \in f.synced .. Len(f.recs)
  PROVE  /\ Cut(f, k) \in [recs : Seq(S), synced : Nat]
         /\ Cut(f, k).recs = SubSeq(f.recs, 1, k) /\ Cut(f, k).synced = k
         /\ Len(Cut(f, k).recs) = k
         /\ \A i \in 1 .. k : Cut(f, k).recs[i] = f.recs[i]
<1>1. k \in 0 .. Len(f.recs) /\ k \in Nat
  OBVIOUS
<1>2. SubSeq(f.recs, 1, k) \in Seq(S) /\ Len(SubSeq(f.recs, 1, k)) = k
      /\ \A i \in 1 .. k : SubSeq(f.recs, 1, k)[i] = f.recs[i]
  BY <1>1, PrefixFacts
<1> QED BY <1>1, <1>2 DEF Cut

(* A file loses what follows some record that is not before its last Sync. *)
LEMMA CutFilesFacts ==
  ASSUME NEW F, NEW G \in CutFiles(F)
  PROVE  /\ DOMAIN G = DOMAIN F
         /\ \A n \in DOMAIN F :
              \E k \in F[n].synced .. Len(F[n].recs) : G[n] = Cut(F[n], k)
         /\ G = [n \in DOMAIN F |-> G[n]]
<1>1. PICK len \in {len \in [DOMAIN F -> 0 .. Max({0} \cup {Len(F[n].recs) : n \in DOMAIN F})] :
                      \A n \in DOMAIN F : len[n] \in F[n].synced .. Len(F[n].recs)} :
        G = [n \in DOMAIN F |-> Cut(F[n], len[n])]
  BY DEF CutFiles
<1> QED BY <1>1

-----------------------------------------------------------------------------
(* What Recover may find in a MANIFEST.                                    *)

(* In the whole MANIFEST it finds the last edit applied to what is before. *)
LEMMA FoundAppend ==
  ASSUME NEW n \in Nat, NEW recs \in Seq(EditRec(n)), NEW e \in EditRec(n)
  PROVE  Found(Append(recs, e)) = Applied(FilesAfter(recs), e)
<1>1. Len(Append(recs, e)) = Len(recs) + 1 /\ Append(recs, e)[Len(recs) + 1] = e
  OBVIOUS
<1>2. FilesAfter(Append(recs, e)) = (FilesAfter(recs) \ e.del) \cup e.add
  BY FilesAfterAppend
<1> QED BY <1>1, <1>2 DEF Found, Applied

(* The whole MANIFEST is among what may be found.                          *)
LEMMA LatestIsFound ==
  ASSUME NEW n \in Nat, NEW f \in ManifestFile(n), NEW reboots \in BOOLEAN
  PROVE  Found(f.recs) \in FoundIn(f, reboots)
<1>1. f.recs \in Seq(EditRec(n)) /\ f.synced \in Nat /\ f.synced <= Len(f.recs)
  BY DEF ManifestFile
<1>2. Len(f.recs) \in Lengths(f, reboots)
  BY <1>1 DEF Lengths
<1>3. SubSeq(f.recs, 1, Len(f.recs)) = f.recs
  BY <1>1, SubSeqFull
<1>4. Found(SubSeq(f.recs, 1, Len(f.recs))) \in FoundIn(f, reboots)
  BY <1>2 DEF FoundIn
<1> QED BY <1>3, <1>4

(* One record more adds one version at most.                               *)
LEMMA FoundInAppended ==
  ASSUME NEW n \in Nat, NEW f \in ManifestFile(n), NEW e \in EditRec(n),
         NEW reboots \in BOOLEAN
  PROVE  /\ Found(Appended(f, e).recs) = Applied(Found(f.recs).files, e)
         /\ FoundIn(Appended(f, e), reboots)
              \subseteq FoundIn(f, reboots) \cup {Applied(Found(f.recs).files, e)}
<1>1. f \in [recs : Seq(EditRec(n)), synced : Nat] /\ f.synced <= Len(f.recs)
  BY DEF ManifestFile
<1>2. Appended(f, e).recs = Append(f.recs, e) /\ Appended(f, e).synced = f.synced
  BY <1>1, FileSteps
<1>3. f.recs \in Seq(EditRec(n)) /\ f.synced \in Nat /\ Len(f.recs) \in Nat
      /\ Len(Append(f.recs, e)) = Len(f.recs) + 1
  BY <1>1
<1>4. Found(Append(f.recs, e)) = Applied(Found(f.recs).files, e)
  <2>1. Found(f.recs).files = FilesAfter(f.recs)
    BY DEF Found
  <2> QED BY <2>1, <1>3, FoundAppend
<1>5. ASSUME NEW v \in FoundIn(Appended(f, e), reboots)
      PROVE  v \in FoundIn(f, reboots) \/ v = Found(Append(f.recs, e))
  <2>1. PICK k \in Lengths(Appended(f, e), reboots) :
          v = Found(SubSeq(Appended(f, e).recs, 1, k))
    BY DEF FoundIn
  <2>2. CASE k = Len(f.recs) + 1
    <3>1. Append(f.recs, e) \in Seq(EditRec(n))
      BY <1>3
    <3>2. SubSeq(Append(f.recs, e), 1, Len(Append(f.recs, e))) = Append(f.recs, e)
      BY <3>1, SubSeqFull
    <3> QED BY <3>2, <2>1, <2>2, <1>2, <1>3
  <2>3. CASE k # Len(f.recs) + 1
    <3>1. k \in Lengths(f, reboots) /\ k \in 0 .. Len(f.recs)
      BY <2>1, <2>3, <1>2, <1>3 DEF Lengths
    <3>2. SubSeq(Append(f.recs, e), 1, k) = SubSeq(f.recs, 1, k)
      BY <3>1, <1>3, PrefixOfAppend
    <3> QED BY <3>1, <3>2, <2>1, <1>2 DEF FoundIn
  <2> QED BY <2>2, <2>3
<1> QED BY <1>2, <1>4, <1>5

(* Sync leaves one version.                                                *)
LEMMA FoundInSynced ==
  ASSUME NEW n \in Nat, NEW f \in ManifestFile(n), NEW reboots \in BOOLEAN
  PROVE  /\ Synced(f) \in ManifestFile(n) /\ Synced(f).recs = f.recs
         /\ Synced(f).synced = Len(f.recs)
         /\ FoundIn(Synced(f), reboots) = {Found(f.recs)}
<1>1. f \in [recs : Seq(EditRec(n)), synced : Nat] /\ f.synced <= Len(f.recs)
  BY DEF ManifestFile
<1>2. Len(f.recs) \in Nat /\ f.recs \in Seq(EditRec(n))
  BY <1>1
<1>3. Synced(f) = [recs |-> f.recs, synced |-> Len(f.recs)]
  BY <1>1 DEF Synced
<1>4. Lengths(Synced(f), reboots) = {Len(f.recs)}
  BY <1>2, <1>3 DEF Lengths
<1>5. SubSeq(f.recs, 1, Len(f.recs)) = f.recs
  BY <1>2, SubSeqFull
<1>6. FoundIn(Synced(f), reboots) = {Found(f.recs)}
  <2>1. Synced(f).recs = f.recs
    BY <1>3
  <2>2. FoundIn(Synced(f), reboots)
          = {Found(SubSeq(f.recs, 1, k)) : k \in {Len(f.recs)}}
    BY <2>1, <1>4, Zenon DEF FoundIn
  <2>3. {Found(SubSeq(f.recs, 1, k)) : k \in {Len(f.recs)}} = {Found(f.recs)}
    BY <1>5
  <2> QED BY <2>2, <2>3
<1> QED BY <1>2, <1>3, <1>6 DEF ManifestFile

(* A crash of the machine leaves one version, of those that may be found.  *)
LEMMA FoundInCut ==
  ASSUME NEW n \in Nat, NEW f \in ManifestFile(n),
         NEW k \in f.synced .. Len(f.recs)
  PROVE  /\ Cut(f, k) \in ManifestFile(n)
         /\ Found(Cut(f, k).recs) \in FoundIn(f, TRUE)
         /\ FoundIn(Cut(f, k), TRUE) = {Found(Cut(f, k).recs)}
         /\ Cut(f, k).synced = k /\ Len(Cut(f, k).recs) = k
<1>1. f \in [recs : Seq(EditRec(n)), synced : Nat] /\ f.synced <= Len(f.recs)
  BY DEF ManifestFile
<1>2. /\ Cut(f, k) \in [recs : Seq(EditRec(n)), synced : Nat]
      /\ Cut(f, k).recs = SubSeq(f.recs, 1, k) /\ Cut(f, k).synced = k
      /\ Len(Cut(f, k).recs) = k
  <2>1. ASSUME NEW S, f \in [recs : Seq(S), synced : Nat]
        PROVE  /\ Cut(f, k) \in [recs : Seq(S), synced : Nat]
               /\ Cut(f, k).recs = SubSeq(f.recs, 1, k) /\ Cut(f, k).synced = k
               /\ Len(Cut(f, k).recs) = k
    BY <1>1, <2>1, CutFacts
  <2> QED BY <1>1, <2>1, Zenon
<1>3. k \in Nat
  BY <1>1
<1>4. Cut(f, k) \in ManifestFile(n)
  BY <1>2, <1>3 DEF ManifestFile
<1>5. Found(Cut(f, k).recs) \in FoundIn(f, TRUE)
  <2>1. k \in Lengths(f, TRUE)
    BY DEF Lengths
  <2> QED BY <2>1, <1>2 DEF FoundIn
<1>6. FoundIn(Cut(f, k), TRUE) = {Found(Cut(f, k).recs)}
  <2>1. Lengths(Cut(f, k), TRUE) = {k}
    BY <1>2, <1>3 DEF Lengths
  <2>2. Cut(f, k).recs \in Seq(EditRec(n))
    BY <1>2
  <2>3. SubSeq(Cut(f, k).recs, 1, k) = Cut(f, k).recs
    BY <2>2, <1>2, SubSeqFull
  <2> QED BY <2>1, <2>3 DEF FoundIn
<1> QED BY <1>2, <1>4, <1>5, <1>6
-----------------------------------------------------------------------------
(* Every step keeps the types.                                             *)

(* A file is created or replaced.                                          *)
LEMMA WithFacts ==
  ASSUME NEW S, NEW f, Numbering(f, S), NEW n \in Nat, NEW v \in S
  PROVE  /\ Numbering(With(f, n, v), S)
         /\ DOMAIN With(f, n, v) = DOMAIN f \cup {n}
         /\ With(f, n, v)[n] = v
         /\ \A m \in DOMAIN f : m # n => With(f, n, v)[m] = f[m]
BY DEF With, Numbering

(* Files are removed.                                                      *)
LEMMA WithoutFacts ==
  ASSUME NEW S, NEW f, Numbering(f, S), NEW R
  PROVE  /\ Numbering(Without(f, R), S)
         /\ DOMAIN Without(f, R) = DOMAIN f \ R
         /\ \A m \in DOMAIN f \ R : Without(f, R)[m] = f[m]
BY DEF Without, Numbering

(* What is written to logs, tables and MANIFESTs has the types.            *)
LEMMA FileTypes ==
  ASSUME NEW n \in Nat
  PROVE  /\ EmptyFile \in LogFile(n) /\ EmptyFile \in ManifestFile(n)
         /\ \A f \in LogFile(n), r \in Rec(n) :
              Appended(f, r) \in LogFile(n) /\ Synced(f) \in LogFile(n)
         /\ \A f \in ManifestFile(n), e \in EditRec(n) :
              Appended(f, e) \in ManifestFile(n) /\ Synced(f) \in ManifestFile(n)
<1>1. EmptyFile \in LogFile(n) /\ EmptyFile \in ManifestFile(n)
  <2>1. <<>> \in Seq(Rec(n)) /\ <<>> \in Seq(EditRec(n)) /\ Len(<<>>) = 0
    OBVIOUS
  <2> QED BY <2>1 DEF EmptyFile, LogFile, ManifestFile
<1>2. ASSUME NEW S, NEW f \in [recs : Seq(S), synced : Nat],
             f.synced <= Len(f.recs), NEW e \in S
      PROVE  /\ Appended(f, e) \in [recs : Seq(S), synced : Nat]
             /\ Appended(f, e).synced <= Len(Appended(f, e).recs)
             /\ Synced(f) \in [recs : Seq(S), synced : Nat]
             /\ Synced(f).synced <= Len(Synced(f).recs)
  <2>1. /\ Appended(f, e) = [recs |-> Append(f.recs, e), synced |-> f.synced]
        /\ Synced(f) = [recs |-> f.recs, synced |-> Len(f.recs)]
    BY FileSteps
  <2>2. Append(f.recs, e) \in Seq(S) /\ Len(Append(f.recs, e)) = Len(f.recs) + 1
        /\ Len(f.recs) \in Nat
    OBVIOUS
  <2>3. PICK q : q = Append(f.recs, e)
    OBVIOUS
  <2>4. PICK m : m = Len(f.recs)
    OBVIOUS
  <2>5. Appended(f, e) = [recs |-> q, synced |-> f.synced]
        /\ q \in Seq(S) /\ f.synced <= Len(q)
    BY <1>2, <2>1, <2>2, <2>3
  <2>6. Synced(f) = [recs |-> f.recs, synced |-> m] /\ m \in Nat /\ m <= Len(f.recs)
    BY <2>1, <2>2, <2>4
  <2> QED BY <2>5, <2>6
<1>3. ASSUME NEW f \in LogFile(n), NEW r \in Rec(n)
      PROVE  Appended(f, r) \in LogFile(n) /\ Synced(f) \in LogFile(n)
  <2>1. f \in [recs : Seq(Rec(n)), synced : Nat] /\ f.synced <= Len(f.recs)
    BY DEF LogFile
  <2> HIDE DEF Rec
  <2> QED BY <1>2, <2>1 DEF LogFile
<1>4. ASSUME NEW f \in ManifestFile(n), NEW e \in EditRec(n)
      PROVE  Appended(f, e) \in ManifestFile(n) /\ Synced(f) \in ManifestFile(n)
  <2>1. f \in [recs : Seq(EditRec(n)), synced : Nat] /\ f.synced <= Len(f.recs)
    BY DEF ManifestFile
  <2> QED BY <1>2, <2>1 DEF ManifestFile
<1> QED BY <1>1, <1>3, <1>4

(* Steps that touch no file.                                               *)
LEMMA TypesInProcess ==
  ASSUME Types, UNCHANGED <<scenario, ids, disk>>,
         \/ NewIterator \/ DeleteIterator \/ StartFlush
         \/ BuildFails \/ CompactionFails
  PROVE  Types'
<1>1. SUFFICES ProcessTypes'
  BY DEF Types, DiskTypes, disk
<1>2. CASE NewIterator
  BY <1>2 DEF Types, ProcessTypes, NewIterator, bgVars, history, disk
<1>3. CASE DeleteIterator
  BY <1>3 DEF Types, ProcessTypes, DeleteIterator, bgVars, history, disk
<1>4. CASE StartFlush
  BY <1>4 DEF Types, ProcessTypes, StartFlush, Free, bgVars, history, disk
<1>5. CASE BuildFails
  BY <1>5 DEF Types, ProcessTypes, BuildFails, NoTable, bgVars, history, disk
<1>6. CASE CompactionFails
  BY <1>6 DEF Types, ProcessTypes, CompactionFails, Free, bgVars, history, disk,
     RemoveObsoleteFiles, NoGarbage, NoCompaction, NoTable
<1> QED BY <1>2, <1>3, <1>4, <1>5, <1>6
(* What is left of a file has its type.                                    *)
LEMMA CutTypes ==
  ASSUME NEW n \in Nat
  PROVE  /\ \A f \in LogFile(n) : \A k \in f.synced .. Len(f.recs) :
              Cut(f, k) \in LogFile(n)
         /\ \A f \in ManifestFile(n) : \A k \in f.synced .. Len(f.recs) :
              Cut(f, k) \in ManifestFile(n)
<1>1. ASSUME NEW S, NEW f \in [recs : Seq(S), synced : Nat],
             f.synced <= Len(f.recs), NEW k \in f.synced .. Len(f.recs)
      PROVE  /\ Cut(f, k) \in [recs : Seq(S), synced : Nat]
             /\ Cut(f, k).synced <= Len(Cut(f, k).recs)
  <2>1. /\ Cut(f, k) \in [recs : Seq(S), synced : Nat]
        /\ Cut(f, k).synced = k /\ Len(Cut(f, k).recs) = k
    BY <1>1, CutFacts
  <2> QED BY <2>1
<1>2. ASSUME NEW f \in LogFile(n), NEW k \in f.synced .. Len(f.recs)
      PROVE  Cut(f, k) \in LogFile(n)
  <2>1. f \in [recs : Seq(Rec(n)), synced : Nat] /\ f.synced <= Len(f.recs)
    BY DEF LogFile
  <2> QED BY <1>1, <2>1 DEF LogFile
<1>3. ASSUME NEW f \in ManifestFile(n), NEW k \in f.synced .. Len(f.recs)
      PROVE  Cut(f, k) \in ManifestFile(n)
  <2>1. f \in [recs : Seq(EditRec(n)), synced : Nat] /\ f.synced <= Len(f.recs)
    BY DEF ManifestFile
  <2> QED BY <1>1, <2>1 DEF ManifestFile
<1> QED BY <1>2, <1>3

(* Files are removed or cut.                                               *)
LEMMA TypesCrash ==
  ASSUME Types, NEW reboot \in {FALSE, scenario.reboots}, Crash(reboot)
  PROVE  Types'
<1>1. PICK t \in SUBSET garbage.tables, l \in SUBSET garbage.logs,
           m \in SUBSET garbage.manifests :
        /\ tables' = Without(tables, t)
        /\ logs' \in (IF reboot THEN CutFiles(Without(logs, l))
                      ELSE {Without(logs, l)})
        /\ manifests' \in (IF reboot THEN CutFiles(Without(manifests, m))
                           ELSE {Without(manifests, m)})
  BY DEF Crash
<1>2. ids \in Nat /\ ids' = ids /\ scenario' = scenario /\ current' = current
      /\ Numbering(logs, LogFile(ids)) /\ Numbering(tables, TableFile(ids))
      /\ Numbering(manifests, ManifestFile(ids))
  BY DEF Types, DiskTypes, Crash
<1>3. /\ Numbering(tables', TableFile(ids))
      /\ Numbering(Without(logs, l), LogFile(ids))
      /\ Numbering(Without(manifests, m), ManifestFile(ids))
  BY <1>1, <1>2, WithoutFacts
<1>4. Numbering(logs', LogFile(ids))
  <2>1. CASE ~reboot
    BY <2>1, <1>1, <1>3
  <2>2. CASE reboot
    <3>1. PICK F : F = Without(logs, l)
      OBVIOUS
    <3>2. Numbering(F, LogFile(ids)) /\ logs' \in CutFiles(F)
      BY <3>1, <2>2, <1>1, <1>3
    <3>3. /\ DOMAIN logs' = DOMAIN F /\ logs' = [n \in DOMAIN F |-> logs'[n]]
          /\ \A n \in DOMAIN F :
               \E k \in F[n].synced .. Len(F[n].recs) : logs'[n] = Cut(F[n], k)
      BY <3>2, CutFilesFacts
    <3>4. ASSUME NEW n \in DOMAIN F PROVE logs'[n] \in LogFile(ids)
      <4>1. F[n] \in LogFile(ids)
        BY <3>2 DEF Numbering
      <4>2. PICK k \in F[n].synced .. Len(F[n].recs) : logs'[n] = Cut(F[n], k)
        BY <3>3
      <4> QED BY <4>1, <4>2, <1>2, CutTypes
    <3> QED BY <3>2, <3>3, <3>4 DEF Numbering
  <2> QED BY <2>1, <2>2
<1>5. Numbering(manifests', ManifestFile(ids))
  <2>1. CASE ~reboot
    BY <2>1, <1>1, <1>3
  <2>2. CASE reboot
    <3>1. PICK F : F = Without(manifests, m)
      OBVIOUS
    <3>2. Numbering(F, ManifestFile(ids)) /\ manifests' \in CutFiles(F)
      BY <3>1, <2>2, <1>1, <1>3
    <3>3. /\ DOMAIN manifests' = DOMAIN F
          /\ manifests' = [n \in DOMAIN F |-> manifests'[n]]
          /\ \A n \in DOMAIN F :
               \E k \in F[n].synced .. Len(F[n].recs) : manifests'[n] = Cut(F[n], k)
      BY <3>2, CutFilesFacts
    <3>4. ASSUME NEW n \in DOMAIN F PROVE manifests'[n] \in ManifestFile(ids)
      <4>1. F[n] \in ManifestFile(ids)
        BY <3>2 DEF Numbering
      <4>2. PICK k \in F[n].synced .. Len(F[n].recs) : manifests'[n] = Cut(F[n], k)
        BY <3>3
      <4> QED BY <4>1, <4>2, <1>2, CutTypes
    <3> QED BY <3>2, <3>3, <3>4 DEF Numbering
  <2> QED BY <2>1, <2>2
<1>6. DiskTypes'
  BY <1>2, <1>3, <1>4, <1>5 DEF Types, DiskTypes
<1>7. ProcessTypes'
  <2>1. 0 \in 0 .. ids
    BY <1>2
  <2>2. saving' = NotSaving
    BY DEF Crash
  <2> QED BY <2>1, <2>2, <1>2 DEF Crash, ProcessTypes, NoVersions, NotOpening, NoTable, NoCompaction,
     NoGarbage
<1> QED BY <1>6, <1>7 DEF Types

(* Garbage is removed.                                                     *)
LEMMA TypesRemove ==
  ASSUME Types, OpenDone \/ RemoveGarbage
  PROVE  Types'
<1>1. /\ tables' = Without(tables, garbage.tables)
      /\ logs' = Without(logs, garbage.logs)
      /\ manifests' = Without(manifests, garbage.manifests)
      /\ current' = current /\ scenario' = scenario /\ ids' = ids
  BY DEF OpenDone, RemoveGarbage, RemoveFiles, history
<1>2. DiskTypes'
  BY <1>1, WithoutFacts DEF Types, DiskTypes
<1>3. ProcessTypes'
  <2>1. ids' = ids /\ 0 \in 0 .. ids
    BY <1>1 DEF Types, DiskTypes
  <2>2. CASE OpenDone
    BY <2>1, <2>2 DEF Types, ProcessTypes, OpenDone, NoGarbage, NotOpening
  <2>3. CASE RemoveGarbage
    BY <2>1, <2>3 DEF Types, ProcessTypes, RemoveGarbage, NoGarbage
  <2> QED BY <2>2, <2>3
<1> QED BY <1>2, <1>3 DEF Types
(* The edit under way, for whom, and the MANIFEST it goes to.              *)
LEMMA WhoSaves ==
  ASSUME Types, IInv, saving # NotSaving
  PROVE  /\ saving.edit \in EditRec(ids) /\ saving.logged \in BOOLEAN
         /\ \/ pc = "saving" /\ saving.who = "open"
            \/ pc = "open" /\ saving.who \in {"flush", "compact"} /\ vs.desc
                 /\ vs.manifest = current
         /\ current # 0 /\ Database
         /\ vs.desc \/ saving.logged => vs.manifest \in DOMAIN manifests
<1>1. saving.edit \in EditRec(ids) /\ saving.logged \in BOOLEAN
  BY DEF Types, ProcessTypes
<1>2. pc \in {"saving", "open"}
  BY DEF IInv, Quiet
<1>3. CASE pc = "saving"
  <2>1. saving.who = "open" /\ current # 0
        /\ (vs.desc => vs.manifest = current)
        /\ (saving.logged /\ ~vs.desc => vs.manifest \in DOMAIN manifests)
    BY <1>3 DEF IInv, Quiet, SavingOK, SavingAtOpen, ManifestChosen
  <2>2. Database /\ current \in DOMAIN manifests
    BY <2>1 DEF IInv, DiskOK, Database
  <2> QED BY <2>1, <2>2, <1>1, <1>3
<1>4. CASE pc = "open"
  <2>1. current # 0 /\ vs.desc /\ vs.manifest = current
    BY <1>4 DEF IInv, RunningOK, InUse, Running
  <2>2. Database /\ current \in DOMAIN manifests
    BY <2>1 DEF IInv, DiskOK, Database
  <2>3. saving.who \in {"flush", "compact"}
    BY <1>4 DEF IInv, Quiet
  <2> QED BY <2>1, <2>2, <2>3, <1>1, <1>4
<1> QED BY <1>2, <1>3, <1>4

(* MANIFESTs are written and removed, and CURRENT set.                     *)
LEMMA TypesManifest ==
  ASSUME Types, IInv,
         NewDB \/ NewDBCurrent \/ OpenFails \/ LogEdit \/ InstallEdit \/ EditFails
  PROVE  Types'
<1>1. /\ ids \in Nat /\ scenario \in Scenario /\ Numbering(logs, LogFile(ids))
      /\ Numbering(tables, TableFile(ids))
      /\ Numbering(manifests, ManifestFile(ids)) /\ current \in Nat
  BY DEF Types, DiskTypes
<1>2. UNCHANGED <<scenario, ids, logs, tables>>
  BY DEF NewDB, NewDBCurrent, OpenFails, LogEdit, InstallEdit, EditFails, history
<1>3. SUFFICES /\ Numbering(manifests', ManifestFile(ids)) /\ current' \in Nat
               /\ ProcessTypes'
  BY <1>1, <1>2 DEF Types, DiskTypes
<1>4. CASE NewDB
  <2> DEFINE e == [add |-> {}, del |-> {}, hasNumbers |-> TRUE, log |-> 0,
                   next |-> 2, seq |-> 0]
  <2>1. e \in EditRec(ids)
    BY <1>1 DEF EditRec
  <2> HIDE DEF e
  <2>2. Appended(EmptyFile, e) \in ManifestFile(ids)
    BY <2>1, <1>1, FileTypes
  <2>3. manifests' = With(manifests, 1, Appended(EmptyFile, e))
    BY <1>4 DEF NewDB, e
  <2>4. Numbering(manifests', ManifestFile(ids))
    BY <2>2, <2>3, <1>1, WithFacts
  <2>5. ProcessTypes' /\ current' = current
    BY <1>4 DEF Types, ProcessTypes, NewDB, bgVars, history
  <2> QED BY <2>4, <2>5, <1>1
<1>5. CASE NewDBCurrent
  <2>1. pc = "newdb" /\ manifests' = With(manifests, 1, Synced(manifests[1])) /\ current' = 1
    BY <1>5 DEF NewDBCurrent, SetCurrentFile
  <2>2. 1 \in DOMAIN manifests
    BY <2>1 DEF IInv, DiskOK, NoDatabase, Database
  <2>3. manifests[1] \in ManifestFile(ids)
    BY <2>2, <1>1 DEF Numbering
  <2>4. Synced(manifests[1]) \in ManifestFile(ids)
    BY <2>3, <1>1, FoundInSynced
  <2>5. Numbering(manifests', ManifestFile(ids))
    BY <2>1, <2>4, <1>1, WithFacts
  <2>6. ProcessTypes'
    BY <1>5 DEF Types, ProcessTypes, NewDBCurrent, bgVars, history
  <2> QED BY <2>1, <2>5, <2>6
<1>6. CASE OpenFails
  <2>1. manifests' \in {manifests, Without(manifests, {1} \ {current})} /\ current' = current
    BY <1>6 DEF OpenFails
  <2>2. Numbering(manifests', ManifestFile(ids))
    <3>1. Numbering(Without(manifests, {1} \ {current}), ManifestFile(ids))
      BY <1>1, WithoutFacts
    <3> QED BY <3>1, <2>1, <1>1
  <2>3. ProcessTypes'
    BY <1>6 DEF Types, ProcessTypes, OpenFails, bgVars, history
  <2> QED BY <2>1, <2>2, <2>3, <1>1
<1>7. CASE LogEdit
  <2>1. saving # NotSaving /\ current' = current
        /\ manifests' \in {manifests, With(manifests, vs.manifest, Logged(saving.edit))}
    BY <1>7 DEF LogEdit
  <2>2. saving.edit \in EditRec(ids) /\ (vs.desc => vs.manifest \in DOMAIN manifests)
    BY <2>1, WhoSaves
  <2>3. SnapshotEdit \in EditRec(ids) /\ vs.manifest \in Nat
    BY <1>1 DEF SnapshotEdit, EditRec, Types, ProcessTypes
  <2>4. Logged(saving.edit) \in ManifestFile(ids)
    <3>1. CASE vs.desc
      <4>1. manifests[vs.manifest] \in ManifestFile(ids)
        BY <2>2, <3>1, <1>1 DEF Numbering
      <4> QED BY <4>1, <2>2, <3>1, <1>1, FileTypes DEF Logged
    <3>2. CASE ~vs.desc
      <4>1. Appended(EmptyFile, SnapshotEdit) \in ManifestFile(ids)
        BY <2>3, <1>1, FileTypes
      <4> QED BY <4>1, <2>2, <3>2, <1>1, FileTypes DEF Logged
    <3> QED BY <3>1, <3>2
  <2>5. Numbering(manifests', ManifestFile(ids))
    <3>1. Numbering(With(manifests, vs.manifest, Logged(saving.edit)), ManifestFile(ids))
      BY <2>3, <2>4, <1>1, WithFacts
    <3> QED BY <3>1, <2>1, <1>1
  <2>6. saving' \in [who : {"open", "flush", "compact"}, edit : EditRec(ids), logged : BOOLEAN]
    BY <2>1, <1>7 DEF LogEdit, Types, ProcessTypes
  <2>7. ProcessTypes'
    BY <2>6, <1>7 DEF Types, ProcessTypes, LogEdit, history
  <2> QED BY <2>1, <2>5, <2>7, <1>1
<1>8. CASE InstallEdit
  <2>1. /\ saving # NotSaving /\ saving.logged
        /\ manifests' = With(manifests, vs.manifest, Synced(manifests[vs.manifest]))
        /\ current' \in {current, vs.manifest}
        /\ vs' = Installed(saving.edit)
        /\ saving' = NotSaving
    BY <1>8 DEF InstallEdit, SetCurrentFile
  <2>2. saving.edit \in EditRec(ids) /\ vs.manifest \in DOMAIN manifests
    BY <2>1, WhoSaves
  <2>3. manifests[vs.manifest] \in ManifestFile(ids) /\ vs.manifest \in Nat
    BY <2>2, <1>1 DEF Numbering
  <2>4. Synced(manifests[vs.manifest]) \in ManifestFile(ids)
    BY <2>3, <1>1, FoundInSynced
  <2>5. Numbering(manifests', ManifestFile(ids))
    BY <2>1, <2>3, <2>4, <1>1, WithFacts
  <2>6. vs' \in [files : SUBSET Nat, log : Nat, next : Nat, manifest : Nat,
                 seq : 0 .. ids, desc : BOOLEAN]
    BY <2>1, <2>2 DEF Installed, EditRec, Types, ProcessTypes
  <2>7. garbage' \in [tables : SUBSET Nat, logs : SUBSET Nat, manifests : SUBSET Nat]
    <3>1. DOMAIN logs \subseteq Nat /\ DOMAIN tables \subseteq Nat /\ DOMAIN manifests \subseteq Nat
      BY <1>1 DEF Numbering
    <3>2. \A v, p : Obsolete(v, p) \in [tables : SUBSET Nat, logs : SUBSET Nat, manifests : SUBSET Nat]
      BY <3>1 DEF Obsolete
    <3>3. NoGarbage \in [tables : SUBSET Nat, logs : SUBSET Nat, manifests : SUBSET Nat]
      BY DEF NoGarbage
    <3>4. \E v, p : garbage' = IF bgError THEN NoGarbage ELSE Obsolete(v, p)
      BY <1>8 DEF InstallEdit, RemoveObsoleteFiles
    <3> QED BY <3>2, <3>3, <3>4
  <2>8. pending' \subseteq Nat
    BY <1>8 DEF InstallEdit, Types, ProcessTypes
  <2>9. compaction' \in {compaction, NoCompaction} /\ imm' \in {imm, {}}
        /\ hasImm' \in BOOLEAN /\ flush' \in Nat /\ pc' \in {pc, "clean"}
        /\ UNCHANGED <<opening, logNumber, mem, bgError, iters>>
    <3>1. /\ \/ pc' = "clean" /\ UNCHANGED <<imm, hasImm, flush, compaction>>
             \/ imm' = {} /\ hasImm' = FALSE /\ flush' = NoTable /\ UNCHANGED <<pc, compaction>>
             \/ compaction' = NoCompaction /\ UNCHANGED <<pc, imm, hasImm, flush>>
          /\ UNCHANGED <<opening, logNumber, mem, bgError, iters>>
      BY <1>8 DEF InstallEdit
    <3>2. hasImm \in BOOLEAN /\ flush \in Nat /\ NoTable \in Nat
      BY DEF Types, ProcessTypes, NoTable
    <3> QED BY <3>1, <3>2, Zenon
  <2>10. ProcessTypes'
    BY <2>1, <2>6, <2>7, <2>8, <2>9, <1>2 DEF Types, ProcessTypes, NoCompaction, NoTable
  <2> QED BY <2>1, <2>3, <2>5, <2>10, <1>1
<1>9. CASE EditFails
  <2>1. current' = current /\ saving' = NotSaving
        /\ manifests' \in {manifests, Without(manifests, {vs.manifest})}
    BY <1>9 DEF EditFails
  <2>2. Numbering(manifests', ManifestFile(ids))
    <3>1. Numbering(Without(manifests, {vs.manifest}), ManifestFile(ids))
      BY <1>1, WithoutFacts
    <3> QED BY <3>1, <2>1, <1>1
  <2>3. garbage' \in {garbage, NoGarbage} /\ compaction' \in {compaction, NoCompaction}
        /\ bgError' \in BOOLEAN /\ flush' \in Nat /\ pc' \in {pc, "failed"}
        /\ pending' \subseteq Nat
        /\ UNCHANGED <<vs, opening, logNumber, mem, imm, hasImm, iters>>
    <3>1. /\ \/ /\ pc' = "failed"
                /\ UNCHANGED <<flush, compaction, pending, garbage, bgError>>
             \/ /\ flush' = NoTable /\ bgError' = TRUE
                /\ UNCHANGED <<pc, compaction, pending, garbage>>
             \/ /\ pending' = pending \ Outputs(compaction)
                /\ compaction' = NoCompaction /\ bgError' = TRUE
                /\ garbage' = NoGarbage /\ UNCHANGED <<pc, flush>>
          /\ UNCHANGED <<vs, opening, logNumber, mem, imm, hasImm, iters>>
      BY <1>9 DEF EditFails, RemoveObsoleteFiles
    <3>2. bgError \in BOOLEAN /\ flush \in Nat /\ NoTable \in Nat /\ pending \subseteq Nat
          /\ pending \ Outputs(compaction) \subseteq Nat
      BY DEF Types, ProcessTypes, NoTable
    <3> QED BY <3>1, <3>2, Zenon
  <2>4. ProcessTypes'
    BY <2>1, <2>3, <1>2 DEF Types, ProcessTypes, NoCompaction, NoGarbage, NoTable
  <2> QED BY <2>1, <2>2, <2>4, <1>1
<1> QED BY <1>4, <1>5, <1>6, <1>7, <1>8, <1>9

(* What writes, switches of logs and the reading of logs do when no        *)
(* operation on logs fails.                                                *)
LEMMA PlainWrite ==
  ASSUME TornOK, NEW sync \in BOOLEAN, Write(sync)
  PROVE  LET r == [seq |-> vs.seq + 1, id |-> ids + 1]
             f == Appended(logs[logNumber], r)
         IN /\ pc = "open" /\ ~bgError /\ ids < scenario.writes
            /\ logs' = With(logs, logNumber, IF sync THEN Synced(f) ELSE f)
            /\ mem' = mem \cup {r}
            /\ vs' = [vs EXCEPT !.seq = @ + 1]
            /\ ids' = ids + 1
            /\ required' = required \cup {r.id}
            /\ synced' = IF sync THEN synced \cup {r.id} ELSE synced
            /\ UNCHANGED <<tables, manifests, current, pc, opening, logNumber, imm,
                           hasImm, bgVars, iters, scenario, torn, excused, crashes>>
<1>1. logNumber \notin torn.logs
  BY DEF TornOK
<1>2. Recorded(NextRecord) = {Appended(logs[logNumber], NextRecord)}
  BY <1>1 DEF Recorded
<1> QED BY <1>1, <1>2 DEF Write, MayWrite, NextRecord

LEMMA PlainSwitch ==
  ASSUME Sound, SwitchLog
  PROVE  /\ pc = "open" /\ ~bgError /\ ~hasImm /\ vs.next < scenario.files
         /\ logs' = With(logs, vs.next, EmptyFile)
         /\ logNumber' = vs.next
         /\ vs' = [vs EXCEPT !.next = @ + 1]
         /\ imm' = mem /\ hasImm' = TRUE /\ mem' = {}
         /\ UNCHANGED <<tables, manifests, current, pc, opening, pending, flush,
                        compaction, saving, garbage, bgError, iters, history>>
BY DEF Sound, SwitchLog, CloseFails, history

LEMMA PlainRead ==
  ASSUME Sound, RecoverLogFile
  PROVE  /\ pc = "logs" /\ opening.todo # {}
         /\ RecoverRecords(Min(opening.todo), logs[Min(opening.todo)].recs)
         /\ UNCHANGED <<logs, manifests, current, pc, imm, hasImm, bgVars, iters,
                        history>>
<1> DEFINE n == Min(opening.todo)
<1>1. RecordsRead(n) = {logs[n].recs}
  BY DEF RecordsRead, Sound
<1>2. /\ RecoverRecords(n, logs[n].recs)
      /\ excused' = excused \cup IdsOf(ToSet(logs[n].recs) \ ToSet(logs[n].recs))
  <2> HIDE DEF n
  <2>1. \E recs \in RecordsRead(Min(opening.todo)) :
          /\ RecoverRecords(Min(opening.todo), recs)
          /\ excused' = excused \cup
                          IdsOf(ToSet(logs[Min(opening.todo)].recs) \ ToSet(recs))
    BY DEF RecoverLogFile
  <2> QED BY <2>1, <1>1 DEF n
<1>3. excused' = excused
  <2>1. ToSet(logs[n].recs) \ ToSet(logs[n].recs) = {}
    OBVIOUS
  <2> QED BY <2>1, <1>2 DEF IdsOf
<1>4. pc = "logs" /\ opening.todo # {}
      /\ UNCHANGED <<logs, manifests, current, pc, imm, hasImm, bgVars, iters,
                     scenario, torn, ids, synced, required, crashes>>
  BY DEF RecoverLogFile
<1> QED BY <1>2, <1>3, <1>4 DEF history

(* A write, and a new log.                                                 *)
LEMMA TypesWrite ==
  ASSUME Types, TornOK, IInv, NEW sync \in BOOLEAN, Write(sync)
  PROVE  Types'
<1>1. /\ ids \in Nat /\ scenario \in Scenario /\ Numbering(logs, LogFile(ids))
      /\ Numbering(tables, TableFile(ids))
      /\ Numbering(manifests, ManifestFile(ids)) /\ current \in Nat
  BY DEF Types, DiskTypes
<1> DEFINE r == [seq |-> vs.seq + 1, id |-> ids + 1]
           f == Appended(logs[logNumber], r)
<1>2. /\ logs' = With(logs, logNumber, IF sync THEN Synced(f) ELSE f)
      /\ ids' = ids + 1 /\ mem' = mem \cup {r} /\ vs' = [vs EXCEPT !.seq = @ + 1]
      /\ UNCHANGED <<tables, manifests, current, pc, opening, logNumber, imm,
                     hasImm, bgVars, iters, scenario>>
  BY PlainWrite
<1>3. ids' \in Nat /\ ids <= ids'
  BY <1>1, <1>2
<1>4. /\ Rec(ids) \subseteq Rec(ids') /\ EditRec(ids) \subseteq EditRec(ids')
      /\ LogFile(ids) \subseteq LogFile(ids') /\ TableFile(ids) \subseteq TableFile(ids')
      /\ ManifestFile(ids) \subseteq ManifestFile(ids')
      /\ 0 .. ids \subseteq 0 .. ids'
  BY <1>1, <1>3, MoreIds
<1>5. r \in Rec(ids')
  BY <1>1, <1>2 DEF Types, ProcessTypes, Rec
<1>6. logNumber \in DOMAIN logs
  BY PlainWrite DEF IInv, RunningOK, InUse, Running, LogInUse, From
<1>7. Numbering(logs, LogFile(ids')) /\ Numbering(tables, TableFile(ids'))
      /\ Numbering(manifests, ManifestFile(ids'))
  BY <1>1, <1>4 DEF Numbering
<1>8. f \in LogFile(ids') /\ Synced(f) \in LogFile(ids')
  <2> HIDE DEF r
  <2>1. logs[logNumber] \in LogFile(ids')
    BY <1>6, <1>7 DEF Numbering
  <2>2. f \in LogFile(ids')
    BY <2>1, <1>5, <1>3, FileTypes
  <2> HIDE DEF f
  <2> QED BY <2>2, <1>5, <1>3, FileTypes
<1>9. Numbering(logs', LogFile(ids'))
  <2> HIDE DEF f
  <2>1. PICK g : g = IF sync THEN Synced(f) ELSE f
    OBVIOUS
  <2>2. g \in LogFile(ids') /\ logs' = With(logs, logNumber, g)
    BY <2>1, <1>8, <1>2
  <2>3. logNumber \in Nat
    BY DEF Types, ProcessTypes
  <2> QED BY <2>2, <2>3, <1>7, WithFacts
<1>10. DiskTypes'
  BY <1>1, <1>2, <1>3, <1>7, <1>9 DEF DiskTypes
<1>11. ProcessTypes'
  <2> HIDE DEF r, f
  <2>1. mem' \subseteq Rec(ids') /\ imm' \subseteq Rec(ids')
        /\ vs' \in [files : SUBSET Nat, log : Nat, next : Nat, manifest : Nat,
                    seq : 0 .. ids', desc : BOOLEAN]
    BY <1>1, <1>2, <1>4, <1>5 DEF Types, ProcessTypes
  <2>2. opening' \in [todo : SUBSET Nat, add : SUBSET Nat, save : BOOLEAN,
                      maxSeq : 0 .. ids', hasMem : BOOLEAN]
        /\ compaction' \in [inputs : SUBSET Nat, outs : SUBSET Nat, out : Nat,
                            left : SUBSET Rec(ids')]
    BY <1>2, <1>4 DEF Types, ProcessTypes, bgVars
  <2>3. saving' # NotSaving =>
          saving' \in [who : {"open", "flush", "compact"}, edit : EditRec(ids'),
                       logged : BOOLEAN]
    BY <1>2, <1>4 DEF Types, ProcessTypes, bgVars
  <2> QED BY <2>1, <2>2, <2>3, <1>2 DEF Types, ProcessTypes, bgVars
<1> QED BY <1>10, <1>11 DEF Types

(* Logs are created.                                                       *)
LEMMA TypesNewLog ==
  ASSUME Sound, Types, SwitchLog \/ OpenLog
  PROVE  Types'
<1>1. /\ ids \in Nat /\ scenario \in Scenario /\ Numbering(logs, LogFile(ids))
      /\ Numbering(tables, TableFile(ids))
      /\ Numbering(manifests, ManifestFile(ids)) /\ current \in Nat
      /\ vs.next \in Nat
  BY DEF Types, DiskTypes, ProcessTypes
<1>2. UNCHANGED <<scenario, ids, tables, manifests, current>>
      /\ logs' \in {logs, With(logs, vs.next, EmptyFile)}
  BY PlainSwitch DEF OpenLog, history
<1>3. Numbering(logs', LogFile(ids))
  <2>1. Numbering(With(logs, vs.next, EmptyFile), LogFile(ids))
    BY <1>1, FileTypes, WithFacts
  <2> QED BY <2>1, <1>1, <1>2
<1>4. DiskTypes'
  BY <1>1, <1>2, <1>3 DEF DiskTypes
<1>5. CASE SwitchLog
  <2>1. bgError' \in BOOLEAN /\ hasImm' = TRUE
    BY <1>5, PlainSwitch DEF Types, ProcessTypes
  <2>2. ProcessTypes'
    BY <2>1, <1>2, <1>5, PlainSwitch DEF Types, ProcessTypes
  <2> QED BY <2>2, <1>4 DEF Types
<1>6. CASE OpenLog
  <2>1. Max({vs.seq, opening.maxSeq}) \in 0 .. ids
    <3>1. {vs.seq, opening.maxSeq} \in SUBSET Nat /\ {vs.seq, opening.maxSeq} # {}
          /\ \A x \in {vs.seq, opening.maxSeq} : x <= ids
      BY <1>1 DEF Types, ProcessTypes
    <3>2. Max({vs.seq, opening.maxSeq}) \in {vs.seq, opening.maxSeq}
      BY <3>1, <1>1, MaxIsGreatest
    <3> QED BY <3>2 DEF Types, ProcessTypes
  <2>2. logNumber' \in Nat /\ UNCHANGED <<opening, mem, imm, hasImm, pending,
          flush, compaction, bgError, iters>>
    BY <1>6 DEF OpenLog, Types, ProcessTypes
  <2>3. vs' \in [files : SUBSET Nat, log : Nat, next : Nat, manifest : Nat,
                 seq : 0 .. ids, desc : BOOLEAN]
    <3>1. PICK s \in 0 .. ids, x \in Nat : vs' = [vs EXCEPT !.seq = s, !.next = x]
      <4>1. vs' = [vs EXCEPT !.seq = SetLastSequence(vs),
                             !.next = IF ~opening.hasMem THEN @ + 1 ELSE @]
        BY <1>6 DEF OpenLog
      <4>2. (IF ~opening.hasMem THEN vs.next + 1 ELSE vs.next) \in Nat
        BY <1>1
      <4> QED BY <2>1, <4>1, <4>2 DEF SetLastSequence
    <3> QED BY <3>1 DEF Types, ProcessTypes
  <2>4. /\ garbage' \in [tables : SUBSET Nat, logs : SUBSET Nat, manifests : SUBSET Nat]
        /\ pc' \in {"saving", "clean"}
    <3>1. DOMAIN logs \subseteq Nat /\ DOMAIN tables \subseteq Nat /\ DOMAIN manifests \subseteq Nat
      BY <1>1 DEF Numbering
    <3>2. Obsolete(vs, pending) \in [tables : SUBSET Nat, logs : SUBSET Nat, manifests : SUBSET Nat]
      BY <3>1 DEF Obsolete
    <3>3. NoGarbage \in [tables : SUBSET Nat, logs : SUBSET Nat, manifests : SUBSET Nat]
      BY DEF NoGarbage
    <3>4. garbage' = garbage \/ garbage' = IF bgError THEN NoGarbage ELSE Obsolete(vs, pending)
      BY <1>6 DEF OpenLog, RemoveObsoleteFiles
    <3>5. garbage \in [tables : SUBSET Nat, logs : SUBSET Nat, manifests : SUBSET Nat]
      BY DEF Types, ProcessTypes
    <3>6. pc' \in {"saving", "clean"}
      BY <1>6 DEF OpenLog
    <3> QED BY <3>2, <3>3, <3>4, <3>5, <3>6
  <2>5. saving' # NotSaving =>
          saving' \in [who : {"open", "flush", "compact"}, edit : EditRec(ids),
                       logged : BOOLEAN]
    <3>1. CASE saving' = saving
      BY <3>1 DEF Types, ProcessTypes
    <3>2. CASE saving' # saving
      <4>1. saving' = [who |-> "open",
                       edit |-> [add |-> opening.add, del |-> {}, hasNumbers |-> TRUE,
                                 log |-> logNumber', next |-> vs'.next, seq |-> vs'.seq],
                       logged |-> FALSE]
        BY <3>2, <1>6 DEF OpenLog, LogAndApply
      <4>2. [add |-> opening.add, del |-> {}, hasNumbers |-> TRUE,
             log |-> logNumber', next |-> vs'.next, seq |-> vs'.seq] \in EditRec(ids)
        BY <2>2, <2>3 DEF EditRec, Types, ProcessTypes
      <4> QED BY <4>1, <4>2
    <3> QED BY <3>1, <3>2
  <2>6. ProcessTypes'
    BY <2>2, <2>3, <2>4, <2>5, <1>2 DEF Types, ProcessTypes
  <2> QED BY <2>6, <1>4 DEF Types
<1> QED BY <1>5, <1>6

(* Tables are written.                                                     *)
LEMMA TypesTable ==
  ASSUME Types, \/ BuildTable
                \/ \E inputs \in SUBSET vs.files \ {{}} : StartCompaction(inputs)
                \/ \E part \in SUBSET compaction.left \ {{}} : NextOutput(part)
                \/ FinishCompaction,
         IInv
  PROVE  Types'
<1>1. /\ ids \in Nat /\ scenario \in Scenario /\ Numbering(logs, LogFile(ids))
      /\ Numbering(tables, TableFile(ids))
      /\ Numbering(manifests, ManifestFile(ids)) /\ current \in Nat
      /\ vs.next \in Nat /\ flush \in Nat /\ imm \subseteq Rec(ids)
  BY DEF Types, DiskTypes, ProcessTypes
<1>2. UNCHANGED <<scenario, ids, logs, manifests, current>>
  BY DEF BuildTable, StartCompaction, NextOutput, OpenOutput, FinishCompaction, history
<1>3. SUFFICES Numbering(tables', TableFile(ids)) /\ ProcessTypes'
  BY <1>1, <1>2 DEF DiskTypes, Types
<1>4. \A E \in SUBSET Rec(ids), b \in BOOLEAN : [ents |-> E, whole |-> b] \in TableFile(ids)
  BY DEF TableFile
<1>5. \A E \in SUBSET Rec(ids) : Numbering(Closed(compaction.out, E), TableFile(ids))
  BY <1>1, <1>4 DEF Closed, Numbering
<1>6. \A T : Numbering(T, TableFile(ids)) =>
               Numbering(With(T, vs.next, [ents |-> {}, whole |-> FALSE]), TableFile(ids))
  BY <1>1, <1>4, WithFacts
<1>7. \A A, D \in SUBSET Nat, n \in Nat : Edit(A, D, n) \in EditRec(ids)
  BY DEF Edit, EditRec, Types, ProcessTypes
<1>8. CASE BuildTable
  <2>1. Numbering(tables', TableFile(ids))
    <3>1. Numbering(With(tables, flush, [ents |-> imm, whole |-> TRUE]), TableFile(ids))
      BY <1>1, <1>4, WithFacts
    <3>2. tables' \in {tables, With(tables, flush, [ents |-> imm, whole |-> TRUE])}
      BY <1>8 DEF BuildTable
    <3> QED BY <3>1, <3>2, <1>1
  <2>2. saving' \in [who : {"open", "flush", "compact"}, edit : EditRec(ids), logged : BOOLEAN]
    <3>1. PICK A \in SUBSET Nat : saving' = [who |-> "flush", edit |-> Edit(A, {}, logNumber),
                                             logged |-> FALSE]
      BY <1>8, <1>1 DEF BuildTable, LogAndApply
    <3>2. logNumber \in Nat
      BY DEF Types, ProcessTypes
    <3>3. Edit(A, {}, logNumber) \in EditRec(ids)
      BY <1>7, <3>2
    <3> QED BY <3>1, <3>3
  <2>3. ProcessTypes'
    BY <2>2, <1>2, <1>8 DEF BuildTable, Types, ProcessTypes
  <2> QED BY <2>1, <2>3
<1>9. ASSUME NEW c, NEW T, OpenOutput(c, T), Numbering(T, TableFile(ids)),
             c \in [inputs : SUBSET Nat, outs : SUBSET Nat, out : Nat,
                    left : SUBSET Rec(ids)]
      PROVE  Numbering(tables', TableFile(ids)) /\ ProcessTypes'
  <2>1. Numbering(tables', TableFile(ids))
    BY <1>6, <1>9 DEF OpenOutput
  <2>2. compaction' \in [inputs : SUBSET Nat, outs : SUBSET Nat, out : Nat,
                         left : SUBSET Rec(ids)]
    BY <1>1, <1>9 DEF OpenOutput
  <2>3. ProcessTypes'
    BY <2>2, <1>1, <1>2, <1>9 DEF OpenOutput, Types, ProcessTypes
  <2> QED BY <2>1, <2>3
<1>10. CASE \E inputs \in SUBSET vs.files \ {{}} : StartCompaction(inputs)
  <2>1. PICK inputs \in SUBSET vs.files : StartCompaction(inputs)
    BY <1>10
  <2> DEFINE c == [NoCompaction EXCEPT !.inputs = inputs,
                                       !.left = UNION {tables[i].ents : i \in inputs}]
  <2>2. inputs \subseteq DOMAIN tables
    BY <2>1 DEF IInv, RunningOK, InUse, Running, Held, StartCompaction,
                MaybeScheduleCompaction, Free
  <2>3. UNION {tables[i].ents : i \in inputs} \subseteq Rec(ids)
    BY <2>2, <1>1 DEF Numbering, TableFile
  <2>4. c \in [inputs : SUBSET Nat, outs : SUBSET Nat, out : Nat, left : SUBSET Rec(ids)]
    BY <2>3, <2>1 DEF NoCompaction, NoTable, Types, ProcessTypes
  <2>5. OpenOutput(c, tables)
    BY <2>1 DEF StartCompaction
  <2> HIDE DEF c
  <2> QED BY <2>4, <2>5, <1>1, <1>9
<1>11. CASE \E part \in SUBSET compaction.left \ {{}} : NextOutput(part)
  <2>1. PICK part \in SUBSET compaction.left : NextOutput(part)
    BY <1>11
  <2> DEFINE c == [compaction EXCEPT !.outs = @ \cup {compaction.out},
                                     !.left = @ \ part]
  <2>2. c \in [inputs : SUBSET Nat, outs : SUBSET Nat, out : Nat, left : SUBSET Rec(ids)]
    BY DEF Types, ProcessTypes
  <2>3. part \in SUBSET Rec(ids)
    BY DEF Types, ProcessTypes
  <2>4. OpenOutput(c, Closed(compaction.out, part))
    BY <2>1 DEF NextOutput
  <2> HIDE DEF c
  <2> QED BY <2>2, <2>3, <2>4, <1>5, <1>9
<1>12. CASE FinishCompaction
  <2>1. compaction.left \in SUBSET Rec(ids)
    BY DEF Types, ProcessTypes
  <2>2. Numbering(tables', TableFile(ids))
    BY <2>1, <1>5, <1>12 DEF FinishCompaction
  <2>3. saving' \in [who : {"open", "flush", "compact"}, edit : EditRec(ids), logged : BOOLEAN]
    <3>1. saving' = [who |-> "compact",
                     edit |-> Edit(Outputs(compaction), compaction.inputs, vs.log),
                     logged |-> FALSE]
      BY <1>12 DEF FinishCompaction, LogAndApply
    <3>2. Outputs(compaction) \in SUBSET Nat /\ compaction.inputs \in SUBSET Nat /\ vs.log \in Nat
      BY DEF Outputs, Types, ProcessTypes
    <3>3. Edit(Outputs(compaction), compaction.inputs, vs.log) \in EditRec(ids)
      BY <3>2, <1>7
    <3> QED BY <3>1, <3>3
  <2>4. ProcessTypes'
    BY <2>3, <1>2, <1>12 DEF FinishCompaction, Types, ProcessTypes
  <2> QED BY <2>2, <2>4
<1> QED BY <1>8, <1>10, <1>11, <1>12
-----------------------------------------------------------------------------
(* The versions on disk.                                                   *)

VersionType(n) ==
  [files : SUBSET Nat, log : Nat, next : Nat, seq : 0 .. n, numbers : BOOLEAN]

(* Recover builds a version from any MANIFEST that is not empty.           *)
LEMMA FoundType ==
  ASSUME NEW n \in Nat, NEW recs \in Seq(EditRec(n)), recs # <<>>
  PROVE  Found(recs) \in VersionType(n)
<1>1. Len(recs) \in 1 .. Len(recs) /\ DOMAIN recs = 1 .. Len(recs)
  OBVIOUS
<1>2. \A i \in DOMAIN recs : recs[i] \in EditRec(n)
  OBVIOUS
<1>3. recs[Len(recs)] \in EditRec(n)
  BY <1>1, <1>2
<1>4. FilesAfter(recs) \subseteq Nat
  BY <1>2 DEF FilesAfter, EditRec
<1> QED BY <1>3, <1>4 DEF Found, VersionType, EditRec

(* The versions that may be found are versions, the latest among them.     *)
LEMMA VersionsType ==
  ASSUME DiskTypes, Database
  PROVE  /\ manifests[current] \in ManifestFile(ids)
         /\ Versions \subseteq VersionType(ids)
         /\ Latest \in Versions /\ VersionOK(Latest)
<1>1. ids \in Nat /\ scenario.reboots \in BOOLEAN /\ Numbering(manifests, ManifestFile(ids))
  BY DEF DiskTypes, Scenario
<1>2. manifests[current] \in ManifestFile(ids)
  BY <1>1 DEF Database, Numbering
<1>3. Latest \in Versions
  BY <1>1, <1>2, LatestIsFound DEF Latest, Versions
<1>4. VersionOK(Latest)
  BY <1>3 DEF Database
<1>5. PICK f : f = manifests[current]
  OBVIOUS
<1>6. f.recs \in Seq(EditRec(ids)) /\ f.synced \in Nat /\ f.synced <= Len(f.recs)
      /\ f.recs # <<>> /\ (scenario.reboots => f.synced >= 1)
  BY <1>2, <1>5 DEF ManifestFile, Database
<1>7. ASSUME NEW v \in Versions PROVE v \in VersionType(ids)
  <2>1. PICK k \in Lengths(f, scenario.reboots) : v = Found(SubSeq(f.recs, 1, k))
    BY <1>5 DEF Versions, FoundIn
  <2>2. k \in 0 .. Len(f.recs) /\ k >= 1
    BY <1>6 DEF Lengths
  <2>3. SubSeq(f.recs, 1, k) \in Seq(EditRec(ids)) /\ Len(SubSeq(f.recs, 1, k)) = k
    BY <2>2, <1>6, PrefixFacts
  <2>4. SubSeq(f.recs, 1, k) # <<>>
    BY <2>2, <2>3
  <2> QED BY <2>1, <2>3, <2>4, <1>1, FoundType
<1> QED BY <1>2, <1>3, <1>4, <1>7

(* What is seen of a MANIFEST that did not change.                         *)
LEMMA VersionsKept ==
  ASSUME manifests'[current'] = manifests[current], scenario' = scenario
  PROVE  Versions' = Versions /\ Latest' = Latest
BY DEF Versions, Latest

(* Recover finds the latest version and misses nothing, unless it stumbles *)
(* over what is behind a torn record.                                      *)
LEMMA RecoverCases ==
  ASSUME Types, IInv, RecoverVersions
  PROVE  /\ pc = "closed" /\ current # 0
         /\ UNCHANGED <<disk, logNumber, mem, imm, hasImm, bgVars, iters, history>>
         /\ \/ pc' = "corrupt" /\ Missed /\ UNCHANGED <<vs, opening>>
            \/ /\ pc' = "logs"
               /\ \E reuse \in {FALSE, scenario.reuseLogs} :
                    /\ vs' = [files |-> Latest.files, log |-> Latest.log,
                              next |-> Latest.next + 1,
                              manifest |-> IF reuse THEN current ELSE Latest.next,
                              seq |-> Latest.seq, desc |-> reuse]
                    /\ opening' = [NotOpening EXCEPT
                                     !.todo = LogsToRecover(Latest.log),
                                     !.save = ~reuse]
<1>1. pc = "closed" /\ current # 0
  BY DEF RecoverVersions
<1>2. Database
  BY <1>1 DEF IInv, DiskOK
<1>3. manifests[current] \in ManifestFile(ids) /\ VersionOK(Latest)
      /\ current \in DOMAIN manifests
  BY <1>2, VersionsType DEF Types, Database
<1>4. PICK recs : recs = manifests[current].recs
  OBVIOUS
<1>5. recs \in Seq(EditRec(ids)) /\ recs # <<>>
  BY <1>2, <1>3, <1>4 DEF ManifestFile, Database
<1>6. Latest = [files |-> FilesAfter(recs), log |-> recs[Len(recs)].log,
                next |-> recs[Len(recs)].next, seq |-> recs[Len(recs)].seq,
                numbers |-> recs[Len(recs)].hasNumbers]
  BY <1>4 DEF Latest, Found
<1>7. Len(recs) \in Numbers(recs) /\ \A i \in Numbers(recs) : i <= Len(recs)
  <2>1. Len(recs) \in DOMAIN recs /\ \A i \in DOMAIN recs : i <= Len(recs)
    BY <1>5
  <2> QED BY <2>1, <1>3, <1>6 DEF VersionOK, Numbers
<1>8. Max(Numbers(recs)) = Len(recs)
  <2>1. Numbers(recs) \in SUBSET Nat /\ Len(recs) \in Nat
    BY <1>5 DEF Numbers
  <2>2. Max(Numbers(recs)) \in Numbers(recs)
        /\ \A x \in Numbers(recs) : x <= Max(Numbers(recs))
    BY <2>1, <1>7, MaxIsGreatest
  <2> QED BY <2>1, <2>2, <1>7
<1>9. Missing(FilesAfter(recs)) = {}
  BY <1>3, <1>6 DEF Missing, VersionOK, Held
<1>10. recs = IF current \in DOMAIN manifests THEN manifests[current].recs ELSE <<>>
  BY <1>3, <1>4
<1>11. Numbers(recs) # {}
  BY <1>7
<1>12. \/ pc' = "corrupt" /\ current \in torn.behind /\ UNCHANGED <<vs, opening>>
       \/ /\ pc' = "logs"
          /\ \E reuse \in {FALSE, scenario.reuseLogs} :
               /\ vs' = [files |-> FilesAfter(recs), log |-> recs[Len(recs)].log,
                         next |-> recs[Len(recs)].next + 1,
                         manifest |-> IF reuse THEN current ELSE recs[Len(recs)].next,
                         seq |-> recs[Len(recs)].seq, desc |-> reuse]
               /\ opening' = [NotOpening EXCEPT
                                !.todo = LogsToRecover(recs[Len(recs)].log),
                                !.save = ~reuse]
  BY <1>8, <1>9, <1>10, <1>11, Zenon DEF RecoverVersions
<1>13. UNCHANGED <<disk, logNumber, mem, imm, hasImm, bgVars, iters, history>>
  BY DEF RecoverVersions
<1> QED BY <1>1, <1>6, <1>12, <1>13 DEF Missed

LEMMA RecoverFacts ==
  ASSUME Types, IInv, RecoverVersions, pc' # "corrupt"
  PROVE  /\ pc = "closed" /\ current # 0 /\ pc' = "logs"
         /\ UNCHANGED <<disk, logNumber, mem, imm, hasImm, bgVars, iters, history>>
         /\ \E reuse \in {FALSE, scenario.reuseLogs} :
              /\ vs' = [files |-> Latest.files, log |-> Latest.log,
                        next |-> Latest.next + 1,
                        manifest |-> IF reuse THEN current ELSE Latest.next,
                        seq |-> Latest.seq, desc |-> reuse]
              /\ opening'.todo = LogsToRecover(Latest.log) /\ opening'.add = {}
              /\ opening'.save = ~reuse /\ opening'.maxSeq = 0
              /\ opening'.hasMem = FALSE
         /\ opening' \in [todo : SUBSET Nat, add : SUBSET Nat, save : BOOLEAN,
                          maxSeq : 0 .. ids, hasMem : BOOLEAN]
<1>1. /\ pc = "closed" /\ current # 0 /\ pc' = "logs"
      /\ UNCHANGED <<disk, logNumber, mem, imm, hasImm, bgVars, iters, history>>
  BY RecoverCases
<1>12. 0 \in 0 .. ids
  BY DEF Types, DiskTypes
<1>13. PICK reuse \in {FALSE, scenario.reuseLogs} :
         /\ vs' = [files |-> Latest.files, log |-> Latest.log,
                   next |-> Latest.next + 1,
                   manifest |-> IF reuse THEN current ELSE Latest.next,
                   seq |-> Latest.seq, desc |-> reuse]
         /\ opening' = [NotOpening EXCEPT !.todo = LogsToRecover(Latest.log),
                                          !.save = ~reuse]
  BY RecoverCases
<1>14. (~reuse) \in BOOLEAN /\ LogsToRecover(Latest.log) \in SUBSET Nat
  BY DEF LogsToRecover, Types, DiskTypes, Numbering
<1>15. /\ opening'.todo = LogsToRecover(Latest.log) /\ opening'.add = {}
       /\ opening'.save = ~reuse /\ opening'.maxSeq = 0 /\ opening'.hasMem = FALSE
       /\ opening' \in [todo : SUBSET Nat, add : SUBSET Nat, save : BOOLEAN,
                        maxSeq : 0 .. ids, hasMem : BOOLEAN]
  <2>1. PICK T \in SUBSET Nat, s \in BOOLEAN :
          T = LogsToRecover(Latest.log) /\ s = ~reuse
    BY <1>14
  <2>2. opening' = [NotOpening EXCEPT !.todo = T, !.save = s]
    BY <1>13, <2>1
  <2>3. /\ opening'.todo = T /\ opening'.add = {} /\ opening'.save = s
        /\ opening'.maxSeq = 0 /\ opening'.hasMem = FALSE
        /\ opening' \in [todo : SUBSET Nat, add : SUBSET Nat, save : BOOLEAN,
                         maxSeq : 0 .. ids, hasMem : BOOLEAN]
    BY <2>2, <1>12 DEF NotOpening
  <2> QED BY <2>1, <2>3
<1> QED BY <1>1, <1>13, <1>15

(* One log is read.  Named are the log, the number of tables written and   *)
(* whether it is used again.                                               *)
ReadStep(n, count, reuse) ==
  LET new == vs.next .. vs.next + count - 1
  IN /\ n \in opening.todo /\ \A m \in opening.todo : n <= m
     /\ reuse => scenario.reuseLogs /\ opening.todo = {n} /\ count = 0
     /\ Numbering(tables', TableFile(ids))
     /\ DOMAIN tables' = DOMAIN tables \cup new
     /\ \A t \in DOMAIN tables \ new : tables'[t] = tables[t]
     /\ \A t \in new : tables'[t].whole /\ tables'[t].ents \subseteq RecsOf(logs[n])
     /\ ~reuse => RecsOf(logs[n]) \subseteq Ents(tables', new)
     /\ \E x \in Nat : /\ vs' = [vs EXCEPT !.next = x]
                       /\ vs.next + count <= x /\ n < x
     /\ \E s \in 0 .. ids :
          /\ opening' = [todo |-> opening.todo \ {n}, add |-> opening.add \cup new,
                         save |-> opening.save \/ count > 0, maxSeq |-> s,
                         hasMem |-> reuse]
          /\ opening.maxSeq <= s /\ UpTo(RecsOf(logs[n]), s)
     /\ logNumber' = IF reuse THEN n ELSE logNumber
     /\ mem' = IF reuse THEN RecsOf(logs[n]) ELSE mem
     /\ UNCHANGED <<logs, manifests, current, pc, imm, hasImm, bgVars, iters,
                    history>>

(* RecoverLogFile takes such a step.                                       *)
LEMMA ReadFacts ==
  ASSUME Sound, Types, opening.todo \subseteq DOMAIN logs, RecoverLogFile
  PROVE  \E n \in Nat, count \in Nat, reuse \in BOOLEAN : ReadStep(n, count, reuse)
<1>1. opening.todo \in SUBSET Nat /\ opening.todo # {}
  BY PlainRead DEF Types, ProcessTypes
<1> DEFINE n == Min(opening.todo)
           recs == logs[n].recs
           full == Len(recs) \div BufferRecords
           Chunk(i) == {recs[j] : j \in {k \in DOMAIN recs :
                                           (k - 1) \div BufferRecords = i}}
           S == {opening.maxSeq} \cup {recs[j].seq : j \in DOMAIN recs}
           maxSeq == Max(S)
<1>2. \E reuse \in {FALSE, MayReuse(n, full)} :
        LET count == IF reuse \/ Chunk(full) = {} THEN full ELSE full + 1
            new == vs.next .. vs.next + count - 1
        IN /\ tables' = [t \in DOMAIN tables \cup new |->
                           IF t \in new
                           THEN [ents |-> Chunk(t - vs.next), whole |-> TRUE]
                           ELSE tables[t]]
           /\ vs' = [vs EXCEPT !.next = MarkFileNumberUsed(@ + count, n)]
           /\ opening' = [todo   |-> opening.todo \ {n},
                          add    |-> opening.add \cup new,
                          save   |-> opening.save \/ count > 0,
                          maxSeq |-> maxSeq, hasMem |-> reuse]
           /\ logNumber' = IF reuse THEN n ELSE logNumber
           /\ mem' = IF reuse THEN Chunk(0) ELSE mem
  BY PlainRead DEF RecoverRecords
<1>3. n \in opening.todo /\ n \in Nat /\ \A m \in opening.todo : n <= m
  BY <1>1, MinIsLeast
<1> HIDE DEF n
<1>4. recs = logs[n].recs
  OBVIOUS
<1> HIDE DEF recs
<1>5. ids \in Nat /\ recs \in Seq(Rec(ids)) /\ n \in DOMAIN logs
      /\ Numbering(tables, TableFile(ids)) /\ vs.next \in Nat
      /\ opening.maxSeq \in 0 .. ids
  BY <1>3, <1>4 DEF Types, DiskTypes, ProcessTypes, Numbering, LogFile
<1>6. DOMAIN recs = 1 .. Len(recs) /\ Len(recs) \in Nat
      /\ \A j \in DOMAIN recs : recs[j] \in Rec(ids)
  BY <1>5
<1>7. RecsOf(logs[n]) = {recs[j] : j \in DOMAIN recs}
  BY <1>4 DEF RecsOf
<1>8. full \in Nat /\ \A j \in DOMAIN recs : /\ (j - 1) \div BufferRecords \in Nat
                                             /\ (j - 1) \div BufferRecords <= full
  <2>1. BufferRecords \in Nat \ {0}
    BY RecoveryAssumption
  <2>2. full \in Nat
    BY <2>1, <1>6, DivMonotone
  <2>3. ASSUME NEW j \in DOMAIN recs
        PROVE  /\ (j - 1) \div BufferRecords \in Nat
               /\ (j - 1) \div BufferRecords <= full
    <3>1. j - 1 \in Nat /\ j - 1 <= Len(recs)
      BY <1>6
    <3> QED BY <3>1, <2>1, <1>6, DivMonotone
  <2> QED BY <2>2, <2>3
<1>9. \A i : Chunk(i) \subseteq RecsOf(logs[n]) /\ Chunk(i) \subseteq Rec(ids)
  BY <1>6, <1>7
<1>10. \A r \in RecsOf(logs[n]) : \E i \in 0 .. full : r \in Chunk(i)
  <2>1. ASSUME NEW r \in RecsOf(logs[n]) PROVE \E i \in 0 .. full : r \in Chunk(i)
    <3>1. PICK j \in DOMAIN recs : r = recs[j]
      BY <1>7
    <3>2. PICK i : i = (j - 1) \div BufferRecords
      OBVIOUS
    <3>3. i \in 0 .. full
      BY <3>2, <1>8
    <3>4. r \in Chunk(i)
      BY <3>1, <3>2
    <3> QED BY <3>3, <3>4
  <2> QED BY <2>1
<1>11. maxSeq \in 0 .. ids /\ opening.maxSeq <= maxSeq /\ UpTo(RecsOf(logs[n]), maxSeq)
  <2>1. S \in SUBSET Nat /\ S # {} /\ \A x \in S : x <= ids
    <3>1. \A j \in DOMAIN recs : recs[j].seq \in 0 .. ids
      BY <1>6 DEF Rec
    <3>2. \A x \in S : x \in 0 .. ids
      BY <3>1, <1>5
    <3>3. 0 .. ids \subseteq Nat /\ \A x \in 0 .. ids : x <= ids
      BY <1>5
    <3> QED BY <3>2, <3>3
  <2>2. Max(S) \in S /\ \A x \in S : x <= Max(S)
    BY <2>1, <1>5, MaxIsGreatest
  <2>3. \A r \in RecsOf(logs[n]) : r.seq \in S
    BY <1>7
  <2> HIDE DEF S
  <2>4. Max(S) \in 0 .. ids
    <3>1. Max(S) \in Nat /\ Max(S) <= ids
      BY <2>1, <2>2
    <3> QED BY <3>1, <1>5
  <2>5. opening.maxSeq \in S
    BY DEF S
  <2> QED BY <2>2, <2>3, <2>4, <2>5 DEF UpTo
<1> HIDE DEF full, Chunk, maxSeq
<1>12. PICK reuse \in {FALSE, MayReuse(n, full)}, count \in {full, full + 1} :
         /\ count = IF reuse \/ Chunk(full) = {} THEN full ELSE full + 1
         /\ tables' = [t \in DOMAIN tables \cup (vs.next .. vs.next + count - 1) |->
                         IF t \in vs.next .. vs.next + count - 1
                         THEN [ents |-> Chunk(t - vs.next), whole |-> TRUE]
                         ELSE tables[t]]
         /\ vs' = [vs EXCEPT !.next = MarkFileNumberUsed(@ + count, n)]
         /\ opening' = [todo   |-> opening.todo \ {n},
                        add    |-> opening.add \cup (vs.next .. vs.next + count - 1),
                        save   |-> opening.save \/ count > 0,
                        maxSeq |-> maxSeq, hasMem |-> reuse]
         /\ logNumber' = IF reuse THEN n ELSE logNumber
         /\ mem' = IF reuse THEN Chunk(0) ELSE mem
  BY <1>2, Zenon
<1>13. reuse \in BOOLEAN /\ (reuse => MayReuse(n, full))
  BY DEF MayReuse
<1>14. count \in Nat /\ (reuse => count = 0 /\ full = 0)
  BY <1>8, <1>12, <1>13 DEF MayReuse
<1> DEFINE new == vs.next .. vs.next + count - 1
<1>15. /\ DOMAIN tables' = DOMAIN tables \cup new
       /\ \A t \in DOMAIN tables \ new : tables'[t] = tables[t]
       /\ \A t \in new : tables'[t] = [ents |-> Chunk(t - vs.next), whole |-> TRUE]
       /\ tables' = [t \in DOMAIN tables \cup new |-> tables'[t]]
  BY <1>12
<1>16. \A t \in new : tables'[t].whole /\ tables'[t].ents = Chunk(t - vs.next)
                      /\ tables'[t] \in TableFile(ids)
  <2> HIDE DEF new
  <2>1. \A i : [ents |-> Chunk(i), whole |-> TRUE] \in TableFile(ids)
    BY <1>9 DEF TableFile
  <2> QED BY <2>1, <1>15
<1>17. Numbering(tables', TableFile(ids))
  <2>1. new \subseteq Nat
    BY <1>5, <1>14
  <2> HIDE DEF new
  <2> QED BY <2>1, <1>15, <1>16, <1>5 DEF Numbering
<1>18. ~reuse => RecsOf(logs[n]) \subseteq Ents(tables', new)
  <2>1. SUFFICES ASSUME ~reuse, NEW r \in RecsOf(logs[n])
                 PROVE  r \in Ents(tables', new)
    OBVIOUS
  <2>2. PICK i \in 0 .. full : r \in Chunk(i)
    BY <1>10
  <2>3. i < count
    <3>1. CASE Chunk(full) = {}
      <4>1. i # full
        BY <2>2, <3>1
      <4> QED BY <4>1, <3>1, <2>1, <1>8, <1>12
    <3>2. CASE Chunk(full) # {}
      BY <3>2, <2>1, <1>8, <1>12
    <3> QED BY <3>1, <3>2
  <2>4. vs.next + i \in new /\ (vs.next + i) - vs.next = i
    BY <2>3, <1>5, <1>14
  <2>5. tables'[vs.next + i].ents = Chunk(i)
    BY <2>4, <1>16
  <2> QED BY <2>2, <2>4, <2>5 DEF Ents
<1>19. \E x \in Nat : vs' = [vs EXCEPT !.next = x] /\ vs.next + count <= x /\ n < x
  <2>1. PICK x : x = MarkFileNumberUsed(vs.next + count, n)
    OBVIOUS
  <2>2. x \in Nat /\ vs.next + count <= x /\ n < x
    BY <2>1, <1>3, <1>5, <1>14 DEF MarkFileNumberUsed
  <2>3. vs' = [vs EXCEPT !.next = x]
    BY <2>1, <1>12
  <2> QED BY <2>2, <2>3
<1>20. mem' = IF reuse THEN RecsOf(logs[n]) ELSE mem
  <2>1. reuse => Chunk(0) = RecsOf(logs[n])
    <3>1. SUFFICES ASSUME reuse PROVE Chunk(0) = RecsOf(logs[n])
      OBVIOUS
    <3>2. 0 .. full = {0}
      BY <3>1, <1>14
    <3> QED BY <3>2, <1>9, <1>10
  <2> QED BY <2>1, <1>12
<1>21. UNCHANGED <<logs, manifests, current, pc, imm, hasImm, bgVars, iters, history>>
  BY PlainRead
<1>22. \A t \in new : tables'[t].whole /\ tables'[t].ents \subseteq RecsOf(logs[n])
  BY <1>16, <1>9
<1>23. reuse => scenario.reuseLogs /\ opening.todo = {n} /\ count = 0
  BY <1>13, <1>14 DEF MayReuse
<1>24. \E s \in 0 .. ids :
         /\ opening' = [todo |-> opening.todo \ {n}, add |-> opening.add \cup new,
                        save |-> opening.save \/ count > 0, maxSeq |-> s,
                        hasMem |-> reuse]
         /\ opening.maxSeq <= s /\ UpTo(RecsOf(logs[n]), s)
  BY <1>11, <1>12
<1>25. logNumber' = IF reuse THEN n ELSE logNumber
  BY <1>12
<1>26. ReadStep(n, count, reuse)
  BY <1>3, <1>15, <1>17, <1>18, <1>19, <1>20, <1>21, <1>22, <1>23, <1>24, <1>25
     DEF ReadStep
<1> QED BY <1>3, <1>13, <1>14, <1>26
(* Recovery's steps keep the types.                                        *)
LEMMA TypesRecover ==
  ASSUME Sound, Types, IInv, RecoverVersions \/ RecoverLogFile
  PROVE  Types'
<1>0. CASE RecoverVersions /\ pc' = "corrupt"
  <2>1. /\ UNCHANGED <<disk, logNumber, mem, imm, hasImm, bgVars, iters, history>>
        /\ UNCHANGED <<vs, opening>>
    BY <1>0, RecoverCases
  <2>2. DiskTypes' /\ ids' = ids
    BY <2>1 DEF Types, DiskTypes, disk, history
  <2>3. ProcessTypes'
    BY <2>1, <2>2, <1>0 DEF Types, ProcessTypes, bgVars
  <2> QED BY <2>2, <2>3 DEF Types
<1>1. CASE RecoverVersions /\ pc' # "corrupt"
  <2>1. /\ pc' = "logs"
        /\ UNCHANGED <<disk, logNumber, mem, imm, hasImm, bgVars, iters, history>>
        /\ \E reuse \in {FALSE, scenario.reuseLogs} :
             vs' = [files |-> Latest.files, log |-> Latest.log,
                    next |-> Latest.next + 1,
                    manifest |-> IF reuse THEN current ELSE Latest.next,
                    seq |-> Latest.seq, desc |-> reuse]
        /\ opening' \in [todo : SUBSET Nat, add : SUBSET Nat, save : BOOLEAN,
                         maxSeq : 0 .. ids, hasMem : BOOLEAN]
        /\ current # 0
    BY <1>1, RecoverFacts
  <2>2. Latest \in VersionType(ids) /\ current \in Nat /\ scenario.reuseLogs \in BOOLEAN
    BY <2>1, VersionsType DEF Types, IInv, DiskOK, DiskTypes, Scenario
  <2>3. PICK reuse \in BOOLEAN :
          vs' = [files |-> Latest.files, log |-> Latest.log,
                 next |-> Latest.next + 1,
                 manifest |-> IF reuse THEN current ELSE Latest.next,
                 seq |-> Latest.seq, desc |-> reuse]
    BY <2>1, <2>2
  <2>4. Latest.files \in SUBSET Nat /\ Latest.log \in Nat /\ Latest.next \in Nat
        /\ Latest.seq \in 0 .. ids
        /\ (IF reuse THEN current ELSE Latest.next) \in Nat
    BY <2>2 DEF VersionType
  <2>5. vs' \in [files : SUBSET Nat, log : Nat, next : Nat, manifest : Nat,
                 seq : 0 .. ids, desc : BOOLEAN]
    BY <2>3, <2>4
  <2>6. DiskTypes' /\ ids' = ids
    BY <2>1 DEF Types, DiskTypes, disk, history
  <2>7. ProcessTypes'
    BY <2>1, <2>5, <2>6 DEF Types, ProcessTypes, bgVars
  <2> QED BY <2>6, <2>7 DEF Types
<1>2. CASE RecoverLogFile
  <2>1. opening.todo \subseteq DOMAIN logs
    BY <1>2 DEF IInv, ReadingOK, Reading, RecoverLogFile, From
  <2>2. PICK n \in Nat, count \in Nat, reuse \in BOOLEAN : ReadStep(n, count, reuse)
    BY <1>2, <2>1, ReadFacts
  <2>3. /\ Numbering(tables', TableFile(ids))
        /\ \E x \in Nat : vs' = [vs EXCEPT !.next = x]
        /\ \E s \in 0 .. ids :
             opening' = [todo |-> opening.todo \ {n},
                         add |-> opening.add \cup (vs.next .. vs.next + count - 1),
                         save |-> opening.save \/ count > 0, maxSeq |-> s,
                         hasMem |-> reuse]
        /\ logNumber' = (IF reuse THEN n ELSE logNumber)
        /\ mem' = (IF reuse THEN RecsOf(logs[n]) ELSE mem)
        /\ n \in opening.todo
        /\ UNCHANGED <<logs, manifests, current, pc, imm, hasImm, bgVars, iters, history>>
    BY <2>2 DEF ReadStep
  <2>4. DiskTypes' /\ ids' = ids
    BY <2>3 DEF Types, DiskTypes, history
  <2>5. vs' \in [files : SUBSET Nat, log : Nat, next : Nat, manifest : Nat,
                 seq : 0 .. ids, desc : BOOLEAN]
    BY <2>3 DEF Types, ProcessTypes
  <2>6. opening' \in [todo : SUBSET Nat, add : SUBSET Nat, save : BOOLEAN,
                      maxSeq : 0 .. ids, hasMem : BOOLEAN]
    <3>1. opening.todo \subseteq Nat /\ opening.add \subseteq Nat /\ opening.save \in BOOLEAN
          /\ vs.next \in Nat
      BY DEF Types, ProcessTypes
    <3>2. (vs.next .. vs.next + count - 1) \subseteq Nat
      BY <3>1
    <3>3. (opening.save \/ count > 0) \in BOOLEAN
      OBVIOUS
    <3>4. PICK A, b : A = opening.add \cup (vs.next .. vs.next + count - 1)
                      /\ b = (opening.save \/ count > 0)
      OBVIOUS
    <3>5. A \in SUBSET Nat /\ b \in BOOLEAN
      BY <3>1, <3>2, <3>3, <3>4
    <3>6. PICK s \in 0 .. ids : opening' = [todo |-> opening.todo \ {n}, add |-> A,
                                            save |-> b, maxSeq |-> s, hasMem |-> reuse]
      BY <2>3, <3>4
    <3> QED BY <3>1, <3>5, <3>6
  <2>7. logNumber' \in Nat
    BY <2>3 DEF Types, ProcessTypes
  <2>8. mem' \subseteq Rec(ids)
    <3>1. logs[n] \in LogFile(ids)
      BY <2>1, <2>3 DEF Types, DiskTypes, Numbering
    <3>2. RecsOf(logs[n]) \subseteq Rec(ids)
      BY <3>1 DEF LogFile, RecsOf
    <3> QED BY <3>2, <2>3 DEF Types, ProcessTypes
  <2>9. ProcessTypes'
    BY <2>3, <2>4, <2>5, <2>6, <2>7, <2>8 DEF Types, ProcessTypes, bgVars
  <2> QED BY <2>4, <2>9 DEF Types
<1> QED BY <1>0, <1>1, <1>2

-----------------------------------------------------------------------------
(* What a step leaves alone.                                               *)

(* Tables that are not touched have the same records.                      *)
LEMMA SameEnts ==
  ASSUME NEW T, NEW U, NEW F, \A f \in F : U[f] = T[f]
  PROVE  Ents(U, F) = Ents(T, F)
BY DEF Ents

(* Records of more tables.                                                 *)
LEMMA EntsUnion ==
  ASSUME NEW T, NEW F, NEW G
  PROVE  Ents(T, F \cup G) = Ents(T, F) \cup Ents(T, G)
BY DEF Ents

(* Logs that are not touched have the same records.                        *)
LEMMA SameLogs ==
  ASSUME NEW L, NEW M, DOMAIN L \subseteq Nat, DOMAIN M \subseteq Nat,
         NEW n \in Nat, From(M, n) = From(L, n),
         \A m \in From(L, n) : M[m] = L[m], NEW k \in Nat, n <= k
  PROVE  /\ From(M, k) = From(L, k)
         /\ LogRecs(M, k) = LogRecs(L, k) /\ SyncedRecs(M, k) = SyncedRecs(L, k)
<1>1. From(M, k) = From(L, k) /\ \A m \in From(L, k) : M[m] = L[m]
  BY DEF From
<1> QED BY <1>1 DEF LogRecs, SyncedRecs

(* A new log is empty.                                                     *)
LEMMA EmptyLog ==
  ASSUME NEW L, NEW S, Numbering(L, S), NEW n \in Nat, n \notin DOMAIN L, NEW k \in Nat
  PROVE  LET M == With(L, n, EmptyFile)
         IN /\ LogRecs(M, k) = LogRecs(L, k) /\ SyncedRecs(M, k) = SyncedRecs(L, k)
            /\ DOMAIN M = DOMAIN L \cup {n} /\ M[n] = EmptyFile
            /\ RecsOf(EmptyFile) = {}
            /\ \A m \in DOMAIN L : M[m] = L[m]
<1>1. PICK M : M = With(L, n, EmptyFile)
  OBVIOUS
<1>2. DOMAIN M = DOMAIN L \cup {n} /\ M[n] = EmptyFile /\ \A m \in DOMAIN L : M[m] = L[m]
  BY <1>1 DEF With
<1>3. EmptyFile.recs = <<>> /\ EmptyFile.synced = 0
  BY DEF EmptyFile
<1>4. RecsOf(EmptyFile) = {} /\ SyncedOf(EmptyFile) = {}
  BY <1>3 DEF RecsOf, SyncedOf
<1>5. From(M, k) \subseteq From(L, k) \cup {n} /\ From(L, k) \subseteq From(M, k)
  BY <1>2 DEF From
<1>6. \A m \in From(L, k) : M[m] = L[m]
  BY <1>2 DEF From
<1>7. LogRecs(M, k) = LogRecs(L, k)
  BY <1>2, <1>4, <1>5, <1>6 DEF LogRecs
<1>8. SyncedRecs(M, k) = SyncedRecs(L, k)
  BY <1>2, <1>4, <1>5, <1>6 DEF SyncedRecs
<1> QED BY <1>1, <1>2, <1>4, <1>7, <1>8

(* Garbage below a number leaves the logs from there on.                   *)
LEMMA OldLogsRemoved ==
  ASSUME NEW L, NEW S, Numbering(L, S), NEW n \in Nat, NEW R, R \subseteq Nat,
         \A m \in R : m < n
  PROVE  LET M == Without(L, R)
         IN /\ From(M, n) = From(L, n) /\ \A m \in From(L, n) : M[m] = L[m]
            /\ DOMAIN M \subseteq DOMAIN L
BY DEF Without, From, Numbering

(* The database stays as it is if its MANIFEST, its tables and the logs    *)
(* that count do.                                                          *)
LEMMA DatabaseKept ==
  ASSUME DiskTypes, DiskTypes', Database,
         UNCHANGED <<scenario, current, required, synced>>, pc' # "newdb",
         current \in DOMAIN manifests', manifests'[current] = manifests[current],
         current \notin garbage'.manifests,
         \A v \in Versions :
           /\ \A f \in v.files : /\ f \in DOMAIN tables' /\ tables'[f] = tables[f]
                                 /\ f \notin garbage'.tables
           /\ LogRecs(logs', v.log) = LogRecs(logs, v.log)
           /\ SyncedRecs(logs', v.log) = SyncedRecs(logs, v.log)
  PROVE  Database' /\ Versions' = Versions /\ Latest' = Latest
<1>1. Versions' = Versions /\ Latest' = Latest
  BY VersionsKept
<1>2. ASSUME NEW v \in Versions PROVE VersionOK(v)'
  <2>1. VersionOK(v)
    BY DEF Database
  <2>2. Ents(tables', v.files) = Ents(tables, v.files)
    BY SameEnts
  <2>3. LogRecs(logs', v.log) = LogRecs(logs, v.log)
        /\ SyncedRecs(logs', v.log) = SyncedRecs(logs, v.log)
    OBVIOUS
  <2>4. Reach(v)' = Reach(v)
    BY <2>2, <2>3 DEF Reach
  <2>5. Held(v.files, v.next)'
    BY <2>1 DEF VersionOK, Held
  <2>6. Covers(v.files, v.log)'
    BY <2>1, <2>2, <2>3 DEF VersionOK, Covers
  <2> QED BY <2>1, <2>2, <2>4, <2>5, <2>6, <1>1 DEF VersionOK
<1>3. \A v \in Versions' : VersionOK(v)'
  BY <1>1, <1>2
<1> QED BY <1>1, <1>3 DEF Database
-----------------------------------------------------------------------------
(* Steps of the database in use.                                           *)

(* A database in use, unfolded.                                            *)
LEMMA RunningFacts ==
  ASSUME Types, IInv, Running
  PROVE  /\ InUse /\ Database /\ current # 0
         /\ vs.files \subseteq DOMAIN tables
         /\ Contents = mem \cup imm \cup Ents(tables, vs.files)
         /\ Versions \subseteq VersionType(ids)
         /\ Latest \in Versions
         /\ \A v \in Versions : VersionOK(v) /\ Behind(v)
<1>1. InUse
  BY DEF IInv, RunningOK
<1>2. current # 0 /\ Database
  BY <1>1 DEF InUse, IInv, DiskOK
<1>3. vs.files \subseteq DOMAIN tables
  BY <1>1 DEF InUse, Held
<1>4. vs.files \cap DOMAIN tables = vs.files
  BY <1>3
<1>5. Contents = mem \cup imm \cup Ents(tables, vs.files)
  BY <1>4 DEF Contents, InTables, Ents
<1> QED BY <1>1, <1>2, <1>3, <1>5, VersionsType DEF Types, InUse, Database

(* A process without an error has torn nothing.                            *)
LEMMA NotMissed ==
  ASSUME TornOK, Running, ~bgError
  PROVE  ~Missed /\ current \notin torn.manifests
BY DEF TornOK, Missed

(* A step that leaves alone the memtables, the version, the tables held    *)
(* and the logs that count.                                                *)
Untouched ==
  /\ UNCHANGED <<scenario, current, required, synced, ids, mem, imm, logNumber>>
  /\ vs' \in [files : {vs.files}, log : {vs.log}, next : Nat,
              manifest : {vs.manifest}, seq : {vs.seq}, desc : {vs.desc}]
  /\ vs.next <= vs'.next
  /\ current \in DOMAIN manifests' /\ manifests'[current] = manifests[current]
  /\ DOMAIN logs' \subseteq DOMAIN logs /\ From(logs', vs.log) = From(logs, vs.log)
  /\ \A n \in From(logs, vs.log) : logs'[n] = logs[n]
  /\ torn'.behind = torn.behind /\ (Missed => logs' = logs)
  /\ iters' \subseteq iters \cup {vs.files}
  /\ garbage' \in {garbage, NoGarbage}
  /\ \A f \in vs.files \cup UNION iters : f \in DOMAIN tables' /\ tables'[f] = tables[f]
  /\ \A v \in Versions : \A f \in v.files : f \in DOMAIN tables' /\ tables'[f] = tables[f]

(* Such a step keeps what was said of the disk and the version in use.     *)
LEMMA StillRunning ==
  ASSUME Types, Types', IInv, Running, Running', Untouched,
         ~bgError' => ~bgError /\ Target \subseteq Target'
  PROVE  /\ DiskOK' /\ RunningOK'
         /\ Versions' = Versions /\ Latest' = Latest
<1>1. /\ InUse /\ Database /\ current # 0
      /\ vs.files \subseteq DOMAIN tables
      /\ Contents = mem \cup imm \cup Ents(tables, vs.files)
      /\ Versions \subseteq VersionType(ids) /\ Latest \in Versions
      /\ \A v \in Versions : VersionOK(v) /\ Behind(v)
  BY RunningFacts
<1>2. /\ vs'.files = vs.files /\ vs'.log = vs.log /\ vs'.manifest = vs.manifest
      /\ vs'.seq = vs.seq /\ vs'.desc = vs.desc /\ vs.next <= vs'.next
      /\ vs.log \in Nat /\ vs.next \in Nat /\ vs'.next \in Nat
  BY DEF Untouched, Types, ProcessTypes
<1>3. DOMAIN logs \subseteq Nat /\ DOMAIN logs' \subseteq Nat /\ DiskTypes /\ DiskTypes'
  BY DEF Types, DiskTypes, Numbering
<1>4. \A k \in Nat : vs.log <= k =>
        /\ From(logs', k) = From(logs, k)
        /\ LogRecs(logs', k) = LogRecs(logs, k) /\ SyncedRecs(logs', k) = SyncedRecs(logs, k)
  BY <1>2, <1>3, SameLogs DEF Untouched
<1>40. \A v \in Versions : /\ LogRecs(logs', v.log) = LogRecs(logs, v.log)
                           /\ SyncedRecs(logs', v.log) = SyncedRecs(logs, v.log)
  <2>1. CASE Missed
    <3>1. logs' = logs
      BY <2>1 DEF Untouched
    <3> QED BY <3>1
  <2>2. CASE ~Missed
    <3>1. \A v \in Versions : v.log \in Nat /\ vs.log <= v.log
      BY <1>1, <2>2 DEF Behind, VersionType
    <3> QED BY <3>1, <1>4
  <2> QED BY <2>1, <2>2
<1>41. Missed' <=> Missed
  BY DEF Missed, Untouched
<1>5. /\ \A f \in vs.files : tables'[f] = tables[f] /\ f \in DOMAIN tables'
      /\ \A f \in UNION iters : tables'[f] = tables[f] /\ f \in DOMAIN tables'
      /\ \A v \in Versions : \A f \in v.files : tables'[f] = tables[f] /\ f \in DOMAIN tables'
  BY DEF Untouched
<1>6. /\ \A f : f \notin garbage.tables => f \notin garbage'.tables
      /\ current \notin garbage'.manifests
      /\ \A n \in garbage'.logs : n < vs.log
  <2>1. CASE garbage' = garbage
    BY <2>1, <1>1 DEF Database, InUse
  <2>2. CASE garbage' = NoGarbage
    BY <2>2 DEF NoGarbage
  <2> QED BY <2>1, <2>2 DEF Untouched
<1>7. Database' /\ Versions' = Versions /\ Latest' = Latest
  <2>1. \A v \in Versions :
           /\ \A f \in v.files : /\ f \in DOMAIN tables' /\ tables'[f] = tables[f]
                                 /\ f \notin garbage'.tables
           /\ LogRecs(logs', v.log) = LogRecs(logs, v.log)
           /\ SyncedRecs(logs', v.log) = SyncedRecs(logs, v.log)
    <3>1. ASSUME NEW v \in Versions
          PROVE  \A f \in v.files : f \notin garbage.tables
      BY <1>1 DEF VersionOK, Held
    <3> QED BY <3>1, <1>40, <1>5, <1>6
  <2>2. UNCHANGED <<scenario, current, required, synced>> /\ pc' # "newdb"
        /\ current \in DOMAIN manifests' /\ manifests'[current] = manifests[current]
    BY DEF Untouched, Running
  <2> QED BY <2>1, <2>2, <1>1, <1>3, <1>6, DatabaseKept
<1>8. Contents' = Contents /\ Ents(tables', vs.files) = Ents(tables, vs.files)
  <2>1. Ents(tables', vs.files) = Ents(tables, vs.files)
    BY <1>5, SameEnts
  <2>2. vs'.files \cap DOMAIN tables' = vs.files
    BY <1>2, <1>5
  <2>3. Contents' = mem' \cup imm' \cup Ents(tables', vs.files)
    BY <2>2 DEF Contents, InTables, Ents
  <2> QED BY <2>1, <2>3, <1>1 DEF Untouched
<1>9. LogInUse'
  <2>1. logNumber \in From(logs, vs.log) /\ mem = RecsOf(logs[logNumber])
        /\ \A n \in DOMAIN logs : n < vs.next
    BY <1>1 DEF InUse, LogInUse
  <2>2. logNumber' = logNumber /\ mem' = mem /\ From(logs', vs.log) = From(logs, vs.log)
        /\ logs'[logNumber] = logs[logNumber] /\ DOMAIN logs' \subseteq DOMAIN logs
    BY <2>1 DEF Untouched
  <2>3. \A n \in DOMAIN logs' : n < vs'.next
    BY <2>1, <2>2, <1>2, <1>3
  <2> QED BY <2>1, <2>2, <2>3, <1>2 DEF LogInUse
<1>10. Held(vs.files \cup UNION iters, vs.next)'
  <2>1. \A f \in vs.files \cup UNION iters : /\ f \in DOMAIN tables /\ tables[f].whole
                                             /\ f \notin garbage.tables /\ f < vs.next
                                             /\ f \in Nat
    BY <1>1 DEF InUse, Held, Types, ProcessTypes
  <2>2. vs'.files \cup UNION iters' \subseteq vs.files \cup UNION iters
    BY <1>2 DEF Untouched
  <2>3. ASSUME NEW f \in vs.files \cup UNION iters
        PROVE  f \in DOMAIN tables' /\ tables'[f].whole /\ f \notin garbage'.tables /\ f < vs'.next
    BY <2>1, <1>2, <1>5, <1>6
  <2> QED BY <2>2, <2>3 DEF Held
<1>11. \A n \in From(logs', vs'.log) :
         n = logNumber' \/ RecsOf(logs'[n]) \subseteq imm' \cup Ents(tables', vs'.files)
  BY <1>1, <1>2, <1>8 DEF InUse, Untouched
<1>12. imm' \subseteq LogRecs(logs', vs'.log)
  BY <1>1, <1>2, <1>4 DEF InUse, Untouched
<1>13. \A v \in Versions' : Behind(v)'
  <2>1. ASSUME NEW v \in Versions PROVE Behind(v)'
    <3>1. v.log \in Nat /\ v.next \in Nat /\ Behind(v)
      BY <1>1 DEF VersionType
    <3>2. Ents(tables', v.files) = Ents(tables, v.files)
      BY <1>5, SameEnts
    <3>3. Reach(v)' = Reach(v)
      BY <3>2, <1>40 DEF Reach
    <3>4. logNumber' = logNumber
      BY DEF Untouched
    <3>5. v.next <= vs'.next
      BY <3>1, <1>2 DEF Behind
    <3> QED BY <3>1, <3>2, <3>3, <3>4, <3>5, <1>2, <1>8, <1>41 DEF Behind
  <2> QED BY <2>1, <1>7
<1>14. ~bgError' => Latest'.files \subseteq Target'
  BY <1>1, <1>7 DEF InUse
<1>15. InUse'
  BY <1>1, <1>2, <1>6, <1>8, <1>9, <1>10, <1>11, <1>12, <1>13, <1>14
     DEF InUse, Untouched
<1>16. current' # 0
  BY <1>15 DEF InUse
<1> QED BY <1>7, <1>15, <1>16 DEF DiskOK, RunningOK
(* What is said of the other steps of Open says nothing here.              *)
LEMMA StaysOpen ==
  ASSUME pc' = "open", saving' = NotSaving \/ saving'.who \in {"flush", "compact"}
  PROVE  Quiet' /\ ReadingOK' /\ SavingOK' /\ CleanOK'
BY DEF Quiet, ReadingOK, SavingOK, CleanOK

(* A compaction under way is not disturbed.                                *)
LEMMA CompactionKept ==
  ASSUME Types, IInv, Untouched, Versions' = Versions, compaction' = compaction,
         Compacting =>
           /\ \A n \in Outputs(compaction) :
                /\ n \in DOMAIN tables' /\ tables'[n] = tables[n]
                /\ n \in pending'
           /\ saving.who = "compact" => saving'.who = "compact"
  PROVE  CompactionOK'
<1>1. SUFFICES ASSUME Compacting PROVE CompactionOK'
  BY DEF CompactionOK, Compacting
<1>2. CompactionOK
  BY DEF IInv
<1>3. compaction.inputs \subseteq vs.files /\ vs'.files = vs.files
      /\ vs.next \in Nat /\ vs'.next \in Nat /\ vs.next <= vs'.next
  BY <1>1, <1>2 DEF CompactionOK, Untouched, Types, ProcessTypes
<1>4. \A n \in Outputs(compaction) :
        /\ n \in DOMAIN tables /\ n \in pending /\ n < vs.next
        /\ n \notin garbage.tables /\ n \in Nat
  BY <1>1, <1>2 DEF CompactionOK, Outputs, Types, ProcessTypes
<1>5. \A n \in Outputs(compaction) : n \in DOMAIN tables' /\ tables'[n] = tables[n] /\ n \in pending'
  BY <1>1
<1>6. \A n \in Outputs(compaction) : n \notin garbage'.tables
  BY <1>4 DEF Untouched, NoGarbage
<1>7. compaction.outs \subseteq Outputs(compaction)
  BY DEF Outputs
<1>8. Ents(tables', compaction.inputs) = Ents(tables, compaction.inputs)
      /\ Ents(tables', compaction.outs) = Ents(tables, compaction.outs)
  <2>1. \A f \in compaction.inputs : tables'[f] = tables[f]
    BY <1>3 DEF Untouched
  <2>2. \A f \in compaction.outs : tables'[f] = tables[f]
    BY <1>5, <1>7
  <2> QED BY <2>1, <2>2, SameEnts
<1>9. \A n \in compaction.outs : tables'[n].whole
  BY <1>1, <1>2, <1>5, <1>7 DEF CompactionOK
<1>10. saving'.who # "compact" =>
         /\ Ents(tables', compaction.inputs)
              = Ents(tables', compaction.outs) \cup compaction.left
         /\ compaction.out \notin vs'.files \cup compaction.outs \cup UNION iters'
         /\ \A v \in Versions' : compaction.out \notin v.files
  <2>1. SUFFICES ASSUME saving'.who # "compact"
                 PROVE  /\ Ents(tables, compaction.inputs)
                             = Ents(tables, compaction.outs) \cup compaction.left
                        /\ compaction.out \notin vs.files \cup compaction.outs \cup UNION iters'
                        /\ \A v \in Versions : compaction.out \notin v.files
    BY <1>3, <1>8
  <2>2. saving.who # "compact"
    BY <2>1, <1>1
  <2>3. UNION iters' \subseteq vs.files \cup UNION iters
    BY DEF Untouched
  <2> QED BY <2>2, <2>3, <1>1, <1>2 DEF CompactionOK
<1>11. \A n \in Outputs(compaction) : n < vs'.next
  BY <1>3, <1>4
<1> QED BY <1>3, <1>5, <1>6, <1>9, <1>10, <1>11 DEF CompactionOK

(* Iterators.                                                              *)
LEMMA IteratorStep ==
  ASSUME Types, IInv, Types', NewIterator \/ DeleteIterator
  PROVE  IInv'
<1>1. pc = "open" /\ UNCHANGED <<disk, pc, vs, opening, logNumber, mem, imm, hasImm,
                                 bgVars, history>>
      /\ iters' \subseteq iters \cup {vs.files}
  BY DEF IInv, Quiet, NewIterator, DeleteIterator
<1>2. Running /\ Running'
  BY <1>1 DEF Running
<1>3. /\ InUse /\ Database
      /\ \A v \in Versions : VersionOK(v)
  BY <1>2, RunningFacts
<1>4. UNCHANGED <<scenario, torn, logs, tables, manifests, current, required, synced, ids,
                  pending, flush, compaction, saving, garbage, bgError>>
  BY <1>1 DEF disk, bgVars, history
<1>5. Untouched
  <2>1. vs' \in [files : {vs.files}, log : {vs.log}, next : Nat,
                 manifest : {vs.manifest}, seq : {vs.seq}, desc : {vs.desc}]
        /\ vs.next <= vs'.next
    BY <1>1 DEF Types, ProcessTypes
  <2>2. current \in DOMAIN manifests
    BY <1>3 DEF Database
  <2>3. \A f \in vs.files \cup UNION iters : f \in DOMAIN tables
    BY <1>3 DEF InUse, Held
  <2>4. \A v \in Versions : \A f \in v.files : f \in DOMAIN tables
    BY <1>3 DEF VersionOK, Held
  <2> QED BY <2>1, <2>2, <2>3, <2>4, <1>1, <1>4 DEF Untouched
<1>6. Target' = Target
  BY <1>1, <1>4 DEF Target
<1>7. DiskOK' /\ RunningOK' /\ Versions' = Versions /\ Latest' = Latest
  BY <1>2, <1>4, <1>5, <1>6, StillRunning
<1>8. Quiet' /\ ReadingOK' /\ SavingOK' /\ CleanOK'
  <2>1. saving' = NotSaving \/ saving'.who \in {"flush", "compact"}
    BY <1>1, <1>4 DEF IInv, Quiet
  <2> QED BY <2>1, <1>1, StaysOpen
<1>9. CompactionOK'
  <2>1. \A n \in Outputs(compaction) : Compacting => n \in DOMAIN tables /\ n \in pending
    BY DEF IInv, CompactionOK
  <2> QED BY <2>1, <1>4, <1>5, <1>7, CompactionKept
<1>10. FlushOK'
  <2>1. FlushOK
    BY DEF IInv
  <2>2. UNION iters' \subseteq vs.files \cup UNION iters
    BY <1>1
  <2> QED BY <2>1, <2>2, <1>1, <1>4, <1>7 DEF FlushOK, Compacting
<1>11. EditOK'
  BY <1>1, <1>4, <1>7 DEF IInv, EditOK, Held, Compacting, Missed
<1>12. ImmOK'
  BY <1>1 DEF IInv, ImmOK
<1> QED BY <1>7, <1>8, <1>9, <1>10, <1>11, <1>12 DEF IInv

(* Obsolete files are removed.                                             *)
LEMMA RemoveStep ==
  ASSUME Types, TornOK, IInv, Types', RemoveGarbage \/ OpenDone
  PROVE  IInv'
<1>1. /\ pc' = "open" /\ pc \in {"clean", "open"}
      /\ tables' = Without(tables, garbage.tables)
      /\ logs' = Without(logs, garbage.logs)
      /\ manifests' = Without(manifests, garbage.manifests)
      /\ garbage' = NoGarbage
      /\ UNCHANGED <<current, vs, logNumber, mem, imm, hasImm, pending, flush,
                     compaction, saving, bgError, iters, history>>
      /\ garbage # NoGarbage \/ pc = "clean"
  BY DEF RemoveGarbage, OpenDone, RemoveFiles
<1>2. Running /\ Running'
  BY <1>1 DEF Running
<1>3. UNCHANGED <<scenario, required, synced, ids>>
  BY <1>1 DEF history
<1>30. torn' = torn /\ ~Missed
  <2>1. torn' = torn
    BY <1>1 DEF history
  <2>2. ASSUME pc = "clean" PROVE ~Missed
    <3>1. ~bgError
      BY <2>2 DEF IInv, Quiet
    <3> QED BY <3>1, <1>2, NotMissed
  <2>3. ASSUME garbage # NoGarbage PROVE ~Missed
    BY <2>3, <1>2 DEF TornOK
  <2> QED BY <2>1, <2>2, <2>3, <1>1
<1>4. /\ InUse /\ Database
      /\ \A v \in Versions : VersionOK(v)
  BY <1>2, RunningFacts
<1>5. saving = NotSaving /\ flush = NoTable
  <2>1. CASE pc = "clean"
    BY <2>1 DEF IInv, Quiet
  <2>2. CASE pc = "open" /\ garbage # NoGarbage
    BY <2>2 DEF IInv, FlushOK, EditOK
  <2> QED BY <2>1, <2>2, <1>1
<1>6. /\ \A m \in DOMAIN tables \ garbage.tables :
           m \in DOMAIN tables' /\ tables'[m] = tables[m]
      /\ \A m \in DOMAIN manifests \ garbage.manifests :
           m \in DOMAIN manifests' /\ manifests'[m] = manifests[m]
  BY <1>1 DEF Without
<1>7. Untouched
  <2>1. vs' \in [files : {vs.files}, log : {vs.log}, next : Nat,
                 manifest : {vs.manifest}, seq : {vs.seq}, desc : {vs.desc}]
        /\ vs.next <= vs'.next
    BY <1>1 DEF Types, ProcessTypes
  <2>2. current \in DOMAIN manifests' /\ manifests'[current] = manifests[current]
    BY <1>4, <1>6 DEF Database
  <2>3. \A f \in vs.files \cup UNION iters : f \in DOMAIN tables' /\ tables'[f] = tables[f]
    BY <1>4, <1>6 DEF InUse, Held
  <2>4. \A v \in Versions : \A f \in v.files : f \in DOMAIN tables' /\ tables'[f] = tables[f]
    BY <1>4, <1>6 DEF VersionOK, Held
  <2>5. DOMAIN logs' \subseteq DOMAIN logs /\ From(logs', vs.log) = From(logs, vs.log)
        /\ \A n \in From(logs, vs.log) : logs'[n] = logs[n]
    <3>1. Numbering(logs, LogFile(ids)) /\ vs.log \in Nat /\ garbage.logs \subseteq Nat
          /\ \A m \in garbage.logs : m < vs.log
      BY <1>4 DEF InUse, Types, DiskTypes, ProcessTypes
    <3>2. /\ From(Without(logs, garbage.logs), vs.log) = From(logs, vs.log)
          /\ \A m \in From(logs, vs.log) : Without(logs, garbage.logs)[m] = logs[m]
          /\ DOMAIN Without(logs, garbage.logs) \subseteq DOMAIN logs
      BY <3>1, OldLogsRemoved
    <3> QED BY <3>2, <1>1
  <2> QED BY <2>1, <2>2, <2>3, <2>4, <2>5, <1>1, <1>3, <1>30 DEF Untouched
<1>8. Target' = Target
  BY <1>1 DEF Target
<1>9. DiskOK' /\ RunningOK' /\ Versions' = Versions /\ Latest' = Latest
  BY <1>1, <1>2, <1>7, <1>8, StillRunning
<1>10. Quiet' /\ ReadingOK' /\ SavingOK' /\ CleanOK'
  BY <1>1, <1>5, StaysOpen
<1>11. CompactionOK'
  <2>1. \A n \in Outputs(compaction) :
          Compacting => n \in DOMAIN tables /\ n \notin garbage.tables /\ n \in pending
    BY DEF IInv, CompactionOK
  <2> QED BY <2>1, <1>1, <1>6, <1>7, <1>9, CompactionKept
<1>12. FlushOK' /\ EditOK'
  BY <1>1, <1>5 DEF FlushOK, EditOK
<1>13. ImmOK'
  BY <1>1 DEF IInv, ImmOK
<1> QED BY <1>9, <1>10, <1>11, <1>12, <1>13 DEF IInv

(* The background thread leaves alone what it does not own.                *)
LEMMA BackgroundStep ==
  ASSUME Types, IInv, Running,
         UNCHANGED <<scenario, logs, manifests, current, required, synced, ids, mem,
                     imm, logNumber, iters>>,
         torn'.behind = torn.behind,
         garbage' \in {garbage, NoGarbage},
         vs' \in {vs, [vs EXCEPT !.next = @ + 1]},
         NEW S, S \cap (vs.files \cup UNION iters) = {},
         \A v \in Versions : S \cap v.files = {},
         \A f \in DOMAIN tables \ S : f \in DOMAIN tables' /\ tables'[f] = tables[f]
  PROVE  Untouched
<1>1. InUse /\ Database /\ \A v \in Versions : VersionOK(v)
  BY RunningFacts
<1>2. vs' \in [files : {vs.files}, log : {vs.log}, next : Nat,
               manifest : {vs.manifest}, seq : {vs.seq}, desc : {vs.desc}]
      /\ vs.next <= vs'.next
  BY DEF Types, ProcessTypes
<1>3. current \in DOMAIN manifests
  BY <1>1 DEF Database
<1>4. \A f \in vs.files \cup UNION iters : f \in DOMAIN tables' /\ tables'[f] = tables[f]
  <2>1. \A f \in vs.files \cup UNION iters : f \in DOMAIN tables
    BY <1>1 DEF InUse, Held
  <2> QED BY <2>1
<1>5. ASSUME NEW v \in Versions, NEW f \in v.files
      PROVE  f \in DOMAIN tables' /\ tables'[f] = tables[f]
  <2>1. f \in DOMAIN tables
    BY <1>1 DEF VersionOK, Held
  <2> QED BY <2>1
<1>6. iters' \subseteq iters \cup {vs.files}
  OBVIOUS
<1> QED BY <1>2, <1>3, <1>4, <1>5, <1>6 DEF Untouched

(* The next file number is new.                                            *)
LEMMA NextIsNew ==
  ASSUME Types, IInv, Running
  PROVE  /\ vs.next \in Nat /\ vs.next # NoTable
         /\ vs.next \notin vs.files \cup UNION iters
         /\ \A v \in Versions : vs.next \notin v.files
         /\ vs.next \notin DOMAIN logs
         /\ Compacting => vs.next \notin Outputs(compaction)
<1>1. /\ InUse /\ Versions \subseteq VersionType(ids) /\ Latest \in Versions
      /\ \A v \in Versions : VersionOK(v) /\ Behind(v)
  BY RunningFacts
<1>2. vs.next \in Nat /\ vs.log \in Nat
  BY DEF Types, ProcessTypes
<1>3. vs.next \notin vs.files \cup UNION iters
  <2>1. \A f \in vs.files \cup UNION iters : f < vs.next
    BY <1>1 DEF InUse, Held
  <2>2. PICK x : x = vs.next
    OBVIOUS
  <2>3. ~(x < x)
    BY <2>2, <1>2
  <2> QED BY <2>1, <2>2, <2>3, Zenon
<1>4. ASSUME NEW v \in Versions PROVE vs.next \notin v.files
  <2>1. v.next \in Nat /\ v.next <= vs.next /\ \A f \in v.files : f < v.next
    BY <1>1 DEF VersionType, VersionOK, Behind, Held
  <2> QED BY <2>1, <1>2
<1>5. vs.next \notin DOMAIN logs /\ vs.next # NoTable
  <2>1. logNumber \in DOMAIN logs /\ \A n \in DOMAIN logs : n < vs.next /\ n \in Nat
    BY <1>1 DEF InUse, LogInUse, From, Types, DiskTypes, Numbering
  <2> QED BY <2>1, <1>2 DEF NoTable
<1>6. Compacting => vs.next \notin Outputs(compaction)
  <2>1. Compacting => \A n \in Outputs(compaction) : n < vs.next
    BY DEF IInv, CompactionOK
  <2> QED BY <2>1, <1>2
<1> QED BY <1>2, <1>3, <1>4, <1>5, <1>6

(* CompactMemTable begins or cannot write its table; a compaction fails.   *)
LEMMA ThreadStep ==
  ASSUME Types, IInv, Types', StartFlush \/ BuildFails \/ CompactionFails
  PROVE  IInv'
<1>1. /\ pc = "open" /\ pc' = "open" /\ saving = NotSaving /\ saving' = NotSaving
      /\ UNCHANGED <<disk, opening, logNumber, mem, imm, hasImm, iters, history>>
      /\ garbage' \in {garbage, NoGarbage}
      /\ vs' \in {vs, [vs EXCEPT !.next = @ + 1]}
      /\ bgError' \in {bgError, TRUE}
  BY DEF IInv, Quiet, StartFlush, MaybeScheduleCompaction, BuildFails,
         CompactionFails, Free, RemoveObsoleteFiles
<1>2. Running /\ Running'
  BY <1>1 DEF Running
<1>3. UNCHANGED <<scenario, logs, tables, manifests, current, required, synced, ids>>
      /\ torn' = torn
  BY <1>1 DEF disk, history
<1>4. Untouched
  <2>1. PICK S : S = {}
    OBVIOUS
  <2>2. /\ S \cap (vs.files \cup UNION iters) = {}
        /\ \A v \in Versions : S \cap v.files = {}
        /\ \A f \in DOMAIN tables \ S : f \in DOMAIN tables' /\ tables'[f] = tables[f]
    BY <2>1, <1>3
  <2> QED BY <2>2, <1>1, <1>2, <1>3, BackgroundStep
<1>5. Target' = Target
  <2>1. vs'.files = vs.files
    BY <1>1 DEF Types, ProcessTypes
  <2> QED BY <2>1, <1>1 DEF Target
<1>6. DiskOK' /\ RunningOK' /\ Versions' = Versions /\ Latest' = Latest
  <2>1. ~bgError' => ~bgError /\ Target \subseteq Target'
    BY <1>1, <1>5, Zenon
  <2> QED BY <2>1, <1>2, <1>4, StillRunning
<1>7. Quiet' /\ ReadingOK' /\ SavingOK' /\ CleanOK'
  BY <1>1, StaysOpen
<1>8. EditOK' /\ ImmOK'
  BY <1>1 DEF EditOK, ImmOK, IInv
<1>9. /\ vs.next \in Nat
      /\ vs.next \notin vs.files \cup UNION iters
      /\ \A v \in Versions : vs.next \notin v.files
      /\ Compacting => vs.next \notin Outputs(compaction)
  BY <1>2, NextIsNew
<1>10. Compacting => \A n \in Outputs(compaction) : n \in DOMAIN tables /\ n \in pending
  BY DEF IInv, CompactionOK
<1>11. FlushOK' /\ CompactionOK'
  <2>1. CASE StartFlush
    <3>1. /\ flush' = vs.next /\ pending' = pending \cup {vs.next}
          /\ vs' = [vs EXCEPT !.next = @ + 1] /\ compaction' = compaction
          /\ hasImm /\ garbage' = NoGarbage
      BY <2>1 DEF StartFlush, MaybeScheduleCompaction, Free
    <3>2. CompactionOK'
      BY <3>1, <1>1, <1>3, <1>4, <1>6, <1>10, CompactionKept
    <3>3. flush' < vs'.next /\ vs'.files = vs.files
      BY <3>1, <1>9 DEF Types, ProcessTypes
    <3>4. flush' \notin vs'.files \cup UNION iters'
      BY <3>1, <3>3, <1>1, <1>9
    <3>5. \A v \in Versions' : flush' \notin v.files
      BY <3>1, <1>6, <1>9
    <3>6. Compacting' => flush' \notin Outputs(compaction')
      BY <3>1, <1>9 DEF Compacting
    <3>7. FlushOK'
      BY <3>1, <3>3, <3>4, <3>5, <3>6, <1>1 DEF FlushOK
    <3> QED BY <3>2, <3>7
  <2>2. CASE BuildFails
    <3>1. flush # NoTable /\ flush' = NoTable /\ pending' = pending \ {flush}
          /\ compaction' = compaction
      BY <2>2 DEF BuildFails
    <3>2. Compacting => flush \notin Outputs(compaction)
      BY <3>1, <1>1 DEF IInv, FlushOK
    <3>3. CompactionOK'
      BY <3>1, <3>2, <1>1, <1>3, <1>4, <1>6, <1>10, CompactionKept
    <3> QED BY <3>1, <3>3 DEF FlushOK
  <2>3. CASE CompactionFails
    BY <2>3 DEF CompactionFails, Free, FlushOK, CompactionOK, Compacting
  <2> QED BY <2>1, <2>2, <2>3
<1> QED BY <1>6, <1>7, <1>8, <1>11 DEF IInv

(* CompactMemTable writes its table.                                       *)
LEMMA BuildTableStep ==
  ASSUME Types, IInv, Types', BuildTable
  PROVE  IInv'
<1> DEFINE add == IF imm = {} THEN {} ELSE {flush}
<1>0. PICK e : e = saving'.edit
  OBVIOUS
<1>1. /\ flush # NoTable /\ saving = NotSaving
      /\ tables' = IF imm = {} THEN tables
                   ELSE With(tables, flush, [ents |-> imm, whole |-> TRUE])
      /\ pending' = pending \ {flush}
      /\ UNCHANGED <<logs, manifests, current, pc, vs, opening, logNumber, mem,
                     imm, hasImm, flush, compaction, garbage, bgError, iters, history>>
  BY DEF BuildTable
<1>2. /\ e.add = add /\ e.del = {} /\ e.hasNumbers /\ e.log = logNumber
      /\ e.next = vs.next /\ e.seq = vs.seq
      /\ saving' # NotSaving /\ saving'.who = "flush" /\ ~saving'.logged
  <2>1. saving' = [who |-> "flush", edit |-> Edit(add, {}, logNumber), logged |-> FALSE]
    BY DEF BuildTable, LogAndApply
  <2>2. e = Edit(add, {}, logNumber) /\ saving'.who = "flush" /\ saving'.logged = FALSE
    BY <2>1, <1>0
  <2>3. saving' # NotSaving
    BY <2>2 DEF NotSaving
  <2> HIDE DEF add
  <2> QED BY <2>2, <2>3 DEF Edit
<1>3. /\ pc = "open" /\ hasImm /\ garbage = NoGarbage /\ flush < vs.next /\ flush \in Nat
      /\ flush \notin vs.files \cup UNION iters
      /\ \A v \in Versions : flush \notin v.files
      /\ Compacting => flush \notin Outputs(compaction)
  BY <1>1 DEF IInv, Quiet, FlushOK, Types, ProcessTypes
<1>4. Running /\ Running'
  BY <1>1, <1>3 DEF Running
<1>5. /\ InUse /\ Versions \subseteq VersionType(ids)
      /\ Contents = mem \cup imm \cup Ents(tables, vs.files)
      /\ \A v \in Versions : VersionOK(v) /\ Behind(v)
  BY <1>4, RunningFacts
<1>6. UNCHANGED <<scenario, torn, required, synced, ids>>
  BY <1>1 DEF history
<1>7. \A f \in DOMAIN tables \ {flush} : f \in DOMAIN tables' /\ tables'[f] = tables[f]
  BY <1>1 DEF With
<1>8. imm # {} => /\ flush \in DOMAIN tables'
                  /\ tables'[flush].ents = imm /\ tables'[flush].whole = TRUE
  BY <1>1 DEF With
<1>9. Untouched
  <2>1. /\ {flush} \cap (vs.files \cup UNION iters) = {}
        /\ \A v \in Versions : {flush} \cap v.files = {}
    BY <1>3
  <2> QED BY <2>1, <1>1, <1>4, <1>6, <1>7, BackgroundStep
<1>10. DiskOK' /\ RunningOK' /\ Versions' = Versions /\ Latest' = Latest
  <2>1. Target = vs.files /\ Target' = vs'.files
    BY <1>1, <1>2 DEF Target
  <2>2. ~bgError' => ~bgError /\ Target \subseteq Target'
    BY <2>1, <1>1
  <2> QED BY <2>2, <1>4, <1>9, StillRunning
<1>11. Quiet' /\ ReadingOK' /\ SavingOK' /\ CleanOK'
  <2>1. pc' = "open" /\ saving'.who \in {"flush", "compact"}
    BY <1>1, <1>2, <1>3
  <2> QED BY <2>1, StaysOpen
<1>12. FlushOK' /\ ImmOK'
  BY <1>1, <1>2, <1>3 DEF FlushOK, ImmOK
<1>13. CompactionOK'
  <2>1. Compacting => \A n \in Outputs(compaction) : n \in DOMAIN tables /\ n \in pending
    BY DEF IInv, CompactionOK
  <2>2. Compacting => \A n \in Outputs(compaction) :
                        n \in DOMAIN tables' /\ tables'[n] = tables[n] /\ n \in pending'
    BY <2>1, <1>1, <1>3, <1>7
  <2>3. saving.who # "compact"
    BY <1>1 DEF NotSaving
  <2> QED BY <2>2, <2>3, <1>1, <1>9, <1>10, CompactionKept
<1>14. Ents(tables', add) = imm
  <2>1. CASE imm = {}
    BY <2>1 DEF Ents
  <2>2. CASE imm # {}
    BY <2>2, <1>8 DEF Ents
  <2> QED BY <2>1, <2>2
<1>15. Held(e.add, e.next)'
  <2>1. \A f \in add : f = flush /\ imm # {}
    OBVIOUS
  <2>2. garbage'.tables = {}
    BY <1>1, <1>3 DEF NoGarbage
  <2>3. \A f \in add : f \in DOMAIN tables' /\ tables'[f].whole /\ f \notin garbage'.tables
                       /\ f < vs.next
    BY <2>1, <2>2, <1>3, <1>8
  <2> HIDE DEF add
  <2> QED BY <2>3, <1>2 DEF Held
<1>16. UpTo(Contents, vs.seq)
  BY <1>5 DEF InUse
<1>17. UpTo(Ents(tables', e.add), e.seq)
  <2> HIDE DEF add
  <2> QED BY <1>2, <1>5, <1>14, <1>16 DEF UpTo
<1>18. ASSUME NEW v \in Versions'
       PROVE  v.next <= e.next /\ UpTo(Ents(tables', v.files), e.seq)
  <2>1. v \in Versions
    BY <1>10
  <2>2. v.next <= vs.next /\ Reach(v) = Contents
    BY <2>1, <1>5 DEF Behind
  <2>3. Ents(tables', v.files) = Ents(tables, v.files)
    <3>1. \A f \in v.files : tables'[f] = tables[f]
      BY <2>1, <1>9 DEF Untouched
    <3> QED BY <3>1, SameEnts
  <2>4. UpTo(Ents(tables', v.files), vs.seq)
    BY <2>2, <2>3, <1>16 DEF UpTo, Reach
  <2> QED BY <2>2, <2>4, <1>2
<1>19. e.log < e.next /\ e.next <= vs'.next
  <2>1. logNumber < vs.next /\ vs.next \in Nat
    BY <1>5 DEF InUse, LogInUse, From, Types, ProcessTypes
  <2> QED BY <2>1, <1>1, <1>2
<1>20. EditOK'
  <2>1. Ents(tables', e.add) = imm' /\ e.log = logNumber'
    BY <1>1, <1>2, <1>14
  <2>2. garbage' = NoGarbage /\ flush' # NoTable
    BY <1>1, <1>3
  <2>3. Held(saving.edit.add, saving.edit.next)'
    BY <1>0, <1>15
  <2>4. Compacting' => compaction'.out \notin e.add
    BY <1>1, <1>2, <1>3 DEF Compacting, Outputs
  <2> QED BY <2>1, <2>2, <2>3, <2>4, <1>0, <1>2, <1>17, <1>18, <1>19 DEF EditOK
<1> QED BY <1>10, <1>11, <1>12, <1>13, <1>20 DEF IInv

(* An edit of the thread fails; it may be in the MANIFEST all the same.    *)
LEMMA EditFailsStep ==
  ASSUME Types, TornOK, IInv, Types', EditFails, pc = "open"
  PROVE  IInv'
<1>1. saving # NotSaving /\ saving.who \in {"flush", "compact"}
  BY DEF EditFails, IInv, Quiet
<1>2. /\ pc' = "open" /\ saving' = NotSaving /\ bgError' = TRUE
      /\ UNCHANGED <<logs, tables, manifests, current, vs, opening, logNumber, mem, imm,
                     hasImm, iters, scenario, required, synced, ids>>
      /\ garbage' \in {garbage, NoGarbage}
      /\ torn'.behind = torn.behind
  <2>1. torn' = [torn EXCEPT !.manifests = @ \cup {vs.manifest}] =>
          torn'.behind = torn.behind
    BY DEF TornOK
  <2> QED BY <2>1, <1>1 DEF EditFails, RemoveObsoleteFiles
<1>3. Running /\ Running'
  BY <1>2 DEF Running
<1>5. Untouched
  <2>1. PICK S : S = {}
    OBVIOUS
  <2>2. /\ S \cap (vs.files \cup UNION iters) = {}
        /\ \A v \in Versions : S \cap v.files = {}
        /\ \A f \in DOMAIN tables \ S : f \in DOMAIN tables' /\ tables'[f] = tables[f]
    BY <2>1, <1>2
  <2> QED BY <2>2, <1>2, <1>3, BackgroundStep
<1>6. DiskOK' /\ RunningOK' /\ Versions' = Versions /\ Latest' = Latest
  BY <1>2, <1>3, <1>5, StillRunning
<1>7. Quiet' /\ ReadingOK' /\ SavingOK' /\ CleanOK' /\ EditOK' /\ ImmOK'
  BY <1>2, StaysOpen DEF EditOK, ImmOK, IInv
<1>8. FlushOK' /\ CompactionOK'
  <2>1. CASE saving.who = "flush"
    <3>1. flush' = NoTable /\ UNCHANGED <<compaction, pending>>
      BY <2>1 DEF EditFails
    <3>2. Compacting => \A n \in Outputs(compaction) : n \in DOMAIN tables /\ n \in pending
      BY DEF IInv, CompactionOK
    <3>3. saving.who # "compact"
      BY <2>1
    <3> QED BY <3>1, <3>2, <3>3, <1>2, <1>5, <1>6, CompactionKept DEF FlushOK
  <2>2. CASE saving.who = "compact"
    <3>1. compaction' = NoCompaction /\ flush' = flush /\ flush = NoTable
      BY <2>2, <1>1 DEF EditFails, IInv, EditOK
    <3> QED BY <3>1 DEF FlushOK, CompactionOK, Compacting
  <2> QED BY <2>1, <2>2, <1>1
<1> QED BY <1>6, <1>7, <1>8 DEF IInv

(* A compaction opens an output.                                           *)
LEMMA OutputStep ==
  ASSUME Types, IInv, Types', Free, NEW T, NEW S,
         NEW c \in [inputs : SUBSET Nat, outs : SUBSET Nat, out : Nat,
                    left : SUBSET Rec(ids)],
         OpenOutput(c, T), c.inputs \subseteq vs.files,
         \A n \in c.outs : n \in DOMAIN T /\ T[n].whole /\ n \in pending /\ n < vs.next,
         Ents(T, c.inputs) = Ents(T, c.outs) \cup c.left,
         S \cap (vs.files \cup UNION iters) = {},
         \A v \in Versions : S \cap v.files = {},
         \A f \in DOMAIN tables \ S : f \in DOMAIN T /\ T[f] = tables[f]
  PROVE  IInv'
<1>1. /\ tables' = With(T, vs.next, [ents |-> {}, whole |-> FALSE])
      /\ pending' = pending \cup {vs.next}
      /\ vs' = [vs EXCEPT !.next = @ + 1]
      /\ UNCHANGED <<logs, manifests, current, pc, opening, logNumber, mem, imm,
                     hasImm, flush, saving, garbage, bgError, iters, history>>
  BY DEF OpenOutput
<1>2. /\ compaction'.inputs = c.inputs /\ compaction'.outs = c.outs
      /\ compaction'.out = vs.next /\ compaction'.left = c.left
  BY DEF OpenOutput
<1>3. pc = "open" /\ flush = NoTable /\ saving = NotSaving /\ garbage = NoGarbage
  BY DEF Free
<1>4. Running /\ Running'
  BY <1>1, <1>3 DEF Running
<1>5. /\ vs.next \in Nat
      /\ vs.next \notin vs.files \cup UNION iters
      /\ \A v \in Versions : vs.next \notin v.files
  BY <1>4, NextIsNew
<1>6. vs.files \subseteq DOMAIN tables
  BY <1>4, RunningFacts
<1>7. UNCHANGED <<scenario, torn, required, synced, ids>>
  BY <1>1 DEF history
<1>8. /\ \A f \in DOMAIN T \ {vs.next} : f \in DOMAIN tables' /\ tables'[f] = T[f]
      /\ vs.next \in DOMAIN tables'
  BY <1>1 DEF With
<1>9. PICK R : R = S \cup {vs.next}
  OBVIOUS
<1>10. \A f \in DOMAIN tables \ R : f \in DOMAIN tables' /\ tables'[f] = tables[f]
  BY <1>8, <1>9
<1>11. Untouched
  <2>1. /\ R \cap (vs.files \cup UNION iters) = {}
        /\ \A v \in Versions : R \cap v.files = {}
    BY <1>5, <1>9
  <2>2. garbage' \in {garbage, NoGarbage} /\ vs' \in {vs, [vs EXCEPT !.next = @ + 1]}
    BY <1>1
  <2> QED BY <2>1, <2>2, <1>1, <1>4, <1>7, <1>10, BackgroundStep
<1>12. vs'.files = vs.files /\ vs'.next = vs.next + 1
  BY <1>1 DEF Types, ProcessTypes
<1>13. DiskOK' /\ RunningOK' /\ Versions' = Versions /\ Latest' = Latest
  <2>1. Target' = Target
    BY <1>1, <1>12 DEF Target
  <2>2. ~bgError' => ~bgError /\ Target \subseteq Target'
    BY <2>1, <1>1
  <2> QED BY <2>2, <1>4, <1>11, StillRunning
<1>14. Quiet' /\ ReadingOK' /\ SavingOK' /\ CleanOK' /\ FlushOK' /\ EditOK' /\ ImmOK'
  BY <1>1, <1>3, StaysOpen DEF FlushOK, EditOK, ImmOK, IInv
<1>15. \A n \in c.outs : /\ n \in DOMAIN tables' /\ tables'[n] = T[n] /\ tables'[n].whole
                         /\ n \in pending' /\ n < vs'.next
  <2>1. \A n \in c.outs : n \in Nat /\ n < vs.next /\ n \in DOMAIN T
    OBVIOUS
  <2>2. \A n \in c.outs : n # vs.next /\ n < vs'.next
    BY <2>1, <1>5, <1>12
  <2> QED BY <2>1, <2>2, <1>1, <1>8
<1>16. \A n \in Outputs(compaction') :
         /\ n \in DOMAIN tables' /\ n \in pending' /\ n < vs'.next
         /\ n \notin garbage'.tables
  <2>1. garbage'.tables = {}
    BY <1>1, <1>3 DEF NoGarbage
  <2>2. Outputs(compaction') = c.outs \cup {vs.next}
    BY <1>2 DEF Outputs
  <2>3. vs.next < vs'.next /\ vs.next \in pending'
    BY <1>1, <1>5, <1>12
  <2> QED BY <2>1, <2>2, <2>3, <1>8, <1>15
<1>17. Ents(tables', c.inputs) = Ents(tables', c.outs) \cup c.left
  <2>1. \A f \in c.inputs : tables'[f] = T[f]
    BY <1>5, <1>6, <1>8
  <2>2. \A f \in c.outs : tables'[f] = T[f]
    BY <1>15
  <2>3. Ents(tables', c.inputs) = Ents(T, c.inputs)
    BY <2>1, SameEnts
  <2>4. Ents(tables', c.outs) = Ents(T, c.outs)
    BY <2>2, SameEnts
  <2> QED BY <2>3, <2>4
<1>18. vs.next \notin c.outs
  <2>1. \A n \in c.outs : n < vs.next
    OBVIOUS
  <2>2. PICK x : x = vs.next
    OBVIOUS
  <2>3. ~(x < x)
    BY <2>2, <1>5
  <2> QED BY <2>1, <2>2, <2>3, Zenon
<1>19. CompactionOK'
  <2>1. compaction'.inputs \subseteq vs'.files
    BY <1>2, <1>12
  <2>2. \A n \in compaction'.outs : tables'[n].whole
    BY <1>2, <1>15
  <2>3. compaction'.out \notin vs'.files \cup compaction'.outs \cup UNION iters'
    BY <1>1, <1>2, <1>5, <1>12, <1>18
  <2>4. \A v \in Versions' : compaction'.out \notin v.files
    BY <1>2, <1>5, <1>13
  <2>5. Ents(tables', compaction'.inputs) = Ents(tables', compaction'.outs) \cup compaction'.left
    BY <1>2, <1>17
  <2> QED BY <2>1, <2>2, <2>3, <2>4, <2>5, <1>16 DEF CompactionOK
<1> QED BY <1>13, <1>14, <1>19 DEF IInv

(* A compaction begins.                                                    *)
LEMMA StartCompactionStep ==
  ASSUME Types, IInv, Types', NEW inputs \in SUBSET vs.files, StartCompaction(inputs)
  PROVE  IInv'
<1>1. PICK c : c = [NoCompaction EXCEPT
                      !.inputs = inputs, !.left = UNION {tables[i].ents : i \in inputs}]
  OBVIOUS
<1>2. Free /\ OpenOutput(c, tables)
  BY <1>1 DEF StartCompaction, MaybeScheduleCompaction
<1>3. vs.files \subseteq DOMAIN tables /\ vs.files \subseteq Nat
      /\ Numbering(tables, TableFile(ids))
  BY <1>2, RunningFacts DEF Running, Free, Types, ProcessTypes, DiskTypes
<1>4. Ents(tables, inputs) \subseteq Rec(ids)
  <2>1. \A i \in inputs : tables[i].ents \subseteq Rec(ids)
    BY <1>3 DEF Numbering, TableFile
  <2> QED BY <2>1 DEF Ents
<1>5. c = [inputs |-> inputs, outs |-> {}, out |-> NoTable, left |-> Ents(tables, inputs)]
  BY <1>1 DEF NoCompaction, Ents
<1>6. c \in [inputs : SUBSET Nat, outs : SUBSET Nat, out : Nat, left : SUBSET Rec(ids)]
  BY <1>3, <1>4, <1>5 DEF NoTable
<1>7. c.inputs = inputs /\ c.outs = {} /\ c.left = Ents(tables, inputs)
  BY <1>5
<1>8. Ents(tables, c.inputs) = Ents(tables, c.outs) \cup c.left
  BY <1>7 DEF Ents
<1>9. PICK S : S = {}
  OBVIOUS
<1>10. /\ S \cap (vs.files \cup UNION iters) = {}
       /\ \A v \in Versions : S \cap v.files = {}
  BY <1>9
<1>11. /\ c.inputs \subseteq vs.files
       /\ \A n \in c.outs : n \in DOMAIN tables /\ tables[n].whole /\ n \in pending /\ n < vs.next
       /\ \A f \in DOMAIN tables \ S : f \in DOMAIN tables /\ tables[f] = tables[f]
  BY <1>7
<1> HIDE DEF OpenOutput, Free
<1> QED BY <1>2, <1>6, <1>8, <1>10, <1>11, OutputStep

(* The record of a running compaction and its outputs.                     *)
LEMMA CompactionFacts ==
  ASSUME Types, IInv, Free, Compacting
  PROVE  /\ compaction \in [inputs : SUBSET Nat, outs : SUBSET Nat, out : Nat,
                            left : SUBSET Rec(ids)]
         /\ compaction.inputs \subseteq vs.files
         /\ \A n \in Outputs(compaction) :
              /\ n \in DOMAIN tables /\ n \in pending /\ n < vs.next
              /\ n \notin garbage.tables
         /\ \A n \in compaction.outs : tables[n].whole
         /\ Ents(tables, compaction.inputs)
              = Ents(tables, compaction.outs) \cup compaction.left
         /\ compaction.out \notin vs.files /\ compaction.out \notin UNION iters
         /\ compaction.out \notin compaction.outs
         /\ \A v \in Versions : compaction.out \notin v.files
<1>1. CompactionOK /\ saving.who # "compact"
  BY DEF IInv, Free, NotSaving
<1>2. compaction \in [inputs : SUBSET Nat, outs : SUBSET Nat, out : Nat,
                      left : SUBSET Rec(ids)]
  BY DEF Types, ProcessTypes
<1>3. /\ compaction.out \notin vs.files \cup compaction.outs \cup UNION iters
      /\ \A v \in Versions : compaction.out \notin v.files
      /\ Ents(tables, compaction.inputs)
           = Ents(tables, compaction.outs) \cup compaction.left
  BY <1>1 DEF CompactionOK
<1>4. /\ compaction.inputs \subseteq vs.files
      /\ \A n \in Outputs(compaction) :
           /\ n \in DOMAIN tables /\ n \in pending /\ n < vs.next
           /\ n \notin garbage.tables
      /\ \A n \in compaction.outs : tables[n].whole
  BY <1>1 DEF CompactionOK
<1>5. compaction.out \notin vs.files /\ compaction.out \notin UNION iters
      /\ compaction.out \notin compaction.outs
  BY <1>3
<1> QED BY <1>2, <1>3, <1>4, <1>5, Zenon

(* A compaction closes an output and opens another.                        *)
LEMMA NextOutputStep ==
  ASSUME Types, IInv, Types', NEW part \in SUBSET compaction.left, NextOutput(part)
  PROVE  IInv'
<1>1. PICK c : c = [compaction EXCEPT !.outs = @ \cup {compaction.out}, !.left = @ \ part]
  OBVIOUS
<1>2. PICK T : T = Closed(compaction.out, part)
  OBVIOUS
<1>3. Free /\ Compacting /\ OpenOutput(c, T)
  BY <1>1, <1>2 DEF NextOutput
<1>4. /\ compaction \in [inputs : SUBSET Nat, outs : SUBSET Nat, out : Nat,
                         left : SUBSET Rec(ids)]
      /\ compaction.inputs \subseteq vs.files
      /\ \A n \in Outputs(compaction) : n \in DOMAIN tables /\ n \in pending /\ n < vs.next
      /\ \A n \in compaction.outs : tables[n].whole
      /\ Ents(tables, compaction.inputs)
           = Ents(tables, compaction.outs) \cup compaction.left
      /\ compaction.out \notin vs.files /\ compaction.out \notin UNION iters
      /\ compaction.out \notin compaction.outs
      /\ \A v \in Versions : compaction.out \notin v.files
  BY <1>3, CompactionFacts
<1>5. c \in [inputs : SUBSET Nat, outs : SUBSET Nat, out : Nat, left : SUBSET Rec(ids)]
      /\ c.inputs = compaction.inputs /\ c.outs = compaction.outs \cup {compaction.out}
      /\ c.left = compaction.left \ part
  BY <1>1, <1>4
<1>6. compaction.out \in DOMAIN tables /\ compaction.outs \subseteq DOMAIN tables
  BY <1>4 DEF Outputs
<1>7. /\ T[compaction.out].ents = part /\ T[compaction.out].whole
      /\ DOMAIN T = DOMAIN tables
      /\ \A f \in DOMAIN tables : f # compaction.out => T[f] = tables[f]
  <2>1. T = [tables EXCEPT ![compaction.out] = [ents |-> part, whole |-> TRUE]]
    BY <1>2, <1>6 DEF Closed
  <2> QED BY <2>1, <1>6
<1>8. \A n \in c.outs : n \in DOMAIN T /\ T[n].whole /\ n \in pending /\ n < vs.next
  BY <1>4, <1>5, <1>6, <1>7 DEF Outputs
<1>9. Ents(T, c.inputs) = Ents(tables, compaction.inputs)
  <2>1. \A f \in compaction.inputs : f \in DOMAIN tables /\ T[f] = tables[f]
    BY <1>3, <1>4, <1>7, RunningFacts DEF Running, Free
  <2> QED BY <2>1, <1>5, SameEnts
<1>10. Ents(T, c.outs) = Ents(tables, compaction.outs) \cup part
  <2>1. \A f \in compaction.outs : T[f] = tables[f]
    BY <1>4, <1>6, <1>7
  <2>2. Ents(T, compaction.outs) = Ents(tables, compaction.outs)
    BY <2>1, SameEnts
  <2>3. Ents(T, {compaction.out}) = part
    BY <1>7 DEF Ents
  <2> QED BY <2>2, <2>3, <1>5, EntsUnion
<1>11. Ents(T, c.inputs) = Ents(T, c.outs) \cup c.left
  BY <1>4, <1>5, <1>9, <1>10
<1>12. PICK S : S = {compaction.out}
  OBVIOUS
<1>13. /\ S \cap (vs.files \cup UNION iters) = {}
       /\ \A v \in Versions : S \cap v.files = {}
       /\ \A f \in DOMAIN tables \ S : f \in DOMAIN T /\ T[f] = tables[f]
       /\ c.inputs \subseteq vs.files
  BY <1>4, <1>5, <1>7, <1>12
<1> QED BY <1>3, <1>5, <1>8, <1>11, <1>13, OutputStep, ZenonT(40)

(* A compaction closes its last output and fixes its edit.                 *)
LEMMA FinishCompactionStep ==
  ASSUME Types, IInv, Types', FinishCompaction
  PROVE  IInv'
<1>0. PICK e, T, out : e = saving'.edit /\ T = tables' /\ out = compaction.out
  OBVIOUS
<1>1. /\ Free /\ Compacting /\ T = Closed(compaction.out, compaction.left)
      /\ UNCHANGED <<logs, manifests, current, pc, vs, opening, logNumber, mem, imm,
                     hasImm, pending, flush, compaction, garbage, bgError, iters, history>>
  BY <1>0 DEF FinishCompaction
<1>2. /\ e.add = Outputs(compaction) /\ e.del = compaction.inputs /\ e.hasNumbers
      /\ e.log = vs.log /\ e.next = vs.next /\ e.seq = vs.seq
      /\ saving' # NotSaving /\ saving'.who = "compact" /\ ~saving'.logged
  <2>1. saving' = [who |-> "compact",
                   edit |-> Edit(Outputs(compaction), compaction.inputs, vs.log),
                   logged |-> FALSE]
    BY DEF FinishCompaction, LogAndApply
  <2>2. e = Edit(Outputs(compaction), compaction.inputs, vs.log)
        /\ saving'.who = "compact" /\ saving'.logged = FALSE
    BY <2>1, <1>0
  <2>3. saving' # NotSaving
    BY <2>2 DEF NotSaving
  <2> QED BY <2>2, <2>3 DEF Edit
<1>3. pc = "open" /\ flush = NoTable /\ saving = NotSaving /\ garbage = NoGarbage
  BY <1>1 DEF Free
<1>4. Running /\ Running'
  BY <1>1, <1>3 DEF Running
<1>5. /\ InUse /\ Versions \subseteq VersionType(ids) /\ vs.files \subseteq DOMAIN tables
      /\ Contents = mem \cup imm \cup Ents(tables, vs.files)
      /\ \A v \in Versions : VersionOK(v) /\ Behind(v)
  BY <1>4, RunningFacts
<1>6. /\ compaction \in [inputs : SUBSET Nat, outs : SUBSET Nat, out : Nat,
                         left : SUBSET Rec(ids)]
      /\ compaction.inputs \subseteq vs.files
      /\ \A n \in Outputs(compaction) : n \in DOMAIN tables /\ n \in pending /\ n < vs.next
      /\ \A n \in compaction.outs : tables[n].whole
      /\ Ents(tables, compaction.inputs)
           = Ents(tables, compaction.outs) \cup compaction.left
      /\ out \notin vs.files /\ out \notin UNION iters
      /\ out \notin compaction.outs
      /\ \A v \in Versions : out \notin v.files
  BY <1>0, <1>1, CompactionFacts
<1>7. UNCHANGED <<scenario, torn, required, synced, ids>>
  BY <1>1 DEF history
<1>8. out \in DOMAIN tables /\ compaction.outs \subseteq DOMAIN tables
  BY <1>0, <1>6 DEF Outputs
<1>9. /\ T[out].ents = compaction.left /\ T[out].whole
      /\ DOMAIN T = DOMAIN tables
      /\ \A f \in DOMAIN tables : f # out => T[f] = tables[f]
  <2>1. T = [tables EXCEPT ![out] = [ents |-> compaction.left, whole |-> TRUE]]
    BY <1>0, <1>1, <1>8 DEF Closed
  <2> QED BY <2>1, <1>8
<1>10. Untouched
  <2>1. /\ {out} \cap (vs.files \cup UNION iters) = {}
        /\ \A v \in Versions : {out} \cap v.files = {}
    BY <1>6
  <2>2. \A f \in DOMAIN tables \ {out} : f \in DOMAIN tables' /\ tables'[f] = tables[f]
    BY <1>0, <1>9
  <2> QED BY <2>1, <2>2, <1>1, <1>4, <1>7, BackgroundStep
<1>11. DiskOK' /\ RunningOK' /\ Versions' = Versions /\ Latest' = Latest
  <2>1. Target = vs.files /\ Target' = vs'.files
    BY <1>1, <1>2, <1>3 DEF Target
  <2>2. ~bgError' => ~bgError /\ Target \subseteq Target'
    BY <2>1, <1>1
  <2> QED BY <2>2, <1>4, <1>10, StillRunning
<1>12. Quiet' /\ ReadingOK' /\ SavingOK' /\ CleanOK'
  <2>1. pc' = "open" /\ saving'.who \in {"flush", "compact"}
    BY <1>1, <1>2, <1>3
  <2> QED BY <2>1, StaysOpen
<1>13. FlushOK' /\ ImmOK'
  BY <1>1, <1>3 DEF FlushOK, ImmOK, IInv
<1>14. garbage'.tables = {} /\ garbage' = NoGarbage
  BY <1>1, <1>3 DEF NoGarbage
<1>15. /\ \A n \in Outputs(compaction) : /\ n \in DOMAIN T /\ T[n].whole
                                         /\ n \in pending /\ n < vs.next
       /\ \A n \in compaction.outs : T[n].whole
  BY <1>0, <1>6, <1>8, <1>9 DEF Outputs
<1>16. CompactionOK'
  <2>1. compaction'.inputs \subseteq vs'.files /\ compaction' = compaction
    BY <1>1, <1>6
  <2>2. \A n \in Outputs(compaction') :
          /\ n \in DOMAIN tables' /\ n \in pending' /\ n < vs'.next
          /\ n \notin garbage'.tables
    BY <2>1, <1>0, <1>1, <1>14, <1>15
  <2>3. \A n \in compaction'.outs : tables'[n].whole
    BY <2>1, <1>0, <1>15
  <2> QED BY <2>1, <2>2, <2>3, <1>2 DEF CompactionOK
<1>17. Ents(T, compaction.inputs) = Ents(tables, compaction.inputs)
  <2>1. \A f \in compaction.inputs : T[f] = tables[f]
    BY <1>5, <1>6, <1>9
  <2> QED BY <2>1, SameEnts
<1>18. Ents(T, Outputs(compaction)) = Ents(tables, compaction.inputs)
  <2>1. \A f \in compaction.outs : T[f] = tables[f]
    BY <1>6, <1>8, <1>9
  <2>2. Ents(T, compaction.outs) = Ents(tables, compaction.outs)
    BY <2>1, SameEnts
  <2>3. Ents(T, {out}) = compaction.left
    BY <1>9 DEF Ents
  <2> QED BY <2>2, <2>3, <1>0, <1>6, EntsUnion DEF Outputs
<1>19. UpTo(Contents, vs.seq)
  BY <1>5 DEF InUse
<1>20. UpTo(Ents(T, e.add), e.seq)
  <2>1. Ents(tables, compaction.inputs) \subseteq Ents(tables, vs.files)
    BY <1>6 DEF Ents
  <2> QED BY <2>1, <1>2, <1>5, <1>18, <1>19 DEF UpTo
<1>21. ASSUME NEW v \in Versions'
       PROVE  v.next <= e.next /\ UpTo(Ents(T, v.files), e.seq)
  <2>1. v \in Versions
    BY <1>11
  <2>2. v.next <= vs.next /\ Reach(v) = Contents
    BY <2>1, <1>5 DEF Behind
  <2>3. Ents(T, v.files) = Ents(tables, v.files)
    <3>1. \A f \in v.files : T[f] = tables[f]
      BY <2>1, <1>0, <1>10 DEF Untouched
    <3> QED BY <3>1, SameEnts
  <2>4. UpTo(Ents(T, v.files), vs.seq)
    BY <2>2, <2>3, <1>19 DEF UpTo, Reach
  <2> QED BY <2>2, <2>4, <1>2
<1>22. e.log < e.next /\ e.next <= vs'.next
  <2>1. logNumber \in Nat /\ logNumber < vs.next /\ vs.log <= logNumber
        /\ vs.log \in Nat /\ vs.next \in Nat
    BY <1>5 DEF InUse, LogInUse, From, Types, ProcessTypes
  <2> QED BY <2>1, <1>1, <1>2
<1>23. EditOK'
  <2>1. Held(e.add, e.next)'
    BY <1>0, <1>2, <1>14, <1>15 DEF Held
  <2>2. Held(saving.edit.add, saving.edit.next)'
    BY <2>1, <1>0
  <2>3. /\ Ents(tables', e.add) = Ents(tables', e.del)
        /\ UpTo(Ents(tables', e.add), e.seq)
        /\ \A v \in Versions' : v.next <= e.next /\ UpTo(Ents(tables', v.files), e.seq)
    BY <1>0, <1>2, <1>17, <1>18, <1>20, <1>21
  <2>4. /\ saving'.who = "compact" /\ Compacting' /\ flush' = NoTable
        /\ e.add = Outputs(compaction') /\ e.del = compaction'.inputs
        /\ e.log = vs'.log
    BY <1>1, <1>2, <1>3 DEF Compacting
  <2> QED BY <2>2, <2>3, <2>4, <1>0, <1>2, <1>14, <1>22 DEF EditOK
<1> QED BY <1>11, <1>12, <1>13, <1>16, <1>23 DEF IInv

(* A record is appended to a log.                                          *)
LEMMA LogAppended ==
  ASSUME NEW n \in Nat, NEW f \in LogFile(n), NEW r, NEW sync \in BOOLEAN,
         NEW g, g = IF sync THEN Synced(Appended(f, r)) ELSE Appended(f, r)
  PROVE  /\ RecsOf(g) = RecsOf(f) \cup {r} /\ SyncedOf(f) \subseteq SyncedOf(g)
         /\ sync => r \in SyncedOf(g)
<1>1. f \in [recs : Seq(Rec(n)), synced : Nat] /\ f.synced \in Nat
      /\ f.recs \in Seq(Rec(n)) /\ f.synced <= Len(f.recs) /\ Len(f.recs) \in Nat
      /\ DOMAIN f.recs = 1 .. Len(f.recs)
  BY DEF LogFile
<1>2. PICK S : S = Rec(n) \cup {r}
  OBVIOUS
<1>3. f.recs \in Seq(S) /\ r \in S
  BY <1>1, <1>2
<1>4. PICK h : h = Appended(f, r)
  OBVIOUS
<1>5. h.recs = Append(f.recs, r) /\ h.synced = f.synced
      /\ h = [recs |-> Append(f.recs, r), synced |-> f.synced]
  BY <1>1, <1>4, FileSteps
<1>6. Append(f.recs, r) \in Seq(S)
  BY <1>3
<1>7. h \in [recs : Seq(S), synced : Nat]
  BY <1>1, <1>5, <1>6
<1>8. Len(h.recs) = Len(f.recs) + 1 /\ DOMAIN h.recs = 1 .. Len(f.recs) + 1
      /\ h.recs[Len(f.recs) + 1] = r /\ \A i \in 1 .. Len(f.recs) : h.recs[i] = f.recs[i]
  BY <1>3, <1>5, <1>1
<1>9. g.recs = h.recs /\ g.synced = IF sync THEN Len(f.recs) + 1 ELSE f.synced
  <2>1. Synced(h) = [recs |-> h.recs, synced |-> Len(h.recs)]
    BY <1>7, FileSteps
  <2>2. Synced(h).recs = h.recs /\ Synced(h).synced = Len(f.recs) + 1
    BY <2>1, <1>8
  <2>3. g = IF sync THEN Synced(h) ELSE h
    BY <1>4
  <2>4. CASE sync
    BY <2>2, <2>3, <2>4
  <2>5. CASE ~sync
    BY <2>3, <2>5, <1>5
  <2> QED BY <2>4, <2>5
<1>10. RecsOf(g) = {h.recs[i] : i \in 1 .. Len(f.recs) + 1}
  BY <1>8, <1>9 DEF RecsOf
<1>11. RecsOf(g) = RecsOf(f) \cup {r}
  <2>1. 1 .. Len(f.recs) + 1 = (1 .. Len(f.recs)) \cup {Len(f.recs) + 1}
    BY <1>1
  <2>2. RecsOf(f) = {h.recs[i] : i \in 1 .. Len(f.recs)}
    BY <1>1, <1>8 DEF RecsOf
  <2>3. PICK len : len = Len(f.recs)
    OBVIOUS
  <2> QED BY <2>1, <2>2, <2>3, <1>8, <1>10
<1>12. /\ 1 .. f.synced \subseteq 1 .. g.synced
       /\ 1 .. f.synced \subseteq 1 .. Len(f.recs)
       /\ sync => Len(f.recs) + 1 \in 1 .. g.synced
  BY <1>1, <1>9
<1>13. SyncedOf(f) \subseteq SyncedOf(g)
  BY <1>8, <1>9, <1>12 DEF SyncedOf
<1>14. sync => r \in SyncedOf(g)
  BY <1>8, <1>9, <1>12 DEF SyncedOf
<1> QED BY <1>11, <1>13, <1>14

(* The log that the record goes to is among those that count.              *)
Grown(L, M, m, r, k) ==
  /\ LogRecs(M, k) = LogRecs(L, k) \cup {r}
  /\ SyncedRecs(L, k) \cup SyncedOf(M[m]) \subseteq SyncedRecs(M, k)

(* All logs from a number on have one record more.                         *)
LEMMA LogsAppended ==
  ASSUME NEW L, NEW M, DOMAIN L \subseteq Nat, DOMAIN M = DOMAIN L, NEW m \in DOMAIN L,
         \A j \in DOMAIN L : j # m => M[j] = L[j], NEW r,
         RecsOf(M[m]) = RecsOf(L[m]) \cup {r}, SyncedOf(L[m]) \subseteq SyncedOf(M[m]),
         NEW k \in Nat, k <= m
  PROVE  Grown(L, M, m, r, k)
<1>3. From(M, k) = From(L, k) /\ m \in From(L, k)
      /\ \A j \in From(L, k) : j # m => M[j] = L[j]
  BY DEF From
<1>4. \A j \in From(L, k) : /\ RecsOf(L[j]) \subseteq RecsOf(M[j])
                            /\ SyncedOf(L[j]) \subseteq SyncedOf(M[j])
                            /\ RecsOf(M[j]) \subseteq RecsOf(L[j]) \cup {r}
  BY <1>3
<1>5. r \in RecsOf(M[m])
  OBVIOUS
<1>6. LogRecs(M, k) = LogRecs(L, k) \cup {r}
  <2>1. LogRecs(M, k) \subseteq LogRecs(L, k) \cup {r}
    BY <1>3, <1>4 DEF LogRecs
  <2>2. LogRecs(L, k) \subseteq LogRecs(M, k)
    BY <1>3, <1>4 DEF LogRecs
  <2>3. r \in LogRecs(M, k)
    BY <1>3, <1>5 DEF LogRecs
  <2> QED BY <2>1, <2>2, <2>3
<1>7. SyncedRecs(L, k) \subseteq SyncedRecs(M, k)
  BY <1>3, <1>4 DEF SyncedRecs
<1>8. SyncedOf(M[m]) \subseteq SyncedRecs(M, k)
  BY <1>3 DEF SyncedRecs
<1> QED BY <1>6, <1>7, <1>8 DEF Grown

(* A write is in the log in use and in the memtable.  Its sequence number  *)
(* is beyond all others, and its id is new.                                *)
LEMMA WriteStep ==
  ASSUME Types, TornOK, IInv, Types', synced \subseteq 0 .. ids,
         NEW sync \in BOOLEAN, Write(sync)
  PROVE  IInv'
<1>1. PICK r, g : /\ r = [seq |-> vs.seq + 1, id |-> ids + 1]
                  /\ g = IF sync THEN Synced(Appended(logs[logNumber], r))
                         ELSE Appended(logs[logNumber], r)
  OBVIOUS
<1>2. /\ pc = "open" /\ ~bgError
      /\ logs' = With(logs, logNumber, g) /\ mem' = mem \cup {r}
      /\ vs' = [vs EXCEPT !.seq = @ + 1] /\ ids' = ids + 1
      /\ required' = required \cup {r.id}
      /\ synced' = IF sync THEN synced \cup {r.id} ELSE synced
      /\ UNCHANGED <<tables, manifests, current, pc, opening, logNumber, imm,
                     hasImm, bgVars, iters, scenario, torn, crashes>>
  BY <1>1, PlainWrite
<1>3. UNCHANGED <<pending, flush, compaction, saving, garbage, bgError>>
  BY <1>2 DEF bgVars
<1>4. Running
  BY <1>2 DEF Running
<1>5. /\ InUse /\ Database /\ current # 0
      /\ vs.files \subseteq DOMAIN tables
      /\ Contents = mem \cup imm \cup Ents(tables, vs.files)
      /\ Versions \subseteq VersionType(ids) /\ Latest \in Versions
      /\ \A v \in Versions : VersionOK(v) /\ Behind(v)
  BY <1>4, RunningFacts
<1>6. /\ DOMAIN logs \subseteq Nat /\ ids \in Nat /\ vs.seq \in Nat
      /\ logNumber \in DOMAIN logs /\ logs[logNumber] \in LogFile(ids)
      /\ logNumber \in From(logs, vs.log) /\ vs.log \in Nat /\ vs.log <= logNumber
      /\ mem = RecsOf(logs[logNumber])
  BY <1>5 DEF InUse, LogInUse, From, Types, DiskTypes, ProcessTypes, Numbering
<1>7. /\ vs'.files = vs.files /\ vs'.log = vs.log /\ vs'.next = vs.next
      /\ vs'.manifest = vs.manifest /\ vs'.desc = vs.desc /\ vs'.seq = vs.seq + 1
  BY <1>2 DEF Types, ProcessTypes
<1>8. /\ RecsOf(g) = RecsOf(logs[logNumber]) \cup {r}
      /\ SyncedOf(logs[logNumber]) \subseteq SyncedOf(g)
      /\ sync => r \in SyncedOf(g)
  BY <1>1, <1>6, LogAppended
<1>9. /\ DOMAIN logs' = DOMAIN logs /\ logs'[logNumber] = g
      /\ \A j \in DOMAIN logs : j # logNumber => logs'[j] = logs[j]
  BY <1>2, <1>6 DEF With
<1>9a. ASSUME NEW k \in Nat, k <= logNumber
      PROVE  /\ LogRecs(logs', k) = LogRecs(logs, k) \cup {r}
             /\ SyncedRecs(logs, k) \cup SyncedOf(g) \subseteq SyncedRecs(logs', k)
  <2>1. Grown(logs, logs', logNumber, r, k)
    BY <1>6, <1>8, <1>9, <1>9a, LogsAppended
  <2> QED BY <2>1, <1>9 DEF Grown
<1>10. /\ DOMAIN logs' = DOMAIN logs /\ logs'[logNumber] = g
       /\ \A j \in DOMAIN logs : j # logNumber => logs'[j] = logs[j]
       /\ imm \subseteq LogRecs(logs', vs.log)
  BY <1>5, <1>6, <1>9, <1>9a DEF InUse
<1>11. Versions' = Versions /\ Latest' = Latest
  BY <1>2, VersionsKept
<1>12. Contents' = Contents \cup {r}
  <2>1. Contents' = mem' \cup imm \cup Ents(tables, vs.files)
    BY <1>2, <1>5, <1>7 DEF Contents, InTables, Ents
  <2> QED BY <2>1, <1>2, <1>5
<1>13. r.seq = vs.seq + 1 /\ r.id = ids + 1
  BY <1>1
<1>14. UpTo(Contents', vs'.seq) /\ \A q \in Contents : q.seq # r.seq
  <2>1. \A q \in Contents : q.seq <= vs.seq /\ q.seq \in Nat
    <3>1. Contents \subseteq Rec(ids)
      <4>1. \A n \in vs.files : tables[n].ents \subseteq Rec(ids)
        BY <1>5 DEF Types, DiskTypes, Numbering, TableFile
      <4>2. Ents(tables, vs.files) \subseteq Rec(ids)
        BY <4>1 DEF Ents
      <4> QED BY <4>2, <1>5 DEF Types, ProcessTypes
    <3> QED BY <3>1, <1>5, <1>6 DEF InUse, UpTo, Rec
  <2>2. \A q \in Contents' : q \in Contents \/ q = r
    BY <1>12
  <2>3. \A q \in Contents' : q.seq <= vs'.seq
    BY <2>1, <2>2, <1>6, <1>7, <1>13
  <2> QED BY <2>1, <2>3, <1>6, <1>13 DEF UpTo
<1>15. ASSUME NEW v \in Versions
       PROVE  /\ v.log \in Nat /\ v.log <= logNumber
              /\ Reach(v)' = Reach(v) \cup {r} /\ Reach(v) = Contents
              /\ LogRecs(logs', v.log) = LogRecs(logs, v.log) \cup {r}
              /\ SyncedRecs(logs, v.log) \cup SyncedOf(g) \subseteq SyncedRecs(logs', v.log)
  <2>1. v.log \in Nat /\ v.log <= logNumber /\ Reach(v) = Contents
    BY <1>5 DEF Behind, VersionType
  <2>2. LogRecs(logs', v.log) = LogRecs(logs, v.log) \cup {r}
        /\ SyncedRecs(logs, v.log) \cup SyncedOf(g) \subseteq SyncedRecs(logs', v.log)
    BY <2>1, <1>9a
  <2>3. Reach(v)' = Reach(v) \cup {r}
    BY <2>2, <1>2 DEF Reach
  <2> QED BY <2>1, <2>2, <2>3
<1>16. ASSUME NEW v \in Versions PROVE Covers(v.files, v.log)'
  <2>1. Covers(v.files, v.log)
    BY <1>5 DEF VersionOK
  <2>2. PICK E, K, K2 : /\ E = Ents(tables, v.files) /\ K = SyncedRecs(logs, v.log)
                        /\ K2 = SyncedRecs(logs', v.log)
    OBVIOUS
  <2>3. required' \subseteq IdsOf(E \cup LogRecs(logs', v.log))
    <3>1. required \subseteq IdsOf(E \cup LogRecs(logs, v.log))
      BY <2>1, <2>2 DEF Covers
    <3> QED BY <3>1, <1>2, <1>15 DEF IdsOf
  <2>4. scenario.reboots => required' \cap synced' \subseteq IdsOf(E \cup K2)
    <3>1. SUFFICES ASSUME scenario.reboots, NEW x \in required', x \in synced'
                   PROVE  x \in IdsOf(E \cup K2)
      OBVIOUS
    <3>2. required \cap synced \subseteq IdsOf(E \cup K) /\ K \subseteq K2
      BY <3>1, <2>1, <2>2, <1>15 DEF Covers
    <3>3. CASE x \in required /\ x \in synced
      BY <3>2, <3>3 DEF IdsOf
    <3>4. CASE ~(x \in required /\ x \in synced)
      <4>1. ids + 1 \notin synced
        BY <1>6
      <4>2. sync /\ x = r.id
        BY <4>1, <3>1, <3>4, <1>2, <1>13
      <4>3. r \in K2
        BY <4>2, <2>2, <1>8, <1>15
      <4> QED BY <4>2, <4>3 DEF IdsOf
    <3> QED BY <3>3, <3>4
  <2> QED BY <2>2, <2>3, <2>4, <1>2 DEF Covers
<1>17. ASSUME NEW v \in Versions PROVE VersionOK(v)'
  <2>1. VersionOK(v)
    BY <1>5
  <2>2. Held(v.files, v.next)'
    BY <2>1, <1>2, <1>3 DEF VersionOK, Held
  <2>3. Distinct(Reach(v)')
    <3>1. Distinct(Contents) /\ Reach(v)' = Contents \cup {r}
      BY <2>1, <1>15 DEF VersionOK
    <3> QED BY <3>1, <1>14 DEF Distinct
  <2> QED BY <2>1, <2>2, <2>3, <1>2, <1>11, <1>16 DEF VersionOK
<1>18. Database' /\ DiskOK'
  BY <1>2, <1>3, <1>5, <1>11, <1>17 DEF Database, DiskOK
<1>19. LogInUse'
  <2>1. From(logs', vs.log) = From(logs, vs.log)
    BY <1>10 DEF From
  <2>2. mem' = RecsOf(logs'[logNumber])
    BY <1>2, <1>6, <1>8, <1>10
  <2>3. \A n \in DOMAIN logs' : n < vs'.next
    BY <1>5, <1>7, <1>10 DEF InUse, LogInUse
  <2> QED BY <2>1, <2>2, <2>3, <1>2, <1>6, <1>7 DEF LogInUse
<1>20. \A n \in From(logs', vs'.log) :
         n = logNumber' \/ RecsOf(logs'[n]) \subseteq imm' \cup Ents(tables', vs'.files)
  <2>1. \A n \in From(logs', vs'.log) : n \in From(logs, vs.log) /\ n \in DOMAIN logs
    BY <1>7, <1>10 DEF From
  <2> QED BY <2>1, <1>2, <1>5, <1>7, <1>10 DEF InUse
<1>21. ASSUME NEW v \in Versions PROVE Behind(v)'
  <2>1. Behind(v)
    BY <1>5
  <2>2. Reach(v)' = Contents'
    BY <1>12, <1>15
  <2> QED BY <2>1, <2>2, <1>2, <1>7 DEF Behind, Missed
<1>22. InUse'
  <2>1. Held(vs.files \cup UNION iters, vs.next)'
    BY <1>2, <1>3, <1>5, <1>7 DEF InUse, Held
  <2>2. Target' = Target
    BY <1>3, <1>7 DEF Target
  <2>3. ~bgError' => Latest'.files \subseteq Target'
    BY <2>2, <1>3, <1>5, <1>11 DEF InUse
  <2>4. \A n \in garbage'.logs : n < vs'.log
    BY <1>3, <1>5, <1>7 DEF InUse
  <2>5. imm' \subseteq LogRecs(logs', vs'.log)
    BY <1>2, <1>7, <1>10
  <2>6. current' # 0 /\ vs'.manifest = current' /\ vs'.desc
    BY <1>2, <1>5, <1>7 DEF InUse
  <2> QED BY <2>1, <2>3, <2>4, <2>5, <2>6, <1>11, <1>14, <1>19, <1>20, <1>21 DEF InUse
<1>23. RunningOK'
  BY <1>22 DEF RunningOK
<1>24. Quiet' /\ ReadingOK' /\ SavingOK' /\ CleanOK'
  <2>1. pc' = "open" /\ (saving' = NotSaving \/ saving'.who \in {"flush", "compact"})
    BY <1>2, <1>3 DEF IInv, Quiet
  <2> QED BY <2>1, StaysOpen
<1>25. FlushOK' /\ ImmOK'
  BY <1>2, <1>3, <1>7, <1>11 DEF IInv, FlushOK, ImmOK, Compacting
<1>26. CompactionOK'
  BY <1>2, <1>3, <1>7, <1>11 DEF IInv, CompactionOK, Compacting
<1>27. EditOK'
  BY <1>2, <1>3, <1>7, <1>11 DEF IInv, EditOK, Held, Compacting, Missed
<1> QED BY <1>18, <1>23, <1>24, <1>25, <1>26, <1>27 DEF IInv

(* MakeRoomForWrite gives the memtable a new log.                          *)
LEMMA SwitchLogStep ==
  ASSUME Sound, Types, IInv, Types', SwitchLog
  PROVE  IInv'
<1>1. /\ pc = "open" /\ ~bgError /\ ~hasImm /\ pc' = "open"
      /\ logs' = With(logs, vs.next, EmptyFile)
      /\ logNumber' = vs.next /\ vs' = [vs EXCEPT !.next = @ + 1]
      /\ imm' = mem /\ hasImm' = TRUE /\ mem' = {}
      /\ UNCHANGED <<tables, manifests, current, pc, opening, pending, flush,
                     compaction, saving, garbage, bgError, iters, history>>
  BY PlainSwitch
<1>2. UNCHANGED <<scenario, torn, required, synced, ids>>
  BY <1>1 DEF history
<1>3. Running
  BY <1>1 DEF Running
<1>4. /\ InUse /\ Database /\ current # 0
      /\ vs.files \subseteq DOMAIN tables
      /\ Contents = mem \cup imm \cup Ents(tables, vs.files)
      /\ Versions \subseteq VersionType(ids) /\ Latest \in Versions
      /\ \A v \in Versions : VersionOK(v) /\ Behind(v)
  BY <1>3, RunningFacts
<1>5. imm = {} /\ flush = NoTable
  BY <1>1 DEF IInv, ImmOK, FlushOK
<1>6. /\ DOMAIN logs \subseteq Nat /\ Numbering(logs, LogFile(ids))
      /\ logNumber \in From(logs, vs.log) /\ logNumber \in Nat /\ logNumber < vs.next
      /\ vs.log \in Nat /\ vs.log <= logNumber /\ vs.next \in Nat
      /\ mem = RecsOf(logs[logNumber])
      /\ \A n \in DOMAIN logs : n < vs.next
  BY <1>4 DEF InUse, LogInUse, From, Types, DiskTypes, ProcessTypes, Numbering
<1>7. /\ vs'.files = vs.files /\ vs'.log = vs.log /\ vs'.next = vs.next + 1
      /\ vs'.manifest = vs.manifest /\ vs'.desc = vs.desc /\ vs'.seq = vs.seq
  BY <1>1 DEF Types, ProcessTypes
<1>8. vs.next \notin DOMAIN logs
  BY <1>3, NextIsNew
<1>9. /\ \A k \in Nat : LogRecs(logs', k) = LogRecs(logs, k)
                        /\ SyncedRecs(logs', k) = SyncedRecs(logs, k)
      /\ DOMAIN logs' = DOMAIN logs \cup {vs.next} /\ RecsOf(logs'[vs.next]) = {}
      /\ \A m \in DOMAIN logs : logs'[m] = logs[m]
  <2>1. PICK L, n : L = logs /\ n = vs.next
    OBVIOUS
  <2>2. ASSUME NEW k \in Nat
        PROVE  /\ LogRecs(With(L, n, EmptyFile), k) = LogRecs(L, k)
               /\ SyncedRecs(With(L, n, EmptyFile), k) = SyncedRecs(L, k)
               /\ DOMAIN With(L, n, EmptyFile) = DOMAIN L \cup {n}
               /\ With(L, n, EmptyFile)[n] = EmptyFile /\ RecsOf(EmptyFile) = {}
               /\ \A m \in DOMAIN L : With(L, n, EmptyFile)[m] = L[m]
    <3>1. Numbering(L, LogFile(ids)) /\ n \in Nat /\ n \notin DOMAIN L
      BY <2>1, <1>6, <1>8
    <3> QED BY <3>1, EmptyLog
  <2> QED BY <2>1, <2>2, <1>1, <1>6
<1>10. DiskTypes /\ DiskTypes'
  BY DEF Types
<1>11. Database' /\ Versions' = Versions /\ Latest' = Latest
  <2>1. ASSUME NEW v \in Versions
        PROVE  /\ \A f \in v.files : /\ f \in DOMAIN tables' /\ tables'[f] = tables[f]
                                     /\ f \notin garbage'.tables
               /\ LogRecs(logs', v.log) = LogRecs(logs, v.log)
               /\ SyncedRecs(logs', v.log) = SyncedRecs(logs, v.log)
    BY <1>1, <1>4, <1>9 DEF VersionOK, Held, VersionType
  <2>2. current \in DOMAIN manifests' /\ manifests'[current] = manifests[current]
        /\ current \notin garbage'.manifests
    BY <1>1, <1>4 DEF Database
  <2> QED BY <2>1, <2>2, <1>1, <1>2, <1>4, <1>10, DatabaseKept
<1>12. Contents' = Contents
  <2>1. Contents' = mem' \cup imm' \cup Ents(tables, vs.files)
    BY <1>1, <1>4, <1>7 DEF Contents, InTables, Ents
  <2> QED BY <2>1, <1>1, <1>4, <1>5
<1>13. LogInUse'
  <2>1. vs.next \in From(logs', vs'.log)
    BY <1>6, <1>7, <1>9 DEF From
  <2>2. \A n \in DOMAIN logs' : n < vs'.next
    BY <1>6, <1>7, <1>9
  <2> QED BY <2>1, <2>2, <1>1, <1>9 DEF LogInUse
<1>14. \A n \in From(logs', vs'.log) :
         n = logNumber' \/ RecsOf(logs'[n]) \subseteq imm' \cup Ents(tables', vs'.files)
  <2>1. ASSUME NEW n \in From(logs', vs'.log), n # vs.next
        PROVE  RecsOf(logs'[n]) \subseteq mem \cup Ents(tables, vs.files)
    <3>1. n \in From(logs, vs.log) /\ logs'[n] = logs[n]
      BY <2>1, <1>7, <1>9 DEF From
    <3> QED BY <3>1, <1>4, <1>5, <1>6 DEF InUse
  <2> QED BY <2>1, <1>1, <1>7
<1>15. imm' \subseteq LogRecs(logs', vs'.log)
  <2>1. mem \subseteq LogRecs(logs, vs.log)
    BY <1>6 DEF LogRecs
  <2> QED BY <2>1, <1>1, <1>6, <1>7, <1>9
<1>16. ASSUME NEW v \in Versions' PROVE Behind(v)'
  <2>1. Behind(v) /\ v.log \in Nat /\ v.next \in Nat
    BY <1>4, <1>11 DEF VersionType
  <2>2. Reach(v)' = Reach(v)
    BY <2>1, <1>1, <1>9 DEF Reach
  <2>3. v.log <= logNumber' /\ v.next <= vs'.next
    BY <2>1, <1>1, <1>6, <1>7 DEF Behind
  <2> QED BY <2>1, <2>2, <2>3, <1>1, <1>2, <1>7, <1>12 DEF Behind, Missed
<1>17. InUse'
  <2>1. Held(vs.files \cup UNION iters, vs.next)'
    <3>1. \A f \in vs.files \cup UNION iters : f \in Nat /\ f < vs.next
      BY <1>4 DEF InUse, Held, Types, ProcessTypes
    <3>2. \A f \in vs.files \cup UNION iters : f < vs'.next
      BY <3>1, <1>6, <1>7
    <3> QED BY <3>2, <1>1, <1>4, <1>7 DEF InUse, Held
  <2>2. ~bgError' => Latest'.files \subseteq Target'
    <3>1. Target' = Target
      BY <1>1, <1>7 DEF Target
    <3> QED BY <3>1, <1>1, <1>4, <1>11 DEF InUse
  <2>3. \A n \in garbage'.logs : n < vs'.log
    BY <1>1, <1>4, <1>7 DEF InUse
  <2>4. current' # 0 /\ vs'.manifest = current' /\ vs'.desc
    BY <1>1, <1>4, <1>7 DEF InUse
  <2>5. UpTo(Contents', vs'.seq)
    BY <1>4, <1>7, <1>12 DEF InUse
  <2> QED BY <2>1, <2>2, <2>3, <2>4, <2>5, <1>13, <1>14, <1>15, <1>16 DEF InUse
<1>18. DiskOK' /\ RunningOK'
  BY <1>1, <1>4, <1>11, <1>17 DEF DiskOK, RunningOK
<1>19. Quiet' /\ ReadingOK' /\ SavingOK' /\ CleanOK'
  <2>1. pc' = "open" /\ (saving' = NotSaving \/ saving'.who \in {"flush", "compact"})
    BY <1>1 DEF IInv, Quiet
  <2> QED BY <2>1, StaysOpen
<1>20. FlushOK' /\ ImmOK'
  BY <1>1, <1>5 DEF FlushOK, ImmOK
<1>21. CompactionOK'
  <2>1. SUFFICES ASSUME Compacting PROVE CompactionOK'
    BY <1>1 DEF CompactionOK, Compacting
  <2>2. \A n \in Outputs(compaction) : n < vs'.next
    <3>1. \A n \in Outputs(compaction) : n < vs.next /\ n \in Nat
      BY <2>1 DEF IInv, CompactionOK, Types, ProcessTypes, Outputs
    <3> QED BY <3>1, <1>6, <1>7
  <2> QED BY <2>1, <2>2, <1>1, <1>7, <1>11 DEF IInv, CompactionOK
<1>22. EditOK'
  <2>1. SUFFICES ASSUME saving # NotSaving PROVE EditOK'
    BY <1>1 DEF EditOK
  <2>2. EditOK /\ saving.edit.next \in Nat
    BY <2>1 DEF IInv, Types, ProcessTypes, EditRec
  <2>3. saving.edit.next <= vs.next
    BY <2>1, <2>2, <1>1 DEF EditOK
  <2>4. saving.edit.next <= vs'.next
    BY <2>2, <2>3, <1>6, <1>7
  <2>5. saving.who # "flush"
    BY <2>1, <2>2, <1>1, <1>5 DEF EditOK
  <2> QED BY <2>1, <2>2, <2>4, <2>5, <1>1, <1>2, <1>5, <1>7, <1>11
          DEF EditOK, Held, Compacting, Missed
<1> QED BY <1>18, <1>19, <1>20, <1>21, <1>22 DEF IInv

-----------------------------------------------------------------------------
(* LogAndApply.                                                            *)

(* The tables that an edit of the thread leaves have all their entries.    *)
LEMMA EditFacts ==
  ASSUME Types, IInv, pc = "open", saving # NotSaving, NEW F, NEW e, e = saving.edit,
         Ents(tables, vs.files) \subseteq Ents(tables, F), NEW G, G = (F \ e.del) \cup e.add
  PROVE  /\ saving.who = "flush" => Ents(tables, G) = Ents(tables, F) \cup imm
         /\ saving.who = "compact" => Ents(tables, G) = Ents(tables, F)
<1>1. \/ saving.who = "flush" /\ e.del = {} /\ Ents(tables, e.add) = imm
      \/ saving.who = "compact" /\ e.del = compaction.inputs /\ Compacting
           /\ Ents(tables, e.add) = Ents(tables, e.del)
  BY DEF IInv, EditOK
<1>2. CASE saving.who = "flush"
  <2>1. e.del = {} /\ Ents(tables, e.add) = imm /\ G = F \cup e.add
    BY <1>1, <1>2
  <2> QED BY <2>1, <1>2, EntsUnion
<1>3. CASE saving.who = "compact"
  <2>1. e.del \subseteq vs.files /\ Ents(tables, e.add) = Ents(tables, e.del)
    BY <1>1, <1>3 DEF IInv, CompactionOK
  <2>2. Ents(tables, e.del) \subseteq Ents(tables, F)
    BY <2>1 DEF Ents
  <2>3. Ents(tables, G) = Ents(tables, F \ e.del) \cup Ents(tables, e.del)
    BY <2>1, EntsUnion
  <2>4. Ents(tables, F) \subseteq Ents(tables, F \ e.del) \cup Ents(tables, e.del)
    BY DEF Ents
  <2>5. Ents(tables, F \ e.del) \subseteq Ents(tables, F)
    BY DEF Ents
  <2> QED BY <2>2, <2>3, <2>4, <2>5, <1>3
<1> QED BY <1>2, <1>3

(* Fewer logs have fewer records.                                          *)
LEMMA FewerLogs ==
  ASSUME NEW L, DOMAIN L \subseteq Nat, NEW j \in Nat, NEW k \in Nat, j <= k
  PROVE  LogRecs(L, k) \subseteq LogRecs(L, j) /\ SyncedRecs(L, k) \subseteq SyncedRecs(L, j)
<1>1. From(L, k) \subseteq From(L, j)
  BY DEF From
<1> QED BY <1>1 DEF LogRecs, SyncedRecs

(* What is synced in a log is in it.                                       *)
LEMMA SyncedIsRead ==
  ASSUME NEW n \in Nat, NEW f \in LogFile(n)
  PROVE  SyncedOf(f) \subseteq RecsOf(f)
<1>1. f.synced \in Nat /\ f.synced <= Len(f.recs) /\ Len(f.recs) \in Nat
      /\ DOMAIN f.recs = 1 .. Len(f.recs)
  BY DEF LogFile
<1>2. 1 .. f.synced \subseteq DOMAIN f.recs
  BY <1>1
<1> QED BY <1>2 DEF SyncedOf, RecsOf

(* A log that is not in use has nothing that is not in imm or a table.     *)
LEMMA LogsInUse ==
  ASSUME Types, IInv, Running
  PROVE  /\ LogRecs(logs, vs.log) \subseteq Contents
         /\ \A k \in Nat : vs.log <= k =>
              /\ LogRecs(logs, k) \subseteq LogRecs(logs, vs.log)
              /\ SyncedRecs(logs, k)
                   \subseteq SyncedRecs(logs, logNumber) \cup imm \cup Ents(tables, vs.files)
<1>1. InUse /\ Contents = mem \cup imm \cup Ents(tables, vs.files)
  BY RunningFacts
<1>2. /\ logNumber \in From(logs, vs.log) /\ mem = RecsOf(logs[logNumber])
      /\ \A n \in From(logs, vs.log) :
           n = logNumber \/ RecsOf(logs[n]) \subseteq imm \cup Ents(tables, vs.files)
      /\ Numbering(logs, LogFile(ids)) /\ vs.log \in Nat /\ ids \in Nat
      /\ logNumber \in Nat
  BY <1>1 DEF InUse, LogInUse, Types, DiskTypes, ProcessTypes
<1>3. \A n \in From(logs, vs.log) : RecsOf(logs[n]) \subseteq Contents
  BY <1>1, <1>2
<1>4. LogRecs(logs, vs.log) \subseteq Contents
  BY <1>3 DEF LogRecs
<1>5. ASSUME NEW k \in Nat, vs.log <= k
      PROVE  /\ LogRecs(logs, k) \subseteq LogRecs(logs, vs.log)
             /\ SyncedRecs(logs, k)
                  \subseteq SyncedRecs(logs, logNumber) \cup imm \cup Ents(tables, vs.files)
  <2>1. LogRecs(logs, k) \subseteq LogRecs(logs, vs.log)
    BY <1>2, <1>5, FewerLogs DEF Numbering
  <2>2. ASSUME NEW n \in From(logs, k)
        PROVE  SyncedOf(logs[n])
                 \subseteq SyncedRecs(logs, logNumber) \cup imm \cup Ents(tables, vs.files)
    <3>1. n \in From(logs, vs.log) /\ n \in DOMAIN logs /\ n \in Nat
      BY <1>2, <1>5 DEF From, Numbering
    <3>2. CASE n = logNumber
      <4>1. n \in From(logs, logNumber)
        BY <3>1, <3>2 DEF From
      <4> QED BY <4>1 DEF SyncedRecs
    <3>3. CASE n # logNumber
      <4>1. RecsOf(logs[n]) \subseteq imm \cup Ents(tables, vs.files)
        BY <3>1, <3>3, <1>2
      <4>2. SyncedOf(logs[n]) \subseteq RecsOf(logs[n])
        BY <3>1, <1>2, SyncedIsRead DEF Numbering
      <4> QED BY <4>1, <4>2
    <3> QED BY <3>2, <3>3
  <2>3. SyncedRecs(logs, k)
          \subseteq SyncedRecs(logs, logNumber) \cup imm \cup Ents(tables, vs.files)
    BY <2>2 DEF SyncedRecs
  <2> QED BY <2>1, <2>3
<1> QED BY <1>4, <1>5

(* What the edit under way makes of the latest version on disk is as good  *)
(* as that version: it reaches the contents.                               *)
LEMMA EditIsGood ==
  ASSUME Types, IInv, pc = "open", saving # NotSaving, ~Missed,
         NEW A, A = Applied(Latest.files, saving.edit)
  PROVE  /\ A.numbers /\ current < A.next /\ A.log < A.next
         /\ A.files = (Latest.files \ saving.edit.del) \cup saving.edit.add
         /\ A.log = saving.edit.log /\ A.next = saving.edit.next
         /\ \A v \in Versions : v.next <= A.next
         /\ Held(A.files, A.next) /\ UpTo(Ents(tables, A.files), saving.edit.seq)
         /\ A.seq = saving.edit.seq
         /\ Distinct(Reach(A)) /\ Covers(A.files, A.log) /\ Behind(A)
<1>1. PICK e, F : e = saving.edit /\ F = Latest.files
  OBVIOUS
<1>2. /\ A.files = (F \ e.del) \cup e.add /\ A.log = e.log /\ A.next = e.next
      /\ A.seq = e.seq /\ A.numbers = e.hasNumbers
  BY <1>1 DEF Applied
<1>3. Running
  BY DEF Running
<1>4. /\ InUse /\ Database /\ current # 0
      /\ vs.files \subseteq DOMAIN tables
      /\ Contents = mem \cup imm \cup Ents(tables, vs.files)
      /\ Versions \subseteq VersionType(ids) /\ Latest \in Versions
      /\ \A v \in Versions : VersionOK(v) /\ Behind(v)
  BY <1>3, RunningFacts
<1>5. /\ e.hasNumbers /\ e.next <= vs.next /\ e.log < e.next
      /\ Held(e.add, e.next) /\ UpTo(Ents(tables, e.add), e.seq)
      /\ \A v \in Versions : v.next <= e.next
      /\ \A v \in Versions : UpTo(Ents(tables, v.files), e.seq)
  BY <1>1 DEF IInv, EditOK
<1>6. /\ Latest \in VersionType(ids) /\ VersionOK(Latest) /\ Behind(Latest)
      /\ Latest.next <= e.next /\ UpTo(Ents(tables, F), e.seq)
  BY <1>1, <1>4, <1>5
<1>7. /\ Latest.next \in Nat /\ Latest.log \in Nat /\ F \subseteq Nat
      /\ e \in EditRec(ids) /\ e.next \in Nat /\ e.log \in Nat
      /\ current \in Nat /\ vs.log \in Nat /\ logNumber \in Nat
      /\ DOMAIN logs \subseteq Nat
  <2>1. e \in EditRec(ids)
    BY <1>1, WhoSaves
  <2> QED BY <2>1, <1>1, <1>6 DEF VersionType, EditRec, Types, DiskTypes, ProcessTypes,
                                   Numbering
<1>8. Held(A.files, A.next)
  <2>1. \A f \in F : /\ f \in DOMAIN tables /\ tables[f].whole /\ f \notin garbage.tables
                     /\ f < Latest.next
    BY <1>1, <1>6 DEF VersionOK, Held
  <2>2. \A f \in F : f < e.next
    BY <2>1, <1>6, <1>7
  <2> QED BY <2>1, <2>2, <1>2, <1>5 DEF Held
<1>9. current < A.next
  <2>1. current < Latest.next
    BY <1>6 DEF VersionOK
  <2> QED BY <2>1, <1>2, <1>6, <1>7
<1>10. UpTo(Ents(tables, A.files), e.seq)
  <2>1. Ents(tables, A.files) \subseteq Ents(tables, F) \cup Ents(tables, e.add)
    BY <1>2 DEF Ents
  <2> QED BY <2>1, <1>5, <1>6 DEF UpTo
<1>11. Ents(tables, vs.files) \subseteq Ents(tables, F) /\ Reach(Latest) = Contents
       /\ vs.log <= Latest.log /\ Latest.log <= logNumber
  BY <1>1, <1>6 DEF Behind
<1>12. /\ saving.who = "flush" => Ents(tables, A.files) = Ents(tables, F) \cup imm
       /\ saving.who = "compact" => Ents(tables, A.files) = Ents(tables, F)
  BY <1>1, <1>2, <1>11, EditFacts
<1>13. \/ saving.who = "flush" /\ e.log = logNumber
       \/ saving.who = "compact" /\ e.log = vs.log
  BY <1>1 DEF IInv, EditOK
<1>14. vs.log <= e.log /\ e.log <= logNumber
  BY <1>7, <1>11, <1>13
<1>15. /\ LogRecs(logs, vs.log) \subseteq Contents
       /\ LogRecs(logs, e.log) \subseteq LogRecs(logs, vs.log)
       /\ LogRecs(logs, Latest.log) \subseteq LogRecs(logs, vs.log)
       /\ SyncedRecs(logs, Latest.log)
            \subseteq SyncedRecs(logs, logNumber) \cup imm \cup Ents(tables, vs.files)
  BY <1>3, <1>7, <1>11, <1>14, LogsInUse
<1>16. mem \subseteq LogRecs(logs, e.log)
  <2>1. logNumber \in From(logs, e.log) /\ mem = RecsOf(logs[logNumber])
    BY <1>4, <1>7, <1>14 DEF InUse, LogInUse, From
  <2> QED BY <2>1 DEF LogRecs
<1>17. Reach(A) = Contents
  <2>1. Reach(A) = Ents(tables, A.files) \cup LogRecs(logs, e.log)
    BY <1>2 DEF Reach
  <2>2. Contents = Ents(tables, F) \cup LogRecs(logs, Latest.log)
    BY <1>1, <1>11 DEF Reach
  <2>3. CASE saving.who = "flush"
    <3>1. Ents(tables, A.files) = Ents(tables, F) \cup imm
      BY <2>3, <1>12
    <3> QED BY <3>1, <2>1, <2>2, <1>4, <1>11, <1>15, <1>16
  <2>4. CASE saving.who = "compact"
    <3>1. Ents(tables, A.files) = Ents(tables, F) /\ e.log = vs.log
      BY <2>4, <1>12, <1>13
    <3> QED BY <3>1, <2>1, <2>2, <1>15
  <2> QED BY <2>3, <2>4, <1>13
<1>18. Distinct(Reach(A))
  BY <1>6, <1>11, <1>17 DEF VersionOK
<1>19. Covers(A.files, A.log)
  <2>1. required \subseteq IdsOf(Reach(A))
    <3>1. required \subseteq IdsOf(Reach(Latest))
      BY <1>6 DEF VersionOK, Covers, Reach
    <3> QED BY <3>1, <1>11, <1>17
  <2>2. SyncedRecs(logs, Latest.log) \cup Ents(tables, F)
          \subseteq Ents(tables, A.files) \cup SyncedRecs(logs, e.log)
    <3>1. CASE saving.who = "flush"
      <4>1. Ents(tables, A.files) = Ents(tables, F) \cup imm /\ e.log = logNumber
        BY <3>1, <1>12, <1>13
      <4> QED BY <4>1, <1>11, <1>15
    <3>2. CASE saving.who = "compact"
      <4>1. Ents(tables, A.files) = Ents(tables, F) /\ e.log = vs.log
        BY <3>2, <1>12, <1>13
      <4>2. SyncedRecs(logs, Latest.log) \subseteq SyncedRecs(logs, vs.log)
        BY <1>7, <1>11, FewerLogs
      <4> QED BY <4>1, <4>2
    <3> QED BY <3>1, <3>2, <1>13
  <2>3. scenario.reboots => required \cap synced \subseteq
                              IdsOf(Ents(tables, A.files) \cup SyncedRecs(logs, e.log))
    <3>1. scenario.reboots => required \cap synced \subseteq
                                IdsOf(Ents(tables, F) \cup SyncedRecs(logs, Latest.log))
      BY <1>1, <1>6 DEF VersionOK, Covers
    <3> QED BY <3>1, <2>2 DEF IdsOf
  <2> QED BY <2>1, <2>3, <1>2 DEF Covers, Reach
<1>20. Behind(A)
  <2>1. Ents(tables, vs.files) \subseteq Ents(tables, A.files)
    BY <1>11, <1>12, <1>13
  <2> QED BY <2>1, <1>2, <1>5, <1>14, <1>17 DEF Behind
<1> QED BY <1>1, <1>2, <1>5, <1>8, <1>9, <1>10, <1>18, <1>19, <1>20

(* The record of an edit of the thread is in the MANIFEST: a crash may     *)
(* leave the version before it or the one after it.                        *)
LEMMA EditFound ==
  ASSUME Types, IInv, Types', LogEdit, pc = "open", ~Missed',
         manifests' = With(manifests, vs.manifest, Logged(saving.edit)), torn' = torn
  PROVE  IInv'
<1>1. /\ saving # NotSaving /\ ~saving.logged
      /\ saving' = [saving EXCEPT !.logged = TRUE]
      /\ UNCHANGED <<logs, tables, current, pc, vs, opening, logNumber, mem, imm,
                     hasImm, pending, flush, compaction, garbage, bgError, iters,
                     scenario, required, synced, ids>>
  BY DEF LogEdit
<1>2. ~Missed
  BY <1>1 DEF Missed
<1>3. Running /\ Running'
  BY <1>1 DEF Running
<1>4. /\ InUse /\ Database /\ current # 0
      /\ Versions \subseteq VersionType(ids) /\ Latest \in Versions
      /\ \A v \in Versions : VersionOK(v) /\ Behind(v)
  BY <1>3, RunningFacts
<1>5. PICK A : A = Applied(Latest.files, saving.edit)
  OBVIOUS
<1>6. /\ A.numbers /\ current < A.next /\ A.log < A.next
      /\ A.files = (Latest.files \ saving.edit.del) \cup saving.edit.add
      /\ A.log = saving.edit.log /\ A.next = saving.edit.next
      /\ \A v \in Versions : v.next <= A.next
      /\ Held(A.files, A.next) /\ UpTo(Ents(tables, A.files), saving.edit.seq)
      /\ A.seq = saving.edit.seq
      /\ Distinct(Reach(A)) /\ Covers(A.files, A.log) /\ Behind(A)
  BY <1>1, <1>2, <1>5, EditIsGood
<1>7. /\ saving' # NotSaving /\ saving'.edit = saving.edit /\ saving'.who = saving.who
      /\ saving'.logged
  <2>1. saving \in [who : {"open", "flush", "compact"}, edit : EditRec(ids),
                    logged : BOOLEAN]
    BY <1>1 DEF Types, ProcessTypes
  <2>2. saving'.edit = saving.edit /\ saving'.who = saving.who /\ saving'.logged
    BY <2>1, <1>1
  <2> QED BY <2>1, <2>2 DEF NotSaving
<1>8. /\ current \in DOMAIN manifests' /\ manifests'[current].recs # <<>>
      /\ scenario.reboots => manifests'[current].synced >= 1
      /\ Latest' = A /\ Versions' \subseteq Versions \cup {A}
  <2>1. /\ vs.desc /\ vs.manifest = current
    BY <1>4 DEF InUse
  <2>2. PICK f, e : f = manifests[current] /\ e = saving.edit
    OBVIOUS
  <2>3. f \in ManifestFile(ids) /\ e \in EditRec(ids) /\ ids \in Nat
        /\ current \in Nat /\ scenario.reboots \in BOOLEAN
    BY <2>2, <1>1, <1>4, VersionsType, WhoSaves DEF Types, DiskTypes, Scenario
  <2>4. current \in DOMAIN manifests' /\ manifests'[current] = Appended(f, e)
    BY <2>1, <2>2, <1>1 DEF With, Logged
  <2>5. /\ Found(Appended(f, e).recs) = Applied(Found(f.recs).files, e)
        /\ FoundIn(Appended(f, e), scenario.reboots)
             \subseteq FoundIn(f, scenario.reboots) \cup {Applied(Found(f.recs).files, e)}
    BY <2>3, FoundInAppended
  <2>6. Found(f.recs) = Latest /\ FoundIn(f, scenario.reboots) = Versions
    BY <2>2 DEF Latest, Versions
  <2>7. Latest' = A /\ Versions' \subseteq Versions \cup {A}
    BY <2>2, <2>4, <2>5, <2>6, <1>1, <1>5 DEF Latest, Versions
  <2>8. Appended(f, e).recs # <<>> /\ Appended(f, e).synced = f.synced
    <3>1. f \in [recs : Seq(EditRec(ids)), synced : Nat] /\ f.recs \in Seq(EditRec(ids))
      BY <2>3 DEF ManifestFile
    <3>2. Appended(f, e) = [recs |-> Append(f.recs, e), synced |-> f.synced]
      BY <3>1, FileSteps
    <3> QED BY <3>1, <3>2, <2>3
  <2> QED BY <2>2, <2>4, <2>7, <2>8, <1>4 DEF Database
<1>9. ASSUME NEW v \in Versions' PROVE VersionOK(v)'
  <2>1. v \in Versions \/ v = A
    BY <1>8
  <2>2. v.next <= A.next
    <3>1. A.next \in Nat
      BY <1>1, <1>6, WhoSaves DEF EditRec
    <3> QED BY <3>1, <2>1, <1>6
  <2>3. /\ v.numbers /\ current < v.next /\ v.log < v.next
        /\ Held(v.files, v.next) /\ UpTo(Ents(tables, v.files), v.seq)
        /\ Distinct(Reach(v)) /\ Covers(v.files, v.log)
    BY <2>1, <1>4, <1>6 DEF VersionOK
  <2>4. Held(v.files, v.next)' /\ Covers(v.files, v.log)' /\ Reach(v)' = Reach(v)
    BY <2>3, <1>1 DEF Held, Covers, Reach
  <2> QED BY <2>2, <2>3, <2>4, <1>1, <1>8 DEF VersionOK
<1>10. DiskOK'
  <2>1. Database'
    BY <1>1, <1>4, <1>8, <1>9 DEF Database
  <2> QED BY <2>1, <1>1, <1>4 DEF DiskOK
<1>11. \A v \in Versions' : Behind(v)'
  <2>1. \A v \in Versions' : Behind(v)
    BY <1>4, <1>6, <1>8
  <2> QED BY <2>1, <1>1, <1>2 DEF Behind, Reach, Contents, InTables
<1>12. ~bgError' => Latest'.files \subseteq Target'
  <2>1. ~bgError => Latest.files \subseteq vs.files
    BY <1>1, <1>4 DEF InUse, Target
  <2>2. Target' = (vs.files \ saving.edit.del) \cup saving.edit.add
    BY <1>1, <1>7 DEF Target
  <2> QED BY <2>1, <2>2, <1>1, <1>6, <1>8
<1>13. InUse'
  <2>1. LogInUse' /\ Held(vs.files \cup UNION iters, vs.next)' /\ Contents' = Contents
    BY <1>1, <1>4 DEF InUse, LogInUse, Held, Contents, InTables
  <2> QED BY <2>1, <1>1, <1>4, <1>11, <1>12 DEF InUse
<1>14. RunningOK'
  BY <1>13 DEF RunningOK
<1>15. Quiet' /\ ReadingOK' /\ SavingOK' /\ CleanOK'
  <2>1. pc' = "open" /\ saving'.who \in {"flush", "compact"}
    BY <1>1, <1>7 DEF IInv, Quiet
  <2> QED BY <2>1, StaysOpen
<1>16. FlushOK' /\ ImmOK'
  BY <1>1, <1>7 DEF IInv, FlushOK, ImmOK
<1>17. EditOK
  BY DEF IInv
<1>18. CompactionOK'
  <2>1. SUFFICES ASSUME Compacting PROVE CompactionOK'
    BY <1>1 DEF CompactionOK, Compacting
  <2>2. saving.who # "compact" => compaction.out \notin A.files
    <3>1. SUFFICES ASSUME saving.who # "compact" PROVE compaction.out \notin A.files
      OBVIOUS
    <3>2. compaction.out \notin saving.edit.add
      BY <2>1, <3>1, <1>1, <1>17 DEF EditOK
    <3>3. compaction.out \notin Latest.files
      BY <2>1, <3>1, <1>4 DEF IInv, CompactionOK
    <3> QED BY <3>2, <3>3, <1>6
  <2>3. saving.who # "compact" => \A v \in Versions' : compaction.out \notin v.files
    BY <2>1, <2>2, <1>8 DEF IInv, CompactionOK
  <2> QED BY <2>1, <2>3, <1>1, <1>7 DEF IInv, CompactionOK
<1>19. EditOK'
  <2>1. saving.edit.add \subseteq Latest'.files /\ Latest'.log = saving.edit.log
    BY <1>6, <1>8
  <2>2. \A v \in Versions' : v.next <= saving.edit.next
                             /\ UpTo(Ents(tables, v.files), saving.edit.seq)
    <3>1. \A v \in Versions : v.next <= saving.edit.next
                              /\ UpTo(Ents(tables, v.files), saving.edit.seq)
      BY <1>1, <1>17 DEF EditOK
    <3>2. A.next <= saving.edit.next
      BY <1>1, <1>6, WhoSaves DEF EditRec
    <3> QED BY <3>1, <3>2, <1>6, <1>8
  <2>3. Held(saving.edit.add, saving.edit.next)'
    BY <1>1, <1>7, <1>17 DEF EditOK, Held
  <2> QED BY <2>1, <2>2, <2>3, <1>1, <1>7, <1>17 DEF EditOK, Compacting
<1> QED BY <1>10, <1>14, <1>15, <1>16, <1>18, <1>19 DEF IInv

(* The record will not be found: every version on disk stays as good as it *)
(* was, and the process, which has an error, removes nothing.              *)
LEMMA EditMissed ==
  ASSUME Types, TornOK, IInv, Types', LogEdit, pc = "open", Missed', Torn,
         UNCHANGED manifests
  PROVE  IInv'
<1>1. /\ saving # NotSaving /\ ~saving.logged
      /\ saving' = [saving EXCEPT !.logged = TRUE]
      /\ UNCHANGED <<logs, tables, current, pc, vs, opening, logNumber, mem, imm,
                     hasImm, pending, flush, compaction, garbage, bgError, iters,
                     scenario, required, synced, ids>>
  BY DEF LogEdit
<1>2. Running /\ Running'
  BY <1>1 DEF Running
<1>3. /\ InUse /\ Database /\ current # 0
      /\ Versions \subseteq VersionType(ids) /\ Latest \in Versions
      /\ \A v \in Versions : VersionOK(v) /\ Behind(v)
  BY <1>2, RunningFacts
<1>4. bgError
  BY <1>2, <1>3 DEF Torn, InUse, TornOK
<1>5. /\ saving' # NotSaving /\ saving'.edit = saving.edit /\ saving'.who = saving.who
  <2>1. saving \in [who : {"open", "flush", "compact"}, edit : EditRec(ids),
                    logged : BOOLEAN]
    BY <1>1 DEF Types, ProcessTypes
  <2>2. saving'.edit = saving.edit /\ saving'.who = saving.who /\ saving'.logged
    BY <2>1, <1>1
  <2> QED BY <2>1, <2>2 DEF NotSaving
<1>6. Versions' = Versions /\ Latest' = Latest
  BY <1>1, VersionsKept
<1>7. DiskOK'
  <2>1. ASSUME NEW v \in Versions PROVE VersionOK(v)'
    <3>1. VersionOK(v)
      BY <1>3
    <3> QED BY <3>1, <1>1, <1>6 DEF VersionOK, Held, Covers, Reach
  <2>2. Database'
    BY <2>1, <1>1, <1>3, <1>6 DEF Database
  <2> QED BY <2>2, <1>1, <1>3 DEF DiskOK
<1>8. InUse'
  <2>1. LogInUse' /\ Held(vs.files \cup UNION iters, vs.next)' /\ Contents' = Contents
    BY <1>1, <1>3 DEF InUse, LogInUse, Held, Contents, InTables
  <2>2. \A v \in Versions' : Behind(v)'
    BY <2>1, <1>1, <1>3, <1>6 DEF Behind, Reach
  <2> QED BY <2>1, <2>2, <1>1, <1>3, <1>4 DEF InUse
<1>9. RunningOK'
  BY <1>8 DEF RunningOK
<1>10. Quiet' /\ ReadingOK' /\ SavingOK' /\ CleanOK'
  <2>1. pc' = "open" /\ saving'.who \in {"flush", "compact"}
    BY <1>1, <1>5 DEF IInv, Quiet
  <2> QED BY <2>1, StaysOpen
<1>11. FlushOK' /\ ImmOK'
  BY <1>1, <1>5 DEF IInv, FlushOK, ImmOK
<1>12. CompactionOK'
  <2>1. SUFFICES ASSUME Compacting PROVE CompactionOK'
    BY <1>1 DEF CompactionOK, Compacting
  <2> QED BY <2>1, <1>1, <1>5, <1>6 DEF IInv, CompactionOK
<1>13. EditOK'
  <2>1. EditOK
    BY DEF IInv
  <2>2. Held(saving.edit.add, saving.edit.next)'
    BY <2>1, <1>1, <1>5 DEF EditOK, Held
  <2> QED BY <2>1, <2>2, <1>1, <1>5, <1>6 DEF EditOK, Compacting
<1> QED BY <1>7, <1>9, <1>10, <1>11, <1>12, <1>13 DEF IInv

(* One or the other.                                                       *)
LEMMA LogEditStep ==
  ASSUME Types, TornOK, IInv, Types', LogEdit, pc = "open"
  PROVE  IInv'
<1>1. vs.manifest = current /\ vs.desc /\ current' = current
  BY DEF IInv, RunningOK, Running, InUse, LogEdit
<1>2. CASE /\ vs.manifest \notin torn.behind
           /\ manifests' = With(manifests, vs.manifest, Logged(saving.edit))
           /\ UNCHANGED torn
  BY <1>1, <1>2, EditFound DEF Missed
<1>3. CASE /\ Torn
           /\ torn' = [torn EXCEPT !.behind = @ \cup {vs.manifest}]
           /\ UNCHANGED manifests
  <2>1. torn'.behind = torn.behind \cup {vs.manifest}
    BY <1>3 DEF TornOK
  <2>2. Missed'
    BY <2>1, <1>1 DEF Missed
  <2> QED BY <2>2, <1>3, EditMissed
<1> QED BY <1>2, <1>3 DEF LogEdit

(* The version is installed once its record is synced, and what it gives   *)
(* up is garbage.                                                          *)
LEMMA InstallEditStep ==
  ASSUME Types, IInv, Types', InstallEdit, pc = "open"
  PROVE  IInv'
<1>1. PICK e, p : /\ e = saving.edit
                  /\ p = IF saving.who = "compact" THEN pending \ Outputs(compaction)
                         ELSE pending
  OBVIOUS
<1>2. /\ saving # NotSaving /\ saving.logged /\ saving' = NotSaving
      /\ manifests' = With(manifests, vs.manifest, Synced(manifests[vs.manifest]))
      /\ IF vs.desc THEN UNCHANGED current ELSE SetCurrentFile(vs.manifest)
      /\ vs' = Installed(e)
      /\ garbage' = (IF bgError THEN NoGarbage ELSE Obsolete(Installed(e), p))
      /\ UNCHANGED <<logs, tables, opening, logNumber, mem, bgError, iters, scenario,
                     torn, required, synced, ids>>
  BY <1>1 DEF InstallEdit, RemoveObsoleteFiles
<1>3. saving.who \in {"flush", "compact"}
  BY <1>2 DEF IInv, Quiet
<1>4. pending' = p
  BY <1>1 DEF InstallEdit
<1>5. /\ pc' = "open"
      /\ saving.who = "flush" => /\ imm' = {} /\ hasImm' = FALSE /\ flush' = NoTable
                                 /\ compaction' = compaction
      /\ saving.who = "compact" => /\ compaction' = NoCompaction
                                   /\ UNCHANGED <<imm, hasImm, flush>>
  BY <1>3 DEF InstallEdit
<1>6. UNCHANGED <<scenario, required, synced, ids>>
  BY <1>2
<1>7. Running
  BY DEF Running
<1>8. /\ InUse /\ Database /\ current # 0
      /\ vs.files \subseteq DOMAIN tables
      /\ Contents = mem \cup imm \cup Ents(tables, vs.files)
      /\ Versions \subseteq VersionType(ids) /\ Latest \in Versions
      /\ \A v \in Versions : VersionOK(v) /\ Behind(v)
  BY <1>7, RunningFacts
<1>9. vs.desc /\ vs.manifest = current /\ current' = current
  BY <1>2, <1>8 DEF InUse
<1>10. /\ vs'.files = (vs.files \ e.del) \cup e.add /\ vs'.log = e.log /\ vs'.desc
       /\ vs'.next = vs.next /\ vs'.manifest = current /\ vs'.seq = vs.seq
  BY <1>2, <1>9 DEF Installed, Types, ProcessTypes
<1>11. /\ Versions' = {Latest} /\ Latest' = Latest
       /\ current \in DOMAIN manifests' /\ manifests'[current].recs # <<>>
       /\ manifests'[current].synced >= 1
  <2>1. PICK f : f = manifests[current]
    OBVIOUS
  <2>2. f \in ManifestFile(ids) /\ ids \in Nat /\ scenario.reboots \in BOOLEAN
    BY <2>1, <1>8, VersionsType DEF Types, DiskTypes, Scenario
  <2>3. current \in DOMAIN manifests' /\ manifests'[current] = Synced(f)
    BY <2>1, <1>2, <1>9 DEF With
  <2>4. /\ Synced(f).recs = f.recs /\ Synced(f).synced = Len(f.recs)
        /\ FoundIn(Synced(f), scenario.reboots) = {Found(f.recs)}
    BY <2>2, FoundInSynced
  <2>5. Found(f.recs) = Latest /\ f.recs # <<>> /\ f.recs \in Seq(EditRec(ids))
    BY <2>1, <2>2, <1>8 DEF Latest, Database, ManifestFile
  <2>6. Len(f.recs) >= 1
    BY <2>5
  <2> QED BY <2>3, <2>4, <2>5, <2>6, <1>6, <1>9 DEF Latest, Versions
<1>12. /\ e.hasNumbers /\ e.next <= vs.next /\ e.log < e.next
       /\ Held(e.add, e.next)
       /\ ~Missed => e.add \subseteq Latest.files /\ Latest.log = e.log
       /\ \/ saving.who = "flush" /\ e.log = logNumber /\ e.del = {}
          \/ saving.who = "compact" /\ e.log = vs.log
       /\ saving.who = "flush" /\ Compacting => compaction.out \notin e.add
       /\ saving.who = "compact" => flush = NoTable
  BY <1>1, <1>2 DEF IInv, EditOK
<1>13. VersionOK(Latest) /\ Behind(Latest) /\ Latest \in VersionType(ids)
  BY <1>8
<1>14. /\ vs.log \in Nat /\ logNumber \in Nat /\ vs.next \in Nat /\ e.next \in Nat
       /\ e.log \in Nat /\ vs.log <= e.log /\ e.log <= logNumber /\ e.add \subseteq Nat
  <2>1. vs.log <= logNumber /\ vs.log \in Nat /\ logNumber \in Nat /\ vs.next \in Nat
    BY <1>8 DEF InUse, LogInUse, From, Types, ProcessTypes
  <2>2. e.log \in Nat /\ e.next \in Nat /\ e.add \subseteq Nat
    BY <1>1, <1>2, WhoSaves DEF EditRec
  <2> QED BY <2>1, <2>2, <1>12
<1>15. /\ saving.who = "flush" => Ents(tables, vs'.files) = Ents(tables, vs.files) \cup imm
       /\ saving.who = "compact" => Ents(tables, vs'.files) = Ents(tables, vs.files)
  <2>1. PICK F, G : F = vs.files /\ G = (F \ e.del) \cup e.add
    OBVIOUS
  <2>2. Ents(tables, vs.files) \subseteq Ents(tables, F)
    BY <2>1
  <2>3. /\ saving.who = "flush" => Ents(tables, G) = Ents(tables, F) \cup imm
        /\ saving.who = "compact" => Ents(tables, G) = Ents(tables, F)
    BY <2>1, <2>2, <1>1, <1>2, EditFacts
  <2> QED BY <2>1, <2>3, <1>10
<1>16. Ents(tables, vs.files) \subseteq Ents(tables, vs'.files)
  BY <1>3, <1>15
<1>17. /\ \A f \in vs'.files \cup UNION iters : f \notin garbage'.tables
       /\ \A f \in p : f \notin garbage'.tables
       /\ \A n \in garbage'.logs : n < e.log
       /\ current \notin garbage'.manifests
  <2>1. CASE bgError
    BY <2>1, <1>2 DEF NoGarbage
  <2>2. CASE ~bgError
    <3>1. garbage' = Obsolete(vs', p)
      BY <2>2, <1>2
    <3>2. /\ garbage'.tables = DOMAIN tables \ (AddLiveFiles(vs') \cup p)
          /\ garbage'.logs = {n \in DOMAIN logs : n < vs'.log}
          /\ garbage'.manifests = {n \in DOMAIN manifests : n < vs'.manifest}
      BY <3>1 DEF Obsolete
    <3>3. ~(current < current)
      BY DEF Types, DiskTypes
    <3>4. AddLiveFiles(vs') = vs'.files \cup UNION iters
      BY DEF AddLiveFiles
    <3> QED BY <3>2, <3>3, <3>4, <1>10
  <2> QED BY <2>1, <2>2
<1>18. /\ bgError => garbage'.tables = {}
       /\ ~bgError => Latest.files \subseteq vs'.files
  <2>1. bgError => garbage'.tables = {}
    BY <1>2 DEF NoGarbage
  <2>2. Target = vs'.files
    BY <1>1, <1>2, <1>10 DEF Target
  <2> QED BY <2>1, <2>2, <1>8 DEF InUse
<1>19. VersionOK(Latest)'
  <2>1. Held(Latest.files, Latest.next)'
    <3>1. \A f \in Latest.files : f \notin garbage'.tables
      BY <1>17, <1>18
    <3>2. Held(Latest.files, Latest.next)
      BY <1>13 DEF VersionOK
    <3>3. Latest'.files = Latest.files /\ Latest'.next = Latest.next
      BY <1>11
    <3> QED BY <3>1, <3>2, <3>3, <1>2 DEF Held
  <2>2. Covers(Latest.files, Latest.log)' /\ Reach(Latest)' = Reach(Latest)
        /\ Ents(tables, Latest.files)' = Ents(tables, Latest.files)
    <3>1. Latest' = Latest
      BY <1>11
    <3>2. Reach(Latest)' = Reach(Latest)
      BY <3>1, <1>2 DEF Reach
    <3> QED BY <3>1, <3>2, <1>2, <1>6, <1>13 DEF VersionOK, Covers
  <2> QED BY <2>1, <2>2, <1>9, <1>11, <1>13 DEF VersionOK
<1>20. DiskOK'
  <2>1. \A v \in Versions' : v = Latest'
    BY <1>11
  <2>2. \A v \in Versions' : VersionOK(v)'
    BY <2>1, <1>19
  <2>3. Database'
    BY <2>2, <1>5, <1>9, <1>11, <1>17 DEF Database
  <2> QED BY <2>3, <1>8, <1>9 DEF DiskOK
<1>21. Contents' = Contents
  <2>1. vs'.files \subseteq DOMAIN tables
    BY <1>8, <1>10, <1>12 DEF Held
  <2>2. vs'.files \cap DOMAIN tables' = vs'.files
    BY <2>1, <1>2
  <2>3. Contents' = mem' \cup imm' \cup Ents(tables, vs'.files)
    BY <2>2, <1>2 DEF Contents, InTables, Ents
  <2> QED BY <2>3, <1>2, <1>3, <1>5, <1>8, <1>15
<1>22. LogInUse'
  <2>1. logNumber \in From(logs, vs'.log)
    BY <1>8, <1>10, <1>14 DEF InUse, LogInUse, From
  <2> QED BY <2>1, <1>2, <1>8, <1>10 DEF InUse, LogInUse
<1>23. Held(vs.files \cup UNION iters, vs.next)'
  <2>1. \A f \in vs.files \cup UNION iters : f \in DOMAIN tables /\ tables[f].whole /\ f < vs.next
    BY <1>8 DEF InUse, Held
  <2>2. \A f \in e.add : f \in DOMAIN tables /\ tables[f].whole /\ f < vs.next
    BY <1>12, <1>14 DEF Held
  <2>3. \A f \in vs'.files \cup UNION iters :
          f \in DOMAIN tables /\ tables[f].whole /\ f < vs.next
    BY <2>1, <2>2, <1>10
  <2> QED BY <2>3, <1>2, <1>10, <1>17 DEF Held
<1>24. \A n \in From(logs', vs'.log) :
         n = logNumber' \/ RecsOf(logs'[n]) \subseteq imm' \cup Ents(tables', vs'.files)
  <2>1. \A n \in From(logs, e.log) :
          n = logNumber \/ RecsOf(logs[n]) \subseteq imm \cup Ents(tables, vs.files)
    <3>1. From(logs, e.log) \subseteq From(logs, vs.log)
      BY <1>14 DEF From, Types, DiskTypes, Numbering
    <3> QED BY <3>1, <1>8 DEF InUse
  <2>2. imm \cup Ents(tables, vs.files) \subseteq imm' \cup Ents(tables, vs'.files)
    BY <1>3, <1>5, <1>15
  <2> QED BY <2>1, <2>2, <1>2, <1>10
<1>25. imm' \subseteq LogRecs(logs', vs'.log)
  <2>1. CASE saving.who = "flush"
    BY <2>1, <1>5
  <2>2. CASE saving.who = "compact"
    BY <2>2, <1>2, <1>5, <1>8, <1>10, <1>12 DEF InUse
  <2> QED BY <2>1, <2>2, <1>3
<1>26. \A v \in Versions' : Behind(v)'
  <2>1. PICK v : v = Latest
    OBVIOUS
  <2>2. /\ Behind(v) /\ Versions' = {v}
        /\ ~Missed => v.log = e.log /\ e.add \subseteq v.files
    BY <2>1, <1>11, <1>12, <1>13
  <2>3. ASSUME ~Missed
        PROVE  Ents(tables, vs'.files) \subseteq Ents(tables, v.files) /\ vs'.log <= v.log
    <3>1. Ents(tables, vs'.files) \subseteq Ents(tables, vs.files) \cup Ents(tables, e.add)
      BY <1>10 DEF Ents
    <3>2. Ents(tables, e.add) \subseteq Ents(tables, v.files)
      BY <2>2, <2>3 DEF Ents
    <3>3. vs'.log <= v.log
      BY <2>2, <2>3, <1>10, <1>14
    <3> QED BY <3>1, <3>2, <3>3, <2>2, <2>3 DEF Behind
  <2>4. Reach(v)' = Contents'
    BY <2>2, <1>2, <1>21 DEF Behind, Reach
  <2>5. Missed' <=> Missed
    BY <1>2, <1>9 DEF Missed
  <2>6. Behind(v)'
    BY <2>2, <2>3, <2>4, <2>5, <1>2, <1>10 DEF Behind
  <2> QED BY <2>2, <2>6
<1>27. ~bgError' => Latest'.files \subseteq Target'
  <2>1. Target' = vs'.files
    BY <1>2 DEF Target
  <2> QED BY <2>1, <1>2, <1>11, <1>18
<1>28. InUse'
  <2>1. UpTo(Contents', vs'.seq)
    BY <1>8, <1>10, <1>21 DEF InUse
  <2>2. \A n \in garbage'.logs : n < vs'.log
    BY <1>10, <1>17
  <2>3. current' # 0 /\ vs'.manifest = current' /\ vs'.desc
    BY <1>8, <1>9, <1>10
  <2> QED BY <2>1, <2>2, <2>3, <1>22, <1>23, <1>24, <1>25, <1>26, <1>27 DEF InUse
<1>29. RunningOK'
  BY <1>28 DEF RunningOK
<1>30. Quiet' /\ ReadingOK' /\ SavingOK' /\ CleanOK' /\ EditOK'
  BY <1>2, <1>5, StaysOpen DEF EditOK
<1>31. FlushOK' /\ ImmOK'
  BY <1>3, <1>5, <1>12 DEF FlushOK, ImmOK, IInv
<1>32. CompactionOK'
  <2>1. CASE saving.who = "compact"
    BY <2>1, <1>5 DEF CompactionOK, Compacting
  <2>2. CASE saving.who = "flush"
    <3>1. SUFFICES ASSUME Compacting PROVE CompactionOK'
      BY <2>2, <1>5 DEF CompactionOK, Compacting
    <3>2. CompactionOK
      BY DEF IInv
    <3>3. compaction' = compaction /\ p = pending /\ saving.who # "compact"
      BY <2>2, <1>1, <1>5
    <3>4. /\ compaction.inputs \subseteq vs.files
          /\ \A n \in Outputs(compaction) : n \in DOMAIN tables /\ n \in pending /\ n < vs.next
          /\ \A n \in compaction.outs : tables[n].whole
          /\ Ents(tables, compaction.inputs)
               = Ents(tables, compaction.outs) \cup compaction.left
          /\ compaction.out \notin vs.files \cup compaction.outs \cup UNION iters
          /\ \A v \in Versions : compaction.out \notin v.files
      BY <3>1, <3>2, <3>3 DEF CompactionOK
    <3>5. compaction.inputs \subseteq vs'.files
      BY <2>2, <3>4, <1>10, <1>12
    <3>6. compaction.out \notin vs'.files \cup compaction.outs \cup UNION iters
      <4>1. compaction.out \notin e.add
        BY <2>2, <3>1, <1>12
      <4> QED BY <4>1, <3>4, <1>10
    <3>7. \A v \in Versions' : compaction.out \notin v.files
      BY <3>4, <1>8, <1>11
    <3>8. \A n \in Outputs(compaction) : n \notin garbage'.tables
      BY <3>3, <3>4, <1>17
    <3> QED BY <3>3, <3>4, <3>5, <3>6, <3>7, <3>8, <1>2, <1>4, <1>10 DEF CompactionOK
  <2> QED BY <2>1, <2>2, <1>3
<1> QED BY <1>20, <1>29, <1>30, <1>31, <1>32 DEF IInv

-----------------------------------------------------------------------------
(* Steps of DB::Open.                                                      *)

(* The thread does nothing before the database is open.                    *)
LEMMA StaysClosed ==
  ASSUME pc' # "open", Quiet'
  PROVE  FlushOK' /\ CompactionOK' /\ EditOK' /\ ImmOK'
BY DEF Quiet, FlushOK, CompactionOK, Compacting, EditOK, ImmOK

(* Without a crash of the machine, a MANIFEST has one version.             *)
LEMMA OneVersion ==
  ASSUME NEW n \in Nat, NEW f \in ManifestFile(n)
  PROVE  FoundIn(f, FALSE) = {Found(f.recs)}
<1>1. f.recs \in Seq(EditRec(n)) /\ Len(f.recs) \in Nat
  BY DEF ManifestFile
<1>2. SubSeq(f.recs, 1, Len(f.recs)) = f.recs
  BY <1>1
<1>3. Lengths(f, FALSE) = {Len(f.recs)}
  BY DEF Lengths
<1> QED BY <1>2, <1>3 DEF FoundIn

(* NewDB writes the first MANIFEST.                                        *)
LEMMA NewDBStep ==
  ASSUME Types, IInv, NewDB
  PROVE  IInv'
<1>1. /\ pc = "closed" /\ current = 0 /\ pc' = "newdb"
      /\ UNCHANGED <<logs, tables, current, vs, opening, logNumber, mem, imm,
                     hasImm, bgVars, iters, history>>
  BY DEF NewDB
<1>2. UNCHANGED <<pending, flush, compaction, saving, garbage, bgError, required>>
  BY <1>1 DEF bgVars, history
<1>3. PICK e : e = [add |-> {}, del |-> {}, hasNumbers |-> TRUE, log |-> 0,
                    next |-> 2, seq |-> 0]
  OBVIOUS
<1>4. manifests' = With(manifests, 1, Appended(EmptyFile, e))
  BY <1>3 DEF NewDB
<1>5. Appended(EmptyFile, e) = [recs |-> <<e>>, synced |-> 0]
  <2>1. EmptyFile \in [recs : Seq({e}), synced : Nat] /\ EmptyFile.recs = <<>>
        /\ EmptyFile.synced = 0
    BY DEF EmptyFile
  <2>2. Appended(EmptyFile, e) = [recs |-> Append(EmptyFile.recs, e),
                                  synced |-> EmptyFile.synced]
    BY <2>1, FileSteps
  <2>3. Append(<<>>, e) = <<e>>
    OBVIOUS
  <2> QED BY <2>1, <2>2, <2>3
<1>6. 1 \in DOMAIN manifests' /\ manifests'[1] = [recs |-> <<e>>, synced |-> 0]
  BY <1>4, <1>5 DEF With
<1>7. DiskOK'
  <2>1. NoDatabase
    BY <1>1 DEF IInv, DiskOK
  <2>2. NoDatabase'
    BY <2>1, <1>1, <1>2, <1>3, <1>6 DEF NoDatabase
  <2> QED BY <2>2, <1>1 DEF DiskOK
<1>8. Quiet'
  BY <1>1, <1>2 DEF IInv, Quiet
<1>9. ReadingOK' /\ SavingOK' /\ RunningOK' /\ CleanOK'
  BY <1>1 DEF ReadingOK, SavingOK, RunningOK, Running, CleanOK
<1> QED BY <1>1, <1>7, <1>8, <1>9, StaysClosed DEF IInv

(* The new database is there.                                              *)
LEMMA NewDBCurrentStep ==
  ASSUME Types, IInv, Types', NewDBCurrent
  PROVE  IInv'
<1>1. /\ pc = "newdb" /\ pc' = "closed" /\ current' = 1
      /\ manifests' = With(manifests, 1, Synced(manifests[1]))
      /\ UNCHANGED <<logs, tables, vs, opening, logNumber, mem, imm, hasImm,
                     bgVars, iters, history>>
  BY DEF NewDBCurrent, SetCurrentFile
<1>2. UNCHANGED <<pending, flush, compaction, saving, garbage, bgError, scenario,
                  required, synced, ids>>
  BY <1>1 DEF bgVars, history
<1>3. NoDatabase
  BY <1>1 DEF IInv, DiskOK, Database
<1>4. PICK e : e = [add |-> {}, del |-> {}, hasNumbers |-> TRUE, log |-> 0,
                    next |-> 2, seq |-> 0]
  OBVIOUS
<1>5. e.add = {} /\ e.del = {} /\ e.hasNumbers /\ e.log = 0 /\ e.next = 2 /\ e.seq = 0
      /\ ids \in Nat /\ e \in EditRec(ids)
  BY <1>4 DEF EditRec, Types, DiskTypes
<1>6. PICK f : f = [recs |-> <<e>>, synced |-> 0]
  OBVIOUS
<1>7. f.recs = <<e>> /\ f.synced = 0 /\ f \in ManifestFile(ids) /\ manifests[1] = f
  <2>1. <<e>> \in Seq(EditRec(ids)) /\ 0 <= Len(<<e>>) /\ 0 \in Nat
    BY <1>5
  <2>2. f.recs = <<e>> /\ f.synced = 0 /\ f \in [recs : Seq(EditRec(ids)), synced : Nat]
    BY <2>1, <1>6
  <2>3. f \in ManifestFile(ids)
    BY <2>1, <2>2 DEF ManifestFile
  <2>4. manifests[1] = f
    BY <1>1, <1>3, <1>4, <1>6 DEF NoDatabase
  <2> QED BY <2>2, <2>3, <2>4
<1>8. manifests'[1] = Synced(f) /\ 1 \in DOMAIN manifests'
  BY <1>1, <1>7 DEF With
<1>9. /\ Synced(f).recs = f.recs /\ Synced(f).synced = Len(f.recs)
      /\ FoundIn(Synced(f), scenario.reboots) = {Found(f.recs)}
  <2>1. scenario.reboots \in BOOLEAN
    BY DEF Types, DiskTypes, Scenario
  <2> QED BY <2>1, <1>5, <1>7, FoundInSynced
<1>10. PICK A : A = Found(<<e>>)
  OBVIOUS
<1>11. A.files = {} /\ A.log = 0 /\ A.next = 2 /\ A.seq = 0 /\ A.numbers
  <2>1. Append(<<>>, e) = <<e>> /\ <<>> \in Seq(EditRec(ids))
    OBVIOUS
  <2>2. Found(<<e>>) = Applied(FilesAfter(<<>>), e)
    BY <2>1, <1>5, FoundAppend
  <2>3. FilesAfter(<<>>) = {}
    BY DEF FilesAfter
  <2> QED BY <2>2, <2>3, <1>5, <1>10 DEF Applied
<1>12. Latest' = A /\ Versions' = {A}
  BY <1>1, <1>2, <1>7, <1>8, <1>9, <1>10 DEF Latest, Versions
<1>13. /\ \A T : Ents(T, A.files) = {}
       /\ LogRecs(logs', A.log) = {} /\ SyncedRecs(logs', A.log) = {}
       /\ required' = {}
  <2>1. From(logs', A.log) = {}
    BY <1>1, <1>3 DEF From, NoDatabase
  <2> QED BY <2>1, <1>2, <1>3, <1>11 DEF LogRecs, SyncedRecs, Ents, NoDatabase
<1>14. VersionOK(A)'
  <2>1. Held(A.files, A.next)' /\ UpTo(Ents(tables', A.files), A.seq) /\ Reach(A)' = {}
    BY <1>11, <1>13 DEF Held, UpTo, Reach
  <2>2. Distinct({})
    BY DEF Distinct
  <2>3. Covers(A.files, A.log)'
    BY <1>13 DEF Covers
  <2> QED BY <2>1, <2>2, <2>3, <1>1, <1>11, <1>12 DEF VersionOK
<1>15. DiskOK'
  <2>1. garbage' = NoGarbage
    BY <1>1, <1>2 DEF IInv, Quiet
  <2>2. manifests'[1].recs # <<>> /\ manifests'[1].synced >= 1
    BY <1>7, <1>8, <1>9
  <2>3. Database'
    BY <2>1, <2>2, <1>1, <1>8, <1>12, <1>14 DEF Database, NoGarbage
  <2> QED BY <2>3, <1>1 DEF DiskOK
<1>16. Quiet'
  BY <1>1, <1>2 DEF IInv, Quiet
<1>17. ReadingOK' /\ SavingOK' /\ RunningOK' /\ CleanOK'
  BY <1>1 DEF ReadingOK, SavingOK, RunningOK, Running, CleanOK
<1> QED BY <1>1, <1>15, <1>16, <1>17, StaysClosed DEF IInv

(* A step of Open that touches neither the MANIFEST nor what the versions  *)
(* hold.                                                                   *)
LEMMA OpenKeepsDisk ==
  ASSUME Types, Types', Database, current # 0,
         UNCHANGED <<scenario, current, required, synced, logs>>, pc' # "newdb",
         garbage' = NoGarbage,
         current \in DOMAIN manifests', manifests'[current] = manifests[current],
         \A v \in Versions : \A f \in v.files : f \in DOMAIN tables' /\ tables'[f] = tables[f]
  PROVE  DiskOK' /\ Database' /\ Versions' = Versions /\ Latest' = Latest
<1>1. DiskTypes /\ DiskTypes'
  BY DEF Types
<1>2. garbage'.tables = {} /\ garbage'.manifests = {}
  BY DEF NoGarbage
<1>3. Database' /\ Versions' = Versions /\ Latest' = Latest
  BY <1>1, <1>2, DatabaseKept
<1> QED BY <1>3 DEF DiskOK

(* A database before it is in use, unfolded.                               *)
LEMMA OpeningFacts ==
  ASSUME Types, IInv, current # 0
  PROVE  /\ Database /\ Versions \subseteq VersionType(ids)
         /\ Latest \in Versions /\ \A v \in Versions : VersionOK(v)
         /\ Latest \in VersionType(ids) /\ VersionOK(Latest)
<1>1. Database
  BY DEF IInv, DiskOK
<1>2. \A v \in Versions : VersionOK(v)
  BY <1>1 DEF Database
<1> QED BY <1>1, <1>2, VersionsType DEF Types

(* Recover has found a version; all the logs from its number on are to be  *)
(* read.                                                                   *)
LEMMA RecoverVersionsStep ==
  ASSUME Types, IInv, Types', RecoverVersions, pc' # "corrupt"
  PROVE  IInv'
<1>1. /\ pc = "closed" /\ current # 0 /\ pc' = "logs"
      /\ UNCHANGED <<disk, logNumber, mem, imm, hasImm, bgVars, iters, history>>
      /\ \E reuse \in {FALSE, scenario.reuseLogs} :
           /\ vs' = [files |-> Latest.files, log |-> Latest.log,
                     next |-> Latest.next + 1,
                     manifest |-> IF reuse THEN current ELSE Latest.next,
                     seq |-> Latest.seq, desc |-> reuse]
           /\ opening'.todo = LogsToRecover(Latest.log) /\ opening'.add = {}
           /\ opening'.save = ~reuse /\ opening'.maxSeq = 0
           /\ opening'.hasMem = FALSE
  BY RecoverFacts
<1>2. UNCHANGED <<logs, tables, manifests, current, pending, flush, compaction, saving,
                  garbage, bgError, scenario, required, synced, ids>>
  BY <1>1 DEF disk, bgVars, history
<1>3. /\ Database /\ Latest \in VersionType(ids) /\ VersionOK(Latest)
      /\ \A v \in Versions : VersionOK(v)
  BY <1>1, OpeningFacts
<1>4. /\ Latest.next \in Nat /\ Latest.log \in Nat /\ current \in Nat
      /\ Latest.log < Latest.next /\ current < Latest.next
      /\ DOMAIN logs \subseteq Nat
  BY <1>3 DEF VersionOK, VersionType, Types, DiskTypes, Numbering
<1>5. DiskOK' /\ Latest' = Latest
  <2>1. garbage' = NoGarbage
    BY <1>1, <1>2 DEF IInv, Quiet
  <2>2. current \in DOMAIN manifests'
    BY <1>2, <1>3 DEF Database
  <2>3. \A v \in Versions : \A f \in v.files : f \in DOMAIN tables' /\ tables'[f] = tables[f]
    BY <1>2, <1>3 DEF VersionOK, Held
  <2> QED BY <2>1, <2>2, <2>3, <1>1, <1>2, <1>3, OpenKeepsDisk
<1>6. /\ vs'.files = Latest.files /\ vs'.log = Latest.log /\ vs'.next = Latest.next + 1
      /\ vs'.seq = Latest.seq
      /\ IF vs'.desc THEN vs'.manifest = current /\ scenario.reuseLogs
         ELSE vs'.manifest = Latest.next /\ opening'.save
      /\ opening'.todo = From(logs, Latest.log) /\ opening'.add = {}
      /\ opening'.hasMem = FALSE
  <2>1. PICK reuse \in {FALSE, scenario.reuseLogs} :
          /\ vs' = [files |-> Latest.files, log |-> Latest.log,
                    next |-> Latest.next + 1,
                    manifest |-> IF reuse THEN current ELSE Latest.next,
                    seq |-> Latest.seq, desc |-> reuse]
          /\ opening'.todo = LogsToRecover(Latest.log) /\ opening'.add = {}
          /\ opening'.save = ~reuse /\ opening'.hasMem = FALSE
    BY <1>1
  <2>2. /\ vs'.files = Latest.files /\ vs'.log = Latest.log /\ vs'.next = Latest.next + 1
        /\ vs'.seq = Latest.seq /\ vs'.desc = reuse
        /\ vs'.manifest = IF reuse THEN current ELSE Latest.next
    BY <2>1
  <2>3. LogsToRecover(Latest.log) = From(logs, Latest.log)
    BY DEF LogsToRecover, From
  <2>4. reuse => scenario.reuseLogs
    BY <2>1
  <2> QED BY <2>1, <2>2, <2>3, <2>4
<1>7. ManifestChosen'
  <2>1. Ents(tables', opening'.add) = {}
    BY <1>6 DEF Ents
  <2>2. Held(opening.add, vs.next)'
    BY <1>6 DEF Held
  <2>3. ~vs'.desc => current < vs'.manifest /\ vs'.manifest < vs'.next
    BY <1>4, <1>6
  <2>4. vs'.log < vs'.next
    BY <1>4, <1>6
  <2> QED BY <2>1, <2>2, <2>3, <2>4, <1>1, <1>2, <1>6 DEF ManifestChosen
<1>8. Reading'
  <2>1. Latest'.next < vs'.next
    BY <1>4, <1>5, <1>6
  <2>2. \A n \in DOMAIN logs : n \in From(logs, Latest.log) \/ n < vs'.next
    BY <1>4, <1>6 DEF From
  <2>3. mem' = {}
    BY <1>1 DEF IInv, Quiet
  <2> QED BY <2>1, <2>2, <2>3, <1>2, <1>5, <1>6, <1>7 DEF Reading
<1>9. Quiet'
  BY <1>1, <1>2 DEF IInv, Quiet
<1>10. ReadingOK' /\ SavingOK' /\ RunningOK' /\ CleanOK'
  BY <1>1, <1>8 DEF ReadingOK, SavingOK, RunningOK, Running, CleanOK
<1> QED BY <1>1, <1>5, <1>9, <1>10, StaysClosed DEF IInv

(* Or it has found records behind a torn one, and goes no further.         *)
LEMMA CorruptStep ==
  ASSUME Types, IInv, Types', RecoverVersions, pc' = "corrupt"
  PROVE  IInv'
<1>1. /\ pc = "closed" /\ current # 0
      /\ UNCHANGED <<disk, logNumber, mem, imm, hasImm, bgVars, iters, history>>
  BY DEF RecoverVersions
<1>2. UNCHANGED <<logs, tables, manifests, current, pending, flush, compaction, saving,
                  garbage, bgError, scenario, required, synced, ids>>
  BY <1>1 DEF disk, bgVars, history
<1>3. Database /\ \A v \in Versions : VersionOK(v)
  BY <1>1, OpeningFacts
<1>4. DiskOK'
  <2>1. garbage' = NoGarbage
    BY <1>1, <1>2 DEF IInv, Quiet
  <2>2. current \in DOMAIN manifests'
    BY <1>2, <1>3 DEF Database
  <2>3. \A v \in Versions : \A f \in v.files : f \in DOMAIN tables' /\ tables'[f] = tables[f]
    BY <1>2, <1>3 DEF VersionOK, Held
  <2> QED BY <2>1, <2>2, <2>3, <1>1, <1>2, <1>3, OpenKeepsDisk
<1>5. Quiet'
  BY <1>1, <1>2 DEF IInv, Quiet
<1>6. ReadingOK' /\ SavingOK' /\ RunningOK' /\ CleanOK'
  BY DEF ReadingOK, SavingOK, RunningOK, Running, CleanOK
<1> QED BY <1>4, <1>5, <1>6, StaysClosed DEF IInv

(* Open fails: what it wrote is not in the database.                       *)
LEMMA OpenFailsStep ==
  ASSUME Types, IInv, Types', OpenFails \/ EditFails, pc # "open"
  PROVE  IInv'
<1>1. /\ pc \in {"newdb", "logs", "saving"} /\ pc' = "failed" /\ saving' = NotSaving
      /\ UNCHANGED <<logs, tables, current, vs, opening, logNumber, mem, imm,
                     hasImm, iters, scenario, required, synced, ids>>
      /\ UNCHANGED <<flush, compaction, pending, garbage, bgError>>
  <2>1. CASE OpenFails
    BY <2>1 DEF OpenFails, bgVars, history, IInv, Quiet
  <2>2. CASE EditFails
    <3>1. saving.who = "open" /\ pc = "saving"
      BY <2>2, WhoSaves DEF EditFails
    <3> QED BY <3>1, <2>2 DEF EditFails
  <2> QED BY <2>1, <2>2
<1>2. UNCHANGED <<scenario, required, synced, ids>>
  BY <1>1
<1>3. current # 0 => current \in DOMAIN manifests /\ Database
  BY DEF IInv, DiskOK, Database
<1>4. current # 0 => current \in DOMAIN manifests' /\ manifests'[current] = manifests[current]
  <2>1. CASE OpenFails
    <3>1. manifests' = manifests \/ manifests' = Without(manifests, {1} \ {current})
      BY <2>1 DEF OpenFails
    <3> QED BY <3>1, <1>3 DEF Without
  <2>2. CASE EditFails
    <3>1. saving.who = "open" /\ pc = "saving"
      BY <2>2, WhoSaves DEF EditFails
    <3>2. manifests' = IF vs.desc THEN manifests ELSE Without(manifests, {vs.manifest})
      BY <3>1, <2>2 DEF EditFails
    <3>3. ~vs.desc => current < vs.manifest /\ current \in Nat
      BY <3>1 DEF IInv, SavingOK, SavingAtOpen, ManifestChosen, Types, DiskTypes
    <3>4. ~vs.desc => current # vs.manifest
      BY <3>3
    <3> QED BY <3>2, <3>4, <1>3 DEF Without
  <2> QED BY <2>1, <2>2
<1>5. DiskOK'
  <2>1. CASE current = 0
    <3>1. NoDatabase
      BY <2>1 DEF IInv, DiskOK
    <3>2. NoDatabase'
      BY <3>1, <1>1, <1>2 DEF NoDatabase
    <3> QED BY <3>2, <2>1, <1>1 DEF DiskOK
  <2>2. CASE current # 0
    <3>1. garbage' = NoGarbage
      BY <1>1 DEF IInv, Quiet
    <3>2. \A v \in Versions : \A f \in v.files : f \in DOMAIN tables' /\ tables'[f] = tables[f]
      BY <2>2, <1>1, OpeningFacts DEF VersionOK, Held
    <3> QED BY <3>1, <3>2, <2>2, <1>1, <1>2, <1>3, <1>4, OpenKeepsDisk
  <2> QED BY <2>1, <2>2
<1>6. Quiet'
  BY <1>1 DEF IInv, Quiet
<1>7. ReadingOK' /\ SavingOK' /\ RunningOK' /\ CleanOK'
  BY <1>1 DEF ReadingOK, SavingOK, RunningOK, Running, CleanOK
<1> QED BY <1>1, <1>5, <1>6, <1>7, StaysClosed DEF IInv

(* The oldest log left is read.                                            *)
LEMMA RecoverLogFileStep ==
  ASSUME Sound, Types, IInv, Types', RecoverLogFile
  PROVE  IInv'
<1>1. pc = "logs" /\ opening.todo # {} /\ Reading
  BY DEF RecoverLogFile, IInv, ReadingOK
<1>2. /\ ManifestChosen /\ current # 0
      /\ vs.files = Latest.files /\ vs.log = Latest.log /\ vs.seq = Latest.seq
      /\ Latest.next < vs.next
      /\ opening.todo \subseteq From(logs, vs.log)
      /\ \A m \in DOMAIN logs : m \in opening.todo \/ m < vs.next
      /\ \A m \in From(logs, vs.log) : m \in opening.todo \/ Read(m)
      /\ ~opening.save => opening.add = {}
      /\ ~opening.hasMem /\ mem = {}
  BY <1>1 DEF Reading, ManifestChosen
<1>3. opening.todo \subseteq DOMAIN logs
  BY <1>2 DEF From
<1>4. PICK n \in Nat, count \in Nat, reuse \in BOOLEAN : ReadStep(n, count, reuse)
  BY <1>3, ReadFacts
<1>5. PICK new : new = vs.next .. vs.next + count - 1
  OBVIOUS
<1>6. /\ n \in opening.todo /\ \A m \in opening.todo : n <= m
      /\ reuse => scenario.reuseLogs /\ opening.todo = {n} /\ count = 0
      /\ DOMAIN tables' = DOMAIN tables \cup new
      /\ \A t \in DOMAIN tables \ new : tables'[t] = tables[t]
      /\ \A t \in new : tables'[t].whole /\ tables'[t].ents \subseteq RecsOf(logs[n])
      /\ ~reuse => RecsOf(logs[n]) \subseteq Ents(tables', new)
      /\ logNumber' = IF reuse THEN n ELSE logNumber
      /\ mem' = IF reuse THEN RecsOf(logs[n]) ELSE mem
      /\ UNCHANGED <<logs, manifests, current, pc, imm, hasImm, bgVars, iters, history>>
  BY <1>4, <1>5 DEF ReadStep
<1>7. PICK x \in Nat : vs' = [vs EXCEPT !.next = x] /\ vs.next + count <= x /\ n < x
  BY <1>4 DEF ReadStep
<1>8. PICK s \in 0 .. ids :
        /\ opening' = [todo |-> opening.todo \ {n}, add |-> opening.add \cup new,
                       save |-> opening.save \/ count > 0, maxSeq |-> s,
                       hasMem |-> reuse]
        /\ opening.maxSeq <= s /\ UpTo(RecsOf(logs[n]), s)
  BY <1>4, <1>5 DEF ReadStep
<1>9. /\ vs'.files = vs.files /\ vs'.log = vs.log /\ vs'.next = x /\ vs'.seq = vs.seq
      /\ vs'.manifest = vs.manifest /\ vs'.desc = vs.desc
  BY <1>7 DEF Types, ProcessTypes
<1>10. /\ opening'.todo = opening.todo \ {n} /\ opening'.add = opening.add \cup new
       /\ opening'.save = (opening.save \/ count > 0) /\ opening'.maxSeq = s
       /\ opening'.hasMem = reuse
  BY <1>8
<1>11. UNCHANGED <<pending, flush, compaction, saving, garbage, bgError, scenario,
                   required, synced, ids>>
  BY <1>6 DEF bgVars, history
<1>12. garbage = NoGarbage /\ garbage' = NoGarbage /\ garbage'.tables = {}
  BY <1>1, <1>11 DEF IInv, Quiet, NoGarbage
<1>13. /\ vs.next \in Nat /\ vs.log \in Nat /\ vs.next <= x
       /\ \A t \in new : t \in Nat /\ vs.next <= t /\ t < x
       /\ DOMAIN logs \subseteq Nat /\ current \in Nat /\ vs.manifest \in Nat
       /\ opening.maxSeq \in Nat /\ s \in Nat /\ ids \in Nat
  <2>1. /\ vs.next \in Nat /\ vs.log \in Nat /\ DOMAIN logs \subseteq Nat /\ ids \in Nat
        /\ current \in Nat /\ vs.manifest \in Nat /\ opening.maxSeq \in 0 .. ids
    BY DEF Types, DiskTypes, ProcessTypes, Numbering
  <2>2. opening.maxSeq \in Nat /\ s \in Nat
    BY <2>1
  <2>3. vs.next <= x /\ \A t \in new : t \in Nat /\ vs.next <= t /\ t < x
    BY <2>1, <1>5, <1>7
  <2> QED BY <2>1, <2>2, <2>3
<1>14. /\ Database /\ Latest \in VersionType(ids) /\ VersionOK(Latest)
       /\ Versions \subseteq VersionType(ids) /\ \A v \in Versions : VersionOK(v)
  BY <1>2, OpeningFacts
<1>15. DiskOK' /\ Latest' = Latest
  <2>1. ASSUME NEW v \in Versions, NEW f \in v.files
        PROVE  f \in DOMAIN tables' /\ tables'[f] = tables[f]
    <3>1. f \in DOMAIN tables /\ f < v.next /\ v.next <= Latest.next
          /\ f \in Nat /\ v.next \in Nat /\ Latest.next \in Nat
      BY <1>14 DEF VersionOK, Held, VersionType
    <3>2. f < vs.next
      BY <3>1, <1>2, <1>13
    <3>3. f \notin new
      BY <3>1, <3>2, <1>13
    <3> QED BY <3>1, <3>3, <1>6
  <2>2. current \in DOMAIN manifests' /\ manifests'[current] = manifests[current]
    BY <1>6, <1>14 DEF Database
  <2> QED BY <2>1, <2>2, <1>1, <1>2, <1>6, <1>11, <1>12, <1>14, OpenKeepsDisk
<1>16. \A f \in opening.add : /\ f \in DOMAIN tables /\ tables'[f] = tables[f]
                              /\ tables[f].whole /\ f \in Nat /\ f < vs.next
  <2>1. \A f \in opening.add : /\ f \in DOMAIN tables /\ tables[f].whole
                               /\ f \in Nat /\ f < vs.next
    BY <1>2 DEF ManifestChosen, Held, Types, ProcessTypes
  <2>2. \A f \in opening.add : f \notin new
    BY <2>1, <1>13
  <2> QED BY <2>1, <2>2, <1>6
<1>17. Ents(tables', opening.add) = Ents(tables, opening.add)
       /\ Ents(tables', opening'.add) = Ents(tables, opening.add) \cup Ents(tables', new)
  <2>1. Ents(tables', opening.add) = Ents(tables, opening.add)
    BY <1>16, SameEnts
  <2> QED BY <2>1, <1>10, EntsUnion
<1>18. n \in From(logs, vs.log)
  BY <1>2, <1>6
<1>19. ManifestChosen'
  <2>1. Held(opening.add, vs.next)'
    <3>1. \A f \in opening'.add : /\ f \in DOMAIN tables' /\ tables'[f].whole
                                  /\ f \notin garbage'.tables /\ f < x
      BY <1>6, <1>10, <1>12, <1>13, <1>16
    <3> QED BY <3>1, <1>9 DEF Held
  <2>2. Ents(tables', opening'.add) \subseteq LogRecs(logs', vs'.log)
    <3>1. Ents(tables', new) \subseteq RecsOf(logs[n])
      BY <1>6 DEF Ents
    <3>2. RecsOf(logs[n]) \subseteq LogRecs(logs, vs.log)
      BY <1>18 DEF LogRecs
    <3>3. Ents(tables, opening.add) \subseteq LogRecs(logs, vs.log)
      BY <1>2 DEF ManifestChosen
    <3> QED BY <3>1, <3>2, <3>3, <1>6, <1>9, <1>17
  <2>3. ~vs'.desc => current < vs'.manifest /\ vs'.manifest < vs'.next /\ opening'.save
    <3>1. ~vs.desc => current < vs.manifest /\ vs.manifest < vs.next /\ opening.save
      BY <1>2 DEF ManifestChosen
    <3>2. opening.save => opening'.save
      BY <1>10, Zenon
    <3> QED BY <3>1, <3>2, <1>9, <1>13
  <2>4. vs'.log < vs'.next
    BY <1>2, <1>9, <1>13 DEF ManifestChosen
  <2>5. vs'.desc => vs'.manifest = current /\ scenario.reuseLogs
    BY <1>2, <1>9 DEF ManifestChosen
  <2> QED BY <2>1, <2>2, <2>3, <2>4, <2>5, <1>2, <1>6, <1>11 DEF ManifestChosen
<1>20. ASSUME NEW m \in From(logs, vs.log), m \notin opening'.todo
       PROVE  Read(m)' /\ m <= n
  <2>1. CASE m = n
    <3>1. \A k \in opening'.todo : n < k
      <4>1. \A k \in opening'.todo : n <= k /\ k # n /\ k \in Nat
        BY <1>3, <1>6, <1>10, <1>13
      <4> QED BY <4>1
    <3>2. \/ RecsOf(logs[n]) \subseteq Ents(tables', opening'.add)
          \/ opening'.hasMem /\ n = logNumber'
      BY <1>6, <1>10, <1>17
    <3> QED BY <3>1, <3>2, <2>1, <1>6, <1>8, <1>10 DEF Read
  <2>2. CASE m # n
    <3>1. Read(m)
      BY <2>2, <1>2, <1>10, <1>20
    <3>2. /\ \A k \in opening.todo : m < k
          /\ UpTo(RecsOf(logs[m]), opening.maxSeq)
          /\ RecsOf(logs[m]) \subseteq Ents(tables, opening.add)
      BY <3>1, <1>2 DEF Read
    <3>3. UpTo(RecsOf(logs[m]), s)
      <4>1. \A r \in RecsOf(logs[m]) : r.seq \in Nat
        <5>1. logs[m] \in LogFile(ids)
          BY DEF From, Types, DiskTypes, Numbering
        <5>2. RecsOf(logs[m]) \subseteq Rec(ids)
          BY <5>1 DEF LogFile, RecsOf
        <5> QED BY <5>2, <1>13 DEF Rec
      <4> QED BY <4>1, <3>2, <1>8, <1>13 DEF UpTo
    <3>4. m < n /\ m \in Nat
      BY <3>2, <1>6, <1>13 DEF From
    <3>5. \A k \in opening'.todo : m < k
      BY <3>2, <1>10
    <3>6. RecsOf(logs[m]) \subseteq Ents(tables', opening'.add)
      BY <3>2, <1>17
    <3>7. logs' = logs /\ opening'.maxSeq = s
      BY <1>6, <1>10
    <3>8. m <= n
      BY <3>4
    <3> QED BY <3>3, <3>5, <3>6, <3>7, <3>8 DEF Read
  <2> QED BY <2>1, <2>2
<1>21. IF opening'.hasMem
       THEN /\ opening'.todo = {} /\ logNumber' \in From(logs', vs'.log)
            /\ \A m \in From(logs', vs'.log) : m <= logNumber'
            /\ mem' = RecsOf(logs'[logNumber'])
            /\ scenario'.reuseLogs
       ELSE mem' = {}
  <2>1. CASE reuse
    <3>1. opening'.todo = {} /\ logNumber' = n /\ mem' = RecsOf(logs[n]) /\ scenario.reuseLogs
      BY <2>1, <1>6, <1>10
    <3>2. \A m \in From(logs, vs.log) : m <= n
      BY <3>1, <1>20
    <3> QED BY <3>1, <3>2, <2>1, <1>6, <1>9, <1>10, <1>11, <1>18
  <2>2. CASE ~reuse
    BY <2>2, <1>2, <1>6, <1>10
  <2> QED BY <2>1, <2>2
<1>22. ~opening'.save => opening'.add = {}
  <2>1. SUFFICES ASSUME ~opening'.save PROVE opening'.add = {}
    OBVIOUS
  <2>2. ~opening.save /\ ~(count > 0)
    BY <2>1, <1>10, Zenon
  <2>3. new = {}
    <3>1. count = 0
      BY <2>2
    <3> QED BY <3>1, <1>5, <1>13
  <2> QED BY <2>2, <2>3, <1>2, <1>10
<1>23. Reading'
  <2>1. Latest'.next < vs'.next
    <3>1. Latest.next \in Nat
      BY <1>14 DEF VersionType
    <3> QED BY <3>1, <1>2, <1>9, <1>13, <1>15
  <2>2. \A m \in DOMAIN logs' : m \in opening'.todo \/ m < vs'.next
    BY <1>2, <1>6, <1>7, <1>9, <1>10, <1>13
  <2>3. opening'.todo \subseteq From(logs', vs'.log)
    BY <1>2, <1>6, <1>9, <1>10
  <2>4. \A m \in From(logs', vs'.log) : m \in opening'.todo \/ Read(m)'
    BY <1>6, <1>9, <1>20
  <2>5. vs'.files = Latest'.files /\ vs'.log = Latest'.log /\ vs'.seq = Latest'.seq
    BY <1>2, <1>9, <1>15
  <2> QED BY <2>1, <2>2, <2>3, <2>4, <2>5, <1>19, <1>21, <1>22 DEF Reading
<1>24. Quiet'
  BY <1>1, <1>6, <1>11 DEF IInv, Quiet
<1>25. ReadingOK' /\ SavingOK' /\ RunningOK' /\ CleanOK' /\ pc' # "open"
  BY <1>1, <1>6, <1>23 DEF ReadingOK, SavingOK, RunningOK, Running, CleanOK
<1> QED BY <1>15, <1>24, <1>25, StaysClosed DEF IInv

(* All logs are read and the log to use is chosen.                         *)
LogChosen ==
  /\ vs'.files = vs.files /\ vs'.log = vs.log /\ vs'.manifest = vs.manifest
  /\ vs'.desc = vs.desc /\ vs.next <= vs'.next
  /\ UNCHANGED <<tables, manifests, current, opening, mem, imm, hasImm, pending, flush,
                 compaction, bgError, iters, scenario, ids, synced, required>>
  /\ DOMAIN logs' \subseteq DOMAIN logs \cup {logNumber'}
  /\ DOMAIN logs \subseteq DOMAIN logs'
  /\ \A k \in Nat : /\ LogRecs(logs', k) = LogRecs(logs, k)
                    /\ SyncedRecs(logs', k) = SyncedRecs(logs, k)
  /\ LogInUse' /\ vs.log <= logNumber'
  /\ \A m \in From(logs', vs.log) :
       /\ m <= logNumber'
       /\ m = logNumber' \/ RecsOf(logs'[m]) \subseteq Ents(tables, opening.add)
  /\ mem \subseteq LogRecs(logs, vs.log)
  /\ UpTo(Ents(tables, vs.files) \cup LogRecs(logs, vs.log), vs'.seq)

(* OpenLog does so.                                                        *)
LEMMA OpenLogFacts ==
  ASSUME Types, IInv, Types', OpenLog
  PROVE  LogChosen
<1>1. /\ pc = "logs" /\ opening.todo = {}
      /\ UNCHANGED <<tables, manifests, current, opening, mem, imm, hasImm, pending, flush,
                     compaction, bgError, iters, history>>
  BY DEF OpenLog
<1>2. UNCHANGED <<scenario, ids, synced, required>>
  BY <1>1 DEF history
<1>3. Reading
  BY <1>1 DEF IInv, ReadingOK
<1>4. /\ current # 0 /\ vs.log < vs.next
      /\ vs.files = Latest.files /\ vs.log = Latest.log /\ vs.seq = Latest.seq
      /\ \A m \in DOMAIN logs : m < vs.next
      /\ \A m \in From(logs, vs.log) : Read(m)
      /\ IF opening.hasMem
         THEN /\ logNumber \in From(logs, vs.log)
              /\ \A n \in From(logs, vs.log) : n <= logNumber
              /\ mem = RecsOf(logs[logNumber])
         ELSE mem = {}
  BY <1>1, <1>3 DEF Reading, ManifestChosen
<1>5. /\ Numbering(logs, LogFile(ids)) /\ DOMAIN logs \subseteq Nat /\ ids \in Nat
      /\ vs.next \in Nat /\ vs.log \in Nat /\ vs.seq \in 0 .. ids
      /\ opening.maxSeq \in 0 .. ids /\ logNumber \in Nat /\ opening.hasMem \in BOOLEAN
  BY DEF Types, DiskTypes, ProcessTypes, Numbering
<1>6. PICK s, x : /\ s = Max({vs.seq, opening.maxSeq})
                  /\ x = IF ~opening.hasMem THEN vs.next + 1 ELSE vs.next
  OBVIOUS
<1>7. s \in Nat /\ vs.seq <= s /\ opening.maxSeq <= s
  <2>1. {vs.seq, opening.maxSeq} \in SUBSET Nat /\ {vs.seq, opening.maxSeq} # {}
        /\ \A y \in {vs.seq, opening.maxSeq} : y <= ids
    BY <1>5
  <2>2. s \in {vs.seq, opening.maxSeq} /\ \A y \in {vs.seq, opening.maxSeq} : y <= s
    BY <2>1, <1>5, <1>6, MaxIsGreatest
  <2> QED BY <2>1, <2>2
<1>8. vs' = [vs EXCEPT !.seq = s, !.next = x]
  BY <1>6 DEF OpenLog, SetLastSequence
<1>9. /\ vs'.files = vs.files /\ vs'.log = vs.log /\ vs'.manifest = vs.manifest
      /\ vs'.desc = vs.desc /\ vs'.next = x /\ vs'.seq = s /\ vs.next <= x /\ x \in Nat
  <2>1. vs'.files = vs.files /\ vs'.log = vs.log /\ vs'.manifest = vs.manifest
        /\ vs'.desc = vs.desc /\ vs'.next = x /\ vs'.seq = s
    BY <1>8 DEF Types, ProcessTypes
  <2> QED BY <2>1, <1>5, <1>6
<1>10. ASSUME NEW m \in From(logs, vs.log)
       PROVE  /\ \/ RecsOf(logs[m]) \subseteq Ents(tables, opening.add)
                 \/ opening.hasMem /\ m = logNumber
              /\ UpTo(RecsOf(logs[m]), s)
  <2>1. Read(m)
    BY <1>4
  <2>2. \A r \in RecsOf(logs[m]) : r.seq \in Nat
    <3>1. logs[m] \in LogFile(ids)
      BY <1>5 DEF From, Numbering
    <3>2. RecsOf(logs[m]) \subseteq Rec(ids)
      BY <3>1 DEF LogFile, RecsOf
    <3> QED BY <3>2, <1>5 DEF Rec
  <2>3. UpTo(RecsOf(logs[m]), s)
    BY <2>1, <2>2, <1>5, <1>7 DEF Read, UpTo
  <2> QED BY <2>1, <2>3 DEF Read
<1>11. UpTo(Ents(tables, vs.files) \cup LogRecs(logs, vs.log), vs'.seq)
  <2>1. VersionOK(Latest) /\ Database
    BY <1>4, OpeningFacts
  <2>2. UpTo(Ents(tables, vs.files), vs.seq) /\ vs.files \subseteq DOMAIN tables
    BY <2>1, <1>4 DEF VersionOK, Held
  <2>3. \A r \in Ents(tables, vs.files) : r.seq \in Nat
    <3>1. \A n \in vs.files : tables[n].ents \subseteq Rec(ids)
      BY <2>2 DEF Types, DiskTypes, Numbering, TableFile
    <3>2. Ents(tables, vs.files) \subseteq Rec(ids)
      BY <3>1 DEF Ents
    <3> QED BY <3>2, <1>5 DEF Rec
  <2>4. \A r \in Ents(tables, vs.files) : r.seq <= s
    BY <2>2, <2>3, <1>5, <1>7 DEF UpTo
  <2>5. \A r \in LogRecs(logs, vs.log) : r.seq <= s
    BY <1>10 DEF LogRecs, UpTo
  <2> QED BY <2>4, <2>5, <1>9 DEF UpTo
<1>12. CASE opening.hasMem
  <2>1. logs' = logs /\ logNumber' = logNumber /\ x = vs.next
    BY <1>6, <1>12 DEF OpenLog
  <2>2. logNumber \in From(logs, vs.log) /\ mem = RecsOf(logs[logNumber])
        /\ \A n \in From(logs, vs.log) : n <= logNumber
    BY <1>4, <1>12
  <2>3. LogInUse'
    BY <2>1, <2>2, <1>1, <1>4, <1>9 DEF LogInUse
  <2>4. mem \subseteq LogRecs(logs, vs.log)
    BY <2>2 DEF LogRecs
  <2>5. vs.log <= logNumber
    BY <2>2 DEF From
  <2>6. \A m \in From(logs', vs.log) :
          /\ m <= logNumber'
          /\ m = logNumber' \/ RecsOf(logs'[m]) \subseteq Ents(tables, opening.add)
    BY <2>1, <2>2, <1>10
  <2> QED BY <2>1, <2>3, <2>4, <2>5, <2>6, <1>1, <1>2, <1>9, <1>11 DEF LogChosen
<1>13. CASE ~opening.hasMem
  <2>1. logs' = With(logs, vs.next, EmptyFile) /\ logNumber' = vs.next /\ x = vs.next + 1
    BY <1>6, <1>13 DEF OpenLog
  <2>2. vs.next \notin DOMAIN logs
    <3>1. PICK y : y = vs.next
      OBVIOUS
    <3>2. ~(y < y)
      BY <3>1, <1>5
    <3> QED BY <3>1, <3>2, <1>4, Zenon
  <2>3. /\ \A k \in Nat : LogRecs(logs', k) = LogRecs(logs, k)
                          /\ SyncedRecs(logs', k) = SyncedRecs(logs, k)
        /\ DOMAIN logs' = DOMAIN logs \cup {vs.next} /\ RecsOf(logs'[vs.next]) = {}
        /\ \A m \in DOMAIN logs : logs'[m] = logs[m]
    <3>1. PICK L, n : L = logs /\ n = vs.next
      OBVIOUS
    <3>2. ASSUME NEW k \in Nat
          PROVE  /\ LogRecs(With(L, n, EmptyFile), k) = LogRecs(L, k)
                 /\ SyncedRecs(With(L, n, EmptyFile), k) = SyncedRecs(L, k)
                 /\ DOMAIN With(L, n, EmptyFile) = DOMAIN L \cup {n}
                 /\ With(L, n, EmptyFile)[n] = EmptyFile /\ RecsOf(EmptyFile) = {}
                 /\ \A m \in DOMAIN L : With(L, n, EmptyFile)[m] = L[m]
      <4>1. Numbering(L, LogFile(ids)) /\ n \in Nat /\ n \notin DOMAIN L
        BY <3>1, <2>2, <1>5
      <4> QED BY <4>1, EmptyLog
    <3> QED BY <3>1, <3>2, <2>1, <1>5
  <2>4. LogInUse'
    <3>1. vs.next \in From(logs', vs'.log)
      BY <2>3, <1>4, <1>5, <1>9 DEF From
    <3>2. \A n \in DOMAIN logs' : n < vs'.next
      BY <2>1, <2>3, <1>4, <1>5, <1>9
    <3>3. mem' = {}
      BY <1>1, <1>4, <1>13
    <3> QED BY <3>1, <3>2, <3>3, <2>1, <2>3 DEF LogInUse
  <2>5. ASSUME NEW m \in From(logs', vs.log)
        PROVE  /\ m <= logNumber'
               /\ m = logNumber' \/ RecsOf(logs'[m]) \subseteq Ents(tables, opening.add)
    <3>1. CASE m = vs.next
      BY <3>1, <2>1, <1>5
    <3>2. CASE m # vs.next
      <4>1. m \in From(logs, vs.log) /\ m \in DOMAIN logs
        BY <3>2, <2>3 DEF From
      <4>2. m < vs.next /\ m \in Nat
        BY <4>1, <1>4, <1>5
      <4> QED BY <4>1, <4>2, <2>1, <2>3, <1>5, <1>10, <1>13
    <3> QED BY <3>1, <3>2
  <2>6. vs.log <= vs.next /\ mem \subseteq LogRecs(logs, vs.log)
    BY <1>4, <1>5, <1>13
  <2> QED BY <2>1, <2>3, <2>4, <2>5, <2>6, <1>1, <1>2, <1>9, <1>11 DEF LogChosen
<1> QED BY <1>5, <1>12, <1>13

(* A file without records is empty.                                        *)
LEMMA NoRecords ==
  ASSUME NEW S, NEW s \in Seq(S), DOMAIN s = {}
  PROVE  s = <<>>
<1>1. Len(s) \in Nat /\ DOMAIN s = 1 .. Len(s)
  OBVIOUS
<1>2. Len(s) = 0
  BY <1>1
<1> QED BY <1>2

(* The rest of Open: an edit if there is anything to save, else all is as  *)
(* it was found.                                                           *)
LEMMA OpenLogStep ==
  ASSUME Types, IInv, Types', Sound, OpenLog
  PROVE  IInv'
<1>1. /\ vs'.files = vs.files /\ vs'.log = vs.log /\ vs'.manifest = vs.manifest
      /\ vs'.desc = vs.desc /\ vs.next <= vs'.next
      /\ UNCHANGED <<tables, manifests, current, opening, mem, imm, hasImm, pending, flush,
                     compaction, bgError, iters, scenario, ids, synced, required>>
      /\ DOMAIN logs' \subseteq DOMAIN logs \cup {logNumber'}
      /\ DOMAIN logs \subseteq DOMAIN logs'
      /\ \A k \in Nat : /\ LogRecs(logs', k) = LogRecs(logs, k)
                        /\ SyncedRecs(logs', k) = SyncedRecs(logs, k)
      /\ LogInUse' /\ vs.log <= logNumber'
      /\ mem \subseteq LogRecs(logs, vs.log)
      /\ UpTo(Ents(tables, vs.files) \cup LogRecs(logs, vs.log), vs'.seq)
  BY OpenLogFacts DEF LogChosen
<1>2. \A m \in From(logs', vs.log) :
        /\ m <= logNumber'
        /\ m = logNumber' \/ RecsOf(logs'[m]) \subseteq Ents(tables, opening.add)
  BY OpenLogFacts DEF LogChosen
<1>3. pc = "logs" /\ Reading
  BY DEF OpenLog, IInv, ReadingOK
<1>4. /\ ManifestChosen /\ current # 0 /\ vs.log < vs.next
      /\ vs.files = Latest.files /\ vs.log = Latest.log /\ vs.seq = Latest.seq
      /\ Latest.next < vs.next
      /\ ~opening.save => opening.add = {}
      /\ Ents(tables, opening.add) \subseteq LogRecs(logs, vs.log)
      /\ Held(opening.add, vs.next)
  BY <1>3 DEF Reading, ManifestChosen
<1>5. /\ imm = {} /\ ~hasImm /\ pending = {} /\ flush = NoTable
      /\ compaction = NoCompaction /\ ~bgError /\ iters = {}
      /\ saving = NotSaving /\ garbage = NoGarbage
  BY <1>3 DEF IInv, Quiet
<1>6. /\ Database /\ Latest \in VersionType(ids) /\ VersionOK(Latest)
      /\ Latest \in Versions
      /\ Versions \subseteq VersionType(ids) /\ \A v \in Versions : VersionOK(v)
  BY <1>4, OpeningFacts
<1>7. /\ vs.next \in Nat /\ vs'.next \in Nat /\ vs.log \in Nat /\ logNumber' \in Nat
      /\ Latest.next \in Nat /\ current \in Nat /\ vs.manifest \in Nat
      /\ vs.files \subseteq Nat /\ opening.add \subseteq Nat /\ DOMAIN logs \subseteq Nat
      /\ DOMAIN logs' \subseteq Nat
  BY <1>6 DEF VersionType, Types, DiskTypes, ProcessTypes, Numbering
<1>8. Held(vs.files, vs.next) /\ Held(vs.files, Latest.next)
  <2>1. Held(vs.files, Latest.next)
    BY <1>4, <1>6 DEF VersionOK
  <2> QED BY <2>1, <1>4, <1>7 DEF Held
<1>9. Reach(Latest) = Ents(tables, vs.files) \cup LogRecs(logs, vs.log)
  BY <1>4 DEF Reach
<1>10. ASSUME garbage'.tables \cap UNION {v.files : v \in Versions} = {},
              current \notin garbage'.manifests, pc' # "newdb"
       PROVE  DiskOK' /\ Database' /\ Versions' = Versions /\ Latest' = Latest
  <2>1. ASSUME NEW v \in Versions
        PROVE  /\ \A f \in v.files : /\ f \in DOMAIN tables' /\ tables'[f] = tables[f]
                                     /\ f \notin garbage'.tables
               /\ LogRecs(logs', v.log) = LogRecs(logs, v.log)
               /\ SyncedRecs(logs', v.log) = SyncedRecs(logs, v.log)
    <3>1. v.log \in Nat /\ \A f \in v.files : f \in DOMAIN tables
      BY <1>6 DEF VersionOK, Held, VersionType
    <3> QED BY <3>1, <1>1, <1>10
  <2>2. DiskTypes /\ DiskTypes' /\ current \in DOMAIN manifests
    BY <1>6 DEF Types, Database
  <2>3. Database' /\ Versions' = Versions /\ Latest' = Latest
    BY <2>1, <2>2, <1>1, <1>6, <1>10, DatabaseKept
  <2> QED BY <2>3, <1>1, <1>4 DEF DiskOK
<1>11. CASE opening.save
  <2>1. pc' = "saving" /\ garbage' = garbage
    BY <1>11 DEF OpenLog
  <2>2. saving' = [who |-> "open",
                   edit |-> [add |-> opening.add, del |-> {}, hasNumbers |-> TRUE,
                             log |-> logNumber', next |-> vs'.next, seq |-> vs'.seq],
                   logged |-> FALSE]
    BY <1>11 DEF OpenLog, LogAndApply
  <2>3. /\ saving'.who = "open" /\ ~saving'.logged
        /\ saving'.edit = [add |-> opening'.add, del |-> {}, hasNumbers |-> TRUE,
                           log |-> logNumber', next |-> vs'.next, seq |-> vs'.seq]
    BY <2>2, <1>1
  <2>4. saving' # NotSaving
    BY <2>3 DEF NotSaving
  <2>5. DiskOK' /\ Latest' = Latest
    BY <2>1, <1>5, <1>10 DEF NoGarbage
  <2>6. ManifestChosen'
    <3>1. Held(opening.add, vs.next)'
      BY <2>1, <1>1, <1>4, <1>7 DEF Held
    <3>2. Ents(tables', opening'.add) \subseteq LogRecs(logs', vs'.log)
      BY <1>1, <1>4, <1>7
    <3>3. vs'.log < vs'.next
      BY <1>1, <1>4, <1>7
    <3>4. IF vs'.desc THEN vs'.manifest = current' /\ scenario'.reuseLogs
          ELSE current' < vs'.manifest /\ vs'.manifest < vs'.next /\ opening'.save
      BY <1>1, <1>4, <1>7 DEF ManifestChosen
    <3> QED BY <3>1, <3>2, <3>3, <3>4, <1>1, <1>4 DEF ManifestChosen
  <2>7. PICK F : F = vs.files \cup opening.add
    OBVIOUS
  <2>8. Ents(tables, F) = Ents(tables, vs.files) \cup Ents(tables, opening.add)
    BY <2>7, EntsUnion
  <2>9. Ents(tables, F) \cup mem \subseteq Reach(Latest)
    BY <2>8, <1>1, <1>4, <1>9
  <2>10. UpTo(Ents(tables, F) \cup mem, vs'.seq)
    BY <2>9, <1>1, <1>9 DEF UpTo
  <2>11. Distinct(Ents(tables, F) \cup mem)
    BY <2>9, <1>6 DEF VersionOK, Distinct
  <2>12. ASSUME NEW m \in From(logs', vs.log)
         PROVE  /\ RecsOf(logs'[m]) \subseteq Ents(tables, F) \cup LogRecs(logs', logNumber')
                /\ SyncedOf(logs'[m]) \subseteq Ents(tables, F) \cup SyncedRecs(logs', logNumber')
    <3>1. CASE m = logNumber'
      <4>1. m \in From(logs', logNumber')
        BY <3>1, <1>7 DEF From
      <4> QED BY <4>1 DEF LogRecs, SyncedRecs
    <3>2. CASE m # logNumber'
      <4>1. RecsOf(logs'[m]) \subseteq Ents(tables, opening.add)
        BY <3>2, <1>2
      <4>2. logs'[m] \in LogFile(ids') /\ ids' \in Nat
        BY DEF From, Types, DiskTypes, Numbering
      <4>3. SyncedOf(logs'[m]) \subseteq RecsOf(logs'[m])
        BY <4>2, SyncedIsRead
      <4> QED BY <4>1, <4>3, <2>8
    <3> QED BY <3>1, <3>2
  <2>13. /\ Reach(Latest) \subseteq Ents(tables, F) \cup LogRecs(logs', logNumber')
         /\ Ents(tables, vs.files) \cup SyncedRecs(logs, vs.log)
              \subseteq Ents(tables, F) \cup SyncedRecs(logs', logNumber')
    <3>1. LogRecs(logs', vs.log) \subseteq Ents(tables, F) \cup LogRecs(logs', logNumber')
      BY <2>12 DEF LogRecs
    <3>2. SyncedRecs(logs', vs.log) \subseteq Ents(tables, F) \cup SyncedRecs(logs', logNumber')
      BY <2>12 DEF SyncedRecs
    <3> QED BY <3>1, <3>2, <2>8, <1>1, <1>7, <1>9
  <2>14. Covers(vs.files \cup opening.add, logNumber)'
    <3>1. Covers(vs.files, vs.log)
      BY <1>4, <1>6 DEF VersionOK
    <3>2. required \subseteq IdsOf(Ents(tables, F) \cup LogRecs(logs', logNumber'))
      BY <3>1, <2>13, <1>9 DEF Covers, IdsOf
    <3>3. scenario.reboots => required \cap synced \subseteq
                                IdsOf(Ents(tables, F) \cup SyncedRecs(logs', logNumber'))
      BY <3>1, <2>13 DEF Covers, IdsOf
    <3>4. F = vs'.files \cup opening'.add
      BY <2>7, <1>1
    <3> QED BY <3>2, <3>3, <3>4, <1>1 DEF Covers
  <2>15. Held(vs.files, vs.next)'
    BY <2>1, <1>1, <1>7, <1>8 DEF Held
  <2>16. \A n \in From(logs', vs'.log) :
           /\ n <= logNumber'
           /\ n = logNumber' \/ RecsOf(logs'[n]) \subseteq Ents(tables', opening'.add)
    BY <1>1, <1>2
  <2>17. Latest'.next <= vs'.next /\ vs'.files = Latest'.files /\ vs'.log = Latest'.log
    BY <2>5, <1>1, <1>4, <1>7
  <2>18. /\ UpTo(Ents(tables', vs'.files \cup opening'.add) \cup mem', vs'.seq)
         /\ Distinct(Ents(tables', vs'.files \cup opening'.add) \cup mem')
    BY <2>7, <2>10, <2>11, <1>1
  <2>19. SavingAtOpen'
    BY <2>3, <2>6, <2>14, <2>15, <2>16, <2>17, <2>18, <1>1 DEF SavingAtOpen
  <2>20. Quiet'
    BY <2>1, <2>3, <2>4, <1>1, <1>5 DEF Quiet
  <2>21. ReadingOK' /\ SavingOK' /\ RunningOK' /\ CleanOK'
    BY <2>1, <2>19 DEF ReadingOK, SavingOK, RunningOK, Running, CleanOK
  <2> QED BY <2>1, <2>5, <2>20, <2>21, StaysClosed DEF IInv
<1>12. CASE ~opening.save
  <2>1. pc' = "clean" /\ saving' = NotSaving /\ garbage' = Obsolete(vs, {})
    BY <1>5, <1>12 DEF OpenLog, RemoveObsoleteFiles
  <2>2. vs.desc /\ vs.manifest = current /\ ~scenario.reboots /\ opening.add = {}
    BY <1>4, <1>12 DEF ManifestChosen, Sound
  <2>3. Versions = {Latest}
    <3>1. manifests[current] \in ManifestFile(ids) /\ ids \in Nat /\ scenario.reboots = FALSE
      BY <2>2, <1>6, VersionsType DEF Types, DiskTypes, Scenario
    <3> QED BY <3>1, OneVersion DEF Versions, Latest
  <2>4. /\ garbage'.tables = DOMAIN tables \ vs.files
        /\ garbage'.logs = {n \in DOMAIN logs : n < vs.log}
        /\ garbage'.manifests = {n \in DOMAIN manifests : n < current}
    BY <2>1, <2>2, <1>5 DEF Obsolete, AddLiveFiles
  <2>5. DiskOK' /\ Versions' = {Latest} /\ Latest' = Latest
    <3>1. garbage'.tables \cap UNION {v.files : v \in Versions} = {}
      BY <2>3, <2>4, <1>4
    <3>2. current \notin garbage'.manifests
      BY <2>4, <1>7
    <3> QED BY <3>1, <3>2, <2>1, <2>3, <1>10
  <2>6. Ents(tables, opening.add) = {}
    BY <2>2 DEF Ents
  <2>7. LogRecs(logs', vs.log) = mem
    <3>1. logNumber' \in From(logs', vs.log) /\ mem = RecsOf(logs'[logNumber'])
      BY <1>1 DEF LogInUse
    <3>2. \A m \in From(logs', vs.log) : RecsOf(logs'[m]) \subseteq mem
      BY <3>1, <2>6, <1>2
    <3> QED BY <3>1, <3>2 DEF LogRecs
  <2>8. Contents' = mem \cup Ents(tables, vs.files) /\ Contents' = Reach(Latest)
    <3>1. vs'.files \cap DOMAIN tables' = vs.files
      BY <1>1, <1>8 DEF Held
    <3>2. Contents' = mem \cup Ents(tables, vs.files)
      BY <3>1, <1>1, <1>5 DEF Contents, InTables, Ents
    <3> QED BY <3>2, <2>7, <1>1, <1>7, <1>9
  <2>9. Behind(Latest)'
    <3>1. Reach(Latest)' = Reach(Latest)
      BY <2>5, <1>1, <1>4, <1>7 DEF Reach
    <3> QED BY <3>1, <2>5, <2>8, <1>1, <1>4, <1>7 DEF Behind
  <2>10. \A v \in Versions' : Behind(v)'
    <3>1. \A v \in Versions' : v = Latest'
      BY <2>5
    <3> QED BY <3>1, <2>9
  <2>11. Held(vs.files \cup UNION iters, vs.next)'
    <3>1. vs'.files \cup UNION iters' = vs.files
      BY <1>1, <1>5
    <3> QED BY <3>1, <2>4, <1>1, <1>7, <1>8 DEF Held
  <2>12. \A n \in From(logs', vs'.log) :
           n = logNumber' \/ RecsOf(logs'[n]) \subseteq imm' \cup Ents(tables', vs'.files)
    BY <2>6, <1>1, <1>2
  <2>13. InUse'
    <3>1. \A n \in garbage'.logs : n < vs'.log
      BY <2>4, <1>1
    <3>2. imm' \subseteq LogRecs(logs', vs'.log)
      BY <1>1, <1>5
    <3>3. UpTo(Contents', vs'.seq)
      BY <2>8, <1>1, <1>9
    <3>4. Latest'.files \subseteq Target'
      BY <2>1, <2>5, <1>1, <1>4 DEF Target
    <3>5. current' # 0 /\ vs'.manifest = current' /\ vs'.desc
      BY <2>2, <1>1, <1>4
    <3> QED BY <3>1, <3>2, <3>3, <3>4, <3>5, <2>10, <2>11, <2>12, <1>1 DEF InUse
  <2>14. Cleaning'
    <3>1. {n \in DOMAIN logs : n < vs.log} = {n \in DOMAIN logs' : n < vs'.log}
      BY <1>1, <1>7
    <3>2. garbage' = [tables |-> DOMAIN tables \ vs.files, logs |-> {n \in DOMAIN logs : n < vs.log},
                      manifests |-> {n \in DOMAIN manifests : n < vs.manifest}]
      BY <2>1, <1>5 DEF Obsolete, AddLiveFiles
    <3>3. garbage' = Obsolete(vs, {})'
      BY <3>1, <3>2, <1>1, <1>5 DEF Obsolete, AddLiveFiles
    <3>4. ASSUME NEW n \in From(logs', vs'.log), n # logNumber'
          PROVE  logs'[n].recs = <<>>
      <4>1. RecsOf(logs'[n]) = {}
        BY <3>4, <2>6, <1>1, <1>2
      <4>2. logs'[n] \in LogFile(ids')
        BY DEF From, Types, DiskTypes, Numbering
      <4>3. logs'[n].recs \in Seq(Rec(ids')) /\ DOMAIN logs'[n].recs = {}
        BY <4>1, <4>2 DEF RecsOf, LogFile
      <4>4. PICK s : s = logs'[n].recs
        OBVIOUS
      <4> QED BY <4>3, <4>4, NoRecords
    <3> QED BY <3>3, <3>4 DEF Cleaning
  <2>15. Quiet'
    BY <2>1, <1>1, <1>5 DEF Quiet
  <2>16. ReadingOK' /\ SavingOK' /\ RunningOK' /\ CleanOK'
    BY <2>1, <2>13, <2>14 DEF ReadingOK, SavingOK, RunningOK, Running, CleanOK
  <2> QED BY <2>1, <2>5, <2>15, <2>16, StaysClosed DEF IInv
<1> QED BY <1>11, <1>12

(* The version that Open saves reaches what the versions on disk reach.    *)
LEMMA SavedVersion ==
  ASSUME Types, IInv, pc = "saving", NEW A, A = Applied(vs.files, saving.edit)
  PROVE  /\ A.files = vs.files \cup opening.add /\ A.log = logNumber /\ A.next = vs.next
         /\ A.seq = vs.seq /\ A.numbers
         /\ LogRecs(logs, logNumber) = mem
         /\ Reach(A) = Ents(tables, A.files) \cup mem
         /\ Held(A.files, vs.next) /\ UpTo(Reach(A), vs.seq) /\ Distinct(Reach(A))
         /\ Covers(A.files, logNumber)
         /\ logNumber < vs.next /\ current < vs.next /\ vs.log <= logNumber
         /\ From(logs, logNumber) = {logNumber}
<1>1. SavingAtOpen /\ ManifestChosen /\ LogInUse
  BY DEF IInv, SavingOK, SavingAtOpen
<1>2. saving.edit = [add |-> opening.add, del |-> {}, hasNumbers |-> TRUE,
                     log |-> logNumber, next |-> vs.next, seq |-> vs.seq]
  BY <1>1 DEF SavingAtOpen
<1>3. /\ A.files = vs.files \cup opening.add /\ A.log = logNumber /\ A.next = vs.next
      /\ A.seq = vs.seq /\ A.numbers
  BY <1>2 DEF Applied
<1>4. /\ DOMAIN logs \subseteq Nat /\ vs.log \in Nat /\ vs.next \in Nat /\ logNumber \in Nat
      /\ vs.manifest \in Nat /\ current \in Nat
  BY DEF Types, DiskTypes, ProcessTypes, Numbering
<1>5. /\ logNumber \in DOMAIN logs /\ vs.log <= logNumber /\ logNumber < vs.next
      /\ mem = RecsOf(logs[logNumber])
  BY <1>1 DEF LogInUse, From
<1>6. From(logs, logNumber) = {logNumber}
  <2>1. ASSUME NEW n \in From(logs, logNumber)
        PROVE  n = logNumber
    <3>1. n \in DOMAIN logs /\ n >= logNumber /\ n \in Nat
      BY <1>4 DEF From
    <3>2. n \in From(logs, vs.log)
      BY <3>1, <1>4, <1>5 DEF From
    <3>3. n <= logNumber
      BY <3>2, <1>1 DEF SavingAtOpen
    <3> QED BY <3>1, <3>3, <1>4
  <2>2. logNumber \in From(logs, logNumber)
    BY <1>4, <1>5 DEF From
  <2> QED BY <2>1, <2>2
<1>7. LogRecs(logs, logNumber) = mem
  BY <1>5, <1>6 DEF LogRecs
<1>8. Reach(A) = Ents(tables, A.files) \cup mem
  BY <1>3, <1>7 DEF Reach
<1>9. Held(A.files, vs.next)
  BY <1>1, <1>3 DEF SavingAtOpen, ManifestChosen, Held
<1>10. UpTo(Reach(A), vs.seq) /\ Distinct(Reach(A)) /\ Covers(A.files, logNumber)
  BY <1>1, <1>3, <1>8 DEF SavingAtOpen
<1>11. current < vs.next
  <2>1. CASE vs.desc
    <3>1. current # 0 /\ Latest.next <= vs.next
      BY <1>1 DEF SavingAtOpen, ManifestChosen
    <3>2. Latest \in VersionType(ids) /\ current < Latest.next
      BY <3>1, OpeningFacts DEF VersionOK
    <3> QED BY <3>1, <3>2, <1>4 DEF VersionType
  <2>2. CASE ~vs.desc
    BY <2>2, <1>1, <1>4 DEF ManifestChosen
  <2> QED BY <2>1, <2>2
<1> QED BY <1>3, <1>5, <1>6, <1>7, <1>8, <1>9, <1>10, <1>11

(* The records of a new MANIFEST.                                          *)
LEMMA TwoRecords ==
  ASSUME NEW s, NEW e
  PROVE  Append(<<s>>, e) = <<s, e>>
<1>1. <<s>> \in Seq({s, e}) /\ Len(<<s>>) = 1 /\ e \in {s, e}
  OBVIOUS
<1>2. /\ Append(<<s>>, e) \in Seq({s, e}) /\ Len(Append(<<s>>, e)) = 2
      /\ Append(<<s>>, e)[1] = s /\ Append(<<s>>, e)[2] = e
  BY <1>1
<1>3. <<s, e>> \in Seq({s, e}) /\ Len(<<s, e>>) = 2
  OBVIOUS
<1>4. \A i \in 1 .. 2 : Append(<<s>>, e)[i] = <<s, e>>[i]
  BY <1>2
<1> QED BY <1>2, <1>3, <1>4, SeqEqual

(* Open appends to no MANIFEST with a torn record.                         *)
LEMMA NotTornAtOpen ==
  ASSUME TornOK, IInv, pc = "saving"
  PROVE  ~Torn
<1>1. vs.desc => scenario.reuseLogs
  BY DEF IInv, SavingOK, SavingAtOpen, ManifestChosen
<1> QED BY <1>1 DEF Torn, TornOK

(* Open writes its edit: as a new MANIFEST beside the one in force, or at  *)
(* the end of that, which then gives the version that Open saves.          *)
LEMMA LogEditAtOpenStep ==
  ASSUME Sound, Types, TornOK, IInv, Types', LogEdit, pc = "saving"
  PROVE  IInv'
<1>1. /\ saving # NotSaving /\ ~saving.logged
      /\ manifests' = With(manifests, vs.manifest, Logged(saving.edit))
      /\ saving' = [saving EXCEPT !.logged = TRUE]
  BY NotTornAtOpen DEF LogEdit
<1>2. UNCHANGED <<logs, tables, current, pc, vs, opening, logNumber, mem, imm, hasImm,
                  pending, flush, compaction, garbage, bgError, iters, scenario, ids,
                  synced, required>>
  BY DEF LogEdit, history
<1>3. SavingAtOpen /\ ManifestChosen /\ LogInUse
  BY DEF IInv, SavingOK, SavingAtOpen
<1>4. /\ current # 0 /\ vs.files = Latest.files /\ vs.log = Latest.log
      /\ Latest.next <= vs.next
  BY <1>1, <1>3 DEF SavingAtOpen, ManifestChosen
<1>5. /\ saving.edit \in EditRec(ids) /\ saving.who = "open"
      /\ saving \in [who : {"open", "flush", "compact"}, edit : EditRec(ids), logged : BOOLEAN]
  <2>1. saving.who = "open"
    BY DEF IInv, Quiet
  <2> QED BY <2>1, <1>1 DEF Types, ProcessTypes
<1>6. saving'.who = "open" /\ saving'.edit = saving.edit /\ saving'.logged
  BY <1>1, <1>5
<1>7. saving' # NotSaving
  BY <1>6 DEF NotSaving
<1>8. /\ Database /\ Latest \in VersionType(ids) /\ VersionOK(Latest) /\ Latest \in Versions
      /\ Versions \subseteq VersionType(ids) /\ \A v \in Versions : VersionOK(v)
  BY <1>4, OpeningFacts
<1>9. /\ ids \in Nat /\ vs.next \in Nat /\ vs.manifest \in Nat /\ current \in Nat
      /\ Latest.next \in Nat /\ Numbering(manifests, ManifestFile(ids))
      /\ current \in DOMAIN manifests /\ manifests[current] \in ManifestFile(ids)
  BY <1>8, VersionsType DEF Types, DiskTypes, ProcessTypes, Database, VersionType
<1>10. garbage = NoGarbage /\ garbage' = NoGarbage
  BY <1>2 DEF IInv, Quiet
<1>11. /\ DOMAIN manifests' = DOMAIN manifests \cup {vs.manifest}
       /\ manifests'[vs.manifest] = Logged(saving.edit)
       /\ \A m \in DOMAIN manifests : m # vs.manifest => manifests'[m] = manifests[m]
  BY <1>1, <1>9 DEF With
<1>12. PICK A : A = Applied(vs.files, saving.edit)
  OBVIOUS
<1>13. Quiet'
  BY <1>2, <1>6, <1>7 DEF IInv, Quiet
<1>14. ReadingOK' /\ RunningOK' /\ CleanOK'
  BY <1>2 DEF ReadingOK, RunningOK, Running, CleanOK
<1>15. ASSUME Latest'.next <= vs.next,
              vs.desc => Latest' = A,
              ~vs.desc =>
                /\ Latest' = Latest
                /\ manifests'[vs.manifest].recs = <<SnapshotEdit, saving.edit>>
       PROVE  SavingAtOpen'
  <2>1. ManifestChosen' /\ LogInUse'
    BY <1>2, <1>3 DEF ManifestChosen, LogInUse, Held
  <2>2. /\ Held(vs.files, vs.next)'
        /\ Covers(vs.files \cup opening.add, logNumber)'
    BY <1>2, <1>3 DEF SavingAtOpen, Held, Covers
  <2>3. A = Applied(vs'.files, saving'.edit)
    BY <1>2, <1>6, <1>12
  <2>4. SnapshotEdit' = SnapshotEdit
    BY <1>2 DEF SnapshotEdit
  <2>5. saving'.edit = [add |-> opening'.add, del |-> {}, hasNumbers |-> TRUE,
                        log |-> logNumber', next |-> vs'.next, seq |-> vs'.seq]
    BY <1>2, <1>3, <1>6 DEF SavingAtOpen
  <2>6. \A n \in From(logs', vs'.log) :
          /\ n <= logNumber'
          /\ n = logNumber' \/ RecsOf(logs'[n]) \subseteq Ents(tables', opening'.add)
    BY <1>2, <1>3 DEF SavingAtOpen
  <2>7. /\ UpTo(Ents(tables', vs'.files \cup opening'.add) \cup mem', vs'.seq)
        /\ Distinct(Ents(tables', vs'.files \cup opening'.add) \cup mem')
    BY <1>2, <1>3 DEF SavingAtOpen
  <2>8. IF saving'.logged /\ vs'.desc THEN Latest' = Applied(vs'.files, saving'.edit)
        ELSE vs'.files = Latest'.files /\ vs'.log = Latest'.log
    BY <2>3, <1>2, <1>4, <1>6, <1>15
  <2>9. saving'.logged /\ ~vs'.desc =>
          /\ vs'.manifest \in DOMAIN manifests'
          /\ manifests'[vs'.manifest].recs = <<SnapshotEdit', saving'.edit>>
    BY <2>4, <1>2, <1>6, <1>11, <1>15
  <2>10. Latest'.next <= vs'.next
    BY <1>2, <1>15
  <2> QED BY <2>1, <2>2, <2>5, <2>6, <2>7, <2>8, <2>9, <2>10 DEF SavingAtOpen
<1>16. CASE vs.desc
  <2>1. vs.manifest = current /\ scenario.reboots = FALSE
    <3>1. vs.manifest = current /\ scenario.reuseLogs /\ scenario.reboots \in BOOLEAN
      BY <1>3, <1>16 DEF ManifestChosen, Types, DiskTypes, Scenario
    <3> QED BY <3>1 DEF Sound
  <2>2. PICK f : f = manifests[current]
    OBVIOUS
  <2>3. manifests'[current'] = Appended(f, saving.edit)
    BY <2>1, <2>2, <1>2, <1>11, <1>16 DEF Logged
  <2>4. f \in ManifestFile(ids) /\ Found(f.recs).files = vs.files
    BY <2>2, <1>4, <1>9 DEF Latest
  <2>5. Found(Appended(f, saving.edit).recs) = A
    BY <2>4, <1>5, <1>9, <1>12, FoundInAppended
  <2>6. Appended(f, saving.edit) \in ManifestFile(ids)
    BY <2>4, <1>5, <1>9, FileTypes
  <2>7. Latest' = A /\ Versions' = {A}
    <3>1. FoundIn(Appended(f, saving.edit), FALSE) = {A}
      BY <2>5, <2>6, <1>9, OneVersion
    <3> QED BY <3>1, <2>1, <2>3, <2>5, <1>2 DEF Latest, Versions
  <2>8. /\ A.files = vs.files \cup opening.add /\ A.log = logNumber /\ A.next = vs.next
        /\ A.seq = vs.seq /\ A.numbers
        /\ Reach(A) = Ents(tables, A.files) \cup mem
        /\ Held(A.files, vs.next) /\ UpTo(Reach(A), vs.seq) /\ Distinct(Reach(A))
        /\ Covers(A.files, logNumber)
        /\ logNumber < vs.next /\ current < vs.next
    BY <1>12, SavedVersion
  <2>9. VersionOK(A)'
    <3>1. /\ A.numbers /\ current' < A.next /\ A.log < A.next /\ A.next <= Latest'.next
      BY <2>7, <2>8, <1>2, <1>9
    <3>2. Held(A.files, A.next)'
      BY <2>8, <1>2 DEF Held
    <3>3. UpTo(Ents(tables', A.files), A.seq)
      BY <2>8, <1>2 DEF UpTo
    <3>4. Distinct(Reach(A))'
      BY <2>8, <1>2 DEF Distinct, Reach
    <3>5. Covers(A.files, A.log)'
      BY <2>8, <1>2 DEF Covers
    <3> QED BY <3>1, <3>2, <3>3, <3>4, <3>5 DEF VersionOK
  <2>10. Database'
    <3>1. \A v \in Versions' : VersionOK(v)'
      <4>1. \A v \in Versions' : v = A
        BY <2>7
      <4> QED BY <4>1, <2>9
    <3>2. manifests'[current'].recs # <<>>
      <4>1. Appended(f, saving.edit) = [recs |-> Append(f.recs, saving.edit), synced |-> f.synced]
            /\ f.recs \in Seq(EditRec(ids))
        BY <2>4, FileSteps DEF ManifestFile
      <4> QED BY <4>1, <2>3, <1>5
    <3>3. current' \in DOMAIN manifests' /\ current' \notin garbage'.manifests
      BY <2>1, <1>2, <1>10, <1>11 DEF NoGarbage
    <3> QED BY <3>1, <3>2, <3>3, <2>1, <1>2 DEF Database
  <2>11. SavingAtOpen'
    BY <2>7, <2>8, <1>9, <1>15, <1>16
  <2>12. DiskOK' /\ SavingOK'
    BY <2>10, <2>11, <1>2, <1>4 DEF DiskOK, SavingOK
  <2> QED BY <2>12, <1>2, <1>13, <1>14, StaysClosed DEF IInv
<1>17. CASE ~vs.desc
  <2>1. current # vs.manifest
    BY <1>3, <1>9, <1>17 DEF ManifestChosen
  <2>2. current \in DOMAIN manifests' /\ manifests'[current] = manifests[current]
    BY <2>1, <1>9, <1>11
  <2>3. \A v \in Versions : \A f \in v.files : f \in DOMAIN tables' /\ tables'[f] = tables[f]
    BY <1>2, <1>8 DEF VersionOK, Held
  <2>4. DiskOK' /\ Latest' = Latest
    BY <2>2, <2>3, <1>2, <1>4, <1>8, <1>10, OpenKeepsDisk
  <2>5. manifests'[vs.manifest].recs = <<SnapshotEdit, saving.edit>>
    <3>1. PICK s : s = SnapshotEdit
      OBVIOUS
    <3>2. PICK e : e = saving.edit
      OBVIOUS
    <3>3. Appended(EmptyFile, s) = [recs |-> <<s>>, synced |-> 0]
      BY DEF Appended, EmptyFile
    <3>4. Append(<<s>>, e) = <<s, e>>
      BY TwoRecords
    <3>5. PICK f : f = [recs |-> <<s>>, synced |-> 0]
      OBVIOUS
    <3>6. f \in [recs : Seq({s}), synced : Nat] /\ f.recs = <<s>>
      BY <3>5
    <3>7. Appended(f, e) = [recs |-> Append(f.recs, e), synced |-> f.synced]
      BY <3>6, FileSteps
    <3>8. Appended(f, e).recs = <<s, e>>
      BY <3>4, <3>6, <3>7
    <3> QED BY <3>1, <3>2, <3>3, <3>5, <3>8, <1>11, <1>17 DEF Logged
  <2>6. SavingAtOpen'
    BY <2>4, <2>5, <1>4, <1>15, <1>17
  <2>7. SavingOK'
    BY <2>6 DEF SavingOK
  <2> QED BY <2>4, <2>7, <1>2, <1>13, <1>14, StaysClosed DEF IInv
<1> QED BY <1>16, <1>17

(* The version in the MANIFEST that Open has written is the one it saves.  *)
LEMMA SavedIsFound ==
  ASSUME Types, IInv, pc = "saving", saving.logged
  PROVE  /\ vs.manifest \in DOMAIN manifests /\ manifests[vs.manifest].recs # <<>>
         /\ Found(manifests[vs.manifest].recs) = Applied(vs.files, saving.edit)
<1>1. SavingAtOpen /\ ManifestChosen /\ saving # NotSaving
  BY DEF IInv, Quiet, SavingOK, SavingAtOpen
<1>2. saving.edit \in EditRec(ids) /\ ids \in Nat /\ vs.files \subseteq Nat
  BY <1>1 DEF Types, DiskTypes, ProcessTypes
<1>3. CASE vs.desc
  <2>1. vs.manifest = current /\ current # 0 /\ Latest = Applied(vs.files, saving.edit)
    BY <1>1, <1>3 DEF SavingAtOpen, ManifestChosen
  <2>2. Database
    BY <2>1, OpeningFacts
  <2> QED BY <2>1, <2>2 DEF Database, Latest
<1>4. CASE ~vs.desc
  <2>1. PICK s, e : s = SnapshotEdit /\ e = saving.edit
    OBVIOUS
  <2>2. vs.manifest \in DOMAIN manifests /\ manifests[vs.manifest].recs = <<s, e>>
    BY <2>1, <1>1, <1>4 DEF SavingAtOpen
  <2>3. s \in EditRec(ids) /\ s.add = vs.files /\ s.del = {}
    BY <2>1, <1>2 DEF SnapshotEdit, EditRec
  <2>4. <<s>> \in Seq(EditRec(ids)) /\ <<>> \in Seq(EditRec(ids)) /\ <<s>> = Append(<<>>, s)
    BY <2>3
  <2>5. FilesAfter(<<>>) = {}
    BY DEF FilesAfter
  <2>6. FilesAfter(<<s>>) = vs.files
    <3>1. FilesAfter(Append(<<>>, s)) = (FilesAfter(<<>>) \ s.del) \cup s.add
      BY <2>3, <2>4, <1>2, FilesAfterAppend
    <3> QED BY <3>1, <2>3, <2>4, <2>5
  <2>7. Found(Append(<<s>>, e)) = Applied(vs.files, e)
    <3>1. Found(Append(<<s>>, e)) = Applied(FilesAfter(<<s>>), e)
      BY <2>1, <2>4, <1>2, FoundAppend
    <3> QED BY <3>1, <2>6
  <2>8. Append(<<s>>, e) = <<s, e>>
    BY TwoRecords
  <2>9. <<s, e>> # <<>>
    OBVIOUS
  <2> QED BY <2>1, <2>2, <2>7, <2>8, <2>9
<1> QED BY <1>3, <1>4

(* Open installs its edit and goes on to remove what is left over.         *)
LEMMA InstallEditAtOpenStep ==
  ASSUME Types, IInv, Types', InstallEdit, pc = "saving"
  PROVE  IInv'
<1>1. saving # NotSaving /\ saving.logged /\ saving.who = "open"
  BY DEF InstallEdit, IInv, Quiet
<1>2. /\ imm = {} /\ ~hasImm /\ pending = {} /\ flush = NoTable
      /\ compaction = NoCompaction /\ bgError = FALSE /\ iters = {} /\ garbage = NoGarbage
  BY DEF IInv, Quiet, Types, ProcessTypes
<1>3. /\ manifests' = With(manifests, vs.manifest, Synced(manifests[vs.manifest]))
      /\ vs' = Installed(saving.edit) /\ saving' = NotSaving
      /\ garbage' = Obsolete(vs', {}) /\ pending' = {}
      /\ pc' = "clean"
      /\ UNCHANGED <<imm, hasImm, flush, compaction>>
  BY <1>1, <1>2 DEF InstallEdit, RemoveObsoleteFiles
<1>4. UNCHANGED <<logs, tables, opening, logNumber, mem, bgError, iters, scenario, ids,
                  synced, required>>
  BY DEF InstallEdit, history
<1>5. PICK A : A = Applied(vs.files, saving.edit)
  OBVIOUS
<1>6. /\ A.files = vs.files \cup opening.add /\ A.log = logNumber /\ A.next = vs.next
      /\ A.seq = vs.seq /\ A.numbers
      /\ LogRecs(logs, logNumber) = mem
      /\ Reach(A) = Ents(tables, A.files) \cup mem
      /\ Held(A.files, vs.next) /\ UpTo(Reach(A), vs.seq) /\ Distinct(Reach(A))
      /\ Covers(A.files, logNumber)
      /\ logNumber < vs.next /\ current < vs.next /\ vs.log <= logNumber
      /\ From(logs, logNumber) = {logNumber}
  BY <1>5, SavedVersion
<1>7. SavingAtOpen /\ ManifestChosen /\ LogInUse
  BY DEF IInv, SavingOK, SavingAtOpen
<1>8. /\ ids \in Nat /\ vs.next \in Nat /\ vs.manifest \in Nat /\ current \in Nat
      /\ logNumber \in Nat /\ Numbering(manifests, ManifestFile(ids))
      /\ scenario.reboots \in BOOLEAN
  BY DEF Types, DiskTypes, ProcessTypes, Scenario
<1>9. PICK f : f = manifests[vs.manifest]
  OBVIOUS
<1>10. /\ vs.manifest \in DOMAIN manifests /\ f \in ManifestFile(ids) /\ f.recs # <<>>
       /\ Found(f.recs) = A
  BY <1>1, <1>5, <1>8, <1>9, SavedIsFound DEF Numbering
<1>11. /\ current' = vs.manifest /\ vs.manifest # 0 /\ vs.manifest < vs.next
  <2>1. CASE vs.desc
    <3>1. current' = current
      BY <2>1 DEF InstallEdit
    <3> QED BY <3>1, <2>1, <1>6, <1>7 DEF ManifestChosen
  <2>2. CASE ~vs.desc
    <3>1. current' = vs.manifest
      BY <2>2 DEF InstallEdit, SetCurrentFile
    <3> QED BY <3>1, <2>2, <1>7, <1>8 DEF ManifestChosen
  <2> QED BY <2>1, <2>2
<1>12. /\ DOMAIN manifests' = DOMAIN manifests
       /\ manifests'[vs.manifest] = Synced(f)
  BY <1>3, <1>9, <1>10 DEF With
<1>13. /\ Synced(f).recs = f.recs /\ Synced(f).synced = Len(f.recs)
       /\ FoundIn(Synced(f), scenario.reboots) = {A}
  BY <1>8, <1>10, FoundInSynced
<1>14. Latest' = A /\ Versions' = {A}
  BY <1>4, <1>10, <1>11, <1>12, <1>13 DEF Latest, Versions
<1>15. /\ vs'.files = A.files /\ vs'.log = logNumber /\ vs'.desc /\ vs'.next = vs.next
       /\ vs'.manifest = vs.manifest /\ vs'.seq = vs.seq
  <2>1. saving.edit.del = {} /\ saving.edit.add = opening.add /\ saving.edit.log = logNumber
    BY <1>7 DEF SavingAtOpen
  <2>2. vs \in [files : SUBSET Nat, log : Nat, next : Nat, manifest : Nat,
                seq : 0 .. ids, desc : BOOLEAN]
    BY DEF Types, ProcessTypes
  <2> QED BY <2>1, <2>2, <1>3, <1>6 DEF Installed
<1>16. /\ garbage'.tables = DOMAIN tables \ A.files
       /\ garbage'.logs = {n \in DOMAIN logs : n < logNumber}
       /\ garbage'.manifests = {n \in DOMAIN manifests : n < vs.manifest}
  BY <1>2, <1>3, <1>15 DEF Obsolete, AddLiveFiles
<1>17. VersionOK(A)'
  <2>1. /\ A.numbers /\ current' < A.next /\ A.log < A.next /\ A.next <= Latest'.next
    BY <1>6, <1>8, <1>11, <1>14
  <2>2. Held(A.files, A.next)'
    BY <1>4, <1>6, <1>16 DEF Held
  <2>3. UpTo(Ents(tables', A.files), A.seq)
    BY <1>4, <1>6 DEF UpTo
  <2>4. Distinct(Reach(A))'
    BY <1>4, <1>6 DEF Distinct, Reach
  <2>5. Covers(A.files, A.log)'
    BY <1>4, <1>6 DEF Covers
  <2> QED BY <2>1, <2>2, <2>3, <2>4, <2>5 DEF VersionOK
<1>18. Database'
  <2>1. \A v \in Versions' : VersionOK(v)'
    <3>1. \A v \in Versions' : v = A
      BY <1>14
    <3> QED BY <3>1, <1>17
  <2>2. manifests'[current'].recs # <<>>
    BY <1>10, <1>11, <1>12, <1>13
  <2>3. manifests'[current'].synced >= 1
    <3>1. f.recs \in Seq(EditRec(ids)) /\ f.recs # <<>>
      BY <1>10 DEF ManifestFile
    <3>2. Len(f.recs) >= 1
      BY <3>1
    <3> QED BY <3>2, <1>11, <1>12, <1>13
  <2>4. current' \in DOMAIN manifests' /\ current' \notin garbage'.manifests
    BY <1>8, <1>10, <1>11, <1>12, <1>16
  <2> QED BY <2>1, <2>2, <2>3, <2>4, <1>3 DEF Database
<1>19. Contents' = Reach(A) /\ Reach(A)' = Reach(A)
  <2>1. A.files \cap DOMAIN tables = A.files
    BY <1>6 DEF Held
  <2>2. Contents' = Ents(tables, A.files) \cup mem
    BY <2>1, <1>2, <1>3, <1>4, <1>15 DEF Contents, InTables, Ents
  <2>3. Reach(A)' = Reach(A)
    BY <1>4 DEF Reach
  <2> QED BY <2>2, <2>3, <1>6
<1>20. InUse'
  <2>1. LogInUse'
    <3>1. logNumber' \in From(logs', vs'.log) /\ mem' = RecsOf(logs'[logNumber'])
      BY <1>4, <1>6, <1>7, <1>15 DEF LogInUse
    <3> QED BY <3>1, <1>4, <1>7, <1>15 DEF LogInUse
  <2>2. Held(vs.files \cup UNION iters, vs.next)'
    <3>1. vs'.files \cup UNION iters' = A.files
      BY <1>2, <1>4, <1>15
    <3> QED BY <3>1, <1>4, <1>6, <1>15, <1>16 DEF Held
  <2>3. \A n \in garbage'.logs : n < vs'.log
    BY <1>15, <1>16
  <2>4. \A n \in From(logs', vs'.log) :
          n = logNumber' \/ RecsOf(logs'[n]) \subseteq imm' \cup Ents(tables', vs'.files)
    BY <1>4, <1>6, <1>15
  <2>5. imm' \subseteq LogRecs(logs', vs'.log)
    BY <1>2, <1>3
  <2>6. UpTo(Contents', vs'.seq)
    BY <1>6, <1>15, <1>19
  <2>7. Behind(A)'
    BY <1>4, <1>6, <1>8, <1>15, <1>19 DEF Behind
  <2>8. \A v \in Versions' : Behind(v)'
    <3>1. \A v \in Versions' : v = A
      BY <1>14
    <3> QED BY <3>1, <2>7
  <2>9. Latest'.files \subseteq Target'
    BY <1>3, <1>14, <1>15 DEF Target
  <2>10. current' # 0 /\ vs'.manifest = current' /\ vs'.desc
    BY <1>11, <1>15
  <2> QED BY <2>1, <2>2, <2>3, <2>4, <2>5, <2>6, <2>8, <2>9, <2>10 DEF InUse
<1>21. Cleaning'
  <2>1. garbage' = Obsolete(vs, {})'
    BY <1>3, <1>4, <1>12 DEF Obsolete, AddLiveFiles
  <2>2. \A n \in From(logs', vs'.log) : n = logNumber'
    BY <1>4, <1>6, <1>15
  <2> QED BY <2>1, <2>2 DEF Cleaning
<1>22. Quiet'
  BY <1>2, <1>3, <1>4 DEF Quiet
<1>23. DiskOK' /\ ReadingOK' /\ SavingOK' /\ RunningOK' /\ CleanOK'
  BY <1>3, <1>11, <1>18, <1>20, <1>21
     DEF DiskOK, ReadingOK, SavingOK, RunningOK, CleanOK
<1> QED BY <1>3, <1>22, <1>23, StaysClosed DEF IInv

-----------------------------------------------------------------------------
(* Crashes.                                                                *)

(* What is left of a log after a crash of the machine: nothing new, and    *)
(* all that was synced, which still is.                                    *)
LEMMA CutLog ==
  ASSUME NEW n \in Nat, NEW f \in LogFile(n), NEW k \in f.synced .. Len(f.recs)
  PROVE  /\ RecsOf(Cut(f, k)) \subseteq RecsOf(f)
         /\ SyncedOf(f) \subseteq SyncedOf(Cut(f, k))
         /\ SyncedOf(f) \subseteq RecsOf(Cut(f, k))
<1>1. f \in [recs : Seq(Rec(n)), synced : Nat] /\ f.synced <= Len(f.recs)
  BY DEF LogFile
<1>2. PICK g : g = Cut(f, k)
  OBVIOUS
<1>3. /\ g \in [recs : Seq(Rec(n)), synced : Nat] /\ g.synced = k /\ Len(g.recs) = k
      /\ \A i \in 1 .. k : g.recs[i] = f.recs[i]
  <2>1. PICK S : S = Rec(n)
    OBVIOUS
  <2>2. f \in [recs : Seq(S), synced : Nat] /\ f.synced <= Len(f.recs)
    BY <2>1, <1>1
  <2>3. /\ Cut(f, k) \in [recs : Seq(S), synced : Nat]
        /\ Cut(f, k).recs = SubSeq(f.recs, 1, k) /\ Cut(f, k).synced = k
        /\ Len(Cut(f, k).recs) = k
        /\ \A i \in 1 .. k : Cut(f, k).recs[i] = f.recs[i]
    BY <2>2, CutFacts
  <2> QED BY <2>1, <2>3, <1>2
<1>4. f.synced \in Nat /\ Len(f.recs) \in Nat /\ k \in Nat /\ f.synced <= k /\ k <= Len(f.recs)
  BY <1>1
<1>5. DOMAIN g.recs = 1 .. k /\ DOMAIN f.recs = 1 .. Len(f.recs)
  BY <1>1, <1>3
<1>6. 1 .. k \subseteq 1 .. Len(f.recs) /\ 1 .. f.synced \subseteq 1 .. k
  BY <1>4
<1>7. RecsOf(g) \subseteq RecsOf(f)
  BY <1>3, <1>5, <1>6 DEF RecsOf
<1>8. \A i \in 1 .. f.synced : i \in 1 .. k /\ f.recs[i] = g.recs[i]
  BY <1>3, <1>6
<1>9. SyncedOf(f) \subseteq SyncedOf(g)
  BY <1>3, <1>8 DEF SyncedOf
<1>10. SyncedOf(f) \subseteq RecsOf(g)
  BY <1>5, <1>8 DEF SyncedOf, RecsOf
<1> QED BY <1>2, <1>7, <1>9, <1>10

(* The same of all logs that a version does not give up.                   *)
LEMMA CutLogs ==
  ASSUME NEW n \in Nat, NEW F, Numbering(F, LogFile(n)), NEW G \in CutFiles(F), NEW k \in Nat
  PROVE  /\ LogRecs(G, k) \subseteq LogRecs(F, k)
         /\ SyncedRecs(F, k) \subseteq SyncedRecs(G, k)
         /\ SyncedRecs(F, k) \subseteq LogRecs(G, k)
<1>1. /\ DOMAIN G = DOMAIN F
      /\ \A m \in DOMAIN F : \E j \in F[m].synced .. Len(F[m].recs) : G[m] = Cut(F[m], j)
  BY CutFilesFacts
<1>2. ASSUME NEW m \in DOMAIN F
      PROVE  /\ RecsOf(G[m]) \subseteq RecsOf(F[m])
             /\ SyncedOf(F[m]) \subseteq SyncedOf(G[m])
             /\ SyncedOf(F[m]) \subseteq RecsOf(G[m])
  <2>1. PICK j \in F[m].synced .. Len(F[m].recs) : G[m] = Cut(F[m], j)
    BY <1>1
  <2>2. F[m] \in LogFile(n)
    BY DEF Numbering
  <2> QED BY <2>1, <2>2, CutLog
<1>3. From(G, k) = From(F, k) /\ From(F, k) \subseteq DOMAIN F
  BY <1>1 DEF From
<1> QED BY <1>2, <1>3 DEF LogRecs, SyncedRecs

(* What RemoveObsoleteFiles may have removed when the process ends is      *)
(* nothing that a version on disk needs.                                   *)
LEMMA GarbageIsOld ==
  ASSUME Types, TornOK, IInv, current # 0, NEW v \in Versions,
         NEW t \in SUBSET garbage.tables, NEW l \in SUBSET garbage.logs
  PROVE  /\ \A f \in v.files : /\ f \in DOMAIN Without(tables, t)
                               /\ Without(tables, t)[f] = tables[f]
         /\ LogRecs(Without(logs, l), v.log) = LogRecs(logs, v.log)
         /\ SyncedRecs(Without(logs, l), v.log) = SyncedRecs(logs, v.log)
<1>1. Versions \subseteq VersionType(ids) /\ VersionOK(v)
  BY OpeningFacts
<1>2. /\ v.log \in Nat /\ Numbering(logs, LogFile(ids)) /\ garbage.logs \subseteq Nat
      /\ DOMAIN logs \subseteq Nat /\ vs.log \in Nat
  BY <1>1 DEF VersionType, Types, DiskTypes, ProcessTypes, Numbering
<1>3. \A f \in v.files : f \in DOMAIN tables /\ f \notin t
  BY <1>1 DEF VersionOK, Held
<1>4. \A m \in garbage.logs : m < v.log
  <2>1. CASE Running
    <3>1. InUse /\ Behind(v)
      BY <2>1, RunningFacts
    <3>2. CASE Missed
      BY <3>2, <2>1 DEF TornOK, NoGarbage
    <3>3. CASE ~Missed
      BY <3>1, <3>3, <1>2 DEF InUse, Behind
    <3> QED BY <3>2, <3>3
  <2>2. CASE ~Running
    BY <2>2 DEF Running, IInv, Quiet, NoGarbage
  <2> QED BY <2>1, <2>2
<1>5. PICK L, M, k : L = logs /\ M = Without(logs, l) /\ k = v.log
  OBVIOUS
<1>6. From(M, k) = From(L, k) /\ (\A m \in From(L, k) : M[m] = L[m]) /\ DOMAIN M \subseteq DOMAIN L
  <2>1. l \subseteq Nat /\ \A m \in l : m < k
    BY <1>2, <1>4, <1>5
  <2>2. Numbering(L, LogFile(ids)) /\ k \in Nat /\ M = Without(L, l)
    BY <1>2, <1>5
  <2> QED BY <2>1, <2>2, OldLogsRemoved
<1>7. LogRecs(M, k) = LogRecs(L, k) /\ SyncedRecs(M, k) = SyncedRecs(L, k)
  BY <1>6 DEF LogRecs, SyncedRecs
<1> QED BY <1>3, <1>5, <1>7 DEF Without

(* After a crash of the process or of the machine the versions on disk     *)
(* are versions that were expected, and still complete.                    *)
LEMMA CrashStep ==
  ASSUME Types, TornOK, IInv, Types', NEW reboot \in {FALSE, scenario.reboots},
         Crash(reboot)
  PROVE  IInv'
<1>1. PICK t \in SUBSET garbage.tables, l \in SUBSET garbage.logs,
           m \in SUBSET garbage.manifests :
        /\ tables' = Without(tables, t)
        /\ logs' \in (IF reboot THEN CutFiles(Without(logs, l)) ELSE {Without(logs, l)})
        /\ manifests' \in (IF reboot THEN CutFiles(Without(manifests, m))
                           ELSE {Without(manifests, m)})
  BY DEF Crash
<1>2. /\ required' = IF reboot THEN required \cap synced ELSE required
      /\ pc' = "closed"
      /\ mem' = {} /\ imm' = {} /\ hasImm' = FALSE
      /\ pending' = {} /\ flush' = NoTable /\ compaction' = NoCompaction
      /\ saving' = NotSaving /\ garbage' = NoGarbage /\ bgError' = FALSE
      /\ iters' = {}
      /\ UNCHANGED <<current, scenario, ids, synced>>
  BY DEF Crash
<1>3. Quiet' /\ ReadingOK' /\ SavingOK' /\ RunningOK' /\ CleanOK'
  BY <1>2 DEF Quiet, ReadingOK, SavingOK, RunningOK, Running, CleanOK
<1>4. /\ Numbering(logs, LogFile(ids)) /\ Numbering(manifests, ManifestFile(ids))
      /\ ids \in Nat /\ scenario.reboots \in BOOLEAN
  BY DEF Types, DiskTypes, Scenario
<1>5. PICK L, M : L = Without(logs, l) /\ M = Without(manifests, m)
  OBVIOUS
<1>6. /\ Numbering(L, LogFile(ids)) /\ DOMAIN L \subseteq DOMAIN logs
      /\ Numbering(M, ManifestFile(ids)) /\ DOMAIN M = DOMAIN manifests \ m
      /\ \A n \in DOMAIN manifests \ m : M[n] = manifests[n]
  <2>1. Numbering(L, LogFile(ids)) /\ DOMAIN L = DOMAIN logs \ l
    BY <1>4, <1>5, WithoutFacts
  <2>2. /\ Numbering(M, ManifestFile(ids)) /\ DOMAIN M = DOMAIN manifests \ m
        /\ \A n \in DOMAIN manifests \ m : M[n] = manifests[n]
    BY <1>4, <1>5 DEF Without, Numbering
  <2> QED BY <2>1, <2>2
<1>7. DiskOK'
  <2>1. CASE current = 0
    <3>1. DOMAIN logs = {} /\ DOMAIN tables = {} /\ required = {}
      BY <2>1 DEF IInv, DiskOK, NoDatabase
    <3>2. DOMAIN logs' = DOMAIN L
      BY <1>1, <1>5, CutFilesFacts
    <3>3. DOMAIN logs' = {} /\ DOMAIN tables' = {} /\ required' = {}
      BY <3>1, <3>2, <1>1, <1>2, <1>6 DEF Without
    <3> QED BY <3>3, <2>1, <1>2 DEF DiskOK, NoDatabase
  <2>2. CASE current # 0 /\ reboot = FALSE
    <3>1. Database /\ Versions \subseteq VersionType(ids)
      BY <2>2, OpeningFacts
    <3>2. logs' = Without(logs, l) /\ manifests' = M /\ required' = required
      BY <2>2, <1>1, <1>2, <1>5
    <3>3. \A v \in Versions :
            /\ \A f \in v.files : /\ f \in DOMAIN tables' /\ tables'[f] = tables[f]
                                  /\ f \notin garbage'.tables
            /\ LogRecs(logs', v.log) = LogRecs(logs, v.log)
            /\ SyncedRecs(logs', v.log) = SyncedRecs(logs, v.log)
      BY <3>2, <2>2, <1>1, <1>2, GarbageIsOld DEF NoGarbage
    <3>4. /\ current \in DOMAIN manifests' /\ manifests'[current] = manifests[current]
          /\ current \notin garbage'.manifests
      BY <3>1, <3>2, <1>2, <1>6 DEF Database, NoGarbage
    <3>5. Database'
      BY <3>1, <3>2, <3>3, <3>4, <1>2, DatabaseKept DEF Types
    <3> QED BY <3>5, <2>2, <1>2 DEF DiskOK
  <2>3. CASE current # 0 /\ reboot # FALSE
    <3>1. reboot = TRUE /\ scenario.reboots = TRUE
      BY <2>3, <1>4
    <3>2. /\ Database /\ Versions \subseteq VersionType(ids)
          /\ \A v \in Versions : VersionOK(v)
      BY <2>3, OpeningFacts
    <3>3. logs' \in CutFiles(L) /\ manifests' \in CutFiles(M) /\ required' = required \cap synced
      BY <3>1, <1>1, <1>2, <1>5
    <3>4. PICK f : f = manifests[current]
      OBVIOUS
    <3>5. current \in DOMAIN M /\ M[current] = f /\ f \in ManifestFile(ids)
      BY <3>2, <3>4, <1>4, <1>6 DEF Database, Numbering
    <3>6. PICK k \in f.synced .. Len(f.recs) : manifests'[current] = Cut(f, k)
      BY <3>3, <3>5, CutFilesFacts
    <3>7. current \in DOMAIN manifests'
      BY <3>3, <3>5, CutFilesFacts
    <3>8. PICK v : v = Found(Cut(f, k).recs)
      OBVIOUS
    <3>9. v \in FoundIn(f, TRUE) /\ FoundIn(Cut(f, k), TRUE) = {v}
          /\ Cut(f, k).synced = k /\ Len(Cut(f, k).recs) = k
      <4>1. PICK n \in Nat : n = ids
        BY <1>4
      <4>2. f \in ManifestFile(n) /\ k \in f.synced .. Len(f.recs)
        BY <4>1, <3>5, <3>6
      <4>3. f.synced \in Nat /\ Len(f.recs) \in Nat
        BY <4>2 DEF ManifestFile
      <4>4. Found(Cut(f, k).recs) \in FoundIn(f, TRUE)
        BY <4>2, FoundInCut, ZenonT(40)
      <4>5. FoundIn(Cut(f, k), TRUE) = {Found(Cut(f, k).recs)}
        BY <4>2, FoundInCut, ZenonT(40)
      <4>6. Cut(f, k).synced = k /\ Len(Cut(f, k).recs) = k
        BY <4>2, <4>3, FoundInCut
      <4> QED BY <4>4, <4>5, <4>6, <3>8
    <3>10. v \in Versions /\ Versions' = {v} /\ Latest' = v
      BY <3>1, <3>4, <3>6, <3>8, <3>9, <1>2 DEF Versions, Latest
    <3>11. k \in Nat /\ k >= 1
      <4>1. f.synced \in Nat /\ f.synced >= 1 /\ Len(f.recs) \in Nat
        BY <3>1, <3>2, <3>4, <3>5 DEF Database, ManifestFile
      <4> QED BY <4>1
    <3>12. VersionOK(v) /\ v.log \in Nat /\ v.next \in Nat
      BY <3>2, <3>10 DEF VersionType
    <3>13. \A g \in v.files : g \in DOMAIN tables' /\ tables'[g] = tables[g]
      BY <3>10, <2>3, <1>1, GarbageIsOld
    <3>14. LogRecs(L, v.log) = LogRecs(logs, v.log) /\ SyncedRecs(L, v.log) = SyncedRecs(logs, v.log)
      BY <3>10, <2>3, <1>1, <1>5, GarbageIsOld
    <3>15. PICK G, j : G = logs' /\ j = v.log
      OBVIOUS
    <3>16. /\ LogRecs(G, j) \subseteq LogRecs(L, j)
           /\ SyncedRecs(L, j) \subseteq SyncedRecs(G, j)
           /\ SyncedRecs(L, j) \subseteq LogRecs(G, j)
      BY <3>3, <3>12, <3>15, <1>4, <1>6, CutLogs
    <3>17. Ents(tables', v.files) = Ents(tables, v.files)
      BY <3>13 DEF Ents
    <3>18. VersionOK(v)'
      <4>1. /\ v.numbers /\ current' < v.next /\ v.log < v.next /\ v.next <= Latest'.next
        BY <3>10, <3>12, <1>2 DEF VersionOK
      <4>2. Held(v.files, v.next)'
        BY <3>12, <3>13, <1>2 DEF VersionOK, Held, NoGarbage
      <4>3. UpTo(Ents(tables', v.files), v.seq)
        BY <3>12, <3>17 DEF VersionOK
      <4>4. Reach(v)' \subseteq Reach(v)
        BY <3>14, <3>15, <3>16, <3>17 DEF Reach
      <4>5. Distinct(Reach(v))'
        BY <4>4, <3>12 DEF VersionOK, Distinct
      <4>6. Covers(v.files, v.log)'
        <5>1. required \cap synced \subseteq IdsOf(Ents(tables, v.files) \cup SyncedRecs(logs, v.log))
          BY <3>1, <3>12 DEF VersionOK, Covers
        <5>2. SyncedRecs(logs, v.log) \subseteq SyncedRecs(logs', v.log)
              /\ SyncedRecs(logs, v.log) \subseteq LogRecs(logs', v.log)
          BY <3>14, <3>15, <3>16
        <5>3. required' \subseteq IdsOf(Ents(tables', v.files) \cup LogRecs(logs', v.log))
          BY <5>1, <5>2, <3>3, <3>17 DEF IdsOf
        <5>4. required' \subseteq IdsOf(Ents(tables', v.files) \cup SyncedRecs(logs', v.log))
          BY <5>1, <5>2, <3>3, <3>17 DEF IdsOf
        <5> QED BY <5>3, <5>4 DEF Covers
      <4> QED BY <4>1, <4>2, <4>3, <4>5, <4>6 DEF VersionOK
    <3>19. \A w \in Versions' : VersionOK(w)'
      <4>1. \A w \in Versions' : w = v
        BY <3>10
      <4> QED BY <4>1, <3>18
    <3>20. manifests'[current'].recs # <<>> /\ manifests'[current'].synced >= 1
      BY <3>6, <3>9, <3>11, <1>2
    <3>21. Database'
      BY <3>7, <3>19, <3>20, <1>2 DEF Database, NoGarbage
    <3> QED BY <3>21, <2>3, <1>2 DEF DiskOK
  <2> QED BY <2>1, <2>2, <2>3
<1> QED BY <1>2, <1>3, <1>7, StaysClosed DEF IInv

-----------------------------------------------------------------------------
(* The invariant.                                                          *)

(* Only a write and a crash of the machine change what must be found       *)
(* again, and nothing changes the scenario.                                *)
LEMMA HistoryKept ==
  ASSUME Next
  PROVE  /\ scenario' = scenario
         /\ \/ UNCHANGED <<ids, synced>>
            \/ /\ ids' = ids + 1
               /\ synced' \subseteq synced \cup {ids + 1}
<1>1. CASE NewDB \/ NewDBCurrent \/ RecoverVersions \/ RecoverLogFile \/ OpenLog
           \/ OpenFails \/ OpenDone
  BY <1>1 DEF NewDB, NewDBCurrent, RecoverVersions, RecoverLogFile, OpenLog, OpenFails,
              OpenDone, history
<1>2. CASE LogEdit \/ InstallEdit \/ EditFails
  BY <1>2 DEF LogEdit, InstallEdit, EditFails, history
<1>3. ASSUME NEW sync \in BOOLEAN, Write(sync)
      PROVE  /\ scenario' = scenario /\ ids' = ids + 1
             /\ synced' \subseteq synced \cup {ids + 1}
  BY <1>3 DEF Write, NextRecord
<1>4. CASE SwitchLog \/ NewIterator \/ DeleteIterator \/ StartFlush \/ BuildTable
           \/ BuildFails
  BY <1>4 DEF SwitchLog, NewIterator, DeleteIterator, StartFlush, BuildTable, BuildFails,
              history
<1>5. ASSUME NEW inputs, StartCompaction(inputs)
      PROVE  UNCHANGED <<scenario, ids, synced>>
  BY <1>5 DEF StartCompaction, OpenOutput, history
<1>6. ASSUME NEW part, NextOutput(part)
      PROVE  UNCHANGED <<scenario, ids, synced>>
  BY <1>6 DEF NextOutput, OpenOutput, history
<1>7. CASE FinishCompaction \/ CompactionFails \/ RemoveGarbage
  BY <1>7 DEF FinishCompaction, CompactionFails, RemoveGarbage, history
<1>8. ASSUME NEW reboot, Crash(reboot)
      PROVE  UNCHANGED <<scenario, ids, synced>>
  BY <1>8 DEF Crash
<1>9. CASE WriteFails
  BY <1>9 DEF WriteFails
<1> QED BY <1>1, <1>2, <1>3, <1>4, <1>5, <1>6, <1>7, <1>8, <1>9 DEF Next, Step

(* Every step keeps the types.                                             *)
LEMMA TypesKept ==
  ASSUME Sound, Types, TornOK, IInv, Next
  PROVE  Types'
<1>1. CASE NewDB \/ NewDBCurrent \/ OpenFails \/ LogEdit \/ InstallEdit \/ EditFails
  BY <1>1, TypesManifest
<1>2. CASE RecoverVersions \/ RecoverLogFile
  BY <1>2, TypesRecover
<1>3. CASE SwitchLog \/ OpenLog
  BY <1>3, TypesNewLog
<1>4. CASE OpenDone \/ RemoveGarbage
  BY <1>4, TypesRemove
<1>5. CASE \E sync \in BOOLEAN : Write(sync)
  BY <1>5, TypesWrite
<1>6. CASE NewIterator \/ DeleteIterator \/ StartFlush \/ BuildFails \/ CompactionFails
  <2>1. UNCHANGED <<scenario, ids, disk>>
    BY <1>6 DEF NewIterator, DeleteIterator, StartFlush, BuildFails, CompactionFails, history
  <2> QED BY <2>1, <1>6, TypesInProcess
<1>7. CASE \/ BuildTable
           \/ \E inputs \in SUBSET vs.files \ {{}} : StartCompaction(inputs)
           \/ \E part \in SUBSET compaction.left \ {{}} : NextOutput(part)
           \/ FinishCompaction
  BY <1>7, TypesTable
<1>8. CASE \E reboot \in {FALSE, scenario.reboots} : Crash(reboot)
  BY <1>8, TypesCrash
<1>9. ~WriteFails
  BY DEF WriteFails, Sound
<1> QED BY <1>1, <1>2, <1>3, <1>4, <1>5, <1>6, <1>7, <1>8, <1>9 DEF Next, Step

(* Every step keeps the invariant.                                         *)
LEMMA IInvKept ==
  ASSUME Sound, Types, TornOK, IInv, Types', synced \subseteq 0 .. ids, Next
  PROVE  IInv'
<1>1. CASE NewDB
  BY <1>1, NewDBStep
<1>2. CASE NewDBCurrent
  BY <1>2, NewDBCurrentStep
<1>3. CASE RecoverVersions
  BY <1>3, RecoverVersionsStep, CorruptStep
<1>4. CASE RecoverLogFile
  BY <1>4, RecoverLogFileStep
<1>5. CASE OpenLog
  BY <1>5, OpenLogStep
<1>6. CASE OpenFails
  <2>1. pc # "open"
    BY <1>6 DEF OpenFails
  <2> QED BY <2>1, <1>6, OpenFailsStep
<1>7. CASE OpenDone \/ RemoveGarbage
  BY <1>7, RemoveStep
<1>8. CASE LogEdit
  <2>1. pc \in {"saving", "open"}
    BY <1>8, WhoSaves DEF LogEdit
  <2> QED BY <2>1, <1>8, LogEditStep, LogEditAtOpenStep
<1>9. CASE InstallEdit
  <2>1. pc \in {"saving", "open"}
    BY <1>9, WhoSaves DEF InstallEdit
  <2> QED BY <2>1, <1>9, InstallEditStep, InstallEditAtOpenStep
<1>10. CASE EditFails
  BY <1>10, EditFailsStep, OpenFailsStep
<1>11. CASE \E sync \in BOOLEAN : Write(sync)
  BY <1>11, WriteStep
<1>12. CASE SwitchLog
  BY <1>12, SwitchLogStep
<1>13. CASE NewIterator \/ DeleteIterator
  BY <1>13, IteratorStep
<1>14. CASE StartFlush \/ BuildFails \/ CompactionFails
  BY <1>14, ThreadStep
<1>15. CASE BuildTable
  BY <1>15, BuildTableStep
<1>16. ASSUME NEW inputs \in SUBSET vs.files \ {{}}, StartCompaction(inputs)
       PROVE  IInv'
  BY <1>16, StartCompactionStep
<1>17. ASSUME NEW part \in SUBSET compaction.left \ {{}}, NextOutput(part)
       PROVE  IInv'
  BY <1>17, NextOutputStep
<1>18. CASE FinishCompaction
  BY <1>18, FinishCompactionStep
<1>19. CASE \E reboot \in {FALSE, scenario.reboots} : Crash(reboot)
  BY <1>19, CrashStep
<1>20. ~WriteFails
  BY DEF WriteFails, Sound
<1> QED BY <1>1, <1>2, <1>3, <1>4, <1>5, <1>6, <1>7, <1>8, <1>9, <1>10, <1>11, <1>12,
           <1>13, <1>14, <1>15, <1>16, <1>17, <1>18, <1>19, <1>20 DEF Next, Step

(* A step that tears nothing, and neither loses the error nor collects     *)
(* files behind a torn record.                                             *)
LEMMA TornSame ==
  ASSUME TornOK, UNCHANGED <<scenario, torn, excused, current>>,
         Running' /\ current \in torn.manifests => bgError',
         Running' /\ Missed => garbage' = NoGarbage
  PROVE  TornOK'
<1>1. Missed' <=> Missed
  BY DEF Missed
<1> QED BY <1>1 DEF TornOK

(* A record is torn only when an edit of the thread fails, and appending   *)
(* behind it goes on until the process ends.                               *)
LEMMA TornEdit ==
  ASSUME Sound, Types, TornOK, IInv, LogEdit \/ InstallEdit \/ EditFails
  PROVE  TornOK'
<1>1. saving # NotSaving /\ pc \in {"saving", "open"} /\ scenario' = scenario
  BY WhoSaves DEF LogEdit, InstallEdit, EditFails
<1>2. /\ current \in Nat /\ vs.manifest \in Nat
      /\ torn \in [logs : SUBSET Nat, manifests : SUBSET Nat, behind : SUBSET Nat]
  BY DEF Types, DiskTypes, ProcessTypes, TornOK
<1>3. pc = "saving" => /\ ~Torn
                       /\ vs.desc => scenario.reuseLogs
                       /\ ~vs.desc => current < vs.manifest
                       /\ saving.who = "open"
  BY NotTornAtOpen DEF IInv, Quiet, SavingOK, SavingAtOpen, ManifestChosen
<1>4. pc = "open" => /\ vs.desc /\ vs.manifest = current /\ garbage = NoGarbage
                     /\ saving.who \in {"flush", "compact"}
  BY <1>1 DEF IInv, Quiet, RunningOK, Running, InUse, EditOK
<1>5. CASE LogEdit
  <2>1. UNCHANGED <<current, pc, garbage, bgError, excused>>
    BY <1>5 DEF LogEdit
  <2>2. CASE torn' = torn
    BY <2>1, <2>2, <1>1, TornSame DEF TornOK, Running
  <2>3. CASE Torn /\ torn' = [torn EXCEPT !.behind = @ \cup {vs.manifest}]
    <3>1. /\ torn'.logs = torn.logs /\ torn'.manifests = torn.manifests
          /\ torn'.behind = torn.behind \cup {vs.manifest}
          /\ torn' \in [logs : SUBSET Nat, manifests : SUBSET Nat, behind : SUBSET Nat]
      BY <2>3, <1>2
    <3>2. vs.manifest \in torn.manifests /\ pc = "open"
      BY <2>3, <1>1, <1>3 DEF Torn
    <3>3. garbage' = NoGarbage
      BY <3>2, <2>1, <1>4
    <3> QED BY <3>1, <3>2, <3>3, <2>1, <1>1 DEF TornOK, Running
  <2> QED BY <2>2, <2>3, <1>5 DEF LogEdit
<1>6. CASE InstallEdit
  <2>1. UNCHANGED <<torn, bgError>> /\ excused' = {}
    BY <1>6 DEF InstallEdit, TornOK
  <2>2. /\ \A n \in torn.manifests : n <= current' /\ (pc = "saving" => n # current')
        /\ pc = "open" => current' = current
    <3>1. current' = IF vs.desc THEN current ELSE vs.manifest
      BY <1>6 DEF InstallEdit, SetCurrentFile
    <3>2. \A n \in torn.manifests : n \in Nat /\ n <= current
      BY <1>2 DEF TornOK
    <3>3. pc = "saving" /\ vs.desc => torn.manifests = {}
      BY <1>3 DEF TornOK
    <3> QED BY <3>1, <3>2, <3>3, <1>1, <1>2, <1>3, <1>4
  <2>3. bgError => garbage' = NoGarbage
    BY <1>6 DEF InstallEdit, RemoveObsoleteFiles
  <2>4. current' \in torn.manifests => bgError
    BY <2>2, <1>1 DEF TornOK, Running
  <2> QED BY <2>1, <2>2, <2>3, <2>4, <1>1 DEF TornOK, Missed
<1>7. CASE EditFails
  <2>1. UNCHANGED <<current, excused>> /\ ~scenario.reuseLogs
    BY <1>7 DEF EditFails, Sound
  <2>2. CASE pc = "saving"
    <3>1. pc' = "failed" /\ torn' = torn
      BY <2>1, <2>2, <1>3, <1>7 DEF EditFails
    <3> QED BY <3>1, <2>1, <1>1, TornSame DEF Running
  <2>3. CASE pc = "open"
    <3>1. bgError' = TRUE /\ garbage' = NoGarbage
      BY <2>3, <1>4, <1>7 DEF EditFails, RemoveObsoleteFiles
    <3>2. CASE torn' = torn
      BY <3>1, <3>2, <2>1, <1>1, TornSame
    <3>3. CASE torn' = [torn EXCEPT !.manifests = @ \cup {vs.manifest}]
      <4>1. /\ torn'.logs = torn.logs /\ torn'.behind = torn.behind
            /\ torn'.manifests = torn.manifests \cup {current}
            /\ torn' \in [logs : SUBSET Nat, manifests : SUBSET Nat, behind : SUBSET Nat]
        BY <3>3, <2>3, <1>2, <1>4
      <4> QED BY <4>1, <3>1, <2>1, <1>1, <1>2 DEF TornOK
    <3> QED BY <3>2, <3>3, <1>7 DEF EditFails
  <2> QED BY <2>2, <2>3, <1>1
<1> QED BY <1>5, <1>6, <1>7

(* Every step keeps what is said of torn files.                            *)
LEMMA TornKept ==
  ASSUME Sound, Types, TornOK, IInv, Next
  PROVE  TornOK'
<1>1. CASE NewDB \/ NewDBCurrent \/ RecoverVersions \/ OpenFails
  <2>1. ~Running' /\ UNCHANGED <<scenario, torn, excused>>
    BY <1>1 DEF NewDB, NewDBCurrent, RecoverVersions, OpenFails, history, Running
  <2>2. current' = current \/ (current = 0 /\ current' = 1)
    <3>1. CASE NewDBCurrent
      BY <3>1 DEF NewDBCurrent, SetCurrentFile, IInv, DiskOK, Database
    <3>2. CASE RecoverVersions
      <4>1. UNCHANGED disk
        BY <3>2 DEF RecoverVersions
      <4> QED BY <4>1 DEF disk
    <3>3. CASE NewDB \/ OpenFails
      BY <3>3 DEF NewDB, OpenFails
    <3> QED BY <3>1, <3>2, <3>3, <1>1
  <2>3. \A n \in torn.manifests : n \in Nat /\ n <= current
    BY DEF TornOK
  <2>4. \A n \in torn.manifests : n <= current'
    BY <2>2, <2>3
  <2> QED BY <2>1, <2>4 DEF TornOK
<1>2. CASE RecoverLogFile
  <2>1. pc = "logs" /\ pc' = pc /\ UNCHANGED <<scenario, torn, excused, current>>
    BY <1>2, PlainRead DEF history
  <2> QED BY <2>1, TornSame DEF Running
<1>3. CASE OpenLog
  <2>1. UNCHANGED <<scenario, torn, excused, current>>
    BY <1>3 DEF OpenLog, history
  <2>2. CASE pc' = "saving"
    BY <2>1, <2>2, TornSame DEF Running
  <2>3. CASE ~opening.save
    <3>1. scenario.reuseLogs
      BY <2>3, <1>3 DEF OpenLog, IInv, ReadingOK, Reading, ManifestChosen
    <3>2. torn.manifests = {} /\ torn.behind = {}
      BY <3>1 DEF TornOK
    <3> QED BY <3>2, <2>1, TornSame DEF Missed
  <2> QED BY <2>2, <2>3, <1>3 DEF OpenLog
<1>4. CASE OpenDone \/ RemoveGarbage
  <2>1. /\ UNCHANGED <<scenario, torn, excused, current, bgError>> /\ garbage' = NoGarbage
        /\ Running
    BY <1>4 DEF OpenDone, RemoveGarbage, history, Running
  <2> QED BY <2>1, TornSame DEF TornOK
<1>5. CASE LogEdit \/ InstallEdit \/ EditFails
  BY <1>5, TornEdit
<1>6. ASSUME NEW sync \in BOOLEAN, Write(sync) PROVE TornOK'
  <2>1. UNCHANGED <<scenario, torn, excused, current, pc, bgError, garbage>>
    BY <1>6, PlainWrite DEF bgVars
  <2> QED BY <2>1, TornSame DEF TornOK, Running
<1>7. CASE SwitchLog
  <2>1. UNCHANGED <<scenario, torn, excused, current, pc, bgError, garbage>>
    BY <1>7, PlainSwitch DEF history
  <2> QED BY <2>1, TornSame DEF TornOK, Running
<1>8. CASE NewIterator \/ DeleteIterator \/ StartFlush \/ BuildTable \/ FinishCompaction
  <2>1. UNCHANGED <<scenario, torn, excused, current, pc, bgError, garbage>>
    BY <1>8 DEF NewIterator, DeleteIterator, StartFlush, BuildTable, FinishCompaction,
                disk, bgVars, history
  <2> QED BY <2>1, TornSame DEF TornOK, Running
<1>9. CASE BuildFails \/ CompactionFails
  <2>1. UNCHANGED <<scenario, torn, excused, current, pc>> /\ bgError' = TRUE
        /\ (garbage' = garbage \/ garbage' = NoGarbage)
    BY <1>9 DEF BuildFails, CompactionFails, RemoveObsoleteFiles, disk, history
  <2> QED BY <2>1, TornSame DEF TornOK, Running
<1>10. ASSUME NEW inputs, StartCompaction(inputs) PROVE TornOK'
  <2>1. UNCHANGED <<scenario, torn, excused, current, pc, bgError, garbage>>
    BY <1>10 DEF StartCompaction, OpenOutput, history
  <2> QED BY <2>1, TornSame DEF TornOK, Running
<1>11. ASSUME NEW part, NextOutput(part) PROVE TornOK'
  <2>1. UNCHANGED <<scenario, torn, excused, current, pc, bgError, garbage>>
    BY <1>11 DEF NextOutput, OpenOutput, history
  <2> QED BY <2>1, TornSame DEF TornOK, Running
<1>12. ASSUME NEW reboot, Crash(reboot) PROVE TornOK'
  <2>1. UNCHANGED <<scenario, torn, excused, current>> /\ pc' = "closed"
    BY <1>12 DEF Crash
  <2> QED BY <2>1, TornSame DEF Running
<1>13. ~WriteFails
  BY DEF WriteFails, Sound
<1> QED BY <1>1, <1>2, <1>3, <1>4, <1>5, <1>6, <1>7, <1>8, <1>9, <1>10, <1>11, <1>12,
           <1>13 DEF Next, Step

(* There is no database at first.                                          *)
LEMMA InitOK ==
  ASSUME Init, Sound
  PROVE  Inv
<1>1. scenario \in Scenario
  BY RecoveryAssumption DEF Init
<1>2. DiskTypes
  BY <1>1 DEF Init, DiskTypes, Numbering
<1>3. ProcessTypes
  <2>1. ids = 0 /\ 0 \in 0 .. ids
    BY DEF Init
  <2>2. vs \in [files : SUBSET Nat, log : Nat, next : Nat, manifest : Nat,
                seq : 0 .. ids, desc : BOOLEAN]
    BY <2>1 DEF Init, NoVersions
  <2>3. opening \in [todo : SUBSET Nat, add : SUBSET Nat, save : BOOLEAN,
                     maxSeq : 0 .. ids, hasMem : BOOLEAN]
    BY <2>1 DEF Init, NotOpening
  <2>4. compaction \in [inputs : SUBSET Nat, outs : SUBSET Nat, out : Nat,
                        left : SUBSET Rec(ids)]
    BY DEF Init, NoCompaction, NoTable
  <2>5. garbage \in [tables : SUBSET Nat, logs : SUBSET Nat, manifests : SUBSET Nat]
    BY DEF Init, NoGarbage
  <2>6. /\ pc = "closed" /\ logNumber = 0 /\ mem = {} /\ imm = {} /\ hasImm = FALSE
        /\ bgError = FALSE /\ pending = {} /\ flush = 0 /\ saving = NotSaving /\ iters = {}
    BY DEF Init, NoTable
  <2> QED BY <2>2, <2>3, <2>4, <2>5, <2>6 DEF ProcessTypes
<1>4. DiskOK /\ Quiet
  BY DEF Init, DiskOK, NoDatabase, Quiet
<1>5. ReadingOK /\ SavingOK /\ RunningOK /\ CleanOK /\ EditOK /\ ImmOK
  BY DEF Init, ReadingOK, SavingOK, RunningOK, Running, CleanOK, EditOK, ImmOK
<1>6. FlushOK /\ CompactionOK
  BY DEF Init, FlushOK, CompactionOK, Compacting
<1>7. synced \subseteq 0 .. ids
  BY DEF Init
<1>8. TornOK
  BY DEF Init, TornOK, Running
<1> QED BY <1>2, <1>3, <1>4, <1>5, <1>6, <1>7, <1>8 DEF Inv, Types, IInv

(* A step that changes nothing keeps everything.                           *)
LEMMA Stutter ==
  ASSUME Inv, UNCHANGED vars
  PROVE  Inv'
<1>1. UNCHANGED <<scenario, logs, tables, manifests, current, pc, vs, opening, logNumber,
                  mem, imm, hasImm, pending, flush, compaction, saving, garbage, bgError,
                  iters, torn, excused, ids, synced, required, crashes>>
  BY DEF vars, disk, bgVars, history
<1>2. Sound'
  BY <1>1 DEF Inv, Sound
<1>3. Types /\ IInv /\ synced \subseteq 0 .. ids
  BY DEF Inv
<1>4. Types'
  BY <1>1, <1>3 DEF Types, DiskTypes, ProcessTypes, Numbering
<1>5. Versions' = Versions /\ Latest' = Latest
  BY <1>1 DEF Versions, Latest
<1>6. \A v : VersionOK(v)' = VersionOK(v) /\ Reach(v)' = Reach(v)
  BY <1>1, <1>5 DEF VersionOK, Held, Reach, Covers
<1>7. DiskOK'
  BY <1>1, <1>3, <1>5, <1>6 DEF IInv, DiskOK, NoDatabase, Database
<1>8. Quiet' /\ ImmOK'
  BY <1>1, <1>3 DEF IInv, Quiet, ImmOK
<1>9. ManifestChosen' = ManifestChosen /\ LogInUse' = LogInUse /\ Contents' = Contents
  BY <1>1 DEF ManifestChosen, Held, LogInUse, Contents, InTables
<1>10. ReadingOK'
  BY <1>1, <1>3, <1>5, <1>9 DEF IInv, ReadingOK, Reading, Read
<1>11. SavingOK'
  BY <1>1, <1>3, <1>5, <1>9 DEF IInv, SavingOK, SavingAtOpen, Held, Covers, SnapshotEdit
<1>12. RunningOK'
  BY <1>1, <1>3, <1>5, <1>6, <1>9
     DEF IInv, RunningOK, Running, InUse, Held, Behind, Missed, Target
<1>13. CleanOK'
  BY <1>1, <1>3 DEF IInv, CleanOK, Cleaning, Obsolete, AddLiveFiles
<1>14. FlushOK' /\ CompactionOK'
  BY <1>1, <1>3, <1>5 DEF IInv, FlushOK, CompactionOK, Compacting, Outputs
<1>15. EditOK'
  BY <1>1, <1>3, <1>5 DEF IInv, EditOK, Held, Compacting, Outputs, Missed
<1>16. TornOK'
  BY <1>1 DEF Inv, TornOK, Running, Missed
<1> QED BY <1>1, <1>2, <1>3, <1>4, <1>7, <1>8, <1>10, <1>11, <1>12, <1>13, <1>14, <1>15,
           <1>16 DEF Inv, IInv

(* The invariant is inductive.                                             *)
LEMMA NextOK ==
  ASSUME Inv, Next
  PROVE  Inv'
<1>1. Sound /\ Types /\ TornOK /\ IInv /\ synced \subseteq 0 .. ids
  BY DEF Inv
<1>2. /\ scenario' = scenario
      /\ \/ UNCHANGED <<ids, synced>>
         \/ ids' = ids + 1 /\ synced' \subseteq synced \cup {ids + 1}
  BY HistoryKept
<1>3. Sound'
  BY <1>1, <1>2 DEF Sound
<1>4. Types'
  BY <1>1, TypesKept
<1>5. IInv'
  BY <1>1, <1>4, IInvKept
<1>6. synced' \subseteq 0 .. ids'
  <2>1. ids \in Nat
    BY <1>1 DEF Types, DiskTypes
  <2>2. CASE UNCHANGED <<ids, synced>>
    BY <2>2, <1>1
  <2>3. CASE ids' = ids + 1 /\ synced' \subseteq synced \cup {ids + 1}
    <3>1. 0 .. ids \cup {ids + 1} \subseteq 0 .. (ids + 1)
      BY <2>1
    <3>2. synced' \subseteq 0 .. (ids + 1)
      BY <3>1, <2>3, <1>1
    <3> QED BY <3>2, <2>3
  <2> QED BY <2>2, <2>3, <1>2
<1>7. TornOK'
  BY <1>1, TornKept
<1> QED BY <1>3, <1>4, <1>5, <1>6, <1>7 DEF Inv

(* As long as no operation on a log fails (Sound), every version that a    *)
(* crash may leave in the MANIFEST is complete, at every step of Open, of  *)
(* the writers and of the background thread, and after every failure to    *)
(* write tables and MANIFESTs: its tables are whole and nobody removes     *)
(* them, and with the logs it keeps it reaches all writes that must be     *)
(* found again.                                                            *)
THEOREM CrashesAreExpected == Spec /\ Sound => []Inv
<1>1. Inv /\ [Next]_vars => Inv'
  BY NextOK, Stutter
<1> QED BY <1>1, InitOK, PTL DEF Spec

-----------------------------------------------------------------------------
(* What the users of an open database rely on.                             *)

(* What an open database has follows from the invariant.                   *)
LEMMA OpenFacts ==
  ASSUME Inv, pc = "open"
  PROVE  FilesHeld /\ NothingLost /\ SequencesFresh
<1>1. Types /\ IInv /\ Running
  BY DEF Inv, Running
<1>2. InUse /\ VersionOK(Latest) /\ Behind(Latest)
  BY <1>1, RunningFacts
<1>3. FilesHeld
  BY <1>2 DEF InUse, Held, FilesHeld
<1>4. Reach(Latest) = Contents
  BY <1>2 DEF Behind
<1>5. NothingLost
  BY <1>2, <1>4 DEF VersionOK, Covers, Reach, NothingLost
<1>6. SequencesFresh
  BY <1>2, <1>4 DEF VersionOK, InUse, UpTo, Distinct, SequencesFresh
<1> QED BY <1>3, <1>5, <1>6

(* RemoveObsoleteFiles never takes a table that the current version or an  *)
(* iterator needs, whatever flush, compaction and Open do at the time.     *)
THEOREM TablesAreHeld == Spec /\ Sound => []FilesHeld
<1>1. Inv => FilesHeld
  BY OpenFacts DEF FilesHeld
<1> QED BY <1>1, CrashesAreExpected, PTL

(* After any number of crashes at any step, and of failures to write       *)
(* tables, MANIFESTs and CURRENT, an open database has every write that    *)
(* returned OK, or that returned OK with sync set if the machine crashed   *)
(* since.  This is so when no operation on a log fails: nothing is excused *)
(* then.  What a failing AddRecord, Close or read of a log lets the code   *)
(* lose (db_impl.cc:1298, 1470, 406) is outside this theorem.              *)
THEOREM NothingIsLost == Spec /\ Sound => [](NothingLost /\ excused = {})
<1>1. Inv => NothingLost /\ excused = {}
  BY OpenFacts DEF NothingLost, Inv, TornOK
<1> QED BY <1>1, CrashesAreExpected, PTL

(* SetLastSequence after recovery gives no sequence number that is in the  *)
(* database already, and covers all that are.                              *)
THEOREM SequencesAreFresh == Spec /\ Sound => []SequencesFresh
<1>1. Inv => SequencesFresh
  BY OpenFacts DEF SequencesFresh
<1> QED BY <1>1, CrashesAreExpected, PTL

(* Only the end of Open leads from the removal of leftovers to an open     *)
(* database.                                                               *)
LEMMA OnlyOpenDone ==
  ASSUME Inv, [Next]_vars, pc = "clean", pc' = "open"
  PROVE  OpenDone
<1>1. /\ imm = {} /\ ~hasImm /\ flush = NoTable /\ compaction = NoCompaction
      /\ iters = {} /\ saving = NotSaving
  BY DEF Inv, IInv, Quiet
<1>2. ~(UNCHANGED vars)
  BY DEF vars
<1>3. ~(NewDB \/ NewDBCurrent \/ RecoverVersions \/ RecoverLogFile \/ OpenLog \/ OpenFails)
  BY DEF NewDB, NewDBCurrent, RecoverVersions, RecoverLogFile, OpenLog, OpenFails
<1>4. ~(LogEdit \/ InstallEdit \/ EditFails)
  BY <1>1 DEF LogEdit, InstallEdit, EditFails
<1>5. ~WriteFails /\ \A sync \in BOOLEAN : ~Write(sync)
  BY DEF Write, WriteFails, MayWrite
<1>6. ~(SwitchLog \/ NewIterator \/ DeleteIterator \/ StartFlush \/ BuildTable
        \/ BuildFails)
  BY <1>1 DEF SwitchLog, NewIterator, DeleteIterator, StartFlush,
              MaybeScheduleCompaction, BuildTable, BuildFails, Free
<1>7. \A inputs : ~StartCompaction(inputs)
  BY DEF StartCompaction, MaybeScheduleCompaction, Free
<1>8. \A part : ~NextOutput(part)
  BY DEF NextOutput, Free
<1>9. ~(FinishCompaction \/ CompactionFails \/ RemoveGarbage)
  BY DEF FinishCompaction, CompactionFails, RemoveGarbage, Free
<1>10. \A reboot : ~Crash(reboot)
  BY DEF Crash
<1> QED BY <1>2, <1>3, <1>4, <1>5, <1>6, <1>7, <1>8, <1>9, <1>10 DEF Next, Step

(* When Open returns, RemoveObsoleteFiles has taken all tables that are    *)
(* not of the version, and every log but the one in use is gone or empty.  *)
THEOREM LeftoversAreRemoved == Spec /\ Sound => LeftoversRemoved
<1>1. ASSUME Inv, [Next]_vars, pc = "clean", pc' = "open"
      PROVE  /\ DOMAIN tables' = vs'.files
             /\ \A n \in DOMAIN logs' : n = logNumber' \/ logs'[n].recs = <<>>
  <2>1. OpenDone
    BY <1>1, OnlyOpenDone
  <2>2. /\ tables' = Without(tables, garbage.tables) /\ logs' = Without(logs, garbage.logs)
        /\ vs' = vs /\ logNumber' = logNumber
    BY <2>1 DEF OpenDone, RemoveFiles
  <2>3. Types /\ IInv /\ Running
    BY <1>1 DEF Inv, Running
  <2>4. vs.files \subseteq DOMAIN tables
    BY <2>3, RunningFacts
  <2>5. iters = {} /\ garbage = Obsolete(vs, {})
    BY <2>3, <1>1 DEF IInv, Quiet, CleanOK, Cleaning
  <2>6. /\ garbage.tables = DOMAIN tables \ vs.files
        /\ garbage.logs = {n \in DOMAIN logs : n < vs.log}
    BY <2>5 DEF Obsolete, AddLiveFiles
  <2>7. DOMAIN tables' = vs'.files
    BY <2>2, <2>4, <2>6 DEF Without
  <2>8. ASSUME NEW n \in DOMAIN logs'
        PROVE  n = logNumber' \/ logs'[n].recs = <<>>
    <3>1. n \in DOMAIN logs /\ ~(n < vs.log) /\ logs'[n] = logs[n]
      BY <2>2, <2>6 DEF Without
    <3>2. n \in Nat /\ vs.log \in Nat
      BY <3>1, <2>3 DEF Types, DiskTypes, ProcessTypes, Numbering
    <3>3. n \in From(logs, vs.log)
      BY <3>1, <3>2 DEF From
    <3>4. n = logNumber \/ logs[n].recs = <<>>
      BY <3>3, <2>3, <1>1 DEF IInv, CleanOK, Cleaning
    <3> QED BY <3>1, <3>4, <2>2
  <2> QED BY <2>7, <2>8
<1>2. Inv /\ [Next]_vars =>
        [pc = "clean" /\ pc' = "open" =>
           /\ DOMAIN tables' = vs'.files
           /\ \A n \in DOMAIN logs' : n = logNumber' \/ logs'[n].recs = <<>>]_vars
  BY <1>1
<1> QED BY <1>2, CrashesAreExpected, PTL DEF Spec, LeftoversRemoved

(* The assertions of LogAndApply: an edit never goes back to an older log, *)
(* and its log has a number that is taken.                                 *)
THEOREM EditsGoForward ==
  Spec /\ Sound => [](saving # NotSaving => saving.edit.log \in vs.log .. vs.next - 1)
<1>1. ASSUME Inv, saving # NotSaving
      PROVE  saving.edit.log \in vs.log .. vs.next - 1
  <2>1. Types /\ IInv
    BY <1>1 DEF Inv
  <2>2. /\ vs.log \in Nat /\ vs.next \in Nat /\ logNumber \in Nat
        /\ saving.edit.log \in Nat /\ saving.edit.next \in Nat
    BY <2>1, <1>1 DEF Types, ProcessTypes, EditRec
  <2>3. pc \in {"saving", "open"}
    BY <2>1, <1>1 DEF IInv, Quiet
  <2>4. CASE pc = "saving"
    <3>1. SavingAtOpen /\ LogInUse
      BY <2>1, <2>4 DEF IInv, SavingOK, SavingAtOpen
    <3>2. saving.edit.log = logNumber /\ logNumber \in From(logs, vs.log) /\ logNumber < vs.next
      BY <3>1 DEF SavingAtOpen, LogInUse, From
    <3> QED BY <3>2, <2>2 DEF From
  <2>5. CASE pc = "open"
    <3>1. LogInUse
      BY <2>1, <2>5 DEF IInv, RunningOK, Running, InUse
    <3>2. logNumber >= vs.log
      BY <3>1 DEF LogInUse, From
    <3>3. /\ saving.edit.next <= vs.next /\ saving.edit.log < saving.edit.next
          /\ saving.edit.log = logNumber \/ saving.edit.log = vs.log
      BY <2>1, <2>5, <1>1 DEF IInv, EditOK
    <3> QED BY <3>2, <3>3, <2>2
  <2> QED BY <2>3, <2>4, <2>5
<1>2. Inv => (saving # NotSaving => saving.edit.log \in vs.log .. vs.next - 1)
  BY <1>1
<1> QED BY <1>2, CrashesAreExpected, PTL

(* Whatever a crash left, CURRENT names a MANIFEST with the numbers, and   *)
(* no table that it lists is missing.  The only database that Open finds   *)
(* corrupt is one whose MANIFEST was appended to behind a torn record,     *)
(* which CompactMemTable does in a compaction after a failed LogAndApply   *)
(* (version_set.cc:869).                                                   *)
THEOREM NeverCorrupt == Spec /\ Sound => [](pc = "corrupt" => current \in torn.behind)
<1>1. Init => (pc = "corrupt" => Missed)
  BY DEF Init
<1>2. ASSUME Inv, Next
      PROVE  pc' = "corrupt" => Missed'
  <2>1. Types /\ IInv /\ Sound
    BY <1>2 DEF Inv
  <2>2. CASE RecoverVersions
    <3>1. UNCHANGED <<disk, history>> /\ (pc' = "corrupt" => Missed)
      BY <2>1, <2>2, RecoverCases
    <3> QED BY <3>1 DEF Missed, disk, history
  <2>3. CASE NewDB \/ NewDBCurrent \/ OpenLog \/ OpenFails \/ OpenDone
    BY <2>3 DEF NewDB, NewDBCurrent, OpenLog, OpenFails, OpenDone
  <2>4. CASE RecoverLogFile
    BY <2>4 DEF RecoverLogFile
  <2>5. CASE LogEdit \/ InstallEdit \/ EditFails
    <3>1. pc \in {"saving", "open"}
      BY <2>1, <2>5, WhoSaves DEF LogEdit, InstallEdit, EditFails
    <3> QED BY <3>1, <2>5 DEF LogEdit, InstallEdit, EditFails
  <2>6. ASSUME NEW sync \in BOOLEAN, Write(sync)
        PROVE  pc' = "open"
    BY <2>6 DEF Write, MayWrite
  <2>7. ~WriteFails
    BY <2>1 DEF WriteFails, Sound
  <2>8. CASE SwitchLog \/ NewIterator \/ StartFlush \/ FinishCompaction \/ CompactionFails
             \/ RemoveGarbage
    BY <2>8 DEF SwitchLog, NewIterator, StartFlush, MaybeScheduleCompaction,
                FinishCompaction, CompactionFails, RemoveGarbage, Free
  <2>9. CASE DeleteIterator \/ BuildTable \/ BuildFails
    <3>1. iters # {} \/ flush # NoTable
      BY <2>9 DEF DeleteIterator, BuildTable, BuildFails
    <3>2. pc = "open"
      BY <3>1, <2>1 DEF IInv, Quiet
    <3> QED BY <3>2, <2>9 DEF DeleteIterator, BuildTable, BuildFails
  <2>10. ASSUME NEW inputs, StartCompaction(inputs)
         PROVE  pc' = "open"
    BY <2>10 DEF StartCompaction, MaybeScheduleCompaction, Free, OpenOutput
  <2>11. ASSUME NEW part, NextOutput(part)
         PROVE  pc' = "open"
    BY <2>11 DEF NextOutput, Free, OpenOutput
  <2>12. ASSUME NEW reboot, Crash(reboot)
         PROVE  pc' = "closed"
    BY <2>12 DEF Crash
  <2> QED BY <2>2, <2>3, <2>4, <2>5, <2>6, <2>7, <2>8, <2>9, <2>10, <2>11, <2>12, <1>2
          DEF Next, Step
<1>3. Inv /\ (pc = "corrupt" => Missed) /\ [Next]_vars => (pc = "corrupt" => Missed)'
  <2>1. UNCHANGED vars => UNCHANGED <<pc, current, torn>>
    BY DEF vars, disk, history
  <2> QED BY <2>1, <1>2 DEF Missed
<1> QED BY <1>1, <1>3, CrashesAreExpected, PTL DEF Spec, Missed
=============================================================================
