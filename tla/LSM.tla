-------------------------------- MODULE LSM --------------------------------
(***************************************************************************)
(* The tables of a database and their compaction: memtables, the levels of *)
(* the current Version, where a flush puts its table, which files a        *)
(* compaction takes and what it keeps of them (db/version_set.cc and the   *)
(* compaction half of db/db_impl.cc), and how Get finds an entry again.    *)
(*                                                                         *)
(* There is one background thread, and only it installs a Version, so what *)
(* it does between two points at which other threads can be seen is one    *)
(* action.  A compaction is two: it picks its inputs and the oldest        *)
(* snapshot under the mutex, and installs its outputs later; writes,       *)
(* snapshots and flushes of memtables happen in between.                   *)
(*                                                                         *)
(* A table is a set of entries and its size their number.  The value of an *)
(* entry is its sequence number.  Numbers of files order the files of      *)
(* level 0 only; elsewhere a file is known by its entries and its num is 0.*)
(***************************************************************************)
EXTENDS Integers, Sequences, FiniteSets, FiniteSetsExt, SequencesExt

CONSTANTS
  MaxKey,               \* user keys are 1 .. MaxKey
  NumLevels,            \* config::kNumLevels
  MaxMemCompactLevel,   \* config::kMaxMemCompactLevel
  L0Trigger, L0Stop,    \* config::kL0_CompactionTrigger, _StopWritesTrigger
  MaxBytes,             \* per level from 1: MaxBytesForLevel, in entries
  MaxGrandparent,       \* MaxGrandParentOverlapBytes, in entries
  ExpandedLimit,        \* ExpandedCompactionByteSizeLimit, in entries
  MaxWrites,            \* bound: writes in any scenario
  Scenarios             \* the behaviours considered, of type Scenario

Keys == 1 .. MaxKey
Levels == 0 .. NumLevels - 1

(* An option, which failures and seeks there are, and bounds.              *)
Scenario ==
  [targetFileSize : Nat \ {0},   \* options->max_file_size, in entries
   ioErrors : BOOLEAN,     \* may the background thread's file operations fail?
   seeks : BOOLEAN,        \* do reads run out of a file's allowed_seeks?
   writes : 0 .. MaxWrites,
   deletions : SUBSET Nat, \* bound: the writes, by number, that may delete
   snapshots : Nat,        \* bound: live snapshots
   manuals : Nat,          \* bound: calls of CompactRange
   ranges : SUBSET [begin : 0 .. MaxKey, end : 1 .. MaxKey + 1]]

ASSUME LSMAssumption ==
  /\ MaxKey \in Nat \ {0} /\ MaxWrites \in Nat
  /\ NumLevels \in Nat /\ NumLevels >= 2
  /\ MaxMemCompactLevel \in Nat /\ MaxMemCompactLevel < NumLevels
  /\ L0Trigger \in Nat \ {0} /\ L0Stop \in Nat /\ L0Trigger <= L0Stop
  /\ MaxBytes \in [1 .. NumLevels - 1 -> Nat \ {0}]
  /\ MaxGrandparent \in Nat /\ ExpandedLimit \in Nat
  /\ Scenarios # {} /\ Scenarios \subseteq Scenario

VARIABLES
  scenario,        \* never changes
  lastSequence,    \* versions_->LastSequence()
  mem, imm,        \* entries of mem_ and imm_
  hasImm,          \* imm_ != nullptr
  version,         \* per level: the files of current()
  seekFile,        \* file_to_compact_ and its level, of current()
  compactPointer,  \* per level: compact_pointer_
  snapshots,       \* snapshots_, oldest first
  compaction,      \* the running compaction, or NoCompaction
  bgError,         \* !bg_error_.ok()
  manual,          \* a thread in DBImpl::CompactRange
  manuals          \* bound: calls of CompactRange so far

memVars == <<lastSequence, mem, imm, hasImm>>
manualVars == <<manual, manuals>>
vars == <<scenario, memVars, version, seekFile, compactPointer, snapshots,
          compaction, bgError, manualVars>>

IOErrors == scenario.ioErrors
TargetFileSize == scenario.targetFileSize

-----------------------------------------------------------------------------
(* Internal keys and files.                                                *)

Entry == [key : Keys, seq : 1 .. MaxWrites, type : {"value", "deletion"}]
File == [num : Nat, ents : (SUBSET Entry) \ {{}},
         smallest : Entry, largest : Entry]

(* InternalKeyComparator: by user key, then the newest first.              *)
Before(a, b) == a.key < b.key \/ (a.key = b.key /\ a.seq > b.seq)

(* An internal key to look up, and the empty compact_pointer_, which comes *)
(* before every file.                                                      *)
IKey(k, s) == [key |-> k, seq |-> s]
NoPointer == IKey(0, 0)

MinEntry(E) == CHOOSE e \in E : \A d \in E : d = e \/ Before(e, d)
MaxEntry(E) == CHOOSE e \in E : \A d \in E : d = e \/ Before(d, e)
Smallest(f) == f.smallest
Largest(f) == f.largest

Entries(F) == UNION {f.ents : f \in F}
TotalFileSize(F) == Cardinality(Entries(F))

(* The entries in the order of the merging iterator over their files.      *)
Merged(E) ==
  [i \in 1 .. Cardinality(E) |->
     CHOOSE e \in E : Cardinality({d \in E : Before(d, e)}) = i - 1]

(* Builder's BySmallestKey, the order of Version::files_.                  *)
BySmallestKey(f, g) ==
  \/ Before(Smallest(f), Smallest(g))
  \/ Smallest(f) = Smallest(g) /\ f.num < g.num
FirstFile(F) == CHOOSE f \in F : \A g \in F : g = f \/ BySmallestKey(f, g)
LastFile(F) == CHOOSE f \in F : \A g \in F : g = f \/ BySmallestKey(g, f)

(* The file meets the user keys from b to e; nullptr is NoBegin or NoEnd.  *)
NoBegin == 0
NoEnd == MaxKey + 1
Meets(f, b, e) == Largest(f).key >= b /\ Smallest(f).key <= e

-----------------------------------------------------------------------------
(* Version: finding files.                                                 *)

(* At level 0 a file that reaches out of the range widens it, and the      *)
(* search starts again: the least set closed under that.                   *)
WidenedBy(b, e, S) ==
  {f \in version[0] : Meets(f, Min({b} \cup {Smallest(g).key : g \in S}),
                               Max({e} \cup {Largest(g).key : g \in S}))}
GetOverlappingInputs(l, b, e) ==
  LET closed == {S \in SUBSET version[0] : WidenedBy(b, e, S) \subseteq S}
  IN IF l > 0 THEN {f \in version[l] : Meets(f, b, e)}
     ELSE {f \in version[0] : \A S \in closed : f \in S}

(* The file, if any, of a sorted level that FindFile's search ends at: the *)
(* first whose largest key is not before the internal key.                 *)
FindFile_Strict(l, ik) ==   \* mutant: an equal largest key is passed over
  LET after == {f \in version[l] : Before(ik, Largest(f))}
  IN IF after = {} THEN {} ELSE {FirstFile(after)}

FindFile(l, ik) ==
  LET after == {f \in version[l] : ~Before(Largest(f), ik)}
  IN IF after = {} THEN {} ELSE {FirstFile(after)}

OverlapInLevel(l, b, e) ==
  IF l = 0 THEN \E f \in version[0] : Meets(f, b, e)
  ELSE \E f \in FindFile(l, IKey(b, MaxWrites + 1)) : Smallest(f).key <= e

(* The files a lookup examines: at level 0 all that reach over the key,    *)
(* then at most one file of each level; and the order it does that in,     *)
(* level 0 newest first.                                                   *)
Overlapping(k, s) ==
  LET at(l) == IF l = 0 THEN {f \in version[0] : Meets(f, k, k)}
               ELSE {f \in FindFile(l, IKey(k, s)) : Smallest(f).key <= k}
  IN UNION {{[level |-> l, file |-> f] : f \in at(l)} : l \in Levels}

NewestFirst(p, q) ==
  p.level < q.level \/ (p.level = q.level /\ p.file.num > q.file.num)
FirstOf(P) == CHOOSE p \in P : \A q \in P : q = p \/ NewestFirst(p, q)

-----------------------------------------------------------------------------
(* Get, and what an iterator over all the tables shows.                    *)

Visible(E, k, s) == {e \in E : e.key = k /\ e.seq <= s}
NotFound == 0
ValueOf(e) == IF e.type = "deletion" THEN NotFound ELSE e.seq

(* mem_, imm_ if any, then the files in order; the first table that has an *)
(* entry of the key at or before the snapshot answers.                     *)
Get(k, s) ==
  LET Hit(E) == Visible(E, k, s) # {}
      Answer(E) == ValueOf(MinEntry(Visible(E, k, s)))
      hits == {p \in Overlapping(k, s) : Hit(p.file.ents)}
  IN IF Hit(mem) THEN Answer(mem)
     ELSE IF Hit(imm) THEN Answer(imm)
     ELSE IF hits # {} THEN Answer(FirstOf(hits).file.ents)
     ELSE NotFound

AllEntries == mem \cup imm \cup UNION {Entries(version[l]) : l \in Levels}

(* DBIter over NewInternalIterator: the newest visible entry of the key.   *)
IterValue(k, s) ==
  LET seen == Visible(AllEntries, k, s)
  IN IF seen = {} THEN NotFound ELSE ValueOf(MinEntry(seen))

-----------------------------------------------------------------------------
(* Writers and snapshots.                                                  *)

NoCompaction == [running |-> FALSE]
NoManual == [pc |-> "idle"]

Init ==
  /\ scenario \in Scenarios
  /\ lastSequence = 0
  /\ mem = {} /\ imm = {} /\ hasImm = FALSE
  /\ version = [l \in Levels |-> {}]
  /\ seekFile = {}
  /\ compactPointer = [l \in Levels |-> NoPointer]
  /\ snapshots = <<>>
  /\ compaction = NoCompaction
  /\ bgError = FALSE
  /\ manual = NoManual
  /\ manuals = 0

(* After an error of the background thread MakeRoomForWrite refuses.       *)
Write(k, t) ==
  /\ lastSequence < scenario.writes /\ ~bgError
  /\ t = "deletion" => lastSequence + 1 \in scenario.deletions
  /\ lastSequence' = lastSequence + 1
  /\ mem' = mem \cup {[key |-> k, seq |-> lastSequence', type |-> t]}
  /\ UNCHANGED <<imm, hasImm, version, seekFile, compactPointer, snapshots,
                 compaction, bgError, manualVars>>

(* mem_ becomes the new imm_, once the last one is flushed and level 0 is  *)
(* not too full.  A failure to close the old log does not stop the switch. *)
SwitchMemTable ==
  /\ ~hasImm /\ ~bgError /\ Cardinality(version[0]) < L0Stop
  /\ imm' = mem /\ mem' = {} /\ hasImm' = TRUE
  /\ bgError' \in {FALSE, IOErrors}
  /\ UNCHANGED <<lastSequence, version, seekFile, compactPointer, snapshots,
                 compaction, manuals>>

(* A write finds mem_ full; how much fills it is left open.                *)
MakeRoomForWrite ==
  /\ mem # {}
  /\ SwitchMemTable
  /\ UNCHANGED manual

GetSnapshot ==
  /\ Len(snapshots) < scenario.snapshots
  /\ snapshots' = Append(snapshots, lastSequence)
  /\ UNCHANGED <<memVars, version, seekFile, compactPointer, compaction,
                 bgError, manualVars>>

ReleaseSnapshot ==
  /\ \E i \in DOMAIN snapshots : snapshots' = RemoveAt(snapshots, i)
  /\ UNCHANGED <<memVars, version, seekFile, compactPointer, compaction,
                 bgError, manualVars>>

(* A lookup that examines two files charges the first; the last allowed    *)
(* seek of a file makes it file_to_compact_ of its Version, once.          *)
UpdateStats(k, s) ==
  LET files == Overlapping(k, s)
  IN /\ scenario.seeks /\ seekFile = {} /\ Cardinality(files) >= 2
     /\ seekFile' = {FirstOf(files)}
     /\ UNCHANGED <<memVars, version, compactPointer, snapshots, compaction,
                    bgError, manualVars>>

-----------------------------------------------------------------------------
(* Flushing imm_: CompactMemTable, called by BackgroundCompaction or by a  *)
(* running DoCompactionWork.                                               *)

(* The deepest level down to which nothing overlaps the table, as long as  *)
(* the level below that has little that does.                              *)
PickLevelForMemTableOutput(b, e) ==
  LET Descends(l) ==   \* one turn of the loop, at level l
        /\ ~OverlapInLevel(l + 1, b, e)
        /\ l + 2 < NumLevels =>
             TotalFileSize(GetOverlappingInputs(l + 2, b, e))
               <= MaxGrandparent
  IN IF OverlapInLevel(0, b, e) THEN 0
     ELSE Max({l \in 0 .. MaxMemCompactLevel :
                 \A m \in 0 .. l - 1 : Descends(m)})

NewFileNumber == 1 + Max({0} \cup {f.num : f \in version[0]})

NewTable(l, E) ==
  [num |-> IF l = 0 THEN NewFileNumber ELSE 0, ents |-> E,
   smallest |-> MinEntry(E), largest |-> MaxEntry(E)]

(* VersionSet::LogAndApply: every new Version starts with no file charged  *)
(* for seeks.                                                              *)
LogAndApply_KeepSeek(v) == version' = v /\ UNCHANGED seekFile   \* mutant

LogAndApply(v) == version' = v /\ seekFile' = {}

(* An empty imm_ (a forced switch of an empty mem_) makes no file.         *)
CompactMemTable ==
  LET b == MinEntry(imm).key
      e == MaxEntry(imm).key
      l == PickLevelForMemTableOutput(b, e)
  IN /\ hasImm /\ (~bgError \/ compaction.running)
     /\ \/ /\ LogAndApply(IF imm = {} THEN version
                          ELSE [version EXCEPT ![l] =
                                  @ \cup {NewTable(l, imm)}])
           /\ imm' = {} /\ hasImm' = FALSE
           /\ UNCHANGED bgError
        \/ /\ IOErrors
           /\ bgError' = TRUE
           /\ UNCHANGED <<version, seekFile, imm, hasImm>>
     /\ UNCHANGED <<lastSequence, mem, compactPointer, snapshots, compaction,
                    manualVars>>

-----------------------------------------------------------------------------
(* Which files a compaction takes.                                         *)

(* VersionSet::Finalize: the first level with the highest score, and       *)
(* whether its score is at least 1.  A score is a fraction.                *)
Used(l) == IF l = 0 THEN Cardinality(version[0])
           ELSE TotalFileSize(version[l])
Allowed(l) == IF l = 0 THEN L0Trigger ELSE MaxBytes[l]
CompactionLevel ==
  CHOOSE l \in 0 .. NumLevels - 2 :
    /\ \A m \in 0 .. NumLevels - 2 : Used(l) * Allowed(m) >= Used(m) * Allowed(l)
    /\ \A m \in 0 .. l - 1 : Used(l) * Allowed(m) > Used(m) * Allowed(l)
SizeCompaction == Used(CompactionLevel) >= Allowed(CompactionLevel)
NeedsCompaction_SeekOnly == seekFile # {}   \* mutant: no look at the score
NeedsCompaction == SizeCompaction \/ seekFile # {}

RangeOf(F) == [b |-> MinEntry(Entries(F)).key, e |-> MaxEntry(Entries(F)).key]

(* Files of the level that start with the user key the files end with are  *)
(* added, one after the other.                                             *)
AddBoundaryInputs_None(l, F) == F   \* mutant: no boundary files

Boundary(l, ik) ==
  {f \in version[l] : Smallest(f).key = ik.key /\ Before(ik, Smallest(f))}
AddBoundaryFile(l, c) ==   \* one turn of the loop
  LET more == Boundary(l, c.largest)
  IN IF more = {} THEN c
     ELSE [files   |-> c.files \cup {FirstFile(more)},
           largest |-> Largest(FirstFile(more))]
AddBoundaryInputs(l, F) ==
  LET chain[n \in 0 .. Cardinality(version[l])] ==
        IF n = 0 THEN [files |-> F, largest |-> MaxEntry(Entries(F))]
        ELSE AddBoundaryFile(l, chain[n - 1])
  IN IF F = {} THEN {} ELSE chain[Cardinality(version[l])].files

(* The files of level l + 1 that files of level l are merged with.         *)
NextInputs_OpenBegin(l, in0) ==   \* mutant: the first key is left out
  LET r == RangeOf(in0)
  IN AddBoundaryInputs(l + 1, GetOverlappingInputs(l + 1, r.b + 1, r.e))

NextInputs(l, in0) ==
  LET r == RangeOf(in0)
  IN AddBoundaryInputs(l + 1, GetOverlappingInputs(l + 1, r.b, r.e))

(* SetupOtherInputs: the inputs of both levels and the grandparents.       *)
(* Level l is expanded if that takes no more files of level l + 1.         *)
Inputs(l, in0, in1) ==
  LET r == RangeOf(in0 \cup in1)
  IN [in0 |-> in0, in1 |-> in1,
      grandparents |-> IF l + 2 < NumLevels
                       THEN GetOverlappingInputs(l + 2, r.b, r.e) ELSE {}]

CanExpand(in0, in1, exp0, exp1) ==
  /\ Cardinality(exp0) > Cardinality(in0)
  /\ TotalFileSize(in1) + TotalFileSize(exp0) < ExpandedLimit
  /\ Cardinality(exp1) = Cardinality(in1)

ExpandTo(l, in0, in1, exp0, exp1) ==
  IF CanExpand(in0, in1, exp0, exp1) THEN Inputs(l, exp0, exp1)
  ELSE Inputs(l, in0, in1)

Expansion(l, in0, in1, exp0) == ExpandTo(l, in0, in1, exp0, NextInputs(l, exp0))

WithNextLevel(l, in0, in1) ==
  LET all == RangeOf(in0 \cup in1)
  IN IF in1 = {} THEN Inputs(l, in0, in1)
     ELSE Expansion(l, in0, in1,
            AddBoundaryInputs(l, GetOverlappingInputs(l, all.b, all.e)))

SetupOtherInputs(l, picked) ==
  LET in0 == AddBoundaryInputs(l, picked)
  IN WithNextLevel(l, in0, NextInputs(l, in0))

(* The file PickCompaction starts from: for size, the first after          *)
(* compact_pointer_, or the first of all.                                  *)
SizeStart(l) ==
  LET after == {f \in version[l] : Before(compactPointer[l], Largest(f))}
  IN FirstFile(IF after = {} THEN version[l] ELSE after)

PickStart ==
  IF SizeCompaction
  THEN [level |-> CompactionLevel, file |-> SizeStart(CompactionLevel)]
  ELSE CHOOSE p \in seekFile : TRUE

PickedFiles(p) ==
  IF p.level > 0 THEN {p.file}
  ELSE GetOverlappingInputs(0, Smallest(p.file).key, Largest(p.file).key)

(* What CompactRange takes of a large range of a level above 0: files up   *)
(* to and including the one that reaches the size of one output file.      *)
ManualFiles(l, b, e) ==
  LET in == GetOverlappingInputs(l, b, e)
      sizeBefore(f) == TotalFileSize({g \in in : BySmallestKey(g, f)})
  IN IF l = 0 THEN in ELSE {f \in in : sizeBefore(f) < TargetFileSize}

SmallestSnapshot_Ignored == lastSequence   \* mutant: snapshots not looked at

SmallestSnapshot == IF snapshots = <<>> THEN lastSequence ELSE snapshots[1]

(* A compaction of these inputs, once DoCompactionWork has looked at the   *)
(* snapshots and given up the mutex.                                       *)
Started(l, c, isManual) ==
  [running |-> TRUE, level |-> l, in0 |-> c.in0, in1 |-> c.in1,
   grandparents |-> c.grandparents, base |-> version,
   smallestSnapshot |-> SmallestSnapshot, manual |-> isManual]

IsTrivialMove(c) ==
  /\ Cardinality(c.in0) = 1 /\ c.in1 = {}
  /\ TotalFileSize(c.grandparents) <= MaxGrandparent

-----------------------------------------------------------------------------
(* What a compaction keeps (DoCompactionWork's loop).                      *)

(* No deeper level of the input version may hold the key.                  *)
IsBaseLevelForKey(c, k) ==
  \A l \in c.level + 2 .. NumLevels - 1 :
    \A f \in c.base[l] : ~Meets(f, k, k)

(* ShouldStopBefore: grandparents that end before the entry have been      *)
(* passed; those passed since the current output began count against it.   *)
ShouldStopBefore(c, st, e) ==
  LET passed == {g \in c.grandparents : Before(Largest(g), e)}
      bytes == IF st.seen THEN st.bytes + TotalFileSize(passed \ st.passed)
               ELSE st.bytes
      stop == bytes > MaxGrandparent
  IN [stop |-> stop, passed |-> passed, bytes |-> IF stop THEN 0 ELSE bytes]

(* An older entry than the previous one of its key, when the oldest        *)
(* snapshot sees that one, or a deletion with nothing below to hide.       *)
Drop(c, st, e) ==
  \/ st.key = e.key /\ st.seq <= c.smallestSnapshot
  \/ /\ e.type = "deletion" /\ e.seq <= c.smallestSnapshot
     /\ IsBaseLevelForKey(c, e.key)

(* One turn of the loop.  open is the output being built.                  *)
MergeStep(c, st, e) ==
  LET s == ShouldStopBefore(c, st, e)
      close == s.stop /\ st.open # {}
      out1 == IF close THEN st.outs \cup {st.open} ELSE st.outs
      open1 == (IF close THEN {} ELSE st.open)
                 \cup (IF Drop(c, st, e) THEN {} ELSE {e})
      full == ~Drop(c, st, e) /\ Cardinality(open1) >= TargetFileSize
  IN [outs |-> IF full THEN out1 \cup {open1} ELSE out1,
      open |-> IF full THEN {} ELSE open1,
      key |-> e.key, seq |-> e.seq,
      seen |-> TRUE, passed |-> s.passed, bytes |-> s.bytes]

MergeStart ==
  [outs |-> {}, open |-> {}, key |-> 0, seq |-> 0,
   seen |-> FALSE, passed |-> {}, bytes |-> 0]
CompactionEnd(c) ==   \* the state after the last turn
  LET input == Merged(Entries(c.in0 \cup c.in1))
      after[n \in 0 .. Len(input)] ==
        IF n = 0 THEN MergeStart ELSE MergeStep(c, after[n - 1], input[n])
  IN after[Len(input)]

Outputs(c) ==
  LET end == CompactionEnd(c)
  IN {NewTable(c.level + 1, E) : E \in (end.outs \cup {end.open}) \ {{}}}

InstallCompactionResults(c) ==
  LogAndApply([version EXCEPT
                 ![c.level] = @ \ c.in0,
                 ![c.level + 1] = (@ \ c.in1) \cup Outputs(c)])

MoveFile(c, l) ==
  LET f == CHOOSE f \in c.in0 : TRUE
  IN LogAndApply([version EXCEPT ![l] = @ \ {f},
                                 ![l + 1] = @ \cup {[f EXCEPT !.num = 0]}])

-----------------------------------------------------------------------------
(* The background thread.                                                  *)

Idle == ~compaction.running /\ ~hasImm /\ ~bgError

ManualPosted == manual.pc = "level" /\ manual.posted

SetCompactPointer(l, c) ==
  LET e == MaxEntry(Entries(c.in0))
  IN compactPointer' = [compactPointer EXCEPT ![l] = IKey(e.key, e.seq)]

(* Inputs c of level l: move the only file down, or start to merge.        *)
RunCompaction(l, c) ==
  /\ SetCompactPointer(l, c)
  /\ \/ /\ IsTrivialMove(c)
        /\ MoveFile(c, l)
        /\ UNCHANGED <<compaction, bgError>>
     \/ /\ IsTrivialMove(c) /\ IOErrors
        /\ bgError' = TRUE
        /\ UNCHANGED <<version, seekFile, compaction>>
     \/ /\ ~IsTrivialMove(c)
        /\ compaction' = Started(l, c, FALSE)
        /\ UNCHANGED <<version, seekFile, bgError>>

StartFrom(p) ==
  RunCompaction(p.level, SetupOtherInputs(p.level, PickedFiles(p)))

BackgroundCompaction ==
  /\ Idle /\ ~ManualPosted /\ NeedsCompaction
  /\ StartFrom(PickStart)
  /\ UNCHANGED <<memVars, snapshots, manualVars>>

(* The same for the thread in CompactRange, never by a move; without files *)
(* its request is done.                                                    *)
RunManual(l, c) ==
  /\ SetCompactPointer(l, c)
  /\ compaction' = Started(l, c, TRUE)
  /\ UNCHANGED manual

StartManual(l, picked) ==
  \/ /\ picked = {}
     /\ manual' = [manual EXCEPT !.done = TRUE, !.posted = FALSE]
     /\ UNCHANGED <<compactPointer, compaction>>
  \/ /\ picked # {}
     /\ RunManual(l, SetupOtherInputs(l, picked))

ManualCompaction ==
  /\ Idle /\ ManualPosted
  /\ StartManual(manual.level,
                 ManualFiles(manual.level, manual.cur, manual.end))
  /\ UNCHANGED <<memVars, version, seekFile, snapshots, bgError, manuals>>

(* DoCompactionWork ends.  A manual compaction goes on behind the last of  *)
(* its input files, or is over if this one failed.                         *)
DoCompactionWork ==
  LET c == compaction
      ManualTurn(ok) ==
        manual' = IF ~c.manual THEN manual
                  ELSE IF ok THEN [manual EXCEPT !.posted = FALSE,
                                     !.cur = Largest(LastFile(c.in0)).key]
                  ELSE [manual EXCEPT !.posted = FALSE, !.done = TRUE]
  IN /\ c.running
     /\ compaction' = NoCompaction
     /\ \/ /\ InstallCompactionResults(c)
           /\ ManualTurn(TRUE)
           /\ UNCHANGED bgError
        \/ /\ IOErrors
           /\ bgError' = TRUE
           /\ ManualTurn(FALSE)
           /\ UNCHANGED <<version, seekFile>>
     /\ UNCHANGED <<memVars, compactPointer, snapshots, manuals>>

-----------------------------------------------------------------------------
(* A thread in DBImpl::CompactRange: how deep the range reaches, then the  *)
(* memtable, then each level in turn.                                      *)

Manual(m) ==
  /\ manual' = m
  /\ UNCHANGED <<memVars, version, seekFile, compactPointer, snapshots,
                 compaction, bgError>>

CompactRange(b, e) ==
  /\ manual.pc = "idle" /\ manuals < scenario.manuals
  /\ manuals' = manuals + 1
  /\ Manual([pc |-> "mem", level |-> 0, begin |-> b, end |-> e, cur |-> b,
             posted |-> FALSE, done |-> FALSE,
             max |-> Max({1} \cup {l \in 1 .. NumLevels - 1 :
                                     OverlapInLevel(l, b, e)})])

(* TEST_CompactMemTable: Write(nullptr) forces a switch, unless another    *)
(* writer's group absorbs it (BuildBatchGroup): then it does nothing.      *)
ManualSwitch ==
  /\ manual.pc = "mem"
  /\ \/ /\ SwitchMemTable
        /\ manual' = [manual EXCEPT !.pc = "wait"]
     \/ /\ ~bgError /\ lastSequence > 0
        /\ Manual([manual EXCEPT !.pc = "wait"])
        /\ UNCHANGED manuals
     \/ /\ bgError
        /\ Manual([manual EXCEPT !.pc = "level"])
        /\ UNCHANGED manuals

ManualWait ==
  /\ manual.pc = "wait" /\ (~hasImm \/ bgError)
  /\ Manual([manual EXCEPT !.pc = "level"])
  /\ UNCHANGED manuals

(* TEST_CompactRange(level): post the request again until it is done.      *)
ManualPost_Once ==   \* mutant: the request is not posted again
  /\ manual.pc = "level" /\ ~manual.posted /\ ~manual.done /\ ~bgError
  /\ manual.cur = manual.begin
  /\ Manual([manual EXCEPT !.posted = TRUE])
  /\ UNCHANGED manuals

ManualPost ==
  /\ manual.pc = "level" /\ ~manual.posted /\ ~manual.done /\ ~bgError
  /\ Manual([manual EXCEPT !.posted = TRUE])
  /\ UNCHANGED manuals

(* A call that an error ends while the background thread works on its      *)
(* request leaves that thread a null pointer (module ManualCompaction);    *)
(* here it waits for the compaction.                                       *)
ManualNextLevel ==
  /\ manual.pc = "level" /\ (manual.done \/ bgError)
  /\ ~(compaction.running /\ compaction.manual)
  /\ Manual(IF manual.level + 1 < manual.max
            THEN [manual EXCEPT !.level = @ + 1, !.cur = manual.begin,
                                !.posted = FALSE, !.done = FALSE]
            ELSE NoManual)
  /\ UNCHANGED manuals

-----------------------------------------------------------------------------
Step ==
  \/ \E k \in Keys, t \in {"value", "deletion"} : Write(k, t)
  \/ MakeRoomForWrite
  \/ GetSnapshot
  \/ ReleaseSnapshot
  \/ \E k \in Keys, s \in 0 .. lastSequence : UpdateStats(k, s)
  \/ CompactMemTable
  \/ BackgroundCompaction
  \/ ManualCompaction
  \/ DoCompactionWork
  \/ \E r \in scenario.ranges : CompactRange(r.begin, r.end)
  \/ ManualSwitch
  \/ ManualWait
  \/ ManualPost
  \/ ManualNextLevel

Next == Step /\ UNCHANGED scenario

Spec == Init /\ [][Next]_vars

(* MaybeScheduleCompaction is called whenever work appears and at the end  *)
(* of every BackgroundCall, so the background thread goes on while there   *)
(* is work; a thread in CompactRange goes on when it can.  This is weak    *)
(* fairness, with what enables the background thread written out.          *)
Background ==
  CompactMemTable \/ BackgroundCompaction \/ ManualCompaction \/ DoCompactionWork
BackgroundHasWork ==
  \/ compaction.running
  \/ ~bgError /\ (hasImm \/ ManualPosted \/ NeedsCompaction)
Fairness ==
  /\ []<>(~BackgroundHasWork) \/ []<><<Background>>_vars
  /\ WF_vars(ManualSwitch /\ UNCHANGED scenario)
  /\ WF_vars(ManualWait /\ UNCHANGED scenario)
  /\ WF_vars(ManualPost /\ UNCHANGED scenario)
  /\ WF_vars(ManualNextLevel /\ UNCHANGED scenario)

FairSpec == Spec /\ Fairness

-----------------------------------------------------------------------------
(* Properties.                                                             *)

CompactionType ==
  [running : {TRUE}, level : 0 .. NumLevels - 2, in0 : SUBSET File,
   in1 : SUBSET File, grandparents : SUBSET File,
   base : [Levels -> SUBSET File], smallestSnapshot : 0 .. MaxWrites,
   manual : BOOLEAN]
ManualType ==
  [pc : {"mem", "wait", "level"}, level : 0 .. NumLevels - 2,
   begin : 0 .. MaxKey, end : 1 .. MaxKey + 1, cur : 0 .. MaxKey,
   posted : BOOLEAN, done : BOOLEAN, max : 1 .. NumLevels - 1]

(* Every variable has its type: files are never empty, and a compaction    *)
(* never starts at the last level (the assertions of PickCompaction and    *)
(* TEST_CompactRange).                                                     *)
TypeOK ==
  /\ lastSequence \in 0 .. MaxWrites
  /\ mem \subseteq Entry /\ imm \subseteq Entry
  /\ hasImm \in BOOLEAN /\ bgError \in BOOLEAN
  /\ version \in [Levels -> SUBSET File]
  /\ seekFile \subseteq [level : 0 .. NumLevels - 2, file : File]
  /\ compactPointer \in [Levels -> [key : 0 .. MaxKey, seq : 0 .. MaxWrites]]
  /\ snapshots \in Seq(0 .. MaxWrites)
  /\ compaction \in {NoCompaction} \cup CompactionType
  /\ manual \in {NoManual} \cup ManualType
  /\ manuals \in Nat /\ scenario \in Scenarios

(* The assertion of VersionSet::Builder ("Must not overlap") about every   *)
(* Version it makes: in the levels from 1 on, files do not overlap.        *)
LevelsDisjoint ==
  \A l \in 1 .. NumLevels - 1 : \A f, g \in version[l] :
    f = g \/ Before(Largest(f), Smallest(g)) \/ Before(Largest(g), Smallest(f))

(* What lets Version::Get stop at the first table that has the key: of two *)
(* entries of a key in different places, the one Get reaches first is the  *)
(* newer.  The files of level 0 are reached from the highest number down.  *)
NewerAbove ==
  LET Newer(E, D) == \A e \in E, d \in D : e.key = d.key => e.seq > d.seq
  IN /\ Newer(imm, UNION {Entries(version[l]) : l \in Levels})
     /\ \A f, g \in version[0] : f.num > g.num => Newer(f.ents, g.ents)
     /\ \A l, m \in Levels :
          l < m => Newer(Entries(version[l]), Entries(version[m]))

(* Get and an iterator agree on every key at every sequence number still   *)
(* in use, whatever files the compactions have left: Get looks at one file *)
(* of each level, an iterator merges all of them.                          *)
GetMatchesIterator ==
  \A k \in Keys, s \in {lastSequence} \cup Range(snapshots) :
    Get(k, s) = IterValue(k, s)

(* The inputs of the running compaction stay in the current version until  *)
(* its results replace them, although memtables are flushed meanwhile, and *)
(* no file charged for seeks has left its level.                           *)
InputsInVersion ==
  /\ compaction.running =>
       /\ compaction.in0 \subseteq version[compaction.level]
       /\ compaction.in1 \subseteq version[compaction.level + 1]
  /\ \A p \in seekFile : p.file \in version[p.level]

(* The database implements the mapping with snapshots of KVStore: a write  *)
(* changes what Get returns for its key only, flushes and compactions      *)
(* change nothing a caller can see, now or through a snapshot.             *)
Store == [k \in Keys |-> Get(k, lastSequence)]
Views ==
  [i \in DOMAIN snapshots |-> [k \in Keys |-> Get(k, snapshots[i])]]
KV == INSTANCE KVStore WITH
        writes <- lastSequence, store <- Store, views <- Views
KVSpec == KV!Spec

(* Unless an error has stopped it, the background thread always gets to a  *)
(* version in which no level is over its limit and no memtable waits:      *)
(* compactions do not chase each other around the levels for ever.         *)
CompactionSettles ==
  []<>(bgError \/ (~compaction.running /\ ~hasImm /\ ~SizeCompaction))

(* Every call of CompactRange returns, although it posts its request again *)
(* after every compaction and others run in between.                       *)
ManualEnds == manual.pc # "idle" ~> manual.pc = "idle"
=============================================================================
