----------------------------- MODULE Iterators ------------------------------
(***************************************************************************)
(* An iterator of the database: DBIter (db/db_iter.cc) over a              *)
(* MergingIterator (table/merger.cc) over an iterator of the memtable and  *)
(* TwoLevelIterators of tables (module Tables), with writers adding to the *)
(* memtable while it moves.                                                *)
(*                                                                         *)
(* A step of the model is one move of the merging iterator and what DBIter *)
(* does until the next one.  Where the merging iterator turns around, its  *)
(* Seek of the other children and its move from there are two steps, as an *)
(* entry added between them changes what the memtable answers.  That the   *)
(* memtable's iterator answers exactly at every step is what SkipList      *)
(* shows.                                                                  *)
(***************************************************************************)
EXTENDS Tables

CONSTANTS
  Scenarios,  \* [mem, runs, damage, checks, snapshot]: the internal keys in
              \* the memtable when the iterator is made, the sorted keys of
              \* each table, what is damaged, paranoid_checks and
              \* verify_checksums, and the iterator's sequence number
  SeekKeys,   \* user keys to seek
  LaterWrites \* entries that may be added to the memtable meanwhile

VARIABLES
  mem,        \* internal keys in the memtable
  tables,     \* the tables, a sequence
  written,    \* the keys each table was built from
  sequence,   \* sequence_ of the DBIter
  memAt,      \* the memtable's iterator: a key, or Null
  tabAt,      \* the tables' iterators
  current,    \* current_ of the MergingIterator: a child, or None
  mdirection, \* its direction_
  direction,  \* direction_ of the DBIter
  valid,      \* valid_
  savedKey,   \* saved_key_
  savedValue, \* saved_value_
  parsed,     \* status_ is OK: no internal key that does not parse was met
  valueType,  \* value_type of FindPrevUserEntry
  skipping,   \* skipping of FindNextUserEntry
  pc,         \* where the call is
  contents,   \* what the snapshot held when the iterator was made
  call,       \* the call, for Cursor
  at          \* the entry the last call to return left the iterator at

base == <<tables, written, sequence, contents>>
children == <<memAt, tabAt>>
merging == <<children, current, mdirection>>
dbiter == <<direction, valid, savedKey, savedValue, parsed, valueType, skipping>>
vars == <<mem, base, merging, dbiter, pc, call, at>>

Null == <<>>

-----------------------------------------------------------------------------
(* Internal keys: PackSequenceAndType, ParseInternalKey, and entries.      *)

kTypeDeletion == 0
kTypeValue == 1
PackSequenceAndType(s, t) == s * 256 + t
Sequence(k) == Tag(k) \div 256
Type(k) == Tag(k) % 256

(* ParseInternalKey accepts no type but the two.                           *)
Parses(k) == Type(k) <= kTypeValue

(* The value of an entry stands for the write that made it.                *)
ValueOf(k) == Sequence(k)
Entry(k) == [key |-> k, val |-> ValueOf(k)]

-----------------------------------------------------------------------------
(* The children: 0 is the memtable, i the i-th table.                      *)

Children == 0 .. Len(tables)

FirstKey(S) == IF S = {} THEN Null
               ELSE CHOOSE k \in S : \A j \in S : j = k \/ Less(k, j)
LastKey(S) == IF S = {} THEN Null
              ELSE CHOOSE k \in S : \A j \in S : j = k \/ Less(j, k)

ChildValid(i, m, t) == IF i = 0 THEN m # Null ELSE TableValid(tables[i], t[i])
ChildKey(i, m, t) == IF i = 0 THEN m ELSE TableKey(t[i])

(* MergingIterator::FindSmallest and FindLargest: the first child with the *)
(* least key, the last child with the greatest.                            *)
FindSmallest(m, t) ==
  LET V == {i \in Children : ChildValid(i, m, t)}
  IN IF V = {} THEN None
     ELSE CHOOSE i \in V : \A j \in V :
            /\ ~Less(ChildKey(j, m, t), ChildKey(i, m, t))
            /\ j < i => Less(ChildKey(i, m, t), ChildKey(j, m, t))

FindLargest(m, t) ==
  LET V == {i \in Children : ChildValid(i, m, t)}
  IN IF V = {} THEN None
     ELSE CHOOSE i \in V : \A j \in V :
            /\ ~Less(ChildKey(i, m, t), ChildKey(j, m, t))
            /\ j > i => Less(ChildKey(j, m, t), ChildKey(i, m, t))

(* Where all children go, and which one the merging iterator is at then.   *)
MemSeek(k) == FirstKey({j \in mem : ~Less(j, k)})
MemNext(k) == FirstKey({j \in mem : Less(k, j)})
MemPrev(k) == LastKey({j \in mem : Less(j, k)})

Positioned(m, t, dir) ==
  /\ memAt' = m /\ tabAt' = t
  /\ mdirection' = dir
  /\ current' = IF dir = "forward" THEN FindSmallest(m, t) ELSE FindLargest(m, t)

MergingSeek(k) ==
  Positioned(MemSeek(k), [i \in DOMAIN tables |-> TableSeek(tables[i], tabAt[i], k)],
             "forward")

MergingSeekToFirst ==
  Positioned(FirstKey(mem),
             [i \in DOMAIN tables |-> TableSeekToFirst(tables[i], tabAt[i])],
             "forward")

MergingSeekToLast ==
  Positioned(LastKey(mem),
             [i \in DOMAIN tables |-> TableSeekToLast(tables[i], tabAt[i])],
             "reverse")

(* The key and the value the merging iterator is at, in a given state.     *)
InnerValid == current # None
InnerKey == IF current = 0 THEN memAt ELSE TableKey(tabAt[current])
InnerValue == IF current = 0 THEN ValueOf(memAt) ELSE TableValue(tabAt[current])

(* Next and Prev in the direction it moves already: current_ moves.        *)
MergingNext ==
  Positioned(IF current = 0 THEN MemNext(memAt) ELSE memAt,
             [i \in DOMAIN tables |->
                IF i = current THEN TableNext(tables[i], tabAt[i]) ELSE tabAt[i]],
             "forward")

MergingPrev ==
  Positioned(IF current = 0 THEN MemPrev(memAt) ELSE memAt,
             [i \in DOMAIN tables |->
                IF i = current THEN TablePrev(tables[i], tabAt[i]) ELSE tabAt[i]],
             "reverse")

(* Turning around, first half: the other children seek the current key.    *)
MergingTurn ==
  /\ memAt' = IF current = 0 THEN memAt ELSE MemSeek(InnerKey)
  /\ tabAt' = [i \in DOMAIN tables |->
                 IF i = current THEN tabAt[i]
                 ELSE TableSeek(tables[i], tabAt[i], InnerKey)]
  /\ UNCHANGED <<current, mdirection>>

(* Second half: they step off the key, and current_ moves.                 *)
MergingNextTurned ==
  LET key == InnerKey
  IN Positioned(
       IF current = 0 \/ memAt = key THEN MemNext(memAt) ELSE memAt,
       [i \in DOMAIN tables |->
          IF \/ i = current
             \/ TableValid(tables[i], tabAt[i]) /\ TableKey(tabAt[i]) = key
          THEN TableNext(tables[i], tabAt[i]) ELSE tabAt[i]],
       "forward")

(* mutant: a child with nothing at or after the key is left where it is.   *)
MergingPrevTurned_NoLast ==
  Positioned(
    IF memAt # Null THEN MemPrev(memAt) ELSE memAt,
    [i \in DOMAIN tables |->
       IF TableValid(tables[i], tabAt[i])
       THEN TablePrev(tables[i], tabAt[i]) ELSE tabAt[i]],
    "reverse")

MergingPrevTurned ==
  Positioned(
    IF memAt # Null THEN MemPrev(memAt) ELSE LastKey(mem),
    [i \in DOMAIN tables |->
       IF TableValid(tables[i], tabAt[i])
       THEN TablePrev(tables[i], tabAt[i])
       ELSE TableSeekToLast(tables[i], tabAt[i])],
    "reverse")

-----------------------------------------------------------------------------
(* damage is [table, part, block, entry, fault]: of the table so numbered  *)
(* (0: of none) the footer, the metaindex block, the filter block, the     *)
(* index block or a data block, with its fault and, unless entry is 0, one *)
(* entry that does not decode.  Wrong bytes that decode to something else  *)
(* are told by nothing but the checksum: nothing is promised of them.      *)
DamagedBlock(b, d) ==
  [b EXCEPT !.fault = d.fault,
            !.ents = IF d.entry = 0 THEN @
                     ELSE [@ EXCEPT ![d.entry].shared = None]]

Damaged(t, d) ==
  CASE d.part = "footer" -> [t EXCEPT !.footer.fault = d.fault]
    [] d.part = "meta"   -> [t EXCEPT !.meta.fault = d.fault]
    [] d.part = "filter" -> [t EXCEPT !.filter.fault = d.fault]
    [] d.part = "index"  -> [t EXCEPT !.index = DamagedBlock(@, d)]
    [] d.part = "data"   -> [t EXCEPT !.file[d.block].block = DamagedBlock(@, d)]

(* The tables of a scenario, written, damaged and opened.                  *)
OpenTables(s) ==
  LET Written(i) == BuildTable([j \in DOMAIN s.runs[i] |-> Entry(s.runs[i][j])])
  IN [i \in DOMAIN s.runs |->
        TableOpen(IF s.damage.table = i THEN Damaged(Written(i), s.damage) ELSE Written(i),
                  s.checks.paranoid, s.checks.verify)]

(* What the snapshot holds: for each user key the newest entry at or below *)
(* its sequence, unless that is a deletion.                               *)
Contents(keys, snapshot) ==
  LET Seen == {k \in keys : Parses(k) /\ Sequence(k) <= snapshot}
      Newest == {k \in Seen : \A j \in Seen :
                   ExtractUserKey(j) = ExtractUserKey(k) => Sequence(j) <= Sequence(k)}
  IN {[key |-> ExtractUserKey(k), val |-> ValueOf(k)] :
        k \in {j \in Newest : Type(j) = kTypeValue}}

Init ==
  /\ \E s \in Scenarios :
       /\ mem = s.mem /\ sequence = s.snapshot
       /\ tables = OpenTables(s)
       /\ written = [i \in DOMAIN s.runs |->
                       {s.runs[i][j] : j \in DOMAIN s.runs[i]}]
  /\ tabAt = [i \in DOMAIN tables |-> NewTwoLevel(tables[i])]
  /\ contents = Contents(mem \cup UNION {written[i] : i \in DOMAIN written},
                         sequence)
  /\ memAt = Null
  /\ current = None /\ mdirection = "forward"
  /\ direction = "forward" /\ valid = FALSE
  /\ savedKey = Null /\ savedValue = None
  /\ parsed = TRUE /\ valueType = kTypeDeletion /\ skipping = FALSE
  /\ pc = "idle"
  /\ call = [name |-> "none", target |-> Null]
  /\ at = {}

(* A writer adds an entry; DBIter's snapshot is older.                     *)
Write ==
  /\ \E k \in LaterWrites \ mem : mem' = mem \cup {k}
  /\ UNCHANGED <<base, merging, dbiter, pc, call, at>>

Begin(name, target) ==
  /\ pc = "idle"
  /\ call' = [name |-> name, target |-> target]

(* Key and value of the DBIter.                                            *)
Shown ==
  IF ~valid THEN {}
  ELSE IF direction = "forward"
  THEN {[key |-> ExtractUserKey(InnerKey), val |-> InnerValue]}
  ELSE {[key |-> savedKey, val |-> savedValue]}

(* What a call that has come to an end returns to.                         *)
Returned ==
  /\ pc = "return"
  /\ pc' = "idle"
  /\ at' = Shown
  /\ call' = [name |-> "none", target |-> Null]
  /\ UNCHANGED <<mem, base, merging, dbiter>>

(* iter_->Next() and iter_->Prev() inside a loop: at once, or by turning.  *)
InnerNext(then) ==
  IF mdirection = "forward" THEN MergingNext /\ pc' = then
  ELSE MergingTurn /\ pc' = "turn_" \o then
InnerPrev(then) ==
  IF mdirection = "reverse" THEN MergingPrev /\ pc' = then
  ELSE MergingTurn /\ pc' = "turn_" \o then

Turned ==
  /\ \/ pc = "turn_forward" /\ MergingNextTurned /\ pc' = "forward"
     \/ pc = "turn_switch" /\ MergingPrevTurned /\ pc' = "switch"
     \/ pc = "turn_backward" /\ MergingPrevTurned /\ pc' = "backward"
  /\ UNCHANGED <<mem, base, dbiter, call, at>>

(* After a seek: FindNextUserEntry if iter_ is valid now.                  *)
FindOrEnd ==
  IF current' # None THEN pc' = "forward" /\ UNCHANGED valid
  ELSE pc' = "return" /\ valid' = FALSE

Seek(u) ==
  /\ Begin("Seek", u)
  /\ direction' = "forward"
  /\ savedValue' = None
  /\ LET k == Append(u, PackSequenceAndType(sequence, kTypeValue))
     IN savedKey' = k /\ MergingSeek(k)
  /\ skipping' = FALSE
  /\ FindOrEnd
  /\ UNCHANGED <<mem, base, parsed, valueType, at>>

SeekToFirst ==
  /\ Begin("SeekToFirst", Null)
  /\ direction' = "forward"
  /\ savedValue' = None
  /\ MergingSeekToFirst
  /\ skipping' = FALSE
  /\ FindOrEnd
  /\ UNCHANGED <<mem, base, savedKey, parsed, valueType, at>>

SeekToLast ==
  /\ Begin("SeekToLast", Null)
  /\ direction' = "reverse"
  /\ savedValue' = None
  /\ MergingSeekToLast
  /\ valueType' = kTypeDeletion
  /\ pc' = "backward"
  /\ UNCHANGED <<mem, base, valid, savedKey, parsed, skipping, at>>

(* DBIter::Next up to FindNextUserEntry.                                   *)
Next_ ==
  /\ Begin("Next", Null)
  /\ valid
  /\ skipping' = TRUE
  /\ direction' = "forward"
  /\ IF direction = "reverse"
     THEN /\ savedKey' = savedKey
          /\ IF InnerValid THEN InnerNext("forward")
             ELSE MergingSeekToFirst /\ pc' = "forward"
     ELSE savedKey' = ExtractUserKey(InnerKey) /\ InnerNext("forward")
  /\ UNCHANGED <<mem, base, valid, savedValue, parsed, valueType, at>>

(* Whether entries of the same key are to be skipped after k.              *)
HiddenBy(k) == skipping \/ Type(k) = kTypeDeletion

(* FindNextUserEntry from one entry to the next.                           *)
FindNextUserEntry ==
  /\ pc = "forward"
  /\ IF ~InnerValid
     THEN /\ valid' = FALSE
          /\ savedKey' = Null
          /\ pc' = "return"
          /\ UNCHANGED <<merging, parsed, skipping>>
     ELSE LET k == InnerKey
              u == ExtractUserKey(k)
              seen == Parses(k) /\ Sequence(k) <= sequence
          IN /\ parsed' = (parsed /\ Parses(k))
             /\ \/ /\ seen /\ Type(k) = kTypeValue
                   /\ ~(skipping /\ ~BytewiseLess(savedKey, u))
                   /\ valid' = TRUE
                   /\ savedKey' = Null
                   /\ pc' = "return"
                   /\ UNCHANGED <<merging, skipping>>
                \/ /\ ~(seen /\ Type(k) = kTypeValue)
                      \/ (skipping /\ ~BytewiseLess(savedKey, u))
                   /\ skipping' = IF seen THEN HiddenBy(k) ELSE skipping
                   /\ savedKey' = IF seen /\ Type(k) = kTypeDeletion THEN u
                                  ELSE savedKey
                   /\ InnerNext("forward")
                   /\ UNCHANGED valid
  /\ UNCHANGED <<mem, base, direction, savedValue, valueType, call, at>>

(* DBIter::Prev up to FindPrevUserEntry, or its first step back.           *)
Prev ==
  /\ Begin("Prev", Null)
  /\ valid
  /\ IF direction = "forward"
     THEN savedKey' = ExtractUserKey(InnerKey) /\ InnerPrev("switch")
     ELSE savedKey' = savedKey /\ pc' = "backward" /\ UNCHANGED merging
  /\ valueType' = kTypeDeletion
  /\ UNCHANGED <<mem, base, direction, valid, savedValue, parsed, skipping, at>>

(* The loop of Prev that leaves the entries of the current key.            *)
SwitchDirections ==
  /\ pc = "switch"
  /\ \/ /\ ~InnerValid
        /\ valid' = FALSE /\ savedKey' = Null /\ savedValue' = None
        /\ pc' = "return"
        /\ UNCHANGED <<merging, direction>>
     \/ /\ InnerValid
        /\ ~BytewiseLess(ExtractUserKey(InnerKey), savedKey)
        /\ InnerPrev("switch")
        /\ UNCHANGED <<valid, savedKey, savedValue, direction>>
     \/ /\ InnerValid
        /\ BytewiseLess(ExtractUserKey(InnerKey), savedKey)
        /\ direction' = "reverse"
        /\ pc' = "backward"
        /\ UNCHANGED <<merging, valid, savedKey, savedValue>>
  /\ UNCHANGED <<mem, base, parsed, valueType, skipping, call, at>>

(* FindPrevUserEntry from one entry to the one before.                     *)
FindPrevUserEntry ==
  /\ pc = "backward"
  /\ LET k == InnerKey
         u == ExtractUserKey(k)
         seen == InnerValid /\ Parses(k) /\ Sequence(k) <= sequence
         found == /\ seen /\ valueType # kTypeDeletion
                  /\ BytewiseLess(u, savedKey)
     IN /\ parsed' = (parsed /\ (InnerValid => Parses(k)))
        /\ \/ /\ ~InnerValid \/ found
              /\ valid' = (valueType # kTypeDeletion)
              /\ IF valid' THEN UNCHANGED <<savedKey, savedValue, direction>>
                 ELSE /\ savedKey' = Null /\ savedValue' = None
                      /\ direction' = "forward"
              /\ pc' = "return"
              /\ UNCHANGED <<merging, valueType>>
           \/ /\ InnerValid /\ ~found
              /\ IF ~seen THEN UNCHANGED <<valueType, savedKey, savedValue>>
                 ELSE /\ valueType' = Type(k)
                      /\ savedKey' = IF Type(k) = kTypeDeletion THEN Null ELSE u
                      /\ savedValue' = IF Type(k) = kTypeDeletion THEN None
                                       ELSE InnerValue
              /\ InnerPrev("backward")
              /\ UNCHANGED <<valid, direction>>
  /\ UNCHANGED <<mem, base, skipping, call, at>>

Next ==
  \/ Write
  \/ \E u \in SeekKeys : Seek(u)
  \/ SeekToFirst \/ SeekToLast \/ Next_ \/ Prev
  \/ FindNextUserEntry \/ SwitchDirections \/ FindPrevUserEntry
  \/ Turned \/ Returned

Spec == Init /\ [][Next]_vars

-----------------------------------------------------------------------------
(* DBIter::status.                                                         *)
StatusOK == parsed /\ \A i \in DOMAIN tables : TableStatus(tabAt[i])

(* The DBIter is a cursor over its snapshot: every Seek, Next and Prev, in *)
(* any order, with several versions, deletions and equal keys in several   *)
(* children, and with entries added meanwhile, leads where the snapshot    *)
(* says, or status() is not OK, and then stays so.                         *)
Snapshot == INSTANCE Cursor WITH
  Targets <- SeekKeys \cup {Null}, KeyLess <- BytewiseLess, ok <- StatusOK
IsCursor == Snapshot!Spec

(* Of every table, as it was opened: a Get finds the entry that a scan     *)
(* finds, if it is of the key asked for, whatever the index's shortened    *)
(* keys and the filters say, and what it finds, a scan finds too; or its   *)
(* status is an error.  The blocks of a filter may be several, one or none *)
(* at all, and begin where its range begins.  ApproximateOffsetOf never    *)
(* runs backwards where the index can be decoded.                          *)
TableGetExact ==
  pc = "idle" /\ current = None =>
    \A i \in DOMAIN tables :
      LET t == tables[i]
          Sought == {Append(u, PackSequenceAndType(q, kTypeValue)) :
                       u \in SeekKeys, q \in 0 .. sequence}
          Scanned(k) == FirstKey({j \in written[i] : ~Less(j, k)})
          Offset(u) == ApproximateOffsetOf(t, Append(u, MaxTag))
          Decodes == \A n \in DOMAIN t.index.ents : ~Undecodable(t.index.ents[n])
      IN /\ Decodes => \A u, v \in SeekKeys :
              BytewiseLess(u, v) => Offset(u) <= Offset(v)
         /\ \A k \in Sought :
           LET want == Scanned(k)
               got == InternalGet(t, k)
           IN got.ok =>
                \/ want # Null /\ got.entry = Entry(want)
                \/ /\ got.entry = NotFound
                   /\ want = Null \/ ExtractUserKey(want) # ExtractUserKey(k)
=============================================================================
