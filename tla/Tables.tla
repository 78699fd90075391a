------------------------------- MODULE Tables -------------------------------
(***************************************************************************)
(* A table file: how TableBuilder lays it out (table/table_builder.cc,     *)
(* block_builder.cc, filter_block.cc), and how it is read: Block::Iter,    *)
(* TwoLevelIterator and Table::InternalGet.  All operators; Iterators uses *)
(* them as the children of a merging iterator.                             *)
(*                                                                         *)
(* A key is a sequence of bytes, an internal key has one more: the tag, in *)
(* place of eight.  Offsets in a block count entries; offsets in the file  *)
(* count the values' sizes and one unit for the trailer of each block;     *)
(* what keys, the encodings of lengths and handles and the footer cost is  *)
(* left out.                                                               *)
(***************************************************************************)
EXTENDS Integers, Sequences, FiniteSets

CONSTANTS
  BlockSize,       \* options.block_size
  ValueSize(_),    \* internal key -> the size of its value
  RestartInterval, \* block_restart_interval
  FilterBase,      \* kFilterBase
  MaxByte,         \* 0xff
  MaxTag,          \* kMaxSequenceNumber with kValueTypeForSeek
  BloomHash,       \* user key -> <<h, delta>>
  Probes,          \* k_
  MinBits,         \* the least size of a filter in bits
  BitsPerKey       \* bits_per_key_

ASSUME TablesAssumption ==
  /\ BlockSize \in Nat \ {0} /\ RestartInterval \in Nat \ {0}
  /\ FilterBase \in Nat \ {0} /\ MaxByte \in Nat /\ MaxTag \in Nat
  /\ Probes \in Nat \ {0} /\ MinBits \in Nat \ {0} /\ BitsPerKey \in Nat

None == -1

-----------------------------------------------------------------------------
(* Keys.                                                                   *)

Prefix(k, n) == SubSeq(k, 1, n)
Suffix(k, n) == SubSeq(k, n + 1, Len(k))

(* How many leading bytes two keys share.                                  *)
SharedBytes(a, b) ==
  LET most == IF Len(a) < Len(b) THEN Len(a) ELSE Len(b)
  IN CHOOSE n \in 0 .. most :
       /\ \A i \in 1 .. n : a[i] = b[i]
       /\ n < most => a[n + 1] # b[n + 1]

(* BytewiseComparatorImpl::Compare(a, b) < 0.                              *)
BytewiseLess(a, b) ==
  LET n == SharedBytes(a, b)
  IN n < Len(b) /\ (n = Len(a) \/ a[n + 1] < b[n + 1])

ExtractUserKey(k) == Prefix(k, Len(k) - 1)
Tag(k) == k[Len(k)]

(* InternalKeyComparator::Compare(a, b) < 0.                               *)
Less(a, b) ==
  \/ BytewiseLess(ExtractUserKey(a), ExtractUserKey(b))
  \/ ExtractUserKey(a) = ExtractUserKey(b) /\ Tag(a) > Tag(b)

(* FindShortestSeparator and FindShortSuccessor of user keys.              *)
UserSeparator(start, limit) ==
  LET n == SharedBytes(start, limit)
  IN IF /\ n < Len(start) /\ n < Len(limit)
        /\ start[n + 1] < MaxByte
        /\ start[n + 1] + 1 < limit[n + 1]
     THEN Append(Prefix(start, n), start[n + 1] + 1)
     ELSE start

UserSuccessor(k) ==
  LET Free == {i \in DOMAIN k : k[i] # MaxByte}
      i == CHOOSE i \in Free : \A j \in Free : i <= j
  IN IF Free = {} THEN k ELSE Append(Prefix(k, i - 1), k[i] + 1)

(* An internal key takes the shorter user key only if it became shorter.   *)
Shortened(k, u) ==
  IF /\ Len(u) < Len(ExtractUserKey(k))
     /\ BytewiseLess(ExtractUserKey(k), u)
  THEN Append(u, MaxTag)
  ELSE k

FindShortestSeparator(start, limit) ==
  Shortened(start, UserSeparator(ExtractUserKey(start), ExtractUserKey(limit)))

FindShortSuccessor(k) == Shortened(k, UserSuccessor(ExtractUserKey(k)))

-----------------------------------------------------------------------------
(* BlockBuilder.                                                           *)

ResetBlock ==
  [ents |-> <<>>, restarts |-> <<0>>, counter |-> 0, last |-> <<>>, size |-> 0]

BlockAdd(b, interval, key, val) ==
  LET more == b.counter < interval
      shared == IF more THEN SharedBytes(b.last, key) ELSE 0
  IN [ents     |-> Append(b.ents, [shared |-> shared,
                                   delta |-> Suffix(key, shared),
                                   val |-> val]),
      restarts |-> IF more THEN b.restarts
                   ELSE Append(b.restarts, Len(b.ents)),
      counter  |-> (IF more THEN b.counter ELSE 0) + 1,
      last     |-> key,
      size     |-> b.size + ValueSize(key)]

BlockFinish(b) ==
  [ents |-> b.ents, restarts |-> b.restarts, fault |-> "none"]

-----------------------------------------------------------------------------
(* The Bloom filter: the bits that are set.                                *)

ProbedBits(u, k, bits) ==
  {(BloomHash[u][1] + j * BloomHash[u][2]) % bits : j \in 0 .. k - 1}

CreateFilter(keys) ==
  LET n == Len(keys) * BitsPerKey
      least == IF n < MinBits THEN MinBits ELSE n
      bits == ((least + 7) \div 8) * 8
  IN [k |-> Probes, bits |-> bits,
      set |-> UNION {ProbedBits(ExtractUserKey(keys[i]), Probes, bits) :
                       i \in DOMAIN keys}]

EmptyFilter == [k |-> 0, bits |-> 0, set |-> {}]

BloomMayMatch(key, f) ==
  /\ f # EmptyFilter
  /\ f.k > 30 \/ ProbedBits(ExtractUserKey(key), f.k, f.bits) \subseteq f.set

(* FilterBlockBuilder: filter i is of the keys of the blocks that start in *)
(* [i * FilterBase, (i + 1) * FilterBase).                                 *)
NewFilterBlock == [filters |-> <<>>, keys |-> <<>>]

GenerateFilter(f) ==
  [filters |-> Append(f.filters, IF f.keys = <<>> THEN EmptyFilter
                                 ELSE CreateFilter(f.keys)),
   keys |-> <<>>]

(* mutant: a filter is made for a range the file has only just entered.    *)
StartBlock_Early(f, offset) ==
  LET G[n \in 0 .. offset + 1] == IF n = 0 THEN f ELSE GenerateFilter(G[n - 1])
      most == offset \div FilterBase + 1 - Len(f.filters)
  IN G[IF most > 0 THEN most ELSE 0]

StartBlock(f, offset) ==
  LET G[n \in 0 .. offset] == IF n = 0 THEN f ELSE GenerateFilter(G[n - 1])
      most == offset \div FilterBase - Len(f.filters)
  IN G[IF most > 0 THEN most ELSE 0]

FilterFinish(f) == IF f.keys = <<>> THEN f.filters ELSE GenerateFilter(f).filters

(* FilterBlockReader::KeyMayMatch.                                         *)
KeyMayMatch(filters, offset, key) ==
  LET index == offset \div FilterBase
  IN index < Len(filters) => BloomMayMatch(key, filters[index + 1])

-----------------------------------------------------------------------------
(* TableBuilder.                                                           *)

NewBuilder ==
  [offset |-> 0, data |-> ResetBlock, index |-> ResetBlock, last |-> <<>>,
   pending |-> FALSE, handle |-> None, filter |-> StartBlock(NewFilterBlock, 0),
   file |-> << >>]

(* WriteBlock and WriteRawBlock: the block at its offset.  An Append that  *)
(* fails ends the table (BuildTable and the compaction drop the file), so  *)
(* a table that is opened was written without one.                         *)
WriteBlock(r) ==
  [r EXCEPT !.file = @ \o <<[offset |-> r.offset, block |-> BlockFinish(r.data)]>>,
            !.handle = r.offset,
            !.offset = @ + r.data.size + 1,
            !.data = ResetBlock]

Flush(r) ==
  IF r.data.ents = <<>> THEN r
  ELSE LET w == WriteBlock(r)
       IN [w EXCEPT !.pending = TRUE, !.filter = StartBlock(@, w.offset)]

AddIndex(r, key) ==
  [r EXCEPT !.index = BlockAdd(@, 1, key, r.handle), !.pending = FALSE]

TableAdd(r, e) ==
  LET p == IF r.pending
           THEN AddIndex(r, FindShortestSeparator(r.last, e.key)) ELSE r
      q == [p EXCEPT !.filter.keys = Append(@, e.key),
                     !.last = e.key,
                     !.data = BlockAdd(@, RestartInterval, e.key, e.val)]
  IN IF q.data.size >= BlockSize THEN Flush(q) ELSE q

TableFinish(r) ==
  LET f == Flush(r)
      g == IF f.pending THEN AddIndex(f, FindShortSuccessor(f.last)) ELSE f
      filters == FilterFinish(g.filter)
  IN [file |-> g.file, index |-> BlockFinish(g.index),
      filter |-> [filters |-> filters, fault |-> "none"],
      meta |-> [offset |-> g.offset + Len(filters) + 1, fault |-> "none"],
      footer |-> [fault |-> "none"]]

(* The table of a sorted sequence of entries.                              *)
BuildTable(entries) ==
  LET B[n \in 0 .. Len(entries)] ==
        IF n = 0 THEN NewBuilder ELSE TableAdd(B[n - 1], entries[n])
  IN TableFinish(B[Len(entries)])

-----------------------------------------------------------------------------
(* Block::Iter: [cur, ri, key, val, next, ok], where next is               *)
(* NextEntryOffset().                                                      *)

Restarts(b) == Len(b.restarts)
GetRestartPoint(b, i) == b.restarts[i + 1]

NewIter(b) ==
  [cur |-> Len(b.ents), ri |-> Restarts(b), key |-> <<>>, val |-> None,
   next |-> 0, ok |-> TRUE]

IterValid(b, it) == it.cur < Len(b.ents)

CorruptionError(b, it) ==
  [it EXCEPT !.cur = Len(b.ents), !.ri = Restarts(b), !.ok = FALSE,
             !.key = <<>>]

SeekToRestartPoint(b, it, i) ==
  [it EXCEPT !.key = <<>>, !.ri = i, !.next = GetRestartPoint(b, i)]

(* DecodeEntry of an entry whose lengths run past the block.               *)
Undecodable(e) == e.shared = None

ParseNextKey(b, it) ==
  LET c == it.next
      e == b.ents[c + 1]
      Passed == {i \in it.ri + 1 .. Restarts(b) - 1 : GetRestartPoint(b, i) < c}
  IN IF c >= Len(b.ents)
     THEN [it EXCEPT !.cur = Len(b.ents), !.ri = Restarts(b)]
     ELSE IF Undecodable(e) \/ Len(it.key) < e.shared
     THEN CorruptionError(b, it)
     ELSE [it EXCEPT !.cur = c, !.next = c + 1, !.val = e.val,
                     !.key = Prefix(@, e.shared) \o e.delta,
                     !.ri = @ + Cardinality(Passed)]

(* ParseNextKey again and again, until the block ends or Stop holds.       *)
ParseUntil(b, it, Stop(_)) ==
  LET P[n \in 1 .. Len(b.ents) + 1] ==
        ParseNextKey(b, IF n = 1 THEN it ELSE P[n - 1])
      Ends(n) == ~IterValid(b, P[n]) \/ Stop(P[n])
  IN P[CHOOSE n \in DOMAIN P : Ends(n) /\ \A m \in 1 .. n - 1 : ~Ends(m)]

BlockSeekToFirst(b, it) == ParseNextKey(b, SeekToRestartPoint(b, it, 0))

BlockSeekToLast(b, it) ==
  LET AtEnd(x) == x.next >= Len(b.ents)
  IN ParseUntil(b, SeekToRestartPoint(b, it, Restarts(b) - 1), AtEnd)

BlockNext(b, it) == ParseNextKey(b, it)

(* The last restart point before current_, at or below restart_index_, and *)
(* from there to the entry that ends where current_ starts.                *)
BlockPrev(b, it) ==
  LET Early == {i \in 0 .. it.ri : GetRestartPoint(b, i) < it.cur}
      i == CHOOSE i \in Early : \A j \in Early : j <= i
      Hit(x) == x.next >= it.cur
  IN IF Early = {}
     THEN [it EXCEPT !.cur = Len(b.ents), !.ri = Restarts(b)]
     ELSE ParseUntil(b, SeekToRestartPoint(b, it, i), Hit)

(* The binary search over the restart points; None is a corruption.        *)
RestartSearch(b, target, left, right) ==
  LET S[l \in 0 .. right, r \in 0 .. right] ==
        LET mid == (l + r + 1) \div 2
            e == b.ents[GetRestartPoint(b, mid) + 1]
        IN IF l >= r THEN l
           ELSE IF Undecodable(e) \/ e.shared # 0 THEN None
           ELSE IF Less(e.delta, target) THEN S[mid, r]
           ELSE S[l, mid - 1]
  IN S[left, right]

BlockSeek(b, it, target) ==
  LET valid == IterValid(b, it)
      behind == valid /\ Less(it.key, target)
      ahead == valid /\ Less(target, it.key)
      left == RestartSearch(b, target,
                            IF behind THEN it.ri ELSE 0,
                            IF ahead THEN it.ri ELSE Restarts(b) - 1)
      Found(x) == ~Less(x.key, target)
  IN IF valid /\ ~behind /\ ~ahead THEN it
     ELSE IF left = None THEN CorruptionError(b, it)
     ELSE ParseUntil(b, IF left = it.ri /\ behind THEN it
                        ELSE SeekToRestartPoint(b, it, left), Found)

-----------------------------------------------------------------------------
(* What can be wrong with a block, by what ReadBlock notices: the file     *)
(* gives an error or ends too early ("read"), its bytes are not those that *)
(* were written ("bytes"), which only the checksum tells, or its type or   *)
(* compressed data makes no sense ("type").  ReadBlock returns an error    *)
(* for these; but it compares checksums only when asked to.                *)
ReadBlockFails(b, verify_checksums) ==
  \/ b.fault \in {"read", "type"}
  \/ b.fault = "bytes" /\ verify_checksums

(* Table::ReadMeta and ReadFilter: is there a filter to use?  Any error    *)
(* means that there is none.                                               *)
ReadMeta(t, paranoid_checks) ==
  /\ ~ReadBlockFails(t.meta, paranoid_checks)
  /\ t.meta.fault = "none"             \* its entry is found and decoded
  /\ ~ReadBlockFails(t.filter, paranoid_checks)

(* Table::Open: an error of the footer (too short, unreadable, no magic    *)
(* number) or of the index block leaves no table.                          *)
TableOpens(t, paranoid_checks) ==
  /\ t.footer.fault = "none"
  /\ ~ReadBlockFails(t.index, paranoid_checks)

(* The table as it is used from then on.  One that does not open is never  *)
(* read; all its operations give the error.                                *)
TableOpen(t, paranoid_checks, verify_checksums) ==
  LET none == BuildTable(<<>>)
      use == IF TableOpens(t, paranoid_checks) THEN t ELSE none
  IN [opened |-> TableOpens(t, paranoid_checks),
      file |-> use.file, index |-> use.index,
      filters |-> use.filter.filters,
      filtered |-> ReadMeta(t, paranoid_checks),
      metaindex |-> use.meta.offset,
      verify |-> verify_checksums]

-----------------------------------------------------------------------------
(* TwoLevelIterator over a table t: [index, on, data, handle, saved].  on  *)
(* says what data_iter_ is: "none", "iter", or the "error" iterator that   *)
(* BlockReader returns for a block that ReadBlock rejects.                 *)

BlockAt(t, offset) ==
  t.file[CHOOSE i \in DOMAIN t.file : t.file[i].offset = offset].block

NoIter == NewIter([ents |-> <<>>, restarts |-> <<0>>])

(* TableCache::NewIterator: the error iterator for a table that does not   *)
(* open is one without entries whose status is the error.                  *)
NewTwoLevel(t) ==
  [index |-> NewIter(t.index), on |-> "none", data |-> NoIter, handle |-> None,
   saved |-> t.opened]

DataBlock(t, it) == BlockAt(t, it.handle)
TableValid(t, it) == it.on = "iter" /\ IterValid(DataBlock(t, it), it.data)
DataOK(it) == it.on # "error" /\ it.data.ok
TableStatus(it) == it.index.ok /\ DataOK(it) /\ it.saved
TableKey(it) == it.data.key
TableValue(it) == it.data.val

SetDataIterator(it, on, data) ==
  [it EXCEPT !.saved = @ /\ DataOK(it), !.on = on, !.data = data]

InitDataBlock(t, it) ==
  LET h == it.index.val
      b == BlockAt(t, h)
  IN IF ~IterValid(t.index, it.index) THEN SetDataIterator(it, "none", NoIter)
     ELSE IF it.on # "none" /\ it.handle = h THEN it
     ELSE IF ReadBlockFails(b, t.verify)
     THEN [SetDataIterator(it, "error", NoIter) EXCEPT !.handle = h]
     ELSE [SetDataIterator(it, "iter", NewIter(b)) EXCEPT !.handle = h]

(* A move of data_iter_, if there is one that is not the error iterator.   *)
MoveData(t, it, Move(_, _)) ==
  IF it.on = "iter"
  THEN [it EXCEPT !.data = Move(DataBlock(t, it), it.data)] ELSE it

(* SkipEmptyDataBlocksForward and Backward.                                *)
SkipEmpty(t, it, MoveIndex(_, _), Enter(_, _)) ==
  LET Turn(x) == MoveData(t, InitDataBlock(t, [x EXCEPT !.index =
                                MoveIndex(t.index, @)]), Enter)
      T[n \in 0 .. Len(t.file) + 1] == IF n = 0 THEN it ELSE Turn(T[n - 1])
      Ends(x) == TableValid(t, x) \/ ~IterValid(t.index, x.index)
      x == T[CHOOSE n \in DOMAIN T :
               Ends(T[n]) /\ \A m \in 0 .. n - 1 : ~Ends(T[m])]
  IN IF TableValid(t, x) THEN x ELSE SetDataIterator(x, "none", NoIter)

SkipEmptyDataBlocksForward(t, it) ==
  SkipEmpty(t, it, BlockNext, BlockSeekToFirst)
SkipEmptyDataBlocksBackward(t, it) ==
  SkipEmpty(t, it, BlockPrev, BlockSeekToLast)

TableSeek(t, it, target) ==
  LET SeekTarget(b, d) == BlockSeek(b, d, target)
      i == [it EXCEPT !.index = BlockSeek(t.index, @, target)]
  IN SkipEmptyDataBlocksForward(t, MoveData(t, InitDataBlock(t, i), SeekTarget))

TableSeekToFirst(t, it) ==
  LET i == [it EXCEPT !.index = BlockSeekToFirst(t.index, @)]
  IN SkipEmptyDataBlocksForward(t,
       MoveData(t, InitDataBlock(t, i), BlockSeekToFirst))

TableSeekToLast(t, it) ==
  LET i == [it EXCEPT !.index = BlockSeekToLast(t.index, @)]
  IN SkipEmptyDataBlocksBackward(t,
       MoveData(t, InitDataBlock(t, i), BlockSeekToLast))

TableNext(t, it) == SkipEmptyDataBlocksForward(t, MoveData(t, it, BlockNext))

TablePrev(t, it) == SkipEmptyDataBlocksBackward(t, MoveData(t, it, BlockPrev))

(* TableCache::Get and Table::InternalGet: the entry handle_result is      *)
(* called with, or NotFound where it is not, and the status.               *)
NotFound == [key |-> <<>>, val |-> None]

InternalGet(t, k) ==
  LET i == BlockSeek(t.index, NewIter(t.index), k)
      b == BlockAt(t, i.val)
      d == BlockSeek(b, NewIter(b), k)
  IN IF ~t.opened THEN [entry |-> NotFound, ok |-> FALSE]
     ELSE IF ~IterValid(t.index, i) THEN [entry |-> NotFound, ok |-> i.ok]
     ELSE IF t.filtered /\ ~KeyMayMatch(t.filters, i.val, k)
     THEN [entry |-> NotFound, ok |-> i.ok]
     ELSE IF ReadBlockFails(b, t.verify) THEN [entry |-> NotFound, ok |-> FALSE]
     ELSE [entry |-> IF IterValid(b, d) THEN [key |-> d.key, val |-> d.val]
                     ELSE NotFound,
           ok |-> d.ok /\ i.ok]

(* Table::ApproximateOffsetOf.                                             *)
ApproximateOffsetOf(t, k) ==
  LET i == BlockSeek(t.index, NewIter(t.index), k)
  IN IF IterValid(t.index, i) THEN i.val ELSE t.metaindex
=============================================================================
