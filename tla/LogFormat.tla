----------------------------- MODULE LogFormat -----------------------------
(***************************************************************************)
(* The format of logs and MANIFESTs: log::Writer cuts a record into        *)
(* fragments that fit into blocks (db/log_writer.cc), log::Reader puts     *)
(* them together again and drops what is damaged (db/log_reader.cc).       *)
(*                                                                         *)
(* A file is a sequence of cells.  The header of a fragment is HeaderSize  *)
(* cells, of which the first stands for the checksum and the last two for  *)
(* the length and the type; a byte of the user's data is one cell that     *)
(* names its record and its place in it.  Checksums have no collisions.    *)
(* Between writing and reading a crash may cut the file anywhere, leave a  *)
(* tail of zeros behind the cut, and a new Writer may go on behind that    *)
(* (reuse_logs).  An Append may fail halfway.                              *)
(***************************************************************************)
EXTENDS Integers, Sequences, FiniteSets

CONSTANTS
  BlockSize, HeaderSize,   \* kBlockSize, kHeaderSize
  Sizes,                   \* sizes of the records added
  Scenarios                \* the bounds of the behaviours, see below

(* What a behaviour is about: the offsets a Reader may start at, lengths   *)
(* of the tail of zeros a crash may leave, whether Append and Flush or     *)
(* Read and Skip may fail; and bounds on records and crashes.              *)
Scenario ==
  [initialOffsets : SUBSET Nat, zeros : SUBSET Nat,
   appendErrors : BOOLEAN, readErrors : BOOLEAN, records : Nat, crashes : Nat]

ASSUME LogAssumption ==
  /\ HeaderSize \in Nat /\ HeaderSize >= 3
  /\ BlockSize \in Nat /\ BlockSize > HeaderSize
  /\ Sizes \subseteq Nat /\ Scenarios \subseteq Scenario

VARIABLES
  scenario,      \* the member of Scenarios this behaviour is about
  phase,         \* "write", "down" after a crash, "read", "end"
  file,          \* the cells of the file
  blockOffset,   \* Writer: block_offset_
  adding,        \* the record in AddRecord, or NoRecord
  begun,         \* records given to AddRecord: id, size and offset
  added,         \* those whose AddRecord returned OK and that are in the file
  clean,         \* lengths at which a cut leaves whole fragments only
  damage,        \* offsets of cells that are not part of aligned fragments
  plain,         \* the file is what one Writer wrote, but for a cut at the end
  crashes,
  reader         \* the Reader

writerVars == <<scenario, file, blockOffset, adding, begun, added, clean, damage,
                plain>>
vars == <<phase, writerVars, crashes, reader>>

-----------------------------------------------------------------------------
(* Cells.                                                                  *)

Crc(t, data) == <<"crc", t, data>>
Length(n) == <<"length", n>>
Type(t) == <<"type", t>>
Zero == <<"zero">>
Data(id, i) == <<"data", id, i>>

Cells(n, c) == [i \in 1 .. n |-> c]
Payload(r) == [i \in 1 .. r.size |-> Data(r.id, i)]

NoRecord == [id |-> 0]
Block(offset) == offset \div BlockSize

NoReader == [checksum |-> TRUE, initial |-> 0, buffer |-> 0, endOffset |-> 0,
             eof |-> FALSE, resyncing |-> FALSE, inFragmented |-> FALSE,
             scratch |-> <<>>, prospective |-> 0, out |-> <<>>,
             reported |-> FALSE, ioError |-> FALSE]

Init ==
  /\ scenario \in Scenarios
  /\ phase = "write"
  /\ file = <<>> /\ blockOffset = 0 /\ adding = NoRecord
  /\ begun = {} /\ added = {} /\ clean = {0} /\ damage = {} /\ plain = TRUE
  /\ crashes = 0
  /\ reader = NoReader

-----------------------------------------------------------------------------
(* log::Writer.                                                            *)

AddRecord(n) ==
  /\ phase = "write" /\ adding = NoRecord
  /\ Cardinality(begun) < scenario.records
  /\ adding' = [id |-> Cardinality(begun) + 1, size |-> n, left |-> n,
                begin |-> TRUE, start |-> 0]
  /\ UNCHANGED <<scenario, phase, file, blockOffset, begun, added, clean, damage, plain,
                 crashes, reader>>

(* The zeros that fill a block too full for a header, and where the next   *)
(* fragment starts in its block.                                           *)
Leftover == BlockSize - blockOffset
Trailer_None == <<>>   \* mutant: the block is not filled
Trailer == IF Leftover < HeaderSize THEN Cells(Leftover, Zero) ELSE <<>>
Offset == IF Leftover < HeaderSize THEN 0 ELSE blockOffset

Available == BlockSize - Offset - HeaderSize

FragmentType(begin, end) ==
  IF begin THEN (IF end THEN "full" ELSE "first")
  ELSE IF end THEN "last" ELSE "middle"

(* EmitPhysicalRecord: header and data.                                    *)
Fragment(t, data) ==
  <<Crc(t, data)>> \o Cells(HeaderSize - 3, Zero)
    \o <<Length(Len(data)), Type(t)>> \o data

(* What one turn of the loop of AddRecord writes, and where the record     *)
(* starts.                                                                 *)
FragmentLength == IF adding.left < Available THEN adding.left ELSE Available
FragmentData ==
  LET done == adding.size - adding.left
  IN SubSeq(Payload(adding), done + 1, done + FragmentLength)
Written ==
  Trailer \o Fragment(FragmentType(adding.begin, FragmentLength = adding.left),
                      FragmentData)
RecordStart ==
  IF adding.begin THEN Len(file) + Len(Trailer) ELSE adding.start

(* One turn.  If an Append fails the last cells are lost; block_offset_    *)
(* moves on in any case, and AddRecord returns when the record is complete *)
(* or has failed.                                                          *)
Emit(ok, lost) ==
  LET n == FragmentLength
      got == Len(Written) - lost
      record == [id |-> adding.id, size |-> adding.size, start |-> RecordStart,
                 end |-> Len(file) + got]
      aligned == blockOffset % BlockSize = Len(file) % BlockSize
  IN /\ phase = "write" /\ adding # NoRecord
     /\ got >= 0
     /\ file' = file \o SubSeq(Written, 1, got)
     /\ blockOffset' = Offset + HeaderSize + n
     /\ begun' = IF adding.begin
                 THEN begun \cup {[id |-> adding.id, size |-> adding.size,
                                   start |-> RecordStart]}
                 ELSE begun
     /\ adding' = IF ok /\ n < adding.left
                  THEN [adding EXCEPT !.left = @ - n, !.begin = FALSE,
                                      !.start = RecordStart]
                  ELSE NoRecord
     /\ added' = IF ok /\ n = adding.left THEN added \cup {record} ELSE added
     /\ clean' = IF lost > 0 THEN clean
                 ELSE clean \cup (Len(file) .. Len(file) + Len(Trailer))
                            \cup {Len(file) + Len(Written)}
     /\ damage' = IF aligned /\ lost = 0 THEN damage
                  ELSE damage \cup (Len(file) .. Len(file) + got)
     /\ plain' = (plain /\ ok)
     /\ UNCHANGED <<scenario, phase, crashes, reader>>

-----------------------------------------------------------------------------
(* The end of the process or of the machine: the first keep cells are      *)
(* left, and z zeros behind them.                                          *)

Crash(keep, z) ==
  /\ phase = "write" /\ crashes < scenario.crashes
  /\ phase' = "down"
  /\ crashes' = crashes + 1
  /\ file' = SubSeq(file, 1, keep) \o Cells(z, Zero)
  /\ adding' = NoRecord
  /\ added' = {r \in added : r.end <= keep}
  /\ clean' = {n \in clean : n <= keep} \cup {Len(file')}
  /\ damage' = {d \in damage : d < keep} \cup (keep .. keep + z - 1)
                 \cup (IF keep \in clean THEN {} ELSE {keep})
  /\ plain' = (plain /\ z = 0)
  /\ UNCHANGED <<scenario, blockOffset, begun, reader>>

(* RecoverLogFile has read the log and goes on with it: a Writer for a     *)
(* file that has a length.                                                 *)
Reopen ==
  /\ phase = "down" /\ crashes < scenario.crashes
  /\ phase' = "write"
  /\ blockOffset' = Len(file) % BlockSize
  /\ plain' = (plain /\ Len(file) \in {0} \cup {r.end : r \in added})
  /\ UNCHANGED <<scenario, file, adding, begun, added, clean, damage, crashes,
                 reader>>

-----------------------------------------------------------------------------
(* log::Reader.                                                            *)

(* ReportDrop: nothing is reported about bytes before initial_offset_; an  *)
(* unsigned difference below 0 is larger than any offset.                  *)
Reports(r, bytes) ==
  LET from == r.endOffset - r.buffer - bytes
  IN from < 0 \/ from >= r.initial
Report(r, bytes) == [r EXCEPT !.reported = @ \/ Reports(r, bytes)]

InitialBlock(initial) ==
  LET inBlock == initial % BlockSize
  IN initial - inBlock
       + (IF inBlock > BlockSize - (HeaderSize - 1) THEN BlockSize ELSE 0)

(* The constructor and, in the first ReadRecord, SkipToInitialBlock.       *)
StartRead(checksum, initial) ==
  LET r == [NoReader EXCEPT !.checksum = checksum, !.initial = initial,
                            !.endOffset = InitialBlock(initial),
                            !.resyncing = initial > 0]
  IN /\ phase = "down"
     /\ \/ phase' = "read" /\ reader' = r
        \/ /\ scenario.readErrors /\ r.endOffset > 0   \* Skip fails
           /\ phase' = "end"
           /\ reader' = [Report(r, r.endOffset) EXCEPT !.ioError = TRUE]
     /\ UNCHANGED <<writerVars, crashes>>

Reading == phase = "read"
Start == reader.endOffset - reader.buffer   \* offset of the buffer's first cell

(* What ReadRecord makes of the physical record (t, data), with the reader *)
(* r that ReadPhysicalRecord leaves.                                       *)
FragmentOffset(r, data) == r.endOffset - r.buffer - HeaderSize - Len(data)

Returned(r, offset, data) ==   \* ReadRecord returns it and is called again
  [r EXCEPT !.out = Append(@, [offset |-> offset, data |-> data]),
            !.inFragmented = FALSE, !.scratch = <<>>]

Partial(r) ==   \* "partial record without end"
  IF r.inFragmented /\ r.scratch # <<>> THEN Report(r, Len(r.scratch)) ELSE r

AfterBadRecord_GoOn(r) ==   \* mutant: the fragments before it are kept
  IF r.inFragmented THEN Report(r, Len(r.scratch)) ELSE r

AfterBadRecord(r) ==
  IF r.inFragmented
  THEN [Report(r, Len(r.scratch)) EXCEPT !.inFragmented = FALSE,
                                         !.scratch = <<>>]
  ELSE r

Assembled(r, t, data) ==
  CASE t = "full"   -> Returned(Partial(r), FragmentOffset(r, data), data)
    [] t = "first"  -> [Partial(r) EXCEPT
                          !.prospective = FragmentOffset(r, data),
                          !.scratch = data, !.inFragmented = TRUE]
    [] t = "middle" -> IF ~r.inFragmented THEN Report(r, Len(data))
                       ELSE [r EXCEPT !.scratch = @ \o data]
    [] t = "last"   -> IF ~r.inFragmented THEN Report(r, Len(data))
                       ELSE Returned(r, r.prospective, r.scratch \o data)
    [] t = "bad"    -> AfterBadRecord(r)
    [] OTHER        ->   \* "unknown record type"
         [Report(r, Len(data) + (IF r.inFragmented THEN Len(r.scratch) ELSE 0))
            EXCEPT !.inFragmented = FALSE, !.scratch = <<>>]

ReadRecord(r, t, data) ==
  /\ reader' = IF r.resyncing /\ t \in {"middle", "last"}
               THEN [r EXCEPT !.resyncing = (t = "middle")]
               ELSE Assembled([r EXCEPT !.resyncing = FALSE], t, data)
  /\ UNCHANGED <<phase, writerVars, crashes>>

Eof(r) ==   \* an unfinished record is forgotten without a report
  /\ phase' = "end"
  /\ reader' = [r EXCEPT !.scratch = <<>>, !.resyncing = FALSE]
  /\ UNCHANGED <<writerVars, crashes>>

(* ReadPhysicalRecord, with less than a header in the buffer: the next     *)
(* block, or the end.                                                      *)
AtEnd(n) == n < BlockSize

Refill ==
  LET left == Len(file) - reader.endOffset
      n == IF left < 0 THEN 0 ELSE IF left < BlockSize THEN left ELSE BlockSize
  IN /\ Reading /\ reader.buffer < HeaderSize /\ ~reader.eof
     /\ reader' = [reader EXCEPT !.buffer = n, !.endOffset = @ + n,
                                 !.eof = AtEnd(n)]
     /\ UNCHANGED <<phase, writerVars, crashes>>

ReadFails ==
  /\ scenario.readErrors
  /\ Reading /\ reader.buffer < HeaderSize /\ ~reader.eof
  /\ Eof([Report([reader EXCEPT !.buffer = 0], BlockSize)
            EXCEPT !.eof = TRUE, !.ioError = TRUE])

EndOfFile ==   \* a truncated header is not an error
  /\ Reading /\ reader.buffer < HeaderSize /\ reader.eof
  /\ Eof([reader EXCEPT !.buffer = 0])

(* With a header in the buffer: what its length and type may be read as.   *)
(* Cells that are not a header read as anything.                           *)
Cell(i) == file[Start + i]
LengthCell == Cell(HeaderSize - 1)
TypeCell == Cell(HeaderSize)
Lengths == IF LengthCell[1] = "length" THEN {LengthCell[2]}
           ELSE IF LengthCell = Zero THEN {0} ELSE 0 .. BlockSize
Types == IF TypeCell[1] = "type" THEN {TypeCell[2]}
         ELSE IF TypeCell = Zero THEN {"zero"}
         ELSE {"zero", "full", "first", "middle", "last", "unknown"}
DataOf(n) == SubSeq(file, Start + HeaderSize + 1, Start + HeaderSize + n)
CrcMatches(t, n) == Cell(1) = Crc(t, DataOf(n)) /\ TypeCell = Type(t)

Dropped == [reader EXCEPT !.buffer = 0]   \* the rest of the block

BadLength_Reported ==   \* mutant: at the end of the file, too
  \/ /\ ~reader.eof
     /\ ReadRecord(Report(Dropped, reader.buffer), "bad", <<>>)
  \/ /\ reader.eof
     /\ Eof(Report(Dropped, reader.buffer))

BadLength ==   \* the data reaches out of the buffer
  \/ /\ ~reader.eof
     /\ ReadRecord(Report(Dropped, reader.buffer), "bad", <<>>)
  \/ /\ reader.eof   \* the writer died in the middle of writing it
     /\ Eof(Dropped)

ZeroRecord_Kept == ReadRecord(reader, "bad", <<>>)   \* mutant: no clear()
ZeroRecord == ReadRecord(Dropped, "bad", <<>>)   \* a preallocated region

ReadPhysicalRecord(t, n) ==
  LET rest == [reader EXCEPT !.buffer = @ - (HeaderSize + n)]
  IN /\ Reading /\ reader.buffer >= HeaderSize
     /\ \/ /\ HeaderSize + n > reader.buffer
           /\ BadLength
        \/ /\ HeaderSize + n <= reader.buffer
           /\ t = "zero" /\ n = 0
           /\ ZeroRecord
        \/ /\ HeaderSize + n <= reader.buffer /\ ~(t = "zero" /\ n = 0)
           /\ reader.checksum /\ ~CrcMatches(t, n)
           /\ ReadRecord(Report(Dropped, reader.buffer), "bad", <<>>)
        \/ /\ HeaderSize + n <= reader.buffer /\ ~(t = "zero" /\ n = 0)
           /\ ~reader.checksum \/ CrcMatches(t, n)
           /\ IF FragmentOffset(rest, DataOf(n)) < reader.initial
              THEN ReadRecord(rest, "bad", <<>>)
              ELSE ReadRecord(rest, t, DataOf(n))

-----------------------------------------------------------------------------
Done == phase = "end" /\ UNCHANGED vars

ReaderStep ==
  \/ Refill
  \/ ReadFails
  \/ EndOfFile
  \/ /\ Reading /\ reader.buffer >= HeaderSize
     /\ \E t \in Types, n \in Lengths : ReadPhysicalRecord(t, n)

Next ==
  \/ \E n \in Sizes : AddRecord(n)
  \/ Emit(TRUE, 0)
  \/ scenario.appendErrors /\ \E lost \in 0 .. 2 * BlockSize : Emit(FALSE, lost)
  \/ \E keep \in 0 .. Len(file), z \in scenario.zeros : Crash(keep, z)
  \/ Reopen
  \/ \E checksum \in BOOLEAN, initial \in scenario.initialOffsets :
       StartRead(checksum, initial)
  \/ ReaderStep
  \/ Done

Spec == Init /\ [][Next]_vars

(* The caller reads until ReadRecord returns false.                        *)
FairSpec == Spec /\ WF_vars(ReaderStep)

-----------------------------------------------------------------------------
(* Properties.                                                             *)

(* Every variable has its type: the Writer's assertions about the space in *)
(* a block, and a Reader that never has more than a block.                 *)
TypeOK ==
  /\ phase \in {"write", "down", "read", "end"}
  /\ blockOffset \in 0 .. BlockSize
  /\ Available >= 0
  /\ reader.buffer \in 0 .. BlockSize
  /\ reader.endOffset \in Nat
  /\ \A r \in added : r.start < r.end /\ r.end <= Len(file)

(* A Reader that checks checksums returns records only that were given to  *)
(* AddRecord, whole, at the offset they were written at, in order and from *)
(* initial_offset on, whatever was torn, appended behind a torn record, or *)
(* failed: fragments of two records are never put together.                *)
NothingForged ==
  LET out == reader.out
  IN reader.checksum =>
       \A i \in DOMAIN out :
         /\ out[i].offset >= reader.initial
         /\ i > 1 => out[i - 1].offset < out[i].offset
         /\ \E r \in begun : /\ out[i].offset = r.start
                             /\ out[i].data = Payload(r)

(* "If there is a corruption, skip to the next block" (doc/log_format.md): *)
(* a record in the file is found if it ends before everything damaged in   *)
(* the block it starts in, or starts in a later block.                     *)
Reachable(r) ==
  /\ r.start >= reader.initial
  /\ \A d \in damage : d >= r.end \/ Block(d) < Block(r.start)
DamageIsConfined ==
  phase = "end" /\ ~reader.ioError =>
    \A r \in added : Reachable(r) =>
      \E i \in DOMAIN reader.out : /\ reader.out[i].offset = r.start
                                   /\ reader.out[i].data = Payload(r)

(* "just ignore the entire logical record": a Writer that died in the      *)
(* middle of a record leaves nothing that a Reader of the whole file would *)
(* report, even to a Writer that went on behind complete records.          *)
TornTailSilent ==
  plain /\ reader.initial = 0 /\ ~reader.ioError => ~reader.reported

(* Reading comes to an end, on any file.                                   *)
ReadEnds == phase = "read" ~> phase = "end"
=============================================================================
