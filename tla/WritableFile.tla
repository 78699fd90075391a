---------------------------- MODULE WritableFile ----------------------------
(***************************************************************************)
(* A file that is written through PosixWritableFile (util/env_posix.cc):   *)
(* a buffer in the process, the file as the kernel has it, and the part of *)
(* it that is on the medium.  One thread uses the file; what can come      *)
(* between its system calls is a crash of the process or the machine.      *)
(*                                                                         *)
(* Bytes are numbered in the order they are given to Append.  The files of *)
(* the directory are numbered as they are created; each byte of a MANIFEST *)
(* refers to the files created before it was appended.                     *)
(***************************************************************************)
EXTENDS Integers, Sequences

CONSTANTS
  BufferSize,    \* kWritableFileBufferSize
  AppendSizes,   \* bound: the sizes of Slices given to Append
  MaxBytes,      \* bound: bytes given to Append in all
  MaxFiles,      \* bound: files created in the directory
  MaxCrashes     \* bound: crashes

ASSUME FileAssumption ==
  /\ BufferSize \in Nat \ {0} /\ AppendSizes \subseteq Nat \ {0}
  /\ MaxBytes \in Nat /\ MaxFiles \in Nat /\ MaxCrashes \in Nat

VARIABLES
  isManifest,  \* is_manifest_
  buf,         \* buf_[0, pos_ - 1]
  call,        \* the call in progress, how far it is, and what it still has
               \* to write: to the kernel now, and after that
  file,        \* the contents of the file
  synced,      \* how much of it SyncFd has put on the medium
  appended,    \* bytes given to Append so far
  refers,      \* per byte: how many files the writer knew of
  base, start, \* file and appended when the file was opened
  intact,      \* nothing has failed on the way to the medium since
  acked,       \* what the file held according to the last good Sync
  created, dirSynced,   \* files of the directory; on the medium
  crashes

bytesVars == <<buf, file, synced, appended, refers>>
openVars == <<isManifest, base, start>>
dirVars == <<created, dirSynced>>
fileVars == <<bytesVars, openVars, dirVars, call, intact, acked, crashes>>

Ids(from, to) == [i \in 1 .. to - from |-> from + i]
First(s, n) == SubSeq(s, 1, n)          \* the first n, and the others
After(s, n) == SubSeq(s, n + 1, Len(s))

Idle == [op |-> "none", stage |-> "none", todo |-> <<>>, rest |-> <<>>]
Closed == [Idle EXCEPT !.op = "closed"]
Crashed == [Idle EXCEPT !.op = "crashed"]

(* NewWritableFile, of a MANIFEST or another file.                         *)
FileInit ==
  /\ isManifest \in BOOLEAN
  /\ buf = <<>> /\ call = Idle
  /\ file = <<>> /\ synced = 0 /\ appended = 0 /\ refers = <<>>
  /\ base = <<>> /\ start = 0 /\ intact = TRUE /\ acked = <<>>
  /\ created = 0 /\ dirSynced = 0 /\ crashes = 0

-----------------------------------------------------------------------------
(* The calls.                                                              *)

(* FlushBuffer begins: all of the buffer is to be written, then rest.      *)
FlushBuffer(op, b, rest) ==
  call' = [op |-> op, stage |-> "buffer", todo |-> b, rest |-> rest]

(* Fit as much as possible into the buffer; flush it if that is not all.   *)
AppendData(n) ==
  LET data == Ids(appended, appended + n)
      fits == IF n < BufferSize - Len(buf) THEN n ELSE BufferSize - Len(buf)
  IN /\ call = Idle /\ appended + n <= MaxBytes
     /\ appended' = appended + n
     /\ refers' = refers \o [i \in 1 .. n |-> created]
     /\ buf' = buf \o First(data, fits)
     /\ IF fits = n THEN UNCHANGED call
        ELSE FlushBuffer("append", buf', After(data, fits))
     /\ UNCHANGED <<file, synced, openVars, dirVars, intact, acked, crashes>>

Flush ==
  /\ call = Idle
  /\ FlushBuffer("flush", buf, <<>>)
  /\ UNCHANGED <<bytesVars, openVars, dirVars, intact, acked, crashes>>

(* Close, also by the destructor.                                          *)
Close ==
  /\ call = Idle
  /\ FlushBuffer("close", buf, <<>>)
  /\ UNCHANGED <<bytesVars, openVars, dirVars, intact, acked, crashes>>

(* Sync of a MANIFEST puts the directory on the medium first.              *)
SyncStart ==
  IF isManifest THEN [Idle EXCEPT !.op = "sync", !.stage = "dir"]
  ELSE [op |-> "sync", stage |-> "buffer", todo |-> buf, rest |-> <<>>]

Sync ==
  /\ call = Idle
  /\ call' = SyncStart
  /\ UNCHANGED <<bytesVars, openVars, dirVars, intact, acked, crashes>>

SyncDirIfManifest_Unsynced ==   \* mutant: the directory is only opened
  /\ call.stage = "dir"
  /\ FlushBuffer("sync", buf, <<>>)
  /\ UNCHANGED <<bytesVars, openVars, dirVars, intact, acked, crashes>>

SyncDirIfManifest ==
  /\ call.stage = "dir"
  /\ dirSynced' = created
  /\ FlushBuffer("sync", buf, <<>>)
  /\ UNCHANGED <<bytesVars, openVars, created, intact, acked, crashes>>

SyncDirFails ==   \* nothing of the file is lost by it
  /\ call.stage = "dir"
  /\ call' = Idle
  /\ UNCHANGED <<bytesVars, openVars, dirVars, intact, acked, crashes>>

-----------------------------------------------------------------------------
(* WriteUnbuffered: the kernel takes as much as it likes of what is left.  *)
(* An interrupted write changes nothing.                                   *)

WriteUnbuffered_Short(w) ==   \* mutant: a short write is taken for all
  /\ call.stage \in {"buffer", "direct"} /\ w \in 1 .. Len(call.todo)
  /\ file' = file \o First(call.todo, w)
  /\ call' = [call EXCEPT !.todo = <<>>]
  /\ UNCHANGED <<buf, synced, appended, refers, openVars, dirVars, intact,
                 acked, crashes>>

WriteUnbuffered(w) ==
  /\ call.stage \in {"buffer", "direct"} /\ w \in 1 .. Len(call.todo)
  /\ file' = file \o First(call.todo, w)
  /\ call' = [call EXCEPT !.todo = After(@, w)]
  /\ UNCHANGED <<buf, synced, appended, refers, openVars, dirVars, intact,
                 acked, crashes>>

(* An error: what is left, and the buffer, is dropped.  Close goes on.     *)
WriteFails ==
  /\ call.stage \in {"buffer", "direct"} /\ call.todo # <<>>
  /\ intact' = FALSE
  /\ buf' = <<>>
  /\ call' = IF call.op = "close" THEN Closed ELSE Idle
  /\ UNCHANGED <<file, synced, appended, refers, openVars, dirVars, acked,
                 crashes>>

(* FlushBuffer has written all: the rest of an Append goes to the buffer   *)
(* or, when it is large, directly to the file; Sync and Close go on.       *)
BufferFlushed ==
  /\ call.stage = "buffer" /\ call.todo = <<>>
  /\ buf' = IF Len(call.rest) < BufferSize THEN call.rest ELSE <<>>
  /\ call' = CASE call.op = "sync" -> [call EXCEPT !.stage = "fsync"]
               [] call.op = "close" -> Closed
               [] Len(call.rest) >= BufferSize ->
                    [call EXCEPT !.stage = "direct", !.todo = call.rest,
                                 !.rest = <<>>]
               [] OTHER -> Idle
  /\ UNCHANGED <<file, synced, appended, refers, openVars, dirVars, intact,
                 acked, crashes>>

DirectDone ==
  /\ call.stage = "direct" /\ call.todo = <<>>
  /\ call' = Idle
  /\ UNCHANGED <<bytesVars, openVars, dirVars, intact, acked, crashes>>

(* What the caller takes the file to be.                                   *)
Contents == base \o Ids(start, appended)

(* SyncFd.  After a failure nobody knows what the kernel still has to put  *)
(* on the medium, so a later success covers nothing more.                  *)
SyncFd ==
  /\ call.stage = "fsync"
  /\ call' = Idle
  /\ \/ /\ synced' = IF intact THEN Len(file) ELSE synced
        /\ acked' = IF intact THEN Contents ELSE acked
        /\ UNCHANGED intact
     \/ intact' = FALSE /\ UNCHANGED <<synced, acked>>
  /\ UNCHANGED <<buf, file, appended, refers, openVars, dirVars, crashes>>

-----------------------------------------------------------------------------
(* Around the file: another thread creates a file; the process, or the     *)
(* machine, crashes; the file is opened again.                             *)

CreateFile ==
  /\ isManifest /\ call # Crashed /\ created < MaxFiles
  /\ created' = created + 1
  /\ UNCHANGED <<bytesVars, openVars, dirSynced, call, intact, acked, crashes>>

(* What was not synced may be there afterwards or not.                     *)
Crash ==
  /\ call \notin {Closed, Crashed} /\ crashes < MaxCrashes
  /\ crashes' = crashes + 1
  /\ call' = Crashed /\ buf' = <<>>
  /\ \E n \in synced .. Len(file) : file' = First(file, n)
  /\ created' \in dirSynced .. created
  /\ UNCHANGED <<synced, appended, refers, openVars, dirSynced, intact, acked>>

(* NewAppendableFile.  A MANIFEST that names missing files is not used.    *)
NewAppendableFile ==
  /\ call \in {Closed, Crashed}
  /\ isManifest => \A i \in DOMAIN file : refers[file[i]] <= created
  /\ call' = Idle
  /\ base' = file /\ start' = appended /\ intact' = TRUE
  /\ crashes < MaxCrashes \/ call = Crashed   \* bound: opened again so often
  /\ UNCHANGED <<bytesVars, isManifest, dirVars, acked, crashes>>

(* NewWritableFile gives an empty file.                                    *)
NewWritableFile ==
  /\ call = Crashed
  /\ call' = Idle
  /\ file' = <<>> /\ synced' = 0 /\ acked' = <<>>
  /\ base' = <<>> /\ start' = appended /\ intact' = TRUE
  /\ UNCHANGED <<buf, appended, refers, isManifest, dirVars, crashes>>

FileNext ==
  \/ \E n \in AppendSizes : AppendData(n)
  \/ Flush
  \/ Close
  \/ Sync
  \/ SyncDirIfManifest
  \/ SyncDirFails
  \/ \E w \in 1 .. MaxBytes : WriteUnbuffered(w)
  \/ WriteFails
  \/ BufferFlushed
  \/ DirectDone
  \/ SyncFd
  \/ CreateFile
  \/ Crash
  \/ NewAppendableFile
  \/ NewWritableFile

FileSpec == FileInit /\ [][FileNext]_fileVars

-----------------------------------------------------------------------------
(* Properties.                                                             *)

Pending == IF call.stage \in {"buffer", "direct"} THEN call.todo \o call.rest
           ELSE buf

Prefix(s, t) == Len(s) <= Len(t) /\ First(t, Len(s)) = s

(* Through short writes, full buffers and Slices larger than the buffer    *)
(* the file and what is pending are what was appended, each byte once and  *)
(* in order, until an operation fails; also then the file has no byte      *)
(* twice and none before an earlier one.                                   *)
AppendedInOrder ==
  /\ intact /\ call # Crashed => file \o Pending = Contents
  /\ \A i, j \in DOMAIN file : i < j => file[i] < file[j]
  /\ Len(buf) <= BufferSize

(* After a Sync that returned OK, when nothing had failed before, all that *)
(* had been appended is in the part of the file that no crash takes away;  *)
(* and (the comment in Sync) the part of a MANIFEST that Sync has put on   *)
(* the medium refers to no file whose directory entry is not there, too.   *)
SyncedSurvives ==
  /\ Len(acked) <= synced /\ Prefix(acked, file)
  /\ isManifest => \A i \in 1 .. synced : refers[file[i]] <= dirSynced
=============================================================================
