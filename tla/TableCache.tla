----------------------------- MODULE TableCache -----------------------------
(***************************************************************************)
(* The two uses of the cache of module LRUCache.  TableCache               *)
(* (db/table_cache.cc) keeps open tables in it: a miss opens the file      *)
(* without a lock, and an entry that is freed closes it.  Table::          *)
(* BlockReader (table/table.cc) keeps blocks in it, charged by their size. *)
(*                                                                         *)
(* A file is mapped, or keeps a descriptor, or is opened for every read:   *)
(* PosixEnv::NewRandomAccessFile (util/env_posix.cc) asks two Limiters in  *)
(* turn, whose counters are read and written without a lock.               *)
(***************************************************************************)
EXTENDS LRUCache

CONSTANTS
  Limit    \* per Limiter: max_acquires_

Kinds == {"mmap", "fd"}   \* mmap_limiter_ and fd_limiter_

ASSUME LimitAssumption == Limit \in [Kinds -> Nat]

VARIABLES
  use,        \* what the cache is for: "tables" or "blocks"
  allowed,    \* per Limiter: acquires_allowed_
  opening,    \* per client: where it is in NewRandomAccessFile, or the kind
              \* of the file it has opened; and whether by the old name
  fileOf,     \* per handle: the kind of its file
  returning   \* per Limiter: files closed and not yet released

limiterVars == <<allowed, opening, fileOf, returning>>
cacheVars == <<vars, use, limiterVars>>

NotOpening == [at |-> "none", sst |-> FALSE]

CacheInit ==
  /\ Init
  /\ use \in {"tables", "blocks"}
  /\ allowed = Limit
  /\ opening = [c \in Clients |-> NotOpening]
  /\ fileOf = [h \in Handles |-> "none"]
  /\ returning = [k \in Kinds |-> 0]

OpensAt(c, at) == opening' = [opening EXCEPT ![c].at = at]

(* ~PosixMmapReadableFile, ~PosixRandomAccessFile: the file is closed, and *)
(* its Limiter told afterwards.                                            *)
CloseFiles(kinds) ==
  returning' = [k \in Kinds |-> returning[k] + kinds[k]]
One(kind) == [k \in Kinds |-> IF k = kind THEN 1 ELSE 0]

(* DeleteEntry of every entry that the step frees; files are those of the  *)
(* entries there are now.                                                  *)
DeleteEntries(files) ==
  LET freed == alive \ alive'
  IN /\ CloseFiles([k \in Kinds |-> Cardinality({h \in freed : fileOf[h] = k})])
     /\ fileOf' = [h \in Handles |-> IF h \in freed THEN "none" ELSE files[h]]

Returned(k) ==
  /\ returning[k] > 0
  /\ returning' = [returning EXCEPT ![k] = @ - 1]
  /\ allowed' = [allowed EXCEPT ![k] = @ + 1]
  /\ UNCHANGED <<vars, opening, fileOf>>

-----------------------------------------------------------------------------
(* Limiter::Acquire: one step takes one, another gives it back if there    *)
(* was none.  Release gives one back.                                      *)

Acquire_OffByOne(c, k, got, full) ==   \* mutant: old_acquires_allowed >= 0
  /\ allowed' = [allowed EXCEPT ![k] = @ - 1]
  /\ OpensAt(c, IF allowed[k] >= 0 THEN got ELSE full)

Acquire(c, k, got, full) ==
  /\ allowed' = [allowed EXCEPT ![k] = @ - 1]
  /\ OpensAt(c, IF allowed[k] > 0 THEN got ELSE full)

GiveBack(k) == allowed' = [allowed EXCEPT ![k] = @ + 1]

(* NewRandomAccessFile: open, then ask for a mapping.                      *)
OpenFile(c) ==
  /\ opening[c].at = "start"
  /\ Acquire(c, "mmap", "map", "noMap")
  /\ UNCHANGED <<vars, fileOf, returning>>

NoMapping(c) ==
  /\ opening[c].at = "noMap"
  /\ GiveBack("mmap")
  /\ OpensAt(c, "askFd")
  /\ UNCHANGED <<vars, fileOf, returning>>

(* The constructor of PosixRandomAccessFile.                               *)
AskDescriptor(c) ==
  /\ opening[c].at = "askFd"
  /\ Acquire(c, "fd", "fd", "noFd")
  /\ UNCHANGED <<vars, fileOf, returning>>

NoDescriptor(c) ==   \* "The file will be opened on every read."
  /\ opening[c].at = "noFd"
  /\ GiveBack("fd")
  /\ OpensAt(c, "temporary")
  /\ UNCHANGED <<vars, fileOf, returning>>

MapFile(c) ==
  /\ opening[c].at = "map"
  /\ OpensAt(c, "mmap")
  /\ UNCHANGED <<vars, allowed, fileOf, returning>>

(* FindTable tries the old name of the file when the new one fails, and    *)
(* then gives up.                                                          *)
NextName(c) ==
  \/ /\ ~opening[c].sst
     /\ opening' = [opening EXCEPT ![c] = [at |-> "start", sst |-> TRUE]]
     /\ UNCHANGED vars
  \/ /\ opening[c].sst
     /\ opening' = [opening EXCEPT ![c] = NotOpening]
     /\ OpenFails(c)

CannotOpen(c) ==
  /\ opening[c].at = "start"
  /\ NextName(c)
  /\ UNCHANGED <<allowed, fileOf, returning>>

CannotMap(c) ==   \* GetFileSize or mmap fails: mmap_limiter_.Release()
  /\ opening[c].at = "map"
  /\ GiveBack("mmap")
  /\ NextName(c)
  /\ UNCHANGED <<fileOf, returning>>

-----------------------------------------------------------------------------
(* FindTable and the other functions of TableCache.                        *)

FindTableHit(c, k) == LookupHit(c, k) /\ UNCHANGED limiterVars

FindTableMiss(c, k) ==
  /\ LookupMiss(c, k)
  /\ OpensAt(c, "start")
  /\ UNCHANGED <<allowed, fileOf, returning>>

HasFile(c) == opening[c].at \in Kinds \cup {"temporary"}

(* Table::Open fails: delete file.                                         *)
TableOpenFails(c) ==
  /\ HasFile(c)
  /\ CloseFiles(One(opening[c].at))
  /\ opening' = [opening EXCEPT ![c] = NotOpening]
  /\ OpenFails(c)
  /\ UNCHANGED <<allowed, fileOf>>

FindTableInsert(c, e) ==
  /\ HasFile(c)
  /\ Insert(c, e, 1)
  /\ DeleteEntries([fileOf EXCEPT ![e] = opening[c].at])
  /\ opening' = [opening EXCEPT ![c] = NotOpening]
  /\ UNCHANGED allowed

(* What the cache does by itself, and Release and Erase: the iterator's    *)
(* cleanup or the end of Get; and Evict.                                   *)
CacheStep ==
  \/ \E c \in Clients : EvictOldest(c)
  \/ \E c \in Clients : InsertDone(c)
  \/ \E c \in Clients : Release(c)
  \/ \E c \in Clients, k \in Keys : Erase(c, k)
  \/ Destroy
  \/ DestroyOldest

TableCacheNext ==
  \/ \E c \in Clients, k \in Keys : FindTableHit(c, k)
  \/ \E c \in Clients, k \in Keys : FindTableMiss(c, k)
  \/ \E c \in Clients : OpenFile(c)
  \/ \E c \in Clients : NoMapping(c)
  \/ \E c \in Clients : AskDescriptor(c)
  \/ \E c \in Clients : NoDescriptor(c)
  \/ \E c \in Clients : MapFile(c)
  \/ \E c \in Clients : CannotOpen(c)
  \/ \E c \in Clients : CannotMap(c)
  \/ \E c \in Clients : TableOpenFails(c)
  \/ \E c \in Clients, e \in Handles : FindTableInsert(c, e)
  \/ CacheStep /\ DeleteEntries(fileOf) /\ UNCHANGED <<allowed, opening>>
  \/ \E k \in Kinds : Returned(k)

(* The block cache: clients look up, read the block and insert it.         *)
CacheNext ==
  /\ \/ use = "tables" /\ TableCacheNext
     \/ use = "blocks" /\ Next /\ UNCHANGED limiterVars
  /\ UNCHANGED use

CacheSpec == CacheInit /\ [][CacheNext]_cacheVars

-----------------------------------------------------------------------------
(* Properties.                                                             *)

(* Files of a kind that are open: in the cache or held by its clients, or  *)
(* just opened.                                                            *)
OpenFiles(k) ==
  Cardinality({h \in alive : fileOf[h] = k})
    + Cardinality({c \in Clients : opening[c].at = k})

(* Clients that have taken one from a Limiter and have no file yet.        *)
Asking(k) ==
  Cardinality({c \in Clients : opening[c].at \in
                 IF k = "mmap" THEN {"map", "noMap"} ELSE {"noFd"}})

(* However the steps of threads that open, replace, evict and erase tables *)
(* interleave, and whichever of them fail, no more files are mapped or     *)
(* kept open than the Limiters allow, every permit is accounted for, and   *)
(* none is given back twice (the assertions of Acquire and Release).       *)
PermitsExact ==
  \A k \in Kinds :
    /\ OpenFiles(k) <= Limit[k]
    /\ allowed[k] + OpenFiles(k) + Asking(k) + returning[k] = Limit[k]
=============================================================================
