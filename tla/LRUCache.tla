------------------------------ MODULE LRUCache ------------------------------
(***************************************************************************)
(* One shard of the cache (util/cache.cc) and its clients: readers that    *)
(* find tables through TableCache::FindTable (db/table_cache.cc), which    *)
(* looks a key up, opens the file without a lock when it is not there, and *)
(* inserts it; and RemoveObsoleteFiles, which erases.                      *)
(*                                                                         *)
(* All operations hold mutex_; the loops of Insert and Prune are steps of  *)
(* their own, and one client owns the mutex between them.  A handle is an  *)
(* address: malloc gives one that is not in use, perhaps one freed before. *)
(* The hash table is the function it implements.  A client here holds at   *)
(* most one handle; a thread that holds several is several clients.        *)
(***************************************************************************)
EXTENDS Integers, Sequences, FiniteSets

CONSTANTS
  Clients,    \* threads, or handles a thread holds at a time
  Keys,
  Handles,    \* addresses of LRUHandles
  Charges,    \* what an entry may be charged
  Capacities, \* what the cache may be created with; 0 turns caching off
  Nil         \* nullptr, and nobody

ASSUME LRUAssumption ==
  /\ IsFiniteSet(Clients)
  /\ Keys # {}
  /\ Charges \subseteq Nat /\ Capacities \subseteq Nat
  /\ Nil \notin Handles /\ Nil \notin Clients

VARIABLES
  alive,      \* handles allocated and not freed
  key, charge, refs, inCache,   \* per handle: the fields of LRUHandle
  table,      \* table_: key -> handle or Nil
  lru,        \* lru_, the oldest entry first
  inUse,      \* in_use_, in no particular order
  usage,      \* usage_
  capacity,   \* capacity_, which SetCapacity sets once
  mutex,      \* the client between two steps of one operation, or Nil
  pc, want,   \* per client: where it is; the key it is about to insert
  held,       \* per client: the handle it has to release, or Nil
  destroyed   \* ~LRUCache has begun

fields == <<key, charge, refs, inCache>>
lists == <<table, lru, inUse, usage>>
clientVars == <<pc, want, held>>
vars == <<alive, fields, lists, mutex, clientVars, capacity,
          destroyed>>

-----------------------------------------------------------------------------
InList(s, e) == \E i \in DOMAIN s : s[i] = e

(* LRU_Remove of an entry that may be on the list.                         *)
LRU_Remove(s, e) ==
  IF InList(s, e)
  THEN LET p == CHOOSE i \in DOMAIN s : s[i] = e
       IN [i \in 1 .. Len(s) - 1 |-> IF i < p THEN s[i] ELSE s[i + 1]]
  ELSE s

LRU_Append(s, e) == Append(s, e)

Init ==
  /\ alive = {}
  /\ key = [h \in Handles |-> CHOOSE k \in Keys : TRUE]
  /\ charge = [h \in Handles |-> 0] /\ refs = [h \in Handles |-> 0]
  /\ inCache = [h \in Handles |-> FALSE]
  /\ table = [k \in Keys |-> Nil]
  /\ lru = <<>> /\ inUse = {} /\ usage = 0 /\ capacity \in Capacities
  /\ mutex = Nil
  /\ pc = [c \in Clients |-> "idle"]
  /\ want = [c \in Clients |-> CHOOSE k \in Keys : TRUE]
  /\ held = [c \in Clients |-> Nil]
  /\ destroyed = FALSE

(* A client that may call the cache: it has the mutex for the taking.      *)
May(c, where) == ~destroyed /\ mutex = Nil /\ pc[c] = where

Goes(c, where) == pc' = [pc EXCEPT ![c] = where]

-----------------------------------------------------------------------------
(* Lookup.  Ref moves an entry that only the cache held to in_use_.        *)

Ref_NoMove(e) ==   \* mutant: the entry stays on lru_
  /\ refs' = [refs EXCEPT ![e] = @ + 1]
  /\ UNCHANGED <<lru, inUse>>

Ref(e) ==
  /\ refs' = [refs EXCEPT ![e] = @ + 1]
  /\ IF refs[e] = 1 /\ inCache[e]
     THEN lru' = LRU_Remove(lru, e) /\ inUse' = inUse \cup {e}
     ELSE UNCHANGED <<lru, inUse>>

LookupHit(c, k) ==
  /\ May(c, "idle") /\ table[k] # Nil
  /\ Ref(table[k])
  /\ held' = [held EXCEPT ![c] = table[k]]
  /\ Goes(c, "holding")
  /\ UNCHANGED <<alive, key, charge, inCache, table, usage, mutex, want,
                 capacity, destroyed>>

LookupMiss(c, k) ==
  /\ May(c, "idle") /\ table[k] = Nil
  /\ want' = [want EXCEPT ![c] = k]
  /\ Goes(c, "missed")
  /\ UNCHANGED <<alive, fields, lists, mutex, held, capacity, destroyed>>

(* FindTable cannot open the file; errors are not cached.                  *)
OpenFails(c) ==
  /\ pc[c] = "missed" /\ ~destroyed
  /\ Goes(c, "idle")
  /\ UNCHANGED <<alive, fields, lists, mutex, want, held, capacity, destroyed>>

-----------------------------------------------------------------------------
(* FinishErase takes an entry, already out of the table, off its list and  *)
(* gives up the cache's reference; the last reference frees it.            *)

(* The handle that goes when old loses the cache's reference.              *)
Freed(old) == IF old # Nil /\ refs[old] = 1 THEN {old} ELSE {}
ChargeOf(old) == IF old = Nil THEN 0 ELSE charge[old]

FinishErase_Freed(old) ==   \* mutant: freed although it is in use
  /\ alive' = alive \ {old}
  /\ refs' = [h \in Handles |-> IF h = old THEN refs[h] - 1 ELSE refs[h]]
  /\ inCache' = [h \in Handles |-> IF h = old THEN FALSE ELSE inCache[h]]
  /\ lru' = LRU_Remove(lru, old) /\ inUse' = inUse \ {old}
  /\ usage' = usage - ChargeOf(old)

FinishErase(old) ==
  /\ alive' = alive \ Freed(old)
  /\ refs' = [h \in Handles |-> IF h = old THEN refs[h] - 1 ELSE refs[h]]
  /\ inCache' = [h \in Handles |-> IF h = old THEN FALSE ELSE inCache[h]]
  /\ lru' = LRU_Remove(lru, old) /\ inUse' = inUse \ {old}
  /\ usage' = usage - ChargeOf(old)

(* Insert: a new handle with a reference for the caller and one for the    *)
(* cache; an entry with the same key is erased.  Then the loop that evicts *)
(* from lru_ while there is too much.                                      *)

InsertedRefs(e, old) ==
  [h \in Handles |->
     IF h = e THEN 2 ELSE IF h = old THEN refs[h] - 1 ELSE refs[h]]

InsertedUsage_Keep(ch, old) == usage + ch   \* mutant: the old charge stays

InsertedUsage(ch, old) == usage + ch - ChargeOf(old)

InsertEntry(c, e, ch) ==
  LET old == table[want[c]]
  IN /\ alive' = (alive \ Freed(old)) \cup {e}
     /\ refs' = InsertedRefs(e, old)
     /\ inCache' = [h \in Handles |-> IF h = e THEN TRUE
                                      ELSE IF h = old THEN FALSE
                                      ELSE inCache[h]]
     /\ lru' = LRU_Remove(lru, old)
     /\ inUse' = (inUse \ {old}) \cup {e}
     /\ usage' = InsertedUsage(ch, old)
     /\ table' = [table EXCEPT ![want[c]] = e]

(* With capacity 0 the entry belongs to its caller only.                   *)
InsertUncached(e) ==
  /\ alive' = alive \cup {e}
  /\ refs' = [refs EXCEPT ![e] = 1]
  /\ inCache' = [inCache EXCEPT ![e] = FALSE]
  /\ UNCHANGED lists

Insert(c, e, ch) ==
  /\ May(c, "missed") /\ e \notin alive
  /\ IF capacity > 0 THEN InsertEntry(c, e, ch) ELSE InsertUncached(e)
  /\ key' = [key EXCEPT ![e] = want[c]]
  /\ charge' = [charge EXCEPT ![e] = ch]
  /\ held' = [held EXCEPT ![c] = e]
  /\ mutex' = c
  /\ Goes(c, "evict")
  /\ UNCHANGED <<want, capacity, destroyed>>

(* table_.Remove(old->key()) and FinishErase of what it returns.           *)

RemoveKey(k) ==
  /\ FinishErase(table[k])
  /\ table' = [table EXCEPT ![k] = Nil]
  /\ UNCHANGED <<key, charge, capacity, destroyed>>

EvictOldest(c) ==
  /\ pc[c] = "evict" /\ usage > capacity /\ lru # <<>>
  /\ RemoveKey(key[lru[1]])
  /\ UNCHANGED <<mutex, clientVars>>

InsertDone(c) ==
  /\ pc[c] = "evict" /\ (usage <= capacity \/ lru = <<>>)
  /\ mutex' = Nil
  /\ Goes(c, "holding")
  /\ UNCHANGED <<alive, fields, lists, want, held, capacity, destroyed>>

-----------------------------------------------------------------------------
(* Release: Unref.  An entry that only the cache holds now becomes the     *)
(* newest of lru_.                                                         *)

Unref(e) ==
  /\ refs' = [refs EXCEPT ![e] = @ - 1]
  /\ alive' = IF refs[e] = 1 THEN alive \ {e} ELSE alive
  /\ IF inCache[e] /\ refs[e] = 2
     THEN lru' = LRU_Append(lru, e) /\ inUse' = inUse \ {e}
     ELSE UNCHANGED <<lru, inUse>>

Release(c) ==
  /\ May(c, "holding")
  /\ Unref(held[c])
  /\ held' = [held EXCEPT ![c] = Nil]
  /\ Goes(c, "idle")
  /\ UNCHANGED <<key, charge, inCache, table, usage, mutex, want, capacity,
                 destroyed>>

(* Erase, as TableCache::Evict calls it.                                   *)
Erase(c, k) ==
  /\ May(c, "idle")
  /\ RemoveKey(k)
  /\ UNCHANGED <<mutex, clientVars>>

Prune(c) ==
  /\ May(c, "idle")
  /\ mutex' = c
  /\ Goes(c, "prune")
  /\ UNCHANGED <<alive, fields, lists, want, held, capacity, destroyed>>

PruneOldest(c) ==
  /\ pc[c] = "prune" /\ lru # <<>>
  /\ RemoveKey(key[lru[1]])
  /\ UNCHANGED <<mutex, clientVars>>

PruneDone(c) ==
  /\ pc[c] = "prune" /\ lru = <<>>
  /\ mutex' = Nil
  /\ Goes(c, "idle")
  /\ UNCHANGED <<alive, fields, lists, want, held, capacity, destroyed>>

(* ~LRUCache, when every client is done: the loop over lru_.               *)
Destroy ==
  /\ ~destroyed /\ mutex = Nil /\ \A c \in Clients : pc[c] = "idle"
  /\ destroyed' = TRUE
  /\ UNCHANGED <<alive, fields, lists, mutex, clientVars, capacity>>

DestroyOldest ==
  /\ destroyed /\ lru # <<>>
  /\ inCache' = [inCache EXCEPT ![lru[1]] = FALSE]
  /\ refs' = [refs EXCEPT ![lru[1]] = @ - 1]
  /\ alive' = alive \ Freed(lru[1])
  /\ lru' = LRU_Remove(lru, lru[1])
  /\ UNCHANGED <<key, charge, table, inUse, usage, mutex, clientVars, capacity,
                 destroyed>>

Next ==
  \/ \E c \in Clients, k \in Keys : LookupHit(c, k)
  \/ \E c \in Clients, k \in Keys : LookupMiss(c, k)
  \/ \E c \in Clients : OpenFails(c)
  \/ \E c \in Clients, e \in Handles, ch \in Charges : Insert(c, e, ch)
  \/ \E c \in Clients : EvictOldest(c)
  \/ \E c \in Clients : InsertDone(c)
  \/ \E c \in Clients : Release(c)
  \/ \E c \in Clients, k \in Keys : Erase(c, k)
  \/ \E c \in Clients : Prune(c)
  \/ \E c \in Clients : PruneOldest(c)
  \/ \E c \in Clients : PruneDone(c)
  \/ Destroy
  \/ DestroyOldest

Spec == Init /\ [][Next]_vars

-----------------------------------------------------------------------------
(* Properties.                                                             *)

HandleTypes ==
  /\ alive \subseteq Handles
  /\ key \in [Handles -> Keys] /\ charge \in [Handles -> Nat]
  /\ refs \in [Handles -> Nat] /\ inCache \in [Handles -> BOOLEAN]

ListTypes ==
  /\ table \in [Keys -> Handles \cup {Nil}]
  /\ lru \in Seq(Handles) /\ inUse \subseteq Handles
  /\ usage \in Int /\ capacity \in Nat

ClientTypes ==
  /\ mutex \in Clients \cup {Nil}
  /\ pc \in [Clients -> {"idle", "missed", "evict", "holding", "prune"}]
  /\ want \in [Clients -> Keys]
  /\ held \in [Clients -> Handles \cup {Nil}]
  /\ destroyed \in BOOLEAN

(* Every variable has its type; refs never falls below 0 (the assertion of *)
(* Unref).                                                                 *)
TypeOK == HandleTypes /\ ListTypes /\ ClientTypes

Holders(h) == {c \in Clients : held[c] = h}

(* References are counted exactly: one for the cache, if it has the entry, *)
(* and one for each client, through every order of Insert over an old      *)
(* entry, Erase, eviction and Release.                                     *)
RefsExact ==
  \A h \in alive :
    refs[h] = Cardinality(Holders(h)) + (IF inCache[h] THEN 1 ELSE 0)

(* No client ever has a handle that was freed, although the entry may have *)
(* been evicted, erased or replaced while it holds it.                     *)
NoUseAfterFree == \A c \in Clients : held[c] # Nil => held[c] \in alive

(* Whatever is not freed is still reachable, from the cache or a client:   *)
(* nothing leaks.                                                          *)
NoLeak == \A h \in alive : inCache[h] \/ \E c \in Clients : held[c] = h

Distinct(s) == \A i, j \in DOMAIN s : s[i] = s[j] => i = j

(* The comments at lru_ and in_use_: entries on lru_ have refs == 1 and    *)
(* those on in_use_ refs >= 2, and both are in the cache; and an entry of  *)
(* the cache is on one of them.  This is what the assertions of Insert,    *)
(* Prune and ~LRUCache rest on.                                            *)
ListsExact ==
  /\ \A h \in Handles : InList(lru, h) => h \in alive /\ inCache[h] /\ refs[h] = 1
  /\ \A h \in inUse : h \in alive /\ inCache[h] /\ refs[h] >= 2
  /\ \A h \in alive : inCache[h] => InList(lru, h) \/ h \in inUse
  /\ Distinct(lru)

(* The table finds exactly the entries of the cache, under their keys, so  *)
(* the entry that eviction looks up by the key of the oldest is the oldest *)
(* (the assertion erased).                                                 *)
TableExact ==
  ~destroyed =>
    /\ \A k \in Keys : table[k] # Nil =>
         table[k] \in alive /\ inCache[table[k]] /\ key[table[k]] = k
    /\ \A h \in alive : inCache[h] => table[key[h]] = h

(* The counts, the two lists and the table agree after every sequence of   *)
(* Insert, Lookup, Release, Erase, Prune and eviction, whoever holds what. *)
CacheExact == RefsExact /\ NoLeak /\ ListsExact /\ TableExact

(* The charges of the entries, unit by unit.                               *)
Units(H, ch) == UNION {{h} \X (1 .. ch[h]) : h \in H}

(* usage_ is the sum of the charges of the entries of the cache, and with  *)
(* that never wraps below 0.                                               *)
UsageExact ==
  ~destroyed =>
    usage = Cardinality(Units({h \in alive : inCache[h]}, charge))
=============================================================================
