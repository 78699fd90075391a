--------------------------- MODULE LRUCacheProofs ---------------------------
(***************************************************************************)
(* Proofs about the cache, for any finite set of clients, any keys,        *)
(* handles, charges and capacities: TypeOK, RefsExact, NoUseAfterFree,     *)
(* NoLeak, ListsExact, TableExact and UsageExact hold in every behaviour   *)
(* of Spec.                                                                *)
(*                                                                         *)
(* They hold together or not at all.  A handle is freed when its count     *)
(* falls to 0, so that nobody has it needs RefsExact; that eviction frees  *)
(* the entry it looked at, and not the one a table found under the same    *)
(* key, needs TableExact; and that the entry has no client needs           *)
(* ListsExact.  IInv adds what a client's position says of mutex_ and of   *)
(* the handle it has.  usage_ follows: an entry leaves the cache only      *)
(* through the table, with its charge.                                     *)
(***************************************************************************)
EXTENDS LRUCache, FiniteSetTheorems, TLAPS

Pcs ==
  /\ \A c \in Clients : pc[c] \in {"evict", "prune"} => mutex = c
  /\ \A c \in Clients : held[c] # Nil <=> pc[c] \in {"evict", "holding"}
  /\ destroyed => \A c \in Clients : pc[c] = "idle"

Counted == \A h \in alive : refs[h] > 0

Count(h) == Cardinality(Holders(h))

IInv ==
  /\ TypeOK /\ Pcs /\ Counted
  /\ RefsExact /\ NoUseAfterFree /\ ListsExact /\ TableExact

-----------------------------------------------------------------------------
(* Facts about the operators.                                              *)

(* LRU_Remove leaves the other entries of a list, each once.               *)
LEMMA RemoveFacts ==
  ASSUME NEW S, NEW s \in Seq(S), NEW e, Distinct(s)
  PROVE  /\ LRU_Remove(s, e) \in Seq(S)
         /\ Distinct(LRU_Remove(s, e))
         /\ \A h : InList(LRU_Remove(s, e), h) <=> InList(s, h) /\ h # e
<1>1. CASE ~InList(s, e)
  BY <1>1 DEF LRU_Remove, InList
<1>2. CASE InList(s, e)
  <2> DEFINE p == CHOOSE i \in DOMAIN s : s[i] = e
             t == [i \in 1 .. Len(s) - 1 |-> IF i < p THEN s[i] ELSE s[i + 1]]
  <2>1. p \in 1 .. Len(s) /\ s[p] = e
    BY <1>2 DEF InList
  <2>2. LRU_Remove(s, e) = t
    BY <1>2 DEF LRU_Remove
  <2> HIDE DEF p
  <2>3. Len(s) \in Nat /\ Len(s) - 1 \in Nat
    BY <2>1
  <2>4. t \in Seq(S)
    BY <2>1, <2>3
  <2>5. DOMAIN t = 1 .. Len(s) - 1 /\ DOMAIN s = 1 .. Len(s)
    OBVIOUS
  <2>6. Distinct(t)
    BY <2>1, <2>3, <2>5 DEF Distinct
  <2>7. ASSUME NEW h, InList(t, h) PROVE InList(s, h) /\ h # e
    BY <2>1, <2>3, <2>5, <2>7 DEF InList, Distinct
  <2>8. ASSUME NEW h, InList(s, h), h # e PROVE InList(t, h)
    <3>1. PICK i \in 1 .. Len(s) : s[i] = h
      BY <2>5, <2>8 DEF InList
    <3>2. CASE i < p
      <4>1. i \in DOMAIN t /\ t[i] = h
        BY <2>1, <2>3, <3>1, <3>2
      <4> QED BY <4>1 DEF InList
    <3>3. CASE i > p
      <4>1. i - 1 \in DOMAIN t /\ t[i - 1] = h
        BY <2>1, <2>3, <3>1, <3>3
      <4> QED BY <4>1 DEF InList
    <3>4. i # p
      BY <2>1, <2>8, <3>1
    <3> QED BY <2>1, <3>1, <3>2, <3>3, <3>4
  <2> QED BY <2>2, <2>4, <2>6, <2>7, <2>8
<1> QED BY <1>1, <1>2

(* LRU_Append adds one entry.                                              *)
LEMMA AppendFacts ==
  ASSUME NEW S, NEW s \in Seq(S), NEW e \in S, Distinct(s), ~InList(s, e)
  PROVE  /\ LRU_Append(s, e) \in Seq(S)
         /\ Distinct(LRU_Append(s, e))
         /\ \A h : InList(LRU_Append(s, e), h) <=> InList(s, h) \/ h = e
<1> DEFINE t == Append(s, e)
<1>1. t \in Seq(S) /\ DOMAIN t = 1 .. Len(s) + 1 /\ DOMAIN s = 1 .. Len(s)
  OBVIOUS
<1>2. t[Len(s) + 1] = e /\ \A i \in 1 .. Len(s) : t[i] = s[i]
  OBVIOUS
<1>3. Len(s) \in Nat
  OBVIOUS
<1> HIDE DEF t
<1>4. Distinct(t)
  BY <1>1, <1>2, <1>3 DEF Distinct, InList
<1>5. \A h : InList(t, h) <=> InList(s, h) \/ h = e
  BY <1>1, <1>2, <1>3 DEF InList
<1> QED BY <1>1, <1>4, <1>5 DEF LRU_Append, t

(* A handle's count is a number, 0 only when nobody has it.                *)
LEMMA CountType ==
  ASSUME NEW h
  PROVE  /\ Count(h) \in Nat
         /\ Count(h) = 0 <=> \A c \in Clients : held[c] # h
<1>1. IsFiniteSet(Holders(h))
  BY FS_Subset, LRUAssumption DEF Holders
<1> QED BY <1>1, FS_CardinalityType, FS_EmptySet DEF Count, Holders

(* The same after a step.                                                  *)
LEMMA CountTypeNext ==
  ASSUME NEW h
  PROVE  /\ Count(h)' \in Nat
         /\ Count(h)' = 0 <=> \A c \in Clients : held'[c] # h
<1>1. IsFiniteSet(Holders(h)')
  BY FS_Subset, LRUAssumption DEF Holders
<1> QED BY <1>1, FS_CardinalityType, FS_EmptySet DEF Count, Holders

(* A client that gets a handle adds one to its count.                      *)
LEMMA CountUp ==
  ASSUME ClientTypes, NEW c \in Clients, NEW e, e # Nil, held[c] = Nil,
         held' = [held EXCEPT ![c] = e]
  PROVE  /\ Count(e)' = Count(e) + 1
         /\ \A h : h # e /\ h # Nil => Count(h)' = Count(h)
<1>1. Holders(e)' = Holders(e) \cup {c} /\ c \notin Holders(e)
  BY DEF Holders, ClientTypes
<1>2. IsFiniteSet(Holders(e))
  BY FS_Subset, LRUAssumption DEF Holders
<1>3. Count(e)' = Count(e) + 1
  BY <1>1, <1>2, FS_AddElement DEF Count
<1>4. ASSUME NEW h, h # e, h # Nil PROVE Holders(h)' = Holders(h)
  BY <1>4 DEF Holders, ClientTypes
<1> QED BY <1>3, <1>4 DEF Count

(* A client that releases a handle takes one from its count.               *)
LEMMA CountDown ==
  ASSUME ClientTypes, NEW c \in Clients, NEW e, e # Nil, held[c] = e,
         held' = [held EXCEPT ![c] = Nil]
  PROVE  /\ Count(e)' = Count(e) - 1
         /\ \A h : h # e /\ h # Nil => Count(h)' = Count(h)
<1>1. Holders(e)' = Holders(e) \ {c} /\ c \in Holders(e)
  BY DEF Holders, ClientTypes
<1>2. IsFiniteSet(Holders(e))
  BY FS_Subset, LRUAssumption DEF Holders
<1>3. Count(e)' = Count(e) - 1
  BY <1>1, <1>2, FS_RemoveElement DEF Count
<1>4. ASSUME NEW h, h # e, h # Nil PROVE Holders(h)' = Holders(h)
  BY <1>4 DEF Holders, ClientTypes
<1> QED BY <1>3, <1>4 DEF Count

-----------------------------------------------------------------------------
(* Steps.                                                                  *)

(* The cache starts in IInv.                                               *)
LEMMA InitInv == Init => IInv
<1> SUFFICES ASSUME Init PROVE IInv
  OBVIOUS
<1> USE LRUAssumption DEF Init
<1>1. HandleTypes
  BY DEF HandleTypes
<1>2. ListTypes
  BY DEF ListTypes
<1>3. ClientTypes
  BY DEF ClientTypes
<1>4. Pcs /\ Counted /\ RefsExact /\ NoUseAfterFree /\ TableExact
  BY DEF Pcs, Counted, RefsExact, NoUseAfterFree, TableExact
<1>5. ListsExact
  BY DEF ListsExact, InList, Distinct
<1> QED BY <1>1, <1>2, <1>3, <1>4, <1>5 DEF IInv, TypeOK

(* What IInv says of an entry the cache gives up.                          *)
LEMMA EntryFacts ==
  ASSUME IInv
  PROVE  /\ \A h \in alive : Count(h) \in Nat /\ refs[h] \in Nat
         /\ \A h \in alive : refs[h] = 1 /\ inCache[h] =>
                               \A c \in Clients : held[c] # h
         /\ \A h \in Handles \ alive : \A c \in Clients : held[c] # h
         /\ \A c \in Clients : held[c] \in alive =>
              Count(held[c]) >= 1
<1>1. \A h : Count(h) \in Nat /\ (Count(h) = 0 <=> \A c \in Clients : held[c] # h)
  BY CountType
<1> QED BY <1>1, LRUAssumption
        DEF IInv, TypeOK, HandleTypes, ClientTypes, RefsExact, NoUseAfterFree, Count

(* Erasing a key, in Erase, in the loop of Insert and in Prune.            *)
LEMMA RemoveKeyInv ==
  ASSUME IInv, ~destroyed, NEW k \in Keys, RemoveKey(k),
         UNCHANGED <<mutex, clientVars>>
  PROVE  IInv'
<1> PICK old : old = table[k]
  OBVIOUS
<1>1. /\ old \in Handles \cup {Nil}
      /\ old # Nil => old \in alive /\ inCache[old] /\ key[old] = k /\ refs[old] > 0
      /\ Nil \notin Handles
  BY LRUAssumption DEF IInv, TypeOK, ListTypes, TableExact, Counted
<1>2. /\ alive' = alive \ Freed(old)
      /\ refs' = [h \in Handles |-> IF h = old THEN refs[h] - 1 ELSE refs[h]]
      /\ inCache' = [h \in Handles |-> IF h = old THEN FALSE ELSE inCache[h]]
      /\ lru' = LRU_Remove(lru, old) /\ inUse' = inUse \ {old}
      /\ usage' = usage - ChargeOf(old)
      /\ table' = [table EXCEPT ![k] = Nil]
      /\ UNCHANGED <<key, charge, capacity, destroyed, mutex, pc, want, held>>
  BY DEF RemoveKey, FinishErase, clientVars
<1>3. /\ LRU_Remove(lru, old) \in Seq(Handles)
      /\ Distinct(LRU_Remove(lru, old))
      /\ \A h : InList(LRU_Remove(lru, old), h) <=> InList(lru, h) /\ h # old
  BY RemoveFacts DEF IInv, TypeOK, ListTypes, ListsExact
<1>4. ASSUME NEW h \in alive'
      PROVE  /\ h \in alive /\ h \in Handles /\ (h = old => refs[h] > 1)
             /\ h = old => refs'[h] = refs[h] - 1 /\ ~inCache'[h] /\ inCache[h]
             /\ h # old => refs'[h] = refs[h] /\ inCache'[h] = inCache[h]
             /\ refs[h] \in Nat /\ refs[h] > 0
  <2>1. h \in alive /\ h \in Handles
    BY <1>2, <1>4 DEF IInv, TypeOK, HandleTypes
  <2>2. refs[h] \in Nat /\ refs[h] > 0
    BY <2>1 DEF IInv, TypeOK, HandleTypes, Counted
  <2>3. h = old => refs[h] # 1
    BY <1>1, <1>2, <1>4, <2>1 DEF Freed
  <2>4. h = old => refs[h] > 1 /\ refs'[h] = refs[h] - 1
    BY <1>2, <2>1, <2>2, <2>3
  <2>5. h = old => ~inCache'[h] /\ inCache[h]
    BY <1>1, <1>2, <2>1
  <2>6. h # old => refs'[h] = refs[h] /\ inCache'[h] = inCache[h]
    BY <1>2, <2>1
  <2> QED BY <2>1, <2>2, <2>4, <2>5, <2>6
<1>5. HandleTypes'
  <2>1. refs \in [Handles -> Nat] /\ alive \subseteq Handles
    BY DEF IInv, TypeOK, HandleTypes
  <2>2. refs' \in [Handles -> Nat]
    BY <1>1, <1>2, <2>1
  <2>3. inCache' \in [Handles -> BOOLEAN]
    BY <1>2 DEF IInv, TypeOK, HandleTypes
  <2> QED BY <1>2, <2>1, <2>2, <2>3 DEF IInv, TypeOK, HandleTypes
<1>6. ListTypes'
  BY <1>1, <1>2, <1>3, LRUAssumption DEF IInv, TypeOK, ListTypes, HandleTypes, ChargeOf
<1>7. ClientTypes' /\ Pcs'
  BY <1>2 DEF IInv, TypeOK, ClientTypes, Pcs
<1>8. Counted'
  <2>1. ASSUME NEW h \in alive' PROVE refs'[h] > 0
    <3>1. CASE h = old
      BY <1>4, <3>1
    <3>2. CASE h # old
      BY <1>4, <3>2
    <3> QED BY <3>1, <3>2
  <2> QED BY <2>1 DEF Counted
<1>9. RefsExact'
  <2>1. \A h : Count(h)' = Count(h) /\ Count(h) \in Nat
    BY <1>2, CountType DEF Count, Holders
  <2>2. ASSUME NEW h \in alive'
        PROVE  refs'[h] = Count(h)' + (IF inCache'[h] THEN 1 ELSE 0)
    <3>1. refs[h] = Count(h) + (IF inCache[h] THEN 1 ELSE 0)
      BY <1>4, <2>2 DEF IInv, RefsExact, Count
    <3>2. CASE h = old
      BY <1>4, <2>1, <3>1, <3>2
    <3>3. CASE h # old
      BY <1>4, <2>1, <3>1, <3>3
    <3> QED BY <3>2, <3>3
  <2> QED BY <2>2 DEF RefsExact, Count
<1>10. NoUseAfterFree'
  BY <1>1, <1>2, EntryFacts DEF IInv, NoUseAfterFree, Freed
<1>11. ListsExact'
  <2>1. \A h \in Handles : InList(lru', h) => h \in alive' /\ inCache'[h] /\ refs'[h] = 1
    BY <1>1, <1>2, <1>3 DEF IInv, ListsExact, Freed
  <2>2. \A h \in inUse' : h \in alive' /\ inCache'[h] /\ refs'[h] >= 2
    BY <1>1, <1>2 DEF IInv, ListsExact, TypeOK, ListTypes, Freed
  <2>3. \A h \in alive' : inCache'[h] => InList(lru', h) \/ h \in inUse'
    BY <1>2, <1>3, <1>4 DEF IInv, ListsExact
  <2> QED BY <1>2, <1>3, <2>1, <2>2, <2>3 DEF ListsExact
<1>12. TableExact'
  <2>1. ASSUME NEW j \in Keys, table'[j] # Nil
        PROVE  table'[j] \in alive' /\ inCache'[table'[j]] /\ key'[table'[j]] = j
    <3>1. j # k /\ table'[j] = table[j] /\ table[j] \in Handles
      BY <1>2, <2>1 DEF IInv, TypeOK, ListTypes
    <3>2. table[j] \in alive /\ inCache[table[j]] /\ key[table[j]] = j
      BY <2>1, <3>1 DEF IInv, TableExact
    <3>3. table[j] # old
      BY <1>1, <3>1, <3>2
    <3> QED BY <1>2, <3>1, <3>2, <3>3 DEF Freed
  <2>2. ASSUME NEW h \in alive', inCache'[h] PROVE table'[key'[h]] = h
    <3>1. h # old /\ inCache[h] /\ h \in alive /\ h \in Handles
      BY <1>4, <2>2
    <3>2. table[key[h]] = h
      BY <3>1 DEF IInv, TableExact
    <3>3. key[h] # k
      BY <3>1, <3>2
    <3> QED BY <1>2, <3>1, <3>2, <3>3 DEF IInv, TypeOK, HandleTypes, ListTypes
  <2> QED BY <2>1, <2>2 DEF TableExact
<1> QED BY <1>5, <1>6, <1>7, <1>8, <1>9, <1>10, <1>11, <1>12 DEF IInv, TypeOK

(* LookupHit counts one more reference and takes the entry off lru_ if it  *)
(* was the first.                                                          *)
LEMMA LookupHitInv ==
  ASSUME IInv, NEW c \in Clients, NEW k \in Keys, LookupHit(c, k)
  PROVE  IInv'
<1> PICK e : e = table[k]
  OBVIOUS
<1>1. /\ e \in Handles /\ e # Nil /\ e \in alive /\ inCache[e] /\ key[e] = k
      /\ refs[e] \in Nat /\ refs[e] > 0 /\ ~destroyed /\ mutex = Nil /\ pc[c] = "idle"
  BY DEF IInv, TypeOK, ListTypes, HandleTypes, TableExact, Counted, LookupHit, May
<1>2. /\ refs' = [refs EXCEPT ![e] = @ + 1]
      /\ refs[e] = 1 => lru' = LRU_Remove(lru, e) /\ inUse' = inUse \cup {e}
      /\ refs[e] # 1 => lru' = lru /\ inUse' = inUse
      /\ held' = [held EXCEPT ![c] = e]
      /\ pc' = [pc EXCEPT ![c] = "holding"]
      /\ UNCHANGED <<alive, key, charge, inCache, table, usage, mutex, want,
                     capacity, destroyed>>
  BY <1>1 DEF LookupHit, Ref, Goes
<1>3. /\ LRU_Remove(lru, e) \in Seq(Handles)
      /\ Distinct(LRU_Remove(lru, e))
      /\ \A h : InList(LRU_Remove(lru, e), h) <=> InList(lru, h) /\ h # e
  BY RemoveFacts DEF IInv, TypeOK, ListTypes, ListsExact
<1>4. HandleTypes'
  BY <1>1, <1>2 DEF IInv, TypeOK, HandleTypes
<1>5. ListTypes'
  BY <1>1, <1>2, <1>3 DEF IInv, TypeOK, ListTypes
<1>6. ClientTypes' /\ Pcs'
  BY <1>1, <1>2, LRUAssumption DEF IInv, TypeOK, ClientTypes, Pcs
<1>7. Counted'
  <2>1. refs \in [Handles -> Nat] /\ alive \subseteq Handles
    BY DEF IInv, TypeOK, HandleTypes
  <2> QED BY <1>1, <1>2, <2>1 DEF IInv, Counted
<1>8. RefsExact'
  <2>1. held[c] = Nil /\ ClientTypes
    BY <1>1 DEF IInv, TypeOK, Pcs
  <2>2. /\ Count(e)' = Count(e) + 1 /\ Count(e) \in Nat
        /\ \A h : h # e /\ h # Nil => Count(h)' = Count(h)
    BY <1>1, <1>2, <2>1, CountUp, CountType
  <2>3. ASSUME NEW h \in alive'
        PROVE  refs'[h] = Count(h)' + (IF inCache'[h] THEN 1 ELSE 0)
    <3>1. refs[h] = Count(h) + (IF inCache[h] THEN 1 ELSE 0)
      BY <1>2, <2>3 DEF IInv, RefsExact, Count
    <3>2. h \in Handles /\ h # Nil
      BY <1>2, <2>3, LRUAssumption DEF IInv, TypeOK, HandleTypes
    <3>3. refs'[h] = IF h = e THEN refs[h] + 1 ELSE refs[h]
      BY <1>2, <3>2 DEF IInv, TypeOK, HandleTypes
    <3> QED BY <1>1, <1>2, <2>2, <3>1, <3>2, <3>3
  <2> QED BY <2>3 DEF RefsExact, Count
<1>9. NoUseAfterFree'
  BY <1>1, <1>2 DEF IInv, TypeOK, ClientTypes, NoUseAfterFree
<1>10. ListsExact'
  <2>0. refs \in [Handles -> Nat] /\ alive \subseteq Handles
    BY DEF IInv, TypeOK, HandleTypes
  <2>1. CASE refs[e] = 1
    <3>1. \A h \in Handles : InList(lru', h) => h \in alive' /\ inCache'[h] /\ refs'[h] = 1
      BY <1>1, <1>2, <1>3, <2>0, <2>1 DEF IInv, ListsExact
    <3>2. \A h \in inUse' : h \in alive' /\ inCache'[h] /\ refs'[h] >= 2
      BY <1>1, <1>2, <2>0, <2>1 DEF IInv, ListsExact
    <3>3. \A h \in alive' : inCache'[h] => InList(lru', h) \/ h \in inUse'
      BY <1>2, <1>3, <2>1 DEF IInv, ListsExact
    <3> QED BY <1>2, <1>3, <2>1, <3>1, <3>2, <3>3 DEF ListsExact
  <2>2. CASE refs[e] # 1
    BY <1>1, <1>2, <2>0, <2>2 DEF IInv, ListsExact, InList
  <2> QED BY <2>1, <2>2
<1>11. TableExact'
  BY <1>2 DEF IInv, TableExact
<1> QED BY <1>4, <1>5, <1>6, <1>7, <1>8, <1>9, <1>10, <1>11 DEF IInv, TypeOK

(* Release gives one reference up, and frees the entry or puts it on lru_. *)
LEMMA ReleaseInv ==
  ASSUME IInv, NEW c \in Clients, Release(c)
  PROVE  IInv'
<1> PICK e : e = held[c]
  OBVIOUS
<1>1. /\ e \in Handles /\ e # Nil /\ e \in alive /\ ~destroyed /\ mutex = Nil
      /\ pc[c] = "holding"
  BY DEF IInv, TypeOK, ClientTypes, NoUseAfterFree, Pcs, Release, May
<1>2. /\ refs[e] \in Nat /\ refs[e] = Count(e) + (IF inCache[e] THEN 1 ELSE 0)
      /\ Count(e) \in Nat /\ Count(e) >= 1
  BY <1>1, EntryFacts DEF IInv, RefsExact, Count
<1>3. /\ refs' = [refs EXCEPT ![e] = @ - 1]
      /\ alive' = IF refs[e] = 1 THEN alive \ {e} ELSE alive
      /\ inCache[e] /\ refs[e] = 2 =>
           lru' = LRU_Append(lru, e) /\ inUse' = inUse \ {e}
      /\ ~(inCache[e] /\ refs[e] = 2) => lru' = lru /\ inUse' = inUse
      /\ held' = [held EXCEPT ![c] = Nil]
      /\ pc' = [pc EXCEPT ![c] = "idle"]
      /\ UNCHANGED <<key, charge, inCache, table, usage, mutex, want, capacity,
                     destroyed>>
  BY DEF Release, Unref, Goes
<1>4. refs[e] = 2 => /\ LRU_Append(lru, e) \in Seq(Handles)
                     /\ Distinct(LRU_Append(lru, e))
                     /\ \A h : InList(LRU_Append(lru, e), h) <=>
                                 InList(lru, h) \/ h = e
  <2>1. refs[e] = 2 => ~InList(lru, e)
    BY <1>1 DEF IInv, ListsExact
  <2> QED BY <1>1, <2>1, AppendFacts DEF IInv, TypeOK, ListTypes, ListsExact
<1>5. refs[e] = 1 => ~inCache[e] /\ Count(e) = 1
  BY <1>2
<1>6. refs \in [Handles -> Nat] /\ alive \subseteq Handles
  BY DEF IInv, TypeOK, HandleTypes
<1>7. refs[e] >= 1 /\ refs' \in [Handles -> Nat]
  BY <1>1, <1>2, <1>3, <1>6
<1>8. HandleTypes'
  BY <1>3, <1>6, <1>7 DEF IInv, TypeOK, HandleTypes
<1>9. ListTypes'
  BY <1>1, <1>3, <1>4 DEF IInv, TypeOK, ListTypes
<1>10. ClientTypes' /\ Pcs'
  BY <1>1, <1>3, LRUAssumption DEF IInv, TypeOK, ClientTypes, Pcs
<1>11. Counted'
  BY <1>1, <1>3, <1>6, <1>7 DEF IInv, Counted
<1>12. ClientTypes
  BY DEF IInv, TypeOK
<1>13. /\ Count(e)' = Count(e) - 1
       /\ \A h : h # e /\ h # Nil => Count(h)' = Count(h)
  BY <1>1, <1>3, <1>12, CountDown
<1>14. RefsExact'
  <2>1. ASSUME NEW h \in alive'
        PROVE  refs'[h] = Count(h)' + (IF inCache'[h] THEN 1 ELSE 0)
    <3>1. h \in alive /\ h \in Handles /\ h # Nil
      BY <1>3, <1>6, <2>1, LRUAssumption
    <3>2. refs[h] = Count(h) + (IF inCache[h] THEN 1 ELSE 0)
      BY <3>1 DEF IInv, RefsExact, Count
    <3>3. refs'[h] = IF h = e THEN refs[h] - 1 ELSE refs[h]
      BY <1>3, <1>6, <3>1
    <3> QED BY <1>2, <1>3, <1>13, <3>1, <3>2, <3>3
  <2> QED BY <2>1 DEF RefsExact, Count
<1>15. NoUseAfterFree'
  <2>1. refs[e] = 1 => \A x \in Clients : held'[x] # e
    BY <1>5, <1>13, CountTypeNext
  <2>2. \A x \in Clients : held'[x] # Nil => held'[x] \in alive
    BY <1>3, <1>12 DEF IInv, NoUseAfterFree, ClientTypes
  <2> QED BY <1>3, <2>1, <2>2 DEF NoUseAfterFree
<1>16. ListsExact'
  <2>1. CASE refs[e] = 1
    BY <1>1, <1>3, <1>5, <1>6, <2>1 DEF IInv, ListsExact, InList
  <2>2. CASE refs[e] = 2 /\ inCache[e]
    BY <1>1, <1>3, <1>4, <1>6, <2>2 DEF IInv, ListsExact
  <2>3. CASE refs[e] # 1 /\ ~(refs[e] = 2 /\ inCache[e])
    BY <1>1, <1>2, <1>3, <1>6, <2>3 DEF IInv, ListsExact, InList
  <2> QED BY <2>1, <2>2, <2>3
<1>17. TableExact'
  BY <1>3, <1>5 DEF IInv, TableExact
<1> QED BY <1>8, <1>9, <1>10, <1>11, <1>14, <1>15, <1>16, <1>17 DEF IInv, TypeOK

(* Insert takes an address that nobody has and that is on no list.         *)
LEMMA InsertInv ==
  ASSUME IInv, NEW c \in Clients, NEW e \in Handles, NEW ch \in Nat,
         Insert(c, e, ch)
  PROVE  IInv'
<1> PICK k : k = want[c]
  OBVIOUS
<1> PICK old : old = table[k]
  OBVIOUS
<1>1. /\ ~destroyed /\ mutex = Nil /\ pc[c] = "missed" /\ e \notin alive
      /\ held[c] = Nil /\ k \in Keys /\ old \in Handles \cup {Nil}
      /\ e # Nil /\ Nil \notin Handles /\ ch \in Nat
  BY LRUAssumption
     DEF IInv, TypeOK, ClientTypes, ListTypes, Pcs, Insert, May
<1>2. /\ old # Nil => old \in alive /\ inCache[old] /\ key[old] = k /\ old # e
      /\ ~InList(lru, e) /\ e \notin inUse
      /\ \A x \in Clients : held[x] # e
  BY <1>1, EntryFacts DEF IInv, TableExact, ListsExact
<1>3. /\ refs \in [Handles -> Nat] /\ alive \subseteq Handles
      /\ inCache \in [Handles -> BOOLEAN] /\ key \in [Handles -> Keys]
      /\ charge \in [Handles -> Nat] /\ ClientTypes
  BY DEF IInv, TypeOK, HandleTypes
<1>4. /\ key' = [key EXCEPT ![e] = k]
      /\ charge' = [charge EXCEPT ![e] = ch]
      /\ held' = [held EXCEPT ![c] = e]
      /\ mutex' = c
      /\ pc' = [pc EXCEPT ![c] = "evict"]
      /\ UNCHANGED <<want, capacity, destroyed>>
  BY DEF Insert, Goes
<1>5. ClientTypes' /\ Pcs'
  <2>1. ClientTypes'
    BY <1>3, <1>4 DEF ClientTypes
  <2>2. ASSUME NEW x \in Clients
        PROVE  /\ pc'[x] \in {"evict", "prune"} => mutex' = x
               /\ held'[x] # Nil <=> pc'[x] \in {"evict", "holding"}
    <3>1. CASE x = c
      BY <1>1, <1>3, <1>4, <3>1 DEF ClientTypes
    <3>2. CASE x # c
      <4>1. pc'[x] = pc[x] /\ held'[x] = held[x]
        BY <1>3, <1>4, <3>2 DEF ClientTypes
      <4> QED BY <1>1, <4>1, LRUAssumption DEF IInv, Pcs
    <3> QED BY <3>1, <3>2
  <2> QED BY <1>1, <1>4, <2>1, <2>2 DEF Pcs
<1>6. /\ Count(e)' = 1 /\ Count(e) = 0
      /\ \A h : h # e /\ h # Nil => Count(h)' = Count(h)
      /\ \A h : Count(h) \in Nat
  <2>1. /\ Count(e)' = Count(e) + 1
        /\ \A h : h # e /\ h # Nil => Count(h)' = Count(h)
    BY <1>1, <1>3, <1>4, CountUp
  <2>2. Count(e) = 0 /\ \A h : Count(h) \in Nat
    BY <1>2, CountType
  <2> QED BY <2>1, <2>2
<1>7. CASE capacity > 0
  <2>1. /\ alive' = (alive \ Freed(old)) \cup {e}
        /\ refs' = [h \in Handles |->
                      IF h = e THEN 2 ELSE IF h = old THEN refs[h] - 1 ELSE refs[h]]
        /\ inCache' = [h \in Handles |-> IF h = e THEN TRUE
                                         ELSE IF h = old THEN FALSE
                                         ELSE inCache[h]]
        /\ lru' = LRU_Remove(lru, old)
        /\ inUse' = (inUse \ {old}) \cup {e}
        /\ usage' = usage + ch - ChargeOf(old)
        /\ table' = [table EXCEPT ![k] = e]
    BY <1>7 DEF Insert, InsertEntry, InsertedRefs, InsertedUsage
  <2>2. /\ LRU_Remove(lru, old) \in Seq(Handles)
        /\ Distinct(LRU_Remove(lru, old))
        /\ \A h : InList(LRU_Remove(lru, old), h) <=> InList(lru, h) /\ h # old
    BY RemoveFacts DEF IInv, TypeOK, ListTypes, ListsExact
  <2>3. /\ e \in alive' /\ refs'[e] = 2 /\ inCache'[e]
        /\ \A h \in alive' : h # e => h \in alive /\ h \in Handles
    BY <1>3, <2>1
  <2>4. old # Nil => old \in Handles /\ refs[old] >= 1
    BY <1>2, <1>3 DEF IInv, Counted
  <2>5. ASSUME NEW h \in alive', h = old
        PROVE  /\ refs[h] \in Nat /\ refs[h] > 1 /\ refs'[h] = refs[h] - 1
               /\ inCache[h] /\ ~inCache'[h]
    <3>1. h \in Handles /\ h # Nil /\ h # e /\ h \in alive
      BY <1>1, <1>2, <1>3, <2>3, <2>5
    <3>2. refs[h] # 1
      BY <2>1, <2>5, <3>1 DEF Freed
    <3>3. refs[h] \in Nat /\ refs[h] > 1
      BY <1>3, <2>4, <2>5, <3>1, <3>2
    <3>4. refs'[h] = refs[h] - 1
      BY <2>1, <2>5, <3>1
    <3>5. inCache[h] /\ ~inCache'[h]
      BY <1>2, <2>1, <2>5, <3>1
    <3> QED BY <3>3, <3>4, <3>5
  <2>6. ASSUME NEW h \in alive', h # old, h # e
        PROVE  refs'[h] = refs[h] /\ inCache'[h] = inCache[h] /\ refs[h] > 0
    BY <2>1, <2>3, <2>6 DEF IInv, Counted
  <2>7. HandleTypes'
    <3>1. refs' \in [Handles -> Nat]
      <4>1. \A h \in Handles : h = old => refs[h] - 1 \in Nat
        BY <1>1, <1>3, <2>4
      <4> QED BY <1>3, <2>1, <4>1
    <3>2. inCache' \in [Handles -> BOOLEAN]
      BY <1>3, <2>1
    <3> QED BY <1>1, <1>3, <1>4, <2>1, <3>1, <3>2 DEF HandleTypes
  <2>8. ListTypes'
    BY <1>1, <1>3, <1>4, <2>1, <2>2 DEF IInv, TypeOK, ListTypes, ChargeOf
  <2>9. Counted'
    <3>1. ASSUME NEW h \in alive' PROVE refs'[h] > 0
      <4>1. CASE h = e
        BY <2>3, <4>1
      <4>2. CASE h = old
        BY <2>5, <4>2
      <4> QED BY <2>6, <4>1, <4>2
    <3> QED BY <3>1 DEF Counted
  <2>10. RefsExact'
    <3>1. ASSUME NEW h \in alive'
          PROVE  refs'[h] = Count(h)' + (IF inCache'[h] THEN 1 ELSE 0)
      <4>1. CASE h = e
        BY <1>6, <2>3, <4>1
      <4>2. ASSUME h # e PROVE /\ h \in alive /\ h # Nil
                               /\ refs[h] = Count(h) + (IF inCache[h] THEN 1 ELSE 0)
        BY <1>1, <2>3, <4>2 DEF IInv, RefsExact, Count
      <4>3. CASE h = old /\ h # e
        BY <1>6, <2>5, <4>2, <4>3
      <4>4. CASE h # old /\ h # e
        BY <1>6, <2>6, <4>2, <4>4
      <4> QED BY <4>1, <4>3, <4>4
    <3> QED BY <3>1 DEF RefsExact, Count
  <2>11. NoUseAfterFree'
    <3>1. ASSUME NEW x \in Clients, held'[x] # Nil PROVE held'[x] \in alive'
      <4>1. CASE x = c
        BY <1>3, <1>4, <2>1, <4>1 DEF ClientTypes
      <4>2. CASE x # c
        <5>1. held'[x] = held[x] /\ held[x] \in alive
          BY <1>3, <1>4, <3>1, <4>2 DEF IInv, NoUseAfterFree, ClientTypes
        <5>2. old # Nil /\ refs[old] = 1 => held[x] # old
          BY <1>2, EntryFacts
        <5> QED BY <2>1, <5>1, <5>2 DEF Freed
      <4> QED BY <4>1, <4>2
    <3> QED BY <3>1 DEF NoUseAfterFree
  <2>12. ListsExact'
    <3>1. ASSUME NEW h \in Handles, InList(lru', h)
          PROVE  h \in alive' /\ inCache'[h] /\ refs'[h] = 1
      <4>1. InList(lru, h) /\ h # old /\ h # e
        BY <1>2, <2>1, <2>2, <3>1
      <4>2. h \in alive /\ inCache[h] /\ refs[h] = 1
        BY <4>1 DEF IInv, ListsExact
      <4> QED BY <2>1, <4>1, <4>2 DEF Freed
    <3>2. ASSUME NEW h \in inUse' PROVE h \in alive' /\ inCache'[h] /\ refs'[h] >= 2
      <4>1. CASE h = e
        BY <2>3, <4>1
      <4>2. CASE h # e
        <5>1. h \in alive /\ h # old /\ inCache[h] /\ refs[h] >= 2
          BY <2>1, <3>2, <4>2 DEF IInv, ListsExact
        <5> QED BY <1>3, <2>1, <4>2, <5>1 DEF Freed
      <4> QED BY <4>1, <4>2
    <3>3. ASSUME NEW h \in alive', inCache'[h] PROVE InList(lru', h) \/ h \in inUse'
      <4>1. CASE h = e
        BY <2>1, <4>1
      <4>2. CASE h # e
        <5>1. h # old /\ h \in alive /\ inCache[h]
          BY <2>3, <2>5, <2>6, <3>3, <4>2
        <5> QED BY <2>1, <2>2, <5>1 DEF IInv, ListsExact
      <4> QED BY <4>1, <4>2
    <3> QED BY <2>1, <2>2, <3>1, <3>2, <3>3 DEF ListsExact
  <2>13. TableExact'
    <3>1. ASSUME NEW j \in Keys, table'[j] # Nil
          PROVE  table'[j] \in alive' /\ inCache'[table'[j]] /\ key'[table'[j]] = j
      <4>0. table \in [Keys -> Handles \cup {Nil}]
        BY DEF IInv, TypeOK, ListTypes
      <4>1. CASE j = k
        BY <1>3, <1>4, <2>1, <2>3, <4>0, <4>1
      <4>2. CASE j # k
        <5>1. table'[j] = table[j] /\ table[j] \in Handles
          BY <2>1, <3>1, <4>0, <4>2
        <5>2. table[j] \in alive /\ inCache[table[j]] /\ key[table[j]] = j
          BY <1>1, <5>1 DEF IInv, TableExact
        <5>3. table[j] # old /\ table[j] # e
          BY <1>1, <1>2, <4>2, <5>1, <5>2
        <5> QED BY <1>3, <1>4, <2>1, <5>1, <5>2, <5>3 DEF Freed
      <4> QED BY <4>1, <4>2
    <3>2. ASSUME NEW h \in alive', inCache'[h] PROVE table'[key'[h]] = h
      <4>0. table \in [Keys -> Handles \cup {Nil}]
        BY DEF IInv, TypeOK, ListTypes
      <4>1. CASE h = e
        BY <1>1, <1>3, <1>4, <2>1, <4>0, <4>1
      <4>2. CASE h # e
        <5>1. h # old /\ h \in alive /\ inCache[h] /\ h \in Handles
          BY <2>3, <2>5, <2>6, <3>2, <4>2
        <5>2. table[key[h]] = h
          BY <1>1, <5>1 DEF IInv, TableExact
        <5>3. key[h] # k
          BY <5>1, <5>2
        <5> QED BY <1>3, <1>4, <2>1, <4>0, <4>2, <5>1, <5>2, <5>3
      <4> QED BY <4>1, <4>2
    <3> QED BY <3>1, <3>2 DEF TableExact
  <2> QED BY <1>5, <2>7, <2>8, <2>9, <2>10, <2>11, <2>12, <2>13 DEF IInv, TypeOK
<1>8. CASE ~(capacity > 0)
  <2>1. /\ alive' = alive \cup {e}
        /\ refs' = [refs EXCEPT ![e] = 1]
        /\ inCache' = [inCache EXCEPT ![e] = FALSE]
        /\ UNCHANGED <<table, lru, inUse, usage>>
    BY <1>8 DEF Insert, InsertUncached, lists
  <2>2. HandleTypes' /\ ListTypes'
    BY <1>1, <1>3, <1>4, <2>1 DEF IInv, TypeOK, HandleTypes, ListTypes
  <2>3. Counted'
    BY <1>3, <2>1 DEF IInv, Counted
  <2>4. RefsExact'
    <3>1. ASSUME NEW h \in alive'
          PROVE  refs'[h] = Count(h)' + (IF inCache'[h] THEN 1 ELSE 0)
      <4>1. CASE h = e
        BY <1>3, <1>6, <2>1, <4>1
      <4>2. CASE h # e
        <5>1. h \in alive /\ h # Nil /\ refs'[h] = refs[h] /\ inCache'[h] = inCache[h]
          BY <1>1, <1>3, <2>1, <3>1, <4>2
        <5>2. refs[h] = Count(h) + (IF inCache[h] THEN 1 ELSE 0)
          BY <5>1 DEF IInv, RefsExact, Count
        <5> QED BY <1>6, <4>2, <5>1, <5>2
      <4> QED BY <4>1, <4>2
    <3> QED BY <3>1 DEF RefsExact, Count
  <2>5. NoUseAfterFree'
    BY <1>3, <1>4, <2>1 DEF IInv, NoUseAfterFree, ClientTypes
  <2>6. ListsExact'
    BY <1>1, <1>2, <1>3, <2>1 DEF IInv, ListsExact, InList
  <2>7. TableExact'
    BY <1>1, <1>3, <1>4, <2>1 DEF IInv, TableExact
  <2> QED BY <1>5, <2>2, <2>3, <2>4, <2>5, <2>6, <2>7 DEF IInv, TypeOK
<1> QED BY <1>7, <1>8

(* A step that touches neither entries nor lists only moves a client.      *)
LEMMA MoveInv ==
  ASSUME IInv, UNCHANGED <<alive, fields, lists, held, capacity, destroyed>>,
         ClientTypes', Pcs'
  PROVE  IInv'
<1>1. UNCHANGED <<alive, key, charge, refs, inCache, table, lru, inUse, usage,
                  held, capacity, destroyed>>
  BY DEF fields, lists
<1>2. HandleTypes' /\ ListTypes' /\ Counted'
  BY <1>1 DEF IInv, TypeOK, HandleTypes, ListTypes, Counted
<1>3. RefsExact' /\ NoUseAfterFree'
  BY <1>1 DEF IInv, RefsExact, NoUseAfterFree, Holders
<1>4. ListsExact' /\ TableExact'
  BY <1>1 DEF IInv, ListsExact, TableExact, InList, Distinct
<1> QED BY <1>2, <1>3, <1>4 DEF IInv, TypeOK

(* The loop of the destructor frees the oldest entry of lru_.              *)
LEMMA DestroyOldestInv ==
  ASSUME IInv, DestroyOldest
  PROVE  IInv'
<1> PICK e : e = lru[1]
  OBVIOUS
<1>1. /\ destroyed /\ lru # <<>> /\ lru \in Seq(Handles) /\ Distinct(lru)
      /\ refs \in [Handles -> Nat] /\ alive \subseteq Handles
      /\ inCache \in [Handles -> BOOLEAN] /\ Nil \notin Handles
  BY LRUAssumption
     DEF DestroyOldest, IInv, TypeOK, HandleTypes, ListTypes, ListsExact
<1>2. e \in Handles /\ InList(lru, e)
  BY <1>1 DEF InList
<1>3. e \in alive /\ inCache[e] /\ refs[e] = 1 /\ e # Nil
  BY <1>1, <1>2 DEF IInv, ListsExact
<1>4. /\ inCache' = [inCache EXCEPT ![e] = FALSE]
      /\ refs' = [refs EXCEPT ![e] = @ - 1]
      /\ alive' = alive \ {e}
      /\ lru' = LRU_Remove(lru, e)
      /\ UNCHANGED <<key, charge, table, inUse, usage, mutex, pc, want, held,
                     capacity, destroyed>>
  BY <1>3 DEF DestroyOldest, Freed, clientVars
<1>5. /\ LRU_Remove(lru, e) \in Seq(Handles)
      /\ Distinct(LRU_Remove(lru, e))
      /\ \A h : InList(LRU_Remove(lru, e), h) <=> InList(lru, h) /\ h # e
  BY <1>1, RemoveFacts
<1>6. refs' \in [Handles -> Nat]
  BY <1>1, <1>2, <1>3, <1>4
<1>7. HandleTypes' /\ ListTypes'
  BY <1>1, <1>4, <1>5, <1>6 DEF IInv, TypeOK, HandleTypes, ListTypes
<1>8. ClientTypes' /\ Pcs'
  BY <1>4 DEF IInv, TypeOK, ClientTypes, Pcs
<1>9. ASSUME NEW h \in alive'
      PROVE  /\ h \in alive /\ h # e /\ h \in Handles
             /\ refs'[h] = refs[h] /\ inCache'[h] = inCache[h]
  BY <1>1, <1>4, <1>9
<1>10. Counted'
  BY <1>9 DEF IInv, Counted
<1>11. RefsExact'
  <2>1. \A h : Holders(h)' = Holders(h)
    BY <1>4 DEF Holders
  <2> QED BY <1>9, <2>1 DEF IInv, RefsExact
<1>12. NoUseAfterFree'
  BY <1>3, <1>4, EntryFacts DEF IInv, NoUseAfterFree
<1>13. ListsExact'
  <2>1. \A h \in Handles : InList(lru', h) => h \in alive' /\ inCache'[h] /\ refs'[h] = 1
    BY <1>1, <1>4, <1>5 DEF IInv, ListsExact
  <2>2. \A h \in inUse' : h \in alive' /\ inCache'[h] /\ refs'[h] >= 2
    BY <1>1, <1>3, <1>4 DEF IInv, ListsExact
  <2>3. \A h \in alive' : inCache'[h] => InList(lru', h) \/ h \in inUse'
    BY <1>4, <1>5, <1>9 DEF IInv, ListsExact
  <2> QED BY <1>4, <1>5, <2>1, <2>2, <2>3 DEF ListsExact
<1>14. TableExact'
  BY <1>1, <1>4 DEF TableExact
<1> QED BY <1>7, <1>8, <1>10, <1>11, <1>12, <1>13, <1>14 DEF IInv, TypeOK

(* Every step keeps IInv.                                                  *)
LEMMA NextInv == IInv /\ [Next]_vars => IInv'
<1> SUFFICES ASSUME IInv, [Next]_vars PROVE IInv'
  OBVIOUS
<1>0. ClientTypes /\ Pcs
  BY DEF IInv, TypeOK
<1>1. CASE \E c \in Clients, k \in Keys : LookupHit(c, k)
  BY <1>1, LookupHitInv
<1>2. ASSUME NEW c \in Clients, NEW k \in Keys, LookupMiss(c, k) PROVE IInv'
  <2>1. ClientTypes' /\ Pcs'
    BY <1>0, <1>2 DEF ClientTypes, Pcs, LookupMiss, May, Goes
  <2> QED BY <1>2, <2>1, MoveInv DEF LookupMiss
<1>3. ASSUME NEW c \in Clients, OpenFails(c) PROVE IInv'
  <2>1. ClientTypes' /\ Pcs'
    BY <1>0, <1>3 DEF ClientTypes, Pcs, OpenFails, Goes
  <2> QED BY <1>3, <2>1, MoveInv DEF OpenFails
<1>4. CASE \E c \in Clients, e \in Handles, ch \in Charges : Insert(c, e, ch)
  BY <1>4, InsertInv, LRUAssumption
<1>5. ASSUME NEW c \in Clients, EvictOldest(c) \/ PruneOldest(c) PROVE IInv'
  <2>1. ~destroyed /\ lru # <<>>
    BY <1>0, <1>5 DEF Pcs, EvictOldest, PruneOldest
  <2>2. lru[1] \in Handles
    BY <2>1 DEF IInv, TypeOK, ListTypes
  <2>3. key[lru[1]] \in Keys
    BY <2>2 DEF IInv, TypeOK, HandleTypes
  <2>4. RemoveKey(key[lru[1]]) /\ UNCHANGED <<mutex, clientVars>>
    BY <1>5 DEF EvictOldest, PruneOldest
  <2>5. PICK k \in Keys : k = key[lru[1]]
    BY <2>3
  <2>6. RemoveKey(k)
    BY <2>4, <2>5 DEF RemoveKey
  <2> QED BY <2>1, <2>4, <2>6, RemoveKeyInv
<1>6. ASSUME NEW c \in Clients, InsertDone(c) PROVE IInv'
  <2>1. mutex = c /\ held[c] # Nil /\ ~destroyed
    BY <1>0, <1>6 DEF Pcs, InsertDone
  <2>2. ClientTypes' /\ Pcs'
    BY <1>0, <1>6, <2>1 DEF ClientTypes, Pcs, InsertDone, Goes
  <2> QED BY <1>6, <2>2, MoveInv DEF InsertDone
<1>7. CASE \E c \in Clients : Release(c)
  BY <1>7, ReleaseInv
<1>8. ASSUME NEW c \in Clients, NEW k \in Keys, Erase(c, k) PROVE IInv'
  BY <1>8, RemoveKeyInv DEF Erase, May
<1>9. ASSUME NEW c \in Clients, Prune(c) PROVE IInv'
  <2>1. ClientTypes' /\ Pcs'
    BY <1>0, <1>9, LRUAssumption DEF ClientTypes, Pcs, Prune, May, Goes
  <2> QED BY <1>9, <2>1, MoveInv DEF Prune
<1>10. ASSUME NEW c \in Clients, PruneDone(c) PROVE IInv'
  <2>1. mutex = c
    BY <1>0, <1>10 DEF Pcs, PruneDone
  <2>2. ClientTypes' /\ Pcs'
    BY <1>0, <1>10, <2>1 DEF ClientTypes, Pcs, PruneDone, Goes
  <2> QED BY <1>10, <2>2, MoveInv DEF PruneDone
<1>11. CASE Destroy
  <2>1. UNCHANGED <<alive, key, charge, refs, inCache, table, lru, inUse, usage,
                    mutex, pc, want, held, capacity>>
    BY <1>11 DEF Destroy, fields, lists, clientVars
  <2>2. destroyed' = TRUE /\ \A c \in Clients : pc[c] = "idle"
    BY <1>11 DEF Destroy
  <2>3. HandleTypes' /\ ListTypes' /\ Counted'
    BY <2>1 DEF IInv, TypeOK, HandleTypes, ListTypes, Counted
  <2>4. ClientTypes' /\ Pcs'
    BY <1>0, <2>1, <2>2 DEF ClientTypes, Pcs
  <2>5. RefsExact' /\ NoUseAfterFree'
    BY <2>1 DEF IInv, RefsExact, NoUseAfterFree, Holders
  <2>6. ListsExact' /\ TableExact'
    BY <2>1, <2>2 DEF IInv, ListsExact, TableExact, InList, Distinct
  <2> QED BY <2>3, <2>4, <2>5, <2>6 DEF IInv, TypeOK
<1>12. CASE DestroyOldest
  BY <1>12, DestroyOldestInv
<1>13. CASE UNCHANGED vars
  <2>1. ClientTypes' /\ Pcs'
    BY <1>0, <1>13 DEF ClientTypes, Pcs, vars, clientVars
  <2> QED BY <1>13, <2>1, MoveInv DEF vars, clientVars
<1> QED BY <1>1, <1>2, <1>3, <1>4, <1>5, <1>6, <1>7, <1>8, <1>9, <1>10, <1>11,
           <1>12, <1>13 DEF Next

(* An entry with a count has a holder.                                     *)
LEMMA InvNoLeak == IInv => NoLeak
<1> SUFFICES ASSUME IInv, NEW h \in alive, ~inCache[h]
             PROVE  \E c \in Clients : held[c] = h
  BY DEF NoLeak
<1>1. refs[h] = Count(h) /\ refs[h] > 0 /\ Count(h) \in Nat
  BY CountType DEF IInv, RefsExact, Counted, Count
<1>2. Count(h) # 0
  BY <1>1
<1> QED BY <1>2, CountType

(* The invariant says that counts, lists and table agree.                  *)
LEMMA InvIsExact == IInv => CacheExact
BY InvNoLeak DEF IInv, CacheExact

-----------------------------------------------------------------------------
(* The sum of the charges.                                                 *)

Cached == {h \in alive : inCache[h]}

UsageInv ==
  ~destroyed =>
    IsFiniteSet(Units(Cached, charge)) /\ usage = Cardinality(Units(Cached, charge))

(* One more entry adds its charge.                                         *)
LEMMA UnitsAdd ==
  ASSUME NEW H, NEW f \in [H -> Nat], NEW C \in SUBSET H, NEW e \in H, e \notin C,
         IsFiniteSet(Units(C, f))
  PROVE  /\ IsFiniteSet(Units(C \cup {e}, f))
         /\ Cardinality(Units(C \cup {e}, f)) = Cardinality(Units(C, f)) + f[e]
         /\ Cardinality(Units(C, f)) \in Nat /\ f[e] \in Nat
<1>1. PICK n \in Nat : n = f[e]
  OBVIOUS
<1>2. IsFiniteSet(1 .. n) /\ Cardinality(1 .. n) = n
  BY FS_Interval
<1>3. IsFiniteSet({e}) /\ Cardinality({e}) = 1
  BY FS_Singleton
<1>4. PICK B : B = {e} \X (1 .. n)
  OBVIOUS
<1>5. IsFiniteSet(B) /\ Cardinality(B) = n
  <2>1. PICK E, I : E = {e} /\ I = 1 .. n
    OBVIOUS
  <2>2. IsFiniteSet(E) /\ IsFiniteSet(I) /\ Cardinality(E) = 1 /\ Cardinality(I) = n
    BY <1>2, <1>3, <2>1
  <2>3. IsFiniteSet(E \X I) /\ Cardinality(E \X I) = Cardinality(E) * Cardinality(I)
    BY <2>2, FS_Product
  <2>4. 1 * n = n
    OBVIOUS
  <2> QED BY <1>4, <2>1, <2>2, <2>3, <2>4
<1>6. PICK U : U = Units(C, f)
  OBVIOUS
<1>7. \A x : x \in U <=> \E h \in C : x \in {h} \X (1 .. f[h])
  BY <1>6 DEF Units
<1>8. Units(C \cup {e}, f) = U \cup B
  BY <1>1, <1>4, <1>6 DEF Units
<1>9. U \cap B = {}
  BY <1>4, <1>7
<1>10. IsFiniteSet(U) /\ Cardinality(U) \in Nat
  BY <1>6, FS_CardinalityType
<1>11. /\ IsFiniteSet(U \cup B)
       /\ Cardinality(U \cup B) = Cardinality(U) + Cardinality(B) - Cardinality(U \cap B)
  BY <1>5, <1>10, FS_Union
<1>12. Cardinality(U \cap B) = 0
  BY <1>9, FS_EmptySet
<1>13. PICK m \in Nat : m = Cardinality(U)
  BY <1>10
<1>14. Cardinality(U \cup B) = m + n - 0
  BY <1>5, <1>11, <1>12, <1>13
<1>15. m + n - 0 = m + n
  OBVIOUS
<1>16. Cardinality(Units(C \cup {e}, f)) = m + n
  BY <1>8, <1>14, <1>15
<1> QED BY <1>1, <1>6, <1>8, <1>11, <1>13, <1>16

(* One entry less takes its charge away.                                   *)
LEMMA UnitsRemove ==
  ASSUME NEW H, NEW f \in [H -> Nat], NEW C \in SUBSET H, NEW e \in C,
         IsFiniteSet(Units(C, f))
  PROVE  /\ IsFiniteSet(Units(C \ {e}, f))
         /\ Cardinality(Units(C \ {e}, f)) = Cardinality(Units(C, f)) - f[e]
         /\ Cardinality(Units(C, f)) \in Nat /\ f[e] \in Nat
<1>1. PICK D : D = C \ {e}
  OBVIOUS
<1>2. D \in SUBSET H /\ e \notin D /\ D \cup {e} = C /\ e \in H
  BY <1>1
<1>3. Units(D, f) \subseteq Units(C, f)
  BY <1>1 DEF Units
<1>4. IsFiniteSet(Units(D, f))
  BY <1>3, FS_Subset
<1>5. /\ Cardinality(Units(C, f)) = Cardinality(Units(D, f)) + f[e]
      /\ Cardinality(Units(D, f)) \in Nat /\ f[e] \in Nat
  BY <1>2, <1>4, UnitsAdd
<1> QED BY <1>1, <1>4, <1>5

(* Only the charges of the entries in question matter.                     *)
LEMMA UnitsSame ==
  ASSUME NEW C, NEW f, NEW g, \A h \in C : f[h] = g[h]
  PROVE  Units(C, f) = Units(C, g)
BY DEF Units

(* A step that keeps the entries of the cache and their charges.           *)
LEMMA UsageKept ==
  ASSUME UsageInv, destroyed => destroyed', usage' = usage, Cached' = Cached,
         \A h \in Cached : charge'[h] = charge[h]
  PROVE  UsageInv'
<1>1. PICK C, f, g : C = Cached /\ f = charge /\ g = charge'
  OBVIOUS
<1>2. Units(C, f) = Units(C, g)
  BY <1>1, UnitsSame
<1> QED BY <1>1, <1>2 DEF UsageInv

(* What is erased takes its charge with it.                                *)
LEMMA UsageErase ==
  ASSUME IInv, UsageInv, NEW k \in Keys, RemoveKey(k)
  PROVE  UsageInv'
<1>1. SUFFICES ASSUME ~destroyed PROVE UsageInv'
  BY DEF UsageInv, RemoveKey
<1>2. PICK old, C, f : old = table[k] /\ C = Cached /\ f = charge
  OBVIOUS
<1>3. /\ alive' = alive \ Freed(old) /\ usage' = usage - ChargeOf(old)
      /\ inCache' = [h \in Handles |-> IF h = old THEN FALSE ELSE inCache[h]]
      /\ charge' = charge /\ destroyed' = destroyed
  BY <1>2 DEF RemoveKey, FinishErase
<1>4. /\ old # Nil => old \in C
      /\ C \in SUBSET Handles /\ f \in [Handles -> Nat] /\ alive \subseteq Handles
      /\ Nil \notin Handles
  BY <1>1, <1>2, LRUAssumption DEF IInv, TypeOK, HandleTypes, TableExact, Cached
<1>5. Cached' = C \ {old}
  BY <1>2, <1>3, <1>4 DEF Cached, Freed
<1>6. IsFiniteSet(Units(C, f)) /\ usage = Cardinality(Units(C, f))
  BY <1>1, <1>2 DEF UsageInv
<1>7. CASE old = Nil
  <2>1. Cached' = C /\ usage' = usage
    <3>1. usage \in Int
      BY DEF IInv, TypeOK, ListTypes
    <3> QED BY <1>3, <1>4, <1>5, <1>7, <3>1 DEF ChargeOf
  <2> QED BY <1>2, <1>3, <1>6, <2>1 DEF UsageInv
<1>8. CASE old # Nil
  <2>1. /\ IsFiniteSet(Units(C \ {old}, f))
        /\ Cardinality(Units(C \ {old}, f)) = Cardinality(Units(C, f)) - f[old]
    BY <1>4, <1>6, <1>8, UnitsRemove
  <2>2. usage' = usage - f[old]
    BY <1>2, <1>3, <1>8 DEF ChargeOf
  <2> QED BY <1>2, <1>3, <1>5, <1>6, <2>1, <2>2 DEF UsageInv
<1> QED BY <1>7, <1>8

(* What is inserted brings its charge, and the entry that it replaces      *)
(* takes away its own.                                                     *)
LEMMA UsageInsert ==
  ASSUME IInv, UsageInv, NEW c \in Clients, NEW e \in Handles, NEW ch \in Nat,
         Insert(c, e, ch)
  PROVE  UsageInv'
<1>1. /\ ~destroyed /\ destroyed' = destroyed /\ e \notin alive
      /\ charge' = [charge EXCEPT ![e] = ch]
  BY DEF Insert, May
<1>2. PICK C, f, g, old : /\ C = Cached /\ f = charge /\ g = charge'
                          /\ old = table[want[c]]
  OBVIOUS
<1>3. /\ C \in SUBSET Handles /\ f \in [Handles -> Nat] /\ alive \subseteq Handles
      /\ e \notin C /\ Nil \notin Handles
      /\ inCache \in [Handles -> BOOLEAN]
  BY <1>1, <1>2, LRUAssumption DEF IInv, TypeOK, HandleTypes, Cached
<1>4. g \in [Handles -> Nat] /\ g[e] = ch /\ \A h \in C : f[h] = g[h]
  BY <1>1, <1>2, <1>3
<1>5. Units(C, f) = Units(C, g)
  BY <1>4, UnitsSame
<1>6. IsFiniteSet(Units(C, g)) /\ usage = Cardinality(Units(C, g))
  BY <1>1, <1>2, <1>5 DEF UsageInv
<1>7. CASE capacity > 0
  <2>1. /\ alive' = (alive \ Freed(old)) \cup {e}
        /\ inCache' = [h \in Handles |-> IF h = e THEN TRUE
                                         ELSE IF h = old THEN FALSE
                                         ELSE inCache[h]]
        /\ usage' = usage + ch - ChargeOf(old)
    BY <1>2, <1>7 DEF Insert, InsertEntry, InsertedUsage
  <2>2. old # Nil => old \in C
    <3>1. want[c] \in Keys
      BY DEF IInv, TypeOK, ClientTypes
    <3> QED BY <1>1, <1>2, <3>1 DEF IInv, TableExact, Cached
  <2>3. PICK D : D = C \ {old}
    OBVIOUS
  <2>4. Cached' = D \cup {e}
    BY <1>2, <1>3, <2>1, <2>2, <2>3 DEF Cached, Freed
  <2>5. D \in SUBSET Handles /\ e \notin D
    BY <1>3, <2>3
  <2>6. /\ IsFiniteSet(Units(D, g)) /\ ChargeOf(old) \in Nat
        /\ Cardinality(Units(D, g)) = usage - ChargeOf(old)
        /\ usage \in Nat
    <3>1. CASE old = Nil
      <4>1. D = C /\ ChargeOf(old) = 0
        BY <1>3, <2>3, <3>1 DEF ChargeOf
      <4> QED BY <1>6, <4>1, FS_CardinalityType
    <3>2. CASE old # Nil
      <4>1. /\ IsFiniteSet(Units(C \ {old}, g))
            /\ Cardinality(Units(C \ {old}, g)) = Cardinality(Units(C, g)) - g[old]
            /\ Cardinality(Units(C, g)) \in Nat /\ g[old] \in Nat
        BY <1>3, <1>4, <1>6, <2>2, <3>2, UnitsRemove
      <4>2. ChargeOf(old) = g[old]
        BY <1>2, <1>4, <2>2, <3>2 DEF ChargeOf
      <4> QED BY <1>6, <2>3, <4>1, <4>2
    <3> QED BY <3>1, <3>2
  <2>7. /\ IsFiniteSet(Units(D \cup {e}, g))
        /\ Cardinality(Units(D \cup {e}, g)) = Cardinality(Units(D, g)) + g[e]
    BY <1>4, <2>5, <2>6, UnitsAdd
  <2>8. usage' = Cardinality(Units(D \cup {e}, g))
    BY <1>4, <2>1, <2>6, <2>7
  <2> QED BY <1>2, <2>4, <2>7, <2>8 DEF UsageInv
<1>8. CASE ~(capacity > 0)
  <2>1. /\ alive' = alive \cup {e} /\ inCache' = [inCache EXCEPT ![e] = FALSE]
        /\ usage' = usage
    BY <1>8 DEF Insert, InsertUncached, lists
  <2>2. Cached' = C
    BY <1>1, <1>2, <1>3, <2>1 DEF Cached
  <2> QED BY <1>2, <1>6, <2>1, <2>2 DEF UsageInv
<1> QED BY <1>7, <1>8

(* A handle that its last holder frees is not the cache's.                 *)
(* An entry that Unref frees was out of the cache already.                 *)
LEMMA UsageRelease ==
  ASSUME IInv, UsageInv, NEW c \in Clients, Release(c)
  PROVE  UsageInv'
<1>1. PICK e : e = held[c]
  OBVIOUS
<1>2. /\ alive' = IF refs[e] = 1 THEN alive \ {e} ELSE alive
      /\ inCache' = inCache /\ charge' = charge /\ usage' = usage
      /\ destroyed' = destroyed /\ pc[c] = "holding"
  BY <1>1 DEF Release, Unref, May
<1>3. e # Nil /\ e \in alive
  BY <1>1, <1>2 DEF IInv, Pcs, NoUseAfterFree
<1>4. Count(e) >= 1 /\ Count(e) \in Nat
  BY <1>1, <1>3, EntryFacts, CountType
<1>5. refs[e] = 1 => ~inCache[e]
  BY <1>3, <1>4 DEF IInv, RefsExact, Count
<1>6. Cached' = Cached
  BY <1>2, <1>5 DEF Cached
<1> QED BY <1>2, <1>6, UsageKept

(* Every step keeps usage_ exact.                                          *)
LEMMA UsageNext ==
  ASSUME IInv, UsageInv, [Next]_vars
  PROVE  UsageInv'
<1>1. ASSUME UNCHANGED <<alive, inCache, charge, usage>>, destroyed => destroyed'
      PROVE  UsageInv'
  <2>1. Cached' = Cached
    BY <1>1 DEF Cached
  <2> QED BY <1>1, <2>1, UsageKept
<1>2. CASE \E c \in Clients, k \in Keys : LookupHit(c, k)
  BY <1>1, <1>2 DEF LookupHit
<1>3. CASE \E c \in Clients, e \in Handles, ch \in Charges : Insert(c, e, ch)
  BY <1>3, UsageInsert, LRUAssumption
<1>4. ASSUME NEW c \in Clients, EvictOldest(c) \/ PruneOldest(c) PROVE UsageInv'
  <2>1. lru # <<>> /\ RemoveKey(key[lru[1]])
    BY <1>4 DEF EvictOldest, PruneOldest
  <2>2. lru[1] \in Handles
    BY <2>1 DEF IInv, TypeOK, ListTypes
  <2>3. PICK k \in Keys : k = key[lru[1]]
    BY <2>2 DEF IInv, TypeOK, HandleTypes
  <2>4. RemoveKey(k)
    BY <2>1, <2>3 DEF RemoveKey
  <2> QED BY <2>4, UsageErase
<1>5. CASE \E c \in Clients : Release(c)
  BY <1>5, UsageRelease
<1>6. CASE \E c \in Clients, k \in Keys : Erase(c, k)
  BY <1>6, UsageErase DEF Erase
<1>7. CASE Destroy \/ DestroyOldest
  BY <1>7 DEF Destroy, DestroyOldest, UsageInv
<1>8. CASE \/ \E c \in Clients, k \in Keys : LookupMiss(c, k)
           \/ \E c \in Clients : OpenFails(c) \/ InsertDone(c) \/ Prune(c) \/ PruneDone(c)
           \/ UNCHANGED vars
  BY <1>1, <1>8 DEF LookupMiss, OpenFails, InsertDone, Prune, PruneDone, vars, fields, lists
<1> QED BY <1>2, <1>3, <1>4, <1>5, <1>6, <1>7, <1>8 DEF Next

(* A new cache has nothing to charge.                                      *)
LEMMA UsageInit == Init => UsageInv
<1> SUFFICES ASSUME Init PROVE UsageInv
  OBVIOUS
<1>1. Cached = {} /\ usage = 0
  BY DEF Init, Cached
<1>2. Units(Cached, charge) = {}
  BY <1>1 DEF Units
<1> QED BY <1>1, <1>2, FS_EmptySet DEF UsageInv

-----------------------------------------------------------------------------
(* The theorems.                                                           *)

(* IInv holds in every state of the cache.                                 *)
LEMMA Invariance == Spec => []IInv
BY InitInv, NextInv, PTL DEF Spec

(* Every variable has its type in every state: in particular refs never    *)
(* falls below 0 in Unref or FinishErase.                                  *)
THEOREM TypeCorrect == Spec => []TypeOK
<1>1. IInv => TypeOK
  BY DEF IInv
<1> QED BY <1>1, Invariance, PTL

(* The reference count of every entry is the number of its holders, the    *)
(* cache included.                                                         *)
THEOREM RefsAreExact == Spec => []RefsExact
<1>1. IInv => RefsExact
  BY DEF IInv
<1> QED BY <1>1, Invariance, PTL

(* Between Lookup or Insert and Release a client's handle is never freed.  *)
THEOREM HandlesStayValid == Spec => []NoUseAfterFree
<1>1. IInv => NoUseAfterFree
  BY DEF IInv
<1> QED BY <1>1, Invariance, PTL

(* Every entry that is not freed is in the cache or held by a client.      *)
THEOREM NothingLeaks == Spec => []NoLeak
BY InvNoLeak, Invariance, PTL

(* lru_ and in_use_ hold exactly the entries of the cache, by their refs.  *)
THEOREM ListsAreExact == Spec => []ListsExact
<1>1. IInv => ListsExact
  BY DEF IInv
<1> QED BY <1>1, Invariance, PTL

(* The table finds exactly the entries of the cache, under their own keys. *)
THEOREM TableIsExact == Spec => []TableExact
<1>1. IInv => TableExact
  BY DEF IInv
<1> QED BY <1>1, Invariance, PTL

(* Counts, lists and table agree in every state of the cache, for any      *)
(* number of clients, keys and handles.                                    *)
THEOREM CacheIsExact == Spec => []CacheExact
BY RefsAreExact, NothingLeaks, ListsAreExact, TableIsExact, PTL DEF CacheExact

(* usage_ is the sum of the charges of the entries of the cache, through   *)
(* replacement, eviction and erasure: it never wraps below 0, and with it  *)
(* the loop of Insert evicts for a reason.                                 *)
THEOREM UsageIsExact == Spec => []UsageExact
<1>1. IInv /\ UsageInv /\ [Next]_vars => UsageInv'
  BY UsageNext
<1>2. UsageInv => UsageExact
  BY DEF UsageInv, UsageExact, Cached
<1> QED BY <1>1, <1>2, UsageInit, Invariance, PTL DEF Spec
=============================================================================
