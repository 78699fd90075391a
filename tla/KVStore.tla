------------------------------ MODULE KVStore ------------------------------
(***************************************************************************)
(* What the database promises to a caller of Put, Delete, Get, GetSnapshot *)
(* and ReleaseSnapshot (include/leveldb/db.h): one mapping from keys to    *)
(* values, which a write changes at its own key, and read-only views of it *)
(* that never change between GetSnapshot and ReleaseSnapshot.  The value   *)
(* of a key is the number of the write that put it.                        *)
(***************************************************************************)
EXTENDS Naturals, Sequences, SequencesExt

CONSTANT Keys

VARIABLES
  writes,   \* the number of writes so far
  store,    \* per key: the write that put its value, or NotFound
  views     \* what each live snapshot shows, oldest first

kvVars == <<writes, store, views>>

NotFound == 0

Init ==
  /\ writes = 0
  /\ store = [k \in Keys |-> NotFound]
  /\ views = <<>>

Put(k) ==
  /\ writes' = writes + 1
  /\ store' = [store EXCEPT ![k] = writes']
  /\ UNCHANGED views

Delete(k) ==
  /\ writes' = writes + 1
  /\ store' = [store EXCEPT ![k] = NotFound]
  /\ UNCHANGED views

GetSnapshot ==
  /\ DOMAIN views' # DOMAIN views
  /\ views' = Append(views, store)
  /\ UNCHANGED <<writes, store>>

ReleaseSnapshot ==
  /\ DOMAIN views' # DOMAIN views
  /\ \E i \in DOMAIN views : views' = RemoveAt(views, i)
  /\ UNCHANGED <<writes, store>>

Next ==
  \/ \E k \in Keys : Put(k) \/ Delete(k)
  \/ GetSnapshot
  \/ ReleaseSnapshot

Spec == Init /\ [][Next]_kvVars
=============================================================================
