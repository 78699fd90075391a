------------------------------- MODULE Cursor -------------------------------
(***************************************************************************)
(* What an iterator of the database promises (include/leveldb/iterator.h): *)
(* it moves over a map from keys to values that does not change, the       *)
(* snapshot it was made for, in either direction and from any position.    *)
(* status() is OK until something could not be read, which may be so when  *)
(* it is made; from then on it is never OK again, and positions mean       *)
(* nothing.                                                                *)
(***************************************************************************)
EXTENDS Integers

CONSTANTS
  Targets,      \* what Seek may look for
  KeyLess(_, _) \* the order of the keys

VARIABLES
  contents,  \* the snapshot: a set of [key, val], one for each key
  call,      \* the call in progress: [name, target]; name "none" between
  at,        \* the set that holds the entry it is at, empty if not Valid()
  ok         \* status().ok()

vars == <<contents, call, at, ok>>

NoCall(t) == [name |-> "none", target |-> t]

First(S) == {e \in S : \A f \in S : f = e \/ KeyLess(e.key, f.key)}
Last(S) == {e \in S : \A f \in S : f = e \/ KeyLess(f.key, e.key)}

(* Where a call leads.                                                     *)
Destination ==
  CASE call.name = "Seek" ->
         First({e \in contents : ~KeyLess(e.key, call.target)})
    [] call.name = "SeekToFirst" -> First(contents)
    [] call.name = "SeekToLast" -> Last(contents)
    [] call.name = "Next" ->
         First({e \in contents : \A f \in at : KeyLess(f.key, e.key)})
    [] call.name = "Prev" ->
         Last({e \in contents : \A f \in at : KeyLess(e.key, f.key)})

Init ==
  /\ call.name = "none"
  /\ at = {}
  /\ ok \in BOOLEAN

Call(name, t) ==
  /\ ok /\ ok'
  /\ call.name = "none"
  /\ name \in {"Next", "Prev"} => at # {}
  /\ call' = [name |-> name, target |-> t]
  /\ UNCHANGED <<contents, at>>

Return ==
  /\ ok /\ ok'
  /\ call.name # "none"
  /\ at' = Destination
  /\ call'.name = "none"
  /\ UNCHANGED contents

(* Something was unreadable, now or before.                                *)
Fail == ~ok' /\ UNCHANGED contents

Next ==
  \/ \E name \in {"Seek", "SeekToFirst", "SeekToLast", "Next", "Prev"},
        t \in Targets : Call(name, t)
  \/ Return
  \/ Fail

Spec == Init /\ [][Next]_vars
=============================================================================
