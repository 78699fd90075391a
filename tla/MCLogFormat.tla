---------------------------- MODULE MCLogFormat ----------------------------
(* The behaviours of LogFormat that TLC explores.                          *)
EXTENDS LogFormat

(* A crash, and a reader from several offsets; a file that is written on   *)
(* after a crash, also behind zeros; appends that fail, and then a crash.  *)
Torn ==
  [initialOffsets |-> {0, 2, 6, 7}, zeros |-> {0, 4}, appendErrors |-> FALSE,
   readErrors |-> TRUE, records |-> 3, crashes |-> 1]
Reused ==
  [initialOffsets |-> {0}, zeros |-> {0}, appendErrors |-> FALSE,
   readErrors |-> FALSE, records |-> 3, crashes |-> 2]
Zeroed == [Reused EXCEPT !.zeros = {4}, !.records = 2]
Failing ==
  [initialOffsets |-> {0}, zeros |-> {0}, appendErrors |-> TRUE,
   readErrors |-> FALSE, records |-> 2, crashes |-> 1]
Scenarios_All == {Torn, Reused, Zeroed, Failing}
=============================================================================
