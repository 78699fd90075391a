------------------------------- MODULE MCLSM -------------------------------
(* The scenarios of LSM that TLC explores.                                 *)
EXTENDS LSM

MaxBytes_Small == [l \in 1 .. NumLevels - 1 |-> IF l = 1 THEN 1 ELSE 2]
MaxBytes_Large == [l \in 1 .. NumLevels - 1 |-> 10]

(* nullptr, nullptr; and a range whose ends are both keys.                 *)
Everything == [begin |-> NoBegin, end |-> NoEnd]
OneKey == [begin |-> 1, end |-> 1]

(* Compactions for size, and a snapshot that keeps old entries.            *)
Automatic ==
  [targetFileSize |-> 1, ioErrors |-> FALSE, seeks |-> FALSE, writes |-> 4,
   deletions |-> {3}, snapshots |-> 1, manuals |-> 0, ranges |-> {}]
(* CompactRange among compactions for seeks, with operations that fail.    *)
ByHand ==
  [targetFileSize |-> 2, ioErrors |-> TRUE, seeks |-> TRUE, writes |-> 3,
   deletions |-> {2}, snapshots |-> 0, manuals |-> 1,
   ranges |-> {Everything, OneKey}]
Scenarios_All == {Automatic, ByHand}

(* CompactRange over files with a gap between them.                        *)
Scenarios_Gap ==
  {[targetFileSize |-> 4, ioErrors |-> FALSE, seeks |-> FALSE, writes |-> 5,
    deletions |-> {}, snapshots |-> 0, manuals |-> 1, ranges |-> {Everything}]}
=============================================================================
