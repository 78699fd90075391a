---------------------------- MODULE MCWriteQueue ----------------------------
(* Small instances of WriteQueue for TLC.                                  *)
EXTENDS WriteQueue, TLC

CONSTANTS w1, w2, w3

Plain(n) == [ops |-> n, sync |-> FALSE]
Sync(n) == [ops |-> n, sync |-> TRUE]
Null == Plain(NullBatch)

WriteRequests == {Plain(1), Plain(2), Sync(1)}
FlushRequests == {Plain(1), Null}
AllRequests == WriteRequests \cup {Null}

WriterSymmetry == Permutations({w1, w2, w3})

(* Two kinds of behaviours: files fail, nobody reads and no batch is null; *)
(* or nothing fails, nobody asks for sync, and there is a reader.  The     *)
(* destructor makes compactions fail.  (LiveSpec has null batches among    *)
(* failures.)                                                              *)
VARIABLE kind

NothingFails ==
  dtor = "open" => ~bgError /\ bg.ok /\ \A w \in Writers : status[w]

MCInit ==
  /\ Init
  /\ kind \in {"failures", "reader"}
  /\ kind = "reader" => \A w \in Writers : ~req[w].sync
  /\ kind = "failures" => \A w \in Writers : req[w] # Null

MCNext ==
  /\ Next
  /\ UNCHANGED kind
  /\ kind = "failures" => UNCHANGED iter
  /\ kind = "reader" => NothingFails'

MCSpec == MCInit /\ [][MCNext]_<<vars, kind>>

(* Writers are interchangeable, so it only matters how many of them ask    *)
(* for a flush; SYMMETRY is not sound for liveness.                        *)
LiveInit ==
  /\ Init /\ kind = "failures"
  /\ req[w2] = Null => req[w1] = Null
  /\ req[w3] = Null => req[w2] = Null

LiveSpec == LiveInit /\ [][Next /\ UNCHANGED kind]_<<vars, kind>> /\ Fairness
=============================================================================
