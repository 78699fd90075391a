----------------------------- MODULE MCSkipList -----------------------------
(* Instances of SkipList for TLC.                                          *)
EXTENDS SkipList

MCUserKeys == {1, 2}
MCWrites == {<<1, TRUE>>, <<1, FALSE>>, <<2, TRUE>>}
=============================================================================
