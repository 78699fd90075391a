--------------------------- MODULE MCEnvironment ---------------------------
(* What PosixEnv gives its users, and the users, for TLC: the cache of     *)
(* tables and its files, a file that is written, the lock of a database    *)
(* and the background thread.  They share no state, so a behaviour is one  *)
(* of a single part.                                                       *)
EXTENDS TableCache, WritableFile, FileLock, ManualCompaction, TLC

CONSTANTS Parts, h1, h2, h3
VARIABLE part

(* Handles appear in the part of the cache only, of which no temporal      *)
(* property speaks.                                                        *)
Symmetry == Permutations(Handles)

OneOfEach == [k \in Kinds |-> 1]

EnvInit ==
  /\ part \in Parts
  /\ CacheInit /\ FileInit /\ LockInit /\ ManualInit
  /\ part # "cache" => use = "tables" /\ capacity = 0
  /\ part # "file" => ~isManifest
  /\ part # "work" => pieces = [c \in Callers |-> 0]

EnvNext ==
  /\ UNCHANGED part
  /\ \/ /\ part = "cache" /\ CacheNext
        /\ UNCHANGED <<fileVars, lockVars, manualVars>>
     \/ /\ part = "file" /\ FileNext
        /\ UNCHANGED <<cacheVars, lockVars, manualVars>>
     \/ /\ part = "lock" /\ LockNext
        /\ UNCHANGED <<cacheVars, fileVars, manualVars>>
     \/ /\ part = "work" /\ ManualNext
        /\ UNCHANGED <<cacheVars, fileVars, lockVars>>

envVars == <<part, cacheVars, fileVars, lockVars, manualVars>>

(* The fairness of ManualCompaction.                                       *)
EnvSpec ==
  /\ EnvInit /\ [][EnvNext]_envVars
  /\ WF_manualVars(part = "work" /\ ~crashed /\ Background)
  /\ \A c \in Callers : WF_manualVars(part = "work" /\ ~crashed /\ Caller(c))
=============================================================================
