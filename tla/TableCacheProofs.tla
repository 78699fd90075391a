-------------------------- MODULE TableCacheProofs --------------------------
(***************************************************************************)
(* Proofs about the cache in its two uses (TableCache): what LRUCacheProofs*)
(* proves of it holds in them, too, and the permits of the two Limiters    *)
(* are accounted for, for any number of clients, keys and handles and for  *)
(* any limits.                                                             *)
(*                                                                         *)
(* A permit is in one of four places: with its Limiter, with a client that *)
(* has taken one and has no file yet, with an open file, or on the way     *)
(* back.  That the sum is the limit is inductive as it stands; that no     *)
(* more files are open than the limit is not, since acquires_allowed_ may  *)
(* be below 0 for a while, and needs the permits that were granted.        *)
(***************************************************************************)
EXTENDS TableCache, LRUCacheProofs

Places == {"none", "start", "map", "noMap", "askFd", "noFd", "temporary",
           "mmap", "fd"}
FileKinds == {"none", "mmap", "fd", "temporary"}

LimiterTypes ==
  /\ use \in {"tables", "blocks"}
  /\ allowed \in [Kinds -> Int] /\ returning \in [Kinds -> Nat]
  /\ opening \in [Clients -> [at : Places, sst : BOOLEAN]]
  /\ fileOf \in [Handles -> FileKinds]

(* Only a client that has missed opens a file; blocks have none.           *)
OpeningPcs ==
  /\ \A c \in Clients : opening[c].at # "none" => pc[c] = "missed"
  /\ use = "blocks" => /\ \A c \in Clients : opening[c].at = "none"
                       /\ \A h \in Handles : fileOf[h] = "none"

(* Entries with a file of a kind, and clients at a place.                  *)
WithFile(k) == {h \in alive : fileOf[h] = k}
Files(k) == Cardinality(WithFile(k))
ClientsAt(x) == {c \in Clients : opening[c].at = x}
Number(x) == Cardinality(ClientsAt(x))

(* Where the permits are, and those that were granted.                     *)
Permits ==
  /\ allowed["mmap"] + Files("mmap") + Number("mmap") + Number("map")
       + Number("noMap") + returning["mmap"] = Limit["mmap"]
  /\ allowed["fd"] + Files("fd") + Number("fd") + Number("noFd")
       + returning["fd"] = Limit["fd"]
  /\ Files("mmap") + Number("mmap") + Number("map") + returning["mmap"]
       <= Limit["mmap"]
  /\ Files("fd") + Number("fd") + returning["fd"] <= Limit["fd"]

PermitIInv ==
  IInv /\ IsFiniteSet(alive) /\ LimiterTypes /\ OpeningPcs /\ Permits

-----------------------------------------------------------------------------
(* Counting.                                                               *)

(* How many clients are at a place is a number.                            *)
LEMMA NumberType == \A x : Number(x) \in Nat /\ IsFiniteSet(ClientsAt(x))
<1> SUFFICES ASSUME NEW x
             PROVE  Number(x) \in Nat /\ IsFiniteSet(ClientsAt(x))
  OBVIOUS
<1>1. ClientsAt(x) \in SUBSET Clients
  BY DEF ClientsAt
<1>2. IsFiniteSet(ClientsAt(x))
  BY <1>1, LRUAssumption, FS_Subset
<1> QED  BY <1>2, FS_CardinalityType DEF Number

(* How many files of a kind the entries have is a number.                  *)
LEMMA FilesType ==
  ASSUME IsFiniteSet(alive), NEW k
  PROVE  Files(k) \in Nat /\ IsFiniteSet(WithFile(k))
<1>1. WithFile(k) \in SUBSET alive
  BY DEF WithFile
<1>2. IsFiniteSet(WithFile(k))
  BY <1>1, FS_Subset
<1> QED  BY <1>2, FS_CardinalityType DEF Files

(* A client moves from one place to another.                               *)
LEMMA NumberMoves ==
  ASSUME NEW c \in Clients,
         NEW from, opening[c].at = from, NEW to, opening'[c].at = to,
         \A d \in Clients \ {c} : opening'[d].at = opening[d].at
  PROVE  \A x : Number(x)' = Number(x) + (IF x = to THEN 1 ELSE 0)
                                       - (IF x = from THEN 1 ELSE 0)
<1> SUFFICES ASSUME NEW x
             PROVE  Number(x)' = Number(x) + (IF x = to THEN 1 ELSE 0)
                                           - (IF x = from THEN 1 ELSE 0)
  OBVIOUS
<1>0. Number(x) \in Nat /\ IsFiniteSet(ClientsAt(x))
  BY NumberType
<1>1. CASE x = to /\ x # from
  <2>1. ClientsAt(x)' = ClientsAt(x) \cup {c} /\ c \notin ClientsAt(x)
    BY <1>1 DEF ClientsAt
  <2>2. Cardinality(ClientsAt(x) \cup {c}) = Cardinality(ClientsAt(x)) + 1
    BY <1>0, <2>1, FS_AddElement
  <2>3. Number(x)' = Number(x) + 1
    BY <2>1, <2>2 DEF Number
  <2> QED  BY <1>0, <1>1, <2>3
<1>2. CASE x # to /\ x = from
  <2>1. ClientsAt(x)' = ClientsAt(x) \ {c} /\ c \in ClientsAt(x)
    BY <1>2 DEF ClientsAt
  <2>2. Cardinality(ClientsAt(x) \ {c}) = Cardinality(ClientsAt(x)) - 1
    BY <1>0, <2>1, FS_RemoveElement
  <2>3. Number(x)' = Number(x) - 1
    BY <2>1, <2>2 DEF Number
  <2> QED  BY <1>0, <1>2, <2>3
<1>3. CASE x = to <=> x = from
  <2>1. ClientsAt(x)' = ClientsAt(x)
    BY <1>3 DEF ClientsAt
  <2> QED  BY <1>0, <1>3, <2>1 DEF Number
<1> QED  BY <1>1, <1>2, <1>3

(* Nobody moves.                                                           *)
LEMMA NumberSame ==
  ASSUME opening' = opening
  PROVE  \A x : Number(x)' = Number(x)
BY DEF Number, ClientsAt

(* Entries are freed, and one may come with the file its client opened.    *)
LEMMA FilesFreed ==
  ASSUME IsFiniteSet(alive), alive \subseteq Handles, alive' \subseteq Handles,
         NEW files, DeleteEntries(files),
         \A h \in alive \cap alive' : files[h] = fileOf[h]
  PROVE  /\ \A k \in Kinds :
              \E d \in Nat :
                 /\ returning'[k] = returning[k] + d
                 /\ d <= Files(k)
                 /\ Cardinality({h \in alive \cap alive' : files[h] = k})
                      = Files(k) - d
                 /\ IsFiniteSet({h \in alive \cap alive' : files[h] = k})
         /\ \A k : WithFile(k)' = {h \in alive' : files[h] = k}
         /\ \A h \in Handles :
              fileOf'[h] = IF h \in alive \ alive' THEN "none" ELSE files[h]
<1> DEFINE freed == alive \ alive'
<1>1. ASSUME NEW k \in Kinds
      PROVE  \E d \in Nat :
                 /\ returning'[k] = returning[k] + d
                 /\ d <= Files(k)
                 /\ Cardinality({h \in alive \cap alive' : files[h] = k})
                      = Files(k) - d
                 /\ IsFiniteSet({h \in alive \cap alive' : files[h] = k})
  <2> DEFINE gone == {h \in freed : fileOf[h] = k}
  <2>1. returning'[k] = returning[k] + Cardinality(gone)
    BY DEF DeleteEntries, CloseFiles
  <2>2. gone \in SUBSET WithFile(k) /\ gone \cap WithFile(k) = gone
        /\ WithFile(k) \cap gone = gone
    BY DEF WithFile
  <2>3. IsFiniteSet(WithFile(k)) /\ Files(k) \in Nat
    BY FilesType
  <2>4. /\ IsFiniteSet(gone) /\ Cardinality(gone) \in Nat
        /\ Cardinality(gone) <= Files(k)
    BY <2>2, <2>3, FS_Subset, FS_CardinalityType DEF Files
  <2>5. {h \in alive \cap alive' : files[h] = k} = WithFile(k) \ gone
    BY DEF WithFile
  <2>6. /\ Cardinality(WithFile(k) \ gone) = Files(k) - Cardinality(gone)
        /\ IsFiniteSet(WithFile(k) \ gone)
    BY <2>2, <2>3, FS_Difference, ZenonT(40) DEF Files
  <2> HIDE DEF gone
  <2> QED  BY <2>1, <2>4, <2>5, <2>6
<1>2. \A h \in Handles :
         fileOf'[h] = IF h \in alive \ alive' THEN "none" ELSE files[h]
  BY DEF DeleteEntries
<1>3. \A k : WithFile(k)' = {h \in alive' : files[h] = k}
  BY <1>2 DEF WithFile
<1> QED  BY <1>1, <1>2, <1>3

(* The entries and their files stay as they are.                           *)
LEMMA FilesSame ==
  ASSUME UNCHANGED <<alive, fileOf>>
  PROVE  \A k : Files(k)' = Files(k)
BY DEF Files, WithFile

(* A client goes on to another place in NewRandomAccessFile or FindTable.  *)
LEMMA OpensAtMoves ==
  ASSUME LimiterTypes, NEW c \in Clients, NEW to \in Places,
         \/ OpensAt(c, to)
         \/ \E b \in BOOLEAN :
              opening' = [opening EXCEPT ![c] = [at |-> to, sst |-> b]]
  PROVE  /\ opening' \in [Clients -> [at : Places, sst : BOOLEAN]]
         /\ opening'[c].at = to
         /\ \A d \in Clients \ {c} : opening'[d].at = opening[d].at
         /\ \A x : Number(x)' = Number(x) + (IF x = to THEN 1 ELSE 0)
                                   - (IF x = opening[c].at THEN 1 ELSE 0)
<1>1. /\ opening \in [Clients -> [at : Places, sst : BOOLEAN]]
      /\ opening[c] \in [at : Places, sst : BOOLEAN]
  BY DEF LimiterTypes
<1>2. /\ opening' \in [Clients -> [at : Places, sst : BOOLEAN]]
      /\ opening'[c].at = to
      /\ \A d \in Clients \ {c} : opening'[d].at = opening[d].at
  BY <1>1 DEF OpensAt
<1> QED  BY <1>2, NumberMoves

(* Counts are numbers.                                                     *)
LEMMA CountTypes ==
  ASSUME PermitIInv
  PROVE  /\ \A x : Number(x) \in Nat
         /\ \A k : Files(k) \in Nat
         /\ \A k \in Kinds : /\ allowed[k] \in Int /\ returning[k] \in Nat
                             /\ Limit[k] \in Nat
         /\ "mmap" \in Kinds /\ "fd" \in Kinds
<1>1. \A k : Files(k) \in Nat
  BY FilesType DEF PermitIInv
<1> QED  BY <1>1, NumberType, LimitAssumption DEF PermitIInv, LimiterTypes, Kinds

-----------------------------------------------------------------------------
(* The cache is empty, and every permit with its Limiter.                  *)
LEMMA PermitInit == CacheInit => PermitIInv
<1> SUFFICES ASSUME CacheInit PROVE PermitIInv
  OBVIOUS
<1>1. IInv
  BY InitInv DEF CacheInit
<1>2. alive = {} /\ IsFiniteSet(alive)
  BY FS_EmptySet DEF CacheInit, Init
<1>3. LimiterTypes
  BY LimitAssumption
     DEF CacheInit, LimiterTypes, NotOpening, Places, FileKinds
<1>4. \A c \in Clients : opening[c].at = "none"
  BY DEF CacheInit, NotOpening
<1>5. OpeningPcs
  BY <1>4 DEF OpeningPcs, CacheInit
<1>6. \A x : x # "none" => Number(x) = 0
  <2> SUFFICES ASSUME NEW x, x # "none" PROVE Number(x) = 0
    OBVIOUS
  <2>1. ClientsAt(x) = {}
    BY <1>4 DEF ClientsAt
  <2> QED  BY <2>1, FS_EmptySet DEF Number
<1>7. \A k : Files(k) = 0
  <2> SUFFICES ASSUME NEW k PROVE Files(k) = 0
    OBVIOUS
  <2>1. WithFile(k) = {}
    BY <1>2 DEF WithFile
  <2> QED  BY <2>1, FS_EmptySet DEF Files
<1>8. /\ allowed = Limit /\ Limit["mmap"] \in Nat /\ Limit["fd"] \in Nat
      /\ returning["mmap"] = 0 /\ returning["fd"] = 0
  BY LimitAssumption DEF CacheInit, Kinds
<1>9. /\ Number("mmap") = 0 /\ Number("map") = 0 /\ Number("noMap") = 0
      /\ Number("fd") = 0 /\ Number("noFd") = 0
  BY <1>6
<1>10. Permits
  BY <1>7, <1>8, <1>9 DEF Permits
<1> QED  BY <1>1, <1>2, <1>3, <1>5, <1>10 DEF PermitIInv

-----------------------------------------------------------------------------
(* The steps.                                                              *)

(* What a step that leaves the cache alone, or only moves a client in it,  *)
(* has to show.                                                            *)
LEMMA FilesStay ==
  ASSUME PermitIInv, UNCHANGED <<alive, fileOf, use>>, IInv',
         use = "tables", LimiterTypes',
         \A c \in Clients : opening'[c].at # "none" => pc'[c] = "missed",
         Permits'
  PROVE  PermitIInv'
<1>1. IsFiniteSet(alive)'
  BY DEF PermitIInv
<1>2. OpeningPcs'
  BY DEF OpeningPcs
<1> QED  BY <1>1, <1>2 DEF PermitIInv

(* Acquire of mmap_limiter_ and of fd_limiter_, and what follows when they *)
(* have none left.                                                         *)
LEMMA LimiterInv ==
  ASSUME PermitIInv, use = "tables", use' = use, NEW c \in Clients,
         OpenFile(c) \/ NoMapping(c) \/ AskDescriptor(c) \/ NoDescriptor(c)
           \/ MapFile(c)
  PROVE  PermitIInv'
<1>0. /\ LimiterTypes /\ OpeningPcs /\ Permits
      /\ UNCHANGED <<vars, fileOf, returning>>
      /\ opening[c].at # "none"
  BY DEF PermitIInv, OpenFile, NoMapping, AskDescriptor, NoDescriptor, MapFile
<1>1. IInv' /\ UNCHANGED <<alive, fileOf, pc, returning>>
  BY <1>0, NextInv DEF vars, clientVars, PermitIInv
<1>11. Permits /\ returning' = returning
  BY <1>0
<1>2. Files("mmap")' = Files("mmap") /\ Files("fd")' = Files("fd")
  BY <1>1, FilesSame
<1>3. pc[c] = "missed"
  BY <1>0 DEF OpeningPcs
<1>4. PICK to \in Places : OpensAt(c, to)
  BY DEF OpenFile, NoMapping, AskDescriptor, NoDescriptor, MapFile, Acquire,
         Places
<1>5. /\ opening' \in [Clients -> [at : Places, sst : BOOLEAN]]
      /\ opening'[c].at = to
      /\ \A d \in Clients \ {c} : opening'[d].at = opening[d].at
      /\ \A x : Number(x)' = Number(x) + (IF x = to THEN 1 ELSE 0)
                                - (IF x = opening[c].at THEN 1 ELSE 0)
  BY <1>0, <1>4, OpensAtMoves
<1>6. /\ Number("mmap") \in Nat /\ Number("map") \in Nat
      /\ Number("noMap") \in Nat /\ Number("fd") \in Nat
      /\ Number("noFd") \in Nat
      /\ Files("mmap") \in Nat /\ Files("fd") \in Nat
      /\ allowed["mmap"] \in Int /\ returning["mmap"] \in Nat
      /\ allowed["fd"] \in Int /\ returning["fd"] \in Nat
      /\ Limit["mmap"] \in Nat /\ Limit["fd"] \in Nat
      /\ allowed \in [Kinds -> Int] /\ "mmap" \in Kinds /\ "fd" \in Kinds
  BY <1>0, CountTypes DEF LimiterTypes
<1>7. allowed' \in [Kinds -> Int]
  BY <1>6
     DEF OpenFile, NoMapping, AskDescriptor, NoDescriptor, MapFile, Acquire,
         GiveBack
<1>8. LimiterTypes'
  BY <1>0, <1>5, <1>7 DEF LimiterTypes
<1>9. Permits'
  <2>1. ASSUME OpenFile(c), allowed["mmap"] > 0 PROVE Permits'
    <3>1. to = "map" /\ opening[c].at = "start"
      BY <1>4, <1>5, <2>1, <1>0 DEF OpenFile, Acquire, OpensAt, LimiterTypes
    <3>2. /\ Number("mmap")' = Number("mmap") /\ Number("fd")' = Number("fd")
          /\ Number("noFd")' = Number("noFd")
          /\ Number("noMap")' = Number("noMap")
          /\ Number("map")' = Number("map") + 1
      BY <1>5, <1>6, <3>1
    <3>3. allowed'["mmap"] = allowed["mmap"] - 1 /\ allowed'["fd"] = allowed["fd"]
      BY <1>6, <2>1 DEF OpenFile, Acquire
    <3> QED  BY <1>11, <1>2, <1>6, <2>1, <3>2, <3>3 DEF Permits
  <2>2. ASSUME OpenFile(c), ~(allowed["mmap"] > 0) PROVE Permits'
    <3>1. to = "noMap" /\ opening[c].at = "start"
      BY <1>4, <1>5, <2>2, <1>0 DEF OpenFile, Acquire, OpensAt, LimiterTypes
    <3>2. /\ Number("mmap")' = Number("mmap") /\ Number("fd")' = Number("fd")
          /\ Number("noFd")' = Number("noFd")
          /\ Number("noMap")' = Number("noMap") + 1
          /\ Number("map")' = Number("map")
      BY <1>5, <1>6, <3>1
    <3>3. allowed'["mmap"] = allowed["mmap"] - 1 /\ allowed'["fd"] = allowed["fd"]
      BY <1>6, <2>2 DEF OpenFile, Acquire
    <3> QED  BY <1>11, <1>2, <1>6, <3>2, <3>3 DEF Permits
  <2>3. ASSUME NoMapping(c) PROVE Permits'
    <3>1. to = "askFd" /\ opening[c].at = "noMap"
      BY <1>4, <1>5, <2>3, <1>0 DEF NoMapping, OpensAt, LimiterTypes
    <3>2. /\ Number("mmap")' = Number("mmap") /\ Number("fd")' = Number("fd")
          /\ Number("noFd")' = Number("noFd")
          /\ Number("noMap")' = Number("noMap") - 1
          /\ Number("map")' = Number("map")
      BY <1>5, <1>6, <3>1
    <3>3. allowed'["mmap"] = allowed["mmap"] + 1 /\ allowed'["fd"] = allowed["fd"]
      BY <1>6, <2>3 DEF NoMapping, GiveBack
    <3> QED  BY <1>11, <1>2, <1>6, <3>2, <3>3 DEF Permits
  <2>4. ASSUME AskDescriptor(c), allowed["fd"] > 0 PROVE Permits'
    <3>1. to = "fd" /\ opening[c].at = "askFd"
      BY <1>4, <1>5, <2>4, <1>0 DEF AskDescriptor, Acquire, OpensAt, LimiterTypes
    <3>2. /\ Number("mmap")' = Number("mmap") /\ Number("fd")' = Number("fd") + 1
          /\ Number("noFd")' = Number("noFd")
          /\ Number("noMap")' = Number("noMap")
          /\ Number("map")' = Number("map")
      BY <1>5, <1>6, <3>1
    <3>3. allowed'["mmap"] = allowed["mmap"] /\ allowed'["fd"] = allowed["fd"] - 1
      BY <1>6, <2>4 DEF AskDescriptor, Acquire
    <3> QED  BY <1>11, <1>2, <1>6, <2>4, <3>2, <3>3 DEF Permits
  <2>5. ASSUME AskDescriptor(c), ~(allowed["fd"] > 0) PROVE Permits'
    <3>1. to = "noFd" /\ opening[c].at = "askFd"
      BY <1>4, <1>5, <2>5, <1>0 DEF AskDescriptor, Acquire, OpensAt, LimiterTypes
    <3>2. /\ Number("mmap")' = Number("mmap") /\ Number("fd")' = Number("fd")
          /\ Number("noFd")' = Number("noFd") + 1
          /\ Number("noMap")' = Number("noMap")
          /\ Number("map")' = Number("map")
      BY <1>5, <1>6, <3>1
    <3>3. allowed'["mmap"] = allowed["mmap"] /\ allowed'["fd"] = allowed["fd"] - 1
      BY <1>6, <2>5 DEF AskDescriptor, Acquire
    <3> QED  BY <1>11, <1>2, <1>6, <3>2, <3>3 DEF Permits
  <2>6. ASSUME NoDescriptor(c) PROVE Permits'
    <3>1. to = "temporary" /\ opening[c].at = "noFd"
      BY <1>4, <1>5, <2>6, <1>0 DEF NoDescriptor, OpensAt, LimiterTypes
    <3>2. /\ Number("mmap")' = Number("mmap") /\ Number("fd")' = Number("fd")
          /\ Number("noFd")' = Number("noFd") - 1
          /\ Number("noMap")' = Number("noMap")
          /\ Number("map")' = Number("map")
      BY <1>5, <1>6, <3>1
    <3>3. allowed'["mmap"] = allowed["mmap"] /\ allowed'["fd"] = allowed["fd"] + 1
      BY <1>6, <2>6 DEF NoDescriptor, GiveBack
    <3> QED  BY <1>11, <1>2, <1>6, <3>2, <3>3 DEF Permits
  <2>7. ASSUME MapFile(c) PROVE Permits'
    <3>1. to = "mmap" /\ opening[c].at = "map"
      BY <1>4, <1>5, <2>7, <1>0 DEF MapFile, OpensAt, LimiterTypes
    <3>2. /\ Number("mmap")' = Number("mmap") + 1 /\ Number("fd")' = Number("fd")
          /\ Number("noFd")' = Number("noFd")
          /\ Number("noMap")' = Number("noMap")
          /\ Number("map")' = Number("map") - 1
      BY <1>5, <1>6, <3>1
    <3>3. allowed' = allowed
      BY <2>7 DEF MapFile
    <3> QED  BY <1>11, <1>2, <1>6, <3>2, <3>3 DEF Permits
  <2> QED  BY <2>1, <2>2, <2>3, <2>4, <2>5, <2>6, <2>7
<1>10. \A d \in Clients : opening'[d].at # "none" => pc'[d] = "missed"
  BY <1>0, <1>1, <1>3, <1>5 DEF OpeningPcs
<1> QED  BY <1>1, <1>8, <1>9, <1>10, FilesStay

(* A name fails, or all of them: the client tries the next, or is done.    *)
LEMMA NextNameMoves ==
  ASSUME PermitIInv, NEW c \in Clients, NextName(c), opening[c].at # "none"
  PROVE  \E to \in {"start", "none"} :
           /\ IInv' /\ alive' = alive
           /\ opening' \in [Clients -> [at : Places, sst : BOOLEAN]]
           /\ opening'[c].at = to
           /\ \A d \in Clients : opening'[d].at # "none" => pc'[d] = "missed"
           /\ \A x : Number(x)' = Number(x) + (IF x = to THEN 1 ELSE 0)
                                     - (IF x = opening[c].at THEN 1 ELSE 0)
<1>0. LimiterTypes /\ OpeningPcs /\ IInv /\ pc \in [Clients -> {"idle",
        "missed", "evict", "holding", "prune"}]
  BY DEF PermitIInv, IInv, TypeOK, ClientTypes
<1>1. CASE ~opening[c].sst
  <2>1. opening' = [opening EXCEPT ![c] = [at |-> "start", sst |-> TRUE]]
        /\ UNCHANGED vars
    BY <1>1 DEF NextName
  <2>2. IInv' /\ alive' = alive /\ pc' = pc
    BY <1>0, <2>1, NextInv DEF vars, clientVars
  <2>3. "start" \in Places
    BY DEF Places
  <2>4. /\ opening' \in [Clients -> [at : Places, sst : BOOLEAN]]
        /\ opening'[c].at = "start"
        /\ \A d \in Clients \ {c} : opening'[d].at = opening[d].at
        /\ \A x : Number(x)' = Number(x) + (IF x = "start" THEN 1 ELSE 0)
                                  - (IF x = opening[c].at THEN 1 ELSE 0)
    BY <1>0, <2>1, <2>3, OpensAtMoves
  <2>5. \A d \in Clients : opening'[d].at # "none" => pc'[d] = "missed"
    BY <1>0, <2>2, <2>4 DEF OpeningPcs
  <2> QED  BY <2>2, <2>4, <2>5
<1>2. CASE opening[c].sst
  <2>1. opening' = [opening EXCEPT ![c] = [at |-> "none", sst |-> FALSE]]
        /\ OpenFails(c)
    BY <1>2 DEF NextName, NotOpening
  <2>2. IInv' /\ alive' = alive /\ pc' = [pc EXCEPT ![c] = "idle"]
    BY <1>0, <2>1, NextInv DEF Next, OpenFails, Goes
  <2>3. "none" \in Places
    BY DEF Places
  <2>4. /\ opening' \in [Clients -> [at : Places, sst : BOOLEAN]]
        /\ opening'[c].at = "none"
        /\ \A d \in Clients \ {c} : opening'[d].at = opening[d].at
        /\ \A x : Number(x)' = Number(x) + (IF x = "none" THEN 1 ELSE 0)
                                  - (IF x = opening[c].at THEN 1 ELSE 0)
    BY <1>0, <2>1, <2>3, OpensAtMoves
  <2>5. \A d \in Clients : opening'[d].at # "none" => pc'[d] = "missed"
    BY <1>0, <2>2, <2>4 DEF OpeningPcs
  <2> QED  BY <2>2, <2>4, <2>5
<1> QED  BY <1>1, <1>2

(* open, GetFileSize or mmap fails.                                        *)
LEMMA CannotInv ==
  ASSUME PermitIInv, use = "tables", use' = use, NEW c \in Clients,
         CannotOpen(c) \/ CannotMap(c)
  PROVE  PermitIInv'
<1>0. /\ NextName(c) /\ UNCHANGED <<fileOf, returning>>
      /\ opening[c].at # "none" /\ LimiterTypes
  BY DEF CannotOpen, CannotMap, PermitIInv
<1>1. PICK to \in {"start", "none"} :
           /\ IInv' /\ alive' = alive
           /\ opening' \in [Clients -> [at : Places, sst : BOOLEAN]]
           /\ opening'[c].at = to
           /\ \A d \in Clients : opening'[d].at # "none" => pc'[d] = "missed"
           /\ \A x : Number(x)' = Number(x) + (IF x = to THEN 1 ELSE 0)
                                     - (IF x = opening[c].at THEN 1 ELSE 0)
  BY <1>0, NextNameMoves
<1>2. Files("mmap")' = Files("mmap") /\ Files("fd")' = Files("fd")
  BY <1>0, <1>1, FilesSame
<1>3. /\ Number("mmap") \in Nat /\ Number("map") \in Nat
      /\ Number("noMap") \in Nat /\ Number("fd") \in Nat
      /\ Number("noFd") \in Nat
      /\ Files("mmap") \in Nat /\ Files("fd") \in Nat
      /\ allowed["mmap"] \in Int /\ returning["mmap"] \in Nat
      /\ allowed["fd"] \in Int /\ returning["fd"] \in Nat
      /\ Limit["mmap"] \in Nat /\ Limit["fd"] \in Nat
      /\ allowed \in [Kinds -> Int] /\ "mmap" \in Kinds /\ "fd" \in Kinds
  BY <1>0, CountTypes DEF LimiterTypes
<1>4. allowed' \in [Kinds -> Int]
  BY <1>3 DEF CannotOpen, CannotMap, GiveBack
<1>5. LimiterTypes'
  BY <1>0, <1>1, <1>4 DEF LimiterTypes
<1>6. Permits /\ returning' = returning
  BY <1>0 DEF PermitIInv
<1>7. Permits'
  <2>1. ASSUME CannotOpen(c) PROVE Permits'
    <3>1. opening[c].at = "start" /\ allowed' = allowed
      BY <2>1 DEF CannotOpen
    <3>2. /\ Number("mmap")' = Number("mmap") /\ Number("fd")' = Number("fd")
          /\ Number("noFd")' = Number("noFd")
          /\ Number("noMap")' = Number("noMap")
          /\ Number("map")' = Number("map")
      BY <1>1, <1>3, <3>1
    <3> QED  BY <1>2, <1>3, <1>6, <3>1, <3>2 DEF Permits
  <2>2. ASSUME CannotMap(c) PROVE Permits'
    <3>1. /\ opening[c].at = "map" /\ allowed'["mmap"] = allowed["mmap"] + 1
          /\ allowed'["fd"] = allowed["fd"]
      BY <1>3, <2>2 DEF CannotMap, GiveBack
    <3>2. /\ Number("mmap")' = Number("mmap") /\ Number("fd")' = Number("fd")
          /\ Number("noFd")' = Number("noFd")
          /\ Number("noMap")' = Number("noMap")
          /\ Number("map")' = Number("map") - 1
      BY <1>1, <1>3, <3>1
    <3> QED  BY <1>2, <1>3, <1>6, <3>1, <3>2 DEF Permits
  <2> QED  BY <2>1, <2>2
<1> QED  BY <1>0, <1>1, <1>5, <1>7, FilesStay

(* Table::Open fails: the file is closed, and its permit is on the way.    *)
LEMMA TableOpenFailsInv ==
  ASSUME PermitIInv, use = "tables", use' = use, NEW c \in Clients,
         TableOpenFails(c)
  PROVE  PermitIInv'
<1>0. /\ LimiterTypes /\ OpeningPcs /\ IInv
      /\ pc \in [Clients -> {"idle", "missed", "evict", "holding", "prune"}]
      /\ opening[c].at \in {"mmap", "fd", "temporary"}
      /\ OpenFails(c) /\ UNCHANGED <<allowed, fileOf>>
      /\ opening' = [opening EXCEPT ![c] = [at |-> "none", sst |-> FALSE]]
  BY DEF PermitIInv, IInv, TypeOK, ClientTypes, TableOpenFails, HasFile, Kinds,
         NotOpening
<1>1. IInv' /\ alive' = alive /\ pc' = [pc EXCEPT ![c] = "idle"]
  BY <1>0, NextInv DEF Next, OpenFails, Goes
<1>2. "none" \in Places
  BY DEF Places
<1>3. /\ opening' \in [Clients -> [at : Places, sst : BOOLEAN]]
      /\ opening'[c].at = "none"
      /\ \A d \in Clients \ {c} : opening'[d].at = opening[d].at
      /\ \A x : Number(x)' = Number(x) + (IF x = "none" THEN 1 ELSE 0)
                                - (IF x = opening[c].at THEN 1 ELSE 0)
  BY <1>0, <1>2, OpensAtMoves
<1>4. \A d \in Clients : opening'[d].at # "none" => pc'[d] = "missed"
  BY <1>0, <1>1, <1>3 DEF OpeningPcs
<1>5. Files("mmap")' = Files("mmap") /\ Files("fd")' = Files("fd")
  BY <1>0, <1>1, FilesSame
<1>6. /\ Number("mmap") \in Nat /\ Number("map") \in Nat
      /\ Number("noMap") \in Nat /\ Number("fd") \in Nat
      /\ Number("noFd") \in Nat
      /\ Files("mmap") \in Nat /\ Files("fd") \in Nat
      /\ allowed["mmap"] \in Int /\ returning["mmap"] \in Nat
      /\ allowed["fd"] \in Int /\ returning["fd"] \in Nat
      /\ Limit["mmap"] \in Nat /\ Limit["fd"] \in Nat
      /\ returning \in [Kinds -> Nat] /\ "mmap" \in Kinds /\ "fd" \in Kinds
  BY <1>0, CountTypes DEF LimiterTypes
<1>7. \A k \in Kinds : returning'[k] = returning[k]
                          + (IF k = opening[c].at THEN 1 ELSE 0)
  BY DEF TableOpenFails, CloseFiles, One
<1>8. returning' \in [Kinds -> Nat]
  <2>1. returning' = [k \in Kinds |-> returning[k] + One(opening[c].at)[k]]
    BY DEF TableOpenFails, CloseFiles
  <2>2. \A k \in Kinds : returning[k] + One(opening[c].at)[k] \in Nat
    BY <1>6 DEF One
  <2> QED  BY <2>1, <2>2
<1>9. LimiterTypes'
  BY <1>0, <1>3, <1>8 DEF LimiterTypes
<1>10. Permits
  BY DEF PermitIInv
<1>11. Permits'
  <2>1. /\ Number("map")' = Number("map") /\ Number("noMap")' = Number("noMap")
        /\ Number("noFd")' = Number("noFd")
    BY <1>0, <1>3, <1>6
  <2>2. \/ /\ Number("mmap")' = Number("mmap")
           /\ returning'["mmap"] = returning["mmap"]
        \/ /\ Number("mmap")' = Number("mmap") - 1
           /\ returning'["mmap"] = returning["mmap"] + 1
    BY <1>0, <1>3, <1>6, <1>7
  <2>3. \/ /\ Number("fd")' = Number("fd")
           /\ returning'["fd"] = returning["fd"]
        \/ /\ Number("fd")' = Number("fd") - 1
           /\ returning'["fd"] = returning["fd"] + 1
    BY <1>0, <1>3, <1>6, <1>7
  <2>5. allowed' = allowed
    BY <1>0
  <2>6. /\ allowed["mmap"] + Files("mmap") + Number("mmap") + Number("map")
            + Number("noMap") + returning["mmap"] = Limit["mmap"]
        /\ Files("mmap") + Number("mmap") + Number("map") + returning["mmap"]
            <= Limit["mmap"]
    BY <1>10 DEF Permits
  <2>7. /\ allowed["mmap"] + Files("mmap") + Number("mmap")' + Number("map")
            + Number("noMap") + returning'["mmap"] = Limit["mmap"]
        /\ Files("mmap") + Number("mmap")' + Number("map") + returning'["mmap"]
            <= Limit["mmap"]
    BY <1>6, <2>2, <2>6
  <2>8. /\ allowed["fd"] + Files("fd") + Number("fd") + Number("noFd")
            + returning["fd"] = Limit["fd"]
        /\ Files("fd") + Number("fd") + returning["fd"] <= Limit["fd"]
    BY <1>10 DEF Permits
  <2>9. /\ allowed["fd"] + Files("fd") + Number("fd")' + Number("noFd")
            + returning'["fd"] = Limit["fd"]
        /\ Files("fd") + Number("fd")' + returning'["fd"] <= Limit["fd"]
    BY <1>6, <2>3, <2>8
  <2> QED  BY <1>5, <2>1, <2>5, <2>7, <2>9 DEF Permits
<1> QED  BY <1>0, <1>1, <1>4, <1>9, <1>11, FilesStay

(* FindTable finds the table, or goes to open it; a Limiter hears that a   *)
(* file was closed.                                                        *)
LEMMA FindTableInv ==
  ASSUME PermitIInv, use = "tables", use' = use, NEW c \in Clients,
         NEW k \in Keys, FindTableHit(c, k) \/ FindTableMiss(c, k)
  PROVE  PermitIInv'
<1>0. /\ LimiterTypes /\ OpeningPcs /\ IInv /\ Permits
      /\ pc \in [Clients -> {"idle", "missed", "evict", "holding", "prune"}]
      /\ pc[c] = "idle" /\ UNCHANGED <<alive, allowed, fileOf, returning>>
  BY DEF PermitIInv, IInv, TypeOK, ClientTypes, FindTableHit, FindTableMiss,
         LookupHit, LookupMiss, May, limiterVars
<1>1. opening[c].at = "none"
  BY <1>0 DEF OpeningPcs
<1>2. LookupHit(c, k) \/ LookupMiss(c, k)
  BY DEF FindTableHit, FindTableMiss
<1>3. IInv'
  BY <1>0, <1>2, NextInv DEF Next
<1>4. Files("mmap")' = Files("mmap") /\ Files("fd")' = Files("fd")
  BY <1>0, FilesSame
<1>5. CASE FindTableHit(c, k)
  <2>1. opening' = opening /\ pc' = [pc EXCEPT ![c] = "holding"]
    BY <1>5 DEF FindTableHit, LookupHit, Goes, limiterVars
  <2>2. LimiterTypes'
    BY <1>0, <2>1 DEF LimiterTypes
  <2>3. \A d \in Clients : opening'[d].at # "none" => pc'[d] = "missed"
    BY <1>0, <1>1, <2>1 DEF OpeningPcs
  <2>4. \A x : Number(x)' = Number(x)
    BY <2>1, NumberSame
  <2>5. Permits'
    BY <1>0, <1>4, <2>4 DEF Permits
  <2> QED  BY <1>0, <1>3, <2>2, <2>3, <2>5, FilesStay
<1>6. CASE FindTableMiss(c, k)
  <2>1. OpensAt(c, "start") /\ pc' = [pc EXCEPT ![c] = "missed"]
    BY <1>6 DEF FindTableMiss, LookupMiss, Goes
  <2>2. "start" \in Places
    BY DEF Places
  <2>3. /\ opening' \in [Clients -> [at : Places, sst : BOOLEAN]]
        /\ opening'[c].at = "start"
        /\ \A d \in Clients \ {c} : opening'[d].at = opening[d].at
        /\ \A x : Number(x)' = Number(x) + (IF x = "start" THEN 1 ELSE 0)
                                  - (IF x = opening[c].at THEN 1 ELSE 0)
    BY <1>0, <2>1, <2>2, OpensAtMoves
  <2>4. LimiterTypes'
    BY <1>0, <2>3 DEF LimiterTypes
  <2>5. \A d \in Clients : opening'[d].at # "none" => pc'[d] = "missed"
    BY <1>0, <2>1, <2>3 DEF OpeningPcs
  <2>6. \A x : Number(x) \in Nat
    BY NumberType
  <2>7. /\ Number("mmap")' = Number("mmap") /\ Number("fd")' = Number("fd")
        /\ Number("noFd")' = Number("noFd")
        /\ Number("noMap")' = Number("noMap")
        /\ Number("map")' = Number("map")
    BY <1>1, <2>3, <2>6
  <2>8. Permits'
    BY <1>0, <1>4, <2>7 DEF Permits
  <2> QED  BY <1>0, <1>3, <2>4, <2>5, <2>8, FilesStay
<1> QED  BY <1>5, <1>6

(* Limiter::Release after a file was closed.                               *)
LEMMA ReturnedInv ==
  ASSUME PermitIInv, use = "tables", use' = use, NEW k \in Kinds, Returned(k)
  PROVE  PermitIInv'
<1>0. /\ LimiterTypes /\ OpeningPcs /\ Permits /\ returning[k] > 0
      /\ returning' = [returning EXCEPT ![k] = @ - 1]
      /\ allowed' = [allowed EXCEPT ![k] = @ + 1]
      /\ UNCHANGED <<vars, opening, fileOf>>
  BY DEF PermitIInv, Returned
<1>1. IInv' /\ UNCHANGED <<alive, fileOf, pc>>
  BY <1>0, NextInv DEF vars, clientVars, PermitIInv
<1>2. Files("mmap")' = Files("mmap") /\ Files("fd")' = Files("fd")
  BY <1>1, FilesSame
<1>3. \A x : Number(x)' = Number(x)
  BY <1>0, NumberSame
<1>4. allowed' \in [Kinds -> Int] /\ returning' \in [Kinds -> Nat]
  BY <1>0 DEF LimiterTypes
<1>5. LimiterTypes'
  BY <1>0, <1>4 DEF LimiterTypes
<1>6. \A d \in Clients : opening'[d].at # "none" => pc'[d] = "missed"
  BY <1>0, <1>1 DEF OpeningPcs
<1>7. /\ Number("mmap") \in Nat /\ Number("map") \in Nat
      /\ Number("noMap") \in Nat /\ Number("fd") \in Nat
      /\ Number("noFd") \in Nat
      /\ Files("mmap") \in Nat /\ Files("fd") \in Nat
      /\ allowed["mmap"] \in Int /\ returning["mmap"] \in Nat
      /\ allowed["fd"] \in Int /\ returning["fd"] \in Nat
      /\ Limit["mmap"] \in Nat /\ Limit["fd"] \in Nat
      /\ "mmap" \in Kinds /\ "fd" \in Kinds
  BY CountTypes
<1>12. \A j \in Kinds :
          /\ returning'[j] + allowed'[j] = returning[j] + allowed[j]
          /\ returning'[j] <= returning[j]
          /\ returning'[j] \in Nat /\ allowed'[j] \in Int
  <2>1. allowed \in [Kinds -> Int] /\ returning \in [Kinds -> Nat]
    BY <1>0 DEF LimiterTypes
  <2>2. /\ returning' = [returning EXCEPT ![k] = @ - 1]
        /\ allowed' = [allowed EXCEPT ![k] = @ + 1]
    BY <1>0
  <2> QED  BY <1>4, <2>1, <2>2
<1>8. /\ returning'["mmap"] + allowed'["mmap"] = returning["mmap"] + allowed["mmap"]
      /\ returning'["mmap"] <= returning["mmap"]
      /\ returning'["mmap"] \in Nat /\ allowed'["mmap"] \in Int
  BY <1>7, <1>12
<1>9. /\ returning'["fd"] + allowed'["fd"] = returning["fd"] + allowed["fd"]
      /\ returning'["fd"] <= returning["fd"]
      /\ returning'["fd"] \in Nat /\ allowed'["fd"] \in Int
  BY <1>7, <1>12
<1>10. Permits
  BY <1>0
<1>11. Permits'
  BY <1>2, <1>3, <1>7, <1>8, <1>9, <1>10 DEF Permits
<1> QED  BY <1>1, <1>5, <1>6, <1>11, FilesStay

(* DeleteEntry of the entries a step frees keeps the types.                *)
LEMMA DeleteTypes ==
  ASSUME PermitIInv, alive' \subseteq Handles,
         NEW files \in [Handles -> FileKinds], DeleteEntries(files),
         \A h \in alive \cap alive' : files[h] = fileOf[h]
  PROVE  returning' \in [Kinds -> Nat] /\ fileOf' \in [Handles -> FileKinds]
<1>0. /\ IsFiniteSet(alive) /\ alive \subseteq Handles
      /\ returning \in [Kinds -> Nat]
  BY DEF PermitIInv, IInv, TypeOK, HandleTypes, LimiterTypes
<1>1. \A k \in Kinds : \E d \in Nat : returning'[k] = returning[k] + d
  BY <1>0, FilesFreed
<1>2. \A k \in Kinds : returning'[k] \in Nat
  BY <1>0, <1>1
<1>3. PICK ret : returning' = [k \in Kinds |-> ret[k]]
  <2> DEFINE ret == [k \in Kinds |->
               returning[k] + Cardinality({h \in alive \ alive' : fileOf[h] = k})]
  <2>1. returning' = [k \in Kinds |-> ret[k]]
    BY DEF DeleteEntries, CloseFiles
  <2> QED  BY <2>1
<1>4. returning' \in [Kinds -> Nat]
  BY <1>2, <1>3
<1>5. "none" \in FileKinds
  BY DEF FileKinds
<1>6. fileOf' = [h \in Handles |-> IF h \in alive \ alive' THEN "none" ELSE files[h]]
  BY DEF DeleteEntries
<1>7. fileOf' \in [Handles -> FileKinds]
  BY <1>5, <1>6
<1> QED  BY <1>4, <1>7

(* Entries leave the cache: their permits are on the way back.             *)
LEMMA CacheStepInv ==
  ASSUME PermitIInv, use = "tables", use' = use, CacheStep,
         DeleteEntries(fileOf), UNCHANGED <<allowed, opening>>
  PROVE  PermitIInv'
<1>0. /\ LimiterTypes /\ OpeningPcs /\ IInv /\ IsFiniteSet(alive) /\ Permits
      /\ alive \subseteq Handles
      /\ pc \in [Clients -> {"idle", "missed", "evict", "holding", "prune"}]
  BY DEF PermitIInv, IInv, TypeOK, ClientTypes, HandleTypes
<1>1. IInv'
  BY <1>0, NextInv DEF CacheStep, Next
<1>2. alive' \subseteq alive
  <2>1. CASE \E c \in Clients : EvictOldest(c)
    BY <2>1 DEF EvictOldest, RemoveKey, FinishErase
  <2>2. CASE \E c \in Clients : InsertDone(c)
    BY <2>2 DEF InsertDone
  <2>3. CASE \E c \in Clients : Release(c)
    BY <2>3 DEF Release, Unref
  <2>4. CASE \E c \in Clients, k \in Keys : Erase(c, k)
    BY <2>4 DEF Erase, RemoveKey, FinishErase
  <2>5. CASE Destroy
    BY <2>5 DEF Destroy
  <2>6. CASE DestroyOldest
    BY <2>6 DEF DestroyOldest
  <2> QED  BY <2>1, <2>2, <2>3, <2>4, <2>5, <2>6 DEF CacheStep
<1>3. \A c \in Clients : pc[c] = "missed" => pc'[c] = "missed"
  BY <1>0 DEF CacheStep, EvictOldest, InsertDone, Release, Erase, Destroy,
              DestroyOldest, clientVars, May, Goes
<1>4. alive' \subseteq Handles /\ alive \cap alive' = alive' /\ IsFiniteSet(alive')
  BY <1>0, <1>2, FS_Subset
<1>5. returning' \in [Kinds -> Nat] /\ fileOf' \in [Handles -> FileKinds]
  BY <1>0, <1>4, DeleteTypes DEF LimiterTypes
<1>6. LimiterTypes'
  BY <1>0, <1>5 DEF LimiterTypes
<1>7. OpeningPcs'
  BY <1>0, <1>3 DEF OpeningPcs
<1>8. ASSUME NEW k \in Kinds
      PROVE  \E d \in Nat : /\ returning'[k] = returning[k] + d
                            /\ Files(k)' = Files(k) - d
  BY <1>0, <1>4, FilesFreed DEF Files
<1>9. /\ Number("mmap") \in Nat /\ Number("map") \in Nat
      /\ Number("noMap") \in Nat /\ Number("fd") \in Nat
      /\ Number("noFd") \in Nat
      /\ Files("mmap") \in Nat /\ Files("fd") \in Nat
      /\ allowed["mmap"] \in Int /\ returning["mmap"] \in Nat
      /\ allowed["fd"] \in Int /\ returning["fd"] \in Nat
      /\ Limit["mmap"] \in Nat /\ Limit["fd"] \in Nat
      /\ "mmap" \in Kinds /\ "fd" \in Kinds
  BY CountTypes
<1>10. PICK d \in Nat : /\ returning'["mmap"] = returning["mmap"] + d
                        /\ Files("mmap")' = Files("mmap") - d
  BY <1>8, <1>9
<1>11. PICK f \in Nat : /\ returning'["fd"] = returning["fd"] + f
                        /\ Files("fd")' = Files("fd") - f
  BY <1>8, <1>9
<1>12. (\A x : Number(x)' = Number(x)) /\ allowed' = allowed
  BY NumberSame
<1>13. Permits'
  <2>1. Permits
    BY <1>0
  <2> QED  BY <1>9, <1>10, <1>11, <1>12, <2>1 DEF Permits
<1> QED  BY <1>1, <1>4, <1>6, <1>7, <1>13 DEF PermitIInv

(* A table comes into the cache with the file its client opened, and an    *)
(* older one of the same number may go.                                    *)
LEMMA FindTableInsertInv ==
  ASSUME PermitIInv, use = "tables", use' = use, NEW c \in Clients,
         NEW e \in Handles, FindTableInsert(c, e)
  PROVE  PermitIInv'
<1> DEFINE at == opening[c].at
           files == [fileOf EXCEPT ![e] = at]
<1>0. /\ LimiterTypes /\ OpeningPcs /\ IInv /\ IsFiniteSet(alive) /\ Permits
      /\ alive \subseteq Handles /\ e \notin alive
      /\ pc \in [Clients -> {"idle", "missed", "evict", "holding", "prune"}]
      /\ at \in {"mmap", "fd", "temporary"}
      /\ Insert(c, e, 1) /\ DeleteEntries(files) /\ allowed' = allowed
      /\ opening' = [opening EXCEPT ![c] = [at |-> "none", sst |-> FALSE]]
  BY DEF PermitIInv, IInv, TypeOK, ClientTypes, HandleTypes, FindTableInsert,
         HasFile, Kinds, NotOpening, Insert
<1>1. IInv'
  BY <1>0, InsertInv
<1>2. pc' = [pc EXCEPT ![c] = "evict"]
  BY <1>0 DEF Insert, Goes
<1>3. alive' \subseteq alive \cup {e} /\ e \in alive'
  BY <1>0 DEF Insert, InsertEntry, InsertUncached
<1>4. alive' \subseteq Handles /\ IsFiniteSet(alive')
  <2>1. IsFiniteSet(alive \cup {e})
    BY <1>0, FS_AddElement
  <2> QED  BY <1>0, <1>3, <2>1, FS_Subset
<1>5. files \in [Handles -> FileKinds] /\ files[e] = at
      /\ \A h \in Handles \ {e} : files[h] = fileOf[h]
  <2>1. at \in FileKinds
    BY <1>0 DEF FileKinds
  <2> QED  BY <1>0, <2>1 DEF LimiterTypes
<1> HIDE DEF files
<1>6. \A h \in alive \cap alive' : files[h] = fileOf[h]
  BY <1>0, <1>5
<1>7. returning' \in [Kinds -> Nat] /\ fileOf' \in [Handles -> FileKinds]
  BY <1>0, <1>4, <1>5, <1>6, DeleteTypes
<1>8. "none" \in Places
  BY DEF Places
<1>9. /\ opening' \in [Clients -> [at : Places, sst : BOOLEAN]]
      /\ opening'[c].at = "none"
      /\ \A d \in Clients \ {c} : opening'[d].at = opening[d].at
      /\ \A x : Number(x)' = Number(x) + (IF x = "none" THEN 1 ELSE 0)
                                - (IF x = at THEN 1 ELSE 0)
  BY <1>0, <1>8, OpensAtMoves
<1>10. LimiterTypes'
  BY <1>0, <1>7, <1>9 DEF LimiterTypes
<1>11. OpeningPcs'
  BY <1>0, <1>2, <1>9 DEF OpeningPcs
<1>12. ASSUME NEW k \in Kinds
       PROVE  \E d \in Nat :
                 /\ returning'[k] = returning[k] + d
                 /\ Files(k)' = Files(k) - d + (IF k = at THEN 1 ELSE 0)
  <2> DEFINE old == {h \in alive \cap alive' : files[h] = k}
  <2>1. PICK d \in Nat : /\ returning'[k] = returning[k] + d
                         /\ Cardinality(old) = Files(k) - d
                         /\ IsFiniteSet(old)
    BY <1>0, <1>4, <1>6, FilesFreed
  <2>2. WithFile(k)' = {h \in alive' : files[h] = k}
    BY <1>0, <1>4, <1>6, FilesFreed
  <2>3. Cardinality(old) \in Nat /\ Files(k) \in Nat
    BY <2>1, FS_CardinalityType, CountTypes
  <2>4. CASE k = at
    <3>1. WithFile(k)' = old \cup {e} /\ e \notin old
      BY <1>0, <1>3, <1>5, <2>2, <2>4
    <3>2. Cardinality(old \cup {e}) = Cardinality(old) + 1
      BY <2>1, <3>1, FS_AddElement
    <3>3. Files(k)' = Cardinality(old) + 1
      BY <3>1, <3>2 DEF Files
    <3> HIDE DEF old
    <3>4. Files(k)' = Files(k) - d + 1
      BY <2>1, <2>3, <3>3
    <3> QED  BY <2>1, <2>4, <3>4
  <2>5. CASE k # at
    <3>1. WithFile(k)' = old
      BY <1>0, <1>3, <1>5, <2>2, <2>5
    <3>2. Files(k)' = Files(k) - d
      BY <2>1, <3>1 DEF Files
    <3> QED  BY <2>1, <2>3, <2>5, <3>2
  <2> QED  BY <2>4, <2>5
<1>13. /\ Number("mmap") \in Nat /\ Number("map") \in Nat
       /\ Number("noMap") \in Nat /\ Number("fd") \in Nat
       /\ Number("noFd") \in Nat
       /\ Files("mmap") \in Nat /\ Files("fd") \in Nat
       /\ allowed["mmap"] \in Int /\ returning["mmap"] \in Nat
       /\ allowed["fd"] \in Int /\ returning["fd"] \in Nat
       /\ Limit["mmap"] \in Nat /\ Limit["fd"] \in Nat
       /\ "mmap" \in Kinds /\ "fd" \in Kinds
  BY CountTypes
<1>14. \E d \in Nat :
         /\ returning'["mmap"] = returning["mmap"] + d
         /\ \/ Number("mmap")' = Number("mmap") /\ Files("mmap")' = Files("mmap") - d
            \/ /\ Number("mmap")' = Number("mmap") - 1
               /\ Files("mmap")' = Files("mmap") - d + 1
  BY <1>9, <1>12, <1>13
<1>15. \E d \in Nat :
         /\ returning'["fd"] = returning["fd"] + d
         /\ \/ Number("fd")' = Number("fd") /\ Files("fd")' = Files("fd") - d
            \/ /\ Number("fd")' = Number("fd") - 1
               /\ Files("fd")' = Files("fd") - d + 1
  BY <1>9, <1>12, <1>13
<1>16. /\ Number("map")' = Number("map") /\ Number("noMap")' = Number("noMap")
       /\ Number("noFd")' = Number("noFd")
  BY <1>0, <1>9, <1>13
<1>17. Permits /\ allowed' = allowed
  BY <1>0
<1>18. /\ allowed["mmap"] + Files("mmap")' + Number("mmap")' + Number("map")
            + Number("noMap") + returning'["mmap"] = Limit["mmap"]
       /\ Files("mmap")' + Number("mmap")' + Number("map") + returning'["mmap"]
            <= Limit["mmap"]
  BY <1>13, <1>14, <1>17 DEF Permits
<1>19. /\ allowed["fd"] + Files("fd")' + Number("fd")' + Number("noFd")
            + returning'["fd"] = Limit["fd"]
       /\ Files("fd")' + Number("fd")' + returning'["fd"] <= Limit["fd"]
  <2>1. /\ allowed["fd"] + Files("fd") + Number("fd") + Number("noFd")
            + returning["fd"] = Limit["fd"]
        /\ Files("fd") + Number("fd") + returning["fd"] <= Limit["fd"]
    BY <1>17 DEF Permits
  <2> QED  BY <1>13, <1>15, <2>1
<1>20. Permits'
  BY <1>16, <1>17, <1>18, <1>19 DEF Permits
<1> QED  BY <1>1, <1>4, <1>10, <1>11, <1>20 DEF PermitIInv

(* The block cache has no files: nothing of the Limiters moves.            *)
LEMMA BlocksInv ==
  ASSUME PermitIInv, use = "blocks", use' = use, Next, UNCHANGED limiterVars
  PROVE  PermitIInv'
<1>0. /\ LimiterTypes /\ OpeningPcs /\ IInv /\ IsFiniteSet(alive) /\ Permits
      /\ UNCHANGED <<allowed, opening, fileOf, returning>>
  BY DEF PermitIInv, limiterVars
<1>1. IInv'
  BY <1>0, NextInv
<1>2. LimiterTypes' /\ OpeningPcs'
  BY <1>0 DEF LimiterTypes, OpeningPcs
<1>3. IsFiniteSet(alive')
  <2>1. \E e : alive' \subseteq alive \cup {e}
    <3>1. CASE \E c \in Clients, e \in Handles, ch \in Charges : Insert(c, e, ch)
      BY <3>1 DEF Insert, InsertEntry, InsertUncached
    <3>2. CASE \E c \in Clients : Release(c)
      BY <3>2 DEF Release, Unref
    <3>3. CASE DestroyOldest
      BY <3>3 DEF DestroyOldest
    <3>4. CASE \E k : RemoveKey(k)
      BY <3>4 DEF RemoveKey, FinishErase
    <3>5. CASE alive' = alive
      BY <3>5
    <3> QED  BY <3>1, <3>2, <3>3, <3>4, <3>5
             DEF Next, LookupHit, LookupMiss, OpenFails, EvictOldest,
                 InsertDone, Erase, Prune, PruneOldest, PruneDone, Destroy
  <2>2. PICK e : alive' \subseteq alive \cup {e}
    BY <2>1
  <2>3. IsFiniteSet(alive \cup {e})
    BY <1>0, FS_AddElement
  <2> QED  BY <2>2, <2>3, FS_Subset
<1>4. alive \subseteq Handles /\ alive' \subseteq Handles
  BY <1>0, <1>1 DEF IInv, TypeOK, HandleTypes
<1>5. \A k \in Kinds : WithFile(k) = {} /\ WithFile(k)' = {}
  BY <1>0, <1>4 DEF WithFile, OpeningPcs, Kinds
<1>6. Files("mmap")' = Files("mmap") /\ Files("fd")' = Files("fd")
  BY <1>5 DEF Files, Kinds
<1>7. \A x : Number(x)' = Number(x)
  BY <1>0, NumberSame
<1>8. Permits'
  BY <1>0, <1>6, <1>7 DEF Permits
<1> QED  BY <1>1, <1>2, <1>3, <1>8 DEF PermitIInv

(* Every step keeps the invariant.                                         *)
LEMMA PermitNext == PermitIInv /\ [CacheNext]_cacheVars => PermitIInv'
<1> SUFFICES ASSUME PermitIInv, [CacheNext]_cacheVars PROVE PermitIInv'
  OBVIOUS
<1>1. CASE use = "tables" /\ TableCacheNext /\ use' = use
  <2>1. CASE \E c \in Clients, k \in Keys : FindTableHit(c, k) \/ FindTableMiss(c, k)
    BY <1>1, <2>1, FindTableInv
  <2>2. CASE \E c \in Clients :
               OpenFile(c) \/ NoMapping(c) \/ AskDescriptor(c)
                 \/ NoDescriptor(c) \/ MapFile(c)
    BY <1>1, <2>2, LimiterInv
  <2>3. CASE \E c \in Clients : CannotOpen(c) \/ CannotMap(c)
    BY <1>1, <2>3, CannotInv
  <2>4. CASE \E c \in Clients : TableOpenFails(c)
    BY <1>1, <2>4, TableOpenFailsInv
  <2>5. CASE \E c \in Clients, e \in Handles : FindTableInsert(c, e)
    BY <1>1, <2>5, FindTableInsertInv
  <2>6. CASE CacheStep /\ DeleteEntries(fileOf) /\ UNCHANGED <<allowed, opening>>
    BY <1>1, <2>6, CacheStepInv
  <2>7. CASE \E k \in Kinds : Returned(k)
    BY <1>1, <2>7, ReturnedInv
  <2> QED  BY <1>1, <2>1, <2>2, <2>3, <2>4, <2>5, <2>6, <2>7 DEF TableCacheNext
<1>2. CASE use = "blocks" /\ Next /\ UNCHANGED limiterVars /\ use' = use
  BY <1>2, BlocksInv
<1>3. CASE UNCHANGED cacheVars
  <2>1. UNCHANGED vars /\ UNCHANGED <<use, allowed, opening, fileOf, returning>>
    BY <1>3 DEF cacheVars, limiterVars
  <2>2. IInv'
    BY <2>1, NextInv DEF PermitIInv
  <2>3. alive' = alive /\ pc' = pc
    BY <2>1 DEF vars, clientVars
  <2>4. LimiterTypes' /\ OpeningPcs'
    BY <2>1, <2>3 DEF PermitIInv, LimiterTypes, OpeningPcs
  <2>5. Permits'
    BY <2>1, <2>3, FilesSame, NumberSame DEF PermitIInv, Permits
  <2> QED  BY <2>2, <2>3, <2>4, <2>5 DEF PermitIInv
<1> QED  BY <1>1, <1>2, <1>3 DEF CacheNext

(* The invariant holds in every state of the cache in either use.          *)
LEMMA PermitInvariance == CacheSpec => []PermitIInv
BY PermitInit, PermitNext, PTL DEF CacheSpec

-----------------------------------------------------------------------------
(* The theorems.                                                           *)

(* Two threads may take acquires_allowed_ below 0 and give back what they  *)
(* took, tables may be replaced, evicted and erased in any order and any   *)
(* of the calls may fail: no more files are mapped or kept open than the   *)
(* Limiters allow, and no permit is lost or returned twice.                *)
THEOREM PermitsAreExact == CacheSpec => []PermitsExact
<1>1. PermitIInv => PermitsExact
  <2> SUFFICES ASSUME PermitIInv PROVE PermitsExact
    OBVIOUS
  <2>1. /\ Number("mmap") \in Nat /\ Number("map") \in Nat
        /\ Number("noMap") \in Nat /\ Number("fd") \in Nat
        /\ Number("noFd") \in Nat
        /\ Files("mmap") \in Nat /\ Files("fd") \in Nat
        /\ allowed["mmap"] \in Int /\ returning["mmap"] \in Nat
        /\ allowed["fd"] \in Int /\ returning["fd"] \in Nat
        /\ Limit["mmap"] \in Nat /\ Limit["fd"] \in Nat
    BY CountTypes
  <2>2. Permits
    BY DEF PermitIInv
  <2>3. OpenFiles("mmap") = Files("mmap") + Number("mmap")
        /\ OpenFiles("fd") = Files("fd") + Number("fd")
    BY DEF OpenFiles, Files, WithFile, Number, ClientsAt
  <2>4. Asking("fd") = Number("noFd")
    <3>1. {c \in Clients : opening[c].at \in {"noFd"}} = ClientsAt("noFd")
      BY DEF ClientsAt
    <3> QED  BY <3>1 DEF Asking, Number
  <2>5. Asking("mmap") = Number("map") + Number("noMap")
    <3>1. {c \in Clients : opening[c].at \in {"map", "noMap"}}
            = ClientsAt("map") \cup ClientsAt("noMap")
      BY DEF ClientsAt
    <3>2. ClientsAt("map") \cap ClientsAt("noMap") = {}
      BY DEF ClientsAt
    <3>3. IsFiniteSet(ClientsAt("map")) /\ IsFiniteSet(ClientsAt("noMap"))
      BY NumberType
    <3>4. Cardinality(ClientsAt("map") \cup ClientsAt("noMap"))
            = Number("map") + Number("noMap") - Cardinality({})
      BY <3>2, <3>3, FS_Union DEF Number
    <3>5. Asking("mmap") = Cardinality(ClientsAt("map") \cup ClientsAt("noMap"))
      BY <3>1 DEF Asking
    <3> QED  BY <2>1, <3>4, <3>5, FS_EmptySet
  <2>6. /\ OpenFiles("mmap") <= Limit["mmap"]
        /\ allowed["mmap"] + OpenFiles("mmap") + Asking("mmap")
             + returning["mmap"] = Limit["mmap"]
    BY <2>1, <2>2, <2>3, <2>5 DEF Permits
  <2>7. /\ OpenFiles("fd") <= Limit["fd"]
        /\ allowed["fd"] + OpenFiles("fd") + Asking("fd")
             + returning["fd"] = Limit["fd"]
    BY <2>1, <2>2, <2>3, <2>4 DEF Permits
  <2> QED  BY <2>6, <2>7 DEF PermitsExact, Kinds
<1> QED  BY <1>1, PermitInvariance, PTL

(* What holds of the cache alone holds of it in either use: counts, lists  *)
(* and table agree.                                                        *)
THEOREM UsedCacheIsExact == CacheSpec => []CacheExact
<1>1. IInv => CacheExact
  BY InvIsExact
<1>2. PermitIInv => IInv
  BY DEF PermitIInv
<1> QED  BY <1>1, <1>2, PermitInvariance, PTL

(* No thread reads a table, or a block, that was closed or freed.          *)
THEOREM UsedHandlesStayValid == CacheSpec => []NoUseAfterFree
<1>1. PermitIInv => NoUseAfterFree
  BY DEF PermitIInv, IInv
<1> QED  BY <1>1, PermitInvariance, PTL

(* usage_ is the sum of the charges of the entries of the cache in either  *)
(* use, whichever of the calls that open a table fail: a table that is not *)
(* opened leaves no charge behind.                                         *)
THEOREM UsedUsageIsExact == CacheSpec => []UsageExact
<1>1. CacheInit => UsageInv
  BY UsageInit DEF CacheInit
<1>2. ASSUME PermitIInv, UsageInv, [CacheNext]_cacheVars PROVE UsageInv'
  <2>0. IInv
    BY <1>2 DEF PermitIInv
  <2>1. ASSUME [Next]_vars PROVE UsageInv'
    BY <1>2, <2>0, <2>1, UsageNext
  <2>2. CASE \E c \in Clients, k \in Keys : FindTableHit(c, k) \/ FindTableMiss(c, k)
    BY <2>1, <2>2 DEF FindTableHit, FindTableMiss, Next
  <2>3. CASE \E c \in Clients :
               \/ OpenFile(c) \/ NoMapping(c) \/ AskDescriptor(c)
               \/ NoDescriptor(c) \/ MapFile(c)
    BY <2>1, <2>3 DEF OpenFile, NoMapping, AskDescriptor, NoDescriptor, MapFile
  <2>4. CASE \E c \in Clients : CannotOpen(c) \/ CannotMap(c) \/ TableOpenFails(c)
    <3>1. \E c \in Clients : UNCHANGED vars \/ OpenFails(c)
      BY <2>4 DEF CannotOpen, CannotMap, TableOpenFails, NextName
    <3> QED  BY <2>1, <3>1 DEF Next
  <2>5. CASE \E c \in Clients, e \in Handles : FindTableInsert(c, e)
    <3>1. PICK c \in Clients, e \in Handles : Insert(c, e, 1)
      BY <2>5 DEF FindTableInsert
    <3> QED  BY <1>2, <2>0, <3>1, UsageInsert
  <2>6. CASE CacheStep
    BY <2>1, <2>6 DEF CacheStep, Next
  <2>7. CASE \E k \in Kinds : Returned(k)
    BY <2>1, <2>7 DEF Returned
  <2>8. CASE Next \/ UNCHANGED cacheVars
    BY <2>1, <2>8 DEF cacheVars
  <2> QED  BY <1>2, <2>2, <2>3, <2>4, <2>5, <2>6, <2>7, <2>8 DEF CacheNext, TableCacheNext
<1>3. UsageInv => UsageExact
  BY DEF UsageInv, UsageExact, Cached
<1>4. PermitIInv /\ UsageInv /\ [CacheNext]_cacheVars => UsageInv'
  BY <1>2
<1> QED  BY <1>1, <1>3, <1>4, PermitInvariance, PTL DEF CacheSpec
=============================================================================
