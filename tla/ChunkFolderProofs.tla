-------------------------- MODULE ChunkFolderProofs --------------------------
(***************************************************************************)
(* Proofs about ChunkFolder, for every set of upload tasks and whatever    *)
(* the searches come to.                                                   *)
(***************************************************************************)
EXTENDS ChunkFolder, FiniteSetTheorems, TLAPS

\* Until add-account is through nobody else has begun and there is no folder.
\* When it got through, and no search was refused since the beginning, its folder
\* is the only one: every later search finds it, so no task creates another.
FolderInv ==
    /\ folders \subseteq Clients
    /\ pc \in [Clients -> {"searching", "creating", "ready", "failed"}]
    /\ parent \in [Clients -> Clients \cup {NoFolder}]
    /\ misled \in BOOLEAN
    /\ ParentExists
    /\ pc[AddAccount] \in {"searching", "creating"} =>
           folders = {} /\ \A t \in Tasks : pc[t] = "searching"
    /\ pc[AddAccount] = "ready" /\ ~misled =>
           /\ folders = {parent[AddAccount]}
           /\ \A t \in Tasks : pc[t] # "creating"

LEMMA FolderInvInit == Init => FolderInv
  BY FolderAssumption DEF Init, FolderInv, ParentExists, Clients

LEMMA FindAnsweredKeepsInv ==
  ASSUME FolderInv, NEW c \in Clients, FindAnswered(c)
  PROVE  FolderInv'
<1> USE DEF FolderInv, ParentExists, Clients, Goto, MayRun
<1>1. CASE folders = {} /\ Goto(c, "searching", "creating") /\ UNCHANGED parent
  BY <1>1, FolderAssumption DEF FindAnswered
<1>2. ASSUME Goto(c, "searching", "ready"), NEW f \in folders,
             parent' = [parent EXCEPT ![c] = f]
      PROVE  FolderInv'
  <2>1. c # AddAccount
    BY <1>2
  <2>2. QED
    BY <1>2, <2>1, FolderAssumption DEF FindAnswered
<1>3. QED
  BY <1>1, <1>2 DEF FindAnswered

LEMMA FindRefusedKeepsInv ==
  ASSUME FolderInv, NEW c \in Clients, FindRefused(c)
  PROVE  FolderInv'
  BY FolderAssumption
  DEF FindRefused, FolderInv, ParentExists, Clients, Goto, MayRun

LEMMA FindThrowsKeepsInv ==
  ASSUME FolderInv, NEW c \in Clients, FindThrows(c)
  PROVE  FolderInv'
  BY FolderAssumption
  DEF FindThrows, FolderInv, ParentExists, Clients, Goto, MayRun

LEMMA CreateKeepsInv ==
  ASSUME FolderInv, NEW c \in Clients, Create(c)
  PROVE  FolderInv'
<1> USE DEF FolderInv, ParentExists, Clients, Goto, MayRun
<1>1. CASE c = AddAccount
  BY <1>1, FolderAssumption DEF Create
<1>2. CASE c # AddAccount
  BY <1>2, FolderAssumption DEF Create
<1>3. QED
  BY <1>1, <1>2

LEMMA CreateThrowsKeepsInv ==
  ASSUME FolderInv, NEW c \in Clients, CreateThrows(c)
  PROVE  FolderInv'
<1> USE DEF FolderInv, ParentExists, Clients, Goto, MayRun
<1>1. CASE c = AddAccount
  BY <1>1, FolderAssumption DEF CreateThrows
<1>2. CASE c # AddAccount
  BY <1>2, FolderAssumption DEF CreateThrows
<1>3. QED
  BY <1>1, <1>2

LEMMA FolderInvStep == FolderInv /\ [Next]_vars => FolderInv'
<1> SUFFICES ASSUME FolderInv, [Next]_vars PROVE FolderInv'
  OBVIOUS
<1>1. CASE UNCHANGED vars
  BY <1>1 DEF vars, FolderInv, ParentExists
<1>2. ASSUME NEW c \in Clients, Step(c) PROVE FolderInv'
  BY <1>2, FindAnsweredKeepsInv, FindRefusedKeepsInv, FindThrowsKeepsInv,
     CreateKeepsInv, CreateThrowsKeepsInv DEF Step
<1>3. QED
  BY <1>1, <1>2 DEF Next, Over

\* FolderInv holds in every reachable state (Shell.cpp:146-151, 311-316).
THEOREM FolderInvariant == Spec => []FolderInv
<1>1. QED
  BY FolderInvInit, FolderInvStep, PTL DEF Spec

\* After a set-up that worked there is one folder, as long as no search was
\* refused, however many tasks look for it at the same time.
THEOREM OneFolderForAll == Spec => []OneFolder
<1>1. FolderInv => OneFolder
  <2> SUFFICES ASSUME FolderInv, pc[AddAccount] = "ready", ~misled
               PROVE  Cardinality(folders) <= 1
    BY DEF OneFolder
  <2>1. Cardinality({parent[AddAccount]}) = 1
    BY FS_Singleton
  <2>2. QED
    BY <2>1 DEF FolderInv
<1>2. QED
  BY <1>1, FolderInvariant, PTL

\* No chunk is sent to a folder that does not exist, whatever fails.
THEOREM ParentAlwaysExists == Spec => []ParentExists
<1>1. FolderInv => ParentExists
  BY DEF FolderInv
<1>2. QED
  BY <1>1, FolderInvariant, PTL

\* Every client's chunkFolderId is a folder some client created, or none.
THEOREM FolderTypeCorrect == Spec => []TypeOK
<1>1. FolderInv => TypeOK
  BY DEF FolderInv, TypeOK
<1>2. QED
  BY <1>1, FolderInvariant, PTL
==============================================================================
