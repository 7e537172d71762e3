----------------------------- MODULE ChunkFolder ------------------------------
(***************************************************************************)
(* The folder "D-Drive Chunks" of one account: add-account looks for it    *)
(* and creates it if it finds none, and so does, for itself, every task    *)
(* that uploads a chunk to the account (src/Shell.cpp, findFileOrFolder    *)
(* and createFolder of src/gdrive_handler.cpp).  Searching and creating    *)
(* are two requests and Drive lets any number of folders have one name.    *)
(***************************************************************************)
EXTENDS Naturals, FiniteSets

CONSTANTS Tasks,        \* upload tasks whose part falls to this account
          AddAccount,   \* the command that links the account
          Searches,     \* what a search may come to, subset of AllSearches
          NoFolder

\* "answered": status 200; "refused": another status, or no connection, which
\* findFileOrFolder reports as "" like an empty list; "broken": an exception.
AllSearches == {"answered", "refused", "broken"}

Clients == Tasks \cup {AddAccount}

ASSUME FolderAssumption ==
    /\ IsFiniteSet(Tasks) /\ AddAccount \notin Tasks
    /\ Searches \subseteq AllSearches
    /\ NoFolder \notin Clients

VARIABLES folders,      \* external: the folders of that name, by their creators
          parent,       \* parent[c]: chunkFolderId of client c
          pc,
          misled        \* history: a search was refused

vars == <<folders, parent, pc, misled>>

TypeOK ==
    /\ folders \subseteq Clients
    /\ parent \in [Clients -> Clients \cup {NoFolder}]
    /\ pc \in [Clients -> {"searching", "creating", "ready", "failed"}]
    /\ misled \in BOOLEAN

Init ==
    /\ folders = {} /\ misled = FALSE
    /\ parent = [c \in Clients |-> NoFolder]
    /\ pc = [c \in Clients |-> "searching"]

\* add-account is over before anything is uploaded to the account; an error in
\* the set-up of the folder is printed, and the account is linked all the same.
MayRun(c) == c = AddAccount \/ pc[AddAccount] \in {"ready", "failed"}

Goto(c, from, to) == MayRun(c) /\ pc[c] = from /\ pc' = [pc EXCEPT ![c] = to]

\* Faulty variants: files[0] of an empty list is taken; the result of the search
\* is not looked at.
FindUnchecked(c) ==
    /\ "answered" \in Searches
    /\ Goto(c, "searching", "ready")
    /\ \E f \in folders \cup {"null"} : parent' = [parent EXCEPT ![c] = f]
    /\ UNCHANGED <<folders, misled>>

FindIgnoring(c) ==
    /\ "answered" \in Searches
    /\ Goto(c, "searching", "creating") /\ UNCHANGED <<folders, parent, misled>>

\* The list, of which files[0] is taken: some folder, if there is one.
FindAnswered(c) ==
    /\ "answered" \in Searches
    /\ \/ /\ folders = {} /\ Goto(c, "searching", "creating")
          /\ UNCHANGED parent
       \/ /\ Goto(c, "searching", "ready")
          /\ \E f \in folders : parent' = [parent EXCEPT ![c] = f]
    /\ UNCHANGED <<folders, misled>>

FindRefused(c) ==
    /\ "refused" \in Searches
    /\ Goto(c, "searching", "creating")
    /\ misled' = TRUE
    /\ UNCHANGED <<folders, parent>>

FindThrows(c) ==
    /\ "broken" \in Searches
    /\ Goto(c, "searching", "failed") /\ UNCHANGED <<folders, parent, misled>>

Create(c) ==
    /\ Goto(c, "creating", "ready")
    /\ folders' = folders \cup {c}
    /\ parent' = [parent EXCEPT ![c] = c]
    /\ UNCHANGED misled

\* Faulty variant: createFolder returns "" instead of throwing.
CreateFailsQuietly(c) ==
    /\ Goto(c, "creating", "ready")
    /\ UNCHANGED <<folders, parent, misled>>

\* Not 200, or the answer was lost: an exception, whether or not Drive did it.
CreateThrows(c) ==
    /\ Goto(c, "creating", "failed")
    /\ folders' \in {folders, folders \cup {c}}
    /\ UNCHANGED <<parent, misled>>

Step(c) ==
    \/ FindAnswered(c) \/ FindRefused(c) \/ FindThrows(c)
    \/ Create(c) \/ CreateThrows(c)

Over == (\A c \in Clients : pc[c] \in {"ready", "failed"}) /\ UNCHANGED vars

Next == (\E c \in Clients : Step(c)) \/ Over

Spec == Init /\ [][Next]_vars
------------------------------------------------------------------------------
\* Once add-account has seen to the folder, the tasks all find that one, and a
\* second folder appears only after a search that was refused: without the
\* set-up, tasks that search at the same time would each create one.
OneFolder ==
    pc[AddAccount] = "ready" /\ ~misled => Cardinality(folders) <= 1

\* A chunk is uploaded only into a folder that is there: no failure of the
\* search or of the creation goes by as an empty chunkFolderId.
ParentExists == \A c \in Clients : pc[c] = "ready" => parent[c] \in folders
==============================================================================
