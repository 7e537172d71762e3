------------------------------- MODULE Library --------------------------------
(***************************************************************************)
(* What is stored, over a whole life of the program: the metadata in       *)
(* memory (m_metadata), the metadata file, the linked accounts and the     *)
(* objects in Drive, through uploads, deletes, downloads, exits, deaths    *)
(* and restarts (src/Shell.cpp).  The Shell runs one command at a time.    *)
(*                                                                         *)
(* An upload appears by what UploadFile shows of it: each part settles     *)
(* once, in any order, as recorded or lost, and a lost part may have left  *)
(* its object in Drive.  The tasks of a delete touch one object each and   *)
(* share a counter only: they too settle in any order, as the threads of a *)
(* download do.  File names are UTF-8 here.                                *)
(*                                                                         *)
(* A session opens the Drive of whoever its tokens are from.  A refresh    *)
(* that fails turns into a sign-in, as anybody, which is saved in the      *)
(* account's token file (ensureAuthenticated): `granted` follows that.     *)
(***************************************************************************)
EXTENDS ChunkPlan, FiniteSets

CONSTANTS Files,        \* file names, the keys of m_metadata["files"]
          Accounts,     \* emails: numbers, to be sorted as m_local_accounts is
          PartCount,    \* totalChunks of every file
          Unlinkable,   \* accounts whose token file may be taken away
          Guests,       \* <<k, u>>: user u may sign in when a session of the
                        \* account k asks for a sign-in
          MaxObjects,   \* bound on the objects ever created in Drive
          Starts,       \* bound: how often the program is started
          NoEntry,      \* a name that is not in the metadata
          Empty, Torn   \* a metadata file without content; one cut short

ASSUME LibraryAssumption ==
    /\ Accounts \subseteq Nat /\ IsFiniteSet(Accounts)
    /\ Unlinkable \subseteq Accounts /\ Guests \subseteq Accounts \X Accounts
    /\ PartCount \in Nat /\ Starts \in Nat \ {0}
    /\ MaxObjects \in Nat /\ NoEntry \notin Files

VARIABLES main,         \* control point of the command loop
          file,         \* the file the command is about
          todo,         \* parts of it still to be uploaded
          victims,      \* `chunks` of deleteFile: the records it set out with
                        \* (of downloadFile likewise)
          pending,      \* those of them whose task is not over
          successful_deletes,
          memory,       \* m_metadata["files"]: each file's "chunks", or NoEntry
          changed,      \* m_metadata_changed
          disk,         \* data/metadata.json: Empty (or absent), Torn, or what
                        \* `memory` was when it was saved
          tokens,       \* accounts with a file in data/tokens
          keys,         \* keys of m_local_accounts
          ghosts,       \* those of them that operator[] gave an empty token path
          granted,      \* granted[a]: the user whose tokens a's file holds
          held,         \* <<k, u>>: a session of the running command, for the
                        \* key k, may have u's tokens in m_tokens
          drive,        \* external: the objects that exist
          created,      \* how many were created; the k-th has id k
          starts,
          unsaved,      \* history: files that an upload cleared and did not save
          cut,          \* history: ids in hand of a delete that was cut short
          guests        \* history: <<k, u>>: u, who is not k, signed in for k

command == <<file, todo, victims, pending, successful_deletes>>
store == <<memory, changed, disk>>
links == <<tokens, keys, ghosts>>
grants == <<granted, held>>
cloud == <<drive, created>>
history == <<starts, unsaved, cut, guests>>
vars == <<main, command, store, links, grants, cloud, history>>

Parts == 0..(PartCount - 1)

Ids == 1..MaxObjects

\* A record of the metadata and, with the same fields, an object in Drive.
Records == [id : Ids, account : Accounts]

Metadata == [Files -> {NoEntry} \cup SUBSET Records]

\* The three names are told apart from what they stand beside.
ASSUME NamesAssumption ==
    /\ \A rs \in SUBSET Records : rs # NoEntry
    /\ Empty # Torn
    /\ \A m \in Metadata : m # Empty /\ m # Torn

TypeOK ==
    /\ main \in {"down", "idle", "uploading", "downloading", "deleting",
                 "truncating", "writing", "reporting", "exiting"}
    /\ file \in Files \cup {NoEntry}
    /\ todo \subseteq Parts
    /\ victims \subseteq Records /\ pending \subseteq victims
    /\ successful_deletes \in 0..Cardinality(victims)
    /\ memory \in Metadata
    /\ changed \in BOOLEAN
    /\ disk \in {Empty, Torn} \cup Metadata
    /\ tokens \subseteq Accounts /\ keys \subseteq Accounts /\ ghosts \subseteq keys
    /\ granted \in [Accounts -> Accounts] /\ held \subseteq Accounts \X Accounts
    /\ drive \subseteq Records /\ created \in 0..MaxObjects
    /\ starts \in 0..Starts
    /\ unsaved \subseteq Files /\ cut \subseteq Ids
    /\ guests \subseteq Accounts \X Accounts

Nothing == [f \in Files |-> NoEntry]

Init ==
    /\ main = "down" /\ file = NoEntry /\ todo = {} /\ victims = {} /\ pending = {}
    /\ successful_deletes = 0
    /\ memory = Nothing /\ changed = FALSE /\ disk = Empty
    /\ tokens = {} /\ keys = {} /\ ghosts = {}
    /\ granted = [a \in Accounts |-> a] /\ held = {}
    /\ drive = {} /\ created = 0
    /\ starts = 0 /\ unsaved = {} /\ cut = {} /\ guests = {}

Goto(from, to) == main = from /\ main' = to

\* The local variables of a command go out of scope.
CommandOver ==
    /\ file' = NoEntry /\ todo' = {}
    /\ victims' = {} /\ pending' = {} /\ successful_deletes' = 0
    /\ held' = {}

\* The process ends, and its memory with it.
ProcessOver ==
    /\ main' = "down" /\ CommandOver
    /\ memory' = Nothing /\ changed' = FALSE
    /\ keys' = {} /\ ghosts' = {} /\ unsaved' = {}
    /\ UNCHANGED <<tokens, granted, starts, guests>>

RecordsOf(f) == IF memory[f] = NoEntry THEN {} ELSE memory[f]
------------------------------------------------------------------------------
(* Start-up, exit and death.                                               *)

\* What initializeState() gets from the file; an empty one gives no files, and
\* a torn one makes the parser throw: main() gives up.
Contents(d) == IF d = Empty THEN Nothing ELSE d

Start ==
    /\ starts < Starts /\ disk # Torn
    /\ Goto("down", "idle") /\ starts' = starts + 1
    /\ memory' = Contents(disk)
    /\ keys' = tokens
    /\ UNCHANGED <<command, changed, disk, tokens, ghosts, grants, cloud, unsaved, cut,
                   guests>>

\* "exit": saveMetadataOnExit() saves if a delete set m_metadata_changed.
Exit ==
    /\ main = "idle" /\ ~changed
    /\ ProcessOver
    /\ UNCHANGED <<disk, cloud, cut>>

ExitSaving ==
    /\ changed /\ Goto("idle", "exiting") /\ disk' = Empty
    /\ UNCHANGED <<command, memory, changed, links, grants, cloud, history>>

ExitWrites ==
    /\ main = "exiting" /\ disk' = memory
    /\ ProcessOver
    /\ UNCHANGED <<cloud, cut>>

\* The process is killed, or a thread of a download ends it.  A large file may
\* have been written in part.
Die ==
    /\ main # "down"
    /\ disk' \in IF main \in {"writing", "exiting"} THEN {Empty, Torn} ELSE {disk}
    /\ cut' = cut \cup (IF main \in {"deleting", "truncating", "writing"}
                        THEN {r.id : r \in victims} ELSE {})
    /\ ProcessOver
    /\ UNCHANGED cloud

\* The user takes a token file away; the Shell looks at them when it starts.
Unlink(a) ==
    /\ main = "down" /\ a \in tokens \cap Unlinkable
    /\ tokens' = tokens \ {a} /\ granted' = [granted EXCEPT ![a] = a]
    /\ UNCHANGED <<main, command, store, keys, ghosts, held, cloud, history>>

\* Somebody signs in for k.  It need not be k's user: nothing compares them.
SignsInFor(k, u) ==
    /\ u = k \/ <<k, u>> \in Guests
    /\ guests' = guests \cup ({<<k, u>>} \ {<<k, k>>})
    /\ UNCHANGED <<starts, unsaved, cut>>

\* saveTokens() of a session for k with u's tokens.  A ghost has no token path:
\* the file does not open, and nothing is saved.
SaveTokens(k, u) ==
    granted' = IF k \in ghosts THEN granted ELSE [granted EXCEPT ![k] = u]

\* add-account: the token file of the user who signed in is written, then
\* m_local_accounts[email].  The set-up of the folder may ask for one more
\* sign-in, which is saved over the first.
AddAccount(a) ==
    /\ main = "idle"
    /\ tokens' = tokens \cup {a} /\ keys' = keys \cup {a} /\ ghosts' = ghosts \ {a}
    /\ \E u \in Accounts : SignsInFor(a, u) /\ granted' = [granted EXCEPT ![a] = u]
    /\ UNCHANGED <<main, command, store, held, cloud>>
------------------------------------------------------------------------------
(* The sessions of a command: one per part or record, all at a time.       *)

\* std::next(m_local_accounts.begin(), part % size), ghosts included.
\* std::map is in order: the k-th key is the one with k smaller ones before it.
KeyOf(p) ==
    CHOOSE a \in keys :
        Cardinality({b \in keys : b < a}) = AccountOf(p, Cardinality(keys))

\* m_local_accounts[account] of each record, in a download or a delete.
LookUpAccounts(rs) ==
    LET named == {r.account : r \in rs}
    IN  keys' = keys \cup named /\ ghosts' = ghosts \cup (named \ keys)

\* Sessions load their account's token file.
LoadTokens == held' = {<<k, granted[k]>> : k \in keys \ ghosts}

\* Keys of sessions that are not over.
InUse == IF main = "uploading" THEN {KeyOf(p) : p \in todo}
                               ELSE {r.account : r \in pending}

\* ensureAuthenticated() of a session without a refresh token, or whose refresh
\* was refused or not answered.  Sessions that load the file later find u in it.
SignIn(k, u) ==
    /\ main \in {"uploading", "downloading", "deleting"} /\ k \in InUse
    /\ SignsInFor(k, u) /\ SaveTokens(k, u)
    /\ held' = held \cup {<<k, u>>}
    /\ UNCHANGED <<main, command, store, links, cloud>>

\* A session for k, with u's tokens, makes its request.  The refresh before it
\* has saved them, over whatever other sessions had saved.
Session(k, u) == <<k, u>> \in held /\ SaveTokens(k, u) /\ UNCHANGED held

\* No session at all, or one whose request comes to nothing.
SessionFails(k) == UNCHANGED grants \/ \E u \in Accounts : Session(k, u)
------------------------------------------------------------------------------
(* download <file> <path>: what it does to sessions; if a thread's exception *)
(* ends the process, that is Die.                                          *)

StartDownload(f) ==
    /\ Goto("idle", "downloading") /\ memory[f] # NoEntry
    /\ file' = f /\ todo' = {}
    /\ victims' = memory[f] /\ pending' = memory[f] /\ successful_deletes' = 0
    /\ LookUpAccounts(memory[f]) /\ LoadTokens
    /\ UNCHANGED <<store, tokens, granted, cloud, history>>

DownloadPart(r) ==
    /\ main = "downloading" /\ r \in pending /\ pending' = pending \ {r}
    /\ \E u \in Accounts : Session(r.account, u)
    /\ UNCHANGED <<main, file, todo, victims, successful_deletes, store, links, cloud,
                   history>>

FinishDownload ==
    /\ pending = {} /\ Goto("downloading", "idle") /\ CommandOver
    /\ UNCHANGED <<store, links, granted, cloud, history>>
------------------------------------------------------------------------------
(* saveMetadataOnExit() of a delete, or the end of uploadFile.             *)

Truncate ==
    /\ Goto("truncating", "writing") /\ disk' = Empty
    /\ UNCHANGED <<command, memory, changed, links, grants, cloud, history>>

WriteOut ==
    /\ main = "writing" /\ disk' = memory /\ unsaved' = {}
    /\ UNCHANGED <<memory, changed, links, granted, cloud, starts, cut, guests>>

\* Nothing follows in uploadFile; a delete goes on to Report.
SaveUpload == file \in Files /\ memory[file] # NoEntry /\ WriteOut
              /\ main' = "idle" /\ CommandOver

SaveDelete == file \in Files /\ memory[file] = NoEntry /\ WriteOut
              /\ main' = "reporting" /\ UNCHANGED <<command, held>>
------------------------------------------------------------------------------
(* upload <file>                                                           *)

\* uploadFile drops the records of the previous upload of that name.
StartUpload(f) ==
    /\ Goto("idle", "uploading")
    /\ keys # {}
    /\ file' = f /\ todo' = Parts
    /\ memory' = [memory EXCEPT ![f] = {}]
    /\ victims' = {} /\ pending' = {} /\ successful_deletes' = 0
    /\ LoadTokens
    /\ UNCHANGED <<changed, disk, links, granted, cloud, history>>

\* No producer thread could be started: the exception reaches Shell::run.
UploadThrows ==
    /\ todo = Parts /\ Goto("uploading", "idle") /\ CommandOver
    /\ unsaved' = unsaved \cup {file}
    /\ UNCHANGED <<store, links, granted, cloud, starts, cut, guests>>

\* External: Drive creates an object for part p, in the Drive of whoever the
\* session acts for.
CreateObject(p) ==
    /\ created < MaxObjects /\ created' = created + 1
    /\ \E u \in Accounts :
           /\ Session(KeyOf(p), u)
           /\ drive' = drive \cup {[id |-> created', account |-> u]}

SettlePart(p) ==
    /\ main = "uploading" /\ p \in todo /\ todo' = todo \ {p}
    /\ UNCHANGED <<main, file, victims, pending, successful_deletes, changed, disk,
                   links, history>>

\* Faulty variant: the record names the account next to the one used.
StoreNamingNext(p) ==
    /\ SettlePart(p)
    /\ CreateObject(p)
    /\ memory' = [memory EXCEPT ![file] =
                      @ \cup {[id |-> created', account |-> KeyOf(p + 1)]}]

StorePart(p) ==
    /\ SettlePart(p)
    /\ CreateObject(p)
    /\ memory' = [memory EXCEPT ![file] =
                      @ \cup {[id |-> created', account |-> KeyOf(p)]}]

LosePart(p) ==
    /\ SettlePart(p)
    /\ UNCHANGED memory
    /\ CreateObject(p) \/ (UNCHANGED cloud /\ SessionFails(KeyOf(p)))

\* All futures are joined.
FinishUpload ==
    /\ todo = {} /\ Goto("uploading", "truncating") /\ held' = {}
    /\ UNCHANGED <<command, store, links, granted, cloud, history>>
------------------------------------------------------------------------------
(* delete <file>                                                           *)

StartDelete(f) ==
    /\ Goto("idle", "deleting") /\ memory[f] # NoEntry
    /\ file' = f /\ todo' = {}
    /\ victims' = memory[f] /\ pending' = memory[f] /\ successful_deletes' = 0
    /\ LookUpAccounts(memory[f]) /\ LoadTokens
    /\ UNCHANGED <<store, tokens, granted, cloud, history>>

SettleDelete(r) ==
    /\ main = "deleting" /\ r \in pending /\ pending' = pending \ {r}
    /\ UNCHANGED <<main, file, todo, victims, store, links, created, history>>

\* Drive deletes r's object, if it is in the Drive of the session's user.
Deletes(r) ==
    \E u \in Accounts :
        /\ Session(r.account, u)
        /\ drive' = drive \ {[id |-> r.id, account |-> u]}

\* Faulty variant: a chunk is tried again though it was answered and counted.
DeleteAnsweredAgain(r) ==
    /\ main = "deleting" /\ r \in pending
    /\ Deletes(r)
    /\ successful_deletes' = successful_deletes + 1
    /\ UNCHANGED <<main, file, todo, victims, pending, store, links, created, history>>

\* Status 204, the object was there for that user; or 404, it was not.
DeleteAnswered(r) ==
    /\ SettleDelete(r)
    /\ Deletes(r)
    /\ successful_deletes' = successful_deletes + 1

\* Faulty variant: an answer that is not 204 or 404 is not looked at.
DeleteFailedCounted(r) ==
    /\ SettleDelete(r) /\ UNCHANGED <<drive, grants>>
    /\ successful_deletes' = successful_deletes + 1

\* No session, or another status, or no answer although Drive did it.
DeleteFailed(r) ==
    /\ SettleDelete(r)
    /\ Deletes(r) \/ (UNCHANGED drive /\ SessionFails(r.account))
    /\ UNCHANGED successful_deletes

\* std::async could not start the next task: the ones before it are joined as
\* the exception leaves for Shell::run, and nothing is erased.
DeleteThrows ==
    /\ pending # {} /\ Goto("deleting", "idle") /\ CommandOver
    /\ cut' = cut \cup {r.id : r \in victims}
    /\ UNCHANGED <<store, links, granted, cloud, starts, unsaved, guests>>

\* Faulty variants: the records are kept if a chunk could not be deleted;
\* m_metadata_changed is not set, so that nothing is saved.
EraseIfAllDeleted ==
    /\ pending = {}
    /\ \/ /\ successful_deletes = Cardinality(victims)
          /\ Goto("deleting", "truncating") /\ UNCHANGED command /\ held' = {}
          /\ memory' = [memory EXCEPT ![file] = NoEntry] /\ changed' = TRUE
       \/ /\ successful_deletes # Cardinality(victims)
          /\ Goto("deleting", "idle") /\ CommandOver /\ UNCHANGED <<memory, changed>>
    /\ UNCHANGED <<disk, links, granted, cloud, history>>

EraseUnchanged ==
    /\ pending = {} /\ Goto("deleting", "idle") /\ CommandOver
    /\ memory' = [memory EXCEPT ![file] = NoEntry]
    /\ UNCHANGED <<changed, disk, links, granted, cloud, history>>

\* All futures are joined: the entry is erased whatever became of the chunks.
Erase ==
    /\ pending = {} /\ Goto("deleting", "truncating")
    /\ memory' = [memory EXCEPT ![file] = NoEntry] /\ changed' = TRUE /\ held' = {}
    /\ UNCHANGED <<command, disk, links, granted, cloud, history>>

\* `chunks` refers into the value that was erased: undefined behaviour, which
\* prints some number or ends the process.
Report ==
    /\ Goto("reporting", "idle") /\ CommandOver
    /\ UNCHANGED <<store, links, granted, cloud, history>>

ReportDies ==
    /\ main = "reporting" /\ ProcessOver
    /\ UNCHANGED <<disk, cloud, cut>>
------------------------------------------------------------------------------
Over == main = "down" /\ (starts = Starts \/ disk = Torn) /\ UNCHANGED vars

Next ==
    \/ Start \/ Exit \/ ExitSaving \/ ExitWrites \/ Die \/ Over
    \/ \E a \in Accounts : Unlink(a) \/ AddAccount(a)
    \/ \E k, u \in Accounts : SignIn(k, u)
    \/ \E f \in Files : StartDownload(f) \/ StartUpload(f) \/ StartDelete(f)
    \/ (\E r \in Records : DownloadPart(r)) \/ FinishDownload
    \/ UploadThrows \/ (\E p \in Parts : StorePart(p) \/ LosePart(p))
    \/ FinishUpload
    \/ \E r \in Records : DeleteAnswered(r) \/ DeleteFailed(r)
    \/ DeleteThrows \/ Erase \/ Truncate \/ SaveUpload \/ SaveDelete
    \/ Report \/ ReportDies

Spec == Init /\ [][Next]_vars
------------------------------------------------------------------------------
Exists(r) == \E o \in drive : o.id = r.id

\* Somebody else signed in for the account.
HadGuest(a) == \E u \in Accounts : <<a, u>> \in guests

\* Between commands the metadata names no object that is gone, whatever deletes
\* failed half way; except those of a delete that was cut short, by an exception
\* or a death, whose file can be deleted again because 404 counts as deleted.
RecordedObjectsExist ==
    main = "idle" =>
        \A f \in Files : \A r \in RecordsOf(f) : Exists(r) \/ r.id \in cut

\* Between commands the metadata file holds what the memory holds: a death at
\* the prompt costs nothing.  Except for a file whose upload threw: its records
\* are dropped in memory, and the exception left uploadFile before the save.
Durable ==
    main = "idle" => \A f \in Files \ unsaved : Contents(disk)[f] = memory[f]

\* "n/n chunks deleted" is true of Drive: when every chunk was counted, none of
\* them is left there (Shell.cpp:364, gdrive_handler.cpp:444), unless somebody
\* else signed in for the account: there a chunk may be looked for in the
\* wrong Drive, whose 404 is counted.
CountedMeansGone ==
    main = "reporting" /\ successful_deletes = Cardinality(victims) =>
        \A r \in victims : Exists(r) => HadGuest(r.account)

\* The object of a record is in the Drive of the account the record names, or
\* of somebody who signed in for that account, whatever the set of accounts was
\* when the part was uploaded, which accounts operator[] brought back since
\* without a token path, and whose tokens its sessions saved over each other.
\* The latter is where README.md:63 fails, which says that the "owning account" of
\* every chunk is persisted.
OwnerRecorded ==
    \A f \in Files : \A r \in RecordsOf(f) : \A o \in drive :
        o.id = r.id => o = r \/ <<r.account, o.account>> \in guests
==============================================================================
