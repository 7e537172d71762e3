---------------------------- MODULE LibraryProofs ----------------------------
(***************************************************************************)
(* Proofs about Library, for every set of files and accounts, every number *)
(* of parts, objects and starts.                                           *)
(***************************************************************************)
EXTENDS Library, FiniteSetTheorems, TLAPS

\* The records of a file that the metadata file holds, and those that the
\* program or its next start may come back to.
OnDisk(f) ==
    IF disk = Torn \/ Contents(disk)[f] = NoEntry THEN {} ELSE Contents(disk)[f]

Stored(f) == RecordsOf(f) \cup OnDisk(f)

Known(f) == Stored(f) \cup (IF f = file THEN victims ELSE {})

\* Where a command stands, and what it has in hand there.
CommandInv ==
    /\ main \in {"down", "idle", "uploading", "exiting"} =>
           victims = {} /\ successful_deletes = 0
    /\ main \notin {"downloading", "deleting"} => pending = {}
    /\ main \in {"uploading", "downloading", "deleting", "truncating", "writing"} =>
           file \in Files
    /\ main = "uploading" => memory[file] # NoEntry /\ keys # {}
    /\ main \in {"downloading", "deleting"} => memory[file] = victims
    /\ main \in {"truncating", "writing"} /\ memory[file] # NoEntry => victims = {}
    /\ main = "writing" => disk = Empty

\* The accounts in memory are those with a token file, and ghosts of accounts
\* that lost theirs.
LinksInv ==
    /\ main = "down" => keys = {}
    /\ main # "down" => tokens \subseteq keys
    /\ keys \ ghosts \subseteq tokens

\* Tokens are those of the account, or of a guest of it: in its file, and in
\* the sessions of the command.
GrantsInv ==
    /\ \A k \in Accounts : granted[k] = k \/ <<k, granted[k]>> \in guests
    /\ \A k, u \in Accounts : <<k, u>> \in held => u = k \/ <<k, u>> \in guests

\* An id names one record of one file, and an object in the Drive of that
\* record's account or of a guest of it.
KnownInv ==
    /\ \A f \in Files : \A r \in Known(f) :
           /\ r \in [id : 1..created, account : Accounts]
           /\ \A g \in Files : \A s \in Known(g) : r.id = s.id => f = g /\ r = s
           /\ \A o \in drive :
                  o.id = r.id => o = r \/ <<r.account, o.account>> \in guests
    /\ \A o \in drive : o.id \in 1..created

BeingDeleted(r) == main \in {"deleting", "truncating", "writing"} /\ r \in victims

\* A record whose object is gone is being deleted, or was when that was cut short.
StoredInv ==
    \A f \in Files : \A r \in Stored(f) :
        Exists(r) \/ r.id \in cut \/ BeingDeleted(r)

\* The disk agrees with the memory, but for what a command is about to save.
SavedInv ==
    /\ main # "down" => disk # Torn
    /\ main \in {"idle", "downloading", "deleting"} =>
           \A f \in Files \ unsaved : Contents(disk)[f] = memory[f]
    /\ main = "uploading" =>
           \A f \in Files \ (unsaved \cup {file}) : Contents(disk)[f] = memory[f]
    /\ main = "reporting" => disk = memory

\* A settled delete that is not counted is one less for ever; those that are
\* counted are gone.
CountInv ==
    /\ successful_deletes + Cardinality(pending) <= Cardinality(victims)
    /\ successful_deletes + Cardinality(pending) = Cardinality(victims) =>
           \A r \in victims \ pending : Exists(r) => HadGuest(r.account)

LibraryInv ==
    /\ TypeOK
    /\ CommandInv
    /\ LinksInv
    /\ GrantsInv
    /\ KnownInv
    /\ StoredInv
    /\ SavedInv
    /\ CountInv

------------------------------------------------------------------------------
(* The constants, and what an action may rely on.                           *)

LEMMA RecordSets ==
  ASSUME NEW S, S \subseteq Records
  PROVE  IsFiniteSet(S) /\ Cardinality(S) \in Nat
<1> DEFINE F == [p \in Ids \X Accounts |-> [id |-> p[1], account |-> p[2]]]
<1>1. IsFiniteSet(Ids)
  BY LibraryAssumption, FS_Interval DEF Ids
<1>2. IsFiniteSet(Ids \X Accounts)
  BY <1>1, LibraryAssumption, FS_Product
<1>3. ASSUME NEW r \in Records PROVE \E p \in Ids \X Accounts : F[p] = r
  <2>1. <<r.id, r.account>> \in Ids \X Accounts
    BY DEF Records
  <2>2. F[<<r.id, r.account>>] = r
    BY <2>1 DEF Records
  <2>3. QED
    BY <2>1, <2>2
<1>4. F \in [Ids \X Accounts -> Records]
  BY DEF Records
<1>5. F \in Surjection(Ids \X Accounts, Records)
  BY <1>3, <1>4 DEF Surjection
<1>6. IsFiniteSet(Records)
  BY <1>2, <1>5, FS_Surjection
<1>7. QED
  BY <1>6, FS_Subset, FS_CardinalityType

\* The rank of a key is one-to-one, so that every position below the number of
\* keys is the rank of one: std::next never gets to the end of the map.
LEMMA KeyOfIsAKey ==
  ASSUME keys \subseteq Accounts, keys # {}, NEW p \in Parts
  PROVE  KeyOf(p) \in keys
<1> DEFINE n == Cardinality(keys)
           Below(a) == {b \in keys : b < a}
           Rank == [a \in keys |-> Cardinality(Below(a))]
<1>1. keys \subseteq Nat /\ IsFiniteSet(keys)
  BY LibraryAssumption, FS_Subset
<1>2. n \in Nat \ {0}
  BY <1>1, FS_CardinalityType, FS_EmptySet
<1>3. ASSUME NEW a \in keys
      PROVE  /\ IsFiniteSet(Below(a)) /\ Cardinality(Below(a)) \in 0..(n - 1)
  <2>1. Below(a) \subseteq keys /\ a \notin Below(a)
    BY <1>1
  <2>2. IsFiniteSet(Below(a)) /\ Cardinality(Below(a)) <= n /\ Cardinality(Below(a)) # n
    BY <1>1, <2>1, FS_Subset
  <2>3. Cardinality(Below(a)) \in Nat
    BY <2>2, FS_CardinalityType
  <2>4. QED
    BY <1>2, <2>2, <2>3
<1>4. ASSUME NEW a \in keys, NEW b \in keys, a < b PROVE Rank[a] # Rank[b]
  <2>1. \A c \in keys : c < a => c < b
    BY <1>1, <1>4
  <2>2. ~(a < a)
    BY <1>1
  <2>3. Below(a) \subseteq Below(b) /\ a \in Below(b) /\ a \notin Below(a)
    BY <1>4, <2>1, <2>2
  <2>4. Below(a) # Below(b)
    BY <2>3
  <2>5. Cardinality(Below(a)) # Cardinality(Below(b))
    BY <1>3, <2>3, <2>4, FS_Subset
  <2>6. QED
    BY <2>5
<1>5. Rank \in Injection(keys, 0..(n - 1))
  <2>1. Rank \in [keys -> 0..(n - 1)]
    BY <1>3
  <2>2. \A a, b \in keys : Rank[a] = Rank[b] => a = b
    BY <1>1, <1>4
  <2>3. QED
    BY <2>1, <2>2 DEF Injection, IsInjective
<1>6. IsFiniteSet(0..(n - 1)) /\ Cardinality(0..(n - 1)) = n
  BY <1>2, FS_Interval
<1>7. Rank \in Surjection(keys, 0..(n - 1))
  BY <1>5, <1>6, FS_Injection
<1>8. AccountOf(p, n) \in 0..(n - 1)
  BY <1>2, LibraryAssumption DEF AccountOf, Parts
<1>9. \E a \in keys : Rank[a] = AccountOf(p, n)
  BY <1>7, <1>8 DEF Surjection
<1>10. QED
  BY <1>9 DEF KeyOf

\* What a file has in memory or on disk is a set of records.
LEMMA MetadataSets ==
  ASSUME TypeOK, NEW f \in Files
  PROVE  /\ memory[f] # NoEntry => memory[f] \subseteq Records
         /\ RecordsOf(f) \subseteq Records /\ OnDisk(f) \subseteq Records
         /\ disk # Torn => Contents(disk) \in Metadata
<1>1. \A m \in Metadata : m[f] # NoEntry => m[f] \subseteq Records
  BY DEF Metadata
<1>2. Nothing \in Metadata
  BY DEF Nothing, Metadata
<1>3. disk # Torn => Contents(disk) \in Metadata
  BY <1>2 DEF TypeOK, Contents
<1>4. QED
  BY <1>1, <1>3 DEF TypeOK, RecordsOf, OnDisk

LEMMA LibraryInvInit == Init => LibraryInv
<1> SUFFICES ASSUME Init PROVE LibraryInv
  OBVIOUS
<1> USE DEF Init
<1>1. \A f \in Files : memory[f] = NoEntry /\ Contents(disk)[f] = NoEntry
  BY DEF Nothing, Contents
<1>2. \A f \in Files : Known(f) = {} /\ Stored(f) = {}
  BY <1>1 DEF Known, Stored, RecordsOf, OnDisk
<1>3. TypeOK
  <2>1. Nothing \in Metadata
    BY DEF Nothing, Metadata
  <2>2. successful_deletes \in 0..Cardinality(victims)
    BY FS_EmptySet
  <2>3. created \in 0..MaxObjects /\ starts \in 0..Starts
    BY LibraryAssumption
  <2>4. QED
    BY <2>1, <2>2, <2>3 DEF TypeOK
<1>4. CommandInv /\ LinksInv /\ GrantsInv
  BY DEF CommandInv, LinksInv, GrantsInv
<1>5. KnownInv /\ StoredInv
  BY <1>2 DEF KnownInv, StoredInv
<1>6. SavedInv /\ CountInv
  BY FS_EmptySet DEF SavedInv, CountInv
<1>7. QED
  BY <1>3, <1>4, <1>5, <1>6 DEF LibraryInv
------------------------------------------------------------------------------
(* What a step keeps that brings no new record or object.                   *)

LEMMA KnownShrinks ==
  ASSUME KnownInv, \A f \in Files : Known(f)' \subseteq Known(f),
         drive' \subseteq drive, created' = created,
         guests \subseteq guests'
  PROVE  KnownInv'
  BY DEF KnownInv

LEMMA StoredShrinks ==
  ASSUME StoredInv, \A f \in Files : Stored(f)' \subseteq Stored(f),
         drive' = drive, cut \subseteq cut',
         \A f \in Files : \A r \in Stored(f)' :
             BeingDeleted(r) => BeingDeleted(r)' \/ r.id \in cut'
  PROVE  StoredInv'
<1>1. \A r : Exists(r)' = Exists(r)
  BY DEF Exists
<1>2. QED
  BY <1>1 DEF StoredInv

\* The end of the process, however it comes.
LEMMA ProcessOverKeepsInv ==
  ASSUME LibraryInv, ProcessOver, disk' \in {disk, Empty, Torn, memory},
         UNCHANGED cloud, cut \subseteq cut', cut' \subseteq Ids,
         \A f \in Files : \A r \in Stored(f)' : BeingDeleted(r) => r.id \in cut'
  PROVE  LibraryInv'
<1> USE DEF ProcessOver, CommandOver, cloud, grants
<1>1. TypeOK'
  <2>1. Nothing \in Metadata
    BY DEF Nothing, Metadata
  <2>2. successful_deletes' \in 0..Cardinality(victims')
    BY FS_EmptySet
  <2>3. QED
    BY <2>1, <2>2 DEF LibraryInv, TypeOK
<1>2. \A f \in Files : Stored(f)' \subseteq Stored(f)
  <2> SUFFICES ASSUME NEW f \in Files PROVE Stored(f)' \subseteq Stored(f)
    OBVIOUS
  <2>1. RecordsOf(f)' = {}
    BY DEF RecordsOf, Nothing
  <2>2. CASE disk' = disk
    BY <2>1, <2>2 DEF Stored, OnDisk, Contents
  <2>3. CASE disk' \in {Empty, Torn}
    BY <2>1, <2>3 DEF Stored, OnDisk, Contents, Nothing
  <2>4. CASE disk' = memory
    BY <2>1, <2>4, NamesAssumption DEF Stored, OnDisk, Contents, RecordsOf, LibraryInv, TypeOK
  <2>5. QED
    BY <2>2, <2>3, <2>4
<1>3. \A f \in Files : Known(f)' \subseteq Known(f)
  BY <1>2 DEF Known
<1>4. KnownInv'
  BY <1>3, KnownShrinks DEF LibraryInv
<1>5. StoredInv'
  BY <1>2, StoredShrinks DEF LibraryInv
<1>6. CommandInv' /\ LinksInv' /\ GrantsInv' /\ SavedInv'
  BY DEF LibraryInv, CommandInv, LinksInv, GrantsInv, SavedInv
<1>7. CountInv'
  BY FS_EmptySet DEF CountInv
<1>8. QED
  BY <1>1, <1>4, <1>5, <1>6, <1>7 DEF LibraryInv
------------------------------------------------------------------------------
(* Start-up, exit and death.                                                *)

LEMMA StartKeepsInv ==
  ASSUME LibraryInv, Start
  PROVE  LibraryInv'
<1> USE DEF Start, Goto, command, cloud, grants
<1>1. Contents(disk) \in Metadata /\ Contents(disk)' = memory'
  BY DEF LibraryInv, TypeOK, Contents, Nothing, Metadata
<1>2. TypeOK'
  BY <1>1, LibraryAssumption DEF LibraryInv, TypeOK, LinksInv
<1>3. \A f \in Files : Stored(f)' \subseteq Stored(f)
  BY DEF Stored, OnDisk, RecordsOf, Contents, Nothing
<1>4. \A f \in Files : Known(f)' \subseteq Known(f)
  BY <1>3 DEF Known
<1>5. KnownInv'
  BY <1>4, KnownShrinks DEF LibraryInv
<1>6. StoredInv'
  BY <1>3, StoredShrinks DEF LibraryInv, BeingDeleted
<1>7. CommandInv' /\ LinksInv' /\ GrantsInv'
  BY DEF LibraryInv, CommandInv, LinksInv, GrantsInv, TypeOK
<1>8. SavedInv' /\ CountInv'
  BY <1>1 DEF LibraryInv, SavedInv, CountInv, Exists, HadGuest
<1>9. QED
  BY <1>2, <1>5, <1>6, <1>7, <1>8 DEF LibraryInv

LEMMA ExitKeepsInv ==
  ASSUME LibraryInv, Exit
  PROVE  LibraryInv'
<1>1. \A f \in Files : \A r \in Stored(f)' : BeingDeleted(r) => r.id \in cut'
  BY DEF Exit, BeingDeleted
<1>2. QED
  BY <1>1, ProcessOverKeepsInv DEF Exit, LibraryInv, TypeOK

LEMMA ExitSavingKeepsInv ==
  ASSUME LibraryInv, ExitSaving
  PROVE  LibraryInv'
<1> USE DEF ExitSaving, Goto, command, links, cloud, grants, history
<1>1. TypeOK'
  BY DEF LibraryInv, TypeOK
<1>2. \A f \in Files : Stored(f)' \subseteq Stored(f)
  BY DEF Stored, OnDisk, RecordsOf, Contents, Nothing
<1>3. \A f \in Files : Known(f)' \subseteq Known(f)
  BY <1>2 DEF Known
<1>4. KnownInv'
  BY <1>3, KnownShrinks DEF LibraryInv
<1>5. StoredInv'
  BY <1>2, StoredShrinks DEF LibraryInv, BeingDeleted
<1>6. CommandInv' /\ LinksInv' /\ GrantsInv'
  BY DEF LibraryInv, CommandInv, LinksInv, GrantsInv
<1>7. SavedInv' /\ CountInv'
  BY NamesAssumption DEF LibraryInv, SavedInv, CountInv, Exists, HadGuest
<1>8. QED
  BY <1>1, <1>4, <1>5, <1>6, <1>7 DEF LibraryInv

LEMMA ExitWritesKeepsInv ==
  ASSUME LibraryInv, ExitWrites
  PROVE  LibraryInv'
<1>1. \A f \in Files : \A r \in Stored(f)' : BeingDeleted(r) => r.id \in cut'
  BY DEF ExitWrites, BeingDeleted
<1>2. QED
  BY <1>1, ProcessOverKeepsInv DEF ExitWrites, LibraryInv, TypeOK

\* A delete that dies leaves its records to the next start, and their ids in cut.
LEMMA DieKeepsInv ==
  ASSUME LibraryInv, Die
  PROVE  LibraryInv'
<1>1. \A f \in Files : \A r \in Stored(f)' : BeingDeleted(r) => r.id \in cut'
  BY DEF Die, BeingDeleted
<1>2. disk' \in {disk, Empty, Torn, memory}
  BY DEF Die
<1>3. cut \subseteq cut' /\ cut' \subseteq Ids
  BY DEF Die, LibraryInv, TypeOK, Records
<1>4. QED
  BY <1>1, <1>2, <1>3, ProcessOverKeepsInv DEF Die

LEMMA ReportDiesKeepsInv ==
  ASSUME LibraryInv, ReportDies
  PROVE  LibraryInv'
<1>1. \A f \in Files : \A r \in Stored(f)' : BeingDeleted(r) => r.id \in cut'
  BY DEF ReportDies, BeingDeleted
<1>2. QED
  BY <1>1, ProcessOverKeepsInv DEF ReportDies, LibraryInv, TypeOK
------------------------------------------------------------------------------
(* The accounts.                                                            *)

\* A step that changes nothing but the accounts.
LEMMA LinksKeepInv ==
  ASSUME LibraryInv, UNCHANGED <<main, command, store, cloud, starts, unsaved, cut>>,
         tokens' \subseteq Accounts, keys' \subseteq Accounts, ghosts' \subseteq keys',
         granted' \in [Accounts -> Accounts], held' \subseteq Accounts \X Accounts,
         guests \subseteq guests', guests' \subseteq Accounts \X Accounts,
         LinksInv', GrantsInv',
         main = "uploading" => keys' # {}
  PROVE  LibraryInv'
<1> USE DEF command, store, cloud
<1>1. TypeOK'
  BY DEF LibraryInv, TypeOK
<1>2. \A f : Stored(f)' = Stored(f) /\ Known(f)' = Known(f)
  BY DEF Known, Stored, OnDisk, RecordsOf, Contents
<1>3. KnownInv'
  BY <1>2, KnownShrinks DEF LibraryInv
<1>4. StoredInv'
  BY <1>2, StoredShrinks DEF LibraryInv, BeingDeleted
<1>5. CommandInv' /\ SavedInv'
  BY DEF LibraryInv, CommandInv, SavedInv, Contents
<1>6. CountInv'
  BY DEF LibraryInv, CountInv, Exists, HadGuest
<1>7. QED
  BY <1>1, <1>3, <1>4, <1>5, <1>6 DEF LibraryInv

\* operator[] brings in ghosts only.
LEMMA LookUpKeepsLinks ==
  ASSUME LibraryInv, main # "down", NEW f \in Files, memory[f] # NoEntry,
         LookUpAccounts(memory[f]), tokens' = tokens, main' # "down"
  PROVE  /\ LinksInv'
         /\ keys \subseteq keys' /\ keys' \subseteq Accounts /\ ghosts' \subseteq keys'
<1>1. memory[f] \subseteq Records
  BY MetadataSets DEF LibraryInv
<1>2. \A r \in memory[f] : r.account \in Accounts
  BY <1>1 DEF Records
<1>3. QED
  BY <1>2 DEF LookUpAccounts, LibraryInv, LinksInv, TypeOK

\* Whoever signs in is the account's user, or is remembered as a guest of it.
LEMMA SignsInAdds ==
  ASSUME LibraryInv, NEW k \in Accounts, NEW u \in Accounts, SignsInFor(k, u)
  PROVE  /\ guests \subseteq guests' /\ guests' \subseteq Accounts \X Accounts
         /\ u = k \/ <<k, u>> \in guests'
  BY DEF SignsInFor, LibraryInv, TypeOK

\* A session saves tokens that it held, of the account's user or of a guest.
LEMMA SessionKeeps ==
  ASSUME LibraryInv, NEW k \in Accounts, NEW u \in Accounts, Session(k, u),
         guests' = guests
  PROVE  /\ granted' \in [Accounts -> Accounts] /\ held' = held /\ GrantsInv'
         /\ u = k \/ <<k, u>> \in guests
<1>1. u = k \/ <<k, u>> \in guests
  BY DEF Session, LibraryInv, GrantsInv
<1>2. QED
  BY <1>1 DEF Session, SaveTokens, LibraryInv, TypeOK, GrantsInv

LEMMA SessionFailsKeeps ==
  ASSUME LibraryInv, NEW k \in Accounts, SessionFails(k), guests' = guests
  PROVE  granted' \in [Accounts -> Accounts] /\ held' = held /\ GrantsInv'
<1>1. CASE UNCHANGED grants
  BY <1>1 DEF grants, LibraryInv, TypeOK, GrantsInv
<1>2. QED
  BY <1>1, SessionKeeps DEF SessionFails

LEMMA UnlinkKeepsInv ==
  ASSUME LibraryInv, NEW a \in Accounts, Unlink(a)
  PROVE  LibraryInv'
<1>1. LinksInv'
  BY DEF Unlink, LibraryInv, LinksInv, TypeOK
<1>2. GrantsInv'
  BY DEF Unlink, history, LibraryInv, GrantsInv, TypeOK
<1>3. QED
  BY <1>1, <1>2, LinksKeepInv DEF Unlink, history, LibraryInv, TypeOK, CommandInv

LEMMA AddAccountKeepsInv ==
  ASSUME LibraryInv, NEW a \in Accounts, AddAccount(a)
  PROVE  LibraryInv'
<1>1. PICK u \in Accounts : SignsInFor(a, u) /\ granted' = [granted EXCEPT ![a] = u]
  BY DEF AddAccount
<1>2. guests \subseteq guests' /\ guests' \subseteq Accounts \X Accounts
  BY <1>1, SignsInAdds
<1>3. LinksInv'
  BY DEF AddAccount, LibraryInv, LinksInv, TypeOK
<1>4. GrantsInv'
  BY <1>1, <1>2, SignsInAdds DEF AddAccount, LibraryInv, GrantsInv, TypeOK
<1>5. granted' \in [Accounts -> Accounts]
  BY <1>1 DEF LibraryInv, TypeOK
<1>6. QED
  BY <1>1, <1>2, <1>3, <1>4, <1>5, LinksKeepInv
     DEF AddAccount, SignsInFor, LibraryInv, TypeOK, CommandInv

\* Nothing but the tokens of one account changes, in its file and in sessions.
LEMMA SignInKeepsInv ==
  ASSUME LibraryInv, NEW k \in Accounts, NEW u \in Accounts, SignIn(k, u)
  PROVE  LibraryInv'
<1> USE DEF SignIn, links
<1>1. guests \subseteq guests' /\ guests' \subseteq Accounts \X Accounts
  BY SignsInAdds
<1>2. granted' \in [Accounts -> Accounts] /\ held' \subseteq Accounts \X Accounts
  BY DEF SaveTokens, LibraryInv, TypeOK
<1>3. LinksInv'
  BY DEF LibraryInv, LinksInv
<1>4. GrantsInv'
  BY <1>1, SignsInAdds DEF SaveTokens, LibraryInv, GrantsInv, TypeOK
<1>5. QED
  BY <1>1, <1>2, <1>3, <1>4, LinksKeepInv
     DEF SignsInFor, LibraryInv, TypeOK, CommandInv
------------------------------------------------------------------------------
(* Saving, and the start of the commands.                                   *)

LEMMA TruncateKeepsInv ==
  ASSUME LibraryInv, Truncate
  PROVE  LibraryInv'
<1> USE DEF Truncate, Goto, command, links, cloud, grants, history
<1>1. TypeOK'
  BY DEF LibraryInv, TypeOK
<1>2. \A f \in Files : Stored(f)' \subseteq Stored(f)
  BY DEF Stored, OnDisk, RecordsOf, Contents, Nothing
<1>3. \A f \in Files : Known(f)' \subseteq Known(f)
  BY <1>2 DEF Known
<1>4. KnownInv'
  BY <1>3, KnownShrinks DEF LibraryInv
<1>5. StoredInv'
  BY <1>2, StoredShrinks DEF LibraryInv, BeingDeleted
<1>6. CommandInv' /\ LinksInv' /\ GrantsInv'
  BY DEF LibraryInv, CommandInv, LinksInv, GrantsInv
<1>7. SavedInv' /\ CountInv'
  BY NamesAssumption DEF LibraryInv, SavedInv, CountInv, Exists, HadGuest
<1>8. QED
  BY <1>1, <1>4, <1>5, <1>6, <1>7 DEF LibraryInv

\* Once written, the disk has what the memory has.  The records of a delete are
\* in neither: no other file has them.
LEMMA WriteOutKeepsInv ==
  ASSUME LibraryInv, WriteOut,
         \/ main' = "idle" /\ CommandOver /\ memory[file] # NoEntry
         \/ main' = "reporting" /\ UNCHANGED <<command, held>> /\ memory[file] = NoEntry
  PROVE  LibraryInv'
<1> USE DEF WriteOut, links, cloud, grants
<1>1. /\ victims' \subseteq victims /\ pending' = {} /\ pending = {}
      /\ file' \in {file, NoEntry}
  BY DEF CommandOver, command, LibraryInv, CommandInv
<1>2. memory \in Metadata /\ Contents(disk)' = memory
  BY NamesAssumption DEF LibraryInv, TypeOK, Contents
<1>3. TypeOK'
  BY <1>2, FS_EmptySet, LibraryAssumption DEF LibraryInv, TypeOK, CommandOver, command
<1>4. \A f \in Files : Stored(f)' = RecordsOf(f)
  BY <1>2 DEF Stored, OnDisk, RecordsOf
<1>5. \A f \in Files : Known(f)' \subseteq Known(f)
  BY <1>1, <1>4, LibraryAssumption DEF Known, Stored
<1>6. KnownInv'
  BY <1>5, KnownShrinks DEF LibraryInv
<1>7. StoredInv'
  <2> SUFFICES ASSUME NEW f \in Files, NEW r \in RecordsOf(f)
               PROVE  Exists(r) \/ r.id \in cut
    BY <1>4 DEF StoredInv, Exists
  <2>1. r \in Stored(f) /\ r \in Known(f)
    BY DEF Known, Stored
  <2>2. ~BeingDeleted(r)
    <3> SUFFICES ASSUME r \in victims PROVE FALSE
      BY DEF BeingDeleted
    <3>1. file \in Files /\ memory[file] = NoEntry
      BY DEF LibraryInv, CommandInv
    <3>2. r \in Known(file)
      BY DEF Known
    <3>3. f = file
      BY <2>1, <3>1, <3>2 DEF LibraryInv, KnownInv
    <3>4. QED
      BY <3>1, <3>3 DEF RecordsOf
  <2>3. QED
    BY <2>1, <2>2 DEF LibraryInv, StoredInv
<1>8. CommandInv' /\ LinksInv' /\ GrantsInv'
  BY <1>1 DEF LibraryInv, CommandInv, LinksInv, GrantsInv, CommandOver
<1>9. SavedInv'
  BY <1>2, NamesAssumption DEF LibraryInv, SavedInv, TypeOK
<1>10. CountInv'
  <2>1. CASE CommandOver
    BY <2>1, FS_EmptySet DEF CommandOver, CountInv
  <2>2. CASE UNCHANGED command
    BY <2>2 DEF command, LibraryInv, CountInv, Exists, HadGuest
  <2>3. QED
    BY <2>1, <2>2
<1>11. QED
  BY <1>3, <1>6, <1>7, <1>8, <1>9, <1>10 DEF LibraryInv

LEMMA StartUploadKeepsInv ==
  ASSUME LibraryInv, NEW f \in Files, StartUpload(f)
  PROVE  LibraryInv'
<1> USE DEF StartUpload, Goto, links, cloud, grants, history
<1>1. memory' \in Metadata /\ \A g \in Files : memory'[g] \in {memory[g], {}}
  BY DEF LibraryInv, TypeOK, Metadata
<1>2. TypeOK' /\ GrantsInv'
  <2>1. held' = {<<k, granted[k]>> : k \in keys \ ghosts}
    BY DEF LoadTokens
  <2>2. TypeOK'
    BY <1>1, <2>1, FS_EmptySet DEF LibraryInv, TypeOK
  <2>3. GrantsInv'
    BY <2>1 DEF LibraryInv, GrantsInv, TypeOK
  <2>4. QED
    BY <2>2, <2>3
<1>3. \A g \in Files : Stored(g)' \subseteq Stored(g)
  BY <1>1 DEF Stored, OnDisk, RecordsOf, Contents
<1>4. \A g \in Files : Known(g)' \subseteq Known(g)
  BY <1>3 DEF Known
<1>5. KnownInv'
  BY <1>4, KnownShrinks DEF LibraryInv
<1>6. StoredInv'
  BY <1>3, StoredShrinks DEF LibraryInv, BeingDeleted
<1>7. memory'[f] = {} /\ \A g \in Files \ {f} : memory'[g] = memory[g]
  BY DEF LibraryInv, TypeOK, Metadata
<1>8. CommandInv' /\ LinksInv'
  BY <1>7, NamesAssumption DEF LibraryInv, CommandInv, LinksInv
<1>9. SavedInv'
  BY <1>7 DEF LibraryInv, SavedInv, Contents
<1>10. CountInv'
  BY FS_EmptySet DEF CountInv
<1>11. QED
  BY <1>2, <1>5, <1>6, <1>8, <1>9, <1>10 DEF LibraryInv

LEMMA StartOnRecordsKeepsInv ==
  ASSUME LibraryInv, NEW f \in Files, StartDownload(f) \/ StartDelete(f)
  PROVE  LibraryInv'
<1> USE DEF StartDownload, StartDelete, Goto, store, cloud, history
<1>1. victims' \subseteq Records
  BY MetadataSets DEF LibraryInv
<1>2. LinksInv' /\ keys' \subseteq Accounts /\ ghosts' \subseteq keys'
  BY LookUpKeepsLinks
<1>3. Cardinality(victims') \in Nat
  BY <1>1, RecordSets
<1>4. held' = {<<k, granted[k]>> : k \in keys \ ghosts}
  BY DEF LoadTokens
<1>5. TypeOK'
  BY <1>1, <1>2, <1>3, <1>4 DEF LibraryInv, TypeOK
<1>6. GrantsInv'
  BY <1>2, <1>4 DEF LibraryInv, GrantsInv
<1>7. \A g \in Files : Stored(g)' = Stored(g)
  BY DEF Stored, OnDisk, RecordsOf, Contents
<1>8. \A g \in Files : Known(g)' \subseteq Known(g)
  BY <1>7 DEF Known, Stored, RecordsOf
<1>9. KnownInv'
  BY <1>8, KnownShrinks DEF LibraryInv
<1>10. StoredInv'
  BY <1>7, StoredShrinks DEF LibraryInv, BeingDeleted
<1>11. CommandInv' /\ SavedInv'
  BY DEF LibraryInv, CommandInv, SavedInv, Contents
<1>12. CountInv'
  BY <1>3 DEF CountInv
<1>13. QED
  BY <1>2, <1>5, <1>6, <1>9, <1>10, <1>11, <1>12 DEF LibraryInv
------------------------------------------------------------------------------
(* The parts of an upload.                                                  *)

LEMMA UploadThrowsKeepsInv ==
  ASSUME LibraryInv, UploadThrows
  PROVE  LibraryInv'
<1> USE DEF UploadThrows, Goto, CommandOver, store, links, cloud, grants
<1>1. TypeOK'
  BY FS_EmptySet DEF LibraryInv, TypeOK, CommandInv
<1>2. \A f \in Files : Stored(f)' = Stored(f)
  BY DEF Stored, OnDisk, RecordsOf, Contents
<1>3. \A f \in Files : Known(f)' \subseteq Known(f)
  BY <1>2 DEF Known
<1>4. KnownInv'
  BY <1>3, KnownShrinks DEF LibraryInv
<1>5. StoredInv'
  BY <1>2, StoredShrinks DEF LibraryInv, BeingDeleted
<1>6. CommandInv' /\ LinksInv' /\ GrantsInv' /\ SavedInv'
  BY DEF LibraryInv, CommandInv, LinksInv, GrantsInv, SavedInv, Contents
<1>7. CountInv'
  BY FS_EmptySet DEF CountInv
<1>8. QED
  BY <1>1, <1>4, <1>5, <1>6, <1>7 DEF LibraryInv

\* An object gets the next id; if its Drive is not that of the key's user, it is
\* that of a guest.
LEMMA CreatedObject ==
  ASSUME LibraryInv, NEW p \in Parts, keys # {}, CreateObject(p), guests' = guests
  PROVE  /\ created' = created + 1 /\ created' \in Ids
         /\ granted' \in [Accounts -> Accounts] /\ held' = held /\ GrantsInv'
         /\ KeyOf(p) \in Accounts
         /\ \E a \in Accounts :
               /\ drive' = drive \cup {[id |-> created', account |-> a]}
               /\ a = KeyOf(p) \/ <<KeyOf(p), a>> \in guests
<1>1. KeyOf(p) \in Accounts
  BY KeyOfIsAKey DEF LibraryInv, TypeOK
<1>2. created' = created + 1 /\ created' \in Ids
  BY LibraryAssumption DEF CreateObject, LibraryInv, TypeOK, Ids
<1>3. PICK a \in Accounts :
          /\ Session(KeyOf(p), a)
          /\ drive' = drive \cup {[id |-> created', account |-> a]}
  BY DEF CreateObject
<1>4. /\ granted' \in [Accounts -> Accounts] /\ held' = held /\ GrantsInv'
      /\ a = KeyOf(p) \/ <<KeyOf(p), a>> \in guests
  BY <1>1, <1>3, SessionKeeps
<1>5. QED
  BY <1>1, <1>2, <1>3, <1>4

\* What a settled part leaves alone, with or without an object.
LEMMA SettlePartFrame ==
  ASSUME LibraryInv, NEW p \in Parts, SettlePart(p),
         memory' \in Metadata, memory'[file] # NoEntry,
         \A f \in Files \ {file} : memory'[f] = memory[f],
         drive' \subseteq Records, created' \in 0..MaxObjects,
         granted' \in [Accounts -> Accounts], held' = held
  PROVE  TypeOK' /\ CommandInv' /\ LinksInv' /\ SavedInv' /\ CountInv'
<1> USE DEF SettlePart, links, history
<1>1. TypeOK' /\ LinksInv'
  BY DEF LibraryInv, TypeOK, LinksInv
<1>2. CommandInv' /\ SavedInv'
  BY DEF LibraryInv, CommandInv, SavedInv, Contents
<1>3. CountInv'
  BY DEF LibraryInv, CommandInv, CountInv
<1>4. QED
  BY <1>1, <1>2, <1>3

LEMMA StorePartKeepsInv ==
  ASSUME LibraryInv, NEW p \in Parts, StorePart(p)
  PROVE  LibraryInv'
<1> DEFINE new == [id |-> created', account |-> KeyOf(p)]
<1> USE DEF StorePart
<1>1. file \in Files /\ memory[file] # NoEntry /\ keys # {} /\ main = "uploading"
  BY DEF SettlePart, LibraryInv, CommandInv
<1>2. /\ created' = created + 1 /\ created' \in Ids /\ created \in Nat
      /\ granted' \in [Accounts -> Accounts] /\ held' = held /\ GrantsInv'
      /\ KeyOf(p) \in Accounts /\ guests' = guests
  BY <1>1, CreatedObject DEF SettlePart, history, LibraryInv, TypeOK
<1>3. PICK a \in Accounts :
          /\ drive' = drive \cup {[id |-> created', account |-> a]}
          /\ a = KeyOf(p) \/ <<KeyOf(p), a>> \in guests
  BY <1>1, <1>2, CreatedObject
<1>4. memory[file] \subseteq Records /\ new \in Records
  BY <1>1, <1>2, MetadataSets DEF LibraryInv, Records
<1>5. /\ memory'[file] = memory[file] \cup {new}
      /\ \A f \in Files \ {file} : memory'[f] = memory[f]
  BY <1>1 DEF LibraryInv, TypeOK, Metadata
<1>6. memory' \in Metadata /\ memory'[file] # NoEntry
  <2>1. memory[file] \cup {new} \in SUBSET Records
    BY <1>4
  <2>2. memory' \in Metadata
    BY <2>1 DEF LibraryInv, TypeOK, Metadata
  <2>3. QED
    BY <1>5, <2>1, <2>2, NamesAssumption
<1>7. drive' \subseteq Records /\ created' \in 0..MaxObjects
  BY <1>2, <1>3 DEF LibraryInv, TypeOK, Records, Ids
<1>8. TypeOK' /\ CommandInv' /\ LinksInv' /\ SavedInv' /\ CountInv'
  BY <1>2, <1>5, <1>6, <1>7, SettlePartFrame
<1>9. /\ file' = file /\ disk' = disk /\ cut' = cut /\ guests' = guests
      /\ victims' = victims /\ main' = main
  BY DEF SettlePart, links, history
<1>10. \A f \in Files : OnDisk(f)' = OnDisk(f)
  BY <1>9 DEF OnDisk, Contents
<1>11. \A f \in Files : RecordsOf(f)' = RecordsOf(f) \cup (IF f = file THEN {new} ELSE {})
  BY <1>1, <1>5, <1>6 DEF RecordsOf
<1>12. \A f \in Files :
          /\ Stored(f)' = Stored(f) \cup (IF f = file THEN {new} ELSE {})
          /\ Known(f)' = Known(f) \cup (IF f = file THEN {new} ELSE {})
  BY <1>9, <1>10, <1>11 DEF Stored, Known
<1>13. /\ \A f \in Files : \A r \in Known(f) : r.id \in 1..created
       /\ \A o \in drive : o.id \in 1..created
  BY DEF LibraryInv, KnownInv
<1>14. KnownInv'
  <2>1. ASSUME NEW f \in Files, NEW r \in Known(f)'
        PROVE  /\ r \in [id : 1..created', account : Accounts]
               /\ \A o \in drive' :
                      o.id = r.id => o = r \/ <<r.account, o.account>> \in guests'
    <3>1. CASE r \in Known(f)
      <4>1. r \in [id : 1..created, account : Accounts]
        BY <3>1 DEF LibraryInv, KnownInv
      <4>2. r.id # created'
        BY <1>2, <4>1
      <4>3. QED
        BY <1>2, <1>3, <1>9, <3>1, <4>1, <4>2 DEF LibraryInv, KnownInv
    <3>2. CASE r = new
      <4>1. \A o \in drive : o.id # created'
        BY <1>2, <1>13
      <4>2. QED
        BY <1>2, <1>3, <1>9, <3>2, <4>1
    <3>3. QED
      BY <1>12, <2>1, <3>1, <3>2
  <2>2. ASSUME NEW f \in Files, NEW r \in Known(f)', NEW g \in Files, NEW s \in Known(g)',
               r.id = s.id
        PROVE  f = g /\ r = s
    <3>1. CASE r \in Known(f) /\ s \in Known(g)
      BY <2>2, <3>1 DEF LibraryInv, KnownInv
    <3>2. CASE r \in Known(f) /\ s \notin Known(g)
      BY <1>2, <1>12, <1>13, <2>2, <3>2
    <3>3. CASE r \notin Known(f) /\ s \in Known(g)
      BY <1>2, <1>12, <1>13, <2>2, <3>3
    <3>4. CASE r \notin Known(f) /\ s \notin Known(g)
      BY <1>12, <3>4
    <3>5. QED
      BY <3>1, <3>2, <3>3, <3>4
  <2>3. \A o \in drive' : o.id \in 1..created'
    BY <1>2, <1>3, <1>13
  <2>4. QED
    BY <2>1, <2>2, <2>3 DEF KnownInv
<1>15. StoredInv'
  <2>1. \A r : Exists(r) => Exists(r)'
    BY <1>3 DEF Exists
  <2>2. ASSUME NEW r, r = new PROVE Exists(r)'
    <3>1. [id |-> created', account |-> a] \in drive' /\ r.id = created'
      BY <1>3, <2>2
    <3>2. QED
      BY <3>1 DEF Exists
  <2>3. \A r : BeingDeleted(r)' <=> BeingDeleted(r)
    BY <1>9 DEF BeingDeleted
  <2>4. ASSUME NEW f \in Files, NEW r \in Stored(f)
        PROVE  Exists(r)' \/ r.id \in cut' \/ BeingDeleted(r)'
    BY <1>9, <2>1, <2>3 DEF LibraryInv, StoredInv
  <2>5. \A f \in Files : \A r \in Stored(f)' : r \in Stored(f) \/ r = new
    BY <1>12
  <2>6. QED
    BY <2>2, <2>4, <2>5 DEF StoredInv
<1>16. QED
  BY <1>2, <1>8, <1>14, <1>15 DEF LibraryInv

\* A lost part may leave an object, which no record names.
LEMMA LosePartKeepsInv ==
  ASSUME LibraryInv, NEW p \in Parts, LosePart(p)
  PROVE  LibraryInv'
<1> USE DEF LosePart
<1>1. file \in Files /\ memory[file] # NoEntry /\ keys # {}
  BY DEF SettlePart, LibraryInv, CommandInv
<1>2. /\ memory' = memory /\ file' = file /\ disk' = disk /\ cut' = cut
      /\ guests' = guests /\ victims' = victims /\ main' = main
  BY DEF SettlePart, links, history
<1>3. \A f \in Files : Stored(f)' = Stored(f) /\ Known(f)' = Known(f)
  BY <1>2 DEF Stored, Known, RecordsOf, OnDisk, Contents
<1>4. CASE UNCHANGED cloud /\ SessionFails(KeyOf(p))
  <2> USE DEF cloud
  <2>1. KeyOf(p) \in Accounts
    BY <1>1, KeyOfIsAKey DEF LibraryInv, TypeOK
  <2>2. granted' \in [Accounts -> Accounts] /\ held' = held /\ GrantsInv'
    BY <1>2, <1>4, <2>1, SessionFailsKeeps
  <2>3. TypeOK' /\ CommandInv' /\ LinksInv' /\ SavedInv' /\ CountInv'
    BY <1>1, <1>2, <1>4, <2>2, SettlePartFrame DEF LibraryInv, TypeOK
  <2>4. KnownInv'
    BY <1>2, <1>3, <1>4, KnownShrinks DEF LibraryInv
  <2>5. StoredInv'
    BY <1>2, <1>3, <1>4, StoredShrinks DEF LibraryInv, BeingDeleted
  <2>6. QED
    BY <2>2, <2>3, <2>4, <2>5 DEF LibraryInv
<1>5. CASE CreateObject(p)
  <2>1. /\ created' = created + 1 /\ created' \in Ids /\ created \in Nat
        /\ granted' \in [Accounts -> Accounts] /\ held' = held /\ GrantsInv'
    BY <1>1, <1>2, <1>5, CreatedObject DEF LibraryInv, TypeOK
  <2>2. PICK a \in Accounts : drive' = drive \cup {[id |-> created', account |-> a]}
    BY <1>1, <1>2, <1>5, CreatedObject
  <2>3. drive' \subseteq Records /\ created' \in 0..MaxObjects
    BY <2>1, <2>2 DEF LibraryInv, TypeOK, Records, Ids
  <2>4. TypeOK' /\ CommandInv' /\ LinksInv' /\ SavedInv' /\ CountInv'
    BY <1>1, <1>2, <2>1, <2>3, SettlePartFrame DEF LibraryInv, TypeOK
  <2>5. KnownInv'
    <3>1. ASSUME NEW f \in Files, NEW r \in Known(f)
          PROVE  /\ r \in [id : 1..created', account : Accounts]
                 /\ \A o \in drive' :
                        o.id = r.id => o = r \/ <<r.account, o.account>> \in guests'
      <4>1. r \in [id : 1..created, account : Accounts]
        BY <3>1 DEF LibraryInv, KnownInv
      <4>2. r.id # created'
        BY <2>1, <4>1
      <4>3. QED
        BY <1>2, <2>1, <2>2, <3>1, <4>1, <4>2 DEF LibraryInv, KnownInv
    <3>2. \A o \in drive' : o.id \in 1..created'
      BY <2>1, <2>2 DEF LibraryInv, KnownInv
    <3>3. QED
      BY <1>3, <3>1, <3>2 DEF LibraryInv, KnownInv
  <2>6. StoredInv'
    <3>1. \A r : Exists(r) => Exists(r)'
      BY <2>2 DEF Exists
    <3>2. QED
      BY <1>2, <1>3, <3>1 DEF LibraryInv, StoredInv, BeingDeleted
  <2>7. QED
    BY <2>1, <2>4, <2>5, <2>6 DEF LibraryInv
<1>6. QED
  BY <1>4, <1>5

LEMMA FinishDownloadKeepsInv ==
  ASSUME LibraryInv, FinishDownload
  PROVE  LibraryInv'
<1> USE DEF FinishDownload, Goto, CommandOver, store, links, cloud, history
<1>1. TypeOK'
  BY FS_EmptySet DEF LibraryInv, TypeOK
<1>2. \A f \in Files : Stored(f)' = Stored(f)
  BY DEF Stored, OnDisk, RecordsOf, Contents
<1>3. \A f \in Files : Known(f)' \subseteq Known(f)
  BY <1>2 DEF Known
<1>4. KnownInv'
  BY <1>3, KnownShrinks DEF LibraryInv
<1>5. StoredInv'
  BY <1>2, StoredShrinks DEF LibraryInv, BeingDeleted
<1>6. CommandInv' /\ LinksInv' /\ GrantsInv' /\ SavedInv'
  BY DEF LibraryInv, CommandInv, LinksInv, GrantsInv, SavedInv, Contents
<1>7. CountInv'
  BY FS_EmptySet DEF CountInv
<1>8. QED
  BY <1>1, <1>4, <1>5, <1>6, <1>7 DEF LibraryInv

LEMMA FinishUploadKeepsInv ==
  ASSUME LibraryInv, FinishUpload
  PROVE  LibraryInv'
<1> USE DEF FinishUpload, Goto, command, store, links, cloud, grants, history
<1>1. TypeOK' /\ LinksInv' /\ GrantsInv'
  BY DEF LibraryInv, TypeOK, LinksInv, GrantsInv
<1>2. \A f \in Files : Stored(f)' = Stored(f) /\ Known(f)' = Known(f)
  BY DEF Stored, Known, RecordsOf, OnDisk, Contents
<1>3. KnownInv'
  BY <1>2, KnownShrinks DEF LibraryInv
<1>4. StoredInv'
  BY <1>2, StoredShrinks DEF LibraryInv, BeingDeleted
<1>5. CommandInv' /\ SavedInv' /\ CountInv'
  BY DEF LibraryInv, CommandInv, SavedInv, CountInv, Exists, HadGuest
<1>6. QED
  BY <1>1, <1>3, <1>4, <1>5 DEF LibraryInv
------------------------------------------------------------------------------
(* The records of a download or a delete, one by one.                       *)

\* The records of the file a command is about, and no others, have their ids.
LEMMA VictimsAlone ==
  ASSUME LibraryInv, main \in {"downloading", "deleting"}, NEW r \in victims,
         NEW f \in Files, NEW s \in Known(f), s.id = r.id
  PROVE  s = r
<1>1. file \in Files /\ r \in Known(file)
  BY DEF LibraryInv, CommandInv, Known
<1>2. QED
  BY <1>1 DEF LibraryInv, KnownInv

\* A task that is over took away nothing, or an object of its record's id in a
\* delete; and it was counted if no object has that id, but of a guest.
LEMMA SettleKeepsInv ==
  ASSUME LibraryInv, NEW r \in pending, main \in {"downloading", "deleting"},
         pending' = pending \ {r},
         UNCHANGED <<main, file, todo, victims, store, links, created, history>>,
         granted' \in [Accounts -> Accounts], held' = held, GrantsInv',
         drive' \subseteq drive, \A o \in drive \ drive' : o.id = r.id,
         main = "downloading" => drive' = drive,
         successful_deletes' \in {successful_deletes, successful_deletes + 1},
         successful_deletes' = successful_deletes + 1 =>
             ((\E o \in drive' : o.id = r.id) => HadGuest(r.account))
  PROVE  LibraryInv'
<1> USE DEF store, links, history
<1>1. r \in victims /\ pending \subseteq victims /\ victims \subseteq Records
  BY DEF LibraryInv, TypeOK
<1>2. /\ IsFiniteSet(pending) /\ Cardinality(pending) \in Nat
      /\ Cardinality(victims) \in Nat
  BY <1>1, RecordSets
<1>3. /\ Cardinality(pending') \in Nat /\ Cardinality(pending') = Cardinality(pending) - 1
  BY <1>1, <1>2, FS_RemoveElement, FS_CardinalityType
<1>4. /\ successful_deletes \in Nat /\ successful_deletes' \in Nat
      /\ successful_deletes' + Cardinality(pending') <= Cardinality(victims)
  BY <1>2, <1>3 DEF LibraryInv, TypeOK, CountInv
<1>5. TypeOK'
  BY <1>2, <1>3, <1>4 DEF LibraryInv, TypeOK
<1>6. CommandInv' /\ LinksInv' /\ SavedInv'
  BY <1>1 DEF LibraryInv, CommandInv, LinksInv, SavedInv, Contents
<1>7. \A f \in Files : Stored(f)' = Stored(f) /\ Known(f)' = Known(f)
  BY DEF Stored, Known, RecordsOf, OnDisk, Contents
<1>8. KnownInv'
  BY <1>7, KnownShrinks DEF LibraryInv
<1>9. StoredInv'
  <2> SUFFICES ASSUME NEW f \in Files, NEW s \in Stored(f)
               PROVE  (Exists(s) \/ s.id \in cut \/ BeingDeleted(s))'
    BY <1>7 DEF StoredInv
  <2>1. CASE s.id = r.id /\ main = "deleting"
    <3>1. s = r
      BY <1>1, <2>1, VictimsAlone DEF Known
    <3>2. QED
      BY <1>1, <2>1, <3>1 DEF BeingDeleted
  <2>2. CASE s.id # r.id \/ drive' = drive
    BY <2>2 DEF LibraryInv, StoredInv, Exists, BeingDeleted
  <2>3. QED
    BY <2>1, <2>2
<1>10. CountInv'
  <2>1. ASSUME successful_deletes' + Cardinality(pending') = Cardinality(victims),
               NEW s \in victims \ pending', Exists(s)'
        PROVE  HadGuest(s.account)
    <3>1. /\ successful_deletes' = successful_deletes + 1
          /\ successful_deletes + Cardinality(pending) = Cardinality(victims)
      BY <1>2, <1>3, <1>4, <2>1 DEF LibraryInv, CountInv
    <3>2. CASE s = r
      BY <2>1, <3>1, <3>2 DEF Exists
    <3>3. CASE s # r
      <4>1. s \in victims \ pending /\ Exists(s)
        BY <2>1, <3>3 DEF Exists
      <4>2. QED
        BY <3>1, <4>1 DEF LibraryInv, CountInv
    <3>4. QED
      BY <3>2, <3>3
  <2>2. QED
    BY <1>4, <2>1 DEF CountInv, HadGuest
<1>11. QED
  BY <1>5, <1>6, <1>8, <1>9, <1>10 DEF LibraryInv

LEMMA DownloadPartKeepsInv ==
  ASSUME LibraryInv, NEW r \in Records, DownloadPart(r)
  PROVE  LibraryInv'
<1> USE DEF DownloadPart
<1>1. r.account \in Accounts /\ guests' = guests /\ drive' = drive /\ created' = created
  BY DEF Records, history, cloud
<1>2. granted' \in [Accounts -> Accounts] /\ held' = held /\ GrantsInv'
  BY <1>1, SessionKeeps
<1>3. successful_deletes' # successful_deletes + 1
  BY RecordSets DEF LibraryInv, TypeOK
<1>4. QED
  BY <1>1, <1>2, <1>3, SettleKeepsInv

\* When Drive has answered, the object is gone, unless it or the session was a
\* guest's.
LEMMA DeleteAnsweredKeepsInv ==
  ASSUME LibraryInv, NEW r \in Records, DeleteAnswered(r)
  PROVE  LibraryInv'
<1> USE DEF DeleteAnswered, SettleDelete
<1>1. r.account \in Accounts /\ guests' = guests
  BY DEF Records, history
<1>2. PICK u \in Accounts :
          Session(r.account, u) /\ drive' = drive \ {[id |-> r.id, account |-> u]}
  BY DEF Deletes
<1>3. /\ granted' \in [Accounts -> Accounts] /\ held' = held /\ GrantsInv'
      /\ u = r.account \/ <<r.account, u>> \in guests
  BY <1>1, <1>2, SessionKeeps
<1>4. r \in victims /\ file \in Files /\ r \in Known(file)
  BY DEF LibraryInv, TypeOK, CommandInv, Known
<1>5. ASSUME NEW o \in drive', o.id = r.id PROVE HadGuest(r.account)
  <2>1. /\ o \in drive /\ o.account \in Accounts
        /\ o = r \/ <<r.account, o.account>> \in guests
    BY <1>2, <1>4, <1>5 DEF LibraryInv, KnownInv, TypeOK, Records
  <2>2. CASE o = r
    <3>1. r = [id |-> r.id, account |-> r.account]
      BY DEF Records
    <3>2. u # r.account
      BY <1>2, <1>5, <2>2, <3>1
    <3>3. QED
      BY <1>3, <3>2 DEF HadGuest
  <2>3. CASE o # r
    BY <2>1, <2>3 DEF HadGuest
  <2>4. QED
    BY <2>2, <2>3
<1>6. drive' \subseteq drive /\ \A o \in drive \ drive' : o.id = r.id
  BY <1>2
<1>7. main = "deleting" /\ r \in pending
  OBVIOUS
<1>8. QED
  BY <1>3, <1>5, <1>6, <1>7, SettleKeepsInv

LEMMA DeleteFailedKeepsInv ==
  ASSUME LibraryInv, NEW r \in Records, DeleteFailed(r)
  PROVE  LibraryInv'
<1> USE DEF DeleteFailed, SettleDelete
<1>1. r.account \in Accounts /\ guests' = guests
  BY DEF Records, history
<1>2. /\ granted' \in [Accounts -> Accounts] /\ held' = held /\ GrantsInv'
      /\ drive' \subseteq drive /\ \A o \in drive \ drive' : o.id = r.id
  <2>1. CASE Deletes(r)
    <3>1. PICK u \in Accounts :
              Session(r.account, u) /\ drive' = drive \ {[id |-> r.id, account |-> u]}
      BY <2>1 DEF Deletes
    <3>2. granted' \in [Accounts -> Accounts] /\ held' = held /\ GrantsInv'
      BY <1>1, <3>1, SessionKeeps
    <3>3. drive' \subseteq drive /\ \A o \in drive \ drive' : o.id = r.id
      BY <3>1
    <3>4. QED
      BY <3>2, <3>3
  <2>2. CASE UNCHANGED drive /\ SessionFails(r.account)
    BY <1>1, <2>2, SessionFailsKeeps
  <2>3. QED
    BY <2>1, <2>2
<1>3. successful_deletes' # successful_deletes + 1
  BY RecordSets DEF LibraryInv, TypeOK
<1>4. main = "deleting" /\ r \in pending
  OBVIOUS
<1>5. QED
  BY <1>2, <1>3, <1>4, SettleKeepsInv

\* The exception leaves the records to be deleted again: their ids are in cut.
LEMMA DeleteThrowsKeepsInv ==
  ASSUME LibraryInv, DeleteThrows
  PROVE  LibraryInv'
<1> USE DEF DeleteThrows, Goto, CommandOver, store, links, cloud, grants
<1>1. TypeOK'
  BY FS_EmptySet DEF LibraryInv, TypeOK, Records
<1>2. \A f \in Files : Stored(f)' = Stored(f)
  BY DEF Stored, OnDisk, RecordsOf, Contents
<1>3. \A f \in Files : Known(f)' \subseteq Known(f)
  BY <1>2 DEF Known
<1>4. KnownInv'
  BY <1>3, KnownShrinks DEF LibraryInv
<1>5. StoredInv'
  BY <1>2, StoredShrinks DEF LibraryInv, BeingDeleted
<1>6. CommandInv' /\ LinksInv' /\ GrantsInv' /\ SavedInv'
  BY DEF LibraryInv, CommandInv, LinksInv, GrantsInv, SavedInv, Contents
<1>7. CountInv'
  BY FS_EmptySet DEF CountInv
<1>8. QED
  BY <1>1, <1>4, <1>5, <1>6, <1>7 DEF LibraryInv

LEMMA EraseKeepsInv ==
  ASSUME LibraryInv, Erase
  PROVE  LibraryInv'
<1> USE DEF Erase, Goto, command, links, cloud, grants, history
<1>1. /\ file \in Files /\ memory'[file] = NoEntry
      /\ \A f \in Files \ {file} : memory'[f] = memory[f]
      /\ memory' \in Metadata
  BY DEF LibraryInv, TypeOK, CommandInv, Metadata
<1>2. TypeOK' /\ CommandInv' /\ LinksInv' /\ GrantsInv'
  BY <1>1 DEF LibraryInv, TypeOK, CommandInv, LinksInv, GrantsInv
<1>3. \A f \in Files : Stored(f)' \subseteq Stored(f)
  BY <1>1 DEF Stored, OnDisk, RecordsOf, Contents
<1>4. \A f \in Files : Known(f)' \subseteq Known(f)
  BY <1>3 DEF Known
<1>5. KnownInv'
  BY <1>4, KnownShrinks DEF LibraryInv
<1>6. StoredInv'
  BY <1>3, StoredShrinks DEF LibraryInv, BeingDeleted
<1>7. SavedInv' /\ CountInv'
  BY DEF LibraryInv, SavedInv, CountInv, Exists, HadGuest
<1>8. QED
  BY <1>2, <1>5, <1>6, <1>7 DEF LibraryInv

LEMMA ReportKeepsInv ==
  ASSUME LibraryInv, Report
  PROVE  LibraryInv'
<1> USE DEF Report, Goto, CommandOver, store, links, cloud, grants, history
<1>1. TypeOK'
  BY FS_EmptySet DEF LibraryInv, TypeOK
<1>2. \A f \in Files : Stored(f)' = Stored(f)
  BY DEF Stored, OnDisk, RecordsOf, Contents
<1>3. \A f \in Files : Known(f)' \subseteq Known(f)
  BY <1>2 DEF Known
<1>4. KnownInv'
  BY <1>3, KnownShrinks DEF LibraryInv
<1>5. StoredInv'
  BY <1>2, StoredShrinks DEF LibraryInv, BeingDeleted
<1>6. CommandInv' /\ LinksInv' /\ GrantsInv'
  BY DEF LibraryInv, CommandInv, LinksInv, GrantsInv
<1>7. SavedInv'
  BY NamesAssumption DEF LibraryInv, TypeOK, SavedInv, Contents
<1>8. CountInv'
  BY FS_EmptySet DEF CountInv
<1>9. QED
  BY <1>1, <1>4, <1>5, <1>6, <1>7, <1>8 DEF LibraryInv
------------------------------------------------------------------------------
(* The theorems.                                                            *)

LEMMA LibraryInvNext ==
  ASSUME LibraryInv, [Next]_vars
  PROVE  LibraryInv'
<1>1. CASE Start \/ Exit \/ ExitSaving \/ ExitWrites \/ Die
  BY <1>1, StartKeepsInv, ExitKeepsInv, ExitSavingKeepsInv, ExitWritesKeepsInv,
     DieKeepsInv
<1>2. CASE Over \/ UNCHANGED vars
  <2>1. UNCHANGED vars
    BY <1>2 DEF Over
  <2>2. UNCHANGED <<main, command, store, cloud, links, grants, starts, unsaved, cut,
                    guests>>
    BY <2>1 DEF vars, history
  <2>3. LinksInv' /\ GrantsInv'
    BY <2>2 DEF links, grants, LibraryInv, LinksInv, GrantsInv
  <2>4. QED
    BY <2>2, <2>3, LinksKeepInv DEF links, grants, LibraryInv, TypeOK, CommandInv
<1>3. ASSUME NEW a \in Accounts, Unlink(a) \/ AddAccount(a) PROVE LibraryInv'
  BY <1>3, UnlinkKeepsInv, AddAccountKeepsInv
<1>4. ASSUME NEW k \in Accounts, NEW u \in Accounts, SignIn(k, u) PROVE LibraryInv'
  BY <1>4, SignInKeepsInv
<1>5. ASSUME NEW f \in Files, StartDownload(f) \/ StartUpload(f) \/ StartDelete(f)
      PROVE  LibraryInv'
  BY <1>5, StartOnRecordsKeepsInv, StartUploadKeepsInv
<1>6. ASSUME NEW p \in Parts, StorePart(p) \/ LosePart(p) PROVE LibraryInv'
  BY <1>6, StorePartKeepsInv, LosePartKeepsInv
<1>7. CASE UploadThrows \/ FinishUpload \/ FinishDownload
  BY <1>7, UploadThrowsKeepsInv, FinishUploadKeepsInv, FinishDownloadKeepsInv
<1>8. ASSUME NEW r \in Records, DownloadPart(r) \/ DeleteAnswered(r) \/ DeleteFailed(r)
      PROVE  LibraryInv'
  BY <1>8, DownloadPartKeepsInv, DeleteAnsweredKeepsInv, DeleteFailedKeepsInv
<1>9. CASE DeleteThrows \/ Erase \/ Truncate
  BY <1>9, DeleteThrowsKeepsInv, EraseKeepsInv, TruncateKeepsInv
<1>10. CASE SaveUpload \/ SaveDelete
  BY <1>10, WriteOutKeepsInv DEF SaveUpload, SaveDelete
<1>11. CASE Report \/ ReportDies
  BY <1>11, ReportKeepsInv, ReportDiesKeepsInv
<1>12. QED
  BY <1>1, <1>2, <1>3, <1>4, <1>5, <1>6, <1>7, <1>8, <1>9, <1>10, <1>11 DEF Next

\* The inductive invariant of the program's life (Shell::uploadFile, deleteFile,
\* initializeState and saveMetadataOnExit) holds whatever is interrupted.
THEOREM LibraryInvariant == Spec => []LibraryInv
<1>1. LibraryInv /\ [Next]_vars => LibraryInv'
  BY LibraryInvNext
<1>2. QED
  BY LibraryInvInit, <1>1, PTL DEF Spec

\* The metadata, the accounts and the objects stay what they are meant to be.
THEOREM LibraryTypes == Spec => []TypeOK
<1>1. LibraryInv => TypeOK
  BY DEF LibraryInv
<1>2. QED
  BY LibraryInvariant, <1>1, PTL

\* Between commands no record outlives its object, but for deletes cut short: no
\* delete that fails half way leaves a record whose object is gone.
THEOREM NoRecordOutlivesItsObject == Spec => []RecordedObjectsExist
<1>1. LibraryInv => RecordedObjectsExist
  BY DEF LibraryInv, StoredInv, Stored, BeingDeleted, RecordedObjectsExist
<1>2. QED
  BY LibraryInvariant, <1>1, PTL

\* Between commands the metadata file has what the memory has, but for uploads
\* that threw: whatever happened before, a death at the prompt loses nothing.
THEOREM NothingToLoseAtThePrompt == Spec => []Durable
<1>1. LibraryInv => Durable
  BY DEF LibraryInv, SavedInv, Durable
<1>2. QED
  BY LibraryInvariant, <1>1, PTL

\* A delete that counted all its chunks left none of them in Drive, unless
\* somebody else had signed in for the account of one.
THEOREM AllCountedAllGone == Spec => []CountedMeansGone
<1>1. LibraryInv => CountedMeansGone
  <2> SUFFICES ASSUME LibraryInv, main = "reporting",
                      successful_deletes = Cardinality(victims)
               PROVE  \A r \in victims : Exists(r) => HadGuest(r.account)
    BY DEF CountedMeansGone
  <2>1. pending = {}
    BY DEF LibraryInv, CommandInv
  <2>2. successful_deletes + Cardinality(pending) = Cardinality(victims)
    BY <2>1, FS_EmptySet, RecordSets DEF LibraryInv, TypeOK
  <2>3. QED
    BY <2>1, <2>2 DEF LibraryInv, CountInv
<1>2. QED
  BY LibraryInvariant, <1>1, PTL

\* The object of a record is in the Drive of the account it names, or of one
\* who signed in for that account, however many accounts were linked when it was
\* uploaded or were added since, and whatever sessions saved over each other.
THEOREM RecordsNameTheOwner == Spec => []OwnerRecorded
<1>1. LibraryInv => OwnerRecorded
  <2> SUFFICES ASSUME LibraryInv, NEW f \in Files, NEW r \in RecordsOf(f),
                      NEW o \in drive, o.id = r.id
               PROVE  o = r \/ <<r.account, o.account>> \in guests
    BY DEF OwnerRecorded
  <2>1. r \in Known(f)
    BY DEF Known, Stored
  <2>2. QED
    BY <2>1 DEF LibraryInv, KnownInv
<1>2. QED
  BY LibraryInvariant, <1>1, PTL
==============================================================================
