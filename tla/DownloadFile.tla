----------------------------- MODULE DownloadFile ----------------------------
(***************************************************************************)
(* One call of Shell::downloadFile (src/Shell.cpp) for a file the metadata *)
(* knows: one std::thread per chunk record runs GDriveHandler's            *)
(* downloadChunk into a temporary directory; after all joins the calling   *)
(* thread concatenates the parts.  No thread catches exceptions, so one    *)
(* refused chunk is std::terminate: the process dies.                      *)
(***************************************************************************)
EXTENDS ChunkPlan, Sequences, FiniteSets

CONSTANTS Total,        \* parts the uploaded file was cut into
          RecordedSets, \* which sets of parts an upload may have left recorded
          NumAccounts,
          LinkedSets,   \* which of them may have a token file
          Networks,     \* how GETs may fare: sets of answers
          Outputs       \* how the output file may take what it is given

\* "whole": status 200 and every byte; "cut", "empty": status 200, but the
\* connection broke within the body or before it (cpr says so in
\* Response::error, which the code does not look at), or the disk took only
\* part of it; "refused": another status, or an exception before it.
AllAnswers == {"whole", "cut", "empty", "refused"}

\* It takes all, cannot be opened, or is on a disk that runs full.
AllOutputs == {"open", "unopened", "full"}

Parts == 0..(Total - 1)

ASSUME DownloadAssumption ==
    /\ Total \in Nat
    /\ RecordedSets \subseteq SUBSET Parts
    /\ NumAccounts \in Nat \ {0}
    /\ LinkedSets \subseteq SUBSET (0..(NumAccounts - 1))
    /\ Networks \subseteq SUBSET AllAnswers
    /\ Outputs \subseteq AllOutputs

VARIABLES main,       \* control point of the calling thread
          records,    \* fileMeta["chunks"] as part numbers, in upload order
          linked,     \* keys of m_local_accounts when the call begins
          answers,    \* what a GET may come to in this call: one of Networks
          output,     \* how savePath takes what it is given
          ghosts,     \* keys this call inserted, with an empty token path
          thread,     \* thread[k]: control point of the thread of records[k]
          temp,       \* what the part files of the temporary directory hold
          k_out,      \* i of the concatenation loop
          out,        \* what was written to savePath: [part, data]; "cut" is
                      \* short of some bytes, or of all
          out_good    \* ofstream `out` has neither failbit nor badbit

given == <<records, linked, answers, output>>
vars == <<main, given, ghosts, thread, temp, k_out, out, out_good>>

Threads == DOMAIN records

TypeOK ==
    /\ main \in {"starting", "joining", "copying", "completed", "threw", "dead"}
    /\ records \in Seq(Parts)
    /\ linked \subseteq 0..(NumAccounts - 1) /\ answers \in Networks
    /\ output \in Outputs
    /\ ghosts \subseteq 0..(NumAccounts - 1)
    /\ thread \in [Threads -> {"looking", "inserting", "fetching", "finished"}]
    /\ temp \in [Parts -> {"absent", "stale", "empty", "whole", "cut"}]
    /\ k_out \in 0..Total
    /\ out \in Seq([part : Parts, data : {"stale", "whole", "cut"}])
    /\ out_good \in BOOLEAN

\* The records of an upload that recorded the parts S, in any order.
Orders(S) ==
    {s \in [1..Cardinality(S) -> S] : \A j, k \in DOMAIN s : s[j] = s[k] => j = k}

\* A download that died left its parts in the temporary directory.
Init ==
    /\ main = "starting"
    /\ records \in UNION {Orders(S) : S \in RecordedSets}
    /\ linked \in LinkedSets /\ answers \in Networks /\ output \in Outputs
    /\ ghosts = {}
    /\ thread = [k \in DOMAIN records |-> "looking"]
    /\ temp \in [Parts -> {"absent", "stale"}]
    /\ k_out = 0 /\ out = <<>> /\ out_good = TRUE

AccountOfThread(k) == AccountOf(records[k], NumAccounts)

NoTemp == [p \in Parts |-> "absent"]
------------------------------------------------------------------------------
\* Faulty variant: the temporary directory is created but not emptied.
StartKeepingTemp ==
    /\ main = "starting"
    /\ main' = "joining"
    /\ UNCHANGED <<given, ghosts, thread, temp, k_out, out, out_good>>

\* remove_all and create_directories, then the loop that starts the threads.
Start ==
    /\ main = "starting"
    /\ main' = "joining"
    /\ temp' = NoTemp
    /\ UNCHANGED <<given, ghosts, thread, k_out, out, out_good>>

\* filesystem_error; or system_error of a std::thread while the threads started
\* before it are joinable, which ends the process.
StartFails ==
    /\ main = "starting"
    /\ \/ main' = "threw" /\ temp' \in {temp, NoTemp}
       \/ main' = "dead" /\ temp' = NoTemp
    /\ UNCHANGED <<given, ghosts, thread, k_out, out, out_good>>

ThreadGoto(k, from, to) ==
    /\ main = "joining"
    /\ thread[k] = from
    /\ thread' = [thread EXCEPT ![k] = to]
    /\ UNCHANGED <<main, given, k_out, out, out_good>>

\* m_local_accounts[account], unlocked: a lookup if the account has an entry;
\* if not, an insertion that other threads may run into.
FindAccount(k) ==
    /\ ThreadGoto(k, "looking", IF AccountOfThread(k) \in linked \cup ghosts
                                THEN "fetching" ELSE "inserting")
    /\ UNCHANGED <<ghosts, temp>>

InsertAccount(k) ==
    /\ ThreadGoto(k, "inserting", "fetching")
    /\ ghosts' = ghosts \cup {AccountOfThread(k)}
    /\ UNCHANGED temp

\* downloadChunk: status 200 ends the thread, whatever came of the body.
FetchAnswered(k) ==
    /\ ThreadGoto(k, "fetching", "finished")
    /\ \E a \in answers \ {"refused"} : temp' = [temp EXCEPT ![records[k]] = a]
    /\ UNCHANGED ghosts

\* Faulty variants: a refused chunk is tried again without a limit; its
\* exception is swallowed by the thread, which has already opened, and thereby
\* emptied, its part file.
FetchRefusedRetrying(k) ==
    /\ "refused" \in answers
    /\ ThreadGoto(k, "fetching", "looking")
    /\ UNCHANGED <<ghosts, temp>>

FetchRefusedQuietly(k) ==
    /\ "refused" \in answers
    /\ ThreadGoto(k, "fetching", "finished")
    /\ temp' = [temp EXCEPT ![records[k]] = "empty"]
    /\ UNCHANGED ghosts

\* The exception of a refused chunk leaves the thread function.
FetchRefused(k) ==
    /\ "refused" \in answers
    /\ main = "joining" /\ thread[k] = "fetching"
    /\ main' = "dead"
    /\ UNCHANGED <<given, ghosts, thread, temp, k_out, out, out_good>>

\* The insertion moves the tree under another thread's search or insertion.
Racing(j, k) ==
    /\ j # k
    /\ thread[j] = "inserting"
    /\ thread[k] \in {"looking", "inserting"}

\* Undefined behaviour: besides going well, it may end the process.
RaceOnAccounts ==
    /\ main = "joining"
    /\ \E j, k \in Threads : Racing(j, k)
    /\ main' = "dead"
    /\ UNCHANGED <<given, ghosts, thread, temp, k_out, out, out_good>>

\* All threads joined; std::ofstream out(savePath).
JoinAll ==
    /\ main = "joining"
    /\ \A k \in Threads : thread[k] = "finished"
    /\ main' = "copying"
    /\ out_good' = (output # "unopened")
    /\ UNCHANGED <<given, ghosts, thread, temp, k_out, out>>

\* A part file `in.rdbuf()` gives at least one byte of.
HasBytes(p) == p \in Parts /\ temp[p] \notin {"absent", "empty"}

\* Faulty variants of the copy: one iteration too many; the stream's failure is
\* cleared each time.
CopyPartTooFar ==
    /\ main = "copying" /\ k_out <= Len(records)
    /\ out_good' = (out_good /\ HasBytes(k_out))
    /\ out' = IF out_good'
              THEN Append(out, [part |-> k_out, data |-> temp[k_out]]) ELSE out
    /\ k_out' = k_out + 1
    /\ UNCHANGED <<main, given, ghosts, thread, temp>>

CopyPartClearing ==
    /\ main = "copying" /\ k_out < Len(records)
    /\ out' = IF HasBytes(k_out)
              THEN Append(out, [part |-> k_out, data |-> temp[k_out]]) ELSE out
    /\ k_out' = k_out + 1
    /\ UNCHANGED <<main, given, ghosts, thread, temp, out_good>>

\* One iteration: `out << in.rdbuf()` of part number i.  A part file that is
\* not there, or is empty, inserts nothing, which sets failbit; a failed stream
\* stays failed and takes nothing more.
CopyPart ==
    /\ main = "copying" /\ k_out < Len(records)
    /\ out_good' = (out_good /\ HasBytes(k_out))
    /\ out' = IF out_good'
              THEN Append(out, [part |-> k_out, data |-> temp[k_out]]) ELSE out
    /\ k_out' = k_out + 1
    /\ UNCHANGED <<main, given, ghosts, thread, temp>>

\* The disk runs full within part number i, or when what was buffered of it is
\* flushed: the stream may not notice, depending on the library, if it took some
\* of it (operator<< of a streambuf sets failbit if it took nothing).
CopyShort ==
    /\ output = "full"
    /\ main = "copying" /\ k_out < Len(records)
    /\ out_good /\ HasBytes(k_out)
    /\ \/ out' = Append(out, [part |-> k_out, data |-> "cut"]) /\ out_good' \in BOOLEAN
       \/ out' = out /\ out_good' = FALSE
    /\ k_out' = k_out + 1
    /\ UNCHANGED <<main, given, ghosts, thread, temp>>

\* out.close(), remove_all(tempDir), "Download completed to: ...".
Complete ==
    /\ main = "copying" /\ k_out = Len(records)
    /\ main' = "completed"
    /\ temp' = NoTemp
    /\ UNCHANGED <<given, ghosts, thread, k_out, out, out_good>>

\* remove_all throws: the user sees its message, the output is written.
CleanupFails ==
    /\ main = "copying" /\ k_out = Len(records)
    /\ main' = "threw"
    /\ UNCHANGED <<given, ghosts, thread, temp, k_out, out, out_good>>

MainStep ==
    Start \/ StartFails \/ JoinAll \/ CopyPart \/ CopyShort \/ Complete \/ CleanupFails

ThreadStep(k) ==
    FindAccount(k) \/ InsertAccount(k) \/ FetchAnswered(k) \/ FetchRefused(k)

Over == main \in {"completed", "threw", "dead"} /\ UNCHANGED vars

Next ==
    MainStep \/ (\E k \in Threads : ThreadStep(k)) \/ RaceOnAccounts \/ Over

\* Every thread runs and every GET returns (no timeout is set).
Spec ==
    /\ Init /\ [][Next]_vars
    /\ WF_vars(MainStep) /\ WF_vars(\E k \in Threads : ThreadStep(k))
------------------------------------------------------------------------------
WholeFile == [k \in 1..Total |-> [part |-> k - 1, data |-> "whole"]]

\* If every part was recorded, in whatever order the uploads ended, no connection
\* breaks within an answer and the output has its place on the disk, then "Download
\* completed" means that it is the whole file, whatever threads fail and however
\* they are run.
BitPerfect ==
    /\ Len(records) = Total /\ output = "open"
    /\ answers \subseteq {"whole", "refused"}
    /\ main = "completed"
    => out = WholeFile

\* Whatever is missing from the metadata, no part is ever written at the place
\* of another: the output is made of the first parts of the file, because a
\* stream that failed on a missing part takes no later one.
NothingOutOfPlace == \A k \in 1..Len(out) : out[k].part = k - 1

\* A part left behind by a download that died never gets into the output.
NothingStale == \A k \in 1..Len(out) : out[k].data # "stale"

\* The call ends, or the process dies.
Terminates == <>(main \in {"completed", "threw", "dead"})
------------------------------------------------------------------------------
(* A statement of the documentation that the code does not keep.           *)

\* README.md:63: the metadata guarantees "bit-perfect reconstruction regardless
\* of upload order": a download that completes has written the whole file.
ReconstructionGuaranteed == main = "completed" => out = WholeFile
==============================================================================
