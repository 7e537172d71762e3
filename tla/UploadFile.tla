------------------------------ MODULE UploadFile -----------------------------
(***************************************************************************)
(* One call of Shell::uploadFile(localFilePath) (src/Shell.cpp), from the  *)
(* reset of the file's "chunks" to the final write of data/metadata.json:  *)
(* the calling thread, the producer thread and one std::async task per     *)
(* chunk.  chunkQueue and m_upload_slots appear by what ThreadSafeQueue    *)
(* and Semaphore are shown to implement: guarded atomic operations.        *)
(*                                                                         *)
(* What a task does between acquire() and the answer of the PUT (token     *)
(* file, authentication, folder, upload session, PUT) is one step with     *)
(* three outcomes.  The process may die at any step: killed, or by         *)
(* std::terminate (std::async throws while the producer is joinable;       *)
(* bad_alloc in the producer).                                             *)
(***************************************************************************)
EXTENDS ChunkPlan, Sequences, FiniteSets

CONSTANTS Consumers,     \* the async tasks, one per chunk; also the ids of the
                         \* Drive objects: a task creates at most one
          FileSize, NumAccounts,
          Slots,         \* initial count of m_upload_slots: 16 in the code
          NameIsUtf8,    \* can the file name be dumped as JSON?
          NoChunk

\* const int totalChunks
Total == TotalChunks(FileSize)

Parts == 0..(Total - 1)

\* uploadFile throws at once if m_local_accounts is empty.
ASSUME UploadAssumption ==
    /\ FileSize \in Nat
    /\ NumAccounts \in Nat \ {0}
    /\ Slots \in Nat \ {0}
    /\ NameIsUtf8 \in BOOLEAN
    /\ IsFiniteSet(Consumers)
    /\ Cardinality(Consumers) = Total
    /\ NoChunk \notin Parts

VARIABLES main,          \* control point of the calling thread
          i,             \* loop variable of the producer
          chunkQueue,    \* part numbers in the queue
          queueDone,     \* done() was called, the producer's last statement
          task,          \* task[c]: control point of consumer c
          chunk,         \* chunk[c]: the part in c's chunk_data
          upload_slots,  \* count_ of m_upload_slots
          chunks,        \* m_metadata["files"][metadataKey]["chunks"]
          successful_chunks,
          drive,         \* external: the objects this call created in Drive
          verdict,       \* what the user is told
          disk           \* data/metadata.json: "old", "empty" or "current"

production == <<i, queueDone>>
results == <<chunks, successful_chunks, drive>>
outputs == <<verdict, disk>>
vars == <<main, production, chunkQueue, task, chunk, upload_slots, results,
          outputs>>

Account == 0..(NumAccounts - 1)

TypeOK ==
    /\ main \in {"starting", "running", "opening", "dumping",
                 "returned", "threw", "dead"}
    /\ i \in 0..Total
    /\ chunkQueue \in Seq(Parts)
    /\ queueDone \in BOOLEAN
    /\ task \in [Consumers -> {"unborn", "popping", "acquiring", "uploading",
                               "recording", "releasing", "finished"}]
    /\ chunk \in [Consumers -> Parts \cup {NoChunk}]
    /\ upload_slots \in 0..Slots
    /\ chunks \in Seq([part : Parts, account : Account, drive_file_id : Consumers])
    /\ successful_chunks \in Nat
    /\ drive \subseteq [id : Consumers, account : Account, part : Parts]
    /\ verdict \in {"none", "complete", "failed"}
    /\ disk \in {"old", "empty", "current"}

Init ==
    /\ main = "starting"
    /\ i = 0 /\ chunkQueue = <<>> /\ queueDone = FALSE
    /\ task = [c \in Consumers |-> "unborn"]
    /\ chunk = [c \in Consumers |-> NoChunk]
    /\ upload_slots = Slots
    /\ chunks = <<>> /\ successful_chunks = 0 /\ drive = {}
    /\ verdict = "none" /\ disk = "old"

\* The call is not over and the process is alive.
Running == main \notin {"returned", "threw", "dead"}

\* A step of task c: it moves on, and leaves the other threads' own state alone.
Goto(c, from, to) ==
    /\ Running
    /\ task[c] = from
    /\ task' = [task EXCEPT ![c] = to]
    /\ UNCHANGED <<main, production, outputs>>

\* A step of the calling thread.
MainGoto(from, to) ==
    /\ main = from
    /\ main' = to
    /\ UNCHANGED <<production, chunkQueue, task, chunk, upload_slots, results>>
------------------------------------------------------------------------------
(* The producer thread.                                                    *)

\* One iteration: chunkQueue.push({i, buffer}).
PushChunk ==
    /\ main = "running" /\ i < Total
    /\ chunkQueue' = Append(chunkQueue, i)
    /\ i' = i + 1
    /\ UNCHANGED <<main, queueDone, task, chunk, upload_slots, results, outputs>>

\* Faulty variant: done() is called before the last chunk is pushed.
FinishProducingEarly ==
    /\ main = "running" /\ i + 1 >= Total /\ ~queueDone
    /\ queueDone' = TRUE
    /\ UNCHANGED <<main, i, chunkQueue, task, chunk, upload_slots, results, outputs>>

FinishProducing ==
    /\ main = "running" /\ i = Total /\ ~queueDone
    /\ queueDone' = TRUE
    /\ UNCHANGED <<main, i, chunkQueue, task, chunk, upload_slots, results, outputs>>
------------------------------------------------------------------------------
(* The consumer tasks.                                                     *)

\* Faulty variant: the front is copied but stays in the queue.
PeekChunk(c) ==
    /\ chunkQueue # <<>>
    /\ Goto(c, "popping", "acquiring")
    /\ chunk' = [chunk EXCEPT ![c] = Head(chunkQueue)]
    /\ UNCHANGED <<chunkQueue, upload_slots, results>>

\* pop(chunk_data) returned true, with the front of the queue; or it returned
\* false, and the task is over.
TakeChunk(c) ==
    /\ Goto(c, "popping", "acquiring")
    /\ chunk' = [chunk EXCEPT ![c] = Head(chunkQueue)]
    /\ chunkQueue' = Tail(chunkQueue)
    /\ UNCHANGED <<upload_slots, results>>

TakeNothing(c) ==
    /\ Goto(c, "popping", "finished")
    /\ UNCHANGED <<chunkQueue, chunk, upload_slots, results>>

PopChunk(c) ==
    /\ chunkQueue # <<>> \/ queueDone
    /\ IF chunkQueue # <<>> THEN TakeChunk(c) ELSE TakeNothing(c)

\* Faulty variant: try_acquire, and on with the upload whatever it says.
AcquireWithoutWaiting(c) ==
    /\ Goto(c, "acquiring", "uploading")
    /\ upload_slots' = IF upload_slots > 0 THEN upload_slots - 1 ELSE 0
    /\ UNCHANGED <<chunkQueue, chunk, results>>

AcquireSlot(c) ==
    /\ upload_slots > 0
    /\ Goto(c, "acquiring", "uploading")
    /\ upload_slots' = upload_slots - 1
    /\ UNCHANGED <<chunkQueue, chunk, results>>

Object(c) == [id |-> c, part |-> chunk[c],
              account |-> AccountOf(chunk[c], NumAccounts)]

\* External: the object Drive creates for the PUT of c's chunk.  Its name was
\* dumped as JSON by initiateResumableUpload, which throws if it is not UTF-8.
CreateObject(c) == NameIsUtf8 /\ drive' = drive \cup {Object(c)}

\* uploadChunk returns the id of the new object.
UploadStored(c) ==
    /\ Goto(c, "uploading", "recording")
    /\ CreateObject(c)
    /\ UNCHANGED <<chunkQueue, chunk, upload_slots, chunks, successful_chunks>>

\* An exception, caught by the task: raised before Drive has the object, or
\* because the answer was lost or its status is not 200 though Drive has it.
UploadFailed(c) ==
    /\ Goto(c, "uploading", "releasing")
    /\ CreateObject(c) \/ UNCHANGED drive
    /\ UNCHANGED <<chunkQueue, chunk, upload_slots, chunks, successful_chunks>>

\* The record pushed for part p with the id uploadChunk returned to c.
PushRecord(c, p) ==
    /\ chunks' = Append(chunks, [part |-> p, drive_file_id |-> c,
                                 account |-> AccountOf(p, NumAccounts)])
    /\ successful_chunks' = successful_chunks + 1

\* Faulty variants: the record is numbered by its position in the list; the
\* push_back without meta_mutex, where of two concurrent ones one may be lost.
RecordByPosition(c) ==
    /\ Goto(c, "recording", "releasing")
    /\ PushRecord(c, Len(chunks))
    /\ UNCHANGED <<chunkQueue, chunk, upload_slots, drive>>

RecordUnprotected(c) ==
    /\ Goto(c, "recording", "releasing")
    /\ \/ PushRecord(c, chunk[c])
       \/ /\ \E d \in Consumers \ {c} : task[d] = "recording"
          /\ successful_chunks' = successful_chunks + 1 /\ UNCHANGED chunks
    /\ UNCHANGED <<chunkQueue, chunk, upload_slots, drive>>

\* push_back under meta_mutex, then the atomic successful_chunks++.  Nobody
\* reads either before the task's future is ready, so this is one step.
RecordChunk(c) ==
    /\ Goto(c, "recording", "releasing")
    /\ PushRecord(c, chunk[c])
    /\ UNCHANGED <<chunkQueue, chunk, upload_slots, drive>>

Recorded(c) == \E k \in 1..Len(chunks) : chunks[k].drive_file_id = c

\* Faulty variant: release() inside the try, after the counting: a task whose
\* upload failed keeps its slot.
ReleaseOnSuccessOnly(c) ==
    /\ Goto(c, "releasing", "finished")
    /\ upload_slots' = IF Recorded(c) THEN upload_slots + 1 ELSE upload_slots
    /\ UNCHANGED <<chunkQueue, chunk, results>>

\* m_upload_slots.release(), reached after the try and after the catch.
ReleaseSlot(c) ==
    /\ Goto(c, "releasing", "finished")
    /\ upload_slots' = upload_slots + 1
    /\ UNCHANGED <<chunkQueue, chunk, results>>
------------------------------------------------------------------------------
(* The calling thread.                                                     *)

\* std::thread producer_thread(...), or its system_error, which leaves the
\* function for the catch of Shell::run.
StartProducer ==
    /\ MainGoto("starting", "running") \/ MainGoto("starting", "threw")
    /\ UNCHANGED outputs

\* One iteration of consumer_futures.emplace_back(std::async(...)).
SpawnConsumer(c) ==
    /\ main = "running"
    /\ Goto(c, "unborn", "popping")
    /\ UNCHANGED <<chunkQueue, chunk, upload_slots, results>>

\* if (successful_chunks == totalChunks)
Announce == verdict' = IF successful_chunks = Total THEN "complete" ELSE "failed"

\* Faulty variant: the verdict does not wait for the futures.
AnnounceUnjoined ==
    queueDone /\ MainGoto("running", "opening") /\ Announce /\ UNCHANGED disk

\* producer_thread.join() and f.get() on every future, then the verdict.
JoinAndAnnounce ==
    /\ queueDone
    /\ \A c \in Consumers : task[c] = "finished"
    /\ MainGoto("running", "opening") /\ Announce /\ UNCHANGED disk

\* std::ofstream out("data/metadata.json") truncates the file; after that
\* m_metadata.dump(4) is evaluated, and throws on a string that is not UTF-8.
OpenMetadata ==
    MainGoto("opening", "dumping") /\ disk' = "empty" /\ UNCHANGED verdict

DumpMetadata ==
    /\ IF NameIsUtf8 THEN MainGoto("dumping", "returned") /\ disk' = "current"
                     ELSE MainGoto("dumping", "threw") /\ UNCHANGED disk
    /\ UNCHANGED verdict

Die == Running /\ MainGoto(main, "dead") /\ UNCHANGED outputs
------------------------------------------------------------------------------
MainStep == StartProducer \/ JoinAndAnnounce \/ OpenMetadata \/ DumpMetadata

ProducerStep == PushChunk \/ FinishProducing

TaskStep(c) ==
    \/ SpawnConsumer(c) \/ PopChunk(c)
    \/ AcquireSlot(c) \/ UploadStored(c) \/ UploadFailed(c)
    \/ RecordChunk(c) \/ ReleaseSlot(c)

Over == ~Running /\ UNCHANGED vars

Next == MainStep \/ ProducerStep \/ (\E c \in Consumers : TaskStep(c)) \/ Die \/ Over

\* The scheduler runs every thread, and every network call returns (the code
\* sets no timeout: that part is an assumption on the network).
Fairness ==
    /\ WF_vars(MainStep) /\ WF_vars(ProducerStep)
    /\ \A c \in Consumers : WF_vars(TaskStep(c))

Spec == Init /\ [][Next]_vars /\ Fairness
------------------------------------------------------------------------------
Served == {c \in Consumers : chunk[c] # NoChunk}

InSlot == {c \in Consumers : task[c] \in {"uploading", "recording", "releasing"}}

RecordedParts == {chunks[k].part : k \in 1..Len(chunks)}

\* A slot is never leaked nor returned twice, on no path through the try, the
\* catch and the release (Shell.cpp:137-188).  At most Slots tasks upload at a
\* time (README.md:60, :142) follows.
SlotsAccounted == upload_slots + Cardinality(InSlot) = Slots

\* Each chunk the producer read is at exactly one place, the queue or one task,
\* and they leave the queue in order: no part is uploaded twice or dropped.
EveryPartOnce ==
    /\ \A c, d \in Served : chunk[c] = chunk[d] => c = d
    /\ {chunk[c] : c \in Served} = 0..(Cardinality(Served) - 1)
    /\ Len(chunkQueue) = i - Cardinality(Served)
    /\ \A k \in 1..Len(chunkQueue) : chunkQueue[k] = Cardinality(Served) + k - 1

\* Nobody goes home empty-handed: the early return at Shell.cpp:132-135 is
\* never taken, because there are as many tasks as chunks and each pops once.  The
\* comment at Shell.cpp:133 ("This can happen if another thread failed and we are
\* cleaning up") does not hold: a task that fails pushes nothing back, takes nothing
\* more, and nothing closes the queue early.
NoEmptyHandedTask ==
    \A c \in Consumers : task[c] = "finished" => c \in Served

\* Every record of the metadata names a Drive object that exists, with the part
\* the record says and created under the key the record says (whose Drive a key
\* opens is a matter of module Library), and no part has two records, in whatever
\* order the uploads finish.
RecordsTrue ==
    /\ \A k \in 1..Len(chunks) :
           [id |-> chunks[k].drive_file_id, part |-> chunks[k].part,
            account |-> chunks[k].account] \in drive
    /\ \A k, l \in 1..Len(chunks) : chunks[k].part = chunks[l].part => k = l

\* The message of Shell.cpp:200-208 is the truth about the metadata in memory:
\* "complete" if and only if every part of the file has its record.  ("Metadata
\* saved.", at line 203, is printed before lines 210-211 save it.)
VerdictTrue ==
    /\ verdict = "complete" => RecordedParts = Parts
    /\ verdict = "failed" => RecordedParts # Parts

\* The inductive invariant the safety properties follow from: what is true of
\* a task at each control point, and of its record.
UploadInv ==
    /\ TypeOK /\ SlotsAccounted /\ EveryPartOnce
    /\ queueDone => i = Total
    /\ \A c \in Consumers : chunk[c] = NoChunk <=> task[c] \in {"unborn", "popping"}
    /\ \A c \in Consumers : task[c] = "recording" => Object(c) \in drive
    /\ \A k \in 1..Len(chunks) :
           LET c == chunks[k].drive_file_id
           IN  /\ task[c] \in {"releasing", "finished"}
               /\ chunks[k].part = chunk[c]
               /\ chunks[k].account = Object(c).account
               /\ Object(c) \in drive
    /\ \A k, l \in 1..Len(chunks) :
           chunks[k].drive_file_id = chunks[l].drive_file_id => k = l
    /\ successful_chunks = Len(chunks)
    /\ main \in {"starting", "running"} => verdict = "none"
    /\ verdict # "none" =>
           /\ \A c \in Consumers : task[c] = "finished"
           /\ verdict = "complete" <=> successful_chunks = Total

\* The call ends (or the process dies): no slot, queue or join is waited for
\* for ever, whatever uploads fail.
Terminates == <>~Running

\* Tasks that ended their upload without a record.
Losers == {c \in Served : task[c] \in {"releasing", "finished"} /\ ~Recorded(c)}

Outcome(p) == IF p \in RecordedParts THEN "recorded"
              ELSE IF \E c \in Losers : chunk[c] = p THEN "lost" ELSE "pending"

\* The pipeline implements the promise of a striped upload: each part settles
\* once, and the verdict is told when all have, truthfully.
Promise == INSTANCE StripedUpload WITH outcome <- [p \in Parts |-> Outcome(p)]

ImplementsPromise == Promise!Spec
------------------------------------------------------------------------------
(* A statement of the documentation that the code does not keep.           *)

\* README.md:63: "every uploaded chunk's" id is "persisted to metadata.json".
\* When uploadFile is over, the file still holds what was uploaded before.
MetadataSurvives == main \in {"returned", "threw"} => disk # "empty"
==============================================================================
