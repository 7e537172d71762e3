# D-Drive: a verification project

D-Drive is a command-line tool that spreads a file over several Google Drive
accounts. `upload` cuts the file into chunks of 256 MB and stores them in
parallel, chunk *i* in account *i mod n*; `data/metadata.json` remembers which
object of which account holds which part; `download` fetches the parts in
parallel and concatenates them; `delete` removes them. Its own code is
`src/src/` (about 1000 lines of C++); the rest of the tree is vendored headers.

This directory holds TLA+ models of that code, TLC configurations that check
them on small instances, and TLAPS proofs of every safety invariant the passing runs check,
for every number of threads, parts, files, accounts, slots and restarts, every size of
file and every length of token.
[PROJECT.json](PROJECT.json) lists the runs, the mutant each property is shown to
catch, the source lines of every definition, the hazards and the theorems.

Source lines are given as `Shell.cpp:137` (for `src/src/Shell.cpp`), `Shell.h`,
`gdrive_handler.cpp`, and `README.md` (for the repository's `src/README.md`).

## 1. Inventory

| Component | Code | State | Operations |
|---|---|---|---|
| ThreadSafeQueue | Shell.h:15-46 | `m_queue`, `m_done`, `m_mutex`, `m_cond` | push, pop, done |
| Semaphore | Shell.h:49-69 | `count_`, `mtx_`, `cv_` | acquire, release |
| Chunk plan, file reader | Shell.cpp:84-123 | stream position, loop variable | totalChunks, reads |
| Upload pipeline | Shell.cpp:66-212, gdrive_handler.cpp:344-398 | `chunkQueue`, `chunks`, `successful_chunks`, futures | producer, one task per chunk, verdict, save |
| Download | Shell.cpp:215-259, gdrive_handler.cpp:400-433 | part files, output stream | one thread per record, concatenation |
| Delete | Shell.cpp:338-380, gdrive_handler.cpp:437-447 | `successful_deletes`, the record list | one task per record, erasure, save |
| Metadata and accounts | Shell.cpp:22-40, 270-290 | `m_metadata`, `m_metadata_changed`, `m_local_accounts`, `metadata.json` | load at start, save, exit |
| Token files | gdrive_handler.cpp:62-100, 134-151 | `m_tokens`, `data/tokens/<email>.json` | load, save, refresh |
| Sign-in | gdrive_handler.cpp:106-132, 239-332, Shell.cpp:297-323 | local server on port 8080, promise, detached thread | authenticateNewAccount, performAuthentication |
| Chunk folder | gdrive_handler.cpp:152-186, Shell.cpp:146-151, 311-316 | folders in Drive, `chunkFolderId` | findFileOrFolder, createFolder |
| id_token decoding | gdrive_handler.cpp:23-61 | none | decode_base64url, splitString |
| Upload progress | Shell.cpp:152-173, 200-207 | bytes sent per chunk, their atomic sum, the bar under `progress_mutex` | progress callback, final mark |
| Command loop | Shell.cpp:42-64, 292-295 | the input line | run, parseCommand |
| Unused or pure output | gdrive_handler.cpp:190-238, Shell.cpp:261-268, 325-336, main.cpp, DDConfig.h | none that a command changes | |

**How they interact.** The Shell runs one command at a time in the main thread.
An upload starts one producer thread and as many `std::async` tasks as there are
chunks. They share `chunkQueue` (a ThreadSafeQueue), `m_upload_slots` (a Semaphore
that lives as long as the Shell), the JSON array `chunks` under `meta_mutex`, an
atomic counter and the bar. Each task builds a GDriveHandler of its own on the token
file of its account, so that several tasks load and rewrite one token file
with no lock. A download starts one thread per record, with no limit, no
queue and no `catch`; the threads share `m_local_accounts` (through `operator[]`,
unlocked) and write one file each. A delete starts one task per record; they share
a counter. Commands communicate through `m_metadata` and `m_local_accounts`; runs of
the program through `metadata.json`, the token files and the temporary directory.

**What is hard.** Wakeups of two hand-written condition-variable classes; a
release that is a statement and not a guard object; records appended in the order
the uploads end; a PUT whose answer is lost; a 200 whose body is cut; an exception
that ends the process in one thread while others write files; files that are
truncated before they are written; sessions that load a file another session is
rewriting; search-then-create from many threads; a file's metadata dropped before its
replacement exists; several sign-ins that want one port while they hold upload slots,
each with a detached thread that must answer the one that waits; a progress sum that
changes while a task shows it; death between any two of these steps.

**What makes each part correct.**

* Queue: no wakeup lost, nobody asleep after `done()`, FIFO without loss or duplication.
* Semaphore: permits conserved, no wakeup lost.
* Chunk plan: the chunks tile the file; none is empty.
* Upload: a slot is never leaked; each chunk is uploaded by one task; every record
  is true of Drive; the verdict is true of the records; the call ends.
* Download: what "completed" means; nothing out of place, nothing stale; it ends.
* Stores: metadata in memory, metadata on disk and Drive agree between commands; a chunk
  lies in the account its record names unless somebody else signed in for that account.
* Token file: no failure costs an account its tokens; a sign-in outlasts the grant it replaces.
* Chunk folder: one folder per account; no chunk is sent to a folder that is not there.
* Sign-in: nobody waits for an answer that cannot come; only the user can keep a slot;
  the port is given back.
* id_token decoding: the file that is overwritten is the one of the user who signed in.
* Progress: the bar never goes back by itself, and is true when nobody is moving it.

## 2. Modules

| Module | Models | Abstract specification it implements |
|---|---|---|
| `ThreadSafeQueue` | the class, one action per time a thread holds the mutex | `BlockingQueue` |
| `Semaphore` | the class, likewise | `CountingSemaphore` |
| `ChunkPlan` | the chunk arithmetic and the choice of the account | |
| `FileReader` | the producer's reads (EXTENDS ChunkPlan) | |
| `UploadProgress` | the callbacks and the bar, while the reader produces (EXTENDS FileReader) | |
| `Authentication` | sign-ins of tasks that hold a slot (EXTENDS Semaphore) | `CountingSemaphore` still |
| `UploadFile` | one `uploadFile` call (EXTENDS ChunkPlan) | `StripedUpload` |
| `DownloadFile`, `MCDownloadFile` | one `downloadFile` call (EXTENDS ChunkPlan) | |
| `Base64Url` | the decoder of id_tokens and the definition of the encoding | |
| `TokenFile`, `MCTokenFile` | the sessions on one token file, over restarts (EXTENDS Base64Url) | |
| `ChunkFolder` | search and creation of one account's folder | |
| `Library`, `MCLibrary` | commands, deaths and restarts over the stores (EXTENDS ChunkPlan) | |
| `UploadFileProofs` | theorems about UploadFile, the refinement included | |
| `AuthenticationProofs` | theorems about Semaphore and, on top of them, Authentication | |
| `UploadProgressProofs` | theorems about ChunkPlan, FileReader and UploadProgress | |
| `TokenFileProofs` | theorems about TokenFile and the decoder of Base64Url | |
| `ThreadSafeQueueProofs`, `DownloadFileProofs`, `ChunkFolderProofs`, `LibraryProofs` | theorems about the module of that name | |

How they compose: `Authentication` runs the sign-ins inside the critical section of
`Semaphore`, action by action, and what is checked of the semaphore is checked there;
a task that does not sign in is a plain client of it. `UploadProgress` runs the
callbacks beside the reader that produces their chunks. `UploadFile` uses the queue and the semaphore by what
`ThreadSafeQueue` and `Semaphore` are shown to implement, a FIFO with a blocking
take and a guarded counter. `Library` uses an upload by what `UploadFile` is shown to
implement, `StripedUpload`: parts settle once each, in any order. `DownloadFile`
starts from any set of records an upload may leave, in any order.

### How state and actions correspond to the code

* **ThreadSafeQueue, Semaphore.** `push`, `done`, `release` hold the mutex from first
  to last statement and are one action each. `pop` and `acquire` give it up only in
  `wait`: `TryPop`/`TryAcquire` evaluate the predicate and either sleep or go
  through. `notify_one` picks any sleeper; sleepers also wake by themselves
  (`SpuriousWakeup`); a woken thread competes with threads that arrive later.
  `popped` is a history variable; the k-th value pushed is k.
* **FileReader.** `position` is the stream's get position, which the code never
  checks against `i * chunkSize`; that they agree is what is checked.
* **Authentication.** `signIn[t]` is where task t stands in `performAuthentication`,
  `server[t]` its detached thread, `promise[t]` its `code_promise`. `LeaveFrame` is the
  end of the call's stack frame: what the server thread still uses is gone from then on
  (`dangling`), and a server that was not stopped becomes the `orphan`. The undefined
  behaviour that follows may end the process at any moment
  (`UndefinedBehaviourKills`) or let the orphan go on, with the port in its hands. This
  is so after a denial, and also for the short time a stopped server needs to end.
  httplib is external: one owner of a port (the sources include `windows.h` and the
  library takes the port exclusively there), and an exception of a handler (a promise
  set twice) ends the request, not the thread. `UserAnswers` is any request to the
  port, from whichever tab, before or after the call waits. `listen` may also fail after
  it had listened (`ServerBreaks`): the waiting call is told, unless the promise is set
  already, when `set_exception` throws in a thread that catches nothing. add-account calls the same
  function with no slot, alone: the case of one task.
* **UploadProgress.** `chunk_uploaded`, `uploaded_bytes` and the bar are the code's.
  The addition is atomic, and one step with the task's own variables; taking
  `progress_mutex`, loading the sum and setting the bar are three steps, so that what
  the mutex is good for is a result and not an assumption. `mark_as_completed` leaves the
  bar's value alone. libcurl may report any count,
  a smaller one when it sends a body anew (`rewound`).
* **Base64Url.** Characters are their place in `base64_chars`. The loop is a fold;
  `val` wraps at `ValBits`. Signed overflow is undefined in C++17; compilers for this
  target wrap, and `find`'s unsigned result makes the sum an unsigned one anyhow.
  `Meaning` is written from the encoding: bits in a row, cut into bytes. Google issues
  tokens in base64url without padding (`PayloadAssumption`).
* **UploadFile.** `main` is the control point of the calling thread, `i` and
  `queueDone` are the producer, `task[c]` and `chunk[c]` the control point and
  `chunk_data` of task c. From `acquire()` to the answer of the PUT a task touches
  nothing another thread of the upload reads, except the token file and the folder,
  which have modules of their own; so that is one step with three outcomes: stored
  (`UploadStored`), failed with the object in Drive, failed without
  (`UploadFailed`). `push_back` under `meta_mutex` and the atomic increment are one
  step, since nobody reads either before the task's future is ready. `Die` is a
  kill or `std::terminate` (`std::async` throwing while the producer is joinable,
  `bad_alloc` in the producer). `disk` follows the truncation and the dump of
  `metadata.json` apart. `drive` is external.
* **DownloadFile.** `temp` is the directory `./temp_chunks_download`, `out` the output
  stream with its failbit `out_good`. `answers`, `linked`, `output` and `records` are
  what the call is given. A disk that runs full while a part is copied is `CopyShort`: the
  stream may or may not notice, and the code never asks it. The search and insertion of `operator[]` are separate
  steps and `RaceOnAccounts` is the undefined behaviour of two of them
  overlapping; `FetchRefused` is an exception no thread catches: the process ends.
* **TokenFile.** Opening the file truncates it (`OpenFile`), closing it writes the
  text (`WriteFile`): two steps, between which others may load it. A refresh is
  asked for before *every* request, expired or not, as `ensureAuthenticated` does.
  Tokens are told apart by their age, "old" when the process started and "new" since, and
  by whether they hold a refresh token ("bare" if not: the sign-in's URL does not ask for
  offline access, and line 326 takes whatever the endpoint returned). `refused` says that
  the endpoint does not take the old grant; it is settled for the life of a process.
  `id_token` and `email` are the payload add-account was given and what it decoded; the
  payload stands for the email inside it.
* **Library.** `memory` and `disk` are `m_metadata` and `metadata.json`; saving is
  `Truncate` then `SaveUpload`/`SaveDelete`; `Die` may leave the file empty or torn. `keys` is
  `m_local_accounts`, `ghosts` the entries `operator[]` inserted with an empty token path.
  `granted` is whose tokens an account's file holds, `held` whose tokens sessions of the
  running command may have in `m_tokens`. A session that cannot refresh signs in as
  whoever the browser offers (`SignIn`), and saves that in the account's file; so may the
  set-up of the folder in add-account. Each request of a session saves its tokens over
  what other sessions saved (`Session`). `Guests` says who may sign in for whom.
  `unsaved`, `cut` and `guests` are history variables that name the exceptions of properties.
* **ChunkFolder.** Searching and creating are two requests; a search that is refused
  looks like one that finds nothing, because `findFileOrFolder` returns `""` for both.

Definitions preceded by "Faulty variant" are not part of any specification. Each is
one plausible mistake in the definition that follows it; substituting it must
make TLC find a property violated. PROJECT.json pairs them.

## 3. Runs

| Run | Instance | Distinct states | What it shows |
|---|---|---|---|
| queue | 3 consumers, 4 values | 843 | `NoLostWakeup`, `FifoOnce`; the class implements `BlockingQueue`, liveness included |
| sign_in | 4 tasks, 2 permits, one sign-in per slot held | 103 608 | `PermitsConserved`, `NoLostWakeup`; `NobodyWaitsInVain`, `PortReturned`, `SlotsComeBack`; implements `CountingSemaphore`, liveness included |
| progress | files of 0 to 10 bytes, chunks of 3 | 341 488 | `ChunksTile`, `BarTruthful`, `BarNeverBack` |
| upload | 5 bytes in chunks of 2, 2 slots, 2 accounts | 25 126 | slots, parts, records, verdict; `Terminates`; implements `StripedUpload`; `UploadInv`, the invariant the proofs use |
| download | 3 parts, any of them recorded in any order, any account unlinked, sound, refusing or broken network, an output that opens, does not, or runs out of disk | 71 706 | `BitPerfect`, `NothingOutOfPlace`, `NothingStale`, `Terminates` |
| token_file | 3 sessions, 2 requests each, 3 starts, sign-ins given a refresh token or not, payloads of up to 7 characters | 1 497 550 | `EmptyOnlyWhileSaving`, `SignInLasts`, `FileOfTheSignedIn` |
| library | 2 files of 2 parts, 2 accounts, 2 objects, 2 starts, one user may sign in for the other | 1 161 438 | `RecordedObjectsExist`, `Durable`, `CountedMeansGone`, `OwnerRecorded` |
| chunk_folder | add-account and 4 tasks | 7 687 | `OneFolder`, `ParentExists` |
| upload_name, sign_in_denied, download_partial, token_race | | | counterexamples to statements of the documentation: section 5 |

Why the bounds are enough for the cases of interest:

* *queue*: with three consumers, one can be woken while another takes its value
  and the third sleeps: the stolen wakeup. Four values let the queue grow
  and drain more than once.
* *sign_in*: two tasks hold a slot and sign in at once, so that one finds the port
  taken; one sleeps, one arrives late and takes the freed permit. A task that gave its
  slot back may come again, as a later one: it meets the servers that were left behind.
  One sign-in per slot held: two in a row differ from two of two tasks only in the slot.
* *progress*: 0, exact multiples, one more and one less, up to four chunks that all
  report at once, in any portions, and anew.
* *upload*: three parts on two slots, so that a task waits for a slot; two
  accounts, so that one gets two parts and the other one; the last chunk is short.
  What depends on the sizes is proved for all of them (section 4).
* *download*: three parts in every order of every subset of them, so that a part is
  missing at the start, in the middle or at the end; two accounts, of which
  none, one or both are linked; leftovers of an earlier download for any part.
* *token_file*: three sessions: one saves, one loads, one is past both. Two
  requests each: a session asks again with what it loaded before another one saved.
  Three starts: a death, a death during the recovery from it, and a third life. The old
  grant may be refused in each of them, while copies of it are in other sessions' hands.
  The real counts are 3 or 4 requests per uploaded chunk and 1 otherwise. Payloads have
  two, three or four characters in the last group, with both url-safe digits. `ValBits`
  is 16 and not 32, which TLC's integers hold: val overflows at the third digit instead
  of the sixth, and is read at the same places (12 bits would do).
* *library*: `MaxObjects = 2` allows an upload of two parts, or parts of two uploads, of
  the same name or not; two starts allow one death or exit between commands and after it.
  File names are interchangeable, so they are a symmetry set (no liveness in that run);
  accounts are numbers because `std::map` orders them. User 2 may sign in for account 1,
  whose token file may also be taken away: account 1 comes back as a ghost, and the tokens
  of both users are saved over each other by sessions of one command. (With three objects
  the run passes too, with 12 387 816 states, but takes minutes.)
* *chunk_folder*: four tasks, all of which may have searched before one creates.

`CHECK_DEADLOCK FALSE` stands where the system may stop: clients of the queue may
stop calling it, the process of `Authentication` may die, an upload whose progress
is shown ends, and so does the last process of `TokenFile`.
The other modules have an action for being over, and deadlock is checked.

### Fairness

* Queue and semaphore: weak fairness of `TryPop`/`TryAcquire` of each thread: who
  competes for the mutex gets it, since every holder releases it at the end of
  its block. Nothing obliges clients to push, close, pop or acquire.
* Sign-in: besides, weak fairness of the steps of each task, which end in `release()`,
  and of each server thread. The user is under no obligation: `SlotsComeBack` says that
  a slot comes back, or its task waits for the user. Nor is the orphan.
* Upload and download: weak fairness of each thread's steps: the operating system
  schedules them, and every request to Google returns. The latter is an
  assumption on the network, since the code sets no timeout. It includes a sign-in:
  a task that waits for a browser (gdrive_handler.cpp:306) waits without limit.
  No fairness is assumed of `Die`, nor that any request succeeds.
* `Terminates` of the upload needs no strong fairness for the semaphore: a task
  calls `acquire` once, so it cannot be overtaken for ever.
* The other modules have safety properties only and assume none.

## 4. What is proved

All for every value of the constants. What is proved of the upload assumes
`ChunkSizeAssumption` (the chunk size is positive) and `UploadAssumption` (at least one
account and one slot, sizes natural numbers, and as many tasks as chunks, which is how
far the loop at Shell.cpp:129 counts); of the queue, `QueueAssumption` (finitely many
consumers); of the semaphore, `SemaphoreAssumption` (finitely many threads, at least one
permit); of the sign-ins, `MaxSignInsAssumption` besides (the bound on sign-ins is a
natural number, any one); of the download, `DownloadAssumption` (records name parts of
the file, at least one account, answers are those listed); `TokenAssumption` and
`FolderAssumption` say as much of their constants. The decoder's theorem assumes that
`val` has at least 12 bits (`ValBitsAssumption`; the code's has 32) and that payloads are
base64url (`PayloadAssumption`). What is proved of the stores assumes
`LibraryAssumption` (finitely many accounts, which are numbers as `std::map` orders
them; anybody may sign in for anybody) and `NamesAssumption`, by which the model's markers (no entry, an empty file, a
torn one) are none of the values they stand beside. What is proved of
the bar assumes the size of the largest file to be a natural number, any one.

| Theorem | Says |
|---|---|
| `UploadInvariant` | `UploadInv` holds in every reachable state |
| `UploadTypeCorrect` | every variable keeps its range; free slots stay in `0..Slots` |
| `SlotsNeverLeak` | slots are conserved on every path; at most `Slots` tasks upload at a time |
| `PartsPoppedOnce` | each part read is in the queue or with one task, in order |
| `EveryTaskServed` | no task ends without a chunk: Shell.cpp:132-135 is never taken |
| `RecordsAlwaysTrue` | every record names an existing object, with its account and part; no part twice |
| `VerdictAlwaysTrue` | "complete" if and only if every part has its record |
| `UploadKeepsPromise` | the pipeline implements `StripedUpload` |
| `PermitsNeverLeak` | the same of permits alone, with sign-ins |
| `SemaphoreCorrect` | permits are conserved and no wakeup is lost, whoever calls |
| `SemaphoreCounts` | the class implements the safety part of `CountingSemaphore` |
| `SlotsSurviveSignIns` | both still hold with sign-ins inside the critical section |
| `SignInInvariant` | what is true of each call and its detached server, at each point |
| `NobodyEverWaitsInVain` | a call without an answer has a server that can give one |
| `SignInTypeCorrect` | every variable of the sign-ins keeps its range |
| `PortAlwaysReturned` | a server outlives its call only after a denied consent or unusable credentials |
| `QueueInvariant`, `QueueTypeCorrect` | `QueueInv` holds in every reachable state, and the types with it |
| `NothingLostOrDoubled` | popped, then queued, is what was pushed, in order |
| `NoWakeupLost` | no value waits for a consumer that nobody will wake |
| `QueueIsChannel` | the class implements the safety part of `BlockingQueue` |
| `DownloadInvariant`, `DownloadTypeCorrect` | `DownInv` holds in every reachable state, and the types with it |
| `PartsInPlace`, `LeftoversStayOut` | no part in another's place, none of an earlier download |
| `CompletedMeansWhole` | with all parts recorded, no answer broken off and room for the output, "completed" means the whole file |
| `TokensSurviveFailures` | only a rewrite, or a death within one, leaves a token file empty |
| `SignInsLast` | once the old grant is refused and somebody signed in, no order of loads and saves brings the old one back |
| `TokenTypes` | every variable keeps its range; no session asks more often than it has requests |
| `DecodesAsMeant` | the decoder's loop computes what the encoding means, at every length, whatever overflows |
| `TheFileIsTheUsers` | the file add-account overwrites is the one of the user who signed in |
| `OneFolderForAll` | one folder, once add-account got through and no search was refused |
| `ParentAlwaysExists`, `FolderTypeCorrect` | no chunk goes to a folder that does not exist |
| `ChunksTileTheFile` | the producer's reads tile the file, for every size and chunk size |
| `CallbacksLeaveTheReader` | the callbacks and the bar never disturb the reader |
| `ProgressInvariant`, `ProgressTypes` | the atomic sum is the sum of what the parts report, and the types with it |
| `TheBarIsTrue` | nobody moving it, the bar shows what was sent |
| `TheBarNeverGoesBack` | the bar goes back only when a body is sent anew |
| `LibraryInvariant`, `LibraryTypes` | `LibraryInv` holds in every reachable state, and the types with it |
| `NoRecordOutlivesItsObject` | records name objects that are there, but for a delete cut short |
| `NothingToLoseAtThePrompt` | at the prompt the disk has what memory has |
| `AllCountedAllGone` | if every chunk was counted as deleted, none is left, but for accounts that somebody else signed in for (the records are dropped either way) |
| `RecordsNameTheOwner` | the object of a record is in the account it names, or with somebody who signed in for that account |

**The argument: upload.** None of the safety properties is inductive alone. That a task is
never sent home empty-handed, for instance, needs that the number of tasks equals
the number of chunks *and* that what is not in the queue is with exactly one task.
`UploadInv` therefore says what is true of a task at each control point (it has a
chunk from its pop on; its object is in Drive once it is recording), what is true of
a record (its task is past recording, and the record agrees with the task's chunk and
object; no two records have one task), how the counter relates to the records, and
what the verdict implies. Preservation has one lemma per action; steps that
move one task and append nothing share `TaskMoveKeepsInv`.

Then counting. `EveryPartOnce` numbers the tasks served by the chunks they hold,
so their number is `i - Len(chunkQueue)`; a task that finds the queue empty after
`done()` would be one more than `Total` tasks (`NeverEmptyHanded`). The records map
injectively to parts, so there are `Total` of them exactly if they cover all parts
(`RecordedPartsCounted`), which turns the comparison at Shell.cpp:200 into
`VerdictTrue`.

The refinement maps each part to "recorded", "lost" or "pending" (`Outcome`).
A part is lost when a task that holds it is past its upload without a record.
`RecordChunk` and `UploadFailed` are the steps that settle a part,
`JoinAndAnnounce` is the one that tells, every other step is a stutter.

**The argument: semaphore and sign-in.** `PermitsConserved` and `NoLostWakeup` are
inductive with the type invariant; each action moves one thread, or one and the
sleeper it wakes, from one control point to another, so the work is in the
cardinalities of the sets `At(...)` before and after (`ThreadSets`,
`MoveCounts`). A positive `count_` then means fewer holders than permits, which is the
guard of the abstract grant. A sign-in never touches `count_` or `pc`, so every step of
`Authentication` is a step of the class or none (`StepsOfTheClass`), and the
semaphore's invariant carries over as it stands. `NobodyWaitsInVain` is not inductive:
`CallsAndServers` adds that only a call that has its code stops its server, and that
none goes on with a server that still listens.

**The argument: queue.** As for the semaphore, with sleepers, woken consumers and
`Len(m_queue)`; order needs only that moving the front from one sequence to the end
of the other leaves their concatenation alone (`TakingKeepsOrder`). The refinement is a
map of control points (`Where`): locking, sleeping and being woken are all "in pop()".

**The argument: download.** `DownInv` says what the output is worth at each point: a good
stream holds one part per iteration, a stream that failed takes nothing more, and it
stays good if every part file is whole. That every part has a file is counting again:
as many records as parts, no two alike, so each part has one (`OrdersCover`).

**The argument: token file and folder.** `TokenInv` has two parts beside the types.
`SavingInv` says that a session that saves has tokens in hand, and that an empty file of a
dead process is remembered as `wrecked`. `IssuedInv` says that
new tokens in the file or in a session were given to a sign-in of this process, and that
once the old grant is refused whatever a session saves was given to a sign-in too: one
that loaded the old grant gets no answer to save it with, and signs in. Without `refused` this does not hold: while the old grant is good, a stale copy
may replace a newer one. `FolderInv` adds that until add-account is through there is no
folder and nobody else has begun, and afterwards nobody is about to create one unless
misled.

**The argument: reader and bar.** `ReaderInv` says where the stream stands after i chunks
(`Covered`) and what each chunk read so far is; that the last one ends at the end of the
file is a fact of division (`ChunkPlanTiles`). `ProgressInv` adds three things: the
atomic sum is the sum of `chunk_uploaded`; at most one task is between taking
`progress_mutex` and giving it up; and (`BarFollows`) the value the holder has loaded
lies between the bar and the sum, unless a body was sent anew, so that setting it never
sets the bar back; while it is the sum itself once nobody is left between adding and
loading, which is what makes the last setting the true one. That a sum changes by what one of
its terms changes (`SumChange`) is the lemma everything rests on.

**The argument: stores.** None of the four properties is inductive. `LibraryInv` has,
besides the types, what each command has in its hands at each control point
(`CommandInv`), how keys, token files and ghosts relate (`LinksInv`), that tokens in a
file or in a session are the account's own or those of a guest of it (`GrantsInv`), that
ids are given out once, so that a record with an id is the only one, and its object is in
the account it names or with a guest of it (`KnownInv`), what may be missing from Drive of what is recorded in memory *or on disk*
(`StoredInv`: the disk is what memory becomes after a restart), where the two may
differ (`SavedInv`), and what the delete's counter has counted (`CountInv`).
`Durable` needs that every command that changes memory ends with a save or in
`unsaved`; `OwnerRecorded` that a session acts for the account or for a guest of it, from
the file it loaded to the request it makes, whatever the other sessions save meanwhile,
and that `KeyOf` yields one of the map's keys, whatever they are: a counting argument on
ranks (`KeyOfIsAKey`).

**The argument: the decoder.** After j digits (`Loop`) there are `6j div 8` bytes, each
the one the encoding means, and `valb + 8` bits are left over. Nothing need be said of
`val` but its last digit: with the digit that comes, that is 12 bits, and 2^12 divides
the width at which `val` wraps, so that the byte read lies within what was not lost.

**Induction over data.** The library's induction theorems take an operator as a
parameter, which the provers cannot instantiate. `SetOfNaturals` and `SetOfSubsets` say
the same of a *set*, from `WFMin`; a fold is a recursive function over sets of
indices, whose existence (`SumTableExists`, `DecodeTableExists`) is one more induction.
The library states that a set of n elements has 2^n subsets, from which the law
of exponents that the decoder needs is derived (`TwiceThePower`).

**Only model-checked.** Liveness (`Terminates` of the upload and of the download,
`SlotsComeBack`) and the liveness of the two refinements (`ImplementsChannel`,
`ImplementsCounting`), which are out of the prover's reach; of the refinements, the
safety part is proved (`QueueIsChannel`, `SemaphoreCounts`). That the upload and the
library's view of it fit together, and `UploadFile`'s view of queue and semaphore, is
argued in section 2 and not proved as a composition.

## 5. Where the documentation or the code's intent does not hold

Four runs are expected to find a violation.

* **upload_name** (`MetadataSurvives`): with a file name that is not UTF-8,
  Shell.cpp:210 truncates `metadata.json`, then `dump` throws: the records of *all*
  files are gone from disk. README.md:63 promises that records are persisted.
* **sign_in_denied** (`StoppedLater`): the comment at gdrive_handler.cpp:282 says of the
  detached server thread that it "will be stopped later". When the user denies the
  consent, `get()` throws before `stop()`: the server keeps port 8080, and works on a
  destroyed stack frame, until the process ends. The browser is told to "try again"
  (line 265), but no later sign-in of this process can listen.
* **download_partial** (`ReconstructionGuaranteed`): after an upload that failed on
  some part, `download` says "completed" and leaves a truncated file. In the run, parts 0
  and 2 of three are recorded; part 0 is copied, part 1 has no file and sets failbit, part
  2 is fetched and never reached.
* **token_race** (`RefreshedUnattended`): a session that loads the token file while
  another one rewrites it fails with a parse error; its chunk counts as failed.

Other disagreements the models show, without a run of their own:

* README.md:63 says that the owning account of every chunk is persisted. A session whose
  refresh is refused or not answered signs in as whoever the browser offers, and so does
  the set-up of add-account (gdrive_handler.cpp:95-98); line 327 saves those tokens in the
  account's file, and nothing compares the user with the account. The chunk then lies with
  that user, and the record names the account. It is the exception of `OwnerRecorded`
  (`guests`).
* "n/n chunks deleted" (Shell.cpp:379) may be said of chunks that are still there, for the
  same reason: looked for with another user's tokens, they are answered 404, which counts
  as deleted (gdrive_handler.cpp:444). It is the exception of `CountedMeansGone`.
* The comment at Shell.cpp:133 says of the early return of a consumer that gets no chunk:
  "This can happen if another thread failed and we are cleaning up." It cannot
  (`NoEmptyHandedTask`, proved as `EveryTaskServed`): there are as many tasks as chunks, a
  task that fails puts nothing back and takes nothing more, and nothing closes the queue
  before the producer is through. There is no clean-up.
* README.md:62 calls the upload "fault-tolerant against transient network errors". One
  lost answer fails the chunk and with it the upload: nothing is retried or resumed
  (`UploadFailed`), as README.md:153 says itself.
* "File uploaded successfully. Metadata saved." (Shell.cpp:203) is printed before lines
  210-211 save it, and before they may fail (`Announce`, `OpenMetadata`).
* A download whose disk runs full says "Download completed" (`CopyShort`, Shell.cpp:252):
  hence the condition on `output` in `BitPerfect`.

And further: the ids of uploaded
chunks reach the disk once, after the last task, where README.md:143 reads as if each
were appended on success, so that a process that dies in between leaves objects nobody
knows (`disk` in `UploadFile`); a stopped server may still be running when the
frame it uses is gone (`dangling` after `Exchange`); the semaphore does
not bound the memory in use, as README.md:60 has it, because the producer never waits
and tasks pop before they acquire; a connection that breaks within a 200 answer is
not noticed (gdrive_handler.cpp:429), hence the condition on `answers` in
`BitPerfect`; a token file that a death left empty stays unusable
(`wrecked` in `EmptyOnlyWhileSaving`); tokens are refreshed before every
request and not "when expired" (README.md:145); a record that names an unlinked
account brings it back with an empty token path (Shell.cpp:238, 357), and later
uploads stripe over that entry too (`ghosts` in `Library`).

## 6. What is not modelled, and why

* A file that changes while the producer reads it (only its size at the start counts),
  and disk-full on token and metadata saves.
* Users, in `TokenFile`: it tells tokens apart by age; whose they are is in `Library`.
* A grant that is revoked while the process runs: `refused` is settled at its start.
* What an orphaned server does on failing itself (it works on a destroyed promise, so that
  the process may die: `UndefinedBehaviourKills`).
* Access tokens: all that were issued are taken to stay good for a command.
* Rates, quotas and the capacity of accounts: they are failures of a request.
* The command loop's endless repetition of an unterminated last line (Shell.cpp:47:
  `getline` is not checked). `Library` accepts commands in every order, repetitions
  included; that the program does not stop is not contradicted by anything it says.
* The data race on `m_local_accounts` beyond what `RaceOnAccounts` lets it do.
* Splitting command lines and id_tokens (`parseCommand`, `splitString`), and the JSON
  around the email: what they reject throws before any state changes.
* Speed and rendering of the bar, listings, help, `main`, calls no command makes, `DDConfig.h`:
  output or dead code. Vendored libraries: what the code relies on (status codes,
  the exception of `dump`, stream parsing that ignores a tail) is modelled at its use.
* Overflow of `int totalChunks`: 2^31 chunks of 256 MB are beyond any file.

## 7. Plan

Done, in this order: queue and semaphore with their abstract specifications;
chunk plan and reader; upload with its promise and the proofs; download; token
file; library; chunk folder; sign-in in composition with the semaphore; progress in
composition with the reader; id_token decoding where add-account uses it.

Nothing of the program's own state changes is left to be modelled but what section 6
names.

Every safety invariant and every action property of the passing runs is now stated by a
theorem. What would add to that:

1. Termination without fairness: that each step of an upload or a download brings a
   measure down, and that a state which is not the last one satisfies some action's guard
   (both are safety and within the prover's reach; together they are most of `Terminates`).
2. The step from `StripedUpload` to the upload steps of `Library` as a refinement.
