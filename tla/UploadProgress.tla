--------------------------- MODULE UploadProgress ----------------------------
(***************************************************************************)
(* The progress callback of Shell::uploadFile, run by the tasks of the     *)
(* chunks that FileReader produces while cpr sends them: what each has     *)
(* sent, the atomic sum of it, and the bar that shows the sum.  The slots  *)
(* only limit how many chunks are sent at a time (UploadFile); here all    *)
(* may be.  Speed and rendering are left out.                              *)
(***************************************************************************)
EXTENDS FileReader, Functions

VARIABLES chunk_uploaded,   \* chunk_uploaded[p]: the last now_ul of part p
          uploaded_bytes,   \* the atomic sum
          callback,         \* callback[p]: where part p's callback stands
          argument,         \* argument[p]: the value set_progress is called with
          bar,              \* the value the bar holds
          over,             \* the tasks were joined, the bar is completed
          rewound           \* history: libcurl began to send a part again

shared == <<uploaded_bytes, bar>>
local == <<chunk_uploaded, callback, argument>>
progressVars == <<vars, shared, local, over, rewound>>

Parts == 0..(TotalChunks(fileSize) - 1)

ProgressTypeOK ==
    /\ TypeOK
    /\ chunk_uploaded \in [Parts -> 0..ChunkSize]
    /\ callback \in [Parts -> {"idle", "locking", "locked", "setting"}]
    /\ argument \in [Parts -> 0..fileSize]
    /\ uploaded_bytes \in 0..fileSize
    /\ bar \in 0..fileSize
    /\ over \in BOOLEAN /\ rewound \in BOOLEAN

ProgressInit ==
    /\ Init
    /\ chunk_uploaded = [p \in Parts |-> 0]
    /\ callback = [p \in Parts |-> "idle"]
    /\ argument = [p \in Parts |-> 0]
    /\ uploaded_bytes = 0
    /\ bar = 0
    /\ over = FALSE
    /\ rewound = FALSE

Goes(p, from, to) ==
    /\ ~over
    /\ callback[p] = from
    /\ callback' = [callback EXCEPT ![p] = to]

\* Faulty variant of CountBytes: all that the part has sent is added each time.
CountAllBytes(p, now_ul) ==
    /\ uploaded_bytes' = uploaded_bytes + now_ul
    /\ chunk_uploaded' = [chunk_uploaded EXCEPT ![p] = now_ul]

\* delta is the task's own; the addition is atomic.
CountBytes(p, now_ul) ==
    /\ uploaded_bytes' = uploaded_bytes + (now_ul - chunk_uploaded[p])
    /\ chunk_uploaded' = [chunk_uploaded EXCEPT ![p] = now_ul]

\* libcurl reports any count up to the chunk's size, less than before when it
\* rewinds the body.
Callback(p) ==
    /\ p < Len(produced)
    /\ Goes(p, "idle", "locking")
    /\ \E now_ul \in 0..produced[p + 1].size :
          /\ CountBytes(p, now_ul)
          /\ rewound' = (rewound \/ now_ul < chunk_uploaded[p])
    /\ UNCHANGED <<bar, argument>>

\* Faulty variant of Lock: progress_mutex is not taken.
LockNothing(p) ==
    /\ Goes(p, "locking", "locked")
    /\ UNCHANGED <<shared, chunk_uploaded, argument, rewound>>

\* lock_guard on progress_mutex, held to the end of the callback.
Lock(p) ==
    /\ \A q \in Parts : callback[q] \notin {"locked", "setting"}
    /\ Goes(p, "locking", "locked")
    /\ UNCHANGED <<shared, chunk_uploaded, argument, rewound>>

\* The argument of set_progress: an atomic load.
LoadSum(p) ==
    /\ Goes(p, "locked", "setting")
    /\ argument' = [argument EXCEPT ![p] = uploaded_bytes]
    /\ UNCHANGED <<shared, chunk_uploaded, rewound>>

SetProgress(p) ==
    /\ Goes(p, "setting", "idle")
    /\ bar' = argument[p]
    /\ argument' = [argument EXCEPT ![p] = 0]
    /\ UNCHANGED <<uploaded_bytes, chunk_uploaded, rewound>>

\* After the join, whatever the verdict, mark_as_completed() if the bar is not:
\* it leaves the value alone.
MarkCompleted ==
    /\ ~over
    /\ i = TotalChunks(fileSize)
    /\ \A p \in Parts : callback[p] = "idle"
    /\ over' = TRUE
    /\ UNCHANGED <<vars, shared, local, rewound>>

ProgressNext ==
    \/ ReadChunk /\ UNCHANGED <<shared, local, over, rewound>>
    \/ /\ \E p \in Parts : Callback(p) \/ Lock(p) \/ LoadSum(p) \/ SetProgress(p)
       /\ UNCHANGED <<vars, over>>
    \/ MarkCompleted

ProgressSpec == ProgressInit /\ [][ProgressNext]_progressVars
------------------------------------------------------------------------------
\* The bar never goes back, however the callbacks of the tasks interleave,
\* unless some chunk was sent anew.
BarNeverBack == [][~rewound' => bar' >= bar]_progressVars

\* The bar is true whenever no callback is under way: it shows the bytes that
\* the parts have sent, no delta lost or counted twice.
BarTruthful ==
    (\A p \in Parts : callback[p] = "idle") =>
        bar = FoldFunction(+, 0, chunk_uploaded)
==============================================================================
