----------------------------- MODULE FileReader ------------------------------
(***************************************************************************)
(* The producer thread of Shell::uploadFile as a reader of the file: the   *)
(* stream is rewound to 0 and each iteration reads the next chunk at the   *)
(* stream's position, whatever i says.  Nothing in the code checks that    *)
(* position against i * chunkSize: that they agree is the invariant.       *)
(* What happens to the chunks afterwards is module UploadFile.             *)
(***************************************************************************)
EXTENDS ChunkPlan, Sequences

CONSTANT MaxFileSize    \* bound on the files explored

ASSUME MaxFileSizeAssumption == MaxFileSize \in Nat

VARIABLES fileSize,     \* what tellg() returned; fixed afterwards
          position,     \* the stream's get position
          i,            \* the loop variable
          produced      \* chunks pushed, in order

vars == <<fileSize, position, i, produced>>

Chunks == [part : Nat, first : Nat, size : 1..ChunkSize]

TypeOK ==
    /\ fileSize \in 0..MaxFileSize
    /\ position \in 0..fileSize
    /\ i \in 0..TotalChunks(fileSize)
    /\ produced \in Seq(Chunks)

Init ==
    /\ fileSize \in 0..MaxFileSize
    /\ position = 0
    /\ i = 0
    /\ produced = <<>>

\* One iteration: the buffer has currentChunkSize bytes, read() fills it and
\* moves the position, push() hands it over with its number.
ReadChunk ==
    LET size == CurrentChunkSize(fileSize, i)
    IN  /\ i < TotalChunks(fileSize)
        /\ produced' = Append(produced,
                              [part |-> i, first |-> position, size |-> size])
        /\ position' = position + size
        /\ i' = i + 1
        /\ UNCHANGED fileSize

Next == ReadChunk

Spec == Init /\ [][Next]_vars
------------------------------------------------------------------------------
\* The chunks tile what was read: numbered from 0 in order, none of them empty
\* (an empty part would stop the reassembly, see DownloadFile), each starting
\* where its number says, and all but the file's last one full.  When the loop
\* ends the whole file was read, to the last byte and not beyond.
ChunksTile ==
    /\ \A k \in 1..Len(produced) :
           /\ produced[k].part = k - 1
           /\ produced[k].first = (k - 1) * ChunkSize
           /\ produced[k].size \in 1..ChunkSize
           /\ k < TotalChunks(fileSize) => produced[k].size = ChunkSize
    /\ i = TotalChunks(fileSize) => position = fileSize
==============================================================================
