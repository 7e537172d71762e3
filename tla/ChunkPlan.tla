------------------------------ MODULE ChunkPlan ------------------------------
(***************************************************************************)
(* How Shell::uploadFile cuts a file into chunks and assigns them to       *)
(* accounts.  Sizes are int64_t in the code; totalChunks is narrowed to    *)
(* int, which holds every file below 2^31 chunks of 256 MB.                *)
(***************************************************************************)
EXTENDS Integers

CONSTANT ChunkSize      \* chunkSize: 256 MB in the code

ASSUME ChunkSizeAssumption == ChunkSize \in Nat \ {0}

\* Faulty variant of TotalChunks: adds one also when the division is even.
TotalChunksPlusOne(fileSize) == fileSize \div ChunkSize + 1

TotalChunks(fileSize) == (fileSize + ChunkSize - 1) \div ChunkSize

\* std::min(chunkSize, fileSize - i * chunkSize)
CurrentChunkSize(fileSize, i) ==
    LET rest == fileSize - i * ChunkSize
    IN  IF rest < ChunkSize THEN rest ELSE ChunkSize

\* Position, in the ordered map m_local_accounts, of the account a chunk
\* goes to: std::next(begin, part_number % size).
AccountOf(part, accounts) == part % accounts
==============================================================================
