\* A file of 5 bytes in chunks of 2: three parts, the last one short, on two slots
\* and two accounts: a task waits for a slot, one account gets two parts.
SPECIFICATION Spec
CONSTANTS
    Consumers = {c1, c2, c3}
    ChunkSize = 2
    FileSize = 5
    NumAccounts = 2
    Slots = 2
    NameIsUtf8 = TRUE
    NoChunk = NoChunk
INVARIANTS
    SlotsAccounted
    EveryPartOnce
    NoEmptyHandedTask
    RecordsTrue
    VerdictTrue
    UploadInv
PROPERTIES
    Terminates
    ImplementsPromise
