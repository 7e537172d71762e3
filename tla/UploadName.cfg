\* The same with a file name that is not UTF-8.
SPECIFICATION Spec
CONSTANTS
    Consumers = {c1, c2, c3}
    ChunkSize = 2
    FileSize = 5
    NumAccounts = 2
    Slots = 2
    NameIsUtf8 = FALSE
    NoChunk = NoChunk
INVARIANT MetadataSurvives
