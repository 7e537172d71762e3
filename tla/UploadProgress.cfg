\* Files of 0 to 10 bytes in chunks of 3: empty, exact multiples, one more, one
\* less; up to four chunks that are sent at the same time.
SPECIFICATION ProgressSpec
CONSTANTS
    ChunkSize = 3
    MaxFileSize = 10
INVARIANTS
    ProgressTypeOK
    ChunksTile
    BarTruthful
PROPERTY BarNeverBack
\* The upload is over.
CHECK_DEADLOCK FALSE
