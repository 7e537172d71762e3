\* Whatever the upload left recorded, in every order, over a network that is sound,
\* refuses, or breaks; any account unlinked; output that cannot be opened or
\* runs out of disk.
SPECIFICATION Spec
CONSTANTS
    ChunkSize = 1
    Total = 3
    RecordedSets <- AnyParts
    NumAccounts = 2
    LinkedSets <- AnyLinked
    Networks <- AnyNetwork
    Outputs = {"open", "unopened", "full"}
INVARIANTS
    TypeOK
    BitPerfect
    NothingOutOfPlace
    NothingStale
PROPERTY Terminates
