\* Records of an upload that failed on the second of three parts; nothing else goes
\* wrong.
SPECIFICATION Spec
CONSTANTS
    ChunkSize = 1
    Total = 3
    RecordedSets <- WithAGap
    NumAccounts = 2
    LinkedSets <- AllLinked
    Networks <- SoundNetwork
    Outputs = {"open"}
INVARIANT ReconstructionGuaranteed
