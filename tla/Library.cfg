\* Two files of two parts over two accounts; two starts; up to two objects.  The
\* account that may lose its token file may also be signed in for by the other
\* one's user, whenever a session of it asks for a sign-in.
SPECIFICATION Spec
CONSTANTS
    ChunkSize = 1
    Files = {f, g}
    Accounts = {1, 2}
    PartCount = 2
    Unlinkable = {1}
    Guests <- OneGuest
    MaxObjects = 2
    Starts = 2
    NoEntry = NoEntry
    Empty = Empty
    Torn = Torn
SYMMETRY FileSymmetry
INVARIANTS
    TypeOK
    RecordedObjectsExist
    Durable
    CountedMeansGone
    OwnerRecorded
