\* Three sessions that ask twice; refreshes and sign-ins fail, sign-ins are given a
\* refresh token or not, the old grant may be refused; two restarts.
SPECIFICATION Spec
CONSTANTS
    Sessions = {s1, s2, s3}
    Calls = 2
    FirstFiles = {"old", "absent"}
    Endpoint = {"fresh", "denied", "garbled"}
    Given = {"bare", "new"}
    Commands = {"upload", "download"}
    Starts = 3
    Payloads <- MCPayloads
    ValBits = 16
INVARIANTS
    TypeOK
    EmptyOnlyWhileSaving
    SignInLasts
    FileOfTheSignedIn
\* The last process has ended.
CHECK_DEADLOCK FALSE
