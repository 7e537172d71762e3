\* Two chunks of one account, uploaded at once.
SPECIFICATION Spec
CONSTANTS
    Sessions = {s1, s2}
    Calls = 3
    FirstFiles = {"old"}
    Endpoint = {"fresh"}
    Given = {}
    Commands = {"upload"}
    Starts = 1
    Payloads <- OnePayload
    ValBits = 16
INVARIANT RefreshedUnattended
\* The last process has ended.
CHECK_DEADLOCK FALSE
