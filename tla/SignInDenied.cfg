\* One task is enough: the user denies, the server stays.
SPECIFICATION AuthSpec
CONSTANTS
    Threads = {t1, t2}
    Permits = 1
    MaxSignIns = 1
PROPERTY StoppedLater
CHECK_DEADLOCK FALSE
