\* Four tasks on two slots: two sign in at a time, two wait for a slot.
SPECIFICATION AuthSpec
CONSTANTS
    Threads = {t1, t2, t3, t4}
    Permits = 2
    MaxSignIns = 1
INVARIANTS
    AuthTypeOK
    PermitsConserved
    NoLostWakeup
    NobodyWaitsInVain
    PortReturned
PROPERTIES
    SlotsComeBack
    ImplementsCounting
\* The process may die.
CHECK_DEADLOCK FALSE
