\* Three consumers compete for four values: two can sleep while a third steals.
SPECIFICATION Spec
CONSTANTS
    Consumers = {c1, c2, c3}
    Items = 4
INVARIANTS
    TypeOK
    NoLostWakeup
    FifoOnce
PROPERTY ImplementsChannel
\* Clients may stop calling, and after done() everybody may be drained.
CHECK_DEADLOCK FALSE
