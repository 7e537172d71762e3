-------------------------- MODULE CountingSemaphore --------------------------
(***************************************************************************)
(* What a client of Semaphore (src/Shell.h) relies on: at most Permits     *)
(* threads hold a permit, and a free permit does not stay free while       *)
(* threads ask for one.  Which of them gets it is not promised.            *)
(***************************************************************************)
EXTENDS Naturals, FiniteSets

CONSTANTS Threads, Permits

VARIABLES asking, holding

vars == <<asking, holding>>

Init == asking = {} /\ holding = {}

Ask(t) ==
    /\ t \notin asking \cup holding
    /\ asking' = asking \cup {t}
    /\ UNCHANGED holding

Grant(t) ==
    /\ t \in asking
    /\ Cardinality(holding) < Permits
    /\ asking' = asking \ {t}
    /\ holding' = holding \cup {t}

Return(t) ==
    /\ t \in holding
    /\ holding' = holding \ {t}
    /\ UNCHANGED asking

Next == \E t \in Threads : Ask(t) \/ Grant(t) \/ Return(t)

Safety == Init /\ [][Next]_vars

Fairness == WF_vars(\E t \in Threads : Grant(t))

Spec == Safety /\ Fairness
==============================================================================
