------------------------------ MODULE Semaphore ------------------------------
(***************************************************************************)
(* class Semaphore of src/Shell.h: count_ guarded by mtx_, with the        *)
(* condition variable cv_.  As in ThreadSafeQueue, one action per time a   *)
(* thread holds the mutex; acquire() gives it up only inside cv_.wait.     *)
(***************************************************************************)
EXTENDS Naturals, FiniteSets

CONSTANTS Threads,      \* threads that call acquire() and release()
          Permits       \* the constructor's count

ASSUME SemaphoreAssumption == IsFiniteSet(Threads) /\ Permits \in Nat \ {0}

VARIABLES count_, pc

vars == <<count_, pc>>

\* "outside", "locking", "sleeping", "notified" as in ThreadSafeQueue;
\* "holding": between the return of acquire() and release().
AcquireStates == {"outside", "locking", "sleeping", "notified", "holding"}

At(s) == {t \in Threads : pc[t] = s}

TypeOK ==
    /\ count_ \in 0..Permits
    /\ pc \in [Threads -> AcquireStates]

Init ==
    /\ count_ = Permits
    /\ pc = [t \in Threads |-> "outside"]

CallAcquire(t) ==
    /\ pc[t] = "outside"
    /\ pc' = [pc EXCEPT ![t] = "locking"]
    /\ UNCHANGED count_

\* Faulty variant of TryAcquire: a woken thread decrements without evaluating
\* the predicate again, the permit having gone to a thread that never slept.
TryAcquireWithoutRecheck(t) ==
    \/ /\ pc[t] = "notified" \/ (pc[t] = "locking" /\ count_ > 0)
       /\ count_' = count_ - 1
       /\ pc' = [pc EXCEPT ![t] = "holding"]
    \/ /\ pc[t] = "locking"
       /\ ~(count_ > 0)
       /\ pc' = [pc EXCEPT ![t] = "sleeping"]
       /\ UNCHANGED count_

TryAcquire(t) ==
    /\ pc[t] \in {"locking", "notified"}
    /\ \/ /\ count_ > 0
          /\ count_' = count_ - 1
          /\ pc' = [pc EXCEPT ![t] = "holding"]
       \/ /\ ~(count_ > 0)
          /\ pc' = [pc EXCEPT ![t] = "sleeping"]
          /\ UNCHANGED count_

\* release() runs notify_one in the thread that gives the permit back.
\* Faulty variants of Release: notify_one is forgotten; the permit is meant to
\* be handed over to the sleeper, which then takes another one.
ReleaseSilently(t) ==
    /\ pc[t] = "holding"
    /\ count_' = count_ + 1
    /\ pc' = [pc EXCEPT ![t] = "outside"]

ReleaseByHandOver(t) ==
    /\ pc[t] = "holding"
    /\ \/ \E w \in At("sleeping") :
              /\ pc' = [pc EXCEPT ![t] = "outside", ![w] = "notified"]
              /\ UNCHANGED count_
       \/ /\ At("sleeping") = {}
          /\ pc' = [pc EXCEPT ![t] = "outside"]
          /\ count_' = count_ + 1

Release(t) ==
    /\ pc[t] = "holding"
    /\ count_' = count_ + 1
    /\ \/ \E w \in At("sleeping") :
              pc' = [pc EXCEPT ![t] = "outside", ![w] = "notified"]
       \/ /\ At("sleeping") = {}
          /\ pc' = [pc EXCEPT ![t] = "outside"]

SpuriousWakeup(t) ==
    /\ pc[t] = "sleeping"
    /\ pc' = [pc EXCEPT ![t] = "notified"]
    /\ UNCHANGED count_

Next ==
    \E t \in Threads :
        CallAcquire(t) \/ TryAcquire(t) \/ Release(t) \/ SpuriousWakeup(t)

\* As for the queue: whoever competes for mtx_ gets it.  Holders are not
\* obliged to release.
Fairness == \A t \in Threads : WF_vars(TryAcquire(t))

Spec == Init /\ [][Next]_vars /\ Fairness
------------------------------------------------------------------------------
\* Permits are conserved: none is leaked, none is invented, whatever the order
\* of acquire, release and wakeups.
PermitsConserved == count_ + Cardinality(At("holding")) = Permits

\* No wakeup is lost: while a thread sleeps, there are at least as many woken
\* threads on their way as free permits.
NoLostWakeup ==
    At("sleeping") # {} => count_ <= Cardinality(At("notified"))

\* The counting semaphore uploadFile programs against.
Counting == INSTANCE CountingSemaphore WITH
    asking <- At("locking") \cup At("sleeping") \cup At("notified"),
    holding <- At("holding")
==============================================================================
