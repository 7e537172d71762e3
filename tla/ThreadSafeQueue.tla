--------------------------- MODULE ThreadSafeQueue ---------------------------
(***************************************************************************)
(* ThreadSafeQueue<T> of src/Shell.h: a std::queue guarded by m_mutex,     *)
(* with one condition variable m_cond and a flag m_done.                   *)
(*                                                                         *)
(* push() and done() hold m_mutex from their first to their last           *)
(* statement, so each is one action.  pop() releases the mutex only while  *)
(* it sleeps in m_cond.wait, so it is one action per time it holds the     *)
(* mutex: TryPop(c) evaluates the wait predicate and either goes to sleep, *)
(* takes the front, or returns false.  notify_one picks any sleeper; a     *)
(* sleeper may also wake spuriously.  A woken thread competes for the      *)
(* mutex with threads that have just called pop().                         *)
(***************************************************************************)
EXTENDS Naturals, Sequences, FiniteSets

CONSTANTS Consumers,    \* threads that call pop()
          Items         \* how many values the producer pushes before done()

ASSUME QueueAssumption == IsFiniteSet(Consumers) /\ Items \in Nat

VARIABLES m_queue,      \* std::queue<T>; the k-th value pushed is k
          m_done,       \* the flag done() sets
          pushed,       \* number of push() calls so far
          popped,       \* history: values moved out by pop(), in order
          pc            \* pc[c]: where consumer c is

vars == <<m_queue, m_done, pushed, popped, pc>>

\* "outside": not in pop(); "locking": called pop(), competes for m_mutex;
\* "sleeping": in m_cond.wait; "notified": woken, competes for m_mutex;
\* "drained": its pop() returned false.
PopStates == {"outside", "locking", "sleeping", "notified", "drained"}

At(s) == {c \in Consumers : pc[c] = s}

TypeOK ==
    /\ m_queue \in Seq(1..Items)
    /\ m_done \in BOOLEAN
    /\ pushed \in 0..Items
    /\ popped \in Seq(1..Items)
    /\ pc \in [Consumers -> PopStates]

Init ==
    /\ m_queue = <<>>
    /\ m_done = FALSE
    /\ pushed = 0
    /\ popped = <<>>
    /\ pc = [c \in Consumers |-> "outside"]

\* m_cond.notify_one(): one sleeper, if there is any, leaves the wait set.
NotifyOne ==
    \/ \E c \in At("sleeping") : pc' = [pc EXCEPT ![c] = "notified"]
    \/ At("sleeping") = {} /\ UNCHANGED pc

\* m_cond.notify_all()
NotifyAll ==
    pc' = [c \in Consumers |-> IF pc[c] = "sleeping" THEN "notified" ELSE pc[c]]

\* Faulty variant of Push: forgets to notify.
PushSilently ==
    /\ ~m_done
    /\ pushed < Items
    /\ m_queue' = Append(m_queue, pushed + 1)
    /\ pushed' = pushed + 1
    /\ UNCHANGED <<m_done, popped, pc>>

Push ==
    /\ ~m_done
    /\ pushed < Items
    /\ m_queue' = Append(m_queue, pushed + 1)
    /\ pushed' = pushed + 1
    /\ NotifyOne
    /\ UNCHANGED <<m_done, popped>>

\* Faulty variant of Done: notify_one where notify_all is needed.
DoneNotifyingOne ==
    /\ ~m_done
    /\ pushed = Items
    /\ m_done' = TRUE
    /\ NotifyOne
    /\ UNCHANGED <<m_queue, pushed, popped>>

Done ==
    /\ ~m_done
    /\ pushed = Items
    /\ m_done' = TRUE
    /\ NotifyAll
    /\ UNCHANGED <<m_queue, pushed, popped>>

CallPop(c) ==
    /\ pc[c] = "outside"
    /\ pc' = [pc EXCEPT ![c] = "locking"]
    /\ UNCHANGED <<m_queue, m_done, pushed, popped>>

\* The predicate of m_cond.wait.
MayPop == m_queue # <<>> \/ m_done

\* Faulty variants of TryPop: no test for emptiness after the wait, so that the
\* front of an empty queue is taken (garbage, 0 here); a woken thread does not
\* evaluate the predicate again (wait without a predicate); the front is moved
\* out but not removed.
TryPopUnchecked(c) ==
    /\ pc[c] \in {"locking", "notified"} /\ MayPop
    /\ popped' = Append(popped, IF m_queue = <<>> THEN 0 ELSE Head(m_queue))
    /\ m_queue' = IF m_queue = <<>> THEN <<>> ELSE Tail(m_queue)
    /\ pc' = [pc EXCEPT ![c] = "outside"]
    /\ UNCHANGED <<m_done, pushed>>

TryPopWithoutRecheck(c) ==
    /\ pc[c] \in {"locking", "notified"}
    /\ \/ /\ ~MayPop /\ pc[c] = "locking"
          /\ pc' = [pc EXCEPT ![c] = "sleeping"]
          /\ UNCHANGED <<m_queue, popped>>
       \/ /\ MayPop \/ pc[c] = "notified"
          /\ m_queue = <<>>
          /\ pc' = [pc EXCEPT ![c] = "drained"]
          /\ UNCHANGED <<m_queue, popped>>
       \/ /\ m_queue # <<>>
          /\ popped' = Append(popped, Head(m_queue))
          /\ m_queue' = Tail(m_queue)
          /\ pc' = [pc EXCEPT ![c] = "outside"]
    /\ UNCHANGED <<m_done, pushed>>

TryPopKeepingFront(c) ==
    /\ pc[c] \in {"locking", "notified"}
    /\ MayPop
    /\ m_queue # <<>>
    /\ Len(popped) < Items
    /\ popped' = Append(popped, Head(m_queue))
    /\ pc' = [pc EXCEPT ![c] = "outside"]
    /\ UNCHANGED <<m_queue, m_done, pushed>>

TryPop(c) ==
    /\ pc[c] \in {"locking", "notified"}
    /\ \/ /\ ~MayPop
          /\ pc' = [pc EXCEPT ![c] = "sleeping"]
          /\ UNCHANGED <<m_queue, popped>>
       \/ /\ MayPop
          /\ m_queue = <<>>
          /\ pc' = [pc EXCEPT ![c] = "drained"]
          /\ UNCHANGED <<m_queue, popped>>
       \/ /\ MayPop
          /\ m_queue # <<>>
          /\ popped' = Append(popped, Head(m_queue))
          /\ m_queue' = Tail(m_queue)
          /\ pc' = [pc EXCEPT ![c] = "outside"]
    /\ UNCHANGED <<m_done, pushed>>

SpuriousWakeup(c) ==
    /\ pc[c] = "sleeping"
    /\ pc' = [pc EXCEPT ![c] = "notified"]
    /\ UNCHANGED <<m_queue, m_done, pushed, popped>>

Next ==
    \/ Push
    \/ Done
    \/ \E c \in Consumers : CallPop(c) \/ TryPop(c) \/ SpuriousWakeup(c)

\* A thread that competes for m_mutex gets it: every holder releases it at the
\* end of its block.  Nobody is obliged to call push(), done() or pop().
Fairness == \A c \in Consumers : WF_vars(TryPop(c))

Spec == Init /\ [][Next]_vars /\ Fairness
------------------------------------------------------------------------------
\* No wakeup is lost (the notify_one in push and the predicate of the wait):
\* while a consumer sleeps, there are at least as many consumers already woken
\* as values in the queue, so no value waits for a thread nobody will wake.
NoLostWakeup ==
    At("sleeping") # {} => Len(m_queue) <= Cardinality(At("notified"))

\* FIFO, and no value is lost or delivered twice, whoever pops: what was
\* popped followed by what is queued is exactly what was pushed.
FifoOnce == popped \o m_queue = [k \in 1..pushed |-> k]

\* The queue implements the closable FIFO channel its clients program against.
Channel == INSTANCE BlockingQueue WITH
    queue <- m_queue, closed <- m_done, sent <- pushed, taken <- popped,
    where <- [c \in Consumers |->
                CASE pc[c] = "outside" -> "out"
                  [] pc[c] = "drained" -> "end"
                  [] OTHER -> "in"]

ImplementsChannel == Channel!Spec
==============================================================================
