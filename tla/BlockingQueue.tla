---------------------------- MODULE BlockingQueue ----------------------------
(***************************************************************************)
(* What a client of ThreadSafeQueue<T> (src/Shell.h) relies on: a FIFO     *)
(* channel that can be closed.  A consumer inside pop() receives the       *)
(* oldest value, or learns that the queue is closed and drained; nobody    *)
(* stays inside pop() while a value or the end of the stream is there for  *)
(* the taking.  Locks, condition variables and wakeups do not appear here. *)
(***************************************************************************)
EXTENDS Naturals, Sequences

CONSTANTS Consumers,    \* threads that call pop()
          Items         \* how many values are pushed before done()

VARIABLES queue,        \* values pushed and not yet taken, oldest first
          closed,       \* done() was called
          sent,         \* number of values pushed so far; the k-th value is k
          taken,        \* values taken so far, in the order they were taken
          where         \* where[c]: "out", "in" pop(), or told it is the "end"

vars == <<queue, closed, sent, taken, where>>

Init ==
    /\ queue = <<>>
    /\ closed = FALSE
    /\ sent = 0
    /\ taken = <<>>
    /\ where = [c \in Consumers |-> "out"]

Send ==
    /\ ~closed
    /\ sent < Items
    /\ sent' = sent + 1
    /\ queue' = Append(queue, sent + 1)
    /\ UNCHANGED <<closed, taken, where>>

Close ==
    /\ ~closed
    /\ sent = Items
    /\ closed' = TRUE
    /\ UNCHANGED <<queue, sent, taken, where>>

Enter(c) ==
    /\ where[c] = "out"
    /\ where' = [where EXCEPT ![c] = "in"]
    /\ UNCHANGED <<queue, closed, sent, taken>>

Take(c) ==
    /\ where[c] = "in"
    /\ queue # <<>>
    /\ queue' = Tail(queue)
    /\ taken' = Append(taken, Head(queue))
    /\ where' = [where EXCEPT ![c] = "out"]
    /\ UNCHANGED <<closed, sent>>

End(c) ==
    /\ where[c] = "in"
    /\ queue = <<>>
    /\ closed
    /\ where' = [where EXCEPT ![c] = "end"]
    /\ UNCHANGED <<queue, closed, sent, taken>>

Next == Send \/ Close \/ \E c \in Consumers : Enter(c) \/ Take(c) \/ End(c)

(* A value is not left behind while somebody asks for one, and everybody   *)
(* who asks after the end is told.                                         *)
Fairness ==
    /\ WF_vars(\E c \in Consumers : Take(c))
    /\ \A c \in Consumers : WF_vars(End(c))

Safety == Init /\ [][Next]_vars

Spec == Safety /\ Fairness
==============================================================================
