------------------------ MODULE ThreadSafeQueueProofs ------------------------
(***************************************************************************)
(* Proofs about ThreadSafeQueue, for every set of consumers and number of  *)
(* values: no wakeup is lost, nothing is lost, doubled or overtaken, and   *)
(* the class implements the safety part of BlockingQueue.                  *)
(***************************************************************************)
EXTENDS ThreadSafeQueue, FiniteSetTheorems, SequenceTheorems, TLAPS

\* The invariant.  Its parts are inductive together: the range of m_queue is
\* needed to know that the front is a value, NoLostWakeup counts woken threads.
QueueInv == TypeOK /\ FifoOnce /\ NoLostWakeup

LEMMA ConsumerSets ==
  ASSUME NEW S, S \subseteq Consumers
  PROVE  IsFiniteSet(S) /\ Cardinality(S) \in Nat
  BY QueueAssumption, FS_Subset, FS_CardinalityType

\* A consumer that goes to a control point other than "notified" is at most one
\* less among the woken ones.
LEMMA WokenAfterMove ==
  ASSUME TypeOK, NEW c \in Consumers, NEW to, to # "notified",
         pc' = [pc EXCEPT ![c] = to]
  PROVE  /\ Cardinality(At("notified")') >= Cardinality(At("notified")) - 1
         /\ pc[c] # "notified" =>
                Cardinality(At("notified")') = Cardinality(At("notified"))
<1>1. At("notified")' = At("notified") \ {c}
  BY DEF At, TypeOK
<1>2. IsFiniteSet(At("notified")) /\ Cardinality(At("notified")) \in Nat
  BY ConsumerSets DEF At
<1>3. c \in At("notified") <=> pc[c] = "notified"
  BY DEF At
<1>4. CASE pc[c] = "notified"
  BY <1>1, <1>2, <1>3, <1>4, FS_RemoveElement
<1>5. CASE pc[c] # "notified"
  <2>1. At("notified")' = At("notified")
    BY <1>1, <1>3, <1>5
  <2>2. QED
    BY <1>2, <1>5, <2>1
<1>6. QED
  BY <1>4, <1>5

\* A sleeper that wakes is one more among the woken ones.
LEMMA WokenAfterWakeup ==
  ASSUME TypeOK, NEW c \in Consumers, pc[c] = "sleeping",
         pc' = [pc EXCEPT ![c] = "notified"]
  PROVE  Cardinality(At("notified")') = Cardinality(At("notified")) + 1
<1>1. At("notified")' = At("notified") \cup {c} /\ c \notin At("notified")
  BY DEF At, TypeOK
<1>2. IsFiniteSet(At("notified"))
  BY ConsumerSets DEF At
<1>3. QED
  BY <1>1, <1>2, FS_AddElement

\* Moving the front from the queue to the end of what was popped leaves their
\* concatenation alone.
LEMMA TakingKeepsOrder ==
  ASSUME NEW T, NEW s \in Seq(T), NEW q \in Seq(T), q # <<>>
  PROVE  /\ Append(s, Head(q)) \o Tail(q) = s \o q
         /\ Append(s, Head(q)) \in Seq(T) /\ Tail(q) \in Seq(T)
         /\ Len(q) \in Nat \ {0} /\ Len(Tail(q)) = Len(q) - 1
<1>1. Head(q) \in T /\ Tail(q) \in Seq(T) /\ Len(q) \in Nat \ {0}
      /\ Len(Tail(q)) = Len(q) - 1
  BY EmptySeq, HeadTailProperties
<1>2. q = <<Head(q)>> \o Tail(q)
  BY <1>1, HeadTailProperties
<1>3. Append(s, Head(q)) = s \o <<Head(q)>> /\ Append(s, Head(q)) \in Seq(T)
  BY <1>1
<1>4. QED
  BY <1>1, <1>2, <1>3, ConcatAssociative

LEMMA QueueInvInit == Init => QueueInv
<1> SUFFICES ASSUME Init PROVE QueueInv
  OBVIOUS
<1>1. TypeOK
  <2>1. <<>> \in Seq(1..Items) /\ 0 \in 0..Items
    BY QueueAssumption, EmptySeq
  <2>2. pc \in [Consumers -> PopStates]
    BY DEF Init, PopStates
  <2>3. QED
    BY <2>1, <2>2 DEF Init, TypeOK
<1>2. FifoOnce
  BY DEF Init, FifoOnce
<1>3. At("sleeping") = {}
  BY DEF Init, At
<1>4. QED
  BY <1>1, <1>2, <1>3 DEF QueueInv, NoLostWakeup

LEMMA PushKeepsInv == QueueInv /\ Push => QueueInv'
<1> SUFFICES ASSUME QueueInv, Push PROVE QueueInv'
  OBVIOUS
<1> USE DEF QueueInv
<1>1. pushed \in Nat /\ pushed + 1 \in 1..Items
  BY QueueAssumption DEF Push, TypeOK
<1>2. m_queue' \in Seq(1..Items) /\ Len(m_queue') = Len(m_queue) + 1
  BY <1>1 DEF Push, TypeOK
<1>3. pc' \in [Consumers -> PopStates]
  BY DEF Push, NotifyOne, TypeOK, PopStates, At
<1>4. TypeOK'
  BY <1>1, <1>2, <1>3, QueueAssumption DEF Push, TypeOK
<1>5. FifoOnce'
  <2>1. popped \o m_queue' = Append(popped \o m_queue, pushed + 1)
    BY <1>1 DEF Push, TypeOK
  <2>2. Append([k \in 1..pushed |-> k], pushed + 1) = [k \in 1..(pushed + 1) |-> k]
    BY <1>1
  <2>3. QED
    BY <2>1, <2>2 DEF Push, FifoOnce
<1>6. CASE At("sleeping") = {} /\ UNCHANGED pc
  BY <1>4, <1>5, <1>6 DEF NoLostWakeup, At
<1>7. ASSUME NEW c \in At("sleeping"), pc' = [pc EXCEPT ![c] = "notified"]
      PROVE  NoLostWakeup'
  <2>1. Cardinality(At("notified")') = Cardinality(At("notified")) + 1
    BY <1>7, WokenAfterWakeup DEF At
  <2>2. Cardinality(At("notified")) \in Nat /\ Len(m_queue) \in Nat
    BY ConsumerSets DEF At, TypeOK
  <2>3. QED
    BY <1>2, <2>1, <2>2 DEF NoLostWakeup
<1>8. QED
  BY <1>4, <1>5, <1>6, <1>7 DEF Push, NotifyOne

LEMMA DoneKeepsInv == QueueInv /\ Done => QueueInv'
<1> SUFFICES ASSUME QueueInv, Done PROVE QueueInv'
  OBVIOUS
<1> USE DEF QueueInv, Done, NotifyAll
<1>1. TypeOK'
  BY DEF TypeOK, PopStates
<1>2. At("sleeping")' = {}
  BY DEF At, TypeOK
<1>3. QED
  BY <1>1, <1>2 DEF FifoOnce, NoLostWakeup

LEMMA CallPopKeepsInv ==
  ASSUME QueueInv, NEW c \in Consumers, CallPop(c)
  PROVE  QueueInv'
<1> USE DEF QueueInv, CallPop
<1>1. TypeOK'
  BY DEF TypeOK, PopStates
<1>2. Cardinality(At("notified")') = Cardinality(At("notified"))
  BY WokenAfterMove
<1>3. At("sleeping")' = At("sleeping")
  BY DEF At, TypeOK
<1>4. QED
  BY <1>1, <1>2, <1>3 DEF FifoOnce, NoLostWakeup

LEMMA SpuriousWakeupKeepsInv ==
  ASSUME QueueInv, NEW c \in Consumers, SpuriousWakeup(c)
  PROVE  QueueInv'
<1> USE DEF QueueInv, SpuriousWakeup
<1>1. TypeOK'
  BY DEF TypeOK, PopStates
<1>2. Cardinality(At("notified")') = Cardinality(At("notified")) + 1
  BY WokenAfterWakeup
<1>3. c \in At("sleeping")
  BY DEF At
<1>4. Cardinality(At("notified")) \in Nat /\ Len(m_queue) \in Nat
  BY ConsumerSets DEF At, TypeOK
<1>5. QED
  BY <1>1, <1>2, <1>3, <1>4 DEF FifoOnce, NoLostWakeup

LEMMA TryPopKeepsInv ==
  ASSUME QueueInv, NEW c \in Consumers, TryPop(c)
  PROVE  QueueInv'
<1> USE DEF QueueInv
<1>0. pc[c] \in {"locking", "notified"} /\ m_done' = m_done /\ pushed' = pushed
  BY DEF TryPop
<1>1. Cardinality(At("notified")) \in Nat /\ Cardinality(At("notified")') \in Nat
  BY ConsumerSets DEF At
<1>2. ASSUME NEW to \in {"sleeping", "drained"}, m_queue = <<>>,
             pc' = [pc EXCEPT ![c] = to], UNCHANGED <<m_queue, popped>>
      PROVE  QueueInv'
  <2>1. TypeOK'
    BY <1>0, <1>2 DEF TypeOK, PopStates
  <2>2. Len(m_queue') = 0
    BY <1>2
  <2>3. QED
    BY <1>0, <1>1, <1>2, <2>1, <2>2 DEF FifoOnce, NoLostWakeup
<1>3. ASSUME m_queue # <<>>, popped' = Append(popped, Head(m_queue)),
             m_queue' = Tail(m_queue), pc' = [pc EXCEPT ![c] = "outside"]
      PROVE  QueueInv'
  <2>1. /\ popped' \o m_queue' = popped \o m_queue
        /\ popped' \in Seq(1..Items) /\ m_queue' \in Seq(1..Items)
        /\ Len(m_queue) \in Nat \ {0} /\ Len(m_queue') = Len(m_queue) - 1
    BY <1>3, TakingKeepsOrder DEF TypeOK
  <2>2. TypeOK'
    BY <1>0, <1>3, <2>1 DEF TypeOK, PopStates
  <2>3. At("sleeping")' = At("sleeping")
    BY <1>0, <1>3 DEF At, TypeOK
  <2>4. Cardinality(At("notified")') >= Cardinality(At("notified")) - 1
    BY <1>3, WokenAfterMove
  <2>5. QED
    BY <1>0, <1>1, <2>1, <2>2, <2>3, <2>4 DEF FifoOnce, NoLostWakeup
<1>4. QED
  BY <1>2, <1>3 DEF TryPop, MayPop

\* Every step of the class keeps the invariant.
LEMMA QueueInvStep == QueueInv /\ [Next]_vars => QueueInv'
<1> SUFFICES ASSUME QueueInv, [Next]_vars PROVE QueueInv'
  OBVIOUS
<1>1. CASE UNCHANGED vars
  BY <1>1 DEF vars, QueueInv, TypeOK, FifoOnce, NoLostWakeup, At
<1>2. CASE Next
  BY <1>2, PushKeepsInv, DoneKeepsInv, CallPopKeepsInv, TryPopKeepsInv,
     SpuriousWakeupKeepsInv DEF Next
<1>3. QED
  BY <1>1, <1>2

\* QueueInv holds in every reachable state, whoever pushes and pops (Shell.h:15-46).
THEOREM QueueInvariant == Spec => []QueueInv
<1>1. QED
  BY QueueInvInit, QueueInvStep, PTL DEF Spec

\* Every value is with a consumer or in the queue, in the order of the pushes,
\* whatever consumers are woken, overtake each other or wake by themselves.
THEOREM NothingLostOrDoubled == Spec => []FifoOnce
<1>1. QueueInv => FifoOnce
  BY DEF QueueInv
<1>2. QED
  BY <1>1, QueueInvariant, PTL

\* No value ever waits for a consumer that nobody will wake: notify_one per push
\* is enough, because a woken consumer evaluates the predicate again.
THEOREM NoWakeupLost == Spec => []NoLostWakeup
<1>1. QueueInv => NoLostWakeup
  BY DEF QueueInv
<1>2. QED
  BY <1>1, QueueInvariant, PTL

\* Where the abstract channel sees a consumer.
Where == [c \in Consumers |-> CASE pc[c] = "outside" -> "out"
                                [] pc[c] = "drained" -> "end"
                                [] OTHER -> "in"]

\* A consumer inside pop() that stays inside is not seen to move.
LEMMA WhereAfterMove ==
  ASSUME TypeOK, NEW c \in Consumers, NEW to, pc' = [pc EXCEPT ![c] = to]
  PROVE  Where' = [Where EXCEPT ![c] = IF to = "outside" THEN "out"
                                       ELSE IF to = "drained" THEN "end" ELSE "in"]
<1>1. \A d \in Consumers : pc'[d] = IF d = c THEN to ELSE pc[d]
  BY DEF TypeOK
<1>2. QED
  BY <1>1 DEF Where

\* Each step of the class is a step of the channel, or none: only the steps that
\* push, close, call pop() or return from it are seen.
LEMMA StepsAreChannel ==
  ASSUME TypeOK, Next
  PROVE  [Channel!Next]_(Channel!vars)
<1>1. ASSUME Push PROVE Channel!Send
  <2>1. Where' = Where
    <3>1. CASE UNCHANGED pc
      BY <3>1 DEF Where
    <3>2. ASSUME NEW c \in At("sleeping"), pc' = [pc EXCEPT ![c] = "notified"]
          PROVE  Where' = Where
      BY <3>2 DEF Where, At, TypeOK
    <3>3. QED
      BY <1>1, <3>1, <3>2 DEF Push, NotifyOne
  <2>2. QED
    BY <1>1, <2>1 DEF Push, Channel!Send, Where
<1>2. ASSUME Done PROVE Channel!Close
  <2>1. Where' = Where
    BY <1>2 DEF Done, NotifyAll, Where, TypeOK
  <2>2. QED
    BY <1>2, <2>1 DEF Done, Channel!Close, Where
<1>3. ASSUME NEW c \in Consumers, CallPop(c) PROVE Channel!Enter(c)
  <2>1. Where[c] = "out"
    <3>1. pc[c] = "outside"
      BY <1>3 DEF CallPop
    <3>2. QED
      BY <3>1 DEF Where
  <2>2. Where' = [Where EXCEPT ![c] = "in"]
    <3>1. pc' = [pc EXCEPT ![c] = "locking"]
      BY <1>3 DEF CallPop
    <3>2. Where' = [Where EXCEPT ![c] = IF "locking" = "outside" THEN "out"
                                        ELSE IF "locking" = "drained" THEN "end"
                                        ELSE "in"]
      BY <3>1, WhereAfterMove
    <3>3. QED
      BY <3>2
  <2>3. QED
    BY <1>3, <2>1, <2>2 DEF CallPop, Channel!Enter, Where
<1>4. ASSUME NEW c \in Consumers, TryPop(c)
      PROVE  Channel!Take(c) \/ Channel!End(c) \/ UNCHANGED Channel!vars
  <2>1. Where[c] = "in"
    BY <1>4 DEF TryPop, Where
  <2>2. CASE ~MayPop
    <3>1. Where' = Where
      BY <1>4, <2>2 DEF TryPop, Where, TypeOK
    <3>2. QED
      BY <1>4, <2>2, <3>1 DEF TryPop, Channel!vars, Where
  <2>3. CASE MayPop /\ m_queue = <<>>
    <3>1. Where' = [Where EXCEPT ![c] = "end"]
      BY <1>4, <2>3, WhereAfterMove DEF TryPop
    <3>2. QED
      BY <1>4, <2>1, <2>3, <3>1 DEF TryPop, MayPop, Channel!End, Where
  <2>4. CASE MayPop /\ m_queue # <<>>
    <3>1. Where' = [Where EXCEPT ![c] = "out"]
      BY <1>4, <2>4, WhereAfterMove DEF TryPop
    <3>2. QED
      BY <1>4, <2>1, <2>4, <3>1 DEF TryPop, Channel!Take, Where
  <2>5. QED
    BY <2>2, <2>3, <2>4
<1>5. ASSUME NEW c \in Consumers, SpuriousWakeup(c) PROVE UNCHANGED Channel!vars
  <2>1. Where' = Where
    BY <1>5 DEF SpuriousWakeup, Where, TypeOK
  <2>2. QED
    BY <1>5, <2>1 DEF SpuriousWakeup, Channel!vars, Where
<1>6. QED
  BY <1>1, <1>2, <1>3, <1>4, <1>5 DEF Next, Channel!Next

LEMMA StartsAsChannel == Init => Channel!Init
  BY DEF Init, Channel!Init

\* The class implements the closable FIFO that uploadFile programs against, as
\* far as safety goes.
THEOREM QueueIsChannel == Spec => Channel!Safety
<1>1. QueueInv /\ [Next]_vars => [Channel!Next]_(Channel!vars)
  BY StepsAreChannel DEF QueueInv, vars, Channel!vars
<1>2. QED
  BY <1>1, StartsAsChannel, QueueInvariant, PTL DEF Spec, Channel!Safety

\* What is popped or queued is always a value that was pushed, never what the
\* front of an empty queue would be (Shell.h:24-33).
THEOREM QueueTypeCorrect == Spec => []TypeOK
<1>1. QueueInv => TypeOK
  BY DEF QueueInv
<1>2. QED
  BY <1>1, QueueInvariant, PTL
==============================================================================
