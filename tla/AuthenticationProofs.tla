------------------------ MODULE AuthenticationProofs -------------------------
(***************************************************************************)
(* Proofs about Semaphore and Authentication, for every set of threads,    *)
(* number of permits and number of sign-ins.  The Semaphore is counting: a *)
(* step moves one thread, or two, from one control point to another, and   *)
(* count_ goes along.  What holds of the class holds with sign-ins between *)
(* acquire and release, and nobody waits in vain.                          *)
(***************************************************************************)
EXTENDS Authentication, FiniteSetTheorems, TLAPS

------------------------------------------------------------------------------
(* The class Semaphore.                                                     *)

\* The invariant: the three of them together are inductive.  The range of count_
\* needs that permits are conserved.
SemaphoreInv == TypeOK /\ PermitsConserved /\ NoLostWakeup

LEMMA ThreadSets ==
  ASSUME NEW S, S \subseteq Threads
  PROVE  IsFiniteSet(S) /\ Cardinality(S) \in Nat
  BY SemaphoreAssumption, FS_Subset, FS_CardinalityType

\* A thread that goes from one control point to another is one less there and
\* one more here.
LEMMA MoveCounts ==
  ASSUME TypeOK, NEW t \in Threads, NEW to, to # pc[t],
         pc' = [pc EXCEPT ![t] = to], NEW s
  PROVE  Cardinality(At(s)') = IF s = to THEN Cardinality(At(s)) + 1
                               ELSE IF s = pc[t] THEN Cardinality(At(s)) - 1
                               ELSE Cardinality(At(s))
<1>1. IsFiniteSet(At(s))
  BY ThreadSets DEF At
<1>2. At(s)' = IF s = to THEN At(s) \cup {t} ELSE At(s) \ {t}
  BY DEF At, TypeOK
<1>3. t \in At(s) <=> s = pc[t]
  BY DEF At
<1>4. QED
  BY <1>1, <1>2, <1>3, FS_AddElement, FS_RemoveElement

\* How many threads are where, as numbers.
LEMMA Counts ==
  /\ Cardinality(At("holding")) \in Nat
  /\ Cardinality(At("notified")) \in Nat
  BY ThreadSets DEF At

LEMMA SemaphoreInvInit == Init => SemaphoreInv
<1> SUFFICES ASSUME Init PROVE SemaphoreInv
  OBVIOUS
<1>1. TypeOK
  BY SemaphoreAssumption DEF Init, TypeOK, AcquireStates
<1>2. At("holding") = {} /\ At("sleeping") = {}
  BY DEF Init, At
<1>3. QED
  BY <1>1, <1>2, FS_EmptySet, SemaphoreAssumption
  DEF SemaphoreInv, Init, PermitsConserved, NoLostWakeup

LEMMA CallAcquireKeepsInv ==
  ASSUME SemaphoreInv, NEW t \in Threads, CallAcquire(t)
  PROVE  SemaphoreInv'
<1> USE DEF SemaphoreInv, CallAcquire
<1>1. TypeOK'
  BY DEF TypeOK, AcquireStates
<1>2. Cardinality(At("holding")') = Cardinality(At("holding"))
  BY MoveCounts
<1>3. Cardinality(At("notified")') = Cardinality(At("notified"))
  BY MoveCounts
<1>4. At("sleeping")' = At("sleeping")
  BY DEF At, TypeOK
<1>5. QED
  BY <1>1, <1>2, <1>3, <1>4 DEF PermitsConserved, NoLostWakeup

LEMMA TryAcquireKeepsInv ==
  ASSUME SemaphoreInv, NEW t \in Threads, TryAcquire(t)
  PROVE  SemaphoreInv'
<1> USE DEF SemaphoreInv
<1>1. CASE /\ count_ > 0
           /\ count_' = count_ - 1
           /\ pc' = [pc EXCEPT ![t] = "holding"]
  <2>1. pc[t] \in {"locking", "notified"}
    BY DEF TryAcquire
  <2>2. Cardinality(At("holding")') = Cardinality(At("holding")) + 1
    BY <1>1, <2>1, MoveCounts
  <2>3. Cardinality(At("notified")') >= Cardinality(At("notified")) - 1
    <3>1. Cardinality(At("notified")') \in
              {Cardinality(At("notified")) - 1, Cardinality(At("notified"))}
      BY <1>1, <2>1, MoveCounts
    <3>2. QED
      BY <3>1, Counts
  <2>4. At("sleeping")' = At("sleeping")
    BY <1>1, <2>1 DEF At, TypeOK
  <2>5. count_ \in Nat /\ count_' \in Nat
    BY <1>1 DEF TypeOK
  <2>6. PermitsConserved'
    BY <1>1, <2>2, <2>5, Counts, SemaphoreAssumption DEF PermitsConserved
  <2>7. TypeOK'
    <3>1. count_' \in 0..Permits
      BY <1>1, <2>5, SemaphoreAssumption DEF TypeOK
    <3>2. pc' \in [Threads -> AcquireStates]
      BY <1>1 DEF TypeOK, AcquireStates
    <3>3. QED
      BY <3>1, <3>2 DEF TypeOK
  <2>8. Cardinality(At("notified")') \in Nat
    BY ThreadSets DEF At
  <2>9. NoLostWakeup'
    BY <1>1, <2>3, <2>4, <2>5, <2>8, Counts DEF NoLostWakeup
  <2>10. QED
    BY <2>6, <2>7, <2>9
<1>2. CASE /\ ~(count_ > 0)
           /\ pc' = [pc EXCEPT ![t] = "sleeping"]
           /\ UNCHANGED count_
  <2>1. pc[t] \in {"locking", "notified"}
    BY DEF TryAcquire
  <2>2. Cardinality(At("holding")') = Cardinality(At("holding"))
    BY <1>2, <2>1, MoveCounts
  <2>3. Cardinality(At("notified")') \in Nat
    BY ThreadSets DEF At
  <2>4. count_' = 0
    BY <1>2 DEF TypeOK
  <2>5. TypeOK'
    BY <1>2 DEF TypeOK, AcquireStates
  <2>6. QED
    BY <1>2, <2>2, <2>3, <2>4, <2>5 DEF PermitsConserved, NoLostWakeup
<1>3. QED
  BY <1>1, <1>2 DEF TryAcquire

LEMMA ReleaseKeepsInv ==
  ASSUME SemaphoreInv, NEW t \in Threads, Release(t)
  PROVE  SemaphoreInv'
<1> USE DEF SemaphoreInv
<1>1. pc[t] = "holding" /\ count_' = count_ + 1
  BY DEF Release
<1>2. Cardinality(At("holding")) >= 1
  <2>1. t \in At("holding") /\ IsFiniteSet(At("holding"))
    BY <1>1, ThreadSets DEF At
  <2>2. Cardinality(At("holding")) # 0
    BY <2>1, FS_EmptySet
  <2>3. QED
    BY <2>2, Counts
<1>3. ASSUME Cardinality(At("holding")') = Cardinality(At("holding")) - 1
      PROVE  PermitsConserved' /\ count_' \in 0..Permits
  BY <1>1, <1>2, <1>3, Counts, SemaphoreAssumption DEF PermitsConserved, TypeOK
<1>4. CASE At("sleeping") = {} /\ pc' = [pc EXCEPT ![t] = "outside"]
  <2>1. Cardinality(At("holding")') = Cardinality(At("holding")) - 1
    BY <1>1, <1>4, MoveCounts
  <2>2. At("sleeping")' = {}
    BY <1>1, <1>4 DEF At, TypeOK
  <2>3. pc' \in [Threads -> AcquireStates]
    BY <1>4 DEF TypeOK, AcquireStates
  <2>4. QED
    BY <1>3, <2>1, <2>2, <2>3 DEF TypeOK, NoLostWakeup
<1>5. ASSUME NEW w \in At("sleeping"),
             pc' = [pc EXCEPT ![t] = "outside", ![w] = "notified"]
      PROVE  SemaphoreInv'
  <2>1. w \in Threads /\ pc[w] = "sleeping" /\ w # t
    BY <1>1 DEF At
  <2>2. At("holding")' = At("holding") \ {t}
    BY <1>1, <1>5, <2>1 DEF At, TypeOK
  <2>3. At("notified")' = At("notified") \cup {w}
    BY <1>1, <1>5, <2>1 DEF At, TypeOK
  <2>4. t \in At("holding") /\ w \notin At("notified")
    BY <1>1, <2>1 DEF At
  <2>5. IsFiniteSet(At("holding")) /\ IsFiniteSet(At("notified"))
    BY ThreadSets DEF At
  <2>6. Cardinality(At("holding")') = Cardinality(At("holding")) - 1
    BY <2>2, <2>4, <2>5, FS_RemoveElement
  <2>7. Cardinality(At("notified")') = Cardinality(At("notified")) + 1
    BY <2>3, <2>4, <2>5, FS_AddElement
  <2>8. count_ <= Cardinality(At("notified"))
    BY DEF NoLostWakeup
  <2>9. pc' \in [Threads -> AcquireStates]
    BY <1>5, <2>1 DEF TypeOK, AcquireStates
  <2>10. count_' <= Cardinality(At("notified")')
    BY <1>1, <2>7, <2>8, Counts DEF TypeOK
  <2>11. QED
    BY <1>3, <2>6, <2>9, <2>10 DEF TypeOK, NoLostWakeup
<1>6. QED
  BY <1>4, <1>5 DEF Release

LEMMA SpuriousWakeupKeepsInv ==
  ASSUME SemaphoreInv, NEW t \in Threads, SpuriousWakeup(t)
  PROVE  SemaphoreInv'
<1> USE DEF SemaphoreInv, SpuriousWakeup
<1>1. TypeOK'
  BY DEF TypeOK, AcquireStates
<1>2. Cardinality(At("holding")') = Cardinality(At("holding"))
  BY MoveCounts
<1>3. Cardinality(At("notified")') = Cardinality(At("notified")) + 1
  BY MoveCounts
<1>4. t \in At("sleeping")
  BY DEF At
<1>5. count_' <= Cardinality(At("notified")')
  BY <1>3, <1>4, Counts DEF NoLostWakeup, TypeOK
<1>6. QED
  BY <1>1, <1>2, <1>5 DEF PermitsConserved, NoLostWakeup

\* Every step of the class keeps the invariant; so does, for that, every step of
\* a program that uses it.
LEMMA SemaphoreInvStep == SemaphoreInv /\ [Next]_vars => SemaphoreInv'
<1> SUFFICES ASSUME SemaphoreInv, [Next]_vars PROVE SemaphoreInv'
  OBVIOUS
<1>1. CASE UNCHANGED vars
  BY <1>1 DEF vars, SemaphoreInv, TypeOK, PermitsConserved, NoLostWakeup, At
<1>2. CASE Next
  BY <1>2, CallAcquireKeepsInv, TryAcquireKeepsInv, ReleaseKeepsInv,
     SpuriousWakeupKeepsInv DEF Next
<1>3. QED
  BY <1>1, <1>2

\* acquire() and release() alone: whatever threads call them in whatever order,
\* permits are conserved and no wakeup is lost (Shell.h:49-69).
THEOREM SemaphoreCorrect == Spec => []SemaphoreInv
<1>1. QED
  BY SemaphoreInvInit, SemaphoreInvStep, PTL DEF Spec

\* Each step of the class is a step of the counting semaphore, or none: calling
\* is asking, getting through the predicate is the grant, and a permit that is
\* there when count_ is positive is what conservation says.
LEMMA StepsAreCounting ==
  ASSUME SemaphoreInv, Next
  PROVE  [Counting!Next]_(Counting!vars)
<1> DEFINE asking == At("locking") \cup At("sleeping") \cup At("notified")
           holding == At("holding")
<1> USE DEF SemaphoreInv
<1>1. ASSUME NEW t \in Threads, CallAcquire(t) PROVE Counting!Ask(t)
  <2>1. t \notin asking \cup holding /\ asking' = asking \cup {t} /\ holding' = holding
    BY <1>1 DEF CallAcquire, At, TypeOK
  <2>2. QED
    BY <2>1 DEF Counting!Ask
<1>2. ASSUME NEW t \in Threads, TryAcquire(t)
      PROVE  Counting!Grant(t) \/ UNCHANGED Counting!vars
  <2>1. CASE count_ > 0 /\ pc' = [pc EXCEPT ![t] = "holding"]
    <3>1. t \in asking /\ asking' = asking \ {t} /\ holding' = holding \cup {t}
      BY <1>2, <2>1 DEF TryAcquire, At, TypeOK
    <3>2. Cardinality(holding) < Permits
      BY <2>1, Counts, SemaphoreAssumption DEF TypeOK, PermitsConserved
    <3>3. QED
      BY <3>1, <3>2
      DEF Counting!Grant, Counting!Cardinality, Cardinality
  <2>2. CASE pc' = [pc EXCEPT ![t] = "sleeping"]
    <3>1. asking' = asking /\ holding' = holding
      BY <1>2, <2>2 DEF TryAcquire, At, TypeOK
    <3>2. QED
      BY <3>1 DEF Counting!vars
  <2>3. QED
    BY <1>2, <2>1, <2>2 DEF TryAcquire
<1>3. ASSUME NEW t \in Threads, Release(t) PROVE Counting!Return(t)
  <2>1. t \in holding /\ asking' = asking /\ holding' = holding \ {t}
    BY <1>3 DEF Release, At, TypeOK
  <2>2. QED
    BY <2>1 DEF Counting!Return
<1>4. ASSUME NEW t \in Threads, SpuriousWakeup(t) PROVE UNCHANGED Counting!vars
  <2>1. asking' = asking /\ holding' = holding
    BY <1>4 DEF SpuriousWakeup, At, TypeOK
  <2>2. QED
    BY <2>1 DEF Counting!vars
<1>5. QED
  BY <1>1, <1>2, <1>3, <1>4 DEF Next, Counting!Next

LEMMA StartsCounting == Init => Counting!Init
  BY DEF Init, At, Counting!Init

\* The class implements the counting semaphore that uploadFile programs against,
\* as far as safety goes.
THEOREM SemaphoreCounts == Spec => Counting!Safety
<1>1. SemaphoreInv /\ [Next]_vars => [Counting!Next]_(Counting!vars)
  BY StepsAreCounting DEF vars, Counting!vars, At
<1>2. QED
  BY <1>1, StartsCounting, SemaphoreCorrect, PTL DEF Spec, Counting!Safety
------------------------------------------------------------------------------
(* The sign-ins of the holders of slots.                                    *)

\* What is true of a call and its server at each control point.  A call that has
\* not got its answer has a server that will give one; only a call that has its
\* code has stopped its server, and none goes on with a server that listens.
CallsAndServers ==
    \A t \in Threads :
        /\ signIn[t] \in {"opening", "waiting"} /\ promise[t] = "unset" =>
               server[t] \in {"starting", "listening"}
        /\ server[t] = "stopping" => signIn[t] = "exchanging"
        /\ signIn[t] = "exchanging" => server[t] \in {"stopping", "none"}

SignInInv == AuthTypeOK /\ CallsAndServers /\ PortReturned

LEMMA SignInInvInit == AuthInit => SignInInv
<1> SUFFICES ASSUME AuthInit PROVE SignInInv
  OBVIOUS
<1>1. TypeOK
  BY SemaphoreInvInit DEF AuthInit, SemaphoreInv
<1>2. AuthTypeOK
  <2>1. {dangling, gaveUp, credentials, dead} \subseteq BOOLEAN
    BY Zenon DEF AuthInit
  <2>2. \A t \in Threads : signIn[t] = "idle"
    BY DEF AuthInit
  <2>3. QED
    BY <1>1, <2>1, <2>2, MaxSignInsAssumption DEF AuthInit, AuthTypeOK
<1>3. QED
  BY <1>2 DEF AuthInit, SignInInv, CallsAndServers, PortReturned

\* The class does not see what its clients do meanwhile.
LEMMA StepsOfTheClass == AuthNext => [Next]_vars
<1> SUFFICES ASSUME AuthNext PROVE [Next]_vars
  OBVIOUS
<1>1. ASSUME NEW t \in Threads, AcquireStep(t) PROVE [Next]_vars
  BY <1>1 DEF AcquireStep, Next
<1>2. ASSUME NEW t \in Threads, TaskStep(t) PROVE [Next]_vars
  BY <1>2 DEF TaskStep, Begin, BeginFails, OpenBrowser, CredentialsThrow, GetCode,
     GetError, Exchange, LeaveFrame, GiveSlotBack, Next
<1>3. ASSUME NEW t \in Threads, ServerStep(t) \/ ServerBreaks(t) \/ UserAnswers(t)
      PROVE  [Next]_vars
  BY <1>3 DEF ServerStep, ServerBreaks, UserAnswers
<1>4. CASE OrphanListens \/ UndefinedBehaviourKills
  BY <1>4 DEF OrphanListens, UndefinedBehaviourKills
<1>5. QED
  BY <1>1, <1>2, <1>3, <1>4 DEF AuthNext

LEMMA AcquireStepKeepsInv ==
  ASSUME SignInInv, TypeOK', NEW t \in Threads, AcquireStep(t)
  PROVE  SignInInv'
<1>1. UNCHANGED <<calls, leftovers, credentials, dead>>
  BY DEF AcquireStep
<1>2. \A u \in Threads : pc[u] = "holding" => pc'[u] = "holding"
  BY DEF AcquireStep, CallAcquire, TryAcquire, SpuriousWakeup, SignInInv,
     AuthTypeOK, TypeOK
<1>3. QED
  BY <1>1, <1>2 DEF SignInInv, AuthTypeOK, CallsAndServers, PortReturned, calls, leftovers

\* A call that starts or cannot, or comes to the wait, or has its code.
LEMMA CallGoesOnKeepsInv ==
  ASSUME SignInInv, TypeOK', NEW t \in Threads, UNCHANGED <<credentials, dead>>,
         Begin(t) \/ BeginFails(t) \/ OpenBrowser(t) \/ GetCode(t)
  PROVE  SignInInv'
<1> USE DEF SignInInv, Goes, ServerGoes
<1>1. CASE Begin(t)
  <2>1. AuthTypeOK'
    BY <1>1, MaxSignInsAssumption DEF Begin, AuthTypeOK, vars, leftovers
  <2>2. CallsAndServers' /\ PortReturned'
    BY <1>1 DEF Begin, AuthTypeOK, CallsAndServers, PortReturned, leftovers
  <2>3. QED
    BY <2>1, <2>2
<1>2. CASE OpenBrowser(t)
  <2>1. AuthTypeOK'
    BY <1>2 DEF OpenBrowser, AuthTypeOK, vars, leftovers
  <2>2. CallsAndServers' /\ PortReturned'
    BY <1>2 DEF OpenBrowser, AuthTypeOK, CallsAndServers, PortReturned, leftovers
  <2>3. QED
    BY <2>1, <2>2
<1>3. CASE GetCode(t)
  <2>1. AuthTypeOK'
    BY <1>3 DEF GetCode, AuthTypeOK, vars, leftovers
  <2>2. CallsAndServers' /\ PortReturned'
    BY <1>3 DEF GetCode, AuthTypeOK, CallsAndServers, PortReturned, leftovers
  <2>3. QED
    BY <2>1, <2>2
<1>4. CASE BeginFails(t)
  <2>1. AuthTypeOK'
    BY <1>4, MaxSignInsAssumption DEF BeginFails, AuthTypeOK, vars, leftovers
  <2>2. CallsAndServers' /\ PortReturned'
    BY <1>4 DEF BeginFails, AuthTypeOK, CallsAndServers, PortReturned, leftovers
  <2>3. QED
    BY <2>1, <2>2
<1>5. QED
  BY <1>1, <1>2, <1>3, <1>4

\* The end of a call: a server becomes an orphan only when the call throws while
\* its server is up, which is when gaveUp is set.
LEMMA CallEndsKeepsInv ==
  ASSUME SignInInv, TypeOK', NEW t \in Threads, UNCHANGED <<credentials, dead>>,
         CredentialsThrow(t) \/ GetError(t) \/ Exchange(t)
  PROVE  SignInInv'
<1> USE DEF SignInInv, Goes
<1>1. LeaveFrame(t) /\ \E to \in {"idle", "failed"} : signIn' = [signIn EXCEPT ![t] = to]
  BY DEF CredentialsThrow, GetError, Exchange
<1>2. signIn[t] # "idle" /\ gaveUp' \in BOOLEAN
  BY DEF CredentialsThrow, GetError, Exchange, AuthTypeOK
<1>3. AuthTypeOK'
  BY <1>1, <1>2 DEF LeaveFrame, AuthTypeOK, vars
<1>4. CallsAndServers'
  BY <1>1 DEF LeaveFrame, AuthTypeOK, CallsAndServers
<1>5. PortReturned'
  <2>1. CASE CredentialsThrow(t) \/ GetError(t)
    BY <1>1, <2>1 DEF CredentialsThrow, GetError, LeaveFrame, PortReturned, AuthTypeOK
  <2>2. CASE Exchange(t)
    BY <1>1, <2>2 DEF Exchange, LeaveFrame, PortReturned, CallsAndServers
  <2>3. QED
    BY <2>1, <2>2
<1>6. QED
  BY <1>3, <1>4, <1>5

LEMMA GiveSlotBackKeepsInv ==
  ASSUME SignInInv, TypeOK', NEW t \in Threads, UNCHANGED <<credentials, dead>>,
         GiveSlotBack(t)
  PROVE  SignInInv'
<1> USE DEF SignInInv
<1>1. \A u \in Threads \ {t} : pc[u] = "holding" => pc'[u] = "holding"
  BY DEF GiveSlotBack, Release, At, AuthTypeOK, TypeOK
<1>2. /\ signIn' = [signIn EXCEPT ![t] = "idle"]
      /\ signIns' = [signIns EXCEPT ![t] = 0]
      /\ UNCHANGED <<server, promise, leftovers>>
  BY DEF GiveSlotBack
<1>3. signIn[t] \in {"idle", "failed"}
  BY DEF GiveSlotBack
<1>4. AuthTypeOK'
  BY <1>1, <1>2, MaxSignInsAssumption DEF AuthTypeOK, leftovers
<1>5. CallsAndServers' /\ PortReturned'
  BY <1>2, <1>3 DEF AuthTypeOK, CallsAndServers, PortReturned, leftovers
<1>6. QED
  BY <1>4, <1>5

LEMMA ServerStepKeepsInv ==
  ASSUME SignInInv, TypeOK', NEW t \in Threads,
         ServerStep(t) \/ ServerBreaks(t) \/ UserAnswers(t)
  PROVE  SignInInv'
<1> USE DEF SignInInv, ServerGoes
<1>1. CASE ServerStep(t)
  <2>1. AuthTypeOK'
    BY <1>1 DEF ServerStep, Listen, ListenFails, ServerLeaves, AuthTypeOK, vars, leftovers
  <2>2. CallsAndServers' /\ PortReturned'
    BY <1>1 DEF ServerStep, Listen, ListenFails, ServerLeaves, AuthTypeOK,
       CallsAndServers, PortReturned, leftovers
  <2>3. QED
    BY <2>1, <2>2
<1>2. CASE UserAnswers(t)
  <2>1. AuthTypeOK'
    BY <1>2 DEF UserAnswers, AuthTypeOK, vars, leftovers
  <2>2. CallsAndServers' /\ PortReturned'
    BY <1>2 DEF UserAnswers, AuthTypeOK, CallsAndServers, PortReturned, leftovers
  <2>3. QED
    BY <2>1, <2>2
<1>3. CASE ServerBreaks(t)
  <2>1. dead' \in BOOLEAN
    BY <1>3, Zenon DEF ServerBreaks
  <2>2. AuthTypeOK'
    BY <1>3, <2>1 DEF ServerBreaks, AuthTypeOK, vars, leftovers
  <2>3. CallsAndServers' /\ PortReturned'
    BY <1>3 DEF ServerBreaks, AuthTypeOK, CallsAndServers, PortReturned, leftovers
  <2>4. QED
    BY <2>2, <2>3
<1>4. QED
  BY <1>1, <1>2, <1>3

LEMMA SignInInvStep ==
  ASSUME SignInInv, TypeOK', [AuthNext]_authVars
  PROVE  SignInInv'
<1>1. CASE UNCHANGED authVars
  BY <1>1 DEF authVars, vars, calls, leftovers, SignInInv, AuthTypeOK, TypeOK,
     CallsAndServers, PortReturned
<1>2. ASSUME NEW t \in Threads, TaskStep(t) PROVE SignInInv'
  BY <1>2, CallGoesOnKeepsInv, CallEndsKeepsInv, GiveSlotBackKeepsInv DEF TaskStep
<1>3. CASE OrphanListens
  BY <1>3 DEF OrphanListens, SignInInv, AuthTypeOK, CallsAndServers, PortReturned,
     vars, calls
<1>4. CASE UndefinedBehaviourKills
  BY <1>4 DEF UndefinedBehaviourKills, SignInInv, AuthTypeOK, CallsAndServers,
     PortReturned, vars, calls, leftovers
<1>5. QED
  BY <1>1, <1>2, <1>3, <1>4, AcquireStepKeepsInv, ServerStepKeepsInv DEF AuthNext

\* Permits are conserved and no wakeup is lost while the holders of slots sign in
\* with any outcome (Shell.cpp:137-188 over Shell.h:49-69).
THEOREM SlotsSurviveSignIns == AuthSpec => [](PermitsConserved /\ NoLostWakeup)
<1>1. AuthInit => SemaphoreInv
  BY SemaphoreInvInit DEF AuthInit
<1>2. SemaphoreInv /\ [AuthNext]_authVars => SemaphoreInv'
  BY SemaphoreInvStep, StepsOfTheClass DEF authVars
<1>3. SemaphoreInv => PermitsConserved /\ NoLostWakeup
  BY DEF SemaphoreInv
<1>4. QED
  BY <1>1, <1>2, <1>3, PTL DEF AuthSpec

\* No permit leaks and none is invented, whatever the sign-ins between acquire and
\* release come to (Shell.h:49-69).
THEOREM PermitsNeverLeak == AuthSpec => []PermitsConserved
  BY SlotsSurviveSignIns, PTL

\* The invariant of the sign-ins holds in every reachable state; with it the types.
THEOREM SignInInvariant == AuthSpec => [](SemaphoreInv /\ SignInInv)
<1>1. AuthInit => SemaphoreInv /\ SignInInv
  BY SemaphoreInvInit, SignInInvInit DEF AuthInit
<1>2. SemaphoreInv /\ SignInInv /\ [AuthNext]_authVars => SemaphoreInv' /\ SignInInv'
  <2> SUFFICES ASSUME SemaphoreInv, SignInInv, [AuthNext]_authVars
               PROVE  SemaphoreInv' /\ SignInInv'
    OBVIOUS
  <2>1. SemaphoreInv'
    BY SemaphoreInvStep, StepsOfTheClass DEF authVars
  <2>2. SignInInv'
    BY <2>1, SignInInvStep DEF SemaphoreInv
  <2>3. QED
    BY <2>1, <2>2
<1>3. QED
  BY <1>1, <1>2, PTL DEF AuthSpec

\* Nobody is in code_future.get() without an answer or a server thread that will
\* give one, whatever else signs in (gdrive_handler.cpp:306).
THEOREM NobodyEverWaitsInVain == AuthSpec => []NobodyWaitsInVain
<1>1. SignInInv => NobodyWaitsInVain
  BY DEF SignInInv, CallsAndServers, NobodyWaitsInVain
<1>2. QED
  BY <1>1, SignInInvariant, PTL

\* The port stays with a server that outlives its call only after a sign-in that
\* was given up (gdrive_handler.cpp:306-307).
THEOREM PortAlwaysReturned == AuthSpec => []PortReturned
<1>1. SignInInv => PortReturned
  BY DEF SignInInv
<1>2. QED
  BY <1>1, SignInInvariant, PTL

\* Every variable keeps its range, with any number of sign-ins (the states of a
\* task, its server and its promise in gdrive_handler.cpp:239-332).
THEOREM SignInTypeCorrect == AuthSpec => []AuthTypeOK
<1>1. SignInInv => AuthTypeOK
  BY DEF SignInInv
<1>2. QED
  BY <1>1, SignInInvariant, PTL
==============================================================================
