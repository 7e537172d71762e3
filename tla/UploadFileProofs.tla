--------------------------- MODULE UploadFileProofs --------------------------
(***************************************************************************)
(* Proofs about UploadFile, for every file size, chunk size, number of     *)
(* accounts and number of slots.  UploadInv is inductive; the safety       *)
(* properties follow from it by counting.  The pipeline implements         *)
(* StripedUpload: a failed PUT and a push_back settle one part each, the   *)
(* verdict is told when all are settled, and every other step leaves the   *)
(* outcome of every part as it is.                                         *)
(***************************************************************************)
EXTENDS UploadFile, FiniteSetTheorems, SequenceTheorems, TLAPS

\* What the assumptions on the constants give: finitely many tasks, exactly as
\* many as the file has chunks (Shell.cpp:129 loops to totalChunks).
LEMMA ConstantFacts ==
    /\ Total \in Nat /\ NumAccounts \in Nat \ {0} /\ Slots \in Nat \ {0}
    /\ IsFiniteSet(Consumers) /\ Cardinality(Consumers) = Total
    /\ NoChunk \notin Parts
  BY UploadAssumption, FS_CardinalityType

\* Sets of tasks are finite, and have at most Total elements; one that has
\* Total elements is all of them.
LEMMA TaskSets ==
  ASSUME NEW S, S \subseteq Consumers
  PROVE  /\ IsFiniteSet(S) /\ Cardinality(S) \in Nat
         /\ Cardinality(S) <= Total
         /\ Cardinality(S) = Total => S = Consumers
  BY ConstantFacts, FS_Subset, FS_CardinalityType

\* part_number % m_local_accounts.size() is the position of an account.
LEMMA AccountInRange ==
  ASSUME NEW p \in Parts
  PROVE  AccountOf(p, NumAccounts) \in Account
  BY ConstantFacts DEF AccountOf, Account, Parts

\* Exactly the steps acquire and release of c change who holds a slot.
LEMMA SlotHolders ==
  ASSUME TypeOK, NEW c \in Consumers, NEW to,
         task' = [task EXCEPT ![c] = to]
  PROVE  InSlot' = IF to \in {"uploading", "recording", "releasing"}
                   THEN InSlot \cup {c} ELSE InSlot \ {c}
  BY DEF TypeOK, InSlot

\* Every record names a task, a part and an account.
LEMMA RecordsTyped ==
  ASSUME TypeOK
  PROVE  \A k \in 1..Len(chunks) :
             chunks[k] \in [part : Parts, account : Account, drive_file_id : Consumers]
<1> DEFINE R == [part : Parts, account : Account, drive_file_id : Consumers]
<1>1. chunks \in Seq(R)
  BY DEF TypeOK
<1>2. QED
  BY <1>1, ElementOfSeq

\* The initial state satisfies the invariant.
LEMMA UploadInvInit == Init => UploadInv
<1> SUFFICES ASSUME Init PROVE UploadInv
  OBVIOUS
<1> USE DEF Init
<1>1. TypeOK
  <2>1. chunkQueue \in Seq(Parts)
    OBVIOUS
  <2>2. chunks \in Seq([part : Parts, account : Account, drive_file_id : Consumers])
    OBVIOUS
  <2>3. i \in 0..Total /\ upload_slots \in 0..Slots
    BY ConstantFacts
  <2>4. QED
    BY <2>1, <2>2, <2>3 DEF TypeOK
<1>2. InSlot = {} /\ Served = {}
  BY DEF InSlot, Served
<1>3. SlotsAccounted
  BY <1>2, FS_EmptySet, ConstantFacts DEF SlotsAccounted
<1>4. EveryPartOnce
  BY <1>2, FS_EmptySet DEF EveryPartOnce
<1>5. QED
  BY <1>1, <1>2, <1>3, <1>4, FS_EmptySet DEF UploadInv

\* A step of the calling thread changes nothing the tasks rely on.
LEMMA MainKeepsInv ==
  ASSUME UploadInv, NEW from, NEW to, MainGoto(from, to), TypeOK',
         \/ UNCHANGED verdict /\ (to \in {"starting", "running"} => from = "starting")
         \/ /\ \A c \in Consumers : task[c] = "finished"
            /\ Announce /\ to = "opening"
  PROVE  UploadInv'
<1> USE DEF MainGoto, production, results
<1>1. InSlot' = InSlot /\ Served' = Served
  BY DEF InSlot, Served
<1>2. SlotsAccounted' /\ EveryPartOnce'
  BY <1>1 DEF UploadInv, SlotsAccounted, EveryPartOnce
<1>3. (verdict # "none" =>
           /\ \A c \in Consumers : task[c] = "finished"
           /\ verdict = "complete" <=> successful_chunks = Total)'
  BY DEF UploadInv, Announce, Total
<1>4. \A c : Object(c)' = Object(c)
  BY DEF Object
<1>5. (main \in {"starting", "running"} => verdict = "none")'
  BY DEF UploadInv, Announce
<1>6. QED
  BY <1>2, <1>3, <1>4, <1>5 DEF UploadInv, Total

\* The producer's iteration extends the queue by the next part.
LEMMA PushChunkKeepsInv ==
  ASSUME UploadInv, PushChunk
  PROVE  UploadInv'
<1> USE DEF PushChunk, results, outputs
<1>1. TypeOK'
  <2>1. i \in Parts /\ i' \in 0..Total
    BY ConstantFacts DEF UploadInv, TypeOK, Parts
  <2>2. chunkQueue' \in Seq(Parts)
    BY <2>1 DEF UploadInv, TypeOK
  <2>3. QED
    BY <2>1, <2>2 DEF UploadInv, TypeOK, Total, Parts
<1>2. InSlot' = InSlot /\ Served' = Served
  BY DEF InSlot, Served
<1>3. Cardinality(Served) \in Nat
  BY TaskSets DEF Served
<1>4. /\ Len(chunkQueue') = Len(chunkQueue) + 1
      /\ \A k \in 1..Len(chunkQueue) : chunkQueue'[k] = chunkQueue[k]
      /\ chunkQueue'[Len(chunkQueue) + 1] = i
  BY AppendProperties, ConstantFacts DEF UploadInv, TypeOK, Parts
<1>5. EveryPartOnce'
  <2>1. Len(chunkQueue) \in Nat /\ i \in Int
    BY ConstantFacts DEF UploadInv, TypeOK
  <2>2. /\ Len(chunkQueue) = i - Cardinality(Served) /\ i' = i + 1
        /\ \A k \in 1..Len(chunkQueue) : chunkQueue[k] = Cardinality(Served) + k - 1
    BY DEF UploadInv, EveryPartOnce
  <2>3. Len(chunkQueue') = i' - Cardinality(Served)
    BY <1>3, <1>4, <2>1, <2>2
  <2>4. \A k \in 1..Len(chunkQueue') : k \in 1..Len(chunkQueue) \/ k = Len(chunkQueue) + 1
    BY <1>4, <2>1
  <2>5. i = Cardinality(Served) + (Len(chunkQueue) + 1) - 1
    BY <1>3, <2>1, <2>2
  <2>6. \A k \in 1..Len(chunkQueue') : chunkQueue'[k] = Cardinality(Served) + k - 1
    BY <1>4, <2>2, <2>4, <2>5
  <2>7. QED
    BY <1>2, <2>3, <2>6 DEF UploadInv, EveryPartOnce
<1>6. SlotsAccounted'
  BY <1>2, <1>3 DEF UploadInv, SlotsAccounted, TypeOK
<1>7. ~queueDone
  BY ConstantFacts DEF UploadInv, TypeOK
<1>8. \A c : Object(c)' = Object(c)
  BY DEF Object
<1>9. QED
  BY <1>1, <1>5, <1>6, <1>7, <1>8 DEF UploadInv, Total

\* done() comes after the last push.
LEMMA FinishProducingKeepsInv ==
  ASSUME UploadInv, FinishProducing
  PROVE  UploadInv'
<1> USE DEF FinishProducing, results, outputs
<1>1. TypeOK'
  BY DEF UploadInv, TypeOK, Total, Parts
<1>2. InSlot' = InSlot /\ Served' = Served
  BY DEF InSlot, Served
<1>3. SlotsAccounted' /\ EveryPartOnce'
  BY <1>2 DEF UploadInv, SlotsAccounted, EveryPartOnce
<1>4. \A c : Object(c)' = Object(c)
  BY DEF Object
<1>5. QED
  BY <1>1, <1>3, <1>4 DEF UploadInv, Total

\* A task moves without touching chunks, queue or records: what remains to be
\* checked of its new control point.
LEMMA TaskMoveKeepsInv ==
  ASSUME UploadInv, NEW c \in Consumers, NEW from, NEW to,
         Goto(c, from, to), TypeOK', SlotsAccounted',
         UNCHANGED <<chunkQueue, chunk, chunks, successful_chunks>>,
         drive \subseteq drive',
         from # "finished", from = "releasing" => to = "finished",
         chunk[c] = NoChunk <=> to \in {"unborn", "popping"},
         to = "recording" => Object(c) \in drive'
  PROVE  UploadInv'
<1> USE DEF Goto, production, outputs
<1>1. task[c] = from /\ task'[c] = to /\ \A d \in Consumers \ {c} : task'[d] = task[d]
  BY DEF UploadInv, TypeOK
<1>2. EveryPartOnce'
  <2>1. Served' = Served
    BY DEF Served
  <2>2. QED
    BY <2>1 DEF UploadInv, EveryPartOnce
<1>3. \A d : Object(d)' = Object(d)
  BY DEF Object
<1>4. (queueDone => i = Total)'
  BY DEF UploadInv, Total
<1>5. (\A d \in Consumers : chunk[d] = NoChunk <=> task[d] \in {"unborn", "popping"})'
  <2> SUFFICES ASSUME NEW d \in Consumers
               PROVE  chunk[d] = NoChunk <=> task'[d] \in {"unborn", "popping"}
    OBVIOUS
  <2>1. chunk[d] = NoChunk <=> task[d] \in {"unborn", "popping"}
    BY DEF UploadInv
  <2>2. QED
    BY <1>1, <2>1
<1>6. (\A d \in Consumers : task[d] = "recording" => Object(d) \in drive)'
  BY <1>1, <1>3 DEF UploadInv
<1>7. \A k \in 1..Len(chunks) : chunks[k].drive_file_id \in Consumers
  BY RecordsTyped DEF UploadInv
<1>8. (\A k \in 1..Len(chunks) :
           LET d == chunks[k].drive_file_id
           IN  /\ task[d] \in {"releasing", "finished"}
               /\ chunks[k].part = chunk[d]
               /\ chunks[k].account = Object(d).account
               /\ Object(d) \in drive)'
  <2> SUFFICES ASSUME NEW k \in 1..Len(chunks), NEW d, d = chunks[k].drive_file_id
               PROVE  /\ task'[d] \in {"releasing", "finished"}
                      /\ chunks[k].part = chunk[d]
                      /\ chunks[k].account = Object(d)'.account
                      /\ Object(d)' \in drive'
    OBVIOUS
  <2>1. /\ task[d] \in {"releasing", "finished"}
        /\ chunks[k].part = chunk[d]
        /\ chunks[k].account = Object(d).account
        /\ Object(d) \in drive
    BY DEF UploadInv
  <2>2. QED
    BY <1>1, <1>3, <1>7, <2>1
<1>9. verdict = "none"
  BY <1>1 DEF UploadInv
<1>10. QED
  BY <1>2, <1>4, <1>5, <1>6, <1>8, <1>9 DEF UploadInv

LEMMA SpawnKeepsInv ==
  ASSUME UploadInv, NEW c \in Consumers, SpawnConsumer(c)
  PROVE  UploadInv'
<1> USE DEF SpawnConsumer, results
<1>1. TypeOK'
  BY DEF UploadInv, TypeOK, Goto, production, outputs, Total, Parts
<1>2. InSlot' = InSlot
  BY SlotHolders DEF UploadInv, TypeOK, Goto, InSlot
<1>3. SlotsAccounted'
  BY <1>2 DEF UploadInv, SlotsAccounted
<1>4. chunk[c] = NoChunk
  BY DEF UploadInv, Goto
<1>5. QED
  BY <1>1, <1>3, <1>4, TaskMoveKeepsInv

\* An acquired slot is taken off the count as the task joins the holders.
LEMMA AcquireKeepsInv ==
  ASSUME UploadInv, NEW c \in Consumers, AcquireSlot(c)
  PROVE  UploadInv'
<1> USE DEF AcquireSlot, results
<1>1. upload_slots \in Nat /\ upload_slots' = upload_slots - 1 /\ upload_slots' \in 0..Slots
  BY ConstantFacts DEF UploadInv, TypeOK
<1>2. TypeOK'
  BY <1>1 DEF UploadInv, TypeOK, Goto, production, outputs, Total, Parts
<1>3. InSlot' = InSlot \cup {c} /\ c \notin InSlot
  BY SlotHolders DEF UploadInv, TypeOK, Goto, InSlot
<1>4. Cardinality(InSlot') = Cardinality(InSlot) + 1 /\ Cardinality(InSlot) \in Nat
  BY <1>3, TaskSets, FS_AddElement DEF InSlot
<1>5. SlotsAccounted'
  BY <1>1, <1>4 DEF UploadInv, SlotsAccounted
<1>6. chunk[c] # NoChunk
  BY DEF UploadInv, Goto
<1>7. QED
  BY <1>2, <1>5, <1>6, TaskMoveKeepsInv

\* Between the pop and the release a task holds a part, so the object it
\* creates is well typed.
LEMMA ObjectTyped ==
  ASSUME UploadInv, NEW c \in Consumers,
         task[c] \in {"acquiring", "uploading", "recording", "releasing"}
  PROVE  /\ chunk[c] \in Parts /\ chunk[c] # NoChunk
         /\ Object(c) \in [id : Consumers, account : Account, part : Parts]
<1>1. chunk[c] \in Parts /\ chunk[c] # NoChunk
  BY DEF UploadInv, TypeOK
<1>2. AccountOf(chunk[c], NumAccounts) \in Account
  BY <1>1, AccountInRange
<1>3. QED
  BY <1>1, <1>2 DEF Object

\* The PUT, answered or not: the object may be in Drive, the task goes on.
LEMMA UploadKeepsInv ==
  ASSUME UploadInv, NEW c \in Consumers, UploadStored(c) \/ UploadFailed(c)
  PROVE  UploadInv'
<1>1. PICK to \in {"recording", "releasing"} :
          /\ Goto(c, "uploading", to)
          /\ \/ drive' = drive \cup {Object(c)}
             \/ to = "releasing" /\ UNCHANGED drive
          /\ UNCHANGED <<chunkQueue, chunk, upload_slots, chunks, successful_chunks>>
  <2>1. CASE UploadStored(c)
    <3> WITNESS "recording" \in {"recording", "releasing"}
    <3> QED
      BY <2>1 DEF UploadStored, CreateObject
  <2>2. CASE UploadFailed(c)
    <3> WITNESS "releasing" \in {"recording", "releasing"}
    <3> QED
      BY <2>2 DEF UploadFailed, CreateObject
  <2>3. QED
    BY <2>1, <2>2
<1>2. task[c] = "uploading"
  BY <1>1 DEF Goto
<1>3. TypeOK'
  <2>1. drive' \subseteq [id : Consumers, account : Account, part : Parts]
    <3>1. Object(c) \in [id : Consumers, account : Account, part : Parts]
      BY <1>2, ObjectTyped
    <3>2. drive \subseteq [id : Consumers, account : Account, part : Parts]
      BY DEF UploadInv, TypeOK
    <3>3. QED
      BY <1>1, <3>1, <3>2
  <2>2. task' \in [Consumers -> {"unborn", "popping", "acquiring", "uploading",
                                "recording", "releasing", "finished"}]
    BY <1>1 DEF UploadInv, TypeOK, Goto
  <2>3. UNCHANGED <<main, i, queueDone, verdict, disk>>
    BY <1>1 DEF Goto, production, outputs
  <2>4. QED
    BY <1>1, <2>1, <2>2, <2>3 DEF UploadInv, TypeOK
<1>4. InSlot' = InSlot
  BY <1>1, <1>2, SlotHolders DEF UploadInv, TypeOK, Goto, InSlot
<1>5. SlotsAccounted'
  BY <1>1, <1>4 DEF UploadInv, SlotsAccounted
<1>6. drive \subseteq drive' /\ (to = "recording" => Object(c) \in drive')
  BY <1>1
<1>7. chunk[c] # NoChunk
  BY <1>2, ObjectTyped
<1>8. QED
  BY <1>1, <1>3, <1>5, <1>6, <1>7, TaskMoveKeepsInv

\* release() is reached with the slot in hand, on the path through the catch too.
LEMMA ReleaseKeepsInv ==
  ASSUME UploadInv, NEW c \in Consumers, ReleaseSlot(c)
  PROVE  UploadInv'
<1> USE DEF ReleaseSlot, results
<1>1. task[c] = "releasing" /\ chunk[c] # NoChunk
  BY ObjectTyped DEF Goto
<1>2. InSlot' = InSlot \ {c} /\ c \in InSlot
  BY <1>1, SlotHolders DEF UploadInv, TypeOK, Goto, InSlot
<1>3. /\ Cardinality(InSlot) \in Nat /\ Cardinality(InSlot') \in Nat
      /\ Cardinality(InSlot') = Cardinality(InSlot) - 1
  BY <1>2, TaskSets, FS_RemoveElement DEF InSlot
<1>4. upload_slots' = upload_slots + 1 /\ upload_slots \in Nat
  BY ConstantFacts DEF UploadInv, TypeOK
<1>5. SlotsAccounted'
  BY <1>3, <1>4, ConstantFacts DEF UploadInv, SlotsAccounted
<1>6. upload_slots' \in 0..Slots
  <2>1. upload_slots' + Cardinality(InSlot') = Slots
    BY <1>5 DEF SlotsAccounted
  <2>2. QED
    BY <1>3, <1>4, <2>1, ConstantFacts
<1>7. TypeOK'
  BY <1>6 DEF UploadInv, TypeOK, Goto, production, outputs, Total, Parts
<1>8. QED
  BY <1>1, <1>5, <1>7, TaskMoveKeepsInv

\* A task that found the queue closed and empty would find all parts served,
\* itself included: this step is never taken.
LEMMA NeverEmptyHanded ==
  ASSUME UploadInv, NEW c \in Consumers, queueDone, chunkQueue = <<>>, TakeNothing(c)
  PROVE  FALSE
<1>1. c \notin Served
  BY DEF UploadInv, TakeNothing, Goto, Served
<1>2. i = Total /\ Len(chunkQueue) = 0
  BY DEF UploadInv
<1>3. Cardinality(Served) = Total
  BY <1>2, TaskSets, ConstantFacts DEF UploadInv, EveryPartOnce, Served
<1>4. QED
  BY <1>1, <1>3, TaskSets DEF Served

\* The record appended is true of its task; the earlier ones belong to others.
LEMMA RecordKeepsInv ==
  ASSUME UploadInv, NEW c \in Consumers, RecordChunk(c)
  PROVE  UploadInv'
<1> USE DEF RecordChunk
<1> DEFINE rec == [part |-> chunk[c], drive_file_id |-> c,
                   account |-> AccountOf(chunk[c], NumAccounts)]
           True(k) == LET d == chunks[k].drive_file_id
                      IN  /\ task[d] \in {"releasing", "finished"}
                          /\ chunks[k].part = chunk[d]
                          /\ chunks[k].account = Object(d).account
                          /\ Object(d) \in drive
<1>0. PICK n \in Nat : n = Len(chunks)
  BY DEF UploadInv, TypeOK
<1>1. /\ task[c] = "recording" /\ task'[c] = "releasing"
      /\ \A d \in Consumers \ {c} : task'[d] = task[d]
  BY DEF Goto, UploadInv, TypeOK
<1>2. /\ chunks' = Append(chunks, rec) /\ successful_chunks' = successful_chunks + 1
      /\ UNCHANGED <<main, i, queueDone, verdict, disk, chunkQueue, chunk,
                     upload_slots, drive>>
  BY DEF PushRecord, Goto, production, outputs
<1>3. rec \in [part : Parts, account : Account, drive_file_id : Consumers]
  BY <1>1, ObjectTyped DEF Object
<1>4. /\ chunks \in Seq([part : Parts, account : Account, drive_file_id : Consumers])
      /\ n = Len(chunks)
  BY <1>0 DEF UploadInv, TypeOK
<1>5. /\ chunks' \in Seq([part : Parts, account : Account, drive_file_id : Consumers])
      /\ Len(chunks') = n + 1 /\ chunks'[n + 1] = rec
      /\ \A k \in 1..n : chunks'[k] = chunks[k]
  BY <1>2, <1>3, <1>4, AppendProperties
<1>6. TypeOK'
  BY <1>2, <1>5 DEF UploadInv, TypeOK, Goto, Total, Parts
<1>7. InSlot' = InSlot /\ Served' = Served
  BY <1>1, <1>2, SlotHolders DEF UploadInv, TypeOK, Goto, InSlot, Served
<1>8. SlotsAccounted' /\ EveryPartOnce'
  BY <1>2, <1>7 DEF UploadInv, SlotsAccounted, EveryPartOnce
<1>9. \A d : Object(d)' = Object(d)
  BY <1>2 DEF Object
<1>10. \A k \in 1..n : True(k) /\ chunks[k].drive_file_id \in Consumers \ {c}
  BY <1>0, <1>1, RecordsTyped DEF UploadInv
<1>11. \A k \in 1..n : True(k)'
  <2> SUFFICES ASSUME NEW k \in 1..n PROVE True(k)'
    OBVIOUS
  <2>1. chunks'[k] = chunks[k] /\ True(k) /\ chunks[k].drive_file_id \in Consumers \ {c}
    BY <1>5, <1>10
  <2>2. QED
    BY <1>1, <1>2, <1>9, <2>1
<1>12. Object(c) \in drive
  BY <1>1 DEF UploadInv
<1>13. \A k : k = n + 1 => True(k)'
  BY <1>1, <1>2, <1>5, <1>9, <1>12 DEF Object
<1>14. \A k, l \in 1..(n + 1) :
           chunks'[k].drive_file_id = chunks'[l].drive_file_id => k = l
  <2>1. \A k, l \in 1..n : chunks[k].drive_file_id = chunks[l].drive_file_id => k = l
    BY <1>0 DEF UploadInv
  <2>2. \A k \in 1..(n + 1) : k \in 1..n \/ k = n + 1
    BY <1>4
  <2>3. chunks'[n + 1].drive_file_id = c
    BY <1>5
  <2> HIDE DEF rec, True
  <2>4. \A k \in 1..n : chunks'[k] = chunks[k] /\ chunks[k].drive_file_id # c
    BY <1>5, <1>10
  <2>5. QED
    BY <2>1, <2>2, <2>3, <2>4
<1>15. \A k \in 1..Len(chunks') : True(k)'
  <2>1. \A k \in 1..Len(chunks') : k \in 1..n \/ k = n + 1
    BY <1>4, <1>5
  <2> HIDE DEF rec, True
  <2>2. QED
    BY <1>11, <1>13, <2>1
<1>16. (\A d \in Consumers : chunk[d] = NoChunk <=> task[d] \in {"unborn", "popping"})'
  BY <1>1, <1>2 DEF UploadInv
<1>17. (\A d \in Consumers : task[d] = "recording" => Object(d) \in drive)'
  BY <1>1, <1>2, <1>9 DEF UploadInv
<1>18. verdict = "none" /\ successful_chunks' = Len(chunks') /\ (queueDone => i = Total)'
  BY <1>1, <1>2, <1>5 DEF UploadInv, Total
<1>19. QED
  BY <1>2, <1>5, <1>6, <1>8, <1>14, <1>15, <1>16, <1>17, <1>18 DEF UploadInv

\* The part popped is the one after all those served: no task has it yet, and
\* the rest of the queue moves up.
LEMMA PopKeepsEveryPartOnce ==
  ASSUME UploadInv, NEW c \in Consumers, chunkQueue # <<>>, TakeChunk(c)
  PROVE  EveryPartOnce'
<1> USE DEF TakeChunk
<1>0. PICK n \in Nat : n = Cardinality(Served)
  BY TaskSets DEF Served
<1>1. c \notin Served /\ Served \subseteq Consumers
  BY DEF UploadInv, Goto, Served
<1>2. /\ Len(chunkQueue) \in Nat \ {0} /\ Head(chunkQueue) = chunkQueue[1]
      /\ Len(chunkQueue') = Len(chunkQueue) - 1
      /\ \A k \in 1..Len(chunkQueue') : chunkQueue'[k] = chunkQueue[k + 1]
      /\ Head(chunkQueue) \in Parts
  BY HeadTailProperties, EmptySeq DEF UploadInv, TypeOK
<1>3. Head(chunkQueue) = n
  BY <1>0, <1>2 DEF UploadInv, EveryPartOnce
<1>4. n # NoChunk /\ n \in Parts
  BY <1>2, <1>3, ConstantFacts
<1>5. chunk'[c] = n /\ \A d \in Consumers \ {c} : chunk'[d] = chunk[d]
  BY <1>3 DEF UploadInv, TypeOK
<1>6. Served' = Served \cup {c}
  BY <1>1, <1>4, <1>5 DEF Served
<1>7. Cardinality(Served') = n + 1
  BY <1>0, <1>1, <1>6, TaskSets, FS_AddElement
<1>8. \A d \in Served : chunk[d] \in 0..(n - 1) /\ chunk'[d] = chunk[d]
  BY <1>0, <1>1, <1>5 DEF UploadInv, EveryPartOnce
<1>9. (\A d, e \in Served : chunk[d] = chunk[e] => d = e)'
  BY <1>5, <1>6, <1>8 DEF UploadInv, EveryPartOnce
<1>10. {chunk[d] : d \in Served}' = 0..n
  <2>1. {chunk[d] : d \in Served} = 0..(n - 1)
    BY <1>0 DEF UploadInv, EveryPartOnce
  <2>2. {chunk'[d] : d \in Served'} = {chunk[d] : d \in Served} \cup {n}
    BY <1>5, <1>6, <1>8
  <2>3. 0..n = 0..(n - 1) \cup {n}
    OBVIOUS
  <2>4. QED
    BY <2>1, <2>2, <2>3
<1>11. Len(chunkQueue') = i' - (n + 1)
  BY <1>0, <1>2, ConstantFacts DEF UploadInv, EveryPartOnce, TypeOK, Goto, production
<1>12. \A k \in 1..Len(chunkQueue') : chunkQueue'[k] = (n + 1) + k - 1
  <2> SUFFICES ASSUME NEW k \in 1..Len(chunkQueue')
               PROVE  chunkQueue'[k] = (n + 1) + k - 1
    OBVIOUS
  <2>1. k + 1 \in 1..Len(chunkQueue) /\ chunkQueue'[k] = chunkQueue[k + 1]
    BY <1>2
  <2>2. QED
    BY <1>0, <2>1 DEF UploadInv, EveryPartOnce
<1>13. 0..n = 0..((n + 1) - 1)
  OBVIOUS
<1>14. QED
  BY <1>7, <1>9, <1>10, <1>11, <1>12, <1>13 DEF EveryPartOnce

LEMMA PopKeepsInv ==
  ASSUME UploadInv, NEW c \in Consumers, chunkQueue # <<>>, TakeChunk(c)
  PROVE  UploadInv'
<1> USE DEF TakeChunk, results
<1>1. /\ task[c] = "popping" /\ task'[c] = "acquiring"
      /\ \A d \in Consumers \ {c} : task'[d] = task[d]
  BY DEF Goto, UploadInv, TypeOK
<1>2. /\ Head(chunkQueue) \in Parts /\ Tail(chunkQueue) \in Seq(Parts)
      /\ Head(chunkQueue) # NoChunk
  BY HeadTailProperties, ConstantFacts DEF UploadInv, TypeOK
<1>3. /\ chunk'[c] = Head(chunkQueue) /\ chunk' \in [Consumers -> Parts \cup {NoChunk}]
      /\ \A d \in Consumers \ {c} : chunk'[d] = chunk[d]
  BY <1>2 DEF UploadInv, TypeOK
<1>4. UNCHANGED <<main, i, queueDone, verdict, disk, upload_slots, chunks,
                  successful_chunks, drive>>
  BY DEF Goto, production, outputs
<1>5. TypeOK'
  BY <1>2, <1>3 DEF UploadInv, TypeOK, Goto, production, outputs, Total, Parts
<1>6. SlotsAccounted'
  <2>1. InSlot' = InSlot
    BY <1>1, SlotHolders DEF UploadInv, TypeOK, Goto, InSlot
  <2>2. QED
    BY <2>1, <1>4 DEF UploadInv, SlotsAccounted
<1>7. \A d \in Consumers \ {c} : Object(d)' = Object(d)
  BY <1>3 DEF Object
<1>8. (\A d \in Consumers : chunk[d] = NoChunk <=> task[d] \in {"unborn", "popping"})'
  BY <1>1, <1>2, <1>3 DEF UploadInv
<1>9. (\A d \in Consumers : task[d] = "recording" => Object(d) \in drive)'
  BY <1>1, <1>4, <1>7 DEF UploadInv
<1>10. (\A k \in 1..Len(chunks) :
           LET d == chunks[k].drive_file_id
           IN  /\ task[d] \in {"releasing", "finished"}
               /\ chunks[k].part = chunk[d]
               /\ chunks[k].account = Object(d).account
               /\ Object(d) \in drive)'
  <2> SUFFICES ASSUME NEW k \in 1..Len(chunks), NEW d, d = chunks[k].drive_file_id
               PROVE  /\ task'[d] \in {"releasing", "finished"}
                      /\ chunks[k].part = chunk'[d]
                      /\ chunks[k].account = Object(d)'.account
                      /\ Object(d)' \in drive'
    BY <1>4
  <2>1. /\ task[d] \in {"releasing", "finished"} /\ d \in Consumers
        /\ chunks[k].part = chunk[d]
        /\ chunks[k].account = Object(d).account
        /\ Object(d) \in drive
    BY RecordsTyped DEF UploadInv
  <2>2. QED
    BY <1>1, <1>3, <1>4, <1>7, <2>1
<1>11. verdict = "none" /\ (queueDone => i = Total)'
  BY <1>1, <1>4 DEF UploadInv, Total
<1>12. EveryPartOnce'
  BY PopKeepsEveryPartOnce
<1>13. /\ (\A k, l \in 1..Len(chunks) :
               chunks[k].drive_file_id = chunks[l].drive_file_id => k = l)'
       /\ (successful_chunks = Len(chunks))'
       /\ (main \in {"starting", "running"} => verdict = "none")'
       /\ verdict' = "none"
  BY <1>4, <1>11 DEF UploadInv
<1>14. QED
  BY <1>5, <1>6, <1>8, <1>9, <1>10, <1>11, <1>12, <1>13 DEF UploadInv

\* Every step of the calling thread is a MainKeepsInv step.
LEMMA MainStepKeepsInv ==
  ASSUME UploadInv, MainStep \/ Die
  PROVE  UploadInv'
<1> USE DEF MainGoto, production, results, outputs
<1>1. TypeOK'
  BY DEF UploadInv, TypeOK, MainStep, StartProducer, JoinAndAnnounce, OpenMetadata,
         DumpMetadata, Die, Announce, Total, Parts
<1>2. CASE StartProducer
  BY <1>1, <1>2, MainKeepsInv DEF StartProducer
<1>3. CASE JoinAndAnnounce
  BY <1>1, <1>3, MainKeepsInv DEF JoinAndAnnounce
<1>4. CASE OpenMetadata
  BY <1>1, <1>4, MainKeepsInv DEF OpenMetadata
<1>5. CASE DumpMetadata
  BY <1>1, <1>5, MainKeepsInv DEF DumpMetadata
<1>6. CASE Die
  BY <1>1, <1>6, MainKeepsInv DEF Die
<1>7. QED
  BY <1>2, <1>3, <1>4, <1>5, <1>6 DEF MainStep

LEMMA StutterKeepsInv ==
  ASSUME UploadInv, UNCHANGED vars
  PROVE  UploadInv'
<1> USE DEF vars, production, results, outputs
<1>1. TypeOK'
  BY DEF UploadInv, TypeOK, Total, Parts
<1>2. InSlot' = InSlot /\ Served' = Served
  BY DEF InSlot, Served
<1>3. SlotsAccounted' /\ EveryPartOnce'
  BY <1>2 DEF UploadInv, SlotsAccounted, EveryPartOnce
<1>4. \A c : Object(c)' = Object(c)
  BY DEF Object
<1>5. QED
  BY <1>1, <1>3, <1>4 DEF UploadInv, Total

\* UploadInv is inductive: it holds in every reachable state of an upload,
\* whatever fails and whenever the process dies.
THEOREM UploadInvariant == Spec => []UploadInv
<1>1. UploadInv /\ [Next]_vars => UploadInv'
  <2> SUFFICES ASSUME UploadInv, [Next]_vars PROVE UploadInv'
    OBVIOUS
  <2>1. CASE MainStep \/ Die
    BY <2>1, MainStepKeepsInv
  <2>2. CASE ProducerStep
    BY <2>2, PushChunkKeepsInv, FinishProducingKeepsInv DEF ProducerStep
  <2>3. ASSUME NEW c \in Consumers, TaskStep(c)
        PROVE  UploadInv'
    BY <2>3, SpawnKeepsInv, PopKeepsInv, NeverEmptyHanded, AcquireKeepsInv,
       UploadKeepsInv, RecordKeepsInv, ReleaseKeepsInv DEF TaskStep, PopChunk
  <2>4. CASE UNCHANGED vars
    BY <2>4, StutterKeepsInv
  <2>5. QED
    BY <2>1, <2>2, <2>3, <2>4 DEF Next, Over
<1>2. QED
  BY <1>1, UploadInvInit, PTL DEF Spec
------------------------------------------------------------------------------
(* What follows from the invariant.                                        *)

\* Every variable keeps its range: the queue numbers, the slots, the records.
THEOREM UploadTypeCorrect == Spec => []TypeOK
<1>1. UploadInv => TypeOK
  BY DEF UploadInv
<1>2. QED
  BY <1>1, UploadInvariant, PTL

\* acquire and release are balanced on every path, so that never more than
\* Slots tasks are between them (README.md:60 and :142), for any Slots.
THEOREM SlotsNeverLeak == Spec => [](SlotsAccounted /\ Cardinality(InSlot) <= Slots)
<1>1. UploadInv => SlotsAccounted /\ Cardinality(InSlot) <= Slots
  <2> SUFFICES ASSUME UploadInv PROVE SlotsAccounted /\ Cardinality(InSlot) <= Slots
    OBVIOUS
  <2>1. SlotsAccounted /\ upload_slots \in Nat
    BY ConstantFacts DEF UploadInv, TypeOK
  <2>2. Cardinality(InSlot) \in Nat
    BY TaskSets DEF InSlot
  <2>3. QED
    BY <2>1, <2>2, ConstantFacts DEF SlotsAccounted
<1>2. QED
  BY <1>1, UploadInvariant, PTL

\* No part is popped by two tasks and none is skipped.
THEOREM PartsPoppedOnce == Spec => []EveryPartOnce
<1>1. UploadInv => EveryPartOnce
  BY DEF UploadInv
<1>2. QED
  BY <1>1, UploadInvariant, PTL

\* The early return of a consumer (Shell.cpp:132-135) is never taken.
THEOREM EveryTaskServed == Spec => []NoEmptyHandedTask
<1>1. UploadInv => NoEmptyHandedTask
  BY DEF UploadInv, NoEmptyHandedTask, Served
<1>2. QED
  BY <1>1, UploadInvariant, PTL

\* Two records of the same part would be of two tasks with the same part.
LEMMA RecordsTrueOfInv ==
  ASSUME UploadInv
  PROVE  RecordsTrue
<1>1. \A k \in 1..Len(chunks) :
          /\ chunks[k].drive_file_id \in Served
          /\ chunks[k].part = chunk[chunks[k].drive_file_id]
  BY RecordsTyped DEF UploadInv, Served
<1>2. \A k, l \in 1..Len(chunks) : chunks[k].part = chunks[l].part => k = l
  BY <1>1 DEF UploadInv, EveryPartOnce
<1>3. \A k \in 1..Len(chunks) :
          [id |-> chunks[k].drive_file_id, part |-> chunks[k].part,
           account |-> chunks[k].account] \in drive
  BY DEF UploadInv, Object
<1>4. QED
  BY <1>2, <1>3 DEF RecordsTrue

\* Whatever the order in which uploads finish, every record is true of Drive
\* and no part has two (README.md:63).
THEOREM RecordsAlwaysTrue == Spec => []RecordsTrue
<1>1. UploadInv => RecordsTrue
  BY RecordsTrueOfInv
<1>2. QED
  BY <1>1, UploadInvariant, PTL

LEMMA CardinalityUpTo ==
  ASSUME NEW n \in Nat
  PROVE  IsFiniteSet(1..n) /\ Cardinality(1..n) = n
BY FS_Interval

\* As no part has two records, there are as many recorded parts as records.
LEMMA RecordedPartsCounted ==
  ASSUME UploadInv
  PROVE  /\ RecordedParts \subseteq Parts
         /\ Cardinality(RecordedParts) = Len(chunks)
<1> DEFINE S == 1..Len(chunks)
           f == [k \in S |-> chunks[k].part]
<1>1. Len(chunks) \in Nat /\ IsFiniteSet(S) /\ Cardinality(S) = Len(chunks)
  <2>1. Len(chunks) \in Nat
    BY DEF UploadInv, TypeOK
  <2>2. QED
    BY <2>1, CardinalityUpTo
<1>2. RecordedParts \subseteq Parts
  BY RecordsTyped DEF UploadInv, RecordedParts
<1>3. f \in Surjection(S, RecordedParts)
  BY DEF Surjection, RecordedParts
<1>4. f \in Injection(S, RecordedParts)
  BY <1>3, RecordsTrueOfInv DEF Injection, Surjection, RecordsTrue, IsInjective
<1> HIDE DEF S, f
<1>5. QED
  BY <1>1, <1>2, <1>3, <1>4, FS_Surjection

\* "File uploaded successfully" is told if and only if the metadata has every
\* part of the file (Shell.cpp:200-208).
THEOREM VerdictAlwaysTrue == Spec => []VerdictTrue
<1>1. UploadInv => VerdictTrue
  <2> SUFFICES ASSUME UploadInv PROVE VerdictTrue
    OBVIOUS
  <2>1. IsFiniteSet(Parts) /\ Cardinality(Parts) = Total
    BY ConstantFacts, FS_Interval DEF Parts
  <2>2. RecordedParts = Parts <=> Len(chunks) = Total
    BY <2>1, RecordedPartsCounted, FS_Subset
  <2>3. verdict # "none" => (verdict = "complete" <=> Len(chunks) = Total)
    BY DEF UploadInv
  <2>4. QED
    BY <2>2, <2>3 DEF VerdictTrue
<1>2. QED
  BY <1>1, UploadInvariant, PTL
------------------------------------------------------------------------------
(* The promise of a striped upload.                                         *)

\* The refinement mapping: the outcome of every part.
outcome == [p \in Parts |-> Outcome(p)]

\* Nothing has an outcome before the upload starts.
LEMMA PromiseInit == Init => Promise!Init
  BY DEF Init, Promise!Init, Outcome, RecordedParts, Losers, Served

\* Outcomes depend on the records and on the tasks that gave up, only.
LEMMA SameOutcomes ==
  ASSUME UNCHANGED chunks, Losers' = Losers,
         \A c \in Losers : chunk'[c] = chunk[c]
  PROVE  outcome' = outcome
<1>1. RecordedParts' = RecordedParts
  BY DEF RecordedParts
<1>2. Parts' = Parts
  BY DEF Parts, Total
<1>3. \A p : Outcome(p)' = Outcome(p)
  BY <1>1 DEF Outcome
<1>4. QED
  BY <1>2, <1>3 DEF outcome

\* Every step but a failed PUT and a push_back settles nothing.
LEMMA QuietStep ==
  ASSUME UploadInv, UNCHANGED chunks,
         \/ UNCHANGED <<task, chunk>>
         \/ \E c \in Consumers :
               \/ SpawnConsumer(c) \/ TakeChunk(c) \/ AcquireSlot(c)
               \/ UploadStored(c) \/ ReleaseSlot(c)
  PROVE  outcome' = outcome
<1>1. \A c : Recorded(c)' = Recorded(c)
  BY DEF Recorded
<1>2. CASE UNCHANGED <<task, chunk>>
  <2>1. Losers' = Losers
    BY <1>1, <1>2 DEF Losers, Served
  <2>2. QED
    BY <1>2, <2>1, SameOutcomes
<1>3. ASSUME NEW c \in Consumers,
             \/ SpawnConsumer(c) \/ AcquireSlot(c) \/ UploadStored(c) \/ ReleaseSlot(c)
      PROVE  outcome' = outcome
  <2>1. UNCHANGED chunk
    BY <1>3 DEF SpawnConsumer, AcquireSlot, UploadStored, ReleaseSlot
  <2>2. PICK from, to : task[c] = from /\ task' = [task EXCEPT ![c] = to]
                        /\ (from \in {"releasing", "finished"} <=>
                            to \in {"releasing", "finished"})
    BY <1>3 DEF SpawnConsumer, AcquireSlot, UploadStored, ReleaseSlot, Goto
  <2>3. Losers' = Losers
    BY <1>1, <2>1, <2>2 DEF Losers, Served, UploadInv, TypeOK
  <2>4. QED
    BY <2>1, <2>3, SameOutcomes
<1>4. ASSUME NEW c \in Consumers, TakeChunk(c)
      PROVE  outcome' = outcome
  <2>1. /\ task[c] = "popping" /\ task' = [task EXCEPT ![c] = "acquiring"]
        /\ \A d \in Consumers \ {c} : chunk'[d] = chunk[d]
    BY <1>4 DEF TakeChunk, Goto, UploadInv, TypeOK
  <2>2. Losers' = Losers /\ c \notin Losers
    BY <1>1, <2>1 DEF Losers, Served, UploadInv, TypeOK
  <2>3. QED
    BY <2>1, <2>2, SameOutcomes DEF Losers, Served
<1>5. QED
  BY <1>2, <1>3, <1>4

\* A task at work has settled nothing yet: its part is pending.
LEMMA PartPending ==
  ASSUME UploadInv, NEW c \in Consumers, task[c] \in {"uploading", "recording"}
  PROVE  /\ c \in Served /\ chunk[c] \in Parts
         /\ ~Recorded(c)
         /\ chunk[c] \notin RecordedParts
         /\ \A d \in Losers : chunk[d] # chunk[c]
<1>1. c \in Served /\ chunk[c] \in Parts
  BY ObjectTyped DEF Served
<1>2. ~Recorded(c)
  BY DEF UploadInv, Recorded
<1>3. \A k \in 1..Len(chunks) :
          /\ chunks[k].drive_file_id \in Served \ {c}
          /\ chunks[k].part = chunk[chunks[k].drive_file_id]
  BY RecordsTyped DEF UploadInv, Served
<1>4. chunk[c] \notin RecordedParts
  BY <1>1, <1>3 DEF UploadInv, EveryPartOnce, RecordedParts
<1>5. \A d \in Losers : chunk[d] # chunk[c]
  BY <1>1 DEF UploadInv, EveryPartOnce, Losers
<1>6. QED
  BY <1>1, <1>2, <1>4, <1>5

\* A failed upload settles its part as lost.
LEMMA FailedSettles ==
  ASSUME UploadInv, NEW c \in Consumers, UploadFailed(c)
  PROVE  Promise!Settle(chunk[c]) /\ chunk[c] \in Parts
<1> DEFINE p == chunk[c]
<1>1. /\ task[c] = "uploading" /\ task'[c] = "releasing"
      /\ \A d \in Consumers \ {c} : task'[d] = task[d]
      /\ UNCHANGED <<chunk, chunks, verdict>>
  BY DEF UploadFailed, Goto, UploadInv, TypeOK, outputs
<1>2. RecordedParts' = RecordedParts /\ \A d : Recorded(d)' = Recorded(d)
  BY <1>1 DEF RecordedParts, Recorded
<1>3. Losers' = Losers \cup {c}
  BY <1>1, <1>2, PartPending DEF Losers, Served
<1>4. p \in Parts /\ p \notin RecordedParts /\ \A d \in Losers : chunk[d] # p
  BY <1>1, PartPending
<1>5. outcome[p] = "pending"
  BY <1>4 DEF outcome, Outcome
<1>6. \A q \in Parts : Outcome(q)' = IF q = p THEN "lost" ELSE Outcome(q)
  BY <1>1, <1>2, <1>3, <1>4 DEF Outcome
<1>7. outcome' = [outcome EXCEPT ![p] = "lost"]
  BY <1>6 DEF outcome, Parts, Total
<1>8. QED
  BY <1>1, <1>4, <1>5, <1>7 DEF Promise!Settle, outcome

\* A push_back settles the part as recorded.
LEMMA RecordSettles ==
  ASSUME UploadInv, NEW c \in Consumers, RecordChunk(c)
  PROVE  Promise!Settle(chunk[c]) /\ chunk[c] \in Parts
<1> DEFINE p == chunk[c]
           rec == [part |-> p, drive_file_id |-> c,
                   account |-> AccountOf(p, NumAccounts)]
<1>1. /\ task[c] = "recording" /\ task'[c] = "releasing"
      /\ \A d \in Consumers \ {c} : task'[d] = task[d]
      /\ chunks' = Append(chunks, rec) /\ UNCHANGED <<chunk, verdict>>
  BY DEF RecordChunk, PushRecord, Goto, UploadInv, TypeOK, outputs
<1>2. p \in Parts /\ p \notin RecordedParts /\ \A d \in Losers : chunk[d] # p
  BY <1>1, PartPending
<1>3. PICK n \in Nat : /\ n = Len(chunks) /\ Len(chunks') = n + 1
                       /\ \A k \in 1..n : chunks'[k] = chunks[k]
                       /\ chunks'[n + 1] = rec
  <2>1. rec \in [part : Parts, account : Account, drive_file_id : Consumers]
    BY <1>1, ObjectTyped DEF Object
  <2>2. /\ chunks \in Seq([part : Parts, account : Account, drive_file_id : Consumers])
        /\ Len(chunks) \in Nat
    BY DEF UploadInv, TypeOK
  <2>3. QED
    BY <1>1, <2>1, <2>2, AppendProperties
<1>4. \A k : k \in 1..(n + 1) <=> k \in 1..n \/ k = n + 1
  OBVIOUS
<1>5. RecordedParts' = RecordedParts \cup {p}
  <2>1. RecordedParts = {chunks[k].part : k \in 1..n}
    BY <1>3 DEF RecordedParts
  <2>2. RecordedParts' = {chunks'[k].part : k \in 1..(n + 1)}
    BY <1>3 DEF RecordedParts
  <2>3. chunks'[n + 1].part = p
    BY <1>3
  <2>4. QED
    BY <1>3, <1>4, <2>1, <2>2, <2>3
<1>6. Recorded(c)' /\ \A d : d # c => Recorded(d)' = Recorded(d)
  <2>1. chunks'[n + 1].drive_file_id = c
    BY <1>3
  <2>2. QED
    BY <1>3, <1>4, <2>1 DEF Recorded
<1>7. Losers' = Losers
  BY <1>1, <1>6 DEF Losers, Served
<1>8. outcome[p] = "pending"
  BY <1>2 DEF outcome, Outcome
<1>9. \A q \in Parts : Outcome(q)' = IF q = p THEN "recorded" ELSE Outcome(q)
  BY <1>1, <1>2, <1>5, <1>7 DEF Outcome
<1>10. outcome' = [outcome EXCEPT ![p] = "recorded"]
  BY <1>9 DEF outcome, Parts, Total
<1>11. QED
  BY <1>1, <1>2, <1>8, <1>10 DEF Promise!Settle, outcome

\* When all tasks are joined every part is settled, and the count that decides
\* the verdict is the number of recorded parts.
LEMMA AnnounceTells ==
  ASSUME UploadInv, JoinAndAnnounce
  PROVE  Promise!Tell
<1>1. /\ \A c \in Consumers : task[c] = "finished"
      /\ verdict = "none" /\ UNCHANGED <<task, chunk, chunks>>
      /\ verdict' = IF successful_chunks = Total THEN "complete" ELSE "failed"
  BY DEF JoinAndAnnounce, MainGoto, Announce, UploadInv, results
<1>2. Served = Consumers
  BY <1>1 DEF UploadInv, Served
<1>3. \A p \in Parts : \E c \in Served : chunk[c] = p
  <2>1. {chunk[c] : c \in Served} = Parts
    BY <1>2, ConstantFacts DEF UploadInv, EveryPartOnce, Parts
  <2>2. QED
    BY <2>1
<1>4. \A c \in Served : Recorded(c) => chunk[c] \in RecordedParts
  BY DEF UploadInv, Recorded, RecordedParts
<1>5. \A p \in Parts : Outcome(p) # "pending"
  BY <1>1, <1>2, <1>3, <1>4 DEF Outcome, Losers
<1>6. successful_chunks = Total <=> RecordedParts = Parts
  <2>1. IsFiniteSet(Parts) /\ Cardinality(Parts) = Total
    BY ConstantFacts, FS_Interval DEF Parts
  <2>2. successful_chunks = Len(chunks)
    BY DEF UploadInv
  <2>3. QED
    BY <2>1, <2>2, RecordedPartsCounted, FS_Subset
<1>7. RecordedParts = Parts <=> \A p \in Parts : Outcome(p) = "recorded"
  BY RecordedPartsCounted DEF Outcome
<1>8. outcome' = outcome
  BY <1>1, QuietStep
<1>9. QED
  BY <1>1, <1>5, <1>6, <1>7, <1>8 DEF Promise!Tell, outcome

\* Every step of the pipeline is a step of the promise, or none at all.
LEMMA PromiseStep ==
  ASSUME UploadInv, [Next]_vars
  PROVE  [Promise!Next]_(Promise!vars)
<1> USE DEF results, outputs, production
<1>1. CASE JoinAndAnnounce
  BY <1>1, AnnounceTells DEF Promise!Next
<1>2. CASE StartProducer \/ OpenMetadata \/ DumpMetadata \/ Die \/ ProducerStep
           \/ UNCHANGED vars
  <2>1. UNCHANGED <<task, chunk, chunks, verdict>>
    BY <1>2 DEF StartProducer, OpenMetadata, DumpMetadata, Die, MainGoto, ProducerStep,
                PushChunk, FinishProducing, vars
  <2>2. QED
    BY <2>1, QuietStep DEF Promise!vars, outcome
<1>3. ASSUME NEW c \in Consumers, TaskStep(c)
      PROVE  [Promise!Next]_(Promise!vars)
  <2>1. CASE UploadFailed(c)
    BY <2>1, FailedSettles DEF Promise!Next
  <2>2. CASE RecordChunk(c)
    BY <2>2, RecordSettles DEF Promise!Next
  <2>3. CASE SpawnConsumer(c) \/ TakeChunk(c) \/ AcquireSlot(c)
             \/ UploadStored(c) \/ ReleaseSlot(c)
    <3>1. UNCHANGED <<chunks, verdict>>
      BY <2>3 DEF SpawnConsumer, TakeChunk, AcquireSlot, UploadStored, ReleaseSlot, Goto
    <3>2. QED
      BY <2>3, <3>1, QuietStep DEF Promise!vars, outcome
  <2>4. PopChunk(c) => TakeChunk(c)
    BY NeverEmptyHanded DEF PopChunk
  <2>5. QED
    BY <1>3, <2>1, <2>2, <2>3, <2>4 DEF TaskStep
<1>4. QED
  BY <1>1, <1>2, <1>3 DEF Next, MainStep, Over

\* README.md:59-63: whatever fails and in whatever order the tasks run, each
\* part is settled once and the verdict is told truthfully, after the last one.
THEOREM UploadKeepsPromise == Spec => ImplementsPromise
<1>1. UploadInv /\ [Next]_vars => [Promise!Next]_(Promise!vars)
  BY PromiseStep
<1>2. QED
  BY <1>1, PromiseInit, UploadInvariant, PTL DEF Spec, ImplementsPromise, Promise!Spec
==============================================================================
