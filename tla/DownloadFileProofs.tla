-------------------------- MODULE DownloadFileProofs -------------------------
(***************************************************************************)
(* Proofs about DownloadFile, for every number of parts, accounts and      *)
(* threads, every set of recorded parts and every network.                 *)
(***************************************************************************)
EXTENDS DownloadFile, FiniteSetTheorems, SequenceTheorems, TLAPS

\* The answers of a network that breaks no connection within an answer.
Sound == answers \subseteq {"whole", "refused"}

\* As many records as parts are the records of all of them.
RecordsCover ==
    /\ Len(records) <= Total
    /\ Len(records) = Total =>
           \A p \in Parts : \E k \in Threads : records[k] = p

\* On a sound network a thread that finished left its part whole.
FinishedMeansWhole ==
    Sound /\ main \in {"joining", "copying"} =>
        \A k \in Threads : thread[k] = "finished" => temp[records[k]] = "whole"

\* The copy is under way or done: all threads finished, and a stream that is
\* still good holds one part per iteration.
CopyKeepsPace ==
    main \in {"copying", "completed"} =>
        /\ \A k \in Threads : thread[k] = "finished"
        /\ out_good => Len(out) = k_out
        /\ main = "completed" => k_out = Len(records)

\* ... and it stays good when no part is missing.
NothingSpoiled ==
    /\ Len(records) = Total /\ output = "open" /\ Sound
    /\ main \in {"copying", "completed"}
    => out_good /\ \A k \in 1..Len(out) : out[k].data = "whole"

DownInv ==
    /\ TypeOK
    /\ RecordsCover
    /\ main = "starting" => \A k \in Threads : thread[k] # "finished"
    /\ main \in {"starting", "joining"} => k_out = 0 /\ out = <<>>
    /\ main \in {"joining", "copying"} => \A p \in Parts : temp[p] # "stale"
    /\ FinishedMeansWhole
    /\ CopyKeepsPace
    /\ NothingSpoiled
    /\ NothingOutOfPlace
    /\ NothingStale

\* The records of an upload, in whatever order: one per part of a set of parts.
LEMMA OrdersCover ==
  ASSUME NEW S \in SUBSET Parts, NEW s \in Orders(S)
  PROVE  /\ s \in Seq(Parts) /\ Len(s) <= Total
         /\ Len(s) = Total => \A p \in Parts : \E k \in DOMAIN s : s[k] = p
<1>1. IsFiniteSet(Parts) /\ Cardinality(Parts) = Total
  BY DownloadAssumption, FS_Interval DEF Parts
<1>2. IsFiniteSet(S) /\ Cardinality(S) \in Nat /\ Cardinality(S) <= Total
      /\ (Cardinality(S) = Total => S = Parts)
  BY <1>1, FS_Subset, FS_CardinalityType
<1>3. s \in [1..Cardinality(S) -> S]
      /\ \A j, k \in DOMAIN s : s[j] = s[k] => j = k
  BY DEF Orders
<1>4. s \in Seq(Parts) /\ Len(s) = Cardinality(S) /\ DOMAIN s = 1..Cardinality(S)
  BY <1>2, <1>3
<1>5. s \in Injection(1..Cardinality(S), S)
  BY <1>3, <1>4 DEF Injection, IsInjective
<1>6. IsFiniteSet(1..Cardinality(S)) /\ Cardinality(1..Cardinality(S)) = Cardinality(S)
  BY <1>2, FS_Interval
<1>7. s \in Surjection(1..Cardinality(S), S)
  BY <1>2, <1>5, <1>6, FS_Injection
<1>8. \A p \in S : \E k \in DOMAIN s : s[k] = p
  BY <1>4, <1>7 DEF Surjection
<1>9. QED
  BY <1>2, <1>4, <1>8

LEMMA DownInvInit == Init => DownInv
<1> SUFFICES ASSUME Init PROVE DownInv
  OBVIOUS
<1>1. PICK S \in RecordedSets : records \in Orders(S)
  BY DEF Init
<1>2. records \in Seq(Parts) /\ RecordsCover
  BY <1>1, OrdersCover, DownloadAssumption DEF RecordsCover, Threads
<1>3. out = <<>> /\ out \in Seq([part : Parts, data : {"stale", "whole", "cut"}])
      /\ Len(out) = 0
  BY EmptySeq DEF Init
<1>4. linked \subseteq 0..(NumAccounts - 1) /\ answers \in Networks
      /\ output \in Outputs
  BY DownloadAssumption DEF Init
<1>5. TypeOK
  BY <1>2, <1>3, <1>4, DownloadAssumption DEF Init, TypeOK, Threads
<1>6. main = "starting" /\ k_out = 0 /\ \A k \in Threads : thread[k] # "finished"
  BY DEF Init, Threads
<1>7. NothingOutOfPlace /\ NothingStale
  BY <1>3 DEF NothingOutOfPlace, NothingStale
<1>8. QED
  BY <1>2, <1>3, <1>5, <1>6, <1>7
  DEF DownInv, FinishedMeansWhole, CopyKeepsPace, NothingSpoiled

LEMMA StartKeepsInv == DownInv /\ Start => DownInv'
<1> SUFFICES ASSUME DownInv, Start PROVE DownInv'
  OBVIOUS
<1>1. temp' = [p \in Parts |-> "absent"]
  BY DEF Start, NoTemp
<1>2. TypeOK'
  BY <1>1 DEF Start, given, DownInv, TypeOK, Threads
<1>3. FinishedMeansWhole'
  BY DEF Start, given, DownInv, FinishedMeansWhole, Threads
<1>4. QED
  BY <1>1, <1>2, <1>3
  DEF Start, given, DownInv, RecordsCover, Threads, CopyKeepsPace,
      NothingSpoiled, NothingOutOfPlace, NothingStale
LEMMA StartFailsKeepsInv == DownInv /\ StartFails => DownInv'
<1> SUFFICES ASSUME DownInv, StartFails PROVE DownInv'
  OBVIOUS
<1>1. main' \in {"threw", "dead"} /\ temp' \in {temp, NoTemp}
      /\ UNCHANGED <<given, ghosts, thread, k_out, out, out_good>>
  BY DEF StartFails
<1>2. TypeOK'
  BY <1>1 DEF NoTemp, given, DownInv, TypeOK, Threads
<1>3. QED
  BY <1>1, <1>2
  DEF given, DownInv, RecordsCover, Threads, FinishedMeansWhole, CopyKeepsPace,
      NothingSpoiled, NothingOutOfPlace, NothingStale

\* Each thread fetches a part of the file.
LEMMA RecordsAreParts ==
  ASSUME DownInv, NEW k \in Threads
  PROVE  records[k] \in Parts
<1>1. records \in Seq(Parts)
  BY DEF DownInv, TypeOK
<1>2. k \in 1..Len(records)
  BY <1>1, LenProperties DEF Threads
<1>3. QED
  BY <1>1, <1>2, ElementOfSeq

\* A thread that moves, and leaves its part file alone unless it finishes.
LEMMA ThreadMoveKeepsInv ==
  ASSUME DownInv, NEW k \in Threads, NEW from, NEW to, ThreadGoto(k, from, to),
         to \in {"looking", "inserting", "fetching", "finished"},
         ghosts' \subseteq 0..(NumAccounts - 1),
         \/ to # "finished" /\ UNCHANGED temp
         \/ /\ to = "finished"
            /\ \E a \in answers \ {"refused"} : temp' = [temp EXCEPT ![records[k]] = a]
  PROVE  DownInv'
<1> USE DEF ThreadGoto, given
<1>1. main = "joining" /\ thread' = [thread EXCEPT ![k] = to]
      /\ UNCHANGED <<main, records, linked, answers, output, k_out, out, out_good>>
  OBVIOUS
<1>2. answers \subseteq AllAnswers /\ records[k] \in Parts
  BY RecordsAreParts, DownloadAssumption DEF DownInv, TypeOK
<1>3. /\ temp' \in [Parts -> {"absent", "stale", "empty", "whole", "cut"}]
      /\ \A p \in Parts : temp'[p] # "stale"
  <2>1. /\ temp \in [Parts -> {"absent", "stale", "empty", "whole", "cut"}]
        /\ \A p \in Parts : temp[p] # "stale"
    BY <1>1 DEF DownInv, TypeOK
  <2>2. ASSUME NEW a \in answers \ {"refused"},
               temp' = [temp EXCEPT ![records[k]] = a]
        PROVE  <1>3!1 /\ <1>3!2
    <3>1. a \in {"whole", "cut", "empty"}
      BY <1>2, <2>2 DEF AllAnswers
    <3>2. QED
      BY <1>2, <2>1, <2>2, <3>1
  <2>3. QED
    BY <2>1, <2>2
<1>4. TypeOK'
  BY <1>1, <1>3 DEF DownInv, TypeOK, Threads
<1>5. FinishedMeansWhole'
  <2> SUFFICES ASSUME Sound, NEW j \in Threads, thread'[j] = "finished"
               PROVE  temp'[records[j]] = "whole"
    BY <1>1 DEF FinishedMeansWhole, Sound, Threads
  <2>1. records[j] \in Parts
    BY RecordsAreParts
  <2>2. CASE j # k
    <3>1. thread[j] = "finished"
      BY <1>1, <2>2 DEF DownInv, TypeOK
    <3>2. temp[records[j]] = "whole"
      BY <1>1, <3>1 DEF DownInv, FinishedMeansWhole
    <3>3. QED
      BY <1>2, <2>1, <3>2 DEF Sound, DownInv, TypeOK
  <2>3. CASE j = k
    BY <1>1, <1>2, <2>3 DEF Sound, DownInv, TypeOK
  <2>4. QED
    BY <2>2, <2>3
<1>6. QED
  BY <1>1, <1>3, <1>4, <1>5
  DEF DownInv, RecordsCover, Threads, CopyKeepsPace, NothingSpoiled,
      NothingOutOfPlace, NothingStale

LEMMA AccountInRange ==
  ASSUME DownInv, NEW k \in Threads
  PROVE  AccountOfThread(k) \in 0..(NumAccounts - 1)
<1>1. records[k] \in Nat /\ NumAccounts \in Nat \ {0}
  BY DownloadAssumption DEF DownInv, TypeOK, Threads, Parts
<1>2. QED
  BY <1>1 DEF AccountOfThread, AccountOf

LEMMA ThreadStepKeepsInv ==
  ASSUME DownInv, NEW k \in Threads, ThreadStep(k)
  PROVE  DownInv'
<1>1. ghosts \subseteq 0..(NumAccounts - 1)
  BY DEF DownInv, TypeOK
<1>2. CASE FindAccount(k)
  BY <1>1, <1>2, ThreadMoveKeepsInv DEF FindAccount
<1>3. CASE InsertAccount(k)
  BY <1>1, <1>3, AccountInRange, ThreadMoveKeepsInv DEF InsertAccount
<1>4. CASE FetchAnswered(k)
  BY <1>1, <1>4, ThreadMoveKeepsInv DEF FetchAnswered
<1>5. CASE FetchRefused(k)
  BY <1>5
  DEF FetchRefused, given, DownInv, TypeOK, RecordsCover, Threads, Sound,
      FinishedMeansWhole, CopyKeepsPace, NothingSpoiled, NothingOutOfPlace,
      NothingStale
<1>6. QED
  BY <1>2, <1>3, <1>4, <1>5 DEF ThreadStep

LEMMA RaceKeepsInv == DownInv /\ RaceOnAccounts => DownInv'
  BY DEF RaceOnAccounts, given, DownInv, TypeOK, RecordsCover, Threads, Sound,
      FinishedMeansWhole, CopyKeepsPace, NothingSpoiled, NothingOutOfPlace,
      NothingStale

LEMMA JoinAllKeepsInv == DownInv /\ JoinAll => DownInv'
<1> SUFFICES ASSUME DownInv, JoinAll PROVE DownInv'
  OBVIOUS
<1> USE DEF JoinAll, given
<1>1. out_good' \in BOOLEAN /\ (output = "open" => out_good')
  OBVIOUS
<1>2. TypeOK'
  BY <1>1 DEF DownInv, TypeOK, Threads
<1>3. Len(out) = k_out /\ Len(out) = 0
  BY DEF DownInv
<1>4. QED
  BY <1>1, <1>2, <1>3
  DEF DownInv, RecordsCover, Threads, FinishedMeansWhole, Sound, CopyKeepsPace,
      NothingSpoiled, NothingOutOfPlace, NothingStale

LEMMA CopyPartKeepsInv == DownInv /\ CopyPart => DownInv'
<1> SUFFICES ASSUME DownInv, CopyPart PROVE DownInv'
  OBVIOUS
<1> DEFINE piece == [part |-> k_out, data |-> temp[k_out]]
<1>1. /\ main = "copying" /\ k_out < Len(records) /\ k_out' = k_out + 1
      /\ out_good' = (out_good /\ HasBytes(k_out))
      /\ out' = IF out_good' THEN Append(out, piece) ELSE out
      /\ UNCHANGED <<main, records, linked, answers, output, ghosts, thread, temp>>
  BY DEF CopyPart, given
<1>2. k_out \in Parts /\ k_out \in Nat /\ k_out' \in 0..Total
  BY <1>1, DownloadAssumption DEF DownInv, TypeOK, RecordsCover, Parts
<1>3. out \in Seq([part : Parts, data : {"stale", "whole", "cut"}])
      /\ Len(out) \in Nat
  BY DEF DownInv, TypeOK
<1>4. out_good \in BOOLEAN /\ HasBytes(k_out) \in BOOLEAN /\ out_good' \in BOOLEAN
  BY <1>1, Zenon DEF DownInv, TypeOK, HasBytes
<1>5. CASE ~out_good'
  <2>1. out' = out
    BY <1>1, <1>5
  <2>2. TypeOK'
    BY <1>1, <1>2, <1>4, <2>1 DEF DownInv, TypeOK, Threads
  <2>3. NothingSpoiled'
    <3> SUFFICES ASSUME Len(records) = Total, output = "open", Sound PROVE FALSE
      BY <1>1 DEF NothingSpoiled, Sound
    <3>1. out_good
      BY <1>1 DEF DownInv, NothingSpoiled
    <3>2. PICK k \in Threads : records[k] = k_out
      BY <1>2 DEF DownInv, RecordsCover
    <3>3. temp[k_out] = "whole"
      BY <1>1, <3>2 DEF DownInv, FinishedMeansWhole, CopyKeepsPace
    <3>4. QED
      BY <1>1, <1>2, <1>5, <3>1, <3>3 DEF HasBytes
  <2>4. QED
    BY <1>1, <1>5, <2>1, <2>2, <2>3
    DEF DownInv, RecordsCover, Threads, FinishedMeansWhole, Sound, CopyKeepsPace,
        NothingOutOfPlace, NothingStale
<1>6. CASE out_good'
  <2>1. out_good /\ HasBytes(k_out) /\ out' = Append(out, piece) /\ Len(out) = k_out
    BY <1>1, <1>4, <1>6 DEF DownInv, CopyKeepsPace
  <2>2. temp[k_out] \in {"whole", "cut"}
    BY <1>1, <1>2, <2>1 DEF DownInv, TypeOK, HasBytes
  <2>3. piece \in [part : Parts, data : {"stale", "whole", "cut"}]
    BY <1>2, <2>2
  <2>4. /\ out' \in Seq([part : Parts, data : {"stale", "whole", "cut"}])
        /\ Len(out') = k_out + 1
        /\ \A k \in 1..k_out : out'[k] = out[k]
        /\ out'[k_out + 1] = piece
    BY <1>3, <2>1, <2>3, AppendProperties
  <2>5. TypeOK'
    BY <1>1, <1>2, <1>4, <2>4 DEF DownInv, TypeOK, Threads
  <2>6. \A k \in 1..Len(out') : k \in 1..k_out \/ k = k_out + 1
    BY <1>2, <2>4
  <2>7. NothingOutOfPlace' /\ NothingStale'
    BY <1>2, <2>1, <2>2, <2>4, <2>6 DEF DownInv, NothingOutOfPlace, NothingStale
  <2>8. NothingSpoiled'
    <3> SUFFICES ASSUME Len(records) = Total, output = "open", Sound
                 PROVE  \A k \in 1..Len(out') : out'[k].data = "whole"
      BY <1>1, <1>6 DEF NothingSpoiled, Sound
    <3>1. PICK k \in Threads : records[k] = k_out
      BY <1>2 DEF DownInv, RecordsCover
    <3>2. temp[k_out] = "whole"
      BY <1>1, <3>1 DEF DownInv, FinishedMeansWhole, CopyKeepsPace
    <3>3. QED
      BY <1>1, <2>1, <2>4, <2>6, <3>2 DEF DownInv, NothingSpoiled
  <2>9. QED
    BY <1>1, <2>4, <2>5, <2>7, <2>8
    DEF DownInv, RecordsCover, Threads, FinishedMeansWhole, Sound, CopyKeepsPace
<1>7. QED
  BY <1>4, <1>5, <1>6

LEMMA CopyShortKeepsInv == DownInv /\ CopyShort => DownInv'
<1> SUFFICES ASSUME DownInv, CopyShort PROVE DownInv'
  OBVIOUS
<1> DEFINE piece == [part |-> k_out, data |-> "cut"]
<1>1. /\ main = "copying" /\ k_out < Len(records) /\ k_out' = k_out + 1
      /\ output = "full" /\ out_good /\ out_good' \in BOOLEAN
      /\ UNCHANGED <<main, records, linked, answers, output, ghosts, thread, temp>>
  BY DEF CopyShort, given
<1>2. k_out \in Parts /\ k_out \in Nat /\ k_out' \in 0..Total
  BY <1>1, DownloadAssumption DEF DownInv, TypeOK, RecordsCover, Parts
<1>3. /\ out \in Seq([part : Parts, data : {"stale", "whole", "cut"}])
      /\ Len(out) = k_out
  BY <1>1 DEF DownInv, TypeOK, CopyKeepsPace
<1>4. CASE out' = out /\ ~out_good'
  <2>1. TypeOK'
    BY <1>1, <1>2, <1>3, <1>4 DEF DownInv, TypeOK, Threads
  <2>2. QED
    BY <1>1, <1>4, <2>1
    DEF DownInv, RecordsCover, Threads, FinishedMeansWhole, Sound, CopyKeepsPace,
        NothingSpoiled, NothingOutOfPlace, NothingStale
<1>5. CASE out' = Append(out, piece)
  <2>1. piece \in [part : Parts, data : {"stale", "whole", "cut"}]
    BY <1>2
  <2>2. /\ out' \in Seq([part : Parts, data : {"stale", "whole", "cut"}])
        /\ Len(out') = k_out + 1
        /\ \A k \in 1..k_out : out'[k] = out[k]
        /\ out'[k_out + 1] = piece
    BY <1>3, <1>5, <2>1, AppendProperties
  <2>3. TypeOK'
    BY <1>1, <1>2, <2>2 DEF DownInv, TypeOK, Threads
  <2>4. \A k \in 1..Len(out') : k \in 1..k_out \/ k = k_out + 1
    BY <1>2, <2>2
  <2>5. NothingOutOfPlace' /\ NothingStale'
    BY <1>2, <1>3, <2>2, <2>4 DEF DownInv, NothingOutOfPlace, NothingStale
  <2>6. QED
    BY <1>1, <2>2, <2>3, <2>5
    DEF DownInv, RecordsCover, Threads, FinishedMeansWhole, Sound, CopyKeepsPace,
        NothingSpoiled
<1>6. QED
  BY <1>4, <1>5 DEF CopyShort

LEMMA CompleteKeepsInv == DownInv /\ (Complete \/ CleanupFails) => DownInv'
<1> SUFFICES ASSUME DownInv, Complete \/ CleanupFails PROVE DownInv'
  OBVIOUS
<1>1. /\ main = "copying" /\ k_out = Len(records)
      /\ main' \in {"completed", "threw"} /\ temp' \in {temp, NoTemp}
      /\ UNCHANGED <<given, ghosts, thread, k_out, out, out_good>>
  BY DEF Complete, CleanupFails
<1>2. TypeOK'
  BY <1>1 DEF NoTemp, given, DownInv, TypeOK, Threads
<1>3. QED
  BY <1>1, <1>2
  DEF given, DownInv, RecordsCover, Threads, FinishedMeansWhole, Sound,
      CopyKeepsPace, NothingSpoiled, NothingOutOfPlace, NothingStale

LEMMA DownInvStep == DownInv /\ [Next]_vars => DownInv'
<1> SUFFICES ASSUME DownInv, [Next]_vars PROVE DownInv'
  OBVIOUS
<1>1. CASE UNCHANGED vars
  BY <1>1
  DEF vars, given, DownInv, TypeOK, RecordsCover, Threads, FinishedMeansWhole,
      Sound, CopyKeepsPace, NothingSpoiled, NothingOutOfPlace, NothingStale
<1>2. CASE MainStep
  BY <1>2, StartKeepsInv, StartFailsKeepsInv, JoinAllKeepsInv, CopyPartKeepsInv,
     CopyShortKeepsInv, CompleteKeepsInv DEF MainStep
<1>3. QED
  BY <1>1, <1>2, ThreadStepKeepsInv, RaceKeepsInv DEF Next, Over

\* DownInv holds in every reachable state of a download (Shell.cpp:215-259).
THEOREM DownloadInvariant == Spec => []DownInv
<1>1. QED
  BY DownInvInit, DownInvStep, PTL DEF Spec

\* Whatever is missing or fails, no part is written at the place of another.
THEOREM PartsInPlace == Spec => []NothingOutOfPlace
<1>1. DownInv => NothingOutOfPlace
  BY DEF DownInv
<1>2. QED
  BY <1>1, DownloadInvariant, PTL

\* No leftover of an earlier download reaches the output.
THEOREM LeftoversStayOut == Spec => []NothingStale
<1>1. DownInv => NothingStale
  BY DEF DownInv
<1>2. QED
  BY <1>1, DownloadInvariant, PTL

\* With every part recorded and no connection broken within an answer, a download
\* that says it completed wrote the whole file, whatever the order of the records.
THEOREM CompletedMeansWhole == Spec => []BitPerfect
<1>1. DownInv => BitPerfect
  <2> SUFFICES ASSUME DownInv, Len(records) = Total, output = "open", Sound,
                      main = "completed"
               PROVE  out = WholeFile
    BY DEF BitPerfect, Sound
  <2>1. Len(out) = Total /\ \A k \in 1..Len(out) : out[k].data = "whole"
    BY DEF DownInv, CopyKeepsPace, NothingSpoiled
  <2>2. \A k \in 1..Total : out[k] = [part |-> k - 1, data |-> "whole"]
    <3> SUFFICES ASSUME NEW k \in 1..Total
                 PROVE  out[k] = [part |-> k - 1, data |-> "whole"]
      OBVIOUS
    <3>1. out[k] \in [part : Parts, data : {"stale", "whole", "cut"}]
      BY <2>1, ElementOfSeq DEF DownInv, TypeOK
    <3>2. out[k].part = k - 1 /\ out[k].data = "whole"
      BY <2>1 DEF DownInv, NothingOutOfPlace
    <3>3. QED
      BY <3>1, <3>2
  <2>3. out = [k \in 1..Len(out) |-> out[k]]
    BY DEF DownInv, TypeOK
  <2>4. QED
    BY <2>1, <2>2, <2>3 DEF WholeFile
<1>2. QED
  BY <1>1, DownloadInvariant, PTL

\* Every variable of a download keeps its range; in particular the copy never asks
\* for a part beyond the last one.
THEOREM DownloadTypeCorrect == Spec => []TypeOK
<1>1. DownInv => TypeOK
  BY DEF DownInv
<1>2. QED
  BY <1>1, DownloadInvariant, PTL
==============================================================================
