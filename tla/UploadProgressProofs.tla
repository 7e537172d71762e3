------------------------ MODULE UploadProgressProofs -------------------------
(***************************************************************************)
(* Proofs about FileReader and UploadProgress, for every chunk size and    *)
(* every file: the chunks tile the file, the atomic sum is what the parts  *)
(* have sent, and the bar follows it without going back.                   *)
(*                                                                         *)
(* The sum is a fold.  An induction over its set of indices is done with a *)
(* set in the place of the predicate: a set that has an element outside it *)
(* has a least one, by WFMin.                                              *)
(***************************************************************************)
EXTENDS UploadProgress, FiniteSetTheorems, SequenceTheorems, TLAPS

------------------------------------------------------------------------------
(* Induction, and sums of the values of a function.                         *)

LEMMA SetOfNaturals ==
  ASSUME NEW S, 0 \in S, \A n \in Nat : n \in S => n + 1 \in S
  PROVE  Nat \subseteq S
<1> DEFINE T == Nat \ S
<1> SUFFICES ASSUME T # {} PROVE FALSE
  OBVIOUS
<1>1. PICK m \in T : \A n \in T : <<n, m>> \notin OpToRel(<, Nat)
  BY NatLessThanWellFounded, WFMin
<1>2. m \in Nat /\ m # 0
  BY <1>1
<1>3. m - 1 \in Nat /\ m - 1 < m /\ m = (m - 1) + 1
  BY <1>2
<1>4. m - 1 \in T
  BY <1>1, <1>3
<1>5. <<m - 1, m>> \in OpToRel(<, Nat)
  BY <1>2, <1>3 DEF OpToRel
<1>6. QED
  BY <1>1, <1>4, <1>5

LEMMA SetOfSubsets ==
  ASSUME NEW D, IsFiniteSet(D), NEW P,
         \A s \in SUBSET D : (\A u \in SUBSET s : u # s => u \in P) => s \in P
  PROVE  SUBSET D \subseteq P
<1> DEFINE T == (SUBSET D) \ P
<1> SUFFICES ASSUME T # {} PROVE FALSE
  OBVIOUS
<1>1. T \subseteq FiniteSubsetsOf(D)
  BY FS_Subset DEF FiniteSubsetsOf
<1>2. IsWellFoundedOn(StrictSubsetOrdering(D), FiniteSubsetsOf(D))
  BY FS_StrictSubsetOrderingWellFounded
<1>3. PICK s \in T : \A u \in T : <<u, s>> \notin StrictSubsetOrdering(D)
  <2> HIDE DEF T
  <2>1. QED
    BY <1>1, <1>2, WFMin
<1>4. \A u \in SUBSET s : u # s => u \in P
  BY <1>3 DEF StrictSubsetOrdering
<1>5. QED
  BY <1>3, <1>4

\* The sum that BarTruthful speaks of.
SumOf(f) == FoldFunction(+, 0, f)

Any(s) == CHOOSE x \in s : TRUE

\* How a sum over s goes on from the one over the rest of it.
Extended(t, f, s) == IF s = {} THEN 0 ELSE f[Any(s)] + t[s \ {Any(s)}]

\* t has the sums of f over all subsets of D.
SumTable(t, f, D) == t = [s \in SUBSET D |-> Extended(t, f, s)]

LEMMA SumTableExists ==
  ASSUME NEW D, IsFiniteSet(D), NEW f
  PROVE  \E t : SumTable(t, f, D)
<1> DEFINE UpTo(t, n) == \A s \in SUBSET D : Cardinality(s) <= n => t[s] = Extended(t, f, s)
           S == {n \in Nat : \E t : UpTo(t, n)}
<1>1. \A s \in SUBSET D : IsFiniteSet(s) /\ Cardinality(s) \in Nat
  BY FS_Subset, FS_CardinalityType
<1>2. 0 \in S
  <2> DEFINE t == [s \in SUBSET D |-> 0]
  <2>1. ASSUME NEW s \in SUBSET D, Cardinality(s) <= 0 PROVE s = {}
    BY <1>1, <2>1, FS_EmptySet
  <2>2. UpTo(t, 0)
    BY <2>1 DEF Extended
  <2>3. QED
    BY <2>2
<1>3. ASSUME NEW n \in Nat, n \in S PROVE n + 1 \in S
  <2>1. PICK t : UpTo(t, n)
    BY <1>3
  <2> DEFINE next == [s \in SUBSET D |-> Extended(t, f, s)]
  <2>2. \A s \in SUBSET D : Cardinality(s) <= n => next[s] = t[s]
    BY <2>1
  <2>3. ASSUME NEW s \in SUBSET D, Cardinality(s) <= n + 1, s # {}
        PROVE  next[s] = Extended(next, f, s)
    <3>1. Any(s) \in s
      BY <2>3 DEF Any
    <3>2. s \ {Any(s)} \in SUBSET D /\ Cardinality(s \ {Any(s)}) <= n
      BY <1>1, <2>3, <3>1, FS_RemoveElement
    <3>3. next[s \ {Any(s)}] = t[s \ {Any(s)}]
      BY <2>2, <3>2
    <3>4. QED
      BY <2>3, <3>3 DEF Extended
  <2>4. UpTo(next, n + 1)
    <3>1. next[{}] = Extended(next, f, {})
      BY DEF Extended
    <3>2. QED
      BY <2>3, <3>1
  <2>5. \E u : UpTo(u, n + 1)
    <3> HIDE DEF UpTo, next
    <3>1. QED
      BY <2>4
  <2>6. QED
    BY <2>5
<1>4. Cardinality(D) \in S
  BY <1>1, <1>2, <1>3, SetOfNaturals
<1>5. PICK t : UpTo(t, Cardinality(D))
  BY <1>4
<1> DEFINE table == [s \in SUBSET D |-> t[s]]
<1>6. ASSUME NEW s \in SUBSET D PROVE table[s] = Extended(table, f, s)
  <2>1. Cardinality(s) <= Cardinality(D)
    BY FS_Subset
  <2>2. table[s] = Extended(t, f, s)
    BY <1>5, <2>1
  <2>3. s \ {Any(s)} \in SUBSET D
    OBVIOUS
  <2>4. QED
    BY <2>2, <2>3 DEF Extended
<1>7. SumTable(table, f, D)
  BY <1>6 DEF SumTable
<1>8. QED
  BY <1>7

LEMMA FoldIsInTable ==
  ASSUME NEW D, IsFiniteSet(D), NEW f, DOMAIN f = D
  PROVE  \E t : SumTable(t, f, D) /\ SumOf(f) = t[D]
<1> DEFINE Q(v) == v = [s \in SUBSET D |-> IF s = {} THEN 0
                                           ELSE f[CHOOSE x \in s : TRUE]
                                                + v[s \ {CHOOSE x \in s : TRUE}]]
           t == CHOOSE v : Q(v)
<1>1. SumOf(f) = t[D]
  BY Zenon DEF SumOf, FoldFunction, FoldFunctionOnSet, MapThenFoldSet
<1>2. \A v : SumTable(v, f, D) <=> Q(v)
  BY Zenon DEF SumTable, Extended, Any
<1>3. \E v : Q(v)
  <2> HIDE DEF Q
  <2>1. QED
    BY <1>2, SumTableExists
<1>4. Q(t)
  <2> HIDE DEF Q
  <2>1. QED
    BY <1>3
<1>5. QED
  BY <1>1, <1>2, <1>4

LEMMA TableSteps ==
  ASSUME NEW D, NEW f, NEW t, SumTable(t, f, D), NEW s \in SUBSET D
  PROVE  t[s] = Extended(t, f, s) /\ (s # {} => Any(s) \in s)
<1>1. t[s] = Extended(t, f, s)
  BY Zenon DEF SumTable
<1>2. s # {} => Any(s) \in s
  BY DEF Any
<1>3. QED
  BY <1>1, <1>2

LEMMA SumsTyped ==
  ASSUME NEW D, IsFiniteSet(D), NEW f \in [D -> Int], NEW t, SumTable(t, f, D)
  PROVE  \A s \in SUBSET D : t[s] \in Int
<1> DEFINE P == {s \in SUBSET D : t[s] \in Int}
<1>1. ASSUME NEW s \in SUBSET D, \A u \in SUBSET s : u # s => u \in P
      PROVE  s \in P
  <2>1. t[s] = Extended(t, f, s) /\ (s # {} => Any(s) \in s)
    BY TableSteps
  <2>2. CASE s = {}
    BY <2>1, <2>2 DEF Extended
  <2>3. CASE s # {}
    <3>1. s \ {Any(s)} \in P /\ f[Any(s)] \in Int
      BY <1>1, <2>1, <2>3
    <3>2. QED
      BY <2>1, <2>3, <3>1 DEF Extended
  <2>4. QED
    BY <2>2, <2>3
<1>2. SUBSET D \subseteq P
  <2> HIDE DEF P
  <2>1. QED
    BY <1>1, SetOfSubsets
<1>3. QED
  BY <1>2

\* Any element can be taken out first.
Splits(t, f, D) ==
    \A s \in SUBSET D : \A x \in s : t[s] = f[x] + t[s \ {x}]

\* Whatever element the fold takes first, any other can be taken out as well.
LEMMA SumsSplit ==
  ASSUME NEW D, IsFiniteSet(D), NEW f \in [D -> Int], NEW t, SumTable(t, f, D)
  PROVE  Splits(t, f, D)
<1> DEFINE P == {s \in SUBSET D : \A x \in s : t[s] = f[x] + t[s \ {x}]}
<1>1. ASSUME NEW s \in SUBSET D, \A u \in SUBSET s : u # s => u \in P,
             NEW x \in s
      PROVE  t[s] = f[x] + t[s \ {x}]
  <2> DEFINE c == Any(s)
  <2>1. c \in s /\ t[s] = f[c] + t[s \ {c}]
    <3>1. t[s] = Extended(t, f, s) /\ Any(s) \in s
      BY TableSteps
    <3>2. QED
      BY <3>1 DEF Extended
  <2>2. CASE x = c
    BY <2>1, <2>2
  <2>3. CASE x # c
    <3>1. s \ {c} \in P /\ x \in s \ {c} /\ s \ {x} \in P /\ c \in s \ {x}
      BY <1>1, <2>1, <2>3
    <3>2. /\ t[s \ {c}] = f[x] + t[(s \ {c}) \ {x}]
          /\ t[s \ {x}] = f[c] + t[(s \ {x}) \ {c}]
      BY <3>1
    <3> DEFINE r == t[(s \ {c}) \ {x}]
    <3>3. (s \ {c}) \ {x} = (s \ {x}) \ {c} /\ (s \ {c}) \ {x} \in SUBSET D
      OBVIOUS
    <3>4. r \in Int
      BY <3>3, SumsTyped
    <3>5. t[s] = f[c] + (f[x] + r) /\ t[s \ {x}] = f[c] + r
      BY <2>1, <3>2, <3>3
    <3>6. f[c] \in Int /\ f[x] \in Int
      BY <2>1
    <3>7. QED
      <4> HIDE DEF c, r
      <4>1. QED
        BY <3>4, <3>5, <3>6
  <2>4. QED
    BY <2>2, <2>3
<1>2. ASSUME NEW s \in SUBSET D, \A u \in SUBSET s : u # s => u \in P
      PROVE  s \in P
  BY <1>1, <1>2
<1>3. SUBSET D \subseteq P
  <2> HIDE DEF P
  <2>1. QED
    BY <1>2, SetOfSubsets
<1>4. QED
  BY <1>3 DEF Splits

\* Functions that agree on a set have the same sum over it.
LEMMA SumsAgree ==
  ASSUME NEW D, IsFiniteSet(D), NEW f, NEW g,
         NEW t, SumTable(t, f, D), NEW u, SumTable(u, g, D),
         NEW E \in SUBSET D, \A x \in E : f[x] = g[x]
  PROVE  t[E] = u[E]
<1> DEFINE P == {s \in SUBSET E : t[s] = u[s]}
<1>1. IsFiniteSet(E)
  BY FS_Subset
<1>2. ASSUME NEW s \in SUBSET E, \A v \in SUBSET s : v # s => v \in P
      PROVE  s \in P
  <2>1. t[s] = Extended(t, f, s) /\ u[s] = Extended(u, g, s) /\ (s # {} => Any(s) \in s)
    BY TableSteps
  <2>2. CASE s = {}
    BY <2>1, <2>2 DEF Extended
  <2>3. CASE s # {}
    <3>1. s \ {Any(s)} \in P /\ f[Any(s)] = g[Any(s)]
      BY <1>2, <2>1, <2>3
    <3>2. QED
      BY <2>1, <2>3, <3>1 DEF Extended
  <2>4. QED
    BY <2>2, <2>3
<1>3. SUBSET E \subseteq P
  <2> HIDE DEF P
  <2>1. QED
    BY <1>1, <1>2, SetOfSubsets
<1>4. QED
  BY <1>3

\* The sum goes from f to g by the change at p.
SumFollows(f, g, p) == SumOf(f) \in Int /\ SumOf(g) = SumOf(f) + (g[p] - f[p])

LEMMA SumChange ==
  ASSUME NEW D, IsFiniteSet(D), NEW f \in [D -> Int], NEW g \in [D -> Int],
         NEW p \in D, \A x \in D \ {p} : f[x] = g[x]
  PROVE  SumFollows(f, g, p)
<1> DEFINE rest == D \ {p}
<1>1. PICK t : SumTable(t, f, D) /\ SumOf(f) = t[D]
  BY FoldIsInTable
<1>2. PICK u : SumTable(u, g, D) /\ SumOf(g) = u[D]
  BY FoldIsInTable
<1>3. Splits(t, f, D) /\ Splits(u, g, D)
  BY <1>1, <1>2, SumsSplit
<1>4. t[D] \in Int /\ t[rest] \in Int
  BY <1>1, SumsTyped
<1>5. \A E \in SUBSET D : (\A x \in E : f[x] = g[x]) => t[E] = u[E]
  BY <1>1, <1>2, SumsAgree
<1>6. t[D] = f[p] + t[rest] /\ u[D] = g[p] + u[rest] /\ t[rest] = u[rest]
  BY <1>3, <1>5 DEF Splits
<1>7. QED
  <2> HIDE DEF rest
  <2>1. f[p] \in Int /\ g[p] \in Int
    OBVIOUS
  <2>2. QED
    BY <1>1, <1>2, <1>4, <1>6, <2>1 DEF SumFollows

LEMMA SumOfZeros ==
  ASSUME NEW D, IsFiniteSet(D)
  PROVE  SumOf([x \in D |-> 0]) = 0
<1> DEFINE f == [x \in D |-> 0]
<1>1. DOMAIN f = D /\ \A x \in D : f[x] = 0
  OBVIOUS
<1> HIDE DEF f
<1>2. PICK t : SumTable(t, f, D) /\ SumOf(f) = t[D]
  BY <1>1, FoldIsInTable
<1> DEFINE P == {s \in SUBSET D : t[s] = 0}
<1>3. ASSUME NEW s \in SUBSET D, \A u \in SUBSET s : u # s => u \in P
      PROVE  s \in P
  <2>1. t[s] = Extended(t, f, s) /\ (s # {} => Any(s) \in s)
    BY <1>2, TableSteps
  <2>2. CASE s = {}
    BY <2>1, <2>2 DEF Extended
  <2>3. CASE s # {}
    <3>1. s \ {Any(s)} \in P /\ f[Any(s)] = 0
      BY <1>1, <1>3, <2>1, <2>3
    <3>2. QED
      BY <2>1, <2>3, <3>1 DEF Extended
  <2>4. QED
    BY <2>2, <2>3
<1>4. SUBSET D \subseteq P
  <2> HIDE DEF P
  <2>1. QED
    BY <1>3, SetOfSubsets
<1>5. SumOf(f) = 0
  BY <1>2, <1>4
<1>6. QED
  BY <1>5 DEF f
------------------------------------------------------------------------------
(* The chunk plan.                                                          *)

LEMMA Division ==
  ASSUME NEW n \in Nat, NEW c \in Nat \ {0}
  PROVE  /\ n \div c \in Nat
         /\ (n \div c) * c <= n /\ n < (n \div c) * c + c
  OBVIOUS

LEMMA Multiples ==
  ASSUME NEW m \in Nat, NEW n \in Nat, NEW c \in Nat \ {0}
  PROVE  /\ m * c \in Nat /\ (m + 1) * c = m * c + c
         /\ m <= n => m * c <= n * c
         /\ m < n => m * c + c <= n * c
<1>1. m * c \in Nat /\ (m + 1) * c = m * c + c
  OBVIOUS
<1>2. m <= n => m * c <= n * c
  OBVIOUS
<1>3. m + 1 <= n => (m + 1) * c <= n * c
  OBVIOUS
<1>4. QED
  BY <1>1, <1>2, <1>3

\* How far k chunks reach into a file of F bytes.
Covered(F, k) == IF k * ChunkSize <= F THEN k * ChunkSize ELSE F

\* The chunks of a file, one after the other, reach its end and none is empty.
LEMMA ChunkPlanTiles ==
  ASSUME NEW F \in Nat
  PROVE  /\ TotalChunks(F) \in Nat
         /\ Covered(F, 0) = 0 /\ Covered(F, TotalChunks(F)) = F
         /\ \A k \in 0..(TotalChunks(F) - 1) :
               /\ CurrentChunkSize(F, k) \in 1..ChunkSize
               /\ k + 1 < TotalChunks(F) => CurrentChunkSize(F, k) = ChunkSize
               /\ Covered(F, k) = k * ChunkSize /\ Covered(F, k) \in 0..F
               /\ Covered(F, k + 1) = Covered(F, k) + CurrentChunkSize(F, k)
<1> DEFINE T == TotalChunks(F)
<1>1. ChunkSize \in Nat \ {0}
  BY ChunkSizeAssumption
<1>2. T \in Nat /\ T * ChunkSize <= F + ChunkSize - 1 /\ F + ChunkSize - 1 < T * ChunkSize + ChunkSize
  <2>1. F + ChunkSize - 1 \in Nat
    BY <1>1
  <2>2. QED
    BY <1>1, <2>1, Division DEF TotalChunks
<1> HIDE DEF T
<1>3. T * ChunkSize \in Nat /\ F <= T * ChunkSize
  BY <1>1, <1>2, Multiples
<1>4. Covered(F, 0) = 0 /\ Covered(F, T) = F
  BY <1>1, <1>3 DEF Covered
<1>5. ASSUME NEW k \in 0..(T - 1)
      PROVE  /\ CurrentChunkSize(F, k) \in 1..ChunkSize
             /\ k + 1 < T => CurrentChunkSize(F, k) = ChunkSize
             /\ Covered(F, k) = k * ChunkSize /\ Covered(F, k) \in 0..F
             /\ Covered(F, k + 1) = Covered(F, k) + CurrentChunkSize(F, k)
  <2> DEFINE kc == k * ChunkSize
  <2>1. kc \in Nat /\ (k + 1) * ChunkSize = kc + ChunkSize /\ kc + ChunkSize <= T * ChunkSize
    BY <1>1, <1>2, Multiples
  <2>2. k + 1 < T => kc + ChunkSize + ChunkSize <= T * ChunkSize
    <3>1. SUFFICES ASSUME k + 1 < T PROVE (k + 1) * ChunkSize + ChunkSize <= T * ChunkSize
      BY <2>1
    <3>2. QED
      BY <1>1, <1>2, <3>1, Multiples
  <2>3. k + 1 < T \/ k + 1 = T
    BY <1>2
  <2> DEFINE TC == T * ChunkSize
  <2>4. /\ kc \in Nat /\ TC \in Nat /\ kc < F
        /\ k + 1 < T => kc + ChunkSize < F
        /\ k + 1 = T => F <= kc + ChunkSize
    <3>1. k + 1 = T => TC = kc + ChunkSize
      BY <2>1
    <3> HIDE DEF kc, TC
    <3>2. QED
      BY <1>1, <1>2, <1>3, <2>1, <2>2, <3>1 DEF TC
  <2>5. /\ CurrentChunkSize(F, k) = IF F - kc < ChunkSize THEN F - kc ELSE ChunkSize
        /\ Covered(F, k) = IF kc <= F THEN kc ELSE F
        /\ Covered(F, k + 1) = IF kc + ChunkSize <= F THEN kc + ChunkSize ELSE F
    BY <2>1 DEF CurrentChunkSize, Covered
  <2>6. QED
    <3> HIDE DEF kc
    <3>1. /\ CurrentChunkSize(F, k) \in 1..ChunkSize
          /\ k + 1 < T => CurrentChunkSize(F, k) = ChunkSize
          /\ Covered(F, k) = kc /\ Covered(F, k) \in 0..F
          /\ Covered(F, k + 1) = Covered(F, k) + CurrentChunkSize(F, k)
      BY <1>1, <2>3, <2>4, <2>5
    <3>2. QED
      BY <3>1 DEF kc
<1>6. QED
  BY <1>2, <1>4, <1>5 DEF T

\* Parts that send no more than their chunks send no more than the file.
LEMMA SumBounded ==
  ASSUME NEW F \in Nat, NEW D, D = 0..(TotalChunks(F) - 1), NEW f \in [D -> Int],
         \A p \in D : f[p] \in 0..CurrentChunkSize(F, p)
  PROVE  SumOf(f) \in 0..F
<1> DEFINE T == TotalChunks(F)
<1>1. T \in Nat /\ IsFiniteSet(D)
  BY ChunkPlanTiles, FS_Interval
<1>2. PICK t : SumTable(t, f, D) /\ SumOf(f) = t[D]
  BY <1>1, FoldIsInTable
<1>3. Splits(t, f, D)
  BY <1>1, <1>2, SumsSplit
<1> DEFINE S == {k \in Nat : k <= T => t[0..(k - 1)] \in 0..Covered(F, k)}
<1>4. 0 \in S
  <2>1. 0..(0 - 1) = {} /\ {} \in SUBSET D
    OBVIOUS
  <2>2. t[{}] = 0
    <3>1. t[{}] = Extended(t, f, {})
      BY <1>2, <2>1, TableSteps
    <3>2. QED
      BY <3>1 DEF Extended
  <2>3. Covered(F, 0) = 0
    BY ChunkPlanTiles
  <2>4. QED
    BY <2>1, <2>2, <2>3
<1>5. ASSUME NEW k \in Nat, k \in S PROVE k + 1 \in S
  <2> SUFFICES ASSUME k + 1 <= T PROVE t[0..k] \in 0..Covered(F, k + 1)
    OBVIOUS
  <2>1. k \in D /\ k \in 0..(T - 1) /\ t[0..(k - 1)] \in 0..Covered(F, k)
    BY <1>1, <1>5
  <2>2. 0..k \in SUBSET D /\ k \in 0..k /\ (0..k) \ {k} = 0..(k - 1)
    BY <1>1
  <2>3. t[0..k] = f[k] + t[0..(k - 1)]
    BY <1>3, <2>2 DEF Splits
  <2>4. /\ f[k] \in 0..CurrentChunkSize(F, k) /\ CurrentChunkSize(F, k) \in Nat
        /\ Covered(F, k) \in Nat
        /\ Covered(F, k + 1) = Covered(F, k) + CurrentChunkSize(F, k)
    BY <2>1, ChunkPlanTiles, ChunkSizeAssumption
  <2>5. QED
    BY <2>1, <2>3, <2>4
<1>6. T \in S
  BY <1>1, <1>4, <1>5, SetOfNaturals
<1>7. t[D] \in 0..F
  BY <1>1, <1>6, ChunkPlanTiles
<1>8. QED
  BY <1>2, <1>7
------------------------------------------------------------------------------
(* The reader.                                                              *)

\* The stream stands where the chunks read so far end.
ReaderInv ==
    /\ TypeOK
    /\ Len(produced) = i
    /\ position = Covered(fileSize, i)
    /\ \A k \in 1..i :
           produced[k] = [part |-> k - 1, first |-> Covered(fileSize, k - 1),
                          size |-> CurrentChunkSize(fileSize, k - 1)]

LEMMA ReaderInvInit == Init => ReaderInv
<1> SUFFICES ASSUME Init PROVE ReaderInv
  OBVIOUS
<1> USE DEF Init
<1>1. fileSize \in Nat
  BY MaxFileSizeAssumption
<1>2. TotalChunks(fileSize) \in Nat /\ Covered(fileSize, 0) = 0
  BY <1>1, ChunkPlanTiles
<1>3. produced \in Seq(Chunks) /\ Len(produced) = 0
  OBVIOUS
<1>4. QED
  BY <1>1, <1>2, <1>3 DEF ReaderInv, TypeOK

LEMMA ReaderInvNext ==
  ASSUME ReaderInv, [Next]_vars
  PROVE  ReaderInv'
<1>1. CASE ReadChunk
  <2> USE <1>1 DEF ReadChunk
  <2> DEFINE T == TotalChunks(fileSize)
             size == CurrentChunkSize(fileSize, i)
             chunk == [part |-> i, first |-> position, size |-> size]
  <2>1. fileSize \in Nat /\ fileSize \in 0..MaxFileSize /\ fileSize' = fileSize
    BY MaxFileSizeAssumption DEF ReaderInv, TypeOK
  <2>2. /\ T \in Nat /\ Covered(fileSize, T) = fileSize
        /\ \A k \in 0..(T - 1) :
              /\ CurrentChunkSize(fileSize, k) \in 1..ChunkSize
              /\ Covered(fileSize, k) \in 0..fileSize
              /\ Covered(fileSize, k + 1) = Covered(fileSize, k) + CurrentChunkSize(fileSize, k)
    BY <2>1, ChunkPlanTiles
  <2>3. i \in 0..(T - 1) /\ i \in Nat /\ i' = i + 1
    BY <2>2 DEF ReaderInv, TypeOK
  <2>4. position' = Covered(fileSize, i + 1) /\ size \in 1..ChunkSize /\ position \in 0..fileSize
    BY <2>2, <2>3 DEF ReaderInv
  <2>5. position' \in 0..fileSize
    <3>1. i + 1 \in 0..(T - 1) \/ i + 1 = T
      BY <2>2, <2>3
    <3>2. QED
      BY <2>1, <2>2, <2>4, <3>1
  <2>6. chunk \in Chunks
    BY <2>3, <2>4, <2>1 DEF Chunks
  <2>7. produced \in Seq(Chunks) /\ Len(produced) = i /\ produced' = Append(produced, chunk)
    BY DEF ReaderInv, TypeOK
  <2> HIDE DEF chunk
  <2>8. /\ produced' \in Seq(Chunks) /\ Len(produced') = i + 1
        /\ \A k \in 1..i : produced'[k] = produced[k]
        /\ produced'[i + 1] = chunk
    BY <2>6, <2>7, AppendProperties
  <2>9. TypeOK'
    BY <2>1, <2>2, <2>3, <2>5, <2>8 DEF TypeOK
  <2>10. ASSUME NEW k \in 1..(i + 1)
         PROVE  produced'[k] = [part |-> k - 1, first |-> Covered(fileSize, k - 1),
                                size |-> CurrentChunkSize(fileSize, k - 1)]
    <3>1. CASE k \in 1..i
      BY <2>8, <3>1 DEF ReaderInv
    <3>2. CASE k = i + 1
      <4>1. k - 1 = i /\ position = Covered(fileSize, i)
        BY <2>3, <3>2 DEF ReaderInv
      <4>2. QED
        BY <2>8, <3>2, <4>1 DEF chunk
    <3>3. k \in 1..i \/ k = i + 1
      BY <2>3
    <3>4. QED
      BY <3>1, <3>2, <3>3
  <2>11. QED
    BY <2>1, <2>3, <2>4, <2>8, <2>9, <2>10 DEF ReaderInv
<1>2. CASE UNCHANGED vars
  BY <1>2 DEF vars, ReaderInv, TypeOK
<1>3. QED
  BY <1>1, <1>2 DEF Next

LEMMA ReaderTiles == ReaderInv => ChunksTile
<1> SUFFICES ASSUME ReaderInv PROVE ChunksTile
  OBVIOUS
<1> DEFINE T == TotalChunks(fileSize)
<1>1. fileSize \in Nat /\ i \in 0..T /\ Len(produced) = i
  BY MaxFileSizeAssumption DEF ReaderInv, TypeOK
<1>2. /\ T \in Nat /\ Covered(fileSize, T) = fileSize
      /\ \A k \in 0..(T - 1) :
            /\ CurrentChunkSize(fileSize, k) \in 1..ChunkSize
            /\ k + 1 < T => CurrentChunkSize(fileSize, k) = ChunkSize
            /\ Covered(fileSize, k) = k * ChunkSize
  BY <1>1, ChunkPlanTiles
<1>3. ASSUME NEW k \in 1..Len(produced)
      PROVE  /\ produced[k].part = k - 1
             /\ produced[k].first = (k - 1) * ChunkSize
             /\ produced[k].size \in 1..ChunkSize
             /\ k < T => produced[k].size = ChunkSize
  <2>1. k - 1 \in 0..(T - 1) /\ k = (k - 1) + 1 /\ k \in 1..i
    BY <1>1, <1>2
  <2>2. produced[k] = [part |-> k - 1, first |-> Covered(fileSize, k - 1),
                       size |-> CurrentChunkSize(fileSize, k - 1)]
    BY <2>1 DEF ReaderInv
  <2>3. QED
    BY <1>2, <2>1, <2>2
<1>4. i = T => position = fileSize
  BY <1>2 DEF ReaderInv
<1>5. QED
  BY <1>3, <1>4 DEF ChunksTile

\* The chunks that the producer of Shell::uploadFile hands over tile the file,
\* though it reads at the stream's position and never seeks.
THEOREM ChunksTileTheFile == Spec => []ChunksTile
<1>1. ReaderInv /\ [Next]_vars => ReaderInv'
  BY ReaderInvNext
<1>2. QED
  BY ReaderInvInit, ReaderTiles, <1>1, PTL DEF Spec

\* The callbacks leave the reader alone: what holds of it holds meanwhile.
THEOREM CallbacksLeaveTheReader == ProgressSpec => Spec
<1>1. ProgressInit => Init
  BY DEF ProgressInit
<1>2. [ProgressNext]_progressVars => [Next]_vars
  BY DEF ProgressNext, MarkCompleted, Next, progressVars
<1>3. QED
  BY <1>1, <1>2, PTL DEF ProgressSpec, Spec
------------------------------------------------------------------------------
(* The sum and the bar.                                                     *)

\* While callbacks are under way the bar stays behind the sum, and who is to set
\* it holds a value between the two; when nobody is between adding and loading,
\* it holds, or is about to be given, the sum itself.
BarFollows ==
    /\ ~rewound =>
           /\ bar <= uploaded_bytes
           /\ \A p \in Parts : callback[p] = "setting" =>
                  bar <= argument[p] /\ argument[p] <= uploaded_bytes
    /\ (\A p \in Parts : callback[p] \notin {"locking", "locked"}) =>
           /\ \A p \in Parts : callback[p] = "setting" => argument[p] = uploaded_bytes
           /\ (\A p \in Parts : callback[p] = "idle") => bar = uploaded_bytes

ProgressInv ==
    /\ ProgressTypeOK
    /\ ReaderInv
    /\ \A p \in Parts : chunk_uploaded[p] \in 0..CurrentChunkSize(fileSize, p)
    /\ uploaded_bytes = SumOf(chunk_uploaded)
    /\ \A p, q \in Parts :
           callback[p] \in {"locked", "setting"} /\ callback[q] \in {"locked", "setting"} => p = q
    /\ BarFollows

LEMMA PartsFacts ==
  ASSUME ReaderInv
  PROVE  /\ fileSize \in Nat /\ IsFiniteSet(Parts)
         /\ \A p \in Parts : p < Len(produced) =>
                produced[p + 1].size = CurrentChunkSize(fileSize, p)
         /\ \A p \in Parts : CurrentChunkSize(fileSize, p) \in 1..ChunkSize
<1>1. fileSize \in Nat
  BY MaxFileSizeAssumption DEF ReaderInv, TypeOK
<1>2. /\ TotalChunks(fileSize) \in Nat
      /\ \A p \in Parts : CurrentChunkSize(fileSize, p) \in 1..ChunkSize
  BY <1>1, ChunkPlanTiles DEF Parts
<1>3. IsFiniteSet(Parts)
  BY <1>2, FS_Interval DEF Parts
<1>4. ASSUME NEW p \in Parts, p < Len(produced)
      PROVE  produced[p + 1].size = CurrentChunkSize(fileSize, p)
  <2>1. p + 1 \in 1..i /\ (p + 1) - 1 = p
    BY <1>2, <1>4 DEF ReaderInv, TypeOK, Parts
  <2>2. QED
    BY <2>1 DEF ReaderInv
<1>5. QED
  BY <1>1, <1>2, <1>3, <1>4

LEMMA ProgressInvInit == ProgressInit => ProgressInv
<1> SUFFICES ASSUME ProgressInit PROVE ProgressInv
  OBVIOUS
<1> USE DEF ProgressInit
<1>1. ReaderInv
  BY ReaderInvInit
<1>2. /\ fileSize \in Nat /\ IsFiniteSet(Parts)
      /\ \A p \in Parts : CurrentChunkSize(fileSize, p) \in 1..ChunkSize
  BY <1>1, PartsFacts
<1>3. ProgressTypeOK
  <2>1. 0 \in 0..ChunkSize /\ 0 \in 0..fileSize
    BY <1>2, ChunkSizeAssumption
  <2>2. /\ chunk_uploaded \in [Parts -> 0..ChunkSize]
        /\ callback \in [Parts -> {"idle", "locking", "locked", "setting"}]
        /\ argument \in [Parts -> 0..fileSize]
    BY <2>1
  <2>3. QED
    BY <1>1, <2>1, <2>2 DEF ProgressTypeOK, ReaderInv
<1>4. SumOf(chunk_uploaded) = 0
  BY <1>2, SumOfZeros
<1>5. \A p \in Parts : chunk_uploaded[p] = 0 /\ callback[p] = "idle"
  OBVIOUS
<1>6. \A p \in Parts : chunk_uploaded[p] \in 0..CurrentChunkSize(fileSize, p)
  BY <1>2, <1>5
<1>7. BarFollows
  BY <1>5 DEF BarFollows
<1>8. QED
  BY <1>1, <1>3, <1>4, <1>5, <1>6, <1>7 DEF ProgressInv

\* The sum follows what the parts have sent, and never exceeds the file.
LEMMA CallbackKeepsInv ==
  ASSUME ProgressInv, NEW p \in Parts, Callback(p), UNCHANGED <<vars, over>>
  PROVE  ProgressInv'
<1> USE DEF Callback, Goes, CountBytes, vars
<1>1. PICK now_ul \in 0..produced[p + 1].size :
          /\ uploaded_bytes' = uploaded_bytes + (now_ul - chunk_uploaded[p])
          /\ chunk_uploaded' = [chunk_uploaded EXCEPT ![p] = now_ul]
          /\ rewound' = (rewound \/ now_ul < chunk_uploaded[p])
  OBVIOUS
<1>2. /\ fileSize \in Nat /\ IsFiniteSet(Parts) /\ p < Len(produced)
      /\ produced[p + 1].size = CurrentChunkSize(fileSize, p)
      /\ \A q \in Parts : CurrentChunkSize(fileSize, q) \in 1..ChunkSize
  BY PartsFacts DEF ProgressInv
<1>3. Parts' = Parts /\ ReaderInv'
  BY DEF Parts, ProgressInv, ReaderInv, TypeOK
<1>4. /\ chunk_uploaded \in [Parts -> 0..ChunkSize]
      /\ uploaded_bytes \in 0..fileSize /\ bar \in 0..fileSize
      /\ callback \in [Parts -> {"idle", "locking", "locked", "setting"}]
      /\ argument \in [Parts -> 0..fileSize]
  BY DEF ProgressInv, ProgressTypeOK
<1>5. now_ul \in 0..CurrentChunkSize(fileSize, p) /\ now_ul \in 0..ChunkSize /\ now_ul \in Int
  BY <1>2, ChunkSizeAssumption
<1>6. /\ chunk_uploaded' \in [Parts -> 0..ChunkSize]
      /\ \A q \in Parts : chunk_uploaded'[q] \in 0..CurrentChunkSize(fileSize, q)
      /\ chunk_uploaded'[p] = now_ul
      /\ \A q \in Parts \ {p} : chunk_uploaded[q] = chunk_uploaded'[q]
  BY <1>1, <1>4, <1>5 DEF ProgressInv
<1>7. uploaded_bytes' = SumOf(chunk_uploaded')
  <2>1. chunk_uploaded \in [Parts -> Int] /\ chunk_uploaded' \in [Parts -> Int]
    BY <1>4, <1>6, ChunkSizeAssumption
  <2>2. IsFiniteSet(Parts) /\ \A q \in Parts \ {p} : chunk_uploaded[q] = chunk_uploaded'[q]
    BY <1>2, <1>6
  <2>3. SumFollows(chunk_uploaded, chunk_uploaded', p)
    BY <2>1, <2>2, SumChange
  <2>4. QED
    BY <1>1, <1>6, <2>3 DEF ProgressInv, SumFollows
<1>8. uploaded_bytes' \in 0..fileSize
  <2>1. chunk_uploaded' \in [Parts -> Int]
    BY <1>6, ChunkSizeAssumption
  <2>2. QED
    BY <1>2, <1>6, <1>7, <2>1, SumBounded DEF Parts
<1>9. /\ callback' \in [Parts -> {"idle", "locking", "locked", "setting"}]
      /\ callback'[p] = "locking" /\ callback[p] = "idle"
      /\ \A q \in Parts \ {p} : callback'[q] = callback[q]
      /\ argument' = argument /\ bar' = bar /\ fileSize' = fileSize
  BY <1>4
<1>10. ProgressTypeOK'
  BY <1>3, <1>4, <1>6, <1>8, <1>9 DEF ProgressTypeOK, ReaderInv, ProgressInv
<1>11. BarFollows'
  <2>1. ~rewound' => ~rewound /\ uploaded_bytes <= uploaded_bytes'
    <3>1. chunk_uploaded[p] \in Int /\ uploaded_bytes \in Int
      BY <1>4
    <3>2. ~rewound' => ~rewound /\ ~(now_ul < chunk_uploaded[p])
      BY <1>1
    <3>3. ~(now_ul < chunk_uploaded[p]) =>
              uploaded_bytes <= uploaded_bytes + (now_ul - chunk_uploaded[p])
      BY <1>5, <3>1
    <3>4. QED
      BY <1>1, <3>2, <3>3
  <2>2. ASSUME ~rewound'
        PROVE  /\ bar <= uploaded_bytes'
               /\ \A q \in Parts : callback'[q] = "setting" =>
                      bar <= argument[q] /\ argument[q] <= uploaded_bytes'
    <3>1. /\ bar <= uploaded_bytes
          /\ \A q \in Parts : callback[q] = "setting" =>
                 bar <= argument[q] /\ argument[q] <= uploaded_bytes
      BY <2>1, <2>2 DEF ProgressInv, BarFollows
    <3>2. QED
      BY <1>4, <1>8, <1>9, <2>1, <2>2, <3>1
  <2>3. QED
    BY <1>3, <1>9, <2>2 DEF BarFollows
<1>12. \A q, r \in Parts :
          callback'[q] \in {"locked", "setting"} /\ callback'[r] \in {"locked", "setting"} => q = r
  BY <1>9 DEF ProgressInv
<1>13. QED
  BY <1>3, <1>6, <1>7, <1>9, <1>10, <1>11, <1>12 DEF ProgressInv

LEMMA LockKeepsInv ==
  ASSUME ProgressInv, NEW p \in Parts, Lock(p), UNCHANGED <<vars, over>>
  PROVE  ProgressInv'
<1> USE DEF Lock, Goes, vars, shared
<1>1. Parts' = Parts /\ ReaderInv'
  BY DEF Parts, ProgressInv, ReaderInv, TypeOK
<1>2. /\ callback' \in [Parts -> {"idle", "locking", "locked", "setting"}]
      /\ callback'[p] = "locked" /\ \A q \in Parts \ {p} : callback'[q] = callback[q]
  BY DEF ProgressInv, ProgressTypeOK
<1>3. ProgressTypeOK'
  BY <1>1, <1>2 DEF ProgressTypeOK, ReaderInv, ProgressInv
<1>4. BarFollows'
  BY <1>1, <1>2 DEF ProgressInv, BarFollows
<1>5. \A q, r \in Parts :
          callback'[q] \in {"locked", "setting"} /\ callback'[r] \in {"locked", "setting"} => q = r
  BY <1>2
<1>6. QED
  BY <1>1, <1>3, <1>4, <1>5 DEF ProgressInv

LEMMA LoadSumKeepsInv ==
  ASSUME ProgressInv, NEW p \in Parts, LoadSum(p), UNCHANGED <<vars, over>>
  PROVE  ProgressInv'
<1> USE DEF LoadSum, Goes, vars, shared
<1>1. Parts' = Parts /\ ReaderInv'
  BY DEF Parts, ProgressInv, ReaderInv, TypeOK
<1>2. /\ callback' \in [Parts -> {"idle", "locking", "locked", "setting"}]
      /\ callback'[p] = "setting" /\ \A q \in Parts \ {p} : callback'[q] = callback[q]
      /\ argument' \in [Parts -> 0..fileSize]
      /\ argument'[p] = uploaded_bytes /\ \A q \in Parts \ {p} : argument'[q] = argument[q]
  BY DEF ProgressInv, ProgressTypeOK
<1>3. ProgressTypeOK'
  BY <1>1, <1>2 DEF ProgressTypeOK, ReaderInv, ProgressInv
<1>4. \A q \in Parts \ {p} : callback[q] \notin {"locked", "setting"}
  BY DEF ProgressInv
<1>5. BarFollows'
  <2>1. uploaded_bytes <= uploaded_bytes
    BY MaxFileSizeAssumption DEF ProgressInv, ProgressTypeOK, TypeOK
  <2>2. QED
    BY <1>1, <1>2, <1>4, <2>1 DEF ProgressInv, BarFollows
<1>6. \A q, r \in Parts :
          callback'[q] \in {"locked", "setting"} /\ callback'[r] \in {"locked", "setting"} => q = r
  BY <1>2, <1>4
<1>7. QED
  BY <1>1, <1>3, <1>5, <1>6 DEF ProgressInv

LEMMA SetProgressKeepsInv ==
  ASSUME ProgressInv, NEW p \in Parts, SetProgress(p), UNCHANGED <<vars, over>>
  PROVE  ProgressInv'
<1> USE DEF SetProgress, Goes, vars
<1>1. Parts' = Parts /\ ReaderInv'
  BY DEF Parts, ProgressInv, ReaderInv, TypeOK
<1>2. /\ callback' \in [Parts -> {"idle", "locking", "locked", "setting"}]
      /\ callback'[p] = "idle" /\ \A q \in Parts \ {p} : callback'[q] = callback[q]
  BY DEF ProgressInv, ProgressTypeOK
<1>3. /\ argument' \in [Parts -> 0..fileSize] /\ bar' = argument[p] /\ bar' \in 0..fileSize
  <2>1. fileSize \in Nat
    BY PartsFacts DEF ProgressInv
  <2>2. QED
    BY <2>1 DEF ProgressInv, ProgressTypeOK
<1>4. ProgressTypeOK'
  BY <1>1, <1>2, <1>3 DEF ProgressTypeOK, ReaderInv, ProgressInv
<1>5. \A q \in Parts : callback'[q] # "setting"
  BY <1>2 DEF ProgressInv
<1>6. BarFollows'
  <2>1. BarFollows /\ callback[p] = "setting"
    BY DEF ProgressInv
  <2>2. (\A q \in Parts : callback'[q] \notin {"locking", "locked"}) =>
            \A q \in Parts : callback[q] \notin {"locking", "locked"}
    BY <1>2, <2>1
  <2>3. QED
    BY <1>1, <1>3, <1>5, <2>1, <2>2 DEF BarFollows
<1>7. \A q, r \in Parts :
          callback'[q] \in {"locked", "setting"} /\ callback'[r] \in {"locked", "setting"} => q = r
  BY <1>2 DEF ProgressInv
<1>8. QED
  BY <1>1, <1>4, <1>6, <1>7 DEF ProgressInv

LEMMA ProgressInvNext ==
  ASSUME ProgressInv, [ProgressNext]_progressVars
  PROVE  ProgressInv'
<1>1. CASE ReadChunk /\ UNCHANGED <<shared, local, over, rewound>>
  <2>1. ReaderInv'
    BY <1>1, ReaderInvNext DEF ProgressInv, Next
  <2>2. fileSize' = fileSize /\ Parts' = Parts
    BY <1>1 DEF ReadChunk, Parts
  <2>3. ProgressTypeOK'
    BY <1>1, <2>1, <2>2 DEF ProgressInv, ProgressTypeOK, ReaderInv, shared, local
  <2>4. BarFollows' <=> BarFollows
    BY <1>1, <2>2 DEF BarFollows, shared, local
  <2>5. QED
    BY <1>1, <2>1, <2>2, <2>3, <2>4 DEF ProgressInv, shared, local
<1>2. ASSUME NEW p \in Parts, Callback(p) \/ Lock(p) \/ LoadSum(p) \/ SetProgress(p),
             UNCHANGED <<vars, over>>
      PROVE  ProgressInv'
  BY <1>2, CallbackKeepsInv, LockKeepsInv, LoadSumKeepsInv, SetProgressKeepsInv
<1>3. CASE MarkCompleted
  <2> USE <1>3 DEF MarkCompleted, vars, shared, local
  <2>1. Parts' = Parts /\ ReaderInv'
    BY DEF Parts, ProgressInv, ReaderInv, TypeOK
  <2>2. ProgressTypeOK' /\ (BarFollows' <=> BarFollows)
    BY <2>1 DEF ProgressInv, ProgressTypeOK, ReaderInv, BarFollows
  <2>3. QED
    BY <2>1, <2>2 DEF ProgressInv
<1>4. CASE UNCHANGED progressVars
  <2> USE <1>4 DEF progressVars, vars, shared, local
  <2>1. Parts' = Parts /\ ReaderInv'
    BY DEF Parts, ProgressInv, ReaderInv, TypeOK
  <2>2. ProgressTypeOK' /\ (BarFollows' <=> BarFollows)
    BY <2>1 DEF ProgressInv, ProgressTypeOK, ReaderInv, BarFollows
  <2>3. QED
    BY <2>1, <2>2 DEF ProgressInv
<1>5. QED
  BY <1>1, <1>2, <1>3, <1>4 DEF ProgressNext
------------------------------------------------------------------------------
(* The theorems about the progress.                                         *)

\* The invariant of the progress callbacks of Shell::uploadFile.
THEOREM ProgressInvariant == ProgressSpec => []ProgressInv
<1>1. ProgressInv /\ [ProgressNext]_progressVars => ProgressInv'
  BY ProgressInvNext
<1>2. QED
  BY ProgressInvInit, <1>1, PTL DEF ProgressSpec

\* The sum and the bar never exceed the file, whatever the callbacks report and
\* however often a part is sent anew.
THEOREM ProgressTypes == ProgressSpec => []ProgressTypeOK
<1>1. ProgressInv => ProgressTypeOK
  BY DEF ProgressInv
<1>2. QED
  BY ProgressInvariant, <1>1, PTL

\* When no callback is under way the bar shows the bytes the parts have sent: no
\* delta is lost or counted twice, in any interleaving of the callbacks.
THEOREM TheBarIsTrue == ProgressSpec => []BarTruthful
<1>1. ProgressInv => BarTruthful
  <2> SUFFICES ASSUME ProgressInv, \A p \in Parts : callback[p] = "idle"
               PROVE  bar = SumOf(chunk_uploaded)
    BY Zenon DEF BarTruthful, SumOf
  <2>1. BarFollows
    BY DEF ProgressInv
  <2>2. QED
    BY <2>1 DEF ProgressInv, BarFollows
<1>2. QED
  BY ProgressInvariant, <1>1, PTL

\* No interleaving of the callbacks sets the bar back: progress_mutex keeps the
\* load of the sum and the call of set_progress together.
THEOREM TheBarNeverGoesBack == ProgressSpec => BarNeverBack
<1>1. ProgressInv /\ [ProgressNext]_progressVars =>
          [~rewound' => bar' >= bar]_progressVars
  <2> SUFFICES ASSUME ProgressInv, [ProgressNext]_progressVars, ~rewound'
               PROVE  bar' >= bar
    OBVIOUS
  <2>1. fileSize \in Nat /\ bar \in 0..fileSize
    BY PartsFacts DEF ProgressInv, ProgressTypeOK
  <2>2. CASE bar' = bar
    BY <2>1, <2>2
  <2>3. ASSUME NEW p \in Parts, SetProgress(p) PROVE bar' >= bar
    <3>1. ~rewound /\ callback[p] = "setting" /\ bar' = argument[p]
      BY <2>3 DEF SetProgress, Goes
    <3>2. bar <= argument[p] /\ argument[p] \in 0..fileSize
      BY <3>1 DEF ProgressInv, BarFollows, ProgressTypeOK
    <3>3. QED
      BY <2>1, <3>1, <3>2
  <2>4. QED
    BY <2>2, <2>3 DEF ProgressNext, progressVars, shared, Callback, Lock, LoadSum, MarkCompleted
<1>2. QED
  BY ProgressInvariant, <1>1, PTL DEF ProgressSpec, BarNeverBack
==============================================================================
