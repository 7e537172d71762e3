--------------------------- MODULE TokenFileProofs ----------------------------
(***************************************************************************)
(* Proofs about TokenFile, for every set of sessions, number of requests   *)
(* and number of starts; and about the decoder it uses, for payloads of    *)
(* every length and any width of val that holds two digits.                *)
(***************************************************************************)
EXTENDS TokenFile, FiniteSetTheorems, SequenceTheorems, TLAPS

\* A session that saves has tokens to save, so that what it writes is not empty;
\* and an empty file that nobody rewrites is the trace of a process that died,
\* which is what wrecked records when it dies.
SavingInv ==
    /\ \A s \in Sessions : pc[s] = "saving" => m_tokens[s] # "none"
    /\ EmptyOnlyWhileSaving
    /\ ~alive => adding = "none" /\ (file = "empty" => wrecked)

\* What is new was issued; and where the old grant is refused, what a session
\* saves was issued too: no refresh of it can have come before.
IssuedInv ==
    /\ adding \in {"none"} \cup issued
    /\ file = "new" => "new" \in issued
    /\ \A s \in Sessions : m_tokens[s] = "new" => "new" \in issued
    /\ refused => \A s \in Sessions : pc[s] = "saving" => m_tokens[s] \in issued
    /\ SignInLasts

TokenInv ==
    /\ file \in {"absent", "empty", "bare", "old", "new"}
    /\ m_tokens \in [Sessions -> Tokens] /\ issued \subseteq {"bare", "new"}
    /\ pc \in [Sessions -> {"new", "ready", "signing_in", "saving",
                            "finished", "failed"}]
    /\ SavingInv
    /\ IssuedInv

LEMMA TokenInvInit == Init => TokenInv
<1> SUFFICES ASSUME Init PROVE TokenInv
  OBVIOUS
<1>1. file \in {"absent", "bare", "old"}
  BY TokenAssumption DEF Init
<1>2. QED
  BY <1>1 DEF Init, TokenInv, SavingInv, IssuedInv, Tokens, EmptyOnlyWhileSaving, SignInLasts

LEMMA EndKeepsInv == TokenInv /\ End => TokenInv'
<1> SUFFICES ASSUME TokenInv, End PROVE TokenInv'
  OBVIOUS
<1>1. UNCHANGED <<file, m_tokens, issued, pc, refused>> /\ adding' = "none"
  BY DEF End, tokens
<1>2. file = "empty" => wrecked'
  BY Zenon DEF End
<1>3. SavingInv'
  BY <1>1, <1>2 DEF TokenInv, SavingInv, EmptyOnlyWhileSaving
<1>4. IssuedInv'
  BY <1>1 DEF TokenInv, IssuedInv, SignInLasts
<1>5. QED
  BY <1>1, <1>3, <1>4 DEF TokenInv

\* The steps of a session that leave the file alone and do not come from, or go
\* to, saving it.
LEMMA SessionMoveKeepsInv ==
  ASSUME TokenInv, NEW s \in Sessions, NEW from, NEW to, Goto(s, from, to),
         from # "saving",
         to \in {"ready", "signing_in", "finished", "failed"},
         UNCHANGED <<file, issued>>, NEW t \in Tokens, t = "new" => "new" \in issued,
         m_tokens' = [m_tokens EXCEPT ![s] = t]
  PROVE  TokenInv'
<1>1. \A r \in Sessions : pc'[r] = "saving" <=> pc[r] = "saving"
  BY DEF Goto, TokenInv
<1>2. \A r \in Sessions : pc[r] = "saving" => m_tokens'[r] = m_tokens[r]
  BY DEF Goto, TokenInv
<1>3. m_tokens' \in [Sessions -> Tokens]
  BY DEF TokenInv
<1>4. pc' \in [Sessions -> {"new", "ready", "signing_in", "saving",
                            "finished", "failed"}]
  BY DEF Goto, TokenInv
<1>5. UNCHANGED <<file, issued, alive, adding, refused, wrecked>>
  BY DEF Goto, process
<1>6. SavingInv'
  BY <1>1, <1>2, <1>5 DEF TokenInv, SavingInv, EmptyOnlyWhileSaving
<1>7. \A r \in Sessions : m_tokens'[r] = "new" => "new" \in issued
  BY DEF TokenInv, IssuedInv
<1>8. IssuedInv'
  BY <1>1, <1>2, <1>5, <1>7 DEF TokenInv, IssuedInv, SignInLasts
<1>9. QED
  BY <1>3, <1>4, <1>5, <1>6, <1>8 DEF TokenInv

LEMMA ThrowKeepsInv ==
  ASSUME TokenInv, NEW s \in Sessions, NEW from, from # "saving", Throw(s, from)
  PROVE  TokenInv'
<1>1. CASE command = "download"
  BY <1>1, EndKeepsInv DEF Throw
<1>2. CASE command # "download"
  <2>1. Goto(s, from, "failed") /\ UNCHANGED <<file, tokens>>
    BY <1>2 DEF Throw
  <2>2. /\ m_tokens' = [m_tokens EXCEPT ![s] = m_tokens[s]] /\ m_tokens[s] \in Tokens
        /\ m_tokens[s] = "new" => "new" \in issued
    BY <2>1 DEF tokens, TokenInv, IssuedInv
  <2>3. QED
    BY <2>1, <2>2, SessionMoveKeepsInv DEF tokens
<1>3. QED
  BY <1>1, <1>2

\* The file is opened for tokens that are at hand, and that were issued if the
\* old ones are refused.
LEMMA OpenFileKeepsInv ==
  ASSUME TokenInv, NEW s \in Sessions, NEW from, OpenFile(s, from),
         NEW t \in {"bare", "old", "new"}, m_tokens' = [m_tokens EXCEPT ![s] = t],
         issued \subseteq issued', issued' \subseteq {"bare", "new"},
         t = "new" \/ refused => t \in issued'
  PROVE  TokenInv'
<1>1. /\ pc' = [pc EXCEPT ![s] = "saving"] /\ file' = "empty"
      /\ UNCHANGED <<alive, adding, refused, wrecked>> /\ alive
  BY DEF OpenFile, Goto, process
<1>2. pc'[s] = "saving" /\ m_tokens'[s] = t
  BY <1>1 DEF TokenInv
<1>3. \A r \in Sessions \ {s} : pc'[r] = pc[r] /\ m_tokens'[r] = m_tokens[r]
  BY <1>1 DEF TokenInv
<1>4. SavingInv'
  BY <1>1, <1>2, <1>3 DEF TokenInv, SavingInv, EmptyOnlyWhileSaving
<1>5. IssuedInv'
  BY <1>1, <1>2, <1>3 DEF TokenInv, IssuedInv, SignInLasts
<1>6. m_tokens' \in [Sessions -> Tokens]
  BY DEF TokenInv, Tokens
<1>7. QED
  BY <1>1, <1>4, <1>5, <1>6 DEF TokenInv

LEMMA SessionStepKeepsInv ==
  ASSUME TokenInv, NEW s \in Sessions, SessionStep(s)
  PROVE  TokenInv'
<1>1. /\ m_tokens[s] \in Tokens /\ m_tokens = [m_tokens EXCEPT ![s] = m_tokens[s]]
      /\ m_tokens[s] = "new" => "new" \in issued
  BY DEF TokenInv, IssuedInv
<1>2. CASE Load(s)
  <2> DEFINE t == IF file = "absent" THEN "none" ELSE file
  <2>1. /\ t \in Tokens /\ m_tokens' = [m_tokens EXCEPT ![s] = t]
        /\ t = "new" => "new" \in issued
    BY <1>2 DEF Load, TokenInv, IssuedInv, Tokens
  <2>2. QED
    BY <1>2, <2>1, SessionMoveKeepsInv DEF Load
<1>3. CASE LoadThrows(s) \/ RefreshThrows(s) \/ SignInThrows(s)
  BY <1>3, ThrowKeepsInv DEF LoadThrows, RefreshThrows, SignInThrows
<1>4. CASE Refresh(s)
  <2>1. m_tokens[s] \in {"old", "new"} /\ UNCHANGED <<m_tokens, issued>>
    BY <1>4 DEF Refresh, HasRefreshToken, tokens
  <2>2. CASE Taken(s) /\ OpenFile(s, "ready")
    <3>1. m_tokens[s] = "new" \/ refused => m_tokens[s] \in issued'
      BY <1>1, <2>1, <2>2 DEF Taken
    <3>2. issued \subseteq issued' /\ issued' \subseteq {"bare", "new"}
      BY <2>1 DEF TokenInv
    <3>3. QED
      BY <1>1, <2>1, <2>2, <3>1, <3>2, OpenFileKeepsInv
  <2>3. CASE Goto(s, "ready", "signing_in") /\ UNCHANGED file
    BY <1>1, <2>1, <2>3, SessionMoveKeepsInv
  <2>4. QED
    BY <1>4, <2>2, <2>3 DEF Refresh
<1>5. CASE NoSession(s)
  BY <1>1, <1>5, SessionMoveKeepsInv DEF NoSession, tokens
<1>6. CASE SignIn(s)
  <2>1. PICK t \in Given :
            m_tokens' = [m_tokens EXCEPT ![s] = t] /\ issued' = issued \cup {t}
    BY <1>6 DEF SignIn
  <2>2. t \in {"bare", "new"} /\ issued' \subseteq {"bare", "new"}
    BY <2>1, TokenAssumption DEF TokenInv
  <2>3. QED
    BY <1>6, <2>1, <2>2, OpenFileKeepsInv DEF SignIn
<1>7. CASE WriteFile(s)
  <2>1. /\ pc[s] = "saving" /\ pc' = [pc EXCEPT ![s] = "ready"]
        /\ file' = m_tokens[s] /\ UNCHANGED <<m_tokens, issued, alive, adding, refused, wrecked>>
    BY <1>7 DEF WriteFile, Goto, tokens, process
  <2>2. m_tokens[s] \in {"bare", "old", "new"}
    BY <2>1 DEF TokenInv, SavingInv, Tokens
  <2>3. \A r \in Sessions : pc'[r] = "saving" => pc[r] = "saving"
    BY <2>1 DEF TokenInv
  <2>4. SavingInv'
    BY <2>1, <2>2, <2>3, <1>7
    DEF WriteFile, Goto, TokenInv, SavingInv, EmptyOnlyWhileSaving
  <2>5. IssuedInv'
    BY <2>1, <2>3 DEF TokenInv, IssuedInv, SignInLasts
  <2>6. QED
    BY <2>1, <2>2, <2>4, <2>5 DEF TokenInv
<1>8. CASE Finish(s)
  BY <1>1, <1>8, SessionMoveKeepsInv DEF Finish, tokens
<1>9. QED
  BY <1>2, <1>3, <1>4, <1>5, <1>6, <1>7, <1>8 DEF SessionStep

LEMMA TokenInvStep == TokenInv /\ [Next]_vars => TokenInv'
<1> SUFFICES ASSUME TokenInv, [Next]_vars PROVE TokenInv'
  OBVIOUS
<1> USE DEF TokenInv, SavingInv, IssuedInv, EmptyOnlyWhileSaving, SignInLasts
<1>1. CASE UNCHANGED vars
  BY <1>1 DEF vars, tokens, process
<1>2. CASE AddAccountOpens
  <2>1. adding' \in {"bare", "new"}
    BY <1>2, TokenAssumption DEF AddAccountOpens
  <2>2. QED
    BY <1>2, <2>1 DEF AddAccountOpens
<1>3. CASE AddAccountWrites
  BY <1>3 DEF AddAccountWrites, tokens
<1>4. CASE Restart
  BY <1>4 DEF Restart, Tokens
<1>5. QED
  BY <1>1, <1>2, <1>3, <1>4, SessionStepKeepsInv, EndKeepsInv DEF Next, Die

\* TokenInv holds in every reachable state, over deaths and restarts
\* (gdrive_handler.cpp:62-100, 134-151).
THEOREM TokenInvariant == Spec => []TokenInv
<1>1. QED
  BY TokenInvInit, TokenInvStep, PTL DEF Spec

\* No failure empties the file: it is empty only while it is being rewritten, or
\* since a process died in that moment.
THEOREM TokensSurviveFailures == Spec => []EmptyOnlyWhileSaving
<1>1. TokenInv => EmptyOnlyWhileSaving
  BY DEF TokenInv, SavingInv
<1>2. QED
  BY <1>1, TokenInvariant, PTL

\* Once the old grant is refused, no order of loads, refreshes, sign-ins and saves
\* of any number of sessions undoes a sign-in.
THEOREM SignInsLast == Spec => []SignInLasts
<1>1. TokenInv => SignInLasts
  BY DEF TokenInv, IssuedInv
<1>2. QED
  BY <1>1, TokenInvariant, PTL
------------------------------------------------------------------------------
(* Powers of two, and the digits at the end of val.                         *)

\* Induction with a set in the place of the predicate, by WFMin.
LEMMA SetOfNaturals ==
  ASSUME NEW S, 0 \in S, \A n \in Nat : n \in S => n + 1 \in S
  PROVE  Nat \subseteq S
<1> DEFINE T == Nat \ S
<1> SUFFICES ASSUME T # {} PROVE FALSE
  OBVIOUS
<1>1. PICK m \in T : \A n \in T : <<n, m>> \notin OpToRel(<, Nat)
  BY NatLessThanWellFounded, WFMin
<1>2. m \in Nat /\ m # 0
  BY <1>1
<1>3. m - 1 \in Nat /\ m - 1 < m /\ m = (m - 1) + 1
  BY <1>2
<1>4. m - 1 \in T
  BY <1>1, <1>3
<1>5. <<m - 1, m>> \in OpToRel(<, Nat)
  BY <1>2, <1>3 DEF OpToRel
<1>6. QED
  BY <1>1, <1>4, <1>5

\* 2^n counts the subsets of 1..n.
LEMMA TwiceThePower ==
  ASSUME NEW n \in Nat
  PROVE  2^(n + 1) = 2 * 2^n /\ 2^n \in Nat
<1> DEFINE low == 1..n
           top == n + 1
           Adding == [s \in SUBSET low |-> s \cup {top}]
           without == SUBSET low
           with == {s \in SUBSET (1..top) : top \in s}
<1>1. IsFiniteSet(low) /\ Cardinality(low) = n /\ IsFiniteSet(1..top)
      /\ Cardinality(1..top) = top
  BY FS_Interval
<1>2. /\ IsFiniteSet(without) /\ Cardinality(without) = 2^n
      /\ IsFiniteSet(SUBSET (1..top)) /\ Cardinality(SUBSET (1..top)) = 2^(n + 1)
  BY <1>1, FS_SUBSET
<1>3. Adding \in Bijection(without, with)
  <2>1. Adding \in [without -> with]
    OBVIOUS
  <2>2. \A s, u \in without : Adding[s] = Adding[u] => s = u
    OBVIOUS
  <2>3. ASSUME NEW u \in with PROVE \E s \in without : Adding[s] = u
    <3>1. u \ {top} \in without /\ Adding[u \ {top}] = u
      OBVIOUS
    <3>2. QED
      BY <3>1
  <2> HIDE DEF Adding, without, with
  <2>4. QED
    BY <2>1, <2>2, <2>3 DEF Bijection, Injection, Surjection, IsInjective
<1>4. IsFiniteSet(with) /\ Cardinality(with) = Cardinality(without)
  BY <1>2, <1>3, FS_Bijection DEF ExistsBijection
<1>5. without \cup with = SUBSET (1..top) /\ without \cap with = {}
  <2>1. ASSUME NEW s \in SUBSET (1..top), top \notin s PROVE s \in without
    BY <2>1
  <2>2. QED
    BY <2>1
<1>6. Cardinality(SUBSET (1..top)) = Cardinality(without) + Cardinality(with) - Cardinality(without \cap with)
  BY <1>2, <1>4, <1>5, FS_Union
<1>7. Cardinality(without \cap with) = 0
  BY <1>5, FS_EmptySet
<1>8. Cardinality(without) \in Nat
  BY <1>2, FS_CardinalityType
<1>9. QED
  BY <1>2, <1>4, <1>6, <1>7, <1>8

\* val is at least two digits wide.
LEMMA WidthHoldsTwoDigits ==
  \E N \in Nat \ {0} : 2^ValBits = 4096 * N
<1> DEFINE S == {n \in Nat : \E N \in Nat \ {0} : 2^(n + 12) = 4096 * N}
<1>1. 0 \in S
  <2>1. 2^12 = 4096 * 1
    OBVIOUS
  <2>2. QED
    BY <2>1
<1>2. ASSUME NEW n \in Nat, n \in S PROVE n + 1 \in S
  <2>1. PICK N \in Nat \ {0} : 2^(n + 12) = 4096 * N
    BY <1>2
  <2>2. 2^((n + 12) + 1) = 2 * 2^(n + 12)
    BY TwiceThePower, n + 12 \in Nat
  <2>3. (n + 12) + 1 = (n + 1) + 12 /\ 2 * (4096 * N) = 4096 * (2 * N)
        /\ 2 * N \in Nat \ {0}
    OBVIOUS
  <2>4. 2^((n + 1) + 12) = 4096 * (2 * N)
    BY <2>1, <2>2, <2>3
  <2>5. \E M \in Nat \ {0} : 2^((n + 1) + 12) = 4096 * M
    <3> DEFINE power == 2^((n + 1) + 12)
    <3>1. PICK M \in Nat \ {0} : M = 2 * N
      BY <2>3
    <3>2. power = 4096 * M
      BY <2>4, <3>1
    <3> HIDE DEF power
    <3>3. \E K \in Nat \ {0} : power = 4096 * K
      BY <3>2
    <3>4. QED
      BY <3>3 DEF power
  <2>6. QED
    BY <2>5
<1>3. Nat \subseteq S
  <2> HIDE DEF S
  <2>1. QED
    BY <1>1, <1>2, SetOfNaturals
<1>4. ValBits - 12 \in Nat /\ (ValBits - 12) + 12 = ValBits
  BY ValBitsAssumption
<1>5. QED
  BY <1>3, <1>4

LEMMA PowersOfTwo ==
  2^0 = 1 /\ 2^1 = 2 /\ 2^2 = 4 /\ 2^3 = 8 /\ 2^4 = 16 /\ 2^5 = 32
  OBVIOUS

\* val after one more digit, and the byte that is then read from it.
Shifted(val, digit) == (val * 64 + digit) % 2^ValBits
ByteRead(val, valb) == (val \div 2^valb) % 256

\* val ends with these digits; and what is read from it then.
EndsWith(val, prev, digit) ==
    /\ val \in Nat /\ val % 4096 = 64 * prev + digit
    /\ val % 64 = digit
BytesAre(val, prev, digit) ==
    /\ ByteRead(val, 4) = prev * 4 + (digit \div 16)
    /\ ByteRead(val, 2) = (prev % 16) * 16 + (digit \div 4)
    /\ ByteRead(val, 0) = (prev % 4) * 64 + digit
    /\ \A valb \in {0, 2, 4} : ByteRead(val, valb) \in 0..255

\* Whatever was lost at the top of val, its last two digits are there.
LEMMA LastDigitsStay ==
  ASSUME NEW val \in Nat, NEW digit \in 0..63
  PROVE  EndsWith(Shifted(val, digit), val % 64, digit)
<1>1. PICK N \in Nat \ {0} : 2^ValBits = 4096 * N
  BY WidthHoldsTwoDigits
<1> DEFINE word == val * 64 + digit
           val2 == Shifted(val, digit)
           q == word \div (4096 * N)
           high == val \div 64
           prev == val % 64
<1>2. 4096 * N \in Nat /\ 4096 * N > 0 /\ word \in Nat
  BY <1>1
<1>3. val2 \in Nat /\ q \in Nat /\ word = (4096 * N) * q + val2
  <2>1. val2 = word % (4096 * N)
    BY <1>1 DEF Shifted
  <2> HIDE DEF word, val2
  <2>2. QED
    BY <1>2, <2>1
<1>4. PICK u \in Nat : u = N * q
  BY <1>3
<1> HIDE DEF q, val2
<1>5. word = 4096 * u + val2
  BY <1>3, <1>4
<1>6. val = 64 * high + prev /\ high \in Nat /\ prev \in 0..63
  OBVIOUS
<1> HIDE DEF high, prev
<1>7. word = 4096 * high + 64 * prev + digit
  BY <1>6
<1> HIDE DEF word
<1>8. val2 = 4096 * (high - u) + (64 * prev + digit) /\ high - u \in Int
  BY <1>3, <1>4, <1>5, <1>6, <1>7
<1>9. PICK w \in Int : w = high - u
  BY <1>8
<1>10. val2 = 4096 * w + (64 * prev + digit)
  BY <1>8, <1>9
<1>11. val2 % 4096 = 64 * prev + digit /\ val2 % 64 = digit
  BY <1>3, <1>6, <1>10
<1>12. QED
  BY <1>3, <1>11 DEF val2, prev, EndsWith

LEMMA BytesRead ==
  ASSUME NEW val, NEW prev \in 0..63, NEW digit \in 0..63,
         EndsWith(val, prev, digit)
  PROVE  BytesAre(val, prev, digit)
<1> DEFINE q == val \div 4096
<1>1. val \in Nat /\ val = 4096 * q + 64 * prev + digit /\ q \in Nat
  BY DEF EndsWith
<1> HIDE DEF q
<1>2. /\ ByteRead(val, 4) = (val \div 16) % 256
      /\ ByteRead(val, 2) = (val \div 4) % 256
      /\ ByteRead(val, 0) = (val \div 1) % 256
  BY PowersOfTwo DEF ByteRead
<1>3. (val \div 16) % 256 = prev * 4 + (digit \div 16)
  <2>1. val \div 16 = 256 * q + (4 * prev + (digit \div 16))
    BY <1>1
  <2>2. QED
    BY <1>1, <2>1
<1>4. (val \div 4) % 256 = (prev % 16) * 16 + (digit \div 4)
  <2>1. val \div 4 = 1024 * q + (16 * prev + (digit \div 4))
    BY <1>1
  <2>2. QED
    BY <1>1, <2>1
<1>5. (val \div 1) % 256 = (prev % 4) * 64 + digit
  BY <1>1
<1>6. \A valb \in {0, 2, 4} : ByteRead(val, valb) \in 0..255
  <2>1. /\ prev * 4 + (digit \div 16) \in 0..255
        /\ (prev % 16) * 16 + (digit \div 4) \in 0..255
        /\ (prev % 4) * 64 + digit \in 0..255
    BY <1>1
  <2>2. QED
    BY <1>2, <1>3, <1>4, <1>5, <2>1
<1>7. QED
  BY <1>2, <1>3, <1>4, <1>5, <1>6 DEF BytesAre

\* What a byte that ends with a digit is made of: that digit and the last one.
LEMMA BytesOfTwoDigits ==
  ASSUME NEW val \in Nat, NEW digit \in 0..63
  PROVE  /\ EndsWith(Shifted(val, digit), val % 64, digit)
         /\ BytesAre(Shifted(val, digit), val % 64, digit)
<1>1. EndsWith(Shifted(val, digit), val % 64, digit)
  BY LastDigitsStay
<1>2. val % 64 \in 0..63
  OBVIOUS
<1>3. QED
  BY <1>1, <1>2, BytesRead

------------------------------------------------------------------------------
(* The loop is a fold.                                                      *)

\* How the decoding of the digits at the places s goes on from the one at all
\* of them but the last.
Start == [val |-> 0, valb |-> -8, bytes |-> <<>>]
Decoded(t, digits, s) ==
    IF s = {} THEN Start ELSE DecodeDigit(t[s \ {Max(s)}], digits[Max(s)])
DecodeTable(t, digits) ==
    t = [s \in SUBSET DOMAIN digits |-> Decoded(t, digits, s)]

\* The fold takes the places from the last to the first.
LEMMA MaxOfNaturals ==
  ASSUME NEW n \in Nat, NEW s \in SUBSET (1..n), s # {}
  PROVE  Max(s) \in s
<1> DEFINE back == {n - k : k \in s}
<1>1. back \subseteq Nat /\ back # {}
  <2>1. \A k \in s : n - k \in Nat
    OBVIOUS
  <2>2. QED
    BY <2>1
<1>2. PICK m \in back : \A l \in back : <<l, m>> \notin OpToRel(<, Nat)
  <2> HIDE DEF back
  <2>1. QED
    BY <1>1, NatLessThanWellFounded, WFMin
<1>3. \A l \in back : ~(l < m)
  BY <1>1, <1>2 DEF OpToRel
<1>4. PICK k \in s : m = n - k
  BY <1>2
<1>5. \A j \in s : n - j \in back /\ j \in Int
  OBVIOUS
<1>6. \A j \in s : ~(n - j < n - k) /\ j \in Int
  BY <1>3, <1>4, <1>5
<1>7. \A j \in s : k >= j
  BY <1>6
<1>8. QED
  BY <1>7 DEF Max

\* The fold is defined by recursion over sets of places: there is a table of it.
LEMMA DecodeTableExists ==
  ASSUME NEW n \in Nat, NEW digits, DOMAIN digits = 1..n
  PROVE  \E t : DecodeTable(t, digits)
<1> DEFINE D == 1..n
           UpTo(t, c) == \A s \in SUBSET D :
               Cardinality(s) <= c => t[s] = Decoded(t, digits, s)
           S == {c \in Nat : \E t : UpTo(t, c)}
<1> HIDE DEF D
<1>1. IsFiniteSet(D) /\ \A s \in SUBSET D : IsFiniteSet(s) /\ Cardinality(s) \in Nat
  <2>1. IsFiniteSet(D)
    BY FS_Interval DEF D
  <2>2. QED
    BY <2>1, FS_Subset, FS_CardinalityType
<1>2. 0 \in S
  <2> DEFINE t == [s \in SUBSET D |-> Start]
  <2>1. ASSUME NEW s \in SUBSET D, Cardinality(s) <= 0 PROVE s = {}
    BY <1>1, <2>1, FS_EmptySet
  <2>2. UpTo(t, 0)
    BY <2>1 DEF Decoded
  <2>3. QED
    BY <2>2
<1>3. ASSUME NEW c \in Nat, c \in S PROVE c + 1 \in S
  <2>1. PICK t : UpTo(t, c)
    BY <1>3
  <2> DEFINE next == [s \in SUBSET D |-> Decoded(t, digits, s)]
  <2>2. \A s \in SUBSET D : Cardinality(s) <= c => next[s] = t[s]
    BY <2>1
  <2>3. ASSUME NEW s \in SUBSET D, Cardinality(s) <= c + 1, s # {}
        PROVE  next[s] = Decoded(next, digits, s)
    <3>1. Max(s) \in s
      BY <2>3, MaxOfNaturals DEF D
    <3>2. s \ {Max(s)} \in SUBSET D /\ Cardinality(s \ {Max(s)}) <= c
      BY <1>1, <2>3, <3>1, FS_RemoveElement
    <3>3. next[s \ {Max(s)}] = t[s \ {Max(s)}]
      BY <2>2, <3>2
    <3>4. QED
      BY <2>3, <3>3 DEF Decoded
  <2>4. UpTo(next, c + 1)
    <3>1. next[{}] = Decoded(next, digits, {})
      BY DEF Decoded
    <3>2. QED
      BY <2>3, <3>1
  <2>5. \E u : UpTo(u, c + 1)
    <3> HIDE DEF UpTo, next
    <3>1. QED
      BY <2>4
  <2>6. QED
    BY <2>5
<1>4. Cardinality(D) \in S
  <2> HIDE DEF S
  <2>1. QED
    BY <1>1, <1>2, <1>3, SetOfNaturals
<1>5. PICK t : UpTo(t, Cardinality(D))
  BY <1>4
<1> DEFINE table == [s \in SUBSET D |-> t[s]]
<1>6. ASSUME NEW s \in SUBSET D PROVE table[s] = Decoded(table, digits, s)
  <2>1. Cardinality(s) <= Cardinality(D)
    BY <1>1, FS_Subset
  <2>2. table[s] = Decoded(t, digits, s)
    BY <1>5, <2>1
  <2>3. s \ {Max(s)} \in SUBSET D
    OBVIOUS
  <2>4. QED
    BY <2>2, <2>3 DEF Decoded
<1>7. DecodeTable(table, digits)
  BY <1>6 DEF DecodeTable, D
<1>8. QED
  BY <1>7

Fold(digits) == FoldLeft(DecodeDigit, Start, digits)

LEMMA FoldIsInTable ==
  ASSUME NEW n \in Nat, NEW digits, DOMAIN digits = 1..n
  PROVE  \E t : DecodeTable(t, digits) /\ Fold(digits) = t[DOMAIN digits]
<1> DEFINE Q(v) == v = [s \in SUBSET DOMAIN digits |->
                          IF s = {} THEN Start
                          ELSE DecodeDigit(v[s \ {Max(s)}], digits[Max(s)])]
           t == CHOOSE v : Q(v)
<1>1. Fold(digits) = t[DOMAIN digits]
  BY Zenon DEF Fold, FoldLeft, MapThenFoldSet
<1>2. \A v : DecodeTable(v, digits) <=> Q(v)
  BY Zenon DEF DecodeTable, Decoded
<1>3. \E v : Q(v)
  <2> HIDE DEF Q
  <2>1. QED
    BY <1>2, DecodeTableExists
<1>4. Q(t)
  <2> HIDE DEF Q
  <2>1. QED
    BY <1>3
<1>5. QED
  BY <1>1, <1>2, <1>4

\* The loop, digit by digit.
LEMMA LoopOfDigits ==
  ASSUME NEW n \in Nat, NEW digits, DOMAIN digits = 1..n
  PROVE  \E acc : /\ acc[0] = Start /\ acc[n] = Fold(digits)
                  /\ \A j \in 1..n : acc[j] = DecodeDigit(acc[j - 1], digits[j])
<1>1. PICK t : DecodeTable(t, digits) /\ Fold(digits) = t[1..n]
  BY FoldIsInTable
<1> DEFINE acc == [j \in 0..n |-> t[1..j]]
<1>2. \A s \in SUBSET (1..n) : t[s] = Decoded(t, digits, s)
  BY <1>1 DEF DecodeTable
<1>3. acc[0] = Start
  <2>1. 1..0 = {} /\ acc[0] = t[1..0]
    OBVIOUS
  <2>2. QED
    BY <1>2, <2>1 DEF Decoded
<1>4. ASSUME NEW j \in 1..n PROVE acc[j] = DecodeDigit(acc[j - 1], digits[j])
  <2>1. 1..j \in SUBSET (1..n) /\ j \in 1..j /\ (1..j) \ {j} = 1..(j - 1) /\ j - 1 \in 0..n
    OBVIOUS
  <2>2. Max(1..j) = j
    <3>1. j \in 1..j /\ \A k \in 1..j : j >= k
      OBVIOUS
    <3>2. \A m \in 1..j : (\A k \in 1..j : m >= k) => m = j
      OBVIOUS
    <3>3. QED
      BY <3>1, <3>2 DEF Max
  <2>3. acc[j] = t[1..j] /\ acc[j - 1] = t[1..(j - 1)]
    BY <2>1
  <2>4. t[1..j] = DecodeDigit(t[(1..j) \ {j}], digits[j])
    BY <1>2, <2>1, <2>2 DEF Decoded
  <2>5. QED
    BY <2>1, <2>3, <2>4
<1>5. acc[n] = Fold(digits)
  BY <1>1
<1>6. QED
  <2> HIDE DEF acc
  <2>1. QED
    BY <1>3, <1>4, <1>5

------------------------------------------------------------------------------
(* Bits, digits and bytes.                                                  *)

\* The encoding as Meaning has it, of digits.
BitOf(d, b) == (d[b \div 6 + 1] \div 2^(5 - (b % 6))) % 2
ByteOf(d, k) ==
    LET b == 8 * (k - 1)
    IN  128 * BitOf(d, b) + 64 * BitOf(d, b + 1) + 32 * BitOf(d, b + 2)
          + 16 * BitOf(d, b + 3) + 8 * BitOf(d, b + 4) + 4 * BitOf(d, b + 5)
          + 2 * BitOf(d, b + 6) + BitOf(d, b + 7)

\* The six bits of a digit, and what its first and last ones make.
LEMMA BitsOfDigit ==
  ASSUME NEW x \in 0..63
  PROVE  /\ \A y \in {1, 2, 4, 8, 16, 32} : (x \div y) % 2 \in {0, 1}
         /\ 2 * ((x \div 32) % 2) + ((x \div 16) % 2) = x \div 16
         /\ 8 * ((x \div 32) % 2) + 4 * ((x \div 16) % 2) + 2 * ((x \div 8) % 2)
              + ((x \div 4) % 2) = x \div 4
         /\ 2 * ((x \div 2) % 2) + ((x \div 1) % 2) = x % 4
         /\ 8 * ((x \div 8) % 2) + 4 * ((x \div 4) % 2) + 2 * ((x \div 2) % 2)
              + ((x \div 1) % 2) = x % 16
         /\ 32 * ((x \div 32) % 2) + 16 * ((x \div 16) % 2) + 8 * ((x \div 8) % 2)
              + 4 * ((x \div 4) % 2) + 2 * ((x \div 2) % 2) + ((x \div 1) % 2) = x
<1>1. \A y \in {1, 2, 4, 8, 16, 32} : (x \div y) % 2 \in {0, 1}
  OBVIOUS
<1>2. 2 * ((x \div 32) % 2) + ((x \div 16) % 2) = x \div 16
  OBVIOUS
<1>3. 8 * ((x \div 32) % 2) + 4 * ((x \div 16) % 2) + 2 * ((x \div 8) % 2)
              + ((x \div 4) % 2) = x \div 4
  OBVIOUS
<1>4. 2 * ((x \div 2) % 2) + ((x \div 1) % 2) = x % 4
  OBVIOUS
<1>5. 8 * ((x \div 8) % 2) + 4 * ((x \div 4) % 2) + 2 * ((x \div 2) % 2)
              + ((x \div 1) % 2) = x % 16
  OBVIOUS
<1>6. 32 * ((x \div 32) % 2) + 16 * ((x \div 16) % 2) + 8 * ((x \div 8) % 2)
              + 4 * ((x \div 4) % 2) + 2 * ((x \div 2) % 2) + ((x \div 1) % 2) = x
  OBVIOUS
<1>7. QED
  BY <1>1, <1>2, <1>3, <1>4, <1>5, <1>6

\* Four digits share three bytes: the bits of the j-th one in its group.
LEMMA BitsInGroup ==
  ASSUME NEW d, NEW q \in Nat, NEW j \in 0..3
  PROVE  LET x == d[4 * q + j + 1]
             b == 24 * q + 6 * j
         IN  /\ BitOf(d, b) = (x \div 32) % 2
             /\ BitOf(d, b + 1) = (x \div 16) % 2
             /\ BitOf(d, b + 2) = (x \div 8) % 2
             /\ BitOf(d, b + 3) = (x \div 4) % 2
             /\ BitOf(d, b + 4) = (x \div 2) % 2
             /\ BitOf(d, b + 5) = (x \div 1) % 2
<1> DEFINE b == 24 * q + 6 * j
<1>1. ASSUME NEW m \in 0..5
      PROVE  BitOf(d, b + m) = (d[4 * q + j + 1] \div 2^(5 - m)) % 2
  <2>1. (b + m) \div 6 = 4 * q + j /\ (b + m) % 6 = m
    OBVIOUS
  <2>2. QED
    BY <2>1 DEF BitOf
<1>2. b + 0 = b /\ b \in Int
  OBVIOUS
<1> HIDE DEF b
<1>3. QED
  <2>1. BitOf(d, b) = (d[4 * q + j + 1] \div 2^(5 - 0)) % 2
    BY <1>1, <1>2
  <2>2. QED
    BY <1>1, <2>1, PowersOfTwo DEF b

\* The three bytes that four digits make.
GroupMakes(d, q) ==
    /\ d[4 * q + 1] \in 0..63 /\ d[4 * q + 2] \in 0..63 =>
          ByteOf(d, 3 * q + 1) = d[4 * q + 1] * 4 + (d[4 * q + 2] \div 16)
    /\ d[4 * q + 2] \in 0..63 /\ d[4 * q + 3] \in 0..63 =>
          ByteOf(d, 3 * q + 2) = (d[4 * q + 2] % 16) * 16 + (d[4 * q + 3] \div 4)
    /\ d[4 * q + 3] \in 0..63 /\ d[4 * q + 4] \in 0..63 =>
          ByteOf(d, 3 * q + 3) = (d[4 * q + 3] % 4) * 64 + d[4 * q + 4]

LEMMA BytesOfGroup ==
  ASSUME NEW d, NEW q \in Nat
  PROVE  GroupMakes(d, q)
<1> DEFINE x1 == d[4 * q + 1]
           x2 == d[4 * q + 2]
           x3 == d[4 * q + 3]
           x4 == d[4 * q + 4]
           b == 24 * q
<1>1. /\ BitOf(d, b) = (x1 \div 32) % 2
      /\ BitOf(d, b + 1) = (x1 \div 16) % 2
      /\ BitOf(d, b + 2) = (x1 \div 8) % 2
      /\ BitOf(d, b + 3) = (x1 \div 4) % 2
      /\ BitOf(d, b + 4) = (x1 \div 2) % 2
      /\ BitOf(d, b + 5) = (x1 \div 1) % 2
  <2>1. 4 * q + 0 + 1 = 4 * q + 1 /\ 24 * q + 6 * 0 = b
    OBVIOUS
  <2>2. QED
    BY <2>1, BitsInGroup, 0 \in 0..3
<1>2. /\ BitOf(d, b + 6) = (x2 \div 32) % 2
      /\ BitOf(d, b + 7) = (x2 \div 16) % 2
      /\ BitOf(d, b + 8) = (x2 \div 8) % 2
      /\ BitOf(d, b + 8 + 1) = (x2 \div 4) % 2
      /\ BitOf(d, b + 8 + 2) = (x2 \div 2) % 2
      /\ BitOf(d, b + 8 + 3) = (x2 \div 1) % 2
  <2>1. /\ 4 * q + 1 + 1 = 4 * q + 2 /\ 24 * q + 6 * 1 = b + 6
        /\ b + 6 + 1 = b + 7 /\ b + 6 + 2 = b + 8 /\ b + 6 + 3 = b + 8 + 1
        /\ b + 6 + 4 = b + 8 + 2 /\ b + 6 + 5 = b + 8 + 3
    OBVIOUS
  <2>2. QED
    BY <2>1, BitsInGroup, 1 \in 0..3
<1>3. /\ BitOf(d, b + 8 + 4) = (x3 \div 32) % 2
      /\ BitOf(d, b + 8 + 5) = (x3 \div 16) % 2
      /\ BitOf(d, b + 8 + 6) = (x3 \div 8) % 2
      /\ BitOf(d, b + 8 + 7) = (x3 \div 4) % 2
      /\ BitOf(d, b + 16) = (x3 \div 2) % 2
      /\ BitOf(d, b + 16 + 1) = (x3 \div 1) % 2
  <2>1. /\ 4 * q + 2 + 1 = 4 * q + 3 /\ 24 * q + 6 * 2 = b + 8 + 4
        /\ b + 8 + 4 + 1 = b + 8 + 5 /\ b + 8 + 4 + 2 = b + 8 + 6
        /\ b + 8 + 4 + 3 = b + 8 + 7 /\ b + 8 + 4 + 4 = b + 16
        /\ b + 8 + 4 + 5 = b + 16 + 1
    OBVIOUS
  <2>2. QED
    BY <2>1, BitsInGroup, 2 \in 0..3
<1>4. /\ BitOf(d, b + 16 + 2) = (x4 \div 32) % 2
      /\ BitOf(d, b + 16 + 3) = (x4 \div 16) % 2
      /\ BitOf(d, b + 16 + 4) = (x4 \div 8) % 2
      /\ BitOf(d, b + 16 + 5) = (x4 \div 4) % 2
      /\ BitOf(d, b + 16 + 6) = (x4 \div 2) % 2
      /\ BitOf(d, b + 16 + 7) = (x4 \div 1) % 2
  <2>1. /\ 4 * q + 3 + 1 = 4 * q + 4 /\ 24 * q + 6 * 3 = b + 16 + 2
        /\ b + 16 + 2 + 1 = b + 16 + 3 /\ b + 16 + 2 + 2 = b + 16 + 4
        /\ b + 16 + 2 + 3 = b + 16 + 5 /\ b + 16 + 2 + 4 = b + 16 + 6
        /\ b + 16 + 2 + 5 = b + 16 + 7
    OBVIOUS
  <2>2. QED
    BY <2>1, BitsInGroup, 3 \in 0..3
<1>5. 8 * ((3 * q + 1) - 1) = b /\ 8 * ((3 * q + 2) - 1) = b + 8
      /\ 8 * ((3 * q + 3) - 1) = b + 16
  OBVIOUS
<1> HIDE DEF x1, x2, x3, x4, b
<1>6. ASSUME x1 \in 0..63, x2 \in 0..63
      PROVE  ByteOf(d, 3 * q + 1) = x1 * 4 + (x2 \div 16)
  <2>1. ByteOf(d, 3 * q + 1) =
          128 * ((x1 \div 32) % 2) + 64 * ((x1 \div 16) % 2) + 32 * ((x1 \div 8) % 2)
          + 16 * ((x1 \div 4) % 2) + 8 * ((x1 \div 2) % 2) + 4 * ((x1 \div 1) % 2)
          + 2 * ((x2 \div 32) % 2) + ((x2 \div 16) % 2)
    BY <1>1, <1>2, <1>5 DEF ByteOf
  <2>2. 32 * ((x1 \div 32) % 2) + 16 * ((x1 \div 16) % 2) + 8 * ((x1 \div 8) % 2)
          + 4 * ((x1 \div 4) % 2) + 2 * ((x1 \div 2) % 2) + ((x1 \div 1) % 2) = x1
    BY <1>6, BitsOfDigit
  <2>3. 2 * ((x2 \div 32) % 2) + ((x2 \div 16) % 2) = x2 \div 16
    BY <1>6, BitsOfDigit
  <2>4. QED
    BY <2>1, <2>2, <2>3, <1>6
<1>7. ASSUME x2 \in 0..63, x3 \in 0..63
      PROVE  ByteOf(d, 3 * q + 2) = (x2 % 16) * 16 + (x3 \div 4)
  <2>1. ByteOf(d, 3 * q + 2) =
          128 * ((x2 \div 8) % 2) + 64 * ((x2 \div 4) % 2) + 32 * ((x2 \div 2) % 2)
          + 16 * ((x2 \div 1) % 2) + 8 * ((x3 \div 32) % 2) + 4 * ((x3 \div 16) % 2)
          + 2 * ((x3 \div 8) % 2) + ((x3 \div 4) % 2)
    BY <1>2, <1>3, <1>5 DEF ByteOf
  <2>2. 8 * ((x2 \div 8) % 2) + 4 * ((x2 \div 4) % 2) + 2 * ((x2 \div 2) % 2)
          + ((x2 \div 1) % 2) = x2 % 16
    BY <1>7, BitsOfDigit
  <2>3. 8 * ((x3 \div 32) % 2) + 4 * ((x3 \div 16) % 2) + 2 * ((x3 \div 8) % 2)
          + ((x3 \div 4) % 2) = x3 \div 4
    BY <1>7, BitsOfDigit
  <2>4. QED
    BY <2>1, <2>2, <2>3, <1>7
<1>8. ASSUME x3 \in 0..63, x4 \in 0..63
      PROVE  ByteOf(d, 3 * q + 3) = (x3 % 4) * 64 + x4
  <2>1. ByteOf(d, 3 * q + 3) =
          128 * ((x3 \div 2) % 2) + 64 * ((x3 \div 1) % 2) + 32 * ((x4 \div 32) % 2)
          + 16 * ((x4 \div 16) % 2) + 8 * ((x4 \div 8) % 2) + 4 * ((x4 \div 4) % 2)
          + 2 * ((x4 \div 2) % 2) + ((x4 \div 1) % 2)
    BY <1>3, <1>4, <1>5 DEF ByteOf
  <2>2. 2 * ((x3 \div 2) % 2) + ((x3 \div 1) % 2) = x3 % 4
    BY <1>8, BitsOfDigit
  <2>3. 32 * ((x4 \div 32) % 2) + 16 * ((x4 \div 16) % 2) + 8 * ((x4 \div 8) % 2)
          + 4 * ((x4 \div 4) % 2) + 2 * ((x4 \div 2) % 2) + ((x4 \div 1) % 2) = x4
    BY <1>8, BitsOfDigit
  <2>4. QED
    BY <2>1, <2>2, <2>3, <1>8
<1>9. QED
  BY <1>6, <1>7, <1>8 DEF x1, x2, x3, x4, GroupMakes

------------------------------------------------------------------------------
(* The invariant of the loop.                                               *)

\* After j digits: the whole bytes, and the bits left over, less 8.
WholeBytes(j) == (6 * j) \div 8
BitsLeft(j) == ((6 * j) % 8) - 8

\* A group starts with nothing left over, and each digit leaves two bits less.
LEMMA PlacesInGroup ==
  ASSUME NEW j \in Nat
  PROVE  \E q \in Nat :
           \/ /\ j = 4 * q /\ BitsLeft(j) = -8 /\ BitsLeft(j + 1) = -2
              /\ WholeBytes(j) = 3 * q /\ WholeBytes(j + 1) = WholeBytes(j)
           \/ /\ j = 4 * q + 1 /\ BitsLeft(j) = -2 /\ BitsLeft(j + 1) = -4
              /\ WholeBytes(j) = 3 * q /\ WholeBytes(j + 1) = 3 * q + 1
           \/ /\ j = 4 * q + 2 /\ BitsLeft(j) = -4 /\ BitsLeft(j + 1) = -6
              /\ WholeBytes(j) = 3 * q + 1 /\ WholeBytes(j + 1) = 3 * q + 2
           \/ /\ j = 4 * q + 3 /\ BitsLeft(j) = -6 /\ BitsLeft(j + 1) = -8
              /\ WholeBytes(j) = 3 * q + 2 /\ WholeBytes(j + 1) = 3 * q + 3
<1> DEFINE q == j \div 4
           r == j % 4
<1>1. q \in Nat /\ r \in 0..3 /\ j = 4 * q + r
  OBVIOUS
<1> HIDE DEF q, r
<1>2. CASE r = 0
  BY <1>1, <1>2 DEF BitsLeft, WholeBytes
<1>3. CASE r = 1
  BY <1>1, <1>3 DEF BitsLeft, WholeBytes
<1>4. CASE r = 2
  BY <1>1, <1>4 DEF BitsLeft, WholeBytes
<1>5. CASE r = 3
  BY <1>1, <1>5 DEF BitsLeft, WholeBytes
<1>6. QED
  BY <1>1, <1>2, <1>3, <1>4, <1>5

\* What the loop has after j digits.
BytesTo(bytes, d, n) ==
    /\ bytes \in Seq(0..255) /\ Len(bytes) = n
    /\ \A k \in 1..n : bytes[k] = ByteOf(d, k)
Loop(acc, d, j) ==
    /\ acc \in [val : Nat, valb : Int, bytes : Seq(0..255)]
    /\ j > 0 => acc.val % 64 = d[j]
    /\ acc.valb = BitsLeft(j)
    /\ BytesTo(acc.bytes, d, WholeBytes(j))

LEMMA LoopStarts ==
  ASSUME NEW d
  PROVE  Loop(Start, d, 0)
<1>1. <<>> \in Seq(0..255) /\ Len(<<>>) = 0 /\ BitsLeft(0) = -8 /\ WholeBytes(0) = 0
  BY DEF BitsLeft, WholeBytes
<1>2. QED
  BY <1>1 DEF Loop, Start, BytesTo

LEMMA OneMoreByte ==
  ASSUME NEW d, NEW n \in Nat, NEW bytes, BytesTo(bytes, d, n),
         NEW byte \in 0..255, byte = ByteOf(d, n + 1)
  PROVE  BytesTo(Append(bytes, byte), d, n + 1)
<1>1. /\ Append(bytes, byte) \in Seq(0..255)
      /\ Len(Append(bytes, byte)) = n + 1
      /\ \A k \in 1..n : Append(bytes, byte)[k] = bytes[k]
      /\ Append(bytes, byte)[n + 1] = byte
  BY AppendProperties DEF BytesTo
<1>2. \A k \in 1..(n + 1) : Append(bytes, byte)[k] = ByteOf(d, k)
  BY <1>1 DEF BytesTo
<1>3. QED
  BY <1>1, <1>2 DEF BytesTo

\* One digit more.
LEMMA LoopStep ==
  ASSUME NEW d, NEW j \in Nat, NEW acc, Loop(acc, d, j), NEW digit \in 0..63,
         d[j + 1] = digit, j > 0 => d[j] \in 0..63
  PROVE  Loop(DecodeDigit(acc, digit), d, j + 1)
<1> DEFINE prev == acc.val % 64
           val == Shifted(acc.val, digit)
           valb == acc.valb + 6
           next == DecodeDigit(acc, digit)
<1>1. /\ acc \in [val : Nat, valb : Int, bytes : Seq(0..255)]
      /\ j > 0 => prev = d[j]
      /\ acc.valb = BitsLeft(j) /\ BytesTo(acc.bytes, d, WholeBytes(j))
  BY DEF Loop
<1>2. EndsWith(val, prev, digit) /\ BytesAre(val, prev, digit)
  BY <1>1, BytesOfTwoDigits, Zenon
<1> HIDE DEF prev
<1>3. val \in Nat /\ val % 64 = digit
  BY <1>2 DEF EndsWith
<1>4. PICK q \in Nat :
           \/ /\ j = 4 * q /\ BitsLeft(j) = -8 /\ BitsLeft(j + 1) = -2
              /\ WholeBytes(j) = 3 * q /\ WholeBytes(j + 1) = WholeBytes(j)
           \/ /\ j = 4 * q + 1 /\ BitsLeft(j) = -2 /\ BitsLeft(j + 1) = -4
              /\ WholeBytes(j) = 3 * q /\ WholeBytes(j + 1) = 3 * q + 1
           \/ /\ j = 4 * q + 2 /\ BitsLeft(j) = -4 /\ BitsLeft(j + 1) = -6
              /\ WholeBytes(j) = 3 * q + 1 /\ WholeBytes(j + 1) = 3 * q + 2
           \/ /\ j = 4 * q + 3 /\ BitsLeft(j) = -6 /\ BitsLeft(j + 1) = -8
              /\ WholeBytes(j) = 3 * q + 2 /\ WholeBytes(j + 1) = 3 * q + 3
  BY PlacesInGroup
<1>5. CASE j = 4 * q
  <2>1. valb = -2 /\ BitsLeft(j + 1) = valb /\ WholeBytes(j + 1) = WholeBytes(j)
    BY <1>1, <1>4, <1>5
  <2>2. next = [acc EXCEPT !.val = val, !.valb = valb]
    BY <2>1 DEF DecodeDigit, HasByte, Shifted
  <2> HIDE DEF val, valb, next
  <2>3. /\ next \in [val : Nat, valb : Int, bytes : Seq(0..255)]
        /\ next.val = val /\ next.valb = valb /\ next.bytes = acc.bytes
    <3> DEFINE one == [acc EXCEPT !.val = val]
    <3>1. /\ one \in [val : Nat, valb : Int, bytes : Seq(0..255)]
          /\ one.val = val /\ one.bytes = acc.bytes
      BY <1>1, <1>3
    <3>2. next = [one EXCEPT !.valb = valb]
      BY <1>1, <2>2
    <3> HIDE DEF one
    <3>3. valb \in Int
      BY <2>1
    <3>4. QED
      BY <3>1, <3>2, <3>3
  <2>4. QED
    BY <1>1, <1>3, <2>1, <2>3 DEF Loop, next
<1>6. CASE j # 4 * q
  <2> DEFINE byte == ByteRead(val, valb)
             n == WholeBytes(j)
  <2>1. /\ valb \in {0, 2, 4} /\ BitsLeft(j + 1) = valb - 8
        /\ n \in Nat /\ WholeBytes(j + 1) = n + 1 /\ j > 0
    BY <1>1, <1>4, <1>6
  <2>2. next = [val |-> val, valb |-> valb - 8, bytes |-> Append(acc.bytes, byte)]
    BY <2>1 DEF DecodeDigit, HasByte, Shifted, ByteRead
  <2>3. prev \in 0..63 /\ prev = d[j]
    BY <1>1, <2>1
  <2> HIDE DEF val, n, next
  <2>4. byte = ByteOf(d, n + 1)
    <3>1. CASE j = 4 * q + 1
      <4>1. j + 1 = 4 * q + 2 /\ valb = 4 /\ n + 1 = 3 * q + 1
        BY <1>1, <1>4, <3>1 DEF n
      <4>2. d[4 * q + 1] = prev /\ d[4 * q + 2] = digit
        BY <2>3, <3>1, <4>1
      <4>3. ByteOf(d, 3 * q + 1) = prev * 4 + (digit \div 16)
        <5>1. d[4 * q + 1] \in 0..63 /\ d[4 * q + 2] \in 0..63
          BY <2>3, <4>2
        <5>2. ByteOf(d, 3 * q + 1) = d[4 * q + 1] * 4 + (d[4 * q + 2] \div 16)
          BY <5>1, BytesOfGroup DEF GroupMakes
        <5>3. QED
          BY <4>2, <5>2
      <4>4. QED
        BY <1>2, <4>1, <4>3 DEF BytesAre
    <3>2. CASE j = 4 * q + 2
      <4>1. j + 1 = 4 * q + 3 /\ valb = 2 /\ n + 1 = 3 * q + 2
        BY <1>1, <1>4, <3>2 DEF n
      <4>2. d[4 * q + 2] = prev /\ d[4 * q + 3] = digit
        BY <2>3, <3>2, <4>1
      <4>3. ByteOf(d, 3 * q + 2) = (prev % 16) * 16 + (digit \div 4)
        <5>1. d[4 * q + 2] \in 0..63 /\ d[4 * q + 3] \in 0..63
          BY <2>3, <4>2
        <5>2. ByteOf(d, 3 * q + 2) = (d[4 * q + 2] % 16) * 16 + (d[4 * q + 3] \div 4)
          BY <5>1, BytesOfGroup DEF GroupMakes
        <5>3. QED
          BY <4>2, <5>2
      <4>4. QED
        BY <1>2, <4>1, <4>3 DEF BytesAre
    <3>3. CASE j = 4 * q + 3
      <4>1. j + 1 = 4 * q + 4 /\ valb = 0 /\ n + 1 = 3 * q + 3
        BY <1>1, <1>4, <3>3 DEF n
      <4>2. d[4 * q + 3] = prev /\ d[4 * q + 4] = digit
        BY <2>3, <3>3, <4>1
      <4>3. ByteOf(d, 3 * q + 3) = (prev % 4) * 64 + digit
        <5>1. d[4 * q + 3] \in 0..63 /\ d[4 * q + 4] \in 0..63
          BY <2>3, <4>2
        <5>2. ByteOf(d, 3 * q + 3) = (d[4 * q + 3] % 4) * 64 + d[4 * q + 4]
          BY <5>1, BytesOfGroup DEF GroupMakes
        <5>3. QED
          BY <4>2, <5>2
      <4>4. QED
        BY <1>2, <4>1, <4>3 DEF BytesAre
    <3>4. QED
      BY <1>4, <1>6, <3>1, <3>2, <3>3
  <2>5. byte \in 0..255
    BY <1>2, <2>1 DEF BytesAre
  <2> HIDE DEF byte, valb
  <2>6. BytesTo(Append(acc.bytes, byte), d, n + 1)
    BY <1>1, <2>1, <2>4, <2>5, OneMoreByte, Zenon DEF n
  <2>7. Append(acc.bytes, byte) \in Seq(0..255)
    BY <2>6 DEF BytesTo
  <2>8. /\ next \in [val : Nat, valb : Int, bytes : Seq(0..255)]
        /\ next.val = val /\ next.valb = valb - 8 /\ next.bytes = Append(acc.bytes, byte)
    BY <1>3, <2>1, <2>2, <2>7
  <2>9. QED
    BY <1>3, <2>1, <2>6, <2>8 DEF Loop, next
<1>7. QED
  BY <1>5, <1>6

\* The loop's bytes are the ones that the digits make.
LEMMA LoopDecodes ==
  ASSUME NEW d \in Seq(0..63)
  PROVE  Loop(Fold(d), d, Len(d))
<1>1. PICK n \in Nat : n = Len(d) /\ DOMAIN d = 1..n /\ \A j \in 1..n : d[j] \in 0..63
  <2>1. Len(d) \in Nat /\ DOMAIN d = 1..Len(d)
    OBVIOUS
  <2>2. \A j \in 1..Len(d) : d[j] \in 0..63
    BY ElementOfSeq
  <2>3. QED
    BY <2>1, <2>2
<1>2. PICK acc : /\ acc[0] = Start /\ acc[n] = Fold(d)
                 /\ \A j \in 1..n : acc[j] = DecodeDigit(acc[j - 1], d[j])
  BY <1>1, LoopOfDigits
<1> DEFINE S == {j \in Nat : j <= n => Loop(acc[j], d, j)}
<1>3. 0 \in S
  BY <1>2, LoopStarts
<1>4. ASSUME NEW j \in Nat, j \in S PROVE j + 1 \in S
  <2> SUFFICES ASSUME j + 1 <= n PROVE Loop(acc[j + 1], d, j + 1)
    OBVIOUS
  <2>1. Loop(acc[j], d, j) /\ j + 1 \in 1..n /\ (j + 1) - 1 = j
    BY <1>1, <1>4
  <2>2. acc[j + 1] = DecodeDigit(acc[j], d[j + 1]) /\ d[j + 1] \in 0..63
    BY <1>1, <1>2, <2>1
  <2>3. j > 0 => d[j] \in 0..63
    <3>1. j > 0 => j \in 1..n
      BY <2>1
    <3>2. QED
      BY <1>1, <3>1
  <2>4. QED
    BY <2>1, <2>2, <2>3, LoopStep
<1>5. n \in S
  <2> HIDE DEF S
  <2>1. QED
    BY <1>1, <1>3, <1>4, SetOfNaturals
<1>6. QED
  BY <1>1, <1>2, <1>5

------------------------------------------------------------------------------
(* The characters of a payload are its digits.                              *)

\* A payload's digits.
DigitOf(c) == IF c >= Minus THEN c - 2 ELSE c
DigitsOf(payload) == [k \in 1..Len(payload) |-> DigitOf(payload[k])]

\* Padding and replacement leave one digit for each character.
LEMMA DigitsRead ==
  ASSUME NEW payload \in Seq(0..Underscore)
  PROVE  /\ Digits(payload) = DigitsOf(payload)
         /\ DigitsOf(payload) \in Seq(0..63) /\ Len(DigitsOf(payload)) = Len(payload)
<1> DEFINE n == Len(payload)
           text == ReplaceAll(ReplaceAll(payload, Minus, Plus), Underscore, Slash)
           pad == (4 - (Len(text) % 4)) % 4
           base64 == text \o [k \in 1..pad |-> Equals]
           I == {k \in 1..Len(base64) : ~is_base64(base64[k])}
           stop == SelectInSeq(base64, LAMBDA c : ~is_base64(c))
           d == DigitsOf(payload)
<1>1. n \in Nat /\ \A k \in 1..n : payload[k] \in 0..65
  BY ElementOfSeq DEF Underscore
<1>2. \A c \in 0..65 : /\ DigitOf(c) \in 0..63
                       /\ DigitOf(c) = IF c = 65 THEN 63 ELSE IF c = 64 THEN 62 ELSE c
  BY DEF DigitOf, Minus
<1>3. d \in Seq(0..63) /\ Len(d) = n /\ DOMAIN d = 1..n
  <2> HIDE DEF n, d
  <2>1. d \in [1..n -> 0..63]
    BY <1>1, <1>2, Zenon DEF DigitsOf, n, d
  <2>2. QED
    BY <1>1, <2>1
<1>4. text = d
  <2> DEFINE first == ReplaceAll(payload, Minus, Plus)
  <2>1. /\ first = [k \in 1..n |-> IF payload[k] = Minus THEN Plus ELSE payload[k]]
        /\ Len(first) = n
    BY <1>1 DEF ReplaceAll
  <2>2. text = [k \in 1..n |-> IF first[k] = Underscore THEN Slash ELSE first[k]]
    BY <2>1 DEF ReplaceAll
  <2> HIDE DEF first, text
  <2>3. \A k \in 1..n : (IF first[k] = Underscore THEN Slash ELSE first[k]) = DigitOf(payload[k])
    <3>1. \A k \in 1..n : first[k] = IF payload[k] = 64 THEN 62 ELSE payload[k]
      BY <2>1 DEF Minus, Plus
    <3>2. ASSUME NEW k \in 1..n
          PROVE  (IF first[k] = Underscore THEN Slash ELSE first[k]) = DigitOf(payload[k])
      <4>1. PICK c \in 0..65 : c = payload[k]
        BY <1>1
      <4>2. first[k] = IF c = 64 THEN 62 ELSE c
        BY <3>1, <4>1
      <4>3. DigitOf(c) = IF c = 65 THEN 63 ELSE IF c = 64 THEN 62 ELSE c
        BY <1>2
      <4>4. QED
        BY <4>1, <4>2, <4>3 DEF Underscore, Slash
    <3>3. QED
      BY <3>2
  <2>4. QED
    BY <2>2, <2>3 DEF DigitsOf
<1> HIDE DEF d, text
<1>5. pad \in Nat
  BY <1>1, <1>3, <1>4
<1> HIDE DEF pad
<1>6. /\ Len(base64) = n + pad
      /\ \A k \in 1..n : base64[k] = d[k]
      /\ \A k \in (n + 1)..(n + pad) : base64[k] = Equals
      /\ base64 \in Seq(0..66)
  <2> DEFINE tail == [k \in 1..pad |-> Equals]
  <2>1. tail \in Seq(0..66) /\ Len(tail) = pad /\ \A k \in 1..pad : tail[k] = Equals
    BY <1>5 DEF Equals
  <2>2. d \in Seq(0..66)
    BY <1>3
  <2> HIDE DEF tail
  <2>3. /\ d \o tail \in Seq(0..66) /\ Len(d \o tail) = n + pad
        /\ \A k \in 1..(n + pad) :
             (d \o tail)[k] = IF k <= n THEN d[k] ELSE tail[k - n]
    BY <1>3, <2>1, <2>2, ConcatProperties
  <2>4. \A k \in (n + 1)..(n + pad) : k - n \in 1..pad /\ k \in 1..(n + pad) /\ ~(k <= n)
    BY <1>1, <1>5
  <2>5. base64 = d \o tail
    BY <1>4 DEF tail
  <2> HIDE DEF base64, n
  <2>6. \A k \in 1..n : k \in 1..(n + pad) /\ k <= n
    BY <1>1, <1>5 DEF n
  <2>7. QED
    BY <2>1, <2>3, <2>4, <2>5, <2>6
<1> HIDE DEF base64
<1>7. \A k \in 1..n : is_base64(base64[k])
  <2>1. \A k \in 1..n : d[k] \in 0..63
    BY <1>3, ElementOfSeq
  <2>2. \A c \in 0..63 : is_base64(c)
    BY DEF is_base64, Minus
  <2> HIDE DEF n
  <2>3. QED
    BY <1>6, <2>1, <2>2
<1>8. \A k \in (n + 1)..(n + pad) : ~is_base64(base64[k])
  BY <1>6 DEF is_base64, Minus, Equals
<1>9. stop = IF I # {} THEN Min(I) ELSE 0
  BY Zenon DEF SelectInSeq
<1>10. Digits(payload) = IF stop = 0 THEN base64 ELSE SubSeq(base64, 1, stop - 1)
  BY Zenon DEF Digits, base64, text, pad
<1>11. CASE pad = 0
  <2>1. I = {}
    BY <1>1, <1>6, <1>7, <1>11
  <2>2. base64 = d
    BY <1>3, <1>6, <1>11
  <2>3. QED
    BY <1>3, <1>9, <1>10, <2>1, <2>2 DEF d
<1>12. CASE pad # 0
  <2>1. I = (n + 1)..(n + pad)
    BY <1>1, <1>5, <1>6, <1>7, <1>8
  <2>2. n + 1 \in I /\ \A k \in I : n + 1 =< k
    BY <1>1, <1>5, <1>12, <2>1
  <2>3. \A m \in I : (\A k \in I : m =< k) => m = n + 1
    BY <1>1, <2>1, <2>2
  <2>4. Min(I) = n + 1
    <3> HIDE DEF I
    <3>1. QED
      BY <2>2, <2>3 DEF Min
  <2>5. stop = n + 1 /\ stop # 0 /\ stop - 1 = n
    BY <1>1, <1>9, <2>2, <2>4
  <2>6. Digits(payload) = SubSeq(base64, 1, n)
    BY <1>10, <2>5
  <2>7. \A k \in 1..n : base64[k] \in 0..63
    BY <1>3, <1>6, ElementOfSeq
  <2>8. /\ SubSeq(base64, 1, n) \in Seq(0..63) /\ Len(SubSeq(base64, 1, n)) = n
        /\ \A k \in 1..n : SubSeq(base64, 1, n)[k] = base64[k]
    <3>1. /\ SubSeq(base64, 1, n) \in Seq(0..63)
          /\ Len(SubSeq(base64, 1, n)) = IF 1 <= n THEN n - 1 + 1 ELSE 0
          /\ \A k \in 1..(n - 1 + 1) : SubSeq(base64, 1, n)[k] = base64[1 + k - 1]
      BY <1>1, <2>7, SubSeqProperties
    <3>2. QED
      BY <1>1, <3>1
  <2>9. SubSeq(base64, 1, n) = d
    BY <1>3, <1>6, <2>8
  <2>10. QED
    BY <1>3, <2>6, <2>9 DEF d
<1>13. QED
  BY <1>11, <1>12

\* The encoding's bytes are made of the digits' bits.
LEMMA MeaningOfDigits ==
  ASSUME NEW payload \in Seq(0..Underscore)
  PROVE  Meaning(payload) = [k \in 1..((6 * Len(payload)) \div 8) |->
                                ByteOf(DigitsOf(payload), k)]
<1> DEFINE n == Len(payload)
           d == DigitsOf(payload)
           digit(c) == IF c >= Minus THEN c - 2 ELSE c
           bit(b) == (digit(payload[b \div 6 + 1]) \div 2^(5 - (b % 6))) % 2
           byte(b) == 128 * bit(b) + 64 * bit(b + 1) + 32 * bit(b + 2) + 16 * bit(b + 3)
                   + 8 * bit(b + 4) + 4 * bit(b + 5) + 2 * bit(b + 6) + bit(b + 7)
<1>1. n \in Nat
  OBVIOUS
<1>2. ASSUME NEW b \in 0..(6 * n - 1) PROVE bit(b) = BitOf(d, b)
  <2>1. b \div 6 + 1 \in 1..n
    BY <1>1
  <2>2. d[b \div 6 + 1] = digit(payload[b \div 6 + 1])
    BY <2>1 DEF DigitsOf, DigitOf
  <2>3. QED
    BY <2>2 DEF BitOf
<1>3. ASSUME NEW k \in 1..((6 * n) \div 8) PROVE byte(8 * (k - 1)) = ByteOf(d, k)
  <2> DEFINE b == 8 * (k - 1)
  <2>1. /\ b \in 0..(6 * n - 1) /\ b + 1 \in 0..(6 * n - 1) /\ b + 2 \in 0..(6 * n - 1)
        /\ b + 3 \in 0..(6 * n - 1) /\ b + 4 \in 0..(6 * n - 1) /\ b + 5 \in 0..(6 * n - 1)
        /\ b + 6 \in 0..(6 * n - 1) /\ b + 7 \in 0..(6 * n - 1)
    BY <1>1
  <2> HIDE DEF b, bit, d
  <2>2. byte(b) = ByteOf(d, k)
    BY <1>2, <2>1 DEF ByteOf, b
  <2>3. QED
    BY <2>2 DEF b
<1>4. Meaning(payload) = [k \in 1..((6 * n) \div 8) |-> byte(8 * (k - 1))]
  BY Zenon DEF Meaning
<1> HIDE DEF byte, d
<1>5. QED
  BY <1>3, <1>4 DEF d

\* The loop of the decoder computes what the encoding means.
THEOREM DecodesAsMeant ==
  ASSUME NEW payload \in Seq(0..Underscore)
  PROVE  /\ decode_base64url(payload) = Meaning(payload)
         /\ decode_base64url(payload) \in Seq(0..255)
<1> DEFINE d == DigitsOf(payload)
           n == Len(payload)
           bytes == Fold(d).bytes
<1>1. Digits(payload) = d /\ d \in Seq(0..63) /\ Len(d) = n /\ n \in Nat
  BY DigitsRead
<1>2. decode_base64url(payload) = bytes
  BY <1>1 DEF decode_base64url, Fold, Start
<1>3. Loop(Fold(d), d, n)
  BY <1>1, LoopDecodes
<1> HIDE DEF bytes, d
<1>4. BytesTo(bytes, d, (6 * n) \div 8)
  BY <1>3 DEF Loop, WholeBytes, bytes
<1>5. bytes = [k \in 1..((6 * n) \div 8) |-> ByteOf(d, k)]
  BY <1>1, <1>4 DEF BytesTo
<1>6. Meaning(payload) = [k \in 1..((6 * n) \div 8) |-> ByteOf(d, k)]
  BY MeaningOfDigits DEF d
<1>7. QED
  BY <1>2, <1>4, <1>5, <1>6 DEF BytesTo
------------------------------------------------------------------------------
(* The rest of the state.                                                   *)

\* A session that signs in or saves has not made its last request; and what
\* add-account has open is the file of the payload it was given.
TypesInv ==
    /\ left \in [Sessions -> 0..Calls]
    /\ \A s \in Sessions : pc[s] \in {"signing_in", "saving"} => left[s] > 0
    /\ command \in Commands /\ alive \in BOOLEAN /\ starts \in 1..Starts
    /\ refused \in BOOLEAN /\ adding \in {"none", "bare", "new"} /\ wrecked \in BOOLEAN
    /\ id_token \in Payloads \cup {<<>>} /\ email \in Seq(0..255)
    /\ adding # "none" => id_token \in Payloads /\ email = decode_base64url(id_token)

LEMMA TypesInvInit == Init => TypesInv
<1> SUFFICES ASSUME Init PROVE TypesInv
  OBVIOUS
<1>1. <<>> \in Seq(0..255)
  OBVIOUS
<1>2. Calls \in Nat \ {0} /\ Starts \in Nat \ {0} /\ Calls \in 0..Calls /\ 1 \in 1..Starts
  BY TokenAssumption
<1>3. QED
  BY <1>1, <1>2 DEF Init, MayRefuse, TypesInv

LEMMA EndKeepsTypes == TypesInv /\ End => TypesInv'
<1> SUFFICES ASSUME TypesInv, End PROVE TypesInv'
  OBVIOUS
<1>1. <<>> \in Seq(0..255)
  OBVIOUS
<1>2. wrecked' \in BOOLEAN
  BY Zenon DEF End, TypesInv
<1>3. alive' = FALSE /\ adding' = "none" /\ id_token' = <<>> /\ email' = <<>>
      /\ UNCHANGED <<pc, left, command, starts, refused>>
  BY DEF End
<1>4. QED
  BY <1>1, <1>2, <1>3 DEF TypesInv

\* The steps of a session that make no request complete.
LEMMA GotoKeepsTypes ==
  ASSUME TokenInv, TypesInv, NEW s \in Sessions, NEW from, NEW to, Goto(s, from, to),
         to \in {"signing_in", "saving"} => left[s] > 0, UNCHANGED left
  PROVE  TypesInv'
<1>1. UNCHANGED <<command, alive, starts, refused, adding, wrecked, id_token, email>>
  BY DEF Goto, process, naming
<1>2. \A r \in Sessions : pc'[r] \in {"signing_in", "saving"} => left[r] > 0
  BY DEF Goto, TokenInv, TypesInv
<1>3. QED
  BY <1>1, <1>2 DEF TypesInv

LEMMA SessionStepKeepsTypes ==
  ASSUME TokenInv, TypesInv, NEW s \in Sessions, SessionStep(s)
  PROVE  TypesInv'
<1>1. ASSUME NEW from, Throw(s, from) PROVE TypesInv'
  BY <1>1, EndKeepsTypes, GotoKeepsTypes DEF Throw
<1>2. CASE Load(s) \/ Finish(s)
  BY <1>2, GotoKeepsTypes DEF Load, Finish
<1>3. CASE LoadThrows(s) \/ RefreshThrows(s) \/ SignInThrows(s)
  BY <1>1, <1>3 DEF LoadThrows, RefreshThrows, SignInThrows
<1>4. CASE Refresh(s) \/ NoSession(s)
  BY <1>4, GotoKeepsTypes DEF Refresh, NoSession, Asking, OpenFile
<1>5. CASE SignIn(s)
  <2>1. left[s] > 0
    BY <1>5 DEF SignIn, OpenFile, Goto, TypesInv
  <2>2. QED
    BY <1>5, <2>1, GotoKeepsTypes DEF SignIn, OpenFile
<1>6. CASE WriteFile(s)
  <2>1. /\ pc[s] = "saving" /\ pc' = [pc EXCEPT ![s] = "ready"]
        /\ left' = [left EXCEPT ![s] = left[s] - 1]
        /\ UNCHANGED <<command, alive, starts, refused, adding, wrecked, id_token, email>>
    BY <1>6 DEF WriteFile, Goto, process, naming
  <2>2. left[s] - 1 \in 0..Calls
    BY <2>1, TokenAssumption DEF TypesInv
  <2>3. left' \in [Sessions -> 0..Calls]
    BY <2>1, <2>2 DEF TypesInv
  <2>4. \A r \in Sessions : pc'[r] \in {"signing_in", "saving"} => left'[r] > 0
    BY <2>1 DEF TokenInv, TypesInv
  <2>5. QED
    BY <2>1, <2>3, <2>4 DEF TypesInv
<1>7. QED
  BY <1>2, <1>3, <1>4, <1>5, <1>6 DEF SessionStep

LEMMA TypesInvStep == TokenInv /\ TypesInv /\ [Next]_vars => TypesInv'
<1> SUFFICES ASSUME TokenInv, TypesInv, [Next]_vars PROVE TypesInv'
  OBVIOUS
<1>1. CASE UNCHANGED vars
  BY <1>1 DEF vars, process, naming, TypesInv
<1>2. CASE AddAccountOpens
  <2>1. /\ id_token' \in Payloads /\ email' = decode_base64url(id_token')
        /\ adding' \in {"bare", "new"}
        /\ UNCHANGED <<pc, left, command, alive, starts, refused, wrecked>>
    BY <1>2, TokenAssumption DEF AddAccountOpens
  <2>2. email' \in Seq(0..255)
    BY <2>1, DecodesAsMeant, PayloadAssumption
  <2>3. QED
    BY <2>1, <2>2 DEF TypesInv
<1>3. CASE AddAccountWrites
  <2>1. <<>> \in Seq(0..255)
    OBVIOUS
  <2>2. QED
    BY <1>3, <2>1 DEF AddAccountWrites, TypesInv
<1>4. CASE Restart
  <2>1. starts' \in 1..Starts /\ Calls \in 0..Calls
    BY <1>4, TokenAssumption DEF Restart, TypesInv
  <2>2. QED
    BY <1>4, <2>1 DEF Restart, MayRefuse, TypesInv, naming
<1>5. QED
  BY <1>1, <1>2, <1>3, <1>4, SessionStepKeepsTypes, EndKeepsTypes DEF Next, Die

LEMMA TypesInvariant == Spec => []TypesInv
<1>1. QED
  BY TypesInvInit, TypesInvStep, TokenInvariant, PTL DEF Spec

\* Every variable keeps its range; in particular no session asks for more than
\* its requests need, and what a payload decodes to is bytes.
THEOREM TokenTypes == Spec => []TypeOK
<1>1. TokenInv /\ TypesInv => TypeOK
  BY DEF TokenInv, TypesInv, TypeOK, Tokens
<1>2. QED
  BY <1>1, TokenInvariant, TypesInvariant, PTL

\* The file add-account overwrites is the one of the user who signed in, for
\* payloads of every length (gdrive_handler.cpp:23-48, 106-132).
THEOREM TheFileIsTheUsers == Spec => []FileOfTheSignedIn
<1>1. TypesInv => FileOfTheSignedIn
  BY DecodesAsMeant, PayloadAssumption DEF TypesInv, FileOfTheSignedIn
<1>2. QED
  BY <1>1, TypesInvariant, PTL
==============================================================================
