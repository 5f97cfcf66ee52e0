-------------------------- MODULE PONumbersProofs --------------------------
(***************************************************************************)
(* Proofs about PONumbers, for any number of concurrent creations, any     *)
(* number of attempts and any width of the number.                         *)
(***************************************************************************)
EXTENDS PONumbers, FiniteSetTheorems, TLAPS

USE NumbersAssumption, NoneAssumption DEF PC, Number

\* The session takes no part in the step.
Unmoved(t) ==
  /\ pc'[t] = pc[t] /\ attempt'[t] = attempt[t] /\ before'[t] = before[t]
  /\ picked'[t] = picked[t] /\ next'[t] = next[t] /\ pending'[t] = pending[t]

\* The session whose call ends is idle and clean; the others do not notice.
LEMMA EndCleans ==
  ASSUME TypeOK, NEW s \in Sessions, EndTransaction(s)
  PROVE  /\ pc'[s] = "idle" /\ pending'[s] = 0 /\ before'[s] = {} /\ attempt'[s] = 0
         /\ \A t \in Sessions \ {s} : Unmoved(t)
         /\ rowLock' \in [Number -> Sessions \cup {None}]
         /\ pending' \in [Sessions -> Number \cup {0}]
         /\ pc' \in [Sessions -> PC]
         /\ attempt' \in [Sessions -> 0 .. Attempts]
         /\ picked' \in [Sessions -> Number \cup {0}]
         /\ next' \in [Sessions -> Number \cup {0}]
         /\ before' \in [Sessions -> SUBSET Number]
BY DEF TypeOK, EndTransaction, Unmoved

\* An idle, clean session is all right whatever the series has become.
LEMMA IdleIsOK ==
  ASSUME NEW s \in Sessions, NEW k \in Nat,
         pc'[s] = "idle", pending'[s] = 0, before'[s] = {}
  PROVE  SessionOK(s, k)'
<1>1. before'[s] = 1 .. 0 /\ 0 \in 0 .. k
  OBVIOUS
<1> QED
  BY <1>1 DEF SessionOK, InStep

\* A session that does not move stays all right, also when another commits.
LEMMA UnmovedStays ==
  ASSUME NEW t \in Sessions, NEW k \in Nat, SessionOK(t, k), Unmoved(t)
  PROVE  SessionOK(t, k)'
<1>1. PICK b \in 0 .. k : InStep(t, k, b)
  BY DEF SessionOK
<1>2. InStep(t, k, b)'
  BY <1>1 DEF InStep, AtLeast, Unmoved
<1> QED
  BY <1>2 DEF SessionOK

\* A creation that stays where it is, with nothing to commit, allows for the
\* order another one commits.
LEMMA UnmovedKeepsUp ==
  ASSUME NEW t \in Sessions, NEW k \in Nat, TypeOK,
         SessionOK(t, k), pc[t] # "commit", Unmoved(t)
  PROVE  SessionOK(t, k + 1)'
<1>1. PICK b \in 0 .. k : InStep(t, k, b)
  BY DEF SessionOK
<1>2. b \in 0 .. k + 1 /\ attempt[t] \in Nat /\ next[t] \in Nat /\ picked[t] \in Nat
  BY DEF TypeOK
<1>3. InStep(t, k + 1, b)'
  BY <1>1, <1>2 DEF InStep, AtLeast, Unmoved
<1> QED
  BY <1>2, <1>3 DEF SessionOK

-----------------------------------------------------------------------------
\* A creation asks for no number behind its attempts and for none past the next:
\* the inductive invariant of next_po_number and its retry.
THEOREM InductiveInvariant == Spec => []IInv
<1>1. Init => IInv
  <2> SUFFICES ASSUME Init PROVE IInv
    OBVIOUS
  <2>1. TypeOK
    BY DEF Init, TypeOK
  <2>2. numbers = 1 .. 0 /\ 0 \in 0 .. Last + 1
    BY DEF Init
  <2>3. ASSUME NEW s \in Sessions PROVE SessionOK(s, 0)
    <3>1. before[s] = 1 .. 0 /\ 0 \in 0 .. 0
      BY DEF Init
    <3> QED
      BY <3>1 DEF Init, SessionOK, InStep
  <2> QED
    BY <2>1, <2>2, <2>3 DEF Init, IInv
<1>2. IInv /\ [Next]_vars => IInv'
  <2> SUFFICES ASSUME IInv, [Next]_vars PROVE IInv'
    OBVIOUS
  <2>t. TypeOK
    BY DEF IInv
  <2>k. PICK k \in 0 .. Last + 1 : numbers = 1 .. k /\ \A t \in Sessions : SessionOK(t, k)
    BY DEF IInv
  <2>n. k \in Nat
    OBVIOUS
  <2>c. \A s, t \in Sessions : pc[s] = "commit" /\ pc[t] = "commit" => s = t
    BY DEF IInv
  <2>1. CASE UNCHANGED vars
    BY <2>1 DEF IInv, TypeOK, SessionOK, InStep, AtLeast, vars
  <2>2. ASSUME NEW s \in Sessions, Start(s) PROVE IInv'
    <3>1. TypeOK'
      BY <2>2, <2>t DEF Start, TypeOK
    <3>2. ASSUME NEW t \in Sessions \ {s} PROVE SessionOK(t, k)'
      BY <2>2, <2>t, <2>k, <2>n, UnmovedStays DEF Start, TypeOK, Unmoved
    <3>3. SessionOK(s, k)'
      <4>1. k \in 0 .. k /\ before'[s] = 1 .. k /\ attempt'[s] = 1 /\ pc'[s] = "select"
        BY <2>2, <2>t, <2>k DEF Start, TypeOK
      <4>2. pending'[s] = 0
        BY <2>2, <2>k, <2>t DEF Start, SessionOK, InStep
      <4> QED
        BY <4>1, <4>2 DEF SessionOK, InStep, AtLeast
    <3> QED
      BY <3>1, <3>2, <3>3, <2>2, <2>k, <2>c, <2>t DEF Start, IInv, TypeOK
  <2>3. ASSUME NEW s \in Sessions, NEW n \in Number, SelectTop(s, n) PROVE IInv'
    <3>1. TypeOK'
      BY <2>3, <2>t DEF SelectTop, TypeOK
    <3>2. ASSUME NEW t \in Sessions \ {s} PROVE SessionOK(t, k)'
      BY <2>3, <2>t, <2>k, <2>n, UnmovedStays DEF SelectTop, TypeOK, Unmoved
    <3>3. SessionOK(s, k)'
      <4>1. PICK b \in 0 .. k : InStep(s, k, b)
        BY <2>k DEF SessionOK, InStep
      <4>2. n \in 1 .. k /\ n <= Last /\ (n = k \/ n = Last)
        BY <2>3, <2>k DEF SelectTop, Top
      <4>3. /\ before'[s] = 1 .. b /\ picked'[s] = n /\ pc'[s] = "lock"
            /\ pending'[s] = 0 /\ attempt'[s] = attempt[s] /\ attempt[s] \in Nat
        BY <2>3, <2>t, <4>1 DEF SelectTop, TypeOK, InStep
      <4>4. AtLeast(s, b, k + 1)
        BY <2>3, <4>1 DEF SelectTop, InStep
      <4> QED
        BY <4>2, <4>3, <4>4 DEF SessionOK, InStep, AtLeast
    <3> QED
      BY <3>1, <3>2, <3>3, <2>3, <2>k, <2>c, <2>t DEF SelectTop, IInv, TypeOK
  <2>4. ASSUME NEW s \in Sessions, SelectNone(s) PROVE IInv'
    <3>1. TypeOK'
      BY <2>4, <2>t DEF SelectNone, TypeOK
    <3>2. ASSUME NEW t \in Sessions \ {s} PROVE SessionOK(t, k)'
      BY <2>4, <2>t, <2>k, <2>n, UnmovedStays DEF SelectNone, TypeOK, Unmoved
    <3>3. SessionOK(s, k)'
      <4>1. PICK b \in 0 .. k : InStep(s, k, b)
        BY <2>k DEF SessionOK, InStep
      <4>2. k = 0
        <5>1. 1 \notin 1 .. k
          BY <2>4, <2>k DEF SelectNone
        <5> QED
          BY <5>1
      <4>3. /\ before'[s] = 1 .. b /\ next'[s] = 1 /\ pc'[s] = "insert"
            /\ pending'[s] = 0 /\ attempt'[s] = attempt[s] /\ attempt[s] \in Nat
        BY <2>4, <2>t, <4>1 DEF SelectNone, TypeOK, InStep
      <4>4. AtLeast(s, b, k + 1)
        BY <2>4, <4>1 DEF SelectNone, InStep
      <4> QED
        BY <4>2, <4>3, <4>4 DEF SessionOK, InStep, AtLeast
    <3>4. \A t, u \in Sessions : pc'[t] = "commit" /\ pc'[u] = "commit" => t = u
      BY <2>4, <2>c, <2>t DEF SelectNone, TypeOK
    <3>5. numbers' = 1 .. k
      BY <2>4, <2>k DEF SelectNone
    <3> QED
      BY <3>1, <3>2, <3>3, <3>4, <3>5 DEF IInv
  <2>5. ASSUME NEW s \in Sessions, LockTop(s) PROVE IInv'
    <3>0. PICK b \in 0 .. k : InStep(s, k, b)
      BY <2>k DEF SessionOK, InStep
    <3>p. picked[s] \in 1 .. k /\ picked[s] <= Last /\ AtLeast(s, b, picked[s] + 1)
      BY <2>5, <3>0 DEF LockTop, InStep
    <3>1. TypeOK'
      BY <2>5, <2>t, <3>p DEF LockTop, TypeOK
    <3>2. ASSUME NEW t \in Sessions \ {s} PROVE SessionOK(t, k)'
      BY <2>5, <2>t, <2>k, <2>n, UnmovedStays DEF LockTop, TypeOK, Unmoved
    <3>3. SessionOK(s, k)'
      <4>3. /\ before'[s] = 1 .. b /\ next'[s] = picked[s] + 1 /\ pc'[s] = "insert"
            /\ pending'[s] = 0 /\ attempt'[s] = attempt[s] /\ attempt[s] \in Nat
        BY <2>5, <2>t, <3>0 DEF LockTop, TypeOK, InStep
      <4> QED
        BY <3>p, <4>3 DEF SessionOK, InStep, AtLeast
    <3>4. \A t, u \in Sessions : pc'[t] = "commit" /\ pc'[u] = "commit" => t = u
      BY <2>5, <2>c, <2>t DEF LockTop, TypeOK
    <3>5. numbers' = 1 .. k
      BY <2>5, <2>k DEF LockTop
    <3> QED
      BY <3>1, <3>2, <3>3, <3>4, <3>5 DEF IInv
  <2>6. ASSUME NEW s \in Sessions, Insert(s) PROVE IInv'
    <3>0. PICK b \in 0 .. k : InStep(s, k, b)
      BY <2>k DEF SessionOK, InStep
    <3>p. next[s] = k + 1 /\ next[s] \in Number /\ k <= Last /\ AtLeast(s, b, next[s])
      BY <2>6, <3>0, <2>k, <2>t DEF Insert, TypeOK, InStep
    <3>1. TypeOK'
      BY <2>6, <2>t, <3>p DEF Insert, TypeOK
    <3>2. ASSUME NEW t \in Sessions \ {s} PROVE SessionOK(t, k)' /\ pc[t] # "commit"
      <4>1. SessionOK(t, k)'
        BY <2>6, <2>t, <2>k, <2>n, UnmovedStays DEF Insert, TypeOK, Unmoved
      <4>2. pc[t] = "commit" => pending[t] = k + 1
        BY <2>k DEF SessionOK, InStep
      <4> QED
        BY <4>1, <4>2, <3>p, <2>6 DEF Insert, IndexFree
    <3>3. SessionOK(s, k)'
      <4>3. /\ before'[s] = 1 .. b /\ next'[s] = next[s] /\ pc'[s] = "commit"
            /\ pending'[s] = next[s] /\ attempt'[s] = attempt[s] /\ attempt[s] \in Nat
        BY <2>6, <2>t, <3>0 DEF Insert, TypeOK, InStep
      <4> QED
        BY <3>p, <4>3 DEF SessionOK, InStep, AtLeast
    <3>4. \A t, u \in Sessions : pc'[t] = "commit" /\ pc'[u] = "commit" => t = u
      BY <3>2, <2>6, <2>t DEF Insert, TypeOK
    <3> QED
      BY <3>1, <3>2, <3>3, <3>4, <2>6, <2>k DEF Insert, IInv
  <2>7. ASSUME NEW s \in Sessions, Retry(s) PROVE IInv'
    <3>0. PICK b \in 0 .. k : InStep(s, k, b)
      BY <2>k DEF SessionOK, InStep
    <3>p. next[s] \in 1 .. k /\ AtLeast(s, b, next[s])
      BY <2>7, <3>0, <2>k DEF Retry, InStep
    <3>1. TypeOK'
      BY <2>7, <2>t DEF Retry, TypeOK
    <3>2. ASSUME NEW t \in Sessions \ {s} PROVE SessionOK(t, k)'
      BY <2>7, <2>t, <2>k, <2>n, UnmovedStays DEF Retry, TypeOK, Unmoved
    <3>3. SessionOK(s, k)'
      <4>3. /\ before'[s] = 1 .. b /\ pc'[s] = "select"
            /\ pending'[s] = 0 /\ attempt'[s] = attempt[s] + 1 /\ attempt[s] \in Nat
        BY <2>7, <2>t, <3>0 DEF Retry, TypeOK, InStep
      <4>4. AtLeast(s, b, k + 1)'
        BY <3>p, <4>3 DEF AtLeast
      <4> QED
        BY <4>3, <4>4 DEF SessionOK, InStep, AtLeast
    <3> QED
      BY <3>1, <3>2, <3>3, <2>7, <2>k, <2>c, <2>t DEF Retry, IInv, TypeOK
  <2>8. ASSUME NEW s \in Sessions, EndTransaction(s), UNCHANGED numbers PROVE IInv'
    <3>1. TypeOK'
      BY <2>8, <2>t, EndCleans DEF TypeOK
    <3>2. ASSUME NEW t \in Sessions PROVE SessionOK(t, k)'
      <4>1. CASE t = s
        BY <4>1, <2>8, <2>t, <2>n, EndCleans, IdleIsOK
      <4>2. CASE t # s
        BY <4>2, <2>8, <2>t, <2>k, <2>n, EndCleans, UnmovedStays
      <4> QED
        BY <4>1, <4>2
    <3>3. ASSUME NEW t \in Sessions, NEW u \in Sessions, pc'[t] = "commit", pc'[u] = "commit"
          PROVE  t = u
      <4>1. pc'[s] = "idle" /\ \A v \in Sessions \ {s} : pc'[v] = pc[v]
        BY <2>8, <2>t, EndCleans DEF Unmoved
      <4> QED
        BY <4>1, <3>3, <2>c
    <3> QED
      BY <3>1, <3>2, <3>3, <2>8, <2>k DEF IInv
  <2>9. ASSUME NEW s \in Sessions, Commit(s) PROVE IInv'
    <3>p. pending[s] = k + 1 /\ k <= Last
      BY <2>9, <2>k DEF Commit, SessionOK, InStep
    <3>e. EndTransaction(s)
      BY <2>9 DEF Commit
    <3>n. k + 1 \in 0 .. Last + 1 /\ numbers' = 1 .. (k + 1)
      BY <2>9, <3>p, <2>k DEF Commit
    <3>1. TypeOK'
      BY <3>e, <3>n, <2>t, EndCleans DEF TypeOK
    <3>2. ASSUME NEW t \in Sessions PROVE SessionOK(t, k + 1)'
      <4>1. CASE t = s
        BY <4>1, <3>e, <2>t, <2>n, EndCleans, IdleIsOK
      <4>2. CASE t # s
        <5>1. pc[t] # "commit"
          BY <4>2, <2>9, <2>c DEF Commit
        <5> QED
          BY <4>2, <5>1, <3>e, <2>t, <2>k, <2>n, EndCleans, UnmovedKeepsUp
      <4> QED
        BY <4>1, <4>2
    <3>3. ASSUME NEW t \in Sessions, NEW u \in Sessions, pc'[t] = "commit", pc'[u] = "commit"
          PROVE  t = u
      <4>1. pc'[s] = "idle" /\ \A v \in Sessions \ {s} : pc'[v] = pc[v]
        BY <3>e, <2>t, EndCleans DEF Unmoved
      <4> QED
        BY <4>1, <3>3, <2>c
    <3> QED
      BY <3>1, <3>2, <3>3, <3>n DEF IInv
  <2> QED
    BY <2>1, <2>2, <2>3, <2>4, <2>5, <2>6, <2>7, <2>8, <2>9
    DEF Next, Step, Abort, Conflict
<1> QED
  BY <1>1, <1>2, PTL DEF Spec

\* Every variable of a creation stays in its range, at any width of the number.
THEOREM TypeCorrect == Spec => []TypeOK
<1>1. IInv => TypeOK
  BY DEF IInv
<1> QED
  BY <1>1, InductiveInvariant, PTL

\* The orders of a year are numbered without a gap.
THEOREM NoGaps == Spec => []Gapless
<1>1. IInv => Gapless
  BY DEF IInv, Gapless
<1> QED
  BY <1>1, InductiveInvariant, PTL

\* A number is found taken only by a creation that others have overtaken, once
\* for each of its attempts.
THEOREM ConflictsNeedOvertaking == Spec => []ConflictNeedsOvertaking
<1>1. IInv => ConflictNeedsOvertaking
  <2> SUFFICES ASSUME IInv, NEW s \in Sessions,
                      pc[s] = "insert", next[s] \in numbers, next[s] <= Last
               PROVE  Cardinality(numbers \ before[s]) >= attempt[s]
    BY DEF ConflictNeedsOvertaking
  <2>1. PICK k \in 0 .. Last + 1 : numbers = 1 .. k /\ SessionOK(s, k)
    BY DEF IInv
  <2>2. PICK b \in 0 .. k : InStep(s, k, b)
    BY <2>1 DEF SessionOK
  <2>3. b + attempt[s] <= k /\ attempt[s] \in Nat
    BY <2>1, <2>2 DEF InStep, AtLeast, IInv, TypeOK
  <2>4. numbers \ before[s] = (b + 1) .. k
    BY <2>1, <2>2 DEF InStep
  <2>5. Cardinality((b + 1) .. k) = IF b + 1 > k THEN 0 ELSE k - (b + 1) + 1
    BY FS_Interval
  <2>6. b \in Int /\ k \in Int /\ b <= k
    OBVIOUS
  <2>7. Cardinality((b + 1) .. k) >= attempt[s]
    BY <2>3, <2>5, <2>6
  <2> QED
    BY <2>4, <2>7
<1> QED
  BY <1>1, InductiveInvariant, PTL

\* After the last number of full width the year takes one more order and then
\* no other, whoever asks.
THEOREM SeriesExhausted == Spec => SeriesEnds
<1>1. IInv /\ [Next]_vars => [Last + 1 \in numbers => numbers' = numbers]_vars
  <2> SUFFICES ASSUME IInv, [Next]_vars, Last + 1 \in numbers PROVE numbers' = numbers
    OBVIOUS
  <2>1. PICK k \in 0 .. Last + 1 : numbers = 1 .. k /\ \A t \in Sessions : SessionOK(t, k)
    BY DEF IInv
  <2>2. ASSUME NEW s \in Sessions PROVE ~Commit(s)
    BY <2>1 DEF SessionOK, InStep, Commit
  <2> QED
    BY <2>2 DEF Next, Step, Start, SelectTop, SelectNone, LockTop, Insert, Retry, Conflict,
                Abort, vars
<1> QED
  BY <1>1, InductiveInvariant, PTL DEF Spec, SeriesEnds

=============================================================================
