--------------------------- MODULE SemaphoreProofs ---------------------------
(***************************************************************************)
(* Theorems about `Semaphore`, for any number of handles, any usize::MAX   *)
(* and any amounts, and that `SemaphoreLoop` implements it.                *)
(***************************************************************************)
EXTENDS Semaphore, Lemmas

-----------------------------------------------------------------------------
(***************************************************************************)
(* Sums of permits.                                                        *)
(***************************************************************************)
Requests == [Handles -> 0..MaxUsize]

(* The permits of a set of handles are finitely many.                      *)
LEMMA AmountType ==
    ASSUME NEW f \in Requests, NEW S \in SUBSET Handles
    PROVE  IsFiniteSet(Units(f, S)) /\ AmountOf(f, S) \in Nat
<1>1. IsFiniteSet(S)
  BY HandlesFinite, FS_Subset
<1>2. IsFiniteSet(1..MaxUsize)
  BY MaxUsizeIsNat, FS_Interval
<1>3. IsFiniteSet(S \X (1..MaxUsize))
  BY <1>1, <1>2, FS_Product
<1>4. Units(f, S) \in SUBSET (S \X (1..MaxUsize))
  BY DEF Units
<1>5. IsFiniteSet(Units(f, S))
  BY <1>3, <1>4, FS_Subset
<1> QED
  BY <1>5, FS_CardinalityType DEF AmountOf

LEMMA AmountEmpty ==
    ASSUME NEW f \in Requests
    PROVE  AmountOf(f, {}) = 0
<1>1. Units(f, {}) = {}
  BY DEF Units
<1> QED
  BY <1>1, FS_EmptySet DEF AmountOf

(* The permits of disjoint sets of handles add up.                         *)
LEMMA AmountUnion ==
    ASSUME NEW f \in Requests, NEW S \in SUBSET Handles,
           NEW T \in SUBSET Handles, S \cap T = {}
    PROVE  AmountOf(f, S \cup T) = AmountOf(f, S) + AmountOf(f, T)
<1>1. Units(f, S \cup T) = Units(f, S) \cup Units(f, T)
  BY DEF Units
<1>2. Units(f, S) \cap Units(f, T) = {}
  BY DEF Units
<1>3. IsFiniteSet(Units(f, S)) /\ IsFiniteSet(Units(f, T))
  BY AmountType
<1>4. Cardinality(Units(f, S) \cup Units(f, T))
        = Cardinality(Units(f, S)) + Cardinality(Units(f, T)) - Cardinality({})
  BY <1>2, <1>3, FS_Union
<1>5. AmountOf(f, S) \in Nat /\ AmountOf(f, T) \in Nat
  BY AmountType
<1>6. Cardinality({}) = 0
  BY FS_EmptySet
<1>7. AmountOf(f, S \cup T) = AmountOf(f, S) + AmountOf(f, T) - 0
  BY <1>1, <1>4, <1>6, Zenon DEF AmountOf
<1> QED
  BY <1>5, <1>7

(* One handle stands for what it asked for.                                *)
LEMMA AmountSingle ==
    ASSUME NEW f \in Requests, NEW h \in Handles
    PROVE  AmountOf(f, {h}) = f[h]
<1>1. f[h] \in Nat /\ f[h] <= MaxUsize
  BY MaxUsizeIsNat DEF Requests
<1>2. Units(f, {h}) = {h} \X (1..f[h])
  BY <1>1, MaxUsizeIsNat DEF Units
<1>3. IsFiniteSet({h}) /\ Cardinality({h}) = 1
  BY FS_Singleton
<1>4. IsFiniteSet(1..f[h]) /\ Cardinality(1..f[h]) = f[h]
  <2>1. /\ IsFiniteSet(1..f[h])
        /\ Cardinality(1..f[h]) = IF 1 > f[h] THEN 0 ELSE f[h] - 1 + 1
    <3>1. 1 \in Int /\ f[h] \in Int
      BY <1>1
    <3> QED
      BY <3>1, FS_Interval, Zenon
  <2> QED
    BY <1>1, <2>1
<1>5. Cardinality({h} \X (1..f[h])) = Cardinality({h}) * Cardinality(1..f[h])
  BY <1>3, <1>4, FS_Product, Zenon
<1>6. AmountOf(f, {h}) = 1 * f[h]
  BY <1>2, <1>3, <1>4, <1>5, Zenon DEF AmountOf
<1> QED
  BY <1>1, <1>6

LEMMA AmountAdd ==
    ASSUME NEW f \in Requests, NEW S \in SUBSET Handles,
           NEW h \in Handles, h \notin S
    PROVE  AmountOf(f, S \cup {h}) = AmountOf(f, S) + f[h]
<1>1. S \cap {h} = {} /\ {h} \in SUBSET Handles
  OBVIOUS
<1>2. AmountOf(f, S \cup {h}) = AmountOf(f, S) + AmountOf(f, {h})
  BY <1>1, AmountUnion
<1> QED
  BY <1>2, AmountSingle

LEMMA AmountRemove ==
    ASSUME NEW f \in Requests, NEW S \in SUBSET Handles, NEW h \in S
    PROVE  AmountOf(f, S) = AmountOf(f, S \ {h}) + f[h]
<1>1. S = (S \ {h}) \cup {h}
  OBVIOUS
<1> QED
  BY <1>1, AmountAdd

(* More handles, no fewer permits.                                         *)
LEMMA AmountMonotone ==
    ASSUME NEW f \in Requests, NEW T \in SUBSET Handles, NEW S \in SUBSET T
    PROVE  AmountOf(f, S) <= AmountOf(f, T)
<1>1. T = S \cup (T \ S)
  OBVIOUS
<1>2. AmountOf(f, T) = AmountOf(f, S) + AmountOf(f, T \ S)
  BY <1>1, AmountUnion
<1> QED
  BY <1>2, AmountType

(* The sum over S does not depend on what other handles stand for.         *)
LEMMA AmountAgree ==
    ASSUME NEW f, NEW g, NEW S,
           \A h \in S : f[h] = g[h]
    PROVE  AmountOf(f, S) = AmountOf(g, S)
<1>1. Units(f, S) = Units(g, S)
  BY DEF Units
<1> QED
  BY <1>1 DEF AmountOf

-----------------------------------------------------------------------------
(***************************************************************************)
(* Types.                                                                  *)
(***************************************************************************)

(* The prefix of the queue that a release passes is a set of handles.      *)
LEMMA FrontType ==
    ASSUME TypeOK, NEW k \in 0..Len(queue)
    PROVE  Front(k) \in SUBSET Handles
BY ElementOfSeq DEF TypeOK, Front

(* usize arithmetic stays within usize, wrapping or not.                   *)
LEMMA ArithmeticType ==
    ASSUME NEW a \in 0..MaxUsize, NEW b \in 0..MaxUsize
    PROVE  Plus(a, b) \in 0..MaxUsize /\ Minus(a, b) \in 0..MaxUsize
BY MaxUsizeIsNat DEF Plus, Minus

LEMMA ReleaseType ==
    ASSUME TypeOK, NEW n \in 0..MaxUsize, NEW fairness,
           NEW from \in [Handles -> Phases], NEW parking \in Seq(Handles),
           ReleasePermits(n, fairness, from, parking)
    PROVE  /\ permits' \in 0..MaxUsize
           /\ queue' \in Seq(Handles)
           /\ phase' \in [Handles -> Phases]
           /\ promoted' \in BOOLEAN
<1>1. PICK k \in 0..Len(queue) :
          /\ AmountOf(amount, Front(k)) <= Plus(permits, n)
          /\ permits' = IF fairness = "fair"
                          THEN Plus(permits, n) - AmountOf(amount, Front(k))
                          ELSE Plus(permits, n)
          /\ phase' = [h \in Handles |->
                          IF h \notin Front(k) THEN from[h]
                          ELSE IF fairness = "fair" THEN "granted" ELSE "woken"]
          /\ queue' = SubSeq(queue, k + 1, Len(queue)) \o parking
          /\ promoted' = FALSE
  BY DEF ReleasePermits
<1>2. Plus(permits, n) \in 0..MaxUsize
  BY ArithmeticType DEF TypeOK
<1>3. AmountOf(amount, Front(k)) \in Nat
  BY FrontType, AmountType DEF TypeOK, Requests
<1>4. permits' \in 0..MaxUsize
  BY <1>1, <1>2, <1>3, MaxUsizeIsNat
<1>5. SubSeq(queue, k + 1, Len(queue)) \in Seq(Handles)
  <2>1. Len(queue) \in Nat
    BY LenProperties DEF TypeOK
  <2>2. \A i \in (k + 1)..Len(queue) : queue[i] \in Handles
    BY <2>1, ElementOfSeq DEF TypeOK
  <2> QED
    BY <2>1, <2>2, SubSeqProperties
<1>6. queue' \in Seq(Handles)
  BY <1>1, <1>5, ConcatProperties
<1>7. phase' \in [Handles -> Phases]
  BY <1>1 DEF Phases
<1> QED
  BY <1>1, <1>4, <1>6, <1>7

(* A single handle changes phase.                                          *)
LEMMA BecomeType ==
    ASSUME TypeOK, NEW h \in Handles, NEW p \in Phases
    PROVE  Become(h, p) \in [Handles -> Phases]
BY DEF TypeOK, Become

LEMMA GiveBackType ==
    ASSUME TypeOK, NEW h \in Handles, NEW n \in 0..MaxUsize, NEW fairness,
           GiveBack(h, n, fairness)
    PROVE  TypeOK'
<1>1. Become(h, "idle") \in [Handles -> Phases] /\ << >> \in Seq(Handles)
  BY BecomeType, EmptySeq DEF Phases
<1>2. /\ permits' \in 0..MaxUsize
      /\ queue' \in Seq(Handles)
      /\ phase' \in [Handles -> Phases]
      /\ promoted' \in BOOLEAN
  BY <1>1, ReleaseType DEF GiveBack
<1>3. amount' \in [Handles -> 0..MaxUsize] /\ total' \in 0..MaxUsize
  BY MaxUsizeIsNat DEF GiveBack, TypeOK
<1> QED
  BY <1>2, <1>3 DEF TypeOK

(* Taking a waiter out of the middle of the queue leaves a queue.          *)
LEMMA RemoveType ==
    ASSUME TypeOK, NEW i \in 1..Len(queue)
    PROVE  /\ SubSeq(queue, 1, i - 1) \in Seq(Handles)
           /\ SubSeq(queue, i + 1, Len(queue)) \in Seq(Handles)
<1>1. Len(queue) \in Nat
  BY LenProperties DEF TypeOK
<1>2. \A j \in 1..Len(queue) : queue[j] \in Handles
  BY ElementOfSeq DEF TypeOK
<1> QED
  BY <1>1, <1>2, SubSeqProperties

LEMMA TypeOKStep == TypeOK /\ [Next]_vars => TypeOK'
<1> SUFFICES ASSUME TypeOK, [Next]_vars
             PROVE  TypeOK'
  OBVIOUS
<1> USE MaxUsizeIsNat
<1>1. ASSUME NEW h \in Handles, NEW n \in Amounts, TryAcquireUnfair(h, n)
      PROVE  TypeOK'
  <2>1. n \in 0..MaxUsize
    BY <1>1, AmountsAreUsize
  <2> QED
    BY <1>1, <2>1 DEF TypeOK, TryAcquireUnfair, Become, Phases
<1>2. ASSUME NEW h \in Handles, NEW n \in Amounts, Park(h, n)
      PROVE  TypeOK'
  <2>1. n \in 0..MaxUsize
    BY AmountsAreUsize
  <2>2. queue' \in Seq(Handles)
    BY <1>2, AppendProperties DEF TypeOK, Park
  <2> QED
    BY <1>2, <2>1, <2>2 DEF TypeOK, Park, Become, Phases
<1>3. ASSUME NEW h \in Handles, Call(h)
      PROVE  TypeOK'
  BY <1>1, <1>2, <1>3 DEF Call, TryAcquire, Acquire, AcquireUnfair
<1>4. ASSUME NEW h \in Handles, PollWokenTakes(h)
      PROVE  TypeOK'
  BY <1>4 DEF TypeOK, PollWokenTakes, Become, Phases
<1>5. ASSUME NEW h \in Handles, PollWokenLoses(h)
      PROVE  TypeOK'
  <2>1. Become(h, "parked") \in [Handles -> Phases] /\ <<h>> \in Seq(Handles)
    BY BecomeType DEF Phases
  <2>2. 0 \in 0..MaxUsize
    OBVIOUS
  <2>3. /\ permits' \in 0..MaxUsize
        /\ queue' \in Seq(Handles)
        /\ phase' \in [Handles -> Phases]
        /\ promoted' \in BOOLEAN
    BY <1>5, <2>1, <2>2, ReleaseType DEF PollWokenLoses
  <2> QED
    BY <1>5, <2>3 DEF PollWokenLoses, TypeOK
<1>6. ASSUME NEW h \in Handles, PollGranted(h)
      PROVE  TypeOK'
  BY <1>6 DEF TypeOK, PollGranted, Become, Phases
<1>7. ASSUME NEW h \in Handles,
             DropPermit(h) \/ ReleaseFair(h) \/ CancelWoken(h) \/ CancelGranted(h)
      PROVE  TypeOK'
  <2>1. amount[h] \in 0..MaxUsize /\ 0 \in 0..MaxUsize
    BY DEF TypeOK
  <2> QED
    BY <1>7, <2>1, GiveBackType
       DEF DropPermit, ReleaseFair, CancelWoken, CancelGranted
<1>8. ASSUME NEW h \in Handles, Leak(h)
      PROVE  TypeOK'
  <2>1. Minus(total, amount[h]) \in 0..MaxUsize
    BY ArithmeticType DEF TypeOK
  <2> QED
    BY <1>8, <2>1 DEF TypeOK, Leak, Become, Phases
<1>9. ASSUME NEW h \in Handles, CancelParked(h)
      PROVE  TypeOK'
  <2>1. PICK i \in 1..Len(queue) :
            queue' = SubSeq(queue, 1, i - 1) \o SubSeq(queue, i + 1, Len(queue))
    BY <1>9 DEF CancelParked
  <2>2. queue' \in Seq(Handles)
    BY <2>1, RemoveType, ConcatProperties
  <2>3. /\ phase' = Become(h, "idle")
        /\ amount' = [amount EXCEPT ![h] = 0]
        /\ promoted' \in BOOLEAN
        /\ permits' = permits /\ total' = total
    BY <1>9 DEF CancelParked
  <2> QED
    BY <2>2, <2>3 DEF TypeOK, Become, Phases
<1>10. ASSUME NEW n \in Amounts, NEW fairness, AddPermits(n, fairness)
       PROVE  TypeOK'
  <2>1. n \in 0..MaxUsize /\ << >> \in Seq(Handles) /\ phase \in [Handles -> Phases]
    BY AmountsAreUsize, EmptySeq DEF TypeOK
  <2>2. /\ permits' \in 0..MaxUsize
        /\ queue' \in Seq(Handles)
        /\ phase' \in [Handles -> Phases]
        /\ promoted' \in BOOLEAN
    BY <1>10, <2>1, ReleaseType DEF AddPermits
  <2>3. total' \in 0..MaxUsize /\ amount' = amount
    BY <1>10, <2>1 DEF AddPermits, TypeOK
  <2> QED
    BY <2>2, <2>3 DEF TypeOK
<1>11. CASE UNCHANGED vars
  BY <1>11 DEF TypeOK, vars
<1> QED
  BY <1>3, <1>4, <1>5, <1>6, <1>7, <1>8, <1>9, <1>10, <1>11 DEF Next, Poll, Drop

(* Type correctness of the semaphore, usize arithmetic included.           *)
THEOREM SemaphoreTypeOK == Spec => []TypeOK
<1>1. Init => TypeOK
  <2>1. << >> \in Seq(Handles) /\ 0 \in 0..MaxUsize
    BY EmptySeq, MaxUsizeIsNat
  <2> QED
    BY <2>1, InitPermitsIsUsize DEF Init, TypeOK, Phases
<1> QED
  BY <1>1, TypeOKStep, PTL DEF Spec

-----------------------------------------------------------------------------
(***************************************************************************)
(* The queue and the parked futures.                                       *)
(***************************************************************************)
Queued(h) == \E i \in 1..Len(queue) : queue[i] = h

(* The queue without its first k elements, and with others behind it.      *)
LEMMA SuffixEffect ==
    ASSUME TypeOK, NEW k \in 0..Len(queue), NEW parking \in Seq(Handles),
           queue' = SubSeq(queue, k + 1, Len(queue)) \o parking
    PROVE  /\ Len(queue') = (Len(queue) - k) + Len(parking)
           /\ \A i \in 1..((Len(queue) - k) + Len(parking)) :
                 queue'[i] = IF i <= Len(queue) - k
                               THEN queue[k + i]
                               ELSE parking[i - (Len(queue) - k)]
<1> DEFINE q == Len(queue)
           m == Len(parking)
           rest == SubSeq(queue, k + 1, q)
<1>1. q \in Nat /\ m \in Nat /\ k \in 0..q /\ \A i \in 1..q : queue[i] \in Handles
  BY LenProperties, ElementOfSeq DEF TypeOK
<1>2. /\ rest \in Seq(Handles)
      /\ Len(rest) = q - k
      /\ \A i \in 1..(q - k) : rest[i] = queue[k + i]
  <2>1. \A i \in (k + 1)..q : queue[i] \in Handles
    BY <1>1
  <2>2. /\ rest \in Seq(Handles)
        /\ Len(rest) = IF k + 1 <= q THEN q - (k + 1) + 1 ELSE 0
        /\ \A i \in 1..(q - (k + 1) + 1) : rest[i] = queue[(k + 1) + i - 1]
    BY <1>1, <2>1, SubSeqProperties
  <2> QED
    BY <1>1, <2>2
<1>3. /\ Len(queue') = (q - k) + m
      /\ \A i \in 1..((q - k) + m) :
            queue'[i] = IF i <= q - k THEN queue[k + i] ELSE parking[i - (q - k)]
  <2>1. /\ Len(rest \o parking) = Len(rest) + m
        /\ \A i \in 1..(Len(rest) + m) : (rest \o parking)[i] =
              IF i <= Len(rest) THEN rest[i] ELSE parking[i - Len(rest)]
    BY <1>2, ConcatProperties
  <2>2. queue' = rest \o parking /\ Len(rest) = q - k
    BY <1>2
  <2>3. /\ Len(queue') = (q - k) + m
        /\ \A i \in 1..((q - k) + m) : queue'[i] =
              IF i <= q - k THEN rest[i] ELSE parking[i - (q - k)]
    BY <2>1, <2>2, Zenon
  <2> HIDE DEF rest
  <2> QED
    BY <1>1, <1>2, <2>3
<1> QED
  BY <1>3

(* A release takes a prefix of the queue off and unparks just these.       *)
LEMMA ReleaseQueue ==
    ASSUME TypeOK, QueueIsParked,
           NEW n, NEW fairness, NEW from \in [Handles -> Phases],
           NEW parking \in Seq(Handles),
           \A i, j \in 1..Len(parking) : parking[i] = parking[j] => i = j,
           \A j \in 1..Len(parking) : ~Queued(parking[j]),
           \A h \in Handles : from[h] = "parked" <=>
               (Queued(h) \/ \E j \in 1..Len(parking) : parking[j] = h),
           ReleasePermits(n, fairness, from, parking)
    PROVE  QueueIsParked'
<1>1. PICK k \in 0..Len(queue) :
          /\ phase' = [h \in Handles |->
                          IF h \notin Front(k) THEN from[h]
                          ELSE IF fairness = "fair" THEN "granted" ELSE "woken"]
          /\ queue' = SubSeq(queue, k + 1, Len(queue)) \o parking
  BY DEF ReleasePermits
<1> DEFINE q == Len(queue)
           m == Len(parking)
<1>2. q \in Nat /\ m \in Nat /\ k \in 0..q /\ \A i \in 1..q : queue[i] \in Handles
  BY LenProperties, ElementOfSeq DEF TypeOK
<1>3. /\ Len(queue') = (q - k) + m
      /\ \A i \in 1..((q - k) + m) :
            queue'[i] = IF i <= q - k THEN queue[k + i] ELSE parking[i - (q - k)]
  BY <1>1, SuffixEffect
<1> HIDE DEF q, m
<1>5. \A i, j \in 1..q : queue[i] = queue[j] => i = j
  BY DEF QueueIsParked, q
<1>6. \A h \in Handles : h \in Front(k) <=> \E i \in 1..k : queue[i] = h
  BY DEF Front
<1>7. \A i, j \in 1..Len(queue') : queue'[i] = queue'[j] => i = j
  <2> SUFFICES ASSUME NEW i \in 1..((q - k) + m), NEW j \in 1..((q - k) + m),
                      queue'[i] = queue'[j], i <= j
               PROVE  i = j
    BY <1>2, <1>3
  <2>1. CASE j <= q - k
    BY <2>1, <1>2, <1>3, <1>5
  <2>2. CASE i > q - k
    <3>1. /\ i - (q - k) \in 1..m /\ j - (q - k) \in 1..m
          /\ parking[i - (q - k)] = parking[j - (q - k)]
      BY <2>2, <1>2, <1>3
    <3>2. i - (q - k) = j - (q - k)
      BY <3>1 DEF m
    <3> QED
      BY <3>2, <1>2
  <2>3. CASE i <= q - k /\ j > q - k
    <3>1. /\ k + i \in 1..q /\ j - (q - k) \in 1..m
          /\ queue[k + i] = parking[j - (q - k)]
      BY <2>3, <1>2, <1>3
    <3> QED
      BY <3>1 DEF Queued, q, m
  <2> QED
    BY <2>1, <2>2, <2>3, <1>2
<1>8. ASSUME NEW h \in Handles
      PROVE  phase'[h] = "parked" <=> \E i \in 1..Len(queue') : queue'[i] = h
  <2>1. phase'[h] = "parked" <=> h \notin Front(k) /\ from[h] = "parked"
    BY <1>1
  <2>2. from[h] = "parked" <=>
          (\E i \in 1..q : queue[i] = h) \/ (\E j \in 1..m : parking[j] = h)
    BY DEF Queued, q, m
  <2>3. ASSUME NEW i \in 1..Len(queue'), queue'[i] = h
        PROVE  h \notin Front(k) /\ from[h] = "parked"
    <3>1. CASE i <= q - k
      <4>1. k + i \in 1..q /\ queue[k + i] = h
        BY <3>1, <2>3, <1>2, <1>3
      <4>2. \A l \in 1..k : queue[l] # h
        BY <4>1, <1>2, <1>5
      <4> QED
        BY <4>1, <4>2, <1>6, <2>2
    <3>2. CASE i > q - k
      <4>1. i - (q - k) \in 1..m /\ parking[i - (q - k)] = h
        BY <3>2, <2>3, <1>2, <1>3
      <4>2. \A l \in 1..q : queue[l] # h
        BY <4>1 DEF Queued, q, m
      <4> QED
        BY <4>1, <4>2, <1>2, <1>6, <2>2
    <3> QED
      BY <3>1, <3>2, <1>2, <1>3
  <2>4. ASSUME h \notin Front(k), from[h] = "parked"
        PROVE  \E i \in 1..Len(queue') : queue'[i] = h
    <3>1. CASE \E i \in 1..q : queue[i] = h
      <4>1. PICK i \in 1..q : queue[i] = h
        BY <3>1
      <4>2. i > k
        BY <4>1, <2>4, <1>2, <1>6
      <4>3. i - k \in 1..((q - k) + m) /\ queue'[i - k] = h
        BY <4>1, <4>2, <1>2, <1>3
      <4> QED
        BY <4>3, <1>3
    <3>2. CASE \E j \in 1..m : parking[j] = h
      <4>1. PICK j \in 1..m : parking[j] = h
        BY <3>2
      <4>2. j + (q - k) \in 1..((q - k) + m) /\ queue'[j + (q - k)] = h
        BY <4>1, <1>2, <1>3
      <4> QED
        BY <4>2, <1>3
    <3> QED
      BY <2>2, <2>4, <3>1, <3>2
  <2> QED
    BY <2>1, <2>3, <2>4
<1> QED
  BY <1>7, <1>8 DEF QueueIsParked

(* A handle that is not queued changes phase, to and from anything but     *)
(* "parked": the queue need not notice.                                    *)
LEMMA QueueUnmoved ==
    ASSUME TypeOK, QueueIsParked, NEW h \in Handles, phase[h] # "parked",
           NEW p \in Phases \ {"parked"}, phase' = Become(h, p), queue' = queue
    PROVE  QueueIsParked'
BY DEF TypeOK, QueueIsParked, Become

(* Such a change, followed by a release that parks no one.                 *)
LEMMA QueueAfterRelease ==
    ASSUME TypeOK, QueueIsParked, NEW h \in Handles, phase[h] # "parked",
           NEW n, NEW fairness,
           ReleasePermits(n, fairness, Become(h, "idle"), << >>)
    PROVE  QueueIsParked'
<1>1. /\ Become(h, "idle") \in [Handles -> Phases]
      /\ << >> \in Seq(Handles) /\ Len(<< >>) = 0
  BY BecomeType, EmptySeq DEF Phases
<1>2. \A g \in Handles : Become(h, "idle")[g] = "parked" <=> Queued(g)
  BY DEF TypeOK, QueueIsParked, Become, Queued
<1>3. 1..Len(<< >>) = {}
  BY <1>1
<1> DEFINE e == << >>
<1> HIDE DEF e
<1>4. /\ e \in Seq(Handles) /\ 1..Len(e) = {}
      /\ ReleasePermits(n, fairness, Become(h, "idle"), e)
  BY <1>1, <1>3 DEF e
<1> QED
  BY <1>1, <1>2, <1>4, ReleaseQueue

(* Element i leaves the queue: those behind it move up by one.             *)
LEMMA RemoveEffect ==
    ASSUME TypeOK, NEW i \in 1..Len(queue),
           queue' = SubSeq(queue, 1, i - 1) \o SubSeq(queue, i + 1, Len(queue))
    PROVE  /\ Len(queue') = Len(queue) - 1
           /\ \A j \in 1..(Len(queue) - 1) :
                 queue'[j] = IF j < i THEN queue[j] ELSE queue[j + 1]
BY WithoutElements DEF TypeOK, Without

LEMMA QueueStep == TypeOK /\ QueueIsParked /\ [Next]_vars => QueueIsParked'
<1> SUFFICES ASSUME TypeOK, QueueIsParked, [Next]_vars
             PROVE  QueueIsParked'
  OBVIOUS
<1>a. Len(queue) \in Nat /\ \A i \in 1..Len(queue) : queue[i] \in Handles
  BY LenProperties, ElementOfSeq DEF TypeOK
<1>1. ASSUME NEW h \in Handles, NEW n \in Amounts, TryAcquireUnfair(h, n)
      PROVE  QueueIsParked'
  BY <1>1, QueueUnmoved DEF TryAcquireUnfair, Phases
<1>2. ASSUME NEW h \in Handles, NEW n \in Amounts, Park(h, n)
      PROVE  QueueIsParked'
  <2>1. /\ Len(queue') = Len(queue) + 1
        /\ \A i \in 1..Len(queue) : queue'[i] = queue[i]
        /\ queue'[Len(queue) + 1] = h
    BY <1>2, AppendProperties DEF TypeOK, Park
  <2>2. \A i \in 1..Len(queue) : queue[i] # h
    BY <1>2 DEF QueueIsParked, Park
  <2>3. \A i, j \in 1..Len(queue') : queue'[i] = queue'[j] => i = j
    BY <1>a, <2>1, <2>2 DEF QueueIsParked
  <2>4. \A g \in Handles : phase'[g] = "parked" <=> (g = h \/ phase[g] = "parked")
    BY <1>2 DEF Park, Become, TypeOK
  <2>5. \A g \in Handles : phase'[g] = "parked" <=>
            \E i \in 1..Len(queue') : queue'[i] = g
    <3> SUFFICES ASSUME NEW g \in Handles
                 PROVE  phase'[g] = "parked" <=>
                            \E i \in 1..Len(queue') : queue'[i] = g
      OBVIOUS
    <3>1. CASE g = h
      BY <3>1, <1>a, <2>1, <2>4
    <3>2. CASE g # h
      BY <3>2, <1>a, <2>1, <2>4 DEF QueueIsParked
    <3> QED
      BY <3>1, <3>2
  <2> QED
    BY <2>3, <2>5 DEF QueueIsParked
<1>3. ASSUME NEW h \in Handles, Call(h)
      PROVE  QueueIsParked'
  BY <1>1, <1>2, <1>3 DEF Call, TryAcquire, Acquire, AcquireUnfair
<1>4. ASSUME NEW h \in Handles, PollWokenTakes(h) \/ PollGranted(h) \/ Leak(h)
      PROVE  QueueIsParked'
  BY <1>4, QueueUnmoved DEF PollWokenTakes, PollGranted, Leak, Phases
<1>5. ASSUME NEW h \in Handles, PollWokenLoses(h)
      PROVE  QueueIsParked'
  <2> DEFINE one == <<h>>
  <2>1. one \in Seq(Handles) /\ Len(one) = 1 /\ one[1] = h
    OBVIOUS
  <2> HIDE DEF one
  <2>2. Become(h, "parked") \in [Handles -> Phases]
    BY BecomeType DEF Phases
  <2>3. ~Queued(h)
    BY <1>5 DEF PollWokenLoses, QueueIsParked, Queued
  <2>4. /\ \A i, j \in 1..Len(one) : one[i] = one[j] => i = j
        /\ \A j \in 1..Len(one) : ~Queued(one[j])
    BY <2>1, <2>3
  <2>5. \A g \in Handles : Become(h, "parked")[g] = "parked" <=>
            (Queued(g) \/ \E j \in 1..Len(one) : one[j] = g)
    BY <2>1 DEF TypeOK, QueueIsParked, Become, Queued
  <2>6. ReleasePermits(0, "unfair", Become(h, "parked"), one)
    BY <1>5 DEF PollWokenLoses, one
  <2> QED
    BY <2>1, <2>2, <2>4, <2>5, <2>6, ReleaseQueue
<1>6. ASSUME NEW h \in Handles,
             DropPermit(h) \/ ReleaseFair(h) \/ CancelWoken(h) \/ CancelGranted(h)
      PROVE  QueueIsParked'
  BY <1>6, QueueAfterRelease
     DEF DropPermit, ReleaseFair, CancelWoken, CancelGranted, GiveBack
<1>7. ASSUME NEW h \in Handles, CancelParked(h)
      PROVE  QueueIsParked'
  <2>1. PICK i \in 1..Len(queue) :
            /\ queue[i] = h
            /\ queue' = SubSeq(queue, 1, i - 1) \o SubSeq(queue, i + 1, Len(queue))
            /\ phase' = Become(h, "idle")
    BY <1>7 DEF CancelParked
  <2>2. /\ Len(queue') = Len(queue) - 1
        /\ \A j \in 1..(Len(queue) - 1) :
              queue'[j] = IF j < i THEN queue[j] ELSE queue[j + 1]
    BY <2>1, RemoveEffect
  <2>3. \A j, l \in 1..Len(queue') : queue'[j] = queue'[l] => j = l
    BY <1>a, <2>2 DEF QueueIsParked
  <2>4. ASSUME NEW g \in Handles
        PROVE  (\E j \in 1..Len(queue') : queue'[j] = g) <=> (Queued(g) /\ g # h)
    <3>1. ASSUME NEW j \in 1..Len(queue'), queue'[j] = g
          PROVE  Queued(g) /\ g # h
      <4>1. j \in 1..(Len(queue) - 1)
        BY <2>2
      <4>2. CASE j < i
        <5>1. j \in 1..Len(queue) /\ j # i /\ queue[j] = g
          BY <4>1, <4>2, <3>1, <1>a, <2>2
        <5> QED
          BY <5>1, <2>1 DEF QueueIsParked, Queued
      <4>3. CASE j >= i
        <5>1. j + 1 \in 1..Len(queue) /\ j + 1 # i /\ queue[j + 1] = g
          BY <4>1, <4>3, <3>1, <1>a, <2>2
        <5> QED
          BY <5>1, <2>1 DEF QueueIsParked, Queued
      <4> QED
        BY <4>1, <4>2, <4>3, <1>a
    <3>2. ASSUME NEW l \in 1..Len(queue), queue[l] = g, g # h
          PROVE  \E j \in 1..Len(queue') : queue'[j] = g
      <4>1. CASE l < i
        <5>1. l \in 1..Len(queue') /\ queue'[l] = g
          BY <4>1, <3>2, <1>a, <2>2
        <5> QED
          BY <5>1
      <4>2. CASE l > i
        <5>1. /\ l - 1 \in 1..(Len(queue) - 1) /\ ~(l - 1 < i)
              /\ (l - 1) + 1 = l
          BY <4>2, <1>a
        <5>2. queue'[l - 1] = queue[(l - 1) + 1]
          BY <5>1, <2>2
        <5>3. queue'[l - 1] = g /\ l - 1 \in 1..Len(queue')
          BY <5>1, <5>2, <2>2, <3>2, Zenon
        <5> QED
          BY <5>3, Zenon
      <4>3. l # i
        BY <3>2, <2>1
      <4>4. l < i \/ l > i
        BY <4>3, <1>a
      <4> QED
        BY <4>1, <4>2, <4>4
    <3> QED
      BY <3>1, <3>2 DEF Queued
  <2>5. \A g \in Handles : phase'[g] = "parked" <=> (Queued(g) /\ g # h)
    BY <2>1 DEF QueueIsParked, Queued, Become, TypeOK
  <2> QED
    BY <2>3, <2>4, <2>5 DEF QueueIsParked
<1>8. ASSUME NEW n \in Amounts, NEW fairness, AddPermits(n, fairness)
      PROVE  QueueIsParked'
  <2> DEFINE e == << >>
  <2>1. e \in Seq(Handles) /\ 1..Len(e) = {}
    BY EmptySeq
  <2>2. ReleasePermits(n, fairness, phase, e)
    BY <1>8 DEF AddPermits
  <2> HIDE DEF e
  <2>3. phase \in [Handles -> Phases] /\ \A g \in Handles : phase[g] = "parked" <=> Queued(g)
    BY DEF TypeOK, QueueIsParked, Queued
  <2> QED
    BY <2>1, <2>2, <2>3, ReleaseQueue
<1>9. CASE UNCHANGED vars
  BY <1>9 DEF QueueIsParked, vars
<1> QED
  BY <1>3, <1>4, <1>5, <1>6, <1>7, <1>8, <1>9 DEF Next, Poll, Drop

(* Exactly the parked futures are queued, each once.                       *)
THEOREM SemaphoreQueue == Spec => []QueueIsParked
<1>1. Init => QueueIsParked
  <2>1. Len(<< >>) = 0 /\ 1..0 = {}
    OBVIOUS
  <2> QED
    BY <2>1 DEF Init, QueueIsParked
<1> QED
  BY <1>1, QueueStep, SemaphoreTypeOK, PTL DEF Spec

-----------------------------------------------------------------------------
(***************************************************************************)
(* Conservation.                                                           *)
(***************************************************************************)
HoldersIn(f) == {h \in Handles : f[h] \in {"permit", "granted"}}

(* A release turns what it deducts from the permits into grants.           *)
LEMMA ReleaseConserves ==
    ASSUME TypeOK, NEW n \in 0..MaxUsize, permits + n <= MaxUsize,
           NEW fairness, NEW from \in [Handles -> Phases], NEW parking,
           \A i \in 1..Len(queue) : from[queue[i]] = "parked",
           ReleasePermits(n, fairness, from, parking)
    PROVE  /\ \A h \in Handles : phase'[h] \in {from[h], "woken", "granted"}
           /\ \A h \in Handles : ~Queued(h) => phase'[h] = from[h]
           /\ permits' + AmountOf(amount, Holders')
                = (permits + n) + AmountOf(amount, HoldersIn(from))
<1>1. PICK k \in 0..Len(queue) :
          /\ AmountOf(amount, Front(k)) <= Plus(permits, n)
          /\ permits' = IF fairness = "fair"
                          THEN Plus(permits, n) - AmountOf(amount, Front(k))
                          ELSE Plus(permits, n)
          /\ phase' = [h \in Handles |->
                          IF h \notin Front(k) THEN from[h]
                          ELSE IF fairness = "fair" THEN "granted" ELSE "woken"]
  BY DEF ReleasePermits
<1>2. Plus(permits, n) = permits + n
  BY DEF Plus
<1>3. /\ Front(k) \in SUBSET Handles
      /\ HoldersIn(from) \in SUBSET Handles
      /\ amount \in Requests
  BY FrontType DEF HoldersIn, TypeOK, Requests
<1>4. \A h \in Front(k) : from[h] = "parked" /\ Queued(h)
  <2>1. Len(queue) \in Nat
    BY LenProperties DEF TypeOK
  <2> QED
    BY <2>1 DEF Front, Queued
<1>5. /\ AmountOf(amount, Front(k)) \in Nat
      /\ AmountOf(amount, HoldersIn(from)) \in Nat
  BY <1>3, AmountType
<1>6. permits \in Nat /\ n \in Nat
  BY MaxUsizeIsNat DEF TypeOK
<1>7. permits' + AmountOf(amount, Holders')
        = (permits + n) + AmountOf(amount, HoldersIn(from))
  <2>1. CASE fairness = "fair"
    <3>1. Holders' = HoldersIn(from) \cup Front(k)
      BY <1>1, <1>3, <2>1 DEF Holders, HoldersIn
    <3>2. HoldersIn(from) \cap Front(k) = {}
      BY <1>4 DEF HoldersIn
    <3>3. AmountOf(amount, Holders')
            = AmountOf(amount, HoldersIn(from)) + AmountOf(amount, Front(k))
      BY <1>3, <3>1, <3>2, AmountUnion
    <3>4. permits' = (permits + n) - AmountOf(amount, Front(k))
      BY <1>1, <1>2, <2>1
    <3> QED
      BY <1>5, <1>6, <3>3, <3>4
  <2>2. CASE fairness # "fair"
    <3>1. Holders' = HoldersIn(from)
      BY <1>1, <1>3, <1>4, <2>2 DEF Holders, HoldersIn
    <3> QED
      BY <1>1, <1>2, <2>2, <3>1
  <2> QED
    BY <2>1, <2>2
<1> QED
  BY <1>1, <1>4, <1>7

(* What is held or granted is part of the total, and so is any one of it.  *)
LEMMA HoldersBound ==
    ASSUME TypeOK, Conservation, NEW h \in Holders
    PROVE  /\ AmountOf(amount, Holders) = AmountOf(amount, Holders \ {h}) + amount[h]
           /\ permits + amount[h] <= total
<1>1. Holders \in SUBSET Handles /\ amount \in Requests
  BY DEF Holders, TypeOK, Requests
<1>2. AmountOf(amount, Holders) = AmountOf(amount, Holders \ {h}) + amount[h]
  BY <1>1, AmountRemove
<1>3. AmountOf(amount, Holders \ {h}) \in Nat
  BY <1>1, AmountType
<1>4. permits \in Nat /\ amount[h] \in Nat /\ total \in Nat
  BY <1>1, MaxUsizeIsNat DEF TypeOK, Requests
<1> QED
  BY <1>2, <1>3, <1>4 DEF Conservation

(* The phases a release starts from are those of the queue: parked.        *)
LEMMA FromParked ==
    ASSUME TypeOK, QueueIsParked, NEW h \in Handles, phase[h] # "parked",
           NEW p \in Phases
    PROVE  /\ ~Queued(h)
           /\ Become(h, p) \in [Handles -> Phases]
           /\ \A i \in 1..Len(queue) : Become(h, p)[queue[i]] = "parked"
<1>1. ~Queued(h)
  BY DEF QueueIsParked, Queued
<1>2. \A i \in 1..Len(queue) : queue[i] \in Handles /\ queue[i] # h
  BY <1>1, ElementOfSeq DEF TypeOK, Queued
<1> QED
  BY <1>1, <1>2, BecomeType DEF Become, TypeOK, QueueIsParked

(* Giving back what the handle held, or nothing if it held nothing.        *)
LEMMA GiveBackConserves ==
    ASSUME TypeOK, TypeOK', QueueIsParked, Conservation,
           NEW h \in Handles, phase[h] # "parked", NEW fairness,
           GiveBack(h, IF h \in Holders THEN amount[h] ELSE 0, fairness)
    PROVE  Conservation'
<1> DEFINE n == IF h \in Holders THEN amount[h] ELSE 0
<1>1. n \in 0..MaxUsize /\ permits \in Nat /\ total \in Nat /\ total <= MaxUsize
  BY MaxUsizeIsNat DEF TypeOK
<1>2. permits + n <= MaxUsize
        /\ n + AmountOf(amount, Holders \ {h}) = AmountOf(amount, Holders)
  <2>0. AmountOf(amount, Holders) \in Nat /\ AmountOf(amount, Holders \ {h}) \in Nat
    BY AmountType DEF Holders, TypeOK, Requests
  <2>1. CASE h \in Holders
    <3>1. n = amount[h] /\ amount[h] \in Nat
      BY <2>1, <1>1
    <3>2. /\ AmountOf(amount, Holders) = AmountOf(amount, Holders \ {h}) + amount[h]
          /\ permits + amount[h] <= total
      BY <2>1, HoldersBound
    <3> HIDE DEF n
    <3> QED
      BY <2>0, <3>1, <3>2, <1>1, MaxUsizeIsNat
  <2>2. CASE h \notin Holders
    <3>1. AmountOf(amount, Holders \ {h}) = AmountOf(amount, Holders) /\ n = 0
      <4>1. Holders \ {h} = Holders
        BY <2>2
      <4> QED
        BY <2>2, <4>1
    <3>2. permits <= MaxUsize
      BY DEF TypeOK
    <3> HIDE DEF n
    <3> QED
      BY <2>0, <3>1, <3>2, <1>1, MaxUsizeIsNat
  <2> QED
    BY <2>1, <2>2
<1>3. HoldersIn(Become(h, "idle")) = Holders \ {h}
  BY DEF HoldersIn, Holders, Become, TypeOK
<1>4. /\ phase'[h] = "idle"
      /\ permits' + AmountOf(amount, Holders')
           = (permits + n) + AmountOf(amount, Holders \ {h})
  <2>1. ReleasePermits(n, fairness, Become(h, "idle"), << >>)
    BY DEF GiveBack
  <2>2. /\ ~Queued(h)
        /\ Become(h, "idle") \in [Handles -> Phases]
        /\ \A i \in 1..Len(queue) : Become(h, "idle")[queue[i]] = "parked"
    BY FromParked DEF Phases
  <2>3. Become(h, "idle")[h] = "idle"
    BY DEF Become, TypeOK
  <2> HIDE DEF n
  <2> DEFINE from == Become(h, "idle")
  <2>4. from \in [Handles -> Phases] /\ \A i \in 1..Len(queue) : from[queue[i]] = "parked"
    BY <2>2
  <2>5. n \in 0..MaxUsize /\ permits + n <= MaxUsize /\ HoldersIn(from) = Holders \ {h}
    BY <1>1, <1>2, <1>3
  <2>6. ReleasePermits(n, fairness, from, << >>)
    BY <2>1
  <2> HIDE DEF from
  <2>7. /\ \A g \in Handles : ~Queued(g) => phase'[g] = from[g]
        /\ permits' + AmountOf(amount, Holders')
             = (permits + n) + AmountOf(amount, HoldersIn(from))
    <3>1. n \in 0..MaxUsize /\ permits + n <= MaxUsize
      BY <2>5
    <3>2. from \in [Handles -> Phases]
      BY <2>4
    <3>3. \A i \in 1..Len(queue) : from[queue[i]] = "parked"
      BY <2>4
    <3> QED
      BY <2>6, <3>1, <3>2, <3>3, ReleaseConserves
  <2>8. from[h] = "idle"
    BY <2>3 DEF from
  <2> QED
    BY <2>2, <2>5, <2>7, <2>8
<1>5. amount' = [amount EXCEPT ![h] = 0] /\ total' = total
  BY DEF GiveBack
<1>6. \A g \in Holders' : amount'[g] = amount[g]
  BY <1>4, <1>5 DEF Holders, TypeOK
<1>7. AmountOf(amount', Holders') = AmountOf(amount, Holders')
  BY <1>6, AmountAgree
<1> HIDE DEF n
<1>8. /\ AmountOf(amount, Holders') \in Nat
      /\ AmountOf(amount, Holders \ {h}) \in Nat
  <2>1. amount \in Requests /\ Holders' \in SUBSET Handles
    BY DEF TypeOK, Requests, Holders
  <2>2. Holders \ {h} \in SUBSET Handles
    BY DEF Holders
  <2> QED
    BY <2>1, <2>2, AmountType
<1>9. permits' + AmountOf(amount', Holders') = permits + AmountOf(amount, Holders)
  BY <1>1, <1>2, <1>4, <1>7, <1>8
<1> QED
  BY <1>5, <1>9 DEF Conservation

LEMMA ConservationStep ==
    TypeOK /\ QueueIsParked /\ Conservation /\ [Next]_vars => Conservation'
<1> SUFFICES ASSUME TypeOK, QueueIsParked, Conservation, [Next]_vars
             PROVE  Conservation'
  OBVIOUS
<1>a. TypeOK'
  BY TypeOKStep
<1>b. /\ Holders \in SUBSET Handles /\ Holders' \in SUBSET Handles
      /\ amount \in Requests /\ amount' \in Requests
  BY <1>a DEF Holders, TypeOK, Requests
<1>c. /\ permits \in Nat /\ total \in Nat /\ total <= MaxUsize
      /\ permits <= MaxUsize /\ MaxUsize \in Nat
  BY MaxUsizeIsNat DEF TypeOK
<1>d. AmountOf(amount, Holders) \in Nat /\ permits <= total
  BY <1>b, <1>c, AmountType DEF Conservation
<1>1. ASSUME NEW h \in Handles, NEW n \in Amounts, TryAcquireUnfair(h, n)
      PROVE  Conservation'
  <2>1. h \notin Holders /\ Holders' = Holders \cup {h}
    BY <1>1 DEF TryAcquireUnfair, Become, Holders, TypeOK
  <2>2. amount'[h] = n /\ \A g \in Holders : amount'[g] = amount[g]
    BY <1>1, <1>b, <2>1 DEF TryAcquireUnfair, Requests
  <2>3. AmountOf(amount', Holders') = AmountOf(amount', Holders) + n
    BY <1>b, <2>1, <2>2, AmountAdd
  <2>4. AmountOf(amount', Holders) = AmountOf(amount, Holders)
    BY <2>2, AmountAgree
  <2>5. /\ n \in Nat /\ n <= permits /\ permits' = permits - n /\ total' = total
    BY <1>1, AmountsAreUsize, MaxUsizeIsNat DEF TryAcquireUnfair
  <2> QED
    BY <1>c, <1>d, <2>3, <2>4, <2>5 DEF Conservation
<1>2. ASSUME NEW h \in Handles, Holders' = Holders,
             \A g \in Holders : amount'[g] = amount[g],
             permits' = permits, total' = total
      PROVE  Conservation'
  <2>1. AmountOf(amount', Holders) = AmountOf(amount, Holders)
    BY <1>2, AmountAgree
  <2> QED
    BY <1>2, <2>1 DEF Conservation
<1>3. ASSUME NEW h \in Handles, NEW n \in Amounts, Park(h, n)
      PROVE  Conservation'
  <2>1. h \notin Holders /\ Holders' = Holders
    BY <1>3 DEF Park, Become, Holders, TypeOK
  <2> QED
    BY <1>2, <1>3, <1>b, <2>1 DEF Park, Requests
<1>4. ASSUME NEW h \in Handles, Call(h)
      PROVE  Conservation'
  BY <1>1, <1>3, <1>4 DEF Call, TryAcquire, Acquire, AcquireUnfair
<1>5. ASSUME NEW h \in Handles, PollWokenTakes(h)
      PROVE  Conservation'
  <2>1. h \notin Holders /\ Holders' = Holders \cup {h}
    BY <1>5 DEF PollWokenTakes, Become, Holders, TypeOK
  <2>2. AmountOf(amount, Holders') = AmountOf(amount, Holders) + amount[h]
    BY <1>b, <2>1, AmountAdd
  <2>3. /\ amount[h] \in Nat /\ permits' = permits - amount[h]
        /\ amount' = amount /\ total' = total
    BY <1>5, MaxUsizeIsNat DEF PollWokenTakes, TypeOK
  <2>4. AmountOf(amount', Holders') = AmountOf(amount, Holders) + amount[h]
    BY <2>2, <2>3
  <2> QED
    BY <1>c, <1>d, <2>3, <2>4 DEF Conservation
<1>6. ASSUME NEW h \in Handles, PollWokenLoses(h)
      PROVE  Conservation'
  <2> DEFINE from == Become(h, "parked")
  <2>1. /\ from \in [Handles -> Phases]
        /\ \A i \in 1..Len(queue) : from[queue[i]] = "parked"
    BY <1>6, FromParked DEF PollWokenLoses, Phases
  <2>2. HoldersIn(from) = Holders
    BY <1>6 DEF HoldersIn, Holders, Become, TypeOK, PollWokenLoses
  <2>3. ReleasePermits(0, "unfair", from, <<h>>) /\ amount' = amount /\ total' = total
    BY <1>6 DEF PollWokenLoses
  <2> HIDE DEF from
  <2>4. 0 \in 0..MaxUsize /\ permits + 0 <= MaxUsize
    BY <1>c
  <2>5. permits' + AmountOf(amount, Holders') = (permits + 0) + AmountOf(amount, HoldersIn(from))
    BY <2>1, <2>3, <2>4, ReleaseConserves
  <2>6. permits + 0 = permits
    BY <1>c
  <2>7. permits' + AmountOf(amount', Holders') = permits + AmountOf(amount, Holders)
    BY <2>2, <2>3, <2>5, <2>6
  <2> QED
    BY <2>3, <2>7 DEF Conservation
<1>7. ASSUME NEW h \in Handles, PollGranted(h)
      PROVE  Conservation'
  <2>1. Holders' = Holders
    BY <1>7 DEF PollGranted, Become, Holders, TypeOK
  <2> QED
    BY <1>2, <1>7, <2>1 DEF PollGranted
<1>8. ASSUME NEW h \in Handles,
             DropPermit(h) \/ ReleaseFair(h) \/ CancelGranted(h)
      PROVE  Conservation'
  <2>1. h \in Holders /\ phase[h] # "parked"
    BY <1>8 DEF DropPermit, ReleaseFair, CancelGranted, Holders
  <2>2. PICK fairness \in {"fair", "unfair"} : GiveBack(h, amount[h], fairness)
    BY <1>8 DEF DropPermit, ReleaseFair, CancelGranted
  <2>3. amount[h] = IF h \in Holders THEN amount[h] ELSE 0
    BY <2>1
  <2>4. GiveBack(h, IF h \in Holders THEN amount[h] ELSE 0, fairness)
    BY <2>2, <2>3
  <2> QED
    BY <1>a, <2>1, <2>4, GiveBackConserves
<1>9. ASSUME NEW h \in Handles, CancelWoken(h)
      PROVE  Conservation'
  <2>1. h \notin Holders /\ phase[h] # "parked" /\ GiveBack(h, 0, "unfair")
    BY <1>9 DEF CancelWoken, Holders
  <2>2. 0 = IF h \in Holders THEN amount[h] ELSE 0
    BY <2>1
  <2>3. GiveBack(h, IF h \in Holders THEN amount[h] ELSE 0, "unfair")
    BY <2>1, <2>2
  <2> QED
    BY <1>a, <2>1, <2>3, GiveBackConserves
<1>10. ASSUME NEW h \in Handles, Leak(h)
       PROVE  Conservation'
  <2>1. h \in Holders /\ Holders' = Holders \ {h}
    BY <1>10 DEF Leak, Become, Holders, TypeOK
  <2>2. /\ AmountOf(amount, Holders) = AmountOf(amount, Holders \ {h}) + amount[h]
        /\ permits + amount[h] <= total
    BY <2>1, HoldersBound
  <2>3. \A g \in Holders \ {h} : amount'[g] = amount[g]
    BY <1>10, <1>b DEF Leak, Requests
  <2>4. AmountOf(amount', Holders') = AmountOf(amount, Holders \ {h})
    BY <2>1, <2>3, AmountAgree
  <2>5. amount[h] \in Nat /\ AmountOf(amount, Holders \ {h}) \in Nat
    BY <1>b, <1>c, AmountType DEF Requests
  <2>6. permits' = permits /\ total' = total - amount[h]
    BY <1>10, <1>c, <2>2, <2>5 DEF Leak, Minus
  <2> QED
    BY <1>c, <1>d, <2>2, <2>4, <2>5, <2>6 DEF Conservation
<1>11. ASSUME NEW h \in Handles, CancelParked(h)
       PROVE  Conservation'
  <2>1. phase[h] = "parked"
    BY <1>11 DEF CancelParked, QueueIsParked
  <2>2. h \notin Holders /\ Holders' = Holders
    BY <1>11, <2>1 DEF CancelParked, Become, Holders, TypeOK
  <2> QED
    BY <1>2, <1>11, <1>b, <2>2 DEF CancelParked, Requests
<1>12. ASSUME NEW n \in Amounts, NEW fairness, AddPermits(n, fairness)
       PROVE  Conservation'
  <2>1. n \in 0..MaxUsize /\ n \in Nat
    BY AmountsAreUsize, MaxUsizeIsNat
  <2>2. permits + n <= MaxUsize
    BY <1>12, <1>c, <1>d, <2>1 DEF AddPermits
  <2>3. /\ phase \in [Handles -> Phases]
        /\ \A i \in 1..Len(queue) : phase[queue[i]] = "parked"
    BY ElementOfSeq DEF TypeOK, QueueIsParked
  <2>4. /\ ReleasePermits(n, fairness, phase, << >>)
        /\ amount' = amount /\ total' = total + n
    BY <1>12 DEF AddPermits
  <2>5. permits' + AmountOf(amount, Holders') = (permits + n) + AmountOf(amount, HoldersIn(phase))
    BY <2>1, <2>2, <2>3, <2>4, ReleaseConserves
  <2>6. HoldersIn(phase) = Holders
    BY DEF HoldersIn, Holders
  <2>7. permits' + AmountOf(amount', Holders') = (permits + n) + AmountOf(amount, Holders)
    BY <2>4, <2>5, <2>6
  <2>8. (permits + n) + AmountOf(amount, Holders) = total + n
    BY <1>c, <1>d, <2>1 DEF Conservation
  <2> QED
    BY <2>4, <2>7, <2>8 DEF Conservation
<1>13. CASE UNCHANGED vars
  BY <1>13 DEF Conservation, Holders, vars
<1> QED
  BY <1>4, <1>5, <1>6, <1>7, <1>8, <1>9, <1>10, <1>11, <1>12, <1>13
     DEF Next, Poll, Drop

(* Available, held and reserved permits always add up to the total.        *)
THEOREM SemaphoreConservation == Spec => []Conservation
<1>1. Init => Conservation
  <2> SUFFICES ASSUME Init
               PROVE  Conservation
    OBVIOUS
  <2>1. Holders = {}
    BY DEF Init, Holders
  <2>2. amount \in Requests
    BY MaxUsizeIsNat DEF Init, Requests
  <2>3. AmountOf(amount, Holders) = 0
    BY <2>1, <2>2, AmountEmpty
  <2> QED
    BY <2>3, InitPermitsIsUsize, MaxUsizeIsNat DEF Init, Conservation
<1> QED
  BY <1>1, ConservationStep, SemaphoreTypeOK, SemaphoreQueue, PTL DEF Spec

-----------------------------------------------------------------------------
(***************************************************************************)
(* Wakeups.  WakeupCovers is inductive: a release leaves a head it could   *)
(* not satisfy, what is available then shrinks only together with the      *)
(* requests of those woken, and a woken future that leaves without its     *)
(* permits runs another release.                                           *)
(***************************************************************************)

(* The claim for a queue q, permits p, requests f and phases st.           *)
Covered(q, p, f, st) ==
    q # << >> => p < f[q[1]] + AmountOf(f, {h \in Handles : st[h] = "woken"})

LEMMA CoveredIsWakeupCovers ==
    ASSUME queue \in Seq(Handles)
    PROVE  WakeupCovers <=> (~promoted => Covered(queue, permits, amount, phase))
<1>1. queue # << >> => Head(queue) = queue[1]
  OBVIOUS
<1> QED
  BY <1>1 DEF WakeupCovers, Covered, In

(* What a fair release has left over does not cover the request a it       *)
(* stopped at, whatever w was offered to others.                           *)
LEMMA LeftIsShort ==
    ASSUME NEW p \in Nat, NEW f \in Nat, NEW a \in Nat, NEW w \in Nat, p < f + a
    PROVE  p - f < a + w
OBVIOUS

(* After a release, the head and the permits are covered; if the queue is  *)
(* woken through, what parks behind it must ask for more than there is.    *)
LEMMA ReleaseCovers ==
    ASSUME TypeOK, QueueIsParked, NEW n \in 0..MaxUsize, permits + n <= MaxUsize,
           NEW fairness \in {"fair", "unfair"},
           NEW from \in [Handles -> Phases], NEW parking \in Seq(Handles),
           \A j \in 1..Len(parking) : permits + n < amount[parking[j]],
           ReleasePermits(n, fairness, from, parking)
    PROVE  Covered(queue', permits', amount, phase')
<1> SUFFICES ASSUME queue' # << >>
             PROVE  permits' < amount[queue'[1]]
                       + AmountOf(amount, {h \in Handles : phase'[h] = "woken"})
  BY DEF Covered
<1> DEFINE woken == {h \in Handles : phase'[h] = "woken"}
<1>1. PICK k \in 0..Len(queue) :
          /\ AmountOf(amount, Front(k)) <= Plus(permits, n)
          /\ k < Len(queue) => AmountOf(amount, Front(k + 1)) > Plus(permits, n)
          /\ permits' = IF fairness = "fair"
                          THEN Plus(permits, n) - AmountOf(amount, Front(k))
                          ELSE Plus(permits, n)
          /\ phase' = [h \in Handles |->
                          IF h \notin Front(k) THEN from[h]
                          ELSE IF fairness = "fair" THEN "granted" ELSE "woken"]
          /\ queue' = SubSeq(queue, k + 1, Len(queue)) \o parking
  BY DEF ReleasePermits
<1>2. Plus(permits, n) = permits + n /\ permits + n \in Nat
  BY MaxUsizeIsNat DEF Plus, TypeOK
<1>3. /\ Len(queue) \in Nat /\ Len(parking) \in Nat
      /\ \A i \in 1..Len(queue) : queue[i] \in Handles
      /\ \A j \in 1..Len(parking) : parking[j] \in Handles
  BY LenProperties, ElementOfSeq DEF TypeOK
<1>4. /\ Len(queue') = (Len(queue) - k) + Len(parking)
      /\ \A i \in 1..((Len(queue) - k) + Len(parking)) :
            queue'[i] = IF i <= Len(queue) - k
                          THEN queue[k + i]
                          ELSE parking[i - (Len(queue) - k)]
  BY <1>1, SuffixEffect
<1>5. Len(queue') >= 1
  <2>1. queue' \in Seq(Handles)
    BY ReleaseType
  <2>2. Len(queue') \in Nat \ {0}
    BY <2>1, EmptySeq
  <2> QED
    BY <2>2
<1>6. /\ Front(k) \in SUBSET Handles /\ woken \in SUBSET Handles
      /\ amount \in Requests /\ \A h \in Handles : amount[h] \in Nat
  BY FrontType, MaxUsizeIsNat DEF TypeOK, Requests
<1>7. AmountOf(amount, woken) \in Nat /\ AmountOf(amount, Front(k)) \in Nat
  BY <1>6, AmountType
<1>8. CASE k < Len(queue)
  <2>1. queue'[1] = queue[k + 1] /\ queue[k + 1] \in Handles
    <3>1. /\ 1 \in 1..((Len(queue) - k) + Len(parking)) /\ 1 <= Len(queue) - k
          /\ k + 1 \in 1..Len(queue)
      BY <1>8, <1>3
    <3> QED
      BY <1>3, <1>4, <3>1
  <2>2. Front(k + 1) = Front(k) \cup {queue[k + 1]}
    <3>1. 1..(k + 1) = (1..k) \cup {k + 1}
      BY <1>3
    <3> QED
      BY <3>1 DEF Front
  <2>3. queue[k + 1] \notin Front(k)
    <3>1. \A i \in 1..k : i \in 1..Len(queue) /\ k + 1 \in 1..Len(queue) /\ i # k + 1
      BY <1>3, <1>8
    <3> QED
      BY <3>1 DEF Front, QueueIsParked
  <2>4. AmountOf(amount, Front(k + 1)) = AmountOf(amount, Front(k)) + amount[queue[k + 1]]
    BY <1>6, <2>1, <2>2, <2>3, AmountAdd
  <2>5. permits + n < AmountOf(amount, Front(k)) + amount[queue[k + 1]]
    BY <1>1, <1>2, <1>6, <1>7, <1>8, <2>1, <2>4
  <2>6. CASE fairness = "fair"
    <3>1. permits' = (permits + n) - AmountOf(amount, Front(k))
      BY <1>1, <1>2, <2>6
    <3>2. amount[queue[k + 1]] \in Nat
      BY <1>6, <2>1
    <3>3. permits' < amount[queue[k + 1]] + AmountOf(amount, woken)
      BY <1>2, <1>7, <2>5, <3>1, <3>2, LeftIsShort, Zenon
    <3> QED
      BY <2>1, <3>3
  <2>7. CASE fairness = "unfair"
    <3>1. permits' = permits + n
      BY <1>1, <1>2, <2>7
    <3>2. Front(k) \in SUBSET woken
      BY <1>1, <1>6, <2>7
    <3>3. AmountOf(amount, Front(k)) <= AmountOf(amount, woken)
      BY <1>6, <3>2, AmountMonotone
    <3>4. amount[queue[k + 1]] \in Nat
      BY <1>6, <2>1
    <3>5. permits' < amount[queue[k + 1]] + AmountOf(amount, woken)
      BY <1>2, <1>7, <2>5, <3>1, <3>3, <3>4
    <3> QED
      BY <2>1, <3>5
  <2> QED
    BY <2>6, <2>7
<1>9. CASE k = Len(queue)
  <2>1. 1 \in 1..Len(parking) /\ queue'[1] = parking[1]
    BY <1>3, <1>4, <1>5, <1>9
  <2>2. permits + n < amount[parking[1]] /\ amount[parking[1]] \in Nat
    BY <1>3, <1>6, <2>1
  <2>3. permits' <= permits + n
    BY <1>1, <1>2, <1>7
  <2>4. permits' \in Nat
    BY <1>1, <1>2, <1>7
  <2> QED
    BY <1>2, <1>7, <2>1, <2>2, <2>3, <2>4
<1> QED
  BY <1>3, <1>8, <1>9

(* Phases and requests of handles neither at the head nor woken are of no  *)
(* concern.                                                                *)
LEMMA CoveredAgree ==
    ASSUME NEW q, NEW p \in Nat, NEW r \in Nat, r <= p,
           NEW f \in Requests, NEW g \in Requests, NEW s, NEW t,
           Covered(q, p, f, s), q # << >> => q[1] \in Handles /\ g[q[1]] = f[q[1]],
           \A h \in Handles : s[h] = "woken" <=> t[h] = "woken",
           \A h \in Handles : s[h] = "woken" => g[h] = f[h]
    PROVE  Covered(q, r, g, t)
<1> SUFFICES ASSUME q # << >>
             PROVE  r < g[q[1]] + AmountOf(g, {h \in Handles : t[h] = "woken"})
  BY DEF Covered
<1> DEFINE w == {h \in Handles : s[h] = "woken"}
<1>1. {h \in Handles : t[h] = "woken"} = w
  OBVIOUS
<1>2. AmountOf(g, w) = AmountOf(f, w)
  BY AmountAgree
<1>3. p < f[q[1]] + AmountOf(f, w)
  BY DEF Covered
<1>4. AmountOf(f, w) \in Nat /\ f[q[1]] \in Nat
  BY AmountType, MaxUsizeIsNat DEF Requests
<1>5. r < f[q[1]] + AmountOf(f, w)
  BY <1>3, <1>4
<1> QED
  BY <1>1, <1>2, <1>5

LEMMA GiveBackCovers ==
    ASSUME TypeOK, TypeOK', QueueIsParked, QueueIsParked',
           NEW h \in Handles, phase[h] # "parked", NEW n \in 0..MaxUsize,
           permits + n <= MaxUsize, NEW fairness \in {"fair", "unfair"},
           GiveBack(h, n, fairness)
    PROVE  WakeupCovers'
<1> DEFINE e == << >>
           from == Become(h, "idle")
<1>1. e \in Seq(Handles) /\ 1..Len(e) = {}
  BY EmptySeq
<1>2. /\ from \in [Handles -> Phases] /\ ~Queued(h) /\ from[h] = "idle"
      /\ \A i \in 1..Len(queue) : from[queue[i]] = "parked"
  BY FromParked DEF Phases, Become, TypeOK
<1>3. ReleasePermits(n, fairness, from, e) /\ amount' = [amount EXCEPT ![h] = 0]
  BY DEF GiveBack
<1> HIDE DEF e, from
<1>4. Covered(queue', permits', amount, phase')
  BY <1>1, <1>2, <1>3, ReleaseCovers
<1>5. phase'[h] = "idle"
  BY <1>2, <1>3, ReleaseConserves
<1>6. /\ amount \in Requests /\ amount' \in Requests /\ permits' \in Nat
      /\ \A g \in Handles : g # h => amount'[g] = amount[g]
  BY <1>3, MaxUsizeIsNat DEF TypeOK, Requests
<1>7. queue' # << >> => queue'[1] \in Handles /\ queue'[1] # h
  <2>1. queue' \in Seq(Handles)
    BY DEF TypeOK
  <2>2. queue' # << >> => Len(queue') \in Nat \ {0}
    BY <2>1, EmptySeq
  <2>3. \A i \in 1..Len(queue') : queue'[i] \in Handles /\ queue'[i] # h
    BY <2>1, <1>5, ElementOfSeq DEF QueueIsParked
  <2> QED
    BY <2>2, <2>3
<1>8. Covered(queue', permits', amount', phase')
  BY <1>4, <1>5, <1>6, <1>7, CoveredAgree
<1>9. WakeupCovers' <=> (~promoted' => Covered(queue', permits', amount', phase'))
  <2>1. queue' # << >> => Head(queue') = queue'[1]
    BY DEF TypeOK
  <2> QED
    BY <2>1 DEF WakeupCovers, Covered, In
<1> QED
  BY <1>8, <1>9

LEMMA WakeupCoversStep ==
    TypeOK /\ QueueIsParked /\ Conservation /\ WakeupCovers /\ [Next]_vars
        => WakeupCovers'
<1> SUFFICES ASSUME TypeOK, QueueIsParked, Conservation, WakeupCovers, [Next]_vars
             PROVE  WakeupCovers'
  OBVIOUS
<1>a. TypeOK' /\ QueueIsParked'
  BY TypeOKStep, QueueStep
<1>b. /\ permits \in Nat /\ permits' \in Nat /\ permits <= total /\ total <= MaxUsize
      /\ permits <= MaxUsize /\ total \in Nat /\ MaxUsize \in Nat
  <2>1. AmountOf(amount, Holders) \in Nat
    BY AmountType DEF Holders, TypeOK, Requests
  <2> QED
    BY <1>a, <2>1, MaxUsizeIsNat DEF TypeOK, Conservation
<1>c. amount \in Requests /\ amount' \in Requests
  BY <1>a DEF TypeOK, Requests
<1>d. /\ Len(queue) \in Nat
      /\ queue # << >> => Len(queue) \in Nat \ {0} /\ 1 \in 1..Len(queue)
      /\ \A i \in 1..Len(queue) : queue[i] \in Handles /\ phase[queue[i]] = "parked"
  BY LenProperties, EmptySeq, ElementOfSeq DEF TypeOK, QueueIsParked
<1>e. ~promoted => Covered(queue, permits, amount, phase)
  BY CoveredIsWakeupCovers DEF TypeOK
<1>f. ASSUME ~promoted' => Covered(queue', permits', amount', phase')
      PROVE  WakeupCovers'
  <2>1. queue' # << >> => Head(queue') = queue'[1]
    BY <1>a DEF TypeOK
  <2> QED
    BY <1>f, <2>1 DEF WakeupCovers, Covered, In
<1>1. ASSUME queue' = queue, permits' <= permits, promoted' = promoted,
             \A h \in Handles : phase'[h] = "woken" <=> phase[h] = "woken",
             \A h \in Handles : phase[h] \in {"woken", "parked"} => amount'[h] = amount[h]
      PROVE  WakeupCovers'
  <2>1. ASSUME ~promoted
        PROVE  Covered(queue, permits', amount', phase')
    <3>1. queue # << >> => queue[1] \in Handles /\ amount'[queue[1]] = amount[queue[1]]
      BY <1>1, <1>d
    <3>2. \A h \in Handles : phase[h] = "woken" => amount'[h] = amount[h]
      BY <1>1
    <3>3. Covered(queue, permits, amount, phase)
      BY <1>e, <2>1
    <3>4. permits \in Nat /\ permits' \in Nat /\ permits' <= permits
      BY <1>1, <1>b
    <3>5. \A h \in Handles : phase[h] = "woken" <=> phase'[h] = "woken"
      BY <1>1
    <3> QED
      BY <1>c, <3>1, <3>2, <3>3, <3>4, <3>5, CoveredAgree
  <2> QED
    BY <1>1, <1>f, <2>1
<1>2. ASSUME NEW h \in Handles, NEW n \in Amounts, TryAcquireUnfair(h, n)
      PROVE  WakeupCovers'
  <2>1. n \in Nat /\ permits' = permits - n /\ n <= permits
    BY <1>2, AmountsAreUsize, MaxUsizeIsNat DEF TryAcquireUnfair
  <2>2. permits' <= permits
    BY <2>1, <1>b
  <2>3. /\ \A g \in Handles : phase'[g] = "woken" <=> phase[g] = "woken"
        /\ \A g \in Handles : phase[g] \in {"woken", "parked"} => amount'[g] = amount[g]
    BY <1>2 DEF TryAcquireUnfair, Become, TypeOK
  <2> QED
    BY <1>1, <1>2, <2>2, <2>3 DEF TryAcquireUnfair
<1>3. ASSUME NEW h \in Handles, NEW n \in Amounts, Park(h, n),
             queue # << >> \/ n > permits
      PROVE  WakeupCovers'
  <2>1. /\ \A g \in Handles : phase'[g] = "woken" <=> phase[g] = "woken"
        /\ \A g \in Handles : phase[g] \in {"woken", "parked"} => amount'[g] = amount[g]
        /\ amount'[h] = n /\ permits' = permits /\ promoted' = promoted
    BY <1>3 DEF Park, Become, TypeOK
  <2>2. /\ \A i \in 1..Len(queue) : queue'[i] = queue[i]
        /\ queue'[Len(queue) + 1] = h /\ queue' # << >>
    BY <1>3, AppendProperties DEF TypeOK, Park
  <2>3. CASE queue # << >>
    <3>1. queue'[1] = queue[1]
      BY <1>d, <2>2, <2>3
    <3>2. ASSUME ~promoted
          PROVE  Covered(queue', permits', amount', phase')
      <4>1. Covered(queue', permits, amount, phase)
        BY <1>e, <2>2, <2>3, <3>1, <3>2 DEF Covered
      <4>2. queue'[1] \in Handles /\ amount'[queue'[1]] = amount[queue'[1]]
        BY <1>d, <2>1, <2>3, <3>1
      <4>3. \A g \in Handles : phase[g] = "woken" => amount'[g] = amount[g]
        BY <2>1
      <4> QED
        BY <1>b, <1>c, <2>1, <4>1, <4>2, <4>3, CoveredAgree
    <3> QED
      BY <1>f, <2>1, <3>2
  <2>4. CASE queue = << >>
    <3>1. queue'[1] = h
      <4>1. Len(queue) + 1 = 1
        BY <2>4
      <4> QED
        BY <2>2, <4>1
    <3>2. AmountOf(amount', {g \in Handles : phase'[g] = "woken"}) \in Nat
      <4>1. {g \in Handles : phase'[g] = "woken"} \in SUBSET Handles
        OBVIOUS
      <4> QED
        BY <1>c, <4>1, AmountType
    <3>3. n \in Nat /\ n > permits
      BY <1>3, <2>4, AmountsAreUsize, MaxUsizeIsNat
    <3>4. permits' < amount'[queue'[1]]
                       + AmountOf(amount', {g \in Handles : phase'[g] = "woken"})
      BY <1>b, <2>1, <3>1, <3>2, <3>3
    <3> QED
      BY <1>f, <3>4 DEF Covered
  <2> QED
    BY <2>3, <2>4
<1>4. ASSUME NEW h \in Handles, Call(h)
      PROVE  WakeupCovers'
  <2>1. PICK n \in Amounts : \/ TryAcquire(h, n) \/ TryAcquireUnfair(h, n)
                             \/ Acquire(h, n) \/ AcquireUnfair(h, n)
    BY <1>4 DEF Call
  <2> QED
    BY <1>2, <1>3, <2>1 DEF TryAcquire, Acquire, AcquireUnfair
<1>5. ASSUME NEW h \in Handles, PollWokenTakes(h)
      PROVE  WakeupCovers'
  <2> DEFINE w == {g \in Handles : phase[g] = "woken"}
             u == {g \in Handles : phase'[g] = "woken"}
  <2>1. h \in w /\ u = w \ {h} /\ w \in SUBSET Handles
    BY <1>5 DEF PollWokenTakes, Become, TypeOK
  <2>2. AmountOf(amount, w) = AmountOf(amount, u) + amount[h]
    BY <1>c, <2>1, AmountRemove
  <2>3. /\ queue' = queue /\ amount' = amount /\ promoted' = promoted
        /\ permits' = permits - amount[h] /\ amount[h] \in Nat
    BY <1>5, MaxUsizeIsNat DEF PollWokenTakes, TypeOK
  <2>4. AmountOf(amount, u) \in Nat
    BY <1>c, <2>1, AmountType
  <2>5. ASSUME ~promoted, queue # << >>
        PROVE  permits' < amount[queue[1]] + AmountOf(amount, u)
    <3>1. permits < amount[queue[1]] + AmountOf(amount, w)
      BY <1>e, <2>5 DEF Covered
    <3>2. amount[queue[1]] \in Nat
      BY <1>c, <1>d, <2>5, MaxUsizeIsNat DEF Requests
    <3> HIDE DEF u, w
    <3> QED
      BY <1>b, <2>2, <2>3, <2>4, <3>1, <3>2
  <2> QED
    BY <1>f, <2>3, <2>5 DEF Covered
<1>6. ASSUME NEW h \in Handles, PollWokenLoses(h)
      PROVE  WakeupCovers'
  <2> DEFINE from == Become(h, "parked")
             one == <<h>>
  <2>1. /\ from \in [Handles -> Phases]
        /\ \A i \in 1..Len(queue) : from[queue[i]] = "parked"
    BY <1>6, FromParked DEF PollWokenLoses, Phases
  <2>2. one \in Seq(Handles) /\ Len(one) = 1 /\ one[1] = h
    OBVIOUS
  <2>3. ReleasePermits(0, "unfair", from, one) /\ amount' = amount /\ amount[h] > permits
    BY <1>6 DEF PollWokenLoses
  <2> HIDE DEF from, one
  <2>4. 0 \in 0..MaxUsize /\ permits + 0 <= MaxUsize /\ permits + 0 = permits
    BY <1>b
  <2>5. amount[h] \in Nat
    BY <1>c, MaxUsizeIsNat DEF Requests
  <2>6. \A j \in 1..Len(one) : permits + 0 < amount[one[j]]
    BY <1>b, <2>2, <2>3, <2>4, <2>5
  <2>7. Covered(queue', permits', amount, phase')
    BY <2>1, <2>2, <2>3, <2>4, <2>6, ReleaseCovers
  <2> QED
    BY <1>f, <2>3, <2>7
<1>7. ASSUME NEW h \in Handles, PollGranted(h)
      PROVE  WakeupCovers'
  BY <1>1, <1>7, <1>b DEF PollGranted, Become, TypeOK
<1>8. ASSUME NEW h \in Handles,
             DropPermit(h) \/ ReleaseFair(h) \/ CancelGranted(h)
      PROVE  WakeupCovers'
  <2>1. h \in Holders /\ phase[h] # "parked"
    BY <1>8 DEF DropPermit, ReleaseFair, CancelGranted, Holders
  <2>2. PICK fairness \in {"fair", "unfair"} : GiveBack(h, amount[h], fairness)
    BY <1>8 DEF DropPermit, ReleaseFair, CancelGranted
  <2>3. permits + amount[h] <= total /\ amount[h] \in 0..MaxUsize
    BY <2>1, HoldersBound DEF TypeOK
  <2>4. permits + amount[h] <= MaxUsize
    BY <1>b, <2>3
  <2> QED
    BY <1>a, <2>1, <2>2, <2>3, <2>4, GiveBackCovers
<1>9. ASSUME NEW h \in Handles, CancelWoken(h)
      PROVE  WakeupCovers'
  <2>1. phase[h] # "parked" /\ GiveBack(h, 0, "unfair")
    BY <1>9 DEF CancelWoken
  <2>2. 0 \in 0..MaxUsize /\ permits + 0 <= MaxUsize
    BY <1>b
  <2> QED
    BY <1>a, <2>1, <2>2, GiveBackCovers
<1>10. ASSUME NEW h \in Handles, Leak(h)
       PROVE  WakeupCovers'
  BY <1>1, <1>10, <1>b DEF Leak, Become, TypeOK
<1>11. ASSUME NEW h \in Handles, CancelParked(h)
       PROVE  WakeupCovers'
  <2>1. PICK i \in 1..Len(queue) :
            /\ queue[i] = h
            /\ queue' = SubSeq(queue, 1, i - 1) \o SubSeq(queue, i + 1, Len(queue))
            /\ promoted' = (queue' # << >> /\ (promoted \/ i = 1))
    BY <1>11 DEF CancelParked
  <2>2. /\ Len(queue') = Len(queue) - 1
        /\ \A j \in 1..(Len(queue) - 1) :
              queue'[j] = IF j < i THEN queue[j] ELSE queue[j + 1]
    BY <2>1, RemoveEffect
  <2>3. /\ phase[h] = "parked" /\ permits' = permits
        /\ \A g \in Handles : phase'[g] = "woken" <=> phase[g] = "woken"
        /\ \A g \in Handles : g # h => amount'[g] = amount[g]
    BY <1>11, <1>d, <2>1 DEF CancelParked, Become, TypeOK
  <2>4. ASSUME ~promoted', queue' # << >>
        PROVE  Covered(queue', permits', amount', phase')
    <3>0. ~promoted /\ i # 1
      BY <2>1, <2>4, Zenon
    <3>1. ~promoted /\ i > 1
      BY <1>d, <3>0
    <3>2. Len(queue) - 1 >= 1
      BY <1>d, <3>1
    <3>3. queue'[1] = queue[1] /\ queue[1] \in Handles /\ queue # << >>
      BY <1>d, <2>2, <3>1, <3>2
    <3>4. queue[1] # h
      BY <1>d, <2>1, <3>0, <3>1 DEF QueueIsParked
    <3>5. Covered(queue', permits, amount, phase)
      BY <1>e, <3>1, <3>3 DEF Covered
    <3>6. queue'[1] \in Handles /\ amount'[queue'[1]] = amount[queue'[1]]
      BY <2>3, <3>3, <3>4
    <3>7. \A g \in Handles : phase[g] = "woken" => amount'[g] = amount[g]
      BY <2>3
    <3> QED
      BY <1>b, <1>c, <2>3, <3>5, <3>6, <3>7, CoveredAgree
  <2>5. queue' = << >> => Covered(queue', permits', amount', phase')
    BY DEF Covered
  <2> QED
    BY <1>f, <2>4, <2>5
<1>12. ASSUME NEW n \in Amounts, NEW fairness \in {"fair", "unfair"},
              AddPermits(n, fairness)
       PROVE  WakeupCovers'
  <2> DEFINE e == << >>
  <2>1. e \in Seq(Handles) /\ 1..Len(e) = {}
    BY EmptySeq
  <2>2. ReleasePermits(n, fairness, phase, e) /\ amount' = amount
    BY <1>12 DEF AddPermits
  <2> HIDE DEF e
  <2>3. n \in 0..MaxUsize /\ n \in Nat /\ phase \in [Handles -> Phases]
    BY AmountsAreUsize, MaxUsizeIsNat DEF TypeOK
  <2>4. permits + n <= MaxUsize
    BY <1>12, <1>b, <2>3 DEF AddPermits
  <2>5. Covered(queue', permits', amount, phase')
    BY <2>1, <2>2, <2>3, <2>4, ReleaseCovers
  <2> QED
    BY <1>f, <2>2, <2>5
<1>13. CASE UNCHANGED vars
  BY <1>13 DEF WakeupCovers, In, vars
<1> QED
  BY <1>4, <1>5, <1>6, <1>7, <1>8, <1>9, <1>10, <1>11, <1>12, <1>13
     DEF Next, Poll, Drop

(* Wakeups in flight cover the queue, and permits are stranded in front of *)
(* a waiter only by the drop of the parked future ahead of it.             *)
THEOREM SemaphoreWakeupCovers == Spec => []WakeupCovers
<1>1. Init => WakeupCovers
  BY DEF Init, WakeupCovers
<1> QED
  BY <1>1, WakeupCoversStep, SemaphoreTypeOK, SemaphoreQueue,
     SemaphoreConservation, PTL DEF Spec

THEOREM SemaphoreStranding == Spec => []StrandedOnlyByPromotion
<1>1. TypeOK /\ WakeupCovers => StrandedOnlyByPromotion
  <2> SUFFICES ASSUME TypeOK, WakeupCovers, Stranded, ~promoted
               PROVE  FALSE
    BY DEF StrandedOnlyByPromotion
  <2>1. amount \in Requests /\ AmountOf(amount, {}) = 0
    BY AmountEmpty DEF TypeOK, Requests
  <2>2. permits < amount[Head(queue)] + 0
    BY <2>1 DEF Stranded, WakeupCovers
  <2>3. Head(queue) \in Handles
    BY HeadTailProperties DEF TypeOK, Stranded
  <2>4. permits \in Nat /\ amount[Head(queue)] \in Nat
    BY <2>1, <2>3, MaxUsizeIsNat DEF TypeOK, Requests
  <2> QED
    BY <2>2, <2>4 DEF Stranded
<1> QED
  BY <1>1, SemaphoreTypeOK, SemaphoreWakeupCovers, PTL

-----------------------------------------------------------------------------
(***************************************************************************)
(* Order of service.                                                       *)
(***************************************************************************)

(* A release serves a prefix of the queue.                                 *)
LEMMA ReleaseInOrder ==
    ASSUME TypeOK, QueueIsParked, NEW n, NEW fairness,
           NEW from \in [Handles -> Phases], NEW parking,
           \A i \in 1..Len(queue) : from[queue[i]] = "parked",
           ReleasePermits(n, fairness, from, parking)
    PROVE  InOrder
<1>1. PICK k \in 0..Len(queue) :
          phase' = [h \in Handles |->
                       IF h \notin Front(k) THEN from[h]
                       ELSE IF fairness = "fair" THEN "granted" ELSE "woken"]
  BY DEF ReleasePermits
<1>2. Len(queue) \in Nat /\ \A i \in 1..Len(queue) : queue[i] \in Handles
  BY LenProperties, ElementOfSeq DEF TypeOK
<1> SUFFICES ASSUME NEW i \in 1..Len(queue), NEW j \in 1..Len(queue), i < j,
                    phase'[queue[j]] \in {"woken", "granted"}
             PROVE  phase'[queue[i]] \in {"woken", "granted"}
  BY DEF InOrder
<1>3. queue[j] \in Front(k)
  BY <1>1, <1>2
<1>4. PICK l \in 1..k : queue[l] = queue[j]
  BY <1>3 DEF Front
<1>5. l = j
  <2>1. l \in 1..Len(queue)
    BY <1>2
  <2> QED
    BY <1>4, <2>1 DEF QueueIsParked
<1>6. i \in 1..k
  BY <1>2, <1>5
<1> QED
  BY <1>1, <1>2, <1>6 DEF Front

LEMMA InOrderStep == TypeOK /\ QueueIsParked /\ [Next]_vars => InOrder
<1> SUFFICES ASSUME TypeOK, QueueIsParked, [Next]_vars
             PROVE  InOrder
  OBVIOUS
<1>a. \A i \in 1..Len(queue) : queue[i] \in Handles /\ phase[queue[i]] = "parked"
  BY ElementOfSeq DEF TypeOK, QueueIsParked
<1>1. ASSUME \A h \in Handles : phase[h] = "parked" =>
                                  phase'[h] \notin {"woken", "granted"}
      PROVE  InOrder
  BY <1>1, <1>a DEF InOrder
<1>2. ASSUME NEW h \in Handles, NEW p \in {"idle", "parked", "permit"},
             phase' = Become(h, p)
      PROVE  InOrder
  BY <1>1, <1>2 DEF Become, TypeOK
<1>3. ASSUME NEW h \in Handles, Call(h)
      PROVE  InOrder
  <2>1. phase' = Become(h, "permit") \/ phase' = Become(h, "parked")
    BY <1>3 DEF Call, TryAcquire, Acquire, AcquireUnfair, TryAcquireUnfair, Park
  <2> QED
    BY <1>2, <2>1
<1>4. ASSUME NEW h \in Handles,
             PollWokenTakes(h) \/ PollGranted(h) \/ Leak(h) \/ CancelParked(h)
      PROVE  InOrder
  <2>1. phase' = Become(h, "permit") \/ phase' = Become(h, "idle")
    BY <1>4 DEF PollWokenTakes, PollGranted, Leak, CancelParked
  <2> QED
    BY <1>2, <2>1
<1>5. ASSUME NEW h \in Handles, PollWokenLoses(h)
      PROVE  InOrder
  <2>1. /\ Become(h, "parked") \in [Handles -> Phases]
        /\ \A i \in 1..Len(queue) : Become(h, "parked")[queue[i]] = "parked"
    BY <1>5, FromParked DEF PollWokenLoses, Phases
  <2> QED
    BY <1>5, <2>1, ReleaseInOrder DEF PollWokenLoses
<1>6. ASSUME NEW h \in Handles,
             DropPermit(h) \/ ReleaseFair(h) \/ CancelWoken(h) \/ CancelGranted(h)
      PROVE  InOrder
  <2>1. phase[h] # "parked"
    BY <1>6 DEF DropPermit, ReleaseFair, CancelWoken, CancelGranted
  <2>2. /\ Become(h, "idle") \in [Handles -> Phases]
        /\ \A i \in 1..Len(queue) : Become(h, "idle")[queue[i]] = "parked"
    BY <2>1, FromParked DEF Phases
  <2>3. PICK n, fairness : ReleasePermits(n, fairness, Become(h, "idle"), << >>)
    BY <1>6 DEF DropPermit, ReleaseFair, CancelWoken, CancelGranted, GiveBack
  <2> QED
    BY <2>2, <2>3, ReleaseInOrder
<1>7. ASSUME NEW n \in Amounts, NEW fairness, AddPermits(n, fairness)
      PROVE  InOrder
  <2>1. phase \in [Handles -> Phases]
    BY DEF TypeOK
  <2> QED
    BY <1>7, <1>a, <2>1, ReleaseInOrder DEF AddPermits
<1>8. CASE UNCHANGED vars
  BY <1>1, <1>8 DEF vars
<1> QED
  BY <1>3, <1>4, <1>5, <1>6, <1>7, <1>8 DEF Next, Poll, Drop

(* No waiter is served before those ahead of it.                           *)
THEOREM SemaphoreInOrder == Spec => ServedInOrder
<1>1. TypeOK /\ QueueIsParked /\ [Next]_vars => [InOrder]_vars
  BY InOrderStep
<1> QED
  BY <1>1, SemaphoreTypeOK, SemaphoreQueue, PTL DEF Spec, ServedInOrder

-----------------------------------------------------------------------------
(***************************************************************************)
(* The release loop.  `SemaphoreLoop` runs release_permits one `wake_one`  *)
(* at a time, and is shown to implement `Semaphore`.                       *)
(***************************************************************************)
CONSTANT Nil
VARIABLES input, output, call, want, loop, before

Loop == INSTANCE SemaphoreLoop

LEMMA LoopAmount == \A f, S : Loop!Atomic!AmountOf(f, S) = AmountOf(f, S)
BY Zenon DEF Loop!Atomic!AmountOf, Loop!Atomic!Units, Loop!Atomic!Cardinality,
             Loop!Atomic!IsFiniteSet, AmountOf, Units, Cardinality, IsFiniteSet

LEMMA LoopArithmetic == \A a, b : /\ Loop!Atomic!Plus(a, b) = Plus(a, b)
                                  /\ Loop!Atomic!Minus(a, b) = Minus(a, b)
BY DEF Loop!Atomic!Plus, Loop!Atomic!Minus, Plus, Minus

(* Between operations `Semaphore` sees the state as it is.                 *)
SeesState ==
    /\ Loop!Seen.permits = permits /\ Loop!Seen.total = total
    /\ Loop!Seen.queue = queue /\ Loop!Seen.phase = Loop!Phase
    /\ Loop!Seen.amount = want /\ Loop!Seen.promoted = promoted

LEMMA FreeSees == before = Nil => SeesState
BY DEF SeesState, Loop!Seen, Loop!Free, Loop!View

LEMMA FreeSeesNext == before' = Nil => SeesState'
BY DEF SeesState, Loop!Seen, Loop!Free, Loop!View

LoopTyped ==
    /\ permits \in 0..MaxUsize /\ total \in 0..MaxUsize
    /\ queue \in Seq(Handles) /\ NoTwice(queue)
    /\ input \in [Handles -> (0..MaxUsize) \cup {Nil}]
    /\ output \in [Handles -> Loop!WakeUps \cup {Nil}]
    /\ call \in [Handles -> Loop!Calls]
    /\ want \in [Handles -> 0..MaxUsize]
    /\ loop \in Loop!Locals \cup {Nil}
    /\ before \in Loop!Views \cup {Nil}
    /\ promoted \in BOOLEAN

(* Who is in the queue has brought there what it asks for; a grant is of   *)
(* what its handle asked for.                                              *)
LoopNodes ==
    \A h \in Handles :
        /\ Holds(queue, h) => call[h] = "waiting" /\ output[h] = Nil /\ input[h] = want[h]
        /\ output[h] # Nil => /\ call[h] = "waiting"
                              /\ output[h] \in {Loop!Token, Loop!Grant(want[h])}

(* Between operations no code is suspended half way.                       *)
LoopIdle == before = Nil => loop = Nil /\ \A h \in Handles : call[h] # "retrying"

FrontOf(q, k) == {q[i] : i \in 1..k}

(* The operation under way, as `Semaphore` has it, began with a release of *)
(* `returned` and the handles in phases `from`, in the state `before`.     *)
GivesBack(h, returned, fairness, from) ==
    /\ \/ before.phase[h] = "permit" /\ returned = before.amount[h]
       \/ before.phase[h] = "woken" /\ returned = 0 /\ fairness = "unfair"
       \/ before.phase[h] = "granted" /\ returned = before.amount[h] /\ fairness = "unfair"
    /\ from = [before.phase EXCEPT ![h] = "idle"]
    /\ want = [before.amount EXCEPT ![h] = 0]
    /\ total = before.total

Retries(h, returned, fairness, from) ==
    /\ before.phase[h] = "woken" /\ before.amount[h] > before.permits
    /\ returned = 0 /\ fairness = "unfair"
    /\ from = [before.phase EXCEPT ![h] = "retrying"]
    /\ want = before.amount
    /\ total = before.total

Adds(n, returned, from) ==
    /\ before.total + n <= MaxUsize /\ returned = n
    /\ from = before.phase
    /\ want = before.amount
    /\ total = before.total + n

Began(returned, fairness, from) ==
    \/ \E h \in Handles : \/ GivesBack(h, returned, fairness, from)
                          \/ Retries(h, returned, fairness, from)
    \/ \E n \in Amounts : Adds(n, returned, from)

(* The loop has passed the first k of the queue.                           *)
Passed(k, returned, fairness, from) ==
    /\ \A i \in 1..Len(before.queue) : from[before.queue[i]] = "parked"
    /\ queue = SubSeq(before.queue, k + 1, Len(before.queue))
    /\ AmountOf(before.amount, FrontOf(before.queue, k)) <= Plus(before.permits, returned)
    /\ permits = IF fairness = "fair"
                 THEN Plus(before.permits, returned)
                        - AmountOf(before.amount, FrontOf(before.queue, k))
                 ELSE Plus(before.permits, returned)
    /\ Loop!Phase = [h \in Handles |->
                        IF h \notin FrontOf(before.queue, k) THEN from[h]
                        ELSE IF fairness = "fair" THEN "granted" ELSE "woken"]

(* It goes on, or is over and a handle is left that retries.               *)
GoesOn(k, returned, fairness) ==
    /\ loop.fairness = fairness
    /\ loop.left = Plus(before.permits, returned)
                     - AmountOf(before.amount, FrontOf(before.queue, k))

IsOver(k, returned) ==
    /\ k < Len(before.queue) =>
          AmountOf(before.amount, FrontOf(before.queue, k + 1)) > Plus(before.permits, returned)
    /\ promoted = FALSE
    /\ \E h \in Handles : call[h] = "retrying"

Underway(k, returned, fairness, from) ==
    /\ Began(returned, fairness, from)
    /\ Passed(k, returned, fairness, from)
    /\ IF loop # Nil THEN GoesOn(k, returned, fairness) ELSE IsOver(k, returned)

LoopUnderway ==
    before # Nil => /\ NoTwice(before.queue)
                    /\ \E k \in 0..Len(before.queue), returned \in 0..MaxUsize,
                          fairness \in {"fair", "unfair"},
                          from \in [Handles -> Phases \cup {"retrying"}] :
                             Underway(k, returned, fairness, from)

LoopInv == LoopTyped /\ LoopNodes /\ LoopIdle /\ LoopUnderway

(* A step keeps the invariant, and is a step of `Semaphore` or none.       *)
StepKeeps == LoopInv' /\ [Loop!Atomic!Next]_(Loop!Atomic!vars)

(* How `Semaphore` sees one handle.                                        *)
LEMMA PhaseTells ==
    \A h \in Handles :
        Loop!Phase[h] = IF call[h] # "waiting" THEN call[h]
                        ELSE IF output[h] = Nil THEN "parked"
                        ELSE IF output[h].fair THEN "granted" ELSE "woken"
BY DEF Loop!Phase

LEMMA PhaseType ==
    ASSUME LoopTyped
    PROVE  /\ Loop!Phase \in [Handles -> Phases \cup {"retrying"}]
           /\ (\A h \in Handles : call[h] # "retrying") => Loop!Phase \in [Handles -> Phases]
<1>1. \A h \in Handles : call[h] \in {"idle", "waiting", "retrying", "permit"}
  BY DEF LoopTyped, Loop!Calls
<1> QED
  BY <1>1 DEF Loop!Phase, Phases

LEMMA TokenTells ==
    ASSUME Loop!NilIsNothing
    PROVE  /\ Loop!Token # Nil /\ ~Loop!Token.fair /\ Loop!Token \in Loop!WakeUps
           /\ \A n \in 0..MaxUsize : /\ Loop!Grant(n) # Nil /\ Loop!Grant(n).fair
                                     /\ Loop!Grant(n) # Loop!Token
                                     /\ Loop!Grant(n).permits = n
                                     /\ Loop!Grant(n) \in Loop!WakeUps
BY DEF Loop!NilIsNothing, Loop!WakeUps, Loop!Token, Loop!Grant

(* One handle moves.                                                       *)
MovesTo(h, p) == Loop!Phase' = [Loop!Phase EXCEPT ![h] = p]

LEMMA PhaseMoves ==
    ASSUME NEW h \in Handles, LoopTyped,
           \A d \in Handles \ {h} : call'[d] = call[d] /\ output'[d] = output[d]
    PROVE  /\ call'[h] # "waiting" => MovesTo(h, call'[h])
           /\ call'[h] = "waiting" /\ output'[h] = Nil => MovesTo(h, "parked")
<1> DEFINE p == IF call'[h] # "waiting" THEN call'[h] ELSE "parked"
<1> SUFFICES ASSUME call'[h] # "waiting" \/ output'[h] = Nil
             PROVE  MovesTo(h, p)
  OBVIOUS
<1>1. \A d \in Handles : Loop!Phase'[d] = IF d = h THEN p ELSE Loop!Phase[d]
  BY DEF Loop!Phase
<1>2. /\ DOMAIN Loop!Phase = Handles /\ DOMAIN Loop!Phase' = Handles
      /\ Loop!Phase' = [d \in Handles |-> Loop!Phase'[d]]
  BY DEF Loop!Phase
<1> HIDE DEF p
<1> QED
  BY <1>1, <1>2 DEF MovesTo

(* Permits are taken, in one step.                                         *)
LEMMA TakeKeeps ==
    ASSUME Loop!NilIsNothing, LoopInv, NEW h \in Handles, NEW n \in Amounts,
           Loop!TryAcquireUnfair(h, n)
    PROVE  /\ StepKeeps
           /\ Loop!Atomic!TryAcquireUnfair(h, n)
<1>a. LoopTyped /\ LoopNodes /\ LoopIdle
  BY DEF LoopInv
<1>1. /\ before = Nil /\ before' = Nil /\ loop = Nil /\ loop' = Nil
      /\ call[h] = "idle" /\ n <= permits /\ permits' = permits - n
      /\ call' = [call EXCEPT ![h] = "permit"]
      /\ want' = [want EXCEPT ![h] = n]
      /\ UNCHANGED <<total, queue, input, output, promoted>>
  BY <1>a DEF Loop!TryAcquireUnfair, Loop!Take, Loop!Goes, Loop!Free, Loop!list, LoopIdle
<1>2. n \in 0..MaxUsize
  BY AmountsAreUsize
<1>3. MovesTo(h, "permit") /\ Loop!Phase[h] = "idle"
  BY <1>a, <1>1, PhaseMoves, PhaseTells DEF LoopTyped
<1>4. LoopTyped'
  BY <1>a, <1>1, <1>2, MaxUsizeIsNat DEF LoopTyped, Loop!Calls
<1>5. LoopNodes'
  BY <1>a, <1>1 DEF LoopNodes, LoopTyped
<1>6. LoopIdle' /\ LoopUnderway'
  BY <1>a, <1>1 DEF LoopIdle, LoopUnderway, LoopTyped
<1>7. SeesState /\ SeesState'
  BY <1>1, FreeSees, FreeSeesNext
<1>8. Loop!Atomic!TryAcquireUnfair(h, n)
  BY <1>1, <1>3, <1>7 DEF SeesState, MovesTo, Loop!Atomic!TryAcquireUnfair, Loop!Atomic!Become
<1>9. Loop!Atomic!Next
  BY <1>8 DEF Loop!Atomic!Next, Loop!Atomic!Call
<1> QED
  BY <1>4, <1>5, <1>6, <1>8, <1>9 DEF LoopInv, StepKeeps

(* An operation that is one step there and here.                           *)
LEMMA WholeStep ==
    ASSUME LoopInv, before = Nil, before' = before, loop' = loop,
           \A h \in Handles : call'[h] # "retrying"
    PROVE  /\ SeesState /\ SeesState'
           /\ loop = Nil /\ \A h \in Handles : call[h] # "retrying"
           /\ LoopIdle' /\ LoopUnderway'
<1>1. SeesState /\ SeesState'
  BY FreeSees, FreeSeesNext
<1>2. loop = Nil /\ \A h \in Handles : call[h] # "retrying"
  BY DEF LoopInv, LoopIdle
<1>3. LoopIdle' /\ LoopUnderway'
  BY <1>2 DEF LoopIdle, LoopUnderway
<1> QED
  BY <1>1, <1>2, <1>3

(* A handle queues up.                                                     *)
LEMMA ParkKeeps ==
    ASSUME Loop!NilIsNothing, LoopInv, NEW h \in Handles, NEW n \in Amounts,
           Loop!Park(h, n)
    PROVE  /\ LoopInv' /\ SeesState
           /\ Loop!Atomic!Park(h, n)
<1>a. LoopTyped /\ LoopNodes /\ LoopIdle
  BY DEF LoopInv
<1>1. /\ before = Nil /\ before' = before /\ loop' = loop
      /\ call[h] = "idle"
      /\ queue' = Append(queue, h) /\ ~Holds(queue, h)
      /\ input' = [input EXCEPT ![h] = n]
      /\ call' = [call EXCEPT ![h] = "waiting"]
      /\ want' = [want EXCEPT ![h] = n]
      /\ output[h] = Nil
      /\ UNCHANGED <<permits, total, output, promoted>>
  BY DEF Loop!Park, Loop!Goes, Loop!Free, Loop!List!Wait, Loop!List!Queued, Holds
<1>2. n \in 0..MaxUsize
  BY AmountsAreUsize
<1>3. /\ queue' \in Seq(Handles) /\ NoTwice(queue')
      /\ \A e : Holds(queue', e) <=> Holds(queue, e) \/ e = h
  BY <1>a, <1>1, AppendHolds DEF LoopTyped
<1>4. MovesTo(h, "parked") /\ Loop!Phase[h] = "idle"
  BY <1>a, <1>1, PhaseMoves, PhaseTells DEF LoopTyped
<1>5. LoopTyped'
  BY <1>a, <1>1, <1>2, <1>3 DEF LoopTyped, Loop!Calls
<1>6. LoopNodes'
  BY <1>a, <1>1, <1>3 DEF LoopNodes, LoopTyped
<1>7. \A d \in Handles : call'[d] # "retrying"
  BY <1>a, <1>1 DEF LoopIdle, LoopTyped
<1>8. SeesState /\ SeesState' /\ LoopIdle' /\ LoopUnderway'
  BY <1>1, <1>7, WholeStep
<1>9. Loop!Atomic!Park(h, n)
  BY <1>1, <1>4, <1>8 DEF SeesState, MovesTo, Loop!Atomic!Park, Loop!Atomic!Become
<1> QED
  BY <1>5, <1>6, <1>8, <1>9 DEF LoopInv

LEMMA CallKeeps ==
    ASSUME Loop!NilIsNothing, LoopInv, NEW h \in Handles, Loop!Call(h)
    PROVE  StepKeeps
<1>1. PICK n \in Amounts : \/ Loop!TryAcquire(h, n) \/ Loop!TryAcquireUnfair(h, n)
                           \/ Loop!Acquire(h, n) \/ Loop!AcquireUnfair(h, n)
  BY DEF Loop!Call
<1>2. \/ Loop!TryAcquireUnfair(h, n)
      \/ (queue # << >> \/ n > permits) /\ Loop!Park(h, n)
  BY <1>1 DEF Loop!TryAcquire, Loop!Acquire, Loop!AcquireUnfair
<1>3. CASE Loop!TryAcquireUnfair(h, n)
  BY <1>3, TakeKeeps
<1>4. CASE (queue # << >> \/ n > permits) /\ Loop!Park(h, n)
  <2>1. LoopInv' /\ SeesState /\ Loop!Atomic!Park(h, n)
    BY <1>4, ParkKeeps
  <2>2. Loop!Atomic!Acquire(h, n)
    BY <1>4, <2>1 DEF Loop!Atomic!Acquire, SeesState
  <2>3. Loop!Atomic!Next
    BY <2>2 DEF Loop!Atomic!Next, Loop!Atomic!Call
  <2> QED
    BY <2>1, <2>3 DEF StepKeeps
<1> QED
  BY <1>2, <1>3, <1>4

(* A woken future takes its permits, or a grant becomes a permit.          *)
LEMMA ResumeTells ==
    ASSUME Loop!NilIsNothing, LoopInv, NEW h \in Handles, NEW o \in Loop!WakeUps,
           NEW c \in {"permit", "retrying", "idle"}, Loop!Resumes(h, o, c)
    PROVE  /\ before = Nil /\ loop = Nil /\ call[h] = "waiting" /\ output[h] = o
           /\ o \in {Loop!Token, Loop!Grant(want[h])}
           /\ Loop!Phase[h] = IF o = Loop!Token THEN "woken" ELSE "granted"
           /\ MovesTo(h, c)
           /\ call' = [call EXCEPT ![h] = c]
           /\ output' = [output EXCEPT ![h] = Nil]
           /\ want' = IF c = "idle" THEN [want EXCEPT ![h] = 0] ELSE want
           /\ UNCHANGED <<queue, input>>
           /\ ~Holds(queue, h)
           /\ LoopNodes'
<1>a. LoopTyped /\ LoopNodes /\ LoopIdle
  BY DEF LoopInv
<1>1. /\ before = Nil /\ loop = Nil /\ call[h] = "waiting" /\ output[h] = o
      /\ call' = [call EXCEPT ![h] = c]
      /\ output' = [output EXCEPT ![h] = Nil]
      /\ want' = IF c = "idle" THEN [want EXCEPT ![h] = 0] ELSE want
      /\ UNCHANGED <<queue, input>>
  <2>1. [want EXCEPT ![h] = want[h]] = want
    BY <1>a DEF LoopTyped
  <2> QED
    BY <1>a, <2>1 DEF Loop!Resumes, Loop!Goes, Loop!Free, Loop!List!Resume, LoopIdle
<1>2. o # Nil
  BY DEF Loop!NilIsNothing
<1>3. o \in {Loop!Token, Loop!Grant(want[h])} /\ ~Holds(queue, h)
  BY <1>a, <1>1, <1>2 DEF LoopNodes
<1>4. want[h] \in 0..MaxUsize
  BY <1>a DEF LoopTyped
<1>5. Loop!Phase[h] = IF o = Loop!Token THEN "woken" ELSE "granted"
  BY <1>1, <1>2, <1>3, <1>4, PhaseTells, TokenTells
<1>6. MovesTo(h, c)
  BY <1>a, <1>1, PhaseMoves DEF LoopTyped
<1>7. LoopNodes'
  <2> SUFFICES ASSUME NEW d \in Handles
               PROVE  /\ Holds(queue, d) => /\ call'[d] = "waiting" /\ output'[d] = Nil
                                            /\ input[d] = want'[d]
                      /\ output'[d] # Nil =>
                            /\ call'[d] = "waiting"
                            /\ output'[d] \in {Loop!Token, Loop!Grant(want'[d])}
    BY <1>1 DEF LoopNodes, Loop!Token, Loop!Grant
  <2>1. CASE d = h
    BY <1>a, <1>1, <1>3, <2>1 DEF LoopTyped
  <2>2. CASE d # h
    BY <1>a, <1>1, <2>2 DEF LoopTyped, LoopNodes
  <2> QED
    BY <2>1, <2>2
<1> QED
  BY <1>1, <1>3, <1>5, <1>6, <1>7

LEMMA PollWokenTakesKeeps ==
    ASSUME Loop!NilIsNothing, LoopInv, NEW h \in Handles, Loop!PollWokenTakes(h)
    PROVE  StepKeeps
<1>a. LoopTyped
  BY DEF LoopInv
<1>1. /\ Loop!Resumes(h, Loop!Token, "permit")
      /\ want[h] <= permits /\ permits' = permits - want[h]
      /\ UNCHANGED <<total, loop, before, promoted>>
  BY DEF Loop!PollWokenTakes
<1>2. /\ before = Nil /\ MovesTo(h, "permit") /\ Loop!Phase[h] = "woken"
      /\ call' = [call EXCEPT ![h] = "permit"]
      /\ output' = [output EXCEPT ![h] = Nil] /\ want' = want
      /\ UNCHANGED <<queue, input>>
      /\ LoopNodes'
  BY <1>1, ResumeTells, TokenTells
<1>3. LoopTyped'
  BY <1>a, <1>1, <1>2, MaxUsizeIsNat DEF LoopTyped, Loop!Calls
<1>4. \A d \in Handles : call'[d] # "retrying"
  BY <1>a, <1>2 DEF LoopInv, LoopIdle, LoopTyped
<1>5. SeesState /\ SeesState' /\ LoopIdle' /\ LoopUnderway'
  BY <1>1, <1>2, <1>4, WholeStep
<1>6. Loop!Atomic!PollWokenTakes(h)
  BY <1>1, <1>2, <1>5
     DEF SeesState, MovesTo, Loop!Atomic!PollWokenTakes, Loop!Atomic!Become
<1>7. Loop!Atomic!Next
  BY <1>6 DEF Loop!Atomic!Next, Loop!Atomic!Poll
<1> QED
  BY <1>2, <1>3, <1>5, <1>7 DEF LoopInv, StepKeeps

LEMMA PollGrantedKeeps ==
    ASSUME Loop!NilIsNothing, LoopInv, NEW h \in Handles, Loop!PollGranted(h)
    PROVE  StepKeeps
<1>a. LoopTyped
  BY DEF LoopInv
<1>1. PICK n \in 0..MaxUsize : Loop!Resumes(h, Loop!Grant(n), "permit")
  BY DEF Loop!PollGranted
<1>2. UNCHANGED <<permits, total, loop, before, promoted>>
  BY DEF Loop!PollGranted
<1>3. /\ before = Nil /\ MovesTo(h, "permit") /\ Loop!Phase[h] = "granted"
      /\ call' = [call EXCEPT ![h] = "permit"]
      /\ output' = [output EXCEPT ![h] = Nil] /\ want' = want
      /\ UNCHANGED <<queue, input>>
      /\ LoopNodes'
  BY <1>1, ResumeTells, TokenTells
<1>4. LoopTyped'
  BY <1>a, <1>2, <1>3 DEF LoopTyped, Loop!Calls
<1>5. \A d \in Handles : call'[d] # "retrying"
  BY <1>a, <1>3 DEF LoopInv, LoopIdle, LoopTyped
<1>6. SeesState /\ SeesState' /\ LoopIdle' /\ LoopUnderway'
  BY <1>2, <1>3, <1>5, WholeStep
<1>7. Loop!Atomic!PollGranted(h)
  BY <1>2, <1>3, <1>6
     DEF SeesState, MovesTo, Loop!Atomic!PollGranted, Loop!Atomic!Become
<1>8. Loop!Atomic!Next
  BY <1>7 DEF Loop!Atomic!Next, Loop!Atomic!Poll
<1> QED
  BY <1>3, <1>4, <1>6, <1>8 DEF LoopInv, StepKeeps

LEMMA LeakKeeps ==
    ASSUME Loop!NilIsNothing, LoopInv, NEW h \in Handles, Loop!Leak(h)
    PROVE  StepKeeps
<1>a. LoopTyped /\ LoopNodes /\ LoopIdle
  BY DEF LoopInv
<1>1. /\ before = Nil /\ before' = before /\ loop' = loop /\ call[h] = "permit"
      /\ total' = Minus(total, want[h])
      /\ call' = [call EXCEPT ![h] = "idle"]
      /\ want' = [want EXCEPT ![h] = 0]
      /\ UNCHANGED <<permits, queue, input, output, promoted>>
  BY LoopArithmetic DEF Loop!Leak, Loop!Goes, Loop!Free, Loop!list
<1>2. Minus(total, want[h]) \in 0..MaxUsize
  BY <1>a, ArithmeticType DEF LoopTyped
<1>3. MovesTo(h, "idle") /\ Loop!Phase[h] = "permit"
  BY <1>a, <1>1, PhaseMoves, PhaseTells DEF LoopTyped
<1>4. LoopTyped'
  BY <1>a, <1>1, <1>2, MaxUsizeIsNat DEF LoopTyped, Loop!Calls
<1>5. LoopNodes'
  BY <1>a, <1>1 DEF LoopNodes, LoopTyped
<1>6. \A d \in Handles : call'[d] # "retrying"
  BY <1>a, <1>1 DEF LoopIdle, LoopTyped
<1>7. SeesState /\ SeesState' /\ LoopIdle' /\ LoopUnderway'
  BY <1>1, <1>6, WholeStep
<1>8. Loop!Atomic!Leak(h)
  BY <1>1, <1>3, <1>7, LoopArithmetic
     DEF SeesState, MovesTo, Loop!Atomic!Leak, Loop!Atomic!Become
<1>9. Loop!Atomic!Next
  BY <1>8 DEF Loop!Atomic!Next, Loop!Atomic!Drop
<1> QED
  BY <1>4, <1>5, <1>7, <1>9 DEF LoopInv, StepKeeps

LEMMA CancelParkedKeeps ==
    ASSUME Loop!NilIsNothing, LoopInv, NEW h \in Handles, Loop!CancelParked(h)
    PROVE  StepKeeps
<1>a. LoopTyped /\ LoopNodes /\ LoopIdle
  BY DEF LoopInv
<1>1. PICK i \in 1..Len(queue) : /\ queue[i] = h
                                 /\ queue' = Without(queue, i)
                                 /\ input' = [input EXCEPT ![h] = Nil]
                                 /\ UNCHANGED output
  BY DEF Loop!CancelParked, Loop!List!CancelQueued, Without
<1>2. /\ before = Nil /\ before' = before /\ loop' = loop
      /\ call' = [call EXCEPT ![h] = "idle"]
      /\ want' = [want EXCEPT ![h] = 0]
      /\ promoted' = (queue' # << >> /\ (promoted \/ Head(queue) = h))
      /\ UNCHANGED <<permits, total>>
  BY DEF Loop!CancelParked, Loop!Goes, Loop!Free
<1>3. /\ queue' \in Seq(Handles) /\ NoTwice(queue')
      /\ \A e : Holds(queue', e) <=> Holds(queue, e) /\ e # h
  BY <1>a, <1>1, WithoutElements, WithoutHolds DEF LoopTyped
<1>4. Holds(queue, h) /\ call[h] = "waiting" /\ output[h] = Nil
  BY <1>a, <1>1 DEF LoopNodes, Holds
<1>5. Head(queue) = h <=> i = 1
  <2>1. Len(queue) \in Nat /\ 1 \in 1..Len(queue)
    BY <1>a, <1>1, LenProperties DEF LoopTyped
  <2>2. Head(queue) = queue[1]
    BY <1>a, <2>1, HeadTailProperties DEF LoopTyped
  <2> QED
    BY <1>a, <1>1, <2>1, <2>2 DEF LoopTyped, NoTwice
<1>6. MovesTo(h, "idle")
  BY <1>a, <1>1, <1>2, PhaseMoves DEF LoopTyped
<1>7. LoopTyped'
  BY <1>a, <1>1, <1>2, <1>3, MaxUsizeIsNat DEF LoopTyped, Loop!Calls
<1>8. LoopNodes'
  BY <1>a, <1>1, <1>2, <1>3, <1>4 DEF LoopNodes, LoopTyped
<1>9. \A d \in Handles : call'[d] # "retrying"
  BY <1>a, <1>2 DEF LoopIdle, LoopTyped
<1>10. SeesState /\ SeesState' /\ LoopIdle' /\ LoopUnderway'
  BY <1>2, <1>9, WholeStep
<1>11. Loop!Atomic!CancelParked(h)
  <2>1. /\ queue[i] = h
        /\ queue' = SubSeq(queue, 1, i - 1) \o SubSeq(queue, i + 1, Len(queue))
        /\ Loop!Phase' = [Loop!Phase EXCEPT ![h] = "idle"]
        /\ want' = [want EXCEPT ![h] = 0]
        /\ promoted' = (queue' # << >> /\ (promoted \/ i = 1))
        /\ UNCHANGED <<permits, total>>
    BY <1>1, <1>2, <1>5, <1>6 DEF Without, MovesTo
  <2> QED
    BY <2>1, <1>10 DEF SeesState, Loop!Atomic!CancelParked, Loop!Atomic!Become
<1>12. Loop!Atomic!Next
  BY <1>11 DEF Loop!Atomic!Next, Loop!Atomic!Drop
<1> QED
  BY <1>7, <1>8, <1>10, <1>12 DEF LoopInv, StepKeeps

LEMMA FrontOfType ==
    ASSUME NEW q \in Seq(Handles), NEW k \in 0..Len(q)
    PROVE  /\ FrontOf(q, k) \in SUBSET Handles
           /\ k = 0 => FrontOf(q, k) = {}
           /\ k < Len(q) => /\ q[k + 1] \in Handles
                            /\ FrontOf(q, k + 1) = FrontOf(q, k) \cup {q[k + 1]}
<1>1. Len(q) \in Nat /\ \A i \in 1..Len(q) : q[i] \in Handles
  BY LenProperties, ElementOfSeq
<1> QED
  BY <1>1 DEF FrontOf

HasBegun ==
    /\ UNCHANGED Loop!Atomic!vars
    /\ permits' \in 0..MaxUsize /\ promoted' = promoted
    /\ loop' \in Loop!Locals /\ before' \in Loop!Views
    /\ LoopIdle' /\ LoopUnderway'

(* An operation begins with a release, of which `Semaphore` sees nothing   *)
(* yet.                                                                    *)
LEMMA Begins ==
    ASSUME Loop!NilIsNothing, LoopInv,
           NEW returned \in 0..MaxUsize, NEW fairness \in {"fair", "unfair"},
           NEW from \in [Handles -> Phases \cup {"retrying"}],
           Loop!Release(returned, fairness),
           queue' = queue,
           Loop!Phase' = from,
           \A h \in Handles : Holds(queue, h) => from[h] = "parked",
           Began(returned, fairness, from)'
    PROVE  HasBegun
<1>a. LoopTyped /\ LoopNodes /\ LoopIdle
  BY DEF LoopInv
<1>1. /\ before = Nil /\ before' = Loop!View
      /\ permits' = Plus(permits, returned) /\ promoted' = promoted
      /\ loop' = [left |-> permits', fairness |-> fairness, woke |-> FALSE]
  BY LoopArithmetic DEF Loop!Release, Loop!Free
<1>2. Loop!Phase \in [Handles -> Phases]
  BY <1>a, <1>1, PhaseType DEF LoopIdle
<1>3. Loop!View \in Loop!Views /\ Loop!View # Nil
  <2>1. Loop!View \in Loop!Views
    <3>1. /\ permits \in 0..MaxUsize /\ total \in 0..MaxUsize
          /\ queue \in Seq(Handles) /\ want \in [Handles -> 0..MaxUsize]
          /\ promoted \in BOOLEAN
      BY <1>a DEF LoopTyped
    <3> QED
      BY <1>2, <3>1 DEF Loop!View, Loop!Views, Phases
  <2> QED
    BY <2>1 DEF Loop!NilIsNothing
<1>4. permits' \in 0..MaxUsize
  BY <1>a, <1>1, ArithmeticType DEF LoopTyped
<1>5. loop' \in Loop!Locals /\ loop' # Nil
  <2>1. loop' \in Loop!Locals
    BY <1>1, <1>4 DEF Loop!Locals
  <2> QED
    BY <2>1 DEF Loop!NilIsNothing
<1>6. Underway(0, returned, fairness, from)'
  <2>1. /\ before'.permits = permits /\ before'.queue = queue
        /\ before'.amount = want
    BY <1>1 DEF Loop!View
  <2>2. /\ FrontOf(queue, 0) = {} /\ AmountOf(want, FrontOf(queue, 0)) = 0
        /\ SubSeq(queue, 0 + 1, Len(queue)) = queue
        /\ Len(queue) \in Nat
        /\ \A i \in 1..Len(queue) : queue[i] \in Handles
    <3>1. queue \in Seq(Handles) /\ want \in Requests
      BY <1>a DEF LoopTyped, Requests
    <3>2. Len(queue) \in Nat /\ \A i \in 1..Len(queue) : queue[i] \in Handles
      BY <3>1, LenProperties, ElementOfSeq
    <3>3. FrontOf(queue, 0) = {}
      BY <3>2 DEF FrontOf
    <3>4. SubSeq(queue, 0 + 1, Len(queue)) = queue
      BY <3>1, SubSeqFull
    <3> QED
      BY <3>1, <3>2, <3>3, <3>4, AmountEmpty
  <2>3. \A i \in 1..Len(queue) : from[queue[i]] = "parked"
    BY <2>2 DEF Holds
  <2>4. Passed(0, returned, fairness, from)'
    <3>1. /\ SubSeq(before'.queue, 0 + 1, Len(before'.queue)) = queue'
          /\ FrontOf(before'.queue, 0) = {}
          /\ AmountOf(before'.amount, FrontOf(before'.queue, 0)) = 0
          /\ \A i \in 1..Len(before'.queue) : from[before'.queue[i]] = "parked"
      BY <2>1, <2>2, <2>3
    <3>2. Plus(permits, returned) \in Nat /\ Plus(before'.permits, returned) = permits'
      BY <1>1, <1>4, <2>1
    <3>3. Loop!Phase' = [h \in Handles |->
                           IF h \notin FrontOf(before'.queue, 0) THEN from[h]
                           ELSE IF fairness = "fair" THEN "granted" ELSE "woken"]
      BY <3>1
    <3> QED
      BY <1>4, <3>1, <3>2, <3>3 DEF Passed
  <2>5. GoesOn(0, returned, fairness)'
    BY <1>1, <1>4, <2>1, <2>2 DEF GoesOn
  <2> QED
    BY <1>5, <2>4, <2>5 DEF Underway
<1>7. LoopUnderway'
  <2>1. NoTwice(before'.queue) /\ 0 \in 0..Len(before'.queue)
    <3>1. before'.queue = queue
      BY <1>1 DEF Loop!View
    <3> QED
      BY <1>a, <3>1, LenProperties DEF LoopTyped
  <2> QED
    BY <1>6, <2>1 DEF LoopUnderway
<1>8. LoopIdle'
  BY <1>1, <1>3 DEF LoopIdle
<1>9. Loop!Seen' = Loop!Seen
  BY <1>1, <1>3 DEF Loop!Seen, Loop!Free
<1>10. UNCHANGED Loop!Atomic!vars
  BY <1>9 DEF Loop!Atomic!vars
<1> QED
  BY <1>1, <1>3, <1>4, <1>5, <1>7, <1>8, <1>10 DEF HasBegun

(* The phases an operation begins with.                                    *)
LEMMA BeganFrom ==
    ASSUME LoopInv, before = Nil, NEW h \in Handles, NEW p \in {"idle", "retrying"},
           MovesTo(h, p), ~Holds(queue, h)
    PROVE  /\ Loop!Phase' \in [Handles -> Phases \cup {"retrying"}]
           /\ \A d \in Handles : Holds(queue, d) => Loop!Phase'[d] = "parked"
<1>a. LoopTyped /\ LoopNodes
  BY DEF LoopInv
<1>1. Loop!Phase \in [Handles -> Phases \cup {"retrying"}]
  BY <1>a, PhaseType
<1>2. \A d \in Handles : Holds(queue, d) => Loop!Phase[d] = "parked"
  BY <1>a, PhaseTells DEF LoopNodes
<1> QED
  BY <1>1, <1>2 DEF MovesTo, Phases

(* A permit, a token or a grant is given back.                             *)
LEMMA GivingBack ==
    ASSUME Loop!NilIsNothing, LoopInv, NEW h \in Handles,
           NEW returned \in 0..MaxUsize, NEW fairness \in {"fair", "unfair"},
           Loop!Release(returned, fairness),
           MovesTo(h, "idle"), ~Holds(queue, h),
           \/ Loop!Phase[h] = "permit" /\ returned = want[h]
           \/ Loop!Phase[h] = "woken" /\ returned = 0 /\ fairness = "unfair"
           \/ Loop!Phase[h] = "granted" /\ returned = want[h] /\ fairness = "unfair",
           call' = [call EXCEPT ![h] = "idle"],
           want' = [want EXCEPT ![h] = 0],
           output' \in [Handles -> Loop!WakeUps \cup {Nil}],
           UNCHANGED <<queue, input, total>>,
           LoopNodes'
    PROVE  StepKeeps
<1>a. LoopTyped
  BY DEF LoopInv
<1>1. before = Nil /\ before' = Loop!View
  BY DEF Loop!Release, Loop!Free
<1>2. PICK from \in [Handles -> Phases \cup {"retrying"}] :
         /\ Loop!Phase' = from
         /\ from = [Loop!Phase EXCEPT ![h] = "idle"]
         /\ \A d \in Handles : Holds(queue, d) => from[d] = "parked"
  BY <1>1, BeganFrom DEF MovesTo
<1>3. Began(returned, fairness, from)'
  <2>1. /\ before'.phase = Loop!Phase /\ before'.amount = want
        /\ before'.total = total
    BY <1>1 DEF Loop!View
  <2>2. GivesBack(h, returned, fairness, from)'
    BY <1>2, <2>1 DEF GivesBack
  <2> QED
    BY <2>2 DEF Began
<1>4. HasBegun
  BY <1>2, <1>3, Begins
<1>5. LoopTyped'
  BY <1>a, <1>4, MaxUsizeIsNat DEF LoopTyped, Loop!Calls, HasBegun
<1> QED
  BY <1>4, <1>5 DEF LoopInv, StepKeeps, HasBegun

LEMMA GiveBackKeeps ==
    ASSUME Loop!NilIsNothing, LoopInv, NEW h \in Handles,
           NEW fairness \in {"fair", "unfair"}, Loop!GiveBack(h, fairness)
    PROVE  StepKeeps
<1>a. LoopTyped /\ LoopNodes
  BY DEF LoopInv
<1>1. /\ call[h] = "permit" /\ Loop!Release(want[h], fairness)
      /\ call' = [call EXCEPT ![h] = "idle"]
      /\ want' = [want EXCEPT ![h] = 0]
      /\ UNCHANGED <<queue, input, output, total>>
  BY DEF Loop!GiveBack, Loop!Goes, Loop!list
<1>2. MovesTo(h, "idle") /\ Loop!Phase[h] = "permit"
  BY <1>a, <1>1, PhaseMoves, PhaseTells DEF LoopTyped
<1>3. LoopNodes' /\ ~Holds(queue, h)
  BY <1>a, <1>1 DEF LoopNodes, LoopTyped
<1>4. want[h] \in 0..MaxUsize /\ output' \in [Handles -> Loop!WakeUps \cup {Nil}]
  BY <1>a, <1>1 DEF LoopTyped
<1> QED
  BY <1>1, <1>2, <1>3, <1>4, GivingBack

LEMMA CancelWokenKeeps ==
    ASSUME Loop!NilIsNothing, LoopInv, NEW h \in Handles, Loop!CancelWoken(h)
    PROVE  StepKeeps
<1>1. /\ Loop!Resumes(h, Loop!Token, "idle") /\ Loop!Release(0, "unfair")
      /\ UNCHANGED total
  BY DEF Loop!CancelWoken
<1>2. /\ MovesTo(h, "idle") /\ Loop!Phase[h] = "woken"
      /\ call' = [call EXCEPT ![h] = "idle"]
      /\ output' = [output EXCEPT ![h] = Nil]
      /\ want' = [want EXCEPT ![h] = 0]
      /\ UNCHANGED <<queue, input>>
      /\ ~Holds(queue, h) /\ LoopNodes'
  BY <1>1, ResumeTells, TokenTells
<1>3. 0 \in 0..MaxUsize /\ output' \in [Handles -> Loop!WakeUps \cup {Nil}]
  BY <1>2, MaxUsizeIsNat DEF LoopInv, LoopTyped
<1> QED
  BY <1>1, <1>2, <1>3, GivingBack

LEMMA CancelGrantedKeeps ==
    ASSUME Loop!NilIsNothing, LoopInv, NEW h \in Handles, Loop!CancelGranted(h)
    PROVE  StepKeeps
<1>1. PICK n \in 0..MaxUsize : /\ Loop!Resumes(h, Loop!Grant(n), "idle")
                               /\ Loop!Release(n, "unfair")
  BY DEF Loop!CancelGranted
<1>2. UNCHANGED total
  BY DEF Loop!CancelGranted
<1>3. /\ MovesTo(h, "idle") /\ Loop!Phase[h] = "granted"
      /\ Loop!Grant(n) = Loop!Grant(want[h])
      /\ call' = [call EXCEPT ![h] = "idle"]
      /\ output' = [output EXCEPT ![h] = Nil]
      /\ want' = [want EXCEPT ![h] = 0]
      /\ UNCHANGED <<queue, input>>
      /\ ~Holds(queue, h) /\ LoopNodes'
  BY <1>1, ResumeTells, TokenTells
<1>4. n = want[h]
  <2>1. want[h] \in 0..MaxUsize
    BY DEF LoopInv, LoopTyped
  <2> QED
    BY <1>3, <2>1, TokenTells
<1>5. output' \in [Handles -> Loop!WakeUps \cup {Nil}]
  BY <1>3 DEF LoopInv, LoopTyped
<1> QED
  BY <1>1, <1>2, <1>3, <1>4, <1>5, GivingBack

(* A poll that fails drops its token.                                      *)
LEMMA PollWokenLosesKeeps ==
    ASSUME Loop!NilIsNothing, LoopInv, NEW h \in Handles, Loop!PollWokenLoses(h)
    PROVE  StepKeeps
<1>a. LoopTyped
  BY DEF LoopInv
<1>1. /\ Loop!Resumes(h, Loop!Token, "retrying") /\ Loop!Release(0, "unfair")
      /\ want[h] > permits
      /\ UNCHANGED total
  BY DEF Loop!PollWokenLoses
<1>2. /\ before = Nil /\ before' = Loop!View
      /\ MovesTo(h, "retrying") /\ Loop!Phase[h] = "woken"
      /\ call' = [call EXCEPT ![h] = "retrying"]
      /\ output' = [output EXCEPT ![h] = Nil]
      /\ want' = want
      /\ UNCHANGED <<queue, input>>
      /\ ~Holds(queue, h) /\ LoopNodes'
  BY <1>1, ResumeTells, TokenTells DEF Loop!Release
<1>3. PICK from \in [Handles -> Phases \cup {"retrying"}] :
         /\ Loop!Phase' = from
         /\ from = [Loop!Phase EXCEPT ![h] = "retrying"]
         /\ \A d \in Handles : Holds(queue, d) => from[d] = "parked"
  BY <1>2, BeganFrom DEF MovesTo
<1>4. Began(0, "unfair", from)'
  <2>1. /\ before'.phase = Loop!Phase /\ before'.amount = want
        /\ before'.total = total /\ before'.permits = permits
    BY <1>2 DEF Loop!View
  <2>2. Retries(h, 0, "unfair", from)'
    BY <1>1, <1>2, <1>3, <2>1 DEF Retries
  <2> QED
    BY <2>2 DEF Began
<1>5. 0 \in 0..MaxUsize
  BY MaxUsizeIsNat
<1>6. HasBegun
  BY <1>1, <1>2, <1>3, <1>4, <1>5, Begins
<1>7. LoopTyped'
  BY <1>a, <1>1, <1>2, <1>6 DEF LoopTyped, Loop!Calls, HasBegun
<1> QED
  BY <1>2, <1>6, <1>7 DEF LoopInv, StepKeeps, HasBegun

LEMMA AddPermitsKeeps ==
    ASSUME Loop!NilIsNothing, LoopInv, NEW n \in Amounts,
           NEW fairness \in {"fair", "unfair"}, Loop!AddPermits(n, fairness)
    PROVE  StepKeeps
<1>a. LoopTyped /\ LoopNodes
  BY DEF LoopInv
<1>1. /\ total + n <= MaxUsize /\ total' = total + n
      /\ Loop!Release(n, fairness)
      /\ before = Nil /\ before' = Loop!View
      /\ UNCHANGED <<queue, input, output, call, want>>
  BY DEF Loop!AddPermits, Loop!Release, Loop!Free, Loop!list
<1>2. n \in 0..MaxUsize
  BY AmountsAreUsize
<1>3. PICK from \in [Handles -> Phases \cup {"retrying"}] :
         /\ Loop!Phase' = from
         /\ from = Loop!Phase
         /\ \A d \in Handles : Holds(queue, d) => from[d] = "parked"
  <2>1. Loop!Phase' = Loop!Phase
    BY <1>1 DEF Loop!Phase
  <2> QED
    BY <1>a, <2>1, PhaseType, PhaseTells DEF LoopNodes
<1>4. Began(n, fairness, from)'
  <2>1. /\ before'.phase = Loop!Phase /\ before'.amount = want
        /\ before'.total = total
    BY <1>1 DEF Loop!View
  <2>2. Adds(n, n, from)'
    BY <1>1, <1>3, <2>1 DEF Adds
  <2> QED
    BY <2>2 DEF Began
<1>5. HasBegun
  BY <1>1, <1>2, <1>3, <1>4, Begins
<1>6. LoopTyped'
  BY <1>a, <1>1, <1>2, <1>5, MaxUsizeIsNat DEF LoopTyped, HasBegun
<1>7. LoopNodes'
  BY <1>a, <1>1 DEF LoopNodes, Loop!Token, Loop!Grant
<1> QED
  BY <1>5, <1>6, <1>7 DEF LoopInv, StepKeeps, HasBegun

(* A handle that is still parked asks for what it asked for when the       *)
(* operation began.                                                        *)
LEMMA ParkedAsksAsBefore ==
    ASSUME NEW returned, NEW fairness, NEW from,
           before.phase \in [Handles -> Phases], before.amount \in Requests,
           Began(returned, fairness, from),
           NEW h \in Handles, from[h] = "parked"
    PROVE  want[h] = before.amount[h]
<1>1. CASE \E d \in Handles : GivesBack(d, returned, fairness, from)
  BY <1>1 DEF GivesBack, Requests
<1>2. CASE \E d \in Handles : Retries(d, returned, fairness, from)
  BY <1>2 DEF Retries
<1>3. CASE \E n \in Amounts : Adds(n, returned, from)
  BY <1>3 DEF Adds
<1> QED
  BY <1>1, <1>2, <1>3 DEF Began

(* The state an operation began in.                                        *)
LEMMA BeforeTyped ==
    ASSUME LoopTyped, before # Nil
    PROVE  /\ before \in Loop!Views
           /\ before.permits \in 0..MaxUsize /\ before.total \in 0..MaxUsize
           /\ before.queue \in Seq(Handles) /\ before.phase \in [Handles -> Phases]
           /\ before.amount \in Requests
<1>1. before \in Loop!Views
  BY DEF LoopTyped
<1> QED
  BY <1>1 DEF Loop!Views, Phases, Requests

(* Where the loop stands when it has passed k: who is next in the queue,   *)
(* and what the next round adds up to.                                     *)
InLine(q, f, k) ==
    /\ SubSeq(q, k + 1, Len(q)) # << >> <=> k < Len(q)
    /\ k < Len(q) =>
          /\ Head(SubSeq(q, k + 1, Len(q))) = q[k + 1]
          /\ Tail(SubSeq(q, k + 1, Len(q))) = SubSeq(q, k + 2, Len(q))
          /\ q[k + 1] \in Handles
          /\ q[k + 1] \notin FrontOf(q, k)
          /\ FrontOf(q, k + 1) = FrontOf(q, k) \cup {q[k + 1]}
          /\ AmountOf(f, FrontOf(q, k + 1)) = AmountOf(f, FrontOf(q, k)) + f[q[k + 1]]
    /\ FrontOf(q, k) \in SUBSET Handles
    /\ AmountOf(f, FrontOf(q, k)) \in Nat

LEMMA NextInLine ==
    ASSUME NEW q \in Seq(Handles), NoTwice(q), NEW f \in Requests, NEW k \in 0..Len(q)
    PROVE  InLine(q, f, k)
<1>1. Len(q) \in Nat /\ k \in Nat /\ \A i \in 1..Len(q) : q[i] \in Handles
  BY LenProperties, ElementOfSeq
<1>2. FrontOf(q, k) \in SUBSET Handles
  BY FrontOfType
<1>3. AmountOf(f, FrontOf(q, k)) \in Nat
  BY <1>2, AmountType
<1>4. CASE k = Len(q)
  <2>1. SubSeq(q, k + 1, Len(q)) = << >>
    BY <1>1, <1>4, SubSeqEmpty
  <2> QED
    BY <1>1, <1>2, <1>3, <1>4, <2>1 DEF InLine
<1>5. CASE k < Len(q)
  <2>1. k + 1 \in 1..Len(q) /\ Len(q) \in (k + 1)..Len(q) /\ (k + 1) + 1 = k + 2
    BY <1>1, <1>5
  <2>2. /\ Head(SubSeq(q, k + 1, Len(q))) = q[k + 1]
        /\ Tail(SubSeq(q, k + 1, Len(q))) = SubSeq(q, k + 2, Len(q))
    BY <2>1, HeadTailOfSubSeq
  <2>3. SubSeq(q, k + 1, Len(q)) # << >>
    <3>1. \A i \in (k + 1)..Len(q) : q[i] \in Handles
      BY <1>1
    <3>2. Len(SubSeq(q, k + 1, Len(q))) = Len(q) - (k + 1) + 1
      BY <1>1, <2>1, <3>1, SubSeqProperties
    <3>3. Len(q) - (k + 1) + 1 # 0
      BY <1>1, <1>5
    <3>4. Len(<< >>) = 0
      OBVIOUS
    <3> QED
      BY <3>2, <3>3, <3>4, Zenon
  <2>4. q[k + 1] \in Handles /\ FrontOf(q, k + 1) = FrontOf(q, k) \cup {q[k + 1]}
    BY <1>1, <1>5, FrontOfType
  <2>5. q[k + 1] \notin FrontOf(q, k)
    BY <1>1, <2>1 DEF FrontOf, NoTwice
  <2>6. AmountOf(f, FrontOf(q, k + 1)) = AmountOf(f, FrontOf(q, k)) + f[q[k + 1]]
    BY <1>2, <2>4, <2>5, AmountAdd
  <2> QED
    BY <1>2, <1>3, <1>5, <2>2, <2>3, <2>4, <2>5, <2>6 DEF InLine
<1> QED
  BY <1>1, <1>4, <1>5

(* The operation began with `q` queued for `f`, and `k` of them are passed. *)
Reached(q, f, k, from) ==
    /\ q = before.queue /\ f = before.amount
    /\ NoTwice(q) /\ \A i \in 1..Len(q) : from[q[i]] = "parked"
    /\ queue = SubSeq(q, k + 1, Len(q))

(* The head of what is left of the queue asks for what it asked for when   *)
(* the operation began.                                                    *)
HeadAsksFor(q, f, k, h) ==
    /\ InLine(q, f, k) /\ k < Len(q) /\ h = q[k + 1]
    /\ Holds(queue, h) /\ call[h] = "waiting" /\ output[h] = Nil
    /\ input[h] = f[h] /\ want[h] = f[h] /\ f[h] \in 0..MaxUsize

LEMMA HeadAsks ==
    ASSUME LoopTyped, LoopNodes, before # Nil, queue # << >>,
           NEW q \in Seq(Handles), NEW f \in Requests, NEW k \in 0..Len(q),
           NEW returned, NEW fairness, NEW from,
           Reached(q, f, k, from), Began(returned, fairness, from),
           NEW h \in Handles, h = Head(queue)
    PROVE  HeadAsksFor(q, f, k, h)
<1> USE DEF Reached
<1>1. InLine(q, f, k) /\ Len(q) \in Nat
  BY NextInLine, LenProperties
<1>2. k < Len(q) /\ h = q[k + 1]
  BY <1>1 DEF InLine
<1>3. Holds(queue, h)
  BY TailHolds DEF LoopTyped
<1>4. call[h] = "waiting" /\ output[h] = Nil /\ input[h] = want[h]
  BY <1>3 DEF LoopNodes
<1>5. from[h] = "parked"
  BY <1>1, <1>2
<1>6. before.phase \in [Handles -> Phases] /\ before.amount \in Requests
  BY BeforeTyped
<1>7. want[h] = before.amount[h]
  BY <1>5, <1>6, ParkedAsksAsBefore, Zenon
<1>8. want[h] = f[h] /\ f[h] \in 0..MaxUsize
  BY <1>7 DEF Requests
<1> QED
  BY <1>1, <1>2, <1>3, <1>4, <1>8 DEF HeadAsksFor

(* One round of the loop: it passes the head of the queue.                 *)
LEMMA RoundKeeps ==
    ASSUME Loop!NilIsNothing, LoopInv, Loop!Covers, NEW o \in Loop!WakeUps,
           o = IF loop.fairness = "fair" THEN Loop!Grant(input[Head(queue)]) ELSE Loop!Token,
           Loop!List!WakeOne(o),
           loop' = [loop EXCEPT !.left = @ - input[Head(queue)], !.woke = TRUE],
           permits' = IF loop.fairness = "fair" THEN loop.left - input[Head(queue)]
                                                ELSE permits,
           UNCHANGED <<total, call, want, before, promoted>>
    PROVE  StepKeeps
<1>a. LoopTyped /\ LoopNodes /\ LoopIdle
  BY DEF LoopInv
<1>1. loop # Nil /\ queue # << >> /\ before # Nil /\ loop \in Loop!Locals
  BY <1>a DEF Loop!Covers, LoopIdle, LoopTyped
<1>2. PICK q \in Seq(Handles), f \in Requests :
         q = before.queue /\ f = before.amount /\ NoTwice(q)
  BY <1>a, <1>1, BeforeTyped DEF LoopInv, LoopUnderway
<1>3. PICK k \in 0..Len(q), returned \in 0..MaxUsize, fairness \in {"fair", "unfair"},
           from \in [Handles -> Phases \cup {"retrying"}] :
              Underway(k, returned, fairness, from)
  BY <1>1, <1>2 DEF LoopInv, LoopUnderway
<1>4. PICK available \in 0..MaxUsize : available = Plus(before.permits, returned)
  BY <1>a, <1>1, BeforeTyped, ArithmeticType
<1>5. /\ Began(returned, fairness, from)
      /\ \A i \in 1..Len(q) : from[q[i]] = "parked"
      /\ queue = SubSeq(q, k + 1, Len(q))
      /\ AmountOf(f, FrontOf(q, k)) <= available
      /\ permits = IF fairness = "fair" THEN available - AmountOf(f, FrontOf(q, k))
                                        ELSE available
      /\ Loop!Phase = [h \in Handles |->
                          IF h \notin FrontOf(q, k) THEN from[h]
                          ELSE IF fairness = "fair" THEN "granted" ELSE "woken"]
      /\ loop.fairness = fairness
      /\ loop.left = available - AmountOf(f, FrontOf(q, k))
  BY <1>1, <1>2, <1>3, <1>4 DEF Underway, Passed, GoesOn
<1>6. PICK h \in Handles : h = Head(queue)
  BY <1>a, <1>1, HeadTailProperties DEF LoopTyped
<1>10. /\ InLine(q, f, k) /\ k < Len(q) /\ h = q[k + 1]
       /\ call[h] = "waiting" /\ output[h] = Nil
       /\ input[h] = f[h] /\ want[h] = f[h] /\ f[h] \in 0..MaxUsize
  <2>1. Began(returned, fairness, from) /\ Reached(q, f, k, from)
    BY <1>2, <1>5 DEF Reached
  <2>2. HeadAsksFor(q, f, k, h)
    BY <1>a, <1>1, <1>6, <2>1, HeadAsks, Zenon
  <2> QED
    BY <2>2 DEF HeadAsksFor
<1>7. /\ Tail(queue) = SubSeq(q, k + 2, Len(q))
      /\ h \notin FrontOf(q, k) /\ FrontOf(q, k + 1) = FrontOf(q, k) \cup {h}
      /\ AmountOf(f, FrontOf(q, k + 1)) = AmountOf(f, FrontOf(q, k)) + f[h]
      /\ AmountOf(f, FrontOf(q, k)) \in Nat
  BY <1>5, <1>10 DEF InLine
<1>8. Len(q) \in Nat /\ k + 1 \in 0..Len(q)
  BY <1>10, LenProperties
<1>9. /\ Tail(queue) \in Seq(Handles) /\ NoTwice(Tail(queue)) /\ Holds(queue, h)
      /\ \A e : Holds(Tail(queue), e) <=> Holds(queue, e) /\ e # h
  BY <1>a, <1>1, <1>6, TailHolds DEF LoopTyped
<1>11. /\ f[h] <= loop.left
       /\ queue' = Tail(queue)
       /\ output' = [output EXCEPT ![h] = o]
       /\ input' = [input EXCEPT ![h] = Nil]
       /\ loop' = [loop EXCEPT !.left = @ - f[h], !.woke = TRUE]
       /\ permits' = IF fairness = "fair" THEN loop.left - f[h] ELSE permits
       /\ o = IF fairness = "fair" THEN Loop!Grant(f[h]) ELSE Loop!Token
  BY <1>5, <1>6, <1>10 DEF Loop!Covers, Loop!List!WakeOne
<1>12. o # Nil /\ (o.fair <=> fairness = "fair")
  BY <1>10, <1>11, TokenTells
<1>13. Loop!Phase' = [d \in Handles |->
                         IF d \notin FrontOf(q, k + 1) THEN from[d]
                         ELSE IF fairness = "fair" THEN "granted" ELSE "woken"]
  <2>1. \A d \in Handles :
           Loop!Phase'[d] = IF d = h THEN (IF fairness = "fair" THEN "granted" ELSE "woken")
                                     ELSE Loop!Phase[d]
    BY <1>a, <1>10, <1>11, <1>12 DEF Loop!Phase, LoopTyped
  <2>2. Loop!Phase' = [d \in Handles |-> Loop!Phase'[d]]
    BY DEF Loop!Phase
  <2>3. \A d \in Handles :
           Loop!Phase'[d] = IF d \notin FrontOf(q, k + 1) THEN from[d]
                            ELSE IF fairness = "fair" THEN "granted" ELSE "woken"
    <3>1. \A d \in Handles :
             Loop!Phase[d] = IF d \notin FrontOf(q, k) THEN from[d]
                             ELSE IF fairness = "fair" THEN "granted" ELSE "woken"
      BY <1>5
    <3>2. \A d \in Handles : d \in FrontOf(q, k + 1) <=> d \in FrontOf(q, k) \/ d = h
      BY <1>7
    <3> QED
      BY <2>1, <3>1, <3>2
  <2> QED
    BY <2>2, <2>3
<1>14. AmountOf(f, FrontOf(q, k + 1)) <= available
  BY <1>5, <1>7, <1>10, <1>11
<1>15. /\ loop' \in Loop!Locals /\ loop' # Nil
       /\ loop'.fairness = fairness
       /\ loop'.left = available - AmountOf(f, FrontOf(q, k + 1))
       /\ permits' = IF fairness = "fair" THEN available - AmountOf(f, FrontOf(q, k + 1))
                                          ELSE available
       /\ permits' \in 0..MaxUsize
  <2>1. loop.left \in 0..MaxUsize /\ loop.left - f[h] \in 0..MaxUsize
    BY <1>1, <1>10, <1>11, MaxUsizeIsNat DEF Loop!Locals
  <2>2. /\ loop' \in Loop!Locals /\ loop'.fairness = fairness
        /\ loop'.left = loop.left - f[h]
    BY <1>1, <1>5, <1>11, <2>1 DEF Loop!Locals
  <2>3. loop.left - f[h] = available - AmountOf(f, FrontOf(q, k + 1))
    BY <1>5, <1>7, <1>10
  <2>4. loop' # Nil
    BY <2>2 DEF Loop!NilIsNothing
  <2> QED
    BY <1>5, <1>11, <2>1, <2>2, <2>3, <2>4
<1>16. LoopUnderway'
  <2>1. /\ before' = before /\ before'.queue = q /\ before'.amount = f
        /\ Plus(before'.permits, returned) = available
    BY <1>2, <1>4
  <2>2. Began(returned, fairness, from)'
    BY <1>5, <2>1 DEF Began, GivesBack, Retries, Adds
  <2>3. queue' = SubSeq(q, (k + 1) + 1, Len(q))
    <3>1. (k + 1) + 1 = k + 2
      BY <1>8
    <3> QED
      BY <1>7, <1>11, <3>1
  <2>4. Passed(k + 1, returned, fairness, from)'
    BY <1>5, <1>13, <1>14, <1>15, <2>1, <2>3 DEF Passed
  <2>5. GoesOn(k + 1, returned, fairness)'
    BY <1>15, <2>1 DEF GoesOn
  <2>6. Underway(k + 1, returned, fairness, from)'
    BY <1>15, <2>2, <2>4, <2>5 DEF Underway
  <2> QED
    BY <1>2, <1>8, <2>1, <2>6 DEF LoopUnderway
<1>17. LoopTyped'
  BY <1>a, <1>9, <1>11, <1>15 DEF LoopTyped
<1>18. LoopNodes'
  <2> SUFFICES ASSUME NEW d \in Handles
               PROVE  /\ Holds(queue', d) => /\ call[d] = "waiting" /\ output'[d] = Nil
                                             /\ input'[d] = want[d]
                      /\ output'[d] # Nil =>
                            /\ call[d] = "waiting"
                            /\ output'[d] \in {Loop!Token, Loop!Grant(want[d])}
    BY DEF LoopNodes, Loop!Token, Loop!Grant
  <2>1. CASE d = h
    BY <1>a, <1>9, <1>10, <1>11, <2>1 DEF LoopTyped
  <2>2. CASE d # h
    BY <1>a, <1>9, <1>11, <2>2 DEF LoopTyped, LoopNodes
  <2> QED
    BY <2>1, <2>2
<1>19. LoopIdle'
  BY <1>1 DEF LoopIdle
<1>20. UNCHANGED Loop!Atomic!vars
  BY <1>1 DEF Loop!Atomic!vars, Loop!Seen, Loop!Free
<1> QED
  BY <1>16, <1>17, <1>18, <1>19, <1>20 DEF LoopInv, StepKeeps

LEMMA WakeKeeps ==
    ASSUME Loop!NilIsNothing, LoopInv, Loop!WakeFairly \/ Loop!WakeUnfairly
    PROVE  StepKeeps
<1>a. LoopTyped /\ LoopNodes
  BY DEF LoopInv
<1>1. loop # Nil /\ queue # << >> /\ loop \in Loop!Locals
  BY <1>a DEF Loop!Covers, Loop!WakeFairly, Loop!WakeUnfairly, LoopTyped
<1>2. input[Head(queue)] \in 0..MaxUsize
  <2>1. Head(queue) \in Handles /\ Holds(queue, Head(queue))
    BY <1>a, <1>1, TailHolds DEF LoopTyped
  <2> QED
    BY <1>a, <2>1 DEF LoopNodes, LoopTyped
<1>3. /\ Loop!Token \in Loop!WakeUps
      /\ Loop!Grant(input[Head(queue)]) \in Loop!WakeUps
  BY <1>2, TokenTells
<1>4. CASE Loop!WakeFairly
  BY <1>3, <1>4, RoundKeeps DEF Loop!WakeFairly, Loop!Covers
<1>5. CASE Loop!WakeUnfairly
  BY <1>3, <1>5, RoundKeeps DEF Loop!WakeUnfairly, Loop!Covers
<1> QED
  BY <1>4, <1>5

(* The operation is over, and so is `Semaphore`'s: all of `available` that  *)
(* covers the front of the queue has gone there.                           *)
Released(q, f, k, available, fairness, from, parking) ==
    /\ q = before.queue /\ f = before.amount
    /\ AmountOf(f, FrontOf(q, k)) <= available
    /\ k < Len(q) => AmountOf(f, FrontOf(q, k + 1)) > available
    /\ permits' = IF fairness = "fair" THEN available - AmountOf(f, FrontOf(q, k))
                                       ELSE available
    /\ Loop!Phase' = [h \in Handles |->
                         IF h \notin FrontOf(q, k) THEN from[h]
                         ELSE IF fairness = "fair" THEN "granted" ELSE "woken"]
    /\ queue' = SubSeq(q, k + 1, Len(q)) \o parking
    /\ promoted' = FALSE

(* What the rounds did is what release_permits does in one step.           *)
LEMMA ReleaseSeen ==
    ASSUME before # Nil, before' = Nil,
           NEW q, NEW f, NEW k \in 0..Len(q),
           NEW returned, NEW fairness, NEW from, NEW parking,
           NEW available, available = Plus(before.permits, returned),
           Released(q, f, k, available, fairness, from, parking)
    PROVE  /\ Loop!Atomic!ReleasePermits(returned, fairness, from, parking)
           /\ Loop!Seen = before /\ SeesState'
<1>1. Loop!Seen = before /\ SeesState'
  BY FreeSeesNext DEF Loop!Seen, Loop!Free
<1>2. \A i : Loop!Atomic!Front(i) = FrontOf(q, i)
  BY <1>1 DEF Loop!Atomic!Front, FrontOf, Released
<1>3. \A S : Loop!Atomic!AmountOf(Loop!Seen.amount, S) = AmountOf(f, S)
  BY <1>1, LoopAmount DEF Released
<1>4. Loop!Atomic!Plus(Loop!Seen.permits, returned) = available
  BY <1>1, LoopArithmetic
<1>5. /\ Loop!Seen.queue = q
      /\ Loop!Seen'.permits = permits' /\ Loop!Seen'.phase = Loop!Phase'
      /\ Loop!Seen'.queue = queue' /\ Loop!Seen'.promoted = promoted'
  BY <1>1 DEF SeesState, Released
<1>6. /\ k \in 0..Len(Loop!Seen.queue)
      /\ Loop!Atomic!AmountOf(Loop!Seen.amount, Loop!Atomic!Front(k))
            <= Loop!Atomic!Plus(Loop!Seen.permits, returned)
      /\ k < Len(Loop!Seen.queue) =>
            Loop!Atomic!AmountOf(Loop!Seen.amount, Loop!Atomic!Front(k + 1))
              > Loop!Atomic!Plus(Loop!Seen.permits, returned)
      /\ Loop!Seen'.permits =
            IF fairness = "fair"
              THEN Loop!Atomic!Plus(Loop!Seen.permits, returned)
                     - Loop!Atomic!AmountOf(Loop!Seen.amount, Loop!Atomic!Front(k))
              ELSE Loop!Atomic!Plus(Loop!Seen.permits, returned)
      /\ Loop!Seen'.phase =
            [h \in Handles |->
                IF h \notin Loop!Atomic!Front(k) THEN from[h]
                ELSE IF fairness = "fair" THEN "granted" ELSE "woken"]
      /\ Loop!Seen'.queue
            = SubSeq(Loop!Seen.queue, k + 1, Len(Loop!Seen.queue)) \o parking
      /\ Loop!Seen'.promoted = FALSE
  BY <1>2, <1>3, <1>4, <1>5 DEF Released
<1>7. Loop!Atomic!ReleasePermits(returned, fairness, from, parking)
  BY <1>6, Zenon DEF Loop!Atomic!ReleasePermits
<1> QED
  BY <1>1, <1>7

(* What the loop leaves when it ends.                                      *)
LEMMA LoopEndsKeeps ==
    ASSUME Loop!NilIsNothing, LoopInv, Loop!LoopEnds
    PROVE  StepKeeps
<1>a. LoopTyped /\ LoopNodes /\ LoopIdle
  BY DEF LoopInv
<1>1. /\ loop # Nil /\ before # Nil /\ loop' = Nil /\ promoted' = FALSE
      /\ before' = IF \E h \in Handles : call[h] = "retrying" THEN before ELSE Nil
      /\ UNCHANGED <<permits, total, queue, input, output, call, want>>
      /\ ~Loop!Covers
  BY <1>a DEF Loop!LoopEnds, Loop!list, LoopIdle
<1>2. PICK q \in Seq(Handles), f \in Requests :
         q = before.queue /\ f = before.amount /\ NoTwice(q)
  BY <1>a, <1>1, BeforeTyped DEF LoopInv, LoopUnderway
<1>3. PICK k \in 0..Len(q), returned \in 0..MaxUsize, fairness \in {"fair", "unfair"},
           from \in [Handles -> Phases \cup {"retrying"}] :
              Underway(k, returned, fairness, from)
  BY <1>1, <1>2 DEF LoopInv, LoopUnderway
<1>4. PICK available \in 0..MaxUsize : available = Plus(before.permits, returned)
  BY <1>a, <1>1, BeforeTyped, ArithmeticType
<1>5. /\ Began(returned, fairness, from) /\ Reached(q, f, k, from)
      /\ AmountOf(f, FrontOf(q, k)) <= available
      /\ permits = IF fairness = "fair" THEN available - AmountOf(f, FrontOf(q, k))
                                        ELSE available
      /\ Loop!Phase = [h \in Handles |->
                          IF h \notin FrontOf(q, k) THEN from[h]
                          ELSE IF fairness = "fair" THEN "granted" ELSE "woken"]
      /\ loop.left = available - AmountOf(f, FrontOf(q, k))
  BY <1>1, <1>2, <1>3, <1>4 DEF Underway, Passed, GoesOn, Reached
<1>6. k < Len(q) => AmountOf(f, FrontOf(q, k + 1)) > available
  <2> SUFFICES ASSUME k < Len(q)
               PROVE  AmountOf(f, FrontOf(q, k + 1)) > available
    OBVIOUS
  <2>1. InLine(q, f, k)
    BY <1>2, NextInLine
  <2>2. queue # << >>
    BY <1>5, <2>1 DEF InLine, Reached
  <2>3. PICK h \in Handles : h = Head(queue)
    BY <1>a, <2>2, HeadTailProperties DEF LoopTyped
  <2>4. Began(returned, fairness, from) /\ Reached(q, f, k, from)
    BY <1>5
  <2>5. HeadAsksFor(q, f, k, h)
    BY <1>a, <1>1, <2>2, <2>3, <2>4, HeadAsks, Zenon
  <2>6. /\ input[h] = f[h] /\ f[h] \in 0..MaxUsize
        /\ AmountOf(f, FrontOf(q, k)) \in Nat
        /\ AmountOf(f, FrontOf(q, k + 1)) = AmountOf(f, FrontOf(q, k)) + f[h]
    BY <2>5 DEF HeadAsksFor, InLine
  <2>7. ~(f[h] <= loop.left)
    BY <1>1, <2>2, <2>3, <2>6 DEF Loop!Covers
  <2> QED
    BY <1>5, <2>6, <2>7
<1>7. LoopTyped' /\ LoopNodes'
  <2>1. before' \in Loop!Views \cup {Nil}
    BY <1>a, <1>1 DEF LoopTyped
  <2>2. LoopTyped'
    BY <1>a, <1>1, <2>1 DEF LoopTyped
  <2> QED
    BY <1>a, <1>1, <2>2 DEF LoopNodes, Loop!Token, Loop!Grant
<1>8. Loop!Phase' = Loop!Phase
  BY <1>1 DEF Loop!Phase
<1>9. CASE \E h \in Handles : call[h] = "retrying"
  <2>1. before' = before
    BY <1>1, <1>9
  <2>2. Underway(k, returned, fairness, from)'
    <3>1. Began(returned, fairness, from)'
      BY <1>1, <1>5, <2>1 DEF Began, GivesBack, Retries, Adds
    <3>2. Passed(k, returned, fairness, from)'
      BY <1>1, <1>3, <1>8, <2>1 DEF Underway, Passed
    <3>3. IsOver(k, returned)'
      BY <1>1, <1>2, <1>4, <1>6, <1>9, <2>1 DEF IsOver
    <3> QED
      BY <1>1, <3>1, <3>2, <3>3 DEF Underway
  <2>3. LoopIdle' /\ LoopUnderway'
    BY <1>1, <1>2, <2>1, <2>2 DEF LoopIdle, LoopUnderway
  <2>4. UNCHANGED Loop!Atomic!vars
    BY <1>1, <2>1 DEF Loop!Atomic!vars, Loop!Seen, Loop!Free
  <2> QED
    BY <1>7, <2>3, <2>4 DEF LoopInv, StepKeeps
<1>10. CASE ~\E h \in Handles : call[h] = "retrying"
  <2>1. before' = Nil
    BY <1>1, <1>10
  <2>2. LoopIdle' /\ LoopUnderway'
    BY <1>1, <1>10, <2>1 DEF LoopIdle, LoopUnderway
  <2>3. queue' = SubSeq(q, k + 1, Len(q)) \o << >>
    BY <1>a, <1>1, <1>5, ConcatEmptySeq DEF LoopTyped, Reached
  <2>4. /\ Loop!Atomic!ReleasePermits(returned, fairness, from, << >>)
        /\ Loop!Seen = before /\ SeesState'
    <3>1. Released(q, f, k, available, fairness, from, << >>)
      BY <1>1, <1>2, <1>5, <1>6, <1>8, <2>3 DEF Released
    <3> QED
      BY <1>1, <1>4, <2>1, <3>1, ReleaseSeen, Zenon
  <2>5. Loop!Atomic!Next
    <3>1. CASE \E h \in Handles : GivesBack(h, returned, fairness, from)
      <4>1. PICK h \in Handles : GivesBack(h, returned, fairness, from)
        BY <3>1
      <4>2. Loop!Atomic!GiveBack(h, returned, fairness)
        BY <1>1, <2>4, <4>1
           DEF GivesBack, SeesState, Loop!Atomic!GiveBack, Loop!Atomic!Become
      <4>3. \/ Loop!Atomic!DropPermit(h) \/ Loop!Atomic!ReleaseFair(h)
            \/ Loop!Atomic!CancelWoken(h) \/ Loop!Atomic!CancelGranted(h)
        BY <2>4, <4>1, <4>2
           DEF GivesBack, Loop!Atomic!DropPermit, Loop!Atomic!ReleaseFair,
               Loop!Atomic!CancelWoken, Loop!Atomic!CancelGranted
      <4> QED
        BY <4>3 DEF Loop!Atomic!Next, Loop!Atomic!Drop
    <3>2. CASE \E h \in Handles : Retries(h, returned, fairness, from)
      <4>1. PICK h \in Handles : Retries(h, returned, fairness, from)
        BY <3>2
      <4>2. from[h] = "retrying"
        BY <1>a, <1>1, <4>1, BeforeTyped DEF Retries
      <4>3. h \notin FrontOf(q, k)
        <5>1. \A i \in 1..Len(q) : q[i] # h
          BY <1>5, <4>2 DEF Reached
        <5>2. Len(q) \in Nat
          BY LenProperties
        <5> QED
          BY <5>1, <5>2 DEF FrontOf
      <4>4. Loop!Phase[h] = "retrying"
        BY <1>5, <4>2, <4>3
      <4>5. call[h] = "retrying"
        BY <4>4, PhaseTells
      <4> QED
        BY <1>10, <4>5
    <3>3. CASE \E n \in Amounts : Adds(n, returned, from)
      <4>1. PICK n \in Amounts : Adds(n, returned, from)
        BY <3>3
      <4>2. Loop!Atomic!AddPermits(n, fairness)
        BY <1>1, <2>4, <4>1 DEF Adds, SeesState, Loop!Atomic!AddPermits
      <4> QED
        BY <4>2 DEF Loop!Atomic!Next
    <3> QED
      BY <1>5, <3>1, <3>2, <3>3 DEF Began
  <2> QED
    BY <1>7, <2>2, <2>5 DEF LoopInv, StepKeeps
<1> QED
  BY <1>9, <1>10

(* The handle that lost joins the queue again: `Semaphore` has it lose,    *)
(* wake others for what there is, and queue up, in one step.               *)
LEMMA RetryKeeps ==
    ASSUME Loop!NilIsNothing, LoopInv, NEW h \in Handles, Loop!Retry(h)
    PROVE  StepKeeps
<1>a. LoopTyped /\ LoopNodes /\ LoopIdle
  BY DEF LoopInv
<1>1. /\ loop = Nil /\ call[h] = "retrying" /\ before # Nil
      /\ loop' = Nil /\ before' = Nil
      /\ queue' = Append(queue, h) /\ ~Holds(queue, h)
      /\ input' = [input EXCEPT ![h] = want[h]]
      /\ output[h] = Nil
      /\ call' = [call EXCEPT ![h] = "waiting"]
      /\ want' = [want EXCEPT ![h] = want[h]]
      /\ UNCHANGED <<permits, total, output, promoted>>
  BY <1>a DEF Loop!Retry, Loop!Goes, Loop!List!Wait, Loop!List!Queued, Holds, LoopIdle
<1>2. PICK q \in Seq(Handles), f \in Requests :
         q = before.queue /\ f = before.amount /\ NoTwice(q)
  BY <1>a, <1>1, BeforeTyped DEF LoopInv, LoopUnderway
<1>3. PICK k \in 0..Len(q), returned \in 0..MaxUsize, fairness \in {"fair", "unfair"},
           from \in [Handles -> Phases \cup {"retrying"}] :
              Underway(k, returned, fairness, from)
  BY <1>1, <1>2 DEF LoopInv, LoopUnderway
<1>4. PICK available \in 0..MaxUsize : available = Plus(before.permits, returned)
  BY <1>a, <1>1, BeforeTyped, ArithmeticType
<1>5. /\ Began(returned, fairness, from)
      /\ \A i \in 1..Len(q) : from[q[i]] = "parked"
      /\ queue = SubSeq(q, k + 1, Len(q))
      /\ AmountOf(f, FrontOf(q, k)) <= available
      /\ k < Len(q) => AmountOf(f, FrontOf(q, k + 1)) > available
      /\ permits = IF fairness = "fair" THEN available - AmountOf(f, FrontOf(q, k))
                                        ELSE available
      /\ Loop!Phase = [d \in Handles |->
                          IF d \notin FrontOf(q, k) THEN from[d]
                          ELSE IF fairness = "fair" THEN "granted" ELSE "woken"]
      /\ promoted = FALSE
  BY <1>1, <1>2, <1>3, <1>4 DEF Underway, Passed, IsOver
<1>6. \A d \in Handles : call[d] = "retrying" => from[d] = "retrying"
  BY <1>5, PhaseTells
<1>7. before.phase \in [Handles -> Phases] /\ before.amount \in Requests
  BY <1>a, <1>1, BeforeTyped
<1>8. Retries(h, returned, fairness, from)
  <2>1. from[h] = "retrying"
    BY <1>1, <1>6
  <2>2. ASSUME NEW d \in Handles, GivesBack(d, returned, fairness, from)
        PROVE  FALSE
    BY <1>7, <2>1, <2>2 DEF GivesBack, Phases
  <2>3. ASSUME NEW n \in Amounts, Adds(n, returned, from)
        PROVE  FALSE
    BY <1>7, <2>1, <2>3 DEF Adds, Phases
  <2>4. ASSUME NEW d \in Handles, Retries(d, returned, fairness, from)
        PROVE  d = h
    BY <1>7, <2>1, <2>4 DEF Retries, Phases
  <2> QED
    BY <1>5, <2>2, <2>3, <2>4 DEF Began
<1>9. \A d \in Handles : from[d] = "retrying" => d = h
  BY <1>7, <1>8 DEF Retries, Phases
<1>10. MovesTo(h, "parked")
  BY <1>a, <1>1, PhaseMoves DEF LoopTyped
<1>11. want' = want
  BY <1>a, <1>1 DEF LoopTyped
<1>12. /\ queue' \in Seq(Handles) /\ NoTwice(queue')
       /\ \A e : Holds(queue', e) <=> Holds(queue, e) \/ e = h
  BY <1>a, <1>1, AppendHolds DEF LoopTyped
<1>13. LoopTyped'
  BY <1>a, <1>1, <1>11, <1>12 DEF LoopTyped, Loop!Calls
<1>14. LoopNodes'
  BY <1>a, <1>1, <1>11, <1>12 DEF LoopNodes, LoopTyped
<1>15. LoopIdle' /\ LoopUnderway'
  <2>1. \A d \in Handles : call'[d] # "retrying"
    BY <1>a, <1>1, <1>6, <1>9 DEF LoopTyped
  <2> QED
    BY <1>1, <2>1 DEF LoopIdle, LoopUnderway
<1>16. Loop!Atomic!Next
  <2> DEFINE parked == [before.phase EXCEPT ![h] = "parked"]
  <2>1. h \notin FrontOf(q, k)
    BY <1>1, <1>5, <1>6, LenProperties DEF FrontOf
  <2>2. Loop!Phase' = [d \in Handles |->
                          IF d \notin FrontOf(q, k) THEN parked[d]
                          ELSE IF fairness = "fair" THEN "granted" ELSE "woken"]
    BY <1>5, <1>7, <1>8, <1>10, <2>1 DEF Retries, MovesTo
  <2>3. queue' = SubSeq(q, k + 1, Len(q)) \o <<h>>
    <3>1. queue \in Seq(Handles)
      BY <1>a DEF LoopTyped
    <3>2. Append(queue, h) = queue \o <<h>>
      BY <3>1, AppendIsConcat
    <3> QED
      BY <1>1, <1>5, <3>2
  <2> HIDE DEF parked
  <2>4. Released(q, f, k, available, fairness, parked, <<h>>)
    BY <1>1, <1>2, <1>5, <2>2, <2>3 DEF Released
  <2>5. /\ Loop!Atomic!ReleasePermits(returned, fairness, parked, <<h>>)
        /\ Loop!Seen = before /\ SeesState'
    BY <1>1, <1>4, <2>4, ReleaseSeen, Zenon
  <2>6. Loop!Atomic!PollWokenLoses(h)
    BY <1>1, <1>8, <1>11, <2>5
       DEF Retries, SeesState, parked, Loop!Atomic!PollWokenLoses, Loop!Atomic!Become
  <2> QED
    BY <2>6 DEF Loop!Atomic!Next, Loop!Atomic!Poll
<1> QED
  BY <1>13, <1>14, <1>15, <1>16 DEF LoopInv, StepKeeps

LEMMA LoopStep == Loop!NilIsNothing /\ LoopInv /\ [Loop!Next]_(Loop!vars) => StepKeeps
<1> SUFFICES ASSUME Loop!NilIsNothing, LoopInv, [Loop!Next]_(Loop!vars)
             PROVE  StepKeeps
  OBVIOUS
<1>1. CASE Loop!ReleaseLoop
  BY <1>1, WakeKeeps, LoopEndsKeeps DEF Loop!ReleaseLoop
<1>2. ASSUME NEW h \in Handles, Loop!Call(h)
      PROVE  StepKeeps
  BY <1>2, CallKeeps
<1>3. ASSUME NEW h \in Handles, Loop!Poll(h)
      PROVE  StepKeeps
  BY <1>3, PollWokenTakesKeeps, PollWokenLosesKeeps, RetryKeeps, PollGrantedKeeps
     DEF Loop!Poll
<1>4. ASSUME NEW h \in Handles, Loop!Drop(h)
      PROVE  StepKeeps
  BY <1>4, CancelWokenKeeps, CancelGrantedKeeps, CancelParkedKeeps, GiveBackKeeps, LeakKeeps
     DEF Loop!Drop
<1>5. ASSUME NEW n \in Amounts,
             Loop!AddPermits(n, "unfair") \/ Loop!AddPermits(n, "fair")
      PROVE  StepKeeps
  BY <1>5, AddPermitsKeeps
<1>6. CASE UNCHANGED Loop!vars
  <2>1. UNCHANGED <<permits, total, queue, input, output, call, want, loop, before, promoted>>
    BY <1>6 DEF Loop!vars
  <2>2. Loop!Phase' = Loop!Phase
    BY <2>1 DEF Loop!Phase
  <2>3. LoopTyped' /\ LoopNodes' /\ LoopIdle'
    BY <2>1 DEF LoopInv, LoopTyped, LoopNodes, LoopIdle, Loop!Token, Loop!Grant
  <2>4. LoopUnderway'
    BY <2>1, <2>2
       DEF LoopInv, LoopUnderway, Underway, Began, GivesBack, Retries, Adds, Passed,
           GoesOn, IsOver
  <2>5. UNCHANGED Loop!Atomic!vars
    BY <2>1, <2>2 DEF Loop!Atomic!vars, Loop!Seen, Loop!Free, Loop!View
  <2> QED
    BY <2>3, <2>4, <2>5 DEF LoopInv, StepKeeps
<1> QED
  BY <1>1, <1>2, <1>3, <1>4, <1>5, <1>6 DEF Loop!Next

LEMMA LoopInit ==
    ASSUME Loop!NilIsNothing, Loop!Init
    PROVE  LoopInv /\ Loop!Atomic!Init
<1>1. /\ permits = InitPermits /\ total = InitPermits /\ queue = << >>
      /\ input = [w \in Handles |-> Nil] /\ output = [w \in Handles |-> Nil]
      /\ call = [h \in Handles |-> "idle"] /\ want = [h \in Handles |-> 0]
      /\ loop = Nil /\ before = Nil /\ promoted = FALSE
  BY DEF Loop!Init, Loop!List!Init
<1>2. LoopTyped
  <2>1. queue \in Seq(Handles) /\ NoTwice(queue)
    BY <1>1 DEF NoTwice
  <2>2. 0 \in 0..MaxUsize
    BY MaxUsizeIsNat
  <2> QED
    BY <1>1, <2>1, <2>2, InitPermitsIsUsize DEF LoopTyped, Loop!Calls
<1>3. LoopNodes /\ LoopIdle /\ LoopUnderway
  BY <1>1 DEF LoopNodes, LoopIdle, LoopUnderway, Holds
<1>4. Loop!Phase = [h \in Handles |-> "idle"]
  BY <1>1 DEF Loop!Phase
<1>5. Loop!Atomic!Init
  BY <1>1, <1>4, FreeSees DEF SeesState, Loop!Atomic!Init
<1> QED
  BY <1>2, <1>3, <1>5 DEF LoopInv

(* release_permits, run one `wake_one` after the other with its local copy *)
(* of the permits, does what `Semaphore` has it do in one step, for any    *)
(* number of handles and of permits.                                       *)
THEOREM SemaphoreLoopImplements ==
    ASSUME Loop!NilIsNothing
    PROVE  Loop!Spec => Loop!ImplementsSemaphore
<1>1. Loop!Init => LoopInv /\ Loop!Atomic!Init
  BY LoopInit
<1>2. LoopInv /\ [Loop!Next]_(Loop!vars) => LoopInv' /\ [Loop!Atomic!Next]_(Loop!Atomic!vars)
  BY LoopStep DEF StepKeeps
<1> QED
  BY <1>1, <1>2, PTL DEF Loop!Spec, Loop!ImplementsSemaphore, Loop!Atomic!Spec
=============================================================================
