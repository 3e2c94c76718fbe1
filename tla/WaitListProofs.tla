---------------------------- MODULE WaitListProofs ----------------------------
(***************************************************************************)
(* Theorems about `WaitList`, for any number of futures, of the tasks that *)
(* poll them, and of inputs and outputs, and for programs that are         *)
(* reentrant and those that are not.                                       *)
(***************************************************************************)
EXTENDS WaitList, Lemmas

(* A node in the list carries the waker of its future's latest poll.       *)
WakerIsLatest == \A w \in Waiters : Linked(w) => waker[w] = polledWith[w]

(***************************************************************************)
(* The inductive invariant.  The pointers can only be kept in order while  *)
(* a node is in the list exactly as long as its waker says so, or else it  *)
(* would be enqueued twice or dequeued from where it does not stand.       *)
(***************************************************************************)
Inv == /\ TypeOK
       /\ PointersSpellOrder
       /\ OnlyLiveNodesLinked
       /\ WakerTagsUnion
       /\ WakerIsLatest
       /\ LatestWakerNotified

(* PointersSpellOrder, one pointer at a time.                              *)
HeadRight == head = (IF Len(order) = 0 THEN Nil ELSE order[1])
TailRight == tail = (IF Len(order) = 0 THEN Nil ELSE order[Len(order)])
NextRight == \A i \in 1..Len(order) :
                next[order[i]] = (IF i = Len(order) THEN Nil ELSE order[i + 1])
PrevRight == \A i \in 1..Len(order) :
                prev[order[i]] = (IF i = 1 THEN Nil ELSE order[i - 1])

LEMMA PointersAre ==
    PointersSpellOrder <=> HeadRight /\ TailRight /\ NextRight /\ PrevRight /\ NoTwice(order)
BY DEF PointersSpellOrder, HeadRight, TailRight, NextRight, PrevRight, NoTwice

LEMMA OrderType ==
    ASSUME TypeOK
    PROVE  /\ Len(order) \in Nat
           /\ \A i \in 1..Len(order) : order[i] \in Waiters /\ order[i] # Nil
BY LenProperties, ElementOfSeq, NilIsNothing DEF TypeOK

-----------------------------------------------------------------------------
(* Enqueue puts a node that is not in the list behind all others.          *)
LEMMA EnqueueSpells ==
    ASSUME TypeOK, PointersSpellOrder, NEW w \in Waiters, ~Holds(order, w),
           Enqueue(w)
    PROVE  /\ PointersSpellOrder'
           /\ head' \in Waiters /\ tail' \in Waiters
           /\ next' \in [Waiters -> Waiters \cup {Nil}]
           /\ prev' \in [Waiters -> Waiters \cup {Nil}]
           /\ order' \in Seq(Waiters)
           /\ \A v : Holds(order, v)' <=> Holds(order, v) \/ v = w
<1> DEFINE n == Len(order)
<1>1. /\ n \in Nat
      /\ \A i \in 1..n : order[i] \in Waiters /\ order[i] # Nil /\ order[i] # w
  BY OrderType DEF Holds
<1>2. HeadRight /\ TailRight /\ NextRight /\ PrevRight /\ NoTwice(order)
  BY PointersAre
<1>3. /\ Len(order') = n + 1
      /\ \A i \in 1..n : order'[i] = order[i]
      /\ order'[n + 1] = w
  BY AppendProperties DEF TypeOK, Enqueue
<1>4. /\ order' \in Seq(Waiters) /\ NoTwice(order')
      /\ \A v : Holds(order', v) <=> Holds(order, v) \/ v = w
  BY <1>2, AppendHolds DEF TypeOK, Enqueue
<1>5. /\ \A v \in Waiters : next'[v] = IF v = w THEN Nil
                                       ELSE IF v = tail THEN w ELSE next[v]
      /\ \A v \in Waiters : prev'[v] = IF v = w THEN tail ELSE prev[v]
      /\ tail' = w
      /\ head' = IF head = Nil THEN w ELSE head
      /\ next' \in [Waiters -> Waiters \cup {Nil}]
      /\ prev' \in [Waiters -> Waiters \cup {Nil}]
  <2>1. next' = [v \in Waiters |-> IF v = w THEN Nil
                                   ELSE IF v = tail THEN w ELSE next[v]]
    BY DEF Enqueue
  <2>2. next \in [Waiters -> Waiters \cup {Nil}]
    BY DEF TypeOK
  <2>3. next' \in [Waiters -> Waiters \cup {Nil}]
    BY <2>1, <2>2
  <2>4. \A v \in Waiters : next'[v] = IF v = w THEN Nil
                                       ELSE IF v = tail THEN w ELSE next[v]
    BY <2>1
  <2>5. prev \in [Waiters -> Waiters \cup {Nil}] /\ prev' = [prev EXCEPT ![w] = tail]
    BY DEF Enqueue, TypeOK
  <2>6. /\ prev' \in [Waiters -> Waiters \cup {Nil}]
        /\ \A v \in Waiters : prev'[v] = IF v = w THEN tail ELSE prev[v]
    BY <2>5 DEF TypeOK
  <2> QED
    BY <2>3, <2>4, <2>6 DEF Enqueue
<1> HIDE DEF n
<1>6. HeadRight' /\ TailRight'
  BY <1>1, <1>2, <1>3, <1>5 DEF HeadRight, TailRight, n
<1>7. NextRight'
  <2> SUFFICES ASSUME NEW i \in 1..(n + 1)
               PROVE  next'[order'[i]] = (IF i = n + 1 THEN Nil ELSE order'[i + 1])
    BY <1>3 DEF NextRight
  <2>1. CASE i = n + 1
    BY <2>1, <1>3, <1>5
  <2>2. CASE i = n
    <3>1. i \in 1..n /\ order[i] = tail
      BY <2>2, <1>1, <1>2 DEF TailRight, n
    <3> QED
      BY <2>2, <3>1, <1>1, <1>3, <1>5
  <2>3. CASE i < n
    <3>1. i \in 1..n /\ i + 1 \in 1..n /\ n \in 1..n /\ n # 0
      BY <2>3, <1>1
    <3>2. order[i] # tail
      BY <2>3, <3>1, <1>2 DEF TailRight, NoTwice, n
    <3>3. next[order[i]] = order[i + 1]
      BY <2>3, <3>1, <1>2 DEF NextRight, n
    <3> QED
      BY <2>3, <3>1, <3>2, <3>3, <1>1, <1>3, <1>5
  <2> QED
    BY <2>1, <2>2, <2>3, <1>1
<1>8. PrevRight'
  <2> SUFFICES ASSUME NEW i \in 1..(n + 1)
               PROVE  prev'[order'[i]] = (IF i = 1 THEN Nil ELSE order'[i - 1])
    BY <1>3 DEF PrevRight
  <2>1. CASE i = n + 1
    <3>1. tail = IF n = 0 THEN Nil ELSE order[n]
      BY <1>2 DEF TailRight, n
    <3>2. n # 0 => n \in 1..n
      BY <1>1
    <3> QED
      BY <2>1, <3>1, <3>2, <1>1, <1>3, <1>5
  <2>2. CASE i # n + 1
    <3>1. i \in 1..n
      BY <2>2, <1>1
    <3>2. prev[order[i]] = (IF i = 1 THEN Nil ELSE order[i - 1])
      BY <3>1, <1>2 DEF PrevRight, n
    <3>3. i # 1 => i - 1 \in 1..n
      BY <3>1, <1>1
    <3> QED
      BY <3>1, <3>2, <3>3, <1>1, <1>3, <1>5
  <2> QED
    BY <2>1, <2>2
<1>9. PointersSpellOrder'
  BY <1>4, <1>6, <1>7, <1>8
     DEF PointersSpellOrder, HeadRight, TailRight, NextRight, PrevRight, NoTwice
<1>10. head' \in Waiters
  BY <1>5 DEF TypeOK
<1> QED
  BY <1>4, <1>5, <1>9, <1>10 DEF Holds

(* Dequeue leads the pointers past a node, wherever it stands.             *)
LEMMA DequeueSpells ==
    ASSUME TypeOK, PointersSpellOrder, NEW w \in Waiters, Dequeue(w)
    PROVE  /\ PointersSpellOrder'
           /\ head' \in Waiters \cup {Nil} /\ tail' \in Waiters \cup {Nil}
           /\ next' \in [Waiters -> Waiters \cup {Nil}]
           /\ prev' \in [Waiters -> Waiters \cup {Nil}]
           /\ order' \in Seq(Waiters)
           /\ Holds(order, w)
           /\ \A v : Holds(order, v)' <=> Holds(order, v) /\ v # w
<1> DEFINE n == Len(order)
<1>1. n \in Nat /\ \A i \in 1..n : order[i] \in Waiters /\ order[i] # Nil
  BY OrderType
<1>2. HeadRight /\ TailRight /\ NextRight /\ PrevRight /\ NoTwice(order)
  BY PointersAre
<1>3. PICK p \in 1..n : order[p] = w /\ order' = Without(order, p)
  BY DEF Dequeue, OrderWithout, Without
<1>4. /\ order' \in Seq(Waiters)
      /\ Len(order') = n - 1
      /\ \A j \in 1..(n - 1) : order'[j] = IF j < p THEN order[j] ELSE order[j + 1]
      /\ NoTwice(order')
      /\ \A v : Holds(order', v) <=> Holds(order, v) /\ v # w
  <2>1. order \in Seq(Waiters) /\ p \in 1..Len(order)
    BY DEF TypeOK
  <2>2. /\ Without(order, p) \in Seq(Waiters)
        /\ Len(Without(order, p)) = Len(order) - 1
        /\ \A j \in 1..(Len(order) - 1) :
              Without(order, p)[j] = IF j < p THEN order[j] ELSE order[j + 1]
    BY <2>1, WithoutElements, Zenon
  <2>3. /\ NoTwice(Without(order, p))
        /\ \A v : Holds(Without(order, p), v) <=> Holds(order, v) /\ v # order[p]
    BY <1>2, <2>1, WithoutHolds, Zenon
  <2> QED
    BY <1>3, <2>2, <2>3, Zenon
<1>5. Holds(order, w)
  BY <1>3 DEF Holds
<1>6. /\ \A v \in Waiters : next'[v] = IF v = prev[w] THEN next[w] ELSE next[v]
      /\ \A v \in Waiters : prev'[v] = IF v = next[w] THEN prev[w] ELSE prev[v]
      /\ head' = IF prev[w] = Nil THEN next[w] ELSE head
      /\ tail' = IF next[w] = Nil THEN prev[w] ELSE tail
      /\ next' \in [Waiters -> Waiters \cup {Nil}]
      /\ prev' \in [Waiters -> Waiters \cup {Nil}]
      /\ head' \in Waiters \cup {Nil} /\ tail' \in Waiters \cup {Nil}
  BY DEF Dequeue, TypeOK
<1> HIDE DEF n
<1>7. /\ next[w] = IF p = n THEN Nil ELSE order[p + 1]
      /\ prev[w] = IF p = 1 THEN Nil ELSE order[p - 1]
  BY <1>2, <1>3 DEF NextRight, PrevRight, n
<1>8. /\ p # n => p + 1 \in 1..n
      /\ p # 1 => p - 1 \in 1..n
      /\ n \in 1..n /\ 1 \in 1..n /\ n # 0
  BY <1>1, <1>3
<1>9. /\ next[w] = Nil <=> p = n
      /\ prev[w] = Nil <=> p = 1
  BY <1>1, <1>7, <1>8
(* A neighbour of w is known by its place.                                 *)
<1>10. \A l \in 1..n : /\ order[l] = next[w] <=> l = p + 1
                       /\ order[l] = prev[w] <=> l = p - 1
  <2> SUFFICES ASSUME NEW l \in 1..n
               PROVE  /\ order[l] = next[w] <=> l = p + 1
                      /\ order[l] = prev[w] <=> l = p - 1
    OBVIOUS
  <2>1. order[l] = next[w] <=> l = p + 1
    BY <1>1, <1>2, <1>3, <1>7, <1>8 DEF NoTwice, n
  <2>2. order[l] = prev[w] <=> l = p - 1
    BY <1>1, <1>2, <1>3, <1>7, <1>8 DEF NoTwice, n
  <2> QED
    BY <2>1, <2>2
<1>11. HeadRight'
  <2>1. CASE p = 1
    <3>1. n # 1 => 1 \in 1..(n - 1) /\ order'[1] = order[2]
      BY <2>1, <1>1, <1>4, <1>8
    <3> QED
      BY <2>1, <3>1, <1>1, <1>4, <1>6, <1>7, <1>9 DEF HeadRight
  <2>2. CASE p # 1
    <3>1. n - 1 # 0 /\ 1 \in 1..(n - 1) /\ order'[1] = order[1]
      BY <2>2, <1>1, <1>3, <1>4
    <3>2. head = order[1]
      BY <1>2, <1>8 DEF HeadRight, n
    <3> QED
      BY <2>2, <3>1, <3>2, <1>4, <1>6, <1>9 DEF HeadRight
  <2> QED
    BY <2>1, <2>2
<1>12. TailRight'
  <2>1. CASE p = n
    <3>1. n # 1 => n - 1 \in 1..(n - 1) /\ order'[n - 1] = order[n - 1]
      BY <2>1, <1>1, <1>4, <1>8
    <3> QED
      BY <2>1, <3>1, <1>1, <1>4, <1>6, <1>7, <1>9 DEF TailRight
  <2>2. CASE p # n
    <3>1. n - 1 # 0 /\ n - 1 \in 1..(n - 1) /\ ~(n - 1 < p) /\ (n - 1) + 1 = n
      BY <2>2, <1>1, <1>3
    <3>2. order'[n - 1] = order[n]
      BY <3>1, <1>4
    <3>3. tail = order[n]
      BY <1>2, <1>8 DEF TailRight, n
    <3> QED
      BY <2>2, <3>1, <3>2, <3>3, <1>4, <1>6, <1>9 DEF TailRight
  <2> QED
    BY <2>1, <2>2
<1>13. NextRight'
  <2> SUFFICES ASSUME NEW j \in 1..(n - 1)
               PROVE  next'[order'[j]] = (IF j = n - 1 THEN Nil ELSE order'[j + 1])
    BY <1>4 DEF NextRight
  <2>1. CASE j < p - 1
    <3>1. /\ j \in 1..n /\ j < p /\ j # n /\ j # n - 1 /\ j # p - 1
          /\ j + 1 < p /\ j + 1 \in 1..(n - 1)
      BY <2>1, <1>1, <1>3
    <3>2. next[order[j]] = order[j + 1]
      BY <3>1, <1>2 DEF NextRight, n
    <3> QED
      BY <3>1, <3>2, <1>1, <1>4, <1>6, <1>10
  <2>2. CASE j = p - 1
    <3>1. /\ j \in 1..n /\ j < p /\ ~(p < p)
          /\ j = n - 1 <=> p = n
          /\ j + 1 = p
      BY <2>2, <1>1, <1>3
    <3>2. next'[order'[j]] = next[w]
      BY <2>2, <3>1, <1>1, <1>4, <1>6, <1>10
    <3>3. p # n => p \in 1..(n - 1)
      BY <1>1, <1>3
    <3>4. p # n => order'[p] = order[p + 1]
      BY <3>1, <3>3, <1>4
    <3> QED
      BY <3>1, <3>2, <3>4, <1>7
  <2>3. CASE j >= p
    <3>1. /\ j + 1 \in 1..n /\ ~(j < p) /\ j + 1 # p - 1 /\ ~(j + 1 < p)
          /\ j = n - 1 <=> j + 1 = n
          /\ j # n - 1 => j + 1 \in 1..(n - 1)
      BY <2>3, <1>1, <1>3
    <3>2. next[order[j + 1]] = (IF j + 1 = n THEN Nil ELSE order[(j + 1) + 1])
      BY <3>1, <1>2 DEF NextRight, n
    <3>3. next'[order'[j]] = next[order[j + 1]]
      BY <3>1, <1>1, <1>4, <1>6, <1>10
    <3>4. j # n - 1 => order'[j + 1] = order[(j + 1) + 1]
      BY <3>1, <1>4
    <3> QED
      BY <3>1, <3>2, <3>3, <3>4
  <2> QED
    BY <2>1, <2>2, <2>3, <1>1, <1>3
<1>14. PrevRight'
  <2> SUFFICES ASSUME NEW j \in 1..(n - 1)
               PROVE  prev'[order'[j]] = (IF j = 1 THEN Nil ELSE order'[j - 1])
    BY <1>4 DEF PrevRight
  <2>1. CASE j < p
    <3>1. /\ j \in 1..n /\ j # p + 1
          /\ j # 1 => j - 1 \in 1..(n - 1) /\ j - 1 < p
      BY <2>1, <1>1, <1>3
    <3>2. prev[order[j]] = (IF j = 1 THEN Nil ELSE order[j - 1])
      BY <3>1, <1>2 DEF PrevRight, n
    <3> QED
      BY <2>1, <3>1, <3>2, <1>1, <1>4, <1>6, <1>10
  <2>2. CASE j = p
    <3>1. /\ j + 1 \in 1..n /\ j + 1 = p + 1 /\ ~(j < p)
          /\ j # 1 => p - 1 \in 1..(n - 1) /\ p - 1 < p
      BY <2>2, <1>1, <1>3
    <3>2. prev'[order'[j]] = prev[w]
      BY <2>2, <3>1, <1>1, <1>4, <1>6, <1>10
    <3>3. j # 1 => order'[p - 1] = order[p - 1]
      BY <3>1, <1>4
    <3> QED
      BY <2>2, <3>2, <3>3, <1>7
  <2>3. CASE j > p
    <3>1. /\ j + 1 \in 1..n /\ j + 1 # p + 1 /\ j + 1 # 1 /\ ~(j < p) /\ j # 1
          /\ j - 1 \in 1..(n - 1) /\ ~(j - 1 < p)
          /\ (j - 1) + 1 = j /\ (j + 1) - 1 = j
      BY <2>3, <1>1, <1>3
    <3>2. prev[order[j + 1]] = order[(j + 1) - 1]
      BY <3>1, <1>2 DEF PrevRight, n
    <3>3. order'[j - 1] = order[(j - 1) + 1]
      BY <3>1, <1>4
    <3>4. prev'[order'[j]] = prev[order[j + 1]]
      BY <3>1, <1>1, <1>4, <1>6, <1>10
    <3> QED
      BY <3>1, <3>2, <3>3, <3>4
  <2> QED
    BY <2>1, <2>2, <2>3, <1>1, <1>3
<1>15. PointersSpellOrder'
  BY <1>4, <1>11, <1>12, <1>13, <1>14
     DEF PointersSpellOrder, HeadRight, TailRight, NextRight, PrevRight, NoTwice
<1> QED
  BY <1>4, <1>5, <1>6, <1>15 DEF Holds

-----------------------------------------------------------------------------
(* OnlyLiveNodesLinked, in the words of Lemmas.                            *)
LEMMA LinkedHolds == OnlyLiveNodesLinked <=> \A w \in Waiters : Linked(w) <=> Holds(order, w)
BY DEF OnlyLiveNodesLinked, Holds

(* The head is the first in line, and still waits.                         *)
LEMMA HeadIsFirst ==
    ASSUME Inv, head # Nil
    PROVE  /\ head \in Waiters /\ Linked(head)
           /\ order # << >> /\ 1 \in 1..Len(order) /\ order[1] = head
<1>1. HeadRight /\ Len(order) \in Nat
  BY PointersAre, OrderType DEF Inv
<1>2. 1 \in 1..Len(order) /\ order[1] = head
  BY <1>1 DEF HeadRight
<1>3. head \in Waiters
  BY DEF Inv, TypeOK
<1>4. order # << >>
  BY <1>2
<1> QED
  BY <1>2, <1>3, <1>4 DEF Inv, OnlyLiveNodesLinked

LEMMA InitInv == Init => Inv
<1> SUFFICES ASSUME Init PROVE Inv
  OBVIOUS
<1>1. TypeOK
  BY EmptySeq DEF Init, TypeOK
<1>2. Len(order) = 0
  BY DEF Init
<1>3. PointersSpellOrder /\ OnlyLiveNodesLinked
  BY <1>2 DEF Init, PointersSpellOrder, OnlyLiveNodesLinked, Linked, Waiting
<1>4. WakerTagsUnion /\ WakerIsLatest /\ LatestWakerNotified
  BY DEF Init, WakerTagsUnion, WakerIsLatest, LatestWakerNotified, Linked, Woken, Waiting
<1> QED
  BY <1>1, <1>3, <1>4 DEF Inv

LEMMA SetHeadInputKeeps ==
    ASSUME Inv, NEW i \in Inputs, SetHeadInput(i)
    PROVE  Inv'
<1>1. /\ head \in Waiters /\ Linked(head)
      /\ state' = [state EXCEPT ![head] = i]
      /\ UNCHANGED <<borrowed, head, tail, next, prev, waker, future, aborted,
                     order, polledWith, notified>>
  BY HeadIsFirst DEF SetHeadInput, list
<1>2. TypeOK'
  BY <1>1 DEF Inv, TypeOK, Linked, Waiting
<1>3. PointersSpellOrder'
  BY <1>1 DEF Inv, PointersSpellOrder
<1>4. /\ OnlyLiveNodesLinked' /\ WakerTagsUnion'
      /\ WakerIsLatest' /\ LatestWakerNotified'
  BY <1>1 DEF Inv, TypeOK, OnlyLiveNodesLinked, WakerTagsUnion, WakerIsLatest,
              LatestWakerNotified, Linked, Woken, Waiting
<1> QED
  BY <1>2, <1>3, <1>4 DEF Inv

LEMMA WakeOneKeeps ==
    ASSUME Inv, NEW o \in Outputs, WakeOne(o)
    PROVE  Inv'
<1>1. /\ head \in Waiters /\ Linked(head) /\ Dequeue(head)
      /\ waker' = [waker EXCEPT ![head] = Nil]
      /\ state' = [state EXCEPT ![head] = o]
      /\ notified' = notified \cup
             {v \in Waiters : Waiting(v) /\ polledWith[v] = waker[head]}
      /\ UNCHANGED <<borrowed, future, aborted, polledWith>>
  BY HeadIsFirst DEF WakeOne
<1>2. /\ PointersSpellOrder'
      /\ head' \in Waiters \cup {Nil} /\ tail' \in Waiters \cup {Nil}
      /\ next' \in [Waiters -> Waiters \cup {Nil}]
      /\ prev' \in [Waiters -> Waiters \cup {Nil}]
      /\ order' \in Seq(Waiters)
      /\ \A v : Holds(order, v)' <=> Holds(order, v) /\ v # head
  BY <1>1, DequeueSpells DEF Inv
<1>3. TypeOK'
  BY <1>1, <1>2 DEF Inv, TypeOK, Linked, Waiting
<1>4. \A v \in Waiters : Linked(v)' <=> Linked(v) /\ v # head
  BY <1>1 DEF Inv, TypeOK, Linked, Waiting
<1>5. OnlyLiveNodesLinked'
  <2>1. \A v \in Waiters : Linked(v) <=> Holds(order, v)
    BY LinkedHolds DEF Inv
  <2>2. \A v \in Waiters : Linked(v)' <=> Holds(order, v)'
    BY <1>2, <1>4, <2>1
  <2> QED
    BY <2>2 DEF OnlyLiveNodesLinked, Holds
<1>6. WakerTagsUnion' /\ WakerIsLatest' /\ LatestWakerNotified'
  BY <1>1, <1>4 DEF Inv, TypeOK, WakerTagsUnion, WakerIsLatest, LatestWakerNotified,
                    Linked, Woken, Waiting
<1> QED
  BY <1>2, <1>3, <1>5, <1>6 DEF Inv

LEMMA FirstPollKeeps ==
    ASSUME Inv, NEW w \in Waiters, NEW k \in Wakers, NEW i \in Inputs,
           FirstPoll(w, k, i)
    PROVE  Inv'
<1>1. /\ future[w] = "idle" /\ Enqueue(w)
      /\ future' = [future EXCEPT ![w] = "waiting"]
      /\ state' = [state EXCEPT ![w] = i]
      /\ waker' = [waker EXCEPT ![w] = k]
      /\ polledWith' = [polledWith EXCEPT ![w] = k]
      /\ UNCHANGED <<borrowed, aborted, notified>>
      /\ k # Nil
  BY NilIsNothing DEF FirstPoll
<1>2. ~Holds(order, w)
  BY <1>1, LinkedHolds DEF Inv, Linked, Waiting
<1>3. /\ PointersSpellOrder'
      /\ head' \in Waiters /\ tail' \in Waiters
      /\ next' \in [Waiters -> Waiters \cup {Nil}]
      /\ prev' \in [Waiters -> Waiters \cup {Nil}]
      /\ order' \in Seq(Waiters)
      /\ \A v : Holds(order, v)' <=> Holds(order, v) \/ v = w
  BY <1>1, <1>2, EnqueueSpells DEF Inv
<1>4. TypeOK'
  BY <1>1, <1>3 DEF Inv, TypeOK
<1>5. \A v \in Waiters : Linked(v)' <=> Linked(v) \/ v = w
  BY <1>1 DEF Inv, TypeOK, Linked, Waiting
<1>6. OnlyLiveNodesLinked'
  <2>1. \A v \in Waiters : Linked(v) <=> Holds(order, v)
    BY LinkedHolds DEF Inv
  <2>2. \A v \in Waiters : Linked(v)' <=> Holds(order, v)'
    BY <1>3, <1>5, <2>1
  <2> QED
    BY <2>2 DEF OnlyLiveNodesLinked, Holds
<1>7. WakerTagsUnion' /\ WakerIsLatest' /\ LatestWakerNotified'
  BY <1>1 DEF Inv, TypeOK, WakerTagsUnion, WakerIsLatest, LatestWakerNotified,
              Linked, Woken, Waiting
<1> QED
  BY <1>3, <1>4, <1>6, <1>7 DEF Inv

LEMMA PollPendingKeeps ==
    ASSUME Inv, NEW w \in Waiters, NEW k \in Wakers, PollPending(w, k)
    PROVE  Inv'
<1>1. /\ Linked(w) /\ k # Nil
      /\ waker' = [waker EXCEPT ![w] = k]
      /\ polledWith' = [polledWith EXCEPT ![w] = k]
      /\ notified' = notified \ {w}
      /\ UNCHANGED <<borrowed, head, tail, next, prev, state, future, aborted, order>>
  BY NilIsNothing DEF PollPending, list
<1>2. TypeOK'
  BY <1>1 DEF Inv, TypeOK, Linked, Waiting
<1>3. PointersSpellOrder'
  BY <1>1 DEF Inv, PointersSpellOrder
<1>4. /\ OnlyLiveNodesLinked' /\ WakerTagsUnion'
      /\ WakerIsLatest' /\ LatestWakerNotified'
  BY <1>1 DEF Inv, TypeOK, OnlyLiveNodesLinked, WakerTagsUnion, WakerIsLatest,
              LatestWakerNotified, Linked, Woken, Waiting
<1> QED
  BY <1>2, <1>3, <1>4 DEF Inv

(* A woken future completes, or is dropped before it could.                *)
LEMMA ForgetWokenKeeps ==
    ASSUME Inv, NEW w \in Waiters, Woken(w), Forget(w),
           UNCHANGED <<borrowed, head, tail, next, prev, aborted, order>>
    PROVE  Inv'
<1>1. /\ future' = [future EXCEPT ![w] = "idle"]
      /\ state' = [state EXCEPT ![w] = Nil]
      /\ waker' = [waker EXCEPT ![w] = Nil]
      /\ polledWith' = [polledWith EXCEPT ![w] = Nil]
      /\ notified' = notified \ {w}
  BY DEF Forget
<1>2. TypeOK'
  BY <1>1 DEF Inv, TypeOK
<1>3. PointersSpellOrder'
  BY DEF Inv, PointersSpellOrder
<1>4. /\ OnlyLiveNodesLinked' /\ WakerTagsUnion'
      /\ WakerIsLatest' /\ LatestWakerNotified'
  BY <1>1 DEF Inv, TypeOK, OnlyLiveNodesLinked, WakerTagsUnion, WakerIsLatest,
              LatestWakerNotified, Linked, Woken, Waiting
<1> QED
  BY <1>2, <1>3, <1>4 DEF Inv

LEMMA DropFutureKeeps ==
    ASSUME Inv, NEW w \in Waiters, DropFuture(w)
    PROVE  Inv'
<1>1. /\ Waiting(w) /\ Forget(w)
      /\ future' = [future EXCEPT ![w] = "idle"]
      /\ state' = [state EXCEPT ![w] = Nil]
      /\ waker' = [waker EXCEPT ![w] = Nil]
      /\ polledWith' = [polledWith EXCEPT ![w] = Nil]
      /\ notified' = notified \ {w}
      /\ UNCHANGED <<borrowed, aborted>>
  BY DEF DropFuture, Forget
<1>2. CASE waker[w] = Nil
  <2>1. Woken(w) /\ UNCHANGED <<borrowed, head, tail, next, prev, aborted, order>>
    BY <1>1, <1>2 DEF DropFuture, Woken
  <2> QED
    BY <1>1, <2>1, ForgetWokenKeeps
<1>3. CASE waker[w] # Nil
  <2>1. Dequeue(w)
    BY <1>3 DEF DropFuture
  <2>2. /\ PointersSpellOrder'
        /\ head' \in Waiters \cup {Nil} /\ tail' \in Waiters \cup {Nil}
        /\ next' \in [Waiters -> Waiters \cup {Nil}]
        /\ prev' \in [Waiters -> Waiters \cup {Nil}]
        /\ order' \in Seq(Waiters)
        /\ \A v : Holds(order, v)' <=> Holds(order, v) /\ v # w
    BY <2>1, DequeueSpells DEF Inv
  <2>3. TypeOK'
    BY <1>1, <2>2 DEF Inv, TypeOK
  <2>4. \A v \in Waiters : Linked(v)' <=> Linked(v) /\ v # w
    BY <1>1 DEF Inv, TypeOK, Linked, Waiting
  <2>5. OnlyLiveNodesLinked'
    <3>1. \A v \in Waiters : Linked(v) <=> Holds(order, v)
      BY LinkedHolds DEF Inv
    <3>2. \A v \in Waiters : Linked(v)' <=> Holds(order, v)'
      BY <2>2, <2>4, <3>1
    <3> QED
      BY <3>2 DEF OnlyLiveNodesLinked, Holds
  <2>6. WakerTagsUnion' /\ WakerIsLatest' /\ LatestWakerNotified'
    BY <1>1, <2>4 DEF Inv, TypeOK, WakerTagsUnion, WakerIsLatest, LatestWakerNotified,
                      Linked, Woken, Waiting
  <2> QED
    BY <2>2, <2>3, <2>5, <2>6 DEF Inv
<1> QED
  BY <1>2, <1>3

(* Only the flag or the fate of the process changes.                       *)
LEMMA OthersKeep ==
    ASSUME Inv, borrowed' \in BOOLEAN, aborted' \in {"no", "poll", "drop"},
           UNCHANGED <<head, tail, nodes, future, order, polledWith, notified>>
    PROVE  Inv'
BY DEF Inv, TypeOK, PointersSpellOrder, OnlyLiveNodesLinked, WakerTagsUnion,
       WakerIsLatest, LatestWakerNotified, Linked, Woken, Waiting, nodes

LEMMA InvStep == Inv /\ [Next]_vars => Inv'
<1> SUFFICES ASSUME Inv, [Next]_vars PROVE Inv'
  OBVIOUS
<1>1. CASE Borrow \/ DropBorrowed
  BY <1>1, OthersKeep DEF Borrow, DropBorrowed, Inv, TypeOK
<1>2. ASSUME NEW i \in Inputs, SetHeadInput(i) PROVE Inv'
  BY <1>2, SetHeadInputKeeps
<1>3. ASSUME NEW o \in Outputs, WakeOne(o) PROVE Inv'
  BY <1>3, WakeOneKeeps
<1>4. ASSUME NEW w \in Waiters, NEW k \in Wakers, NEW i \in Inputs, FirstPoll(w, k, i)
      PROVE  Inv'
  BY <1>4, FirstPollKeeps
<1>5. ASSUME NEW w \in Waiters, Poll(w)
      PROVE  Inv'
  <2>1. ASSUME NEW k \in Wakers, PollPending(w, k) PROVE Inv'
    BY <2>1, PollPendingKeeps
  <2>2. CASE PollReady(w)
    BY <2>2, ForgetWokenKeeps DEF PollReady, list
  <2> QED
    BY <1>5, <2>1, <2>2 DEF Poll
<1>6. ASSUME NEW w \in Waiters, PollAborts(w) \/ DropAborts(w)
      PROVE  Inv'
  BY <1>6, OthersKeep DEF PollAborts, DropAborts, Inv, TypeOK, list
<1>7. ASSUME NEW w \in Waiters, DropFuture(w) PROVE Inv'
  BY <1>7, DropFutureKeeps
<1>8. CASE UNCHANGED vars
  BY <1>8, OthersKeep DEF vars, nodes, Inv, TypeOK
<1> QED
  BY <1>1, <1>2, <1>3, <1>4, <1>5, <1>6, <1>7, <1>8 DEF Next

LEMMA Invariance == Spec => []Inv
BY InitInv, InvStep, PTL DEF Spec

(* Every field and every node is what its type says; a future that does not*)
(* wait has no waker and no value left in its node.                        *)
THEOREM WaitListTypeOK == Spec => []TypeOK
<1>1. Inv => TypeOK
  BY DEF Inv
<1> QED
  BY <1>1, Invariance, PTL

(* enqueue and dequeue keep the pointers in one order, from both ends.     *)
THEOREM WaitListPointers == Spec => []PointersSpellOrder
<1>1. Inv => PointersSpellOrder
  BY DEF Inv
<1> QED
  BY <1>1, Invariance, PTL

(* The pointers lead to all waiting futures that were not woken, and to no *)
(* future that completed or was dropped.                                   *)
THEOREM WaitListLinked == Spec => []OnlyLiveNodesLinked
<1>1. Inv => OnlyLiveNodesLinked
  BY DEF Inv
<1> QED
  BY <1>1, Invariance, PTL

LEMMA LinkedPassAsserts ==
    ASSUME Inv, NEW w \in Waiters, Linked(w)
    PROVE  /\ (IF prev[w] = Nil THEN head ELSE next[prev[w]]) = w
           /\ (IF next[w] = Nil THEN tail ELSE prev[next[w]]) = w
<1> DEFINE n == Len(order)
<1>1. n \in Nat /\ \A i \in 1..n : order[i] \in Waiters /\ order[i] # Nil
  BY OrderType DEF Inv
<1>2. HeadRight /\ TailRight /\ NextRight /\ PrevRight
  BY PointersAre DEF Inv
<1>3. PICK p \in 1..n : order[p] = w
  BY DEF Inv, OnlyLiveNodesLinked
<1> HIDE DEF n
<1>4. (IF prev[w] = Nil THEN head ELSE next[prev[w]]) = w
  <2>1. CASE p = 1
    BY <2>1, <1>1, <1>2, <1>3 DEF HeadRight, PrevRight, n
  <2>2. CASE p # 1
    <3>1. p - 1 \in 1..n /\ p - 1 # n /\ (p - 1) + 1 = p
      BY <2>2, <1>1, <1>3
    <3>2. prev[w] = order[p - 1] /\ next[order[p - 1]] = order[(p - 1) + 1]
      BY <2>2, <3>1, <1>2, <1>3 DEF PrevRight, NextRight, n
    <3> QED
      BY <3>1, <3>2, <1>1, <1>3
  <2> QED
    BY <2>1, <2>2
<1>5. (IF next[w] = Nil THEN tail ELSE prev[next[w]]) = w
  <2>1. CASE p = n
    BY <2>1, <1>1, <1>2, <1>3 DEF TailRight, NextRight, n
  <2>2. CASE p # n
    <3>1. p + 1 \in 1..n /\ p + 1 # 1 /\ (p + 1) - 1 = p
      BY <2>2, <1>1, <1>3
    <3>2. next[w] = order[p + 1] /\ prev[order[p + 1]] = order[(p + 1) - 1]
      BY <2>2, <3>1, <1>2, <1>3 DEF PrevRight, NextRight, n
    <3> QED
      BY <3>1, <3>2, <1>1, <1>3
  <2> QED
    BY <2>1, <2>2
<1> QED
  BY <1>4, <1>5

(* The debug_asserts of `dequeue` hold whichever future is dropped next.   *)
THEOREM WaitListDequeueAsserts == Spec => []DequeueAsserts
<1>1. Inv => DequeueAsserts
  BY LinkedPassAsserts DEF DequeueAsserts
<1> QED
  BY <1>1, Invariance, PTL

(* The waker tells which half of the union may be read.                    *)
THEOREM WaitListUnion == Spec => []WakerTagsUnion
<1>1. Inv => WakerTagsUnion
  BY DEF Inv
<1> QED
  BY <1>1, Invariance, PTL

(* A woken future's latest waker was called.                               *)
THEOREM WaitListWakers == Spec => []LatestWakerNotified
<1>1. Inv => LatestWakerNotified
  BY DEF Inv
<1> QED
  BY <1>1, Invariance, PTL

-----------------------------------------------------------------------------
(***************************************************************************)
(* The wait list implements the queue.                                     *)
(***************************************************************************)
InputOf == [w \in Waiters |-> IF Linked(w) THEN state[w] ELSE Nil]
OutputOf == [w \in Waiters |-> IF Woken(w) THEN state[w] ELSE Nil]

LEMMA WithoutFirst ==
    ASSUME NEW S, NEW s \in Seq(S), s # << >>
    PROVE  Without(s, 1) = Tail(s)
<1>1. /\ Len(s) \in Nat \ {0} /\ 1 \in 1..Len(s)
      /\ Tail(s) \in Seq(S) /\ Len(Tail(s)) = Len(s) - 1
      /\ \A i \in 1..(Len(s) - 1) : Tail(s)[i] = s[i + 1]
  BY HeadTailProperties, EmptySeq
<1>2. /\ Without(s, 1) \in Seq(S)
      /\ Len(Without(s, 1)) = Len(s) - 1
      /\ \A i \in 1..(Len(s) - 1) : Without(s, 1)[i] = IF i < 1 THEN s[i] ELSE s[i + 1]
  BY <1>1, WithoutElements
<1>3. \A i \in 1..(Len(s) - 1) : Without(s, 1)[i] = Tail(s)[i]
  BY <1>1, <1>2
<1> QED
  BY <1>1, <1>2, <1>3, SeqEqual

LEMMA WakeOneWakesOldest ==
    ASSUME Inv, NEW o \in Outputs, WakeOne(o)
    PROVE  Queue!WakeOne(o)
<1>1. /\ head \in Waiters /\ Linked(head) /\ Dequeue(head)
      /\ order # << >> /\ Head(order) = head
      /\ waker' = [waker EXCEPT ![head] = Nil]
      /\ state' = [state EXCEPT ![head] = o]
      /\ UNCHANGED future
  BY HeadIsFirst DEF WakeOne
<1>2. PICK p \in 1..Len(order) : order[p] = head /\ order' = Without(order, p)
  BY <1>1 DEF Dequeue, OrderWithout, Without
<1>3. p = 1
  BY <1>2, HeadIsFirst, PointersAre DEF Inv, WakeOne, NoTwice
<1>4. order' = Tail(order)
  BY <1>1, <1>2, <1>3, WithoutFirst DEF Inv, TypeOK
<1>5. /\ InputOf' = [InputOf EXCEPT ![head] = Nil]
      /\ OutputOf' = [OutputOf EXCEPT ![head] = o]
  BY <1>1 DEF InputOf, OutputOf, Inv, TypeOK, Linked, Woken, Waiting
<1> QED
  BY <1>1, <1>4, <1>5 DEF Queue!WakeOne, InputOf, OutputOf

LEMMA FirstPollJoins ==
    ASSUME Inv, NEW w \in Waiters, NEW k \in Wakers, NEW i \in Inputs,
           FirstPoll(w, k, i)
    PROVE  Queue!Wait(w, i)
<1>1. /\ future[w] = "idle" /\ k # Nil
      /\ future' = [future EXCEPT ![w] = "waiting"]
      /\ state' = [state EXCEPT ![w] = i]
      /\ waker' = [waker EXCEPT ![w] = k]
      /\ order' = Append(order, w)
  BY NilIsNothing DEF FirstPoll, Enqueue
<1>2. ~Queue!Queued(w)
  BY <1>1 DEF Inv, OnlyLiveNodesLinked, Linked, Waiting, Queue!Queued
<1>3. OutputOf[w] = Nil
  BY <1>1 DEF OutputOf, Woken, Waiting
<1>4. InputOf' = [InputOf EXCEPT ![w] = i] /\ OutputOf' = OutputOf
  BY <1>1 DEF InputOf, OutputOf, Inv, TypeOK, Linked, Woken, Waiting
<1> QED
  BY <1>1, <1>2, <1>3, <1>4 DEF Queue!Wait, InputOf, OutputOf

LEMMA WokenResumesOnce ==
    ASSUME Inv, NEW w \in Waiters, Woken(w), Forget(w), UNCHANGED order
    PROVE  Queue!Resume(w)
<1>1. /\ future' = [future EXCEPT ![w] = "idle"]
      /\ state' = [state EXCEPT ![w] = Nil]
      /\ waker' = [waker EXCEPT ![w] = Nil]
  BY DEF Forget
<1>2. OutputOf[w] # Nil
  BY NilIsNothing DEF OutputOf, Inv, WakerTagsUnion
<1>3. OutputOf' = [OutputOf EXCEPT ![w] = Nil] /\ InputOf' = InputOf
  BY <1>1 DEF InputOf, OutputOf, Inv, TypeOK, Linked, Woken, Waiting
<1> QED
  BY <1>2, <1>3 DEF Queue!Resume, InputOf, OutputOf

LEMMA LinkedLeaves ==
    ASSUME Inv, NEW w \in Waiters, Linked(w), Forget(w), Dequeue(w)
    PROVE  Queue!CancelQueued(w)
<1>1. /\ future' = [future EXCEPT ![w] = "idle"]
      /\ state' = [state EXCEPT ![w] = Nil]
      /\ waker' = [waker EXCEPT ![w] = Nil]
  BY DEF Forget
<1>2. InputOf' = [InputOf EXCEPT ![w] = Nil] /\ OutputOf' = OutputOf
  BY <1>1 DEF InputOf, OutputOf, Inv, TypeOK, Linked, Woken, Waiting
<1> QED
  BY <1>2 DEF Dequeue, OrderWithout, Queue!CancelQueued, InputOf, OutputOf

LEMMA QueueStep == Inv /\ [Next]_vars => [Queue!Next]_Queue!vars
<1> SUFFICES ASSUME Inv, [Next]_vars PROVE [Queue!Next]_Queue!vars
  OBVIOUS
<1>1. ASSUME order' = order, InputOf' = InputOf, OutputOf' = OutputOf
      PROVE  [Queue!Next]_Queue!vars
  BY <1>1 DEF Queue!vars, InputOf, OutputOf
<1>2. ASSUME UNCHANGED <<waker, state, future, order>>
      PROVE  [Queue!Next]_Queue!vars
  BY <1>1, <1>2 DEF InputOf, OutputOf, Linked, Woken, Waiting
<1>3. ASSUME NEW i \in Inputs, SetHeadInput(i)
      PROVE  [Queue!Next]_Queue!vars
  <2>1. /\ head \in Waiters /\ Linked(head)
        /\ order # << >> /\ Head(order) = head
        /\ state' = [state EXCEPT ![head] = i]
        /\ UNCHANGED <<waker, future, order>>
    BY <1>3, HeadIsFirst DEF SetHeadInput
  <2>2. InputOf' = [InputOf EXCEPT ![head] = i] /\ OutputOf' = OutputOf
    BY <2>1 DEF InputOf, OutputOf, Inv, TypeOK, Linked, Woken, Waiting
  <2>3. Queue!SetHeadInput(i)
    BY <2>1, <2>2 DEF Queue!SetHeadInput, InputOf, OutputOf
  <2> QED
    BY <2>3 DEF Queue!Next
<1>4. ASSUME NEW o \in Outputs, WakeOne(o)
      PROVE  [Queue!Next]_Queue!vars
  BY <1>4, WakeOneWakesOldest DEF Queue!Next
<1>5. ASSUME NEW w \in Waiters, NEW k \in Wakers, NEW i \in Inputs, FirstPoll(w, k, i)
      PROVE  [Queue!Next]_Queue!vars
  BY <1>5, FirstPollJoins DEF Queue!Next
<1>6. ASSUME NEW w \in Waiters, NEW k \in Wakers, PollPending(w, k)
      PROVE  [Queue!Next]_Queue!vars
  <2>1. /\ Linked(w) /\ k # Nil
        /\ waker' = [waker EXCEPT ![w] = k]
        /\ UNCHANGED <<state, future, order>>
    BY <1>6, NilIsNothing DEF PollPending
  <2>2. InputOf' = InputOf /\ OutputOf' = OutputOf
    BY <2>1 DEF InputOf, OutputOf, Inv, TypeOK, Linked, Woken, Waiting
  <2> QED
    BY <2>1, <2>2, <1>1
<1>7. ASSUME NEW w \in Waiters, PollReady(w)
      PROVE  [Queue!Next]_Queue!vars
  BY <1>7, WokenResumesOnce DEF PollReady, Queue!Next
<1>8. ASSUME NEW w \in Waiters, DropFuture(w)
      PROVE  [Queue!Next]_Queue!vars
  <2>1. CASE waker[w] = Nil
    BY <1>8, <2>1, WokenResumesOnce DEF DropFuture, Woken, Queue!Next
  <2>2. CASE waker[w] # Nil
    <3>1. Queue!CancelQueued(w)
      BY <1>8, <2>2, LinkedLeaves DEF DropFuture, Linked
    <3> QED
      BY <3>1 DEF Queue!Cancel, Queue!Next
  <2> QED
    BY <2>1, <2>2
<1>9. CASE Borrow \/ DropBorrowed \/ UNCHANGED vars
  BY <1>9, <1>2 DEF Borrow, DropBorrowed, vars, nodes
<1>10. ASSUME NEW w \in Waiters, PollAborts(w) \/ DropAborts(w)
       PROVE  [Queue!Next]_Queue!vars
  BY <1>10, <1>2 DEF PollAborts, DropAborts, nodes
<1> QED
  BY <1>3, <1>4, <1>5, <1>6, <1>7, <1>8, <1>9, <1>10 DEF Next, Poll

(* With nothing but pointers, wakers and unions, the list does what the    *)
(* queue promises: first come first served, and every input and output     *)
(* with the future it belongs to.                                          *)
THEOREM WaitListImplementsQueue == Spec => ImplementsQueue
<1>1. Init => Queue!Init
  BY DEF Init, Queue!Init, Linked, Woken, Waiting
<1>2. Inv /\ [Next]_vars => [Queue!Next]_Queue!vars
  BY QueueStep
<1> QED
  BY <1>1, <1>2, Invariance, PTL DEF Spec, ImplementsQueue, Queue!Spec
=============================================================================
