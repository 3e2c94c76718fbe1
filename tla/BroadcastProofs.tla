--------------------------- MODULE BroadcastProofs ---------------------------
(***************************************************************************)
(* Theorems about `Broadcast`, for any set of indices and tasks, any       *)
(* capacity and any number of messages for which ids do not come again.    *)
(***************************************************************************)
EXTENDS Broadcast, SequenceTheorems, FiniteSetTheorems, TLAPS

-----------------------------------------------------------------------------
(***************************************************************************)
(* One subscriber: g are the messages put into its buffer, b is the        *)
(* buffer.                                                                 *)
(***************************************************************************)
Rising(g) == \A i, j \in 1..Len(g) : i < j => g[i] < g[j]
EndsWith(g, b) == /\ Len(b) <= Len(g)
                  /\ \A i \in 1..Len(b) : b[i] = g[Len(g) - Len(b) + i]
Given(g, m) == \E i \in 1..Len(g) : g[i] = m

LEMMA EmptyInOrder == /\ Rising(<< >>)
                      /\ \A g : Len(g) \in Nat => EndsWith(g, << >>)
<1>1. Len(<< >>) = 0 /\ 1..0 = {}
  BY EmptySeq
<1> QED
  BY <1>1 DEF Rising, EndsWith

LEMMA AppendTells ==
    ASSUME NEW T, NEW g \in Seq(T), NEW m \in T
    PROVE  /\ Append(g, m) \in Seq(T)
           /\ Len(g) \in Nat /\ Len(Append(g, m)) = Len(g) + 1
           /\ \A i \in 1..Len(g) : Append(g, m)[i] = g[i]
           /\ Append(g, m)[Len(g) + 1] = m
BY AppendProperties, LenProperties

(* A message that is newer than all before it.                             *)
LEMMA PushInOrder ==
    ASSUME NEW N \in Nat, NEW g \in Seq(1..N), NEW b \in Seq(1..N), NEW m \in 1..N,
           Rising(g), EndsWith(g, b), \A i \in 1..Len(g) : g[i] < m
    PROVE  /\ Rising(Append(g, m))
           /\ EndsWith(Append(g, m), Append(b, m))
           /\ \A x : Given(Append(g, m), x) <=> Given(g, x) \/ x = m
<1> DEFINE h == Append(g, m)
           c == Append(b, m)
<1>1. /\ Len(g) \in Nat /\ Len(h) = Len(g) + 1
      /\ \A i \in 1..Len(g) : h[i] = g[i]
      /\ h[Len(g) + 1] = m
  BY AppendTells
<1>2. /\ Len(b) \in Nat /\ Len(c) = Len(b) + 1
      /\ \A i \in 1..Len(b) : c[i] = b[i]
      /\ c[Len(b) + 1] = m
  BY AppendTells
<1> HIDE DEF h, c
<1>3. Rising(h)
  <2>1. ASSUME NEW i \in 1..Len(h), NEW j \in 1..Len(h), i < j
        PROVE  h[i] < h[j]
    <3>1. i \in 1..Len(g) /\ h[i] = g[i]
      BY <1>1, <2>1
    <3>2. CASE j = Len(g) + 1
      BY <1>1, <3>1, <3>2
    <3>3. CASE j # Len(g) + 1
      <4>1. j \in 1..Len(g) /\ h[j] = g[j]
        BY <1>1, <3>3
      <4> QED
        BY <2>1, <3>1, <4>1 DEF Rising
    <3> QED
      BY <3>2, <3>3
  <2> QED
    BY <2>1 DEF Rising
<1>4. EndsWith(h, c)
  <2>1. Len(c) <= Len(h)
    BY <1>1, <1>2 DEF EndsWith
  <2>2. ASSUME NEW i \in 1..Len(c)
        PROVE  c[i] = h[Len(h) - Len(c) + i]
    <3>1. Len(h) - Len(c) + i = Len(g) - Len(b) + i
      BY <1>1, <1>2
    <3>2. CASE i = Len(b) + 1
      <4>1. Len(h) - Len(c) + i = Len(g) + 1
        BY <1>1, <1>2, <3>1, <3>2
      <4> QED
        BY <1>1, <1>2, <3>2, <4>1
    <3>3. CASE i # Len(b) + 1
      <4>1. i \in 1..Len(b)
        BY <1>2, <3>3
      <4>2. Len(g) - Len(b) + i \in 1..Len(g)
        BY <1>1, <1>2, <4>1 DEF EndsWith
      <4>3. c[i] = b[i] /\ b[i] = g[Len(g) - Len(b) + i]
        BY <1>2, <4>1 DEF EndsWith
      <4>4. h[Len(g) - Len(b) + i] = g[Len(g) - Len(b) + i]
        BY <1>1, <4>2
      <4> QED
        BY <3>1, <4>3, <4>4
    <3> QED
      BY <3>2, <3>3
  <2> QED
    BY <2>1, <2>2 DEF EndsWith
<1>5. ASSUME NEW x
      PROVE  Given(h, x) <=> Given(g, x) \/ x = m
  <2>1. ASSUME NEW i \in 1..Len(h)
        PROVE  i \in 1..Len(g) \/ i = Len(g) + 1
    BY <1>1
  <2>2. 1..Len(g) \subseteq 1..Len(h) /\ Len(g) + 1 \in 1..Len(h)
    BY <1>1
  <2> QED
    BY <1>1, <2>1, <2>2 DEF Given
<1> QED
  BY <1>3, <1>4, <1>5 DEF h, c

(* The oldest message is taken out of the buffer.                          *)
LEMMA PopInOrder ==
    ASSUME NEW T, NEW g \in Seq(T), NEW b \in Seq(T), b # << >>, EndsWith(g, b)
    PROVE  /\ Tail(b) \in Seq(T) /\ Len(Tail(b)) <= Len(b)
           /\ EndsWith(g, Tail(b))
<1>1. /\ Len(b) \in Nat \ {0} /\ Len(g) \in Nat
      /\ Tail(b) \in Seq(T) /\ Len(Tail(b)) = Len(b) - 1
      /\ \A i \in 1..(Len(b) - 1) : Tail(b)[i] = b[i + 1]
  BY HeadTailProperties, LenProperties, EmptySeq
<1>2. ASSUME NEW i \in 1..Len(Tail(b))
      PROVE  Tail(b)[i] = g[Len(g) - Len(Tail(b)) + i]
  <2>1. i + 1 \in 1..Len(b) /\ Tail(b)[i] = b[i + 1]
    BY <1>1
  <2>2. b[i + 1] = g[Len(g) - Len(b) + (i + 1)]
    BY <2>1 DEF EndsWith
  <2>3. Len(g) - Len(b) + (i + 1) = Len(g) - Len(Tail(b)) + i
    BY <1>1
  <2> QED
    BY <2>1, <2>2, <2>3
<1> QED
  BY <1>1, <1>2 DEF EndsWith

-----------------------------------------------------------------------------
(***************************************************************************)
(* The invariant.                                                          *)
(***************************************************************************)

(* Ids count the calls, a suspended one is among them, and nothing lies in *)
(* the future.                                                             *)
Past == /\ id = calls /\ sending # 0
        /\ \A s \in Slots : /\ rid[s] <= calls
                            /\ \A i \in 1..Len(got[s]) : got[s][i] <= calls
        /\ \A m \in completed : m <= calls

(* InOrderOnce, also of subscribers that left.                             *)
InOrder == \A s \in Slots : Rising(got[s]) /\ EndsWith(got[s], buf[s])

(* A suspended call whose task was not woken since its latest poll has its *)
(* waker registered, and cannot go on.                                     *)
Missing == {s \in slab : ~Has(s, id)}
SenderWaits == (sending # Nil /\ "tx" \notin notified) =>
                  /\ sender = polledBy["tx"]
                  /\ Missing # {}
                  /\ \A s \in Missing : AtCapacity(s)
ReceiverWaits == \A s \in Slots : (polledBy[s] # Nil /\ s \notin notified) =>
                  waker[s] = polledBy[s] /\ buf[s] = << >> /\ Rc!AnyStrong(rc)

(* A suspended `recv` borrows its subscriber.                              *)
CallsBorrow == \A s \in Slots : polledBy[s] # Nil => s \in slab

(* That ids tell who has the message of a suspended `send` needs Past: a   *)
(* subscriber that is new, or that this `send` has not reached, has an     *)
(* older id.  That its message may be put behind the others, and that all  *)
(* have it when they are as many as the subscribers, needs that.           *)
Inv == /\ TypeOK /\ Past
       /\ InOrder /\ IdTellsWhoHasIt /\ GuaranteedDelivery
       /\ CallsBorrow /\ SenderWaits /\ ReceiverWaits

LEMMA NumbersAreNoNil == Nil \notin Nat /\ \A n \in Nat : n # Nil
BY NilIsNothing

(* Who is woken by a poll of e, and that nothing else changes for the      *)
(* other calls.                                                            *)
LEMMA PolledAndWakesTells ==
    ASSUME TypeOK, NEW e \in Callers, NEW k \in Tasks \cup {Nil}, NEW W,
           PolledAndWakes(e, k, W)
    PROVE  /\ polledBy' \in [Callers -> Tasks \cup {Nil}]
           /\ polledBy'[e] = k
           /\ \A d \in Callers \ {e} : /\ polledBy'[d] = polledBy[d]
                                       /\ d \in notified => d \in notified'
           /\ \A d \in Callers : polledBy'[d] # Nil /\ polledBy'[d] \in W => d \in notified'
           /\ notified' \subseteq {d \in Callers : polledBy'[d] # Nil}
<1>1. /\ polledBy' \in [Callers -> Tasks \cup {Nil}]
      /\ polledBy'[e] = k
      /\ \A d \in Callers \ {e} : polledBy'[d] = polledBy[d]
  BY DEF PolledAndWakes, TypeOK
<1>2. notified' = (notified \ {e}) \cup {d \in Callers : polledBy'[d] \in W \ {Nil}}
  BY DEF PolledAndWakes
<1>3. notified \subseteq {d \in Callers : polledBy[d] # Nil}
  BY DEF TypeOK
<1> QED
  BY <1>1, <1>2, <1>3

LEMMA CallersApart == /\ "tx" \in Callers /\ Slots \subseteq Callers \ {"tx"}
                      /\ \A s \in Slots : s # "tx"
BY SlotsFinite DEF Callers

LEMMA SlabFinite == TypeOK => IsFiniteSet(slab) /\ Cardinality(slab) \in Nat
BY SlotsFinite, FS_Subset, FS_CardinalityType DEF TypeOK

LEMMA InitInv == Init => Inv
<1> SUFFICES ASSUME Init PROVE Inv
  OBVIOUS
<1>1. Cardinality({}) = 0
  BY FS_EmptySet
<1>2. << >> \in Seq(1..MaxSends) /\ Len(<< >>) = 0
  BY EmptySeq
<1>3. /\ rc = [strong |-> 1, weak |-> 0] /\ slab = {} /\ id = 0 /\ calls = 0
      /\ buf = [s \in Slots |-> << >>] /\ got = [s \in Slots |-> << >>]
      /\ since = [s \in Slots |-> 0] /\ rid = [s \in Slots |-> 0]
      /\ completed = {} /\ sending = Nil /\ notified = {}
      /\ polledBy = [c \in Callers |-> Nil]
  BY DEF Init, Rc!New
<1>4. \A s \in Slots : Len(buf[s]) = 0 /\ Len(got[s]) = 0
  BY <1>2, <1>3
<1>5. TypeOK
  <2>1. rc \in [strong : 0..1, weak : Nat] /\ rc.weak = Cardinality(slab)
    BY <1>1, <1>3
  <2>2. /\ buf \in [Slots -> Seq(1..MaxSends)] /\ got \in [Slots -> Seq(1..MaxSends)]
        /\ since \in [Slots -> 0..MaxSends] /\ rid \in [Slots -> 0..MaxId]
    BY <1>2, <1>3, IdsDoNotComeAgain
  <2>3. \A s \in Slots : ~unbounded => Len(buf[s]) <= Capacity
    BY <1>4, CapacityIsPositive
  <2>4. polledBy["tx"] = Nil
    BY <1>3, CallersApart
  <2>5. id \in 0..MaxId /\ calls \in 0..MaxSends
    BY <1>3, IdsDoNotComeAgain
  <2> QED
    BY <1>3, <2>1, <2>2, <2>3, <2>4, <2>5 DEF Init, TypeOK
<1>6. Past /\ InOrder
  BY <1>3, <1>4, NumbersAreNoNil DEF Past, InOrder, Rising, EndsWith
<1>7. IdTellsWhoHasIt /\ GuaranteedDelivery /\ SenderWaits
  BY <1>3 DEF IdTellsWhoHasIt, GuaranteedDelivery, SenderWaits
<1>8. CallsBorrow /\ ReceiverWaits
  BY <1>3, CallersApart DEF CallsBorrow, ReceiverWaits
<1> QED
  BY <1>5, <1>6, <1>7, <1>8 DEF Inv

-----------------------------------------------------------------------------
(***************************************************************************)
(* Sending.                                                                *)
(***************************************************************************)

(* What the buffers are like after message m went to those in S.           *)
Delivered(S, m) ==
    /\ buf' \in [Slots -> Seq(1..MaxSends)]
    /\ got' \in [Slots -> Seq(1..MaxSends)]
    /\ InOrder'
    /\ \A s \in Slots : ~unbounded => Len(buf'[s]) <= Capacity
    /\ \A s \in Slots : \A i \in 1..Len(got'[s]) : got'[s][i] <= m
    /\ \A s \in Slots : \A x : Given(got'[s], x) <=> Given(got[s], x) \/ (s \in S /\ x = m)
    /\ \A s \in Slots \ S : buf'[s] = buf[s] /\ got'[s] = got[s]

LEMMA PushToDelivers ==
    ASSUME Inv, NEW S \in SUBSET slab, NEW m \in 1..MaxSends, PushTo(S, m), calls <= m,
           \A s \in S : /\ ~AtCapacity(s)
                        /\ \A i \in 1..Len(got[s]) : got[s][i] < m
    PROVE  Delivered(S, m)
<1>a. TypeOK /\ Past /\ InOrder
  BY DEF Inv
<1>b. /\ MaxSends \in Nat /\ m \in Nat /\ calls \in Nat /\ Capacity \in Nat
      /\ S \subseteq Slots
      /\ \A s \in Slots : buf[s] \in Seq(1..MaxSends) /\ got[s] \in Seq(1..MaxSends)
  BY <1>a, IdsDoNotComeAgain, CapacityIsPositive DEF TypeOK
<1>1. ASSUME NEW s \in S
      PROVE  /\ s \in Slots
             /\ buf'[s] = Append(buf[s], m) /\ got'[s] = Append(got[s], m)
             /\ buf'[s] \in Seq(1..MaxSends) /\ Len(buf'[s]) = Len(buf[s]) + 1
             /\ got'[s] \in Seq(1..MaxSends) /\ Len(got'[s]) = Len(got[s]) + 1
             /\ Len(buf[s]) \in Nat /\ Len(got[s]) \in Nat
             /\ \A i \in 1..Len(got'[s]) : got'[s][i] <= m
             /\ Rising(got'[s]) /\ EndsWith(got'[s], buf'[s])
             /\ \A x : Given(got'[s], x) <=> Given(got[s], x) \/ x = m
             /\ ~unbounded => Len(buf'[s]) <= Capacity
  <2>1. s \in Slots /\ buf'[s] = Append(buf[s], m) /\ got'[s] = Append(got[s], m)
    BY <1>b DEF PushTo
  <2>2. /\ buf'[s] \in Seq(1..MaxSends) /\ Len(buf'[s]) = Len(buf[s]) + 1
        /\ got'[s] \in Seq(1..MaxSends) /\ Len(got'[s]) = Len(got[s]) + 1
        /\ Len(buf[s]) \in Nat /\ Len(got[s]) \in Nat
        /\ \A i \in 1..Len(got[s]) : got'[s][i] = got[s][i]
        /\ got'[s][Len(got[s]) + 1] = m
    BY <1>b, <2>1, AppendTells
  <2>3. /\ Rising(got'[s]) /\ EndsWith(got'[s], buf'[s])
        /\ \A x : Given(got'[s], x) <=> Given(got[s], x) \/ x = m
    <3>1. Rising(got[s]) /\ EndsWith(got[s], buf[s])
      BY <1>a, <2>1 DEF InOrder
    <3>2. \A i \in 1..Len(got[s]) : got[s][i] < m
      OBVIOUS
    <3>3. got[s] \in Seq(1..MaxSends) /\ buf[s] \in Seq(1..MaxSends)
      BY <1>b, <2>1
    <3>4. /\ Rising(Append(got[s], m))
          /\ EndsWith(Append(got[s], m), Append(buf[s], m))
          /\ \A x : Given(Append(got[s], m), x) <=> Given(got[s], x) \/ x = m
      BY <1>b, <3>1, <3>2, <3>3, PushInOrder
    <3> QED
      BY <2>1, <3>4
  <2>4. ASSUME NEW i \in 1..Len(got'[s])
        PROVE  got'[s][i] <= m
    <3>1. CASE i = Len(got[s]) + 1
      BY <1>b, <2>2, <3>1
    <3>2. CASE i # Len(got[s]) + 1
      <4>1. i \in 1..Len(got[s])
        BY <2>2, <3>2
      <4>2. got'[s][i] = got[s][i] /\ got[s][i] < m
        BY <2>2, <4>1
      <4>3. got[s][i] \in 1..MaxSends
        BY <1>b, <2>1, <4>1, ElementOfSeq
      <4> QED
        BY <1>b, <4>2, <4>3
    <3> QED
      BY <3>1, <3>2
  <2>5. ~unbounded => Len(buf'[s]) <= Capacity
    <3>1. ~unbounded => Len(buf[s]) <= Capacity /\ Len(buf[s]) # Capacity
      BY <1>a, <2>1 DEF AtCapacity, TypeOK
    <3> QED
      BY <1>b, <2>2, <3>1
  <2> QED
    BY <2>1, <2>2, <2>3, <2>4, <2>5
<1>2. ASSUME NEW s \in Slots \ S
      PROVE  /\ buf'[s] = buf[s] /\ got'[s] = got[s]
             /\ Rising(got'[s]) /\ EndsWith(got'[s], buf'[s])
             /\ \A i \in 1..Len(got'[s]) : got'[s][i] <= m
             /\ ~unbounded => Len(buf'[s]) <= Capacity
  <2>1. buf'[s] = buf[s] /\ got'[s] = got[s]
    BY DEF PushTo
  <2>2. Rising(got[s]) /\ EndsWith(got[s], buf[s])
    BY <1>a DEF InOrder
  <2>3. ASSUME NEW i \in 1..Len(got[s])
        PROVE  got[s][i] <= m
    <3>1. got[s][i] <= calls
      BY <1>a DEF Past
    <3>2. got[s][i] \in 1..MaxSends
      BY <1>b, ElementOfSeq
    <3> QED
      BY <1>b, <3>1, <3>2
  <2>4. ~unbounded => Len(buf[s]) <= Capacity
    BY <1>a DEF TypeOK
  <2> QED
    BY <2>1, <2>2, <2>3, <2>4
<1>3. buf' \in [Slots -> Seq(1..MaxSends)] /\ got' \in [Slots -> Seq(1..MaxSends)]
  <2>1. \A s \in Slots : buf'[s] \in Seq(1..MaxSends) /\ got'[s] \in Seq(1..MaxSends)
    BY <1>b, <1>1, <1>2
  <2>2. /\ buf' = [s \in Slots |-> buf'[s]]
        /\ got' = [s \in Slots |-> got'[s]]
    BY DEF PushTo
  <2> QED
    BY <2>1, <2>2
<1>4. InOrder'
  <2>1. ASSUME NEW s \in Slots
        PROVE  Rising(got'[s]) /\ EndsWith(got'[s], buf'[s])
    BY <1>1, <1>2
  <2> QED
    BY <2>1 DEF InOrder
<1>5. \A s \in Slots : \A x : Given(got'[s], x) <=> Given(got[s], x) \/ (s \in S /\ x = m)
  <2>1. ASSUME NEW s \in S
        PROVE  \A x : Given(got'[s], x) <=> Given(got[s], x) \/ (s \in S /\ x = m)
    BY <1>1
  <2>2. ASSUME NEW s \in Slots \ S
        PROVE  \A x : Given(got'[s], x) <=> Given(got[s], x) \/ (s \in S /\ x = m)
    BY <1>2, <2>2
  <2> QED
    BY <2>1, <2>2
<1>6. \A s \in Slots : ~unbounded => Len(buf'[s]) <= Capacity
  BY <1>1, <1>2
<1>7. \A s \in Slots : \A i \in 1..Len(got'[s]) : got'[s][i] <= m
  BY <1>1, <1>2
<1> QED
  BY <1>2, <1>3, <1>4, <1>5, <1>6, <1>7 DEF Delivered

(* After a poll of the sender's call that put messages only where it woke  *)
(* the subscriber: the receivers' side of the invariant.                   *)
ReceiversKept(k) ==
    /\ polledBy' \in [Callers -> Tasks \cup {Nil}]
    /\ polledBy'["tx"] = k
    /\ notified' \subseteq {d \in Callers : polledBy'[d] # Nil}
    /\ CallsBorrow' /\ ReceiverWaits'

LEMMA SenderPolled ==
    ASSUME Inv, NEW S \in SUBSET slab, NEW k \in Tasks \cup {Nil},
           NEW W, \A s \in S : waker[s] \in W,
           PolledAndWakes("tx", k, W),
           \A s \in Slots \ S : buf'[s] = buf[s],
           UNCHANGED <<rc, slab, waker>>
    PROVE  ReceiversKept(k)
<1>1. TypeOK /\ CallsBorrow /\ ReceiverWaits
  BY DEF Inv
<1>2. /\ polledBy' \in [Callers -> Tasks \cup {Nil}]
      /\ polledBy'["tx"] = k
      /\ \A d \in Callers \ {"tx"} : /\ polledBy'[d] = polledBy[d]
                                     /\ d \in notified => d \in notified'
      /\ \A d \in Callers : polledBy'[d] # Nil /\ polledBy'[d] \in W => d \in notified'
      /\ notified' \subseteq {d \in Callers : polledBy'[d] # Nil}
  BY <1>1, CallersApart, PolledAndWakesTells
<1>3. CallsBorrow'
  BY <1>1, <1>2, CallersApart DEF CallsBorrow
<1>4. ASSUME NEW s \in Slots, polledBy'[s] # Nil, s \notin notified'
      PROVE  waker'[s] = polledBy'[s] /\ buf'[s] = << >> /\ Rc!AnyStrong(rc)'
  <2>1. s \in Callers \ {"tx"} /\ polledBy'[s] = polledBy[s] /\ s \notin notified
    BY <1>2, <1>4, CallersApart
  <2>2. waker[s] = polledBy[s] /\ buf[s] = << >> /\ Rc!AnyStrong(rc)
    BY <1>1, <1>4, <2>1 DEF ReceiverWaits
  <2>3. s \notin S
    BY <1>2, <1>4, <2>1, <2>2
  <2> QED
    BY <2>1, <2>2, <2>3
<1>5. ReceiverWaits'
  BY <1>4 DEF ReceiverWaits
<1> QED
  BY <1>2, <1>3, <1>5 DEF ReceiversKept

(* A poll of `send` that finds nobody.                                     *)
LEMMA SendFindsNobodyKeeps ==
    ASSUME Inv, NEW m \in 1..MaxSends, calls <= m, id' = m, calls' = m,
           SendFindsNobody(m), UNCHANGED <<rc, slab, waker, unbounded, since>>
    PROVE  Inv'
<1>1. TypeOK /\ Past /\ InOrder
  BY DEF Inv
<1>2. /\ MaxSends \in Nat /\ m \in Nat /\ m # Nil /\ m \in 0..MaxId
      /\ calls \in Nat
      /\ \A s \in Slots : got[s] \in Seq(1..MaxSends) /\ rid[s] \in Nat
      /\ completed \subseteq Nat
  BY <1>1, IdsDoNotComeAgain, NumbersAreNoNil DEF TypeOK
<1>3. slab = {}
  <2>1. Cardinality(slab) = 0
    BY <1>1, SlabFinite DEF SendFindsNobody, Rc!AnyWeak, TypeOK
  <2> QED
    BY <1>1, <2>1, SlabFinite, FS_EmptySet
<1>4. ReceiversKept(Nil)
  <2>1. /\ PolledAndWakes("tx", Nil, {}) /\ buf' = buf
        /\ rc' = rc /\ slab' = slab /\ waker' = waker
    BY DEF SendFindsNobody
  <2>2. \A s \in {} : waker[s] \in {}
    OBVIOUS
  <2>3. {} \in SUBSET slab /\ \A s \in Slots \ {} : buf'[s] = buf[s]
    BY <2>1
  <2> QED
    BY <2>1, <2>2, <2>3, SenderPolled
<1>5. /\ sending' = Nil /\ completed' = completed \cup {m}
      /\ sender' = sender /\ rid' = rid /\ buf' = buf /\ got' = got
      /\ rc' = rc /\ slab' = slab /\ waker' = waker /\ unbounded' = unbounded
      /\ since' = since
  BY DEF SendFindsNobody
<1>6. TypeOK'
  BY <1>1, <1>2, <1>4, <1>5 DEF TypeOK, ReceiversKept
<1>7. Past'
  <2>1. ASSUME NEW s \in Slots
        PROVE  rid'[s] <= m /\ \A i \in 1..Len(got'[s]) : got'[s][i] <= m
    <3>1. rid[s] <= calls /\ \A i \in 1..Len(got[s]) : got[s][i] <= calls
      BY <1>1 DEF Past
    <3>2. \A i \in 1..Len(got[s]) : got[s][i] \in 1..MaxSends
      BY <1>2, ElementOfSeq
    <3> QED
      BY <1>2, <1>5, <3>1, <3>2
  <2>2. \A x \in completed' : x <= m
    <3>1. \A x \in completed : x <= calls /\ x \in Nat
      BY <1>1, <1>2 DEF Past
    <3> QED
      BY <1>2, <1>5, <3>1
  <2>3. sending' # 0
    BY <1>5, NumbersAreNoNil
  <2> QED
    BY <2>1, <2>2, <2>3 DEF Past
<1>8. InOrder'
  BY <1>1, <1>5 DEF InOrder
<1>9. IdTellsWhoHasIt' /\ GuaranteedDelivery' /\ SenderWaits'
  BY <1>3, <1>5 DEF IdTellsWhoHasIt, GuaranteedDelivery, SenderWaits
<1> QED
  BY <1>4, <1>6, <1>7, <1>8, <1>9 DEF Inv, ReceiversKept

(* Equally many are the same.                                              *)
LEMMA AllReached ==
    ASSUME TypeOK, NEW A \in SUBSET slab
    PROVE  Cardinality(A) = Cardinality(slab) <=> A = slab
<1>1. CASE A = slab
  BY <1>1
<1>2. CASE A # slab
  <2>1. PICK s \in slab : s \notin A
    BY <1>2
  <2>2. IsFiniteSet(slab) /\ Cardinality(slab) \in Nat /\ IsFiniteSet(slab \ {s})
    BY SlabFinite, FS_RemoveElement
  <2>3. Cardinality(slab \ {s}) = Cardinality(slab) - 1
    BY <2>1, <2>2, FS_RemoveElement
  <2>4. Cardinality(A) <= Cardinality(slab \ {s}) /\ Cardinality(A) \in Nat
    <3>1. A \in SUBSET (slab \ {s})
      BY <2>1
    <3>2. /\ IsFiniteSet(A) /\ Cardinality(A) <= Cardinality(slab \ {s})
      BY <2>2, <3>1, FS_Subset
    <3> QED
      BY <3>2, FS_CardinalityType
  <2> QED
    BY <1>2, <2>2, <2>3, <2>4
<1> QED
  BY <1>1, <1>2

(* A poll of `send` that finds somebody.                                   *)
LEMMA SendDeliversKeeps ==
    ASSUME Inv, NEW m \in 1..MaxSends, NEW k \in Tasks, calls <= m, id' = m, calls' = m,
           \A s \in slab : Has(s, m) <=> WasGiven(s, m),
           SendDelivers(k, m, m), UNCHANGED <<rc, slab, waker, unbounded, since>>
    PROVE  Inv'
<1> DEFINE S == {s \in slab : ~Has(s, m) /\ ~AtCapacity(s)}
           D == S \cup {s \in slab : Has(s, m)}
<1>1. TypeOK /\ Past /\ InOrder /\ GuaranteedDelivery
  BY DEF Inv
<1>2. /\ MaxSends \in Nat /\ m \in Nat /\ m # Nil /\ m \in 0..MaxId
      /\ calls \in Nat /\ slab \subseteq Slots
      /\ \A s \in Slots : got[s] \in Seq(1..MaxSends) /\ rid[s] \in Nat
      /\ completed \subseteq Nat /\ k # Nil
  BY <1>1, IdsDoNotComeAgain, NumbersAreNoNil, NilIsNothing DEF TypeOK
<1>3. Delivered(S, m)
  <2>1. ASSUME NEW s \in S
        PROVE  ~AtCapacity(s) /\ \A i \in 1..Len(got[s]) : got[s][i] < m
    <3>1. s \in slab /\ ~WasGiven(s, m) /\ ~AtCapacity(s)
      OBVIOUS
    <3>2. ASSUME NEW i \in 1..Len(got[s])
          PROVE  got[s][i] < m
      <4>1. got[s][i] <= calls /\ got[s][i] \in 1..MaxSends
        BY <1>1, <1>2, <3>1, ElementOfSeq DEF Past
      <4>2. got[s][i] # m
        BY <3>1 DEF WasGiven
      <4> QED
        BY <1>2, <4>1, <4>2
    <3> QED
      BY <3>1, <3>2
  <2>2. PushTo(S, m)
    BY DEF SendDelivers
  <2>3. S \in SUBSET slab
    OBVIOUS
  <2> HIDE DEF S
  <2> QED
    BY <2>1, <2>2, <2>3, PushToDelivers
<1>4. /\ sender' = k
      /\ rid' = [s \in Slots |-> IF s \in S THEN m ELSE rid[s]]
      /\ rc' = rc /\ slab' = slab /\ waker' = waker /\ unbounded' = unbounded
      /\ since' = since
  BY DEF SendDelivers
<1>5. \/ /\ D = slab /\ sending' = Nil /\ completed' = completed \cup {m}
         /\ PolledAndWakes("tx", Nil, {waker[s] : s \in S})
      \/ /\ D # slab /\ sending' = m /\ completed' = completed
         /\ PolledAndWakes("tx", k, {waker[s] : s \in S})
  <2>1. D \in SUBSET slab
    OBVIOUS
  <2>2. Cardinality(D) = Cardinality(slab) <=> D = slab
    BY <1>1, <2>1, AllReached
  <2> QED
    BY <2>2 DEF SendDelivers
<1>6. \A s \in slab : s \in S <=> ~Has(s, m) /\ ~AtCapacity(s)
  OBVIOUS
<1>7. D = S \cup {s \in slab : Has(s, m)}
  OBVIOUS
<1>8. S \in SUBSET slab
  OBVIOUS
<1> HIDE DEF S, D
<1>9. /\ sending' \in {Nil, m} /\ completed' \subseteq completed \cup {m}
      /\ (sending' = Nil => ReceiversKept(Nil))
      /\ (sending' = m => ReceiversKept(k) /\ D # slab)
  <2>1. \A s \in Slots \ S : buf'[s] = buf[s]
    BY <1>3 DEF Delivered
  <2>2. \A s \in S : waker[s] \in {waker[t] : t \in S}
    OBVIOUS
  <2>3. ASSUME NEW c \in Tasks \cup {Nil}, PolledAndWakes("tx", c, {waker[s] : s \in S})
        PROVE  ReceiversKept(c)
    BY <1>4, <1>8, <2>1, <2>2, <2>3, SenderPolled
  <2> QED
    BY <1>2, <1>5, <2>3
<1>10. ReceiversKept(polledBy'["tx"]) /\ (sending' # Nil <=> polledBy'["tx"] # Nil)
  BY <1>2, <1>9 DEF ReceiversKept
<1>11. \A s \in Slots : /\ rid'[s] = IF s \in S THEN m ELSE rid[s]
                        /\ rid'[s] \in 0..MaxId
  BY <1>1, <1>2, <1>4 DEF TypeOK
<1>12. TypeOK'
  <2>1. rid' \in [Slots -> 0..MaxId]
    BY <1>4, <1>11
  <2>2. \A s \in Slots : ~unbounded' => Len(buf'[s]) <= Capacity
    BY <1>3, <1>4 DEF Delivered
  <2>3. /\ buf' \in [Slots -> Seq(1..MaxSends)]
        /\ got' \in [Slots -> Seq(1..MaxSends)]
    BY <1>3 DEF Delivered
  <2>4. completed' \subseteq 1..MaxSends /\ sending' \in {Nil, calls'}
    BY <1>1, <1>9 DEF TypeOK
  <2>5. /\ rc' \in [strong : 0..1, weak : Nat] /\ rc'.weak = Cardinality(slab')
        /\ id' \in 0..MaxId /\ calls' \in 0..MaxSends
        /\ sender' \in Tasks \cup {Nil} /\ slab' \subseteq Slots
        /\ waker' \in [Slots -> Tasks \cup {Nil}] /\ unbounded' \in BOOLEAN
        /\ since' \in [Slots -> 0..MaxSends]
    BY <1>1, <1>2, <1>4 DEF TypeOK
  <2> QED
    BY <1>10, <2>1, <2>2, <2>3, <2>4, <2>5 DEF TypeOK, ReceiversKept
<1>13. Past'
  <2>1. ASSUME NEW s \in Slots
        PROVE  rid'[s] <= m /\ \A i \in 1..Len(got'[s]) : got'[s][i] <= m
    <3>1. rid[s] <= calls
      BY <1>1 DEF Past
    <3>2. rid'[s] \in {m, rid[s]}
      BY <1>11
    <3>3. calls \in Nat /\ m \in Nat /\ rid[s] \in Nat
      BY <1>2
    <3>4. rid'[s] <= m
      BY <3>1, <3>2, <3>3
    <3> QED
      BY <1>3, <3>4 DEF Delivered
  <2>2. \A x \in completed' : x <= m
    <3>1. \A x \in completed : x <= calls /\ x \in Nat
      BY <1>1, <1>2 DEF Past
    <3>2. \A x \in completed' : x \in completed \/ x = m
      BY <1>9
    <3>3. calls \in Nat /\ m \in Nat
      BY <1>2
    <3> QED
      BY <3>1, <3>2, <3>3
  <2>3. sending' # 0
    BY <1>2, <1>9, NumbersAreNoNil
  <2> QED
    BY <2>1, <2>2, <2>3 DEF Past
<1>14. ASSUME NEW s \in slab
       PROVE  /\ WasGiven(s, m)' <=> s \in D
              /\ rid'[s] = m <=> s \in D
              /\ \A x : WasGiven(s, x) => WasGiven(s, x)'
  <2>1. s \in Slots
    BY <1>2
  <2>2. \A x : Given(got'[s], x) <=> Given(got[s], x) \/ (s \in S /\ x = m)
    BY <1>3, <2>1 DEF Delivered
  <2>3. \A x : WasGiven(s, x)' <=> WasGiven(s, x) \/ (s \in S /\ x = m)
    BY <2>2 DEF Given, WasGiven
  <2>4. s \in D <=> s \in S \/ Has(s, m)
    BY <1>7
  <2>5. Has(s, m) <=> WasGiven(s, m)
    OBVIOUS
  <2>6. rid'[s] = m <=> s \in D
    BY <1>11, <2>1, <2>4 DEF Has
  <2> QED
    BY <2>3, <2>4, <2>5, <2>6
<1>15. IdTellsWhoHasIt'
  <2> SUFFICES ASSUME sending' # Nil, NEW s \in slab
               PROVE  Has(s, id)' <=> WasGiven(s, sending)'
    BY <1>4 DEF IdTellsWhoHasIt
  <2>1. sending' = m
    BY <1>9
  <2> QED
    BY <1>14, <2>1 DEF Has, WasGiven
<1>16. GuaranteedDelivery'
  <2> SUFFICES ASSUME NEW s \in slab, NEW x \in completed', x > since[s]
               PROVE  WasGiven(s, x)'
    BY <1>4 DEF GuaranteedDelivery
  <2>1. CASE x \in completed
    <3>1. WasGiven(s, x)
      BY <1>1, <2>1 DEF GuaranteedDelivery
    <3> QED
      BY <1>14, <3>1
  <2>2. CASE x \notin completed
    <3>1. x = m /\ D = slab
      BY <1>5, <1>9, <2>2
    <3> QED
      BY <1>14, <3>1
  <2> QED
    BY <2>1, <2>2
<1>17. SenderWaits'
  <2> SUFFICES ASSUME sending' # Nil
               PROVE  /\ sender' = polledBy'["tx"]
                      /\ Missing' # {}
                      /\ \A s \in Missing' : AtCapacity(s)'
    BY DEF SenderWaits
  <2>1. sending' = m /\ polledBy'["tx"] = k /\ D # slab
    BY <1>9 DEF ReceiversKept
  <2>2. Missing' = {s \in slab : s \notin D}
    <3>1. Missing' = {s \in slab : rid'[s] # m}
      BY <1>4 DEF Missing, Has
    <3> QED
      BY <1>14, <3>1
  <2>3. D \subseteq slab
    BY <1>7, <1>8
  <2>4. ASSUME NEW s \in Missing'
        PROVE  AtCapacity(s)'
    <3>1. s \in slab /\ s \notin D
      BY <2>2
    <3>2. s \in Slots \ S /\ AtCapacity(s)
      BY <1>2, <1>6, <1>7, <3>1
    <3>3. buf'[s] = buf[s]
      BY <1>3, <3>2 DEF Delivered
    <3> QED
      BY <1>4, <3>2, <3>3 DEF AtCapacity
  <2> QED
    BY <1>4, <2>1, <2>2, <2>3, <2>4
<1>18. InOrder'
  BY <1>3 DEF Delivered
<1> QED
  BY <1>10, <1>12, <1>13, <1>15, <1>16, <1>17, <1>18 DEF Inv, ReceiversKept

LEMMA PollSendKeeps ==
    ASSUME Inv, NEW m \in 1..MaxSends, NEW k \in Tasks, calls <= m, id' = m, calls' = m,
           \A s \in slab : Has(s, m) <=> WasGiven(s, m),
           PollSend(k, m, m)
    PROVE  Inv'
<1>1. UNCHANGED <<rc, slab, waker, unbounded, since>>
  BY DEF PollSend
<1>2. CASE SendFindsNobody(m)
  BY <1>1, <1>2, SendFindsNobodyKeeps
<1>3. CASE SendDelivers(k, m, m)
  BY <1>1, <1>3, SendDeliversKeeps
<1> QED
  BY <1>2, <1>3 DEF PollSend

(* The id of the next message is one that nobody has.                      *)
LEMMA NextId ==
    ASSUME Inv, calls < MaxSends
    PROVE  /\ BumpedId = calls + 1 /\ calls + 1 \in 1..MaxSends /\ calls <= calls + 1
           /\ calls + 1 \in 0..MaxId /\ calls \in Nat
           /\ \A s \in Slots : /\ ~Has(s, calls + 1) /\ ~WasGiven(s, calls + 1)
                               /\ \A i \in 1..Len(got[s]) : got[s][i] < calls + 1
<1>1. TypeOK /\ Past
  BY DEF Inv
<1>2. /\ calls \in Nat /\ MaxSends \in Nat /\ MaxId \in Nat /\ id = calls
      /\ calls < MaxSends /\ MaxSends <= MaxId
  BY <1>1, IdsDoNotComeAgain DEF TypeOK, Past
<1>3. BumpedId = calls + 1
  BY <1>2 DEF BumpedId
<1>4. ASSUME NEW s \in Slots
      PROVE  /\ ~Has(s, calls + 1) /\ ~WasGiven(s, calls + 1)
             /\ \A i \in 1..Len(got[s]) : got[s][i] < calls + 1
  <2>1. rid[s] \in Nat /\ rid[s] <= calls
    BY <1>1 DEF TypeOK, Past
  <2>2. ASSUME NEW i \in 1..Len(got[s])
        PROVE  got[s][i] < calls + 1
    <3>1. got[s] \in Seq(1..MaxSends) /\ got[s][i] <= calls
      BY <1>1 DEF TypeOK, Past
    <3>2. got[s][i] \in 1..MaxSends
      BY <3>1, ElementOfSeq
    <3> QED
      BY <1>2, <3>1, <3>2
  <2>3. ~Has(s, calls + 1)
    BY <1>2, <2>1 DEF Has
  <2>4. ~WasGiven(s, calls + 1)
    BY <1>2, <2>2 DEF WasGiven
  <2> QED
    BY <2>2, <2>3, <2>4
<1> QED
  BY <1>2, <1>3, <1>4

LEMMA SendKeeps == ASSUME Inv, NEW k \in Tasks, Send(k) PROVE Inv'
<1>1. /\ calls < MaxSends /\ calls' = calls + 1 /\ id' = BumpedId
      /\ PollSend(k, BumpedId, calls + 1)
  BY DEF Send
<1>2. /\ BumpedId = calls + 1 /\ calls + 1 \in 1..MaxSends /\ calls <= calls + 1
      /\ \A s \in Slots : ~Has(s, calls + 1) /\ ~WasGiven(s, calls + 1)
  BY <1>1, NextId
<1>3. slab \subseteq Slots
  BY DEF Inv, TypeOK
<1>4. \A s \in slab : Has(s, calls + 1) <=> WasGiven(s, calls + 1)
  BY <1>2, <1>3
<1>5. id' = calls + 1 /\ PollSend(k, calls + 1, calls + 1)
  BY <1>1, <1>2
<1> QED
  BY <1>1, <1>2, <1>4, <1>5, PollSendKeeps

LEMMA ResumeSendKeeps == ASSUME Inv, NEW k \in Tasks, ResumeSend(k) PROVE Inv'
<1>1. sending # Nil /\ PollSend(k, id, sending) /\ id' = id /\ calls' = calls
  BY DEF ResumeSend
<1>2. sending = calls /\ id = calls /\ calls \in 1..MaxSends /\ calls <= calls
  BY <1>1, IdsDoNotComeAgain DEF Inv, TypeOK, Past
<1>3. \A s \in slab : Has(s, calls) <=> WasGiven(s, calls)
  BY <1>1, <1>2 DEF Inv, IdTellsWhoHasIt
<1>4. id' = calls /\ PollSend(k, calls, calls)
  BY <1>1, <1>2
<1> QED
  BY <1>1, <1>2, <1>3, <1>4, PollSendKeeps

LEMMA TrySendKeeps == ASSUME Inv, TrySend PROVE Inv'
<1> DEFINE S == {s \in slab : ~AtCapacity(s)}
           m == calls + 1
<1>1. /\ calls < MaxSends /\ calls' = m /\ id' = BumpedId /\ PushTo(S, m)
      /\ PolledAndWakes("tx", Nil, {waker[s] : s \in S}) /\ sending = Nil
      /\ rc' = rc /\ sender' = sender /\ slab' = slab /\ rid' = rid /\ waker' = waker
      /\ unbounded' = unbounded /\ sending' = sending /\ since' = since
      /\ completed' = completed
  BY DEF TrySend
<1>2. /\ BumpedId = m /\ m \in 1..MaxSends /\ calls <= m
      /\ m \in 0..MaxId /\ calls \in Nat
      /\ \A s \in Slots : \A i \in 1..Len(got[s]) : got[s][i] < m
  BY <1>1, NextId
<1>3. S \in SUBSET slab /\ \A s \in S : ~AtCapacity(s)
  OBVIOUS
<1>4. TypeOK /\ Past /\ GuaranteedDelivery
  BY DEF Inv
<1> HIDE DEF S, m
<1>5. Delivered(S, m)
  <2>1. S \subseteq Slots
    BY <1>3, <1>4 DEF TypeOK
  <2>2. \A s \in S : ~AtCapacity(s) /\ \A i \in 1..Len(got[s]) : got[s][i] < m
    BY <1>2, <1>3, <2>1
  <2> QED
    BY <1>1, <1>2, <1>3, <2>2, PushToDelivers
<1>6. ReceiversKept(Nil)
  <2>1. \A s \in Slots \ S : buf'[s] = buf[s]
    BY <1>5 DEF Delivered
  <2>2. \A s \in S : waker[s] \in {waker[t] : t \in S}
    OBVIOUS
  <2> QED
    BY <1>1, <1>3, <2>1, <2>2, SenderPolled
<1>7. TypeOK'
  <2>1. \A s \in Slots : ~unbounded' => Len(buf'[s]) <= Capacity
    BY <1>1, <1>5 DEF Delivered
  <2>2. /\ buf' \in [Slots -> Seq(1..MaxSends)]
        /\ got' \in [Slots -> Seq(1..MaxSends)]
    BY <1>5 DEF Delivered
  <2>3. id' \in 0..MaxId /\ calls' \in 0..MaxSends /\ sending' = Nil
    BY <1>1, <1>2
  <2> QED
    BY <1>1, <1>4, <1>6, <2>1, <2>2, <2>3 DEF TypeOK, ReceiversKept
<1>8. Past'
  <2>1. ASSUME NEW s \in Slots
        PROVE  rid'[s] <= m /\ \A i \in 1..Len(got'[s]) : got'[s][i] <= m
    <3>1. rid'[s] \in Nat /\ rid'[s] <= calls
      BY <1>1, <1>4 DEF Past, TypeOK
    <3>2. rid'[s] <= m
      BY <1>2, <3>1 DEF m
    <3> QED
      BY <1>5, <3>2 DEF Delivered
  <2>2. \A x \in completed' : x <= m
    <3>1. \A x \in completed : x <= calls /\ x \in Nat
      BY <1>4, IdsDoNotComeAgain DEF Past, TypeOK
    <3> QED
      BY <1>1, <1>2, <3>1 DEF m
  <2> QED
    BY <1>1, <1>2, <2>1, <2>2, NumbersAreNoNil DEF Past
<1>9. InOrder'
  BY <1>5 DEF Delivered
<1>10. IdTellsWhoHasIt' /\ SenderWaits'
  BY <1>1 DEF IdTellsWhoHasIt, SenderWaits
<1>11. GuaranteedDelivery'
  <2> SUFFICES ASSUME NEW s \in slab, NEW x \in completed, x > since[s]
               PROVE  WasGiven(s, x)'
    BY <1>1 DEF GuaranteedDelivery
  <2>1. Given(got[s], x)
    BY <1>4 DEF GuaranteedDelivery, Given, WasGiven
  <2>2. s \in Slots
    BY <1>4 DEF TypeOK
  <2>3. Given(got'[s], x)
    BY <1>5, <2>1, <2>2 DEF Delivered
  <2> QED
    BY <2>3 DEF Given, WasGiven
<1> QED
  BY <1>6, <1>7, <1>8, <1>9, <1>10, <1>11 DEF Inv, ReceiversKept

LEMMA CancelSendKeeps == ASSUME Inv, CancelSend PROVE Inv'
<1>1. /\ sending' = Nil /\ PolledAndWakes("tx", Nil, {}) /\ calls' = calls
      /\ rc' = rc /\ id' = id /\ sender' = sender /\ slab' = slab /\ rid' = rid
      /\ waker' = waker /\ buf' = buf /\ unbounded' = unbounded
      /\ since' = since /\ got' = got /\ completed' = completed
  BY DEF CancelSend, shared, history
<1>2. ReceiversKept(Nil)
  <2>1. {} \in SUBSET slab /\ \A s \in Slots \ {} : buf'[s] = buf[s]
    BY <1>1
  <2>2. \A s \in {} : waker[s] \in {}
    OBVIOUS
  <2> QED
    BY <1>1, <2>1, <2>2, SenderPolled
<1>3. TypeOK'
  BY <1>1, <1>2 DEF Inv, TypeOK, ReceiversKept
<1>4. Past' /\ InOrder'
  BY <1>1, NumbersAreNoNil DEF Inv, Past, InOrder
<1>5. IdTellsWhoHasIt' /\ SenderWaits'
  BY <1>1 DEF IdTellsWhoHasIt, SenderWaits
<1>6. GuaranteedDelivery'
  BY <1>1 DEF Inv, GuaranteedDelivery, WasGiven
<1> QED
  BY <1>2, <1>3, <1>4, <1>5, <1>6 DEF Inv, ReceiversKept

-----------------------------------------------------------------------------
(***************************************************************************)
(* Receiving.                                                              *)
(***************************************************************************)

(* After a poll of the call of subscriber s, by k.                         *)
OthersKept(s, k) ==
    /\ polledBy' \in [Callers -> Tasks \cup {Nil}]
    /\ polledBy'[s] = k /\ polledBy'["tx"] = polledBy["tx"]
    /\ notified' \subseteq {d \in Callers : polledBy'[d] # Nil}
    /\ SenderWaits'
    /\ \A d \in Slots \ {s} :
          /\ polledBy'[d] = polledBy[d]
          /\ (polledBy'[d] # Nil /\ d \notin notified') =>
                waker[d] = polledBy[d] /\ buf[d] = << >> /\ Rc!AnyStrong(rc)

(* The sender's task was woken, or nothing changed for it.                 *)
LEMMA ReceiverPolled ==
    ASSUME Inv, NEW s \in Slots, NEW k \in Tasks \cup {Nil}, NEW W,
           PolledAndWakes(s, k, W), sending' = sending,
           sender \in W \/ UNCHANGED <<id, sender, slab, rid, buf, unbounded>>
    PROVE  OthersKept(s, k)
<1>1. TypeOK /\ SenderWaits /\ ReceiverWaits
  BY DEF Inv
<1>2. s \in Callers /\ s # "tx"
  BY CallersApart
<1>3. /\ polledBy' \in [Callers -> Tasks \cup {Nil}]
      /\ polledBy'[s] = k
      /\ \A d \in Callers \ {s} : /\ polledBy'[d] = polledBy[d]
                                  /\ d \in notified => d \in notified'
      /\ \A d \in Callers : polledBy'[d] # Nil /\ polledBy'[d] \in W => d \in notified'
      /\ notified' \subseteq {d \in Callers : polledBy'[d] # Nil}
  BY <1>1, <1>2, PolledAndWakesTells
<1>4. /\ polledBy'["tx"] = polledBy["tx"]
      /\ "tx" \in notified => "tx" \in notified'
      /\ polledBy["tx"] # Nil /\ polledBy["tx"] \in W => "tx" \in notified'
  BY <1>2, <1>3, CallersApart
<1>5. SenderWaits'
  <2> SUFFICES ASSUME sending # Nil, "tx" \notin notified'
               PROVE  /\ sender' = polledBy'["tx"]
                      /\ Missing' # {}
                      /\ \A d \in Missing' : AtCapacity(d)'
    BY DEF SenderWaits
  <2>1. "tx" \notin notified /\ polledBy["tx"] # Nil
    BY <1>1, <1>4 DEF TypeOK
  <2>2. /\ sender = polledBy["tx"]
        /\ Missing # {}
        /\ \A d \in Missing : AtCapacity(d)
    BY <1>1, <2>1 DEF SenderWaits
  <2>3. UNCHANGED <<id, sender, slab, rid, buf, unbounded>>
    BY <1>4, <2>1, <2>2
  <2> QED
    BY <1>4, <2>2, <2>3 DEF Missing, Has, AtCapacity
<1>6. ASSUME NEW d \in Slots \ {s}
      PROVE  /\ polledBy'[d] = polledBy[d]
             /\ (polledBy'[d] # Nil /\ d \notin notified') =>
                   waker[d] = polledBy[d] /\ buf[d] = << >> /\ Rc!AnyStrong(rc)
  BY <1>1, <1>3, CallersApart DEF ReceiverWaits
<1> QED
  BY <1>3, <1>4, <1>5, <1>6 DEF OthersKept

LEMMA RecvMessageKeeps == ASSUME Inv, NEW s \in Slots, RecvMessage(s) PROVE Inv'
<1>1. /\ s \in slab /\ buf[s] # << >> /\ buf' = [buf EXCEPT ![s] = Tail(@)]
      /\ PolledAndWakes(s, Nil, {sender})
      /\ rc' = rc /\ id' = id /\ sender' = sender /\ slab' = slab /\ rid' = rid
      /\ waker' = waker /\ unbounded' = unbounded /\ sending' = sending
      /\ calls' = calls /\ since' = since /\ got' = got /\ completed' = completed
  BY DEF RecvMessage, history
<1>2. OthersKept(s, Nil)
  BY <1>1, ReceiverPolled
<1>3. TypeOK /\ Past /\ InOrder
  BY DEF Inv
<1>4. /\ buf' \in [Slots -> Seq(1..MaxSends)]
      /\ EndsWith(got[s], buf'[s]) /\ Len(buf'[s]) <= Len(buf[s])
      /\ Len(buf[s]) \in Nat /\ Len(buf'[s]) \in Nat
      /\ \A d \in Slots \ {s} : buf'[d] = buf[d]
  <2>1. got[s] \in Seq(1..MaxSends) /\ buf[s] \in Seq(1..MaxSends)
    BY <1>3 DEF TypeOK
  <2>2. EndsWith(got[s], buf[s])
    BY <1>3 DEF InOrder
  <2>3. /\ Tail(buf[s]) \in Seq(1..MaxSends) /\ Len(Tail(buf[s])) <= Len(buf[s])
        /\ EndsWith(got[s], Tail(buf[s]))
    BY <1>1, <2>1, <2>2, PopInOrder
  <2>4. buf'[s] = Tail(buf[s]) /\ \A d \in Slots \ {s} : buf'[d] = buf[d]
    BY <1>1, <1>3 DEF TypeOK
  <2>5. buf' \in [Slots -> Seq(1..MaxSends)]
    BY <1>1, <1>3, <2>3 DEF TypeOK
  <2> QED
    BY <2>1, <2>3, <2>4, <2>5, LenProperties
<1>5. TypeOK'
  <2>1. ASSUME NEW d \in Slots, ~unbounded
        PROVE  Len(buf'[d]) <= Capacity
    <3>1. Len(buf[d]) <= Capacity
      BY <1>3, <2>1 DEF TypeOK
    <3> QED
      BY <1>4, <3>1, CapacityIsPositive
  <2> QED
    BY <1>1, <1>2, <1>3, <1>4, <2>1 DEF TypeOK, OthersKept
<1>6. Past'
  BY <1>1, <1>3 DEF Past
<1>7. InOrder'
  BY <1>1, <1>3, <1>4 DEF InOrder
<1>8. IdTellsWhoHasIt'
  BY <1>1 DEF Inv, IdTellsWhoHasIt, Has, WasGiven
<1>9. GuaranteedDelivery'
  BY <1>1 DEF Inv, GuaranteedDelivery, WasGiven
<1>10. CallsBorrow' /\ ReceiverWaits'
  <2>1. \A d \in Slots : polledBy'[d] # Nil => d # s
    BY <1>2 DEF OthersKept
  <2> QED
    BY <1>1, <1>2, <1>4, <2>1 DEF Inv, CallsBorrow, ReceiverWaits, OthersKept
<1> QED
  BY <1>2, <1>5, <1>6, <1>7, <1>8, <1>9, <1>10 DEF Inv, OthersKept

LEMMA RecvWaitsKeeps ==
    ASSUME Inv, NEW s \in Slots, NEW k \in Tasks \cup {Nil},
           \/ RecvEnd(s) /\ k = Nil
           \/ RecvWaits(s, k) /\ k \in Tasks
           \/ CancelRecv(s) /\ k = Nil
    PROVE  Inv'
<1>1. /\ waker' = [waker EXCEPT ![s] = k] \/ k = Nil
      /\ waker' = waker \/ waker' = [waker EXCEPT ![s] = k]
      /\ (buf[s] = << >> /\ Rc!AnyStrong(rc)) \/ k = Nil
      /\ s \in slab \/ k = Nil
      /\ rc' = rc /\ id' = id /\ sender' = sender /\ slab' = slab /\ rid' = rid
      /\ buf' = buf /\ unbounded' = unbounded /\ sending' = sending
      /\ calls' = calls /\ since' = since /\ got' = got /\ completed' = completed
  BY DEF RecvEnd, RecvWaits, CancelRecv, history, shared
<1>2. OthersKept(s, k)
  <2>1. PICK W : PolledAndWakes(s, k, W)
    BY DEF RecvEnd, RecvWaits, CancelRecv
  <2> QED
    BY <1>1, <2>1, ReceiverPolled
<1>3. TypeOK
  BY DEF Inv
<1>4. TypeOK'
  BY <1>1, <1>2, <1>3 DEF TypeOK, OthersKept
<1>5. Past' /\ InOrder'
  BY <1>1 DEF Inv, Past, InOrder
<1>6. IdTellsWhoHasIt'
  BY <1>1 DEF Inv, IdTellsWhoHasIt, Has, WasGiven
<1>7. GuaranteedDelivery'
  BY <1>1 DEF Inv, GuaranteedDelivery, WasGiven
<1>8. CallsBorrow'
  BY <1>1, <1>2 DEF Inv, CallsBorrow, OthersKept
<1>9. ReceiverWaits'
  <2> SUFFICES ASSUME NEW d \in Slots, polledBy'[d] # Nil, d \notin notified'
               PROVE  waker'[d] = polledBy'[d] /\ buf[d] = << >> /\ Rc!AnyStrong(rc)
    BY <1>1 DEF ReceiverWaits
  <2>1. CASE d = s
    <3>1. polledBy'[s] = k /\ k # Nil
      BY <1>2, <2>1 DEF OthersKept
    <3> QED
      BY <1>1, <1>3, <2>1, <3>1 DEF TypeOK
  <2>2. CASE d # s
    <3>1. waker'[d] = waker[d]
      BY <1>1, <1>3, <2>2 DEF TypeOK
    <3> QED
      BY <1>2, <2>2, <3>1 DEF OthersKept
  <2> QED
    BY <2>1, <2>2
<1> QED
  BY <1>2, <1>4, <1>5, <1>6, <1>7, <1>8, <1>9 DEF Inv, OthersKept

-----------------------------------------------------------------------------
(***************************************************************************)
(* Subscribers and the sender come and go.                                 *)
(***************************************************************************)
LEMMA SubscribeKeeps == ASSUME Inv, NEW s \in Slots, Subscribe(s) PROVE Inv'
<1>1. /\ sending = Nil /\ s \notin slab /\ rc' = [rc EXCEPT !.weak = @ + 1]
      /\ slab' = slab \cup {s} /\ rid' = [rid EXCEPT ![s] = id]
      /\ waker' = [waker EXCEPT ![s] = Nil] /\ buf' = [buf EXCEPT ![s] = << >>]
      /\ since' = [since EXCEPT ![s] = calls] /\ got' = [got EXCEPT ![s] = << >>]
      /\ id' = id /\ sender' = sender /\ unbounded' = unbounded /\ sending' = sending
      /\ calls' = calls /\ polledBy' = polledBy /\ notified' = notified
      /\ completed' = completed
  BY DEF Subscribe, NewReceiver, Rc!Weak
<1>2. /\ TypeOK /\ Past /\ InOrder /\ GuaranteedDelivery
      /\ CallsBorrow /\ ReceiverWaits /\ IsFiniteSet(slab) /\ Cardinality(slab) \in Nat
  BY SlabFinite DEF Inv
<1>3. << >> \in Seq(1..MaxSends) /\ Len(<< >>) = 0
  BY EmptySeq
<1>4. /\ polledBy[s] = Nil
      /\ buf'[s] = << >> /\ got'[s] = << >> /\ since'[s] = calls /\ rid'[s] = calls
      /\ \A d \in Slots \ {s} : /\ buf'[d] = buf[d] /\ got'[d] = got[d]
                                /\ rid'[d] = rid[d] /\ since'[d] = since[d]
                                /\ waker'[d] = waker[d]
  BY <1>1, <1>2 DEF TypeOK, Past, CallsBorrow
<1>5. TypeOK'
  <2>1. rc' \in [strong : 0..1, weak : Nat] /\ rc'.weak = Cardinality(slab')
    <3>1. Cardinality(slab') = Cardinality(slab) + 1
      BY <1>1, <1>2, FS_AddElement
    <3>2. rc \in [strong : 0..1, weak : Nat] /\ rc.weak = Cardinality(slab)
      BY <1>2 DEF TypeOK
    <3> QED
      BY <1>1, <3>1, <3>2
  <2>2. /\ buf' \in [Slots -> Seq(1..MaxSends)]
        /\ got' \in [Slots -> Seq(1..MaxSends)]
    BY <1>1, <1>2, <1>3 DEF TypeOK
  <2>3. ASSUME NEW d \in Slots, ~unbounded
        PROVE  Len(buf'[d]) <= Capacity
    <3>1. CASE d = s
      BY <1>3, <1>4, <3>1, CapacityIsPositive
    <3>2. CASE d # s
      BY <1>2, <1>4, <2>3, <3>2 DEF TypeOK
    <3> QED
      BY <3>1, <3>2
  <2>4. /\ rid' \in [Slots -> 0..MaxId] /\ since' \in [Slots -> 0..MaxSends]
        /\ waker' \in [Slots -> Tasks \cup {Nil}] /\ slab' \subseteq Slots
    BY <1>1, <1>2 DEF TypeOK
  <2> QED
    BY <1>1, <1>2, <2>1, <2>2, <2>3, <2>4 DEF TypeOK
<1>6. Past'
  <2>1. ASSUME NEW d \in Slots
        PROVE  rid'[d] <= calls /\ \A i \in 1..Len(got'[d]) : got'[d][i] <= calls
    <3>1. CASE d = s
      BY <1>2, <1>3, <1>4, <3>1, IdsDoNotComeAgain DEF TypeOK
    <3>2. CASE d # s
      BY <1>2, <1>4, <3>2 DEF Past
    <3> QED
      BY <3>1, <3>2
  <2> QED
    BY <1>1, <1>2, <2>1 DEF Past
<1>7. InOrder'
  <2>1. ASSUME NEW d \in Slots
        PROVE  Rising(got'[d]) /\ EndsWith(got'[d], buf'[d])
    <3>1. CASE d = s
      BY <1>3, <1>4, <3>1, EmptyInOrder
    <3>2. CASE d # s
      BY <1>2, <1>4, <3>2 DEF InOrder
    <3> QED
      BY <3>1, <3>2
  <2> QED
    BY <2>1 DEF InOrder
<1>8. IdTellsWhoHasIt' /\ SenderWaits'
  BY <1>1 DEF IdTellsWhoHasIt, SenderWaits
<1>9. GuaranteedDelivery'
  <2> SUFFICES ASSUME NEW d \in slab \cup {s}, NEW m \in completed, m > since'[d]
               PROVE  WasGiven(d, m)'
    BY <1>1 DEF GuaranteedDelivery
  <2>1. CASE d = s
    <3>1. m <= calls /\ m \in Nat /\ calls \in Nat /\ m > calls
      BY <1>2, <1>4, <2>1, IdsDoNotComeAgain DEF Past, TypeOK
    <3> QED
      BY <3>1
  <2>2. CASE d # s
    <3>1. d \in slab /\ d \in Slots \ {s}
      BY <1>2, <2>2 DEF TypeOK
    <3>2. WasGiven(d, m)
      BY <1>2, <1>4, <3>1 DEF GuaranteedDelivery
    <3> QED
      BY <1>4, <3>1, <3>2 DEF WasGiven
  <2> QED
    BY <2>1, <2>2
<1>10. CallsBorrow'
  BY <1>1, <1>2 DEF CallsBorrow
<1>11. ReceiverWaits'
  <2>1. Rc!AnyStrong(rc) <=> Rc!AnyStrong(rc')
    BY <1>1, <1>2 DEF Rc!AnyStrong, TypeOK
  <2>2. \A d \in Slots : polledBy'[d] # Nil => d # s
    BY <1>1, <1>4
  <2> QED
    BY <1>1, <1>2, <1>4, <2>1, <2>2 DEF ReceiverWaits
<1> QED
  BY <1>5, <1>6, <1>7, <1>8, <1>9, <1>10, <1>11 DEF Inv

LEMMA DropSenderKeeps == ASSUME Inv, DropSender PROVE Inv'
<1>1. /\ sending = Nil /\ rc.strong # 0 /\ rc' = [rc EXCEPT !.strong = @ - 1]
      /\ waker' = [s \in Slots |-> Nil] /\ sender' \in {Nil, sender}
      /\ PolledAndWakes("tx", Nil, {waker[s] : s \in slab})
      /\ id' = id /\ slab' = slab /\ rid' = rid /\ buf' = buf /\ unbounded' = unbounded
      /\ sending' = sending /\ calls' = calls /\ since' = since /\ got' = got
      /\ completed' = completed
  BY DEF DropSender, history, Rc!AnyStrong, Rc!StrongDropped
<1>2. TypeOK /\ CallsBorrow /\ ReceiverWaits
  BY DEF Inv
<1>3. /\ polledBy' \in [Callers -> Tasks \cup {Nil}]
      /\ polledBy'["tx"] = Nil
      /\ \A d \in Callers \ {"tx"} : /\ polledBy'[d] = polledBy[d]
                                     /\ d \in notified => d \in notified'
      /\ \A d \in Callers :
            polledBy'[d] # Nil /\ polledBy'[d] \in {waker[s] : s \in slab} => d \in notified'
      /\ notified' \subseteq {d \in Callers : polledBy'[d] # Nil}
  BY <1>1, <1>2, CallersApart, PolledAndWakesTells
<1>4. TypeOK'
  <2>1. rc' \in [strong : 0..1, weak : Nat] /\ rc'.weak = Cardinality(slab')
    <3>1. /\ rc \in [strong : 0..1, weak : Nat] /\ rc.strong = 1
          /\ rc.weak = Cardinality(slab)
      BY <1>1, <1>2 DEF TypeOK
    <3>2. rc'.strong = 0 /\ rc' = [strong |-> rc'.strong, weak |-> rc.weak]
      BY <1>1, <3>1
    <3> QED
      BY <1>1, <3>1, <3>2
  <2> QED
    BY <1>1, <1>2, <1>3, <2>1 DEF TypeOK
<1>5. Past' /\ InOrder'
  BY <1>1 DEF Inv, Past, InOrder
<1>6. IdTellsWhoHasIt' /\ SenderWaits'
  BY <1>1 DEF IdTellsWhoHasIt, SenderWaits
<1>7. GuaranteedDelivery'
  BY <1>1 DEF Inv, GuaranteedDelivery, WasGiven
<1>8. CallsBorrow'
  BY <1>1, <1>2, <1>3, CallersApart DEF CallsBorrow
<1>9. ASSUME NEW s \in Slots, polledBy'[s] # Nil
      PROVE  s \in notified'
  <2>1. s \in Callers \ {"tx"} /\ polledBy'[s] = polledBy[s]
    BY <1>3, CallersApart
  <2>2. CASE s \in notified
    BY <1>3, <2>1, <2>2
  <2>3. CASE s \notin notified
    <3>1. s \in slab /\ waker[s] = polledBy'[s]
      BY <1>2, <1>9, <2>1, <2>3 DEF CallsBorrow, ReceiverWaits
    <3> QED
      BY <1>3, <1>9, <2>1, <3>1
  <2> QED
    BY <2>2, <2>3
<1>10. ReceiverWaits'
  BY <1>9 DEF ReceiverWaits
<1> QED
  BY <1>4, <1>5, <1>6, <1>7, <1>8, <1>10 DEF Inv

LEMMA DropReceiverKeeps == ASSUME Inv, NEW s \in Slots, DropReceiver(s) PROVE Inv'
<1>1. /\ s \in slab /\ polledBy[s] = Nil /\ slab' = slab \ {s}
      /\ rc' = [rc EXCEPT !.weak = @ - 1] /\ buf' = [buf EXCEPT ![s] = << >>]
      /\ waker' = [waker EXCEPT ![s] = Nil] /\ rid' = [rid EXCEPT ![s] = 0]
      /\ sender' = Nil /\ PolledAndWakes(s, Nil, {sender})
      /\ id' = id /\ unbounded' = unbounded /\ sending' = sending /\ calls' = calls
      /\ since' = since /\ got' = got /\ completed' = completed
  BY DEF DropReceiver, history, Rc!WeakDropped
<1>2. OthersKept(s, Nil)
  BY <1>1, ReceiverPolled
<1>3. /\ TypeOK /\ Past /\ InOrder /\ CallsBorrow
      /\ IsFiniteSet(slab) /\ Cardinality(slab) \in Nat
  BY SlabFinite DEF Inv
<1>4. << >> \in Seq(1..MaxSends) /\ Len(<< >>) = 0
  BY EmptySeq
<1>5. /\ buf'[s] = << >> /\ rid'[s] = 0
      /\ \A d \in Slots \ {s} : /\ buf'[d] = buf[d] /\ rid'[d] = rid[d]
                                /\ waker'[d] = waker[d]
  BY <1>1, <1>3 DEF TypeOK
<1>6. TypeOK'
  <2>1. rc' \in [strong : 0..1, weak : Nat] /\ rc'.weak = Cardinality(slab')
    <3>1. /\ Cardinality(slab') = Cardinality(slab) - 1
          /\ IsFiniteSet(slab')
      BY <1>1, <1>3, FS_RemoveElement
    <3>2. Cardinality(slab') \in Nat
      BY <3>1, FS_CardinalityType
    <3>3. rc \in [strong : 0..1, weak : Nat] /\ rc.weak = Cardinality(slab)
      BY <1>3 DEF TypeOK
    <3> QED
      BY <1>1, <3>1, <3>2, <3>3
  <2>2. buf' \in [Slots -> Seq(1..MaxSends)]
    BY <1>1, <1>3, <1>4 DEF TypeOK
  <2>3. ASSUME NEW d \in Slots, ~unbounded
        PROVE  Len(buf'[d]) <= Capacity
    <3>1. CASE d = s
      BY <1>4, <1>5, <3>1, CapacityIsPositive
    <3>2. CASE d # s
      BY <1>3, <1>5, <2>3, <3>2 DEF TypeOK
    <3> QED
      BY <3>1, <3>2
  <2>4. /\ rid' \in [Slots -> 0..MaxId] /\ slab' \subseteq Slots
        /\ waker' \in [Slots -> Tasks \cup {Nil}]
    BY <1>1, <1>3, IdsDoNotComeAgain DEF TypeOK
  <2> QED
    BY <1>1, <1>2, <1>3, <2>1, <2>2, <2>3, <2>4 DEF TypeOK, OthersKept
<1>7. Past'
  <2>1. ASSUME NEW d \in Slots
        PROVE  rid'[d] <= calls
    <3>1. CASE d = s
      <4>1. calls \in Nat
        BY <1>3, IdsDoNotComeAgain DEF TypeOK
      <4> QED
        BY <1>5, <3>1, <4>1
    <3>2. CASE d # s
      BY <1>3, <1>5, <3>2 DEF Past
    <3> QED
      BY <3>1, <3>2
  <2> QED
    BY <1>1, <1>3, <2>1 DEF Past
<1>8. InOrder'
  <2>1. ASSUME NEW d \in Slots
        PROVE  Rising(got'[d]) /\ EndsWith(got'[d], buf'[d])
    <3>1. Rising(got[d]) /\ EndsWith(got[d], buf[d]) /\ Len(got[d]) \in Nat
      BY <1>3, LenProperties DEF InOrder, TypeOK
    <3>2. EndsWith(got[d], << >>)
      BY <1>4, <3>1 DEF EndsWith
    <3> QED
      BY <1>1, <1>5, <3>1, EmptyInOrder
  <2> QED
    BY <2>1 DEF InOrder
<1>9. IdTellsWhoHasIt'
  BY <1>1, <1>3, <1>5 DEF Inv, IdTellsWhoHasIt, Has, WasGiven, TypeOK
<1>10. GuaranteedDelivery'
  BY <1>1 DEF Inv, GuaranteedDelivery, WasGiven
<1>11. CallsBorrow' /\ ReceiverWaits'
  <2>1. \A d \in Slots : polledBy'[d] # Nil => d # s
    BY <1>2 DEF OthersKept
  <2>2. Rc!AnyStrong(rc) <=> Rc!AnyStrong(rc')
    BY <1>1, <1>3 DEF Rc!AnyStrong, TypeOK
  <2> QED
    BY <1>1, <1>2, <1>3, <1>5, <2>1, <2>2 DEF CallsBorrow, ReceiverWaits, OthersKept
<1> QED
  BY <1>2, <1>6, <1>7, <1>8, <1>9, <1>10, <1>11 DEF Inv, OthersKept

-----------------------------------------------------------------------------
(***************************************************************************)
(* The theorems.                                                           *)
(***************************************************************************)
LEMMA NextInv == Inv /\ [Next]_vars => Inv'
<1> SUFFICES ASSUME Inv, [Next]_vars PROVE Inv'
  OBVIOUS
<1>1. CASE TrySend
  BY <1>1, TrySendKeeps
<1>2. ASSUME NEW k \in Tasks, Send(k) \/ ResumeSend(k) PROVE Inv'
  BY <1>2, SendKeeps, ResumeSendKeeps
<1>3. CASE CancelSend
  BY <1>3, CancelSendKeeps
<1>4. CASE DropSender
  BY <1>4, DropSenderKeeps
<1>5. ASSUME NEW s \in Slots,
             Subscribe(s) \/ Recv(s) \/ CancelRecv(s) \/ DropReceiver(s)
      PROVE  Inv'
  <2>1. CASE Subscribe(s)
    BY <2>1, SubscribeKeeps
  <2>2. CASE RecvMessage(s)
    BY <2>2, RecvMessageKeeps
  <2>3. CASE RecvEnd(s)
    BY <2>3, RecvWaitsKeeps
  <2>4. ASSUME NEW k \in Tasks, RecvWaits(s, k) PROVE Inv'
    BY <2>4, RecvWaitsKeeps
  <2>5. CASE CancelRecv(s)
    BY <2>5, RecvWaitsKeeps
  <2>6. CASE DropReceiver(s)
    BY <2>6, DropReceiverKeeps
  <2> QED
    BY <1>5, <2>1, <2>2, <2>3, <2>4, <2>5, <2>6 DEF Recv
<1>6. CASE UNCHANGED vars
  <2>1. UNCHANGED <<rc, id, sender, slab, rid, waker, buf, unbounded, sending, calls,
                    polledBy, notified, since, got, completed>>
    BY <1>6 DEF vars
  <2>2. TypeOK'
    BY <2>1 DEF Inv, TypeOK
  <2>3. Past' /\ InOrder' /\ CallsBorrow' /\ ReceiverWaits'
    BY <2>1 DEF Inv, Past, InOrder, CallsBorrow, ReceiverWaits
  <2>4. IdTellsWhoHasIt' /\ GuaranteedDelivery'
    BY <2>1 DEF Inv, IdTellsWhoHasIt, GuaranteedDelivery, WasGiven, Has
  <2>5. SenderWaits'
    BY <2>1 DEF Inv, SenderWaits, Missing, Has, AtCapacity
  <2> QED
    BY <2>2, <2>3, <2>4, <2>5 DEF Inv
<1> QED
  BY <1>1, <1>2, <1>3, <1>4, <1>5, <1>6 DEF Next

(* The invariant holds of every reachable state.                           *)
LEMMA BroadcastInv == Spec => []Inv
BY InitInv, NextInv, PTL DEF Spec

(* The counts are those of the subscribers, no buffer exceeds its          *)
(* capacity, and a call that is over has no waker to be woken.             *)
THEOREM BroadcastTypeOK == Spec => []TypeOK
<1>1. Inv => TypeOK
  BY DEF Inv
<1> QED
  BY <1>1, BroadcastInv, PTL

(* A subscriber is given messages in the order they were sent and none     *)
(* twice, however sends are suspended, dropped half way or tried.          *)
THEOREM BroadcastInOrder == Spec => []InOrderOnce
<1>1. Inv => InOrderOnce
  BY DEF Inv, TypeOK, InOrder, InOrderOnce, Rising, EndsWith
<1> QED
  BY <1>1, BroadcastInv, PTL

(* The id of the shared state tells, for each subscriber, whether it has   *)
(* the message of the suspended `send`.                                    *)
THEOREM BroadcastIds == Spec => []IdTellsWhoHasIt
<1>1. Inv => IdTellsWhoHasIt
  BY DEF Inv
<1> QED
  BY <1>1, BroadcastInv, PTL

(* A `send` that was driven to its end has reached everyone who had        *)
(* subscribed before it.                                                   *)
THEOREM BroadcastGuaranteed == Spec => []GuaranteedDelivery
<1>1. Inv => GuaranteedDelivery
  BY DEF Inv
<1> QED
  BY <1>1, BroadcastInv, PTL

(* The task of a suspended `send` is woken once the call could go on.      *)
THEOREM BroadcastSender == Spec => []SenderNotified
<1>1. Inv => SenderNotified
  BY DEF Inv, SenderWaits, SenderNotified, Missing
<1> QED
  BY <1>1, BroadcastInv, PTL

(* The task of a suspended `recv` is woken once there is a message or the  *)
(* sender is gone.                                                         *)
THEOREM BroadcastReceiver ==
    Spec => [](\A s \in Slots :
                  (polledBy[s] # Nil /\ (buf[s] # << >> \/ ~Rc!AnyStrong(rc)))
                     => s \in notified)
<1>1. Inv => \A s \in Slots :
                (polledBy[s] # Nil /\ (buf[s] # << >> \/ ~Rc!AnyStrong(rc)))
                   => s \in notified
  BY DEF Inv, ReceiverWaits
<1> QED
  BY <1>1, BroadcastInv, PTL

=============================================================================
