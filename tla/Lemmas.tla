-------------------------------- MODULE Lemmas --------------------------------
(***************************************************************************)
(* Facts that the proofs about several components rest on.                 *)
(***************************************************************************)
EXTENDS Naturals, Sequences, FiniteSets, SequenceTheorems, FiniteSetTheorems, TLAPS

(***************************************************************************)
(* What the operations of a wait queue (join at the end, leave from the    *)
(* front, leave from anywhere) do to who stands in it.                     *)
(***************************************************************************)

Holds(s, e) == \E i \in 1..Len(s) : s[i] = e
NoTwice(s) == \A i, j \in 1..Len(s) : s[i] = s[j] => i = j
Without(s, i) == SubSeq(s, 1, i - 1) \o SubSeq(s, i + 1, Len(s))

(* A future that is dropped leaves the others in their order.              *)
LEMMA WithoutElements ==
    ASSUME NEW S, NEW s \in Seq(S), NEW i \in 1..Len(s)
    PROVE  /\ Without(s, i) \in Seq(S)
           /\ Len(Without(s, i)) = Len(s) - 1
           /\ \A j \in 1..(Len(s) - 1) :
                 Without(s, i)[j] = IF j < i THEN s[j] ELSE s[j + 1]
<1>a. Len(s) \in Nat /\ \A j \in 1..Len(s) : s[j] \in S
  BY LenProperties, ElementOfSeq
<1> DEFINE t == SubSeq(s, 1, i - 1)
           u == SubSeq(s, i + 1, Len(s))
<1>1. /\ t \in Seq(S) /\ Len(t) = i - 1
      /\ \A j \in 1..(i - 1) : t[j] = s[j]
  <2>1. \A j \in 1..(i - 1) : s[j] \in S
    BY <1>a
  <2>2. /\ t \in Seq(S)
        /\ Len(t) = IF 1 <= i - 1 THEN (i - 1) - 1 + 1 ELSE 0
        /\ \A j \in 1..((i - 1) - 1 + 1) : t[j] = s[1 + j - 1]
    BY <1>a, <2>1, SubSeqProperties
  <2> QED
    BY <1>a, <2>2
<1>2. /\ u \in Seq(S) /\ Len(u) = Len(s) - i
      /\ \A j \in 1..(Len(s) - i) : u[j] = s[i + j]
  <2>1. \A j \in (i + 1)..Len(s) : s[j] \in S
    BY <1>a
  <2>2. /\ u \in Seq(S)
        /\ Len(u) = IF i + 1 <= Len(s) THEN Len(s) - (i + 1) + 1 ELSE 0
        /\ \A j \in 1..(Len(s) - (i + 1) + 1) : u[j] = s[(i + 1) + j - 1]
    BY <1>a, <2>1, SubSeqProperties
  <2> QED
    BY <1>a, <2>2
<1>3. Without(s, i) = t \o u
  BY DEF Without
<1> HIDE DEF t, u
<1>4. /\ t \o u \in Seq(S)
      /\ Len(t \o u) = Len(t) + Len(u)
      /\ \A j \in 1..(Len(t) + Len(u)) :
            (t \o u)[j] = IF j <= Len(t) THEN t[j] ELSE u[j - Len(t)]
  BY <1>1, <1>2, ConcatProperties
<1>5. Len(t) + Len(u) = Len(s) - 1
  BY <1>a, <1>1, <1>2
<1>6. /\ Without(s, i) \in Seq(S)
      /\ Len(Without(s, i)) = Len(s) - 1
      /\ \A j \in 1..(Len(s) - 1) :
            Without(s, i)[j] = IF j <= i - 1 THEN t[j] ELSE u[j - (i - 1)]
  BY <1>1, <1>3, <1>4, <1>5, Zenon
<1>7. ASSUME NEW j \in 1..(Len(s) - 1)
      PROVE  Without(s, i)[j] = IF j < i THEN s[j] ELSE s[j + 1]
  <2>1. CASE j < i
    <3>1. j <= i - 1 /\ j \in 1..(i - 1)
      BY <2>1, <1>a
    <3> QED
      BY <2>1, <3>1, <1>1, <1>6
  <2>2. CASE ~(j < i)
    <3>1. /\ ~(j <= i - 1) /\ j - (i - 1) \in 1..(Len(s) - i)
          /\ i + (j - (i - 1)) = j + 1
      BY <2>2, <1>a
    <3>2. Without(s, i)[j] = u[j - (i - 1)]
      BY <3>1, <1>6
    <3>3. u[j - (i - 1)] = s[i + (j - (i - 1))]
      BY <3>1, <1>2
    <3> QED
      BY <2>2, <3>1, <3>2, <3>3
  <2> QED
    BY <2>1, <2>2
<1> QED
  BY <1>6, <1>7

(* It is the only one that leaves.                                         *)
LEMMA WithoutHolds ==
    ASSUME NEW S, NEW s \in Seq(S), NEW i \in 1..Len(s), NoTwice(s)
    PROVE  /\ NoTwice(Without(s, i))
           /\ \A e : Holds(Without(s, i), e) <=> Holds(s, e) /\ e # s[i]
<1>a. Len(s) \in Nat
  BY LenProperties
<1> DEFINE t == Without(s, i)
<1>1. /\ Len(t) = Len(s) - 1
      /\ \A j \in 1..(Len(s) - 1) : t[j] = IF j < i THEN s[j] ELSE s[j + 1]
  BY WithoutElements
<1> HIDE DEF t
<1>2. NoTwice(t)
  <2> DEFINE from(j) == IF j < i THEN j ELSE j + 1
  <2>1. \A j \in 1..Len(t) : from(j) \in 1..Len(s) /\ t[j] = s[from(j)]
    BY <1>a, <1>1
  <2>2. \A j, l \in 1..Len(t) : from(j) = from(l) => j = l
    BY <1>a, <1>1
  <2> HIDE DEF from
  <2> QED
    BY <2>1, <2>2 DEF NoTwice
<1>3. ASSUME NEW j \in 1..Len(t)
      PROVE  Holds(s, t[j]) /\ t[j] # s[i]
  <2>1. j \in 1..(Len(s) - 1)
    BY <1>1
  <2>2. CASE j < i
    <3>1. j \in 1..Len(s) /\ j # i /\ t[j] = s[j]
      BY <2>1, <2>2, <1>a, <1>1
    <3> QED
      BY <3>1 DEF Holds, NoTwice
  <2>3. CASE j >= i
    <3>1. j + 1 \in 1..Len(s) /\ j + 1 # i /\ t[j] = s[j + 1]
      BY <2>1, <2>3, <1>a, <1>1
    <3> QED
      BY <3>1 DEF Holds, NoTwice
  <2> QED
    BY <2>1, <2>2, <2>3, <1>a
<1>4. ASSUME NEW l \in 1..Len(s), s[l] # s[i]
      PROVE  Holds(t, s[l])
  <2>1. CASE l < i
    <3>1. l \in 1..Len(t) /\ t[l] = s[l]
      BY <2>1, <1>a, <1>1
    <3> QED
      BY <3>1 DEF Holds
  <2>2. CASE l > i
    <3>1. /\ l - 1 \in 1..(Len(s) - 1) /\ ~(l - 1 < i)
          /\ (l - 1) + 1 = l
      BY <2>2, <1>a
    <3>2. t[l - 1] = s[(l - 1) + 1]
      BY <3>1, <1>1
    <3>3. t[l - 1] = s[l] /\ l - 1 \in 1..Len(t)
      BY <3>1, <3>2, <1>1, Zenon
    <3> QED
      BY <3>3 DEF Holds
  <2>3. l # i
    BY <1>4
  <2> QED
    BY <2>1, <2>2, <2>3, <1>a
<1>5. \A e : Holds(t, e) <=> Holds(s, e) /\ e # s[i]
  BY <1>3, <1>4 DEF Holds
<1> QED
  BY <1>2, <1>5 DEF t

(* The front leaves.                                                       *)
LEMMA TailHolds ==
    ASSUME NEW S, NEW s \in Seq(S), s # << >>, NoTwice(s)
    PROVE  /\ Head(s) \in S /\ Holds(s, Head(s))
           /\ Tail(s) \in Seq(S)
           /\ NoTwice(Tail(s))
           /\ \A e : Holds(Tail(s), e) <=> Holds(s, e) /\ e # Head(s)
<1>1. /\ Len(s) \in Nat \ {0}
      /\ Len(Tail(s)) = Len(s) - 1
      /\ Head(s) \in S /\ Tail(s) \in Seq(S)
      /\ \A i \in 1..Len(Tail(s)) : Tail(s)[i] = s[i + 1]
  BY HeadTailProperties, EmptySeq
<1>2. 1 \in 1..Len(s) /\ Head(s) = s[1]
  BY <1>1
<1>3. NoTwice(Tail(s))
  <2> SUFFICES ASSUME NEW i \in 1..Len(Tail(s)), NEW j \in 1..Len(Tail(s)),
                      Tail(s)[i] = Tail(s)[j]
               PROVE  i = j
    BY DEF NoTwice
  <2>1. /\ i + 1 \in 1..Len(s) /\ j + 1 \in 1..Len(s)
        /\ s[i + 1] = s[j + 1]
    BY <1>1
  <2>2. i + 1 = j + 1
    BY <2>1 DEF NoTwice
  <2> QED
    BY <1>1, <2>2
<1>4. ASSUME NEW i \in 1..Len(Tail(s))
      PROVE  Holds(s, Tail(s)[i]) /\ Tail(s)[i] # Head(s)
  <2>1. i + 1 \in 1..Len(s) /\ i + 1 # 1 /\ Tail(s)[i] = s[i + 1]
    BY <1>1
  <2> QED
    BY <2>1, <1>2 DEF Holds, NoTwice
<1>5. ASSUME NEW l \in 1..Len(s), s[l] # Head(s)
      PROVE  Holds(Tail(s), s[l])
  <2>1. l - 1 \in 1..Len(Tail(s)) /\ (l - 1) + 1 = l
    BY <1>1, <1>2, <1>5
  <2>2. Tail(s)[l - 1] = s[(l - 1) + 1]
    BY <2>1, <1>1
  <2> QED
    BY <2>1, <2>2 DEF Holds
<1>6. \A e : Holds(Tail(s), e) <=> Holds(s, e) /\ e # Head(s)
  BY <1>4, <1>5 DEF Holds
<1> QED
  BY <1>1, <1>2, <1>3, <1>6 DEF Holds

(* A newcomer joins.                                                       *)
LEMMA AppendHolds ==
    ASSUME NEW S, NEW s \in Seq(S), NEW c \in S, ~Holds(s, c), NoTwice(s)
    PROVE  /\ Append(s, c) \in Seq(S) /\ Append(s, c) # << >>
           /\ NoTwice(Append(s, c))
           /\ \A e : Holds(Append(s, c), e) <=> Holds(s, e) \/ e = c
<1>1. /\ Len(s) \in Nat
      /\ Append(s, c) \in Seq(S)
      /\ Len(Append(s, c)) = Len(s) + 1
      /\ \A i \in 1..(Len(s) + 1) :
            Append(s, c)[i] = IF i = Len(s) + 1 THEN c ELSE s[i]
  BY AppendProperties
<1>2. Append(s, c) # << >>
  BY <1>1
<1>3. NoTwice(Append(s, c))
  BY <1>1 DEF NoTwice, Holds
<1>4. Len(s) + 1 \in 1..Len(Append(s, c)) /\ Append(s, c)[Len(s) + 1] = c
  BY <1>1
<1>5. ASSUME NEW l \in 1..Len(s)
      PROVE  l \in 1..Len(Append(s, c)) /\ Append(s, c)[l] = s[l]
  BY <1>1
<1>6. ASSUME NEW i \in 1..Len(Append(s, c))
      PROVE  Holds(s, Append(s, c)[i]) \/ Append(s, c)[i] = c
  <2>1. i = Len(s) + 1 \/ i \in 1..Len(s)
    BY <1>1
  <2> QED
    BY <2>1, <1>4, <1>5 DEF Holds
<1>7. \A e : Holds(Append(s, c), e) <=> Holds(s, e) \/ e = c
  BY <1>4, <1>5, <1>6 DEF Holds
<1> QED
  BY <1>1, <1>2, <1>3, <1>7

-----------------------------------------------------------------------------
(***************************************************************************)
(* What the reference count of a channel tells about its two halves.       *)
(***************************************************************************)

(* There are as many references as there are halves.                       *)
LEMMA HalvesCount ==
    ASSUME NEW A \in SUBSET {"tx", "rx"}
    PROVE  Cardinality(A) = (IF "tx" \in A THEN 1 ELSE 0) + (IF "rx" \in A THEN 1 ELSE 0)
<1>1. /\ Cardinality({}) = 0 /\ Cardinality({"tx"}) = 1
      /\ Cardinality({"rx"}) = 1 /\ IsFiniteSet({"rx"})
  BY FS_EmptySet, FS_Singleton
<1>2. Cardinality({"rx"} \cup {"tx"}) = 2
  <2>1. Cardinality({"rx"} \cup {"tx"}) = Cardinality({"rx"}) + 1
    <3>1. "tx" \notin {"rx"}
      OBVIOUS
    <3> QED
      BY <1>1, <3>1, FS_AddElement
  <2> QED
    BY <1>1, <2>1
<1>3. A = {} \/ A = {"tx"} \/ A = {"rx"} \/ A = {"rx"} \cup {"tx"}
  OBVIOUS
<1>4. CASE A = {}
  BY <1>1, <1>4
<1>5. CASE A = {"tx"}
  BY <1>1, <1>5
<1>6. CASE A = {"rx"}
  BY <1>1, <1>6
<1>7. CASE A = {"rx"} \cup {"tx"}
  BY <1>2, <1>7
<1> QED
  BY <1>3, <1>4, <1>5, <1>6, <1>7

(* The count is two while both halves are there, one when the last is, and *)
(* goes down by one with each.                                             *)
LEMMA CountTells ==
    ASSUME NEW A \in SUBSET {"tx", "rx"}
    PROVE  /\ Cardinality(A) \in 0..2
           /\ Cardinality(A) = 2 <=> "tx" \in A /\ "rx" \in A
           /\ Cardinality(A) = 0 <=> A = {}
           /\ \A e \in A : /\ Cardinality(A) = 1 <=> A = {e}
                           /\ Cardinality(A \ {e}) = Cardinality(A) - 1
<1>1. PICK x, y : /\ x = (IF "tx" \in A THEN 1 ELSE 0)
                  /\ y = (IF "rx" \in A THEN 1 ELSE 0)
  OBVIOUS
<1>2. Cardinality(A) = x + y
  BY <1>1, HalvesCount
<1>3. /\ Cardinality(A) \in 0..2
      /\ Cardinality(A) = 2 <=> "tx" \in A /\ "rx" \in A
      /\ Cardinality(A) = 0 <=> A = {}
  BY <1>1, <1>2
<1>4. ASSUME NEW e \in A
      PROVE  /\ Cardinality(A) = 1 <=> A = {e}
             /\ Cardinality(A \ {e}) = Cardinality(A) - 1
  <2>1. CASE e = "tx"
    <3>1. x = 1 /\ y \in 0..1 /\ (y = 0 <=> "rx" \notin A)
      BY <1>1, <2>1
    <3>2. "rx" \notin A <=> A = {e}
      BY <2>1
    <3>3. Cardinality(A \ {e}) = (IF "tx" \in A \ {e} THEN 1 ELSE 0)
                                   + (IF "rx" \in A \ {e} THEN 1 ELSE 0)
      BY HalvesCount
    <3>4. Cardinality(A \ {e}) = y
      BY <1>1, <2>1, <3>3
    <3> QED
      BY <1>2, <3>1, <3>2, <3>4
  <2>2. CASE e = "rx"
    <3>1. y = 1 /\ x \in 0..1 /\ (x = 0 <=> "tx" \notin A)
      BY <1>1, <2>2
    <3>2. "tx" \notin A <=> A = {e}
      BY <2>2
    <3>3. Cardinality(A \ {e}) = (IF "tx" \in A \ {e} THEN 1 ELSE 0)
                                   + (IF "rx" \in A \ {e} THEN 1 ELSE 0)
      BY HalvesCount
    <3>4. Cardinality(A \ {e}) = x
      BY <1>1, <2>2, <3>3
    <3> QED
      BY <1>2, <3>1, <3>2, <3>4
  <2> QED
    BY <2>1, <2>2
<1> QED
  BY <1>3, <1>4
=============================================================================
