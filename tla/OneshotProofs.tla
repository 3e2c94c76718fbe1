---------------------------- MODULE OneshotProofs ----------------------------
(***************************************************************************)
(* Theorems about `Oneshot`, for any set of channels, messages and tasks.  *)
(***************************************************************************)
EXTENDS Oneshot, Lemmas

(* A sender is used up by what its user is told, and a receiver is told    *)
(* nothing first and then one thing.  What is in the slot was sent and not *)
(* received.                                                               *)
UsedOnce ==
    \A c \in Channels :
        /\ sent[c] # Nil \/ received[c] # Nil => "tx" \notin alive[c]
        /\ buf[c] # Nil => sent[c] = buf[c] /\ received[c] = Nil

(* That None is true needs that no accepted message has gone from the slot *)
(* unseen (AcceptedIsKept); that this holds when the slot is freed or      *)
(* filled needs the count to tell who is there (TypeOK) and the slot to be *)
(* filled once (UsedOnce).                                                 *)
Inv == TypeOK /\ UsedOnce /\ AnswerIsTrue /\ AcceptedIsKept

(* The two flags of the reference count tell the truth.                    *)
LEMMA FlagsTell ==
    ASSUME TypeOK, NEW c \in Channels
    PROVE  /\ BothPresent(c) <=> "tx" \in alive[c] /\ "rx" \in alive[c]
           /\ \A e \in alive[c] : Rc!DropFrees(count[c]) <=> alive[c] = {e}
<1>1. alive[c] \in SUBSET {"tx", "rx"} /\ count[c] = Cardinality(alive[c])
  BY DEF TypeOK
<1> QED
  BY <1>1, CountTells DEF BothPresent, Rc!BothPresent, Rc!DropFrees

(* What a half that goes leaves behind.                                    *)
Released(c, e, v) ==
    /\ alive' \in [Channels -> SUBSET {"tx", "rx"}]
    /\ count' \in [Channels -> 0..2]
    /\ buf' \in [Channels -> Messages \cup {Nil}]
    /\ \A d \in Channels :
          /\ count'[d] = Cardinality(alive'[d])
          /\ count'[d] = 0 <=> alive'[d] = {}
          /\ alive'[d] = IF d = c THEN alive[c] \ {e} ELSE alive[d]
          /\ buf'[d] = IF d = c THEN IF alive[c] = {e} THEN Nil ELSE v
                                ELSE buf[d]

LEMMA ReleaseKeeps ==
    ASSUME TypeOK, NEW c \in Channels, NEW e \in alive[c],
           NEW v \in Messages \cup {Nil}, Release(c, e, v)
    PROVE  Released(c, e, v)
<1>1. \A d \in Channels : alive'[d] = IF d = c THEN alive[c] \ {e} ELSE alive[d]
  BY DEF Release, TypeOK
<1>2. alive' \in [Channels -> SUBSET {"tx", "rx"}]
  BY DEF Release, TypeOK
<1>3. \A d \in Channels : count'[d] = IF d = c THEN count[c] - 1 ELSE count[d]
  BY DEF Release, TypeOK, Rc!Dropped
<1>4. \A d \in Channels : count'[d] = Cardinality(alive'[d])
  <2>1. ASSUME NEW d \in Channels, d # c
        PROVE  count'[d] = Cardinality(alive'[d])
    BY <1>1, <1>3, <2>1 DEF TypeOK
  <2>2. alive[c] \in SUBSET {"tx", "rx"} /\ count[c] = Cardinality(alive[c])
    BY DEF TypeOK
  <2>3. Cardinality(alive[c] \ {e}) = Cardinality(alive[c]) - 1
    BY <2>2, CountTells
  <2>4. count'[c] = Cardinality(alive'[c])
    BY <1>1, <1>3, <2>2, <2>3
  <2> QED
    BY <2>1, <2>4
<1>5. \A d \in Channels : /\ Cardinality(alive'[d]) \in 0..2
                          /\ Cardinality(alive'[d]) = 0 <=> alive'[d] = {}
  BY <1>2, CountTells
<1>6. DOMAIN count' = Channels
  BY DEF Release, TypeOK
<1>7. count' \in [Channels -> 0..2]
  <2>1. count' = [d \in Channels |-> count'[d]]
    BY <1>6 DEF Release, TypeOK
  <2> QED
    BY <1>4, <1>5, <2>1
<1>8. Rc!DropFrees(count[c]) <=> alive[c] = {e}
  BY FlagsTell
<1>9. \A d \in Channels : buf'[d] = IF d = c THEN IF alive[c] = {e} THEN Nil ELSE v
                                              ELSE buf[d]
  BY <1>8 DEF Release, TypeOK
<1>10. buf' \in [Channels -> Messages \cup {Nil}]
  BY DEF Release, TypeOK
<1> QED
  BY <1>1, <1>2, <1>4, <1>5, <1>7, <1>9, <1>10 DEF Released

LEMMA InitInv == Init => Inv
<1> SUFFICES ASSUME Init PROVE Inv
  OBVIOUS
<1>1. Cardinality({}) = 0
  BY FS_EmptySet
<1>2. TypeOK
  BY <1>1 DEF Init, TypeOK
<1>3. UsedOnce /\ AnswerIsTrue /\ AcceptedIsKept
  BY NilIsNothing DEF Init, UsedOnce, AnswerIsTrue, AcceptedIsKept
<1> QED
  BY <1>2, <1>3 DEF Inv

(* A sender goes, and its user was told `a`: nothing when it is dropped.   *)
LEMMA SenderGoes ==
    ASSUME Inv, NEW c \in Channels, "tx" \in alive[c],
           NEW a \in Messages \cup {Err, Nil}, NEW v \in Messages \cup {Nil},
           a \in Messages => v = a /\ "rx" \in alive[c],
           a \notin Messages => v = buf[c],
           a = Err => "rx" \notin alive[c],
           Release(c, "tx", v), TakeAndWake(c),
           sent' = [sent EXCEPT ![c] = a],
           UNCHANGED <<received, polledBy>>
    PROVE  Inv'
<1>a. TypeOK /\ UsedOnce /\ AnswerIsTrue /\ AcceptedIsKept
  BY DEF Inv
<1>1. /\ alive' \in [Channels -> SUBSET {"tx", "rx"}]
      /\ count' \in [Channels -> 0..2]
      /\ buf' \in [Channels -> Messages \cup {Nil}]
      /\ \A d \in Channels :
            /\ count'[d] = Cardinality(alive'[d])
            /\ count'[d] = 0 <=> alive'[d] = {}
            /\ alive'[d] = IF d = c THEN alive[c] \ {"tx"} ELSE alive[d]
            /\ buf'[d] = IF d = c THEN IF alive[c] = {"tx"} THEN Nil ELSE v
                                  ELSE buf[d]
  <2>1. Released(c, "tx", v)
    BY <1>a, ReleaseKeeps
  <2> QED
    BY <2>1 DEF Released
<1>2. \A d \in Channels : count[d] = 0 <=> alive[d] = {}
  BY <1>a, CountTells DEF TypeOK
<1>3. /\ waker' \in [Channels -> Tasks \cup {Nil}]
      /\ \A d \in Channels : waker'[d] = IF d = c THEN Nil ELSE waker[d]
  BY <1>a DEF TakeAndWake, TypeOK
<1>4. /\ sent' \in [Channels -> Messages \cup {Err, Nil}]
      /\ \A d \in Channels : sent'[d] = IF d = c THEN a ELSE sent[d]
  BY <1>a DEF TypeOK
<1>5. \A d \in Channels : count'[d] = 0 => buf'[d] = Nil /\ waker'[d] = Nil
  <2>1. ASSUME NEW d \in Channels, d # c, count'[d] = 0
        PROVE  buf'[d] = Nil /\ waker'[d] = Nil
    BY <1>a, <1>1, <1>2, <1>3, <2>1 DEF TypeOK
  <2>2. ASSUME count'[c] = 0
        PROVE  buf'[c] = Nil /\ waker'[c] = Nil
    <3>1. alive[c] = {"tx"}
      BY <1>1, <2>2
    <3> QED
      BY <1>1, <1>3, <3>1
  <2> QED
    BY <2>1, <2>2
<1>6. notified' \subseteq {d \in Channels : polledBy'[d] # Nil}
  BY <1>a, NilIsNothing DEF TakeAndWake, TypeOK
<1>7. TypeOK'
  <2>1. /\ \A d \in Channels : /\ count'[d] = Cardinality(alive'[d])
                               /\ count'[d] = 0 => buf'[d] = Nil /\ waker'[d] = Nil
        /\ alive' \in [Channels -> SUBSET {"tx", "rx"}]
        /\ count' \in [Channels -> 0..2]
        /\ buf' \in [Channels -> Messages \cup {Nil}]
    BY <1>1, <1>5
  <2>2. /\ received' \in [Channels -> Messages \cup {None, Nil}]
        /\ polledBy' \in [Channels -> Tasks \cup {Nil}]
    BY <1>a DEF TypeOK
  <2>3. /\ waker' \in [Channels -> Tasks \cup {Nil}]
        /\ sent' \in [Channels -> Messages \cup {Err, Nil}]
    BY <1>3, <1>4
  <2> QED
    BY <1>6, <2>1, <2>2, <2>3 DEF TypeOK
<1>8. sent[c] = Nil /\ received[c] = Nil /\ buf[c] = Nil
  <2>1. sent[c] = Nil /\ received[c] = Nil
    BY <1>a DEF UsedOnce
  <2> QED
    BY <1>a, <2>1 DEF UsedOnce
<1>9. UsedOnce'
  <2>1. ASSUME NEW d \in Channels
        PROVE  sent'[d] # Nil \/ received'[d] # Nil => "tx" \notin alive'[d]
    BY <1>a, <1>1, <1>4 DEF UsedOnce
  <2>2. ASSUME NEW d \in Channels, buf'[d] # Nil
        PROVE  sent'[d] = buf'[d] /\ received'[d] = Nil
    BY <1>a, <1>1, <1>4, <1>8, <2>2 DEF UsedOnce
  <2> QED
    BY <2>1, <2>2 DEF UsedOnce
<1>10. AnswerIsTrue'
  BY <1>a, <1>4, <1>8, NilIsNothing DEF AnswerIsTrue
<1>11. AcceptedIsKept'
  <2>1. ASSUME NEW d \in Channels, d # c
        PROVE  /\ (sent'[d] \in Messages /\ "rx" \in alive'[d])
                     => sent'[d] \in {buf'[d], received'[d]}
               /\ sent'[d] = Err => "rx" \notin alive'[d]
    BY <1>a, <1>1, <1>4, <2>1 DEF AcceptedIsKept
  <2>2. sent'[c] \in Messages => sent'[c] = buf'[c]
    BY <1>1, <1>4
  <2>3. sent'[c] = Err => "rx" \notin alive'[c]
    BY <1>1, <1>4
  <2> QED
    BY <2>1, <2>2, <2>3 DEF AcceptedIsKept
<1> QED
  BY <1>7, <1>9, <1>10, <1>11 DEF Inv

LEMMA NextInv == Inv /\ [Next]_vars => Inv'
<1> SUFFICES ASSUME Inv, [Next]_vars PROVE Inv'
  OBVIOUS
<1>a. TypeOK /\ UsedOnce /\ AnswerIsTrue /\ AcceptedIsKept
  BY DEF Inv
<1>1. ASSUME NEW c \in Channels, Create(c)
      PROVE  Inv'
  <2>1. /\ alive' \in [Channels -> SUBSET {"tx", "rx"}]
        /\ \A d \in Channels : alive'[d] = IF d = c THEN {"tx", "rx"} ELSE alive[d]
    BY <1>1, <1>a DEF Create, TypeOK
  <2>2. /\ count' \in [Channels -> 0..2]
        /\ \A d \in Channels : count'[d] = IF d = c THEN 2 ELSE count[d]
    BY <1>1, <1>a DEF Create, TypeOK, Rc!New
  <2>3. /\ sent' \in [Channels -> Messages \cup {Err, Nil}]
        /\ received' \in [Channels -> Messages \cup {None, Nil}]
        /\ \A d \in Channels : /\ sent'[d] = IF d = c THEN Nil ELSE sent[d]
                               /\ received'[d] = IF d = c THEN Nil ELSE received[d]
    BY <1>1, <1>a DEF Create, TypeOK
  <2>4. UNCHANGED <<waker, buf, polledBy, notified>> /\ alive[c] = {}
    BY <1>1 DEF Create
  <2>5. Cardinality({"tx", "rx"}) = 2
    BY CountTells
  <2>6. buf[c] = Nil
    BY <1>a, <2>4, CountTells DEF TypeOK
  <2>7. TypeOK'
    <3>1. ASSUME NEW d \in Channels
          PROVE  /\ count'[d] = Cardinality(alive'[d])
                 /\ count'[d] = 0 => buf'[d] = Nil /\ waker'[d] = Nil
      <4>1. CASE d = c
        BY <2>1, <2>2, <2>5, <4>1
      <4>2. CASE d # c
        BY <1>a, <2>1, <2>2, <2>4, <4>2 DEF TypeOK
      <4> QED
        BY <4>1, <4>2
    <3> QED
      BY <1>a, <2>1, <2>2, <2>3, <2>4, <3>1 DEF TypeOK
  <2>8. UsedOnce'
    BY <1>a, <2>1, <2>3, <2>4, <2>6 DEF UsedOnce
  <2>9. AnswerIsTrue' /\ AcceptedIsKept'
    BY <1>a, <2>1, <2>3, <2>4, NilIsNothing DEF AnswerIsTrue, AcceptedIsKept
  <2> QED
    BY <2>7, <2>8, <2>9 DEF Inv
<1>2. ASSUME NEW c \in Channels, NEW m \in Messages, Send(c, m)
      PROVE  Inv'
  <2>1. CASE BothPresent(c)
    <3>1. "rx" \in alive[c]
      BY <1>a, <2>1, FlagsTell
    <3>2. m # Err
      BY NoneAndErrAreNoMessages
    <3> QED
      BY <1>2, <2>1, <3>1, <3>2, SenderGoes DEF Send
  <2>2. CASE ~BothPresent(c)
    <3>1. "rx" \notin alive[c]
      BY <1>a, <1>2, <2>2, FlagsTell DEF Send
    <3>2. buf[c] \in Messages \cup {Nil} /\ Err \notin Messages
      BY <1>a, NoneAndErrAreNoMessages DEF TypeOK
    <3> QED
      BY <1>2, <2>2, <3>1, <3>2, SenderGoes DEF Send
  <2> QED
    BY <2>1, <2>2
<1>3. ASSUME NEW c \in Channels, DropSender(c)
      PROVE  Inv'
  <2>1. /\ "tx" \in alive[c] /\ Release(c, "tx", buf[c]) /\ TakeAndWake(c)
        /\ UNCHANGED <<sent, received, polledBy>>
    BY <1>3 DEF DropSender
  <2>2. buf[c] \in Messages \cup {Nil} /\ Nil \notin Messages /\ Nil # Err
    BY <1>a, NilIsNothing DEF TypeOK
  <2>3. sent[c] = Nil
    BY <1>a, <2>1 DEF UsedOnce
  <2>4. sent' = [sent EXCEPT ![c] = Nil]
    BY <1>a, <2>1, <2>3 DEF TypeOK
  <2> QED
    BY <2>1, <2>2, <2>4, SenderGoes
<1>4. ASSUME NEW c \in Channels, PollMessage(c)
      PROVE  Inv'
  <2>1. /\ "rx" \in alive[c] /\ buf[c] # Nil
        /\ buf' \in [Channels -> Messages \cup {Nil}]
        /\ \A d \in Channels : buf'[d] = IF d = c THEN Nil ELSE buf[d]
        /\ UNCHANGED <<count, waker, alive, sent>>
    BY <1>4, <1>a DEF PollMessage, TypeOK
  <2>2. sent[c] = buf[c] /\ received[c] = Nil /\ buf[c] \in Messages
    BY <1>a, <2>1 DEF UsedOnce, TypeOK
  <2>3. /\ received' \in [Channels -> Messages \cup {None, Nil}]
        /\ \A d \in Channels : received'[d] = IF d = c THEN buf[c] ELSE received[d]
    BY <1>4, <1>a, <2>2 DEF PollMessage, Answer, TypeOK
  <2>4. /\ polledBy' \in [Channels -> Tasks \cup {Nil}]
        /\ notified' \subseteq {d \in Channels : polledBy'[d] # Nil}
    BY <1>4, <1>a DEF PollMessage, Answer, TypeOK
  <2>5. TypeOK'
    BY <1>a, <2>1, <2>3, <2>4 DEF TypeOK
  <2>6. UsedOnce'
    BY <1>a, <2>1, <2>2, <2>3 DEF UsedOnce
  <2>7. AnswerIsTrue' /\ AcceptedIsKept'
    BY <1>a, <2>1, <2>2, <2>3, NoneAndErrAreNoMessages DEF AnswerIsTrue, AcceptedIsKept
  <2> QED
    BY <2>5, <2>6, <2>7 DEF Inv
<1>5. ASSUME NEW c \in Channels, PollEnd(c)
      PROVE  Inv'
  <2>1. /\ "rx" \in alive[c] /\ buf[c] = Nil /\ ~BothPresent(c)
        /\ waker' \in [Channels -> Tasks \cup {Nil}]
        /\ \A d \in Channels : waker'[d] = IF d = c THEN Nil ELSE waker[d]
        /\ UNCHANGED <<count, buf, alive, sent>>
    BY <1>5, <1>a DEF PollEnd, TypeOK
  <2>2. "tx" \notin alive[c]
    BY <1>a, <2>1, FlagsTell
  <2>3. /\ received' \in [Channels -> Messages \cup {None, Nil}]
        /\ \A d \in Channels :
              received'[d] = IF d = c /\ received[c] = Nil THEN None ELSE received[d]
    BY <1>5, <1>a DEF PollEnd, Answer, TypeOK
  <2>4. /\ polledBy' \in [Channels -> Tasks \cup {Nil}]
        /\ notified' \subseteq {d \in Channels : polledBy'[d] # Nil}
    BY <1>5, <1>a DEF PollEnd, Answer, TypeOK
  <2>5. TypeOK'
    BY <1>a, <2>1, <2>3, <2>4 DEF TypeOK
  <2>6. UsedOnce'
    BY <1>a, <2>1, <2>2, <2>3 DEF UsedOnce
  <2>7. received[c] = Nil => sent[c] = Nil
    BY <1>a, <2>1, NilIsNothing DEF AcceptedIsKept, TypeOK
  <2>8. AnswerIsTrue' /\ AcceptedIsKept'
    BY <1>a, <2>1, <2>3, <2>7, NilIsNothing, NoneAndErrAreNoMessages
       DEF AnswerIsTrue, AcceptedIsKept
  <2> QED
    BY <2>5, <2>6, <2>8 DEF Inv
<1>6. ASSUME NEW c \in Channels, NEW k \in Tasks, PollPending(c, k)
      PROVE  Inv'
  <2>1. /\ waker' \in [Channels -> Tasks \cup {Nil}]
        /\ \A d \in Channels : waker'[d] = IF d = c THEN k ELSE waker[d]
        /\ UNCHANGED <<count, buf, alive, sent, received>>
    BY <1>6, <1>a DEF PollPending, TypeOK
  <2>2. count[c] # 0
    BY <1>6 DEF PollPending, BothPresent, Rc!BothPresent
  <2>3. /\ polledBy' \in [Channels -> Tasks \cup {Nil}]
        /\ notified' \subseteq {d \in Channels : polledBy'[d] # Nil}
    BY <1>6, <1>a DEF PollPending, TypeOK
  <2>4. TypeOK'
    BY <1>a, <2>1, <2>2, <2>3 DEF TypeOK
  <2> QED
    BY <1>a, <2>1, <2>4 DEF Inv, UsedOnce, AnswerIsTrue, AcceptedIsKept
<1>7. ASSUME NEW c \in Channels, DropReceiver(c)
      PROVE  Inv'
  <2>1. buf[c] \in Messages \cup {Nil} /\ "rx" \in alive[c] /\ Release(c, "rx", buf[c])
    BY <1>7, <1>a DEF DropReceiver, TypeOK
  <2>2. /\ alive' \in [Channels -> SUBSET {"tx", "rx"}]
        /\ count' \in [Channels -> 0..2]
        /\ buf' \in [Channels -> Messages \cup {Nil}]
        /\ \A d \in Channels :
              /\ count'[d] = Cardinality(alive'[d])
              /\ count'[d] = 0 <=> alive'[d] = {}
              /\ alive'[d] = IF d = c THEN alive[c] \ {"rx"} ELSE alive[d]
              /\ buf'[d] = IF d = c THEN IF alive[c] = {"rx"} THEN Nil ELSE buf[c]
                                    ELSE buf[d]
    <3>1. Released(c, "rx", buf[c])
      BY <1>a, <2>1, ReleaseKeeps
    <3> QED
      BY <3>1 DEF Released
  <2>3. /\ waker' \in [Channels -> Tasks \cup {Nil}]
        /\ \A d \in Channels : waker'[d] = IF d = c THEN Nil ELSE waker[d]
        /\ UNCHANGED <<sent, received>>
    BY <1>7, <1>a DEF DropReceiver, TypeOK
  <2>4. /\ polledBy' \in [Channels -> Tasks \cup {Nil}]
        /\ notified' \subseteq {d \in Channels : polledBy'[d] # Nil}
    BY <1>7, <1>a, NilIsNothing DEF DropReceiver, TypeOK
  <2>5. \A d \in Channels : count'[d] = 0 => buf'[d] = Nil /\ waker'[d] = Nil
    <3>1. \A d \in Channels : count[d] = 0 <=> alive[d] = {}
      BY <1>a, CountTells DEF TypeOK
    <3>2. ASSUME NEW d \in Channels, d # c, count'[d] = 0
          PROVE  buf'[d] = Nil /\ waker'[d] = Nil
      BY <1>a, <2>2, <2>3, <3>1, <3>2 DEF TypeOK
    <3>3. ASSUME count'[c] = 0
          PROVE  buf'[c] = Nil /\ waker'[c] = Nil
      <4>1. alive[c] = {"rx"}
        BY <2>1, <2>2, <3>3
      <4> QED
        BY <2>2, <2>3, <4>1
    <3> QED
      BY <3>2, <3>3
  <2>6. TypeOK'
    <3>1. /\ \A d \in Channels : /\ count'[d] = Cardinality(alive'[d])
                                 /\ count'[d] = 0 => buf'[d] = Nil /\ waker'[d] = Nil
          /\ alive' \in [Channels -> SUBSET {"tx", "rx"}]
          /\ count' \in [Channels -> 0..2]
          /\ buf' \in [Channels -> Messages \cup {Nil}]
      BY <2>2, <2>5
    <3>2. /\ sent' \in [Channels -> Messages \cup {Err, Nil}]
          /\ received' \in [Channels -> Messages \cup {None, Nil}]
      BY <1>a, <2>3 DEF TypeOK
    <3>3. waker' \in [Channels -> Tasks \cup {Nil}]
      BY <2>3
    <3> QED
      BY <2>4, <3>1, <3>2, <3>3 DEF TypeOK
  <2>7. UsedOnce'
    BY <1>a, <2>2, <2>3 DEF UsedOnce
  <2>8. AnswerIsTrue' /\ AcceptedIsKept'
    BY <1>a, <2>2, <2>3 DEF AnswerIsTrue, AcceptedIsKept
  <2> QED
    BY <2>6, <2>7, <2>8 DEF Inv
<1>8. CASE UNCHANGED vars
  BY <1>8 DEF vars, Inv, TypeOK, UsedOnce, AnswerIsTrue, AcceptedIsKept
<1> QED
  BY <1>1, <1>2, <1>3, <1>4, <1>5, <1>6, <1>7, <1>8 DEF Next, Poll

LEMMA Invariance == Spec => []Inv
BY InitInv, NextInv, PTL DEF Spec

(* The count of every channel is the number of its halves that exist, and  *)
(* the last one to go takes the message and the waker with it.             *)
THEOREM OneshotTypeOK == Spec => []TypeOK
<1>1. Inv => TypeOK
  BY DEF Inv
<1> QED
  BY <1>1, Invariance, PTL

(* A receiver is told the message that its sender saw accepted, or None    *)
(* when none was.                                                          *)
THEOREM OneshotAnswer == Spec => []AnswerIsTrue
<1>1. Inv => AnswerIsTrue
  BY DEF Inv
<1> QED
  BY <1>1, Invariance, PTL

(* An accepted message stays until it is received, and a sender is told of *)
(* an error only when nobody can receive.                                  *)
THEOREM OneshotAccepted == Spec => []AcceptedIsKept
<1>1. Inv => AcceptedIsKept
  BY DEF Inv
<1> QED
  BY <1>1, Invariance, PTL

-----------------------------------------------------------------------------
(***************************************************************************)
(* What the liveness of a receiver rests on.                               *)
(***************************************************************************)

(* A receiver that is pending and whose task was not woken since has its   *)
(* waker registered, and there is nothing to tell it.                      *)
WakerIsRegistered ==
    \A c \in Channels : (polledBy[c] # Nil /\ c \notin notified) =>
        waker[c] = polledBy[c] /\ buf[c] = Nil /\ BothPresent(c)

LEMMA InitRegistered == Init => WakerIsRegistered
BY DEF Init, WakerIsRegistered

LEMMA OthersStay ==
    ASSUME WakerIsRegistered, NEW c \in Channels,
           \A d \in Channels \ {c} :
              /\ polledBy'[d] = polledBy[d]
              /\ d \in notified => d \in notified'
              /\ waker'[d] = waker[d] /\ buf'[d] = buf[d] /\ count'[d] = count[d],
           polledBy'[c] = Nil \/ c \in notified'
    PROVE  WakerIsRegistered'
BY DEF WakerIsRegistered, BothPresent, Rc!BothPresent

LEMMA NextRegistered == Inv /\ WakerIsRegistered /\ [Next]_vars => WakerIsRegistered'
<1> SUFFICES ASSUME Inv, WakerIsRegistered, [Next]_vars
             PROVE  WakerIsRegistered'
  OBVIOUS
<1>a. TypeOK
  BY DEF Inv
<1>1. ASSUME NEW c \in Channels, Create(c)
      PROVE  WakerIsRegistered'
  <2>1. polledBy[c] = Nil \/ c \in notified
    BY <1>1, <1>a, FlagsTell DEF Create, WakerIsRegistered
  <2>2. \A d \in Channels \ {c} : count'[d] = count[d]
    BY <1>1, <1>a DEF Create, TypeOK
  <2> QED
    BY <1>1, <2>1, <2>2, OthersStay DEF Create
<1>2. ASSUME NEW c \in Channels, NEW v, Release(c, "tx", v), TakeAndWake(c),
             UNCHANGED polledBy
      PROVE  WakerIsRegistered'
  <2>1. \A d \in Channels \ {c} : /\ count'[d] = count[d] /\ buf'[d] = buf[d]
                                  /\ waker'[d] = waker[d]
    BY <1>2, <1>a DEF Release, TakeAndWake, TypeOK
  <2>2. notified \subseteq notified'
    BY <1>2 DEF TakeAndWake
  <2>3. polledBy[c] = Nil \/ c \in notified'
    BY <1>2 DEF TakeAndWake, WakerIsRegistered
  <2> QED
    BY <1>2, <2>1, <2>2, <2>3, OthersStay
<1>3. ASSUME NEW c \in Channels, PollMessage(c) \/ PollEnd(c)
      PROVE  WakerIsRegistered'
  <2>1. \A d \in Channels \ {c} : /\ count'[d] = count[d] /\ buf'[d] = buf[d]
                                  /\ waker'[d] = waker[d]
    BY <1>3, <1>a DEF PollMessage, PollEnd, TypeOK
  <2>2. \A d \in Channels \ {c} : /\ polledBy'[d] = polledBy[d]
                                  /\ d \in notified => d \in notified'
    BY <1>3, <1>a DEF PollMessage, PollEnd, Answer, TypeOK
  <2>3. polledBy'[c] = Nil
    BY <1>3, <1>a DEF PollMessage, PollEnd, Answer, TypeOK
  <2> QED
    BY <2>1, <2>2, <2>3, OthersStay
<1>4. ASSUME NEW c \in Channels, NEW k \in Tasks, PollPending(c, k)
      PROVE  WakerIsRegistered'
  <2>1. \A d \in Channels \ {c} : /\ polledBy'[d] = polledBy[d]
                                  /\ d \in notified => d \in notified'
                                  /\ waker'[d] = waker[d]
    BY <1>4, <1>a DEF PollPending, TypeOK
  <2>2. polledBy'[c] = k /\ waker'[c] = k
    BY <1>4, <1>a DEF PollPending, TypeOK
  <2>3. buf[c] = Nil /\ BothPresent(c) /\ UNCHANGED <<count, buf>>
    BY <1>4 DEF PollPending
  <2> QED
    BY <2>1, <2>2, <2>3 DEF WakerIsRegistered, BothPresent, Rc!BothPresent
<1>5. ASSUME NEW c \in Channels, DropReceiver(c)
      PROVE  WakerIsRegistered'
  <2>1. \A d \in Channels \ {c} : /\ count'[d] = count[d] /\ buf'[d] = buf[d]
                                  /\ waker'[d] = waker[d]
    BY <1>5, <1>a DEF DropReceiver, Release, TypeOK
  <2>2. \A d \in Channels \ {c} : /\ polledBy'[d] = polledBy[d]
                                  /\ d \in notified => d \in notified'
    BY <1>5, <1>a DEF DropReceiver, TypeOK
  <2>3. polledBy'[c] = Nil
    BY <1>5, <1>a DEF DropReceiver, TypeOK
  <2> QED
    BY <2>1, <2>2, <2>3, OthersStay
<1>6. CASE UNCHANGED vars
  BY <1>6 DEF vars, WakerIsRegistered, BothPresent, Rc!BothPresent
<1> QED
  <2>1. ASSUME NEW c \in Channels, DropSender(c) \/ \E m \in Messages : Send(c, m)
        PROVE  WakerIsRegistered'
    BY <1>2, <2>1 DEF DropSender, Send
  <2> QED
    BY <1>1, <1>3, <1>4, <1>5, <1>6, <2>1 DEF Next, Poll

(* A pending receiver for which there is a message, or whose sender is     *)
(* gone, has had the task of its latest poll woken: whatever tasks polled  *)
(* it before, and whichever other receivers they poll.                     *)
THEOREM OneshotReceiverNotified ==
    Spec => [](\A c \in Channels :
                  (polledBy[c] # Nil /\ (buf[c] # Nil \/ ~BothPresent(c))) => c \in notified)
<1>1. WakerIsRegistered =>
         \A c \in Channels :
            (polledBy[c] # Nil /\ (buf[c] # Nil \/ ~BothPresent(c))) => c \in notified
  BY DEF WakerIsRegistered
<1>2. Spec => []WakerIsRegistered
  BY Invariance, InitRegistered, NextRegistered, PTL DEF Spec
<1> QED
  BY <1>1, <1>2, PTL
=============================================================================
