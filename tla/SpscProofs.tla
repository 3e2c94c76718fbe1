------------------------------ MODULE SpscProofs ------------------------------
(***************************************************************************)
(* Theorems about `Spsc`, for any messages, tasks and capacity.            *)
(***************************************************************************)
EXTENDS Spsc, Lemmas

(* A suspended call borrows its half.                                      *)
CallsBorrow == \A e \in Ends : polledBy[e] # Nil => e \in alive

(* A suspended call whose task was not woken since its latest poll has its *)
(* waker registered, and cannot go on.                                     *)
SenderWaits == (sending # Nil /\ "tx" \notin notified) =>
                  tx = polledBy["tx"] /\ AtCapacity /\ "rx" \in alive
ReceiverWaits == (polledBy["rx"] # Nil /\ "rx" \notin notified) =>
                  rx = polledBy["rx"] /\ buf = << >> /\ "tx" \in alive

(* Neither of the two properties of the wakers is inductive: the waker     *)
(* that a later push or pop calls has to be that of the latest poll.       *)
Inv == TypeOK /\ CallsBorrow /\ SenderWaits /\ ReceiverWaits

LEMMA EndsDistinct == Ends = {"tx", "rx"} /\ "tx" # "rx"
BY DEF Ends

(* The two flags of the reference count tell the truth.                    *)
LEMMA FlagsTell ==
    ASSUME TypeOK
    PROVE  /\ Rc!BothPresent(count) <=> alive = {"tx", "rx"}
           /\ \A e \in alive : Rc!DropFrees(count) <=> alive = {e}
<1>1. alive \in SUBSET {"tx", "rx"} /\ count = Cardinality(alive)
  BY DEF TypeOK, Ends
<1> QED
  BY <1>1, CountTells DEF Rc!BothPresent, Rc!DropFrees

(* Who is woken by a poll of e, and that nothing else changes for the      *)
(* call of the other half.                                                 *)
LEMMA PolledAndWakesTells ==
    ASSUME TypeOK, CallsBorrow, NEW e \in alive, NEW k \in Tasks \cup {Nil}, NEW w,
           PolledAndWakes(e, k, w)
    PROVE  /\ polledBy' \in [Ends -> Tasks \cup {Nil}]
           /\ polledBy'[e] = k
           /\ \A d \in Ends \ {e} : /\ polledBy'[d] = polledBy[d]
                                    /\ d \in notified => d \in notified'
           /\ \A d \in Ends : w # Nil /\ polledBy'[d] = w => d \in notified'
           /\ notified' \subseteq {d \in alive : polledBy'[d] # Nil}
           /\ \A d \in Ends : polledBy'[d] # Nil => d \in alive
<1>1. e \in Ends
  BY DEF TypeOK
<1>2. /\ polledBy' \in [Ends -> Tasks \cup {Nil}]
      /\ polledBy'[e] = k
      /\ \A d \in Ends \ {e} : polledBy'[d] = polledBy[d]
  BY <1>1 DEF PolledAndWakes, TypeOK
<1>3. notified' = (notified \ {e}) \cup {d \in Ends : w # Nil /\ polledBy'[d] = w}
  BY DEF PolledAndWakes
<1>4. \A d \in Ends : polledBy'[d] # Nil => d \in alive
  BY <1>2 DEF CallsBorrow
<1>5. notified \subseteq Ends /\ \A d \in notified : polledBy[d] # Nil
  BY DEF TypeOK
<1> QED
  BY <1>2, <1>3, <1>4, <1>5

LEMMA InitInv == Init => Inv
<1> SUFFICES ASSUME Init PROVE Inv
  OBVIOUS
<1>1. Cardinality({"tx", "rx"}) = 2
  BY CountTells
<1>2. << >> \in Seq(Messages) /\ Len(<< >>) = 0
  BY EmptySeq
<1>3. count = Cardinality(alive)
  BY <1>1 DEF Init, Ends, Rc!New
<1>4. buf \in Seq(Messages) /\ Len(buf) <= IF unbounded THEN MaxBuffered ELSE Capacity
  BY <1>2, CapacityIsPositive, BufferIsBounded DEF Init
<1>5. TypeOK
  BY <1>3, <1>4 DEF Init, TypeOK, Ends
<1>6. CallsBorrow /\ SenderWaits /\ ReceiverWaits
  BY DEF Init, CallsBorrow, SenderWaits, ReceiverWaits, Ends
<1> QED
  BY <1>5, <1>6 DEF Inv

(* A message is pushed.                                                    *)
LEMMA PushKeeps ==
    ASSUME Inv, NEW m \in Messages, "tx" \in alive, Rc!BothPresent(count), ~AtCapacity,
           Push(m), UNCHANGED <<count, tx, rx, unbounded, alive, ended>>
    PROVE  Inv'
<1>a. TypeOK /\ CallsBorrow /\ SenderWaits /\ ReceiverWaits
  BY DEF Inv
<1>1. PolledAndWakes("tx", Nil, rx) /\ sending' = Nil
  BY DEF Push
<1>2. /\ polledBy' \in [Ends -> Tasks \cup {Nil}]
      /\ polledBy'["tx"] = Nil /\ polledBy'["rx"] = polledBy["rx"]
      /\ "rx" \in notified => "rx" \in notified'
      /\ rx # Nil /\ polledBy'["rx"] = rx => "rx" \in notified'
      /\ notified' \subseteq {d \in alive : polledBy'[d] # Nil}
      /\ \A d \in Ends : polledBy'[d] # Nil => d \in alive
  BY <1>a, <1>1, PolledAndWakesTells, EndsDistinct
<1>3. buf' \in Seq(Messages) /\ Len(buf') = Len(buf) + 1 /\ Len(buf) \in Nat
  BY <1>a, AppendProperties, LenProperties DEF Push, TypeOK
<1>4. Len(buf') <= IF unbounded' THEN MaxBuffered ELSE Capacity
  BY <1>a, <1>3, CapacityIsPositive, BufferIsBounded DEF Push, AtCapacity, TypeOK
<1>5. TypeOK'
  BY <1>a, <1>1, <1>2, <1>3, <1>4 DEF TypeOK
<1>6. CallsBorrow' /\ SenderWaits'
  BY <1>1, <1>2 DEF CallsBorrow, SenderWaits
<1>7. ReceiverWaits'
  BY <1>a, <1>2 DEF ReceiverWaits
<1> QED
  BY <1>5, <1>6, <1>7 DEF Inv

LEMMA PollSendKeeps ==
    ASSUME Inv, NEW k \in Tasks, NEW m \in Messages, "tx" \in alive, PollSend(k, m)
    PROVE  Inv'
<1>a. TypeOK /\ CallsBorrow /\ SenderWaits /\ ReceiverWaits
  BY DEF Inv
<1>b. UNCHANGED <<count, rx, unbounded, alive, ended>>
  BY DEF PollSend
<1>1. CASE Rc!BothPresent(count) /\ ~AtCapacity /\ Push(m) /\ UNCHANGED tx
  BY <1>b, <1>1, PushKeeps
<1>2. CASE /\ ~Rc!BothPresent(count) /\ tx' = Nil /\ sending' = Nil
           /\ PolledAndWakes("tx", Nil, Nil) /\ UNCHANGED buf
  <2>1. /\ polledBy' \in [Ends -> Tasks \cup {Nil}]
        /\ polledBy'["tx"] = Nil /\ polledBy'["rx"] = polledBy["rx"]
        /\ "rx" \in notified => "rx" \in notified'
        /\ notified' \subseteq {d \in alive : polledBy'[d] # Nil}
        /\ \A d \in Ends : polledBy'[d] # Nil => d \in alive
    BY <1>a, <1>2, PolledAndWakesTells, EndsDistinct
  <2>2. TypeOK'
    BY <1>a, <1>b, <1>2, <2>1 DEF TypeOK
  <2>3. CallsBorrow' /\ SenderWaits'
    BY <1>b, <1>2, <2>1 DEF CallsBorrow, SenderWaits
  <2>4. ReceiverWaits'
    BY <1>a, <1>b, <1>2, <2>1 DEF ReceiverWaits
  <2> QED
    BY <2>2, <2>3, <2>4 DEF Inv
<1>3. CASE /\ Rc!BothPresent(count) /\ AtCapacity /\ tx' = k /\ sending' = m
           /\ PolledAndWakes("tx", k, Nil) /\ UNCHANGED buf
  <2>1. /\ polledBy' \in [Ends -> Tasks \cup {Nil}]
        /\ polledBy'["tx"] = k /\ polledBy'["rx"] = polledBy["rx"]
        /\ "rx" \in notified => "rx" \in notified'
        /\ notified' \subseteq {d \in alive : polledBy'[d] # Nil}
        /\ \A d \in Ends : polledBy'[d] # Nil => d \in alive
    BY <1>a, <1>3, PolledAndWakesTells, EndsDistinct
  <2>2. k # Nil /\ m # Nil
    BY NilIsNothing
  <2>3. TypeOK'
    BY <1>a, <1>b, <1>3, <2>1, <2>2 DEF TypeOK
  <2>4. "rx" \in alive
    BY <1>a, <1>3, FlagsTell
  <2>5. CallsBorrow' /\ SenderWaits'
    BY <1>b, <1>3, <2>1, <2>4 DEF CallsBorrow, SenderWaits, AtCapacity
  <2>6. ReceiverWaits'
    BY <1>a, <1>b, <1>3, <2>1 DEF ReceiverWaits
  <2> QED
    BY <2>3, <2>5, <2>6 DEF Inv
<1> QED
  BY <1>1, <1>2, <1>3 DEF PollSend

LEMMA RecvKeeps ==
    ASSUME Inv, NEW k \in Tasks, Recv(k)
    PROVE  Inv'
<1>a. TypeOK /\ CallsBorrow /\ SenderWaits /\ ReceiverWaits
  BY DEF Inv
<1>1. CASE RecvMessage
  <2>1. /\ "rx" \in alive /\ buf # << >> /\ buf' = Tail(buf)
        /\ PolledAndWakes("rx", Nil, tx)
        /\ UNCHANGED <<count, tx, rx, unbounded, alive, sending, ended>>
    BY <1>1 DEF RecvMessage
  <2>2. /\ polledBy' \in [Ends -> Tasks \cup {Nil}]
        /\ polledBy'["rx"] = Nil /\ polledBy'["tx"] = polledBy["tx"]
        /\ "tx" \in notified => "tx" \in notified'
        /\ tx # Nil /\ polledBy'["tx"] = tx => "tx" \in notified'
        /\ notified' \subseteq {d \in alive : polledBy'[d] # Nil}
        /\ \A d \in Ends : polledBy'[d] # Nil => d \in alive
    BY <1>a, <2>1, PolledAndWakesTells, EndsDistinct
  <2>3. buf' \in Seq(Messages) /\ Len(buf') = Len(buf) - 1 /\ Len(buf) \in Nat
    BY <1>a, <2>1, HeadTailProperties, LenProperties DEF TypeOK
  <2>4. Len(buf') <= IF unbounded' THEN MaxBuffered ELSE Capacity
    BY <1>a, <2>1, <2>3, CapacityIsPositive, BufferIsBounded DEF TypeOK
  <2>5. TypeOK'
    BY <1>a, <2>1, <2>2, <2>3, <2>4 DEF TypeOK
  <2>6. sending # Nil => "tx" \in notified'
    BY <1>a, <2>2 DEF SenderWaits, TypeOK
  <2> QED
    BY <2>1, <2>2, <2>5, <2>6 DEF Inv, CallsBorrow, SenderWaits, ReceiverWaits
<1>2. CASE RecvEnd
  <2>1. /\ "rx" \in alive /\ rx' = Nil /\ ended' = TRUE
        /\ PolledAndWakes("rx", Nil, Nil)
        /\ UNCHANGED <<count, tx, buf, unbounded, alive, sending>>
    BY <1>2 DEF RecvEnd
  <2>2. /\ polledBy' \in [Ends -> Tasks \cup {Nil}]
        /\ polledBy'["rx"] = Nil /\ polledBy'["tx"] = polledBy["tx"]
        /\ "tx" \in notified => "tx" \in notified'
        /\ notified' \subseteq {d \in alive : polledBy'[d] # Nil}
        /\ \A d \in Ends : polledBy'[d] # Nil => d \in alive
    BY <1>a, <2>1, PolledAndWakesTells, EndsDistinct
  <2>3. TypeOK'
    BY <1>a, <2>1, <2>2 DEF TypeOK
  <2>4. SenderWaits'
    BY <1>a, <2>1, <2>2 DEF SenderWaits, AtCapacity
  <2> QED
    BY <2>1, <2>2, <2>3, <2>4 DEF Inv, CallsBorrow, ReceiverWaits
<1>3. CASE RecvWaits(k)
  <2>1. /\ "rx" \in alive /\ buf = << >> /\ Rc!BothPresent(count) /\ rx' = k
        /\ PolledAndWakes("rx", k, tx)
        /\ UNCHANGED <<count, tx, buf, unbounded, alive, sending, ended>>
    BY <1>3 DEF RecvWaits
  <2>2. /\ polledBy' \in [Ends -> Tasks \cup {Nil}]
        /\ polledBy'["rx"] = k /\ polledBy'["tx"] = polledBy["tx"]
        /\ "tx" \in notified => "tx" \in notified'
        /\ notified' \subseteq {d \in alive : polledBy'[d] # Nil}
        /\ \A d \in Ends : polledBy'[d] # Nil => d \in alive
    BY <1>a, <2>1, PolledAndWakesTells, EndsDistinct
  <2>3. TypeOK'
    BY <1>a, <2>1, <2>2 DEF TypeOK
  <2>4. "tx" \in alive
    BY <1>a, <2>1, FlagsTell
  <2>5. SenderWaits'
    BY <1>a, <2>1, <2>2 DEF SenderWaits, AtCapacity
  <2> QED
    BY <2>1, <2>2, <2>3, <2>4, <2>5 DEF Inv, CallsBorrow, ReceiverWaits
<1> QED
  BY <1>1, <1>2, <1>3 DEF Recv

LEMMA CancelKeeps ==
    ASSUME Inv, CancelSend \/ CancelRecv
    PROVE  Inv'
<1>a. TypeOK /\ CallsBorrow /\ SenderWaits /\ ReceiverWaits
  BY DEF Inv
<1>b. UNCHANGED <<count, tx, rx, buf, unbounded, alive, ended>>
  BY DEF CancelSend, CancelRecv, shared
<1>1. CASE CancelSend
  <2>1. "tx" \in alive /\ PolledAndWakes("tx", Nil, Nil) /\ sending' = Nil
    BY <1>a, <1>1 DEF CancelSend, CallsBorrow, TypeOK, Ends
  <2>2. /\ polledBy' \in [Ends -> Tasks \cup {Nil}]
        /\ polledBy'["tx"] = Nil /\ polledBy'["rx"] = polledBy["rx"]
        /\ "rx" \in notified => "rx" \in notified'
        /\ notified' \subseteq {d \in alive : polledBy'[d] # Nil}
        /\ \A d \in Ends : polledBy'[d] # Nil => d \in alive
    BY <1>a, <2>1, PolledAndWakesTells, EndsDistinct
  <2>3. TypeOK'
    BY <1>a, <1>b, <2>1, <2>2 DEF TypeOK
  <2> QED
    BY <1>a, <1>b, <2>1, <2>2, <2>3 DEF Inv, CallsBorrow, SenderWaits, ReceiverWaits
<1>2. CASE CancelRecv
  <2>1. "rx" \in alive /\ PolledAndWakes("rx", Nil, Nil) /\ UNCHANGED sending
    BY <1>a, <1>2 DEF CancelRecv, CallsBorrow, Ends
  <2>2. /\ polledBy' \in [Ends -> Tasks \cup {Nil}]
        /\ polledBy'["rx"] = Nil /\ polledBy'["tx"] = polledBy["tx"]
        /\ "tx" \in notified => "tx" \in notified'
        /\ notified' \subseteq {d \in alive : polledBy'[d] # Nil}
        /\ \A d \in Ends : polledBy'[d] # Nil => d \in alive
    BY <1>a, <2>1, PolledAndWakesTells, EndsDistinct
  <2>3. TypeOK'
    BY <1>a, <1>b, <2>1, <2>2 DEF TypeOK
  <2>4. SenderWaits'
    BY <1>a, <1>b, <2>1, <2>2 DEF SenderWaits, AtCapacity
  <2> QED
    BY <1>b, <2>2, <2>3, <2>4 DEF Inv, CallsBorrow, ReceiverWaits
<1> QED
  BY <1>1, <1>2

(* A half leaves; its own call is over, and the other one's is woken if it *)
(* had its waker registered.                                               *)
LEMMA LeaveKeeps ==
    ASSUME TypeOK, CallsBorrow, NEW e \in Ends, NEW w, Leave(e, w),
           tx' \in Tasks \cup {Nil}, rx' \in Tasks \cup {Nil}
    PROVE  /\ TypeOK' /\ CallsBorrow'
           /\ e \notin alive' /\ polledBy'[e] = Nil
           /\ \A d \in Ends \ {e} : /\ polledBy'[d] = polledBy[d]
                                    /\ d \in notified => d \in notified'
                                    /\ w # Nil /\ polledBy[d] = w => d \in notified'
           /\ UNCHANGED sending
<1>1. /\ e \in alive /\ polledBy[e] = Nil /\ alive' = alive \ {e} /\ count' = count - 1
      /\ PolledAndWakes(e, Nil, w)
      /\ UNCHANGED <<unbounded, sending, ended>>
  BY DEF Leave, Rc!Dropped
<1>2. /\ polledBy' \in [Ends -> Tasks \cup {Nil}]
      /\ polledBy'[e] = Nil
      /\ \A d \in Ends \ {e} : /\ polledBy'[d] = polledBy[d]
                               /\ d \in notified => d \in notified'
      /\ \A d \in Ends : w # Nil /\ polledBy'[d] = w => d \in notified'
      /\ notified' \subseteq {d \in alive : polledBy'[d] # Nil}
      /\ \A d \in Ends : polledBy'[d] # Nil => d \in alive
  BY <1>1, PolledAndWakesTells
<1>3. count' = Cardinality(alive') /\ alive' \subseteq Ends
  <2>1. alive \in SUBSET {"tx", "rx"} /\ count = Cardinality(alive)
    BY DEF TypeOK, Ends
  <2>2. Cardinality(alive \ {e}) = Cardinality(alive) - 1
    BY <1>1, <2>1, CountTells
  <2> QED
    BY <1>1, <2>1, <2>2 DEF Ends
<1>4. buf' \in Seq(Messages) /\ Len(buf') <= IF unbounded' THEN MaxBuffered ELSE Capacity
  <2>1. << >> \in Seq(Messages) /\ Len(<< >>) = 0
    BY EmptySeq
  <2>2. buf' = << >> \/ buf' = buf
    BY DEF Leave
  <2>3. CASE buf' = << >>
    <3>1. buf' \in Seq(Messages) /\ Len(buf') = 0
      BY <2>1, <2>3
    <3> QED
      BY <3>1, CapacityIsPositive, BufferIsBounded
  <2>4. CASE buf' = buf
    BY <1>1, <2>4 DEF TypeOK
  <2> QED
    BY <2>2, <2>3, <2>4
<1>5. \A d \in Ends : polledBy'[d] = polledBy[d]
  BY <1>1, <1>2
<1>6. notified' \subseteq {d \in alive' : polledBy'[d] # Nil}
  BY <1>1, <1>2
<1>7. TypeOK'
  <2>1. sending' # Nil <=> polledBy'["tx"] # Nil
    BY <1>1, <1>5, EndsDistinct DEF TypeOK
  <2>2. sending' \in Messages \cup {Nil} /\ unbounded' \in BOOLEAN /\ ended' \in BOOLEAN
    BY <1>1 DEF TypeOK
  <2> QED
    BY <1>2, <1>3, <1>4, <1>6, <2>1, <2>2 DEF TypeOK
<1>8. CallsBorrow'
  BY <1>1, <1>2 DEF CallsBorrow
<1> QED
  BY <1>1, <1>2, <1>7, <1>8

LEMMA DropKeeps ==
    ASSUME Inv, DropSender \/ DropReceiver
    PROVE  Inv'
<1>a. TypeOK /\ CallsBorrow /\ SenderWaits /\ ReceiverWaits
  BY DEF Inv
<1>b. tx \in Tasks \cup {Nil} /\ rx \in Tasks \cup {Nil}
  BY <1>a DEF TypeOK
<1>1. CASE DropSender
  <2>1. Leave("tx", rx) /\ tx' \in Tasks \cup {Nil} /\ rx' \in Tasks \cup {Nil}
    BY <1>b, <1>1 DEF DropSender
  <2>2. /\ TypeOK' /\ CallsBorrow' /\ "tx" \notin alive'
        /\ polledBy'["tx"] = Nil /\ polledBy'["rx"] = polledBy["rx"]
        /\ "rx" \in notified => "rx" \in notified'
        /\ rx # Nil /\ polledBy["rx"] = rx => "rx" \in notified'
    BY <1>a, <2>1, LeaveKeeps, EndsDistinct
  <2>3. sending' = Nil
    BY <2>2 DEF TypeOK
  <2>4. polledBy["rx"] # Nil => "rx" \in notified'
    BY <1>a, <2>2 DEF ReceiverWaits
  <2> QED
    BY <2>2, <2>3, <2>4 DEF Inv, SenderWaits, ReceiverWaits
<1>2. CASE DropReceiver
  <2>1. Leave("rx", tx) /\ tx' \in Tasks \cup {Nil} /\ rx' \in Tasks \cup {Nil}
    BY <1>b, <1>2 DEF DropReceiver
  <2>2. /\ TypeOK' /\ CallsBorrow' /\ "rx" \notin alive'
        /\ polledBy'["rx"] = Nil /\ polledBy'["tx"] = polledBy["tx"]
        /\ "tx" \in notified => "tx" \in notified'
        /\ tx # Nil /\ polledBy["tx"] = tx => "tx" \in notified'
        /\ UNCHANGED sending
    BY <1>a, <2>1, LeaveKeeps, EndsDistinct
  <2>3. sending # Nil => "tx" \in notified'
    BY <1>a, <2>2 DEF SenderWaits, TypeOK
  <2> QED
    BY <2>2, <2>3 DEF Inv, SenderWaits, ReceiverWaits
<1> QED
  BY <1>1, <1>2

LEMMA NextInv == Inv /\ [Next]_vars => Inv'
<1> SUFFICES ASSUME Inv, [Next]_vars PROVE Inv'
  OBVIOUS
<1>a. TypeOK
  BY DEF Inv
<1>1. ASSUME NEW m \in Messages, TrySend(m)
      PROVE  Inv'
  BY <1>1, PushKeeps DEF TrySend
<1>2. ASSUME NEW k \in Tasks, NEW m \in Messages, Send(k, m)
      PROVE  Inv'
  BY <1>2, PollSendKeeps DEF Send
<1>3. ASSUME NEW k \in Tasks, ResumeSend(k)
      PROVE  Inv'
  <2>1. sending \in Messages /\ PollSend(k, sending)
    BY <1>3, <1>a DEF ResumeSend, TypeOK
  <2>2. polledBy["tx"] # Nil
    BY <1>3, <1>a DEF ResumeSend, TypeOK
  <2>3. "tx" \in alive
    BY <2>2 DEF Inv, CallsBorrow, Ends
  <2> QED
    BY <2>1, <2>3, PollSendKeeps
<1>4. CASE UNCHANGED vars
  BY <1>4 DEF vars, Inv, TypeOK, CallsBorrow, SenderWaits, ReceiverWaits, AtCapacity
<1> QED
  BY <1>1, <1>2, <1>3, <1>4, RecvKeeps, CancelKeeps, DropKeeps DEF Next

LEMMA Invariance == Spec => []Inv
BY InitInv, NextInv, PTL DEF Spec

(* The count is the number of halves, the buffer stays within its bound,   *)
(* and only suspended calls are woken.                                     *)
THEOREM SpscTypeOK == Spec => []TypeOK
<1>1. Inv => TypeOK
  BY DEF Inv
<1> QED
  BY <1>1, Invariance, PTL

(* A receiver does not sleep on a message or on the end of the channel.    *)
THEOREM SpscReceiver == Spec => []ReceiverNotified
<1>1. Inv => ReceiverNotified
  BY DEF Inv, ReceiverWaits, ReceiverNotified
<1> QED
  BY <1>1, Invariance, PTL

(* A sender does not sleep on room, nor on a receiver that is gone.        *)
THEOREM SpscSender == Spec => []SenderNotified
<1>1. Inv => SenderNotified
  BY CapacityIsPositive DEF Inv, SenderWaits, SenderNotified, AtCapacity, HasRoom
<1> QED
  BY <1>1, Invariance, PTL

-----------------------------------------------------------------------------
(***************************************************************************)
(* The refinement.                                                         *)
(***************************************************************************)

(* A message is pushed only while somebody may receive it and where there  *)
(* is room.                                                                *)
LEMMA PushIsSend ==
    ASSUME TypeOK, NEW m \in Messages, Rc!BothPresent(count), ~AtCapacity, Push(m),
           UNCHANGED <<unbounded, alive, ended>>
    PROVE  Pipe!Send(m)
<1>1. alive = {"tx", "rx"}
  BY FlagsTell
<1>2. unbounded \/ Len(buf) < Capacity
  BY LenProperties, CapacityIsPositive DEF AtCapacity, TypeOK
<1> QED
  BY <1>1, <1>2 DEF Push, Pipe!Send

LEMMA LeaveIsClose ==
    ASSUME TypeOK, NEW e \in Ends, NEW w, Leave(e, w)
    PROVE  Pipe!Close(e)
<1>1. e \in alive
  BY DEF Leave
<1>2. Rc!DropFrees(count) <=> alive = {e}
  BY <1>1, FlagsTell
<1> QED
  BY <1>2 DEF Leave, Pipe!Close

LEMMA NextIsNext == Inv /\ [Next]_vars => [Pipe!Next]_(Pipe!vars)
<1> SUFFICES ASSUME Inv, [Next]_vars PROVE [Pipe!Next]_(Pipe!vars)
  OBVIOUS
<1>a. TypeOK
  BY DEF Inv
<1>1. ASSUME NEW m \in Messages, TrySend(m)
      PROVE  Pipe!Next
  <2>1. Pipe!Send(m)
    BY <1>1, <1>a, PushIsSend DEF TrySend
  <2> QED
    BY <2>1 DEF Pipe!Next
<1>2. ASSUME NEW k \in Tasks, NEW m \in Messages, PollSend(k, m)
      PROVE  Pipe!Next \/ UNCHANGED Pipe!vars
  <2>1. CASE UNCHANGED buf
    BY <1>2, <2>1 DEF PollSend, Pipe!vars
  <2>2. CASE Rc!BothPresent(count) /\ ~AtCapacity /\ Push(m)
    <3>1. Pipe!Send(m)
      BY <1>2, <1>a, <2>2, PushIsSend DEF PollSend
    <3> QED
      BY <3>1 DEF Pipe!Next
  <2> QED
    BY <1>2, <2>1, <2>2 DEF PollSend
<1>3. ASSUME NEW k \in Tasks, ResumeSend(k)
      PROVE  Pipe!Next \/ UNCHANGED Pipe!vars
  <2>1. sending \in Messages /\ PollSend(k, sending)
    BY <1>3, <1>a DEF ResumeSend, TypeOK
  <2> QED
    BY <1>2, <1>3, <2>1
<1>4. CASE RecvMessage
  BY <1>4 DEF RecvMessage, Pipe!Receive, Pipe!Next
<1>5. CASE RecvEnd
  <2>1. alive = {"rx"}
    BY <1>5, <1>a, FlagsTell DEF RecvEnd, TypeOK, Ends
  <2> QED
    BY <1>5, <2>1 DEF RecvEnd, Pipe!End, Pipe!Next
<1>6. ASSUME NEW k \in Tasks, RecvWaits(k)
      PROVE  UNCHANGED Pipe!vars
  BY <1>6 DEF RecvWaits, Pipe!vars
<1>7. CASE CancelSend \/ CancelRecv
  BY <1>7 DEF CancelSend, CancelRecv, shared, Pipe!vars
<1>8. CASE DropSender \/ DropReceiver
  <2>1. Pipe!Close("tx") \/ Pipe!Close("rx")
    BY <1>8, <1>a, LeaveIsClose, EndsDistinct DEF DropSender, DropReceiver
  <2> QED
    BY <2>1 DEF Pipe!Next
<1>9. CASE UNCHANGED vars
  BY <1>9 DEF vars, Pipe!vars
<1> QED
  BY <1>1, <1>2, <1>3, <1>4, <1>5, <1>6, <1>7, <1>8, <1>9 DEF Next, Send, Recv

(* The ring buffer, the two wakers and the count implement the channel     *)
(* that `Channel` specifies: messages arrive once and in order, all of     *)
(* them before the end, and none is accepted that nobody can receive.      *)
THEOREM SpscImplementsChannel == Spec => ImplementsChannel
<1>1. Init => Pipe!Init
  BY DEF Init, Pipe!Init, Ends
<1>2. Spec => Pipe!Spec
  BY <1>1, Invariance, NextIsNext, PTL DEF Spec, Pipe!Spec
<1> QED
  BY <1>2 DEF ImplementsChannel
=============================================================================
