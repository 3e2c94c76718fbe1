--------------------------------- MODULE Spsc ---------------------------------
(***************************************************************************)
(* The single-producer, single-consumer channel of src/src/spsc.rs.  The   *)
(* two halves share a buffer and two slots for wakers, and learn from the  *)
(* reference count whether the other half is there.                        *)
(*                                                                         *)
(* `send` and `recv` borrow their half for as long as their future lives,  *)
(* so a half has one call under way at most and is not dropped meanwhile.  *)
(* A call may be polled by one task after another, or dropped.             *)
(***************************************************************************)
EXTENDS Naturals, Sequences, FiniteSets

CONSTANTS Messages,
          Tasks,        \* the tasks that poll, one waker each
          Capacity,     \* buf.capacity() of a bounded channel
          MaxBuffered,  \* bound of the model on an unbounded buffer
          Nil

ASSUME CapacityIsPositive == Capacity \in Nat \ {0}
ASSUME BufferIsBounded == MaxBuffered \in Nat /\ MaxBuffered >= Capacity
ASSUME NilIsNothing == Nil \notin Messages \cup Tasks

Ends == {"tx", "rx"}

VARIABLES
    count,            \* the count of the BiRc
    tx, rx,           \* Shared::tx, Shared::rx: a waker or None
    buf,              \* Shared::buf
    unbounded,        \* Shared::unbounded
    alive,            \* the halves that exist
    sending           \* Send::value of a suspended `send`, Nil if there is none

(***************************************************************************)
(* History: the task that polled the suspended call of each half last, the *)
(* halves whose call had that task woken since, and whether `recv`         *)
(* returned None.                                                          *)
(***************************************************************************)
VARIABLES polledBy, notified, ended

shared == <<count, tx, rx, buf, unbounded>>
vars == <<count, tx, rx, buf, unbounded, alive, sending,
          polledBy, notified, ended>>

Rc == INSTANCE BiRc

TypeOK == /\ count = Cardinality(alive)
          /\ alive \subseteq Ends
          /\ tx \in Tasks \cup {Nil}
          /\ rx \in Tasks \cup {Nil}
          /\ buf \in Seq(Messages)
          /\ Len(buf) <= IF unbounded THEN MaxBuffered ELSE Capacity
          /\ unbounded \in BOOLEAN
          /\ sending \in Messages \cup {Nil}
          /\ polledBy \in [Ends -> Tasks \cup {Nil}]
          /\ sending # Nil <=> polledBy["tx"] # Nil
          /\ notified \subseteq {e \in alive : polledBy[e] # Nil}
          /\ ended \in BOOLEAN

(* channel and unbounded.                                                  *)
Init == /\ count = Rc!New
        /\ tx = Nil /\ rx = Nil
        /\ buf = << >>
        /\ unbounded \in BOOLEAN
        /\ alive = Ends
        /\ sending = Nil
        /\ polledBy = [e \in Ends |-> Nil]
        /\ notified = {}
        /\ ended = FALSE

-----------------------------------------------------------------------------
(* Mutant: one place more than there is.                                   *)
AtCapacity_OffByOne == ~unbounded /\ Len(buf) = Capacity + 1

(* Mutant: an unbounded channel is held back where a bounded one would be. *)
AtCapacity_Always == Len(buf) = Capacity

(* A zero-sized message makes the capacity of a VecDeque usize::MAX: such  *)
(* a channel is one with a large Capacity.                                 *)
AtCapacity == ~unbounded /\ Len(buf) = Capacity

(* Half e is polled by task k and its call stays suspended; or it is over, *)
(* with k = Nil.  Then the task behind `waker` is called, which may be the *)
(* one that polls.                                                         *)
PolledAndWakes(e, k, waker) ==
    /\ polledBy' = [polledBy EXCEPT ![e] = k]
    /\ notified' = (notified \ {e}) \cup
                      {d \in Ends : waker # Nil /\ polledBy'[d] = waker}

(* Mutant: the message jumps the queue.                                    *)
Push_Front(m) == /\ unbounded => Len(buf) < MaxBuffered
                 /\ buf' = <<m>> \o buf
                 /\ PolledAndWakes("tx", Nil, rx)
                 /\ sending' = Nil

(* The message goes into the buffer and the receiver is woken; its waker   *)
(* stays where it is.                                                      *)
Push(m) == /\ unbounded => Len(buf) < MaxBuffered
           /\ buf' = Append(buf, m)
           /\ PolledAndWakes("tx", Nil, rx)
           /\ sending' = Nil

(* try_send; one that fails changes nothing.                               *)
TrySend(m) ==
    /\ "tx" \in alive /\ sending = Nil
    /\ Rc!BothPresent(count) /\ ~AtCapacity
    /\ Push(m)
    /\ UNCHANGED <<count, tx, rx, unbounded, alive, ended>>

(* Send::poll by task k, with m in `value`.                                *)
PollSend(k, m) ==
    /\ \/ /\ ~Rc!BothPresent(count)
          /\ tx' = Nil
          /\ sending' = Nil
          /\ PolledAndWakes("tx", Nil, Nil)
          /\ UNCHANGED buf
       \/ /\ Rc!BothPresent(count) /\ AtCapacity
          /\ tx' = k
          /\ sending' = m
          /\ PolledAndWakes("tx", k, Nil)
          /\ UNCHANGED buf
       \/ /\ Rc!BothPresent(count) /\ ~AtCapacity
          /\ Push(m)
          /\ UNCHANGED tx
    /\ UNCHANGED <<count, rx, unbounded, alive, ended>>

Send(k, m) == "tx" \in alive /\ sending = Nil /\ PollSend(k, m)
ResumeSend(k) == sending # Nil /\ PollSend(k, sending)

(* A suspended `send` is dropped, its value with it; its waker stays.      *)
CancelSend == /\ sending # Nil
              /\ sending' = Nil
              /\ PolledAndWakes("tx", Nil, Nil)
              /\ UNCHANGED <<shared, alive, ended>>

-----------------------------------------------------------------------------
(***************************************************************************)
(* Recv::poll, the first one of a call or a later one.                     *)
(***************************************************************************)

(* Mutant: a sender that waits is not told of the room.                    *)
RecvMessage_WakesNobody == /\ "rx" \in alive
                           /\ buf # << >>
                           /\ buf' = Tail(buf)
                           /\ PolledAndWakes("rx", Nil, Nil)
                           /\ UNCHANGED <<count, tx, rx, unbounded, alive, sending,
                                          ended>>

(* There is a message; it makes room for a sender that waits.              *)
RecvMessage == /\ "rx" \in alive
               /\ buf # << >>
               /\ buf' = Tail(buf)
               /\ PolledAndWakes("rx", Nil, tx)
               /\ UNCHANGED <<count, tx, rx, unbounded, alive, sending, ended>>

(* Mutant: the sender is looked for before the messages.                   *)
RecvEnd_TooEarly == /\ "rx" \in alive
                    /\ ~Rc!BothPresent(count)
                    /\ rx' = Nil
                    /\ ended' = TRUE
                    /\ PolledAndWakes("rx", Nil, Nil)
                    /\ UNCHANGED <<count, tx, buf, unbounded, alive, sending>>

(* There is none and the sender is gone: None.                             *)
RecvEnd == /\ "rx" \in alive
           /\ buf = << >> /\ ~Rc!BothPresent(count)
           /\ rx' = Nil
           /\ ended' = TRUE
           /\ PolledAndWakes("rx", Nil, Nil)
           /\ UNCHANGED <<count, tx, buf, unbounded, alive, sending>>

(* Mutant: the waker of the first poll is kept.                            *)
RecvWaits_KeepsWaker(k) == /\ "rx" \in alive
                           /\ buf = << >> /\ Rc!BothPresent(count)
                           /\ rx' = IF rx = Nil THEN k ELSE rx
                           /\ PolledAndWakes("rx", k, tx)
                           /\ UNCHANGED <<count, tx, buf, unbounded, alive, sending,
                                          ended>>

(* There is none yet: the task k is to be woken, and so is the sender's.   *)
RecvWaits(k) == /\ "rx" \in alive
                /\ buf = << >> /\ Rc!BothPresent(count)
                /\ rx' = k
                /\ PolledAndWakes("rx", k, tx)
                /\ UNCHANGED <<count, tx, buf, unbounded, alive, sending, ended>>

Recv(k) == RecvMessage \/ RecvEnd \/ RecvWaits(k)

(* A suspended `recv` is dropped.                                          *)
CancelRecv == /\ polledBy["rx"] # Nil
              /\ PolledAndWakes("rx", Nil, Nil)
              /\ UNCHANGED <<shared, alive, sending, ended>>

-----------------------------------------------------------------------------
(* Half e goes away: the waker of the other is taken and called, then the  *)
(* count goes down, and with the last half the buffer goes.  Wakers that   *)
(* poll nothing themselves do not see the moment in between.               *)
Leave(e, waker) ==
    /\ e \in alive /\ polledBy[e] = Nil
    /\ alive' = alive \ {e}
    /\ count' = Rc!Dropped(count)
    /\ buf' = IF Rc!DropFrees(count) THEN << >> ELSE buf
    /\ PolledAndWakes(e, Nil, waker)
    /\ UNCHANGED <<unbounded, sending, ended>>

(* Mutant: the waker is dropped uncalled.                                  *)
DropReceiver_WakesNobody == /\ Leave("rx", Nil)
                            /\ tx' = Nil
                            /\ rx' = IF Rc!DropFrees(count) THEN Nil ELSE rx

(* Drop for Sender, then for its BiRc.                                     *)
DropSender == /\ Leave("tx", rx)
              /\ rx' = Nil
              /\ tx' = IF Rc!DropFrees(count) THEN Nil ELSE tx

(* Drop for Receiver, then for its BiRc.                                   *)
DropReceiver == /\ Leave("rx", tx)
                /\ tx' = Nil
                /\ rx' = IF Rc!DropFrees(count) THEN Nil ELSE rx

-----------------------------------------------------------------------------
Next == \/ \E m \in Messages : TrySend(m)
        \/ \E k \in Tasks, m \in Messages : Send(k, m)
        \/ \E k \in Tasks : ResumeSend(k) \/ Recv(k)
        \/ CancelSend \/ CancelRecv
        \/ DropSender \/ DropReceiver

Spec == Init /\ [][Next]_vars

(***************************************************************************)
(* The executor polls a call whose task was woken.                         *)
(***************************************************************************)
Polled == /\ WF_vars("tx" \in notified /\ \E k \in Tasks : ResumeSend(k))
          /\ WF_vars("rx" \in notified /\ \E k \in Tasks : Recv(k))

(***************************************************************************)
(* The users on both sides do not walk away: the one that has no call      *)
(* under way makes another or drops its half.                              *)
(***************************************************************************)
KeepsSending == sending = Nil /\ (DropSender \/ \E k \in Tasks, m \in Messages : Send(k, m))
KeepsReceiving == polledBy["rx"] = Nil /\ (DropReceiver \/ \E k \in Tasks : Recv(k))

FairSpec == Spec /\ Polled /\ WF_vars(KeepsSending) /\ WF_vars(KeepsReceiving)

-----------------------------------------------------------------------------
(***************************************************************************)
(* Correctness.                                                            *)
(***************************************************************************)

(* A receiver does not sleep on a message or on the end of the channel:    *)
(* the task that polled it last was woken.  Wakers are registered, kept    *)
(* and replaced over many polls, by different tasks, of both halves.       *)
ReceiverNotified ==
    (polledBy["rx"] # Nil /\ (buf # << >> \/ "tx" \notin alive)) => "rx" \in notified

(* An unbounded channel always has room, whatever at_capacity makes of the *)
(* place its buffer happens to have.                                       *)
HasRoom == unbounded \/ Len(buf) < Capacity

(* A sender does not sleep on room in the buffer, nor on a receiver that   *)
(* is gone.                                                                *)
SenderNotified ==
    (sending # Nil /\ (HasRoom \/ "rx" \notin alive)) => "tx" \in notified

(* Messages arrive once and in order, all of them before the end, and none *)
(* is accepted that nobody can receive.                                    *)
Pipe == INSTANCE Channel WITH queue <- buf
ImplementsChannel == Pipe!Spec

(* While both users keep at it, a suspended send and a suspended recv end. *)
CallsComplete == /\ sending # Nil ~> sending = Nil
                 /\ polledBy["rx"] # Nil ~> polledBy["rx"] = Nil
=============================================================================
