-------------------------------- MODULE Oneshot --------------------------------
(***************************************************************************)
(* The oneshot channels of src/src/oneshot.rs: several of them, made and   *)
(* dropped independently, whose receivers are polled by the same tasks.    *)
(* The receiver is a future of its own; it may be moved between tasks and  *)
(* be polled again after it was ready.                                     *)
(***************************************************************************)
EXTENDS Naturals, FiniteSets

CONSTANTS Channels, Messages, Tasks,
          None, Err,  \* what a receiver and a sender may be told instead
          Nil

ASSUME NilIsNothing == Nil \notin Messages \cup Tasks \cup {None, Err}
ASSUME NoneAndErrAreNoMessages == None \notin Messages /\ Err \notin Messages

VARIABLES
    count,      \* the count of the BiRc, per channel
    waker,      \* Shared::waker
    buf,        \* Shared::buf
    alive       \* the halves that exist, of {"tx", "rx"}

(***************************************************************************)
(* History: what the user of either half was told, Nil for nothing yet (of *)
(* the receiver's answers the first), the task that polled the receiver    *)
(* last, if that left it pending, and the receivers whose task was woken   *)
(* since.                                                                  *)
(***************************************************************************)
VARIABLES sent, received, polledBy, notified

vars == <<count, waker, buf, alive, sent, received, polledBy, notified>>

Rc == INSTANCE BiRc

TypeOK == /\ alive \in [Channels -> SUBSET {"tx", "rx"}]
          /\ count \in [Channels -> 0..2]
          /\ \A c \in Channels : /\ count[c] = Cardinality(alive[c])
                                 /\ count[c] = 0 => buf[c] = Nil /\ waker[c] = Nil
          /\ waker \in [Channels -> Tasks \cup {Nil}]
          /\ buf \in [Channels -> Messages \cup {Nil}]
          /\ sent \in [Channels -> Messages \cup {Err, Nil}]
          /\ received \in [Channels -> Messages \cup {None, Nil}]
          /\ polledBy \in [Channels -> Tasks \cup {Nil}]
          /\ notified \subseteq {c \in Channels : polledBy[c] # Nil}

(* No channel exists yet.                                                  *)
Init == /\ count = [c \in Channels |-> 0]
        /\ waker = [c \in Channels |-> Nil]
        /\ buf = [c \in Channels |-> Nil]
        /\ alive = [c \in Channels |-> {}]
        /\ sent = [c \in Channels |-> Nil]
        /\ received = [c \in Channels |-> Nil]
        /\ polledBy = [c \in Channels |-> Nil]
        /\ notified = {}

(* channel().                                                              *)
Create(c) == /\ alive[c] = {}
             /\ count' = [count EXCEPT ![c] = Rc!New]
             /\ alive' = [alive EXCEPT ![c] = {"tx", "rx"}]
             /\ sent' = [sent EXCEPT ![c] = Nil]
             /\ received' = [received EXCEPT ![c] = Nil]
             /\ UNCHANGED <<waker, buf, polledBy, notified>>

-----------------------------------------------------------------------------
BothPresent(c) == Rc!BothPresent(count[c])

(* Mutants: the slot is freed with the first half; it is never freed.      *)
Release_FreesEarly(c, e, v) ==
    /\ alive' = [alive EXCEPT ![c] = @ \ {e}]
    /\ count' = [count EXCEPT ![c] = Rc!Dropped(@)]
    /\ buf' = [buf EXCEPT ![c] = Nil]
Release_NeverFrees(c, e, v) ==
    /\ alive' = [alive EXCEPT ![c] = @ \ {e}]
    /\ count' = [count EXCEPT ![c] = Rc!Dropped(@)]
    /\ buf' = [buf EXCEPT ![c] = v]

(* Half e of channel c is dropped, with v in the slot; the last half frees *)
(* the slot.                                                               *)
Release(c, e, v) ==
    /\ alive' = [alive EXCEPT ![c] = @ \ {e}]
    /\ count' = [count EXCEPT ![c] = Rc!Dropped(@)]
    /\ buf' = [buf EXCEPT ![c] = IF Rc!DropFrees(count[c]) THEN Nil ELSE v]

(* The waker is taken out and its task called, whatever that task polls.   *)
TakeAndWake(c) ==
    /\ waker' = [waker EXCEPT ![c] = Nil]
    /\ notified' = notified \cup
                      {d \in Channels : waker[c] # Nil /\ polledBy[d] = waker[c]}

(* send(m) consumes the sender, whose drop finds the waker taken.          *)
Send(c, m) ==
    /\ "tx" \in alive[c]
    /\ Release(c, "tx", IF BothPresent(c) THEN m ELSE buf[c])
    /\ sent' = [sent EXCEPT ![c] = IF BothPresent(c) THEN m ELSE Err]
    /\ TakeAndWake(c)
    /\ UNCHANGED <<received, polledBy>>

(* Mutant: the receiver is not told.                                       *)
DropSender_WakesNobody(c) == /\ "tx" \in alive[c]
                             /\ Release(c, "tx", buf[c])
                             /\ waker' = [waker EXCEPT ![c] = Nil]
                             /\ UNCHANGED <<sent, received, polledBy, notified>>

(* Drop for Sender, of a sender that was not used.                         *)
DropSender(c) == /\ "tx" \in alive[c]
                 /\ Release(c, "tx", buf[c])
                 /\ TakeAndWake(c)
                 /\ UNCHANGED <<sent, received, polledBy>>

(***************************************************************************)
(* Receiver::poll.                                                         *)
(***************************************************************************)
Answer(c, a) == /\ received' = [received EXCEPT ![c] = IF @ = Nil THEN a ELSE @]
                /\ polledBy' = [polledBy EXCEPT ![c] = Nil]
                /\ notified' = notified \ {c}

PollMessage(c) == /\ "rx" \in alive[c]
                  /\ buf[c] # Nil
                  /\ buf' = [buf EXCEPT ![c] = Nil]
                  /\ Answer(c, buf[c])
                  /\ UNCHANGED <<count, waker, alive, sent>>

(* Mutant: the sender is looked for before the message.                    *)
PollEnd_TooEarly(c) == /\ "rx" \in alive[c]
                       /\ ~BothPresent(c)
                       /\ waker' = [waker EXCEPT ![c] = Nil]
                       /\ Answer(c, None)
                       /\ UNCHANGED <<count, buf, alive, sent>>

PollEnd(c) == /\ "rx" \in alive[c]
              /\ buf[c] = Nil /\ ~BothPresent(c)
              /\ waker' = [waker EXCEPT ![c] = Nil]
              /\ Answer(c, None)
              /\ UNCHANGED <<count, buf, alive, sent>>

PollPending(c, k) == /\ "rx" \in alive[c]
                     /\ buf[c] = Nil /\ BothPresent(c)
                     /\ waker' = [waker EXCEPT ![c] = k]
                     /\ polledBy' = [polledBy EXCEPT ![c] = k]
                     /\ notified' = notified \ {c}
                     /\ UNCHANGED <<count, buf, alive, sent, received>>

Poll(c) == PollMessage(c) \/ PollEnd(c) \/ \E k \in Tasks : PollPending(c, k)

(* Drop for Receiver: it takes its own waker and calls it, which another   *)
(* receiver of the same task may notice.                                   *)
DropReceiver(c) ==
    /\ "rx" \in alive[c]
    /\ Release(c, "rx", buf[c])
    /\ waker' = [waker EXCEPT ![c] = Nil]
    /\ polledBy' = [polledBy EXCEPT ![c] = Nil]
    /\ notified' = (notified \ {c}) \cup
                      {d \in Channels \ {c} : waker[c] # Nil /\ polledBy[d] = waker[c]}
    /\ UNCHANGED <<sent, received>>

-----------------------------------------------------------------------------
Next == \E c \in Channels : \/ Create(c)
                            \/ \E m \in Messages : Send(c, m)
                            \/ Poll(c)
                            \/ DropSender(c) \/ DropReceiver(c)

Spec == Init /\ [][Next]_vars

(* The executor polls a receiver whose task was woken, and every sender is *)
(* used or dropped some day.                                               *)
FairSpec == Spec /\ \A c \in Channels :
               /\ WF_vars(c \in notified /\ Poll(c))
               /\ WF_vars(DropSender(c) \/ \E m \in Messages : Send(c, m))

-----------------------------------------------------------------------------
(***************************************************************************)
(* Correctness.                                                            *)
(***************************************************************************)

(* The first answer of a receiver agrees with what its sender was told:    *)
(* the message that was accepted, or None because none ever was.           *)
AnswerIsTrue == \A c \in Channels : /\ received[c] \in Messages => sent[c] = received[c]
                                    /\ received[c] = None => sent[c] = Nil

(* A message that was accepted is not lost while anyone can receive it; an *)
(* error means that no one can.                                            *)
AcceptedIsKept ==
    \A c \in Channels :
        /\ (sent[c] \in Messages /\ "rx" \in alive[c]) => sent[c] \in {buf[c], received[c]}
        /\ sent[c] = Err => "rx" \notin alive[c]

(* A pending receiver gets an answer or is dropped.                        *)
ReceiverAnswered == \A c \in Channels : polledBy[c] # Nil ~> polledBy[c] = Nil
=============================================================================
