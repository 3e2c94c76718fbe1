------------------------------- MODULE Broadcast -------------------------------
(***************************************************************************)
(* The broadcast channel of src/src/broadcast.rs: one sender, and for each *)
(* subscriber a buffer of its own.  A `send` delivers to the subscribers   *)
(* that have room and waits for the others; the id of the message, kept    *)
(* with each subscriber, tells who has it already.                         *)
(*                                                                         *)
(* Messages are the numbers of the calls that sent them.  A subscriber is  *)
(* named by its index in the slab, which may be used again when it leaves. *)
(***************************************************************************)
EXTENDS Naturals, Sequences, FiniteSets

CONSTANTS Slots,      \* the indices of the slab
          Tasks,      \* the tasks that poll, one waker each
          Capacity,   \* buf.capacity() of each subscriber, if it is bounded
          MaxId,      \* u64::MAX
          MaxSends,   \* bound of the model on the calls of send and try_send
          Nil

ASSUME SlotsFinite == IsFiniteSet(Slots) /\ "tx" \notin Slots
ASSUME CapacityIsPositive == Capacity \in Nat \ {0}
ASSUME IdsDoNotComeAgain == /\ MaxId \in Nat /\ MaxSends \in Nat
                            /\ MaxSends <= MaxId
ASSUME NilIsNothing == Nil \notin Tasks \cup Nat

VARIABLES
    rc,               \* the counts of the BroadRc
    id,               \* Shared::id
    sender,           \* Shared::sender, a waker or None
    slab,             \* the indices in use in Shared::receivers
    rid, waker, buf,  \* ReceiverState::id, waker and buf, per index
    unbounded,        \* ReceiverState::unbounded, the same for all
    sending           \* Send::value of a suspended `send`, Nil if there is none

(***************************************************************************)
(* History: the calls so far; the task that polled a suspended call last   *)
(* and the calls whose task was woken since, the sender's as "tx"; for     *)
(* each subscriber the messages sent before it came and those put into its *)
(* buffer; the calls of `send` that completed.                             *)
(***************************************************************************)
VARIABLES calls, polledBy, notified, since, got, completed

shared == <<rc, id, sender, slab, rid, waker, buf, unbounded>>
history == <<since, got, completed>>
vars == <<rc, id, sender, slab, rid, waker, buf, unbounded, sending, calls, polledBy,
          notified, since, got, completed>>

Rc == INSTANCE BroadRc

Callers == Slots \cup {"tx"}

TypeOK == /\ rc \in [strong : 0..1, weak : Nat]
          /\ rc.weak = Cardinality(slab)
          /\ id \in 0..MaxId
          /\ sender \in Tasks \cup {Nil}
          /\ slab \subseteq Slots
          /\ rid \in [Slots -> 0..MaxId]
          /\ waker \in [Slots -> Tasks \cup {Nil}]
          /\ buf \in [Slots -> Seq(1..MaxSends)]
          /\ \A s \in Slots : ~unbounded => Len(buf[s]) <= Capacity
          /\ unbounded \in BOOLEAN
          /\ calls \in 0..MaxSends
          /\ sending \in {Nil, calls}
          /\ polledBy \in [Callers -> Tasks \cup {Nil}]
          /\ sending # Nil <=> polledBy["tx"] # Nil
          /\ notified \subseteq {c \in Callers : polledBy[c] # Nil}
          /\ since \in [Slots -> 0..MaxSends]
          /\ got \in [Slots -> Seq(1..MaxSends)]
          /\ completed \subseteq 1..MaxSends

(* channel and unbounded.                                                  *)
Init == /\ rc = Rc!New
        /\ id = 0
        /\ sender = Nil
        /\ slab = {}
        /\ rid = [s \in Slots |-> 0]
        /\ waker = [s \in Slots |-> Nil]
        /\ buf = [s \in Slots |-> << >>]
        /\ unbounded \in BOOLEAN
        /\ sending = Nil
        /\ calls = 0
        /\ polledBy = [c \in Callers |-> Nil]
        /\ notified = {}
        /\ since = [s \in Slots |-> 0]
        /\ got = [s \in Slots |-> << >>]
        /\ completed = {}

-----------------------------------------------------------------------------
AtCapacity(s) == ~unbounded /\ Len(buf[s]) = Capacity

(* Caller c is polled by task k and stays suspended; or its call is over,  *)
(* with k = Nil.  Then the tasks behind `wakers` are called.               *)
PolledAndWakes(c, k, wakers) ==
    /\ polledBy' = [polledBy EXCEPT ![c] = k]
    /\ notified' = (notified \ {c}) \cup {d \in Callers : polledBy'[d] \in wakers \ {Nil}}

(* The message goes to the buffers of the subscribers in S.                *)
PushTo(S, m) ==
    /\ buf' = [s \in Slots |-> IF s \in S THEN Append(buf[s], m) ELSE buf[s]]
    /\ got' = [s \in Slots |-> IF s \in S THEN Append(got[s], m) ELSE got[s]]

(* Mutant: a new subscriber starts with the id of the message to come.     *)
NewReceiver_Ahead(s) ==
    /\ s \notin slab
    /\ slab' = slab \cup {s}
    /\ rid' = [rid EXCEPT ![s] = (id + 1) % (MaxId + 1)]
    /\ waker' = [waker EXCEPT ![s] = Nil]
    /\ buf' = [buf EXCEPT ![s] = << >>]
    /\ since' = [since EXCEPT ![s] = calls]
    /\ got' = [got EXCEPT ![s] = << >>]

(* new_receiver: an index that is free, with an empty buffer and the id of *)
(* the message sent last.                                                  *)
NewReceiver(s) ==
    /\ s \notin slab
    /\ slab' = slab \cup {s}
    /\ rid' = [rid EXCEPT ![s] = id]
    /\ waker' = [waker EXCEPT ![s] = Nil]
    /\ buf' = [buf EXCEPT ![s] = << >>]
    /\ since' = [since EXCEPT ![s] = calls]
    /\ got' = [got EXCEPT ![s] = << >>]

(* subscribe: the receiver at the new index holds a weak reference.        *)
Subscribe(s) ==
    /\ Rc!AnyStrong(rc) /\ sending = Nil
    /\ NewReceiver(s)
    /\ rc' = Rc!Weak(rc)
    /\ UNCHANGED <<id, sender, unbounded, sending, calls, polledBy, notified, completed>>

(* bump_message_id: the next id, without 0.                                *)
BumpedId == IF id = MaxId THEN 1 ELSE id + 1

(* try_send: at once to everyone who has room.  What it returns changes    *)
(* nothing.                                                                *)
TrySend ==
    LET S == {s \in slab : ~AtCapacity(s)}
    IN /\ Rc!AnyStrong(rc) /\ sending = Nil
       /\ calls < MaxSends
       /\ calls' = calls + 1
       /\ id' = BumpedId
       /\ PushTo(S, calls + 1)
       /\ PolledAndWakes("tx", Nil, {waker[s] : s \in S})
       /\ UNCHANGED <<rc, sender, slab, rid, waker, unbounded, sending, since, completed>>

(***************************************************************************)
(* Send::poll by task k for message m with id i.                           *)
(***************************************************************************)
Has(s, i) == rid[s] = i

(* Nobody is left to send to.                                              *)
SendFindsNobody(m) ==
    /\ ~Rc!AnyWeak(rc)
    /\ sending' = Nil
    /\ completed' = completed \cup {m}
    /\ PolledAndWakes("tx", Nil, {})
    /\ UNCHANGED <<sender, rid, buf, got>>

(* Mutants: the id of a subscriber that was reached is not written; a      *)
(* full subscriber counts as one that was reached.                         *)
SendDelivers_ForgetsId(k, i, m) ==
    LET S == {s \in slab : ~Has(s, i) /\ ~AtCapacity(s)}
        delivered == Cardinality(S \cup {s \in slab : Has(s, i)})
    IN /\ Rc!AnyWeak(rc)
       /\ sender' = k
       /\ PushTo(S, m)
       /\ UNCHANGED rid
       /\ \/ /\ delivered = Cardinality(slab)
             /\ sending' = Nil
             /\ completed' = completed \cup {m}
             /\ PolledAndWakes("tx", Nil, {waker[s] : s \in S})
          \/ /\ delivered # Cardinality(slab)
             /\ sending' = m
             /\ PolledAndWakes("tx", k, {waker[s] : s \in S})
             /\ UNCHANGED completed
SendDelivers_SkipsFull(k, i, m) ==
    LET S == {s \in slab : ~Has(s, i) /\ ~AtCapacity(s)}
    IN /\ Rc!AnyWeak(rc)
       /\ sender' = k
       /\ PushTo(S, m)
       /\ rid' = [s \in Slots |-> IF s \in S THEN i ELSE rid[s]]
       /\ sending' = Nil
       /\ completed' = completed \cup {m}
       /\ PolledAndWakes("tx", Nil, {waker[s] : s \in S})

(* The message goes to all who do not have it and have room; the call is   *)
(* over when everyone has it.                                              *)
SendDelivers(k, i, m) ==
    LET S == {s \in slab : ~Has(s, i) /\ ~AtCapacity(s)}
        delivered == Cardinality(S \cup {s \in slab : Has(s, i)})
    IN /\ Rc!AnyWeak(rc)
       /\ sender' = k
       /\ PushTo(S, m)
       /\ rid' = [s \in Slots |-> IF s \in S THEN i ELSE rid[s]]
       /\ \/ /\ delivered = Cardinality(slab)
             /\ sending' = Nil
             /\ completed' = completed \cup {m}
             /\ PolledAndWakes("tx", Nil, {waker[s] : s \in S})
          \/ /\ delivered # Cardinality(slab)
             /\ sending' = m
             /\ PolledAndWakes("tx", k, {waker[s] : s \in S})
             /\ UNCHANGED completed

PollSend(k, i, m) ==
    /\ SendFindsNobody(m) \/ SendDelivers(k, i, m)
    /\ UNCHANGED <<rc, slab, waker, unbounded, since>>

(* send, up to its first answer: the id is bumped once.                    *)
Send(k) == /\ Rc!AnyStrong(rc) /\ sending = Nil
           /\ calls < MaxSends
           /\ calls' = calls + 1
           /\ id' = BumpedId
           /\ PollSend(k, BumpedId, calls + 1)

ResumeSend(k) == /\ sending # Nil
                 /\ PollSend(k, id, sending)
                 /\ UNCHANGED <<id, calls>>

(* A suspended `send` is dropped; who has the message keeps it.            *)
CancelSend == /\ sending # Nil
              /\ sending' = Nil
              /\ PolledAndWakes("tx", Nil, {})
              /\ UNCHANGED <<shared, calls, history>>

-----------------------------------------------------------------------------
(***************************************************************************)
(* Recv::poll of subscriber s.                                             *)
(***************************************************************************)

(* Mutant: a sender that waits is not told of the room.                    *)
RecvMessage_WakesNobody(s) ==
    /\ s \in slab
    /\ buf[s] # << >>
    /\ buf' = [buf EXCEPT ![s] = Tail(@)]
    /\ PolledAndWakes(s, Nil, {})
    /\ UNCHANGED <<rc, id, sender, slab, rid, waker, unbounded, sending, calls, history>>

(* There is a message; it makes room for a sender that waits.              *)
RecvMessage(s) ==
    /\ s \in slab
    /\ buf[s] # << >>
    /\ buf' = [buf EXCEPT ![s] = Tail(@)]
    /\ PolledAndWakes(s, Nil, {sender})
    /\ UNCHANGED <<rc, id, sender, slab, rid, waker, unbounded, sending, calls, history>>

(* There is none and the sender is gone.                                   *)
RecvEnd(s) ==
    /\ s \in slab
    /\ buf[s] = << >> /\ ~Rc!AnyStrong(rc)
    /\ waker' = [waker EXCEPT ![s] = Nil]
    /\ PolledAndWakes(s, Nil, {})
    /\ UNCHANGED <<rc, id, sender, slab, rid, buf, unbounded, sending, calls, history>>

(* There is none yet: the task k is to be woken, and so is the sender's.   *)
RecvWaits(s, k) ==
    /\ s \in slab
    /\ buf[s] = << >> /\ Rc!AnyStrong(rc)
    /\ waker' = [waker EXCEPT ![s] = k]
    /\ PolledAndWakes(s, k, {sender})
    /\ UNCHANGED <<rc, id, sender, slab, rid, buf, unbounded, sending, calls, history>>

Recv(s) == RecvMessage(s) \/ RecvEnd(s) \/ \E k \in Tasks : RecvWaits(s, k)

(* A suspended `recv` is dropped.                                          *)
CancelRecv(s) == /\ polledBy[s] # Nil
                 /\ PolledAndWakes(s, Nil, {})
                 /\ UNCHANGED <<shared, sending, calls, history>>

-----------------------------------------------------------------------------
(* Drop for Sender: every subscriber's waker is taken and called.          *)
DropSender ==
    /\ Rc!AnyStrong(rc) /\ sending = Nil
    /\ rc' = Rc!StrongDropped(rc)
    /\ waker' = [s \in Slots |-> Nil]
    /\ sender' = IF Rc!Deallocates(rc') THEN Nil ELSE sender
    /\ PolledAndWakes("tx", Nil, {waker[s] : s \in slab})
    /\ UNCHANGED <<id, slab, rid, buf, unbounded, sending, calls, history>>

(* Mutants: the subscriber leaves without a word to the sender; its state  *)
(* stays in the slab.                                                      *)
DropReceiver_WakesNobody(s) ==
    /\ s \in slab /\ polledBy[s] = Nil
    /\ slab' = slab \ {s}
    /\ rc' = Rc!WeakDropped(rc)
    /\ buf' = [buf EXCEPT ![s] = << >>]
    /\ waker' = [waker EXCEPT ![s] = Nil]
    /\ rid' = [rid EXCEPT ![s] = 0]
    /\ sender' = Nil
    /\ PolledAndWakes(s, Nil, {})
    /\ UNCHANGED <<id, unbounded, sending, calls, history>>
DropReceiver_KeepsState(s) ==
    /\ s \in slab /\ polledBy[s] = Nil /\ Rc!AnyWeak(rc)
    /\ rc' = Rc!WeakDropped(rc)
    /\ sender' = Nil
    /\ PolledAndWakes(s, Nil, {sender})
    /\ UNCHANGED <<id, slab, rid, waker, buf, unbounded, sending, calls, history>>

(* Drop for Receiver: its state leaves the slab, with the messages in it,  *)
(* and the sender's waker is taken and called.                             *)
DropReceiver(s) ==
    /\ s \in slab /\ polledBy[s] = Nil
    /\ slab' = slab \ {s}
    /\ rc' = Rc!WeakDropped(rc)
    /\ buf' = [buf EXCEPT ![s] = << >>]
    /\ waker' = [waker EXCEPT ![s] = Nil]
    /\ rid' = [rid EXCEPT ![s] = 0]
    /\ sender' = Nil
    /\ PolledAndWakes(s, Nil, {sender})
    /\ UNCHANGED <<id, unbounded, sending, calls, history>>

-----------------------------------------------------------------------------
Next == \/ TrySend
        \/ \E k \in Tasks : Send(k) \/ ResumeSend(k)
        \/ CancelSend \/ DropSender
        \/ \E s \in Slots : Subscribe(s) \/ Recv(s) \/ CancelRecv(s) \/ DropReceiver(s)

Spec == Init /\ [][Next]_vars

(***************************************************************************)
(* The executor polls a call whose task was woken; the users on both sides *)
(* do not walk away, but call again or drop their half.                    *)
(***************************************************************************)
KeepsSending == sending = Nil /\ (DropSender \/ \E k \in Tasks : Send(k))
KeepsReceiving(s) == polledBy[s] = Nil /\ (DropReceiver(s) \/ Recv(s))

FairSpec == /\ Spec
            /\ WF_vars("tx" \in notified /\ \E k \in Tasks : ResumeSend(k))
            /\ WF_vars(KeepsSending)
            /\ \A s \in Slots : /\ WF_vars(s \in notified /\ Recv(s))
                                /\ WF_vars(KeepsReceiving(s))

-----------------------------------------------------------------------------
(***************************************************************************)
(* Correctness.                                                            *)
(***************************************************************************)

WasGiven(s, m) == \E i \in 1..Len(got[s]) : got[s][i] = m

(* A subscriber is given messages in the order they were sent and none     *)
(* twice, over sends that are suspended, dropped half way and tried; its   *)
(* buffer holds the last of them.                                          *)
InOrderOnce ==
    \A s \in slab :
        /\ \A i, j \in 1..Len(got[s]) : i < j => got[s][i] < got[s][j]
        /\ \A i \in 1..Len(buf[s]) : buf[s][i] = got[s][Len(got[s]) - Len(buf[s]) + i]

(* While a `send` is suspended the ids tell who has its message.           *)
IdTellsWhoHasIt ==
    sending # Nil => \A s \in slab : Has(s, id) <=> WasGiven(s, sending)

(* A subscriber "is guaranteed to receive all updates": a `send` that was  *)
(* driven to its end has reached everyone who subscribed before it.        *)
GuaranteedDelivery ==
    \A s \in slab : \A m \in completed : m > since[s] => WasGiven(s, m)

(* A suspended `send` does not sleep when it could go on: someone without  *)
(* the message has room, or nobody is left without it.                     *)
SenderNotified ==
    LET missing == {s \in slab : ~Has(s, id)}
    IN (sending # Nil /\ (missing = {} \/ \E s \in missing : ~AtCapacity(s)))
          => "tx" \in notified

(* While everyone keeps at it, calls that are suspended end: the slowest   *)
(* subscriber delays the sender and does not stop it.                      *)
CallsComplete == /\ sending # Nil ~> sending = Nil
                 /\ \A s \in Slots : polledBy[s] # Nil ~> polledBy[s] = Nil
=============================================================================
