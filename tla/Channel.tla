-------------------------------- MODULE Channel --------------------------------
(***************************************************************************)
(* What a channel between one sender and one receiver promises: a queue of *)
(* messages that the one half fills and the other empties, and a word to   *)
(* either half that the other is gone.  `Spsc` implements it.              *)
(***************************************************************************)
EXTENDS Naturals, Sequences

CONSTANTS Messages, Capacity

VARIABLES queue,      \* sent and not received, oldest first
          unbounded,  \* may the queue grow beyond Capacity?
          alive,      \* the halves that are left, of {"tx", "rx"}
          ended       \* the receiver was told that nothing will follow

vars == <<queue, unbounded, alive, ended>>

Init == /\ queue = << >>
        /\ unbounded \in BOOLEAN
        /\ alive = {"tx", "rx"}
        /\ ended = FALSE

(* A message is accepted, while somebody may still receive it.             *)
Send(m) == /\ alive = {"tx", "rx"}
           /\ unbounded \/ Len(queue) < Capacity
           /\ queue' = Append(queue, m)
           /\ UNCHANGED <<unbounded, alive, ended>>

(* Messages come out in the order they went in, also when the sender is    *)
(* gone by then.                                                           *)
Receive == /\ "rx" \in alive
           /\ queue # << >>
           /\ queue' = Tail(queue)
           /\ UNCHANGED <<unbounded, alive, ended>>

(* The end is announced after the last message, not before.                *)
End == /\ alive = {"rx"}
       /\ queue = << >>
       /\ ended' = TRUE
       /\ UNCHANGED <<queue, unbounded, alive>>

(* A half is dropped; the last one takes the queue with it.                *)
Close(h) == /\ h \in alive
            /\ alive' = alive \ {h}
            /\ queue' = IF alive = {h} THEN << >> ELSE queue
            /\ UNCHANGED <<unbounded, ended>>

Next == \/ \E m \in Messages : Send(m)
        \/ Receive
        \/ End
        \/ \E h \in {"tx", "rx"} : Close(h)

Spec == Init /\ [][Next]_vars
=============================================================================
