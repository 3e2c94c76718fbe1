------------------------------ MODULE WaitQueue ------------------------------
(***************************************************************************)
(* What the wait list of src/src/wait_list.rs promises to the code that    *)
(* uses it, with nothing of how it is built: a first-in first-out queue of *)
(* waiting futures, each with the input it was given, and for every future *)
(* taken off the queue the output it will resume with.                     *)
(*                                                                         *)
(* `WaitList` implements this specification with an intrusive, doubly      *)
(* linked list; `Semaphore` and `OnceCell` rely on it.                     *)
(***************************************************************************)
EXTENDS Naturals, Sequences

CONSTANTS Waiters,  \* the futures returned by `WaitList::wait`
          Inputs,   \* the values passed to `wait`
          Outputs,  \* the values passed to `wake_one`
          Nil       \* no value, none of the above

VARIABLES queue,    \* the futures waiting, oldest first
          input,    \* input[w]: what w brought to the queue, Nil unless queued
          output    \* output[w]: what w was woken with, Nil unless it was woken

vars == <<queue, input, output>>

Queued(w) == \E i \in 1..Len(queue) : queue[i] = w

Init == /\ queue = << >>
        /\ input = [w \in Waiters |-> Nil]
        /\ output = [w \in Waiters |-> Nil]

(* A future is polled for the first time: it joins the queue at the end.   *)
Wait(w, i) == /\ ~Queued(w)
              /\ output[w] = Nil
              /\ queue' = Append(queue, w)
              /\ input' = [input EXCEPT ![w] = i]
              /\ UNCHANGED output

(* The holder of the list rewrites the input of the oldest waiter, and of  *)
(* no other.                                                               *)
SetHeadInput(i) == /\ queue # << >>
                   /\ input' = [input EXCEPT ![Head(queue)] = i]
                   /\ UNCHANGED <<queue, output>>

(* The oldest waiter leaves the queue; its input goes to the waking code.  *)
WakeOne(o) == /\ queue # << >>
              /\ queue' = Tail(queue)
              /\ output' = [output EXCEPT ![Head(queue)] = o]
              /\ input' = [input EXCEPT ![Head(queue)] = Nil]

(* A woken future is polled and completes with its output.                 *)
Resume(w) == /\ output[w] # Nil
             /\ output' = [output EXCEPT ![w] = Nil]
             /\ UNCHANGED <<queue, input>>

(* A future is dropped: still queued, it leaves its place and the others   *)
(* keep theirs; already woken, its output is dropped with it.              *)
CancelQueued(w) ==
    \E i \in 1..Len(queue) :
        /\ queue[i] = w
        /\ queue' = SubSeq(queue, 1, i - 1) \o SubSeq(queue, i + 1, Len(queue))
        /\ input' = [input EXCEPT ![w] = Nil]
        /\ UNCHANGED output

Cancel(w) == CancelQueued(w) \/ Resume(w)

Next == \/ \E w \in Waiters, i \in Inputs : Wait(w, i)
        \/ \E i \in Inputs : SetHeadInput(i)
        \/ \E o \in Outputs : WakeOne(o)
        \/ \E w \in Waiters : Resume(w) \/ Cancel(w)

Spec == Init /\ [][Next]_vars
=============================================================================
