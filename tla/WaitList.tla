------------------------------- MODULE WaitList -------------------------------
(***************************************************************************)
(* The intrusive wait list of src/src/wait_list.rs: a doubly linked list   *)
(* whose nodes live inside the waiting futures, so that a future that is   *)
(* dropped takes its node out of the list from wherever it stands.         *)
(*                                                                         *)
(* Every access to the list or to a node goes through the flag `borrowed`. *)
(* User code takes it with `borrow`, may keep it over several calls of     *)
(* `wake_one`, and may, with it held, poll or drop a waiting future: the   *)
(* program then panics or aborts.  `Reentrant` says whether it does.       *)
(*                                                                         *)
(* `wake` on a waker schedules its task and polls nothing itself.          *)
(***************************************************************************)
EXTENDS Naturals, Sequences

CONSTANTS Waiters,    \* the futures of `wait`, each holding one node
          Wakers,     \* the wakers of the tasks that poll them
          Inputs, Outputs,
          Nil,        \* the null pointer, `None`, or no value
          Reentrant   \* may a future be polled or dropped under a `Borrowed`?

ASSUME NilIsNothing == Nil \notin Waiters \cup Wakers \cup Inputs \cup Outputs
ASSUME InputsAreNotOutputs == Inputs \cap Outputs = {}
ASSUME ReentrantIsBoolean == Reentrant \in BOOLEAN

VARIABLES
    borrowed,         \* WaitList::borrowed
    head, tail,       \* Inner
    next, prev,       \* Waiter::next and Waiter::prev, per node
    waker,            \* Waiter::waker; Nil once woken and dequeued
    state,            \* the union Waiter::state: an input, then an output
    future,           \* "idle" (not polled yet, or gone) or "waiting"
    aborted           \* why the process aborted: "no", "poll" or "drop"

list == <<borrowed, head, tail>>
nodes == <<next, prev, waker, state>>

(***************************************************************************)
(* History, read by no action of the code: the nodes in the order the list *)
(* holds them, the waker each future was last polled with, and the futures *)
(* whose last waker was called since that poll.                            *)
(***************************************************************************)
VARIABLES order, polledWith, notified

vars == <<borrowed, head, tail, next, prev, waker, state, future, aborted,
          order, polledWith, notified>>

TypeOK == /\ borrowed \in BOOLEAN
          /\ head \in Waiters \cup {Nil}
          /\ tail \in Waiters \cup {Nil}
          /\ next \in [Waiters -> Waiters \cup {Nil}]
          /\ prev \in [Waiters -> Waiters \cup {Nil}]
          /\ waker \in [Waiters -> Wakers \cup {Nil}]
          /\ state \in [Waiters -> Inputs \cup Outputs \cup {Nil}]
          /\ future \in [Waiters -> {"idle", "waiting"}]
          /\ aborted \in {"no", "poll", "drop"}
          /\ \A w \in Waiters : future[w] = "idle" =>
                waker[w] = Nil /\ state[w] = Nil /\ polledWith[w] = Nil
          /\ order \in Seq(Waiters)
          /\ polledWith \in [Waiters -> Wakers \cup {Nil}]
          /\ notified \in SUBSET Waiters

Init == /\ borrowed = FALSE
        /\ head = Nil /\ tail = Nil
        /\ next = [w \in Waiters |-> Nil]
        /\ prev = [w \in Waiters |-> Nil]
        /\ waker = [w \in Waiters |-> Nil]
        /\ state = [w \in Waiters |-> Nil]
        /\ future = [w \in Waiters |-> "idle"]
        /\ aborted = "no"
        /\ order = << >>
        /\ polledWith = [w \in Waiters |-> Nil]
        /\ notified = {}

Waiting(w) == future[w] = "waiting"
Linked(w) == Waiting(w) /\ waker[w] # Nil
Woken(w) == Waiting(w) /\ waker[w] = Nil

-----------------------------------------------------------------------------
(* Inner::enqueue: w becomes the new tail, behind the old one.  A node     *)
(* comes fresh from `wait`, so its `next` is None.                         *)
Enqueue(w) ==
    /\ prev' = [prev EXCEPT ![w] = tail]
    /\ next' = [v \in Waiters |-> IF v = w THEN Nil
                                  ELSE IF v = tail THEN w ELSE next[v]]
    /\ tail' = w
    /\ head' = IF head = Nil THEN w ELSE head
    /\ order' = Append(order, w)

(* History: w leaves its place, and the others keep theirs.                *)
OrderWithout(w) ==
    \E i \in 1..Len(order) :
        /\ order[i] = w
        /\ order' = SubSeq(order, 1, i - 1) \o SubSeq(order, i + 1, Len(order))

(* Mutant: removing the last node leaves `tail` behind.                    *)
Dequeue_KeepsTail(w) ==
    /\ next' = [v \in Waiters |-> IF v = prev[w] THEN next[w] ELSE next[v]]
    /\ prev' = [v \in Waiters |-> IF v = next[w] THEN prev[w] ELSE prev[v]]
    /\ head' = IF prev[w] = Nil THEN next[w] ELSE head
    /\ OrderWithout(w)
    /\ UNCHANGED tail

(* Inner::dequeue: the pointer that led to w from either side, a           *)
(* neighbour's or the list's own, now leads past it.  The pointers of w    *)
(* keep what they had.                                                     *)
Dequeue(w) ==
    /\ next' = [v \in Waiters |-> IF v = prev[w] THEN next[w] ELSE next[v]]
    /\ prev' = [v \in Waiters |-> IF v = next[w] THEN prev[w] ELSE prev[v]]
    /\ head' = IF prev[w] = Nil THEN next[w] ELSE head
    /\ tail' = IF next[w] = Nil THEN prev[w] ELSE tail
    /\ OrderWithout(w)

Running == aborted = "no"

(* try_borrow and borrow.  On a list already borrowed the one returns None *)
(* and the other panics; neither changes anything.                         *)
Borrow == /\ Running /\ ~borrowed
          /\ borrowed' = TRUE
          /\ UNCHANGED <<head, tail, nodes, future, aborted,
                         order, polledWith, notified>>

(* Drop for Borrowed.                                                      *)
DropBorrowed == /\ Running /\ borrowed
                /\ borrowed' = FALSE
                /\ UNCHANGED <<head, tail, nodes, future, aborted,
                               order, polledWith, notified>>

(* head_input_mut: the holder writes through the `&mut I` of the head.     *)
SetHeadInput(i) == /\ Running /\ borrowed /\ head # Nil
                   /\ state' = [state EXCEPT ![head] = i]
                   /\ UNCHANGED <<list, next, prev, waker, future, aborted,
                                  order, polledWith, notified>>

(* Mutants: the newest waiter is woken; the waker is dropped uncalled; the *)
(* output is not written.                                                  *)
WakeOne_Newest(o) == /\ Running /\ borrowed /\ head # Nil
                     /\ waker' = [waker EXCEPT ![tail] = Nil]
                     /\ state' = [state EXCEPT ![tail] = o]
                     /\ Dequeue(tail)
                     /\ notified' = notified \cup
                           {v \in Waiters : Waiting(v) /\ polledWith[v] = waker[tail]}
                     /\ UNCHANGED <<borrowed, future, aborted, polledWith>>
WakeOne_NoWake(o) == /\ Running /\ borrowed /\ head # Nil
                     /\ waker' = [waker EXCEPT ![head] = Nil]
                     /\ state' = [state EXCEPT ![head] = o]
                     /\ Dequeue(head)
                     /\ UNCHANGED <<borrowed, future, aborted, polledWith, notified>>
WakeOne_NoOutput(o) == /\ Running /\ borrowed /\ head # Nil
                       /\ waker' = [waker EXCEPT ![head] = Nil]
                       /\ Dequeue(head)
                       /\ notified' = notified \cup
                             {v \in Waiters : Waiting(v) /\ polledWith[v] = waker[head]}
                       /\ UNCHANGED <<borrowed, state, future, aborted, polledWith>>

(* wake_one on a list that is not empty: take the head's waker and input,  *)
(* leave the output in its place, dequeue it, and call the waker last.     *)
WakeOne(o) == /\ Running /\ borrowed /\ head # Nil
              /\ waker' = [waker EXCEPT ![head] = Nil]
              /\ state' = [state EXCEPT ![head] = o]
              /\ Dequeue(head)
              /\ notified' = notified \cup
                     {v \in Waiters : Waiting(v) /\ polledWith[v] = waker[head]}
              /\ UNCHANGED <<borrowed, future, aborted, polledWith>>

(* The first poll of `wait(i)`: build the node around the task's waker and *)
(* enqueue it; WaitInner::poll then finds the waker it was just given.  On *)
(* a borrowed list the poll panics with nothing but the input to drop.     *)
FirstPoll(w, k, i) == /\ Running /\ ~borrowed
                      /\ future[w] = "idle"
                      /\ future' = [future EXCEPT ![w] = "waiting"]
                      /\ state' = [state EXCEPT ![w] = i]
                      /\ waker' = [waker EXCEPT ![w] = k]
                      /\ Enqueue(w)
                      /\ polledWith' = [polledWith EXCEPT ![w] = k]
                      /\ UNCHANGED <<borrowed, aborted, notified>>

(* Mutant: the node keeps the waker of its first poll.                     *)
PollPending_KeepsWaker(w, k) == /\ Running /\ ~borrowed
                                /\ Linked(w)
                                /\ polledWith' = [polledWith EXCEPT ![w] = k]
                                /\ notified' = notified \ {w}
                                /\ UNCHANGED <<list, nodes, future, aborted, order>>

(* WaitInner::poll of a linked node, by any task and called for or not:    *)
(* the waker is the poller's from now on.                                  *)
PollPending(w, k) == /\ Running /\ ~borrowed
                     /\ Linked(w)
                     /\ waker' = [waker EXCEPT ![w] = k]
                     /\ polledWith' = [polledWith EXCEPT ![w] = k]
                     /\ notified' = notified \ {w}
                     /\ UNCHANGED <<list, next, prev, state, future, aborted,
                                    order>>

(* Mutant: the union is a ManuallyDrop that nobody empties.                *)
Forget_Leaks(w) == /\ future' = [future EXCEPT ![w] = "idle"]
                   /\ waker' = [waker EXCEPT ![w] = Nil]
                   /\ polledWith' = [polledWith EXCEPT ![w] = Nil]
                   /\ notified' = notified \ {w}
                   /\ UNCHANGED state

(* The future is gone, with what its union held and its node.              *)
Forget(w) == /\ future' = [future EXCEPT ![w] = "idle"]
             /\ state' = [state EXCEPT ![w] = Nil]
             /\ waker' = [waker EXCEPT ![w] = Nil]
             /\ polledWith' = [polledWith EXCEPT ![w] = Nil]
             /\ notified' = notified \ {w}

(* WaitInner::poll of a node without a waker: Ready, and `wait` takes the  *)
(* output out of the union.                                                *)
PollReady(w) == /\ Running /\ ~borrowed
                /\ Woken(w)
                /\ Forget(w)
                /\ UNCHANGED <<list, next, prev, aborted, order>>

(* A later poll under a `Borrowed`: `borrow` panics, the unwinding drops   *)
(* the WaitInner, and its Drop finds the list borrowed.                    *)
PollAborts(w) == /\ Reentrant /\ Running /\ borrowed
                 /\ Waiting(w)
                 /\ aborted' = "poll"
                 /\ UNCHANGED <<list, nodes, future, order, polledWith, notified>>

(* Mutant: a dropped future does not take its node out of the list.        *)
DropFuture_StaysLinked(w) == /\ Running /\ ~borrowed
                             /\ Waiting(w)
                             /\ Forget(w)
                             /\ UNCHANGED <<list, next, prev, aborted, order>>

(* Drop for WaitInner, then for the Waiter: a node that still has its      *)
(* waker leaves the list and drops the input, one without drops the output.*)
DropFuture(w) == /\ Running /\ ~borrowed
                 /\ Waiting(w)
                 /\ Forget(w)
                 /\ IF waker[w] # Nil
                      THEN Dequeue(w)
                      ELSE UNCHANGED <<head, tail, next, prev, order>>
                 /\ UNCHANGED <<borrowed, aborted>>

(* The same under a `Borrowed`: the node cannot be taken out and must not  *)
(* be freed.                                                               *)
DropAborts(w) == /\ Reentrant /\ Running /\ borrowed
                 /\ Waiting(w)
                 /\ aborted' = "drop"
                 /\ UNCHANGED <<list, nodes, future, order, polledWith, notified>>

Poll(w) == (\E k \in Wakers : PollPending(w, k)) \/ PollReady(w)

Next == \/ Borrow
        \/ DropBorrowed
        \/ \E i \in Inputs : SetHeadInput(i)
        \/ \E o \in Outputs : WakeOne(o)
        \/ \E w \in Waiters, k \in Wakers, i \in Inputs : FirstPoll(w, k, i)
        \/ \E w \in Waiters : Poll(w) \/ PollAborts(w)
                                \/ DropFuture(w) \/ DropAborts(w)

Spec == Init /\ [][Next]_vars

(***************************************************************************)
(* A `Borrowed` does not live for ever, and the executor polls a task whose*)
(* waker was called.  Strong fairness: the poll comes between two borrows, *)
(* and no code may keep the executor out of every such gap.                *)
(***************************************************************************)
Fairness == /\ WF_vars(DropBorrowed)
            /\ \A w \in Waiters : SF_vars(w \in notified /\ Poll(w))

FairSpec == Spec /\ Fairness

-----------------------------------------------------------------------------
(***************************************************************************)
(* Correctness.                                                            *)
(***************************************************************************)

(* The pointers spell out `order`, forwards from `head` and backwards from *)
(* `tail`, and hold no node twice: what enqueue and dequeue keep up while  *)
(* nodes leave from the front, the middle and the end.                     *)
PointersSpellOrder ==
    LET n == Len(order) IN
    /\ head = (IF n = 0 THEN Nil ELSE order[1])
    /\ tail = (IF n = 0 THEN Nil ELSE order[n])
    /\ \A i \in 1..n :
          /\ next[order[i]] = (IF i = n THEN Nil ELSE order[i + 1])
          /\ prev[order[i]] = (IF i = 1 THEN Nil ELSE order[i - 1])
    /\ \A i, j \in 1..n : order[i] = order[j] => i = j

(* The list holds exactly the futures that wait and were not woken, so no  *)
(* pointer of it leads into a future that completed or was dropped (the    *)
(* safety comment of `enqueue`: valid until it is removed).                *)
OnlyLiveNodesLinked == \A w \in Waiters : Linked(w) <=> \E i \in 1..Len(order) : order[i] = w

(* The debug_asserts of `dequeue`, for every node it may be called on.     *)
DequeueAsserts ==
    \A w \in Waiters : Linked(w) =>
        /\ (IF prev[w] = Nil THEN head ELSE next[prev[w]]) = w
        /\ (IF next[w] = Nil THEN tail ELSE prev[next[w]]) = w

(* The waker is what tells which half of the union is live: a node with a  *)
(* waker holds an input, one without holds an output.                      *)
WakerTagsUnion == \A w \in Waiters : /\ Linked(w) => state[w] \in Inputs
                                     /\ Woken(w) => state[w] \in Outputs

(* A future that was woken and has not completed can count on being polled:*)
(* the waker of its latest poll was called since.  Tasks that hand the     *)
(* future to one another between polls do not lose the wakeup.             *)
LatestWakerNotified == \A w \in Waiters : Woken(w) => w \in notified

(* `wait` says of itself: "Panics if the list is currently borrowed."  A   *)
(* poll then ends the process only by unwinding, never by aborting it.     *)
PollNeverAborts == aborted # "poll"

(* The list implements the queue: nothing but its pointers decides who is  *)
(* next, and inputs and outputs reach exactly the future they belong to.   *)
Queue == INSTANCE WaitQueue WITH
            queue <- order,
            input <- [w \in Waiters |-> IF Linked(w) THEN state[w] ELSE Nil],
            output <- [w \in Waiters |-> IF Woken(w) THEN state[w] ELSE Nil]

ImplementsQueue == Queue!Spec

(* A future taken off the queue does not stay suspended: it resumes with   *)
(* its output or is dropped, unless the process aborts.                    *)
WokenResumes == \A w \in Waiters : Woken(w) ~> (~Woken(w) \/ ~Running)
=============================================================================
