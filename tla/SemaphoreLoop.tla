---------------------------- MODULE SemaphoreLoop ----------------------------
(***************************************************************************)
(* The semaphore of src/src/semaphore.rs with `release_permits` as the     *)
(* code runs it, one `wake_one` after the other, over the queue of wait    *)
(* futures that the wait list implements (`WaitQueue`).  `Semaphore`, in   *)
(* which a release is one step, is what it is shown to implement.          *)
(***************************************************************************)
EXTENDS Naturals, Sequences, FiniteSets

CONSTANTS Handles, MaxUsize, InitPermits, Amounts,  \* as in `Semaphore`
          Nil

VARIABLES
    permits,    \* Semaphore::permits
    total,      \* Semaphore::total_permits
    queue, input, output,   \* Semaphore::waiters
    call,       \* where the code of each handle is, see Calls
    want,       \* `to_acquire` of a future, Permit::permits of a permit
    loop,       \* the locals of release_permits while it runs, else Nil
    before,     \* history: what `Semaphore` sees of the state the operation
                \* under way began in, Nil if there is none
    promoted    \* history, as in `Semaphore`

vars == <<permits, total, queue, input, output, call, want, loop, before, promoted>>
list == <<queue, input, output>>

(* WakeUp: an UnfairWoken, or a FairGrant with its permits.                *)
Token == [fair |-> FALSE, permits |-> 0]
Grant(n) == [fair |-> TRUE, permits |-> n]
WakeUps == {Token} \cup {Grant(n) : n \in 0..MaxUsize}

List == INSTANCE WaitQueue WITH Waiters <- Handles, Inputs <- 0..MaxUsize,
                                Outputs <- WakeUps

(***************************************************************************)
(* idle      no call is under way and no permit is held                    *)
(* waiting   suspended in `waiters.wait`                                   *)
(* retrying  its token is being dropped, then `acquire` loops              *)
(* permit    holds a Permit                                                *)
(***************************************************************************)
Calls == {"idle", "waiting", "retrying", "permit"}

(* What `Semaphore` can see of a state, and the locals of release_permits. *)
Views == [permits : 0..MaxUsize, total : 0..MaxUsize, queue : Seq(Handles),
          phase : [Handles -> {"idle", "parked", "woken", "granted", "permit"}],
          amount : [Handles -> 0..MaxUsize], promoted : BOOLEAN]
Locals == [left : 0..MaxUsize, fairness : {"fair", "unfair"}, woke : BOOLEAN]

ASSUME NilIsNothing == Nil \notin WakeUps \cup Locals \cup Views

(* No code of the semaphore is running.                                    *)
Free == before = Nil

(***************************************************************************)
(* How `Semaphore` sees a state: as it is between operations, and during   *)
(* one as it was when it began.                                            *)
(***************************************************************************)
Phase == [h \in Handles |-> IF call[h] # "waiting" THEN call[h]
                            ELSE IF output[h] = Nil THEN "parked"
                            ELSE IF output[h].fair THEN "granted" ELSE "woken"]

View == [permits |-> permits, total |-> total, queue |-> queue,
         phase |-> Phase, amount |-> want, promoted |-> promoted]
Seen == IF Free THEN View ELSE before

Atomic == INSTANCE Semaphore WITH
    permits <- Seen.permits, total <- Seen.total, queue <- Seen.queue,
    phase <- Seen.phase, amount <- Seen.amount, promoted <- Seen.promoted

Init == /\ permits = InitPermits /\ total = InitPermits
        /\ List!Init
        /\ call = [h \in Handles |-> "idle"]
        /\ want = [h \in Handles |-> 0]
        /\ loop = Nil /\ before = Nil
        /\ promoted = FALSE

-----------------------------------------------------------------------------
(***************************************************************************)
(* release_permits.                                                        *)
(***************************************************************************)

(* The permits come back and the list is borrowed.  `left` is the local    *)
(* `permits`; `woke` says that a waker has been called.                    *)
Release(returned, fairness) ==
    /\ Free
    /\ permits' = Atomic!Plus(permits, returned)
    /\ loop' = [left |-> permits', fairness |-> fairness, woke |-> FALSE]
    /\ before' = View
    /\ UNCHANGED promoted

(* The loop goes on: what is left covers the head of the queue.            *)
Covers == loop # Nil /\ queue # << >> /\ input[Head(queue)] <= loop.left

(* Mutant: an unfair release does not count what it has offered.           *)
WakeUnfairly_OffersTwice ==
    /\ Covers /\ loop.fairness = "unfair"
    /\ loop' = [loop EXCEPT !.woke = TRUE]
    /\ List!WakeOne(Token)
    /\ UNCHANGED <<permits, total, call, want, before, promoted>>

WakeFairly ==
    /\ Covers /\ loop.fairness = "fair"
    /\ LET wanted == input[Head(queue)]
       IN /\ permits' = loop.left - wanted
          /\ loop' = [loop EXCEPT !.left = @ - wanted, !.woke = TRUE]
          /\ List!WakeOne(Grant(wanted))
    /\ UNCHANGED <<total, call, want, before, promoted>>

WakeUnfairly ==
    /\ Covers /\ loop.fairness = "unfair"
    /\ loop' = [loop EXCEPT !.left = @ - input[Head(queue)], !.woke = TRUE]
    /\ List!WakeOne(Token)
    /\ UNCHANGED <<permits, total, call, want, before, promoted>>

(* The queue is empty or asks for more; the list is given back.            *)
LoopEnds ==
    /\ loop # Nil /\ ~Covers
    /\ loop' = Nil
    /\ before' = IF \E h \in Handles : call[h] = "retrying" THEN before ELSE Nil
    /\ promoted' = FALSE
    /\ UNCHANGED <<permits, total, list, call, want>>

-----------------------------------------------------------------------------
Goes(h, c, n) == /\ call' = [call EXCEPT ![h] = c]
                 /\ want' = [want EXCEPT ![h] = n]

(* try_acquire_unfair, which does not touch the list.                      *)
Take(h, n) == /\ call[h] = "idle"
              /\ n <= permits
              /\ permits' = permits - n
              /\ Goes(h, "permit", n)
              /\ UNCHANGED <<total, list, loop, before, promoted>>

TryAcquireUnfair(h, n) == Free /\ Take(h, n)
TryAcquire(h, n) == queue = << >> /\ TryAcquireUnfair(h, n)

(* A waker that is called by wake_one takes permits.                       *)
TakeInWaker(h, n) == loop # Nil /\ loop.woke /\ Take(h, n)

Park(h, n) == /\ Free /\ call[h] = "idle"
              /\ List!Wait(h, n)
              /\ Goes(h, "waiting", n)
              /\ UNCHANGED <<permits, total, loop, before, promoted>>

Acquire(h, n) == TryAcquire(h, n) \/ ((queue # << >> \/ n > permits) /\ Park(h, n))
AcquireUnfair(h, n) == TryAcquireUnfair(h, n) \/ (n > permits /\ Park(h, n))

(* The future resumes with an output and leaves the wait.                  *)
Resumes(h, o, c) == /\ Free /\ call[h] = "waiting" /\ output[h] = o
                    /\ List!Resume(h)
                    /\ Goes(h, c, IF c = "idle" THEN 0 ELSE want[h])

PollWokenTakes(h) == /\ Resumes(h, Token, "permit")
                     /\ want[h] <= permits
                     /\ permits' = permits - want[h]
                     /\ UNCHANGED <<total, loop, before, promoted>>

(* The try fails and drops the token.                                      *)
PollWokenLoses(h) == /\ Resumes(h, Token, "retrying")
                     /\ want[h] > permits
                     /\ Release(0, "unfair")
                     /\ UNCHANGED total

(* The next round of the loop of `acquire`, or of `acquire_unfair`: it     *)
(* fails as the first did and queues up.  Were there permits for it, the   *)
(* model would stop here.                                                  *)
Retry(h) == /\ loop = Nil /\ call[h] = "retrying"
            /\ want[h] > permits
            /\ List!Wait(h, want[h])
            /\ Goes(h, "waiting", want[h])
            /\ before' = Nil
            /\ UNCHANGED <<permits, total, loop, promoted>>

PollGranted(h) == /\ \E n \in 0..MaxUsize : Resumes(h, Grant(n), "permit")
                  /\ UNCHANGED <<permits, total, loop, before, promoted>>

(* The future is dropped with a token or a grant in its node.              *)
CancelWoken(h) == /\ Resumes(h, Token, "idle")
                  /\ Release(0, "unfair")
                  /\ UNCHANGED total

CancelGranted(h) == /\ \E n \in 0..MaxUsize : /\ Resumes(h, Grant(n), "idle")
                                              /\ Release(n, "unfair")
                    /\ UNCHANGED total

CancelParked(h) == /\ Free
                   /\ List!CancelQueued(h)
                   /\ Goes(h, "idle", 0)
                   /\ promoted' = (queue' # << >> /\ (promoted \/ Head(queue) = h))
                   /\ UNCHANGED <<permits, total, loop, before>>

(* Drop for Permit, and Permit::release_fair.                              *)
GiveBack(h, fairness) == /\ call[h] = "permit"
                         /\ Release(want[h], fairness)
                         /\ Goes(h, "idle", 0)
                         /\ UNCHANGED <<total, list>>

Leak(h) == /\ Free /\ call[h] = "permit"
           /\ total' = Atomic!Minus(total, want[h])
           /\ Goes(h, "idle", 0)
           /\ UNCHANGED <<permits, list, loop, before, promoted>>

AddPermits(n, fairness) == /\ total + n <= MaxUsize
                           /\ total' = total + n
                           /\ Release(n, fairness)
                           /\ UNCHANGED <<list, call, want>>

-----------------------------------------------------------------------------
ReleaseLoop == WakeFairly \/ WakeUnfairly \/ LoopEnds

Call(h) == \E n \in Amounts : \/ TryAcquire(h, n) \/ TryAcquireUnfair(h, n)
                              \/ Acquire(h, n) \/ AcquireUnfair(h, n)

Poll(h) == PollWokenTakes(h) \/ PollWokenLoses(h) \/ Retry(h) \/ PollGranted(h)

Drop(h) == \/ CancelWoken(h) \/ CancelGranted(h) \/ CancelParked(h)
           \/ GiveBack(h, "unfair") \/ GiveBack(h, "fair") \/ Leak(h)

Next == \/ ReleaseLoop
        \/ \E h \in Handles : Call(h) \/ Poll(h) \/ Drop(h)
        \/ \E n \in Amounts : AddPermits(n, "unfair") \/ AddPermits(n, "fair")

Spec == Init /\ [][Next]_vars

(***************************************************************************)
(* The wakers run code of the program, as `Waker::wake` may.  That code    *)
(* finds the list borrowed, but try_acquire_unfair does not ask.           *)
(***************************************************************************)
NextReentrant == Next \/ \E h \in Handles, n \in Amounts : TakeInWaker(h, n)

ReentrantSpec == Init /\ [][NextReentrant]_vars

-----------------------------------------------------------------------------
(***************************************************************************)
(* Correctness.                                                            *)
(***************************************************************************)

(* The loop, its local copy of the permits and the objects it leaves in    *)
(* the nodes do what `Semaphore` does in one step, for every way into it:  *)
(* a permit, a token or a grant dropped, a poll that fails, new permits.   *)
ImplementsSemaphore == Atomic!Spec

(* "Retrieve the total number of permits, including those currently handed *)
(* out", the documentation of total_permits says: so no more are handed    *)
(* out than there are.                                                     *)
HandedOut == Atomic!AmountOf(want, {h \in Handles : call[h] = "permit"})
TotalIncludesHandedOut == HandedOut <= total
=============================================================================
