------------------------------ MODULE Semaphore ------------------------------
(***************************************************************************)
(* The semaphore of src/src/semaphore.rs over the queue its wait list      *)
(* implements (`WaitQueue`).  A handle is one use of the semaphore: the    *)
(* future of an `acquire` call and then the `Permit` it returns.           *)
(*                                                                         *)
(* `release_permits` wakes waiters in a loop under one `Borrowed`, and no  *)
(* other code runs before the loop ends, so each operation is one step.    *)
(***************************************************************************)
EXTENDS Naturals, Sequences, FiniteSets

CONSTANTS Handles,      \* the callers of acquire and try_acquire
          MaxUsize,     \* usize::MAX
          InitPermits,  \* the argument of Semaphore::new
          Amounts       \* the numbers of permits asked for or added

ASSUME HandlesFinite == IsFiniteSet(Handles)
ASSUME MaxUsizeIsNat == MaxUsize \in Nat
ASSUME InitPermitsIsUsize == InitPermits \in 0..MaxUsize
ASSUME AmountsAreUsize == Amounts \subseteq 0..MaxUsize

VARIABLES
    permits,      \* Semaphore::permits
    total,        \* Semaphore::total_permits
    queue,        \* Semaphore::waiters, oldest first
    phase,        \* how far each handle has come, see Phases
    amount,       \* the permits a handle asked for, was granted or holds
    promoted      \* history: the head of the queue came there because the
                  \* one before it was dropped, and no release has run since

vars == <<permits, total, queue, phase, amount, promoted>>

(***************************************************************************)
(* idle     no call is under way and no permit is held                     *)
(* parked   suspended in `waiters.wait`                                    *)
(* woken    off the queue with an UnfairWoken token, not polled yet        *)
(* granted  off the queue with a FairGrant, not polled yet                 *)
(* permit   holds a Permit                                                 *)
(***************************************************************************)
Phases == {"idle", "parked", "woken", "granted", "permit"}

In(p) == {h \in Handles : phase[h] = p}

(***************************************************************************)
(* The permits the handles of S stand for under f, as a number: permit i   *)
(* of handle h is the pair <<h, i>>.                                       *)
(***************************************************************************)
Units(f, S) == {u \in S \X (1..MaxUsize) : u[2] <= f[u[1]]}
AmountOf(f, S) == Cardinality(Units(f, S))

TypeOK == /\ permits \in 0..MaxUsize
          /\ total \in 0..MaxUsize
          /\ queue \in Seq(Handles)
          /\ phase \in [Handles -> Phases]
          /\ amount \in [Handles -> 0..MaxUsize]
          /\ promoted \in BOOLEAN

(* Semaphore::new.                                                         *)
Init == /\ permits = InitPermits
        /\ total = InitPermits
        /\ queue = << >>
        /\ phase = [h \in Handles |-> "idle"]
        /\ amount = [h \in Handles |-> 0]
        /\ promoted = FALSE

(* `+` and `-` on usize as a release build does them.                      *)
Plus(a, b) == IF a + b <= MaxUsize THEN a + b ELSE (a + b) - (MaxUsize + 1)
Minus(a, b) == IF b <= a THEN a - b ELSE (a + MaxUsize + 1) - b

-----------------------------------------------------------------------------
(***************************************************************************)
(* release_permits(returned, fairness), called with the handles in phases  *)
(* `from`.  The loop goes down the queue for as long as what is available  *)
(* covers the requests it has passed: a fair release deducts them and      *)
(* hands out grants, an unfair one only wakes.  `parking` are the handles  *)
(* that join the queue when the loop is over.                              *)
(***************************************************************************)
Front(k) == {queue[i] : i \in 1..k}

(* Mutant: anyone in the queue who can be satisfied is, out of turn.        *)
ReleasePermits_OutOfTurn(returned, fairness, from, parking) ==
    \/ /\ UNCHANGED <<queue, phase, permits, promoted>>
       /\ returned = 0 /\ from = phase /\ parking = << >>
    \/ \E i \in 1..Len(queue) :
          /\ amount[queue[i]] <= Plus(permits, returned)
          /\ permits' = Plus(permits, returned)
          /\ phase' = [from EXCEPT ![queue[i]] = "woken"]
          /\ queue' = SubSeq(queue, 1, i - 1)
                         \o SubSeq(queue, i + 1, Len(queue)) \o parking
          /\ promoted' = FALSE

ReleasePermits(returned, fairness, from, parking) ==
    \E k \in 0..Len(queue) :
        LET available == Plus(permits, returned)
            wanted == AmountOf(amount, Front(k))
        IN /\ wanted <= available
           /\ k < Len(queue) => AmountOf(amount, Front(k + 1)) > available
           /\ permits' = IF fairness = "fair" THEN available - wanted
                                              ELSE available
           /\ phase' = [h \in Handles |->
                           IF h \notin Front(k) THEN from[h]
                           ELSE IF fairness = "fair" THEN "granted" ELSE "woken"]
           /\ queue' = SubSeq(queue, k + 1, Len(queue)) \o parking
           /\ promoted' = FALSE

Become(h, p) == [phase EXCEPT ![h] = p]

(***************************************************************************)
(* Taking permits.                                                         *)
(***************************************************************************)

(* try_acquire_unfair(n) that succeeds, and acquire_unfair(n) on its first *)
(* poll.  One that fails changes nothing.                                  *)
TryAcquireUnfair(h, n) ==
    /\ phase[h] = "idle"
    /\ n <= permits
    /\ permits' = permits - n
    /\ phase' = Become(h, "permit")
    /\ amount' = [amount EXCEPT ![h] = n]
    /\ UNCHANGED <<total, queue, promoted>>

(* Mutant: try_acquire does not look at the queue.                         *)
TryAcquire_Barges(h, n) == TryAcquireUnfair(h, n)

(* try_acquire(n): not while anyone is queued.                             *)
TryAcquire(h, n) == queue = << >> /\ TryAcquireUnfair(h, n)

Park(h, n) == /\ phase[h] = "idle"
              /\ phase' = Become(h, "parked")
              /\ amount' = [amount EXCEPT ![h] = n]
              /\ queue' = Append(queue, h)
              /\ UNCHANGED <<permits, total, promoted>>

(* The first poll of acquire(n) and of acquire_unfair(n): where the try    *)
(* fails, the caller queues up.                                            *)
Acquire(h, n) == \/ TryAcquire(h, n)
                 \/ (queue # << >> \/ n > permits) /\ Park(h, n)

AcquireUnfair(h, n) == \/ TryAcquireUnfair(h, n)
                       \/ n > permits /\ Park(h, n)

(* A woken future is polled and finds its permits: it takes them, whoever  *)
(* is queued, and forgets the token.                                       *)
PollWokenTakes(h) == /\ phase[h] = "woken"
                     /\ amount[h] <= permits
                     /\ permits' = permits - amount[h]
                     /\ phase' = Become(h, "permit")
                     /\ UNCHANGED <<total, queue, amount, promoted>>

(* Mutant: the token is forgotten before the try fails.                    *)
PollWokenLoses_ForgetsToken(h) == /\ phase[h] = "woken"
                                  /\ amount[h] > permits
                                  /\ phase' = Become(h, "parked")
                                  /\ queue' = Append(queue, h)
                                  /\ UNCHANGED <<permits, total, amount, promoted>>

(* A woken future is polled and someone took its permits: dropping the     *)
(* token wakes again for what there is, then the loop of `acquire` tries   *)
(* once more, in vain, and queues up at the end.                           *)
PollWokenLoses(h) == /\ phase[h] = "woken"
                     /\ amount[h] > permits
                     /\ ReleasePermits(0, "unfair", Become(h, "parked"), <<h>>)
                     /\ UNCHANGED <<total, amount>>

(* A granted future is polled: the grant becomes its Permit.               *)
PollGranted(h) == /\ phase[h] = "granted"
                  /\ phase' = Become(h, "permit")
                  /\ UNCHANGED <<permits, total, queue, amount, promoted>>

(***************************************************************************)
(* Giving permits back.                                                    *)
(***************************************************************************)
GiveBack(h, n, fairness) ==
    /\ ReleasePermits(n, fairness, Become(h, "idle"), << >>)
    /\ amount' = [amount EXCEPT ![h] = 0]
    /\ UNCHANGED total

(* Drop for Permit, and Permit::release_fair.                              *)
DropPermit(h) == phase[h] = "permit" /\ GiveBack(h, amount[h], "unfair")
ReleaseFair(h) == phase[h] = "permit" /\ GiveBack(h, amount[h], "fair")

(* Permit::leak: the permits leave the semaphore for good.                 *)
Leak(h) == /\ phase[h] = "permit"
           /\ total' = Minus(total, amount[h])
           /\ phase' = Become(h, "idle")
           /\ amount' = [amount EXCEPT ![h] = 0]
           /\ UNCHANGED <<permits, queue, promoted>>

(* Mutants: the token does nothing when dropped, nor does the grant.       *)
CancelWoken_LosesWakeup(h) == /\ phase[h] = "woken"
                              /\ phase' = Become(h, "idle")
                              /\ amount' = [amount EXCEPT ![h] = 0]
                              /\ UNCHANGED <<permits, total, queue, promoted>>
CancelGranted_LosesPermits(h) == phase[h] = "granted" /\ GiveBack(h, 0, "unfair")

(* The future of an acquire call is dropped after it was woken: the output *)
(* in its node is dropped, an UnfairWoken or a FairGrant.                  *)
CancelWoken(h) == phase[h] = "woken" /\ GiveBack(h, 0, "unfair")
CancelGranted(h) == phase[h] = "granted" /\ GiveBack(h, amount[h], "unfair")

(* The future is dropped while parked: Drop for WaitInner takes it off the *)
(* queue and the semaphore does not hear of it.                            *)
CancelParked(h) ==
    \E i \in 1..Len(queue) :
        /\ queue[i] = h
        /\ queue' = SubSeq(queue, 1, i - 1) \o SubSeq(queue, i + 1, Len(queue))
        /\ phase' = Become(h, "idle")
        /\ amount' = [amount EXCEPT ![h] = 0]
        /\ promoted' = (queue' # << >> /\ (promoted \/ i = 1))
        /\ UNCHANGED <<permits, total>>

(* Mutant: the total is not checked against usize::MAX.                    *)
AddPermits_Unchecked(n, fairness) ==
    /\ total < MaxUsize
    /\ total' = total + n
    /\ ReleasePermits(n, fairness, phase, << >>)
    /\ UNCHANGED amount

(* add_permits(n) and add_permits_fair(n), which panic before they change  *)
(* anything when the total would not fit a usize.                          *)
AddPermits(n, fairness) ==
    /\ total + n <= MaxUsize
    /\ total' = total + n
    /\ ReleasePermits(n, fairness, phase, << >>)
    /\ UNCHANGED amount

-----------------------------------------------------------------------------
Poll(h) == PollWokenTakes(h) \/ PollWokenLoses(h) \/ PollGranted(h)

Call(h) == \E n \in Amounts : \/ TryAcquire(h, n) \/ TryAcquireUnfair(h, n)
                              \/ Acquire(h, n) \/ AcquireUnfair(h, n)

Drop(h) == \/ DropPermit(h) \/ ReleaseFair(h) \/ Leak(h)
           \/ CancelParked(h) \/ CancelWoken(h) \/ CancelGranted(h)

Next == \/ \E h \in Handles : Call(h) \/ Poll(h) \/ Drop(h)
        \/ \E n \in Amounts : AddPermits(n, "unfair") \/ AddPermits(n, "fair")

Spec == Init /\ [][Next]_vars

(* The executor polls every future whose waker was called.                 *)
FairSpec == Spec /\ \A h \in Handles : WF_vars(Poll(h))

(***************************************************************************)
(* A semaphore used fairly throughout: everyone calls acquire or           *)
(* try_acquire, waits to be served, and gives the permits back with        *)
(* release_fair, sooner or later; and no one asks for more than there is.  *)
(***************************************************************************)
FairUse == \E h \in Handles :
              \/ \E n \in Amounts \cap 0..total : TryAcquire(h, n) \/ Acquire(h, n)
              \/ PollGranted(h)
              \/ ReleaseFair(h)

FairUseSpec == /\ Init /\ [][FairUse]_vars
               /\ \A h \in Handles : /\ WF_vars(PollGranted(h))
                                     /\ WF_vars(ReleaseFair(h))

-----------------------------------------------------------------------------
(***************************************************************************)
(* Correctness.                                                            *)
(***************************************************************************)

(* The queue and the futures agree: every parked future is queued, once,   *)
(* and nothing else is, over all the ways a future leaves the queue and    *)
(* comes back to it.                                                       *)
QueueIsParked ==
    /\ \A i, j \in 1..Len(queue) : queue[i] = queue[j] => i = j
    /\ \A h \in Handles : phase[h] = "parked" <=> \E i \in 1..Len(queue) : queue[i] = h

(* No permit is lost or made up: those available, those held and those     *)
(* reserved by grants no one has claimed yet add up to the total, whoever  *)
(* is cancelled and whenever.  All of them fit in a usize, so the `+` of   *)
(* release_permits and the `-` of leak, both unchecked, never wrap.        *)
Holders == {h \in Handles : phase[h] \in {"permit", "granted"}}

Conservation == permits + AmountOf(amount, Holders) = total

(* The wakeup in flight covers the queue: unless its head moved up because *)
(* another waiter was dropped, the permits suffice for it only if some of  *)
(* them were already offered to futures that have not run yet.             *)
WakeupCovers ==
    (queue # << >> /\ ~promoted) =>
        permits < amount[Head(queue)] + AmountOf(amount, In("woken"))

(* Permits lie idle in front of a waiter that could have them, and nobody  *)
(* is on the way to see to it.                                             *)
Stranded == /\ queue # << >>
            /\ amount[Head(queue)] <= permits
            /\ In("woken") = {}

(* Only the drop of a parked head can strand permits.                      *)
StrandedOnlyByPromotion == Stranded => promoted

(* The queue is first-in first-out: a waiter is served in a step only if   *)
(* all those ahead of it are served in the same step, however little it    *)
(* asks for.                                                               *)
InOrder == \A i, j \in 1..Len(queue) :
              (i < j /\ phase'[queue[j]] \in {"woken", "granted"})
                 => phase'[queue[i]] \in {"woken", "granted"}

ServedInOrder == [][InOrder]_vars

(* Permits that suffice for the head of the queue do not wait with it for  *)
(* ever: it is woken, or a woken future or an unfair caller takes them.    *)
HeadProgress ==
    \A h \in Handles :
        (queue # << >> /\ Head(queue) = h /\ amount[h] <= permits /\ ~promoted)
            ~> (phase[h] # "parked" \/ amount[h] > permits \/ promoted)

(* "tasks can wait for permits to become available", the documentation of  *)
(* Semaphore says: when they are, the task at the head of the queue is     *)
(* woken, unless someone else takes them first.                            *)
AvailabilityNoticed ==
    \A h \in Handles :
        (queue # << >> /\ Head(queue) = h /\ amount[h] <= permits)
            ~> (phase[h] # "parked" \/ amount[h] > permits)

(* Under fair use no waiter starves.                                       *)
NoStarvation == \A h \in Handles : phase[h] = "parked" ~> phase[h] = "permit"
=============================================================================
