# A verification of unsync in TLA+

`unsync` is a Rust crate of asynchronous primitives for one thread: a wait list,
a semaphore, a once cell, and three channels. Nothing in it runs in parallel and
there is no lock in it. What is hard is the order of steps: a future is polled,
polled again by another task, woken, or dropped at any moment between two
polls, and what it leaves behind (a node of a linked list, a wakeup, permits,
the job of initializing a value) has to reach the next one in line.

Paths are those of the repository, with its root at `src/`.

## The system

| part | state | operations | who calls it |
|------|-------|------------|--------------|
| `WaitList` (`src/src/wait_list.rs`) | `borrowed` flag; `head` and `tail` of a doubly linked list; in every waiting future a node: `next`, `prev`, `waker`, and a union that holds an input and later an output | `wait`, `borrow`, `try_borrow`; on the guard `head_input`, `head_input_mut`, `wake_one`; drop of the guard and of a future | user code, semaphore, once cell |
| `Semaphore` (`src/src/semaphore.rs`) | `permits`, `total_permits`, a wait list with the number of permits as input and a token (`UnfairWoken`) or a grant (`FairGrant`) as output | `acquire`, `acquire_unfair`, `try_acquire`, `try_acquire_unfair`, `add_permits`, `add_permits_fair`; drop, `release_fair` and `leak` of a permit; drop of a future, a token, a grant | user code |
| `OnceCell` (`src/src/once_cell.rs`) | `Uninit`, `Initializing` or `Initialized` with a value; a wait list with a `Baton` as output | `get_or_init`, `get_or_try_init`, `insert`, `set`, `get`, `take`, `into_inner`; drop of a future, a guard, a baton | user code |
| `BiRc` (`src/src/bi_rc.rs`) | a value and a count of 2, 1 or 0 | `new`, `get_mut_unchecked`, drop | oneshot, spsc |
| oneshot (`src/src/oneshot.rs`) | a slot for a value, the receiver's waker | `send`, poll of the receiver, drop of either half | user code |
| spsc (`src/src/spsc.rs`) | a ring buffer, two wakers, bounded or not | `try_send`, `send`, `recv`, drop of either half | user code |
| `BroadRc` (`src/src/broad_rc.rs`) | a value, a strong and a weak count | `new`, `weak`, `get_mut_unchecked`, drops | broadcast |
| broadcast (`src/src/broadcast.rs`) | a message id, the sender's waker, a slab of subscribers with a buffer, an id and a waker each | `subscribe`, `try_send`, `send`, `recv`, drop of the sender or a subscriber | user code |
| `utils` (`src/src/utils.rs`) | none | `abort`, `checked_increment`, `noop_cx` | all of the above |

The components interact by direct calls and through wakers. The semaphore and
the once cell own a wait list and keep it borrowed for the length of a loop of
`wake_one`; the output they leave in a node is an object with a `Drop` of its
own, which calls back into them when the future is dropped before it resumes.
The two halves of a channel share one allocation and read from its reference
count whether the other half is still there.

What is hard in it, and what makes each part correct:

* **Wait list.** Futures leave the list from the front (woken) and from
  anywhere else (dropped), and the list lives in their own memory. It is correct
  when the pointers always spell the same order in both directions and lead to
  live futures only, when the waker in a node tells which half of the union is
  live, and when a woken future's latest task is called.
* **Semaphore.** Permits pass through a release loop, a wakeup that reserves
  nothing, or a grant that does, and each may be dropped half way. It is correct
  when no permit is lost or doubled, no wakeup is lost, and the queue is served
  in order.
* **Once cell.** The job of initializing passes from a failed or dropped caller
  to the next. It is correct when somebody has the job whenever the cell is
  `Initializing`, never two, and when no value is stored over another one.
* **Channels.** A value, a wakeup and the end of the other half race; in
  broadcast also the slowest subscriber, and a `send` dropped half way. Channels
  compose: the sender of one can be a message in another, and what becomes of it
  there decides what the receiver of the first one learns.

## Assumptions about the surroundings

* *Waking is not polling.* `wake` on a waker puts its task on the executor's
  list. Code that polls or drops a future of the same wait list from within
  `wake` finds the list borrowed and panics or aborts; `WaitList` models that
  outcome for every program point at which a `Borrowed` is alive, and the
  modules above it leave such executors out. One call of the semaphore does not
  ask for the list, `try_acquire_unfair`; `ReentrantSpec` of `SemaphoreLoop` has
  wakers that make it.
* *Any future may be polled at any time*, whether it was woken or not. Polls
  that change nothing are stuttering steps.
* *A future is dropped, not forgotten.* `mem::forget` of a waiting future is not
  modelled; it would leak a node that stays valid for ever.
* *Wakers do not panic.* The comment at `src/src/wait_list.rs:453` covers the one
  step in which they might.

## The modules

### `WaitQueue` and `WaitList`

`WaitQueue` is the abstract specification: a sequence of futures, the input of
each one in it, and the output of each one taken off it.

`WaitList` is the code. `borrowed`, `head`, `tail`, `next`, `prev`, `waker` and
`state` are its fields; `future[w]` says whether the future exists and waits;
`aborted` says whether and where the process died. `Enqueue` and `Dequeue` are
the two pointer operations, used by `FirstPoll`, `WakeOne` and `DropFuture` as in
the code. `PollPending` and `PollReady` are the arms of `WaitInner::poll`,
`Forget` is the drop of the node. `PollAborts` and `DropAborts` are a poll and
a drop under a live `Borrowed`; the constant `Reentrant` says whether the program
does such things. A first poll under a `Borrowed`, and a second `borrow`, panic
and change nothing, so they have no action.

Three variables are history that no action reads: `order` (the nodes in list
order), `polledWith` (the waker of each future's latest poll) and `notified` (the
futures whose latest waker was called).

Each operation is one step. That is exact: an operation holds the list's flag
from beginning to end and calls no foreign code but wakers and the clone of one.

### `Semaphore`

A handle is one use of the semaphore: idle, `parked` in `waiters.wait`, `woken`
(an `UnfairWoken` in its node), `granted` (a `FairGrant` in its node) or holding
a `permit`. The wait list appears as the queue that `WaitList` is shown to
implement. `ReleasePermits` is the loop of `release_permits`: it takes the
longest front of the queue that the available permits cover, deducts and grants
when fair, only wakes when not. A woken future whose permits were taken drops its
token (a release of 0 permits), tries in vain and joins the end of the queue:
`PollWokenLoses` is all of that, since the code does it in one poll.

Arithmetic is that of a `usize`: `Plus` and `Minus` wrap as in a release build,
where the code does not check; `add_permits` checks and panics.

`promoted` is history: the present head of the queue came there because the one
before it was dropped, and no release has run since.

### `SemaphoreLoop`

The same semaphore, with `release_permits` as the code runs it: `Release` borrows
the list, each `WakeFairly` or `WakeUnfairly` is one round with its `wake_one`, and
`LoopEnds` gives the list back. The queue is an instance of `WaitQueue`, so the tokens and
grants are the outputs that the list hands over. `loop.left` is the local variable
`permits` of the function, which the cell follows in a fair release and not in an
unfair one. A waiter that loses drops its token (a release of 0) and then goes
through the loop of `acquire` again, `retrying`.

The module refines `Semaphore`: between operations the two states are the same, and
while one runs `Semaphore` sees the state it began in, which the history variable
`before` keeps, and changes when it ends. `TakeInWaker`, which only `ReentrantSpec`
takes, is a waker that calls `try_acquire_unfair` from within `wake_one`.

### `Once` and `OnceCell`

`Once` is the abstract specification: a value stored once, and before it at most
one owner of the job. `OnceCell` is the code; a caller is one call of
`get_or_init`, `get_or_try_init` or `insert` (then `offer` is the value it
brings), waiting, holding a `baton`, running its `f`, or holding the reference
it returned. `DropBaton` is `Drop for Baton`, used by `Fail` (through the `Guard`)
and by `CancelBaton`; `Complete` is the wake loop at the end.

### `BiRc`, `Oneshot`, `Channel` and `Spsc`

`BiRc` has no state: it says what the count of a shared allocation means, as
operators that both channels use on their variable `count`.

`Oneshot` is several oneshot channels side by side, whose receivers are polled by
the same tasks; `alive[c]` are the halves that exist, `count`, `waker` and `buf`
the fields of the code. `send` consumes the sender, so `Send` is also its drop.
`Err` and `None` are what the two sides are told when the other is gone.
`PollMessage`, `PollEnd` and `PollPending` are the three ways out of
`Receiver::poll`. A name of a channel is used again when both halves are gone.

`Channel` is the abstract specification of the other one: a queue, and an end that is
announced after the last message. `Spsc` is the code. Its calls borrow their half,
so a half has at most one call under way and is dropped between calls only:
`sending` is the value of a suspended `send`, `polledBy["rx"]` says that a `recv`
is suspended. The drop of a half and the drop of its `BiRc` are one step, since
the task that is woken in between does not run there.

In these modules and the next a task may poll several calls, and one waker stands
for all of them: `PolledAndWakes` marks every call that its task polled last.
`polledBy` also says whether a call is suspended, which decides what its user may do
next; nothing but fairness reads `notified`: any call may be polled at any time.

### `BroadRc` and `Broadcast`

`BroadRc` says what the two counts mean. `Broadcast` is the code. A subscriber is its
index in the slab, which a later subscriber may get again; the fields of its
state are functions of the index (`rid` is its `id`, with `waker` and `buf`).
The slab picks the free index, so the model lets it be any. Messages
are the numbers of the calls that sent them. `SendFindsNobody` and `SendDelivers`
are the ways through `Send::poll`, the first of which (`Send`) also bumps the id
and the later ones (`ResumeSend`) do not. `since`, `got` and `completed` are
history.

### `RequestReply`

The exchange of `src/tests/oneshot.rs`, composed of an instance of `Spsc` and one of
`Oneshot`: the messages of the one are the senders of the other. Every step is a step
of one of the two, or of both: a `send` that fails or is dropped drops the sender it
carries (`Outcome`), and the last half of the channel of requests takes with it the
senders left in its buffer (`FreeBuffer`), each of which calls its receiver's waker.
`held` are senders that the client has made and not sent, `serving` the one that the
server has taken out, `n` the server's counter. The test makes one request after
the other and gives nothing up; here the client may have several under way, and either side
may give up a call or hang up at any time, as the drop of a task makes it do.
`requests` and `number` are history: how many requests were accepted, and which of
them was each channel's.

### The proof modules

`WaitListProofs`, `SemaphoreProofs`, `OnceCellProofs`, `OneshotProofs`, `SpscProofs`,
`BroadcastProofs` and `RequestReplyProofs` each extend the module they are about.
`Lemmas` models no code: it says what a sequence holds after its end is joined, its
front is taken off, or one leaves it from anywhere, and what the reference count of a
channel tells about its two halves. `RequestReplyProofs` takes the theorems of
`SpscProofs` and the lemmas of `OneshotProofs` by instance, as `RequestReply` does their
modules.

## The runs

| run | question | bounds |
|-----|----------|--------|
| `WaitList.cfg` | pointers, union and wakers stay right; implements `WaitQueue`; woken futures come to their end | 3 futures: a node with a neighbour on both sides; 2 tasks; 2 inputs and outputs; polls and drops under a `Borrowed` included |
| `WaitListRepoll.cfg` | is a poll under a `Borrowed` a panic, as documented? No | 2 futures |
| `Semaphore.cfg` | permits, wakeups and order; permits that suffice for the head are taken or offered | 4 handles, so that a release wakes two and leaves two; requests of 0 to 3 permits of a total of up to 3, the largest `usize` |
| `SemaphoreFairUse.cfg` | nobody starves under fair use | 4 handles and 2 permits, so that some wait while others hold; requests of up to the 2 there are |
| `SemaphoreStranded.cfg` | is every waiter told of permits it could have? No | 3 handles, 2 permits |
| `SemaphoreLoop.cfg` | the release loop implements `Semaphore` | 3 handles, so that one release wakes two or one of two; up to 3 permits, requests of 0 to 2 |
| `SemaphoreReentrant.cfg` | are no more permits handed out than `total_permits`, if wakers run code? They are | 3 handles, 2 to 3 permits |
| `OnceCell.cfg` | owner of the job, references, `unreachable!`; implements `Once`; nobody waits for ever | 4 callers: an owner, one with a baton, and two waiters behind; 2 values |
| `Spsc.cfg` | implements `Channel`; nobody sleeps while its call could go on; suspended calls end | capacity 2, and up to 3 messages in an unbounded buffer; 2 tasks, so that a call changes hands and both halves may share a task |
| `Oneshot.cfg` | the answer is true and arrives | 2 channels, 2 messages, 2 tasks |
| `Broadcast.cfg` | order, no loss, no repetition, wakers; suspended calls end | 2 indices, of which one may be full and the other not, and either be used again; capacity 1; 3 sends, so that one is suspended, dropped and followed by another; 2 tasks |
| `RequestReply.cfg` | no sender of a reply is lost or doubled; replies match requests; who awaits one is told something | 2 oneshot channels, so that one is in the buffer while the other is served or waits for room; capacity 1; 3 requests, so that a channel's name is used again |

`MaxUsize` is 3 or 2 in the runs: small enough that `add_permits` reaches the
check for overflow. `MaxBuffered` bounds the unbounded buffer of `Spsc` (a push
beyond it is not taken) and `MaxSends` the calls of the sender in `Broadcast`;
`MaxRequests` bounds the requests of `RequestReply`, whose unbounded buffer has
room for them all. `MaxId`, the largest id, is not below `MaxSends`, because no program makes 2^64 sends: ids
do not come again. No other counter grows. Deadlock is checked everywhere but
in the two runs of `WaitList`, where the process may abort, and in those of
`Spsc` and `Broadcast`, which stop when all halves are dropped.

### What the properties say

* `PointersSpellOrder`, `OnlyLiveNodesLinked`: the list is well formed and holds
  exactly the futures that wait and were not woken. Hence `DequeueAsserts`: the
  two `debug_assert`s of `dequeue` hold for any future that may be dropped next
  (proved, not checked in a run).
* `WakerTagsUnion`, `LatestWakerNotified`: what `wait`, `wake_one` and the drop of
  a node rely on.
* `Conservation`: available, held and granted permits add up to the total.
* `WakeupCovers`: unless its head came there by the drop of the one before it,
  the queue's head can be served only by permits already offered to woken futures.
  Hence `StrandedOnlyByPromotion`: there is one way only for permits to lie idle
  (likewise proved).
* `ImplementsSemaphore`: what a release does with a local copy of the permits,
  round by round, is what `Semaphore` says it does in one step, from every operation
  that ends in one. In particular a waiter that loses finds, when it tries again,
  what it found before it dropped its token.
* `ServedInOrder`: no step serves a waiter and passes over one ahead of it.
* `OneOwner`, `WaitersHaveOwner`, `ResumeReachable`: while the cell is
  `Initializing` exactly one caller has the job, callers wait only then, and the
  `unreachable!()` of `get_or_try_init` is unreachable.
* `RefsStayValid`, `OneInsertWins`: a stored value stays while anyone refers to it,
  and of the `insert` calls alive at a time at most one succeeded.
* `ReceiverNotified`, `SenderNotified` (of the channels): a suspended call that could
  go on has had the task of its latest poll woken. With the executor's fairness
  this is what `CallsComplete` rests on, and `ReceiverAnswered` of `Oneshot`. That
  there is room in a channel of `Spsc` is said apart from `at_capacity` (`HasRoom`):
  an unbounded one always has some.
* `AnswerIsTrue`, `AcceptedIsKept`: what the two users of a oneshot channel are told
  agrees, and a message is in the slot until it is received.
* `InOrderOnce`, `GuaranteedDelivery`: a subscriber gets messages in order, none twice,
  and all those whose `send` was driven to its end since it subscribed.
  `IdTellsWhoHasIt` is the reason: comparing ids does tell who has the message.
* `SendersHaveOwner`: the sender of a reply is in one place, and when it is in none
  it was dropped, so that its receiver learns of it. `RepliesMatch`: the k-th request
  accepted is answered with k or not at all. `Answered`: who awaits a reply is told
  something, unless the request is `Stranded` (see below).

### Fairness

The executor polls a task that was woken: weak fairness of `Poll(h)` in
`Semaphore` and of `Resume(c)` in `OnceCell`. In `WaitList` it is strong fairness
of the poll of a notified future, as polls come between two borrows, and weak
fairness of `DropBorrowed`: a guard is not kept for ever. In `OnceCell` every `f`
ends, with success, an error or by being dropped; without it waiters of course
wait. The documentation's exception, a recursive call, is a case of an `f` that
does not end. `FairUseSpec` assumes that the users of the semaphore use the fair
operations, wait to be served, ask for no more than the total and give back what
they got; with `acquire_unfair`, with an unfair release or with `leak` waiters
can starve, as the documentation says.

In the channels a call is polled when its task was woken *since its last poll*
(`"tx" \in notified /\ ResumeSend`), never just because it could go on: a lost wakeup
is a violation. The users on either side do not walk away from their half
(`KeepsSending`, `KeepsReceiving`): one that has no call under way makes another or
drops its half. That is an assumption about the program that uses the channel; if a
receiver were kept and never asked, a sender would wait for ever, as the
documentation of `broadcast` says of slow receivers. In `RequestReply` woken calls are
polled, and the server goes on: it answers or drops what it has taken out, and asks for
the next request or hangs up. Nothing is assumed of the client, which may well keep its
half and do nothing.

## What the checks found

* **A dropped head strands the next waiter** (`SemaphoreStranded.cfg`). Two
  handles wait, the first for 2 permits, the second for 1, and one permit is
  free. The first future is dropped: `WaitInner::drop` unlinks it and nothing
  else happens. The second waits in front of a free permit until someone
  releases one. The tokens the semaphore leaves in woken futures exist to avoid
  this for futures dropped *after* they were woken (`src/src/semaphore.rs:80-82`).
  `StrandedOnlyByPromotion`, which is proved, says that it is the only way.
* **A second poll under a `Borrowed` aborts** (`WaitListRepoll.cfg`). `wait` is
  documented to panic on a borrowed list. On every poll but the first the panic
  unwinds through `WaitInner`, whose `Drop` finds the list borrowed and aborts.
* **A waker that takes permits has them doubled** (`SemaphoreReentrant.cfg`).
  `release_permits` keeps the available permits in a local variable and, when fair, writes
  it back after each `wake_one`. A waker that calls `try_acquire_unfair` from
  within `wake_one` lowers the cell, and the next round overwrites it. Such a waker is
  unusual (it runs code of the program where others put a task on a list), but the
  crate bars it nowhere: the flag of the wait list stops every other call.

Seen while reading, without a run:

* Of `broadcast`: `try_send` without subscribers returns `Ok(0)`, though the
  documentation of `UnderCapacity` lists the case among its reasons; and `send` returns the
  number of subscribers that have the message when its last poll runs, so that one
  which an earlier poll reached, and which left while the send waited for another, is
  missing from "the number it reached".
* `acquire_unfair` may take permits past the queue on its first poll only. Once parked it
  waits in the same queue, and behind a head that asks for more than there is.
* A oneshot sender that is a message in an spsc channel stays in its buffer when the
  spsc receiver is dropped, until the spsc sender is dropped too (`Stranded` in
  `RequestReply`). Who awaits the answer waits that long.
* The text of `spsc`'s `SendError` is "channel disconnected" (`src/src/spsc.rs:25`), and
  `try_send` returns it for a full channel too.
* The comment of `BroadRc::get_mut_unchecked` says its flag tells that there are *no*
  weak references; it tells that there are some, and all uses expect that.
* The comment in `bump_message_id` says receivers start with the id 0; they start with the
  id of the last message, and 0 is an id like any other.

## The proofs

Each module of proofs is about any values of the constants that satisfy the
assumptions its component names. TLC evaluates those assumptions, and checks the
same properties, in the runs above.

### The wait list

`WaitListProofs` needs only that `Nil` is none of the futures, wakers, inputs and
outputs (`NilIsNothing`). `Inv` is inductive: the run's invariants, and `WakerIsLatest`
(a node in the list carries the waker of its future's latest poll), without which
`wake_one` would not be known to wake the right task. `PointersSpellOrder` is not
inductive alone: a node enqueued twice, or dequeued from where it does not stand,
would break it, and that neither happens is `OnlyLiveNodesLinked`. The work is in two
lemmas that follow every pointer through the list, `EnqueueSpells` and `DequeueSpells`;
in the second, a node at position `p` of `n` is removed, and the cases are whether
it, or the pointer in question, is at the front, at the end, or next to it.

* `WaitListTypeOK`, `WaitListPointers`, `WaitListLinked`, `WaitListUnion`,
  `WaitListWakers`: the invariants of the run.
* `WaitListDequeueAsserts`: the `debug_assert`s of `dequeue`, which follow.
* `WaitListImplementsQueue`: every step of the list is one of `WaitQueue` or changes
  nothing there. `Semaphore` and `OnceCell` are modelled over that queue, so this is
  what entitles them to it.

### The semaphore

`SemaphoreProofs` is for every set of handles, every `usize` and every set of
amounts (`HandlesFinite`, `MaxUsizeIsNat`, `InitPermitsIsUsize`, `AmountsAreUsize`). Its last
part is about `SemaphoreLoop`.

* `SemaphoreTypeOK`, `SemaphoreQueue`, `SemaphoreConservation`: the invariants. `TypeOK`
  is inductive; `QueueIsParked` (the queue holds the parked handles, each once) is
  relative to it; `Conservation` is relative to
  both, because a release moves the amounts of exactly the front of the queue
  from the permits to the holders, which needs the front to be parked and free
  of repetitions.
* `SemaphoreWakeupCovers` and `SemaphoreStranding`. `WakeupCovers` is relative to
  `TypeOK` and `QueueIsParked`. The step that carries it is the release loop: it
  stops at a waiter that the permits left over, with those offered in front of
  it, do not cover. `StrandedOnlyByPromotion` follows.
* `SemaphoreInOrder`: the action property `ServedInOrder`, relative to
  `QueueIsParked`, without which a future queued twice could be both ahead and
  behind.

* `SemaphoreLoopImplements`: `SemaphoreLoop` implements `Semaphore`, if `Nil` is none of what
  it stands in for (`NilIsNothing` of `SemaphoreLoop`). So what is proved of
  `Semaphore`, whose releases are one step, is true of the loop that the code runs,
  between operations. Its invariant `LoopUnderway` says where an operation stands: it
  began (`Began`) in the state `before` with a permit, a token or a grant dropped, a
  poll that lost, or new permits; the loop has passed the first `k` of the queue
  (`Passed`), and has `left` what they did not ask for. A round takes `k` to `k + 1`
  (`RoundKeeps`). That `Semaphore` is then told the right amounts needs `LoopNodes`: what
  a future in the queue brought there as input is what it asked for, and a grant in a
  node is of that too. The step that surprises most is `Retry`, in which a waiter that
  lost queues up after the loop: it finds the permits it found before, so that one
  step of `Semaphore` may do both.

The sums of the model are cardinalities: permit `i` of handle `h` is the pair
`<<h, i>>`, and `AmountOf(f, S)` counts the pairs of the handles in `S`. This makes
sums over a set of handles a matter of disjoint unions (`AmountUnion`,
`AmountAdd`, `AmountRemove`, `AmountMonotone`) with no recursion and so no
induction over data, which the provers could not do.

### The once cell

`OnceCellProofs` needs only that `Nil` is no caller and no value. Its `Inv` is the six
invariants of the run and `RefsMatchPhases` (a caller holds a reference exactly
when its call is over). They are proved together, since each leans on the others:
`DropBaton` hands the job to the head of the queue, which keeps `OneOwner` only if
that one waits and has no job yet (`WaitersHaveOwner`), and resets the cell only when
the queue is empty, which is what keeps `WaitersHaveOwner`; that a value is stored
over no reference (`RefsStayValid`) needs the one who stores it to find the cell
without a value and so, by `RefsMatchPhases`, without a caller that is over.

* `OnceCellTypeOK`, `OnceCellOneOwner`, `OnceCellWaiters`, `OnceCellResume`,
  `OnceCellRefs`, `OnceCellInsert`: the invariants.
* `OnceCellImplementsOnce`: the cell implements `Once`, whose `owner` is the caller
  that `OneOwner` says exists and is unique.

### The channels

`OneshotProofs` and `SpscProofs` are for any set of channels, messages and tasks, any
capacity, and any bound on the unbounded buffer that is not below it. Both rest on `CountTells` of
`Lemmas`: the count is 2 exactly while both halves are there, and 0 exactly when none
is, so that a half that reads the count learns whether the other one is left.

* `OneshotTypeOK`, `OneshotAnswer`, `OneshotAccepted`; `SpscTypeOK`: the invariants of
  the runs.
* `OneshotReceiverNotified`, `SpscReceiver`, `SpscSender`: nobody sleeps while its call
  could go on. None is inductive. The strengthening says of a suspended call whose task was
  not woken since its latest poll that the waker of that task is registered,
  and that the call can still not go on; every step that changes the second then
  finds the right waker to call.
* `SpscImplementsChannel`: every step of the code is one of `Channel` or changes nothing
  there.

`BroadcastProofs` is for any finite slab, any capacity and any number of messages, as long
as ids do not come again (`IdsDoNotComeAgain`). `Inv` adds to the invariants of the run
that ids count the calls and nothing lies in the future (`Past`), that messages are in
order also for subscribers that left (`InOrder`), that a suspended `recv` borrows a
subscriber that is in the slab, and the strengthenings of the two wakeup properties.
`PushToDelivers` and `SendDeliversKeeps` carry the proof. `send` decides by
counting: it is over when the subscribers it has just reached, with those whose id says that
they have the message, are as many as the slab holds. That this means everyone
(`AllReached`) gives `GuaranteedDelivery`, that the ids tell the truth
(`IdTellsWhoHasIt`) needs `Past`, and that a message may be put behind the others
needs that whoever does not have it has only older ones.

* `BroadcastTypeOK`, `BroadcastInOrder`, `BroadcastIds`, `BroadcastGuaranteed`,
  `BroadcastSender`: the invariants of the run.
* `BroadcastReceiver`: a suspended `recv` that could go on has had its task woken.

### The exchange

`RequestReplyProofs` is for any set of channels, any capacity and any number of
requests. It asks that the capacity is not 0 (as `spsc::channel` does), that
the unbounded buffer has room for the requests, and that `Nil` and the two answers
`None` and `Err` are neither channels, tasks nor numbers.

* `RequestsImplementSpsc`: seen from the channel of requests, every step of the exchange
  is a step of `Spsc`. So `SpscProofs` holds of it, and with it `RequestsNotified`:
  neither the server nor the client sleeps on a request that could go on. Of
  the oneshot channels the like is not true: when the buffer is freed, several
  senders are dropped in one step. `OneshotProofs` is therefore cited lemma by
  lemma, and `FreeBuffer` has a lemma of its own.
* `RequestReplyOwners`: `SendersHaveOwner`. It is inductive only together with what
  holds of the two parts: that the buffer empties when it is freed and at no
  other time is `Spsc`'s, and that a half that is dropped is not dropped again is
  `Oneshot`'s.
* `RequestReplyMatches`: `RepliesMatch`. The strengthening says where the number of an
  accepted request is: the requests in the buffer have the last numbers, in
  order, the one being served the number before them, which is the counter of the
  server; and what lies in a slot is the number of its channel.
* `RequestReplyAwaited`: a client that awaits a reply and was not woken has its waker
  registered, and the sender of the reply has an owner. What is left to liveness
  (`Answered`) is that the owner goes on.

### Only model-checked

Everything under fairness (`HeadProgress`, `NoStarvation`, `EveryoneLeavesQueue`,
`WokenResumes`, `ReceiverAnswered`, `CallsComplete`, `Answered`), which the prover
does not reach. No invariant, action property or refinement of a passing run is left to
TLC alone. The runs that expect a violation have their counterexamples.

## Plan

In the order in which the crate depends on it and the damage a mistake would do; all
of it is done.

1. `WaitList` over `WaitQueue`; `Semaphore`; `OnceCell` over `Once`.
2. Proofs of their invariants and refinements, and of the semaphore's order.
3. `BiRc` with `Oneshot` and with `Spsc` over `Channel`, and the proofs of their
   invariants and of the refinement.
4. `BroadRc` with `Broadcast`, and the proofs of its invariants.
5. The release loop of the semaphore, round by round over `WaitQueue`, shown to
   implement `Semaphore`.
6. The request and reply exchange of `src/tests/oneshot.rs`.

`ImplementsSemaphore`, checked with step 5, is also proved for all constants
(`SemaphoreLoopImplements`).

## Not modelled

Formatting, errors' texts (but for the one finding), `Debug`, comparison and cloning
of a cell, `no_std` and feature flags; memory layout and aliasing below the level
of "this node is live"; panicking wakers and a panicking `Clone` of a broadcast
message; forgotten futures. The capacity of a `VecDeque` is the constant
`Capacity`; for zero-sized messages it is `usize::MAX`, a channel with a very
large `Capacity`. The counts of `BroadRc` do not reach `usize::MAX`, where
`checked_increment` aborts. The lock in the documentation of the wait list is an example in
a comment and no part of the crate; `WaitList` and `SemaphoreLoop` model what it is
made of. Of the tests only the exchange of requests and replies composes
parts; the others, and the benchmarks, drive one part each, whose module lets any user
do what they do.
