------------------------------- MODULE OnceCell -------------------------------
(***************************************************************************)
(* The once cell of src/src/once_cell.rs over the queue its wait list      *)
(* implements (`WaitQueue`).  A caller is one call of `get_or_init`,       *)
(* `get_or_try_init` or `insert`, and then the reference it returned.      *)
(*                                                                         *)
(* The closure `f` of a call may be suspended for as long as it likes, and *)
(* end with a value, an error or a panic; that of `insert` is never        *)
(* suspended and never fails.                                              *)
(***************************************************************************)
EXTENDS Naturals, Sequences, FiniteSets

CONSTANTS Callers, Values, Nil

ASSUME NilIsNothing == Nil \notin Callers \cup Values

VARIABLES
    state,     \* OnceCell::state
    value,     \* the value of State::Initialized, Nil in the other states
    queue,     \* OnceCell::waiters, oldest first
    phase,     \* how far each caller has come, see Phases
    offer,     \* the value an `insert` call brings along, Nil in other calls
    ref        \* the &T a caller holds: the value behind it when it returned

vars == <<state, value, queue, phase, offer, ref>>

(***************************************************************************)
(* idle     no call under way                                              *)
(* waiting  suspended in `waiters.wait`                                    *)
(* baton    off the queue with a Baton, not polled yet                     *)
(* running  its `f` runs under a Guard                                     *)
(* inserted, returned   the call is over and the caller holds the &T: of   *)
(*          the value its own `insert` stored, or of any other             *)
(***************************************************************************)
Phases == {"idle", "waiting", "baton", "running", "inserted", "returned"}
States == {"Uninit", "Initializing", "Initialized"}

TypeOK == /\ state \in States
          /\ value \in Values \cup {Nil}
          /\ value # Nil <=> state = "Initialized"
          /\ queue \in Seq(Callers)
          /\ phase \in [Callers -> Phases]
          /\ offer \in [Callers -> Values \cup {Nil}]
          /\ ref \in [Callers -> Values \cup {Nil}]

(* OnceCell::new, and From<T>.                                             *)
Init == /\ value \in Values \cup {Nil}
        /\ state = IF value = Nil THEN "Uninit" ELSE "Initialized"
        /\ queue = << >>
        /\ phase = [c \in Callers |-> "idle"]
        /\ offer = [c \in Callers |-> Nil]
        /\ ref = [c \in Callers |-> Nil]

Become(c, p) == [phase EXCEPT ![c] = p]

-----------------------------------------------------------------------------
(* The call is over and returns a reference to v.                          *)
Return(c, v) == /\ ref' = [ref EXCEPT ![c] = v]
                   /\ offer' = [offer EXCEPT ![c] = Nil]

(* Mutant: the callers that wait are not woken.                            *)
Complete_WakesNobody(c, p, v) == /\ state' = "Initialized"
                                 /\ value' = v
                                 /\ phase' = Become(c, p)
                                 /\ Return(c, v)
                                 /\ UNCHANGED queue

(* The value is there: it is stored, the guard forgotten, and everyone who *)
(* waits is woken, with a baton that means nothing any more.               *)
Complete(c, p, v) ==
    /\ state' = "Initialized"
    /\ value' = v
    /\ queue' = << >>
    /\ phase' = [d \in Callers |-> IF d = c THEN p
                                   ELSE IF phase[d] = "waiting" THEN "baton"
                                   ELSE phase[d]]
    /\ Return(c, v)

(* Mutants: the cell is reset whoever waits; the cell is reset although    *)
(* the job was handed on.                                                  *)
DropBaton_ForgetsQueue(c, p) ==
    /\ phase' = Become(c, p)
    /\ state' = IF state = "Initializing" THEN "Uninit" ELSE state
    /\ offer' = [offer EXCEPT ![c] = Nil]
    /\ UNCHANGED <<value, queue, ref>>
DropBaton_AlwaysResets(c, p) ==
    /\ IF state = "Initializing" /\ queue # << >>
         THEN /\ phase' = [Become(c, p) EXCEPT ![Head(queue)] = "baton"]
              /\ queue' = Tail(queue)
         ELSE phase' = Become(c, p) /\ UNCHANGED queue
    /\ state' = IF state = "Initializing" THEN "Uninit" ELSE state
    /\ offer' = [offer EXCEPT ![c] = Nil]
    /\ UNCHANGED <<value, ref>>

(* Drop for Baton, of a caller that goes to phase p: the job goes to the   *)
(* oldest waiter, or the cell is reset; unless it is initialized.          *)
DropBaton(c, p) ==
    /\ IF state = "Initializing" /\ queue # << >>
         THEN /\ phase' = [Become(c, p) EXCEPT ![Head(queue)] = "baton"]
              /\ queue' = Tail(queue)
              /\ UNCHANGED state
         ELSE /\ phase' = Become(c, p)
              /\ state' = IF state = "Initializing" THEN "Uninit" ELSE state
              /\ UNCHANGED queue
    /\ offer' = [offer EXCEPT ![c] = Nil]
    /\ UNCHANGED <<value, ref>>

(* The job of initializing falls to c: `f` is called.  That of an `insert` *)
(* returns its value on the spot.                                          *)
TakeJob(c, o) == IF o = Nil
                   THEN /\ state' = "Initializing"
                        /\ phase' = Become(c, "running")
                        /\ offer' = [offer EXCEPT ![c] = o]
                        /\ UNCHANGED <<value, queue, ref>>
                   ELSE Complete(c, "inserted", o)

(* The first poll of get_or_try_init, called by `insert(o)` or with an `f` *)
(* of the user's.                                                          *)
Enter(c, o) ==
    /\ phase[c] = "idle"
    /\ \/ /\ state = "Uninit"
          /\ TakeJob(c, o)
       \/ /\ state = "Initializing"
          /\ phase' = Become(c, "waiting")
          /\ queue' = Append(queue, c)
          /\ offer' = [offer EXCEPT ![c] = o]
          /\ UNCHANGED <<state, value, ref>>
       \/ /\ state = "Initialized"
          /\ phase' = Become(c, "returned")
          /\ Return(c, value)
          /\ UNCHANGED <<state, value, queue>>

(* Mutant: a woken caller takes the job without a look at the cell.        *)
Resume_IgnoresState(c) == phase[c] = "baton" /\ TakeJob(c, offer[c])

(* The poll after `waiters.wait`: on a cell that is still being            *)
(* initialized the caller has been handed the job.  The third arm of the   *)
(* match, Uninit, is marked unreachable and does not occur here.           *)
Resume(c) ==
    /\ phase[c] = "baton"
    /\ \/ /\ state = "Initializing"
          /\ TakeJob(c, offer[c])
       \/ /\ state = "Initialized"
          /\ phase' = Become(c, "returned")
          /\ Return(c, value)
          /\ UNCHANGED <<state, value, queue>>

(* `f` returns a value.                                                    *)
Succeed(c, v) == /\ phase[c] = "running"
                 /\ Complete(c, "returned", v)

(* `f` returns an error or panics, or the call is dropped while it runs:   *)
(* the Guard drops a Baton.                                                *)
Fail(c) == phase[c] = "running" /\ DropBaton(c, "idle")

(* Mutant: a Baton has no Drop.                                            *)
CancelBaton_LosesJob(c) == /\ phase[c] = "baton"
                           /\ phase' = Become(c, "idle")
                           /\ offer' = [offer EXCEPT ![c] = Nil]
                           /\ UNCHANGED <<state, value, queue, ref>>

(* The call is dropped when it was handed a baton and has not resumed.     *)
CancelBaton(c) == phase[c] = "baton" /\ DropBaton(c, "idle")

(* The call is dropped while it waits: Drop for WaitInner dequeues it.     *)
CancelWaiting(c) ==
    \E i \in 1..Len(queue) :
        /\ queue[i] = c
        /\ queue' = SubSeq(queue, 1, i - 1) \o SubSeq(queue, i + 1, Len(queue))
        /\ phase' = Become(c, "idle")
        /\ offer' = [offer EXCEPT ![c] = Nil]
        /\ UNCHANGED <<state, value, ref>>

(* The caller is done with the reference.                                  *)
DropRef(c) == /\ phase[c] \in {"inserted", "returned"}
              /\ phase' = Become(c, "idle")
              /\ ref' = [ref EXCEPT ![c] = Nil]
              /\ UNCHANGED <<state, value, queue, offer>>

(* Mutants: set replaces a value; set does not respect an initialization   *)
(* under way.                                                              *)
Set_Overwrites(v) == /\ state # "Initializing"
                     /\ state' = "Initialized"
                     /\ value' = v
                     /\ UNCHANGED <<queue, phase, offer, ref>>
Set_Intrudes(v) == /\ state # "Initialized"
                   /\ state' = "Initialized"
                   /\ value' = v
                   /\ UNCHANGED <<queue, phase, offer, ref>>

(* set(v) that succeeds; in the other states it gives v back.              *)
Set(v) == /\ state = "Uninit"
          /\ state' = "Initialized"
          /\ value' = v
          /\ UNCHANGED <<queue, phase, offer, ref>>

(* Mutant: take moves the value out and leaves the state as it was.        *)
Take_KeepsState == /\ \A c \in Callers : phase[c] = "idle"
                   /\ value' = Nil
                   /\ queue' = << >>
                   /\ UNCHANGED <<state, phase, offer, ref>>

(* take and into_inner need the cell for themselves: the borrow checker    *)
(* lets no call or reference be left.                                      *)
Take == /\ \A c \in Callers : phase[c] = "idle"
        /\ state' = "Uninit"
        /\ value' = Nil
        /\ queue' = << >>
        /\ UNCHANGED <<phase, offer, ref>>

Next == \/ \E c \in Callers :
              \/ \E o \in Values \cup {Nil} : Enter(c, o)
              \/ \E v \in Values : Succeed(c, v)
              \/ Resume(c) \/ Fail(c) \/ DropRef(c)
              \/ CancelBaton(c) \/ CancelWaiting(c)
        \/ \E v \in Values : Set(v)
        \/ Take

Spec == Init /\ [][Next]_vars

(* The executor polls the futures that were woken, and every `f` comes to  *)
(* an end, if only by being dropped.                                       *)
Fairness == \A c \in Callers :
               /\ WF_vars(Resume(c))
               /\ WF_vars(Fail(c) \/ \E v \in Values : Succeed(c, v))

FairSpec == Spec /\ Fairness

-----------------------------------------------------------------------------
(***************************************************************************)
(* Correctness.                                                            *)
(***************************************************************************)

(* The job of initializing is c's.                                         *)
Owns(c) == \/ phase[c] = "running"
           \/ phase[c] = "baton" /\ state = "Initializing"

(* While the cell is Initializing exactly one caller has the job, however  *)
(* often it is handed on; else nobody does.                                *)
OneOwner == /\ \A c, d \in Callers : Owns(c) /\ Owns(d) => c = d
            /\ (\E c \in Callers : Owns(c)) <=> state = "Initializing"

(* Callers wait only for a job somebody has, and each in one place.        *)
WaitersHaveOwner ==
    /\ queue # << >> => state = "Initializing"
    /\ \A i, j \in 1..Len(queue) : queue[i] = queue[j] => i = j
    /\ \A c \in Callers : phase[c] = "waiting" <=> \E i \in 1..Len(queue) : queue[i] = c

(* "Initializing only resets to Uninit when there are no waiters": a woken *)
(* caller finds the cell Initializing or Initialized, and the unreachable!()*)
(* in get_or_try_init is.                                                  *)
ResumeReachable == \A c \in Callers : phase[c] = "baton" => state # "Uninit"

(* The value behind a reference stays in the cell for as long as the       *)
(* reference lives: nothing is stored over it.                             *)
RefsStayValid == \A c \in Callers : ref[c] # Nil => ref[c] = value

(* Of the `insert` calls that met, one stored its value.                   *)
OneInsertWins == \A c, d \in Callers :
                    phase[c] = "inserted" /\ phase[d] = "inserted" => c = d

(* A call does not wait for ever: the job reaches it, or a value does.     *)
EveryoneLeavesQueue == \A c \in Callers : phase[c] = "waiting" ~> phase[c] # "waiting"

(* The cell stores a value once, and the job has one owner at a time.      *)
OnceOf == INSTANCE Once WITH
    owner <- IF state = "Initializing" THEN CHOOSE c \in Callers : Owns(c) ELSE Nil

ImplementsOnce == OnceOf!Spec
=============================================================================
