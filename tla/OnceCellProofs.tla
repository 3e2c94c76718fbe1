---------------------------- MODULE OnceCellProofs ----------------------------
(***************************************************************************)
(* Theorems about `OnceCell`, for any set of callers and values.           *)
(***************************************************************************)
EXTENDS OnceCell, Lemmas

(* A call that is over, and no other, holds a reference.                   *)
Over == {"inserted", "returned"}
RefsMatchPhases == \A c \in Callers : ref[c] # Nil <=> phase[c] \in Over

(***************************************************************************)
(* The inductive invariant.  Its parts lean on each other: that no second  *)
(* job arises from a drop needs the head of the queue to be waiting, that  *)
(* nobody is stranded by a reset needs the drop to see the whole queue,    *)
(* and that a value is stored over no reference needs the job's owner to   *)
(* be the only one, in a cell without a value.                             *)
(***************************************************************************)
Inv == /\ TypeOK
       /\ OneOwner
       /\ WaitersHaveOwner
       /\ ResumeReachable
       /\ RefsMatchPhases
       /\ RefsStayValid
       /\ OneInsertWins

(* WaitersHaveOwner, in the words of Lemmas.                               *)
LEMMA WaitersInQueue ==
    WaitersHaveOwner <=> /\ queue # << >> => state = "Initializing"
                         /\ NoTwice(queue)
                         /\ \A c \in Callers : phase[c] = "waiting" <=> Holds(queue, c)
BY DEF WaitersHaveOwner, NoTwice, Holds

(* Only the one who has the job can be running, and while nobody has it    *)
(* no value is missed by anyone: the cell has none and nobody refers to it.*)
LEMMA NoValueNoRefs ==
    ASSUME Inv, state # "Initialized"
    PROVE  /\ value = Nil
           /\ \A c \in Callers : ref[c] = Nil /\ phase[c] \notin Over
BY DEF Inv, TypeOK, RefsStayValid, RefsMatchPhases

LEMMA InitInv == Init => Inv
<1> SUFFICES ASSUME Init PROVE Inv
  OBVIOUS
<1>1. TypeOK
  BY NilIsNothing, EmptySeq DEF Init, TypeOK, Phases, States
<1>2. OneOwner
  BY DEF Init, OneOwner, Owns
<1>3. WaitersHaveOwner
  <2>1. Len(queue) = 0
    BY DEF Init
  <2> QED
    BY <2>1 DEF Init, WaitersHaveOwner
<1>4. ResumeReachable /\ RefsMatchPhases /\ RefsStayValid /\ OneInsertWins
  BY DEF Init, ResumeReachable, RefsMatchPhases, RefsStayValid, OneInsertWins, Over
<1> QED
  BY <1>1, <1>2, <1>3, <1>4 DEF Inv

(* The end of an initialization, by the one who has the job, if any one.   *)
LEMMA CompleteKeeps ==
    ASSUME Inv, state # "Initialized",
           NEW c \in Callers, NEW p \in Over, NEW v \in Values,
           \A d \in Callers : Owns(d) => d = c,
           Complete(c, p, v)
    PROVE  Inv'
<1>1. v # Nil
  BY NilIsNothing
<1>2. /\ state' = "Initialized" /\ value' = v /\ queue' = << >>
      /\ phase' \in [Callers -> Phases]
      /\ \A d \in Callers : phase'[d] = IF d = c THEN p
                                        ELSE IF phase[d] = "waiting" THEN "baton"
                                        ELSE phase[d]
      /\ ref' \in [Callers -> Values \cup {Nil}]
      /\ \A d \in Callers : ref'[d] = IF d = c THEN v ELSE ref[d]
      /\ offer' \in [Callers -> Values \cup {Nil}]
  BY DEF Complete, Return, Inv, TypeOK, Phases, Over
<1>3. TypeOK'
  BY <1>1, <1>2, EmptySeq DEF TypeOK, States
<1>4. OneOwner'
  <2>1. ASSUME NEW d \in Callers, phase'[d] = "running"
        PROVE  FALSE
    <3>1. d # c /\ phase[d] = "running"
      BY <2>1, <1>2 DEF Over
    <3> QED
      BY <3>1 DEF Owns
  <2> QED
    BY <2>1, <1>2 DEF OneOwner, Owns
<1>5. WaitersHaveOwner'
  <2>1. Len(queue') = 0
    BY <1>2
  <2>2. \A d \in Callers : phase'[d] # "waiting"
    BY <1>2 DEF Over
  <2> QED
    BY <1>2, <2>1, <2>2 DEF WaitersHaveOwner
<1>6. ResumeReachable'
  BY <1>2 DEF ResumeReachable
<1>7. \A d \in Callers : ref[d] = Nil /\ phase[d] \notin Over
  BY NoValueNoRefs
<1>8. RefsMatchPhases' /\ RefsStayValid' /\ OneInsertWins'
  BY <1>1, <1>2, <1>7 DEF RefsMatchPhases, RefsStayValid, OneInsertWins, Over
<1> QED
  BY <1>3, <1>4, <1>5, <1>6, <1>8 DEF Inv

(* The baton of a caller that leaves goes on or comes to rest.             *)
LEMMA DropBatonKeeps ==
    ASSUME Inv, NEW c \in Callers, phase[c] \in {"running", "baton"},
           DropBaton(c, "idle")
    PROVE  Inv'
<1>1. /\ value' = value /\ ref' = ref
      /\ offer' \in [Callers -> Values \cup {Nil}]
  BY DEF DropBaton, Inv, TypeOK
<1>2. state \in {"Initializing", "Initialized"}
  BY DEF Inv, TypeOK, States, OneOwner, Owns, ResumeReachable
<1>3. phase[c] = "running" \/ state = "Initializing" => Owns(c)
  BY DEF Owns
<1>4. state = "Initializing" => \A d \in Callers : Owns(d) => d = c
  BY <1>3 DEF Inv, OneOwner
<1>w. /\ NoTwice(queue) /\ queue \in Seq(Callers)
      /\ \A d \in Callers : phase[d] = "waiting" <=> Holds(queue, d)
      /\ queue # << >> => state = "Initializing"
  BY WaitersInQueue DEF Inv, TypeOK
<1>5. CASE state = "Initializing" /\ queue # << >>
  <2> DEFINE h == Head(queue)
  <2>1. /\ h \in Callers /\ phase[h] = "waiting"
        /\ queue' = Tail(queue) /\ queue' \in Seq(Callers)
        /\ NoTwice(queue')
        /\ \A e : Holds(queue', e) <=> Holds(queue, e) /\ e # h
    <3>1. queue' = Tail(queue)
      BY <1>5 DEF DropBaton
    <3>2. /\ h \in Callers /\ Holds(queue, h)
          /\ Tail(queue) \in Seq(Callers) /\ NoTwice(Tail(queue))
          /\ \A e : Holds(Tail(queue), e) <=> Holds(queue, e) /\ e # h
      BY <1>5, <1>w, TailHolds
    <3> HIDE DEF h
    <3> QED
      BY <3>1, <3>2, <1>w
  <2> HIDE DEF h
  <2>2. h # c
    BY <2>1
  <2>3. /\ state' = state
        /\ phase' \in [Callers -> Phases]
        /\ \A d \in Callers : phase'[d] = IF d = h THEN "baton"
                                          ELSE IF d = c THEN "idle"
                                          ELSE phase[d]
    BY <1>5, <2>1 DEF DropBaton, Become, Inv, TypeOK, Phases, h
  <2>4. TypeOK'
    BY <1>1, <2>1, <2>3 DEF Inv, TypeOK
  <2>5. \A d \in Callers : Owns(d)' <=> d = h
    BY <1>4, <1>5, <2>1, <2>2, <2>3 DEF Owns
  <2>6. OneOwner'
    BY <1>5, <2>1, <2>3, <2>5 DEF OneOwner
  <2>7. WaitersHaveOwner'
    <3>1. \A d \in Callers : phase'[d] = "waiting" <=> Holds(queue', d)
      BY <1>w, <2>1, <2>3
    <3> QED
      BY <1>5, <2>1, <2>3, <3>1 DEF WaitersHaveOwner, NoTwice, Holds
  <2>8. ResumeReachable'
    BY <1>5, <2>3 DEF ResumeReachable
  <2>9. RefsMatchPhases' /\ RefsStayValid' /\ OneInsertWins'
    BY <1>1, <2>1, <2>3
       DEF Inv, RefsMatchPhases, RefsStayValid, OneInsertWins, Over
  <2> QED
    BY <2>4, <2>6, <2>7, <2>8, <2>9 DEF Inv
<1>6. CASE ~(state = "Initializing" /\ queue # << >>)
  <2>1. /\ queue' = queue /\ queue = << >>
        /\ state' = IF state = "Initializing" THEN "Uninit" ELSE state
        /\ phase' \in [Callers -> Phases]
        /\ \A d \in Callers : phase'[d] = IF d = c THEN "idle" ELSE phase[d]
    BY <1>6, <1>w DEF DropBaton, Become, Inv, TypeOK, Phases
  <2>2. TypeOK'
    BY <1>1, <1>2, <2>1 DEF Inv, TypeOK, States
  <2>3. \A d \in Callers : ~Owns(d)'
    BY <1>2, <1>4, <2>1 DEF Owns, Inv, OneOwner
  <2>4. OneOwner'
    BY <1>2, <2>1, <2>3 DEF OneOwner
  <2>5. WaitersHaveOwner'
    BY <2>1 DEF Inv, WaitersHaveOwner
  <2>6. ResumeReachable'
    BY <1>2, <1>4, <2>1 DEF ResumeReachable, Owns
  <2>7. RefsMatchPhases' /\ RefsStayValid' /\ OneInsertWins'
    BY <1>1, <2>1 DEF Inv, RefsMatchPhases, RefsStayValid, OneInsertWins, Over
  <2> QED
    BY <2>2, <2>4, <2>5, <2>6, <2>7 DEF Inv
<1> QED
  BY <1>5, <1>6

(* A caller takes the job, if nobody else has it.                          *)
LEMMA TakeJobKeeps ==
    ASSUME Inv, state # "Initialized",
           NEW c \in Callers, NEW o \in Values \cup {Nil},
           phase[c] \in {"idle", "baton"},
           \A d \in Callers : Owns(d) => d = c,
           TakeJob(c, o)
    PROVE  Inv'
<1>1. CASE o # Nil
  <2>1. Complete(c, "inserted", o) /\ o \in Values
    BY <1>1 DEF TakeJob
  <2> QED
    BY <2>1, CompleteKeeps DEF Over
<1>2. CASE o = Nil
  <2>1. /\ state' = "Initializing"
        /\ UNCHANGED <<value, queue, ref>>
        /\ phase' \in [Callers -> Phases]
        /\ \A d \in Callers : phase'[d] = IF d = c THEN "running" ELSE phase[d]
        /\ offer' \in [Callers -> Values \cup {Nil}]
    BY <1>2 DEF TakeJob, Become, Inv, TypeOK, Phases
  <2>2. TypeOK'
    BY <2>1, NoValueNoRefs DEF Inv, TypeOK, States
  <2>3. \A d \in Callers : Owns(d)' <=> d = c
    <3>1. \A d \in Callers : phase[d] = "baton" => state = "Initializing"
      BY DEF Inv, ResumeReachable, TypeOK, States
    <3> QED
      BY <2>1, <3>1 DEF Owns
  <2>4. OneOwner'
    BY <2>1, <2>3 DEF OneOwner
  <2>5. WaitersHaveOwner'
    BY <2>1 DEF Inv, WaitersHaveOwner
  <2>6. ResumeReachable'
    BY <2>1 DEF ResumeReachable
  <2>7. RefsMatchPhases' /\ RefsStayValid' /\ OneInsertWins'
    BY <2>1 DEF Inv, RefsMatchPhases, RefsStayValid, OneInsertWins, Over
  <2> QED
    BY <2>2, <2>4, <2>5, <2>6, <2>7 DEF Inv
<1> QED
  BY <1>1, <1>2

(* A call that finds the value returns it.                                 *)
LEMMA ReturnKeeps ==
    ASSUME Inv, state = "Initialized", NEW c \in Callers,
           phase[c] \in {"idle", "baton"},
           phase' = Become(c, "returned"), Return(c, value),
           UNCHANGED <<state, value, queue>>
    PROVE  Inv'
<1>1. /\ phase' \in [Callers -> Phases]
      /\ \A d \in Callers : phase'[d] = IF d = c THEN "returned" ELSE phase[d]
      /\ ref' \in [Callers -> Values \cup {Nil}]
      /\ \A d \in Callers : ref'[d] = IF d = c THEN value ELSE ref[d]
      /\ offer' \in [Callers -> Values \cup {Nil}]
  BY DEF Become, Return, Inv, TypeOK, Phases
<1>2. TypeOK'
  BY <1>1 DEF Inv, TypeOK
<1>3. OneOwner'
  BY <1>1 DEF Inv, OneOwner, Owns
<1>4. WaitersHaveOwner' /\ ResumeReachable'
  BY <1>1 DEF Inv, WaitersHaveOwner, ResumeReachable
<1>5. RefsMatchPhases' /\ RefsStayValid' /\ OneInsertWins'
  BY <1>1 DEF Inv, TypeOK, RefsMatchPhases, RefsStayValid, OneInsertWins, Over
<1> QED
  BY <1>2, <1>3, <1>4, <1>5 DEF Inv

(* A newcomer waits behind the others.                                     *)
LEMMA JoinKeeps ==
    ASSUME Inv, state = "Initializing", NEW c \in Callers, phase[c] = "idle",
           NEW o \in Values \cup {Nil},
           phase' = Become(c, "waiting"), queue' = Append(queue, c),
           offer' = [offer EXCEPT ![c] = o], UNCHANGED <<state, value, ref>>
    PROVE  Inv'
<1>1. /\ phase' \in [Callers -> Phases]
      /\ \A d \in Callers : phase'[d] = IF d = c THEN "waiting" ELSE phase[d]
      /\ offer' \in [Callers -> Values \cup {Nil}]
  BY DEF Become, Inv, TypeOK, Phases
<1>2. /\ queue' \in Seq(Callers) /\ NoTwice(queue')
      /\ \A e : Holds(queue', e) <=> Holds(queue, e) \/ e = c
  BY WaitersInQueue, AppendHolds DEF Inv, TypeOK
<1>3. TypeOK'
  BY <1>1, <1>2 DEF Inv, TypeOK
<1>4. OneOwner' /\ ResumeReachable'
  BY <1>1 DEF Inv, OneOwner, Owns, ResumeReachable
<1>5. WaitersHaveOwner'
  <2>1. \A d \in Callers : phase'[d] = "waiting" <=> Holds(queue', d)
    BY <1>1, <1>2, WaitersInQueue DEF Inv
  <2> QED
    BY <1>2, <2>1 DEF WaitersHaveOwner, NoTwice, Holds
<1>6. RefsMatchPhases' /\ RefsStayValid' /\ OneInsertWins'
  BY <1>1 DEF Inv, RefsMatchPhases, RefsStayValid, OneInsertWins, Over
<1> QED
  BY <1>3, <1>4, <1>5, <1>6 DEF Inv

(* A caller that waits is dropped.                                         *)
LEMMA CancelWaitingKeeps ==
    ASSUME Inv, NEW c \in Callers, CancelWaiting(c)
    PROVE  Inv'
<1>1. PICK i \in 1..Len(queue) : /\ queue[i] = c
                                 /\ queue' = Without(queue, i)
  BY DEF CancelWaiting, Without
<1>2. /\ phase[c] = "waiting"
      /\ phase' \in [Callers -> Phases]
      /\ \A d \in Callers : phase'[d] = IF d = c THEN "idle" ELSE phase[d]
      /\ offer' \in [Callers -> Values \cup {Nil}]
      /\ UNCHANGED <<state, value, ref>>
  BY <1>1 DEF CancelWaiting, Become, Inv, TypeOK, Phases, WaitersHaveOwner
<1>3. /\ queue' \in Seq(Callers) /\ NoTwice(queue')
      /\ \A e : Holds(queue', e) <=> Holds(queue, e) /\ e # c
  BY <1>1, WaitersInQueue, WithoutElements, WithoutHolds DEF Inv, TypeOK
<1>4. TypeOK'
  BY <1>2, <1>3 DEF Inv, TypeOK
<1>5. OneOwner' /\ ResumeReachable'
  BY <1>2 DEF Inv, OneOwner, Owns, ResumeReachable
<1>6. WaitersHaveOwner'
  <2>1. \A d \in Callers : phase'[d] = "waiting" <=> Holds(queue', d)
    BY <1>2, <1>3, WaitersInQueue DEF Inv
  <2>2. queue # << >>
    BY <1>1
  <2> QED
    BY <1>2, <1>3, <2>1, <2>2 DEF Inv, WaitersHaveOwner, NoTwice, Holds
<1>7. RefsMatchPhases' /\ RefsStayValid' /\ OneInsertWins'
  BY <1>2 DEF Inv, RefsMatchPhases, RefsStayValid, OneInsertWins, Over
<1> QED
  BY <1>4, <1>5, <1>6, <1>7 DEF Inv

LEMMA InvStep == Inv /\ [Next]_vars => Inv'
<1> SUFFICES ASSUME Inv, [Next]_vars PROVE Inv'
  OBVIOUS
<1>a. TypeOK /\ OneOwner /\ ResumeReachable
  BY DEF Inv
<1>n. state = "Uninit" => \A d \in Callers : ~Owns(d)
  BY <1>a DEF OneOwner
<1>1. ASSUME NEW c \in Callers, NEW o \in Values \cup {Nil}, Enter(c, o)
      PROVE  Inv'
  <2>1. CASE state = "Uninit"
    <3>1. TakeJob(c, o) /\ phase[c] = "idle"
      BY <1>1, <2>1 DEF Enter
    <3> QED
      BY <3>1, <2>1, <1>n, TakeJobKeeps
  <2>2. CASE state = "Initializing"
    BY <1>1, <2>2, JoinKeeps DEF Enter
  <2>3. CASE state = "Initialized"
    BY <1>1, <2>3, ReturnKeeps DEF Enter
  <2> QED
    BY <1>a, <2>1, <2>2, <2>3 DEF TypeOK, States
<1>2. ASSUME NEW c \in Callers, NEW v \in Values, Succeed(c, v)
      PROVE  Inv'
  <2>1. Owns(c) /\ Complete(c, "returned", v)
    BY <1>2 DEF Succeed, Owns
  <2>2. state = "Initializing" /\ \A d \in Callers : Owns(d) => d = c
    BY <2>1, <1>a DEF OneOwner
  <2> QED
    BY <2>1, <2>2, CompleteKeeps DEF Over
<1>3. ASSUME NEW c \in Callers, Resume(c)
      PROVE  Inv'
  <2>1. phase[c] = "baton"
    BY <1>3 DEF Resume
  <2>2. CASE state = "Initializing" /\ TakeJob(c, offer[c])
    <3>1. \A d \in Callers : Owns(d) => d = c
      BY <2>1, <2>2, <1>a DEF OneOwner, Owns
    <3>2. offer[c] \in Values \cup {Nil}
      BY <1>a DEF TypeOK
    <3> QED
      BY <2>1, <2>2, <3>1, <3>2, TakeJobKeeps
  <2>3. CASE state = "Initialized"
    BY <1>3, <2>1, <2>3, ReturnKeeps DEF Resume
  <2> QED
    BY <1>3, <2>2, <2>3 DEF Resume
<1>4. ASSUME NEW c \in Callers, Fail(c) \/ CancelBaton(c)
      PROVE  Inv'
  BY <1>4, DropBatonKeeps DEF Fail, CancelBaton
<1>5. ASSUME NEW c \in Callers, CancelWaiting(c)
      PROVE  Inv'
  BY <1>5, CancelWaitingKeeps
<1>6. ASSUME NEW c \in Callers, DropRef(c)
      PROVE  Inv'
  <2>1. /\ phase[c] \in Over
        /\ phase' \in [Callers -> Phases]
        /\ \A d \in Callers : phase'[d] = IF d = c THEN "idle" ELSE phase[d]
        /\ ref' \in [Callers -> Values \cup {Nil}]
        /\ \A d \in Callers : ref'[d] = IF d = c THEN Nil ELSE ref[d]
        /\ UNCHANGED <<state, value, queue, offer>>
    BY <1>6, <1>a DEF DropRef, Become, TypeOK, Phases, Over
  <2>2. TypeOK'
    BY <2>1, <1>a DEF TypeOK
  <2>3. OneOwner' /\ ResumeReachable'
    BY <2>1, <1>a DEF OneOwner, Owns, ResumeReachable, Over
  <2>4. WaitersHaveOwner'
    BY <2>1 DEF Inv, WaitersHaveOwner, Over
  <2>5. RefsMatchPhases' /\ RefsStayValid' /\ OneInsertWins'
    BY <2>1 DEF Inv, RefsMatchPhases, RefsStayValid, OneInsertWins, Over
  <2> QED
    BY <2>2, <2>3, <2>4, <2>5 DEF Inv
<1>7. ASSUME NEW v \in Values, Set(v)
      PROVE  Inv'
  <2>1. /\ state = "Uninit" /\ state' = "Initialized" /\ value' = v /\ v # Nil
        /\ UNCHANGED <<queue, phase, offer, ref>>
    BY <1>7, NilIsNothing DEF Set
  <2>2. \A c \in Callers : ref[c] = Nil
    BY <2>1, NoValueNoRefs
  <2>3. TypeOK'
    BY <2>1, <1>a DEF TypeOK, States
  <2>4. OneOwner'
    BY <2>1, <1>a, <1>n DEF OneOwner, Owns
  <2>5. WaitersHaveOwner' /\ ResumeReachable'
    BY <2>1 DEF Inv, WaitersHaveOwner, ResumeReachable
  <2>6. RefsMatchPhases' /\ RefsStayValid' /\ OneInsertWins'
    BY <2>1, <2>2 DEF Inv, RefsMatchPhases, RefsStayValid, OneInsertWins
  <2> QED
    BY <2>3, <2>4, <2>5, <2>6 DEF Inv
<1>8. ASSUME Take
      PROVE  Inv'
  <2>1. /\ \A c \in Callers : phase[c] = "idle"
        /\ state' = "Uninit" /\ value' = Nil /\ queue' = << >>
        /\ UNCHANGED <<phase, offer, ref>>
    BY <1>8 DEF Take
  <2>2. TypeOK'
    BY <2>1, <1>a, EmptySeq DEF TypeOK, States
  <2>3. OneOwner' /\ ResumeReachable'
    BY <2>1 DEF OneOwner, Owns, ResumeReachable
  <2>4. WaitersHaveOwner'
    <3>1. Len(queue') = 0
      BY <2>1
    <3> QED
      BY <2>1, <3>1 DEF WaitersHaveOwner
  <2>5. RefsMatchPhases' /\ RefsStayValid' /\ OneInsertWins'
    BY <2>1 DEF Inv, RefsMatchPhases, RefsStayValid, OneInsertWins, Over
  <2> QED
    BY <2>2, <2>3, <2>4, <2>5 DEF Inv
<1>9. CASE UNCHANGED vars
  BY <1>9 DEF vars, Inv, TypeOK, OneOwner, Owns, WaitersHaveOwner, ResumeReachable,
              RefsMatchPhases, RefsStayValid, OneInsertWins
<1> QED
  BY <1>1, <1>2, <1>3, <1>4, <1>5, <1>6, <1>7, <1>8, <1>9 DEF Next

LEMMA Invariance == Spec => []Inv
BY InitInv, InvStep, PTL DEF Spec

-----------------------------------------------------------------------------
(* Every variable of the cell stays in its type, and the cell has a value  *)
(* exactly when it is Initialized.                                         *)
THEOREM OnceCellTypeOK == Spec => []TypeOK
<1>1. Inv => TypeOK
  BY DEF Inv
<1> QED
  BY <1>1, Invariance, PTL

(* However the job is handed on, dropped or completed, one caller has it   *)
(* while the cell is Initializing, and none otherwise.                     *)
THEOREM OnceCellOneOwner == Spec => []OneOwner
<1>1. Inv => OneOwner
  BY DEF Inv
<1> QED
  BY <1>1, Invariance, PTL

(* The queue holds those who wait, each once, and only while there is a    *)
(* job they can be handed.                                                 *)
THEOREM OnceCellWaiters == Spec => []WaitersHaveOwner
<1>1. Inv => WaitersHaveOwner
  BY DEF Inv
<1> QED
  BY <1>1, Invariance, PTL

(* The unreachable!() of get_or_try_init is unreachable.                   *)
THEOREM OnceCellResume == Spec => []ResumeReachable
<1>1. Inv => ResumeReachable
  BY DEF Inv
<1> QED
  BY <1>1, Invariance, PTL

(* Nothing is stored over a value that someone refers to.                  *)
THEOREM OnceCellRefs == Spec => []RefsStayValid
<1>1. Inv => RefsStayValid
  BY DEF Inv
<1> QED
  BY <1>1, Invariance, PTL

(* Of the `insert` calls that are alive together one stored its value.     *)
THEOREM OnceCellInsert == Spec => []OneInsertWins
<1>1. Inv => OneInsertWins
  BY DEF Inv
<1> QED
  BY <1>1, Invariance, PTL

-----------------------------------------------------------------------------
(***************************************************************************)
(* The cell implements `Once`.                                             *)
(***************************************************************************)
Owner == IF state = "Initializing" THEN CHOOSE c \in Callers : Owns(c) ELSE Nil

(* The owner of the specification is the caller that has the job.          *)
LEMMA OwnerIs ==
    ASSUME Inv
    PROVE  /\ state = "Initializing" => /\ Owner \in Callers /\ Owner # Nil
                                       /\ Owns(Owner)
                                       /\ \A c \in Callers : Owns(c) => c = Owner
           /\ state # "Initializing" => Owner = Nil
<1>1. CASE state = "Initializing"
  <2>1. \E c \in Callers : Owns(c)
    BY <1>1 DEF Inv, OneOwner
  <2>2. Owner \in Callers /\ Owns(Owner)
    BY <1>1, <2>1, Zenon DEF Owner
  <2> QED
    BY <1>1, <2>2, NilIsNothing DEF Inv, OneOwner
<1>2. CASE state # "Initializing"
  BY <1>2 DEF Owner
<1> QED
  BY <1>1, <1>2

(* So is the one after a step.                                             *)
LEMMA OwnerNext ==
    ASSUME Inv', state' = "Initializing"
    PROVE  Owner' \in Callers
<1>1. \E c \in Callers : Owns(c)'
  BY DEF Inv, OneOwner
<1>2. Owner' = CHOOSE c \in Callers : Owns(c)'
  BY DEF Owner
<1> QED
  BY <1>1, <1>2, Zenon

(* An initialization under way ends with a value.                          *)
LEMMA CompleteStores ==
    ASSUME Inv, Inv', state # "Initialized", NEW c \in Callers, NEW p, NEW v \in Values,
           Complete(c, p, v)
    PROVE  OnceOf!Next
<1>1. state' = "Initialized" /\ value' = v
  BY DEF Complete
<1>2. Owner' = Nil
  BY <1>1 DEF Owner
<1>3. CASE state = "Initializing"
  <2>1. OnceOf!Store(v)
    BY <1>1, <1>2, <1>3, OwnerIs DEF OnceOf!Store, Owner
  <2> QED
    BY <2>1 DEF OnceOf!Next
<1>4. CASE state = "Uninit"
  <2>1. OnceOf!Put(v)
    BY <1>1, <1>2, <1>4, OwnerIs, NoValueNoRefs DEF OnceOf!Put, Owner
  <2> QED
    BY <2>1 DEF OnceOf!Next
<1> QED
  BY <1>3, <1>4 DEF Inv, TypeOK, States

(* While one initialization is under way the job may change hands.         *)
LEMMA StillInitializing ==
    ASSUME Inv, Inv', state = "Initializing", state' = "Initializing", value' = value
    PROVE  OnceOf!Next
<1>1. Owner # Nil /\ Owner' \in Callers
  BY OwnerIs, OwnerNext
<1>2. OnceOf!HandOver(Owner')
  BY <1>1 DEF OnceOf!HandOver, Owner
<1> QED
  BY <1>1, <1>2 DEF OnceOf!Next

(* A step outside of an initialization that leaves the value alone.        *)
LEMMA NothingHappens ==
    ASSUME Inv, state # "Initializing", state' # "Initializing", value' = value
    PROVE  UNCHANGED OnceOf!vars
<1>1. Owner = Nil /\ Owner' = Nil
  BY DEF Owner
<1> QED
  BY <1>1 DEF OnceOf!vars, Owner

LEMMA TakeJobClaims ==
    ASSUME Inv, Inv', state # "Initialized", NEW c \in Callers,
           NEW o \in Values \cup {Nil}, TakeJob(c, o)
    PROVE  OnceOf!Next
<1>1. CASE o # Nil
  BY <1>1, CompleteStores DEF TakeJob
<1>2. CASE o = Nil
  <2>1. state' = "Initializing" /\ value' = value
    BY <1>2 DEF TakeJob
  <2>2. CASE state = "Initializing"
    BY <2>1, <2>2, StillInitializing
  <2>3. CASE state = "Uninit"
    <3>1. Owner' \in Callers
      BY <2>1, OwnerNext
    <3>2. OnceOf!Claim(Owner')
      BY <2>1, <2>3, OwnerIs, NoValueNoRefs DEF OnceOf!Claim, Owner
    <3> QED
      BY <3>1, <3>2 DEF OnceOf!Next
  <2> QED
    BY <2>2, <2>3 DEF Inv, TypeOK, States
<1> QED
  BY <1>1, <1>2

LEMMA DropBatonHandsOver ==
    ASSUME Inv, Inv', NEW c \in Callers, DropBaton(c, "idle")
    PROVE  [OnceOf!Next]_OnceOf!vars
<1>1. value' = value
  BY DEF DropBaton
<1>2. CASE state = "Initializing" /\ state' = "Initializing"
  BY <1>1, <1>2, StillInitializing
<1>3. CASE state = "Initializing" /\ state' = "Uninit"
  <2>1. Owner # Nil /\ Owner' = Nil
    BY <1>3, OwnerIs DEF Owner
  <2>2. OnceOf!HandOver(Nil)
    BY <1>1, <2>1 DEF OnceOf!HandOver, Owner
  <2> QED
    BY <2>2 DEF OnceOf!Next
<1>4. CASE state # "Initializing" /\ state' = state
  BY <1>1, <1>4, NothingHappens
<1> QED
  BY <1>2, <1>3, <1>4 DEF DropBaton

LEMMA OnceStep == Inv /\ Inv' /\ [Next]_vars => [OnceOf!Next]_OnceOf!vars
<1> SUFFICES ASSUME Inv, Inv', [Next]_vars PROVE [OnceOf!Next]_OnceOf!vars
  OBVIOUS
<1>a. state \in States /\ state' \in States
  BY DEF Inv, TypeOK
<1>1. ASSUME NEW c \in Callers, NEW o \in Values \cup {Nil}, Enter(c, o)
      PROVE  [OnceOf!Next]_OnceOf!vars
  <2>1. CASE state = "Uninit" /\ TakeJob(c, o)
    BY <2>1, TakeJobClaims
  <2>2. CASE state = "Initializing" /\ UNCHANGED <<state, value, ref>>
    BY <2>2, StillInitializing
  <2>3. CASE state = "Initialized" /\ UNCHANGED <<state, value, queue>>
    BY <2>3, NothingHappens
  <2> QED
    BY <1>1, <2>1, <2>2, <2>3 DEF Enter
<1>2. ASSUME NEW c \in Callers, NEW v \in Values, Succeed(c, v)
      PROVE  [OnceOf!Next]_OnceOf!vars
  <2>1. state # "Initialized" /\ Complete(c, "returned", v)
    BY <1>2 DEF Succeed, Inv, OneOwner, Owns
  <2> QED
    BY <2>1, CompleteStores
<1>3. ASSUME NEW c \in Callers, Resume(c)
      PROVE  [OnceOf!Next]_OnceOf!vars
  <2>1. CASE state = "Initializing" /\ TakeJob(c, offer[c])
    <3>1. offer[c] \in Values \cup {Nil}
      BY DEF Inv, TypeOK
    <3> QED
      BY <2>1, <3>1, TakeJobClaims
  <2>2. CASE state = "Initialized" /\ UNCHANGED <<state, value, queue>>
    BY <2>2, NothingHappens
  <2> QED
    BY <1>3, <2>1, <2>2 DEF Resume
<1>4. ASSUME NEW c \in Callers, Fail(c) \/ CancelBaton(c)
      PROVE  [OnceOf!Next]_OnceOf!vars
  BY <1>4, DropBatonHandsOver DEF Fail, CancelBaton
<1>5. ASSUME UNCHANGED <<state, value>>
      PROVE  [OnceOf!Next]_OnceOf!vars
  BY <1>5, StillInitializing, NothingHappens
<1>6. ASSUME NEW v \in Values, Set(v)
      PROVE  [OnceOf!Next]_OnceOf!vars
  <2>1. OnceOf!Put(v)
    BY <1>6, NoValueNoRefs DEF Set, OnceOf!Put
  <2> QED
    BY <2>1 DEF OnceOf!Next
<1>7. ASSUME Take
      PROVE  [OnceOf!Next]_OnceOf!vars
  <2>1. state # "Initializing"
    BY <1>7 DEF Take, Inv, OneOwner, Owns
  <2>2. OnceOf!Take
    BY <1>7, <2>1 DEF Take, OnceOf!Take
  <2> QED
    BY <2>2 DEF OnceOf!Next
<1> QED
  BY <1>1, <1>2, <1>3, <1>4, <1>5, <1>6, <1>7
     DEF Next, vars, CancelWaiting, DropRef

(* The cell stores a value once, and the job has one owner at a time: each *)
(* step of it is a step of `Once`, or one that `Once` does not see.        *)
THEOREM OnceCellImplementsOnce == Spec => ImplementsOnce
<1>1. Init => OnceOf!Init
  BY DEF Init, OnceOf!Init
<1>2. Inv /\ Inv' /\ [Next]_vars => [OnceOf!Next]_OnceOf!vars
  BY OnceStep
<1> QED
  BY <1>1, <1>2, Invariance, PTL DEF Spec, ImplementsOnce, OnceOf!Spec
=============================================================================
