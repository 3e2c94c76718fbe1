--------------------------------- MODULE Once ---------------------------------
(***************************************************************************)
(* What a once cell promises, apart from who waits for whom: a value that  *)
(* is stored once, and before that at most one caller at a time that has   *)
(* the job of computing it.  `OnceCell` implements it.                     *)
(***************************************************************************)
CONSTANTS Callers, Values, Nil

VARIABLES owner,   \* the caller whose job it is to initialize, or Nil
          value    \* the value stored, or Nil

vars == <<owner, value>>

Init == /\ owner = Nil
        /\ value \in Values \cup {Nil}

(* The job goes to c when no one has it.                                   *)
Claim(c) == /\ owner = Nil /\ value = Nil
            /\ owner' = c
            /\ UNCHANGED value

(* Its owner gives it up, to another caller or to nobody.                  *)
HandOver(to) == /\ owner # Nil
                /\ owner' = to
                /\ UNCHANGED value

(* Its owner stores the value.                                             *)
Store(v) == /\ owner # Nil
            /\ owner' = Nil
            /\ value' = v

(* A value is stored in a cell nobody is initializing.                     *)
Put(v) == /\ owner = Nil /\ value = Nil
          /\ value' = v
          /\ UNCHANGED owner

(* The owner of the cell itself takes the value out.                       *)
Take == /\ owner = Nil
        /\ value' = Nil
        /\ UNCHANGED owner

Next == \/ \E c \in Callers : Claim(c)
        \/ \E c \in Callers \cup {Nil} : HandOver(c)
        \/ \E v \in Values : Store(v) \/ Put(v)
        \/ Take

Spec == Init /\ [][Next]_vars
=============================================================================
