-------------------------------- MODULE BroadRc --------------------------------
(***************************************************************************)
(* The reference counts of src/src/broad_rc.rs: one strong reference, the  *)
(* sender's, and a weak one for every subscriber.  `Broadcast` keeps the   *)
(* counts, this module says what they mean.                                *)
(***************************************************************************)
EXTENDS Naturals

New == [strong |-> 1, weak |-> 0]

(* BroadRc::weak, and the drops of either kind.                            *)
Weak(rc) == [rc EXCEPT !.weak = @ + 1]
StrongDropped(rc) == [rc EXCEPT !.strong = @ - 1]
WeakDropped(rc) == [rc EXCEPT !.weak = @ - 1]

(* The flags that get_mut_unchecked returns to the sender and to a         *)
(* subscriber.                                                             *)
AnyWeak(rc) == rc.weak # 0
AnyStrong(rc) == rc.strong # 0

(* try_dealloc frees the value.                                            *)
Deallocates(rc) == rc.weak + rc.strong = 0
=============================================================================
