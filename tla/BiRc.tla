--------------------------------- MODULE BiRc ---------------------------------
(***************************************************************************)
(* The reference count of src/src/bi_rc.rs, shared by the two halves of a  *)
(* channel.  There is no `clone`: it starts at two and only goes down.     *)
(* `Spsc` and `Oneshot` keep the counts, this module says what they mean.  *)
(***************************************************************************)
EXTENDS Naturals

New == 2

(* The flag that get_mut_unchecked returns with the value.                 *)
BothPresent(count) == count = 2

(* Drop for BiRc; the last one frees the value.                            *)
Dropped(count) == count - 1
DropFrees(count) == count = 1
=============================================================================
