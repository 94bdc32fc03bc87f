---------------------------- MODULE MCOrderedMap ----------------------------
(***************************************************************************)
(* A small instance of OrderedMap for TLC: three keys, so that an erase can *)
(* come before, at and after a position, and one value.  The keys are      *)
(* interchangeable: every list of two pairs with distinct keys is there.   *)
(***************************************************************************)
EXTENDS OrderedMap

MCLists == {l \in [1 .. 2 -> Key \X Val] : l[1][1] # l[2][1]}
KeySymmetry == Permutations(Key)
=============================================================================
