------------------------------ MODULE MCFields ------------------------------
(* Slots of four bytes, fields of every width, composites of two and three *)
(* slots, with no attribute, pinned from slot 0 to 2 or at two raw keys.    *)
EXTENDS Fields, TLC

AllTypes == [bytes : 1..Width, slots : {1}] \union [bytes : {Width}, slots : {2, 3}]

Keys == Permutations(RawKeys)
=============================================================================
