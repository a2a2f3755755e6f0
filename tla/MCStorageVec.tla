---------------------------- MODULE MCStorageVec ----------------------------
(* The two ways an element meets its slots: two elements share one, or one  *)
(* element spans two.                                                       *)
EXTENDS StorageVec

Packed == {[per_slot |-> 2, slots |-> 1]}
PackedAndSpread == Packed \union {[per_slot |-> 1, slots |-> 2]}
=============================================================================
