--------------------------- MODULE MCBumpAllocator --------------------------
(* Instance of BumpAllocator for TLC: layouts that pad, that fill the heap *)
(* to the byte, that miss it by one, and that are near isize::MAX.         *)
EXTENDS BumpAllocator

SomeLayouts == [size : {1, 3}, align : {1, 2, 4}] \union
  {[size |-> 6, align |-> 1], [size |-> 8, align |-> 8],
   [size |-> 16, align |-> 16], [size |-> 31, align |-> 1]}
=============================================================================
