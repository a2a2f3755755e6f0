---------------------------- MODULE MCExtrinsics ----------------------------
(* Two commands that meet: every kind, each choice of the limit options, and *)
(* the pairs that change what the other one needs.                           *)
EXTENDS Extrinsics

CONSTANTS c1, c2

Asked(kind, gas, deposit) ==
  [kind |-> kind, gas |-> gas, deposit |-> deposit, reverts |-> FALSE]
Free(kind) == Asked(kind, NoLimit, NoLimit)
Pair(p, q) == [c \in Commands |-> IF c = c1 THEN p ELSE q]

Pairs ==
  {Pair(Free("call"), p) : p \in
     {Free("call"), Asked("call", 1, NoLimit), Asked("call", NoLimit, 1), Asked("call", 1, 1),
      [Free("instantiate") EXCEPT !.reverts = TRUE]}} \union
  {Pair(Free("upload"), Free("remove")), Pair(Free("upload"), Asked("upload", NoLimit, 0)),
   Pair(Free("map_account"), Free("map_account"))}
=============================================================================
