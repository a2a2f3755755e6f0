-------------------------------- MODULE Tree --------------------------------
(* What a nest of storage containers promises: a tree of independent        *)
(* values, addressed by paths.  A leaf is << >> or <<v>>.  What is past the *)
(* end of a vec is there too: the entries of a mapping outlive the element  *)
(* that holds it.                                                           *)
EXTENDS StorageShape

VARIABLES
  shape,    \* the type of the root
  leaves,   \* by path
  lengths,  \* of the vecs, by path
  last      \* the last call and its answer

\* A static value of zeros is one that was never written.
Present(S, v) == IF S.kind = "static" /\ v = Blank(S) THEN << >> ELSE <<v>>
Value(S, leaf) == IF leaf = << >> THEN Blank(S) ELSE leaf[1]

Kind(p) == TypesAt[shape][p].kind
InBounds(path) ==
  \A k \in 1..Len(path) : Kind(Upto(path, k - 1)) = "vec" => path[k] < lengths[Upto(path, k - 1)]

\* "entries can't be enumerated": what clearing leaves of the value at p is
\* the entries of its mappings.
Without(values, p, none) == [q \in DOMAIN values |-> IF Holds(shape, p, q) THEN none ELSE values[q]]

Becomes(newLeaves, newLengths, out) == [leaves |-> newLeaves, lengths |-> newLengths, out |-> out]

\* What call c does: what it leaves of the tree, and its answer.
Effect(c) ==
  LET p == c.path
      S == TypesAt[shape][p]
      len == lengths[p]
      Cell(i) == Append(p, i)
      ValueAt(q) == Value(TypesAt[shape][q], leaves[q])
      Same(out) == Becomes(leaves, lengths, out)
  IN
  CASE c.op = "set" -> Becomes([leaves EXCEPT ![p] = Present(S, c.arg)], lengths, << >>)
    [] c.op = "clear" -> Becomes(Without(leaves, p, << >>), Without(lengths, p, 0), << >>)
    [] c.op = "take" -> Becomes([leaves EXCEPT ![p] = << >>], lengths, <<ValueAt(p)>>)
    [] c.op = "get" -> Same(<<ValueAt(p)>>)
    [] c.op = "try_get" -> Same(leaves[p])
    [] c.op = "try_at" -> Same(IF c.arg[1] < len THEN <<ValueAt(Cell(c.arg[1]))>> ELSE << >>)
    [] c.op = "len" -> Same(<<<<len>>>>)
    [] c.op = "push" ->
         Becomes([leaves EXCEPT ![Cell(len)] = Present(Part(S, len), c.arg)],
                 [lengths EXCEPT ![p] = len + 1], << >>)
    [] c.op = "grow" -> Becomes(leaves, [lengths EXCEPT ![p] = len + 1], << >>)
    [] c.op = "pop" ->
         IF len = 0 THEN Same(<< >>)
         ELSE Becomes([leaves EXCEPT ![Cell(len - 1)] = << >>],
                      [lengths EXCEPT ![p] = len - 1], <<ValueAt(Cell(len - 1))>>)
    [] c.op = "erase_last" ->
         IF len = 0 THEN Same(<<<<0>>>>)
         ELSE Becomes(Without(leaves, Cell(len - 1), << >>),
                      [Without(lengths, Cell(len - 1), 0) EXCEPT ![p] = len - 1], <<<<1>>>>)

\* A call panics out of bounds, or changes the value it names.
Does(c) ==
  IF ~InBounds(c.path) THEN UNCHANGED <<leaves, lengths>> /\ last' = Answer(c, TRUE, << >>)
  ELSE LET effect == Effect(c) IN
       /\ leaves' = effect.leaves
       /\ lengths' = effect.lengths
       /\ last' = Answer(c, FALSE, effect.out)

Init ==
  /\ shape \in Shapes
  /\ leaves = [p \in PathsTo(shape, Leaves) |-> << >>]
  /\ lengths = [p \in PathsTo(shape, {"vec"}) |-> 0]
  /\ last = Answer(Call("clear", << >>, << >>), FALSE, << >>)

Next ==
  /\ UNCHANGED shape
  /\ \E op \in Ops : last'.call \in CallTable[shape][op]
  /\ Does(last'.call)

Spec == Init /\ [][Next]_<<shape, leaves, lengths, last>>
=============================================================================
