---------------------------- MODULE StorageShape ----------------------------
(* The types a contract's storage is built from, the paths into them and    *)
(* the calls made there: pvm-storage/src/lib.rs.                            *)
EXTENDS Naturals, Sequences

CONSTANTS
  Types,       \* the types that occur, with the types of their parts
  Shapes,      \* the types of the root
  Words,       \* values of a static slot
  Strings,     \* values of a string at the root
  SomeStrings, \* values of a string below it: bound
  MapKeys,     \* keys of a mapping
  MaxElems     \* bound: elements of a vec

\* The slots of the first n parts.
SlotsOf(parts, n) ==
  LET sum[k \in 0..n] == IF k = 0 THEN 0 ELSE sum[k - 1] + parts[k].slots IN sum[n]

\* A type carries the constant that its trait computes for it, SLOTS.
Type(kind, parts, slots) ==
  LET depths[k \in 0..Len(parts)] == IF k = 0 THEN 1 ELSE depths[k - 1] + parts[k].depth
  IN  [kind |-> kind, parts |-> parts, slots |-> slots, depth |-> depths[Len(parts)]]

\* The leaves: a value that fills a number of slots, a string, and a
\* #[derive(SolStorage)] struct that has a string among its fields.
Static(slots) == Type("static", << >>, slots)
Text == Type("text", << >>, 1)
Record(fields) == Type("record", fields, SlotsOf(fields, Len(fields)))

\* The containers; a Struct is a #[storage] struct.
Vec(S) == Type("vec", <<S>>, 1)
Map(S) == Type("map", <<S>>, 1)
Struct(fields) == Type("struct", fields, SlotsOf(fields, Len(fields)))

Leaves == {"static", "text", "record"}

\* A struct inside a Record is laid out as its fields.
WellFormed(S) ==
  /\ S.kind \in {"static", "text", "record", "vec", "map", "struct"}
  /\ S.parts \in Seq(Types) /\ S.slots \in Nat /\ S.depth \in Nat
  /\ \A i \in 1..Len(S.parts) : S.parts[i].depth < S.depth
  /\ S.kind \in {"static", "text"} => S.parts = << >>
  /\ S.kind = "static" => S.slots > 0
  /\ S.kind \in {"text", "vec", "map"} => S.slots = 1
  /\ S.kind \in {"vec", "map"} => Len(S.parts) = 1
  /\ S.kind \in {"struct", "record"} => S.slots = SlotsOf(S.parts, Len(S.parts))
  /\ S.kind = "record" =>
       /\ \A i \in 1..Len(S.parts) : S.parts[i].kind \in {"static", "text"}
       /\ \E i \in 1..Len(S.parts) : S.parts[i].kind = "text"

ASSUME ShapeAssumption == Shapes \subseteq Types /\ \A S \in Types : WellFormed(S)

\* The default of a leaf.
BlankField(S) == IF S.kind = "static" THEN [i \in 1..S.slots |-> 0] ELSE << >>
Blank(S) ==
  IF S.kind = "record" THEN [f \in 1..Len(S.parts) |-> BlankField(S.parts[f])] ELSE BlankField(S)

FieldValues(S, strings) == IF S.kind = "static" THEN [1..S.slots -> Words] ELSE strings
Values(S, strings) ==
  IF S.kind = "record"
  THEN {v \in [1..Len(S.parts) -> UNION {FieldValues(S.parts[f], strings) : f \in 1..Len(S.parts)}] :
          \A f \in 1..Len(S.parts) : v[f] \in FieldValues(S.parts[f], strings)}
  ELSE FieldValues(S, strings)

-----------------------------------------------------------------------------
(* Paths                                                                   *)

\* Steps from a value of type S to a part of it; an index of a vec may be
\* out of bounds.
Steps(S) ==
  CASE S.kind = "vec" -> 0..(MaxElems - 1)
    [] S.kind = "map" -> MapKeys
    [] S.kind = "struct" -> 1..Len(S.parts)
    [] OTHER -> {}

Part(S, i) == IF S.kind = "struct" THEN S.parts[i] ELSE S.parts[1]

Upto(path, k) == SubSeq(path, 1, k)

ShapeAt(S, path) ==
  LET at[k \in 0..Len(path)] == IF k = 0 THEN S ELSE Part(at[k - 1], path[k]) IN at[Len(path)]

Longer(S, paths) == UNION {{Append(p, i) : i \in Steps(ShapeAt(S, p))} : p \in paths}
Paths(S) ==
  LET layer[k \in 0..S.depth] == IF k = 0 THEN {<< >>} ELSE Longer(S, layer[k - 1])
  IN  UNION {layer[k] : k \in 0..S.depth}

\* The type at each path, by the type of the root.
TypesAt == [S \in Shapes |-> [p \in Paths(S) |-> ShapeAt(S, p)]]

PathsTo(S, kinds) == {p \in DOMAIN TypesAt[S] : TypesAt[S][p].kind \in kinds}

\* q is p or a part of it.
Extends(q, p) == Len(p) <= Len(q) /\ Upto(q, Len(p)) = p

\* q is p or a part of it, and no mapping is between them.
Holds(S, p, q) ==
  /\ Extends(q, p)
  /\ \A k \in (Len(p) + 1)..Len(q) : TypesAt[S][Upto(q, k - 1)].kind # "map"

-----------------------------------------------------------------------------
Call(op, path, arg) == [op |-> op, path |-> path, arg |-> arg]
Answer(c, panicked, out) == [call |-> c, panicked |-> panicked, out |-> out]

\* The calls the type offers at a path.
CallsAt(S, path) ==
  {Call("clear", path, << >>)} \union
  CASE S.kind \in Leaves ->
         {Call(op, path, << >>) : op \in {"take", "get", "try_get"}}
           \union {Call("set", path, v) : v \in Values(S, IF path = << >> THEN Strings ELSE SomeStrings)}
    [] S.kind = "vec" ->
         {Call(op, path, << >>) : op \in {"grow", "erase_last", "len"}}
           \union IF S.parts[1].kind \notin Leaves THEN {}
                  ELSE {Call("pop", path, << >>)}
                         \union {Call("try_at", path, <<i>>) : i \in Steps(S)}
                         \union {Call("push", path, v) : v \in Values(S.parts[1], SomeStrings)}
    [] OTHER -> {}

Calls(S) == UNION {CallsAt(ShapeAt(S, p), p) : p \in Paths(S)}

Ops == {"clear", "set", "take", "get", "try_get", "push", "grow", "pop", "erase_last", "len", "try_at"}
CallTable == [S \in Shapes |-> [op \in Ops |-> {c \in Calls(S) : c.op = op}]]
=============================================================================
