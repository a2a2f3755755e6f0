------------------------------ MODULE MCNested ------------------------------
(* Instance: each pair of containers nested once, structs in both, with     *)
(* two-byte slots, strings of up to three chunks and vecs of up to two.     *)
EXTENDS Nested

Word == Static(1)
Pair == Static(2)

\* A value struct, and a storage struct.
Named == Record(<<Text, Word>>)
Account == Struct(<<Word, Vec(Word), Text>>)

MCShapes ==
  {Text, Vec(Pair), Vec(Text), Vec(Vec(Word)), Vec(Map(Word)), Map(Vec(Pair)), Map(Map(Text)),
   Vec(Vec(Text)), Vec(Map(Vec(Word))), Map(Vec(Vec(Word))),
   Vec(Struct(<<Word, Vec(Word)>>)), Map(Struct(<<Text, Word>>)), Account,
   Vec(Named), Map(Named)}

\* The types of the shapes and of their parts.
RECURSIVE WithParts(_)
WithParts(types) ==
  LET parts == UNION {{S.parts[i] : i \in DOMAIN S.parts} : S \in types}
  IN IF parts \subseteq types THEN types ELSE WithParts(types \union parts)

MCTypes == WithParts(MCShapes)

MCWords == {0, 1}
MCStrings == UNION {[1..n -> {0, 1}] : n \in 0..5}
MCSomeStrings == {<< >>, <<0>>, <<1, 0>>, <<0, 1, 1, 0, 1>>}
MCMapKeys == {0, 1}

\* No action reads last and each one writes it: states with the same storage
\* have the same successors, and every step between two of them is checked.
Contents == <<shape, store>>
=============================================================================
