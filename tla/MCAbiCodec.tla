----------------------------- MODULE MCAbiCodec -----------------------------
EXTENDS AbiCodec

Pair == <<Static, Static>>
Mixed == <<Static, Bytes>>

\* Static and dynamic parameters in either order, and every composite as a
\* parameter, static and dynamic.
MCParams ==
  {<<Static, Bytes>>, <<Bytes, Static>>, <<Vec(Static), Static>>, <<Vec(Bytes)>>,
   <<Array(Static, 2), Bytes>>, <<Tuple(Pair), Static>>, <<Struct(Pair), Static>>,
   <<Vec(Tuple(Pair))>>, <<Vec(Struct(Mixed))>>,
   <<Tuple(Mixed)>>, <<Struct(Mixed), Static>>, <<Array(Bytes, 2)>>}

MCOutputs ==
  {Static, Bytes, Tuple(Mixed), Struct(Mixed), Array(Bytes, 2), Vec(Static), Vec(Vec(Static)),
   Struct(<<Struct(Pair), Bytes>>), Tuple(<<Struct(Mixed), Static>>)}

MCMessages ==
  [to : {"method"}, types : MCParams] \union [to : {"caller"}, types : {<<t>> : t \in MCOutputs}]

\* The types of the messages and of their parts.
RECURSIVE WithParts(_)
WithParts(ts) ==
  LET parts == UNION {{t.parts[i] : i \in DOMAIN t.parts} : t \in ts}
  IN IF parts \subseteq ts THEN ts ELSE WithParts(ts \union parts)

MCTypes == WithParts({MessageType(m) : m \in MCMessages})

MCPayloads == {<<>>, <<5, 6, 5>>}
=============================================================================
