------------------------------ MODULE AbiCodec ------------------------------
(* The Solidity ABI codec: SolEncode and SolDecode of pvm-contract-types,   *)
(* the codecs derived for structs, and the generated code that decodes a    *)
(* method's parameters.  A caller encodes, the bytes may be damaged on the  *)
(* way (calldata is whatever the sender made it), and the other side        *)
(* decodes.  Words of 32 bytes are scaled down; a number sits in the last   *)
(* byte of its word, as the code reads the low 8 bytes of 32.               *)
EXTENDS Naturals, Sequences, SequencesExt

CONSTANTS
  Word,         \* bytes of a word
  Usize,        \* 2^64: what a number in a word and an offset stay below
  Types,        \* the types that occur, with the types of their parts
  MaxDepth,     \* bound: how deep they are nested
  Messages,     \* what is sent: parameters of a method, or its output
  Leaves,       \* values of a static leaf
  Payloads,     \* values of a bytes or string
  MaxElements,  \* bound: elements of a Vec
  Forged,       \* bound: numbers a damaged word may hold
  MaxDamage     \* bound: damaged words and cuts of one message

ASSUME AbiAssumption ==
  /\ Word \in Nat \ {0, 1} /\ Usize \in Nat /\ Usize > Word
  /\ Leaves \union Forged \subseteq 0..(Usize - 1)
  /\ Payloads \subseteq Seq(0..(Usize - 1))
  /\ MaxElements \in Nat /\ MaxDamage \in Nat /\ MaxDepth \in Nat

VARIABLES
  message,  \* its direction and its types
  sent,     \* the encoded values
  input,    \* the bytes that arrive
  damage,   \* how often they were damaged
  pc,
  got       \* the values decoded so far

vars == <<message, sent, input, damage, pc, got>>
-----------------------------------------------------------------------------
(* Types.  `parts` are a tuple's or a derived struct's fields, or the one   *)
(* element type of a Vec or of an array of n.  String is Bytes.  A type     *)
(* carries the constants that its traits and the macros compute for it.     *)

Total(s) == LET sum[k \in 0..Len(s)] == IF k = 0 THEN 0 ELSE sum[k - 1] + s[k] IN sum[Len(s)]

\* The types of the k parts of a value.
Fields(t, k) == IF t.kind \in {"vec", "array"} THEN [i \in 1..k |-> t.parts[1]] ELSE t.parts

\* IS_DYNAMIC
IsDynamic(t) == t.kind \in {"bytes", "vec"} \/ \E i \in DOMAIN t.parts : t.parts[i].dynamic

\* has_custom_types
HasCustom(t) == t.kind = "struct" \/ \E i \in DOMAIN t.parts : t.parts[i].custom

SlotSize(t) == IF t.dynamic THEN Word ELSE t.head

\* Where the head of field i starts.
HeadOffset(ts, i) == Total([j \in 1..(i - 1) |-> SlotSize(ts[j])])

\* HEAD_SIZE, of the default and of composites.
HeadSize(t) ==
  IF t.kind \in {"static", "bytes", "vec"} THEN Word
  ELSE LET ts == Fields(t, t.n) IN HeadOffset(ts, Len(ts) + 1)

Type(kind, parts, n) ==
  LET t == [kind |-> kind, parts |-> parts, n |-> n] IN
  [kind |-> kind, parts |-> parts, n |-> n,
   dynamic |-> IsDynamic(t), custom |-> HasCustom(t), head |-> HeadSize(t),
   depth |-> 1 + Total([i \in DOMAIN parts |-> parts[i].depth])]

Static == Type("static", <<>>, 0)
Bytes == Type("bytes", <<>>, 0)
Vec(t) == Type("vec", <<t>>, 0)
Array(t, n) == Type("array", <<t>>, n)
Tuple(ts) == Type("tuple", ts, 0)
Struct(ts) == Type("struct", ts, 0)

\* Parameters are sent as the tuple of them, an output by its own type.
MessageType(m) == IF m.to = "method" THEN Tuple(m.types) ELSE m.types[1]

\* The element of a Vec takes a word at least, as every Solidity type does.
WellFormed(t) ==
  /\ t.kind \in {"static", "bytes", "vec", "array", "tuple", "struct"}
  /\ t.parts \in Seq(Types) /\ t.n \in Nat
  /\ t = Type(t.kind, t.parts, t.n)
  /\ t.kind \in {"static", "bytes"} => t.parts = <<>>
  /\ t.kind \in {"vec", "array"} => Len(t.parts) = 1
  /\ t.kind = "vec" => SlotSize(t.parts[1]) >= Word
  /\ t.head \in Nat /\ t.depth \in 1..MaxDepth

ASSUME TypesAssumption ==
  /\ \A t \in Types : WellFormed(t)
  /\ \A m \in Messages :
       /\ m.to = "method" \/ (m.to = "caller" /\ Len(m.types) = 1)
       /\ m.types \in Seq(Types) /\ MessageType(m) \in Types

\* The lists with an element of each set.
Product(sets) ==
  LET upto[k \in 0..Len(sets)] ==
        IF k = 0 THEN {<<>>} ELSE {Append(s, x) : s \in upto[k - 1], x \in sets[k]}
  IN upto[Len(sets)]

\* The values of a type.
Values[t \in Types] ==
  LET all(k) == LET ts == Fields(t, k) IN Product([i \in DOMAIN ts |-> Values[ts[i]]]) IN
  IF t.kind = "static" THEN Leaves
  ELSE IF t.kind = "bytes" THEN Payloads
  ELSE IF t.kind = "vec" THEN UNION {all(k) : k \in 0..MaxElements}
  ELSE all(t.n)

-----------------------------------------------------------------------------
(* Encoding                                                                *)

Number(n) == [i \in 1..Word |-> IF i = Word THEN n ELSE 0]
Padding(len) == (Word - (len % Word)) % Word

\* Mutant: the padding is written but not counted.
BytesLen_Unpadded(len) == Word + len
BytesLen(len) == Word + len + Padding(len)

\* The tails of the first k fields, by the lengths of their bodies.
TailsLen(ts, lens, k) == Total([i \in 1..k |-> IF ts[i].dynamic THEN lens[i] ELSE 0])
FieldsLen(ts, lens) == HeadOffset(ts, Len(ts) + 1) + TailsLen(ts, lens, Len(ts))

\* encode_body_len
BodyLen[t \in Types] == [v \in Values[t] |->
  IF t.kind = "static" THEN Word
  ELSE IF t.kind = "bytes" THEN BytesLen(Len(v))
  ELSE LET ts == Fields(t, Len(v))
           lens == [i \in DOMAIN ts |-> BodyLen[ts[i]][v[i]]]
       IN (IF t.kind = "vec" THEN Word ELSE 0) + FieldsLen(ts, lens)]

\* Every head, a pointer for a dynamic field, then the tails, placed by the
\* lengths of those before.
EncodeFields(ts, lens, bodies) ==
  LET pointer(i) == HeadOffset(ts, Len(ts) + 1) + TailsLen(ts, lens, i - 1)
      heads == [i \in DOMAIN ts |-> IF ts[i].dynamic THEN Number(pointer(i)) ELSE bodies[i]]
      tails == [i \in DOMAIN ts |-> IF ts[i].dynamic THEN bodies[i] ELSE <<>>]
  IN FlattenSeq(heads) \o FlattenSeq(tails)

\* encode_body_to
EncodeBody[t \in Types] == [v \in Values[t] |->
  IF t.kind = "static" THEN Number(v)
  ELSE IF t.kind = "bytes"
  THEN Number(Len(v)) \o v \o [i \in 1..Padding(Len(v)) |-> 0]
  ELSE LET ts == Fields(t, Len(v))
           lens == [i \in DOMAIN ts |-> BodyLen[ts[i]][v[i]]]
           bodies == [i \in DOMAIN ts |-> EncodeBody[ts[i]][v[i]]]
       IN (IF t.kind = "vec" THEN Number(Len(v)) ELSE <<>>) \o EncodeFields(ts, lens, bodies)]

\* encode_to: a dynamic value that is no Rust tuple is wrapped in a pointer.
EncodeTo(t, v) ==
  IF t.kind = "tuple" \/ ~t.dynamic THEN EncodeBody[t][v] ELSE Number(Word) \o EncodeBody[t][v]

\* What is sent, and the heads a decoder steps over, fit the address space.
ASSUME MemoryAssumption ==
  \A m \in Messages : \A v \in Values[MessageType(m)], t \in Types :
    Len(EncodeTo(MessageType(m), v)) + t.head < Usize

-----------------------------------------------------------------------------
(* Decoding.  A result is <<v>> for Ok(v), <<>> for Err(DecodeError), or    *)
(* Strayed; an offset whose computation failed is Overflow, and nothing is  *)
(* read there.                                                              *)

Overflow == 3 * Usize

\* checked_sum
CheckedSum(a, b) == IF a + b < Usize THEN a + b ELSE Overflow

\* read_word_offset
ReadWordOffset(in, offset) ==
  IF CheckedSum(offset, Word) <= Len(in) THEN in[offset + Word] ELSE Overflow

\* A byte was read that the type did not ask for: past the input, or at an
\* offset that wrapped around.
Strayed == <<0, 0>>

\* A composite of these parts: an error of one is its error.
AllOf(parts) ==
  IF \E i \in DOMAIN parts : parts[i] = <<>> THEN <<>>
  ELSE IF \E i \in DOMAIN parts : parts[i] = Strayed THEN Strayed
  ELSE <<[i \in DOMAIN parts |-> parts[i][1]]>>

\* decode_at of a static leaf, whose range `offset + 24..offset + 32` is
\* computed with plain additions.
StaticAt(in, offset) ==
  LET from == (offset + Word - 1) % Usize
      to == (offset + Word) % Usize
  IN IF from > to \/ to > Len(in) THEN <<>>
     ELSE IF from = offset + Word - 1 THEN <<in[to]>> ELSE Strayed

\* decode_unchecked, with no check of the input's length.
DecodeUnchecked(t, in, offset) ==
  LET at[u \in Types] == [o \in Nat |->
        IF u.kind = "static" THEN IF o + Word <= Len(in) THEN <<in[o + Word]>> ELSE Strayed
        ELSE LET ts == Fields(u, u.n)
             IN AllOf([i \in DOMAIN ts |-> at[ts[i]][o + HeadOffset(ts, i)]])]
  IN at[t][offset]

\* The derive's static form, of primitive fields only, adds without a check.
Unguarded(t) ==
  t.kind = "struct" /\ ~t.dynamic /\ \A i \in DOMAIN t.parts : ~t.parts[i].custom

\* A tuple and a Vec of static elements step a cursor past every head, the
\* last one too.
StepsPast(t) == t.kind = "tuple" \/ (t.kind = "vec" /\ ~t.parts[1].dynamic)

\* Where field i is decoded, when the heads start at `base`: a static one at
\* its head, a dynamic one where the pointer in its head leads.
PartAt(t, ts, in, base, i) ==
  LET head == IF Unguarded(t) THEN base + HeadOffset(ts, i)
              ELSE CheckedSum(base, HeadOffset(ts, i))
  IN IF ts[i].dynamic THEN CheckedSum(base, ReadWordOffset(in, head)) ELSE head

\* The fields of a value of type t, decoded by `part`.
DecodeFields(part, t, ts, in, base) ==
  IF StepsPast(t) /\ CheckedSum(base, HeadOffset(ts, Len(ts) + 1)) = Overflow THEN <<>>
  ELSE AllOf([i \in DOMAIN ts |-> part[ts[i]][PartAt(t, ts, in, base, i)]])

BytesTail(in, offset) ==
  LET start == CheckedSum(offset, Word)
      end == CheckedSum(start, ReadWordOffset(in, offset))
  IN IF end > Len(in) THEN <<>> ELSE <<SubSeq(in, start + 1, end)>>

VecTail(part, t, in, offset) ==
  LET len == ReadWordOffset(in, offset) IN
  IF len > Len(in) \div Word THEN <<>>
  ELSE DecodeFields(part, t, Fields(t, len), in, CheckedSum(offset, Word))

\* decode_tail: the value's body is at `offset`, which for all but a Vec,
\* Bytes and String is where decode_at starts too.
DecodeTail(t, in, offset) ==
  LET tail[u \in Types] == [o \in Nat |->
        IF u.kind = "bytes" THEN BytesTail(in, o)
        ELSE IF u.kind = "vec" THEN VecTail(tail, u, in, o)
        ELSE IF o = Overflow THEN <<>>
        ELSE IF u.kind = "static" THEN StaticAt(in, o)
        ELSE DecodeFields(tail, u, Fields(u, u.n), in, o)]
  IN tail[t][offset]

\* decode_at: the value's head is at `offset`.  Vec, Bytes and String follow the
\* pointer there; the composites decode their body in place.
DecodeAt(t, in, offset) ==
  IF offset = Overflow THEN <<>>
  ELSE DecodeTail(t, in, IF t.kind \in {"bytes", "vec"} THEN ReadWordOffset(in, offset) ELSE offset)

\* Mutant: every dynamic value is taken to be wrapped.
Decode_AlwaysWrapped(t, in) ==
  IF ~t.dynamic THEN DecodeAt(t, in, 0) ELSE DecodeTail(t, in, ReadWordOffset(in, 0))

\* decode: the mirror of encode_to.
Decode(t, in) ==
  IF t.kind = "tuple" \/ ~t.dynamic THEN DecodeAt(t, in, 0)
  ELSE DecodeTail(t, in, ReadWordOffset(in, 0))

-----------------------------------------------------------------------------
(* A message                                                               *)

Init ==
  /\ message \in Messages
  /\ sent \in Values[MessageType(message)]
  /\ input = EncodeTo(MessageType(message), sent)
  /\ damage = 0
  /\ pc = "arrived"
  /\ got = <<>>

Damage ==
  /\ pc = "arrived" /\ damage < MaxDamage
  /\ \/ \E k \in 0..(Len(input) - 1) : input' = SubSeq(input, 1, k)
     \/ \E w \in 1..(Len(input) \div Word), n \in Forged : input' = [input EXCEPT ![w * Word] = n]
  /\ damage' = damage + 1
  /\ UNCHANGED <<message, sent, pc, got>>

\* Mutant: a word for every parameter.
MinInputSize_WordEach(ts) == Len(ts) * Word

\* calculate_min_input_size
MinInputSize(ts) == HeadOffset(ts, Len(ts) + 1)

\* The size check of a dispatch arm or of deploy.
SizeCheck ==
  /\ pc = "arrived" /\ message.to = "method"
  /\ pc' = IF Len(input) < MinInputSize(message.types) THEN "refused" ELSE "decode"
  /\ UNCHANGED <<message, sent, input, damage, got>>

\* generate_decode_params: a parameter whose type is static by its syntax is
\* read without checks, the others with them.
Param(t, in, offset) ==
  IF t.custom \/ t.dynamic THEN DecodeAt(t, in, offset) ELSE DecodeUnchecked(t, in, offset)

\* What becomes of a result: the `?` or the revert on an error.
Takes(r, then) ==
  /\ got' = IF Len(r) = 1 THEN Append(got, r[1]) ELSE got
  /\ pc' = IF r = <<>> THEN "refused" ELSE IF r = Strayed THEN "strayed" ELSE then

\* The next parameter, at __decode_offset.
DecodeParam ==
  /\ pc = "decode" /\ Len(got) < Len(message.types)
  /\ LET i == Len(got) + 1 IN
     Takes(Param(message.types[i], input, HeadOffset(message.types, i)), "decode")
  /\ UNCHANGED <<message, sent, input, damage>>

\* extract_output, and every other R::decode.
DecodeOutput ==
  /\ pc = "arrived" /\ message.to = "caller"
  /\ Takes(Decode(MessageType(message), input), "decoded")
  /\ UNCHANGED <<message, sent, input, damage>>

Next == Damage \/ SizeCheck \/ DecodeParam \/ DecodeOutput

Spec == Init /\ [][Next]_vars

-----------------------------------------------------------------------------
(* Properties                                                              *)

\* The value that got[i] should be.
Meant(i) == IF message.to = "method" THEN sent[i] ELSE sent

\* A dynamic value whose own decode_at does not follow its pointer.
InPlace(t) == t.kind \in {"tuple", "struct", "array"} /\ t.dynamic

\* What a caller encodes is what the callee's parameters decode to, what a
\* method returns is what its caller decodes, and neither is refused.  A
\* parameter that is a dynamic tuple, array or struct is left out: see
\* PointersAreFollowed (decode 600-616 of types/lib.rs, decode.rs 11-40).
ReadsBack ==
  damage = 0 =>
    LET exempt(i) == message.to = "method" /\ InPlace(message.types[i]) IN
    /\ \A i \in DOMAIN got : exempt(i) \/ got[i] = Meant(i)
    /\ pc = "refused" => exempt(Len(got) + 1)

\* Whatever arrives, a decoded value is made of the input's own bytes at the
\* offsets its pointers name: the unchecked reads of static parameters stay
\* inside the input that the size check let pass, and no sum of offsets, the
\* plain additions of the static leaves included, wraps around to one that is
\* in bounds (types/lib.rs:121-127 "fails closed").
NoStrayRead == pc # "strayed"

\* The ABI specification's enc, with every pointer computed from the bytes
\* that are really in front of what it points to.
EncAll(ts, bodies) ==
  LET heads == Total([i \in DOMAIN ts |-> IF ts[i].dynamic THEN Word ELSE Len(bodies[i])])
      tails == [i \in DOMAIN ts |-> IF ts[i].dynamic THEN bodies[i] ELSE <<>>]
      before(i) == FlattenSeq(SubSeq(tails, 1, i - 1))
      head(i) == IF ts[i].dynamic THEN Number(heads + Len(before(i))) ELSE bodies[i]
  IN FlattenSeq([i \in DOMAIN ts |-> head(i)]) \o FlattenSeq(tails)

Enc[t \in Types] == [v \in Values[t] |->
  IF t.kind = "static" THEN Number(v)
  ELSE IF t.kind = "bytes"
  THEN Number(Len(v)) \o [i \in 1..(((Len(v) + Word - 1) \div Word) * Word) |->
                            IF i <= Len(v) THEN v[i] ELSE 0]
  ELSE LET ts == Fields(t, Len(v)) IN
       (IF t.kind = "vec" THEN Number(Len(v)) ELSE <<>>)
         \o EncAll(ts, [i \in DOMAIN ts |-> Enc[ts[i]][v[i]]])]

\* What is sent is the ABI's encoding of the argument list, or of the list of
\* return values: a Rust tuple stands for the list, any other type for a list
\* of one.  Other languages' contracts depend on it, and a round trip does not
\* show it (SolEncode::encode_to, types/lib.rs:528-562).
EncodingIsStandard ==
  damage = 0 =>
    LET t == MessageType(message) IN
    input = IF t.kind = "tuple" THEN Enc[t][sent] ELSE EncAll(<<t>>, <<Enc[t][sent]>>)

\* specs/abi.md:122 "Dynamic types store an offset pointer in the head section,
\* with actual data in the tail.": every parameter a caller encodes is decoded,
\* to the value the caller encoded.
PointersAreFollowed ==
  damage = 0 /\ message.to = "method" =>
    pc # "refused" /\ \A i \in DOMAIN got : got[i] = sent[i]
=============================================================================
