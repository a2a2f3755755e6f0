------------------------------ MODULE DynCodec ------------------------------
(* The dynamic layout of pvm-contract-types/src/storage_codec.rs: a short   *)
(* byte string inline in its header slot, a long one in body chunks.        *)
EXTENDS Naturals, Sequences

CONSTANT Width   \* bytes of a slot: 32, scaled down

ASSUME WidthAssumption == Width \in Nat /\ Width > 1

Positions == 0..(Width - 1)
Slot == [Positions -> 0..255]
ZeroSlot == [p \in Positions |-> 0]
LowByte == Width - 1

\* A number that fits the last byte, as a big-endian slot.
WordSlot(n) == [p \in Positions |-> IF p = LowByte THEN n ELSE 0]

\* div_ceil
Chunks(len) == (len + Width - 1) \div Width

\* EMPTY_INLINE_SENTINEL
Sentinel == 1

\* decode_dyn_header; bytes above the last are zero in a long header, and a
\* length that does not fit reads as zero.
Spilled(h) == h[LowByte] % 2 = 1
HeaderLen(h) ==
  IF ~Spilled(h) THEN IF h[LowByte] \div 2 < Width THEN h[LowByte] \div 2 ELSE Width - 1
  ELSE IF \E p \in Positions \ {LowByte} : h[p] # 0 THEN 0
  ELSE h[LowByte] \div 2

\* encode_long_header
LongHeader(len) == WordSlot(2 * len + 1)

InlineHeader(v) ==
  [p \in Positions |->
     IF p = LowByte THEN 2 * Len(v)
     ELSE IF p < Len(v) THEN v[p + 1]
     ELSE IF v = << >> /\ p = LowByte - 1 THEN Sentinel ELSE 0]

Header(v) == IF Len(v) < Width THEN InlineHeader(v) ELSE LongHeader(Len(v))

\* Chunk s of a spilled value, zero padded.
Chunk(v, s) ==
  [p \in Positions |-> IF s * Width + p < Len(v) THEN v[s * Width + p + 1] ELSE 0]

\* The chunks of the value under header h, and of a value of len bytes.
OldChunks(h) == IF Spilled(h) THEN Chunks(HeaderLen(h)) ELSE 0
NewChunks(len) == IF len < Width THEN 0 ELSE Chunks(len)

\* clear_dyn_body_range over the stale chunks of a longer previous value.
Freed(h, len) == NewChunks(len)..(OldChunks(h) - 1)

\* read_dynamic_bytes of header h over the chunks of the body.
Stored(h, body) ==
  [k \in 1..HeaderLen(h) |->
     IF Spilled(h) THEN body[(k - 1) \div Width][(k - 1) % Width] ELSE h[k - 1]]
=============================================================================
