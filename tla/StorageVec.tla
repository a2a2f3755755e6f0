----------------------------- MODULE StorageVec -----------------------------
(* pvm_storage::StorageVec<S> for a leaf S (pvm-storage/src/lib.rs): the   *)
(* length slot, the body slots the elements are packed into or spread      *)
(* over, the write cursors of `entry` and `grow`, and the iterator.        *)
(*                                                                         *)
(* A contract call is a run of these operations that ends in `EndCall`, or *)
(* in a panic, which reverts storage to what it was at the call's start.   *)
EXTENDS Integers, Sequences

CONSTANTS
  Words,          \* contents of a lane (one element, or one slot of it)
  Zero,           \* what unwritten storage reads as
  Shapes,         \* element types S: per_slot() elements sharing a slot, or
                  \* S::SLOTS slots spanned by one element
  MaxLen,         \* u64::MAX, scaled down
  Corrupt,        \* lengths the slot may start with that no operation wrote
  OwnedCursors    \* callers keep a leaf cursor across other operations

ASSUME StorageVecAssumption ==
  /\ Zero \in Words
  /\ Shapes \subseteq [per_slot : Nat \ {0}, slots : Nat \ {0}]
  /\ \A s \in Shapes : s.per_slot = 1 \/ s.slots = 1        \* _SHAPE_CHECK
  /\ MaxLen \in Nat
  /\ Corrupt \subseteq 0..(MaxLen + 1)
  /\ OwnedCursors \in BOOLEAN

VARIABLES
  shape,    \* the element type, fixed by the program
  corrupt,  \* the contract started on a length slot it never wrote
  length,   \* the root slot; above MaxLen its upper 24 bytes are non-zero
  body,     \* the slots from body_base() on
  start,    \* storage at the start of the running call
  cursor,   \* live leaf cursors (`Lazy`): {} or {index}
  iter,     \* pos and len of the live StorageVecIter; equal when there is none
  ret       \* the last operation, its index, what it returned, how it panicked

vars == <<shape, corrupt, length, body, start, cursor, iter, ret>>
given == <<shape, corrupt>>

PerSlot == shape.per_slot
Slots == shape.slots

Lanes == 0..(PerSlot - 1)
BodySlots == 0..(MaxLen \div PerSlot + Slots)

Elements == [0..(Slots - 1) -> Words]
Fresh == [w \in 0..(Slots - 1) |-> Zero]
Indices == 0..MaxLen
ZeroSlot == [l \in Lanes |-> Zero]
NoIter == [pos |-> 0, len |-> 0]

-----------------------------------------------------------------------------
(* Placement and access of one element                                     *)

\* slot_index_for, when its checked_mul does not overflow.
SlotIndex(i) == IF PerSlot > 1 THEN i \div PerSlot ELSE i * Slots
Addressable(i) == PerSlot > 1 \/ i * Slots <= MaxLen

\* element_offset: which lane of its slot.
Lane(i) == i % PerSlot

Element(b, i) == [w \in 0..(Slots - 1) |-> b[SlotIndex(i) + w][Lane(i)]]

\* Lazy::set and the codec's write: an element alone in its slot overwrites
\* the slot, a packed one is merged into it.
Written(b, i, v, alone) ==
  [s \in BodySlots |->
     IF s - SlotIndex(i) \in 0..(Slots - 1)
     THEN [l \in Lanes |-> IF l = Lane(i) THEN v[s - SlotIndex(i)]
                           ELSE IF alone THEN Zero ELSE b[s][l]]
     ELSE b[s]]

\* elem_mut and write_value_at; elem_clear and pop.
MutAlone == PerSlot = 1
ElemAlone_Always(i) == TRUE          \* mutant: a neighbour is overwritten
ElemAlone(i) == i % PerSlot = 0

\* The bulk zeroing of `clear`: slots for n elements; the mutant rounds down
\* and forgets the slots an element spans.
ClearedSlots_Short(n) == n \div PerSlot
ClearedSlots(n) == IF PerSlot > 1 THEN (n + PerSlot - 1) \div PerSlot ELSE n * Slots
Zeroed(b, n) == [s \in BodySlots |-> IF s < n THEN ZeroSlot ELSE b[s]]

-----------------------------------------------------------------------------
(* How an operation ends                                                   *)

Answer(op, arg, out, n) == [op |-> op, arg |-> arg, out |-> out, n |-> n, panic |-> "none"]

KeptCursor == IF OwnedCursors THEN cursor ELSE {}

\* `&mut self` ends the iterator's borrow.
Mutates(answer, b, n) ==
  /\ body' = b
  /\ length' = n
  /\ ret' = answer
  /\ cursor' = KeptCursor
  /\ iter' = NoIter
  /\ UNCHANGED <<given, start>>

Opens(answer, n, i) ==
  /\ length' = n
  /\ cursor' = {i}
  /\ ret' = answer
  /\ iter' = NoIter
  /\ UNCHANGED <<given, body, start>>

Reads(answer) ==
  /\ ret' = answer
  /\ cursor' = KeptCursor
  /\ UNCHANGED <<given, length, body, start, iter>>

\* panic_revert diverges; the revert undoes the call.
Panics(op, arg, why) ==
  /\ length' = start.length
  /\ body' = start.body
  /\ ret' = [op |-> op, arg |-> arg, out |-> << >>, n |-> 0, panic |-> why]
  /\ cursor' = {}
  /\ iter' = NoIter
  /\ UNCHANGED <<given, start>>

\* read_len reverts on a malformed length, try_read_len reads it as None.
Malformed == length > MaxLen
LenPanics(op, arg) == Malformed /\ Panics(op, arg, "encoding")
BoundsPanics(op, i) == ~Malformed /\ i >= length /\ Panics(op, i, "bounds")
IndexPanics(op, arg, i) == ~Malformed /\ ~Addressable(i) /\ Panics(op, arg, "overflow")
GrowthPanics(op) == length = MaxLen /\ Panics(op, 0, "oom")

InBounds(i) == ~Malformed /\ i < length /\ Addressable(i)
CheckedLen == IF Malformed THEN 0 ELSE length
IndexInBoundsPanics(op, i) == i < CheckedLen /\ IndexPanics(op, i, i)
LastPanics(op) == CheckedLen > 0 /\ IndexPanics(op, 0, length - 1)

-----------------------------------------------------------------------------
(* Operations                                                              *)

Push(v) ==
  \/ LenPanics("push", 0)
  \/ GrowthPanics("push")
  \/ length < MaxLen /\ IndexPanics("push", 0, length)
  \/ /\ length < MaxLen /\ Addressable(length)
     /\ Mutates(Answer("push", 0, << >>, 0), Written(body, length, v, MutAlone), length + 1)

\* The length is written before the element is located.
Grow ==
  \/ LenPanics("grow", 0)
  \/ GrowthPanics("grow")
  \/ length < MaxLen /\ IndexPanics("grow", 0, length)
  \/ /\ length < MaxLen /\ Addressable(length)
     /\ Opens(Answer("grow", 0, << >>, 0), length + 1, length)

Pop ==
  \/ LenPanics("pop", 0)
  \/ length = 0 /\ Mutates(Answer("pop", 0, << >>, 0), body, 0)
  \/ LastPanics("pop")
  \/ /\ CheckedLen > 0 /\ Addressable(length - 1)
     /\ Mutates(Answer("pop", 0, <<Element(body, length - 1)>>, 0),
                Written(body, length - 1, Fresh, ElemAlone(length - 1)), length - 1)

EraseLast ==
  \/ LenPanics("erase_last", 0)
  \/ length = 0 /\ Mutates(Answer("erase_last", 0, << >>, 0), body, 0)
  \/ LastPanics("erase_last")
  \/ /\ CheckedLen > 0 /\ Addressable(length - 1)
     /\ Mutates(Answer("erase_last", 0, << >>, 1),
                Written(body, length - 1, Fresh, ElemAlone(length - 1)), length - 1)

\* Mutant: the index is compared with a length that was not validated.
Set_Unvalidated(i, v) ==
  /\ i < length
  /\ Addressable(i)
  /\ Mutates(Answer("set", i, << >>, 0), Written(body, i, v, MutAlone), length)

Set(i, v) ==
  \/ LenPanics("set", i)
  \/ BoundsPanics("set", i)
  \/ IndexInBoundsPanics("set", i)
  \/ /\ InBounds(i)
     /\ Mutates(Answer("set", i, << >>, 0), Written(body, i, v, MutAlone), length)

\* checked_mul(len, SLOTS) also fails when every element is addressable but
\* the slots they span together are not.
Clear ==
  \/ LenPanics("clear", 0)
  \/ /\ ~Malformed /\ PerSlot = 1 /\ length * Slots > MaxLen
     /\ Panics("clear", 0, "overflow")
  \/ /\ ~Malformed /\ (PerSlot > 1 \/ length * Slots <= MaxLen)
     /\ Mutates(Answer("clear", 0, << >>, 0), Zeroed(body, ClearedSlots(length)), 0)

Entry(i) ==
  \/ LenPanics("entry", i)
  \/ BoundsPanics("entry", i)
  \/ IndexInBoundsPanics("entry", i)
  \/ InBounds(i) /\ Opens(Answer("entry", i, << >>, 0), length, i)

\* A leaf cursor writes where its element was, without looking at the length.
CursorSet(i, v) ==
  /\ i \in cursor
  /\ body' = Written(body, i, v, MutAlone)
  /\ ret' = Answer("cursor_set", 0, << >>, 0)
  /\ UNCHANGED <<given, length, start, cursor, iter>>

CursorTake(i) ==
  /\ i \in cursor
  /\ body' = Written(body, i, Fresh, MutAlone)
  /\ ret' = Answer("cursor_take", 0, <<Element(body, i)>>, 0)
  /\ UNCHANGED <<given, length, start, cursor, iter>>

Get(i) ==
  \/ LenPanics("get", i)
  \/ BoundsPanics("get", i)
  \/ IndexInBoundsPanics("get", i)
  \/ InBounds(i) /\ Reads(Answer("get", i, <<Element(body, i)>>, 0))

\* Mutant: try_get reads the length as get does.
TryGet_Strict(i) ==
  \/ LenPanics("try_get", i)
  \/ ~Malformed /\ i >= length /\ Reads(Answer("try_get", i, << >>, 0))
  \/ InBounds(i) /\ Reads(Answer("try_get", i, <<Element(body, i)>>, 0))

TryGet(i) ==
  \/ i >= CheckedLen /\ Reads(Answer("try_get", i, << >>, 0))
  \/ IndexInBoundsPanics("try_get", i)
  \/ InBounds(i) /\ Reads(Answer("try_get", i, <<Element(body, i)>>, 0))

Last ==
  \/ CheckedLen = 0 /\ Reads(Answer("last", 0, << >>, 0))
  \/ LastPanics("last")
  \/ /\ CheckedLen > 0 /\ Addressable(length - 1)
     /\ Reads(Answer("last", 0, <<Element(body, length - 1)>>, 0))

Length ==
  \/ LenPanics("len", 0)
  \/ ~Malformed /\ Reads(Answer("len", 0, << >>, length))

Iterates(answer, it) ==
  /\ iter' = it
  /\ ret' = answer
  /\ cursor' = KeptCursor
  /\ UNCHANGED <<given, length, body, start>>

Iter == Iterates(Answer("iter", 0, << >>, CheckedLen), [pos |-> 0, len |-> CheckedLen])

Forward ==
  \/ iter.pos >= iter.len /\ Iterates(Answer("next", 0, << >>, 0), iter)
  \/ iter.pos < iter.len /\ IndexPanics("next", 0, iter.pos)
  \/ /\ iter.pos < iter.len /\ Addressable(iter.pos)
     /\ Iterates(Answer("next", 0, <<Element(body, iter.pos)>>, 0),
                 [iter EXCEPT !.pos = @ + 1])

Backward ==
  \/ iter.pos >= iter.len /\ Iterates(Answer("next_back", 0, << >>, 0), iter)
  \/ iter.pos < iter.len /\ IndexPanics("next_back", 0, iter.len - 1)
  \/ /\ iter.pos < iter.len /\ Addressable(iter.len - 1)
     /\ Iterates(Answer("next_back", 0, <<Element(body, iter.len - 1)>>, 0),
                 [iter EXCEPT !.len = @ - 1])

\* The call returns: what it wrote is final, and its handles are gone.
EndCall ==
  /\ start' = [length |-> length, body |-> body]
  /\ cursor' = {}
  /\ iter' = NoIter
  /\ ret' = Answer("return", 0, << >>, 0)
  /\ UNCHANGED <<given, length, body>>

-----------------------------------------------------------------------------
\* Storage is fresh, or raw uAPI or an older layout left any length in it.
Init ==
  /\ shape \in Shapes
  /\ \/ corrupt = FALSE /\ length = 0
     \/ corrupt = TRUE /\ length \in Corrupt
  /\ body = [s \in BodySlots |-> ZeroSlot]
  /\ start = [length |-> length, body |-> body]
  /\ cursor = {}
  /\ iter = NoIter
  /\ ret = Answer("return", 0, << >>, 0)

Next ==
  \/ \E v \in Elements : Push(v) \/ \E i \in Indices : Set(i, v) \/ CursorSet(i, v)
  \/ \E i \in Indices : Entry(i) \/ CursorTake(i) \/ Get(i) \/ TryGet(i)
  \/ Pop \/ EraseLast \/ Clear \/ Grow \/ Last \/ Length
  \/ Iter \/ Forward \/ Backward \/ EndCall

Spec == Init /\ [][Next]_vars

-----------------------------------------------------------------------------
(* Properties                                                              *)

\* The array as a contract sees it; a malformed length reads as empty.
Contents(n, b) == [k \in 1..(IF n > MaxLen THEN 0 ELSE n) |-> Element(b, k - 1)]

Yet == SubSeq(Contents(length, body), iter.pos + 1, iter.len)

Abstract == INSTANCE StorageSeq WITH
  Elements <- UNION {[0..(s.slots - 1) -> Words] : s \in Shapes},
  fresh <- Fresh,
  trusted <- ~corrupt,
  elems <- Contents(length, body),
  start <- Contents(start.length, start.body),
  rest <- Yet

\* StorageVec is a sequence: every operation does to the slots, packed, spread
\* or shared, what it promises to do to the array, panics undo the call, and
\* an iterator consumed from both ends yields each element exactly once.
IsASequence == Abstract!Spec

\* Storage past the last element is zero, which is what makes `grow`, which
\* writes no element, append a zero one.
ZeroPastEnd ==
  ~corrupt => \A s \in BodySlots, l \in Lanes :
    (IF PerSlot > 1 THEN s * PerSlot + l >= length ELSE s >= length * Slots)
      => body[s][l] = Zero

\* lib.rs "Append a fresh (zero) element": the element `grow` adds reads zero.
GrowAppendsZero ==
  [][ret'.op = "grow" /\ ret'.panic = "none" => Element(body', length) = Fresh]_vars

TryReads == {"try_get", "last", "iter", "next", "next_back"}

\* What the try readers keep to, which are said never to revert: a length slot
\* that decodes to no length, or to one that is out of step with the body, does
\* not make them; only an index whose slot lies beyond the index space does.
TryReadsOnlyOverflow ==
  ret.op \in TryReads /\ ret.panic # "none" => ret.panic = "overflow" /\ Slots > 1

\* While the length slot is malformed no operation touches an element: the
\* body changes only by rolling the call back.
MalformedLengthIsInert ==
  [][Malformed => body' = body \/ (body' = start.body /\ ret'.panic = "encoding")]_vars
=============================================================================
