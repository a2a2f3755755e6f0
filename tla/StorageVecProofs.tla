-------------------------- MODULE StorageVecProofs --------------------------
(* StorageVec is the sequence it promises to be, for any element types,     *)
(* contents and maximal length, when callers drop a cursor before the next  *)
(* operation.                                                               *)
EXTENDS StorageVec, TLAPS

\* The shape's numbers.
LEMMA ShapeNumbers ==
  ASSUME shape \in Shapes
  PROVE  /\ PerSlot \in Nat \ {0} /\ Slots \in Nat \ {0} /\ MaxLen \in Nat
         /\ PerSlot = 1 \/ Slots = 1
BY StorageVecAssumption DEF PerSlot, Slots

-----------------------------------------------------------------------------
(* Refusals                                                                *)

\* Numbers stay in their ranges, a malformed length has no cursor, and the
\* readers that should not panic only run out of index space.
BaseInv ==
  /\ shape \in Shapes /\ corrupt \in BOOLEAN
  /\ length \in 0..(MaxLen + 1) /\ start.length \in 0..(MaxLen + 1)
  /\ iter \in [pos : Nat, len : 0..MaxLen]
  /\ cursor \subseteq Nat
  /\ Malformed => cursor = {}
  /\ TryReadsOnlyOverflow

\* A contract starts without handles.
LEMMA InitBase == Init => BaseInv
<1> SUFFICES ASSUME Init PROVE BaseInv
  OBVIOUS
<1>1. shape \in Shapes /\ corrupt \in BOOLEAN /\ length \in 0..(MaxLen + 1)
  <2>1. shape \in Shapes /\ corrupt \in BOOLEAN
    BY DEF Init
  <2>2. length = 0 \/ length \in Corrupt
    BY DEF Init
  <2>3. \A n \in Corrupt : n \in 0..(MaxLen + 1)
    BY StorageVecAssumption
  <2>4. 0 \in 0..(MaxLen + 1)
    BY StorageVecAssumption
  <2> QED BY <2>1, <2>2, <2>3, <2>4
<1>2. start.length = length /\ iter \in [pos : Nat, len : 0..MaxLen] /\ cursor = {}
  BY StorageVecAssumption DEF Init, NoIter
<1>3. TryReadsOnlyOverflow
  BY DEF Init, Answer, TryReadsOnlyOverflow, TryReads
<1> QED BY <1>1, <1>2, <1>3 DEF BaseInv

\* An index within the length that cannot be located belongs to an element
\* of several slots.
LEMMA OverflowNeedsSlots ==
  ASSUME shape \in Shapes, NEW i \in 0..MaxLen, ~Addressable(i)
  PROVE  Slots > 1
<1>1. PerSlot = 1 /\ i * Slots > MaxLen /\ Slots \in Nat \ {0} /\ MaxLen \in Nat
  BY ShapeNumbers DEF Addressable
<1> QED BY <1>1

\* A panic returns to the start of the call.
LEMMA PanicBase ==
  ASSUME BaseInv, NEW op, NEW arg, NEW why, Panics(op, arg, why),
         op \in TryReads => why = "overflow" /\ Slots > 1
  PROVE  BaseInv'
<1>1. /\ length' = start.length /\ start' = start /\ shape' = shape /\ corrupt' = corrupt
      /\ cursor' = {} /\ iter' = NoIter
      /\ ret'.op = op /\ ret'.panic = why
  BY DEF Panics, given
<1>2. TryReadsOnlyOverflow'
  BY <1>1 DEF TryReadsOnlyOverflow, TryReads, Slots
<1>3. NoIter \in [pos : Nat, len : 0..MaxLen]
  BY StorageVecAssumption DEF NoIter
<1> QED BY <1>1, <1>2, <1>3 DEF BaseInv, Malformed

\* An answer within the bounds keeps the invariant.
LEMMA AnswerBase ==
  ASSUME BaseInv, UNCHANGED given, start' = start \/ start'.length = length, ret'.panic = "none",
         length' = length \/ length' \in 0..MaxLen,
         iter' \in [pos : Nat, len : 0..MaxLen],
         cursor' \subseteq Nat, length' > MaxLen => cursor' \subseteq cursor
  PROVE  BaseInv'
<1>1. TryReadsOnlyOverflow'
  BY DEF TryReadsOnlyOverflow
<1>2. length' \in 0..(MaxLen + 1) /\ start'.length \in 0..(MaxLen + 1)
  BY StorageVecAssumption DEF BaseInv
<1>3. length' > MaxLen => cursor' = {}
  BY <1>2, StorageVecAssumption DEF BaseInv, Malformed
<1> QED BY <1>1, <1>2, <1>3 DEF BaseInv, Malformed, given

\* The forms an operation answers in, each within the bounds.
LEMMA MutatesBase ==
  ASSUME BaseInv, NEW answer, answer.panic = "none", NEW b, NEW n,
         n \in 0..MaxLen, Mutates(answer, b, n)
  PROVE  BaseInv'
<1>1. NoIter \in [pos : Nat, len : 0..MaxLen]
  BY StorageVecAssumption DEF NoIter
<1>2. cursor' \subseteq cursor /\ cursor' \subseteq Nat
  BY DEF Mutates, KeptCursor, BaseInv
<1>3. UNCHANGED given /\ start' = start /\ ret'.panic = "none" /\ length' \in 0..MaxLen /\ iter' = NoIter
  BY DEF Mutates
<1> QED BY <1>1, <1>2, <1>3, AnswerBase

LEMMA OpensBase ==
  ASSUME BaseInv, NEW answer, answer.panic = "none", NEW n, NEW i \in Nat,
         n \in 0..MaxLen, Opens(answer, n, i)
  PROVE  BaseInv'
<1>1. NoIter \in [pos : Nat, len : 0..MaxLen]
  BY StorageVecAssumption DEF NoIter
<1>2. UNCHANGED given /\ start' = start /\ ret'.panic = "none" /\ length' \in 0..MaxLen
      /\ iter' = NoIter /\ cursor' = {i}
  BY DEF Opens
<1>3. ~(length' > MaxLen)
  BY <1>2, StorageVecAssumption
<1> QED BY <1>1, <1>2, <1>3, AnswerBase

LEMMA ReadsBase ==
  ASSUME BaseInv, NEW answer, answer.panic = "none", Reads(answer)
  PROVE  BaseInv'
<1>1. cursor' \subseteq cursor /\ cursor' \subseteq Nat
  BY DEF Reads, KeptCursor, BaseInv
<1>2. UNCHANGED given /\ start' = start /\ ret'.panic = "none" /\ length' = length /\ iter' = iter
  BY DEF Reads
<1>3. iter' \in [pos : Nat, len : 0..MaxLen]
  BY <1>2 DEF BaseInv
<1> QED BY <1>1, <1>2, <1>3, AnswerBase

LEMMA IteratesBase ==
  ASSUME BaseInv, NEW answer, answer.panic = "none", NEW it \in [pos : Nat, len : 0..MaxLen],
         Iterates(answer, it)
  PROVE  BaseInv'
<1>1. cursor' \subseteq cursor /\ cursor' \subseteq Nat
  BY DEF Iterates, KeptCursor, BaseInv
<1>2. UNCHANGED given /\ start' = start /\ ret'.panic = "none" /\ length' = length /\ iter' = it
  BY DEF Iterates
<1> QED BY <1>1, <1>2, AnswerBase

\* A refusal of an operation that may refuse; one of a reader, for want of
\* index space only.
LEMMA RefusalBase ==
  ASSUME BaseInv, NEW op, op \notin TryReads, NEW arg, NEW why, Panics(op, arg, why)
  PROVE  BaseInv'
BY PanicBase

LEMMA OverflowBase ==
  ASSUME BaseInv, NEW op, NEW arg, NEW i \in 0..MaxLen, IndexPanics(op, arg, i)
  PROVE  BaseInv'
BY PanicBase, OverflowNeedsSlots DEF IndexPanics, BaseInv

\* What an operation may rely on before it touches the element it names.
LEMMA Lengths ==
  ASSUME BaseInv
  PROVE  /\ MaxLen \in Nat /\ length \in 0..(MaxLen + 1) /\ 0 \in 0..MaxLen
         /\ ~Malformed => length \in 0..MaxLen
         /\ Malformed => length = MaxLen + 1
         /\ CheckedLen \in 0..MaxLen
         /\ CheckedLen > 0 => length - 1 \in 0..MaxLen /\ ~Malformed
         /\ \A i \in Indices : i < CheckedLen => i < length /\ ~Malformed
BY StorageVecAssumption DEF BaseInv, Malformed, CheckedLen, Indices

LEMMA AnswersCalmly ==
  ASSUME NEW op, NEW arg, NEW out, NEW n
  PROVE  Answer(op, arg, out, n).panic = "none"
BY DEF Answer

LEMMA GrowthBase ==
  ASSUME BaseInv, Grow \/ \E v \in Elements : Push(v)
  PROVE  BaseInv'
<1> USE Lengths, AnswersCalmly
<1>1. "push" \notin TryReads /\ "grow" \notin TryReads
  BY DEF TryReads
<1>2. CASE Grow
  <2>1. CASE LenPanics("grow", 0) \/ GrowthPanics("grow")
    BY <1>1, <2>1, RefusalBase DEF LenPanics, GrowthPanics
  <2>2. CASE length < MaxLen /\ IndexPanics("grow", 0, length)
    BY <2>2, OverflowBase
  <2>3. CASE /\ length < MaxLen /\ Addressable(length)
             /\ Opens(Answer("grow", 0, << >>, 0), length + 1, length)
    <3>1. length + 1 \in 0..MaxLen /\ length \in Nat
      BY <2>3
    <3> QED BY <2>3, <3>1, OpensBase
  <2> QED BY <1>2, <2>1, <2>2, <2>3 DEF Grow
<1>3. ASSUME NEW v \in Elements, Push(v) PROVE BaseInv'
  <2>1. CASE LenPanics("push", 0) \/ GrowthPanics("push")
    BY <1>1, <2>1, RefusalBase DEF LenPanics, GrowthPanics
  <2>2. CASE length < MaxLen /\ IndexPanics("push", 0, length)
    BY <2>2, OverflowBase
  <2>3. CASE /\ length < MaxLen /\ Addressable(length)
             /\ Mutates(Answer("push", 0, << >>, 0), Written(body, length, v, MutAlone), length + 1)
    <3>1. length + 1 \in 0..MaxLen
      BY <2>3
    <3> QED BY <2>3, <3>1, MutatesBase
  <2> QED BY <1>3, <2>1, <2>2, <2>3 DEF Push
<1> QED BY <1>2, <1>3

LEMMA ShrinkBase ==
  ASSUME BaseInv, Pop \/ EraseLast \/ Clear
  PROVE  BaseInv'
<1> USE Lengths, AnswersCalmly
<1>1. "pop" \notin TryReads /\ "erase_last" \notin TryReads /\ "clear" \notin TryReads
  BY DEF TryReads
<1>2. CASE Pop
  <2>1. CASE LenPanics("pop", 0)
    BY <1>1, <2>1, RefusalBase DEF LenPanics
  <2>2. CASE LastPanics("pop")
    BY <2>2, OverflowBase DEF LastPanics
  <2>3. CASE length = 0 /\ Mutates(Answer("pop", 0, << >>, 0), body, 0)
    BY <2>3, MutatesBase
  <2>4. CASE /\ CheckedLen > 0 /\ Addressable(length - 1)
             /\ Mutates(Answer("pop", 0, <<Element(body, length - 1)>>, 0),
                        Written(body, length - 1, Fresh, ElemAlone(length - 1)), length - 1)
    BY <2>4, MutatesBase
  <2> QED BY <1>2, <2>1, <2>2, <2>3, <2>4 DEF Pop
<1>3. CASE EraseLast
  <2>1. CASE LenPanics("erase_last", 0)
    BY <1>1, <2>1, RefusalBase DEF LenPanics
  <2>2. CASE LastPanics("erase_last")
    BY <2>2, OverflowBase DEF LastPanics
  <2>3. CASE length = 0 /\ Mutates(Answer("erase_last", 0, << >>, 0), body, 0)
    BY <2>3, MutatesBase
  <2>4. CASE /\ CheckedLen > 0 /\ Addressable(length - 1)
             /\ Mutates(Answer("erase_last", 0, << >>, 1),
                        Written(body, length - 1, Fresh, ElemAlone(length - 1)), length - 1)
    BY <2>4, MutatesBase
  <2> QED BY <1>3, <2>1, <2>2, <2>3, <2>4 DEF EraseLast
<1>4. CASE Clear
  <2>1. CASE LenPanics("clear", 0)
    BY <1>1, <2>1, RefusalBase DEF LenPanics
  <2>2. CASE Panics("clear", 0, "overflow")
    BY <1>1, <2>2, RefusalBase
  <2>3. CASE Mutates(Answer("clear", 0, << >>, 0), Zeroed(body, ClearedSlots(length)), 0)
    BY <2>3, MutatesBase
  <2> QED BY <1>4, <2>1, <2>2, <2>3 DEF Clear
<1> QED BY <1>2, <1>3, <1>4

LEMMA IndexedBase ==
  ASSUME BaseInv, NEW i \in Indices,
         Entry(i) \/ Get(i) \/ TryGet(i) \/ \E v \in Elements : Set(i, v)
  PROVE  BaseInv'
<1> USE Lengths, AnswersCalmly
<1>1. {"entry", "get", "set"} \intersect TryReads = {} /\ i \in 0..MaxLen /\ i \in Nat
  BY DEF TryReads, Indices
<1>2. ASSUME NEW op, op \in {"entry", "get", "set"}, LenPanics(op, i) \/ BoundsPanics(op, i)
      PROVE  BaseInv'
  <2>1. op \notin TryReads
    BY <1>1, <1>2
  <2> QED BY <1>2, <2>1, RefusalBase DEF LenPanics, BoundsPanics
<1>3. ASSUME NEW op, IndexInBoundsPanics(op, i)
      PROVE  BaseInv'
  BY <1>1, <1>3, OverflowBase DEF IndexInBoundsPanics
<1>4. InBounds(i) => length \in 0..MaxLen
  BY DEF InBounds
<1>5. CASE Entry(i)
  <2>1. CASE InBounds(i) /\ Opens(Answer("entry", i, << >>, 0), length, i)
    BY <1>1, <1>4, <2>1, OpensBase
  <2> QED BY <1>2, <1>3, <1>5, <2>1 DEF Entry
<1>6. CASE Get(i)
  <2>1. CASE InBounds(i) /\ Reads(Answer("get", i, <<Element(body, i)>>, 0))
    BY <2>1, ReadsBase
  <2> QED BY <1>2, <1>3, <1>6, <2>1 DEF Get
<1>7. CASE TryGet(i)
  <2>1. CASE Reads(Answer("try_get", i, << >>, 0))
    BY <2>1, ReadsBase
  <2>2. CASE Reads(Answer("try_get", i, <<Element(body, i)>>, 0))
    BY <2>2, ReadsBase
  <2> QED BY <1>3, <1>7, <2>1, <2>2 DEF TryGet
<1>8. ASSUME NEW v \in Elements, Set(i, v) PROVE BaseInv'
  <2>1. CASE InBounds(i) /\ Mutates(Answer("set", i, << >>, 0), Written(body, i, v, MutAlone), length)
    BY <1>4, <2>1, MutatesBase
  <2> QED BY <1>2, <1>3, <1>8, <2>1 DEF Set
<1> QED BY <1>5, <1>6, <1>7, <1>8

LEMMA ReaderBase ==
  ASSUME BaseInv, Last \/ Length \/ Iter \/ Forward \/ Backward
  PROVE  BaseInv'
<1> USE Lengths, AnswersCalmly
<1>1. CASE Last
  <2>1. CASE LastPanics("last")
    BY <2>1, OverflowBase DEF LastPanics
  <2>2. CASE \E out : Reads(Answer("last", 0, out, 0))
    BY <2>2, ReadsBase
  <2> QED BY <1>1, <2>1, <2>2 DEF Last
<1>2. CASE Length
  <2>1. CASE LenPanics("len", 0)
    <3>1. "len" \notin TryReads
      BY DEF TryReads
    <3> QED BY <2>1, <3>1, RefusalBase DEF LenPanics
  <2>2. CASE Reads(Answer("len", 0, << >>, length))
    BY <2>2, ReadsBase
  <2> QED BY <1>2, <2>1, <2>2 DEF Length
<1>3. iter \in [pos : Nat, len : 0..MaxLen]
  BY DEF BaseInv
<1>4. CASE Iter
  <2>1. [pos |-> 0, len |-> CheckedLen] \in [pos : Nat, len : 0..MaxLen]
    OBVIOUS
  <2> QED BY <1>4, <2>1, IteratesBase DEF Iter
<1>5. CASE Forward
  <2>1. CASE Iterates(Answer("next", 0, << >>, 0), iter)
    BY <1>3, <2>1, IteratesBase
  <2>2. CASE iter.pos < iter.len /\ IndexPanics("next", 0, iter.pos)
    BY <1>3, <2>2, OverflowBase
  <2>3. CASE Iterates(Answer("next", 0, <<Element(body, iter.pos)>>, 0), [iter EXCEPT !.pos = @ + 1])
    <3>1. [iter EXCEPT !.pos = @ + 1] \in [pos : Nat, len : 0..MaxLen]
      BY <1>3
    <3> QED BY <2>3, <3>1, IteratesBase
  <2> QED BY <1>5, <2>1, <2>2, <2>3 DEF Forward
<1>6. CASE Backward
  <2>1. CASE Iterates(Answer("next_back", 0, << >>, 0), iter)
    BY <1>3, <2>1, IteratesBase
  <2>2. CASE iter.pos < iter.len /\ IndexPanics("next_back", 0, iter.len - 1)
    BY <1>3, <2>2, OverflowBase
  <2>3. CASE /\ iter.pos < iter.len
             /\ Iterates(Answer("next_back", 0, <<Element(body, iter.len - 1)>>, 0),
                         [iter EXCEPT !.len = @ - 1])
    <3>1. [iter EXCEPT !.len = @ - 1] \in [pos : Nat, len : 0..MaxLen]
      BY <1>3, <2>3
    <3> QED BY <2>3, <3>1, IteratesBase
  <2> QED BY <1>6, <2>1, <2>2, <2>3 DEF Backward
<1> QED BY <1>1, <1>2, <1>4, <1>5, <1>6

\* A cursor and the end of a call leave the length alone.
LEMMA CursorBase ==
  ASSUME BaseInv, NEW i,
         CursorTake(i) \/ EndCall \/ \E v \in Elements : CursorSet(i, v)
  PROVE  BaseInv'
<1>1. /\ UNCHANGED given /\ length' = length /\ ret'.panic = "none"
      /\ start' = start \/ start'.length = length
      /\ cursor' \subseteq cursor /\ iter' \in {iter, NoIter}
  BY DEF CursorTake, CursorSet, EndCall, Answer
<1>2. iter' \in [pos : Nat, len : 0..MaxLen] /\ cursor' \subseteq Nat
  BY <1>1, StorageVecAssumption DEF NoIter, BaseInv
<1> QED BY <1>1, <1>2, AnswerBase

LEMMA StepBase ==
  ASSUME BaseInv, [Next]_vars
  PROVE  BaseInv'
<1>1. CASE Next
  BY <1>1, GrowthBase, ShrinkBase, IndexedBase, ReaderBase, CursorBase DEF Next
<1>2. CASE UNCHANGED vars
  BY <1>2 DEF vars, BaseInv, Malformed, TryReadsOnlyOverflow, Slots
<1> QED BY <1>1, <1>2

\* A reader of the try family does not revert on a length slot that decodes
\* to nothing or is out of step with the body (lib.rs, try_read_len): only an
\* element of several slots whose index has no slot stops it.
THEOREM TryReadersOnlyOverflow == Spec => []TryReadsOnlyOverflow
<1>1. Spec => []BaseInv
  BY InitBase, StepBase, PTL DEF Spec
<1>2. BaseInv => TryReadsOnlyOverflow
  BY DEF BaseInv
<1> QED BY <1>1, <1>2, PTL

\* Every writer reads the length before it touches an element, so a slot that
\* decodes to no length (read_len reverts) leaves the body alone.
LEMMA MalformedStep ==
  ASSUME BaseInv, [Next]_vars, Malformed
  PROVE  body' = body \/ (body' = start.body /\ ret'.panic = "encoding")
<1>1. length = MaxLen + 1 /\ MaxLen \in Nat /\ CheckedLen = 0 /\ cursor = {}
      /\ length # 0 /\ ~(length < MaxLen) /\ length # MaxLen
  BY Lengths DEF BaseInv, CheckedLen
<1>2. \A op, arg : LenPanics(op, arg) => body' = start.body /\ ret'.panic = "encoding"
  BY DEF LenPanics, Panics
<1>3. \A op, i, arg, j : ~BoundsPanics(op, i) /\ ~IndexPanics(op, arg, j)
      /\ ~IndexInBoundsPanics(op, i) /\ ~LastPanics(op) /\ ~GrowthPanics(op) /\ ~InBounds(j)
  BY <1>1 DEF BoundsPanics, IndexPanics, IndexInBoundsPanics, LastPanics, GrowthPanics, InBounds
<1>4. \A answer, it : Reads(answer) \/ Iterates(answer, it) => body' = body
  BY DEF Reads, Iterates
<1>5. ASSUME NEW v \in Elements, Push(v) \/ \E i \in Indices : Set(i, v) \/ CursorSet(i, v)
      PROVE  body' = start.body /\ ret'.panic = "encoding"
  BY <1>1, <1>2, <1>3, <1>5 DEF Push, Set, CursorSet
<1>6. ASSUME NEW i \in Indices, Entry(i) \/ CursorTake(i) \/ Get(i)
      PROVE  body' = start.body /\ ret'.panic = "encoding"
  BY <1>1, <1>2, <1>3, <1>6 DEF Entry, CursorTake, Get
<1>7. ASSUME Pop \/ EraseLast \/ Clear \/ Grow \/ Length
      PROVE  body' = start.body /\ ret'.panic = "encoding"
  <2>1. CASE Pop \/ EraseLast
    BY <1>1, <1>2, <1>3, <2>1 DEF Pop, EraseLast
  <2>2. CASE Clear \/ Grow \/ Length
    BY <1>1, <1>2, <1>3, <2>2 DEF Clear, Grow, Length
  <2> QED BY <1>7, <2>1, <2>2
<1>8. ASSUME (\E i \in Indices : TryGet(i)) \/ Last \/ Iter \/ Forward \/ Backward
      PROVE  body' = body
  BY <1>1, <1>3, <1>4, <1>8 DEF TryGet, Last, Iter, Forward, Backward
<1>9. CASE EndCall \/ UNCHANGED vars
  BY <1>9 DEF EndCall, vars
<1> QED BY <1>5, <1>6, <1>7, <1>8, <1>9 DEF Next

THEOREM MalformedIsInert == Spec => MalformedLengthIsInert
<1>1. BaseInv /\ [Next]_vars
      => [Malformed => body' = body \/ (body' = start.body /\ ret'.panic = "encoding")]_vars
  BY MalformedStep
<1>2. Spec => []BaseInv
  BY InitBase, StepBase, PTL DEF Spec
<1> QED BY <1>1, <1>2, PTL DEF Spec, MalformedLengthIsInert

-----------------------------------------------------------------------------
(* Elements and their slots                                                *)

Bodies == [BodySlots -> [Lanes -> Words]]

\* Lane l of slot s is past the first n elements; all of those read as zero.
Past(s, l, n) == IF PerSlot > 1 THEN s * PerSlot + l >= n ELSE s >= n * Slots
ZeroFrom(n, b) == \A s \in BodySlots, l \in Lanes : Past(s, l, n) => b[s][l] = Zero

\* A length an operation wrote, over a body of which every element has slots
\* of its own and everything behind the last one is zero.
Holds(n, b) ==
  /\ n \in 0..MaxLen
  /\ b \in Bodies
  /\ ZeroFrom(n, b)
  /\ n > 0 => Addressable(n - 1)

\* Arithmetic of lanes and slots.
LEMMA DivMod ==
  ASSUME NEW p \in Nat \ {0}, NEW i \in Nat
  PROVE  /\ (i \div p) * p + (i % p) = i
         /\ i \div p \in Nat /\ i % p \in 0..(p - 1)
OBVIOUS

LEMMA LaneNumbers ==
  ASSUME shape \in Shapes, NEW i \in Nat
  PROVE  /\ (i \div PerSlot) * PerSlot + Lane(i) = i
         /\ i \div PerSlot \in Nat /\ Lane(i) \in 0..(PerSlot - 1) /\ Lane(i) \in Lanes
<1>1. PerSlot \in Nat \ {0}
  BY ShapeNumbers
<1> HIDE DEF PerSlot
<1> QED BY <1>1, DivMod DEF Lane, Lanes

LEMMA DivModUnique ==
  ASSUME NEW p \in Nat \ {0}, NEW q \in Nat, NEW r \in Nat, NEW u \in 0..(p - 1), NEW w \in 0..(p - 1),
         q * p + u = r * p + w
  PROVE  q = r /\ u = w
<1>1. CASE q < r
  <2>1. (q + 1) * p <= r * p
    BY <1>1
  <2>2. (q + 1) * p = q * p + p
    OBVIOUS
  <2> QED BY <2>1, <2>2
<1>2. CASE r < q
  <2>1. (r + 1) * p <= q * p
    BY <1>2
  <2>2. (r + 1) * p = r * p + p
    OBVIOUS
  <2> QED BY <2>1, <2>2
<1> QED BY <1>1, <1>2

\* Every slot an element covers is a body slot, and every lane a lane.
LEMMA ElementInBody ==
  ASSUME shape \in Shapes, NEW i \in 0..MaxLen, Addressable(i), NEW w \in 0..(Slots - 1)
  PROVE  /\ SlotIndex(i) \in Nat /\ SlotIndex(i) + w \in BodySlots
         /\ Lane(i) \in Lanes
<1> USE ShapeNumbers
<1>1. CASE PerSlot > 1
  <2>1. i \div PerSlot \in Nat /\ i \div PerSlot <= MaxLen \div PerSlot /\ i % PerSlot \in 0..(PerSlot - 1)
    BY <1>1
  <2>2. w = 0 /\ Slots = 1
    BY <1>1
  <2>3. MaxLen \div PerSlot \in Nat
    OBVIOUS
  <2> HIDE DEF PerSlot, Slots
  <2> QED BY <1>1, <2>1, <2>2, <2>3 DEF SlotIndex, BodySlots, Lane, Lanes
<1>2. CASE PerSlot = 1
  <2>1. MaxLen \div PerSlot = MaxLen /\ i % PerSlot = 0
    BY <1>2
  <2>2. i * Slots <= MaxLen /\ i * Slots \in Nat
    BY <1>2 DEF Addressable
  <2> QED BY <1>2, <2>1, <2>2 DEF SlotIndex, BodySlots, Lane, Lanes
<1> QED BY <1>1, <1>2

\* No two elements share a lane.
LEMMA ElementsApart ==
  ASSUME shape \in Shapes, NEW i \in Nat, NEW j \in Nat,
         NEW u \in 0..(Slots - 1), NEW w \in 0..(Slots - 1),
         SlotIndex(i) + u = SlotIndex(j) + w, Lane(i) = Lane(j)
  PROVE  i = j /\ u = w
<1> USE ShapeNumbers
<1>1. CASE PerSlot > 1
  <2>1. u = 0 /\ w = 0
    BY <1>1
  <2>2. i \div PerSlot \in Nat /\ j \div PerSlot \in Nat /\ i \div PerSlot = j \div PerSlot
    BY <1>1, <2>1, LaneNumbers DEF SlotIndex
  <2> QED BY <2>1, <2>2, LaneNumbers
<1>2. CASE PerSlot = 1
  <2>1. i * Slots + u = j * Slots + w
    BY <1>2 DEF SlotIndex
  <2> QED BY <2>1, DivModUnique
<1> QED BY <1>1, <1>2

\* The lanes past the first n elements are those of the later elements.
LEMMA PastOfElement ==
  ASSUME shape \in Shapes, NEW i \in Nat, NEW n \in Nat, NEW w \in 0..(Slots - 1)
  PROVE  Past(SlotIndex(i) + w, Lane(i), n) <=> i >= n
<1> USE ShapeNumbers
<1>1. CASE PerSlot > 1
  <2>1. w = 0
    BY <1>1
  <2>2. Past(SlotIndex(i) + w, Lane(i), n) <=> (i \div PerSlot + w) * PerSlot + Lane(i) >= n
    BY <1>1 DEF Past, SlotIndex
  <2>3. i \div PerSlot + w = i \div PerSlot
    BY <2>1, LaneNumbers
  <2> QED BY <2>2, <2>3, LaneNumbers
<1>2. CASE PerSlot = 1
  <2>1. Past(SlotIndex(i) + w, Lane(i), n) <=> i * Slots + w >= n * Slots
    BY <1>2 DEF Past, SlotIndex
  <2>2. CASE i >= n
    <3>1. i * Slots >= n * Slots
      BY <2>2
    <3> QED BY <2>1, <2>2, <3>1
  <2>3. CASE i + 1 <= n
    <3>1. (i + 1) * Slots <= n * Slots /\ (i + 1) * Slots = i * Slots + Slots
      BY <2>3
    <3> QED BY <2>1, <2>3, <3>1
  <2> QED BY <2>2, <2>3
<1> QED BY <1>1, <1>2

LEMMA PastNext ==
  ASSUME shape \in Shapes, NEW n \in Nat, NEW s \in Nat, NEW l \in Lanes, Past(s, l, n)
  PROVE  Past(s, l, n + 1) \/ (l = Lane(n) /\ s - SlotIndex(n) \in 0..(Slots - 1))
<1> USE ShapeNumbers
<1>1. CASE PerSlot > 1 /\ s * PerSlot + l = n
  <2>1. (n \div PerSlot) * PerSlot + Lane(n) = s * PerSlot + l
    BY <1>1, LaneNumbers
  <2>2. l \in 0..(PerSlot - 1) /\ Lane(n) \in 0..(PerSlot - 1)
        /\ n \div PerSlot \in Nat /\ PerSlot \in Nat \ {0}
    BY LaneNumbers DEF Lanes
  <2> HIDE ShapeNumbers
  <2>3. s = n \div PerSlot /\ l = Lane(n)
    BY <2>1, <2>2, DivModUnique
  <2>4. s - SlotIndex(n) = 0 /\ 0 \in 0..(Slots - 1)
    BY <1>1, <2>3, ShapeNumbers DEF SlotIndex
  <2> QED BY <2>3, <2>4
<1>2. CASE PerSlot > 1 /\ s * PerSlot + l # n
  BY <1>2 DEF Past, Lanes
<1>3. CASE PerSlot = 1
  <2>1. l = 0 /\ Lane(n) = 0 /\ SlotIndex(n) = n * Slots /\ s >= n * Slots
    BY <1>3 DEF Past, Lanes, Lane, SlotIndex
  <2>2. (n + 1) * Slots = n * Slots + Slots
    OBVIOUS
  <2> QED BY <1>3, <2>1, <2>2 DEF Past
<1> QED BY <1>1, <1>2, <1>3

LEMMA PastLess ==
  ASSUME shape \in Shapes, NEW n \in Nat, NEW m \in Nat, n <= m,
         NEW s \in Nat, NEW l \in Lanes, Past(s, l, m)
  PROVE  Past(s, l, n)
<1>1. n * Slots <= m * Slots
  BY ShapeNumbers
<1> QED BY <1>1, ShapeNumbers DEF Past, Lanes

\* An element below the last has slots if the last has.
LEMMA AddressableBelow ==
  ASSUME shape \in Shapes, NEW n \in Nat, n > 0, Addressable(n - 1), NEW i \in 0..(n - 1)
  PROVE  Addressable(i)
<1>1. i * Slots <= (n - 1) * Slots /\ i * Slots \in Nat /\ (n - 1) * Slots \in Nat
  BY ShapeNumbers
<1> QED BY <1>1, ShapeNumbers DEF Addressable

-----------------------------------------------------------------------------
(* What a write does                                                       *)

\* A write may take the whole slot when the element has it to itself, or when
\* it is the last element and nothing follows it in the slot.
MayOverwrite(alone, i, j) == alone => PerSlot = 1 \/ (Lane(i) = 0 /\ j < i)

LEMMA WrittenLane ==
  ASSUME NEW b, NEW i, NEW v, NEW alone, NEW s \in BodySlots, NEW l \in Lanes
  PROVE  Written(b, i, v, alone)[s][l] =
           IF s - SlotIndex(i) \in 0..(Slots - 1)
           THEN IF l = Lane(i) THEN v[s - SlotIndex(i)] ELSE IF alone THEN Zero ELSE b[s][l]
           ELSE b[s][l]
BY DEF Written

LEMMA WrittenInBodies ==
  ASSUME NEW b \in Bodies, NEW i, NEW v \in Elements, NEW alone
  PROVE  Written(b, i, v, alone) \in Bodies
<1>1. ASSUME NEW s \in BodySlots, s - SlotIndex(i) \in 0..(Slots - 1)
      PROVE  v[s - SlotIndex(i)] \in Words
  BY <1>1 DEF Elements
<1>2. ASSUME NEW s \in BodySlots PROVE b[s] \in [Lanes -> Words]
  BY DEF Bodies
<1>3. ASSUME NEW s \in BodySlots
      PROVE  (IF s - SlotIndex(i) \in 0..(Slots - 1)
              THEN [l \in Lanes |-> IF l = Lane(i) THEN v[s - SlotIndex(i)]
                                    ELSE IF alone THEN Zero ELSE b[s][l]]
              ELSE b[s]) \in [Lanes -> Words]
  BY <1>1, <1>2, StorageVecAssumption
<1> QED BY <1>3 DEF Written, Bodies

\* A write changes its element and no other.
LEMMA WrittenElement ==
  ASSUME shape \in Shapes, NEW b, NEW v \in Elements, NEW alone,
         NEW i \in 0..MaxLen, Addressable(i), NEW j \in 0..MaxLen, Addressable(j),
         j = i \/ MayOverwrite(alone, i, j)
  PROVE  Element(Written(b, i, v, alone), j) = IF j = i THEN v ELSE Element(b, j)
<1> USE ShapeNumbers
<1> DEFINE W == Written(b, i, v, alone)
<1>1. ASSUME NEW w \in 0..(Slots - 1)
      PROVE  W[SlotIndex(j) + w][Lane(j)] = IF j = i THEN v[w] ELSE b[SlotIndex(j) + w][Lane(j)]
  <2>1. SlotIndex(j) + w \in BodySlots /\ Lane(j) \in Lanes /\ SlotIndex(i) \in Nat
        /\ SlotIndex(j) \in Nat /\ Lane(i) \in Lanes
    <3>1. 0 \in 0..(Slots - 1)
      OBVIOUS
    <3> QED BY <3>1, ElementInBody
  <2> DEFINE k == SlotIndex(j) + w - SlotIndex(i)
  <2>2. CASE j = i
    BY <2>1, <2>2, WrittenLane
  <2>3. CASE j # i /\ k \in 0..(Slots - 1)
    <3>1. SlotIndex(i) + k = SlotIndex(j) + w
      BY <2>1
    <3>2. Lane(j) # Lane(i)
      BY <2>3, <3>1, ElementsApart
    <3>3. ~alone
      <4> SUFFICES ASSUME alone PROVE FALSE
        OBVIOUS
      <4>1. PerSlot > 1
        BY <2>1, <3>2 DEF Lanes
      <4>2. Lane(i) = 0 /\ j < i /\ w = 0 /\ k = 0
        BY <2>3, <4>1 DEF MayOverwrite
      <4>3. i \div PerSlot = j \div PerSlot
        <5>1. SlotIndex(i) = SlotIndex(j)
          BY <2>1, <4>2
        <5> QED BY <4>1, <5>1 DEF SlotIndex
      <4> QED BY <4>2, <4>3, LaneNumbers
    <3> QED BY <2>1, <2>3, <3>2, <3>3, WrittenLane
  <2>4. CASE j # i /\ k \notin 0..(Slots - 1)
    BY <2>1, <2>4, WrittenLane
  <2> QED BY <2>2, <2>3, <2>4
<1>2. CASE j = i
  BY <1>1, <1>2 DEF Element, Elements
<1>3. CASE j # i
  BY <1>1, <1>3 DEF Element
<1> QED BY <1>2, <1>3

\* A write leaves the lanes past the array zero, as long as its element is in
\* it; one that zeroes the last element leaves that one zero too.
LEMMA WrittenZero ==
  ASSUME shape \in Shapes, NEW b, NEW v, NEW alone,
         NEW i \in 0..MaxLen, Addressable(i), NEW n \in Nat, NEW m \in Nat, ZeroFrom(n, b),
         (n <= m /\ i < m) \/ (n = m + 1 /\ i = m /\ v = Fresh)
  PROVE  ZeroFrom(m, Written(b, i, v, alone))
<1> USE ShapeNumbers
<1> SUFFICES ASSUME NEW s \in BodySlots, NEW l \in Lanes, Past(s, l, m)
             PROVE  Written(b, i, v, alone)[s][l] = Zero
  BY DEF ZeroFrom
<1> DEFINE k == s - SlotIndex(i)
<1>1. SlotIndex(i) \in Nat /\ s \in Nat
  <2>1. 0 \in 0..(Slots - 1)
    OBVIOUS
  <2>2. BodySlots \subseteq Nat
    BY DEF BodySlots
  <2> QED BY <2>1, <2>2, ElementInBody
<1>2. CASE n <= m /\ i < m
  <2>1. ~(k \in 0..(Slots - 1) /\ l = Lane(i))
    <3> SUFFICES ASSUME k \in 0..(Slots - 1), l = Lane(i) PROVE FALSE
      OBVIOUS
    <3>1. Past(SlotIndex(i) + k, Lane(i), m)
      BY <1>1
    <3> QED BY <1>2, <3>1, PastOfElement
  <2>2. b[s][l] = Zero
    BY <1>1, <1>2, PastLess DEF ZeroFrom
  <2> QED BY <2>1, <2>2, WrittenLane
<1>3. CASE n = m + 1 /\ i = m /\ v = Fresh
  <2>1. CASE k \in 0..(Slots - 1) /\ l = Lane(i)
    BY <1>3, <2>1, WrittenLane DEF Fresh
  <2>2. CASE ~(k \in 0..(Slots - 1) /\ l = Lane(i))
    <3>1. Past(s, l, n)
      BY <1>1, <1>3, <2>2, PastNext
    <3>2. b[s][l] = Zero
      BY <3>1 DEF ZeroFrom
    <3> QED BY <2>2, <3>2, WrittenLane
  <2> QED BY <2>1, <2>2
<1> QED BY <1>2, <1>3

\* Where nothing was written an element reads as fresh.
LEMMA ZeroElement ==
  ASSUME shape \in Shapes, NEW b, NEW n \in Nat, ZeroFrom(n, b),
         NEW i \in 0..MaxLen, Addressable(i), n <= i
  PROVE  Element(b, i) = Fresh
<1>1. ASSUME NEW w \in 0..(Slots - 1) PROVE b[SlotIndex(i) + w][Lane(i)] = Zero
  BY ElementInBody, PastOfElement DEF ZeroFrom
<1> QED BY <1>1 DEF Element, Fresh

-----------------------------------------------------------------------------
(* Nothing past the end                                                    *)

\* Slots only the array's operations wrote hold an array; a cursor's element
\* is in it; an iterator keeps to it.
VecInv ==
  /\ ~corrupt => Holds(length, body) /\ Holds(start.length, start.body)
  /\ cursor = {} \/ (iter = NoIter /\ \E i \in Nat : cursor = {i} /\ InBounds(i))
  /\ iter.pos <= iter.len /\ iter.len <= CheckedLen

\* A fresh contract holds the empty array.
LEMMA InitVec == Init => VecInv
<1> SUFFICES ASSUME Init PROVE VecInv
  OBVIOUS
<1>1. shape \in Shapes /\ cursor = {} /\ iter = NoIter /\ length \in 0..(MaxLen + 1)
  BY InitBase DEF Init, BaseInv
<1>2. iter.pos <= iter.len /\ iter.len <= CheckedLen
  BY <1>1, StorageVecAssumption DEF NoIter, CheckedLen
<1>3. body \in Bodies /\ ZeroFrom(0, body)
  BY StorageVecAssumption DEF Init, ZeroSlot, Bodies, ZeroFrom
<1>4. ~corrupt => length = 0
  BY DEF Init
<1>5. Holds(0, body)
  BY <1>3, StorageVecAssumption DEF Holds
<1>6. start.length = length /\ start.body = body
  BY DEF Init
<1> QED BY <1>1, <1>2, <1>4, <1>5, <1>6 DEF VecInv

\* The shape is the program's; the next state's is this one's.
LEMMA SameShape ==
  ASSUME shape' = shape
  PROVE  /\ Holds(length, body)' <=> Holds(length', body')
         /\ Holds(start.length, start.body)' <=> Holds(start'.length, start'.body)
         /\ \A i : Addressable(i)' <=> Addressable(i)
<1>1. PerSlot' = PerSlot /\ Slots' = Slots
  BY DEF PerSlot, Slots
<1>2. BodySlots' = BodySlots /\ Lanes' = Lanes
  BY <1>1 DEF BodySlots, Lanes
<1> QED BY <1>1, <1>2 DEF Holds, Bodies, ZeroFrom, Past, Addressable

\* The forms of an answer.
LEMMA MutatesVec ==
  ASSUME BaseInv, VecInv, ~OwnedCursors, NEW answer, NEW b, NEW n \in 0..MaxLen,
         Mutates(answer, b, n), ~corrupt => Holds(n, b)
  PROVE  VecInv'
<1>1. /\ body' = b /\ length' = n /\ shape' = shape /\ corrupt' = corrupt /\ start' = start
      /\ cursor' = {} /\ iter' = NoIter
  BY DEF Mutates, KeptCursor, given
<1>2. (iter.pos <= iter.len /\ iter.len <= CheckedLen)'
  BY <1>1, StorageVecAssumption DEF NoIter, CheckedLen, Malformed
<1>3. (~corrupt => Holds(length, body) /\ Holds(start.length, start.body))'
  BY <1>1, SameShape DEF VecInv
<1> QED BY <1>1, <1>2, <1>3 DEF VecInv

LEMMA OpensVec ==
  ASSUME BaseInv, VecInv, NEW answer, NEW n \in 0..MaxLen, NEW i \in Nat,
         i < n, Addressable(i), Opens(answer, n, i), ~corrupt => Holds(n, body)
  PROVE  VecInv'
<1>1. /\ body' = body /\ length' = n /\ shape' = shape /\ corrupt' = corrupt /\ start' = start
      /\ cursor' = {i} /\ iter' = NoIter
  BY DEF Opens, given
<1>2. (iter.pos <= iter.len /\ iter.len <= CheckedLen)'
  BY <1>1, StorageVecAssumption DEF NoIter, CheckedLen, Malformed
<1>3. (~corrupt => Holds(length, body) /\ Holds(start.length, start.body))'
  BY <1>1, SameShape DEF VecInv
<1>4. InBounds(i)'
  BY <1>1, SameShape, StorageVecAssumption DEF InBounds, Malformed
<1> QED BY <1>1, <1>2, <1>3, <1>4 DEF VecInv

LEMMA IteratesVec ==
  ASSUME BaseInv, VecInv, ~OwnedCursors, NEW answer, NEW it,
         it.pos <= it.len /\ it.len <= CheckedLen, Iterates(answer, it)
  PROVE  VecInv'
<1>1. /\ body' = body /\ length' = length /\ shape' = shape /\ corrupt' = corrupt /\ start' = start
      /\ cursor' = {} /\ iter' = it
  BY DEF Iterates, KeptCursor, given
<1>2. (iter.pos <= iter.len /\ iter.len <= CheckedLen)'
  BY <1>1 DEF CheckedLen, Malformed
<1>3. (~corrupt => Holds(length, body) /\ Holds(start.length, start.body))'
  BY <1>1, SameShape DEF VecInv
<1> QED BY <1>1, <1>2, <1>3 DEF VecInv

LEMMA ReadsVec ==
  ASSUME BaseInv, VecInv, ~OwnedCursors, NEW answer, Reads(answer)
  PROVE  VecInv'
BY IteratesVec DEF Reads, Iterates, VecInv

LEMMA PanicsVec ==
  ASSUME BaseInv, VecInv, NEW op, NEW arg, NEW why, Panics(op, arg, why)
  PROVE  VecInv'
<1>1. /\ body' = start.body /\ length' = start.length /\ shape' = shape /\ corrupt' = corrupt
      /\ start' = start /\ cursor' = {} /\ iter' = NoIter
  BY DEF Panics, given
<1>2. (iter.pos <= iter.len /\ iter.len <= CheckedLen)'
  BY <1>1, StorageVecAssumption DEF NoIter, CheckedLen, Malformed, BaseInv
<1>3. (~corrupt => Holds(length, body) /\ Holds(start.length, start.body))'
  BY <1>1, SameShape DEF VecInv
<1> QED BY <1>1, <1>2, <1>3 DEF VecInv

\* What each operation makes of an array.
LEMMA ContentsOf ==
  ASSUME shape \in Shapes, NEW n \in 0..MaxLen, NEW b
  PROVE  Contents(n, b) = [k \in 1..n |-> Element(b, k - 1)]
BY StorageVecAssumption DEF Contents

LEMMA ElementsBelow ==
  ASSUME shape \in Shapes, NEW n, NEW b, Holds(n, b), NEW k \in 1..n
  PROVE  k - 1 \in 0..MaxLen /\ Addressable(k - 1)
BY AddressableBelow, StorageVecAssumption DEF Holds

LEMMA FreshElement == Fresh \in Elements
BY StorageVecAssumption DEF Fresh, Elements

LEMMA PushHolds ==
  ASSUME shape \in Shapes, NEW n, NEW b, Holds(n, b), n < MaxLen, Addressable(n), NEW v \in Elements
  PROVE  /\ Holds(n + 1, Written(b, n, v, MutAlone))
         /\ Contents(n + 1, Written(b, n, v, MutAlone)) = Append(Contents(n, b), v)
<1> DEFINE W == Written(b, n, v, MutAlone)
<1>1. n \in 0..MaxLen /\ n + 1 \in 0..MaxLen /\ n \in Nat /\ b \in Bodies /\ ZeroFrom(n, b)
  BY StorageVecAssumption DEF Holds
<1>2. W \in Bodies
  BY <1>1, WrittenInBodies
<1>3. ZeroFrom(n + 1, W)
  BY <1>1, WrittenZero
<1>4. Holds(n + 1, W)
  BY <1>1, <1>2, <1>3 DEF Holds
<1>5. \A j : MayOverwrite(MutAlone, n, j)
  BY DEF MayOverwrite, MutAlone
<1>6. ASSUME NEW k \in 1..(n + 1)
      PROVE  Element(W, k - 1) = IF k = n + 1 THEN v ELSE Element(b, k - 1)
  BY <1>1, <1>4, <1>5, ElementsBelow, WrittenElement
<1> HIDE DEF W
<1>7. Contents(n + 1, W) = Append(Contents(n, b), v)
  BY <1>1, <1>6, ContentsOf
<1> QED BY <1>4, <1>7 DEF W

LEMMA GrowHolds ==
  ASSUME shape \in Shapes, NEW n, NEW b, Holds(n, b), n < MaxLen, Addressable(n)
  PROVE  /\ Holds(n + 1, b)
         /\ Contents(n + 1, b) = Append(Contents(n, b), Fresh)
<1>1. n \in 0..MaxLen /\ n + 1 \in 0..MaxLen /\ n \in Nat /\ b \in Bodies /\ ZeroFrom(n, b)
  BY StorageVecAssumption DEF Holds
<1>2. BodySlots \subseteq Nat
  BY DEF BodySlots
<1>3. ZeroFrom(n + 1, b)
  BY <1>1, <1>2, PastLess DEF ZeroFrom
<1>4. Holds(n + 1, b)
  BY <1>1, <1>3 DEF Holds
<1>5. Element(b, n) = Fresh
  BY <1>1, ZeroElement
<1>6. Contents(n + 1, b) = Append(Contents(n, b), Fresh)
  BY <1>1, <1>5, ContentsOf
<1> QED BY <1>4, <1>6

LEMMA SetHolds ==
  ASSUME shape \in Shapes, NEW n, NEW b, Holds(n, b), NEW i \in Nat, i < n, NEW v \in Elements
  PROVE  /\ Holds(n, Written(b, i, v, MutAlone))
         /\ Contents(n, Written(b, i, v, MutAlone)) = [Contents(n, b) EXCEPT ![i + 1] = v]
<1> DEFINE W == Written(b, i, v, MutAlone)
<1>1. /\ n \in 0..MaxLen /\ n \in Nat /\ b \in Bodies /\ ZeroFrom(n, b)
      /\ n > 0 => Addressable(n - 1)
  BY StorageVecAssumption DEF Holds
<1>2. i \in 0..MaxLen /\ i + 1 \in 1..n /\ (i + 1) - 1 = i
  BY <1>1, StorageVecAssumption
<1>3. Addressable(i)
  BY <1>2, ElementsBelow
<1>4. W \in Bodies
  BY <1>1, WrittenInBodies
<1>5. ZeroFrom(n, W)
  BY <1>1, <1>2, <1>3, WrittenZero
<1>6. Holds(n, W)
  BY <1>1, <1>4, <1>5 DEF Holds
<1>7. \A j : MayOverwrite(MutAlone, i, j)
  BY DEF MayOverwrite, MutAlone
<1>8. ASSUME NEW k \in 1..n
      PROVE  Element(W, k - 1) = IF k = i + 1 THEN v ELSE Element(b, k - 1)
  BY <1>1, <1>2, <1>3, <1>7, ElementsBelow, WrittenElement
<1> HIDE DEF W
<1>9. Contents(n, W) = [Contents(n, b) EXCEPT ![i + 1] = v]
  BY <1>1, <1>8, ContentsOf
<1> QED BY <1>6, <1>9 DEF W

LEMMA PopHolds ==
  ASSUME shape \in Shapes, NEW n, NEW b, Holds(n, b), n > 0
  PROVE  /\ Holds(n - 1, Written(b, n - 1, Fresh, ElemAlone(n - 1)))
         /\ Contents(n - 1, Written(b, n - 1, Fresh, ElemAlone(n - 1)))
              = SubSeq(Contents(n, b), 1, Len(Contents(n, b)) - 1)
<1> DEFINE W == Written(b, n - 1, Fresh, ElemAlone(n - 1))
<1>1. /\ n \in 0..MaxLen /\ n - 1 \in 0..MaxLen /\ n - 1 \in Nat /\ n = (n - 1) + 1
      /\ b \in Bodies /\ ZeroFrom(n, b) /\ Addressable(n - 1)
  BY StorageVecAssumption DEF Holds
<1>2. W \in Bodies
  BY <1>1, FreshElement, WrittenInBodies
<1>3. ZeroFrom(n - 1, W)
  BY <1>1, WrittenZero
<1>4. n - 1 > 0 => Addressable((n - 1) - 1)
  <2>1. n - 1 > 0 => n - 1 \in 1..n
    BY <1>1
  <2> QED BY <2>1, ElementsBelow
<1>5. Holds(n - 1, W)
  BY <1>1, <1>2, <1>3, <1>4 DEF Holds
<1>6. ASSUME NEW k \in 1..(n - 1)
      PROVE  Element(W, k - 1) = Element(b, k - 1)
  <2>1. k \in 1..n /\ k - 1 < n - 1 /\ k - 1 # n - 1
    BY <1>1
  <2>2. MayOverwrite(ElemAlone(n - 1), n - 1, k - 1)
    BY <2>1 DEF MayOverwrite, ElemAlone, Lane
  <2> QED BY <1>1, <2>1, <2>2, FreshElement, ElementsBelow, WrittenElement
<1> HIDE DEF W
<1>7. Contents(n - 1, W) = SubSeq(Contents(n, b), 1, Len(Contents(n, b)) - 1)
  <2>1. Contents(n - 1, W) = [k \in 1..(n - 1) |-> Element(b, k - 1)]
    BY <1>1, <1>6, ContentsOf
  <2>2. Contents(n, b) = [k \in 1..n |-> Element(b, k - 1)]
    BY <1>1, ContentsOf
  <2> QED BY <1>1, <2>1, <2>2
<1> QED BY <1>5, <1>7 DEF W

LEMMA ClearHolds ==
  ASSUME shape \in Shapes, NEW n, NEW b, Holds(n, b)
  PROVE  /\ Holds(0, Zeroed(b, ClearedSlots(n)))
         /\ Contents(0, Zeroed(b, ClearedSlots(n))) = << >>
<1> USE ShapeNumbers
<1>1. n \in Nat /\ b \in Bodies /\ ZeroFrom(n, b) /\ 0 \in 0..MaxLen
  BY DEF Holds
<1>2. ASSUME NEW s \in BodySlots, ~(s < ClearedSlots(n)), NEW l \in Lanes
      PROVE  b[s][l] = Zero
  <2>1. s \in Nat
    BY DEF BodySlots
  <2>2. CASE PerSlot > 1
    <3>1. (n + PerSlot - 1) \div PerSlot <= s
      BY <1>1, <1>2, <2>1, <2>2 DEF ClearedSlots
    <3>2. n + PerSlot - 1 < (s + 1) * PerSlot
      <4>1. n + PerSlot - 1 \in Nat
        BY <1>1
      <4>2. /\ ((n + PerSlot - 1) \div PerSlot) * PerSlot + ((n + PerSlot - 1) % PerSlot) = n + PerSlot - 1
            /\ (n + PerSlot - 1) \div PerSlot \in Nat
            /\ (n + PerSlot - 1) % PerSlot \in 0..(PerSlot - 1)
        BY <4>1, DivMod
      <4>3. ((n + PerSlot - 1) \div PerSlot) * PerSlot <= s * PerSlot /\ (s + 1) * PerSlot = s * PerSlot + PerSlot
        BY <2>1, <3>1, <4>2
      <4> QED BY <1>1, <2>1, <4>2, <4>3
    <3>3. (s + 1) * PerSlot = s * PerSlot + PerSlot /\ s * PerSlot \in Nat
      BY <2>1
    <3>4. Past(s, l, n)
      BY <1>1, <2>1, <2>2, <3>2, <3>3 DEF Past, Lanes
    <3> QED BY <1>1, <3>4 DEF ZeroFrom
  <2>3. CASE PerSlot = 1
    <3>1. Past(s, l, n)
      BY <1>1, <1>2, <2>1, <2>3 DEF Past, ClearedSlots
    <3> QED BY <1>1, <3>1 DEF ZeroFrom
  <2> QED BY <2>2, <2>3
<1>3. ZeroFrom(0, Zeroed(b, ClearedSlots(n)))
  BY <1>2 DEF ZeroFrom, Zeroed, ZeroSlot
<1>4. Zeroed(b, ClearedSlots(n)) \in Bodies
  <2>1. ZeroSlot \in [Lanes -> Words]
    BY StorageVecAssumption DEF ZeroSlot
  <2> QED BY <1>1, <2>1 DEF Zeroed, Bodies
<1>5. Contents(0, Zeroed(b, ClearedSlots(n))) = << >>
  BY <1>1, ContentsOf
<1> QED BY <1>1, <1>3, <1>4, <1>5 DEF Holds

\* The invariant step: a panic rolls back to an array, an answer leaves one.
LEMMA RefusalVec ==
  ASSUME BaseInv, VecInv, NEW op, NEW arg, NEW i,
         LenPanics(op, arg) \/ BoundsPanics(op, i) \/ IndexPanics(op, arg, i)
         \/ GrowthPanics(op) \/ IndexInBoundsPanics(op, i) \/ LastPanics(op)
  PROVE  VecInv'
BY PanicsVec DEF LenPanics, BoundsPanics, IndexPanics, GrowthPanics, IndexInBoundsPanics, LastPanics

LEMMA WritesVec ==
  ASSUME BaseInv, VecInv, ~OwnedCursors, NEW v \in Elements,
         Push(v) \/ Pop \/ EraseLast \/ Clear \/ Grow \/ \E i \in Indices : Set(i, v) \/ Entry(i)
  PROVE  VecInv'
<1> USE Lengths
<1>1. shape \in Shapes /\ (~corrupt => Holds(length, body))
  BY DEF BaseInv, VecInv
<1>2. \A i \in Indices : i \in Nat
  BY StorageVecAssumption DEF Indices
<1>3. CASE Push(v)
  <2>1. CASE /\ length < MaxLen /\ Addressable(length)
             /\ Mutates(Answer("push", 0, << >>, 0), Written(body, length, v, MutAlone), length + 1)
    BY <1>1, <2>1, PushHolds, MutatesVec
  <2> QED BY <1>3, <2>1, RefusalVec DEF Push
<1>4. CASE Pop
  <2>1. CASE length = 0 /\ Mutates(Answer("pop", 0, << >>, 0), body, 0)
    BY <1>1, <2>1, MutatesVec
  <2>2. CASE /\ CheckedLen > 0 /\ Addressable(length - 1)
             /\ Mutates(Answer("pop", 0, <<Element(body, length - 1)>>, 0),
                        Written(body, length - 1, Fresh, ElemAlone(length - 1)), length - 1)
    <3>1. length > 0 /\ length - 1 \in 0..MaxLen
      BY <2>2
    <3> QED BY <1>1, <2>2, <3>1, PopHolds, MutatesVec
  <2> QED BY <1>4, <2>1, <2>2, RefusalVec DEF Pop
<1>5. CASE EraseLast
  <2>1. CASE length = 0 /\ Mutates(Answer("erase_last", 0, << >>, 0), body, 0)
    BY <1>1, <2>1, MutatesVec
  <2>2. CASE /\ CheckedLen > 0 /\ Addressable(length - 1)
             /\ Mutates(Answer("erase_last", 0, << >>, 1),
                        Written(body, length - 1, Fresh, ElemAlone(length - 1)), length - 1)
    <3>1. length > 0 /\ length - 1 \in 0..MaxLen
      BY <2>2
    <3> QED BY <1>1, <2>2, <3>1, PopHolds, MutatesVec
  <2> QED BY <1>5, <2>1, <2>2, RefusalVec DEF EraseLast
<1>6. CASE Clear
  <2>1. CASE Mutates(Answer("clear", 0, << >>, 0), Zeroed(body, ClearedSlots(length)), 0)
    BY <1>1, <2>1, ClearHolds, MutatesVec
  <2> QED BY <1>6, <2>1, RefusalVec, PanicsVec DEF Clear
<1>7. CASE Grow
  <2>1. CASE /\ length < MaxLen /\ Addressable(length)
             /\ Opens(Answer("grow", 0, << >>, 0), length + 1, length)
    <3>1. length + 1 \in 0..MaxLen /\ length \in Nat /\ length < length + 1
      BY <2>1
    <3>2. ~corrupt => Holds(length + 1, body)
      BY <1>1, <2>1, GrowHolds
    <3> QED BY <2>1, <3>1, <3>2, OpensVec
  <2> QED BY <1>7, <2>1, RefusalVec DEF Grow
<1>8. ASSUME NEW i \in Indices, Set(i, v) PROVE VecInv'
  <2>1. CASE InBounds(i) /\ Mutates(Answer("set", i, << >>, 0), Written(body, i, v, MutAlone), length)
    BY <1>1, <1>2, <2>1, SetHolds, MutatesVec DEF InBounds
  <2> QED BY <1>8, <2>1, RefusalVec DEF Set
<1>9. ASSUME NEW i \in Indices, Entry(i) PROVE VecInv'
  <2>1. CASE InBounds(i) /\ Opens(Answer("entry", i, << >>, 0), length, i)
    BY <1>1, <1>2, <2>1, OpensVec DEF InBounds
  <2> QED BY <1>9, <2>1, RefusalVec DEF Entry
<1> QED BY <1>3, <1>4, <1>5, <1>6, <1>7, <1>8, <1>9

LEMMA ReadersVec ==
  ASSUME BaseInv, VecInv, ~OwnedCursors,
         Last \/ Length \/ Iter \/ Forward \/ Backward \/ \E i \in Indices : Get(i) \/ TryGet(i)
  PROVE  VecInv'
<1> USE Lengths
<1>1. CASE Last \/ Length \/ \E i \in Indices : Get(i) \/ TryGet(i)
  BY <1>1, RefusalVec, ReadsVec DEF Last, Length, Get, TryGet
<1>2. CASE Iter
  <2>1. [pos |-> 0, len |-> CheckedLen].pos <= [pos |-> 0, len |-> CheckedLen].len
        /\ [pos |-> 0, len |-> CheckedLen].len <= CheckedLen
    OBVIOUS
  <2> QED BY <1>2, <2>1, IteratesVec DEF Iter
<1>3. iter \in [pos : Nat, len : 0..MaxLen] /\ iter.pos <= iter.len /\ iter.len <= CheckedLen
  BY DEF BaseInv, VecInv
<1>4. CASE Forward
  <2>1. CASE Iterates(Answer("next", 0, << >>, 0), iter)
    BY <1>3, <2>1, IteratesVec
  <2>2. CASE /\ iter.pos < iter.len
             /\ Iterates(Answer("next", 0, <<Element(body, iter.pos)>>, 0), [iter EXCEPT !.pos = @ + 1])
    <3>1. [iter EXCEPT !.pos = @ + 1].pos = iter.pos + 1 /\ [iter EXCEPT !.pos = @ + 1].len = iter.len
      BY <1>3
    <3> QED BY <1>3, <2>2, <3>1, IteratesVec
  <2> QED BY <1>4, <2>1, <2>2, RefusalVec DEF Forward
<1>5. CASE Backward
  <2>1. CASE Iterates(Answer("next_back", 0, << >>, 0), iter)
    BY <1>3, <2>1, IteratesVec
  <2>2. CASE /\ iter.pos < iter.len
             /\ Iterates(Answer("next_back", 0, <<Element(body, iter.len - 1)>>, 0),
                         [iter EXCEPT !.len = @ - 1])
    <3>1. [iter EXCEPT !.len = @ - 1].pos = iter.pos /\ [iter EXCEPT !.len = @ - 1].len = iter.len - 1
      BY <1>3
    <3> QED BY <1>3, <2>2, <3>1, IteratesVec
  <2> QED BY <1>5, <2>1, <2>2, RefusalVec DEF Backward
<1> QED BY <1>1, <1>2, <1>4, <1>5

LEMMA CursorWrites ==
  ASSUME BaseInv, VecInv, NEW i, i \in cursor
  PROVE  i \in Nat /\ i < length /\ cursor = {i} /\ iter = NoIter /\ InBounds(i)
BY DEF VecInv, InBounds

LEMMA CursorVec ==
  ASSUME BaseInv, VecInv, NEW i,
         CursorTake(i) \/ \E v \in Elements : CursorSet(i, v)
  PROVE  VecInv'
<1>1. i \in cursor
  BY DEF CursorTake, CursorSet
<1>2. i \in Nat /\ i < length /\ cursor = {i} /\ iter = NoIter /\ InBounds(i) /\ shape \in Shapes
  BY <1>1, CursorWrites DEF BaseInv
<1>3. PICK v \in Elements : body' = Written(body, i, v, MutAlone)
  BY FreshElement DEF CursorTake, CursorSet
<1>4. UNCHANGED <<given, length, start, cursor, iter>>
  BY DEF CursorTake, CursorSet
<1>5. ~corrupt => Holds(length, body')
  BY <1>2, <1>3, SetHolds DEF VecInv
<1>6. (~corrupt => Holds(length, body) /\ Holds(start.length, start.body))'
  BY <1>4, <1>5, SameShape DEF VecInv, given
<1>7. InBounds(i)'
  BY <1>2, <1>4, SameShape DEF InBounds, Malformed, given
<1>8. (iter.pos <= iter.len /\ iter.len <= CheckedLen)'
  BY <1>4 DEF VecInv, CheckedLen, Malformed
<1> QED BY <1>2, <1>4, <1>6, <1>7, <1>8 DEF VecInv

LEMMA EndVec ==
  ASSUME BaseInv, VecInv, EndCall
  PROVE  VecInv'
<1>1. /\ UNCHANGED <<given, length, body>> /\ cursor' = {} /\ iter' = NoIter
      /\ start'.length = length /\ start'.body = body
  BY DEF EndCall
<1>2. (~corrupt => Holds(length, body) /\ Holds(start.length, start.body))'
  BY <1>1, SameShape DEF VecInv, given
<1>3. (iter.pos <= iter.len /\ iter.len <= CheckedLen)'
  BY <1>1, Lengths DEF NoIter, CheckedLen, Malformed
<1> QED BY <1>1, <1>2, <1>3 DEF VecInv

LEMMA StepVec ==
  ASSUME BaseInv, VecInv, ~OwnedCursors, [Next]_vars
  PROVE  VecInv'
<1>1. CASE Next
  BY <1>1, FreshElement, WritesVec, ReadersVec, CursorVec, EndVec DEF Next
<1>2. CASE UNCHANGED vars
  <2>1. UNCHANGED <<shape, corrupt, length, body, start, cursor, iter>>
    BY <1>2 DEF vars
  <2>2. (~corrupt => Holds(length, body) /\ Holds(start.length, start.body))'
    BY <2>1, SameShape DEF VecInv
  <2>3. \A i : InBounds(i) => InBounds(i)'
    BY <2>1, SameShape DEF InBounds, Malformed
  <2>4. (iter.pos <= iter.len /\ iter.len <= CheckedLen)'
    BY <2>1 DEF VecInv, CheckedLen, Malformed
  <2> QED BY <2>1, <2>2, <2>3, <2>4 DEF VecInv
<1> QED BY <1>1, <1>2

LEMMA VecInvariant == ASSUME ~OwnedCursors PROVE Spec => [](BaseInv /\ VecInv)
<1>1. BaseInv /\ VecInv /\ [Next]_vars => (BaseInv /\ VecInv)'
  BY StepBase, StepVec
<1>2. Init => BaseInv /\ VecInv
  BY InitBase, InitVec
<1> QED BY <1>1, <1>2, PTL DEF Spec

\* Storage past the last element stays zero (lib.rs, `elem_clear`, `clear`):
\* it is what `grow` relies on. Callers drop a cursor before they go on; with
\* kept ones a run shows the opposite.
THEOREM NothingPastEnd == ASSUME ~OwnedCursors PROVE Spec => []ZeroPastEnd
<1>1. BaseInv /\ VecInv => ZeroPastEnd
  BY DEF VecInv, Holds, ZeroFrom, Past, ZeroPastEnd
<1> QED BY <1>1, VecInvariant, PTL

-----------------------------------------------------------------------------
(* The sequence                                                            *)

\* Over slots nothing else wrote, every reading of the length and of an
\* element in bounds succeeds.
LEMMA Trusted ==
  ASSUME BaseInv, VecInv, ~corrupt
  PROVE  /\ shape \in Shapes /\ Holds(length, body) /\ Holds(start.length, start.body)
         /\ length \in 0..MaxLen /\ length \in Nat /\ ~Malformed /\ CheckedLen = length
         /\ \A i \in Nat : i < length => Addressable(i)
         /\ start.length \in 0..MaxLen
<1>1. shape \in Shapes /\ Holds(length, body) /\ Holds(start.length, start.body)
  BY DEF BaseInv, VecInv
<1>2. length \in 0..MaxLen /\ length \in Nat /\ start.length \in 0..MaxLen
  BY <1>1, StorageVecAssumption DEF Holds
<1>3. ~Malformed /\ CheckedLen = length
  BY <1>2, StorageVecAssumption DEF Malformed, CheckedLen
<1>4. ASSUME NEW i \in Nat, i < length PROVE Addressable(i)
  <2>1. i + 1 \in 1..length /\ (i + 1) - 1 = i
    BY <1>2, <1>4
  <2> QED BY <1>1, <2>1, ElementsBelow
<1> QED BY <1>1, <1>2, <1>3, <1>4

LEMMA NoStrayPanic ==
  ASSUME BaseInv, VecInv, ~corrupt
  PROVE  /\ \A op, arg : ~LenPanics(op, arg) /\ ~LastPanics(op)
         /\ \A op : \A i \in Nat : ~IndexInBoundsPanics(op, i)
<1>1. length > 0 => length - 1 \in Nat /\ length - 1 < length
  BY Trusted
<1> QED BY <1>1, Trusted DEF LenPanics, LastPanics, IndexInBoundsPanics, IndexPanics

\* The array's view of a state and of the next one.
LEMMA ContentsAreASeq ==
  ASSUME shape \in Shapes, NEW n, NEW b, Holds(n, b)
  PROVE  /\ Contents(n, b) \in Seq(Elements) /\ Len(Contents(n, b)) = n /\ n \in Nat
         /\ \A i \in Nat : i < n => Contents(n, b)[i + 1] = Element(b, i)
<1>1. n \in 0..MaxLen /\ n \in Nat /\ b \in Bodies
  BY StorageVecAssumption DEF Holds
<1>2. ASSUME NEW k \in 1..n PROVE Element(b, k - 1) \in Elements
  <2>1. ASSUME NEW w \in 0..(Slots - 1) PROVE b[SlotIndex(k - 1) + w][Lane(k - 1)] \in Words
    BY <1>1, ElementsBelow, ElementInBody DEF Bodies
  <2> QED BY <2>1 DEF Element, Elements
<1>3. Contents(n, b) = [k \in 1..n |-> Element(b, k - 1)]
  BY <1>1, ContentsOf
<1>4. ASSUME NEW i \in Nat, i < n PROVE Contents(n, b)[i + 1] = Element(b, i)
  <2>1. i + 1 \in 1..n /\ (i + 1) - 1 = i
    BY <1>1, <1>4
  <2> QED BY <1>3, <2>1
<1> QED BY <1>1, <1>2, <1>3, <1>4

LEMMA SameArray ==
  ASSUME UNCHANGED given
  PROVE  /\ Contents(length, body)' = Contents(length', body')
         /\ Contents(start.length, start.body)' = Contents(start'.length, start'.body)
         /\ Yet' = SubSeq(Contents(length', body'), iter'.pos + 1, iter'.len)
         /\ Fresh' = Fresh /\ (~corrupt)' = ~corrupt
<1>1. PerSlot' = PerSlot /\ Slots' = Slots
  BY DEF PerSlot, Slots, given
<1>2. Contents(length, body)' = Contents(length', body')
  BY <1>1 DEF Contents, Element, SlotIndex, Lane
<1>3. Contents(start.length, start.body)' = Contents(start'.length, start'.body)
  BY <1>1 DEF Contents, Element, SlotIndex, Lane
<1> QED BY <1>1, <1>2, <1>3 DEF Yet, Fresh, given

LEMMA NothingYet ==
  ASSUME iter = NoIter
  PROVE  Yet = << >>
BY DEF Yet, NoIter

\* Each form of a step is that form of the sequence's.
LEMMA MutatesSeq ==
  ASSUME ~OwnedCursors, NEW answer, NEW b, NEW n, Mutates(answer, b, n)
  PROVE  Abstract!Mutates(answer, Contents(n, b))
<1>1. /\ UNCHANGED given /\ body' = b /\ length' = n /\ start' = start /\ ret' = answer
      /\ cursor' = {} /\ iter' = NoIter
  BY DEF Mutates, KeptCursor
<1>2. Yet' = << >>
  BY <1>1, SameArray DEF NoIter
<1>3. Contents(start.length, start.body)' = Contents(start.length, start.body)
  BY <1>1, SameArray
<1> QED BY <1>1, <1>2, <1>3, SameArray DEF Abstract!Mutates

LEMMA OpensSeq ==
  ASSUME NEW answer, NEW n, NEW i, Opens(answer, n, i)
  PROVE  Abstract!Opens(answer, Contents(n, body), i)
<1>1. /\ UNCHANGED given /\ body' = body /\ length' = n /\ start' = start /\ ret' = answer
      /\ cursor' = {i} /\ iter' = NoIter
  BY DEF Opens
<1>2. Yet' = << >>
  BY <1>1, SameArray DEF NoIter
<1> QED BY <1>1, <1>2, SameArray DEF Abstract!Opens

LEMMA ReadsSeq ==
  ASSUME ~OwnedCursors, NEW answer, Reads(answer)
  PROVE  Abstract!Reads(answer)
<1>1. /\ UNCHANGED <<given, length, body, start, iter>> /\ ret' = answer /\ cursor' = {}
  BY DEF Reads, KeptCursor
<1>2. Yet' = Yet
  BY <1>1, SameArray DEF Yet
<1> QED BY <1>1, <1>2, SameArray DEF Abstract!Reads

LEMMA IteratesSeq ==
  ASSUME ~OwnedCursors, NEW answer, NEW it, Iterates(answer, it)
  PROVE  Abstract!Yields(answer, SubSeq(Contents(length, body), it.pos + 1, it.len))
<1>1. /\ UNCHANGED <<given, length, body, start>> /\ ret' = answer /\ cursor' = {} /\ iter' = it
  BY DEF Iterates, KeptCursor
<1> QED BY <1>1, SameArray DEF Abstract!Yields

LEMMA PanicsSeq ==
  ASSUME NEW op, NEW arg, NEW why, Panics(op, arg, why)
  PROVE  Abstract!Panics(op, arg, why)
<1>1. /\ UNCHANGED <<given, start>> /\ length' = start.length /\ body' = start.body
      /\ cursor' = {} /\ iter' = NoIter
      /\ ret' = [op |-> op, arg |-> arg, out |-> << >>, n |-> 0, panic |-> why]
  BY DEF Panics
<1>2. Yet' = << >>
  BY <1>1, SameArray DEF NoIter
<1> QED BY <1>1, <1>2, SameArray DEF Abstract!Panics

\* The refusals the sequence knows.
LEMMA BoundsSeq ==
  ASSUME BaseInv, VecInv, ~corrupt, NEW op, op \in {"get", "set", "entry"},
         NEW i \in Indices, BoundsPanics(op, i)
  PROVE  Abstract!Refuse
<1>1. ~Abstract!InBounds(i)
  <2>1. Len(Contents(length, body)) = length /\ length \in Nat
    BY Trusted, ContentsAreASeq
  <2>2. i >= length /\ i \in Nat
    BY StorageVecAssumption DEF BoundsPanics, Indices
  <2> QED BY <2>1, <2>2 DEF Abstract!InBounds
<1>2. Abstract!Panics(op, i, "bounds")
  BY PanicsSeq DEF BoundsPanics
<1> QED BY <1>1, <1>2 DEF Abstract!Refuse

LEMMA SpaceSeq ==
  ASSUME NEW op, op \in {"push", "grow", "clear"}, NEW why, why \in {"oom", "overflow"},
         Panics(op, 0, why)
  PROVE  Abstract!Refuse
BY PanicsSeq DEF Abstract!Refuse

\* The elements of every shape, this one's among them.
AllElements == UNION {[0..(s.slots - 1) -> Words] : s \in Shapes}

LEMMA ElementsAmong == ASSUME shape \in Shapes PROVE Elements \subseteq AllElements
BY DEF Elements, AllElements, Slots

\* One lemma for each kind of operation.
LEMMA WritesSeq ==
  ASSUME BaseInv, VecInv, ~corrupt, ~OwnedCursors, NEW v \in Elements,
         Push(v) \/ Pop \/ EraseLast \/ Clear \/ Grow
  PROVE  Abstract!Push(v) \/ Abstract!Pop \/ Abstract!EraseLast \/ Abstract!Clear
         \/ Abstract!Grow \/ Abstract!Refuse
<1> DEFINE C == Contents(length, body)
<1>1. shape \in Shapes /\ Holds(length, body) /\ length \in Nat /\ CheckedLen = length
      /\ Len(C) = length /\ C \in Seq(Elements)
      /\ \A i \in Nat : i < length => C[i + 1] = Element(body, i)
  BY Trusted, ContentsAreASeq
<1>2. length > 0 => C[Len(C)] = Element(body, length - 1)
  <2>1. length > 0 => length - 1 \in Nat /\ length - 1 < length /\ (length - 1) + 1 = length
    BY <1>1
  <2> QED BY <1>1, <2>1
<1> HIDE DEF C
<1>3. CASE Push(v)
  <2>1. CASE GrowthPanics("push")
    BY <2>1, SpaceSeq DEF GrowthPanics
  <2>2. CASE IndexPanics("push", 0, length)
    BY <2>2, SpaceSeq DEF IndexPanics
  <2>3. CASE /\ length < MaxLen /\ Addressable(length)
             /\ Mutates(Answer("push", 0, << >>, 0), Written(body, length, v, MutAlone), length + 1)
    <3>1. Abstract!Mutates(Answer("push", 0, << >>, 0),
                           Contents(length + 1, Written(body, length, v, MutAlone)))
      BY <2>3, MutatesSeq
    <3>2. Contents(length + 1, Written(body, length, v, MutAlone)) = Append(Contents(length, body), v)
      BY <1>1, <2>3, PushHolds
    <3>3. Abstract!Push(v)
      BY <3>1, <3>2 DEF Abstract!Push, Answer, Abstract!Answer
    <3> QED BY <3>3
  <2> QED BY <1>3, <2>1, <2>2, <2>3, NoStrayPanic DEF Push
<1>4. CASE Pop
  <2>1. CASE length = 0 /\ Mutates(Answer("pop", 0, << >>, 0), body, 0)
    BY <1>1, <2>1, MutatesSeq DEF Abstract!Pop, Answer, Abstract!Answer, C
  <2>2. CASE /\ CheckedLen > 0
             /\ Mutates(Answer("pop", 0, <<Element(body, length - 1)>>, 0),
                        Written(body, length - 1, Fresh, ElemAlone(length - 1)), length - 1)
    BY <1>1, <1>2, <2>2, PopHolds, MutatesSeq DEF Abstract!Pop, Abstract!Truncated, Answer, Abstract!Answer, C
  <2> QED BY <1>4, <2>1, <2>2, NoStrayPanic DEF Pop
<1>5. CASE EraseLast
  <2>1. CASE length = 0 /\ Mutates(Answer("erase_last", 0, << >>, 0), body, 0)
    BY <1>1, <2>1, MutatesSeq DEF Abstract!EraseLast, Answer, Abstract!Answer, C
  <2>2. CASE /\ CheckedLen > 0
             /\ Mutates(Answer("erase_last", 0, << >>, 1),
                        Written(body, length - 1, Fresh, ElemAlone(length - 1)), length - 1)
    BY <1>1, <2>2, PopHolds, MutatesSeq DEF Abstract!EraseLast, Abstract!Truncated, Answer, Abstract!Answer, C
  <2> QED BY <1>5, <2>1, <2>2, NoStrayPanic DEF EraseLast
<1>6. CASE Clear
  <2>1. CASE Panics("clear", 0, "overflow")
    BY <2>1, SpaceSeq
  <2>2. CASE Mutates(Answer("clear", 0, << >>, 0), Zeroed(body, ClearedSlots(length)), 0)
    BY <1>1, <2>2, ClearHolds, MutatesSeq DEF Abstract!Clear, Answer, Abstract!Answer
  <2> QED BY <1>6, <2>1, <2>2, NoStrayPanic DEF Clear
<1>7. CASE Grow
  <2>1. CASE GrowthPanics("grow")
    BY <2>1, SpaceSeq DEF GrowthPanics
  <2>2. CASE IndexPanics("grow", 0, length)
    BY <2>2, SpaceSeq DEF IndexPanics
  <2>3. CASE /\ length < MaxLen /\ Addressable(length)
             /\ Opens(Answer("grow", 0, << >>, 0), length + 1, length)
    BY <1>1, <2>3, GrowHolds, OpensSeq DEF Abstract!Grow, Answer, Abstract!Answer, C
  <2> QED BY <1>7, <2>1, <2>2, <2>3, NoStrayPanic DEF Grow
<1> QED BY <1>3, <1>4, <1>5, <1>6, <1>7

LEMMA IndexedSeq ==
  ASSUME BaseInv, VecInv, ~corrupt, ~OwnedCursors, NEW v \in Elements, NEW i \in Indices,
         Set(i, v) \/ Entry(i) \/ Get(i) \/ TryGet(i)
  PROVE  Abstract!Set(i, v) \/ Abstract!Entry(i) \/ Abstract!Get(i) \/ Abstract!TryGet(i)
         \/ Abstract!Refuse
<1> DEFINE C == Contents(length, body)
<1>1. shape \in Shapes /\ Holds(length, body) /\ length \in Nat /\ CheckedLen = length /\ ~Malformed
      /\ Len(C) = length /\ i \in Nat
      /\ (i < length => C[i + 1] = Element(body, i))
  BY Trusted, ContentsAreASeq, StorageVecAssumption DEF Indices
<1>2. Abstract!InBounds(i) <=> i < length
  BY <1>1 DEF Abstract!InBounds
<1>3. ~IndexInBoundsPanics("set", i) /\ ~IndexInBoundsPanics("entry", i)
      /\ ~IndexInBoundsPanics("get", i) /\ ~IndexInBoundsPanics("try_get", i)
  BY <1>1, NoStrayPanic
<1>4. CASE Set(i, v)
  <2>1. CASE InBounds(i) /\ Mutates(Answer("set", i, << >>, 0), Written(body, i, v, MutAlone), length)
    <3>1. i < length
      BY <2>1 DEF InBounds
    <3>2. Abstract!Mutates(Answer("set", i, << >>, 0), Contents(length, Written(body, i, v, MutAlone)))
      BY <2>1, MutatesSeq
    <3>3. Contents(length, Written(body, i, v, MutAlone)) = [Contents(length, body) EXCEPT ![i + 1] = v]
      BY <1>1, <3>1, SetHolds
    <3>4. Abstract!Set(i, v)
      BY <1>2, <3>1, <3>2, <3>3 DEF Abstract!Set, Answer, Abstract!Answer
    <3> QED BY <3>4
  <2> QED BY <1>3, <1>4, <2>1, NoStrayPanic, BoundsSeq DEF Set
<1>5. CASE Entry(i)
  <2>1. CASE InBounds(i) /\ Opens(Answer("entry", i, << >>, 0), length, i)
    <3>1. i < length
      BY <2>1 DEF InBounds
    <3>2. Abstract!Opens(Answer("entry", i, << >>, 0), Contents(length, body), i)
      BY <2>1, OpensSeq
    <3>3. Abstract!Entry(i)
      BY <1>2, <3>1, <3>2 DEF Abstract!Entry, Answer, Abstract!Answer
    <3> QED BY <3>3
  <2> QED BY <1>3, <1>5, <2>1, NoStrayPanic, BoundsSeq DEF Entry
<1>6. CASE Get(i)
  <2>1. CASE InBounds(i) /\ Reads(Answer("get", i, <<Element(body, i)>>, 0))
    <3>1. i < length
      BY <2>1 DEF InBounds
    <3>2. Abstract!Reads(Answer("get", i, <<Element(body, i)>>, 0))
      BY <2>1, ReadsSeq
    <3>3. Abstract!Get(i)
      BY <1>1, <1>2, <3>1, <3>2 DEF Abstract!Get, Answer, Abstract!Answer
    <3> QED BY <3>3
  <2> QED BY <1>3, <1>6, <2>1, NoStrayPanic, BoundsSeq DEF Get
<1>7. CASE TryGet(i)
  <2>1. CASE i >= CheckedLen /\ Reads(Answer("try_get", i, << >>, 0))
    <3>1. ~(i < length) /\ Abstract!Reads(Answer("try_get", i, << >>, 0))
      BY <1>1, <2>1, ReadsSeq
    <3>2. Abstract!TryGet(i)
      BY <1>2, <3>1 DEF Abstract!TryGet, Answer, Abstract!Answer
    <3> QED BY <3>2
  <2>2. CASE InBounds(i) /\ Reads(Answer("try_get", i, <<Element(body, i)>>, 0))
    <3>1. i < length /\ Abstract!Reads(Answer("try_get", i, <<Element(body, i)>>, 0))
      BY <2>2, ReadsSeq DEF InBounds
    <3>2. Abstract!TryGet(i)
      BY <1>1, <1>2, <3>1 DEF Abstract!TryGet, Answer, Abstract!Answer
    <3> QED BY <3>2
  <2> QED BY <1>3, <1>7, <2>1, <2>2 DEF TryGet
<1> QED BY <1>4, <1>5, <1>6, <1>7

LEMMA CursorSeq ==
  ASSUME BaseInv, VecInv, ~corrupt, NEW v \in Elements, NEW i \in Indices,
         CursorSet(i, v) \/ CursorTake(i)
  PROVE  Abstract!CursorSet(i, v) \/ Abstract!CursorTake(i)
<1>1. i \in cursor
  BY DEF CursorSet, CursorTake
<1>2. i \in Nat /\ i < length /\ iter = NoIter
  BY <1>1, CursorWrites
<1>3. shape \in Shapes /\ Holds(length, body) /\ Contents(length, body)[i + 1] = Element(body, i)
  BY <1>2, Trusted, ContentsAreASeq
<1>4. ASSUME NEW w \in Elements
      PROVE  Contents(length, Written(body, i, w, MutAlone)) = [Contents(length, body) EXCEPT ![i + 1] = w]
  BY <1>2, <1>3, SetHolds
<1>5. /\ UNCHANGED <<given, length, start, cursor, iter>>
      /\ Contents(start.length, start.body)' = Contents(start.length, start.body)
      /\ Fresh' = Fresh /\ (~corrupt)' = ~corrupt
      /\ Contents(length, body)' = Contents(length, body')
  BY SameArray DEF CursorSet, CursorTake
<1>6. Yet' = Yet
  <2>1. Yet = << >>
    BY <1>2, NothingYet
  <2>2. Yet' = << >>
    BY <1>2, <1>5, SameArray DEF NoIter
  <2> QED BY <2>1, <2>2
<1>7. CASE CursorSet(i, v)
  <2>1. body' = Written(body, i, v, MutAlone) /\ ret' = Answer("cursor_set", 0, << >>, 0)
    BY <1>7 DEF CursorSet
  <2>2. Contents(length, body)' = [Contents(length, body) EXCEPT ![i + 1] = v]
    BY <1>4, <1>5, <2>1
  <2>3. Abstract!CursorSet(i, v)
    BY <1>1, <1>5, <1>6, <2>1, <2>2 DEF Abstract!CursorSet, Abstract!Uses, Answer, Abstract!Answer
  <2> QED BY <2>3
<1>8. CASE CursorTake(i)
  <2>1. body' = Written(body, i, Fresh, MutAlone)
        /\ ret' = Answer("cursor_take", 0, <<Element(body, i)>>, 0)
    BY <1>8 DEF CursorTake
  <2>2. Contents(length, body)' = [Contents(length, body) EXCEPT ![i + 1] = Fresh]
    BY <1>4, <1>5, <2>1, FreshElement
  <2>3. Abstract!CursorTake(i)
    BY <1>1, <1>3, <1>5, <1>6, <2>1, <2>2 DEF Abstract!CursorTake, Abstract!Uses, Answer, Abstract!Answer
  <2> QED BY <2>3
<1> QED BY <1>7, <1>8

LEMMA EndSeq ==
  ASSUME EndCall
  PROVE  Abstract!EndCall
<1>1. /\ UNCHANGED <<given, length, body>> /\ cursor' = {} /\ iter' = NoIter
      /\ start'.length = length /\ start'.body = body /\ ret' = Answer("return", 0, << >>, 0)
  BY DEF EndCall
<1>2. Yet' = << >>
  BY <1>1, SameArray DEF NoIter
<1> QED BY <1>1, <1>2, SameArray DEF Abstract!EndCall, Answer, Abstract!Answer

\* What is left of an iteration, and what taking one from either end leaves.
LEMMA TakeFromEnds ==
  ASSUME NEW S, NEW C \in Seq(S), NEW p \in Nat, NEW m \in Nat, p < m, m <= Len(C)
  PROVE  /\ SubSeq(C, p + 1, m) # << >>
         /\ Head(SubSeq(C, p + 1, m)) = C[p + 1]
         /\ Tail(SubSeq(C, p + 1, m)) = SubSeq(C, (p + 1) + 1, m)
         /\ SubSeq(C, p + 1, m)[Len(SubSeq(C, p + 1, m))] = C[m]
         /\ SubSeq(SubSeq(C, p + 1, m), 1, Len(SubSeq(C, p + 1, m)) - 1) = SubSeq(C, p + 1, m - 1)
<1> DEFINE R == SubSeq(C, p + 1, m)
<1>1. Len(R) = m - p /\ R \in Seq(S) /\ \A k \in 1..(m - p) : R[k] = C[p + k]
  OBVIOUS
<1>2. m - p \in Nat /\ m - p > 0 /\ 1 \in 1..(m - p) /\ m - p \in 1..(m - p) /\ p + (m - p) = m
  OBVIOUS
<1>3. Head(R) = C[p + 1] /\ R[Len(R)] = C[m] /\ R # << >>
  BY <1>1, <1>2
<1>4. Tail(R) = SubSeq(C, (p + 1) + 1, m)
  OBVIOUS
<1>5. SubSeq(R, 1, Len(R) - 1) = SubSeq(C, p + 1, m - 1)
  OBVIOUS
<1> QED BY <1>3, <1>4, <1>5

LEMMA LooksSeq ==
  ASSUME BaseInv, VecInv, ~corrupt, ~OwnedCursors, Last \/ Length
  PROVE  Abstract!Last \/ Abstract!Length
<1> DEFINE C == Contents(length, body)
<1>1. shape \in Shapes /\ Holds(length, body) /\ length \in Nat /\ CheckedLen = length
      /\ Len(C) = length /\ C \in Seq(Elements)
      /\ \A i \in Nat : i < length => C[i + 1] = Element(body, i)
  BY Trusted, ContentsAreASeq
<1>2. length > 0 => C[Len(C)] = Element(body, length - 1) /\ C # << >>
  <2>1. length > 0 => length - 1 \in Nat /\ length - 1 < length /\ (length - 1) + 1 = length
    BY <1>1
  <2> QED BY <1>1, <2>1
<1>3. length = 0 => C = << >>
  BY <1>1
<1> HIDE DEF C
<1>4. CASE Length
  <2>1. Reads(Answer("len", 0, << >>, length))
    BY <1>4, NoStrayPanic DEF Length
  <2>2. Abstract!Reads(Answer("len", 0, << >>, length))
    BY <2>1, ReadsSeq
  <2> QED BY <1>1, <2>2 DEF Abstract!Length, Answer, Abstract!Answer, C
<1>5. CASE Last
  <2>1. CASE CheckedLen = 0 /\ Reads(Answer("last", 0, << >>, 0))
    <3>1. Abstract!Reads(Answer("last", 0, << >>, 0)) /\ Contents(length, body) = << >>
      BY <1>1, <1>3, <2>1, ReadsSeq DEF C
    <3> QED BY <3>1 DEF Abstract!Last, Answer, Abstract!Answer
  <2>2. CASE CheckedLen > 0 /\ Reads(Answer("last", 0, <<Element(body, length - 1)>>, 0))
    <3>1. Abstract!Reads(Answer("last", 0, <<Element(body, length - 1)>>, 0))
      BY <2>2, ReadsSeq
    <3>2. C # << >> /\ C[Len(C)] = Element(body, length - 1)
      BY <1>1, <1>2, <2>2
    <3> QED BY <3>1, <3>2 DEF Abstract!Last, Answer, Abstract!Answer, C
  <2> QED BY <1>5, <2>1, <2>2, NoStrayPanic DEF Last
<1> QED BY <1>4, <1>5

LEMMA IteratorSeq ==
  ASSUME BaseInv, VecInv, ~corrupt, ~OwnedCursors, Iter \/ Forward \/ Backward
  PROVE  Abstract!Iter \/ Abstract!Forward \/ Abstract!Backward
<1> DEFINE C == Contents(length, body)
           p == iter.pos
           m == iter.len
<1>1. shape \in Shapes /\ length \in Nat /\ CheckedLen = length
      /\ Len(C) = length /\ C \in Seq(Elements)
      /\ \A i \in Nat : i < length => C[i + 1] = Element(body, i) /\ Addressable(i)
  BY Trusted, ContentsAreASeq
<1>2. p \in Nat /\ m \in Nat /\ p <= m /\ m <= Len(C)
  BY <1>1, StorageVecAssumption DEF BaseInv, VecInv
<1>3. Yet = SubSeq(C, p + 1, m)
  BY DEF Yet
<1>4. iter = [pos |-> p, len |-> m]
  BY DEF BaseInv
<1> HIDE DEF C, p, m
<1>5. CASE Iter
  <2>1. Abstract!Yields(Answer("iter", 0, << >>, CheckedLen), SubSeq(C, 0 + 1, CheckedLen))
    BY <1>5, IteratesSeq DEF Iter, C
  <2>2. SubSeq(C, 0 + 1, CheckedLen) = C
    BY <1>1
  <2>3. Abstract!Iter
    BY <1>1, <2>1, <2>2 DEF Abstract!Iter, Answer, Abstract!Answer, C
  <2> QED BY <2>3
<1>6. CASE p >= m
  <2>1. Yet = << >> /\ ~(p < m)
    BY <1>1, <1>2, <1>3, <1>6
  <2>2. \A answer : Iterates(answer, iter) => Abstract!Yields(answer, << >>)
    BY <1>3, <2>1, IteratesSeq DEF C, p, m
  <2>3. Forward => Abstract!Forward
    BY <2>1, <2>2 DEF Forward, Abstract!Forward, Answer, Abstract!Answer, p, m
  <2>4. Backward => Abstract!Backward
    BY <2>1, <2>2 DEF Backward, Abstract!Backward, Answer, Abstract!Answer, p, m
  <2> QED BY <1>5, <2>3, <2>4
<1>7. CASE p < m
  <2>1. Addressable(p) /\ C[p + 1] = Element(body, p)
    BY <1>1, <1>2, <1>7
  <2>2. m - 1 \in Nat /\ m - 1 < length /\ (m - 1) + 1 = m
    BY <1>1, <1>2, <1>7
  <2>3. Addressable(m - 1) /\ C[m] = Element(body, m - 1)
    BY <1>1, <2>2
  <2>4. /\ Yet # << >> /\ Head(Yet) = C[p + 1] /\ Tail(Yet) = SubSeq(C, (p + 1) + 1, m)
        /\ Yet[Len(Yet)] = C[m] /\ SubSeq(Yet, 1, Len(Yet) - 1) = SubSeq(C, p + 1, m - 1)
    <3>1. C \in Seq(Elements) /\ p \in Nat /\ m \in Nat /\ p < m /\ m <= Len(C)
      BY <1>1, <1>2, <1>7
    <3>2. /\ SubSeq(C, p + 1, m) # << >> /\ Head(SubSeq(C, p + 1, m)) = C[p + 1]
          /\ Tail(SubSeq(C, p + 1, m)) = SubSeq(C, (p + 1) + 1, m)
          /\ SubSeq(C, p + 1, m)[Len(SubSeq(C, p + 1, m))] = C[m]
          /\ SubSeq(SubSeq(C, p + 1, m), 1, Len(SubSeq(C, p + 1, m)) - 1) = SubSeq(C, p + 1, m - 1)
      BY <3>1, TakeFromEnds
    <3> QED BY <1>3, <3>2
  <2>5. [iter EXCEPT !.pos = @ + 1] = [pos |-> p + 1, len |-> m]
        /\ [iter EXCEPT !.len = @ - 1] = [pos |-> p, len |-> m - 1]
    BY <1>4
  <2>6. CASE Forward
    <3>1. Iterates(Answer("next", 0, <<Element(body, p)>>, 0), [pos |-> p + 1, len |-> m])
      BY <1>2, <1>7, <2>1, <2>5, <2>6 DEF Forward, IndexPanics, p, m
    <3>2. Abstract!Yields(Answer("next", 0, <<Element(body, p)>>, 0), SubSeq(C, (p + 1) + 1, m))
      BY <3>1, IteratesSeq DEF C
    <3>3. Abstract!Forward
      BY <2>1, <2>4, <3>2 DEF Abstract!Forward, Answer, Abstract!Answer
    <3> QED BY <3>3
  <2>7. CASE Backward
    <3>1. Iterates(Answer("next_back", 0, <<Element(body, m - 1)>>, 0), [pos |-> p, len |-> m - 1])
      BY <1>2, <1>7, <2>3, <2>5, <2>7 DEF Backward, IndexPanics, p, m
    <3>2. Abstract!Yields(Answer("next_back", 0, <<Element(body, m - 1)>>, 0), SubSeq(C, p + 1, m - 1))
      BY <3>1, IteratesSeq DEF C
    <3>3. Abstract!Backward
      BY <2>3, <2>4, <3>2 DEF Abstract!Backward, Answer, Abstract!Answer
    <3> QED BY <3>3
  <2> QED BY <1>5, <2>6, <2>7
<1> QED BY <1>2, <1>6, <1>7

\* An untrusted array may do anything.
LEMMA UntrustedSeq ==
  ASSUME corrupt = TRUE, UNCHANGED given
  PROVE  Abstract!Untrusted
BY SameArray DEF Abstract!Untrusted

\* No operation changes the program.
LEMMA SameProgram == ASSUME [Next]_vars PROVE UNCHANGED given
<1>1. CASE Next
  <2>1. \A op, arg, why : Panics(op, arg, why) => UNCHANGED given
    BY DEF Panics
  <2>2. \A op, arg, i :
          LenPanics(op, arg) \/ BoundsPanics(op, i) \/ IndexPanics(op, arg, i) \/ GrowthPanics(op)
          \/ IndexInBoundsPanics(op, i) \/ LastPanics(op) => UNCHANGED given
    BY <2>1 DEF LenPanics, BoundsPanics, IndexPanics, GrowthPanics, IndexInBoundsPanics, LastPanics
  <2>3. \A answer, b, n : Mutates(answer, b, n) \/ Opens(answer, n, b) \/ Reads(answer)
                          \/ Iterates(answer, b) => UNCHANGED given
    BY DEF Mutates, Opens, Reads, Iterates
  <2>4. ASSUME NEW v, NEW i,
               Push(v) \/ Set(i, v) \/ CursorSet(i, v) \/ Entry(i) \/ CursorTake(i) \/ Get(i) \/ TryGet(i)
        PROVE  UNCHANGED given
    BY <2>2, <2>3, <2>4 DEF Push, Set, CursorSet, Entry, CursorTake, Get, TryGet
  <2>5. ASSUME Pop \/ EraseLast \/ Clear \/ Grow \/ Last \/ Length
        PROVE  UNCHANGED given
    BY <2>1, <2>2, <2>3, <2>5 DEF Pop, EraseLast, Clear, Grow, Last, Length
  <2>6. ASSUME Iter \/ Forward \/ Backward \/ EndCall PROVE UNCHANGED given
    BY <2>2, <2>3, <2>6 DEF Iter, Forward, Backward, EndCall
  <2> QED BY <1>1, <2>4, <2>5, <2>6 DEF Next
<1>2. CASE UNCHANGED vars
  BY <1>2 DEF vars, given
<1> QED BY <1>1, <1>2

LEMMA StepSeq ==
  ASSUME BaseInv, VecInv, ~OwnedCursors, [Next]_vars
  PROVE  [Abstract!Next]_(Abstract!vars)
<1>1. CASE corrupt = TRUE
  BY <1>1, SameProgram, UntrustedSeq DEF Abstract!Next
<1>2. CASE ~corrupt /\ Next
  <2>1. ASSUME NEW v \in Elements, Push(v) \/ \E i \in Indices : Set(i, v) \/ CursorSet(i, v)
        PROVE  Abstract!Next
    <3>1. v \in AllElements
      BY ElementsAmong DEF BaseInv
    <3>2. CASE Push(v)
      BY <1>2, <3>1, <3>2, WritesSeq DEF Abstract!Next, AllElements
    <3>3. ASSUME NEW i \in Indices, Set(i, v) PROVE Abstract!Next
      BY <1>2, <3>1, <3>3, IndexedSeq DEF Abstract!Next, AllElements
    <3>4. ASSUME NEW i \in Indices, CursorSet(i, v) PROVE Abstract!Next
      BY <1>2, <3>1, <3>4, CursorSeq DEF Abstract!Next, AllElements
    <3> QED BY <2>1, <3>2, <3>3, <3>4
  <2>2. Fresh \in Elements /\ Fresh \in AllElements
    BY FreshElement, ElementsAmong DEF BaseInv
  <2>3. ASSUME NEW i \in Indices, Entry(i) \/ CursorTake(i) \/ Get(i) \/ TryGet(i)
        PROVE  Abstract!Next
    <3>1. CASE CursorTake(i)
      BY <1>2, <2>2, <3>1, CursorSeq DEF Abstract!Next, AllElements
    <3>2. CASE Entry(i) \/ Get(i) \/ TryGet(i)
      BY <1>2, <2>2, <3>2, IndexedSeq DEF Abstract!Next, AllElements
    <3> QED BY <2>3, <3>1, <3>2
  <2>4. ASSUME Pop \/ EraseLast \/ Clear \/ Grow PROVE Abstract!Next
    BY <1>2, <2>2, <2>4, WritesSeq DEF Abstract!Next, AllElements
  <2>5. ASSUME Last \/ Length PROVE Abstract!Next
    BY <1>2, <2>5, LooksSeq DEF Abstract!Next
  <2>6. ASSUME Iter \/ Forward \/ Backward PROVE Abstract!Next
    BY <1>2, <2>6, IteratorSeq DEF Abstract!Next
  <2>7. ASSUME EndCall PROVE Abstract!Next
    BY <2>7, EndSeq DEF Abstract!Next
  <2> QED BY <1>2, <2>1, <2>3, <2>4, <2>5, <2>6, <2>7 DEF Next
<1>3. CASE UNCHANGED vars
  <2>1. UNCHANGED <<given, length, body, start, cursor, iter, ret>>
    BY <1>3 DEF vars, given
  <2>2. UNCHANGED Abstract!vars
    BY <2>1, SameArray DEF Abstract!vars, Yet
  <2> QED BY <2>2
<1> QED BY <1>1, <1>2, <1>3 DEF BaseInv

\* An array is empty to begin with, whatever its slots decode to.
LEMMA InitSeq == Init => Abstract!Init
<1> SUFFICES ASSUME Init PROVE Abstract!Init
  OBVIOUS
<1>1. shape \in Shapes /\ cursor = {} /\ iter = NoIter /\ ret = Answer("return", 0, << >>, 0)
      /\ start.length = length /\ start.body = body
  BY DEF Init
<1>2. ~corrupt => length = 0
  BY DEF Init
<1>3. length = 0 => Contents(length, body) = << >>
  BY <1>1, StorageVecAssumption, ContentsOf
<1>4. Yet = << >>
  BY <1>1, NothingYet
<1> QED BY <1>1, <1>2, <1>3, <1>4 DEF Abstract!Init, Answer, Abstract!Answer

\* StorageVec is the sequence StorageSeq specifies (lib.rs, `StorageVec`):
\* whatever the element type, each operation, panic and rollback on the slots
\* is the one it promises on the array, and an iterator consumed from both
\* ends yields each element exactly once.
THEOREM VecIsASequence == ASSUME ~OwnedCursors PROVE Spec => IsASequence
<1>1. Init => Abstract!Init
  BY InitSeq
<1>2. BaseInv /\ VecInv /\ [Next]_vars => [Abstract!Next]_(Abstract!vars)
  BY StepSeq
<1> QED BY <1>1, <1>2, VecInvariant, PTL DEF Spec, IsASequence, Abstract!Spec
=============================================================================
