------------------------------- MODULE Fields -------------------------------
(* The fields of a #[contract] or #[storage] struct: the compile-time chain *)
(* of layout_step that places them (pvm-contract-types/src/layout.rs), the  *)
(* `alone` flags the macros derive from it (storage_layout.rs), and the     *)
(* reads and writes of Lazy<T> at those places (pvm-storage/src/lib.rs).    *)
(*                                                                          *)
(* Fields are declared one by one, numbered by the chain or pinned with     *)
(* #[slot(..)]; a struct that compiles is sealed and used.  A field's value *)
(* is a word repeated over its bytes.                                       *)
EXTENDS Naturals, Sequences

CONSTANTS
  Width,        \* bytes of a slot: 32
  FieldTypes,   \* PACKED_BYTES and SLOTS of the field types in use
  MaxFields,    \* bound: fields of the struct
  PinnedSlots,  \* bound: slots that #[slot(N)] names
  RawKeys,      \* external keys that #[slot(raw = KEY)] names
  Words,        \* contents of a byte
  Zero

ASSUME FieldsAssumption ==
  /\ Width \in Nat \ {0}
  /\ FieldTypes \subseteq [bytes : 1..Width, slots : Nat \ {0}]
  /\ \A t \in FieldTypes : t.slots > 1 => t.bytes = Width
  /\ MaxFields \in Nat
  /\ PinnedSlots \subseteq Nat
  /\ {"auto", "pinned", "layout"} \intersect RawKeys = {}
  /\ Zero \in Words

VARIABLES
  fields,    \* the fields declared so far: attr, slot, offset, bytes, slots
  step,      \* next_slot and next_space of the last LayoutStep
  sealed,    \* the chain is complete
  storage,   \* the slots of the struct
  ret        \* the last operation, its field, and the words it read

fieldsVars == <<fields, step, sealed, storage, ret>>

Positions == 0..(Width - 1)
Indices == 1..Len(fields)
ZeroSlot == [p \in Positions |-> Zero]

-----------------------------------------------------------------------------
(* Placement                                                               *)

First == [next_slot |-> 0, next_space |-> Width]

\* layout_step: the slot the field starts on, and the bytes free in it.
StartSlot(t) == IF step.next_space < t.bytes THEN step.next_slot + 1 ELSE step.next_slot
Space(t) == IF step.next_space < t.bytes THEN Width ELSE step.next_space

AutoField(t) == [attr |-> "auto", slot |-> StartSlot(t), offset |-> Space(t) - t.bytes,
              bytes |-> t.bytes, slots |-> t.slots]

Following(t) == [next_slot  |-> StartSlot(t) + t.slots - 1,
                 next_space |-> IF t.slots > 1 THEN 0 ELSE Space(t) - t.bytes]

IsAuto(i) == fields[i].attr = "auto"
IsPinned(i) == fields[i].attr = "pinned"

\* explicit_slot_overlap_checks: `n` slots from `slot` on are clear of field i.
\* The mutant is the check of the literals alone.
ClearOf_Literal(i, slot, n) == fields[i].slot # slot
ClearOf(i, slot, n) == ~(fields[i].slot < slot + n /\ slot < fields[i].slot + fields[i].slots)

\* The fields next to each other in the chain of auto-numbered ones.
Neighbours(i, j) ==
  /\ IsAuto(j) /\ i # j
  /\ \A k \in Indices : IsAuto(k) => ~(i < k /\ k < j) /\ ~(j < k /\ k < i)

\* alone_chain_consts: neither neighbour in the chain starts on the same slot.
\* A pinned or raw field counts as alone.  The mutant forgets the next field.
Alone_PrevOnly(i) ==
  IsAuto(i) => \A j \in Indices : j < i /\ Neighbours(i, j) => fields[j].slot # fields[i].slot
Alone(i) == IsAuto(i) => \A j \in Indices : Neighbours(i, j) => fields[j].slot # fields[i].slot

-----------------------------------------------------------------------------
(* Access                                                                  *)

\* Numbered slots, or the slots from an external key on: keys are hashes, far
\* from the numbers and from each other.
Region(i) == IF IsAuto(i) \/ IsPinned(i) THEN "layout" ELSE fields[i].attr

SlotsOf(i) == {Region(i)} \X (fields[i].slot..(fields[i].slot + fields[i].slots - 1))
BytesOf(i) == fields[i].offset..(fields[i].offset + fields[i].bytes - 1)

Seen(i) == {storage[s][p] : s \in SlotsOf(i), p \in BytesOf(i)}

\* Lazy::set: a packed field alone in its slot writes a fresh slot, another
\* packed one is merged into the slot it reads, a full one owns its slots.
Written(i, w) ==
  [s \in DOMAIN storage |->
     IF s \notin SlotsOf(i) THEN storage[s]
     ELSE [p \in Positions |-> IF p \in BytesOf(i) THEN w
                               ELSE IF Alone(i) THEN Zero ELSE storage[s][p]]]

\* Lazy::clear
Cleared(i) == Written(i, Zero)

-----------------------------------------------------------------------------
(* Operations                                                              *)

Answer(op, i, out) == [op |-> op, field |-> i, out |-> out]

Declare(f) ==
  /\ ~sealed
  /\ Len(fields) < MaxFields
  /\ fields' = Append(fields, f)
  /\ UNCHANGED <<sealed, storage, ret>>

\* A field without an attribute, which no pinned one may accompany.
Place(t) ==
  /\ \A i \in Indices : ~IsPinned(i)
  /\ Declare(AutoField(t))
  /\ step' = Following(t)

\* #[slot(N)]: numbers the field by hand; it must fill its slots.
Pin(t, n) ==
  /\ t.bytes = Width
  /\ \A i \in Indices : ~IsAuto(i) /\ (IsPinned(i) => ClearOf(i, n, t.slots))
  /\ Declare([attr |-> "pinned", slot |-> n, offset |-> 0, bytes |-> Width, slots |-> t.slots])
  /\ UNCHANGED step

\* #[slot(raw = KEY)]: right-aligned at an external key, which the program
\* binds once.
BindRaw(t, key) ==
  /\ \A i \in Indices : fields[i].attr # key
  /\ Declare([attr |-> key, slot |-> 0, offset |-> Width - t.bytes,
              bytes |-> t.bytes, slots |-> t.slots])
  /\ UNCHANGED step

\* The numbered slots are next_slot + 1; storage was never written.
SlotsInUse ==
  ({"layout"} \X (0..step.next_slot)) \union UNION {SlotsOf(i) : i \in {j \in Indices : ~IsAuto(j)}}

Seal ==
  /\ ~sealed
  /\ sealed' = TRUE
  /\ storage' = [s \in SlotsInUse |-> ZeroSlot]
  /\ UNCHANGED <<fields, step, ret>>

Uses(answer, st) ==
  /\ sealed
  /\ storage' = st
  /\ ret' = answer
  /\ UNCHANGED <<fields, step, sealed>>

Set(i, w) == Uses(Answer("set", i, {}), Written(i, w))
Clear(i) == Uses(Answer("clear", i, {}), Cleared(i))
Take(i) == Uses(Answer("take", i, Seen(i)), Cleared(i))
Get(i) == Uses(Answer("get", i, Seen(i)), storage)

\* clear of a #[storage] struct, whose fields are all numbered by the chain,
\* clears field after field.
ClearAll ==
  /\ \A i \in Indices : IsAuto(i)
  /\ Uses(Answer("clear_all", 0, {}),
          [s \in DOMAIN storage |-> [p \in Positions |->
             IF \E i \in Indices : s \in SlotsOf(i) /\ (p \in BytesOf(i) \/ Alone(i))
             THEN Zero ELSE storage[s][p]]])

FieldsInit ==
  /\ fields = << >>
  /\ step = First
  /\ sealed = FALSE
  /\ storage = << >>
  /\ ret = Answer("new", 0, {})

FieldsNext ==
  \/ \E t \in FieldTypes :
       Place(t) \/ (\E n \in PinnedSlots : Pin(t, n)) \/ \E key \in RawKeys : BindRaw(t, key)
  \/ Seal
  \/ \E i \in Indices : (\E w \in Words : Set(i, w)) \/ Clear(i) \/ Take(i) \/ Get(i)
  \/ ClearAll

FieldsSpec == FieldsInit /\ [][FieldsNext]_fieldsVars

-----------------------------------------------------------------------------
(* Properties                                                              *)

PlacedField == [attr : {"auto", "pinned"} \union RawKeys, slot : Nat, offset : Positions, bytes : 1..Width, slots : Nat \ {0}]

\* One type invariant: a field's bytes lie within a slot, and once the struct
\* is sealed its storage has all the slots the chain assigned.
FieldsTypeOK ==
  /\ fields \in Seq(PlacedField)
  /\ \A i \in Indices : fields[i].offset + fields[i].bytes <= Width
  /\ step \in [next_slot : Nat, next_space : 0..Width]
  /\ sealed \in BOOLEAN
  /\ sealed => storage \in [SlotsInUse -> [Positions -> Words]]
  /\ ret.out \subseteq Words

\* No byte of storage belongs to two fields.
FieldsDisjoint ==
  \A i, j \in Indices : i # j =>
    SlotsOf(i) \intersect SlotsOf(j) = {} \/ BytesOf(i) \intersect BytesOf(j) = {}

\* A field's value, read at its first byte; before the struct exists, zero.
Value(i) == IF sealed THEN storage[<<Region(i), fields[i].slot>>][fields[i].offset] ELSE Zero

Abstract == INSTANCE FieldRecord WITH values <- [i \in Indices |-> Value(i)]

\* The struct is a record: a write or clear of one field, through whichever
\* path its alone flag selects, leaves every other field what it was, and a
\* field reads back, in all its bytes and slots, what was last written to it.
IsARecord == Abstract!Spec
=============================================================================
