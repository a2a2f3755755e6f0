------------------------------- MODULE Nested -------------------------------
(* Lazy, Mapping, StorageVec and #[storage] structs nested in each other,   *)
(* over one contract's storage: pvm-storage/src/lib.rs, the codecs of       *)
(* pvm-contract-types/src/storage_codec.rs and the struct code of           *)
(* codegen/sol_storage.rs. A handle is used where it is obtained, along an  *)
(* access path from the root field; a leaf here fills its slots (fields     *)
(* packed in one slot are Fields and StorageVec).                           *)
EXTENDS DynCodec, StorageShape

ASSUME NestedAssumption ==
  /\ 0 \in Words /\ Words \subseteq 0..255
  /\ SomeStrings \subseteq Strings /\ Strings \subseteq Seq(0..255)
  /\ \A v \in Strings : 2 * Len(v) + 1 < 256   \* the length fits the last byte
  /\ MaxElems \in 1..255

VARIABLES
  shape,   \* the type of the root field
  store,   \* the contract's storage: the keys that hold something
  last     \* the last call and its answer

vars == <<shape, store, last>>

-----------------------------------------------------------------------------
(* Keys. keccak256 has no collisions: a derived key is the way to it.       *)

Root == [from |-> << >>, off |-> 0]
Add(key, n) == [from |-> key.from, off |-> key.off + n]
Hashed(key, label) == [from |-> Append(key.from, <<key.off, label>>), off |-> 0]
Body(key) == Hashed(key, <<"body", 0>>)
Entry(key, k) == Hashed(key, <<"key", k>>)

\* Mutant: the elements are laid out without their stride.
ElementSlot_NoStride(key, S, i) == Add(Body(key), i)
ElementSlot(key, S, i) == Add(Body(key), i * S.slots)

FieldSlot(key, fields, f) == Add(key, SlotsOf(fields, f - 1))

\* The key of part i of the value of type S at key.
PartSlot(key, S, i) ==
  CASE S.kind = "vec" -> ElementSlot(key, S.parts[1], i)
    [] S.kind = "map" -> Entry(key, i)
    [] S.kind = "struct" -> FieldSlot(key, S.parts, i)

KeyAt(S, path) ==
  LET at[k \in 0..Len(path)] ==
        IF k = 0 THEN Root ELSE PartSlot(at[k - 1], ShapeAt(S, Upto(path, k - 1)), path[k])
  IN  at[Len(path)]

\* The key of each path, by the type of the root.
KeysAt == [S \in Shapes |-> [p \in Paths(S) |-> KeyAt(S, p)]]

Key(p) == KeysAt[shape][p]
TypeOf(p) == TypesAt[shape][p]

\* count slots from key on.
Run(key, count) == {Add(key, n) : n \in 0..(count - 1)}

-----------------------------------------------------------------------------
(* The storage.                                                            *)

\* get_storage_or_zero and set_storage_or_clear
Slot32(st, key) == IF key \in DOMAIN st THEN st[key] ELSE ZeroSlot
Put(st, slots) ==
  LET at(key) == IF key \in DOMAIN slots THEN slots[key] ELSE st[key]
  IN  [key \in {k \in DOMAIN st \union DOMAIN slots : at(k) # ZeroSlot} |-> at(key)]
Zero(st, keys) == [key \in DOMAIN st \ keys |-> st[key]]

Length(st, key) == Slot32(st, key)[LowByte]
WithLength(st, key, n) == Put(st, [k \in {key} |-> WordSlot(n)])

\* The value of a leaf, and of a field of a Record.
ReadField(st, key, S) ==
  IF S.kind = "static" THEN [i \in 1..S.slots |-> Slot32(st, Add(key, i - 1))[LowByte]]
  ELSE LET h == Slot32(st, key) IN
       Stored(h, [s \in 0..(OldChunks(h) - 1) |-> Slot32(st, Add(Body(key), s))])

Read(st, key, S) ==
  IF S.kind = "record"
  THEN [f \in 1..Len(S.parts) |-> ReadField(st, FieldSlot(key, S.parts, f), S.parts[f])]
  ELSE ReadField(st, key, S)

\* Nothing, when its own slots are zero.
TryRead(st, key, S) ==
  IF \A k \in Run(key, S.slots) : k \notin DOMAIN st THEN << >> ELSE <<Read(st, key, S)>>

WrittenStatic(st, key, S, v) ==
  Put(st, [k \in Run(key, S.slots) |-> WordSlot(v[k.off - key.off + 1])])

WrittenText(st, key, v) ==
  LET freed == {Add(Body(key), s) : s \in Freed(Slot32(st, key), Len(v))}
      chunks == Run(Body(key), NewChunks(Len(v)))
  IN  Put(Zero(st, freed),
          [k \in {key} \union chunks |-> IF k = key THEN Header(v) ELSE Chunk(v, k.off)])

WrittenField(st, key, S, v) ==
  IF S.kind = "static" THEN WrittenStatic(st, key, S, v) ELSE WrittenText(st, key, v)

Written(st, key, S, v) ==
  LET upto[f \in 0..Len(S.parts)] ==
        IF f = 0 THEN st
        ELSE WrittenField(upto[f - 1], FieldSlot(key, S.parts, f), S.parts[f], v[f])
  IN  IF S.kind = "record" THEN upto[Len(S.parts)] ELSE WrittenField(st, key, S, v)

\* Mutant: a string is taken for a value that fills its own slot only.
NeedsRecursiveClear_NotText(S) == S.kind \notin {"static", "text"}
\* A Record has a string, or it is a static value.
NeedsRecursiveClear(S) == S.kind # "static"

\* The slots the value at p itself takes, the chunks of its strings included:
\* what it holds in parts is theirs.
FieldSlots(st, key, S) ==
  IF S.kind = "static" THEN Run(key, S.slots)
  ELSE {key} \union Run(Body(key), OldChunks(Slot32(st, key)))

OwnSlots(st, p) ==
  LET key == Key(p)
      S == TypeOf(p)
  IN
  CASE S.kind \in {"static", "text"} -> FieldSlots(st, key, S)
    [] S.kind = "record" ->
         UNION {FieldSlots(st, FieldSlot(key, S.parts, f), S.parts[f]) : f \in 1..Len(S.parts)}
    [] S.kind = "vec" -> {key}
    [] OTHER -> {}

\* The steps of path p after the first n stay below the lengths of the vecs.
InBounds(st, p, n) ==
  \A k \in (n + 1)..Len(p) :
    TypeOf(Upto(p, k - 1)).kind = "vec" => p[k] < Length(st, Key(Upto(p, k - 1)))

\* The slots clear_at zeroes: it goes on to the fields of a struct and to the
\* elements of a vec, or zeroes the slots of these at once, but not to the
\* entries of a mapping, which are not known.
Visited(st, p) ==
  {q \in DOMAIN TypesAt[shape] :
     /\ Holds(shape, p, q) /\ InBounds(st, q, Len(p))
     /\ \A k \in (Len(p) + 1)..Len(q) :
          LET S == TypeOf(Upto(q, k - 1)) IN S.kind = "vec" => NeedsRecursiveClear(S.parts[1])}

Elements(st, p) ==
  LET S == TypeOf(p) IN
  IF S.kind = "vec" /\ ~NeedsRecursiveClear(S.parts[1])
  THEN Run(Body(Key(p)), Length(st, Key(p)) * S.parts[1].slots) ELSE {}

Erased(st, p) == UNION {OwnSlots(st, q) \union Elements(st, q) : q \in Visited(st, p)}

ClearedAt(st, p) == Zero(st, Erased(st, p))

-----------------------------------------------------------------------------
(* Access                                                                  *)

\* Call c leaves the storage st and answers out; get and entry of a vec panic
\* past its length, and a transaction that panics on the way changes nothing.
OnNode(c, st, out) ==
  /\ UNCHANGED shape
  /\ IF InBounds(store, c.path, 0) THEN store' = st /\ last' = Answer(c, FALSE, out)
     ELSE UNCHANGED store /\ last' = Answer(c, TRUE, << >>)

CallsOf(op) == CallTable[shape][op]

ReadAt(p) == Read(store, Key(p), TypeOf(p))
WrittenAt(p, v) == Written(store, Key(p), TypeOf(p), v)
LengthAt(p) == Length(store, Key(p))

-----------------------------------------------------------------------------
(* Any container                                                           *)

\* StorageComponent::clear, Mapping::delete and remove
Clear == \E c \in CallsOf("clear") : OnNode(c, ClearedAt(store, c.path), << >>)

(* Lazy, and Mapping and StorageVec of leaves                              *)

Set == \E c \in CallsOf("set") : OnNode(c, WrittenAt(c.path, c.arg), << >>)

Take == \E c \in CallsOf("take") : OnNode(c, ClearedAt(store, c.path), <<ReadAt(c.path)>>)

Get == \E c \in CallsOf("get") : OnNode(c, store, <<ReadAt(c.path)>>)

TryGet ==
  \E c \in CallsOf("try_get") : OnNode(c, store, TryRead(store, Key(c.path), TypeOf(c.path)))

(* StorageVec                                                              *)

\* Bound: a vec holds at most MaxElems.
HasRoom(p) == InBounds(store, p, 0) => LengthAt(p) < MaxElems

Push ==
  \E c \in CallsOf("push") :
    LET p == c.path IN
    /\ HasRoom(p)
    /\ OnNode(c, WithLength(WrittenAt(Append(p, LengthAt(p)), c.arg), Key(p), LengthAt(p) + 1),
              << >>)

\* The cursor of the new element is an entry of the grown vec.
Grow ==
  \E c \in CallsOf("grow") :
    LET p == c.path IN
    /\ HasRoom(p)
    /\ OnNode(c, WithLength(store, Key(p), LengthAt(p) + 1), << >>)

Shortened(p) ==
  LET end == LengthAt(p) - 1 IN
  IF LengthAt(p) = 0 THEN store ELSE WithLength(ClearedAt(store, Append(p, end)), Key(p), end)

Pop ==
  \E c \in CallsOf("pop") :
    LET p == c.path IN
    OnNode(c, Shortened(p),
           IF LengthAt(p) = 0 THEN << >> ELSE <<ReadAt(Append(p, LengthAt(p) - 1))>>)

EraseLast ==
  \E c \in CallsOf("erase_last") :
    OnNode(c, Shortened(c.path), <<<<IF LengthAt(c.path) = 0 THEN 0 ELSE 1>>>>)

Size == \E c \in CallsOf("len") : OnNode(c, store, <<<<LengthAt(c.path)>>>>)

\* StorageVec::try_get
TryAt ==
  \E c \in CallsOf("try_at") :
    LET i == c.arg[1] IN
    OnNode(c, store, IF i < LengthAt(c.path) THEN <<ReadAt(Append(c.path, i))>> ELSE << >>)

Init ==
  /\ shape \in Shapes
  /\ store = << >>
  /\ last = Answer(Call("clear", << >>, << >>), FALSE, << >>)

Next ==
  \/ Clear \/ Set \/ Take \/ Get \/ TryGet
  \/ Push \/ Grow \/ Pop \/ EraseLast \/ Size \/ TryAt

Spec == Init /\ [][Next]_vars

-----------------------------------------------------------------------------
(* Properties                                                              *)

\* The tree the storage stands for.
Abstract == INSTANCE Tree WITH
  leaves <- [p \in PathsTo(shape, Leaves) |-> TryRead(store, Key(p), TypeOf(p))],
  lengths <- [p \in PathsTo(shape, {"vec"}) |-> LengthAt(p)]

\* However containers are nested and whatever was stored, cleared and grown
\* again before, a write changes the value it is addressed to and no other,
\* a cleared part reads as never written, save the entries of mappings, and
\* every answer is the one the values give.
IsATree == Abstract!Spec

\* p is in bounds, from the root or from the entry of a mapping it passes:
\* nobody can enumerate the entries, so they outlive what held the mapping.
Alive(p) ==
  \E n \in 0..Len(p) :
    /\ n = 0 \/ TypeOf(Upto(p, n - 1)).kind = "map"
    /\ InBounds(store, p, n)

\* Dropping, clearing or overwriting a value frees every slot it had, the
\* body chunks of strings and the vecs inside it included ("so storage
\* doesn't leak"); only the entries of mappings outlive what held them.
NothingLeftBehind ==
  \A key \in DOMAIN store : \E p \in DOMAIN TypesAt[shape] : key \in OwnSlots(store, p) /\ Alive(p)
=============================================================================
