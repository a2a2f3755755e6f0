------------------------------ MODULE SolTypes ------------------------------
(* The types of a signature as the build reads them: in a .sol file, where  *)
(* a name stands for a declaration; in Rust, where it stands for a type     *)
(* with a SolEncode impl; and in their canonical ABI form, which selectors  *)
(* hash and ABI files list. Aggregates hold elementary types only.          *)
EXTENDS Naturals, Sequences

CONSTANTS
  DynamicElems,   \* the elementary types of variable length: string, bytes
  FileLevel       \* the namespace of a declaration outside every interface

-----------------------------------------------------------------------------
(* Canonical types *)

ElemName(e) == [tuple |-> FALSE, of |-> <<e>>]
TupleName(es) == [tuple |-> TRUE, of |-> es]

IsDynamic(c) == \E i \in DOMAIN c.of : c.of[i] \in DynamicElems

Components(c) == IF c.tuple THEN [i \in DOMAIN c.of |-> ElemName(c.of[i])] ELSE <<c>>

\* What the ABI puts on the wire for a list of values: one value of a dynamic
\* tuple type is a pointer to its components, every other list is its
\* components in a row.
StandardWire(cs) ==
  IF Len(cs) = 1
  THEN [boxed |-> cs[1].tuple /\ IsDynamic(cs[1]), parts |-> Components(cs[1])]
  ELSE [boxed |-> FALSE, parts |-> cs]

-----------------------------------------------------------------------------
(* Types of a .sol file. A declaration is [ns, name, kind, of]; a named type *)
(* is written with the namespace it is qualified by, if any.                 *)

SolElem(e) == [form |-> "elem", ns |-> FileLevel, of |-> <<e>>]
SolTuple(es) == [form |-> "tuple", ns |-> FileLevel, of |-> es]
SolNamed(ns, name) == [form |-> "named", ns |-> ns, of |-> <<name>>]

\* The flat table, keyed by the last segment of a path.
Declarations(decls, name) == {d \in decls : d.name = name}
Declaration(decls, name) == CHOOSE d \in decls : d.name = name

\* Mutant: two declarations of a name are not told apart.
DeclareOk_Unchecked(decls) == TRUE

DeclareOk(decls) == \A d, e \in decls : d.name = e.name => d = e

CheckDeclared(decls, t) == t.form = "named" => Declarations(decls, t.of[1]) # {}

\* A struct is the tuple of its fields, an enum a uint8 and a value type its
\* underlying type; the declaration of an enum has of = <<"uint8">>.
CanonicalName(decls, t) ==
  IF t.form = "named"
  THEN LET d == Declaration(decls, t.of[1])
       IN [tuple |-> d.kind = "struct", of |-> d.of]
  ELSE [tuple |-> t.form = "tuple", of |-> t.of]

\* The builder expands a listed parameter from a table of its own.
AbiParam(decls, t) ==
  IF t.form # "named" THEN [tuple |-> t.form = "tuple", of |-> t.of]
  ELSE LET d == Declaration(decls, t.of[1])
       IN IF d.kind = "struct" THEN TupleName(d.of) ELSE ElemName(d.of[1])

\* The namespaced table of abi_import: the declarations a path written in
\* scope may mean, nearest first; none when the path is unknown there.
Resolve(decls, scope, t) ==
  LET In(ns) == {d \in Declarations(decls, t.of[1]) : d.ns = ns}
  IN IF t.ns # FileLevel THEN In(t.ns)
     ELSE IF In(scope) # {} THEN In(scope) ELSE In(FileLevel)

-----------------------------------------------------------------------------
(* Types of Rust. A struct derives SolType; an alias is a name for, or a     *)
(* newtype of, an elementary type. The macro sees of both the name only.     *)

RustElem(e) == [form |-> "elem", of |-> <<e>>]
RustTuple(es) == [form |-> "tuple", of |-> es]
RustStruct(es) == [form |-> "struct", of |-> es]
RustAlias(e) == [form |-> "alias", of |-> <<e>>]
Unit == [form |-> "unit", of |-> << >>]

HasCustomTypes(t) == t.form \in {"struct", "alias", "named"}

SolName(t) == [tuple |-> t.form \in {"tuple", "struct"}, of |-> t.of]

\* encode_to: a tuple is a list of values, a dynamic struct one value behind
\* a pointer.
EncodeTo(t) ==
  [boxed |-> t.form # "tuple" /\ SolName(t).tuple /\ IsDynamic(SolName(t)),
   parts |-> Components(SolName(t))]

Names(ts) == [i \in DOMAIN ts |-> SolName(ts[i])]

EncodeAll(ts) ==
  IF Len(ts) = 1 THEN EncodeTo(ts[1]) ELSE [boxed |-> FALSE, parts |-> Names(ts)]

\* to_rust_type of abi_import: a named type is the Rust type generated where
\* its path leads from scope. The (T) it writes for a tuple of one is T.
ToRustType(decls, scope, t) ==
  CASE t.form = "elem" -> RustElem(t.of[1])
    [] t.form = "tuple" -> IF Len(t.of) = 1 THEN RustElem(t.of[1]) ELSE RustTuple(t.of)
    [] t.form = "named" ->
         LET d == CHOOSE d \in Resolve(decls, scope, t) : TRUE
         IN IF d.kind = "struct" THEN RustStruct(d.of) ELSE RustAlias(d.of[1])
=============================================================================
