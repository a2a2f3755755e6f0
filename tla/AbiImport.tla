----------------------------- MODULE AbiImport -----------------------------
(* The other end: abi_import! generates a caller's wrappers from the .sol    *)
(* file of a contract, or from the ABI JSON its build listed, and a call     *)
(* through a wrapper reaches the router of the contract.                     *)
EXTENDS Interface

CONSTANT NoClient   \* nothing imported yet

VARIABLE client     \* the import: its source, allocator flag and wrappers

importVars == <<vars, client>>

-----------------------------------------------------------------------------
\* load_json_abi: a listed type has no name, only its components.
JsonType(c) == IF c.tuple THEN SolTuple(c.of) ELSE SolElem(c.of[1])
JsonTypes(cs) == [i \in DOMAIN cs |-> JsonType(cs[i])]

JsonFunction(e) ==
  [ns |-> FileLevel, name |-> e.name, params |-> JsonTypes(e.ins),
   rets |-> JsonTypes(e.outs), mut |-> e.mut]

\* Of a .sol file only the interfaces become modules; the JSON is one
\* interface of all that is listed.
Functions(source) ==
  IF source = "file" THEN InterfaceFunctions ELSE {JsonFunction(e) : e \in AbiFunctions}

\* The types a path can lead to, and that are generated.
Decls(source) ==
  IF source = "file" THEN {d \in file.decls : d.ns \in file.interfaces \cup {FileLevel}} ELSE {}

-----------------------------------------------------------------------------
(* Expansion *)

Inputs(decls, f) == [i \in DOMAIN f.params |-> CanonicalName(decls, f.params[i])]

\* Overloads are told apart by their selector.
FunctionName(source, f) ==
  LET In(g) == Inputs(Decls(source), g)
  IN IF \E g \in Functions(source) : g.ns = f.ns /\ g.name = f.name /\ In(g) # In(f)
     THEN <<SnakeCase[f.name], In(f)>> ELSE <<SnakeCase[f.name]>>

\* A type is refused when its path leads nowhere, and without an allocator
\* when it is dynamic.
TypeOk(decls, scope, alloc, t) ==
  /\ t.form = "named" => Resolve(decls, scope, t) # {}
  /\ alloc \/ ~IsDynamic(CanonicalName(decls, t))

SignatureTypesOk(decls, alloc, f) ==
  \A t \in ToSet(f.params \o f.rets) : TypeOk(decls, f.ns, alloc, t)

RustTypes(decls, scope, ts) == [i \in DOMAIN ts |-> ToRustType(decls, scope, ts[i])]

\* Tuples that (T) does not spell: of one component, or dynamic and alone.
Misspelt(f) ==
  \E t \in ToSet(f.params) :
    t.form = "tuple" /\ (Len(t.of) = 1 \/ (Len(f.params) = 1 /\ IsDynamic(TupleName(t.of))))

\* The payload of one argument is written (T), which is T, and so are the
\* Outputs of one return.
Wrapper(source, f) ==
  LET decls == Decls(source)
      params == RustTypes(decls, f.ns, f.params)
  IN [fn |-> FunctionName(source, f), name |-> f.name, ins |-> Names(params), mut |-> f.mut,
      payload |-> EncodeAll(params),
      decodes |-> EncodeAll(RustTypes(decls, f.ns, f.rets)),
      misspelt |-> Misspelt(f)]

\* The listed constructor is that of the file, in whichever contract of it, or
\* without a file that of the Rust contract.
AbiConstructors ==
  IF file # NoFile
  THEN {[ns |-> c.ns, ins |-> [i \in DOMAIN c.params |-> AbiParam(file.decls, c.params[i])]] :
          c \in file.constructors}
  ELSE IF constructor # NoName THEN {[ns |-> FileLevel, ins |-> Names(constructor.inputs)]} ELSE {}

Constructors(source) ==
  IF source = "file" THEN {c \in file.constructors : OfInterface(c)}
  ELSE {[ns |-> c.ns, params |-> JsonTypes(c.ins), rets |-> << >>] : c \in AbiConstructors}

\* The wrapper takes the constructor for payable, whatever it is.
ConstructorWrapper(source, f) ==
  LET params == RustTypes(Decls(source), f.ns, f.params)
  IN [ins |-> Names(params), payload |-> EncodeAll(params), misspelt |-> Misspelt(f)]

\* rustc refuses two wrappers of one name, also those of one entry listed
\* twice; it refuses two constructors, and so does the JSON parser.
ExpandOk(source, alloc) ==
  /\ \A f \in Functions(source) \cup Constructors(source) :
       SignatureTypesOk(Decls(source), alloc, f)
  /\ alloc \/ \A d \in Decls(source) : \A i \in DOMAIN d.of : d.of[i] \notin DynamicElems
  /\ \A f, g \in Functions(source) : FunctionName(source, f) = FunctionName(source, g) => f = g
  /\ source = "json" => NoDuplicates
  /\ Cardinality(Constructors(source)) <= 1

Import(source, alloc) ==
  /\ phase = "built" /\ client = NoClient
  /\ source = "file" => file # NoFile
  /\ ExpandOk(source, alloc)
  /\ client' = [source |-> source, alloc |-> alloc,
                wrappers |-> {Wrapper(source, f) : f \in Functions(source)},
                constructors |-> {ConstructorWrapper(source, f) : f \in Constructors(source)}]
  /\ UNCHANGED vars

ImportInit == Init /\ client = NoClient

ImportNext ==
  \/ Next /\ UNCHANGED client
  \/ \E source \in {"file", "json"}, alloc \in BOOLEAN : Import(source, alloc)

ImportSpec == ImportInit /\ [][ImportNext]_importVars

-----------------------------------------------------------------------------
(* Properties *)

Wrappers == IF client = NoClient THEN {} ELSE client.wrappers

\* The router arm a wrapper's call runs.
Runs(m, w) == m.name = w.name /\ Names(m.params) = w.ins

OverloadedWrapper(w) == \E v \in Wrappers : v.name = w.name /\ v # w

\* The wrapper of a function outside the interface, listed from the file.
Foreign(w) == \A e \in InterfaceEntries : e.name # w.name

\* The contract has a constructor, with the parameters of the wrapper.
Constructs(w) == constructor # NoName /\ w.ins = Names(constructor.inputs)

\* A call through a wrapper runs the arm of that name, asks of the caller's
\* context what the arm may do to the state, lays its arguments out as the
\* ABI does, and decodes what the arm returns as listed: the generated types
\* (to_rust_type, by the path of a declaration), the selector check
\* (canonical_name, by the last segment of the path) and the listing must all
\* mean one declaration. Without a .sol file the imported constructor is that
\* of the contract; with one it is the file's, which the macro compares with
\* nothing, and is held to the layout only where the two agree. Left out are
\* overloads, wrappers of functions listed from outside the interface, which
\* may have no arm, arguments of a JSON file that the generated (T) misspells,
\* and a dynamic struct returned alone, which comes back from JSON as a tuple.
WrappersReachArms ==
  /\ \A w \in Wrappers :
       OverloadedWrapper(w) \/ w.misspelt \/ Foreign(w) \/
       \E m \in ToSet(methods) :
         Runs(m, w) /\ m.mut = w.mut /\ w.payload = StandardWire(Names(m.params))
  /\ \A w \in Wrappers, m \in ToSet(methods), e \in InterfaceEntries :
       (/\ ~(w.misspelt /\ OverloadedWrapper(w))
        /\ Runs(m, w) /\ Answers(m, e) /\ e.outs # << >>
        /\ EncodeAll(m.rets) = StandardWire(e.outs))
         => w.decodes = StandardWire(e.outs) \/ \E c \in ToSet(e.outs) : DynamicTuple(c)
  /\ client # NoClient =>
       \A w \in client.constructors :
         /\ file = NoFile => Constructs(w) \/ w.misspelt
         /\ Constructs(w) =>
              w.misspelt \/ w.payload = StandardWire(Names(constructor.inputs))
=============================================================================
