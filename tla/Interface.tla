----------------------------- MODULE Interface -----------------------------
(* How a contract is built: the contract macro walks the items of the       *)
(* module and checks them against a .sol interface, if one is given; the    *)
(* compiler evaluates the assertions it generated; the builder lists the    *)
(* ABI, from the .sol file or from the Rust types. What is at stake is that *)
(* the listed ABI is what the router answers to.                            *)
EXTENDS SolTypes, SequencesExt

CONSTANTS
  SnakeCase,    \* to_snake_case, on the names in use
  CamelCase,    \* to_camel_case
  Files,        \* the .sol files tried, with NoFile for none: types, functions,
                \* constructors and errors of all contracts, the interfaces' events
  NoFile,
  NoName,       \* the item carries no explicit rename
  Items,        \* the Rust items tried
  Framework,    \* framework_errors::NAMES
  MaxItems      \* bounds the items of one contract

IsList(s) == s \in Seq(ToSet(s))
SingleIf(forms, t) == IsList(t.of) /\ (t.form \in forms => t.of = <<t.of[1]>>)
SolType(t) == t.form \in {"elem", "tuple", "named"} /\ SingleIf({"elem"}, t)
RustType(t) == t.form \in {"elem", "alias", "tuple", "struct"} /\ SingleIf({"elem", "alias"}, t)

\* An enum or a value type stands for one elementary type.
ASSUME DeclsAssumption ==
  \A f \in Files \ {NoFile} : \A d \in f.decls :
    IsList(d.of) /\ (d.kind # "struct" => d.of = <<d.of[1]>>)

\* A file's functions and constructors stand in its interfaces, in its other
\* contracts and libraries or at its own level: ns says where. Several
\* returns, like the components of a tuple, are elementary.
ASSUME FilesAssumption ==
  \A f \in Files \ {NoFile} :
    /\ IsFiniteSet(f.interfaces)
    /\ \A fn \in ToSet(f.funcs) \cup f.constructors :
         /\ IsList(fn.params) /\ IsList(fn.rets)
         /\ \A t \in ToSet(fn.params) \cup ToSet(fn.rets) : SolType(t)
         /\ Len(fn.rets) # 1 => \A t \in ToSet(fn.rets) : t.form = "elem"
    /\ \A c \in f.constructors : c.rets = << >>

\* The shape of Rust signatures; within a module one spelling of an error is
\* one type.
ASSUME ItemsAssumption ==
  \A it \in Items :
    /\ IsList(it.params) /\ IsList(it.ok.of) /\ IsList(it.err.sigs)
    /\ it.ok = Unit \/ RustType(it.ok)
    /\ \A t \in ToSet(it.params) : RustType(t)
    /\ \A o \in Items :
         (it.err.shown /\ o.err.shown /\ it.err.spelt = o.err.spelt) => it.err.sigs = o.err.sigs

ASSUME FrameworkAssumption == IsList(Framework)

VARIABLES
  file,         \* the .sol file given to #[contract]
  phase,        \* "load", "parse", "parsed", "built" or "rejected"
  written,      \* the items of the module so far
  structName,   \* the struct of the first impl block with an attribute
  methods,      \* the MethodInfo records, in order
  constructor,  \* the last #[constructor]: its inputs, or NoName
  receive,      \* the #[receive] handler, or NoName
  implemented,  \* the names of .sol functions matched so far
  errorTypes,   \* the distinct error types of the signatures, in order
  eventTypes,   \* the #[derive(SolEvent)] structs
  sigAsserts    \* the names rustc must find equal: <<Rust, .sol>>

vars == <<file, phase, written, structName, methods, constructor, receive, implemented,
          errorTypes, eventTypes, sigAsserts>>

-----------------------------------------------------------------------------
(* The contract macro *)

Mutability(it) ==
  CASE it.self = "none" -> "pure"
    [] it.self = "ref" -> "view"
    [] it.self = "mut" -> IF it.payable THEN "payable" ELSE "nonpayable"

\* infer_method_mutability refuses payable items that cannot write.
PayableOk(it) == it.payable => it.self = "mut"

ReturnTypes(it) ==
  IF it.ok = Unit THEN << >>
  ELSE IF ~it.result /\ it.ok.form = "tuple"
       THEN [i \in DOMAIN it.ok.of |-> RustElem(it.ok.of[i])]
       ELSE <<it.ok>>

\* Error types are told apart by how the signature spells them; one that an
\* alias of Result hides is not collected.
CollectError(it) ==
  IF it.result /\ it.err.shown /\ \A e \in ToSet(errorTypes) : e.spelt # it.err.spelt
  THEN Append(errorTypes, it.err) ELSE errorTypes

\* Of the file's functions the macro sees those of the interface.
OfInterface(f) == f.ns \in file.interfaces
InterfaceFunctions == {f \in ToSet(file.funcs) : OfInterface(f)}

Matches(f, it) ==
  /\ OfInterface(f)
  /\ IF it.rename # NoName THEN f.name = it.rename
     ELSE f.name = SnakeCase[it.fn] \/ SnakeCase[f.name] = it.fn

IsFirstMatch(i, it) ==
  /\ Matches(file.funcs[i], it)
  /\ \A j \in 1..(i - 1) : ~Matches(file.funcs[j], it)

SignatureCompatible(f, it) ==
  /\ DOMAIN f.params = DOMAIN it.params
  /\ \A i \in DOMAIN f.params :
       \/ HasCustomTypes(f.params[i]) \/ HasCustomTypes(it.params[i])
       \/ SolName(it.params[i]) = CanonicalName(file.decls, f.params[i])

SolReturnCanonical(f) ==
  IF Len(f.rets) = 1 THEN CanonicalName(file.decls, f.rets[1])
  ELSE TupleName([i \in DOMAIN f.rets |-> f.rets[i].of[1]])

\* Mutant: a type of the .sol file that Rust spells out is not asserted.
ParamAsserts_BothCustom(f, it) ==
  {<<SolName(it.params[i]), CanonicalName(file.decls, f.params[i])>> :
     i \in {j \in DOMAIN it.params : HasCustomTypes(f.params[j]) /\ HasCustomTypes(it.params[j])}}

ParamAsserts(f, it) ==
  {<<SolName(it.params[i]), CanonicalName(file.decls, f.params[i])>> :
     i \in {j \in DOMAIN it.params : HasCustomTypes(f.params[j]) \/ HasCustomTypes(it.params[j])}}

\* Mutant: returns are not asserted.
ReturnAsserts_None(f, it) == {}

ReturnAsserts(f, it) ==
  IF it.ok # Unit /\ f.rets # << >> THEN {<<SolName(it.ok), SolReturnCanonical(f)>>} ELSE {}

MethodInfo(it, name) ==
  [fn |-> it.fn, name |-> name, params |-> it.params, rets |-> ReturnTypes(it),
   mut |-> Mutability(it), guard |-> it.guard]

\* The declared function an item implements, if its signature agrees.
Implements(it, f) ==
  /\ \E i \in DOMAIN file.funcs : f = file.funcs[i] /\ IsFirstMatch(i, it)
  /\ SignatureCompatible(f, it)
  /\ f.mut = Mutability(it)

MethodOk(it) ==
  /\ PayableOk(it)
  /\ it.guard => it.self # "none"
  /\ file # NoFile =>
       Cardinality(file.interfaces) = 1 /\ \E f \in ToSet(file.funcs) : Implements(it, f)

AddMethod(it, name) ==
  /\ methods' = Append(methods, MethodInfo(it, name))
  /\ errorTypes' = CollectError(it)
  /\ UNCHANGED <<constructor, receive, eventTypes>>

ParseMethod(it) ==
  \/ /\ file = NoFile
     /\ AddMethod(it, IF it.rename # NoName THEN it.rename ELSE CamelCase[it.fn])
     /\ UNCHANGED <<implemented, sigAsserts>>
  \/ /\ file # NoFile
     /\ \E f \in ToSet(file.funcs) :
          /\ Implements(it, f)
          /\ AddMethod(it, f.name)
          /\ implemented' = implemented \cup {f.name}
          /\ sigAsserts' = sigAsserts \cup ParamAsserts(f, it) \cup ReturnAsserts(f, it)

\* A second constructor or fallback replaces the first.
ConstructorOk(it) == ~it.guard /\ it.self = "mut"

ParseConstructor(it) ==
  /\ constructor' = [inputs |-> it.params, payable |-> it.payable]
  /\ errorTypes' = CollectError(it)
  /\ UNCHANGED <<methods, receive, implemented, eventTypes, sigAsserts>>

FallbackOk(it) == ~it.guard /\ it.self # "none" /\ PayableOk(it)

ParseFallback(it) ==
  /\ errorTypes' = CollectError(it)
  /\ UNCHANGED <<methods, constructor, receive, implemented, eventTypes, sigAsserts>>

ReceiveOk(it) ==
  /\ ~it.guard /\ receive = NoName /\ ~it.payable
  /\ it.self = "mut" /\ it.params = << >>
  /\ it.result \/ it.ok = Unit

ParseReceive(it) ==
  /\ receive' = [fn |-> it.fn, on |-> it.on, result |-> it.result]
  /\ errorTypes' = CollectError(it)
  /\ UNCHANGED <<methods, constructor, implemented, eventTypes, sigAsserts>>

ParseEvent(it) ==
  /\ eventTypes' = eventTypes \cup {[name |-> it.fn, fields |-> it.params]}
  /\ UNCHANGED <<methods, constructor, receive, implemented, errorTypes, sigAsserts>>

\* The target of an impl block must be the contract struct. The check that
\* compares them looks for methods, constructors and fallbacks.
TargetOk(it) ==
  it.kind \in {"method", "constructor", "fallback"} => structName \in {NoName, it.on}

ItemOk(it) ==
  /\ TargetOk(it)
  /\ CASE it.kind = "method" -> MethodOk(it)
       [] it.kind = "constructor" -> ConstructorOk(it)
       [] it.kind = "fallback" -> FallbackOk(it)
       [] it.kind = "receive" -> ReceiveOk(it)
       [] OTHER -> TRUE

\* The compiler refuses two functions of one struct, or two structs, of one
\* name.
Fresh(it) ==
  \A w \in written : w.fn = it.fn => (w.kind # "event" /\ it.kind # "event" /\ w.on # it.on)

ParseItem(it) ==
  /\ phase = "parse" /\ Cardinality(written) < MaxItems /\ Fresh(it)
  /\ ItemOk(it)
  /\ \/ it.kind = "method" /\ ParseMethod(it)
     \/ it.kind = "constructor" /\ ParseConstructor(it)
     \/ it.kind = "fallback" /\ ParseFallback(it)
     \/ it.kind = "receive" /\ ParseReceive(it)
     \/ it.kind = "event" /\ ParseEvent(it)
  /\ written' = written \cup {it}
  /\ structName' = IF it.kind # "event" /\ structName = NoName THEN it.on ELSE structName
  /\ UNCHANGED <<file, phase>>

Proceed(next) ==
  /\ phase' = next
  /\ UNCHANGED <<file, written, structName, methods, constructor, receive, implemented,
                errorTypes, eventTypes, sigAsserts>>

\* Any early return rejects the contract.
Reject == Proceed("rejected")

RejectItem(it) ==
  /\ phase = "parse" /\ Cardinality(written) < MaxItems /\ Fresh(it)
  /\ ~ItemOk(it)
  /\ Reject

\* Names of declared types are unique in the file, and every one is declared.
FromFileOk(f) ==
  /\ DeclareOk(f.decls)
  /\ \A fn \in ToSet(f.funcs) \cup f.constructors :
       \A t \in ToSet(fn.params) \cup ToSet(fn.rets) : CheckDeclared(f.decls, t)

LoadInterface ==
  /\ phase = "load"
  /\ IF file = NoFile \/ FromFileOk(file) THEN Proceed("parse") ELSE Reject

NothingMissing ==
  file # NoFile =>
    /\ Cardinality(file.interfaces) = 1
    /\ \A f \in InterfaceFunctions : f.name \in implemented
    /\ \A e \in eventTypes : \E d \in file.events : d.name = e.name

FinishParse ==
  /\ phase = "parse"
  /\ IF structName # NoName /\ NothingMissing THEN Proceed("parsed") ELSE Reject

\* this.receive() is a method call on the contract struct.
ReceiveResolves ==
  receive # NoName =>
    \E w \in written :
      /\ w.on = structName /\ w.fn = receive.fn /\ w.kind # "event"
      /\ w.self # "none" /\ w.params = << >>
      /\ receive.result => w.result /\ w.ok = Unit

Compile ==
  /\ phase = "parsed"
  /\ IF (\A a \in sigAsserts : a[1] = a[2]) /\ ReceiveResolves
     THEN Proceed("built") ELSE Reject

Init ==
  /\ file \in Files /\ phase = "load" /\ written = {} /\ structName = NoName
  /\ methods = << >> /\ constructor = NoName /\ receive = NoName /\ implemented = {}
  /\ errorTypes = << >> /\ eventTypes = {} /\ sigAsserts = {}

Next ==
  \/ LoadInterface
  \/ \E it \in Items : ParseItem(it) \/ RejectItem(it)
  \/ FinishParse
  \/ Compile

Spec == Init /\ [][Next]_vars

-----------------------------------------------------------------------------
(* The listed ABI *)

\* From the .sol file, every function, wherever it stands.
DeclaredEntry(f) ==
  [name |-> f.name, mut |-> f.mut,
   ins |-> [i \in DOMAIN f.params |-> AbiParam(file.decls, f.params[i])],
   outs |-> [i \in DOMAIN f.rets |-> AbiParam(file.decls, f.rets[i])]]

\* From the Rust types, every method.
MethodEntry(m) ==
  [name |-> m.name, mut |-> m.mut, ins |-> Names(m.params), outs |-> Names(m.rets)]

AbiFunctions ==
  IF file # NoFile THEN {DeclaredEntry(f) : f \in ToSet(file.funcs)}
  ELSE {MethodEntry(m) : m \in ToSet(methods)}

\* No entry is listed twice.
NoDuplicates ==
  IF file # NoFile
  THEN IsInjective([i \in DOMAIN file.funcs |-> DeclaredEntry(file.funcs[i])])
  ELSE IsInjective([i \in DOMAIN methods |-> MethodEntry(methods[i])])

ErrorSig(name, params) == [name |-> name, params |-> params]
ReentrantCall == ErrorSig("ReentrancyGuardReentrantCall", << >>)

\* Mutant: an error is taken for seen by its name.
AppendUnseen_ByName(list, sig) ==
  IF \E s \in ToSet(list) : s.name = sig.name THEN list ELSE Append(list, sig)

AppendUnseen(list, sig) == IF sig \in ToSet(list) THEN list ELSE Append(list, sig)

\* The loops of the generated listing.
Unseen(sigs) ==
  LET list[i \in 0..Len(sigs)] == IF i = 0 THEN << >> ELSE AppendUnseen(list[i - 1], sigs[i])
  IN list[Len(sigs)]

SignatureErrors == FlattenSeq([i \in DOMAIN errorTypes |-> errorTypes[i].sigs])

GuardErrors == IF \E m \in ToSet(methods) : m.guard THEN <<ReentrantCall>> ELSE << >>

FrameworkErrors == [i \in DOMAIN Framework |-> ErrorSig(Framework[i], << >>)]

InferredErrors == Unseen(SignatureErrors \o GuardErrors \o FrameworkErrors)

\* The builder leaves out a framework error whose name the file declares.
DeclaredErrors ==
  file.errors \o
  SelectSeq(FrameworkErrors, LAMBDA s : \A e \in ToSet(file.errors) : e.name # s.name)

AbiErrors == IF file # NoFile THEN DeclaredErrors ELSE InferredErrors

-----------------------------------------------------------------------------
(* Properties *)

Built == phase = "built"

Answers(m, e) == m.name = e.name /\ Names(m.params) = e.ins /\ m.mut = e.mut

\* The listed functions a contract is to have: those of the interface.
InterfaceEntries ==
  IF file # NoFile THEN {DeclaredEntry(f) : f \in InterfaceFunctions} ELSE AbiFunctions

Overloaded(e) == \E o \in InterfaceEntries : o.name = e.name /\ o # e

\* A caller who goes by what the ABI lists of the interface calls what the
\* router dispatches: for every such function with a name of its own there is
\* an arm with its selector and its mutability, and no arm answers to a
\* selector the interface does not list. The list and the arms are read from
\* different sources when a .sol file is given (parse_contract against
\* function_to_abi). Left out are overloads, as functions are matched by name
\* and one method satisfies every overload; and what the builder lists of the
\* file's contracts and libraries and of its own level (collect_items), which
\* the macro neither matches nor requires: the ABI may list those in vain.
AbiIsTheRouter ==
  Built =>
    /\ \A e \in InterfaceEntries : Overloaded(e) \/ \E m \in ToSet(methods) : Answers(m, e)
    /\ \A m \in ToSet(methods) : \E e \in InterfaceEntries : Answers(m, e)

DynamicTuple(c) == c.tuple /\ IsDynamic(c)

ListedOnce(m) == \A d, e \in InterfaceEntries : Answers(m, d) /\ Answers(m, e) => d = e

\* What an arm returns is what the ABI, as far as it lists the interface,
\* says it returns, word by word, when both say they return something and
\* neither returns one dynamic struct or tuple (extract_return_types and
\* sol_name_assert against the listing). A struct and a list of values share
\* a canonical name, all that is compared. Two methods of one selector, of
\* which the first answers and the second is listed too, are left out: the
\* macro does not compare selectors.
PlainReturnsEncodeAsListed ==
  Built =>
    \A m \in ToSet(methods), e \in InterfaceEntries :
      (Answers(m, e) /\ ListedOnce(m) /\ m.rets # << >> /\ e.outs # << >>) =>
        \/ EncodeAll(m.rets) = StandardWire(e.outs)
        \/ \E c \in ToSet(e.outs) \cup ToSet(Names(m.rets)) : DynamicTuple(c)

\* The signatures an item may revert with, whatever its signature shows.
Raised(w) == IF w.kind # "event" /\ w.result THEN ToSet(w.err.sigs) ELSE {}

Reverts ==
  ToSet(FrameworkErrors) \cup ToSet(GuardErrors) \cup UNION {Raised(w) : w \in written}

\* A revert raised only by items that return an alias of Result with one
\* argument: its type is nowhere in their signatures.
OnlyBehindAlias(r) ==
  /\ r \notin ToSet(FrameworkErrors) \cup ToSet(GuardErrors)
  /\ \A w \in written : r \in Raised(w) => ~w.err.shown

\* Without a .sol file every revert of the contract, its own, the guard's and
\* the framework's, is in the ABI exactly once, also when two spellings or two
\* types declare one error, when a contract error takes a framework name or
\* when another item shows what an alias hides (generate_abi_gen_impl). One
\* that only aliases of Result hide is left out: collect_error_type looks for
\* a second argument of Result, and the ABI never has it.
RevertsListedOnce ==
  (Built /\ file = NoFile) =>
    \A r \in Reverts :
      OnlyBehindAlias(r) \/ Cardinality({i \in DOMAIN AbiErrors : AbiErrors[i] = r}) = 1
=============================================================================
