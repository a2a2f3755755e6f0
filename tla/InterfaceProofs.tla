-------------------------- MODULE InterfaceProofs --------------------------
(* The ABI a build lists is the interface its router answers to, reverts    *)
(* with and is called through, for any files, items, names and number of    *)
(* items.                                                                   *)
EXTENDS AbiImport, SequenceTheorems, FiniteSetTheorems, WellFoundedInduction, TLAPS

\* What the passes record of a method that implements a declared function.
Agrees(m, f) ==
  /\ m.name = f.name /\ m.mut = f.mut
  /\ SignatureCompatible(f, m)
  /\ ParamAsserts(f, m) \subseteq sigAsserts

Loaded == phase \in {"parse", "parsed", "built"}

IInv ==
  /\ file \in Files
  /\ methods \in Seq(ToSet(methods))
  /\ (Loaded /\ file # NoFile) => FromFileOk(file)
  /\ file # NoFile =>
       /\ \A m \in ToSet(methods) : \E f \in InterfaceFunctions : Agrees(m, f)
       /\ \A n \in implemented : \E m \in ToSet(methods) : m.name = n
  /\ phase \in {"parsed", "built"} => NothingMissing
  /\ phase = "built" => \A a \in sigAsserts : a[1] = a[2]

\* A list with one more element has one more element.
LEMMA AppendElements ==
  ASSUME NEW s, s \in Seq(ToSet(s)), NEW x
  PROVE  /\ ToSet(Append(s, x)) = ToSet(s) \cup {x}
         /\ Append(s, x) \in Seq(ToSet(Append(s, x)))
<1>1. /\ Append(s, x) \in Seq(ToSet(s) \cup {x})
      /\ Len(Append(s, x)) = Len(s) + 1
      /\ \A i \in 1..Len(s) : Append(s, x)[i] = s[i]
      /\ Append(s, x)[Len(s) + 1] = x
  OBVIOUS
<1>2. DOMAIN s = 1..Len(s) /\ DOMAIN Append(s, x) = 1..(Len(s) + 1) /\ Len(s) \in Nat
  OBVIOUS
<1>3. ToSet(Append(s, x)) = ToSet(s) \cup {x}
  BY <1>1, <1>2 DEF ToSet
<1> QED BY <1>1, <1>3

-----------------------------------------------------------------------------
(* What the checks establish                                               *)

\* The table of the builder and the table of the macro expand a declared
\* type to the same components.
LEMMA OneExpansion ==
  ASSUME file \in Files, file # NoFile, NEW t, CheckDeclared(file.decls, t)
  PROVE  AbiParam(file.decls, t) = CanonicalName(file.decls, t)
<1>1. CASE t.form # "named"
  BY <1>1 DEF AbiParam, CanonicalName
<1>2. CASE t.form = "named"
  <2> DEFINE d == Declaration(file.decls, t.of[1])
  <2>1. d \in file.decls
    BY <1>2 DEF CheckDeclared, Declarations, Declaration
  <2>2. d.kind # "struct" => d.of = <<d.of[1]>>
    BY <2>1, DeclsAssumption
  <2> QED
    BY <1>2, <2>2 DEF AbiParam, CanonicalName, TupleName, ElemName
<1> QED BY <1>1, <1>2

\* Once the assertions hold, a method answers to the listed form of the
\* function it implements.
LEMMA AgreesAnswers ==
  ASSUME IInv, phase = "built", file # NoFile,
         NEW m \in ToSet(methods), NEW f \in ToSet(file.funcs), Agrees(m, f)
  PROVE  Answers(m, DeclaredEntry(f))
<1>1. DOMAIN f.params = DOMAIN m.params
  BY DEF Agrees, SignatureCompatible
<1>2. ASSUME NEW i \in DOMAIN f.params
      PROVE  SolName(m.params[i]) = AbiParam(file.decls, f.params[i])
  <2>1. CheckDeclared(file.decls, f.params[i])
    <3>1. FromFileOk(file)
      BY DEF IInv, Loaded
    <3>2. f.params[i] \in ToSet(f.params) \cup ToSet(f.rets)
      BY DEF ToSet
    <3> QED BY <3>1, <3>2 DEF FromFileOk
  <2>2. SolName(m.params[i]) = CanonicalName(file.decls, f.params[i])
    <3>1. CASE HasCustomTypes(f.params[i]) \/ HasCustomTypes(m.params[i])
      <4>1. <<SolName(m.params[i]), CanonicalName(file.decls, f.params[i])>> \in sigAsserts
        BY <1>1, <3>1 DEF Agrees, ParamAsserts
      <4> QED BY <4>1 DEF IInv
    <3>2. CASE ~(HasCustomTypes(f.params[i]) \/ HasCustomTypes(m.params[i]))
      BY <3>2 DEF Agrees, SignatureCompatible
    <3> QED BY <3>1, <3>2
  <2> QED
    BY <2>1, <2>2, OneExpansion DEF IInv
<1> QED
  BY <1>1, <1>2 DEF Answers, DeclaredEntry, Names, Agrees

\* The invariant of the passes gives the property.
LEMMA InvImpliesRouter ==
  ASSUME IInv
  PROVE  AbiIsTheRouter
<1> SUFFICES ASSUME phase = "built" PROVE AbiIsTheRouter
  BY DEF AbiIsTheRouter, Built
<1>1. CASE file = NoFile
  <2>1. InterfaceEntries = {MethodEntry(m) : m \in ToSet(methods)}
    BY <1>1 DEF InterfaceEntries, AbiFunctions
  <2>2. \A m \in ToSet(methods) : Answers(m, MethodEntry(m))
    BY DEF Answers, MethodEntry
  <2> QED BY <2>1, <2>2 DEF AbiIsTheRouter
<1>2. CASE file # NoFile
  <2>1. InterfaceEntries = {DeclaredEntry(f) : f \in InterfaceFunctions}
    BY <1>2 DEF InterfaceEntries
  <2>2. ASSUME NEW m \in ToSet(methods)
        PROVE  \E f \in InterfaceFunctions : m.name = f.name /\ Answers(m, DeclaredEntry(f))
    <3>1. PICK f \in InterfaceFunctions : Agrees(m, f)
      BY <1>2 DEF IInv
    <3> QED BY <1>2, <3>1, AgreesAnswers DEF Agrees, InterfaceFunctions
  <2>3. ASSUME NEW e \in InterfaceEntries, ~Overloaded(e)
        PROVE  \E m \in ToSet(methods) : Answers(m, e)
    <3>1. PICK f \in InterfaceFunctions : e = DeclaredEntry(f)
      BY <2>1
    <3>2. f.name \in implemented
      BY <1>2 DEF IInv, NothingMissing
    <3>3. PICK m \in ToSet(methods) : m.name = f.name
      BY <1>2, <3>2 DEF IInv
    <3>4. PICK g \in InterfaceFunctions : m.name = g.name /\ Answers(m, DeclaredEntry(g))
      BY <2>2
    <3>5. DeclaredEntry(g).name = e.name /\ DeclaredEntry(g) \in InterfaceEntries
      BY <2>1, <3>1, <3>3, <3>4 DEF DeclaredEntry
    <3>6. DeclaredEntry(g) = e
      BY <2>3, <3>5 DEF Overloaded
    <3> QED BY <3>4, <3>6
  <2> QED
    BY <2>1, <2>2, <2>3 DEF AbiIsTheRouter
<1> QED BY <1>1, <1>2

-----------------------------------------------------------------------------
(* The passes keep the invariant                                           *)

\* A contract starts with no method and nothing to check.
LEMMA InitInv == Init => IInv
<1> SUFFICES ASSUME Init PROVE IInv
  OBVIOUS
<1>1. ToSet(methods) = {} /\ methods \in Seq(ToSet(methods))
  BY DEF Init, ToSet
<1> QED BY <1>1 DEF Init, IInv, Loaded

\* What is checked of the items already parsed does not depend on the phase.
LEMMA ProceedInv ==
  ASSUME IInv, NEW next, Proceed(next),
         next \in {"parse", "parsed", "built"} /\ file # NoFile => FromFileOk(file),
         next \in {"parsed", "built"} => NothingMissing,
         next = "built" => \A a \in sigAsserts : a[1] = a[2]
  PROVE  IInv'
<1>1. UNCHANGED <<file, methods, implemented, eventTypes, sigAsserts>> /\ phase' = next
  BY DEF Proceed
<1>2. \A m, f : Agrees(m, f)' <=> Agrees(m, f)
  BY <1>1 DEF Agrees, SignatureCompatible, ParamAsserts
<1>3. InterfaceFunctions' = InterfaceFunctions
  BY <1>1 DEF InterfaceFunctions, OfInterface
<1>4. NothingMissing' <=> NothingMissing
  BY <1>1, <1>3 DEF NothingMissing
<1> QED
  BY <1>1, <1>2, <1>3, <1>4 DEF IInv, Loaded

\* The signature of a method that implements a function agrees with it, and
\* its assertions are kept.
LEMMA MethodAgrees ==
  ASSUME NEW it, NEW f, Implements(it, f), ParamAsserts(f, it) \subseteq sigAsserts',
         file' = file
  PROVE  Agrees(MethodInfo(it, f.name), f)'
<1> DEFINE m == MethodInfo(it, f.name)
<1>1. m.params = it.params /\ m.name = f.name /\ m.mut = f.mut
  BY DEF MethodInfo, Implements
<1>2. SignatureCompatible(f, m)'
  BY <1>1 DEF Implements, SignatureCompatible
<1>3. ParamAsserts(f, m)' \subseteq sigAsserts'
  BY <1>1 DEF ParamAsserts
<1> QED BY <1>1, <1>2, <1>3 DEF Agrees

\* The macro matches functions of the interface only.
LEMMA ImplementsOfInterface ==
  ASSUME NEW it, NEW f, Implements(it, f)
  PROVE  f \in InterfaceFunctions
BY DEF Implements, IsFirstMatch, Matches, InterfaceFunctions, ToSet

\* A method with a .sol file is checked against it; every other item leaves
\* the methods and the assertions alone.
LEMMA ItemInv ==
  ASSUME IInv, NEW it \in Items, ParseItem(it)
  PROVE  IInv'
<1>1. file' = file /\ phase' = phase /\ phase = "parse"
  BY DEF ParseItem
<1>2. /\ file' \in Files
      /\ (Loaded' /\ file' # NoFile) => FromFileOk(file')
      /\ phase' \notin {"parsed", "built"}
  BY <1>1 DEF IInv, Loaded
<1> InterfaceFunctions' = InterfaceFunctions
  BY <1>1 DEF InterfaceFunctions, OfInterface
<1>3. CASE UNCHANGED <<methods, implemented, sigAsserts>>
  <2>1. \A m, f : Agrees(m, f)' <=> Agrees(m, f)
    BY <1>1, <1>3 DEF Agrees, SignatureCompatible, ParamAsserts
  <2> QED BY <1>1, <1>2, <1>3, <2>1 DEF IInv
<1>4. CASE ParseMethod(it)
  <2>1. CASE file = NoFile
    <3>1. PICK name : AddMethod(it, name)
      BY <1>4 DEF ParseMethod
    <3>2. methods' \in Seq(ToSet(methods'))
      BY <3>1, AppendElements DEF AddMethod, IInv
    <3> QED BY <1>1, <1>2, <2>1, <3>2 DEF IInv
  <2>2. CASE file # NoFile
    <3>1. PICK f \in ToSet(file.funcs) :
            /\ Implements(it, f)
            /\ AddMethod(it, f.name)
            /\ implemented' = implemented \cup {f.name}
            /\ sigAsserts' = sigAsserts \cup ParamAsserts(f, it) \cup ReturnAsserts(f, it)
      BY <1>4, <2>2 DEF ParseMethod
    <3> DEFINE m == MethodInfo(it, f.name)
    <3>2. ToSet(methods') = ToSet(methods) \cup {m} /\ methods' \in Seq(ToSet(methods'))
      BY <3>1, AppendElements DEF AddMethod, IInv
    <3>3. Agrees(m, f)'
      BY <1>1, <3>1, MethodAgrees
    <3>4. \A n, g : Agrees(n, g) => Agrees(n, g)'
      BY <1>1, <3>1 DEF Agrees, SignatureCompatible, ParamAsserts
    <3>5. \A n \in ToSet(methods') : \E g \in InterfaceFunctions : Agrees(n, g)'
      BY <2>2, <3>1, <3>2, <3>3, <3>4, ImplementsOfInterface DEF IInv
    <3>6. m.name = f.name
      BY DEF MethodInfo
    <3>7. \A n \in implemented' : \E k \in ToSet(methods') : k.name = n
      BY <2>2, <3>1, <3>2, <3>6 DEF IInv
    <3> QED BY <1>1, <1>2, <3>2, <3>5, <3>7 DEF IInv
  <2> QED BY <2>1, <2>2
<1> QED
  BY <1>3, <1>4 DEF ParseItem, ParseConstructor, ParseFallback, ParseReceive, ParseEvent

\* Every step keeps the invariant.
LEMMA NextInv == IInv /\ [Next]_vars => IInv'
<1> SUFFICES ASSUME IInv, [Next]_vars PROVE IInv'
  OBVIOUS
<1>1. CASE LoadInterface
  BY <1>1, ProceedInv DEF LoadInterface, Reject
<1>2. ASSUME NEW it \in Items, ParseItem(it) PROVE IInv'
  BY <1>2, ItemInv
<1>3. ASSUME NEW it \in Items, RejectItem(it) PROVE IInv'
  BY <1>3, ProceedInv DEF RejectItem, Reject
<1>4. CASE FinishParse
  BY <1>4, ProceedInv DEF FinishParse, Reject, IInv, Loaded
<1>5. CASE Compile
  BY <1>5, ProceedInv DEF Compile, Reject, IInv, Loaded
<1>6. CASE UNCHANGED vars
  <2>1. \A m, f : Agrees(m, f)' <=> Agrees(m, f)
    BY <1>6 DEF vars, Agrees, SignatureCompatible, ParamAsserts
  <2>2. InterfaceFunctions' = InterfaceFunctions
    BY <1>6 DEF vars, InterfaceFunctions, OfInterface
  <2>3. NothingMissing' <=> NothingMissing
    BY <1>6, <2>2 DEF vars, NothingMissing
  <2> QED BY <1>6, <2>1, <2>2, <2>3 DEF vars, IInv, Loaded
<1> QED
  BY <1>1, <1>2, <1>3, <1>4, <1>5, <1>6 DEF Next

\* Whatever the .sol file and the items, in any number: a contract that
\* builds has an arm for every function of its interface with a name of its
\* own, as the ABI lists it, and lists every arm (parse_contract with the
\* assertions it generates, against generate_abi_from_sol and
\* generate_abi_gen_impl). The functions a file declares outside its one
\* interface are listed too; nothing is said of those.
THEOREM ListedAbiIsTheRouter == Spec => []AbiIsTheRouter
<1>1. Init => IInv
  BY InitInv
<1>2. IInv /\ [Next]_vars => IInv'
  BY NextInv
<1>3. IInv => AbiIsTheRouter
  BY InvImpliesRouter
<1> QED
  BY <1>1, <1>2, <1>3, PTL DEF Spec


-----------------------------------------------------------------------------
(* What the lists of a built contract come from                            *)

\* A method is what the macro extracted of an item; with a .sol file it
\* implements a function whose returns it was asserted to have.
MethodSource(m) ==
  \E it \in Items :
    /\ m.params = it.params /\ m.rets = ReturnTypes(it)
    /\ file # NoFile =>
         \E f \in InterfaceFunctions : Agrees(m, f) /\ ReturnAsserts(f, it) \subseteq sigAsserts

ErrorSource(e) == \E it \in Items : it.err.shown /\ e = it.err

Collected(w) ==
  (w.kind # "event" /\ w.result /\ w.err.shown) => \E e \in ToSet(errorTypes) : e.spelt = w.err.spelt

SourceInv ==
  /\ \A m \in ToSet(methods) : MethodSource(m)
  /\ IsList(errorTypes) /\ \A e \in ToSet(errorTypes) : ErrorSource(e)
  /\ written \subseteq Items /\ \A w \in written : Collected(w)
  /\ constructor = NoName \/ \E it \in Items : constructor.inputs = it.params

\* Nothing was extracted before the first item.
LEMMA SourceInit == Init => SourceInv
<1> SUFFICES ASSUME Init PROVE SourceInv
  OBVIOUS
<1>1. ToSet(methods) = {} /\ ToSet(errorTypes) = {} /\ IsList(errorTypes)
  BY DEF Init, ToSet, IsList
<1> QED BY <1>1 DEF Init, SourceInv

\* An error type is collected when its spelling is new.
LEMMA CollectErrorKeeps ==
  ASSUME IsList(errorTypes), \A e \in ToSet(errorTypes) : ErrorSource(e),
         NEW it \in Items, errorTypes' = CollectError(it)
  PROVE  /\ IsList(errorTypes') /\ ToSet(errorTypes) \subseteq ToSet(errorTypes')
         /\ \A e \in ToSet(errorTypes') : ErrorSource(e)
         /\ Collected(it)'
<1>1. CASE errorTypes' = errorTypes
  BY <1>1 DEF CollectError, Collected
<1>2. CASE errorTypes' # errorTypes
  <2>1. errorTypes' = Append(errorTypes, it.err) /\ it.err.shown
    BY <1>2 DEF CollectError
  <2>2. ToSet(errorTypes') = ToSet(errorTypes) \cup {it.err} /\ IsList(errorTypes')
    BY <2>1, AppendElements DEF IsList
  <2> QED BY <2>1, <2>2 DEF ErrorSource, Collected
<1> QED BY <1>1, <1>2


\* Methods and assertions stay; what is said of a method stays with them.
LEMMA MethodSourceKept ==
  ASSUME NEW m, MethodSource(m), file' = file, sigAsserts \subseteq sigAsserts'
  PROVE  MethodSource(m)'
<1>1. \A f : Agrees(m, f) => Agrees(m, f)'
  BY DEF Agrees, SignatureCompatible, ParamAsserts
<1>2. \A f, it : ReturnAsserts(f, it)' = ReturnAsserts(f, it)
  BY DEF ReturnAsserts, SolReturnCanonical
<1>3. InterfaceFunctions' = InterfaceFunctions
  BY DEF InterfaceFunctions, OfInterface
<1> QED
  BY <1>1, <1>2, <1>3 DEF MethodSource

\* An item adds a method made of it, or none, and its error type.
LEMMA SourceItem ==
  ASSUME IInv, SourceInv, NEW it \in Items, ParseItem(it)
  PROVE  SourceInv'
<1>1. file' = file /\ written' = written \cup {it}
  BY DEF ParseItem
<1>2. CASE ParseMethod(it)
  <2>1. PICK name : AddMethod(it, name) /\ sigAsserts \subseteq sigAsserts' /\ MethodSource(MethodInfo(it, name))'
    <3>1. CASE file = NoFile
      BY <1>1, <1>2, <3>1 DEF ParseMethod, MethodSource, MethodInfo
    <3>2. CASE file # NoFile
      <4>1. PICK f \in ToSet(file.funcs) :
              /\ Implements(it, f)
              /\ AddMethod(it, f.name)
              /\ sigAsserts' = sigAsserts \cup ParamAsserts(f, it) \cup ReturnAsserts(f, it)
        BY <1>2, <3>2 DEF ParseMethod
      <4>2. Agrees(MethodInfo(it, f.name), f)'
        BY <1>1, <4>1, MethodAgrees
      <4>3. ReturnAsserts(f, it)' \subseteq sigAsserts'
        BY <1>1, <4>1 DEF ReturnAsserts, SolReturnCanonical
      <4>4. f \in InterfaceFunctions'
        BY <1>1, <4>1, ImplementsOfInterface DEF InterfaceFunctions, OfInterface
      <4>5. MethodSource(MethodInfo(it, f.name))'
        BY <1>1, <4>2, <4>3, <4>4 DEF MethodSource, MethodInfo
      <4> QED BY <4>1, <4>5
    <3> QED BY <3>1, <3>2
  <2>2. ToSet(methods') = ToSet(methods) \cup {MethodInfo(it, name)}
    BY <2>1, AppendElements DEF AddMethod, IInv
  <2>3. \A m \in ToSet(methods') : MethodSource(m)'
    BY <1>1, <2>1, <2>2, MethodSourceKept DEF SourceInv
  <2>4. errorTypes' = CollectError(it) /\ constructor' = constructor
    BY <2>1 DEF AddMethod
  <2>5. /\ IsList(errorTypes') /\ ToSet(errorTypes) \subseteq ToSet(errorTypes')
        /\ \A e \in ToSet(errorTypes') : ErrorSource(e)
        /\ Collected(it)'
    BY <2>4, CollectErrorKeeps DEF SourceInv
  <2>6. \A w \in written' : Collected(w)'
    BY <1>1, <2>5 DEF SourceInv, Collected
  <2> QED BY <1>1, <2>3, <2>4, <2>5, <2>6 DEF SourceInv
<1>3. CASE UNCHANGED <<methods, sigAsserts>>
  <2>1. \A m \in ToSet(methods') : MethodSource(m)'
    BY <1>1, <1>3, MethodSourceKept DEF SourceInv
  <2>2. /\ IsList(errorTypes') /\ ToSet(errorTypes) \subseteq ToSet(errorTypes')
        /\ \A e \in ToSet(errorTypes') : ErrorSource(e)
        /\ Collected(it)'
    <3>1. CASE errorTypes' = CollectError(it)
      BY <3>1, CollectErrorKeeps DEF SourceInv
    <3>2. CASE it.kind = "event" /\ errorTypes' = errorTypes
      BY <3>2 DEF SourceInv, Collected
    <3> QED
      BY <1>2, <1>3, <3>1, <3>2
      DEF ParseItem, ParseMethod, AddMethod, ParseConstructor, ParseFallback, ParseReceive, ParseEvent
  <2>3. \A w \in written' : Collected(w)'
    BY <1>1, <2>2 DEF SourceInv, Collected
  <2>4. constructor' = NoName \/ \E o \in Items : constructor'.inputs = o.params
    <3>1. CASE constructor' = constructor
      BY <3>1 DEF SourceInv
    <3>2. CASE ParseConstructor(it)
      BY <3>2 DEF ParseConstructor
    <3> QED
      BY <1>2, <3>1, <3>2 DEF ParseItem, ParseMethod, AddMethod, ParseFallback, ParseReceive, ParseEvent
  <2> QED BY <1>1, <2>1, <2>2, <2>3, <2>4 DEF SourceInv
<1> QED
  BY <1>2, <1>3 DEF ParseItem, ParseConstructor, ParseFallback, ParseReceive, ParseEvent

\* Every step keeps the sources.
LEMMA SourceNext == IInv /\ SourceInv /\ [Next]_vars => SourceInv'
<1> SUFFICES ASSUME IInv, SourceInv, [Next]_vars PROVE SourceInv'
  OBVIOUS
<1>1. ASSUME NEW it \in Items, ParseItem(it) PROVE SourceInv'
  BY <1>1, SourceItem
<1>2. CASE UNCHANGED <<file, methods, sigAsserts, errorTypes, written, constructor>>
  <2>1. \A m : MethodSource(m) => MethodSource(m)'
    BY <1>2, MethodSourceKept
  <2>2. \A w : Collected(w) => Collected(w)'
    BY <1>2 DEF Collected
  <2> QED BY <1>2, <2>1, <2>2 DEF SourceInv
<1> QED
  BY <1>1, <1>2 DEF Next, vars, LoadInterface, RejectItem, FinishParse, Compile, Reject, Proceed


-----------------------------------------------------------------------------
(* Returns                                                                 *)

\* A list maps to a list of the same length.
LEMMA NamesAreAList ==
  ASSUME NEW ts, IsList(ts)
  PROVE  Len(Names(ts)) = Len(ts) /\ DOMAIN Names(ts) = 1..Len(ts)
<1>1. Len(ts) \in Nat /\ DOMAIN ts = 1..Len(ts)
  BY DEF IsList
<1>2. Names(ts) \in Seq({SolName(ts[i]) : i \in 1..Len(ts)})
  BY <1>1 DEF Names
<1> QED BY <1>1, <1>2 DEF Names

\* A list of values is written as its ABI types say, a dynamic tuple returned
\* alone excepted: encode_to takes it for the list of its components.
LEMMA EncodedAsNamed ==
  ASSUME NEW ts, IsList(ts),
         Len(ts) = 1 => ~(ts[1].form = "tuple" /\ IsDynamic(SolName(ts[1])))
  PROVE  EncodeAll(ts) = StandardWire(Names(ts))
<1>1. Len(Names(ts)) = Len(ts)
  BY NamesAreAList
<1>2. CASE Len(ts) = 1
  <2>1. Names(ts)[1] = SolName(ts[1])
    BY <1>2 DEF Names, IsList
  <2>2. (ts[1].form # "tuple" /\ SolName(ts[1]).tuple /\ IsDynamic(SolName(ts[1])))
          = (SolName(ts[1]).tuple /\ IsDynamic(SolName(ts[1])))
    BY <1>2
  <2> QED BY <1>1, <1>2, <2>1, <2>2 DEF EncodeAll, EncodeTo, StandardWire
<1>3. CASE Len(ts) # 1
  BY <1>1, <1>3 DEF EncodeAll, StandardWire
<1> QED BY <1>2, <1>3

\* An elementary type is its own name.
LEMMA ElemIsItsName ==
  ASSUME NEW e
  PROVE  SolName(RustElem(e)) = ElemName(e)
<1>1. RustElem(e).form = "elem" /\ RustElem(e).of = <<e>>
  BY DEF RustElem
<1>2. (RustElem(e).form \in {"tuple", "struct"}) = FALSE
  BY <1>1
<1>3. SolName(RustElem(e)) = [tuple |-> (RustElem(e).form \in {"tuple", "struct"}), of |-> <<e>>]
  BY <1>1 DEF SolName
<1> QED BY <1>2, <1>3 DEF ElemName

LEMMA ElemIsWritten ==
  ASSUME NEW e
  PROVE  EncodeTo(RustElem(e)) = [boxed |-> FALSE, parts |-> <<ElemName(e)>>]
<1> DEFINE r == RustElem(e)
           n == ElemName(e)
<1>1. n.tuple = FALSE
  BY DEF ElemName
<1>2. (r.form # "tuple" /\ n.tuple /\ IsDynamic(n)) = FALSE
  BY <1>1
<1>3. Components(n) = <<n>>
  BY <1>1 DEF Components
<1>4. EncodeTo(r) = [boxed |-> (r.form # "tuple" /\ n.tuple /\ IsDynamic(n)),
                     parts |-> Components(n)]
  BY ElemIsItsName DEF EncodeTo
<1> QED BY <1>2, <1>3, <1>4

\* A method that returns a list spreads it over its values.
Spread(it) == ~it.result /\ it.ok.form = "tuple" /\ Len(it.ok.of) # 1

\* What a method returns is written as the components of its type, in a row.
LEMMA ReturnsEncodeAsNamed ==
  ASSUME NEW it \in Items, ReturnTypes(it) # << >>, Spread(it) \/ ~DynamicTuple(SolName(it.ok))
  PROVE  EncodeAll(ReturnTypes(it)) = [boxed |-> FALSE, parts |-> Components(SolName(it.ok))]
<1>1. CASE ~it.result /\ it.ok.form = "tuple" /\ it.ok # Unit
  <2> DEFINE rs == [i \in DOMAIN it.ok.of |-> RustElem(it.ok.of[i])]
  <2>1. ReturnTypes(it) = rs
    BY <1>1 DEF ReturnTypes
  <2>2. IsList(it.ok.of)
    BY ItemsAssumption
  <2>3. Len(rs) = Len(it.ok.of) /\ DOMAIN it.ok.of = 1..Len(it.ok.of) /\ Len(it.ok.of) \in Nat
    BY <2>2 DEF IsList
  <2>4. Names(rs) = [i \in DOMAIN it.ok.of |-> ElemName(it.ok.of[i])]
    BY ElemIsItsName DEF Names
  <2>5. Components(SolName(it.ok)) = [i \in DOMAIN it.ok.of |-> ElemName(it.ok.of[i])]
    BY <1>1 DEF Components, SolName
  <2>6. CASE Len(it.ok.of) # 1
    <3> HIDE DEF rs
    <3> QED BY <1>1, <2>1, <2>3, <2>4, <2>5, <2>6 DEF EncodeAll
  <2>7. CASE Len(it.ok.of) = 1
    <3>1. EncodeAll(rs) = EncodeTo(rs[1]) /\ rs[1] = RustElem(it.ok.of[1])
      BY <2>3, <2>7 DEF EncodeAll
    <3>2. EncodeTo(RustElem(it.ok.of[1])) = [boxed |-> FALSE, parts |-> <<ElemName(it.ok.of[1])>>]
      BY ElemIsWritten
    <3>3. Components(SolName(it.ok)) = <<ElemName(it.ok.of[1])>>
      BY <2>3, <2>5, <2>7
    <3> QED BY <2>1, <3>1, <3>2, <3>3
  <2> QED BY <2>6, <2>7
<1>2. CASE ~(~it.result /\ it.ok.form = "tuple") /\ it.ok # Unit
  <2>1. ReturnTypes(it) = <<it.ok>>
    BY <1>2 DEF ReturnTypes
  <2>2. Names(<<it.ok>>) = <<SolName(it.ok)>>
    BY DEF Names
  <2>3. ~(it.ok.form = "tuple" /\ IsDynamic(SolName(it.ok)))
    BY <1>2 DEF Spread, DynamicTuple, SolName
  <2>4. IsList(<<it.ok>>) /\ Len(<<it.ok>>) = 1 /\ <<it.ok>>[1] = it.ok
    BY DEF IsList, ToSet
  <2>5. EncodeAll(<<it.ok>>) = StandardWire(<<SolName(it.ok)>>)
    BY <2>2, <2>3, <2>4, EncodedAsNamed
  <2>6. StandardWire(<<SolName(it.ok)>>) = [boxed |-> FALSE, parts |-> Components(SolName(it.ok))]
    BY <1>2 DEF Spread, StandardWire, DynamicTuple
  <2> QED BY <2>1, <2>5, <2>6
<1> QED BY <1>1, <1>2 DEF ReturnTypes


\* The components listed for a function's returns, folded into one name, are
\* the components of that name.
LEMMA ListedReturns ==
  ASSUME file \in Files, file # NoFile, FromFileOk(file),
         NEW f \in ToSet(file.funcs), f.rets # << >>,
         NEW outs, outs = DeclaredEntry(f).outs, \A c \in ToSet(outs) : ~DynamicTuple(c)
  PROVE  StandardWire(outs) = [boxed |-> FALSE, parts |-> Components(SolReturnCanonical(f))]
<1>1. IsList(f.rets) /\ (Len(f.rets) # 1 => \A t \in ToSet(f.rets) : t.form = "elem")
  BY FilesAssumption
<1>2. Len(f.rets) \in Nat /\ DOMAIN f.rets = 1..Len(f.rets)
  BY <1>1 DEF IsList
<1>3. outs = [i \in 1..Len(f.rets) |-> AbiParam(file.decls, f.rets[i])]
  BY <1>2 DEF DeclaredEntry
<1>4. Len(outs) = Len(f.rets)
  BY <1>2, <1>3
<1>5. \A i \in 1..Len(f.rets) : CheckDeclared(file.decls, f.rets[i]) /\ f.rets[i] \in ToSet(f.rets)
  BY <1>2 DEF FromFileOk, ToSet
<1>6. \A i \in 1..Len(f.rets) : outs[i] = CanonicalName(file.decls, f.rets[i])
  BY <1>3, <1>5, OneExpansion
<1>7. CASE Len(f.rets) = 1
  <2>1. outs[1] = SolReturnCanonical(f) /\ outs[1] \in ToSet(outs)
    BY <1>3, <1>6, <1>7 DEF SolReturnCanonical, ToSet
  <2> QED BY <1>4, <1>7, <2>1 DEF StandardWire, DynamicTuple
<1>8. CASE Len(f.rets) # 1
  <2>1. SolReturnCanonical(f) = TupleName([i \in 1..Len(f.rets) |-> f.rets[i].of[1]])
    BY <1>2, <1>8 DEF SolReturnCanonical
  <2>2. Components(SolReturnCanonical(f)) = [i \in 1..Len(f.rets) |-> ElemName(f.rets[i].of[1])]
    BY <2>1 DEF Components, TupleName
  <2>3. ASSUME NEW i \in 1..Len(f.rets) PROVE outs[i] = ElemName(f.rets[i].of[1])
    <3>1. f.rets[i].form = "elem" /\ f.rets[i].of = <<f.rets[i].of[1]>>
      BY <1>1, <1>5, <1>8, FilesAssumption DEF SolType, SingleIf
    <3>2. (f.rets[i].form = "tuple") = FALSE
      BY <3>1
    <3>3. outs[i] = [tuple |-> (f.rets[i].form = "tuple"), of |-> f.rets[i].of]
      BY <1>6, <3>1 DEF CanonicalName
    <3> QED BY <3>1, <3>2, <3>3 DEF ElemName
  <2>4. outs = Components(SolReturnCanonical(f))
    BY <1>3, <2>2, <2>3
  <2> QED BY <1>4, <1>8, <2>4 DEF StandardWire
<1> QED BY <1>7, <1>8


\* The extracted types are a list.
LEMMA ReturnTypesAreAList ==
  ASSUME NEW it \in Items
  PROVE  IsList(ReturnTypes(it))
<1> DEFINE rs == [i \in DOMAIN it.ok.of |-> RustElem(it.ok.of[i])]
<1>1. IsList(it.ok.of)
  BY ItemsAssumption
<1>2. DOMAIN rs = 1..Len(it.ok.of) /\ Len(it.ok.of) \in Nat
  BY <1>1 DEF IsList
<1>3. IsList(rs)
  <2>1. \A i \in DOMAIN rs : rs[i] \in ToSet(rs)
    BY DEF ToSet
  <2> HIDE DEF rs
  <2>2. rs \in [1..Len(it.ok.of) -> ToSet(rs)]
    BY <1>2, <2>1 DEF rs
  <2> QED BY <1>2, <2>2 DEF IsList
<1>4. IsList(<< >>) /\ IsList(<<it.ok>>)
  BY DEF IsList, ToSet
<1> QED BY <1>3, <1>4 DEF ReturnTypes

\* A method of a contract without a .sol file is listed with its own returns.
LEMMA OwnReturns ==
  ASSUME SourceInv, file = NoFile, NEW m \in ToSet(methods), NEW e \in InterfaceEntries,
         Answers(m, e), ListedOnce(m),
         \A c \in ToSet(e.outs) \cup ToSet(Names(m.rets)) : ~DynamicTuple(c)
  PROVE  EncodeAll(m.rets) = StandardWire(e.outs)
<1>1. PICK it \in Items : m.rets = ReturnTypes(it)
  BY DEF SourceInv, MethodSource
<1>2. IsList(m.rets)
  BY <1>1, ReturnTypesAreAList
<1>3. MethodEntry(m) \in InterfaceEntries /\ Answers(m, MethodEntry(m))
  BY DEF InterfaceEntries, AbiFunctions, Answers, MethodEntry
<1>4. e.outs = Names(m.rets)
  BY <1>3 DEF ListedOnce, MethodEntry
<1>5. ASSUME Len(m.rets) = 1
      PROVE  ~(m.rets[1].form = "tuple" /\ IsDynamic(SolName(m.rets[1])))
  <2>1. Names(m.rets)[1] = SolName(m.rets[1]) /\ Names(m.rets)[1] \in ToSet(Names(m.rets))
    BY <1>2, <1>5, NamesAreAList DEF Names, ToSet
  <2> QED BY <2>1 DEF DynamicTuple, SolName
<1> QED BY <1>2, <1>4, <1>5, EncodedAsNamed

\* A method that implements a declared function was asserted to return what
\* the file declares.
LEMMA DeclaredReturns ==
  ASSUME IInv, SourceInv, phase = "built", file # NoFile,
         NEW m \in ToSet(methods), NEW e \in InterfaceEntries,
         Answers(m, e), ListedOnce(m), m.rets # << >>, e.outs # << >>,
         \A c \in ToSet(e.outs) \cup ToSet(Names(m.rets)) : ~DynamicTuple(c)
  PROVE  EncodeAll(m.rets) = StandardWire(e.outs)
<1>1. PICK it \in Items, f \in InterfaceFunctions :
        m.rets = ReturnTypes(it) /\ Agrees(m, f) /\ ReturnAsserts(f, it) \subseteq sigAsserts
  BY DEF SourceInv, MethodSource
<1> f \in ToSet(file.funcs)
  BY DEF InterfaceFunctions
<1>2. e = DeclaredEntry(f)
  <2>1. DeclaredEntry(f) \in InterfaceEntries
    BY DEF InterfaceEntries
  <2> QED BY <1>1, <2>1, AgreesAnswers DEF ListedOnce
<1>3. FromFileOk(file) /\ file \in Files
  BY DEF IInv, Loaded
<1>4. f.rets # << >> /\ e.outs = [i \in DOMAIN f.rets |-> AbiParam(file.decls, f.rets[i])]
  BY <1>2 DEF DeclaredEntry
<1>5. it.ok # Unit
  BY <1>1 DEF ReturnTypes
<1>6. SolName(it.ok) = SolReturnCanonical(f)
  BY <1>1, <1>4, <1>5 DEF ReturnAsserts, IInv
<1>7. StandardWire(e.outs) = [boxed |-> FALSE, parts |-> Components(SolName(it.ok))]
  BY <1>2, <1>3, <1>4, <1>6, ListedReturns
<1>8. Spread(it) \/ ~DynamicTuple(SolName(it.ok))
  <2>1. CASE ~(~it.result /\ it.ok.form = "tuple")
    <3>1. m.rets = <<it.ok>>
      BY <1>1, <1>5, <2>1 DEF ReturnTypes
    <3>2. SolName(it.ok) \in ToSet(Names(m.rets))
      BY <3>1 DEF Names, ToSet
    <3> QED BY <3>2
  <2>2. CASE Len(f.rets) = 1
    <3>1. f.rets[1] \in ToSet(f.rets) /\ 1 \in DOMAIN f.rets
      BY <2>2, FilesAssumption, <1>3 DEF IsList, ToSet
    <3>2. e.outs[1] = SolReturnCanonical(f) /\ e.outs[1] \in ToSet(e.outs)
      BY <1>3, <1>4, <2>2, <3>1, OneExpansion DEF FromFileOk, SolReturnCanonical, ToSet
    <3> QED BY <1>6, <3>2
  <2>3. CASE ~it.result /\ it.ok.form = "tuple" /\ Len(f.rets) # 1
    <3>1. IsList(f.rets) /\ IsList(it.ok.of)
      BY <1>3, FilesAssumption, ItemsAssumption
    <3>2. it.ok.of = [i \in DOMAIN f.rets |-> f.rets[i].of[1]]
      BY <1>6, <2>3 DEF SolReturnCanonical, TupleName, SolName
    <3>3. Len(it.ok.of) = Len(f.rets)
      BY <3>1, <3>2 DEF IsList
    <3> QED BY <2>3, <3>3 DEF Spread
  <2> QED BY <2>1, <2>2, <2>3
<1> QED BY <1>1, <1>7, <1>8, ReturnsEncodeAsNamed

\* Whatever the file and the items, the arms of a built contract return what
\* its ABI lists, but for the cases the property names (extract_return_types
\* and sol_name_assert against the listing).
THEOREM ReturnsAreListed == Spec => []PlainReturnsEncodeAsListed
<1>1. Init => IInv /\ SourceInv
  BY InitInv, SourceInit
<1>2. IInv /\ SourceInv /\ [Next]_vars => (IInv /\ SourceInv)'
  BY NextInv, SourceNext
<1>3. IInv /\ SourceInv => PlainReturnsEncodeAsListed
  <2> SUFFICES ASSUME IInv, SourceInv, phase = "built",
                      NEW m \in ToSet(methods), NEW e \in InterfaceEntries,
                      Answers(m, e), ListedOnce(m), m.rets # << >>, e.outs # << >>,
                      \A c \in ToSet(e.outs) \cup ToSet(Names(m.rets)) : ~DynamicTuple(c)
               PROVE  EncodeAll(m.rets) = StandardWire(e.outs)
    BY DEF PlainReturnsEncodeAsListed, Built
  <2> QED BY OwnReturns, DeclaredReturns
<1> QED
  BY <1>1, <1>2, <1>3, PTL DEF Spec


-----------------------------------------------------------------------------
(* Errors. The loops of the listing are recursive functions: what they      *)
(* compute is proved on a least counterexample.                             *)

\* Every non-empty set of naturals has a least element.
LEMMA LeastNatural ==
  ASSUME NEW T, T \subseteq Nat, T # {}
  PROVE  \E x \in T : \A y \in T : x <= y
<1> DEFINE R == OpToRel(<, Nat)
<1>1. IsWellFoundedOn(R, Nat)
  BY NatLessThanWellFounded
<1>2. PICK x \in T : \A y \in T : <<y, x>> \notin R
  <2> HIDE DEF R
  <2> QED BY <1>1, WFMin
<1>3. ASSUME NEW y \in T PROVE x <= y
  <2>1. y \in Nat /\ x \in Nat /\ <<y, x>> \notin R
    BY <1>2
  <2>2. <<y, x>> \in Nat \X Nat /\ <<y, x>>[1] = y /\ <<y, x>>[2] = x
    BY <2>1
  <2>3. y < x => <<y, x>> \in R
    BY <2>2 DEF OpToRel
  <2> HIDE DEF R
  <2> QED BY <2>1, <2>3
<1> QED BY <1>3

\* What holds of 0 and of a successor holds of every natural: P is a set.
LEMMA NaturalsBySet ==
  ASSUME NEW P, 0 \in P, \A n \in Nat : n \in P => n + 1 \in P
  PROVE  Nat \subseteq P
<1> SUFFICES ASSUME Nat \ P # {} PROVE FALSE
  OBVIOUS
<1>1. PICK x \in Nat \ P : \A y \in Nat \ P : x <= y
  BY LeastNatural
<1>2. x - 1 \in Nat /\ x - 1 \in P
  BY <1>1
<1> QED BY <1>1, <1>2

\* The loop of Unseen, run on the first n signatures.
UnseenLoop(s, g, n) ==
  g = [i \in 0..n |-> IF i = 0 THEN << >> ELSE AppendUnseen(g[i - 1], s[i])]

LEMMA UnseenLoopRuns ==
  ASSUME NEW s, NEW n \in Nat
  PROVE  \E g : UnseenLoop(s, g, n)
<1> DEFINE P == {k \in Nat : \E g : UnseenLoop(s, g, k)}
<1>1. 0 \in P
  <2>1. UnseenLoop(s, [i \in 0..0 |-> << >>], 0)
    BY DEF UnseenLoop
  <2> QED BY <2>1
<1>2. ASSUME NEW k \in Nat, k \in P PROVE k + 1 \in P
  <2>1. PICK g : UnseenLoop(s, g, k)
    BY <1>2
  <2> DEFINE h == [i \in 0..(k + 1) |-> IF i = k + 1 THEN AppendUnseen(g[k], s[k + 1]) ELSE g[i]]
  <2>2. \A i \in 0..k : h[i] = g[i]
    OBVIOUS
  <2>3. h[k + 1] = AppendUnseen(h[k], s[k + 1])
    BY <2>2
  <2>4. \A i \in 0..k : g[i] = IF i = 0 THEN << >> ELSE AppendUnseen(g[i - 1], s[i])
    BY <2>1 DEF UnseenLoop
  <2>5. \A i \in 0..(k + 1) : h[i] = IF i = 0 THEN << >> ELSE AppendUnseen(h[i - 1], s[i])
    <3> HIDE DEF h
    <3> QED BY <2>2, <2>3, <2>4
  <2>6. UnseenLoop(s, h, k + 1)
    BY <2>5 DEF UnseenLoop
  <2> QED BY <2>6
<1> HIDE DEF P
<1>3. n \in P
  BY <1>1, <1>2, NaturalsBySet
<1> QED BY <1>3 DEF P


NoRepeat(r) == \A i, j \in DOMAIN r : r[i] = r[j] => i = j

\* A signature is pushed unless it is there.
LEMMA AppendUnseenFacts ==
  ASSUME NEW r, IsList(r), NoRepeat(r), NEW x
  PROVE  LET q == AppendUnseen(r, x)
         IN IsList(q) /\ NoRepeat(q) /\ ToSet(q) = ToSet(r) \cup {x}
<1>1. CASE x \in ToSet(r)
  BY <1>1 DEF AppendUnseen
<1>2. CASE x \notin ToSet(r)
  <2>1. AppendUnseen(r, x) = Append(r, x)
    BY <1>2 DEF AppendUnseen
  <2>2. IsList(Append(r, x)) /\ ToSet(Append(r, x)) = ToSet(r) \cup {x}
    BY AppendElements DEF IsList
  <2>3. /\ DOMAIN r = 1..Len(r) /\ Len(r) \in Nat
        /\ DOMAIN Append(r, x) = 1..(Len(r) + 1)
        /\ \A i \in 1..Len(r) : Append(r, x)[i] = r[i] /\ r[i] # x
        /\ Append(r, x)[Len(r) + 1] = x
    <3>1. r \in Seq(ToSet(r) \cup {x})
      BY DEF IsList
    <3> QED BY <1>2, <3>1 DEF ToSet
  <2>4. NoRepeat(Append(r, x))
    BY <2>3 DEF NoRepeat
  <2> QED BY <2>1, <2>2, <2>4
<1> QED BY <1>1, <1>2

\* The loop lists every signature once.
LEMMA UnseenCollects ==
  ASSUME NEW s, IsList(s)
  PROVE  IsList(Unseen(s)) /\ NoRepeat(Unseen(s)) /\ ToSet(Unseen(s)) = ToSet(s)
<1>1. Len(s) \in Nat /\ DOMAIN s = 1..Len(s)
  BY DEF IsList
<1>2. PICK g : UnseenLoop(s, g, Len(s)) /\ Unseen(s) = g[Len(s)]
  <2> DEFINE g == CHOOSE g : UnseenLoop(s, g, Len(s))
  <2>1. UnseenLoop(s, g, Len(s))
    BY <1>1, UnseenLoopRuns
  <2>2. Unseen(s) = g[Len(s)]
    BY DEF Unseen, UnseenLoop
  <2> QED BY <2>1, <2>2
<1> DEFINE Read(n) == {s[i] : i \in 1..n}
           P == {n \in Nat : n <= Len(s) => (IsList(g[n]) /\ NoRepeat(g[n]) /\ ToSet(g[n]) = Read(n))}
<1>3. 0 \in P
  <2>1. g[0] = << >>
    BY <1>1, <1>2 DEF UnseenLoop
  <2>2. IsList(<< >>) /\ NoRepeat(<< >>) /\ ToSet(<< >>) = {}
    BY DEF IsList, NoRepeat, ToSet
  <2>3. Read(0) = {}
    OBVIOUS
  <2> QED BY <2>1, <2>2, <2>3
<1>4. ASSUME NEW n \in Nat, n \in P PROVE n + 1 \in P
  <2> SUFFICES ASSUME n + 1 <= Len(s)
               PROVE  IsList(g[n + 1]) /\ NoRepeat(g[n + 1]) /\ ToSet(g[n + 1]) = Read(n + 1)
    OBVIOUS
  <2>1. g[n + 1] = AppendUnseen(g[n], s[n + 1])
    <3>1. n + 1 \in 0..Len(s) /\ n + 1 # 0 /\ (n + 1) - 1 = n
      BY <1>1
    <3> QED BY <1>2, <3>1 DEF UnseenLoop
  <2>2. IsList(g[n]) /\ NoRepeat(g[n]) /\ ToSet(g[n]) = Read(n)
    BY <1>1, <1>4
  <2>3. Read(n + 1) = Read(n) \cup {s[n + 1]}
    BY <1>1
  <2> HIDE DEF Read, P
  <2> QED BY <2>1, <2>2, <2>3, AppendUnseenFacts
<1>5. Len(s) \in P
  <2> HIDE DEF P
  <2> QED BY <1>1, <1>3, <1>4, NaturalsBySet
<1>6. ToSet(s) = Read(Len(s))
  BY <1>1 DEF ToSet
<1> QED BY <1>1, <1>2, <1>5, <1>6


\* The loop of FlattenSeq, run on the first n lists.
FlattenLoop(ss, g, n) == g = [i \in 1..n |-> IF i = 1 THEN ss[i] ELSE g[i - 1] \o ss[i]]

LEMMA FlattenLoopRuns ==
  ASSUME NEW ss, NEW n \in Nat
  PROVE  \E g : FlattenLoop(ss, g, n)
<1> DEFINE P == {k \in Nat : \E g : FlattenLoop(ss, g, k)}
<1>1. 0 \in P
  <2>1. FlattenLoop(ss, [i \in 1..0 |-> << >>], 0)
    BY DEF FlattenLoop
  <2> QED BY <2>1
<1>2. ASSUME NEW k \in Nat, k \in P PROVE k + 1 \in P
  <2>1. PICK g : FlattenLoop(ss, g, k)
    BY <1>2
  <2> DEFINE last == IF k + 1 = 1 THEN ss[k + 1] ELSE g[k] \o ss[k + 1]
             h == [i \in 1..(k + 1) |-> IF i = k + 1 THEN last ELSE g[i]]
  <2>2. \A i \in 1..k : h[i] = g[i]
    OBVIOUS
  <2>3. h[k + 1] = IF k + 1 = 1 THEN ss[k + 1] ELSE h[k] \o ss[k + 1]
    <3>1. h[k + 1] = last
      OBVIOUS
    <3>2. k + 1 # 1 => h[k] = g[k]
      BY <2>2
    <3> HIDE DEF h
    <3> QED BY <3>1, <3>2
  <2>4. \A i \in 1..k : g[i] = IF i = 1 THEN ss[i] ELSE g[i - 1] \o ss[i]
    BY <2>1 DEF FlattenLoop
  <2>5. \A i \in 1..(k + 1) : h[i] = IF i = 1 THEN ss[i] ELSE h[i - 1] \o ss[i]
    <3> HIDE DEF h
    <3> QED BY <2>2, <2>3, <2>4
  <2>6. FlattenLoop(ss, h, k + 1)
    BY <2>5 DEF FlattenLoop
  <2> QED BY <2>6
<1> HIDE DEF P
<1>3. n \in P
  BY <1>1, <1>2, NaturalsBySet
<1> QED BY <1>3 DEF P

\* Two lists in a row hold the elements of both.
LEMMA ConcatElements ==
  ASSUME NEW a, NEW b, IsList(a), IsList(b)
  PROVE  IsList(a \o b) /\ ToSet(a \o b) = ToSet(a) \cup ToSet(b)
<1>1. /\ a \in Seq(ToSet(a) \cup ToSet(b)) /\ b \in Seq(ToSet(a) \cup ToSet(b))
      /\ DOMAIN a = 1..Len(a) /\ DOMAIN b = 1..Len(b) /\ Len(a) \in Nat /\ Len(b) \in Nat
  BY DEF IsList
<1>2. /\ a \o b \in Seq(ToSet(a) \cup ToSet(b)) /\ Len(a \o b) = Len(a) + Len(b)
      /\ \A i \in 1..Len(a) : (a \o b)[i] = a[i]
      /\ \A i \in 1..Len(b) : (a \o b)[Len(a) + i] = b[i]
  BY <1>1
<1>3. DOMAIN (a \o b) = 1..(Len(a) + Len(b))
  BY <1>2
<1>4. \A i \in 1..(Len(a) + Len(b)) : i \in 1..Len(a) \/ \E j \in 1..Len(b) : i = Len(a) + j
  <2>1. ASSUME NEW i \in 1..(Len(a) + Len(b)), i \notin 1..Len(a)
        PROVE  i - Len(a) \in 1..Len(b) /\ i = Len(a) + (i - Len(a))
    BY <1>1, <2>1
  <2> QED BY <2>1
<1>5. ToSet(a \o b) \subseteq ToSet(a) \cup ToSet(b)
  <2>1. ASSUME NEW i \in 1..(Len(a) + Len(b))
        PROVE  (a \o b)[i] \in ToSet(a) \cup ToSet(b)
    <3>1. CASE i \in 1..Len(a)
      BY <1>1, <1>2, <3>1 DEF ToSet
    <3>2. CASE i \notin 1..Len(a)
      <4>1. PICK j \in 1..Len(b) : i = Len(a) + j
        BY <1>4, <3>2
      <4> QED BY <1>1, <1>2, <4>1 DEF ToSet
    <3> QED BY <3>1, <3>2
  <2> QED BY <1>3, <2>1 DEF ToSet
<1>6. ToSet(a) \subseteq ToSet(a \o b)
  BY <1>1, <1>2, <1>3 DEF ToSet
<1>7. ToSet(b) \subseteq ToSet(a \o b)
  <2>1. \A i \in 1..Len(b) : Len(a) + i \in 1..(Len(a) + Len(b))
    BY <1>1
  <2> QED BY <1>1, <1>2, <1>3, <2>1 DEF ToSet
<1>8. ToSet(a \o b) = ToSet(a) \cup ToSet(b)
  BY <1>5, <1>6, <1>7
<1> QED BY <1>2, <1>8 DEF IsList


\* Lists in a row hold the elements of all of them.
LEMMA FlattenElements ==
  ASSUME NEW ss, IsList(ss), \A l \in ToSet(ss) : IsList(l)
  PROVE  IsList(FlattenSeq(ss)) /\ ToSet(FlattenSeq(ss)) = UNION {ToSet(l) : l \in ToSet(ss)}
<1>1. Len(ss) \in Nat /\ DOMAIN ss = 1..Len(ss)
  BY DEF IsList
<1>2. CASE Len(ss) = 0
  <2>1. FlattenSeq(ss) = ss /\ ToSet(ss) = {}
    BY <1>1, <1>2 DEF FlattenSeq, ToSet
  <2> QED BY <2>1
<1>3. CASE Len(ss) # 0
  <2>1. PICK g : FlattenLoop(ss, g, Len(ss)) /\ FlattenSeq(ss) = g[Len(ss)]
    <3> DEFINE g == CHOOSE g : FlattenLoop(ss, g, Len(ss))
    <3>1. FlattenLoop(ss, g, Len(ss))
      BY <1>1, FlattenLoopRuns
    <3>2. FlattenSeq(ss) = g[Len(ss)]
      BY <1>3 DEF FlattenSeq, FlattenLoop
    <3> QED BY <3>1, <3>2
  <2> DEFINE Read(n) == UNION {ToSet(ss[i]) : i \in 1..n}
             P == {n \in Nat : n + 1 <= Len(ss) => (IsList(g[n + 1]) /\ ToSet(g[n + 1]) = Read(n + 1))}
  <2>2. \A i \in 1..Len(ss) : IsList(ss[i])
    BY <1>1 DEF ToSet
  <2>3. 0 \in P
    <3>1. g[0 + 1] = ss[1]
      BY <1>1, <1>3, <2>1 DEF FlattenLoop
    <3>2. Read(0 + 1) = ToSet(ss[1])
      <4>1. 1..(0 + 1) = {1}
        OBVIOUS
      <4> QED BY <4>1
    <3> HIDE DEF Read
    <3> QED BY <1>1, <2>2, <3>1, <3>2
  <2>4. ASSUME NEW n \in Nat, n \in P PROVE n + 1 \in P
    <3> SUFFICES ASSUME (n + 1) + 1 <= Len(ss)
                 PROVE  IsList(g[(n + 1) + 1]) /\ ToSet(g[(n + 1) + 1]) = Read((n + 1) + 1)
      OBVIOUS
    <3> DEFINE k == (n + 1) + 1
    <3>1. k \in 1..Len(ss) /\ k # 1 /\ k - 1 = n + 1
      BY <1>1
    <3>2. g[k] = g[n + 1] \o ss[k]
      BY <2>1, <3>1 DEF FlattenLoop
    <3>3. IsList(g[n + 1]) /\ ToSet(g[n + 1]) = Read(n + 1)
      BY <1>1, <2>4
    <3>4. 1..k = 1..(n + 1) \cup {k}
      BY <3>1
    <3>5. Read(k) = Read(n + 1) \cup ToSet(ss[k])
      BY <3>4
    <3> HIDE DEF Read, P, k
    <3>6. IsList(g[k]) /\ ToSet(g[k]) = Read(k)
      BY <2>2, <3>1, <3>2, <3>3, <3>5, ConcatElements
    <3> QED BY <3>6 DEF k
  <2>5. Len(ss) - 1 \in P
    <3> HIDE DEF P
    <3> QED BY <1>1, <1>3, <2>3, <2>4, NaturalsBySet
  <2>6. IsList(g[Len(ss)]) /\ ToSet(g[Len(ss)]) = Read(Len(ss))
    <3>1. Len(ss) - 1 \in Nat /\ (Len(ss) - 1) + 1 = Len(ss)
      BY <1>1, <1>3
    <3> QED BY <2>5, <3>1
  <2>7. UNION {ToSet(l) : l \in ToSet(ss)} = Read(Len(ss))
    BY <1>1 DEF ToSet
  <2> QED BY <2>1, <2>6, <2>7
<1> QED BY <1>2, <1>3


SigsOf(types) == UNION {ToSet(e.sigs) : e \in ToSet(types)}

\* The three sources of the listing, in a row.
LEMMA ListingSources ==
  ASSUME SourceInv
  PROVE  /\ IsList(SignatureErrors \o GuardErrors \o FrameworkErrors)
         /\ ToSet(SignatureErrors \o GuardErrors \o FrameworkErrors) =
              SigsOf(errorTypes) \cup ToSet(GuardErrors) \cup ToSet(FrameworkErrors)
<1> DEFINE ss == [i \in DOMAIN errorTypes |-> errorTypes[i].sigs]
<1>1. IsList(errorTypes) /\ \A e \in ToSet(errorTypes) : IsList(e.sigs)
  BY ItemsAssumption DEF SourceInv, ErrorSource
<1>2. ToSet(ss) = {e.sigs : e \in ToSet(errorTypes)}
  BY DEF ToSet
<1>3. IsList(ss)
  <2>1. DOMAIN ss = 1..Len(errorTypes) /\ Len(errorTypes) \in Nat
    BY <1>1 DEF IsList
  <2>2. ss \in [1..Len(errorTypes) -> ToSet(ss)]
    BY <2>1 DEF ToSet
  <2> HIDE DEF ss
  <2> QED BY <2>1, <2>2 DEF IsList
<1>4. IsList(SignatureErrors) /\ ToSet(SignatureErrors) = SigsOf(errorTypes)
  <2>1. SignatureErrors = FlattenSeq(ss)
    BY DEF SignatureErrors
  <2>2. UNION {ToSet(l) : l \in ToSet(ss)} = SigsOf(errorTypes)
    BY <1>2 DEF SigsOf
  <2>3. \A l \in ToSet(ss) : IsList(l)
    BY <1>1, <1>2
  <2> HIDE DEF ss
  <2> QED BY <1>3, <2>1, <2>2, <2>3, FlattenElements
<1>5. IsList(GuardErrors)
  <2>1. IsList(<< >>) /\ IsList(<<ReentrantCall>>)
    BY DEF IsList, ToSet
  <2> QED BY <2>1 DEF GuardErrors
<1>6. IsList(FrameworkErrors)
  <2>1. DOMAIN FrameworkErrors = 1..Len(Framework) /\ Len(Framework) \in Nat
    BY FrameworkAssumption DEF IsList, FrameworkErrors
  <2>2. FrameworkErrors \in [1..Len(Framework) -> ToSet(FrameworkErrors)]
    BY <2>1 DEF ToSet, FrameworkErrors
  <2> QED BY <2>1, <2>2 DEF IsList
<1> QED BY <1>4, <1>5, <1>6, ConcatElements

\* Everything a built contract may revert with is in one of the sources,
\* unless only aliases of Result hide it.
LEMMA RevertsHaveSources ==
  ASSUME SourceInv, NEW r \in Reverts, ~OnlyBehindAlias(r)
  PROVE  r \in SigsOf(errorTypes) \cup ToSet(GuardErrors) \cup ToSet(FrameworkErrors)
<1>1. CASE r \in ToSet(FrameworkErrors) \cup ToSet(GuardErrors)
  BY <1>1
<1>2. CASE r \notin ToSet(FrameworkErrors) \cup ToSet(GuardErrors)
  <2>1. PICK w \in written : r \in Raised(w) /\ w.err.shown
    BY <1>2 DEF OnlyBehindAlias
  <2>2. w.kind # "event" /\ w.result /\ r \in ToSet(w.err.sigs) /\ w \in Items
    BY <2>1 DEF Raised, SourceInv
  <2>3. PICK e \in ToSet(errorTypes) : e.spelt = w.err.spelt
    BY <2>1, <2>2 DEF SourceInv, Collected
  <2>4. PICK it \in Items : it.err.shown /\ e = it.err
    BY DEF SourceInv, ErrorSource
  <2>5. e.sigs = w.err.sigs
    BY <2>1, <2>2, <2>3, <2>4, ItemsAssumption
  <2> QED BY <2>2, <2>5 DEF SigsOf
<1> QED BY <1>1, <1>2

\* Whatever error types the items raise, in whatever order and spelling, each
\* signature that the guard, the framework or some item's signature shows is
\* in the listing once (the loops of generate_abi_gen_impl). Nothing is said
\* of one that items only raise behind an alias of Result, which the macro
\* does not collect.
THEOREM RevertsAreListed == Spec => []RevertsListedOnce
<1>1. Init => IInv /\ SourceInv
  BY InitInv, SourceInit
<1>2. IInv /\ SourceInv /\ [Next]_vars => (IInv /\ SourceInv)'
  BY NextInv, SourceNext
<1>3. IInv /\ SourceInv => RevertsListedOnce
  <2> SUFFICES ASSUME SourceInv, file = NoFile, NEW r \in Reverts, ~OnlyBehindAlias(r)
               PROVE  Cardinality({i \in DOMAIN AbiErrors : AbiErrors[i] = r}) = 1
    BY DEF RevertsListedOnce
  <2>1. AbiErrors = Unseen(SignatureErrors \o GuardErrors \o FrameworkErrors)
    BY DEF AbiErrors, InferredErrors
  <2>2. NoRepeat(AbiErrors) /\ r \in ToSet(AbiErrors)
    BY <2>1, ListingSources, RevertsHaveSources, UnseenCollects
  <2>3. PICK i \in DOMAIN AbiErrors : AbiErrors[i] = r
    BY <2>2 DEF ToSet
  <2>4. {j \in DOMAIN AbiErrors : AbiErrors[j] = r} = {i}
    BY <2>2, <2>3 DEF NoRepeat
  <2>5. Cardinality({i}) = 1
    BY FS_Singleton
  <2> QED BY <2>4, <2>5
<1> QED
  BY <1>1, <1>2, <1>3, PTL DEF Spec


-----------------------------------------------------------------------------
(* What an import reads. A listed type names what it is; the functions of   *)
(* the import, from the file or from JSON, are the entries of the listing.  *)

Canonical(c) ==
  /\ c = [tuple |-> c.tuple, of |-> c.of] /\ c.tuple \in BOOLEAN /\ IsList(c.of)
  /\ ~c.tuple => c.of = <<c.of[1]>>

EntryShape(e) ==
  /\ e = [name |-> e.name, mut |-> e.mut, ins |-> e.ins, outs |-> e.outs]
  /\ IsList(e.ins) /\ IsList(e.outs)
  /\ \A c \in ToSet(e.ins) \cup ToSet(e.outs) : Canonical(c)
  /\ Len(e.outs) # 1 => \A c \in ToSet(e.outs) : ~c.tuple

LEMMA CanonicalRecord ==
  ASSUME NEW b \in BOOLEAN, NEW s, IsList(s), ~b => s = <<s[1]>>
  PROVE  Canonical([tuple |-> b, of |-> s])
BY DEF Canonical

\* The name of a Rust type is canonical.
LEMMA RustNameCanonical ==
  ASSUME NEW t, RustType(t)
  PROVE  Canonical(SolName(t)) /\ (SolName(t).tuple <=> t.form \in {"tuple", "struct"})
<1>1. SolName(t).of = t.of /\ SolName(t).tuple = (t.form \in {"tuple", "struct"})
  BY DEF SolName
<1>2. (t.form \in {"tuple", "struct"}) \in BOOLEAN
  OBVIOUS
<1>3. SolName(t) = [tuple |-> SolName(t).tuple, of |-> SolName(t).of]
  BY DEF SolName
<1>4. IsList(t.of) /\ (~SolName(t).tuple => t.of = <<t.of[1]>>)
  BY <1>1 DEF RustType, SingleIf
<1> QED BY <1>1, <1>2, <1>3, <1>4 DEF Canonical

\* Names of a list of Rust types are a list of canonical names.
LEMMA RustNamesCanonical ==
  ASSUME NEW ts, IsList(ts), \A t \in ToSet(ts) : RustType(t)
  PROVE  IsList(Names(ts)) /\ \A c \in ToSet(Names(ts)) : Canonical(c)
<1>1. DOMAIN Names(ts) = 1..Len(ts) /\ DOMAIN ts = 1..Len(ts) /\ Len(ts) \in Nat
  BY NamesAreAList DEF IsList
<1>2. \A i \in 1..Len(ts) : ts[i] \in ToSet(ts) /\ Names(ts)[i] = SolName(ts[i])
  BY <1>1 DEF Names, ToSet
<1>3. Names(ts) \in [1..Len(ts) -> ToSet(Names(ts))]
  BY <1>1 DEF Names, ToSet
<1>4. IsList(Names(ts))
  BY <1>1, <1>3 DEF IsList
<1>5. \A c \in ToSet(Names(ts)) : Canonical(c)
  BY <1>1, <1>2, RustNameCanonical DEF ToSet
<1> QED BY <1>4, <1>5

\* The components of a declared type are canonical.
LEMMA SolNameCanonical ==
  ASSUME file \in Files, file # NoFile, NEW t, SolType(t), CheckDeclared(file.decls, t)
  PROVE  /\ Canonical(AbiParam(file.decls, t)) /\ Canonical(CanonicalName(file.decls, t))
         /\ t.form = "elem" => ~AbiParam(file.decls, t).tuple
<1>1. AbiParam(file.decls, t) = CanonicalName(file.decls, t)
  BY OneExpansion
<1>2. CASE t.form = "named"
  <2> DEFINE d == Declaration(file.decls, t.of[1])
  <2>1. d \in file.decls
    BY <1>2 DEF CheckDeclared, Declarations, Declaration
  <2>2. IsList(d.of) /\ (d.kind # "struct" => d.of = <<d.of[1]>>)
    BY <2>1, DeclsAssumption
  <2>3. (d.kind = "struct") \in BOOLEAN
    OBVIOUS
  <2>4. CanonicalName(file.decls, t) = [tuple |-> (d.kind = "struct"), of |-> d.of]
    BY <1>2 DEF CanonicalName
  <2> HIDE DEF d
  <2>5. Canonical(CanonicalName(file.decls, t))
    BY <2>2, <2>3, <2>4, CanonicalRecord
  <2> QED BY <1>1, <1>2, <2>5
<1>3. CASE t.form # "named"
  <2>1. CanonicalName(file.decls, t) = [tuple |-> (t.form = "tuple"), of |-> t.of]
    BY <1>3 DEF CanonicalName
  <2>2. (t.form = "tuple") \in BOOLEAN /\ IsList(t.of) /\ (t.form # "tuple" => t.of = <<t.of[1]>>)
    BY <1>3 DEF SolType, SingleIf
  <2>3. Canonical(CanonicalName(file.decls, t))
    BY <2>1, <2>2, CanonicalRecord
  <2>4. t.form = "elem" => ~CanonicalName(file.decls, t).tuple
    <3>1. CanonicalName(file.decls, t).tuple = (t.form = "tuple")
      BY <2>1
    <3>2. t.form = "elem" => (t.form = "tuple") = FALSE
      OBVIOUS
    <3> QED BY <3>1, <3>2
  <2> QED BY <1>1, <2>3, <2>4
<1> QED BY <1>2, <1>3


\* A method returns one type, or elementary types.
LEMMA ReturnTypesShape ==
  ASSUME NEW it \in Items
  PROVE  /\ \A t \in ToSet(ReturnTypes(it)) : RustType(t)
         /\ Len(ReturnTypes(it)) # 1 => \A t \in ToSet(ReturnTypes(it)) : t.form = "elem"
<1>1. CASE it.ok = Unit
  BY <1>1 DEF ReturnTypes, ToSet
<1>2. CASE it.ok # Unit /\ ~it.result /\ it.ok.form = "tuple"
  <2>1. \A x : RustType(RustElem(x)) /\ RustElem(x).form = "elem"
    <3> TAKE x
    <3>1. RustElem(x).form = "elem" /\ RustElem(x).of = <<x>> /\ IsList(<<x>>)
      BY DEF RustElem, IsList, ToSet
    <3> QED BY <3>1 DEF RustType, SingleIf
  <2>2. \A t \in ToSet(ReturnTypes(it)) : \E x : t = RustElem(x)
    BY <1>2 DEF ReturnTypes, ToSet
  <2> QED BY <2>1, <2>2
<1>3. CASE it.ok # Unit /\ ~(~it.result /\ it.ok.form = "tuple")
  <2>1. ReturnTypes(it) = <<it.ok>>
    BY <1>3 DEF ReturnTypes
  <2>2. RustType(it.ok)
    BY <1>3, ItemsAssumption
  <2> QED BY <2>1, <2>2 DEF ToSet
<1> QED BY <1>1, <1>2, <1>3

\* An own method is listed with canonical names.
LEMMA MethodEntryShape ==
  ASSUME SourceInv, NEW m \in ToSet(methods)
  PROVE  EntryShape(MethodEntry(m))
<1>1. PICK it \in Items : m.params = it.params /\ m.rets = ReturnTypes(it)
  BY DEF SourceInv, MethodSource
<1> DEFINE e == MethodEntry(m)
<1>2. e.ins = Names(m.params) /\ e.outs = Names(m.rets)
      /\ e = [name |-> e.name, mut |-> e.mut, ins |-> e.ins, outs |-> e.outs]
  BY DEF MethodEntry
<1>3. IsList(m.params) /\ \A t \in ToSet(m.params) : RustType(t)
  BY <1>1, ItemsAssumption
<1>4. IsList(m.rets) /\ \A t \in ToSet(m.rets) : RustType(t)
  BY <1>1, ReturnTypesAreAList, ReturnTypesShape
<1>5. ASSUME Len(e.outs) # 1, NEW c \in ToSet(e.outs) PROVE ~c.tuple
  <2>1. Len(m.rets) # 1
    BY <1>2, <1>4, <1>5, NamesAreAList
  <2>2. PICK t \in ToSet(m.rets) : c = SolName(t)
    BY <1>2, <1>5 DEF Names, ToSet
  <2>3. t.form = "elem" /\ RustType(t)
    BY <1>1, <1>4, <2>1, ReturnTypesShape
  <2> QED BY <2>2, <2>3, RustNameCanonical
<1> HIDE DEF e
<1>6. EntryShape(e)
  BY <1>2, <1>3, <1>4, <1>5, RustNamesCanonical DEF EntryShape
<1> QED BY <1>6 DEF e

\* Declared types are listed with canonical names.
LEMMA AbiParamsCanonical ==
  ASSUME file \in Files, file # NoFile, NEW ts, IsList(ts),
         \A t \in ToSet(ts) : SolType(t) /\ CheckDeclared(file.decls, t),
         NEW cs, cs = [i \in DOMAIN ts |-> AbiParam(file.decls, ts[i])]
  PROVE  /\ IsList(cs) /\ Len(cs) = Len(ts)
         /\ \A c \in ToSet(cs) : Canonical(c) /\ \E t \in ToSet(ts) : c = AbiParam(file.decls, t)
<1>1. DOMAIN cs = 1..Len(ts) /\ DOMAIN ts = 1..Len(ts) /\ Len(ts) \in Nat
  BY DEF IsList
<1>2. cs \in [1..Len(ts) -> ToSet(cs)]
  BY <1>1 DEF ToSet
<1>3. IsList(cs) /\ Len(cs) = Len(ts)
  BY <1>1, <1>2 DEF IsList
<1>4. \A c \in ToSet(cs) : \E t \in ToSet(ts) : c = AbiParam(file.decls, t)
  BY DEF ToSet
<1> QED BY <1>3, <1>4, SolNameCanonical

\* So is a declared function.
LEMMA DeclaredEntryShape ==
  ASSUME file \in Files, file # NoFile, FromFileOk(file), NEW f \in ToSet(file.funcs)
  PROVE  EntryShape(DeclaredEntry(f))
<1> DEFINE e == DeclaredEntry(f)
<1>1. e = [name |-> e.name, mut |-> e.mut, ins |-> e.ins, outs |-> e.outs]
  BY DEF DeclaredEntry
<1>2. /\ e.ins = [i \in DOMAIN f.params |-> AbiParam(file.decls, f.params[i])]
      /\ e.outs = [i \in DOMAIN f.rets |-> AbiParam(file.decls, f.rets[i])]
  BY DEF DeclaredEntry
<1>3. /\ IsList(f.params) /\ IsList(f.rets)
      /\ Len(f.rets) # 1 => \A t \in ToSet(f.rets) : t.form = "elem"
  BY FilesAssumption
<1>4. \A t \in ToSet(f.params) \cup ToSet(f.rets) : SolType(t) /\ CheckDeclared(file.decls, t)
  BY FilesAssumption DEF FromFileOk
<1> HIDE DEF e
<1>5. IsList(e.ins) /\ \A c \in ToSet(e.ins) : Canonical(c)
  BY <1>2, <1>3, <1>4, AbiParamsCanonical
<1>6. /\ IsList(e.outs) /\ Len(e.outs) = Len(f.rets)
      /\ \A c \in ToSet(e.outs) : Canonical(c) /\ \E t \in ToSet(f.rets) : c = AbiParam(file.decls, t)
  BY <1>2, <1>3, <1>4, AbiParamsCanonical
<1>7. Len(e.outs) # 1 => \A c \in ToSet(e.outs) : ~c.tuple
  BY <1>3, <1>4, <1>6, SolNameCanonical
<1>8. EntryShape(e)
  BY <1>1, <1>5, <1>6, <1>7 DEF EntryShape
<1> QED BY <1>8 DEF e

\* Every entry of the ABI has the shape.
LEMMA ListedShape ==
  ASSUME IInv, SourceInv, phase = "built"
  PROVE  \A e \in AbiFunctions : EntryShape(e)
BY MethodEntryShape, DeclaredEntryShape DEF AbiFunctions, IInv, Loaded


Outputs(decls, f) == [i \in DOMAIN f.rets |-> CanonicalName(decls, f.rets[i])]

\* The entry of the ABI that a function of an import stands for.
Entry(source, f) ==
  [name |-> f.name, mut |-> f.mut, ins |-> Inputs(Decls(source), f), outs |-> Outputs(Decls(source), f)]

\* A listed type read back names what was listed.
LEMMA JsonTypeNamed ==
  ASSUME NEW c, Canonical(c), NEW decls
  PROVE  /\ CanonicalName(decls, JsonType(c)) = c
         /\ SolType(JsonType(c))
         /\ JsonType(c).form = IF c.tuple THEN "tuple" ELSE "elem"
<1>1. CASE c.tuple
  <2>1. JsonType(c) = SolTuple(c.of) /\ c = [tuple |-> TRUE, of |-> c.of]
    BY <1>1 DEF JsonType, Canonical
  <2>2. SolTuple(c.of).form = "tuple" /\ SolTuple(c.of).of = c.of
    BY DEF SolTuple
  <2>3. (SolTuple(c.of).form = "tuple") = TRUE
    BY <2>2
  <2>4. CanonicalName(decls, SolTuple(c.of)) = [tuple |-> (SolTuple(c.of).form = "tuple"), of |-> c.of]
    BY <2>2 DEF CanonicalName
  <2>5. CanonicalName(decls, SolTuple(c.of)) = [tuple |-> TRUE, of |-> c.of]
    BY <2>3, <2>4
  <2>6. SolType(SolTuple(c.of))
    BY <2>2 DEF SolType, SingleIf, Canonical
  <2> QED BY <1>1, <2>1, <2>2, <2>5, <2>6
<1>2. CASE ~c.tuple
  <2> DEFINE t == SolElem(c.of[1])
  <2>1. JsonType(c) = t /\ c = [tuple |-> FALSE, of |-> c.of] /\ c.of = <<c.of[1]>>
    BY <1>2 DEF JsonType, Canonical
  <2>2. t.form = "elem" /\ t.of = <<c.of[1]>>
    BY DEF SolElem
  <2>3. (t.form = "tuple") = FALSE
    BY <2>2
  <2>4. CanonicalName(decls, t) = [tuple |-> (t.form = "tuple"), of |-> t.of]
    BY <2>2 DEF CanonicalName
  <2>5. CanonicalName(decls, t) = [tuple |-> FALSE, of |-> c.of]
    BY <2>1, <2>2, <2>3, <2>4
  <2>6. SolType(t)
    BY <2>1, <2>2 DEF SolType, SingleIf, Canonical
  <2> HIDE DEF t
  <2> QED BY <1>2, <2>1, <2>2, <2>5, <2>6
<1> QED BY <1>1, <1>2 DEF Canonical

\* A list of listed types reads back as it was listed.
LEMMA JsonTypesNamed ==
  ASSUME NEW cs, IsList(cs), \A c \in ToSet(cs) : Canonical(c), NEW decls
  PROVE  /\ IsList(JsonTypes(cs)) /\ Len(JsonTypes(cs)) = Len(cs)
         /\ [i \in DOMAIN JsonTypes(cs) |-> CanonicalName(decls, JsonTypes(cs)[i])] = cs
         /\ \A t \in ToSet(JsonTypes(cs)) : \E c \in ToSet(cs) : t = JsonType(c)
<1>1. DOMAIN cs = 1..Len(cs) /\ Len(cs) \in Nat /\ \A i \in 1..Len(cs) : cs[i] \in ToSet(cs)
  BY DEF IsList, ToSet
<1>2. DOMAIN JsonTypes(cs) = 1..Len(cs) /\ \A i \in 1..Len(cs) : JsonTypes(cs)[i] = JsonType(cs[i])
  BY <1>1 DEF JsonTypes
<1>3. JsonTypes(cs) \in [1..Len(cs) -> ToSet(JsonTypes(cs))]
  BY <1>1 DEF JsonTypes, ToSet
<1>4. IsList(JsonTypes(cs)) /\ Len(JsonTypes(cs)) = Len(cs)
  BY <1>1, <1>2, <1>3 DEF IsList
<1>5. \A i \in 1..Len(cs) : CanonicalName(decls, JsonTypes(cs)[i]) = cs[i]
  BY <1>1, <1>2, JsonTypeNamed
<1>6. [i \in DOMAIN JsonTypes(cs) |-> CanonicalName(decls, JsonTypes(cs)[i])] = [i \in 1..Len(cs) |-> cs[i]]
  BY <1>2, <1>5
<1>7. [i \in 1..Len(cs) |-> cs[i]] = cs
  BY DEF IsList
<1>8. \A t \in ToSet(JsonTypes(cs)) : \E c \in ToSet(cs) : t = JsonType(c)
  BY <1>1, <1>2 DEF ToSet
<1> QED BY <1>4, <1>6, <1>7, <1>8

\* An entry read back stands for itself.
LEMMA JsonEntry ==
  ASSUME NEW e, EntryShape(e)
  PROVE  Entry("json", JsonFunction(e)) = e
<1> DEFINE f == JsonFunction(e)
<1>1. f.name = e.name /\ f.mut = e.mut /\ f.params = JsonTypes(e.ins) /\ f.rets = JsonTypes(e.outs)
  BY DEF JsonFunction
<1>2. Inputs(Decls("json"), f) = e.ins
  <2>1. IsList(e.ins) /\ \A c \in ToSet(e.ins) : Canonical(c)
    BY DEF EntryShape
  <2>2. [i \in DOMAIN JsonTypes(e.ins) |-> CanonicalName(Decls("json"), JsonTypes(e.ins)[i])] = e.ins
    BY <2>1, JsonTypesNamed
  <2> HIDE DEF f
  <2> QED BY <1>1, <2>2 DEF Inputs
<1>3. Outputs(Decls("json"), f) = e.outs
  BY <1>1, JsonTypesNamed DEF Outputs, EntryShape
<1> HIDE DEF f
<1>4. Entry("json", f) = e
  BY <1>1, <1>2, <1>3 DEF Entry, EntryShape
<1> QED BY <1>4 DEF f


FunctionShape(f) ==
  /\ IsList(f.params) /\ IsList(f.rets)
  /\ \A t \in ToSet(f.params) \cup ToSet(f.rets) : SolType(t)
  /\ Len(f.rets) # 1 => \A t \in ToSet(f.rets) : t.form = "elem"

DeclsShape(decls) ==
  DeclareOk(decls) /\ \A d \in decls : d.kind # "struct" => d.of = <<d.of[1]>>

\* The functions of an import have one namespace, and every entry of the
\* interface is one of theirs.
SourceListsAbi(source) ==
  /\ DeclsShape(Decls(source))
  /\ \A f \in Functions(source) : FunctionShape(f)
  /\ \A e \in InterfaceEntries : \E f \in Functions(source) : e = Entry(source, f)
  /\ \A f, g \in Functions(source) : f.ns = g.ns

LEMMA JsonSource ==
  ASSUME IInv, SourceInv, phase = "built"
  PROVE  SourceListsAbi("json")
<1>1. \A e \in AbiFunctions : EntryShape(e)
  BY ListedShape
<1>2. Functions("json") = {JsonFunction(e) : e \in AbiFunctions} /\ Decls("json") = {}
  BY DEF Functions, Decls
<1>3. DeclsShape(Decls("json"))
  BY <1>2 DEF DeclsShape, DeclareOk
<1>4. \A e \in AbiFunctions : Entry("json", JsonFunction(e)) = e
  BY <1>1, JsonEntry
<1>5. ASSUME NEW e \in AbiFunctions PROVE FunctionShape(JsonFunction(e))
  <2> DEFINE f == JsonFunction(e)
  <2>1. f.params = JsonTypes(e.ins) /\ f.rets = JsonTypes(e.outs)
    BY DEF JsonFunction
  <2>2. /\ IsList(e.ins) /\ IsList(e.outs) /\ (Len(e.outs) # 1 => \A c \in ToSet(e.outs) : ~c.tuple)
        /\ \A c \in ToSet(e.ins) : Canonical(c)
        /\ \A c \in ToSet(e.outs) : Canonical(c)
    BY <1>1 DEF EntryShape
  <2>3. /\ IsList(f.params) /\ \A t \in ToSet(f.params) : \E c \in ToSet(e.ins) : t = JsonType(c)
        /\ IsList(f.rets) /\ \A t \in ToSet(f.rets) : \E c \in ToSet(e.outs) : t = JsonType(c)
        /\ Len(f.rets) = Len(e.outs)
    BY <2>1, <2>2, JsonTypesNamed
  <2> HIDE DEF f
  <2>4. \A t \in ToSet(f.params) \cup ToSet(f.rets) : SolType(t)
    BY <2>2, <2>3, JsonTypeNamed
  <2>5. Len(f.rets) # 1 => \A t \in ToSet(f.rets) : t.form = "elem"
    BY <2>2, <2>3, JsonTypeNamed
  <2>6. FunctionShape(f)
    BY <2>3, <2>4, <2>5 DEF FunctionShape
  <2> QED BY <2>6 DEF f
<1>6. \A e \in AbiFunctions : JsonFunction(e).ns = FileLevel
  BY DEF JsonFunction
<1>7. InterfaceEntries \subseteq AbiFunctions
  BY DEF InterfaceEntries, InterfaceFunctions, AbiFunctions
<1> QED BY <1>2, <1>3, <1>4, <1>5, <1>6, <1>7 DEF SourceListsAbi

\* A path that leads somewhere in a part of the table leads to the one
\* declaration of its name.
LEMMA NarrowName ==
  ASSUME NEW decls, DeclareOk(decls), NEW part, part \subseteq decls,
         NEW scope, NEW alloc, NEW t, TypeOk(part, scope, alloc, t)
  PROVE  CanonicalName(part, t) = CanonicalName(decls, t)
<1>1. CASE t.form # "named"
  BY <1>1 DEF CanonicalName
<1>2. CASE t.form = "named"
  <2>1. PICK d : d \in part /\ d.name = t.of[1]
    BY <1>2 DEF TypeOk, Resolve, Declarations
  <2>2. Declaration(part, t.of[1]) = d /\ Declaration(decls, t.of[1]) = d
    BY <2>1 DEF Declaration, DeclareOk
  <2> QED BY <1>2, <2>2 DEF CanonicalName
<1> QED BY <1>1, <1>2

\* The types of an expanded function lead somewhere.
LEMMA TypesLead ==
  ASSUME NEW decls, NEW alloc, NEW f, FunctionShape(f), SignatureTypesOk(decls, alloc, f)
  PROVE  \A t \in ToSet(f.params) \cup ToSet(f.rets) : SolType(t) /\ TypeOk(decls, f.ns, alloc, t)
<1>1. IsList(f.params) /\ IsList(f.rets) /\ \A t \in ToSet(f.params) \cup ToSet(f.rets) : SolType(t)
  BY DEF FunctionShape
<1>2. ToSet(f.params \o f.rets) = ToSet(f.params) \cup ToSet(f.rets)
  BY <1>1, ConcatElements
<1> QED BY <1>1, <1>2 DEF SignatureTypesOk

LEMMA FileDecls ==
  ASSUME IInv, phase = "built", file # NoFile
  PROVE  DeclsShape(Decls("file")) /\ Decls("file") \subseteq file.decls
<1>1. file \in Files /\ FromFileOk(file)
  BY DEF IInv, Loaded
<1>2. Decls("file") \subseteq file.decls
  BY DEF Decls
<1> QED BY <1>1, <1>2, DeclsAssumption DEF DeclsShape, DeclareOk, FromFileOk

LEMMA FileSource ==
  ASSUME IInv, phase = "built", file # NoFile, NEW alloc, ExpandOk("file", alloc)
  PROVE  SourceListsAbi("file")
<1>1. Functions("file") = InterfaceFunctions /\ InterfaceFunctions \subseteq ToSet(file.funcs)
  BY DEF Functions, InterfaceFunctions
<1>2. file \in Files /\ FromFileOk(file) /\ Cardinality(file.interfaces) = 1
  BY DEF IInv, Loaded, NothingMissing
<1>3. ASSUME NEW f \in InterfaceFunctions
      PROVE  FunctionShape(f) /\ Entry("file", f) = DeclaredEntry(f)
  <2>1. FunctionShape(f)
    BY <1>1, <1>2, FilesAssumption DEF FunctionShape
  <2>2. SignatureTypesOk(Decls("file"), alloc, f)
    BY <1>1 DEF ExpandOk
  <2>3. \A t \in ToSet(f.params) \cup ToSet(f.rets) :
          CheckDeclared(file.decls, t) /\ TypeOk(Decls("file"), f.ns, alloc, t)
    BY <1>1, <1>2, <2>1, <2>2, TypesLead DEF FromFileOk
  <2>4. \A t \in ToSet(f.params) \cup ToSet(f.rets) :
          AbiParam(file.decls, t) = CanonicalName(Decls("file"), t)
    BY <1>2, <2>3, FileDecls, NarrowName, OneExpansion DEF FromFileOk
  <2>5. /\ \A i \in DOMAIN f.params : f.params[i] \in ToSet(f.params) \cup ToSet(f.rets)
        /\ \A i \in DOMAIN f.rets : f.rets[i] \in ToSet(f.params) \cup ToSet(f.rets)
    BY DEF ToSet
  <2> QED BY <2>1, <2>4, <2>5 DEF Entry, DeclaredEntry, Inputs, Outputs
<1>4. InterfaceEntries = {DeclaredEntry(f) : f \in InterfaceFunctions}
  BY DEF InterfaceEntries
<1>5. \A f, g \in InterfaceFunctions : f.ns = g.ns
  <2>1. IsFiniteSet(file.interfaces)
    BY <1>2, FilesAssumption
  <2>2. PICK ns : file.interfaces = {ns}
    BY <1>2, <2>1, FS_Singleton
  <2> QED BY <2>2 DEF InterfaceFunctions, OfInterface
<1> QED BY <1>1, <1>3, <1>4, <1>5, FileDecls DEF SourceListsAbi


-----------------------------------------------------------------------------
(* What a wrapper is                                                       *)

\* The generated type of a path names the declaration the selector takes.
LEMMA RustTypeNamed ==
  ASSUME NEW decls, DeclsShape(decls), NEW scope, NEW alloc, NEW t,
         TypeOk(decls, scope, alloc, t), SolType(t), t.form = "tuple" => Len(t.of) # 1
  PROVE  /\ SolName(ToRustType(decls, scope, t)) = CanonicalName(decls, t)
         /\ ToRustType(decls, scope, t).form = "tuple" => t.form = "tuple"
<1>1. CASE t.form = "elem"
  <2>1. ToRustType(decls, scope, t) = RustElem(t.of[1]) /\ t.of = <<t.of[1]>>
    BY <1>1 DEF ToRustType, SolType, SingleIf
  <2>2. CanonicalName(decls, t) = [tuple |-> (t.form = "tuple"), of |-> t.of] /\ (t.form = "tuple") = FALSE
    BY <1>1 DEF CanonicalName
  <2>3. CanonicalName(decls, t) = ElemName(t.of[1])
    BY <2>1, <2>2 DEF ElemName
  <2> QED BY <2>1, <2>3, ElemIsItsName DEF RustElem
<1>2. CASE t.form = "tuple"
  <2>1. ToRustType(decls, scope, t) = RustTuple(t.of)
    BY <1>2 DEF ToRustType
  <2>2. RustTuple(t.of).of = t.of /\ (RustTuple(t.of).form \in {"tuple", "struct"}) = TRUE
    BY DEF RustTuple
  <2>3. SolName(RustTuple(t.of)) = [tuple |-> TRUE, of |-> t.of]
    BY <2>2 DEF SolName
  <2>4. (t.form = "tuple") = TRUE
    BY <1>2
  <2>5. CanonicalName(decls, t) = [tuple |-> (t.form = "tuple"), of |-> t.of]
    BY <1>2 DEF CanonicalName
  <2> QED BY <1>2, <2>1, <2>3, <2>4, <2>5
<1>3. CASE t.form = "named"
  <2> DEFINE d == CHOOSE d \in Resolve(decls, scope, t) : TRUE
             rt == ToRustType(decls, scope, t)
  <2>1. d \in Resolve(decls, scope, t)
    BY <1>3 DEF TypeOk
  <2>2. d \in decls /\ d.name = t.of[1]
    BY <2>1 DEF Resolve, Declarations
  <2>3. Declaration(decls, t.of[1]) = d
    BY <2>2 DEF Declaration, DeclsShape, DeclareOk
  <2>4. CanonicalName(decls, t) = [tuple |-> (d.kind = "struct"), of |-> d.of]
    BY <1>3, <2>3 DEF CanonicalName
  <2>5. rt = IF d.kind = "struct" THEN RustStruct(d.of) ELSE RustAlias(d.of[1])
    BY <1>3 DEF ToRustType
  <2> HIDE DEF d, rt
  <2>6. CASE d.kind = "struct"
    <3>1. rt.of = d.of /\ rt.form = "struct" /\ (rt.form \in {"tuple", "struct"}) = (d.kind = "struct")
      BY <2>5, <2>6 DEF RustStruct
    <3>2. SolName(rt) = [tuple |-> (d.kind = "struct"), of |-> d.of]
      BY <3>1 DEF SolName
    <3> QED BY <2>4, <3>1, <3>2 DEF rt
  <2>7. CASE d.kind # "struct"
    <3>1. d.of = <<d.of[1]>>
      BY <2>2, <2>7 DEF DeclsShape
    <3>2. rt.of = d.of /\ rt.form = "alias" /\ (rt.form \in {"tuple", "struct"}) = (d.kind = "struct")
      BY <2>5, <2>7, <3>1 DEF RustAlias
    <3>3. SolName(rt) = [tuple |-> (d.kind = "struct"), of |-> d.of]
      BY <3>2 DEF SolName
    <3> QED BY <2>4, <3>2, <3>3 DEF rt
  <2> QED BY <2>6, <2>7
<1> QED BY <1>1, <1>2, <1>3 DEF SolType

\* A list of types that lead somewhere, none of which (T) misspells.
Spelt(decls, scope, alloc, ts) ==
  /\ IsList(ts)
  /\ \A t \in ToSet(ts) : SolType(t) /\ TypeOk(decls, scope, alloc, t) /\ ~(t.form = "tuple" /\ Len(t.of) = 1)
  /\ Len(ts) = 1 => ~(ts[1].form = "tuple" /\ IsDynamic(TupleName(ts[1].of)))

\* The types generated for such a list have the names of the list and are
\* written as the names say.
LEMMA RustTypesNamed ==
  ASSUME NEW decls, DeclsShape(decls), NEW scope, NEW alloc, NEW ts, Spelt(decls, scope, alloc, ts)
  PROVE  /\ Names(RustTypes(decls, scope, ts)) = [i \in DOMAIN ts |-> CanonicalName(decls, ts[i])]
         /\ EncodeAll(RustTypes(decls, scope, ts)) = StandardWire(Names(RustTypes(decls, scope, ts)))
<1> DEFINE rs == RustTypes(decls, scope, ts)
<1>0. /\ IsList(ts)
      /\ \A t \in ToSet(ts) : SolType(t) /\ TypeOk(decls, scope, alloc, t) /\ ~(t.form = "tuple" /\ Len(t.of) = 1)
      /\ Len(ts) = 1 => ~(ts[1].form = "tuple" /\ IsDynamic(TupleName(ts[1].of)))
  BY DEF Spelt
<1>1. DOMAIN ts = 1..Len(ts) /\ Len(ts) \in Nat
  BY <1>0 DEF IsList
<1>2. DOMAIN rs = 1..Len(ts) /\ \A i \in 1..Len(ts) : rs[i] = ToRustType(decls, scope, ts[i])
  BY <1>1 DEF RustTypes
<1>3. \A i \in 1..Len(ts) :
        /\ SolName(rs[i]) = CanonicalName(decls, ts[i])
        /\ rs[i].form = "tuple" => ts[i].form = "tuple"
  <2> TAKE i \in 1..Len(ts)
  <2>1. ts[i] \in ToSet(ts)
    BY <1>1 DEF ToSet
  <2> HIDE DEF rs
  <2> QED BY <1>0, <1>2, <2>1, RustTypeNamed
<1>4. IsList(rs) /\ Len(rs) = Len(ts)
  <2>1. rs \in [1..Len(ts) -> ToSet(rs)]
    BY <1>1 DEF RustTypes, ToSet
  <2> HIDE DEF rs
  <2> QED BY <1>1, <1>2, <2>1 DEF IsList
<1>5. Names(rs) = [i \in DOMAIN ts |-> CanonicalName(decls, ts[i])]
  <2> HIDE DEF rs
  <2> QED BY <1>1, <1>2, <1>3 DEF Names
<1>6. ASSUME Len(rs) = 1
      PROVE  ~(rs[1].form = "tuple" /\ IsDynamic(SolName(rs[1])))
  <2> SUFFICES ASSUME rs[1].form = "tuple", IsDynamic(SolName(rs[1])) PROVE FALSE
    OBVIOUS
  <2> HIDE DEF rs
  <2>1. ts[1].form = "tuple" /\ SolName(rs[1]) = CanonicalName(decls, ts[1])
    BY <1>3, <1>4, <1>6
  <2>2. SolName(rs[1]).of = TupleName(ts[1].of).of
    BY <2>1 DEF CanonicalName, TupleName
  <2>3. IsDynamic(TupleName(ts[1].of))
    BY <2>2 DEF IsDynamic
  <2> QED BY <1>0, <1>4, <1>6, <2>1, <2>3
<1> HIDE DEF rs
<1>7. EncodeAll(rs) = StandardWire(Names(rs))
  BY <1>4, <1>6, EncodedAsNamed
<1> QED BY <1>5, <1>7 DEF rs


\* Arguments that (T) does not misspell are of the listed types and laid out
\* as the ABI does.
LEMMA ArgumentsSent ==
  ASSUME NEW decls, DeclsShape(decls), NEW alloc, NEW f, FunctionShape(f),
         SignatureTypesOk(decls, alloc, f), ~Misspelt(f),
         NEW rs, rs = RustTypes(decls, f.ns, f.params)
  PROVE  Names(rs) = Inputs(decls, f) /\ EncodeAll(rs) = StandardWire(Names(rs))
<1>1. IsList(f.params)
  BY DEF FunctionShape
<1>2. \A t \in ToSet(f.params) :
        SolType(t) /\ TypeOk(decls, f.ns, alloc, t) /\ ~(t.form = "tuple" /\ Len(t.of) = 1)
  BY TypesLead DEF Misspelt
<1>3. Len(f.params) = 1 => ~(f.params[1].form = "tuple" /\ IsDynamic(TupleName(f.params[1].of)))
  <2>1. Len(f.params) = 1 => f.params[1] \in ToSet(f.params)
    BY <1>1 DEF IsList, ToSet
  <2> QED BY <2>1 DEF Misspelt
<1>4. Spelt(decls, f.ns, alloc, f.params)
  BY <1>1, <1>2, <1>3 DEF Spelt
<1> QED BY <1>4, RustTypesNamed DEF Inputs

\* A wrapper that (T) does not misspell takes and sends what is listed.
LEMMA WrapperSends ==
  ASSUME NEW source, NEW alloc, ExpandOk(source, alloc), SourceListsAbi(source),
         NEW f \in Functions(source), ~Misspelt(f)
  PROVE  LET w == Wrapper(source, f)
         IN w.ins = Entry(source, f).ins /\ w.payload = StandardWire(w.ins)
<1> DEFINE rs == RustTypes(Decls(source), f.ns, f.params)
<1>1. SignatureTypesOk(Decls(source), alloc, f)
  BY DEF ExpandOk
<1>2. Names(rs) = Inputs(Decls(source), f) /\ EncodeAll(rs) = StandardWire(Names(rs))
  BY <1>1, ArgumentsSent DEF SourceListsAbi
<1>3. Wrapper(source, f).ins = Names(rs) /\ Wrapper(source, f).payload = EncodeAll(rs)
  BY DEF Wrapper
<1>4. Entry(source, f).ins = Inputs(Decls(source), f)
  BY DEF Entry
<1> HIDE DEF rs
<1> QED BY <1>2, <1>3, <1>4

\* A wrapper decodes what is listed, but for one dynamic struct or tuple.
LEMMA WrapperDecodes ==
  ASSUME NEW source, NEW alloc, ExpandOk(source, alloc), SourceListsAbi(source),
         NEW f \in Functions(source),
         \A c \in ToSet(Entry(source, f).outs) : ~DynamicTuple(c)
  PROVE  Wrapper(source, f).decodes = StandardWire(Entry(source, f).outs)
<1> DEFINE decls == Decls(source)
           rs == RustTypes(decls, f.ns, f.rets)
           outs == Entry(source, f).outs
<1>1. /\ IsList(f.rets) /\ DeclsShape(decls)
      /\ Len(f.rets) # 1 => \A t \in ToSet(f.rets) : t.form = "elem"
  BY DEF SourceListsAbi, FunctionShape
<1>2. \A t \in ToSet(f.rets) : SolType(t) /\ TypeOk(decls, f.ns, alloc, t)
  BY TypesLead DEF SourceListsAbi, ExpandOk
<1>3. Wrapper(source, f).decodes = EncodeAll(rs)
  BY DEF Wrapper
<1>4. outs = [i \in DOMAIN f.rets |-> CanonicalName(decls, f.rets[i])]
  BY DEF Entry, Outputs
<1>5. DOMAIN f.rets = 1..Len(f.rets) /\ Len(f.rets) \in Nat
  BY <1>1 DEF IsList
<1> HIDE DEF decls, outs
<1>6. CASE Len(f.rets) = 1 /\ f.rets[1].form = "tuple"
  <2> DEFINE t == f.rets[1]
  <2>1. outs[1] = CanonicalName(decls, t) /\ outs[1] \in ToSet(outs) /\ Len(outs) = 1
    BY <1>4, <1>5, <1>6 DEF ToSet
  <2>2. outs[1].tuple /\ outs[1].of = t.of /\ ~IsDynamic(outs[1])
    <3>1. CanonicalName(decls, t) = [tuple |-> (t.form = "tuple"), of |-> t.of] /\ (t.form = "tuple") = TRUE
      BY <1>6 DEF CanonicalName
    <3>2. CanonicalName(decls, t) = [tuple |-> TRUE, of |-> t.of]
      BY <3>1
    <3>3. outs[1].tuple /\ outs[1].of = t.of
      BY <2>1, <3>2
    <3> QED BY <2>1, <3>3 DEF outs, DynamicTuple
  <2>3. StandardWire(outs) = [boxed |-> FALSE, parts |-> Components(outs[1])]
    BY <2>1, <2>2 DEF StandardWire
  <2>4. Components(outs[1]) = [i \in DOMAIN t.of |-> ElemName(t.of[i])]
    BY <2>2 DEF Components
  <2>5. Len(rs) = 1 /\ rs[1] = ToRustType(decls, f.ns, t)
    BY <1>5, <1>6 DEF RustTypes
  <2>6. EncodeAll(rs) = EncodeTo(rs[1])
    <3> HIDE DEF rs
    <3> QED BY <2>5 DEF EncodeAll
  <2>7. CASE Len(t.of) # 1
    <3>1. rs[1] = RustTuple(t.of)
      BY <1>6, <2>5, <2>7 DEF ToRustType
    <3>2. EncodeTo(RustTuple(t.of)) = [boxed |-> FALSE, parts |-> Components(outs[1])]
      <4> DEFINE r == RustTuple(t.of)
      <4>1. r.form = "tuple" /\ r.of = t.of /\ (r.form \in {"tuple", "struct"}) = TRUE
        BY DEF RustTuple
      <4>2. (r.form # "tuple" /\ SolName(r).tuple /\ IsDynamic(SolName(r))) = FALSE
        BY <4>1
      <4>3. SolName(r).tuple /\ SolName(r).of = t.of
        BY <4>1 DEF SolName
      <4>4. Components(SolName(r)) = Components(outs[1])
        BY <2>4, <4>3 DEF Components
      <4> HIDE DEF r
      <4>5. EncodeTo(r) = [boxed |-> FALSE, parts |-> Components(outs[1])]
        BY <4>2, <4>4 DEF EncodeTo
      <4> QED BY <4>5 DEF r
    <3> QED BY <1>3, <2>3, <2>6, <3>1, <3>2 DEF outs
  <2>8. CASE Len(t.of) = 1
    <3>1. rs[1] = RustElem(t.of[1])
      BY <1>6, <2>5, <2>8 DEF ToRustType
    <3>2. EncodeTo(RustElem(t.of[1])) = [boxed |-> FALSE, parts |-> <<ElemName(t.of[1])>>]
      BY ElemIsWritten
    <3>3. IsList(t.of)
      BY <1>2, <1>5, <1>6 DEF SolType, SingleIf, ToSet
    <3>4. DOMAIN t.of = 1..1
      BY <2>8, <3>3 DEF IsList
    <3>5. Components(outs[1]) = <<ElemName(t.of[1])>>
      BY <2>4, <3>4
    <3> QED BY <1>3, <2>3, <2>6, <3>1, <3>2, <3>5 DEF outs
  <2> QED BY <2>7, <2>8
<1>7. CASE ~(Len(f.rets) = 1 /\ f.rets[1].form = "tuple")
  <2>1. \A t \in ToSet(f.rets) : t.form # "tuple"
    <3>1. Len(f.rets) = 1 => \A t \in ToSet(f.rets) : t = f.rets[1]
      BY <1>5 DEF ToSet
    <3>2. \A t \in ToSet(f.rets) : Len(f.rets) # 1 => t.form = "elem"
      BY <1>1
    <3> QED BY <1>7, <3>1, <3>2
  <2>2. /\ Names(rs) = [i \in DOMAIN f.rets |-> CanonicalName(decls, f.rets[i])]
        /\ EncodeAll(rs) = StandardWire(Names(rs))
    <3>1. Len(f.rets) = 1 => f.rets[1] \in ToSet(f.rets)
      BY <1>5 DEF ToSet
    <3>2. Spelt(decls, f.ns, alloc, f.rets)
      BY <1>1, <1>2, <1>7, <2>1, <3>1 DEF Spelt
    <3> QED BY <1>1, <3>2, RustTypesNamed
  <2> HIDE DEF rs
  <2> QED BY <1>3, <1>4, <2>2 DEF outs
<1> QED BY <1>6, <1>7


-----------------------------------------------------------------------------
(* Calls through an import                                                 *)

Imported(source, alloc) ==
  /\ source = "file" => file # NoFile
  /\ ExpandOk(source, alloc)
  /\ client.wrappers = {Wrapper(source, f) : f \in Functions(source)}
  /\ client.constructors = {ConstructorWrapper(source, f) : f \in Constructors(source)}

ImportInv ==
  client = NoClient \/ (phase = "built" /\ \E source \in {"file", "json"}, alloc \in BOOLEAN : Imported(source, alloc))

\* Two functions of one name have wrappers of two names, and other inputs.
LEMMA WrappersDiffer ==
  ASSUME NEW source, NEW alloc, ExpandOk(source, alloc), SourceListsAbi(source),
         NEW f \in Functions(source), NEW g \in Functions(source), f # g, f.name = g.name
  PROVE  /\ Wrapper(source, f).fn # Wrapper(source, g).fn
         /\ Entry(source, f).ins # Entry(source, g).ins
<1>1. FunctionName(source, f) # FunctionName(source, g) /\ f.ns = g.ns
  BY DEF ExpandOk, SourceListsAbi
<1>2. Inputs(Decls(source), f) # Inputs(Decls(source), g)
  BY <1>1 DEF FunctionName
<1> QED BY <1>1, <1>2 DEF Wrapper, Entry

\* A wrapper that is not overloaded stands for the one entry of its name.
LEMMA EntryOfWrapper ==
  ASSUME NEW source, NEW alloc, Imported(source, alloc), client # NoClient, SourceListsAbi(source),
         NEW f \in Functions(source), ~OverloadedWrapper(Wrapper(source, f)),
         NEW e \in InterfaceEntries, e.name = f.name
  PROVE  e = Entry(source, f)
<1>1. PICK g \in Functions(source) : e = Entry(source, g)
  BY DEF SourceListsAbi
<1>2. CASE g = f
  BY <1>1, <1>2
<1>3. CASE g # f
  <2>1. g.name = f.name
    BY <1>1 DEF Entry
  <2>2. Wrapper(source, g).fn # Wrapper(source, f).fn
    BY <1>3, <2>1, WrappersDiffer DEF Imported
  <2>3. Wrapper(source, g) \in Wrappers /\ Wrapper(source, g) # Wrapper(source, f)
    BY <2>2 DEF Imported, Wrappers
  <2>4. Wrapper(source, g).name = Wrapper(source, f).name
    BY <2>1 DEF Wrapper
  <2> QED BY <2>3, <2>4 DEF OverloadedWrapper
<1> QED BY <1>2, <1>3

\* A wrapper's call runs an arm of its name.
LEMMA CallsRunArms ==
  ASSUME AbiIsTheRouter, phase = "built", client # NoClient,
         NEW source, NEW alloc, Imported(source, alloc), SourceListsAbi(source),
         NEW f \in Functions(source), NEW w, w = Wrapper(source, f),
         ~OverloadedWrapper(w), ~w.misspelt, ~Foreign(w)
  PROVE  \E m \in ToSet(methods) :
           Runs(m, w) /\ m.mut = w.mut /\ w.payload = StandardWire(Names(m.params))
<1>1. ~Misspelt(f) /\ w.name = f.name /\ w.mut = f.mut
  BY DEF Wrapper
<1>2. PICK e \in InterfaceEntries : e.name = w.name
  BY DEF Foreign
<1>3. e = Entry(source, f)
  BY <1>1, <1>2, EntryOfWrapper
<1>4. w.ins = e.ins /\ w.payload = StandardWire(w.ins) /\ e.mut = f.mut
  BY <1>1, <1>3, WrapperSends DEF Imported, Entry
<1>5. ~Overloaded(e)
  <2>1. \A o \in InterfaceEntries : o.name = e.name => o = e
    BY <1>1, <1>2, <1>3, EntryOfWrapper
  <2> QED BY <2>1 DEF Overloaded
<1>6. PICK m \in ToSet(methods) : Answers(m, e)
  BY <1>2, <1>5 DEF AbiIsTheRouter, Built
<1> QED BY <1>1, <1>2, <1>4, <1>6 DEF Answers, Runs

\* And decodes what that arm is listed to return.
LEMMA CallsDecode ==
  ASSUME client # NoClient, phase = "built",
         NEW source, NEW alloc, Imported(source, alloc), SourceListsAbi(source),
         NEW f \in Functions(source), NEW w, w = Wrapper(source, f), NEW m, NEW e \in InterfaceEntries,
         ~(w.misspelt /\ OverloadedWrapper(w)), Runs(m, w), Answers(m, e),
         \A c \in ToSet(e.outs) : ~DynamicTuple(c)
  PROVE  w.decodes = StandardWire(e.outs)
<1>1. w.name = f.name /\ (w.misspelt <=> Misspelt(f)) /\ e.name = f.name /\ e.ins = w.ins
  BY DEF Wrapper, Runs, Answers
<1>2. e = Entry(source, f)
  <2>1. CASE ~OverloadedWrapper(w)
    BY <1>1, <2>1, EntryOfWrapper
  <2>2. CASE ~w.misspelt
    <3>1. PICK g \in Functions(source) : e = Entry(source, g)
      BY DEF SourceListsAbi
    <3>2. w.ins = Entry(source, f).ins
      BY <1>1, <2>2, WrapperSends DEF Imported
    <3>3. g.name = f.name /\ Entry(source, g).ins = Entry(source, f).ins
      BY <1>1, <3>1, <3>2 DEF Entry
    <3>4. g = f
      BY <3>3, WrappersDiffer DEF Imported
    <3> QED BY <3>1, <3>4
  <2> QED BY <2>1, <2>2
<1> QED BY <1>2, WrapperDecodes DEF Imported


\* What is listed of a constructor is a list of canonical names.
LEMMA ListedConstructor ==
  ASSUME IInv, SourceInv, phase = "built", NEW c \in AbiConstructors
  PROVE  IsList(c.ins) /\ \A n \in ToSet(c.ins) : Canonical(n)
<1>1. CASE file # NoFile
  <2>1. PICK d \in file.constructors : c.ins = [i \in DOMAIN d.params |-> AbiParam(file.decls, d.params[i])]
    BY <1>1 DEF AbiConstructors
  <2>2. file \in Files /\ FromFileOk(file)
    BY <1>1 DEF IInv, Loaded
  <2>3. IsList(d.params) /\ \A t \in ToSet(d.params) : SolType(t) /\ CheckDeclared(file.decls, t)
    BY <1>1, <2>2, FilesAssumption DEF FromFileOk
  <2> QED BY <1>1, <2>1, <2>2, <2>3, AbiParamsCanonical
<1>2. CASE file = NoFile
  <2>1. constructor # NoName /\ c.ins = Names(constructor.inputs)
    BY <1>2 DEF AbiConstructors
  <2> QED BY <2>1, ItemsAssumption, RustNamesCanonical DEF SourceInv
<1> QED BY <1>1, <1>2

\* A constructor has the shape of a function that returns nothing; read from
\* JSON, it takes what is listed.
LEMMA ConstructorShape ==
  ASSUME IInv, SourceInv, phase = "built", NEW source \in {"file", "json"},
         source = "file" => file # NoFile, NEW f \in Constructors(source)
  PROVE  /\ FunctionShape(f)
         /\ source = "json" => \E c \in AbiConstructors : Inputs({}, f) = c.ins
<1>1. IsList(<< >>) /\ ToSet(<< >>) = {}
  BY DEF IsList, ToSet
<1>2. CASE source = "file"
  <2>1. f \in file.constructors /\ file \in Files /\ file # NoFile
    BY <1>2 DEF Constructors, IInv
  <2>2. /\ IsList(f.params) /\ \A t \in ToSet(f.params) \cup ToSet(f.rets) : SolType(t)
        /\ f.rets = << >>
    BY <2>1, FilesAssumption
  <2> QED BY <1>1, <1>2, <2>2 DEF FunctionShape
<1>3. CASE source = "json"
  <2>1. PICK c \in AbiConstructors : f.params = JsonTypes(c.ins) /\ f.rets = << >>
    BY <1>3 DEF Constructors
  <2>2. IsList(c.ins) /\ \A n \in ToSet(c.ins) : Canonical(n)
    BY ListedConstructor
  <2>3. /\ IsList(f.params)
        /\ [i \in DOMAIN f.params |-> CanonicalName({}, f.params[i])] = c.ins
        /\ \A t \in ToSet(f.params) : \E n \in ToSet(c.ins) : t = JsonType(n)
    BY <2>1, <2>2, JsonTypesNamed
  <2>4. \A t \in ToSet(f.params) : SolType(t)
    BY <2>2, <2>3, JsonTypeNamed
  <2> QED BY <1>1, <2>1, <2>3, <2>4 DEF FunctionShape, Inputs
<1> QED BY <1>2, <1>3

\* A constructor's wrapper lays its arguments out as the ABI does; without a
\* .sol file they are those of the contract's constructor.
LEMMA ConstructorSends ==
  ASSUME IInv, SourceInv, phase = "built", NEW source \in {"file", "json"},
         source = "file" => file # NoFile, NEW alloc, ExpandOk(source, alloc),
         NEW f \in Constructors(source), NEW w, w = ConstructorWrapper(source, f), ~w.misspelt
  PROVE  /\ w.payload = StandardWire(w.ins)
         /\ file = NoFile => Constructs(w)
<1> DEFINE rs == RustTypes(Decls(source), f.ns, f.params)
<1>1. DeclsShape(Decls(source))
  <2>1. source = "json" => Decls(source) = {}
    BY DEF Decls
  <2>2. DeclsShape({})
    BY DEF DeclsShape, DeclareOk
  <2> QED BY <2>1, <2>2, FileDecls
<1>2. FunctionShape(f) /\ SignatureTypesOk(Decls(source), alloc, f) /\ ~Misspelt(f)
  BY ConstructorShape DEF ExpandOk, ConstructorWrapper
<1>3. Names(rs) = Inputs(Decls(source), f) /\ EncodeAll(rs) = StandardWire(Names(rs))
  BY <1>1, <1>2, ArgumentsSent
<1>4. w.ins = Names(rs) /\ w.payload = EncodeAll(rs)
  BY DEF ConstructorWrapper
<1> HIDE DEF rs
<1>5. ASSUME file = NoFile PROVE Constructs(w)
  <2>1. source = "json" /\ Decls(source) = {}
    BY <1>5 DEF Decls
  <2>2. PICK c \in AbiConstructors : Inputs({}, f) = c.ins
    BY <2>1, ConstructorShape
  <2>3. constructor # NoName /\ c.ins = Names(constructor.inputs)
    BY <1>5 DEF AbiConstructors
  <2> QED BY <1>3, <1>4, <2>1, <2>2, <2>3 DEF Constructs
<1> QED BY <1>3, <1>4, <1>5

\* What is imported does not change while the contract does not.
LEMMA ImportedKept ==
  ASSUME UNCHANGED vars, NEW source, NEW alloc
  PROVE  /\ ExpandOk(source, alloc)' <=> ExpandOk(source, alloc)
         /\ Functions(source)' = Functions(source) /\ Constructors(source)' = Constructors(source)
         /\ \A f : Wrapper(source, f)' = Wrapper(source, f)
         /\ \A f : ConstructorWrapper(source, f)' = ConstructorWrapper(source, f)
<1>1. /\ AbiFunctions' = AbiFunctions /\ AbiConstructors' = AbiConstructors
      /\ InterfaceFunctions' = InterfaceFunctions /\ NoDuplicates' = NoDuplicates
      /\ \A f : OfInterface(f)' <=> OfInterface(f)
  BY DEF vars, AbiFunctions, AbiConstructors, NoDuplicates, InterfaceFunctions, OfInterface,
         DeclaredEntry, MethodEntry
<1>2. /\ Functions(source)' = Functions(source) /\ Decls(source)' = Decls(source)
      /\ Constructors(source)' = Constructors(source)
  BY <1>1 DEF vars, Functions, Decls, Constructors
<1>3. \A f : FunctionName(source, f)' = FunctionName(source, f)
  BY <1>2 DEF FunctionName
<1>4. /\ \A f : Wrapper(source, f)' = Wrapper(source, f)
      /\ \A f : ConstructorWrapper(source, f)' = ConstructorWrapper(source, f)
  BY <1>2, <1>3 DEF Wrapper, ConstructorWrapper
<1>5. ExpandOk(source, alloc)' <=> ExpandOk(source, alloc)
  BY <1>1, <1>2, <1>3 DEF ExpandOk
<1> QED BY <1>2, <1>4, <1>5

\* An import happens once, to a built contract, which changes no more.
LEMMA ImportStep == ImportInv /\ [ImportNext]_importVars => ImportInv'
<1> SUFFICES ASSUME ImportInv, [ImportNext]_importVars PROVE ImportInv'
  OBVIOUS
<1>1. ASSUME NEW source \in {"file", "json"}, NEW alloc \in BOOLEAN, Import(source, alloc)
      PROVE  ImportInv'
  <2>1. UNCHANGED vars /\ phase' = "built" /\ (source = "file" => file' # NoFile) /\ ExpandOk(source, alloc)
    BY <1>1 DEF Import, vars
  <2>2. /\ client'.wrappers = {Wrapper(source, f) : f \in Functions(source)}
        /\ client'.constructors = {ConstructorWrapper(source, f) : f \in Constructors(source)}
    BY <1>1 DEF Import
  <2>3. Imported(source, alloc)'
    BY <2>1, <2>2, ImportedKept DEF Imported
  <2> QED BY <2>1, <2>3 DEF ImportInv
<1>2. CASE Next /\ UNCHANGED client
  BY <1>2 DEF Next, ImportInv, LoadInterface, ParseItem, RejectItem, FinishParse, Compile
<1>3. CASE UNCHANGED importVars
  <2>1. UNCHANGED vars /\ client' = client /\ phase' = phase /\ file' = file
    BY <1>3 DEF importVars, vars
  <2>2. \A source, alloc : Imported(source, alloc) => Imported(source, alloc)'
    BY <2>1, ImportedKept DEF Imported
  <2> QED BY <2>1, <2>2 DEF ImportInv
<1> QED BY <1>1, <1>2, <1>3 DEF ImportNext

\* Whatever is listed and however it is imported, the wrapper of a function
\* of the interface runs the arm it names, in its layout, and decodes its
\* answer, but for the cases the property names; so does the wrapper of the
\* constructor where no .sol file stands between it and the contract
\* (abi_import! against the router and the listing).
THEOREM ImportsReachArms == ImportSpec => []WrappersReachArms
<1> DEFINE Inv == IInv /\ SourceInv /\ ImportInv
<1>1. ImportInit => Inv
  BY InitInv, SourceInit DEF ImportInit, ImportInv
<1>2. Inv /\ [ImportNext]_importVars => Inv'
  <2>1. [ImportNext]_importVars => [Next]_vars
    BY DEF ImportNext, Import, importVars, vars
  <2> QED BY <2>1, NextInv, SourceNext, ImportStep
<1>3. Inv => WrappersReachArms
  <2> SUFFICES ASSUME Inv, client # NoClient PROVE WrappersReachArms
    BY DEF WrappersReachArms, Wrappers
  <2>1. phase = "built" /\ AbiIsTheRouter
    BY InvImpliesRouter DEF ImportInv
  <2>2. PICK source \in {"file", "json"}, alloc \in BOOLEAN : Imported(source, alloc)
    BY DEF ImportInv
  <2>3. SourceListsAbi(source)
    BY <2>1, <2>2, JsonSource, FileSource DEF Imported
  <2>4. \A w \in Wrappers : \E f \in Functions(source) : w = Wrapper(source, f)
    BY <2>2 DEF Imported, Wrappers
  <2> HIDE DEF Inv
  <2>5. ASSUME NEW w \in Wrappers, ~OverloadedWrapper(w), ~w.misspelt, ~Foreign(w)
        PROVE  \E m \in ToSet(methods) :
                 Runs(m, w) /\ m.mut = w.mut /\ w.payload = StandardWire(Names(m.params))
    BY <2>1, <2>2, <2>3, <2>4, <2>5, CallsRunArms
  <2>6. ASSUME NEW w \in Wrappers, NEW m \in ToSet(methods), NEW e \in InterfaceEntries,
               ~(w.misspelt /\ OverloadedWrapper(w)), Runs(m, w), Answers(m, e),
               \A c \in ToSet(e.outs) : ~DynamicTuple(c)
        PROVE  w.decodes = StandardWire(e.outs)
    BY <2>1, <2>2, <2>3, <2>4, <2>6, CallsDecode
  <2>7. ASSUME NEW w \in client.constructors, ~w.misspelt
        PROVE  w.payload = StandardWire(w.ins) /\ (file = NoFile => Constructs(w))
    BY <2>1, <2>2, <2>7, ConstructorSends DEF Imported, Inv
  <2>8. \A w \in client.constructors : Constructs(w) => w.ins = Names(constructor.inputs)
    BY DEF Constructs
  <2> QED BY <2>5, <2>6, <2>7, <2>8 DEF WrappersReachArms
<1> QED
  BY <1>1, <1>2, <1>3, PTL DEF ImportSpec
=============================================================================
