---------------------------- MODULE MCAbiImport ----------------------------
(* Instance: two elementary types, one of them dynamic, a struct of both, a *)
(* struct of one field and an enum; functions f and gH with variations of   *)
(* parameters, returns and mutability; files of up to two functions, of     *)
(* which one may stand outside the interface, and with a constructor.       *)
EXTENDS AbiImport

MCSnake == [n \in {"f", "gH", "g_h"} |-> IF n = "f" THEN "f" ELSE "g_h"]
MCCamel == [n \in {"f", "gH", "g_h"} |-> IF n = "f" THEN "f" ELSE "gH"]
MCFramework == <<"InvalidCalldata", "NoSelector">>

U == "uint256"
T == "string"

MCDecls ==
  {[ns |-> FileLevel, name |-> "S", kind |-> "struct", of |-> <<U, T>>],
   [ns |-> "I", name |-> "P", kind |-> "struct", of |-> <<U, U>>],
   [ns |-> "I", name |-> "E", kind |-> "enum", of |-> <<"uint8">>]}

SolParams == {<< >>, <<SolElem(U)>>, <<SolNamed(FileLevel, "S")>>, <<SolNamed(FileLevel, "E")>>}
SolReturns == {<< >>, <<SolElem(U)>>, <<SolNamed(FileLevel, "S")>>, <<SolNamed("I", "P")>>,
               <<SolElem(U), SolElem(T)>>}

Func(name, params, rets, mut) ==
  [ns |-> "I", name |-> name, params |-> params, rets |-> rets, mut |-> mut]

Funcs ==
  {Func("f", p, << >>, "nonpayable") : p \in SolParams} \cup
  {Func("f", << >>, r, "view") : r \in SolReturns} \cup
  {Func(n, <<SolElem(U)>>, << >>, "view") : n \in {"gH", "g_h"}}

File(funcs, errors, events) ==
  [interfaces |-> {"I"}, decls |-> MCDecls, funcs |-> funcs, constructors |-> {},
   errors |-> errors, events |-> events]

InvalidOwn == ErrorSig("InvalidCalldata", <<U>>)
Denied == ErrorSig("Denied", << >>)
Sent == [name |-> "sent", fields |-> <<SolElem(U)>>]

TwoInterfaces ==
  [File(<<Func("f", << >>, << >>, "view")>>, << >>, {}) EXCEPT !.interfaces = {"I", "J"}]
Colliding ==
  [File(<<Func("f", <<SolNamed(FileLevel, "S")>>, << >>, "nonpayable")>>, << >>, {}) EXCEPT
     !.decls = MCDecls \cup {[ns |-> "I", name |-> "S", kind |-> "struct", of |-> <<U>>]}]

\* Functions of a library L and of the file's own level: with the interface's
\* name or another, the interface's function again, and with a type of L.
View(ns, name, params) ==
  [ns |-> ns, name |-> name, params |-> params, rets |-> << >>, mut |-> "view"]

OwnF == View("I", "f", << >>)
Outside ==
  {View(ns, n, p) : ns \in {"L", FileLevel}, n \in {"f", "gH"}, p \in {<< >>, <<SolElem(U)>>}}
OutsideFiles ==
  {File(<<OwnF, g>>, << >>, {}) : g \in Outside} \cup {File(<<g, OwnF>>, << >>, {}) : g \in Outside} \cup
  {[File(<<View("I", "f", <<SolNamed(ns, "Q")>>)>>, << >>, {}) EXCEPT
      !.decls = MCDecls \cup {[ns |-> "L", name |-> "Q", kind |-> "struct", of |-> <<U, T>>]}] :
     ns \in {"L", FileLevel}}

\* A constructor of the interface or of another contract, or one of both.
Construct(ns, t) == [ns |-> ns, params |-> <<t>>, rets |-> << >>]
ConstructorFiles ==
  {[File(<<OwnF>>, << >>, {}) EXCEPT !.constructors = {Construct(ns, t)}] :
     ns \in {"I", "C"}, t \in {SolElem(U), SolNamed("I", "P"), SolNamed(FileLevel, "S")}} \cup
  {[File(<<OwnF>>, << >>, {}) EXCEPT
      !.constructors = {Construct("I", SolElem(U)), Construct("C", SolNamed("I", "E"))}]}

SolFiles ==
  {File(<<f>>, << >>, {Sent}) : f \in Funcs} \cup
  {File(<<p[1], p[2]>>, <<InvalidOwn>>, {}) :
     p \in {q \in Funcs \X Funcs : <<q[1].name, q[1].params>> # <<q[2].name, q[2].params>>}} \cup
  {TwoInterfaces, Colliding} \cup OutsideFiles \cup ConstructorFiles
MCFiles == SolFiles \cup {NoFile}

NoErr == [spelt |-> "", shown |-> FALSE, sigs |-> << >>]
OwnErr == [spelt |-> "Error", shown |-> TRUE, sigs |-> <<InvalidOwn, Denied>>]
SameErr == [spelt |-> "crate::Denied", shown |-> TRUE, sigs |-> <<Denied, ReentrantCall>>]
HiddenErr == [spelt |-> "", shown |-> FALSE, sigs |-> <<Denied>>]

Plain(fn, self) ==
  [kind |-> "method", on |-> "A", fn |-> fn, rename |-> NoName, self |-> self, payable |-> FALSE,
   params |-> << >>, result |-> FALSE, ok |-> Unit, err |-> NoErr, guard |-> FALSE]

RustParams == {<< >>, <<RustElem(U)>>, <<RustTuple(<<U, T>>)>>, <<RustStruct(<<U, T>>)>>,
               <<RustStruct(<<U>>)>>, <<RustAlias("uint8")>>, <<RustAlias(U)>>}
RustReturns == {Unit, RustElem(U), RustTuple(<<U, T>>), RustStruct(<<U, T>>),
                RustTuple(<<U, U>>), RustStruct(<<U, U>>)}

Methods ==
  {[Plain(fn, "mut") EXCEPT !.params = p] : fn \in {"f", "g_h"}, p \in RustParams} \cup
  {[Plain("f", "ref") EXCEPT !.ok = r] : r \in RustReturns} \cup
  {[Plain("f", "ref") EXCEPT !.ok = r, !.result = TRUE, !.err = OwnErr] : r \in RustReturns} \cup
  {[Plain("g_h", "ref") EXCEPT !.params = <<RustElem(U)>>, !.rename = n] :
     n \in {NoName, "f", "gH", "g_h"}} \cup
  {[Plain("g_h", s) EXCEPT !.payable = TRUE, !.guard = g] :
     s \in {"none", "mut"}, g \in BOOLEAN} \cup
  {[Plain("g_h", s) EXCEPT !.guard = TRUE, !.result = TRUE, !.err = e] :
     s \in {"ref", "mut"}, e \in {SameErr, HiddenErr}}

Others ==
  {[Plain(k, s) EXCEPT !.kind = k, !.payable = p, !.result = TRUE, !.err = SameErr] :
     k \in {"constructor", "fallback", "receive"}, s \in {"ref", "mut"}, p \in BOOLEAN} \cup
  {[Plain("new", "mut") EXCEPT !.kind = "constructor", !.params = p] :
     p \in {<<RustElem(U)>>, <<RustStruct(<<U, U>>)>>, <<RustTuple(<<U, T>>)>>}} \cup
  {[Plain("g_h", "mut") EXCEPT !.kind = "receive", !.on = "B"]} \cup
  {[Plain("sent", "none") EXCEPT !.kind = "event", !.params = <<RustElem(e)>>] : e \in {U, T}}

MCItems == Methods \cup Others
=============================================================================
