----------------------------- MODULE MCDispatch -----------------------------
(* Instances of Dispatch: every one-module contract over the selectors, and *)
(* two-module chains with and without a hoisted guard above the last link.  *)
EXTENDS Dispatch

Absent == [mutability |-> "absent", params |-> "none"]
Signatures == {Absent} \union
  [mutability : {"payable", "nonpayable"}, params : {"none", "dynamic"}]
Constructors == {Absent} \union [mutability : {"payable", "nonpayable"}, params : Params]

Modules == [method : [Selectors -> Signatures], fallback : Payability,
            has_receive : BOOLEAN, constructor : {Absent}, use_alloc : {TRUE}]

\* Calls and constructors do not interact: each is varied with the other fixed.
SinglePrograms ==
  {<<m>> : m \in Modules \union
     [method : {[s \in Selectors |-> Absent]}, fallback : {"absent"}, has_receive : {FALSE},
      constructor : Constructors, use_alloc : BOOLEAN] \union
     [method : [Selectors -> {Absent, [mutability |-> "payable", params |-> "static"]}],
      fallback : {"payable"}, has_receive : {TRUE}, constructor : {Absent}, use_alloc : {FALSE}]}

LinkSignatures == {Absent} \union [mutability : {"payable", "nonpayable"}, params : {"none"}]
Links == [method : [Selectors -> LinkSignatures], fallback : {"absent", "payable"},
          has_receive : {FALSE}, constructor : {Absent}, use_alloc : {TRUE}]

Chains == {<<m, n>> : m, n \in Links}
SinglesAndChains == SinglePrograms \union {c \in Chains : ~Hoisted(c[1])}
=============================================================================
