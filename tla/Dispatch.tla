------------------------------ MODULE Dispatch ------------------------------
(* The entry points #[contract] generates (pvm-contract-macros codegen):   *)
(* `deploy`, and `call` with the `route` of one module, or of a chain of   *)
(* modules composed by hand as the Router documentation shows.             *)
(*                                                                         *)
(* The order of the checks is the generated code's: each step of `pc` is   *)
(* one check, so that what a refusal answers depends on that order.        *)
EXTENDS Naturals, Sequences

CONSTANTS
  Selectors,
  Programs    \* the contracts to generate: sequences of modules

\* What the parser knows of a method, constructor or fallback.
Payability == {"absent", "payable", "nonpayable"}
Params == {"none", "static", "dynamic"}
Signature == [mutability : Payability, params : Params]

Module == [method       : [Selectors -> Signature],
           fallback     : Payability,
           has_receive  : BOOLEAN,
           constructor  : Signature,
           use_alloc    : BOOLEAN]

\* A call of the contract or its deployment: `size` is the calldata's length
\* class, "stub" for 1 to 3 bytes; `large` is more than the no-alloc buffer.
Messages ==
  {m \in [to : {"deploy", "call"}, value : BOOLEAN, size : {"empty", "stub", "selector"},
          selector : Selectors, args : {"good", "short", "malformed"}, large : BOOLEAN] :
     /\ m.size = "selector" \/ (m.args = "good" /\ ~m.large)
     /\ m.to = "deploy" => m.size = "selector"}

ASSUME DispatchAssumption == Programs \subseteq Seq(Module) \ {<< >>}

VARIABLES
  program,
  pc,       \* the generated code about to run
  msg,
  at,       \* the module of the chain being routed
  entry,    \* the handler whose arm was reached or whose body runs
  answer    \* the error selector, "returned", or "reverted" by the body

vars == <<program, pc, msg, at, entry, answer>>

Handler(kind, owner, payable, params) ==
  [kind |-> kind, owner |-> owner, payable |-> payable, params |-> params]
NoHandler == Handler("none", 0, FALSE, "none")

BadArgs(params, args) ==
  \/ params # "none" /\ args = "short"
  \/ params = "dynamic" /\ args = "malformed"

Main == program[1]
Composed == Len(program) > 1
Has(module, s) == module.method[s].mutability # "absent"

MethodHandler(i, s) ==
  LET sig == program[i].method[s] IN
  Handler("method", i, sig.mutability = "payable", sig.params)

\* Without a constructor the generated deploy still refuses value.
ConstructorHandler ==
  Handler("constructor", 1, Main.constructor.mutability = "payable",
          IF Main.constructor.mutability = "absent" THEN "none" ELSE Main.constructor.params)

ReceiveHandler == Handler("receive", 1, TRUE, "none")
FallbackHandler == Handler("fallback", 1, Main.fallback = "payable", "none")

\* A hand-written composed call has no fallback or receive of its own.
HasFallback == ~Composed /\ Main.fallback # "absent"
HasReceive == ~Composed /\ Main.has_receive

-----------------------------------------------------------------------------
Goto(label) == pc' = label /\ UNCHANGED answer

\* host.revert(code) diverges: the call ends and nothing it did remains.
Refuse(why) == pc' = "idle" /\ answer' = why

Deliver(m) ==
  /\ pc = "idle"
  /\ msg' = m
  /\ at' = 1
  /\ Goto(m.to)
  /\ UNCHANGED <<program, entry>>

\* Mutant: the default deploy has no guard.
DeployGuard_DeclaredOnly ==
  /\ pc = "deploy"
  /\ \/ msg.value /\ Main.constructor.mutability = "nonpayable" /\ Refuse("non_payable")
     \/ /\ msg.value => Main.constructor.mutability # "nonpayable"
        /\ Goto("deploy_read")
  /\ UNCHANGED <<program, msg, at, entry>>

\* deploy(): the value guard of a non-payable or absent constructor.
DeployGuard ==
  /\ pc = "deploy"
  /\ \/ msg.value /\ ~ConstructorHandler.payable /\ Refuse("non_payable")
     \/ /\ msg.value => ConstructorHandler.payable
        /\ Goto("deploy_read")
  /\ UNCHANGED <<program, msg, at, entry>>

\* Calldata is read only for a constructor with parameters.
DeployRead ==
  /\ pc = "deploy_read"
  /\ \/ /\ ConstructorHandler.params # "none" /\ ~Main.use_alloc /\ msg.large
        /\ Refuse("calldata_too_large")
        /\ UNCHANGED entry
     \/ /\ ConstructorHandler.params = "none" \/ Main.use_alloc \/ ~msg.large
        /\ Goto("decode")
        /\ entry' = ConstructorHandler
  /\ UNCHANGED <<program, msg, at>>

\* call(): read the calldata and pick receive, the no-selector handler or the
\* router.
ReadCalldata ==
  /\ pc = "call"
  /\ \/ /\ ~Main.use_alloc /\ msg.large
        /\ Refuse("calldata_too_large")
        /\ UNCHANGED entry
     \/ /\ Main.use_alloc \/ ~msg.large
        /\ \/ msg.size = "empty" /\ HasReceive /\ Goto("body") /\ entry' = ReceiveHandler
           \/ msg.size = "empty" /\ ~HasReceive /\ Goto("unhandled") /\ UNCHANGED entry
           \/ msg.size = "stub" /\ Goto("unhandled") /\ UNCHANGED entry
           \/ msg.size = "selector" /\ Goto("route") /\ UNCHANGED entry
  /\ UNCHANGED <<program, msg, at>>

\* Mutant: a payable fallback does not keep the guard in the arms.
Hoisted_DespiteFallback(module) ==
  /\ \E s \in Selectors : Has(module, s)
  /\ \A s \in Selectors : module.method[s].mutability # "payable"

\* all_non_payable: the value guard is hoisted above the match.
Hoisted(module) ==
  /\ module.fallback # "payable"
  /\ \E s \in Selectors : Has(module, s)
  /\ \A s \in Selectors : module.method[s].mutability # "payable"

HoistedGuard == Hoisted(program[at])

\* route(): the prelude, then the match; Outcome::Unhandled tries the next
\* module of the chain.
Route ==
  /\ pc = "route"
  /\ \/ HoistedGuard /\ msg.value /\ Refuse("non_payable") /\ UNCHANGED <<at, entry>>
     \/ /\ HoistedGuard => ~msg.value
        /\ \/ /\ Has(program[at], msg.selector)
              /\ Goto("arm")
              /\ entry' = MethodHandler(at, msg.selector)
              /\ UNCHANGED at
           \/ /\ ~Has(program[at], msg.selector)
              /\ IF at < Len(program) THEN Goto("route") /\ at' = at + 1
                 ELSE Goto("unhandled") /\ UNCHANGED at
              /\ UNCHANGED entry
  /\ UNCHANGED <<program, msg>>

\* The matched arm's own value guard, unless hoisted or payable.
ArmGuard ==
  /\ pc = "arm"
  /\ \/ /\ ~HoistedGuard /\ ~entry.payable /\ msg.value
        /\ Refuse("non_payable")
        /\ entry' = NoHandler
     \/ /\ HoistedGuard \/ entry.payable \/ ~msg.value
        /\ Goto("decode")
        /\ UNCHANGED entry
  /\ UNCHANGED <<program, msg, at>>

\* The size check and the decode let-else of an arm or of the constructor.
Decode ==
  /\ pc = "decode"
  /\ \/ BadArgs(entry.params, msg.args) /\ Refuse("invalid_calldata") /\ entry' = NoHandler
     \/ ~BadArgs(entry.params, msg.args) /\ Goto("body") /\ UNCHANGED entry
  /\ UNCHANGED <<program, msg, at>>

\* The no-selector and unknown-selector handlers.
Unhandled ==
  /\ pc = "unhandled"
  /\ \/ /\ ~HasFallback
        /\ Refuse(IF msg.size = "selector" THEN "unknown_selector" ELSE "no_selector")
        /\ UNCHANGED entry
     \/ /\ HasFallback /\ msg.value /\ ~FallbackHandler.payable
        /\ Refuse("non_payable")
        /\ UNCHANGED entry
     \/ /\ HasFallback /\ (msg.value => FallbackHandler.payable)
        /\ Goto("body")
        /\ entry' = FallbackHandler
  /\ UNCHANGED <<program, msg, at>>

\* The body returns, through finalize_outcome for a method, or reverts: an
\* Err, or a revert or trap of its own.
Body ==
  /\ pc = "body"
  /\ pc' = "idle"
  /\ entry' = NoHandler
  /\ answer' \in {"returned", "reverted"}
  /\ UNCHANGED <<program, msg, at>>

Init ==
  /\ program \in Programs
  /\ pc = "idle"
  /\ msg \in {m \in Messages : m.size = "empty" /\ ~m.value}
  /\ at = 1
  /\ entry = NoHandler
  /\ answer = "none"

Next ==
  \/ \E m \in Messages : (Composed => m.to = "call" /\ m.size = "selector") /\ Deliver(m)
  \/ DeployGuard \/ DeployRead
  \/ ReadCalldata \/ Route \/ ArmGuard \/ Decode \/ Unhandled
  \/ Body

Spec == Init /\ [][Next]_vars

-----------------------------------------------------------------------------
(* Properties                                                              *)

Handlers == [kind : {"none", "method", "constructor", "receive", "fallback"},
             owner : Nat, payable : BOOLEAN, params : Params]
Errors == {"non_payable", "no_selector", "unknown_selector", "invalid_calldata",
           "calldata_too_large"}

\* One type invariant: the code always stands at one of its steps, in a module
\* of its chain, with a handler exactly between a match and the end.
TypeOK ==
  /\ program \in Programs
  /\ pc \in {"idle", "deploy", "deploy_read", "call", "route", "arm", "decode",
             "unhandled", "body"}
  /\ msg \in Messages
  /\ at \in 1..Len(program)
  /\ entry \in Handlers
  /\ answer \in Errors \union {"none", "returned", "reverted"}
  /\ entry # NoHandler <=> pc \in {"arm", "decode", "body"}

\* The handlers the contract declares; in a chain an earlier module overrides
\* a later one.
Declared(p) ==
  LET first(s) == CHOOSE i \in DOMAIN p : Has(p[i], s) /\ \A j \in 1..(i - 1) : ~Has(p[j], s) IN
  [constructor |-> ConstructorHandler,
   receive |-> IF HasReceive THEN ReceiveHandler ELSE NoHandler,
   fallback |-> IF HasFallback THEN FallbackHandler ELSE NoHandler,
   method |-> [s \in Selectors |->
     IF \E i \in DOMAIN p : Has(p[i], s) THEN MethodHandler(first(s), s) ELSE NoHandler]]

Phase ==
  IF pc = "idle" THEN "idle" ELSE IF pc = "body" THEN "running" ELSE "pending"

Abstract == INSTANCE Endpoint WITH
  iface <- Declared(program),
  phase <- Phase,
  entry <- IF pc = "body" THEN entry ELSE NoHandler

\* Solidity's dispatch: the right handler runs, no value reaches a handler
\* that is not payable, and a message is only refused for a reason that holds
\* of the handler it was for, wherever the guards were hoisted to.
IsAnEndpoint == Abstract!Spec

\* No body runs with value unless it was declared payable.
ValueOnlyToPayable == pc = "body" /\ msg.value => entry.payable
=============================================================================
