----------------------------- MODULE FrontEnds -----------------------------
(* One contract written twice: with the macro (Dispatch) and with the       *)
(* builder (BuilderDsl, whose own variables are primed here by `dsl_`).     *)
(* Both get every message, and run until a handler has it or it is refused. *)
EXTENDS Dispatch

CONSTANT MaxMethods

ASSUME BuilderAssumption == MaxMethods \in Nat \ {0}

VARIABLES asked, methods, payable_bits, dsl_fallback, dsl_receive, dsl_pc, dsl_msg, dsl_entry,
          dsl_answer, i

Dsl == INSTANCE BuilderDsl WITH
  fallback <- dsl_fallback, receive <- dsl_receive,
  pc <- dsl_pc, msg <- dsl_msg, entry <- dsl_entry, answer <- dsl_answer

dsl_vars == <<asked, methods, payable_bits, dsl_fallback, dsl_receive, dsl_pc, dsl_msg,
              dsl_entry, dsl_answer, i>>
allVars == <<vars, dsl_vars>>

\* What the builder can say at all: one module, whose handlers decode their
\* own arguments, and a deployment that takes no value.
Expressible ==
  /\ ~Composed
  /\ ~ConstructorHandler.payable /\ ConstructorHandler.params = "none"
  /\ \A s \in Selectors : Main.method[s].params = "none"

Registered(s) == \E k \in DOMAIN methods : methods[k] = s

\* A further registration of a selector changes nothing, so it may be any.
Wanted(s, payability) == Registered(s) \/ Main.method[s].mutability = payability

\* A call's builder registers before it dispatches, and what the macro has.
Register ==
  /\ Expressible
  /\ pc = "idle" /\ answer = "none"
  /\ \/ \E s \in Selectors :
          \/ Wanted(s, "nonpayable") /\ Dsl!Method(s)
          \/ Wanted(s, "payable") /\ Dsl!PayableMethod(s)
     \/ Dsl!TooManyMethods
     \/ \E p \in {"payable", "nonpayable"} : Main.fallback # "absent" /\ Dsl!Fallback(p)
     \/ Main.has_receive /\ Dsl!Receive
  /\ UNCHANGED vars

Twins ==
  /\ Expressible
  /\ \A s \in Selectors : Has(Main, s) => Registered(s)
  /\ dsl_fallback = Main.fallback
  /\ dsl_receive = Main.has_receive

\* A message of the message space the two share; a builder always reads into a
\* buffer of its own size.
DeliverBoth(m) ==
  /\ Twins
  /\ m \in Dsl!Messages /\ (m.large => ~Main.use_alloc)
  /\ Deliver(m)
  /\ Dsl!Deliver(m)

DeliverMacro(m) ==
  /\ ~Expressible
  /\ Composed => m.to = "call" /\ m.size = "selector"
  /\ Deliver(m)
  /\ UNCHANGED dsl_vars

MacroStep ==
  /\ DeployGuard \/ DeployRead \/ ReadCalldata \/ Route \/ ArmGuard \/ Decode \/ Unhandled
  /\ UNCHANGED dsl_vars

\* The builder's turn, once the macro's code has settled.
DslStep ==
  /\ pc \in {"idle", "body"}
  /\ Dsl!Deploy \/ Dsl!ReadCalldata \/ Dsl!TryRoute \/ Dsl!Default
  /\ UNCHANGED vars

\* Both run the same handler, which ends the same way.
FinishBoth ==
  /\ Body /\ Dsl!Finalize
  /\ answer' = dsl_answer'

FinishMacro == ~Expressible /\ Body /\ UNCHANGED dsl_vars

BothInit == Init /\ Dsl!Init

\* One message, for the frame of the next one starts from nothing.
BothNext ==
  \/ Register
  \/ \E m \in Messages : answer = "none" /\ (DeliverBoth(m) \/ DeliverMacro(m))
  \/ MacroStep \/ DslStep
  \/ FinishBoth \/ FinishMacro

BothSpec == BothInit /\ [][BothNext]_allVars

-----------------------------------------------------------------------------
(* Properties                                                              *)

\* The type invariant of the builder.
DslTypeOK == Dsl!TypeOK

\* The builder is the same endpoint as the macro's: whatever the order of the
\* registrations, overridden handlers and duplicate selectors included, the
\* right handler runs, value only reaches payable ones, and refusals are
\* justified.
DslIsAnEndpoint == Dsl!IsAnEndpoint

\* builder-dsl/lib.rs "same dispatch architecture across DSL and macro paths":
\* where both have decided, either both refuse the message or both run the
\* handler of the same kind and payability; which of two reasons they give may
\* differ, as the macro may hoist a guard above its match.
SameFate ==
  Expressible /\ pc \in {"idle", "body"} /\ dsl_pc \in {"idle", "handler"} =>
    /\ pc = "body" <=> dsl_pc = "handler"
    /\ pc = "body" => entry.kind = dsl_entry.kind /\ entry.payable = dsl_entry.payable
=============================================================================
