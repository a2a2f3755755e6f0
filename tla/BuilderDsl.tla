----------------------------- MODULE BuilderDsl -----------------------------
(* pvm_contract_builder_dsl: the contract builder, from the registration of *)
(* its handlers to the dispatch of a message.  ContractBuilder alone is the *)
(* builder that never got a fallback or receive handler.                    *)
EXTENDS Naturals, Sequences

CONSTANTS
  Selectors,
  MaxMethods   \* MAX_METHODS, scaled down

Payability == {"absent", "payable", "nonpayable"}

\* As in Dispatch; arguments are the handlers' own business.
Messages ==
  {m \in [to : {"deploy", "call"}, value : BOOLEAN, size : {"empty", "stub", "selector"},
          selector : Selectors, args : {"good"}, large : BOOLEAN] :
     m.large \/ m.to = "deploy" => m.size = "selector"}

VARIABLES
  asked,          \* history: the method calls made on the builder
  methods,        \* methods[..len]: the selectors, in order of registration
  payable_bits,   \* the set bits, which count from 0
  fallback,       \* and fallback_is_payable
  receive,
  pc, msg, entry, answer,
  i               \* try_route's loop counter, from 0

vars == <<asked, methods, payable_bits, fallback, receive, pc, msg, entry, answer, i>>
builder == <<asked, methods, payable_bits, fallback, receive>>

Handler(kind, owner, payable) ==
  [kind |-> kind, owner |-> owner, payable |-> payable, params |-> "none"]
NoHandler == Handler("none", 0, FALSE)
ReceiveHandler == Handler("receive", 1, TRUE)
FallbackHandler == Handler("fallback", 1, fallback = "payable")

\* (payable_bits >> k) & 1; the mutant is off by one.
PayableBit_Next(k) == k + 1 \in payable_bits
PayableBit(k) == k \in payable_bits

-----------------------------------------------------------------------------
(* Registration                                                            *)

Full_Late == Len(methods) > MaxMethods   \* mutant
Full == Len(methods) >= MaxMethods

Method(s) ==
  /\ pc = "idle"
  /\ ~Full
  /\ methods' = Append(methods, s)
  /\ asked' = Append(asked, [selector |-> s, payable |-> FALSE])
  /\ UNCHANGED <<payable_bits, fallback, receive, pc, msg, entry, answer, i>>

PayableMethod(s) ==
  /\ pc = "idle"
  /\ ~Full
  /\ methods' = Append(methods, s)
  /\ asked' = Append(asked, [selector |-> s, payable |-> TRUE])
  /\ payable_bits' = payable_bits \union {Len(methods)}
  /\ UNCHANGED <<fallback, receive, pc, msg, entry, answer, i>>

\* The assert on MAX_METHODS panics: the contract never serves.
TooManyMethods ==
  /\ pc = "idle"
  /\ Full
  /\ pc' = "panicked"
  /\ UNCHANGED <<builder, msg, entry, answer, i>>

\* fallback and payable_fallback set or replace.
Fallback(p) ==
  /\ pc = "idle"
  /\ fallback' = p
  /\ UNCHANGED <<asked, methods, payable_bits, receive, pc, msg, entry, answer, i>>

Receive ==
  /\ pc = "idle"
  /\ receive' = TRUE
  /\ UNCHANGED <<asked, methods, payable_bits, fallback, pc, msg, entry, answer, i>>

-----------------------------------------------------------------------------
(* Dispatch                                                                *)

Goto(label) == pc' = label /\ UNCHANGED answer
Refuse(why) == pc' = "idle" /\ answer' = why

Deliver(m) ==
  /\ pc = "idle"
  /\ msg' = m
  /\ i' = 0
  /\ Goto(m.to)
  /\ UNCHANGED <<builder, entry>>

\* The scaffolded deploy() calls assert_non_payable_deploy, then its own code.
Deploy ==
  /\ pc = "deploy"
  /\ \/ msg.value /\ Refuse("non_payable") /\ UNCHANGED entry
     \/ ~msg.value /\ Goto("handler") /\ entry' = Handler("constructor", 1, FALSE)
  /\ UNCHANGED <<builder, msg, i>>

\* dispatch_impl up to the routing.
ReadCalldata ==
  /\ pc = "call"
  /\ \/ msg.large /\ Refuse("calldata_too_large") /\ UNCHANGED entry
     \/ /\ ~msg.large /\ msg.size = "empty" /\ receive
        /\ Goto("handler")
        /\ entry' = ReceiveHandler
     \/ /\ ~msg.large /\ (msg.size = "stub" \/ (msg.size = "empty" /\ ~receive))
        /\ Goto("default")
        /\ UNCHANGED entry
     \/ ~msg.large /\ msg.size = "selector" /\ Goto("try_route") /\ UNCHANGED entry
  /\ UNCHANGED <<builder, msg, i>>

\* One turn of try_route's loop: the first registration that matches is the
\* only one considered.
TryRoute ==
  /\ pc = "try_route"
  /\ \/ i >= Len(methods) /\ Goto("default") /\ UNCHANGED <<entry, i>>
     \/ /\ i < Len(methods) /\ methods[i + 1] # msg.selector
        /\ i' = i + 1
        /\ UNCHANGED <<pc, entry, answer>>
     \/ /\ i < Len(methods) /\ methods[i + 1] = msg.selector
        /\ \/ ~PayableBit(i) /\ msg.value /\ Refuse("non_payable") /\ UNCHANGED entry
           \/ /\ PayableBit(i) \/ ~msg.value
              /\ Goto("handler")
              /\ entry' = Handler("method", i + 1, PayableBit(i))
        /\ UNCHANGED i
  /\ UNCHANGED <<builder, msg>>

\* Nothing matched: the fallback, or default_err.
Default ==
  /\ pc = "default"
  /\ \/ /\ fallback = "absent"
        /\ Refuse(IF msg.size = "selector" THEN "unknown_selector" ELSE "no_selector")
        /\ UNCHANGED entry
     \/ fallback = "nonpayable" /\ msg.value /\ Refuse("non_payable") /\ UNCHANGED entry
     \/ /\ fallback = "payable" \/ (fallback = "nonpayable" /\ ~msg.value)
        /\ Goto("handler")
        /\ entry' = FallbackHandler
  /\ UNCHANGED <<builder, msg, i>>

\* The handler ran: finalize_response returns or reverts with what it wrote,
\* its length clamped to the buffer.
Finalize ==
  /\ pc = "handler"
  /\ pc' = "idle"
  /\ entry' = NoHandler
  /\ answer' \in {"returned", "reverted"}
  /\ UNCHANGED <<builder, msg, i>>

Init ==
  /\ asked = << >>
  /\ methods = << >>
  /\ payable_bits = {}
  /\ fallback = "absent"
  /\ receive = FALSE
  /\ pc = "idle"
  /\ msg \in {m \in Messages : m.size = "empty" /\ ~m.value}
  /\ entry = NoHandler
  /\ answer = "none"
  /\ i = 0

Next ==
  \/ \E s \in Selectors : Method(s) \/ PayableMethod(s)
  \/ TooManyMethods
  \/ \E p \in {"payable", "nonpayable"} : Fallback(p)
  \/ Receive
  \/ \E m \in Messages : Deliver(m)
  \/ Deploy \/ ReadCalldata \/ TryRoute \/ Default \/ Finalize

Spec == Init /\ [][Next]_vars

-----------------------------------------------------------------------------
(* Properties                                                              *)

\* One type invariant: the table never outgrows its array, and only the bits
\* of registered methods are set.
TypeOK ==
  /\ asked \in Seq([selector : Selectors, payable : BOOLEAN])
  /\ methods \in Seq(Selectors) /\ Len(methods) <= MaxMethods
  /\ payable_bits \subseteq 0..(Len(methods) - 1)
  /\ fallback \in Payability
  /\ receive \in BOOLEAN
  /\ pc \in {"idle", "panicked", "deploy", "call", "try_route", "default", "handler"}
  /\ msg \in Messages
  /\ i \in 0..Len(methods)

\* What the calls on the builder declare: the first of a selector counts.
Declared ==
  LET first(s) == CHOOSE k \in DOMAIN asked :
                    asked[k].selector = s /\ \A j \in 1..(k - 1) : asked[j].selector # s IN
  [constructor |-> Handler("constructor", 1, FALSE),
   receive |-> IF receive THEN ReceiveHandler ELSE NoHandler,
   fallback |-> IF fallback # "absent" THEN FallbackHandler ELSE NoHandler,
   method |-> [s \in Selectors |->
     IF \E k \in DOMAIN asked : asked[k].selector = s
     THEN Handler("method", first(s), asked[first(s)].payable) ELSE NoHandler]]

Abstract == INSTANCE Endpoint WITH
  iface <- Declared,
  phase <- CASE pc \in {"idle", "panicked"} -> "idle"
             [] pc = "handler" -> "running"
             [] OTHER -> "pending"

\* The builder is the same endpoint as the macro's: whatever the order of the
\* registrations, overridden handlers and duplicate selectors included, the
\* right handler runs, value only reaches payable ones, and refusals are
\* justified.
IsAnEndpoint == Abstract!Spec
=============================================================================
