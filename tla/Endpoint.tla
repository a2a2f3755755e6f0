------------------------------ MODULE Endpoint ------------------------------
(* What a contract's entry points promise a message, whichever front end   *)
(* generated them: the Solidity rules for choosing the handler, for value, *)
(* and for refusing.  The macro's dispatch (Dispatch) and the builder DSL  *)
(* (BuilderDsl) are shown to implement this.                               *)
EXTENDS Naturals

CONSTANT Selectors

VARIABLES
  iface,    \* the handlers the contract declares
  phase,    \* "idle", "pending" or "running"
  msg,      \* the message being served
  entry,    \* the handler it was given to
  answer    \* how the last message ended

vars == <<iface, phase, msg, entry, answer>>

\* `owner` tells apart handlers of one kind: the module of a chain, the
\* registration of a builder.  Nobody declared a handler of owner 0.
Handler(kind, owner, payable, params) ==
  [kind |-> kind, owner |-> owner, payable |-> payable, params |-> params]
NoHandler == Handler("none", 0, FALSE, "none")

\* Arguments too short for the handler's parameters, or malformed ones, which
\* only dynamic parameters can tell.
BadArgs(params, args) ==
  \/ params # "none" /\ args = "short"
  \/ params = "dynamic" /\ args = "malformed"

\* Empty calldata is for `receive`, a selector for its method; the fallback
\* takes what is left.
Target(f, m) ==
  IF m.to = "deploy" THEN f.constructor
  ELSE IF m.size = "empty" /\ f.receive # NoHandler THEN f.receive
  ELSE IF m.size = "selector" /\ f.method[m.selector] # NoHandler
  THEN f.method[m.selector]
  ELSE f.fallback

\* Value only goes to a payable handler, and arguments are well formed.
Accepts(h, m) ==
  /\ h # NoHandler
  /\ m.value => h.payable
  /\ ~BadArgs(h.params, m.args)

\* A refusal states a reason that holds of the handler the message was for.
Justified(why, h, m) ==
  \/ why = "non_payable" /\ m.value /\ ~h.payable
  \/ why = "no_selector" /\ h = NoHandler /\ m.size \in {"empty", "stub"}
  \/ why = "unknown_selector" /\ h = NoHandler /\ m.size = "selector"
  \/ why = "invalid_calldata" /\ BadArgs(h.params, m.args)
  \/ why = "calldata_too_large" /\ m.large

Receive(m) ==
  /\ phase = "idle"
  /\ phase' = "pending"
  /\ msg' = m
  /\ UNCHANGED <<iface, entry, answer>>

Enter ==
  /\ phase = "pending"
  /\ Accepts(Target(iface, msg), msg)
  /\ phase' = "running"
  /\ entry' = Target(iface, msg)
  /\ UNCHANGED <<iface, msg, answer>>

Refuse(why) ==
  /\ phase = "pending"
  /\ Justified(why, Target(iface, msg), msg)
  /\ phase' = "idle"
  /\ answer' = why
  /\ UNCHANGED <<iface, msg, entry>>

\* The handler returns, or reverts with an error of its own.
Finish ==
  /\ phase = "running"
  /\ phase' = "idle"
  /\ entry' = NoHandler
  /\ answer' \in {"returned", "reverted"}
  /\ UNCHANGED <<iface, msg>>

\* Until it serves, a contract may still declare handlers; a method once
\* declared is not replaced.
Declare ==
  /\ phase = "idle"
  /\ \A s \in Selectors : iface.method[s] # NoHandler => iface'.method[s] = iface.method[s]
  /\ UNCHANGED <<phase, msg, entry, answer>>

Init ==
  /\ phase = "idle"
  /\ entry = NoHandler
  /\ answer = "none"

Next ==
  \/ \E m \in [to : {"deploy", "call"}, value : BOOLEAN, size : {"empty", "stub", "selector"},
               selector : Selectors, args : {"good", "short", "malformed"}, large : BOOLEAN] :
       Receive(m)
  \/ Enter
  \/ \E why \in {"non_payable", "no_selector", "unknown_selector", "invalid_calldata",
                 "calldata_too_large"} : Refuse(why)
  \/ Finish
  \/ Declare

Spec == Init /\ [][Next]_vars
=============================================================================
