--------------------------- MODULE DispatchProofs ---------------------------
(* What holds of the two front ends for every set of selectors and every    *)
(* program.  Of the macro's entry points: the typing, that value only       *)
(* reaches payable handlers (chains with hoisted guards included), and that *)
(* a contract whose earlier modules hoist no guard is the endpoint of       *)
(* Endpoint.tla.  Of the builder: its table, that it is that endpoint too,  *)
(* and that the two decide alike.                                           *)
EXTENDS FrontEnds, SequenceTheorems, TLAPS

\* The handler this message is for.
Intended == Abstract!Target(Declared(program), msg)

\* The match passed over the modules before `at`.
PassedOver == \A j \in 1..(at - 1) : ~Has(program[j], msg.selector)

\* What each step of the code may count on.
StepInv ==
  /\ pc \in {"deploy", "deploy_read"} => msg.to = "deploy"
  /\ pc = "deploy_read" => (msg.value => ConstructorHandler.payable)
  /\ pc \in {"call", "route", "arm", "unhandled"} => msg.to = "call"
  /\ pc = "call" => at = 1
  /\ pc \in {"route", "arm"} => msg.size = "selector" /\ PassedOver
  /\ pc = "arm" =>
       /\ Has(program[at], msg.selector)
       /\ entry = MethodHandler(at, msg.selector)
       /\ HoistedGuard => ~msg.value
  /\ pc = "unhandled" =>
       /\ msg.size = "empty" => ~HasReceive
       /\ msg.size = "selector" => \A j \in DOMAIN program : ~Has(program[j], msg.selector)
  /\ pc \in {"decode", "body"} => entry = Intended /\ (msg.value => entry.payable)
  /\ pc = "body" => ~BadArgs(entry.params, msg.args)

Inv == TypeOK /\ StepInv

-----------------------------------------------------------------------------
(* Who a message is for                                                    *)

\* Programs are non-empty sequences of modules.
LEMMA ProgramShape ==
  ASSUME program \in Programs
  PROVE  /\ program \in Seq(Module)
         /\ Len(program) \in Nat \ {0}
         /\ DOMAIN program = 1..Len(program)
         /\ Main \in Module
         /\ \A j \in DOMAIN program : program[j] \in Module
<1>1. program \in Seq(Module) /\ program # << >>
  BY DispatchAssumption
<1>2. Len(program) \in Nat /\ DOMAIN program = 1..Len(program)
  BY <1>1
<1>3. Len(program) # 0
  BY <1>1
<1> QED
  BY <1>1, <1>2, <1>3 DEF Main

\* Handlers of the four kinds are handlers, and none of them is NoHandler.
LEMMA HandlerTypes ==
  ASSUME program \in Programs
  PROVE  /\ ConstructorHandler \in Handlers /\ ConstructorHandler # NoHandler
         /\ ReceiveHandler \in Handlers /\ ReceiveHandler # NoHandler /\ ReceiveHandler.payable
         /\ ReceiveHandler.params = "none"
         /\ FallbackHandler \in Handlers /\ FallbackHandler # NoHandler
         /\ FallbackHandler.params = "none"
         /\ NoHandler \in Handlers
<1>1. Main \in Module
  BY ProgramShape
<1>2. ConstructorHandler.params \in Params
  BY <1>1 DEF ConstructorHandler, Handler, Module, Signature, Params
<1> QED
  BY <1>1, <1>2 DEF Handlers, ConstructorHandler, ReceiveHandler, FallbackHandler, NoHandler,
                    Handler, Params

\* A method of the chain is a handler.
LEMMA MethodHandlerType ==
  ASSUME program \in Programs, NEW k \in DOMAIN program, NEW s \in Selectors
  PROVE  MethodHandler(k, s) \in Handlers /\ MethodHandler(k, s) # NoHandler
<1>1. k \in Nat /\ program[k] \in Module
  BY ProgramShape
<1>2. program[k].method[s].params \in Params
  BY <1>1 DEF Module, Signature
<1> QED
  BY <1>1, <1>2 DEF Handlers, MethodHandler, NoHandler, Handler

\* A deployment is for the constructor.
LEMMA IntendedConstructor ==
  ASSUME msg.to = "deploy"
  PROVE  Intended = ConstructorHandler
BY DEF Intended, Abstract!Target, Declared

\* Empty calldata is for the receive handler, when there is one.
LEMMA IntendedReceive ==
  ASSUME program \in Programs, msg.to = "call", msg.size = "empty", HasReceive
  PROVE  Intended = ReceiveHandler
<1>1. ReceiveHandler # Abstract!NoHandler
  BY HandlerTypes DEF NoHandler, Handler, Abstract!NoHandler, Abstract!Handler
<1> QED
  BY <1>1 DEF Intended, Abstract!Target, Declared

\* The first module with the selector gets the message.
LEMMA IntendedMethod ==
  ASSUME program \in Programs, msg \in Messages, msg.to = "call", msg.size = "selector",
         at \in DOMAIN program, Has(program[at], msg.selector), PassedOver
  PROVE  Intended = MethodHandler(at, msg.selector)
<1> DEFINE s == msg.selector
           First(k) == Has(program[k], s) /\ \A j \in 1..(k - 1) : ~Has(program[j], s)
<1>1. s \in Selectors
  BY DEF Messages
<1>2. DOMAIN program = 1..Len(program) /\ Len(program) \in Nat
  BY ProgramShape
<1>3. First(at)
  BY DEF PassedOver
<1>4. \A k \in DOMAIN program : First(k) => k = at
  <2> SUFFICES ASSUME NEW k \in DOMAIN program, First(k)
               PROVE  k = at
    OBVIOUS
  <2> HIDE DEF s
  <2>1. k \in Nat /\ at \in Nat /\ k >= 1 /\ at >= 1
    BY <1>2
  <2>2. ~(k < at)
    BY <2>1, <1>3
  <2>3. ~(at < k)
    BY <2>1, <1>3
  <2> QED
    BY <2>1, <2>2, <2>3
<1>5. (CHOOSE k \in DOMAIN program : First(k)) = at
  BY <1>3, <1>4
<1>6. Declared(program).method[s] = MethodHandler(at, s)
  BY <1>1, <1>3, <1>5 DEF Declared
<1>7. MethodHandler(at, s) # Abstract!NoHandler
  BY <1>1, MethodHandlerType DEF NoHandler, Handler, Abstract!NoHandler, Abstract!Handler
<1> QED
  BY <1>6, <1>7 DEF Intended, Abstract!Target

\* What is left is for the fallback, if there is one.
LEMMA IntendedFallback ==
  ASSUME program \in Programs, msg \in Messages, msg.to = "call",
         msg.size = "empty" => ~HasReceive,
         msg.size = "selector" => \A j \in DOMAIN program : ~Has(program[j], msg.selector)
  PROVE  Intended = IF HasFallback THEN FallbackHandler ELSE NoHandler
<1>1. msg.selector \in Selectors
  BY DEF Messages
<1>2. NoHandler = Abstract!NoHandler
  BY DEF NoHandler, Handler, Abstract!NoHandler, Abstract!Handler
<1>3. msg.size = "empty" => Declared(program).receive = NoHandler
  BY DEF Declared
<1>4. msg.size = "selector" => Declared(program).method[msg.selector] = NoHandler
  BY <1>1 DEF Declared
<1>5. Declared(program).fallback = IF HasFallback THEN FallbackHandler ELSE NoHandler
  BY DEF Declared
<1> QED
  BY <1>2, <1>3, <1>4, <1>5 DEF Intended, Abstract!Target

\* Nothing but the message and the program decides.
LEMMA DeclaredStable ==
  ASSUME program' = program
  PROVE  Declared(program)' = Declared(program)
BY DEF Declared, ConstructorHandler, ReceiveHandler, FallbackHandler, MethodHandler, HasReceive,
       HasFallback, Composed, Main, Handler, NoHandler, Has

\* What a message is for does not change while it is served.
LEMMA IntendedStable ==
  ASSUME program' = program, msg' = msg
  PROVE  Intended' = Intended
BY DeclaredStable DEF Intended, Abstract!Target, Abstract!NoHandler, Abstract!Handler

-----------------------------------------------------------------------------
(* The invariant                                                           *)

\* The invariant holds initially.
LEMMA InitInv == Init => Inv
<1> SUFFICES ASSUME Init PROVE Inv
  OBVIOUS
<1>1. 1 \in 1..Len(program)
  BY ProgramShape DEF Init
<1>2. NoHandler \in Handlers
  BY HandlerTypes DEF Init
<1>3. TypeOK
  BY <1>1, <1>2 DEF Init, TypeOK
<1>4. StepInv
  BY DEF Init, StepInv
<1> QED
  BY <1>3, <1>4 DEF Inv

\* Every step of the code keeps the typing and meets the next step's needs.
LEMMA StepKeepsInv == Inv /\ [Next]_vars => Inv'
<1> SUFFICES ASSUME Inv, [Next]_vars PROVE Inv'
  OBVIOUS
<1>p. program \in Programs /\ msg \in Messages /\ at \in DOMAIN program
  BY ProgramShape DEF Inv, TypeOK
<1>n. NoHandler \in Handlers /\ at \in Nat /\ Len(program) \in Nat
      /\ DOMAIN program = 1..Len(program)
  BY <1>p, HandlerTypes, ProgramShape
<1>a. ASSUME program' = program, msg' = msg
      PROVE  /\ Intended' = Intended
             /\ ConstructorHandler' = ConstructorHandler
             /\ HasReceive' = HasReceive
  BY <1>a, IntendedStable DEF ConstructorHandler, HasReceive, Composed, Main, Handler
<1>1. ASSUME NEW m \in Messages, Deliver(m)
      PROVE  Inv'
  <2>1. TypeOK'
    BY <1>1, <1>p, <1>n DEF Deliver, Goto, Inv, TypeOK, Messages
  <2>2. StepInv'
    BY <1>1 DEF Deliver, Goto, StepInv, Messages
  <2> QED
    BY <2>1, <2>2 DEF Inv
<1>2. ASSUME DeployGuard
      PROVE  Inv'
  <2>1. TypeOK'
    BY <1>2, <1>p, <1>n DEF DeployGuard, Goto, Refuse, Inv, TypeOK, Errors
  <2>2. StepInv'
    BY <1>2, <1>a DEF DeployGuard, Goto, Refuse, Inv, StepInv
  <2> QED
    BY <2>1, <2>2 DEF Inv
<1>3. ASSUME DeployRead
      PROVE  Inv'
  <2>1. TypeOK'
    BY <1>3, <1>p, <1>n, HandlerTypes DEF DeployRead, Goto, Refuse, Inv, TypeOK, Errors
  <2>2. StepInv'
    BY <1>3, <1>a, IntendedConstructor DEF DeployRead, Goto, Refuse, Inv, StepInv
  <2> QED
    BY <2>1, <2>2 DEF Inv
<1>4. ASSUME ReadCalldata
      PROVE  Inv'
  <2>1. TypeOK'
    BY <1>4, <1>p, <1>n, HandlerTypes DEF ReadCalldata, Goto, Refuse, Inv, TypeOK, Errors
  <2>2. msg.size = "empty" /\ HasReceive => Intended = ReceiveHandler
    BY <1>4, <1>p, IntendedReceive DEF ReadCalldata, Inv, StepInv
  <2>3. StepInv'
    BY <1>4, <1>a, <2>2, HandlerTypes, <1>p
       DEF ReadCalldata, Goto, Refuse, Inv, StepInv, PassedOver, BadArgs
  <2> QED
    BY <2>1, <2>3 DEF Inv
<1>5. ASSUME Route
      PROVE  Inv'
  <2>s. msg.selector \in Selectors /\ program' = program /\ msg' = msg
    BY <1>5, <1>p DEF Route, Messages
  <2>1. TypeOK'
    <3>1. Has(program[at], msg.selector) => MethodHandler(at, msg.selector) \in Handlers
                                            /\ MethodHandler(at, msg.selector) # NoHandler
      BY <1>p, <2>s, MethodHandlerType
    <3> QED
      BY <1>5, <3>1, <1>p, <1>n DEF Route, Goto, Refuse, Inv, TypeOK, Errors
  <2>2. StepInv'
    <3>1. PassedOver /\ ~Has(program[at], msg.selector)
            => \A j \in 1..at : ~Has(program[j], msg.selector)
      <4>1. \A j \in 1..at : j \in 1..(at - 1) \/ j = at
        BY <1>n
      <4> QED
        BY <4>1 DEF PassedOver
    <3>2. CASE pc' = "idle"
      BY <3>2 DEF StepInv
    <3>3. CASE pc' = "arm"
      <4>1. at' = at /\ entry' = MethodHandler(at, msg.selector) /\ (HoistedGuard => ~msg.value)
            /\ Has(program[at], msg.selector)
        BY <3>3, <1>5 DEF Route, Goto, Refuse
      <4>2. entry' = MethodHandler(at, msg.selector)' /\ HoistedGuard' = HoistedGuard
        BY <4>1, <2>s DEF MethodHandler, Handler, HoistedGuard
      <4> QED
        BY <3>3, <4>1, <4>2, <2>s, <1>5 DEF Inv, StepInv, Route, PassedOver
    <3>4. CASE pc' = "route"
      <4>1. at' = at + 1 /\ ~Has(program[at], msg.selector)
        BY <3>4, <1>5 DEF Route, Goto, Refuse
      <4>2. 1..(at' - 1) = 1..at
        BY <4>1, <1>n
      <4> QED
        BY <3>1, <3>4, <4>1, <4>2, <2>s, <1>5 DEF Inv, StepInv, Route, PassedOver
    <3>5. CASE pc' = "unhandled"
      <4>1. ~Has(program[at], msg.selector) /\ ~(at < Len(program))
        BY <3>5, <1>5 DEF Route, Goto, Refuse
      <4>2. 1..at = DOMAIN program
        BY <4>1, <1>p, <1>n
      <4> QED
        BY <3>1, <3>5, <4>1, <4>2, <2>s, <1>5 DEF Inv, StepInv, Route
    <3> QED
      BY <1>5, <3>2, <3>3, <3>4, <3>5 DEF Route, Goto, Refuse
  <2> QED
    BY <2>1, <2>2 DEF Inv
<1>6. ASSUME ArmGuard
      PROVE  Inv'
  <2>1. TypeOK'
    BY <1>6, <1>p, <1>n DEF ArmGuard, Goto, Refuse, Inv, TypeOK, Errors
  <2>2. entry = Intended
    BY <1>6, <1>p, IntendedMethod DEF ArmGuard, Inv, StepInv
  <2>3. StepInv'
    BY <1>6, <1>a, <2>2 DEF ArmGuard, Goto, Refuse, Inv, StepInv
  <2> QED
    BY <2>1, <2>3 DEF Inv
<1>7. ASSUME Decode
      PROVE  Inv'
  <2>1. TypeOK'
    BY <1>7, <1>p, <1>n DEF Decode, Goto, Refuse, Inv, TypeOK, Errors
  <2>2. StepInv'
    BY <1>7, <1>a DEF Decode, Goto, Refuse, Inv, StepInv
  <2> QED
    BY <2>1, <2>2 DEF Inv
<1>8. ASSUME Unhandled
      PROVE  Inv'
  <2>1. TypeOK'
    BY <1>8, <1>p, <1>n, HandlerTypes DEF Unhandled, Goto, Refuse, Inv, TypeOK, Errors
  <2>2. Intended = IF HasFallback THEN FallbackHandler ELSE NoHandler
    BY <1>8, <1>p, IntendedFallback DEF Unhandled, Inv, StepInv
  <2>3. StepInv'
    BY <1>8, <1>a, <1>p, <2>2, HandlerTypes
       DEF Unhandled, Goto, Refuse, Inv, StepInv, BadArgs
  <2> QED
    BY <2>1, <2>3 DEF Inv
<1>9. ASSUME Body
      PROVE  Inv'
  <2>1. TypeOK'
    BY <1>9, <1>p, <1>n DEF Body, Inv, TypeOK
  <2>2. StepInv'
    BY <1>9 DEF Body, StepInv
  <2> QED
    BY <2>1, <2>2 DEF Inv
<1>10. CASE UNCHANGED vars
  <2>1. TypeOK'
    BY <1>10 DEF vars, Inv, TypeOK
  <2>2. HoistedGuard' = HoistedGuard /\ MethodHandler(at, msg.selector)' = MethodHandler(at, msg.selector)
    BY <1>10 DEF vars, HoistedGuard, MethodHandler, Handler
  <2>3. StepInv'
    BY <1>10, <1>a, <2>2 DEF vars, Inv, StepInv, PassedOver
  <2> QED
    BY <2>1, <2>3 DEF Inv
<1> QED
  BY <1>1, <1>2, <1>3, <1>4, <1>5, <1>6, <1>7, <1>8, <1>9, <1>10 DEF Next

\* The invariant holds in every reachable state.
LEMMA InvAlways == Spec => []Inv
BY InitInv, StepKeepsInv, PTL DEF Spec

\* The code always stands at one of its steps, for every program.
THEOREM TypeCorrect == Spec => []TypeOK
<1>1. Inv => TypeOK
  BY DEF Inv
<1> QED
  BY <1>1, InvAlways, PTL

\* No body runs with value unless it was declared payable: in one module or in
\* a chain, with the guard in the arm or hoisted above the match.
THEOREM NoValueToNonPayable == Spec => []ValueOnlyToPayable
<1>1. Inv => ValueOnlyToPayable
  BY DEF Inv, StepInv, ValueOnlyToPayable
<1> QED
  BY <1>1, InvAlways, PTL

-----------------------------------------------------------------------------
(* Refinement                                                              *)

Pending == pc \notin {"idle", "body"}

\* A refusal is a refusal of the endpoint when its reason holds.
LEMMA Refusing ==
  ASSUME Pending, pc' = "idle", program' = program, msg' = msg, NEW why \in Errors,
         answer' = why, Abstract!Justified(why, Intended, msg)
  PROVE  Abstract!Next
<1>1. Declared(program)' = Declared(program)
  BY DeclaredStable
<1>2. Abstract!Refuse(why)
  BY <1>1 DEF Abstract!Refuse, Phase, Pending, Intended
<1> QED
  BY <1>2 DEF Abstract!Next, Errors

\* Going on from one check to the next is no step of the endpoint.
LEMMA Checking ==
  ASSUME Pending, Pending', program' = program, msg' = msg, answer' = answer
  PROVE  UNCHANGED Abstract!vars
BY DeclaredStable DEF Abstract!vars, Phase, Pending

\* The last check passed: the handler gets the message.
LEMMA Entering ==
  ASSUME Pending, pc' = "body", program' = program, msg' = msg, answer' = answer,
         entry' = Intended, Abstract!Accepts(Intended, msg)
  PROVE  Abstract!Next
<1>1. Declared(program)' = Declared(program)
  BY DeclaredStable
<1>2. Abstract!Enter
  BY <1>1 DEF Abstract!Enter, Phase, Pending, Intended
<1> QED
  BY <1>2 DEF Abstract!Next

\* The endpoint speaks of arguments and absent handlers as the code does.
LEMMA SameTerms ==
  /\ NoHandler = Abstract!NoHandler
  /\ \A p, a : Abstract!BadArgs(p, a) <=> BadArgs(p, a)
BY DEF NoHandler, Handler, Abstract!NoHandler, Abstract!Handler, BadArgs, Abstract!BadArgs

\* Only the last module of the chain hoists its guard.
HoistsLast == \A k \in 1..(Len(program) - 1) : ~Hoisted(program[k])

\* Every step of the code is then a step of the endpoint, or none.
LEMMA StepRefines ==
  ASSUME HoistsLast, Inv, [Next]_vars
  PROVE  Abstract!Next \/ UNCHANGED Abstract!vars
<1>p. program \in Programs /\ msg \in Messages /\ at \in DOMAIN program
  BY ProgramShape DEF Inv, TypeOK
<1>1. ASSUME NEW m \in Messages, Deliver(m)
      PROVE  Abstract!Next
  <2>1. Declared(program)' = Declared(program)
    BY <1>1, DeclaredStable DEF Deliver
  <2>2. pc' \in {"deploy", "call"}
    BY <1>1 DEF Deliver, Goto, Messages
  <2>3. Abstract!Receive(m)
    BY <1>1, <2>1, <2>2 DEF Deliver, Goto, Abstract!Receive, Phase
  <2> QED
    BY <2>3 DEF Abstract!Next, Messages
<1>2. ASSUME DeployGuard
      PROVE  Abstract!Next \/ UNCHANGED Abstract!vars
  <2>1. Intended = ConstructorHandler
    BY <1>2, IntendedConstructor DEF DeployGuard, Inv, StepInv
  <2>2. CASE Refuse("non_payable")
    <3>1. Abstract!Justified("non_payable", Intended, msg)
      BY <1>2, <2>1, <2>2 DEF DeployGuard, Goto, Refuse, Abstract!Justified
    <3> QED
      BY <1>2, <2>2, <3>1, Refusing DEF DeployGuard, Refuse, Pending, Errors
  <2>3. CASE Goto("deploy_read")
    BY <1>2, <2>3, Checking DEF DeployGuard, Goto, Pending
  <2> QED
    BY <1>2, <2>2, <2>3 DEF DeployGuard
<1>3. ASSUME DeployRead
      PROVE  Abstract!Next \/ UNCHANGED Abstract!vars
  <2>1. CASE Refuse("calldata_too_large")
    <3>1. Abstract!Justified("calldata_too_large", Intended, msg)
      BY <1>3, <2>1 DEF DeployRead, Goto, Refuse, Abstract!Justified
    <3> QED
      BY <1>3, <2>1, <3>1, Refusing DEF DeployRead, Refuse, Pending, Errors
  <2>2. CASE Goto("decode")
    BY <1>3, <2>2, Checking DEF DeployRead, Goto, Pending
  <2> QED
    BY <1>3, <2>1, <2>2 DEF DeployRead
<1>4. ASSUME ReadCalldata
      PROVE  Abstract!Next \/ UNCHANGED Abstract!vars
  <2>1. CASE Refuse("calldata_too_large")
    <3>1. Abstract!Justified("calldata_too_large", Intended, msg)
      BY <1>4, <2>1 DEF ReadCalldata, Goto, Refuse, Abstract!Justified
    <3> QED
      BY <1>4, <2>1, <3>1, Refusing DEF ReadCalldata, Refuse, Pending, Errors
  <2>2. CASE Goto("body")
    <3>1. Intended = ReceiveHandler /\ entry' = ReceiveHandler
      BY <1>4, <2>2, <1>p, IntendedReceive DEF ReadCalldata, Goto, Refuse, Inv, StepInv
    <3>2. Abstract!Accepts(Intended, msg)
      BY <1>p, <3>1, HandlerTypes, SameTerms DEF Abstract!Accepts, BadArgs
    <3> QED
      BY <1>4, <2>2, <3>1, <3>2, Entering DEF ReadCalldata, Goto, Pending
  <2>3. CASE Goto("unhandled") \/ Goto("route")
    BY <1>4, <2>3, Checking DEF ReadCalldata, Goto, Pending
  <2> QED
    BY <1>4, <2>1, <2>2, <2>3 DEF ReadCalldata
<1>5. ASSUME Route
      PROVE  Abstract!Next \/ UNCHANGED Abstract!vars
  <2>1. CASE HoistedGuard /\ msg.value /\ Refuse("non_payable")
    <3>1. at = Len(program) /\ Len(program) \in Nat
      <4>1. at \in 1..Len(program) /\ Len(program) \in Nat
        BY <1>p, ProgramShape
      <4>2. at \notin 1..(Len(program) - 1)
        BY <2>1, <1>p DEF HoistedGuard, HoistsLast
      <4> QED
        BY <4>1, <4>2
    <3>2. ~Intended.payable
      <4>1. CASE Has(program[at], msg.selector)
        <5>1. Intended = MethodHandler(at, msg.selector)
          BY <4>1, <1>5, <1>p, IntendedMethod DEF Route, Inv, StepInv
        <5>2. msg.selector \in Selectors
          BY <1>p DEF Messages
        <5>3. program[at].method[msg.selector].mutability # "payable"
          BY <2>1, <5>2 DEF HoistedGuard, Hoisted
        <5> QED
          BY <5>1, <5>3 DEF MethodHandler, Handler
      <4>2. CASE ~Has(program[at], msg.selector)
        <5>1. \A j \in DOMAIN program : ~Has(program[j], msg.selector)
          <6>1. \A j \in DOMAIN program : j \in 1..(at - 1) \/ j = at
            BY <3>1, <1>p, ProgramShape
          <6> QED
            BY <6>1, <4>2, <1>5 DEF Route, Inv, StepInv, PassedOver
        <5>2. Intended = IF HasFallback THEN FallbackHandler ELSE NoHandler
          BY <5>1, <1>5, <1>p, IntendedFallback DEF Route, Inv, StepInv
        <5>3. HasFallback => Main.fallback # "payable"
          <6>1. HasFallback => at = 1
            BY <3>1, <1>p, ProgramShape DEF HasFallback, Composed
          <6> QED
            BY <6>1, <2>1 DEF HoistedGuard, Hoisted, Main
        <5> QED
          BY <5>2, <5>3 DEF FallbackHandler, NoHandler, Handler
      <4> QED
        BY <4>1, <4>2
    <3>3. Abstract!Justified("non_payable", Intended, msg)
      BY <2>1, <3>2 DEF Abstract!Justified
    <3> QED
      BY <1>5, <2>1, <3>3, Refusing DEF Route, Refuse, Pending, Errors
  <2>2. CASE Goto("arm") \/ Goto("route") \/ Goto("unhandled")
    BY <1>5, <2>2, Checking DEF Route, Goto, Pending
  <2> QED
    BY <1>5, <2>1, <2>2 DEF Route
<1>6. ASSUME ArmGuard
      PROVE  Abstract!Next \/ UNCHANGED Abstract!vars
  <2>1. entry = Intended
    BY <1>6, <1>p, IntendedMethod DEF ArmGuard, Inv, StepInv
  <2>2. CASE Refuse("non_payable")
    <3>1. Abstract!Justified("non_payable", Intended, msg)
      BY <1>6, <2>1, <2>2 DEF ArmGuard, Goto, Refuse, Abstract!Justified
    <3> QED
      BY <1>6, <2>2, <3>1, Refusing DEF ArmGuard, Refuse, Pending, Errors
  <2>3. CASE Goto("decode")
    BY <1>6, <2>3, Checking DEF ArmGuard, Goto, Pending
  <2> QED
    BY <1>6, <2>2, <2>3 DEF ArmGuard
<1>7. ASSUME Decode
      PROVE  Abstract!Next
  <2>1. entry = Intended /\ (msg.value => entry.payable) /\ entry # NoHandler
    BY <1>7 DEF Decode, Inv, TypeOK, StepInv
  <2>2. CASE BadArgs(entry.params, msg.args) /\ Refuse("invalid_calldata")
    <3>1. Abstract!Justified("invalid_calldata", Intended, msg)
      BY <2>1, <2>2, SameTerms DEF Abstract!Justified
    <3> QED
      BY <1>7, <2>2, <3>1, Refusing DEF Decode, Refuse, Pending, Errors
  <2>3. CASE ~BadArgs(entry.params, msg.args) /\ Goto("body") /\ UNCHANGED entry
    <3>1. Abstract!Accepts(Intended, msg)
      BY <2>1, <2>3, SameTerms DEF Abstract!Accepts
    <3> QED
      BY <1>7, <2>1, <2>3, <3>1, Entering DEF Decode, Goto, Pending
  <2> QED
    BY <1>7, <2>2, <2>3 DEF Decode
<1>8. ASSUME Unhandled
      PROVE  Abstract!Next
  <2>1. Intended = IF HasFallback THEN FallbackHandler ELSE NoHandler
    BY <1>8, <1>p, IntendedFallback DEF Unhandled, Inv, StepInv
  <2>2. CASE ~HasFallback /\
              Refuse(IF msg.size = "selector" THEN "unknown_selector" ELSE "no_selector")
    <3> DEFINE why == IF msg.size = "selector" THEN "unknown_selector" ELSE "no_selector"
    <3>1. Abstract!Justified(why, Intended, msg)
      BY <1>p, <2>1, <2>2, SameTerms DEF Abstract!Justified, Messages
    <3>2. why \in Errors
      BY DEF Errors
    <3>3. pc' = "idle" /\ answer' = why
      BY <2>2 DEF Refuse
    <3> HIDE DEF why
    <3> QED
      BY <1>8, <3>1, <3>2, <3>3, Refusing DEF Unhandled, Pending
  <2>3. CASE HasFallback /\ msg.value /\ ~FallbackHandler.payable /\ Refuse("non_payable")
    <3>1. Abstract!Justified("non_payable", Intended, msg)
      BY <2>1, <2>3 DEF Abstract!Justified
    <3> QED
      BY <1>8, <2>3, <3>1, Refusing DEF Unhandled, Refuse, Pending, Errors
  <2>4. CASE HasFallback /\ (msg.value => FallbackHandler.payable) /\ Goto("body")
             /\ entry' = FallbackHandler
    <3>1. Abstract!Accepts(Intended, msg)
      BY <1>p, <2>1, <2>4, HandlerTypes, SameTerms DEF Abstract!Accepts, BadArgs
    <3> QED
      BY <1>8, <2>1, <2>4, <3>1, Entering DEF Unhandled, Goto, Pending
  <2> QED
    BY <1>8, <2>2, <2>3, <2>4 DEF Unhandled
<1>9. ASSUME Body
      PROVE  Abstract!Next
  <2>1. Declared(program)' = Declared(program)
    BY <1>9, DeclaredStable DEF Body
  <2>2. Abstract!Finish
    BY <1>9, <2>1, SameTerms DEF Body, Abstract!Finish, Phase
  <2> QED
    BY <2>2 DEF Abstract!Next
<1>10. CASE UNCHANGED vars
  BY <1>10, DeclaredStable DEF vars, Abstract!vars, Phase
<1> QED
  BY <1>1, <1>2, <1>3, <1>4, <1>5, <1>6, <1>7, <1>8, <1>9, <1>10 DEF Next

\* #[contract] generates Solidity's dispatch: for every module, and for every
\* chain of modules none of which but the last hoists its value guard.
THEOREM MacroIsAnEndpoint ==
  ASSUME \A p \in Programs : \A k \in 1..(Len(p) - 1) : ~Hoisted(p[k])
  PROVE  Spec => IsAnEndpoint
<1>1. Init => Abstract!Init
  BY SameTerms DEF Init, Abstract!Init, Phase
<1>2. Inv /\ [Next]_vars => [Abstract!Next]_(Abstract!vars)
  BY StepRefines DEF HoistsLast, Inv, TypeOK
<1>3. Spec => Abstract!Spec
  BY <1>1, <1>2, InvAlways, PTL DEF Spec, Abstract!Spec
<1> QED
  BY <1>3 DEF IsAnEndpoint

-----------------------------------------------------------------------------
(* The builder                                                             *)

\* The handler a message of the builder is for.
DslIntended == Dsl!Abstract!Target(Dsl!Declared, dsl_msg)

\* The k-th registration is the first of its selector.
FirstOf(k) == \A j \in 1..(k - 1) : methods[j] # methods[k]

\* The table and its payability bits are what was asked for, and of equal
\* selectors there is a first one.
TableInv ==
  /\ Len(asked) = Len(methods)
  /\ \A k \in DOMAIN methods :
       /\ asked[k].selector = methods[k]
       /\ asked[k].payable <=> (k - 1) \in payable_bits
       /\ \E f \in 1..k : methods[f] = methods[k] /\ FirstOf(f)

\* What each step of the builder's dispatch may count on.
DslStepInv ==
  /\ dsl_pc = "deploy" => dsl_msg.to = "deploy"
  /\ dsl_pc \in {"call", "try_route", "default"} => dsl_msg.to = "call"
  /\ dsl_pc = "call" => i = 0
  /\ dsl_pc = "try_route" =>
       dsl_msg.size = "selector" /\ \A k \in 1..i : methods[k] # dsl_msg.selector
  /\ dsl_pc = "default" =>
       /\ dsl_msg.size = "empty" => ~dsl_receive
       /\ dsl_msg.size = "selector" => \A k \in DOMAIN methods : methods[k] # dsl_msg.selector
  /\ dsl_pc = "handler" => dsl_entry = DslIntended /\ Dsl!Abstract!Accepts(DslIntended, dsl_msg)

DslInv == DslTypeOK /\ TableInv /\ DslStepInv

LEMMA TableShape ==
  ASSUME DslTypeOK, TableInv
  PROVE  /\ Len(methods) \in Nat /\ DOMAIN methods = 1..Len(methods)
         /\ DOMAIN asked = 1..Len(methods)
         /\ \A k \in 1..Len(methods) : methods[k] \in Selectors /\ asked[k].payable \in BOOLEAN
<1>1. /\ asked \in Seq([selector : Selectors, payable : BOOLEAN])
      /\ methods \in Seq(Selectors)
  BY DEF DslTypeOK, Dsl!TypeOK
<1>2. \A k \in 1..Len(asked) : asked[k] \in [selector : Selectors, payable : BOOLEAN]
  BY <1>1, ElementOfSeq
<1> QED
  BY <1>1, <1>2, LenProperties, ElementOfSeq DEF TableInv

\* Of the calls with a selector there is one first.
LEMMA FirstChosen ==
  ASSUME NEW a \in Seq([selector : Selectors, payable : BOOLEAN]), NEW s,
         NEW k \in DOMAIN a, a[k].selector = s, \A j \in 1..(k - 1) : a[j].selector # s
  PROVE  k = CHOOSE f \in DOMAIN a : a[f].selector = s /\ \A j \in 1..(f - 1) : a[j].selector # s
<1> DEFINE First(f) == a[f].selector = s /\ \A j \in 1..(f - 1) : a[j].selector # s
<1>1. First(k) /\ DOMAIN a = 1..Len(a) /\ Len(a) \in Nat
  BY LenProperties
<1>2. \A f \in DOMAIN a : First(f) => f = k
  <2> SUFFICES ASSUME NEW f \in DOMAIN a, First(f) PROVE f = k
    OBVIOUS
  <2>1. f \in Nat /\ k \in Nat /\ f >= 1 /\ k >= 1
    BY <1>1
  <2>2. ~(f < k) /\ ~(k < f)
    BY <1>1, <2>1
  <2> QED BY <2>1, <2>2
<1> HIDE DEF First
<1>3. k = CHOOSE f \in DOMAIN a : First(f)
  BY <1>1, <1>2
<1> QED
  BY <1>3 DEF First

\* The first registration of a selector is its handler.
LEMMA DeclaredFirst ==
  ASSUME DslTypeOK, TableInv, NEW k \in DOMAIN methods, FirstOf(k)
  PROVE  /\ Dsl!Declared.method[methods[k]] = Dsl!Handler("method", k, asked[k].payable)
         /\ asked[k].payable = ((k - 1) \in payable_bits)
<1>1. PICK s : s = methods[k]
  OBVIOUS
<1>2. /\ asked \in Seq([selector : Selectors, payable : BOOLEAN])
      /\ DOMAIN methods = 1..Len(methods) /\ Len(methods) \in Nat
      /\ DOMAIN asked = 1..Len(methods) /\ s \in Selectors /\ asked[k].payable \in BOOLEAN
      /\ \A f \in 1..Len(methods) : asked[f].selector = methods[f]
  BY <1>1, TableShape DEF TableInv, DslTypeOK, Dsl!TypeOK
<1>3. asked[k].selector = s /\ \A j \in 1..(k - 1) : asked[j].selector # s
  BY <1>1, <1>2 DEF FirstOf
<1>4. k = CHOOSE f \in DOMAIN asked :
            asked[f].selector = s /\ \A j \in 1..(f - 1) : asked[j].selector # s
  BY <1>2, <1>3, FirstChosen
<1>5. Dsl!Declared.method[s] = Dsl!Handler("method", k, asked[k].payable)
  BY <1>2, <1>3, <1>4 DEF Dsl!Declared
<1> QED
  BY <1>1, <1>2, <1>5 DEF TableInv

\* A selector nobody registered has none.
LEMMA DeclaredNone ==
  ASSUME DslTypeOK, TableInv, NEW s \in Selectors, \A k \in DOMAIN methods : methods[k] # s
  PROVE  Dsl!Declared.method[s] = Dsl!NoHandler
<1>1. \A k \in DOMAIN asked : asked[k].selector # s
  BY TableShape DEF TableInv
<1> QED
  BY <1>1 DEF Dsl!Declared

LEMMA DslTerms ==
  /\ Dsl!NoHandler = Dsl!Abstract!NoHandler
  /\ \A k, o, p : /\ Dsl!Handler(k, o, p).kind = k
                  /\ Dsl!Handler(k, o, p).payable = p
                  /\ Dsl!Handler(k, o, p).params = "none"
                  /\ (k # "none" => Dsl!Handler(k, o, p) # Dsl!NoHandler)
  /\ \A h, m : h.params = "none" => ~Dsl!Abstract!BadArgs(h.params, m.args)
  /\ \A m \in Dsl!Messages : m.selector \in Selectors /\ m.to \in {"deploy", "call"}
                             /\ m.size \in {"empty", "stub", "selector"}
  /\ Dsl!Abstract!BadArgs("none", "good") = FALSE
BY DEF Dsl!NoHandler, Dsl!Abstract!NoHandler, Dsl!Handler, Dsl!Abstract!Handler,
       Dsl!Abstract!BadArgs, Dsl!Messages

\* Only the table, the two special handlers and the message decide.
LEMMA DslIntendedStable ==
  ASSUME UNCHANGED <<asked, dsl_fallback, dsl_receive>>
  PROVE  /\ Dsl!Declared' = Dsl!Declared
         /\ dsl_msg' = dsl_msg => DslIntended' = DslIntended
<1>1. Dsl!Declared' = Dsl!Declared
  BY DEF Dsl!Declared, Dsl!Handler, Dsl!NoHandler, Dsl!ReceiveHandler, Dsl!FallbackHandler
<1> QED
  BY <1>1 DEF DslIntended, Dsl!Abstract!Target, Dsl!Abstract!NoHandler, Dsl!Abstract!Handler

\* A registration keeps the table in order, and no handler a method had.
LEMMA RegistrationKeeps ==
  ASSUME DslTypeOK, TableInv, NEW s \in Selectors, NEW p \in BOOLEAN, ~Dsl!Full,
         methods' = Append(methods, s),
         asked' = Append(asked, [selector |-> s, payable |-> p]),
         payable_bits' = IF p THEN payable_bits \union {Len(methods)} ELSE payable_bits
  PROVE  /\ asked' \in Seq([selector : Selectors, payable : BOOLEAN])
         /\ methods' \in Seq(Selectors) /\ Len(methods') = Len(methods) + 1
         /\ Len(methods') <= MaxMethods
         /\ payable_bits' \subseteq 0..(Len(methods') - 1)
         /\ TableInv'
<1>0. PICK n : n = Len(methods)
  OBVIOUS
<1> DEFINE r == [selector |-> s, payable |-> p]
<1>1. /\ n \in Nat /\ DOMAIN methods = 1..n /\ DOMAIN asked = 1..n /\ Len(asked) = n
      /\ asked \in Seq([selector : Selectors, payable : BOOLEAN])
      /\ methods \in Seq(Selectors)
      /\ payable_bits \subseteq 0..(n - 1)
  BY <1>0, TableShape DEF DslTypeOK, Dsl!TypeOK, TableInv
<1>2. r \in [selector : Selectors, payable : BOOLEAN] /\ r.selector = s /\ r.payable = p
  OBVIOUS
<1>3. n + 1 <= MaxMethods
  BY <1>0, <1>1, BuilderAssumption DEF Dsl!Full
<1> HIDE DEF r
<1>4. asked' = Append(asked, r)
  BY DEF r
<1>5. /\ asked' \in Seq([selector : Selectors, payable : BOOLEAN])
      /\ Len(asked') = n + 1 /\ asked'[n + 1] = r
      /\ \A k \in 1..n : asked'[k] = asked[k]
  BY <1>0, <1>1, <1>2, <1>4, AppendProperties
<1>6. /\ methods' \in Seq(Selectors)
      /\ Len(methods') = n + 1 /\ methods'[n + 1] = s
      /\ \A k \in 1..n : methods'[k] = methods[k]
  BY <1>0, <1>1, AppendProperties
<1>7. DOMAIN methods' = 1..(n + 1)
  BY <1>1, <1>6, LenProperties
<1>8. payable_bits' \subseteq 0..((n + 1) - 1)
  <2> SUFFICES ASSUME NEW b \in payable_bits' PROVE b \in 0..((n + 1) - 1)
    OBVIOUS
  <2>1. b \in 0..(n - 1) \/ b = n
    BY <1>0, <1>1
  <2> QED BY <1>1, <2>1
<1>9. ASSUME NEW k \in 1..n
      PROVE  /\ asked'[k].selector = methods'[k]
             /\ asked'[k].payable <=> (k - 1) \in payable_bits'
             /\ \E f \in 1..k : methods'[f] = methods'[k] /\ FirstOf(f)'
  <2>1. /\ asked[k].selector = methods[k]
        /\ asked[k].payable <=> (k - 1) \in payable_bits
    BY <1>1 DEF TableInv
  <2>2. k - 1 # n
    BY <1>1
  <2>3. PICK f \in 1..k : methods[f] = methods[k] /\ FirstOf(f)
    BY <1>1 DEF TableInv
  <2>4. FirstOf(f)'
    BY <1>1, <1>6, <2>3 DEF FirstOf
  <2>5. methods'[f] = methods'[k]
    BY <1>1, <1>6, <2>3
  <2> QED
    BY <1>0, <1>5, <1>6, <2>1, <2>2, <2>3, <2>4, <2>5
<1>10. /\ asked'[n + 1].selector = methods'[n + 1]
       /\ asked'[n + 1].payable <=> ((n + 1) - 1) \in payable_bits'
       /\ \E f \in 1..(n + 1) : methods'[f] = methods'[n + 1] /\ FirstOf(f)'
  <2>1. asked'[n + 1].payable <=> n \in payable_bits'
    BY <1>0, <1>1, <1>2, <1>5
  <2>2. \E f \in 1..(n + 1) : methods'[f] = methods'[n + 1] /\ FirstOf(f)'
    <3>1. CASE \E k \in 1..n : methods[k] = s
      <4>1. PICK k \in 1..n : methods[k] = s
        BY <3>1
      <4>2. PICK f \in 1..k : methods'[f] = methods'[k] /\ FirstOf(f)'
        BY <1>9
      <4> QED BY <1>1, <1>6, <4>1, <4>2
    <3>2. CASE \A k \in 1..n : methods[k] # s
      <4>1. FirstOf(n + 1)'
        BY <1>1, <1>6, <3>2 DEF FirstOf
      <4> QED BY <1>1, <4>1
    <3> QED BY <3>1, <3>2
  <2>3. (n + 1) - 1 = n
    BY <1>1
  <2> QED
    BY <1>2, <1>5, <1>6, <2>1, <2>2, <2>3
<1>11. TableInv'
  <2>1. \A k \in 1..(n + 1) : k \in 1..n \/ k = n + 1
    BY <1>1
  <2> QED
    BY <1>5, <1>6, <1>7, <1>9, <1>10, <2>1 DEF TableInv
<1> QED
  BY <1>0, <1>3, <1>5, <1>6, <1>8, <1>11

\* The calls made on the builder after another one.
Registers(s, p) ==
  /\ dsl_pc = "idle"
  /\ ~Dsl!Full
  /\ methods' = Append(methods, s)
  /\ asked' = Append(asked, [selector |-> s, payable |-> p])
  /\ payable_bits' = IF p THEN payable_bits \union {Len(methods)} ELSE payable_bits
  /\ UNCHANGED <<dsl_fallback, dsl_receive, dsl_pc, dsl_msg, dsl_entry, dsl_answer, i>>

LEMMA MethodsKept ==
  ASSUME DslTypeOK, TableInv, NEW s \in Selectors, NEW p \in BOOLEAN, Registers(s, p)
  PROVE  \A t \in Selectors : Dsl!Declared.method[t] # Dsl!NoHandler =>
           Dsl!Declared'.method[t] = Dsl!Declared.method[t]
<1> SUFFICES ASSUME NEW t \in Selectors, Dsl!Declared.method[t] # Dsl!NoHandler
             PROVE  Dsl!Declared'.method[t] = Dsl!Declared.method[t]
  OBVIOUS
<1>1. PICK n : n = Len(methods)
  OBVIOUS
<1>2. /\ n \in Nat /\ DOMAIN methods = 1..n /\ DOMAIN asked = 1..n /\ Len(asked) = n
      /\ asked \in Seq([selector : Selectors, payable : BOOLEAN])
      /\ \A f \in 1..n : asked[f].selector = methods[f]
  BY <1>1, TableShape DEF TableInv, DslTypeOK, Dsl!TypeOK
<1>3. PICK k \in DOMAIN methods : methods[k] = t
  BY DeclaredNone
<1>4. PICK f \in 1..k : methods[f] = t /\ FirstOf(f)
  BY <1>3 DEF TableInv
<1>5. f \in 1..n
  BY <1>2, <1>3
<1>6. Dsl!Declared.method[t] = Dsl!Handler("method", f, asked[f].payable)
  BY <1>2, <1>4, <1>5, DeclaredFirst
<1>7. PICK r : r = [selector |-> s, payable |-> p]
  OBVIOUS
<1>8. r \in [selector : Selectors, payable : BOOLEAN]
  BY <1>7
<1>9. asked' = Append(asked, r)
  BY <1>7 DEF Registers
<1>10. /\ asked' \in Seq([selector : Selectors, payable : BOOLEAN])
       /\ DOMAIN asked' = 1..(n + 1)
       /\ \A j \in 1..n : asked'[j] = asked[j]
  <2>1. /\ asked' \in Seq([selector : Selectors, payable : BOOLEAN])
        /\ Len(asked') = n + 1 /\ \A j \in 1..n : asked'[j] = asked[j]
    BY <1>2, <1>8, <1>9, AppendProperties
  <2> QED BY <2>1, LenProperties
<1>11. /\ f \in DOMAIN asked' /\ asked'[f].selector = t
       /\ \A j \in 1..(f - 1) : asked'[j].selector # t
  BY <1>2, <1>4, <1>5, <1>10 DEF FirstOf
<1>12. f = CHOOSE g \in DOMAIN asked' :
             asked'[g].selector = t /\ \A j \in 1..(g - 1) : asked'[j].selector # t
  BY <1>10, <1>11, FirstChosen
<1>13. Dsl!Declared'.method[t] = Dsl!Handler("method", f, asked'[f].payable)
  BY <1>11, <1>12 DEF Dsl!Declared, Dsl!Handler
<1> QED
  BY <1>5, <1>6, <1>10, <1>13

LEMMA DslInitInv == Dsl!Init => DslInv
<1> SUFFICES ASSUME Dsl!Init PROVE DslInv
  OBVIOUS
<1>1. Len(methods) = 0 /\ DOMAIN methods = {}
  BY DEF Dsl!Init
<1>2. DslTypeOK
  <2>1. /\ asked \in Seq([selector : Selectors, payable : BOOLEAN])
        /\ methods \in Seq(Selectors)
    BY EmptySeq DEF Dsl!Init
  <2>2. Len(methods) <= MaxMethods
    BY <1>1, BuilderAssumption
  <2>3. dsl_msg \in Dsl!Messages /\ payable_bits = {} /\ i = 0
    BY DEF Dsl!Init
  <2>4. dsl_fallback \in Dsl!Payability /\ dsl_receive \in BOOLEAN /\ dsl_pc = "idle"
    BY DEF Dsl!Init, Dsl!Payability
  <2> QED
    BY <1>1, <2>1, <2>2, <2>3, <2>4 DEF DslTypeOK, Dsl!TypeOK
<1>3. TableInv /\ DslStepInv
  BY <1>1 DEF Dsl!Init, TableInv, DslStepInv
<1> QED
  BY <1>2, <1>3 DEF DslInv

LEMMA RegistersIs ==
  ASSUME NEW s \in Selectors, Dsl!Method(s) \/ Dsl!PayableMethod(s)
  PROVE  \E p \in BOOLEAN : Registers(s, p)
<1>1. CASE Dsl!Method(s)
  <2>1. Registers(s, FALSE)
    BY <1>1 DEF Dsl!Method, Registers
  <2> QED BY <2>1
<1>2. CASE Dsl!PayableMethod(s)
  <2>1. Registers(s, TRUE)
    BY <1>2 DEF Dsl!PayableMethod, Registers
  <2> QED BY <2>1
<1> QED BY <1>1, <1>2

\* Who the message is for, where the builder decides.
LEMMA DslIntendedIs ==
  ASSUME DslInv
  PROVE  /\ dsl_msg.to = "deploy" => DslIntended = Dsl!Handler("constructor", 1, FALSE)
         /\ dsl_msg.to = "call" /\ dsl_msg.size = "empty" /\ dsl_receive =>
              DslIntended = Dsl!ReceiveHandler
         /\ \A k \in DOMAIN methods :
              /\ dsl_msg.to = "call" /\ dsl_msg.size = "selector"
              /\ methods[k] = dsl_msg.selector /\ FirstOf(k)
              => DslIntended = Dsl!Handler("method", k, (k - 1) \in payable_bits)
         /\ /\ dsl_msg.to = "call" /\ (dsl_msg.size = "empty" => ~dsl_receive)
            /\ dsl_msg.size = "selector" => \A k \in DOMAIN methods : methods[k] # dsl_msg.selector
            => DslIntended = IF dsl_fallback # "absent" THEN Dsl!FallbackHandler ELSE Dsl!NoHandler
<1> DEFINE D == Dsl!Declared
<1>1. /\ D.constructor = Dsl!Handler("constructor", 1, FALSE)
      /\ D.receive = IF dsl_receive THEN Dsl!ReceiveHandler ELSE Dsl!NoHandler
      /\ D.fallback = IF dsl_fallback # "absent" THEN Dsl!FallbackHandler ELSE Dsl!NoHandler
  BY DEF Dsl!Declared
<1>2. Dsl!ReceiveHandler # Dsl!NoHandler /\ Dsl!NoHandler = Dsl!Abstract!NoHandler
  BY DslTerms DEF Dsl!ReceiveHandler, Dsl!Handler, Dsl!NoHandler
<1>3. dsl_msg.selector \in Selectors /\ DslTypeOK /\ TableInv
  BY DslTerms DEF DslInv, DslTypeOK, Dsl!TypeOK
<1>4. ASSUME NEW k \in DOMAIN methods, methods[k] = dsl_msg.selector, FirstOf(k)
      PROVE  /\ D.method[dsl_msg.selector] = Dsl!Handler("method", k, (k - 1) \in payable_bits)
             /\ D.method[dsl_msg.selector] # Dsl!NoHandler
  BY <1>3, <1>4, DeclaredFirst, DslTerms
<1>5. (\A k \in DOMAIN methods : methods[k] # dsl_msg.selector) =>
        D.method[dsl_msg.selector] = Dsl!NoHandler
  BY <1>3, DeclaredNone
<1> HIDE DEF D
<1>6. DslIntended = Dsl!Abstract!Target(D, dsl_msg)
  BY DEF D, DslIntended
<1>7. dsl_msg.to = "deploy" => DslIntended = Dsl!Handler("constructor", 1, FALSE)
  BY <1>1, <1>6 DEF Dsl!Abstract!Target
<1>8. dsl_msg.to = "call" /\ dsl_msg.size = "empty" /\ dsl_receive =>
        DslIntended = Dsl!ReceiveHandler
  BY <1>1, <1>2, <1>6 DEF Dsl!Abstract!Target
<1>9. ASSUME NEW k \in DOMAIN methods, dsl_msg.to = "call", dsl_msg.size = "selector",
             methods[k] = dsl_msg.selector, FirstOf(k)
      PROVE  DslIntended = Dsl!Handler("method", k, (k - 1) \in payable_bits)
  BY <1>2, <1>4, <1>6, <1>9 DEF Dsl!Abstract!Target
<1>10. ASSUME dsl_msg.to = "call", dsl_msg.size = "empty" => ~dsl_receive,
              dsl_msg.size = "selector" => \A k \in DOMAIN methods : methods[k] # dsl_msg.selector
       PROVE  DslIntended = D.fallback
  BY <1>1, <1>2, <1>5, <1>6, <1>10 DEF Dsl!Abstract!Target
<1> QED
  BY <1>1, <1>7, <1>8, <1>9, <1>10

\* Where the loop matches, the registration is the first.
LEMMA LoopFinds ==
  ASSUME DslInv, dsl_pc = "try_route", i < Len(methods), methods[i + 1] = dsl_msg.selector
  PROVE  /\ i + 1 \in DOMAIN methods
         /\ DslIntended = Dsl!Handler("method", i + 1, Dsl!PayableBit(i))
<1>1. PICK k : k = i + 1
  OBVIOUS
<1>2. i \in Nat /\ k \in DOMAIN methods /\ 1..(k - 1) = 1..i /\ k - 1 = i
  BY <1>1, TableShape DEF DslInv, DslTypeOK, Dsl!TypeOK
<1>3. methods[k] = dsl_msg.selector /\ FirstOf(k)
  BY <1>1, <1>2 DEF FirstOf, DslInv, DslStepInv
<1>4. dsl_msg.to = "call" /\ dsl_msg.size = "selector"
  BY DEF DslInv, DslStepInv
<1>5. DslIntended = Dsl!Handler("method", k, (k - 1) \in payable_bits)
  BY <1>2, <1>3, <1>4, DslIntendedIs
<1> QED
  BY <1>1, <1>2, <1>5 DEF Dsl!PayableBit

DslVars == <<asked, methods, payable_bits, dsl_fallback, dsl_receive, dsl_pc, dsl_msg, dsl_entry,
             dsl_answer, i>>

\* The builder's dispatch goes on: what it was for stays.
LEMMA DslServes ==
  ASSUME DslInv, UNCHANGED <<asked, methods, payable_bits, dsl_fallback, dsl_receive, dsl_msg>>
  PROVE  TableInv' /\ DslIntended' = DslIntended /\ Dsl!Declared' = Dsl!Declared
<1>1. TableInv'
  BY DEF TableInv, FirstOf, DslInv
<1> QED
  BY <1>1, DslIntendedStable

LEMMA DslStepKeepsInv == DslInv /\ [Dsl!Next]_DslVars => DslInv'
<1> SUFFICES ASSUME DslInv, [Dsl!Next]_DslVars PROVE DslInv'
  OBVIOUS
<1>t. /\ asked \in Seq([selector : Selectors, payable : BOOLEAN])
      /\ methods \in Seq(Selectors) /\ Len(methods) <= MaxMethods
      /\ payable_bits \subseteq 0..(Len(methods) - 1)
      /\ dsl_fallback \in Dsl!Payability /\ dsl_receive \in BOOLEAN
      /\ dsl_pc \in {"idle", "panicked", "deploy", "call", "try_route", "default", "handler"}
      /\ dsl_msg \in Dsl!Messages
      /\ i \in 0..Len(methods) /\ Len(methods) \in Nat
      /\ DslTypeOK /\ TableInv
  BY TableShape DEF DslInv, DslTypeOK, Dsl!TypeOK
<1>s. ASSUME UNCHANGED <<asked, methods, payable_bits, dsl_fallback, dsl_receive, dsl_msg>>,
             dsl_pc' \in {"idle", "panicked", "deploy", "call", "try_route", "default", "handler"},
             i' \in 0..Len(methods), DslStepInv'
      PROVE  DslInv'
  BY <1>s, <1>t, DslServes DEF DslInv, DslTypeOK, Dsl!TypeOK
<1>1. ASSUME NEW s \in Selectors, Dsl!Method(s) \/ Dsl!PayableMethod(s)
      PROVE  DslInv'
  <2>1. PICK p \in BOOLEAN : Registers(s, p)
    BY <1>1, RegistersIs
  <2>2. /\ asked' \in Seq([selector : Selectors, payable : BOOLEAN])
        /\ methods' \in Seq(Selectors) /\ Len(methods') = Len(methods) + 1
        /\ Len(methods') <= MaxMethods
        /\ payable_bits' \subseteq 0..(Len(methods') - 1)
        /\ TableInv'
    BY <1>t, <2>1, RegistrationKeeps DEF Registers
  <2>3. i \in 0..Len(methods')
    BY <1>t, <2>2
  <2>4. DslTypeOK'
    BY <1>t, <2>1, <2>2, <2>3 DEF Registers, DslTypeOK, Dsl!TypeOK
  <2>5. DslStepInv'
    BY <2>1 DEF Registers, DslStepInv
  <2> QED BY <2>2, <2>4, <2>5 DEF DslInv
<1>2. ASSUME Dsl!TooManyMethods
      PROVE  DslInv'
  <2>1. DslStepInv'
    BY <1>2 DEF Dsl!TooManyMethods, DslStepInv
  <2> QED BY <1>2, <1>s, <1>t, <2>1 DEF Dsl!TooManyMethods, Dsl!builder
<1>3. ASSUME NEW p \in {"payable", "nonpayable"}, Dsl!Fallback(p)
      PROVE  DslInv'
  <2>1. DslTypeOK' /\ TableInv'
    BY <1>3, <1>t DEF Dsl!Fallback, DslTypeOK, Dsl!TypeOK, Dsl!Payability, TableInv, FirstOf
  <2>2. DslStepInv'
    BY <1>3 DEF Dsl!Fallback, DslStepInv
  <2> QED BY <2>1, <2>2 DEF DslInv
<1>4. ASSUME Dsl!Receive
      PROVE  DslInv'
  <2>1. DslTypeOK' /\ TableInv'
    BY <1>4, <1>t DEF Dsl!Receive, DslTypeOK, Dsl!TypeOK, TableInv, FirstOf
  <2>2. DslStepInv'
    BY <1>4 DEF Dsl!Receive, DslStepInv
  <2> QED BY <2>1, <2>2 DEF DslInv
<1>5. ASSUME NEW m \in Dsl!Messages, Dsl!Deliver(m)
      PROVE  DslInv'
  <2>1. m.to \in {"deploy", "call"}
    BY DslTerms
  <2>2. DslTypeOK' /\ TableInv'
    BY <1>5, <1>t, <2>1
       DEF Dsl!Deliver, Dsl!Goto, Dsl!builder, DslTypeOK, Dsl!TypeOK, TableInv, FirstOf
  <2>3. DslStepInv'
    BY <1>5, <2>1 DEF Dsl!Deliver, Dsl!Goto, DslStepInv
  <2> QED BY <2>2, <2>3 DEF DslInv
<1>6. ASSUME Dsl!Deploy
      PROVE  DslInv'
  <2>1. UNCHANGED <<asked, methods, payable_bits, dsl_fallback, dsl_receive, dsl_msg, i>>
        /\ dsl_pc' \in {"idle", "handler"}
    BY <1>6 DEF Dsl!Deploy, Dsl!Goto, Dsl!Refuse, Dsl!builder
  <2>2. dsl_pc' = "handler" =>
          /\ dsl_entry' = DslIntended /\ DslIntended.params = "none"
          /\ DslIntended # Dsl!NoHandler /\ ~dsl_msg.value
    <3>1. dsl_msg.to = "deploy"
      BY <1>6 DEF Dsl!Deploy, DslInv, DslStepInv
    <3>2. DslIntended = Dsl!Handler("constructor", 1, FALSE)
      BY <3>1, DslIntendedIs
    <3> QED
      BY <1>6, <3>2 DEF Dsl!Deploy, Dsl!Goto, Dsl!Refuse, Dsl!Handler, Dsl!NoHandler
  <2>3. DslStepInv'
    BY <2>1, <2>2, DslServes, DslTerms DEF DslStepInv, Dsl!Abstract!Accepts
  <2> QED BY <1>s, <1>t, <2>1, <2>3
<1>7. ASSUME Dsl!ReadCalldata
      PROVE  DslInv'
  <2>1. UNCHANGED <<asked, methods, payable_bits, dsl_fallback, dsl_receive, dsl_msg, i>>
        /\ dsl_pc' \in {"idle", "handler", "try_route", "default"}
    BY <1>7 DEF Dsl!ReadCalldata, Dsl!Goto, Dsl!Refuse, Dsl!builder
  <2>2. dsl_pc' = "handler" =>
          /\ dsl_entry' = DslIntended /\ DslIntended.params = "none"
          /\ DslIntended # Dsl!NoHandler /\ DslIntended.payable
    <3> SUFFICES ASSUME dsl_pc' = "handler"
                 PROVE  /\ dsl_entry' = DslIntended /\ DslIntended.params = "none"
                        /\ DslIntended # Dsl!NoHandler /\ DslIntended.payable
      OBVIOUS
    <3>1. dsl_msg.to = "call"
      BY <1>7 DEF Dsl!ReadCalldata, DslInv, DslStepInv
    <3>2. dsl_msg.size = "empty" /\ dsl_receive /\ dsl_entry' = Dsl!ReceiveHandler
      BY <1>7 DEF Dsl!ReadCalldata, Dsl!Goto, Dsl!Refuse
    <3>3. DslIntended = Dsl!ReceiveHandler
      BY <3>1, <3>2, DslIntendedIs
    <3> QED
      BY <3>2, <3>3 DEF Dsl!Handler, Dsl!NoHandler, Dsl!ReceiveHandler
  <2>3. dsl_msg.to = "call"
    BY <1>7 DEF Dsl!ReadCalldata, DslInv, DslStepInv
  <2>4. /\ dsl_pc' = "try_route" => dsl_msg.size = "selector" /\ i' = 0
        /\ dsl_pc' = "default" =>
             /\ dsl_msg.size = "empty" => ~dsl_receive
             /\ dsl_msg.size # "selector"
    BY <1>7 DEF Dsl!ReadCalldata, Dsl!Goto, Dsl!Refuse, DslInv, DslStepInv
  <2>5. DslStepInv'
    BY <2>1, <2>2, <2>3, <2>4, DslServes, DslTerms DEF DslStepInv, Dsl!Abstract!Accepts
  <2> QED BY <1>s, <1>t, <2>1, <2>5
<1>8. ASSUME Dsl!TryRoute
      PROVE  DslInv'
  <2>1. UNCHANGED <<asked, methods, payable_bits, dsl_fallback, dsl_receive, dsl_msg>>
        /\ dsl_pc' \in {"idle", "handler", "try_route", "default"} /\ i' \in 0..Len(methods)
    BY <1>8, <1>t DEF Dsl!TryRoute, Dsl!Goto, Dsl!Refuse, Dsl!builder
  <2>2. dsl_pc' = "handler" =>
          /\ dsl_entry' = DslIntended /\ DslIntended.params = "none"
          /\ DslIntended # Dsl!NoHandler /\ (dsl_msg.value => DslIntended.payable)
    BY <1>8, LoopFinds DEF Dsl!TryRoute, Dsl!Goto, Dsl!Refuse, Dsl!Handler, Dsl!NoHandler
  <2>3. CASE dsl_pc' = "try_route"
    <3>1. i' = i + 1 /\ methods[i + 1] # dsl_msg.selector
      BY <1>8, <2>3 DEF Dsl!TryRoute, Dsl!Goto, Dsl!Refuse
    <3>2. \A k \in 1..(i + 1) : k \in 1..i \/ k = i + 1
      BY <1>t
    <3>3. DslStepInv'
      BY <1>8, <2>1, <2>3, <3>1, <3>2 DEF DslStepInv, DslInv, Dsl!TryRoute
    <3> QED BY <1>s, <1>t, <2>1, <3>3
  <2>4. CASE dsl_pc' = "default"
    <3>1. i >= Len(methods)
      BY <1>8, <2>4 DEF Dsl!TryRoute, Dsl!Goto, Dsl!Refuse
    <3>2. i = Len(methods)
      BY <1>t, <3>1
    <3>3. DOMAIN methods = 1..i
      BY <1>t, <3>2, TableShape
    <3>4. DslStepInv'
      BY <1>8, <2>1, <2>4, <3>3 DEF DslStepInv, DslInv, Dsl!TryRoute
    <3> QED BY <1>s, <1>t, <2>1, <3>4
  <2>5. CASE dsl_pc' \in {"idle", "handler"}
    <3>1. DslStepInv'
      BY <2>1, <2>2, <2>5, DslServes, DslTerms DEF DslStepInv, Dsl!Abstract!Accepts
    <3> QED BY <1>s, <1>t, <2>1, <3>1
  <2> QED BY <2>1, <2>3, <2>4, <2>5
<1>9. ASSUME Dsl!Default
      PROVE  DslInv'
  <2>1. UNCHANGED <<asked, methods, payable_bits, dsl_fallback, dsl_receive, dsl_msg, i>>
        /\ dsl_pc' \in {"idle", "handler"}
    BY <1>9 DEF Dsl!Default, Dsl!Goto, Dsl!Refuse, Dsl!builder
  <2>2. DslIntended = IF dsl_fallback # "absent" THEN Dsl!FallbackHandler ELSE Dsl!NoHandler
    BY <1>9, DslIntendedIs DEF Dsl!Default, DslInv, DslStepInv
  <2>3. dsl_pc' = "handler" =>
          /\ dsl_entry' = DslIntended /\ DslIntended.params = "none"
          /\ DslIntended # Dsl!NoHandler /\ (dsl_msg.value => DslIntended.payable)
    BY <1>9, <2>2
       DEF Dsl!Default, Dsl!Goto, Dsl!Refuse, Dsl!Handler, Dsl!NoHandler, Dsl!FallbackHandler
  <2>4. DslStepInv'
    BY <2>1, <2>3, DslServes, DslTerms DEF DslStepInv, Dsl!Abstract!Accepts
  <2> QED BY <1>s, <1>t, <2>1, <2>4
<1>10. ASSUME Dsl!Finalize
       PROVE  DslInv'
  <2>1. DslStepInv'
    BY <1>10 DEF Dsl!Finalize, DslStepInv
  <2> QED BY <1>10, <1>s, <1>t, <2>1 DEF Dsl!Finalize, Dsl!builder
<1>11. CASE UNCHANGED DslVars
  <2>1. DslStepInv'
    BY <1>11, DslServes DEF DslVars, DslStepInv, DslInv, Dsl!Abstract!Accepts, Dsl!Abstract!NoHandler,
         Dsl!Abstract!Handler, Dsl!Abstract!BadArgs
  <2> QED BY <1>11, <1>s, <1>t, <2>1 DEF DslVars
<1> QED
  BY <1>1, <1>2, <1>3, <1>4, <1>5, <1>6, <1>7, <1>8, <1>9, <1>10, <1>11 DEF Dsl!Next

LEMMA DslInitRefines == Dsl!Init => Dsl!Abstract!Init
BY DslTerms DEF Dsl!Init, Dsl!Abstract!Init

\* A refusal is one of the endpoint when its reason holds.
LEMMA DslRefusing ==
  ASSUME DslInv, dsl_pc \notin {"idle", "panicked", "handler"}, NEW why \in Errors, Dsl!Refuse(why),
         UNCHANGED <<asked, dsl_fallback, dsl_receive, dsl_msg, dsl_entry>>,
         Dsl!Abstract!Justified(why, DslIntended, dsl_msg)
  PROVE  Dsl!Abstract!Next
<1>1. Dsl!Declared' = Dsl!Declared
  BY DslIntendedStable
<1>2. Dsl!Abstract!Refuse(why)
  BY <1>1 DEF Dsl!Abstract!Refuse, Dsl!Refuse, DslIntended
<1> QED
  BY <1>2 DEF Dsl!Abstract!Next, Errors

\* The handler gets the message: the invariant says it is the right one.
LEMMA DslEntering ==
  ASSUME DslInv, DslInv', dsl_pc \notin {"idle", "panicked", "handler"}, Dsl!Goto("handler"),
         UNCHANGED <<asked, methods, payable_bits, dsl_fallback, dsl_receive, dsl_msg>>
  PROVE  Dsl!Abstract!Next
<1>1. Dsl!Declared' = Dsl!Declared /\ DslIntended' = DslIntended
  BY DslServes
<1>2. dsl_entry' = DslIntended' /\ Dsl!Abstract!Accepts(DslIntended, dsl_msg)'
  BY DEF DslInv, DslStepInv, Dsl!Goto
<1>3. Dsl!Abstract!Accepts(DslIntended, dsl_msg)
  BY <1>1, <1>2 DEF Dsl!Abstract!Accepts, Dsl!Abstract!NoHandler, Dsl!Abstract!Handler,
     Dsl!Abstract!BadArgs
<1>4. Dsl!Abstract!Enter
  BY <1>1, <1>2, <1>3 DEF Dsl!Abstract!Enter, Dsl!Goto, DslIntended
<1> QED
  BY <1>4 DEF Dsl!Abstract!Next

LEMMA DslChecking ==
  ASSUME dsl_pc \notin {"idle", "panicked", "handler"}, dsl_pc' \notin {"idle", "panicked", "handler"},
         UNCHANGED <<asked, dsl_fallback, dsl_receive, dsl_msg, dsl_entry, dsl_answer>>
  PROVE  UNCHANGED Dsl!Abstract!vars
BY DslIntendedStable DEF Dsl!Abstract!vars

LEMMA DslDeclaring ==
  ASSUME dsl_pc = "idle", UNCHANGED <<dsl_pc, dsl_msg, dsl_entry, dsl_answer>>,
         \A t \in Selectors : Dsl!Declared.method[t] # Dsl!NoHandler =>
           Dsl!Declared'.method[t] = Dsl!Declared.method[t]
  PROVE  Dsl!Abstract!Next
<1>1. Dsl!Abstract!Declare
  BY DslTerms DEF Dsl!Abstract!Declare
<1> QED
  BY <1>1 DEF Dsl!Abstract!Next

LEMMA DslStepRefines ==
  ASSUME DslInv, DslInv', [Dsl!Next]_DslVars
  PROVE  Dsl!Abstract!Next \/ UNCHANGED Dsl!Abstract!vars
<1>t. DslTypeOK /\ TableInv /\ dsl_msg \in Dsl!Messages /\ dsl_fallback \in Dsl!Payability
  BY DEF DslInv, DslTypeOK, Dsl!TypeOK
<1>1. ASSUME NEW s \in Selectors, Dsl!Method(s) \/ Dsl!PayableMethod(s)
      PROVE  Dsl!Abstract!Next
  <2>1. PICK p \in BOOLEAN : Registers(s, p)
    BY <1>1, RegistersIs
  <2> QED
    BY <1>t, <2>1, MethodsKept, DslDeclaring DEF Registers
<1>2. ASSUME Dsl!TooManyMethods
      PROVE  UNCHANGED Dsl!Abstract!vars
  <2>1. UNCHANGED <<asked, dsl_fallback, dsl_receive>>
    BY <1>2 DEF Dsl!TooManyMethods, Dsl!builder
  <2>2. Dsl!Declared' = Dsl!Declared
    BY <2>1, DslIntendedStable
  <2> QED
    BY <1>2, <2>2 DEF Dsl!TooManyMethods, Dsl!Abstract!vars
<1>3. ASSUME NEW p \in {"payable", "nonpayable"}, Dsl!Fallback(p)
      PROVE  Dsl!Abstract!Next
  <2>1. Dsl!Declared'.method = Dsl!Declared.method
    BY <1>3 DEF Dsl!Fallback, Dsl!Declared, Dsl!Handler, Dsl!NoHandler
  <2> QED
    BY <1>3, <2>1, DslDeclaring DEF Dsl!Fallback
<1>4. ASSUME Dsl!Receive
      PROVE  Dsl!Abstract!Next
  <2>1. Dsl!Declared'.method = Dsl!Declared.method
    BY <1>4 DEF Dsl!Receive, Dsl!Declared, Dsl!Handler, Dsl!NoHandler
  <2> QED
    BY <1>4, <2>1, DslDeclaring DEF Dsl!Receive
<1>5. ASSUME NEW m \in Dsl!Messages, Dsl!Deliver(m)
      PROVE  Dsl!Abstract!Next
  <2>1. UNCHANGED <<asked, dsl_fallback, dsl_receive>>
    BY <1>5 DEF Dsl!Deliver, Dsl!builder
  <2>2. Dsl!Declared' = Dsl!Declared
    BY <2>1, DslIntendedStable
  <2>3. m.to \in {"deploy", "call"}
    BY DslTerms
  <2>4. Dsl!Abstract!Receive(m)
    BY <1>5, <2>2, <2>3 DEF Dsl!Deliver, Dsl!Goto, Dsl!Abstract!Receive
  <2>5. m \in [to : {"deploy", "call"}, value : BOOLEAN, size : {"empty", "stub", "selector"},
               selector : Selectors, args : {"good", "short", "malformed"}, large : BOOLEAN]
    BY DEF Dsl!Messages
  <2> QED
    BY <2>4, <2>5 DEF Dsl!Abstract!Next
<1>6. ASSUME Dsl!Deploy
      PROVE  Dsl!Abstract!Next
  <2>1. UNCHANGED <<asked, methods, payable_bits, dsl_fallback, dsl_receive, dsl_msg>>
        /\ dsl_pc = "deploy" /\ dsl_msg.to = "deploy"
    BY <1>6 DEF Dsl!Deploy, Dsl!builder, DslInv, DslStepInv
  <2>2. DslIntended = Dsl!Handler("constructor", 1, FALSE)
    BY <2>1, DslIntendedIs
  <2>3. CASE Dsl!Goto("handler")
    BY <2>1, <2>3, DslEntering
  <2>4. CASE dsl_msg.value /\ Dsl!Refuse("non_payable") /\ UNCHANGED dsl_entry
    <3>1. Dsl!Abstract!Justified("non_payable", DslIntended, dsl_msg)
      BY <2>2, <2>4 DEF Dsl!Abstract!Justified, Dsl!Handler
    <3> QED BY <2>1, <2>4, <3>1, DslRefusing DEF Errors
  <2> QED BY <1>6, <2>3, <2>4 DEF Dsl!Deploy
<1>7. ASSUME Dsl!ReadCalldata
      PROVE  Dsl!Abstract!Next \/ UNCHANGED Dsl!Abstract!vars
  <2>1. UNCHANGED <<asked, methods, payable_bits, dsl_fallback, dsl_receive, dsl_msg>>
        /\ dsl_pc = "call"
    BY <1>7 DEF Dsl!ReadCalldata, Dsl!builder
  <2>2. CASE Dsl!Goto("handler")
    BY <2>1, <2>2, DslEntering
  <2>3. CASE dsl_msg.large /\ Dsl!Refuse("calldata_too_large") /\ UNCHANGED dsl_entry
    <3>1. Dsl!Abstract!Justified("calldata_too_large", DslIntended, dsl_msg)
      BY <2>3 DEF Dsl!Abstract!Justified
    <3> QED BY <2>1, <2>3, <3>1, DslRefusing DEF Errors
  <2>4. CASE (Dsl!Goto("default") \/ Dsl!Goto("try_route")) /\ UNCHANGED dsl_entry
    BY <2>1, <2>4, DslChecking DEF Dsl!Goto
  <2> QED BY <1>7, <2>2, <2>3, <2>4 DEF Dsl!ReadCalldata
<1>8. ASSUME Dsl!TryRoute
      PROVE  Dsl!Abstract!Next \/ UNCHANGED Dsl!Abstract!vars
  <2>1. UNCHANGED <<asked, methods, payable_bits, dsl_fallback, dsl_receive, dsl_msg>>
        /\ dsl_pc = "try_route"
    BY <1>8 DEF Dsl!TryRoute, Dsl!builder
  <2>2. CASE Dsl!Goto("handler")
    BY <2>1, <2>2, DslEntering
  <2>3. CASE /\ i < Len(methods) /\ methods[i + 1] = dsl_msg.selector
             /\ ~Dsl!PayableBit(i) /\ dsl_msg.value
             /\ Dsl!Refuse("non_payable") /\ UNCHANGED dsl_entry
    <3>1. DslIntended = Dsl!Handler("method", i + 1, Dsl!PayableBit(i))
      BY <2>1, <2>3, LoopFinds
    <3>2. Dsl!Abstract!Justified("non_payable", DslIntended, dsl_msg)
      BY <2>3, <3>1, DslTerms DEF Dsl!Abstract!Justified
    <3> QED BY <2>1, <2>3, <3>2, DslRefusing DEF Errors
  <2>4. CASE dsl_pc' \in {"default", "try_route"} /\ UNCHANGED <<dsl_entry, dsl_answer>>
    BY <2>1, <2>4, DslChecking
  <2> QED BY <1>8, <2>1, <2>2, <2>3, <2>4 DEF Dsl!TryRoute, Dsl!Goto
<1>9. ASSUME Dsl!Default
      PROVE  Dsl!Abstract!Next
  <2>1. UNCHANGED <<asked, methods, payable_bits, dsl_fallback, dsl_receive, dsl_msg>>
        /\ dsl_pc = "default" /\ dsl_msg.to = "call"
    BY <1>9 DEF Dsl!Default, Dsl!builder, DslInv, DslStepInv
  <2>2. DslIntended = IF dsl_fallback # "absent" THEN Dsl!FallbackHandler ELSE Dsl!NoHandler
    BY <2>1, DslIntendedIs DEF DslInv, DslStepInv
  <2>3. CASE Dsl!Goto("handler")
    BY <2>1, <2>3, DslEntering
  <2>4. CASE dsl_fallback = "nonpayable" /\ dsl_msg.value /\ Dsl!Refuse("non_payable")
             /\ UNCHANGED dsl_entry
    <3>1. Dsl!Abstract!Justified("non_payable", DslIntended, dsl_msg)
      BY <2>2, <2>4 DEF Dsl!Abstract!Justified, Dsl!FallbackHandler, Dsl!Handler
    <3> QED BY <2>1, <2>4, <3>1, DslRefusing DEF Errors
  <2>5. CASE /\ dsl_fallback = "absent" /\ UNCHANGED dsl_entry
             /\ Dsl!Refuse(IF dsl_msg.size = "selector" THEN "unknown_selector" ELSE "no_selector")
    <3>1. PICK why : why = IF dsl_msg.size = "selector" THEN "unknown_selector" ELSE "no_selector"
      OBVIOUS
    <3>2. Dsl!Abstract!Justified(why, DslIntended, dsl_msg)
      BY <1>t, <2>2, <2>5, <3>1, DslTerms DEF Dsl!Abstract!Justified
    <3>3. why \in Errors /\ Dsl!Refuse(why)
      BY <2>5, <3>1 DEF Errors
    <3> QED BY <2>1, <2>5, <3>2, <3>3, DslRefusing
  <2> QED BY <1>9, <2>3, <2>4, <2>5 DEF Dsl!Default
<1>10. ASSUME Dsl!Finalize
       PROVE  Dsl!Abstract!Next
  <2>1. UNCHANGED <<asked, dsl_fallback, dsl_receive>>
    BY <1>10 DEF Dsl!Finalize, Dsl!builder
  <2>2. Dsl!Declared' = Dsl!Declared
    BY <2>1, DslIntendedStable
  <2>3. Dsl!Abstract!Finish
    BY <1>10, <2>2, DslTerms DEF Dsl!Finalize, Dsl!Abstract!Finish
  <2> QED
    BY <2>3 DEF Dsl!Abstract!Next
<1>11. CASE UNCHANGED DslVars
  <2>1. Dsl!Declared' = Dsl!Declared
    BY <1>11, DslIntendedStable DEF DslVars
  <2> QED
    BY <1>11, <2>1 DEF DslVars, Dsl!Abstract!vars
<1> QED
  BY <1>1, <1>2, <1>3, <1>4, <1>5, <1>6, <1>7, <1>8, <1>9, <1>10, <1>11 DEF Dsl!Next

-----------------------------------------------------------------------------
(* Both front ends                                                         *)

\* A step of the pair is a step of each or leaves it alone.
LEMMA BothSteps ==
  ASSUME [BothNext]_allVars
  PROVE  [Next]_vars /\ [Dsl!Next]_DslVars
<1>v. UNCHANGED dsl_vars => UNCHANGED DslVars
  BY DEF dsl_vars, DslVars
<1>1. CASE Register
  BY <1>1 DEF Register, Dsl!Next
<1>2. ASSUME NEW m \in Messages, DeliverBoth(m) \/ DeliverMacro(m)
      PROVE  [Next]_vars /\ [Dsl!Next]_DslVars
  <2>1. Composed => m.to = "call" /\ m.size = "selector"
    BY <1>2 DEF DeliverBoth, DeliverMacro, Twins, Expressible
  <2>2. Next
    BY <1>2, <2>1 DEF DeliverBoth, DeliverMacro, Next
  <2> QED
    BY <1>v, <1>2, <2>2 DEF DeliverBoth, DeliverMacro, Dsl!Next
<1>3. CASE MacroStep
  BY <1>v, <1>3 DEF MacroStep, Next
<1>4. CASE DslStep
  BY <1>4 DEF DslStep, Dsl!Next
<1>5. CASE FinishBoth
  BY <1>5 DEF FinishBoth, Dsl!Next, Next
<1>6. CASE FinishMacro
  BY <1>v, <1>6 DEF FinishMacro, Next
<1>7. CASE UNCHANGED allVars
  BY <1>v, <1>7 DEF allVars
<1> QED
  BY <1>1, <1>2, <1>3, <1>4, <1>5, <1>6, <1>7 DEF BothNext

BothInv == Inv /\ DslInv

LEMMA BothInvAlways == BothSpec => []BothInv
<1>1. BothInit => BothInv
  BY InitInv, DslInitInv DEF BothInit, BothInv
<1>2. BothInv /\ [BothNext]_allVars => BothInv'
  BY BothSteps, StepKeepsInv, DslStepKeepsInv DEF BothInv
<1> QED
  BY <1>1, <1>2, PTL DEF BothSpec

\* ContractBuilder: whatever is registered, in whatever order and number, the
\* table stays within its array and only the bits of registered methods are set.
THEOREM BuilderTyped == BothSpec => []DslTypeOK
<1>1. BothInv => DslTypeOK
  BY DEF BothInv, DslInv
<1> QED
  BY <1>1, BothInvAlways, PTL

\* The builder's dispatch is Solidity's, for every sequence of registrations:
\* the first registration of a selector gets its messages, value only reaches
\* payable handlers, and a refusal states a reason that holds.
THEOREM BuilderIsAnEndpoint == BothSpec => DslIsAnEndpoint
<1>1. BothInit => Dsl!Abstract!Init
  BY DslInitRefines DEF BothInit
<1>2. BothInv /\ BothInv' /\ [BothNext]_allVars => [Dsl!Abstract!Next]_(Dsl!Abstract!vars)
  BY BothSteps, DslStepRefines DEF BothInv
<1>3. BothSpec => Dsl!Abstract!Spec
  BY <1>1, <1>2, BothInvAlways, PTL DEF BothSpec, Dsl!Abstract!Spec
<1> QED
  BY <1>3 DEF DslIsAnEndpoint, Dsl!IsAnEndpoint

\* The registrations are those of the macro's contract, the first of each
\* selector with its payability.
Followed ==
  \A k \in DOMAIN methods : FirstOf(k) =>
    Main.method[methods[k]].mutability = IF asked[k].payable THEN "payable" ELSE "nonpayable"

\* Where all is registered, a message is for the same handler of both.
LEMMA SameTarget ==
  ASSUME Inv, DslInv, Expressible, Twins, Followed, dsl_msg = msg
  PROVE  /\ Intended.kind = DslIntended.kind
         /\ Intended.payable = DslIntended.payable
         /\ Intended = NoHandler <=> DslIntended = Dsl!NoHandler
<1>1. /\ program \in Programs /\ msg \in Messages /\ at \in DOMAIN program
      /\ DOMAIN program = 1..Len(program) /\ Len(program) = 1 /\ Len(program) \in Nat
      /\ Main \in Module /\ msg.selector \in Selectors
  BY ProgramShape DEF Inv, TypeOK, Expressible, Composed, Messages
<1>2. at = 1 /\ program[at] = Main /\ PassedOver
  BY <1>1 DEF Main, PassedOver
<1>3. /\ HasReceive <=> dsl_receive
      /\ HasFallback <=> dsl_fallback # "absent"
      /\ Main.fallback = dsl_fallback /\ dsl_receive \in BOOLEAN
  BY DEF HasReceive, HasFallback, Expressible, Twins, DslInv, DslTypeOK, Dsl!TypeOK
<1>4. CASE msg.to = "deploy"
  <2>1. Intended = ConstructorHandler
    BY <1>4, IntendedConstructor
  <2>2. DslIntended = Dsl!Handler("constructor", 1, FALSE)
    BY <1>4, DslIntendedIs
  <2>3. ConstructorHandler.payable = FALSE /\ ConstructorHandler.kind = "constructor"
    BY DEF ConstructorHandler, Handler, Expressible
  <2>4. ConstructorHandler # NoHandler
    BY <1>1, HandlerTypes
  <2>5. /\ DslIntended.payable = FALSE /\ DslIntended.kind = "constructor"
        /\ DslIntended # Dsl!NoHandler
    BY <2>2 DEF Dsl!Handler, Dsl!NoHandler
  <2> QED
    BY <2>1, <2>3, <2>4, <2>5
<1>5. CASE msg.to = "call" /\ msg.size = "empty" /\ dsl_receive
  <2>1. Intended = ReceiveHandler
    BY <1>1, <1>3, <1>5, IntendedReceive
  <2>2. DslIntended = Dsl!ReceiveHandler
    BY <1>5, DslIntendedIs
  <2> QED
    BY <2>1, <2>2 DEF ReceiveHandler, Handler, NoHandler, Dsl!ReceiveHandler, Dsl!Handler,
       Dsl!NoHandler
<1>6. CASE msg.to = "call" /\ msg.size = "selector" /\ Has(Main, msg.selector)
  <2>1. Intended = MethodHandler(1, msg.selector)
    BY <1>1, <1>2, <1>6, IntendedMethod
  <2>2. PICK k \in DOMAIN methods : methods[k] = msg.selector
    BY <1>1, <1>6 DEF Twins, Registered
  <2>3. PICK f \in DOMAIN methods : methods[f] = msg.selector /\ FirstOf(f)
    <3>1. PICK g \in 1..k : methods[g] = methods[k] /\ FirstOf(g)
      BY <2>2 DEF DslInv, TableInv
    <3>2. g \in DOMAIN methods
      BY <3>1, TableShape DEF DslInv
    <3> QED BY <2>2, <3>1, <3>2
  <2>4. /\ asked[f].payable \in BOOLEAN
        /\ asked[f].payable = ((f - 1) \in payable_bits)
    BY <2>3, TableShape, DeclaredFirst DEF DslInv
  <2>5. DslIntended = Dsl!Handler("method", f, asked[f].payable)
    BY <1>6, <2>3, <2>4, DslIntendedIs
  <2>6. Main.method[msg.selector].mutability = "payable" <=> asked[f].payable
    BY <2>3, <2>4 DEF Followed
  <2>7. MethodHandler(1, msg.selector).payable = asked[f].payable
    BY <2>4, <2>6 DEF MethodHandler, Handler, Main
  <2> QED
    BY <2>1, <2>5, <2>7 DEF MethodHandler, Handler, NoHandler, Dsl!Handler, Dsl!NoHandler
<1>7. CASE /\ msg.to = "call" /\ (msg.size = "empty" => ~dsl_receive)
           /\ msg.size = "selector" => ~Has(Main, msg.selector)
  <2>1. Intended = IF HasFallback THEN FallbackHandler ELSE NoHandler
    BY <1>1, <1>2, <1>3, <1>7, IntendedFallback
  <2>2. msg.size = "selector" => \A k \in DOMAIN methods : methods[k] # dsl_msg.selector
    <3> SUFFICES ASSUME msg.size = "selector", NEW k \in DOMAIN methods,
                        methods[k] = msg.selector
                 PROVE  FALSE
      OBVIOUS
    <3>1. PICK g \in 1..k : methods[g] = methods[k] /\ FirstOf(g)
      BY DEF DslInv, TableInv
    <3>2. g \in DOMAIN methods
      BY <3>1, TableShape DEF DslInv
    <3>3. Main.method[msg.selector].mutability \in {"payable", "nonpayable"}
      BY <3>1, <3>2 DEF Followed
    <3> QED BY <1>7, <3>3 DEF Has
  <2>3. DslIntended = IF dsl_fallback # "absent" THEN Dsl!FallbackHandler ELSE Dsl!NoHandler
    BY <1>7, <2>2, DslIntendedIs
  <2> QED
    BY <1>3, <2>1, <2>3 DEF FallbackHandler, Handler, NoHandler, Dsl!FallbackHandler, Dsl!Handler,
       Dsl!NoHandler
<1> QED
  BY <1>1, <1>4, <1>5, <1>6, <1>7 DEF Messages

Ended == {"returned", "reverted"}
Delivered == pc # "idle" \/ answer # "none"

\* What both decide of a message the builder's messages can be.
Serves ==
  /\ msg.to = "deploy" \/ ~msg.large
  /\ Intended # NoHandler
  /\ msg.value => Intended.payable

\* Until a message comes, the builder is not ahead of the macro; then the two
\* have the same message, no step after the buffer's check sees a large one, and
\* each has the verdict of Serves where it stands.
PairInv ==
  /\ Followed
  /\ ~Delivered => dsl_pc \in {"idle", "panicked"} /\ dsl_answer = "none"
  /\ Delivered =>
       /\ Twins /\ dsl_msg = msg /\ dsl_pc # "panicked"
       /\ msg.large => ~Main.use_alloc
       /\ pc # "idle" => answer = "none"
       /\ dsl_pc # "idle" => dsl_answer = "none"
       /\ pc \in {"route", "arm", "unhandled", "decode", "body"} /\ msg.to = "call" => ~msg.large
       /\ dsl_pc \in {"try_route", "default", "handler"} /\ msg.to = "call" => ~msg.large
       /\ pc = "idle" => answer \in Ended \/ ~Serves
       /\ dsl_pc = "idle" => dsl_answer \in Ended \/ ~Serves
       /\ answer \in Ended <=> dsl_answer \in Ended
       /\ answer \in Ended => pc = "idle" /\ dsl_pc = "idle"

JointInv == BothInv /\ (Expressible => PairInv)

LEMMA ServesStable ==
  ASSUME program' = program, msg' = msg
  PROVE  /\ Serves' <=> Serves
         /\ Expressible' <=> Expressible
         /\ Main' = Main
<1>1. Intended' = Intended
  BY IntendedStable
<1> QED
  BY <1>1 DEF Serves, NoHandler, Handler, Expressible, Composed, ConstructorHandler, Main

\* A registration follows the macro's contract: it is not the first of its
\* selector, or has its payability.
LEMMA FollowedStays ==
  ASSUME DslInv, Followed, program' = program, NEW s \in Selectors, NEW p \in BOOLEAN,
         Registers(s, p), Wanted(s, IF p THEN "payable" ELSE "nonpayable")
  PROVE  Followed'
<1>1. PICK n : n = Len(methods)
  OBVIOUS
<1>2. /\ n \in Nat /\ DOMAIN methods = 1..n /\ DOMAIN asked = 1..n /\ Len(asked) = n
      /\ asked \in Seq([selector : Selectors, payable : BOOLEAN])
      /\ methods \in Seq(Selectors)
  BY <1>1, TableShape DEF DslInv, TableInv, DslTypeOK, Dsl!TypeOK
<1>3. PICK r : r = [selector |-> s, payable |-> p]
  OBVIOUS
<1>4. r \in [selector : Selectors, payable : BOOLEAN] /\ r.payable = p
  BY <1>3
<1>5. asked' = Append(asked, r) /\ methods' = Append(methods, s)
  BY <1>3 DEF Registers
<1>6. /\ asked'[n + 1] = r /\ \A k \in 1..n : asked'[k] = asked[k]
      /\ methods'[n + 1] = s /\ \A k \in 1..n : methods'[k] = methods[k]
      /\ methods' \in Seq(Selectors) /\ Len(methods') = n + 1
  BY <1>1, <1>2, <1>4, <1>5, AppendProperties
<1>7. DOMAIN methods' = 1..(n + 1)
  BY <1>6, LenProperties
<1>8. Main' = Main
  BY DEF Main
<1> SUFFICES ASSUME NEW k \in 1..(n + 1), FirstOf(k)'
             PROVE  Main.method[methods'[k]].mutability =
                      IF asked'[k].payable THEN "payable" ELSE "nonpayable"
  BY <1>7, <1>8 DEF Followed
<1>9. CASE k \in 1..n
  <2>1. FirstOf(k)
    BY <1>2, <1>6, <1>9 DEF FirstOf
  <2> QED
    BY <1>2, <1>6, <1>9, <2>1 DEF Followed
<1>10. CASE k = n + 1
  <2>1. ~Registered(s)
    BY <1>2, <1>6, <1>10 DEF FirstOf, Registered
  <2>2. Main.method[s].mutability = IF p THEN "payable" ELSE "nonpayable"
    BY <2>1 DEF Wanted
  <2> QED
    BY <1>4, <1>6, <1>10, <2>2
<1> QED
  BY <1>2, <1>9, <1>10

LEMMA RegisterKeepsPair ==
  ASSUME DslInv, PairInv, Register
  PROVE  PairInv'
<1>1. /\ Expressible /\ pc = "idle" /\ answer = "none" /\ UNCHANGED vars
      /\ dsl_pc \in {"idle", "panicked"} /\ dsl_answer = "none" /\ Followed
  BY DEF Register, PairInv, Delivered
<1>2. ~Delivered' /\ program' = program
  BY <1>1 DEF Delivered, vars
<1>3. CASE \E s \in Selectors :
             \/ Wanted(s, "nonpayable") /\ Dsl!Method(s)
             \/ Wanted(s, "payable") /\ Dsl!PayableMethod(s)
  <2>1. PICK s \in Selectors : \/ Wanted(s, "nonpayable") /\ Dsl!Method(s)
                               \/ Wanted(s, "payable") /\ Dsl!PayableMethod(s)
    BY <1>3
  <2>2. CASE Wanted(s, "nonpayable") /\ Dsl!Method(s)
    <3>1. Registers(s, FALSE)
      BY <2>2 DEF Dsl!Method, Registers
    <3>2. Followed'
      BY <1>1, <1>2, <2>2, <3>1, FollowedStays
    <3> QED BY <1>1, <1>2, <3>1, <3>2 DEF PairInv, Registers
  <2>3. CASE Wanted(s, "payable") /\ Dsl!PayableMethod(s)
    <3>1. Registers(s, TRUE)
      BY <2>3 DEF Dsl!PayableMethod, Registers
    <3>2. Followed'
      BY <1>1, <1>2, <2>3, <3>1, FollowedStays
    <3> QED BY <1>1, <1>2, <3>1, <3>2 DEF PairInv, Registers
  <2> QED BY <2>1, <2>2, <2>3
<1>4. CASE \/ Dsl!TooManyMethods
           \/ \E p \in {"payable", "nonpayable"} : Main.fallback # "absent" /\ Dsl!Fallback(p)
           \/ Main.has_receive /\ Dsl!Receive
  <2>1. UNCHANGED <<asked, methods, dsl_answer>> /\ dsl_pc' \in {"idle", "panicked"}
    BY <1>1, <1>4 DEF Dsl!TooManyMethods, Dsl!Receive, Dsl!Fallback, Dsl!builder
  <2>2. Followed'
    BY <1>1, <1>2, <2>1 DEF Followed, FirstOf, Main
  <2> QED BY <1>1, <1>2, <2>1, <2>2 DEF PairInv
<1>5. \/ \E s \in Selectors :
           \/ Wanted(s, "nonpayable") /\ Dsl!Method(s)
           \/ Wanted(s, "payable") /\ Dsl!PayableMethod(s)
      \/ Dsl!TooManyMethods
      \/ \E p \in {"payable", "nonpayable"} : Main.fallback # "absent" /\ Dsl!Fallback(p)
      \/ Main.has_receive /\ Dsl!Receive
  BY Zenon DEF Register
<1> QED
  BY <1>3, <1>4, <1>5, Zenon

\* A refusal whose reason holds is not of a message both serve; only a call is
\* too large.
LEMMA JustifiedRefusal ==
  ASSUME NEW why, Abstract!Justified(why, Intended, msg), msg.args = "good",
         why = "calldata_too_large" => msg.to # "deploy"
  PROVE  ~Serves
BY SameTerms DEF Abstract!Justified, Serves, BadArgs, Abstract!BadArgs

LEMMA MacroVerdict ==
  ASSUME Inv, Inv', Expressible, Delivered, msg \in Dsl!Messages, MacroStep
  PROVE  /\ pc \notin {"idle", "body"} /\ program' = program /\ msg' = msg
         /\ pc' # "idle" => answer' = answer
         /\ pc' = "idle" => answer' \in Errors /\ ~Serves
<1>1. msg.args = "good"
  BY DEF Dsl!Messages
<1>2. Len(program) = 1 /\ HoistsLast
  <2>1. Len(program) \in Nat \ {0} /\ ~(Len(program) > 1)
    BY ProgramShape DEF Inv, TypeOK, Expressible, Composed
  <2>2. Len(program) = 1
    BY <2>1
  <2>3. \A k \in 1..(Len(program) - 1) : FALSE
    BY <2>2
  <2> QED BY <2>2, <2>3 DEF HoistsLast
<1>3. DeployGuard \/ DeployRead \/ ReadCalldata \/ Route \/ ArmGuard \/ Decode \/ Unhandled
  BY DEF MacroStep
<1>4. /\ pc \notin {"idle", "body"} /\ program' = program /\ msg' = msg
      /\ pc' # "idle" => answer' = answer
  BY <1>3 DEF DeployGuard, DeployRead, ReadCalldata, Route, ArmGuard, Decode, Unhandled, Goto, Refuse
<1>5. ASSUME pc' = "idle"
      PROVE  answer' \in Errors /\ ~Serves
  <2>1. answer' \in Errors
    BY <1>3, <1>5
       DEF DeployGuard, DeployRead, ReadCalldata, Route, ArmGuard, Decode, Unhandled, Goto, Refuse,
           Errors
  <2>2. answer' = "calldata_too_large" => msg.to = "call"
    <3>1. ~DeployRead
      <4> SUFFICES ASSUME DeployRead PROVE FALSE
        OBVIOUS
      <4> QED
        BY <1>5 DEF DeployRead, Goto, ConstructorHandler, Handler, Expressible
    <3> QED
      BY <1>3, <1>5, <3>1
         DEF DeployGuard, ReadCalldata, Route, ArmGuard, Decode, Unhandled, Goto, Refuse,
             Inv, StepInv
  <2>3. Next
    BY <1>3 DEF Next
  <2>4. Abstract!Next \/ UNCHANGED Abstract!vars
    BY <1>2, <2>3, StepRefines
  <2>5. Phase = "pending" /\ Phase' = "idle"
    BY <1>4, <1>5 DEF Phase
  <2>6. PICK why : Abstract!Refuse(why)
    BY <2>4, <2>5 DEF Abstract!Next, Abstract!vars, Abstract!Receive, Abstract!Enter,
       Abstract!Finish, Abstract!Declare
  <2>7. Abstract!Justified(answer', Intended, msg)
    BY <2>6 DEF Abstract!Refuse, Intended
  <2> QED
    BY <1>1, <2>1, <2>2, <2>7, JustifiedRefusal
<1> QED
  BY <1>4, <1>5

LEMMA DslVerdict ==
  ASSUME BothInv, BothInv', Expressible, Twins, Followed, dsl_msg = msg, DslStep
  PROVE  /\ dsl_pc \notin {"idle", "panicked", "handler"} /\ dsl_pc' # "panicked"
         /\ UNCHANGED <<asked, methods, payable_bits, dsl_fallback, dsl_receive, dsl_msg>>
         /\ dsl_pc' # "idle" => dsl_answer' = dsl_answer
         /\ dsl_pc' = "idle" => dsl_answer' \in Errors /\ ~Serves
<1>1. Dsl!Deploy \/ Dsl!ReadCalldata \/ Dsl!TryRoute \/ Dsl!Default
  BY DEF DslStep
<1>2. /\ dsl_pc \notin {"idle", "panicked", "handler"} /\ dsl_pc' # "panicked"
      /\ UNCHANGED <<asked, methods, payable_bits, dsl_fallback, dsl_receive, dsl_msg>>
      /\ dsl_pc' # "idle" => dsl_answer' = dsl_answer
  BY <1>1
     DEF Dsl!Deploy, Dsl!ReadCalldata, Dsl!TryRoute, Dsl!Default, Dsl!Goto, Dsl!Refuse, Dsl!builder
<1>3. ASSUME dsl_pc' = "idle"
      PROVE  dsl_answer' \in Errors /\ ~Serves
  <2>1. dsl_answer' \in Errors
    BY <1>1, <1>3
       DEF Dsl!Deploy, Dsl!ReadCalldata, Dsl!TryRoute, Dsl!Default, Dsl!Goto, Dsl!Refuse, Errors
  <2>2. dsl_answer' = "calldata_too_large" => msg.to = "call"
    BY <1>1, <1>3
       DEF Dsl!Deploy, Dsl!ReadCalldata, Dsl!TryRoute, Dsl!Default, Dsl!Goto, Dsl!Refuse,
           BothInv, DslInv, DslStepInv
  <2>3. [Dsl!Next]_DslVars
    BY <1>1 DEF Dsl!Next
  <2>4. Dsl!Abstract!Next \/ UNCHANGED Dsl!Abstract!vars
    BY <2>3, DslStepRefines DEF BothInv
  <2>5. dsl_msg.args = "good"
    BY DEF BothInv, DslInv, DslTypeOK, Dsl!TypeOK, Dsl!Messages
  <2>6. \E why : Dsl!Abstract!Refuse(why)
    BY <1>2, <1>3, <2>4 DEF Dsl!Abstract!Next, Dsl!Abstract!vars, Dsl!Abstract!Receive,
       Dsl!Abstract!Enter, Dsl!Abstract!Finish, Dsl!Abstract!Declare
  <2>7. Dsl!Abstract!Justified(dsl_answer', DslIntended, dsl_msg)
    BY <2>6 DEF Dsl!Abstract!Refuse, DslIntended
  <2>8. /\ Intended.payable = DslIntended.payable
        /\ Intended = NoHandler <=> DslIntended = Dsl!NoHandler
    BY SameTarget DEF BothInv
  <2>9. ~Dsl!Abstract!BadArgs(DslIntended.params, dsl_msg.args)
    BY <2>5 DEF Dsl!Abstract!BadArgs
  <2> QED
    BY <2>1, <2>2, <2>7, <2>8, <2>9, DslTerms DEF Dsl!Abstract!Justified, Serves
<1> QED
  BY <1>2, <1>3

LEMMA DeliverKeepsPair ==
  ASSUME BothInv, Expressible, PairInv, answer = "none", NEW m \in Messages, DeliverBoth(m)
  PROVE  PairInv'
<1>1. /\ pc = "idle" /\ m.to \in {"deploy", "call"} /\ Twins /\ (m.large => ~Main.use_alloc)
      /\ pc' = m.to /\ msg' = m /\ dsl_pc' = m.to /\ dsl_msg' = m
      /\ UNCHANGED <<program, answer, dsl_answer>>
      /\ UNCHANGED <<asked, methods, payable_bits, dsl_fallback, dsl_receive>>
  BY DEF DeliverBoth, Deliver, Dsl!Deliver, Dsl!builder, Goto, Dsl!Goto, Messages
<1>2. dsl_answer = "none" /\ Followed
  BY <1>1 DEF PairInv, Delivered
<1>3. Followed' /\ Twins' /\ Main' = Main
  BY <1>1, <1>2 DEF Followed, FirstOf, Twins, Registered, Expressible, Composed, Main, Has,
     ConstructorHandler, Handler
<1> QED
  BY <1>1, <1>2, <1>3 DEF PairInv, Delivered, Ended

LEMMA MacroKeepsPair ==
  ASSUME BothInv, BothInv', Expressible, PairInv, MacroStep
  PROVE  PairInv'
<1>1. /\ UNCHANGED <<asked, methods, payable_bits, dsl_fallback, dsl_receive>>
      /\ UNCHANGED <<dsl_pc, dsl_msg, dsl_answer>>
  BY DEF MacroStep, dsl_vars
<1>2. pc # "idle"
  BY DEF MacroStep, DeployGuard, DeployRead, ReadCalldata, Route, ArmGuard, Decode, Unhandled
<1>3. Delivered /\ dsl_msg = msg /\ msg \in Dsl!Messages /\ Twins /\ answer = "none" /\ Followed
  BY <1>2 DEF Delivered, PairInv, BothInv, DslInv, DslTypeOK, Dsl!TypeOK
<1>4. /\ pc \notin {"idle", "body"} /\ program' = program /\ msg' = msg
      /\ pc' # "idle" => answer' = answer
      /\ pc' = "idle" => answer' \in Errors /\ ~Serves
  BY <1>3, MacroVerdict DEF BothInv
<1>5. (Serves' <=> Serves) /\ Main' = Main
  BY <1>4, ServesStable
<1>6. Followed' /\ Twins'
  BY <1>1, <1>3, <1>4, <1>5 DEF Followed, FirstOf, Twins, Registered, Expressible, Composed, Has,
     ConstructorHandler, Handler
<1>7. pc' \in {"route", "arm", "unhandled", "decode", "body"} /\ msg.to = "call" => ~msg.large
  <2>1. /\ pc \in {"route", "arm", "unhandled", "decode", "body"} /\ msg.to = "call" => ~msg.large
        /\ msg.large => ~Main.use_alloc
    BY <1>3 DEF PairInv
  <2>2. pc \in {"deploy", "deploy_read"} => msg.to # "call"
    BY DEF BothInv, Inv, StepInv
  <2> QED
    BY <2>1, <2>2 DEF MacroStep, DeployGuard, DeployRead, ReadCalldata, Route, ArmGuard, Decode,
       Unhandled, Goto, Refuse
<1>8. Delivered' /\ answer' \notin Ended /\ answer \notin Ended
  BY <1>3, <1>4 DEF Delivered, Ended, Errors
<1> QED
  BY <1>1, <1>3, <1>4, <1>5, <1>6, <1>7, <1>8 DEF PairInv

LEMMA DslKeepsPair ==
  ASSUME BothInv, BothInv', Expressible, PairInv, DslStep
  PROVE  PairInv'
<1>1. UNCHANGED <<program, pc, msg, at, entry, answer>>
  BY DEF DslStep, vars
<1>2. dsl_pc \notin {"idle", "panicked", "handler"}
  BY DEF DslStep, Dsl!Deploy, Dsl!ReadCalldata, Dsl!TryRoute, Dsl!Default
<1>3. Delivered /\ dsl_msg = msg /\ Twins /\ dsl_answer = "none" /\ Followed
  BY <1>2 DEF PairInv
<1>4. /\ dsl_pc' # "panicked"
      /\ UNCHANGED <<asked, methods, payable_bits, dsl_fallback, dsl_receive, dsl_msg>>
      /\ dsl_pc' # "idle" => dsl_answer' = dsl_answer
      /\ dsl_pc' = "idle" => dsl_answer' \in Errors /\ ~Serves
  BY <1>3, DslVerdict
<1>5. (Serves' <=> Serves) /\ Main' = Main
  BY <1>1, ServesStable
<1>6. Followed' /\ Twins'
  BY <1>1, <1>3, <1>4, <1>5 DEF Followed, FirstOf, Twins, Registered, Expressible, Composed, Has,
     ConstructorHandler, Handler
<1>7. dsl_pc' \in {"try_route", "default", "handler"} /\ msg.to = "call" => ~msg.large
  <2>1. dsl_pc \in {"try_route", "default", "handler"} /\ msg.to = "call" => ~msg.large
    BY <1>3 DEF PairInv
  <2>2. dsl_pc = "deploy" => msg.to # "call"
    BY <1>3 DEF BothInv, DslInv, DslStepInv
  <2> QED
    BY <1>3, <2>1, <2>2 DEF DslStep, Dsl!Deploy, Dsl!ReadCalldata, Dsl!TryRoute, Dsl!Default,
       Dsl!Goto, Dsl!Refuse
<1>8. Delivered' /\ dsl_answer' \notin Ended /\ dsl_answer \notin Ended
  BY <1>1, <1>3, <1>4 DEF Delivered, Ended, Errors
<1> QED
  BY <1>1, <1>3, <1>4, <1>5, <1>6, <1>7, <1>8 DEF PairInv

LEMMA FinishKeepsPair ==
  ASSUME BothInv, Expressible, PairInv, FinishBoth
  PROVE  PairInv'
<1>1. /\ pc = "body" /\ pc' = "idle" /\ dsl_pc' = "idle"
      /\ answer' \in Ended /\ dsl_answer' = answer'
      /\ UNCHANGED <<program, msg, dsl_msg>>
      /\ UNCHANGED <<asked, methods, payable_bits, dsl_fallback, dsl_receive>>
  BY DEF FinishBoth, Body, Dsl!Finalize, Dsl!builder, Ended
<1>2. Delivered /\ Twins /\ Followed /\ dsl_msg = msg /\ (msg.large => ~Main.use_alloc)
  BY <1>1 DEF PairInv, Delivered
<1>3. Followed' /\ Twins' /\ Main' = Main
  BY <1>1, <1>2 DEF Followed, FirstOf, Twins, Registered, Expressible, Composed, Main, Has,
     ConstructorHandler, Handler
<1>4. Delivered'
  BY <1>1 DEF Delivered, Ended
<1> QED
  BY <1>1, <1>2, <1>3, <1>4 DEF PairInv

LEMMA JointStep == JointInv /\ [BothNext]_allVars => JointInv'
<1> SUFFICES ASSUME JointInv, [BothNext]_allVars PROVE JointInv'
  OBVIOUS
<1>1. BothInv /\ BothInv'
  BY BothSteps, StepKeepsInv, DslStepKeepsInv DEF BothInv, JointInv
<1>2. program' = program
  BY BothSteps DEF Next, vars, Deliver, DeployGuard, DeployRead, ReadCalldata, Route, ArmGuard,
     Decode, Unhandled, Body
<1>3. Expressible' <=> Expressible
  BY <1>2 DEF Expressible, Composed, Main, ConstructorHandler, Handler
<1> SUFFICES ASSUME Expressible, PairInv PROVE PairInv'
  BY <1>1, <1>3 DEF JointInv
<1>4. CASE Register
  BY <1>1, <1>4, RegisterKeepsPair DEF BothInv
<1>5. CASE \E m \in Messages : answer = "none" /\ (DeliverBoth(m) \/ DeliverMacro(m))
  <2>1. PICK m \in Messages : answer = "none" /\ (DeliverBoth(m) \/ DeliverMacro(m))
    BY <1>5
  <2>2. DeliverBoth(m)
    BY <2>1 DEF DeliverMacro
  <2> QED BY <1>1, <2>1, <2>2, DeliverKeepsPair
<1>6. CASE MacroStep
  BY <1>1, <1>6, MacroKeepsPair
<1>7. CASE DslStep
  BY <1>1, <1>7, DslKeepsPair
<1>8. CASE FinishBoth
  BY <1>1, <1>8, FinishKeepsPair
<1>9. CASE FinishMacro
  BY <1>9 DEF FinishMacro
<1>10. CASE UNCHANGED allVars
  <2>1. UNCHANGED <<program, pc, msg, at, entry, answer>> /\ UNCHANGED DslVars
    BY <1>10 DEF allVars, vars, dsl_vars, DslVars
  <2>2. (Serves' <=> Serves) /\ Main' = Main
    BY <2>1, ServesStable
  <2>3. (Followed' <=> Followed) /\ (Twins' <=> Twins)
    BY <1>3, <2>1, <2>2 DEF Followed, FirstOf, Twins, Registered, Has, DslVars
  <2> QED
    BY <2>1, <2>2, <2>3 DEF PairInv, Delivered, DslVars
<1> QED
  BY <1>4, <1>5, <1>6, <1>7, <1>8, <1>9, <1>10 DEF BothNext

LEMMA JointInit == BothInit => JointInv
<1> SUFFICES ASSUME BothInit PROVE JointInv
  OBVIOUS
<1>1. BothInv
  BY InitInv, DslInitInv DEF BothInit, BothInv
<1>2. ~Delivered /\ dsl_pc = "idle" /\ dsl_answer = "none" /\ DOMAIN methods = {}
  BY DEF BothInit, Init, Dsl!Init, Delivered
<1> QED
  BY <1>1, <1>2 DEF JointInv, PairInv, Followed

LEMMA JointSameFate == JointInv => SameFate
<1> SUFFICES ASSUME JointInv, Expressible, pc \in {"idle", "body"}, dsl_pc \in {"idle", "handler"}
             PROVE  /\ pc = "body" <=> dsl_pc = "handler"
                    /\ pc = "body" => /\ entry.kind = dsl_entry.kind
                                      /\ entry.payable = dsl_entry.payable
  BY DEF SameFate
<1>1. Inv /\ DslInv /\ PairInv
  BY DEF JointInv, BothInv
<1>2. CASE ~Delivered
  BY <1>1, <1>2 DEF PairInv, Delivered
<1>3. CASE Delivered
  <2>1. Twins /\ Followed /\ dsl_msg = msg
    BY <1>1, <1>3 DEF PairInv
  <2>2. /\ Intended.kind = DslIntended.kind
        /\ Intended.payable = DslIntended.payable
        /\ Intended = NoHandler <=> DslIntended = Dsl!NoHandler
    BY <1>1, <2>1, SameTarget
  <2>3. msg.to \in {"deploy", "call"}
    BY <1>1 DEF Inv, TypeOK, Messages
  <2>4. pc = "body" => Serves /\ entry = Intended
    <3>1. pc = "body" => entry = Intended /\ entry # NoHandler /\ (msg.value => entry.payable)
      BY <1>1 DEF Inv, TypeOK, StepInv
    <3>2. pc = "body" /\ msg.to = "call" => ~msg.large
      BY <1>1, <1>3 DEF PairInv
    <3> QED BY <2>3, <3>1, <3>2 DEF Serves
  <2>5. dsl_pc = "handler" => Serves /\ dsl_entry = DslIntended
    <3>1. dsl_pc = "handler" => /\ dsl_entry = DslIntended
                                /\ Dsl!Abstract!Accepts(DslIntended, dsl_msg)
      BY <1>1 DEF DslInv, DslStepInv
    <3>2. dsl_pc = "handler" /\ msg.to = "call" => ~msg.large
      BY <1>1, <1>3 DEF PairInv
    <3> QED
      BY <2>1, <2>2, <2>3, <3>1, <3>2, DslTerms DEF Serves, Dsl!Abstract!Accepts
  <2>6. /\ pc = "idle" => answer \in Ended \/ ~Serves
        /\ dsl_pc = "idle" => dsl_answer \in Ended \/ ~Serves
        /\ answer \in Ended <=> dsl_answer \in Ended
        /\ answer \in Ended => pc = "idle" /\ dsl_pc = "idle"
    BY <1>1, <1>3 DEF PairInv
  <2> QED
    BY <2>2, <2>4, <2>5, <2>6
<1> QED
  BY <1>2, <1>3

\* builder-dsl/lib.rs "same dispatch architecture across DSL and macro paths":
\* a contract the builder can express, registered as the macro declares it in
\* any order and with any repetitions, runs the handler of the same kind and
\* payability for a message the macro's runs one for, and refuses the others.
THEOREM FatesAreTheSame == BothSpec => []SameFate
<1>1. BothSpec => []JointInv
  BY JointInit, JointStep, PTL DEF BothSpec
<1> QED
  BY <1>1, JointSameFate, PTL
=============================================================================
