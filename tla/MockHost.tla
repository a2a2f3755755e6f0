------------------------------ MODULE MockHost -------------------------------
(* A contract's method run twice in lockstep: on chain, and by a unit test  *)
(* on MockHost (pvm-contract-types/src/mock_host.rs), which answers from    *)
(* what the test has configured between methods, one return for each callee *)
(* and one for instantiations.  Where a callee answers otherwise on chain,  *)
(* or storage differs, the runs part and the mock's goes its own way until  *)
(* it ends.  This module has the two hosts and what the test does with the  *)
(* mock between methods; Calls has what the method does on them.            *)
EXTENDS Naturals, Sequences, FiniteSets

CONSTANTS
  Values,      \* of the storage word the methods maintain
  Words,       \* of return data
  Callees,     \* the addresses methods call
  Answers,     \* what a callee may answer on chain
  MaxMocked    \* bound: returns the mock has configured at once

Hosts == {"chain", "mock"}

\* Host errors; the last stands for those CallError has no name for.
Codes == {"CalleeReverted", "CalleeTrapped", "TransferFailed", "OutOfResources",
          "DuplicateContractAddress", "KeyNotFound"}

ASSUME MockHostAssumption ==
  /\ \A a \in Answers : a = [code |-> a.code, data |-> a.data]
  /\ \A a \in Answers : a.code \in Codes \union {"ok"} /\ a.data \in Seq(Words)
  /\ MaxMocked \in Nat

VARIABLES
  word,    \* of each host: persistent storage
  lock,    \* the reentrancy key: transient on chain, a key like any other in the mock
  undo,    \* what the chain has committed and restores if a method reverts
  ret,     \* of each host: the return data of the last call
  callReturns,        \* of the mock: the return configured for each callee
  instantiateReturn,  \* of the mock: the return configured for instantiations
  slot,    \* the exit the mock has recorded and the test has not taken
  snap,    \* the MockSnapshot in the test's hands
  at,      \* of each host: the method it runs, "idle", or the mock "astray"
  test,    \* "running", "failed" by the mock's assertion, or "over"
  clean    \* no write in the mock that the chain undid or never saw, or the reverse

mockVars == <<callReturns, instantiateReturn>>
hostVars == <<word, lock, undo, ret, mockVars, slot, snap, at, test, clean>>

\* `&mut self` and `&self` methods, with and without #[non_reentrant].
Methods == {"mut", "guarded", "view", "guardedView"}
Views == {"view", "guardedView"}

NoSnapshot == [taken |-> FALSE]

\* What the mock can be configured to return: Ok(data), for a call Err(())
\* too, which says no more than that the callee reverted; or it is not.
NoEntry == [code |-> "none", data |-> <<>>]
Reverted == [code |-> "CalleeReverted", data |-> <<>>]
Outputs == {a \in Answers : a.code = "ok"}
MockCallReturns == Outputs \union {Reverted}

HostInit ==
  /\ \E v \in Values : word = [h \in Hosts |-> v] /\ undo = v
  /\ lock = [h \in Hosts |-> FALSE]
  /\ ret = [h \in Hosts |-> <<>>]
  /\ callReturns = [c \in Callees |-> NoEntry] /\ instantiateReturn = NoEntry
  /\ slot = "none" /\ snap = NoSnapshot
  /\ at = [h \in Hosts |-> "idle"]
  /\ test = "running" /\ clean = TRUE

Running(h) == at[h] \in Methods
Idle == \A h \in Hosts : at[h] = "idle"

-----------------------------------------------------------------------------
(* The answers of the mock                                                 *)

\* Mutant: a callee that returned nothing leaves the last return data.
ResolveCall_KeepsOld(c) ==
  IF callReturns[c].data = <<>> /\ callReturns[c] # Reverted
  THEN [code |-> "ok", data |-> ret["mock"]] ELSE callReturns[c]

\* resolve_call: a callee without an entry returns Ok without data.
ResolveCall(c) ==
  IF callReturns[c] = NoEntry THEN [code |-> "ok", data |-> <<>>] ELSE callReturns[c]

\* instantiate: without a configured return it leaves the return data alone.
MockInstantiated ==
  IF instantiateReturn = NoEntry THEN [code |-> "OutOfResources", data |-> ret["mock"]]
  ELSE instantiateReturn

HostAnswer(h, kind, c, a) ==
  IF h = "chain" THEN a
  ELSE IF kind = "instantiate" THEN MockInstantiated ELSE ResolveCall(c)

\* The test has configured for the callee what it answers on chain, as far as
\* an entry can say it: of a failure, that it is one.
Foretold(kind, c, a) ==
  IF kind = "instantiate" THEN instantiateReturn = IF a.code = "ok" THEN a ELSE NoEntry
  ELSE IF a.code # "ok" THEN callReturns[c] = Reverted
  ELSE callReturns[c] = a \/ (callReturns[c] = NoEntry /\ a.data = <<>>)

\* The hosts whose run of the method goes on as on chain, where the callee
\* answers a and leaves storage w: those that show it both.  The mock runs no
\* callee.
Following(kind, c, a, w) ==
  {h \in Hosts : Running(h) /\ (h = "mock" => Foretold(kind, c, a) /\ w = word["mock"])}

Parted(hosts) == [h \in Hosts |-> IF Running(h) /\ h \notin hosts THEN "astray" ELSE at[h]]

-----------------------------------------------------------------------------
(* The test between methods                                                *)

\* run_until_halt starts a method.  A guarded one that finds the key set is
\* refused with a revert, before its body and on the host where it is set.
Refused(m, h) == m \in {"guarded", "guardedView"} /\ lock[h]

RecordReturn(e) ==
  IF slot = "none" THEN slot' = e /\ UNCHANGED test
  ELSE test' = "failed" /\ UNCHANGED slot

Begin(m) ==
  /\ test = "running" /\ Idle
  /\ at' = [h \in Hosts |-> IF Refused(m, h) THEN "idle"
                            ELSE IF h = "mock" /\ ~clean THEN "astray" ELSE m]
  /\ lock' = [h \in Hosts |-> lock[h] \/ m = "guarded"]
  /\ IF Refused(m, "mock") THEN RecordReturn("revert") ELSE UNCHANGED <<slot, test>>
  /\ UNCHANGED <<word, undo, ret, mockVars, snap, clean>>

Mocked ==
  Cardinality({c \in Callees : callReturns[c] # NoEntry})
    + (IF instantiateReturn = NoEntry THEN 0 ELSE 1)

\* mock_call and mock_instantiate replace the entry there is, up to the bound.

MockCall(c, r) ==
  /\ test = "running" /\ Idle
  /\ Mocked < MaxMocked
  /\ callReturns' = [callReturns EXCEPT ![c] = r]
  /\ UNCHANGED <<word, lock, undo, ret, instantiateReturn, slot, snap, at, test, clean>>

MockInstantiate(r) ==
  /\ test = "running" /\ Idle
  /\ Mocked < MaxMocked
  /\ instantiateReturn' = r
  /\ UNCHANGED <<word, lock, undo, ret, callReturns, slot, snap, at, test, clean>>

Snapshot ==
  /\ test = "running" /\ Idle
  /\ snap' = [taken |-> TRUE, word |-> word["mock"], lock |-> lock["mock"],
              callReturns |-> callReturns, instantiateReturn |-> instantiateReturn,
              slot |-> slot, clean |-> clean]
  /\ UNCHANGED <<word, lock, undo, ret, mockVars, slot, at, test, clean>>

\* Mutant: the reentrancy key, which the chain keeps elsewhere, stays.
Restore_NotTransient ==
  /\ test = "running" /\ Idle /\ snap.taken
  /\ word' = [word EXCEPT !["mock"] = snap.word]
  /\ callReturns' = snap.callReturns /\ instantiateReturn' = snap.instantiateReturn
  /\ slot' = snap.slot /\ snap' = NoSnapshot
  /\ clean' = snap.clean
  /\ UNCHANGED <<lock, undo, ret, at, test>>

\* restore consumes the snapshot and puts back the whole state, with what was
\* configured when it was taken.
Restore ==
  /\ test = "running" /\ Idle /\ snap.taken
  /\ word' = [word EXCEPT !["mock"] = snap.word]
  /\ lock' = [lock EXCEPT !["mock"] = snap.lock]
  /\ callReturns' = snap.callReturns /\ instantiateReturn' = snap.instantiateReturn
  /\ slot' = snap.slot /\ snap' = NoSnapshot
  /\ clean' = snap.clean
  /\ UNCHANGED <<undo, ret, at, test>>

TakeReturnValue ==
  /\ test = "running" /\ Idle /\ slot # "none"
  /\ slot' = "none"
  /\ UNCHANGED <<word, lock, undo, ret, mockVars, snap, at, test, clean>>

-----------------------------------------------------------------------------
(* The exits of a method                                                   *)

\* The lock a run leaves: dispatch unlocks once the body has returned, with
\* Ok(_) or Err(_); a body that reverts inside has not.
LockLeft(h, passed) == lock[h] /\ ~(passed /\ at[h] = "guarded")

\* What the mock is left with when its run ends as on chain, with exit e; and
\* what it may be left with by a run that went its own way.
MockEnds(passed, e) ==
  [word |-> word["mock"], lock |-> LockLeft("mock", passed),
   exit |-> IF Running("mock") THEN e ELSE "none"]

StrayEnds ==
  [word : IF at["chain"] \in Views THEN {word["mock"]} ELSE Values,
   lock : {lock["mock"], lock["mock"] /\ at["chain"] # "guarded"},
   exit : {"return", "revert", "none"}]

\* The method ends: the chain is left with stored and without its key.  The
\* mock keeps the return data, but the next method reads none before its
\* first call has replaced it.
Ended(stored, passed, e) ==
  /\ Running("chain")
  /\ at' = [h \in Hosts |-> "idle"] /\ ret' = [h \in Hosts |-> <<>>]
  /\ \E left \in (IF at["mock"] = "astray" THEN StrayEnds ELSE {MockEnds(passed, e)}) :
       /\ word' = [h \in Hosts |-> IF h = "chain" THEN stored ELSE left.word]
       /\ lock' = [h \in Hosts |-> h = "mock" /\ left.lock]
       /\ IF left.exit = "none" THEN UNCHANGED <<slot, test>> ELSE RecordReturn(left.exit)
  /\ UNCHANGED mockVars

\* The chain commits and the transaction's transient storage is gone.
Return ==
  /\ Ended(word["chain"], TRUE, "return")
  /\ undo' = word["chain"]
  /\ UNCHANGED clean
  /\ snap' = IF snap.taken THEN [snap EXCEPT !.clean = FALSE] ELSE snap

\* The chain undoes the method's writes; the mock keeps them.
Revert(passed) ==
  /\ Ended(undo, passed, "revert")
  /\ clean' = FALSE
  /\ UNCHANGED <<undo, snap>>

\* The mock's method ends here too, but it records no exit.
ConsumeAllGas ==
  /\ Ended(undo, FALSE, "none")
  /\ clean' = FALSE
  /\ UNCHANGED <<undo, snap>>

\* There is no contract left to run another method.
Terminate ==
  /\ Running("chain")
  /\ at' = [h \in Hosts |-> "idle"] /\ ret' = [h \in Hosts |-> <<>>]
  /\ lock' = [lock EXCEPT !["chain"] = FALSE]
  /\ test' = "over" /\ clean' = FALSE
  /\ UNCHANGED <<word, undo, mockVars, slot, snap>>

=============================================================================
