-------------------------------- MODULE Calls --------------------------------
(* Cross-contract calls: the CallBuilder of pvm-contract-core/src/call.rs,  *)
(* the wrappers abi_import generates over it, the precompiles built on the  *)
(* same host calls, and CallError's decoding of a callee's revert data.     *)
(* The return data of the last call is one buffer of the host, the output   *)
(* buffer is the method's own memory, and a CallError is a plain value that *)
(* outlives both.                                                           *)
EXTENDS MockHost

CONSTANTS
  Mutabilities,  \* of the callees' declarations: view or pure, the rest
  Arities,    \* words of the outputs the method decodes
  Rooms,      \* lengths of the output buffers it hands in
  Selector,   \* the word that tells the error type the method decodes
  Zero,       \* the zero word
  One,        \* the word 1
  BufWords,   \* the method's output buffer, in words
  MaxOps      \* bound: methods a test runs and operations they make

ASSUME CallsAssumption ==
  /\ {Selector, Zero, One} \subseteq Words
  /\ Words \intersect {"unset", "none", "bad"} = {}   \* what `decoded` may also be
  /\ Mutabilities \subseteq {"view", "pure", "nonpayable", "payable"}
  /\ {"ecrecover", "p256_verify"} \subseteq Callees
  /\ BufWords \in Nat /\ MaxOps \in Nat
  /\ Arities \subseteq 0..BufWords /\ Rooms \subseteq 0..BufWords

VARIABLES
  buf,       \* of each host's run: the output buffer, reused from call to call
  got,       \* the Result of the last operation
  err,       \* the last CallError, which the method keeps
  raised,    \* the return data of the host call that failed with it
  fresh,     \* no host call has been made since
  decoded,   \* what decoding `err` gave
  ops

callVars == <<buf, got, err, raised, fresh, decoded, ops>>
vars == <<hostVars, callVars>>

Errors == (Codes \ {"KeyNotFound"})
            \union {"InputBufTooSmall", "OutputBufTooSmall", "DecodingError", "Unknown"}

\* A result: "raw" is the Ok(()) of a raw call, "none" an Option's None or false.
Ok(v) == [code |-> "ok", value |-> v]
Err(e) == [code |-> e, value |-> <<>>]
IsOk(r) == r.code = "ok"
Nothing == [code |-> "none", value |-> <<>>]
RawOk == [code |-> "raw", value |-> <<>>]

BlankBuffer == [i \in 1..BufWords |-> Zero]

\* The hosts that run the method on hold g, the others nothing.
On(hosts, nothing, g) == [h \in Hosts |-> IF h \in hosts THEN g[h] ELSE nothing]
RunningHosts == {h \in Hosts : Running(h)}
Both(x) == [h \in Hosts |-> x]

Init ==
  /\ HostInit
  /\ buf = Both(BlankBuffer) /\ got = Both(Nothing)
  /\ err = Both("none") /\ raised = Both(<<>>) /\ fresh = TRUE
  /\ decoded = Both("unset") /\ ops = 0

\* A method starts with a blank memory, and its memory goes with it.
Blank ==
  /\ buf' = Both(BlankBuffer) /\ got' = Both(Nothing)
  /\ err' = Both("none") /\ raised' = Both(<<>>) /\ fresh' = TRUE
  /\ decoded' = Both("unset")

\* The body acts on every host that runs it.
Body == test = "running" /\ Running("chain") /\ ops < MaxOps
-----------------------------------------------------------------------------
(* Calls                                                                   *)

\* Mutant: opting in to reentry replaces the callee's flags.
CallFlags_ReentryOnly(m, reentry) ==
  IF reentry THEN {"ALLOW_REENTRY"} ELSE IF m \in {"view", "pure"} THEN {"READ_ONLY"} ELSE {}

\* The flags of `call`, by the callee's declared mutability.
CallFlags(m, reentry) ==
  (IF m \in {"view", "pure"} THEN {"READ_ONLY"} ELSE {})
    \union (IF reentry THEN {"ALLOW_REENTRY"} ELSE {})

\* What the method's own storage may hold after a call: a delegate call runs
\* the callee on it, a reentrant call runs the contract's methods on it.
MayWrite(kind, flags) ==
  \/ kind = "delegate_call"
  \/ kind = "call" /\ "ALLOW_REENTRY" \in flags /\ "READ_ONLY" \notin flags

AfterCallee(kind, flags, a) ==
  IF IsOk(a) /\ MayWrite(kind, flags) THEN Values ELSE {word["chain"]}

\* convert_error
ConvertError(c) == IF c \in Errors THEN c ELSE "Unknown"

\* Room is the length of the output buffer handed in, in words, or Alloc for
\* the generated wrapper's: max(return data, 512 bytes), zeroed.
Alloc == BufWords + 1
Larger(m, n) == IF m > n THEN m ELSE n

\* return_data_copy: the front of `b` is overwritten.
Copied(d, b) == [i \in DOMAIN b |-> IF i <= Len(d) THEN d[i] ELSE b[i]]

OutputBuf(b, d, room) ==
  IF room = Alloc THEN [i \in 1..Larger(BufWords, Len(d)) |-> Zero] ELSE SubSeq(b, 1, room)

\* SolDecode of `arity` static words; decode reads the front of the slice.
Decode(s, arity) ==
  IF Len(s) < arity THEN Err("DecodingError") ELSE Ok(SubSeq(s, 1, arity))

\* Mutant: the whole buffer is decoded, not the part that was copied.
ExtractOutput_WholeBuffer(b, d, arity, room) ==
  IF Len(d) > Len(OutputBuf(b, d, room)) THEN Err("OutputBufTooSmall")
  ELSE Decode(Copied(d, OutputBuf(b, d, room)), arity)

\* extract_output: return_data_copy shortens the slice to what it copied.
ExtractOutput(b, d, arity, room) ==
  IF Len(d) > Len(OutputBuf(b, d, room)) THEN Err("OutputBufTooSmall")
  ELSE Decode(SubSeq(Copied(d, OutputBuf(b, d, room)), 1, Len(d)), arity)

\* The buffer afterwards; the wrapper's is dropped.
BufAfter(b, d, room) == IF room = Alloc \/ Len(d) > room THEN b ELSE Copied(d, b)

\* An operation ends on `hosts` with result r and, if it made a host call,
\* answers ans.
Ends(hosts, r, ans) ==
  /\ got' = On(hosts, Nothing, r)
  /\ err' = On(hosts, "none", [h \in Hosts |->
        IF r[h].code \in Errors THEN r[h].code ELSE err[h]])
  /\ raised' = On(hosts, <<>>, [h \in Hosts |->
        IF r[h].code \notin Errors THEN raised[h]
        ELSE IF IsOk(ans[h]) THEN <<>> ELSE ans[h].data])
  /\ decoded' = Both("unset")
  /\ ops' = ops + 1

-----------------------------------------------------------------------------
(* The mutating calls need `&mut impl ContractContext`, which a `&self`     *)
(* method cannot make: it is left with call on view and pure callees.       *)

\* What an instantiation calls has no address yet.
NoCallee == "none"

Gate(kind, m) == at["chain"] \in Views => kind = "call" /\ m \in {"view", "pure"}

Silent == Both([code |-> "ok", data |-> <<>>])

\* The input buffer is short: no host call is made.
CallTooShort ==
  /\ Body
  /\ Ends(RunningHosts, Both(Err("InputBufTooSmall")), Silent)
  /\ fresh' = TRUE
  /\ UNCHANGED <<buf, hostVars>>

\* Raw and typed calls; Raw leaves the output to extract_output.
Raw == BufWords + 1

Call(kind, c, m, reentry, a, arity, room) ==
  \E w \in AfterCallee(kind, CallFlags(m, reentry), a) :
  LET hosts == Following(kind, c, a, w)
      ans == [h \in Hosts |-> HostAnswer(h, kind, c, a)]
      typed == arity # Raw
      r == [h \in Hosts |->
              IF ~IsOk(ans[h]) THEN Err(ConvertError(ans[h].code))
              ELSE IF typed THEN ExtractOutput(buf[h], ans[h].data, arity, room) ELSE RawOk]
  IN /\ Body /\ Gate(kind, m)
     /\ Ends(hosts, r, ans)
     /\ at' = Parted(hosts)
     /\ ret' = On(hosts, <<>>, [h \in Hosts |-> ans[h].data])
     /\ buf' = On(hosts, BlankBuffer, [h \in Hosts |->
                  IF IsOk(ans[h]) /\ typed THEN BufAfter(buf[h], ans[h].data, room) ELSE buf[h]])
     /\ fresh' = (r["chain"].code \in Errors)
     /\ word' = [word EXCEPT !["chain"] = w]
     /\ clean' = (clean /\ hosts = Hosts)
     /\ UNCHANGED <<lock, undo, mockVars, slot, snap, test>>

\* extract_output after a raw call that succeeded.
Extract(arity, room) ==
  LET r == [h \in Hosts |-> ExtractOutput(buf[h], ret[h], arity, room)]
  IN /\ Body /\ \A h \in Hosts : Running(h) => got[h] = RawOk
     /\ Ends(RunningHosts, r, Silent)
     /\ buf' = On(RunningHosts, BlankBuffer, [h \in Hosts |-> BufAfter(buf[h], ret[h], room)])
     /\ fresh' = (fresh \/ r["chain"].code \in Errors)
     /\ UNCHANGED hostVars

-----------------------------------------------------------------------------
(* Precompiles                                                             *)

Precompiles == {"ecrecover", "p256_verify"}

\* call_precompile and what its two callers make of the word: a failed call
\* and any other width are no answer; neither leaves an error behind.
Recovered(which, a) ==
  IF ~IsOk(a) \/ Len(a.data) # 1 THEN Nothing
  ELSE IF which = "ecrecover" /\ a.data = <<Zero>> THEN Nothing
  ELSE IF which = "p256_verify" /\ a.data # <<One>> THEN Nothing
  ELSE Ok(a.data)

Precompile(which, a) ==
  LET hosts == Following("call", which, a, word["chain"])
      ans == [h \in Hosts |-> HostAnswer(h, "call", which, a)]
  IN /\ Body
     /\ Ends(hosts, [h \in Hosts |-> Recovered(which, ans[h])], ans)
     /\ at' = Parted(hosts)
     /\ ret' = On(hosts, <<>>, [h \in Hosts |-> ans[h].data])
     /\ buf' = On(hosts, BlankBuffer, buf)
     /\ fresh' = FALSE
     /\ clean' = (clean /\ hosts = Hosts)
     /\ UNCHANGED <<word, lock, undo, mockVars, slot, snap, test>>

-----------------------------------------------------------------------------
(* Errors                                                                  *)

\* A derived SolError: too short for a selector, ours, or somebody else's.
DecodeError(d) ==
  IF d = <<>> THEN "bad"
  ELSE IF d[1] # Selector THEN "none"
  ELSE IF Len(d) < 2 THEN "bad" ELSE d[2]

\* Mutant: whatever the error, the return data is decoded.
TryDecode_AnyError(h, room) ==
  IF err[h] = "none" THEN "none"
  ELSE IF room # Alloc /\ room < Len(ret[h]) THEN "bad"
  ELSE DecodeError(ret[h])

\* try_decode_error_raw with a buffer of `room` words, try_decode_error with
\* one of the right size: only a revert has data of its own.
TryDecode(h, room) ==
  IF err[h] # "CalleeReverted" THEN "none"
  ELSE IF room # Alloc /\ room < Len(ret[h]) THEN "bad"
  ELSE DecodeError(ret[h])

TryDecodeError(room) ==
  /\ Body /\ err["chain"] # "none"
  /\ decoded' = On(RunningHosts, "unset", [h \in Hosts |-> TryDecode(h, room)])
  /\ buf' = On(RunningHosts, BlankBuffer, [h \in Hosts |->
               IF err[h] = "CalleeReverted" THEN BufAfter(buf[h], ret[h], room) ELSE buf[h]])
  /\ ops' = ops + 1
  /\ UNCHANGED <<got, err, raised, fresh, hostVars>>

-----------------------------------------------------------------------------
Write(v) ==
  /\ Body /\ at["chain"] \notin Views
  /\ word' = [h \in Hosts |-> IF Running(h) THEN v ELSE word[h]]
  /\ ops' = ops + 1
  /\ UNCHANGED <<lock, undo, ret, mockVars, slot, snap, at, test, clean>>
  /\ UNCHANGED <<buf, got, err, raised, fresh, decoded>>

BeginMethod ==
  /\ ops < MaxOps /\ ops' = ops + 1
  /\ \E m \in Methods : Begin(m)
  /\ Blank

Exit ==
  /\ test = "running"
  /\ Return \/ Revert(TRUE) \/ Revert(FALSE) \/ ConsumeAllGas \/ Terminate
  /\ Blank /\ UNCHANGED ops

Harness ==
  /\ \/ Snapshot \/ Restore \/ TakeReturnValue
     \/ \E c \in Callees, r \in MockCallReturns : MockCall(c, r)
     \/ \E r \in Outputs : MockInstantiate(r)
  /\ UNCHANGED callVars

Buffers == Rooms \union {Alloc}
Readings == {<<Raw, 0>>} \union (Arities \X Buffers)

Next ==
  \/ BeginMethod \/ Harness \/ Exit
  \/ CallTooShort
  \/ \E c \in Callees, m \in Mutabilities, reentry \in BOOLEAN, a \in Answers,
        out \in Readings : Call("call", c, m, reentry, a, out[1], out[2])
  \/ \E c \in Callees, a \in Answers, out \in Readings :
       Call("delegate_call", c, "nonpayable", FALSE, a, out[1], out[2])
  \/ \E a \in Answers, out \in Readings :
       Call("instantiate", NoCallee, "nonpayable", FALSE, a, out[1], out[2])
  \/ \E out \in Arities \X Buffers : Extract(out[1], out[2])
  \/ \E which \in Precompiles, a \in Answers : Precompile(which, a)
  \/ \E room \in Buffers : TryDecodeError(room)
  \/ \E v \in Values : Write(v)

Spec == Init /\ [][Next]_vars

-----------------------------------------------------------------------------
(* Properties                                                              *)

\* A typed output is what the last callee returned, from its first word on:
\* never the rest of an output buffer that an earlier call has filled
\* (extract_output on the slice return_data_copy leaves, call.rs:331-337).
OutputIsTheAnswer ==
  \A h \in Hosts : Running(h) /\ IsOk(got[h]) =>
    /\ Len(got[h].value) <= Len(ret[h])
    /\ got[h].value = SubSeq(ret[h], 1, Len(got[h].value))

\* An error decoded before the next host call is the one the failed callee
\* raised: a call that failed without a callee's revert decodes to nothing,
\* even while the return data of an earlier revert is still there. One kept
\* past another host call, which replaces that data, is left out: it decodes
\* to whatever is there then (try_decode_error and try_decode_error_raw,
\* call.rs:43-80).
ErrorsAreTheirs ==
  \A h \in Hosts : Running(h) /\ fresh /\ decoded[h] \in Words =>
    Len(raised[h]) >= 2 /\ raised[h][1] = Selector /\ raised[h][2] = decoded[h]

\* A `&self` method leaves its contract's storage alone, whichever callees it
\* calls and whether or not they may call back: the borrow of the root allows
\* it only calls that carry READ_ONLY (call.rs:360-364 and 539-569).
ViewMethodsKeepStorage ==
  Running("chain") /\ at["chain"] \in Views => word["chain"] = undo

\* As long as callees answer on chain what the test configured, one return
\* for each callee and one for instantiations, and storage is as in the mock,
\* every operation of a method succeeds in the mock exactly when it does on
\* chain, with the same value; only which error a failure is may differ, and
\* an error's data. A callee that answers a method twice and differently parts
\* the runs: no entry is changed while a method runs (resolve_call and
\* instantiate, mock_host.rs:916-943 and 1075-1104).
MockShowsTheChain ==
  Running("mock") /\ Running("chain") =>
    /\ got["mock"].code \in Errors <=> got["chain"].code \in Errors
    /\ got["chain"].code \notin Errors => got["mock"] = got["chain"]

\* A test that restores, after each method that failed, the snapshot it took
\* before it runs on the chain's storage and is refused nothing the chain
\* grants, although the mock undoes nothing by itself and keeps the transient
\* key with the rest (snapshot and restore, mock_host.rs:382-391).
RestoredMockIsTheChain ==
  clean => at["mock"] = at["chain"] /\ word["mock"] = word["chain"]
             /\ lock["mock"] = lock["chain"]

=============================================================================
