---------------------------- MODULE CallsProofs ----------------------------
(* What holds of cross-contract calls, and of the mock they are tested on,  *)
(* for every set of values, words and answers, every buffer and any number  *)
(* of operations.                                                           *)
EXTENDS Calls, SequenceTheorems, TLAPS

\* What the mock may be configured to return for a callee, for instantiations.
CallEntries == MockCallReturns \union {NoEntry}
InstantiateEntries == Outputs \union {NoEntry}

Snapshots == [taken : {TRUE}, word : Values, lock : BOOLEAN,
              callReturns : [Callees -> CallEntries], instantiateReturn : InstantiateEntries,
              slot : {"none", "return", "revert"}, clean : BOOLEAN]

\* Of each host: what it stores and where its run stands.
HostTypes ==
  /\ word \in [Hosts -> Values] /\ undo \in Values
  /\ lock \in [Hosts -> BOOLEAN]
  /\ ret \in [Hosts -> Seq(Words)]
  /\ callReturns \in [Callees -> CallEntries] /\ instantiateReturn \in InstantiateEntries
  /\ at \in [Hosts -> Methods \union {"idle", "astray"}] /\ at["chain"] # "astray"
  /\ test \in {"running", "failed", "over"} /\ clean \in BOOLEAN
  /\ snap = NoSnapshot \/ snap \in Snapshots
  /\ slot \in {"none", "return", "revert"}

\* A method runs on the chain when it runs at all, the chain's key is that of
\* a method under way, and between methods its storage is what it committed.
ChainInv ==
  /\ lock["chain"] => at["chain"] = "guarded"
  /\ at["mock"] # "idle" => Running("chain")
  /\ ~Running("chain") /\ test # "over" => word["chain"] = undo

\* A snapshot taken of a mock that was the chain still is what the chain
\* would go back to.
SnapshotInv == snap.taken /\ snap.clean => snap.word = undo /\ ~snap.lock

HostInv == HostTypes /\ ChainInv /\ SnapshotInv /\ RestoredMockIsTheChain

Results == [code : Errors \union {"ok", "none", "raw"}, value : Seq(Words)]

CallTypes ==
  /\ buf \in [Hosts -> Seq(Words)] /\ \A h \in Hosts : Len(buf[h]) = BufWords
  /\ got \in [Hosts -> Results]
  /\ err \in [Hosts -> Errors \union {"none"}]
  /\ raised \in [Hosts -> Seq(Words)]
  /\ fresh \in BOOLEAN
  /\ decoded \in [Hosts -> Words \union {"unset", "none", "bad"}]

\* Until the next host call, a revert's data is the host's return data; and
\* where a raw call succeeded, both hosts hold the same.
ReturnDataInv ==
  /\ \A h \in Hosts : Running(h) /\ fresh /\ err[h] = "CalleeReverted" => raised[h] = ret[h]
  /\ Running("mock") /\ got["chain"] = RawOk => ret["mock"] = ret["chain"]

CallsInv ==
  /\ HostInv /\ CallTypes /\ ReturnDataInv
  /\ OutputIsTheAnswer /\ ErrorsAreTheirs /\ ViewMethodsKeepStorage /\ MockShowsTheChain

-----------------------------------------------------------------------------
(* Answers and outputs                                                     *)

LEMMA HostsAre == Hosts = {"chain", "mock"} /\ "chain" \in Hosts /\ "mock" \in Hosts
BY DEF Hosts

\* A result is an error or it is not.
LEMMA ResultKinds ==
  /\ "ok" \notin Errors /\ "none" \notin Errors /\ "raw" \notin Errors
  /\ "CalleeReverted" \in Errors /\ "Unknown" \in Errors
  /\ \A e \in Errors : Err(e) \in Results
  /\ \A v \in Seq(Words) : Ok(v) \in Results
  /\ Nothing \in Results /\ RawOk \in Results
BY EmptySeq DEF Errors, Codes, Results, Err, Ok, Nothing, RawOk

\* convert_error gives an error for every code.
LEMMA Converted == \A c : ConvertError(c) \in Errors
BY DEF ConvertError, Errors

LEMMA MethodsAre == "idle" \notin Methods /\ "astray" \notin Methods
BY DEF Methods

\* The call has an address, or it is an instantiation.
Addressed(kind, c) == kind = "instantiate" \/ c \in Callees

\* Both hosts give an answer; where the method's run goes on as on chain, they
\* agree on whether the callee succeeded and, if it did, on what it returned.
LEMMA HostsAgree ==
  ASSUME HostTypes, NEW kind, NEW c, Addressed(kind, c), NEW a \in Answers, NEW w
  PROVE  /\ \A h \in Hosts : HostAnswer(h, kind, c, a).data \in Seq(Words)
         /\ \A h \in Following(kind, c, a, w) : IsOk(HostAnswer(h, kind, c, a)) <=> IsOk(a)
         /\ \A h \in Following(kind, c, a, w) : IsOk(a) => HostAnswer(h, kind, c, a) = a
<1>1. a.data \in Seq(Words) /\ <<>> \in Seq(Words) /\ ret["mock"] \in Seq(Words)
  BY MockHostAssumption, HostsAre, EmptySeq DEF HostTypes
<1>2. \A e \in CallEntries \union InstantiateEntries : e.data \in Seq(Words)
  <2>1. \A b \in Answers : b.data \in Seq(Words)
    BY MockHostAssumption, Zenon
  <2>2. Reverted.data \in Seq(Words) /\ NoEntry.data \in Seq(Words)
    BY <1>1 DEF Reverted, NoEntry
  <2> QED
    BY <2>1, <2>2 DEF CallEntries, InstantiateEntries, MockCallReturns, Outputs
<1>3. HostAnswer("mock", kind, c, a).data \in Seq(Words)
  <2>1. CASE kind = "instantiate"
    BY <1>1, <1>2, <2>1 DEF HostAnswer, MockInstantiated, HostTypes
  <2>2. CASE kind # "instantiate"
    <3>1. callReturns[c] \in CallEntries
      BY <2>2 DEF Addressed, HostTypes
    <3> QED
      BY <1>1, <1>2, <2>2, <3>1 DEF HostAnswer, ResolveCall
  <2> QED
    BY <2>1, <2>2
<1>4. ASSUME "mock" \in Following(kind, c, a, w)
      PROVE  /\ IsOk(HostAnswer("mock", kind, c, a)) <=> IsOk(a)
             /\ IsOk(a) => HostAnswer("mock", kind, c, a) = a
  <2>1. Foretold(kind, c, a)
    BY <1>4, HostsAre DEF Following
  <2>2. a = [code |-> a.code, data |-> a.data]
    BY MockHostAssumption
  <2>3. CASE kind = "instantiate"
    BY <2>1, <2>3 DEF Foretold, HostAnswer, MockInstantiated, IsOk, NoEntry
  <2>4. CASE kind # "instantiate" /\ ~IsOk(a)
    BY <2>1, <2>4 DEF Foretold, HostAnswer, ResolveCall, IsOk, NoEntry, Reverted
  <2>5. CASE kind # "instantiate" /\ IsOk(a)
    <3>1. CASE callReturns[c] = a
      BY <2>5, <3>1 DEF HostAnswer, ResolveCall, IsOk, NoEntry
    <3>2. CASE callReturns[c] = NoEntry /\ a.data = <<>>
      <4>1. HostAnswer("mock", kind, c, a) = [code |-> "ok", data |-> <<>>]
        BY <2>5, <3>2 DEF HostAnswer, ResolveCall
      <4>2. a = [code |-> "ok", data |-> <<>>]
        BY <2>2, <2>5, <3>2 DEF IsOk
      <4> QED
        BY <2>5, <4>1, <4>2
    <3> QED
      BY <2>1, <2>5, <3>1, <3>2 DEF Foretold, IsOk
  <2> QED
    BY <2>3, <2>4, <2>5
<1>5. \A h \in Hosts : h = "mock" \/ HostAnswer(h, kind, c, a) = a
  BY HostsAre DEF HostAnswer
<1>6. Following(kind, c, a, w) \subseteq Hosts
  BY DEF Following
<1> QED
  BY <1>1, <1>3, <1>4, <1>5, <1>6

\* The output buffer has room for the data that is copied into it.
Room(d, room) == IF room = Alloc THEN Larger(BufWords, Len(d)) ELSE room

\* extract_output sees the data and nothing else of the buffer.
LEMMA Extracted ==
  ASSUME NEW b \in Seq(Words), Len(b) = BufWords, NEW d \in Seq(Words),
         NEW arity \in Arities, NEW room \in Buffers
  PROVE  ExtractOutput(b, d, arity, room) =
           IF Len(d) > Room(d, room) THEN Err("OutputBufTooSmall")
           ELSE IF Len(d) < arity THEN Err("DecodingError")
           ELSE Ok(SubSeq(d, 1, arity))
<1> DEFINE o == OutputBuf(b, d, room)
           front == SubSeq(Copied(d, o), 1, Len(d))
<1>1. /\ BufWords \in Nat /\ arity \in Nat /\ arity <= BufWords /\ Zero \in Words
      /\ room = BufWords + 1 \/ (room \in Nat /\ room <= BufWords)
      /\ Len(d) \in Nat
  BY CallsAssumption, LenProperties DEF Buffers, Alloc
<1>2. o \in Seq(Words) /\ Len(o) = Room(d, room)
  <2>1. CASE room = Alloc
    <3> DEFINE n == Larger(BufWords, Len(d))
    <3>1. n \in Nat
      BY <1>1 DEF Larger
    <3>2. [k \in 1..n |-> Zero] \in [1..n -> Words]
      BY <1>1
    <3>3. [k \in 1..n |-> Zero] \in Seq(Words) /\ Len([k \in 1..n |-> Zero]) = n
      BY <3>1, <3>2, SeqDef, LenProperties, SMT
    <3> QED BY <2>1, <3>3 DEF OutputBuf, Room
  <2>2. CASE room # Alloc
    <3>1. room \in Nat /\ room <= BufWords
      BY <2>2, <1>1 DEF Alloc
    <3>2. \A k \in 1..room : b[k] \in Words
      BY <3>1, <1>1, ElementOfSeq
    <3>3. SubSeq(b, 1, room) \in Seq(Words) /\ Len(SubSeq(b, 1, room)) = room
      BY <3>1, <3>2, SubSeqProperties
    <3> QED BY <2>2, <3>3 DEF OutputBuf, Room
  <2> QED BY <2>1, <2>2
<1>3. CASE Len(d) > Room(d, room)
  BY <1>2, <1>3 DEF ExtractOutput
<1>4. CASE ~(Len(d) > Room(d, room))
  <2>1. Len(d) <= Len(o) /\ Len(o) \in Nat
    BY <1>1, <1>2, <1>4, LenProperties
  <2>2. DOMAIN o = 1..Len(o)
    BY <1>2, LenProperties
  <2>3. \A k \in 1..Len(d) : Copied(d, o)[k] = d[k]
    BY <2>1, <2>2, <1>1 DEF Copied
  <2>4. \A k \in 1..Len(d) : Copied(d, o)[k] \in Words
    BY <2>3, ElementOfSeq
  <2>5. /\ front \in Seq(Words) /\ Len(front) = Len(d)
        /\ \A k \in 1..Len(d) : front[k] = d[k]
    BY <2>3, <2>4, <1>1, SubSeqProperties
  <2>6. front = d
    BY <2>5, SeqEqual
  <2>7. ExtractOutput(b, d, arity, room) = Decode(d, arity)
    BY <1>4, <1>2, <2>6 DEF ExtractOutput
  <2> QED
    BY <2>7, <1>4 DEF Decode
<1> QED
  BY <1>3, <1>4

\* What is decoded is the front of the data, and what is left in the buffer is
\* a buffer.
LEMMA FrontOf ==
  ASSUME NEW d \in Seq(Words), NEW n \in Nat, n <= Len(d)
  PROVE  SubSeq(d, 1, n) \in Seq(Words) /\ Len(SubSeq(d, 1, n)) = n
<1>1. Len(d) \in Nat /\ \A k \in 1..n : d[k] \in Words
  BY LenProperties, ElementOfSeq
<1> QED
  BY <1>1, SubSeqProperties

LEMMA WholeSeq ==
  ASSUME NEW d \in Seq(Words)
  PROVE  SubSeq(d, 1, Len(d)) = d
<1>1. Len(d) \in Nat /\ \A k \in 1..Len(d) : d[k] \in Words
  BY LenProperties, ElementOfSeq
<1>2. /\ SubSeq(d, 1, Len(d)) \in Seq(Words) /\ Len(SubSeq(d, 1, Len(d))) = Len(d)
      /\ \A k \in 1..Len(d) : SubSeq(d, 1, Len(d))[k] = d[k]
  BY <1>1, SubSeqProperties
<1> QED
  BY <1>2, SeqEqual

LEMMA BlankIsBuffer == BlankBuffer \in Seq(Words) /\ Len(BlankBuffer) = BufWords
<1>1. BufWords \in Nat /\ Zero \in Words
  BY CallsAssumption
<1>2. BlankBuffer \in [1..BufWords -> Words]
  BY <1>1 DEF BlankBuffer
<1> QED
  BY <1>1, <1>2, SeqDef, LenProperties, SMT

LEMMA BufferStays ==
  ASSUME NEW b \in Seq(Words), Len(b) = BufWords, NEW d \in Seq(Words), NEW room
  PROVE  BufAfter(b, d, room) \in Seq(Words) /\ Len(BufAfter(b, d, room)) = BufWords
<1>1. BufWords \in Nat /\ DOMAIN b = 1..BufWords /\ Len(d) \in Nat
  BY CallsAssumption, LenProperties
<1>2. \A k \in 1..BufWords : b[k] \in Words
  BY ElementOfSeq
<1>3. \A k \in 1..Len(d) : d[k] \in Words
  BY ElementOfSeq
<1>4. Copied(d, b) \in [1..BufWords -> Words]
  BY <1>1, <1>2, <1>3 DEF Copied
<1>5. Copied(d, b) \in Seq(Words) /\ Len(Copied(d, b)) = BufWords
  BY <1>1, <1>4, SeqDef, LenProperties, SMT
<1> QED
  BY <1>5 DEF BufAfter

-----------------------------------------------------------------------------
(* The hosts                                                               *)

\* What an operation of a running method does to the hosts: the mock's run may
\* part from the chain's, whose storage changes under no `&self` method; while
\* it does not, both store the same.
BodyEffect ==
  /\ Body /\ UNCHANGED <<lock, undo, mockVars, slot, snap, test>>
  /\ ret' \in [Hosts -> Seq(Words)] /\ word' \in [Hosts -> Values]
  /\ at' \in [Hosts -> Methods \union {"idle", "astray"}]
  /\ at'["chain"] = at["chain"] /\ (at["mock"] = "idle" => at'["mock"] = "idle")
  /\ clean' \in BOOLEAN
  /\ clean' => clean /\ at' = at /\ word'["mock"] = word'["chain"]
  /\ at["chain"] \in Views => word'["chain"] = word["chain"]

LEMMA EffectKeeps ==
  ASSUME HostInv, ViewMethodsKeepStorage, BodyEffect
  PROVE  HostInv' /\ ViewMethodsKeepStorage'
<1> USE HostsAre
<1>1. HostTypes'
  BY DEF HostInv, HostTypes, BodyEffect, mockVars
<1>2. ChainInv'
  BY DEF HostInv, ChainInv, BodyEffect, Body, Running
<1>3. SnapshotInv'
  BY DEF HostInv, SnapshotInv, BodyEffect
<1>4. RestoredMockIsTheChain'
  BY DEF HostInv, RestoredMockIsTheChain, BodyEffect
<1>5. ViewMethodsKeepStorage'
  BY DEF ViewMethodsKeepStorage, BodyEffect, Running
<1> QED
  BY <1>1, <1>2, <1>3, <1>4, <1>5 DEF HostInv

\* Where a call leaves the runs of the method.
LEMMA PartedIs ==
  ASSUME HostTypes, Body, NEW kind, NEW c, NEW a, NEW w,
         at' = Parted(Following(kind, c, a, w))
  PROVE  /\ at' \in [Hosts -> Methods \union {"idle", "astray"}]
         /\ at'["chain"] = at["chain"] /\ (at["mock"] = "idle" => at'["mock"] = "idle")
         /\ "chain" \in Following(kind, c, a, w)
         /\ Following(kind, c, a, w) = Hosts => at' = at /\ w = word["mock"]
         /\ \A h \in Hosts : Running(h)' <=> h \in Following(kind, c, a, w)
         /\ \A h \in Following(kind, c, a, w) : h \in Hosts /\ Running(h)
<1> USE HostsAre, MethodsAre
<1>1. /\ \A h \in Following(kind, c, a, w) : h \in Hosts /\ Running(h)
      /\ "chain" \in Following(kind, c, a, w)
  BY DEF Following, Body
<1>2. \A h \in Hosts : at'[h] = IF Running(h) /\ h \notin Following(kind, c, a, w)
                                THEN "astray" ELSE at[h]
  BY DEF Parted
<1>3. at' \in [Hosts -> Methods \union {"idle", "astray"}]
  BY DEF Parted, HostTypes
<1>4. at'["chain"] = at["chain"] /\ (at["mock"] = "idle" => at'["mock"] = "idle")
  BY <1>1, <1>2 DEF Running
<1>5. ASSUME Following(kind, c, a, w) = Hosts
      PROVE  at' = at /\ w = word["mock"]
  <2>1. \A h \in Hosts : at'[h] = at[h]
    BY <1>2, <1>5
  <2>2. at' = at
    BY <1>3, <2>1 DEF HostTypes
  <2> QED
    BY <1>5, <2>2 DEF Following
<1>6. \A h \in Hosts : Running(h)' <=> h \in Following(kind, c, a, w)
  BY <1>1, <1>2 DEF Running
<1> QED
  BY <1>1, <1>3, <1>4, <1>5, <1>6

\* A call that may write the caller's storage is none that a `&self` method
\* can make.
LEMMA CalleeKeepsView ==
  ASSUME NEW kind, NEW m, NEW reentry, NEW a, Gate(kind, m), at["chain"] \in Views
  PROVE  AfterCallee(kind, CallFlags(m, reentry), a) = {word["chain"]}
BY DEF Gate, AfterCallee, MayWrite, CallFlags

LEMMA CallEffect ==
  ASSUME HostTypes, NEW kind, NEW c, Addressed(kind, c), NEW m, NEW reentry,
         NEW a \in Answers, NEW arity, NEW room, Call(kind, c, m, reentry, a, arity, room)
  PROVE  BodyEffect
<1> USE HostsAre
<1>1. PICK w \in AfterCallee(kind, CallFlags(m, reentry), a) :
        /\ Body /\ Gate(kind, m)
        /\ at' = Parted(Following(kind, c, a, w))
        /\ ret' = On(Following(kind, c, a, w), <<>>,
                     [h \in Hosts |-> HostAnswer(h, kind, c, a).data])
        /\ word' = [word EXCEPT !["chain"] = w]
        /\ clean' = (clean /\ Following(kind, c, a, w) = Hosts)
        /\ UNCHANGED <<lock, undo, mockVars, slot, snap, test>>
  BY Zenon DEF Call
<1>2. ret' \in [Hosts -> Seq(Words)]
  <2>1. \A h \in Hosts : HostAnswer(h, kind, c, a).data \in Seq(Words)
    BY HostsAgree
  <2> QED
    BY <1>1, <2>1, EmptySeq DEF On
<1>3. w \in Values
  BY <1>1 DEF AfterCallee, HostTypes
<1>4. /\ word' \in [Hosts -> Values] /\ word'["mock"] = word["mock"]
      /\ word'["chain"] = w
  BY <1>1, <1>3 DEF HostTypes
<1>5. at["chain"] \in Views => w = word["chain"]
  BY <1>1, CalleeKeepsView
<1>6. clean' \in BOOLEAN /\ (clean' => clean /\ Following(kind, c, a, w) = Hosts)
  BY <1>1 DEF HostTypes
<1>7. /\ at' \in [Hosts -> Methods \union {"idle", "astray"}]
      /\ at'["chain"] = at["chain"] /\ (at["mock"] = "idle" => at'["mock"] = "idle")
      /\ Following(kind, c, a, w) = Hosts => at' = at /\ w = word["mock"]
  BY <1>1, PartedIs
<1> QED
  BY <1>1, <1>2, <1>4, <1>5, <1>6, <1>7 DEF BodyEffect

LEMMA PrecompileEffect ==
  ASSUME HostInv, NEW which \in Precompiles, NEW a \in Answers, Precompile(which, a)
  PROVE  BodyEffect
<1> USE HostsAre
<1> DEFINE hosts == Following("call", which, a, word["chain"])
<1>1. HostTypes /\ Addressed("call", which)
  BY CallsAssumption DEF HostInv, Addressed, Precompiles
<1>2. /\ Body /\ at' = Parted(hosts)
      /\ ret' = On(hosts, <<>>, [h \in Hosts |-> HostAnswer(h, "call", which, a).data])
      /\ clean' = (clean /\ hosts = Hosts)
      /\ UNCHANGED <<word, lock, undo, mockVars, slot, snap, test>>
  BY Zenon DEF Precompile
<1>3. ret' \in [Hosts -> Seq(Words)]
  <2>1. \A h \in Hosts : HostAnswer(h, "call", which, a).data \in Seq(Words)
    BY <1>1, HostsAgree
  <2> QED
    BY <1>2, <2>1, EmptySeq DEF On
<1>4. /\ at' \in [Hosts -> Methods \union {"idle", "astray"}]
      /\ at'["chain"] = at["chain"] /\ (at["mock"] = "idle" => at'["mock"] = "idle")
      /\ hosts = Hosts => at' = at /\ word["chain"] = word["mock"]
  BY <1>1, <1>2, PartedIs
<1>5. clean' \in BOOLEAN /\ (clean' => clean /\ hosts = Hosts)
  BY <1>1, <1>2 DEF HostTypes
<1> HIDE DEF hosts
<1> QED
  BY <1>1, <1>2, <1>3, <1>4, <1>5 DEF BodyEffect, HostTypes

LEMMA OtherEffects ==
  ASSUME HostInv,
         \/ CallTooShort
         \/ \E out \in Arities \X Buffers : Extract(out[1], out[2])
         \/ \E room \in Buffers : TryDecodeError(room)
         \/ \E v \in Values : Write(v)
  PROVE  BodyEffect
<1> USE HostsAre
<1>1. HostTypes /\ (clean => at["mock"] = at["chain"] /\ word["mock"] = word["chain"])
  BY DEF HostInv, RestoredMockIsTheChain
<1>2. ASSUME Body, UNCHANGED hostVars
      PROVE  BodyEffect
  BY <1>1, <1>2 DEF hostVars, BodyEffect, HostTypes
<1>3. CASE CallTooShort
  BY <1>2, <1>3 DEF CallTooShort
<1>4. CASE \E out \in Arities \X Buffers : Extract(out[1], out[2])
  BY <1>2, <1>4 DEF Extract
<1>5. CASE \E room \in Buffers : TryDecodeError(room)
  BY <1>2, <1>5 DEF TryDecodeError
<1>6. CASE \E v \in Values : Write(v)
  <2>1. PICK v \in Values : Write(v)
    BY <1>6
  <2>2. word' \in [Hosts -> Values] /\ \A h \in Hosts : word'[h] = IF Running(h) THEN v ELSE word[h]
    BY <1>1, <2>1 DEF Write, HostTypes
  <2>3. clean => Running("mock")
    BY <1>1, <2>1 DEF Write, Body, Running
  <2> QED
    BY <1>1, <2>1, <2>2, <2>3 DEF Write, BodyEffect, HostTypes, Body
<1> QED
  BY <1>3, <1>4, <1>5, <1>6

\* The mock records an exit, or the test has failed by its assertion.
LEMMA Recorded ==
  ASSUME HostTypes, NEW e \in {"return", "revert"}, RecordReturn(e)
  PROVE  /\ slot' \in {"none", "return", "revert"}
         /\ test' \in {"running", "failed", "over"}
         /\ test' = "over" => test = "over"
BY DEF HostTypes, RecordReturn

\* A snapshot is taken or there is none.
LEMMA SnapshotKinds ==
  ASSUME HostTypes
  PROVE  /\ snap.taken \in BOOLEAN
         /\ snap.taken => /\ snap \in Snapshots
                          /\ snap.word \in Values /\ snap.lock \in BOOLEAN
                          /\ snap.callReturns \in [Callees -> CallEntries]
                          /\ snap.instantiateReturn \in InstantiateEntries
                          /\ snap.slot \in {"none", "return", "revert"}
                          /\ snap.clean \in BOOLEAN
         /\ ~snap.taken => snap = NoSnapshot
<1>1. CASE snap = NoSnapshot
  BY <1>1 DEF NoSnapshot
<1>2. CASE snap \in Snapshots
  BY <1>2 DEF Snapshots
<1> QED
  BY <1>1, <1>2 DEF HostTypes

LEMMA BeginKeepsHosts ==
  ASSUME HostInv, NEW m \in Methods, Begin(m)
  PROVE  HostInv' /\ ViewMethodsKeepStorage'
<1> USE HostsAre, MethodsAre
<1>1. /\ slot' \in {"none", "return", "revert"} /\ test' \in {"running", "failed", "over"}
      /\ test' = "over" => test = "over"
  BY Recorded DEF Begin, HostInv, HostTypes
<1>2. ~lock["chain"] /\ word["chain"] = undo
  BY DEF Begin, Idle, Running, HostInv, ChainInv
<1>3. /\ at' \in [Hosts -> Methods \union {"idle", "astray"}] /\ at'["chain"] = m
      /\ clean => at'["mock"] = IF Refused(m, "mock") THEN "idle" ELSE m
  BY <1>2 DEF Begin, Refused
<1>4. lock' \in [Hosts -> BOOLEAN] /\ \A h \in Hosts : lock'[h] = (lock[h] \/ m = "guarded")
  BY DEF Begin, HostInv, HostTypes
<1>5. HostTypes'
  BY <1>1, <1>3, <1>4 DEF Begin, HostInv, HostTypes, mockVars
<1>6. ChainInv'
  BY <1>2, <1>3, <1>4 DEF Begin, ChainInv, Running
<1>7. SnapshotInv'
  BY DEF Begin, HostInv, SnapshotInv
<1>8. RestoredMockIsTheChain'
  BY <1>2, <1>3, <1>4 DEF Begin, HostInv, RestoredMockIsTheChain, Refused
<1>9. ViewMethodsKeepStorage'
  BY <1>2 DEF Begin, ViewMethodsKeepStorage
<1> QED
  BY <1>5, <1>6, <1>7, <1>8, <1>9 DEF HostInv

LEMMA HarnessKeepsHosts ==
  ASSUME HostInv, \/ Snapshot \/ Restore \/ TakeReturnValue
                  \/ \E c \in Callees, r \in MockCallReturns : MockCall(c, r)
                  \/ \E r \in Outputs : MockInstantiate(r)
  PROVE  HostInv' /\ ViewMethodsKeepStorage'
<1> USE HostsAre
<1>1. /\ test = "running" /\ ~Running("chain") /\ ~Running("mock")
      /\ at["mock"] = "idle" /\ at["chain"] = "idle"
      /\ ~lock["chain"] /\ word["chain"] = undo
  BY HostsAre, MethodsAre
  DEF Snapshot, Restore, TakeReturnValue, MockCall, MockInstantiate, Idle, Running, HostInv, ChainInv
<1>2. CASE Snapshot
  <2>1. snap' \in Snapshots
    BY <1>2 DEF Snapshot, Snapshots, HostInv, HostTypes
  <2>2. HostTypes'
    BY <1>2, <2>1 DEF Snapshot, HostInv, HostTypes, mockVars
  <2>3. SnapshotInv'
    BY <1>1, <1>2 DEF Snapshot, SnapshotInv, HostInv, RestoredMockIsTheChain
  <2> QED
    BY <1>1, <1>2, <2>2, <2>3
    DEF Snapshot, HostInv, ChainInv, RestoredMockIsTheChain, ViewMethodsKeepStorage, Running
<1>3. CASE Restore
  <2>1. /\ snap.word \in Values /\ snap.lock \in BOOLEAN /\ snap.clean \in BOOLEAN
        /\ snap.callReturns \in [Callees -> CallEntries]
        /\ snap.instantiateReturn \in InstantiateEntries
        /\ snap.slot \in {"none", "return", "revert"}
    BY <1>3, SnapshotKinds DEF Restore, HostInv
  <2>2. HostTypes'
    BY <1>3, <2>1 DEF Restore, HostInv, HostTypes
  <2>3. ~snap'.taken
    BY <1>3 DEF Restore, NoSnapshot
  <2>4. RestoredMockIsTheChain'
    <3>1. SUFFICES ASSUME clean'
                   PROVE  RestoredMockIsTheChain'
      BY DEF RestoredMockIsTheChain
    <3>2. snap.taken /\ snap.clean
      BY <1>3, <3>1 DEF Restore
    <3>3. snap.word = undo /\ ~snap.lock
      BY <3>2 DEF HostInv, SnapshotInv
    <3>4. at'["mock"] = at'["chain"]
      BY <1>1, <1>3 DEF Restore, Running
    <3>5. word'["mock"] = snap.word /\ word'["chain"] = word["chain"]
      BY <1>3 DEF Restore, HostInv, HostTypes
    <3>6. ~lock'["mock"] /\ ~lock'["chain"]
      BY <1>1, <1>3, <3>3 DEF Restore, HostInv, HostTypes
    <3>7. lock'["mock"] = lock'["chain"]
      BY <2>2, <3>6 DEF HostTypes
    <3> QED
      BY <1>1, <3>3, <3>4, <3>5, <3>7 DEF RestoredMockIsTheChain
  <2> QED
    BY <1>1, <1>3, <2>2, <2>3, <2>4
    DEF Restore, HostInv, HostTypes, ChainInv, SnapshotInv, ViewMethodsKeepStorage, Running
<1>4. CASE TakeReturnValue
  <2>1. HostTypes'
    BY <1>4 DEF TakeReturnValue, HostInv, HostTypes, mockVars
  <2>2. ChainInv'
    BY <1>4 DEF TakeReturnValue, HostInv, ChainInv, Running
  <2>3. SnapshotInv'
    BY <1>4 DEF TakeReturnValue, HostInv, SnapshotInv
  <2>4. RestoredMockIsTheChain'
    BY <1>4 DEF TakeReturnValue, HostInv, RestoredMockIsTheChain
  <2> QED
    BY <1>1, <1>4, <2>1, <2>2, <2>3, <2>4 DEF TakeReturnValue, HostInv, ViewMethodsKeepStorage, Running
<1>5. ASSUME UNCHANGED <<word, lock, undo, ret, slot, snap, at, test, clean>>,
             callReturns' \in [Callees -> CallEntries], instantiateReturn' \in InstantiateEntries
      PROVE  HostInv' /\ ViewMethodsKeepStorage'
  <2>1. HostTypes'
    BY <1>5 DEF HostInv, HostTypes
  <2>2. ChainInv' /\ SnapshotInv' /\ RestoredMockIsTheChain' /\ ViewMethodsKeepStorage'
    BY <1>1, <1>5 DEF HostInv, ChainInv, SnapshotInv, RestoredMockIsTheChain,
                      ViewMethodsKeepStorage, Running
  <2> QED
    BY <2>1, <2>2 DEF HostInv
<1>6. CASE \E c \in Callees, r \in MockCallReturns : MockCall(c, r)
  <2>1. callReturns' \in [Callees -> CallEntries] /\ instantiateReturn' \in InstantiateEntries
    BY <1>6 DEF MockCall, HostInv, HostTypes, CallEntries
  <2> QED
    BY <1>5, <1>6, <2>1 DEF MockCall
<1>7. CASE \E r \in Outputs : MockInstantiate(r)
  <2>1. callReturns' \in [Callees -> CallEntries] /\ instantiateReturn' \in InstantiateEntries
    BY <1>7 DEF MockInstantiate, HostInv, HostTypes, InstantiateEntries
  <2> QED
    BY <1>5, <1>7, <2>1 DEF MockInstantiate
<1> QED
  BY <1>2, <1>3, <1>4, <1>6, <1>7

\* What the chain has committed since makes a snapshot no way back.
LEMMA Spoiled ==
  \A s \in Snapshots : [s EXCEPT !.clean = FALSE] \in Snapshots
                       /\ ~[s EXCEPT !.clean = FALSE].clean
BY DEF Snapshots

\* What an exit leaves of the two hosts.
LEMMA EndedIs ==
  ASSUME HostInv, NEW stored \in Values, NEW passed \in BOOLEAN,
         NEW e \in {"return", "revert", "none"}, Ended(stored, passed, e)
  PROVE  /\ at' = [h \in Hosts |-> "idle"] /\ ret' \in [Hosts -> Seq(Words)]
         /\ \A h \in Hosts : ~Running(h)' /\ at'[h] = "idle"
         /\ word' \in [Hosts -> Values] /\ word'["chain"] = stored
         /\ lock' \in [Hosts -> BOOLEAN] /\ ~lock'["chain"]
         /\ at["mock"] # "astray" => /\ word'["mock"] = word["mock"]
                                     /\ lock'["mock"] = LockLeft("mock", passed)
         /\ slot' \in {"none", "return", "revert"} /\ test' \in {"running", "failed", "over"}
         /\ test = "running" => test' # "over"
         /\ UNCHANGED mockVars /\ Running("chain")
<1> USE HostsAre, MethodsAre
<1>1. HostTypes
  BY DEF HostInv
<1>2. PICK left \in (IF at["mock"] = "astray" THEN StrayEnds ELSE {MockEnds(passed, e)}) :
        /\ word' = [h \in Hosts |-> IF h = "chain" THEN stored ELSE left.word]
        /\ lock' = [h \in Hosts |-> h = "mock" /\ left.lock]
        /\ IF left.exit = "none" THEN UNCHANGED <<slot, test>> ELSE RecordReturn(left.exit)
  BY Zenon DEF Ended
<1>3. /\ left.word \in Values /\ left.lock \in BOOLEAN
      /\ left.exit \in {"return", "revert", "none"}
  <2>1. CASE at["mock"] = "astray"
    BY <1>1, <1>2, <2>1 DEF StrayEnds, HostTypes
  <2>2. CASE at["mock"] # "astray"
    <3>1. left = MockEnds(passed, e) /\ LockLeft("mock", passed) \in BOOLEAN
      BY <1>2, <2>2 DEF LockLeft
    <3>2. /\ left.word = word["mock"] /\ left.lock = LockLeft("mock", passed)
          /\ left.exit = IF Running("mock") THEN e ELSE "none"
      BY <3>1 DEF MockEnds
    <3> QED
      BY <1>1, <3>1, <3>2 DEF HostTypes
  <2> QED
    BY <2>1, <2>2
<1>4. at["mock"] # "astray" => left.word = word["mock"] /\ left.lock = LockLeft("mock", passed)
  BY <1>2 DEF MockEnds
<1>5. /\ slot' \in {"none", "return", "revert"} /\ test' \in {"running", "failed", "over"}
      /\ test = "running" => test' # "over"
  BY <1>1, <1>2, <1>3, Recorded DEF HostTypes
<1>6. /\ at' = [h \in Hosts |-> "idle"] /\ ret' = [h \in Hosts |-> <<>>]
      /\ UNCHANGED mockVars /\ Running("chain")
  BY Zenon DEF Ended
<1>7. ret' \in [Hosts -> Seq(Words)] /\ \A h \in Hosts : ~Running(h)' /\ at'[h] = "idle"
  BY <1>6, EmptySeq DEF Running
<1>8. /\ word' \in [Hosts -> Values] /\ word'["chain"] = stored
      /\ word'["mock"] = left.word
  BY <1>2, <1>3
<1>9. /\ lock' \in [Hosts -> BOOLEAN] /\ ~lock'["chain"] /\ lock'["mock"] = left.lock
  BY <1>2, <1>3
<1> QED
  BY <1>4, <1>5, <1>6, <1>7, <1>8, <1>9

\* Every exit leaves no method running and the chain where it committed.
LEMMA ExitKeepsHosts ==
  ASSUME HostInv, test = "running",
         Return \/ Revert(TRUE) \/ Revert(FALSE) \/ ConsumeAllGas \/ Terminate
  PROVE  HostInv' /\ ViewMethodsKeepStorage'
<1> USE HostsAre, MethodsAre
<1>1. HostTypes /\ undo \in Values /\ word["chain"] \in Values
  BY DEF HostInv, HostTypes
<1>2. ASSUME NEW stored \in Values, NEW passed \in BOOLEAN,
             NEW e \in {"return", "revert", "none"},
             Ended(stored, passed, e), undo' = stored, clean' \in BOOLEAN,
             snap' = NoSnapshot \/ snap' \in Snapshots, SnapshotInv',
             clean' => clean /\ passed /\ stored = word["chain"]
      PROVE  HostInv' /\ ViewMethodsKeepStorage'
  <2>1. /\ ret' \in [Hosts -> Seq(Words)] /\ at' = [h \in Hosts |-> "idle"]
        /\ \A h \in Hosts : ~Running(h)' /\ at'[h] = "idle"
        /\ word' \in [Hosts -> Values] /\ word'["chain"] = stored
        /\ lock' \in [Hosts -> BOOLEAN] /\ ~lock'["chain"]
        /\ at["mock"] # "astray" => /\ word'["mock"] = word["mock"]
                                    /\ lock'["mock"] = LockLeft("mock", passed)
        /\ slot' \in {"none", "return", "revert"} /\ test' \in {"running", "failed", "over"}
        /\ callReturns' = callReturns /\ instantiateReturn' = instantiateReturn
    BY <1>2, EndedIs DEF mockVars
  <2>2. at' \in [Hosts -> Methods \union {"idle", "astray"}]
    BY <2>1
  <2>3. HostTypes'
    BY <1>1, <1>2, <2>1, <2>2 DEF HostTypes
  <2>4. ChainInv'
    BY <1>2, <2>1 DEF ChainInv
  <2>5. ASSUME clean'
        PROVE  at'["mock"] = at'["chain"] /\ word'["mock"] = word'["chain"]
                 /\ lock'["mock"] = lock'["chain"]
    <3>1. /\ at["mock"] = at["chain"] /\ word["mock"] = word["chain"]
          /\ lock["mock"] = lock["chain"] /\ at["mock"] # "astray"
      BY <1>1, <1>2, <2>5 DEF HostInv, RestoredMockIsTheChain, HostTypes
    <3>2. ~LockLeft("mock", passed)
      BY <1>2, <2>5, <3>1 DEF LockLeft, HostInv, ChainInv
    <3> QED
      BY <1>2, <2>1, <2>5, <3>1, <3>2
  <2>6. ViewMethodsKeepStorage'
    BY <2>1 DEF ViewMethodsKeepStorage
  <2> QED
    BY <1>2, <2>3, <2>4, <2>5, <2>6 DEF HostInv, RestoredMockIsTheChain
<1>3. CASE Return
  <2>1. /\ Ended(word["chain"], TRUE, "return") /\ undo' = word["chain"] /\ clean' = clean
        /\ snap' = IF snap.taken THEN [snap EXCEPT !.clean = FALSE] ELSE snap
    BY <1>3, Zenon DEF Return
  <2>2. snap' = NoSnapshot \/ (snap' \in Snapshots /\ ~snap'.clean)
    <3>1. snap = NoSnapshot \/ (snap \in Snapshots /\ snap.taken)
      BY <1>1 DEF HostTypes, Snapshots
    <3>2. CASE snap = NoSnapshot
      BY <2>1, <3>2, Zenon DEF NoSnapshot
    <3>3. CASE snap \in Snapshots /\ snap.taken
      BY <2>1, <3>3, Spoiled, Zenon
    <3> QED
      BY <3>1, <3>2, <3>3
  <2>3. SnapshotInv'
    BY <2>2 DEF SnapshotInv, NoSnapshot
  <2>4. clean' \in BOOLEAN
    BY <1>1, <2>1 DEF HostTypes
  <2> QED
    BY <1>1, <1>2, <2>1, <2>2, <2>3, <2>4
<1>4. ASSUME undo' = undo, snap' = snap
      PROVE  SnapshotInv' /\ (snap' = NoSnapshot \/ snap' \in Snapshots)
  BY <1>1, <1>4 DEF HostInv, SnapshotInv, HostTypes
<1>5. CASE Revert(TRUE) \/ Revert(FALSE)
  <2>1. PICK passed \in BOOLEAN : Ended(undo, passed, "revert") /\ clean' = FALSE
                                  /\ undo' = undo /\ snap' = snap
    BY <1>5, Zenon DEF Revert
  <2> QED
    BY <1>1, <1>2, <1>4, <2>1
<1>6. CASE ConsumeAllGas
  <2>1. Ended(undo, FALSE, "none") /\ clean' = FALSE /\ undo' = undo /\ snap' = snap
    BY <1>6, Zenon DEF ConsumeAllGas
  <2> QED
    BY <1>1, <1>2, <1>4, <2>1
<1>7. CASE Terminate
  <2>1. /\ at' = [h \in Hosts |-> "idle"] /\ ret' = [h \in Hosts |-> <<>>]
        /\ lock' = [lock EXCEPT !["chain"] = FALSE]
        /\ test' = "over" /\ clean' = FALSE
        /\ UNCHANGED <<word, undo, mockVars, slot, snap>>
    BY <1>7 DEF Terminate
  <2>2. HostTypes' /\ ChainInv'
    BY <1>1, <2>1, EmptySeq DEF HostTypes, ChainInv, mockVars, Running
  <2> QED
    BY <1>4, <2>1, <2>2 DEF HostInv, RestoredMockIsTheChain, ViewMethodsKeepStorage, Running
<1> QED
  BY <1>3, <1>5, <1>6, <1>7

-----------------------------------------------------------------------------
(* The results                                                             *)

\* What extract_output gives: the front of the data, or an error that is no
\* revert; and the same for every output buffer.
LEMMA ExtractResult ==
  ASSUME NEW b \in Seq(Words), Len(b) = BufWords, NEW d \in Seq(Words),
         NEW arity \in Arities, NEW room \in Buffers
  PROVE  LET x == ExtractOutput(b, d, arity, room)
         IN /\ x \in Results /\ x # RawOk /\ x.code # "CalleeReverted"
            /\ x.code \in Errors \/ IsOk(x)
            /\ IsOk(x) => Len(x.value) <= Len(d) /\ x.value = SubSeq(d, 1, Len(x.value))
            /\ \A c \in Seq(Words) : Len(c) = BufWords => ExtractOutput(c, d, arity, room) = x
<1> DEFINE x == ExtractOutput(b, d, arity, room)
<1>1. \/ x = Err("OutputBufTooSmall") \/ x = Err("DecodingError")
      \/ Len(d) >= arity /\ x = Ok(SubSeq(d, 1, arity))
  <2>1. Len(d) \in Nat /\ arity \in Nat
    BY CallsAssumption, LenProperties
  <2> QED
    BY <2>1, Extracted
<1>2. \A c \in Seq(Words) : Len(c) = BufWords => ExtractOutput(c, d, arity, room) = x
  BY Extracted
<1>3. CASE x = Err("OutputBufTooSmall") \/ x = Err("DecodingError")
  <2>1. "OutputBufTooSmall" \in Errors /\ "DecodingError" \in Errors
    BY DEF Errors
  <2> QED
    BY <1>2, <1>3, <2>1, ResultKinds DEF Err, RawOk, IsOk
<1>4. CASE Len(d) >= arity /\ x = Ok(SubSeq(d, 1, arity))
  <2>1. arity \in Nat /\ arity <= Len(d)
    BY <1>4, CallsAssumption, LenProperties
  <2>2. SubSeq(d, 1, arity) \in Seq(Words) /\ Len(SubSeq(d, 1, arity)) = arity
    BY <2>1, FrontOf
  <2> HIDE DEF x
  <2>3. x.code = "ok" /\ x.value = SubSeq(d, 1, arity)
    BY <1>4 DEF Ok
  <2>4. x \in Results
    BY <1>4, <2>2, ResultKinds
  <2>5. Len(x.value) = arity
    BY <2>2, <2>3
  <2>6. Len(x.value) <= Len(d) /\ x.value = SubSeq(d, 1, Len(x.value))
    BY <2>1, <2>3, <2>5
  <2>7. x # RawOk /\ x.code # "CalleeReverted" /\ IsOk(x)
    BY <2>3 DEF RawOk, IsOk
  <2> QED
    BY <1>2, <2>4, <2>6, <2>7 DEF x
<1> QED
  BY <1>1, <1>3, <1>4

\* The five that speak of a method's results.
ResultsInv ==
  CallTypes /\ ReturnDataInv /\ OutputIsTheAnswer /\ ErrorsAreTheirs /\ MockShowsTheChain

\* Two hosts that show the method the same.
Agree(r) ==
  /\ r["mock"].code \in Errors <=> r["chain"].code \in Errors
  /\ r["chain"].code \notin Errors => r["mock"] = r["chain"]

\* What a method decodes is the front of the return data an operation leaves.
AreAnswers(hosts, r) ==
  \A h \in hosts : IsOk(r[h]) =>
    Len(r[h].value) <= Len(ret'[h]) /\ r[h].value = SubSeq(ret'[h], 1, Len(r[h].value))

\* The hosts whose run goes on are among those that ran it.
GoesOn(hosts) ==
  /\ "chain" \in hosts
  /\ \A h \in hosts : h \in Hosts /\ Running(h)
  /\ \A h \in Hosts : Running(h)' <=> h \in hosts

\* An operation ends well with results of the last return data, the same on
\* both hosts, and errors whose data is the return data it leaves.
EndsWell(hosts, r, ans) ==
  /\ GoesOn(hosts) /\ Ends(hosts, r, ans)
  /\ \A h \in hosts : r[h] \in Results
  /\ \A h \in hosts : ans[h].data \in Seq(Words)
  /\ buf' \in [Hosts -> Seq(Words)] /\ \A h \in Hosts : Len(buf'[h]) = BufWords
  /\ ret' \in [Hosts -> Seq(Words)] /\ fresh' \in BOOLEAN
  /\ AreAnswers(hosts, r) /\ ("mock" \in hosts => Agree(r))
  /\ \A h \in hosts : r[h].code = "CalleeReverted" =>
       ~IsOk(ans[h]) /\ ret'[h] = ans[h].data
  /\ fresh' => \/ fresh /\ ret' = ret
               \/ \A h \in hosts : r[h].code \in Errors
  /\ "mock" \in hosts /\ r["chain"] = RawOk => ret'["mock"] = ret'["chain"]

LEMMA EndsKeeps ==
  ASSUME CallsInv, NEW hosts, NEW r, NEW ans, EndsWell(hosts, r, ans)
  PROVE  ResultsInv'
<1> USE HostsAre DEF EndsWell
<1>1. \A h \in Hosts : Running(h)' <=> h \in hosts
  BY DEF GoesOn
<1>2. \A h \in hosts :
        /\ h \in Hosts /\ Running(h)
        /\ got'[h] = r[h] /\ decoded'[h] = "unset"
        /\ err'[h] = IF r[h].code \in Errors THEN r[h].code ELSE err[h]
        /\ raised'[h] = IF r[h].code \notin Errors THEN raised[h]
                        ELSE IF IsOk(ans[h]) THEN <<>> ELSE ans[h].data
  BY DEF Ends, On, Both, GoesOn
<1>3. CallTypes'
  <2>1. got' \in [Hosts -> Results]
    BY ResultKinds DEF Ends, On
  <2>2. err' \in [Hosts -> Errors \union {"none"}]
    BY DEF Ends, On, CallsInv, CallTypes
  <2>3. raised' \in [Hosts -> Seq(Words)]
    BY EmptySeq DEF Ends, On, CallsInv, CallTypes
  <2>4. decoded' \in [Hosts -> Words \union {"unset", "none", "bad"}]
    BY DEF Ends, Both
  <2> QED
    BY <2>1, <2>2, <2>3, <2>4 DEF CallTypes
<1>4. ASSUME NEW h \in hosts, fresh', err'[h] = "CalleeReverted"
      PROVE  raised'[h] = ret'[h]
  <2>1. CASE r[h].code \in Errors
    BY <1>2, <1>4, <2>1
  <2>2. CASE r[h].code \notin Errors
    BY <1>2, <1>4, <2>2 DEF CallsInv, ReturnDataInv
  <2> QED
    BY <2>1, <2>2
<1>5. ReturnDataInv'
  <2>1. \A h \in Hosts : Running(h)' /\ fresh' /\ err'[h] = "CalleeReverted" => raised'[h] = ret'[h]
    BY <1>1, <1>4
  <2>2. Running("mock")' /\ got'["chain"] = RawOk => ret'["mock"] = ret'["chain"]
    BY <1>1, <1>2 DEF GoesOn
  <2> QED
    BY <2>1, <2>2 DEF ReturnDataInv
<1>6. OutputIsTheAnswer'
  BY <1>1, <1>2 DEF OutputIsTheAnswer, AreAnswers
<1>7. ErrorsAreTheirs'
  <2>1. \A h \in Hosts : decoded'[h] \notin Words
    BY CallsAssumption DEF Ends, Both
  <2> QED
    BY <2>1 DEF ErrorsAreTheirs
<1>8. MockShowsTheChain'
  BY <1>1, <1>2 DEF MockShowsTheChain, Agree, GoesOn
<1> QED
  BY <1>3, <1>5, <1>6, <1>7, <1>8 DEF ResultsInv

\* An operation that calls nobody goes on wherever it runs.
LEMMA StaysOn ==
  ASSUME Body, at' = at
  PROVE  GoesOn(RunningHosts)
BY HostsAre DEF GoesOn, RunningHosts, Body, Running

-----------------------------------------------------------------------------
(* The operations                                                          *)

LEMMA CallTooShortKeeps ==
  ASSUME CallsInv, CallTooShort
  PROVE  ResultsInv'
<1> USE HostsAre
<1> DEFINE r == Both(Err("InputBufTooSmall"))
<1>1. "InputBufTooSmall" \in Errors
  BY DEF Errors
<1>2. \A h \in Hosts : r[h] = Err("InputBufTooSmall")
  BY DEF Both
<1>3. \A h \in Hosts : r[h].code = "InputBufTooSmall" /\ ~IsOk(r[h]) /\ r[h] # RawOk
  BY <1>2 DEF Err, IsOk, RawOk
<1>4. \A h \in Hosts : r[h] \in Results /\ Silent[h].data \in Seq(Words)
  BY <1>1, <1>2, ResultKinds, EmptySeq DEF Silent, Both
<1>5. /\ Body /\ Ends(RunningHosts, r, Silent) /\ fresh' = TRUE
      /\ buf' = buf /\ at' = at /\ ret' = ret
  BY DEF CallTooShort, hostVars
<1>6. GoesOn(RunningHosts) /\ \A h \in RunningHosts : h \in Hosts
  BY <1>5, StaysOn DEF RunningHosts
<1>7. Agree(r) /\ AreAnswers(RunningHosts, r)
  BY <1>1, <1>3 DEF Agree, AreAnswers, RunningHosts
<1>8. /\ buf \in [Hosts -> Seq(Words)] /\ \A h \in Hosts : Len(buf[h]) = BufWords
      /\ ret \in [Hosts -> Seq(Words)]
  BY DEF CallsInv, CallTypes, HostInv, HostTypes
<1> HIDE DEF r
<1>9. EndsWell(RunningHosts, r, Silent)
  BY <1>1, <1>3, <1>4, <1>5, <1>6, <1>7, <1>8 DEF EndsWell
<1> QED
  BY <1>9, EndsKeeps, Zenon

LEMMA CallKeeps ==
  ASSUME CallsInv, NEW kind, NEW c, Addressed(kind, c), NEW m, NEW reentry,
         NEW a \in Answers, NEW arity, NEW room,
         arity = Raw \/ (arity \in Arities /\ room \in Buffers),
         Call(kind, c, m, reentry, a, arity, room)
  PROVE  ResultsInv'
<1> USE HostsAre
<1> DEFINE answer == [h \in Hosts |-> HostAnswer(h, kind, c, a)]
           result == [h \in Hosts |->
                        IF ~IsOk(answer[h]) THEN Err(ConvertError(answer[h].code))
                        ELSE IF arity # Raw THEN ExtractOutput(buf[h], answer[h].data, arity, room)
                        ELSE RawOk]
<1>0. PICK w : /\ Body /\ at' = Parted(Following(kind, c, a, w))
               /\ Ends(Following(kind, c, a, w), result, answer)
               /\ ret' = On(Following(kind, c, a, w), <<>>, [h \in Hosts |-> answer[h].data])
               /\ buf' = On(Following(kind, c, a, w), BlankBuffer, [h \in Hosts |->
                           IF IsOk(answer[h]) /\ arity # Raw
                           THEN BufAfter(buf[h], answer[h].data, room) ELSE buf[h]])
               /\ fresh' = (result["chain"].code \in Errors)
  BY Zenon DEF Call
<1>1. PICK hosts, ans, r :
        /\ hosts = Following(kind, c, a, w)
        /\ ans = [h \in Hosts |-> HostAnswer(h, kind, c, a)]
        /\ r = [h \in Hosts |->
                  IF ~IsOk(ans[h]) THEN Err(ConvertError(ans[h].code))
                  ELSE IF arity # Raw THEN ExtractOutput(buf[h], ans[h].data, arity, room)
                  ELSE RawOk]
        /\ Body /\ Ends(hosts, r, ans) /\ at' = Parted(hosts)
        /\ ret' = On(hosts, <<>>, [h \in Hosts |-> ans[h].data])
        /\ buf' = On(hosts, BlankBuffer, [h \in Hosts |->
                    IF IsOk(ans[h]) /\ arity # Raw THEN BufAfter(buf[h], ans[h].data, room)
                    ELSE buf[h]])
        /\ fresh' = (r["chain"].code \in Errors)
  BY <1>0, Zenon
<1> HIDE DEF answer, result
<1>2. HostTypes
  BY DEF CallsInv, HostInv
<1>3. GoesOn(hosts) /\ "chain" \in hosts /\ \A h \in hosts : h \in Hosts
  BY <1>1, <1>2, PartedIs DEF GoesOn
<1>4. /\ \A h \in Hosts : ans[h].data \in Seq(Words)
      /\ \A h \in hosts : (IsOk(ans[h]) <=> IsOk(a)) /\ (IsOk(a) => ans[h] = a)
  <2>1. \A h \in Hosts : ans[h] = HostAnswer(h, kind, c, a)
    BY <1>1
  <2> QED
    BY <1>1, <1>2, <1>3, <2>1, HostsAgree
<1>5. \A h \in Hosts : buf[h] \in Seq(Words) /\ Len(buf[h]) = BufWords
  BY DEF CallsInv, CallTypes
<1>6. /\ buf' \in [Hosts -> Seq(Words)] /\ \A h \in Hosts : Len(buf'[h]) = BufWords
  <2>1. \A h \in Hosts : BufAfter(buf[h], ans[h].data, room) \in Seq(Words)
                         /\ Len(BufAfter(buf[h], ans[h].data, room)) = BufWords
    BY <1>4, <1>5, BufferStays
  <2> QED BY <1>1, <1>5, <2>1, BlankIsBuffer DEF On
<1>7. ret' \in [Hosts -> Seq(Words)] /\ \A h \in hosts : ret'[h] = ans[h].data
  BY <1>1, <1>3, <1>4, EmptySeq DEF On
<1>8. \A h \in hosts :
        /\ ~IsOk(a) => r[h].code \in Errors /\ r[h] \in Results
        /\ IsOk(a) /\ arity = Raw => r[h] = RawOk
        /\ IsOk(a) /\ arity # Raw => r[h] = ExtractOutput(buf[h], a.data, arity, room)
  <2>1. \A x : Err(ConvertError(x)) \in Results /\ Err(ConvertError(x)).code \in Errors
    BY Converted, ResultKinds DEF Err
  <2> QED BY <1>1, <1>3, <1>4, <2>1
<1>9. \A h \in hosts : ans[h].data \in Seq(Words)
  BY <1>3, <1>4
<1>10. fresh' \in BOOLEAN /\ (fresh' => r["chain"].code \in Errors)
  <2>1. fresh' = (r["chain"].code \in Errors)
    BY <1>1
  <2>2. (r["chain"].code \in Errors) \in BOOLEAN
    OBVIOUS
  <2> QED BY <2>1, <2>2
<1>20. Ends(hosts, r, ans)
  BY <1>1
<1>11. CASE ~IsOk(a)
  <2>1. \A h \in hosts : /\ r[h].code \in Errors /\ ~IsOk(r[h]) /\ r[h] # RawOk
                         /\ r[h] \in Results /\ ~IsOk(ans[h])
    BY <1>4, <1>8, <1>11, ResultKinds DEF RawOk, IsOk
  <2>2. ("mock" \in hosts => Agree(r)) /\ AreAnswers(hosts, r)
    BY <1>3, <2>1 DEF Agree, AreAnswers
  <2>9. EndsWell(hosts, r, ans)
    BY ONLY <1>20, <1>3, <1>6, <1>7, <1>9, <1>10, <2>1, <2>2 DEF EndsWell
  <2> QED
    BY <2>9, EndsKeeps
<1>12. CASE IsOk(a) /\ arity = Raw
  <2>1. \A h \in hosts : /\ r[h] = RawOk /\ ~IsOk(r[h]) /\ r[h].code # "CalleeReverted"
                         /\ r[h].code \notin Errors /\ r[h] \in Results
    BY <1>8, <1>12, ResultKinds DEF RawOk, IsOk
  <2>2. ("mock" \in hosts => Agree(r)) /\ AreAnswers(hosts, r) /\ ~fresh'
    BY <1>3, <1>10, <2>1 DEF Agree, AreAnswers
  <2>3. "mock" \in hosts => ret'["mock"] = ret'["chain"]
    BY <1>3, <1>4, <1>7, <1>12
  <2>9. EndsWell(hosts, r, ans)
    BY ONLY <1>20, <1>3, <1>6, <1>7, <1>9, <1>10, <2>1, <2>2, <2>3 DEF EndsWell
  <2> QED
    BY <2>9, EndsKeeps
<1>13. CASE IsOk(a) /\ arity # Raw
  <2>1. a.data \in Seq(Words) /\ arity \in Arities /\ room \in Buffers
    BY <1>13, MockHostAssumption
  <2>2. \A h \in hosts :
          /\ r[h] \in Results /\ r[h] # RawOk /\ r[h].code # "CalleeReverted"
          /\ r[h].code \in Errors \/ IsOk(r[h])
          /\ IsOk(r[h]) => /\ Len(r[h].value) <= Len(a.data)
                           /\ r[h].value = SubSeq(a.data, 1, Len(r[h].value))
          /\ \A b \in Seq(Words) : Len(b) = BufWords => ExtractOutput(b, a.data, arity, room) = r[h]
    <3> SUFFICES ASSUME NEW h \in hosts
                 PROVE  /\ r[h] \in Results /\ r[h] # RawOk /\ r[h].code # "CalleeReverted"
                        /\ r[h].code \in Errors \/ IsOk(r[h])
                        /\ IsOk(r[h]) => /\ Len(r[h].value) <= Len(a.data)
                                         /\ r[h].value = SubSeq(a.data, 1, Len(r[h].value))
                        /\ \A b \in Seq(Words) : Len(b) = BufWords =>
                              ExtractOutput(b, a.data, arity, room) = r[h]
      OBVIOUS
    <3>1. r[h] = ExtractOutput(buf[h], a.data, arity, room) /\ h \in Hosts
      BY <1>3, <1>8, <1>13
    <3> QED
      BY <1>5, <2>1, <3>1, ExtractResult
  <2>3. "mock" \in hosts => r["mock"] = r["chain"]
    BY <1>3, <1>5, <1>8, <1>13, <2>2
  <2>4. "mock" \in hosts => Agree(r)
    BY <2>3 DEF Agree
  <2>5. fresh' => \A h \in hosts : r[h].code \in Errors
    BY <1>3, <1>10, <2>3
  <2>6. \A h \in hosts : ret'[h] = a.data
    BY <1>4, <1>7, <1>13
  <2>7. AreAnswers(hosts, r)
    BY <2>2, <2>6 DEF AreAnswers
  <2>8. \A h \in hosts : r[h].code # "CalleeReverted" /\ r[h] # RawOk /\ r[h] \in Results
    BY <2>2
  <2>9. EndsWell(hosts, r, ans)
    BY ONLY <1>20, <1>3, <1>6, <1>7, <1>9, <1>10, <2>4, <2>5, <2>7, <2>8 DEF EndsWell
  <2> QED
    BY <2>9, EndsKeeps
<1> QED
  BY <1>11, <1>12, <1>13

LEMMA ExtractKeeps ==
  ASSUME CallsInv, NEW arity \in Arities, NEW room \in Buffers, Extract(arity, room)
  PROVE  ResultsInv'
<1> USE HostsAre
<1>1. PICK r :
        /\ r = [h \in Hosts |-> ExtractOutput(buf[h], ret[h], arity, room)]
        /\ Body /\ \A h \in Hosts : Running(h) => got[h] = RawOk
        /\ Ends(RunningHosts, r, Silent)
        /\ buf' = On(RunningHosts, BlankBuffer,
                     [h \in Hosts |-> BufAfter(buf[h], ret[h], room)])
        /\ fresh' = (fresh \/ r["chain"].code \in Errors)
        /\ hostVars' = hostVars
  BY Zenon DEF Extract
<1>2. at' = at /\ ret' = ret
  BY <1>1 DEF hostVars
<1>3. \A h \in Hosts : /\ buf[h] \in Seq(Words) /\ Len(buf[h]) = BufWords
                       /\ ret[h] \in Seq(Words)
  BY DEF CallsInv, CallTypes, HostInv, HostTypes
<1>4. \A h \in Hosts : r[h] = ExtractOutput(buf[h], ret[h], arity, room)
  BY <1>1
<1>5. \A h \in Hosts :
        /\ r[h] \in Results /\ r[h] # RawOk /\ r[h].code # "CalleeReverted"
        /\ IsOk(r[h]) => Len(r[h].value) <= Len(ret[h]) /\ r[h].value = SubSeq(ret[h], 1, Len(r[h].value))
        /\ \A b \in Seq(Words) : Len(b) = BufWords => ExtractOutput(b, ret[h], arity, room) = r[h]
  <2> SUFFICES ASSUME NEW h \in Hosts
               PROVE  /\ r[h] \in Results /\ r[h] # RawOk /\ r[h].code # "CalleeReverted"
                      /\ IsOk(r[h]) => /\ Len(r[h].value) <= Len(ret[h])
                                       /\ r[h].value = SubSeq(ret[h], 1, Len(r[h].value))
                      /\ \A b \in Seq(Words) : Len(b) = BufWords =>
                            ExtractOutput(b, ret[h], arity, room) = r[h]
    OBVIOUS
  <2> QED
    BY <1>3, <1>4, ExtractResult
<1>6. GoesOn(RunningHosts) /\ \A h \in RunningHosts : h \in Hosts
  BY <1>1, <1>2, StaysOn DEF RunningHosts
<1>7. AreAnswers(RunningHosts, r)
  BY <1>2, <1>5, <1>6 DEF AreAnswers
<1>8. "mock" \in RunningHosts => Agree(r)
  <2> SUFFICES ASSUME "mock" \in RunningHosts PROVE Agree(r)
    OBVIOUS
  <2>1. ret["mock"] = ret["chain"]
    BY <1>1 DEF Body, CallsInv, ReturnDataInv, RunningHosts
  <2>2. r["mock"] = r["chain"]
    BY <1>3, <1>4, <1>5, <2>1
  <2> QED
    BY <2>2 DEF Agree
<1>9. /\ buf' \in [Hosts -> Seq(Words)] /\ \A h \in Hosts : Len(buf'[h]) = BufWords
  <2>1. \A h \in Hosts : BufAfter(buf[h], ret[h], room) \in Seq(Words)
                         /\ Len(BufAfter(buf[h], ret[h], room)) = BufWords
    BY <1>3, BufferStays
  <2> QED BY <1>1, <1>3, <2>1, BlankIsBuffer DEF On
<1>10. /\ fresh' \in BOOLEAN
       /\ fresh' => fresh \/ r["chain"].code \in Errors
  <2>1. fresh' = (fresh \/ r["chain"].code \in Errors)
    BY <1>1
  <2>2. (fresh \/ r["chain"].code \in Errors) \in BOOLEAN
    OBVIOUS
  <2> QED BY <2>1, <2>2
<1>11. fresh' => \/ fresh /\ ret' = ret
                 \/ \A h \in RunningHosts : r[h].code \in Errors
  BY <1>2, <1>6, <1>8, <1>10 DEF Agree
<1>12. ret' \in [Hosts -> Seq(Words)]
  BY <1>2 DEF CallsInv, HostInv, HostTypes
<1>13. \A h \in Hosts : /\ r[h] # RawOk /\ r[h].code # "CalleeReverted"
                        /\ r[h] \in Results /\ Silent[h].data \in Seq(Words)
  BY <1>5, EmptySeq DEF Silent, Both
<1>14. Ends(RunningHosts, r, Silent)
  BY <1>1
<1> QED
  <2>1. /\ \A h \in RunningHosts : r[h] \in Results
        /\ \A h \in RunningHosts : Silent[h].data \in Seq(Words)
        /\ \A h \in RunningHosts : r[h].code = "CalleeReverted" =>
             ~IsOk(Silent[h]) /\ ret'[h] = Silent[h].data
    BY <1>6, <1>13
  <2>2. "mock" \in RunningHosts /\ r["chain"] = RawOk => ret'["mock"] = ret'["chain"]
    BY <1>13
  <2>3. EndsWell(RunningHosts, r, Silent)
    BY ONLY <1>6, <1>7, <1>8, <1>9, <1>10, <1>11, <1>12, <1>14, <2>1, <2>2 DEF EndsWell
  <2> QED
    BY <2>3, EndsKeeps

LEMMA PrecompileKeeps ==
  ASSUME CallsInv, NEW which \in Precompiles, NEW a \in Answers, Precompile(which, a)
  PROVE  ResultsInv'
<1> USE HostsAre
<1>1. PICK hosts, ans, r :
        /\ hosts = Following("call", which, a, word["chain"])
        /\ ans = [h \in Hosts |-> HostAnswer(h, "call", which, a)]
        /\ r = [h \in Hosts |-> Recovered(which, ans[h])]
        /\ Body /\ Ends(hosts, r, ans) /\ at' = Parted(hosts)
        /\ ret' = On(hosts, <<>>, [h \in Hosts |-> ans[h].data])
        /\ buf' = On(hosts, BlankBuffer, buf)
        /\ fresh' = FALSE
  BY Zenon DEF Precompile
<1>2. HostTypes /\ Addressed("call", which)
  BY CallsAssumption DEF CallsInv, HostInv, Addressed, Precompiles
<1>3. GoesOn(hosts) /\ "chain" \in hosts /\ \A h \in hosts : h \in Hosts
  BY <1>1, <1>2, PartedIs DEF GoesOn
<1>4. \A h \in Hosts : ans[h] = HostAnswer(h, "call", which, a) /\ r[h] = Recovered(which, ans[h])
  BY <1>1
<1>5. /\ \A h \in Hosts : ans[h].data \in Seq(Words)
      /\ \A h \in hosts : (IsOk(ans[h]) <=> IsOk(a)) /\ (IsOk(a) => ans[h] = a)
  BY <1>1, <1>2, <1>3, <1>4, HostsAgree
<1>6. ret' \in [Hosts -> Seq(Words)] /\ \A h \in hosts : ret'[h] = ans[h].data
  BY <1>1, <1>3, <1>5, EmptySeq DEF On
<1>7. \A h \in hosts : \/ r[h] = Nothing
                       \/ IsOk(a) /\ r[h] = Ok(a.data) /\ ans[h] = a
  BY <1>3, <1>4, <1>5 DEF Recovered
<1>8. \A h \in hosts : /\ r[h] \in Results /\ r[h] # RawOk /\ r[h].code # "CalleeReverted"
                       /\ r[h].code \notin Errors /\ ans[h].data \in Seq(Words)
                       /\ IsOk(r[h]) => r[h].value = ans[h].data
  <2>1. a.data \in Seq(Words)
    BY MockHostAssumption
  <2> QED
    BY <1>3, <1>5, <1>7, <2>1, ResultKinds DEF Ok, Nothing, RawOk, IsOk
<1>9. "mock" \in hosts => Agree(r)
  <2> SUFFICES ASSUME "mock" \in hosts PROVE r["mock"] = r["chain"]
    BY DEF Agree
  <2>1. CASE IsOk(a)
    BY <1>3, <1>4, <1>5, <2>1
  <2>2. CASE ~IsOk(a)
    BY <1>3, <1>7, <2>2
  <2> QED BY <2>1, <2>2
<1>10. AreAnswers(hosts, r)
  <2> SUFFICES ASSUME NEW h \in hosts, IsOk(r[h])
               PROVE  /\ Len(r[h].value) <= Len(ret'[h])
                      /\ r[h].value = SubSeq(ret'[h], 1, Len(r[h].value))
    BY DEF AreAnswers
  <2>1. r[h].value = ret'[h] /\ ret'[h] \in Seq(Words)
    BY <1>3, <1>6, <1>8
  <2>2. Len(ret'[h]) \in Nat /\ SubSeq(ret'[h], 1, Len(ret'[h])) = ret'[h]
    BY <2>1, LenProperties, WholeSeq
  <2> QED
    BY <2>1, <2>2
<1>11. /\ buf' \in [Hosts -> Seq(Words)] /\ \A h \in Hosts : Len(buf'[h]) = BufWords
  BY <1>1, BlankIsBuffer DEF On, CallsInv, CallTypes
<1>12. Ends(hosts, r, ans) /\ fresh' = FALSE
  BY <1>1
<1> QED
  <2>1. EndsWell(hosts, r, ans)
    BY ONLY <1>3, <1>6, <1>8, <1>9, <1>10, <1>11, <1>12 DEF EndsWell
  <2> QED
    BY <2>1, EndsKeeps

\* Only the data of a revert that is still in the host is decoded.
LEMMA TryDecodeKeeps ==
  ASSUME CallsInv, NEW room \in Buffers, TryDecodeError(room)
  PROVE  ResultsInv'
<1> USE HostsAre
<1>1. /\ decoded' = On(RunningHosts, "unset", [h \in Hosts |-> TryDecode(h, room)])
      /\ buf' = On(RunningHosts, BlankBuffer, [h \in Hosts |->
                   IF err[h] = "CalleeReverted" THEN BufAfter(buf[h], ret[h], room) ELSE buf[h]])
      /\ got' = got /\ err' = err /\ raised' = raised /\ fresh' = fresh
      /\ at' = at /\ ret' = ret
  BY DEF TryDecodeError, hostVars
<1>2. \A h \in Hosts : /\ buf[h] \in Seq(Words) /\ Len(buf[h]) = BufWords
                       /\ ret[h] \in Seq(Words)
  BY DEF CallsInv, CallTypes, HostInv, HostTypes
<1>3. /\ buf' \in [Hosts -> Seq(Words)] /\ \A h \in Hosts : Len(buf'[h]) = BufWords
  <2>1. \A h \in Hosts : BufAfter(buf[h], ret[h], room) \in Seq(Words)
                         /\ Len(BufAfter(buf[h], ret[h], room)) = BufWords
    BY <1>2, BufferStays
  <2> QED BY <1>1, <1>2, <2>1, BlankIsBuffer DEF On
<1>4. \A h \in Hosts :
        /\ TryDecode(h, room) \in Words \union {"unset", "none", "bad"}
        /\ TryDecode(h, room) \in Words =>
             /\ err[h] = "CalleeReverted" /\ Len(ret[h]) >= 2
             /\ ret[h][1] = Selector /\ ret[h][2] = TryDecode(h, room)
  <2> SUFFICES ASSUME NEW h \in Hosts
               PROVE  /\ TryDecode(h, room) \in Words \union {"unset", "none", "bad"}
                      /\ TryDecode(h, room) \in Words =>
                           /\ err[h] = "CalleeReverted" /\ Len(ret[h]) >= 2
                           /\ ret[h][1] = Selector /\ ret[h][2] = TryDecode(h, room)
    OBVIOUS
  <2>1. "none" \notin Words /\ "bad" \notin Words
    BY CallsAssumption
  <2>2. \/ TryDecode(h, room) \in {"none", "bad"}
        \/ err[h] = "CalleeReverted" /\ TryDecode(h, room) = DecodeError(ret[h])
    BY DEF TryDecode
  <2>3. \/ DecodeError(ret[h]) \in {"none", "bad"}
        \/ /\ ~(Len(ret[h]) < 2) /\ ret[h][1] = Selector
           /\ DecodeError(ret[h]) = ret[h][2]
    BY DEF DecodeError
  <2>4. Len(ret[h]) \in Nat
    BY <1>2, LenProperties
  <2>5. Len(ret[h]) >= 2 => ret[h][2] \in Words
    BY <1>2, <2>4, ElementOfSeq
  <2> QED
    BY <2>1, <2>2, <2>3, <2>4, <2>5
<1>5. \A h \in Hosts : decoded'[h] = IF Running(h) THEN TryDecode(h, room) ELSE "unset"
  BY <1>1 DEF On, RunningHosts
<1>6. CallTypes'
  <2>1. decoded' \in [Hosts -> Words \union {"unset", "none", "bad"}]
    BY <1>1, <1>4, <1>5 DEF On, CallsInv, CallTypes
  <2> QED
    BY <1>1, <1>3, <2>1 DEF CallsInv, CallTypes
<1>7. ErrorsAreTheirs'
  <2> SUFFICES ASSUME NEW h \in Hosts, Running(h), fresh, decoded'[h] \in Words
               PROVE  /\ Len(raised[h]) >= 2 /\ raised[h][1] = Selector
                      /\ raised[h][2] = decoded'[h]
    BY <1>1 DEF ErrorsAreTheirs, Running
  <2>1. /\ err[h] = "CalleeReverted" /\ Len(ret[h]) >= 2
        /\ ret[h][1] = Selector /\ ret[h][2] = decoded'[h]
    BY <1>4, <1>5
  <2>2. raised[h] = ret[h]
    BY <2>1 DEF CallsInv, ReturnDataInv
  <2> QED
    BY <2>1, <2>2
<1>8. ReturnDataInv' /\ OutputIsTheAnswer' /\ MockShowsTheChain'
  BY <1>1 DEF CallsInv, ReturnDataInv, OutputIsTheAnswer, MockShowsTheChain, Running
<1> QED
  BY <1>6, <1>7, <1>8 DEF ResultsInv

LEMMA StillKeeps ==
  ASSUME CallsInv, UNCHANGED <<buf, got, err, raised, fresh, decoded, at, ret>>
  PROVE  ResultsInv'
<1>1. CallTypes'
  BY DEF CallsInv, CallTypes
<1>2. ReturnDataInv' /\ OutputIsTheAnswer' /\ MockShowsTheChain' /\ ErrorsAreTheirs'
  BY DEF CallsInv, ReturnDataInv, OutputIsTheAnswer, MockShowsTheChain, ErrorsAreTheirs, Running
<1> QED
  BY <1>1, <1>2 DEF ResultsInv

\* A method's memory is blank when it starts.
LEMMA BlankHolds ==
  ASSUME Blank
  PROVE  ResultsInv'
<1> USE HostsAre
<1>1. BlankBuffer \in Seq(Words) /\ Len(BlankBuffer) = BufWords
  BY BlankIsBuffer
<1>2. \A h \in Hosts : /\ buf'[h] = BlankBuffer /\ got'[h] = Nothing /\ err'[h] = "none"
                       /\ raised'[h] = <<>> /\ decoded'[h] = "unset"
  BY DEF Blank, Both
<1>3. CallTypes'
  BY <1>1, EmptySeq, ResultKinds DEF Blank, Both, CallTypes
<1>4. ReturnDataInv' /\ OutputIsTheAnswer' /\ ErrorsAreTheirs' /\ MockShowsTheChain'
  BY <1>2, CallsAssumption
  DEF ReturnDataInv, OutputIsTheAnswer, ErrorsAreTheirs, MockShowsTheChain, Nothing, RawOk, IsOk
<1> QED
  BY <1>3, <1>4 DEF ResultsInv

LEMMA InitHolds == Init => CallsInv
<1> USE HostsAre
<1> SUFFICES ASSUME Init PROVE CallsInv
  OBVIOUS
<1>1. HostTypes
  <2>1. ret \in [Hosts -> Seq(Words)]
    BY EmptySeq DEF Init, HostInit
  <2> QED
    BY <2>1 DEF Init, HostInit, HostTypes, CallEntries, InstantiateEntries
<1>2. HostInv
  BY <1>1 DEF Init, HostInit, HostInv, ChainInv, SnapshotInv, NoSnapshot,
              RestoredMockIsTheChain, Running
<1>3. BlankBuffer \in Seq(Words) /\ Len(BlankBuffer) = BufWords
  BY BlankIsBuffer
<1>4. CallTypes
  BY <1>3, EmptySeq, ResultKinds DEF Init, Both, CallTypes
<1>5. \A h \in Hosts : ~Running(h)
  BY MethodsAre DEF Init, HostInit, Running
<1> QED
  BY <1>2, <1>4, <1>5
  DEF CallsInv, ReturnDataInv, OutputIsTheAnswer, ErrorsAreTheirs, ViewMethodsKeepStorage,
      MockShowsTheChain

LEMMA StepKeepsInv == CallsInv /\ [Next]_vars => CallsInv'
<1> SUFFICES ASSUME CallsInv, [Next]_vars PROVE CallsInv'
  OBVIOUS
<1>1. HostInv /\ HostTypes /\ ViewMethodsKeepStorage
  BY DEF CallsInv, HostInv
<1> SUFFICES HostInv' /\ ViewMethodsKeepStorage' /\ ResultsInv'
  BY DEF CallsInv, ResultsInv
<1>2. CASE BeginMethod
  BY <1>1, <1>2, BeginKeepsHosts, BlankHolds DEF BeginMethod
<1>3. CASE Harness
  <2>1. UNCHANGED <<buf, got, err, raised, fresh, decoded, at, ret>>
    BY <1>3 DEF Harness, callVars, Snapshot, Restore, TakeReturnValue, MockCall, MockInstantiate
  <2> QED
    BY <1>1, <1>3, <2>1, HarnessKeepsHosts, StillKeeps DEF Harness
<1>4. CASE Exit
  BY <1>1, <1>4, ExitKeepsHosts, BlankHolds DEF Exit
<1>5. ASSUME NEW kind, NEW c, Addressed(kind, c), NEW m, NEW reentry, NEW a \in Answers,
             NEW out \in Readings, Call(kind, c, m, reentry, a, out[1], out[2])
      PROVE  HostInv' /\ ViewMethodsKeepStorage' /\ ResultsInv'
  <2>1. out[1] = Raw \/ (out[1] \in Arities /\ out[2] \in Buffers)
    BY DEF Readings
  <2>2. BodyEffect
    BY <1>1, <1>5, CallEffect
  <2> QED
    BY <1>1, <1>5, <2>1, <2>2, EffectKeeps, CallKeeps
<1>6. ASSUME BodyEffect, ResultsInv'
      PROVE  HostInv' /\ ViewMethodsKeepStorage' /\ ResultsInv'
  BY <1>1, <1>6, EffectKeeps
<1>7. CASE CallTooShort
  BY <1>1, <1>6, <1>7, OtherEffects, CallTooShortKeeps
<1>8. ASSUME NEW out \in Arities \X Buffers, Extract(out[1], out[2])
      PROVE  HostInv' /\ ViewMethodsKeepStorage' /\ ResultsInv'
  <2>1. out[1] \in Arities /\ out[2] \in Buffers
    OBVIOUS
  <2> QED
    BY <1>1, <1>6, <1>8, <2>1, OtherEffects, ExtractKeeps
<1>9. ASSUME NEW which \in Precompiles, NEW a \in Answers, Precompile(which, a)
      PROVE  HostInv' /\ ViewMethodsKeepStorage' /\ ResultsInv'
  BY <1>1, <1>6, <1>9, PrecompileEffect, PrecompileKeeps
<1>10. ASSUME NEW room \in Buffers, TryDecodeError(room)
       PROVE  HostInv' /\ ViewMethodsKeepStorage' /\ ResultsInv'
  BY <1>1, <1>6, <1>10, OtherEffects, TryDecodeKeeps
<1>11. ASSUME NEW v \in Values, Write(v)
       PROVE  HostInv' /\ ViewMethodsKeepStorage' /\ ResultsInv'
  <2>1. UNCHANGED <<buf, got, err, raised, fresh, decoded, at, ret>>
    BY <1>11 DEF Write
  <2> QED
    BY <1>1, <1>6, <1>11, <2>1, OtherEffects, StillKeeps
<1>12. CASE UNCHANGED vars
  <2>1. UNCHANGED <<buf, got, err, raised, fresh, decoded, at, ret>>
    BY <1>12 DEF vars, callVars, hostVars
  <2>2. HostInv' /\ ViewMethodsKeepStorage'
    BY <1>1, <1>12 DEF vars, hostVars, mockVars, HostInv, HostTypes, ChainInv, SnapshotInv,
                       RestoredMockIsTheChain, ViewMethodsKeepStorage, Running
  <2> QED
    BY <2>1, <2>2, StillKeeps
<1>13. ASSUME \/ \E c \in Callees, m \in Mutabilities, reentry \in BOOLEAN, a \in Answers,
                   out \in Readings : Call("call", c, m, reentry, a, out[1], out[2])
              \/ \E c \in Callees, a \in Answers, out \in Readings :
                   Call("delegate_call", c, "nonpayable", FALSE, a, out[1], out[2])
              \/ \E a \in Answers, out \in Readings :
                   Call("instantiate", NoCallee, "nonpayable", FALSE, a, out[1], out[2])
       PROVE  HostInv' /\ ViewMethodsKeepStorage' /\ ResultsInv'
  BY <1>5, <1>13 DEF Addressed
<1> QED
  BY <1>2, <1>3, <1>4, <1>7, <1>8, <1>9, <1>10, <1>11, <1>12, <1>13 DEF Next

LEMMA InvAlways == Spec => []CallsInv
BY InitHolds, StepKeepsInv, PTL DEF Spec

-----------------------------------------------------------------------------
(* Theorems                                                                *)

\* What a method gets from extract_output is the front of the last callee's
\* return data, whatever its output buffer holds from before.
THEOREM OutputHolds == Spec => []OutputIsTheAnswer
BY InvAlways, PTL DEF CallsInv

\* An error that try_decode_error decodes before the next host call is the one
\* its own call reverted with. Nothing is said of one decoded later.
THEOREM ErrorsHold == Spec => []ErrorsAreTheirs
BY InvAlways, PTL DEF CallsInv

\* A `&self` method's calls leave its contract's storage as it was.
THEOREM ViewsHold == Spec => []ViewMethodsKeepStorage
BY InvAlways, PTL DEF CallsInv

\* A method under test gets from the mock what it would get on chain, as long
\* as callees answer there what the test has configured, one return each.
THEOREM MockHolds == Spec => []MockShowsTheChain
BY InvAlways, PTL DEF CallsInv

\* A test that restores after every method that failed runs on the chain's
\* storage, with the chain's key.
THEOREM RestoreHolds == Spec => []RestoredMockIsTheChain
BY InvAlways, PTL DEF CallsInv, HostInv
=============================================================================
