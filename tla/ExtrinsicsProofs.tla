-------------------------- MODULE ExtrinsicsProofs --------------------------
(* What the extrinsics client can rely on, for every set of commands and    *)
(* plans, every interleaving with the node, and any number of replaced      *)
(* blocks and lost answers.                                                 *)
EXTENDS Extrinsics, SequenceTheorems, TLAPS

\* A command that has not submitted is nowhere: it waits in no pool, was never
\* executed and hears of nothing.
UnsentInv ==
  \A c \in Commands :
    /\ pc[c] \notin {"watch", "done"} => c \notin pool /\ ~Executed(c)
    /\ pc[c] # "watch" => stream[c] = << >>

\* The chain holds a transaction once, in a block it ran in, and none that waits.
ChainInv ==
  /\ \A i \in DOMAIN chain : chain[i].tx # Nobody => Ran(chain[i].tx, chain[i].outcome)
  /\ \A i, j \in DOMAIN chain : chain[i].tx # Nobody /\ chain[i].tx = chain[j].tx => i = j
  /\ \A i \in DOMAIN chain : chain[i].tx \notin pool
  /\ chain[1].tx = Nobody
  /\ reorgs = 0 => \A c \in pool : ~Executed(c)

\* An account is mapped by a command that ran, not later in the chain, and it
\* is another one that finds it mapped.
MappedInv ==
  /\ ~chain[1].state.mapped
  /\ \A i \in DOMAIN chain : chain[i].state.mapped =>
       \E j \in 1..i : /\ chain[j].tx # Nobody /\ chain[j].outcome = "ok"
                       /\ plan[chain[j].tx].kind = "map_account"
  /\ \A c \in Commands : Ran(c, "AccountAlreadyMapped") =>
       \E d \in Commands \ {c} : plan[d].kind = "map_account" /\ Ran(d, "ok")

\* What a subscription has said: an inclusion of a transaction that ran; and a
\* refusal of one that never ran and does not wait, unless it is behind an
\* inclusion, which a live subscription to one that ran always holds.
Includes(s, n) == \E k \in 1..n : s[k].status \in Included
StreamInv ==
  \A c \in Commands :
    /\ \A j \in DOMAIN stream[c] :
         /\ stream[c][j].status \in Included => Ran(c, stream[c][j].outcome)
         /\ stream[c][j].status \in {"Invalid", "Dropped"} =>
              (c \notin pool /\ ~Executed(c)) \/ Includes(stream[c], j - 1)
    /\ c \in watched /\ Executed(c) => Includes(stream[c], Len(stream[c]))

\* The limits a command that was estimated signs are those of its dry run or,
\* for the deposit, its own, and then enough for the dry run.
LimitsInv ==
  \A c \in Commands :
    /\ pc[c] \in {"idle", "estimate"} => estimated[c] = NotEstimated
    /\ estimated[c] # NotEstimated /\ plan[c].gas = NoLimit =>
         limits[c].gas = estimated[c] /\ limits[c].deposit >= estimated[c]

\* What of another command excuses a refused nonce.
LostTrack(d) == result[d] \in {"rpc_error_submitting", "error", "subscription_dropped"}
Alone(c) ==
  /\ overlaps[c] = {} /\ reorgs = 0
  /\ \A d \in Commands \ {c} : ~LostTrack(d)

\* Commands that run at the same time know of each other, a transaction that
\* waits is watched or its command lost track of it, and the nonce of a command
\* that is alone stays the next one.
NonceInv ==
  /\ \A c, d \in Commands : c # d /\ Running(c) /\ Running(d) => d \in overlaps[c]
  /\ reorgs = 0 => \A d \in pool : pc[d] = "watch" \/ LostTrack(d)
  /\ \A c \in Commands : Alone(c) /\ pc[c] = "submit" => nonce[c] = Best.nonce
  /\ \A c \in Commands, j \in Nat :
       j \in DOMAIN stream[c] /\ stream[c][j].status = "Invalid" => overlaps[c] # {}

ClientInv ==
  /\ TypeOK /\ UnsentInv /\ ChainInv /\ MappedInv /\ StreamInv /\ LimitsInv /\ NonceInv
  /\ ReportsAreTrue /\ RefusalsAreFinal /\ EstimatesHold /\ SequentialNoncesWork

-----------------------------------------------------------------------------
(* The operators                                                           *)

LEMMA ChainIs ==
  ASSUME TypeOK
  PROVE  /\ Len(chain) \in Nat /\ Len(chain) >= 1 /\ DOMAIN chain = 1..Len(chain)
         /\ \A i \in 1..Len(chain) : chain[i] \in Block
         /\ Best \in State /\ Best = chain[Len(chain)].state
<1>1. Len(chain) \in Nat /\ DOMAIN chain = 1..Len(chain) /\ finalized \in 1..Len(chain)
  BY LenProperties DEF TypeOK
<1>2. \A i \in 1..Len(chain) : chain[i] \in Block
  BY ElementOfSeq DEF TypeOK
<1>3. Len(chain) >= 1
  BY <1>1
<1>4. chain[Len(chain)] \in Block
  BY <1>1, <1>2, <1>3
<1>5. Best \in State
  BY <1>4 DEF Block, Best
<1> QED
  BY <1>1, <1>2, <1>3, <1>5 DEF Best

LEMMA StreamIs ==
  ASSUME TypeOK, NEW c \in Commands
  PROVE  /\ stream[c] \in Seq(Events) /\ Len(stream[c]) \in Nat
         /\ DOMAIN stream[c] = 1..Len(stream[c])
         /\ \A j \in 1..Len(stream[c]) : stream[c][j] \in Events
<1>1. stream[c] \in Seq(Events)
  BY DEF TypeOK
<1> QED
  BY <1>1, LenProperties, ElementOfSeq

LEMMA PlanIs ==
  ASSUME TypeOK, NEW c \in Commands
  PROVE  /\ plan[c].gas \in Nat /\ plan[c].deposit \in Nat
         /\ plan[c].kind \in Kinds /\ plan[c].reverts \in BOOLEAN
<1>1. plan[c] \in Plan
  BY DEF TypeOK
<1>2. \A n \in Limit \union {NoLimit} : n \in Nat
  BY DEF Limit, NoLimit
<1> QED
  BY <1>1, <1>2 DEF Plan

LEMMA NeedIs ==
  ASSUME NEW c \in Commands, NEW s \in State
  PROVE  Need(c, s) \in Nat
BY DEF Need, State

LEMMA OutcomeIs ==
  ASSUME NEW c \in Commands, NEW s \in State
  PROVE  Outcome(c, s) \in {"ok", "limit", "reverted", "AccountAlreadyMapped", "CodeNotFound"}
BY DEF Outcome

LEMMA AfterIs ==
  ASSUME NEW c \in Commands, NEW s \in State
  PROVE  /\ After(c, s) \in State /\ After(c, s).nonce = s.nonce + 1
         /\ After(c, s).mapped =>
              s.mapped \/ (plan[c].kind = "map_account" /\ Outcome(c, s) = "ok")
BY DEF After, State

LEMMA RefusalIs ==
  /\ DOMAIN Refusals = {"Invalid", "Dropped", "Error", "End"}
  /\ Refusals["Invalid"] = "invalid" /\ Refusals["Dropped"] = "dropped"
  /\ Refusals["Error"] = "error" /\ Refusals["End"] = "subscription_dropped"
BY DEF Refusals

\* An event reaches the stream of a transaction that is watched, behind the
\* others; the streams of the rest stay.
LEMMA NotifiedIs ==
  ASSUME TypeOK, NEW c \in Commands, NEW e \in Events
  PROVE  /\ Notified(c, e) \in [Commands -> Seq(Events)]
         /\ \A d \in Commands : d # c \/ c \notin watched => Notified(c, e)[d] = stream[d]
         /\ c \in watched => Notified(c, e)[c] = Append(stream[c], e)
<1>1. stream \in [Commands -> Seq(Events)]
  BY DEF TypeOK
<1>2. Append(stream[c], e) \in Seq(Events)
  BY <1>1, AppendProperties
<1> QED
  BY <1>1, <1>2 DEF Notified

LEMMA AppendIs ==
  ASSUME NEW s \in Seq(Events), NEW e \in Events, NEW t, t = Append(s, e)
  PROVE  /\ Len(s) \in Nat /\ Len(t) = Len(s) + 1 /\ DOMAIN t = 1..(Len(s) + 1)
         /\ DOMAIN s = 1..Len(s)
         /\ \A k \in 1..Len(s) : t[k] = s[k]
         /\ t[Len(s) + 1] = e
BY AppendProperties, LenProperties

-----------------------------------------------------------------------------
(* What keeps the parts of the invariant                                   *)

\* The chain is as it was, and only a command that submits comes to wait.
SameChain ==
  /\ UNCHANGED <<chain, ran, reorgs, plan>>
  /\ \A c \in pool' : c \in pool \/ (c \in Commands /\ pc[c] = "submit")

LEMMA SameChainKeeps ==
  ASSUME TypeOK, UnsentInv, ChainInv, MappedInv, SameChain
  PROVE  ChainInv' /\ MappedInv'
<1>1. \A c \in pool' : c \in pool \/ ~Executed(c)
  BY DEF SameChain, UnsentInv
<1>2. \A c : Executed(c)' <=> Executed(c)
  BY DEF SameChain, Executed
<1>3. \A c, o : Ran(c, o)' <=> Ran(c, o)
  BY DEF SameChain, Ran
<1>4. \A i \in DOMAIN chain : chain[i].tx \notin pool'
  <2> SUFFICES ASSUME NEW i \in DOMAIN chain, chain[i].tx \in pool', chain[i].tx \notin pool
               PROVE  FALSE
    BY DEF ChainInv
  <2>1. chain[i].tx # Nobody
    BY ChainAssumption DEF SameChain
  <2>2. Ran(chain[i].tx, chain[i].outcome)
    BY <2>1 DEF ChainInv
  <2>3. Executed(chain[i].tx)
    BY <2>2 DEF Ran, Executed
  <2> QED
    BY <1>1, <2>3
<1>5. ChainInv'
  BY <1>1, <1>2, <1>3, <1>4 DEF ChainInv, SameChain, TypeOK
<1>6. MappedInv'
  BY <1>3 DEF MappedInv, SameChain
<1> QED
  BY <1>5, <1>6

\* A dry run measures for a command that is in no block yet.
LEMMA EstimatesStay ==
  ASSUME UnsentInv, ChainInv, EstimatesHold, UNCHANGED <<chain, plan>>,
         \A c \in Commands : estimated'[c] = estimated[c] \/ pc[c] = "estimate"
  PROVE  EstimatesHold'
<1> SUFFICES ASSUME NEW c \in Commands, NEW i \in DOMAIN chain,
                    chain[i].tx = c, chain[i].outcome = "limit",
                    estimated'[c] # NotEstimated, plan[c].gas = NoLimit
             PROVE  Need(c, chain[i - 1].state) > estimated'[c]
  BY DEF EstimatesHold, Need
<1>1. Executed(c)
  <2>1. Ran(c, chain[i].outcome)
    BY ChainAssumption DEF ChainInv
  <2> QED BY <2>1 DEF Ran, Executed
<1>2. pc[c] # "estimate"
  BY <1>1 DEF UnsentInv
<1> QED
  BY <1>2 DEF EstimatesHold

\* A report is new, and of what ran, or it is an error of the command's own.
LEMMA ReportsStay ==
  ASSUME ReportsAreTrue, plan' = plan, ran \subseteq ran',
         \A c \in Commands : \/ result'[c] = result[c]
                             \/ result'[c] \notin {"ok", "dispatch_error", "already_mapped"}
  PROVE  ReportsAreTrue'
<1>1. \A c, o : Ran(c, o) => Ran(c, o)'
  BY DEF Ran
<1> QED
  BY <1>1 DEF ReportsAreTrue

\* A transaction that never ran and does not wait.
Gone(c) == c \notin pool /\ ~Executed(c)

LEMMA RefusalsStay ==
  ASSUME TypeOK, RefusalsAreFinal,
         \A c \in Commands : pc[c] = "done" /\ Gone(c) => Gone(c)',
         \A c \in Commands : \/ result'[c] = result[c]
                             \/ result'[c] \notin Definite
                             \/ Gone(c)'
  PROVE  RefusalsAreFinal'
<1>1. \A c \in Commands : result[c] \in Definite => pc[c] = "done"
  BY DEF TypeOK, Definite
<1> QED
  BY <1>1 DEF RefusalsAreFinal, Gone

\* What StreamInv says of one command.
StreamOf(c) ==
  /\ \A j \in DOMAIN stream[c] :
       /\ stream[c][j].status \in Included => Ran(c, stream[c][j].outcome)
       /\ stream[c][j].status \in {"Invalid", "Dropped"} =>
            Gone(c) \/ Includes(stream[c], j - 1)
  /\ c \in watched /\ Executed(c) => Includes(stream[c], Len(stream[c]))

LEMMA StreamParts == StreamInv <=> \A c \in Commands : StreamOf(c)
BY Zenon DEF StreamInv, StreamOf, Gone

LEMMA StreamOfSame ==
  ASSUME NEW c \in Commands, StreamOf(c), stream'[c] = stream[c], ran \subseteq ran',
         Gone(c) => Gone(c)',
         c \in watched' /\ Executed(c)' => c \in watched /\ Executed(c)
  PROVE  StreamOf(c)'
<1>1. \A o : Ran(c, o) => Ran(c, o)'
  BY DEF Ran
<1>2. \A n : Includes(stream[c], n) => Includes(stream'[c], n)
  OBVIOUS
<1> QED
  BY <1>1, <1>2 DEF StreamOf

LEMMA StreamOfEmpty ==
  ASSUME NEW c \in Commands, stream'[c] = << >>, c \notin watched'
  PROVE  StreamOf(c)'
BY DEF StreamOf

LEMMA StreamOfAppend ==
  ASSUME TypeOK, NEW c \in Commands, StreamOf(c), NEW e \in Events,
         stream'[c] = Append(stream[c], e), ran \subseteq ran',
         Gone(c) => Gone(c)', c \in watched,
         e.status \in Included => Ran(c, e.outcome)',
         e.status \in {"Invalid", "Dropped"} => Gone(c)' \/ Executed(c),
         Executed(c)' => Executed(c) \/ e.status \in Included
  PROVE  StreamOf(c)'
<1> DEFINE n == Len(stream[c])
<1>1. /\ n \in Nat /\ Len(stream'[c]) = n + 1 /\ DOMAIN stream'[c] = 1..(n + 1)
      /\ DOMAIN stream[c] = 1..n
      /\ \A k \in 1..n : stream'[c][k] = stream[c][k]
      /\ stream'[c][n + 1] = e
  BY StreamIs, AppendIs
<1> HIDE DEF n
<1>2. \A m \in 0..n : Includes(stream[c], m) => Includes(stream'[c], m)
  BY <1>1 DEF Includes
<1>3. Executed(c) => Includes(stream'[c], n)
  BY <1>1, <1>2 DEF StreamOf, n
<1>4. e.status \in Included => Includes(stream'[c], n + 1)
  BY <1>1 DEF Includes
<1>5. Includes(stream'[c], n) => Includes(stream'[c], n + 1)
  BY <1>1 DEF Includes
<1>6. \A o : Ran(c, o) => Ran(c, o)'
  BY DEF Ran
<1>7. ASSUME NEW j \in 1..(n + 1)
      PROVE  /\ stream'[c][j].status \in Included => Ran(c, stream[c][j].outcome)'
             /\ stream'[c][j].status \in {"Invalid", "Dropped"} =>
                  Gone(c)' \/ Includes(stream'[c], j - 1)
  <2>1. CASE j \in 1..n
    <3>1. stream'[c][j] = stream[c][j] /\ j - 1 \in 0..n /\ j \in DOMAIN stream[c]
      BY <1>1, <2>1
    <3> QED
      BY <1>2, <1>6, <3>1 DEF StreamOf, Ran
  <2>2. CASE j = n + 1
    <3>1. stream'[c][j] = e /\ j - 1 = n
      BY <1>1, <2>2
    <3> QED
      BY <1>3, <3>1 DEF Ran
  <2> QED
    BY <1>1, <1>7, <2>1, <2>2
<1> QED
  BY <1>1, <1>3, <1>4, <1>5, <1>7 DEF StreamOf, Ran

LEMMA StreamOfTail ==
  ASSUME TypeOK, NEW c \in Commands, StreamOf(c), stream[c] # << >>,
         Head(stream[c]).status \notin Included,
         stream'[c] = Tail(stream[c]), UNCHANGED <<pool, ran>>,
         c \in watched' => c \in watched
  PROVE  StreamOf(c)'
<1> DEFINE n == Len(stream[c])
<1>1. /\ stream[c] \in Seq(Events) /\ n \in Nat /\ n >= 1 /\ DOMAIN stream[c] = 1..n
      /\ Len(stream'[c]) = n - 1 /\ DOMAIN stream'[c] = 1..(n - 1)
      /\ \A k \in 1..(n - 1) : stream'[c][k] = stream[c][k + 1]
  <2>1. stream[c] \in Seq(Events)
    BY StreamIs
  <2> QED
    BY <2>1, HeadTailProperties, LenProperties, EmptySeq
<1>2. Head(stream[c]) = stream[c][1]
  BY <1>1
<1> HIDE DEF n
<1>3. \A m \in 1..n : Includes(stream[c], m) => Includes(stream'[c], m - 1)
  <2> SUFFICES ASSUME NEW m \in 1..n, NEW k \in 1..m, stream[c][k].status \in Included
               PROVE  \E l \in 1..(m - 1) : stream'[c][l].status \in Included
    BY DEF Includes
  <2>1. k # 1
    BY <1>2
  <2>2. k - 1 \in 1..(m - 1) /\ k - 1 \in 1..(n - 1)
    BY <1>1, <2>1
  <2>3. stream'[c][k - 1] = stream[c][k]
    BY <1>1, <2>2
  <2> QED BY <2>2, <2>3
<1>4. (Gone(c)' <=> Gone(c)) /\ (Executed(c)' <=> Executed(c)) /\ \A o : Ran(c, o)' <=> Ran(c, o)
  BY DEF Gone, Executed, Ran
<1>5. ASSUME NEW j \in 1..(n - 1)
      PROVE  /\ stream'[c][j].status \in Included => Ran(c, stream[c][j].outcome)'
             /\ stream'[c][j].status \in {"Invalid", "Dropped"} =>
                  Gone(c)' \/ Includes(stream'[c], j - 1)
  <2>1. stream'[c][j] = stream[c][j + 1] /\ j + 1 \in 1..n /\ j \in 1..n /\ (j + 1) - 1 = j
    BY <1>1
  <2>2. stream[c][j + 1].status \in {"Invalid", "Dropped"} => Gone(c) \/ Includes(stream[c], j)
    BY <1>1, <2>1 DEF StreamOf
  <2> QED
    BY <1>1, <1>3, <1>4, <2>1, <2>2 DEF StreamOf, Ran
<1>6. c \in watched' /\ Executed(c)' => Includes(stream'[c], n - 1)
  <2>1. c \in watched /\ Executed(c) => Includes(stream[c], n)
    BY DEF StreamOf, n
  <2>2. n \in 1..n
    BY <1>1
  <2> QED
    BY <1>3, <1>4, <2>1, <2>2
<1> QED
  BY <1>1, <1>5, <1>6 DEF StreamOf, Ran

\* A command that was alone until now was so before.
LEMMA AloneBefore ==
  ASSUME NEW c \in Commands, overlaps[c] \subseteq overlaps'[c], reorgs' = 0 => reorgs = 0,
         \A d \in Commands : LostTrack(d) => LostTrack(d)'
  PROVE  Alone(c)' => Alone(c)
BY DEF Alone

LEMMA SequentialStays ==
  ASSUME TypeOK, TypeOK', SequentialNoncesWork, reorgs' = 0 => reorgs = 0,
         \A c \in Commands : result[c] # "none" => overlaps[c] \subseteq overlaps'[c],
         \A d \in Commands : LostTrack(d) => LostTrack(d)',
         \A c \in Commands : \/ result'[c] = result[c]
                             \/ result'[c] \notin {"stale", "rejected", "invalid"}
                             \/ ~Alone(c)'
  PROVE  SequentialNoncesWork'
<1>1. reorgs' \in Nat /\ (reorgs' > 0 <=> reorgs' # 0)
  BY ChainAssumption DEF TypeOK
<1>2. reorgs \in Nat /\ (reorgs > 0 <=> reorgs # 0)
  BY ChainAssumption DEF TypeOK
<1>3. SequentialNoncesWork <=>
        \A c \in Commands : result[c] \in {"stale", "rejected", "invalid"} => ~Alone(c)
  BY <1>2 DEF SequentialNoncesWork, Alone, LostTrack
<1>4. SequentialNoncesWork' <=>
        \A c \in Commands : result'[c] \in {"stale", "rejected", "invalid"} => ~Alone(c)'
  BY <1>1 DEF SequentialNoncesWork, Alone, LostTrack
<1>5. ASSUME NEW c \in Commands, result'[c] \in {"stale", "rejected", "invalid"}
      PROVE  ~Alone(c)'
  <2>1. CASE result'[c] = result[c]
    <3>1. ~Alone(c) /\ overlaps[c] \subseteq overlaps'[c]
      BY <1>3, <1>5, <2>1
    <3> QED BY <3>1, AloneBefore
  <2> QED BY <1>5, <2>1
<1> QED
  BY <1>4, <1>5

\* The part of NonceInv that a step leaves alone which starts no command.
LEMMA OverlapsStay ==
  ASSUME NonceInv, UNCHANGED overlaps,
         \A c \in Commands : Running(c)' => Running(c)
  PROVE  \A c, d \in Commands : c # d /\ Running(c)' /\ Running(d)' => d \in overlaps'[c]
BY DEF NonceInv

-----------------------------------------------------------------------------
(* The steps of a command before it submits                                *)

LEMMA NodeStays ==
  ASSUME ClientInv, UNCHANGED <<node, plan>>
  PROVE  ChainInv' /\ MappedInv' /\ StreamInv'
<1>1. SameChain
  BY DEF SameChain, node
<1>2. \A c \in Commands : Gone(c)' = Gone(c) /\ Executed(c)' = Executed(c)
  BY DEF node, Gone, Executed
<1>3. StreamInv'
  <2>1. \A c \in Commands : StreamOf(c)
    BY StreamParts DEF ClientInv
  <2>2. \A c \in Commands : stream'[c] = stream[c] /\ watched' = watched /\ ran' = ran
    BY DEF node
  <2>3. \A c \in Commands : StreamOf(c)'
    BY <1>2, <2>1, <2>2, StreamOfSame
  <2> QED
    BY <2>3 DEF StreamInv, StreamOf, Gone
<1> QED
  BY <1>1, <1>3, SameChainKeeps DEF ClientInv

LEMMA StartKeeps ==
  ASSUME ClientInv, NEW c \in Commands, Start(c)
  PROVE  ClientInv'
<1>1. /\ UNCHANGED <<node, plan, nonce, estimated, result>>
      /\ pc[c] = "idle"
      /\ pc' = [pc EXCEPT ![c] = IF DryRuns(c) THEN "estimate" ELSE "nonce"]
      /\ limits' = [limits EXCEPT ![c] = GivenLimits(c)]
      /\ overlaps' = [d \in Commands |->
            IF d = c THEN {e \in Commands : Running(e)}
            ELSE IF Running(d) THEN overlaps[d] \union {c} ELSE overlaps[d]]
  BY DEF Start, Goto
<1>2. TypeOK /\ UNCHANGED <<chain, finalized, pool, watched, stream, ran, foreign, reorgs, faults>>
  BY <1>1 DEF ClientInv, node
<1>3. GivenLimits(c) \in [gas : Nat, deposit : Nat]
  BY <1>2, PlanIs DEF GivenLimits
<1>4. TypeOK'
  <2>1. limits' \in [Commands -> [gas : Nat, deposit : Nat]]
    BY <1>1, <1>2, <1>3 DEF TypeOK
  <2>2. overlaps' \in [Commands -> SUBSET Commands]
    BY <1>1, <1>2 DEF TypeOK
  <2>3. pc' \in [Commands -> {"idle", "estimate", "nonce", "submit", "watch", "done"}]
    BY <1>1, <1>2 DEF TypeOK
  <2>4. watched \subseteq {d \in Commands : pc'[d] = "watch"}
    BY <1>1, <1>2 DEF TypeOK
  <2>5. \A d \in Commands : result[d] # "none" <=> pc'[d] = "done"
    BY <1>1, <1>2 DEF TypeOK
  <2> QED
    BY <1>1, <1>2, <2>1, <2>2, <2>3, <2>4, <2>5 DEF TypeOK
<1>5. ChainInv' /\ MappedInv' /\ StreamInv'
  BY <1>1, NodeStays
<1>6. UnsentInv'
  BY <1>1, <1>2 DEF TypeOK, ClientInv, UnsentInv, Executed
<1>7. LimitsInv'
  BY <1>1, <1>2 DEF TypeOK, ClientInv, LimitsInv
<1>8. NonceInv'
  <2>1. \A b, d \in Commands : b # d /\ Running(b)' /\ Running(d)' => d \in overlaps'[b]
    BY <1>1, <1>2 DEF TypeOK, ClientInv, NonceInv, Running
  <2>2. reorgs' = 0 => \A d \in pool' : pc'[d] = "watch" \/ LostTrack(d)'
    BY <1>1, <1>2 DEF TypeOK, ClientInv, NonceInv, LostTrack
  <2>3. \A d \in Commands : Alone(d)' /\ pc'[d] = "submit" => nonce'[d] = Best'.nonce
    <3>1. \A d \in Commands : pc'[d] = "submit" => pc[d] = "submit" /\ overlaps[d] \subseteq overlaps'[d]
      BY <1>1, <1>2 DEF TypeOK
    <3>2. \A d \in Commands : pc'[d] = "submit" /\ Alone(d)' => Alone(d)
      BY <1>1, <1>2, <3>1, AloneBefore DEF LostTrack
    <3> QED
      BY <1>1, <1>2, <3>1, <3>2 DEF ClientInv, NonceInv, Best
  <2>4. \A d \in Commands, j \in Nat :
          j \in DOMAIN stream'[d] /\ stream'[d][j].status = "Invalid" => overlaps'[d] # {}
    <3>1. \A d \in Commands, j \in Nat : j \in DOMAIN stream[d] => pc[d] = "watch"
      BY DEF ClientInv, UnsentInv
    <3>2. \A d \in Commands : pc[d] = "watch" => overlaps[d] \subseteq overlaps'[d]
      BY <1>1, <1>2 DEF TypeOK
    <3> QED
      BY <1>2, <3>1, <3>2 DEF ClientInv, NonceInv
  <2> QED
    BY <2>1, <2>2, <2>3, <2>4 DEF NonceInv
<1>9. ReportsAreTrue' /\ RefusalsAreFinal' /\ EstimatesHold'
  <2>1. ReportsAreTrue'
    BY <1>1, <1>2, ReportsStay DEF ClientInv
  <2>2. RefusalsAreFinal'
    BY <1>1, <1>2 DEF ClientInv, RefusalsAreFinal, Executed
  <2>3. EstimatesHold'
    BY <1>1, <1>2, EstimatesStay DEF ClientInv
  <2> QED BY <2>1, <2>2, <2>3
<1>10. SequentialNoncesWork'
  <2>1. \A d \in Commands : result[d] # "none" => overlaps[d] \subseteq overlaps'[d]
    BY <1>1, <1>2 DEF TypeOK
  <2> QED
    BY <1>1, <1>2, <1>4, <2>1, SequentialStays DEF ClientInv, LostTrack
<1> QED
  BY <1>4, <1>5, <1>6, <1>7, <1>8, <1>9, <1>10 DEF ClientInv

\* A step of a command that has not submitted and does not: it goes on, or it
\* ends, with the error it stopped at.
EarlyStep(c) ==
  /\ pc[c] \in {"estimate", "nonce", "submit"}
  /\ UNCHANGED <<chain, finalized, pool, watched, stream, ran, foreign, reorgs>>
  /\ UNCHANGED <<plan, overlaps>>
  /\ faults' \in 0..MaxFaults
  /\ \/ \E l \in {"nonce", "submit"} : pc' = [pc EXCEPT ![c] = l] /\ result' = result
     \/ \E r \in {"dry_run_failed", "rpc_error", "stale", "rejected"} :
          pc' = [pc EXCEPT ![c] = "done"] /\ result' = [result EXCEPT ![c] = r]

LEMMA EarlyStepKeeps ==
  ASSUME ClientInv, NEW c \in Commands, EarlyStep(c),
         nonce' \in [Commands -> Nat], estimated' \in [Commands -> Nat],
         limits' \in [Commands -> [gas : Nat, deposit : Nat]],
         \A d \in Commands : estimated'[d] = estimated[d] \/ (d = c /\ pc[c] = "estimate"),
         LimitsInv',
         \A d \in Commands : Alone(d)' /\ pc'[d] = "submit" =>
            (pc[d] = "submit" /\ nonce'[d] = nonce[d]) \/ nonce'[d] = Best.nonce,
         result'[c] \in {"stale", "rejected"} => ~Alone(c)'
  PROVE  ClientInv'
<1>1. TypeOK /\ Running(c)
  BY DEF ClientInv, EarlyStep, Running
<1>2. /\ pc' \in [Commands -> {"idle", "estimate", "nonce", "submit", "watch", "done"}]
      /\ result' \in [Commands -> Results]
      /\ \A d \in Commands : result'[d] # "none" <=> pc'[d] = "done"
  <2>1. result[c] = "none"
    BY <1>1 DEF TypeOK, EarlyStep
  <2>2. CASE \E l \in {"nonce", "submit"} : pc' = [pc EXCEPT ![c] = l] /\ result' = result
    BY <1>1, <2>1, <2>2 DEF TypeOK
  <2>3. CASE \E r \in {"dry_run_failed", "rpc_error", "stale", "rejected"} :
               pc' = [pc EXCEPT ![c] = "done"] /\ result' = [result EXCEPT ![c] = r]
    <3>1. PICK r \in {"dry_run_failed", "rpc_error", "stale", "rejected"} :
             pc' = [pc EXCEPT ![c] = "done"] /\ result' = [result EXCEPT ![c] = r]
      BY <2>3
    <3>2. r \in Results /\ r # "none"
      BY DEF Results
    <3>3. \A d \in Commands : /\ d # c => pc'[d] = pc[d] /\ result'[d] = result[d]
                             /\ pc'[c] = "done" /\ result'[c] = r
      BY <1>1, <3>1 DEF TypeOK
    <3>4. \A d \in Commands : result'[d] # "none" <=> pc'[d] = "done"
      BY <1>1, <3>2, <3>3 DEF TypeOK
    <3> QED
      BY <1>1, <3>1, <3>2, <3>4 DEF TypeOK
  <2> QED
    BY <2>2, <2>3 DEF EarlyStep
<1>3. \A d \in Commands : d # c => pc'[d] = pc[d] /\ result'[d] = result[d]
  BY <1>1 DEF TypeOK, EarlyStep
<1>4. /\ pc'[c] \in {"nonce", "submit", "done"}
      /\ result'[c] = result[c] \/ result'[c] \in {"dry_run_failed", "rpc_error", "stale", "rejected"}
      /\ pc[c] # "watch" /\ pc[c] # "done"
  BY <1>1 DEF TypeOK, EarlyStep
<1>5. TypeOK'
  <2>1. watched \subseteq {d \in Commands : pc'[d] = "watch"}
    BY <1>1, <1>3, <1>4 DEF TypeOK
  <2> QED
    BY <1>1, <1>2, <2>1 DEF TypeOK, EarlyStep
<1>6. SameChain
  BY DEF EarlyStep, SameChain
<1>7. ChainInv' /\ MappedInv'
  BY <1>6, SameChainKeeps DEF ClientInv
<1>8. \A d \in Commands : Gone(d)' = Gone(d) /\ Executed(d)' = Executed(d)
  BY DEF EarlyStep, Gone, Executed
<1>9. Gone(c)
  BY <1>4 DEF ClientInv, UnsentInv, Gone
<1>10. StreamInv'
  <2>1. \A d \in Commands : StreamOf(d)
    BY StreamParts DEF ClientInv
  <2>2. \A d \in Commands : stream'[d] = stream[d] /\ watched' = watched /\ ran' = ran
    BY DEF EarlyStep
  <2>3. \A d \in Commands : StreamOf(d)'
    BY <1>8, <2>1, <2>2, StreamOfSame
  <2> QED
    BY <2>3 DEF StreamInv, StreamOf, Gone
<1>11. UnsentInv'
  <2>1. \A d \in Commands : pc'[d] \notin {"watch", "done"} => pc[d] \notin {"watch", "done"}
    BY <1>3, <1>4
  <2>2. \A d \in Commands : pc'[d] # "watch" => pc[d] # "watch"
    BY <1>3, <1>4
  <2> QED
    BY <1>8, <2>1, <2>2 DEF ClientInv, UnsentInv, EarlyStep, Executed
<1>12. \A d \in Commands : LostTrack(d) => LostTrack(d)'
  <2>1. ~LostTrack(c)
    BY <1>1, <1>4 DEF TypeOK, LostTrack
  <2> QED BY <1>3, <2>1 DEF LostTrack
<1>13. NonceInv'
  <2>1. \A b, d \in Commands : b # d /\ Running(b)' /\ Running(d)' => d \in overlaps'[b]
    <3>1. \A d \in Commands : Running(d)' => Running(d)
      BY <1>1, <1>3 DEF Running
    <3> QED BY <3>1, OverlapsStay DEF ClientInv, EarlyStep
  <2>2. reorgs' = 0 => \A d \in pool' : pc'[d] = "watch" \/ LostTrack(d)'
    BY <1>1, <1>3, <1>9, <1>12 DEF TypeOK, ClientInv, NonceInv, EarlyStep, Gone
  <2>3. \A d \in Commands : Alone(d)' /\ pc'[d] = "submit" => nonce'[d] = Best'.nonce
    <3>1. \A d \in Commands : Alone(d)' => Alone(d)
      BY <1>12, AloneBefore DEF EarlyStep
    <3> QED
      BY <3>1 DEF ClientInv, NonceInv, EarlyStep, Best
  <2>4. \A d \in Commands, j \in Nat :
          j \in DOMAIN stream'[d] /\ stream'[d][j].status = "Invalid" => overlaps'[d] # {}
    BY DEF ClientInv, NonceInv, EarlyStep
  <2> QED
    BY <2>1, <2>2, <2>3, <2>4 DEF NonceInv
<1>14. ReportsAreTrue' /\ RefusalsAreFinal' /\ EstimatesHold'
  <2>1. ReportsAreTrue'
    BY <1>3, <1>4, ReportsStay DEF ClientInv, EarlyStep
  <2>2. RefusalsAreFinal'
    BY <1>1, <1>3, <1>8, <1>9, RefusalsStay DEF ClientInv
  <2>3. EstimatesHold'
    BY EstimatesStay DEF ClientInv, EarlyStep
  <2> QED BY <2>1, <2>2, <2>3
<1>15. SequentialNoncesWork'
  <2>1. \A d \in Commands : \/ result'[d] = result[d]
                            \/ result'[d] \notin {"stale", "rejected", "invalid"}
                            \/ ~Alone(d)'
    BY <1>3, <1>4
  <2> QED
    BY <1>1, <1>5, <1>12, <2>1, SequentialStays DEF ClientInv, EarlyStep
<1> QED
  BY <1>5, <1>7, <1>10, <1>11, <1>13, <1>14, <1>15 DEF ClientInv

LEMMA DryRunKeeps ==
  ASSUME ClientInv, NEW c \in Commands, DryRun(c)
  PROVE  ClientInv'
<1>1. TypeOK /\ pc[c] = "estimate" /\ UNCHANGED <<node, plan, nonce, overlaps>>
  BY DEF ClientInv, DryRun
<1>2. faults' \in 0..MaxFaults
  BY <1>1 DEF TypeOK, node
<1>3. Need(c, Best) \in Nat
  BY <1>1, ChainIs, NeedIs
<1>4. Estimate(c) \in [gas : Nat, deposit : Nat]
  BY <1>1, <1>3, PlanIs DEF Estimate
<1>5. CASE Report(c, "dry_run_failed") /\ UNCHANGED <<limits, estimated>>
  <2>1. EarlyStep(c)
    BY <1>1, <1>2, <1>5 DEF EarlyStep, Report, node
  <2>2. LimitsInv'
    BY <1>1, <1>5 DEF ClientInv, LimitsInv, Report, TypeOK
  <2>3. pc'[c] = "done" /\ result'[c] = "dry_run_failed" /\ \A d \in Commands : d # c => pc'[d] = pc[d]
    BY <1>1, <1>5 DEF Report, TypeOK
  <2> QED
    BY <1>1, <1>5, <2>1, <2>2, <2>3, EarlyStepKeeps DEF TypeOK
<1>6. CASE /\ ~DryRunFails(c) /\ Goto(c, "nonce")
           /\ limits' = [limits EXCEPT ![c] = Estimate(c)]
           /\ estimated' = [estimated EXCEPT ![c] = Need(c, Best)]
  <2>1. EarlyStep(c)
    BY <1>1, <1>2, <1>6 DEF EarlyStep, Goto, node
  <2>2. estimated' \in [Commands -> Nat] /\ limits' \in [Commands -> [gas : Nat, deposit : Nat]]
    BY <1>1, <1>3, <1>4, <1>6 DEF TypeOK
  <2>3. pc'[c] = "nonce" /\ result' = result /\ \A d \in Commands : d # c => pc'[d] = pc[d]
    BY <1>1, <1>6 DEF Goto, TypeOK
  <2>4. /\ limits'[c] = Estimate(c) /\ estimated'[c] = Need(c, Best)
        /\ \A d \in Commands : d # c => limits'[d] = limits[d] /\ estimated'[d] = estimated[d]
    BY <1>1, <1>6 DEF TypeOK
  <2>5. plan[c].gas = NoLimit => limits'[c].gas = estimated'[c]
    BY <2>4 DEF Estimate
  <2>6. limits'[c].deposit >= estimated'[c]
    <3>1. plan[c].deposit \in Nat
      BY <1>1, PlanIs
    <3>2. plan[c].deposit = NoLimit \/ plan[c].deposit >= Need(c, Best)
      BY <1>3, <1>6, <3>1 DEF DryRunFails
    <3> QED
      BY <1>3, <2>4, <3>1, <3>2 DEF Estimate
  <2>7. LimitsInv'
    <3> SUFFICES ASSUME NEW d \in Commands
                 PROVE  /\ pc'[d] \in {"idle", "estimate"} => estimated'[d] = NotEstimated
                        /\ estimated'[d] # NotEstimated /\ plan[d].gas = NoLimit =>
                             limits'[d].gas = estimated'[d] /\ limits'[d].deposit >= estimated'[d]
      BY <1>1 DEF LimitsInv
    <3>1. CASE d = c
      BY <2>3, <2>5, <2>6, <3>1
    <3>2. CASE d # c
      BY <2>3, <2>4, <3>2 DEF ClientInv, LimitsInv
    <3> QED BY <3>1, <3>2
  <2>8. \A d \in Commands : estimated'[d] = estimated[d] \/ (d = c /\ pc[c] = "estimate")
    BY <1>1, <2>4
  <2>9. result'[c] \notin {"stale", "rejected"}
    BY <1>1, <2>3 DEF TypeOK
  <2>10. nonce' \in [Commands -> Nat]
    BY <1>1 DEF TypeOK
  <2> QED
    BY <1>1, <2>1, <2>2, <2>3, <2>7, <2>8, <2>9, <2>10, EarlyStepKeeps
<1> QED
  BY <1>5, <1>6 DEF DryRun

LEMMA ReadNonceKeeps ==
  ASSUME ClientInv, NEW c \in Commands, ReadNonce(c)
  PROVE  ClientInv'
<1>1. /\ TypeOK /\ pc[c] = "nonce" /\ UNCHANGED <<node, plan, limits, estimated, overlaps, result>>
      /\ pc' = [pc EXCEPT ![c] = "submit"] /\ nonce' = [nonce EXCEPT ![c] = Best.nonce]
  BY DEF ClientInv, ReadNonce, Goto, AccountNonce
<1>2. faults' \in 0..MaxFaults
  BY <1>1 DEF TypeOK, node
<1>3. Best.nonce \in Nat
  BY <1>1, ChainIs DEF State
<1>4. EarlyStep(c)
  BY <1>1, <1>2 DEF EarlyStep, node
<1>5. nonce' \in [Commands -> Nat]
  BY <1>1, <1>3 DEF TypeOK
<1>6. LimitsInv'
  BY <1>1 DEF ClientInv, LimitsInv, TypeOK
<1>7. \A d \in Commands : pc'[d] = "submit" =>
         (pc[d] = "submit" /\ nonce'[d] = nonce[d]) \/ nonce'[d] = Best.nonce
  BY <1>1 DEF TypeOK
<1>8. result'[c] \notin {"stale", "rejected"}
  BY <1>1 DEF TypeOK
<1> QED
  BY <1>1, <1>4, <1>5, <1>6, <1>7, <1>8, EarlyStepKeeps DEF TypeOK

LEMMA RequestFailsKeeps ==
  ASSUME ClientInv, NEW c \in Commands, RequestFails(c)
  PROVE  ClientInv'
<1>1. /\ TypeOK /\ pc[c] \in {"estimate", "nonce", "submit"}
      /\ UNCHANGED <<plan, nonce, limits, estimated, overlaps>>
      /\ UNCHANGED <<chain, finalized, pool, watched, stream, ran, foreign, reorgs>>
      /\ pc' = [pc EXCEPT ![c] = "done"] /\ result' = [result EXCEPT ![c] = "rpc_error"]
  BY DEF ClientInv, RequestFails, Report
<1>2. faults' \in 0..MaxFaults
  BY <1>1, ChainAssumption DEF TypeOK, RequestFails
<1>3. EarlyStep(c)
  BY <1>1, <1>2 DEF EarlyStep
<1>4. LimitsInv'
  BY <1>1 DEF ClientInv, LimitsInv, TypeOK
<1>5. \A d \in Commands : pc'[d] = "submit" => pc[d] = "submit"
  BY <1>1 DEF TypeOK
<1>6. result'[c] = "rpc_error"
  BY <1>1 DEF TypeOK
<1> QED
  BY <1>1, <1>3, <1>4, <1>5, <1>6, EarlyStepKeeps DEF TypeOK

\* Nothing waits while a command runs alone.
LEMMA AloneFindsNoPool ==
  ASSUME ClientInv, NEW c \in Commands, Alone(c), pc[c] \in {"estimate", "nonce", "submit"}
  PROVE  pool = {}
<1> SUFFICES ASSUME NEW d \in pool PROVE FALSE
  OBVIOUS
<1>1. d \in Commands /\ c \notin pool /\ d # c
  BY DEF ClientInv, TypeOK, UnsentInv
<1>2. ~LostTrack(d)
  BY <1>1 DEF Alone
<1>3. pc[d] = "watch"
  BY <1>2 DEF ClientInv, NonceInv, Alone
<1>4. d \in overlaps[c]
  BY <1>1, <1>3 DEF ClientInv, NonceInv, Running
<1> QED
  BY <1>4 DEF Alone

LEMMA SubmitRefusedKeeps ==
  ASSUME ClientInv, NEW c \in Commands, Submit(c),
         NEW r \in {"stale", "rejected"}, Report(c, r), UNCHANGED node,
         r = "stale" => Outdated(c), r = "rejected" => Rivals(c) # {}
  PROVE  ClientInv'
<1>1. /\ TypeOK /\ pc[c] = "submit" /\ UNCHANGED <<plan, nonce, limits, estimated, overlaps>>
      /\ pc' = [pc EXCEPT ![c] = "done"] /\ result' = [result EXCEPT ![c] = r]
  BY DEF ClientInv, Submit, Report
<1>2. faults' \in 0..MaxFaults
  BY <1>1 DEF TypeOK, node
<1>3. EarlyStep(c)
  BY <1>1, <1>2 DEF EarlyStep, node
<1>4. LimitsInv'
  BY <1>1 DEF ClientInv, LimitsInv, TypeOK
<1>5. \A d \in Commands : pc'[d] = "submit" => pc[d] = "submit"
  BY <1>1 DEF TypeOK
<1>6. ~Alone(c)
  <2> SUFFICES ASSUME Alone(c) PROVE FALSE
    OBVIOUS
  <2>1. pool = {}
    BY <1>1, AloneFindsNoPool
  <2>2. nonce[c] = Best.nonce /\ nonce[c] \in Nat
    BY <1>1 DEF ClientInv, NonceInv, TypeOK
  <2> QED
    BY <2>1, <2>2 DEF Outdated, Rivals
<1>7. ~Alone(c)'
  <2>1. \A d \in Commands : LostTrack(d) => LostTrack(d)'
    BY <1>1 DEF LostTrack, TypeOK
  <2> QED
    BY <1>1, <1>6, <2>1, AloneBefore DEF node
<1> QED
  BY <1>1, <1>3, <1>4, <1>5, <1>7, EarlyStepKeeps DEF TypeOK

\* A transaction is taken, watched or not.
LEMMA SubmitTakenKeeps ==
  ASSUME ClientInv, NEW c \in Commands, pc[c] = "submit", Accept(c),
         UNCHANGED <<plan, nonce, limits, estimated, overlaps>>,
         \/ /\ watched' = watched \union {c} /\ Goto(c, "watch") /\ UNCHANGED faults
         \/ /\ faults < MaxFaults /\ faults' = faults + 1 /\ UNCHANGED watched
            /\ Report(c, "rpc_error_submitting")
  PROVE  ClientInv'
<1>1. TypeOK /\ UNCHANGED <<chain, finalized, ran, foreign, reorgs>>
  BY DEF ClientInv, Accept
<1>2. Gone(c) /\ stream[c] = << >>
  BY DEF ClientInv, UnsentInv, Gone
<1>3. \/ pool' = pool \union {c} /\ stream' = stream
      \/ \E d \in pool : /\ pool' = (pool \ {d}) \union {c}
                         /\ stream' = Notified(d, Event("Invalid", "none"))
  BY DEF Accept, Rivals
<1>4. /\ \A d \in Commands : d # c => pc'[d] = pc[d] /\ result'[d] = result[d]
      /\ \/ pc'[c] = "watch" /\ result'[c] = "none" /\ watched' = watched \union {c}
         \/ pc'[c] = "done" /\ result'[c] = "rpc_error_submitting" /\ watched' = watched
      /\ result[c] = "none" /\ ~(c \in watched)
  BY <1>1 DEF TypeOK, Goto, Report
<1>5. pool' \subseteq Commands /\ pool' \subseteq pool \union {c}
  BY <1>1, <1>3 DEF TypeOK
<1>6. \A d \in Commands : (d # c /\ Gone(d)) => Gone(d)'
  BY <1>1, <1>5 DEF Gone, Executed
<1>7. \A d \in Commands : Executed(d)' = Executed(d)
  BY <1>1 DEF Executed
<1>8. Event("Invalid", "none") \in Events /\ Event("Invalid", "none").status = "Invalid"
  BY RefusalIs DEF Event, Events, Outcomes
<1>9. \A d \in Commands :
        \/ stream'[d] = stream[d]
        \/ /\ d # c /\ d \in pool /\ d \notin pool' /\ d \in watched
           /\ stream'[d] = Append(stream[d], Event("Invalid", "none"))
  <2>1. CASE pool' = pool \union {c} /\ stream' = stream
    BY <2>1
  <2>2. ASSUME NEW d \in pool, pool' = (pool \ {d}) \union {c},
               stream' = Notified(d, Event("Invalid", "none"))
        PROVE  \A b \in Commands :
                 \/ stream'[b] = stream[b]
                 \/ /\ b # c /\ b \in pool /\ b \notin pool' /\ b \in watched
                    /\ stream'[b] = Append(stream[b], Event("Invalid", "none"))
    <3>1. d \in Commands /\ d # c /\ d \notin pool'
      BY <1>1, <1>2, <2>2 DEF TypeOK, Gone
    <3> QED
      BY <1>1, <1>8, <2>2, <3>1, NotifiedIs
  <2> QED BY <1>3, <2>1, <2>2
<1>10. stream' \in [Commands -> Seq(Events)]
  <2>1. stream \in [Commands -> Seq(Events)] /\ pool \subseteq Commands
    BY <1>1 DEF TypeOK
  <2>2. \A d \in pool : Notified(d, Event("Invalid", "none")) \in [Commands -> Seq(Events)]
    BY <1>1, <1>8, <2>1, NotifiedIs
  <2> QED
    BY <1>3, <2>1, <2>2
<1>11. TypeOK'
  <2>1. /\ pc' \in [Commands -> {"idle", "estimate", "nonce", "submit", "watch", "done"}]
        /\ result' \in [Commands -> Results]
    BY <1>1 DEF TypeOK, Goto, Report, Results
  <2>2. faults' \in 0..MaxFaults
    BY <1>1, ChainAssumption DEF TypeOK
  <2>3. watched' \subseteq {d \in Commands : pc'[d] = "watch"}
    BY <1>1, <1>4 DEF TypeOK
  <2>4. \A d \in Commands : result'[d] # "none" <=> pc'[d] = "done"
    BY <1>1, <1>4 DEF TypeOK
  <2> QED
    BY <1>1, <1>5, <1>10, <2>1, <2>2, <2>3, <2>4 DEF TypeOK
<1>12. SameChain
  BY <1>1, <1>5 DEF SameChain
<1>13. ChainInv' /\ MappedInv'
  BY <1>1, <1>12, SameChainKeeps DEF ClientInv
<1>14. StreamInv'
  <2> SUFFICES ASSUME NEW d \in Commands PROVE StreamOf(d)'
    BY DEF StreamInv, StreamOf, Gone
  <2>1. StreamOf(d)
    BY StreamParts DEF ClientInv
  <2>2. CASE d = c
    <3>1. stream'[c] = << >> /\ ~Executed(c)'
      BY <1>2, <1>7, <1>9 DEF Gone
    <3> QED BY <2>2, <3>1 DEF StreamOf
  <2>3. CASE d # c /\ stream'[d] = stream[d]
    BY <1>1, <1>4, <1>6, <1>7, <2>1, <2>3, StreamOfSame
  <2>4. CASE /\ d # c /\ d \in pool /\ d \notin pool' /\ d \in watched
             /\ stream'[d] = Append(stream[d], Event("Invalid", "none"))
    <3>1. Gone(d)' \/ Executed(d)
      BY <1>7, <2>4 DEF Gone
    <3>2. Event("Invalid", "none").status \notin Included
      BY <1>8 DEF Included
    <3> HIDE DEF Event
    <3> QED
      BY <1>1, <1>6, <1>7, <1>8, <2>1, <2>4, <3>1, <3>2, StreamOfAppend
  <2> QED BY <1>9, <2>2, <2>3, <2>4
<1>15. UnsentInv'
  <2> SUFFICES ASSUME NEW d \in Commands
               PROVE  /\ pc'[d] \notin {"watch", "done"} => d \notin pool' /\ ~Executed(d)'
                      /\ pc'[d] # "watch" => stream'[d] = << >>
    BY DEF UnsentInv
  <2>1. CASE d = c
    BY <1>2, <1>4, <1>9, <2>1
  <2>2. CASE d # c
    <3>1. pc'[d] \notin {"watch", "done"} => d \notin pool' /\ ~Executed(d)'
      BY <1>4, <1>6, <2>2 DEF ClientInv, UnsentInv, Gone
    <3>2. pc'[d] # "watch" => d \notin watched /\ stream[d] = << >>
      BY <1>1, <1>4, <2>2 DEF ClientInv, UnsentInv, TypeOK
    <3> QED BY <1>9, <3>1, <3>2
  <2> QED BY <2>1, <2>2
<1>16. LimitsInv'
  BY <1>4 DEF ClientInv, LimitsInv
<1>17. \A d \in Commands : LostTrack(d) => LostTrack(d)'
  BY <1>4 DEF LostTrack
<1>18. NonceInv'
  <2>1. \A b, d \in Commands : b # d /\ Running(b)' /\ Running(d)' => d \in overlaps'[b]
    <3>1. \A d \in Commands : Running(d)' => Running(d)
      BY <1>4 DEF Running
    <3> QED BY <3>1, OverlapsStay DEF ClientInv
  <2>2. reorgs' = 0 => \A d \in pool' : pc'[d] = "watch" \/ LostTrack(d)'
    <3> SUFFICES ASSUME reorgs = 0, NEW d \in pool' PROVE pc'[d] = "watch" \/ LostTrack(d)'
      BY <1>1
    <3>1. CASE d = c
      BY <1>4, <3>1 DEF LostTrack
    <3>2. CASE d # c
      BY <1>4, <1>5, <1>17, <3>2 DEF ClientInv, NonceInv
    <3> QED BY <3>1, <3>2
  <2>3. \A d \in Commands : Alone(d)' /\ pc'[d] = "submit" => nonce'[d] = Best'.nonce
    <3>1. \A d \in Commands : Alone(d)' => Alone(d)
      BY <1>1, <1>17, AloneBefore
    <3> QED
      BY <1>1, <1>4, <3>1 DEF ClientInv, NonceInv, Best
  <2>4. \A d \in Commands, j \in Nat :
          j \in DOMAIN stream'[d] /\ stream'[d][j].status = "Invalid" => overlaps'[d] # {}
    <3> SUFFICES ASSUME NEW d \in Commands, NEW j \in DOMAIN stream'[d],
                        stream'[d][j].status = "Invalid", j \in Nat
                 PROVE  overlaps[d] # {}
      OBVIOUS
    <3>1. CASE stream'[d] = stream[d]
      BY <3>1 DEF ClientInv, NonceInv
    <3>2. CASE d # c /\ d \in watched
      <4>1. Running(d) /\ Running(c)
        BY <1>1, <3>2 DEF TypeOK, Running
      <4> QED BY <3>2, <4>1 DEF ClientInv, NonceInv
    <3> QED BY <1>9, <3>1, <3>2
  <2> QED
    BY <2>1, <2>2, <2>3, <2>4 DEF NonceInv
<1>19. ReportsAreTrue'
  BY <1>1, <1>4, ReportsStay DEF ClientInv
<1>20. RefusalsAreFinal'
  <2>1. \A d \in Commands : \/ result'[d] = result[d]
                            \/ result'[d] \notin Definite
    BY <1>4 DEF Definite
  <2> QED
    BY <1>1, <1>6, <2>1, RefusalsStay DEF ClientInv
<1>21. EstimatesHold'
  BY <1>1, EstimatesStay DEF ClientInv
<1>22. SequentialNoncesWork'
  BY <1>1, <1>4, <1>11, <1>17, SequentialStays DEF ClientInv
<1> QED
  BY <1>11, <1>13, <1>14, <1>15, <1>16, <1>18, <1>19, <1>20, <1>21, <1>22 DEF ClientInv

LEMMA SubmitKeeps ==
  ASSUME ClientInv, NEW c \in Commands, Submit(c)
  PROVE  ClientInv'
<1>1. CASE Outdated(c) /\ Report(c, "stale") /\ UNCHANGED node
  BY <1>1, SubmitRefusedKeeps
<1>2. CASE Rivals(c) # {} /\ Report(c, "rejected") /\ UNCHANGED node
  BY <1>2, SubmitRefusedKeeps
<1>3. CASE Accept(c) /\ watched' = watched \union {c} /\ Goto(c, "watch") /\ UNCHANGED faults
  BY <1>3, SubmitTakenKeeps DEF Submit
<1>4. CASE /\ faults < MaxFaults /\ faults' = faults + 1
           /\ Accept(c) /\ UNCHANGED watched
           /\ Report(c, "rpc_error_submitting")
  BY <1>4, SubmitTakenKeeps DEF Submit
<1> QED
  BY <1>1, <1>2, <1>3, <1>4 DEF Submit

-----------------------------------------------------------------------------
(* Watching                                                                *)

\* A watch ends with a result that is true and, if it is final, final.
LEMMA WatchEndsKeeps ==
  ASSUME ClientInv, NEW c \in Commands, pc[c] = "watch", NEW r \in Results, EndWatch(c, r),
         UNCHANGED <<chain, finalized, pool, ran, foreign, reorgs>>,
         UNCHANGED <<plan, nonce, limits, estimated, overlaps>>,
         faults' \in 0..MaxFaults, r # "none",
         r = "ok" => Ran(c, "ok"),
         r = "dispatch_error" => \E o \in Outcomes \ {"ok"} : Ran(c, o),
         r = "already_mapped" => \E d \in Commands \ {c} :
            plan[d].kind = "map_account" /\ Ran(d, "ok"),
         r \in Definite => Gone(c),
         reorgs = 0 => c \notin pool \/ r \in {"rpc_error_submitting", "error", "subscription_dropped"},
         r \in {"stale", "rejected", "invalid"} => overlaps[c] # {}
  PROVE  ClientInv'
<1>1. TypeOK
  BY DEF ClientInv
<1>2. /\ pc' = [pc EXCEPT ![c] = "done"] /\ result' = [result EXCEPT ![c] = r]
      /\ watched' = watched \ {c} /\ stream' = [stream EXCEPT ![c] = << >>]
  BY DEF EndWatch, Report
<1>3. /\ pc'[c] = "done" /\ result'[c] = r /\ stream'[c] = << >> /\ result[c] = "none"
      /\ \A d \in Commands : d # c =>
            pc'[d] = pc[d] /\ result'[d] = result[d] /\ stream'[d] = stream[d]
  BY <1>1, <1>2 DEF TypeOK
<1>4. \A d \in Commands : (Gone(d)' <=> Gone(d)) /\ (Executed(d)' <=> Executed(d))
  BY DEF Gone, Executed
<1>5. TypeOK'
  <2>1. stream' \in [Commands -> Seq(Events)]
    BY <1>1, <1>2, EmptySeq DEF TypeOK
  <2>2. watched' \subseteq {d \in Commands : pc'[d] = "watch"}
    BY <1>1, <1>2 DEF TypeOK
  <2>3. \A d \in Commands : result'[d] # "none" <=> pc'[d] = "done"
    BY <1>1, <1>3 DEF TypeOK
  <2>4. /\ pc' \in [Commands -> {"idle", "estimate", "nonce", "submit", "watch", "done"}]
        /\ result' \in [Commands -> Results]
    BY <1>1, <1>2 DEF TypeOK
  <2> QED
    BY <1>1, <2>1, <2>2, <2>3, <2>4 DEF TypeOK
<1>6. ChainInv' /\ MappedInv'
  BY <1>1, SameChainKeeps DEF ClientInv, SameChain
<1>7. StreamInv'
  <2> SUFFICES ASSUME NEW d \in Commands PROVE StreamOf(d)'
    BY DEF StreamInv, StreamOf, Gone
  <2>1. CASE d = c
    BY <1>2, <1>3, <2>1, StreamOfEmpty
  <2>2. CASE d # c
    <3>1. StreamOf(d)
      BY StreamParts DEF ClientInv
    <3> QED BY <1>2, <1>3, <1>4, <2>2, <3>1, StreamOfSame
  <2> QED BY <2>1, <2>2
<1>8. UnsentInv'
  <2>1. \A d \in Commands : pc'[d] \notin {"watch", "done"} => pc[d] \notin {"watch", "done"}
    BY <1>3
  <2>2. \A d \in Commands : pc'[d] # "watch" => stream'[d] = << >>
    BY <1>3 DEF ClientInv, UnsentInv
  <2> QED
    BY <1>4, <2>1, <2>2 DEF ClientInv, UnsentInv
<1>9. LimitsInv'
  BY <1>3 DEF ClientInv, LimitsInv
<1>10. \A d \in Commands : LostTrack(d) => LostTrack(d)'
  BY <1>3 DEF LostTrack
<1>11. NonceInv'
  <2>1. \A b, d \in Commands : b # d /\ Running(b)' /\ Running(d)' => d \in overlaps'[b]
    <3>1. \A d \in Commands : Running(d)' => Running(d)
      BY <1>3 DEF Running
    <3> QED BY <3>1, OverlapsStay DEF ClientInv
  <2>2. reorgs' = 0 => \A d \in pool' : pc'[d] = "watch" \/ LostTrack(d)'
    BY <1>1, <1>3, <1>10 DEF TypeOK, ClientInv, NonceInv, LostTrack
  <2>3. \A d \in Commands : Alone(d)' /\ pc'[d] = "submit" => nonce'[d] = Best'.nonce
    <3>1. \A d \in Commands : Alone(d)' => Alone(d)
      BY <1>10, AloneBefore
    <3> QED
      BY <1>3, <3>1 DEF ClientInv, NonceInv, Best
  <2>4. \A d \in Commands, j \in Nat :
          j \in DOMAIN stream'[d] /\ stream'[d][j].status = "Invalid" => overlaps'[d] # {}
    <3>1. \A j \in Nat : j \notin DOMAIN stream'[c]
      BY <1>3
    <3> QED BY <1>3, <3>1 DEF ClientInv, NonceInv
  <2> QED
    BY <2>1, <2>2, <2>3, <2>4 DEF NonceInv
<1>12. ReportsAreTrue'
  <2>1. \A d, o : Ran(d, o)' <=> Ran(d, o)
    BY DEF Ran
  <2> QED
    BY <1>3, <2>1 DEF ClientInv, ReportsAreTrue
<1>13. RefusalsAreFinal'
  <2>1. \A d \in Commands : result'[d] = result[d] \/ result'[d] \notin Definite \/ Gone(d)'
    BY <1>3, <1>4
  <2> QED
    BY <1>1, <1>4, <2>1, RefusalsStay DEF ClientInv
<1>14. EstimatesHold'
  BY EstimatesStay DEF ClientInv
<1>15. SequentialNoncesWork'
  <2>1. \A d \in Commands : \/ result'[d] = result[d]
                            \/ result'[d] \notin {"stale", "rejected", "invalid"}
                            \/ ~Alone(d)'
    BY <1>3 DEF Alone
  <2> QED
    BY <1>1, <1>5, <1>10, <2>1, SequentialStays DEF ClientInv
<1> QED
  BY <1>5, <1>6, <1>7, <1>8, <1>9, <1>11, <1>12, <1>13, <1>14, <1>15 DEF ClientInv

\* An event that decides nothing is passed over.
LEMMA WatchOnKeeps ==
  ASSUME ClientInv, NEW c \in Commands, pc[c] = "watch", stream[c] # << >>,
         Head(stream[c]).status \notin Included,
         stream' = [stream EXCEPT ![c] = Tail(@)],
         UNCHANGED <<chain, finalized, pool, watched, ran, foreign, reorgs, faults>>,
         UNCHANGED <<pc, result, plan, nonce, limits, estimated, overlaps>>
  PROVE  ClientInv'
<1>1. TypeOK
  BY DEF ClientInv
<1>2. /\ stream'[c] = Tail(stream[c])
      /\ \A d \in Commands : d # c => stream'[d] = stream[d]
  BY <1>1 DEF TypeOK
<1>3. \A d \in Commands : (Gone(d)' <=> Gone(d)) /\ (Executed(d)' <=> Executed(d))
  BY DEF Gone, Executed
<1>4. TypeOK'
  <2>1. Tail(stream[c]) \in Seq(Events)
    BY <1>1, StreamIs, HeadTailProperties
  <2>2. stream' \in [Commands -> Seq(Events)]
    BY <1>1, <2>1 DEF TypeOK
  <2> QED
    BY <1>1, <2>2 DEF TypeOK
<1>5. ChainInv' /\ MappedInv'
  BY <1>1, SameChainKeeps DEF ClientInv, SameChain
<1>6. StreamInv'
  <2> SUFFICES ASSUME NEW d \in Commands PROVE StreamOf(d)'
    BY DEF StreamInv, StreamOf, Gone
  <2>1. StreamOf(d)
    BY StreamParts DEF ClientInv
  <2>2. CASE d = c
    BY <1>1, <1>2, <2>1, <2>2, StreamOfTail
  <2>3. CASE d # c
    BY <1>2, <1>3, <2>1, <2>3, StreamOfSame
  <2> QED BY <2>2, <2>3
<1>7. UnsentInv'
  BY <1>2, <1>3 DEF ClientInv, UnsentInv
<1>8. NonceInv'
  <2>1. \A d \in Commands, j \in Nat :
          j \in DOMAIN stream'[d] /\ stream'[d][j].status = "Invalid" => overlaps'[d] # {}
    <3> SUFFICES ASSUME NEW d \in Commands, NEW j \in DOMAIN stream'[d], j \in Nat,
                        stream'[d][j].status = "Invalid"
                 PROVE  overlaps[d] # {}
      OBVIOUS
    <3>1. CASE d # c
      BY <1>2, <3>1 DEF ClientInv, NonceInv
    <3>2. CASE d = c
      <4>1. /\ stream[c] \in Seq(Events) /\ Tail(stream[c]) \in Seq(Events)
            /\ Len(Tail(stream[c])) = Len(stream[c]) - 1
            /\ \A k \in 1..Len(Tail(stream[c])) : Tail(stream[c])[k] = stream[c][k + 1]
        BY <1>1, StreamIs, HeadTailProperties
      <4>2. j \in 1..Len(Tail(stream[c])) /\ Len(stream[c]) \in Nat /\ DOMAIN stream[c] = 1..Len(stream[c])
        BY <1>1, <1>2, <3>2, <4>1, StreamIs, LenProperties
      <4>3. stream[c][j + 1] = stream'[d][j]
        BY <1>2, <3>2, <4>1, <4>2
      <4>4. j + 1 \in 1..Len(stream[c]) /\ j + 1 \in Nat
        BY <4>1, <4>2
      <4>5. j + 1 \in DOMAIN stream[c] /\ stream[c][j + 1].status = "Invalid"
        BY <4>2, <4>3, <4>4
      <4> QED BY <3>2, <4>4, <4>5 DEF ClientInv, NonceInv
    <3> QED BY <3>1, <3>2
  <2> QED
    BY <2>1 DEF ClientInv, NonceInv, Running, LostTrack, Alone, Best
<1>9. LimitsInv' /\ ReportsAreTrue' /\ RefusalsAreFinal' /\ EstimatesHold' /\ SequentialNoncesWork'
  <2>1. LimitsInv'
    BY DEF ClientInv, LimitsInv
  <2>2. ReportsAreTrue' /\ EstimatesHold'
    BY ReportsStay, EstimatesStay DEF ClientInv
  <2>3. RefusalsAreFinal' /\ SequentialNoncesWork'
    BY DEF ClientInv, RefusalsAreFinal, Executed, SequentialNoncesWork
  <2> QED BY <2>1, <2>2, <2>3
<1> QED
  BY <1>4, <1>5, <1>6, <1>7, <1>8, <1>9 DEF ClientInv

LEMMA WatchKeeps ==
  ASSUME ClientInv, NEW c \in Commands, Watch(c)
  PROVE  ClientInv'
<1> DEFINE e == Head(stream[c])
<1>1. /\ TypeOK /\ pc[c] = "watch" /\ stream[c] # << >>
      /\ UNCHANGED <<chain, finalized, pool, ran, foreign, reorgs>>
      /\ UNCHANGED <<plan, nonce, limits, estimated, overlaps>>
  BY DEF ClientInv, Watch
<1>2. e = stream[c][1] /\ 1 \in DOMAIN stream[c] /\ e \in Events
  <2>1. stream[c] \in Seq(Events) /\ Len(stream[c]) \in Nat \ {0}
    BY <1>1, StreamIs, EmptySeq
  <2> QED
    BY <2>1, LenProperties, ElementOfSeq
<1>3. StreamOf(c)
  BY StreamParts DEF ClientInv
<1>4. /\ \E r : \/ EndWatch(c, r) /\ \/ /\ e.status \in Included
                                        /\ r \in {Reported(c, e.outcome), "rpc_error_watching"}
                                     \/ e.status \in DOMAIN Refusals /\ r = Refusals[e.status]
                \/ /\ e.status \notin Included \union DOMAIN Refusals
                   /\ stream' = [stream EXCEPT ![c] = Tail(@)]
                   /\ UNCHANGED <<pc, result, watched, faults>>
      /\ faults' = faults \/ (faults < MaxFaults /\ faults' = faults + 1)
  BY DEF Watch
<1>5. faults' \in 0..MaxFaults
  BY <1>1, <1>4, ChainAssumption DEF TypeOK
<1> HIDE DEF e
<1>6. ASSUME NEW r, EndWatch(c, r), e.status \in Included,
             r \in {Reported(c, e.outcome), "rpc_error_watching"}
      PROVE  ClientInv'
  <2>1. Ran(c, e.outcome)
    BY <1>2, <1>3, <1>6 DEF StreamOf
  <2>2. Executed(c)
    BY <2>1 DEF Ran, Executed
  <2>3. e.outcome \in Outcomes
    BY <1>2 DEF Events
  <2>4. \/ r = "ok" /\ e.outcome = "ok"
        \/ r = "already_mapped" /\ e.outcome = "AccountAlreadyMapped"
        \/ r = "dispatch_error" /\ e.outcome # "ok"
        \/ r = "rpc_error_watching"
    BY <1>6 DEF Reported
  <2>5. r \in Results /\ r # "none" /\ r \notin Definite /\ r \notin {"stale", "rejected", "invalid"}
    BY <2>4 DEF Results, Definite
  <2>6. reorgs = 0 => c \notin pool
    BY <2>2 DEF ClientInv, ChainInv
  <2>7. r = "already_mapped" => \E d \in Commands \ {c} :
          plan[d].kind = "map_account" /\ Ran(d, "ok")
    BY <2>1, <2>4 DEF ClientInv, MappedInv
  <2>8. /\ r = "ok" => Ran(c, "ok")
        /\ r = "dispatch_error" => \E o \in Outcomes \ {"ok"} : Ran(c, o)
    BY <2>1, <2>3, <2>4
  <2> QED
    BY <1>1, <1>5, <1>6, <2>5, <2>6, <2>7, <2>8, WatchEndsKeeps
<1>7. ASSUME EndWatch(c, Refusals[e.status]), e.status \in DOMAIN Refusals
      PROVE  ClientInv'
  <2>1. PICK r : r = Refusals[e.status]
    OBVIOUS
  <2>2. \/ e.status = "Invalid" /\ r = "invalid"
        \/ e.status = "Dropped" /\ r = "dropped"
        \/ r \in {"error", "subscription_dropped"}
    BY <1>7, <2>1, RefusalIs
  <2>3. r \in Results /\ r \notin {"none", "ok", "dispatch_error", "already_mapped", "stale", "rejected"}
    BY <2>2 DEF Results
  <2>4. r \in Definite => Gone(c)
    <3>1. r \in Definite => e.status \in {"Invalid", "Dropped"}
      BY <2>2 DEF Definite
    <3>2. e.status \in {"Invalid", "Dropped"} => Gone(c) \/ Includes(stream[c], 1 - 1)
      BY <1>2, <1>3 DEF StreamOf
    <3>3. ~Includes(stream[c], 1 - 1)
      BY DEF Includes
    <3> QED BY <3>1, <3>2, <3>3
  <2>5. c \notin pool \/ r \in {"error", "subscription_dropped"}
    BY <2>2, <2>4 DEF Definite, Gone
  <2>6. r = "invalid" => overlaps[c] # {}
    BY <1>2, <2>2 DEF ClientInv, NonceInv
  <2>7. EndWatch(c, r)
    BY <1>7, <2>1
  <2> QED
    BY <1>1, <1>5, <2>3, <2>4, <2>5, <2>6, <2>7, WatchEndsKeeps
<1>8. CASE /\ e.status \notin Included \union DOMAIN Refusals
           /\ stream' = [stream EXCEPT ![c] = Tail(@)]
           /\ UNCHANGED <<pc, result, watched, faults>>
  BY <1>1, <1>8, WatchOnKeeps DEF e
<1> QED
  BY <1>4, <1>6, <1>7, <1>8

-----------------------------------------------------------------------------
(* The node                                                                *)

\* A command hears of nothing, or of an event that is true of it and no refusal
\* for its nonce.
Hears(d) ==
  \/ /\ stream'[d] = stream[d]
     /\ d \in watched' /\ Executed(d)' => Executed(d)
  \/ \E e \in Events :
       /\ d \in watched /\ stream'[d] = Append(stream[d], e)
       /\ e.status # "Invalid"
       /\ e.status \in Included => Ran(d, e.outcome)'
       /\ e.status = "Dropped" => Gone(d)' \/ Executed(d)
       /\ Executed(d)' => Executed(d) \/ e.status \in Included

LEMMA NodeStepKeeps ==
  ASSUME ClientInv, UNCHANGED client, TypeOK', ChainInv', MappedInv', EstimatesHold',
         ran \subseteq ran', reorgs' = 0 => reorgs = 0 /\ pool' \subseteq pool,
         watched' \subseteq watched,
         \A d \in Commands : Gone(d) => Gone(d)',
         \A d \in Commands : Hears(d),
         reorgs' = 0 => \A d \in Commands : Alone(d) /\ pc[d] = "submit" => Best'.nonce = Best.nonce
  PROVE  ClientInv'
<1>1. /\ TypeOK
      /\ UNCHANGED <<plan, nonce, limits, pc, result, estimated, overlaps>>
  BY DEF ClientInv, client
<1>2. StreamInv'
  <2> SUFFICES ASSUME NEW d \in Commands PROVE StreamOf(d)'
    BY DEF StreamInv, StreamOf, Gone
  <2>1. StreamOf(d)
    BY StreamParts DEF ClientInv
  <2>2. CASE stream'[d] = stream[d] /\ (d \in watched' /\ Executed(d)' => Executed(d))
    BY <2>1, <2>2, StreamOfSame
  <2>3. ASSUME NEW e \in Events, d \in watched, stream'[d] = Append(stream[d], e),
               e.status # "Invalid", e.status \in Included => Ran(d, e.outcome)',
               e.status = "Dropped" => Gone(d)' \/ Executed(d),
               Executed(d)' => Executed(d) \/ e.status \in Included
        PROVE  StreamOf(d)'
    BY <1>1, <2>1, <2>3, StreamOfAppend
  <2> QED BY <2>2, <2>3 DEF Hears
<1>3. UnsentInv'
  <2>1. \A d \in Commands : pc[d] # "watch" => stream'[d] = << >>
    BY <1>1 DEF Hears, ClientInv, UnsentInv, TypeOK
  <2>2. \A d \in Commands : pc[d] \notin {"watch", "done"} => Gone(d)'
    BY DEF ClientInv, UnsentInv, Gone
  <2> QED
    BY <1>1, <2>1, <2>2 DEF UnsentInv, Gone
<1>4. LimitsInv'
  BY <1>1 DEF ClientInv, LimitsInv
<1>5. \A d \in Commands : LostTrack(d)' <=> LostTrack(d)
  BY <1>1 DEF LostTrack
<1>6. NonceInv'
  <2>1. \A b, d \in Commands : b # d /\ Running(b)' /\ Running(d)' => d \in overlaps'[b]
    BY <1>1 DEF ClientInv, NonceInv, Running
  <2>2. reorgs' = 0 => \A d \in pool' : pc'[d] = "watch" \/ LostTrack(d)'
    BY <1>1, <1>5 DEF ClientInv, NonceInv, TypeOK
  <2>3. \A d \in Commands : Alone(d)' /\ pc'[d] = "submit" => nonce'[d] = Best'.nonce
    <3>1. \A d \in Commands : Alone(d)' => Alone(d)
      BY <1>1, <1>5, AloneBefore
    <3> QED
      BY <1>1, <3>1 DEF ClientInv, NonceInv, Alone
  <2>4. \A d \in Commands, j \in Nat :
          j \in DOMAIN stream'[d] /\ stream'[d][j].status = "Invalid" => overlaps'[d] # {}
    <3> SUFFICES ASSUME NEW d \in Commands, NEW j \in DOMAIN stream'[d], j \in Nat,
                        stream'[d][j].status = "Invalid"
                 PROVE  overlaps[d] # {}
      BY <1>1
    <3>1. CASE stream'[d] = stream[d]
      BY <3>1 DEF ClientInv, NonceInv
    <3>2. ASSUME NEW e \in Events, stream'[d] = Append(stream[d], e), e.status # "Invalid"
          PROVE  overlaps[d] # {}
      <4>1. /\ stream[d] \in Seq(Events) /\ Len(stream[d]) \in Nat
            /\ DOMAIN stream[d] = 1..Len(stream[d])
        BY <1>1, StreamIs
      <4>2. j # Len(stream[d]) + 1
        BY <3>2, <4>1, AppendIs
      <4>3. j \in 1..Len(stream[d]) /\ stream'[d][j] = stream[d][j]
        BY <3>2, <4>1, <4>2, AppendIs
      <4> QED BY <4>1, <4>3 DEF ClientInv, NonceInv
    <3> QED BY <3>1, <3>2 DEF Hears
  <2> QED
    BY <2>1, <2>2, <2>3, <2>4 DEF NonceInv
<1>7. ReportsAreTrue'
  BY <1>1, ReportsStay DEF ClientInv
<1>8. RefusalsAreFinal'
  BY <1>1, RefusalsStay DEF ClientInv
<1>9. SequentialNoncesWork'
  BY <1>1, <1>5, SequentialStays DEF ClientInv
<1> QED
  BY <1>2, <1>3, <1>4, <1>6, <1>7, <1>8, <1>9 DEF ClientInv

\* A step that leaves the chain, its history and the pool of others alone.
LEMMA QuietNodeKeeps ==
  ASSUME ClientInv, UNCHANGED client, TypeOK', UNCHANGED <<chain, ran, reorgs>>,
         pool' \subseteq pool, watched' \subseteq watched, \A d \in Commands : Hears(d)
  PROVE  ClientInv'
<1>1. TypeOK /\ UNCHANGED <<plan, estimated>>
  BY DEF ClientInv, client
<1>2. SameChain
  BY <1>1 DEF SameChain
<1>3. ChainInv' /\ MappedInv'
  BY <1>1, <1>2, SameChainKeeps DEF ClientInv
<1>4. EstimatesHold'
  BY <1>1, EstimatesStay DEF ClientInv
<1>5. \A d \in Commands : Gone(d) => Gone(d)'
  BY DEF Gone, Executed
<1>6. Best'.nonce = Best.nonce
  BY DEF Best
<1> QED
  BY <1>1, <1>3, <1>4, <1>5, <1>6, NodeStepKeeps

\* The types after an event for one command, and who hears of it.
LEMMA Told ==
  ASSUME TypeOK, NEW c \in Commands, NEW e \in Events, stream' = Notified(c, e),
         ran' = ran, e.status # "Invalid",
         e.status \in Included => Ran(c, e.outcome),
         e.status = "Dropped" => Gone(c)' \/ Executed(c)
  PROVE  /\ stream' \in [Commands -> Seq(Events)]
         /\ \A d \in Commands : Hears(d)
<1>1. \A d : (Executed(d)' <=> Executed(d)) /\ \A o : (Ran(d, o)' <=> Ran(d, o))
  BY DEF Executed, Ran
<1>2. \A d \in Commands : \/ stream'[d] = stream[d]
                          \/ d = c /\ c \in watched /\ stream'[d] = Append(stream[d], e)
  BY NotifiedIs
<1>3. Ran(c, e.outcome)' <=> Ran(c, e.outcome)
  BY DEF Ran
<1>4. \A d \in Commands : Hears(d)
  <2> SUFFICES ASSUME NEW d \in Commands PROVE Hears(d)
    OBVIOUS
  <2>1. CASE stream'[d] = stream[d]
    BY <1>1, <2>1 DEF Hears
  <2>2. CASE d = c /\ c \in watched /\ stream'[d] = Append(stream[d], e)
    BY <1>1, <1>3, <2>2 DEF Hears
  <2> QED BY <1>2, <2>1, <2>2
<1> QED
  BY <1>4, NotifiedIs

LEMMA EventIs ==
  /\ \A o \in Outcomes : /\ Event("InBestBlock", o) \in Events
                         /\ Event("InBestBlock", o).status = "InBestBlock"
                         /\ Event("InBestBlock", o).outcome = o
                         /\ Event("InFinalizedBlock", o) \in Events
                         /\ Event("InFinalizedBlock", o).status = "InFinalizedBlock"
                         /\ Event("InFinalizedBlock", o).outcome = o
  /\ \A s \in {"NoLongerInBestBlock", "Dropped", "End", "Error"} :
        /\ Event(s, "none") \in Events
        /\ Event(s, "none").status = s
<1>1. "none" \in Outcomes
  BY DEF Outcomes
<1>2. \A s \in {"NoLongerInBestBlock", "Dropped", "End", "Error", "InBestBlock", "InFinalizedBlock"} :
         s \in Included \union DOMAIN Refusals \union {"NoLongerInBestBlock"}
  BY RefusalIs DEF Included
<1> QED
  BY <1>1, <1>2 DEF Event, Events

LEMMA FinalizeKeeps ==
  ASSUME ClientInv, Finalize, UNCHANGED client
  PROVE  ClientInv'
<1>1. TypeOK /\ UNCHANGED <<plan, nonce, limits, pc, result, estimated, overlaps>>
  BY DEF ClientInv, client
<1>2. /\ finalized' = finalized + 1 /\ finalized + 1 \in 1..Len(chain)
      /\ UNCHANGED <<chain, pool, watched, ran, foreign, reorgs, faults>>
  BY <1>1, ChainIs DEF Finalize, TypeOK
<1>3. PICK b : /\ b = chain[finalized + 1]
               /\ stream' = IF b.tx = Nobody THEN stream
                            ELSE Notified(b.tx, Event("InFinalizedBlock", b.outcome))
  BY DEF Finalize
<1>4. b \in Block /\ (b.tx # Nobody => b.tx \in Commands /\ Ran(b.tx, b.outcome)) /\ b.outcome \in Outcomes
  BY <1>1, <1>2, <1>3, ChainIs DEF Block, ClientInv, ChainInv
<1>5. stream' \in [Commands -> Seq(Events)] /\ \A d \in Commands : Hears(d)
  <2>1. CASE b.tx = Nobody
    BY <1>1, <1>2, <1>3, <2>1 DEF Hears, TypeOK, Executed
  <2>2. CASE b.tx # Nobody
    <3> DEFINE e == Event("InFinalizedBlock", b.outcome)
    <3>1. e \in Events /\ e.status = "InFinalizedBlock" /\ e.outcome = b.outcome
      BY <1>4, EventIs
    <3> HIDE DEF e
    <3>2. stream' = Notified(b.tx, e)
      BY <1>3, <2>2 DEF e
    <3> QED
      BY <1>1, <1>2, <1>4, <2>2, <3>1, <3>2, Told
  <2> QED BY <2>1, <2>2
<1>6. TypeOK'
  BY <1>1, <1>2, <1>5 DEF TypeOK
<1> QED
  BY <1>2, <1>5, <1>6, QuietNodeKeeps

LEMMA EvictKeeps ==
  ASSUME ClientInv, NEW c \in Commands, Evict(c), UNCHANGED client
  PROVE  ClientInv'
<1>1. TypeOK /\ UNCHANGED <<plan, nonce, limits, pc, result, estimated, overlaps>>
  BY DEF ClientInv, client
<1> DEFINE e == Event("Dropped", "none")
<1>2. e \in Events /\ e.status = "Dropped"
  BY EventIs
<1> HIDE DEF e
<1>3. /\ pool' = pool \ {c} /\ watched' = watched \ {c} /\ stream' = Notified(c, e)
      /\ UNCHANGED <<chain, finalized, ran, foreign, reorgs>>
      /\ faults' \in 0..MaxFaults
  BY <1>1, ChainAssumption DEF Evict, TypeOK, e
<1>4. Gone(c)' \/ Executed(c)
  BY <1>3 DEF Gone, Executed
<1>5. stream' \in [Commands -> Seq(Events)] /\ \A d \in Commands : Hears(d)
  BY <1>1, <1>2, <1>3, <1>4, Told DEF Included
<1>6. TypeOK'
  BY <1>1, <1>3, <1>5 DEF TypeOK
<1> QED
  BY <1>3, <1>5, <1>6, QuietNodeKeeps

LEMMA DisconnectKeeps ==
  ASSUME ClientInv, NEW c \in Commands, NEW status \in {"End", "Error"},
         Disconnect(c, status), UNCHANGED client
  PROVE  ClientInv'
<1>1. TypeOK /\ UNCHANGED <<plan, nonce, limits, pc, result, estimated, overlaps>>
  BY DEF ClientInv, client
<1> DEFINE e == Event(status, "none")
<1>2. e \in Events /\ e.status = status
  BY EventIs
<1> HIDE DEF e
<1>3. /\ watched' = watched \ {c} /\ stream' = Notified(c, e)
      /\ UNCHANGED <<chain, finalized, pool, ran, foreign, reorgs>>
      /\ faults' \in 0..MaxFaults
  BY <1>1, ChainAssumption DEF Disconnect, TypeOK, e
<1>4. stream' \in [Commands -> Seq(Events)] /\ \A d \in Commands : Hears(d)
  BY <1>1, <1>2, <1>3, Told DEF Included
<1>5. TypeOK'
  BY <1>1, <1>3, <1>4 DEF TypeOK
<1> QED
  BY <1>3, <1>4, <1>5, QuietNodeKeeps

LEMMA ChainGrows ==
  ASSUME TypeOK, NEW b \in Block, chain' = Append(chain, b)
  PROVE  LET n == Len(chain)
         IN /\ n \in Nat /\ n >= 1 /\ DOMAIN chain = 1..n
            /\ chain' \in Seq(Block) /\ Len(chain') = n + 1 /\ DOMAIN chain' = 1..(n + 1)
            /\ \A i \in 1..n : chain'[i] = chain[i]
            /\ chain'[n + 1] = b /\ Best' = b.state
<1>1. chain \in Seq(Block) /\ Len(chain) \in Nat /\ Len(chain) >= 1 /\ DOMAIN chain = 1..Len(chain)
  BY ChainIs DEF TypeOK
<1>2. /\ chain' \in Seq(Block) /\ Len(chain') = Len(chain) + 1
      /\ \A i \in 1..Len(chain) : chain'[i] = chain[i]
      /\ chain'[Len(chain) + 1] = b
  BY <1>1, AppendProperties
<1>3. DOMAIN chain' = 1..(Len(chain) + 1)
  BY <1>2, LenProperties
<1> QED
  BY <1>1, <1>2, <1>3 DEF Best

LEMMA ForeignKeeps ==
  ASSUME ClientInv, Foreign, UNCHANGED client
  PROVE  ClientInv'
<1>1. TypeOK /\ UNCHANGED <<plan, nonce, limits, pc, result, estimated, overlaps>>
  BY DEF ClientInv, client
<1>2. \A s \in State : /\ [s EXCEPT !.cost = @ + 1] \in State
                       /\ [s EXCEPT !.cost = @ + 1].nonce = s.nonce
                       /\ [s EXCEPT !.cost = @ + 1].mapped = s.mapped
  BY DEF State
<1>3. PICK s : s = [Best EXCEPT !.cost = @ + 1]
  OBVIOUS
<1>4. s \in State /\ s.nonce = Best.nonce /\ s.mapped = Best.mapped
  BY <1>1, <1>2, <1>3, ChainIs, Zenon
<1>5. PICK b : b = [tx |-> Nobody, outcome |-> "ok", state |-> s]
  OBVIOUS
<1>6. b \in Block /\ b.tx = Nobody /\ b.state = s /\ b.outcome = "ok"
  BY <1>4, <1>5 DEF Block, Outcomes
<1>7. /\ chain' = Append(chain, b) /\ foreign < MaxForeign /\ foreign' = foreign + 1
      /\ UNCHANGED <<finalized, pool, watched, stream, ran, reorgs, faults>>
  BY <1>3, <1>5, Zenon DEF Foreign
<1>8. PICK n : n = Len(chain)
  OBVIOUS
<1>9. /\ n \in Nat /\ n >= 1 /\ DOMAIN chain = 1..n
      /\ chain' \in Seq(Block) /\ Len(chain') = n + 1 /\ DOMAIN chain' = 1..(n + 1)
      /\ \A i \in 1..n : chain'[i] = chain[i]
      /\ chain'[n + 1] = b /\ Best' = s
  BY <1>1, <1>6, <1>7, <1>8, ChainGrows
<1>10. TypeOK'
  <2>1. finalized \in 1..(n + 1) /\ foreign' \in 0..MaxForeign
    BY <1>1, <1>7, <1>8, <1>9, ChainAssumption DEF TypeOK
  <2> QED
    BY <1>1, <1>7, <1>9, <2>1 DEF TypeOK
<1>11. \A d : Executed(d)' <=> Executed(d)
  BY <1>7 DEF Executed
<1>12. \A i \in DOMAIN chain' : \/ i \in DOMAIN chain /\ chain'[i] = chain[i]
                                \/ i = n + 1 /\ chain'[i].tx = Nobody
  BY <1>6, <1>9
<1>13. ChainInv'
  <2>1. \A i \in DOMAIN chain' : chain'[i].tx # Nobody => Ran(chain[i].tx, chain[i].outcome)'
    BY <1>7, <1>12 DEF ClientInv, ChainInv, Ran
  <2>2. \A i, j \in DOMAIN chain' : chain'[i].tx # Nobody /\ chain'[i].tx = chain'[j].tx => i = j
    BY <1>12 DEF ClientInv, ChainInv
  <2>3. \A i \in DOMAIN chain' : chain'[i].tx \notin pool'
    BY <1>1, <1>7, <1>12, ChainAssumption DEF ClientInv, ChainInv, TypeOK
  <2>4. chain'[1].tx = Nobody /\ (reorgs' = 0 => \A c \in pool' : ~Executed(c)')
    BY <1>7, <1>9, <1>11 DEF ClientInv, ChainInv
  <2> QED BY <2>1, <2>2, <2>3, <2>4 DEF ChainInv
<1>14. MappedInv'
  <2>1. ~chain'[1].state.mapped
    BY <1>9 DEF ClientInv, MappedInv
  <2>2. ASSUME NEW i \in DOMAIN chain', chain'[i].state.mapped
        PROVE  \E j \in 1..i : /\ chain'[j].tx # Nobody /\ chain'[j].outcome = "ok"
                               /\ plan[chain'[j].tx].kind = "map_account"
    <3>1. PICK m \in DOMAIN chain : m <= i /\ chain[m].state.mapped
      <4>1. CASE i \in 1..n
        BY <1>9, <2>2, <4>1
      <4>2. CASE i = n + 1
        BY <1>1, <1>4, <1>6, <1>8, <1>9, <2>2, <4>2, ChainIs
      <4> QED BY <1>9, <4>1, <4>2
    <3>2. PICK j \in 1..m : /\ chain[j].tx # Nobody /\ chain[j].outcome = "ok"
                            /\ plan[chain[j].tx].kind = "map_account"
      BY <3>1 DEF ClientInv, MappedInv
    <3>3. j \in 1..i /\ chain'[j] = chain[j]
      BY <1>9, <3>1, <3>2
    <3> QED BY <3>2, <3>3
  <2>3. \A c \in Commands : Ran(c, "AccountAlreadyMapped")' =>
          \E d \in Commands \ {c} : plan[d].kind = "map_account" /\ Ran(d, "ok")'
    BY <1>7 DEF ClientInv, MappedInv, Ran
  <2> QED BY <1>1, <2>1, <2>2, <2>3 DEF MappedInv
<1>15. EstimatesHold'
  <2> SUFFICES ASSUME NEW c \in Commands, NEW i \in DOMAIN chain', chain'[i].tx = c,
                      chain'[i].outcome = "limit",
                      estimated[c] # NotEstimated, plan[c].gas = NoLimit
               PROVE  Need(c, chain'[i - 1].state) > estimated[c]
    BY <1>1 DEF EstimatesHold, Need
  <2>1. i \in DOMAIN chain /\ chain'[i] = chain[i]
    BY <1>12, ChainAssumption
  <2>2. i # 1
    BY <2>1, ChainAssumption DEF ClientInv, ChainInv
  <2>3. chain'[i - 1] = chain[i - 1]
    BY <1>9, <2>1, <2>2
  <2> QED BY <2>1, <2>3 DEF ClientInv, EstimatesHold
<1>16. \A d \in Commands : Gone(d) => Gone(d)'
  BY <1>7, <1>11 DEF Gone
<1>17. \A d \in Commands : Hears(d)
  BY <1>7, <1>11 DEF Hears
<1>18. Best'.nonce = Best.nonce
  BY <1>4, <1>9
<1> QED
  BY <1>7, <1>10, <1>13, <1>14, <1>15, <1>16, <1>17, <1>18, NodeStepKeeps

\* A transaction finds the account mapped only where it is, and runs into a
\* limit only where it needs more.
LEMMA OutcomeNeeds ==
  ASSUME NEW c \in Commands, NEW s \in State
  PROVE  /\ Outcome(c, s) = "AccountAlreadyMapped" => s.mapped
         /\ Outcome(c, s) = "limit" =>
              limits[c].deposit < Need(c, s) \/ limits[c].gas < Need(c, s)
BY DEF Outcome

LEMMA IncludeKeeps ==
  ASSUME ClientInv, NEW c \in Commands, Include(c), UNCHANGED client
  PROVE  ClientInv'
<1>1. TypeOK /\ UNCHANGED <<plan, nonce, limits, pc, result, estimated, overlaps>>
  BY DEF ClientInv, client
<1>2. PICK o : o = Outcome(c, Best)
  OBVIOUS
<1>3. PICK s : s = After(c, Best)
  OBVIOUS
<1>4. PICK b : b = [tx |-> c, outcome |-> o, state |-> s]
  OBVIOUS
<1>5. Best \in State /\ Best = chain[Len(chain)].state
  BY <1>1, ChainIs
<1>6. o \in Outcomes /\ o \in {"ok", "limit", "reverted", "AccountAlreadyMapped", "CodeNotFound"}
  BY <1>2, <1>5, OutcomeIs DEF Outcomes
<1>7. s \in State /\ (s.mapped => Best.mapped \/ (plan[c].kind = "map_account" /\ o = "ok"))
  BY <1>2, <1>3, <1>5, AfterIs
<1>8. b \in Block /\ b.tx = c /\ b.state = s /\ b.outcome = o
  BY <1>4, <1>6, <1>7 DEF Block
<1>9. /\ chain' = Append(chain, b) /\ c \in pool /\ pool' = pool \ {c}
      /\ ran' = ran \union {[command |-> c, outcome |-> o]}
      /\ stream' = Notified(c, Event("InBestBlock", o))
      /\ UNCHANGED <<finalized, watched, foreign, reorgs, faults>>
  BY <1>2, <1>3, <1>4, Zenon DEF Include
<1>10. PICK n : n = Len(chain)
  OBVIOUS
<1>11. /\ n \in Nat /\ n >= 1 /\ DOMAIN chain = 1..n
       /\ chain' \in Seq(Block) /\ Len(chain') = n + 1 /\ DOMAIN chain' = 1..(n + 1)
       /\ \A i \in 1..n : chain'[i] = chain[i]
       /\ chain'[n + 1] = b /\ Best' = s
  BY <1>1, <1>8, <1>9, <1>10, ChainGrows
<1>12. /\ \A d : Executed(d)' <=> Executed(d) \/ d = c
       /\ \A d, r : Ran(d, r) => Ran(d, r)'
       /\ \A d, r : Ran(d, r)' => Ran(d, r) \/ (d = c /\ r = o)
       /\ Ran(c, o)'
  BY <1>9 DEF Executed, Ran
<1>13. PICK e : e = Event("InBestBlock", o)
  OBVIOUS
<1>14. e \in Events /\ e.status = "InBestBlock" /\ e.outcome = o
  BY <1>6, <1>13, EventIs
<1>15. /\ stream' \in [Commands -> Seq(Events)]
       /\ \A d \in Commands : d # c \/ c \notin watched => stream'[d] = stream[d]
       /\ c \in watched => stream'[c] = Append(stream[c], e)
  BY <1>1, <1>9, <1>13, <1>14, NotifiedIs
<1>16. TypeOK'
  <2>1. finalized \in 1..(n + 1)
    BY <1>1, <1>10, <1>11 DEF TypeOK
  <2>2. ran' \subseteq [command : Commands, outcome : Outcomes]
    BY <1>1, <1>6, <1>9 DEF TypeOK
  <2> QED
    BY <1>1, <1>9, <1>11, <1>15, <2>1, <2>2 DEF TypeOK
<1>17. \A i \in DOMAIN chain : chain[i].tx # c
  BY <1>9 DEF ClientInv, ChainInv
<1>18. c # Nobody
  BY ChainAssumption
<1>19. ChainInv'
  <2>1. ASSUME NEW i \in DOMAIN chain', chain'[i].tx # Nobody
        PROVE  Ran(chain[i].tx, chain[i].outcome)'
    <3>1. CASE i \in 1..n
      <4>1. Ran(chain[i].tx, chain[i].outcome)
        BY <1>11, <2>1, <3>1 DEF ClientInv, ChainInv
      <4> QED BY <1>9, <1>11, <3>1, <4>1 DEF Ran
    <3>2. CASE i = n + 1
      <4>1. chain'[i].tx = c /\ chain'[i].outcome = o
        BY <1>8, <1>11, <3>2
      <4> QED BY <1>9, <4>1 DEF Ran
    <3> QED BY <1>11, <3>1, <3>2
  <2>2. ASSUME NEW i \in DOMAIN chain', NEW j \in DOMAIN chain',
               chain'[i].tx # Nobody, chain'[i].tx = chain'[j].tx
        PROVE  i = j
    <3>1. CASE i \in 1..n /\ j \in 1..n
      BY <1>11, <2>2, <3>1 DEF ClientInv, ChainInv
    <3>2. CASE i \in 1..n /\ j = n + 1
      BY <1>8, <1>11, <1>17, <2>2, <3>2
    <3>3. CASE i = n + 1 /\ j \in 1..n
      BY <1>8, <1>11, <1>17, <2>2, <3>3
    <3> QED BY <1>11, <3>1, <3>2, <3>3
  <2>3. ASSUME NEW i \in DOMAIN chain'
        PROVE  chain'[i].tx \notin pool'
    <3>1. CASE i \in 1..n
      BY <1>9, <1>11, <3>1 DEF ClientInv, ChainInv
    <3>2. CASE i = n + 1
      BY <1>8, <1>9, <1>11, <3>2
    <3> QED BY <1>11, <3>1, <3>2
  <2>4. chain'[1].tx = Nobody /\ (reorgs' = 0 => \A d \in pool' : ~Executed(d)')
    BY <1>9, <1>11, <1>12 DEF ClientInv, ChainInv
  <2> QED BY <2>1, <2>2, <2>3, <2>4 DEF ChainInv
<1>20. Best.mapped => \E j \in 1..n : /\ chain[j].tx # Nobody /\ chain[j].outcome = "ok"
                                      /\ plan[chain[j].tx].kind = "map_account"
  BY <1>5, <1>10, <1>11 DEF ClientInv, MappedInv
<1>21. MappedInv'
  <2>1. ~chain'[1].state.mapped
    BY <1>11 DEF ClientInv, MappedInv
  <2>2. ASSUME NEW i \in DOMAIN chain', chain'[i].state.mapped
        PROVE  \E j \in 1..i : /\ chain'[j].tx # Nobody /\ chain'[j].outcome = "ok"
                               /\ plan[chain'[j].tx].kind = "map_account"
    <3>1. CASE i = n + 1 /\ ~Best.mapped
      <4>1. i \in 1..i /\ chain'[i].tx = c /\ chain'[i].outcome = "ok" /\ plan[c].kind = "map_account"
        BY <1>7, <1>8, <1>11, <2>2, <3>1
      <4> QED BY <1>18, <4>1
    <3>2. CASE i \in 1..n \/ Best.mapped
      <4>1. PICK m \in 1..n : m <= i /\ chain[m].state.mapped
        <5>1. CASE i \in 1..n
          BY <1>11, <2>2, <5>1
        <5>2. CASE i = n + 1
          BY <1>5, <1>10, <1>11, <3>2, <5>2
        <5> QED BY <1>11, <5>1, <5>2
      <4>2. PICK j \in 1..m : /\ chain[j].tx # Nobody /\ chain[j].outcome = "ok"
                              /\ plan[chain[j].tx].kind = "map_account"
        BY <1>11, <4>1 DEF ClientInv, MappedInv
      <4>3. j \in 1..i /\ chain'[j] = chain[j]
        BY <1>11, <4>1, <4>2
      <4> QED BY <4>2, <4>3
    <3> QED BY <1>11, <3>1, <3>2
  <2>3. ASSUME NEW d \in Commands, Ran(d, "AccountAlreadyMapped")'
        PROVE  \E f \in Commands \ {d} : plan[f].kind = "map_account" /\ Ran(f, "ok")'
    <3>1. CASE Ran(d, "AccountAlreadyMapped")
      BY <1>12, <3>1 DEF ClientInv, MappedInv
    <3>2. CASE d = c /\ o = "AccountAlreadyMapped"
      <4>1. Best.mapped
        BY <1>2, <1>5, <3>2, OutcomeNeeds
      <4>2. PICK j \in 1..n : /\ chain[j].tx # Nobody /\ chain[j].outcome = "ok"
                              /\ plan[chain[j].tx].kind = "map_account"
        BY <1>20, <4>1
      <4>3. chain[j].tx \in Commands /\ chain[j].tx # c /\ Ran(chain[j].tx, "ok")
        BY <1>1, <1>10, <1>11, <1>17, <4>2, ChainIs DEF ClientInv, ChainInv, Block
      <4> QED BY <1>12, <3>2, <4>2, <4>3
    <3> QED BY <1>12, <2>3, <3>1, <3>2
  <2> QED BY <1>1, <2>1, <2>2, <2>3 DEF MappedInv
<1>22. EstimatesHold'
  <2> SUFFICES ASSUME NEW d \in Commands, NEW i \in DOMAIN chain', chain'[i].tx = d,
                      chain'[i].outcome = "limit",
                      estimated[d] # NotEstimated, plan[d].gas = NoLimit
               PROVE  Need(d, chain'[i - 1].state) > estimated[d]
    BY <1>1 DEF EstimatesHold, Need
  <2>1. CASE i \in 1..n
    <3>1. i # 1
      BY <1>11, <2>1, ChainAssumption DEF ClientInv, ChainInv
    <3>2. chain'[i - 1] = chain[i - 1] /\ chain'[i] = chain[i]
      BY <1>11, <2>1, <3>1
    <3> QED BY <1>11, <2>1, <3>2 DEF ClientInv, EstimatesHold
  <2>2. CASE i = n + 1
    <3>1. d = c /\ o = "limit"
      BY <1>8, <1>11, <2>2
    <3>2. chain'[i - 1].state = Best
      BY <1>5, <1>10, <1>11, <2>2
    <3>3. limits[c].deposit < Need(c, Best) \/ limits[c].gas < Need(c, Best)
      BY <1>2, <1>5, <3>1, OutcomeNeeds
    <3>4. limits[c].gas = estimated[c] /\ limits[c].deposit >= estimated[c]
      BY <3>1 DEF ClientInv, LimitsInv
    <3>5. /\ limits[c].gas \in Nat /\ limits[c].deposit \in Nat /\ estimated[c] \in Nat
          /\ Need(c, Best) \in Nat
      BY <1>1, <1>5, NeedIs DEF TypeOK
    <3>6. Need(c, Best) > estimated[c]
      BY <3>3, <3>4, <3>5
    <3> QED BY <3>1, <3>2, <3>6
  <2> QED BY <1>11, <2>1, <2>2
<1>23. \A d \in Commands : Gone(d) => Gone(d)'
  BY <1>9, <1>12 DEF Gone
<1>24. \A d \in Commands : Hears(d)
  <2> SUFFICES ASSUME NEW d \in Commands PROVE Hears(d)
    OBVIOUS
  <2>1. CASE d # c
    BY <1>9, <1>12, <1>15, <2>1 DEF Hears
  <2>2. CASE d = c /\ c \notin watched
    BY <1>9, <1>15, <2>2 DEF Hears
  <2>3. CASE d = c /\ c \in watched
    <3>1. Ran(d, e.outcome)' /\ e.status \in Included
      BY <1>9, <1>14, <2>3 DEF Ran, Included
    <3> QED BY <1>14, <1>15, <2>3, <3>1 DEF Hears
  <2> QED BY <2>1, <2>2, <2>3
<1>25. \A d \in Commands : ~(Alone(d) /\ pc[d] = "submit")
  BY <1>9, AloneFindsNoPool
<1> QED
  BY <1>9, <1>16, <1>19, <1>21, <1>22, <1>23, <1>24, <1>25, NodeStepKeeps

LEMMA ReorganiseKeeps ==
  ASSUME ClientInv, Reorganise, UNCHANGED client
  PROVE  ClientInv'
<1>1. TypeOK /\ UNCHANGED <<plan, nonce, limits, pc, result, estimated, overlaps>>
  BY DEF ClientInv, client
<1>2. PICK n : n = Len(chain)
  OBVIOUS
<1>3. PICK s : s = chain[n - 1].state
  OBVIOUS
<1>4. PICK b : b = [tx |-> Nobody, outcome |-> "ok", state |-> s]
  OBVIOUS
<1>5. PICK lost : lost = chain[n].tx
  OBVIOUS
<1>6. PICK e : e = Event("NoLongerInBestBlock", "none")
  OBVIOUS
<1>7. /\ reorgs < MaxReorgs /\ n > finalized /\ reorgs' = reorgs + 1
      /\ chain' = [chain EXCEPT ![n] = b]
      /\ lost = Nobody => UNCHANGED <<pool, stream>>
      /\ lost # Nobody => pool' = pool \union {lost} /\ stream' = Notified(lost, e)
      /\ UNCHANGED <<finalized, watched, ran, foreign, faults>>
  BY <1>2, <1>3, <1>4, <1>5, <1>6, Zenon DEF Reorganise
<1>8. /\ n \in Nat /\ DOMAIN chain = 1..n /\ finalized \in 1..n /\ n >= 2
      /\ n - 1 \in 1..n /\ n \in 1..n /\ n # 1 /\ n # n - 1
  BY <1>1, <1>2, <1>7, ChainIs DEF TypeOK
<1>9. s \in State /\ lost \in Commands \union {Nobody}
  BY <1>1, <1>2, <1>3, <1>5, <1>8, ChainIs DEF Block
<1>10. b \in Block /\ b.tx = Nobody /\ b.state = s /\ b.outcome = "ok"
  BY <1>4, <1>9 DEF Block, Outcomes
<1>11. e \in Events /\ e.status = "NoLongerInBestBlock"
  BY <1>6, EventIs
<1>12. /\ chain' \in Seq(Block) /\ Len(chain') = n /\ DOMAIN chain' = 1..n
       /\ \A i \in 1..n : i # n => chain'[i] = chain[i]
       /\ chain'[n] = b
  <2>1. chain \in Seq(Block)
    BY <1>1 DEF TypeOK
  <2>2. /\ chain' \in Seq(Block) /\ Len(chain') = n
        /\ \A i \in 1..n : chain'[i] = IF i = n THEN b ELSE chain[i]
    BY <1>2, <1>7, <1>8, <1>10, <2>1, ExceptSeq
  <2>3. DOMAIN chain' = 1..n
    BY <2>2, LenProperties
  <2> QED BY <1>8, <2>2, <2>3
<1>13. \A d, r : (Executed(d)' <=> Executed(d)) /\ (Ran(d, r)' <=> Ran(d, r))
  BY <1>7 DEF Executed, Ran
<1>14. lost # Nobody => lost \in Commands /\ Executed(lost)
  <2> SUFFICES ASSUME lost # Nobody PROVE Executed(lost)
    BY <1>9
  <2>1. Ran(chain[n].tx, chain[n].outcome)
    BY <1>5, <1>8 DEF ClientInv, ChainInv
  <2> QED BY <1>5, <2>1 DEF Ran, Executed
<1>15. /\ stream' \in [Commands -> Seq(Events)]
       /\ \A d \in Commands : Hears(d)
  <2>1. CASE lost = Nobody
    BY <1>1, <1>7, <1>13, <2>1 DEF Hears, TypeOK
  <2>2. CASE lost # Nobody
    BY <1>1, <1>7, <1>11, <1>14, <2>2, Told DEF Included
  <2> QED BY <2>1, <2>2
<1>16. /\ reorgs \in Nat /\ reorgs' \in 0..MaxReorgs /\ reorgs' # 0
       /\ pool' \subseteq Commands /\ pool \subseteq pool'
  BY <1>1, <1>7, <1>14, ChainAssumption DEF TypeOK
<1>17. TypeOK'
  BY <1>1, <1>7, <1>8, <1>12, <1>15, <1>16 DEF TypeOK
<1>18. \A i \in 1..n : i # n => chain[i].tx \notin pool'
  <2> SUFFICES ASSUME NEW i \in 1..n, i # n, chain[i].tx \in pool' PROVE FALSE
    OBVIOUS
  <2>1. chain[i].tx \notin pool
    BY <1>8 DEF ClientInv, ChainInv
  <2>2. lost # Nobody /\ chain[i].tx = lost
    BY <1>7, <2>1
  <2> QED BY <1>5, <1>8, <2>2 DEF ClientInv, ChainInv
<1>19. ChainInv'
  <2>1. ASSUME NEW i \in DOMAIN chain', chain'[i].tx # Nobody
        PROVE  Ran(chain[i].tx, chain[i].outcome)'
    <3>1. i # n /\ i \in 1..n /\ chain'[i] = chain[i]
      BY <1>10, <1>12, <2>1
    <3>2. Ran(chain[i].tx, chain[i].outcome)
      BY <1>8, <2>1, <3>1 DEF ClientInv, ChainInv
    <3> QED BY <1>7, <3>1, <3>2 DEF Ran
  <2>2. \A i, j \in DOMAIN chain' : chain'[i].tx # Nobody /\ chain'[i].tx = chain'[j].tx => i = j
    BY <1>8, <1>10, <1>12 DEF ClientInv, ChainInv
  <2>3. \A i \in DOMAIN chain' : chain'[i].tx \notin pool'
    BY <1>10, <1>12, <1>16, <1>18, ChainAssumption
  <2>4. chain'[1].tx = Nobody
    BY <1>8, <1>12 DEF ClientInv, ChainInv
  <2> QED BY <1>16, <2>1, <2>2, <2>3, <2>4 DEF ChainInv
<1>20. MappedInv'
  <2>1. ~chain'[1].state.mapped
    BY <1>8, <1>12 DEF ClientInv, MappedInv
  <2>2. ASSUME NEW i \in DOMAIN chain', chain'[i].state.mapped
        PROVE  \E j \in 1..i : /\ chain'[j].tx # Nobody /\ chain'[j].outcome = "ok"
                               /\ plan[chain'[j].tx].kind = "map_account"
    <3>1. PICK m \in 1..(n - 1) : m <= i /\ chain[m].state.mapped
      <4>1. CASE i = n
        BY <1>3, <1>8, <1>10, <1>12, <2>2, <4>1
      <4>2. CASE i # n
        BY <1>8, <1>12, <2>2, <4>2
      <4> QED BY <4>1, <4>2
    <3>2. PICK j \in 1..m : /\ chain[j].tx # Nobody /\ chain[j].outcome = "ok"
                            /\ plan[chain[j].tx].kind = "map_account"
      BY <1>8, <3>1 DEF ClientInv, MappedInv
    <3>3. j \in 1..i /\ chain'[j] = chain[j]
      BY <1>8, <1>12, <3>1, <3>2
    <3> QED BY <3>2, <3>3
  <2>3. \A c \in Commands : Ran(c, "AccountAlreadyMapped")' =>
          \E d \in Commands \ {c} : plan[d].kind = "map_account" /\ Ran(d, "ok")'
    BY <1>13 DEF ClientInv, MappedInv
  <2> QED BY <1>1, <2>1, <2>2, <2>3 DEF MappedInv
<1>21. EstimatesHold'
  <2> SUFFICES ASSUME NEW c \in Commands, NEW i \in DOMAIN chain', chain'[i].tx = c,
                      chain'[i].outcome = "limit",
                      estimated[c] # NotEstimated, plan[c].gas = NoLimit
               PROVE  Need(c, chain'[i - 1].state) > estimated[c]
    BY <1>1 DEF EstimatesHold, Need
  <2>1. i # n /\ i \in 1..n /\ chain'[i] = chain[i]
    BY <1>10, <1>12, ChainAssumption
  <2>2. i # 1
    BY <2>1, ChainAssumption DEF ClientInv, ChainInv
  <2>3. chain'[i - 1] = chain[i - 1]
    BY <1>8, <1>12, <2>1, <2>2
  <2> QED BY <1>8, <2>1, <2>3 DEF ClientInv, EstimatesHold
<1>22. \A d \in Commands : Gone(d) => Gone(d)'
  BY <1>7, <1>13, <1>14 DEF Gone
<1> QED
  BY <1>7, <1>15, <1>16, <1>17, <1>19, <1>20, <1>21, <1>22, NodeStepKeeps

-----------------------------------------------------------------------------
(* The theorems                                                            *)

LEMMA InitHolds == Init => ClientInv
<1> SUFFICES ASSUME Init PROVE ClientInv
  OBVIOUS
<1>1. PICK b : b = [tx |-> Nobody, outcome |-> "ok", state |-> Genesis]
  OBVIOUS
<1>2. b \in Block /\ b.tx = Nobody /\ b.outcome = "ok" /\ ~b.state.mapped
  BY <1>1 DEF Block, Outcomes, State, Genesis
<1>3. chain = <<b>>
  BY <1>1 DEF Init
<1>4. chain \in Seq(Block) /\ Len(chain) = 1 /\ DOMAIN chain = 1..1 /\ chain[1] = b
  BY <1>2, <1>3
<1>5. \A c \in Commands : /\ pc[c] = "idle" /\ result[c] = "none" /\ stream[c] = << >>
                          /\ estimated[c] = NotEstimated /\ overlaps[c] = {}
  BY DEF Init
<1>6. pool = {} /\ watched = {} /\ ran = {} /\ reorgs = 0 /\ finalized = 1
  BY DEF Init
<1>7. TypeOK
  <2>1. plan \in [Commands -> Plan]
    BY ChainAssumption DEF Init
  <2>2. foreign \in 0..MaxForeign /\ reorgs \in 0..MaxReorgs /\ faults \in 0..MaxFaults
    BY ChainAssumption DEF Init
  <2>3. /\ nonce \in [Commands -> Nat]
        /\ limits \in [Commands -> [gas : Nat, deposit : Nat]]
        /\ estimated \in [Commands -> Nat] /\ overlaps \in [Commands -> SUBSET Commands]
    BY DEF Init, NotEstimated, NoLimit
  <2>4. stream \in [Commands -> Seq(Events)]
    BY EmptySeq DEF Init
  <2>5. /\ pc \in [Commands -> {"idle", "estimate", "nonce", "submit", "watch", "done"}]
        /\ result \in [Commands -> Results]
    BY DEF Init, Results
  <2> QED
    BY <1>4, <1>5, <1>6, <2>1, <2>2, <2>3, <2>4, <2>5 DEF TypeOK
<1>8. \A c, o : ~Ran(c, o) /\ ~Executed(c)
  BY <1>6 DEF Ran, Executed
<1>9. UnsentInv /\ StreamInv /\ LimitsInv /\ NonceInv
  BY <1>5, <1>6, <1>8 DEF UnsentInv, StreamInv, LimitsInv, NonceInv, Running
<1>10. ChainInv
  BY <1>2, <1>4, <1>6 DEF ChainInv
<1>11. MappedInv
  BY <1>2, <1>4, <1>8 DEF MappedInv
<1>12. ReportsAreTrue /\ RefusalsAreFinal /\ SequentialNoncesWork /\ EstimatesHold
  BY <1>5 DEF ReportsAreTrue, RefusalsAreFinal, SequentialNoncesWork, EstimatesHold, Definite
<1> QED
  BY <1>7, <1>9, <1>10, <1>11, <1>12 DEF ClientInv

LEMMA StutterKeeps ==
  ASSUME ClientInv, UNCHANGED vars
  PROVE  ClientInv'
<1>1. UNCHANGED client /\ UNCHANGED <<chain, pool, watched, stream, ran, reorgs>>
  BY DEF vars, node
<1>2. TypeOK'
  BY DEF ClientInv, TypeOK, vars, node, client
<1>3. \A d \in Commands : Hears(d)
  BY <1>1 DEF Hears, Executed
<1> QED
  BY <1>1, <1>2, <1>3, QuietNodeKeeps

LEMMA StepKeepsInv == ClientInv /\ [Next]_vars => ClientInv'
<1> SUFFICES ASSUME ClientInv, [Next]_vars PROVE ClientInv'
  OBVIOUS
<1>1. CASE \E c \in Commands : Start(c) \/ Turn(c) \/ RequestFails(c)
  <2>1. PICK c \in Commands : Start(c) \/ Turn(c) \/ RequestFails(c)
    BY <1>1
  <2>2. CASE Start(c)
    BY <2>2, StartKeeps
  <2>3. CASE DryRun(c)
    BY <2>3, DryRunKeeps
  <2>4. CASE ReadNonce(c)
    BY <2>4, ReadNonceKeeps
  <2>5. CASE Submit(c)
    BY <2>5, SubmitKeeps
  <2>6. CASE Watch(c)
    BY <2>6, WatchKeeps
  <2>7. CASE RequestFails(c)
    BY <2>7, RequestFailsKeeps
  <2> QED
    BY <2>1, <2>2, <2>3, <2>4, <2>5, <2>6, <2>7 DEF Turn
<1>2. CASE NodeNext /\ UNCHANGED client
  <2>1. CASE \E c \in Commands : Include(c)
    BY <1>2, <2>1, IncludeKeeps
  <2>2. CASE Foreign
    BY <1>2, <2>2, ForeignKeeps
  <2>3. CASE Reorganise
    BY <1>2, <2>3, ReorganiseKeeps
  <2>4. CASE Finalize
    BY <1>2, <2>4, FinalizeKeeps
  <2>5. CASE \E c \in Commands : Evict(c)
    BY <1>2, <2>5, EvictKeeps
  <2>6. CASE \E c \in Commands, status \in {"End", "Error"} : Disconnect(c, status)
    BY <1>2, <2>6, DisconnectKeeps
  <2> QED
    BY <1>2, <2>1, <2>2, <2>3, <2>4, <2>5, <2>6 DEF NodeNext
<1>3. CASE UNCHANGED vars
  BY <1>3, StutterKeeps
<1> QED
  BY <1>1, <1>2, <1>3 DEF Next

LEMMA InvAlways == Spec => []ClientInv
BY InitHolds, StepKeepsInv, PTL DEF Spec

\* Whatever the node does, a command has a result exactly when it is done, only
\* a command that watches has a subscription, and submit_extrinsic never signs
\* with anything but a number.
THEOREM ClientTyped == Spec => []TypeOK
<1>1. ClientInv => TypeOK
  BY DEF ClientInv
<1> QED
  BY <1>1, InvAlways, PTL

\* wait_for_success: for any commands, any number of replaced blocks and lost
\* answers, a command that reports success was executed without a dispatch
\* error, one that reports a dispatch error had one, and a mapping said to be
\* there already was made by another command.
THEOREM ReportsHold == Spec => []ReportsAreTrue
<1>1. ClientInv => ReportsAreTrue
  BY DEF ClientInv
<1> QED
  BY <1>1, InvAlways, PTL

\* submit_extrinsic's errors: after a dry run, a nonce, a request, or a status
\* that refuses the transaction, nothing of it was executed and nothing waits,
\* and that stays so.
THEOREM RefusalsHold == Spec => []RefusalsAreFinal
<1>1. ClientInv => RefusalsAreFinal
  BY DEF ClientInv
<1> QED
  BY <1>1, InvAlways, PTL

\* estimate_gas and estimate_limits: limits taken from a dry run are too low
\* only in a state that needs more than the one they were measured in.
THEOREM EstimatesAlwaysHold == Spec => []EstimatesHold
<1>1. ClientInv => EstimatesHold
  BY DEF ClientInv
<1> QED
  BY <1>1, InvAlways, PTL

\* get_account_nonce, lib.rs "Callers must ensure sequential submission per
\* signer": one command after the other is never refused for its nonce unless
\* track was lost of an earlier one or a block was replaced.
THEOREM SequentialNoncesHold == Spec => []SequentialNoncesWork
<1>1. ClientInv => SequentialNoncesWork
  BY DEF ClientInv
<1> QED
  BY <1>1, InvAlways, PTL
=============================================================================
