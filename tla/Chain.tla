-------------------------------- MODULE Chain --------------------------------
(* The node the extrinsics client talks to, as far as its answers show: a   *)
(* best chain whose last blocks may still be replaced, a transaction pool   *)
(* ordered by the nonces of the one account that signs, and a stream of     *)
(* status events per watched transaction.  Nothing of this is in the        *)
(* repository: it is what its client relies on and has to survive.          *)
EXTENDS Naturals, Sequences

CONSTANTS
  Commands,     \* the runs of the client
  Plans,        \* what the commands may be asked to do
  MaxForeign,   \* bound: blocks in which other accounts grow the contract
  MaxReorgs,    \* bound: best blocks that are replaced by a sibling
  MaxFaults     \* bound: lost answers, closed streams, dropped transactions

Kinds == {"upload", "remove", "instantiate", "call", "map_account"}
NoLimit == 99
Limit == 0..(NoLimit - 1)

\* The limits are the options of the command; `reverts` is the contract's doing.
Plan == [kind : Kinds, gas : Limit \union {NoLimit}, deposit : Limit \union {NoLimit},
         reverts : BOOLEAN]

Nobody == "nobody"

ASSUME ChainAssumption ==
  /\ Plans \subseteq [Commands -> Plan]
  /\ Nobody \notin Commands
  /\ MaxForeign \in Nat /\ MaxReorgs \in Nat /\ MaxFaults \in Nat
  /\ MaxForeign + 1 < NoLimit

VARIABLES
  plan,        \* of each command
  nonce,       \* signed into the command's transaction
  limits,      \* gas and deposit signed into it
  chain,       \* blocks of the best chain: transaction, outcome, state after it
  finalized,   \* how many of them are final
  pool,        \* commands whose transaction waits
  watched,     \* commands with a live subscription to their transaction
  stream,      \* its events, oldest first
  ran,         \* history: every execution in any block, [command, outcome]
  foreign, reorgs, faults   \* uses of the bounds

node == <<chain, finalized, pool, watched, stream, ran, foreign, reorgs, faults>>

\* What the client's commands read or change in the chain's state: the
\* account's nonce, what a call of the contract costs, whether the code and the
\* account's mapping are there.
State == [nonce : Nat, cost : Nat, code : BOOLEAN, mapped : BOOLEAN]
Genesis == [nonce |-> 0, cost |-> 1, code |-> FALSE, mapped |-> FALSE]

Best == chain[Len(chain)].state

\* What the command needs of both limits in a state.
Need(c, s) == IF plan[c].kind = "upload" THEN IF s.code THEN 0 ELSE 1 ELSE s.cost

Metered(c) == plan[c].kind \in {"upload", "instantiate", "call"}

Outcome(c, s) ==
  IF Metered(c) /\ (limits[c].deposit < Need(c, s) \/ limits[c].gas < Need(c, s)) THEN "limit"
  ELSE IF Metered(c) /\ plan[c].reverts THEN "reverted"
  ELSE IF plan[c].kind = "map_account" /\ s.mapped THEN "AccountAlreadyMapped"
  ELSE IF plan[c].kind = "remove" /\ ~s.code THEN "CodeNotFound"
  ELSE "ok"

\* A failed transaction only uses up its nonce.
After(c, s) ==
  LET done(kind) == plan[c].kind = kind /\ Outcome(c, s) = "ok" IN
  [nonce  |-> s.nonce + 1,
   cost   |-> IF done("call") THEN s.cost + 1 ELSE s.cost,
   code   |-> (s.code \/ done("upload")) /\ ~done("remove"),
   mapped |-> s.mapped \/ done("map_account")]

Event(status, outcome) == [status |-> status, outcome |-> outcome]
Notified(c, e) == IF c \in watched THEN [stream EXCEPT ![c] = Append(@, e)] ELSE stream

-----------------------------------------------------------------------------
\* A waiting transaction whose nonce is next is put into a block.
Include(c) ==
  LET outcome == Outcome(c, Best) IN
  /\ c \in pool /\ nonce[c] = Best.nonce
  /\ chain' = Append(chain, [tx |-> c, outcome |-> outcome, state |-> After(c, Best)])
  /\ pool' = pool \ {c}
  /\ ran' = ran \union {[command |-> c, outcome |-> outcome]}
  /\ stream' = Notified(c, Event("InBestBlock", outcome))
  /\ UNCHANGED <<finalized, watched, foreign, reorgs, faults>>

\* Another account's call makes the contract dearer to call.
Foreign ==
  /\ foreign < MaxForeign
  /\ foreign' = foreign + 1
  /\ chain' = Append(chain, [tx |-> Nobody, outcome |-> "ok",
                             state |-> [Best EXCEPT !.cost = @ + 1]])
  /\ UNCHANGED <<finalized, pool, watched, stream, ran, reorgs, faults>>

\* The best block loses against an empty sibling; its transaction waits again.
Reorganise ==
  LET n == Len(chain)
      lost == chain[n].tx IN
  /\ reorgs < MaxReorgs
  /\ n > finalized
  /\ reorgs' = reorgs + 1
  /\ chain' = [chain EXCEPT ![n] = [tx |-> Nobody, outcome |-> "ok", state |-> chain[n - 1].state]]
  /\ IF lost = Nobody THEN UNCHANGED <<pool, stream>>
     ELSE /\ pool' = pool \union {lost}
          /\ stream' = Notified(lost, Event("NoLongerInBestBlock", "none"))
  /\ UNCHANGED <<finalized, watched, ran, foreign, faults>>

Finalize ==
  /\ finalized < Len(chain)
  /\ finalized' = finalized + 1
  /\ LET b == chain[finalized + 1] IN
     stream' = IF b.tx = Nobody THEN stream
               ELSE Notified(b.tx, Event("InFinalizedBlock", b.outcome))
  /\ UNCHANGED <<chain, pool, watched, ran, foreign, reorgs, faults>>

\* A full pool drops a transaction and says so.
Evict(c) ==
  /\ faults < MaxFaults
  /\ faults' = faults + 1
  /\ c \in pool
  /\ pool' = pool \ {c}
  /\ stream' = Notified(c, Event("Dropped", "none"))
  /\ watched' = watched \ {c}
  /\ UNCHANGED <<chain, finalized, ran, foreign, reorgs>>

\* The subscription ends, with an error or without a word: the transaction
\* goes on.
Disconnect(c, status) ==
  /\ faults < MaxFaults
  /\ faults' = faults + 1
  /\ c \in watched
  /\ stream' = Notified(c, Event(status, "none"))
  /\ watched' = watched \ {c}
  /\ UNCHANGED <<chain, finalized, pool, ran, foreign, reorgs>>

-----------------------------------------------------------------------------
(* What a submission can meet                                              *)

Outdated(c) == nonce[c] < Best.nonce
Rivals(c) == {d \in pool : nonce[d] = nonce[c]}

\* The pool takes the transaction; of two with one nonce it keeps the one of
\* higher priority.
Accept(c) ==
  /\ ~Outdated(c)
  /\ \/ Rivals(c) = {} /\ pool' = pool \union {c} /\ UNCHANGED stream
     \/ \E d \in Rivals(c) :
          /\ pool' = (pool \ {d}) \union {c}
          /\ stream' = Notified(d, Event("Invalid", "none"))
  /\ UNCHANGED <<chain, finalized, ran, foreign, reorgs>>
=============================================================================
