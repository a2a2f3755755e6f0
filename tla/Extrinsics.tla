----------------------------- MODULE Extrinsics -----------------------------
(* The extrinsics client (cargo-pvm-contract-extrinsics) and the commands   *)
(* of the command line tool that use it, all signing with one account.  A   *)
(* step of `pc` is one await: between two of them the node moves on and     *)
(* other commands run.                                                      *)
EXTENDS Chain

VARIABLES
  pc,         \* the next await of each command
  result,     \* what the command reported
  estimated,  \* history: what the dry run said is needed
  overlaps    \* history: commands that were under way at the same time

client == <<plan, nonce, limits, pc, result, estimated, overlaps>>
vars == <<node, client>>

\* No estimate was made: limits the user gave were used as they are.
NotEstimated == NoLimit

Running(c) == pc[c] \notin {"idle", "done"}

Report(c, r) ==
  /\ pc' = [pc EXCEPT ![c] = "done"]
  /\ result' = [result EXCEPT ![c] = r]

Goto(c, label) ==
  /\ pc' = [pc EXCEPT ![c] = label]
  /\ UNCHANGED result

\* The limits the options give; a call only goes without a dry run when it has
\* all of them, an upload when it has its deposit limit, an instantiation of
\* the command line never.
GivenLimits(c) == [gas |-> plan[c].gas, deposit |-> plan[c].deposit]

DryRuns(c) ==
  \/ plan[c].kind = "upload" /\ plan[c].deposit = NoLimit
  \/ plan[c].kind = "instantiate"
  \/ plan[c].kind = "call" /\ (plan[c].gas = NoLimit \/ plan[c].deposit = NoLimit)

Start(c) ==
  /\ pc[c] = "idle"
  /\ Goto(c, IF DryRuns(c) THEN "estimate" ELSE "nonce")
  /\ limits' = [limits EXCEPT ![c] = GivenLimits(c)]
  /\ overlaps' = [d \in Commands |->
       IF d = c THEN {e \in Commands : Running(e)}
       ELSE IF Running(d) THEN overlaps[d] \union {c} ELSE overlaps[d]]
  /\ UNCHANGED <<node, plan, nonce, estimated>>

-----------------------------------------------------------------------------
(* Estimation                                                              *)

\* The dry run has no gas limit, but the deposit limit of the options.
DryRunFails(c) == plan[c].deposit # NoLimit /\ plan[c].deposit < Need(c, Best)

\* Mutant: what the dry run measured is not used for the deposit.
Estimate_GasOnly(c) ==
  [gas |-> IF plan[c].gas = NoLimit THEN Need(c, Best) ELSE plan[c].gas,
   deposit |-> IF plan[c].deposit = NoLimit THEN 0 ELSE plan[c].deposit]

\* estimate_gas, estimate_limits, and the deposit of an upload: each option
\* that was not given is what the best block's state requires.
Estimate(c) ==
  [gas |-> IF plan[c].gas = NoLimit THEN Need(c, Best) ELSE plan[c].gas,
   deposit |-> IF plan[c].deposit = NoLimit THEN Need(c, Best) ELSE plan[c].deposit]

\* A dry run that runs to its end counts, reverted or not.
DryRun(c) ==
  /\ pc[c] = "estimate"
  /\ \/ /\ DryRunFails(c)
        /\ Report(c, "dry_run_failed")
        /\ UNCHANGED <<limits, estimated>>
     \/ /\ ~DryRunFails(c)
        /\ Goto(c, "nonce")
        /\ limits' = [limits EXCEPT ![c] = Estimate(c)]
        /\ estimated' = [estimated EXCEPT ![c] = Need(c, Best)]
  /\ UNCHANGED <<node, plan, nonce, overlaps>>

-----------------------------------------------------------------------------
(* submit_extrinsic                                                        *)

\* Mutant: the nonce of the last final block, which is not the best one.
AccountNonce_Final == chain[finalized].state.nonce

\* get_account_nonce: transactions that wait are not counted.
AccountNonce == Best.nonce

ReadNonce(c) ==
  /\ pc[c] = "nonce"
  /\ Goto(c, "submit")
  /\ nonce' = [nonce EXCEPT ![c] = AccountNonce]
  /\ UNCHANGED <<node, plan, limits, estimated, overlaps>>

\* submit_and_watch: the node takes the transaction or refuses it at once; its
\* answer may get lost after it was taken.
Submit(c) ==
  /\ pc[c] = "submit"
  /\ \/ Outdated(c) /\ Report(c, "stale") /\ UNCHANGED node
     \/ ~Outdated(c) /\ Rivals(c) # {} /\ Report(c, "rejected") /\ UNCHANGED node
     \/ Accept(c) /\ watched' = watched \union {c} /\ Goto(c, "watch") /\ UNCHANGED faults
     \/ /\ faults < MaxFaults /\ faults' = faults + 1
        /\ Accept(c) /\ UNCHANGED watched
        /\ Report(c, "rpc_error_submitting")
  /\ UNCHANGED <<plan, nonce, limits, estimated, overlaps>>

\* Any other request that fails ends the command before it submits.
RequestFails(c) ==
  /\ pc[c] \in {"estimate", "nonce", "submit"}
  /\ faults < MaxFaults /\ faults' = faults + 1
  /\ Report(c, "rpc_error")
  /\ UNCHANGED <<chain, finalized, pool, watched, stream, ran, foreign, reorgs>>
  /\ UNCHANGED <<plan, nonce, limits, estimated, overlaps>>

\* Mutant: inclusion counts as success.
Reported_Unchecked(c, outcome) == "ok"

\* wait_for_success, and the error map_account_command takes for a success.
Reported(c, outcome) ==
  IF outcome = "ok" THEN "ok"
  ELSE IF plan[c].kind = "map_account" /\ outcome = "AccountAlreadyMapped" THEN "already_mapped"
  ELSE "dispatch_error"

\* Mutant: only finality counts as inclusion.
Included_Final == {"InFinalizedBlock"}
Included == {"InBestBlock", "InFinalizedBlock"}

Refusals == [Invalid |-> "invalid", Dropped |-> "dropped", Error |-> "error",
             End |-> "subscription_dropped"]

\* Mutant: the subscription outlives the command.
EndWatch_Leaked(c, r) ==
  /\ Report(c, r)
  /\ stream' = [stream EXCEPT ![c] = << >>]
  /\ UNCHANGED watched

\* The subscription is dropped with the command.
EndWatch(c, r) ==
  /\ Report(c, r)
  /\ watched' = watched \ {c}
  /\ stream' = [stream EXCEPT ![c] = << >>]

\* Mutant: a stream that has ended is polled again.
Watch_Forever(c) ==
  /\ pc[c] = "watch"
  /\ stream[c] # << >> /\ Head(stream[c]).status # "End"
  /\ LET e == Head(stream[c]) IN
     \/ e.status \in Included /\ EndWatch(c, Reported(c, e.outcome))
     \/ e.status \in DOMAIN Refusals /\ EndWatch(c, Refusals[e.status])
     \/ /\ e.status \notin Included \union DOMAIN Refusals
        /\ stream' = [stream EXCEPT ![c] = Tail(@)]
        /\ UNCHANGED <<pc, result, watched>>
  /\ UNCHANGED <<chain, finalized, pool, ran, foreign, reorgs, faults>>
  /\ UNCHANGED <<plan, nonce, limits, estimated, overlaps>>

\* One turn of the watch loop; the events of the block may fail to be fetched.
Watch(c) ==
  /\ pc[c] = "watch"
  /\ stream[c] # << >>
  /\ LET e == Head(stream[c]) IN
     \/ e.status \in Included /\ EndWatch(c, Reported(c, e.outcome)) /\ UNCHANGED faults
     \/ /\ e.status \in Included
        /\ faults < MaxFaults /\ faults' = faults + 1
        /\ EndWatch(c, "rpc_error_watching")
     \/ e.status \in DOMAIN Refusals /\ EndWatch(c, Refusals[e.status]) /\ UNCHANGED faults
     \/ /\ e.status \notin Included \union DOMAIN Refusals
        /\ stream' = [stream EXCEPT ![c] = Tail(@)]
        /\ UNCHANGED <<pc, result, watched, faults>>
  /\ UNCHANGED <<chain, finalized, pool, ran, foreign, reorgs>>
  /\ UNCHANGED <<plan, nonce, limits, estimated, overlaps>>

-----------------------------------------------------------------------------
Init ==
  /\ plan \in Plans
  /\ nonce = [c \in Commands |-> 0]
  /\ limits = [c \in Commands |-> [gas |-> 0, deposit |-> 0]]
  /\ chain = <<[tx |-> Nobody, outcome |-> "ok", state |-> Genesis]>>
  /\ finalized = 1
  /\ pool = {}
  /\ watched = {}
  /\ stream = [c \in Commands |-> << >>]
  /\ ran = {}
  /\ foreign = 0 /\ reorgs = 0 /\ faults = 0
  /\ pc = [c \in Commands |-> "idle"]
  /\ result = [c \in Commands |-> "none"]
  /\ estimated = [c \in Commands |-> NotEstimated]
  /\ overlaps = [c \in Commands |-> {}]

Turn(c) == DryRun(c) \/ ReadNonce(c) \/ Submit(c) \/ Watch(c)

NodeNext ==
  \/ \E c \in Commands : Include(c)
  \/ Foreign \/ Reorganise \/ Finalize
  \/ \E c \in Commands : Evict(c)
  \/ \E c \in Commands, status \in {"End", "Error"} : Disconnect(c, status)

Next ==
  \/ \E c \in Commands : Start(c) \/ Turn(c) \/ RequestFails(c)
  \/ NodeNext /\ UNCHANGED client

\* The runtime polls a task that can go on, and the node builds a block when a
\* transaction is ready; nobody has to start a command, and nothing else the
\* node does has to happen.
Fairness ==
  /\ \A c \in Commands : WF_vars(Turn(c))
  /\ \A c \in Commands : WF_vars(Include(c) /\ UNCHANGED client)

Spec == Init /\ [][Next]_vars /\ Fairness

-----------------------------------------------------------------------------
(* Properties                                                              *)

Outcomes == {"none", "ok", "limit", "reverted", "AccountAlreadyMapped", "CodeNotFound"}
Events == [status : Included \union DOMAIN Refusals \union {"NoLongerInBestBlock"}, outcome : Outcomes]
Block == [tx : Commands \union {Nobody}, outcome : Outcomes, state : State]
Results == {"none", "ok", "already_mapped", "dry_run_failed", "stale", "rejected", "rpc_error",
            "rpc_error_submitting", "rpc_error_watching", "dispatch_error", "invalid",
            "dropped", "error", "subscription_dropped"}

\* One type invariant: a command has a result exactly when it is done, and the
\* chain is never shorter than what is final of it.
TypeOK ==
  /\ plan \in [Commands -> Plan]
  /\ nonce \in [Commands -> Nat]
  /\ limits \in [Commands -> [gas : Nat, deposit : Nat]]
  /\ chain \in Seq(Block) /\ finalized \in 1..Len(chain)
  /\ pool \subseteq Commands
  /\ watched \subseteq {c \in Commands : pc[c] = "watch"}
  /\ stream \in [Commands -> Seq(Events)]
  /\ ran \subseteq [command : Commands, outcome : Outcomes]
  /\ foreign \in 0..MaxForeign /\ reorgs \in 0..MaxReorgs /\ faults \in 0..MaxFaults
  /\ pc \in [Commands -> {"idle", "estimate", "nonce", "submit", "watch", "done"}]
  /\ result \in [Commands -> Results]
  /\ \A c \in Commands : result[c] # "none" <=> pc[c] = "done"
  /\ estimated \in [Commands -> Nat]
  /\ overlaps \in [Commands -> SUBSET Commands]

Ran(c, outcome) == [command |-> c, outcome |-> outcome] \in ran
Executed(c) == \E r \in ran : r.command = c

\* lib.rs "reports success once the transaction is included in a block": a
\* command that reports success was executed, and without a dispatch error,
\* in a block, though perhaps not in one that lasts; a mapping reported as
\* there already was made by another command.
ReportsAreTrue ==
  \A c \in Commands :
    /\ result[c] = "ok" => Ran(c, "ok")
    /\ result[c] = "dispatch_error" => \E o \in Outcomes \ {"ok"} : Ran(c, o)
    /\ result[c] = "already_mapped" => \E d \in Commands \ {c} :
         plan[d].kind = "map_account" /\ Ran(d, "ok")

\* The errors after which a user may try again without fear: nothing of the
\* command was ever executed, and nothing of it waits.  Only a lost answer, a
\* subscription that ends and events that cannot be fetched leave that open.
Definite == {"dry_run_failed", "stale", "rejected", "rpc_error", "invalid", "dropped"}
RefusalsAreFinal ==
  \A c \in Commands : result[c] \in Definite => ~Executed(c) /\ c \notin pool

\* An estimate is only as old as the block it was made in: limits taken from a
\* dry run are too low only if the state the command needs changed meanwhile,
\* or a gas limit, which the dry run is not given, was too low from the start.
EstimatesHold ==
  \A c \in Commands, i \in DOMAIN chain :
    (/\ chain[i].tx = c /\ chain[i].outcome = "limit"
     /\ estimated[c] # NotEstimated /\ plan[c].gas = NoLimit)
    => Need(c, chain[i - 1].state) > estimated[c]

\* lib.rs "Callers must ensure sequential submission per signer": a caller that
\* does is never refused for its nonce, unless an earlier command ended without
\* knowing what became of its transaction, or a block was replaced.
SequentialNoncesWork ==
  \A c \in Commands :
    result[c] \in {"stale", "rejected", "invalid"} =>
      \/ overlaps[c] # {}
      \/ reorgs > 0
      \/ \E d \in Commands \ {c} :
           result[d] \in {"rpc_error_submitting", "error", "subscription_dropped"}

\* A nonce missing below the command's, which no waiting transaction has: the
\* transaction has no era, so it may wait for ever, and the watch loop has no
\* timeout.
Gapped(c) ==
  c \in pool /\ \E n \in Best.nonce..(nonce[c] - 1) : \A d \in pool : nonce[d] # n

\* A command that was started comes to an end, whatever is lost on the way,
\* unless its transaction waits behind such a gap.
EveryCommandEnds ==
  \A c \in Commands : Running(c) ~> (pc[c] = "done" \/ Gapped(c))
=============================================================================
