----------------------------- MODULE Reentrancy -----------------------------
(***************************************************************************)
(* The #[non_reentrant] guard on chain: the code the dispatch generates    *)
(* around a guarded method (pvm-contract-macros/.../dispatch.rs), the lock *)
(* in transient storage (pvm-contract-types/src/reentrancy.rs) and the     *)
(* exit doors of the host (pvm-contract-types/src/host.rs), run by a       *)
(* transaction whose frames call, delegate to, and re-enter each other.    *)
(*                                                                         *)
(* Execution is sequential: only the innermost frame runs.  The hazard is  *)
(* the interleaving a contract does not control, the frames that a called  *)
(* contract opens on top of a section that is still in progress.           *)
(***************************************************************************)
EXTENDS Naturals, Sequences

CONSTANTS
  Contracts,     \* accounts: each is a storage context
  Values,        \* values of the storage word the guarded methods maintain
  InitValue,
  MaxDepth,      \* bound: open frames
  MaxFuel,       \* bound: calls and storage writes of one transaction (gas)
  Terminating    \* accounts under which method bodies may use HostApi::terminate

ASSUME ReentrancyAssumption ==
  /\ InitValue \in Values
  /\ MaxDepth \in Nat \ {0}
  /\ MaxFuel \in Nat
  /\ Terminating \subseteq Contracts

VARIABLES
  stack,   \* open frames of the running transaction, outermost first
  lock,    \* transient storage: REENTRANCY_KEY of the account reads non-zero
  data,    \* persistent storage: the word only guarded methods write
  fuel

vars == <<stack, lock, data, fuel>>

\* The method the dispatch selected: `#[non_reentrant]` on `&mut self`,
\* `#[non_reentrant]` on `&self`, or a method, fallback, receive or
\* constructor without the guard.
Entries == {"guarded", "view", "plain"}

Storage == [lock : [Contracts -> BOOLEAN], data : [Contracts -> Values]]

Frame == [ctx      : Contracts,  \* account whose storage the frame uses
          entry    : Entries,
          body     : BOOLEAN,    \* the guard was passed: the user body runs
          held     : BOOLEAN,    \* REENTRANCY_LOCK_HELD of this frame's memory
          seen     : Values,     \* the guarded word as the body last knew it
          readonly : BOOLEAN,    \* opened under CallFlags::READ_ONLY
          barred   : BOOLEAN,    \* its outgoing call lacks ALLOW_REENTRY
          saved    : Storage]    \* storage to restore if the frame reverts

Depth == Len(stack)
Running == Depth > 0
Top == stack[Depth]
Callers == SubSeq(stack, 1, Depth - 1)

AllFree == [c \in Contracts |-> FALSE]

-----------------------------------------------------------------------------
(* Frames                                                                  *)

\* PVM gives each call a fresh memory image, so `held` starts FALSE.
NewFrame(c, e, ro) ==
  [ctx |-> c, entry |-> e, body |-> FALSE, held |-> FALSE, seen |-> data[c],
   readonly |-> ro, barred |-> FALSE,
   saved |-> [lock |-> lock, data |-> data]]

\* The caller resumes: its call is over, so it is open to calls again.
Resumed(s) ==
  [i \in DOMAIN s |-> IF i = Len(s) THEN [s[i] EXCEPT !.barred = FALSE] ELSE s[i]]

\* The innermost frame exits successfully, leaving transient storage as `l`;
\* the end of the transaction drops transient storage.
PopKeeping(l) ==
  /\ stack' = Resumed(Callers)
  /\ lock' = IF Depth = 1 THEN AllFree ELSE l
  /\ UNCHANGED <<data, fuel>>

\* The innermost frame reverts: everything it and its callees wrote is undone.
PopReverting ==
  /\ stack' = Resumed(Callers)
  /\ lock' = Top.saved.lock
  /\ data' = Top.saved.data
  /\ UNCHANGED fuel

\* A top-level call or deployment opens a transaction.
StartTx(c, e) ==
  /\ ~Running
  /\ stack' = <<NewFrame(c, e, FALSE)>>
  /\ fuel' = MaxFuel
  /\ UNCHANGED <<lock, data>>

-----------------------------------------------------------------------------
(* The generated dispatch arm                                              *)

InDispatch == Running /\ ~Top.body
InBody == Running /\ Top.body

\* Mutant: the check reads an account nobody locked.
IsLocked_Never(c) == FALSE

\* __reentrancy_is_locked
IsLocked(c) == lock[c]

\* Mutant: the flag is raised, the key is not written.
LockEffect_NoKey ==
  /\ stack' = [stack EXCEPT ![Depth].body = TRUE, ![Depth].held = TRUE,
                            ![Depth].seen = data[Top.ctx]]
  /\ UNCHANGED lock

\* __reentrancy_lock: raise the frame's flag and write the key.
LockEffect ==
  /\ stack' = [stack EXCEPT ![Depth].body = TRUE, ![Depth].held = TRUE,
                            ![Depth].seen = data[Top.ctx]]
  /\ lock' = [lock EXCEPT ![Top.ctx] = TRUE]

\* __reentrancy_unlock, the explicit release after the body; the frame that
\* ran it is about to exit, so its flag needs no update of its own.
Unlocked == [lock EXCEPT ![Top.ctx] = FALSE]

\* Mutants: the release does not look at the frame's flag, or is forgotten.
ClearedIfHeld_Always == Unlocked
ClearedIfHeld_Never == lock

\* __reentrancy_clear_if_held, the release inside `return_value`.
ClearedIfHeld == IF Top.held THEN Unlocked ELSE lock

\* `&mut self`: check, lock, start the body.  In a read-only frame the write
\* of the key traps, which is a RevertExit.
EnterGuarded ==
  /\ InDispatch
  /\ Top.entry = "guarded"
  /\ ~IsLocked(Top.ctx)
  /\ ~Top.readonly
  /\ LockEffect
  /\ UNCHANGED <<data, fuel>>

\* Mutant: a guarded view does not check.
EnterView_Unchecked ==
  /\ InDispatch
  /\ Top.entry = "view"
  /\ stack' = [stack EXCEPT ![Depth].body = TRUE, ![Depth].seen = data[Top.ctx]]
  /\ UNCHANGED <<lock, data, fuel>>

\* `&self`: check only.
EnterView ==
  /\ InDispatch
  /\ Top.entry = "view"
  /\ ~IsLocked(Top.ctx)
  /\ stack' = [stack EXCEPT ![Depth].body = TRUE, ![Depth].seen = data[Top.ctx]]
  /\ UNCHANGED <<lock, data, fuel>>

\* No guard.
EnterPlain ==
  /\ InDispatch
  /\ Top.entry = "plain"
  /\ stack' = [stack EXCEPT ![Depth].body = TRUE]
  /\ UNCHANGED <<lock, data, fuel>>

\* The lock is taken: revert with ReentrancyGuardReentrantCall.
RejectReentrant ==
  /\ InDispatch
  /\ Top.entry \in {"guarded", "view"}
  /\ IsLocked(Top.ctx)
  /\ PopReverting

-----------------------------------------------------------------------------
(* User bodies                                                             *)

\* A guarded body updates the word.
Write(v) ==
  /\ InBody
  /\ Top.entry = "guarded"
  /\ fuel > 0
  /\ fuel' = fuel - 1
  /\ data' = [data EXCEPT ![Top.ctx] = v]
  /\ stack' = [stack EXCEPT ![Depth].seen = v]
  /\ UNCHANGED lock

\* A cross-contract call.  `allow` is the builder's allow_reentry flag, `view`
\* the READ_ONLY flag of a view or pure callee.  Without ALLOW_REENTRY the
\* runtime refuses any call back into the caller while this one is open.
Call(c, e, allow, view) ==
  LET callers == [stack EXCEPT ![Depth].barred = ~allow] IN
  /\ InBody
  /\ Depth < MaxDepth
  /\ fuel > 0
  /\ \A i \in DOMAIN stack : callers[i].ctx = c => ~callers[i].barred
  /\ stack' = Append(callers, NewFrame(c, e, Top.readonly \/ view))
  /\ fuel' = fuel - 1
  /\ UNCHANGED <<lock, data>>

\* A delegate call runs other code on the caller's own storage.
DelegateCall(e) ==
  /\ InBody
  /\ Depth < MaxDepth
  /\ fuel > 0
  /\ stack' = Append(stack, NewFrame(Top.ctx, e, Top.readonly))
  /\ fuel' = fuel - 1
  /\ UNCHANGED <<lock, data>>

\* The body returns: the arm unlocks (guarded only), encodes the result and
\* leaves through finalize_outcome and return_value.
ReturnOk ==
  /\ InBody
  /\ PopKeeping(IF Top.entry = "guarded" THEN Unlocked ELSE lock)

\* The body calls `return_value` itself and diverges past the arm's unlock.
RawReturn ==
  /\ InBody
  /\ PopKeeping(ClearedIfHeld)

\* Every failing exit: an Err result (after the arm's unlock), a raw revert,
\* a rejected payable guard, size check or decode before the guard, a storage
\* panic, a trap, a write in a read-only frame, or running out of gas.
RevertExit ==
  /\ Running
  /\ PopReverting

\* `terminate` diverges without passing through `return_value`.
Terminate ==
  /\ InBody
  /\ Top.ctx \in Terminating
  /\ ~Top.readonly
  /\ PopKeeping(lock)

-----------------------------------------------------------------------------
Init ==
  /\ stack = << >>
  /\ lock = AllFree
  /\ data = [c \in Contracts |-> InitValue]
  /\ fuel = 0

Next ==
  \/ \E c \in Contracts, e \in Entries : StartTx(c, e)
  \/ EnterGuarded
  \/ EnterView
  \/ EnterPlain
  \/ RejectReentrant
  \/ \E v \in Values : Write(v)
  \/ \E c \in Contracts, e \in Entries, allow, view \in BOOLEAN : Call(c, e, allow, view)
  \/ \E e \in Entries : DelegateCall(e)
  \/ ReturnOk
  \/ RawReturn
  \/ RevertExit
  \/ Terminate

Spec == Init /\ [][Next]_vars

-----------------------------------------------------------------------------
(* Properties                                                              *)

TypeOK ==
  /\ stack \in Seq(Frame)
  /\ lock \in [Contracts -> BOOLEAN]
  /\ data \in [Contracts -> Values]
  /\ fuel \in 0..MaxFuel

Holds(i, c) == stack[i].held /\ stack[i].ctx = c

\* Two frames never run guarded sections of one account at the same time,
\* whatever sequence of calls, delegate calls, reverts and raw exits led here.
MutualExclusion ==
  \A i, j \in DOMAIN stack : \A c \in Contracts : Holds(i, c) /\ Holds(j, c) => i = j

\* What a guarded body knows about the guarded word is never stale: no frame
\* above it changed the word, and no revert above it moved it back.
SectionIsolated ==
  \A i \in DOMAIN stack : stack[i].held => data[stack[i].ctx] = stack[i].seen

\* A guarded view body never runs inside a section that is still in progress
\* (read-only reentrancy): no frame below it holds its account's lock.
ViewSeesNoOpenSection ==
  \A j \in DOMAIN stack : stack[j].entry = "view" /\ stack[j].body =>
    \A i \in 1..(j - 1) : ~Holds(i, stack[j].ctx)

\* The accounts whose frames only leave by a return or a revert.
Lasting == Contracts \ Terminating

\* The lock is released when the guarded call exits: the key of an account
\* that does not terminate reads locked exactly while an open frame owns it
\* (reentrancy.rs:14).
LockOwned ==
  \A c \in Lasting : lock[c] <=> \E i \in DOMAIN stack : Holds(i, c)

\* The lock of such an account is only ever released by the exit of the frame that took it: never
\* by a rejected re-entrant call, by a frame of another account, or by rolling
\* back a frame that ran on top of the section.
OnlyOwnerUnlocks ==
  [][\A c \in Lasting : lock[c] /\ ~lock'[c] =>
        Holds(Depth, c) /\ stack' = Resumed(Callers)]_vars

-----------------------------------------------------------------------------
(* The inductive invariant of the proofs: what the frames below an open    *)
(* section recorded, and what storage holds for them.                      *)

\* The guard flag is up exactly while a guarded body runs.
FlagTracksBody ==
  \A i \in DOMAIN stack : stack[i].held <=> stack[i].entry = "guarded" /\ stack[i].body

\* An open section's key is set, in storage and in everything a frame above it
\* may roll storage back to.
OpenSectionLocked ==
  \A i \in DOMAIN stack : stack[i].held =>
    /\ lock[stack[i].ctx]
    /\ \A j \in DOMAIN stack : i < j => stack[j].saved.lock[stack[i].ctx]

\* So is its word what the section last saw.
RollbackKeepsSection ==
  \A i, j \in DOMAIN stack : stack[i].held /\ i < j =>
    stack[j].saved.data[stack[i].ctx] = stack[i].seen

\* Short of terminate, a set key always has an owner below.
RollbackLocksOwned ==
  \A j \in DOMAIN stack : \A c \in Lasting :
    stack[j].saved.lock[c] => \E i \in 1..(j - 1) : Holds(i, c)

SafeInv ==
  /\ TypeOK
  /\ FlagTracksBody
  /\ OpenSectionLocked
  /\ RollbackKeepsSection
  /\ MutualExclusion
  /\ SectionIsolated
  /\ ViewSeesNoOpenSection

OwnedInv == SafeInv /\ LockOwned /\ RollbackLocksOwned
=============================================================================
