---------------------------- MODULE RuntimeProofs ---------------------------
(* Proofs about what one contract execution runs on: the call stack and its *)
(* reentrancy guard (Reentrancy), for every set of accounts and values,     *)
(* every call depth and every amount of gas; the global allocator           *)
(* (BumpAllocator), for every heap size, heap address, width of usize and   *)
(* set of layouts a contract asks for; and the fields of its storage        *)
(* (Fields), for any slot width, field types and number of fields.  The     *)
(* three share no state.                                                    *)
EXTENDS Reentrancy, BumpAllocator, Fields, SequenceTheorems, TLAPS

\* Two records of one frame at different times, up to the call it has open.
SameFrame(f, g) ==
  /\ f.ctx = g.ctx /\ f.entry = g.entry /\ f.body = g.body
  /\ f.held = g.held /\ f.seen = g.seen /\ f.saved = g.saved

-----------------------------------------------------------------------------
(* What the operations on the stack do, whatever the frames are.           *)

\* A resumed caller is the frame it was, no longer barred.
LEMMA ResumedFrame ==
  ASSUME NEW f \in Frame
  PROVE  [f EXCEPT !.barred = FALSE] \in Frame /\ SameFrame([f EXCEPT !.barred = FALSE], f)
BY DEF Frame, SameFrame

\* Popping keeps every frame below the innermost one.
LEMMA PopShape ==
  ASSUME TypeOK, Running
  PROVE  /\ Resumed(Callers) \in Seq(Frame)
         /\ Len(Resumed(Callers)) = Depth - 1
         /\ \A i \in 1..(Depth - 1) : SameFrame(Resumed(Callers)[i], stack[i])
<1> DEFINE s == Callers
           n == Depth - 1
<1>1. Depth \in Nat /\ n \in Nat /\ \A i \in 1..Depth : stack[i] \in Frame
  BY LenProperties, ElementOfSeq DEF TypeOK, Running, Depth
<1>2. /\ s \in Seq(Frame) /\ Len(s) = n
      /\ \A i \in 1..n : s[i] = stack[i]
  BY <1>1, SubSeqProperties, SMT DEF Callers
<1>3. DOMAIN s = 1..n
  BY <1>2, LenProperties
<1>4. \A i \in 1..n : /\ Resumed(s)[i] \in Frame
                      /\ SameFrame(Resumed(s)[i], stack[i])
  <2> SUFFICES ASSUME NEW i \in 1..n
               PROVE  Resumed(s)[i] \in Frame /\ SameFrame(Resumed(s)[i], stack[i])
    OBVIOUS
  <2>1. s[i] \in Frame /\ s[i] = stack[i]
    BY <1>1, <1>2
  <2>2. Resumed(s)[i] = IF i = n THEN [s[i] EXCEPT !.barred = FALSE] ELSE s[i]
    BY <1>2, <1>3 DEF Resumed
  <2> QED
    BY <2>1, <2>2, ResumedFrame DEF SameFrame
<1>5. Resumed(s) \in [1..n -> Frame]
  BY <1>2, <1>3, <1>4 DEF Resumed
<1>6. Resumed(s) \in Seq(Frame) /\ Len(Resumed(s)) = n
  BY <1>1, <1>5, SeqDef, LenProperties, SMT
<1> QED
  BY <1>4, <1>6

\* A new frame remembers the storage it may have to restore.
LEMMA NewFrameType ==
  ASSUME TypeOK, NEW c \in Contracts, NEW e \in Entries, NEW ro \in BOOLEAN
  PROVE  NewFrame(c, e, ro) \in Frame
BY DEF TypeOK, NewFrame, Frame, Storage

\* Opening a frame on top of `below`, a stack of the same frames.
LEMMA PushShape ==
  ASSUME NEW s \in Seq(Frame), NEW f \in Frame
  PROVE  /\ Append(s, f) \in Seq(Frame)
         /\ Len(Append(s, f)) = Len(s) + 1
         /\ \A i \in 1..Len(s) : Append(s, f)[i] = s[i]
         /\ Append(s, f)[Len(s) + 1] = f
BY AppendProperties

\* A new stack of the same depth: its frames are those of the old one but for
\* the innermost, where `f` replaces it.
Edited(f) ==
  /\ stack' \in Seq(Frame)
  /\ Len(stack') = Depth
  /\ \A i \in 1..(Depth - 1) : SameFrame(stack'[i], stack[i])
  /\ SameFrame(stack'[Depth], f)

Popped ==
  /\ stack' \in Seq(Frame)
  /\ Len(stack') = Depth - 1
  /\ \A i \in 1..(Depth - 1) : SameFrame(stack'[i], stack[i])

Pushed(f) ==
  /\ stack' \in Seq(Frame)
  /\ Len(stack') = Depth + 1
  /\ \A i \in 1..Depth : SameFrame(stack'[i], stack[i])
  /\ stack'[Depth + 1] = f

\* The facts every proof below reads off the type of the stack.
LEMMA StackFacts ==
  ASSUME TypeOK
  PROVE  /\ Depth \in Nat
         /\ DOMAIN stack = 1..Depth
         /\ stack \in [1..Depth -> Frame]
         /\ \A i \in 1..Depth : stack[i] \in Frame
         /\ Running => Depth \in 1..Depth /\ Top \in Frame
BY LenProperties, ElementOfSeq DEF TypeOK, Depth, Running, Top

\* Replacing the innermost frame.
LEMMA EditShape ==
  ASSUME TypeOK, Running, NEW f \in Frame, stack' = [stack EXCEPT ![Depth] = f]
  PROVE  Edited(f)
<1>1. Depth \in 1..Len(stack) /\ stack \in Seq(Frame)
  BY StackFacts DEF TypeOK, Depth
<1>2. /\ stack' \in Seq(Frame)
      /\ Len(stack') = Depth
      /\ \A j \in 1..Depth : stack'[j] = IF j = Depth THEN f ELSE stack[j]
  BY <1>1, ExceptSeq DEF Depth
<1>3. \A i \in 1..(Depth - 1) : i \in 1..Depth /\ i # Depth
  BY StackFacts
<1> QED
  BY <1>1, <1>2, <1>3 DEF Edited, SameFrame, Depth

-----------------------------------------------------------------------------
(* Every step opens a frame, edits the innermost one, or closes it.        *)

\* The frame of a body that has just started.
Started(h, v) == [Top EXCEPT !.body = TRUE, !.held = h, !.seen = v]

\* Entering a guarded body edits the innermost frame only.
LEMMA EnterGuardedShape ==
  ASSUME TypeOK, EnterGuarded
  PROVE  Edited(Started(TRUE, data[Top.ctx]))
<1>1. Running /\ Top \in Frame /\ data[Top.ctx] \in Values
  BY StackFacts DEF EnterGuarded, InDispatch, TypeOK, Frame
<1>2. Started(TRUE, data[Top.ctx]) \in Frame
  BY <1>1 DEF Started, Frame
<1>3. stack' = [stack EXCEPT ![Depth] = Started(TRUE, data[Top.ctx])]
  BY <1>1, StackFacts DEF EnterGuarded, LockEffect, Started, Top, Frame
<1> QED
  BY <1>1, <1>2, <1>3, EditShape

\* So does entering a guarded view body,
LEMMA EnterViewShape ==
  ASSUME TypeOK, EnterView
  PROVE  Edited(Started(Top.held, data[Top.ctx]))
<1>1. Running /\ Top \in Frame /\ data[Top.ctx] \in Values
  BY StackFacts DEF EnterView, InDispatch, TypeOK, Frame
<1>2. Started(Top.held, data[Top.ctx]) \in Frame
  BY <1>1 DEF Started, Frame
<1>3. stack' = [stack EXCEPT ![Depth] = Started(Top.held, data[Top.ctx])]
  BY <1>1, StackFacts DEF EnterView, Started, Top, Frame
<1> QED
  BY <1>1, <1>2, <1>3, EditShape

\* an unguarded one,
LEMMA EnterPlainShape ==
  ASSUME TypeOK, EnterPlain
  PROVE  Edited(Started(Top.held, Top.seen))
<1>1. Running /\ Top \in Frame
  BY StackFacts DEF EnterPlain, InDispatch
<1>2. Started(Top.held, Top.seen) \in Frame
  BY <1>1 DEF Started, Frame
<1>3. stack' = [stack EXCEPT ![Depth] = Started(Top.held, Top.seen)]
  BY <1>1, StackFacts DEF EnterPlain, Started, Top, Frame
<1> QED
  BY <1>1, <1>2, <1>3, EditShape

\* and a write of the guarded word.
LEMMA WriteShape ==
  ASSUME TypeOK, NEW v \in Values, Write(v)
  PROVE  Edited([Top EXCEPT !.seen = v])
<1>1. Running /\ Top \in Frame
  BY StackFacts DEF Write, InBody
<1>2. [Top EXCEPT !.seen = v] \in Frame
  BY <1>1 DEF Frame
<1>3. stack' = [stack EXCEPT ![Depth] = [Top EXCEPT !.seen = v]]
  BY <1>1, StackFacts DEF Write, Top, Frame
<1> QED
  BY <1>1, <1>2, <1>3, EditShape

\* A call pushes a new frame; below it only `barred` changed.
LEMMA CallShape ==
  ASSUME TypeOK, NEW c \in Contracts, NEW e \in Entries,
         NEW allow \in BOOLEAN, NEW view \in BOOLEAN, Call(c, e, allow, view)
  PROVE  Pushed(NewFrame(c, e, Top.readonly \/ view))
<1> DEFINE f == [Top EXCEPT !.barred = ~allow]
           s == [stack EXCEPT ![Depth] = f]
           g == NewFrame(c, e, Top.readonly \/ view)
<1>1. Running /\ Top \in Frame /\ Depth \in 1..Len(stack) /\ stack \in Seq(Frame)
  BY StackFacts DEF Call, InBody, TypeOK, Depth
<1>2. f \in Frame /\ SameFrame(f, Top)
  BY <1>1 DEF Frame, SameFrame
<1>3. Top.readonly \/ view \in BOOLEAN
  BY <1>1 DEF Frame
<1>4. g \in Frame
  BY <1>3, NewFrameType
<1>5. stack' = Append(s, g)
  BY <1>1, StackFacts DEF Call, Top, Frame
<1>6. /\ s \in Seq(Frame) /\ Len(s) = Depth
      /\ \A i \in 1..Depth : s[i] = IF i = Depth THEN f ELSE stack[i]
  BY <1>1, <1>2, ExceptSeq DEF Depth
<1>7. \A i \in 1..Depth : SameFrame(s[i], stack[i])
  BY <1>2, <1>6 DEF SameFrame, Top
<1> HIDE DEF f, s, g
<1>8. /\ Append(s, g) \in Seq(Frame)
      /\ Len(Append(s, g)) = Depth + 1
      /\ \A i \in 1..Depth : Append(s, g)[i] = s[i]
      /\ Append(s, g)[Depth + 1] = g
  BY <1>4, <1>6, PushShape
<1>9. Pushed(g)
  BY <1>5, <1>7, <1>8 DEF Pushed
<1> QED
  BY <1>9 DEF g

\* A delegate call pushes a frame on the same account.
LEMMA DelegateCallShape ==
  ASSUME TypeOK, NEW e \in Entries, DelegateCall(e)
  PROVE  Pushed(NewFrame(Top.ctx, e, Top.readonly))
<1> DEFINE g == NewFrame(Top.ctx, e, Top.readonly)
<1>1. Running /\ Top \in Frame /\ stack \in Seq(Frame)
  BY StackFacts DEF DelegateCall, InBody, TypeOK
<1>2. Top.ctx \in Contracts /\ Top.readonly \in BOOLEAN
  BY <1>1 DEF Frame
<1>3. g \in Frame
  BY <1>2, NewFrameType
<1>4. stack' = Append(stack, g)
  BY DEF DelegateCall
<1> HIDE DEF g
<1>5. Pushed(g)
  BY <1>1, <1>3, <1>4, PushShape DEF Pushed, SameFrame, Depth
<1> QED
  BY <1>5 DEF g

\* A transaction pushes the first frame.
LEMMA StartShape ==
  ASSUME TypeOK, NEW c \in Contracts, NEW e \in Entries, StartTx(c, e)
  PROVE  Pushed(NewFrame(c, e, FALSE))
<1> DEFINE g == NewFrame(c, e, FALSE)
<1>1. g \in Frame
  BY NewFrameType
<1>2. Depth = 0
  BY StackFacts DEF StartTx, Running
<1>3. stack' = <<g>>
  BY DEF StartTx
<1> HIDE DEF g
<1>4. <<g>> \in Seq(Frame) /\ Len(<<g>>) = 1 /\ <<g>>[1] = g
  BY <1>1
<1>5. Pushed(g)
  BY <1>2, <1>3, <1>4 DEF Pushed
<1> QED
  BY <1>5 DEF g

\* An exit, by whatever door, pops the innermost frame.
LEMMA PoppedShape ==
  ASSUME TypeOK, Running, stack' = Resumed(Callers)
  PROVE  Popped
BY PopShape DEF Popped

-----------------------------------------------------------------------------
(* Type correctness                                                        *)

\* What a revert restores is storage.
LEMMA RestoredType ==
  ASSUME TypeOK, Running
  PROVE  Top.saved.lock \in [Contracts -> BOOLEAN] /\ Top.saved.data \in [Contracts -> Values]
BY StackFacts DEF Frame, Storage

\* Every step keeps the types.
LEMMA TypeStep ==
  ASSUME TypeOK, [Next]_vars
  PROVE  TypeOK'
<1> USE ReentrancyAssumption
<1>1. CASE UNCHANGED vars
  BY <1>1 DEF TypeOK, vars
<1>2. ASSUME NEW c \in Contracts, NEW e \in Entries, StartTx(c, e)
      PROVE  TypeOK'
  <2>1. stack' \in Seq(Frame)
    BY <1>2, StartShape DEF Pushed
  <2>2. fuel' = MaxFuel /\ lock' = lock /\ data' = data
    BY <1>2 DEF StartTx
  <2> QED
    BY <2>1, <2>2 DEF TypeOK
<1>3. CASE EnterGuarded
  <2>1. lock' \in [Contracts -> BOOLEAN]
    BY <1>3 DEF EnterGuarded, LockEffect, TypeOK
  <2> QED
    BY <1>3, <2>1, EnterGuardedShape DEF Edited, EnterGuarded, TypeOK
<1>4. CASE EnterView
  BY <1>4, EnterViewShape DEF Edited, EnterView, TypeOK
<1>5. CASE EnterPlain
  BY <1>5, EnterPlainShape DEF Edited, EnterPlain, TypeOK
<1>6. ASSUME Running, PopReverting
      PROVE  TypeOK'
  BY <1>6, PoppedShape, RestoredType DEF PopReverting, Popped, TypeOK
<1>7. ASSUME NEW v \in Values, Write(v)
      PROVE  TypeOK'
  <2>1. stack' \in Seq(Frame)
    BY <1>7, WriteShape DEF Edited
  <2>2. /\ fuel > 0 /\ fuel' = fuel - 1 /\ lock' = lock
        /\ data' = [data EXCEPT ![Top.ctx] = v]
    BY <1>7 DEF Write
  <2>3. fuel' \in 0..MaxFuel
    BY <2>2 DEF TypeOK
  <2> QED
    BY <2>1, <2>2, <2>3 DEF TypeOK
<1>8. ASSUME NEW c \in Contracts, NEW e \in Entries,
             NEW allow \in BOOLEAN, NEW view \in BOOLEAN, Call(c, e, allow, view)
      PROVE  TypeOK'
  <2>1. stack' \in Seq(Frame)
    BY <1>8, CallShape DEF Pushed
  <2>2. fuel > 0 /\ fuel' = fuel - 1 /\ lock' = lock /\ data' = data
    BY <1>8 DEF Call
  <2>3. fuel' \in 0..MaxFuel
    BY <2>2 DEF TypeOK
  <2> QED
    BY <2>1, <2>2, <2>3 DEF TypeOK
<1>9. ASSUME NEW e \in Entries, DelegateCall(e)
      PROVE  TypeOK'
  <2>1. stack' \in Seq(Frame)
    BY <1>9, DelegateCallShape DEF Pushed
  <2>2. fuel > 0 /\ fuel' = fuel - 1 /\ lock' = lock /\ data' = data
    BY <1>9 DEF DelegateCall
  <2>3. fuel' \in 0..MaxFuel
    BY <2>2 DEF TypeOK
  <2> QED
    BY <2>1, <2>2, <2>3 DEF TypeOK
<1>10. ASSUME Running, NEW l \in [Contracts -> BOOLEAN], PopKeeping(l)
       PROVE  TypeOK'
  <2>1. lock' \in [Contracts -> BOOLEAN]
    BY <1>10 DEF PopKeeping, AllFree
  <2> QED
    BY <1>10, <2>1, PoppedShape DEF PopKeeping, Popped, TypeOK
<1>11. Unlocked \in [Contracts -> BOOLEAN] /\ lock \in [Contracts -> BOOLEAN]
  BY DEF TypeOK, Unlocked
<1>12. CASE ReturnOk
  BY <1>10, <1>11, <1>12 DEF ReturnOk, InBody
<1>13. CASE RawReturn
  BY <1>10, <1>11, <1>13 DEF RawReturn, InBody, ClearedIfHeld
<1>14. CASE Terminate
  BY <1>10, <1>11, <1>14 DEF Terminate, InBody
<1>15. CASE RejectReentrant
  BY <1>6, <1>15 DEF RejectReentrant, InDispatch
<1>16. CASE RevertExit
  BY <1>6, <1>16 DEF RevertExit
<1> QED
  BY <1>1, <1>2, <1>3, <1>4, <1>5, <1>7, <1>8, <1>9, <1>12, <1>13, <1>14, <1>15, <1>16
  DEF Next

\* The initial state is well typed.
LEMMA TypeInit == Init => TypeOK
BY ReentrancyAssumption, EmptySeq DEF Init, TypeOK, AllFree

\* Frames are records of the dispatch and storage maps accounts to words, in
\* every state of every behaviour.
THEOREM TypeCorrect == Spec => []TypeOK
BY TypeInit, TypeStep, PTL DEF Spec

-----------------------------------------------------------------------------
(* The section invariant                                                   *)

\* What a step must leave behind for the open sections of the frames below the
\* innermost one: their key still set, their word as they last saw it.
KeepsSections ==
  \A i \in 1..(Depth - 1) : stack[i].held =>
    lock'[stack[i].ctx] /\ data'[stack[i].ctx] = stack[i].seen

\* No frame below the innermost one holds its account's lock.
TopIsAlone == \A i \in 1..(Depth - 1) : ~Holds(i, Top.ctx)

\* SafeInv over indices, the form the step proofs use.
FrameInv(n, s, l, d) ==
  /\ \A i \in 1..n : s[i].held <=> s[i].entry = "guarded" /\ s[i].body
  /\ \A i \in 1..n : s[i].held => l[s[i].ctx] /\ d[s[i].ctx] = s[i].seen
  /\ \A i, j \in 1..n : s[i].held /\ i < j =>
       s[j].saved.lock[s[i].ctx] /\ s[j].saved.data[s[i].ctx] = s[i].seen
  /\ \A i, j \in 1..n : s[i].held /\ s[j].held /\ s[i].ctx = s[j].ctx => i = j
  /\ \A j \in 1..n : s[j].entry = "view" /\ s[j].body =>
       \A i \in 1..(j - 1) : ~(s[i].held /\ s[i].ctx = s[j].ctx)

\* The section invariant, over frames by number.
LEMMA SafeInvForm ==
  ASSUME TypeOK
  PROVE  SafeInv => FrameInv(Depth, stack, lock, data)
<1>1. DOMAIN stack = 1..Depth /\ \A i \in 1..Depth : stack[i].ctx \in Contracts
  BY StackFacts DEF Frame
<1>2. MutualExclusion <=> \A i, j \in 1..Depth :
        stack[i].held /\ stack[j].held /\ stack[i].ctx = stack[j].ctx => i = j
  BY <1>1 DEF MutualExclusion, Holds
<1>3. ASSUME SafeInv PROVE FrameInv(Depth, stack, lock, data)
  BY <1>1, <1>2, <1>3 DEF SafeInv, FrameInv, FlagTracksBody, OpenSectionLocked,
     RollbackKeepsSection, SectionIsolated, ViewSeesNoOpenSection, Holds
<1> QED
  BY <1>3

\* And back, in the next state.
LEMMA SafeInvFormNext ==
  ASSUME TypeOK', FrameInv(Len(stack'), stack', lock', data')
  PROVE  SafeInv'
<1>0. stack' \in Seq(Frame)
  BY DEF TypeOK
<1>1. /\ DOMAIN stack' = 1..Len(stack')
      /\ \A i \in 1..Len(stack') : stack'[i].ctx \in Contracts
  <2>1. DOMAIN stack' = 1..Len(stack') /\ \A i \in 1..Len(stack') : stack'[i] \in Frame
    BY <1>0, LenProperties, ElementOfSeq
  <2> QED
    BY <2>1 DEF Frame
<1>2. MutualExclusion'
  BY <1>1 DEF MutualExclusion, Holds, FrameInv
<1> QED
  BY <1>1, <1>2 DEF SafeInv, FrameInv, FlagTracksBody, OpenSectionLocked,
     RollbackKeepsSection, SectionIsolated, ViewSeesNoOpenSection, Holds

\* Closing the innermost frame keeps the invariant when the sections below
\* keep their key and their word.
LEMMA PopSafe ==
  ASSUME SafeInv, TypeOK', Running, Popped, KeepsSections
  PROVE  SafeInv'
<1>1. FrameInv(Depth, stack, lock, data)
  BY SafeInvForm DEF SafeInv
<1>2. Depth \in Nat /\ Len(stack') = Depth - 1
  BY StackFacts DEF SafeInv, Popped
<1>3. \A i \in 1..(Depth - 1) : SameFrame(stack'[i], stack[i])
  BY DEF Popped
<1>4. FrameInv(Depth - 1, stack', lock', data')
  BY <1>1, <1>2, <1>3 DEF FrameInv, SameFrame, KeepsSections
<1> QED
  BY <1>2, <1>4, SafeInvFormNext

\* Opening a frame keeps it: the frame records storage as it is.
LEMMA PushSafe ==
  ASSUME SafeInv, TypeOK', NEW f, Pushed(f), ~f.body, f.held = FALSE,
         f.saved.lock = lock, f.saved.data = data, lock' = lock, data' = data
  PROVE  SafeInv'
<1>1. FrameInv(Depth, stack, lock, data)
  BY SafeInvForm DEF SafeInv
<1>2. Depth \in Nat /\ Len(stack') = Depth + 1
  BY StackFacts DEF SafeInv, Pushed
<1>3. /\ \A i \in 1..Depth : SameFrame(stack'[i], stack[i])
      /\ stack'[Depth + 1] = f
  BY DEF Pushed
<1>4. FrameInv(Depth + 1, stack', lock', data')
  BY <1>1, <1>2, <1>3 DEF FrameInv, SameFrame
<1> QED
  BY <1>2, <1>4, SafeInvFormNext

\* Changing the innermost frame keeps it when a section that opens there, and
\* a guarded view that starts there, is alone on its account.
LEMMA EditSafe ==
  ASSUME SafeInv, TypeOK', Running, NEW f, Edited(f), KeepsSections,
         f.ctx = Top.ctx, f.entry = Top.entry, f.saved = Top.saved,
         f.held <=> f.entry = "guarded" /\ f.body,
         f.held => lock'[f.ctx] /\ data'[f.ctx] = f.seen,
         f.held \/ (f.entry = "view" /\ f.body) => TopIsAlone
  PROVE  SafeInv'
<1>1. FrameInv(Depth, stack, lock, data)
  BY SafeInvForm DEF SafeInv
<1>2. Depth \in Nat /\ Depth > 0 /\ Len(stack') = Depth
  BY StackFacts DEF SafeInv, Edited, Running
<1>3. /\ \A i \in 1..(Depth - 1) : SameFrame(stack'[i], stack[i])
      /\ SameFrame(stack'[Depth], f)
  BY DEF Edited
<1>4. FrameInv(Depth, stack', lock', data')
  BY <1>1, <1>2, <1>3 DEF FrameInv, SameFrame, KeepsSections, TopIsAlone, Holds, Top
<1> QED
  BY <1>2, <1>4, SafeInvFormNext

\* The free lock is what makes a section open alone.
LEMMA FreeLockAlone ==
  ASSUME SafeInv, Running, ~lock[Top.ctx]
  PROVE  TopIsAlone
<1>1. FrameInv(Depth, stack, lock, data) /\ Depth \in Nat
  BY SafeInvForm, StackFacts DEF SafeInv
<1> QED
  BY <1>1 DEF FrameInv, TopIsAlone, Holds

\* While the innermost frame only touches the storage of its own account and
\* holds that account's section, the sections below are untouched.
LEMMA OwnerAlone ==
  ASSUME SafeInv, Running, Top.held
  PROVE  TopIsAlone
<1>1. FrameInv(Depth, stack, lock, data) /\ Depth \in Nat /\ Depth > 0
  BY SafeInvForm, StackFacts DEF SafeInv, Running
<1> QED
  BY <1>1 DEF FrameInv, TopIsAlone, Holds, Top

\* What the section invariant says of a section below the innermost frame.
LEMMA SectionsStand ==
  ASSUME SafeInv, Running
  PROVE  \A i \in 1..(Depth - 1) : stack[i].held =>
           /\ lock[stack[i].ctx] /\ data[stack[i].ctx] = stack[i].seen
           /\ Top.saved.lock[stack[i].ctx] /\ Top.saved.data[stack[i].ctx] = stack[i].seen
           /\ stack[i].ctx \in Contracts
<1>1. FrameInv(Depth, stack, lock, data) /\ Depth \in Nat /\ Depth > 0
  BY SafeInvForm, StackFacts DEF SafeInv, Running
<1>2. \A i \in 1..Depth : stack[i].ctx \in Contracts
  BY StackFacts DEF SafeInv, Frame
<1> QED
  BY <1>1, <1>2 DEF FrameInv, Top

\* The flag of the innermost frame tells whether it runs a guarded body.
LEMMA FlagIsBody ==
  ASSUME SafeInv, Running
  PROVE  Top.held <=> Top.entry = "guarded" /\ Top.body
BY StackFacts DEF SafeInv, FlagTracksBody, Top

\* A successful exit: the transient storage it leaves behind still locks every
\* section below.
LEMMA PopKeepingSafe ==
  ASSUME SafeInv, TypeOK', Running, NEW l, PopKeeping(l),
         \A i \in 1..(Depth - 1) : stack[i].held => l[stack[i].ctx]
  PROVE  SafeInv'
<1>1. Popped
  BY PoppedShape DEF SafeInv, PopKeeping
<1>2. KeepsSections
  <2>1. Depth \in Nat /\ data' = data /\ lock' = IF Depth = 1 THEN AllFree ELSE l
    BY StackFacts DEF SafeInv, PopKeeping
  <2>2. CASE Depth = 1
    BY <2>2 DEF KeepsSections
  <2>3. CASE Depth # 1
    BY <2>1, <2>3, SectionsStand DEF KeepsSections
  <2> QED
    BY <2>2, <2>3
<1> QED
  BY <1>1, <1>2, PopSafe

\* A failing exit: the storage it restores is the one the sections below left.
LEMMA PopRevertingSafe ==
  ASSUME SafeInv, TypeOK', Running, PopReverting
  PROVE  SafeInv'
<1>1. Popped
  BY PoppedShape DEF SafeInv, PopReverting
<1>2. lock' = Top.saved.lock /\ data' = Top.saved.data
  BY DEF PopReverting
<1>3. KeepsSections
  BY <1>2, SectionsStand DEF KeepsSections
<1> QED
  BY <1>1, <1>3, PopSafe

\* Releasing the innermost frame's own lock leaves the sections below locked.
LEMMA UnlockedKeeps ==
  ASSUME SafeInv, Running, Top.held
  PROVE  \A i \in 1..(Depth - 1) : stack[i].held => Unlocked[stack[i].ctx]
<1>1. \A i \in 1..(Depth - 1) : stack[i].held =>
        lock[stack[i].ctx] /\ stack[i].ctx \in Contracts /\ stack[i].ctx # Top.ctx
  BY SectionsStand, OwnerAlone DEF TopIsAlone, Holds
<1>2. lock \in [Contracts -> BOOLEAN]
  BY DEF SafeInv, TypeOK
<1> QED
  BY <1>1, <1>2 DEF Unlocked

\* A new frame opens no section and saves the storage it found.
LEMMA PushNew ==
  ASSUME SafeInv, TypeOK', NEW c, NEW e, NEW ro, Pushed(NewFrame(c, e, ro)),
         lock' = lock, data' = data
  PROVE  SafeInv'
<1> DEFINE f == NewFrame(c, e, ro)
<1>1. ~f.body /\ f.held = FALSE /\ f.saved.lock = lock /\ f.saved.data = data
  BY DEF NewFrame
<1>2. Pushed(f)
  OBVIOUS
<1> HIDE DEF f
<1> QED
  BY <1>1, <1>2, PushSafe

\* Entering a guarded body keeps the invariant: the key was free, so no frame
\* below holds it.
LEMMA EnterGuardedSafe ==
  ASSUME SafeInv, TypeOK', EnterGuarded
  PROVE  SafeInv'
<1> DEFINE f == Started(TRUE, data[Top.ctx])
<1>1. /\ Running /\ Top.entry = "guarded" /\ ~lock[Top.ctx] /\ data' = data
      /\ lock' = [lock EXCEPT ![Top.ctx] = TRUE]
  BY DEF EnterGuarded, InDispatch, IsLocked, LockEffect
<1>2. Top \in Frame /\ Top.ctx \in Contracts /\ lock \in [Contracts -> BOOLEAN]
  BY <1>1, StackFacts DEF SafeInv, TypeOK, Frame
<1>3. /\ f.ctx = Top.ctx /\ f.entry = Top.entry /\ f.saved = Top.saved
      /\ f.held /\ f.body /\ f.seen = data[Top.ctx]
  BY <1>2 DEF Started, Frame
<1>4. Edited(f)
  BY EnterGuardedShape DEF SafeInv
<1>5. KeepsSections
  BY <1>1, <1>2, SectionsStand DEF KeepsSections
<1>6. TopIsAlone
  BY <1>1, FreeLockAlone
<1>7. lock'[f.ctx] /\ data'[f.ctx] = f.seen
  BY <1>1, <1>2, <1>3
<1> HIDE DEF f
<1> QED
  BY <1>1, <1>3, <1>4, <1>5, <1>6, <1>7, EditSafe

\* So does entering a guarded view body,
LEMMA EnterViewSafe ==
  ASSUME SafeInv, TypeOK', EnterView
  PROVE  SafeInv'
<1> DEFINE f == Started(Top.held, data[Top.ctx])
<1>1. /\ Running /\ Top.entry = "view" /\ ~Top.body /\ ~lock[Top.ctx]
      /\ data' = data /\ lock' = lock
  BY DEF EnterView, InDispatch, IsLocked
<1>2. Top \in Frame
  BY <1>1, StackFacts DEF SafeInv
<1>3. /\ f.ctx = Top.ctx /\ f.entry = Top.entry /\ f.saved = Top.saved
      /\ f.held = Top.held
  BY <1>2 DEF Started, Frame
<1>4. Edited(f)
  BY EnterViewShape DEF SafeInv
<1>5. KeepsSections
  BY <1>1, SectionsStand DEF KeepsSections
<1>6. TopIsAlone /\ ~Top.held
  BY <1>1, FreeLockAlone, FlagIsBody
<1> HIDE DEF f
<1> QED
  BY <1>1, <1>3, <1>4, <1>5, <1>6, EditSafe

\* an unguarded one,
LEMMA EnterPlainSafe ==
  ASSUME SafeInv, TypeOK', EnterPlain
  PROVE  SafeInv'
<1> DEFINE f == Started(Top.held, Top.seen)
<1>1. /\ Running /\ Top.entry = "plain" /\ ~Top.body
      /\ data' = data /\ lock' = lock
  BY DEF EnterPlain, InDispatch
<1>2. Top \in Frame
  BY <1>1, StackFacts DEF SafeInv
<1>3. /\ f.ctx = Top.ctx /\ f.entry = Top.entry /\ f.saved = Top.saved
      /\ f.held = Top.held
  BY <1>2 DEF Started, Frame
<1>4. Edited(f)
  BY EnterPlainShape DEF SafeInv
<1>5. KeepsSections
  BY <1>1, SectionsStand DEF KeepsSections
<1>6. ~Top.held
  BY <1>1, FlagIsBody
<1> HIDE DEF f
<1> QED
  BY <1>1, <1>3, <1>4, <1>5, <1>6, EditSafe

\* and a write, whose frame is the only section of its account.
LEMMA WriteSafe ==
  ASSUME SafeInv, TypeOK', NEW v \in Values, Write(v)
  PROVE  SafeInv'
<1> DEFINE f == [Top EXCEPT !.seen = v]
<1>1. /\ Running /\ Top.entry = "guarded" /\ Top.body
      /\ data' = [data EXCEPT ![Top.ctx] = v] /\ lock' = lock
  BY DEF Write, InBody
<1>2. /\ Top \in Frame /\ Top.ctx \in Contracts
      /\ lock \in [Contracts -> BOOLEAN] /\ data \in [Contracts -> Values]
  BY <1>1, StackFacts DEF SafeInv, TypeOK, Frame
<1>3. /\ f.ctx = Top.ctx /\ f.entry = Top.entry /\ f.saved = Top.saved
      /\ f.held = Top.held /\ f.body = Top.body /\ f.seen = v
  BY <1>2 DEF Frame
<1>4. Edited(f)
  BY WriteShape DEF SafeInv
<1>5. Top.held /\ TopIsAlone
  BY <1>1, FlagIsBody, OwnerAlone
<1>6. KeepsSections
  BY <1>1, <1>2, <1>5, SectionsStand DEF KeepsSections, TopIsAlone, Holds
<1>7. lock[Top.ctx]
  BY <1>1, <1>5, StackFacts DEF SafeInv, OpenSectionLocked, Top
<1>8. lock'[f.ctx] /\ data'[f.ctx] = f.seen
  BY <1>1, <1>2, <1>3, <1>7
<1> HIDE DEF f
<1> QED
  BY <1>1, <1>3, <1>4, <1>5, <1>6, <1>8, EditSafe

\* One step per action of Next.
LEMMA SafeStep ==
  ASSUME SafeInv, [Next]_vars
  PROVE  SafeInv'
<1>0. TypeOK'
  BY TypeStep DEF SafeInv
<1>1. CASE UNCHANGED vars
  BY <1>1, <1>0 DEF vars, SafeInv, TypeOK, FlagTracksBody, OpenSectionLocked,
     RollbackKeepsSection, MutualExclusion, SectionIsolated, ViewSeesNoOpenSection, Holds
<1>2. ASSUME NEW c \in Contracts, NEW e \in Entries, StartTx(c, e)
      PROVE  SafeInv'
  BY <1>0, <1>2, StartShape, PushNew DEF StartTx, SafeInv
<1>3. CASE EnterGuarded
  BY <1>0, <1>3, EnterGuardedSafe
<1>4. CASE EnterView
  BY <1>0, <1>4, EnterViewSafe
<1>5. CASE EnterPlain
  BY <1>0, <1>5, EnterPlainSafe
<1>6. CASE RejectReentrant
  BY <1>0, <1>6, PopRevertingSafe DEF RejectReentrant, InDispatch
<1>7. ASSUME NEW v \in Values, Write(v)
      PROVE  SafeInv'
  BY <1>0, <1>7, WriteSafe
<1>8. ASSUME NEW c \in Contracts, NEW e \in Entries,
             NEW allow \in BOOLEAN, NEW view \in BOOLEAN, Call(c, e, allow, view)
      PROVE  SafeInv'
  <2>1. lock' = lock /\ data' = data
    BY <1>8 DEF Call
  <2>2. Pushed(NewFrame(c, e, Top.readonly \/ view))
    BY <1>8, CallShape DEF SafeInv
  <2> QED
    BY <1>0, <2>1, <2>2, PushNew
<1>9. ASSUME NEW e \in Entries, DelegateCall(e)
      PROVE  SafeInv'
  <2>1. lock' = lock /\ data' = data
    BY <1>9 DEF DelegateCall
  <2>2. Pushed(NewFrame(Top.ctx, e, Top.readonly))
    BY <1>9, DelegateCallShape DEF SafeInv
  <2> QED
    BY <1>0, <2>1, <2>2, PushNew
<1>10. CASE ReturnOk
  <2>1. Running /\ (Top.entry = "guarded" <=> Top.held)
    BY <1>10, FlagIsBody DEF ReturnOk, InBody
  <2>2. CASE Top.held
    BY <1>0, <1>10, <2>1, <2>2, UnlockedKeeps, PopKeepingSafe DEF ReturnOk
  <2>3. CASE ~Top.held
    BY <1>0, <1>10, <2>1, <2>3, SectionsStand, PopKeepingSafe DEF ReturnOk
  <2> QED
    BY <2>2, <2>3
<1>11. CASE RawReturn
  <2>1. Running
    BY <1>11 DEF RawReturn, InBody
  <2>2. CASE Top.held
    BY <1>0, <1>11, <2>1, <2>2, UnlockedKeeps, PopKeepingSafe DEF RawReturn, ClearedIfHeld
  <2>3. CASE ~Top.held
    BY <1>0, <1>11, <2>1, <2>3, SectionsStand, PopKeepingSafe DEF RawReturn, ClearedIfHeld
  <2> QED
    BY <2>2, <2>3
<1>12. CASE RevertExit
  BY <1>0, <1>12, PopRevertingSafe DEF RevertExit
<1>13. CASE Terminate
  BY <1>0, <1>13, SectionsStand, PopKeepingSafe DEF Terminate, InBody
<1> QED
  BY <1>1, <1>2, <1>3, <1>4, <1>5, <1>6, <1>7, <1>8, <1>9, <1>10, <1>11, <1>12, <1>13
  DEF Next

\* With no frame there is no section.
LEMMA SafeInit == Init => SafeInv
BY TypeInit DEF Init, SafeInv, FlagTracksBody, OpenSectionLocked, RollbackKeepsSection,
   MutualExclusion, SectionIsolated, ViewSeesNoOpenSection

\* The section invariant holds in every reachable state.
LEMMA SafeAlways == Spec => []SafeInv
BY SafeInit, SafeStep, PTL DEF Spec

\* No re-entrancy: two frames never run guarded sections of one account at
\* the same time, whatever the contracts call, delegate, revert or terminate.
THEOREM NoReentrancy == Spec => []MutualExclusion
<1>1. SafeInv => MutualExclusion
  BY DEF SafeInv
<1> QED
  BY <1>1, SafeAlways, PTL

\* The guarded word is what the section that maintains it last saw.
THEOREM Isolation == Spec => []SectionIsolated
<1>1. SafeInv => SectionIsolated
  BY DEF SafeInv
<1> QED
  BY <1>1, SafeAlways, PTL

\* A guarded view never runs on top of an open section of its account.
THEOREM NoReadOnlyReentrancy == Spec => []ViewSeesNoOpenSection
<1>1. SafeInv => ViewSeesNoOpenSection
  BY DEF SafeInv
<1> QED
  BY <1>1, SafeAlways, PTL

-----------------------------------------------------------------------------
(* Lock ownership, for accounts that never call terminate                  *)

\* Every lock set in `l` belongs to one of the first n frames of s.
OwnedBy(l, s, n) ==
  \A c \in Lasting : l[c] => \E i \in 1..n : s[i].held /\ s[i].ctx = c

OwnedForm(n, s, l) ==
  /\ OwnedBy(l, s, n)
  /\ \A j \in 1..n : OwnedBy(s[j].saved.lock, s, j - 1)

\* The ownership invariant, over frames by number.
LEMMA OwnedInvForm ==
  ASSUME OwnedInv
  PROVE  Depth \in Nat /\ OwnedForm(Depth, stack, lock)
<1>1. DOMAIN stack = 1..Depth /\ Depth \in Nat
  BY StackFacts DEF OwnedInv, SafeInv
<1> QED
  BY <1>1 DEF OwnedInv, OwnedForm, OwnedBy, LockOwned, RollbackLocksOwned, Holds

\* And back, in the next state.
LEMMA OwnedInvFormNext ==
  ASSUME SafeInv', OwnedForm(Len(stack'), stack', lock')
  PROVE  OwnedInv'
<1>1. stack' \in Seq(Frame)
  BY DEF SafeInv, TypeOK
<1>2. DOMAIN stack' = 1..Len(stack')
  BY <1>1, LenProperties
<1>3. \A i \in DOMAIN stack' : stack'[i].held => lock'[stack'[i].ctx]
  BY DEF SafeInv, OpenSectionLocked
<1>4. LockOwned'
  BY <1>2, <1>3 DEF LockOwned, Holds, OwnedForm, OwnedBy
<1>5. RollbackLocksOwned'
  BY <1>2 DEF RollbackLocksOwned, Holds, OwnedForm, OwnedBy
<1> QED
  BY <1>4, <1>5 DEF OwnedInv

\* A new frame saves locks that have owners below it.
LEMMA OwnedPush ==
  ASSUME OwnedInv, SafeInv', NEW c, NEW e, NEW ro, Pushed(NewFrame(c, e, ro)),
         lock' = lock
  PROVE  OwnedInv'
<1> DEFINE f == NewFrame(c, e, ro)
<1>1. f.saved.lock = lock
  BY DEF NewFrame
<1>2. /\ Len(stack') = Depth + 1
      /\ \A i \in 1..Depth : SameFrame(stack'[i], stack[i])
      /\ stack'[Depth + 1] = f
  BY DEF Pushed
<1>3. Depth \in Nat /\ OwnedForm(Depth, stack, lock)
  BY OwnedInvForm
<1> HIDE DEF f
<1>4. OwnedForm(Depth + 1, stack', lock')
  BY <1>1, <1>2, <1>3 DEF OwnedForm, OwnedBy, SameFrame
<1> QED
  BY <1>2, <1>4, OwnedInvFormNext

\* An edit that locks only what its frame holds keeps every lock owned.
LEMMA OwnedEdit ==
  ASSUME OwnedInv, SafeInv', Running, NEW f, Edited(f),
         f.ctx = Top.ctx, f.saved = Top.saved, Top.held => f.held,
         \A c \in Lasting : lock'[c] => lock[c] \/ (f.held /\ c = Top.ctx)
  PROVE  OwnedInv'
<1>1. /\ Len(stack') = Depth
      /\ \A i \in 1..(Depth - 1) : SameFrame(stack'[i], stack[i])
      /\ SameFrame(stack'[Depth], f)
  BY DEF Edited
<1>2. Depth \in Nat /\ Depth > 0 /\ OwnedForm(Depth, stack, lock)
  BY OwnedInvForm DEF Running
<1>3. \A i \in 1..Depth : /\ stack'[i].ctx = stack[i].ctx /\ stack'[i].saved = stack[i].saved
                          /\ stack[i].held => stack'[i].held
  BY <1>1, <1>2 DEF SameFrame, Top
<1>4. stack'[Depth].held = f.held /\ stack'[Depth].ctx = Top.ctx
  BY <1>1 DEF SameFrame
<1>5. OwnedBy(lock', stack', Depth)
  BY <1>2, <1>3, <1>4 DEF OwnedForm, OwnedBy
<1>6. \A j \in 1..Depth : OwnedBy(stack'[j].saved.lock, stack', j - 1)
  BY <1>2, <1>3 DEF OwnedForm, OwnedBy
<1> QED
  BY <1>1, <1>5, <1>6, OwnedInvFormNext DEF OwnedForm

\* So does an exit that leaves only locks of the frames below.
LEMMA OwnedPop ==
  ASSUME OwnedInv, SafeInv', Running, Popped, OwnedBy(lock', stack, Depth - 1)
  PROVE  OwnedInv'
<1>1. /\ Len(stack') = Depth - 1
      /\ \A i \in 1..(Depth - 1) : SameFrame(stack'[i], stack[i])
  BY DEF Popped
<1>2. Depth \in Nat /\ Depth > 0 /\ OwnedForm(Depth, stack, lock)
  BY OwnedInvForm DEF Running
<1>3. OwnedForm(Depth - 1, stack', lock')
  BY <1>1, <1>2 DEF OwnedForm, OwnedBy, SameFrame
<1> QED
  BY <1>1, <1>3, OwnedInvFormNext

\* Once the innermost frame's own lock is gone, the rest belong to its callers.
LEMMA OwnedPopReverting ==
  ASSUME OwnedInv, SafeInv', Running, PopReverting
  PROVE  OwnedInv'
<1>1. Popped
  BY PoppedShape DEF OwnedInv, SafeInv, PopReverting
<1>2. Depth \in 1..Depth /\ OwnedForm(Depth, stack, lock) /\ lock' = Top.saved.lock
  BY OwnedInvForm DEF Running, PopReverting
<1>3. OwnedBy(lock', stack, Depth - 1)
  BY <1>2 DEF OwnedForm, Top
<1> QED
  BY <1>1, <1>3, OwnedPop

\* A successful exit leaves the locks that its own frame did not hold.
LEMMA OwnedPopKeeping ==
  ASSUME OwnedInv, SafeInv', Running, NEW l, PopKeeping(l),
         \A c \in Lasting : l[c] => lock[c] /\ (Top.held => c # Top.ctx)
  PROVE  OwnedInv'
<1>1. Popped /\ TypeOK
  BY PoppedShape DEF OwnedInv, SafeInv, PopKeeping
<1>2. Depth \in Nat /\ Depth > 0 /\ OwnedForm(Depth, stack, lock)
  BY OwnedInvForm DEF Running
<1>3. lock' = IF Depth = 1 THEN AllFree ELSE l
  BY DEF PopKeeping
<1>5. OwnedBy(l, stack, Depth - 1)
  BY <1>2 DEF OwnedForm, OwnedBy, Top
<1>6. OwnedBy(AllFree, stack, Depth - 1)
  BY DEF OwnedBy, AllFree, Lasting
<1>7. OwnedBy(lock', stack, Depth - 1)
  BY <1>3, <1>5, <1>6
<1> QED
  BY <1>1, <1>7, OwnedPop

\* Every step keeps every lock owned.
LEMMA OwnedStep ==
  ASSUME OwnedInv, [Next]_vars
  PROVE  OwnedInv'
<1>0. SafeInv /\ SafeInv' /\ TypeOK
  BY SafeStep DEF OwnedInv, SafeInv
<1>1. CASE UNCHANGED vars
  <2>1. stack' = stack /\ lock' = lock
    BY <1>1 DEF vars
  <2>2. OwnedForm(Len(stack'), stack', lock')
    BY <2>1, OwnedInvForm DEF Depth
  <2> QED
    BY <1>0, <2>2, OwnedInvFormNext
<1>2. ASSUME NEW c \in Contracts, NEW e \in Entries, StartTx(c, e)
      PROVE  OwnedInv'
  <2>1. lock' = lock
    BY <1>2 DEF StartTx
  <2> QED
    BY <1>0, <1>2, <2>1, StartShape, OwnedPush
<1>3. CASE EnterGuarded
  <2> DEFINE f == Started(TRUE, data[Top.ctx])
  <2>1. Running /\ Top \in Frame /\ lock' = [lock EXCEPT ![Top.ctx] = TRUE]
    BY <1>0, <1>3, StackFacts DEF EnterGuarded, InDispatch, LockEffect
  <2>2. f.ctx = Top.ctx /\ f.saved = Top.saved /\ f.held
    BY <2>1 DEF Started, Frame
  <2>3. \A c \in Lasting : lock'[c] => lock[c] \/ c = Top.ctx
    BY <1>0, <2>1 DEF TypeOK, Lasting
  <2>4. Edited(f)
    BY <1>0, <1>3, EnterGuardedShape
  <2> HIDE DEF f
  <2> QED
    BY <1>0, <2>1, <2>2, <2>3, <2>4, OwnedEdit
<1>4. CASE EnterView
  <2> DEFINE f == Started(Top.held, data[Top.ctx])
  <2>1. Running /\ Top \in Frame /\ lock' = lock
    BY <1>0, <1>4, StackFacts DEF EnterView, InDispatch
  <2>2. f.ctx = Top.ctx /\ f.saved = Top.saved /\ f.held = Top.held
    BY <2>1 DEF Started, Frame
  <2>3. Edited(f)
    BY <1>0, <1>4, EnterViewShape
  <2> HIDE DEF f
  <2> QED
    BY <1>0, <2>1, <2>2, <2>3, OwnedEdit
<1>5. CASE EnterPlain
  <2> DEFINE f == Started(Top.held, Top.seen)
  <2>1. Running /\ Top \in Frame /\ lock' = lock
    BY <1>0, <1>5, StackFacts DEF EnterPlain, InDispatch
  <2>2. f.ctx = Top.ctx /\ f.saved = Top.saved /\ f.held = Top.held
    BY <2>1 DEF Started, Frame
  <2>3. Edited(f)
    BY <1>0, <1>5, EnterPlainShape
  <2> HIDE DEF f
  <2> QED
    BY <1>0, <2>1, <2>2, <2>3, OwnedEdit
<1>6. CASE RejectReentrant
  BY <1>0, <1>6, OwnedPopReverting DEF RejectReentrant, InDispatch
<1>7. ASSUME NEW v \in Values, Write(v)
      PROVE  OwnedInv'
  <2> DEFINE f == [Top EXCEPT !.seen = v]
  <2>1. Running /\ Top \in Frame /\ lock' = lock
    BY <1>0, <1>7, StackFacts DEF Write, InBody
  <2>2. f.ctx = Top.ctx /\ f.saved = Top.saved /\ f.held = Top.held
    BY <2>1 DEF Frame
  <2>3. Edited(f)
    BY <1>0, <1>7, WriteShape
  <2> HIDE DEF f
  <2> QED
    BY <1>0, <2>1, <2>2, <2>3, OwnedEdit
<1>8. ASSUME NEW c \in Contracts, NEW e \in Entries,
             NEW allow \in BOOLEAN, NEW view \in BOOLEAN, Call(c, e, allow, view)
      PROVE  OwnedInv'
  <2>1. lock' = lock
    BY <1>8 DEF Call
  <2>2. Pushed(NewFrame(c, e, Top.readonly \/ view))
    BY <1>0, <1>8, CallShape
  <2> QED
    BY <1>0, <2>1, <2>2, OwnedPush
<1>9. ASSUME NEW e \in Entries, DelegateCall(e)
      PROVE  OwnedInv'
  <2>1. lock' = lock
    BY <1>9 DEF DelegateCall
  <2>2. Pushed(NewFrame(Top.ctx, e, Top.readonly))
    BY <1>0, <1>9, DelegateCallShape
  <2> QED
    BY <1>0, <2>1, <2>2, OwnedPush
<1>10. ASSUME Running, PopKeeping(IF Top.held THEN Unlocked ELSE lock)
       PROVE  OwnedInv'
  <2> DEFINE l == IF Top.held THEN Unlocked ELSE lock
  <2>1. \A c \in Lasting : l[c] => lock[c] /\ (Top.held => c # Top.ctx)
    BY <1>0 DEF Unlocked, TypeOK, Lasting
  <2>2. PopKeeping(l)
    BY <1>10
  <2> HIDE DEF l
  <2> QED
    BY <1>0, <1>10, <2>1, <2>2, OwnedPopKeeping
<1>11. CASE ReturnOk \/ RawReturn
  <2>1. Running /\ (Top.entry = "guarded" <=> Top.held)
    BY <1>0, <1>11, FlagIsBody DEF ReturnOk, RawReturn, InBody
  <2>2. PopKeeping(IF Top.held THEN Unlocked ELSE lock)
    BY <1>11, <2>1 DEF ReturnOk, RawReturn, ClearedIfHeld
  <2> QED
    BY <1>10, <2>1, <2>2
<1>12. CASE RevertExit
  BY <1>0, <1>12, OwnedPopReverting DEF RevertExit
<1>13. CASE Terminate
  \* The lock it leaves behind is that of a terminating account.
  <2>1. Running /\ PopKeeping(lock) /\ Top.ctx \notin Lasting
    BY <1>13 DEF Terminate, InBody, Lasting
  <2> QED
    BY <1>0, <2>1, OwnedPopKeeping
<1> QED
  BY <1>1, <1>2, <1>3, <1>4, <1>5, <1>6, <1>7, <1>8, <1>9, <1>10, <1>11, <1>12, <1>13
  DEF Next

\* Initially no key is set.
LEMMA OwnedInit == Init => OwnedInv
BY SafeInit DEF Init, OwnedInv, LockOwned, RollbackLocksOwned, AllFree, Lasting

\* A lock released in one step is the innermost frame's own, released by its
\* exit.
LEMMA ReleaseStep ==
  ASSUME OwnedInv, [Next]_vars,
         NEW c \in Lasting, lock[c], ~lock'[c]
  PROVE  Holds(Depth, c) /\ stack' = Resumed(Callers)
<1>0. SafeInv /\ TypeOK
  BY DEF OwnedInv, SafeInv
<1>1. /\ Depth \in Nat /\ OwnedForm(Depth, stack, lock)
      /\ lock \in [Contracts -> BOOLEAN] /\ c \in Contracts
  BY <1>0, OwnedInvForm DEF TypeOK, Lasting
<1>2. PICK i \in 1..Depth : stack[i].held /\ stack[i].ctx = c
  BY <1>1 DEF OwnedForm, OwnedBy
<1>3. Running
  BY <1>1, <1>2 DEF Running
<1>4. CASE i = Depth /\ stack' = Resumed(Callers)
  BY <1>2, <1>4 DEF Holds
<1>5. ASSUME i < Depth PROVE FALSE
  \* A section below survives every step.
  <2>1. i \in 1..(Depth - 1)
    BY <1>1, <1>2, <1>5
  <2>2. Top.saved.lock[c] /\ (Top.held => Top.ctx # c)
    BY <1>0, <1>2, <1>3, <2>1, SectionsStand, OwnerAlone DEF TopIsAlone, Holds
  <2>3. Depth # 1
    BY <1>1, <2>1
  <2>4. ~PopReverting
    BY <2>2 DEF PopReverting
  <2>5. ~PopKeeping(lock)
    BY <2>3 DEF PopKeeping
  <2>6. ASSUME Top.held, PopKeeping(Unlocked) PROVE FALSE
    BY <1>1, <2>2, <2>3, <2>6 DEF PopKeeping, Unlocked
  <2>7. Top.held <=> Top.entry = "guarded" /\ Top.body
    BY <1>0, <1>3, FlagIsBody
  <2>8. ~ReturnOk /\ ~RawReturn
    BY <2>5, <2>6, <2>7 DEF ReturnOk, RawReturn, ClearedIfHeld, InBody
  <2>9. ~EnterGuarded
    BY <1>1 DEF EnterGuarded, LockEffect
  <2>10. lock' # lock
    OBVIOUS
  <2> QED
    BY <2>4, <2>5, <2>8, <2>9, <2>10
    DEF Next, vars, StartTx, EnterView, EnterPlain, RejectReentrant, Write, Call,
        DelegateCall, RevertExit, Terminate
<1>6. ASSUME stack' # Resumed(Callers) PROVE FALSE
  <2>1. lock' # lock
    OBVIOUS
  <2>2. ~EnterGuarded
    BY <1>1 DEF EnterGuarded, LockEffect
  <2> QED
    BY <1>6, <2>1, <2>2
    DEF Next, vars, StartTx, EnterView, EnterPlain, RejectReentrant, Write, Call,
        DelegateCall, ReturnOk, RawReturn, RevertExit, Terminate, PopKeeping, PopReverting
<1> QED
  BY <1>1, <1>2, <1>4, <1>5, <1>6

\* The lock of an account that does not terminate is set exactly while a frame
\* owns it: every way out of a guarded call has released it.
THEOREM LocksAreOwned == Spec => []LockOwned
<1>1. OwnedInv => LockOwned
  BY DEF OwnedInv
<1>2. OwnedInv /\ [Next]_vars => OwnedInv'
  BY OwnedStep
<1> QED
  BY <1>1, <1>2, OwnedInit, PTL DEF Spec

\* And only the exit of its owner releases it.
THEOREM ReleasesAreOwned == Spec => OnlyOwnerUnlocks
<1>1. OwnedInv /\ [Next]_vars => OwnedInv'
  BY OwnedStep
<1>2. OwnedInv /\ [Next]_vars =>
        [\A c \in Lasting : lock[c] /\ ~lock'[c] =>
           Holds(Depth, c) /\ stack' = Resumed(Callers)]_vars
  BY ReleaseStep
<1> QED
  BY <1>1, <1>2, OwnedInit, PTL DEF Spec, OnlyOwnerUnlocks

-----------------------------------------------------------------------------
(* Division with remainder                                                 *)

\* What `%` returns.
LEMMA RemainderRange ==
  ASSUME NEW n \in Nat, NEW a \in Nat \ {0}
  PROVE  n % a \in 0..(a - 1)
OBVIOUS

\* Division with remainder.
LEMMA DivisionSplit ==
  ASSUME NEW n \in Nat, NEW a \in Nat \ {0}
  PROVE  n \div a \in Nat /\ n = a * (n \div a) + (n % a)
OBVIOUS

\* A number below the divisor is its own remainder.
LEMMA RemainderSmall ==
  ASSUME NEW n \in Nat, NEW a \in Nat \ {0}, n < a
  PROVE  n % a = n
OBVIOUS

\* A multiple has no remainder.
LEMMA MultipleOf ==
  ASSUME NEW q \in Int, NEW a \in Nat \ {0}
  PROVE  (a * q) % a = 0
OBVIOUS

\* Dropping the remainder leaves a multiple.
LEMMA RoundDown ==
  ASSUME NEW n \in Nat, NEW a \in Nat \ {0}
  PROVE  n - (n % a) \in Nat /\ (n - (n % a)) % a = 0
<1> DEFINE q == n \div a
<1>1. q \in Nat /\ n = a * q + (n % a) /\ n % a \in Int
  BY DivisionSplit, RemainderRange
<1> HIDE DEF q
<1>2. a * q \in Nat
  BY <1>1
<1>3. n - (n % a) = a * q
  BY <1>1, <1>2
<1> QED
  BY <1>1, <1>2, <1>3, MultipleOf

\* A multiple of a multiple, and the sum of two, are multiples.
LEMMA SumOfMultiples ==
  ASSUME NEW n \in Nat, NEW m \in Nat, NEW a \in Nat \ {0}, n % a = 0, m % a = 0
  PROVE  (n + m) % a = 0
<1> DEFINE p == n \div a
           q == m \div a
<1>1. p \in Nat /\ n = a * p /\ q \in Nat /\ m = a * q
  BY DivisionSplit
<1> HIDE DEF p, q
<1>2. n + m = a * (p + q)
  BY <1>1
<1> QED
  BY <1>1, <1>2, MultipleOf

\* A multiple of a multiple: the heap base is as aligned as the word, so
\* as anything that divides it.
LEMMA MultipleOfMultiple ==
  ASSUME NEW n \in Nat, NEW w \in Nat \ {0}, NEW a \in Nat \ {0}, n % w = 0, w % a = 0
  PROVE  n % a = 0
<1> DEFINE p == n \div w
           q == w \div a
<1>1. p \in Nat /\ n = w * p /\ q \in Nat /\ w = a * q
  BY DivisionSplit
<1> HIDE DEF p, q
<1>2. p * q \in Nat /\ n = a * (p * q)
  BY <1>1
<1> QED
  BY <1>2, MultipleOf

-----------------------------------------------------------------------------
(* alloc                                                                   *)

\* What the assumptions say of one layout.
LEMMA LayoutFacts ==
  ASSUME NEW l \in Layouts
  PROVE  /\ l.size \in Nat \ {0} /\ l.align \in Nat \ {0}
         /\ 2 * (l.size + l.align - 1) < UsizeLimit
         /\ HeapSize \in Nat /\ UsizeLimit \in Nat \ {0} /\ 2 * HeapSize < UsizeLimit
BY AllocatorAssumption

\* The addition does not wrap, and the mask lands on a multiple of the
\* alignment less than one alignment above the offset.
LEMMA RoundUpWithin ==
  ASSUME NEW n \in 0..HeapSize, NEW l \in Layouts
  PROVE  /\ RoundUp(n, l.align) \in n..(n + l.align - 1)
         /\ RoundUp(n, l.align) % l.align = 0
<1> DEFINE a == l.align
           sum == n + a - 1
<1>1. a \in Nat \ {0} /\ n \in Nat /\ sum \in Nat /\ sum < UsizeLimit /\ UsizeLimit \in Nat \ {0}
  BY LayoutFacts
<1>2. RoundUp(n, a) = (sum % UsizeLimit) - ((sum % UsizeLimit) % a)
  BY DEF RoundUp
<1>3. a = l.align /\ sum = n + a - 1
  OBVIOUS
<1> HIDE DEF a, sum
<1>4. RoundUp(n, a) = sum - (sum % a)
  BY <1>1, <1>2, RemainderSmall
<1>5. sum % a \in 0..(a - 1) /\ (sum - (sum % a)) % a = 0
  BY <1>1, RemainderRange, RoundDown
<1> QED
  BY <1>1, <1>3, <1>4, <1>5

\* And it is the first multiple there.
LEMMA RoundUpLeast ==
  ASSUME NEW n \in 0..HeapSize, NEW l \in Layouts, NEW at \in Nat,
         n <= at, at % l.align = 0
  PROVE  RoundUp(n, l.align) <= at
<1> DEFINE a == l.align
           r == RoundUp(n, l.align)
           p == r \div a
           q == at \div a
<1>1. /\ a \in Nat \ {0} /\ n \in Nat /\ r \in Nat
      /\ r < n + a /\ r % a = 0 /\ at % a = 0
  BY LayoutFacts, RoundUpWithin
<1> HIDE DEF a, r
<1>2. p \in Nat /\ r = a * p /\ q \in Nat /\ at = a * q
  BY <1>1, DivisionSplit
<1> HIDE DEF p, q
<1>3. a * p < a * (q + 1)
  BY <1>1, <1>2
<1>4. p < q + 1
  BY <1>1, <1>2, <1>3
<1>5. a * p <= a * q
  BY <1>1, <1>2, <1>4
<1>6. r <= at
  BY <1>2, <1>5
<1> QED
  BY <1>6 DEF r

\* What a successful allocation places: an aligned region of the heap above
\* everything handed out before, below the new offset.
LEMMA PlacedAbove ==
  ASSUME HeapTypeOK, NEW l \in Layouts, Fits(l)
  PROVE  /\ Placed(l) \in Block
         /\ offset <= Placed(l).at /\ Placed(l).at % Placed(l).align = 0
         /\ Placed(l).align = l.align /\ Placed(l).at = Aligned(l) /\ Placed(l).size = l.size
         /\ Aligned(l) + l.size \in offset..HeapSize
<1>1. l.size \in Nat \ {0} /\ l.align \in Nat \ {0} /\ HeapSize \in Nat
  BY LayoutFacts
<1>2. /\ Aligned(l) \in offset..(offset + l.align - 1)
      /\ Aligned(l) % l.align = 0 /\ offset \in Nat
  BY RoundUpWithin, <1>1 DEF Aligned, HeapTypeOK
<1>3. Aligned(l) \in Nat /\ Aligned(l) + l.size <= HeapSize
  BY <1>1, <1>2 DEF Fits
<1> QED
  BY <1>1, <1>2, <1>3 DEF Placed, Block

-----------------------------------------------------------------------------
(* The invariant: everything handed out, and every byte written, is below  *)
(* the offset.                                                             *)

BelowOffset == \A b \in blocks : b.at + b.size <= offset
AlignedRegions == \A b \in blocks : b.at % b.align = 0
UnusedIsZero == \A k \in dirty : k < offset

HeapInv ==
  HeapTypeOK /\ BelowOffset /\ AlignedRegions /\ UnusedIsZero /\ Disjoint

\* Placing a region on top of any subset of the blocks keeps it.
LEMMA PlaceStep ==
  ASSUME HeapInv, NEW l \in Layouts, Fits(l), NEW kept \in SUBSET blocks,
         offset' = Aligned(l) + l.size, blocks' = kept \union {Placed(l)},
         dirty' \subseteq dirty \union Bytes(Placed(l)), status' = status
  PROVE  HeapInv'
<1> DEFINE new == Placed(l)
<1>1. /\ new \in Block /\ offset <= new.at /\ new.at % new.align = 0
      /\ new.at + new.size = offset' /\ offset' \in offset..HeapSize
  BY PlacedAbove DEF HeapInv
<1> HIDE DEF new
<1>2. blocks' = kept \union {new} /\ kept \subseteq blocks /\ dirty' \subseteq dirty \union Bytes(new)
  BY DEF new
<1>3. HeapSize \in Nat /\ offset \in 0..HeapSize
  BY LayoutFacts DEF HeapInv, HeapTypeOK
<1>4. offset' \in 0..HeapSize
  BY <1>1, <1>3
<1>5. Bytes(new) \subseteq offset..(offset' - 1)
  BY <1>1, <1>3 DEF Bytes, Block
<1>6. dirty' \subseteq 0..(HeapSize - 1) /\ \A k \in dirty' : k < offset'
  BY <1>1, <1>2, <1>3, <1>5 DEF HeapInv, HeapTypeOK, UnusedIsZero
<1>7. \A b \in kept : b \in Block /\ b.at + b.size <= offset
  BY <1>2 DEF HeapInv, HeapTypeOK, BelowOffset
<1>8. HeapTypeOK'
  BY <1>1, <1>2, <1>4, <1>6, <1>7 DEF HeapInv, HeapTypeOK
<1>9. BelowOffset'
  BY <1>1, <1>2, <1>3, <1>7 DEF BelowOffset, Block
<1>10. AlignedRegions'
  BY <1>1, <1>2 DEF HeapInv, AlignedRegions
<1>11. \A b \in kept : Bytes(b) \intersect Bytes(new) = {}
  BY <1>1, <1>3, <1>7 DEF Bytes, Block
<1>12. Disjoint'
  <2>1. \A b \in blocks' : Bytes(b) \subseteq 0..(HeapSize - 1)
    BY <1>1, <1>2, <1>3, <1>5 DEF HeapInv, Disjoint
  <2>2. \A b, c \in blocks' : b # c => Bytes(b) \intersect Bytes(c) = {}
    BY <1>2, <1>11 DEF HeapInv, Disjoint
  <2> QED
    BY <2>1, <2>2 DEF Disjoint, Bytes
<1> QED
  BY <1>6, <1>8, <1>9, <1>10, <1>12 DEF HeapInv, UnusedIsZero

\* Every step keeps the heap invariant.
LEMMA HeapStep ==
  ASSUME HeapInv, [HeapNext]_heapVars
  PROVE  HeapInv'
<1>1. ASSUME NEW l \in Layouts, Alloc(l)
      PROVE  HeapInv'
  BY <1>1, PlaceStep DEF Alloc
<1>2. ASSUME NEW l \in Layouts, AllocZeroed(l)
      PROVE  HeapInv'
  BY <1>1, <1>2 DEF AllocZeroed
<1>3. ASSUME NEW l \in Layouts, Exhausted(l)
      PROVE  HeapInv'
  BY <1>3 DEF Exhausted, HeapInv, HeapTypeOK, BelowOffset, AlignedRegions, UnusedIsZero,
              Disjoint, Bytes
<1>4. ASSUME NEW b \in blocks, Dealloc(b)
      PROVE  HeapInv'
  BY <1>4 DEF Dealloc, HeapInv, HeapTypeOK, BelowOffset, AlignedRegions, UnusedIsZero,
              Disjoint, Bytes
<1>5. ASSUME NEW b \in blocks, NEW l \in Layouts, Realloc(b, l)
      PROVE  HeapInv'
  <2>1. blocks' = (blocks \ {b}) \union {Placed(l)} /\ blocks \ {b} \in SUBSET blocks
    BY <1>5 DEF Realloc
  <2>2. dirty' \subseteq dirty \union Bytes(Placed(l))
    BY <1>5 DEF Realloc
  <2> QED
    BY <1>5, <2>1, <2>2, PlaceStep DEF Realloc
<1>6. ASSUME NEW b \in blocks, NEW k \in 0..(HeapSize - 1), Store(b, k)
      PROVE  HeapInv'
  <2>1. k < offset
    <3>1. b \in Block /\ b.at + b.size <= offset /\ k \in Bytes(b) /\ offset \in Int
      BY <1>6 DEF Store, HeapInv, HeapTypeOK, BelowOffset
    <3> QED
      BY <3>1 DEF Bytes, Block
  <2> QED
    BY <1>6, <2>1 DEF Store, HeapInv, HeapTypeOK, BelowOffset, AlignedRegions, UnusedIsZero,
                      Disjoint, Bytes
<1>7. CASE UNCHANGED heapVars
  BY <1>7 DEF heapVars, HeapInv, HeapTypeOK, BelowOffset, AlignedRegions, UnusedIsZero,
              Disjoint, Bytes
<1> QED
  BY <1>1, <1>2, <1>3, <1>4, <1>5, <1>6, <1>7 DEF HeapNext

\* The empty heap satisfies it.
LEMMA HeapStart == HeapInit => HeapInv
BY AllocatorAssumption
DEF HeapInit, HeapInv, HeapTypeOK, BelowOffset, AlignedRegions, UnusedIsZero, Disjoint, Bytes, Block

\* The heap invariant holds in every reachable state.
LEMMA HeapAlways == HeapSpec => []HeapInv
BY HeapStart, HeapStep, PTL DEF HeapSpec

\* The offset never leaves the heap and no byte outside it is ever written,
\* for every heap size and every set of layouts.
THEOREM HeapTypeCorrect == HeapSpec => []HeapTypeOK
<1>1. HeapInv => HeapTypeOK
  BY DEF HeapInv
<1> QED
  BY <1>1, HeapAlways, PTL

\* No two live regions share a byte and none leaves the heap.
THEOREM RegionsDisjoint == HeapSpec => []Disjoint
<1>1. HeapInv => Disjoint
  BY DEF HeapInv
<1> QED
  BY <1>1, HeapAlways, PTL

\* alloc_zeroed may skip the clearing.
THEOREM ZeroedWithoutClearing == HeapSpec => ZeroedIsZero
<1>1. HeapInv /\ [HeapNext]_heapVars =>
        [\A l \in Layouts : AllocZeroed(l) => Bytes(Placed(l)) \intersect dirty = {}]_heapVars
  <2> SUFFICES ASSUME HeapInv, NEW l \in Layouts, AllocZeroed(l)
               PROVE  Bytes(Placed(l)) \intersect dirty = {}
    OBVIOUS
  <2>1. Placed(l) \in Block /\ offset <= Placed(l).at /\ offset \in Int
    BY PlacedAbove DEF AllocZeroed, Alloc, HeapInv, HeapTypeOK
  <2> QED
    BY <2>1 DEF HeapInv, UnusedIsZero, Bytes, Block, HeapTypeOK
<1> QED
  BY <1>1, HeapAlways, PTL DEF HeapSpec, ZeroedIsZero

\* Pointers honour every alignment that divides the heap's own.
THEOREM PointerAlignment == HeapSpec => []PointersAligned
<1>1. HeapInv => PointersAligned
  <2> SUFFICES ASSUME HeapInv, NEW b \in blocks, WordAlign % b.align = 0
               PROVE  (HeapBase + b.at) % b.align = 0
    BY DEF PointersAligned
  <2>1. b.at \in Nat /\ b.align \in Nat \ {0} /\ b.at % b.align = 0
    <3>1. b \in Block
      BY DEF HeapInv, HeapTypeOK
    <3>2. b.at % b.align = 0
      BY DEF HeapInv, AlignedRegions
    <3> QED
      BY <3>1, <3>2 DEF Block
  <2>2. HeapBase % b.align = 0 /\ HeapBase \in Nat
    BY <2>1, MultipleOfMultiple, AllocatorAssumption
  <2> QED
    BY <2>1, <2>2, SumOfMultiples
<1> QED
  BY <1>1, HeapAlways, PTL

\* The allocator never panics while the heap still has room.
THEOREM NoEarlyExhaustion == HeapSpec => RefusedOnlyWhenFull
<1>1. HeapInv /\ [HeapNext]_heapVars =>
        [\A l \in Layouts : Exhausted(l) =>
           ~\E at \in offset..HeapSize : at % l.align = 0 /\ at + l.size <= HeapSize]_heapVars
  <2> SUFFICES ASSUME HeapInv, NEW l \in Layouts, Exhausted(l),
                      NEW at \in offset..HeapSize, at % l.align = 0,
                      at + l.size <= HeapSize
               PROVE  FALSE
    OBVIOUS
  <2>1. /\ l.size \in Nat \ {0} /\ l.align \in Nat \ {0}
        /\ HeapSize \in Nat /\ UsizeLimit \in Nat /\ 2 * HeapSize < UsizeLimit
    BY LayoutFacts
  <2>2. offset \in 0..HeapSize /\ at \in Nat /\ offset <= at
    BY <2>1 DEF HeapInv, HeapTypeOK
  <2>3. Aligned(l) <= at
    BY <2>2, RoundUpLeast DEF Aligned
  <2>4. Aligned(l) \in Int
    BY <2>1, <2>2, RoundUpWithin DEF Aligned
  <2>5. ~(Aligned(l) + l.size < UsizeLimit /\ Aligned(l) + l.size <= HeapSize)
    BY DEF Exhausted, Fits
  <2> QED
    BY <2>1, <2>2, <2>3, <2>4, <2>5
<1> QED
  BY <1>1, HeapAlways, PTL DEF HeapSpec, RefusedOnlyWhenFull

-----------------------------------------------------------------------------
(* Packed fields                                                           *)

LastSlot(f) == f.slot + f.slots - 1

\* The next field of the chain starts behind every field the chain placed so
\* far: on a later slot, or in the bytes of the last slot that the chain still
\* counts as free.
Behind ==
  \A i \in Indices : IsAuto(i) =>
    /\ LastSlot(fields[i]) <= step.next_slot
    /\ LastSlot(fields[i]) = step.next_slot => step.next_space <= fields[i].offset

\* A field of several slots, and a pinned one, fills its slots; only the chain
\* places fields elsewhere than at the right end of a slot.
Shaped(f) ==
  /\ f.slots > 1 \/ f.attr = "pinned" => f.bytes = Width
  /\ f.attr # "auto" => f.offset + f.bytes = Width

Shapes == \A i \in Indices : Shaped(fields[i])

\* The declaration order of the chain is storage order.
Ordered == \A i, j \in Indices : IsAuto(i) /\ IsAuto(j) /\ i < j => fields[i].slot <= fields[j].slot

\* A chain with a field has a last one, and between two fields of it stand one
\* next to the first of them and one next to the second.
ChainHasNeighbours ==
  /\ \A i \in Indices : IsAuto(i) =>
       \E k \in Indices : IsAuto(k) /\ \A m \in Indices : IsAuto(m) => m <= k
  /\ \A i, j \in Indices : IsAuto(i) /\ IsAuto(j) /\ i < j =>
       /\ \E k \in Indices : i < k /\ k <= j /\ Neighbours(i, k)
       /\ \E k \in Indices : i <= k /\ k < j /\ Neighbours(j, k)

PlacementInv == FieldsTypeOK /\ Behind /\ Shapes /\ FieldsDisjoint

\* A field's bytes hold one value.
Uniform ==
  sealed => \A i \in Indices : \A s \in SlotsOf(i), p \in BytesOf(i) :
              storage[s][p] = Value(i)

RecordInv == PlacementInv /\ Ordered /\ ChainHasNeighbours /\ Uniform

-----------------------------------------------------------------------------
(* Placement                                                               *)

\* The components of a declared field are numbers in their ranges.
LEMMA FieldNumbers ==
  ASSUME NEW f \in PlacedField
  PROVE  /\ f.slot \in Nat /\ f.slots \in Nat \ {0} /\ f.offset \in 0..(Width - 1) /\ f.bytes \in 1..Width
         /\ LastSlot(f) \in Nat /\ f.slot <= LastSlot(f)
<1>1. f.slot \in Nat /\ f.slots \in Nat \ {0} /\ f.offset \in 0..(Width - 1) /\ f.bytes \in 1..Width
  BY DEF PlacedField, Positions
<1> QED BY <1>1 DEF LastSlot

\* An empty struct satisfies the placement invariant.
LEMMA InitPlacement == FieldsInit => PlacementInv
<1> SUFFICES ASSUME FieldsInit PROVE PlacementInv
  OBVIOUS
<1> USE FieldsAssumption
<1>1. fields = << >> /\ Indices = {}
  BY DEF FieldsInit, Indices
<1>2. FieldsTypeOK
  <2>1. fields \in Seq(PlacedField) /\ \A i \in Indices : fields[i].offset + fields[i].bytes <= Width
    BY <1>1
  <2>2. step \in [next_slot : Nat, next_space : 0..Width] /\ sealed = FALSE
    BY DEF FieldsInit, First
  <2>3. ret.out \subseteq Words
    BY DEF FieldsInit, Answer
  <2> QED BY <2>1, <2>2, <2>3 DEF FieldsTypeOK
<1> QED BY <1>1, <1>2 DEF PlacementInv, Behind, Shapes, FieldsDisjoint

\* What layout_step returns: a place behind every earlier field, and a step
\* that is behind the new one too.
LEMMA StepPlaces ==
  ASSUME FieldsTypeOK, NEW t \in FieldTypes
  PROVE  LET f == AutoField(t)
             n == Following(t)
         IN /\ f \in PlacedField /\ f.offset + f.bytes <= Width /\ f.attr = "auto"
            /\ Shaped(f)
            /\ n \in [next_slot : Nat, next_space : 0..Width]
            /\ LastSlot(f) = n.next_slot /\ n.next_space <= f.offset
            /\ step.next_slot <= f.slot
            /\ f.slot = step.next_slot => f.offset + f.bytes = step.next_space
            /\ n.next_slot = step.next_slot => n.next_space <= step.next_space
<1> USE FieldsAssumption
<1>1. /\ t.bytes \in 1..Width /\ t.slots \in Nat \ {0} /\ t.slots > 1 => t.bytes = Width
      /\ step.next_slot \in Nat /\ step.next_space \in 0..Width
  BY DEF FieldsTypeOK
<1>2. /\ StartSlot(t) \in Nat /\ step.next_slot <= StartSlot(t)
      /\ Space(t) \in t.bytes..Width
      /\ StartSlot(t) = step.next_slot => Space(t) = step.next_space
  BY <1>1 DEF StartSlot, Space
<1>3. t.slots > 1 => Space(t) = Width
  BY <1>1, <1>2
<1> DEFINE f == AutoField(t)
           n == Following(t)
<1>4. /\ f = [attr |-> "auto", slot |-> StartSlot(t), offset |-> Space(t) - t.bytes,
              bytes |-> t.bytes, slots |-> t.slots]
      /\ n.next_slot = StartSlot(t) + t.slots - 1
      /\ n.next_space = IF t.slots > 1 THEN 0 ELSE Space(t) - t.bytes
      /\ n \in [next_slot : Nat, next_space : 0..Width]
  BY <1>1, <1>2 DEF AutoField, Following
<1>5. f \in PlacedField
  BY <1>1, <1>2, <1>4 DEF PlacedField, Positions
<1> HIDE DEF f, n
<1>6. f.slot = StartSlot(t) /\ f.offset = Space(t) - t.bytes /\ f.bytes = t.bytes /\ f.slots = t.slots
      /\ f.attr = "auto"
  BY <1>4
<1>7. /\ f.offset + f.bytes <= Width
      /\ Shaped(f)
      /\ LastSlot(f) = n.next_slot /\ n.next_space <= f.offset
      /\ step.next_slot <= f.slot
      /\ f.slot = step.next_slot => f.offset + f.bytes = step.next_space
      /\ n.next_slot = step.next_slot => n.next_space <= step.next_space
  BY <1>1, <1>2, <1>4, <1>6 DEF LastSlot, Shaped
<1> QED BY <1>4, <1>5, <1>6, <1>7 DEF f, n

RegionFor(f) == IF f.attr \in {"auto", "pinned"} THEN "layout" ELSE f.attr
SlotsFor(f) == {RegionFor(f)} \X (f.slot..LastSlot(f))
BytesFor(f) == f.offset..(f.offset + f.bytes - 1)

\* Where a field's bytes are depends on the field alone.
LEMMA FieldPlace ==
  ASSUME NEW i
  PROVE  /\ Region(i) = RegionFor(fields[i])
         /\ SlotsOf(i) = SlotsFor(fields[i]) /\ BytesOf(i) = BytesFor(fields[i])
BY DEF Region, IsAuto, IsPinned, SlotsOf, BytesOf, RegionFor, SlotsFor, BytesFor, LastSlot

\* The same of the next state.
LEMMA FieldPlaceNext ==
  ASSUME NEW i
  PROVE  /\ Region(i)' = RegionFor(fields'[i])
         /\ SlotsOf(i)' = SlotsFor(fields'[i]) /\ BytesOf(i)' = BytesFor(fields'[i])
BY DEF Region, IsAuto, IsPinned, SlotsOf, BytesOf, RegionFor, SlotsFor, BytesFor, LastSlot

\* Declaring a field adds it behind the others and moves none of them.
LEMMA DeclareAppends ==
  ASSUME FieldsTypeOK, NEW f \in PlacedField, Declare(f)
  PROVE  LET k == Len(fields)
         IN /\ k \in Nat /\ Indices = 1..k /\ Indices' = 1..(k + 1)
            /\ fields' \in Seq(PlacedField) /\ fields'[k + 1] = f
            /\ \A i \in Indices : fields'[i] = fields[i] /\ fields[i] \in PlacedField
            /\ sealed = FALSE /\ sealed' = FALSE /\ ret' = ret
<1>1. fields \in Seq(PlacedField) /\ fields' = Append(fields, f)
  BY DEF FieldsTypeOK, Declare
<1>2. Len(fields) \in Nat /\ Indices = 1..Len(fields) /\ Indices' = 1..(Len(fields) + 1)
      /\ fields' \in Seq(PlacedField) /\ fields'[Len(fields) + 1] = f
      /\ \A i \in Indices : fields'[i] = fields[i] /\ fields[i] \in PlacedField
  BY <1>1 DEF Indices
<1>3. sealed = FALSE /\ sealed' = FALSE /\ ret' = ret
  BY DEF FieldsTypeOK, Declare
<1> QED BY <1>2, <1>3

\* A field declared clear of the others keeps the fields typed and apart.
LEMMA DeclarePlacement ==
  ASSUME PlacementInv, NEW f \in PlacedField, Declare(f),
         f.offset + f.bytes <= Width, Shaped(f),
         step' \in [next_slot : Nat, next_space : 0..Width],
         \A i \in Indices : SlotsFor(f) \intersect SlotsFor(fields[i]) = {}
                            \/ BytesFor(f) \intersect BytesFor(fields[i]) = {}
  PROVE  FieldsTypeOK' /\ Shapes' /\ FieldsDisjoint'
<1> DEFINE k == Len(fields)
<1>1. /\ k \in Nat /\ Indices = 1..k /\ Indices' = 1..(k + 1)
      /\ fields' \in Seq(PlacedField) /\ fields'[k + 1] = f
      /\ \A i \in Indices : fields'[i] = fields[i] /\ fields[i] \in PlacedField
      /\ sealed = FALSE /\ sealed' = FALSE /\ ret' = ret
  BY DeclareAppends DEF PlacementInv
<1>2. FieldsTypeOK'
  <2>1. ASSUME NEW i \in Indices' PROVE fields'[i].offset + fields'[i].bytes <= Width
    <3>1. CASE i = k + 1
      BY <1>1, <3>1
    <3>2. CASE i \in Indices
      BY <1>1, <3>2 DEF PlacementInv, FieldsTypeOK
    <3> QED BY <1>1, <3>1, <3>2
  <2> QED BY <1>1, <2>1 DEF FieldsTypeOK, PlacementInv
<1>3. Shapes'
  BY <1>1 DEF PlacementInv, Shapes
<1>4. FieldsDisjoint'
  <2>1. ASSUME NEW i \in Indices, NEW j \in Indices, i # j
        PROVE  \/ SlotsFor(fields[i]) \intersect SlotsFor(fields[j]) = {}
               \/ BytesFor(fields[i]) \intersect BytesFor(fields[j]) = {}
    <3>1. SlotsOf(i) \intersect SlotsOf(j) = {} \/ BytesOf(i) \intersect BytesOf(j) = {}
      BY <2>1 DEF PlacementInv, FieldsDisjoint
    <3> QED BY <3>1, FieldPlace
  <2>2. ASSUME NEW i \in Indices', NEW j \in Indices', i # j
        PROVE  \/ SlotsFor(fields'[i]) \intersect SlotsFor(fields'[j]) = {}
               \/ BytesFor(fields'[i]) \intersect BytesFor(fields'[j]) = {}
    <3>1. i \in Indices \union {k + 1} /\ j \in Indices \union {k + 1}
      BY <1>1
    <3>2. CASE i \in Indices /\ j \in Indices
      BY <1>1, <2>1, <2>2, <3>2
    <3>3. CASE i = k + 1 /\ j \in Indices
      BY <1>1, <3>3
    <3>4. CASE j = k + 1 /\ i \in Indices
      BY <1>1, <3>4
    <3> QED BY <2>2, <3>1, <3>2, <3>3, <3>4
  <2>3. ASSUME NEW i \in Indices', NEW j \in Indices', i # j
        PROVE  SlotsOf(i)' \intersect SlotsOf(j)' = {} \/ BytesOf(i)' \intersect BytesOf(j)' = {}
    <3>1. SlotsOf(i)' = SlotsFor(fields'[i]) /\ SlotsOf(j)' = SlotsFor(fields'[j])
          /\ BytesOf(i)' = BytesFor(fields'[i]) /\ BytesOf(j)' = BytesFor(fields'[j])
      BY FieldPlaceNext
    <3> QED BY <2>2, <2>3, <3>1
  <2> QED BY <2>3 DEF FieldsDisjoint
<1> QED BY <1>2, <1>3, <1>4

\* Fields in different regions, or in slots apart, share no slot.
LEMMA ApartFor ==
  ASSUME NEW f \in PlacedField, NEW g \in PlacedField,
         RegionFor(f) # RegionFor(g) \/ LastSlot(f) < g.slot \/ LastSlot(g) < f.slot
  PROVE  SlotsFor(f) \intersect SlotsFor(g) = {}
<1>1. /\ f.slot \in Nat /\ LastSlot(f) \in Nat /\ g.slot \in Nat /\ LastSlot(g) \in Nat
  BY FieldNumbers
<1>2. ASSUME NEW s \in SlotsFor(f), s \in SlotsFor(g) PROVE FALSE
  <2>1. s[1] = RegionFor(f) /\ s[2] \in f.slot..LastSlot(f)
    BY DEF SlotsFor
  <2>2. s[1] = RegionFor(g) /\ s[2] \in g.slot..LastSlot(g)
    BY <1>2 DEF SlotsFor
  <2> QED BY <1>1, <2>1, <2>2
<1> QED BY <1>2

\* The attributes of the fields of a struct, and the regions they select.
LEMMA Regions ==
  ASSUME NEW f \in PlacedField
  PROVE  /\ f.attr \in {"auto", "pinned"} => RegionFor(f) = "layout"
         /\ f.attr \notin {"auto", "pinned"} => RegionFor(f) = f.attr /\ f.attr # "layout"
BY FieldsAssumption DEF PlacedField, RegionFor

\* A field that is not of the chain leaves the chain's fields where they were.
LEMMA DeclareOther ==
  ASSUME PlacementInv, NEW f \in PlacedField, Declare(f), f.attr # "auto", step' = step
  PROVE  Behind'
<1>1. LET k == Len(fields)
      IN /\ k \in Nat /\ Indices = 1..k /\ Indices' = 1..(k + 1) /\ fields'[k + 1] = f
         /\ \A i \in Indices : fields'[i] = fields[i]
  BY DeclareAppends DEF PlacementInv
<1>2. ASSUME NEW i \in Indices', IsAuto(i)'
      PROVE  i \in Indices /\ fields'[i] = fields[i] /\ IsAuto(i)
  BY <1>1, <1>2 DEF IsAuto
<1> QED BY <1>2 DEF PlacementInv, Behind, LastSlot

\* A field of the chain goes behind the others of the chain, and no pinned
\* field is among them.
LEMMA PlacePlacement ==
  ASSUME PlacementInv, NEW t \in FieldTypes, Place(t)
  PROVE  FieldsTypeOK' /\ Behind' /\ Shapes' /\ FieldsDisjoint'
<1> DEFINE f == AutoField(t)
           k == Len(fields)
<1>1. /\ f \in PlacedField /\ f.offset + f.bytes <= Width /\ f.attr = "auto"
      /\ Shaped(f)
      /\ step' \in [next_slot : Nat, next_space : 0..Width]
      /\ LastSlot(f) = step'.next_slot /\ step'.next_space <= f.offset
      /\ step.next_slot <= f.slot
      /\ f.slot = step.next_slot => f.offset + f.bytes = step.next_space
      /\ step'.next_slot = step.next_slot => step'.next_space <= step.next_space
  BY StepPlaces DEF PlacementInv, Place
<1>2. Declare(f) /\ \A i \in Indices : ~IsPinned(i)
  BY DEF Place
<1> HIDE DEF f
<1>3. /\ k \in Nat /\ Indices = 1..k /\ Indices' = 1..(k + 1)
      /\ \A i \in Indices : fields'[i] = fields[i] /\ fields[i] \in PlacedField
      /\ fields'[k + 1] = f
  BY <1>1, <1>2, DeclareAppends DEF PlacementInv
<1>4. step.next_slot \in Nat /\ step.next_space \in Nat /\ step'.next_slot \in Nat /\ step'.next_space \in Nat
  BY <1>1 DEF PlacementInv, FieldsTypeOK
<1>5. Behind'
  <2>1. step.next_slot <= step'.next_slot
    BY <1>1, <1>4, FieldNumbers
  <2>2. ASSUME NEW i \in Indices', IsAuto(i)'
        PROVE  /\ LastSlot(fields'[i]) <= step'.next_slot
               /\ LastSlot(fields'[i]) = step'.next_slot => step'.next_space <= fields'[i].offset
    <3>1. CASE i = k + 1
      BY <1>1, <1>3, <1>4, <3>1
    <3>2. CASE i \in Indices
      <4>0. IsAuto(i) /\ fields'[i] = fields[i]
        BY <1>3, <2>2, <3>2 DEF IsAuto
      <4>1. /\ LastSlot(fields[i]) <= step.next_slot
            /\ LastSlot(fields[i]) = step.next_slot => step.next_space <= fields[i].offset
        BY <3>2, <4>0 DEF PlacementInv, Behind
      <4>2. LastSlot(fields[i]) \in Nat /\ fields[i].offset \in Nat
        BY <1>3, <3>2, FieldNumbers, FieldsAssumption
      <4> HIDE DEF LastSlot
      <4> QED BY <1>1, <1>4, <2>1, <4>0, <4>1, <4>2
    <3> QED BY <1>3, <3>1, <3>2
  <2> QED BY <2>2 DEF Behind, LastSlot
<1>6. ASSUME NEW i \in Indices
      PROVE  \/ SlotsFor(f) \intersect SlotsFor(fields[i]) = {}
             \/ BytesFor(f) \intersect BytesFor(fields[i]) = {}
  <2> DEFINE g == fields[i]
  <2>1. g \in PlacedField /\ g.attr # "pinned"
    BY <1>2, <1>3 DEF IsPinned
  <2>2. CASE g.attr # "auto"
    BY <1>1, <2>1, <2>2, Regions, ApartFor
  <2>3. CASE g.attr = "auto"
    <3>1. /\ LastSlot(g) <= step.next_slot
          /\ LastSlot(g) = step.next_slot => step.next_space <= g.offset
      BY <2>3 DEF PlacementInv, Behind, IsAuto
    <3>2. /\ LastSlot(g) \in Nat /\ g.offset \in Nat /\ g.bytes \in Nat
          /\ f.slot \in Nat /\ f.offset \in Nat /\ f.bytes \in Nat
      BY <1>1, <2>1, FieldNumbers, FieldsAssumption
    <3>3. CASE LastSlot(g) < f.slot
      BY <1>1, <2>1, <3>3, ApartFor
    <3>4. CASE ~(LastSlot(g) < f.slot)
      <4>1. f.offset + f.bytes <= g.offset
        BY <1>1, <1>4, <3>1, <3>2, <3>4
      <4> QED BY <3>2, <4>1 DEF BytesFor
    <3> QED BY <3>3, <3>4
  <2> QED BY <2>2, <2>3
<1> QED BY <1>1, <1>2, <1>5, <1>6, DeclarePlacement

\* A pinned field is clear of the pinned ones, and no field of the chain is
\* among them.
LEMMA PinPlacement ==
  ASSUME PlacementInv, NEW t \in FieldTypes, NEW n \in PinnedSlots, Pin(t, n)
  PROVE  FieldsTypeOK' /\ Behind' /\ Shapes' /\ FieldsDisjoint'
<1> DEFINE f == [attr |-> "pinned", slot |-> n, offset |-> 0, bytes |-> Width, slots |-> t.slots]
<1>1. /\ f \in PlacedField /\ f.offset + f.bytes <= Width /\ f.attr = "pinned"
      /\ Shaped(f) /\ f.slot = n /\ f.slots = t.slots
      /\ n \in Nat /\ t.slots \in Nat
  BY FieldsAssumption DEF PlacedField, Positions, Shaped
<1>2. Declare(f) /\ step' = step
      /\ \A i \in Indices : ~IsAuto(i) /\ (IsPinned(i) => ClearOf(i, n, t.slots))
  BY DEF Pin
<1> HIDE DEF f
<1>3. ASSUME NEW i \in Indices
      PROVE  SlotsFor(f) \intersect SlotsFor(fields[i]) = {}
  <2> DEFINE g == fields[i]
  <2>1. g \in PlacedField /\ g.attr # "auto"
    BY <1>1, <1>2, DeclareAppends DEF PlacementInv, IsAuto
  <2>2. CASE g.attr = "pinned"
    <3>1. ~(g.slot < n + t.slots /\ n < g.slot + g.slots)
      BY <1>2, <2>2 DEF IsPinned, ClearOf
    <3>2. LastSlot(f) < g.slot \/ LastSlot(g) < f.slot
      <4>1. g.slot \in Nat /\ g.slots \in Nat
        BY <2>1, FieldNumbers
      <4> HIDE DEF g
      <4> QED BY <1>1, <3>1, <4>1 DEF LastSlot
    <3> QED BY <1>1, <2>1, <3>2, ApartFor
  <2>3. CASE g.attr # "pinned"
    BY <1>1, <2>1, <2>3, Regions, ApartFor
  <2> QED BY <2>2, <2>3
<1>4. step' \in [next_slot : Nat, next_space : 0..Width]
  BY <1>2 DEF PlacementInv, FieldsTypeOK
<1> QED BY <1>1, <1>2, <1>3, <1>4, DeclarePlacement, DeclareOther

\* A raw field is at a key that no other field of the struct has.
LEMMA RawPlacement ==
  ASSUME PlacementInv, NEW t \in FieldTypes, NEW key \in RawKeys, BindRaw(t, key)
  PROVE  FieldsTypeOK' /\ Behind' /\ Shapes' /\ FieldsDisjoint'
<1> DEFINE f == [attr |-> key, slot |-> 0, offset |-> Width - t.bytes, bytes |-> t.bytes, slots |-> t.slots]
<1>1. t.bytes \in 1..Width /\ t.slots \in Nat \ {0} /\ t.slots > 1 => t.bytes = Width
  BY FieldsAssumption
<1>2. /\ f \in PlacedField /\ f.offset + f.bytes <= Width /\ Shaped(f)
      /\ f.attr = key /\ f.attr # "auto" /\ f.attr # "pinned" /\ f.attr # "layout"
  BY <1>1, FieldsAssumption DEF PlacedField, Positions, Shaped
<1>3. Declare(f) /\ step' = step /\ \A i \in Indices : fields[i].attr # key
  BY DEF BindRaw
<1> HIDE DEF f
<1>4. ASSUME NEW i \in Indices
      PROVE  SlotsFor(f) \intersect SlotsFor(fields[i]) = {}
  <2>1. fields[i] \in PlacedField /\ fields[i].attr # f.attr
    BY <1>2, <1>3, DeclareAppends DEF PlacementInv
  <2>2. RegionFor(f) # RegionFor(fields[i])
    BY <1>2, <2>1, Regions
  <2> QED BY <1>2, <2>1, <2>2, ApartFor
<1>5. step' \in [next_slot : Nat, next_space : 0..Width]
  BY <1>3 DEF PlacementInv, FieldsTypeOK
<1> QED BY <1>2, <1>3, <1>4, <1>5, DeclarePlacement, DeclareOther

\* Sealing moves no field.
LEMMA SealPlacement ==
  ASSUME PlacementInv, Seal
  PROVE  FieldsTypeOK' /\ Behind' /\ Shapes' /\ FieldsDisjoint'
<1>1. fields' = fields /\ step' = step /\ ret' = ret /\ sealed' = TRUE
  BY DEF Seal
<1>2. SlotsInUse' = SlotsInUse
  BY <1>1 DEF SlotsInUse, SlotsOf, Region, IsAuto, IsPinned, Indices
<1>3. storage' \in [SlotsInUse -> [Positions -> Words]]
  BY FieldsAssumption DEF Seal, ZeroSlot
<1>4. FieldsTypeOK'
  BY <1>1, <1>2, <1>3 DEF PlacementInv, FieldsTypeOK, Indices
<1>5. Behind' /\ Shapes' /\ FieldsDisjoint'
  BY <1>1 DEF PlacementInv, Indices, Behind, Shapes, FieldsDisjoint, SlotsOf, BytesOf, Region, IsAuto, IsPinned
<1> QED BY <1>4, <1>5

\* A field's bytes lie in a slot; a field of several slots fills them.
LEMMA FieldBytes ==
  ASSUME PlacementInv, NEW i \in Indices
  PROVE  /\ BytesOf(i) \subseteq Positions /\ fields[i].offset \in BytesOf(i)
         /\ fields[i].slots > 1 \/ fields[i].attr = "pinned" => BytesOf(i) = Positions
         /\ fields[i].attr # "auto" => Width - 1 \in BytesOf(i)
<1>1. fields[i] \in PlacedField /\ fields[i].offset + fields[i].bytes <= Width /\ Width \in Nat
  BY FieldsAssumption DEF PlacementInv, FieldsTypeOK, Indices
<1>2. fields[i].offset \in 0..(Width - 1) /\ fields[i].bytes \in 1..Width
  BY <1>1, FieldNumbers
<1>3. Positions = 0..(Width - 1)
  BY DEF Positions
<1>4. BytesOf(i) = fields[i].offset..(fields[i].offset + fields[i].bytes - 1)
  BY DEF BytesOf
<1>5. BytesOf(i) \subseteq Positions /\ fields[i].offset \in BytesOf(i)
  BY <1>1, <1>2, <1>3, <1>4
<1>6. ASSUME fields[i].slots > 1 \/ fields[i].attr = "pinned"
      PROVE  BytesOf(i) = Positions
  <2>1. fields[i].bytes = Width /\ fields[i].offset = 0
    BY <1>1, <1>2, <1>6 DEF PlacementInv, Shapes, Shaped
  <2> QED BY <1>1, <1>2, <1>3, <1>4, <2>1
<1>7. ASSUME fields[i].attr # "auto"
      PROVE  Width - 1 \in BytesOf(i)
  <2>1. fields[i].offset + fields[i].bytes = Width
    BY <1>7 DEF PlacementInv, Shapes, Shaped
  <2> QED BY <1>1, <1>2, <1>3, <1>4, <2>1
<1> QED BY <1>5, <1>6, <1>7

\* The struct's storage has the slots of every field.
LEMMA FieldSlots ==
  ASSUME PlacementInv, NEW i \in Indices
  PROVE  SlotsOf(i) \subseteq SlotsInUse /\ <<Region(i), fields[i].slot>> \in SlotsOf(i)
<1>1. fields[i] \in PlacedField /\ step.next_slot \in Nat
  BY DEF PlacementInv, FieldsTypeOK, Indices
<1>2. /\ fields[i].slot \in Nat /\ LastSlot(fields[i]) \in Nat
      /\ fields[i].slot <= LastSlot(fields[i])
  BY <1>1, FieldNumbers
<1>3. SlotsOf(i) = {Region(i)} \X (fields[i].slot..LastSlot(fields[i]))
  BY DEF SlotsOf, LastSlot
<1>4. CASE IsAuto(i)
  <2>1. LastSlot(fields[i]) <= step.next_slot /\ Region(i) = "layout"
    BY <1>4 DEF PlacementInv, Behind, Region
  <2>2. fields[i].slot..LastSlot(fields[i]) \subseteq 0..step.next_slot
    BY <1>1, <1>2, <2>1
  <2> QED BY <1>2, <1>3, <2>1, <2>2 DEF SlotsInUse
<1>5. CASE ~IsAuto(i)
  BY <1>2, <1>3, <1>5 DEF SlotsInUse
<1> QED BY <1>4, <1>5

\* The slots and bytes of a field exist in storage.
LEMMA FieldInStorage ==
  ASSUME PlacementInv, sealed, NEW i \in Indices
  PROVE  /\ SlotsOf(i) \subseteq DOMAIN storage
         /\ BytesOf(i) \subseteq Positions
         /\ <<Region(i), fields[i].slot>> \in SlotsOf(i) /\ fields[i].offset \in BytesOf(i)
<1>1. DOMAIN storage = SlotsInUse
  BY DEF PlacementInv, FieldsTypeOK
<1> QED BY <1>1, FieldSlots, FieldBytes

\* A write leaves slots of words.
LEMMA WrittenTyped ==
  ASSUME PlacementInv, sealed, NEW i \in Indices, NEW w \in Words
  PROVE  Written(i, w) \in [SlotsInUse -> [Positions -> Words]]
<1>1. storage \in [SlotsInUse -> [Positions -> Words]] /\ Zero \in Words
  BY FieldsAssumption DEF PlacementInv, FieldsTypeOK
<1> QED BY <1>1 DEF Written

\* A read returns words.
LEMMA SeenTyped ==
  ASSUME PlacementInv, sealed, NEW i \in Indices
  PROVE  Seen(i) \subseteq Words
<1>1. storage \in [SlotsInUse -> [Positions -> Words]]
  BY DEF PlacementInv, FieldsTypeOK
<1>2. \A s \in SlotsOf(i), p \in BytesOf(i) : storage[s][p] \in Words
  BY <1>1, FieldInStorage
<1> QED BY <1>2 DEF Seen

\* What changes neither the fields nor the chain keeps their placement.
LEMMA SamePlacement ==
  ASSUME PlacementInv, fields' = fields, step' = step, sealed' = sealed, ret'.out \subseteq Words,
         sealed => storage' \in [SlotsInUse -> [Positions -> Words]]
  PROVE  FieldsTypeOK' /\ Behind' /\ Shapes' /\ FieldsDisjoint'
<1>1. SlotsInUse' = SlotsInUse
  BY DEF SlotsInUse, SlotsOf, Region, IsAuto, IsPinned, Indices
<1>2. FieldsTypeOK'
  BY <1>1 DEF PlacementInv, FieldsTypeOK, Indices
<1>3. Behind' /\ Shapes' /\ FieldsDisjoint'
  BY DEF PlacementInv, Indices, Behind, Shapes, FieldsDisjoint, SlotsOf, BytesOf, Region, IsAuto, IsPinned
<1> QED BY <1>2, <1>3

\* Using a sealed struct changes storage and the answer, never the placement.
LEMMA UsePlacement ==
  ASSUME PlacementInv, NEW answer, NEW st, Uses(answer, st),
         st \in [SlotsInUse -> [Positions -> Words]], answer.out \subseteq Words
  PROVE  FieldsTypeOK' /\ Behind' /\ Shapes' /\ FieldsDisjoint'
<1>1. fields' = fields /\ step' = step /\ sealed' = sealed /\ storage' = st /\ ret' = answer
  BY DEF Uses
<1> QED BY <1>1, SamePlacement

\* The placement invariant is inductive.
LEMMA NextPlacement == PlacementInv /\ [FieldsNext]_fieldsVars => PlacementInv'
<1> SUFFICES ASSUME PlacementInv, [FieldsNext]_fieldsVars PROVE PlacementInv'
  OBVIOUS
<1> SUFFICES FieldsTypeOK' /\ Behind' /\ Shapes' /\ FieldsDisjoint'
  BY DEF PlacementInv
<1>1. ASSUME NEW t \in FieldTypes,
             Place(t) \/ (\E n \in PinnedSlots : Pin(t, n)) \/ (\E key \in RawKeys : BindRaw(t, key))
      PROVE  FieldsTypeOK' /\ Behind' /\ Shapes' /\ FieldsDisjoint'
  BY <1>1, PlacePlacement, PinPlacement, RawPlacement
<1>2. CASE Seal
  BY <1>2, SealPlacement
<1>3. ASSUME NEW i \in Indices,
             (\E w \in Words : Set(i, w)) \/ Clear(i) \/ Take(i) \/ Get(i)
      PROVE  FieldsTypeOK' /\ Behind' /\ Shapes' /\ FieldsDisjoint'
  <2>1. sealed /\ Zero \in Words
    BY <1>3, FieldsAssumption DEF Set, Clear, Take, Get, Uses
  <2>2. ASSUME NEW w \in Words, Set(i, w) PROVE FieldsTypeOK' /\ Behind' /\ Shapes' /\ FieldsDisjoint'
    BY <2>1, <2>2, WrittenTyped, UsePlacement DEF Set, Answer
  <2>3. CASE Clear(i)
    BY <2>1, <2>3, WrittenTyped, UsePlacement DEF Clear, Cleared, Answer
  <2>4. CASE Take(i)
    BY <2>1, <2>4, WrittenTyped, SeenTyped, UsePlacement DEF Take, Cleared, Answer
  <2>5. CASE Get(i)
    <3>1. storage \in [SlotsInUse -> [Positions -> Words]]
      BY <2>1 DEF PlacementInv, FieldsTypeOK
    <3> QED BY <2>1, <2>5, <3>1, SeenTyped, UsePlacement DEF Get, Answer
  <2> QED BY <1>3, <2>2, <2>3, <2>4, <2>5
<1>4. CASE ClearAll
  <2>1. sealed /\ Zero \in Words
    BY <1>4, FieldsAssumption DEF ClearAll, Uses
  <2>2. storage \in [SlotsInUse -> [Positions -> Words]]
    BY <2>1 DEF PlacementInv, FieldsTypeOK
  <2>3. storage' \in [SlotsInUse -> [Positions -> Words]] /\ Uses(Answer("clear_all", 0, {}), storage')
    BY <1>4, <2>1, <2>2 DEF ClearAll, Uses
  <2> QED BY <2>3, UsePlacement DEF Answer
<1>5. CASE UNCHANGED fieldsVars
  BY <1>5, SamePlacement DEF fieldsVars, PlacementInv, FieldsTypeOK
<1> QED BY <1>1, <1>2, <1>3, <1>4, <1>5 DEF FieldsNext

\* Fields stay behind one another, typed and apart (layout_step).
THEOREM Placement == FieldsSpec => []PlacementInv
BY InitPlacement, NextPlacement, PTL DEF FieldsSpec

\* layout_step and the field accesses keep their types; in particular the
\* subtraction of a field's bytes from the space left never underflows.
THEOREM FieldsTypeCorrect == FieldsSpec => []FieldsTypeOK
<1>1. PlacementInv => FieldsTypeOK
  BY DEF PlacementInv
<1> QED BY <1>1, Placement, PTL

\* The chain of layout_step never gives a byte to two fields, whatever their
\* widths, spans and order.
THEOREM FieldsNeverOverlap == FieldsSpec => []FieldsDisjoint
<1>1. PlacementInv => FieldsDisjoint
  BY DEF PlacementInv
<1> QED BY <1>1, Placement, PTL

-----------------------------------------------------------------------------
(* The record                                                              *)

\* An empty struct satisfies the record invariant.
LEMMA InitRecord == FieldsInit => RecordInv
<1> SUFFICES ASSUME FieldsInit PROVE RecordInv
  OBVIOUS
<1>1. Indices = {} /\ sealed = FALSE
  BY DEF FieldsInit, Indices
<1> QED BY <1>1, InitPlacement DEF RecordInv, Ordered, ChainHasNeighbours, Uniform

\* The alone flag looks at the neighbours in the chain only.  That is enough,
\* because the chain's order is storage order, a pinned field fills its slots
\* and a raw one ends its own.
LEMMA AloneIsAlone ==
  ASSUME PlacementInv, Ordered, ChainHasNeighbours,
         NEW i \in Indices, NEW j \in Indices, i # j, Alone(i)
  PROVE  SlotsOf(i) \intersect SlotsOf(j) = {}
<1> SUFFICES ASSUME NEW s \in SlotsOf(i), s \in SlotsOf(j) PROVE FALSE
  OBVIOUS
<1>1. /\ fields[i] \in PlacedField /\ fields[j] \in PlacedField
      /\ Len(fields) \in Nat /\ Indices = 1..Len(fields)
      /\ \A k \in Indices : fields[k].slot \in Nat
  BY FieldNumbers DEF PlacementInv, FieldsTypeOK, Indices
<1>2. /\ fields[i].slot \in Nat /\ fields[i].slots \in Nat \ {0}
      /\ fields[j].slot \in Nat /\ fields[j].slots \in Nat \ {0}
      /\ fields[i].offset \in 0..(Width - 1)
      /\ fields[j].offset \in 0..(Width - 1)
  BY <1>1, FieldNumbers
<1>3. BytesOf(i) \intersect BytesOf(j) = {}
  BY DEF PlacementInv, FieldsDisjoint
<1>4. /\ fields[i].slots = 1 /\ fields[i].attr # "pinned"
      /\ fields[j].slots = 1 /\ fields[j].attr # "pinned"
      /\ IsAuto(i) \/ IsAuto(j)
  <2>1. BytesOf(i) # Positions /\ BytesOf(j) # Positions
    BY <1>3, FieldBytes
  <2>2. IsAuto(i) \/ IsAuto(j)
    BY <1>3, FieldBytes DEF IsAuto
  <2> QED BY <1>2, <2>1, <2>2, FieldBytes
<1>5. /\ s[1] = Region(i) /\ s[1] = Region(j)
      /\ s[2] = fields[i].slot /\ s[2] = fields[j].slot
  BY <1>2, <1>4 DEF SlotsOf
<1>6. IsAuto(i) /\ IsAuto(j)
  BY <1>1, <1>4, <1>5, Regions, FieldPlace DEF IsAuto
<1>7. CASE i < j
  <2>1. PICK k \in Indices : i < k /\ k <= j /\ Neighbours(i, k)
    BY <1>6, <1>7 DEF ChainHasNeighbours
  <2>2. IsAuto(k) /\ fields[k].slot # fields[i].slot
    BY <1>6, <2>1 DEF Alone, Neighbours
  <2>3. fields[i].slot <= fields[k].slot /\ fields[k].slot <= fields[j].slot
    BY <1>1, <1>6, <2>1, <2>2 DEF Ordered
  <2> QED BY <1>1, <1>5, <2>1, <2>2, <2>3
<1>8. CASE j < i
  <2>1. PICK k \in Indices : j <= k /\ k < i /\ Neighbours(i, k)
    BY <1>6, <1>8 DEF ChainHasNeighbours
  <2>2. IsAuto(k) /\ fields[k].slot # fields[i].slot
    BY <1>6, <2>1 DEF Alone, Neighbours
  <2>3. fields[k].slot <= fields[i].slot /\ fields[j].slot <= fields[k].slot
    BY <1>1, <1>6, <2>1, <2>2 DEF Ordered
  <2> QED BY <1>1, <1>5, <2>1, <2>2, <2>3
<1> QED BY <1>1, <1>7, <1>8

\* Every path of Lazy::set gives its own field the word, in all its bytes, and
\* leaves the bytes of the other fields alone.
LEMMA WriteIsLocal ==
  ASSUME RecordInv, sealed, NEW i \in Indices, NEW w, NEW j \in Indices,
         NEW s \in SlotsOf(j), NEW p \in BytesOf(j)
  PROVE  Written(i, w)[s][p] = IF j = i THEN w ELSE storage[s][p]
<1>1. s \in DOMAIN storage /\ p \in Positions
  BY FieldInStorage DEF RecordInv
<1>2. CASE j = i
  BY <1>1, <1>2 DEF Written
<1>3. CASE j # i
  <2>1. CASE s \notin SlotsOf(i)
    BY <1>1, <1>3, <2>1 DEF Written
  <2>2. CASE s \in SlotsOf(i)
    <3>1. p \notin BytesOf(i)
      BY <1>3, <2>2 DEF RecordInv, PlacementInv, FieldsDisjoint
    <3>2. ~Alone(i)
      BY <1>3, <2>2, AloneIsAlone DEF RecordInv
    <3> QED BY <1>1, <1>3, <2>2, <3>1, <3>2 DEF Written
  <2> QED BY <2>1, <2>2
<1> QED BY <1>2, <1>3

\* What a read sees is the field's value.
LEMMA SeenIsValue ==
  ASSUME RecordInv, sealed, NEW i \in Indices
  PROVE  Seen(i) = {Value(i)}
<1>1. <<Region(i), fields[i].slot>> \in SlotsOf(i) /\ fields[i].offset \in BytesOf(i)
  BY FieldInStorage DEF RecordInv
<1>2. \A s \in SlotsOf(i), p \in BytesOf(i) : storage[s][p] = Value(i)
  BY DEF RecordInv, Uniform
<1> QED BY <1>1, <1>2 DEF Seen

\* A write changes one value and keeps every field uniform.
LEMMA WriteEffect ==
  ASSUME RecordInv, sealed, NEW i \in Indices, NEW w,
         storage' = Written(i, w), fields' = fields, sealed' = sealed
  PROVE  Uniform' /\ \A j \in Indices : Value(j)' = IF j = i THEN w ELSE Value(j)
<1>1. ASSUME NEW j \in Indices, NEW s \in SlotsOf(j), NEW p \in BytesOf(j)
      PROVE  storage'[s][p] = IF j = i THEN w ELSE Value(j)
  <2>1. storage'[s][p] = IF j = i THEN w ELSE storage[s][p]
    BY <1>1, WriteIsLocal
  <2>2. storage[s][p] = Value(j)
    BY <1>1 DEF RecordInv, Uniform
  <2> QED BY <2>1, <2>2
<1>2. ASSUME NEW j \in Indices
      PROVE  Value(j)' = IF j = i THEN w ELSE Value(j)
  <2>1. <<Region(j), fields[j].slot>> \in SlotsOf(j) /\ fields[j].offset \in BytesOf(j)
    BY FieldInStorage DEF RecordInv
  <2>2. Value(j)' = storage'[<<Region(j), fields[j].slot>>][fields[j].offset]
    BY DEF Value, Region, IsAuto, IsPinned
  <2> QED BY <1>1, <2>1, <2>2
<1>3. Indices' = Indices
  BY DEF Indices
<1>4. ASSUME NEW j \in Indices
      PROVE  SlotsOf(j)' = SlotsOf(j) /\ BytesOf(j)' = BytesOf(j)
  BY DEF SlotsOf, BytesOf, Region, IsAuto, IsPinned
<1>5. ASSUME NEW j \in Indices', NEW s \in SlotsOf(j)', NEW p \in BytesOf(j)'
      PROVE  storage'[s][p] = Value(j)'
  <2>1. j \in Indices /\ s \in SlotsOf(j) /\ p \in BytesOf(j)
    BY <1>3, <1>4, <1>5
  <2> QED BY <1>1, <1>2, <2>1
<1> QED BY <1>2, <1>5 DEF Uniform

\* clear of the whole struct zeroes every byte of every field.
LEMMA ClearAllEffect ==
  ASSUME RecordInv, ClearAll
  PROVE  Uniform' /\ \A j \in Indices : Value(j)' = Zero
<1>1. /\ sealed /\ sealed' = sealed /\ fields' = fields /\ Indices' = Indices
      /\ storage' = [s \in DOMAIN storage |-> [p \in Positions |->
                       IF \E i \in Indices : s \in SlotsOf(i) /\ (p \in BytesOf(i) \/ Alone(i))
                       THEN Zero ELSE storage[s][p]]]
  BY DEF ClearAll, Uses, Indices
<1>2. ASSUME NEW j \in Indices, NEW s \in SlotsOf(j), NEW p \in BytesOf(j)
      PROVE  storage'[s][p] = Zero
  <2>1. s \in DOMAIN storage /\ p \in Positions
    BY <1>1, <1>2, FieldInStorage DEF RecordInv
  <2> QED BY <1>1, <1>2, <2>1
<1>3. ASSUME NEW j \in Indices
      PROVE  /\ SlotsOf(j)' = SlotsOf(j) /\ BytesOf(j)' = BytesOf(j)
             /\ Value(j)' = storage'[<<Region(j), fields[j].slot>>][fields[j].offset]
  BY <1>1 DEF SlotsOf, BytesOf, Region, IsAuto, IsPinned, Value
<1>4. ASSUME NEW j \in Indices PROVE Value(j)' = Zero
  <2>1. <<Region(j), fields[j].slot>> \in SlotsOf(j) /\ fields[j].offset \in BytesOf(j)
    BY <1>1, FieldInStorage DEF RecordInv
  <2> QED BY <1>2, <1>3, <2>1
<1>5. ASSUME NEW j \in Indices', NEW s \in SlotsOf(j)', NEW p \in BytesOf(j)'
      PROVE  storage'[s][p] = Value(j)'
  <2>1. j \in Indices /\ s \in SlotsOf(j) /\ p \in BytesOf(j)
    BY <1>1, <1>3, <1>5
  <2> QED BY <1>2, <1>4, <2>1
<1> QED BY <1>4, <1>5 DEF Uniform

\* Sealing starts every field at zero.
LEMMA SealEffect ==
  ASSUME RecordInv, Seal
  PROVE  Uniform' /\ Indices' = Indices /\ \A j \in Indices : Value(j)' = Zero
<1>1. sealed' /\ fields' = fields /\ storage' = [s \in SlotsInUse |-> ZeroSlot] /\ Indices' = Indices
  BY SealPlacement DEF Seal, Indices
<1>2. ASSUME NEW j \in Indices
      PROVE  /\ SlotsOf(j)' \subseteq SlotsInUse /\ BytesOf(j)' \subseteq Positions
             /\ <<Region(j), fields[j].slot>> \in SlotsOf(j)' /\ fields[j].offset \in BytesOf(j)'
  <2>1. SlotsOf(j)' = SlotsOf(j) /\ BytesOf(j)' = BytesOf(j)
    BY <1>1 DEF SlotsOf, BytesOf, Region, IsAuto, IsPinned
  <2> QED BY <2>1, FieldSlots, FieldBytes DEF RecordInv
<1>3. ASSUME NEW j \in Indices, NEW s \in SlotsOf(j)', NEW p \in BytesOf(j)'
      PROVE  storage'[s][p] = Zero
  <2>1. s \in SlotsInUse /\ p \in Positions
    BY <1>2, <1>3
  <2> QED BY <1>1, <2>1 DEF ZeroSlot
<1>4. ASSUME NEW j \in Indices PROVE Value(j)' = Zero
  <2>1. Value(j)' = storage'[<<Region(j), fields[j].slot>>][fields[j].offset]
    BY <1>1 DEF Value, Region, IsAuto, IsPinned
  <2> QED BY <1>2, <1>3, <2>1
<1> QED BY <1>1, <1>3, <1>4 DEF Uniform

\* Declaring one more field keeps the neighbours of the chain: a field that
\* joins it has the last one before it.
LEMMA DeclareKeepsNeighbours ==
  ASSUME RecordInv, NEW f \in PlacedField, Declare(f)
  PROVE  ChainHasNeighbours'
<1>0. PICK k \in Nat : k = Len(fields)
  BY DeclareAppends DEF RecordInv, PlacementInv
<1>1. /\ Indices = 1..k /\ Indices' = 1..(k + 1) /\ fields'[k + 1] = f
      /\ \A i \in Indices : fields'[i] = fields[i]
  BY <1>0, DeclareAppends DEF RecordInv, PlacementInv
<1>2. /\ \A i \in Indices : IsAuto(i)' <=> IsAuto(i)
      /\ IsAuto(k + 1)' <=> f.attr = "auto"
  BY <1>1 DEF IsAuto
<1>3. ASSUME NEW i \in Indices', IsAuto(i)'
      PROVE  \E l \in Indices' : IsAuto(l)' /\ \A m \in Indices' : IsAuto(m)' => m <= l
  <2>1. CASE IsAuto(k + 1)'
    BY <1>1, <2>1
  <2>2. CASE ~IsAuto(k + 1)'
    <3>1. i \in Indices /\ IsAuto(i)
      BY <1>1, <1>2, <1>3, <2>2
    <3>2. PICK l \in Indices : IsAuto(l) /\ \A m \in Indices : IsAuto(m) => m <= l
      BY <3>1 DEF RecordInv, ChainHasNeighbours
    <3> QED BY <1>1, <1>2, <2>2, <3>2
  <2> QED BY <2>1, <2>2
<1>4. ASSUME NEW i \in Indices, NEW j \in Indices, Neighbours(i, j)
      PROVE  Neighbours(i, j)'
  BY <1>1, <1>2, <1>4 DEF Neighbours
<1>5. ASSUME NEW i \in Indices, IsAuto(i), IsAuto(k + 1)'
      PROVE  \E l \in Indices : IsAuto(l) /\ i <= l /\ Neighbours(k + 1, l)' /\ Neighbours(l, k + 1)'
  <2>1. PICK l \in Indices : IsAuto(l) /\ \A m \in Indices : IsAuto(m) => m <= l
    BY <1>5 DEF RecordInv, ChainHasNeighbours
  <2>2. \A m \in Indices' : IsAuto(m)' => m <= l \/ m = k + 1
    BY <1>1, <1>2, <2>1
  <2>3. Neighbours(k + 1, l)' /\ Neighbours(l, k + 1)'
    BY <1>1, <1>2, <1>5, <2>1, <2>2 DEF Neighbours
  <2> QED BY <1>5, <2>1, <2>3
<1>6. ASSUME NEW i \in Indices', NEW j \in Indices', IsAuto(i)', IsAuto(j)', i < j
      PROVE  /\ \E l \in Indices' : i < l /\ l <= j /\ Neighbours(i, l)'
             /\ \E l \in Indices' : i <= l /\ l < j /\ Neighbours(j, l)'
  <2>1. i \in Indices /\ IsAuto(i)
    BY <1>1, <1>2, <1>6
  <2>2. CASE j \in Indices
    <3>1. IsAuto(j)
      BY <1>2, <1>6, <2>2
    <3>2. /\ \E l \in Indices : i < l /\ l <= j /\ Neighbours(i, l)
          /\ \E l \in Indices : i <= l /\ l < j /\ Neighbours(j, l)
      BY <1>6, <2>1, <2>2, <3>1 DEF RecordInv, ChainHasNeighbours
    <3> QED BY <1>1, <1>4, <2>1, <2>2, <3>2
  <2>3. CASE j = k + 1
    <3>1. PICK l \in Indices : IsAuto(l) /\ i <= l /\ Neighbours(k + 1, l)' /\ Neighbours(l, k + 1)'
      BY <1>5, <1>6, <2>1, <2>3
    <3>2. l \in Indices' /\ l < j
      BY <1>1, <2>3, <3>1
    <3>3. CASE i = l
      BY <1>6, <2>3, <3>1, <3>2, <3>3
    <3>4. CASE i < l
      <4>1. PICK n \in Indices : i < n /\ n <= l /\ Neighbours(i, n)
        BY <2>1, <3>1, <3>4 DEF RecordInv, ChainHasNeighbours
      <4>2. Neighbours(i, n)' /\ n \in Indices' /\ i < n /\ n <= j
        BY <1>1, <1>4, <2>1, <2>3, <3>1, <4>1
      <4> QED BY <2>3, <3>1, <3>2, <3>4, <4>2
    <3> QED BY <1>1, <2>1, <3>1, <3>3, <3>4
  <2> QED BY <1>1, <2>2, <2>3
<1> QED BY <1>3, <1>6 DEF ChainHasNeighbours

\* A struct that is being declared keeps its chain in order.
LEMMA DeclareEffect ==
  ASSUME RecordInv, NEW f \in PlacedField, Declare(f),
         f.attr = "auto" => step.next_slot <= f.slot
  PROVE  /\ Ordered' /\ ChainHasNeighbours' /\ Uniform'
         /\ sealed = FALSE /\ sealed' = FALSE /\ Len(fields) \in Nat
         /\ Indices = 1..Len(fields) /\ Indices' = 1..(Len(fields) + 1) /\ ret' = ret
<1> DEFINE k == Len(fields)
<1>1. /\ k \in Nat /\ Indices = 1..k /\ Indices' = 1..(k + 1) /\ fields'[k + 1] = f
      /\ \A i \in Indices : fields'[i] = fields[i] /\ fields[i] \in PlacedField
      /\ sealed = FALSE /\ sealed' = FALSE /\ ret' = ret
      /\ step.next_slot \in Nat
  BY DeclareAppends DEF RecordInv, PlacementInv, FieldsTypeOK
<1> HIDE DEF k
<1>2. ASSUME NEW i \in Indices', NEW j \in Indices', IsAuto(i)', IsAuto(j)', i < j
      PROVE  fields'[i].slot <= fields'[j].slot
  <2>1. i \in Indices /\ IsAuto(i) /\ fields'[i] = fields[i]
    BY <1>1, <1>2 DEF IsAuto
  <2>2. CASE j \in Indices
    BY <1>1, <1>2, <2>1, <2>2 DEF RecordInv, Ordered, IsAuto
  <2>3. CASE j = k + 1
    <3>1. fields[i].slot \in Nat /\ LastSlot(fields[i]) \in Nat /\ fields[i].slot <= LastSlot(fields[i])
      BY <1>1, <2>1, FieldNumbers
    <3>2. LastSlot(fields[i]) <= step.next_slot
      BY <2>1 DEF RecordInv, PlacementInv, Behind
    <3>3. f.slot \in Nat /\ step.next_slot <= f.slot
      BY <1>1, <1>2, <2>3, FieldNumbers DEF IsAuto
    <3> QED BY <1>1, <2>1, <2>3, <3>1, <3>2, <3>3
  <2> QED BY <1>1, <2>2, <2>3
<1>3. Ordered' /\ Uniform'
  BY <1>1, <1>2 DEF Ordered, Uniform
<1> QED BY <1>1, <1>3, DeclareKeepsNeighbours DEF k

\* The same for each way to declare a field.
LEMMA DeclarationEffect ==
  ASSUME RecordInv, NEW t \in FieldTypes,
         Place(t) \/ (\E n \in PinnedSlots : Pin(t, n)) \/ (\E key \in RawKeys : BindRaw(t, key))
  PROVE  /\ Ordered' /\ ChainHasNeighbours' /\ Uniform'
         /\ sealed = FALSE /\ sealed' = FALSE /\ Len(fields) \in Nat
         /\ Indices = 1..Len(fields) /\ Indices' = 1..(Len(fields) + 1) /\ ret' = ret
<1>1. CASE Place(t)
  BY <1>1, StepPlaces, DeclareEffect DEF RecordInv, PlacementInv, Place
<1>2. ASSUME NEW n \in PinnedSlots, Pin(t, n)
      PROVE  \E f \in PlacedField : Declare(f) /\ f.attr # "auto"
  <2> DEFINE f == [attr |-> "pinned", slot |-> n, offset |-> 0, bytes |-> Width, slots |-> t.slots]
  <2>1. f \in PlacedField /\ f.attr # "auto"
    BY FieldsAssumption DEF PlacedField, Positions
  <2> QED BY <1>2, <2>1 DEF Pin
<1>3. ASSUME NEW key \in RawKeys, BindRaw(t, key)
      PROVE  \E f \in PlacedField : Declare(f) /\ f.attr # "auto"
  <2> DEFINE f == [attr |-> key, slot |-> 0, offset |-> Width - t.bytes, bytes |-> t.bytes, slots |-> t.slots]
  <2>1. f \in PlacedField /\ f.attr # "auto"
    BY FieldsAssumption DEF PlacedField, Positions
  <2> QED BY <1>3, <2>1 DEF BindRaw
<1> QED BY <1>1, <1>2, <1>3, DeclareEffect

\* The effect of each use of a field on the values, and on the invariant.
LEMMA UseEffect ==
  ASSUME RecordInv, NEW i \in Indices
  PROVE  /\ \A w : Set(i, w) => Uniform' /\ \A j \in Indices : Value(j)' = IF j = i THEN w ELSE Value(j)
         /\ Clear(i) \/ Take(i) => Uniform' /\ \A j \in Indices : Value(j)' = IF j = i THEN Zero ELSE Value(j)
         /\ Get(i) => Uniform' /\ \A j \in Indices : Value(j)' = Value(j)
         /\ (\E w : Set(i, w)) \/ Clear(i) \/ Take(i) \/ Get(i) =>
              sealed /\ sealed' = sealed /\ fields' = fields /\ Indices' = Indices
<1>1. (\E w : Set(i, w)) \/ Clear(i) \/ Take(i) \/ Get(i) =>
        sealed /\ sealed' = sealed /\ fields' = fields /\ Indices' = Indices
  BY DEF Set, Clear, Take, Get, Uses, Indices
<1>2. ASSUME NEW w, Set(i, w)
      PROVE  Uniform' /\ \A j \in Indices : Value(j)' = IF j = i THEN w ELSE Value(j)
  <2>1. storage' = Written(i, w) /\ sealed /\ sealed' = sealed /\ fields' = fields
    BY <1>2 DEF Set, Uses
  <2> QED BY <2>1, WriteEffect
<1>3. ASSUME Clear(i) \/ Take(i)
      PROVE  Uniform' /\ \A j \in Indices : Value(j)' = IF j = i THEN Zero ELSE Value(j)
  <2>1. storage' = Written(i, Zero) /\ sealed /\ sealed' = sealed /\ fields' = fields
    BY <1>3 DEF Clear, Take, Cleared, Uses
  <2> QED BY <2>1, WriteEffect
<1>4. ASSUME Get(i)
      PROVE  Uniform' /\ \A j \in Indices : Value(j)' = Value(j)
  <2>1. storage' = storage /\ sealed' = sealed /\ fields' = fields
    BY <1>4 DEF Get, Uses
  <2> QED BY <2>1 DEF RecordInv, Uniform, Value, Indices, SlotsOf, BytesOf, Region, IsAuto, IsPinned
<1> QED BY <1>1, <1>2, <1>3, <1>4

\* The record invariant is inductive.
LEMMA NextRecord == RecordInv /\ [FieldsNext]_fieldsVars => RecordInv'
<1> SUFFICES ASSUME RecordInv, [FieldsNext]_fieldsVars PROVE Ordered' /\ ChainHasNeighbours' /\ Uniform'
  BY NextPlacement DEF RecordInv
<1>1. ASSUME fields' = fields PROVE Ordered' /\ ChainHasNeighbours'
  <2>1. Indices' = Indices /\ \A i : IsAuto(i)' <=> IsAuto(i)
    BY <1>1 DEF Indices, IsAuto
  <2>2. \A i, j : Neighbours(i, j)' <=> Neighbours(i, j)
    BY <2>1 DEF Neighbours
  <2>3. Ordered'
    BY <1>1, <2>1 DEF RecordInv, Ordered
  <2>4. ChainHasNeighbours'
    BY <2>1, <2>2 DEF RecordInv, ChainHasNeighbours
  <2> QED BY <2>3, <2>4
<1>2. ASSUME NEW t \in FieldTypes,
             Place(t) \/ (\E n \in PinnedSlots : Pin(t, n)) \/ (\E key \in RawKeys : BindRaw(t, key))
      PROVE  Ordered' /\ ChainHasNeighbours' /\ Uniform'
  BY <1>2, DeclarationEffect
<1>3. CASE Seal
  BY <1>1, <1>3, SealEffect DEF Seal
<1>4. ASSUME NEW i \in Indices,
             (\E w \in Words : Set(i, w)) \/ Clear(i) \/ Take(i) \/ Get(i)
      PROVE  Ordered' /\ ChainHasNeighbours' /\ Uniform'
  BY <1>1, <1>4, UseEffect
<1>5. CASE ClearAll
  BY <1>1, <1>5, ClearAllEffect DEF ClearAll, Uses
<1>6. CASE UNCHANGED fieldsVars
  <2>1. fields' = fields /\ sealed' = sealed /\ storage' = storage /\ Indices' = Indices
    BY <1>6 DEF fieldsVars, Indices
  <2>2. \A i : SlotsOf(i)' = SlotsOf(i) /\ BytesOf(i)' = BytesOf(i) /\ Value(i)' = Value(i)
    BY <2>1 DEF SlotsOf, BytesOf, Value, Region, IsAuto, IsPinned
  <2>3. Uniform'
    BY <2>1, <2>2 DEF RecordInv, Uniform
  <2> QED BY <1>1, <2>1, <2>3
<1> QED BY <1>2, <1>3, <1>4, <1>5, <1>6 DEF FieldsNext

-----------------------------------------------------------------------------
(* Refinement                                                              *)

\* A tuple of one value, made longer by that value.
LEMMA AppendConstant ==
  ASSUME NEW n \in Nat, NEW z
  PROVE  Append([i \in 1..n |-> z], z) = [i \in 1..(n + 1) |-> z]
<1> DEFINE s == [i \in 1..n |-> z]
<1>1. s \in Seq({z}) /\ Len(s) = n
  OBVIOUS
<1>2. Append(s, z) \in Seq({z}) /\ Len(Append(s, z)) = n + 1
      /\ \A i \in 1..(n + 1) : Append(s, z)[i] = z
  BY <1>1
<1> QED BY <1>2

\* A struct's fields, at whatever places and through whatever paths they are
\* written, implement a record.
THEOREM FieldsAreARecord == FieldsSpec => IsARecord
<1> DEFINE Contents == [i \in Indices |-> Value(i)]
<1>1. FieldsInit => Abstract!Init
  BY DEF FieldsInit, Abstract!Init, Indices, Answer, Abstract!Answer
<1>2. RecordInv /\ [FieldsNext]_fieldsVars => [Abstract!Next]_(Abstract!vars)
  <2> SUFFICES ASSUME RecordInv, [FieldsNext]_fieldsVars PROVE Abstract!Next \/ UNCHANGED Abstract!vars
    OBVIOUS
  <2>0. Contents' = [i \in Indices' |-> Value(i)']
    OBVIOUS
  <2>1. ASSUME NEW t \in FieldTypes,
               Place(t) \/ (\E n \in PinnedSlots : Pin(t, n)) \/ (\E key \in RawKeys : BindRaw(t, key))
        PROVE  Abstract!Place
    <3>1. /\ sealed = FALSE /\ sealed' = FALSE /\ Len(fields) \in Nat
          /\ Indices = 1..Len(fields) /\ Indices' = 1..(Len(fields) + 1) /\ ret' = ret
      BY <2>1, DeclarationEffect
    <3>2. Contents = [i \in 1..Len(fields) |-> Zero] /\ Contents' = [i \in 1..(Len(fields) + 1) |-> Zero]
      BY <3>1 DEF Value
    <3>3. Contents' = Append(Contents, Zero)
      BY <3>1, <3>2, AppendConstant
    <3> QED BY <3>1, <3>3 DEF Abstract!Place
  <2>2. CASE Seal
    <3>1. Indices' = Indices /\ (\A j \in Indices : Value(j)' = Zero) /\ ~sealed /\ sealed' /\ ret' = ret
      BY <2>2, SealEffect DEF Seal
    <3>2. Contents' = Contents
      BY <2>0, <3>1 DEF Value
    <3> QED BY <2>2, <3>1, <3>2 DEF Seal, Abstract!Seal, Abstract!Next
  <2>3. ASSUME NEW i \in Indices,
               (\E w \in Words : Set(i, w)) \/ Clear(i) \/ Take(i) \/ Get(i)
        PROVE  Abstract!Next
    <3>1. sealed /\ sealed' = sealed /\ Indices' = Indices /\ i \in DOMAIN Contents /\ DOMAIN Contents = Indices
      BY <2>3, UseEffect
    <3>2. Seen(i) = {Contents[i]} /\ Contents[i] = Value(i)
      BY <3>1, SeenIsValue
    <3>3. ASSUME NEW w \in Words, Set(i, w) PROVE Abstract!Set(i, w)
      <4>1. Contents' = [Contents EXCEPT ![i] = w]
        BY <2>0, <3>1, <3>3, UseEffect
      <4> QED BY <3>1, <3>3, <4>1 DEF Set, Uses, Answer, Abstract!Set, Abstract!Uses, Abstract!Answer
    <3>4. CASE Clear(i) \/ Take(i)
      <4>1. Contents' = [Contents EXCEPT ![i] = Zero]
        BY <2>0, <3>1, <3>4, UseEffect
      <4> QED BY <3>1, <3>2, <3>4, <4>1
              DEF Clear, Take, Uses, Answer, Abstract!Clear, Abstract!Take, Abstract!Uses, Abstract!Answer, Abstract!Next
    <3>5. CASE Get(i)
      <4>1. Contents' = Contents
        BY <2>0, <3>1, <3>5, UseEffect
      <4> QED BY <3>1, <3>2, <3>5, <4>1 DEF Get, Uses, Answer, Abstract!Get, Abstract!Uses, Abstract!Answer, Abstract!Next
    <3> QED BY <2>3, <3>1, <3>3, <3>4, <3>5 DEF Abstract!Next
  <2>4. CASE ClearAll
    <3>1. sealed /\ sealed' = sealed /\ Indices' = Indices /\ \A j \in Indices : Value(j)' = Zero
      BY <2>4, ClearAllEffect DEF ClearAll, Uses, Indices
    <3>2. Contents' = [i \in DOMAIN Contents |-> Zero]
      BY <2>0, <3>1
    <3> QED BY <2>4, <3>1, <3>2
            DEF ClearAll, Uses, Answer, Abstract!ClearAll, Abstract!Uses, Abstract!Answer, Abstract!Next
  <2>5. CASE UNCHANGED fieldsVars
    BY <2>5 DEF fieldsVars, Abstract!vars, Value, Indices, Region, IsAuto, IsPinned
  <2> QED BY <2>1, <2>2, <2>3, <2>4, <2>5 DEF FieldsNext, Abstract!Next
<1> QED BY <1>1, <1>2, InitRecord, NextRecord, PTL DEF FieldsSpec, IsARecord, Abstract!Spec
=============================================================================
