----------------------------- MODULE StorageSeq -----------------------------
(* What StorageVec promises a contract: a sequence that survives calls and *)
(* is rolled back when a call reverts, whatever slots its elements share.  *)
EXTENDS Naturals, Sequences

CONSTANTS
  Elements,
  Indices     \* the indices callers use

VARIABLES
  fresh,    \* the element a zero slot decodes to
  trusted,  \* nothing but the array's operations ever wrote its slots
  elems,    \* the array
  start,    \* the array when the running call started
  cursor,   \* {i}: a write cursor on element i is live
  rest,     \* what the live iterator has still to yield
  ret       \* what the last operation was asked and what it answered

vars == <<fresh, trusted, elems, start, cursor, rest, ret>>

InBounds(i) == i < Len(elems)
Truncated == SubSeq(elems, 1, Len(elems) - 1)
Answer(op, arg, out, n) == [op |-> op, arg |-> arg, out |-> out, n |-> n, panic |-> "none"]

\* A mutation borrows the array exclusively: cursor and iterator are gone.
Mutates(answer, s) ==
  /\ ret' = answer
  /\ elems' = s
  /\ cursor' = {}
  /\ rest' = << >>
  /\ UNCHANGED <<fresh, trusted, start>>

Reads(answer) ==
  /\ ret' = answer
  /\ cursor' = {}
  /\ UNCHANGED <<fresh, trusted, elems, start, rest>>

\* A panic reverts the call, and the next call starts from the same array.
Panics(op, arg, why) ==
  /\ ret' = [op |-> op, arg |-> arg, out |-> << >>, n |-> 0, panic |-> why]
  /\ elems' = start
  /\ cursor' = {}
  /\ rest' = << >>
  /\ UNCHANGED <<fresh, trusted, start>>

Push(v) == Mutates(Answer("push", 0, << >>, 0), Append(elems, v))

Pop ==
  \/ Len(elems) = 0 /\ Mutates(Answer("pop", 0, << >>, 0), elems)
  \/ Len(elems) > 0 /\ Mutates(Answer("pop", 0, <<elems[Len(elems)]>>, 0), Truncated)

EraseLast ==
  \/ Len(elems) = 0 /\ Mutates(Answer("erase_last", 0, << >>, 0), elems)
  \/ Len(elems) > 0 /\ Mutates(Answer("erase_last", 0, << >>, 1), Truncated)

Set(i, v) ==
  /\ InBounds(i)
  /\ Mutates(Answer("set", i, << >>, 0), [elems EXCEPT ![i + 1] = v])

Clear == Mutates(Answer("clear", 0, << >>, 0), << >>)

\* `entry` and `grow` hand out a cursor on one element.
Opens(answer, s, i) ==
  /\ ret' = answer
  /\ elems' = s
  /\ cursor' = {i}
  /\ rest' = << >>
  /\ UNCHANGED <<fresh, trusted, start>>

Entry(i) == InBounds(i) /\ Opens(Answer("entry", i, << >>, 0), elems, i)
Grow == Opens(Answer("grow", 0, << >>, 0), Append(elems, fresh), Len(elems))

Uses(i, answer, v) ==
  /\ i \in cursor
  /\ ret' = answer
  /\ elems' = [elems EXCEPT ![i + 1] = v]
  /\ UNCHANGED <<fresh, trusted, start, cursor, rest>>

CursorSet(i, v) == Uses(i, Answer("cursor_set", 0, << >>, 0), v)
CursorTake(i) == Uses(i, Answer("cursor_take", 0, <<elems[i + 1]>>, 0), fresh)

Get(i) == InBounds(i) /\ Reads(Answer("get", i, <<elems[i + 1]>>, 0))
TryGet(i) == Reads(Answer("try_get", i, IF InBounds(i) THEN <<elems[i + 1]>> ELSE << >>, 0))
Last == Reads(Answer("last", 0, IF elems = << >> THEN << >> ELSE <<elems[Len(elems)]>>, 0))
Length == Reads(Answer("len", 0, << >>, Len(elems)))

Yields(answer, s) ==
  /\ ret' = answer
  /\ rest' = s
  /\ cursor' = {}
  /\ UNCHANGED <<fresh, trusted, elems, start>>

Iter == Yields(Answer("iter", 0, << >>, Len(elems)), elems)

Forward ==
  \/ rest = << >> /\ Yields(Answer("next", 0, << >>, 0), << >>)
  \/ rest # << >> /\ Yields(Answer("next", 0, <<Head(rest)>>, 0), Tail(rest))

Backward ==
  \/ rest = << >> /\ Yields(Answer("next_back", 0, << >>, 0), << >>)
  \/ rest # << >> /\ Yields(Answer("next_back", 0, <<rest[Len(rest)]>>, 0),
                            SubSeq(rest, 1, Len(rest) - 1))

\* Accesses past the end always panic; only growth and `clear` may fail for
\* want of index space.
Refuse ==
  \/ \E i \in Indices, op \in {"get", "set", "entry"} : ~InBounds(i) /\ Panics(op, i, "bounds")
  \/ \E op \in {"push", "grow", "clear"}, why \in {"oom", "overflow"} : Panics(op, 0, why)

EndCall ==
  /\ ret' = Answer("return", 0, << >>, 0)
  /\ start' = elems
  /\ cursor' = {}
  /\ rest' = << >>
  /\ UNCHANGED <<fresh, trusted, elems>>

\* Over slots that something else wrote, nothing is promised.
Untrusted == ~trusted /\ UNCHANGED <<fresh, trusted>>

Init ==
  /\ trusted => elems = << >> /\ start = << >>
  /\ cursor = {}
  /\ rest = << >>
  /\ ret = Answer("return", 0, << >>, 0)

Next ==
  \/ Untrusted
  \/ \E v \in Elements : Push(v) \/ \E i \in Indices : Set(i, v) \/ CursorSet(i, v)
  \/ \E i \in Indices : Entry(i) \/ CursorTake(i) \/ Get(i) \/ TryGet(i)
  \/ Pop \/ EraseLast \/ Clear \/ Grow \/ Last \/ Length
  \/ Iter \/ Forward \/ Backward \/ Refuse \/ EndCall

Spec == Init /\ [][Next]_vars
=============================================================================
