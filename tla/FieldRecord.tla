---------------------------- MODULE FieldRecord ----------------------------
(* What the fields of a contract or #[storage] struct promise: a record     *)
(* that starts out zero, and whose fields are written one at a time.        *)
EXTENDS Naturals, Sequences

CONSTANTS Words, Zero

VARIABLES
  values,   \* the fields' values, in declaration order
  sealed,   \* the struct is declared: its fields can be used
  ret       \* the last operation, its field, and what it read

vars == <<values, sealed, ret>>

Answer(op, i, out) == [op |-> op, field |-> i, out |-> out]

Place ==
  /\ ~sealed
  /\ values' = Append(values, Zero)
  /\ UNCHANGED <<sealed, ret>>

Seal == ~sealed /\ sealed' = TRUE /\ UNCHANGED <<values, ret>>

Uses(answer, vs) ==
  /\ sealed
  /\ ret' = answer
  /\ values' = vs
  /\ UNCHANGED sealed

Set(i, w) == Uses(Answer("set", i, {}), [values EXCEPT ![i] = w])
Clear(i) == Uses(Answer("clear", i, {}), [values EXCEPT ![i] = Zero])
Take(i) == Uses(Answer("take", i, {values[i]}), [values EXCEPT ![i] = Zero])
Get(i) == Uses(Answer("get", i, {values[i]}), values)
ClearAll == Uses(Answer("clear_all", 0, {}), [i \in DOMAIN values |-> Zero])

Init == values = << >> /\ sealed = FALSE /\ ret = Answer("new", 0, {})

Next ==
  \/ Place
  \/ Seal
  \/ \E i \in DOMAIN values :
       (\E w \in Words : Set(i, w)) \/ Clear(i) \/ Take(i) \/ Get(i)
  \/ ClearAll

Spec == Init /\ [][Next]_vars
=============================================================================
