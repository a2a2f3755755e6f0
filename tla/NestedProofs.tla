---------------------------- MODULE NestedProofs ----------------------------
(* However containers are nested, for any types, values and bounds: a value *)
(* that is gone leaves no slot behind, and storage behaves as a tree of     *)
(* independent values.                                                      *)
EXTENDS Nested, SequenceTheorems, WellFoundedInduction, TLAPS

-----------------------------------------------------------------------------
(* Induction                                                               *)

\* A set of numbers that is not empty has a least one.
LEMMA LeastNatural ==
  ASSUME NEW T, T \subseteq Nat, T # {}
  PROVE  \E x \in T : \A y \in T : x <= y
<1> DEFINE R == OpToRel(<, Nat)
<1>1. IsWellFoundedOn(R, Nat)
  BY NatLessThanWellFounded
<1>2. PICK x \in T : \A y \in T : <<y, x>> \notin R
  <2> HIDE DEF R
  <2> QED BY <1>1, WFMin
<1>3. ASSUME NEW y \in T PROVE x <= y
  <2>1. y \in Nat /\ x \in Nat /\ <<y, x>> \notin R
    BY <1>2
  <2>2. <<y, x>> \in Nat \X Nat /\ <<y, x>>[1] = y /\ <<y, x>>[2] = x
    BY <2>1
  <2>3. y < x => <<y, x>> \in R
    BY <2>2 DEF OpToRel
  <2> HIDE DEF R
  <2> QED BY <2>1, <2>3
<1> QED BY <1>3

\* What holds of 0 and of a successor holds of every natural: P is a set.
LEMMA NaturalsBySet ==
  ASSUME NEW P, 0 \in P, \A n \in Nat : n \in P => n + 1 \in P
  PROVE  Nat \subseteq P
<1> SUFFICES ASSUME Nat \ P # {} PROVE FALSE
  OBVIOUS
<1>1. PICK x \in Nat \ P : \A y \in Nat \ P : x <= y
  BY LeastNatural
<1>2. x - 1 \in Nat /\ x - 1 \in P
  BY <1>1
<1> QED BY <1>1, <1>2

-----------------------------------------------------------------------------
(* The loops                                                               *)


\* The loop of SlotsOf, run over the first n parts.
SlotsLoop(parts, g, n) == g = [k \in 0..n |-> IF k = 0 THEN 0 ELSE g[k - 1] + parts[k].slots]
Slots(parts, n) == (CHOOSE g : SlotsLoop(parts, g, n))[n]

\* The loop exists as a function.
LEMMA SlotsRuns ==
  ASSUME NEW parts, NEW n \in Nat
  PROVE  \E g : SlotsLoop(parts, g, n)
<1> DEFINE P == {k \in Nat : \E g : SlotsLoop(parts, g, k)}
<1>1. 0 \in P
  <2>1. SlotsLoop(parts, [k \in 0..0 |-> 0], 0)
    BY DEF SlotsLoop
  <2> QED BY <2>1
<1>2. ASSUME NEW k \in Nat, k \in P PROVE k + 1 \in P
  <2>1. PICK g : SlotsLoop(parts, g, k)
    BY <1>2
  <2> DEFINE h == [i \in 0..(k + 1) |-> IF i = k + 1 THEN g[k] + parts[k + 1].slots ELSE g[i]]
  <2>2. \A i \in 0..k : h[i] = g[i]
    OBVIOUS
  <2>3. h[k + 1] = h[k] + parts[k + 1].slots
    BY <2>2
  <2>4. \A i \in 0..k : g[i] = IF i = 0 THEN 0 ELSE g[i - 1] + parts[i].slots
    BY <2>1 DEF SlotsLoop
  <2>5. \A i \in 0..(k + 1) : h[i] = IF i = 0 THEN 0 ELSE h[i - 1] + parts[i].slots
    <3> HIDE DEF h
    <3>1. \A i \in 1..k : i - 1 \in 0..k
      OBVIOUS
    <3>2. (k + 1) - 1 = k
      OBVIOUS
    <3> QED BY <2>2, <2>3, <2>4, <3>1, <3>2
  <2>6. SlotsLoop(parts, h, k + 1)
    BY <2>5 DEF SlotsLoop
  <2> QED BY <2>6
<1> HIDE DEF P
<1>3. n \in P
  BY <1>1, <1>2, NaturalsBySet
<1> QED BY <1>3 DEF P

\* Two runs agree as far as both go.
LEMMA SlotsSame ==
  ASSUME NEW parts, NEW n \in Nat, NEW m \in Nat, NEW g, NEW h,
         SlotsLoop(parts, g, n), SlotsLoop(parts, h, m), NEW j \in Nat, j <= n, j <= m
  PROVE  g[j] = h[j]
<1> DEFINE P == {i \in Nat : i <= n /\ i <= m => g[i] = h[i]}
<1>1. /\ \A k \in 0..n : g[k] = IF k = 0 THEN 0 ELSE g[k - 1] + parts[k].slots
      /\ \A k \in 0..m : h[k] = IF k = 0 THEN 0 ELSE h[k - 1] + parts[k].slots
  BY DEF SlotsLoop
<1>2. 0 \in P
  BY <1>1
<1>3. ASSUME NEW k \in Nat, k \in P PROVE k + 1 \in P
  <2>1. (k + 1) - 1 = k
    OBVIOUS
  <2> QED BY <1>1, <1>3, <2>1
<1> HIDE DEF P
<1>4. j \in P
  BY <1>2, <1>3, NaturalsBySet
<1> QED BY <1>4 DEF P

\* One turn of it.
LEMMA SlotsUnfold ==
  ASSUME NEW parts
  PROVE  /\ Slots(parts, 0) = 0
         /\ \A k \in Nat \ {0} : Slots(parts, k) = Slots(parts, k - 1) + parts[k].slots
<1> DEFINE run(n) == CHOOSE g : SlotsLoop(parts, g, n)
<1>1. \A n \in Nat : SlotsLoop(parts, run(n), n)
  BY SlotsRuns
<1>2. \A n \in Nat : Slots(parts, n) = run(n)[n]
  BY DEF Slots
<1> HIDE DEF run
<1>3. Slots(parts, 0) = 0
  BY <1>1, <1>2 DEF SlotsLoop
<1>4. ASSUME NEW k \in Nat \ {0} PROVE Slots(parts, k) = Slots(parts, k - 1) + parts[k].slots
  <2> DEFINE g == run(k)
             h == run(k - 1)
  <2>1. k \in Nat /\ k - 1 \in Nat /\ k - 1 <= k
    OBVIOUS
  <2>2. SlotsLoop(parts, g, k) /\ SlotsLoop(parts, h, k - 1)
    BY <1>1, <2>1
  <2>3. Slots(parts, k) = g[k] /\ Slots(parts, k - 1) = h[k - 1]
    BY <1>2, <2>1
  <2> HIDE DEF g, h
  <2>4. g[k - 1] = h[k - 1]
    BY <2>1, <2>2, SlotsSame
  <2>5. \A i \in 0..k : g[i] = IF i = 0 THEN 0 ELSE g[i - 1] + parts[i].slots
    BY <2>2 DEF SlotsLoop
  <2>6. g[k] = g[k - 1] + parts[k].slots
    BY <2>1, <2>5
  <2> QED BY <2>3, <2>4, <2>6
<1> QED BY <1>3, <1>4

\* The loop of ShapeAt, run over the first n steps of a path.
ShapeLoop(S, q, g, n) == g = [k \in 0..n |-> IF k = 0 THEN S ELSE Part(g[k - 1], q[k])]
Shape(S, q, n) == (CHOOSE g : ShapeLoop(S, q, g, n))[n]

\* The loop exists as a function.
LEMMA ShapeRuns ==
  ASSUME NEW S, NEW q, NEW n \in Nat
  PROVE  \E g : ShapeLoop(S, q, g, n)
<1> DEFINE P == {k \in Nat : \E g : ShapeLoop(S, q, g, k)}
<1>1. 0 \in P
  <2>1. ShapeLoop(S, q, [k \in 0..0 |-> S], 0)
    BY DEF ShapeLoop
  <2> QED BY <2>1
<1>2. ASSUME NEW k \in Nat, k \in P PROVE k + 1 \in P
  <2>1. PICK g : ShapeLoop(S, q, g, k)
    BY <1>2
  <2> DEFINE h == [i \in 0..(k + 1) |-> IF i = k + 1 THEN Part(g[k], q[k + 1]) ELSE g[i]]
  <2>2. \A i \in 0..k : h[i] = g[i]
    OBVIOUS
  <2>3. h[k + 1] = Part(h[k], q[k + 1])
    BY <2>2
  <2>4. \A i \in 0..k : g[i] = IF i = 0 THEN S ELSE Part(g[i - 1], q[i])
    BY <2>1 DEF ShapeLoop
  <2>5. \A i \in 0..(k + 1) : h[i] = IF i = 0 THEN S ELSE Part(h[i - 1], q[i])
    <3> HIDE DEF h
    <3>1. \A i \in 1..k : i - 1 \in 0..k
      OBVIOUS
    <3>2. (k + 1) - 1 = k
      OBVIOUS
    <3> QED BY <2>2, <2>3, <2>4, <3>1, <3>2
  <2>6. ShapeLoop(S, q, h, k + 1)
    BY <2>5 DEF ShapeLoop
  <2> QED BY <2>6
<1> HIDE DEF P
<1>3. n \in P
  BY <1>1, <1>2, NaturalsBySet
<1> QED BY <1>3 DEF P

\* Two runs agree as far as both go.
LEMMA ShapeSame ==
  ASSUME NEW S, NEW q, NEW n \in Nat, NEW m \in Nat, NEW g, NEW h,
         ShapeLoop(S, q, g, n), ShapeLoop(S, q, h, m), NEW j \in Nat, j <= n, j <= m
  PROVE  g[j] = h[j]
<1> DEFINE P == {i \in Nat : i <= n /\ i <= m => g[i] = h[i]}
<1>1. /\ \A k \in 0..n : g[k] = IF k = 0 THEN S ELSE Part(g[k - 1], q[k])
      /\ \A k \in 0..m : h[k] = IF k = 0 THEN S ELSE Part(h[k - 1], q[k])
  BY DEF ShapeLoop
<1>2. 0 \in P
  BY <1>1
<1>3. ASSUME NEW k \in Nat, k \in P PROVE k + 1 \in P
  <2>1. (k + 1) - 1 = k
    OBVIOUS
  <2> QED BY <1>1, <1>3, <2>1
<1> HIDE DEF P
<1>4. j \in P
  BY <1>2, <1>3, NaturalsBySet
<1> QED BY <1>4 DEF P

\* One turn of it.
LEMMA ShapeUnfold ==
  ASSUME NEW S, NEW q
  PROVE  /\ Shape(S, q, 0) = S
         /\ \A k \in Nat \ {0} : Shape(S, q, k) = Part(Shape(S, q, k - 1), q[k])
<1> DEFINE run(n) == CHOOSE g : ShapeLoop(S, q, g, n)
<1>1. \A n \in Nat : ShapeLoop(S, q, run(n), n)
  BY ShapeRuns
<1>2. \A n \in Nat : Shape(S, q, n) = run(n)[n]
  BY DEF Shape
<1> HIDE DEF run
<1>3. Shape(S, q, 0) = S
  BY <1>1, <1>2 DEF ShapeLoop
<1>4. ASSUME NEW k \in Nat \ {0} PROVE Shape(S, q, k) = Part(Shape(S, q, k - 1), q[k])
  <2> DEFINE g == run(k)
             h == run(k - 1)
  <2>1. k \in Nat /\ k - 1 \in Nat /\ k - 1 <= k
    OBVIOUS
  <2>2. ShapeLoop(S, q, g, k) /\ ShapeLoop(S, q, h, k - 1)
    BY <1>1, <2>1
  <2>3. Shape(S, q, k) = g[k] /\ Shape(S, q, k - 1) = h[k - 1]
    BY <1>2, <2>1
  <2> HIDE DEF g, h
  <2>4. g[k - 1] = h[k - 1]
    BY <2>1, <2>2, ShapeSame
  <2>5. \A i \in 0..k : g[i] = IF i = 0 THEN S ELSE Part(g[i - 1], q[i])
    BY <2>2 DEF ShapeLoop
  <2>6. g[k] = Part(g[k - 1], q[k])
    BY <2>1, <2>5
  <2> QED BY <2>3, <2>4, <2>6
<1> QED BY <1>3, <1>4

\* The loop of Paths, run for n steps.
LayerLoop(S, g, n) == g = [k \in 0..n |-> IF k = 0 THEN {<< >>} ELSE Longer(S, g[k - 1])]
Layer(S, n) == (CHOOSE g : LayerLoop(S, g, n))[n]

\* The loop exists as a function.
LEMMA LayerRuns ==
  ASSUME NEW S, NEW n \in Nat
  PROVE  \E g : LayerLoop(S, g, n)
<1> DEFINE P == {k \in Nat : \E g : LayerLoop(S, g, k)}
<1>1. 0 \in P
  <2>1. LayerLoop(S, [k \in 0..0 |-> {<< >>}], 0)
    BY DEF LayerLoop
  <2> QED BY <2>1
<1>2. ASSUME NEW k \in Nat, k \in P PROVE k + 1 \in P
  <2>1. PICK g : LayerLoop(S, g, k)
    BY <1>2
  <2> DEFINE h == [i \in 0..(k + 1) |-> IF i = k + 1 THEN Longer(S, g[k]) ELSE g[i]]
  <2>2. \A i \in 0..k : h[i] = g[i]
    OBVIOUS
  <2>3. h[k + 1] = Longer(S, h[k])
    BY <2>2
  <2>4. \A i \in 0..k : g[i] = IF i = 0 THEN {<< >>} ELSE Longer(S, g[i - 1])
    BY <2>1 DEF LayerLoop
  <2>5. \A i \in 0..(k + 1) : h[i] = IF i = 0 THEN {<< >>} ELSE Longer(S, h[i - 1])
    <3> HIDE DEF h
    <3>1. \A i \in 1..k : i - 1 \in 0..k
      OBVIOUS
    <3>2. (k + 1) - 1 = k
      OBVIOUS
    <3> QED BY <2>2, <2>3, <2>4, <3>1, <3>2
  <2>6. LayerLoop(S, h, k + 1)
    BY <2>5 DEF LayerLoop
  <2> QED BY <2>6
<1> HIDE DEF P
<1>3. n \in P
  BY <1>1, <1>2, NaturalsBySet
<1> QED BY <1>3 DEF P

\* Two runs agree as far as both go.
LEMMA LayerSame ==
  ASSUME NEW S, NEW n \in Nat, NEW m \in Nat, NEW g, NEW h,
         LayerLoop(S, g, n), LayerLoop(S, h, m), NEW j \in Nat, j <= n, j <= m
  PROVE  g[j] = h[j]
<1> DEFINE P == {i \in Nat : i <= n /\ i <= m => g[i] = h[i]}
<1>1. /\ \A k \in 0..n : g[k] = IF k = 0 THEN {<< >>} ELSE Longer(S, g[k - 1])
      /\ \A k \in 0..m : h[k] = IF k = 0 THEN {<< >>} ELSE Longer(S, h[k - 1])
  BY DEF LayerLoop
<1>2. 0 \in P
  BY <1>1
<1>3. ASSUME NEW k \in Nat, k \in P PROVE k + 1 \in P
  <2>1. (k + 1) - 1 = k
    OBVIOUS
  <2> QED BY <1>1, <1>3, <2>1
<1> HIDE DEF P
<1>4. j \in P
  BY <1>2, <1>3, NaturalsBySet
<1> QED BY <1>4 DEF P

\* One turn of it.
LEMMA LayerUnfold ==
  ASSUME NEW S
  PROVE  /\ Layer(S, 0) = {<< >>}
         /\ \A k \in Nat \ {0} : Layer(S, k) = Longer(S, Layer(S, k - 1))
<1> DEFINE run(n) == CHOOSE g : LayerLoop(S, g, n)
<1>1. \A n \in Nat : LayerLoop(S, run(n), n)
  BY LayerRuns
<1>2. \A n \in Nat : Layer(S, n) = run(n)[n]
  BY DEF Layer
<1> HIDE DEF run
<1>3. Layer(S, 0) = {<< >>}
  BY <1>1, <1>2 DEF LayerLoop
<1>4. ASSUME NEW k \in Nat \ {0} PROVE Layer(S, k) = Longer(S, Layer(S, k - 1))
  <2> DEFINE g == run(k)
             h == run(k - 1)
  <2>1. k \in Nat /\ k - 1 \in Nat /\ k - 1 <= k
    OBVIOUS
  <2>2. LayerLoop(S, g, k) /\ LayerLoop(S, h, k - 1)
    BY <1>1, <2>1
  <2>3. Layer(S, k) = g[k] /\ Layer(S, k - 1) = h[k - 1]
    BY <1>2, <2>1
  <2> HIDE DEF g, h
  <2>4. g[k - 1] = h[k - 1]
    BY <2>1, <2>2, LayerSame
  <2>5. \A i \in 0..k : g[i] = IF i = 0 THEN {<< >>} ELSE Longer(S, g[i - 1])
    BY <2>2 DEF LayerLoop
  <2>6. g[k] = Longer(S, g[k - 1])
    BY <2>1, <2>5
  <2> QED BY <2>3, <2>4, <2>6
<1> QED BY <1>3, <1>4

\* The loop of KeyAt, run over the first n steps of a path.
KeysLoop(S, q, g, n) == g = [k \in 0..n |-> IF k = 0 THEN Root ELSE PartSlot(g[k - 1], ShapeAt(S, Upto(q, k - 1)), q[k])]
Keys(S, q, n) == (CHOOSE g : KeysLoop(S, q, g, n))[n]

\* The loop exists as a function.
LEMMA KeysRuns ==
  ASSUME NEW S, NEW q, NEW n \in Nat
  PROVE  \E g : KeysLoop(S, q, g, n)
<1> DEFINE P == {k \in Nat : \E g : KeysLoop(S, q, g, k)}
<1>1. 0 \in P
  <2>1. KeysLoop(S, q, [k \in 0..0 |-> Root], 0)
    BY DEF KeysLoop
  <2> QED BY <2>1
<1>2. ASSUME NEW k \in Nat, k \in P PROVE k + 1 \in P
  <2>1. PICK g : KeysLoop(S, q, g, k)
    BY <1>2
  <2> DEFINE h == [i \in 0..(k + 1) |-> IF i = k + 1 THEN PartSlot(g[k], ShapeAt(S, Upto(q, k + 1 - 1)), q[k + 1]) ELSE g[i]]
  <2>2. \A i \in 0..k : h[i] = g[i]
    OBVIOUS
  <2>3. h[k + 1] = PartSlot(h[k], ShapeAt(S, Upto(q, k + 1 - 1)), q[k + 1])
    BY <2>2
  <2>4. \A i \in 0..k : g[i] = IF i = 0 THEN Root ELSE PartSlot(g[i - 1], ShapeAt(S, Upto(q, i - 1)), q[i])
    BY <2>1 DEF KeysLoop
  <2>5. \A i \in 0..(k + 1) : h[i] = IF i = 0 THEN Root ELSE PartSlot(h[i - 1], ShapeAt(S, Upto(q, i - 1)), q[i])
    <3> HIDE DEF h
    <3>1. \A i \in 1..k : i - 1 \in 0..k
      OBVIOUS
    <3>2. (k + 1) - 1 = k
      OBVIOUS
    <3> QED BY <2>2, <2>3, <2>4, <3>1, <3>2
  <2>6. KeysLoop(S, q, h, k + 1)
    BY <2>5 DEF KeysLoop
  <2> QED BY <2>6
<1> HIDE DEF P
<1>3. n \in P
  BY <1>1, <1>2, NaturalsBySet
<1> QED BY <1>3 DEF P

\* Two runs agree as far as both go.
LEMMA KeysSame ==
  ASSUME NEW S, NEW q, NEW n \in Nat, NEW m \in Nat, NEW g, NEW h,
         KeysLoop(S, q, g, n), KeysLoop(S, q, h, m), NEW j \in Nat, j <= n, j <= m
  PROVE  g[j] = h[j]
<1> DEFINE P == {i \in Nat : i <= n /\ i <= m => g[i] = h[i]}
<1>1. /\ \A k \in 0..n : g[k] = IF k = 0 THEN Root ELSE PartSlot(g[k - 1], ShapeAt(S, Upto(q, k - 1)), q[k])
      /\ \A k \in 0..m : h[k] = IF k = 0 THEN Root ELSE PartSlot(h[k - 1], ShapeAt(S, Upto(q, k - 1)), q[k])
  BY DEF KeysLoop
<1>2. 0 \in P
  BY <1>1
<1>3. ASSUME NEW k \in Nat, k \in P PROVE k + 1 \in P
  <2>1. (k + 1) - 1 = k
    OBVIOUS
  <2> QED BY <1>1, <1>3, <2>1
<1> HIDE DEF P
<1>4. j \in P
  BY <1>2, <1>3, NaturalsBySet
<1> QED BY <1>4 DEF P

\* One turn of it.
LEMMA KeysUnfold ==
  ASSUME NEW S, NEW q
  PROVE  /\ Keys(S, q, 0) = Root
         /\ \A k \in Nat \ {0} : Keys(S, q, k) = PartSlot(Keys(S, q, k - 1), ShapeAt(S, Upto(q, k - 1)), q[k])
<1> DEFINE run(n) == CHOOSE g : KeysLoop(S, q, g, n)
<1>1. \A n \in Nat : KeysLoop(S, q, run(n), n)
  BY KeysRuns
<1>2. \A n \in Nat : Keys(S, q, n) = run(n)[n]
  BY DEF Keys
<1> HIDE DEF run
<1>3. Keys(S, q, 0) = Root
  BY <1>1, <1>2 DEF KeysLoop
<1>4. ASSUME NEW k \in Nat \ {0} PROVE Keys(S, q, k) = PartSlot(Keys(S, q, k - 1), ShapeAt(S, Upto(q, k - 1)), q[k])
  <2> DEFINE g == run(k)
             h == run(k - 1)
  <2>1. k \in Nat /\ k - 1 \in Nat /\ k - 1 <= k
    OBVIOUS
  <2>2. KeysLoop(S, q, g, k) /\ KeysLoop(S, q, h, k - 1)
    BY <1>1, <2>1
  <2>3. Keys(S, q, k) = g[k] /\ Keys(S, q, k - 1) = h[k - 1]
    BY <1>2, <2>1
  <2> HIDE DEF g, h
  <2>4. g[k - 1] = h[k - 1]
    BY <2>1, <2>2, KeysSame
  <2>5. \A i \in 0..k : g[i] = IF i = 0 THEN Root ELSE PartSlot(g[i - 1], ShapeAt(S, Upto(q, i - 1)), q[i])
    BY <2>2 DEF KeysLoop
  <2>6. g[k] = PartSlot(g[k - 1], ShapeAt(S, Upto(q, k - 1)), q[k])
    BY <2>1, <2>5
  <2> QED BY <2>3, <2>4, <2>6
<1> QED BY <1>3, <1>4

\* The loop of Written, run over the first n fields.
WritesLoop(st, key, S, v, g, n) == g = [k \in 0..n |-> IF k = 0 THEN st ELSE WrittenField(g[k - 1], FieldSlot(key, S.parts, k), S.parts[k], v[k])]
Writes(st, key, S, v, n) == (CHOOSE g : WritesLoop(st, key, S, v, g, n))[n]

\* The loop exists as a function.
LEMMA WritesRuns ==
  ASSUME NEW st, NEW key, NEW S, NEW v, NEW n \in Nat
  PROVE  \E g : WritesLoop(st, key, S, v, g, n)
<1> DEFINE P == {k \in Nat : \E g : WritesLoop(st, key, S, v, g, k)}
<1>1. 0 \in P
  <2>1. WritesLoop(st, key, S, v, [k \in 0..0 |-> st], 0)
    BY DEF WritesLoop
  <2> QED BY <2>1
<1>2. ASSUME NEW k \in Nat, k \in P PROVE k + 1 \in P
  <2>1. PICK g : WritesLoop(st, key, S, v, g, k)
    BY <1>2
  <2> DEFINE h == [i \in 0..(k + 1) |-> IF i = k + 1 THEN WrittenField(g[k], FieldSlot(key, S.parts, k + 1), S.parts[k + 1], v[k + 1]) ELSE g[i]]
  <2>2. \A i \in 0..k : h[i] = g[i]
    OBVIOUS
  <2>3. h[k + 1] = WrittenField(h[k], FieldSlot(key, S.parts, k + 1), S.parts[k + 1], v[k + 1])
    BY <2>2
  <2>4. \A i \in 0..k : g[i] = IF i = 0 THEN st ELSE WrittenField(g[i - 1], FieldSlot(key, S.parts, i), S.parts[i], v[i])
    BY <2>1 DEF WritesLoop
  <2>5. \A i \in 0..(k + 1) : h[i] = IF i = 0 THEN st ELSE WrittenField(h[i - 1], FieldSlot(key, S.parts, i), S.parts[i], v[i])
    <3> HIDE DEF h
    <3>1. \A i \in 1..k : i - 1 \in 0..k
      OBVIOUS
    <3>2. (k + 1) - 1 = k
      OBVIOUS
    <3> QED BY <2>2, <2>3, <2>4, <3>1, <3>2
  <2>6. WritesLoop(st, key, S, v, h, k + 1)
    BY <2>5 DEF WritesLoop
  <2> QED BY <2>6
<1> HIDE DEF P
<1>3. n \in P
  BY <1>1, <1>2, NaturalsBySet
<1> QED BY <1>3 DEF P

\* Two runs agree as far as both go.
LEMMA WritesSame ==
  ASSUME NEW st, NEW key, NEW S, NEW v, NEW n \in Nat, NEW m \in Nat, NEW g, NEW h,
         WritesLoop(st, key, S, v, g, n), WritesLoop(st, key, S, v, h, m), NEW j \in Nat, j <= n, j <= m
  PROVE  g[j] = h[j]
<1> DEFINE P == {i \in Nat : i <= n /\ i <= m => g[i] = h[i]}
<1>1. /\ \A k \in 0..n : g[k] = IF k = 0 THEN st ELSE WrittenField(g[k - 1], FieldSlot(key, S.parts, k), S.parts[k], v[k])
      /\ \A k \in 0..m : h[k] = IF k = 0 THEN st ELSE WrittenField(h[k - 1], FieldSlot(key, S.parts, k), S.parts[k], v[k])
  BY DEF WritesLoop
<1>2. 0 \in P
  BY <1>1
<1>3. ASSUME NEW k \in Nat, k \in P PROVE k + 1 \in P
  <2>1. (k + 1) - 1 = k
    OBVIOUS
  <2> QED BY <1>1, <1>3, <2>1
<1> HIDE DEF P
<1>4. j \in P
  BY <1>2, <1>3, NaturalsBySet
<1> QED BY <1>4 DEF P

\* One turn of it.
LEMMA WritesUnfold ==
  ASSUME NEW st, NEW key, NEW S, NEW v
  PROVE  /\ Writes(st, key, S, v, 0) = st
         /\ \A k \in Nat \ {0} : Writes(st, key, S, v, k) = WrittenField(Writes(st, key, S, v, k - 1), FieldSlot(key, S.parts, k), S.parts[k], v[k])
<1> DEFINE run(n) == CHOOSE g : WritesLoop(st, key, S, v, g, n)
<1>1. \A n \in Nat : WritesLoop(st, key, S, v, run(n), n)
  BY WritesRuns
<1>2. \A n \in Nat : Writes(st, key, S, v, n) = run(n)[n]
  BY DEF Writes
<1> HIDE DEF run
<1>3. Writes(st, key, S, v, 0) = st
  BY <1>1, <1>2 DEF WritesLoop
<1>4. ASSUME NEW k \in Nat \ {0} PROVE Writes(st, key, S, v, k) = WrittenField(Writes(st, key, S, v, k - 1), FieldSlot(key, S.parts, k), S.parts[k], v[k])
  <2> DEFINE g == run(k)
             h == run(k - 1)
  <2>1. k \in Nat /\ k - 1 \in Nat /\ k - 1 <= k
    OBVIOUS
  <2>2. WritesLoop(st, key, S, v, g, k) /\ WritesLoop(st, key, S, v, h, k - 1)
    BY <1>1, <2>1
  <2>3. Writes(st, key, S, v, k) = g[k] /\ Writes(st, key, S, v, k - 1) = h[k - 1]
    BY <1>2, <2>1
  <2> HIDE DEF g, h
  <2>4. g[k - 1] = h[k - 1]
    BY <2>1, <2>2, WritesSame
  <2>5. \A i \in 0..k : g[i] = IF i = 0 THEN st ELSE WrittenField(g[i - 1], FieldSlot(key, S.parts, i), S.parts[i], v[i])
    BY <2>2 DEF WritesLoop
  <2>6. g[k] = WrittenField(g[k - 1], FieldSlot(key, S.parts, k), S.parts[k], v[k])
    BY <2>1, <2>5
  <2> QED BY <2>3, <2>4, <2>6
<1> QED BY <1>3, <1>4

-----------------------------------------------------------------------------
(* Paths                                                                   *)

\* What a step of a path is taken from, and a list of them.
AnyStep == Nat \union MapKeys
Track == Seq(AnyStep)

\* The first steps of a path.
LEMMA UptoFacts ==
  ASSUME NEW q \in Track, NEW k \in 0..Len(q)
  PROVE  /\ Upto(q, k) \in Track /\ Len(Upto(q, k)) = k
         /\ \A i \in 1..k : Upto(q, k)[i] = q[i]
<1>1. Len(q) \in Nat /\ \A i \in 1..Len(q) : q[i] \in AnyStep
  BY DEF Track
<1>2. \A i \in 1..k : q[i] \in AnyStep
  BY <1>1
<1>3. Upto(q, k) = [i \in 1..k |-> q[i]]
  BY <1>1 DEF Upto, Track
<1>4. k \in Nat
  OBVIOUS
<1>5. [i \in 1..k |-> q[i]] \in Seq(AnyStep)
  BY <1>2, <1>4
<1>6. Len([i \in 1..k |-> q[i]]) = k
  BY <1>4
<1> QED BY <1>3, <1>5, <1>6 DEF Track

\* Paths with the same steps are the same.
LEMMA SameTrack ==
  ASSUME NEW q \in Track, NEW r \in Track, Len(q) = Len(r), \A i \in 1..Len(q) : q[i] = r[i]
  PROVE  q = r
BY DEF Track

\* Prefixes of prefixes.
LEMMA UptoUpto ==
  ASSUME NEW q \in Track, NEW k \in 0..Len(q), NEW j \in 0..k
  PROVE  Upto(Upto(q, k), j) = Upto(q, j)
<1>1. Len(q) \in Nat
  BY DEF Track
<1>2. j \in 0..Len(q) /\ j \in 0..Len(Upto(q, k)) /\ Upto(q, k) \in Track
  BY <1>1, UptoFacts
<1> DEFINE r == Upto(q, k)
<1>3. \A i \in 1..k : r[i] = q[i]
  BY UptoFacts
<1>4. r \in Track
  BY <1>2
<1> HIDE DEF r
<1>5. Upto(r, j) \in Track /\ Len(Upto(r, j)) = j /\ \A i \in 1..j : Upto(r, j)[i] = r[i]
  BY <1>2, <1>4, UptoFacts DEF r
<1>6. Upto(q, j) \in Track /\ Len(Upto(q, j)) = j /\ \A i \in 1..j : Upto(q, j)[i] = q[i]
  BY <1>2, UptoFacts
<1>7. Upto(r, j) = Upto(q, j)
  BY <1>3, <1>5, <1>6, SameTrack
<1> QED BY <1>7 DEF r

\* The whole, the start and the next step.
LEMMA UptoEnds ==
  ASSUME NEW q \in Track
  PROVE  /\ Len(q) \in Nat
         /\ Upto(q, Len(q)) = q /\ Upto(q, 0) = << >>
         /\ \A k \in 1..Len(q) : Upto(q, k) = Append(Upto(q, k - 1), q[k]) /\ q[k] \in AnyStep
<1>1. Len(q) \in Nat /\ \A k \in 1..Len(q) : q[k] \in AnyStep
  BY DEF Track
<1>2. Upto(q, Len(q)) = q
  BY <1>1, UptoFacts, SameTrack
<1>3. Upto(q, 0) = << >>
  BY <1>1, UptoFacts DEF Track
<1>4. ASSUME NEW k \in 1..Len(q) PROVE Upto(q, k) = Append(Upto(q, k - 1), q[k])
  <2>1. k \in 0..Len(q) /\ k - 1 \in 0..Len(q)
    BY <1>1
  <2> DEFINE r == Upto(q, k - 1)
             t == Upto(q, k)
  <2>2. r \in Track /\ Len(r) = k - 1 /\ \A i \in 1..(k - 1) : r[i] = q[i]
    BY <2>1, UptoFacts
  <2>3. t \in Track /\ Len(t) = k /\ \A i \in 1..k : t[i] = q[i]
    BY <2>1, UptoFacts
  <2> HIDE DEF r, t
  <2>4. Append(r, q[k]) \in Track /\ Len(Append(r, q[k])) = k
    BY <1>1, <2>2 DEF Track
  <2>5. \A i \in 1..k : Append(r, q[k])[i] = q[i]
    BY <1>1, <2>2 DEF Track
  <2>6. t = Append(r, q[k])
    BY <2>3, <2>4, <2>5, SameTrack
  <2> QED BY <2>6 DEF r, t
<1> QED BY <1>1, <1>2, <1>3, <1>4

\* A path with a step more.
LEMMA AppendFacts ==
  ASSUME NEW q \in Track, NEW i \in AnyStep
  PROVE  /\ Append(q, i) \in Track /\ Len(Append(q, i)) = Len(q) + 1
         /\ Append(q, i)[Len(q) + 1] = i
         /\ \A k \in 0..Len(q) : Upto(Append(q, i), k) = Upto(q, k)
<1> DEFINE r == Append(q, i)
<1>1. r \in Track /\ Len(r) = Len(q) + 1 /\ Len(q) \in Nat
  BY DEF Track
<1>2. r[Len(q) + 1] = i /\ \A j \in 1..Len(q) : r[j] = q[j]
  BY DEF Track
<1> HIDE DEF r
<1>3. ASSUME NEW k \in 0..Len(q) PROVE Upto(r, k) = Upto(q, k)
  <2>1. k \in 0..Len(r)
    BY <1>1
  <2>2. Upto(r, k) \in Track /\ Len(Upto(r, k)) = k /\ \A j \in 1..k : Upto(r, k)[j] = r[j]
    BY <1>1, <2>1, UptoFacts
  <2>3. Upto(q, k) \in Track /\ Len(Upto(q, k)) = k /\ \A j \in 1..k : Upto(q, k)[j] = q[j]
    BY UptoFacts
  <2> QED BY <1>1, <1>2, <2>2, <2>3, SameTrack
<1> QED BY <1>1, <1>2, <1>3 DEF r

\* The loop of ShapeAt reads only the steps it takes.
LEMMA ShapeReads ==
  ASSUME NEW S, NEW q, NEW r, NEW n \in Nat, \A i \in 1..n : q[i] = r[i]
  PROVE  Shape(S, q, n) = Shape(S, r, n)
<1>0. \A t : \A k \in Nat \ {0} : Shape(S, t, k) = Part(Shape(S, t, k - 1), t[k])
  BY ShapeUnfold
<1> DEFINE P == {k \in Nat : k <= n => Shape(S, q, k) = Shape(S, r, k)}
<1>1. 0 \in P
  BY ShapeUnfold
<1>2. ASSUME NEW k \in Nat, k \in P PROVE k + 1 \in P
  <2>1. k + 1 \in Nat \ {0} /\ (k + 1) - 1 = k
    OBVIOUS
  <2>2. /\ Shape(S, q, k + 1) = Part(Shape(S, q, k), q[k + 1])
        /\ Shape(S, r, k + 1) = Part(Shape(S, r, k), r[k + 1])
    BY <1>0, <2>1
  <2> QED BY <1>2, <2>2
<1> HIDE DEF P
<1>3. n \in P
  BY <1>1, <1>2, NaturalsBySet
<1> QED BY <1>3 DEF P

\* The type along a path.
LEMMA ShapeFacts ==
  ASSUME NEW S, NEW q \in Track
  PROVE  /\ ShapeAt(S, << >>) = S
         /\ \A k \in 1..Len(q) :
              ShapeAt(S, Upto(q, k)) = Part(ShapeAt(S, Upto(q, k - 1)), q[k])
<1>1. \A r : ShapeAt(S, r) = Shape(S, r, Len(r))
  BY DEF ShapeAt, Shape, ShapeLoop
<1>2. ShapeAt(S, << >>) = S
  <2>1. Len(<< >>) = 0
    OBVIOUS
  <2> QED BY <1>1, <2>1, ShapeUnfold
<1>3. ASSUME NEW k \in 0..Len(q) PROVE ShapeAt(S, Upto(q, k)) = Shape(S, q, k)
  <2> DEFINE r == Upto(q, k)
  <2>1. Len(r) = k /\ k \in Nat /\ \A i \in 1..k : r[i] = q[i]
    BY UptoFacts DEF Track
  <2> HIDE DEF r
  <2>2. Shape(S, r, k) = Shape(S, q, k)
    BY <2>1, ShapeReads
  <2>3. ShapeAt(S, r) = Shape(S, q, k)
    BY <1>1, <2>1, <2>2
  <2> QED BY <2>3 DEF r
<1>4. ASSUME NEW k \in 1..Len(q)
      PROVE  ShapeAt(S, Upto(q, k)) = Part(ShapeAt(S, Upto(q, k - 1)), q[k])
  <2>1. k \in Nat \ {0} /\ k \in 0..Len(q) /\ k - 1 \in 0..Len(q)
    BY DEF Track
  <2>2. Shape(S, q, k) = Part(Shape(S, q, k - 1), q[k])
    BY <2>1, ShapeUnfold
  <2> QED BY <1>3, <2>1, <2>2
<1> QED BY <1>2, <1>4

\* The loop of KeyAt reads only the steps it takes.
LEMMA KeysReads ==
  ASSUME NEW S, NEW q \in Track, NEW n \in 0..Len(q)
  PROVE  Keys(S, Upto(q, n), n) = Keys(S, q, n)
<1> DEFINE r == Upto(q, n)
<1>1. r \in Track /\ Len(r) = n /\ n \in Nat /\ \A i \in 1..n : r[i] = q[i]
  BY UptoFacts DEF Track
<1>2. \A i \in 0..n : Upto(r, i) = Upto(q, i)
  BY UptoUpto
<1> HIDE DEF r
<1> DEFINE P == {k \in Nat : k <= n => Keys(S, r, k) = Keys(S, q, k)}
<1>3. 0 \in P
  BY KeysUnfold
<1>4. ASSUME NEW k \in Nat, k \in P PROVE k + 1 \in P
  <2> SUFFICES ASSUME k + 1 <= n PROVE Keys(S, r, k + 1) = Keys(S, q, k + 1)
    OBVIOUS
  <2>1. k + 1 \in Nat \ {0} /\ (k + 1) - 1 = k /\ k \in 0..n /\ k + 1 \in 1..n
    BY <1>1
  <2>2. /\ Keys(S, q, k + 1) = PartSlot(Keys(S, q, k), ShapeAt(S, Upto(q, k)), q[k + 1])
        /\ Keys(S, r, k + 1) = PartSlot(Keys(S, r, k), ShapeAt(S, Upto(r, k)), r[k + 1])
    BY <2>1, KeysUnfold
  <2> QED BY <1>1, <1>2, <1>4, <2>1, <2>2
<1> HIDE DEF P
<1>5. n \in P
  BY <1>1, <1>3, <1>4, NaturalsBySet
<1>6. Keys(S, r, n) = Keys(S, q, n)
  BY <1>1, <1>5 DEF P
<1> QED BY <1>6 DEF r

\* The key along a path.
LEMMA KeyFacts ==
  ASSUME NEW S, NEW q \in Track
  PROVE  /\ KeyAt(S, << >>) = Root
         /\ \A k \in 1..Len(q) :
              KeyAt(S, Upto(q, k))
                = PartSlot(KeyAt(S, Upto(q, k - 1)), ShapeAt(S, Upto(q, k - 1)), q[k])
<1>1. \A r : KeyAt(S, r) = Keys(S, r, Len(r))
  BY DEF KeyAt, Keys, KeysLoop
<1>2. KeyAt(S, << >>) = Root
  <2>1. Len(<< >>) = 0
    OBVIOUS
  <2> QED BY <1>1, <2>1, KeysUnfold
<1>3. ASSUME NEW k \in 0..Len(q) PROVE KeyAt(S, Upto(q, k)) = Keys(S, q, k)
  <2>1. Len(Upto(q, k)) = k
    BY UptoFacts
  <2> QED BY <1>1, <2>1, KeysReads
<1>4. ASSUME NEW k \in 1..Len(q)
      PROVE  KeyAt(S, Upto(q, k))
               = PartSlot(KeyAt(S, Upto(q, k - 1)), ShapeAt(S, Upto(q, k - 1)), q[k])
  <2>1. k \in Nat \ {0} /\ k \in 0..Len(q) /\ k - 1 \in 0..Len(q)
    BY DEF Track
  <2>2. Keys(S, q, k) = PartSlot(Keys(S, q, k - 1), ShapeAt(S, Upto(q, k - 1)), q[k])
    BY <2>1, KeysUnfold
  <2> QED BY <1>3, <2>1, <2>2
<1> QED BY <1>2, <1>4

\* The steps of q lead to parts.
IsPath(S, q) ==
  /\ q \in Track
  /\ \A k \in 1..Len(q) : q[k] \in Steps(ShapeAt(S, Upto(q, k - 1)))

\* A step leads to a type of less depth.
LEMMA StepFacts ==
  ASSUME NEW S \in Types, NEW i \in Steps(S)
  PROVE  /\ Part(S, i) \in Types /\ Part(S, i).depth < S.depth
         /\ S.depth \in Nat /\ Part(S, i).depth \in Nat /\ i \in AnyStep
         /\ S.kind \in {"vec", "map", "struct"}
         /\ S.kind = "vec" => i \in 0..(MaxElems - 1)
         /\ S.kind = "map" => i \in MapKeys
         /\ S.kind = "struct" => i \in 1..Len(S.parts)
<1>1. WellFormed(S)
  BY ShapeAssumption
<1>2. S.kind \in {"vec", "map", "struct"}
  BY <1>1 DEF WellFormed, Steps
<1>3. /\ S.kind = "vec" => i \in 0..(MaxElems - 1)
      /\ S.kind = "map" => i \in MapKeys
      /\ S.kind = "struct" => i \in 1..Len(S.parts)
  BY <1>2 DEF Steps
<1>4. \E j \in 1..Len(S.parts) : Part(S, i) = S.parts[j]
  BY <1>1, <1>2, <1>3 DEF Part, WellFormed
<1>5. Part(S, i) \in Types /\ Part(S, i).depth < S.depth
  BY <1>1, <1>4 DEF WellFormed
<1>6. WellFormed(Part(S, i))
  BY <1>5, ShapeAssumption
<1> QED BY <1>1, <1>2, <1>3, <1>5, <1>6, NestedAssumption DEF WellFormed, AnyStep

\* The types along a path, each of less depth.
LEMMA PathTypes ==
  ASSUME NEW S \in Types, NEW q, IsPath(S, q)
  PROVE  \A k \in 0..Len(q) :
           /\ ShapeAt(S, Upto(q, k)) \in Types
           /\ ShapeAt(S, Upto(q, k)).depth + k <= S.depth
<1>1. q \in Track /\ Len(q) \in Nat /\ S.depth \in Nat
  BY ShapeAssumption DEF IsPath, Track, WellFormed
<1> DEFINE G(k) == k <= Len(q) => /\ ShapeAt(S, Upto(q, k)) \in Types
                                  /\ ShapeAt(S, Upto(q, k)).depth + k <= S.depth
           P == {k \in Nat : G(k)}
<1>2. 0 \in P
  BY <1>1, UptoEnds, ShapeFacts
<1>3. ASSUME NEW k \in Nat, k \in P PROVE k + 1 \in P
  <2> SUFFICES ASSUME k + 1 <= Len(q) PROVE G(k + 1)
    OBVIOUS
  <2>1. k + 1 \in 1..Len(q) /\ (k + 1) - 1 = k
    BY <1>1
  <2> DEFINE T == ShapeAt(S, Upto(q, k))
             i == q[k + 1]
  <2>2. T \in Types /\ T.depth + k <= S.depth
    BY <1>1, <1>3
  <2>3. i \in Steps(T)
    BY <2>1 DEF IsPath
  <2>4. ShapeAt(S, Upto(q, k + 1)) = Part(T, i)
    BY <1>1, <2>1, ShapeFacts
  <2> HIDE DEF T, i
  <2>5. Part(T, i) \in Types /\ Part(T, i).depth < T.depth /\ Part(T, i).depth \in Nat /\ T.depth \in Nat
    BY <2>2, <2>3, StepFacts
  <2> QED BY <1>1, <2>2, <2>4, <2>5
<1>4. Nat \subseteq P
  <2> HIDE DEF P
  <2> QED BY <1>2, <1>3, NaturalsBySet
<1> QED BY <1>1, <1>4

\* A prefix of a path is one, and so is the path with a step more.
LEMMA PathFacts ==
  ASSUME NEW S \in Types, NEW q, IsPath(S, q)
  PROVE  /\ q \in Track /\ Len(q) \in Nat
         /\ ShapeAt(S, q) \in Types
         /\ \A k \in 0..Len(q) : IsPath(S, Upto(q, k))
         /\ \A i \in Steps(ShapeAt(S, q)) :
              /\ IsPath(S, Append(q, i)) /\ ShapeAt(S, Append(q, i)) = Part(ShapeAt(S, q), i)
              /\ KeyAt(S, Append(q, i)) = PartSlot(KeyAt(S, q), ShapeAt(S, q), i)
<1>1. q \in Track /\ Len(q) \in Nat
  BY DEF IsPath, Track
<1>2. ShapeAt(S, q) \in Types
  BY <1>1, PathTypes, UptoEnds
<1>3. ASSUME NEW k \in 0..Len(q) PROVE IsPath(S, Upto(q, k))
  <2> DEFINE r == Upto(q, k)
  <2>1. r \in Track /\ Len(r) = k /\ \A i \in 1..k : r[i] = q[i]
    BY <1>1, UptoFacts
  <2>2. \A i \in 1..k : Upto(r, i - 1) = Upto(q, i - 1) /\ i \in 1..Len(q)
    BY <1>1, UptoUpto
  <2> HIDE DEF r
  <2>3. IsPath(S, r)
    BY <2>1, <2>2 DEF IsPath
  <2> QED BY <2>3 DEF r
<1>4. ASSUME NEW i \in Steps(ShapeAt(S, q))
      PROVE  /\ IsPath(S, Append(q, i)) /\ ShapeAt(S, Append(q, i)) = Part(ShapeAt(S, q), i)
             /\ KeyAt(S, Append(q, i)) = PartSlot(KeyAt(S, q), ShapeAt(S, q), i)
  <2> DEFINE r == Append(q, i)
  <2>1. i \in AnyStep
    BY <1>2, StepFacts
  <2>2. /\ r \in Track /\ Len(r) = Len(q) + 1 /\ r[Len(q) + 1] = i
        /\ \A k \in 0..Len(q) : Upto(r, k) = Upto(q, k)
    BY <1>1, <2>1, AppendFacts
  <2>3. \A k \in 1..Len(q) : r[k] = q[k]
    BY <1>1 DEF Track
  <2> HIDE DEF r
  <2>4. Upto(r, Len(q)) = q /\ Upto(r, Len(r)) = r
    BY <1>1, <2>2, UptoEnds
  <2>5. Len(r) \in 1..Len(r) /\ Len(r) - 1 = Len(q)
    BY <1>1, <2>2
  <2>6. ASSUME NEW k \in 1..Len(r) PROVE r[k] \in Steps(ShapeAt(S, Upto(r, k - 1)))
    <3>1. CASE k = Len(r)
      BY <2>2, <2>4, <2>5, <3>1
    <3>2. CASE k # Len(r)
      <4>1. k \in 1..Len(q) /\ k - 1 \in 0..Len(q)
        BY <1>1, <2>2, <3>2
      <4> QED BY <2>2, <2>3, <4>1 DEF IsPath
    <3> QED BY <3>1, <3>2
  <2>7. IsPath(S, r)
    BY <2>2, <2>6 DEF IsPath
  <2>8. ShapeAt(S, Upto(r, Len(r))) = Part(ShapeAt(S, Upto(r, Len(r) - 1)), r[Len(r)])
    BY <2>2, <2>5, ShapeFacts
  <2>9. KeyAt(S, Upto(r, Len(r)))
          = PartSlot(KeyAt(S, Upto(r, Len(r) - 1)), ShapeAt(S, Upto(r, Len(r) - 1)), r[Len(r)])
    BY <2>2, <2>5, KeyFacts
  <2> QED BY <2>2, <2>4, <2>5, <2>7, <2>8, <2>9 DEF r
<1> QED BY <1>1, <1>2, <1>3, <1>4

\* What is longer by a step.
LEMMA LongerFacts ==
  ASSUME NEW S, NEW X, NEW q
  PROVE  q \in Longer(S, X) <=> \E p \in X : \E i \in Steps(ShapeAt(S, p)) : q = Append(p, i)
<1> DEFINE After(p) == {Append(p, i) : i \in Steps(ShapeAt(S, p))}
<1>1. Longer(S, X) = UNION {After(p) : p \in X}
  BY DEF Longer
<1>2. \A p : q \in After(p) <=> \E i \in Steps(ShapeAt(S, p)) : q = Append(p, i)
  OBVIOUS
<1> HIDE DEF After
<1>3. q \in UNION {After(p) : p \in X} <=> \E p \in X : q \in After(p)
  OBVIOUS
<1> QED BY <1>1, <1>2, <1>3

\* The layers are the paths by their number of steps.
LEMMA LayerFacts ==
  ASSUME NEW S \in Types, NEW n \in Nat
  PROVE  \A q : q \in Layer(S, n) <=> IsPath(S, q) /\ Len(q) = n
<1> DEFINE G(k) == \A q : q \in Layer(S, k) <=> IsPath(S, q) /\ Len(q) = k
           P == {k \in Nat : G(k)}
<1>1. 0 \in P
  <2>1. Layer(S, 0) = {<< >>}
    BY LayerUnfold
  <2>2. << >> \in Track /\ Len(<< >>) = 0 /\ \A q \in Track : Len(q) = 0 => q = << >>
    BY DEF Track
  <2>3. IsPath(S, << >>)
    BY <2>2 DEF IsPath
  <2>4. G(0)
    BY <2>1, <2>2, <2>3 DEF IsPath
  <2> QED BY <2>4
<1>2. ASSUME NEW k \in Nat, k \in P PROVE k + 1 \in P
  <2>1. G(k)
    BY <1>2
  <2>2. k + 1 \in Nat \ {0} /\ (k + 1) - 1 = k
    OBVIOUS
  <2>3. Layer(S, k + 1) = Longer(S, Layer(S, k))
    BY <2>2, LayerUnfold
  <2>4. ASSUME NEW q, q \in Layer(S, k + 1) PROVE IsPath(S, q) /\ Len(q) = k + 1
    <3>0. PICK p \in Layer(S, k) : \E i \in Steps(ShapeAt(S, p)) : q = Append(p, i)
      BY <2>3, <2>4, LongerFacts
    <3>1. PICK i \in Steps(ShapeAt(S, p)) : q = Append(p, i)
      BY <3>0
    <3>2. IsPath(S, p) /\ Len(p) = k
      BY <2>1
    <3>3. p \in Track /\ i \in AnyStep /\ IsPath(S, q)
      <4>1. ShapeAt(S, p) \in Types /\ p \in Track /\ IsPath(S, q)
        BY <3>1, <3>2, PathFacts
      <4> QED BY <4>1, StepFacts
    <3> QED BY <3>1, <3>2, <3>3, AppendFacts
  <2>5. ASSUME NEW q, IsPath(S, q), Len(q) = k + 1 PROVE q \in Layer(S, k + 1)
    <3> DEFINE p == Upto(q, k)
               i == q[k + 1]
    <3>1. k \in 0..Len(q) /\ k + 1 \in 1..Len(q) /\ q \in Track
      BY <2>5 DEF IsPath
    <3>2. IsPath(S, p) /\ Len(p) = k
      BY <2>5, <3>1, PathFacts, UptoFacts
    <3>3. q = Append(p, i)
      BY <2>2, <2>5, <3>1, UptoEnds
    <3>4. i \in Steps(ShapeAt(S, p))
      BY <2>2, <2>5, <3>1 DEF IsPath
    <3> HIDE DEF p, i
    <3>5. p \in Layer(S, k)
      BY <2>1, <3>2
    <3>6. q \in Longer(S, Layer(S, k))
      BY <3>3, <3>4, <3>5, LongerFacts
    <3> QED BY <2>3, <3>6
  <2>6. G(k + 1)
    BY <2>4, <2>5
  <2> QED BY <2>6
<1>3. Nat \subseteq P
  <2> HIDE DEF P
  <2> QED BY <1>1, <1>2, NaturalsBySet
<1> QED BY <1>3

\* Paths enumerates them all.
LEMMA PathsFacts ==
  ASSUME NEW S \in Types
  PROVE  \A q : q \in Paths(S) <=> IsPath(S, q)
<1>1. S.depth \in Nat
  BY ShapeAssumption DEF WellFormed
<1>2. \A k \in 0..S.depth : \A q : q \in Layer(S, k) <=> IsPath(S, q) /\ Len(q) = k
  BY <1>1, LayerFacts
<1> DEFINE g == CHOOSE g : LayerLoop(S, g, S.depth)
<1>3. Paths(S) = UNION {g[k] : k \in 0..S.depth}
  BY DEF Paths, LayerLoop
<1>4. ASSUME NEW k \in 0..S.depth PROVE g[k] = Layer(S, k)
  <2> DEFINE h == CHOOSE h : LayerLoop(S, h, k)
  <2>1. LayerLoop(S, g, S.depth) /\ LayerLoop(S, h, k)
    BY <1>1, LayerRuns
  <2>2. Layer(S, k) = h[k]
    BY DEF Layer
  <2> HIDE DEF g, h
  <2>3. k \in Nat /\ k <= k /\ k <= S.depth
    BY <1>1
  <2> QED BY <1>1, <2>1, <2>2, <2>3, LayerSame
<1> HIDE DEF g
<1>5. ASSUME NEW q, IsPath(S, q) PROVE Len(q) \in 0..S.depth
  <2>1. q \in Track /\ Len(q) \in Nat
    BY <1>5, PathFacts
  <2>2. Len(q) \in 0..Len(q) /\ Upto(q, Len(q)) = q
    BY <2>1, UptoEnds
  <2>3. ShapeAt(S, q) \in Types /\ ShapeAt(S, q).depth + Len(q) <= S.depth
    BY <1>5, <2>2, PathTypes
  <2>4. ShapeAt(S, q).depth \in Nat
    BY <2>3, ShapeAssumption DEF WellFormed
  <2> QED BY <1>1, <2>1, <2>3, <2>4
<1>6. ASSUME NEW q PROVE q \in Paths(S) <=> \E k \in 0..S.depth : q \in Layer(S, k)
  BY <1>3, <1>4
<1> QED BY <1>2, <1>5, <1>6

-----------------------------------------------------------------------------
(* Keys                                                                    *)

\* The keys that are derived, by what they are derived from.
Labels == {"body", "key"} \X AnyStep
AnyKey == [from : Seq(Nat \X Labels), off : Nat]

\* Key x is in one of the n slots from key on, or is derived from one.
Offset(key, x) == IF Len(x.from) = Len(key.from) THEN x.off ELSE x.from[Len(key.from) + 1][1]

Covers(key, n, x) ==
  /\ Len(key.from) <= Len(x.from)
  /\ \A i \in 1..Len(key.from) : x.from[i] = key.from[i]
  /\ key.off <= Offset(key, x) /\ Offset(key, x) < key.off + n

\* What is added to or derived from a key is a key.
LEMMA KeyTypes ==
  ASSUME NEW key \in AnyKey
  PROVE  /\ key.off \in Nat /\ Len(key.from) \in Nat
         /\ \A n \in Nat : Add(key, n) \in AnyKey
         /\ \A label \in Labels : Hashed(key, label) \in AnyKey
         /\ Body(key) \in AnyKey
         /\ \A k \in AnyStep : Entry(key, k) \in AnyKey
<1>1. key.off \in Nat /\ key.from \in Seq(Nat \X Labels) /\ Len(key.from) \in Nat
  BY DEF AnyKey
<1>2. \A n \in Nat : Add(key, n) \in AnyKey
  BY <1>1 DEF Add, AnyKey
<1>3. ASSUME NEW label \in Labels PROVE Hashed(key, label) \in AnyKey
  <2>1. <<key.off, label>> \in Nat \X Labels
    BY <1>1
  <2>2. Append(key.from, <<key.off, label>>) \in Seq(Nat \X Labels)
    BY <1>1, <2>1
  <2> QED BY <2>2 DEF Hashed, AnyKey
<1>4. <<"body", 0>> \in Labels /\ \A k \in AnyStep : <<"key", k>> \in Labels
  BY DEF Labels, AnyStep
<1> QED BY <1>1, <1>2, <1>3, <1>4 DEF Body, Entry

\* The offset and the derivation of a key that is covered.
LEMMA OffsetFacts ==
  ASSUME NEW key \in AnyKey, NEW x \in AnyKey, Len(key.from) <= Len(x.from)
  PROVE  Offset(key, x) \in Nat
<1>1. key.from \in Seq(Nat \X Labels) /\ x.from \in Seq(Nat \X Labels) /\ x.off \in Nat
  BY DEF AnyKey
<1>2. CASE Len(x.from) = Len(key.from)
  BY <1>1, <1>2 DEF Offset
<1>3. CASE Len(x.from) # Len(key.from)
  <2>1. Len(key.from) + 1 \in 1..Len(x.from)
    BY <1>1, <1>3
  <2>2. x.from[Len(key.from) + 1] \in Nat \X Labels
    BY <1>1, <2>1
  <2> QED BY <1>3, <2>2 DEF Offset
<1> QED BY <1>2, <1>3

\* Fewer slots further on are covered by more.
LEMMA AddCovers ==
  ASSUME NEW key \in AnyKey, NEW x \in AnyKey, NEW a \in Nat, NEW m \in Nat, NEW n \in Nat
  PROVE  /\ Covers(Add(key, a), m, x) /\ a + m <= n => Covers(key, n, x)
         /\ Covers(Add(key, a), m, x) <=>
              /\ Covers(key, a + m, x)
              /\ key.off + a <= Offset(key, x)
<1>1. Add(key, a).from = key.from /\ Add(key, a).off = key.off + a /\ key.off \in Nat
  BY DEF Add, AnyKey
<1>2. Offset(Add(key, a), x) = Offset(key, x)
  BY <1>1 DEF Offset
<1>3. Len(key.from) <= Len(x.from) => Offset(key, x) \in Nat
  BY OffsetFacts
<1> QED BY <1>1, <1>2, <1>3 DEF Covers

\* Slots that do not overlap cover different keys.
LEMMA AddApart ==
  ASSUME NEW key \in AnyKey, NEW x \in AnyKey, NEW a \in Nat, NEW m \in Nat, NEW b \in Nat, NEW n \in Nat,
         a + m <= b
  PROVE  ~(Covers(Add(key, a), m, x) /\ Covers(Add(key, b), n, x))
<1> SUFFICES ASSUME Covers(Add(key, a), m, x), Covers(Add(key, b), n, x) PROVE FALSE
  OBVIOUS
<1>1. key.off + b <= Offset(key, x) /\ Covers(key, a + m, x)
  BY AddCovers
<1>2. Len(key.from) <= Len(x.from) /\ Offset(key, x) < key.off + (a + m)
  BY <1>1 DEF Covers
<1>3. Offset(key, x) \in Nat /\ key.off \in Nat
  BY <1>2, OffsetFacts DEF AnyKey
<1> QED BY <1>1, <1>2, <1>3

\* What is derived from a key is told by its label.
LEMMA HashCovers ==
  ASSUME NEW key \in AnyKey, NEW label \in Labels, NEW x \in AnyKey, NEW a \in Nat, NEW m \in Nat,
         Covers(Add(Hashed(key, label), a), m, x)
  PROVE  /\ Covers(key, 1, x)
         /\ Len(x.from) > Len(key.from)
         /\ x.from[Len(key.from) + 1] = <<key.off, label>>
<1> DEFINE h == Hashed(key, label)
           n == Len(key.from)
<1>1. key.from \in Seq(Nat \X Labels) /\ key.off \in Nat /\ n \in Nat
  BY DEF AnyKey
<1>2. /\ h.from = Append(key.from, <<key.off, label>>)
      /\ Add(h, a).from = h.from
  BY DEF Hashed, Add
<1>3. <<key.off, label>> \in Nat \X Labels
  BY <1>1
<1>4. Len(h.from) = n + 1 /\ h.from[n + 1] = <<key.off, label>> /\ \A i \in 1..n : h.from[i] = key.from[i]
  BY <1>1, <1>2, <1>3
<1>5. Len(h.from) <= Len(x.from) /\ \A i \in 1..Len(h.from) : x.from[i] = h.from[i]
  BY <1>2 DEF Covers
<1>6. n + 1 <= Len(x.from) /\ Len(x.from) \in Nat
  BY <1>4, <1>5 DEF AnyKey
<1> HIDE DEF h
<1>7. x.from[n + 1] = <<key.off, label>> /\ \A i \in 1..n : x.from[i] = key.from[i]
  <2>1. n + 1 \in 1..(n + 1) /\ \A i \in 1..n : i \in 1..(n + 1)
    BY <1>1
  <2> QED BY <1>4, <1>5, <2>1
<1>8. <<key.off, label>>[1] = key.off
  OBVIOUS
<1>9. Offset(key, x) = key.off
  BY <1>1, <1>6, <1>7, <1>8 DEF Offset
<1> QED BY <1>1, <1>6, <1>7, <1>9 DEF Covers

\* The slots of the first parts are those of fewer and more.
LEMMA SlotsOfFacts ==
  ASSUME NEW S \in Types
  PROVE  /\ SlotsOf(S.parts, 0) = 0
         /\ \A k \in 0..Len(S.parts) : SlotsOf(S.parts, k) \in Nat
         /\ \A k \in 1..Len(S.parts) :
              SlotsOf(S.parts, k) = SlotsOf(S.parts, k - 1) + S.parts[k].slots
<1>1. \A k : SlotsOf(S.parts, k) = Slots(S.parts, k)
  BY DEF SlotsOf, Slots, SlotsLoop
<1>2. /\ Slots(S.parts, 0) = 0
      /\ \A k \in Nat \ {0} : Slots(S.parts, k) = Slots(S.parts, k - 1) + S.parts[k].slots
  BY SlotsUnfold
<1>3. S.parts \in Seq(Types) /\ Len(S.parts) \in Nat
  BY ShapeAssumption DEF WellFormed
<1>4. \A k \in 1..Len(S.parts) : S.parts[k] \in Types /\ S.parts[k].slots \in Nat
  BY <1>3, ShapeAssumption DEF WellFormed
<1> DEFINE P == {k \in Nat : k <= Len(S.parts) => Slots(S.parts, k) \in Nat}
<1>5. 0 \in P
  BY <1>2
<1>6. ASSUME NEW k \in Nat, k \in P PROVE k + 1 \in P
  <2> SUFFICES ASSUME k + 1 <= Len(S.parts) PROVE Slots(S.parts, k + 1) \in Nat
    OBVIOUS
  <2>1. k + 1 \in Nat \ {0} /\ (k + 1) - 1 = k /\ k + 1 \in 1..Len(S.parts)
    BY <1>3
  <2>2. Slots(S.parts, k + 1) = Slots(S.parts, k) + S.parts[k + 1].slots
    BY <1>2, <2>1
  <2>3. Slots(S.parts, k) \in Nat /\ S.parts[k + 1].slots \in Nat
    BY <1>3, <1>4, <1>6, <2>1
  <2> QED BY <2>2, <2>3
<1>7. Nat \subseteq P
  <2> HIDE DEF P
  <2> QED BY <1>5, <1>6, NaturalsBySet
<1>8. \A k \in 1..Len(S.parts) : k \in Nat \ {0}
  OBVIOUS
<1> QED BY <1>1, <1>2, <1>3, <1>7, <1>8

\* A part is below the end, and an earlier one below a later one.
LEMMA SlotsOfGrow ==
  ASSUME NEW S \in Types, NEW i \in 1..Len(S.parts), NEW j \in 0..Len(S.parts), i <= j
  PROVE  /\ SlotsOf(S.parts, i - 1) + S.parts[i].slots <= SlotsOf(S.parts, j)
         /\ SlotsOf(S.parts, i - 1) \in Nat /\ S.parts[i].slots \in Nat
<1>1. S.parts \in Seq(Types) /\ Len(S.parts) \in Nat
  BY ShapeAssumption DEF WellFormed
<1>2. \A k \in 1..Len(S.parts) : S.parts[k].slots \in Nat
  BY <1>1, ShapeAssumption DEF WellFormed
<1> DEFINE P == {d \in Nat : i + d <= Len(S.parts) => SlotsOf(S.parts, i) <= SlotsOf(S.parts, i + d)}
<1>3. 0 \in P
  <2>1. i \in 0..Len(S.parts) /\ i + 0 = i
    BY <1>1
  <2>2. SlotsOf(S.parts, i) \in Nat
    BY <2>1, SlotsOfFacts
  <2> QED BY <2>1, <2>2
<1>4. ASSUME NEW d \in Nat, d \in P PROVE d + 1 \in P
  <2> SUFFICES ASSUME i + (d + 1) <= Len(S.parts)
               PROVE  SlotsOf(S.parts, i) <= SlotsOf(S.parts, i + (d + 1))
    OBVIOUS
  <2>1. /\ i + (d + 1) \in 1..Len(S.parts) /\ (i + (d + 1)) - 1 = i + d
        /\ i + d \in 0..Len(S.parts) /\ i \in 0..Len(S.parts) /\ i + d <= Len(S.parts)
    BY <1>1
  <2>2. SlotsOf(S.parts, i + (d + 1)) = SlotsOf(S.parts, i + d) + S.parts[i + (d + 1)].slots
    BY <2>1, SlotsOfFacts
  <2>3. SlotsOf(S.parts, i + d) \in Nat /\ SlotsOf(S.parts, i) \in Nat /\ S.parts[i + (d + 1)].slots \in Nat
    BY <1>2, <2>1, SlotsOfFacts
  <2> QED BY <1>4, <2>1, <2>2, <2>3
<1> HIDE DEF P
<1>5. j - i \in Nat /\ i + (j - i) = j
  BY <1>1
<1>6. j - i \in P
  BY <1>3, <1>4, <1>5, NaturalsBySet
<1>7. SlotsOf(S.parts, i) <= SlotsOf(S.parts, j)
  BY <1>1, <1>5, <1>6 DEF P
<1>8. i - 1 \in 0..Len(S.parts) /\ i \in 1..Len(S.parts)
  BY <1>1
<1> QED BY <1>2, <1>7, <1>8, SlotsOfFacts

\* Elements of the same number of slots do not overlap.
LEMMA StridesGrow ==
  ASSUME NEW i \in Nat, NEW j \in Nat, NEW m \in Nat, i < j
  PROVE  i * m \in Nat /\ j * m \in Nat /\ i * m + m <= j * m
<1>1. (j - i - 1) * m >= 0
  OBVIOUS
<1>2. j * m = i * m + m + (j - i - 1) * m
  OBVIOUS
<1> QED BY <1>1, <1>2

-----------------------------------------------------------------------------
(* What is where                                                           *)

\* Every slot of a field is the struct's, and no other field's.
LEMMA FieldCovers ==
  ASSUME NEW S \in Types, S.kind \in {"struct", "record"}, NEW i \in 1..Len(S.parts), NEW key \in AnyKey
  PROVE  /\ FieldSlot(key, S.parts, i) \in AnyKey
         /\ \A x \in AnyKey : Covers(FieldSlot(key, S.parts, i), S.parts[i].slots, x) =>
              Covers(key, S.slots, x)
<1> DEFINE a == SlotsOf(S.parts, i - 1)
           m == S.parts[i].slots
<1>1. WellFormed(S)
  BY ShapeAssumption
<1>2. FieldSlot(key, S.parts, i) = Add(key, a)
  BY DEF FieldSlot
<1>3. Len(S.parts) \in 0..Len(S.parts) /\ i <= Len(S.parts) /\ S.slots = SlotsOf(S.parts, Len(S.parts))
  BY <1>1 DEF WellFormed
<1>4. a + m <= S.slots /\ a \in Nat /\ m \in Nat /\ S.slots \in Nat
  BY <1>1, <1>3, SlotsOfGrow DEF WellFormed
<1> HIDE DEF a, m
<1>5. Add(key, a) \in AnyKey
  BY <1>4, KeyTypes
<1>6. \A x \in AnyKey : Covers(Add(key, a), m, x) => Covers(key, S.slots, x)
  BY <1>4, AddCovers
<1> QED BY <1>2, <1>5, <1>6 DEF m

\* Two fields of a struct take different slots.
LEMMA FieldsApart ==
  ASSUME NEW S \in Types, NEW i \in 1..Len(S.parts), NEW j \in 1..Len(S.parts), i # j,
         NEW key \in AnyKey, NEW x \in AnyKey,
         Covers(FieldSlot(key, S.parts, i), S.parts[i].slots, x),
         Covers(FieldSlot(key, S.parts, j), S.parts[j].slots, x)
  PROVE  FALSE
<1>1. Len(S.parts) \in Nat
  BY ShapeAssumption DEF WellFormed
<1> DEFINE a(k) == SlotsOf(S.parts, k - 1)
           m(k) == S.parts[k].slots
<1>2. ASSUME NEW k \in 1..Len(S.parts), NEW l \in 1..Len(S.parts), k < l
      PROVE  a(k) + m(k) <= a(l) /\ a(k) \in Nat /\ m(k) \in Nat /\ a(l) \in Nat /\ m(l) \in Nat
  <2>1. l - 1 \in 0..Len(S.parts) /\ k <= l - 1 /\ l \in 0..Len(S.parts) /\ l <= l
    BY <1>1, <1>2
  <2> QED BY <2>1, SlotsOfGrow
<1>3. i < j \/ j < i
  BY <1>1
<1>4. Covers(Add(key, a(i)), m(i), x) /\ Covers(Add(key, a(j)), m(j), x)
  BY DEF FieldSlot
<1> HIDE DEF a, m
<1> QED BY <1>2, <1>3, <1>4, AddApart

\* Every slot of the parts of a value is the value's.
LEMMA PartCovers ==
  ASSUME NEW S \in Types, NEW i \in Steps(S), NEW key \in AnyKey
  PROVE  /\ PartSlot(key, S, i) \in AnyKey
         /\ Part(S, i) \in Types /\ Part(S, i).slots \in Nat /\ S.slots \in Nat
         /\ \A x \in AnyKey : Covers(PartSlot(key, S, i), Part(S, i).slots, x) =>
              /\ Covers(key, S.slots, x)
              /\ S.kind = "vec" => Len(x.from) > Len(key.from)
<1> DEFINE m == Part(S, i).slots
<1>1. WellFormed(S) /\ WellFormed(Part(S, i))
  BY StepFacts, ShapeAssumption
<1>2. /\ i \in AnyStep /\ S.kind \in {"vec", "map", "struct"}
      /\ S.kind = "vec" => i \in 0..(MaxElems - 1)
      /\ S.kind = "struct" => i \in 1..Len(S.parts)
  BY StepFacts
<1>3. m \in Nat /\ S.slots \in Nat
  BY <1>1 DEF WellFormed
<1>4. CASE S.kind = "vec"
  <2>1. PartSlot(key, S, i) = Add(Hashed(key, <<"body", 0>>), i * m)
    BY <1>4 DEF PartSlot, ElementSlot, Body, Part
  <2>2. i * m \in Nat /\ <<"body", 0>> \in Labels /\ S.slots = 1
    <3>1. i \in Nat
      BY <1>2, <1>4, NestedAssumption
    <3>2. i * m \in Nat
      BY <1>3, <3>1
    <3> QED BY <1>1, <1>4, <3>2 DEF Labels, AnyStep, WellFormed
  <2>3. Hashed(key, <<"body", 0>>) \in AnyKey
    BY <2>2, KeyTypes
  <2>4. Add(Hashed(key, <<"body", 0>>), i * m) \in AnyKey
    BY <2>2, <2>3, KeyTypes
  <2>5. \A x \in AnyKey : Covers(Add(Hashed(key, <<"body", 0>>), i * m), m, x) =>
          Covers(key, 1, x) /\ Len(x.from) > Len(key.from)
    BY <1>3, <2>2, HashCovers
  <2> QED BY <1>3, <2>1, <2>2, <2>4, <2>5, StepFacts
<1>5. CASE S.kind = "map"
  <2>1. PartSlot(key, S, i) = Hashed(key, <<"key", i>>)
    BY <1>5 DEF PartSlot, Entry
  <2>2. <<"key", i>> \in Labels /\ S.slots = 1
    BY <1>1, <1>2, <1>5 DEF Labels, WellFormed
  <2>3. Hashed(key, <<"key", i>>) \in AnyKey
    BY <2>2, KeyTypes
  <2>4. Add(Hashed(key, <<"key", i>>), 0) = Hashed(key, <<"key", i>>)
    BY DEF Add, Hashed
  <2>5. \A x \in AnyKey : Covers(Hashed(key, <<"key", i>>), m, x) => Covers(key, 1, x)
    BY <1>3, <2>2, <2>4, HashCovers
  <2> QED BY <1>3, <1>5, <2>1, <2>2, <2>3, <2>5, StepFacts
<1>6. CASE S.kind = "struct"
  <2>1. PartSlot(key, S, i) = FieldSlot(key, S.parts, i) /\ m = S.parts[i].slots
    BY <1>6 DEF PartSlot, Part
  <2> HIDE DEF m
  <2> QED BY <1>2, <1>3, <1>6, <2>1, FieldCovers, StepFacts DEF m
<1> QED BY <1>2, <1>4, <1>5, <1>6

\* Two parts of a value have no slot in common.
LEMMA PartsApart ==
  ASSUME NEW S \in Types, NEW i \in Steps(S), NEW j \in Steps(S), i # j,
         NEW key \in AnyKey, NEW x \in AnyKey,
         Covers(PartSlot(key, S, i), Part(S, i).slots, x),
         Covers(PartSlot(key, S, j), Part(S, j).slots, x)
  PROVE  FALSE
<1>1. WellFormed(S) /\ WellFormed(Part(S, i)) /\ WellFormed(Part(S, j))
  BY StepFacts, ShapeAssumption
<1>2. /\ i \in AnyStep /\ j \in AnyStep /\ S.kind \in {"vec", "map", "struct"}
      /\ S.kind = "vec" => i \in 0..(MaxElems - 1) /\ j \in 0..(MaxElems - 1)
      /\ S.kind = "struct" => i \in 1..Len(S.parts) /\ j \in 1..Len(S.parts)
  BY StepFacts
<1>3. CASE S.kind = "vec"
  <2> DEFINE m == S.parts[1].slots
             b == Body(key)
  <2>1. PartSlot(key, S, i) = Add(b, i * m) /\ PartSlot(key, S, j) = Add(b, j * m)
    BY <1>3 DEF PartSlot, ElementSlot
  <2>2. Part(S, i).slots = m /\ Part(S, j).slots = m /\ m \in Nat
    BY <1>1, <1>3 DEF Part, WellFormed
  <2>3. b \in AnyKey /\ i \in Nat /\ j \in Nat
    BY <1>2, <1>3, KeyTypes, NestedAssumption
  <2> HIDE DEF m, b
  <2>4. /\ i < j => i * m \in Nat /\ j * m \in Nat /\ i * m + m <= j * m
        /\ j < i => i * m \in Nat /\ j * m \in Nat /\ j * m + m <= i * m
    BY <2>2, <2>3, StridesGrow
  <2>5. Covers(Add(b, i * m), m, x) /\ Covers(Add(b, j * m), m, x)
    BY <2>1, <2>2
  <2>6. i < j \/ j < i
    BY <2>3
  <2> QED BY <2>2, <2>3, <2>4, <2>5, <2>6, AddApart
<1>4. CASE S.kind = "map"
  <2>1. PartSlot(key, S, i) = Hashed(key, <<"key", i>>) /\ PartSlot(key, S, j) = Hashed(key, <<"key", j>>)
    BY <1>4 DEF PartSlot, Entry
  <2>2. <<"key", i>> \in Labels /\ <<"key", j>> \in Labels
    BY <1>2 DEF Labels
  <2>3. /\ Add(Hashed(key, <<"key", i>>), 0) = Hashed(key, <<"key", i>>)
        /\ Add(Hashed(key, <<"key", j>>), 0) = Hashed(key, <<"key", j>>)
    BY DEF Add, Hashed
  <2>4. Part(S, i).slots \in Nat /\ Part(S, j).slots \in Nat
    BY <1>1 DEF WellFormed
  <2>5. x.from[Len(key.from) + 1] = <<key.off, <<"key", i>>>>
    BY <2>1, <2>2, <2>3, <2>4, HashCovers
  <2>6. x.from[Len(key.from) + 1] = <<key.off, <<"key", j>>>>
    BY <2>1, <2>2, <2>3, <2>4, HashCovers
  <2> QED BY <2>5, <2>6
<1>5. CASE S.kind = "struct"
  <2>1. /\ PartSlot(key, S, i) = FieldSlot(key, S.parts, i) /\ Part(S, i) = S.parts[i]
        /\ PartSlot(key, S, j) = FieldSlot(key, S.parts, j) /\ Part(S, j) = S.parts[j]
    BY <1>5 DEF PartSlot, Part
  <2> QED BY <1>2, <1>5, <2>1, FieldsApart
<1> QED BY <1>2, <1>3, <1>4, <1>5

\* The keys along a path.
LEMMA PathKeys ==
  ASSUME NEW S \in Types, NEW q, IsPath(S, q)
  PROVE  \A k \in 0..Len(q) : KeyAt(S, Upto(q, k)) \in AnyKey
<1>1. q \in Track /\ Len(q) \in Nat
  BY PathFacts
<1> DEFINE P == {k \in Nat : k <= Len(q) => KeyAt(S, Upto(q, k)) \in AnyKey}
<1>2. 0 \in P
  <2>1. Upto(q, 0) = << >> /\ KeyAt(S, << >>) = Root
    BY <1>1, UptoEnds, KeyFacts
  <2>2. Root \in AnyKey
    BY DEF Root, AnyKey
  <2> QED BY <2>1, <2>2
<1>3. ASSUME NEW k \in Nat, k \in P PROVE k + 1 \in P
  <2> SUFFICES ASSUME k + 1 <= Len(q) PROVE KeyAt(S, Upto(q, k + 1)) \in AnyKey
    OBVIOUS
  <2>1. k + 1 \in 1..Len(q) /\ (k + 1) - 1 = k /\ k \in 0..Len(q)
    BY <1>1
  <2> DEFINE T == ShapeAt(S, Upto(q, k))
             key == KeyAt(S, Upto(q, k))
             i == q[k + 1]
  <2>2. T \in Types /\ key \in AnyKey /\ i \in Steps(T)
    BY <1>3, <2>1, PathTypes DEF IsPath
  <2>3. KeyAt(S, Upto(q, k + 1)) = PartSlot(key, T, i)
    BY <1>1, <2>1, KeyFacts
  <2> HIDE DEF T, key, i
  <2> QED BY <2>2, <2>3, PartCovers
<1>4. Nat \subseteq P
  <2> HIDE DEF P
  <2> QED BY <1>2, <1>3, NaturalsBySet
<1> QED BY <1>4

\* x is in the slots of the value at path q.
InPlace(S, q, x) == Covers(KeyAt(S, q), ShapeAt(S, q).slots, x)

\* What is in the slots of a part is in those of the whole.
LEMMA PathCovers ==
  ASSUME NEW S \in Types, NEW q, IsPath(S, q), NEW x \in AnyKey, InPlace(S, q, x), NEW k \in 0..Len(q)
  PROVE  InPlace(S, Upto(q, k), x)
<1>1. q \in Track /\ Len(q) \in Nat
  BY PathFacts
<1> DEFINE P == {d \in Nat : d <= Len(q) => InPlace(S, Upto(q, Len(q) - d), x)}
<1>2. 0 \in P
  BY <1>1, UptoEnds
<1>3. ASSUME NEW d \in Nat, d \in P PROVE d + 1 \in P
  <2> SUFFICES ASSUME d + 1 <= Len(q) PROVE InPlace(S, Upto(q, Len(q) - (d + 1)), x)
    OBVIOUS
  <2> DEFINE n == Len(q) - d
             T == ShapeAt(S, Upto(q, n - 1))
             key == KeyAt(S, Upto(q, n - 1))
             i == q[n]
  <2>1. n \in 1..Len(q) /\ n - 1 = Len(q) - (d + 1) /\ n - 1 \in 0..Len(q)
    BY <1>1
  <2>2. T \in Types /\ key \in AnyKey /\ i \in Steps(T)
    BY <2>1, PathTypes, PathKeys DEF IsPath
  <2>3. KeyAt(S, Upto(q, n)) = PartSlot(key, T, i) /\ ShapeAt(S, Upto(q, n)) = Part(T, i)
    BY <1>1, <2>1, KeyFacts, ShapeFacts
  <2>4. InPlace(S, Upto(q, n), x)
    BY <1>1, <1>3
  <2>5. Covers(PartSlot(key, T, i), Part(T, i).slots, x)
    BY <2>3, <2>4 DEF InPlace
  <2>6. InPlace(S, Upto(q, n - 1), x) <=> Covers(key, T.slots, x)
    BY DEF InPlace
  <2> HIDE DEF T, key, i, n
  <2>7. Covers(key, T.slots, x)
    BY <2>2, <2>5, PartCovers
  <2> QED BY <2>1, <2>6, <2>7
<1>4. Nat \subseteq P
  <2> HIDE DEF P
  <2> QED BY <1>2, <1>3, NaturalsBySet
<1>5. Len(q) - k \in P /\ Len(q) - (Len(q) - k) = k /\ Len(q) - k <= Len(q)
  BY <1>1, <1>4
<1> HIDE DEF P
<1> QED BY <1>1, <1>5 DEF P

\* Two paths, none a part of the other, part somewhere.
LEMMA PathsPart ==
  ASSUME NEW p \in Track, NEW q \in Track, ~Extends(p, q), ~Extends(q, p)
  PROVE  \E k \in 1..Len(p) : k <= Len(q) /\ p[k] # q[k] /\ Upto(p, k - 1) = Upto(q, k - 1)
<1>1. Len(p) \in Nat /\ Len(q) \in Nat
  BY UptoEnds
<1> DEFINE D == {k \in Nat : k >= 1 /\ k <= Len(p) /\ k <= Len(q) /\ p[k] # q[k]}
<1>2. D # {}
  <2> SUFFICES ASSUME D = {} PROVE FALSE
    OBVIOUS
  <2>1. \A k \in Nat : k >= 1 /\ k <= Len(p) /\ k <= Len(q) => p[k] = q[k]
    OBVIOUS
  <2>2. CASE Len(p) <= Len(q)
    <3>1. Len(p) \in 0..Len(q) /\ \A k \in 1..Len(p) : p[k] = q[k]
      BY <1>1, <2>1, <2>2
    <3>2. /\ Upto(q, Len(p)) \in Track /\ Len(Upto(q, Len(p))) = Len(p)
          /\ \A k \in 1..Len(p) : Upto(q, Len(p))[k] = q[k]
      BY <3>1, UptoFacts
    <3>3. Upto(q, Len(p)) = p
      BY <3>1, <3>2, SameTrack
    <3> QED BY <2>2, <3>3 DEF Extends
  <2>3. CASE ~(Len(p) <= Len(q))
    <3>1. Len(q) \in 0..Len(p) /\ \A k \in 1..Len(q) : p[k] = q[k]
      BY <1>1, <2>1, <2>3
    <3>2. /\ Upto(p, Len(q)) \in Track /\ Len(Upto(p, Len(q))) = Len(q)
          /\ \A k \in 1..Len(q) : Upto(p, Len(q))[k] = p[k]
      BY <3>1, UptoFacts
    <3>3. Upto(p, Len(q)) = q
      BY <3>1, <3>2, SameTrack
    <3> QED BY <1>1, <2>3, <3>3 DEF Extends
  <2> QED BY <2>2, <2>3
<1>3. PICK k \in D : \A j \in D : k <= j
  <2>1. D \subseteq Nat
    OBVIOUS
  <2> HIDE DEF D
  <2> QED BY <1>2, <2>1, LeastNatural
<1>4. k \in 1..Len(p) /\ k <= Len(q) /\ p[k] # q[k] /\ k - 1 \in 0..Len(p) /\ k - 1 \in 0..Len(q)
  BY <1>1
<1>5. \A j \in 1..(k - 1) : p[j] = q[j]
  BY <1>1, <1>3, <1>4
<1> HIDE DEF D
<1>6. /\ Upto(p, k - 1) \in Track /\ Len(Upto(p, k - 1)) = k - 1
      /\ \A j \in 1..(k - 1) : Upto(p, k - 1)[j] = p[j]
  BY <1>4, UptoFacts
<1>7. /\ Upto(q, k - 1) \in Track /\ Len(Upto(q, k - 1)) = k - 1
      /\ \A j \in 1..(k - 1) : Upto(q, k - 1)[j] = q[j]
  BY <1>4, UptoFacts
<1>8. Upto(p, k - 1) = Upto(q, k - 1)
  BY <1>5, <1>6, <1>7, SameTrack
<1> QED BY <1>4, <1>8

\* Values of which none is a part of the other have no slot in common.
LEMMA PlacesApart ==
  ASSUME NEW S \in Types, NEW p, IsPath(S, p), NEW q, IsPath(S, q), NEW x \in AnyKey,
         InPlace(S, p, x), InPlace(S, q, x)
  PROVE  Extends(p, q) \/ Extends(q, p)
<1> SUFFICES ASSUME ~Extends(p, q), ~Extends(q, p) PROVE FALSE
  OBVIOUS
<1>1. p \in Track /\ q \in Track /\ Len(p) \in Nat /\ Len(q) \in Nat
  BY PathFacts
<1>2. PICK k \in 1..Len(p) : k <= Len(q) /\ p[k] # q[k] /\ Upto(p, k - 1) = Upto(q, k - 1)
  BY <1>1, PathsPart
<1>3. k \in 1..Len(q) /\ k \in 0..Len(p) /\ k \in 0..Len(q) /\ k - 1 \in 0..Len(p)
  BY <1>1, <1>2
<1>4. InPlace(S, Upto(p, k), x) /\ InPlace(S, Upto(q, k), x)
  BY <1>3, PathCovers
<1> DEFINE T == ShapeAt(S, Upto(p, k - 1))
           key == KeyAt(S, Upto(p, k - 1))
<1>5. T \in Types /\ key \in AnyKey
  BY <1>3, PathTypes, PathKeys
<1>6. p[k] \in Steps(T) /\ q[k] \in Steps(T)
  BY <1>2, <1>3 DEF IsPath
<1>7. /\ KeyAt(S, Upto(p, k)) = PartSlot(key, T, p[k]) /\ ShapeAt(S, Upto(p, k)) = Part(T, p[k])
      /\ KeyAt(S, Upto(q, k)) = PartSlot(key, T, q[k]) /\ ShapeAt(S, Upto(q, k)) = Part(T, q[k])
  <2>1. KeyAt(S, Upto(p, k)) = PartSlot(key, T, p[k]) /\ ShapeAt(S, Upto(p, k)) = Part(T, p[k])
    BY <1>1, KeyFacts, ShapeFacts
  <2>2. /\ KeyAt(S, Upto(q, k)) = PartSlot(KeyAt(S, Upto(q, k - 1)), ShapeAt(S, Upto(q, k - 1)), q[k])
        /\ ShapeAt(S, Upto(q, k)) = Part(ShapeAt(S, Upto(q, k - 1)), q[k])
    BY <1>1, <1>3, KeyFacts, ShapeFacts
  <2> QED BY <1>2, <2>1, <2>2
<1>8. /\ Covers(PartSlot(key, T, p[k]), Part(T, p[k]).slots, x)
      /\ Covers(PartSlot(key, T, q[k]), Part(T, q[k]).slots, x)
  BY <1>4, <1>7 DEF InPlace
<1> HIDE DEF T, key
<1> QED BY <1>2, <1>5, <1>6, <1>8, PartsApart

-----------------------------------------------------------------------------
(* What a value owns                                                       *)

\* x is in the slots of the value at path p of this contract.
At(p, x) == Covers(Key(p), TypeOf(p).slots, x)

\* The tables of types and keys.
LEMMA PlaceFacts ==
  ASSUME shape \in Shapes
  PROVE  /\ shape \in Types
         /\ DOMAIN TypesAt[shape] = Paths(shape)
         /\ \A p \in Paths(shape) :
              /\ IsPath(shape, p) /\ TypeOf(p) = ShapeAt(shape, p) /\ Key(p) = KeyAt(shape, p)
              /\ \A x : At(p, x) <=> InPlace(shape, p, x)
<1>1. shape \in Types
  BY ShapeAssumption
<1>2. \A p \in Paths(shape) : IsPath(shape, p)
  BY <1>1, PathsFacts
<1>3. TypesAt[shape] = [p \in Paths(shape) |-> ShapeAt(shape, p)]
  BY DEF TypesAt
<1>4. KeysAt[shape] = [p \in Paths(shape) |-> KeyAt(shape, p)]
  BY DEF KeysAt
<1>5. \A p \in Paths(shape) : TypeOf(p) = ShapeAt(shape, p) /\ Key(p) = KeyAt(shape, p)
  BY <1>3, <1>4 DEF TypeOf, Key
<1> QED BY <1>1, <1>2, <1>3, <1>5 DEF At, InPlace

\* The paths of this contract, what they lead to and how they go on.
LEMMA PathBook ==
  ASSUME shape \in Shapes, NEW p \in Paths(shape)
  PROVE  /\ p \in Track /\ Len(p) \in Nat
         /\ TypeOf(p) \in Types /\ WellFormed(TypeOf(p)) /\ Key(p) \in AnyKey
         /\ \A k \in 0..Len(p) : Upto(p, k) \in Paths(shape)
         /\ \A k \in 1..Len(p) :
              /\ p[k] \in Steps(TypeOf(Upto(p, k - 1)))
              /\ TypeOf(Upto(p, k)) = Part(TypeOf(Upto(p, k - 1)), p[k])
              /\ Key(Upto(p, k)) = PartSlot(Key(Upto(p, k - 1)), TypeOf(Upto(p, k - 1)), p[k])
         /\ \A i \in Steps(TypeOf(p)) :
              /\ Append(p, i) \in Paths(shape) /\ i \in AnyStep
              /\ TypeOf(Append(p, i)) = Part(TypeOf(p), i)
              /\ Key(Append(p, i)) = PartSlot(Key(p), TypeOf(p), i)
<1>1. shape \in Types /\ IsPath(shape, p)
  BY PlaceFacts
<1>2. p \in Track /\ Len(p) \in Nat
  BY <1>1, PathFacts
<1>3. \A k \in 0..Len(p) : Upto(p, k) \in Paths(shape)
  BY <1>1, PathFacts, PathsFacts
<1>4. \A q \in Paths(shape) : TypeOf(q) = ShapeAt(shape, q) /\ Key(q) = KeyAt(shape, q)
  BY PlaceFacts
<1>5. Len(p) \in 0..Len(p) /\ Upto(p, Len(p)) = p
  BY <1>2, UptoEnds
<1>6. TypeOf(p) \in Types /\ Key(p) \in AnyKey
  BY <1>1, <1>4, <1>5, PathTypes, PathKeys
<1>7. ASSUME NEW k \in 1..Len(p)
      PROVE  /\ p[k] \in Steps(TypeOf(Upto(p, k - 1)))
             /\ TypeOf(Upto(p, k)) = Part(TypeOf(Upto(p, k - 1)), p[k])
             /\ Key(Upto(p, k)) = PartSlot(Key(Upto(p, k - 1)), TypeOf(Upto(p, k - 1)), p[k])
  <2>1. Upto(p, k) \in Paths(shape) /\ Upto(p, k - 1) \in Paths(shape)
    <3>1. k \in 0..Len(p) /\ k - 1 \in 0..Len(p)
      BY <1>2
    <3> QED BY <1>3, <3>1
  <2>2. p[k] \in Steps(ShapeAt(shape, Upto(p, k - 1)))
    BY <1>1 DEF IsPath
  <2>3. ShapeAt(shape, Upto(p, k)) = Part(ShapeAt(shape, Upto(p, k - 1)), p[k])
    BY <1>2, ShapeFacts
  <2>4. KeyAt(shape, Upto(p, k))
          = PartSlot(KeyAt(shape, Upto(p, k - 1)), ShapeAt(shape, Upto(p, k - 1)), p[k])
    BY <1>2, KeyFacts
  <2> QED BY <1>4, <2>1, <2>2, <2>3, <2>4
<1>8. ASSUME NEW i \in Steps(TypeOf(p))
      PROVE  /\ Append(p, i) \in Paths(shape) /\ i \in AnyStep
             /\ TypeOf(Append(p, i)) = Part(TypeOf(p), i)
             /\ Key(Append(p, i)) = PartSlot(Key(p), TypeOf(p), i)
  <2>1. i \in Steps(ShapeAt(shape, p))
    BY <1>4
  <2>2. /\ IsPath(shape, Append(p, i)) /\ ShapeAt(shape, Append(p, i)) = Part(ShapeAt(shape, p), i)
        /\ KeyAt(shape, Append(p, i)) = PartSlot(KeyAt(shape, p), ShapeAt(shape, p), i)
    BY <1>1, <2>1, PathFacts
  <2>3. Append(p, i) \in Paths(shape)
    BY <1>1, <2>2, PathsFacts
  <2> QED BY <1>4, <1>6, <2>2, <2>3, StepFacts
<1> QED BY <1>2, <1>3, <1>6, <1>7, <1>8, ShapeAssumption

\* A key's own slots.
LEMMA CoversSelf ==
  ASSUME NEW key \in AnyKey, NEW a \in Nat, NEW n \in Nat, a < n
  PROVE  Add(key, a) \in AnyKey /\ Covers(key, n, Add(key, a)) /\ Add(key, 0) = key
<1>1. Add(key, a).from = key.from /\ Add(key, a).off = key.off + a /\ key.off \in Nat
  BY DEF Add, AnyKey
<1>2. Offset(key, Add(key, a)) = key.off + a
  BY <1>1 DEF Offset
<1>3. Add(key, 0) = key
  BY DEF Add, AnyKey
<1>4. Len(key.from) \in Nat
  BY KeyTypes
<1> QED BY <1>1, <1>2, <1>3, <1>4, KeyTypes DEF Covers

\* The slots of a field are in its place.
LEMMA FieldOwns ==
  ASSUME NEW st, NEW S \in Types, S.kind \in {"static", "text"}, NEW key \in AnyKey,
         NEW x \in FieldSlots(st, key, S)
  PROVE  x \in AnyKey /\ Covers(key, S.slots, x)
<1>1. WellFormed(S)
  BY ShapeAssumption
<1>2. CASE S.kind = "static"
  <2>1. PICK a \in 0..(S.slots - 1) : x = Add(key, a)
    BY <1>2 DEF FieldSlots, Run
  <2>2. a \in Nat /\ a < S.slots /\ S.slots \in Nat
    BY <1>1, <2>1 DEF WellFormed
  <2> QED BY <2>1, <2>2, CoversSelf
<1>3. CASE S.kind = "text" /\ x = key
  <2>1. S.slots = 1
    BY <1>1, <1>3 DEF WellFormed
  <2> QED BY <1>3, <2>1, CoversSelf
<1>4. CASE S.kind = "text" /\ x # key
  <2>1. x \in Run(Body(key), OldChunks(Slot32(st, key)))
    BY <1>4 DEF FieldSlots
  <2>2. PICK a \in 0..(OldChunks(Slot32(st, key)) - 1) : x = Add(Body(key), a)
    BY <2>1 DEF Run
  <2>3. a \in Nat /\ <<"body", 0>> \in Labels /\ Body(key) = Hashed(key, <<"body", 0>>) /\ Body(key) \in AnyKey
    BY KeyTypes DEF Labels, AnyStep, Body
  <2>4. x \in AnyKey /\ Add(Body(key), a) \in AnyKey /\ Add(Add(Body(key), a), 0) = Add(Body(key), a)
    BY <2>2, <2>3, KeyTypes, CoversSelf
  <2>5. Covers(Add(Body(key), a), 1, x)
    BY <2>2, <2>4, CoversSelf
  <2>6. Covers(key, 1, x)
    BY <2>3, <2>4, <2>5, HashCovers
  <2> QED BY <1>1, <1>4, <2>4, <2>6 DEF WellFormed
<1> QED BY <1>2, <1>3, <1>4

\* What a value owns is in its place; a vec owns the slot of its length, and
\* maps and structs own none.
LEMMA OwnFacts ==
  ASSUME shape \in Shapes, NEW st, NEW p \in Paths(shape), NEW x \in OwnSlots(st, p)
  PROVE  /\ x \in AnyKey /\ At(p, x)
         /\ TypeOf(p).kind \in {"static", "text", "record", "vec"}
         /\ TypeOf(p).kind = "vec" => x = Key(p)
<1> DEFINE S == TypeOf(p)
           key == Key(p)
<1>1. S \in Types /\ WellFormed(S) /\ key \in AnyKey
  BY PathBook
<1>2. OwnSlots(st, p) =
        CASE S.kind \in {"static", "text"} -> FieldSlots(st, key, S)
          [] S.kind = "record" ->
               UNION {FieldSlots(st, FieldSlot(key, S.parts, f), S.parts[f]) : f \in 1..Len(S.parts)}
          [] S.kind = "vec" -> {key}
          [] OTHER -> {}
  BY DEF OwnSlots
<1>3. At(p, x) <=> Covers(key, S.slots, x)
  BY DEF At
<1> HIDE DEF S, key
<1>4. CASE S.kind \in {"static", "text"}
  <2>1. x \in FieldSlots(st, key, S)
    BY <1>2, <1>4
  <2> QED BY <1>1, <1>3, <1>4, <2>1, FieldOwns DEF S
<1>5. CASE S.kind = "record"
  <2>1. x \in UNION {FieldSlots(st, FieldSlot(key, S.parts, f), S.parts[f]) : f \in 1..Len(S.parts)}
    BY <1>2, <1>5
  <2>2. PICK f \in 1..Len(S.parts) : x \in FieldSlots(st, FieldSlot(key, S.parts, f), S.parts[f])
    BY <2>1
  <2>3. S.parts[f] \in Types /\ S.parts[f].kind \in {"static", "text"}
    BY <1>1, <1>5 DEF WellFormed
  <2>4. FieldSlot(key, S.parts, f) \in AnyKey
    BY <1>1, <1>5, FieldCovers
  <2>5. x \in AnyKey /\ Covers(FieldSlot(key, S.parts, f), S.parts[f].slots, x)
    BY <2>2, <2>3, <2>4, FieldOwns
  <2>6. Covers(key, S.slots, x)
    BY <1>1, <1>5, <2>5, FieldCovers
  <2> QED BY <1>3, <1>5, <2>5, <2>6 DEF S
<1>6. CASE S.kind = "vec"
  <2>1. x = key /\ S.slots = 1
    BY <1>1, <1>2, <1>6 DEF WellFormed
  <2>2. Covers(key, 1, key)
    BY <1>1, CoversSelf
  <2> QED BY <1>1, <1>3, <1>6, <2>1, <2>2 DEF S, key
<1>7. S.kind \in {"static", "text", "record", "vec"}
  BY <1>2
<1> QED BY <1>4, <1>5, <1>6, <1>7

\* A slot in the place of one value and owned by another is owned by a part.
LEMMA OwnerInside ==
  ASSUME shape \in Shapes, NEW st, NEW p \in Paths(shape), NEW q \in Paths(shape),
         NEW x \in OwnSlots(st, q), At(p, x)
  PROVE  Extends(q, p)
<1>1. x \in AnyKey /\ At(q, x) /\ IsPath(shape, p) /\ IsPath(shape, q) /\ shape \in Types
  BY OwnFacts, PlaceFacts
<1>2. InPlace(shape, p, x) /\ InPlace(shape, q, x)
  BY <1>1, PlaceFacts
<1>3. Extends(p, q) \/ Extends(q, p)
  BY <1>1, <1>2, PlacesApart
<1> SUFFICES ASSUME Extends(p, q), p # q PROVE FALSE
  BY <1>3, PathBook, UptoEnds DEF Extends
<1>4. /\ p \in Track /\ Len(p) \in Nat /\ Len(q) \in Nat
      /\ Upto(p, Len(q)) = q /\ Upto(p, Len(p)) = p /\ Len(q) <= Len(p)
  BY PathBook, UptoEnds DEF Extends
<1> DEFINE k == Len(q) + 1
<1>5. k \in 1..Len(p) /\ k - 1 = Len(q) /\ k \in 0..Len(p)
  BY <1>4
<1>6. /\ p[k] \in Steps(TypeOf(q))
      /\ TypeOf(Upto(p, k)) = Part(TypeOf(q), p[k]) /\ Key(Upto(p, k)) = PartSlot(Key(q), TypeOf(q), p[k])
  BY <1>4, <1>5, PathBook
<1>7. InPlace(shape, Upto(p, k), x)
  BY <1>1, <1>2, <1>5, PathCovers
<1>8. At(Upto(p, k), x)
  BY <1>5, <1>7, PathBook, PlaceFacts
<1> HIDE DEF k
<1> DEFINE S == TypeOf(q)
           i == p[k]
<1>9. S \in Types /\ i \in Steps(S) /\ Key(q) \in AnyKey
  BY <1>6, PathBook
<1>10. Covers(PartSlot(Key(q), S, i), Part(S, i).slots, x)
  BY <1>6, <1>8 DEF At
<1>11. S.kind \in {"vec", "map", "struct"}
  BY <1>9, StepFacts
<1>12. S.kind = "vec" /\ x = Key(q)
  BY <1>11, OwnFacts
<1> HIDE DEF S, i
<1>13. Len(x.from) > Len(Key(q).from)
  BY <1>1, <1>9, <1>10, <1>12, PartCovers
<1>14. Len(x.from) \in Nat
  BY <1>1, KeyTypes
<1> QED BY <1>12, <1>13, <1>14

\* No slot is owned twice.
LEMMA OneOwner ==
  ASSUME shape \in Shapes, NEW st, NEW su, NEW p \in Paths(shape), NEW q \in Paths(shape),
         NEW x \in OwnSlots(st, p), x \in OwnSlots(su, q)
  PROVE  p = q
<1>1. At(p, x) /\ At(q, x)
  BY OwnFacts
<1>2. Extends(p, q) /\ Extends(q, p)
  BY <1>1, OwnerInside
<1> QED BY <1>2, PathBook, UptoEnds DEF Extends

-----------------------------------------------------------------------------
(* Slots                                                                   *)

\* A number is its quotient and its remainder.
LEMMA DivMod ==
  ASSUME NEW p \in Nat \ {0}, NEW i \in Nat
  PROVE  /\ (i \div p) * p + (i % p) = i
         /\ i \div p \in Nat /\ i % p \in 0..(p - 1)
OBVIOUS

\* The layout of a slot.
LEMMA WidthFacts ==
  /\ Width \in Nat /\ Width > 1 /\ LowByte = Width - 1
  /\ LowByte \in Positions /\ \A p : p \in Positions <=> p \in Nat /\ p < Width
BY WidthAssumption DEF LowByte, Positions

\* A number in a slot.
LEMMA WordSlotFacts ==
  /\ ZeroSlot \in Slot /\ ZeroSlot[LowByte] = 0
  /\ \A n \in 0..255 : /\ WordSlot(n) \in Slot /\ WordSlot(n)[LowByte] = n
                       /\ \A p \in Positions \ {LowByte} : WordSlot(n)[p] = 0
                       /\ WordSlot(n) = ZeroSlot <=> n = 0
<1>1. LowByte \in Positions
  BY WidthFacts
<1>2. ZeroSlot \in Slot /\ ZeroSlot[LowByte] = 0
  BY <1>1 DEF ZeroSlot, Slot
<1>3. ASSUME NEW n \in 0..255
      PROVE  /\ WordSlot(n) \in Slot /\ WordSlot(n)[LowByte] = n
             /\ \A p \in Positions \ {LowByte} : WordSlot(n)[p] = 0
             /\ WordSlot(n) = ZeroSlot <=> n = 0
  <2>1. WordSlot(n) \in Slot
    BY DEF WordSlot, Slot
  <2>2. WordSlot(n)[LowByte] = n /\ \A p \in Positions \ {LowByte} : WordSlot(n)[p] = 0
    BY <1>1 DEF WordSlot
  <2>3. n = 0 => WordSlot(n) = ZeroSlot
    BY DEF WordSlot, ZeroSlot
  <2> QED BY <1>2, <2>1, <2>2, <2>3
<1> QED BY <1>2, <1>3

\* The chunks of any slot taken for a header.
LEMMA OldChunksFacts ==
  /\ \A h \in Slot : OldChunks(h) \in Nat
  /\ OldChunks(ZeroSlot) = 0
<1>1. ASSUME NEW h \in Slot PROVE OldChunks(h) \in Nat
  <2>1. h[LowByte] \in 0..255
    BY WidthFacts DEF Slot
  <2>2. h[LowByte] \div 2 \in Nat
    BY <2>1
  <2>3. HeaderLen(h) \in Nat
    BY <2>2, WidthFacts DEF HeaderLen
  <2>4. (HeaderLen(h) + Width - 1) \div Width \in Nat
    <3> HIDE DEF HeaderLen
    <3>1. HeaderLen(h) + Width - 1 \in Nat /\ Width \in Nat \ {0}
      BY <2>3, WidthFacts
    <3> QED BY <3>1
  <2> QED BY <2>4 DEF OldChunks, Chunks
<1>2. OldChunks(ZeroSlot) = 0
  BY WordSlotFacts DEF OldChunks, Spilled
<1> QED BY <1>1, <1>2

\* The bytes of a string.
LEMMA ByteFacts ==
  ASSUME NEW v \in Seq(0..255)
  PROVE  Len(v) \in Nat /\ \A k \in 1..Len(v) : v[k] \in 0..255
<1> DEFINE Bytes == 0..255
<1>1. v \in Seq(Bytes)
  OBVIOUS
<1> HIDE DEF Bytes
<1>2. Len(v) \in Nat /\ \A k \in 1..Len(v) : v[k] \in Bytes
  BY <1>1
<1> QED BY <1>2 DEF Bytes

\* The header of a string is a slot, not zero, from which its length and its
\* chunks are read.
LEMMA HeaderFacts ==
  ASSUME NEW v \in Strings
  PROVE  /\ v \in Seq(0..255) /\ Len(v) \in Nat
         /\ Header(v) \in Slot /\ Header(v) # ZeroSlot
         /\ HeaderLen(Header(v)) = Len(v)
         /\ Spilled(Header(v)) <=> Len(v) >= Width
         /\ OldChunks(Header(v)) = NewChunks(Len(v)) /\ NewChunks(Len(v)) \in Nat
         /\ Len(v) < Width => \A k \in 1..Len(v) : Header(v)[k - 1] = v[k]
<1> DEFINE n == Len(v)
           h == Header(v)
<1>0. Strings \subseteq Seq(0..255) /\ \A w \in Strings : 2 * Len(w) + 1 < 256
  BY NestedAssumption
<1>1. v \in Seq(0..255) /\ n \in Nat /\ 2 * n + 1 < 256 /\ \A k \in 1..n : v[k] \in 0..255
  <2>1. v \in Seq(0..255) /\ 2 * Len(v) + 1 < 256
    BY <1>0
  <2>2. Len(v) \in Nat /\ \A k \in 1..Len(v) : v[k] \in 0..255
    BY <2>1, ByteFacts
  <2> QED BY <2>1, <2>2
<1>2. CASE n < Width
  <2>1. h = [p \in Positions |->
               IF p = LowByte THEN 2 * n
               ELSE IF p < n THEN v[p + 1]
               ELSE IF v = << >> /\ p = LowByte - 1 THEN Sentinel ELSE 0]
    BY <1>2 DEF Header, InlineHeader
  <2>2. h[LowByte] = 2 * n
    BY <2>1, WidthFacts
  <2>3. ASSUME NEW k \in 1..n PROVE h[k - 1] = v[k]
    <3>1. k - 1 \in Positions /\ k - 1 # LowByte /\ k - 1 < n /\ (k - 1) + 1 = k
      BY <1>1, <1>2, WidthFacts
    <3> QED BY <2>1, <3>1
  <2>4. h \in Slot
    <3>1. \A p \in Positions : p < n => v[p + 1] \in 0..255
      BY <1>1, WidthFacts
    <3>2. 2 * n \in 0..255 /\ Sentinel \in 0..255 /\ 0 \in 0..255
      <4> HIDE DEF n
      <4> QED BY <1>1 DEF Sentinel
    <3> QED BY <2>1, <3>1, <3>2 DEF Slot
  <2>5. h # ZeroSlot
    <3>1. CASE n = 0
      <4>1. v = << >> /\ LowByte - 1 \in Positions /\ LowByte - 1 # LowByte /\ ~(LowByte - 1 < n)
        BY <1>1, <3>1, WidthFacts
      <4>2. h[LowByte - 1] = 1
        BY <2>1, <4>1 DEF Sentinel
      <4>3. ZeroSlot[LowByte - 1] = 0
        BY <4>1 DEF ZeroSlot
      <4> QED BY <4>2, <4>3
    <3>2. CASE n # 0
      <4>1. 2 * n # 0
        <5> HIDE DEF n
        <5> QED BY <1>1, <3>2
      <4> QED BY <2>2, <4>1, WordSlotFacts
    <3> QED BY <3>1, <3>2
  <2> HIDE DEF h, n
  <2>6. (2 * n) % 2 = 0 /\ (2 * n) \div 2 = n
    BY <1>1
  <2>7. ~Spilled(h) /\ HeaderLen(h) = n
    BY <1>2, <2>2, <2>6 DEF Spilled, HeaderLen
  <2>8. OldChunks(h) = 0 /\ NewChunks(n) = 0
    BY <1>2, <2>7 DEF OldChunks, NewChunks
  <2> QED BY <1>1, <1>2, <2>3, <2>4, <2>5, <2>7, <2>8, WidthFacts DEF h, n
<1>3. CASE n >= Width
  <2>0. ~(n < Width) /\ 2 * n + 1 \in 0..255 /\ 2 * n + 1 # 0
    <3> HIDE DEF n
    <3> QED BY <1>1, <1>3, WidthFacts
  <2>1. h = WordSlot(2 * n + 1)
    BY <2>0 DEF Header, LongHeader
  <2>2. h \in Slot /\ h # ZeroSlot /\ h[LowByte] = 2 * n + 1 /\ \A p \in Positions \ {LowByte} : h[p] = 0
    <3> HIDE DEF n, h
    <3> QED BY <2>0, <2>1, WordSlotFacts
  <2> HIDE DEF h, n
  <2>3. (2 * n + 1) % 2 = 1 /\ (2 * n + 1) \div 2 = n
    BY <1>1
  <2>4. Spilled(h) /\ HeaderLen(h) = n
    BY <2>2, <2>3 DEF Spilled, HeaderLen
  <2>5. OldChunks(h) = Chunks(n) /\ NewChunks(n) = Chunks(n)
    BY <1>1, <1>3, <2>4, WidthFacts DEF OldChunks, NewChunks
  <2>6. OldChunks(h) \in Nat
    BY <2>2, OldChunksFacts
  <2> QED BY <1>1, <1>3, <2>2, <2>4, <2>5, <2>6, WidthFacts DEF h, n
<1> QED BY <1>1, <1>2, <1>3, WidthFacts

\* A byte of a spilled string, by its chunk and its place there.
LEMMA ChunkFacts ==
  ASSUME NEW v \in Strings
  PROVE  /\ \A s \in Nat : Chunk(v, s) \in Slot
         /\ \A k \in 1..Len(v) :
              /\ (k - 1) \div Width \in Nat /\ (k - 1) % Width \in Positions
              /\ Len(v) >= Width => (k - 1) \div Width < NewChunks(Len(v))
              /\ Chunk(v, (k - 1) \div Width)[(k - 1) % Width] = v[k]
<1>1. v \in Seq(0..255) /\ Len(v) \in Nat /\ \A k \in 1..Len(v) : v[k] \in 0..255
  <2>1. v \in Seq(0..255)
    BY HeaderFacts
  <2> QED BY <2>1, ByteFacts
<1>2. ASSUME NEW s \in Nat PROVE Chunk(v, s) \in Slot
  <2>1. s * Width \in Nat
    BY WidthFacts
  <2>2. \A p \in Positions : s * Width + p < Len(v) => v[s * Width + p + 1] \in 0..255
    BY <1>1, <2>1, WidthFacts
  <2> QED BY <2>2 DEF Chunk, Slot
<1>3. ASSUME NEW k \in 1..Len(v)
      PROVE  /\ (k - 1) \div Width \in Nat /\ (k - 1) % Width \in Positions
             /\ Len(v) >= Width => (k - 1) \div Width < NewChunks(Len(v))
             /\ Chunk(v, (k - 1) \div Width)[(k - 1) % Width] = v[k]
  <2> DEFINE s == (k - 1) \div Width
             p == (k - 1) % Width
  <2>1. s * Width + p = k - 1 /\ s \in Nat /\ p \in 0..(Width - 1)
    <3>1. k - 1 \in Nat /\ Width \in Nat \ {0}
      BY <1>1, WidthFacts
    <3> QED BY <3>1, DivMod
  <2>2. p \in Positions
    BY <2>1, WidthFacts
  <2> HIDE DEF s, p
  <2>3. s * Width \in Nat
    BY <2>1, WidthFacts
  <2>4. s * Width + p < Len(v) /\ s * Width + p + 1 = k
    BY <1>1, <2>1, <2>2, <2>3, WidthFacts
  <2>5. Chunk(v, s)[p] = v[k]
    BY <2>2, <2>4 DEF Chunk
  <2>6. ASSUME Len(v) >= Width PROVE s < NewChunks(Len(v))
    <3> DEFINE m == Len(v) + Width - 1
               c == m \div Width
    <3>1. NewChunks(Len(v)) = c
      BY <1>1, <2>6, WidthFacts DEF NewChunks, Chunks
    <3>2. m \in Nat /\ m >= s * Width + Width
      BY <1>1, <2>1, <2>3, <2>4, WidthFacts
    <3> HIDE DEF m
    <3>3. c * Width + (m % Width) = m /\ c \in Nat /\ m % Width < Width
      BY <3>2, WidthFacts, DivMod
    <3> HIDE DEF c
    <3>4. ASSUME c <= s PROVE FALSE
      <4>1. c * Width <= s * Width
        BY <2>1, <3>3, <3>4, WidthFacts
      <4>2. c * Width \in Nat /\ m % Width \in Nat
        BY <3>2, <3>3, WidthFacts
      <4> QED BY <2>3, <3>2, <3>3, <4>1, <4>2, WidthFacts
    <3> QED BY <2>1, <3>1, <3>3, <3>4
  <2> QED BY <2>1, <2>2, <2>5, <2>6 DEF s, p
<1> QED BY <1>2, <1>3

-----------------------------------------------------------------------------
(* The storage                                                             *)

\* What storage holds: slots that are not zero.
GoodStore(st) == \A x \in DOMAIN st : x \in AnyKey /\ st[x] \in Slot /\ st[x] # ZeroSlot

\* Key x holds the same.
Same(st, su, x) == (x \in DOMAIN st <=> x \in DOMAIN su) /\ Slot32(st, x) = Slot32(su, x)

\* Any key reads as a slot.
LEMMA Slot32Facts ==
  ASSUME NEW st, GoodStore(st)
  PROVE  \A x : /\ Slot32(st, x) \in Slot
                /\ Slot32(st, x) = ZeroSlot <=> x \notin DOMAIN st
                /\ Length(st, x) \in 0..255
<1>1. \A x : Slot32(st, x) = IF x \in DOMAIN st THEN st[x] ELSE ZeroSlot
  BY DEF Slot32
<1>2. \A x : Slot32(st, x) \in Slot /\ (Slot32(st, x) = ZeroSlot <=> x \notin DOMAIN st)
  BY <1>1, WordSlotFacts DEF GoodStore
<1>3. \A h \in Slot : h[LowByte] \in 0..255
  BY WidthFacts DEF Slot
<1> QED BY <1>2, <1>3 DEF Length

\* Zeroing some keys.
LEMMA ZeroFacts ==
  ASSUME NEW st, GoodStore(st), NEW keys
  PROVE  /\ GoodStore(Zero(st, keys))
         /\ \A x : /\ x \notin keys => Same(st, Zero(st, keys), x)
                   /\ x \in keys => x \notin DOMAIN Zero(st, keys)
<1>1. DOMAIN Zero(st, keys) = DOMAIN st \ keys /\ \A x \in DOMAIN st \ keys : Zero(st, keys)[x] = st[x]
  BY DEF Zero
<1> QED BY <1>1 DEF GoodStore, Same, Slot32

\* Putting slots in place.
LEMMA PutFacts ==
  ASSUME NEW st, GoodStore(st), NEW slots,
         \A x \in DOMAIN slots : x \in AnyKey /\ slots[x] \in Slot
  PROVE  /\ GoodStore(Put(st, slots))
         /\ \A x : /\ x \notin DOMAIN slots => Same(st, Put(st, slots), x)
                   /\ x \in DOMAIN slots =>
                        /\ Slot32(Put(st, slots), x) = slots[x]
                        /\ x \in DOMAIN Put(st, slots) <=> slots[x] # ZeroSlot
<1> DEFINE at(x) == IF x \in DOMAIN slots THEN slots[x] ELSE st[x]
           D == {k \in DOMAIN st \union DOMAIN slots : at(k) # ZeroSlot}
<1>1. Put(st, slots) = [x \in D |-> at(x)]
  BY DEF Put
<1>2. DOMAIN Put(st, slots) = D /\ \A x \in D : Put(st, slots)[x] = at(x)
  BY <1>1
<1>3. \A x \in DOMAIN st \union DOMAIN slots : at(x) \in Slot /\ x \in AnyKey
  BY DEF GoodStore
<1>4. \A x \in DOMAIN st : st[x] # ZeroSlot
  BY DEF GoodStore
<1>5. \A x : x \in D <=> (x \in DOMAIN st \/ x \in DOMAIN slots) /\ at(x) # ZeroSlot
  OBVIOUS
<1>6. \A x : /\ x \in DOMAIN slots => at(x) = slots[x]
             /\ x \notin DOMAIN slots => at(x) = st[x]
  OBVIOUS
<1> HIDE DEF at, D
<1>7. GoodStore(Put(st, slots))
  BY <1>2, <1>3, <1>5 DEF GoodStore
<1>8. ASSUME NEW x, x \notin DOMAIN slots PROVE Same(st, Put(st, slots), x)
  BY <1>2, <1>4, <1>5, <1>6, <1>8 DEF Same, Slot32
<1>9. ASSUME NEW x, x \in DOMAIN slots
      PROVE  /\ Slot32(Put(st, slots), x) = slots[x]
             /\ x \in DOMAIN Put(st, slots) <=> slots[x] # ZeroSlot
  BY <1>2, <1>5, <1>6, <1>9 DEF Slot32
<1> QED BY <1>7, <1>8, <1>9

\* Writing a length.
LEMMA WithLengthFacts ==
  ASSUME NEW st, GoodStore(st), NEW key \in AnyKey, NEW n \in 0..255
  PROVE  /\ GoodStore(WithLength(st, key, n))
         /\ Length(WithLength(st, key, n), key) = n
         /\ \A x : x # key => Same(st, WithLength(st, key, n), x)
<1> DEFINE slots == [k \in {key} |-> WordSlot(n)]
<1>1. DOMAIN slots = {key} /\ slots[key] = WordSlot(n) /\ WordSlot(n) \in Slot /\ WordSlot(n)[LowByte] = n
  BY WordSlotFacts
<1>2. WithLength(st, key, n) = Put(st, slots)
  BY DEF WithLength
<1> HIDE DEF slots
<1>3. /\ GoodStore(Put(st, slots))
      /\ \A x : /\ x \notin DOMAIN slots => Same(st, Put(st, slots), x)
                /\ x \in DOMAIN slots => Slot32(Put(st, slots), x) = slots[x]
  BY <1>1, PutFacts
<1> QED BY <1>1, <1>2, <1>3 DEF Length

-----------------------------------------------------------------------------
(* Writing a leaf                                                          *)

\* Every slot that holds something in the place of a field is the field's.
FieldTidy(st, key, S) ==
  \A x \in DOMAIN st : Covers(key, S.slots, x) => x \in FieldSlots(st, key, S)

\* A write to key of S changes nothing elsewhere.
KeepsOthers(st, su, key, S) == \A x \in AnyKey : ~Covers(key, S.slots, x) => Same(st, su, x)

\* The chunks of a string are in its place, each at a key of its own.
LEMMA BodyFacts ==
  ASSUME NEW key \in AnyKey
  PROVE  /\ Body(key) \in AnyKey
         /\ \A s \in Nat : /\ Add(Body(key), s) \in AnyKey /\ Covers(key, 1, Add(Body(key), s))
                           /\ Add(Body(key), s) # key /\ Add(Body(key), s).off = s
         /\ \A s, t \in Nat : Add(Body(key), s) = Add(Body(key), t) => s = t
<1> DEFINE b == Body(key)
<1>1. b \in AnyKey /\ b = Hashed(key, <<"body", 0>>) /\ <<"body", 0>> \in Labels
  BY KeyTypes DEF Body, Labels, AnyStep
<1>2. b.off = 0
  BY DEF Body, Hashed
<1>3. Len(key.from) \in Nat
  BY KeyTypes
<1> HIDE DEF b
<1>4. \A s \in Nat : Add(b, s).off = s
  BY <1>2 DEF Add
<1>5. ASSUME NEW s \in Nat PROVE Add(b, s) \in AnyKey /\ Covers(key, 1, Add(b, s)) /\ Add(b, s) # key
  <2> DEFINE x == Add(b, s)
  <2>1. x \in AnyKey /\ Add(x, 0) = x
    BY <1>1, KeyTypes, CoversSelf
  <2>2. Covers(x, 1, x)
    BY <2>1, CoversSelf
  <2>3. Covers(Add(b, s), 1, x)
    BY <2>2
  <2> HIDE DEF x
  <2>4. Covers(key, 1, x) /\ Len(x.from) > Len(key.from)
    BY <1>1, <2>1, <2>3, HashCovers
  <2>5. x # key
    BY <1>3, <2>4
  <2> QED BY <2>1, <2>4, <2>5 DEF x
<1> QED BY <1>1, <1>4, <1>5 DEF b

\* A field is read, and owns slots, by what is in its place.
LEMMA FieldSame ==
  ASSUME NEW S \in Types, S.kind \in {"static", "text"}, NEW key \in AnyKey, NEW st, NEW su,
         GoodStore(st), \A x \in AnyKey : Covers(key, S.slots, x) => Same(st, su, x)
  PROVE  /\ ReadField(st, key, S) = ReadField(su, key, S)
         /\ FieldSlots(st, key, S) = FieldSlots(su, key, S)
<1>1. WellFormed(S)
  BY ShapeAssumption
<1>2. CASE S.kind = "static"
  <2>1. S.slots \in Nat
    BY <1>1 DEF WellFormed
  <2>2. ASSUME NEW i \in 1..S.slots PROVE Slot32(st, Add(key, i - 1)) = Slot32(su, Add(key, i - 1))
    <3>1. i - 1 \in Nat /\ i - 1 < S.slots
      BY <2>1
    <3> QED BY <2>1, <3>1, CoversSelf DEF Same
  <2> QED BY <1>2, <2>2 DEF ReadField, FieldSlots
<1>3. CASE S.kind = "text"
  <2>1. S.slots = 1
    BY <1>1, <1>3 DEF WellFormed
  <2>2. Slot32(st, key) = Slot32(su, key)
    <3>1. Covers(key, 1, key)
      BY CoversSelf
    <3> QED BY <2>1, <3>1 DEF Same
  <2>3. OldChunks(Slot32(st, key)) \in Nat
    BY Slot32Facts, OldChunksFacts
  <2>4. \A s \in 0..(OldChunks(Slot32(st, key)) - 1) :
          Slot32(st, Add(Body(key), s)) = Slot32(su, Add(Body(key), s))
    BY <2>1, <2>3, BodyFacts DEF Same
  <2> QED BY <1>3, <2>2, <2>4 DEF ReadField, FieldSlots
<1> QED BY <1>2, <1>3

\* Static slots are all written, and read back.
LEMMA StaticWrites ==
  ASSUME NEW S \in Types, S.kind = "static", NEW key \in AnyKey, NEW st, GoodStore(st),
         NEW v \in [1..S.slots -> Words]
  PROVE  LET su == WrittenStatic(st, key, S, v) IN
         /\ GoodStore(su) /\ KeepsOthers(st, su, key, S) /\ ReadField(su, key, S) = v
         /\ FieldTidy(st, key, S) => FieldTidy(su, key, S)
         /\ (\A x \in Run(key, S.slots) : x \notin DOMAIN su) <=> v = BlankField(S)
<1> DEFINE n == S.slots
           slots == [k \in Run(key, n) |-> WordSlot(v[k.off - key.off + 1])]
           su == WrittenStatic(st, key, S, v)
<1>1. n \in Nat /\ key.off \in Nat
  BY ShapeAssumption, KeyTypes DEF WellFormed
<1>2. \A x \in Run(key, n) : \E a \in Nat : a < n /\ x = Add(key, a)
  BY <1>1 DEF Run
<1>3. ASSUME NEW a \in Nat, a < n
      PROVE  /\ Add(key, a) \in Run(key, n) /\ Add(key, a) \in AnyKey /\ Covers(key, n, Add(key, a))
             /\ Add(key, a).off - key.off + 1 = a + 1 /\ v[a + 1] \in 0..255
  <2>1. a \in 0..(n - 1) /\ a + 1 \in 1..n
    BY <1>1, <1>3
  <2>2. v[a + 1] \in 0..255
    BY <2>1, NestedAssumption
  <2>3. Add(key, a).off = key.off + a
    BY DEF Add
  <2>4. Add(key, a) \in Run(key, n)
    BY <2>1 DEF Run
  <2> HIDE DEF n
  <2> QED BY <1>1, <1>3, <2>2, <2>3, <2>4, CoversSelf
<1>4. DOMAIN slots = Run(key, n) /\ \A x \in Run(key, n) : slots[x] = WordSlot(v[x.off - key.off + 1])
  OBVIOUS
<1>5. su = Put(st, slots)
  BY DEF WrittenStatic
<1> HIDE DEF slots, su, n
<1>6. \A a \in Nat : a < n => slots[Add(key, a)] = WordSlot(v[a + 1])
  BY <1>3, <1>4
<1>7. ASSUME NEW x \in DOMAIN slots PROVE x \in AnyKey /\ slots[x] \in Slot
  <2>1. PICK a \in Nat : a < n /\ x = Add(key, a)
    BY <1>2, <1>4
  <2>2. slots[x] = WordSlot(v[a + 1]) /\ v[a + 1] \in 0..255 /\ x \in AnyKey
    BY <1>3, <1>6, <2>1
  <2> QED BY <2>2, WordSlotFacts
<1>8. /\ GoodStore(su)
      /\ \A x : /\ x \notin Run(key, n) => Same(st, su, x)
                /\ x \in Run(key, n) =>
                     Slot32(su, x) = slots[x] /\ (x \in DOMAIN su <=> slots[x] # ZeroSlot)
  BY <1>4, <1>5, <1>7, PutFacts
<1>9. KeepsOthers(st, su, key, S)
  BY <1>2, <1>3, <1>8 DEF KeepsOthers, n
<1>10. \A i \in 1..n : Slot32(su, Add(key, i - 1))[LowByte] = v[i]
  <2> TAKE i \in 1..n
  <2>1. i - 1 \in Nat /\ i - 1 < n /\ (i - 1) + 1 = i
    BY <1>1
  <2>2. slots[Add(key, i - 1)] = WordSlot(v[i]) /\ v[i] \in 0..255
    BY <1>3, <1>6, <2>1
  <2>3. Slot32(su, Add(key, i - 1)) = WordSlot(v[i])
    BY <1>3, <1>8, <2>1, <2>2
  <2> QED BY <2>2, <2>3, WordSlotFacts
<1>11. ReadField(su, key, S) = v
  <2>1. ReadField(su, key, S) = [i \in 1..n |-> Slot32(su, Add(key, i - 1))[LowByte]]
    BY DEF ReadField, n
  <2>2. v = [i \in 1..n |-> v[i]]
    BY DEF n
  <2> QED BY <1>10, <2>1, <2>2
<1>12. ASSUME FieldTidy(st, key, S) PROVE FieldTidy(su, key, S)
  <2> SUFFICES ASSUME NEW x \in DOMAIN su, Covers(key, n, x), x \notin Run(key, n) PROVE FALSE
    BY DEF FieldTidy, FieldSlots, n
  <2>1. x \in DOMAIN st
    BY <1>8 DEF Same
  <2> QED BY <1>12, <2>1 DEF FieldTidy, FieldSlots, n
<1>13. (\A x \in Run(key, n) : x \notin DOMAIN su) <=> v = BlankField(S)
  <2>1. BlankField(S) = [i \in 1..n |-> 0] /\ v = [i \in 1..n |-> v[i]]
    BY DEF BlankField, n
  <2>2. \A a \in Nat : a < n => (Add(key, a) \in DOMAIN su <=> v[a + 1] # 0)
    <3> TAKE a \in Nat
    <3> HAVE a < n
    <3>1. slots[Add(key, a)] = WordSlot(v[a + 1]) /\ v[a + 1] \in 0..255
      BY <1>3, <1>6
    <3>2. Add(key, a) \in DOMAIN su <=> slots[Add(key, a)] # ZeroSlot
      BY <1>3, <1>8
    <3> QED BY <3>1, <3>2, WordSlotFacts
  <2>3. ASSUME v = BlankField(S), NEW x \in Run(key, n) PROVE x \notin DOMAIN su
    <3>1. PICK a \in Nat : a < n /\ x = Add(key, a)
      BY <1>2
    <3>2. v[a + 1] = 0
      BY <1>1, <2>1, <2>3, <3>1
    <3> QED BY <2>2, <3>1, <3>2
  <2>4. ASSUME \A x \in Run(key, n) : x \notin DOMAIN su PROVE v = BlankField(S)
    <3>1. ASSUME NEW i \in 1..n PROVE v[i] = 0
      <4>1. i - 1 \in Nat /\ i - 1 < n /\ (i - 1) + 1 = i
        BY <1>1
      <4> QED BY <1>3, <2>2, <2>4, <4>1
    <3> QED BY <2>1, <3>1
  <2> QED BY <2>3, <2>4
<1> QED BY <1>8, <1>9, <1>11, <1>12, <1>13 DEF n, su

\* A string is written in place of the former one, whose other chunks go, and
\* reads back.
LEMMA TextWrites ==
  ASSUME NEW S \in Types, S.kind = "text", NEW key \in AnyKey, NEW st, GoodStore(st), NEW v \in Strings
  PROVE  LET su == WrittenText(st, key, v) IN
         /\ GoodStore(su) /\ KeepsOthers(st, su, key, S) /\ ReadField(su, key, S) = v
         /\ FieldTidy(st, key, S) => FieldTidy(su, key, S)
         /\ key \in DOMAIN su
<1> DEFINE b == Body(key)
           old == OldChunks(Slot32(st, key))
           new == NewChunks(Len(v))
           freed == {Add(b, s) : s \in Freed(Slot32(st, key), Len(v))}
           chunks == Run(b, new)
           slots == [k \in {key} \union chunks |-> IF k = key THEN Header(v) ELSE Chunk(v, k.off)]
           sz == Zero(st, freed)
           su == WrittenText(st, key, v)
<1>1. /\ old \in Nat /\ new \in Nat /\ Header(v) \in Slot /\ Header(v) # ZeroSlot
      /\ OldChunks(Header(v)) = new /\ HeaderLen(Header(v)) = Len(v)
      /\ \A s \in Nat : Chunk(v, s) \in Slot
  BY Slot32Facts, OldChunksFacts, HeaderFacts, ChunkFacts
<1>2. S.slots = 1
  BY ShapeAssumption DEF WellFormed
<1>3. \A x : x \in freed <=> \E s \in Nat : new <= s /\ s < old /\ x = Add(b, s)
  BY <1>1 DEF Freed
<1>4. \A x : x \in chunks <=> \E s \in Nat : s < new /\ x = Add(b, s)
  BY <1>1 DEF Run
<1>5. /\ DOMAIN slots = {key} \union chunks /\ slots[key] = Header(v)
      /\ \A x \in chunks : x # key => slots[x] = Chunk(v, x.off)
  OBVIOUS
<1>6. su = Put(sz, slots)
  BY DEF WrittenText
<1>7. FieldSlots(st, key, S) = {key} \union Run(b, old)
  BY DEF FieldSlots
<1>8. FieldSlots(su, key, S) = {key} \union Run(b, OldChunks(Slot32(su, key)))
  BY DEF FieldSlots
<1>9. ReadField(su, key, S)
        = Stored(Slot32(su, key), [s \in 0..(OldChunks(Slot32(su, key)) - 1) |-> Slot32(su, Add(b, s))])
  BY DEF ReadField
<1>10. \A s \in Nat : /\ Add(b, s) \in AnyKey /\ Covers(key, 1, Add(b, s)) /\ Add(b, s) # key
                      /\ Add(b, s).off = s
  BY BodyFacts
<1>11. \A x : x \in Run(b, old) <=> \E s \in Nat : s < old /\ x = Add(b, s)
  BY <1>1 DEF Run
<1>12. Covers(key, 1, key)
  BY CoversSelf
<1> HIDE DEF b, old, new, freed, chunks, slots, sz, su
<1>13. \A x \in DOMAIN slots : x \in AnyKey /\ slots[x] \in Slot /\ Covers(key, 1, x)
  <2>1. ASSUME NEW x \in chunks PROVE x \in AnyKey /\ slots[x] \in Slot /\ Covers(key, 1, x)
    <3>1. PICK s \in Nat : s < new /\ x = Add(b, s)
      BY <1>4
    <3>2. slots[x] = Chunk(v, s)
      BY <1>5, <1>10, <3>1
    <3> QED BY <1>1, <1>10, <3>1, <3>2
  <2> QED BY <1>1, <1>5, <1>12, <2>1
<1>14. GoodStore(sz) /\ \A x : x \notin freed => Same(st, sz, x)
  BY ZeroFacts DEF sz
<1>15. /\ GoodStore(su)
       /\ \A x : /\ x \notin DOMAIN slots => Same(sz, su, x)
                 /\ x \in DOMAIN slots =>
                      Slot32(su, x) = slots[x] /\ (x \in DOMAIN su <=> slots[x] # ZeroSlot)
  BY <1>6, <1>13, <1>14, PutFacts
<1>16. Slot32(su, key) = Header(v) /\ key \in DOMAIN su
  BY <1>1, <1>5, <1>15
<1>17. KeepsOthers(st, su, key, S)
  <2> SUFFICES ASSUME NEW x \in AnyKey, ~Covers(key, 1, x) PROVE Same(st, su, x)
    BY <1>2 DEF KeepsOthers
  <2>1. x \notin freed /\ x \notin DOMAIN slots
    BY <1>3, <1>10, <1>13
  <2> QED BY <1>14, <1>15, <2>1 DEF Same
<1>18. ASSUME NEW s \in Nat, s < new PROVE Slot32(su, Add(b, s)) = Chunk(v, s)
  BY <1>4, <1>5, <1>10, <1>15, <1>18
<1>19. ReadField(su, key, S) = v
  <2> DEFINE body == [s \in 0..(new - 1) |-> Slot32(su, Add(b, s))]
             out == Stored(Header(v), body)
  <2>1. ReadField(su, key, S) = out
    BY <1>1, <1>9, <1>16
  <2>2. out = [k \in 1..Len(v) |->
                 IF Spilled(Header(v)) THEN body[(k - 1) \div Width][(k - 1) % Width]
                 ELSE Header(v)[k - 1]]
    BY <1>1 DEF Stored
  <2>3. \A s \in Nat : s < new => body[s] = Chunk(v, s)
    BY <1>1, <1>18
  <2> HIDE DEF body, out
  <2>4. ASSUME NEW k \in 1..Len(v)
        PROVE  (IF Spilled(Header(v)) THEN body[(k - 1) \div Width][(k - 1) % Width]
                ELSE Header(v)[k - 1]) = v[k]
    <3>1. CASE Spilled(Header(v))
      <4> DEFINE s == (k - 1) \div Width
                 p == (k - 1) % Width
      <4>1. s \in Nat /\ s < new /\ Chunk(v, s)[p] = v[k]
        BY <3>1, HeaderFacts, ChunkFacts DEF new
      <4> HIDE DEF s, p
      <4>2. body[s][p] = v[k]
        BY <2>3, <4>1
      <4> QED BY <3>1, <4>2 DEF s, p
    <3>2. CASE ~Spilled(Header(v))
      <4>1. Len(v) < Width
        BY <3>2, HeaderFacts, WidthFacts
      <4> QED BY <3>2, <4>1, HeaderFacts
    <3> QED BY <3>1, <3>2
  <2>5. out = [k \in 1..Len(v) |-> v[k]]
    BY <2>2, <2>4
  <2>6. v = [k \in 1..Len(v) |-> v[k]]
    BY HeaderFacts
  <2> QED BY <2>1, <2>5, <2>6
<1>20. ASSUME FieldTidy(st, key, S) PROVE FieldTidy(su, key, S)
  <2> SUFFICES ASSUME NEW x \in DOMAIN su, Covers(key, 1, x), x # key, x \notin chunks PROVE FALSE
    BY <1>1, <1>2, <1>8, <1>16 DEF FieldTidy, chunks
  <2>1. x \notin DOMAIN slots
    BY <1>5
  <2>2. x \in DOMAIN sz
    BY <1>15, <2>1 DEF Same
  <2>3. x \notin freed /\ x \in DOMAIN st
    BY <2>2 DEF sz, Zero
  <2>4. x \in FieldSlots(st, key, S)
    BY <1>2, <1>20, <2>3 DEF FieldTidy
  <2>5. x \in Run(b, old)
    BY <1>7, <2>4
  <2>6. PICK s \in Nat : s < old /\ x = Add(b, s)
    BY <1>11, <2>5
  <2>7. ~(s < new) /\ ~(new <= s)
    BY <1>3, <1>4, <2>3, <2>6
  <2> QED BY <1>1, <2>7
<1> QED BY <1>15, <1>16, <1>17, <1>19, <1>20 DEF su

\* Writing a field, static or a string.
LEMMA FieldWrites ==
  ASSUME NEW S \in Types, S.kind \in {"static", "text"}, NEW key \in AnyKey, NEW st, GoodStore(st),
         NEW v \in FieldValues(S, Strings)
  PROVE  /\ GoodStore(WrittenField(st, key, S, v))
         /\ KeepsOthers(st, WrittenField(st, key, S, v), key, S)
         /\ ReadField(WrittenField(st, key, S, v), key, S) = v
         /\ FieldTidy(st, key, S) => FieldTidy(WrittenField(st, key, S, v), key, S)
         /\ (\A x \in Run(key, S.slots) : x \notin DOMAIN WrittenField(st, key, S, v))
              <=> S.kind = "static" /\ v = BlankField(S)
         /\ S.kind = "text" => key \in DOMAIN WrittenField(st, key, S, v)
<1>1. CASE S.kind = "static"
  <2>1. v \in [1..S.slots -> Words] /\ WrittenField(st, key, S, v) = WrittenStatic(st, key, S, v)
    BY <1>1 DEF FieldValues, WrittenField
  <2> QED BY <1>1, <2>1, StaticWrites
<1>2. CASE S.kind = "text"
  <2>1. v \in Strings /\ WrittenField(st, key, S, v) = WrittenText(st, key, v)
    BY <1>2 DEF FieldValues, WrittenField
  <2>2. key \in Run(key, S.slots)
    <3>1. S.slots = 1
      BY <1>2, ShapeAssumption DEF WellFormed
    <3>2. 0 \in 0..(1 - 1) /\ Add(key, 0) = key
      BY CoversSelf
    <3> QED BY <3>1, <3>2 DEF Run
  <2> QED BY <1>2, <2>1, <2>2, TextWrites
<1> QED BY <1>1, <1>2

\* The slots of a leaf, and that nothing else is in its place.
LeafSlots(st, key, S) ==
  IF S.kind = "record"
  THEN UNION {FieldSlots(st, FieldSlot(key, S.parts, f), S.parts[f]) : f \in 1..Len(S.parts)}
  ELSE FieldSlots(st, key, S)
LeafTidy(st, key, S) ==
  \A x \in DOMAIN st : Covers(key, S.slots, x) => x \in LeafSlots(st, key, S)

\* The fields of a record.
LEMMA RecordFields ==
  ASSUME NEW S \in Types, S.kind = "record", NEW key \in AnyKey
  PROVE  /\ Len(S.parts) \in Nat
         /\ \A f \in 1..Len(S.parts) :
              /\ S.parts[f] \in Types /\ S.parts[f].kind \in {"static", "text"}
              /\ FieldSlot(key, S.parts, f) \in AnyKey
              /\ S.parts[f].kind = "text" => FieldSlot(key, S.parts, f) \in Run(key, S.slots)
         /\ \E f \in 1..Len(S.parts) : S.parts[f].kind = "text"
<1>1. WellFormed(S)
  BY ShapeAssumption
<1>2. Len(S.parts) \in Nat /\ \E f \in 1..Len(S.parts) : S.parts[f].kind = "text"
  BY <1>1 DEF WellFormed
<1>3. \A f \in 1..Len(S.parts) : S.parts[f] \in Types /\ S.parts[f].kind \in {"static", "text"}
  BY <1>1 DEF WellFormed
<1>4. ASSUME NEW f \in 1..Len(S.parts)
      PROVE  /\ FieldSlot(key, S.parts, f) \in AnyKey
             /\ S.parts[f].kind = "text" => FieldSlot(key, S.parts, f) \in Run(key, S.slots)
  <2> DEFINE a == SlotsOf(S.parts, f - 1)
  <2>1. Len(S.parts) \in 0..Len(S.parts) /\ f <= Len(S.parts) /\ S.slots = SlotsOf(S.parts, Len(S.parts))
    BY <1>1 DEF WellFormed
  <2>2. a + S.parts[f].slots <= S.slots /\ a \in Nat /\ S.slots \in Nat
    BY <1>1, <2>1, SlotsOfGrow DEF WellFormed
  <2>3. S.parts[f].kind = "text" => S.parts[f].slots = 1
    BY <1>3, ShapeAssumption DEF WellFormed
  <2>4. FieldSlot(key, S.parts, f) = Add(key, a)
    BY DEF FieldSlot
  <2> HIDE DEF a
  <2>5. S.parts[f].kind = "text" => a \in 0..(S.slots - 1)
    BY <2>2, <2>3
  <2>6. FieldSlot(key, S.parts, f) \in AnyKey
    BY <1>1, FieldCovers
  <2> QED BY <2>4, <2>5, <2>6 DEF Run
<1> QED BY <1>2, <1>3, <1>4

\* A tidy record has tidy fields.
LEMMA TidyFields ==
  ASSUME NEW S \in Types, S.kind = "record", NEW key \in AnyKey, NEW st, GoodStore(st),
         LeafTidy(st, key, S), NEW f \in 1..Len(S.parts)
  PROVE  FieldTidy(st, FieldSlot(key, S.parts, f), S.parts[f])
<1> SUFFICES ASSUME NEW x \in DOMAIN st, Covers(FieldSlot(key, S.parts, f), S.parts[f].slots, x)
             PROVE  x \in FieldSlots(st, FieldSlot(key, S.parts, f), S.parts[f])
  BY DEF FieldTidy
<1>1. x \in AnyKey
  BY DEF GoodStore
<1>2. Covers(key, S.slots, x)
  BY <1>1, FieldCovers
<1>3. x \in LeafSlots(st, key, S)
  BY <1>2 DEF LeafTidy
<1>4. x \in UNION {FieldSlots(st, FieldSlot(key, S.parts, g), S.parts[g]) : g \in 1..Len(S.parts)}
  BY <1>3 DEF LeafSlots
<1>5. PICK g \in 1..Len(S.parts) : x \in FieldSlots(st, FieldSlot(key, S.parts, g), S.parts[g])
  BY <1>4
<1>6. Covers(FieldSlot(key, S.parts, g), S.parts[g].slots, x)
  BY <1>5, RecordFields, FieldOwns
<1>7. g = f
  BY <1>1, <1>6, FieldsApart
<1> QED BY <1>5, <1>7

\* A record is written field by field, none of which disturbs another.
LEMMA RecordWrites ==
  ASSUME NEW st, NEW key, NEW S, NEW v, NEW n, S \in Types, S.kind = "record", key \in AnyKey,
         GoodStore(st), \A f \in 1..Len(S.parts) : v[f] \in FieldValues(S.parts[f], Strings),
         n \in 0..Len(S.parts)
  PROVE  LET su == Writes(st, key, S, v, n) IN
         /\ GoodStore(su) /\ KeepsOthers(st, su, key, S)
         /\ \A f \in 1..n :
              /\ ReadField(su, FieldSlot(key, S.parts, f), S.parts[f]) = v[f]
              /\ FieldTidy(st, FieldSlot(key, S.parts, f), S.parts[f])
                   => FieldTidy(su, FieldSlot(key, S.parts, f), S.parts[f])
              /\ S.parts[f].kind = "text" => FieldSlot(key, S.parts, f) \in DOMAIN su
         /\ \A f \in (n + 1)..Len(S.parts) : \A x \in AnyKey :
              Covers(FieldSlot(key, S.parts, f), S.parts[f].slots, x) => Same(st, su, x)
         /\ \A x \in AnyKey :
              (\A f \in 1..Len(S.parts) : ~Covers(FieldSlot(key, S.parts, f), S.parts[f].slots, x))
                => Same(st, su, x)
<1>0. /\ Writes(st, key, S, v, 0) = st
      /\ \A k \in Nat \ {0} :
           Writes(st, key, S, v, k)
             = WrittenField(Writes(st, key, S, v, k - 1), FieldSlot(key, S.parts, k), S.parts[k], v[k])
  <2>1. Writes(st, key, S, v, 0) = st
    BY WritesUnfold
  <2>2. \A k \in Nat \ {0} : Writes(st, key, S, v, k) = WrittenField(Writes(st, key, S, v, k - 1), FieldSlot(key, S.parts, k), S.parts[k], v[k])
    BY ONLY WritesUnfold
  <2> QED BY <2>1, <2>2
<1> DEFINE W(k) == Writes(st, key, S, v, k)
           m == Len(S.parts)
           at(f) == FieldSlot(key, S.parts, f)
           T(f) == S.parts[f]
           G(k) == k <= m =>
             /\ GoodStore(W(k)) /\ KeepsOthers(st, W(k), key, S)
             /\ \A f \in 1..k :
                  /\ ReadField(W(k), at(f), T(f)) = v[f]
                  /\ FieldTidy(st, at(f), T(f)) => FieldTidy(W(k), at(f), T(f))
                  /\ T(f).kind = "text" => at(f) \in DOMAIN W(k)
             /\ \A f \in (k + 1)..m : \A x \in AnyKey : Covers(at(f), T(f).slots, x) => Same(st, W(k), x)
             /\ \A x \in AnyKey : (\A f \in 1..m : ~Covers(at(f), T(f).slots, x)) => Same(st, W(k), x)
           P == {k \in Nat : G(k)}
<1>1. /\ m \in Nat
      /\ \A f \in 1..m : /\ T(f) \in Types /\ T(f).kind \in {"static", "text"} /\ at(f) \in AnyKey
                         /\ v[f] \in FieldValues(T(f), Strings)
  BY RecordFields
<1>2. /\ W(0) = st
      /\ \A k \in Nat \ {0} : W(k) = WrittenField(W(k - 1), at(k), T(k), v[k])
  BY <1>0
<1>3. \A f \in 1..m : \A x \in AnyKey : Covers(at(f), T(f).slots, x) => Covers(key, S.slots, x)
  BY FieldCovers
<1>4. \A f, g \in 1..m : \A x \in AnyKey :
        f # g => ~(Covers(at(f), T(f).slots, x) /\ Covers(at(g), T(g).slots, x))
  BY FieldsApart
<1> HIDE DEF W, m, at, T
<1>5. G(0)
  BY <1>2 DEF KeepsOthers, Same
<1>6. ASSUME NEW k \in Nat, G(k) PROVE G(k + 1)
  <2> SUFFICES ASSUME k + 1 <= m
               PROVE  /\ GoodStore(W(k + 1)) /\ KeepsOthers(st, W(k + 1), key, S)
                      /\ \A f \in 1..(k + 1) :
                           /\ ReadField(W(k + 1), at(f), T(f)) = v[f]
                           /\ FieldTidy(st, at(f), T(f)) => FieldTidy(W(k + 1), at(f), T(f))
                           /\ T(f).kind = "text" => at(f) \in DOMAIN W(k + 1)
                      /\ \A f \in ((k + 1) + 1)..m : \A x \in AnyKey :
                           Covers(at(f), T(f).slots, x) => Same(st, W(k + 1), x)
                      /\ \A x \in AnyKey :
                           (\A f \in 1..m : ~Covers(at(f), T(f).slots, x)) => Same(st, W(k + 1), x)
    OBVIOUS
  <2>1. k + 1 \in 1..m /\ k + 1 \in Nat \ {0} /\ (k + 1) - 1 = k /\ k <= m /\ k + 1 \in (k + 1)..m
    BY <1>1
  <2>2. /\ GoodStore(W(k)) /\ KeepsOthers(st, W(k), key, S)
        /\ \A f \in 1..k :
             /\ ReadField(W(k), at(f), T(f)) = v[f]
             /\ FieldTidy(st, at(f), T(f)) => FieldTidy(W(k), at(f), T(f))
             /\ T(f).kind = "text" => at(f) \in DOMAIN W(k)
        /\ \A f \in (k + 1)..m : \A x \in AnyKey : Covers(at(f), T(f).slots, x) => Same(st, W(k), x)
        /\ \A x \in AnyKey : (\A f \in 1..m : ~Covers(at(f), T(f).slots, x)) => Same(st, W(k), x)
    BY <1>6, <2>1
  <2> DEFINE g == k + 1
             su == W(k)
             sw == W(k + 1)
  <2>3. sw = WrittenField(su, at(g), T(g), v[g])
    BY <1>2, <2>1
  <2>4. T(g) \in Types /\ T(g).kind \in {"static", "text"} /\ at(g) \in AnyKey /\ v[g] \in FieldValues(T(g), Strings)
    BY <1>1, <2>1
  <2>5. /\ GoodStore(sw) /\ KeepsOthers(su, sw, at(g), T(g)) /\ ReadField(sw, at(g), T(g)) = v[g]
        /\ FieldTidy(su, at(g), T(g)) => FieldTidy(sw, at(g), T(g))
        /\ T(g).kind = "text" => at(g) \in DOMAIN sw
    <3> HIDE DEF g, su, sw
    <3> QED BY <2>2, <2>3, <2>4, FieldWrites DEF su
  <2>6. \A x \in AnyKey : ~Covers(at(g), T(g).slots, x) => Same(su, sw, x)
    BY <2>5 DEF KeepsOthers
  <2>7. KeepsOthers(st, sw, key, S)
    <3> SUFFICES ASSUME NEW x \in AnyKey, ~Covers(key, S.slots, x) PROVE Same(st, sw, x)
      BY DEF KeepsOthers
    <3>1. Same(st, su, x)
      BY <2>2 DEF KeepsOthers
    <3>2. Same(su, sw, x)
      BY <1>3, <2>1, <2>6
    <3> QED BY <3>1, <3>2 DEF Same
  <2>8. FieldTidy(st, at(g), T(g)) => FieldTidy(su, at(g), T(g))
    <3>1. \A x \in AnyKey : Covers(at(g), T(g).slots, x) => Same(st, su, x)
      BY <2>1, <2>2
    <3>2. FieldSlots(st, at(g), T(g)) = FieldSlots(su, at(g), T(g))
      BY <2>4, <3>1, FieldSame
    <3> QED BY <2>2, <3>1, <3>2 DEF FieldTidy, GoodStore, Same
  <2>9. ASSUME NEW f \in 1..m, f # g, NEW x \in AnyKey, Covers(at(f), T(f).slots, x) PROVE Same(su, sw, x)
    BY <1>4, <2>1, <2>6, <2>9
  <2>10. ASSUME NEW f \in 1..k
         PROVE  /\ ReadField(sw, at(f), T(f)) = v[f]
                /\ FieldTidy(st, at(f), T(f)) => FieldTidy(sw, at(f), T(f))
                /\ T(f).kind = "text" => at(f) \in DOMAIN sw
    <3>1. f \in 1..m /\ f # g
      BY <1>1, <2>1
    <3>2. \A x \in AnyKey : Covers(at(f), T(f).slots, x) => Same(su, sw, x)
      BY <2>9, <3>1
    <3>3. T(f) \in Types /\ T(f).kind \in {"static", "text"} /\ at(f) \in AnyKey
      BY <1>1, <3>1
    <3>4. ReadField(sw, at(f), T(f)) = ReadField(su, at(f), T(f)) /\ FieldSlots(sw, at(f), T(f)) = FieldSlots(su, at(f), T(f))
      <4> HIDE DEF su, sw, g
      <4> QED BY <2>2, <3>2, <3>3, FieldSame DEF su
    <3>5. FieldTidy(su, at(f), T(f)) => FieldTidy(sw, at(f), T(f))
      BY <2>5, <3>2, <3>4 DEF FieldTidy, GoodStore, Same
    <3>6. T(f).kind = "text" => Covers(at(f), T(f).slots, at(f))
      <4>1. T(f).kind = "text" => T(f).slots = 1
        BY <3>3, ShapeAssumption DEF WellFormed
      <4>2. Covers(at(f), 1, at(f))
        BY <3>3, CoversSelf
      <4> QED BY <4>1, <4>2
    <3>7. T(f).kind = "text" => at(f) \in DOMAIN sw
      BY <2>2, <3>2, <3>3, <3>6 DEF Same
    <3> QED BY <2>2, <3>4, <3>5, <3>7
  <2>11. \A f \in 1..(k + 1) : f = g \/ f \in 1..k
    BY <1>1
  <2>12. \A f \in ((k + 1) + 1)..m : f \in (k + 1)..m /\ f \in 1..m /\ f # g
    BY <1>1
  <2>13. ASSUME NEW f \in ((k + 1) + 1)..m, NEW x \in AnyKey, Covers(at(f), T(f).slots, x)
         PROVE  Same(st, sw, x)
    BY <2>2, <2>9, <2>12, <2>13 DEF Same
  <2>15. ASSUME NEW x \in AnyKey, \A f \in 1..m : ~Covers(at(f), T(f).slots, x) PROVE Same(st, sw, x)
    <3>1. Same(st, su, x) /\ Same(su, sw, x)
      BY <2>1, <2>2, <2>6, <2>15
    <3> QED BY <3>1 DEF Same
  <2> HIDE DEF g, su, sw
  <2>14. ASSUME NEW f \in 1..(k + 1)
         PROVE  /\ ReadField(sw, at(f), T(f)) = v[f]
                /\ FieldTidy(st, at(f), T(f)) => FieldTidy(sw, at(f), T(f))
                /\ T(f).kind = "text" => at(f) \in DOMAIN sw
    BY <2>5, <2>8, <2>10, <2>11
  <2> QED BY <2>5, <2>7, <2>13, <2>14, <2>15 DEF sw
<1>7. Nat \subseteq P
  <2> HIDE DEF G
  <2>1. 0 \in P /\ \A k \in Nat : k \in P => k + 1 \in P
    BY <1>5, <1>6
  <2> HIDE DEF P
  <2> QED BY <2>1, NaturalsBySet
<1>8. n \in Nat /\ n <= m
  BY <1>1 DEF m
<1>9. G(n)
  <2> HIDE DEF G
  <2> QED BY <1>7, <1>8
<1> QED BY <1>8, <1>9 DEF W, m, at, T

\* Writing a leaf changes nothing elsewhere, frees what the former value had,
\* and reads back; only a static value of zeros leaves nothing.
LEMMA WrittenFacts ==
  ASSUME NEW S \in Types, S.kind \in Leaves, NEW key \in AnyKey, NEW st, GoodStore(st),
         NEW v \in Values(S, Strings)
  PROVE  /\ GoodStore(Written(st, key, S, v))
         /\ KeepsOthers(st, Written(st, key, S, v), key, S)
         /\ LeafTidy(st, key, S) => LeafTidy(Written(st, key, S, v), key, S)
         /\ TryRead(Written(st, key, S, v), key, S)
              = IF S.kind = "static" /\ v = Blank(S) THEN << >> ELSE <<v>>
<1> DEFINE su == Written(st, key, S, v)
<1>1. CASE S.kind # "record"
  <2>1. S.kind \in {"static", "text"} /\ v \in FieldValues(S, Strings) /\ su = WrittenField(st, key, S, v)
    BY <1>1 DEF Leaves, Values, Written
  <2>2. Read(su, key, S) = ReadField(su, key, S) /\ Blank(S) = BlankField(S)
    BY <1>1 DEF Read, Blank
  <2> HIDE DEF su
  <2>3. /\ GoodStore(su) /\ KeepsOthers(st, su, key, S) /\ ReadField(su, key, S) = v
        /\ FieldTidy(st, key, S) => FieldTidy(su, key, S)
        /\ (\A x \in Run(key, S.slots) : x \notin DOMAIN su) <=> S.kind = "static" /\ v = BlankField(S)
    BY <2>1, FieldWrites
  <2>4. TryRead(su, key, S) = IF S.kind = "static" /\ v = Blank(S) THEN << >> ELSE <<v>>
    BY <2>2, <2>3 DEF TryRead
  <2>5. LeafTidy(st, key, S) => LeafTidy(su, key, S)
    BY <1>1, <2>3 DEF LeafTidy, LeafSlots, FieldTidy
  <2> QED BY <2>3, <2>4, <2>5 DEF su
<1>2. CASE S.kind = "record"
  <2> DEFINE m == Len(S.parts)
             at(f) == FieldSlot(key, S.parts, f)
  <2>1. /\ v = [f \in 1..m |-> v[f]]
        /\ \A f \in 1..m : v[f] \in FieldValues(S.parts[f], Strings)
    BY <1>2 DEF Values
  <2>2. su = Writes(st, key, S, v, m)
    BY <1>2 DEF Written, Writes, WritesLoop
  <2>3. m \in 0..m
    BY <1>2, RecordFields
  <2>4. \A f \in 1..m : S.parts[f] \in Types /\ S.parts[f].kind \in {"static", "text"} /\ at(f) \in AnyKey
    BY <1>2, RecordFields
  <2>5. /\ GoodStore(su) /\ KeepsOthers(st, su, key, S)
        /\ \A f \in 1..m :
             /\ ReadField(su, at(f), S.parts[f]) = v[f]
             /\ FieldTidy(st, at(f), S.parts[f]) => FieldTidy(su, at(f), S.parts[f])
             /\ S.parts[f].kind = "text" => at(f) \in DOMAIN su
    <3> DEFINE sw == Writes(st, key, S, v, m)
    <3>1. /\ GoodStore(sw) /\ KeepsOthers(st, sw, key, S)
          /\ \A f \in 1..m :
               /\ ReadField(sw, at(f), S.parts[f]) = v[f]
               /\ FieldTidy(st, at(f), S.parts[f]) => FieldTidy(sw, at(f), S.parts[f])
               /\ S.parts[f].kind = "text" => at(f) \in DOMAIN sw
      BY <1>2, <2>1, <2>3, RecordWrites
    <3> HIDE DEF sw, su
    <3>2. su = sw
      BY <2>2 DEF sw
    <3> QED BY <3>1, <3>2
  <2> HIDE DEF su
  <2>6. Read(su, key, S) = v
    BY <1>2, <2>1, <2>5 DEF Read
  <2>7. TryRead(su, key, S) = <<v>>
    <3>1. PICK f \in 1..m : S.parts[f].kind = "text"
      BY <1>2, RecordFields
    <3>2. at(f) \in Run(key, S.slots) /\ at(f) \in DOMAIN su
      BY <1>2, <2>5, <3>1, RecordFields
    <3> QED BY <2>6, <3>2 DEF TryRead
  <2>8. ASSUME LeafTidy(st, key, S) PROVE LeafTidy(su, key, S)
    <3> SUFFICES ASSUME NEW x \in DOMAIN su, Covers(key, S.slots, x) PROVE x \in LeafSlots(su, key, S)
      BY DEF LeafTidy
    <3>1. x \in AnyKey
      BY <2>5 DEF GoodStore
    <3>2. CASE \E f \in 1..m : Covers(at(f), S.parts[f].slots, x)
      <4>1. PICK f \in 1..m : Covers(at(f), S.parts[f].slots, x)
        BY <3>2
      <4>2. FieldTidy(st, at(f), S.parts[f])
        BY <1>2, <2>8, TidyFields
      <4>3. x \in FieldSlots(su, at(f), S.parts[f])
        BY <2>5, <4>1, <4>2 DEF FieldTidy
      <4> QED BY <1>2, <4>3 DEF LeafSlots
    <3>3. CASE ~\E f \in 1..m : Covers(at(f), S.parts[f].slots, x)
      <4>1. Writes(st, key, S, v, m) = su
        BY <2>2
      <4>2. Same(st, su, x)
        BY <1>2, <2>1, <2>3, <3>1, <3>3, <4>1, RecordWrites
      <4>3. x \in LeafSlots(st, key, S)
        BY <2>8, <4>2 DEF LeafTidy, Same
      <4>4. x \in UNION {FieldSlots(st, at(f), S.parts[f]) : f \in 1..m}
        BY <1>2, <4>3 DEF LeafSlots
      <4>5. PICK f \in 1..m : x \in FieldSlots(st, at(f), S.parts[f])
        BY <4>4
      <4>6. Covers(at(f), S.parts[f].slots, x)
        BY <2>4, <4>5, FieldOwns
      <4> QED BY <3>3, <4>6
    <3> QED BY <3>2, <3>3
  <2> QED BY <1>2, <2>5, <2>7, <2>8 DEF su
<1> QED BY <1>1, <1>2

-----------------------------------------------------------------------------
(* Frames                                                                  *)

\* A leaf is read, and owns slots, by what is in its place.
LEMMA LeafSame ==
  ASSUME NEW S \in Types, S.kind \in Leaves, NEW key \in AnyKey, NEW st, NEW su, GoodStore(st),
         \A x \in AnyKey : Covers(key, S.slots, x) => Same(st, su, x)
  PROVE  /\ Read(st, key, S) = Read(su, key, S) /\ LeafSlots(st, key, S) = LeafSlots(su, key, S)
         /\ TryRead(st, key, S) = TryRead(su, key, S)
<1>1. ASSUME S.kind # "record"
      PROVE  Read(st, key, S) = Read(su, key, S) /\ LeafSlots(st, key, S) = LeafSlots(su, key, S)
  <2>1. S.kind \in {"static", "text"}
    BY <1>1 DEF Leaves
  <2>2. ReadField(st, key, S) = ReadField(su, key, S) /\ FieldSlots(st, key, S) = FieldSlots(su, key, S)
    BY <2>1, FieldSame
  <2> QED BY <1>1, <2>2 DEF Read, LeafSlots
<1>2. ASSUME S.kind = "record"
      PROVE  Read(st, key, S) = Read(su, key, S) /\ LeafSlots(st, key, S) = LeafSlots(su, key, S)
  <2> DEFINE at(f) == FieldSlot(key, S.parts, f)
  <2>1. ASSUME NEW f \in 1..Len(S.parts)
        PROVE  /\ ReadField(st, at(f), S.parts[f]) = ReadField(su, at(f), S.parts[f])
               /\ FieldSlots(st, at(f), S.parts[f]) = FieldSlots(su, at(f), S.parts[f])
    <3>1. S.parts[f] \in Types /\ S.parts[f].kind \in {"static", "text"} /\ at(f) \in AnyKey
      BY <1>2, RecordFields
    <3>2. \A x \in AnyKey : Covers(at(f), S.parts[f].slots, x) => Same(st, su, x)
      BY <1>2, FieldCovers
    <3> QED BY <3>1, <3>2, FieldSame
  <2> QED BY <1>2, <2>1 DEF Read, LeafSlots
<1>3. Read(st, key, S) = Read(su, key, S) /\ LeafSlots(st, key, S) = LeafSlots(su, key, S)
  BY <1>1, <1>2
<1>4. \A x \in Run(key, S.slots) : x \in DOMAIN st <=> x \in DOMAIN su
  <2> TAKE x \in Run(key, S.slots)
  <2>1. S.slots \in Nat
    BY ShapeAssumption DEF WellFormed
  <2>2. PICK a \in 0..(S.slots - 1) : x = Add(key, a)
    BY DEF Run
  <2>3. a \in Nat /\ a < S.slots
    BY <2>1
  <2>4. x \in AnyKey /\ Covers(key, S.slots, x)
    BY <2>1, <2>2, <2>3, CoversSelf
  <2> QED BY <2>4 DEF Same
<1> QED BY <1>3, <1>4 DEF TryRead

\* What each kind of value owns.
LEMMA OwnCases ==
  ASSUME NEW st, NEW p
  PROVE  /\ TypeOf(p).kind \in Leaves => OwnSlots(st, p) = LeafSlots(st, Key(p), TypeOf(p))
         /\ TypeOf(p).kind = "vec" => OwnSlots(st, p) = {Key(p)}
         /\ TypeOf(p).kind \notin Leaves \union {"vec"} => OwnSlots(st, p) = {}
<1> DEFINE S == TypeOf(p)
           key == Key(p)
<1>1. OwnSlots(st, p) =
        CASE S.kind \in {"static", "text"} -> FieldSlots(st, key, S)
          [] S.kind = "record" ->
               UNION {FieldSlots(st, FieldSlot(key, S.parts, f), S.parts[f]) : f \in 1..Len(S.parts)}
          [] S.kind = "vec" -> {key}
          [] OTHER -> {}
  BY DEF OwnSlots
<1> HIDE DEF S, key
<1>2. S.kind = "record" =>
        OwnSlots(st, p)
          = UNION {FieldSlots(st, FieldSlot(key, S.parts, f), S.parts[f]) : f \in 1..Len(S.parts)}
  BY <1>1
<1>3. S.kind \in {"static", "text"} => OwnSlots(st, p) = FieldSlots(st, key, S)
  BY <1>1
<1>4. /\ S.kind = "vec" => OwnSlots(st, p) = {key}
      /\ S.kind \notin Leaves \union {"vec"} => OwnSlots(st, p) = {}
  BY <1>1 DEF Leaves
<1>5. S.kind \in Leaves => OwnSlots(st, p) = LeafSlots(st, key, S)
  BY <1>2, <1>3 DEF Leaves, LeafSlots
<1> QED BY <1>4, <1>5 DEF S, key

\* A value owns slots by what is in its place.
LEMMA OwnSame ==
  ASSUME shape \in Shapes, NEW p \in Paths(shape), NEW st, NEW su, GoodStore(st),
         TypeOf(p).kind \in Leaves => \A x \in AnyKey : At(p, x) => Same(st, su, x)
  PROVE  OwnSlots(st, p) = OwnSlots(su, p)
<1>1. TypeOf(p) \in Types /\ Key(p) \in AnyKey
  BY PathBook
<1>2. CASE TypeOf(p).kind \in Leaves
  <2>1. \A x \in AnyKey : Covers(Key(p), TypeOf(p).slots, x) => Same(st, su, x)
    BY <1>2 DEF At
  <2>2. LeafSlots(st, Key(p), TypeOf(p)) = LeafSlots(su, Key(p), TypeOf(p))
    BY <1>1, <1>2, <2>1, LeafSame
  <2> QED BY <1>2, <2>2, OwnCases
<1>3. CASE TypeOf(p).kind \notin Leaves
  BY <1>3, OwnCases
<1> QED BY <1>2, <1>3

\* A vec owns the slot of its length, whatever is stored.
LEMMA VecOwns ==
  ASSUME shape \in Shapes, NEW p \in Paths(shape), TypeOf(p).kind = "vec", NEW st
  PROVE  Key(p) \in OwnSlots(st, p) /\ Key(p) \in AnyKey /\ At(p, Key(p))
<1>1. Key(p) \in OwnSlots(st, p)
  BY OwnCases
<1> QED BY <1>1, OwnFacts

\* Nothing is inside a leaf.
LEMMA LeafEnds ==
  ASSUME shape \in Shapes, NEW g \in Paths(shape), TypeOf(g).kind \in Leaves,
         NEW q \in Paths(shape), Extends(q, g)
  PROVE  q = g
<1>1. Len(g) \in Nat /\ Len(q) \in Nat /\ q \in Track
  BY PathBook
<1>2. Len(g) <= Len(q) /\ Upto(q, Len(g)) = g
  BY DEF Extends
<1>3. ASSUME Len(g) < Len(q) PROVE FALSE
  <2> DEFINE k == Len(g) + 1
  <2>1. k \in 1..Len(q) /\ k - 1 = Len(g)
    BY <1>1, <1>3
  <2> HIDE DEF k
  <2>2. q[k] \in Steps(TypeOf(g))
    BY <1>2, <2>1, PathBook
  <2> QED BY <2>2 DEF Steps, Leaves
<1>4. Len(g) = Len(q)
  BY <1>1, <1>2, <1>3
<1> QED BY <1>1, <1>2, <1>4, UptoEnds

\* Paths that start alike.
LEMMA PrefixFacts ==
  ASSUME shape \in Shapes, NEW p \in Paths(shape), NEW q \in Paths(shape), NEW k \in 0..Len(q)
  PROVE  /\ Upto(q, k) \in Paths(shape) /\ Len(Upto(q, k)) = k /\ Extends(q, Upto(q, k))
         /\ \A j \in 0..k : Upto(Upto(q, k), j) = Upto(q, j)
         /\ Extends(Upto(q, k), p) <=> Len(p) <= k /\ Extends(q, p)
<1>1. q \in Track /\ Len(q) \in Nat /\ Len(p) \in Nat /\ Upto(q, k) \in Paths(shape)
  BY PathBook
<1>2. Len(Upto(q, k)) = k /\ \A j \in 0..k : Upto(Upto(q, k), j) = Upto(q, j)
  BY <1>1, UptoFacts, UptoUpto
<1>3. Extends(q, Upto(q, k))
  BY <1>1, <1>2 DEF Extends
<1>4. Extends(Upto(q, k), p) <=> Len(p) <= k /\ Extends(q, p)
  <2>1. Len(p) <= k => Len(p) \in 0..k /\ Upto(Upto(q, k), Len(p)) = Upto(q, Len(p)) /\ Len(p) <= Len(q)
    BY <1>1, <1>2
  <2> QED BY <1>2, <2>1 DEF Extends
<1> QED BY <1>1, <1>2, <1>3, <1>4

\* What is held in a value is told by the kinds on the way.
LEMMA HoldsFacts ==
  ASSUME shape \in Shapes, NEW p \in Paths(shape), NEW q \in Paths(shape)
  PROVE  /\ Holds(shape, p, q) <=>
              Extends(q, p) /\ \A k \in (Len(p) + 1)..Len(q) : TypeOf(Upto(q, k - 1)).kind # "map"
         /\ \A n \in 0..Len(q) :
              Holds(shape, p, Upto(q, n)) <=>
                /\ Extends(q, p) /\ Len(p) <= n
                /\ \A k \in (Len(p) + 1)..n : TypeOf(Upto(q, k - 1)).kind # "map"
         /\ Holds(shape, p, p)
<1>1. Len(q) \in Nat /\ Len(p) \in Nat /\ p \in Track /\ Upto(p, Len(p)) = p
  BY PathBook, UptoEnds
<1>2. ASSUME NEW n \in 0..Len(q)
      PROVE  Holds(shape, p, Upto(q, n)) <=>
                /\ Extends(q, p) /\ Len(p) <= n
                /\ \A k \in (Len(p) + 1)..n : TypeOf(Upto(q, k - 1)).kind # "map"
  <2>1. /\ Extends(Upto(q, n), p) <=> Len(p) <= n /\ Extends(q, p)
        /\ Len(Upto(q, n)) = n /\ \A j \in 0..n : Upto(Upto(q, n), j) = Upto(q, j)
    BY PrefixFacts
  <2>2. \A k \in (Len(p) + 1)..n : k - 1 \in 0..n
    BY <1>1
  <2> QED BY <2>1, <2>2 DEF Holds, TypeOf
<1>3. Holds(shape, p, p)
  BY <1>1 DEF Holds, Extends
<1> QED BY <1>2, <1>3 DEF Holds, TypeOf

-----------------------------------------------------------------------------
(* What clearing reaches                                                   *)

\* p is in bounds in st, from the root or from an entry of a mapping.
AliveIn(st, p) ==
  \E n \in 0..Len(p) :
    /\ n = 0 \/ TypeOf(Upto(p, n - 1)).kind = "map"
    /\ InBounds(st, p, n)

\* No vec is longer than the bound.
Short(st) ==
  \A p \in Paths(shape) : TypeOf(p).kind = "vec" => Length(st, Key(p)) <= MaxElems

\* Offsets add up.
LEMMA AddAdd ==
  ASSUME NEW key \in AnyKey, NEW a \in Nat, NEW b \in Nat
  PROVE  Add(Add(key, a), b) = Add(key, a + b)
<1>1. key.off \in Nat
  BY KeyTypes
<1>2. Add(key, a).from = key.from /\ Add(key, a).off = key.off + a
  BY DEF Add
<1>3. (key.off + a) + b = key.off + (a + b)
  BY <1>1
<1> QED BY <1>2, <1>3 DEF Add

\* The elements of a vec of static values are one run of slots.
LEMMA ElementOwns ==
  ASSUME shape \in Shapes, NEW v \in Paths(shape), TypeOf(v).kind = "vec",
         TypeOf(v).parts[1].kind = "static", NEW i \in Steps(TypeOf(v)), NEW st, NEW x
  PROVE  /\ i \in 0..(MaxElems - 1) /\ Append(v, i) \in Paths(shape) /\ TypeOf(v).parts[1].slots \in Nat \ {0}
         /\ x \in OwnSlots(st, Append(v, i)) <=>
              \E r \in 0..(TypeOf(v).parts[1].slots - 1) :
                x = Add(Body(Key(v)), i * TypeOf(v).parts[1].slots + r)
<1> DEFINE S == TypeOf(v)
           E == S.parts[1]
           e == Append(v, i)
           b == Body(Key(v))
<1>1. S \in Types /\ WellFormed(S) /\ Key(v) \in AnyKey
  BY PathBook
<1>2. b \in AnyKey
  BY <1>1, BodyFacts
<1>3. Part(S, i) = E /\ PartSlot(Key(v), S, i) = Add(b, i * E.slots)
  BY DEF Part, PartSlot, ElementSlot
<1>4. i \in 0..(MaxElems - 1) /\ E \in Types
  <2>1. S.kind = "vec" => i \in 0..(MaxElems - 1)
    BY <1>1, StepFacts
  <2>2. Part(S, i) \in Types
    BY <1>1, StepFacts
  <2> QED BY <1>3, <2>1, <2>2
<1>5. WellFormed(E)
  BY <1>4, ShapeAssumption
<1>6. E.slots \in Nat \ {0}
  BY <1>5 DEF WellFormed
<1>7. e \in Paths(shape) /\ TypeOf(e) = E /\ Key(e) = Add(b, i * E.slots)
  BY <1>3, PathBook
<1>8. OwnSlots(st, e) = Run(Key(e), E.slots)
  <2>1. OwnSlots(st, e) = LeafSlots(st, Key(e), E)
    BY <1>7, OwnCases DEF Leaves
  <2> QED BY <2>1 DEF LeafSlots, FieldSlots
<1> HIDE DEF S, E, e, b
<1>9. i \in Nat /\ i * E.slots \in Nat
  BY <1>4, <1>6
<1>10. ASSUME NEW r \in 0..(E.slots - 1)
       PROVE  Add(Key(e), r) = Add(b, i * E.slots + r)
  <2>1. r \in Nat
    BY <1>6
  <2> QED BY <1>2, <1>7, <1>9, <2>1, AddAdd
<1>11. x \in OwnSlots(st, e) <=> \E r \in 0..(E.slots - 1) : x = Add(b, i * E.slots + r)
  BY <1>8, <1>10 DEF Run
<1> QED BY <1>4, <1>6, <1>7, <1>11 DEF S, E, e, b

\* What is cleared is owned by a value that p holds.
LEMMA ErasedOwners ==
  ASSUME shape \in Shapes, NEW p \in Paths(shape), NEW st, GoodStore(st), Short(st),
         NEW y \in Erased(st, p)
  PROVE  \E e \in Paths(shape) : y \in OwnSlots(st, e) /\ Holds(shape, p, e)
<1>1. PICK v \in Visited(st, p) : y \in OwnSlots(st, v) \union Elements(st, v)
  BY DEF Erased
<1>2. v \in Paths(shape) /\ Holds(shape, p, v)
  BY PlaceFacts DEF Visited
<1>3. CASE y \in OwnSlots(st, v)
  BY <1>2, <1>3
<1>4. CASE y \in Elements(st, v)
  <2> DEFINE S == TypeOf(v)
             E == S.parts[1]
             b == Body(Key(v))
             l == Length(st, Key(v))
             s == E.slots
  <2>1. S.kind = "vec" /\ E.kind = "static" /\ y \in Run(b, l * s)
    BY <1>4 DEF Elements, NeedsRecursiveClear
  <2>2. l \in 0..255 /\ l <= MaxElems
    BY <1>2, <2>1, Slot32Facts DEF Short
  <2>3. E \in Types
    <3>1. WellFormed(S)
      BY <1>2, PathBook
    <3>2. S.parts \in Seq(Types) /\ Len(S.parts) = 1
      BY <2>1, <3>1 DEF WellFormed
    <3> QED BY <3>2
  <2>4. WellFormed(E)
    BY <2>3, ShapeAssumption
  <2>5. s \in Nat \ {0}
    BY <2>1, <2>4 DEF WellFormed
  <2>6. PICK m \in 0..(l * s - 1) : y = Add(b, m)
    BY <2>1 DEF Run
  <2> DEFINE i == m \div s
             r == m % s
  <2> HIDE DEF l, s
  <2>7. l * s \in Nat /\ m \in Nat /\ m < l * s
    BY <2>2, <2>5, <2>6
  <2>8. i * s + r = m /\ i \in Nat /\ r \in 0..(s - 1)
    BY <2>5, <2>7, DivMod
  <2> HIDE DEF i, r
  <2>9. i < l
    <3>1. SUFFICES ASSUME i >= l PROVE FALSE
      BY <2>2, <2>8
    <3>2. l * s <= i * s /\ i * s \in Nat
      <4>1. l \in Nat /\ s \in Nat
        BY <2>2, <2>5
      <4>2. CASE l < i
        BY <2>8, <4>1, <4>2, StridesGrow
      <4>3. CASE l = i
        BY <2>7, <4>3
      <4> QED BY <2>8, <3>1, <4>1, <4>2, <4>3
    <3> QED BY <2>7, <2>8, <3>2
  <2>10. i \in Steps(S)
    <3>1. MaxElems \in Nat /\ i \in 0..(MaxElems - 1)
      BY <2>2, <2>8, <2>9, NestedAssumption
    <3> QED BY <2>1, <3>1 DEF Steps
  <2>11. Append(v, i) \in Paths(shape) /\ y \in OwnSlots(st, Append(v, i))
    <3>1. y = Add(b, i * s + r)
      BY <2>6, <2>8
    <3> QED BY <1>2, <2>1, <2>8, <2>10, <3>1, ElementOwns DEF s
  <2>12. Holds(shape, p, Append(v, i))
    <3> DEFINE e == Append(v, i)
               n == Len(v)
    <3>1. e \in Paths(shape) /\ v \in Track /\ i \in AnyStep /\ n \in Nat /\ Len(p) \in Nat
      BY <1>2, <2>10, PathBook
    <3>2. Len(e) = n + 1 /\ \A k \in 0..n : Upto(e, k) = Upto(v, k)
      BY <3>1, AppendFacts
    <3>3. Upto(v, n) = v
      BY <3>1, UptoEnds
    <3> HIDE DEF e, n
    <3>4. n \in 0..n /\ n \in 0..Len(e)
      BY <3>1, <3>2
    <3>5. Upto(e, n) = v
      BY <3>2, <3>3, <3>4
    <3>6. /\ Extends(e, p) /\ Len(p) <= n
          /\ \A k \in (Len(p) + 1)..n : TypeOf(Upto(e, k - 1)).kind # "map"
      BY <1>2, <3>1, <3>4, <3>5, HoldsFacts
    <3>7. TypeOf(Upto(e, n)).kind # "map"
      BY <2>1, <3>5
    <3>8. \A k \in (Len(p) + 1)..Len(e) : k \in (Len(p) + 1)..n \/ k - 1 = n
      BY <3>1, <3>2
    <3> QED BY <3>1, <3>6, <3>7, <3>8, HoldsFacts DEF e
  <2> QED BY <2>11, <2>12
<1> QED BY <1>1, <1>3, <1>4

\* Everything p holds that is in bounds is cleared.
LEMMA ClearReaches ==
  ASSUME shape \in Shapes, NEW p \in Paths(shape), NEW st, GoodStore(st),
         NEW q \in Paths(shape), Holds(shape, p, q), AliveIn(st, q), NEW x \in OwnSlots(st, q)
  PROVE  x \in Erased(st, p)
<1>1. /\ Extends(q, p) /\ Len(p) <= Len(q)
      /\ \A k \in (Len(p) + 1)..Len(q) : TypeOf(Upto(q, k - 1)).kind # "map"
  BY HoldsFacts DEF Extends
<1>2. q \in Track /\ Len(q) \in Nat /\ Len(p) \in Nat /\ Upto(q, Len(q)) = q
  BY PathBook, UptoEnds
<1>3. InBounds(st, q, Len(p))
  <2>1. PICK n \in 0..Len(q) : /\ n = 0 \/ TypeOf(Upto(q, n - 1)).kind = "map"
                               /\ InBounds(st, q, n)
    BY DEF AliveIn
  <2>2. n <= Len(p)
    <3> SUFFICES ASSUME n > Len(p) PROVE FALSE
      BY <1>2
    <3>1. n \in (Len(p) + 1)..Len(q) /\ n # 0
      BY <1>2
    <3> QED BY <1>1, <2>1, <3>1
  <2>3. \A k \in (Len(p) + 1)..Len(q) : k \in (n + 1)..Len(q)
    BY <1>2, <2>2
  <2> QED BY <2>1, <2>3 DEF InBounds
<1>4. CASE q \in Visited(st, p)
  BY <1>4 DEF Erased
<1>5. CASE q \notin Visited(st, p)
  <2> DEFINE Bulk(k) == /\ TypeOf(Upto(q, k - 1)).kind = "vec"
                        /\ ~NeedsRecursiveClear(TypeOf(Upto(q, k - 1)).parts[1])
  <2>1. PICK k \in (Len(p) + 1)..Len(q) : Bulk(k)
    BY <1>3, <1>5, PlaceFacts DEF Visited
  <2>2. ASSUME NEW j \in (Len(p) + 1)..Len(q), Bulk(j) PROVE j = Len(q)
    <3>1. j \in 1..Len(q)
      BY <1>2
    <3>2. TypeOf(Upto(q, j)) = Part(TypeOf(Upto(q, j - 1)), q[j])
      BY <3>1, PathBook
    <3>3. TypeOf(Upto(q, j)).kind = "static"
      BY <2>2, <3>2 DEF Part, NeedsRecursiveClear
    <3>4. Upto(q, j) \in Paths(shape) /\ Extends(q, Upto(q, j))
      BY <3>1, PrefixFacts
    <3>5. q = Upto(q, j)
      BY <3>3, <3>4, LeafEnds DEF Leaves
    <3>6. Len(Upto(q, j)) = j
      BY <3>1, PrefixFacts
    <3> QED BY <3>5, <3>6
  <2>3. k = Len(q) /\ k - 1 \in 0..Len(q) /\ k \in 1..Len(q)
    BY <1>2, <2>1, <2>2
  <2> DEFINE v == Upto(q, k - 1)
             S == TypeOf(v)
             E == S.parts[1]
             i == q[k]
             b == Body(Key(v))
             l == Length(st, Key(v))
             s == E.slots
  <2>4. /\ v \in Paths(shape) /\ Len(v) = k - 1
        /\ \A j \in 0..(k - 1) : Upto(v, j) = Upto(q, j)
    BY <2>3, PrefixFacts
  <2>5. S.kind = "vec" /\ E.kind = "static" /\ i \in Steps(S) /\ q = Append(v, i)
    <3>1. q = Append(v, i)
      BY <1>2, <2>3, UptoEnds
    <3> QED BY <2>1, <2>3, <3>1, PathBook DEF NeedsRecursiveClear
  <2>6. i < l /\ l \in Nat /\ Key(v) \in AnyKey
    <3>1. i < l
      BY <1>3, <2>1, <2>5 DEF InBounds
    <3>2. l \in 0..255
      BY Slot32Facts
    <3>3. Key(v) \in AnyKey
      <4> HIDE DEF v
      <4> QED BY <2>4, PathBook
    <3> HIDE DEF l
    <3> QED BY <3>1, <3>2, <3>3
  <2>7. v \in Visited(st, p)
    <3>1. Holds(shape, p, v)
      <4>1. Len(p) <= k - 1 /\ \A j \in (Len(p) + 1)..(k - 1) : j \in (Len(p) + 1)..Len(q)
        BY <1>2, <2>1, <2>3
      <4> QED BY <1>1, <2>3, <4>1, HoldsFacts
    <3>2. \A j \in (Len(p) + 1)..(k - 1) : /\ j \in (Len(p) + 1)..Len(q) /\ j # Len(q)
                                           /\ j - 1 \in 0..(k - 1) /\ j \in 1..(k - 1)
      BY <1>2, <2>3
    <3>3. \A j \in 1..(k - 1) : v[j] = q[j]
      BY <1>2, <2>3, UptoFacts
    <3>4. InBounds(st, v, Len(p))
      BY <1>3, <2>4, <3>2, <3>3 DEF InBounds
    <3>5. ASSUME NEW j \in (Len(p) + 1)..Len(v)
          PROVE  TypeOf(Upto(v, j - 1)).kind = "vec" => NeedsRecursiveClear(TypeOf(Upto(v, j - 1)).parts[1])
      <4>1. ~Bulk(j)
        BY <2>2, <2>4, <3>2
      <4>2. Upto(v, j - 1) = Upto(q, j - 1)
        BY <2>4, <3>2
      <4> QED BY <4>1, <4>2
    <3> QED BY <2>4, <3>1, <3>4, <3>5, PlaceFacts DEF Visited
  <2> HIDE DEF v, i, Bulk
  <2>8. s \in Nat \ {0} /\ i \in 0..(MaxElems - 1)
    BY <2>4, <2>5, ElementOwns
  <2>9. PICK r \in 0..(s - 1) : x = Add(b, i * s + r)
    BY <2>4, <2>5, ElementOwns
  <2> DEFINE m == i * s + r
  <2>10. m \in 0..(l * s - 1)
    <3> HIDE DEF l, s
    <3>1. i \in Nat /\ s \in Nat /\ l \in Nat /\ i < l /\ r \in Nat /\ r < s
      BY <2>6, <2>8, NestedAssumption
    <3>2. i * s \in Nat /\ l * s \in Nat /\ i * s + s <= l * s
      BY <3>1, StridesGrow
    <3> QED BY <3>1, <3>2
  <2>11. x \in Elements(st, v)
    <3>1. x \in Run(b, l * s)
      BY <2>9, <2>10 DEF Run
    <3> QED BY <2>5, <3>1 DEF Elements, NeedsRecursiveClear
  <2> QED BY <2>7, <2>11 DEF Erased
<1> QED BY <1>4, <1>5

-----------------------------------------------------------------------------
(* What each operation leaves                                              *)

\* The value at q itself is the same in st and su.
Frame(st, su, q) ==
  /\ TypeOf(q).kind \in Leaves => \A x \in AnyKey : At(q, x) => Same(st, su, x)
  /\ TypeOf(q).kind = "vec" => Same(st, su, Key(q))

\* Every slot is owned by a value in bounds, or by g.
TidyBut(st, g) ==
  \A x \in DOMAIN st : \E q \in Paths(shape) : x \in OwnSlots(st, q) /\ (AliveIn(st, q) \/ q = g)
Tidy(st) ==
  \A x \in DOMAIN st : \E q \in Paths(shape) : x \in OwnSlots(st, q) /\ AliveIn(st, q)

\* What is the same owns and reads the same.
LEMMA FrameFacts ==
  ASSUME shape \in Shapes, NEW q \in Paths(shape), NEW st, NEW su, GoodStore(st), Frame(st, su, q)
  PROVE  /\ OwnSlots(st, q) = OwnSlots(su, q)
         /\ TypeOf(q).kind = "vec" => Length(st, Key(q)) = Length(su, Key(q))
         /\ TypeOf(q).kind \in Leaves =>
              /\ Read(st, Key(q), TypeOf(q)) = Read(su, Key(q), TypeOf(q))
              /\ TryRead(st, Key(q), TypeOf(q)) = TryRead(su, Key(q), TypeOf(q))
<1>1. OwnSlots(st, q) = OwnSlots(su, q)
  BY OwnSame DEF Frame
<1>2. TypeOf(q).kind = "vec" => Length(st, Key(q)) = Length(su, Key(q))
  BY DEF Frame, Same, Length
<1>3. ASSUME TypeOf(q).kind \in Leaves
      PROVE  /\ Read(st, Key(q), TypeOf(q)) = Read(su, Key(q), TypeOf(q))
             /\ TryRead(st, Key(q), TypeOf(q)) = TryRead(su, Key(q), TypeOf(q))
  <2>1. \A x \in AnyKey : Covers(Key(q), TypeOf(q).slots, x) => Same(st, su, x)
    BY <1>3 DEF Frame, At
  <2>2. TypeOf(q) \in Types /\ Key(q) \in AnyKey
    BY PathBook
  <2> QED BY <1>3, <2>1, <2>2, LeafSame
<1> QED BY <1>1, <1>2, <1>3

\* Vecs that are at least as long keep paths in bounds.
LEMMA BoundsKept ==
  ASSUME shape \in Shapes, NEW q \in Paths(shape), NEW st, NEW su, GoodStore(st), GoodStore(su),
         \A w \in Paths(shape) : TypeOf(w).kind = "vec" => Length(st, Key(w)) <= Length(su, Key(w))
  PROVE  /\ \A n \in 0..Len(q) : InBounds(st, q, n) => InBounds(su, q, n)
         /\ AliveIn(st, q) => AliveIn(su, q)
<1>1. ASSUME NEW n \in 0..Len(q), InBounds(st, q, n) PROVE InBounds(su, q, n)
  <2> SUFFICES ASSUME NEW k \in (n + 1)..Len(q), TypeOf(Upto(q, k - 1)).kind = "vec"
               PROVE  q[k] < Length(su, Key(Upto(q, k - 1)))
    BY DEF InBounds
  <2>1. Len(q) \in Nat
    BY PathBook
  <2>2. k \in 1..Len(q) /\ k - 1 \in 0..Len(q)
    BY <2>1
  <2> DEFINE w == Upto(q, k - 1)
  <2>3. w \in Paths(shape) /\ q[k] \in Steps(TypeOf(w)) /\ TypeOf(w).kind = "vec"
    BY <2>2, PathBook
  <2>4. q[k] \in 0..(MaxElems - 1)
    BY <2>3 DEF Steps
  <2>5. q[k] < Length(st, Key(w))
    BY <1>1 DEF InBounds
  <2> HIDE DEF w
  <2>6. Length(st, Key(w)) <= Length(su, Key(w))
    BY <2>3
  <2>7. Length(st, Key(w)) \in 0..255 /\ Length(su, Key(w)) \in 0..255
    BY Slot32Facts
  <2>8. q[k] < Length(su, Key(w))
    <3> DEFINE a == q[k]
               b == Length(st, Key(w))
               c == Length(su, Key(w))
    <3> HIDE DEF a, b, c
    <3>1. a \in 0..(MaxElems - 1) /\ a < b /\ b <= c /\ b \in 0..255 /\ c \in 0..255
      BY <2>4, <2>5, <2>6, <2>7 DEF a, b, c
    <3>2. a < c
      BY <3>1, NestedAssumption
    <3> QED BY <3>2 DEF a, c
  <2> QED BY <2>8 DEF w
<1> QED BY <1>1 DEF AliveIn

\* What is alive and not held in r is so whatever becomes of what r holds.
LEMMA AliveBeyond ==
  ASSUME shape \in Shapes, NEW r \in Paths(shape), NEW q \in Paths(shape), NEW st,
         ~Holds(shape, r, q), AliveIn(st, q)
  PROVE  \E n \in 0..Len(q) :
           /\ n = 0 \/ TypeOf(Upto(q, n - 1)).kind = "map"
           /\ InBounds(st, q, n)
           /\ Extends(q, r) => n > Len(r)
<1>1. Len(q) \in Nat /\ Len(r) \in Nat
  BY PathBook
<1>2. PICK n \in 0..Len(q) : (n = 0 \/ TypeOf(Upto(q, n - 1)).kind = "map") /\ InBounds(st, q, n)
  BY DEF AliveIn
<1>3. CASE Extends(q, r) => n > Len(r)
  BY <1>2, <1>3
<1>4. CASE Extends(q, r) /\ ~(n > Len(r))
  <2>1. PICK k \in (Len(r) + 1)..Len(q) : TypeOf(Upto(q, k - 1)).kind = "map"
    BY <1>4, HoldsFacts
  <2>2. k \in 0..Len(q) /\ k > Len(r) /\ \A j \in (k + 1)..Len(q) : j \in (n + 1)..Len(q)
    BY <1>1, <1>4
  <2>3. InBounds(st, q, k)
    BY <1>2, <2>2 DEF InBounds
  <2> QED BY <2>1, <2>2, <2>3
<1> QED BY <1>3, <1>4

\* Clearing p changes only what p holds.
LEMMA ClearFrame ==
  ASSUME shape \in Shapes, NEW p \in Paths(shape), NEW st, GoodStore(st), Short(st)
  PROVE  /\ GoodStore(ClearedAt(st, p)) /\ Short(ClearedAt(st, p))
         /\ \A q \in Paths(shape) : ~Holds(shape, p, q) => Frame(st, ClearedAt(st, p), q)
<1> DEFINE su == ClearedAt(st, p)
           gone == Erased(st, p)
<1>1. /\ GoodStore(su)
      /\ \A x : (x \notin gone => Same(st, su, x)) /\ (x \in gone => x \notin DOMAIN su)
  BY ZeroFacts DEF ClearedAt
<1> HIDE DEF su, gone
<1>2. Short(su)
  <2> SUFFICES ASSUME NEW q \in Paths(shape), TypeOf(q).kind = "vec"
               PROVE  Length(su, Key(q)) <= MaxElems
    BY DEF Short
  <2>1. CASE Key(q) \notin gone
    <3>1. Length(su, Key(q)) = Length(st, Key(q))
      BY <1>1, <2>1 DEF Same, Length
    <3> QED BY <3>1 DEF Short
  <2>2. CASE Key(q) \in gone
    <3>1. Slot32(su, Key(q)) = ZeroSlot
      BY <1>1, <2>2 DEF Slot32
    <3>2. Length(su, Key(q)) = 0
      BY <3>1, WordSlotFacts DEF Length
    <3> QED BY <3>2, NestedAssumption
  <2> QED BY <2>1, <2>2
<1>3. ASSUME NEW q \in Paths(shape), ~Holds(shape, p, q) PROVE Frame(st, su, q)
  <2>1. ASSUME TypeOf(q).kind \in Leaves, NEW x \in AnyKey, At(q, x) PROVE x \notin gone
    <3> SUFFICES ASSUME x \in gone PROVE FALSE
      OBVIOUS
    <3>1. PICK e \in Paths(shape) : x \in OwnSlots(st, e) /\ Holds(shape, p, e)
      BY ErasedOwners DEF gone
    <3>2. e = q
      BY <2>1, <3>1, OwnerInside, LeafEnds
    <3> QED BY <1>3, <3>1, <3>2
  <2>2. ASSUME TypeOf(q).kind = "vec" PROVE Key(q) \notin gone
    <3> SUFFICES ASSUME Key(q) \in gone PROVE FALSE
      OBVIOUS
    <3>1. PICK e \in Paths(shape) : Key(q) \in OwnSlots(st, e) /\ Holds(shape, p, e)
      BY ErasedOwners DEF gone
    <3>2. Key(q) \in OwnSlots(st, q)
      BY <2>2, VecOwns
    <3>3. e = q
      BY <3>1, <3>2, OneOwner
    <3> QED BY <1>3, <3>1, <3>3
  <2> QED BY <1>1, <2>1, <2>2 DEF Frame
<1> QED BY <1>1, <1>2, <1>3 DEF su

\* Nothing that p holds is left, and nothing else is lost.
LEMMA ClearTidy ==
  ASSUME shape \in Shapes, NEW p \in Paths(shape), NEW st, GoodStore(st), Short(st), Tidy(st)
  PROVE  \A x \in DOMAIN ClearedAt(st, p) : \E q \in Paths(shape) :
           /\ x \in OwnSlots(ClearedAt(st, p), q) /\ AliveIn(ClearedAt(st, p), q)
           /\ ~Holds(shape, p, q)
<1> DEFINE su == ClearedAt(st, p)
<1> SUFFICES ASSUME NEW x \in DOMAIN su
             PROVE  \E q \in Paths(shape) :
                      x \in OwnSlots(su, q) /\ AliveIn(su, q) /\ ~Holds(shape, p, q)
  OBVIOUS
<1>1. x \in DOMAIN st /\ x \notin Erased(st, p)
  BY DEF ClearedAt, Zero
<1>2. PICK q \in Paths(shape) : x \in OwnSlots(st, q) /\ AliveIn(st, q)
  BY <1>1 DEF Tidy
<1>3. ~Holds(shape, p, q)
  BY <1>1, <1>2, ClearReaches
<1>4. GoodStore(su) /\ \A w \in Paths(shape) : ~Holds(shape, p, w) => Frame(st, su, w)
  BY ClearFrame
<1> HIDE DEF su
<1>5. x \in OwnSlots(su, q)
  BY <1>2, <1>3, <1>4, FrameFacts
<1>6. AliveIn(su, q)
  <2>1. PICK n \in 0..Len(q) : /\ n = 0 \/ TypeOf(Upto(q, n - 1)).kind = "map"
                               /\ InBounds(st, q, n)
                               /\ Extends(q, p) => n > Len(p)
    BY <1>2, <1>3, AliveBeyond
  <2>2. ASSUME NEW k \in (n + 1)..Len(q), TypeOf(Upto(q, k - 1)).kind = "vec"
        PROVE  q[k] < Length(su, Key(Upto(q, k - 1)))
    <3>1. Len(q) \in Nat /\ Len(p) \in Nat
      BY PathBook
    <3>2. k - 1 \in 0..Len(q) /\ Upto(q, k - 1) \in Paths(shape)
      <4>1. k - 1 \in 0..Len(q)
        BY <3>1
      <4> QED BY <4>1, PathBook
    <3>3. ~Holds(shape, p, Upto(q, k - 1))
      <4>1. CASE ~Extends(q, p)
        BY <3>2, <4>1, HoldsFacts
      <4>2. CASE Extends(q, p)
        <5>1. n > Len(p) /\ TypeOf(Upto(q, n - 1)).kind = "map"
          BY <2>1, <3>1, <4>2
        <5>2. n \in (Len(p) + 1)..(k - 1)
          BY <3>1, <5>1
        <5> QED BY <3>2, <5>1, <5>2, HoldsFacts
      <4> QED BY <4>1, <4>2
    <3>4. Frame(st, su, Upto(q, k - 1))
      BY <1>4, <3>2, <3>3
    <3>5. Length(st, Key(Upto(q, k - 1))) = Length(su, Key(Upto(q, k - 1)))
      BY <2>2, <3>2, <3>4, FrameFacts
    <3>6. q[k] < Length(st, Key(Upto(q, k - 1)))
      BY <2>1, <2>2 DEF InBounds
    <3> QED BY <3>5, <3>6
  <2>3. InBounds(su, q, n)
    BY <2>2 DEF InBounds
  <2> QED BY <2>1, <2>3 DEF AliveIn
<1> QED BY <1>3, <1>5, <1>6

\* Writing a leaf changes only the leaf.
LEMMA WriteFrame ==
  ASSUME shape \in Shapes, NEW g \in Paths(shape), TypeOf(g).kind \in Leaves, NEW st, NEW su,
         KeepsOthers(st, su, Key(g), TypeOf(g)), NEW q \in Paths(shape), q # g
  PROVE  Frame(st, su, q)
<1>1. \A x \in AnyKey : ~At(g, x) => Same(st, su, x)
  BY DEF KeepsOthers, At
<1>2. ASSUME TypeOf(q).kind \in Leaves, NEW x \in AnyKey, At(q, x) PROVE ~At(g, x)
  <2> SUFFICES ASSUME At(g, x) PROVE FALSE
    OBVIOUS
  <2>1. Extends(q, g) \/ Extends(g, q)
    BY <1>2, PlaceFacts, PlacesApart
  <2> QED BY <1>2, <2>1, LeafEnds
<1>3. ASSUME TypeOf(q).kind = "vec" PROVE ~At(g, Key(q)) /\ Key(q) \in AnyKey
  <2>1. Key(q) \in OwnSlots(st, q) /\ Key(q) \in AnyKey
    BY <1>3, VecOwns
  <2>2. ASSUME At(g, Key(q)) PROVE FALSE
    <3>1. Extends(q, g)
      BY <2>1, <2>2, OwnerInside
    <3> QED BY <3>1, LeafEnds
  <2> QED BY <2>1, <2>2
<1> QED BY <1>1, <1>2, <1>3 DEF Frame

\* Writing a leaf frees what it had.
LEMMA WriteTidy ==
  ASSUME shape \in Shapes, NEW g \in Paths(shape), TypeOf(g).kind \in Leaves, NEW st, GoodStore(st),
         Short(st), Tidy(st), NEW v \in Values(TypeOf(g), Strings), NEW su,
         su = Written(st, Key(g), TypeOf(g), v)
  PROVE  /\ GoodStore(su) /\ Short(su) /\ TidyBut(su, g)
         /\ \A q \in Paths(shape) : q # g => Frame(st, su, q)
         /\ \A q \in Paths(shape) : TypeOf(q).kind = "vec" => Length(su, Key(q)) = Length(st, Key(q))
<1>1. TypeOf(g) \in Types /\ Key(g) \in AnyKey
  BY PathBook
<1>2. /\ GoodStore(su) /\ KeepsOthers(st, su, Key(g), TypeOf(g))
      /\ LeafTidy(st, Key(g), TypeOf(g)) => LeafTidy(su, Key(g), TypeOf(g))
  BY <1>1, WrittenFacts
<1>3. \A q \in Paths(shape) : q # g => Frame(st, su, q)
  BY <1>2, WriteFrame
<1>4. \A q \in Paths(shape) : TypeOf(q).kind = "vec" => Length(su, Key(q)) = Length(st, Key(q))
  <2> TAKE q \in Paths(shape)
  <2> HAVE TypeOf(q).kind = "vec"
  <2>1. q # g
    BY DEF Leaves
  <2> QED BY <1>3, <2>1, FrameFacts
<1>5. Short(su)
  BY <1>4 DEF Short
<1>6. LeafTidy(st, Key(g), TypeOf(g))
  <2> SUFFICES ASSUME NEW x \in DOMAIN st, Covers(Key(g), TypeOf(g).slots, x)
               PROVE  x \in LeafSlots(st, Key(g), TypeOf(g))
    BY DEF LeafTidy
  <2>1. PICK q \in Paths(shape) : x \in OwnSlots(st, q)
    BY DEF Tidy
  <2>2. At(g, x)
    BY DEF At
  <2>3. q = g
    BY <2>1, <2>2, OwnerInside, LeafEnds
  <2> QED BY <2>1, <2>3, OwnCases
<1>7. TidyBut(su, g)
  <2> SUFFICES ASSUME NEW x \in DOMAIN su
               PROVE  \E q \in Paths(shape) : x \in OwnSlots(su, q) /\ (AliveIn(su, q) \/ q = g)
    BY DEF TidyBut
  <2>1. CASE At(g, x)
    <3>1. x \in LeafSlots(su, Key(g), TypeOf(g))
      BY <1>2, <1>6, <2>1 DEF LeafTidy, At
    <3> QED BY <3>1, OwnCases
  <2>2. CASE ~At(g, x)
    <3>1. x \in AnyKey
      BY <1>2 DEF GoodStore
    <3>2. x \in DOMAIN st
      BY <1>2, <2>2, <3>1 DEF KeepsOthers, At, Same
    <3>3. PICK q \in Paths(shape) : x \in OwnSlots(st, q) /\ AliveIn(st, q)
      BY <3>2 DEF Tidy
    <3>4. q # g
      BY <2>2, <3>3, OwnFacts
    <3>5. x \in OwnSlots(su, q)
      BY <1>3, <3>3, <3>4, FrameFacts
    <3>6. \A w \in Paths(shape) : TypeOf(w).kind = "vec" => Length(st, Key(w)) <= Length(su, Key(w))
      <4> TAKE w \in Paths(shape)
      <4> HAVE TypeOf(w).kind = "vec"
      <4>1. Length(su, Key(w)) = Length(st, Key(w)) /\ Length(su, Key(w)) \in 0..255
        BY <1>2, <1>4, Slot32Facts
      <4> HIDE DEF Short
      <4> QED BY <4>1
    <3>7. AliveIn(su, q)
      BY <1>2, <3>3, <3>6, BoundsKept
    <3> QED BY <3>5, <3>7
  <2> QED BY <2>1, <2>2
<1> QED BY <1>2, <1>3, <1>4, <1>5, <1>7

\* Setting the length of a vec changes nothing else.
LEMMA LengthFrame ==
  ASSUME shape \in Shapes, NEW p \in Paths(shape), TypeOf(p).kind = "vec", NEW st, GoodStore(st),
         NEW n \in 0..MaxElems, NEW su, su = WithLength(st, Key(p), n)
  PROVE  /\ GoodStore(su) /\ (Short(st) => Short(su)) /\ Length(su, Key(p)) = n
         /\ DOMAIN su \subseteq DOMAIN st \union {Key(p)}
         /\ \A q \in Paths(shape) : /\ q # p => Frame(st, su, q)
                                    /\ OwnSlots(su, q) = OwnSlots(st, q)
<1>1. n \in 0..255
  BY NestedAssumption
<1>2. Key(p) \in OwnSlots(st, p) /\ Key(p) \in AnyKey
  BY VecOwns
<1>3. GoodStore(su) /\ Length(su, Key(p)) = n /\ \A x : x # Key(p) => Same(st, su, x)
  BY <1>1, <1>2, WithLengthFacts
<1>4. ASSUME NEW q \in Paths(shape), q # p PROVE Frame(st, su, q)
  <2>1. ASSUME TypeOf(q).kind \in Leaves, NEW x \in AnyKey, At(q, x) PROVE x # Key(p)
    <3> SUFFICES ASSUME x = Key(p) PROVE FALSE
      OBVIOUS
    <3>1. Extends(p, q)
      BY <1>2, <2>1, OwnerInside
    <3> QED BY <1>4, <2>1, <3>1, LeafEnds
  <2>2. ASSUME TypeOf(q).kind = "vec" PROVE Key(q) # Key(p)
    <3>1. Key(q) \in OwnSlots(st, q)
      BY <2>2, VecOwns
    <3> QED BY <1>2, <1>4, <3>1, OneOwner
  <2> QED BY <1>3, <2>1, <2>2 DEF Frame
<1>5. \A q \in Paths(shape) : OwnSlots(su, q) = OwnSlots(st, q)
  <2> TAKE q \in Paths(shape)
  <2>1. CASE q = p
    BY <2>1, OwnCases
  <2>2. CASE q # p
    BY <1>4, <2>2, FrameFacts
  <2> QED BY <2>1, <2>2
<1>6. ASSUME Short(st) PROVE Short(su)
  <2> SUFFICES ASSUME NEW q \in Paths(shape), TypeOf(q).kind = "vec"
               PROVE  Length(su, Key(q)) <= MaxElems
    BY DEF Short
  <2>1. CASE q = p
    BY <1>3, <2>1, NestedAssumption
  <2>2. CASE q # p
    <3>1. Length(su, Key(q)) = Length(st, Key(q))
      BY <1>4, <2>2, FrameFacts
    <3> QED BY <1>6, <3>1 DEF Short
  <2> QED BY <2>1, <2>2
<1>7. DOMAIN su \subseteq DOMAIN st \union {Key(p)}
  BY <1>3 DEF Same
<1> QED BY <1>3, <1>4, <1>5, <1>6, <1>7

\* A longer vec keeps everything in bounds.
LEMMA GrowTidy ==
  ASSUME shape \in Shapes, NEW p \in Paths(shape), TypeOf(p).kind = "vec", NEW g \in Paths(shape),
         NEW st, GoodStore(st), Short(st), TidyBut(st, g), Length(st, Key(p)) < MaxElems, NEW su,
         su = WithLength(st, Key(p), Length(st, Key(p)) + 1), AliveIn(su, g), AliveIn(st, p)
  PROVE  GoodStore(su) /\ Short(su) /\ Tidy(su)
<1> DEFINE l == Length(st, Key(p))
<1>1. l \in 0..255 /\ l < MaxElems
  BY Slot32Facts
<1> HIDE DEF l
<1>2. l + 1 \in 0..MaxElems /\ l <= l + 1 /\ l \in Nat
  BY <1>1, NestedAssumption
<1>3. /\ GoodStore(su) /\ Short(su) /\ Length(su, Key(p)) = l + 1
      /\ DOMAIN su \subseteq DOMAIN st \union {Key(p)}
      /\ \A q \in Paths(shape) : (q # p => Frame(st, su, q)) /\ OwnSlots(su, q) = OwnSlots(st, q)
  BY <1>2, LengthFrame DEF l
<1>4. ASSUME NEW w \in Paths(shape), TypeOf(w).kind = "vec"
      PROVE  Length(st, Key(w)) <= Length(su, Key(w))
  <2>1. CASE w = p
    BY <1>2, <1>3, <2>1 DEF l
  <2>2. CASE w # p
    <3>1. Length(st, Key(w)) = Length(su, Key(w)) /\ Length(st, Key(w)) \in 0..255
      BY <1>3, <1>4, <2>2, FrameFacts, Slot32Facts
    <3> QED BY <3>1
  <2> QED BY <2>1, <2>2
<1>5. \A q \in Paths(shape) : AliveIn(st, q) => AliveIn(su, q)
  BY <1>3, <1>4, BoundsKept
<1>6. ASSUME NEW x \in DOMAIN su
      PROVE  \E q \in Paths(shape) : x \in OwnSlots(su, q) /\ AliveIn(su, q)
  <2>1. CASE x = Key(p)
    BY <1>5, <2>1, VecOwns
  <2>2. CASE x # Key(p)
    <3>1. x \in DOMAIN st
      BY <1>3, <2>2
    <3>2. PICK q \in Paths(shape) : x \in OwnSlots(st, q) /\ (AliveIn(st, q) \/ q = g)
      BY <3>1 DEF TidyBut
    <3> QED BY <1>3, <1>5, <3>2
  <2> QED BY <2>1, <2>2
<1> QED BY <1>3, <1>6 DEF Tidy

\* A vec shortened by an element that was cleared first keeps the rest.
LEMMA ShrinkTidy ==
  ASSUME shape \in Shapes, NEW p \in Paths(shape), TypeOf(p).kind = "vec", NEW end \in 0..(MaxElems - 1),
         NEW st, GoodStore(st), Short(st), Length(st, Key(p)) = end + 1, Append(p, end) \in Paths(shape),
         NEW sc, sc = ClearedAt(st, Append(p, end)), Tidy(st),
         NEW su, su = WithLength(sc, Key(p), end), InBounds(st, p, 0)
  PROVE  /\ GoodStore(su) /\ Short(su) /\ Tidy(su)
<1> DEFINE r == Append(p, end)
<1>1. MaxElems \in Nat /\ end \in Nat /\ end \in 0..MaxElems /\ Len(p) \in Nat /\ p \in Track
  BY PathBook, NestedAssumption
<1>2. Len(r) = Len(p) + 1 /\ r \in Paths(shape) /\ end \in AnyStep
  BY <1>1, AppendFacts DEF AnyStep
<1>3. GoodStore(sc) /\ Short(sc) /\ \A q \in Paths(shape) : ~Holds(shape, r, q) => Frame(st, sc, q)
  BY <1>2, ClearFrame
<1>4. \A x \in DOMAIN sc : \E q \in Paths(shape) :
        x \in OwnSlots(sc, q) /\ AliveIn(sc, q) /\ ~Holds(shape, r, q)
  BY <1>2, ClearTidy
<1> HIDE DEF r
<1>5. \A n \in 0..Len(p) : ~Holds(shape, r, Upto(p, n))
  <2> TAKE n \in 0..Len(p)
  <2>1. Upto(p, n) \in Paths(shape) /\ Len(Upto(p, n)) = n
    BY PrefixFacts
  <2>2. ~Extends(Upto(p, n), r)
    BY <1>1, <1>2, <2>1 DEF Extends
  <2> QED BY <1>2, <2>1, <2>2, HoldsFacts
<1>6. Length(sc, Key(p)) = end + 1
  <2>1. Len(p) \in 0..Len(p) /\ Upto(p, Len(p)) = p
    BY <1>1, UptoEnds
  <2>2. Frame(st, sc, p)
    BY <1>3, <1>5, <2>1
  <2> QED BY <2>2, FrameFacts
<1>7. /\ GoodStore(su) /\ Short(su) /\ Length(su, Key(p)) = end
      /\ DOMAIN su \subseteq DOMAIN sc \union {Key(p)}
      /\ \A q \in Paths(shape) : (q # p => Frame(sc, su, q)) /\ OwnSlots(su, q) = OwnSlots(sc, q)
  BY <1>1, <1>3, LengthFrame
<1>8. ASSUME NEW q \in Paths(shape), AliveIn(sc, q), ~Holds(shape, r, q) PROVE AliveIn(su, q)
  <2>1. PICK n \in 0..Len(q) : /\ n = 0 \/ TypeOf(Upto(q, n - 1)).kind = "map"
                               /\ InBounds(sc, q, n)
                               /\ Extends(q, r) => n > Len(r)
    BY <1>2, <1>8, AliveBeyond
  <2>2. ASSUME NEW k \in (n + 1)..Len(q), TypeOf(Upto(q, k - 1)).kind = "vec"
        PROVE  q[k] < Length(su, Key(Upto(q, k - 1)))
    <3> DEFINE w == Upto(q, k - 1)
    <3>1. Len(q) \in Nat /\ q \in Track
      BY PathBook
    <3>2. k \in 1..Len(q) /\ k - 1 \in 0..Len(q) /\ k \in 0..Len(q)
      BY <3>1
    <3>3. w \in Paths(shape) /\ Len(w) = k - 1 /\ TypeOf(w).kind = "vec" /\ q[k] \in Steps(TypeOf(w))
      BY <2>2, <3>2, PathBook, PrefixFacts
    <3>4. q[k] < Length(sc, Key(w))
      BY <2>1, <2>2 DEF InBounds
    <3>5. Upto(q, k) = Append(w, q[k])
      BY <3>1, <3>2, UptoEnds
    <3> HIDE DEF w
    <3>6. CASE w # p
      <4>1. Length(sc, Key(w)) = Length(su, Key(w))
        BY <1>3, <1>7, <3>3, <3>6, FrameFacts
      <4> QED BY <3>4, <4>1 DEF w
    <3>7. CASE w = p
      <4>1. q[k] # end
        <5> SUFFICES ASSUME q[k] = end PROVE FALSE
          OBVIOUS
        <5>1. Upto(q, k) = r
          BY <3>5, <3>7 DEF r
        <5>2. Len(r) = k
          BY <1>1, <1>2, <3>2, <3>3, <3>7
        <5>3. Extends(q, r)
          BY <3>2, <5>1, PrefixFacts
        <5> QED BY <2>1, <3>2, <5>2, <5>3
      <4>2. q[k] \in 0..(MaxElems - 1)
        BY <3>3 DEF Steps
      <4>3. q[k] < end + 1
        BY <1>6, <3>4, <3>7
      <4>4. q[k] < end
        BY <1>1, <4>1, <4>2, <4>3
      <4> QED BY <1>7, <3>7, <4>4 DEF w
    <3> QED BY <3>6, <3>7
  <2>3. InBounds(su, q, n)
    BY <2>2 DEF InBounds
  <2> QED BY <2>1, <2>3 DEF AliveIn
<1>9. AliveIn(su, p)
  <2>1. ASSUME NEW k \in (0 + 1)..Len(p), TypeOf(Upto(p, k - 1)).kind = "vec"
        PROVE  p[k] < Length(su, Key(Upto(p, k - 1)))
    <3>1. k - 1 \in 0..Len(p)
      BY <1>1
    <3>2. Upto(p, k - 1) \in Paths(shape) /\ Len(Upto(p, k - 1)) = k - 1
      BY <3>1, PrefixFacts
    <3>3. Upto(p, k - 1) # p
      BY <1>1, <3>2
    <3>4. Length(st, Key(Upto(p, k - 1))) = Length(sc, Key(Upto(p, k - 1)))
      BY <1>3, <1>5, <2>1, <3>1, <3>2, FrameFacts
    <3>5. Length(sc, Key(Upto(p, k - 1))) = Length(su, Key(Upto(p, k - 1)))
      BY <1>3, <1>7, <2>1, <3>2, <3>3, FrameFacts
    <3>6. p[k] < Length(st, Key(Upto(p, k - 1)))
      BY <2>1 DEF InBounds
    <3> QED BY <3>4, <3>5, <3>6
  <2>2. InBounds(su, p, 0) /\ 0 \in 0..Len(p)
    BY <1>1, <2>1 DEF InBounds
  <2> QED BY <2>2 DEF AliveIn
<1>10. ASSUME NEW x \in DOMAIN su
       PROVE  \E q \in Paths(shape) : x \in OwnSlots(su, q) /\ AliveIn(su, q)
  <2>1. CASE x = Key(p)
    BY <1>9, <2>1, VecOwns
  <2>2. CASE x # Key(p)
    <3>1. PICK q \in Paths(shape) : x \in OwnSlots(sc, q) /\ AliveIn(sc, q) /\ ~Holds(shape, r, q)
      BY <1>4, <1>7, <2>2
    <3> QED BY <1>7, <1>8, <3>1
  <2> QED BY <2>1, <2>2
<1> QED BY <1>7, <1>10 DEF Tidy

-----------------------------------------------------------------------------
(* The calls                                                               *)

\* Fewer strings make fewer values.
LEMMA ValuesMore ==
  ASSUME NEW S
  PROVE  Values(S, SomeStrings) \subseteq Values(S, Strings)
<1>1. \A T : FieldValues(T, SomeStrings) \subseteq FieldValues(T, Strings)
  BY NestedAssumption DEF FieldValues
<1>2. CASE S.kind # "record"
  BY <1>1, <1>2 DEF Values
<1>3. CASE S.kind = "record"
  <2> SUFFICES ASSUME NEW v \in Values(S, SomeStrings) PROVE v \in Values(S, Strings)
    OBVIOUS
  <2> DEFINE all == UNION {FieldValues(S.parts[f], Strings) : f \in 1..Len(S.parts)}
             some == UNION {FieldValues(S.parts[f], SomeStrings) : f \in 1..Len(S.parts)}
  <2>1. v \in [1..Len(S.parts) -> some]
    BY <1>3 DEF Values
  <2>2. \A f \in 1..Len(S.parts) : v[f] \in FieldValues(S.parts[f], SomeStrings)
    BY <1>3 DEF Values
  <2>3. \A f \in 1..Len(S.parts) : v[f] \in FieldValues(S.parts[f], Strings) /\ v[f] \in all
    BY <1>1, <2>2
  <2> HIDE DEF some, all
  <2>4. v \in [1..Len(S.parts) -> all]
    BY <2>1, <2>3
  <2> QED BY <1>3, <2>3, <2>4 DEF Values, all
<1> QED BY <1>2, <1>3

\* What a type offers.
LEMMA CallsAtFacts ==
  ASSUME NEW S, NEW p, NEW c \in CallsAt(S, p)
  PROVE  /\ c.path = p /\ c.op \in Ops
         /\ c.op \in {"set", "take", "get", "try_get"} => S.kind \in Leaves
         /\ c.op = "set" => c.arg \in Values(S, Strings)
         /\ c.op \in {"push", "grow", "pop", "erase_last", "len", "try_at"} => S.kind = "vec"
         /\ c.op \in {"push", "pop", "try_at"} => S.parts[1].kind \in Leaves
         /\ c.op = "push" => c.arg \in Values(S.parts[1], Strings)
         /\ c.op = "try_at" => c.arg[1] \in Steps(S)
<1> DEFINE plain == {Call(op, p, << >>) : op \in {"take", "get", "try_get"}}
           sets == {Call("set", p, v) : v \in Values(S, IF p = << >> THEN Strings ELSE SomeStrings)}
           ends == {Call(op, p, << >>) : op \in {"grow", "erase_last", "len"}}
           ats == {Call("try_at", p, <<i>>) : i \in Steps(S)}
           pushes == {Call("push", p, v) : v \in Values(S.parts[1], SomeStrings)}
<1>1. \/ c = Call("clear", p, << >>)
      \/ S.kind \in Leaves /\ c \in plain \union sets
      \/ S.kind = "vec" /\ c \in ends
      \/ S.kind = "vec" /\ S.parts[1].kind \in Leaves
           /\ c \in {Call("pop", p, << >>)} \union ats \union pushes
  <2>1. c \in {Call("clear", p, << >>)} \union
          CASE S.kind \in Leaves -> plain \union sets
            [] S.kind = "vec" ->
                 ends \union IF S.parts[1].kind \notin Leaves THEN {}
                             ELSE {Call("pop", p, << >>)} \union ats \union pushes
            [] OTHER -> {}
    BY DEF CallsAt
  <2> HIDE DEF plain, sets, ends, ats, pushes
  <2> QED BY <2>1 DEF Leaves
<1>2. CASE c = Call("clear", p, << >>)
  BY <1>2 DEF Call, Ops
<1>3. CASE S.kind \in Leaves /\ c \in plain
  BY <1>3 DEF Call, Ops
<1>4. CASE S.kind \in Leaves /\ c \in sets
  <2>1. PICK v \in Values(S, IF p = << >> THEN Strings ELSE SomeStrings) : c = Call("set", p, v)
    BY <1>4
  <2>2. v \in Values(S, Strings)
    BY ValuesMore
  <2> QED BY <1>4, <2>1, <2>2 DEF Call, Ops
<1>5. CASE S.kind = "vec" /\ c \in ends
  BY <1>5 DEF Call, Ops
<1>6. CASE S.kind = "vec" /\ S.parts[1].kind \in Leaves /\ c = Call("pop", p, << >>)
  BY <1>6 DEF Call, Ops
<1>7. CASE S.kind = "vec" /\ S.parts[1].kind \in Leaves /\ c \in ats
  <2>1. PICK i \in Steps(S) : c = Call("try_at", p, <<i>>)
    BY <1>7
  <2> QED BY <1>7, <2>1 DEF Call, Ops
<1>8. CASE S.kind = "vec" /\ S.parts[1].kind \in Leaves /\ c \in pushes
  <2>1. PICK v \in Values(S.parts[1], SomeStrings) : c = Call("push", p, v)
    BY <1>8
  <2>2. v \in Values(S.parts[1], Strings)
    BY ValuesMore
  <2> QED BY <1>8, <2>1, <2>2 DEF Call, Ops
<1> QED BY <1>1, <1>2, <1>3, <1>4, <1>5, <1>6, <1>7, <1>8

\* What a call of the contract is made at.
LEMMA CallFacts ==
  ASSUME shape \in Shapes, NEW op \in Ops, NEW c \in CallsOf(op)
  PROVE  /\ c.op = op /\ c.path \in Paths(shape)
         /\ op \in {"set", "take", "get", "try_get"} => TypeOf(c.path).kind \in Leaves
         /\ op = "set" => c.arg \in Values(TypeOf(c.path), Strings)
         /\ op \in {"push", "grow", "pop", "erase_last", "len", "try_at"} => TypeOf(c.path).kind = "vec"
         /\ op \in {"push", "pop", "try_at"} => TypeOf(c.path).parts[1].kind \in Leaves
         /\ op = "push" => c.arg \in Values(TypeOf(c.path).parts[1], Strings)
         /\ op = "try_at" => c.arg[1] \in Steps(TypeOf(c.path))
<1>1. CallTable[shape][op] = {k \in Calls(shape) : k.op = op}
  BY DEF CallTable
<1>2. c \in Calls(shape) /\ c.op = op
  BY <1>1 DEF CallsOf
<1>3. PICK p \in Paths(shape) : c \in CallsAt(ShapeAt(shape, p), p)
  BY <1>2 DEF Calls
<1>4. TypeOf(p) = ShapeAt(shape, p)
  BY PlaceFacts
<1>5. c \in CallsAt(TypeOf(p), p)
  BY <1>3, <1>4
<1>6. c.path = p
  BY <1>5, CallsAtFacts
<1> QED BY <1>2, <1>5, <1>6, CallsAtFacts

-----------------------------------------------------------------------------
(* Nothing is left behind                                                  *)

\* The inductive invariant: the storage holds slots that are not zero at
\* keys, its vecs are within the bound, and each slot has an owner in bounds.
IInv == shape \in Shapes /\ GoodStore(store) /\ Short(store) /\ NothingLeftBehind

\* The property, of a storage.
LEMMA TidyStore ==
  ASSUME shape \in Shapes
  PROVE  NothingLeftBehind <=> Tidy(store)
<1>1. DOMAIN TypesAt[shape] = Paths(shape)
  BY PlaceFacts
<1>2. \A p : Alive(p) <=> AliveIn(store, p)
  BY DEF Alive, AliveIn
<1> QED BY <1>1, <1>2 DEF NothingLeftBehind, Tidy

\* A step keeps the types and the keys.
LEMMA Carried ==
  ASSUME shape' = shape
  PROVE  /\ \A p : Key(p)' = Key(p) /\ TypeOf(p)' = TypeOf(p)
         /\ \A p, q : Holds(shape, p, q)' <=> Holds(shape, p, q)
         /\ Short(store)' <=> Short(store')
         /\ Tidy(store)' <=> Tidy(store')
<1>1. \A p : Key(p)' = Key(p) /\ TypeOf(p)' = TypeOf(p)
  BY DEF Key, TypeOf
<1>2. \A p : OwnSlots(store, p)' = OwnSlots(store', p)
  BY DEF OwnSlots, Key, TypeOf
<1>3. \A p, n : InBounds(store, p, n)' <=> InBounds(store', p, n)
  BY DEF InBounds, Key, TypeOf
<1>4. \A p : AliveIn(store, p)' <=> AliveIn(store', p)
  <2> TAKE p
  <2>1. AliveIn(store, p)' <=>
          \E n \in 0..Len(p) : (n = 0 \/ TypeOf(Upto(p, n - 1))'.kind = "map") /\ InBounds(store, p, n)'
    BY DEF AliveIn
  <2> QED BY <1>1, <1>3, <2>1 DEF AliveIn
<1>5. Short(store)' <=> Short(store')
  BY DEF Short, Key, TypeOf
<1>6. Tidy(store)' <=> Tidy(store')
  <2>1. Tidy(store)' <=> \A x \in DOMAIN store' : \E q \in Paths(shape') :
                           x \in OwnSlots(store, q)' /\ AliveIn(store, q)'
    BY DEF Tidy
  <2> QED BY <1>2, <1>4, <2>1 DEF Tidy
<1>7. \A p, q : Holds(shape, p, q)' <=> Holds(shape, p, q)
  BY DEF Holds
<1> QED BY <1>1, <1>5, <1>6, <1>7

\* A step to a storage that is in order.
LEMMA InOrder ==
  ASSUME shape \in Shapes, shape' = shape, GoodStore(store'), Short(store'), Tidy(store')
  PROVE  IInv'
<1>1. shape' \in Shapes
  OBVIOUS
<1>2. Short(store)' /\ Tidy(store)'
  BY Carried
<1>3. NothingLeftBehind'
  <2>1. (shape \in Shapes)' => (NothingLeftBehind <=> Tidy(store))'
    BY TidyStore, PTL
  <2> QED BY <1>1, <1>2, <2>1
<1> QED BY <1>1, <1>2, <1>3 DEF IInv, GoodStore

\* A storage in order.
Ready(st) == GoodStore(st) /\ Short(st) /\ Tidy(st)

\* The bound on the elements of a vec.
LEMMA BoundFacts ==
  /\ MaxElems \in Nat
  /\ \A n \in 0..255 : n < MaxElems => n \in 0..(MaxElems - 1) /\ n + 1 \in 0..MaxElems
  /\ \A n \in 0..255 : n <= MaxElems /\ n # 0 => n - 1 \in 0..(MaxElems - 1) /\ n = (n - 1) + 1
BY NestedAssumption

\* The element after the last, and the last, of a vec.
LEMMA CellFacts ==
  ASSUME shape \in Shapes, NEW p \in Paths(shape), TypeOf(p).kind = "vec", NEW i \in 0..(MaxElems - 1)
  PROVE  /\ i \in Steps(TypeOf(p)) /\ Append(p, i) \in Paths(shape)
         /\ TypeOf(Append(p, i)) = TypeOf(p).parts[1] /\ Append(p, i) # p
         /\ Len(Append(p, i)) = Len(p) + 1 /\ Append(p, i)[Len(p) + 1] = i
         /\ \A k \in 0..Len(p) : Upto(Append(p, i), k) = Upto(p, k)
         /\ \A k \in 1..Len(p) : Append(p, i)[k] = p[k]
<1>1. i \in Steps(TypeOf(p))
  BY DEF Steps
<1>2. /\ Append(p, i) \in Paths(shape) /\ i \in AnyStep /\ p \in Track /\ Len(p) \in Nat
      /\ TypeOf(Append(p, i)) = Part(TypeOf(p), i)
  BY <1>1, PathBook
<1>3. TypeOf(Append(p, i)) = TypeOf(p).parts[1]
  BY <1>2 DEF Part
<1>4. /\ Len(Append(p, i)) = Len(p) + 1 /\ Append(p, i)[Len(p) + 1] = i
      /\ \A k \in 0..Len(p) : Upto(Append(p, i), k) = Upto(p, k)
  BY <1>2, AppendFacts
<1>5. \A k \in 1..Len(p) : Append(p, i)[k] = p[k]
  BY <1>2 DEF Track
<1>6. Append(p, i) # p
  BY <1>2, <1>4
<1> QED BY <1>1, <1>2, <1>3, <1>4, <1>5, <1>6

\* A path in bounds is alive.
LEMMA ReachedAlive ==
  ASSUME shape \in Shapes, NEW p \in Paths(shape), NEW st, InBounds(st, p, 0)
  PROVE  AliveIn(st, p)
<1>1. 0 \in 0..Len(p)
  BY PathBook
<1> QED BY <1>1 DEF AliveIn

\* Clearing keeps the storage in order.
LEMMA ClearKeeps ==
  ASSUME shape \in Shapes, NEW p \in Paths(shape), NEW st, Ready(st)
  PROVE  Ready(ClearedAt(st, p))
<1>1. GoodStore(ClearedAt(st, p)) /\ Short(ClearedAt(st, p))
  BY ClearFrame DEF Ready
<1>2. Tidy(ClearedAt(st, p))
  BY ClearTidy DEF Ready, Tidy
<1> QED BY <1>1, <1>2 DEF Ready

\* So does writing a leaf in bounds.
LEMMA SetKeeps ==
  ASSUME shape \in Shapes, NEW g \in Paths(shape), TypeOf(g).kind \in Leaves, NEW st, Ready(st),
         InBounds(st, g, 0), NEW v \in Values(TypeOf(g), Strings), NEW su,
         su = Written(st, Key(g), TypeOf(g), v)
  PROVE  Ready(su)
<1>1. /\ GoodStore(su) /\ Short(su) /\ TidyBut(su, g)
      /\ \A q \in Paths(shape) : TypeOf(q).kind = "vec" => Length(su, Key(q)) = Length(st, Key(q))
  BY WriteTidy DEF Ready
<1>2. \A q \in Paths(shape) : TypeOf(q).kind = "vec" => Length(st, Key(q)) <= Length(su, Key(q))
  <2> TAKE q \in Paths(shape)
  <2> HAVE TypeOf(q).kind = "vec"
  <2>1. Length(su, Key(q)) = Length(st, Key(q)) /\ Length(su, Key(q)) \in 0..255
    BY <1>1, Slot32Facts
  <2> QED BY <2>1
<1>3. AliveIn(st, g)
  BY ReachedAlive
<1>4. AliveIn(su, g)
  BY <1>1, <1>2, <1>3, BoundsKept DEF Ready
<1>5. Tidy(su)
  BY <1>1, <1>4 DEF Tidy, TidyBut
<1> QED BY <1>1, <1>5 DEF Ready

\* So does growing a vec in bounds by an element.
LEMMA GrowKeeps ==
  ASSUME shape \in Shapes, NEW p \in Paths(shape), TypeOf(p).kind = "vec", NEW st, Ready(st),
         InBounds(st, p, 0), Length(st, Key(p)) < MaxElems, NEW su,
         su = WithLength(st, Key(p), Length(st, Key(p)) + 1)
  PROVE  Ready(su)
<1> DEFINE l == Length(st, Key(p))
<1>1. l \in 0..255 /\ l + 1 \in 0..MaxElems /\ l + 1 # l
  <2>1. l \in 0..255 /\ l < MaxElems
    BY Slot32Facts DEF Ready
  <2> HIDE DEF l
  <2> QED BY <2>1, NestedAssumption
<1> HIDE DEF l
<1>2. /\ GoodStore(su) /\ Length(su, Key(p)) = l + 1
      /\ \A q \in Paths(shape) : q # p => Frame(st, su, q)
  BY <1>1, LengthFrame DEF l, Ready
<1>3. \A w \in Paths(shape) : TypeOf(w).kind = "vec" => Length(st, Key(w)) <= Length(su, Key(w))
  <2> TAKE w \in Paths(shape)
  <2> HAVE TypeOf(w).kind = "vec"
  <2>1. CASE w = p
    BY <1>1, <1>2, <2>1 DEF l
  <2>2. CASE w # p
    <3>1. Length(st, Key(w)) = Length(su, Key(w)) /\ Length(st, Key(w)) \in 0..255
      BY <1>2, <2>2, FrameFacts, Slot32Facts DEF Ready
    <3> QED BY <3>1
  <2> QED BY <2>1, <2>2
<1>4. AliveIn(st, p)
  BY ReachedAlive
<1>5. AliveIn(su, p)
  BY <1>2, <1>3, <1>4, BoundsKept DEF Ready
<1>6. TidyBut(st, p)
  BY DEF Ready, Tidy, TidyBut
<1> QED BY <1>4, <1>5, <1>6, GrowTidy DEF Ready

\* So does pushing a leaf.
LEMMA PushKeeps ==
  ASSUME shape \in Shapes, NEW p \in Paths(shape), TypeOf(p).kind = "vec",
         TypeOf(p).parts[1].kind \in Leaves, NEW st, Ready(st), InBounds(st, p, 0), NEW l,
         l = Length(st, Key(p)), l < MaxElems, NEW v \in Values(TypeOf(p).parts[1], Strings), NEW g,
         g = Append(p, l), NEW sw, sw = Written(st, Key(g), TypeOf(g), v), NEW su,
         su = WithLength(sw, Key(p), l + 1)
  PROVE  /\ Ready(su)
         /\ l \in 0..(MaxElems - 1) /\ g \in Paths(shape) /\ TypeOf(g) = TypeOf(p).parts[1]
         /\ GoodStore(sw) /\ Length(su, Key(p)) = l + 1
         /\ \A q \in Paths(shape) : (q # g => Frame(st, sw, q)) /\ (q # p => Frame(sw, su, q))
<1>1. l \in 0..255
  BY Slot32Facts DEF Ready
<1>2. l \in 0..(MaxElems - 1) /\ l + 1 \in 0..MaxElems
  BY <1>1, BoundFacts
<1>3. /\ g \in Paths(shape) /\ TypeOf(g) = TypeOf(p).parts[1] /\ g # p
      /\ Len(g) = Len(p) + 1 /\ g[Len(p) + 1] = l
      /\ \A k \in 0..Len(p) : Upto(g, k) = Upto(p, k)
      /\ \A k \in 1..Len(p) : g[k] = p[k]
  BY <1>2, CellFacts
<1>4. /\ GoodStore(sw) /\ Short(sw) /\ TidyBut(sw, g)
      /\ \A q \in Paths(shape) : q # g => Frame(st, sw, q)
      /\ \A q \in Paths(shape) : TypeOf(q).kind = "vec" => Length(sw, Key(q)) = Length(st, Key(q))
  <2>1. v \in Values(TypeOf(g), Strings) /\ TypeOf(g).kind \in Leaves
    BY <1>3
  <2>2. /\ GoodStore(st) /\ Short(st) /\ Tidy(st) /\ g \in Paths(shape)
        /\ shape \in Shapes /\ sw = Written(st, Key(g), TypeOf(g), v)
    BY <1>3 DEF Ready
  <2> QED BY ONLY <2>1, <2>2, WriteTidy
<1>5. /\ GoodStore(su) /\ Length(su, Key(p)) = l + 1
      /\ \A q \in Paths(shape) : q # p => Frame(sw, su, q)
  BY <1>2, <1>4, LengthFrame
<1>6. Len(p) \in Nat /\ p \in Track /\ Upto(p, Len(p)) = p
  BY PathBook, UptoEnds
<1>7. ASSUME NEW w \in Paths(shape), TypeOf(w).kind = "vec", w # p
      PROVE  Length(st, Key(w)) = Length(su, Key(w))
  <2>1. Length(sw, Key(w)) = Length(su, Key(w))
    BY <1>4, <1>5, <1>7, FrameFacts
  <2> QED BY <1>4, <1>7, <2>1
<1>8. \A k \in 1..Len(p) : TypeOf(Upto(p, k - 1)).kind = "vec" =>
        Length(st, Key(Upto(p, k - 1))) = Length(su, Key(Upto(p, k - 1)))
  <2> TAKE k \in 1..Len(p)
  <2>1. k - 1 \in 0..Len(p) /\ k - 1 # Len(p)
    BY <1>6
  <2>2. Upto(p, k - 1) \in Paths(shape) /\ Len(Upto(p, k - 1)) = k - 1
    BY <2>1, PrefixFacts
  <2>3. Upto(p, k - 1) # p
    BY <2>1, <2>2
  <2> QED BY <1>7, <2>2, <2>3
<1>9. InBounds(su, g, 0)
  <2> SUFFICES ASSUME NEW k \in (0 + 1)..Len(g), TypeOf(Upto(g, k - 1)).kind = "vec"
               PROVE  g[k] < Length(su, Key(Upto(g, k - 1)))
    BY DEF InBounds
  <2>1. k - 1 \in 0..Len(p) /\ Upto(g, k - 1) = Upto(p, k - 1)
    <3>1. k - 1 \in 0..Len(p)
      BY <1>3, <1>6
    <3> QED BY <1>3, <3>1
  <2>2. CASE k = Len(p) + 1
    <3>1. Upto(g, k - 1) = p /\ g[k] = l
      <4>1. k - 1 = Len(p)
        BY <1>6, <2>2
      <4> QED BY <1>3, <1>6, <2>1, <2>2, <4>1
    <3> QED BY <1>1, <1>5, <3>1
  <2>3. CASE k # Len(p) + 1
    <3>1. k \in 1..Len(p) /\ k \in (0 + 1)..Len(p)
      BY <1>3, <1>6, <2>3
    <3>2. p[k] < Length(st, Key(Upto(p, k - 1)))
      BY <2>1, <3>1 DEF InBounds
    <3> QED BY <1>3, <1>8, <2>1, <3>1, <3>2
  <2> QED BY <2>2, <2>3
<1>10. InBounds(sw, p, 0)
  <2>1. \A k \in (0 + 1)..Len(p) : k \in 1..Len(p) /\ k - 1 \in 0..Len(p)
    BY <1>6
  <2>2. \A k \in 1..Len(p) : Upto(p, k - 1) \in Paths(shape)
    BY <2>1, <1>6, PathBook
  <2> QED BY <1>4, <2>1, <2>2 DEF InBounds
<1>11. AliveIn(su, g) /\ AliveIn(sw, p)
  BY <1>3, <1>9, <1>10, ReachedAlive
<1>12. Length(sw, Key(p)) = l
  BY <1>4
<1>13. GoodStore(su) /\ Short(su) /\ Tidy(su)
  BY <1>3, <1>4, <1>11, <1>12, GrowTidy
<1> QED BY <1>2, <1>3, <1>4, <1>5, <1>13 DEF Ready

\* So does dropping the last element of a vec.
LEMMA ShrinkKeeps ==
  ASSUME shape \in Shapes, NEW p \in Paths(shape), TypeOf(p).kind = "vec", NEW st, Ready(st),
         InBounds(st, p, 0), Length(st, Key(p)) # 0, NEW end, end = Length(st, Key(p)) - 1, NEW su,
         su = WithLength(ClearedAt(st, Append(p, end)), Key(p), end)
  PROVE  Ready(su) /\ end \in 0..(MaxElems - 1) /\ Append(p, end) \in Paths(shape)
<1>1. Length(st, Key(p)) \in 0..255 /\ Length(st, Key(p)) <= MaxElems
  BY Slot32Facts DEF Ready, Short
<1>2. end \in 0..(MaxElems - 1) /\ Length(st, Key(p)) = end + 1
  BY <1>1, BoundFacts
<1>3. Append(p, end) \in Paths(shape)
  BY <1>2, CellFacts
<1> QED BY <1>2, <1>3, ShrinkTidy DEF Ready

\* A call that leaves the storage in order when it is in bounds.
LEMMA NodeKeeps ==
  ASSUME IInv, NEW c, NEW st, NEW out, OnNode(c, st, out), InBounds(store, c.path, 0) => Ready(st)
  PROVE  IInv'
<1>1. shape \in Shapes /\ Ready(store)
  BY TidyStore DEF IInv, Ready
<1>2. shape' = shape /\ Ready(store')
  BY <1>1 DEF OnNode, Ready
<1> QED BY <1>1, <1>2, InOrder DEF Ready

\* Every operation keeps the storage in order.
LEMMA StepKeeps ==
  ASSUME IInv, [Next]_vars
  PROVE  IInv'
<1>1. shape \in Shapes /\ Ready(store)
  BY TidyStore DEF IInv, Ready
<1>2. CASE UNCHANGED vars
  <2>1. shape' = shape /\ store' = store
    BY <1>2 DEF vars
  <2> QED BY <1>1, <2>1, InOrder DEF Ready
<1>3. CASE Clear
  <2>1. PICK c \in CallsOf("clear") : OnNode(c, ClearedAt(store, c.path), << >>)
    BY <1>3 DEF Clear
  <2>2. c.path \in Paths(shape)
    BY <1>1, CallFacts DEF Ops
  <2>3. Ready(ClearedAt(store, c.path))
    BY <1>1, <2>2, ClearKeeps
  <2> QED BY <2>1, <2>3, NodeKeeps
<1>4. CASE Take
  <2>1. PICK c \in CallsOf("take") : OnNode(c, ClearedAt(store, c.path), <<ReadAt(c.path)>>)
    BY <1>4 DEF Take
  <2>2. c.path \in Paths(shape)
    BY <1>1, CallFacts DEF Ops
  <2>3. Ready(ClearedAt(store, c.path))
    BY <1>1, <2>2, ClearKeeps
  <2> QED BY <2>1, <2>3, NodeKeeps
<1>5. CASE Set
  <2>1. PICK c \in CallsOf("set") : OnNode(c, WrittenAt(c.path, c.arg), << >>)
    BY <1>5 DEF Set
  <2>2. /\ c.path \in Paths(shape) /\ TypeOf(c.path).kind \in Leaves
        /\ c.arg \in Values(TypeOf(c.path), Strings)
    BY <1>1, CallFacts DEF Ops
  <2>3. InBounds(store, c.path, 0) => Ready(WrittenAt(c.path, c.arg))
    BY <1>1, <2>2, SetKeeps DEF WrittenAt
  <2> QED BY <2>1, <2>3, NodeKeeps
<1>6. CASE Push
  <2>1. PICK c \in CallsOf("push") :
          /\ HasRoom(c.path)
          /\ OnNode(c, WithLength(WrittenAt(Append(c.path, LengthAt(c.path)), c.arg), Key(c.path),
                                  LengthAt(c.path) + 1), << >>)
    BY <1>6 DEF Push
  <2>2. /\ c.path \in Paths(shape) /\ TypeOf(c.path).kind = "vec"
        /\ TypeOf(c.path).parts[1].kind \in Leaves
        /\ c.arg \in Values(TypeOf(c.path).parts[1], Strings)
    BY <1>1, CallFacts DEF Ops
  <2> DEFINE su == WithLength(WrittenAt(Append(c.path, LengthAt(c.path)), c.arg), Key(c.path),
                              LengthAt(c.path) + 1)
  <2>3. InBounds(store, c.path, 0) => Ready(su)
    BY <1>1, <2>1, <2>2, PushKeeps DEF WrittenAt, LengthAt, HasRoom
  <2> QED BY <2>1, <2>3, NodeKeeps
<1>7. CASE Grow
  <2>1. PICK c \in CallsOf("grow") :
          /\ HasRoom(c.path)
          /\ OnNode(c, WithLength(store, Key(c.path), LengthAt(c.path) + 1), << >>)
    BY <1>7 DEF Grow
  <2>2. c.path \in Paths(shape) /\ TypeOf(c.path).kind = "vec"
    BY <1>1, CallFacts DEF Ops
  <2>3. InBounds(store, c.path, 0) => Ready(WithLength(store, Key(c.path), LengthAt(c.path) + 1))
    BY <1>1, <2>1, <2>2, GrowKeeps DEF LengthAt, HasRoom
  <2> QED BY <2>1, <2>3, NodeKeeps
<1>8. ASSUME NEW p \in Paths(shape), TypeOf(p).kind = "vec", InBounds(store, p, 0)
      PROVE  Ready(Shortened(p))
  <2>1. CASE LengthAt(p) = 0
    BY <1>1, <2>1 DEF Shortened
  <2>2. CASE LengthAt(p) # 0
    <3>1. Shortened(p)
            = WithLength(ClearedAt(store, Append(p, LengthAt(p) - 1)), Key(p), LengthAt(p) - 1)
      BY <2>2 DEF Shortened
    <3> QED BY <1>1, <1>8, <2>2, <3>1, ShrinkKeeps DEF LengthAt
  <2> QED BY <2>1, <2>2
<1>9. CASE Pop
  <2>1. PICK c \in CallsOf("pop") :
          OnNode(c, Shortened(c.path),
                 IF LengthAt(c.path) = 0 THEN << >>
                 ELSE <<ReadAt(Append(c.path, LengthAt(c.path) - 1))>>)
    BY <1>9 DEF Pop
  <2>2. c.path \in Paths(shape) /\ TypeOf(c.path).kind = "vec"
    BY <1>1, CallFacts DEF Ops
  <2> QED BY <1>8, <2>1, <2>2, NodeKeeps
<1>10. CASE EraseLast
  <2>1. PICK c \in CallsOf("erase_last") :
          OnNode(c, Shortened(c.path), <<<<IF LengthAt(c.path) = 0 THEN 0 ELSE 1>>>>)
    BY <1>10 DEF EraseLast
  <2>2. c.path \in Paths(shape) /\ TypeOf(c.path).kind = "vec"
    BY <1>1, CallFacts DEF Ops
  <2> QED BY <1>8, <2>1, <2>2, NodeKeeps
<1>11. CASE Get \/ TryGet \/ Size \/ TryAt
  <2>1. PICK c, out : OnNode(c, store, out)
    BY <1>11 DEF Get, TryGet, Size, TryAt
  <2> QED BY <1>1, <2>1, NodeKeeps
<1> QED BY <1>2, <1>3, <1>4, <1>5, <1>6, <1>7, <1>9, <1>10, <1>11 DEF Next

\* At first nothing is stored.
LEMMA InitReady ==
  ASSUME Init
  PROVE  IInv
<1>1. shape \in Shapes /\ store = << >>
  BY DEF Init
<1>2. DOMAIN store = {}
  BY <1>1
<1>3. GoodStore(store) /\ NothingLeftBehind
  BY <1>2 DEF GoodStore, NothingLeftBehind
<1>4. Short(store)
  <2>1. \A x : Length(store, x) = 0
    BY <1>2, WordSlotFacts DEF Length, Slot32
  <2> QED BY <2>1, BoundFacts DEF Short
<1> QED BY <1>1, <1>3, <1>4 DEF IInv

\* The storage stays in order.
THEOREM StorageInOrder == Spec => []IInv
<1>1. Init => IInv
  BY InitReady
<1>2. IInv /\ [Next]_vars => IInv'
  BY StepKeeps
<1> QED BY <1>1, <1>2, PTL DEF Spec

\* Whatever is stored, cleared, dropped and grown again, in any nest of
\* containers, each slot that holds something belongs to a value that is
\* still there: the clear_at of pvm-storage/src/lib.rs leaks nothing.
THEOREM NothingLeaks == Spec => []NothingLeftBehind
<1>1. IInv => NothingLeftBehind
  BY DEF IInv
<1> QED BY <1>1, StorageInOrder, PTL

-----------------------------------------------------------------------------
(* A tree of independent values                                            *)

\* The slots of a value of its own.
LEMMA RunFacts ==
  ASSUME NEW S \in Types, NEW key \in AnyKey, NEW x \in Run(key, S.slots)
  PROVE  x \in AnyKey /\ Covers(key, S.slots, x)
<1>1. S.slots \in Nat
  BY ShapeAssumption DEF WellFormed
<1>2. PICK a \in 0..(S.slots - 1) : x = Add(key, a)
  BY DEF Run
<1>3. a \in Nat /\ a < S.slots
  BY <1>1
<1> QED BY <1>1, <1>2, <1>3, CoversSelf

\* A field whose slots are zero reads as the default.
LEMMA BlankFieldReads ==
  ASSUME NEW S \in Types, S.kind \in {"static", "text"}, NEW key \in AnyKey, NEW st,
         \A x \in Run(key, S.slots) : x \notin DOMAIN st
  PROVE  ReadField(st, key, S) = BlankField(S)
<1>1. WellFormed(S) /\ \A x \in Run(key, S.slots) : Slot32(st, x) = ZeroSlot
  BY ShapeAssumption DEF Slot32
<1>2. CASE S.kind = "static"
  <2>1. ASSUME NEW i \in 1..S.slots PROVE Slot32(st, Add(key, i - 1))[LowByte] = 0
    <3>1. i - 1 \in 0..(S.slots - 1)
      BY <1>1 DEF WellFormed
    <3>2. Slot32(st, Add(key, i - 1)) = ZeroSlot
      BY <1>1, <3>1 DEF Run
    <3> QED BY <3>2, WordSlotFacts
  <2> QED BY <1>2, <2>1 DEF ReadField, BlankField
<1>3. CASE S.kind = "text"
  <2>1. S.slots = 1 /\ 0 \in 0..(1 - 1) /\ Add(key, 0) = key
    BY <1>1, <1>3, CoversSelf DEF WellFormed
  <2>2. Slot32(st, key) = ZeroSlot
    BY <1>1, <2>1 DEF Run
  <2>3. HeaderLen(ZeroSlot) = 0
    BY WordSlotFacts, WidthFacts DEF HeaderLen, Spilled
  <2>4. ReadField(st, key, S)
          = Stored(ZeroSlot, [s \in 0..(OldChunks(ZeroSlot) - 1) |-> Slot32(st, Add(Body(key), s))])
    BY <1>3, <2>2 DEF ReadField
  <2> DEFINE body == [s \in 0..(OldChunks(ZeroSlot) - 1) |-> Slot32(st, Add(Body(key), s))]
  <2> HIDE DEF body
  <2>5. Stored(ZeroSlot, body) = << >>
    <3>1. Stored(ZeroSlot, body)
            = [k \in 1..0 |-> IF Spilled(ZeroSlot) THEN body[(k - 1) \div Width][(k - 1) % Width]
                              ELSE ZeroSlot[k - 1]]
      BY <2>3 DEF Stored
    <3> QED BY <3>1
  <2> QED BY <1>3, <2>4, <2>5 DEF body, BlankField
<1> QED BY <1>2, <1>3

\* So does a leaf.
LEMMA BlankReads ==
  ASSUME NEW S \in Types, S.kind \in Leaves, NEW key \in AnyKey, NEW st,
         \A x \in Run(key, S.slots) : x \notin DOMAIN st
  PROVE  Read(st, key, S) = Blank(S)
<1>1. CASE S.kind # "record"
  <2>1. S.kind \in {"static", "text"}
    BY <1>1 DEF Leaves
  <2> QED BY <1>1, <2>1, BlankFieldReads DEF Read, Blank
<1>2. CASE S.kind = "record"
  <2> DEFINE at(f) == FieldSlot(key, S.parts, f)
  <2>1. ASSUME NEW f \in 1..Len(S.parts) PROVE ReadField(st, at(f), S.parts[f]) = BlankField(S.parts[f])
    <3> DEFINE a == SlotsOf(S.parts, f - 1)
               T == S.parts[f]
    <3>1. WellFormed(S) /\ T \in Types /\ T.kind \in {"static", "text"} /\ at(f) \in AnyKey
      BY <1>2, RecordFields, ShapeAssumption
    <3>2. Len(S.parts) \in 0..Len(S.parts) /\ f <= Len(S.parts) /\ S.slots = SlotsOf(S.parts, Len(S.parts))
      BY <1>2, <3>1, RecordFields DEF WellFormed
    <3>3. a + T.slots <= S.slots /\ a \in Nat /\ T.slots \in Nat /\ S.slots \in Nat
      BY <3>1, <3>2, SlotsOfGrow DEF WellFormed
    <3>4. at(f) = Add(key, a)
      BY DEF FieldSlot
    <3>5. \A x \in Run(at(f), T.slots) : x \in Run(key, S.slots)
      <4> TAKE x \in Run(at(f), T.slots)
      <4>1. PICK r \in 0..(T.slots - 1) : x = Add(at(f), r)
        BY DEF Run
      <4> HIDE DEF a, T
      <4>2. r \in Nat /\ a + r \in 0..(S.slots - 1)
        BY <3>3
      <4>3. x = Add(key, a + r)
        BY <3>3, <3>4, <4>1, <4>2, AddAdd
      <4> QED BY <4>2, <4>3 DEF Run
    <3> QED BY <3>1, <3>5, BlankFieldReads
  <2> QED BY <1>2, <2>1 DEF Read, Blank
<1> QED BY <1>1, <1>2

\* What a leaf reads as, by whether it was written.
LEMMA ValueReads ==
  ASSUME shape \in Shapes, NEW p \in Paths(shape), TypeOf(p).kind \in Leaves, NEW st
  PROVE  LET leaf == TryRead(st, Key(p), TypeOf(p)) IN
         (IF leaf = << >> THEN Blank(TypeOf(p)) ELSE leaf[1]) = Read(st, Key(p), TypeOf(p))
<1>1. TypeOf(p) \in Types /\ Key(p) \in AnyKey
  BY PathBook
<1>2. CASE \A x \in Run(Key(p), TypeOf(p).slots) : x \notin DOMAIN st
  <2>1. Read(st, Key(p), TypeOf(p)) = Blank(TypeOf(p))
    BY <1>1, <1>2, BlankReads
  <2> QED BY <1>2, <2>1 DEF TryRead
<1>3. CASE ~\A x \in Run(Key(p), TypeOf(p).slots) : x \notin DOMAIN st
  <2>1. TryRead(st, Key(p), TypeOf(p)) = <<Read(st, Key(p), TypeOf(p))>>
    BY <1>3 DEF TryRead
  <2> QED BY <2>1
<1> QED BY <1>2, <1>3

\* Clearing p empties what it holds, and leaves the rest.
LEMMA ClearEffect ==
  ASSUME shape \in Shapes, NEW p \in Paths(shape), NEW st, Ready(st), NEW su, su = ClearedAt(st, p),
         NEW q \in Paths(shape)
  PROVE  /\ TypeOf(q).kind \in Leaves =>
              TryRead(su, Key(q), TypeOf(q))
                = IF Holds(shape, p, q) THEN << >> ELSE TryRead(st, Key(q), TypeOf(q))
         /\ TypeOf(q).kind = "vec" =>
              Length(su, Key(q)) = IF Holds(shape, p, q) THEN 0 ELSE Length(st, Key(q))
<1>1. CASE ~Holds(shape, p, q)
  <2>1. Frame(st, su, q) /\ GoodStore(st)
    BY <1>1, ClearFrame DEF Ready
  <2> QED BY <1>1, <2>1, FrameFacts
<1>2. CASE Holds(shape, p, q)
  <2>1. \A x \in DOMAIN su : \E e \in Paths(shape) : x \in OwnSlots(su, e) /\ ~Holds(shape, p, e)
    BY ClearTidy DEF Ready
  <2>2. ASSUME TypeOf(q).kind \in Leaves PROVE TryRead(su, Key(q), TypeOf(q)) = << >>
    <3>1. ASSUME NEW x \in Run(Key(q), TypeOf(q).slots), x \in DOMAIN su PROVE FALSE
      <4>1. At(q, x)
        BY PathBook, RunFacts DEF At
      <4>2. PICK e \in Paths(shape) : x \in OwnSlots(su, e) /\ ~Holds(shape, p, e)
        BY <2>1, <3>1
      <4>3. e = q
        BY <2>2, <4>1, <4>2, OwnerInside, LeafEnds
      <4> QED BY <1>2, <4>2, <4>3
    <3> QED BY <3>1 DEF TryRead
  <2>3. ASSUME TypeOf(q).kind = "vec" PROVE Length(su, Key(q)) = 0
    <3>1. ASSUME Key(q) \in DOMAIN su PROVE FALSE
      <4>1. PICK e \in Paths(shape) : Key(q) \in OwnSlots(su, e) /\ ~Holds(shape, p, e)
        BY <2>1, <3>1
      <4>2. Key(q) \in OwnSlots(su, q)
        BY <2>3, VecOwns
      <4>3. e = q
        BY <4>1, <4>2, OneOwner
      <4> QED BY <1>2, <4>1, <4>3
    <3> QED BY <3>1, WordSlotFacts DEF Length, Slot32
  <2> QED BY <1>2, <2>2, <2>3
<1> QED BY <1>1, <1>2

\* The tree a storage stands for.
LeavesOf(st) == [p \in PathsTo(shape, Leaves) |-> TryRead(st, Key(p), TypeOf(p))]
LengthsOf(st) == [p \in PathsTo(shape, {"vec"}) |-> Length(st, Key(p))]

\* Its parts.
LEMMA TreeParts ==
  ASSUME shape \in Shapes
  PROVE  /\ \A q : q \in PathsTo(shape, Leaves) <=> q \in Paths(shape) /\ TypeOf(q).kind \in Leaves
         /\ \A q : q \in PathsTo(shape, {"vec"}) <=> q \in Paths(shape) /\ TypeOf(q).kind = "vec"
         /\ \A st : DOMAIN LeavesOf(st) = PathsTo(shape, Leaves)
         /\ \A st : DOMAIN LengthsOf(st) = PathsTo(shape, {"vec"})
<1>1. DOMAIN TypesAt[shape] = Paths(shape)
  BY PlaceFacts
<1>2. \A q : q \in PathsTo(shape, Leaves) <=> q \in Paths(shape) /\ TypeOf(q).kind \in Leaves
  BY <1>1 DEF PathsTo, TypeOf
<1>3. \A q : q \in PathsTo(shape, {"vec"}) <=> q \in Paths(shape) /\ TypeOf(q).kind = "vec"
  BY <1>1 DEF PathsTo, TypeOf
<1> QED BY <1>2, <1>3 DEF LeavesOf, LengthsOf

\* Two storages stand for trees that differ as their values do.
LEMMA LeavesAre ==
  ASSUME shape \in Shapes, NEW st, NEW F, DOMAIN F = PathsTo(shape, Leaves),
         F = [q \in DOMAIN F |-> F[q]],
         \A q \in Paths(shape) : TypeOf(q).kind \in Leaves => TryRead(st, Key(q), TypeOf(q)) = F[q]
  PROVE  LeavesOf(st) = F
<1>1. \A q \in DOMAIN F : TryRead(st, Key(q), TypeOf(q)) = F[q]
  BY TreeParts
<1> QED BY <1>1 DEF LeavesOf

\* The same for the lengths.
LEMMA LengthsAre ==
  ASSUME shape \in Shapes, NEW st, NEW F, DOMAIN F = PathsTo(shape, {"vec"}),
         F = [q \in DOMAIN F |-> F[q]],
         \A q \in Paths(shape) : TypeOf(q).kind = "vec" => Length(st, Key(q)) = F[q]
  PROVE  LengthsOf(st) = F
<1>1. \A q \in DOMAIN F : Length(st, Key(q)) = F[q]
  BY TreeParts
<1> QED BY <1>1 DEF LengthsOf

\* The tree speaks of the same shapes, paths and calls.
LEMMA SameShapes ==
  /\ \A S, i : Abstract!Part(S, i) = Part(S, i)
  /\ \A p, k : Abstract!Upto(p, k) = Upto(p, k)
  /\ \A S : Abstract!Blank(S) = Blank(S)
  /\ \A S, p, q : Abstract!Holds(S, p, q) <=> Holds(S, p, q)
  /\ \A c, panicked, out : Abstract!Answer(c, panicked, out) = Answer(c, panicked, out)
  /\ Abstract!Leaves = Leaves /\ Abstract!Ops = Ops
  /\ Abstract!TypesAt = TypesAt /\ Abstract!CallTable = CallTable
  /\ \A S, kinds : Abstract!PathsTo(S, kinds) = PathsTo(S, kinds)
<1>1. \A S, i : Abstract!Part(S, i) = Part(S, i)
  BY DEF Abstract!Part, Part
<1>2. \A p, k : Abstract!Upto(p, k) = Upto(p, k)
  BY DEF Abstract!Upto, Upto
<1>3. Abstract!Leaves = Leaves /\ Abstract!Ops = Ops
  BY DEF Abstract!Leaves, Leaves, Abstract!Ops, Ops
<1>4. \A S : Abstract!Steps(S) = Steps(S)
  BY DEF Abstract!Steps, Steps
<1>5. \A S, p : Abstract!ShapeAt(S, p) = ShapeAt(S, p)
  BY DEF Abstract!ShapeAt, ShapeAt, Abstract!Part, Part
<1>7. \A S : Abstract!Paths(S) = Paths(S)
  BY DEF Abstract!Paths, Paths, Abstract!Longer, Longer, Abstract!Steps, Steps, Abstract!ShapeAt,
         ShapeAt, Abstract!Part, Part
<1>8. Abstract!TypesAt = TypesAt
  BY <1>5, <1>7 DEF Abstract!TypesAt, TypesAt
<1>9. \A S, kinds : Abstract!PathsTo(S, kinds) = PathsTo(S, kinds)
  BY <1>8 DEF Abstract!PathsTo, PathsTo
<1>10. \A S, p, q : Abstract!Holds(S, p, q) <=> Holds(S, p, q)
  BY <1>2, <1>8 DEF Abstract!Holds, Holds, Abstract!Extends, Extends
<1>11. \A S : Abstract!Blank(S) = Blank(S)
  BY DEF Abstract!Blank, Blank, Abstract!BlankField, BlankField
<1>12. \A c, panicked, out : Abstract!Answer(c, panicked, out) = Answer(c, panicked, out)
  BY DEF Abstract!Answer, Answer
<1>15. \A S, p : Abstract!CallsAt(S, p) = CallsAt(S, p)
  BY DEF Abstract!CallsAt, CallsAt, Abstract!Leaves, Leaves, Abstract!Steps, Steps, Abstract!Call, Call,
         Abstract!Values, Values, Abstract!FieldValues, FieldValues
<1>16. \A S : Abstract!Calls(S) = Calls(S)
  BY <1>5, <1>7, <1>15 DEF Abstract!Calls, Calls
<1>17. Abstract!CallTable = CallTable
  BY <1>3, <1>16 DEF Abstract!CallTable, CallTable
<1> QED BY <1>1, <1>2, <1>3, <1>8, <1>9, <1>10, <1>11, <1>12, <1>17

\* The tree is in bounds where the storage is.
LEMMA SameBounds ==
  ASSUME shape \in Shapes, NEW p \in Paths(shape)
  PROVE  Abstract!InBounds(p) <=> InBounds(store, p, 0)
<1>1. \A k \in 1..Len(p) : Upto(p, k - 1) \in Paths(shape)
  <2> TAKE k \in 1..Len(p)
  <2>1. k - 1 \in 0..Len(p)
    BY PathBook
  <2> QED BY <2>1, PathBook
<1>2. ASSUME NEW k \in 1..Len(p), TypeOf(Upto(p, k - 1)).kind = "vec"
      PROVE  LengthsOf(store)[Upto(p, k - 1)] = Length(store, Key(Upto(p, k - 1)))
  <2>1. Upto(p, k - 1) \in PathsTo(shape, {"vec"})
    BY <1>1, <1>2, TreeParts
  <2> QED BY <2>1 DEF LengthsOf
<1>3. Abstract!InBounds(p) <=>
        \A k \in 1..Len(p) : TypeOf(Upto(p, k - 1)).kind = "vec" => p[k] < LengthsOf(store)[Upto(p, k - 1)]
  BY SameShapes DEF Abstract!InBounds, Abstract!Kind, TypeOf, LengthsOf, LengthAt
<1>4. InBounds(store, p, 0) <=>
        \A k \in 1..Len(p) : TypeOf(Upto(p, k - 1)).kind = "vec" => p[k] < Length(store, Key(Upto(p, k - 1)))
  <2>1. 0 + 1 = 1
    OBVIOUS
  <2> QED BY <2>1 DEF InBounds
<1> QED BY <1>2, <1>3, <1>4

\* A call that has the effect on the storage that it has on the tree.
LEMMA NodeDoes ==
  ASSUME shape \in Shapes, NEW op \in Ops, NEW c \in CallsOf(op), NEW st, NEW out, OnNode(c, st, out),
         InBounds(store, c.path, 0) =>
           Abstract!Effect(c) = Abstract!Becomes(LeavesOf(st), LengthsOf(st), out)
  PROVE  Abstract!Next
<1>1. c.path \in Paths(shape) /\ c \in CallTable[shape][op]
  BY CallFacts DEF CallsOf
<1>2. shape' = shape
  BY DEF OnNode
<1>3. \A p : Key(p)' = Key(p) /\ TypeOf(p)' = TypeOf(p)
  BY <1>2, Carried
<1>4. CASE ~InBounds(store, c.path, 0)
  <2>1. store' = store /\ last' = Answer(c, TRUE, << >>)
    BY <1>4 DEF OnNode
  <2>2. last'.call = c
    BY <2>1 DEF Answer
  <2>3. ~Abstract!InBounds(c.path)
    BY <1>1, <1>4, SameBounds
  <2>4. /\ [p \in PathsTo(shape', Leaves) |-> TryRead(store', Key(p)', TypeOf(p)')]
             = [p \in PathsTo(shape, Leaves) |-> TryRead(store, Key(p), TypeOf(p))]
        /\ [p \in PathsTo(shape', {"vec"}) |-> Length(store', Key(p)')]
             = [p \in PathsTo(shape, {"vec"}) |-> Length(store, Key(p))]
    BY <1>2, <1>3, <2>1
  <2>5. Abstract!Does(c)
    BY <2>1, <2>3, <2>4, SameShapes DEF Abstract!Does, LengthAt
  <2> QED BY <1>1, <1>2, <2>2, <2>5, SameShapes DEF Abstract!Next
<1>5. CASE InBounds(store, c.path, 0)
  <2>1. store' = st /\ last' = Answer(c, FALSE, out)
    BY <1>5 DEF OnNode
  <2>2. last'.call = c
    BY <2>1 DEF Answer
  <2>3. Abstract!InBounds(c.path)
    BY <1>1, <1>5, SameBounds
  <2>4. /\ [p \in PathsTo(shape', Leaves) |-> TryRead(store', Key(p)', TypeOf(p)')] = LeavesOf(st)
        /\ [p \in PathsTo(shape', {"vec"}) |-> Length(store', Key(p)')] = LengthsOf(st)
    BY <1>2, <1>3, <2>1 DEF LeavesOf, LengthsOf
  <2>5. /\ Abstract!Effect(c).leaves = LeavesOf(st)
        /\ Abstract!Effect(c).lengths = LengthsOf(st)
        /\ Abstract!Effect(c).out = out
    BY <1>5 DEF Abstract!Becomes
  <2>6. Abstract!Does(c)
    BY <2>1, <2>3, <2>4, <2>5, SameShapes DEF Abstract!Does, LengthAt
  <2> QED BY <1>1, <1>2, <2>2, <2>6, SameShapes DEF Abstract!Next
<1> QED BY <1>4, <1>5

\* What a call does to the tree of the storage.
LEMMA EffectCases ==
  ASSUME shape \in Shapes, NEW c, NEW p, p = c.path
  PROVE  LET L == LeavesOf(store)
             N == LengthsOf(store)
             end == Append(p, N[p] - 1)
         IN
         /\ c.op = "set" =>
              Abstract!Effect(c) = Abstract!Becomes([L EXCEPT ![p] = Abstract!Present(TypeOf(p), c.arg)], N, << >>)
         /\ c.op = "clear" =>
              Abstract!Effect(c) = Abstract!Becomes(Abstract!Without(L, p, << >>), Abstract!Without(N, p, 0), << >>)
         /\ c.op = "take" =>
              Abstract!Effect(c)
                = Abstract!Becomes([L EXCEPT ![p] = << >>], N, <<Abstract!Value(TypeOf(p), L[p])>>)
         /\ c.op = "get" =>
              Abstract!Effect(c) = Abstract!Becomes(L, N, <<Abstract!Value(TypeOf(p), L[p])>>)
         /\ c.op = "try_get" => Abstract!Effect(c) = Abstract!Becomes(L, N, L[p])
         /\ c.op = "try_at" =>
              Abstract!Effect(c)
                = Abstract!Becomes(L, N,
                    IF c.arg[1] < N[p]
                    THEN <<Abstract!Value(TypeOf(Append(p, c.arg[1])), L[Append(p, c.arg[1])])>>
                    ELSE << >>)
         /\ c.op = "len" => Abstract!Effect(c) = Abstract!Becomes(L, N, <<<<N[p]>>>>)
         /\ c.op = "push" =>
              Abstract!Effect(c)
                = Abstract!Becomes([L EXCEPT ![Append(p, N[p])] = Abstract!Present(Part(TypeOf(p), N[p]), c.arg)],
                                   [N EXCEPT ![p] = N[p] + 1], << >>)
         /\ c.op = "grow" => Abstract!Effect(c) = Abstract!Becomes(L, [N EXCEPT ![p] = N[p] + 1], << >>)
         /\ c.op = "pop" =>
              Abstract!Effect(c)
                = IF N[p] = 0 THEN Abstract!Becomes(L, N, << >>)
                  ELSE Abstract!Becomes([L EXCEPT ![end] = << >>], [N EXCEPT ![p] = N[p] - 1],
                                        <<Abstract!Value(TypeOf(end), L[end])>>)
         /\ c.op = "erase_last" =>
              Abstract!Effect(c)
                = IF N[p] = 0 THEN Abstract!Becomes(L, N, <<<<0>>>>)
                  ELSE Abstract!Becomes(Abstract!Without(L, end, << >>),
                                        [Abstract!Without(N, end, 0) EXCEPT ![p] = N[p] - 1], <<<<1>>>>)
<1> DEFINE L == LeavesOf(store)
           N == LengthsOf(store)
           end == Append(p, N[p] - 1)
<1>1. \A q : Abstract!TypesAt[shape][q] = TypeOf(q)
  BY SameShapes DEF TypeOf
<1>2. \A S, i : Abstract!Part(S, i) = Part(S, i)
  BY SameShapes
<1>3. c.op = "set" =>
              Abstract!Effect(c) = Abstract!Becomes([L EXCEPT ![p] = Abstract!Present(TypeOf(p), c.arg)], N, << >>)
  BY <1>1, <1>2 DEF Abstract!Effect, LeavesOf, LengthsOf, LengthAt
<1>4. c.op = "clear" =>
              Abstract!Effect(c) = Abstract!Becomes(Abstract!Without(L, p, << >>), Abstract!Without(N, p, 0), << >>)
  BY <1>1, <1>2 DEF Abstract!Effect, LeavesOf, LengthsOf, LengthAt
<1>5. c.op = "take" =>
              Abstract!Effect(c)
                = Abstract!Becomes([L EXCEPT ![p] = << >>], N, <<Abstract!Value(TypeOf(p), L[p])>>)
  BY <1>1, <1>2 DEF Abstract!Effect, LeavesOf, LengthsOf, LengthAt
<1>6. c.op = "get" =>
              Abstract!Effect(c) = Abstract!Becomes(L, N, <<Abstract!Value(TypeOf(p), L[p])>>)
  BY <1>1, <1>2 DEF Abstract!Effect, LeavesOf, LengthsOf, LengthAt
<1>7. c.op = "try_get" => Abstract!Effect(c) = Abstract!Becomes(L, N, L[p])
  BY <1>1, <1>2 DEF Abstract!Effect, LeavesOf, LengthsOf, LengthAt
<1>8. c.op = "try_at" =>
              Abstract!Effect(c)
                = Abstract!Becomes(L, N,
                    IF c.arg[1] < N[p]
                    THEN <<Abstract!Value(TypeOf(Append(p, c.arg[1])), L[Append(p, c.arg[1])])>>
                    ELSE << >>)
  BY <1>1, <1>2 DEF Abstract!Effect, LeavesOf, LengthsOf, LengthAt
<1>9. c.op = "len" => Abstract!Effect(c) = Abstract!Becomes(L, N, <<<<N[p]>>>>)
  BY <1>1, <1>2 DEF Abstract!Effect, LeavesOf, LengthsOf, LengthAt
<1>10. c.op = "push" =>
              Abstract!Effect(c)
                = Abstract!Becomes([L EXCEPT ![Append(p, N[p])] = Abstract!Present(Part(TypeOf(p), N[p]), c.arg)],
                                   [N EXCEPT ![p] = N[p] + 1], << >>)
  BY <1>1, <1>2 DEF Abstract!Effect, LeavesOf, LengthsOf, LengthAt
<1>11. c.op = "grow" => Abstract!Effect(c) = Abstract!Becomes(L, [N EXCEPT ![p] = N[p] + 1], << >>)
  BY <1>1, <1>2 DEF Abstract!Effect, LeavesOf, LengthsOf, LengthAt
<1>12. c.op = "pop" =>
              Abstract!Effect(c)
                = IF N[p] = 0 THEN Abstract!Becomes(L, N, << >>)
                  ELSE Abstract!Becomes([L EXCEPT ![end] = << >>], [N EXCEPT ![p] = N[p] - 1],
                                        <<Abstract!Value(TypeOf(end), L[end])>>)
  BY <1>1, <1>2 DEF Abstract!Effect, LeavesOf, LengthsOf, LengthAt
<1>13. c.op = "erase_last" =>
              Abstract!Effect(c)
                = IF N[p] = 0 THEN Abstract!Becomes(L, N, <<<<0>>>>)
                  ELSE Abstract!Becomes(Abstract!Without(L, end, << >>),
                                        [Abstract!Without(N, end, 0) EXCEPT ![p] = N[p] - 1], <<<<1>>>>)
  BY <1>1, <1>2 DEF Abstract!Effect, LeavesOf, LengthsOf, LengthAt
<1> QED BY <1>3, <1>4, <1>5, <1>6, <1>7, <1>8, <1>9, <1>10, <1>11, <1>12, <1>13

\* One leaf that changes, or one length.
LEMMA LeafChanged ==
  ASSUME shape \in Shapes, NEW g \in Paths(shape), TypeOf(g).kind \in Leaves, NEW st, NEW su, NEW w,
         TryRead(su, Key(g), TypeOf(g)) = w,
         \A q \in Paths(shape) : TypeOf(q).kind \in Leaves /\ q # g =>
           TryRead(su, Key(q), TypeOf(q)) = TryRead(st, Key(q), TypeOf(q))
  PROVE  LeavesOf(su) = [LeavesOf(st) EXCEPT ![g] = w]
<1> DEFINE L == LeavesOf(st)
           F == [q \in PathsTo(shape, Leaves) |-> IF q = g THEN w ELSE L[q]]
<1>1. L = [q \in PathsTo(shape, Leaves) |-> TryRead(st, Key(q), TypeOf(q))]
  BY DEF LeavesOf
<1>2. [L EXCEPT ![g] = w] = F
  BY <1>1
<1>3. \A q \in Paths(shape) : TypeOf(q).kind \in Leaves => TryRead(su, Key(q), TypeOf(q)) = F[q]
  BY <1>1, TreeParts
<1>4. DOMAIN F = PathsTo(shape, Leaves) /\ F = [q \in DOMAIN F |-> F[q]]
  OBVIOUS
<1> HIDE DEF F
<1>5. LeavesOf(su) = F
  BY ONLY shape \in Shapes, <1>3, <1>4, LeavesAre
<1> QED BY <1>2, <1>5

\* The same for the lengths.
LEMMA LengthChanged ==
  ASSUME shape \in Shapes, NEW p \in Paths(shape), TypeOf(p).kind = "vec", NEW st, NEW su, NEW n,
         Length(su, Key(p)) = n,
         \A q \in Paths(shape) : TypeOf(q).kind = "vec" /\ q # p =>
           Length(su, Key(q)) = Length(st, Key(q))
  PROVE  LengthsOf(su) = [LengthsOf(st) EXCEPT ![p] = n]
<1> DEFINE N == LengthsOf(st)
           F == [q \in PathsTo(shape, {"vec"}) |-> IF q = p THEN n ELSE N[q]]
<1>1. N = [q \in PathsTo(shape, {"vec"}) |-> Length(st, Key(q))]
  BY DEF LengthsOf
<1>2. [N EXCEPT ![p] = n] = F
  BY <1>1
<1>3. \A q \in Paths(shape) : TypeOf(q).kind = "vec" => Length(su, Key(q)) = F[q]
  BY <1>1, TreeParts
<1>4. DOMAIN F = PathsTo(shape, {"vec"}) /\ F = [q \in DOMAIN F |-> F[q]]
  OBVIOUS
<1> HIDE DEF F
<1>5. LengthsOf(su) = F
  BY ONLY shape \in Shapes, <1>3, <1>4, LengthsAre
<1> QED BY <1>2, <1>5

\* What is in the tree is what the storage reads as.
LEMMA TreeReads ==
  ASSUME shape \in Shapes, NEW q \in Paths(shape)
  PROVE  /\ TypeOf(q).kind = "vec" => LengthsOf(store)[q] = LengthAt(q)
         /\ TypeOf(q).kind \in Leaves =>
              /\ LeavesOf(store)[q] = TryRead(store, Key(q), TypeOf(q))
              /\ Abstract!Value(TypeOf(q), LeavesOf(store)[q]) = ReadAt(q)
<1>1. TypeOf(q).kind = "vec" => LengthsOf(store)[q] = LengthAt(q)
  BY TreeParts DEF LengthsOf, LengthAt
<1>2. TypeOf(q).kind \in Leaves => LeavesOf(store)[q] = TryRead(store, Key(q), TypeOf(q))
  BY TreeParts DEF LeavesOf
<1>3. ASSUME TypeOf(q).kind \in Leaves
      PROVE  Abstract!Value(TypeOf(q), LeavesOf(store)[q]) = ReadAt(q)
  <2> DEFINE leaf == TryRead(store, Key(q), TypeOf(q))
  <2>1. Abstract!Value(TypeOf(q), leaf) = IF leaf = << >> THEN Blank(TypeOf(q)) ELSE leaf[1]
    BY SameShapes DEF Abstract!Value
  <2>2. (IF leaf = << >> THEN Blank(TypeOf(q)) ELSE leaf[1]) = Read(store, Key(q), TypeOf(q))
    BY <1>3, ValueReads
  <2>3. LeavesOf(store)[q] = leaf
    BY <1>2, <1>3
  <2> HIDE DEF leaf
  <2> QED BY <2>1, <2>2, <2>3 DEF ReadAt
<1> QED BY <1>1, <1>2, <1>3

\* Clearing takes out of the tree what the path holds.
LEMMA ClearTree ==
  ASSUME shape \in Shapes, NEW p \in Paths(shape), NEW st, Ready(st), NEW su, su = ClearedAt(st, p)
  PROVE  /\ LeavesOf(su) = Abstract!Without(LeavesOf(st), p, << >>)
         /\ LengthsOf(su) = Abstract!Without(LengthsOf(st), p, 0)
<1> DEFINE L == LeavesOf(st)
           N == LengthsOf(st)
           F == [q \in PathsTo(shape, Leaves) |-> IF Holds(shape, p, q) THEN << >> ELSE L[q]]
           G == [q \in PathsTo(shape, {"vec"}) |-> IF Holds(shape, p, q) THEN 0 ELSE N[q]]
<1>1. /\ L = [q \in PathsTo(shape, Leaves) |-> TryRead(st, Key(q), TypeOf(q))]
      /\ N = [q \in PathsTo(shape, {"vec"}) |-> Length(st, Key(q))]
  BY DEF LeavesOf, LengthsOf
<1>2. /\ \A q \in Paths(shape) : TypeOf(q).kind \in Leaves => L[q] = TryRead(st, Key(q), TypeOf(q))
      /\ \A q \in Paths(shape) : TypeOf(q).kind = "vec" => N[q] = Length(st, Key(q))
  BY <1>1, TreeParts
<1>3. /\ DOMAIN L = PathsTo(shape, Leaves) /\ DOMAIN N = PathsTo(shape, {"vec"})
  BY <1>1
<1> HIDE DEF L, N
<1>4. /\ Abstract!Without(L, p, << >>) = F
      /\ Abstract!Without(N, p, 0) = G
  BY <1>3, SameShapes DEF Abstract!Without
<1>5. \A q \in Paths(shape) : TypeOf(q).kind \in Leaves => TryRead(su, Key(q), TypeOf(q)) = F[q]
  <2> TAKE q \in Paths(shape)
  <2> HAVE TypeOf(q).kind \in Leaves
  <2>1. TryRead(su, Key(q), TypeOf(q)) = IF Holds(shape, p, q) THEN << >> ELSE TryRead(st, Key(q), TypeOf(q))
    BY ClearEffect
  <2>2. q \in PathsTo(shape, Leaves)
    BY TreeParts
  <2> QED BY <1>2, <2>1, <2>2
<1>6. \A q \in Paths(shape) : TypeOf(q).kind = "vec" => Length(su, Key(q)) = G[q]
  <2> TAKE q \in Paths(shape)
  <2> HAVE TypeOf(q).kind = "vec"
  <2>1. Length(su, Key(q)) = IF Holds(shape, p, q) THEN 0 ELSE Length(st, Key(q))
    BY ClearEffect
  <2>2. q \in PathsTo(shape, {"vec"})
    BY TreeParts
  <2> QED BY <1>2, <2>1, <2>2
<1>7. /\ DOMAIN F = PathsTo(shape, Leaves) /\ F = [q \in DOMAIN F |-> F[q]]
      /\ DOMAIN G = PathsTo(shape, {"vec"}) /\ G = [q \in DOMAIN G |-> G[q]]
  OBVIOUS
<1> HIDE DEF F, G
<1>8. LeavesOf(su) = F
  BY ONLY shape \in Shapes, <1>5, <1>7, LeavesAre
<1>9. LengthsOf(su) = G
  BY ONLY shape \in Shapes, <1>6, <1>7, LengthsAre
<1> QED BY <1>4, <1>8, <1>9 DEF L, N

\* Clearing a leaf takes out the leaf.
LEMMA ClearLeafTree ==
  ASSUME shape \in Shapes, NEW p \in Paths(shape), TypeOf(p).kind \in Leaves, NEW st, Ready(st), NEW su,
         su = ClearedAt(st, p)
  PROVE  LeavesOf(su) = [LeavesOf(st) EXCEPT ![p] = << >>] /\ LengthsOf(su) = LengthsOf(st)
<1>1. \A q \in Paths(shape) : Holds(shape, p, q) <=> q = p
  BY HoldsFacts, LeafEnds
<1>2. TryRead(su, Key(p), TypeOf(p)) = << >>
  BY <1>1, ClearEffect
<1>3. \A q \in Paths(shape) : TypeOf(q).kind \in Leaves /\ q # p =>
        TryRead(su, Key(q), TypeOf(q)) = TryRead(st, Key(q), TypeOf(q))
  BY <1>1, ClearEffect
<1>4. \A q \in Paths(shape) : TypeOf(q).kind = "vec" => Length(su, Key(q)) = Length(st, Key(q))
  <2> TAKE q \in Paths(shape)
  <2> HAVE TypeOf(q).kind = "vec"
  <2>1. q # p
    BY DEF Leaves
  <2> QED BY <1>1, <2>1, ClearEffect
<1>5. LengthsOf(su) = LengthsOf(st)
  BY <1>4, TreeParts DEF LengthsOf
<1> QED BY <1>2, <1>3, <1>5, LeafChanged

\* Writing a leaf changes the leaf.
LEMMA WriteTree ==
  ASSUME shape \in Shapes, NEW g \in Paths(shape), TypeOf(g).kind \in Leaves, NEW st, Ready(st),
         NEW v \in Values(TypeOf(g), Strings), NEW su, su = Written(st, Key(g), TypeOf(g), v)
  PROVE  /\ LeavesOf(su) = [LeavesOf(st) EXCEPT ![g] = Abstract!Present(TypeOf(g), v)]
         /\ LengthsOf(su) = LengthsOf(st)
<1>1. TypeOf(g) \in Types /\ Key(g) \in AnyKey /\ GoodStore(st)
  BY PathBook DEF Ready
<1>2. Abstract!Present(TypeOf(g), v)
        = IF TypeOf(g).kind = "static" /\ v = Blank(TypeOf(g)) THEN << >> ELSE <<v>>
  BY SameShapes DEF Abstract!Present
<1>3. TryRead(su, Key(g), TypeOf(g)) = Abstract!Present(TypeOf(g), v)
  BY <1>1, <1>2, WrittenFacts
<1>4. /\ \A q \in Paths(shape) : q # g => Frame(st, su, q)
      /\ \A q \in Paths(shape) : TypeOf(q).kind = "vec" => Length(su, Key(q)) = Length(st, Key(q))
  BY WriteTidy DEF Ready
<1>5. \A q \in Paths(shape) : TypeOf(q).kind \in Leaves /\ q # g =>
        TryRead(su, Key(q), TypeOf(q)) = TryRead(st, Key(q), TypeOf(q))
  BY <1>1, <1>4, FrameFacts
<1>6. LengthsOf(su) = LengthsOf(st)
  BY <1>4, TreeParts DEF LengthsOf
<1> QED BY <1>3, <1>5, <1>6, LeafChanged

\* Setting a length changes the length.
LEMMA LengthTree ==
  ASSUME shape \in Shapes, NEW p \in Paths(shape), TypeOf(p).kind = "vec", NEW st, GoodStore(st),
         NEW n \in 0..MaxElems, NEW su, su = WithLength(st, Key(p), n)
  PROVE  LeavesOf(su) = LeavesOf(st) /\ LengthsOf(su) = [LengthsOf(st) EXCEPT ![p] = n]
<1>1. Length(su, Key(p)) = n /\ \A q \in Paths(shape) : q # p => Frame(st, su, q)
  BY LengthFrame
<1>2. \A q \in Paths(shape) : TypeOf(q).kind \in Leaves =>
        TryRead(su, Key(q), TypeOf(q)) = TryRead(st, Key(q), TypeOf(q))
  <2> TAKE q \in Paths(shape)
  <2> HAVE TypeOf(q).kind \in Leaves
  <2>1. q # p
    BY DEF Leaves
  <2> QED BY <1>1, <2>1, FrameFacts
<1>3. \A q \in Paths(shape) : TypeOf(q).kind = "vec" /\ q # p => Length(su, Key(q)) = Length(st, Key(q))
  BY <1>1, FrameFacts
<1>4. LeavesOf(su) = LeavesOf(st)
  BY <1>2, TreeParts DEF LeavesOf
<1> QED BY <1>1, <1>3, <1>4, LengthChanged

\* What shortening a vec does to the tree.
LEMMA ShortenedTree ==
  ASSUME shape \in Shapes, Ready(store), NEW p \in Paths(shape), TypeOf(p).kind = "vec",
         InBounds(store, p, 0), LengthAt(p) # 0, NEW e, e = Append(p, LengthAt(p) - 1)
  PROVE  /\ e \in Paths(shape) /\ TypeOf(e) = TypeOf(p).parts[1]
         /\ LeavesOf(Shortened(p)) = LeavesOf(ClearedAt(store, e))
         /\ LengthsOf(Shortened(p)) = [LengthsOf(ClearedAt(store, e)) EXCEPT ![p] = LengthAt(p) - 1]
<1> DEFINE end == LengthAt(p) - 1
           sc == ClearedAt(store, e)
           su == WithLength(sc, Key(p), end)
<1>1. end \in 0..(MaxElems - 1) /\ e \in Paths(shape)
  <2>1. Length(store, Key(p)) # 0 /\ end = Length(store, Key(p)) - 1 /\ e = Append(p, end)
    BY DEF LengthAt
  <2> HIDE DEF end
  <2>2. Length(store, Key(p)) \in 0..255 /\ Length(store, Key(p)) <= MaxElems
    BY Slot32Facts DEF Ready, Short
  <2>3. end \in 0..(MaxElems - 1)
    BY <2>1, <2>2, BoundFacts
  <2> QED BY <2>1, <2>3, CellFacts
<1>2. Shortened(p) = su
  BY DEF Shortened
<1>3. TypeOf(e) = TypeOf(p).parts[1]
  BY <1>1, CellFacts
<1>4. GoodStore(sc)
  BY <1>1, ClearFrame DEF Ready
<1>5. end \in 0..MaxElems
  BY <1>1, BoundFacts
<1> HIDE DEF end, sc
<1>6. LeavesOf(su) = LeavesOf(sc) /\ LengthsOf(su) = [LengthsOf(sc) EXCEPT ![p] = end]
  BY <1>4, <1>5, LengthTree
<1> QED BY <1>1, <1>2, <1>3, <1>6 DEF end, sc

\* Popping an element does to the storage what it does to the tree.
LEMMA PopTree ==
  ASSUME shape \in Shapes, Ready(store), NEW c \in CallsOf("pop"), InBounds(store, c.path, 0)
  PROVE  Abstract!Effect(c)
           = Abstract!Becomes(LeavesOf(Shortened(c.path)), LengthsOf(Shortened(c.path)),
               IF LengthAt(c.path) = 0 THEN << >> ELSE <<ReadAt(Append(c.path, LengthAt(c.path) - 1))>>)
<1> DEFINE p == c.path
           e == Append(p, LengthAt(p) - 1)
<1>1. /\ c.op = "pop" /\ p \in Paths(shape) /\ TypeOf(p).kind = "vec"
      /\ TypeOf(p).parts[1].kind \in Leaves
  BY CallFacts DEF Ops
<1>2. LengthsOf(store)[p] = LengthAt(p)
  BY <1>1, TreeReads
<1> HIDE DEF p
<1>3. Abstract!Effect(c)
        = IF LengthAt(p) = 0 THEN Abstract!Becomes(LeavesOf(store), LengthsOf(store), << >>)
          ELSE Abstract!Becomes([LeavesOf(store) EXCEPT ![e] = << >>],
                                [LengthsOf(store) EXCEPT ![p] = LengthAt(p) - 1],
                                <<Abstract!Value(TypeOf(e), LeavesOf(store)[e])>>)
  <2> DEFINE n == LengthsOf(store)[p]
             f == Append(p, n - 1)
  <2>1. p = c.path
    BY DEF p
  <2>2. Abstract!Effect(c)
          = IF n = 0 THEN Abstract!Becomes(LeavesOf(store), LengthsOf(store), << >>)
            ELSE Abstract!Becomes([LeavesOf(store) EXCEPT ![f] = << >>],
                                  [LengthsOf(store) EXCEPT ![p] = n - 1],
                                  <<Abstract!Value(TypeOf(f), LeavesOf(store)[f])>>)
    BY ONLY shape \in Shapes, <1>1, <2>1, EffectCases
  <2>3. n = LengthAt(p) /\ f = e
    BY <1>2
  <2> HIDE DEF e, f, n
  <2> QED BY ONLY <2>2, <2>3
<1>4. CASE LengthAt(p) = 0
  <2>1. Shortened(p) = store
    BY <1>4 DEF Shortened
  <2> QED BY <1>3, <1>4, <2>1 DEF p
<1>5. CASE LengthAt(p) # 0
  <2>1. InBounds(store, p, 0)
    BY DEF p
  <2>2. /\ e \in Paths(shape) /\ TypeOf(e) = TypeOf(p).parts[1]
        /\ LeavesOf(Shortened(p)) = LeavesOf(ClearedAt(store, e))
        /\ LengthsOf(Shortened(p)) = [LengthsOf(ClearedAt(store, e)) EXCEPT ![p] = LengthAt(p) - 1]
    BY <1>1, <1>5, <2>1, ShortenedTree
  <2> HIDE DEF e
  <2>3. /\ LeavesOf(ClearedAt(store, e)) = [LeavesOf(store) EXCEPT ![e] = << >>]
        /\ LengthsOf(ClearedAt(store, e)) = LengthsOf(store)
    BY <1>1, <2>2, ClearLeafTree
  <2>4. Abstract!Value(TypeOf(e), LeavesOf(store)[e]) = ReadAt(e)
    BY <1>1, <2>2, TreeReads
  <2>5. Abstract!Effect(c)
          = Abstract!Becomes(LeavesOf(Shortened(p)), LengthsOf(Shortened(p)), <<ReadAt(e)>>)
    BY <1>3, <1>5, <2>2, <2>3, <2>4
  <2> QED BY <1>5, <2>5 DEF e, p
<1> QED BY <1>4, <1>5

\* Dropping the last element does too.
LEMMA EraseLastTree ==
  ASSUME shape \in Shapes, Ready(store), NEW c \in CallsOf("erase_last"), InBounds(store, c.path, 0)
  PROVE  Abstract!Effect(c)
           = Abstract!Becomes(LeavesOf(Shortened(c.path)), LengthsOf(Shortened(c.path)),
                              <<<<IF LengthAt(c.path) = 0 THEN 0 ELSE 1>>>>)
<1> DEFINE p == c.path
           e == Append(p, LengthAt(p) - 1)
<1>1. c.op = "erase_last" /\ p \in Paths(shape) /\ TypeOf(p).kind = "vec"
  BY CallFacts DEF Ops
<1>2. LengthsOf(store)[p] = LengthAt(p)
  BY <1>1, TreeReads
<1> HIDE DEF p
<1>3. Abstract!Effect(c)
        = IF LengthAt(p) = 0 THEN Abstract!Becomes(LeavesOf(store), LengthsOf(store), <<<<0>>>>)
          ELSE Abstract!Becomes(Abstract!Without(LeavesOf(store), e, << >>),
                                [Abstract!Without(LengthsOf(store), e, 0) EXCEPT ![p] = LengthAt(p) - 1],
                                <<<<1>>>>)
  <2>1. p = c.path
    BY DEF p
  <2> QED BY <1>1, <1>2, <2>1, EffectCases
<1>4. CASE LengthAt(p) = 0
  <2>1. Shortened(p) = store
    BY <1>4 DEF Shortened
  <2> QED BY <1>3, <1>4, <2>1 DEF p
<1>5. CASE LengthAt(p) # 0
  <2>1. InBounds(store, p, 0)
    BY DEF p
  <2>2. /\ e \in Paths(shape)
        /\ LeavesOf(Shortened(p)) = LeavesOf(ClearedAt(store, e))
        /\ LengthsOf(Shortened(p)) = [LengthsOf(ClearedAt(store, e)) EXCEPT ![p] = LengthAt(p) - 1]
    BY <1>1, <1>5, <2>1, ShortenedTree
  <2> HIDE DEF e
  <2>3. /\ LeavesOf(ClearedAt(store, e)) = Abstract!Without(LeavesOf(store), e, << >>)
        /\ LengthsOf(ClearedAt(store, e)) = Abstract!Without(LengthsOf(store), e, 0)
    BY <2>2, ClearTree
  <2>4. Abstract!Effect(c) = Abstract!Becomes(LeavesOf(Shortened(p)), LengthsOf(Shortened(p)), <<<<1>>>>)
    BY <1>3, <1>5, <2>2, <2>3
  <2> QED BY <1>5, <2>4 DEF p
<1> QED BY <1>4, <1>5

\* Pushing does too.
LEMMA PushTree ==
  ASSUME shape \in Shapes, Ready(store), NEW c \in CallsOf("push"), HasRoom(c.path),
         InBounds(store, c.path, 0), NEW su,
         su = WithLength(WrittenAt(Append(c.path, LengthAt(c.path)), c.arg), Key(c.path),
                         LengthAt(c.path) + 1)
  PROVE  Abstract!Effect(c) = Abstract!Becomes(LeavesOf(su), LengthsOf(su), << >>)
<1> DEFINE p == c.path
           v == c.arg
           l == LengthAt(p)
           g == Append(p, l)
           sw == Written(store, Key(g), TypeOf(g), v)
<1>1. /\ c.op = "push" /\ p \in Paths(shape) /\ TypeOf(p).kind = "vec"
      /\ TypeOf(p).parts[1].kind \in Leaves /\ v \in Values(TypeOf(p).parts[1], Strings)
  BY CallFacts DEF Ops
<1>2. /\ LengthsOf(store)[p] = l /\ l = Length(store, Key(p)) /\ l < MaxElems /\ p = c.path /\ v = c.arg
      /\ InBounds(store, p, 0)
  BY <1>1, TreeReads DEF HasRoom, LengthAt
<1>3. sw = Written(store, Key(g), TypeOf(g), v) /\ su = WithLength(sw, Key(p), l + 1) /\ g = Append(p, l)
  BY DEF WrittenAt
<1> HIDE DEF p, v, l, g, sw
<1>4. l \in 0..(MaxElems - 1)
  <2>1. l \in 0..255
    BY <1>2, Slot32Facts DEF Ready
  <2> QED BY <1>2, <2>1, BoundFacts
<1>5. g \in Paths(shape) /\ TypeOf(g) = TypeOf(p).parts[1]
  BY <1>1, <1>3, <1>4, CellFacts
<1>6. TypeOf(g).kind \in Leaves /\ v \in Values(TypeOf(g), Strings) /\ sw = Written(store, Key(g), TypeOf(g), v)
  BY ONLY <1>1, <1>3, <1>5
<1>7. /\ LeavesOf(sw) = [LeavesOf(store) EXCEPT ![g] = Abstract!Present(TypeOf(g), v)]
      /\ LengthsOf(sw) = LengthsOf(store)
  BY ONLY shape \in Shapes, Ready(store), <1>5, <1>6, WriteTree
<1>8. GoodStore(sw)
  BY ONLY shape \in Shapes, Ready(store), <1>5, <1>6, WriteTidy DEF Ready
<1>9. l + 1 \in 0..MaxElems
  BY <1>4, BoundFacts
<1>10. LeavesOf(su) = LeavesOf(sw) /\ LengthsOf(su) = [LengthsOf(sw) EXCEPT ![p] = l + 1]
  BY ONLY shape \in Shapes, <1>1, <1>3, <1>9, <1>8, LengthTree
<1>11. Part(TypeOf(p), l) = TypeOf(g)
  BY <1>1, <1>5 DEF Part
<1>12. Abstract!Effect(c)
        = Abstract!Becomes([LeavesOf(store) EXCEPT ![Append(p, l)] = Abstract!Present(Part(TypeOf(p), l), v)],
                           [LengthsOf(store) EXCEPT ![p] = l + 1], << >>)
  <2> DEFINE n == LengthsOf(store)[p]
  <2>1. Abstract!Effect(c)
          = Abstract!Becomes([LeavesOf(store) EXCEPT ![Append(p, n)] = Abstract!Present(Part(TypeOf(p), n), v)],
                             [LengthsOf(store) EXCEPT ![p] = n + 1], << >>)
    BY ONLY shape \in Shapes, <1>1, <1>2, EffectCases
  <2>2. n = l
    BY <1>2
  <2> HIDE DEF n
  <2> QED BY ONLY <2>1, <2>2
<1> QED BY ONLY <1>3, <1>7, <1>10, <1>11, <1>12

\* Growing does too.
LEMMA GrowTree ==
  ASSUME shape \in Shapes, Ready(store), NEW c \in CallsOf("grow"), HasRoom(c.path),
         InBounds(store, c.path, 0), NEW su, su = WithLength(store, Key(c.path), LengthAt(c.path) + 1)
  PROVE  Abstract!Effect(c) = Abstract!Becomes(LeavesOf(su), LengthsOf(su), << >>)
<1> DEFINE p == c.path
           l == LengthAt(p)
<1>1. c.op = "grow" /\ p \in Paths(shape) /\ TypeOf(p).kind = "vec"
  BY CallFacts DEF Ops
<1>2. LengthsOf(store)[p] = l /\ l = Length(store, Key(p)) /\ l < MaxElems /\ p = c.path
  BY <1>1, TreeReads DEF HasRoom, LengthAt
<1>3. su = WithLength(store, Key(p), l + 1) /\ GoodStore(store)
  BY DEF Ready
<1> HIDE DEF p, l
<1>4. l \in 0..255
  BY <1>2, Slot32Facts DEF Ready
<1>5. l + 1 \in 0..MaxElems
  BY <1>2, <1>4, BoundFacts
<1>6. LeavesOf(su) = LeavesOf(store) /\ LengthsOf(su) = [LengthsOf(store) EXCEPT ![p] = l + 1]
  BY ONLY shape \in Shapes, <1>1, <1>3, <1>5, LengthTree
<1>7. Abstract!Effect(c)
        = Abstract!Becomes(LeavesOf(store), [LengthsOf(store) EXCEPT ![p] = l + 1], << >>)
  <2> DEFINE n == LengthsOf(store)[p]
  <2>1. Abstract!Effect(c)
          = Abstract!Becomes(LeavesOf(store), [LengthsOf(store) EXCEPT ![p] = n + 1], << >>)
    BY ONLY shape \in Shapes, <1>1, <1>2, EffectCases
  <2>2. n = l
    BY <1>2
  <2> HIDE DEF n
  <2> QED BY ONLY <2>1, <2>2
<1> QED BY ONLY <1>6, <1>7

\* Every operation is one of the tree's.
LEMMA StepTree ==
  ASSUME shape \in Shapes, Ready(store), Next
  PROVE  Abstract!Next
<1> DEFINE L == LeavesOf(store)
           N == LengthsOf(store)
<1>1. \A op \in Ops : \A c \in CallsOf(op) : \A st, out :
        /\ OnNode(c, st, out)
        /\ InBounds(store, c.path, 0) =>
             Abstract!Effect(c) = Abstract!Becomes(LeavesOf(st), LengthsOf(st), out)
        => Abstract!Next
  BY NodeDoes
<1>2. CASE Clear
  <2>1. PICK c \in CallsOf("clear") : OnNode(c, ClearedAt(store, c.path), << >>)
    BY <1>2 DEF Clear
  <2>2. "clear" \in Ops /\ c.op = "clear" /\ c.path \in Paths(shape)
    BY CallFacts DEF Ops
  <2>3. Abstract!Effect(c)
          = Abstract!Becomes(Abstract!Without(L, c.path, << >>), Abstract!Without(N, c.path, 0), << >>)
    BY <2>2, EffectCases
  <2>4. /\ LeavesOf(ClearedAt(store, c.path)) = Abstract!Without(L, c.path, << >>)
        /\ LengthsOf(ClearedAt(store, c.path)) = Abstract!Without(N, c.path, 0)
    BY <2>2, ClearTree
  <2> QED BY ONLY <1>1, <2>1, <2>2, <2>3, <2>4
<1>3. CASE Set
  <2>1. PICK c \in CallsOf("set") : OnNode(c, WrittenAt(c.path, c.arg), << >>)
    BY <1>3 DEF Set
  <2>2. /\ "set" \in Ops /\ c.op = "set" /\ c.path \in Paths(shape)
        /\ TypeOf(c.path).kind \in Leaves /\ c.arg \in Values(TypeOf(c.path), Strings)
    BY CallFacts DEF Ops
  <2>3. Abstract!Effect(c)
          = Abstract!Becomes([L EXCEPT ![c.path] = Abstract!Present(TypeOf(c.path), c.arg)], N, << >>)
    BY <2>2, EffectCases
  <2>4. /\ LeavesOf(WrittenAt(c.path, c.arg)) = [L EXCEPT ![c.path] = Abstract!Present(TypeOf(c.path), c.arg)]
        /\ LengthsOf(WrittenAt(c.path, c.arg)) = N
    BY <2>2, WriteTree DEF WrittenAt
  <2> QED BY ONLY <1>1, <2>1, <2>2, <2>3, <2>4
<1>4. CASE Take
  <2>1. PICK c \in CallsOf("take") : OnNode(c, ClearedAt(store, c.path), <<ReadAt(c.path)>>)
    BY <1>4 DEF Take
  <2>2. /\ "take" \in Ops /\ c.op = "take" /\ c.path \in Paths(shape)
        /\ TypeOf(c.path).kind \in Leaves
    BY CallFacts DEF Ops
  <2>3. Abstract!Effect(c)
          = Abstract!Becomes([L EXCEPT ![c.path] = << >>], N, <<Abstract!Value(TypeOf(c.path), L[c.path])>>)
    BY <2>2, EffectCases
  <2>4. /\ LeavesOf(ClearedAt(store, c.path)) = [L EXCEPT ![c.path] = << >>]
        /\ LengthsOf(ClearedAt(store, c.path)) = N
    BY <2>2, ClearLeafTree
  <2>5. Abstract!Value(TypeOf(c.path), L[c.path]) = ReadAt(c.path)
    BY <2>2, TreeReads
  <2> QED BY ONLY <1>1, <2>1, <2>2, <2>3, <2>4, <2>5
<1>5. CASE Get
  <2>1. PICK c \in CallsOf("get") : OnNode(c, store, <<ReadAt(c.path)>>)
    BY <1>5 DEF Get
  <2>2. /\ "get" \in Ops /\ c.op = "get" /\ c.path \in Paths(shape)
        /\ TypeOf(c.path).kind \in Leaves
    BY CallFacts DEF Ops
  <2>3. Abstract!Effect(c) = Abstract!Becomes(L, N, <<Abstract!Value(TypeOf(c.path), L[c.path])>>)
    BY <2>2, EffectCases
  <2>4. Abstract!Value(TypeOf(c.path), L[c.path]) = ReadAt(c.path)
    BY <2>2, TreeReads
  <2> QED BY ONLY <1>1, <2>1, <2>2, <2>3, <2>4
<1>6. CASE TryGet
  <2>1. PICK c \in CallsOf("try_get") : OnNode(c, store, TryRead(store, Key(c.path), TypeOf(c.path)))
    BY <1>6 DEF TryGet
  <2>2. /\ "try_get" \in Ops /\ c.op = "try_get" /\ c.path \in Paths(shape)
        /\ TypeOf(c.path).kind \in Leaves
    BY CallFacts DEF Ops
  <2>3. Abstract!Effect(c) = Abstract!Becomes(L, N, L[c.path])
    BY <2>2, EffectCases
  <2>4. L[c.path] = TryRead(store, Key(c.path), TypeOf(c.path))
    BY <2>2, TreeReads
  <2> QED BY ONLY <1>1, <2>1, <2>2, <2>3, <2>4
<1>7. CASE Push
  <2>1. PICK c \in CallsOf("push") :
          /\ HasRoom(c.path)
          /\ OnNode(c, WithLength(WrittenAt(Append(c.path, LengthAt(c.path)), c.arg), Key(c.path),
                                  LengthAt(c.path) + 1), << >>)
    BY <1>7 DEF Push
  <2> DEFINE su == WithLength(WrittenAt(Append(c.path, LengthAt(c.path)), c.arg), Key(c.path),
                              LengthAt(c.path) + 1)
  <2>2. InBounds(store, c.path, 0) => Abstract!Effect(c) = Abstract!Becomes(LeavesOf(su), LengthsOf(su), << >>)
    BY <2>1, PushTree
  <2>3. "push" \in Ops /\ OnNode(c, su, << >>)
    BY <2>1 DEF Ops
  <2> HIDE DEF su
  <2> QED BY ONLY <1>1, <2>1, <2>2, <2>3
<1>8. CASE Grow
  <2>1. PICK c \in CallsOf("grow") :
          /\ HasRoom(c.path)
          /\ OnNode(c, WithLength(store, Key(c.path), LengthAt(c.path) + 1), << >>)
    BY <1>8 DEF Grow
  <2> DEFINE su == WithLength(store, Key(c.path), LengthAt(c.path) + 1)
  <2>2. InBounds(store, c.path, 0) => Abstract!Effect(c) = Abstract!Becomes(LeavesOf(su), LengthsOf(su), << >>)
    BY <2>1, GrowTree
  <2>3. "grow" \in Ops /\ OnNode(c, su, << >>)
    BY <2>1 DEF Ops
  <2> HIDE DEF su
  <2> QED BY ONLY <1>1, <2>1, <2>2, <2>3
<1>9. CASE Pop
  <2>1. PICK c \in CallsOf("pop") :
          OnNode(c, Shortened(c.path),
                 IF LengthAt(c.path) = 0 THEN << >>
                 ELSE <<ReadAt(Append(c.path, LengthAt(c.path) - 1))>>)
    BY <1>9 DEF Pop
  <2> DEFINE out == IF LengthAt(c.path) = 0 THEN << >>
                    ELSE <<ReadAt(Append(c.path, LengthAt(c.path) - 1))>>
  <2>2. InBounds(store, c.path, 0) =>
          Abstract!Effect(c)
            = Abstract!Becomes(LeavesOf(Shortened(c.path)), LengthsOf(Shortened(c.path)), out)
    BY PopTree
  <2>3. "pop" \in Ops /\ OnNode(c, Shortened(c.path), out)
    BY <2>1 DEF Ops
  <2> HIDE DEF out
  <2> QED BY ONLY <1>1, <2>1, <2>2, <2>3
<1>10. CASE EraseLast
  <2>1. PICK c \in CallsOf("erase_last") :
          OnNode(c, Shortened(c.path), <<<<IF LengthAt(c.path) = 0 THEN 0 ELSE 1>>>>)
    BY <1>10 DEF EraseLast
  <2> DEFINE out == <<<<IF LengthAt(c.path) = 0 THEN 0 ELSE 1>>>>
  <2>2. InBounds(store, c.path, 0) =>
          Abstract!Effect(c)
            = Abstract!Becomes(LeavesOf(Shortened(c.path)), LengthsOf(Shortened(c.path)), out)
    BY EraseLastTree
  <2>3. "erase_last" \in Ops /\ OnNode(c, Shortened(c.path), out)
    BY <2>1 DEF Ops
  <2> HIDE DEF out
  <2> QED BY ONLY <1>1, <2>1, <2>2, <2>3
<1>11. CASE Size
  <2>1. PICK c \in CallsOf("len") : OnNode(c, store, <<<<LengthAt(c.path)>>>>)
    BY <1>11 DEF Size
  <2>2. "len" \in Ops /\ c.op = "len" /\ c.path \in Paths(shape) /\ TypeOf(c.path).kind = "vec"
    BY CallFacts DEF Ops
  <2>3. Abstract!Effect(c) = Abstract!Becomes(L, N, <<<<N[c.path]>>>>)
    BY <2>2, EffectCases
  <2>4. N[c.path] = LengthAt(c.path)
    BY <2>2, TreeReads
  <2> QED BY ONLY <1>1, <2>1, <2>2, <2>3, <2>4
<1>12. CASE TryAt
  <2>1. PICK c \in CallsOf("try_at") :
          OnNode(c, store, IF c.arg[1] < LengthAt(c.path)
                           THEN <<ReadAt(Append(c.path, c.arg[1]))>> ELSE << >>)
    BY <1>12 DEF TryAt
  <2> DEFINE i == c.arg[1]
             e == Append(c.path, i)
  <2>2. /\ "try_at" \in Ops /\ c.op = "try_at" /\ c.path \in Paths(shape) /\ TypeOf(c.path).kind = "vec"
        /\ TypeOf(c.path).parts[1].kind \in Leaves /\ i \in Steps(TypeOf(c.path))
    BY CallFacts DEF Ops
  <2>3. Abstract!Effect(c)
          = Abstract!Becomes(L, N, IF i < N[c.path] THEN <<Abstract!Value(TypeOf(e), L[e])>> ELSE << >>)
    BY <2>2, EffectCases
  <2>4. N[c.path] = LengthAt(c.path)
    BY <2>2, TreeReads
  <2>5. i \in 0..(MaxElems - 1)
    BY <2>2 DEF Steps
  <2>6. e \in Paths(shape) /\ TypeOf(e) = TypeOf(c.path).parts[1]
    BY <2>2, <2>5, CellFacts
  <2>7. OnNode(c, store, IF i < LengthAt(c.path) THEN <<ReadAt(e)>> ELSE << >>)
    BY <2>1
  <2> HIDE DEF i, e
  <2>8. Abstract!Value(TypeOf(e), L[e]) = ReadAt(e)
    BY <2>2, <2>6, TreeReads
  <2> QED BY ONLY <1>1, <2>1, <2>2, <2>3, <2>4, <2>7, <2>8
<1> QED BY <1>2, <1>3, <1>4, <1>5, <1>6, <1>7, <1>8, <1>9, <1>10, <1>11, <1>12 DEF Next

\* At first the tree is blank.
LEMMA InitTree ==
  ASSUME Init
  PROVE  Abstract!Init
<1>1. shape \in Shapes /\ store = << >> /\ last = Answer(Call("clear", << >>, << >>), FALSE, << >>)
  BY DEF Init
<1>2. DOMAIN store = {}
  BY <1>1
<1>3. \A p : TryRead(store, Key(p), TypeOf(p)) = << >>
  BY <1>2 DEF TryRead
<1>4. \A p : LengthAt(p) = 0
  BY <1>2, WordSlotFacts DEF LengthAt, Length, Slot32
<1>5. last = Abstract!Answer(Abstract!Call("clear", << >>, << >>), FALSE, << >>)
  BY <1>1 DEF Abstract!Answer, Abstract!Call, Answer, Call
<1>6. /\ [p \in PathsTo(shape, Leaves) |-> TryRead(store, Key(p), TypeOf(p))]
           = [p \in Abstract!PathsTo(shape, Abstract!Leaves) |-> << >>]
      /\ [p \in PathsTo(shape, {"vec"}) |-> LengthAt(p)] = [p \in Abstract!PathsTo(shape, {"vec"}) |-> 0]
  BY <1>3, <1>4, SameShapes
<1> QED BY <1>1, <1>5, <1>6 DEF Abstract!Init

\* However containers are nested and whatever was stored, cleared and grown
\* before, Lazy, Mapping, StorageVec and #[storage] structs behave as a tree
\* of independent values: every call of pvm-storage/src/lib.rs changes the
\* value it is addressed to and no other, and answers what the values give.
THEOREM NestIsATree == Spec => IsATree
<1> DEFINE AbstractVars ==
             <<shape, [p \in PathsTo(shape, Leaves) |-> TryRead(store, Key(p), TypeOf(p))],
               [p \in PathsTo(shape, {"vec"}) |-> LengthAt(p)], last>>
<1>1. Init => Abstract!Init
  BY InitTree
<1>2. IInv /\ [Next]_vars => [Abstract!Next]_AbstractVars
  <2> SUFFICES ASSUME IInv, [Next]_vars PROVE [Abstract!Next]_AbstractVars
    OBVIOUS
  <2>1. CASE Next
    <3>1. shape \in Shapes /\ Ready(store)
      BY TidyStore DEF IInv, Ready
    <3> QED BY <2>1, <3>1, StepTree
  <2>2. CASE UNCHANGED vars
    BY <2>2 DEF vars, Key, TypeOf, LengthAt
  <2> QED BY <2>1, <2>2
<1> QED BY <1>1, <1>2, StorageInOrder, PTL DEF Spec, IsATree, Abstract!Spec
=============================================================================
