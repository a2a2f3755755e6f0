--------------------------- MODULE AbiCodecProofs ---------------------------
(* What is sent is the ABI's encoding and reads back, and no decoded value  *)
(* holds a byte its type did not ask for: for any types, nested to any      *)
(* depth, any values of them and any damage.                                *)
EXTENDS AbiCodec, SequenceTheorems, WellFoundedInduction, TLAPS

-----------------------------------------------------------------------------
(* Induction                                                               *)

\* A set of numbers that is not empty has a least one.
LEMMA LeastNatural ==
  ASSUME NEW T, T \subseteq Nat, T # {}
  PROVE  \E x \in T : \A y \in T : x <= y
<1> DEFINE R == OpToRel(<, Nat)
<1>1. IsWellFoundedOn(R, Nat)
  BY NatLessThanWellFounded
<1>2. PICK x \in T : \A y \in T : <<y, x>> \notin R
  <2> HIDE DEF R
  <2> QED BY <1>1, WFMin
<1>3. ASSUME NEW y \in T PROVE x <= y
  <2>1. y \in Nat /\ x \in Nat /\ <<y, x>> \notin R
    BY <1>2
  <2>2. <<y, x>> \in Nat \X Nat /\ <<y, x>>[1] = y /\ <<y, x>>[2] = x
    BY <2>1
  <2>3. y < x => <<y, x>> \in R
    BY <2>2 DEF OpToRel
  <2> HIDE DEF R
  <2> QED BY <2>1, <2>3
<1> QED BY <1>3

\* What holds of 0 and of a successor holds of every natural: P is a set.
LEMMA NaturalsBySet ==
  ASSUME NEW P, 0 \in P, \A n \in Nat : n \in P => n + 1 \in P
  PROVE  Nat \subseteq P
<1> SUFFICES ASSUME Nat \ P # {} PROVE FALSE
  OBVIOUS
<1>1. PICK x \in Nat \ P : \A y \in Nat \ P : x <= y
  BY LeastNatural
<1>2. x - 1 \in Nat /\ x - 1 \in P
  BY <1>1
<1> QED BY <1>1, <1>2

-----------------------------------------------------------------------------
(* Sums                                                                    *)

\* The loop of Total, run on the first n numbers.
SumLoop(s, g, n) == g = [k \in 0..n |-> IF k = 0 THEN 0 ELSE g[k - 1] + s[k]]

\* The loop of Total exists as a function, for any number of summands.
LEMMA SumLoopRuns ==
  ASSUME NEW s, NEW n \in Nat
  PROVE  \E g : SumLoop(s, g, n)
<1> DEFINE P == {k \in Nat : \E g : SumLoop(s, g, k)}
<1>1. 0 \in P
  <2>1. SumLoop(s, [k \in 0..0 |-> 0], 0)
    BY DEF SumLoop
  <2> QED BY <2>1
<1>2. ASSUME NEW k \in Nat, k \in P PROVE k + 1 \in P
  <2>1. PICK g : SumLoop(s, g, k)
    BY <1>2
  <2> DEFINE h == [i \in 0..(k + 1) |-> IF i = k + 1 THEN g[k] + s[k + 1] ELSE g[i]]
  <2>2. \A i \in 0..k : h[i] = g[i]
    OBVIOUS
  <2>3. h[k + 1] = h[k] + s[k + 1]
    BY <2>2
  <2>4. \A i \in 0..k : g[i] = IF i = 0 THEN 0 ELSE g[i - 1] + s[i]
    BY <2>1 DEF SumLoop
  <2>5. \A i \in 0..(k + 1) : h[i] = IF i = 0 THEN 0 ELSE h[i - 1] + s[i]
    <3> HIDE DEF h
    <3> QED BY <2>2, <2>3, <2>4
  <2>6. SumLoop(s, h, k + 1)
    BY <2>5 DEF SumLoop
  <2> QED BY <2>6
<1> HIDE DEF P
<1>3. n \in P
  BY <1>1, <1>2, NaturalsBySet
<1> QED BY <1>3 DEF P

\* The sum of the first k numbers, for every k up to n.
Sums(s, g, n) ==
  /\ g \in [0..n -> Nat]
  /\ g[0] = 0
  /\ \A k \in 1..n : g[k] = g[k - 1] + s[k]

\* Step by step it sums the summands up to each.
LEMMA SumLoopFacts ==
  ASSUME NEW n \in Nat, NEW s, \A k \in 1..n : s[k] \in Nat, NEW g, SumLoop(s, g, n)
  PROVE  Sums(s, g, n)
<1>1. /\ DOMAIN g = 0..n
      /\ \A k \in 0..n : g[k] = IF k = 0 THEN 0 ELSE g[k - 1] + s[k]
  BY DEF SumLoop
<1> DEFINE P == {k \in Nat : k <= n => g[k] \in Nat}
<1>2. 0 \in P
  BY <1>1
<1>3. ASSUME NEW k \in Nat, k \in P PROVE k + 1 \in P
  <2> SUFFICES ASSUME k + 1 <= n PROVE g[k + 1] \in Nat
    OBVIOUS
  <2>1. g[k + 1] = g[k] + s[k + 1] /\ g[k] \in Nat /\ s[k + 1] \in Nat
    BY <1>1, <1>3
  <2> QED BY <2>1
<1> HIDE DEF P
<1>4. Nat \subseteq P
  BY <1>2, <1>3, NaturalsBySet
<1>5. \A k \in 0..n : g[k] \in Nat
  BY <1>4 DEF P
<1>6. g = [k \in 0..n |-> g[k]]
  BY DEF SumLoop
<1>7. g \in [0..n -> Nat]
  BY <1>5, <1>6
<1>8. \A k \in 1..n : k \in 0..n /\ k # 0
  OBVIOUS
<1> QED BY <1>1, <1>7, <1>8 DEF Sums

\* Total is the last sum, however it is computed.
LEMMA TotalIs ==
  ASSUME NEW n \in Nat, NEW s, \A k \in 1..n : s[k] \in Nat, NEW g, Sums(s, g, n)
  PROVE  Total([k \in 1..n |-> s[k]]) = g[n] /\ g[n] \in Nat
<1> DEFINE t == [k \in 1..n |-> s[k]]
           h == CHOOSE h : SumLoop(t, h, n)
<1>1. Len(t) = n
  <2>1. t \in Seq(Nat) /\ DOMAIN t = 1..n
    OBVIOUS
  <2> HIDE DEF t
  <2> QED BY <2>1
<1>2. Total(t) = h[n]
  BY <1>1 DEF Total, SumLoop
<1>3. SumLoop(t, h, n)
  BY SumLoopRuns
<1>4. \A k \in 1..n : t[k] = s[k]
  OBVIOUS
<1> HIDE DEF t, h
<1>5. Sums(t, h, n)
  BY <1>3, <1>4, SumLoopFacts
<1> DEFINE P == {k \in Nat : k <= n => g[k] = h[k]}
<1>6. 0 \in P
  BY <1>5 DEF Sums
<1>7. ASSUME NEW k \in Nat, k \in P PROVE k + 1 \in P
  <2> SUFFICES ASSUME k + 1 <= n PROVE g[k + 1] = h[k + 1]
    OBVIOUS
  <2>1. k + 1 \in 1..n /\ (k + 1) - 1 = k
    OBVIOUS
  <2>2. g[k + 1] = g[k] + s[k + 1] /\ h[k + 1] = h[k] + t[k + 1] /\ t[k + 1] = s[k + 1]
    BY <1>4, <1>5, <2>1 DEF Sums
  <2> QED BY <1>7, <2>2
<1> HIDE DEF P
<1>8. n \in P
  BY <1>6, <1>7, NaturalsBySet
<1>9. g[n] = h[n] /\ g[n] \in Nat
  BY <1>8 DEF P, Sums
<1> QED BY <1>2, <1>9 DEF t

\* The sum of the first n numbers.
Sum(s, n) == Total([k \in 1..n |-> s[k]])

\* A sum of naturals is one, and grows by its last summand.
LEMMA SumFacts ==
  ASSUME NEW n \in Nat, NEW s, \A k \in 1..n : s[k] \in Nat
  PROVE  /\ Sum(s, 0) = 0
         /\ \A k \in 0..n : Sum(s, k) \in Nat
         /\ \A k \in 1..n : Sum(s, k) = Sum(s, k - 1) + s[k]
<1>1. PICK g : SumLoop(s, g, n)
  BY SumLoopRuns
<1>2. Sums(s, g, n)
  BY <1>1, SumLoopFacts
<1>3. ASSUME NEW m \in 0..n PROVE Sum(s, m) = g[m] /\ g[m] \in Nat
  <2> DEFINE h == [k \in 0..m |-> g[k]]
  <2>1. h \in [0..m -> Nat] /\ h[0] = 0 /\ \A k \in 0..m : h[k] = g[k]
    BY <1>2 DEF Sums
  <2>2. \A k \in 1..m : k \in 0..m /\ k - 1 \in 0..m /\ k \in 1..n
    OBVIOUS
  <2> HIDE DEF h
  <2>3. Sums(s, h, m)
    BY <1>2, <2>1, <2>2 DEF Sums
  <2>4. Sum(s, m) = h[m] /\ h[m] \in Nat
    <3>1. m \in Nat /\ \A k \in 1..m : s[k] \in Nat
      OBVIOUS
    <3> QED BY <2>3, <3>1, TotalIs DEF Sum
  <2> QED BY <2>1, <2>4
<1>4. \A k \in 1..n : k \in 0..n /\ k - 1 \in 0..n
  OBVIOUS
<1> QED BY <1>2, <1>3, <1>4 DEF Sums

\* An earlier sum and what was added since are below a later one.
LEMMA SumGrows ==
  ASSUME NEW n \in Nat, NEW s, \A k \in 1..n : s[k] \in Nat, NEW i \in 0..n, NEW j \in i..n
  PROVE  Sum(s, i) <= Sum(s, j)
<1> DEFINE P == {d \in Nat : i + d <= n => Sum(s, i) <= Sum(s, i + d)}
<1>1. 0 \in P
  <2>1. Sum(s, i) \in Nat
    BY SumFacts
  <2> QED BY <2>1
<1>2. ASSUME NEW d \in Nat, d \in P PROVE d + 1 \in P
  <2> SUFFICES ASSUME i + (d + 1) <= n PROVE Sum(s, i) <= Sum(s, i + (d + 1))
    OBVIOUS
  <2>1. /\ Sum(s, i + (d + 1)) = Sum(s, i + d) + s[i + (d + 1)]
        /\ s[i + (d + 1)] \in Nat /\ Sum(s, i) \in Nat /\ Sum(s, i + d) \in Nat
    <3>1. i + (d + 1) \in 1..n /\ i + d \in 0..n /\ (i + (d + 1)) - 1 = i + d
      OBVIOUS
    <3> QED BY <3>1, SumFacts
  <2> QED BY <1>2, <2>1
<1> HIDE DEF P
<1>3. j - i \in P
  BY <1>1, <1>2, NaturalsBySet
<1>4. i + (j - i) = j
  OBVIOUS
<1> QED BY <1>3, <1>4 DEF P

\* Lists that agree have the same sum.
LEMMA SumSame ==
  ASSUME NEW n, NEW s, NEW t, \A k \in 1..n : s[k] = t[k]
  PROVE  Sum(s, n) = Sum(t, n)
<1>1. [k \in 1..n |-> s[k]] = [k \in 1..n |-> t[k]]
  OBVIOUS
<1> QED BY <1>1 DEF Sum

-----------------------------------------------------------------------------
(* Lists in a row                                                          *)

\* The loop of FlattenSeq, run on the first n lists.
FlattenLoop(ss, g, n) == g = [i \in 1..n |-> IF i = 1 THEN ss[i] ELSE g[i - 1] \o ss[i]]

\* The loop of FlattenSeq exists as a function.
LEMMA FlattenLoopRuns ==
  ASSUME NEW ss, NEW n \in Nat
  PROVE  \E g : FlattenLoop(ss, g, n)
<1> DEFINE P == {k \in Nat : \E g : FlattenLoop(ss, g, k)}
<1>1. 0 \in P
  <2>1. FlattenLoop(ss, [i \in 1..0 |-> << >>], 0)
    BY DEF FlattenLoop
  <2> QED BY <2>1
<1>2. ASSUME NEW k \in Nat, k \in P PROVE k + 1 \in P
  <2>1. PICK g : FlattenLoop(ss, g, k)
    BY <1>2
  <2> DEFINE next == IF k + 1 = 1 THEN ss[k + 1] ELSE g[k] \o ss[k + 1]
             h == [i \in 1..(k + 1) |-> IF i = k + 1 THEN next ELSE g[i]]
  <2>2. \A i \in 1..k : h[i] = g[i]
    OBVIOUS
  <2>3. h[k + 1] = IF k + 1 = 1 THEN ss[k + 1] ELSE h[k] \o ss[k + 1]
    <3>1. h[k + 1] = next
      OBVIOUS
    <3>2. k + 1 # 1 => h[k] = g[k]
      BY <2>2
    <3> HIDE DEF h
    <3> QED BY <3>1, <3>2
  <2>4. \A i \in 1..k : g[i] = IF i = 1 THEN ss[i] ELSE g[i - 1] \o ss[i]
    BY <2>1 DEF FlattenLoop
  <2>5. \A i \in 1..(k + 1) : h[i] = IF i = 1 THEN ss[i] ELSE h[i - 1] \o ss[i]
    <3> HIDE DEF h
    <3> QED BY <2>2, <2>3, <2>4
  <2>6. FlattenLoop(ss, h, k + 1)
    BY <2>5 DEF FlattenLoop
  <2> QED BY <2>6
<1> HIDE DEF P
<1>3. n \in P
  BY <1>1, <1>2, NaturalsBySet
<1> QED BY <1>3 DEF P

Lengths(ss) == [i \in DOMAIN ss |-> Len(ss[i])]

\* r is the first n lists in a row: each starts where those before it end.
InARow(S, ss, n, r) ==
  /\ r \in Seq(S)
  /\ Len(r) = Sum(Lengths(ss), n)
  /\ \A i \in 1..n : \A k \in 1..Len(ss[i]) : r[Sum(Lengths(ss), i - 1) + k] = ss[i][k]

\* What concatenation does.
LEMMA ConcatFacts ==
  ASSUME NEW S, NEW a \in Seq(S), NEW b \in Seq(S)
  PROVE  /\ a \o b \in Seq(S) /\ Len(a \o b) = Len(a) + Len(b)
         /\ \A k \in 1..Len(a) : (a \o b)[k] = a[k]
         /\ \A k \in 1..Len(b) : (a \o b)[Len(a) + k] = b[k]
OBVIOUS

\* The lengths of lists, and the sums of them.
LEMMA LengthsFacts ==
  ASSUME NEW S, NEW n \in Nat, NEW ss \in [1..n -> Seq(S)]
  PROVE  /\ \A i \in 1..n : Lengths(ss)[i] = Len(ss[i]) /\ Len(ss[i]) \in Nat
         /\ \A i \in 1..n : Lengths(ss)[i] \in Nat
         /\ Sum(Lengths(ss), 0) = 0
         /\ \A k \in 0..n : Sum(Lengths(ss), k) \in Nat
         /\ \A k \in 1..n : Sum(Lengths(ss), k) = Sum(Lengths(ss), k - 1) + Len(ss[k])
<1>1. \A i \in 1..n : Lengths(ss)[i] = Len(ss[i]) /\ Len(ss[i]) \in Nat
  BY DEF Lengths
<1>2. \A i \in 1..n : Lengths(ss)[i] \in Nat
  BY <1>1
<1> QED BY <1>1, <1>2, SumFacts

\* One list behind those that stand in a row.
LEMMA OneMoreInARow ==
  ASSUME NEW S, NEW n \in Nat, NEW ss \in [1..n -> Seq(S)],
         NEW k \in 0..(n - 1), NEW r, InARow(S, ss, k, r)
  PROVE  InARow(S, ss, k + 1, r \o ss[k + 1])
<1> DEFINE at(i) == Sum(Lengths(ss), i)
           q == r \o ss[k + 1]
<1>1. k + 1 \in 1..n /\ (k + 1) - 1 = k /\ k \in Nat
  OBVIOUS
<1>2. ss[k + 1] \in Seq(S)
  BY <1>1
<1>3. at(k + 1) = at(k) + Len(ss[k + 1]) /\ at(k) \in Nat
  <2>1. at(k + 1) = at((k + 1) - 1) + Len(ss[k + 1])
    BY <1>1, LengthsFacts, Zenon
  <2>2. at(k) \in Nat
    <3>1. k \in 0..n
      OBVIOUS
    <3> QED BY <3>1, LengthsFacts, Zenon
  <2> QED BY <1>1, <2>1, <2>2
<1>4. r \in Seq(S) /\ Len(r) = at(k)
  BY DEF InARow
<1>5. /\ q \in Seq(S) /\ Len(q) = Len(r) + Len(ss[k + 1])
      /\ \A j \in 1..Len(r) : q[j] = r[j]
      /\ \A j \in 1..Len(ss[k + 1]) : q[Len(r) + j] = ss[k + 1][j]
  <2>1. r \in Seq(S)
    BY <1>4
  <2> DEFINE b == ss[k + 1]
  <2>2. b \in Seq(S)
    BY <1>2
  <2> HIDE DEF b
  <2>3. /\ r \o b \in Seq(S) /\ Len(r \o b) = Len(r) + Len(b)
        /\ \A j \in 1..Len(r) : (r \o b)[j] = r[j]
        /\ \A j \in 1..Len(b) : (r \o b)[Len(r) + j] = b[j]
    BY <2>1, <2>2, ConcatFacts
  <2> QED BY <2>3 DEF b
<1>6. ASSUME NEW i \in 1..k, NEW j \in 1..Len(ss[i]) PROVE q[at(i - 1) + j] = ss[i][j]
  <2>1. r[at(i - 1) + j] = ss[i][j]
    BY DEF InARow
  <2>2. at(i) = at(i - 1) + Len(ss[i]) /\ at(i - 1) \in Nat /\ Len(ss[i]) \in Nat /\ at(i) <= at(k)
    <3>1. i \in 1..n /\ i \in 0..n /\ i - 1 \in 0..n /\ k \in i..n
      OBVIOUS
    <3>2. \A m \in 1..n : Lengths(ss)[m] \in Nat
      BY LengthsFacts, Zenon
    <3>3. at(i) <= at(k)
      BY <3>1, <3>2, SumGrows, Zenon
    <3>4. at(i) = at(i - 1) + Len(ss[i]) /\ at(i - 1) \in Nat /\ Len(ss[i]) \in Nat
      BY <3>1, LengthsFacts, Zenon
    <3> QED BY <3>3, <3>4
  <2>3. at(i - 1) + j \in 1..Len(r)
    BY <1>3, <1>4, <2>2
  <2> QED BY <1>5, <2>1, <2>3
<1>7. \A i \in 1..(k + 1) : i \in 1..k \/ i = k + 1
  OBVIOUS
<1>8. ASSUME NEW i \in 1..(k + 1), NEW j \in 1..Len(ss[i]) PROVE q[at(i - 1) + j] = ss[i][j]
  <2>1. CASE i \in 1..k
    BY <1>6, <2>1
  <2>2. CASE i = k + 1
    BY <1>1, <1>4, <1>5, <2>2
  <2> QED BY <1>7, <2>1, <2>2
<1> HIDE DEF q
<1>9. InARow(S, ss, k + 1, q)
  BY <1>3, <1>4, <1>5, <1>8 DEF InARow
<1> QED BY <1>9 DEF q

\* Flattened lists stand in a row, each behind the lengths of those before.
LEMMA FlattenFacts ==
  ASSUME NEW S, NEW n \in Nat, NEW ss \in [1..n -> Seq(S)]
  PROVE  InARow(S, ss, n, FlattenSeq(ss))
<1>1. Len(ss) = n
  <2>1. ss \in Seq(Seq(S)) /\ DOMAIN ss = 1..n
    OBVIOUS
  <2> QED BY <2>1
<1>2. CASE n = 0
  <2>1. FlattenSeq(ss) = ss /\ ss = << >>
    BY <1>1, <1>2 DEF FlattenSeq
  <2>2. Sum(Lengths(ss), 0) = 0
    BY LengthsFacts
  <2>3. << >> \in Seq(S) /\ Len(<< >>) = 0
    OBVIOUS
  <2> QED BY <1>2, <2>1, <2>2, <2>3 DEF InARow
<1>3. CASE n # 0
  <2> DEFINE g == CHOOSE g : FlattenLoop(ss, g, n)
  <2>1. FlattenLoop(ss, g, n)
    BY FlattenLoopRuns
  <2>2. FlattenSeq(ss) = g[n]
    BY <1>1, <1>3 DEF FlattenSeq, FlattenLoop
  <2> HIDE DEF g
  <2>3. \A i \in 1..n : g[i] = IF i = 1 THEN ss[i] ELSE g[i - 1] \o ss[i]
    BY <2>1 DEF FlattenLoop
  <2> DEFINE P == {k \in Nat : k + 1 <= n => InARow(S, ss, k + 1, g[k + 1])}
  <2>4. 0 \in P
    <3>1. g[1] = ss[1] /\ ss[1] \in Seq(S)
      BY <1>3, <2>3
    <3>2. Sum(Lengths(ss), 0) = 0 /\ Sum(Lengths(ss), 1) = Sum(Lengths(ss), 0) + Len(ss[1])
      <4>1. 1 \in 1..n /\ 1 - 1 = 0
        BY <1>3
      <4> QED BY <4>1, LengthsFacts
    <3>3. \A i \in 1..1 : i = 1 /\ i - 1 = 0
      OBVIOUS
    <3>4. Len(ss[1]) \in Nat
      BY <3>1
    <3>5. InARow(S, ss, 1, g[1])
      BY <3>1, <3>2, <3>3, <3>4 DEF InARow
    <3> QED BY <3>5
  <2>5. ASSUME NEW k \in Nat, k \in P PROVE k + 1 \in P
    <3> SUFFICES ASSUME (k + 1) + 1 <= n PROVE InARow(S, ss, (k + 1) + 1, g[(k + 1) + 1])
      OBVIOUS
    <3>1. InARow(S, ss, k + 1, g[k + 1]) /\ k + 1 \in 0..(n - 1)
      BY <2>5
    <3>2. g[(k + 1) + 1] = g[k + 1] \o ss[(k + 1) + 1]
      <4>1. (k + 1) + 1 \in 1..n /\ (k + 1) + 1 # 1 /\ ((k + 1) + 1) - 1 = k + 1
        OBVIOUS
      <4> QED BY <2>3, <4>1
    <3> QED BY <3>1, <3>2, OneMoreInARow
  <2> HIDE DEF P
  <2>6. n - 1 \in P
    <3>1. n - 1 \in Nat
      BY <1>3
    <3>2. Nat \subseteq P
      BY <2>4, <2>5, NaturalsBySet, Zenon
    <3> QED BY <3>1, <3>2
  <2>7. (n - 1) + 1 = n
    OBVIOUS
  <2> QED BY <2>2, <2>6, <2>7 DEF P
<1> QED BY <1>2, <1>3

-----------------------------------------------------------------------------
(* Types                                                                   *)

Composites == {"array", "tuple", "struct"}

\* What the assumption on Types says of one type.
LEMMA TypeFacts ==
  ASSUME NEW t \in Types
  PROVE  /\ t.kind \in {"static", "bytes", "vec"} \union Composites
         /\ t.parts \in Seq(Types) /\ t.n \in Nat /\ t.head \in Nat /\ t.depth \in 1..MaxDepth
         /\ t.dynamic = IsDynamic(t) /\ t.custom = HasCustom(t) /\ t.head = HeadSize(t)
         /\ t.depth = 1 + Total([i \in DOMAIN t.parts |-> t.parts[i].depth])
         /\ t.kind \in {"static", "bytes"} => t.parts = << >>
         /\ t.kind \in {"vec", "array"} => Len(t.parts) = 1
         /\ t.kind = "vec" => SlotSize(t.parts[1]) >= Word
<1>1. WellFormed(t)
  BY TypesAssumption
<1> DEFINE u == [kind |-> t.kind, parts |-> t.parts, n |-> t.n]
<1>2. /\ t.dynamic = IsDynamic(u) /\ t.custom = HasCustom(u) /\ t.head = HeadSize(u)
      /\ t.depth = 1 + Total([i \in DOMAIN t.parts |-> t.parts[i].depth])
  BY <1>1 DEF WellFormed, Type
<1>3. u.kind = t.kind /\ u.parts = t.parts /\ u.n = t.n
  OBVIOUS
<1> HIDE DEF u
<1>4. \A k : Fields(u, k) = Fields(t, k)
  BY <1>3 DEF Fields
<1>5. IsDynamic(u) = IsDynamic(t) /\ HasCustom(u) = HasCustom(t) /\ HeadSize(u) = HeadSize(t)
  BY <1>3, <1>4 DEF IsDynamic, HasCustom, HeadSize
<1>6. /\ t.kind \in {"static", "bytes", "vec"} \union Composites
      /\ t.parts \in Seq(Types) /\ t.n \in Nat /\ t.head \in Nat /\ t.depth \in 1..MaxDepth
      /\ t.kind \in {"static", "bytes"} => t.parts = << >>
      /\ t.kind \in {"vec", "array"} => Len(t.parts) = 1
      /\ t.kind = "vec" => SlotSize(t.parts[1]) >= Word
  BY <1>1 DEF WellFormed, Composites
<1> QED BY <1>2, <1>5, <1>6

\* A type is deeper than its parts.
LEMMA PartsFacts ==
  ASSUME NEW t \in Types
  PROVE  /\ Len(t.parts) \in Nat /\ DOMAIN t.parts = 1..Len(t.parts)
         /\ \A i \in DOMAIN t.parts : t.parts[i] \in Types /\ t.parts[i].depth < t.depth
<1> DEFINE n == Len(t.parts)
           s == [i \in 1..n |-> t.parts[i].depth]
<1>1. t.parts \in Seq(Types)
  BY TypeFacts
<1>2. n \in Nat /\ DOMAIN t.parts = 1..n /\ \A i \in 1..n : t.parts[i] \in Types
  BY <1>1
<1>3. t.depth = 1 + Total(s)
  BY <1>2, TypeFacts
<1>4. \A i \in 1..n : s[i] = t.parts[i].depth /\ s[i] \in Nat
  <2>1. \A u \in Types : u.depth \in 1..MaxDepth
    BY TypeFacts
  <2>2. MaxDepth \in Nat
    BY AbiAssumption
  <2>3. \A u \in Types : u.depth \in Nat
    BY <2>1, <2>2
  <2> QED BY <1>2, <2>3
<1>5. Total(s) = Sum(s, n)
  <2>1. s = [i \in 1..n |-> s[i]]
    OBVIOUS
  <2> HIDE DEF s
  <2> QED BY <2>1 DEF Sum
<1> HIDE DEF s, n
<1>6. ASSUME NEW i \in 1..n PROVE s[i] <= Sum(s, n)
  <2>1. i \in 0..n /\ i - 1 \in 0..n /\ n \in i..n
    BY <1>2
  <2>2. Sum(s, i) <= Sum(s, n)
    BY <1>2, <1>4, <2>1, SumGrows, Zenon
  <2>3. Sum(s, i) = Sum(s, i - 1) + s[i] /\ Sum(s, i - 1) \in Nat /\ Sum(s, n) \in Nat
    BY <1>2, <1>4, <2>1, SumFacts
  <2> QED BY <1>4, <2>2, <2>3
<1>7. Sum(s, n) \in Nat
  BY <1>2, <1>4, SumFacts
<1>8. \A i \in 1..n : t.parts[i].depth < t.depth
  BY <1>2, <1>3, <1>4, <1>5, <1>6, <1>7
<1> QED BY <1>2, <1>8 DEF n

\* The fields of a value: all are types of less depth, none is dynamic in a
\* static type, and not all are static in a dynamic one.
LEMMA FieldsFacts ==
  ASSUME NEW t \in Types, NEW k \in Nat, t.kind \in {"vec"} \union Composites
  PROVE  LET ts == Fields(t, k) IN
         /\ ts \in Seq(Types) /\ Len(ts) \in Nat /\ DOMAIN ts = 1..Len(ts)
         /\ t.kind \in {"vec", "array"} => Len(ts) = k
         /\ t.kind \in {"vec", "array"} => \A i \in DOMAIN ts : ts[i] = t.parts[1]
         /\ t.kind \in {"tuple", "struct"} => ts = t.parts
         /\ \A i \in DOMAIN ts : ts[i] \in Types /\ ts[i].depth < t.depth
         /\ ~t.dynamic => \A i \in DOMAIN ts : ~ts[i].dynamic
         /\ t.dynamic /\ t.kind # "vec" => ts = << >> \/ \E i \in DOMAIN ts : ts[i].dynamic
<1>1. /\ t.parts \in Seq(Types) /\ Len(t.parts) \in Nat /\ DOMAIN t.parts = 1..Len(t.parts)
      /\ \A i \in DOMAIN t.parts : t.parts[i] \in Types /\ t.parts[i].depth < t.depth
  BY TypeFacts, PartsFacts
<1>2. t.dynamic = (t.kind = "vec" \/ \E i \in DOMAIN t.parts : t.parts[i].dynamic)
  BY TypeFacts DEF IsDynamic, Composites
<1>3. CASE t.kind \in {"vec", "array"}
  <2>1. Len(t.parts) = 1 /\ DOMAIN t.parts = {1}
    <3>1. Len(t.parts) = 1
      BY <1>3, TypeFacts
    <3> QED BY <1>1, <3>1
  <2>2. Fields(t, k) = [i \in 1..k |-> t.parts[1]]
    BY <1>3 DEF Fields
  <2> DEFINE ts == [i \in 1..k |-> t.parts[1]]
  <2>3. ts \in Seq(Types) /\ DOMAIN ts = 1..k /\ \A i \in 1..k : ts[i] = t.parts[1]
    BY <1>1, <2>1
  <2> HIDE DEF ts
  <2>4. Len(ts) = k
    BY <2>3
  <2>5. t.dynamic = (t.kind = "vec" \/ t.parts[1].dynamic)
    BY <1>2, <2>1
  <2>6. t.dynamic /\ t.kind # "vec" => ts = << >> \/ \E i \in DOMAIN ts : ts[i].dynamic
    <3>1. k = 0 => ts = << >>
      BY <2>3, <2>4
    <3>2. k # 0 => 1 \in 1..k
      OBVIOUS
    <3> QED BY <2>3, <2>5, <3>1, <3>2
  <2> QED BY <1>1, <1>3, <2>1, <2>2, <2>3, <2>4, <2>5, <2>6 DEF ts
<1>4. CASE t.kind \in {"tuple", "struct"}
  <2>1. Fields(t, k) = t.parts
    BY <1>4 DEF Fields
  <2> QED BY <1>1, <1>2, <1>4, <2>1
<1> QED BY <1>3, <1>4 DEF Composites

\* A field takes a word in the heads when it is dynamic (SLOT_SIZE).
LEMMA SlotFacts ==
  ASSUME NEW t \in Types
  PROVE  SlotSize(t) \in Nat /\ (t.dynamic => SlotSize(t) = Word) /\ (~t.dynamic => SlotSize(t) = t.head)
<1>1. Word \in Nat /\ t.head \in Nat
  BY AbiAssumption, TypeFacts
<1> QED BY <1>1 DEF SlotSize

Slots(ts) == [j \in DOMAIN ts |-> SlotSize(ts[j])]

\* The heads follow one another.
LEMMA OffsetFacts ==
  ASSUME NEW ts \in Seq(Types)
  PROVE  /\ HeadOffset(ts, 1) = 0
         /\ \A i \in 1..(Len(ts) + 1) : HeadOffset(ts, i) \in Nat /\ HeadOffset(ts, i) = Sum(Slots(ts), i - 1)
         /\ \A i \in 1..Len(ts) : HeadOffset(ts, i + 1) = HeadOffset(ts, i) + SlotSize(ts[i])
         /\ \A i \in 1..Len(ts) : HeadOffset(ts, i) + SlotSize(ts[i]) <= HeadOffset(ts, Len(ts) + 1)
<1> DEFINE n == Len(ts)
           s == Slots(ts)
<1>1. n \in Nat /\ DOMAIN ts = 1..n
  OBVIOUS
<1>2. \A j \in 1..n : s[j] = SlotSize(ts[j]) /\ s[j] \in Nat
  BY <1>1, SlotFacts DEF Slots
<1>3. ASSUME NEW i \in 1..(n + 1) PROVE HeadOffset(ts, i) = Sum(s, i - 1)
  <2>1. \A j \in 1..(i - 1) : SlotSize(ts[j]) = s[j]
    BY <1>1, <1>2
  <2>2. [j \in 1..(i - 1) |-> SlotSize(ts[j])] = [j \in 1..(i - 1) |-> s[j]]
    BY <2>1
  <2> QED BY <2>2 DEF HeadOffset, Sum
<1> HIDE DEF n, s
<1>4. /\ Sum(s, 0) = 0
      /\ \A k \in 0..n : Sum(s, k) \in Nat
      /\ \A k \in 1..n : Sum(s, k) = Sum(s, k - 1) + s[k]
  BY <1>1, <1>2, SumFacts, Zenon
<1>5. \A i \in 1..(n + 1) : HeadOffset(ts, i) \in Nat /\ HeadOffset(ts, i) = Sum(s, i - 1)
  <2>1. \A i \in 1..(n + 1) : i - 1 \in 0..n
    BY <1>1
  <2> QED BY <1>3, <1>4, <2>1
<1>6. HeadOffset(ts, 1) = 0
  <2>1. 1 \in 1..(n + 1) /\ 1 - 1 = 0
    BY <1>1
  <2> QED BY <1>4, <1>5, <2>1
<1>7. ASSUME NEW i \in 1..n
      PROVE  /\ HeadOffset(ts, i + 1) = HeadOffset(ts, i) + SlotSize(ts[i])
             /\ HeadOffset(ts, i) + SlotSize(ts[i]) <= HeadOffset(ts, n + 1)
  <2>1. i \in 1..(n + 1) /\ i + 1 \in 1..(n + 1) /\ n + 1 \in 1..(n + 1)
    BY <1>1
  <2>2. (i + 1) - 1 = i /\ (n + 1) - 1 = n /\ i \in 0..n /\ n \in i..n
    BY <1>1
  <2>3. HeadOffset(ts, i + 1) = Sum(s, i) /\ HeadOffset(ts, n + 1) = Sum(s, n)
    BY <1>3, <2>1, <2>2
  <2>4. Sum(s, i) <= Sum(s, n)
    BY <1>1, <1>2, <2>2, SumGrows, Zenon
  <2>5. Sum(s, i) = HeadOffset(ts, i) + SlotSize(ts[i])
    BY <1>2, <1>3, <1>4, <2>1
  <2> QED BY <2>3, <2>4, <2>5
<1> QED BY <1>5, <1>6, <1>7 DEF n, s

\* Induction over types: what holds of a type when it holds of all less deep
\* holds of every type. G is the set of those it holds of.
LEMMA TypesByDepth ==
  ASSUME NEW G,
         \A t \in Types : (\A u \in Types : u.depth < t.depth => u \in G) => t \in G
  PROVE  Types \subseteq G
<1> SUFFICES ASSUME Types \ G # {} PROVE FALSE
  OBVIOUS
<1> DEFINE D == {t.depth : t \in Types \ G}
<1>1. \A t \in Types : t.depth \in Nat
  <2>1. \A t \in Types : t.depth \in 1..MaxDepth
    BY TypeFacts
  <2>2. MaxDepth \in Nat
    BY AbiAssumption
  <2> QED BY <2>1, <2>2
<1>2. D \subseteq Nat /\ D # {}
  BY <1>1
<1>3. PICK d \in D : \A e \in D : d <= e
  BY <1>2, LeastNatural
<1>4. PICK t \in Types \ G : t.depth = d
  OBVIOUS
<1>5. ASSUME NEW u \in Types, u.depth < t.depth PROVE u \in G
  <2> SUFFICES ASSUME u \notin G PROVE FALSE
    OBVIOUS
  <2>1. u.depth \in D
    OBVIOUS
  <2>2. d <= u.depth
    BY <1>3, <2>1
  <2>3. u.depth \in Nat /\ d \in Nat
    BY <1>1, <1>2
  <2> QED BY <1>4, <1>5, <2>2, <2>3
<1> QED BY <1>4, <1>5

Shallow(d) == {t \in Types : t.depth <= d}

\* No type is deeper than MaxDepth, and none has no depth.
LEMMA DepthFacts ==
  /\ MaxDepth \in Nat
  /\ \A t \in Types : t.depth \in Nat /\ t.depth >= 1
  /\ Shallow(0) = {} /\ Shallow(MaxDepth) = Types
<1>1. MaxDepth \in Nat
  BY AbiAssumption
<1>2. \A t \in Types : t.depth \in 1..MaxDepth
  BY TypeFacts
<1>3. \A t \in Types : t.depth \in Nat /\ t.depth >= 1 /\ t.depth <= MaxDepth
  BY <1>1, <1>2
<1>4. Shallow(0) = {}
  BY <1>3 DEF Shallow
<1>5. Shallow(MaxDepth) = Types
  BY <1>3 DEF Shallow
<1> QED BY <1>1, <1>3, <1>4, <1>5

-----------------------------------------------------------------------------
(* The recursive functions exist: each is a loop over the depth of types,   *)
(* whose step looks at less deep types only.                                *)

Smaller(t) == {u \in Types : u.depth < t.depth}

\* The types of the fields are one level shallower.
LEMMA SmallerFacts ==
  ASSUME NEW k \in Nat, NEW t \in Shallow(k + 1)
  PROVE  t \in Types /\ Smaller(t) \subseteq Shallow(k)
<1>1. \A u \in Types : u.depth \in Nat
  BY DepthFacts
<1>2. t \in Types /\ t.depth <= k + 1
  BY DEF Shallow
<1> QED BY <1>1, <1>2 DEF Shallow, Smaller

ListValues(g, t, k) == LET ts == Fields(t, k) IN Product([i \in DOMAIN ts |-> g[ts[i]]])

ValuesStep(g, t) ==
  IF t.kind = "static" THEN Leaves
  ELSE IF t.kind = "bytes" THEN Payloads
  ELSE IF t.kind = "vec" THEN UNION {ListValues(g, t, k) : k \in 0..MaxElements}
  ELSE ListValues(g, t, t.n)

\* The values of a type depend on those of its fields only.
LEMMA ValuesStepSame ==
  ASSUME NEW t \in Types, NEW g, NEW h, \A u \in Smaller(t) : g[u] = h[u]
  PROVE  ValuesStep(g, t) = ValuesStep(h, t)
<1>1. ASSUME t.kind \in {"vec"} \union Composites, NEW k \in Nat
      PROVE  ListValues(g, t, k) = ListValues(h, t, k)
  <2> DEFINE ts == Fields(t, k)
  <2>1. \A i \in DOMAIN ts : ts[i] \in Smaller(t)
    BY <1>1, FieldsFacts DEF Smaller
  <2> HIDE DEF ts
  <2>2. [i \in DOMAIN ts |-> g[ts[i]]] = [i \in DOMAIN ts |-> h[ts[i]]]
    BY <2>1
  <2> QED BY <2>2 DEF ListValues, ts
<1>2. /\ t.kind \in {"static", "bytes", "vec"} \union Composites
      /\ t.n \in Nat /\ MaxElements \in Nat
  BY TypeFacts, AbiAssumption
<1>3. CASE t.kind \in {"static", "bytes"}
  BY <1>3 DEF ValuesStep
<1>4. CASE t.kind = "vec"
  <2>1. \A k \in 0..MaxElements : ListValues(g, t, k) = ListValues(h, t, k)
    BY <1>1, <1>2, <1>4
  <2>2. {ListValues(g, t, k) : k \in 0..MaxElements} = {ListValues(h, t, k) : k \in 0..MaxElements}
    BY <2>1
  <2> QED BY <1>4, <2>2 DEF ValuesStep
<1>5. CASE t.kind \in Composites
  <2>1. t.kind \notin {"static", "bytes", "vec"}
    BY <1>5 DEF Composites
  <2>2. ListValues(g, t, t.n) = ListValues(h, t, t.n)
    BY <1>1, <1>2, <1>5
  <2> QED BY <2>1, <2>2 DEF ValuesStep
<1> QED BY <1>2, <1>3, <1>4, <1>5

\* The values exist for the types of any depth.
LEMMA ValuesRuns ==
  ASSUME NEW d \in Nat
  PROVE  \E g : g = [t \in Shallow(d) |-> ValuesStep(g, t)]
<1> DEFINE P == {k \in Nat : \E g : g = [t \in Shallow(k) |-> ValuesStep(g, t)]}
<1>1. 0 \in P
  <2> DEFINE e == [t \in {} |-> 0]
  <2>1. e = [t \in Shallow(0) |-> ValuesStep(e, t)]
    BY DepthFacts
  <2> QED BY <2>1
<1>2. ASSUME NEW k \in Nat, k \in P PROVE k + 1 \in P
  <2>1. PICK g : g = [t \in Shallow(k) |-> ValuesStep(g, t)]
    BY <1>2
  <2> DEFINE h == [t \in Shallow(k + 1) |-> ValuesStep(g, t)]
  <2>2. \A u \in Shallow(k) : u \in Shallow(k + 1)
    BY DepthFacts DEF Shallow
  <2>3. \A u \in Shallow(k) : g[u] = h[u]
    BY <2>1, <2>2
  <2>4. ASSUME NEW t \in Shallow(k + 1) PROVE ValuesStep(g, t) = ValuesStep(h, t)
    <3> HIDE DEF h
    <3>1. t \in Types /\ \A u \in Smaller(t) : g[u] = h[u]
      BY <2>3, SmallerFacts
    <3> QED BY <3>1, ValuesStepSame
  <2>5. h = [t \in Shallow(k + 1) |-> ValuesStep(h, t)]
    BY <2>4
  <2> HIDE DEF h
  <2> QED BY <2>5
<1> HIDE DEF P
<1>3. d \in P
  BY <1>1, <1>2, NaturalsBySet
<1> QED BY <1>3 DEF P

\* So the definition of Values holds of every type.
LEMMA ValuesUnfold ==
  ASSUME NEW t \in Types
  PROVE  Values[t] = ValuesStep(Values, t)
<1> DEFINE v == CHOOSE g : g = [u \in Types |-> ValuesStep(g, u)]
<1>1. Values = v
  BY DEF Values, ValuesStep, ListValues
<1>2. \E g : g = [u \in Types |-> ValuesStep(g, u)]
  BY DepthFacts, ValuesRuns
<1>3. v = [u \in Types |-> ValuesStep(v, u)]
  <2> HIDE DEF ValuesStep
  <2> QED BY <1>2
<1> HIDE DEF v
<1> QED BY <1>1, <1>3

\* What f computes for the parts of v, whose types are ts.
PartWise(f, ts, v) == [i \in DOMAIN ts |-> f[ts[i]][v[i]]]

\* What is computed per field depends on the fields' types only.
LEMMA PartWiseSame ==
  ASSUME NEW t \in Types, t.kind \notin {"static", "bytes"}, NEW k, NEW v,
         NEW g, NEW h, \A u \in Smaller(t) : g[u] = h[u]
  PROVE  PartWise(g, Fields(t, k), v) = PartWise(h, Fields(t, k), v)
<1> DEFINE ts == Fields(t, k)
<1>1. \A i \in DOMAIN ts : ts[i] \in Smaller(t)
  <2>1. /\ Len(t.parts) \in Nat /\ DOMAIN t.parts = 1..Len(t.parts)
        /\ \A i \in DOMAIN t.parts : t.parts[i] \in Smaller(t)
    BY PartsFacts DEF Smaller
  <2>2. CASE t.kind \in {"vec", "array"}
    <3>1. Len(t.parts) = 1
      BY <2>2, TypeFacts
    <3>2. t.parts[1] \in Smaller(t)
      BY <2>1, <3>1
    <3>3. ts = [i \in 1..k |-> t.parts[1]]
      BY <2>2 DEF Fields
    <3> QED BY <3>2, <3>3
  <2>3. CASE t.kind \notin {"vec", "array"}
    <3>1. ts = t.parts
      BY <2>3 DEF Fields
    <3> QED BY <2>1, <3>1
  <2> QED BY <2>2, <2>3
<1> HIDE DEF ts
<1>2. [i \in DOMAIN ts |-> g[ts[i]][v[i]]] = [i \in DOMAIN ts |-> h[ts[i]][v[i]]]
  BY <1>1
<1> QED BY <1>2 DEF PartWise, ts

LenOf(g, t, v) ==
  IF t.kind = "static" THEN Word
  ELSE IF t.kind = "bytes" THEN BytesLen(Len(v))
  ELSE LET ts == Fields(t, Len(v))
           lens == PartWise(g, ts, v)
       IN (IF t.kind = "vec" THEN Word ELSE 0) + FieldsLen(ts, lens)

BodyLenStep(g, t) == [v \in Values[t] |-> LenOf(g, t, v)]

\* A length depends on those of the fields only.
LEMMA BodyLenStepSame ==
  ASSUME NEW t \in Types, NEW g, NEW h, \A u \in Smaller(t) : g[u] = h[u]
  PROVE  BodyLenStep(g, t) = BodyLenStep(h, t)
<1>1. ASSUME NEW v PROVE LenOf(g, t, v) = LenOf(h, t, v)
  <2>1. CASE t.kind \in {"static", "bytes"}
    BY <2>1 DEF LenOf
  <2>2. CASE t.kind \notin {"static", "bytes"}
    <3>1. PartWise(g, Fields(t, Len(v)), v) = PartWise(h, Fields(t, Len(v)), v)
      BY <2>2, PartWiseSame
    <3> QED BY <3>1 DEF LenOf
  <2> QED BY <2>1, <2>2
<1> QED BY <1>1 DEF BodyLenStep

\* The lengths exist for the types of any depth.
LEMMA BodyLenRuns ==
  ASSUME NEW d \in Nat
  PROVE  \E g : g = [t \in Shallow(d) |-> BodyLenStep(g, t)]
<1> DEFINE P == {k \in Nat : \E g : g = [t \in Shallow(k) |-> BodyLenStep(g, t)]}
<1>1. 0 \in P
  <2> DEFINE e == [t \in {} |-> 0]
  <2>1. e = [t \in Shallow(0) |-> BodyLenStep(e, t)]
    BY DepthFacts
  <2> QED BY <2>1
<1>2. ASSUME NEW k \in Nat, k \in P PROVE k + 1 \in P
  <2>1. PICK g : g = [t \in Shallow(k) |-> BodyLenStep(g, t)]
    BY <1>2
  <2> DEFINE h == [t \in Shallow(k + 1) |-> BodyLenStep(g, t)]
  <2>2. \A u \in Shallow(k) : u \in Shallow(k + 1)
    BY DepthFacts DEF Shallow
  <2>3. \A u \in Shallow(k) : g[u] = h[u]
    BY <2>1, <2>2
  <2>4. ASSUME NEW t \in Shallow(k + 1) PROVE BodyLenStep(g, t) = BodyLenStep(h, t)
    <3> HIDE DEF h
    <3>1. t \in Types /\ \A u \in Smaller(t) : g[u] = h[u]
      BY <2>3, SmallerFacts
    <3> QED BY <3>1, BodyLenStepSame
  <2>5. h = [t \in Shallow(k + 1) |-> BodyLenStep(h, t)]
    BY <2>4
  <2> HIDE DEF h
  <2> QED BY <2>5
<1> HIDE DEF P
<1>3. d \in P
  BY <1>1, <1>2, NaturalsBySet
<1> QED BY <1>3 DEF P

\* So encode_body_len computes what its definition says, for every value.
LEMMA BodyLenUnfold ==
  ASSUME NEW t \in Types, NEW v \in Values[t]
  PROVE  BodyLen[t][v] = LenOf(BodyLen, t, v)
<1> DEFINE b == CHOOSE g : g = [u \in Types |-> BodyLenStep(g, u)]
<1>1. BodyLen = b
  BY DEF BodyLen, BodyLenStep, LenOf, PartWise
<1>2. \E g : g = [u \in Types |-> BodyLenStep(g, u)]
  BY DepthFacts, BodyLenRuns
<1>3. b = [u \in Types |-> BodyLenStep(b, u)]
  <2> HIDE DEF BodyLenStep
  <2> QED BY <1>2
<1> HIDE DEF b
<1>4. BodyLen[t] = BodyLenStep(BodyLen, t)
  BY <1>1, <1>3
<1> QED BY <1>4 DEF BodyLenStep

BodyOf(g, t, v) ==
  IF t.kind = "static" THEN Number(v)
  ELSE IF t.kind = "bytes"
  THEN Number(Len(v)) \o v \o [i \in 1..Padding(Len(v)) |-> 0]
  ELSE LET ts == Fields(t, Len(v))
           lens == PartWise(BodyLen, ts, v)
           bodies == PartWise(g, ts, v)
       IN (IF t.kind = "vec" THEN Number(Len(v)) ELSE <<>>) \o EncodeFields(ts, lens, bodies)

EncodeBodyStep(g, t) == [v \in Values[t] |-> BodyOf(g, t, v)]

\* A body depends on those of the fields only.
LEMMA EncodeBodyStepSame ==
  ASSUME NEW t \in Types, NEW g, NEW h, \A u \in Smaller(t) : g[u] = h[u]
  PROVE  EncodeBodyStep(g, t) = EncodeBodyStep(h, t)
<1>1. ASSUME NEW v PROVE BodyOf(g, t, v) = BodyOf(h, t, v)
  <2>1. CASE t.kind \in {"static", "bytes"}
    BY <2>1 DEF BodyOf
  <2>2. CASE t.kind \notin {"static", "bytes"}
    <3>1. PartWise(g, Fields(t, Len(v)), v) = PartWise(h, Fields(t, Len(v)), v)
      BY <2>2, PartWiseSame
    <3> QED BY <3>1 DEF BodyOf
  <2> QED BY <2>1, <2>2
<1> QED BY <1>1 DEF EncodeBodyStep

\* The bodies exist for the types of any depth.
LEMMA EncodeBodyRuns ==
  ASSUME NEW d \in Nat
  PROVE  \E g : g = [t \in Shallow(d) |-> EncodeBodyStep(g, t)]
<1> DEFINE P == {k \in Nat : \E g : g = [t \in Shallow(k) |-> EncodeBodyStep(g, t)]}
<1>1. 0 \in P
  <2> DEFINE e == [t \in {} |-> 0]
  <2>1. e = [t \in Shallow(0) |-> EncodeBodyStep(e, t)]
    BY DepthFacts
  <2> QED BY <2>1
<1>2. ASSUME NEW k \in Nat, k \in P PROVE k + 1 \in P
  <2>1. PICK g : g = [t \in Shallow(k) |-> EncodeBodyStep(g, t)]
    BY <1>2
  <2> DEFINE h == [t \in Shallow(k + 1) |-> EncodeBodyStep(g, t)]
  <2>2. \A u \in Shallow(k) : u \in Shallow(k + 1)
    BY DepthFacts DEF Shallow
  <2>3. \A u \in Shallow(k) : g[u] = h[u]
    BY <2>1, <2>2
  <2>4. ASSUME NEW t \in Shallow(k + 1) PROVE EncodeBodyStep(g, t) = EncodeBodyStep(h, t)
    <3> HIDE DEF h
    <3>1. t \in Types /\ \A u \in Smaller(t) : g[u] = h[u]
      BY <2>3, SmallerFacts
    <3> QED BY <3>1, EncodeBodyStepSame
  <2>5. h = [t \in Shallow(k + 1) |-> EncodeBodyStep(h, t)]
    BY <2>4
  <2> HIDE DEF h
  <2> QED BY <2>5
<1> HIDE DEF P
<1>3. d \in P
  BY <1>1, <1>2, NaturalsBySet
<1> QED BY <1>3 DEF P

\* So encode_body_to writes what its definition says, for every value.
LEMMA EncodeBodyUnfold ==
  ASSUME NEW t \in Types, NEW v \in Values[t]
  PROVE  EncodeBody[t][v] = BodyOf(EncodeBody, t, v)
<1> DEFINE b == CHOOSE g : g = [u \in Types |-> EncodeBodyStep(g, u)]
<1>1. EncodeBody = b
  BY DEF EncodeBody, EncodeBodyStep, BodyOf, PartWise
<1>2. \E g : g = [u \in Types |-> EncodeBodyStep(g, u)]
  BY DepthFacts, EncodeBodyRuns
<1>3. b = [u \in Types |-> EncodeBodyStep(b, u)]
  <2> HIDE DEF EncodeBodyStep
  <2> QED BY <1>2
<1> HIDE DEF b
<1>4. EncodeBody[t] = EncodeBodyStep(EncodeBody, t)
  BY <1>1, <1>3
<1> QED BY <1>4 DEF EncodeBodyStep

EncOf(g, t, v) ==
  IF t.kind = "static" THEN Number(v)
  ELSE IF t.kind = "bytes"
  THEN Number(Len(v)) \o [i \in 1..(((Len(v) + Word - 1) \div Word) * Word) |->
                            IF i <= Len(v) THEN v[i] ELSE 0]
  ELSE LET ts == Fields(t, Len(v)) IN
       (IF t.kind = "vec" THEN Number(Len(v)) ELSE <<>>) \o EncAll(ts, PartWise(g, ts, v))

EncStep(g, t) == [v \in Values[t] |-> EncOf(g, t, v)]

\* An encoding depends on those of the fields only.
LEMMA EncStepSame ==
  ASSUME NEW t \in Types, NEW g, NEW h, \A u \in Smaller(t) : g[u] = h[u]
  PROVE  EncStep(g, t) = EncStep(h, t)
<1>1. ASSUME NEW v PROVE EncOf(g, t, v) = EncOf(h, t, v)
  <2>1. CASE t.kind \in {"static", "bytes"}
    BY <2>1 DEF EncOf
  <2>2. CASE t.kind \notin {"static", "bytes"}
    <3>1. PartWise(g, Fields(t, Len(v)), v) = PartWise(h, Fields(t, Len(v)), v)
      BY <2>2, PartWiseSame
    <3> QED BY <3>1 DEF EncOf
  <2> QED BY <2>1, <2>2
<1> QED BY <1>1 DEF EncStep

\* The encodings exist for the types of any depth.
LEMMA EncRuns ==
  ASSUME NEW d \in Nat
  PROVE  \E g : g = [t \in Shallow(d) |-> EncStep(g, t)]
<1> DEFINE P == {k \in Nat : \E g : g = [t \in Shallow(k) |-> EncStep(g, t)]}
<1>1. 0 \in P
  <2> DEFINE e == [t \in {} |-> 0]
  <2>1. e = [t \in Shallow(0) |-> EncStep(e, t)]
    BY DepthFacts
  <2> QED BY <2>1
<1>2. ASSUME NEW k \in Nat, k \in P PROVE k + 1 \in P
  <2>1. PICK g : g = [t \in Shallow(k) |-> EncStep(g, t)]
    BY <1>2
  <2> DEFINE h == [t \in Shallow(k + 1) |-> EncStep(g, t)]
  <2>2. \A u \in Shallow(k) : u \in Shallow(k + 1)
    BY DepthFacts DEF Shallow
  <2>3. \A u \in Shallow(k) : g[u] = h[u]
    BY <2>1, <2>2
  <2>4. ASSUME NEW t \in Shallow(k + 1) PROVE EncStep(g, t) = EncStep(h, t)
    <3> HIDE DEF h
    <3>1. t \in Types /\ \A u \in Smaller(t) : g[u] = h[u]
      BY <2>3, SmallerFacts
    <3> QED BY <3>1, EncStepSame
  <2>5. h = [t \in Shallow(k + 1) |-> EncStep(h, t)]
    BY <2>4
  <2> HIDE DEF h
  <2> QED BY <2>5
<1> HIDE DEF P
<1>3. d \in P
  BY <1>1, <1>2, NaturalsBySet
<1> QED BY <1>3 DEF P

\* So the definition of Enc holds of every value.
LEMMA EncUnfold ==
  ASSUME NEW t \in Types, NEW v \in Values[t]
  PROVE  Enc[t][v] = EncOf(Enc, t, v)
<1> DEFINE b == CHOOSE g : g = [u \in Types |-> EncStep(g, u)]
<1>1. Enc = b
  BY DEF Enc, EncStep, EncOf, PartWise
<1>2. \E g : g = [u \in Types |-> EncStep(g, u)]
  BY DepthFacts, EncRuns
<1>3. b = [u \in Types |-> EncStep(b, u)]
  <2> HIDE DEF EncStep
  <2> QED BY <1>2
<1> HIDE DEF b
<1>4. Enc[t] = EncStep(Enc, t)
  BY <1>1, <1>3
<1> QED BY <1>4 DEF EncStep

-----------------------------------------------------------------------------
(* Decoders                                                                *)

\* Bytes that arrive.
Input(in) == in \in Seq(Nat) /\ Len(in) <= Usize

\* A word fits the address space, and Overflow is outside of it.
LEMMA UsizeFacts == Usize \in Nat /\ Word \in Nat /\ Word >= 2 /\ Word < Usize /\ Overflow \in Nat /\ Usize < Overflow
BY AbiAssumption DEF Overflow

\* checked_sum: the sum, or Overflow when it wraps.
LEMMA CheckedSumFacts ==
  ASSUME NEW a \in Nat, NEW b \in Nat
  PROVE  /\ CheckedSum(a, b) \in Nat
         /\ a + b < Usize => CheckedSum(a, b) = a + b
         /\ a + b >= Usize => CheckedSum(a, b) = Overflow
BY UsizeFacts DEF CheckedSum

\* read_word_offset: the number in the word, or Overflow when the word is not inside.
LEMMA ReadFacts ==
  ASSUME NEW in, Input(in), NEW o \in Nat
  PROVE  /\ ReadWordOffset(in, o) \in Nat
         /\ ReadWordOffset(in, o) # Overflow => o + Word <= Len(in) /\ o + Word < Usize
         /\ o + Word <= Len(in) /\ o + Word < Usize => ReadWordOffset(in, o) = in[o + Word]
         /\ ~(o + Word <= Len(in) /\ o + Word < Usize) => ReadWordOffset(in, o) = Overflow
<1>1. in \in Seq(Nat) /\ Len(in) \in Nat /\ Len(in) <= Usize
  BY DEF Input
<1>2. CASE o + Word < Usize
  <2>1. CheckedSum(o, Word) = o + Word
    BY <1>2, UsizeFacts, CheckedSumFacts
  <2>2. o + Word <= Len(in) => in[o + Word] \in Nat
    BY <1>1, UsizeFacts
  <2> QED BY <1>1, <1>2, <2>1, <2>2, UsizeFacts DEF ReadWordOffset
<1>3. CASE ~(o + Word < Usize)
  <2>1. CheckedSum(o, Word) = Overflow
    BY <1>3, UsizeFacts, CheckedSumFacts
  <2>2. ReadWordOffset(in, o) = Overflow
    BY <1>1, <2>1, UsizeFacts DEF ReadWordOffset
  <2> QED BY <1>3, <2>2, UsizeFacts
<1> QED BY <1>2, <1>3

\* A field is decoded at a number, Overflow among them.
LEMMA PartAtNat ==
  ASSUME NEW in, Input(in), NEW t \in Types, t.kind \in {"vec"} \union Composites, NEW k \in Nat,
         NEW base \in Nat, NEW i \in DOMAIN Fields(t, k)
  PROVE  PartAt(t, Fields(t, k), in, base, i) \in Nat
<1> DEFINE ts == Fields(t, k)
<1>1. ts \in Seq(Types) /\ i \in 1..Len(ts) /\ Len(ts) \in Nat
  BY FieldsFacts
<1> HIDE DEF ts
<1>2. HeadOffset(ts, i) \in Nat
  <2>1. i \in 1..(Len(ts) + 1)
    BY <1>1
  <2> QED BY <1>1, <2>1, OffsetFacts
<1>3. base + HeadOffset(ts, i) \in Nat /\ CheckedSum(base, HeadOffset(ts, i)) \in Nat
  <2> DEFINE h == HeadOffset(ts, i)
  <2>1. h \in Nat
    BY <1>2
  <2> HIDE DEF h
  <2>2. base + h \in Nat
    BY <2>1
  <2>3. CheckedSum(base, h) \in Nat
    BY <2>1, CheckedSumFacts
  <2> QED BY <2>2, <2>3 DEF h
<1>4. \A o \in Nat : CheckedSum(base, ReadWordOffset(in, o)) \in Nat
  BY ReadFacts, CheckedSumFacts
<1> QED BY <1>3, <1>4 DEF PartAt, ts


UncheckedOf(in, g, t, o) ==
  IF t.kind = "static" THEN IF o + Word <= Len(in) THEN <<in[o + Word]>> ELSE Strayed
  ELSE LET ts == Fields(t, t.n) IN AllOf([i \in DOMAIN ts |-> g[ts[i]][o + HeadOffset(ts, i)]])

UncheckedStep(in, g, t) == [o \in Nat |-> UncheckedOf(in, g, t, o)]

\* The fields of a type without a value at hand are less deep, too.
LEMMA UncheckedStepSame ==
  ASSUME NEW in, NEW t \in Types, NEW g, NEW h, \A u \in Smaller(t) : g[u] = h[u]
  PROVE  UncheckedStep(in, g, t) = UncheckedStep(in, h, t)
<1> DEFINE ts == Fields(t, t.n)
<1>1. t.kind # "static" => \A i \in DOMAIN ts : ts[i] \in Smaller(t)
  <2>1. CASE t.kind \in {"vec"} \union Composites
    BY <2>1, TypeFacts, FieldsFacts DEF Smaller
  <2>2. CASE t.kind = "bytes"
    <3>1. ts = << >>
      BY <2>2, TypeFacts DEF Fields
    <3> QED BY <3>1
  <2> QED BY <2>1, <2>2, TypeFacts
<1>2. ASSUME NEW o \in Nat PROVE UncheckedOf(in, g, t, o) = UncheckedOf(in, h, t, o)
  <2>1. CASE t.kind = "static"
    BY <2>1 DEF UncheckedOf
  <2>2. CASE t.kind # "static"
    <3> HIDE DEF ts
    <3>1. [i \in DOMAIN ts |-> g[ts[i]][o + HeadOffset(ts, i)]] =
          [i \in DOMAIN ts |-> h[ts[i]][o + HeadOffset(ts, i)]]
      BY <1>1, <2>2
    <3> QED BY <2>2, <3>1 DEF UncheckedOf, ts
  <2> QED BY <2>1, <2>2
<1> QED BY <1>2 DEF UncheckedStep

\* decode_unchecked exists for the types of any depth.
LEMMA UncheckedRuns ==
  ASSUME NEW d \in Nat, NEW in
  PROVE  \E g : g = [t \in Shallow(d) |-> UncheckedStep(in, g, t)]
<1> DEFINE P == {k \in Nat : \E g : g = [t \in Shallow(k) |-> UncheckedStep(in, g, t)]}
<1>1. 0 \in P
  <2> DEFINE e == [t \in {} |-> 0]
  <2>1. e = [t \in Shallow(0) |-> UncheckedStep(in, e, t)]
    BY DepthFacts
  <2> QED BY <2>1
<1>2. ASSUME NEW k \in Nat, k \in P PROVE k + 1 \in P
  <2>1. PICK g : g = [t \in Shallow(k) |-> UncheckedStep(in, g, t)]
    BY <1>2
  <2> DEFINE h == [t \in Shallow(k + 1) |-> UncheckedStep(in, g, t)]
  <2>2. \A u \in Shallow(k) : u \in Shallow(k + 1)
    BY DepthFacts DEF Shallow
  <2>3. \A u \in Shallow(k) : g[u] = h[u]
    BY <2>1, <2>2
  <2>4. ASSUME NEW t \in Shallow(k + 1) PROVE UncheckedStep(in, g, t) = UncheckedStep(in, h, t)
    <3> HIDE DEF h
    <3>1. t \in Types /\ \A u \in Smaller(t) : g[u] = h[u]
      BY <2>3, SmallerFacts
    <3> QED BY <3>1, UncheckedStepSame
  <2>5. h = [t \in Shallow(k + 1) |-> UncheckedStep(in, h, t)]
    BY <2>4
  <2> HIDE DEF h
  <2> QED BY <2>5
<1> HIDE DEF P
<1>3. d \in P
  BY <1>1, <1>2, NaturalsBySet
<1> QED BY <1>3 DEF P

\* So it computes what its definition says.
LEMMA UncheckedUnfold ==
  ASSUME NEW in
  PROVE  \E g : \A t \in Types, o \in Nat : DecodeUnchecked(t, in, o) = g[t][o]
                                            /\ g[t][o] = UncheckedOf(in, g, t, o)
<1> DEFINE b == CHOOSE g : g = [u \in Types |-> UncheckedStep(in, g, u)]
<1>1. ASSUME NEW t \in Types, NEW o \in Nat PROVE DecodeUnchecked(t, in, o) = b[t][o]
  BY DEF DecodeUnchecked, UncheckedStep, UncheckedOf
<1>2. \E g : g = [u \in Types |-> UncheckedStep(in, g, u)]
  BY DepthFacts, UncheckedRuns
<1>3. b = [u \in Types |-> UncheckedStep(in, b, u)]
  <2> HIDE DEF UncheckedStep
  <2> QED BY <1>2
<1> HIDE DEF b
<1>4. ASSUME NEW t \in Types, NEW o \in Nat PROVE b[t][o] = UncheckedOf(in, b, t, o)
  <2>1. b[t] = UncheckedStep(in, b, t)
    BY <1>3
  <2> QED BY <2>1 DEF UncheckedStep
<1> QED BY <1>1, <1>4

TailOf(in, g, t, o) ==
  IF t.kind = "bytes" THEN BytesTail(in, o)
  ELSE IF t.kind = "vec" THEN VecTail(g, t, in, o)
  ELSE IF o = Overflow THEN <<>>
  ELSE IF t.kind = "static" THEN StaticAt(in, o)
  ELSE DecodeFields(g, t, Fields(t, t.n), in, o)

TailStep(in, g, t) == [o \in Nat |-> TailOf(in, g, t, o)]

\* The fields' decoding depends on the decoders of their types only.
LEMMA DecodeFieldsSame ==
  ASSUME NEW in, NEW t \in Types, t.kind \in {"vec"} \union Composites, NEW k \in Nat,
         NEW base, NEW g, NEW h, \A u \in Smaller(t) : g[u] = h[u]
  PROVE  DecodeFields(g, t, Fields(t, k), in, base) = DecodeFields(h, t, Fields(t, k), in, base)
<1> DEFINE ts == Fields(t, k)
<1>1. \A i \in DOMAIN ts : ts[i] \in Smaller(t)
  BY FieldsFacts DEF Smaller
<1> HIDE DEF ts
<1>2. [i \in DOMAIN ts |-> g[ts[i]][PartAt(t, ts, in, base, i)]] =
      [i \in DOMAIN ts |-> h[ts[i]][PartAt(t, ts, in, base, i)]]
  BY <1>1
<1> QED BY <1>2 DEF DecodeFields, ts

\* decode_tail of a type depends on that of its fields only.
LEMMA TailStepSame ==
  ASSUME NEW in, Input(in), NEW t \in Types, NEW g, NEW h, \A u \in Smaller(t) : g[u] = h[u]
  PROVE  TailStep(in, g, t) = TailStep(in, h, t)
<1>1. ASSUME NEW o \in Nat PROVE TailOf(in, g, t, o) = TailOf(in, h, t, o)
  <2>1. CASE t.kind \in {"static", "bytes"}
    BY <2>1 DEF TailOf
  <2>2. CASE t.kind = "vec"
    <3>1. ReadWordOffset(in, o) \in Nat
      BY ReadFacts
    <3>2. DecodeFields(g, t, Fields(t, ReadWordOffset(in, o)), in, CheckedSum(o, Word))
            = DecodeFields(h, t, Fields(t, ReadWordOffset(in, o)), in, CheckedSum(o, Word))
      BY <2>2, <3>1, DecodeFieldsSame
    <3> QED BY <2>2, <3>2 DEF TailOf, VecTail
  <2>3. CASE t.kind \in Composites
    <3>1. t.n \in Nat /\ t.kind \in {"vec"} \union Composites
      BY <2>3, TypeFacts
    <3>2. DecodeFields(g, t, Fields(t, t.n), in, o) = DecodeFields(h, t, Fields(t, t.n), in, o)
      BY <3>1, DecodeFieldsSame
    <3> QED BY <2>3, <3>2 DEF TailOf, Composites
  <2> QED BY <2>1, <2>2, <2>3, TypeFacts
<1> QED BY <1>1 DEF TailStep

\* decode_tail exists for the types of any depth.
LEMMA TailRuns ==
  ASSUME NEW d \in Nat, NEW in, Input(in)
  PROVE  \E g : g = [t \in Shallow(d) |-> TailStep(in, g, t)]
<1> DEFINE P == {k \in Nat : \E g : g = [t \in Shallow(k) |-> TailStep(in, g, t)]}
<1>1. 0 \in P
  <2> DEFINE e == [t \in {} |-> 0]
  <2>1. e = [t \in Shallow(0) |-> TailStep(in, e, t)]
    BY DepthFacts
  <2> QED BY <2>1
<1>2. ASSUME NEW k \in Nat, k \in P PROVE k + 1 \in P
  <2>1. PICK g : g = [t \in Shallow(k) |-> TailStep(in, g, t)]
    BY <1>2
  <2> DEFINE h == [t \in Shallow(k + 1) |-> TailStep(in, g, t)]
  <2>2. \A u \in Shallow(k) : u \in Shallow(k + 1)
    BY DepthFacts DEF Shallow
  <2>3. \A u \in Shallow(k) : g[u] = h[u]
    BY <2>1, <2>2
  <2>4. ASSUME NEW t \in Shallow(k + 1) PROVE TailStep(in, g, t) = TailStep(in, h, t)
    <3> HIDE DEF h
    <3>1. t \in Types /\ \A u \in Smaller(t) : g[u] = h[u]
      BY <2>3, SmallerFacts
    <3> QED BY <3>1, TailStepSame
  <2>5. h = [t \in Shallow(k + 1) |-> TailStep(in, h, t)]
    BY <2>4
  <2> HIDE DEF h
  <2> QED BY <2>5
<1> HIDE DEF P
<1>3. d \in P
  BY <1>1, <1>2, NaturalsBySet
<1> QED BY <1>3 DEF P

\* So it computes what its definition says, at every offset.
LEMMA TailUnfold ==
  ASSUME NEW in, Input(in)
  PROVE  \E g : \A t \in Types, o \in Nat : DecodeTail(t, in, o) = g[t][o]
                                            /\ g[t][o] = TailOf(in, g, t, o)
<1> DEFINE b == CHOOSE g : g = [u \in Types |-> TailStep(in, g, u)]
<1>1. ASSUME NEW t \in Types, NEW o \in Nat PROVE DecodeTail(t, in, o) = b[t][o]
  BY DEF DecodeTail, TailStep, TailOf
<1>2. \E g : g = [u \in Types |-> TailStep(in, g, u)]
  BY DepthFacts, TailRuns
<1>3. b = [u \in Types |-> TailStep(in, b, u)]
  <2> HIDE DEF TailStep
  <2> QED BY <1>2
<1> HIDE DEF b
<1>4. ASSUME NEW t \in Types, NEW o \in Nat PROVE b[t][o] = TailOf(in, b, t, o)
  <2>1. b[t] = TailStep(in, b, t)
    BY <1>3
  <2> QED BY <2>1 DEF TailStep
<1> QED BY <1>1, <1>4

-----------------------------------------------------------------------------
(* Nothing strays                                                          *)

\* A decoder can step over the head of any type after the input.
Room(in) == Input(in) /\ \A t \in Types : Len(in) + t.head < Usize

\* A value, a stray read and an error are told apart.
LEMMA OneIsNotTwo ==
  ASSUME NEW x
  PROVE  <<x>> # Strayed /\ <<x>> # << >> /\ Strayed # << >>
<1>1. Len(<<x>>) = 1 /\ Len(Strayed) = 2 /\ Len(<< >>) = 0
  BY DEF Strayed
<1> QED BY <1>1

\* An error of a part is one of the whole, and only a part strays.
LEMMA AllOfFacts ==
  ASSUME NEW parts
  PROVE  /\ (\E i \in DOMAIN parts : parts[i] = << >>) => AllOf(parts) = << >>
         /\ (\A i \in DOMAIN parts : parts[i] # Strayed) => AllOf(parts) # Strayed
BY OneIsNotTwo DEF AllOf

\* Parts that are all decoded make a decoded value.
LEMMA AllOfValues ==
  ASSUME NEW ts, NEW v, NEW parts, DOMAIN parts = DOMAIN ts, \A i \in DOMAIN ts : parts[i] = <<v[i]>>
  PROVE  AllOf(parts) = <<[i \in DOMAIN ts |-> v[i]]>>
<1>1. \A i \in DOMAIN parts : parts[i] # << >> /\ parts[i] # Strayed
  BY OneIsNotTwo
<1>2. \A x : <<x>>[1] = x
  OBVIOUS
<1>3. [i \in DOMAIN parts |-> parts[i][1]] = [i \in DOMAIN ts |-> v[i]]
  BY <1>2
<1> QED BY <1>1, <1>3 DEF AllOf

\* usize arithmetic below and at its limit.
LEMMA WrapFacts ==
  ASSUME NEW a \in Nat
  PROVE  /\ a < Usize => a % Usize = a
         /\ a = Usize => a % Usize = 0
BY UsizeFacts

\* A static leaf with its word below 2^64 is read there, or not at all.
LEMMA StaticAtFacts ==
  ASSUME NEW in, Input(in), NEW o \in Nat, o + Word <= Usize
  PROVE  /\ StaticAt(in, o) # Strayed
         /\ o + Word <= Len(in) /\ o + Word < Usize => StaticAt(in, o) = <<in[o + Word]>>
<1>1. Len(in) \in Nat
  BY DEF Input
<1>2. (o + Word - 1) % Usize = o + Word - 1
  <2> DEFINE a == o + Word - 1
  <2>1. a \in Nat /\ a < Usize
    BY UsizeFacts
  <2> HIDE DEF a
  <2>2. a % Usize = a
    BY <2>1, WrapFacts
  <2> QED BY <2>2 DEF a
<1>3. (o + Word) % Usize = IF o + Word = Usize THEN 0 ELSE o + Word
  <2> DEFINE a == o + Word
  <2>1. a \in Nat /\ a <= Usize
    BY UsizeFacts
  <2> HIDE DEF a
  <2>2. a % Usize = IF a = Usize THEN 0 ELSE a
    BY <2>1, WrapFacts, UsizeFacts
  <2> QED BY <2>2 DEF a
<1>4. CASE o + Word = Usize
  <2>1. StaticAt(in, o) = << >>
    BY <1>2, <1>3, <1>4, UsizeFacts DEF StaticAt
  <2>2. ~(o + Word < Usize)
    BY <1>4, UsizeFacts
  <2> QED BY <2>1, <2>2, OneIsNotTwo
<1>5. CASE o + Word # Usize
  <2>1. StaticAt(in, o) = IF o + Word > Len(in) THEN << >> ELSE <<in[o + Word]>>
    BY <1>2, <1>3, <1>5, UsizeFacts DEF StaticAt
  <2> QED BY <1>1, <2>1, OneIsNotTwo, UsizeFacts
<1> QED BY <1>4, <1>5

\* Nothing is read at an offset whose computation failed.
LEMMA TailAtOverflow ==
  ASSUME NEW in, Input(in), NEW t \in Types
  PROVE  DecodeTail(t, in, Overflow) = << >>
<1>1. PICK g : \A u \in Types, o \in Nat : DecodeTail(u, in, o) = g[u][o] /\ g[u][o] = TailOf(in, g, u, o)
  BY TailUnfold
<1>2. DecodeTail(t, in, Overflow) = TailOf(in, g, t, Overflow)
  BY <1>1, UsizeFacts
<1>3. Len(in) \in Nat /\ Len(in) <= Usize
  BY DEF Input
<1>4. ReadWordOffset(in, Overflow) = Overflow
  <2>1. ~(Overflow + Word <= Len(in) /\ Overflow + Word < Usize)
    BY UsizeFacts
  <2> QED BY <2>1, UsizeFacts, ReadFacts
<1>5. CASE t.kind = "bytes"
  <2>1. CheckedSum(Overflow, Word) = Overflow /\ CheckedSum(Overflow, Overflow) = Overflow
    BY UsizeFacts DEF CheckedSum
  <2>2. BytesTail(in, Overflow) = << >>
    BY <1>3, <1>4, <2>1, UsizeFacts DEF BytesTail
  <2> QED BY <1>2, <1>5, <2>2 DEF TailOf
<1>6. CASE t.kind = "vec"
  <2>1. Len(in) \div Word <= Len(in)
    BY <1>3, UsizeFacts
  <2>2. Overflow > Len(in) \div Word
    BY <1>3, <2>1, UsizeFacts
  <2>3. VecTail(g, t, in, Overflow) = << >>
    BY <1>4, <2>2 DEF VecTail
  <2> QED BY <1>2, <1>6, <2>3 DEF TailOf
<1> QED BY <1>2, <1>5, <1>6 DEF TailOf

\* The heads of a type: a word, or those of all its fields (HEAD_SIZE).
LEMMA HeadFacts ==
  ASSUME NEW t \in Types
  PROVE  /\ t.kind \in {"static", "bytes", "vec"} => t.head = Word
         /\ t.kind \in Composites => t.head = HeadOffset(Fields(t, t.n), Len(Fields(t, t.n)) + 1)
BY TypeFacts DEF HeadSize, Composites

\* Which types are dynamic whatever their parts.
LEMMA KindFacts ==
  ASSUME NEW t \in Types
  PROVE  /\ t.kind = "static" => ~t.dynamic
         /\ t.kind \in {"bytes", "vec"} => t.dynamic
<1>1. t.dynamic = IsDynamic(t)
  BY TypeFacts
<1>2. ASSUME t.kind = "static" PROVE ~IsDynamic(t)
  <2>1. t.parts = << >>
    BY <1>2, TypeFacts
  <2>2. DOMAIN t.parts = {}
    BY <2>1
  <2> QED BY <1>2, <2>2 DEF IsDynamic
<1>3. t.kind \in {"bytes", "vec"} => IsDynamic(t)
  BY DEF IsDynamic
<1> QED BY <1>1, <1>2, <1>3

\* g decodes the types that are less deep than t, and does not stray.
Stays(g, t) ==
  \A u \in Smaller(t) :
    /\ \A o \in Nat : u.dynamic \/ o + u.head <= Usize => g[u][o] # Strayed
    /\ g[u][Overflow] = << >>

\* The fields' heads are below 2^64, or the fields are not read by their heads.
LEMMA HeadsBelowStay ==
  ASSUME NEW in, Input(in), NEW t \in Types, t.kind \in {"vec"} \union Composites,
         NEW k \in Nat, NEW base \in Nat, NEW g, Stays(g, t),
         \/ base + HeadOffset(Fields(t, k), Len(Fields(t, k)) + 1) <= Usize
         \/ \A i \in DOMAIN Fields(t, k) : Fields(t, k)[i].dynamic
  PROVE  DecodeFields(g, t, Fields(t, k), in, base) # Strayed
<1> DEFINE ts == Fields(t, k)
           part == [i \in DOMAIN ts |-> g[ts[i]][PartAt(t, ts, in, base, i)]]
<1>1. /\ ts \in Seq(Types) /\ Len(ts) \in Nat /\ DOMAIN ts = 1..Len(ts)
      /\ \A i \in DOMAIN ts : ts[i] \in Types /\ ts[i] \in Smaller(t)
  BY FieldsFacts DEF Smaller
<1>2. \A i \in DOMAIN ts : PartAt(t, ts, in, base, i) \in Nat
  BY PartAtNat
<1>3. base + HeadOffset(ts, Len(ts) + 1) <= Usize \/ \A i \in DOMAIN ts : ts[i].dynamic
  OBVIOUS
<1> HIDE DEF ts
<1>4. ASSUME NEW i \in DOMAIN ts PROVE g[ts[i]][PartAt(t, ts, in, base, i)] # Strayed
  <2> DEFINE u == ts[i]
             q == PartAt(t, ts, in, base, i)
  <2>1. u \in Smaller(t) /\ u \in Types /\ q \in Nat
    BY <1>1, <1>2
  <2>2. CASE u.dynamic
    <3> HIDE DEF u, q
    <3>1. g[u][q] # Strayed
      BY <2>1, <2>2 DEF Stays
    <3> QED BY <3>1 DEF u, q
  <2>3. CASE ~u.dynamic
    <3> DEFINE h == HeadOffset(ts, i)
    <3>1. /\ h \in Nat /\ SlotSize(u) = u.head /\ u.head \in Nat
          /\ h + u.head <= HeadOffset(ts, Len(ts) + 1)
          /\ HeadOffset(ts, Len(ts) + 1) \in Nat
      <4>1. i \in 1..Len(ts) /\ i \in 1..(Len(ts) + 1) /\ Len(ts) + 1 \in 1..(Len(ts) + 1)
        BY <1>1
      <4>2. h \in Nat /\ h + SlotSize(u) <= HeadOffset(ts, Len(ts) + 1) /\ HeadOffset(ts, Len(ts) + 1) \in Nat
        BY <1>1, <4>1, OffsetFacts
      <4>3. SlotSize(u) = u.head /\ u.head \in Nat
        BY <2>1, <2>3, SlotFacts, TypeFacts
      <4> QED BY <4>2, <4>3
    <3>2. q = base + h \/ q = CheckedSum(base, h)
      BY <2>3 DEF PartAt
    <3>3. base + HeadOffset(ts, Len(ts) + 1) <= Usize
      BY <1>3, <2>3
    <3> HIDE DEF h, q, u
    <3>4. CASE q = Overflow
      BY <2>1, <3>4, OneIsNotTwo DEF Stays, u, q
    <3>5. CASE q # Overflow
      <4>1. q = base + h
        BY <3>1, <3>2, <3>5 DEF CheckedSum
      <4>2. q + u.head <= Usize
        BY <3>1, <3>3, <4>1, UsizeFacts
      <4> QED BY <2>1, <4>2 DEF Stays, u, q
    <3> QED BY <3>4, <3>5
  <2> QED BY <2>2, <2>3
<1>5. AllOf(part) # Strayed
  <2>1. DOMAIN part = DOMAIN ts /\ \A i \in DOMAIN part : part[i] # Strayed
    BY <1>4
  <2> HIDE DEF part
  <2> QED BY <2>1, AllOfFacts
<1> QED BY <1>5, OneIsNotTwo DEF DecodeFields, ts

\* A composite with a dynamic field is refused, or its heads are in the input.
LEMMA PointedFieldsStay ==
  ASSUME NEW in, Room(in), NEW t \in Types, t.kind \in Composites, NEW base \in Nat,
         NEW g, Stays(g, t), NEW j \in DOMAIN Fields(t, t.n), Fields(t, t.n)[j].dynamic
  PROVE  DecodeFields(g, t, Fields(t, t.n), in, base) # Strayed
<1> DEFINE ts == Fields(t, t.n)
           part == [i \in DOMAIN ts |-> g[ts[i]][PartAt(t, ts, in, base, i)]]
           h == HeadOffset(ts, j)
           last == HeadOffset(ts, Len(ts) + 1)
           head == CheckedSum(base, h)
<1>1. t.n \in Nat /\ t.kind \in {"vec"} \union Composites /\ Input(in)
  BY TypeFacts DEF Room
<1>2. /\ ts \in Seq(Types) /\ Len(ts) \in Nat /\ DOMAIN ts = 1..Len(ts)
      /\ \A i \in DOMAIN ts : ts[i] \in Types /\ ts[i] \in Smaller(t)
      /\ t.dynamic
  <2>1. ~t.dynamic => ~ts[j].dynamic
    BY <1>1, FieldsFacts
  <2> QED BY <1>1, <2>1, FieldsFacts DEF Smaller
<1>3. t.head = last
  BY HeadFacts
<1>4. ts[j].dynamic /\ j \in DOMAIN ts
  OBVIOUS
<1>5. h \in Nat /\ last \in Nat
  <2>1. j \in 1..(Len(ts) + 1) /\ Len(ts) + 1 \in 1..(Len(ts) + 1)
    BY <1>2, <1>4
  <2> HIDE DEF ts
  <2> QED BY <1>2, <2>1, OffsetFacts
<1>6. ~Unguarded(t)
  BY <1>2 DEF Unguarded
<1>7. PartAt(t, ts, in, base, j) = CheckedSum(base, ReadWordOffset(in, head))
  BY <1>4, <1>6 DEF PartAt
<1> HIDE DEF ts, h, last
<1>8. head \in Nat
  BY <1>5, CheckedSumFacts
<1>9. Len(in) \in Nat /\ Len(in) + t.head < Usize /\ t.head \in Nat
  <2>1. in \in Seq(Nat) /\ t.head \in Nat
    BY <1>1, TypeFacts DEF Input
  <2> QED BY <2>1 DEF Room
<1>10. CASE ReadWordOffset(in, head) = Overflow
  <2>1. PartAt(t, ts, in, base, j) = Overflow
    BY <1>7, <1>10, UsizeFacts DEF CheckedSum
  <2>2. g[ts[j]][Overflow] = << >>
    BY <1>2, <1>4 DEF Stays
  <2>3. \E i \in DOMAIN part : part[i] = << >>
    BY <1>4, <2>1, <2>2
  <2> HIDE DEF part
  <2>4. AllOf(part) = << >>
    BY <2>3, AllOfFacts
  <2> QED BY <2>4, OneIsNotTwo DEF DecodeFields, ts, part
<1>11. CASE ReadWordOffset(in, head) # Overflow
  <2>1. head + Word <= Len(in)
    BY <1>1, <1>8, <1>11, ReadFacts
  <2>2. head = base + h
    BY <1>5, <1>8, <1>9, <2>1, UsizeFacts DEF CheckedSum
  <2>3. base + last <= Usize
    BY <1>3, <1>5, <1>9, <2>1, <2>2, UsizeFacts
  <2> QED BY <1>1, <2>3, HeadsBelowStay DEF ts, last
<1> QED BY <1>10, <1>11


\* A Vec: its length word and its heads are in the input, or it is refused.
LEMMA VecStays ==
  ASSUME NEW in, Room(in), NEW t \in Types, t.kind = "vec", NEW o \in Nat, NEW g, Stays(g, t)
  PROVE  VecTail(g, t, in, o) # Strayed
<1> DEFINE len == ReadWordOffset(in, o)
           base == CheckedSum(o, Word)
           ts == Fields(t, len)
           last == HeadOffset(ts, Len(ts) + 1)
<1>1. Input(in) /\ len \in Nat /\ base \in Nat
  <2>1. Input(in) /\ Word \in Nat
    BY UsizeFacts DEF Room
  <2> QED BY <2>1, ReadFacts, CheckedSumFacts
<1>2. /\ ts \in Seq(Types) /\ Len(ts) \in Nat /\ DOMAIN ts = 1..Len(ts)
      /\ \A i \in DOMAIN ts : ts[i] = t.parts[1]
  <2> HIDE DEF len
  <2> QED BY <1>1, FieldsFacts
<1>3. last \in Nat
  <2>1. Len(ts) + 1 \in 1..(Len(ts) + 1)
    BY <1>2
  <2> HIDE DEF ts
  <2> QED BY <1>2, <2>1, OffsetFacts
<1>4. SUFFICES DecodeFields(g, t, ts, in, base) # Strayed
  BY OneIsNotTwo DEF VecTail
<1>5. CASE t.parts[1].dynamic
  <2>1. \A i \in DOMAIN ts : ts[i].dynamic
    BY <1>2, <1>5
  <2> HIDE DEF len, base
  <2> QED BY <1>1, <2>1, HeadsBelowStay
<1>6. CASE ~t.parts[1].dynamic /\ CheckedSum(base, last) = Overflow
  <2>1. StepsPast(t)
    BY <1>6 DEF StepsPast
  <2> QED BY <1>6, <2>1, OneIsNotTwo DEF DecodeFields
<1>7. CASE CheckedSum(base, last) # Overflow
  <2> HIDE DEF len, base, ts, last
  <2>1. base + last <= Usize
    BY <1>1, <1>3, <1>7, UsizeFacts DEF CheckedSum
  <2> QED BY <1>1, <2>1, HeadsBelowStay DEF ts, last
<1> QED BY <1>5, <1>6, <1>7

\* Checked decoding does not stray: of a dynamic type, wherever a pointer led;
\* of a static one, where its head ends below 2^64.
LEMMA TailStays ==
  ASSUME NEW in, Room(in), NEW t \in Types, NEW o \in Nat, t.dynamic \/ o + t.head <= Usize
  PROVE  DecodeTail(t, in, o) # Strayed
<1>1. Input(in)
  BY DEF Room
<1>2. PICK g : \A u \in Types, q \in Nat : DecodeTail(u, in, q) = g[u][q] /\ g[u][q] = TailOf(in, g, u, q)
  BY <1>1, TailUnfold
<1> DEFINE G == {u \in Types : \A q \in Nat : u.dynamic \/ q + u.head <= Usize => g[u][q] # Strayed}
<1>3. \A u \in Types : g[u][Overflow] = << >>
  BY <1>1, <1>2, TailAtOverflow, UsizeFacts
<1>4. ASSUME NEW u \in Types, \A w \in Types : w.depth < u.depth => w \in G PROVE u \in G
  <2> SUFFICES ASSUME NEW q \in Nat, u.dynamic \/ q + u.head <= Usize PROVE TailOf(in, g, u, q) # Strayed
    BY <1>2
  <2>1. Stays(g, u)
    BY <1>3, <1>4 DEF Stays, Smaller
  <2> DEFINE ts == Fields(u, u.n)
  <2>2. u.kind \in {"static", "bytes", "vec"} \union Composites /\ u.n \in Nat
    BY TypeFacts
  <2>3. CASE u.kind = "static"
    <3>1. u.head = Word /\ ~u.dynamic
      BY <2>3, HeadFacts, KindFacts
    <3>2. StaticAt(in, q) # Strayed
      BY <1>1, <3>1, StaticAtFacts
    <3> QED BY <2>3, <3>2, OneIsNotTwo DEF TailOf
  <2>4. CASE u.kind = "bytes"
    BY <2>4, OneIsNotTwo DEF TailOf, BytesTail
  <2>5. CASE u.kind = "vec"
    <3>1. VecTail(g, u, in, q) # Strayed
      BY <2>1, <2>5, VecStays
    <3> QED BY <2>5, <3>1 DEF TailOf
  <2>6. CASE u.kind \in Composites
    <3>1. DecodeFields(g, u, ts, in, q) # Strayed
      <4>0. u.kind \in {"vec"} \union Composites /\ u.kind # "vec"
        BY <2>6 DEF Composites
      <4>1. CASE ~u.dynamic
        <5>1. u.head = HeadOffset(ts, Len(ts) + 1)
          BY <2>6, HeadFacts
        <5>2. q + HeadOffset(ts, Len(ts) + 1) <= Usize
          BY <4>1, <5>1
        <5> QED BY <1>1, <2>1, <2>2, <4>0, <5>2, HeadsBelowStay
      <4>2. CASE u.dynamic
        <5>1. ts = << >> \/ \E i \in DOMAIN ts : ts[i].dynamic
          BY <2>2, <4>0, <4>2, FieldsFacts
        <5>2. CASE ts = << >>
          <6>1. \A i \in DOMAIN ts : ts[i].dynamic
            BY <5>2
          <6> QED BY <1>1, <2>1, <2>2, <4>0, <6>1, HeadsBelowStay
        <5>3. CASE \E i \in DOMAIN ts : ts[i].dynamic
          BY <2>1, <2>6, <5>3, PointedFieldsStay
        <5> QED BY <5>1, <5>2, <5>3
      <4> QED BY <4>1, <4>2
    <3> QED BY <2>6, <3>1, OneIsNotTwo DEF TailOf, Composites
  <2> QED BY <2>2, <2>3, <2>4, <2>5, <2>6
<1> HIDE DEF G
<1>5. t \in G
  BY <1>4, TypesByDepth
<1> QED BY <1>2, <1>5 DEF G


\* Unchecked reading stays in an input that holds the head.
LEMMA UncheckedStays ==
  ASSUME NEW in, Input(in), NEW t \in Types, NEW o \in Nat, ~t.dynamic, o + t.head <= Len(in)
  PROVE  DecodeUnchecked(t, in, o) # Strayed
<1>1. Len(in) \in Nat
  BY DEF Input
<1>2. PICK g : \A u \in Types, q \in Nat :
                  DecodeUnchecked(u, in, q) = g[u][q] /\ g[u][q] = UncheckedOf(in, g, u, q)
  BY UncheckedUnfold
<1> DEFINE G == {u \in Types : \A q \in Nat : ~u.dynamic /\ q + u.head <= Len(in) => g[u][q] # Strayed}
<1>3. ASSUME NEW u \in Types, \A w \in Types : w.depth < u.depth => w \in G PROVE u \in G
  <2> SUFFICES ASSUME NEW q \in Nat, ~u.dynamic, q + u.head <= Len(in)
               PROVE  UncheckedOf(in, g, u, q) # Strayed
    BY <1>2
  <2>1. CASE u.kind = "static"
    <3>1. u.head = Word
      BY <2>1, HeadFacts
    <3> QED BY <2>1, <3>1, OneIsNotTwo DEF UncheckedOf
  <2>2. CASE u.kind # "static"
    <3> DEFINE ts == Fields(u, u.n)
               part == [i \in DOMAIN ts |-> g[ts[i]][q + HeadOffset(ts, i)]]
    <3>1. u.kind \in Composites /\ u.n \in Nat
      BY <2>2, TypeFacts, KindFacts
    <3>2. u.head = HeadOffset(ts, Len(ts) + 1)
      BY <3>1, HeadFacts
    <3>3. /\ ts \in Seq(Types) /\ Len(ts) \in Nat /\ DOMAIN ts = 1..Len(ts)
          /\ \A i \in DOMAIN ts : ts[i] \in Types /\ ts[i].depth < u.depth
          /\ \A i \in DOMAIN ts : ~ts[i].dynamic
      BY <3>1, FieldsFacts
    <3> HIDE DEF ts
    <3>4. ASSUME NEW i \in DOMAIN ts PROVE g[ts[i]][q + HeadOffset(ts, i)] # Strayed
      <4> DEFINE w == ts[i]
                 h == HeadOffset(ts, i)
      <4>1. w \in G /\ ~w.dynamic /\ w \in Types
        BY <1>3, <3>3
      <4>2. /\ i \in 1..Len(ts) /\ i \in 1..(Len(ts) + 1) /\ Len(ts) + 1 \in 1..(Len(ts) + 1)
        BY <3>3
      <4>3. /\ h \in Nat /\ h + SlotSize(w) <= HeadOffset(ts, Len(ts) + 1)
            /\ HeadOffset(ts, Len(ts) + 1) \in Nat
        BY <3>3, <4>2, OffsetFacts
      <4>4. SlotSize(w) = w.head /\ w.head \in Nat
        BY <4>1, SlotFacts, TypeFacts
      <4> HIDE DEF w, h
      <4>5. q + h + w.head <= Len(in) /\ q + h \in Nat
        BY <1>1, <3>2, <4>3, <4>4
      <4>6. g[w][q + h] # Strayed
        BY <4>1, <4>5
      <4> QED BY <4>6 DEF w, h
    <3>5. DOMAIN part = DOMAIN ts /\ \A i \in DOMAIN part : part[i] # Strayed
      BY <3>4
    <3> HIDE DEF part
    <3>6. AllOf(part) # Strayed
      BY <3>5, AllOfFacts
    <3> QED BY <2>2, <3>6 DEF UncheckedOf, ts, part
  <2> QED BY <2>1, <2>2
<1> HIDE DEF G
<1>4. t \in G
  BY <1>3, TypesByDepth
<1> QED BY <1>2, <1>4 DEF G

\* decode_at does not stray while the heads fit the address space.
LEMMA DecodeAtStays ==
  ASSUME NEW in, Room(in), NEW t \in Types, NEW o \in Nat, t.dynamic \/ o + t.head <= Usize
  PROVE  DecodeAt(t, in, o) # Strayed
<1>1. Input(in)
  BY DEF Room
<1>2. CASE t.kind \in {"bytes", "vec"}
  <2> DEFINE p == ReadWordOffset(in, o)
  <2>1. p \in Nat /\ t.dynamic
    BY <1>1, <1>2, ReadFacts, KindFacts
  <2> HIDE DEF p
  <2>2. DecodeTail(t, in, p) # Strayed
    BY <2>1, TailStays
  <2> QED BY <1>2, <2>2, OneIsNotTwo DEF DecodeAt, p
<1>3. CASE t.kind \notin {"bytes", "vec"}
  <2>1. DecodeTail(t, in, o) # Strayed
    BY TailStays
  <2> QED BY <1>3, <2>1, OneIsNotTwo DEF DecodeAt
<1> QED BY <1>2, <1>3

\* The parameters of an input that the size check let pass.
LEMMA ParamStays ==
  ASSUME NEW in, Room(in), NEW ts \in Seq(Types), MinInputSize(ts) <= Len(in), NEW i \in 1..Len(ts)
  PROVE  Param(ts[i], in, HeadOffset(ts, i)) # Strayed
<1> DEFINE t == ts[i]
           h == HeadOffset(ts, i)
<1>1. t \in Types /\ Input(in) /\ Len(ts) \in Nat
  BY DEF Room
<1>2. Len(in) \in Nat /\ Len(in) <= Usize
  BY <1>1 DEF Input
<1>3. h \in Nat /\ h + SlotSize(t) <= Len(in)
  <2>1. i \in 1..(Len(ts) + 1) /\ Len(ts) + 1 \in 1..(Len(ts) + 1)
    BY <1>1
  <2>2. h \in Nat /\ HeadOffset(ts, Len(ts) + 1) \in Nat /\ h + SlotSize(t) <= HeadOffset(ts, Len(ts) + 1)
    BY <2>1, OffsetFacts
  <2>3. SlotSize(t) \in Nat
    BY <1>1, SlotFacts
  <2> HIDE DEF t, h
  <2> QED BY <1>2, <2>2, <2>3 DEF MinInputSize
<1> HIDE DEF t, h
<1>4. t.dynamic \/ (h + t.head <= Len(in) /\ h + t.head <= Usize)
  <2>1. ~t.dynamic => SlotSize(t) = t.head /\ t.head \in Nat
    BY <1>1, SlotFacts, TypeFacts
  <2> QED BY <1>2, <1>3, <2>1, UsizeFacts
<1>5. DecodeAt(t, in, h) # Strayed
  BY <1>1, <1>3, <1>4, DecodeAtStays
<1>6. ~t.dynamic => DecodeUnchecked(t, in, h) # Strayed
  BY <1>1, <1>3, <1>4, UncheckedStays
<1> QED BY <1>5, <1>6 DEF Param, t, h

\* Nor does decode, of any input.
LEMMA DecodeStays ==
  ASSUME NEW in, Room(in), NEW t \in Types
  PROVE  Decode(t, in) # Strayed
<1>1. Len(in) \in Nat /\ t.head \in Nat /\ Len(in) + t.head < Usize /\ Input(in)
  <2>1. in \in Seq(Nat) /\ t.head \in Nat
    BY TypeFacts DEF Room, Input
  <2> QED BY <2>1 DEF Room
<1>2. CASE t.kind = "tuple" \/ ~t.dynamic
  <2>1. 0 \in Nat /\ 0 + t.head <= Usize
    BY <1>1, UsizeFacts
  <2>2. DecodeAt(t, in, 0) # Strayed
    BY <2>1, DecodeAtStays
  <2> QED BY <1>2, <2>2 DEF Decode
<1>3. CASE ~(t.kind = "tuple" \/ ~t.dynamic)
  <2> DEFINE p == ReadWordOffset(in, 0)
  <2>1. p \in Nat
    BY <1>1, ReadFacts
  <2> HIDE DEF p
  <2>2. DecodeTail(t, in, p) # Strayed
    BY <1>3, <2>1, TailStays
  <2> QED BY <1>3, <2>2 DEF Decode, p
<1> QED BY <1>2, <1>3


-----------------------------------------------------------------------------
(* Values                                                                  *)

OneLonger(ss, xs) == {Append(s, x) : s \in ss, x \in xs}

ProductLoop(sets, g, n) ==
  g = [k \in 0..n |-> IF k = 0 THEN {<<>>} ELSE OneLonger(g[k - 1], sets[k])]

\* The loop of Product exists as a function.
LEMMA ProductLoopRuns ==
  ASSUME NEW sets, NEW n \in Nat
  PROVE  \E g : ProductLoop(sets, g, n)
<1> DEFINE P == {k \in Nat : \E g : ProductLoop(sets, g, k)}
<1>1. 0 \in P
  <2>1. ProductLoop(sets, [k \in 0..0 |-> {<< >>}], 0)
    BY DEF ProductLoop
  <2> QED BY <2>1
<1>2. ASSUME NEW k \in Nat, k \in P PROVE k + 1 \in P
  <2>1. PICK g : ProductLoop(sets, g, k)
    BY <1>2
  <2> DEFINE next == OneLonger(g[k], sets[k + 1])
             h == [i \in 0..(k + 1) |-> IF i = k + 1 THEN next ELSE g[i]]
  <2>2. \A i \in 0..k : h[i] = g[i]
    OBVIOUS
  <2>3. h[k + 1] = OneLonger(h[k], sets[k + 1])
    <3>1. h[k + 1] = next /\ h[k] = g[k]
      BY <2>2
    <3> HIDE DEF h
    <3> QED BY <3>1
  <2>4. \A i \in 0..k : g[i] = IF i = 0 THEN {<<>>} ELSE OneLonger(g[i - 1], sets[i])
    BY <2>1 DEF ProductLoop
  <2> HIDE DEF h, next
  <2>5. ASSUME NEW i \in 0..(k + 1)
        PROVE  h[i] = IF i = 0 THEN {<<>>} ELSE OneLonger(h[i - 1], sets[i])
    <3>1. CASE i = k + 1
      <4>1. i - 1 = k /\ i # 0
        BY <3>1
      <4> QED BY <2>3, <3>1, <4>1
    <3>2. CASE i # k + 1
      <4>1. i \in 0..k /\ (i # 0 => i - 1 \in 0..k)
        BY <3>2
      <4>2. h[i] = g[i] /\ (i # 0 => h[i - 1] = g[i - 1])
        BY <2>2, <4>1
      <4> QED BY <2>4, <4>1, <4>2
    <3> QED BY <3>1, <3>2
  <2>6. h = [i \in 0..(k + 1) |-> h[i]]
    BY DEF h
  <2>7. ProductLoop(sets, h, k + 1)
    BY <2>5, <2>6 DEF ProductLoop
  <2> QED BY <2>7
<1> HIDE DEF P
<1>3. n \in P
  BY <1>1, <1>2, NaturalsBySet
<1> QED BY <1>3 DEF P

\* v is a list with an element of each of the first n sets.
ListOf(sets, v, n) == DOMAIN v = 1..n /\ v \in Seq(UNION {sets[i] : i \in 1..n}) /\ Len(v) = n /\ \A i \in 1..n : v[i] \in sets[i]

\* What a product holds is a list of one element of each set.
LEMMA ProductFacts ==
  ASSUME NEW n \in Nat, NEW sets, DOMAIN sets = 1..n, Len(sets) = n, NEW v \in Product(sets)
  PROVE  ListOf(sets, v, n)
<1> DEFINE g == CHOOSE g : ProductLoop(sets, g, n)
           S == UNION {sets[i] : i \in 1..n}
<1>1. ProductLoop(sets, g, n)
  BY ProductLoopRuns
<1>2. Product(sets) = g[n]
  BY DEF Product, ProductLoop, OneLonger
<1> HIDE DEF g
<1>3. \A k \in 0..n : g[k] = IF k = 0 THEN {<<>>} ELSE OneLonger(g[k - 1], sets[k])
  BY <1>1 DEF ProductLoop
<1> DEFINE P == {k \in Nat : k <= n => \A s \in g[k] : s \in Seq(S) /\ Len(s) = k /\ \A i \in 1..k : s[i] \in sets[i]}
<1>4. 0 \in P
  <2>1. g[0] = {<< >>}
    BY <1>3
  <2>2. \A s \in g[0] : s = << >> /\ s \in Seq(S) /\ Len(s) = 0
    BY <2>1
  <2> QED BY <2>2
<1>5. ASSUME NEW k \in Nat, k \in P PROVE k + 1 \in P
  <2> SUFFICES ASSUME k + 1 <= n, NEW s \in g[k + 1]
               PROVE  s \in Seq(S) /\ Len(s) = k + 1 /\ \A i \in 1..(k + 1) : s[i] \in sets[i]
    <3> HIDE DEF S
    <3>1. k + 1 \in Nat
      OBVIOUS
    <3> QED BY <3>1, Zenon
  <2>1. k + 1 \in 1..n /\ k + 1 \in 0..n /\ k + 1 # 0 /\ (k + 1) - 1 = k
    OBVIOUS
  <2>2. PICK r \in g[k], x \in sets[k + 1] : s = Append(r, x)
    <3>1. g[k + 1] = OneLonger(g[k], sets[k + 1])
      BY <1>3, <2>1
    <3> QED BY <3>1 DEF OneLonger
  <2>3. r \in Seq(S) /\ Len(r) = k /\ \A i \in 1..k : r[i] \in sets[i]
    <3> HIDE DEF S
    <3>1. k <= n
      OBVIOUS
    <3> QED BY <1>5, <2>2, <3>1
  <2>4. x \in S
    BY <2>1
  <2> HIDE DEF S
  <2>5. /\ s \in Seq(S) /\ Len(s) = k + 1 /\ s[k + 1] = x
        /\ \A i \in 1..k : s[i] = r[i]
    BY <2>2, <2>3, <2>4
  <2>6. \A i \in 1..(k + 1) : i \in 1..k \/ i = k + 1
    OBVIOUS
  <2> QED BY <2>3, <2>5, <2>6
<1> HIDE DEF P
<1>6. n \in P
  BY <1>4, <1>5, NaturalsBySet
<1> HIDE DEF S
<1>7. v \in Seq(S) /\ Len(v) = n /\ \A i \in 1..n : v[i] \in sets[i]
  <2>1. \A s \in g[n] : s \in Seq(S) /\ Len(s) = n /\ \A i \in 1..n : s[i] \in sets[i]
    BY <1>6 DEF P
  <2> QED BY <1>2, <2>1
<1>8. DOMAIN v = 1..n
  BY <1>7
<1> QED BY <1>7, <1>8 DEF ListOf, S

\* The value of a composite or a Vec is the list of its fields' values.
LEMMA ListFacts ==
  ASSUME NEW t \in Types, t.kind \in {"vec"} \union Composites, NEW v \in Values[t]
  PROVE  LET ts == Fields(t, Len(v)) IN
         /\ Len(v) \in Nat /\ Len(v) = Len(ts) /\ DOMAIN v = DOMAIN ts
         /\ v = [i \in DOMAIN ts |-> v[i]]
         /\ \A i \in DOMAIN ts : v[i] \in Values[ts[i]]
         /\ t.kind \in Composites => ts = Fields(t, t.n)
<1>1. /\ t.n \in Nat /\ MaxElements \in Nat
      /\ Values[t] = ValuesStep(Values, t)
  BY TypeFacts, AbiAssumption, ValuesUnfold
<1>2. PICK k \in Nat : v \in ListValues(Values, t, k) /\ (t.kind # "vec" => k = t.n)
  <2>1. CASE t.kind = "vec"
    <3>1. v \in UNION {ListValues(Values, t, k) : k \in 0..MaxElements}
      BY <1>1, <2>1 DEF ValuesStep
    <3>2. \A k \in 0..MaxElements : k \in Nat
      BY <1>1
    <3> QED BY <2>1, <3>1, <3>2
  <2>2. CASE t.kind # "vec"
    <3>1. t.kind \notin {"static", "bytes", "vec"}
      BY <2>2 DEF Composites
    <3> QED BY <1>1, <2>2, <3>1 DEF ValuesStep
  <2> QED BY <2>1, <2>2
<1> DEFINE ts == Fields(t, k)
           n == Len(ts)
           sets == [i \in DOMAIN ts |-> Values[ts[i]]]
<1>3. /\ n \in Nat /\ DOMAIN ts = 1..n
      /\ t.kind \in {"vec", "array"} => n = k
      /\ t.kind \in {"tuple", "struct"} => \A m : Fields(t, m) = ts
  BY FieldsFacts DEF Fields
<1>4. v \in Product(sets)
  BY <1>2 DEF ListValues
<1> HIDE DEF ts, n
<1>5. DOMAIN sets = 1..n /\ Len(sets) = n /\ \A i \in 1..n : sets[i] = Values[ts[i]]
  <2>1. DOMAIN sets = 1..n /\ \A i \in 1..n : sets[i] = Values[ts[i]]
    BY <1>3
  <2>2. sets = [i \in 1..n |-> Values[ts[i]]]
    BY <1>3
  <2> HIDE DEF sets
  <2>3. sets \in Seq({Values[ts[i]] : i \in 1..n})
    BY <1>3, <2>2
  <2> QED BY <1>3, <2>1, <2>3
<1> HIDE DEF sets
<1>6. ListOf(sets, v, n)
  BY <1>3, <1>4, <1>5, ProductFacts
<1>7. DOMAIN v = 1..n /\ Len(v) = n /\ \A i \in 1..n : v[i] \in Values[ts[i]]
  BY <1>5, <1>6 DEF ListOf
<1>8. v = [i \in 1..n |-> v[i]]
  BY <1>6 DEF ListOf
<1>9. Fields(t, Len(v)) = ts
  BY <1>3, <1>7 DEF Composites, ts
<1>10. t.kind \in Composites => ts = Fields(t, t.n)
  BY <1>2 DEF Composites, ts
<1> QED BY <1>3, <1>7, <1>8, <1>9, <1>10 DEF n

\* What the values of a leaf are.
LEMMA LeafValueFacts ==
  ASSUME NEW t \in Types, NEW v \in Values[t]
  PROVE  /\ t.kind = "static" => v \in Nat
         /\ t.kind = "bytes" => v \in Seq(Nat)
<1>1. Values[t] = ValuesStep(Values, t)
  BY ValuesUnfold
<1>2. CASE t.kind = "static"
  <2>1. v \in Leaves
    BY <1>1, <1>2 DEF ValuesStep
  <2> QED BY <1>2, <2>1, AbiAssumption
<1>3. CASE t.kind = "bytes"
  <2>1. v \in Payloads
    BY <1>1, <1>3 DEF ValuesStep
  <2>2. v \in Seq(0..(Usize - 1))
    BY <2>1, AbiAssumption
  <2>3. Len(v) \in Nat /\ v = [i \in 1..Len(v) |-> v[i]] /\ \A i \in 1..Len(v) : v[i] \in Nat
    BY <2>2, UsizeFacts
  <2> QED BY <1>3, <2>3
<1> QED BY <1>2, <1>3


-----------------------------------------------------------------------------
(* What is encoded                                                         *)

\* A number is a word with the number at its end.
LEMMA NumberFacts ==
  ASSUME NEW n \in Nat
  PROVE  Number(n) \in Seq(Nat) /\ Len(Number(n)) = Word /\ Number(n)[Word] = n
<1> DEFINE s == [i \in 1..Word |-> IF i = Word THEN n ELSE 0]
<1>1. s \in Seq(Nat) /\ DOMAIN s = 1..Word /\ s[Word] = n
  BY UsizeFacts
<1> HIDE DEF s
<1>2. Len(s) = Word
  BY <1>1, UsizeFacts
<1> QED BY <1>1, <1>2 DEF Number, s

\* Bodies of fields of the types ts, and what encode_body_len says of each.
Fit(ts, lens, bodies) ==
  /\ ts \in Seq(Types)
  /\ bodies \in [1..Len(ts) -> Seq(Nat)]
  /\ \A i \in 1..Len(ts) : lens[i] = Len(bodies[i]) /\ (~ts[i].dynamic => lens[i] = ts[i].head)

Pointer(ts, lens, i) == HeadOffset(ts, Len(ts) + 1) + TailsLen(ts, lens, i - 1)
HeadsOf(ts, lens, bodies) ==
  [i \in DOMAIN ts |-> IF ts[i].dynamic THEN Number(Pointer(ts, lens, i)) ELSE bodies[i]]
TailsOf(ts, bodies) == [i \in DOMAIN ts |-> IF ts[i].dynamic THEN bodies[i] ELSE <<>>]

\* Where each tail ends among the tails.
LEMMA TailsFacts ==
  ASSUME NEW ts, NEW lens, NEW bodies, Fit(ts, lens, bodies)
  PROVE  /\ Len(ts) \in Nat /\ DOMAIN ts = 1..Len(ts)
         /\ TailsOf(ts, bodies) \in [1..Len(ts) -> Seq(Nat)]
         /\ \A k \in 0..Len(ts) :
              TailsLen(ts, lens, k) = Sum(Lengths(TailsOf(ts, bodies)), k) /\ TailsLen(ts, lens, k) \in Nat
<1> DEFINE n == Len(ts)
           tails == TailsOf(ts, bodies)
           s == Lengths(tails)
<1>1. ts \in Seq(Types)
  BY DEF Fit
<1>2. n \in Nat /\ DOMAIN ts = 1..n
  BY <1>1
<1>3. \A i \in 1..n : bodies[i] \in Seq(Nat) /\ lens[i] = Len(bodies[i])
  BY DEF Fit
<1>4. ASSUME NEW i \in 1..n
      PROVE  tails[i] \in Seq(Nat) /\ Len(tails[i]) = IF ts[i].dynamic THEN lens[i] ELSE 0
  <2>1. tails[i] = IF ts[i].dynamic THEN bodies[i] ELSE << >>
    BY <1>2 DEF TailsOf
  <2>2. << >> \in Seq(Nat) /\ Len(<< >>) = 0
    OBVIOUS
  <2> QED BY <1>3, <2>1, <2>2
<1>5. tails \in [1..n -> Seq(Nat)]
  <2>1. DOMAIN tails = 1..n /\ tails = [i \in 1..n |-> tails[i]]
    BY <1>2 DEF TailsOf
  <2> HIDE DEF tails
  <2> QED BY <1>4, <2>1
<1>6. DOMAIN tails = 1..n
  BY <1>2 DEF TailsOf
<1> HIDE DEF tails
<1>7. \A i \in 1..n : s[i] = IF ts[i].dynamic THEN lens[i] ELSE 0
  BY <1>4, <1>6 DEF Lengths
<1>8. ASSUME NEW k \in 0..n PROVE TailsLen(ts, lens, k) = Sum(s, k)
  <2>1. \A i \in 1..k : i \in 1..n
    OBVIOUS
  <2>2. [i \in 1..k |-> IF ts[i].dynamic THEN lens[i] ELSE 0] = [i \in 1..k |-> s[i]]
    BY <1>7, <2>1
  <2> QED BY <2>2 DEF TailsLen, Sum
<1>9. \A k \in 0..n : Sum(s, k) \in Nat
  BY <1>2, <1>5, LengthsFacts, Zenon
<1> QED BY <1>2, <1>5, <1>8, <1>9 DEF n, s, tails

\* Where each head ends among the heads.
LEMMA HeadsFacts ==
  ASSUME NEW ts, NEW lens, NEW bodies, Fit(ts, lens, bodies)
  PROVE  /\ \A i \in 1..Len(ts) : Pointer(ts, lens, i) \in Nat
         /\ HeadsOf(ts, lens, bodies) \in [1..Len(ts) -> Seq(Nat)]
         /\ \A k \in 0..Len(ts) :
              Sum(Lengths(HeadsOf(ts, lens, bodies)), k) = HeadOffset(ts, k + 1) /\ HeadOffset(ts, k + 1) \in Nat
<1> DEFINE n == Len(ts)
           heads == HeadsOf(ts, lens, bodies)
<1>1. ts \in Seq(Types) /\ n \in Nat /\ DOMAIN ts = 1..n
  BY TailsFacts DEF Fit
<1>2. \A k \in 0..n : HeadOffset(ts, k + 1) \in Nat /\ HeadOffset(ts, k + 1) = Sum(Slots(ts), k)
  <2>1. \A k \in 0..n : k + 1 \in 1..(n + 1) /\ (k + 1) - 1 = k
    BY <1>1
  <2> QED BY <1>1, <2>1, OffsetFacts
<1>3. \A i \in 1..n : Pointer(ts, lens, i) \in Nat
  <2>1. \A i \in 1..n : TailsLen(ts, lens, i - 1) \in Nat
    <3>1. \A i \in 1..n : i - 1 \in 0..n
      BY <1>1
    <3> QED BY <3>1, TailsFacts
  <2>2. HeadOffset(ts, n + 1) \in Nat
    BY <1>1, <1>2
  <2> QED BY <2>1, <2>2 DEF Pointer
<1>4. ASSUME NEW i \in 1..n PROVE heads[i] \in Seq(Nat) /\ Len(heads[i]) = SlotSize(ts[i])
  <2>1. heads[i] = IF ts[i].dynamic THEN Number(Pointer(ts, lens, i)) ELSE bodies[i]
    BY <1>1 DEF HeadsOf
  <2>2. CASE ts[i].dynamic
    <3> DEFINE p == Pointer(ts, lens, i)
    <3>1. p \in Nat
      BY <1>3
    <3> HIDE DEF p
    <3>2. Number(p) \in Seq(Nat) /\ Len(Number(p)) = Word
      BY <3>1, NumberFacts
    <3>3. heads[i] = Number(p)
      BY <2>1, <2>2 DEF p
    <3> QED BY <2>2, <3>2, <3>3 DEF SlotSize
  <2>3. CASE ~ts[i].dynamic
    <3>1. heads[i] = bodies[i] /\ bodies[i] \in Seq(Nat) /\ Len(bodies[i]) = ts[i].head
      BY <2>1, <2>3 DEF Fit
    <3> QED BY <2>3, <3>1 DEF SlotSize
  <2> QED BY <2>2, <2>3
<1>5. DOMAIN heads = 1..n /\ heads = [i \in 1..n |-> heads[i]]
  BY <1>1 DEF HeadsOf
<1> HIDE DEF heads
<1>6. heads \in [1..n -> Seq(Nat)]
  BY <1>4, <1>5
<1>7. ASSUME NEW k \in 0..n PROVE Sum(Lengths(heads), k) = Sum(Slots(ts), k)
  <2>1. \A i \in 1..k : i \in 1..n
    OBVIOUS
  <2>2. \A i \in 1..k : Lengths(heads)[i] = Slots(ts)[i]
    BY <1>1, <1>4, <1>5, <2>1 DEF Lengths, Slots
  <2> QED BY <2>2, SumSame
<1> QED BY <1>2, <1>3, <1>6, <1>7 DEF n, heads


\* Every head is where HeadOffset says, every tail where its pointer says.
Laid(ts, lens, bodies, r) ==
  /\ r \in Seq(Nat) /\ Len(r) = FieldsLen(ts, lens) /\ FieldsLen(ts, lens) \in Nat
  /\ HeadOffset(ts, Len(ts) + 1) <= Len(r)
  /\ \A i \in 1..Len(ts) :
       IF ts[i].dynamic
       THEN /\ HeadOffset(ts, i) + Word <= Len(r)
            /\ r[HeadOffset(ts, i) + Word] = Pointer(ts, lens, i)
            /\ Pointer(ts, lens, i) + Len(bodies[i]) <= Len(r)
            /\ \A k \in 1..Len(bodies[i]) : r[Pointer(ts, lens, i) + k] = bodies[i][k]
       ELSE /\ HeadOffset(ts, i) + Len(bodies[i]) <= Len(r)
            /\ \A k \in 1..Len(bodies[i]) : r[HeadOffset(ts, i) + k] = bodies[i][k]

\* So every head and tail is where its offset says.
LEMMA EncodeFieldsFacts ==
  ASSUME NEW ts, NEW lens, NEW bodies, Fit(ts, lens, bodies)
  PROVE  Laid(ts, lens, bodies, EncodeFields(ts, lens, bodies))
<1> DEFINE n == Len(ts)
           heads == HeadsOf(ts, lens, bodies)
           tails == TailsOf(ts, bodies)
           a == FlattenSeq(heads)
           b == FlattenSeq(tails)
           r == a \o b
           last == HeadOffset(ts, n + 1)
<1>1. EncodeFields(ts, lens, bodies) = r
  BY DEF EncodeFields, HeadsOf, TailsOf, Pointer
<1>2. n \in Nat /\ DOMAIN ts = 1..n /\ ts \in Seq(Types)
  BY TailsFacts DEF Fit
<1>3. heads \in [1..n -> Seq(Nat)] /\ \A k \in 0..n : Sum(Lengths(heads), k) = HeadOffset(ts, k + 1)
  BY HeadsFacts
<1>4. /\ tails \in [1..n -> Seq(Nat)]
      /\ \A k \in 0..n : Sum(Lengths(tails), k) = TailsLen(ts, lens, k) /\ TailsLen(ts, lens, k) \in Nat
  BY TailsFacts
<1>5. InARow(Nat, heads, n, a)
  BY <1>2, <1>3, FlattenFacts, Zenon
<1>6. InARow(Nat, tails, n, b)
  BY <1>2, <1>4, FlattenFacts, Zenon
<1>7. n \in 0..n /\ \A i \in 1..n : i - 1 \in 0..n /\ (i - 1) + 1 = i /\ i \in 0..n
  BY <1>2
<1>8. \A i \in 1..n : heads[i] = (IF ts[i].dynamic THEN Number(Pointer(ts, lens, i)) ELSE bodies[i])
                      /\ tails[i] = (IF ts[i].dynamic THEN bodies[i] ELSE << >>)
  BY <1>2 DEF HeadsOf, TailsOf
<1>9. \A i \in 1..n : bodies[i] \in Seq(Nat) /\ (~ts[i].dynamic => Len(bodies[i]) = ts[i].head)
  BY DEF Fit
<1>10. last \in Nat /\ \A i \in 1..n : HeadOffset(ts, i) \in Nat /\ HeadOffset(ts, i) + SlotSize(ts[i]) <= last
  <2>1. \A i \in 1..n : i \in 1..(n + 1)
    BY <1>2
  <2>2. n + 1 \in 1..(n + 1)
    BY <1>2
  <2> QED BY <1>2, <2>1, <2>2, OffsetFacts
<1> HIDE DEF heads, tails, a, b
<1>11. /\ a \in Seq(Nat) /\ Len(a) = last
       /\ \A i \in 1..n : \A k \in 1..Len(heads[i]) : a[HeadOffset(ts, i) + k] = heads[i][k]
  <2>1. a \in Seq(Nat) /\ Len(a) = Sum(Lengths(heads), n)
    BY <1>5 DEF InARow
  <2>2. ASSUME NEW i \in 1..n PROVE Sum(Lengths(heads), i - 1) = HeadOffset(ts, i)
    BY <1>3, <1>7
  <2> QED BY <1>3, <1>5, <1>7, <2>1, <2>2 DEF InARow
<1>12. /\ b \in Seq(Nat) /\ Len(b) = TailsLen(ts, lens, n)
       /\ \A i \in 1..n : \A k \in 1..Len(tails[i]) : b[TailsLen(ts, lens, i - 1) + k] = tails[i][k]
  BY <1>4, <1>6, <1>7 DEF InARow
<1>13. ASSUME NEW i \in 1..n
       PROVE  /\ TailsLen(ts, lens, i - 1) \in Nat
              /\ TailsLen(ts, lens, i - 1) + Len(tails[i]) <= Len(b)
  <2> DEFINE s == Lengths(tails)
  <2>1. /\ Sum(s, i) = Sum(s, i - 1) + Len(tails[i])
        /\ \A k \in 1..n : s[k] \in Nat
    BY <1>2, <1>4, LengthsFacts, Zenon
  <2>2. Sum(s, i) <= Sum(s, n)
    <3>1. i \in 0..n /\ n \in i..n
      BY <1>2
    <3> HIDE DEF s
    <3> QED BY <1>2, <2>1, <3>1, SumGrows, Zenon
  <2> HIDE DEF s
  <2> QED BY <1>4, <1>7, <1>12, <2>1, <2>2 DEF s
<1>14. /\ r \in Seq(Nat) /\ Len(r) = last + Len(b) /\ Len(b) \in Nat
       /\ \A k \in 1..last : r[k] = a[k]
       /\ \A k \in 1..Len(b) : r[last + k] = b[k]
  <2>1. /\ r \in Seq(Nat) /\ Len(r) = Len(a) + Len(b)
        /\ \A k \in 1..Len(a) : r[k] = a[k]
        /\ \A k \in 1..Len(b) : r[Len(a) + k] = b[k]
    <3>1. a \in Seq(Nat) /\ b \in Seq(Nat)
      BY <1>11, <1>12
    <3>2. /\ a \o b \in Seq(Nat) /\ Len(a \o b) = Len(a) + Len(b)
          /\ \A k \in 1..Len(a) : (a \o b)[k] = a[k]
          /\ \A k \in 1..Len(b) : (a \o b)[Len(a) + k] = b[k]
      BY <3>1, ConcatFacts
    <3> QED BY <3>2
  <2>2. Len(b) \in Nat
    BY <1>12
  <2> QED BY <1>11, <2>1, <2>2
<1> HIDE DEF r, last
<1>15. ASSUME NEW i \in 1..n, ts[i].dynamic
       PROVE  /\ HeadOffset(ts, i) + Word <= Len(r)
              /\ r[HeadOffset(ts, i) + Word] = Pointer(ts, lens, i)
              /\ Pointer(ts, lens, i) + Len(bodies[i]) <= Len(r)
              /\ \A k \in 1..Len(bodies[i]) : r[Pointer(ts, lens, i) + k] = bodies[i][k]
  <2> DEFINE p == Pointer(ts, lens, i)
             before == TailsLen(ts, lens, i - 1)
             h == HeadOffset(ts, i)
  <2>1. p = last + before /\ before \in Nat /\ h \in Nat
    BY <1>10, <1>13 DEF Pointer, last
  <2>2. heads[i] = Number(p) /\ tails[i] = bodies[i] /\ SlotSize(ts[i]) = Word
    BY <1>8, <1>15 DEF SlotSize
  <2>3. h + Word <= last
    BY <1>10, <2>2
  <2>4. bodies[i] \in Seq(Nat) /\ Len(bodies[i]) \in Nat
    BY <1>9
  <2>5. before + Len(bodies[i]) <= Len(b)
    BY <1>13, <2>2
  <2> HIDE DEF p, before, h
  <2>6. r[h + Word] = p
    <3>1. Len(Number(p)) = Word /\ Number(p)[Word] = p
      BY <1>10, <2>1, NumberFacts
    <3>2. Word \in 1..Len(heads[i])
      BY <2>2, <3>1, UsizeFacts
    <3>3. a[h + Word] = p
      BY <1>11, <2>2, <3>1, <3>2 DEF h
    <3>4. h + Word \in 1..last
      BY <1>10, <2>1, <2>3, UsizeFacts
    <3> QED BY <1>14, <3>3, <3>4
  <2>7. ASSUME NEW k \in 1..Len(bodies[i]) PROVE r[p + k] = bodies[i][k]
    <3>1. before + k \in 1..Len(b) /\ p + k = last + (before + k)
      BY <1>10, <1>14, <2>1, <2>4, <2>5
    <3>2. b[before + k] = bodies[i][k]
      BY <1>12, <2>2 DEF before
    <3> QED BY <1>14, <3>1, <3>2
  <2>8. h + Word <= Len(r) /\ p + Len(bodies[i]) <= Len(r)
    <3>1. last \in Nat /\ Len(b) \in Nat /\ Len(r) = last + Len(b)
      BY <1>10, <1>14, Zenon
    <3>2. Word \in Nat
      BY UsizeFacts
    <3> DEFINE m == Len(bodies[i])
    <3>3. m \in Nat /\ before + m <= Len(b)
      BY <2>4, <2>5
    <3> HIDE DEF m
    <3>4. h + Word <= Len(r) /\ p + m <= Len(r)
      BY <2>1, <2>3, <3>1, <3>2, <3>3
    <3> QED BY <3>4 DEF m
  <2> QED BY <2>6, <2>7, <2>8 DEF p, h
<1>16. ASSUME NEW i \in 1..n, ~ts[i].dynamic
       PROVE  /\ HeadOffset(ts, i) + Len(bodies[i]) <= Len(r)
              /\ \A k \in 1..Len(bodies[i]) : r[HeadOffset(ts, i) + k] = bodies[i][k]
  <2> DEFINE h == HeadOffset(ts, i)
  <2>1. heads[i] = bodies[i] /\ Len(bodies[i]) = SlotSize(ts[i])
    BY <1>8, <1>9, <1>16 DEF SlotSize
  <2>2. h + Len(bodies[i]) <= last /\ h \in Nat
    BY <1>10, <2>1
  <2>3. bodies[i] \in Seq(Nat) /\ Len(bodies[i]) \in Nat
    BY <1>9
  <2> HIDE DEF h
  <2>4. ASSUME NEW k \in 1..Len(bodies[i]) PROVE r[h + k] = bodies[i][k]
    <3>1. h + k \in 1..last
      BY <1>10, <2>2, <2>3
    <3>2. a[h + k] = bodies[i][k]
      BY <1>11, <2>1 DEF h
    <3> QED BY <1>14, <3>1, <3>2
  <2>5. h + Len(bodies[i]) <= Len(r)
    BY <1>10, <1>14, <2>2, <2>3
  <2> QED BY <2>4, <2>5 DEF h
<1>17. Len(r) = FieldsLen(ts, lens) /\ Len(r) \in Nat /\ last <= Len(r)
  BY <1>10, <1>12, <1>14 DEF FieldsLen, last, n
<1> QED BY <1>1, <1>14, <1>15, <1>16, <1>17 DEF Laid, n, last


\* Nothing but zeros sums to zero.
LEMMA SumZero ==
  ASSUME NEW n \in Nat, NEW s, \A k \in 1..n : s[k] = 0
  PROVE  Sum(s, n) = 0
<1> DEFINE P == {k \in Nat : k <= n => Sum(s, k) = 0}
<1>1. /\ Sum(s, 0) = 0 /\ \A k \in 1..n : Sum(s, k) = Sum(s, k - 1) + s[k]
  BY SumFacts
<1>2. 0 \in P
  BY <1>1
<1>3. ASSUME NEW k \in Nat, k \in P PROVE k + 1 \in P
  <2> SUFFICES ASSUME k + 1 <= n PROVE Sum(s, k + 1) = 0
    OBVIOUS
  <2>1. k + 1 \in 1..n /\ (k + 1) - 1 = k /\ k <= n
    OBVIOUS
  <2>2. Sum(s, k + 1) = Sum(s, k) + s[k + 1] /\ s[k + 1] = 0
    BY <1>1, <2>1
  <2>3. Sum(s, k) = 0
    BY <1>3, <2>1
  <2> QED BY <2>2, <2>3
<1> HIDE DEF P
<1>4. n \in P
  BY <1>2, <1>3, NaturalsBySet
<1> QED BY <1>4 DEF P

\* The types whose bodies are as long as encode_body_len says.
Measured ==
  {u \in Types : \A v \in Values[u] :
     /\ EncodeBody[u][v] \in Seq(Nat) /\ BodyLen[u][v] = Len(EncodeBody[u][v])
     /\ ~u.dynamic => BodyLen[u][v] = u.head}

\* What the body of a list of fields is made of.
Lens(t, v) == PartWise(BodyLen, Fields(t, Len(v)), v)
Bodies(t, v) == PartWise(EncodeBody, Fields(t, Len(v)), v)

\* The fields of a value fit the lengths computed for them, if smaller types do.
LEMMA PartsFit ==
  ASSUME NEW t \in Types, t.kind \in {"vec"} \union Composites, NEW v \in Values[t],
         Smaller(t) \subseteq Measured
  PROVE  Fit(Fields(t, Len(v)), Lens(t, v), Bodies(t, v))
<1> DEFINE ts == Fields(t, Len(v))
           bodies == Bodies(t, v)
<1>1. Len(v) \in Nat /\ \A i \in DOMAIN ts : v[i] \in Values[ts[i]]
  BY ListFacts
<1>2. /\ ts \in Seq(Types) /\ Len(ts) \in Nat /\ DOMAIN ts = 1..Len(ts)
      /\ \A i \in DOMAIN ts : ts[i] \in Measured
  BY <1>1, FieldsFacts DEF Smaller
<1>3. \A i \in 1..Len(ts) : bodies[i] = EncodeBody[ts[i]][v[i]] /\ Lens(t, v)[i] = BodyLen[ts[i]][v[i]]
  BY <1>2 DEF Lens, Bodies, PartWise
<1>4. DOMAIN bodies = 1..Len(ts) /\ bodies = [i \in 1..Len(ts) |-> bodies[i]]
  BY <1>2 DEF Bodies, PartWise
<1> HIDE DEF ts, bodies
<1>5. ASSUME NEW i \in 1..Len(ts)
      PROVE  bodies[i] \in Seq(Nat) /\ Lens(t, v)[i] = Len(bodies[i]) /\ (~ts[i].dynamic => Lens(t, v)[i] = ts[i].head)
  <2>1. ts[i] \in Measured /\ v[i] \in Values[ts[i]]
    BY <1>1, <1>2
  <2> QED BY <1>3, <2>1 DEF Measured
<1>6. bodies \in [1..Len(ts) -> Seq(Nat)]
  BY <1>4, <1>5
<1> QED BY <1>2, <1>5, <1>6 DEF Fit, ts, bodies

\* What the fields of static types take is their heads.
LEMMA StaticFieldsLen ==
  ASSUME NEW ts, NEW lens, NEW bodies, Fit(ts, lens, bodies), \A i \in 1..Len(ts) : ~ts[i].dynamic
  PROVE  FieldsLen(ts, lens) = HeadOffset(ts, Len(ts) + 1)
<1> DEFINE n == Len(ts)
           tails == TailsOf(ts, bodies)
<1>1. n \in Nat /\ DOMAIN ts = 1..n /\ n \in 0..n
  BY TailsFacts
<1>2. TailsLen(ts, lens, n) = Sum(Lengths(tails), n)
  BY <1>1, TailsFacts
<1>3. \A i \in 1..n : Lengths(tails)[i] = 0
  <2>1. DOMAIN tails = 1..n /\ \A i \in 1..n : tails[i] = << >>
    BY <1>1 DEF TailsOf
  <2>2. Len(<< >>) = 0
    OBVIOUS
  <2> HIDE DEF tails
  <2> QED BY <2>1, <2>2 DEF Lengths
<1> HIDE DEF tails
<1>4. Sum(Lengths(tails), n) = 0
  BY <1>1, <1>3, SumZero
<1>5. HeadOffset(ts, n + 1) \in Nat
  <2>1. ts \in Seq(Types) /\ n + 1 \in 1..(n + 1)
    BY <1>1 DEF Fit
  <2> QED BY <2>1, OffsetFacts
<1> QED BY <1>2, <1>4, <1>5 DEF FieldsLen

\* The padding is a number.
LEMMA PaddingFacts ==
  ASSUME NEW len \in Nat
  PROVE  Padding(len) \in Nat
BY UsizeFacts DEF Padding

\* The body of a bytes: its length, its content, its padding.
LEMMA BytesBody ==
  ASSUME NEW v \in Seq(Nat)
  PROVE  LET b == Number(Len(v)) \o v \o [i \in 1..Padding(Len(v)) |-> 0] IN
         /\ b \in Seq(Nat) /\ Len(b) = BytesLen(Len(v)) /\ Word + Len(v) <= Len(b)
         /\ b[Word] = Len(v)
         /\ \A k \in 1..Len(v) : b[Word + k] = v[k]
<1> DEFINE n == Len(v)
           p == Padding(n)
           zeros == [i \in 1..p |-> 0]
           a == Number(n)
           av == a \o v
           b == av \o zeros
<1>1. n \in Nat /\ p \in Nat /\ Word \in Nat /\ Word >= 2
  BY PaddingFacts, UsizeFacts
<1>2. a \in Seq(Nat) /\ Len(a) = Word /\ a[Word] = n
  BY <1>1, NumberFacts
<1> HIDE DEF p
<1>3. zeros \in Seq(Nat) /\ Len(zeros) = p
  <2>1. zeros \in Seq(Nat) /\ DOMAIN zeros = 1..p
    BY <1>1
  <2> HIDE DEF zeros
  <2> QED BY <1>1, <2>1
<1> HIDE DEF zeros, a
<1>4. /\ a \o v \in Seq(Nat) /\ Len(a \o v) = Len(a) + Len(v)
      /\ \A k \in 1..Len(a) : (a \o v)[k] = a[k]
      /\ \A k \in 1..Len(v) : (a \o v)[Len(a) + k] = v[k]
  <2>1. a \in Seq(Nat) /\ v \in Seq(Nat)
    BY <1>2
  <2> QED BY <2>1, ConcatFacts
<1>5. /\ av \o zeros \in Seq(Nat) /\ Len(av \o zeros) = Len(av) + Len(zeros)
      /\ \A k \in 1..Len(av) : (av \o zeros)[k] = av[k]
  <2>1. av \in Seq(Nat)
    BY <1>4
  <2> HIDE DEF av
  <2> QED BY <1>3, <2>1, ConcatFacts
<1> HIDE DEF n
<1>6. /\ Len(av) = Word + n /\ av[Word] = n /\ \A k \in 1..n : av[Word + k] = v[k]
  <2>1. Word \in 1..Len(a)
    BY <1>1, <1>2
  <2> QED BY <1>2, <1>4, <2>1 DEF n
<1> HIDE DEF av
<1>7. /\ Len(b) = Word + n + p
      /\ \A k \in 1..(Word + n) : b[k] = av[k]
  BY <1>1, <1>3, <1>5, <1>6
<1>8. b \in Seq(Nat)
  BY <1>5
<1> HIDE DEF b
<1>9. Word \in 1..(Word + n) /\ \A k \in 1..n : Word + k \in 1..(Word + n)
  BY <1>1
<1>10. /\ b \in Seq(Nat) /\ Len(b) = Word + n + p /\ Word + n <= Len(b)
       /\ b[Word] = n
       /\ \A k \in 1..n : b[Word + k] = v[k]
  BY <1>1, <1>6, <1>7, <1>8, <1>9
<1> QED BY <1>10 DEF BytesLen, n, p, b, av, a, zeros


\* A Vec's length, then its fields.
LEMMA NumberedFacts ==
  ASSUME NEW n \in Nat, NEW r \in Seq(Nat)
  PROVE  /\ Number(n) \o r \in Seq(Nat) /\ Len(Number(n) \o r) = Word + Len(r)
         /\ (Number(n) \o r)[Word] = n
         /\ \A k \in 1..Len(r) : (Number(n) \o r)[Word + k] = r[k]
<1> DEFINE a == Number(n)
<1>1. a \in Seq(Nat) /\ Len(a) = Word /\ a[Word] = n
  BY NumberFacts
<1> HIDE DEF a
<1>2. a \in Seq(Nat)
  BY <1>1
<1>3. /\ a \o r \in Seq(Nat) /\ Len(a \o r) = Len(a) + Len(r)
      /\ \A k \in 1..Len(a) : (a \o r)[k] = a[k]
      /\ \A k \in 1..Len(r) : (a \o r)[Len(a) + k] = r[k]
  BY <1>2, ConcatFacts
<1>4. Word \in 1..Len(a)
  BY <1>1, UsizeFacts
<1> QED BY <1>1, <1>3, <1>4 DEF a

\* Nothing in front changes nothing.
LEMMA EmptyConcat ==
  ASSUME NEW r \in Seq(Nat)
  PROVE  << >> \o r = r
OBVIOUS

\* encode_body_len is the number of bytes encode_body_to writes, for every type.
LEMMA AllMeasured == Types \subseteq Measured
<1>1. ASSUME NEW t \in Types, \A u \in Types : u.depth < t.depth => u \in Measured PROVE t \in Measured
  <2>1. Smaller(t) \subseteq Measured
    BY <1>1 DEF Smaller
  <2> SUFFICES ASSUME NEW v \in Values[t]
               PROVE  /\ EncodeBody[t][v] \in Seq(Nat) /\ BodyLen[t][v] = Len(EncodeBody[t][v])
                      /\ ~t.dynamic => BodyLen[t][v] = t.head
    BY DEF Measured
  <2>2. EncodeBody[t][v] = BodyOf(EncodeBody, t, v) /\ BodyLen[t][v] = LenOf(BodyLen, t, v)
    BY EncodeBodyUnfold, BodyLenUnfold
  <2>3. CASE t.kind = "static"
    <3>1. v \in Nat /\ t.head = Word
      BY <2>3, LeafValueFacts, HeadFacts
    <3>2. EncodeBody[t][v] = Number(v) /\ BodyLen[t][v] = Word
      BY <2>2, <2>3 DEF BodyOf, LenOf
    <3> QED BY <3>1, <3>2, NumberFacts
  <2>4. CASE t.kind = "bytes"
    <3>1. v \in Seq(Nat) /\ t.dynamic
      BY <2>4, LeafValueFacts, KindFacts
    <3>2. /\ EncodeBody[t][v] = Number(Len(v)) \o v \o [i \in 1..Padding(Len(v)) |-> 0]
          /\ BodyLen[t][v] = BytesLen(Len(v))
      BY <2>2, <2>4 DEF BodyOf, LenOf
    <3> QED BY <3>1, <3>2, BytesBody
  <2>5. CASE t.kind \in {"vec"} \union Composites
    <3> DEFINE ts == Fields(t, Len(v))
               lens == Lens(t, v)
               bodies == Bodies(t, v)
               r == EncodeFields(ts, lens, bodies)
    <3>1. Fit(ts, lens, bodies)
      BY <2>1, <2>5, PartsFit
    <3>2. r \in Seq(Nat) /\ Len(r) = FieldsLen(ts, lens)
      BY <3>1, EncodeFieldsFacts DEF Laid
    <3>3. Len(v) \in Nat /\ (t.kind \in Composites => ts = Fields(t, t.n))
      BY <2>5, ListFacts
    <3>4. t.kind \notin {"static", "bytes"}
      BY <2>5 DEF Composites
    <3>5. /\ EncodeBody[t][v] = (IF t.kind = "vec" THEN Number(Len(v)) ELSE <<>>) \o r
          /\ BodyLen[t][v] = (IF t.kind = "vec" THEN Word ELSE 0) + FieldsLen(ts, lens)
      BY <2>2, <3>4 DEF BodyOf, LenOf, Lens, Bodies
    <3>6. ts \in Seq(Types) /\ Len(ts) \in Nat /\ DOMAIN ts = 1..Len(ts) /\ (~t.dynamic => \A i \in DOMAIN ts : ~ts[i].dynamic)
      BY <2>5, <3>3, FieldsFacts
    <3> HIDE DEF ts, lens, bodies, r
    <3>7. CASE t.kind = "vec"
      <4>1. Number(Len(v)) \o r \in Seq(Nat) /\ Len(Number(Len(v)) \o r) = Word + Len(r)
        BY <3>2, <3>3, NumberedFacts
      <4>2. t.dynamic
        BY <3>7, KindFacts
      <4> QED BY <3>2, <3>5, <3>7, <4>1, <4>2
    <3>8. CASE t.kind # "vec"
      <4>1. << >> \o r = r /\ Len(r) \in Nat
        BY <3>2, EmptyConcat
      <4>2. EncodeBody[t][v] = r /\ BodyLen[t][v] = Len(r)
        BY <3>2, <3>5, <3>8, <4>1
      <4>3. ASSUME ~t.dynamic PROVE FieldsLen(ts, lens) = t.head
        <5>1. FieldsLen(ts, lens) = HeadOffset(ts, Len(ts) + 1)
          BY <3>1, <3>6, <4>3, StaticFieldsLen
        <5>2. t.kind \in Composites /\ ts = Fields(t, t.n)
          BY <2>5, <3>3, <3>8
        <5>3. t.head = HeadOffset(ts, Len(ts) + 1)
          BY <5>2, HeadFacts
        <5> QED BY <5>1, <5>3
      <4> QED BY <3>2, <4>2, <4>3
    <3> QED BY <3>7, <3>8
  <2> QED BY <2>3, <2>4, <2>5, TypeFacts
<1> QED BY <1>1, TypesByDepth

\* The same of encode_to, whose pointer is in front.
LEMMA EncodeToFacts ==
  ASSUME NEW t \in Types, NEW v \in Values[t]
  PROVE  /\ EncodeTo(t, v) \in Seq(Nat)
         /\ EncodeTo(t, v) = IF t.kind = "tuple" \/ ~t.dynamic THEN EncodeBody[t][v]
                             ELSE Number(Word) \o EncodeBody[t][v]
<1>1. EncodeBody[t][v] \in Seq(Nat)
  BY AllMeasured DEF Measured
<1>2. Number(Word) \o EncodeBody[t][v] \in Seq(Nat)
  BY <1>1, UsizeFacts, NumberedFacts
<1> QED BY <1>1, <1>2 DEF EncodeTo


-----------------------------------------------------------------------------
(* What arrives                                                            *)

\* What the assumption on Messages says of one message.
LEMMA MessageFacts ==
  ASSUME NEW m \in Messages
  PROVE  /\ m.types \in Seq(Types) /\ MessageType(m) \in Types
         /\ m.to = "method" => MessageType(m) = Tuple(m.types)
         /\ m.to # "method" => m.to = "caller" /\ Len(m.types) = 1 /\ MessageType(m) = m.types[1]
BY TypesAssumption DEF MessageType

\* What is sent fits the address space with the heads of any type behind it.
LEMMA SentHasRoom ==
  ASSUME NEW m \in Messages, NEW v \in Values[MessageType(m)]
  PROVE  Room(EncodeTo(MessageType(m), v))
<1> DEFINE in == EncodeTo(MessageType(m), v)
<1>1. in \in Seq(Nat)
  BY MessageFacts, EncodeToFacts
<1>2. \A t \in Types : Len(in) + t.head < Usize
  BY MemoryAssumption
<1>3. MessageType(m) \in Types
  BY MessageFacts
<1> HIDE DEF in
<1>4. Len(in) <= Usize
  <2> DEFINE h == MessageType(m).head
  <2>1. h \in Nat /\ Len(in) + h < Usize
    BY <1>2, <1>3, TypeFacts
  <2> HIDE DEF h
  <2> QED BY <1>1, <2>1, UsizeFacts
<1> QED BY <1>1, <1>2, <1>4 DEF Room, Input, in

Written(s, p, x) == [s EXCEPT ![p] = x]

\* A word written over keeps the length.
LEMMA WriteFacts ==
  ASSUME NEW S, NEW s \in Seq(S), NEW p, NEW x \in S
  PROVE  Written(s, p, x) \in Seq(S) /\ Len(Written(s, p, x)) = Len(s)
<1> DEFINE w == [s EXCEPT ![p] = x]
           n == Len(s)
<1>1. n \in Nat /\ DOMAIN s = 1..n /\ \A k \in 1..n : s[k] \in S
  OBVIOUS
<1>2. DOMAIN w = 1..n /\ w = [k \in 1..n |-> w[k]] /\ \A k \in 1..n : w[k] \in S
  BY <1>1
<1> HIDE DEF w, n
<1>3. w \in Seq(S)
  BY <1>1, <1>2
<1>4. Len(w) = n
  BY <1>1, <1>2, <1>3
<1> QED BY <1>3, <1>4 DEF w, n, Written

\* Damage writes numbers and cuts.
LEMMA DamageKeepsRoom ==
  ASSUME Room(input), Damage
  PROVE  Room(input')
<1>1. input \in Seq(Nat) /\ Len(input) <= Usize /\ Len(input) \in Nat
  BY DEF Room, Input
<1>2. input' \in Seq(Nat) /\ Len(input') <= Len(input)
  <2>1. CASE \E k \in 0..(Len(input) - 1) : input' = SubSeq(input, 1, k)
    <3>1. PICK k \in 0..(Len(input) - 1) : input' = SubSeq(input, 1, k)
      BY <2>1
    <3>2. SubSeq(input, 1, k) \in Seq(Nat) /\ Len(SubSeq(input, 1, k)) = k
      BY <1>1
    <3> QED BY <1>1, <3>1, <3>2
  <2>2. CASE \E w \in 1..(Len(input) \div Word), n \in Forged : input' = [input EXCEPT ![w * Word] = n]
    <3>1. PICK w \in 1..(Len(input) \div Word), n \in Forged : input' = [input EXCEPT ![w * Word] = n]
      BY <2>2
    <3>2. n \in Nat
      BY AbiAssumption
    <3>3. input' = Written(input, w * Word, n)
      BY <3>1 DEF Written
    <3>4. \A p : Written(input, p, n) \in Seq(Nat) /\ Len(Written(input, p, n)) = Len(input)
      BY <1>1, <3>2, WriteFacts
    <3> QED BY <1>1, <3>3, <3>4
  <2> QED BY <2>1, <2>2 DEF Damage
<1>3. \A t \in Types : Len(input) + t.head < Usize /\ t.head \in Nat
  BY TypeFacts DEF Room
<1>4. \A t \in Types : Len(input') + t.head < Usize
  BY <1>1, <1>2, <1>3, UsizeFacts
<1> QED BY <1>1, <1>2, <1>4, UsizeFacts DEF Room, Input

\* The invariant: what is sent is a value of its type, what arrives is at most
\* as long as what was sent and is that while nothing damaged it, and the size
\* check was passed before a parameter is read.
Arrives ==
  /\ message \in Messages /\ sent \in Values[MessageType(message)]
  /\ Room(input)
  /\ damage \in Nat
  /\ damage = 0 => input = EncodeTo(MessageType(message), sent)
  /\ \E S : got \in Seq(S)
  /\ pc = "decode" => message.to = "method" /\ MinInputSize(message.types) <= Len(input)
  /\ pc # "strayed"

\* A message that just arrived satisfies it.
LEMMA ArrivesInit == Init => Arrives
<1> SUFFICES ASSUME Init PROVE Arrives
  OBVIOUS
<1>1. Room(input)
  BY SentHasRoom DEF Init
<1>2. got \in Seq({})
  BY DEF Init
<1> QED BY <1>1, <1>2 DEF Init, Arrives

\* A result that did not stray is taken: a value is one more of got.
LEMMA TakesFacts ==
  ASSUME NEW r, NEW then, r # Strayed, then # "strayed", Takes(r, then), \E S : got \in Seq(S)
  PROVE  /\ \E S : got' \in Seq(S)
         /\ pc' \in {"refused", then} /\ pc' # "strayed"
<1>1. PICK S : got \in Seq(S)
  OBVIOUS
<1>2. got' \in Seq(S \union {r[1]})
  <2>1. got \in Seq(S \union {r[1]})
    <3>1. /\ Len(got) \in Nat /\ got = [i \in 1..Len(got) |-> got[i]]
          /\ \A i \in 1..Len(got) : got[i] \in S \union {r[1]}
      BY <1>1
    <3> QED BY <3>1
  <2>2. Append(got, r[1]) \in Seq(S \union {r[1]})
    BY <2>1
  <2> QED BY <2>1, <2>2 DEF Takes
<1> QED BY <1>2 DEF Takes

\* Damage, the size check and the decoders keep it.
LEMMA ArrivesNext == Arrives /\ [Next]_vars => Arrives'
<1> SUFFICES ASSUME Arrives, [Next]_vars PROVE Arrives'
  OBVIOUS
<1>1. CASE Damage
  <2>1. Room(input')
    BY <1>1, DamageKeepsRoom DEF Arrives
  <2>2. damage' \in Nat /\ damage' # 0 /\ UNCHANGED <<message, sent, pc, got>>
    BY <1>1 DEF Damage, Arrives
  <2>3. pc' = "arrived"
    BY <1>1, <2>2 DEF Damage
  <2> QED BY <2>1, <2>2, <2>3 DEF Arrives
<1>2. CASE SizeCheck
  <2>1. /\ UNCHANGED <<message, sent, input, damage, got>> /\ message.to = "method"
        /\ pc' = IF Len(input) < MinInputSize(message.types) THEN "refused" ELSE "decode"
    BY <1>2 DEF SizeCheck
  <2>2. pc' = "decode" => MinInputSize(message.types) <= Len(input)
    <3>1. Len(input) \in Nat
      BY DEF Arrives, Room, Input
    <3>2. MinInputSize(message.types) \in Nat
      <4> DEFINE ts == message.types
      <4>1. ts \in Seq(Types)
        BY MessageFacts DEF Arrives
      <4> HIDE DEF ts
      <4>2. Len(ts) + 1 \in 1..(Len(ts) + 1)
        BY <4>1
      <4>3. MinInputSize(ts) \in Nat
        BY <4>1, <4>2, OffsetFacts DEF MinInputSize
      <4> QED BY <4>3 DEF ts
    <3> QED BY <2>1, <3>1, <3>2
  <2>3. pc' # "strayed"
    BY <2>1
  <2> QED BY <2>1, <2>2, <2>3 DEF Arrives
<1>3. CASE DecodeParam
  <2> DEFINE ts == message.types
             i == Len(got) + 1
             r == Param(ts[i], input, HeadOffset(ts, i))
  <2>1. /\ UNCHANGED <<message, sent, input, damage>> /\ pc = "decode" /\ Len(got) < Len(ts)
        /\ Takes(r, "decode")
    BY <1>3 DEF DecodeParam
  <2>2. ts \in Seq(Types) /\ Room(input) /\ MinInputSize(ts) <= Len(input) /\ \E S : got \in Seq(S)
    BY <2>1, MessageFacts DEF Arrives
  <2>3. i \in 1..Len(ts)
    <3>1. Len(got) \in Nat /\ Len(ts) \in Nat
      BY <2>2
    <3> QED BY <2>1, <3>1
  <2>4. r # Strayed
    <3> HIDE DEF ts, i
    <3> QED BY <2>2, <2>3, ParamStays
  <2> HIDE DEF r
  <2>5. (\E S : got' \in Seq(S)) /\ pc' \in {"refused", "decode"}
    BY <2>1, <2>2, <2>4, TakesFacts
  <2> QED BY <2>1, <2>5 DEF Arrives
<1>4. CASE DecodeOutput
  <2> DEFINE r == Decode(MessageType(message), input)
  <2>1. UNCHANGED <<message, sent, input, damage>> /\ Takes(r, "decoded")
    BY <1>4 DEF DecodeOutput
  <2>2. r # Strayed
    BY MessageFacts, DecodeStays DEF Arrives
  <2> HIDE DEF r
  <2>3. (\E S : got' \in Seq(S)) /\ pc' \in {"refused", "decoded"}
    BY <2>1, <2>2, TakesFacts DEF Arrives
  <2> QED BY <2>1, <2>3 DEF Arrives
<1>5. CASE UNCHANGED vars
  BY <1>5 DEF vars, Arrives
<1> QED BY <1>1, <1>2, <1>3, <1>4, <1>5 DEF Next

\* In every reachable state the input has room, is what was sent unless damaged,
\* has its static heads once the size check passed, and no decoder of the
\* parameters or the output strayed (generate_param_decoding, extract_output).
THEOREM CodecInvariant == Spec => []Arrives
<1> QED BY ArrivesInit, ArrivesNext, PTL DEF Spec

\* Whatever arrives, no value is decoded from a byte its type did not ask for:
\* the parameters read without checks by generate_decode_params, and every sum
\* of offsets in the decoders of types/lib.rs and alloc_types.rs.
THEOREM NothingStrays == Spec => []NoStrayRead
<1>1. Arrives => NoStrayRead
  BY DEF Arrives, NoStrayRead
<1> QED BY <1>1, CodecInvariant, PTL

-----------------------------------------------------------------------------
(* The ABI's encoding                                                      *)

\* Lists that agree at every place are the same.
LEMMA SameList ==
  ASSUME NEW S, NEW a \in Seq(S), NEW b \in Seq(S), Len(a) = Len(b), \A k \in 1..Len(a) : a[k] = b[k]
  PROVE  a = b
<1>1. Len(a) \in Nat /\ DOMAIN a = 1..Len(a) /\ DOMAIN b = 1..Len(a)
  OBVIOUS
<1>2. a = [k \in 1..Len(a) |-> a[k]] /\ b = [k \in 1..Len(a) |-> b[k]]
  OBVIOUS
<1> QED BY <1>2

\* The tails before a field are as long as its pointer says.
LEMMA BeforeFacts ==
  ASSUME NEW ts, NEW lens, NEW bodies, Fit(ts, lens, bodies), NEW i \in 1..Len(ts)
  PROVE  Len(FlattenSeq(SubSeq(TailsOf(ts, bodies), 1, i - 1))) = TailsLen(ts, lens, i - 1)
<1> DEFINE n == Len(ts)
           tails == TailsOf(ts, bodies)
           some == SubSeq(tails, 1, i - 1)
<1>1. n \in Nat /\ tails \in [1..n -> Seq(Nat)] /\ i - 1 \in 0..n /\ i - 1 \in Nat
  BY TailsFacts
<1>2. TailsLen(ts, lens, i - 1) = Sum(Lengths(tails), i - 1)
  BY <1>1, TailsFacts
<1> HIDE DEF tails
<1>3. some = [k \in 1..(i - 1) |-> tails[k]]
  <2>1. tails \in Seq(Seq(Nat)) /\ Len(tails) = n
    BY <1>1
  <2> QED BY <1>1, <2>1
<1>4. \A k \in 1..(i - 1) : tails[k] \in Seq(Nat)
  BY <1>1
<1> HIDE DEF some
<1>5. some \in [1..(i - 1) -> Seq(Nat)]
  BY <1>3, <1>4
<1>6. InARow(Nat, some, i - 1, FlattenSeq(some))
  BY <1>1, <1>5, FlattenFacts, Zenon
<1>7. Sum(Lengths(some), i - 1) = Sum(Lengths(tails), i - 1)
  <2>1. DOMAIN tails = 1..n /\ DOMAIN some = 1..(i - 1) /\ \A k \in 1..(i - 1) : k \in 1..n /\ some[k] = tails[k]
    BY <1>1, <1>3
  <2>2. \A k \in 1..(i - 1) : Lengths(some)[k] = Lengths(tails)[k]
    BY <2>1 DEF Lengths
  <2> QED BY <2>2, SumSame
<1> QED BY <1>2, <1>6, <1>7 DEF InARow, some, tails

\* Pointers computed from lengths are pointers computed from bytes.
LEMMA EncAllSame ==
  ASSUME NEW ts, NEW lens, NEW bodies, Fit(ts, lens, bodies)
  PROVE  EncAll(ts, bodies) = EncodeFields(ts, lens, bodies)
<1> DEFINE n == Len(ts)
           tails == TailsOf(ts, bodies)
           total == Total([i \in DOMAIN ts |-> IF ts[i].dynamic THEN Word ELSE Len(bodies[i])])
           head(i) == IF ts[i].dynamic THEN Number(total + Len(FlattenSeq(SubSeq(tails, 1, i - 1)))) ELSE bodies[i]
<1>1. n \in Nat /\ DOMAIN ts = 1..n /\ n \in 0..n /\ ts \in Seq(Types)
  BY TailsFacts DEF Fit
<1>2. total = HeadOffset(ts, n + 1)
  <2>1. \A i \in 1..n : (IF ts[i].dynamic THEN Word ELSE Len(bodies[i])) = Slots(ts)[i]
    BY <1>1 DEF Fit, Slots, SlotSize
  <2>2. [i \in 1..n |-> IF ts[i].dynamic THEN Word ELSE Len(bodies[i])] = [i \in 1..n |-> Slots(ts)[i]]
    BY <2>1
  <2>3. total = Sum(Slots(ts), n)
    BY <1>1, <2>2 DEF Sum
  <2>4. n + 1 \in 1..(n + 1) /\ (n + 1) - 1 = n
    BY <1>1
  <2> QED BY <1>1, <2>3, <2>4, OffsetFacts
<1>3. ASSUME NEW i \in 1..n PROVE head(i) = HeadsOf(ts, lens, bodies)[i]
  <2>1. HeadsOf(ts, lens, bodies)[i] = IF ts[i].dynamic THEN Number(Pointer(ts, lens, i)) ELSE bodies[i]
    BY <1>1 DEF HeadsOf
  <2>2. total + Len(FlattenSeq(SubSeq(tails, 1, i - 1))) = Pointer(ts, lens, i)
    BY <1>2, BeforeFacts DEF Pointer
  <2> HIDE DEF total, tails
  <2> QED BY <2>1, <2>2
<1>4. EncAll(ts, bodies) = FlattenSeq([i \in DOMAIN ts |-> head(i)]) \o FlattenSeq(tails)
  BY DEF EncAll, TailsOf
<1>5. [i \in DOMAIN ts |-> head(i)] = HeadsOf(ts, lens, bodies)
  <2>1. HeadsOf(ts, lens, bodies) = [i \in 1..n |-> HeadsOf(ts, lens, bodies)[i]]
    BY <1>1 DEF HeadsOf
  <2> HIDE DEF total, tails, head
  <2> QED BY <1>1, <1>3, <2>1
<1>6. EncodeFields(ts, lens, bodies) = FlattenSeq(HeadsOf(ts, lens, bodies)) \o FlattenSeq(tails)
  BY DEF EncodeFields, HeadsOf, TailsOf, Pointer
<1> QED BY <1>4, <1>5, <1>6

\* A number of words that holds len bytes, by division and by padding.
LEMMA WordsFor ==
  ASSUME NEW len \in Nat
  PROVE  ((len + Word - 1) \div Word) * Word = len + Padding(len)
<1> DEFINE q == len \div Word
           r == len % Word
           a == len + Word - 1
           p == a \div Word
           s == a % Word
<1>1. Word \in Nat \ {0} /\ Word >= 2
  BY UsizeFacts
<1>2. q \in Nat /\ r \in 0..(Word - 1) /\ q * Word + r = len
  BY <1>1
<1>3. a \in Nat
  BY <1>1
<1> HIDE DEF a
<1>4. p \in Nat /\ s \in 0..(Word - 1) /\ p * Word + s = a
  BY <1>1, <1>3
<1>5. Padding(len) = (Word - r) % Word
  BY DEF Padding
<1> HIDE DEF q, r, p, s
<1>6. a = q * Word + r + Word - 1 /\ q * Word \in Nat /\ p * Word \in Nat
  BY <1>1, <1>2, <1>4 DEF a
<1>7. (q + 1) * Word = q * Word + Word
  BY <1>1, <1>2
<1>8. CASE r = 0
  <2>1. Padding(len) = 0
    BY <1>1, <1>5, <1>8
  <2>2. p = q
    <3>1. CASE p < q
      <4>1. (p + 1) * Word <= q * Word /\ (p + 1) * Word = p * Word + Word
        BY <1>1, <1>2, <1>4, <3>1
      <4> QED BY <1>1, <1>4, <1>6, <1>8, <4>1
    <3>2. CASE p > q
      <4>1. (q + 1) * Word <= p * Word
        BY <1>1, <1>2, <1>4, <3>2
      <4> QED BY <1>1, <1>4, <1>6, <1>7, <1>8, <4>1
    <3> QED BY <1>2, <1>4, <3>1, <3>2
  <2>3. q * Word = len
    BY <1>2, <1>6, <1>8
  <2>4. p * Word = len
    BY <2>2, <2>3
  <2> QED BY <2>1, <2>4 DEF p, a
<1>9. CASE r # 0
  <2>1. Padding(len) = Word - r
    <3> DEFINE m == Word - r
    <3>1. m \in 0..(Word - 1)
      BY <1>1, <1>2, <1>9
    <3> HIDE DEF m
    <3>2. m % Word = m
      BY <1>1, <3>1
    <3> QED BY <1>5, <3>2 DEF m
  <2>2. p = q + 1
    <3>1. CASE p < q + 1
      <4>1. p * Word <= q * Word
        BY <1>1, <1>2, <1>4, <3>1
      <4> QED BY <1>1, <1>2, <1>4, <1>6, <1>9, <4>1
    <3>2. CASE p > q + 1
      <4>1. (q + 1 + 1) * Word <= p * Word /\ (q + 1 + 1) * Word = q * Word + Word + Word
        BY <1>1, <1>2, <1>4, <3>2
      <4> QED BY <1>1, <1>2, <1>4, <1>6, <4>1
    <3> QED BY <1>2, <1>4, <3>1, <3>2
  <2> QED BY <1>1, <1>2, <1>7, <2>1, <2>2 DEF p, a
<1> QED BY <1>8, <1>9


\* Rounding a length up to words is adding the padding, on the bytes too.
LEMMA BytesPadded ==
  ASSUME NEW v \in Seq(Nat)
  PROVE  Number(Len(v)) \o [i \in 1..(((Len(v) + Word - 1) \div Word) * Word) |-> IF i <= Len(v) THEN v[i] ELSE 0]
           = Number(Len(v)) \o v \o [i \in 1..Padding(Len(v)) |-> 0]
<1> DEFINE n == Len(v)
           p == Padding(n)
           zeros == [i \in 1..p |-> 0]
           whole == [i \in 1..(n + p) |-> IF i <= n THEN v[i] ELSE 0]
           a == Number(n)
<1>1. n \in Nat /\ p \in Nat /\ ((n + Word - 1) \div Word) * Word = n + p
  BY PaddingFacts, WordsFor
<1>2. a \in Seq(Nat)
  BY <1>1, NumberFacts
<1> HIDE DEF p
<1>3. zeros \in Seq(Nat) /\ DOMAIN zeros = 1..p /\ \A k \in 1..p : zeros[k] = 0
  BY <1>1
<1>4. \A k \in 1..n : v[k] \in Nat
  OBVIOUS
<1>5. whole \in Seq(Nat) /\ DOMAIN whole = 1..(n + p)
      /\ \A k \in 1..(n + p) : whole[k] = IF k <= n THEN v[k] ELSE 0
  BY <1>1, <1>4
<1> HIDE DEF zeros, whole, a
<1>6. Len(zeros) = p /\ Len(whole) = n + p
  BY <1>1, <1>3, <1>5
<1>7. /\ v \o zeros \in Seq(Nat) /\ Len(v \o zeros) = Len(v) + Len(zeros)
      /\ \A k \in 1..Len(v) : (v \o zeros)[k] = v[k]
      /\ \A k \in 1..Len(zeros) : (v \o zeros)[Len(v) + k] = zeros[k]
  BY <1>3, ConcatFacts
<1>8. ASSUME NEW k \in 1..(n + p) PROVE (v \o zeros)[k] = whole[k]
  <2>1. CASE k <= n
    <3>1. k \in 1..n
      BY <1>1, <2>1
    <3> QED BY <1>5, <1>7, <3>1
  <2>2. CASE ~(k <= n)
    <3>1. k - n \in 1..p /\ n + (k - n) = k
      BY <1>1, <2>2
    <3>2. (v \o zeros)[n + (k - n)] = zeros[k - n]
      BY <1>6, <1>7, <3>1
    <3> QED BY <1>3, <1>5, <2>2, <3>1, <3>2
  <2> QED BY <2>1, <2>2
<1>9. v \o zeros = whole
  <2> DEFINE b == v \o zeros
  <2>1. b \in Seq(Nat) /\ Len(b) = n + p /\ \A k \in 1..(n + p) : b[k] = whole[k]
    BY <1>6, <1>7, <1>8
  <2> HIDE DEF b, n
  <2>2. Len(b) = Len(whole) /\ \A k \in 1..Len(b) : b[k] = whole[k]
    BY <1>6, <2>1
  <2>3. b = whole
    BY <1>5, <2>1, <2>2, SameList, Zenon
  <2> QED BY <2>3 DEF b
<1>10. a \o v \o zeros = a \o (v \o zeros)
  BY <1>2, <1>3
<1>11. a \o v \o zeros = a \o whole
  BY <1>9, <1>10
<1> QED BY <1>1, <1>11 DEF a, zeros, whole, p

\* What encode_body_to writes is the ABI's encoding, for every type and value.
LEMMA EncIsEncodeBody ==
  ASSUME NEW t \in Types, NEW v \in Values[t]
  PROVE  Enc[t][v] = EncodeBody[t][v]
<1> DEFINE G == {u \in Types : \A w \in Values[u] : Enc[u][w] = EncodeBody[u][w]}
<1>1. ASSUME NEW u \in Types, \A x \in Types : x.depth < u.depth => x \in G PROVE u \in G
  <2> SUFFICES ASSUME NEW w \in Values[u] PROVE EncOf(Enc, u, w) = BodyOf(EncodeBody, u, w)
    BY EncUnfold, EncodeBodyUnfold
  <2>1. CASE u.kind = "static"
    BY <2>1 DEF EncOf, BodyOf
  <2>2. CASE u.kind = "bytes"
    <3>1. w \in Seq(Nat)
      BY <2>2, LeafValueFacts
    <3>2. EncOf(Enc, u, w) = Number(Len(w)) \o [i \in 1..(((Len(w) + Word - 1) \div Word) * Word) |->
                                                  IF i <= Len(w) THEN w[i] ELSE 0]
      BY <2>2 DEF EncOf
    <3>3. BodyOf(EncodeBody, u, w) = Number(Len(w)) \o w \o [i \in 1..Padding(Len(w)) |-> 0]
      BY <2>2 DEF BodyOf
    <3> QED BY <3>1, <3>2, <3>3, BytesPadded
  <2>3. CASE u.kind \in {"vec"} \union Composites
    <3> DEFINE ts == Fields(u, Len(w))
    <3>1. Fit(ts, Lens(u, w), Bodies(u, w))
      <4>1. Smaller(u) \subseteq Measured
        BY AllMeasured DEF Smaller
      <4> QED BY <2>3, <4>1, PartsFit
    <3>2. PartWise(Enc, ts, w) = Bodies(u, w)
      <4>1. Len(w) \in Nat /\ \A i \in DOMAIN ts : w[i] \in Values[ts[i]]
        BY <2>3, ListFacts
      <4>2. \A i \in DOMAIN ts : ts[i] \in G
        BY <1>1, <2>3, <4>1, FieldsFacts
      <4> HIDE DEF ts
      <4>3. \A i \in DOMAIN ts : Enc[ts[i]][w[i]] = EncodeBody[ts[i]][w[i]]
        BY <4>1, <4>2
      <4>4. [i \in DOMAIN ts |-> Enc[ts[i]][w[i]]] = [i \in DOMAIN ts |-> EncodeBody[ts[i]][w[i]]]
        BY <4>3
      <4> QED BY <4>4 DEF PartWise, Bodies, ts
    <3>3. EncAll(ts, Bodies(u, w)) = EncodeFields(ts, Lens(u, w), Bodies(u, w))
      BY <3>1, EncAllSame
    <3>4. u.kind \notin {"static", "bytes"}
      BY <2>3 DEF Composites
    <3>5. EncOf(Enc, u, w) = (IF u.kind = "vec" THEN Number(Len(w)) ELSE << >>) \o EncAll(ts, Bodies(u, w))
      BY <3>2, <3>4 DEF EncOf
    <3>6. BodyOf(EncodeBody, u, w) =
            (IF u.kind = "vec" THEN Number(Len(w)) ELSE << >>) \o EncodeFields(ts, Lens(u, w), Bodies(u, w))
      BY <3>4 DEF BodyOf, Lens, Bodies
    <3> QED BY <3>3, <3>5, <3>6
  <2> QED BY <2>1, <2>2, <2>3, TypeFacts
<1> HIDE DEF G
<1>2. t \in G
  BY <1>1, TypesByDepth
<1> QED BY <1>2 DEF G

\* One list flattened is that list.
LEMMA FlattenOne ==
  ASSUME NEW s \in Seq(Nat)
  PROVE  FlattenSeq(<<s>>) = s
<1> DEFINE ss == <<s>>
           r == FlattenSeq(ss)
<1>1. ss \in [1..1 -> Seq(Nat)] /\ ss[1] = s /\ 1 \in Nat /\ 1 \in 1..1
  OBVIOUS
<1> HIDE DEF ss
<1>2. InARow(Nat, ss, 1, r)
  BY <1>1, FlattenFacts, Zenon
<1>3. Sum(Lengths(ss), 0) = 0 /\ Sum(Lengths(ss), 1) = Sum(Lengths(ss), 1 - 1) + Len(ss[1])
  BY <1>1, LengthsFacts, Zenon
<1>4. Len(s) \in Nat /\ 1 - 1 = 0
  OBVIOUS
<1>5. r \in Seq(Nat) /\ Len(r) = Len(s) /\ \A k \in 1..Len(s) : r[0 + k] = s[k]
  <2> HIDE DEF r
  <2>1. r \in Seq(Nat) /\ Len(r) = Sum(Lengths(ss), 1)
    BY <1>2 DEF InARow
  <2>2. \A k \in 1..Len(ss[1]) : r[Sum(Lengths(ss), 1 - 1) + k] = ss[1][k]
    BY <1>1, <1>2, Zenon DEF InARow
  <2> DEFINE p == Sum(Lengths(ss), 1 - 1)
             q == Sum(Lengths(ss), 1)
  <2>3. 1 - 1 = 0
    OBVIOUS
  <2>4. p = 0
    BY <1>3, <2>3
  <2>5. q = p + Len(ss[1])
    BY <1>3
  <2>6. r \in Seq(Nat) /\ Len(r) = q /\ \A k \in 1..Len(ss[1]) : r[p + k] = ss[1][k]
    BY <2>1, <2>2
  <2> HIDE DEF p, q
  <2> QED BY <1>1, <1>4, <2>4, <2>5, <2>6
<1>6. \A k \in 1..Len(s) : 0 + k = k
  BY <1>4
<1>7. \A k \in 1..Len(r) : r[k] = s[k]
  BY <1>5, <1>6
<1> HIDE DEF r
<1>8. r = s
  BY <1>5, <1>7, SameList, Zenon
<1> QED BY <1>8 DEF r, ss


\* A list of one: the value itself, or a pointer to it.
LEMMA EncodeOne ==
  ASSUME NEW t \in Types, NEW v \in Values[t]
  PROVE  LET b == EncodeBody[t][v] IN
         EncAll(<<t>>, <<b>>) = IF t.dynamic THEN Number(Word) \o b ELSE b
<1> DEFINE b == EncodeBody[t][v]
           ts == <<t>>
           lens == <<Len(b)>>
           bodies == <<b>>
<1>1. b \in Seq(Nat) /\ (~t.dynamic => Len(b) = t.head)
  BY AllMeasured DEF Measured
<1> HIDE DEF b
<1>2. /\ ts \in Seq(Types) /\ Len(ts) = 1 /\ DOMAIN ts = 1..1 /\ ts[1] = t
      /\ lens[1] = Len(b) /\ bodies[1] = b /\ bodies \in [1..1 -> Seq(Nat)]
  BY <1>1
<1> HIDE DEF ts, lens, bodies
<1>3. \A i \in 1..1 : i = 1
  OBVIOUS
<1>4. Fit(ts, lens, bodies)
  BY <1>1, <1>2, <1>3 DEF Fit
<1>5. EncAll(ts, bodies) = FlattenSeq(HeadsOf(ts, lens, bodies)) \o FlattenSeq(TailsOf(ts, bodies))
  <2>1. EncAll(ts, bodies) = EncodeFields(ts, lens, bodies)
    BY <1>4, EncAllSame
  <2> QED BY <2>1 DEF EncodeFields, HeadsOf, TailsOf, Pointer
<1>6. Word \in Nat /\ Number(Word) \in Seq(Nat)
  BY UsizeFacts, NumberFacts
<1>7. Pointer(ts, lens, 1) = SlotSize(t)
  <2>1. HeadOffset(ts, 1) = 0 /\ HeadOffset(ts, 1 + 1) = HeadOffset(ts, 1) + SlotSize(ts[1])
    <3>1. 1 \in 1..Len(ts)
      BY <1>2
    <3> QED BY <1>2, <3>1, OffsetFacts
  <2>2. TailsLen(ts, lens, 1 - 1) = 0
    <3>1. 0 \in 0..Len(ts) /\ 1 - 1 = 0
      BY <1>2
    <3>2. TailsLen(ts, lens, 0) = Sum(Lengths(TailsOf(ts, bodies)), 0)
      BY <1>4, <3>1, TailsFacts
    <3>3. Sum(Lengths(TailsOf(ts, bodies)), 0) = 0
      <4>1. TailsOf(ts, bodies) \in [1..1 -> Seq(Nat)] /\ 1 \in Nat
        BY <1>2, <1>4, TailsFacts
      <4> QED BY <4>1, LengthsFacts, Zenon
    <3> QED BY <3>1, <3>2, <3>3
  <2>3. SlotSize(t) \in Nat
    BY SlotFacts
  <2> QED BY <1>2, <2>1, <2>2, <2>3 DEF Pointer
<1>8. FlattenSeq(<<b>>) = b
  BY <1>1, FlattenOne
<1>9. FlattenSeq(<<Number(Word)>>) = Number(Word)
  BY <1>6, FlattenOne
<1>10. CASE t.dynamic
  <2>1. HeadsOf(ts, lens, bodies) = <<Number(Word)>>
    <3>1. HeadsOf(ts, lens, bodies) = [i \in 1..1 |-> Number(Pointer(ts, lens, i))]
      BY <1>2, <1>3, <1>10 DEF HeadsOf
    <3>2. Pointer(ts, lens, 1) = Word
      BY <1>7, <1>10 DEF SlotSize
    <3>3. [i \in 1..1 |-> Number(Pointer(ts, lens, i))] = [i \in 1..1 |-> Number(Word)]
      BY <1>3, <3>2
    <3>4. <<Number(Word)>> = [i \in 1..1 |-> Number(Word)]
      OBVIOUS
    <3> QED BY <3>1, <3>3, <3>4
  <2>2. TailsOf(ts, bodies) = <<b>>
    <3>1. TailsOf(ts, bodies) = [i \in 1..1 |-> b]
      BY <1>2, <1>3, <1>10 DEF TailsOf
    <3> QED BY <3>1
  <2> QED BY <1>5, <1>8, <1>9, <1>10, <2>1, <2>2 DEF ts, bodies, b
<1>11. CASE ~t.dynamic
  <2>1. HeadsOf(ts, lens, bodies) = <<b>>
    <3>1. HeadsOf(ts, lens, bodies) = [i \in 1..1 |-> b]
      BY <1>2, <1>3, <1>11 DEF HeadsOf
    <3> QED BY <3>1
  <2>2. TailsOf(ts, bodies) = << << >> >>
    <3>1. TailsOf(ts, bodies) = [i \in 1..1 |-> << >>]
      BY <1>2, <1>3, <1>11 DEF TailsOf
    <3> QED BY <3>1
  <2>3. FlattenSeq(<< << >> >>) = << >>
    <3> DEFINE e == << >>
    <3>1. e \in Seq(Nat)
      OBVIOUS
    <3> HIDE DEF e
    <3>2. FlattenSeq(<<e>>) = e
      BY <3>1, FlattenOne
    <3> QED BY <3>2 DEF e
  <2>4. b \o << >> = b
    BY <1>1
  <2> QED BY <1>5, <1>8, <1>11, <2>1, <2>2, <2>3, <2>4 DEF ts, bodies, b
<1> QED BY <1>10, <1>11

\* What is sent is the ABI's encoding of the arguments or of the output
\* (SolEncode::encode_to and encode_body_to of types/lib.rs and alloc_types.rs).
THEOREM SentIsStandard == Spec => []EncodingIsStandard
<1>1. Arrives => EncodingIsStandard
  <2> SUFFICES ASSUME Arrives, damage = 0
               PROVE  LET t == MessageType(message) IN
                      input = IF t.kind = "tuple" THEN Enc[t][sent] ELSE EncAll(<<t>>, <<Enc[t][sent]>>)
    BY DEF EncodingIsStandard
  <2> DEFINE t == MessageType(message)
  <2>1. t \in Types /\ sent \in Values[t] /\ input = EncodeTo(t, sent)
    BY MessageFacts DEF Arrives
  <2> HIDE DEF t
  <2>2. Enc[t][sent] = EncodeBody[t][sent]
    BY <2>1, EncIsEncodeBody
  <2>3. EncodeTo(t, sent) = IF t.kind = "tuple" \/ ~t.dynamic THEN EncodeBody[t][sent]
                            ELSE Number(Word) \o EncodeBody[t][sent]
    BY <2>1, EncodeToFacts
  <2>4. EncAll(<<t>>, <<EncodeBody[t][sent]>>)
          = IF t.dynamic THEN Number(Word) \o EncodeBody[t][sent] ELSE EncodeBody[t][sent]
    BY <2>1, EncodeOne
  <2> QED BY <2>1, <2>2, <2>3, <2>4 DEF t
<1> QED BY <1>1, CodecInvariant, PTL

-----------------------------------------------------------------------------
(* What was encoded is decoded                                             *)

\* The input holds b at offset o.
Holds(in, o, b) == o + Len(b) <= Len(in) /\ \A k \in 1..Len(b) : in[o + k] = b[k]

\* An input that holds the whole holds its parts.
LEMMA HoldsPart ==
  ASSUME NEW in, Input(in), NEW base \in Nat, NEW r \in Seq(Nat), Holds(in, base, r),
         NEW p \in Nat, NEW b \in Seq(Nat), p + Len(b) <= Len(r), \A k \in 1..Len(b) : r[p + k] = b[k]
  PROVE  base + p \in Nat /\ Holds(in, base + p, b)
<1>1. Len(r) \in Nat /\ Len(b) \in Nat /\ Len(in) \in Nat /\ base + Len(r) <= Len(in)
  BY DEF Holds, Input
<1>2. ASSUME NEW k \in 1..Len(b) PROVE in[(base + p) + k] = b[k]
  <2>1. p + k \in 1..Len(r) /\ (base + p) + k = base + (p + k)
    <3> DEFINE n == Len(b)
               m == Len(r)
    <3>1. n \in Nat /\ m \in Nat /\ p + n <= m /\ k \in 1..n
      BY <1>1
    <3> HIDE DEF n, m
    <3>2. p + k \in 1..m
      BY <3>1
    <3> QED BY <3>1, <3>2 DEF m
  <2>2. in[base + (p + k)] = r[p + k]
    BY <2>1 DEF Holds
  <2> QED BY <2>1, <2>2
<1>3. (base + p) + Len(b) <= Len(in) /\ base + p \in Nat
  BY <1>1
<1> QED BY <1>2, <1>3 DEF Holds

\* An input with room is shorter than the address space.
LEMMA RoomFacts ==
  ASSUME NEW in, Room(in), NEW t \in Types
  PROVE  Input(in) /\ Len(in) \in Nat /\ Len(in) < Usize
<1>1. in \in Seq(Nat) /\ Input(in) /\ t.head \in Nat /\ Len(in) + t.head < Usize
  BY TypeFacts DEF Room, Input
<1>2. Len(in) \in Nat
  BY <1>1
<1> QED BY <1>1, <1>2, UsizeFacts

\* What the input holds at base is read there, and no sum overflows.
LEMMA ReadHeld ==
  ASSUME NEW in, Input(in), Len(in) < Usize, NEW base \in Nat, NEW r \in Seq(Nat), Holds(in, base, r)
  PROVE  /\ \A p \in Nat : p <= Len(r) => CheckedSum(base, p) = base + p /\ base + p < Usize
         /\ \A p \in Nat : p + Word <= Len(r) => ReadWordOffset(in, base + p) = r[p + Word]
<1>1. Len(r) \in Nat /\ Len(in) \in Nat /\ base + Len(r) <= Len(in)
  BY DEF Holds, Input
<1>2. ASSUME NEW p \in Nat, p <= Len(r) PROVE CheckedSum(base, p) = base + p /\ base + p < Usize
  BY <1>1, <1>2, UsizeFacts DEF CheckedSum
<1>3. ASSUME NEW p \in Nat, p + Word <= Len(r) PROVE ReadWordOffset(in, base + p) = r[p + Word]
  <2>1. /\ base + p \in Nat /\ (base + p) + Word <= Len(in) /\ (base + p) + Word < Usize
        /\ p + Word \in 1..Len(r) /\ (base + p) + Word = base + (p + Word)
    BY <1>1, <1>3, UsizeFacts
  <2>2. ReadWordOffset(in, base + p) = in[(base + p) + Word]
    BY <2>1, ReadFacts
  <2>3. in[base + (p + Word)] = r[p + Word]
    BY <2>1 DEF Holds
  <2> QED BY <2>1, <2>2, <2>3
<1> QED BY <1>2, <1>3

\* Fields that lie where their heads and pointers say are decoded there.
LEMMA FieldsReadBack ==
  ASSUME NEW in, Room(in), NEW t \in Types, NEW ts, NEW lens, NEW bodies, Fit(ts, lens, bodies),
         NEW r, Laid(ts, lens, bodies, r), NEW base \in Nat, Holds(in, base, r), NEW g, NEW v,
         \A i \in DOMAIN ts : \A o \in Nat : Holds(in, o, bodies[i]) => g[ts[i]][o] = <<v[i]>>
  PROVE  DecodeFields(g, t, ts, in, base) = <<[i \in DOMAIN ts |-> v[i]]>>
<1> DEFINE n == Len(ts)
           last == HeadOffset(ts, n + 1)
           part == [i \in DOMAIN ts |-> g[ts[i]][PartAt(t, ts, in, base, i)]]
<1>1. Input(in) /\ Len(in) \in Nat /\ Len(in) < Usize
  BY RoomFacts
<1>2. n \in Nat /\ DOMAIN ts = 1..n /\ ts \in Seq(Types)
  BY TailsFacts DEF Fit
<1>3. r \in Seq(Nat) /\ Len(r) \in Nat /\ last <= Len(r)
  BY DEF Laid
<1>4. last \in Nat /\ \A i \in 1..n : HeadOffset(ts, i) \in Nat /\ HeadOffset(ts, i) <= last
  <2>1. n + 1 \in 1..(n + 1) /\ \A i \in 1..n : i \in 1..(n + 1)
    BY <1>2
  <2>2. last \in Nat /\ \A i \in 1..n : HeadOffset(ts, i) \in Nat /\ HeadOffset(ts, i) + SlotSize(ts[i]) <= last
    BY <1>2, <2>1, OffsetFacts
  <2>3. \A i \in 1..n : SlotSize(ts[i]) \in Nat
    BY <1>2, SlotFacts
  <2>4. ASSUME NEW i \in 1..n PROVE HeadOffset(ts, i) <= last
    <3> DEFINE h == HeadOffset(ts, i)
               w == SlotSize(ts[i])
    <3>1. h \in Nat /\ w \in Nat /\ h + w <= last /\ last \in Nat
      BY <2>2, <2>3
    <3> HIDE DEF h, w, last
    <3>2. h <= last
      BY <3>1
    <3> QED BY <3>2 DEF h
  <2> QED BY <2>2, <2>4
<1>5. /\ \A p \in Nat : p <= Len(r) => CheckedSum(base, p) = base + p /\ base + p < Usize
      /\ \A p \in Nat : p + Word <= Len(r) => ReadWordOffset(in, base + p) = r[p + Word]
  BY <1>1, <1>3, ReadHeld
<1>6. CheckedSum(base, last) # Overflow
  BY <1>3, <1>4, <1>5, UsizeFacts
<1>7. ASSUME NEW i \in 1..n PROVE g[ts[i]][PartAt(t, ts, in, base, i)] = <<v[i]>>
  <2> DEFINE h == HeadOffset(ts, i)
             b == bodies[i]
             p == Pointer(ts, lens, i)
             head == IF Unguarded(t) THEN base + h ELSE CheckedSum(base, h)
  <2>1. h \in Nat /\ h <= Len(r) /\ b \in Seq(Nat) /\ p \in Nat
    <3>1. b \in Seq(Nat)
      BY DEF Fit
    <3>2. p \in Nat
      BY HeadsFacts
    <3>3. h \in Nat /\ h <= last
      BY <1>4
    <3> HIDE DEF h, last
    <3> QED BY <1>3, <1>4, <3>1, <3>2, <3>3
  <2>2. CheckedSum(base, h) = base + h
    BY <1>5, <2>1
  <2>3. head = base + h
    BY <2>2
  <2>4. PartAt(t, ts, in, base, i) = IF ts[i].dynamic THEN CheckedSum(base, ReadWordOffset(in, head)) ELSE head
    BY DEF PartAt
  <2>5. CASE ts[i].dynamic
    <3>1. /\ h + Word <= Len(r) /\ r[h + Word] = p /\ p + Len(b) <= Len(r)
          /\ \A k \in 1..Len(b) : r[p + k] = b[k]
      BY <2>5 DEF Laid
    <3> HIDE DEF h, b, p, head
    <3>2. ReadWordOffset(in, head) = p
      BY <1>5, <2>1, <2>3, <3>1
    <3>3. p <= Len(r)
      <4>1. Len(b) \in Nat
        BY <2>1
      <4> QED BY <1>3, <2>1, <3>1, <4>1
    <3>4. CheckedSum(base, p) = base + p
      BY <1>5, <2>1, <3>3
    <3>5. base + p \in Nat /\ Holds(in, base + p, b)
      BY <1>1, <1>3, <2>1, <3>1, HoldsPart
    <3> QED BY <1>2, <2>4, <2>5, <3>2, <3>4, <3>5 DEF b
  <2>6. CASE ~ts[i].dynamic
    <3>1. h + Len(b) <= Len(r) /\ \A k \in 1..Len(b) : r[h + k] = b[k]
      BY <2>6 DEF Laid
    <3> HIDE DEF h, b, p, head
    <3>2. base + h \in Nat /\ Holds(in, base + h, b)
      BY <1>1, <1>3, <2>1, <3>1, HoldsPart
    <3> QED BY <1>2, <2>3, <2>4, <2>6, <3>2 DEF b
  <2> QED BY <2>5, <2>6
<1>8. DOMAIN part = DOMAIN ts /\ \A i \in DOMAIN ts : part[i] = <<v[i]>>
  BY <1>2, <1>7
<1>9. DecodeFields(g, t, ts, in, base) = AllOf(part)
  BY <1>6 DEF DecodeFields
<1> HIDE DEF part
<1>10. AllOf(part) = <<[i \in DOMAIN ts |-> v[i]]>>
  BY <1>8, AllOfValues
<1> QED BY <1>9, <1>10


\* The elements of a Vec take a word each at least.
LEMMA VecHeads ==
  ASSUME NEW t \in Types, t.kind = "vec", NEW n \in Nat
  PROVE  LET ts == Fields(t, n) IN Len(ts) = n /\ HeadOffset(ts, n + 1) \in Nat /\ HeadOffset(ts, n + 1) >= n * Word
<1> DEFINE ts == Fields(t, n)
           P == {k \in Nat : k <= n => HeadOffset(ts, k + 1) >= k * Word}
<1>1. ts \in Seq(Types) /\ Len(ts) = n /\ DOMAIN ts = 1..n /\ \A i \in 1..n : ts[i] = t.parts[1]
  BY FieldsFacts
<1>2. SlotSize(t.parts[1]) >= Word /\ Word \in Nat
  BY TypeFacts, UsizeFacts
<1> HIDE DEF ts
<1>3. /\ HeadOffset(ts, 1) = 0
      /\ \A i \in 1..(n + 1) : HeadOffset(ts, i) \in Nat
      /\ \A i \in 1..n : HeadOffset(ts, i + 1) = HeadOffset(ts, i) + SlotSize(ts[i])
  BY <1>1, OffsetFacts
<1>4. 0 \in P
  <2>1. HeadOffset(ts, 0 + 1) = 0 /\ 0 * Word = 0
    BY <1>2, <1>3
  <2> QED BY <2>1
<1>5. ASSUME NEW k \in Nat, k \in P PROVE k + 1 \in P
  <2> SUFFICES ASSUME k + 1 <= n PROVE HeadOffset(ts, (k + 1) + 1) >= (k + 1) * Word
    OBVIOUS
  <2>1. k + 1 \in 1..n /\ k + 1 \in 1..(n + 1) /\ k <= n
    OBVIOUS
  <2> DEFINE a == HeadOffset(ts, k + 1)
             b == HeadOffset(ts, (k + 1) + 1)
             s == SlotSize(ts[k + 1])
  <2>2. a \in Nat /\ b = a + s /\ s >= Word /\ a >= k * Word
    BY <1>1, <1>2, <1>3, <1>5, <2>1
  <2>3. s \in Nat
    <3>1. ts[k + 1] \in Types
      BY <1>1, <2>1
    <3> QED BY <3>1, SlotFacts
  <2> HIDE DEF a, b, s
  <2>4. (k + 1) * Word = k * Word + Word /\ k * Word \in Nat
    BY <1>2
  <2>5. b >= (k + 1) * Word
    BY <1>2, <2>2, <2>3, <2>4
  <2> QED BY <2>5 DEF b
<1> HIDE DEF P
<1>6. n \in P
  BY <1>4, <1>5, NaturalsBySet
<1>7. n + 1 \in 1..(n + 1)
  OBVIOUS
<1> QED BY <1>1, <1>3, <1>6, <1>7 DEF P, ts

\* As many words as fit, fit.
LEMMA FitsDivision ==
  ASSUME NEW n \in Nat, NEW l \in Nat, n * Word <= l
  PROVE  n <= l \div Word
<1> DEFINE q == l \div Word
           r == l % Word
<1>1. Word \in Nat \ {0}
  BY UsizeFacts
<1>2. q \in Nat /\ r \in 0..(Word - 1) /\ q * Word + r = l
  BY <1>1
<1> HIDE DEF q, r
<1>3. CASE q < n
  <2>1. (q + 1) * Word <= n * Word /\ (q + 1) * Word = q * Word + Word
    BY <1>1, <1>2, <1>3
  <2>2. q * Word \in Nat /\ n * Word \in Nat
    BY <1>1, <1>2
  <2> QED BY <1>1, <1>2, <2>1, <2>2
<1>4. CASE n <= q
  BY <1>4 DEF q
<1> QED BY <1>2, <1>3, <1>4

\* A cut out of a list.
LEMMA CutFacts ==
  ASSUME NEW S, NEW s \in Seq(S), NEW m \in Nat, NEW n \in Nat, m + n <= Len(s)
  PROVE  /\ SubSeq(s, m + 1, m + n) \in Seq(S) /\ Len(SubSeq(s, m + 1, m + n)) = n
         /\ \A k \in 1..n : SubSeq(s, m + 1, m + n)[k] = s[m + k]
<1>1. m + 1 \in 1..(Len(s) + 1) /\ m + n \in ((m + 1) - 1)..Len(s) /\ (m + n) - (m + 1) + 1 = n
  OBVIOUS
<1>2. /\ SubSeq(s, m + 1, m + n) \in Seq(S)
      /\ Len(SubSeq(s, m + 1, m + n)) = IF m + 1 <= m + n THEN (m + n) - (m + 1) + 1 ELSE 0
      /\ \A k \in 1..((m + n) - (m + 1) + 1) : SubSeq(s, m + 1, m + n)[k] = s[(m + 1) + k - 1]
  <2>1. Len(s) \in Nat /\ \A i \in 1..Len(s) : s[i] \in S
    OBVIOUS
  <2>2. m + 1 \in Int /\ m + n \in Int /\ \A i \in (m + 1)..(m + n) : i \in 1..Len(s)
    BY <2>1
  <2>3. \A i \in (m + 1)..(m + n) : s[i] \in S
    BY <2>1, <2>2, Zenon
  <2> DEFINE from == m + 1
             to == m + n
  <2>4. from \in Int /\ to \in Int /\ \A i \in from..to : s[i] \in S
    BY <2>2, <2>3
  <2> HIDE DEF from, to
  <2>5. /\ SubSeq(s, from, to) \in Seq(S)
        /\ Len(SubSeq(s, from, to)) = IF from <= to THEN to - from + 1 ELSE 0
        /\ \A k \in 1..(to - from + 1) : SubSeq(s, from, to)[k] = s[from + k - 1]
    BY <2>4, SubSeqProperties
  <2> QED BY <2>5, Zenon DEF from, to
<1>3. \A k \in 1..n : (m + 1) + k - 1 = m + k
  OBVIOUS
<1>4. n = IF m + 1 <= m + n THEN (m + n) - (m + 1) + 1 ELSE 0
  OBVIOUS
<1>5. 1..((m + n) - (m + 1) + 1) = 1..n
  BY <1>1
<1> DEFINE c == SubSeq(s, m + 1, m + n)
<1> HIDE DEF c
<1>6. c \in Seq(S) /\ Len(c) = n
  BY <1>2, <1>4 DEF c
<1>7. \A k \in 1..n : c[k] = s[(m + 1) + k - 1]
  BY <1>2, <1>5, Zenon DEF c
<1>8. \A k \in 1..n : c[k] = s[m + k]
  BY <1>3, <1>7, Zenon
<1> QED BY <1>6, <1>8, Zenon DEF c

\* decode_tail of a bytes or string gives what encode_body_to wrote.
LEMMA BytesReadBack ==
  ASSUME NEW in, Room(in), NEW t \in Types, t.kind = "bytes", NEW v \in Values[t],
         NEW o \in Nat, Holds(in, o, EncodeBody[t][v])
  PROVE  BytesTail(in, o) = <<v>>
<1> DEFINE b == EncodeBody[t][v]
           n == Len(v)
<1>1. Input(in) /\ Len(in) \in Nat /\ Len(in) < Usize /\ in \in Seq(Nat)
  BY RoomFacts DEF Room, Input
<1>2. v \in Seq(Nat) /\ n \in Nat
  BY LeafValueFacts
<1>3. /\ b \in Seq(Nat) /\ Word + n <= Len(b) /\ b[Word] = n
      /\ \A k \in 1..n : b[Word + k] = v[k]
  <2>1. b = Number(Len(v)) \o v \o [i \in 1..Padding(Len(v)) |-> 0]
    BY EncodeBodyUnfold DEF BodyOf
  <2>2. /\ b \in Seq(Nat) /\ Word + Len(v) <= Len(b) /\ b[Word] = Len(v)
        /\ \A k \in 1..Len(v) : b[Word + k] = v[k]
    <3> HIDE DEF b
    <3>1. v \in Seq(Nat)
      BY <1>2
    <3> QED BY <2>1, <3>1, BytesBody
  <2> QED BY <2>2
<1>4. Holds(in, o, b)
  OBVIOUS
<1>5. Word \in Nat /\ Word >= 2 /\ Len(b) \in Nat
  BY <1>3, UsizeFacts
<1> HIDE DEF b, n
<1>6. /\ \A p \in Nat : p <= Len(b) => CheckedSum(o, p) = o + p /\ o + p < Usize
      /\ \A p \in Nat : p + Word <= Len(b) => ReadWordOffset(in, o + p) = b[p + Word]
  BY <1>1, <1>3, <1>4, ReadHeld
<1>7. CheckedSum(o, Word) = o + Word
  <2>1. Word <= Len(b)
    BY <1>2, <1>3, <1>5
  <2> QED BY <1>5, <1>6, <2>1
<1>8. ReadWordOffset(in, o) = n
  <2>1. 0 + Word <= Len(b) /\ o + 0 = o /\ 0 + Word = Word
    BY <1>2, <1>3, <1>5
  <2>2. ReadWordOffset(in, o + 0) = b[0 + Word]
    BY <1>6, <2>1
  <2> QED BY <1>3, <2>1, <2>2
<1>9. CheckedSum(o + Word, n) = (o + Word) + n /\ (o + Word) + n <= Len(in)
  <2>1. CheckedSum(o, Word + n) = o + (Word + n) /\ o + (Word + n) < Usize
    BY <1>2, <1>3, <1>5, <1>6
  <2>2. o + (Word + n) = (o + Word) + n
    BY <1>2, <1>5
  <2>3. o + Len(b) <= Len(in)
    BY <1>4 DEF Holds
  <2>4. (o + Word) + n <= Len(in)
    BY <1>1, <1>2, <1>3, <1>5, <2>3
  <2> QED BY <2>1, <2>2, <2>4 DEF CheckedSum
<1>10. SubSeq(in, o + Word + 1, o + Word + n) = v
  <2> DEFINE s == SubSeq(in, o + Word + 1, o + Word + n)
  <2>1. /\ s \in Seq(Nat) /\ Len(s) = n
        /\ \A k \in 1..n : s[k] = in[o + Word + k]
    <3> DEFINE m == o + Word
    <3>1. m \in Nat /\ m + n <= Len(in)
      BY <1>2, <1>5, <1>9
    <3> HIDE DEF m
    <3>2. /\ SubSeq(in, m + 1, m + n) \in Seq(Nat) /\ Len(SubSeq(in, m + 1, m + n)) = n
          /\ \A k \in 1..n : SubSeq(in, m + 1, m + n)[k] = in[m + k]
      BY <1>1, <1>2, <3>1, CutFacts
    <3> QED BY <3>2 DEF m
  <2>2. ASSUME NEW k \in 1..n PROVE s[k] = v[k]
    <3>1. Word + k \in 1..Len(b) /\ o + Word + k = o + (Word + k)
      BY <1>2, <1>3, <1>5
    <3>2. in[o + (Word + k)] = b[Word + k]
      BY <1>4, <3>1 DEF Holds
    <3> QED BY <1>3, <2>1, <3>1, <3>2
  <2> HIDE DEF s
  <2>3. Len(v) = n /\ v \in Seq(Nat) /\ Len(s) = Len(v) /\ \A k \in 1..Len(s) : s[k] = v[k]
    BY <1>2, <2>1, <2>2 DEF n
  <2>4. s = v
    BY <2>1, <2>3, SameList, Zenon
  <2> QED BY <2>4 DEF s
<1>11. ~(o + Word + n > Len(in))
  BY <1>1, <1>2, <1>5, <1>9
<1> QED BY <1>7, <1>8, <1>9, <1>10, <1>11 DEF BytesTail


\* A body is decoded where it lies, whatever surrounds it.
LEMMA TailReadsBack ==
  ASSUME NEW in, Room(in), NEW t \in Types, NEW v \in Values[t],
         NEW o \in Nat, Holds(in, o, EncodeBody[t][v])
  PROVE  DecodeTail(t, in, o) = <<v>>
<1>1. Input(in) /\ Len(in) \in Nat /\ Len(in) < Usize
  BY RoomFacts
<1>2. PICK g : \A u \in Types, q \in Nat : DecodeTail(u, in, q) = g[u][q] /\ g[u][q] = TailOf(in, g, u, q)
  BY <1>1, TailUnfold
<1> DEFINE G == {u \in Types : \A w \in Values[u], q \in Nat : Holds(in, q, EncodeBody[u][w]) => g[u][q] = <<w>>}
<1>3. ASSUME NEW u \in Types, \A x \in Types : x.depth < u.depth => x \in G PROVE u \in G
  <2> SUFFICES ASSUME NEW w \in Values[u], NEW q \in Nat, Holds(in, q, EncodeBody[u][w])
               PROVE  TailOf(in, g, u, q) = <<w>>
    BY <1>2
  <2> DEFINE b == EncodeBody[u][w]
  <2>1. b \in Seq(Nat) /\ Len(b) \in Nat /\ b = BodyOf(EncodeBody, u, w)
    BY AllMeasured, EncodeBodyUnfold DEF Measured
  <2>2. q + Len(b) <= Len(in) /\ \A k \in 1..Len(b) : in[q + k] = b[k]
    BY DEF Holds
  <2>3. q # Overflow
    <3> HIDE DEF b
    <3>1. q < Usize
      BY <1>1, <2>1, <2>2, UsizeFacts
    <3> QED BY <3>1, UsizeFacts
  <2>4. CASE u.kind = "static"
    <3>1. w \in Nat /\ b = Number(w)
      BY <2>1, <2>4, LeafValueFacts DEF BodyOf
    <3>2. Len(b) = Word /\ b[Word] = w
      BY <3>1, NumberFacts
    <3> HIDE DEF b
    <3>3. Word \in 1..Len(b) /\ q + Word <= Len(in) /\ q + Word < Usize /\ q + Word <= Usize
      BY <1>1, <2>2, <3>2, UsizeFacts
    <3>4. StaticAt(in, q) = <<in[q + Word]>>
      BY <1>1, <3>3, StaticAtFacts
    <3>5. in[q + Word] = w
      BY <2>2, <3>2, <3>3
    <3> QED BY <2>3, <2>4, <3>4, <3>5 DEF TailOf
  <2>5. CASE u.kind = "bytes"
    <3>1. BytesTail(in, q) = <<w>>
      BY <2>5, BytesReadBack
    <3> QED BY <2>5, <3>1 DEF TailOf
  <2>6. CASE u.kind \in {"vec"} \union Composites
    <3> DEFINE n == Len(w)
               ts == Fields(u, n)
               lens == Lens(u, w)
               bodies == Bodies(u, w)
               r == EncodeFields(ts, lens, bodies)
    <3>1. Fit(ts, lens, bodies)
      <4>1. Smaller(u) \subseteq Measured
        BY AllMeasured DEF Smaller
      <4> QED BY <2>6, <4>1, PartsFit
    <3>2. Laid(ts, lens, bodies, r)
      BY <3>1, EncodeFieldsFacts
    <3>3. r \in Seq(Nat) /\ Len(r) \in Nat /\ HeadOffset(ts, Len(ts) + 1) <= Len(r)
      BY <3>2 DEF Laid
    <3>4. /\ n \in Nat /\ n = Len(ts) /\ w = [i \in DOMAIN ts |-> w[i]]
          /\ \A i \in DOMAIN ts : w[i] \in Values[ts[i]]
          /\ u.kind \in Composites => ts = Fields(u, u.n)
      BY <2>6, ListFacts
    <3>5. \A i \in DOMAIN ts : ts[i] \in G /\ bodies[i] = EncodeBody[ts[i]][w[i]]
      <4>1. \A i \in DOMAIN ts : ts[i] \in G
        BY <1>3, <2>6, <3>4, FieldsFacts
      <4> QED BY <4>1 DEF Bodies, PartWise
    <3>6. \A i \in DOMAIN ts : \A p \in Nat : Holds(in, p, bodies[i]) => g[ts[i]][p] = <<w[i]>>
      BY <3>4, <3>5
    <3>7. u.kind \notin {"static", "bytes"}
      BY <2>6 DEF Composites
    <3>8. b = (IF u.kind = "vec" THEN Number(n) ELSE << >>) \o r
      BY <2>1, <3>7 DEF BodyOf, Lens, Bodies
    <3>9. ASSUME NEW base \in Nat, Holds(in, base, r)
          PROVE  DecodeFields(g, u, ts, in, base) = <<w>>
      <4> HIDE DEF n, ts, lens, bodies, r, G
      <4>1. DecodeFields(g, u, ts, in, base) = <<[i \in DOMAIN ts |-> w[i]]>>
        BY <3>1, <3>2, <3>6, <3>9, FieldsReadBack
      <4> QED BY <3>4, <4>1
    <3>10. CASE u.kind = "vec"
      <4>1. b = Number(n) \o r
        BY <3>8, <3>10
      <4>2. HeadOffset(ts, n + 1) \in Nat /\ HeadOffset(ts, n + 1) >= n * Word
        BY <3>4, <3>10, VecHeads
      <4> HIDE DEF n, ts, lens, bodies, r, G, b
      <4>3. Len(b) = Word + Len(r) /\ b[Word] = n /\ \A k \in 1..Len(r) : b[Word + k] = r[k]
        BY <3>3, <3>4, <4>1, NumberedFacts
      <4>4. Word \in Nat /\ Holds(in, q, b)
        BY UsizeFacts DEF b
      <4>5. /\ \A p \in Nat : p <= Len(b) => CheckedSum(q, p) = q + p /\ q + p < Usize
            /\ \A p \in Nat : p + Word <= Len(b) => ReadWordOffset(in, q + p) = b[p + Word]
        BY <1>1, <2>1, <4>4, ReadHeld
      <4>6. ReadWordOffset(in, q) = n
        <5>1. 0 + Word <= Len(b) /\ q + 0 = q /\ 0 + Word = Word
          BY <3>3, <4>3, <4>4
        <5>2. ReadWordOffset(in, q + 0) = b[0 + Word]
          BY <4>5, <5>1
        <5> QED BY <4>3, <5>1, <5>2
      <4>7. CheckedSum(q, Word) = q + Word
        <5>1. Word <= Len(b)
          BY <3>3, <4>3, <4>4
        <5> QED BY <4>4, <4>5, <5>1
      <4>8. n <= Len(in) \div Word
        <5>1. n * Word \in Nat
          BY <3>4, <4>4
        <5> DEFINE m == n * Word
                   h == HeadOffset(ts, n + 1)
        <5>2. h \in Nat /\ h >= m /\ m \in Nat /\ h <= Len(r)
          BY <3>3, <3>4, <4>2, <5>1
        <5> HIDE DEF m, h
        <5>3. m <= Len(in)
          BY <1>1, <2>2, <3>3, <4>3, <4>4, <5>2
        <5> QED BY <1>1, <3>4, <5>3, FitsDivision DEF m
      <4>9. q + Word \in Nat /\ Holds(in, q + Word, r)
        <5>1. Word + Len(r) <= Len(b)
          BY <3>3, <4>3, <4>4
        <5> QED BY <1>1, <2>1, <3>3, <4>3, <4>4, <5>1, HoldsPart
      <4>10. VecTail(g, u, in, q) = DecodeFields(g, u, Fields(u, n), in, q + Word)
        <5>1. ~(n > Len(in) \div Word)
          <6> DEFINE d == Len(in) \div Word
          <6>1. d \in Int
            BY <1>1, UsizeFacts
          <6> HIDE DEF d
          <6> QED BY <3>4, <4>8, <6>1 DEF d
        <5> QED BY <4>6, <4>7, <5>1 DEF VecTail
      <4> QED BY <3>9, <3>10, <4>9, <4>10 DEF TailOf, ts
    <3>11. CASE u.kind # "vec"
      <4>1. b = r
        <5>1. << >> \o r = r
          BY <3>3, EmptyConcat
        <5> QED BY <3>8, <3>11, <5>1
      <4>2. Holds(in, q, r)
        BY <4>1
      <4>3. DecodeFields(g, u, ts, in, q) = <<w>>
        BY <3>9, <4>2
      <4>4. ts = Fields(u, u.n)
        BY <2>6, <3>4, <3>11
      <4> HIDE DEF ts
      <4> QED BY <2>3, <3>7, <3>11, <4>3, <4>4 DEF TailOf
    <3> QED BY <3>10, <3>11
  <2> QED BY <2>4, <2>5, <2>6, TypeFacts
<1> HIDE DEF G
<1>4. t \in G
  BY <1>3, TypesByDepth
<1> QED BY <1>2, <1>4 DEF G


\* decode_unchecked of a static type gives what encode_body_to wrote.
LEMMA UncheckedReadsBack ==
  ASSUME NEW in, Room(in), NEW t \in Types, NEW v \in Values[t],
         NEW o \in Nat, ~t.dynamic, Holds(in, o, EncodeBody[t][v])
  PROVE  DecodeUnchecked(t, in, o) = <<v>>
<1>1. Input(in) /\ Len(in) \in Nat /\ Len(in) < Usize
  BY RoomFacts
<1>2. PICK g : \A u \in Types, q \in Nat :
                  DecodeUnchecked(u, in, q) = g[u][q] /\ g[u][q] = UncheckedOf(in, g, u, q)
  BY UncheckedUnfold
<1> DEFINE G == {u \in Types : \A w \in Values[u], q \in Nat :
                   ~u.dynamic /\ Holds(in, q, EncodeBody[u][w]) => g[u][q] = <<w>>}
<1>3. ASSUME NEW u \in Types, \A x \in Types : x.depth < u.depth => x \in G PROVE u \in G
  <2> SUFFICES ASSUME NEW w \in Values[u], NEW q \in Nat, ~u.dynamic, Holds(in, q, EncodeBody[u][w])
               PROVE  UncheckedOf(in, g, u, q) = <<w>>
    BY <1>2
  <2> DEFINE b == EncodeBody[u][w]
  <2>1. b \in Seq(Nat) /\ Len(b) \in Nat /\ b = BodyOf(EncodeBody, u, w)
    BY AllMeasured, EncodeBodyUnfold DEF Measured
  <2>2. q + Len(b) <= Len(in) /\ \A k \in 1..Len(b) : in[q + k] = b[k]
    BY DEF Holds
  <2>3. CASE u.kind = "static"
    <3>1. w \in Nat /\ b = Number(w)
      BY <2>1, <2>3, LeafValueFacts DEF BodyOf
    <3>2. Len(b) = Word /\ b[Word] = w
      BY <3>1, NumberFacts
    <3> HIDE DEF b
    <3>3. Word \in 1..Len(b) /\ q + Word <= Len(in)
      BY <2>2, <3>2, UsizeFacts
    <3>4. in[q + Word] = w
      BY <2>2, <3>2, <3>3
    <3> QED BY <2>3, <3>3, <3>4 DEF UncheckedOf
  <2>4. CASE u.kind # "static"
    <3> DEFINE n == Len(w)
               ts == Fields(u, n)
               lens == Lens(u, w)
               bodies == Bodies(u, w)
               r == EncodeFields(ts, lens, bodies)
               part == [i \in DOMAIN ts |-> g[ts[i]][q + HeadOffset(ts, i)]]
    <3>1. u.kind \in Composites /\ u.kind \in {"vec"} \union Composites /\ u.kind \notin {"static", "bytes", "vec"}
      <4>1. u.kind \in Composites
        BY <2>4, TypeFacts, KindFacts
      <4> QED BY <4>1 DEF Composites
    <3>2. Fit(ts, lens, bodies)
      <4>1. Smaller(u) \subseteq Measured
        BY AllMeasured DEF Smaller
      <4> QED BY <3>1, <4>1, PartsFit
    <3>3. Laid(ts, lens, bodies, r)
      BY <3>2, EncodeFieldsFacts
    <3>4. r \in Seq(Nat)
      BY <3>3 DEF Laid
    <3>5. /\ n \in Nat /\ w = [i \in DOMAIN ts |-> w[i]]
          /\ \A i \in DOMAIN ts : w[i] \in Values[ts[i]]
          /\ ts = Fields(u, u.n)
      BY <3>1, ListFacts
    <3>6. /\ ts \in Seq(Types) /\ DOMAIN ts = 1..Len(ts) /\ Len(ts) \in Nat
          /\ \A i \in DOMAIN ts : ts[i] \in Types /\ ts[i].depth < u.depth /\ ~ts[i].dynamic
      BY <3>1, <3>5, FieldsFacts
    <3>7. \A i \in DOMAIN ts : ts[i] \in G /\ bodies[i] = EncodeBody[ts[i]][w[i]]
      <4>1. \A i \in DOMAIN ts : ts[i] \in G
        BY <1>3, <3>6
      <4> QED BY <4>1 DEF Bodies, PartWise
    <3>8. Holds(in, q, r)
      <4>1. b = << >> \o r
        BY <2>1, <3>1 DEF BodyOf, Lens, Bodies
      <4>2. b = r
        BY <3>4, <4>1, EmptyConcat
      <4> QED BY <4>2
    <3> HIDE DEF n, ts, lens, bodies, r
    <3>9. ASSUME NEW i \in DOMAIN ts PROVE g[ts[i]][q + HeadOffset(ts, i)] = <<w[i]>>
      <4> DEFINE h == HeadOffset(ts, i)
                 c == bodies[i]
      <4>1. h \in Nat
        <5>1. i \in 1..(Len(ts) + 1)
          BY <3>6
        <5> QED BY <3>6, <5>1, OffsetFacts
      <4>2. c \in Seq(Nat)
        BY <3>2, <3>6 DEF Fit
      <4>3. h + Len(c) <= Len(r) /\ \A k \in 1..Len(c) : r[h + k] = c[k]
        BY <3>3, <3>6 DEF Laid
      <4> HIDE DEF h, c
      <4>4. q + h \in Nat /\ Holds(in, q + h, c)
        BY <1>1, <3>4, <3>8, <4>1, <4>2, <4>3, HoldsPart
      <4>5. g[ts[i]][q + h] = <<w[i]>>
        BY <3>5, <3>6, <3>7, <4>4 DEF c
      <4> QED BY <4>5 DEF h
    <3>10. DOMAIN part = DOMAIN ts /\ \A i \in DOMAIN ts : part[i] = <<w[i]>>
      BY <3>9
    <3> HIDE DEF part
    <3>11. AllOf(part) = <<[i \in DOMAIN ts |-> w[i]]>>
      BY <3>10, AllOfValues
    <3>12. UncheckedOf(in, g, u, q) = AllOf(part)
      BY <2>4, <3>5 DEF UncheckedOf, part
    <3> QED BY <3>5, <3>11, <3>12
  <2> QED BY <2>3, <2>4
<1> HIDE DEF G
<1>4. t \in G
  BY <1>3, TypesByDepth
<1> QED BY <1>2, <1>4 DEF G

\* An input holds itself.
LEMMA HoldsItself ==
  ASSUME NEW b \in Seq(Nat)
  PROVE  Holds(b, 0, b)
<1>1. Len(b) \in Nat /\ \A k \in 1..Len(b) : 0 + k = k
  OBVIOUS
<1> QED BY <1>1 DEF Holds

\* An output, wrapped in a pointer or not.
LEMMA OutputReadsBack ==
  ASSUME NEW t \in Types, NEW v \in Values[t], Room(EncodeTo(t, v))
  PROVE  Decode(t, EncodeTo(t, v)) = <<v>>
<1> DEFINE in == EncodeTo(t, v)
           b == EncodeBody[t][v]
<1>1. b \in Seq(Nat)
  BY AllMeasured DEF Measured
<1>2. in = IF t.kind = "tuple" \/ ~t.dynamic THEN b ELSE Number(Word) \o b
  BY EncodeToFacts
<1>3. Room(in) /\ Input(in) /\ Len(in) \in Nat /\ Len(in) < Usize
  BY RoomFacts
<1> HIDE DEF in
<1>4. CASE t.kind = "tuple" \/ ~t.dynamic
  <2>1. Holds(in, 0, b) /\ 0 \in Nat
    BY <1>1, <1>2, <1>4, HoldsItself
  <2>2. DecodeTail(t, in, 0) = <<v>>
    BY <1>3, <2>1, TailReadsBack
  <2>3. t.kind \notin {"bytes", "vec"}
    BY <1>4, KindFacts
  <2>4. 0 # Overflow
    BY UsizeFacts
  <2> QED BY <1>4, <2>2, <2>3, <2>4 DEF Decode, DecodeAt, in
<1>5. CASE ~(t.kind = "tuple" \/ ~t.dynamic)
  <2> HIDE DEF b
  <2>1. in = Number(Word) \o b
    BY <1>2, <1>5
  <2>2. Word \in Nat /\ Len(b) \in Nat
    BY <1>1, UsizeFacts
  <2>3. in \in Seq(Nat) /\ Len(in) = Word + Len(b) /\ in[Word] = Word /\ \A k \in 1..Len(b) : in[Word + k] = b[k]
    BY <1>1, <2>1, <2>2, NumberedFacts
  <2>4. Holds(in, Word, b)
    BY <2>2, <2>3 DEF Holds
  <2>5. DecodeTail(t, in, Word) = <<v>>
    BY <1>3, <2>2, <2>4, TailReadsBack DEF b
  <2>6. ReadWordOffset(in, 0) = Word
    <3>1. 0 + Word <= Len(in) /\ 0 + Word < Usize /\ 0 + Word = Word
      BY <1>3, <2>2, <2>3, UsizeFacts
    <3>2. ReadWordOffset(in, 0) = in[0 + Word]
      BY <1>3, <3>1, ReadFacts
    <3> QED BY <2>3, <3>1, <3>2
  <2> QED BY <1>5, <2>5, <2>6 DEF Decode, in
<1> QED BY <1>4, <1>5


\* The parameters a caller sent: the size check lets them pass, and each that is
\* not a dynamic composite is decoded to what was sent.
LEMMA ParamsReadBack ==
  ASSUME NEW m \in Messages, m.to = "method", NEW v \in Values[MessageType(m)]
  PROVE  LET in == EncodeTo(MessageType(m), v) IN
         /\ MinInputSize(m.types) <= Len(in)
         /\ \A i \in 1..Len(m.types) :
              ~InPlace(m.types[i]) => Param(m.types[i], in, HeadOffset(m.types, i)) = <<v[i]>>
<1> DEFINE t == MessageType(m)
           in == EncodeTo(t, v)
           ts == m.types
           lens == Lens(t, v)
           bodies == Bodies(t, v)
           r == EncodeFields(ts, lens, bodies)
<1>1. t \in Types /\ ts \in Seq(Types) /\ t.kind = "tuple" /\ t.parts = ts
  <2>1. t = Tuple(ts)
    BY MessageFacts
  <2> QED BY <2>1, MessageFacts DEF Tuple, Type
<1>2. Room(in)
  BY SentHasRoom
<1>3. t.kind \in {"vec"} \union Composites /\ t.kind \notin {"static", "bytes", "vec"}
  BY <1>1 DEF Composites
<1>4. Fields(t, Len(v)) = ts
  BY <1>1 DEF Fields
<1>5. Fit(ts, lens, bodies)
  <2>1. Smaller(t) \subseteq Measured
    BY AllMeasured DEF Smaller
  <2> HIDE DEF t, ts
  <2>2. Fit(Fields(t, Len(v)), lens, bodies)
    BY <1>1, <1>3, <2>1, PartsFit DEF t
  <2> QED BY <1>4, <2>2
<1>6. Laid(ts, lens, bodies, r)
  BY <1>5, EncodeFieldsFacts
<1>7. r \in Seq(Nat) /\ Len(r) \in Nat
  BY <1>6 DEF Laid
<1>8. in = r
  <2>1. in = EncodeBody[t][v]
    BY <1>1, EncodeToFacts
  <2>2. EncodeBody[t][v] = BodyOf(EncodeBody, t, v)
    BY <1>1, EncodeBodyUnfold
  <2>3. BodyOf(EncodeBody, t, v) = << >> \o r
    BY <1>3, <1>4 DEF BodyOf, Lens, Bodies
  <2>4. << >> \o r = r
    BY <1>7, EmptyConcat
  <2> QED BY <2>1, <2>2, <2>3, <2>4
<1>9. \A i \in 1..Len(ts) : v[i] \in Values[ts[i]] /\ bodies[i] = EncodeBody[ts[i]][v[i]]
  <2>1. DOMAIN ts = 1..Len(ts)
    BY <1>1
  <2>2. \A i \in DOMAIN ts : v[i] \in Values[ts[i]]
    BY <1>1, <1>3, <1>4, ListFacts
  <2>3. \A i \in DOMAIN ts : bodies[i] = EncodeBody[ts[i]][v[i]]
    BY <1>4 DEF Bodies, PartWise
  <2> QED BY <2>1, <2>2, <2>3
<1>10. MinInputSize(ts) <= Len(in)
  BY <1>6, <1>8 DEF Laid, MinInputSize
<1> HIDE DEF t, in, ts, lens, bodies, r
<1>11. Input(in) /\ Len(in) \in Nat /\ Len(in) < Usize
  BY <1>1, <1>2, RoomFacts
<1>12. Holds(in, 0, r)
  BY <1>7, <1>8, HoldsItself
<1>13. ASSUME NEW i \in 1..Len(ts), ~InPlace(ts[i])
       PROVE  Param(ts[i], in, HeadOffset(ts, i)) = <<v[i]>>
  <2> DEFINE u == ts[i]
             h == HeadOffset(ts, i)
             b == bodies[i]
             w == v[i]
             p == Pointer(ts, lens, i)
  <2>1. u \in Types /\ w \in Values[u] /\ b = EncodeBody[u][w] /\ b \in Seq(Nat)
    <3>1. u \in Types
      BY <1>1
    <3>2. b \in Seq(Nat)
      BY <1>5 DEF Fit
    <3> QED BY <1>9, <3>1, <3>2
  <2>2. h \in Nat /\ p \in Nat
    <3>1. i \in 1..(Len(ts) + 1)
      BY <1>1
    <3>2. p \in Nat
      BY <1>5, HeadsFacts
    <3> QED BY <1>1, <3>1, <3>2, OffsetFacts
  <2>3. CASE u.dynamic
    <3>1. u.kind \in {"bytes", "vec"}
      <4>1. u.kind \in {"static", "bytes", "vec"} \union Composites /\ u.kind # "static" /\ u.kind \notin Composites
        BY <1>13, <2>1, <2>3, TypeFacts, KindFacts DEF InPlace, Composites
      <4> QED BY <4>1
    <3>2. /\ h + Word <= Len(r) /\ r[h + Word] = p /\ p + Len(b) <= Len(r)
          /\ \A k \in 1..Len(b) : r[p + k] = b[k]
      BY <1>6, <2>3 DEF Laid
    <3> HIDE DEF u, h, b, w, p
    <3>3. ReadWordOffset(in, h) = p
      <4>1. h + Word <= Len(in) /\ h + Word < Usize
        BY <1>8, <1>11, <2>2, <3>2, UsizeFacts
      <4> QED BY <1>8, <1>11, <2>2, <3>2, <4>1, ReadFacts
    <3>4. Holds(in, p, b)
      <4>1. 0 + p = p
        BY <2>2
      <4>2. Holds(in, 0 + p, b)
        BY <1>7, <1>11, <1>12, <2>1, <2>2, <3>2, HoldsPart
      <4> QED BY <4>1, <4>2
    <3>5. DecodeTail(u, in, p) = <<w>>
      BY <1>2, <2>1, <2>2, <3>4, TailReadsBack
    <3>6. h # Overflow
      BY <1>7, <1>8, <1>11, <2>2, <3>2, UsizeFacts
    <3>7. Param(u, in, h) = <<w>>
      BY <2>3, <3>1, <3>3, <3>5, <3>6 DEF Param, DecodeAt
    <3> QED BY <3>7 DEF u, h, w
  <2>4. CASE ~u.dynamic
    <3>1. h + Len(b) <= Len(r) /\ \A k \in 1..Len(b) : r[h + k] = b[k]
      BY <1>6, <2>4 DEF Laid
    <3> HIDE DEF u, h, b, w
    <3>2. Holds(in, h, b)
      <4>1. 0 + h = h
        BY <2>2
      <4>2. Holds(in, 0 + h, b)
        BY <1>7, <1>11, <1>12, <2>1, <2>2, <3>1, HoldsPart
      <4> QED BY <4>1, <4>2
    <3>3. DecodeTail(u, in, h) = <<w>>
      BY <1>2, <2>1, <2>2, <3>2, TailReadsBack
    <3>4. DecodeUnchecked(u, in, h) = <<w>>
      BY <1>2, <2>1, <2>2, <2>4, <3>2, UncheckedReadsBack
    <3>5. h # Overflow
      <4>1. Len(b) \in Nat
        BY <2>1
      <4> QED BY <1>7, <1>8, <1>11, <2>2, <3>1, <4>1, UsizeFacts
    <3>6. u.kind \notin {"bytes", "vec"}
      BY <2>1, <2>4, KindFacts
    <3>7. Param(u, in, h) = <<w>>
      BY <2>4, <3>3, <3>4, <3>5, <3>6 DEF Param, DecodeAt
    <3> QED BY <3>7 DEF u, h, w
  <2> QED BY <2>3, <2>4
<1> QED BY <1>10, <1>13 DEF in, ts, t

\* Nothing is decoded before the message is.
ReadsInOrder == ReadsBack /\ (pc = "arrived" => got = << >>)

\* Nothing is decoded at first.
LEMMA ReadsInOrderInit == Init => ReadsInOrder
BY DEF Init, ReadsInOrder, ReadsBack

\* Each parameter, or the output, is decoded to what was sent.
LEMMA ReadsInOrderNext == Arrives /\ ReadsInOrder /\ [Next]_vars => ReadsInOrder'
<1> SUFFICES ASSUME Arrives, ReadsInOrder, [Next]_vars PROVE ReadsInOrder'
  OBVIOUS
<1>1. CASE Damage
  <2>1. damage' # 0 /\ UNCHANGED <<pc, got>>
    BY <1>1 DEF Damage, Arrives
  <2> QED BY <2>1 DEF ReadsInOrder, ReadsBack
<1>2. CASE SizeCheck
  <2>1. UNCHANGED <<message, sent, input, damage, got>> /\ message.to = "method" /\ pc = "arrived"
    BY <1>2 DEF SizeCheck
  <2>2. got' = << >> /\ pc' \in {"refused", "decode"}
    BY <1>2 DEF SizeCheck, ReadsInOrder
  <2>3. ASSUME damage = 0 PROVE pc' # "refused"
    <3> DEFINE in == EncodeTo(MessageType(message), sent)
               least == MinInputSize(message.types)
    <3>1. message \in Messages /\ sent \in Values[MessageType(message)] /\ input = in
      BY <2>3 DEF Arrives
    <3>2. least <= Len(in)
      BY <2>1, <3>1, ParamsReadBack
    <3>3. least \in Nat
      <4> DEFINE ts == message.types
      <4>1. ts \in Seq(Types)
        BY <3>1, MessageFacts
      <4> HIDE DEF ts
      <4>2. Len(ts) + 1 \in 1..(Len(ts) + 1)
        BY <4>1
      <4>3. MinInputSize(ts) \in Nat
        BY <4>1, <4>2, OffsetFacts DEF MinInputSize
      <4> QED BY <4>3 DEF ts
    <3>4. Len(input) \in Nat
      BY DEF Arrives, Room, Input
    <3> HIDE DEF in, least
    <3>5. ~(Len(input) < least)
      BY <3>1, <3>2, <3>3, <3>4
    <3> QED BY <1>2, <3>5 DEF SizeCheck, least
  <2>4. DOMAIN got' = {}
    BY <2>2
  <2> QED BY <2>1, <2>2, <2>3, <2>4 DEF ReadsInOrder, ReadsBack
<1>3. CASE DecodeParam
  <2> DEFINE ts == message.types
             i == Len(got) + 1
             r == Param(ts[i], input, HeadOffset(ts, i))
  <2>1. /\ UNCHANGED <<message, sent, input, damage>> /\ pc = "decode" /\ Len(got) < Len(ts)
        /\ Takes(r, "decode") /\ message.to = "method"
    BY <1>3 DEF DecodeParam, Arrives
  <2>2. PICK S : got \in Seq(S)
    BY DEF Arrives
  <2>3. i \in 1..Len(ts) /\ Len(got) \in Nat /\ DOMAIN got = 1..Len(got)
    <3>1. ts \in Seq(Types)
      BY MessageFacts DEF Arrives
    <3>2. Len(got) \in Nat /\ Len(ts) \in Nat /\ DOMAIN got = 1..Len(got)
      BY <2>2, <3>1
    <3> QED BY <2>1, <3>2
  <2>4. damage = 0 /\ ~InPlace(ts[i]) => r = <<sent[i]>>
    BY <2>1, <2>3, ParamsReadBack DEF Arrives
  <2> HIDE DEF r
  <2>5. pc' # "arrived" /\ (pc' = "refused" => r = << >>)
    BY <2>1 DEF Takes
  <2> HIDE DEF i
  <2>6. CASE Len(r) = 1
    <3>1. got' = Append(got, r[1])
      BY <2>1, <2>6 DEF Takes
    <3>2. /\ Len(got') = i /\ DOMAIN got' = 1..i /\ got'[i] = r[1]
          /\ \A k \in 1..Len(got) : got'[k] = got[k]
      <4> DEFINE T == S \union {r[1]}
                 z == Append(got, r[1])
      <4>1. got \in Seq(T) /\ r[1] \in T
        <5>1. /\ Len(got) \in Nat /\ got = [k \in 1..Len(got) |-> got[k]]
              /\ \A k \in 1..Len(got) : got[k] \in T
          BY <2>2
        <5> QED BY <5>1
      <4> HIDE DEF T
      <4>2. /\ Len(z) = Len(got) + 1 /\ DOMAIN z = 1..(Len(got) + 1) /\ z[Len(got) + 1] = r[1]
            /\ \A k \in 1..Len(got) : z[k] = got[k]
        BY <2>3, <4>1
      <4> QED BY <3>1, <4>2 DEF i
    <3>3. \A k \in 1..i : k \in 1..Len(got) \/ k = i
      BY <2>3 DEF i
    <3>4. ASSUME damage = 0, NEW k \in DOMAIN got' PROVE InPlace(ts[k]) \/ got'[k] = sent[k]
      <4>1. CASE k \in 1..Len(got)
        BY <2>1, <2>3, <3>2, <3>4, <4>1 DEF ReadsInOrder, ReadsBack, Meant
      <4>2. CASE k = i
        <5>1. ASSUME ~InPlace(ts[i]) PROVE r[1] = sent[i]
          BY <2>4, <3>4, <5>1
        <5> QED BY <3>2, <4>2, <5>1
      <4> QED BY <3>2, <3>3, <3>4, <4>1, <4>2
    <3>5. r # << >>
      BY <2>6
    <3> QED BY <2>1, <2>5, <3>4, <3>5 DEF ReadsInOrder, ReadsBack, Meant
  <2>7. CASE Len(r) # 1
    <3>1. got' = got
      BY <2>1, <2>7 DEF Takes
    <3>2. damage = 0 => InPlace(ts[i])
      <4>1. \A x : Len(<<x>>) = 1
        OBVIOUS
      <4> QED BY <2>4, <2>7, <4>1
    <3> QED BY <2>1, <2>5, <3>1, <3>2 DEF ReadsInOrder, ReadsBack, Meant, i
  <2> QED BY <2>6, <2>7
<1>4. CASE DecodeOutput
  <2> DEFINE t == MessageType(message)
             r == Decode(t, input)
  <2>1. UNCHANGED <<message, sent, input, damage>> /\ Takes(r, "decoded") /\ message.to = "caller" /\ pc = "arrived"
    BY <1>4 DEF DecodeOutput
  <2>2. got = << >>
    BY <2>1 DEF ReadsInOrder
  <2>3. damage = 0 => r = <<sent>>
    <3>1. t \in Types /\ sent \in Values[t] /\ Room(input) /\ (damage = 0 => input = EncodeTo(t, sent))
      BY MessageFacts DEF Arrives
    <3> HIDE DEF t
    <3> QED BY <3>1, OutputReadsBack
  <2> HIDE DEF r
  <2>4. pc' # "arrived"
    BY <2>1 DEF Takes
  <2>5. ASSUME damage = 0 PROVE got' = <<sent>> /\ pc' # "refused"
    <3>1. Len(r) = 1 /\ r[1] = sent /\ r # << >> /\ r # Strayed
      BY <2>3, <2>5, OneIsNotTwo
    <3>2. Append(<< >>, sent) = <<sent>>
      OBVIOUS
    <3> QED BY <2>1, <2>2, <3>1, <3>2 DEF Takes
  <2>6. DOMAIN <<sent>> = {1} /\ <<sent>>[1] = sent
    OBVIOUS
  <2> QED BY <2>1, <2>4, <2>5, <2>6 DEF ReadsInOrder, ReadsBack, Meant
<1>5. CASE UNCHANGED vars
  BY <1>5 DEF vars, ReadsInOrder, ReadsBack, Meant
<1> QED BY <1>1, <1>2, <1>3, <1>4, <1>5 DEF Next

\* What a caller encodes is what the callee's parameters decode to, and what a
\* method returns is what its caller decodes (SolEncode and SolDecode of
\* types/lib.rs and alloc_types.rs, generate_decode_params of decode.rs).
THEOREM SentReadsBack == Spec => []ReadsBack
<1>1. ReadsInOrder => ReadsBack
  BY DEF ReadsInOrder
<1> QED BY <1>1, ReadsInOrderInit, ReadsInOrderNext, CodecInvariant, PTL DEF Spec
=============================================================================
