---------------------------- MODULE Cells_proofs ----------------------------
(***************************************************************************)
(* Theorems about Cells, for every length of keys, every batch, every size *)
(* of cells and every text.                                                *)
(***************************************************************************)
EXTENDS Cells, SequenceTheorems, FiniteSetTheorems, WellFoundedInduction, TLAPS

-----------------------------------------------------------------------------
(* Induction over the natural numbers, as a fact about sets of them. *)

\* A set of natural numbers that has a member has a least one.
LEMMA SmallestNat ==
  ASSUME NEW T, T \subseteq Nat, T # {}
  PROVE  \E x \in T : \A y \in T : x <= y
<1>1. IsWellFoundedOn(OpToRel(<, Nat), Nat)
  BY NatLessThanWellFounded
<1>2. \E x \in T : \A y \in T : ~(<<y, x>> \in OpToRel(<, Nat))
  BY <1>1, WFMin
<1>3. PICK x \in T : \A y \in T : ~(<<y, x>> \in OpToRel(<, Nat))
  BY <1>2
<1>4. \A y \in T : ~(y < x)
  BY <1>3 DEF OpToRel
<1> QED BY <1>4

\* A set that has each number below which it has all numbers is Nat.
LEMMA StrongInduction ==
  ASSUME NEW T, \A n \in Nat : (\A m \in 0..(n - 1) : m \in T) => n \in T
  PROVE  \A n \in Nat : n \in T
<1> SUFFICES ASSUME {n \in Nat : n \notin T} # {} PROVE FALSE
  OBVIOUS
<1>1. PICK x \in {n \in Nat : n \notin T} : \A y \in {n \in Nat : n \notin T} : x <= y
  BY SmallestNat
<1>2. \A m \in 0..(x - 1) : m \in T
  BY <1>1
<1> QED BY <1>1, <1>2

\* A set that has 0 and with each number the next is Nat.
LEMMA Induction ==
  ASSUME NEW T, 0 \in T, \A n \in Nat : n \in T => n + 1 \in T
  PROVE  \A n \in Nat : n \in T
<1>1. ASSUME NEW n \in Nat, \A m \in 0..(n - 1) : m \in T PROVE n \in T
  <2>1. CASE n = 0 BY <2>1
  <2>2. CASE n # 0
    <3>1. n - 1 \in Nat /\ n - 1 \in T BY <1>1, <2>2
    <3> QED BY <3>1
  <2> QED BY <2>1, <2>2
<1> QED BY <1>1, StrongInduction

-----------------------------------------------------------------------------
(* What FlattenSeq computes. *)

\* f holds what the first n sequences of s are together.
Joins(S, s, f, n) ==
  /\ f \in [1..n -> Seq(S)]
  /\ n >= 1 => f[1] = s[1]
  /\ \A i \in 2..n : f[i] = f[i - 1] \o s[i]

\* One more sequence can be joined.
LEMMA JoinsNext ==
  ASSUME NEW S, NEW s, NEW n \in Nat, s[n + 1] \in Seq(S), NEW f, Joins(S, s, f, n)
  PROVE  \E g : Joins(S, s, g, n + 1)
<1> DEFINE new == IF n = 0 THEN s[1] ELSE f[n] \o s[n + 1]
           g == [i \in 1..(n + 1) |-> IF i = n + 1 THEN new ELSE f[i]]
<1>1. new \in Seq(S)
  <2>1. CASE n = 0 BY <2>1
  <2>2. CASE n # 0
    <3>1. f[n] \in Seq(S) BY <2>2 DEF Joins
    <3>2. f[n] \o s[n + 1] \in Seq(S) BY <3>1
    <3> QED BY <3>2, <2>2
  <2> QED BY <2>1, <2>2
<1>2. \A i \in 1..n : f[i] \in Seq(S) BY DEF Joins
<1> HIDE DEF new
<1>3. g \in [1..(n + 1) -> Seq(S)] BY <1>1, <1>2
<1>4. g[1] = s[1]
  <2>1. CASE n = 0 BY <2>1 DEF new
  <2>2. CASE n # 0 BY <2>2 DEF Joins
  <2> QED BY <2>1, <2>2
<1>5. ASSUME NEW i \in 2..(n + 1) PROVE g[i] = g[i - 1] \o s[i]
  <2>1. i - 1 \in 1..n /\ g[i - 1] = f[i - 1] OBVIOUS
  <2>2. CASE i = n + 1
    <3>1. g[i] = new /\ n # 0 BY <2>2
    <3>2. new = f[n] \o s[n + 1] BY <3>1 DEF new
    <3>3. i - 1 = n /\ g[i - 1] = f[n] BY <2>1, <2>2
    <3> HIDE DEF g
    <3> QED BY <3>1, <3>2, <3>3, <2>2
  <2>3. CASE i # n + 1
    <3>1. i \in 2..n /\ g[i] = f[i] BY <2>3
    <3> QED BY <3>1, <2>1 DEF Joins
  <2> QED BY <2>2, <2>3
<1>6. Joins(S, s, g, n + 1) BY <1>3, <1>4, <1>5 DEF Joins
<1> QED BY <1>6

LEMMA JoinsExist ==
  ASSUME NEW S, NEW s \in Seq(Seq(S))
  PROVE  \E f : Joins(S, s, f, Len(s))
<1> DEFINE T == {n \in Nat : n <= Len(s) => \E f : Joins(S, s, f, n)}
<1>1. 0 \in T
  <2>1. Joins(S, s, [i \in 1..0 |-> << >>], 0) BY DEF Joins
  <2> QED BY <2>1
<1>2. ASSUME NEW n \in Nat, n \in T PROVE n + 1 \in T
  <2>1. CASE n + 1 <= Len(s)
    <3>1. s[n + 1] \in Seq(S) BY <2>1
    <3>2. PICK f : Joins(S, s, f, n) BY <1>2, <2>1
    <3> QED BY <3>1, <3>2, JoinsNext
  <2>2. CASE ~(n + 1 <= Len(s)) BY <2>2
  <2> QED BY <2>1, <2>2
<1>3. Len(s) \in Nat OBVIOUS
<1> HIDE DEF T
<1>4. Len(s) \in T BY <1>1, <1>2, <1>3, Induction
<1> QED BY <1>3, <1>4 DEF T

\* A function that follows FlattenSeq's recursion holds sequences.
LEMMA JoinsType ==
  ASSUME NEW S, NEW s, NEW n \in Nat, \A i \in 1..n : s[i] \in Seq(S),
         NEW f, n >= 1 => f[1] = s[1],
         \A i \in 2..n : f[i] = f[i - 1] \o s[i]
  PROVE  \A i \in 1..n : f[i] \in Seq(S)
<1> DEFINE U == {i \in Nat : i + 1 \in 1..n => f[i + 1] \in Seq(S)}
<1>1. 0 \in U OBVIOUS
<1>2. ASSUME NEW i \in Nat, i \in U PROVE i + 1 \in U
  <2>1. CASE i + 2 \in 1..n
    <3>1. i + 1 \in 1..n /\ i + 2 \in 2..n BY <2>1
    <3>2. f[i + 1] \in Seq(S) /\ s[i + 2] \in Seq(S) BY <1>2, <2>1, <3>1
    <3>3. f[i + 2] = f[i + 1] \o s[i + 2]
      <4>1. f[i + 2] = f[(i + 2) - 1] \o s[i + 2] BY <3>1
      <4>2. (i + 2) - 1 = i + 1 OBVIOUS
      <4> QED BY <4>1, <4>2
    <3>4. f[i + 2] \in Seq(S) BY <3>2, <3>3
    <3> QED BY <3>4
  <2>2. CASE i + 2 \notin 1..n BY <2>2
  <2> QED BY <2>1, <2>2
<1> HIDE DEF U
<1>3. \A i \in Nat : i \in U BY <1>1, <1>2, Induction
<1> SUFFICES ASSUME NEW i \in 1..n PROVE f[i] \in Seq(S)
  OBVIOUS
<1>4. i - 1 \in Nat /\ (i - 1) + 1 = i OBVIOUS
<1>5. i - 1 \in U BY <1>3, <1>4
<1> QED BY <1>4, <1>5 DEF U

\* FlattenSeq joins the sequences one after the other.
LEMMA FlattenJoins ==
  ASSUME NEW S, NEW s \in Seq(Seq(S)), s # << >>
  PROVE  \E f : Joins(S, s, f, Len(s)) /\ FlattenSeq(s) = f[Len(s)]
<1> DEFINE Next1(f, i) == IF i = 1 THEN s[i] ELSE f[i - 1] \o s[i]
           P(f) == f = [i \in 1..Len(s) |-> Next1(f, i)]
           flatten == CHOOSE f : P(f)
<1>0. Len(s) \in Nat \ {0} /\ \A i \in 1..Len(s) : s[i] \in Seq(S)
  OBVIOUS
<1>1. PICK g : Joins(S, s, g, Len(s))
  BY JoinsExist
<1>2. P(g)
  <2>1. g = [i \in 1..Len(s) |-> g[i]] BY <1>1 DEF Joins
  <2>2. ASSUME NEW i \in 1..Len(s) PROVE g[i] = Next1(g, i)
    <3>1. CASE i = 1
      <4>1. g[1] = s[1] BY <1>0, <1>1 DEF Joins
      <4> QED BY <3>1, <4>1
    <3>2. CASE i # 1
      <4>1. i \in 2..Len(s) BY <3>2, <1>0
      <4>2. g[i] = g[i - 1] \o s[i] BY <4>1, <1>1 DEF Joins
      <4> QED BY <3>2, <4>2
    <3> QED BY <3>1, <3>2
  <2> QED BY <2>1, <2>2
<1>3. P(flatten) BY <1>2, Zenon
<1>4. FlattenSeq(s) = flatten[Len(s)]
  BY <1>0 DEF FlattenSeq
<1> HIDE DEF flatten
<1>5. DOMAIN flatten = 1..Len(s) /\ \A i \in 1..Len(s) : flatten[i] = Next1(flatten, i)
  <2> DEFINE h == [i \in 1..Len(s) |-> Next1(flatten, i)]
  <2>1. flatten = h BY <1>3
  <2>2. DOMAIN h = 1..Len(s) /\ \A i \in 1..Len(s) : h[i] = Next1(flatten, i) OBVIOUS
  <2> HIDE DEF h
  <2> QED BY <2>1, <2>2
<1>6. flatten[1] = s[1]
  <2>1. 1 \in 1..Len(s) BY <1>0
  <2> HIDE DEF Next1
  <2>2. flatten[1] = Next1(flatten, 1) BY <2>1, <1>5
  <2> QED BY <2>2 DEF Next1
<1>7. ASSUME NEW i \in 2..Len(s) PROVE flatten[i] = flatten[i - 1] \o s[i]
  <2>1. i \in 1..Len(s) /\ i # 1 BY <1>0
  <2>2. flatten[i] = Next1(flatten, i) BY <1>5, <2>1
  <2> QED BY <2>1, <2>2
<1>8. \A i \in 1..Len(s) : flatten[i] \in Seq(S)
  BY <1>0, <1>6, <1>7, JoinsType
<1>9. flatten \in [1..Len(s) -> Seq(S)]
  <2>1. flatten = [i \in 1..Len(s) |-> flatten[i]]
    <3>1. flatten = [i \in 1..Len(s) |-> Next1(flatten, i)] BY <1>3
    <3> QED BY <3>1
  <2> HIDE DEF Next1
  <2> QED BY <2>1, <1>8
<1>10. Joins(S, s, flatten, Len(s)) BY <1>6, <1>7, <1>9 DEF Joins
<1> QED BY <1>4, <1>10
\* Where the i-th sequence starts in what f joins.
Start(f, i) == IF i = 1 THEN 0 ELSE Len(f[i - 1])

\* Every element of the first k sequences has its place, and there are no others.
Placed(s, f, k) ==
  /\ \A i \in 1..k : \A n \in 1..Len(s[i]) :
       Start(f, i) + n \in 1..Len(f[k]) /\ f[k][Start(f, i) + n] = s[i][n]
  /\ \A p \in 1..Len(f[k]) : \E i \in 1..k : \E n \in 1..Len(s[i]) : p = Start(f, i) + n

LEMMA PlacedNext ==
  ASSUME NEW S, NEW s, NEW N \in Nat, \A i \in 1..N : s[i] \in Seq(S),
         NEW f, Joins(S, s, f, N),
         NEW k \in Nat, k >= 1, k + 1 <= N, Placed(s, f, k)
  PROVE  Placed(s, f, k + 1)
<1>1. f[k] \in Seq(S) /\ s[k + 1] \in Seq(S) /\ f[k + 1] = f[k] \o s[k + 1]
  <2>1. k \in 1..N /\ k + 1 \in 2..N /\ (k + 1) - 1 = k OBVIOUS
  <2>2. f[k + 1] = f[(k + 1) - 1] \o s[k + 1] BY <2>1 DEF Joins
  <2>3. f[k] \in Seq(S) BY <2>1 DEF Joins
  <2> QED BY <2>1, <2>2, <2>3
<1> DEFINE u == f[k]
           v == s[k + 1]
<1>0. u \in Seq(S) /\ v \in Seq(S) /\ f[k + 1] = u \o v BY <1>1
<1> HIDE DEF u, v
<1>2. /\ Len(f[k + 1]) = Len(u) + Len(v)
      /\ \A p \in 1..(Len(u) + Len(v)) : f[k + 1][p] = IF p <= Len(u) THEN u[p] ELSE v[p - Len(u)]
      /\ Len(u) \in Nat /\ Len(v) \in Nat
  BY <1>0, ConcatProperties
<1>3. Start(f, k + 1) = Len(u)
  <2>1. k + 1 # 1 /\ (k + 1) - 1 = k OBVIOUS
  <2> QED BY <2>1 DEF Start, u
<1>4. ASSUME NEW i \in 1..(k + 1), NEW n \in 1..Len(s[i])
      PROVE  Start(f, i) + n \in 1..Len(f[k + 1]) /\ f[k + 1][Start(f, i) + n] = s[i][n]
  <2>1. CASE i = k + 1
    <3>1. Start(f, i) + n = Len(u) + n /\ n \in 1..Len(v) /\ s[i][n] = v[n] BY <2>1, <1>3 DEF v
    <3>2. Len(u) + n \in 1..(Len(u) + Len(v)) /\ ~(Len(u) + n <= Len(u)) /\ (Len(u) + n) - Len(u) = n
      BY <3>1, <1>2
    <3>3. f[k + 1][Len(u) + n] = v[n] BY <3>2, <1>2
    <3> QED BY <2>1, <3>1, <3>2, <3>3, <1>2
  <2>2. CASE i # k + 1
    <3>1. i \in 1..k BY <2>2
    <3>2. Start(f, i) + n \in 1..Len(u) /\ u[Start(f, i) + n] = s[i][n] BY <3>1 DEF Placed, u
    <3>3. Start(f, i) + n \in 1..(Len(u) + Len(v)) /\ Start(f, i) + n <= Len(u) BY <3>2, <1>2
    <3> QED BY <3>2, <3>3, <1>2
  <2> QED BY <2>1, <2>2
<1>5. ASSUME NEW p \in 1..Len(f[k + 1])
      PROVE  \E i \in 1..(k + 1) : \E n \in 1..Len(s[i]) : p = Start(f, i) + n
  <2>1. CASE p <= Len(u)
    <3>1. p \in 1..Len(f[k]) BY <2>1, <1>2 DEF u
    <3>2. PICK i \in 1..k : \E n \in 1..Len(s[i]) : p = Start(f, i) + n BY <3>1 DEF Placed
    <3>3. i \in 1..(k + 1) OBVIOUS
    <3> QED BY <3>2, <3>3
  <2>2. CASE ~(p <= Len(u))
    <3>1. p - Len(u) \in 1..Len(v) /\ p = Len(u) + (p - Len(u)) BY <2>2, <1>2
    <3>2. k + 1 \in 1..(k + 1) OBVIOUS
    <3> QED BY <3>1, <3>2, <1>3 DEF v
  <2> QED BY <2>1, <2>2
<1> QED BY <1>4, <1>5 DEF Placed

\* The i-th sequence of s is in flat after the first start[i] elements.
Places(s, flat, start) ==
  /\ start \in [1..(Len(s) + 1) -> Nat]
  /\ start[1] = 0
  /\ \A i \in 1..Len(s) : start[i + 1] = start[i] + Len(s[i])
  /\ start[Len(s) + 1] = Len(flat)
  /\ \A i \in 1..Len(s) : \A n \in 1..Len(s[i]) :
       start[i] + n \in 1..Len(flat) /\ flat[start[i] + n] = s[i][n]
  /\ \A p \in 1..Len(flat) : \E i \in 1..Len(s) : \E n \in 1..Len(s[i]) : p = start[i] + n

\* Every element of the sequences is in FlattenSeq at its place, and no others are.
LEMMA FlattenPlaces ==
  ASSUME NEW S, NEW s \in Seq(Seq(S))
  PROVE  FlattenSeq(s) \in Seq(S) /\ \E start : Places(s, FlattenSeq(s), start)
<1>1. CASE s = << >>
  <2>1. FlattenSeq(s) = << >> BY <1>1 DEF FlattenSeq
  <2>2. Len(s) = 0 /\ FlattenSeq(s) \in Seq(S) /\ Len(FlattenSeq(s)) = 0
    <3>1. << >> \in Seq(S) /\ Len(<< >>) = 0 BY EmptySeq
    <3> QED BY <1>1, <2>1, <3>1
  <2> DEFINE z == [i \in 1..(Len(s) + 1) |-> 0]
  <2>3. z \in [1..(Len(s) + 1) -> Nat] /\ z[1] = 0 /\ z[Len(s) + 1] = 0 BY <2>2
  <2> HIDE DEF z
  <2>4. \A i \in 1..Len(s) : FALSE BY <2>2
  <2>5. \A i \in 1..Len(FlattenSeq(s)) : FALSE BY <2>2
  <2>6. Places(s, FlattenSeq(s), z) BY <2>2, <2>3, <2>4, <2>5 DEF Places
  <2> QED BY <2>2, <2>6
<1>2. CASE s # << >>
  <2>0. Len(s) \in Nat \ {0} /\ \A i \in 1..Len(s) : s[i] \in Seq(S) BY <1>2
  <2>1. PICK f : Joins(S, s, f, Len(s)) /\ FlattenSeq(s) = f[Len(s)] BY <1>2, FlattenJoins
  <2>2. \A i \in 1..Len(s) : f[i] \in Seq(S) BY <2>1 DEF Joins
  <2> DEFINE start == [i \in 1..(Len(s) + 1) |-> Start(f, i)]
             T == {k \in Nat : k + 1 <= Len(s) => Placed(s, f, k + 1)}
  <2>3. Placed(s, f, 1)
    <3>1. f[1] = s[1] /\ Start(f, 1) = 0 BY <2>0, <2>1 DEF Joins, Start
    <3>2. s[1] \in Seq(S) /\ Len(s[1]) \in Nat BY <2>0
    <3> QED BY <3>1, <3>2 DEF Placed
  <2>4. 0 \in T BY <2>3
  <2>5. ASSUME NEW k \in Nat, k \in T PROVE k + 1 \in T
    <3>1. CASE k + 2 <= Len(s)
      <4>1. Placed(s, f, k + 1) BY <2>0, <2>5, <3>1
      <4>2. k + 1 \in Nat /\ k + 1 >= 1 /\ (k + 1) + 1 <= Len(s) BY <3>1
      <4>3. Placed(s, f, (k + 1) + 1) BY <4>1, <4>2, <2>0, <2>1, PlacedNext
      <4> QED BY <4>3
    <3>2. CASE ~(k + 2 <= Len(s)) BY <3>2
    <3> QED BY <3>1, <3>2
  <2>6. Placed(s, f, Len(s))
    <3> HIDE DEF T
    <3>1. \A k \in Nat : k \in T BY <2>4, <2>5, Induction
    <3>2. Len(s) - 1 \in T /\ (Len(s) - 1) + 1 = Len(s) BY <3>1, <2>0
    <3> QED BY <3>2, <2>0 DEF T
  <2>7. start \in [1..(Len(s) + 1) -> Nat]
    <3>1. ASSUME NEW i \in 1..(Len(s) + 1) PROVE Start(f, i) \in Nat
      <4>1. CASE i = 1 BY <4>1 DEF Start
      <4>2. CASE i # 1
        <5>1. i - 1 \in 1..Len(s) BY <4>2, <2>0
        <5>2. Len(f[i - 1]) \in Nat BY <5>1, <2>2
        <5> QED BY <5>2, <4>2 DEF Start
      <4> QED BY <4>1, <4>2
    <3> QED BY <3>1
  <2>8. \A i \in 1..(Len(s) + 1) : start[i] = Start(f, i) OBVIOUS
  <2>9. ASSUME NEW i \in 1..Len(s) PROVE start[i + 1] = start[i] + Len(s[i])
    <3>1. start[i] = Start(f, i) /\ start[i + 1] = Len(f[i])
      <4>1. i \in 1..(Len(s) + 1) /\ i + 1 \in 1..(Len(s) + 1) /\ i + 1 # 1 /\ (i + 1) - 1 = i BY <2>0
      <4> QED BY <4>1, <2>8 DEF Start
    <3>2. CASE i = 1
      <4>1. f[1] = s[1] /\ Len(s[1]) \in Nat BY <2>0, <2>1 DEF Joins
      <4> QED BY <4>1, <3>1, <3>2 DEF Start
    <3>3. CASE i # 1
      <4>1. i \in 2..Len(s) /\ i - 1 \in 1..Len(s) BY <3>3, <2>0
      <4>2. f[i] = f[i - 1] \o s[i] BY <4>1, <2>1 DEF Joins
      <4>3. Len(f[i]) = Len(f[i - 1]) + Len(s[i]) BY <4>1, <4>2, <2>0, <2>2, ConcatProperties
      <4> QED BY <4>3, <3>1, <3>3 DEF Start
    <3> QED BY <3>2, <3>3
  <2>10. start[1] = 0 /\ start[Len(s) + 1] = Len(FlattenSeq(s))
    <3>1. 1 \in 1..(Len(s) + 1) /\ Len(s) + 1 \in 1..(Len(s) + 1) /\ Len(s) + 1 # 1 /\ (Len(s) + 1) - 1 = Len(s)
      BY <2>0
    <3> QED BY <3>1, <2>1, <2>8 DEF Start
  <2>11. \A i \in 1..Len(s) : start[i] = Start(f, i) BY <2>0, <2>8
  <2>12. FlattenSeq(s) \in Seq(S) BY <2>0, <2>1, <2>2
  <2> HIDE DEF start
  <2>13. /\ \A i \in 1..Len(s) : \A n \in 1..Len(s[i]) :
              start[i] + n \in 1..Len(FlattenSeq(s)) /\ FlattenSeq(s)[start[i] + n] = s[i][n]
         /\ \A p \in 1..Len(FlattenSeq(s)) :
              \E i \in 1..Len(s) : \E n \in 1..Len(s[i]) : p = start[i] + n
    BY <2>1, <2>6, <2>11 DEF Placed
  <2>14. Places(s, FlattenSeq(s), start) BY <2>7, <2>9, <2>10, <2>13 DEF Places
  <2> QED BY <2>12, <2>14
<1> QED BY <1>1, <1>2

\* The numbers after a up to b.
Run(a, b) == [x \in 1..(b - a) |-> a + x]

LEMMA RunJoin ==
  ASSUME NEW a \in Nat, NEW b \in Nat, NEW c \in Nat, a <= b, b <= c
  PROVE  Run(a, b) \in Seq(Nat) /\ Run(a, b) \o Run(b, c) = Run(a, c)
<1>1. /\ Run(a, b) \in Seq(Nat) /\ Len(Run(a, b)) = b - a
      /\ \A x \in 1..(b - a) : Run(a, b)[x] = a + x
  BY DEF Run
<1>2. /\ Run(b, c) \in Seq(Nat) /\ Len(Run(b, c)) = c - b
      /\ \A x \in 1..(c - b) : Run(b, c)[x] = b + x
  BY DEF Run
<1>3. /\ Run(a, c) \in Seq(Nat) /\ Len(Run(a, c)) = c - a
      /\ \A x \in 1..(c - a) : Run(a, c)[x] = a + x
  BY DEF Run
<1> DEFINE j == Run(a, b) \o Run(b, c)
<1>4. /\ j \in Seq(Nat) /\ Len(j) = c - a
      /\ \A x \in 1..(c - a) : j[x] = IF x <= b - a THEN Run(a, b)[x] ELSE Run(b, c)[x - (b - a)]
  <2>1. /\ j \in Seq(Nat)
        /\ Len(j) = Len(Run(a, b)) + Len(Run(b, c))
        /\ \A x \in 1..(Len(Run(a, b)) + Len(Run(b, c))) :
             j[x] = IF x <= Len(Run(a, b)) THEN Run(a, b)[x] ELSE Run(b, c)[x - Len(Run(a, b))]
    BY <1>1, <1>2, ConcatProperties
  <2>2. Len(Run(a, b)) + Len(Run(b, c)) = c - a BY <1>1, <1>2
  <2> HIDE DEF j
  <2> QED BY <2>1, <2>2, <1>1
<1> HIDE DEF j
<1>5. ASSUME NEW x \in 1..(c - a) PROVE j[x] = Run(a, c)[x]
  <2>1. CASE x <= b - a BY <2>1, <1>1, <1>3, <1>4
  <2>2. CASE ~(x <= b - a)
    <3>1. x - (b - a) \in 1..(c - b) BY <2>2
    <3>2. Run(b, c)[x - (b - a)] = b + (x - (b - a)) BY <3>1, <1>2
    <3> QED BY <3>2, <2>2, <1>3, <1>4
  <2> QED BY <2>1, <2>2
<1>6. j = Run(a, c) BY <1>3, <1>4, <1>5, SeqEqual
<1> QED BY <1>1, <1>6 DEF j

\* Runs of numbers that follow each other make one run.
LEMMA FlattenRuns ==
  ASSUME NEW s \in Seq(Seq(Nat)), NEW m \in [0..Len(s) -> Nat],
         \A i \in 1..Len(s) : m[i - 1] <= m[i] /\ s[i] = Run(m[i - 1], m[i])
  PROVE  FlattenSeq(s) = Run(m[0], m[Len(s)]) /\ m[0] <= m[Len(s)]
<1>1. CASE s = << >>
  <2>1. FlattenSeq(s) = << >> /\ Len(s) = 0 BY <1>1 DEF FlattenSeq
  <2>2. m[0] \in Nat BY <2>1
  <2>3. Run(m[0], m[0]) = << >> BY <2>2 DEF Run
  <2> QED BY <2>1, <2>2, <2>3
<1>2. CASE s # << >>
  <2>0. Len(s) \in Nat \ {0} BY <1>2
  <2>1. PICK f : Joins(Nat, s, f, Len(s)) /\ FlattenSeq(s) = f[Len(s)] BY <1>2, FlattenJoins
  <2> DEFINE T == {k \in Nat : k + 1 <= Len(s) => m[0] <= m[k + 1] /\ f[k + 1] = Run(m[0], m[k + 1])}
  <2>2. 0 \in T
    <3>1. 1 \in 1..Len(s) /\ 1 - 1 = 0 BY <2>0
    <3>2. f[1] = s[1] BY <2>0, <2>1 DEF Joins
    <3>3. m[0] <= m[1] /\ s[1] = Run(m[0], m[1])
      <4>1. m[1 - 1] <= m[1] /\ s[1] = Run(m[1 - 1], m[1]) BY <3>1
      <4> QED BY <4>1, <3>1
    <3> QED BY <3>2, <3>3
  <2>3. ASSUME NEW k \in Nat, k \in T PROVE k + 1 \in T
    <3>1. CASE k + 2 <= Len(s)
      <4>1. m[0] <= m[k + 1] /\ f[k + 1] = Run(m[0], m[k + 1]) BY <2>3, <3>1, <2>0
      <4>2. k + 2 \in 2..Len(s) /\ k + 2 \in 1..Len(s) /\ (k + 2) - 1 = k + 1 BY <3>1, <2>0
      <4>3. m[k + 1] <= m[k + 2] /\ s[k + 2] = Run(m[k + 1], m[k + 2])
        <5>1. m[(k + 2) - 1] <= m[k + 2] /\ s[k + 2] = Run(m[(k + 2) - 1], m[k + 2]) BY <4>2
        <5> QED BY <5>1, <4>2
      <4>4. f[k + 2] = f[k + 1] \o s[k + 2]
        <5>1. f[k + 2] = f[(k + 2) - 1] \o s[k + 2] BY <4>2, <2>1 DEF Joins
        <5> QED BY <5>1, <4>2
      <4>5. m[0] \in Nat /\ m[k + 1] \in Nat /\ m[k + 2] \in Nat
        <5>1. 0 \in 0..Len(s) /\ k + 1 \in 0..Len(s) /\ k + 2 \in 0..Len(s) BY <4>2, <2>0
        <5> QED BY <5>1
      <4>6. f[k + 2] = Run(m[0], m[k + 2])
        <5>1. Run(m[0], m[k + 1]) \o Run(m[k + 1], m[k + 2]) = Run(m[0], m[k + 2])
          BY <4>1, <4>3, <4>5, RunJoin
        <5> QED BY <5>1, <4>1, <4>3, <4>4
      <4>7. m[0] <= m[k + 2] BY <4>1, <4>3, <4>5
      <4>8. (k + 1) + 1 = k + 2 OBVIOUS
      <4> QED BY <4>6, <4>7, <4>8
    <3>2. CASE ~(k + 2 <= Len(s)) BY <3>2
    <3> QED BY <3>1, <3>2
  <2> HIDE DEF T
  <2>4. \A k \in Nat : k \in T BY <2>2, <2>3, Induction
  <2>5. Len(s) - 1 \in T /\ (Len(s) - 1) + 1 = Len(s) BY <2>0, <2>4
  <2> QED BY <2>0, <2>1, <2>4, <2>5 DEF T
<1> QED BY <1>1, <1>2
-----------------------------------------------------------------------------
(* The bytes of a text. *)

Byte == Nat \X Nat \X Nat

\* bs are the bytes of t, and the c-th character's come after the first start[c].
Layout(t, bs, start) ==
  /\ start \in [1..(Len(t) + 1) -> Nat]
  /\ start[1] = 0
  /\ \A c \in 1..Len(t) : start[c + 1] = start[c] + t[c]
  /\ start[Len(t) + 1] = Len(bs)
  /\ \A c \in 1..Len(t) : \A n \in 1..t[c] :
       start[c] + n \in 1..Len(bs) /\ bs[start[c] + n] = <<c, n, t[c]>>
  /\ \A p \in 1..Len(bs) : \E c \in 1..Len(t) : \E n \in 1..t[c] : p = start[c] + n

LEMMA BytesLayout ==
  ASSUME NEW t \in Seq(1..4)
  PROVE  GetBytes(t) \in Seq(Byte) /\ \E start : Layout(t, GetBytes(t), start)
<1> DEFINE C(c) == [n \in 1..t[c] |-> <<c, n, t[c]>>]
           s == [c \in 1..Len(t) |-> C(c)]
<1>0. Len(t) \in Nat /\ \A c \in 1..Len(t) : t[c] \in 1..4
  OBVIOUS
<1>1. ASSUME NEW c \in 1..Len(t)
      PROVE  /\ C(c) \in Seq(Byte) /\ Len(C(c)) = t[c]
             /\ \A n \in 1..t[c] : C(c)[n] = <<c, n, t[c]>>
  <2>1. t[c] \in Nat BY <1>0
  <2>2. \A n \in 1..t[c] : <<c, n, t[c]>> \in Byte BY <2>1 DEF Byte
  <2> QED BY <2>1, <2>2
<1> HIDE DEF C
<1>2. s \in Seq(Seq(Byte)) /\ Len(s) = Len(t) /\ \A c \in 1..Len(t) : s[c] = C(c)
  BY <1>0, <1>1
<1>3. GetBytes(t) = FlattenSeq(s) BY DEF GetBytes, C
<1> HIDE DEF s
<1>4. FlattenSeq(s) \in Seq(Byte) /\ \E start : Places(s, FlattenSeq(s), start)
  BY <1>2, FlattenPlaces
<1>5. PICK start : Places(s, FlattenSeq(s), start)
  BY <1>4
<1>6. \A c \in 1..Len(t) : Len(s[c]) = t[c] /\ \A n \in 1..t[c] : s[c][n] = <<c, n, t[c]>>
  BY <1>1, <1>2
<1>7. \A c \in 1..Len(t) : start[c + 1] = start[c] + t[c]
  BY <1>2, <1>5, <1>6 DEF Places
<1>8. ASSUME NEW c \in 1..Len(t), NEW n \in 1..t[c]
      PROVE  start[c] + n \in 1..Len(FlattenSeq(s)) /\ FlattenSeq(s)[start[c] + n] = <<c, n, t[c]>>
  <2>1. c \in 1..Len(s) /\ n \in 1..Len(s[c]) BY <1>2, <1>6
  <2> QED BY <2>1, <1>5, <1>6 DEF Places
<1>9. ASSUME NEW p \in 1..Len(FlattenSeq(s))
      PROVE  \E c \in 1..Len(t) : \E n \in 1..t[c] : p = start[c] + n
  <2>1. PICK c \in 1..Len(s) : \E n \in 1..Len(s[c]) : p = start[c] + n BY <1>5 DEF Places
  <2>2. c \in 1..Len(t) /\ Len(s[c]) = t[c] BY <1>2, <1>6
  <2> QED BY <2>1, <2>2
<1>10. start \in [1..(Len(t) + 1) -> Nat] /\ start[1] = 0 /\ start[Len(t) + 1] = Len(FlattenSeq(s))
  BY <1>2, <1>5 DEF Places
<1>11. Layout(t, FlattenSeq(s), start)
  BY <1>7, <1>8, <1>9, <1>10 DEF Layout
<1> QED BY <1>3, <1>4, <1>11

\* The p-th byte is the n-th of the c-th character.
ByteOf(t, bs, start, p, c, n) ==
  /\ c \in 1..Len(t) /\ n \in 1..t[c] /\ t[c] \in 1..4
  /\ start[c] \in Nat /\ p = start[c] + n
  /\ bs[p] = <<c, n, t[c]>>

LEMMA ByteAt ==
  ASSUME NEW t \in Seq(1..4), NEW bs \in Seq(Byte), NEW start, Layout(t, bs, start),
         NEW p \in 1..Len(bs)
  PROVE  \E c, n : ByteOf(t, bs, start, p, c, n)
<1>1. PICK c \in 1..Len(t) : \E n \in 1..t[c] : p = start[c] + n BY DEF Layout
<1>2. PICK n \in 1..t[c] : p = start[c] + n BY <1>1
<1>3. bs[p] = <<c, n, t[c]>> BY <1>2 DEF Layout
<1>4. t[c] \in 1..4 OBVIOUS
<1>5. start[c] \in Nat
  <2>1. c \in 1..(Len(t) + 1) OBVIOUS
  <2> QED BY <2>1 DEF Layout
<1>6. ByteOf(t, bs, start, p, c, n) BY <1>2, <1>3, <1>4, <1>5 DEF ByteOf
<1> QED BY <1>6

LEMMA OneFurther ==
  ASSUME NEW a \in Nat, NEW d \in Nat, NEW n \in 1..d, n < d
  PROVE  n + 1 \in 1..d /\ a + (n + 1) = a + n + 1
OBVIOUS

\* The byte that follows: the character's next, or the next character's first.
LEMMA ByteOrder ==
  ASSUME NEW t \in Seq(1..4), NEW bs \in Seq(Byte), NEW start, Layout(t, bs, start)
  PROVE  /\ bs # << >> => bs[1][1] = 1 /\ bs[1][2] = 1
         /\ \A p \in 1..(Len(bs) - 1) :
              IF bs[p][2] < bs[p][3]
                THEN bs[p + 1] = <<bs[p][1], bs[p][2] + 1, bs[p][3]>>
                ELSE bs[p + 1][1] = bs[p][1] + 1 /\ bs[p + 1][2] = 1
<1>0. Len(t) \in Nat /\ Len(bs) \in Nat OBVIOUS
<1>1. ASSUME bs # << >> PROVE bs[1][1] = 1 /\ bs[1][2] = 1
  <2>1. 1 \in 1..Len(bs) BY <1>0, <1>1
  <2>2. PICK c \in 1..Len(t) : \E n \in 1..t[c] : 1 = start[c] + n BY <2>1 DEF Layout
  <2>3. 1 \in 1..Len(t) /\ t[1] \in 1..4 BY <1>0, <2>2
  <2>4. start[1] = 0 /\ \A n \in 1..t[1] : bs[start[1] + n] = <<1, n, t[1]>> BY <2>3 DEF Layout
  <2>5. bs[0 + 1] = <<1, 1, t[1]>>
    <3>1. 1 \in 1..t[1] BY <2>3
    <3> QED BY <3>1, <2>4
  <2> QED BY <2>5
<1>2. ASSUME NEW p \in 1..(Len(bs) - 1)
      PROVE  IF bs[p][2] < bs[p][3]
               THEN bs[p + 1] = <<bs[p][1], bs[p][2] + 1, bs[p][3]>>
               ELSE bs[p + 1][1] = bs[p][1] + 1 /\ bs[p + 1][2] = 1
  <2>0. p \in 1..Len(bs) BY <1>0
  <2>1. PICK c, n : ByteOf(t, bs, start, p, c, n) BY <2>0, ByteAt
  <2>2. /\ c \in 1..Len(t) /\ n \in 1..t[c] /\ t[c] \in 1..4
        /\ start[c] \in Nat /\ p = start[c] + n
        /\ bs[p] = <<c, n, t[c]>>
    BY <2>1 DEF ByteOf
  <2>3. CASE n < t[c]
    <3>1. n + 1 \in 1..t[c] /\ start[c] + (n + 1) = p + 1
      <4>1. t[c] \in Nat BY <2>2
      <4>2. n + 1 \in 1..t[c] /\ start[c] + (n + 1) = start[c] + n + 1
        BY <4>1, <2>2, <2>3, OneFurther, Zenon
      <4> QED BY <4>2, <2>2, Zenon
    <3>2. \A k \in 1..t[c] : bs[start[c] + k] = <<c, k, t[c]>> BY <2>2 DEF Layout
    <3>3. bs[p + 1] = <<c, n + 1, t[c]>> BY <3>1, <3>2
    <3> QED BY <2>2, <2>3, <3>3
  <2>4. CASE ~(n < t[c])
    <3>1. n = t[c] BY <2>2, <2>4
    <3>2. start[c + 1] = p BY <2>2, <3>1 DEF Layout
    <3>3. c # Len(t)
      <4>1. start[Len(t) + 1] = Len(bs) BY DEF Layout
      <4> QED BY <3>2, <4>1, <1>0
    <3>4. c + 1 \in 1..Len(t) BY <3>3, <2>2, <1>0
    <3>5. t[c + 1] \in 1..4 BY <3>4
    <3>6. 1 \in 1..t[c + 1] BY <3>5
    <3>7. bs[start[c + 1] + 1] = <<c + 1, 1, t[c + 1]>> BY <3>4, <3>6 DEF Layout
    <3>8. bs[p + 1] = <<c + 1, 1, t[c + 1]>> BY <3>2, <3>7
    <3>9. ~(bs[p][2] < bs[p][3]) /\ bs[p][1] = c BY <2>2, <2>4
    <3> QED BY <3>8, <3>9
  <2> QED BY <2>3, <2>4
<1> QED BY <1>1, <1>2

\* The characters that the first p bytes belong to.
Begun(bs, p) == IF p = 0 THEN 0 ELSE bs[p][1]

LEMMA BegunNext ==
  ASSUME NEW t \in Seq(1..4), NEW bs \in Seq(Byte), NEW start, Layout(t, bs, start),
         NEW p \in 0..(Len(bs) - 1)
  PROVE  /\ Begun(bs, p) \in Nat /\ Begun(bs, p + 1) = bs[p + 1][1]
         /\ bs[p + 1][1] = IF bs[p + 1][2] = 1 THEN Begun(bs, p) + 1 ELSE Begun(bs, p)
<1>0. Len(bs) \in Nat /\ p + 1 # 0 OBVIOUS
<1>1. Begun(bs, p + 1) = bs[p + 1][1] BY <1>0 DEF Begun
<1>2. CASE p = 0
  <2>1. bs # << >> BY <1>0, <1>2
  <2>2. bs[p + 1][1] = 1 /\ bs[p + 1][2] = 1 BY <1>2, <2>1, ByteOrder
  <2> QED BY <1>1, <1>2, <2>2 DEF Begun
<1>3. CASE p # 0
  <2>1. p \in 1..(Len(bs) - 1) /\ p \in 1..Len(bs) BY <1>0, <1>3
  <2>2. IF bs[p][2] < bs[p][3]
          THEN bs[p + 1] = <<bs[p][1], bs[p][2] + 1, bs[p][3]>>
          ELSE bs[p + 1][1] = bs[p][1] + 1 /\ bs[p + 1][2] = 1
    BY <2>1, ByteOrder
  <2>3. bs[p] \in Byte BY <2>1
  <2>4. PICK c, n : ByteOf(t, bs, start, p, c, n) BY <2>1, ByteAt
  <2>5. bs[p][1] \in Nat /\ bs[p][2] \in Nat /\ bs[p][2] >= 1 BY <2>4 DEF ByteOf
  <2>6. Begun(bs, p) = bs[p][1] BY <1>3 DEF Begun
  <2>7. CASE bs[p][2] < bs[p][3]
    <3>1. bs[p + 1][1] = bs[p][1] /\ bs[p + 1][2] = bs[p][2] + 1 BY <2>2, <2>7
    <3>2. bs[p + 1][2] # 1 BY <3>1, <2>5
    <3> QED BY <3>1, <3>2, <2>5, <2>6, <1>1
  <2>8. CASE ~(bs[p][2] < bs[p][3])
    <3>1. bs[p + 1][1] = bs[p][1] + 1 /\ bs[p + 1][2] = 1 BY <2>2, <2>8
    <3> QED BY <3>1, <2>5, <2>6, <1>1
  <2> QED BY <2>7, <2>8
<1> QED BY <1>2, <1>3
-----------------------------------------------------------------------------
(* Reading cells. *)

\* cell holds the bytes of bs after the first off.
Window(bs, off, cell) ==
  /\ cell \in Seq(Byte) /\ off \in Nat /\ off + Len(cell) <= Len(bs)
  /\ \A j \in 1..Len(cell) : cell[j] = bs[off + j]

\* No character lies across the end of the first p bytes.
Clean(bs, p) == p \in 1..(Len(bs) - 1) => bs[p][1] # bs[p + 1][1]

\* GetString's Whole and Shown.
WholeIn(cell, b) == \A n \in 1..b[3] : Contains(cell, <<b[1], n, b[3]>>)
ShownIn(cell, b) ==
  IF ~WholeIn(cell, b) THEN <<Unreadable>> ELSE IF b[2] = 1 THEN <<b[1]>> ELSE << >>

LEMMA GetStringIs ==
  ASSUME NEW cell \in Seq(Byte)
  PROVE  LET s == [i \in 1..Len(cell) |-> ShownIn(cell, cell[i])]
         IN /\ GetString(cell) = FlattenSeq(s)
            /\ s \in Seq(Seq(Nat)) /\ Len(s) = Len(cell)
<1> DEFINE s == [i \in 1..Len(cell) |-> ShownIn(cell, cell[i])]
<1>1. GetString(cell) = FlattenSeq(s) BY DEF GetString, ShownIn, WholeIn
<1>2. ASSUME NEW i \in 1..Len(cell) PROVE ShownIn(cell, cell[i]) \in Seq(Nat)
  <2>1. cell[i][1] \in Nat /\ Unreadable \in Nat BY DEF Byte, Unreadable
  <2>2. <<cell[i][1]>> \in Seq(Nat) /\ <<Unreadable>> \in Seq(Nat) /\ << >> \in Seq(Nat) BY <2>1
  <2> QED BY <2>2 DEF ShownIn
<1>3. s \in Seq(Seq(Nat)) /\ Len(s) = Len(cell) BY <1>2
<1> QED BY <1>1, <1>3

\* A number between a and the end of the d numbers that follow.
LEMMA Inside ==
  ASSUME NEW a \in Nat, NEW d \in Nat, NEW b \in Nat, a < b, b + 1 <= a + d
  PROVE  b - a \in 1..d /\ b - a + 1 \in 1..d
OBVIOUS

LEMMA Offset ==
  ASSUME NEW a \in Nat, NEW b \in Nat
  PROVE  a + (b - a) = b /\ a + (b - a + 1) = b + 1
OBVIOUS

\* In a window without torn characters every character is whole.
LEMMA WindowWhole ==
  ASSUME NEW t \in Seq(1..4), NEW bs \in Seq(Byte), NEW start, Layout(t, bs, start),
         NEW off, NEW cell, Window(bs, off, cell),
         Clean(bs, off), Clean(bs, off + Len(cell)),
         NEW j \in 1..Len(cell)
  PROVE  WholeIn(cell, cell[j])
<1>0. Len(cell) \in Nat /\ Len(bs) \in Nat /\ off \in Nat /\ off + Len(cell) <= Len(bs)
  BY DEF Window
<1>1. off + j \in 1..Len(bs) BY <1>0
<1>2. PICK c, n : ByteOf(t, bs, start, off + j, c, n) BY <1>1, ByteAt
<1>3. /\ c \in 1..Len(t) /\ n \in 1..t[c] /\ t[c] \in 1..4
      /\ start[c] \in Nat /\ off + j = start[c] + n
      /\ bs[off + j] = <<c, n, t[c]>>
  BY <1>2 DEF ByteOf
<1>9. /\ j \in Nat /\ n \in Nat /\ t[c] \in Nat /\ start[c] \in Nat
      /\ 1 <= j /\ j <= Len(cell) /\ 1 <= n /\ n <= t[c] /\ off + j = start[c] + n
  BY <1>0, <1>3
<1>4. cell[j] = <<c, n, t[c]>> BY <1>3 DEF Window
<1>5. \A k \in 1..t[c] : start[c] + k \in 1..Len(bs) /\ bs[start[c] + k] = <<c, k, t[c]>>
  BY <1>3 DEF Layout
<1>6. start[c] >= off
  <2> SUFFICES ASSUME start[c] < off PROVE FALSE
    BY <1>0, <1>3
  <2>0. off + 1 <= start[c] + t[c] BY <1>0, <1>9
  <2>1. off - start[c] \in 1..t[c] /\ off - start[c] + 1 \in 1..t[c]
    BY <2>0, <1>0, <1>9, Inside
  <2>2. bs[start[c] + (off - start[c])] = <<c, off - start[c], t[c]>>
    BY <2>1, <1>5
  <2>3. bs[start[c] + (off - start[c] + 1)] = <<c, off - start[c] + 1, t[c]>>
    BY <2>1, <1>5
  <2>4. start[c] + (off - start[c]) = off /\ start[c] + (off - start[c] + 1) = off + 1
    BY <1>0, <1>9, Offset, Zenon
  <2>5. bs[off][1] = c /\ bs[off + 1][1] = c BY <2>2, <2>3, <2>4
  <2>6. off \in 1..(Len(bs) - 1) BY <1>0, <1>3
  <2> QED BY <2>5, <2>6 DEF Clean
<1>7. start[c] + t[c] <= off + Len(cell)
  <2> DEFINE e == off + Len(cell)
  <2>0. e \in Nat BY <1>0
  <2> SUFFICES ASSUME e < start[c] + t[c] PROVE FALSE
    <3>1. e \in Nat /\ start[c] + t[c] \in Nat BY <2>0, <1>9
    <3>2. start[c] + t[c] <= e \/ e < start[c] + t[c]
      <4> HIDE DEF e
      <4> QED BY <3>1
    <3> QED BY <3>2
  <2>1. e - start[c] \in 1..t[c] /\ e - start[c] + 1 \in 1..t[c]
    <3>1. Len(cell) \in Nat /\ off \in Nat BY <1>0
    <3>2. start[c] + 1 <= e /\ e + 1 <= start[c] + t[c] BY <3>1, <2>0, <1>9
    <3>3. start[c] \in Nat /\ t[c] \in Nat /\ start[c] < e BY <3>2, <2>0, <1>9
    <3> HIDE DEF e
    <3> QED BY <3>2, <3>3, <2>0, Inside, Zenon
  <2>2. bs[start[c] + (e - start[c])] = <<c, e - start[c], t[c]>>
    BY <2>1, <1>5
  <2>3. /\ start[c] + (e - start[c] + 1) \in 1..Len(bs)
        /\ bs[start[c] + (e - start[c] + 1)] = <<c, e - start[c] + 1, t[c]>>
    BY <2>1, <1>5
  <2>4. start[c] + (e - start[c]) = e /\ start[c] + (e - start[c] + 1) = e + 1
    <3> HIDE DEF e
    <3> QED BY <2>0, <1>9, Offset, Zenon
  <2>5. bs[e][1] = c /\ bs[e + 1][1] = c BY <2>2, <2>3, <2>4
  <2>6. e \in 1..(Len(bs) - 1)
    <3>1. e >= 1 BY <1>0, <1>3
    <3>2. e + 1 <= Len(bs) BY <2>3, <2>4
    <3> QED BY <3>1, <3>2, <2>0, <1>0
  <2> HIDE DEF e
  <2>7. Clean(bs, e) BY DEF e
  <2>8. bs[e][1] # bs[e + 1][1] BY <2>6, <2>7 DEF Clean
  <2> QED BY <2>5, <2>8
<1>8. ASSUME NEW k \in 1..t[c] PROVE Contains(cell, <<c, k, t[c]>>)
  <2>1. start[c] + k - off \in 1..Len(cell)
    <3>1. /\ start[c] \in Nat /\ t[c] \in Nat /\ off \in Nat /\ Len(cell) \in Nat /\ k \in 1..t[c]
          /\ start[c] >= off /\ start[c] + t[c] <= off + Len(cell)
      BY <1>0, <1>9, <1>6, <1>7
    <3> QED BY <3>1
  <2>2. off + (start[c] + k - off) = start[c] + k BY <1>0, <1>3
  <2>3. cell[start[c] + k - off] = bs[off + (start[c] + k - off)] BY <2>1 DEF Window
  <2>4. cell[start[c] + k - off] = <<c, k, t[c]>> BY <2>2, <2>3, <1>5
  <2> QED BY <2>1, <2>4 DEF Contains
<1> QED BY <1>4, <1>8 DEF WholeIn

\* A window without torn characters is read as the characters that begin in it.
LEMMA ReadClean ==
  ASSUME NEW t \in Seq(1..4), NEW bs \in Seq(Byte), NEW start, Layout(t, bs, start),
         NEW off, NEW cell, Window(bs, off, cell),
         Clean(bs, off), Clean(bs, off + Len(cell))
  PROVE  /\ GetString(cell) = Run(Begun(bs, off), Begun(bs, off + Len(cell)))
         /\ Begun(bs, off) <= Begun(bs, off + Len(cell))
<1> DEFINE s == [i \in 1..Len(cell) |-> ShownIn(cell, cell[i])]
           m == [i \in 0..Len(cell) |-> Begun(bs, off + i)]
<1>0. /\ Len(cell) \in Nat /\ Len(bs) \in Nat /\ off \in Nat /\ off + Len(cell) <= Len(bs)
      /\ cell \in Seq(Byte)
  BY DEF Window
<1>1. GetString(cell) = FlattenSeq(s) /\ s \in Seq(Seq(Nat)) /\ Len(s) = Len(cell)
  BY <1>0, GetStringIs
<1>2. ASSUME NEW i \in 0..Len(cell) PROVE Begun(bs, off + i) \in Nat
  <2>1. CASE off + i = 0 BY <2>1 DEF Begun
  <2>2. CASE off + i # 0
    <3>1. off + i \in 1..Len(bs) BY <1>0, <2>2
    <3>2. bs[off + i] \in Byte BY <3>1
    <3>3. bs[off + i][1] \in Nat BY <3>2 DEF Byte
    <3> QED BY <3>3, <2>2 DEF Begun
  <2> QED BY <2>1, <2>2
<1>3. m \in [0..Len(cell) -> Nat] BY <1>2
<1>4. ASSUME NEW i \in 1..Len(cell)
      PROVE  m[i - 1] <= m[i] /\ s[i] = Run(m[i - 1], m[i])
  <2>0. i \in 0..Len(cell) /\ i - 1 \in 0..Len(cell) BY <1>0
  <2>1. m[i] = Begun(bs, off + i) /\ m[i - 1] = Begun(bs, off + (i - 1)) BY <2>0
  <2> DEFINE p == off + (i - 1)
  <2>2. p \in 0..(Len(bs) - 1) /\ p + 1 = off + i BY <1>0
  <2> HIDE DEF p
  <2>3. /\ Begun(bs, p) \in Nat /\ Begun(bs, p + 1) = bs[p + 1][1]
        /\ bs[p + 1][1] = IF bs[p + 1][2] = 1 THEN Begun(bs, p) + 1 ELSE Begun(bs, p)
    BY <2>2, BegunNext
  <2>4. WholeIn(cell, cell[i]) BY WindowWhole
  <2>5. cell[i] = bs[p + 1] BY <2>2 DEF Window
  <2>6. s[i] = IF bs[p + 1][2] = 1 THEN <<bs[p + 1][1]>> ELSE << >>
    BY <2>4, <2>5 DEF ShownIn
  <2>7. m[i] = bs[p + 1][1] /\ m[i - 1] = Begun(bs, p) BY <2>1, <2>2, <2>3 DEF p
  <2> HIDE DEF m, s
  <2>8. CASE bs[p + 1][2] = 1
    <3>1. m[i] = m[i - 1] + 1 /\ m[i - 1] \in Nat BY <2>3, <2>7, <2>8
    <3>2. Run(m[i - 1], m[i]) = <<m[i]>>
      <4>1. m[i] - m[i - 1] = 1 BY <3>1
      <4>2. Run(m[i - 1], m[i]) = [x \in 1..1 |-> m[i - 1] + x] BY <4>1 DEF Run
      <4> QED BY <4>2, <3>1
    <3> QED BY <3>1, <3>2, <2>6, <2>7, <2>8
  <2>9. CASE bs[p + 1][2] # 1
    <3>1. m[i] = m[i - 1] /\ m[i - 1] \in Nat BY <2>3, <2>7, <2>9
    <3>2. Run(m[i - 1], m[i]) = << >>
      <4>1. m[i] - m[i - 1] = 0 BY <3>1
      <4> QED BY <4>1 DEF Run
    <3> QED BY <3>1, <3>2, <2>6, <2>9
  <2> QED BY <2>8, <2>9
<1>5. m[0] = Begun(bs, off) /\ m[Len(cell)] = Begun(bs, off + Len(cell))
  BY <1>0
<1> HIDE DEF m, s
<1>6. FlattenSeq(s) = Run(m[0], m[Len(s)]) /\ m[0] <= m[Len(s)]
  BY <1>1, <1>3, <1>4, FlattenRuns
<1> QED BY <1>1, <1>5, <1>6
\* What GetString returns comes from the bytes of the cell: its characters are
\* those whose first byte is there, and a byte of a torn one leaves a mark.
LEMMA GetStringElements ==
  ASSUME NEW cell \in Seq(Byte)
  PROVE  /\ GetString(cell) \in Seq(Nat)
         /\ \A i \in 1..Len(cell) : ~WholeIn(cell, cell[i]) =>
              \E x \in 1..Len(GetString(cell)) : GetString(cell)[x] = 0
         /\ \A x \in 1..Len(GetString(cell)) : GetString(cell)[x] # 0 =>
              \E i \in 1..Len(cell) : cell[i][1] = GetString(cell)[x] /\ cell[i][2] = 1
<1> DEFINE s == [i \in 1..Len(cell) |-> ShownIn(cell, cell[i])]
           g == GetString(cell)
<1>1. g = FlattenSeq(s) /\ s \in Seq(Seq(Nat)) /\ Len(s) = Len(cell)
  BY GetStringIs
<1>2. \A i \in 1..Len(cell) : s[i] = ShownIn(cell, cell[i]) OBVIOUS
<1> HIDE DEF s, g
<1>3. g \in Seq(Nat) BY <1>1, FlattenPlaces
<1>4. PICK start : Places(s, g, start) BY <1>1, FlattenPlaces
<1>5. ASSUME NEW i \in 1..Len(cell), ~WholeIn(cell, cell[i])
      PROVE  \E x \in 1..Len(g) : g[x] = 0
  <2>1. s[i] = <<0>> BY <1>2, <1>5 DEF ShownIn, Unreadable
  <2>2. Len(s[i]) = 1 /\ s[i][1] = 0 BY <2>1
  <2>3. i \in 1..Len(s) /\ 1 \in 1..Len(s[i]) BY <1>1, <2>2
  <2>4. start[i] + 1 \in 1..Len(g) /\ g[start[i] + 1] = s[i][1] BY <1>4, <2>3 DEF Places
  <2> QED BY <2>2, <2>4
<1>6. ASSUME NEW x \in 1..Len(g), g[x] # 0
      PROVE  \E i \in 1..Len(cell) : cell[i][1] = g[x] /\ cell[i][2] = 1
  <2>1. PICK i \in 1..Len(s) : \E n \in 1..Len(s[i]) : x = start[i] + n BY <1>4 DEF Places
  <2>2. PICK n \in 1..Len(s[i]) : x = start[i] + n BY <2>1
  <2>3. g[x] = s[i][n] BY <1>4, <2>2 DEF Places
  <2>4. i \in 1..Len(cell) /\ s[i] = ShownIn(cell, cell[i]) BY <1>1, <1>2
  <2>5. CASE ~WholeIn(cell, cell[i])
    <3>1. s[i] = <<0>> BY <2>4, <2>5 DEF ShownIn, Unreadable
    <3>2. n = 1 /\ s[i][n] = 0 BY <2>2, <3>1
    <3> QED BY <2>3, <3>2, <1>6
  <2>6. CASE WholeIn(cell, cell[i]) /\ cell[i][2] = 1
    <3>1. s[i] = <<cell[i][1]>> BY <2>4, <2>6 DEF ShownIn
    <3>2. n = 1 /\ s[i][n] = cell[i][1] BY <2>2, <3>1
    <3> QED BY <2>3, <2>4, <2>6, <3>2
  <2>7. CASE WholeIn(cell, cell[i]) /\ cell[i][2] # 1
    <3>1. s[i] = << >> BY <2>4, <2>7 DEF ShownIn
    <3>2. FALSE BY <2>2, <3>1
    <3> QED BY <3>2
  <2> QED BY <2>5, <2>6, <2>7
<1> QED BY <1>3, <1>5, <1>6 DEF g

\* A character that has a byte in the window and another one outside is torn.
LEMMA ReadTorn ==
  ASSUME NEW t \in Seq(1..4), NEW bs \in Seq(Byte), NEW start, Layout(t, bs, start),
         NEW off, NEW cell, Window(bs, off, cell),
         NEW j \in 1..Len(cell), NEW p \in 1..Len(bs), p \notin (off + 1)..(off + Len(cell)),
         bs[p][1] = cell[j][1]
  PROVE  \E x \in 1..Len(GetString(cell)) : GetString(cell)[x] = 0
<1>0. /\ Len(cell) \in Nat /\ Len(bs) \in Nat /\ off \in Nat /\ off + Len(cell) <= Len(bs)
      /\ cell \in Seq(Byte)
  BY DEF Window
<1>1. off + j \in 1..Len(bs) BY <1>0
<1>2. PICK c, n : ByteOf(t, bs, start, off + j, c, n) BY <1>1, ByteAt
<1>3. PICK d, k : ByteOf(t, bs, start, p, d, k) BY ByteAt
<1>4. cell[j] = bs[off + j] BY DEF Window
<1>5. cell[j] = <<c, n, t[c]>> /\ d = c BY <1>2, <1>3, <1>4 DEF ByteOf
<1>6. k \in 1..t[c] /\ p = start[c] + k /\ start[c] \in Nat BY <1>3, <1>5 DEF ByteOf
<1>7. ~Contains(cell, <<c, k, t[c]>>)
  <2> SUFFICES ASSUME NEW i \in 1..Len(cell), cell[i] = <<c, k, t[c]>> PROVE FALSE
    BY DEF Contains
  <2>1. off + i \in 1..Len(bs) BY <1>0
  <2>2. PICK a, b : ByteOf(t, bs, start, off + i, a, b) BY <2>1, ByteAt
  <2>3. cell[i] = bs[off + i] BY DEF Window
  <2>4. a = c /\ b = k BY <2>2, <2>3 DEF ByteOf
  <2>5. off + i = p BY <1>6, <2>2, <2>4 DEF ByteOf
  <2>6. off + i \in (off + 1)..(off + Len(cell)) BY <1>0
  <2> QED BY <2>5, <2>6
<1>8. ~WholeIn(cell, cell[j]) BY <1>5, <1>6, <1>7 DEF WholeIn
<1> QED BY <1>0, <1>8, GetStringElements

LEMMA LoadStringElements ==
  ASSUME NEW chain \in Seq(Seq(Byte))
  PROVE  /\ LoadString(chain) \in Seq(Nat)
         /\ \A i \in 1..Len(chain) : \A x \in 1..Len(GetString(chain[i])) :
              \E y \in 1..Len(LoadString(chain)) : LoadString(chain)[y] = GetString(chain[i])[x]
         /\ \A y \in 1..Len(LoadString(chain)) :
              \E i \in 1..Len(chain) : \E x \in 1..Len(GetString(chain[i])) :
                 LoadString(chain)[y] = GetString(chain[i])[x]
<1> DEFINE s == [i \in 1..Len(chain) |-> GetString(chain[i])]
           g == LoadString(chain)
<1>1. g = FlattenSeq(s) BY DEF LoadString
<1>2. \A i \in 1..Len(chain) : GetString(chain[i]) \in Seq(Nat) BY GetStringElements
<1>3. s \in Seq(Seq(Nat)) /\ Len(s) = Len(chain)
  <2> HIDE DEF g
  <2> QED BY <1>2
<1>4. \A i \in 1..Len(chain) : s[i] = GetString(chain[i]) OBVIOUS
<1> HIDE DEF s, g
<1>5. g \in Seq(Nat) BY <1>1, <1>3, FlattenPlaces
<1>6. PICK start : Places(s, g, start) BY <1>1, <1>3, FlattenPlaces
<1>7. ASSUME NEW i \in 1..Len(chain), NEW x \in 1..Len(GetString(chain[i]))
      PROVE  \E y \in 1..Len(g) : g[y] = GetString(chain[i])[x]
  <2>1. i \in 1..Len(s) /\ x \in 1..Len(s[i]) BY <1>3, <1>4
  <2>2. start[i] + x \in 1..Len(g) /\ g[start[i] + x] = s[i][x] BY <1>6, <2>1 DEF Places
  <2> QED BY <1>4, <2>2
<1>8. ASSUME NEW y \in 1..Len(g)
      PROVE  \E i \in 1..Len(chain) : \E x \in 1..Len(GetString(chain[i])) : g[y] = GetString(chain[i])[x]
  <2>1. PICK i \in 1..Len(s) : \E n \in 1..Len(s[i]) : y = start[i] + n BY <1>6 DEF Places
  <2>2. PICK n \in 1..Len(s[i]) : y = start[i] + n BY <2>1
  <2>3. g[y] = s[i][n] BY <1>6, <2>2 DEF Places
  <2>4. i \in 1..Len(chain) /\ s[i] = GetString(chain[i]) BY <1>3, <1>4
  <2> QED BY <2>2, <2>3, <2>4
<1> QED BY <1>5, <1>7, <1>8 DEF g
-----------------------------------------------------------------------------
(* Writing cells. *)

LEMMA TimesMonotone ==
  ASSUME NEW a \in Nat, NEW b \in Nat, NEW c \in Nat, a <= b
  PROVE  a * c <= b * c /\ a * c \in Nat /\ b * c \in Nat
<1> DEFINE T == {n \in Nat : a * c <= (a + n) * c}
<1>0. a * c \in Nat /\ b * c \in Nat OBVIOUS
<1>1. 0 \in T OBVIOUS
<1>2. ASSUME NEW n \in Nat, n \in T PROVE n + 1 \in T
  <2>1. (a + (n + 1)) * c = (a + n) * c + c OBVIOUS
  <2>2. (a + n) * c \in Nat OBVIOUS
  <2> QED BY <1>2, <2>1, <2>2, <1>0
<1> HIDE DEF T
<1>3. b - a \in T
  <2>1. b - a \in Nat OBVIOUS
  <2>2. \A n \in Nat : n \in T BY <1>1, <1>2, Induction
  <2> QED BY <2>1, <2>2
<1>4. a + (b - a) = b OBVIOUS
<1> QED BY <1>0, <1>3, <1>4 DEF T

\* Division with a remainder.
LEMMA Division ==
  ASSUME NEW x \in Nat, NEW c \in Nat \ {0}
  PROVE  /\ x \div c \in Nat /\ x % c \in 0..(c - 1) /\ x = (x \div c) * c + (x % c)
         /\ \A q \in Nat : \A r \in 0..(c - 1) : x = q * c + r => q = x \div c /\ r = x % c
<1>1. x \div c \in Nat /\ x % c \in 0..(c - 1) /\ x = (x \div c) * c + (x % c)
  <2> DEFINE d == x \div c
             m == x % c
  <2>1. d \in Nat OBVIOUS
  <2>2. m \in 0..(c - 1) OBVIOUS
  <2>3. m = x - c * d OBVIOUS
  <2> HIDE DEF d, m
  <2>4. x = d * c + m BY <2>1, <2>2, <2>3
  <2> QED BY <2>1, <2>2, <2>4 DEF d, m
<1>2. ASSUME NEW q \in Nat, NEW r \in 0..(c - 1), x = q * c + r PROVE q = x \div c /\ r = x % c
  <2> DEFINE d == x \div c
             m == x % c
  <2>1. d \in Nat /\ m \in 0..(c - 1) /\ x = d * c + m BY <1>1
  <2> HIDE DEF d, m
  <2>2. q * c \in Nat /\ d * c \in Nat BY <2>1, TimesMonotone
  <2>3. ~(q < d)
    <3> SUFFICES ASSUME q + 1 <= d PROVE FALSE
      BY <2>1
    <3>1. (q + 1) * c <= d * c BY <2>1, TimesMonotone
    <3>2. (q + 1) * c = q * c + c OBVIOUS
    <3> QED BY <3>1, <3>2, <2>1, <2>2, <1>2
  <2>4. ~(d < q)
    <3> SUFFICES ASSUME d + 1 <= q PROVE FALSE
      BY <2>1
    <3>1. (d + 1) * c <= q * c BY <2>1, TimesMonotone
    <3>2. (d + 1) * c = d * c + c BY <2>1
    <3> QED BY <3>1, <3>2, <2>1, <2>2, <1>2
  <2>5. q = d BY <2>1, <2>3, <2>4
  <2>6. r = m BY <2>1, <2>2, <2>5, <1>2
  <2> QED BY <2>5, <2>6 DEF d, m
<1> QED BY <1>1, <1>2

\* The part of the bytes that cell i + 1 takes, and where it ends.
Ends(bs, i) == IF i < Len(bs) \div CellBytes THEN (i + 1) * CellBytes ELSE Len(bs)
PartOf(bs, i) == SubSeq(bs, i * CellBytes + 1, Ends(bs, i))

LEMMA PartIs ==
  ASSUME NEW bs \in Seq(Byte), NEW i \in 0..(Len(bs) \div CellBytes)
  PROVE  /\ Window(bs, i * CellBytes, PartOf(bs, i))
         /\ i * CellBytes + Len(PartOf(bs, i)) = Ends(bs, i)
         /\ Len(PartOf(bs, i)) <= CellBytes
         /\ i < Len(bs) \div CellBytes => Len(PartOf(bs, i)) = CellBytes
<1> DEFINE C == CellBytes
           N == Len(bs)
           last == Len(bs) \div CellBytes
           r == Len(bs) % CellBytes
<1>0. C \in Nat \ {0} /\ N \in Nat BY CellBytesAssumption
<1>1. last \in Nat /\ r \in 0..(C - 1) /\ N = last * C + r
  BY <1>0, Division
<1> HIDE DEF C, N, last, r
<1>2. i \in Nat /\ i <= last BY <1>1 DEF last
<1>3. i * C \in Nat /\ i * C <= last * C /\ last * C \in Nat
  BY <1>0, <1>1, <1>2, TimesMonotone
<1>4. CASE i < last
  <2>1. (i + 1) * C <= last * C /\ (i + 1) * C = i * C + C
    BY <1>0, <1>1, <1>2, <1>4, TimesMonotone
  <2>2. Ends(bs, i) = i * C + C BY <1>4, <2>1 DEF Ends, C, last
  <2>3. i * C + C <= N BY <1>0, <1>1, <1>3, <2>1
  <2> DEFINE o == i * C
             cell == PartOf(bs, i)
  <2>4. cell = SubSeq(bs, o + 1, o + C) BY <2>2 DEF PartOf, C
  <2>5. o \in Nat /\ o + C <= N BY <1>3, <2>3
  <2> HIDE DEF o, cell
  <2>6. \A k \in (o + 1)..(o + C) : bs[k] \in Byte BY <1>0, <2>5 DEF N
  <2>7. /\ cell \in Seq(Byte) /\ Len(cell) = C
        /\ \A k \in 1..C : cell[k] = bs[o + k]
    <3>1. o + 1 \in Int /\ o + C \in Int /\ o + 1 <= o + C /\ (o + C) - (o + 1) + 1 = C BY <1>0, <2>5
    <3>2. /\ cell \in Seq(Byte) /\ Len(cell) = C
          /\ \A k \in 1..C : cell[k] = bs[(o + 1) + k - 1]
      BY <2>4, <2>6, <3>1, SubSeqProperties
    <3>3. \A k \in 1..C : (o + 1) + k - 1 = o + k BY <1>0, <2>5
    <3> QED BY <3>2, <3>3
  <2>8. Window(bs, o, cell) BY <2>5, <2>7 DEF Window, N
  <2>9. o + Len(cell) = Ends(bs, i) BY <2>2, <2>7 DEF o
  <2> QED BY <2>7, <2>8, <2>9, <1>0 DEF C, last, o, cell
<1>5. CASE i = last
  <2>1. Ends(bs, i) = N BY <1>5, <1>1 DEF Ends, N, last
  <2> DEFINE o == i * C
             cell == PartOf(bs, i)
  <2>2. cell = SubSeq(bs, o + 1, N) BY <2>1 DEF PartOf, C
  <2>3. o \in Nat /\ N = o + r BY <1>1, <1>3, <1>5
  <2> HIDE DEF o, cell
  <2>4. \A k \in (o + 1)..N : bs[k] \in Byte BY <1>0, <2>3 DEF N
  <2>5. /\ cell \in Seq(Byte) /\ Len(cell) = r
        /\ \A k \in 1..r : cell[k] = bs[o + k]
    <3>1. o + 1 \in Int /\ N \in Int /\ N - (o + 1) + 1 = r BY <1>0, <1>1, <2>3
    <3>2. /\ cell \in Seq(Byte) /\ Len(cell) = IF o + 1 <= N THEN N - (o + 1) + 1 ELSE 0
          /\ \A k \in 1..(N - (o + 1) + 1) : cell[k] = bs[(o + 1) + k - 1]
      BY <2>2, <2>4, <3>1, SubSeqProperties
    <3>3. \A k \in 1..r : (o + 1) + k - 1 = o + k BY <1>1, <2>3
    <3>4. ~(o + 1 <= N) => r = 0 BY <1>0, <1>1, <2>3
    <3> QED BY <3>1, <3>2, <3>3, <3>4
  <2>6. Window(bs, o, cell)
    <3>1. o + Len(cell) <= Len(bs) BY <2>3, <2>5, <1>0, <1>1 DEF N
    <3> QED BY <2>3, <2>5, <3>1 DEF Window
  <2>7. o + Len(cell) = Ends(bs, i) BY <2>1, <2>3, <2>5
  <2>8. Len(cell) <= C BY <1>0, <1>1, <2>5
  <2> QED BY <2>6, <2>7, <2>8, <1>5, <1>1 DEF C, last, o, cell
<1> QED BY <1>1, <1>2, <1>4, <1>5

\* What StoreBuffer makes: cell i + 1 holds the i-th part, the first one after
\* the prefix.
LEMMA StoreBufferIs ==
  ASSUME NEW bs \in Seq(Byte), NEW prefix \in Seq(Byte)
  PROVE  LET chain == StoreBuffer(bs, prefix)
         IN /\ chain \in Seq(Seq(Byte)) /\ Len(chain) = Len(bs) \div CellBytes + 1
            /\ chain[1] = Store(prefix, PartOf(bs, 0)) /\ PartOf(bs, 0) \in Seq(Byte)
            /\ \A i \in 2..Len(chain) : chain[i] = PartOf(bs, i - 1)
<1> DEFINE last == Len(bs) \div CellBytes
           F(i) == Store(IF i = 1 THEN prefix ELSE << >>, PartOf(bs, i - 1))
<1>0. CellBytes \in Nat \ {0} /\ last \in Nat
  <2>1. CellBytes \in Nat \ {0} /\ Len(bs) \in Nat BY CellBytesAssumption
  <2> QED BY <2>1, Division
<1>1. StoreBuffer(bs, prefix) = [i \in 1..(last + 1) |-> F(i)]
  BY DEF StoreBuffer, PartOf, Ends
<1>2. ASSUME NEW i \in 1..(last + 1)
      PROVE  /\ PartOf(bs, i - 1) \in Seq(Byte) /\ F(i) \in Seq(Byte)
             /\ i # 1 => F(i) = PartOf(bs, i - 1)
  <2>1. i - 1 \in 0..last BY <1>0
  <2>2. PartOf(bs, i - 1) \in Seq(Byte) /\ Len(PartOf(bs, i - 1)) <= CellBytes
    BY <2>1, PartIs DEF Window
  <2>3. /\ << >> \o PartOf(bs, i - 1) = PartOf(bs, i - 1)
        /\ prefix \o PartOf(bs, i - 1) \in Seq(Byte)
    BY <2>2, ConcatEmptySeq, ConcatProperties
  <2>4. 8 * Len(PartOf(bs, i - 1)) <= 8 * CellBytes + 7
    <3>1. Len(PartOf(bs, i - 1)) \in Nat BY <2>2
    <3> QED BY <3>1, <2>2, <1>0
  <2>5. CASE i = 1 BY <2>2, <2>3, <2>5 DEF Store
  <2>6. CASE i # 1 BY <2>2, <2>3, <2>4, <2>6 DEF Store
  <2> QED BY <2>5, <2>6
<1>4. F(1) = Store(prefix, PartOf(bs, 0)) OBVIOUS
<1> HIDE DEF last, F
<1> DEFINE chain == [i \in 1..(last + 1) |-> F(i)]
<1>3. chain \in Seq(Seq(Byte)) /\ Len(chain) = last + 1 /\ \A i \in 1..(last + 1) : chain[i] = F(i)
  <2>1. \A i \in 1..(last + 1) : F(i) \in Seq(Byte) BY <1>2
  <2> QED BY <1>0, <2>1
<1> HIDE DEF chain
<1>5. chain[1] = Store(prefix, PartOf(bs, 0)) /\ PartOf(bs, 0) \in Seq(Byte)
  <2>1. 1 \in 1..(last + 1) /\ 1 - 1 = 0 BY <1>0
  <2>2. PartOf(bs, 1 - 1) \in Seq(Byte) BY <2>1, <1>2
  <2> QED BY <2>1, <2>2, <1>3, <1>4
<1>6. ASSUME NEW i \in 2..Len(chain) PROVE chain[i] = PartOf(bs, i - 1)
  <2>1. i \in 1..(last + 1) /\ i # 1 BY <1>0, <1>3
  <2> QED BY <2>1, <1>2, <1>3
<1>7. StoreBuffer(bs, prefix) = chain BY <1>1 DEF chain
<1> QED BY <1>3, <1>5, <1>6, <1>7 DEF last

\* The parts of bs, one to a cell.
Parts(bs, chain) ==
  /\ chain \in Seq(Seq(Byte)) /\ Len(chain) = Len(bs) \div CellBytes + 1
  /\ \A i \in 1..Len(chain) : chain[i] = PartOf(bs, i - 1)

LEMMA StoreItem ==
  ASSUME NEW bs \in Seq(Byte)
  PROVE  Parts(bs, StoreBuffer(bs, << >>))
<1> DEFINE chain == StoreBuffer(bs, << >>)
<1>0. << >> \in Seq(Byte) OBVIOUS
<1>1. /\ chain \in Seq(Seq(Byte)) /\ Len(chain) = Len(bs) \div CellBytes + 1
      /\ chain[1] = Store(<< >>, PartOf(bs, 0)) /\ PartOf(bs, 0) \in Seq(Byte)
      /\ \A i \in 2..Len(chain) : chain[i] = PartOf(bs, i - 1)
  BY <1>0, StoreBufferIs
<1> HIDE DEF chain
<1>2. chain[1] = PartOf(bs, 0)
  <2>1. << >> \o PartOf(bs, 0) = PartOf(bs, 0) BY <1>1, ConcatEmptySeq
  <2>2. 0 \in 0..(Len(bs) \div CellBytes) /\ CellBytes \in Nat
    <3>1. CellBytes \in Nat \ {0} /\ Len(bs) \in Nat BY CellBytesAssumption
    <3>2. Len(bs) \div CellBytes \in Nat BY <3>1, Division
    <3> QED BY <3>1, <3>2
  <2>3. Len(PartOf(bs, 0)) <= CellBytes /\ Len(PartOf(bs, 0)) \in Nat BY <1>1, <2>2, PartIs
  <2>4. 8 * Len(PartOf(bs, 0)) <= 8 * CellBytes + 7 BY <2>2, <2>3
  <2> QED BY <1>1, <2>1, <2>4 DEF Store
<1>3. ASSUME NEW i \in 1..Len(chain) PROVE chain[i] = PartOf(bs, i - 1)
  <2>1. CASE i = 1
    <3>1. i - 1 = 0 BY <2>1
    <3> QED BY <2>1, <3>1, <1>2
  <2>2. CASE i # 1
    <3>1. i \in 2..Len(chain) BY <1>1, <2>2
    <3> QED BY <3>1, <1>1
  <2> QED BY <2>1, <2>2
<1> QED BY <1>1, <1>3 DEF Parts, chain
-----------------------------------------------------------------------------
(* Texts that are read back, and texts that are not. *)

LEMMA BegunAll ==
  ASSUME NEW t \in Seq(1..4), NEW bs \in Seq(Byte), NEW start, Layout(t, bs, start)
  PROVE  /\ Begun(bs, 0) = 0 /\ Begun(bs, Len(bs)) = Len(t)
         /\ Len(t) >= 1 => Len(bs) >= 1
<1>0. Len(t) \in Nat /\ Len(bs) \in Nat OBVIOUS
<1>1. CASE Len(t) = 0
  <2>1. start[1] = 0 /\ start[Len(t) + 1] = Len(bs) BY DEF Layout
  <2>2. Len(bs) = 0 BY <1>1, <2>1
  <2> QED BY <1>1, <2>2 DEF Begun
<1>2. CASE Len(t) # 0
  <2> DEFINE c == Len(t)
  <2>1. c \in 1..Len(t) /\ c \in 1..(Len(t) + 1) BY <1>0, <1>2
  <2>2. t[c] \in 1..4 BY <2>1
  <2>3. start[c] \in Nat /\ start[c + 1] = start[c] + t[c] /\ start[c + 1] = Len(bs)
    BY <2>1 DEF Layout
  <2>4. t[c] \in 1..t[c] BY <2>2
  <2>5. bs[start[c] + t[c]] = <<c, t[c], t[c]>> BY <2>1, <2>4 DEF Layout
  <2>6. bs[Len(bs)] = <<c, t[c], t[c]>> /\ Len(bs) # 0 BY <2>2, <2>3, <2>5
  <2> QED BY <1>0, <2>6 DEF Begun
<1> QED BY <1>1, <1>2

\* One cell that holds all bytes.
LEMMA ReadOne ==
  ASSUME NEW t \in Seq(1..4), NEW bs \in Seq(Byte), NEW start, Layout(t, bs, start)
  PROVE  LoadString(<<bs>>) = Run(0, Len(t))
<1>0. Len(t) \in Nat /\ Len(bs) \in Nat OBVIOUS
<1>1. Window(bs, 0, bs) BY <1>0 DEF Window
<1>2. Clean(bs, 0) /\ Clean(bs, 0 + Len(bs))
  <2>1. 0 \notin 1..(Len(bs) - 1) /\ 0 + Len(bs) \notin 1..(Len(bs) - 1) BY <1>0
  <2> QED BY <2>1 DEF Clean
<1>3. GetString(bs) = Run(Begun(bs, 0), Begun(bs, 0 + Len(bs))) BY <1>1, <1>2, ReadClean
<1>4. GetString(bs) = Run(0, Len(t))
  <2>1. 0 + Len(bs) = Len(bs) BY <1>0
  <2> QED BY <1>3, <2>1, BegunAll
<1> DEFINE s == [i \in 1..1 |-> GetString(bs)]
           m == [i \in 0..1 |-> IF i = 0 THEN 0 ELSE Len(t)]
<1>5. LoadString(<<bs>>) = FlattenSeq(s)
  <2>1. Len(<<bs>>) = 1 /\ \A i \in 1..1 : <<bs>>[i] = bs OBVIOUS
  <2>2. [i \in 1..Len(<<bs>>) |-> GetString(<<bs>>[i])] = s BY <2>1
  <2> QED BY <2>2 DEF LoadString
<1>6. Run(0, Len(t)) \in Seq(Nat)
  <2>1. 0 \in Nat /\ 0 <= Len(t) /\ Len(t) <= Len(t) BY <1>0
  <2> QED BY <2>1, <1>0, RunJoin
<1>7. s \in Seq(Seq(Nat)) /\ Len(s) = 1 /\ s[1] = Run(0, Len(t)) BY <1>4, <1>6
<1>8. m \in [0..1 -> Nat] /\ m[0] = 0 /\ m[1] = Len(t) BY <1>0
<1> HIDE DEF s, m
<1>9. \A i \in 1..Len(s) : m[i - 1] <= m[i] /\ s[i] = Run(m[i - 1], m[i])
  <2> SUFFICES ASSUME NEW i \in 1..Len(s) PROVE m[i - 1] <= m[i] /\ s[i] = Run(m[i - 1], m[i])
    OBVIOUS
  <2>1. i = 1 /\ i - 1 = 0 BY <1>7
  <2> QED BY <2>1, <1>0, <1>7, <1>8
<1>10. FlattenSeq(s) = Run(m[0], m[Len(s)])
  <2>1. m \in [0..Len(s) -> Nat] BY <1>7, <1>8
  <2> QED BY <2>1, <1>7, <1>9, FlattenRuns
<1> QED BY <1>5, <1>7, <1>8, <1>10

\* Parts without torn characters are read as the text.
LEMMA ReadParts ==
  ASSUME NEW t \in Seq(1..4), NEW bs \in Seq(Byte), NEW start, Layout(t, bs, start),
         NEW chain, Parts(bs, chain),
         \A i \in Nat : Clean(bs, i * CellBytes)
  PROVE  LoadString(chain) = Run(0, Len(t))
<1> DEFINE C == CellBytes
           last == Len(bs) \div CellBytes
           M(i) == IF i <= last THEN Begun(bs, i * C) ELSE Begun(bs, Len(bs))
           m == [i \in 0..(last + 1) |-> M(i)]
           s == [i \in 1..Len(chain) |-> GetString(chain[i])]
<1>0. C \in Nat \ {0} /\ Len(bs) \in Nat /\ last \in Nat
  <2>1. C \in Nat \ {0} /\ Len(bs) \in Nat BY CellBytesAssumption
  <2> QED BY <2>1, Division
<1>1. chain \in Seq(Seq(Byte)) /\ Len(chain) = last + 1
  BY DEF Parts
<1>2. LoadString(chain) = FlattenSeq(s) BY DEF LoadString
<1>3. s \in Seq(Seq(Nat)) /\ Len(s) = last + 1 /\ \A i \in 1..(last + 1) : s[i] = GetString(chain[i])
  <2>1. \A i \in 1..Len(chain) : GetString(chain[i]) \in Seq(Nat) BY <1>1, GetStringElements
  <2> HIDE DEF last
  <2> QED BY <2>1, <1>0, <1>1
<1> HIDE DEF s
<1>4. ASSUME NEW i \in 1..(last + 1)
      PROVE  M(i - 1) <= M(i) /\ s[i] = Run(M(i - 1), M(i))
  <2> DEFINE off == (i - 1) * C
             cell == PartOf(bs, i - 1)
  <2>0. i \in Nat /\ i - 1 \in 0..last /\ i - 1 \in Nat /\ (i - 1) + 1 = i BY <1>0
  <2>1. Window(bs, off, cell) /\ off + Len(cell) = Ends(bs, i - 1) BY <2>0, PartIs
  <2>2. Clean(bs, off) BY <2>0
  <2>3. Ends(bs, i - 1) = IF i <= last THEN i * C ELSE Len(bs)
    <3>1. Ends(bs, i - 1) = IF i - 1 < last THEN ((i - 1) + 1) * C ELSE Len(bs) BY DEF Ends
    <3> HIDE DEF last
    <3>2. i - 1 < last <=> i <= last BY <1>0, <2>0
    <3> QED BY <2>0, <3>1, <3>2
  <2>4. Clean(bs, Ends(bs, i - 1))
    <3>1. Len(bs) \notin 1..(Len(bs) - 1) BY <1>0
    <3>2. Clean(bs, Len(bs)) BY <3>1 DEF Clean
    <3>3. Clean(bs, i * C) BY <2>0
    <3> QED BY <2>3, <3>2, <3>3
  <2>5. /\ GetString(cell) = Run(Begun(bs, off), Begun(bs, Ends(bs, i - 1)))
        /\ Begun(bs, off) <= Begun(bs, Ends(bs, i - 1))
    <3> HIDE DEF off, cell
    <3> QED BY <2>1, <2>2, <2>4, ReadClean
  <2>6. M(i - 1) = Begun(bs, off) BY <2>0
  <2>7. M(i) = Begun(bs, Ends(bs, i - 1)) BY <2>3
  <2>8. s[i] = GetString(cell) BY <1>1, <1>3 DEF Parts
  <2> QED BY <2>5, <2>6, <2>7, <2>8
<1>5. \A i \in 0..(last + 1) : M(i) \in Nat
  <2>1. \A p \in 0..Len(bs) : Begun(bs, p) \in Nat
    <3> SUFFICES ASSUME NEW p \in 0..Len(bs) PROVE Begun(bs, p) \in Nat
      OBVIOUS
    <3>1. CASE p = 0 BY <3>1 DEF Begun
    <3>2. CASE p # 0
      <4>1. p \in 1..Len(bs) BY <1>0, <3>2
      <4>2. bs[p] \in Byte BY <4>1
      <4>3. bs[p][1] \in Nat BY <4>2 DEF Byte
      <4> QED BY <4>3, <3>2 DEF Begun
    <3> QED BY <3>1, <3>2
  <2>2. ASSUME NEW i \in 0..last PROVE i * C \in 0..Len(bs)
    <3>1. i \in Nat /\ i <= last BY <1>0
    <3>2. i * C \in Nat /\ i * C <= last * C /\ last * C \in Nat BY <1>0, <3>1, TimesMonotone
    <3>3. Len(bs) % C \in 0..(C - 1) /\ Len(bs) = last * C + (Len(bs) % C) BY <1>0, Division
    <3> DEFINE r == Len(bs) % C
    <3>4. r \in 0..(C - 1) /\ Len(bs) = last * C + r BY <3>3
    <3> HIDE DEF last, r
    <3> QED BY <1>0, <3>2, <3>4
  <2>3. Len(bs) \in 0..Len(bs) BY <1>0
  <2> SUFFICES ASSUME NEW i \in 0..(last + 1) PROVE M(i) \in Nat
    OBVIOUS
  <2>4. CASE i <= last
    <3>1. i \in 0..last BY <2>4, <1>0
    <3>2. i * C \in 0..Len(bs) BY <2>2, <3>1
    <3>3. Begun(bs, i * C) \in Nat BY <2>1, <3>2
    <3> QED BY <2>4, <3>3
  <2>5. CASE ~(i <= last) BY <2>5, <2>1, <2>3
  <2> QED BY <2>4, <2>5
<1>6. M(0) = 0 /\ M(last + 1) = Len(t)
  <2>1. 0 <= last /\ ~(last + 1 <= last) /\ 0 * C = 0 BY <1>0
  <2>2. M(0) = Begun(bs, 0 * C) /\ M(last + 1) = Begun(bs, Len(bs)) BY <2>1
  <2> QED BY <2>1, <2>2, BegunAll
<1>7. m \in [0..(last + 1) -> Nat] /\ \A i \in 0..(last + 1) : m[i] = M(i) BY <1>5
<1> HIDE DEF last, M, m
<1>8. FlattenSeq(s) = Run(m[0], m[Len(s)])
  <2>1. m \in [0..Len(s) -> Nat] BY <1>3, <1>7
  <2>2. ASSUME NEW i \in 1..Len(s) PROVE m[i - 1] <= m[i] /\ s[i] = Run(m[i - 1], m[i])
    <3>1. i \in 1..(last + 1) /\ i \in 0..(last + 1) /\ i - 1 \in 0..(last + 1) BY <1>0, <1>3
    <3> QED BY <3>1, <1>4, <1>7
  <2> QED BY <2>1, <2>2, <1>3, FlattenRuns
<1>9. m[0] = 0 /\ m[Len(s)] = Len(t)
  <2>1. 0 \in 0..(last + 1) /\ last + 1 \in 0..(last + 1) BY <1>0
  <2> QED BY <2>1, <1>3, <1>6, <1>7
<1> QED BY <1>2, <1>8, <1>9
\* A character across the end of a full cell leaves a mark.
LEMMA ReadAcross ==
  ASSUME NEW t \in Seq(1..4), NEW bs \in Seq(Byte), NEW start, Layout(t, bs, start),
         NEW chain, Parts(bs, chain),
         NEW n \in 1..(Len(bs) - 1), n % CellBytes = 0, bs[n][1] = bs[n + 1][1]
  PROVE  \E y \in 1..Len(LoadString(chain)) : LoadString(chain)[y] = 0
<1> DEFINE C == CellBytes
           last == Len(bs) \div CellBytes
           i == n \div CellBytes
           r == Len(bs) % CellBytes
           cell == PartOf(bs, i - 1)
           off == (i - 1) * CellBytes
<1>0. C \in Nat \ {0} /\ Len(bs) \in Nat /\ n \in Nat BY CellBytesAssumption
<1>1. i \in Nat /\ n = i * C
  <2>1. i \in Nat /\ n = i * C + (n % C) BY <1>0, Division
  <2>2. n % C = 0 OBVIOUS
  <2> HIDE DEF i
  <2>3. i * C \in Nat BY <1>0, <2>1
  <2> QED BY <2>1, <2>2, <2>3
<1>2. last \in Nat /\ r \in 0..(C - 1) /\ Len(bs) = last * C + r BY <1>0, Division
<1> HIDE DEF i, last, r, C
<1>3. i # 0
  <2> SUFFICES ASSUME i = 0 PROVE FALSE
    OBVIOUS
  <2>1. n = 0 BY <1>0, <1>1
  <2> QED BY <2>1
<1>4. i <= last
  <2> SUFFICES ASSUME last + 1 <= i PROVE FALSE
    BY <1>1, <1>2
  <2>1. (last + 1) * C <= i * C BY <1>0, <1>1, <1>2, TimesMonotone
  <2>2. (last + 1) * C = last * C + C /\ last * C \in Nat BY <1>0, <1>2
  <2> QED BY <2>1, <2>2, <1>0, <1>1, <1>2
<1>5. i - 1 \in 0..last /\ i - 1 < last /\ i \in 1..(last + 1) /\ (i - 1) + 1 = i
  BY <1>1, <1>2, <1>3, <1>4
<1>6. /\ Window(bs, off, cell) /\ off + Len(cell) = Ends(bs, i - 1)
      /\ Len(cell) = C
  BY <1>5, PartIs DEF last, C
<1>7. Ends(bs, i - 1) = n BY <1>1, <1>5 DEF Ends, last, C
<1> HIDE DEF off, cell
<1>8. off \in Nat /\ off + C = n /\ cell \in Seq(Byte) BY <1>6, <1>7 DEF Window
<1>9. C \in 1..Len(cell) /\ cell[C] = bs[n]
  <2>1. C \in 1..Len(cell) BY <1>0, <1>6
  <2>2. cell[C] = bs[off + C] BY <2>1, <1>6 DEF Window
  <2> QED BY <2>1, <2>2, <1>8
<1>10. n + 1 \in 1..Len(bs) /\ n + 1 \notin (off + 1)..(off + Len(cell))
  BY <1>0, <1>6, <1>8
<1>11. bs[n + 1][1] = cell[C][1] BY <1>9
<1>12. PICK x \in 1..Len(GetString(cell)) : GetString(cell)[x] = 0
  BY <1>6, <1>9, <1>10, <1>11, ReadTorn
<1>13. i \in 1..Len(chain) /\ chain[i] = cell /\ chain \in Seq(Seq(Byte))
  BY <1>5 DEF Parts, last, cell
<1>14. x \in 1..Len(GetString(chain[i])) /\ GetString(chain[i])[x] = 0 BY <1>12, <1>13
<1>15. \E y \in 1..Len(LoadString(chain)) : LoadString(chain)[y] = GetString(chain[i])[x]
  BY <1>13, <1>14, LoadStringElements
<1> QED BY <1>14, <1>15

\* When the bytes of the first character are not there, the text is not read.
LEMMA ReadBeheaded ==
  ASSUME NEW t \in Seq(1..4), NEW bs \in Seq(Byte), NEW start, Layout(t, bs, start), Len(t) >= 1,
         NEW chain \in Seq(Seq(Byte)),
         \A i \in 1..Len(chain) : \A j \in 1..Len(chain[i]) :
            \E p \in 2..Len(bs) : chain[i][j] = bs[p]
  PROVE  LoadString(chain) # Run(0, Len(t))
<1> DEFINE g == LoadString(chain)
<1> SUFFICES ASSUME g = Run(0, Len(t)) PROVE FALSE
  OBVIOUS
<1>0. Len(t) \in Nat /\ Len(t) >= 1 OBVIOUS
<1>1. Len(g) = Len(t) /\ g[1] = 1
  <2>1. Len(t) - 0 = Len(t) BY <1>0
  <2>2. g = [x \in 1..Len(t) |-> 0 + x] BY <2>1 DEF Run
  <2> HIDE DEF g
  <2> QED BY <2>2, <1>0
<1>2. 1 \in 1..Len(g) BY <1>0, <1>1
<1>3. PICK i \in 1..Len(chain) : \E x \in 1..Len(GetString(chain[i])) : g[1] = GetString(chain[i])[x]
  BY <1>2, LoadStringElements
<1>4. PICK x \in 1..Len(GetString(chain[i])) : g[1] = GetString(chain[i])[x] BY <1>3
<1>5. chain[i] \in Seq(Byte) OBVIOUS
<1>6. PICK j \in 1..Len(chain[i]) : chain[i][j][1] = 1 /\ chain[i][j][2] = 1
  <2>1. GetString(chain[i])[x] # 0 /\ GetString(chain[i])[x] = 1 BY <1>1, <1>4
  <2>2. \A u \in 1..Len(GetString(chain[i])) : GetString(chain[i])[u] # 0 =>
          \E j \in 1..Len(chain[i]) : chain[i][j][1] = GetString(chain[i])[u] /\ chain[i][j][2] = 1
    BY <1>5, GetStringElements
  <2>3. \E j \in 1..Len(chain[i]) : chain[i][j][1] = GetString(chain[i])[x] /\ chain[i][j][2] = 1
    BY <2>1, <2>2, <1>4
  <2> QED BY <2>1, <2>3
<1>7. PICK p \in 2..Len(bs) : chain[i][j] = bs[p] OBVIOUS
<1>8. p \in 1..Len(bs) OBVIOUS
<1>9. PICK c, n : ByteOf(t, bs, start, p, c, n) BY <1>8, ByteAt
<1>10. c = 1 /\ n = 1 BY <1>6, <1>7, <1>9 DEF ByteOf
<1>11. p = start[1] + 1 /\ start[1] = 0 BY <1>9, <1>10 DEF ByteOf, Layout
<1>12. p = 1 BY <1>11
<1> QED BY <1>12
-----------------------------------------------------------------------------
(* What is read of what is written. *)

\* A text, as its characters are numbered.
LEMMA RunOfText ==
  ASSUME NEW t \in Seq(1..4)
  PROVE  Run(0, Len(t)) = [c \in 1..Len(t) |-> c]
<1>1. Len(t) \in Nat /\ Len(t) - 0 = Len(t) OBVIOUS
<1>2. \A c \in 1..Len(t) : 0 + c = c OBVIOUS
<1> QED BY <1>1, <1>2 DEF Run

\* No character lies across the end of a full cell.
NoneAcross(bs) ==
  ~\E n \in 1..(Len(bs) - 1) : n % CellBytes = 0 /\ bs[n][1] = bs[n + 1][1]

LEMMA ItemText ==
  ASSUME NEW t \in Seq(1..4), Len(t) >= 1
  PROVE  LoadString(StoreBuffer(GetBytes(t), << >>)) = Run(0, Len(t)) <=> NoneAcross(GetBytes(t))
<1> DEFINE bs == GetBytes(t)
           chain == StoreBuffer(bs, << >>)
<1>0. CellBytes \in Nat \ {0} /\ bs \in Seq(Byte) /\ Len(bs) \in Nat
  BY BytesLayout, CellBytesAssumption
<1>1. PICK start : Layout(t, bs, start) BY BytesLayout
<1>2. Parts(bs, chain) BY <1>0, StoreItem
<1> HIDE DEF bs, chain
<1>3. ASSUME NoneAcross(bs) PROVE LoadString(chain) = Run(0, Len(t))
  <2>1. ASSUME NEW i \in Nat PROVE Clean(bs, i * CellBytes)
    <3> DEFINE n == i * CellBytes
    <3>1. n \in Nat /\ 0 \in 0..(CellBytes - 1) /\ n = i * CellBytes + 0 BY <1>0
    <3>2. n % CellBytes = 0
      <4> HIDE DEF n
      <4> QED BY <1>0, <3>1, Division
    <3> HIDE DEF n
    <3>3. Clean(bs, n) BY <3>2, <1>3 DEF Clean, NoneAcross
    <3> QED BY <3>3 DEF n
  <2> QED BY <1>0, <1>1, <1>2, <2>1, ReadParts
<1>4. ASSUME ~NoneAcross(bs) PROVE LoadString(chain) # Run(0, Len(t))
  <2>1. PICK n \in 1..(Len(bs) - 1) : n % CellBytes = 0 /\ bs[n][1] = bs[n + 1][1]
    BY <1>4 DEF NoneAcross
  <2>2. PICK y \in 1..Len(LoadString(chain)) : LoadString(chain)[y] = 0
    BY <1>0, <1>1, <1>2, <2>1, ReadAcross
  <2> SUFFICES ASSUME LoadString(chain) = Run(0, Len(t)) PROVE FALSE
    OBVIOUS
  <2> DEFINE g == LoadString(chain)
  <2>3. g = [c \in 1..Len(t) |-> c] BY RunOfText
  <2>4. y \in 1..Len(g) /\ g[y] = 0 BY <2>2
  <2> HIDE DEF g
  <2>5. Len(g) = Len(t) BY <2>3
  <2>6. g[y] = y /\ y # 0 BY <2>3, <2>4, <2>5
  <2> QED BY <2>4, <2>6
<1> QED BY <1>3, <1>4 DEF bs, chain

LEMMA BatchText ==
  ASSUME NEW t \in Seq(1..4), Len(t) >= 1
  PROVE  LoadString(<<Store(<< >>, GetBytes(t))>>) = Run(0, Len(t)) <=> Len(GetBytes(t)) <= CellBytes
<1> DEFINE bs == GetBytes(t)
<1>0. CellBytes \in Nat \ {0} /\ bs \in Seq(Byte) /\ Len(bs) \in Nat
  BY BytesLayout, CellBytesAssumption
<1>1. PICK start : Layout(t, bs, start) BY BytesLayout
<1> HIDE DEF bs
<1>2. << >> \o bs = bs BY <1>0, ConcatEmptySeq
<1>3. ASSUME Len(bs) <= CellBytes PROVE LoadString(<<Store(<< >>, bs)>>) = Run(0, Len(t))
  <2>1. 8 * Len(bs) <= 8 * CellBytes + 7 BY <1>0, <1>3
  <2>2. Store(<< >>, bs) = bs BY <1>2, <2>1 DEF Store
  <2>3. LoadString(<<bs>>) = Run(0, Len(t)) BY <1>0, <1>1, ReadOne
  <2> QED BY <2>2, <2>3
<1>4. ASSUME ~(Len(bs) <= CellBytes) PROVE LoadString(<<Store(<< >>, bs)>>) # Run(0, Len(t))
  <2>1. ~(8 * Len(bs) <= 8 * CellBytes + 7) BY <1>0, <1>4
  <2>2. Store(<< >>, bs) = << >> BY <1>2, <2>1 DEF Store
  <2> DEFINE chain == << << >> >>
  <2>3. chain \in Seq(Seq(Byte)) /\ \A i \in 1..Len(chain) : Len(chain[i]) = 0
    <3>1. << >> \in Seq(Byte) OBVIOUS
    <3> QED BY <3>1
  <2> HIDE DEF chain
  <2>4. \A i \in 1..Len(chain) : \A j \in 1..Len(chain[i]) : \E p \in 2..Len(bs) : chain[i][j] = bs[p]
    BY <2>3
  <2>5. LoadString(chain) # Run(0, Len(t)) BY <1>0, <1>1, <2>3, <2>4, ReadBeheaded
  <2> QED BY <2>2, <2>5 DEF chain
<1> QED BY <1>3, <1>4 DEF bs
\* The first cell takes a text shorter than it after the format, and of a longer
\* one nothing.
LEMMA JettonChain ==
  ASSUME NEW bs \in Seq(Byte)
  PROVE  LET chain == StoreBuffer(bs, <<Snake>>)
             tail == [chain EXCEPT ![1] = Tail(@)]
         IN IF Len(bs) < CellBytes
              THEN tail = <<bs>>
              ELSE /\ tail \in Seq(Seq(Byte)) /\ Len(tail) = Len(bs) \div CellBytes + 1
                   /\ tail[1] = << >>
                   /\ \A i \in 2..Len(tail) : tail[i] = PartOf(bs, i - 1)
<1> DEFINE last == Len(bs) \div CellBytes
           chain == StoreBuffer(bs, <<Snake>>)
           tail == [chain EXCEPT ![1] = Tail(@)]
           part == PartOf(bs, 0)
           first == <<Snake>> \o part
<1>0. /\ CellBytes \in Nat \ {0} /\ Len(bs) \in Nat /\ last \in Nat
      /\ <<Snake>> \in Seq(Byte) /\ Len(<<Snake>>) = 1
  <2>1. CellBytes \in Nat \ {0} /\ Len(bs) \in Nat BY CellBytesAssumption
  <2>2. last \in Nat BY <2>1, Division
  <2>3. Snake \in Byte BY DEF Snake, Byte
  <2> QED BY <2>1, <2>2, <2>3
<1>1. /\ chain \in Seq(Seq(Byte)) /\ Len(chain) = last + 1
      /\ chain[1] = Store(<<Snake>>, part) /\ part \in Seq(Byte)
      /\ \A i \in 2..Len(chain) : chain[i] = PartOf(bs, i - 1)
  BY <1>0, StoreBufferIs
<1>2. Len(part) = IF last = 0 THEN Len(bs) ELSE CellBytes
  <2>1. 0 \in 0..last /\ 0 * CellBytes = 0 BY <1>0
  <2>2. 0 * CellBytes + Len(part) = Ends(bs, 0) /\ (0 < last => Len(part) = CellBytes)
    BY <2>1, PartIs
  <2>3. Len(part) \in Nat BY <1>1
  <2>4. last = 0 => Ends(bs, 0) = Len(bs) BY DEF Ends
  <2> HIDE DEF last, part
  <2> QED BY <2>1, <2>2, <2>3, <2>4, <1>0
<1>3. last = 0 <=> Len(bs) < CellBytes
  <2> DEFINE r == Len(bs) % CellBytes
  <2>1. r \in 0..(CellBytes - 1) /\ Len(bs) = last * CellBytes + r BY <1>0, Division
  <2>2. ASSUME last # 0 PROVE CellBytes <= last * CellBytes
    <3> HIDE DEF last
    <3>1. 1 <= last /\ 1 * CellBytes = CellBytes BY <1>0, <2>2
    <3>2. 1 * CellBytes <= last * CellBytes BY <3>1, <1>0, TimesMonotone
    <3> QED BY <3>1, <3>2
  <2>3. last * CellBytes \in Nat
    <3> HIDE DEF last
    <3> QED BY <1>0
  <2> HIDE DEF r, last
  <2>4. last = 0 => last * CellBytes = 0 BY <1>0
  <2> QED BY <2>1, <2>2, <2>3, <2>4, <1>0
<1>4. /\ first \in Seq(Byte) /\ Len(first) = 1 + Len(part) /\ Len(part) \in Nat
      /\ \A i \in 1..Len(part) : first[i + 1] = part[i]
  <2>1. /\ first \in Seq(Byte) /\ Len(first) = Len(<<Snake>>) + Len(part) /\ Len(part) \in Nat
        /\ \A x \in 1..(Len(<<Snake>>) + Len(part)) :
             first[x] = IF x <= Len(<<Snake>>) THEN <<Snake>>[x] ELSE part[x - Len(<<Snake>>)]
    BY <1>0, <1>1, ConcatProperties
  <2> HIDE DEF first, part
  <2> SUFFICES ASSUME NEW i \in 1..Len(part) PROVE first[i + 1] = part[i]
    BY <2>1, <1>0
  <2>2. i + 1 \in 1..(Len(<<Snake>>) + Len(part)) /\ ~(i + 1 <= Len(<<Snake>>)) /\ (i + 1) - Len(<<Snake>>) = i
    BY <2>1, <1>0
  <2> QED BY <2>1, <2>2
<1>5. chain[1] = IF 1 + Len(part) <= CellBytes THEN first ELSE <<Snake>>
  <2>1. 8 * Len(first) <= 8 * CellBytes + 7 <=> 1 + Len(part) <= CellBytes BY <1>0, <1>4
  <2> HIDE DEF part
  <2> QED BY <2>1, <1>1 DEF Store
<1> HIDE DEF last, chain, part, first
<1>6. /\ tail \in Seq(Seq(Byte)) /\ Len(tail) = last + 1
      /\ tail[1] = Tail(chain[1])
      /\ \A i \in 2..Len(tail) : tail[i] = PartOf(bs, i - 1)
  <2>1. 1 \in 1..Len(chain) BY <1>0, <1>1
  <2>2. chain[1] \in Seq(Byte) /\ chain[1] # << >>
    <3>1. first # << >> /\ <<Snake>> # << >> BY <1>4
    <3> QED BY <3>1, <1>0, <1>4, <1>5
  <2>3. Tail(chain[1]) \in Seq(Byte) BY <2>2
  <2>4. \A i \in 1..Len(chain) : chain[i] \in Seq(Byte) BY <1>1
  <2>5. tail = [i \in 1..Len(chain) |-> IF i = 1 THEN Tail(chain[1]) ELSE chain[i]]
    <3>1. DOMAIN chain = 1..Len(chain) /\ chain = [i \in 1..Len(chain) |-> chain[i]] BY <1>1
    <3> QED BY <3>1
  <2> HIDE DEF tail
  <2> QED BY <2>1, <2>3, <2>4, <2>5, <1>0, <1>1
<1>7. CASE Len(bs) < CellBytes
  <2>1. last = 0 /\ Len(part) = Len(bs) /\ 1 + Len(part) <= CellBytes BY <1>0, <1>2, <1>3, <1>7
  <2>2. part = bs
    <3>1. 0 * CellBytes + 1 = 1 /\ Ends(bs, 0) = Len(bs) BY <1>0, <2>1 DEF Ends, last
    <3>2. part = SubSeq(bs, 1, Len(bs)) BY <3>1 DEF part, PartOf
    <3> QED BY <3>2
  <2>3. Tail(first) = bs
    <3>1. Len(Tail(first)) = Len(bs) /\ Tail(first) \in Seq(Byte) BY <1>4, <2>1
    <3>2. \A i \in 1..Len(bs) : Tail(first)[i] = bs[i] BY <1>4, <2>1, <2>2
    <3> QED BY <3>1, <3>2, SeqEqual
  <2>4. tail[1] = bs /\ Len(tail) = 1 BY <2>1, <2>3, <1>5, <1>6
  <2> HIDE DEF tail
  <2>5. tail = <<bs>> BY <2>4, <1>6
  <2> QED BY <2>5, <1>7 DEF tail, chain
<1>8. CASE ~(Len(bs) < CellBytes)
  <2>1. ~(1 + Len(part) <= CellBytes) BY <1>0, <1>2, <1>3, <1>8
  <2>2. tail[1] = << >>
    <3>1. Tail(<<Snake>>) = << >> OBVIOUS
    <3> QED BY <2>1, <3>1, <1>5, <1>6
  <2> QED BY <1>6, <1>8, <2>2 DEF chain, last
<1> QED BY <1>7, <1>8
LEMMA JettonText ==
  ASSUME NEW t \in Seq(1..4), Len(t) >= 1
  PROVE  LoadText(StoreBuffer(GetBytes(t), <<Snake>>)) = Run(0, Len(t)) <=> Len(GetBytes(t)) < CellBytes
<1> DEFINE bs == GetBytes(t)
           chain == StoreBuffer(bs, <<Snake>>)
           tail == [chain EXCEPT ![1] = Tail(@)]
           last == Len(bs) \div CellBytes
<1>0. CellBytes \in Nat \ {0} /\ bs \in Seq(Byte) /\ Len(bs) \in Nat
  BY BytesLayout, CellBytesAssumption
<1>1. PICK start : Layout(t, bs, start) BY BytesLayout
<1>2. LoadText(chain) = LoadString(tail) BY DEF LoadText
<1>3. last \in Nat
  <2> HIDE DEF bs
  <2> QED BY <1>0, Division
<1> HIDE DEF bs
<1>4. IF Len(bs) < CellBytes
        THEN tail = <<bs>>
        ELSE /\ tail \in Seq(Seq(Byte)) /\ Len(tail) = last + 1
             /\ tail[1] = << >>
             /\ \A i \in 2..Len(tail) : tail[i] = PartOf(bs, i - 1)
  BY <1>0, JettonChain
<1> HIDE DEF tail, chain, last
<1>5. CASE Len(bs) < CellBytes
  <2>1. LoadString(<<bs>>) = Run(0, Len(t)) BY <1>0, <1>1, ReadOne
  <2> QED BY <2>1, <1>2, <1>4, <1>5 DEF bs, chain
<1>6. CASE ~(Len(bs) < CellBytes)
  <2>1. ASSUME NEW i \in 1..Len(tail), NEW j \in 1..Len(tail[i])
        PROVE  \E p \in 2..Len(bs) : tail[i][j] = bs[p]
    <3>1. CASE i = 1
      <4>1. tail[i] = << >> BY <3>1, <1>4, <1>6
      <4> QED BY <4>1
    <3>2. CASE i # 1
      <4> DEFINE off == (i - 1) * CellBytes
                 part == PartOf(bs, i - 1)
      <4>1. i \in 2..Len(tail) /\ i - 1 \in 0..last /\ i - 1 \in Nat /\ 1 <= i - 1
        BY <3>2, <1>3, <1>4, <1>6
      <4>2. tail[i] = part BY <4>1, <1>4, <1>6
      <4>3. Window(bs, off, part) BY <4>1, <1>0, PartIs DEF last
      <4>4. 1 <= off
        <5>1. 1 * CellBytes <= (i - 1) * CellBytes BY <4>1, <1>0, TimesMonotone
        <5>2. 1 * CellBytes = CellBytes /\ off \in Nat BY <4>1, <1>0
        <5> HIDE DEF off
        <5>3. CellBytes <= off BY <5>1, <5>2 DEF off
        <5> QED BY <5>2, <5>3, <1>0
      <4> HIDE DEF off, part
      <4>5. /\ off \in Nat /\ off + Len(part) <= Len(bs) /\ Len(part) \in Nat
            /\ \A k \in 1..Len(part) : part[k] = bs[off + k]
        BY <4>3 DEF Window
      <4>6. j \in 1..Len(part) /\ tail[i][j] = bs[off + j] BY <4>2, <4>5
      <4>7. off + j \in 2..Len(bs) BY <4>4, <4>5, <4>6, <1>0
      <4> QED BY <4>6, <4>7
    <3> QED BY <3>1, <3>2
  <2>2. LoadString(tail) # Run(0, Len(t))
    BY <2>1, <1>0, <1>1, <1>4, <1>6, ReadBeheaded
  <2> QED BY <2>2, <1>2, <1>6 DEF bs, chain
<1> QED BY <1>5, <1>6

\* What the contract holds is what was stored for the text.
TextInv ==
  /\ kind \in Kinds /\ text \in Texts \cup {<< >>}
  /\ text # << >> => cells = Stored(kind, text)

LEMMA TextsAre == \A t \in Texts : t \in Seq(1..4) /\ Len(t) >= 1
<1> SUFFICES ASSUME NEW t \in Texts PROVE t \in Seq(1..4) /\ Len(t) >= 1
  OBVIOUS
<1>1. t \in SeqOf(1..4, MaxBytes) /\ Len(GetBytes(t)) \in 1..MaxBytes BY DEF Texts
<1>2. PICK m \in 0..MaxBytes : t \in [1..m -> 1..4] BY <1>1 DEF SeqOf
<1>3. m \in Nat BY <1>2, BoundsAssumption
<1>4. t \in Seq(1..4) BY <1>2, <1>3
<1>5. ASSUME Len(t) = 0 PROVE FALSE
  <2>1. PICK start : Layout(t, GetBytes(t), start) BY <1>4, BytesLayout
  <2>2. start[1] = 0 /\ start[Len(t) + 1] = Len(GetBytes(t)) BY <2>1 DEF Layout
  <2>3. Len(GetBytes(t)) = 0 BY <2>2, <1>5
  <2> QED BY <2>3, <1>1, BoundsAssumption
<1> QED BY <1>4, <1>5

\* For every size of a cell and every text, of characters of one to four bytes:
\* exactly the texts that Survives describes are read as they were entered
\* (StoreBuffer, BatchMint; LoadText, LoadString).
THEOREM TextRoundTrip ==
  ASSUME NEW k \in Kinds, NEW t \in Seq(1..4), Len(t) >= 1
  PROVE  LET read == IF k = "jetton" THEN LoadText(Stored(k, t)) ELSE LoadString(Stored(k, t))
         IN read = [c \in 1..Len(t) |-> c] <=> Survives(k, t)
<1>0. Run(0, Len(t)) = [c \in 1..Len(t) |-> c] BY RunOfText
<1>1. CASE k = "jetton"
  <2>1. Stored(k, t) = StoreBuffer(GetBytes(t), <<Snake>>) BY <1>1 DEF Stored
  <2>2. Survives(k, t) <=> Len(GetBytes(t)) < CellBytes BY <1>1 DEF Survives
  <2> QED BY <2>1, <2>2, <1>0, <1>1, JettonText
<1>2. CASE k = "item"
  <2>1. Stored(k, t) = StoreBuffer(GetBytes(t), << >>) /\ k # "jetton" BY <1>2 DEF Stored
  <2>2. Survives(k, t) <=> NoneAcross(GetBytes(t)) BY <1>2 DEF Survives, NoneAcross
  <2> QED BY <2>1, <2>2, <1>0, <1>2, ItemText
<1>3. CASE k = "batch"
  <2>1. Stored(k, t) = <<Store(<< >>, GetBytes(t))>> /\ k # "jetton" BY <1>3 DEF Stored
  <2>2. Survives(k, t) <=> Len(GetBytes(t)) <= CellBytes BY <1>3 DEF Survives
  <2> QED BY <2>1, <2>2, <1>0, <1>3, BatchText
<1> QED BY <1>1, <1>2, <1>3 DEF Kinds

LEMMA TextInvariant == Spec => []TextInv
<1>1. Init => TextInv BY DEF Init, TextInv, Kinds
<1>2. TextInv /\ [Next]_vars => TextInv'
  <2> SUFFICES ASSUME TextInv, [Next]_vars PROVE TextInv'
    OBVIOUS
  <2>1. ASSUME NEW i \in Indexes, NEW item \in Items, Add(i, item) PROVE TextInv'
    BY <2>1 DEF TextInv, Add, textVars
  <2>2. ASSUME NEW k \in Kinds, NEW t \in Texts, Write(k, t) PROVE TextInv'
    BY <2>2 DEF TextInv, Write
  <2>3. CASE Read BY <2>3 DEF TextInv, Read
  <2>4. CASE UNCHANGED vars BY <2>4 DEF TextInv, vars, textVars
  <2> QED BY <2>1, <2>2, <2>3, <2>4 DEF Next
<1> QED BY <1>1, <1>2, PTL DEF Spec

\* Every reading of a token's text gives what was entered exactly when the text
\* survives (GetJettonInfo and GetNftData after a deployment or a change).
THEOREM TextReads == Spec => TextReadsBack
<1>1. TextInv /\ Read => (shown' = [c \in 1..Len(text) |-> c] <=> Survives(kind, text))
  <2> SUFFICES ASSUME TextInv, Read
               PROVE  shown' = [c \in 1..Len(text) |-> c] <=> Survives(kind, text)
    OBVIOUS
  <2>1. text \in Seq(1..4) /\ Len(text) >= 1 /\ kind \in Kinds BY TextsAre DEF TextInv, Read
  <2>2. shown' = IF kind = "jetton" THEN LoadText(Stored(kind, text)) ELSE LoadString(Stored(kind, text))
    BY DEF TextInv, Read
  <2> QED BY <2>1, <2>2, TextRoundTrip
<1>2. TextInv /\ [Next]_vars => [Read => (shown' = [c \in 1..Len(text) |-> c] <=> Survives(kind, text))]_vars
  BY <1>1
<1> QED BY <1>2, TextInvariant, PTL DEF Spec, TextReadsBack
-----------------------------------------------------------------------------
(* Powers of two and binary numbers. *)

LEMMA Power2Is ==
  /\ Power2[0] = 1
  /\ \A k \in 1..KeyLength : Power2[k] = 2 * Power2[k - 1]
<1> DEFINE Body(f, k) == IF k = 0 THEN 1 ELSE 2 * f[k - 1]
           P(f) == f = [k \in 0..KeyLength |-> Body(f, k)]
           power == CHOOSE f : P(f)
           T == {n \in Nat : \E f : f = [k \in 0..n |-> Body(f, k)]}
<1>0. KeyLength \in Nat BY KeyLengthAssumption
<1>1. 0 \in T
  <2> DEFINE g == [k \in 0..0 |-> 1]
  <2>1. g = [k \in 0..0 |-> Body(g, k)] OBVIOUS
  <2> HIDE DEF g, Body
  <2> QED BY <2>1
<1>2. ASSUME NEW n \in Nat, n \in T PROVE n + 1 \in T
  <2>1. PICK f : f = [k \in 0..n |-> Body(f, k)] BY <1>2
  <2> DEFINE g == [k \in 0..(n + 1) |-> IF k <= n THEN f[k] ELSE Body(f, n + 1)]
  <2>2. ASSUME NEW k \in 0..(n + 1) PROVE g[k] = Body(g, k)
    <3>1. k # 0 => k - 1 \in 0..n /\ k - 1 \in 0..(n + 1) BY <1>2
    <3>2. k # 0 => g[k - 1] = f[k - 1] BY <3>1
    <3>3. Body(g, k) = Body(f, k) BY <3>2
    <3>4. CASE k <= n
      <4>1. k \in 0..n BY <3>4
      <4>2. f[k] = Body(f, k) BY <2>1, <4>1, Zenon
      <4> QED BY <3>3, <3>4, <4>2
    <3>5. CASE ~(k <= n)
      <4>1. k = n + 1 BY <3>5
      <4> QED BY <3>3, <3>5, <4>1
    <3> QED BY <3>4, <3>5
  <2>3. g = [k \in 0..(n + 1) |-> g[k]] OBVIOUS
  <2> HIDE DEF g, Body
  <2>4. g = [k \in 0..(n + 1) |-> Body(g, k)] BY <2>2, <2>3
  <2> QED BY <2>4
<1> HIDE DEF T
<1>3. KeyLength \in T BY <1>0, <1>1, <1>2, Induction
<1>4. \E f : P(f) BY <1>3 DEF T
<1>5. P(power) BY <1>4, Zenon
<1>6. Power2 = power BY DEF Power2
<1> HIDE DEF power
<1>7. \A k \in 0..KeyLength : Power2[k] = Body(Power2, k)
  <2> HIDE DEF Body
  <2> QED BY <1>5, <1>6, Zenon
<1>8. 0 \in 0..KeyLength /\ \A k \in 1..KeyLength : k \in 0..KeyLength /\ k # 0 BY <1>0
<1> QED BY <1>7, <1>8

LEMMA Power2Grows ==
  /\ \A k \in 0..KeyLength : Power2[k] \in Nat \ {0} /\ k < Power2[k]
  /\ \A j, k \in 0..KeyLength : j <= k => Power2[j] <= Power2[k]
<1>0. KeyLength \in Nat BY KeyLengthAssumption
<1> DEFINE T == {n \in Nat : n <= KeyLength => Power2[n] \in Nat \ {0} /\ n < Power2[n]}
<1>1. 0 \in T BY Power2Is
<1>2. ASSUME NEW n \in Nat, n \in T PROVE n + 1 \in T
  <2>1. CASE n + 1 <= KeyLength
    <3>1. n + 1 \in 1..KeyLength /\ (n + 1) - 1 = n BY <2>1, <1>0
    <3>2. Power2[n + 1] = 2 * Power2[n]
      <4>1. Power2[n + 1] = 2 * Power2[(n + 1) - 1] BY <3>1, Power2Is
      <4> QED BY <3>1, <4>1
    <3>3. Power2[n] \in Nat \ {0} /\ n < Power2[n] BY <1>2, <2>1, <1>0
    <3> QED BY <3>2, <3>3
  <2>2. CASE ~(n + 1 <= KeyLength) BY <2>2
  <2> QED BY <2>1, <2>2
<1> HIDE DEF T
<1>3. \A n \in Nat : n \in T BY <1>1, <1>2, Induction
<1>4. ASSUME NEW k \in 0..KeyLength PROVE Power2[k] \in Nat \ {0} /\ k < Power2[k]
  <2>1. k \in T BY <1>3
  <2> QED BY <2>1 DEF T
<1>5. ASSUME NEW j \in 0..KeyLength PROVE \A k \in 0..KeyLength : j <= k => Power2[j] <= Power2[k]
  <2> DEFINE U == {n \in Nat : j + n <= KeyLength => Power2[j] <= Power2[j + n]}
  <2>0. Power2[j] \in Nat BY <1>4
  <2>1. 0 \in U
    <3>1. j + 0 = j OBVIOUS
    <3> QED BY <2>0, <3>1
  <2>2. ASSUME NEW n \in Nat, n \in U PROVE n + 1 \in U
    <3>1. CASE j + (n + 1) <= KeyLength
      <4>1. j + (n + 1) \in 1..KeyLength /\ (j + (n + 1)) - 1 = j + n /\ j + n \in 0..KeyLength
        BY <3>1, <1>0
      <4>2. Power2[j + (n + 1)] = 2 * Power2[j + n]
        <5>1. Power2[j + (n + 1)] = 2 * Power2[(j + (n + 1)) - 1] BY <4>1, Power2Is
        <5> QED BY <4>1, <5>1
      <4>3. Power2[j] <= Power2[j + n] BY <2>2, <4>1
      <4>4. Power2[j + n] \in Nat BY <4>1, <1>4
      <4> QED BY <4>2, <4>3, <4>4, <2>0
    <3>2. CASE ~(j + (n + 1) <= KeyLength) BY <3>2
    <3> QED BY <3>1, <3>2
  <2> HIDE DEF U
  <2>3. \A n \in Nat : n \in U BY <2>1, <2>2, Induction
  <2> SUFFICES ASSUME NEW k \in 0..KeyLength, j <= k PROVE Power2[j] <= Power2[k]
    OBVIOUS
  <2>4. k - j \in Nat /\ j + (k - j) = k OBVIOUS
  <2>5. k - j \in U BY <2>3, <2>4
  <2> QED BY <2>4, <2>5 DEF U
<1> QED BY <1>4, <1>5
\* value holds what the first bits stand for.
Values(bits, value) ==
  value[0] = 0 /\ \A i \in 1..Len(bits) : value[i] = 2 * value[i - 1] + bits[i]

LEMMA NumberIs ==
  ASSUME NEW bits \in Seq(Bits)
  PROVE  \E value : Values(bits, value) /\ Number(bits) = value[Len(bits)]
<1> DEFINE Body(f, i) == IF i = 0 THEN 0 ELSE 2 * f[i - 1] + bits[i]
           P(f) == f = [i \in 0..Len(bits) |-> Body(f, i)]
           value == CHOOSE f : P(f)
           T == {n \in Nat : \E f : f = [i \in 0..n |-> Body(f, i)]}
<1>0. Len(bits) \in Nat OBVIOUS
<1>1. 0 \in T
  <2> DEFINE g == [i \in 0..0 |-> 0]
  <2>1. g = [i \in 0..0 |-> Body(g, i)] OBVIOUS
  <2> HIDE DEF g, Body
  <2> QED BY <2>1
<1>2. ASSUME NEW n \in Nat, n \in T PROVE n + 1 \in T
  <2>1. PICK f : f = [i \in 0..n |-> Body(f, i)] BY <1>2
  <2> DEFINE g == [i \in 0..(n + 1) |-> IF i <= n THEN f[i] ELSE Body(f, n + 1)]
  <2>2. ASSUME NEW i \in 0..(n + 1) PROVE g[i] = Body(g, i)
    <3>1. i # 0 => i - 1 \in 0..n /\ i - 1 \in 0..(n + 1) BY <1>2
    <3>2. i # 0 => g[i - 1] = f[i - 1] BY <3>1
    <3>3. Body(g, i) = Body(f, i) BY <3>2
    <3>4. CASE i <= n
      <4>1. i \in 0..n BY <3>4
      <4>2. f[i] = Body(f, i) BY <2>1, <4>1, Zenon
      <4> QED BY <3>3, <3>4, <4>2
    <3>5. CASE ~(i <= n)
      <4>1. i = n + 1 BY <3>5
      <4> QED BY <3>3, <3>5, <4>1
    <3> QED BY <3>4, <3>5
  <2>3. g = [i \in 0..(n + 1) |-> g[i]] OBVIOUS
  <2> HIDE DEF g, Body
  <2>4. g = [i \in 0..(n + 1) |-> Body(g, i)] BY <2>2, <2>3
  <2> QED BY <2>4
<1> HIDE DEF T
<1>3. Len(bits) \in T BY <1>0, <1>1, <1>2, Induction
<1>4. \E f : P(f) BY <1>3 DEF T
<1>5. P(value) BY <1>4, Zenon
<1>6. Number(bits) = value[Len(bits)] BY DEF Number
<1> HIDE DEF value
<1>7. \A i \in 0..Len(bits) : value[i] = Body(value, i)
  <2> HIDE DEF Body
  <2> QED BY <1>5, Zenon
<1>8. 0 \in 0..Len(bits) /\ \A i \in 1..Len(bits) : i \in 0..Len(bits) /\ i # 0 BY <1>0
<1>9. Values(bits, value) BY <1>7, <1>8 DEF Values
<1> QED BY <1>6, <1>9

LEMMA HalfOf ==
  ASSUME NEW v \in Nat, NEW c \in Nat \ {0}
  PROVE  (v \div c) \div 2 = v \div (2 * c)
<1> DEFINE u == v \div c
           r == v % c
           q == u \div 2
           b == u % 2
<1>1. u \in Nat /\ r \in 0..(c - 1) /\ v = u * c + r BY Division
<1>2. q \in Nat /\ b \in 0..(2 - 1) /\ u = q * 2 + b
  <2> HIDE DEF u
  <2>1. 2 \in Nat \ {0} OBVIOUS
  <2> QED BY <2>1, <1>1, Division
<1> HIDE DEF u, r, q, b
<1>3. 2 * c \in Nat \ {0} OBVIOUS
<1>4. b = 0 \/ b = 1 BY <1>2
<1>5. v = q * (2 * c) + (b * c + r) /\ b * c + r \in 0..(2 * c - 1)
  <2>1. CASE b = 0
    <3>1. u = q * 2 /\ b * c = 0 BY <1>2, <2>1
    <3>2. u * c = q * (2 * c)
      <4>1. (q * 2) * c = q * (2 * c) BY <1>2
      <4> QED BY <3>1, <4>1
    <3>3. q * (2 * c) \in Nat BY <1>2, <1>3
    <3> QED BY <3>1, <3>2, <3>3, <1>1
  <2>2. CASE b = 1
    <3>1. u = q * 2 + 1 /\ b * c = c BY <1>2, <2>2
    <3>2. u * c = q * (2 * c) + c
      <4>1. (q * 2 + 1) * c = q * (2 * c) + c BY <1>2
      <4> QED BY <3>1, <4>1
    <3>3. q * (2 * c) \in Nat BY <1>2, <1>3
    <3> DEFINE all == q * (2 * c)
               most == u * c
               half == b * c
    <3>4. all \in Nat /\ most = all + c /\ half = c /\ v = most + r BY <3>1, <3>2, <3>3, <1>1
    <3> HIDE DEF all, most, half
    <3>5. v = all + (half + r) /\ half + r \in 0..(2 * c - 1) BY <3>4, <1>1
    <3> QED BY <3>5 DEF all, half
  <2> QED BY <1>4, <2>1, <2>2
<1>6. q = v \div (2 * c)
  <2> DEFINE double == 2 * c
             rest == b * c + r
  <2>1. double \in Nat \ {0} /\ rest \in 0..(double - 1) /\ v = q * double + rest BY <1>3, <1>5
  <2>2. q \in Nat BY <1>2
  <2> HIDE DEF double, rest
  <2>3. q = v \div double BY <2>1, <2>2, Division
  <2> QED BY <2>3 DEF double
<1> QED BY <1>6 DEF q, u

\* The number of its bits.
LEMMA NumberOfBinary ==
  ASSUME NEW w \in 0..KeyLength, NEW v \in 0..(Power2[w] - 1)
  PROVE  Binary(v, w) \in Keys(w) /\ Binary(v, w) \in Seq(Bits) /\ Len(Binary(v, w)) = w
         /\ Number(Binary(v, w)) = v
<1> DEFINE bits == Binary(v, w)
           Part(i) == v \div Power2[w - i]
<1>0. KeyLength \in Nat /\ w \in Nat BY KeyLengthAssumption
<1>1. \A i \in 0..w : w - i \in 0..KeyLength /\ Power2[w - i] \in Nat \ {0}
  <2> SUFFICES ASSUME NEW i \in 0..w PROVE w - i \in 0..KeyLength /\ Power2[w - i] \in Nat \ {0}
    OBVIOUS
  <2>1. w - i \in 0..KeyLength BY <1>0
  <2> QED BY <2>1, Power2Grows
<1>2. Power2[w] \in Nat \ {0} /\ v \in Nat /\ v < Power2[w]
  <2>1. Power2[w] \in Nat \ {0} BY Power2Grows
  <2> QED BY <2>1
<1>3. \A i \in 0..w : Part(i) \in Nat BY <1>1, <1>2, Division
<1>4. \A i \in 1..w : Part(i) % 2 \in Bits
  <2> SUFFICES ASSUME NEW i \in 1..w PROVE Part(i) % 2 \in Bits
    OBVIOUS
  <2>1. Part(i) \in Nat BY <1>0, <1>3
  <2> HIDE DEF Part
  <2>2. Part(i) % 2 \in 0..1 BY <2>1
  <2> QED BY <2>2 DEF Bits
<1>5. bits = [i \in 1..w |-> Part(i) % 2] BY DEF Binary
<1> HIDE DEF Part, bits
<1>6. bits \in [1..w -> Bits] /\ \A i \in 1..w : bits[i] = Part(i) % 2 BY <1>4, <1>5
<1>7. bits \in Seq(Bits) /\ Len(bits) = w BY <1>0, <1>6
<1>8. PICK value : Values(bits, value) /\ Number(bits) = value[Len(bits)] BY <1>7, NumberIs
<1> DEFINE T == {i \in Nat : i <= w => value[i] = Part(i)}
<1>9. 0 \in T
  <2>1. value[0] = 0 BY <1>8 DEF Values
  <2>2. w - 0 = w /\ 0 * Power2[w] = 0 /\ v \in 0..(Power2[w] - 1) /\ v = 0 * Power2[w] + v BY <1>0, <1>2
  <2>3. 0 = v \div Power2[w] BY <2>2, <1>2, Division
  <2>4. Part(0) = 0 BY <2>2, <2>3 DEF Part
  <2> QED BY <2>1, <2>4
<1>10. ASSUME NEW i \in Nat, i \in T PROVE i + 1 \in T
  <2>1. CASE i + 1 <= w
    <3>1. i + 1 \in 1..w /\ i \in 0..w /\ i + 1 \in 0..w /\ (i + 1) - 1 = i BY <1>0, <2>1
    <3>2. value[i + 1] = 2 * Part(i) + (Part(i + 1) % 2)
      <4>1. value[i + 1] = 2 * value[(i + 1) - 1] + bits[i + 1] BY <3>1, <1>7, <1>8 DEF Values
      <4>2. value[i] = Part(i) BY <1>10, <3>1
      <4> QED BY <3>1, <4>1, <4>2, <1>6
    <3>3. Part(i) = Part(i + 1) \div 2
      <4> DEFINE e == w - (i + 1)
      <4>1. e \in 0..KeyLength /\ e + 1 = w - i /\ w - i \in 1..KeyLength /\ (w - i) - 1 = e BY <3>1, <1>0
      <4>2. Power2[w - i] = 2 * Power2[e]
        <5>1. Power2[w - i] = 2 * Power2[(w - i) - 1] BY <4>1, Power2Is
        <5> QED BY <4>1, <5>1
      <4>3. Power2[e] \in Nat \ {0} BY <4>1, Power2Grows
      <4>4. (v \div Power2[e]) \div 2 = v \div (2 * Power2[e]) BY <4>3, <1>2, HalfOf
      <4> QED BY <4>2, <4>4 DEF Part
    <3>4. Part(i + 1) \in Nat BY <3>1, <1>3
    <3>5. value[i + 1] = Part(i + 1)
      <4> DEFINE u == Part(i + 1)
      <4>1. value[i + 1] = 2 * (u \div 2) + (u % 2) BY <3>2, <3>3
      <4>2. u \in Nat BY <3>4
      <4> HIDE DEF u
      <4>3. u \div 2 \in Nat /\ u % 2 \in 0..(2 - 1) /\ u = (u \div 2) * 2 + (u % 2)
        BY <4>2, Division
      <4> DEFINE q == u \div 2
                 b == u % 2
      <4>4. q \in Nat /\ b \in 0..1 /\ u = q * 2 + b /\ value[i + 1] = 2 * q + b BY <4>1, <4>3
      <4> HIDE DEF q, b
      <4>5. value[i + 1] = u BY <4>4
      <4> QED BY <4>5 DEF u
    <3> QED BY <3>5
  <2>2. CASE ~(i + 1 <= w) BY <2>2
  <2> QED BY <2>1, <2>2
<1> HIDE DEF T
<1>11. \A i \in Nat : i \in T BY <1>9, <1>10, Induction
<1>12. value[w] = Part(w)
  <2>1. w \in T BY <1>0, <1>11
  <2> QED BY <2>1, <1>0 DEF T
<1>13. Part(w) = v
  <2>1. w - w = 0 BY <1>0
  <2>2. v \div 1 = v
    <3>1. v = v * 1 + 0 /\ 0 \in 0..(1 - 1) /\ 1 \in Nat \ {0} BY <1>2
    <3> QED BY <3>1, <1>2, Division
  <2> QED BY <2>1, <2>2, Power2Is DEF Part
<1>14. bits \in Keys(w) BY <1>6 DEF Keys
<1> QED BY <1>7, <1>8, <1>12, <1>13, <1>14 DEF bits
-----------------------------------------------------------------------------
(* Labels. *)

\* The logarithm of the serializer and the width of the library are the same,
\* and wide enough for the length of every label.
LEMMA Widths ==
  ASSUME NEW n \in 0..KeyLength
  PROVE  /\ LengthBits(n) = BitWidth(n) /\ BitWidth(n) \in 0..n /\ BitWidth(n) \in 0..KeyLength
         /\ n < Power2[BitWidth(n)]
<1> DEFINE Wide(k) == Power2[k] >= n + 1
           P(k) == Wide(k) /\ \A i \in 0..n : Wide(i) => k <= i
           Q(k) == Power2[k] > n /\ (k > 0 => Power2[k - 1] <= n)
           W == LengthBits(n)
           B == BitWidth(n)
<1>0. KeyLength \in Nat /\ n \in Nat /\ \A k \in 0..n : k \in 0..KeyLength BY KeyLengthAssumption
<1>1. \A k \in 0..n : Power2[k] \in Nat
  <2> SUFFICES ASSUME NEW k \in 0..n PROVE Power2[k] \in Nat
    OBVIOUS
  <2> QED BY <1>0, Power2Grows
<1>2. \E k \in 0..n : P(k)
  <2> DEFINE T == {k \in 0..n : Wide(k)}
  <2>1. n \in T
    <3>1. n < Power2[n] /\ n \in 0..n BY <1>0, Power2Grows
    <3> QED BY <3>1, <1>1
  <2>2. T \subseteq Nat /\ T # {} BY <2>1
  <2> HIDE DEF T
  <2>3. PICK k \in T : \A i \in T : k <= i BY <2>2, SmallestNat
  <2> QED BY <2>3 DEF T
<1>3. W \in 0..n /\ P(W)
  <2>1. W = CHOOSE k \in 0..n : P(k) BY DEF LengthBits
  <2> HIDE DEF P, W
  <2> QED BY <1>2, <2>1
<1>4. Q(W)
  <2>1. Power2[W] > n BY <1>0, <1>1, <1>3
  <2>2. ASSUME W > 0 PROVE Power2[W - 1] <= n
    <3>1. W - 1 \in 0..n /\ ~(W <= W - 1) BY <1>0, <1>3, <2>2
    <3>2. ~Wide(W - 1) BY <1>3, <3>1
    <3> HIDE DEF W
    <3> QED BY <3>1, <3>2, <1>0, <1>1
  <2> QED BY <2>1, <2>2
<1>5. B \in 0..n /\ Q(B)
  <2>1. B = CHOOSE k \in 0..n : Q(k) BY DEF BitWidth
  <2>2. \E k \in 0..n : Q(k) BY <1>3, <1>4
  <2> HIDE DEF Q, B
  <2> QED BY <2>1, <2>2
<1> HIDE DEF W, B
<1>6. W <= B
  <2>1. Wide(B) BY <1>0, <1>1, <1>5
  <2> QED BY <2>1, <1>3, <1>5
<1>7. ~(W < B)
  <2> SUFFICES ASSUME W < B PROVE FALSE
    OBVIOUS
  <2>1. B - 1 \in 0..n /\ W <= B - 1 /\ B > 0 BY <1>0, <1>3, <1>5
  <2>2. Power2[B - 1] <= n BY <2>1, <1>5
  <2>3. Power2[W] <= Power2[B - 1] BY <2>1, <1>0, <1>3, Power2Grows
  <2> QED BY <2>1, <2>2, <2>3, <1>0, <1>1, <1>3, <1>4
<1>8. W = B BY <1>3, <1>5, <1>6, <1>7
<1> QED BY <1>0, <1>5, <1>8 DEF W, B

LEMMA LabelsAre ==
  ASSUME NEW n \in Nat
  PROVE  \A s : s \in Labels(n) <=> s \in Seq(Bits) /\ Len(s) \in 0..n
<1>1. ASSUME NEW s \in Labels(n) PROVE s \in Seq(Bits) /\ Len(s) \in 0..n
  <2>1. PICK k \in 0..n : s \in Keys(k) BY DEF Labels
  <2> QED BY <2>1 DEF Keys
<1>2. ASSUME NEW s \in Seq(Bits), Len(s) \in 0..n PROVE s \in Labels(n)
  <2>1. s \in Keys(Len(s)) BY DEF Keys
  <2> QED BY <2>1, <1>2 DEF Labels
<1> QED BY <1>1, <1>2

\* The serializer and the library choose the same form for every label.
LEMMA SameLabels ==
  ASSUME NEW n \in 0..KeyLength, NEW s \in Labels(n)
  PROVE  WriteLabel(s, n) = append_dict_label(s, n)
<1> DEFINE k == BitWidth(n)
           l == Len(s)
           number == Binary(l, k)
           ones == Repeat(1, l)
           short == <<0>> \o ones \o <<0>> \o s
           long == <<1, 0>> \o number \o s
           same == <<1, 1, s[1]>> \o number
           best == IF Len(long) < Len(short) THEN long ELSE short
<1>0. n \in Nat /\ s \in Seq(Bits) /\ l \in 0..n /\ l \in Nat /\ KeyLength \in Nat
  <2>1. n \in Nat /\ KeyLength \in Nat BY KeyLengthAssumption
  <2> QED BY <2>1, LabelsAre
<1>1. LengthBits(n) = k /\ k \in Nat BY <1>0, Widths
<1>2. WriteLabel(s, n) = IF IsSame(s) /\ 3 + k < Len(best) THEN same ELSE best
  BY <1>1 DEF WriteLabel, LabelShort, LabelLong, LabelSame, LabelSameLength
<1> DEFINE isSame == Len(s) > 1 /\ IsSame(s) /\ k < 2 * Len(s) - 1
<1>3. append_dict_label(s, n) = CASE isSame -> same
                                  [] ~isSame /\ k < l -> long
                                  [] OTHER -> short
  BY DEF append_dict_label
<1>4. Len(short) = 2 * l + 2 /\ Len(long) = 2 + k + l
  <2>1. number \in Seq(Nat) /\ Len(number) = k
    <3>1. l \in 0..(Power2[k] - 1)
      <4>1. n < Power2[k] /\ k \in 0..KeyLength BY Widths
      <4>2. Power2[k] \in Nat BY <4>1, Power2Grows
      <4> HIDE DEF k, l
      <4> QED BY <4>1, <4>2, <1>0
    <3>2. number \in Seq(Bits) /\ Len(number) = k
      <4>1. k \in 0..KeyLength BY Widths
      <4> HIDE DEF k, l
      <4> QED BY <3>1, <4>1, NumberOfBinary
    <3> HIDE DEF number
    <3> QED BY <3>2 DEF Bits
  <2>2. ones \in Seq(Nat) /\ Len(ones) = l
    <3> HIDE DEF l
    <3> QED BY <1>0 DEF Repeat
  <2>3. s \in Seq(Nat) BY <1>0 DEF Bits
  <2> HIDE DEF number, ones, k, l
  <2>4. <<0>> \in Seq(Nat) /\ Len(<<0>>) = 1 /\ <<1, 0>> \in Seq(Nat) /\ Len(<<1, 0>>) = 2 OBVIOUS
  <2>5. <<0>> \o ones \in Seq(Nat) /\ Len(<<0>> \o ones) = 1 + l BY <2>2, <2>4, ConcatProperties
  <2>6. <<0>> \o ones \o <<0>> \in Seq(Nat) /\ Len(<<0>> \o ones \o <<0>>) = 1 + l + 1
    BY <2>4, <2>5, ConcatProperties
  <2>7. Len(short) = 1 + l + 1 + Len(s) BY <2>3, <2>6, ConcatProperties
  <2>8. <<1, 0>> \o number \in Seq(Nat) /\ Len(<<1, 0>> \o number) = 2 + k BY <2>1, <2>4, ConcatProperties
  <2>9. Len(long) = 2 + k + Len(s) BY <2>3, <2>8, ConcatProperties
  <2>10. Len(s) = l BY DEF l
  <2> HIDE DEF short, long
  <2> QED BY <2>7, <2>9, <2>10, <1>0
<1> HIDE DEF k, short, long, same, number, ones
<1>5. CASE k < l
  <2>1. best = long /\ Len(best) = 2 + k + l BY <1>0, <1>1, <1>4, <1>5
  <2>2. 3 + k < Len(best) <=> l > 1 BY <2>1, <1>0, <1>1
  <2>3. l > 1 => k < 2 * l - 1 BY <1>0, <1>1, <1>5
  <2>4. IsSame(s) /\ 3 + k < Len(best) <=> isSame BY <2>2, <2>3
  <2> HIDE DEF isSame, best
  <2> QED BY <2>1, <2>4, <1>2, <1>3, <1>5
<1>6. CASE ~(k < l)
  <2>1. best = short /\ Len(best) = 2 * l + 2 BY <1>0, <1>1, <1>4, <1>6
  <2>2. 3 + k < Len(best) <=> k < 2 * l - 1 BY <2>1, <1>0, <1>1
  <2>3. k < 2 * l - 1 => l > 1 BY <1>0, <1>1, <1>6
  <2>4. IsSame(s) /\ 3 + k < Len(best) <=> isSame BY <2>2, <2>3
  <2> HIDE DEF isSame, best
  <2> QED BY <2>1, <2>4, <1>2, <1>3, <1>6
<1> QED BY <1>5, <1>6
LEMMA ConcatElements ==
  ASSUME NEW S, NEW u \in Seq(S), NEW v \in Seq(S)
  PROVE  /\ u \o v \in Seq(S) /\ Len(u \o v) = Len(u) + Len(v)
         /\ \A i \in 1..Len(u) : (u \o v)[i] = u[i]
         /\ \A i \in 1..Len(v) : (u \o v)[Len(u) + i] = v[i]
<1> DEFINE w == u \o v
<1>0. Len(u) \in Nat /\ Len(v) \in Nat OBVIOUS
<1>1. /\ w \in Seq(S) /\ Len(w) = Len(u) + Len(v)
      /\ \A i \in 1..(Len(u) + Len(v)) : w[i] = IF i <= Len(u) THEN u[i] ELSE v[i - Len(u)]
  BY ConcatProperties
<1> HIDE DEF w
<1>2. ASSUME NEW i \in 1..Len(u) PROVE w[i] = u[i]
  <2>1. i \in 1..(Len(u) + Len(v)) /\ i <= Len(u) BY <1>0
  <2> QED BY <2>1, <1>1
<1>3. ASSUME NEW i \in 1..Len(v) PROVE w[Len(u) + i] = v[i]
  <2>1. Len(u) + i \in 1..(Len(u) + Len(v)) /\ ~(Len(u) + i <= Len(u)) /\ (Len(u) + i) - Len(u) = i BY <1>0
  <2> QED BY <2>1, <1>1
<1> QED BY <1>1, <1>2, <1>3 DEF w

\* The end of a sequence.
LEMMA SuffixIs ==
  ASSUME NEW S, NEW w \in Seq(S), NEW v \in Seq(S), NEW a \in Nat, Len(w) = a + Len(v),
         \A i \in 1..Len(v) : w[a + i] = v[i]
  PROVE  SubSeq(w, a + 1, a + Len(v)) = v
<1> DEFINE x == SubSeq(w, a + 1, a + Len(v))
<1>0. Len(v) \in Nat OBVIOUS
<1>1. \A i \in (a + 1)..(a + Len(v)) : w[i] \in S
  <2> SUFFICES ASSUME NEW i \in (a + 1)..(a + Len(v)) PROVE w[i] \in S
    OBVIOUS
  <2>1. i \in 1..Len(w) BY <1>0
  <2> QED BY <2>1
<1>2. /\ x \in Seq(S) /\ Len(x) = Len(v)
      /\ \A i \in 1..Len(v) : x[i] = w[a + i]
  <2>1. a + 1 \in Int /\ a + Len(v) \in Int BY <1>0
  <2>2. /\ x \in Seq(S)
        /\ Len(x) = IF a + 1 <= a + Len(v) THEN (a + Len(v)) - (a + 1) + 1 ELSE 0
        /\ \A i \in 1..((a + Len(v)) - (a + 1) + 1) : x[i] = w[(a + 1) + i - 1]
    BY <1>1, <2>1, SubSeqProperties
  <2> HIDE DEF x
  <2>3. Len(x) = Len(v) BY <2>2, <1>0
  <2>4. ASSUME NEW i \in 1..Len(v) PROVE x[i] = w[a + i]
    <3>1. i \in 1..((a + Len(v)) - (a + 1) + 1) /\ (a + 1) + i - 1 = a + i BY <1>0
    <3> QED BY <3>1, <2>2
  <2> QED BY <2>2, <2>3, <2>4
<1> HIDE DEF x
<1>3. x = v BY <1>2, SeqEqual
<1> QED BY <1>3 DEF x

\* The start and the middle of a joined sequence.
LEMMA MiddleIs ==
  ASSUME NEW S, NEW u \in Seq(S), NEW v \in Seq(S), NEW x \in Seq(S)
  PROVE  /\ SubSeq((u \o v) \o x, Len(u) + 1, Len(u) + Len(v)) = v
         /\ SubSeq((u \o v) \o x, Len(u) + Len(v) + 1, Len(u) + Len(v) + Len(x)) = x
         /\ \A i \in 1..Len(u) : ((u \o v) \o x)[i] = u[i]
<1> DEFINE p == u \o v
           w == p \o x
<1>0. Len(u) \in Nat /\ Len(v) \in Nat /\ Len(x) \in Nat OBVIOUS
<1>1. /\ p \in Seq(S) /\ Len(p) = Len(u) + Len(v)
      /\ \A i \in 1..Len(u) : p[i] = u[i]
      /\ \A i \in 1..Len(v) : p[Len(u) + i] = v[i]
  BY ConcatElements
<1> HIDE DEF p
<1>2. /\ w \in Seq(S) /\ Len(w) = Len(p) + Len(x)
      /\ \A i \in 1..Len(p) : w[i] = p[i]
      /\ \A i \in 1..Len(x) : w[Len(p) + i] = x[i]
  <2>1. p \in Seq(S) BY <1>1
  <2> QED BY <2>1, ConcatElements
<1> HIDE DEF w
<1>3. SubSeq(w, Len(p) + 1, Len(p) + Len(x)) = x
  <2>1. Len(p) \in Nat BY <1>0, <1>1
  <2> QED BY <2>1, <1>2, SuffixIs
<1>4. SubSeq(w, Len(u) + 1, Len(u) + Len(v)) = v
  <2> DEFINE y == SubSeq(w, Len(u) + 1, Len(u) + Len(v))
  <2>1. \A i \in (Len(u) + 1)..(Len(u) + Len(v)) : w[i] \in S
    <3> SUFFICES ASSUME NEW i \in (Len(u) + 1)..(Len(u) + Len(v)) PROVE w[i] \in S
      OBVIOUS
    <3>1. i \in 1..Len(w) BY <1>0, <1>1, <1>2
    <3> QED BY <3>1, <1>2
  <2>2. Len(u) + 1 \in Int /\ Len(u) + Len(v) \in Int BY <1>0
  <2>3. /\ y \in Seq(S)
        /\ Len(y) = IF Len(u) + 1 <= Len(u) + Len(v) THEN (Len(u) + Len(v)) - (Len(u) + 1) + 1 ELSE 0
        /\ \A i \in 1..((Len(u) + Len(v)) - (Len(u) + 1) + 1) : y[i] = w[(Len(u) + 1) + i - 1]
    BY <2>1, <2>2, SubSeqProperties
  <2> HIDE DEF y
  <2>4. Len(y) = Len(v) BY <2>3, <1>0
  <2>5. ASSUME NEW i \in 1..Len(v) PROVE y[i] = v[i]
    <3>1. /\ i \in 1..((Len(u) + Len(v)) - (Len(u) + 1) + 1) /\ (Len(u) + 1) + i - 1 = Len(u) + i
          /\ Len(u) + i \in 1..Len(p)
      BY <1>0, <1>1
    <3>2. y[i] = w[Len(u) + i] BY <2>3, <3>1
    <3>3. w[Len(u) + i] = p[Len(u) + i] BY <1>2, <3>1
    <3> QED BY <3>2, <3>3, <1>1
  <2>6. y = v BY <2>3, <2>4, <2>5, SeqEqual
  <2> QED BY <2>6 DEF y
<1>5. \A i \in 1..Len(u) : w[i] = u[i]
  <2> SUFFICES ASSUME NEW i \in 1..Len(u) PROVE w[i] = u[i]
    OBVIOUS
  <2>1. i \in 1..Len(p) BY <1>0, <1>1
  <2> QED BY <2>1, <1>1, <1>2
<1>6. Len(p) = Len(u) + Len(v) BY <1>1
<1> QED BY <1>3, <1>4, <1>5, <1>6 DEF w, p

LEMMA BitsMiddle ==
  \A u, v, x \in Seq(Bits) : \A w : w = (u \o v) \o x =>
    /\ SubSeq(w, Len(u) + 1, Len(u) + Len(v)) = v
    /\ SubSeq(w, Len(u) + Len(v) + 1, Len(u) + Len(v) + Len(x)) = x
    /\ \A i \in 1..Len(u) : w[i] = u[i]
<1> SUFFICES ASSUME NEW u \in Seq(Bits), NEW v \in Seq(Bits), NEW x \in Seq(Bits),
                    NEW w, w = (u \o v) \o x
             PROVE  /\ SubSeq(w, Len(u) + 1, Len(u) + Len(v)) = v
                    /\ SubSeq(w, Len(u) + Len(v) + 1, Len(u) + Len(v) + Len(x)) = x
                    /\ \A i \in 1..Len(u) : w[i] = u[i]
  OBVIOUS
<1>1. SubSeq((u \o v) \o x, Len(u) + 1, Len(u) + Len(v)) = v BY MiddleIs
<1>2. SubSeq((u \o v) \o x, Len(u) + Len(v) + 1, Len(u) + Len(v) + Len(x)) = x BY MiddleIs
<1>3. \A i \in 1..Len(u) : ((u \o v) \o x)[i] = u[i] BY MiddleIs
<1> QED BY <1>1, <1>2, <1>3

\* The three forms of a label, as the library reads them.
LEMMA ShortRead ==
  ASSUME NEW n \in 0..KeyLength, NEW s \in Labels(n)
  PROVE  parse_label(<<0>> \o Repeat(1, Len(s)) \o <<0>> \o s, n) = s
<1> DEFINE l == Len(s)
           ones == Repeat(1, l)
           zero == <<0>>
           bits == ((zero \o ones) \o zero) \o s
           End(c) == bits[c + 2] = 0 /\ \A i \in 1..c : bits[i + 1] = 1
           count == CHOOSE c \in 0..n : End(c)
<1>0. n \in Nat /\ s \in Seq(Bits) /\ l \in 0..n /\ l \in Nat
  <2>1. n \in Nat BY KeyLengthAssumption
  <2> QED BY <2>1, LabelsAre
<1>1. ones \in Seq(Bits) /\ Len(ones) = l /\ \A i \in 1..l : ones[i] = 1
  <2> HIDE DEF l
  <2> QED BY <1>0 DEF Repeat, Bits
<1>2. zero \in Seq(Bits) /\ Len(zero) = 1 /\ zero[1] = 0 BY DEF Bits
<1> HIDE DEF ones, zero, l
<1> DEFINE a == zero \o ones
           b == a \o zero
<1>3. /\ a \in Seq(Bits) /\ Len(a) = 1 + l /\ a[1] = 0 /\ \A i \in 1..l : a[1 + i] = 1
  <2>1. /\ a \in Seq(Bits) /\ Len(a) = Len(zero) + Len(ones)
        /\ \A i \in 1..Len(zero) : a[i] = zero[i]
        /\ \A i \in 1..Len(ones) : a[Len(zero) + i] = ones[i]
    <3>1. zero \in Seq(Bits) /\ ones \in Seq(Bits) BY <1>1, <1>2
    <3> QED BY <3>1, ConcatElements
  <2> HIDE DEF a
  <2>2. 1 \in 1..Len(zero) BY <1>2
  <2> QED BY <2>1, <2>2, <1>1, <1>2
<1> HIDE DEF a
<1>4. /\ b \in Seq(Bits) /\ Len(b) = l + 2 /\ b[1] = 0 /\ b[l + 2] = 0
      /\ \A i \in 1..l : b[i + 1] = 1
  <2>1. /\ b \in Seq(Bits) /\ Len(b) = Len(a) + Len(zero)
        /\ \A i \in 1..Len(a) : b[i] = a[i]
        /\ \A i \in 1..Len(zero) : b[Len(a) + i] = zero[i]
    <3>1. zero \in Seq(Bits) /\ a \in Seq(Bits) BY <1>2, <1>3
    <3> QED BY <3>1, ConcatElements
  <2> HIDE DEF b
  <2>2. 1 \in 1..Len(zero) /\ 1 \in 1..Len(a) /\ Len(a) + 1 = l + 2 /\ Len(a) + Len(zero) = l + 2
    BY <1>0, <1>2, <1>3
  <2>3. ASSUME NEW i \in 1..l PROVE b[i + 1] = 1
    <3>1. i + 1 \in 1..Len(a) /\ 1 + i = i + 1 BY <1>0, <1>3
    <3> QED BY <3>1, <2>1, <1>3
  <2> QED BY <2>1, <2>2, <2>3, <1>2, <1>3
<1> HIDE DEF b
<1>5. /\ bits \in Seq(Bits) /\ Len(bits) = (l + 2) + Len(s)
      /\ \A i \in 1..(l + 2) : bits[i] = b[i]
      /\ \A i \in 1..Len(s) : bits[(l + 2) + i] = s[i]
  <2>1. bits = b \o s BY DEF a, b
  <2>2. b \in Seq(Bits) /\ s \in Seq(Bits) BY <1>0, <1>4
  <2> HIDE DEF bits
  <2>3. /\ bits \in Seq(Bits) /\ Len(bits) = Len(b) + Len(s)
        /\ \A i \in 1..Len(b) : bits[i] = b[i]
        /\ \A i \in 1..Len(s) : bits[Len(b) + i] = s[i]
    BY <2>1, <2>2, ConcatElements
  <2> QED BY <2>3, <1>4
<1> HIDE DEF bits
<1>6. End(l)
  <2>1. l + 2 \in 1..(l + 2) /\ \A i \in 1..l : i + 1 \in 1..(l + 2) BY <1>0
  <2> QED BY <2>1, <1>4, <1>5
<1>7. ASSUME NEW c \in 0..n, End(c) PROVE c = l
  <2>1. ~(c < l)
    <3> SUFFICES ASSUME c < l PROVE FALSE
      OBVIOUS
    <3>1. c + 1 \in 1..l /\ (c + 1) + 1 = c + 2 /\ c + 2 \in 1..(l + 2) BY <1>0
    <3>2. b[(c + 1) + 1] = 1 BY <3>1, <1>4
    <3> QED BY <3>1, <3>2, <1>5, <1>7
  <2>2. ~(l < c)
    <3> SUFFICES ASSUME l < c PROVE FALSE
      OBVIOUS
    <3>1. l + 1 \in 1..c /\ (l + 1) + 1 = l + 2 BY <1>0
    <3>2. bits[(l + 1) + 1] = 1 BY <3>1, <1>7
    <3> QED BY <3>1, <3>2, <1>6
  <2> QED BY <2>1, <2>2, <1>0
<1>8. count = l
  <2>1. \E c \in 0..n : End(c) BY <1>0, <1>6
  <2> HIDE DEF End
  <2>2. count \in 0..n /\ End(count) BY <2>1
  <2> QED BY <2>2, <1>7
<1>9. bits[1] = 0
  <2>1. 1 \in 1..(l + 2) BY <1>0
  <2> QED BY <2>1, <1>4, <1>5
<1>10. parse_label(bits, n) = SubSeq(bits, count + 3, 2 * count + 2)
  <2> DEFINE k == BitWidth(n)
             short == SubSeq(bits, count + 3, 2 * count + 2)
             long == SubSeq(bits, k + 3, k + 2 + Number(SubSeq(bits, 3, k + 2)))
             same == Repeat(bits[3], Number(SubSeq(bits, 4, k + 3)))
  <2>1. parse_label(bits, n) = CASE bits[1] = 0 -> short
                                 [] bits[1] = 1 /\ bits[2] = 0 -> long
                                 [] OTHER -> same
    BY DEF parse_label
  <2> HIDE DEF count, short, long, same
  <2>2. parse_label(bits, n) = short BY <2>1, <1>9
  <2> QED BY <2>2 DEF short
<1>11. SubSeq(bits, count + 3, 2 * count + 2) = s
  <2>1. count + 3 = (l + 2) + 1 /\ 2 * count + 2 = (l + 2) + Len(s) /\ l + 2 \in Nat
    <3>1. Len(s) = l BY DEF l
    <3> HIDE DEF count
    <3> QED BY <3>1, <1>0, <1>8
  <2>2. bits \in Seq(Bits) /\ s \in Seq(Bits) /\ Len(bits) = (l + 2) + Len(s)
        /\ \A i \in 1..Len(s) : bits[(l + 2) + i] = s[i]
    BY <1>0, <1>5
  <2> HIDE DEF count, l
  <2>3. SubSeq(bits, (l + 2) + 1, (l + 2) + Len(s)) = s BY <2>1, <2>2, SuffixIs, Zenon
  <2> QED BY <2>1, <2>3
<1> QED BY <1>10, <1>11 DEF bits, zero, ones, l

LEMMA LongRead ==
  ASSUME NEW n \in 0..KeyLength, NEW s \in Labels(n)
  PROVE  parse_label(<<1, 0>> \o Binary(Len(s), BitWidth(n)) \o s, n) = s
<1> DEFINE l == Len(s)
           k == BitWidth(n)
           number == Binary(l, k)
           form == <<1, 0>>
           bits == (form \o number) \o s
<1>0. n \in Nat /\ s \in Seq(Bits) /\ l \in 0..n /\ l \in Nat
  <2>1. n \in Nat BY KeyLengthAssumption
  <2> QED BY <2>1, LabelsAre
<1>1. k \in Nat /\ number \in Seq(Bits) /\ Len(number) = k /\ Number(number) = l
  <2>1. n < Power2[k] /\ k \in 0..KeyLength BY Widths
  <2>2. Power2[k] \in Nat BY <2>1, Power2Grows
  <2> HIDE DEF k, l
  <2>3. l \in 0..(Power2[k] - 1) BY <2>1, <2>2, <1>0
  <2> QED BY <2>1, <2>3, NumberOfBinary
<1>2. form \in Seq(Bits) /\ Len(form) = 2 /\ form[1] = 1 /\ form[2] = 0 BY DEF Bits
<1> HIDE DEF number, form, k
<1>3. /\ SubSeq(bits, Len(form) + 1, Len(form) + Len(number)) = number
      /\ SubSeq(bits, Len(form) + Len(number) + 1, Len(form) + Len(number) + Len(s)) = s
      /\ \A i \in 1..Len(form) : bits[i] = form[i]
  <2>1. form \in Seq(Bits) /\ number \in Seq(Bits) /\ s \in Seq(Bits) BY <1>0, <1>1, <1>2
  <2> HIDE DEF l, bits
  <2>2. bits = (form \o number) \o s BY DEF bits
  <2> QED BY <2>1, <2>2, BitsMiddle
<1> HIDE DEF bits
<1>4. bits[1] = 1 /\ bits[2] = 0
  <2>1. 1 \in 1..Len(form) /\ 2 \in 1..Len(form) BY <1>2
  <2> QED BY <2>1, <1>2, <1>3
<1>5. parse_label(bits, n) = SubSeq(bits, k + 3, k + 2 + Number(SubSeq(bits, 3, k + 2)))
  <2> DEFINE count == CHOOSE c \in 0..n : bits[c + 2] = 0 /\ \A i \in 1..c : bits[i + 1] = 1
             short == SubSeq(bits, count + 3, 2 * count + 2)
             long == SubSeq(bits, k + 3, k + 2 + Number(SubSeq(bits, 3, k + 2)))
             same == Repeat(bits[3], Number(SubSeq(bits, 4, k + 3)))
  <2>1. parse_label(bits, n) = CASE bits[1] = 0 -> short
                                 [] bits[1] = 1 /\ bits[2] = 0 -> long
                                 [] OTHER -> same
    BY DEF parse_label, k
  <2> HIDE DEF count, short, long, same
  <2>2. parse_label(bits, n) = long BY <2>1, <1>4
  <2> QED BY <2>2 DEF long
<1>6. Len(form) + 1 = 3 /\ Len(form) + Len(number) = k + 2 BY <1>1, <1>2
<1>7. SubSeq(bits, 3, k + 2) = number BY <1>3, <1>6
<1>8. Number(SubSeq(bits, 3, k + 2)) = Len(s) BY <1>1, <1>7 DEF l
<1>9. k + 3 = Len(form) + Len(number) + 1 /\ k + 2 + Len(s) = Len(form) + Len(number) + Len(s)
  BY <1>0, <1>1, <1>2
<1>10. parse_label(bits, n) = s BY <1>3, <1>5, <1>8, <1>9
<1> QED BY <1>10 DEF bits, form, number, k, l

LEMMA SameRead ==
  ASSUME NEW n \in 0..KeyLength, NEW s \in Labels(n), Len(s) > 1, IsSame(s)
  PROVE  parse_label(<<1, 1, s[1]>> \o Binary(Len(s), BitWidth(n)), n) = s
<1> DEFINE l == Len(s)
           k == BitWidth(n)
           number == Binary(l, k)
           form == <<1, 1, s[1]>>
           bits == form \o number
<1>0. n \in Nat /\ s \in Seq(Bits) /\ l \in 0..n /\ l \in Nat
  <2>1. n \in Nat BY KeyLengthAssumption
  <2> QED BY <2>1, LabelsAre
<1>1. k \in Nat /\ number \in Seq(Bits) /\ Len(number) = k /\ Number(number) = l
  <2>1. n < Power2[k] /\ k \in 0..KeyLength BY Widths
  <2>2. Power2[k] \in Nat BY <2>1, Power2Grows
  <2> HIDE DEF k, l
  <2>3. l \in 0..(Power2[k] - 1) BY <2>1, <2>2, <1>0
  <2> QED BY <2>1, <2>3, NumberOfBinary
<1>2. form \in Seq(Bits) /\ Len(form) = 3 /\ form[1] = 1 /\ form[2] = 1 /\ form[3] = s[1]
  <2>1. s[1] \in Bits BY <1>0
  <2>2. 1 \in Bits BY DEF Bits
  <2> QED BY <2>1, <2>2
<1> HIDE DEF number, form, k
<1>3. /\ bits \in Seq(Bits) /\ Len(bits) = Len(form) + Len(number)
      /\ \A i \in 1..Len(form) : bits[i] = form[i]
      /\ \A i \in 1..Len(number) : bits[Len(form) + i] = number[i]
  <2>1. form \in Seq(Bits) /\ number \in Seq(Bits) BY <1>1, <1>2
  <2> QED BY <2>1, ConcatElements
<1> HIDE DEF bits
<1>4. bits[1] = 1 /\ bits[2] = 1 /\ bits[3] = s[1]
  <2>1. 1 \in 1..Len(form) /\ 2 \in 1..Len(form) /\ 3 \in 1..Len(form) BY <1>2
  <2> QED BY <2>1, <1>2, <1>3
<1>5. parse_label(bits, n) = Repeat(bits[3], Number(SubSeq(bits, 4, k + 3)))
  BY <1>4 DEF parse_label, k
<1>6. SubSeq(bits, 4, k + 3) = number
  <2>1. SubSeq(bits, Len(form) + 1, Len(form) + Len(number)) = number
    <3>1. Len(form) \in Nat BY <1>2
    <3> QED BY <3>1, <1>1, <1>3, SuffixIs
  <2>2. Len(form) + 1 = 4 /\ Len(form) + Len(number) = k + 3 BY <1>1, <1>2
  <2> QED BY <2>1, <2>2
<1>7. Repeat(s[1], Len(s)) = s
  <2>1. \A i \in 1..Len(s) : s[i] = s[1] BY DEF IsSame
  <2>2. s = [i \in 1..Len(s) |-> s[i]] BY <1>0
  <2> QED BY <2>1, <2>2 DEF Repeat
<1>8. parse_label(bits, n) = s BY <1>1, <1>4, <1>5, <1>6, <1>7 DEF l
<1> QED BY <1>8 DEF bits, form, number, k, l

\* The library reads the label that it, or the serializer, has written.
LEMMA LabelRead ==
  ASSUME NEW n \in 0..KeyLength, NEW s \in Labels(n)
  PROVE  parse_label(append_dict_label(s, n), n) = s
<1> DEFINE k == BitWidth(n)
           same == Len(s) > 1 /\ IsSame(s) /\ k < 2 * Len(s) - 1
<1>1. append_dict_label(s, n) =
        CASE same -> <<1, 1, s[1]>> \o Binary(Len(s), k)
          [] ~same /\ k < Len(s) -> <<1, 0>> \o Binary(Len(s), k) \o s
          [] OTHER -> <<0>> \o Repeat(1, Len(s)) \o <<0>> \o s
  BY DEF append_dict_label
<1>2. CASE same
  <2>1. append_dict_label(s, n) = <<1, 1, s[1]>> \o Binary(Len(s), k) BY <1>1, <1>2
  <2> QED BY <2>1, <1>2, SameRead
<1>3. CASE ~same /\ k < Len(s)
  <2> HIDE DEF same
  <2>1. append_dict_label(s, n) = <<1, 0>> \o Binary(Len(s), k) \o s BY <1>1, <1>3
  <2> QED BY <2>1, LongRead
<1>4. CASE ~same /\ ~(k < Len(s))
  <2> HIDE DEF same
  <2>1. append_dict_label(s, n) = <<0>> \o Repeat(1, Len(s)) \o <<0>> \o s BY <1>1, <1>4
  <2> QED BY <2>1, ShortRead
<1> QED BY <1>2, <1>3, <1>4
-----------------------------------------------------------------------------
(* Common prefixes. *)

\* s starts with p.
Starts(p, s) == Len(p) <= Len(s) /\ \A i \in 1..Len(p) : p[i] = s[i]

\* The first l elements.
LEMMA FirstOf ==
  ASSUME NEW S, NEW s \in Seq(S), NEW l \in 0..Len(s)
  PROVE  /\ SubSeq(s, 1, l) \in Seq(S) /\ Len(SubSeq(s, 1, l)) = l
         /\ \A i \in 1..l : SubSeq(s, 1, l)[i] = s[i]
         /\ Starts(SubSeq(s, 1, l), s)
<1> DEFINE x == SubSeq(s, 1, l)
<1>0. Len(s) \in Nat /\ l \in Nat /\ l <= Len(s) OBVIOUS
<1>1. \A i \in 1..l : s[i] \in S
  <2> SUFFICES ASSUME NEW i \in 1..l PROVE s[i] \in S
    OBVIOUS
  <2>1. i \in 1..Len(s) BY <1>0
  <2> QED BY <2>1
<1>2. /\ x \in Seq(S) /\ Len(x) = IF 1 <= l THEN l - 1 + 1 ELSE 0
      /\ \A i \in 1..(l - 1 + 1) : x[i] = s[1 + i - 1]
  <2>1. 1 \in Int /\ l \in Int BY <1>0
  <2> QED BY <2>1, <1>1, SubSeqProperties
<1> HIDE DEF x
<1>3. Len(x) = l BY <1>0, <1>2
<1>4. ASSUME NEW i \in 1..l PROVE x[i] = s[i]
  <2>1. i \in 1..(l - 1 + 1) /\ 1 + i - 1 = i BY <1>0
  <2> QED BY <2>1, <1>2
<1>5. Starts(x, s) BY <1>0, <1>3, <1>4 DEF Starts
<1> QED BY <1>2, <1>3, <1>4, <1>5 DEF x

LEMMA StartsIs ==
  ASSUME NEW S, NEW p \in Seq(S), NEW s \in Seq(S)
  PROVE  /\ IsPrefix(p, s) <=> Starts(p, s)
         /\ Starts(p, s) => p = SubSeq(s, 1, Len(p))
<1>0. Len(p) \in Nat /\ Len(s) \in Nat OBVIOUS
<1>1. SubSeq(p, 1, Len(p)) = p BY SubSeqFull
<1>2. ASSUME Starts(p, s) PROVE IsPrefix(p, s) /\ p = SubSeq(s, 1, Len(p))
  <2>1. Len(p) \in 0..Len(s) /\ \A i \in 1..Len(p) : p[i] = s[i] BY <1>0, <1>2 DEF Starts
  <2> DEFINE x == SubSeq(s, 1, Len(p))
  <2>2. x \in Seq(S) /\ Len(x) = Len(p) /\ \A i \in 1..Len(p) : x[i] = s[i]
    BY <2>1, FirstOf
  <2> HIDE DEF x
  <2>3. \A i \in 1..Len(p) : p[i] = x[i] BY <2>1, <2>2
  <2>4. p = x BY <2>2, <2>3, SeqEqual
  <2>5. Len(p) <= Len(s) BY <1>0, <2>1
  <2> QED BY <2>4, <2>5, <1>1 DEF IsPrefix, x
<1>3. ASSUME IsPrefix(p, s) PROVE Starts(p, s)
  <2>1. Len(p) <= Len(s) /\ p = SubSeq(s, 1, Len(p)) BY <1>1, <1>3 DEF IsPrefix
  <2>2. Len(p) \in 0..Len(s) BY <2>1, <1>0
  <2>3. Starts(SubSeq(s, 1, Len(p)), s) BY <2>2, FirstOf
  <2> QED BY <2>1, <2>3
<1> QED BY <1>2, <1>3

\* Prefixes of the same length of a sequence are the same.
LEMMA SamePrefix ==
  ASSUME NEW S, NEW p \in Seq(S), NEW q \in Seq(S), NEW s, Starts(p, s), Starts(q, s), Len(p) = Len(q)
  PROVE  p = q
<1>1. \A i \in 1..Len(p) : p[i] = q[i] BY DEF Starts
<1> QED BY <1>1, SeqEqual

LEMMA CommonIs ==
  ASSUME NEW S, NEW K, K \subseteq Seq(S), K # {}
  PROVE  \A c : c \in CommonPrefixes(K) <=> c \in Seq(S) /\ \A t \in K : Starts(c, t)
<1>1. ASSUME NEW c \in CommonPrefixes(K) PROVE c \in Seq(S) /\ \A t \in K : Starts(c, t)
  <2>1. (\E s \in K : c \in Prefixes(s)) /\ \A t \in K : IsPrefix(c, t) BY DEF CommonPrefixes
  <2>2. PICK s \in K : c \in Prefixes(s) BY <2>1
  <2>3. PICK l \in 0..Len(s) : c = SubSeq(s, 1, l) BY <2>2 DEF Prefixes
  <2>4. s \in Seq(S) OBVIOUS
  <2>5. SubSeq(s, 1, l) \in Seq(S) BY <2>3, <2>4, FirstOf
  <2>6. c \in Seq(S) BY <2>3, <2>5
  <2>7. ASSUME NEW t \in K PROVE Starts(c, t)
    <3>1. t \in Seq(S) OBVIOUS
    <3> QED BY <3>1, <2>1, <2>6, StartsIs
  <2> QED BY <2>6, <2>7
<1>2. ASSUME NEW c \in Seq(S), \A t \in K : Starts(c, t) PROVE c \in CommonPrefixes(K)
  <2>1. PICK s \in K : TRUE OBVIOUS
  <2>2. s \in Seq(S) /\ Starts(c, s) BY <1>2
  <2>3. c = SubSeq(s, 1, Len(c)) BY <2>2, StartsIs
  <2>4. Len(c) \in 0..Len(s)
    <3>1. Len(c) \in Nat /\ Len(s) \in Nat BY <2>2
    <3> QED BY <3>1, <2>2 DEF Starts
  <2>5. c \in Prefixes(s) BY <2>3, <2>4 DEF Prefixes
  <2>6. ASSUME NEW t \in K PROVE IsPrefix(c, t)
    <3>1. t \in Seq(S) /\ Starts(c, t) BY <1>2
    <3> QED BY <3>1, StartsIs
  <2> QED BY <2>5, <2>6 DEF CommonPrefixes
<1> QED BY <1>1, <1>2

\* p is the longest common prefix of K.
Longest(S, p, K) ==
  /\ p \in Seq(S) /\ \A t \in K : Starts(p, t)
  /\ \A c \in Seq(S) : (\A t \in K : Starts(c, t)) => Len(c) <= Len(p)

LEMMA LongestIs ==
  ASSUME NEW S, NEW K, K \subseteq Seq(S), K # {}
  PROVE  /\ Longest(S, LongestCommonPrefix(K), K)
         /\ \A p : Longest(S, p, K) => p = LongestCommonPrefix(K)
<1> DEFINE C == CommonPrefixes(K)
           Best(c) == \A other \in C : Len(other) <= Len(c)
           lcp == LongestCommonPrefix(K)
<1>1. \A c : c \in C <=> c \in Seq(S) /\ \A t \in K : Starts(c, t) BY CommonIs
<1>2. PICK s \in K : s \in Seq(S) OBVIOUS
<1> HIDE DEF C
<1>3. \A c \in C : Len(c) \in Nat /\ Len(c) <= Len(s)
  <2> SUFFICES ASSUME NEW c \in C PROVE Len(c) \in Nat /\ Len(c) <= Len(s)
    OBVIOUS
  <2>1. c \in Seq(S) /\ Starts(c, s) BY <1>1
  <2> QED BY <2>1 DEF Starts
<1>4. \E c \in C : Best(c)
  <2> DEFINE T == {Len(s) - Len(c) : c \in C}
  <2>1. Len(s) \in Nat BY <1>2
  <2>2. << >> \in C
    <3>1. << >> \in Seq(S) /\ Len(<< >>) = 0 OBVIOUS
    <3>2. ASSUME NEW t \in K PROVE Starts(<< >>, t)
      <4>1. t \in Seq(S) OBVIOUS
      <4>2. Len(t) \in Nat BY <4>1
      <4> QED BY <4>2, <3>1 DEF Starts
    <3> QED BY <3>1, <3>2, <1>1
  <2>3. T \subseteq Nat /\ T # {} BY <1>3, <2>1, <2>2
  <2>4. PICK x \in T : \A y \in T : x <= y BY <2>3, SmallestNat
  <2>5. PICK c \in C : x = Len(s) - Len(c) BY <2>4
  <2>6. ASSUME NEW other \in C PROVE Len(other) <= Len(c)
    <3>1. Len(s) - Len(other) \in T OBVIOUS
    <3>2. Len(s) - Len(c) <= Len(s) - Len(other) BY <3>1, <2>4, <2>5
    <3>3. Len(c) \in Nat /\ Len(other) \in Nat BY <1>3
    <3> QED BY <3>2, <3>3, <2>1
  <2> QED BY <2>6
<1>5. lcp \in C /\ Best(lcp)
  <2>1. lcp = CHOOSE c \in C : Best(c) BY DEF LongestCommonPrefix, C
  <2> HIDE DEF Best, lcp
  <2> QED BY <1>4, <2>1
<1> HIDE DEF lcp
<1>6. Longest(S, lcp, K) BY <1>1, <1>5 DEF Longest
<1>7. ASSUME NEW p, Longest(S, p, K) PROVE p = lcp
  <2>1. p \in Seq(S) /\ lcp \in Seq(S) /\ Starts(p, s) /\ Starts(lcp, s)
    BY <1>2, <1>6, <1>7 DEF Longest
  <2>2. Len(p) <= Len(lcp) /\ Len(lcp) <= Len(p)
    <3>1. (\A t \in K : Starts(p, t)) /\ (\A t \in K : Starts(lcp, t)) BY <1>6, <1>7 DEF Longest
    <3> QED BY <3>1, <2>1, <1>6, <1>7 DEF Longest
  <2>3. Len(p) \in Nat /\ Len(lcp) \in Nat BY <2>1
  <2>4. Len(p) = Len(lcp) BY <2>2, <2>3
  <2> QED BY <2>1, <2>4, SamePrefix
<1> QED BY <1>6, <1>7 DEF lcp
\* A common prefix is the longest when it is a member, or members fork after it.
LEMMA LongestBy ==
  ASSUME NEW S, NEW K, K \subseteq Seq(S), K # {},
         NEW p \in Seq(S), \A t \in K : Starts(p, t),
         \/ p \in K
         \/ \E s, t \in K : Len(p) < Len(s) /\ Len(p) < Len(t) /\ s[Len(p) + 1] # t[Len(p) + 1]
  PROVE  LongestCommonPrefix(K) = p
<1>1. ASSUME NEW c \in Seq(S), \A t \in K : Starts(c, t) PROVE Len(c) <= Len(p)
  <2>0. Len(c) \in Nat /\ Len(p) \in Nat OBVIOUS
  <2>1. CASE p \in K
    <3>1. Starts(c, p) BY <1>1, <2>1
    <3> QED BY <3>1 DEF Starts
  <2>2. CASE \E s, t \in K : Len(p) < Len(s) /\ Len(p) < Len(t) /\ s[Len(p) + 1] # t[Len(p) + 1]
    <3>1. PICK s \in K, t \in K : Len(p) < Len(s) /\ Len(p) < Len(t) /\ s[Len(p) + 1] # t[Len(p) + 1]
      BY <2>2
    <3> SUFFICES ASSUME Len(p) < Len(c) PROVE FALSE
      BY <2>0
    <3>2. Len(p) + 1 \in 1..Len(c) BY <2>0
    <3>3. Starts(c, s) /\ Starts(c, t) BY <1>1
    <3>4. c[Len(p) + 1] = s[Len(p) + 1] /\ c[Len(p) + 1] = t[Len(p) + 1] BY <3>2, <3>3 DEF Starts
    <3> QED BY <3>1, <3>4
  <2> QED BY <2>1, <2>2
<1>2. Longest(S, p, K) BY <1>1 DEF Longest
<1> QED BY <1>2, LongestIs

LEMMA KeysAre ==
  ASSUME NEW n \in Nat
  PROVE  \A k : k \in Keys(n) <=> k \in Seq(Bits) /\ Len(k) = n
<1>1. ASSUME NEW k \in Keys(n) PROVE k \in Seq(Bits) /\ Len(k) = n BY DEF Keys
<1>2. ASSUME NEW k \in Seq(Bits), Len(k) = n PROVE k \in Keys(n) BY <1>2 DEF Keys
<1> QED BY <1>1, <1>2

LEMMA AppendStarts ==
  ASSUME NEW S, NEW p \in Seq(S), NEW b \in S, NEW k \in Seq(S)
  PROVE  /\ Append(p, b) \in Seq(S) /\ Len(Append(p, b)) = Len(p) + 1
         /\ Starts(Append(p, b), k) <=> Starts(p, k) /\ Len(p) < Len(k) /\ k[Len(p) + 1] = b
<1> DEFINE q == Append(p, b)
<1>0. Len(p) \in Nat /\ Len(k) \in Nat OBVIOUS
<1>1. /\ q \in Seq(S) /\ Len(q) = Len(p) + 1 /\ \A i \in 1..Len(p) : q[i] = p[i]
      /\ q[Len(p) + 1] = b
  BY AppendProperties
<1> HIDE DEF q
<1>2. ASSUME Starts(q, k) PROVE Starts(p, k) /\ Len(p) < Len(k) /\ k[Len(p) + 1] = b
  <2>1. Len(q) <= Len(k) /\ \A i \in 1..Len(q) : q[i] = k[i] BY <1>2 DEF Starts
  <2>2. Len(p) < Len(k) /\ Len(p) <= Len(k) BY <1>0, <1>1, <2>1
  <2>3. ASSUME NEW i \in 1..Len(p) PROVE p[i] = k[i]
    <3>1. i \in 1..Len(q) BY <1>0, <1>1
    <3> QED BY <3>1, <1>1, <2>1
  <2>4. Len(p) + 1 \in 1..Len(q) BY <1>0, <1>1
  <2>5. k[Len(p) + 1] = b BY <2>1, <2>4, <1>1
  <2> QED BY <2>2, <2>3, <2>5 DEF Starts
<1>3. ASSUME Starts(p, k), Len(p) < Len(k), k[Len(p) + 1] = b PROVE Starts(q, k)
  <2>1. Len(q) <= Len(k) BY <1>0, <1>1, <1>3
  <2>2. ASSUME NEW i \in 1..Len(q) PROVE q[i] = k[i]
    <3>1. CASE i = Len(p) + 1 BY <3>1, <1>1, <1>3
    <3>2. CASE i # Len(p) + 1
      <4>1. i \in 1..Len(p) BY <3>2, <1>0, <1>1
      <4>2. p[i] = k[i] BY <4>1, <1>3 DEF Starts
      <4> QED BY <4>1, <4>2, <1>1
    <3> QED BY <3>1, <3>2
  <2> QED BY <2>1, <2>2 DEF Starts
<1> QED BY <1>1, <1>2, <1>3 DEF q

\* Keys that are not all the same fork after their longest common prefix.
LEMMA ForkOf ==
  ASSUME NEW n \in Nat, NEW K, K \subseteq Keys(n), K # {}, ~\E k : K = {k}
  PROVE  LET p == LongestCommonPrefix(K)
         IN Len(p) < n /\ \A b \in Bits : \E k \in K : k[Len(p) + 1] = b
<1> DEFINE p == LongestCommonPrefix(K)
<1>1. \A k \in K : k \in Seq(Bits) /\ Len(k) = n BY KeysAre
<1>2. K \subseteq Seq(Bits) BY <1>1
<1>3. Longest(Bits, p, K) BY <1>2, LongestIs
<1> HIDE DEF p
<1>4. p \in Seq(Bits) /\ Len(p) \in Nat /\ \A k \in K : Starts(p, k) BY <1>3 DEF Longest
<1>5. PICK e \in K : TRUE OBVIOUS
<1>6. Len(p) <= n BY <1>1, <1>4, <1>5 DEF Starts
<1>7. Len(p) # n
  <2> SUFFICES ASSUME Len(p) = n PROVE FALSE
    OBVIOUS
  <2>1. ASSUME NEW k \in K PROVE k = p
    <3>1. k \in Seq(Bits) /\ Len(k) = n /\ Starts(p, k) BY <1>1, <1>4
    <3>2. p = SubSeq(k, 1, Len(k)) BY <3>1, <1>4, StartsIs
    <3> QED BY <3>1, <3>2, SubSeqFull
  <2>2. K = {p} BY <2>1
  <2> QED BY <2>2
<1>8. Len(p) < n BY <1>4, <1>6, <1>7
<1>9. ASSUME NEW b \in Bits PROVE \E k \in K : k[Len(p) + 1] = b
  <2> SUFFICES ASSUME \A k \in K : k[Len(p) + 1] # b PROVE FALSE
    OBVIOUS
  <2> DEFINE q == Append(p, 1 - b)
  <2>1. 1 - b \in Bits /\ \A c \in Bits : c # b => c = 1 - b BY DEF Bits
  <2>2. q \in Seq(Bits) /\ Len(q) = Len(p) + 1 BY <2>1, <1>4, <1>1, <1>5, AppendStarts
  <2>3. ASSUME NEW k \in K PROVE Starts(q, k)
    <3>1. k \in Seq(Bits) /\ Len(p) < Len(k) /\ Starts(p, k) BY <1>1, <1>4, <1>8
    <3>2. Len(p) + 1 \in 1..Len(k) BY <3>1, <1>4
    <3>3. k[Len(p) + 1] \in Bits BY <3>1, <3>2
    <3>4. k[Len(p) + 1] = 1 - b BY <3>3, <2>1
    <3> QED BY <3>1, <3>4, <2>1, <1>4, AppendStarts
  <2> HIDE DEF q
  <2>4. Len(q) <= Len(p) BY <2>2, <2>3, <1>3 DEF Longest
  <2> QED BY <2>2, <2>4, <1>4
<1> QED BY <1>8, <1>9 DEF p

\* A key, and what of it follows a prefix.
LEMMA SplitKey ==
  ASSUME NEW n \in Nat, NEW k \in Keys(n), NEW l \in 0..n
  PROVE  /\ After(k, l) \in Keys(n - l)
         /\ \A i \in 1..(n - l) : After(k, l)[i] = k[l + i]
         /\ k = SubSeq(k, 1, l) \o After(k, l)
         /\ \A p \in Seq(Bits) : Len(p) = l /\ Starts(p, k) => k = p \o After(k, l)
<1> DEFINE x == After(k, l)
<1>0. k \in Seq(Bits) /\ Len(k) = n /\ l \in Nat /\ l <= n BY KeysAre
<1>1. /\ x \in Seq(Bits) /\ Len(x) = IF l + 1 <= n THEN n - (l + 1) + 1 ELSE 0
      /\ \A i \in 1..(n - (l + 1) + 1) : x[i] = k[(l + 1) + i - 1]
  <2>1. \A i \in (l + 1)..n : k[i] \in Bits
    <3> SUFFICES ASSUME NEW i \in (l + 1)..n PROVE k[i] \in Bits
      OBVIOUS
    <3>1. i \in 1..Len(k) BY <1>0
    <3> QED BY <3>1, <1>0
  <2>2. l + 1 \in Int /\ n \in Int BY <1>0
  <2>3. x = SubSeq(k, l + 1, n) BY <1>0 DEF After
  <2> QED BY <2>1, <2>2, <2>3, SubSeqProperties
<1> HIDE DEF x
<1>2. Len(x) = n - l BY <1>0, <1>1
<1>3. ASSUME NEW i \in 1..(n - l) PROVE x[i] = k[l + i]
  <2>1. i \in 1..(n - (l + 1) + 1) /\ (l + 1) + i - 1 = l + i BY <1>0
  <2> QED BY <2>1, <1>1
<1>4. n - l \in Nat BY <1>0
<1>5. x \in Keys(n - l) BY <1>1, <1>2, <1>4, KeysAre
<1>6. ASSUME NEW p \in Seq(Bits), Len(p) = l, Starts(p, k) PROVE k = p \o x
  <2> DEFINE y == p \o x
  <2>1. /\ y \in Seq(Bits) /\ Len(y) = Len(p) + Len(x)
        /\ \A i \in 1..Len(p) : y[i] = p[i]
        /\ \A i \in 1..Len(x) : y[Len(p) + i] = x[i]
    <3>1. x \in Seq(Bits) BY <1>1
    <3> QED BY <3>1, ConcatElements
  <2> HIDE DEF y
  <2>2. Len(y) = n BY <2>1, <1>0, <1>2, <1>6
  <2>3. ASSUME NEW i \in 1..n PROVE k[i] = y[i]
    <3>1. CASE i <= l
      <4>1. i \in 1..Len(p) BY <3>1, <1>6
      <4> QED BY <4>1, <2>1, <1>6 DEF Starts
    <3>2. CASE ~(i <= l)
      <4>1. i - l \in 1..Len(x) /\ i - l \in 1..(n - l) /\ l + (i - l) = i BY <3>2, <1>0, <1>2
      <4>2. y[Len(p) + (i - l)] = x[i - l] BY <4>1, <2>1
      <4>3. x[i - l] = k[l + (i - l)] BY <4>1, <1>3
      <4> QED BY <4>1, <4>2, <4>3, <1>6
    <3> QED BY <3>1, <3>2
  <2>4. k = y BY <1>0, <2>1, <2>2, <2>3, SeqEqual
  <2> QED BY <2>4 DEF y
<1>7. k = SubSeq(k, 1, l) \o x
  <2>1. SubSeq(k, 1, l) \in Seq(Bits) /\ Len(SubSeq(k, 1, l)) = l /\ Starts(SubSeq(k, 1, l), k)
    BY <1>0, FirstOf
  <2> QED BY <2>1, <1>6
<1> QED BY <1>3, <1>5, <1>6, <1>7 DEF x

LEMMA JoinKey ==
  ASSUME NEW p \in Seq(Bits), NEW m \in Nat, NEW s \in Keys(m)
  PROVE  /\ p \o s \in Keys(Len(p) + m) /\ Starts(p, p \o s)
         /\ \A i \in 1..m : (p \o s)[Len(p) + i] = s[i]
         /\ After(p \o s, Len(p)) = s
<1> DEFINE y == p \o s
<1>0. s \in Seq(Bits) /\ Len(s) = m /\ Len(p) \in Nat BY KeysAre
<1>1. /\ y \in Seq(Bits) /\ Len(y) = Len(p) + Len(s)
      /\ \A i \in 1..Len(p) : y[i] = p[i]
      /\ \A i \in 1..Len(s) : y[Len(p) + i] = s[i]
  <2>1. s \in Seq(Bits) BY <1>0
  <2> QED BY <2>1, ConcatElements
<1> HIDE DEF y
<1>2. Len(p) + m \in Nat /\ Len(p) <= Len(y) BY <1>0, <1>1
<1>3. y \in Keys(Len(p) + m) BY <1>0, <1>1, <1>2, KeysAre
<1>4. Starts(p, y) BY <1>1, <1>2 DEF Starts
<1>5. After(y, Len(p)) = s
  <2>1. After(y, Len(p)) = SubSeq(y, Len(p) + 1, Len(p) + Len(s)) BY <1>1 DEF After
  <2> QED BY <2>1, <1>0, <1>1, SuffixIs
<1> QED BY <1>0, <1>1, <1>3, <1>4, <1>5 DEF y
-----------------------------------------------------------------------------
(* Dictionaries and their edges. *)

LEMMA KeysFinite ==
  ASSUME NEW n \in Nat, NEW K, K \subseteq Keys(n)
  PROVE  Cardinality(K) = 1 <=> \E k : K = {k}
<1> DEFINE f == [k \in Keys(n) |-> {i \in 1..n : k[i] = 1}]
<1>1. f \in Injection(Keys(n), SUBSET (1..n))
  <2>1. f \in [Keys(n) -> SUBSET (1..n)] OBVIOUS
  <2>2. ASSUME NEW j \in Keys(n), NEW k \in Keys(n), f[j] = f[k] PROVE j = k
    <3>1. ASSUME NEW i \in 1..n PROVE j[i] = k[i]
      <4>1. j[i] \in {0, 1} /\ k[i] \in {0, 1} BY DEF Keys, Bits
      <4>2. i \in f[j] <=> i \in f[k] BY <2>2
      <4>3. (i \in f[j] <=> j[i] = 1) /\ (i \in f[k] <=> k[i] = 1) OBVIOUS
      <4> HIDE DEF f
      <4> QED BY <4>1, <4>2, <4>3
    <3> QED BY <3>1 DEF Keys
  <2> HIDE DEF f
  <2> QED BY <2>1, <2>2 DEF Injection, IsInjective
<1>2. IsFiniteSet(SUBSET (1..n))
  <2>1. IsFiniteSet(1..n)
    <3>1. 1 \in Int /\ n \in Int OBVIOUS
    <3> QED BY <3>1, FS_Interval
  <2> QED BY <2>1, FS_SUBSET
<1> HIDE DEF f
<1>3. IsFiniteSet(Keys(n)) BY <1>1, <1>2, FS_Injection
<1>4. IsFiniteSet(K) BY <1>3, FS_Subset
<1> QED BY <1>4, FS_Singleton

LEMMA BelowIs ==
  ASSUME NEW n \in Nat, NEW d \in [Keys(n) -> Items \cup {NoItem}],
         NEW p \in Seq(Bits), NEW m \in Nat, Len(p) + m = n
  PROVE  /\ Below(d, p, m) \in [Keys(m) -> Items \cup {NoItem}]
         /\ \A s \in Keys(m) : p \o s \in Keys(n) /\ Below(d, p, m)[s] = d[p \o s]
         /\ \A k \in Keys(n) : Starts(p, k) =>
              After(k, Len(p)) \in Keys(m) /\ Below(d, p, m)[After(k, Len(p))] = d[k]
<1>1. ASSUME NEW s \in Keys(m) PROVE p \o s \in Keys(n) /\ Below(d, p, m)[s] = d[p \o s]
  BY JoinKey DEF Below
<1>2. ASSUME NEW k \in Keys(n), Starts(p, k)
      PROVE  After(k, Len(p)) \in Keys(m) /\ Below(d, p, m)[After(k, Len(p))] = d[k]
  <2>1. Len(p) \in 0..n /\ n - Len(p) = m OBVIOUS
  <2>2. After(k, Len(p)) \in Keys(m) /\ k = p \o After(k, Len(p)) BY <2>1, <1>2, SplitKey
  <2> QED BY <2>2, <1>1
<1>3. Below(d, p, m) \in [Keys(m) -> Items \cup {NoItem}] BY <1>1 DEF Below
<1> QED BY <1>1, <1>2, <1>3

\* A part of a dictionary that has a key is a dictionary.
LEMMA BelowDict ==
  ASSUME NEW n \in Nat, NEW d \in Dicts(n), NEW p \in Seq(Bits), NEW m \in Nat, Len(p) + m = n,
         NEW k \in KeysOf(d), Starts(p, k)
  PROVE  Below(d, p, m) \in Dicts(m)
<1>1. d \in [Keys(n) -> Items \cup {NoItem}] /\ k \in Keys(n) /\ d[k] # NoItem BY DEF Dicts, KeysOf
<1>2. After(k, Len(p)) \in Keys(m) /\ Below(d, p, m)[After(k, Len(p))] = d[k] BY <1>1, BelowIs
<1>3. Below(d, p, m) \in [Keys(m) -> Items \cup {NoItem}] BY <1>1, BelowIs
<1>4. After(k, Len(p)) \in KeysOf(Below(d, p, m)) BY <1>1, <1>2, <1>3 DEF KeysOf
<1> QED BY <1>3, <1>4 DEF Dicts

\* The label of an edge, and the two branches of a fork.
LEMMA DictLabel ==
  ASSUME NEW n \in Nat, NEW d \in Dicts(n)
  PROVE  LET label == LongestCommonPrefix(KeysOf(d))
             m == n - Len(label) - 1
         IN /\ label \in Seq(Bits) /\ Len(label) \in 0..n /\ label \in Labels(n)
            /\ \A k \in KeysOf(d) : k \in Keys(n) /\ Starts(label, k)
            /\ Cardinality(KeysOf(d)) = 1 => KeysOf(d) = {label} /\ Len(label) = n
            /\ Cardinality(KeysOf(d)) # 1 =>
                 /\ Len(label) < n /\ m \in 0..(n - 1)
                 /\ \A b \in Bits :
                      /\ Append(label, b) \in Seq(Bits) /\ Len(Append(label, b)) + m = n
                      /\ \E k \in KeysOf(d) : Starts(Append(label, b), k)
                      /\ Below(d, Append(label, b), m) \in Dicts(m)
<1> DEFINE K == KeysOf(d)
           label == LongestCommonPrefix(K)
           m == n - Len(label) - 1
<1>0. K \subseteq Keys(n) /\ K # {} BY DEF Dicts, KeysOf
<1> HIDE DEF K
<1>1. K \subseteq Seq(Bits) /\ \A k \in K : Len(k) = n BY <1>0, KeysAre
<1>2. Longest(Bits, label, K) BY <1>0, <1>1, LongestIs
<1>3. PICK e \in K : TRUE BY <1>0
<1> DEFINE single == \E k : K = {k}
<1>4. Cardinality(K) = 1 <=> single BY <1>0, KeysFinite
<1>5. ~single => Len(label) < n /\ \A b \in Bits : \E k \in K : k[Len(label) + 1] = b
  BY <1>0, ForkOf
<1> HIDE DEF label
<1>6. label \in Seq(Bits) /\ \A k \in K : Starts(label, k) BY <1>2 DEF Longest
<1>7. Len(label) \in 0..n
  <2>1. Len(label) \in Nat BY <1>6
  <2>2. Len(label) <= Len(e) BY <1>3, <1>6 DEF Starts
  <2> QED BY <2>1, <2>2, <1>1, <1>3
<1>8. label \in Labels(n) BY <1>6, <1>7, LabelsAre
<1>9. ASSUME Cardinality(K) = 1 PROVE K = {label} /\ Len(label) = n
  <2>1. PICK k : K = {k} BY <1>4, <1>9
  <2>2. k \in Seq(Bits) /\ Len(k) = n BY <2>1, <1>1
  <2>3. \A t \in K : Starts(k, t) BY <2>1, <2>2 DEF Starts
  <2>4. LongestCommonPrefix(K) = k BY <2>1, <2>2, <2>3, <1>0, <1>1, LongestBy
  <2> QED BY <2>1, <2>2, <2>4 DEF label
<1>10. ASSUME Cardinality(K) # 1
       PROVE  /\ Len(label) < n /\ m \in 0..(n - 1)
              /\ \A b \in Bits :
                   /\ Append(label, b) \in Seq(Bits) /\ Len(Append(label, b)) + m = n
                   /\ \E k \in K : Starts(Append(label, b), k)
                   /\ Below(d, Append(label, b), m) \in Dicts(m)
  <2>1. Len(label) < n /\ \A b \in Bits : \E k \in K : k[Len(label) + 1] = b
    BY <1>4, <1>5, <1>10
  <2>2. m \in 0..(n - 1) /\ m \in Nat BY <2>1, <1>7
  <2> SUFFICES ASSUME NEW b \in Bits
               PROVE  /\ Append(label, b) \in Seq(Bits) /\ Len(Append(label, b)) + m = n
                      /\ \E k \in K : Starts(Append(label, b), k)
                      /\ Below(d, Append(label, b), m) \in Dicts(m)
    BY <2>1, <2>2
  <2>3. PICK k \in K : k[Len(label) + 1] = b BY <2>1
  <2>4. k \in Seq(Bits) /\ Len(k) = n /\ Starts(label, k) BY <2>3, <1>1, <1>6
  <2>5. /\ Append(label, b) \in Seq(Bits) /\ Len(Append(label, b)) = Len(label) + 1
        /\ Starts(Append(label, b), k)
    BY <2>1, <2>3, <2>4, <1>6, AppendStarts
  <2>6. Len(Append(label, b)) + m = n BY <2>5, <1>7
  <2>7. Below(d, Append(label, b), m) \in Dicts(m)
    <3> HIDE DEF m
    <3> QED BY <2>2, <2>3, <2>5, <2>6, BelowDict DEF K
  <2> QED BY <2>3, <2>5, <2>6, <2>7
<1> QED BY <1>0, <1>6, <1>7, <1>8, <1>9, <1>10 DEF K, label
-----------------------------------------------------------------------------
(* The recursive functions are what their definitions say: each looks only at *)
(* itself for fewer bits.                                                     *)

LEMMA EdgeLocal ==
  ASSUME NEW n \in 0..KeyLength, NEW f, NEW g, \A m \in 0..(n - 1) : f[m] = g[m]
  PROVE  [d \in Dicts(n) |-> Edge(f, d, n)] = [d \in Dicts(n) |-> Edge(g, d, n)]
<1>1. ASSUME NEW d \in Dicts(n) PROVE Edge(f, d, n) = Edge(g, d, n)
  <2> DEFINE label == LongestCommonPrefix(KeysOf(d))
             m == n - Len(label) - 1
  <2>0. n \in Nat BY KeyLengthAssumption
  <2>1. Cardinality(KeysOf(d)) # 1 => m \in 0..(n - 1) BY <2>0, DictLabel
  <2> HIDE DEF m, label
  <2>2. CASE Cardinality(KeysOf(d)) = 1 BY <2>2 DEF Edge
  <2>3. CASE Cardinality(KeysOf(d)) # 1
    <3>1. f[m] = g[m] BY <2>1, <2>3
    <3> QED BY <2>3, <3>1 DEF Edge, m, label
  <2> QED BY <2>2, <2>3
<1> QED BY <1>1

LEMMA WriteEdgeIs ==
  \A n \in 0..KeyLength : WriteEdge[n] = [d \in Dicts(n) |-> Edge(WriteEdge, d, n)]
<1> DEFINE Body(f, n) == [d \in Dicts(n) |-> Edge(f, d, n)]
           P(f) == f = [n \in 0..KeyLength |-> Body(f, n)]
           T == {n \in Nat : n <= KeyLength + 1 => \E f : f = [k \in 0..(n - 1) |-> Body(f, k)]}
<1>0. KeyLength \in Nat BY KeyLengthAssumption
<1>1. ASSUME NEW n \in 0..KeyLength, NEW f, NEW g, \A m \in 0..(n - 1) : f[m] = g[m]
      PROVE  Body(f, n) = Body(g, n)
  BY <1>1, EdgeLocal
<1> HIDE DEF Body
<1>2. 0 \in T
  <2> DEFINE g == [k \in 0..(0 - 1) |-> 0]
  <2>1. g = [k \in 0..(0 - 1) |-> Body(g, k)]
    <3>1. 0..(0 - 1) = {} OBVIOUS
    <3> QED BY <3>1
  <2> QED BY <2>1
<1>3. ASSUME NEW n \in Nat, n \in T PROVE n + 1 \in T
  <2>1. CASE n + 1 <= KeyLength + 1
    <3>1. n \in 0..KeyLength /\ n <= KeyLength + 1 BY <2>1, <1>0
    <3>2. PICK f : f = [k \in 0..(n - 1) |-> Body(f, k)] BY <3>1, <1>3
    <3> DEFINE g == [k \in 0..n |-> IF k < n THEN f[k] ELSE Body(f, n)]
    <3>3. ASSUME NEW k \in 0..n PROVE g[k] = Body(g, k)
      <4>1. k \in 0..KeyLength /\ k \in Nat BY <3>1, <1>0
      <4>2. \A m \in 0..(k - 1) : f[m] = g[m]
        <5> SUFFICES ASSUME NEW m \in 0..(k - 1) PROVE f[m] = g[m]
          OBVIOUS
        <5>1. m \in 0..n /\ m < n BY <4>1
        <5> QED BY <5>1
      <4> HIDE DEF g
      <4>3. Body(f, k) = Body(g, k) BY <4>1, <4>2, <1>1
      <4>4. CASE k < n
        <5>1. k \in 0..(n - 1) BY <4>4
        <5>2. f[k] = Body(f, k) BY <3>2, <5>1, Zenon
        <5>3. g[k] = f[k] BY <4>4 DEF g
        <5> QED BY <4>3, <5>2, <5>3
      <4>5. CASE ~(k < n)
        <5>1. k = n BY <4>5
        <5>2. g[k] = Body(f, n) BY <5>1, <4>5 DEF g
        <5> QED BY <4>3, <5>1, <5>2
      <4> QED BY <4>4, <4>5
    <3>4. g = [k \in 0..n |-> g[k]] OBVIOUS
    <3> HIDE DEF g
    <3>5. g = [k \in 0..n |-> Body(g, k)] BY <3>3, <3>4
    <3>6. (n + 1) - 1 = n OBVIOUS
    <3> QED BY <3>5, <3>6
  <2>2. CASE ~(n + 1 <= KeyLength + 1) BY <2>2
  <2> QED BY <2>1, <2>2
<1> HIDE DEF T
<1>4. KeyLength + 1 \in T
  <2>1. \A n \in Nat : n \in T BY <1>2, <1>3, Induction
  <2> QED BY <2>1, <1>0
<1>5. \E f : P(f)
  <2>1. (KeyLength + 1) - 1 = KeyLength /\ KeyLength + 1 <= KeyLength + 1 BY <1>0
  <2>2. \E f : f = [k \in 0..((KeyLength + 1) - 1) |-> Body(f, k)] BY <1>4, <2>1 DEF T
  <2> QED BY <2>1, <2>2
<1> DEFINE chosen == CHOOSE f : P(f)
<1>6. P(chosen) BY <1>5, Zenon
<1>7. WriteEdge = chosen BY DEF WriteEdge, Body
<1> HIDE DEF chosen
<1>8. \A n \in 0..KeyLength : WriteEdge[n] = Body(WriteEdge, n) BY <1>6, <1>7, Zenon
<1> QED BY <1>8 DEF Body
\* The cells that can be made of those that f gives for fewer forks.
Nodes(f, n) ==
  [bits : Seq(Bits),
   refs : {<< >>} \cup (IF n = 0 THEN {} ELSE f[n - 1] \X f[n - 1]),
   item : Items \cup {NoItem}]

LEMMA NodesLocal ==
  ASSUME NEW n \in 0..KeyLength, NEW f, NEW g, \A m \in 0..(n - 1) : f[m] = g[m]
  PROVE  Nodes(f, n) = Nodes(g, n)
<1>1. n \in Nat BY KeyLengthAssumption
<1>2. n # 0 => n - 1 \in 0..(n - 1) BY <1>1
<1>3. n # 0 => f[n - 1] = g[n - 1] BY <1>2
<1> QED BY <1>3 DEF Nodes

LEMMA TreesIs ==
  \A n \in 0..KeyLength : Trees[n] = Nodes(Trees, n)
<1> DEFINE Body(f, n) == Nodes(f, n)
           P(f) == f = [n \in 0..KeyLength |-> Body(f, n)]
           T == {n \in Nat : n <= KeyLength + 1 => \E f : f = [k \in 0..(n - 1) |-> Body(f, k)]}
<1>0. KeyLength \in Nat BY KeyLengthAssumption
<1>1. ASSUME NEW n \in 0..KeyLength, NEW f, NEW g, \A m \in 0..(n - 1) : f[m] = g[m]
      PROVE  Body(f, n) = Body(g, n)
  BY <1>1, NodesLocal
<1> HIDE DEF Body
<1>2. 0 \in T
  <2> DEFINE g == [k \in 0..(0 - 1) |-> 0]
  <2>1. g = [k \in 0..(0 - 1) |-> Body(g, k)]
    <3>1. 0..(0 - 1) = {} OBVIOUS
    <3> QED BY <3>1
  <2> QED BY <2>1
<1>3. ASSUME NEW n \in Nat, n \in T PROVE n + 1 \in T
  <2>1. CASE n + 1 <= KeyLength + 1
    <3>1. n \in 0..KeyLength /\ n <= KeyLength + 1 BY <2>1, <1>0
    <3>2. PICK f : f = [k \in 0..(n - 1) |-> Body(f, k)] BY <3>1, <1>3
    <3> DEFINE g == [k \in 0..n |-> IF k < n THEN f[k] ELSE Body(f, n)]
    <3>3. ASSUME NEW k \in 0..n PROVE g[k] = Body(g, k)
      <4>1. k \in 0..KeyLength /\ k \in Nat BY <3>1, <1>0
      <4>2. \A m \in 0..(k - 1) : f[m] = g[m]
        <5> SUFFICES ASSUME NEW m \in 0..(k - 1) PROVE f[m] = g[m]
          OBVIOUS
        <5>1. m \in 0..n /\ m < n BY <4>1
        <5> QED BY <5>1
      <4> HIDE DEF g
      <4>3. Body(f, k) = Body(g, k) BY <4>1, <4>2, <1>1
      <4>4. CASE k < n
        <5>1. k \in 0..(n - 1) BY <4>4
        <5>2. f[k] = Body(f, k) BY <3>2, <5>1, Zenon
        <5>3. g[k] = f[k] BY <4>4 DEF g
        <5> QED BY <4>3, <5>2, <5>3
      <4>5. CASE ~(k < n)
        <5>1. k = n BY <4>5
        <5>2. g[k] = Body(f, n) BY <5>1, <4>5 DEF g
        <5> QED BY <4>3, <5>1, <5>2
      <4> QED BY <4>4, <4>5
    <3>4. g = [k \in 0..n |-> g[k]] OBVIOUS
    <3> HIDE DEF g
    <3>5. g = [k \in 0..n |-> Body(g, k)] BY <3>3, <3>4
    <3>6. (n + 1) - 1 = n OBVIOUS
    <3> QED BY <3>5, <3>6
  <2>2. CASE ~(n + 1 <= KeyLength + 1) BY <2>2
  <2> QED BY <2>1, <2>2
<1> HIDE DEF T
<1>4. KeyLength + 1 \in T
  <2>1. \A n \in Nat : n \in T BY <1>2, <1>3, Induction
  <2> QED BY <2>1, <1>0
<1>5. \E f : P(f)
  <2>1. (KeyLength + 1) - 1 = KeyLength /\ KeyLength + 1 <= KeyLength + 1 BY <1>0
  <2>2. \E f : f = [k \in 0..((KeyLength + 1) - 1) |-> Body(f, k)] BY <1>4, <2>1 DEF T
  <2> QED BY <2>1, <2>2
<1> DEFINE chosen == CHOOSE f : P(f)
<1>6. P(chosen) BY <1>5, Zenon
<1>7. Trees = chosen BY DEF Trees, Body, Nodes
<1> HIDE DEF chosen
<1>8. \A n \in 0..KeyLength : Trees[n] = Body(Trees, n) BY <1>6, <1>7, Zenon
<1> QED BY <1>8 DEF Body


LEMMA TreesGrow ==
  ASSUME NEW m \in 0..KeyLength, NEW n \in 0..KeyLength, m <= n
  PROVE  Trees[m] \subseteq Trees[n]
<1>0. KeyLength \in Nat /\ m \in Nat /\ n \in Nat BY KeyLengthAssumption
<1> DEFINE T == {k \in Nat : k + 1 <= KeyLength => Trees[k] \subseteq Trees[k + 1]}
<1>1. 0 \in T
  <2> SUFFICES ASSUME 0 + 1 <= KeyLength PROVE Trees[0] \subseteq Trees[0 + 1]
    OBVIOUS
  <2>1. 0 \in 0..KeyLength /\ 0 + 1 \in 0..KeyLength BY <1>0
  <2>2. Trees[0] = Nodes(Trees, 0) /\ Trees[0 + 1] = Nodes(Trees, 0 + 1) BY <2>1, TreesIs
  <2> QED BY <2>2 DEF Nodes
<1>2. ASSUME NEW k \in Nat, k \in T PROVE k + 1 \in T
  <2>1. CASE (k + 1) + 1 <= KeyLength
    <3>1. k + 1 \in 0..KeyLength /\ (k + 1) + 1 \in 0..KeyLength /\ k + 1 <= KeyLength BY <1>0, <2>1
    <3>2. (k + 1) - 1 = k /\ ((k + 1) + 1) - 1 = k + 1 /\ k + 1 # 0 /\ (k + 1) + 1 # 0 OBVIOUS
    <3>3. Trees[k] \subseteq Trees[k + 1] BY <1>2, <3>1
    <3> DEFINE a == Trees[k]
               b == Trees[k + 1]
    <3>4. a \X a \subseteq b \X b BY <3>3
    <3>5. Nodes(Trees, k + 1) = [bits : Seq(Bits), refs : {<< >>} \cup (a \X a), item : Items \cup {NoItem}]
      BY <3>2 DEF Nodes
    <3>6. Nodes(Trees, (k + 1) + 1) = [bits : Seq(Bits), refs : {<< >>} \cup (b \X b), item : Items \cup {NoItem}]
      BY <3>2 DEF Nodes
    <3>7. Trees[k + 1] = Nodes(Trees, k + 1) /\ Trees[(k + 1) + 1] = Nodes(Trees, (k + 1) + 1)
      BY <3>1, TreesIs
    <3> HIDE DEF a, b
    <3>8. Nodes(Trees, k + 1) \subseteq Nodes(Trees, (k + 1) + 1)
      <4> DEFINE c == {<< >>} \cup (a \X a)
                 e == {<< >>} \cup (b \X b)
      <4>1. c \subseteq e BY <3>4
      <4> HIDE DEF c, e
      <4>2. [bits : Seq(Bits), refs : c, item : Items \cup {NoItem}]
              \subseteq [bits : Seq(Bits), refs : e, item : Items \cup {NoItem}]
        BY <4>1
      <4> QED BY <4>2, <3>5, <3>6 DEF c, e
    <3> QED BY <3>7, <3>8
  <2>2. CASE ~((k + 1) + 1 <= KeyLength) BY <2>2
  <2> QED BY <2>1, <2>2
<1> HIDE DEF T
<1>3. \A k \in Nat : k \in T BY <1>1, <1>2, Induction
<1> DEFINE U == {k \in Nat : m + k <= KeyLength => Trees[m] \subseteq Trees[m + k]}
<1>4. 0 \in U
  <2>1. m + 0 = m BY <1>0
  <2> QED BY <2>1
<1>5. ASSUME NEW k \in Nat, k \in U PROVE k + 1 \in U
  <2>1. CASE m + (k + 1) <= KeyLength
    <3>1. m + k \in Nat /\ (m + k) + 1 = m + (k + 1) /\ m + k <= KeyLength BY <1>0, <2>1
    <3>2. m + k \in T BY <1>3, <3>1
    <3>3. Trees[m + k] \subseteq Trees[m + (k + 1)] BY <3>1, <3>2, <2>1 DEF T
    <3>4. Trees[m] \subseteq Trees[m + k] BY <1>5, <3>1
    <3> QED BY <3>3, <3>4
  <2>2. CASE ~(m + (k + 1) <= KeyLength) BY <2>2
  <2> QED BY <2>1, <2>2
<1> HIDE DEF U
<1>6. \A k \in Nat : k \in U BY <1>4, <1>5, Induction
<1>7. n - m \in Nat /\ m + (n - m) = n BY <1>0
<1>8. n - m \in U BY <1>6, <1>7
<1> QED BY <1>0, <1>7, <1>8 DEF U

\* A label is written in bits.
LEMMA LabelBits ==
  ASSUME NEW n \in 0..KeyLength, NEW s \in Labels(n)
  PROVE  append_dict_label(s, n) \in Seq(Bits) /\ append_dict_label(s, n) # << >>
<1> DEFINE k == BitWidth(n)
           same == Len(s) > 1 /\ IsSame(s) /\ k < 2 * Len(s) - 1
           number == Binary(Len(s), k)
           ones == Repeat(1, Len(s))
<1>0. n \in Nat /\ s \in Seq(Bits) /\ Len(s) \in 0..n /\ Len(s) \in Nat
  <2>1. n \in Nat BY KeyLengthAssumption
  <2> QED BY <2>1, LabelsAre
<1>1. number \in Seq(Bits)
  <2>1. n < Power2[k] /\ k \in 0..KeyLength BY Widths
  <2>2. Power2[k] \in Nat BY <2>1, Power2Grows
  <2> HIDE DEF k
  <2>3. Len(s) \in 0..(Power2[k] - 1) BY <2>1, <2>2, <1>0
  <2> QED BY <2>1, <2>3, NumberOfBinary
<1>2. ones \in Seq(Bits)
  <2> DEFINE l == Len(s)
  <2>1. l \in Nat BY <1>0
  <2> HIDE DEF l
  <2>2. Repeat(1, l) \in Seq(Bits) BY <2>1 DEF Repeat, Bits
  <2> QED BY <2>2 DEF l
<1>3. <<0>> \in Seq(Bits) /\ Len(<<0>>) = 1 /\ <<1, 0>> \in Seq(Bits) /\ Len(<<1, 0>>) = 2 BY DEF Bits
<1>4. append_dict_label(s, n) =
        CASE same -> <<1, 1, s[1]>> \o number
          [] ~same /\ k < Len(s) -> <<1, 0>> \o number \o s
          [] OTHER -> <<0>> \o ones \o <<0>> \o s
  BY DEF append_dict_label
<1>5. ASSUME NEW u \in Seq(Bits), NEW v \in Seq(Bits), u # << >>
      PROVE  u \o v \in Seq(Bits) /\ u \o v # << >>
  <2>1. u \o v \in Seq(Bits) /\ Len(u \o v) = Len(u) + Len(v) BY ConcatElements
  <2>2. Len(u) \in Nat \ {0} /\ Len(v) \in Nat BY <1>5
  <2> DEFINE w == u \o v
  <2>3. w \in Seq(Bits) /\ Len(w) # 0 BY <2>1, <2>2
  <2> HIDE DEF w
  <2>4. w # << >> BY <2>3
  <2> QED BY <2>3, <2>4 DEF w
<1> HIDE DEF number, ones, k
<1>6. CASE same
  <2>1. Len(s) > 1 BY <1>6
  <2>2. 1 \in 1..Len(s) BY <2>1, <1>0
  <2>3. s[1] \in Bits /\ 1 \in Bits BY <2>2, <1>0 DEF Bits
  <2>4. <<1, 1, s[1]>> \in Seq(Bits) /\ <<1, 1, s[1]>> # << >> BY <2>3
  <2> QED BY <2>4, <1>1, <1>4, <1>5, <1>6
<1>7. CASE ~same /\ k < Len(s)
  <2> HIDE DEF same
  <2>1. append_dict_label(s, n) = <<1, 0>> \o number \o s BY <1>4, <1>7
  <2>2. <<1, 0>> \o number \in Seq(Bits) /\ <<1, 0>> \o number # << >> BY <1>1, <1>3, <1>5
  <2> QED BY <2>1, <2>2, <1>0, <1>5
<1>8. CASE ~same /\ ~(k < Len(s))
  <2> HIDE DEF same
  <2>1. append_dict_label(s, n) = <<0>> \o ones \o <<0>> \o s BY <1>4, <1>8
  <2>2. <<0>> \o ones \in Seq(Bits) /\ <<0>> \o ones # << >> BY <1>2, <1>3, <1>5
  <2>3. <<0>> \o ones \o <<0>> \in Seq(Bits) /\ <<0>> \o ones \o <<0>> # << >> BY <2>2, <1>3, <1>5
  <2> QED BY <2>1, <2>3, <1>0, <1>5
<1> QED BY <1>6, <1>7, <1>8
\* The rest of a key after a label on its way: a bit, and what is below it.
LEMMA RestOfKey ==
  ASSUME NEW n \in Nat, NEW key \in Keys(n), NEW l \in 0..(n - 1)
  PROVE  /\ Len(key) = n /\ key[l + 1] \in Bits
         /\ Len(After(key, l)) - 1 = n - l - 1 /\ n - l - 1 \in 0..(n - 1)
         /\ After(key, l)[1] = key[l + 1]
         /\ Tail(After(key, l)) = After(key, l + 1) /\ After(key, l + 1) \in Keys(n - l - 1)
<1>1. l \in 0..n /\ l + 1 \in 0..n /\ l + 1 \in 1..n /\ n - l \in Nat /\ n - (l + 1) \in Nat
      /\ n - (l + 1) = n - l - 1 /\ n - l - 1 \in 0..(n - 1) /\ 1 \in 1..(n - l)
  OBVIOUS
<1>2. key \in Seq(Bits) /\ Len(key) = n BY KeysAre
<1> DEFINE a == After(key, l)
           b == After(key, l + 1)
           m == n - l - 1
<1>3. a \in Keys(n - l) /\ \A i \in 1..(n - l) : a[i] = key[l + i] BY <1>1, SplitKey
<1>4. b \in Keys(m) /\ \A i \in 1..m : b[i] = key[(l + 1) + i] BY <1>1, SplitKey
<1> HIDE DEF a, b
<1>5. a \in Seq(Bits) /\ Len(a) = n - l BY <1>1, <1>3, KeysAre
<1>6. b \in Seq(Bits) /\ Len(b) = m BY <1>1, <1>4, KeysAre
<1>7. Tail(a) = b
  <2>1. a # << >> BY <1>1, <1>5
  <2>2. Tail(a) \in Seq(Bits) /\ Len(Tail(a)) = m /\ \A i \in 1..m : Tail(a)[i] = a[i + 1]
    BY <2>1, <1>1, <1>5
  <2>3. ASSUME NEW i \in 1..m PROVE Tail(a)[i] = b[i]
    <3>1. i + 1 \in 1..(n - l) /\ l + (i + 1) = (l + 1) + i BY <1>1
    <3> QED BY <3>1, <2>2, <1>3, <1>4
  <2> DEFINE t == Tail(a)
  <2>4. t \in Seq(Bits) /\ Len(t) = Len(b) /\ \A i \in 1..Len(b) : t[i] = b[i] BY <2>2, <2>3, <1>6
  <2> HIDE DEF t
  <2>5. t = b BY <2>4, <1>6, SeqEqual
  <2> QED BY <2>5 DEF t
<1>8. key[l + 1] \in Bits BY <1>1, <1>2
<1>9. a[1] = key[l + 1] BY <1>1, <1>3
<1>10. Len(a) - 1 = m BY <1>1, <1>5
<1> QED BY <1>1, <1>2, <1>4, <1>7, <1>8, <1>9, <1>10 DEF a, b

\* A label that is a prefix of a key and not all of it is shorter.
LEMMA ProperLabel ==
  ASSUME NEW n \in Nat, NEW label \in Labels(n), NEW key \in Keys(n), Starts(label, key), label # key
  PROVE  Len(label) \in 0..(n - 1)
<1>1. label \in Seq(Bits) /\ Len(label) \in 0..n BY LabelsAre
<1>2. key \in Seq(Bits) /\ Len(key) = n BY KeysAre
<1>3. Starts(key, key) BY <1>2 DEF Starts
<1>4. Len(label) # n BY <1>1, <1>2, <1>3, SamePrefix
<1> QED BY <1>1, <1>4

LEMMA FindLocal ==
  ASSUME NEW n \in 0..KeyLength, NEW f, NEW g, \A m \in 0..(n - 1) : f[m] = g[m]
  PROVE  [cell \in Labelled(n) |-> [key \in Keys(n) |-> Find(f, cell, key)]]
           = [cell \in Labelled(n) |-> [key \in Keys(n) |-> Find(g, cell, key)]]
<1>0. n \in Nat BY KeyLengthAssumption
<1>1. ASSUME NEW cell \in Labelled(n), NEW key \in Keys(n) PROVE Find(f, cell, key) = Find(g, cell, key)
  <2> DEFINE label == parse_label(cell.bits, Len(key))
             rest == After(key, Len(label))
             on == IsPrefix(label, key)
  <2>1. key \in Seq(Bits) /\ Len(key) = n BY <1>0, KeysAre
  <2>2. label \in Labels(n) BY <2>1 DEF Labelled
  <2> HIDE DEF label
  <2>3. label \in Seq(Bits) BY <2>2, <1>0, LabelsAre
  <2>4. on <=> Starts(label, key) BY <2>1, <2>3, StartsIs
  <2> DEFINE e(h) == h[Len(rest) - 1][cell.refs[rest[1] + 1]][Tail(rest)]
  <2>6. ASSUME on, label # key PROVE e(f) = e(g)
    <3>1. Len(label) \in 0..(n - 1) BY <2>2, <2>4, <2>6, <1>0, ProperLabel
    <3>2. Len(rest) - 1 \in 0..(n - 1)
      <4>1. Len(rest) - 1 = n - Len(label) - 1 /\ n - Len(label) - 1 \in 0..(n - 1) BY <3>1, <1>0, RestOfKey
      <4> QED BY <4>1
    <3>3. f[Len(rest) - 1] = g[Len(rest) - 1] BY <3>2
    <3> QED BY <3>3
  <2>7. Find(f, cell, key) = CASE ~on -> NoItem
                               [] label = key -> cell.item
                               [] OTHER -> e(f)
    BY DEF Find, label
  <2>8. Find(g, cell, key) = CASE ~on -> NoItem
                               [] label = key -> cell.item
                               [] OTHER -> e(g)
    BY DEF Find, label
  <2> HIDE DEF e, on
  <2>9. CASE ~on
    <3>1. label # key
      <4>1. Starts(key, key) BY <2>1 DEF Starts
      <4> QED BY <4>1, <2>4, <2>9
    <3> QED BY <2>7, <2>8, <2>9, <3>1
  <2>10. CASE on /\ label = key BY <2>7, <2>8, <2>10
  <2>11. CASE on /\ label # key BY <2>6, <2>7, <2>8, <2>11
  <2> QED BY <2>9, <2>10, <2>11
<1> QED BY <1>1
LEMMA LookupIs ==
  \A n \in 0..KeyLength : lookup[n] = [cell \in Labelled(n) |-> [key \in Keys(n) |-> Find(lookup, cell, key)]]
<1> DEFINE Body(f, n) == [cell \in Labelled(n) |-> [key \in Keys(n) |-> Find(f, cell, key)]]
           P(f) == f = [n \in 0..KeyLength |-> Body(f, n)]
           T == {n \in Nat : n <= KeyLength + 1 => \E f : f = [k \in 0..(n - 1) |-> Body(f, k)]}
<1>0. KeyLength \in Nat BY KeyLengthAssumption
<1>1. ASSUME NEW n \in 0..KeyLength, NEW f, NEW g, \A m \in 0..(n - 1) : f[m] = g[m]
      PROVE  Body(f, n) = Body(g, n)
  BY <1>1, FindLocal
<1> HIDE DEF Body
<1>2. 0 \in T
  <2> DEFINE g == [k \in 0..(0 - 1) |-> 0]
  <2>1. g = [k \in 0..(0 - 1) |-> Body(g, k)]
    <3>1. 0..(0 - 1) = {} OBVIOUS
    <3> QED BY <3>1
  <2> QED BY <2>1
<1>3. ASSUME NEW n \in Nat, n \in T PROVE n + 1 \in T
  <2>1. CASE n + 1 <= KeyLength + 1
    <3>1. n \in 0..KeyLength /\ n <= KeyLength + 1 BY <2>1, <1>0
    <3>2. PICK f : f = [k \in 0..(n - 1) |-> Body(f, k)] BY <3>1, <1>3
    <3> DEFINE g == [k \in 0..n |-> IF k < n THEN f[k] ELSE Body(f, n)]
    <3>3. ASSUME NEW k \in 0..n PROVE g[k] = Body(g, k)
      <4>1. k \in 0..KeyLength /\ k \in Nat BY <3>1, <1>0
      <4>2. \A m \in 0..(k - 1) : f[m] = g[m]
        <5> SUFFICES ASSUME NEW m \in 0..(k - 1) PROVE f[m] = g[m]
          OBVIOUS
        <5>1. m \in 0..n /\ m < n BY <4>1
        <5> QED BY <5>1
      <4> HIDE DEF g
      <4>3. Body(f, k) = Body(g, k) BY <4>1, <4>2, <1>1
      <4>4. CASE k < n
        <5>1. k \in 0..(n - 1) BY <4>4
        <5>2. f[k] = Body(f, k) BY <3>2, <5>1, Zenon
        <5>3. g[k] = f[k] BY <4>4 DEF g
        <5> QED BY <4>3, <5>2, <5>3
      <4>5. CASE ~(k < n)
        <5>1. k = n BY <4>5
        <5>2. g[k] = Body(f, n) BY <5>1, <4>5 DEF g
        <5> QED BY <4>3, <5>1, <5>2
      <4> QED BY <4>4, <4>5
    <3>4. g = [k \in 0..n |-> g[k]] OBVIOUS
    <3> HIDE DEF g
    <3>5. g = [k \in 0..n |-> Body(g, k)] BY <3>3, <3>4
    <3>6. (n + 1) - 1 = n OBVIOUS
    <3> QED BY <3>5, <3>6
  <2>2. CASE ~(n + 1 <= KeyLength + 1) BY <2>2
  <2> QED BY <2>1, <2>2
<1> HIDE DEF T
<1>4. KeyLength + 1 \in T
  <2>1. \A n \in Nat : n \in T BY <1>2, <1>3, Induction
  <2> QED BY <2>1, <1>0
<1>5. \E f : P(f)
  <2>1. (KeyLength + 1) - 1 = KeyLength /\ KeyLength + 1 <= KeyLength + 1 BY <1>0
  <2>2. \E f : f = [k \in 0..((KeyLength + 1) - 1) |-> Body(f, k)] BY <1>4, <2>1 DEF T
  <2> QED BY <2>1, <2>2
<1> DEFINE chosen == CHOOSE f : P(f)
<1>6. P(chosen) BY <1>5, Zenon
<1>7. lookup = chosen BY DEF lookup, Body
<1> HIDE DEF chosen
<1>8. \A n \in 0..KeyLength : lookup[n] = Body(lookup, n) BY <1>6, <1>7, Zenon
<1> QED BY <1>8 DEF Body
\* A label and a key: the label is on the key's way, or they part inside the label.
LEMMA PairPrefix ==
  ASSUME NEW n \in Nat, NEW label \in Labels(n), NEW key \in Keys(n)
  PROVE  LET q == LongestCommonPrefix({label, key})
             p == Len(q)
         IN /\ p \in 0..n /\ p \in 0..Len(label) /\ q \in Seq(Bits)
            /\ Starts(q, label) /\ Starts(q, key) /\ q = SubSeq(key, 1, p)
            /\ Starts(label, key) <=> p = Len(label)
            /\ Starts(label, key) => q = label
            /\ p < Len(label) => p \in 0..(n - 1) /\ label[p + 1] # key[p + 1]
            /\ p = Len(label) /\ label # key => p \in 0..(n - 1)
<1> DEFINE K == {label, key}
           q == LongestCommonPrefix(K)
           p == Len(q)
<1>1. label \in Seq(Bits) /\ Len(label) \in 0..n BY LabelsAre
<1>2. key \in Seq(Bits) /\ Len(key) = n BY KeysAre
<1>3. Longest(Bits, q, K)
  <2>1. K \subseteq Seq(Bits) /\ K # {} BY <1>1, <1>2
  <2> HIDE DEF K
  <2> QED BY <2>1, LongestIs
<1> HIDE DEF q
<1>4. q \in Seq(Bits) /\ Starts(q, label) /\ Starts(q, key) BY <1>3 DEF Longest
<1>5. p \in Nat /\ p <= Len(label) /\ p \in 0..n BY <1>1, <1>4 DEF Starts
<1>6. q = SubSeq(key, 1, p) BY <1>2, <1>4, StartsIs
<1>7. ASSUME Starts(label, key) PROVE p = Len(label) /\ q = label
  <2>1. Starts(label, label) BY <1>1 DEF Starts
  <2>2. \A t \in K : Starts(label, t) BY <2>1, <1>7
  <2>3. Len(label) <= p BY <2>2, <1>1, <1>3 DEF Longest
  <2>4. p = Len(label) BY <2>3, <1>1, <1>5
  <2> HIDE DEF p
  <2>5. Len(q) = Len(label) BY <2>4 DEF p
  <2> QED BY <2>1, <2>4, <2>5, <1>1, <1>4, SamePrefix
<1>8. ASSUME p = Len(label) PROVE Starts(label, key)
  <2>1. Starts(label, label) BY <1>1 DEF Starts
  <2>2. q = label BY <2>1, <1>1, <1>4, <1>8, SamePrefix
  <2> QED BY <2>2, <1>4
<1>9. ASSUME p < Len(label) PROVE p \in 0..(n - 1) /\ label[p + 1] # key[p + 1]
  <2>1. p \in 0..(n - 1) /\ p + 1 \in 1..Len(label) /\ p + 1 \in 1..Len(key) /\ p < Len(key)
    BY <1>1, <1>2, <1>5, <1>9
  <2>2. ASSUME label[p + 1] = key[p + 1] PROVE FALSE
    <3> DEFINE b == key[p + 1]
               c == Append(q, b)
    <3>1. b \in Bits BY <2>1, <1>2
    <3>2. label[p + 1] = b BY <2>2
    <3> HIDE DEF b
    <3>3. c \in Seq(Bits) /\ Len(c) = p + 1 /\ Starts(c, label) BY <3>1, <3>2, <1>1, <1>4, <1>9, AppendStarts
    <3>4. Starts(c, key)
      <4>1. key[p + 1] = b BY DEF b
      <4> QED BY <4>1, <3>1, <2>1, <1>2, <1>4, AppendStarts
    <3> HIDE DEF c
    <3>5. Len(c) <= p BY <3>3, <3>4, <1>3 DEF Longest
    <3> QED BY <3>3, <3>5, <1>5
  <2> QED BY <2>1, <2>2
<1>10. ASSUME p = Len(label), label # key PROVE p \in 0..(n - 1)
  <2>1. Len(label) \in 0..(n - 1) BY <1>8, <1>10, ProperLabel
  <2> QED BY <2>1, <1>10
<1>11. p \in 0..Len(label) BY <1>1, <1>5
<1> HIDE DEF p
<1>12. Starts(label, key) <=> p = Len(label) BY <1>7, <1>8
<1> QED BY <1>4, <1>5, <1>6, <1>7, <1>9, <1>10, <1>11, <1>12 DEF q, p, K

LEMMA PairOnWay ==
  ASSUME NEW n \in Nat, NEW label \in Labels(n), NEW key \in Keys(n)
  PROVE  /\ Len(LongestCommonPrefix({label, key})) \in 0..Len(label)
         /\ Starts(label, key) <=> Len(LongestCommonPrefix({label, key})) = Len(label)
<1> DEFINE q == LongestCommonPrefix({label, key})
<1>1. Len(q) \in 0..Len(label) BY PairPrefix
<1>2. Starts(label, key) <=> Len(q) = Len(label) BY PairPrefix
<1> HIDE DEF q
<1>3. Len(q) \in 0..Len(label) /\ (Starts(label, key) <=> Len(q) = Len(label)) BY <1>1, <1>2
<1> QED BY <1>3 DEF q

LEMMA SetLocal ==
  ASSUME NEW n \in 0..KeyLength, NEW f, NEW g, \A m \in 0..(n - 1) : f[m] = g[m]
  PROVE  [cell \in Labelled(n) \cup {NoCell} |-> [key \in Keys(n) |-> [item \in Items |-> Set(f, cell, key, item)]]]
           = [cell \in Labelled(n) \cup {NoCell} |-> [key \in Keys(n) |-> [item \in Items |-> Set(g, cell, key, item)]]]
<1>0. n \in Nat BY KeyLengthAssumption
<1>1. ASSUME NEW cell \in Labelled(n) \cup {NoCell}, NEW key \in Keys(n), NEW item \in Items
      PROVE  Set(f, cell, key, item) = Set(g, cell, key, item)
  <2> DEFINE label == parse_label(cell.bits, Len(key))
             q == LongestCommonPrefix({label, key})
             p == Len(q)
             m == Len(key) - p - 1
             new == Cell(append_dict_label(After(key, p + 1), m), << >>, item)
             old == [cell EXCEPT !.bits = append_dict_label(After(label, p + 1), m)]
             e1 == Cell(append_dict_label(key, Len(key)), << >>, item)
             e2 == Cell(append_dict_label(SubSeq(key, 1, p), Len(key)),
                        IF key[p + 1] = 1 THEN <<old, new>> ELSE <<new, old>>, NoItem)
             e3 == [cell EXCEPT !.item = item]
             e4(h) == [cell EXCEPT !.refs[key[p + 1] + 1] = h[m][@][After(key, p + 1)][item]]
             none == cell = NoCell
             inside == p < Len(label)
  <2>1. Len(key) = n BY <1>0, KeysAre
  <2>2. Set(f, cell, key, item) = CASE none -> e1
                                    [] ~none /\ inside -> e2
                                    [] ~none /\ label = key -> e3
                                    [] OTHER -> e4(f)
    BY DEF Set
  <2>3. Set(g, cell, key, item) = CASE none -> e1
                                    [] ~none /\ inside -> e2
                                    [] ~none /\ label = key -> e3
                                    [] OTHER -> e4(g)
    BY DEF Set
  <2>4. ASSUME ~none, ~inside, label # key PROVE e4(f) = e4(g)
    <3>1. label \in Labels(n) BY <2>1, <2>4 DEF Labelled
    <3> HIDE DEF label
    <3>2. p \in 0..Len(label) /\ (p = Len(label) /\ label # key => p \in 0..(n - 1))
      BY <3>1, <1>0, PairPrefix
    <3> HIDE DEF q
    <3>3. Len(label) \in Nat BY <3>1, <1>0, LabelsAre
    <3>4. p \in 0..(n - 1) BY <3>2, <3>3, <2>4
    <3>5. m \in 0..(n - 1) BY <3>4, <2>1, <1>0
    <3>6. f[m] = g[m] BY <3>5
    <3> HIDE DEF m, p
    <3> QED BY <3>6
  <2>5. label = key => ~inside
    <3> HIDE DEF label
    <3> SUFFICES ASSUME label = key PROVE ~inside
      OBVIOUS
    <3>1. key \in Labels(n)
      <4>1. key \in Seq(Bits) /\ Len(key) \in 0..n BY <1>0, KeysAre
      <4> QED BY <4>1, <1>0, LabelsAre
    <3>2. Starts(key, key) BY <2>1, <1>0 DEF Starts
    <3>3. Len(LongestCommonPrefix({key, key})) = Len(key) BY <3>1, <3>2, <1>0, PairPrefix
    <3> QED BY <3>3, <2>1, <1>0
  <2> HIDE DEF e1, e2, e3, e4, none, inside, label
  <2>6. CASE none BY <2>2, <2>3, <2>6
  <2>7. CASE ~none /\ inside BY <2>2, <2>3, <2>5, <2>7
  <2>8. CASE ~none /\ ~inside /\ label = key BY <2>2, <2>3, <2>8
  <2>9. CASE ~none /\ ~inside /\ label # key BY <2>2, <2>3, <2>4, <2>9
  <2> QED BY <2>6, <2>7, <2>8, <2>9
<1> QED BY <1>1
LEMMA DictSetIs ==
  \A n \in 0..KeyLength : dict_set[n] = [cell \in Labelled(n) \cup {NoCell} |-> [key \in Keys(n) |-> [item \in Items |-> Set(dict_set, cell, key, item)]]]
<1> DEFINE Body(f, n) == [cell \in Labelled(n) \cup {NoCell} |-> [key \in Keys(n) |-> [item \in Items |-> Set(f, cell, key, item)]]]
           P(f) == f = [n \in 0..KeyLength |-> Body(f, n)]
           T == {n \in Nat : n <= KeyLength + 1 => \E f : f = [k \in 0..(n - 1) |-> Body(f, k)]}
<1>0. KeyLength \in Nat BY KeyLengthAssumption
<1>1. ASSUME NEW n \in 0..KeyLength, NEW f, NEW g, \A m \in 0..(n - 1) : f[m] = g[m]
      PROVE  Body(f, n) = Body(g, n)
  BY <1>1, SetLocal, SMTT(30)
<1> HIDE DEF Body
<1>2. 0 \in T
  <2> DEFINE g == [k \in 0..(0 - 1) |-> 0]
  <2>1. g = [k \in 0..(0 - 1) |-> Body(g, k)]
    <3>1. 0..(0 - 1) = {} OBVIOUS
    <3> QED BY <3>1
  <2> QED BY <2>1
<1>3. ASSUME NEW n \in Nat, n \in T PROVE n + 1 \in T
  <2>1. CASE n + 1 <= KeyLength + 1
    <3>1. n \in 0..KeyLength /\ n <= KeyLength + 1 BY <2>1, <1>0
    <3>2. PICK f : f = [k \in 0..(n - 1) |-> Body(f, k)] BY <3>1, <1>3
    <3> DEFINE g == [k \in 0..n |-> IF k < n THEN f[k] ELSE Body(f, n)]
    <3>3. ASSUME NEW k \in 0..n PROVE g[k] = Body(g, k)
      <4>1. k \in 0..KeyLength /\ k \in Nat BY <3>1, <1>0
      <4>2. \A m \in 0..(k - 1) : f[m] = g[m]
        <5> SUFFICES ASSUME NEW m \in 0..(k - 1) PROVE f[m] = g[m]
          OBVIOUS
        <5>1. m \in 0..n /\ m < n BY <4>1
        <5> QED BY <5>1
      <4> HIDE DEF g
      <4>3. Body(f, k) = Body(g, k) BY <4>1, <4>2, <1>1
      <4>4. CASE k < n
        <5>1. k \in 0..(n - 1) BY <4>4
        <5>2. f[k] = Body(f, k) BY <3>2, <5>1, Zenon
        <5>3. g[k] = f[k] BY <4>4 DEF g
        <5> QED BY <4>3, <5>2, <5>3
      <4>5. CASE ~(k < n)
        <5>1. k = n BY <4>5
        <5>2. g[k] = Body(f, n) BY <5>1, <4>5 DEF g
        <5> QED BY <4>3, <5>1, <5>2
      <4> QED BY <4>4, <4>5
    <3>4. g = [k \in 0..n |-> g[k]] OBVIOUS
    <3> HIDE DEF g
    <3>5. g = [k \in 0..n |-> Body(g, k)] BY <3>3, <3>4
    <3>6. (n + 1) - 1 = n OBVIOUS
    <3> QED BY <3>5, <3>6
  <2>2. CASE ~(n + 1 <= KeyLength + 1) BY <2>2
  <2> QED BY <2>1, <2>2
<1> HIDE DEF T
<1>4. KeyLength + 1 \in T
  <2>1. \A n \in Nat : n \in T BY <1>2, <1>3, Induction
  <2> QED BY <2>1, <1>0
<1>5. \E f : P(f)
  <2>1. (KeyLength + 1) - 1 = KeyLength /\ KeyLength + 1 <= KeyLength + 1 BY <1>0
  <2>2. \E f : f = [k \in 0..((KeyLength + 1) - 1) |-> Body(f, k)] BY <1>4, <2>1 DEF T
  <2> QED BY <2>1, <2>2
<1> DEFINE chosen == CHOOSE f : P(f)
<1>6. P(chosen) BY <1>5, Zenon
<1>7. dict_set = chosen BY DEF dict_set, Body
<1> HIDE DEF chosen
<1>8. \A n \in 0..KeyLength : dict_set[n] = Body(dict_set, n) BY <1>6, <1>7, Zenon
<1> QED BY <1>8 DEF Body
-----------------------------------------------------------------------------
(* The edges that the serializer writes, as the library reads them. *)

\* The branch b below the edge to the keys of d.
Branch(d, n, b) ==
  LET label == LongestCommonPrefix(KeysOf(d))
      m == n - Len(label) - 1
  IN WriteEdge[m][Below(d, Append(label, b), m)]

LEMMA EdgeIs ==
  ASSUME NEW n \in 0..KeyLength, NEW d \in Dicts(n)
  PROVE  LET label == LongestCommonPrefix(KeysOf(d))
         IN /\ Cardinality(KeysOf(d)) = 1 =>
                 WriteEdge[n][d] = Cell(append_dict_label(label, n), << >>, d[label])
            /\ Cardinality(KeysOf(d)) # 1 =>
                 WriteEdge[n][d] = Cell(append_dict_label(label, n), <<Branch(d, n, 0), Branch(d, n, 1)>>, NoItem)
<1> DEFINE label == LongestCommonPrefix(KeysOf(d))
           m == n - Len(label) - 1
<1>1. WriteEdge[n][d] = Edge(WriteEdge, d, n)
  <2>1. WriteEdge[n] = [e \in Dicts(n) |-> Edge(WriteEdge, e, n)] BY WriteEdgeIs
  <2> QED BY <2>1, Zenon
<1>2. WriteLabel(label, n) = append_dict_label(label, n)
  <2>1. n \in Nat BY KeyLengthAssumption
  <2>2. label \in Labels(n) BY <2>1, DictLabel
  <2> HIDE DEF label
  <2> QED BY <2>2, SameLabels
<1>3. Edge(WriteEdge, d, n) =
        IF Cardinality(KeysOf(d)) = 1
          THEN Cell(WriteLabel(label, n), << >>, d[label])
          ELSE Cell(WriteLabel(label, n), <<Branch(d, n, 0), Branch(d, n, 1)>>, NoItem)
  BY DEF Edge, Branch
<1> HIDE DEF label
<1> QED BY <1>1, <1>2, <1>3 DEF label

\* Every edge is a cell with a label, and its label is what it was made for.
LEMMA EdgeLabelled ==
  ASSUME NEW n \in 0..KeyLength, NEW d \in Dicts(n)
  PROVE  /\ WriteEdge[n][d] \in Labelled(n) /\ WriteEdge[n][d] # NoCell
         /\ parse_label(WriteEdge[n][d].bits, n) = LongestCommonPrefix(KeysOf(d))
<1>0. KeyLength \in Nat /\ n \in Nat BY KeyLengthAssumption
<1> DEFINE T == {k \in Nat : k <= KeyLength => \A e \in Dicts(k) : WriteEdge[k][e] \in Trees[k]}
<1>1. ASSUME NEW k \in Nat, k <= KeyLength, NEW e \in Dicts(k)
      PROVE  LET label == LongestCommonPrefix(KeysOf(e))
             IN /\ k \in 0..KeyLength /\ label \in Labels(k)
                /\ WriteEdge[k][e].bits = append_dict_label(label, k)
                /\ append_dict_label(label, k) \in Seq(Bits) /\ append_dict_label(label, k) # << >>
                /\ parse_label(append_dict_label(label, k), k) = label
  <2> DEFINE label == LongestCommonPrefix(KeysOf(e))
  <2>1. k \in 0..KeyLength BY <1>1, <1>0
  <2>2. label \in Labels(k) BY <1>1, DictLabel
  <2>3. WriteEdge[k][e].bits = append_dict_label(label, k)
    <3> DEFINE one == Cardinality(KeysOf(e)) = 1
    <3>1. one => WriteEdge[k][e] = Cell(append_dict_label(label, k), << >>, e[label])
      BY <1>1, <2>1, EdgeIs
    <3>2. ~one => WriteEdge[k][e] = Cell(append_dict_label(label, k), <<Branch(e, k, 0), Branch(e, k, 1)>>, NoItem)
      BY <1>1, <2>1, EdgeIs
    <3> HIDE DEF label, one
    <3> QED BY <3>1, <3>2 DEF Cell
  <2> HIDE DEF label
  <2>4. append_dict_label(label, k) \in Seq(Bits) /\ append_dict_label(label, k) # << >> BY <2>1, <2>2, LabelBits
  <2>5. parse_label(append_dict_label(label, k), k) = label BY <2>1, <2>2, LabelRead
  <2> QED BY <2>1, <2>2, <2>3, <2>4, <2>5 DEF label
<1>2. ASSUME NEW k \in Nat, \A m \in 0..(k - 1) : m \in T PROVE k \in T
  <2> SUFFICES ASSUME k <= KeyLength, NEW e \in Dicts(k) PROVE WriteEdge[k][e] \in Trees[k]
    OBVIOUS
  <2> DEFINE label == LongestCommonPrefix(KeysOf(e))
             bits == append_dict_label(label, k)
             m == k - Len(label) - 1
  <2>1. k \in 0..KeyLength /\ bits \in Seq(Bits) BY <1>1
  <2>2. Trees[k] = Nodes(Trees, k) BY <2>1, TreesIs
  <2> HIDE DEF bits
  <2>3. CASE Cardinality(KeysOf(e)) = 1
    <3>1. WriteEdge[k][e] = Cell(bits, << >>, e[label]) BY <2>1, <2>3, EdgeIs DEF bits
    <3>2. e[label] \in Items \cup {NoItem}
      <4>1. label \in KeysOf(e) BY <2>3, DictLabel
      <4> HIDE DEF label
      <4> QED BY <4>1 DEF KeysOf, Dicts
    <3> HIDE DEF label
    <3> QED BY <2>1, <2>2, <3>1, <3>2 DEF Nodes, Cell
  <2>4. CASE Cardinality(KeysOf(e)) # 1
    <3>1. WriteEdge[k][e] = Cell(bits, <<Branch(e, k, 0), Branch(e, k, 1)>>, NoItem)
      BY <2>1, <2>4, EdgeIs DEF bits
    <3>2. ASSUME NEW b \in Bits PROVE Branch(e, k, b) \in Trees[k - 1]
      <4>1. m \in 0..(k - 1) /\ Below(e, Append(label, b), m) \in Dicts(m) BY <2>4, DictLabel
      <4>2. Branch(e, k, b) = WriteEdge[m][Below(e, Append(label, b), m)] BY DEF Branch
      <4> HIDE DEF m, label
      <4>3. m \in Nat /\ m <= KeyLength /\ m \in T BY <4>1, <1>2, <2>1, <1>0
      <4>4. WriteEdge[m][Below(e, Append(label, b), m)] \in Trees[m] BY <4>1, <4>3
      <4>5. m \in 0..KeyLength /\ k - 1 \in 0..KeyLength /\ m <= k - 1 BY <4>1, <2>1, <1>0
      <4>6. Trees[m] \subseteq Trees[k - 1] BY <4>5, TreesGrow
      <4> QED BY <4>2, <4>4, <4>6
    <3>3. 0 \in Bits /\ 1 \in Bits BY DEF Bits
    <3>4. k # 0 BY <2>4, DictLabel
    <3>5. <<Branch(e, k, 0), Branch(e, k, 1)>> \in Trees[k - 1] \X Trees[k - 1] BY <3>2, <3>3
    <3> QED BY <2>1, <2>2, <3>1, <3>4, <3>5 DEF Nodes, Cell
  <2> QED BY <2>3, <2>4
<1> HIDE DEF T
<1>3. \A k \in Nat : k \in T BY <1>2, StrongInduction
<1>4. WriteEdge[n][d] \in Trees[n] BY <1>0, <1>3 DEF T
<1> DEFINE label == LongestCommonPrefix(KeysOf(d))
<1>5. /\ label \in Labels(n) /\ WriteEdge[n][d].bits # << >>
      /\ parse_label(WriteEdge[n][d].bits, n) = label
  <2>1. n <= KeyLength BY <1>0
  <2> QED BY <1>0, <1>1, <2>1
<1>6. WriteEdge[n][d] # NoCell BY <1>5 DEF NoCell, Cell
<1> QED BY <1>4, <1>5, <1>6 DEF Labelled
\* A branch, seen from its fork: the cell it refers to, and the keys in it.
LEMMA BranchIs ==
  ASSUME NEW n \in 0..KeyLength, NEW d \in Dicts(n), Cardinality(KeysOf(d)) # 1, NEW b \in Bits
  PROVE  LET label == LongestCommonPrefix(KeysOf(d))
             m == n - Len(label) - 1
             part == Below(d, Append(label, b), m)
         IN /\ Len(label) \in 0..(n - 1) /\ m \in 0..(n - 1) /\ m \in 0..KeyLength
            /\ part \in Dicts(m) /\ Branch(d, n, b) = WriteEdge[m][part]
            /\ WriteEdge[n][d].refs[b + 1] = Branch(d, n, b)
            /\ \A key \in Keys(n) : Starts(label, key) /\ key[Len(label) + 1] = b =>
                 /\ After(key, Len(label) + 1) \in Keys(m)
                 /\ part[After(key, Len(label) + 1)] = d[key]
            /\ \A s \in Keys(m) : Append(label, b) \o s \in Keys(n) /\ part[s] = d[Append(label, b) \o s]
<1> DEFINE label == LongestCommonPrefix(KeysOf(d))
           m == n - Len(label) - 1
           p == Append(label, b)
           part == Below(d, p, m)
<1>0. KeyLength \in Nat /\ n \in Nat BY KeyLengthAssumption
<1>1. /\ label \in Seq(Bits) /\ Len(label) \in 0..(n - 1) /\ m \in 0..(n - 1)
      /\ p \in Seq(Bits) /\ Len(p) + m = n /\ part \in Dicts(m)
  <2>1. label \in Seq(Bits) /\ Len(label) \in 0..n BY <1>0, DictLabel
  <2>2. /\ Len(label) < n /\ m \in 0..(n - 1)
        /\ p \in Seq(Bits) /\ Len(p) + m = n /\ part \in Dicts(m)
    BY <1>0, DictLabel
  <2> HIDE DEF label, m, p, part
  <2>3. Len(label) \in 0..(n - 1) BY <1>0, <2>1, <2>2
  <2> QED BY <2>1, <2>2, <2>3
<1>2. WriteEdge[n][d].refs[b + 1] = Branch(d, n, b)
  <2>1. WriteEdge[n][d] = Cell(append_dict_label(label, n), <<Branch(d, n, 0), Branch(d, n, 1)>>, NoItem)
    BY EdgeIs
  <2>2. WriteEdge[n][d].refs = <<Branch(d, n, 0), Branch(d, n, 1)>> BY <2>1 DEF Cell
  <2>3. CASE b = 0 BY <2>2, <2>3
  <2>4. CASE b = 1 BY <2>2, <2>4
  <2> QED BY <2>3, <2>4 DEF Bits
<1>3. Branch(d, n, b) = WriteEdge[m][part] BY DEF Branch
<1>4. d \in [Keys(n) -> Items \cup {NoItem}] BY DEF Dicts
<1> DEFINE l == Len(label)
<1>5. l \in 0..(n - 1) /\ m = n - l - 1 BY <1>1
<1> HIDE DEF part, label, m
<1>6. Len(p) = l + 1
  <2>1. Len(p) + m = n BY <1>1
  <2>2. Len(p) \in Nat BY <1>1
  <2> HIDE DEF p, l
  <2> QED BY <2>1, <2>2, <1>0, <1>5
<1>7. m \in Nat /\ m \in 0..KeyLength
  <2> HIDE DEF l
  <2> QED BY <1>0, <1>5
<1>8. /\ \A s \in Keys(m) : p \o s \in Keys(n) /\ part[s] = d[p \o s]
      /\ \A k \in Keys(n) : Starts(p, k) => After(k, Len(p)) \in Keys(m) /\ part[After(k, Len(p))] = d[k]
  <2> HIDE DEF p
  <2>1. p \in Seq(Bits) /\ Len(p) + m = n /\ m \in Nat BY <1>1, <1>7
  <2>2. /\ \A s \in Keys(m) : p \o s \in Keys(n) /\ Below(d, p, m)[s] = d[p \o s]
        /\ \A k \in Keys(n) : Starts(p, k) =>
             After(k, Len(p)) \in Keys(m) /\ Below(d, p, m)[After(k, Len(p))] = d[k]
    BY <2>1, <1>0, <1>4, BelowIs
  <2> QED BY <2>2 DEF part
<1>9. ASSUME NEW key \in Keys(n), Starts(label, key), key[l + 1] = b
      PROVE  After(key, l + 1) \in Keys(m) /\ part[After(key, l + 1)] = d[key]
  <2>1. key \in Seq(Bits) /\ Len(key) = n BY <1>0, KeysAre
  <2>2. l < n BY <1>0, <1>5
  <2>3. Starts(p, key) BY <2>1, <2>2, <1>1, <1>9, AppendStarts
  <2> QED BY <2>3, <1>6, <1>8
<1> QED BY <1>1, <1>2, <1>3, <1>7, <1>8, <1>9 DEF label, m, part

\* The library finds in what the serializer writes each item under its key, and
\* nothing else.
LEMMA LookupInEdge ==
  ASSUME NEW n \in 0..KeyLength, NEW d \in Dicts(n), NEW key \in Keys(n)
  PROVE  lookup[n][WriteEdge[n][d]][key] = d[key]
<1>0. KeyLength \in Nat /\ n \in Nat BY KeyLengthAssumption
<1> DEFINE T == {k \in Nat : k <= KeyLength =>
                   \A e \in Dicts(k), x \in Keys(k) : lookup[k][WriteEdge[k][e]][x] = e[x]}
<1>1. ASSUME NEW k \in Nat, \A j \in 0..(k - 1) : j \in T PROVE k \in T
  <2> SUFFICES ASSUME k <= KeyLength, NEW e \in Dicts(k), NEW x \in Keys(k)
               PROVE  lookup[k][WriteEdge[k][e]][x] = e[x]
    OBVIOUS
  <2>1. k \in 0..KeyLength BY <1>0
  <2>2. Len(x) = k /\ x \in Seq(Bits) BY KeysAre
  <2> DEFINE cell == WriteEdge[k][e]
             label == LongestCommonPrefix(KeysOf(e))
             rest == After(x, Len(label))
             on == IsPrefix(label, x)
             further == lookup[Len(rest) - 1][cell.refs[rest[1] + 1]][Tail(rest)]
  <2>3. cell \in Labelled(k) /\ parse_label(cell.bits, Len(x)) = label BY <2>1, <2>2, EdgeLabelled
  <2>4. lookup[k][cell][x] = Find(lookup, cell, x)
    <3> HIDE DEF cell
    <3>1. lookup[k] = [c \in Labelled(k) |-> [y \in Keys(k) |-> Find(lookup, c, y)]] BY <2>1, LookupIs
    <3> QED BY <3>1, <2>3
  <2>5. Find(lookup, cell, x) = CASE ~on -> NoItem
                                  [] label = x -> cell.item
                                  [] OTHER -> further
    BY <2>3 DEF Find
  <2>6. /\ label \in Seq(Bits) /\ label \in Labels(k) /\ Len(label) \in 0..k
        /\ \A y \in KeysOf(e) : Starts(label, y)
        /\ (Cardinality(KeysOf(e)) = 1 => Len(label) = k)
        /\ (Cardinality(KeysOf(e)) # 1 => Len(label) < k)
    BY DictLabel
  <2>7. on <=> Starts(label, x)
    <3> HIDE DEF label
    <3> QED BY <2>2, <2>6, StartsIs
  <2>8. e \in [Keys(k) -> Items \cup {NoItem}] BY DEF Dicts
  <2>9. CASE ~on
    <3>1. e[x] = NoItem
      <4>1. x \notin KeysOf(e) BY <2>6, <2>7, <2>9
      <4> QED BY <4>1, <2>8 DEF KeysOf
    <3>2. label # x
      <4>1. Starts(x, x) BY <2>2 DEF Starts
      <4> HIDE DEF label, on
      <4> QED BY <4>1, <2>7, <2>9
    <3> HIDE DEF on, label, further, cell
    <3> QED BY <3>1, <3>2, <2>4, <2>5, <2>9 DEF cell
  <2>10. CASE on /\ label = x
    <3>1. Cardinality(KeysOf(e)) = 1 BY <2>2, <2>6, <2>10
    <3>2. cell = Cell(append_dict_label(label, k), << >>, e[label]) BY <3>1, <2>1, EdgeIs
    <3>3. cell.item = e[x] BY <3>2, <2>10 DEF Cell
    <3> HIDE DEF on, label, further, cell
    <3> QED BY <3>3, <2>4, <2>5, <2>10 DEF cell
  <2>11. CASE on /\ label # x
    <3>1. Starts(label, x) /\ Len(label) \in 0..(k - 1)
      <4> HIDE DEF label
      <4> QED BY <2>6, <2>7, <2>11, ProperLabel
    <3> DEFINE l == Len(label)
               b == x[l + 1]
               m == k - l - 1
               part == Below(e, Append(label, b), m)
    <3>2. /\ b \in Bits /\ Len(rest) - 1 = m /\ m \in 0..(k - 1)
          /\ rest[1] = b /\ Tail(rest) = After(x, l + 1)
      <4> HIDE DEF label, T
      <4>1. l \in 0..(k - 1) BY <3>1
      <4> HIDE DEF l
      <4>2. /\ x[l + 1] \in Bits
            /\ Len(After(x, l)) - 1 = k - l - 1 /\ k - l - 1 \in 0..(k - 1)
            /\ After(x, l)[1] = x[l + 1]
            /\ Tail(After(x, l)) = After(x, l + 1)
        BY <4>1, RestOfKey
      <4> QED BY <4>2 DEF l
    <3>3. Cardinality(KeysOf(e)) # 1 BY <2>6, <3>1
    <3>4. /\ part \in Dicts(m) /\ cell.refs[b + 1] = WriteEdge[m][part]
          /\ After(x, l + 1) \in Keys(m) /\ part[After(x, l + 1)] = e[x]
      <4>1. part \in Dicts(m) /\ Branch(e, k, b) = WriteEdge[m][part] /\ cell.refs[b + 1] = Branch(e, k, b)
        BY <2>1, <3>2, <3>3, BranchIs
      <4>2. After(x, l + 1) \in Keys(m) /\ part[After(x, l + 1)] = e[x]
        BY <2>1, <3>1, <3>2, <3>3, BranchIs
      <4> QED BY <4>1, <4>2
    <3> HIDE DEF part, b, label, rest, cell
    <3>5. further = lookup[m][WriteEdge[m][part]][After(x, l + 1)] BY <3>2, <3>4
    <3>6. m \in T /\ m \in Nat /\ m <= KeyLength BY <3>2, <1>1, <2>1, <1>0
    <3> HIDE DEF l, m
    <3>7. lookup[m][WriteEdge[m][part]][After(x, l + 1)] = part[After(x, l + 1)] BY <3>4, <3>6
    <3> HIDE DEF further, on
    <3>8. further = e[x] BY <3>4, <3>5, <3>7
    <3> QED BY <3>8, <2>4, <2>5, <2>11 DEF cell
  <2> QED BY <2>9, <2>10, <2>11
<1> HIDE DEF T
<1>2. \A k \in Nat : k \in T BY <1>1, StrongInduction
<1> QED BY <1>0, <1>2 DEF T
-----------------------------------------------------------------------------
(* One more item. *)

With(d, key, item) == [d EXCEPT ![key] = item]

LEMMA WithIs ==
  ASSUME NEW n \in Nat, NEW d \in [Keys(n) -> Items \cup {NoItem}], NEW x \in Keys(n), NEW item \in Items
  PROVE  /\ With(d, x, item) \in [Keys(n) -> Items \cup {NoItem}] /\ With(d, x, item) \in Dicts(n)
         /\ With(d, x, item)[x] = item /\ \A k \in Keys(n) : k # x => With(d, x, item)[k] = d[k]
         /\ KeysOf(With(d, x, item)) = KeysOf(d) \cup {x}
<1> DEFINE e == With(d, x, item)
<1>1. e \in [Keys(n) -> Items \cup {NoItem}] /\ e[x] = item /\ \A k \in Keys(n) : k # x => e[k] = d[k]
  BY DEF With
<1> HIDE DEF e
<1>2. item # NoItem BY ItemsAssumption
<1>3. KeysOf(e) = KeysOf(d) \cup {x} BY <1>1, <1>2 DEF KeysOf
<1>4. e \in Dicts(n) BY <1>1, <1>3 DEF Dicts
<1> QED BY <1>1, <1>3, <1>4 DEF e

\* A dictionary of one item is a leaf.
LEMMA EdgeOfOne ==
  ASSUME NEW n \in 0..KeyLength, NEW d \in Dicts(n), NEW x \in Keys(n), KeysOf(d) = {x}
  PROVE  WriteEdge[n][d] = Cell(append_dict_label(x, n), << >>, d[x])
<1>0. n \in Nat BY KeyLengthAssumption
<1>1. Cardinality(KeysOf(d)) = 1
  <2>1. KeysOf(d) \subseteq Keys(n) OBVIOUS
  <2> QED BY <2>1, <1>0, KeysFinite
<1>2. KeysOf(d) = {LongestCommonPrefix(KeysOf(d))} BY <1>0, <1>1, DictLabel
<1>3. LongestCommonPrefix(KeysOf(d)) = x BY <1>2
<1> QED BY <1>1, <1>3, EdgeIs

\* The parts of a dictionary that has one more item.
LEMMA WithBelow ==
  ASSUME NEW n \in Nat, NEW d \in [Keys(n) -> Items \cup {NoItem}], NEW x \in Keys(n), NEW item \in Items,
         NEW p \in Seq(Bits), NEW m \in Nat, Len(p) + m = n
  PROVE  /\ Starts(p, x) =>
              /\ After(x, Len(p)) \in Keys(m) /\ Below(d, p, m)[After(x, Len(p))] = d[x]
              /\ Below(With(d, x, item), p, m) = With(Below(d, p, m), After(x, Len(p)), item)
         /\ ~Starts(p, x) => Below(With(d, x, item), p, m) = Below(d, p, m)
<1> DEFINE e == With(d, x, item)
           a == Below(d, p, m)
           b == Below(e, p, m)
           y == After(x, Len(p))
<1>1. e \in [Keys(n) -> Items \cup {NoItem}] /\ e[x] = item /\ \A k \in Keys(n) : k # x => e[k] = d[k]
  BY WithIs
<1> HIDE DEF e
<1>2. /\ a \in [Keys(m) -> Items \cup {NoItem}]
      /\ \A s \in Keys(m) : p \o s \in Keys(n) /\ a[s] = d[p \o s]
      /\ Starts(p, x) => y \in Keys(m) /\ a[y] = d[x]
  BY BelowIs
<1>3. b \in [Keys(m) -> Items \cup {NoItem}] /\ \A s \in Keys(m) : b[s] = e[p \o s]
  BY <1>1, BelowIs
<1> HIDE DEF a, b
<1>4. ASSUME NEW s \in Keys(m), p \o s = x PROVE Starts(p, x) /\ s = y BY <1>4, JoinKey
<1>5. ASSUME Starts(p, x) PROVE p \o y = x
  <2>1. Len(p) \in 0..n BY <1>5
  <2> QED BY <2>1, <1>5, SplitKey
<1>6. ASSUME Starts(p, x) PROVE b = With(a, y, item)
  <2> DEFINE c == With(a, y, item)
  <2>1. y \in Keys(m) BY <1>2, <1>6
  <2>2. c \in [Keys(m) -> Items \cup {NoItem}] /\ c[y] = item /\ \A k \in Keys(m) : k # y => c[k] = a[k]
    BY <2>1, <1>2, WithIs
  <2> HIDE DEF c, y
  <2>3. ASSUME NEW s \in Keys(m) PROVE b[s] = c[s]
    <3>1. CASE s = y
      <4>1. p \o s = x BY <3>1, <1>5, <1>6
      <4> QED BY <4>1, <3>1, <1>1, <1>3, <2>2
    <3>2. CASE s # y
      <4>1. p \o s # x BY <3>2, <1>4
      <4>2. e[p \o s] = d[p \o s] BY <4>1, <1>1, <1>2
      <4> QED BY <4>2, <3>2, <1>2, <1>3, <2>2
    <3> QED BY <3>1, <3>2
  <2>4. b = c BY <1>3, <2>2, <2>3
  <2> QED BY <2>4 DEF c
<1>7. ASSUME ~Starts(p, x) PROVE b = a
  <2>1. ASSUME NEW s \in Keys(m) PROVE b[s] = a[s]
    <3>1. p \o s # x BY <1>4, <1>7
    <3>2. e[p \o s] = d[p \o s] BY <3>1, <1>1, <1>2
    <3> QED BY <3>2, <1>2, <1>3
  <2> QED BY <2>1, <1>2, <1>3
<1> QED BY <1>2, <1>6, <1>7 DEF a, b, e
LEMMA BitsAssociative == \A s, t, u \in Seq(Bits) : (s \o t) \o u = s \o (t \o u)
  BY ConcatAssociative

\* A label after a prefix of it.
LEMMA SplitLabel ==
  ASSUME NEW n \in Nat, NEW label \in Labels(n), NEW r \in Seq(Bits), Starts(r, label)
  PROVE  /\ After(label, Len(r)) \in Seq(Bits) /\ Len(r) \in 0..Len(label)
         /\ Len(After(label, Len(r))) = Len(label) - Len(r)
         /\ \A i \in 1..(Len(label) - Len(r)) : After(label, Len(r))[i] = label[Len(r) + i]
         /\ label = r \o After(label, Len(r))
         /\ \A t \in Seq(Bits), u \in Bits :
              r \o (Append(After(label, Len(r)), u) \o t) = Append(label, u) \o t
<1> DEFINE k == Len(label)
           a == After(label, Len(r))
<1>1. label \in Seq(Bits) /\ k \in Nat BY LabelsAre
<1>2. label \in Keys(k) BY <1>1, KeysAre
<1> HIDE DEF k
<1>3. Len(r) \in 0..k BY <1>1 DEF Starts, k
<1>4. a \in Keys(k - Len(r)) /\ (\A i \in 1..(k - Len(r)) : a[i] = label[Len(r) + i]) /\ label = r \o a
  BY <1>1, <1>2, <1>3, SplitKey
<1> HIDE DEF a
<1>5. a \in Seq(Bits) /\ Len(a) = k - Len(r)
  <2>1. k - Len(r) \in Nat BY <1>1, <1>3
  <2> QED BY <2>1, <1>4, KeysAre
<1>6. ASSUME NEW t \in Seq(Bits), NEW u \in Bits PROVE r \o (Append(a, u) \o t) = Append(label, u) \o t
  <2> DEFINE one == <<u>>
             v == one \o t
             w == a \o v
  <2>1. one \in Seq(Bits) /\ v \in Seq(Bits)
    <3>1. one \in Seq(Bits) OBVIOUS
    <3> HIDE DEF one
    <3> QED BY <3>1, ConcatElements
  <2>2. Append(a, u) = a \o one /\ Append(label, u) = label \o one BY <1>1, <1>5, AppendIsConcat, Zenon
  <2> HIDE DEF one
  <2>3. (a \o one) \o t = a \o v BY <2>1, <1>5, BitsAssociative
  <2>4. (label \o one) \o t = label \o v BY <2>1, <1>1, BitsAssociative
  <2> HIDE DEF v
  <2>5. (r \o a) \o v = r \o (a \o v) BY <2>1, <1>5, BitsAssociative
  <2> QED BY <2>2, <2>3, <2>4, <2>5, <1>4
<1> QED BY <1>3, <1>4, <1>5, <1>6 DEF k, a

LEMMA SplitAppend ==
  ASSUME NEW n \in Nat, NEW label \in Labels(n), NEW r \in Seq(Bits), Starts(r, label)
  PROVE  \A t \in Seq(Bits), u \in Bits :
           r \o (Append(After(label, Len(r)), u) \o t) = Append(label, u) \o t
<1> DEFINE rest == After(label, Len(r))
<1>1. \A t \in Seq(Bits), u \in Bits : r \o (Append(rest, u) \o t) = Append(label, u) \o t
  BY SplitLabel
<1> QED BY <1>1

\* The keys of a part all of whose dictionary's keys start alike.
LEMMA KeysBelow ==
  ASSUME NEW n \in Nat, NEW d \in Dicts(n), NEW r \in Seq(Bits), NEW m \in Nat, Len(r) + m = n,
         Starts(r, LongestCommonPrefix(KeysOf(d)))
  PROVE  LET label == LongestCommonPrefix(KeysOf(d))
             rest == After(label, Len(r))
             part == Below(d, r, m)
         IN /\ part \in Dicts(m)
            /\ \A k \in KeysOf(d) : After(k, Len(r)) \in KeysOf(part)
            /\ LongestCommonPrefix(KeysOf(part)) = rest
            /\ Cardinality(KeysOf(part)) = 1 <=> Cardinality(KeysOf(d)) = 1
            /\ Cardinality(KeysOf(d)) = 1 => part[rest] = d[label]
<1> DEFINE label == LongestCommonPrefix(KeysOf(d))
           rest == After(label, Len(r))
           part == Below(d, r, m)
           K == KeysOf(d)
           J == KeysOf(part)
<1>1. /\ label \in Seq(Bits) /\ label \in Labels(n) /\ Len(label) \in 0..n
      /\ \A k \in K : k \in Keys(n) /\ Starts(label, k)
      /\ (Cardinality(K) = 1 => K = {label} /\ Len(label) = n)
  BY DictLabel
<1>2. d \in [Keys(n) -> Items \cup {NoItem}] /\ K \subseteq Keys(n) /\ K # {} BY DEF Dicts, KeysOf
<1>3. ~(\E k : K = {k}) =>
        Len(label) < n /\ \A b \in Bits : \E k \in K : k[Len(label) + 1] = b
  <2> HIDE DEF K
  <2>1. SUFFICES ASSUME ~(\E k : K = {k})
                 PROVE  LET p == LongestCommonPrefix(K)
                        IN Len(p) < n /\ \A b \in Bits : \E k \in K : k[Len(p) + 1] = b
    BY DEF K
  <2> QED BY <2>1, <1>2, ForkOf
<1>4. Cardinality(K) = 1 <=> \E k : K = {k} BY <1>2, KeysFinite
<1> HIDE DEF label
<1>5. Starts(r, label) BY DEF label
<1>6. /\ rest \in Seq(Bits) /\ Len(r) \in 0..Len(label) /\ Len(rest) = Len(label) - Len(r)
      /\ \A i \in 1..(Len(label) - Len(r)) : rest[i] = label[Len(r) + i]
  BY <1>1, <1>5, SplitLabel
<1>7. /\ part \in [Keys(m) -> Items \cup {NoItem}]
      /\ \A s \in Keys(m) : r \o s \in Keys(n) /\ part[s] = d[r \o s]
      /\ \A k \in Keys(n) : Starts(r, k) => After(k, Len(r)) \in Keys(m) /\ part[After(k, Len(r))] = d[k]
  BY <1>2, BelowIs
<1> HIDE DEF part, rest
<1>8. ASSUME NEW k \in K PROVE Starts(r, k)
  <2>1. Starts(label, k) BY <1>1
  <2> QED BY <2>1, <1>5, <1>6 DEF Starts
<1>9. ASSUME NEW k \in K
      PROVE  /\ After(k, Len(r)) \in J
             /\ \A i \in 1..m : After(k, Len(r))[i] = k[Len(r) + i]
  <2>1. k \in Keys(n) /\ Starts(r, k) /\ d[k] # NoItem BY <1>1, <1>8 DEF KeysOf
  <2>2. After(k, Len(r)) \in Keys(m) /\ part[After(k, Len(r))] = d[k] BY <2>1, <1>7
  <2>3. Len(r) \in 0..n /\ n - Len(r) = m BY <1>1, <1>6
  <2>4. \A i \in 1..m : After(k, Len(r))[i] = k[Len(r) + i]
    <3> DEFINE l == Len(r)
    <3>1. k \in Keys(n) /\ l \in 0..n BY <2>1, <2>3
    <3> HIDE DEF l
    <3>2. \A i \in 1..(n - l) : After(k, l)[i] = k[l + i] BY <3>1, SplitKey
    <3> QED BY <2>3, <3>2 DEF l
  <2> QED BY <2>1, <2>2, <2>4, <1>7 DEF KeysOf
<1>10. ASSUME NEW s \in J PROVE \E k \in K : s = After(k, Len(r))
  <2>1. s \in Keys(m) /\ part[s] # NoItem BY <1>7 DEF KeysOf
  <2>2. r \o s \in K /\ After(r \o s, Len(r)) = s
    <3>1. r \o s \in Keys(n) /\ d[r \o s] # NoItem BY <2>1, <1>7
    <3>2. After(r \o s, Len(r)) = s BY <2>1, JoinKey
    <3> QED BY <3>1, <3>2, <1>2 DEF KeysOf
  <2> QED BY <2>2
<1>11. J \subseteq Keys(m) /\ J # {} /\ part \in Dicts(m)
  <2>1. J # {} BY <1>2, <1>9
  <2> QED BY <2>1, <1>7 DEF Dicts, KeysOf
<1>12. J \subseteq Seq(Bits) /\ \A s \in J : Len(s) = m BY <1>11, KeysAre
<1>13. \A s \in J : Starts(rest, s)
  <2> SUFFICES ASSUME NEW s \in J PROVE Starts(rest, s)
    OBVIOUS
  <2>1. PICK k \in K : s = After(k, Len(r)) BY <1>10
  <2>2. Starts(label, k) BY <1>1
  <2>3. Len(rest) <= Len(s) BY <1>1, <1>6, <1>12
  <2>4. ASSUME NEW i \in 1..Len(rest) PROVE rest[i] = s[i]
    <3>1. i \in 1..m /\ i \in 1..(Len(label) - Len(r)) /\ Len(r) + i \in 1..Len(label) BY <1>1, <1>6
    <3>2. s[i] = k[Len(r) + i] BY <2>1, <3>1, <1>9
    <3>3. label[Len(r) + i] = k[Len(r) + i] BY <2>2, <3>1 DEF Starts
    <3> QED BY <3>1, <3>2, <3>3, <1>6
  <2> QED BY <2>3, <2>4 DEF Starts
<1> HIDE DEF J
<1>14. CASE Cardinality(K) = 1
  <2>1. K = {label} /\ Len(label) = n BY <1>1, <1>14
  <2>2. J = {After(label, Len(r))} BY <2>1, <1>9, <1>10
  <2>3. J = {rest} BY <2>2 DEF rest
  <2>4. LongestCommonPrefix(J) = rest BY <2>3, <1>6, <1>11, <1>12, <1>13, LongestBy
  <2>5. Cardinality(J) = 1 BY <2>3, <1>11, KeysFinite
  <2>6. part[rest] = d[label] BY <2>1, <1>1, <1>5, <1>7 DEF rest
  <2>7. \A k \in K : After(k, Len(r)) \in J BY <1>9
  <2> QED BY <2>4, <2>5, <2>6, <2>7, <1>11, <1>14 DEF K, J, label, rest, part
<1>15. CASE Cardinality(K) # 1
  <2>1. Len(label) < n /\ \A b \in Bits : \E k \in K : k[Len(label) + 1] = b
    BY <1>3, <1>4, <1>15
  <2>2. 0 \in Bits /\ 1 \in Bits BY DEF Bits
  <2>3. PICK k0 \in K : k0[Len(label) + 1] = 0 BY <2>1, <2>2
  <2>4. PICK k1 \in K : k1[Len(label) + 1] = 1 BY <2>1, <2>2
  <2> DEFINE s == After(k0, Len(r))
             t == After(k1, Len(r))
  <2>5. /\ s \in J /\ t \in J
        /\ (\A i \in 1..m : s[i] = k0[Len(r) + i]) /\ (\A i \in 1..m : t[i] = k1[Len(r) + i])
    BY <1>9
  <2> HIDE DEF s, t
  <2>6. Len(rest) + 1 \in 1..m /\ Len(r) + (Len(rest) + 1) = Len(label) + 1 /\ Len(rest) < m
    BY <2>1, <1>1, <1>6
  <2>7. s[Len(rest) + 1] = 0 /\ t[Len(rest) + 1] = 1 BY <2>3, <2>4, <2>5, <2>6
  <2>8. Len(rest) < Len(s) /\ Len(rest) < Len(t) /\ s[Len(rest) + 1] # t[Len(rest) + 1]
    BY <2>5, <2>6, <2>7, <1>12
  <2>9. LongestCommonPrefix(J) = rest
    <3>1. \E v, w \in J : Len(rest) < Len(v) /\ Len(rest) < Len(w) /\ v[Len(rest) + 1] # w[Len(rest) + 1]
      BY <2>5, <2>8
    <3> QED BY <3>1, <1>6, <1>11, <1>12, <1>13, LongestBy
  <2>10. Cardinality(J) # 1
    <3>1. s # t BY <2>7
    <3>2. ~\E k : J = {k} BY <2>5, <3>1
    <3> QED BY <3>2, <1>11, KeysFinite
  <2>11. \A k \in K : After(k, Len(r)) \in J BY <1>9
  <2> QED BY <2>9, <2>10, <2>11, <1>11, <1>15 DEF K, J, label, rest, part
<1> QED BY <1>14, <1>15
Relabelled(cell, bits) == [cell EXCEPT !.bits = bits]

\* The edge to all the keys after a prefix of their label is the same edge with
\* a shorter label.
LEMMA EdgeBelow ==
  ASSUME NEW n \in 0..KeyLength, NEW d \in Dicts(n), NEW r \in Seq(Bits), NEW m \in 0..KeyLength,
         Len(r) + m = n, Starts(r, LongestCommonPrefix(KeysOf(d)))
  PROVE  WriteEdge[m][Below(d, r, m)] =
           Relabelled(WriteEdge[n][d], append_dict_label(After(LongestCommonPrefix(KeysOf(d)), Len(r)), m))
<1> DEFINE label == LongestCommonPrefix(KeysOf(d))
           rest == After(label, Len(r))
           part == Below(d, r, m)
           new == append_dict_label(rest, m)
           old == append_dict_label(label, n)
           one == Cardinality(KeysOf(d)) = 1
<1>0. n \in Nat /\ m \in Nat BY KeyLengthAssumption
<1>1. /\ part \in Dicts(m) /\ LongestCommonPrefix(KeysOf(part)) = rest
      /\ (Cardinality(KeysOf(part)) = 1 <=> one)
      /\ (one => part[rest] = d[label])
  BY <1>0, KeysBelow
<1>2. CASE one
  <2>1. WriteEdge[n][d] = Cell(old, << >>, d[label]) BY <1>2, EdgeIs
  <2>2. WriteEdge[m][part] = Cell(new, << >>, part[rest])
    <3> HIDE DEF part, rest
    <3> QED BY <1>1, <1>2, EdgeIs
  <2>3. part[rest] = d[label] BY <1>1, <1>2
  <2> HIDE DEF new, old, part, rest
  <2>4. WriteEdge[m][part] = Relabelled(WriteEdge[n][d], new) BY <2>1, <2>2, <2>3 DEF Cell, Relabelled
  <2> QED BY <2>4 DEF new, part, rest
<1>3. CASE ~one
  <2>1. WriteEdge[n][d] = Cell(old, <<Branch(d, n, 0), Branch(d, n, 1)>>, NoItem) BY <1>3, EdgeIs
  <2>2. WriteEdge[m][part] = Cell(new, <<Branch(part, m, 0), Branch(part, m, 1)>>, NoItem)
    <3> HIDE DEF part, rest
    <3> QED BY <1>1, <1>3, EdgeIs
  <2>3. ASSUME NEW b \in Bits PROVE Branch(part, m, b) = Branch(d, n, b)
    <3> DEFINE j == n - Len(label) - 1
               p == Append(label, b)
               q == Append(rest, b)
    <3>1. label \in Labels(n) /\ label \in Seq(Bits) /\ Len(label) \in 0..n BY <1>0, DictLabel
    <3>2. Len(label) < n /\ j \in 0..(n - 1) /\ p \in Seq(Bits) /\ Len(p) + j = n BY <1>0, <1>3, DictLabel
    <3> HIDE DEF label
    <3>3. Starts(r, label) BY DEF label
    <3>4. /\ rest \in Seq(Bits) /\ Len(r) \in 0..Len(label) /\ Len(rest) = Len(label) - Len(r)
          /\ \A t \in Seq(Bits), u \in Bits : r \o (Append(rest, u) \o t) = Append(label, u) \o t
      <4>1. rest \in Seq(Bits) /\ Len(r) \in 0..Len(label) /\ Len(rest) = Len(label) - Len(r)
        BY <1>0, <3>1, <3>3, SplitLabel
      <4>2. \A t \in Seq(Bits), u \in Bits : r \o (Append(rest, u) \o t) = Append(label, u) \o t
        BY <1>0, <3>1, <3>3, SplitAppend
      <4> QED BY <4>1, <4>2
    <3> HIDE DEF rest
    <3>5. m - Len(rest) - 1 = j
      <4> DEFINE x == Len(label)
                 y == Len(r)
                 z == Len(rest)
      <4>1. x \in Nat /\ y \in Nat /\ z = x - y /\ y + m = n BY <3>1, <3>4
      <4> HIDE DEF x, y, z
      <4>2. m - z - 1 = n - x - 1 BY <4>1, <1>0
      <4> QED BY <4>2 DEF x, z
    <3>6. q \in Seq(Bits) /\ Len(q) + j = m
      <4>1. q \in Seq(Bits) /\ Len(q) = Len(rest) + 1 BY <3>4, <3>1, AppendStarts
      <4>2. Len(rest) \in Nat BY <3>4
      <4> HIDE DEF q, j
      <4> QED BY <4>1, <4>2, <3>5, <3>2, <1>0
    <3>7. j \in Nat BY <3>2
    <3>8. d \in [Keys(n) -> Items \cup {NoItem}] /\ part \in [Keys(m) -> Items \cup {NoItem}]
      BY <1>1 DEF Dicts
    <3> DEFINE a == Below(part, q, j)
               c == Below(d, p, j)
    <3> HIDE DEF j
    <3>9. /\ a \in [Keys(j) -> Items \cup {NoItem}]
          /\ \A s \in Keys(j) : q \o s \in Keys(m) /\ a[s] = part[q \o s]
      <4> HIDE DEF part, q
      <4> QED BY <1>0, <3>6, <3>7, <3>8, BelowIs
    <3>10. /\ c \in [Keys(j) -> Items \cup {NoItem}]
           /\ \A s \in Keys(j) : c[s] = d[p \o s]
      <4> HIDE DEF p
      <4> QED BY <1>0, <3>2, <3>7, <3>8, BelowIs
    <3>11. \A s \in Keys(m) : part[s] = d[r \o s] BY <1>0, <3>8, BelowIs
    <3>12. ASSUME NEW s \in Keys(j) PROVE a[s] = c[s]
      <4>1. s \in Seq(Bits) BY <3>7, KeysAre
      <4>2. r \o (q \o s) = p \o s BY <4>1, <3>4
      <4> HIDE DEF a, c, p, q, part
      <4>3. a[s] = d[r \o (q \o s)] BY <3>9, <3>11
      <4> QED BY <4>2, <4>3, <3>10
    <3> HIDE DEF a, c
    <3>13. a = c BY <3>9, <3>10, <3>12
    <3>14. Branch(part, m, b) = WriteEdge[j][a]
      <4> HIDE DEF part
      <4> QED BY <1>1, <3>5 DEF Branch, a
    <3>15. Branch(d, n, b) = WriteEdge[j][c] BY DEF Branch, c, j, label
    <3> QED BY <3>13, <3>14, <3>15
  <2>4. Branch(part, m, 0) = Branch(d, n, 0) /\ Branch(part, m, 1) = Branch(d, n, 1)
    BY <2>3 DEF Bits
  <2> HIDE DEF new, old, part
  <2>5. WriteEdge[m][part] = Relabelled(WriteEdge[n][d], new) BY <2>1, <2>2, <2>4 DEF Cell, Relabelled
  <2> QED BY <2>5 DEF new, part
<1> QED BY <1>2, <1>3
\* A key that parts from a label inside it makes a fork there: the key on one
\* side, all that was below the label on the other.
LEMMA WithInside ==
  ASSUME NEW n \in 0..KeyLength, NEW d \in Dicts(n), NEW x \in Keys(n), NEW item \in Items,
         ~Starts(LongestCommonPrefix(KeysOf(d)), x)
  PROVE  LET label == LongestCommonPrefix(KeysOf(d))
             p == Len(LongestCommonPrefix({label, x}))
             m == n - p - 1
             new == Cell(append_dict_label(After(x, p + 1), m), << >>, item)
             old == Relabelled(WriteEdge[n][d], append_dict_label(After(label, p + 1), m))
         IN WriteEdge[n][With(d, x, item)] =
              Cell(append_dict_label(SubSeq(x, 1, p), n),
                   IF x[p + 1] = 1 THEN <<old, new>> ELSE <<new, old>>, NoItem)
<1> DEFINE label == LongestCommonPrefix(KeysOf(d))
           q == LongestCommonPrefix({label, x})
           p == Len(q)
           m == n - p - 1
           new == Cell(append_dict_label(After(x, p + 1), m), << >>, item)
           old == Relabelled(WriteEdge[n][d], append_dict_label(After(label, p + 1), m))
           e == With(d, x, item)
           b == x[p + 1]
           c == label[p + 1]
           K == KeysOf(d)
           J == KeysOf(e)
<1>0. n \in Nat /\ KeyLength \in Nat BY KeyLengthAssumption
<1>1. /\ label \in Seq(Bits) /\ label \in Labels(n)
      /\ \A k \in K : k \in Keys(n) /\ Starts(label, k)
  BY <1>0, DictLabel
<1>2. d \in [Keys(n) -> Items \cup {NoItem}] /\ K \subseteq Keys(n) /\ K # {} BY DEF Dicts, KeysOf
<1> HIDE DEF K
<1>3. e \in Dicts(n) /\ J = K \cup {x} /\ J \subseteq Keys(n)
  <2>1. e \in Dicts(n) /\ J = K \cup {x} BY <1>0, <1>2, WithIs DEF K
  <2> QED BY <2>1, <1>2
<1>4. ~Starts(label, x) OBVIOUS
<1>5. x \in Seq(Bits) /\ Len(x) = n BY <1>0, KeysAre
<1> HIDE DEF label
<1>6. /\ p \in 0..(n - 1) /\ p \in Nat /\ p < Len(label) /\ q \in Seq(Bits) /\ Starts(q, label) /\ Starts(q, x)
      /\ q = SubSeq(x, 1, p) /\ c # b
  <2>1. /\ p \in 0..n /\ p \in 0..Len(label) /\ q \in Seq(Bits)
        /\ Starts(q, label) /\ Starts(q, x) /\ q = SubSeq(x, 1, p)
        /\ (Starts(label, x) <=> p = Len(label))
        /\ (p < Len(label) => p \in 0..(n - 1) /\ c # b)
    BY <1>0, <1>1, PairPrefix
  <2>2. p < Len(label)
    <3>1. Len(label) \in Nat BY <1>1
    <3> QED BY <2>1, <3>1, <1>4
  <2> HIDE DEF p, b, c, q
  <2> QED BY <2>1, <2>2, <1>0
<1> HIDE DEF q
<1>7. b \in Bits /\ c \in Bits
  <2>1. p + 1 \in 1..Len(x) /\ p + 1 \in 1..Len(label) BY <1>0, <1>1, <1>5, <1>6
  <2> QED BY <2>1, <1>1, <1>5
<1>8. m \in Nat /\ m \in 0..KeyLength /\ p + 1 + m = n BY <1>0, <1>6
\* Where the keys part.
<1>9. ASSUME NEW k \in K PROVE k \in Seq(Bits) /\ Len(k) = n /\ Starts(q, k) /\ k[p + 1] = c
  <2>1. k \in Seq(Bits) /\ Len(k) = n /\ Starts(label, k) BY <1>0, <1>1, KeysAre
  <2>2. p + 1 \in 1..Len(label) BY <1>1, <1>6
  <2>3. k[p + 1] = c BY <2>1, <2>2 DEF Starts
  <2>4. Starts(q, k) BY <2>1, <1>6, <1>1 DEF Starts
  <2> QED BY <2>1, <2>3, <2>4
<1> HIDE DEF e, J
<1>10. LongestCommonPrefix(J) = q /\ Cardinality(J) # 1
  <2>1. J \subseteq Seq(Bits) /\ J # {} BY <1>0, <1>3, KeysAre
  <2>2. \A t \in J : Starts(q, t) BY <1>3, <1>6, <1>9
  <2>3. PICK k \in K : TRUE BY <1>2
  <2>4. k \in J /\ x \in J /\ k[p + 1] # x[p + 1] BY <2>3, <1>3, <1>6, <1>9
  <2>5. Len(q) < Len(k) /\ Len(q) < Len(x) BY <2>3, <1>0, <1>5, <1>6, <1>9
  <2>6. \E s, t \in J : Len(q) < Len(s) /\ Len(q) < Len(t) /\ s[Len(q) + 1] # t[Len(q) + 1]
    BY <2>4, <2>5
  <2>7. LongestCommonPrefix(J) = q BY <2>1, <2>2, <2>6, <1>6, LongestBy
  <2>8. ~\E t : J = {t} BY <2>4
  <2> QED BY <2>7, <2>8, <1>0, <1>3, KeysFinite
\* The side of the key.
<1>11. Branch(e, n, b) = new
  <2> DEFINE r == Append(q, b)
             a == Below(d, r, m)
             f == Below(e, r, m)
             y == After(x, p + 1)
  <2>1. r \in Seq(Bits) /\ Len(r) = p + 1 /\ Starts(r, x)
    <3>1. Len(q) < Len(x) BY <1>0, <1>5, <1>6
    <3> QED BY <3>1, <1>5, <1>6, <1>7, AppendStarts
  <2> HIDE DEF r, m, p
  <2>2. Len(r) + m = n BY <2>1, <1>8
  <2>3. y \in Keys(m) /\ f = With(a, y, item)
    <3>1. After(x, Len(r)) \in Keys(m) /\ f = With(a, After(x, Len(r)), item)
      BY <2>1, <2>2, <1>0, <1>2, <1>8, WithBelow DEF e
    <3> QED BY <3>1, <2>1
  <2>4. a \in [Keys(m) -> Items \cup {NoItem}] /\ \A s \in Keys(m) : r \o s \in Keys(n) /\ a[s] = d[r \o s]
    BY <2>1, <2>2, <1>0, <1>2, <1>8, BelowIs
  <2> HIDE DEF a, f, y
  <2>5. KeysOf(a) = {}
    <3> SUFFICES ASSUME NEW s \in Keys(m) PROVE a[s] = NoItem
      BY <2>4 DEF KeysOf
    <3> DEFINE k == r \o s
    <3>1. k \in Keys(n) /\ a[s] = d[k] /\ Starts(r, k) BY <2>1, <2>4, <1>8, JoinKey
    <3> HIDE DEF k
    <3>2. k \in Seq(Bits) BY <3>1, <1>0, KeysAre
    <3> HIDE DEF b
    <3>3. k[Len(q) + 1] = b
      <4>1. Starts(Append(q, b), k) /\ q \in Seq(Bits) BY <3>1, <1>6 DEF r
      <4> QED BY <4>1, <3>2, <1>7, AppendStarts
    <3>4. k \notin K BY <3>3, <1>6, <1>9 DEF p
    <3> QED BY <3>1, <3>4, <1>2 DEF K, KeysOf
  <2>6. f \in Dicts(m) /\ KeysOf(f) = {y} /\ f[y] = item
    BY <2>3, <2>4, <2>5, <1>8, WithIs
  <2>7. WriteEdge[m][f] = Cell(append_dict_label(y, m), << >>, item)
    BY <2>3, <2>6, <1>8, EdgeOfOne
  <2>8. Branch(e, n, b) = WriteEdge[m][f] BY <1>10 DEF Branch, J, f, r, m, p
  <2> QED BY <2>7, <2>8 DEF y
\* The side of the label.
<1>12. Branch(e, n, c) = old
  <2> DEFINE r == Append(q, c)
             f == Below(e, r, m)
  <2>1. r \in Seq(Bits) /\ Len(r) = p + 1 /\ Starts(r, label) /\ ~Starts(r, x)
    BY <1>1, <1>5, <1>6, <1>7, AppendStarts
  <2> HIDE DEF r, m, p, c
  <2>2. Len(r) + m = n BY <2>1, <1>8
  <2>3. f = Below(d, r, m) BY <2>1, <2>2, <1>0, <1>2, <1>8, WithBelow DEF e
  <2>4. WriteEdge[m][Below(d, r, m)] = Relabelled(WriteEdge[n][d], append_dict_label(After(label, Len(r)), m))
    <3>1. Starts(r, LongestCommonPrefix(KeysOf(d))) BY <2>1 DEF label
    <3>2. WriteEdge[m][Below(d, r, m)] =
            Relabelled(WriteEdge[n][d], append_dict_label(After(LongestCommonPrefix(KeysOf(d)), Len(r)), m))
      BY <3>1, <2>1, <2>2, <1>8, EdgeBelow
    <3> QED BY <3>2 DEF label
  <2> HIDE DEF f
  <2>5. Branch(e, n, c) = WriteEdge[m][f] BY <1>10 DEF Branch, J, f, r, m, p
  <2> QED BY <2>1, <2>3, <2>4, <2>5
<1>13. WriteEdge[n][e] = Cell(append_dict_label(q, n), <<Branch(e, n, 0), Branch(e, n, 1)>>, NoItem)
  BY <1>3, <1>10, EdgeIs DEF J
<1> HIDE DEF new, old
<1>14. CASE b = 1
  <2>1. c = 0 BY <1>6, <1>7, <1>14 DEF Bits
  <2> QED BY <2>1, <1>6, <1>11, <1>12, <1>13, <1>14 DEF new, old, label, q, e
<1>15. CASE b = 0
  <2>1. c = 1 BY <1>6, <1>7, <1>15 DEF Bits
  <2> QED BY <2>1, <1>6, <1>11, <1>12, <1>13, <1>15 DEF new, old, label, q, e
<1> QED BY <1>7, <1>14, <1>15 DEF Bits
Replaced(cell, b, child) == [cell EXCEPT !.refs[b + 1] = child]

\* A key on whose way a label is goes into one of the branches below it.
LEMMA WithFurther ==
  ASSUME NEW n \in 0..KeyLength, NEW d \in Dicts(n), NEW x \in Keys(n), NEW item \in Items,
         d[x] = NoItem, Starts(LongestCommonPrefix(KeysOf(d)), x)
  PROVE  LET label == LongestCommonPrefix(KeysOf(d))
             p == Len(label)
             m == n - p - 1
             b == x[p + 1]
             part == Below(d, Append(label, b), m)
             y == After(x, p + 1)
         IN /\ p \in 0..(n - 1) /\ m \in 0..(n - 1) /\ m \in 0..KeyLength /\ b \in Bits
            /\ part \in Dicts(m) /\ y \in Keys(m) /\ part[y] = NoItem
            /\ WriteEdge[n][d].refs[b + 1] = WriteEdge[m][part]
            /\ WriteEdge[n][With(d, x, item)] =
                 Replaced(WriteEdge[n][d], b, WriteEdge[m][With(part, y, item)])
<1> DEFINE label == LongestCommonPrefix(KeysOf(d))
           p == Len(label)
           m == n - p - 1
           b == x[p + 1]
           part == Below(d, Append(label, b), m)
           y == After(x, p + 1)
           e == With(d, x, item)
           K == KeysOf(d)
           J == KeysOf(e)
<1>0. n \in Nat /\ KeyLength \in Nat BY KeyLengthAssumption
<1>1. /\ label \in Seq(Bits) /\ label \in Labels(n)
      /\ \A k \in K : k \in Keys(n) /\ Starts(label, k)
      /\ (Cardinality(K) = 1 => K = {label} /\ Len(label) = n)
  BY <1>0, DictLabel
<1>2. d \in [Keys(n) -> Items \cup {NoItem}] /\ K \subseteq Keys(n) /\ K # {} BY DEF Dicts, KeysOf
<1>3. e \in Dicts(n) /\ J = K \cup {x} /\ J \subseteq Keys(n)
  <2>1. e \in Dicts(n) /\ J = K \cup {x} BY <1>0, <1>2, WithIs
  <2> QED BY <2>1, <1>2
<1>4. x \in Seq(Bits) /\ Len(x) = n BY <1>0, KeysAre
<1>5. x \notin K BY DEF KeysOf
<1>6. Cardinality(K) # 1
  <2> SUFFICES ASSUME Cardinality(K) = 1 PROVE FALSE
    OBVIOUS
  <2>1. K = {label} /\ Len(label) = n BY <1>1
  <2> HIDE DEF label, K
  <2>2. label = x
    <3>1. Starts(label, x) BY DEF label
    <3>2. Starts(x, x) BY <1>4 DEF Starts
    <3> QED BY <2>1, <3>1, <3>2, <1>1, <1>4, SamePrefix
  <2> QED BY <2>1, <2>2, <1>5
<1>7. Len(label) < n /\ \A u \in Bits : \E k \in K : k[Len(label) + 1] = u
  <2> HIDE DEF K
  <2>1. ~\E k : K = {k} BY <1>0, <1>2, <1>6, KeysFinite
  <2>2. LET g == LongestCommonPrefix(K)
        IN Len(g) < n /\ \A u \in Bits : \E k \in K : k[Len(g) + 1] = u
    BY <2>1, <1>0, <1>2, ForkOf
  <2> QED BY <2>2 DEF K
<1>8. p \in 0..(n - 1) /\ p \in Nat
  <2>1. p \in Nat BY <1>1
  <2> HIDE DEF label
  <2> QED BY <2>1, <1>0, <1>7
<1>9. b \in Bits
  <2>1. p + 1 \in 1..Len(x) BY <1>0, <1>4, <1>8
  <2> HIDE DEF p
  <2> QED BY <2>1, <1>4
<1>10. /\ m \in 0..(n - 1) /\ m \in 0..KeyLength
       /\ part \in Dicts(m) /\ WriteEdge[n][d].refs[b + 1] = Branch(d, n, b)
       /\ Branch(d, n, b) = WriteEdge[m][part]
  <2> DEFINE u == b
  <2>1. u \in Bits BY <1>9
  <2> HIDE DEF u
  <2>2. /\ m \in 0..(n - 1) /\ m \in 0..KeyLength
        /\ Below(d, Append(label, u), m) \in Dicts(m) /\ WriteEdge[n][d].refs[u + 1] = Branch(d, n, u)
        /\ Branch(d, n, u) = WriteEdge[m][Below(d, Append(label, u), m)]
    BY <2>1, <1>6, BranchIs
  <2> QED BY <2>2 DEF u
<1>11. Starts(label, x) OBVIOUS
<1> HIDE DEF label, K, e, J
<1>12. LongestCommonPrefix(J) = label /\ Cardinality(J) # 1
  <2>1. J \subseteq Seq(Bits) /\ J # {} BY <1>0, <1>3, KeysAre
  <2>2. \A t \in J : Starts(label, t) BY <1>1, <1>3, <1>11
  <2>3. 0 \in Bits /\ 1 \in Bits BY DEF Bits
  <2>4. PICK s \in K : s[Len(label) + 1] = 0 BY <2>3, <1>7
  <2>5. PICK t \in K : t[Len(label) + 1] = 1 BY <2>3, <1>7
  <2>6. s \in J /\ t \in J /\ Len(s) = n /\ Len(t) = n BY <1>0, <1>3, <1>1, KeysAre
  <2>7. \E v, w \in J : Len(label) < Len(v) /\ Len(label) < Len(w) /\ v[Len(label) + 1] # w[Len(label) + 1]
    BY <2>4, <2>5, <2>6, <1>7
  <2>8. LongestCommonPrefix(J) = label BY <2>1, <2>2, <2>7, <1>1, LongestBy
  <2>9. ~\E k : J = {k} BY <2>4, <2>5, <2>6
  <2> QED BY <2>8, <2>9, <1>0, <1>3, KeysFinite
<1>13. ASSUME NEW u \in Bits
       PROVE  /\ Append(label, u) \in Seq(Bits) /\ Len(Append(label, u)) = p + 1
              /\ Len(Append(label, u)) + m = n
              /\ (Starts(Append(label, u), x) <=> u = b)
              /\ Branch(e, n, u) = WriteEdge[m][Below(e, Append(label, u), m)]
              /\ Branch(d, n, u) = WriteEdge[m][Below(d, Append(label, u), m)]
  <2>1. /\ Append(label, u) \in Seq(Bits) /\ Len(Append(label, u)) = p + 1
        /\ (Starts(Append(label, u), x) <=> u = b)
    <3>1. p < Len(x) BY <1>0, <1>4, <1>8
    <3> QED BY <3>1, <1>1, <1>4, <1>11, AppendStarts
  <2>2. Len(Append(label, u)) + m = n BY <2>1, <1>0, <1>8
  <2>3. Branch(e, n, u) = WriteEdge[m][Below(e, Append(label, u), m)] BY <1>12 DEF Branch, J
  <2>4. Branch(d, n, u) = WriteEdge[m][Below(d, Append(label, u), m)] BY DEF Branch, label
  <2> QED BY <2>1, <2>2, <2>3, <2>4
<1>14. m \in Nat BY <1>0, <1>10
<1> HIDE DEF b, m, p
<1>15. y \in Keys(m) /\ part[y] = NoItem /\ Branch(e, n, b) = WriteEdge[m][With(part, y, item)]
  <2> DEFINE r == Append(label, b)
  <2>1. r \in Seq(Bits) /\ Len(r) = p + 1 /\ Len(r) + m = n /\ Starts(r, x) BY <1>9, <1>13
  <2>2. Branch(e, n, b) = WriteEdge[m][Below(e, r, m)] BY <1>9, <1>13
  <2> HIDE DEF r
  <2>3. /\ After(x, Len(r)) \in Keys(m) /\ Below(d, r, m)[After(x, Len(r))] = d[x]
        /\ Below(e, r, m) = With(Below(d, r, m), After(x, Len(r)), item)
    <3>1. /\ After(x, Len(r)) \in Keys(m) /\ Below(d, r, m)[After(x, Len(r))] = d[x]
          /\ Below(With(d, x, item), r, m) = With(Below(d, r, m), After(x, Len(r)), item)
      <4> HIDE DEF part, y
      <4>1. r \in Seq(Bits) /\ Len(r) + m = n /\ Starts(r, x) /\ n \in Nat /\ m \in Nat BY <2>1, <1>0, <1>14
      <4>2. d \in [Keys(n) -> Items \cup {NoItem}] BY <1>2
      <4> QED BY <4>1, <4>2, WithBelow, SMTT(30)
    <3> QED BY <3>1 DEF e
  <2>4. part = Below(d, r, m) BY DEF r
  <2> HIDE DEF part
  <2> QED BY <2>1, <2>2, <2>3, <2>4
<1>16. ASSUME NEW u \in Bits, u # b PROVE Branch(e, n, u) = Branch(d, n, u)
  <2> DEFINE r == Append(label, u)
  <2>1. r \in Seq(Bits) /\ Len(r) + m = n /\ ~Starts(r, x) BY <1>13, <1>16
  <2>2. Branch(e, n, u) = WriteEdge[m][Below(e, r, m)] /\ Branch(d, n, u) = WriteEdge[m][Below(d, r, m)]
    BY <1>13
  <2> HIDE DEF r
  <2>3. Below(e, r, m) = Below(d, r, m) BY <2>1, <1>0, <1>2, <1>14, WithBelow DEF e
  <2> QED BY <2>2, <2>3
<1>17. WriteEdge[n][e] = Cell(append_dict_label(label, n), <<Branch(e, n, 0), Branch(e, n, 1)>>, NoItem)
  BY <1>3, <1>12, EdgeIs DEF J
<1>18. WriteEdge[n][d] = Cell(append_dict_label(label, n), <<Branch(d, n, 0), Branch(d, n, 1)>>, NoItem)
  BY <1>6, EdgeIs DEF K, label
<1> DEFINE z == WriteEdge[m][With(part, y, item)]
<1>19. Branch(e, n, b) = z BY <1>15
<1> HIDE DEF z
<1>20. WriteEdge[n][e] = Replaced(WriteEdge[n][d], b, z)
  <2> DEFINE bits == append_dict_label(label, n)
             d0 == Branch(d, n, 0)
             d1 == Branch(d, n, 1)
             e0 == Branch(e, n, 0)
             e1 == Branch(e, n, 1)
  <2>1. CASE b = 0
    <3>1. e0 = z /\ e1 = d1 BY <2>1, <1>16, <1>19 DEF Bits
    <3> HIDE DEF bits, d0, d1, e0, e1
    <3>2. [<<d0, d1>> EXCEPT ![b + 1] = z] = <<z, d1>> BY <2>1
    <3>3. WriteEdge[n][e] = Cell(bits, <<z, d1>>, NoItem) BY <3>1, <1>17 DEF bits, e0, e1
    <3>4. WriteEdge[n][d] = Cell(bits, <<d0, d1>>, NoItem) BY <1>18 DEF bits, d0, d1
    <3> QED BY <3>2, <3>3, <3>4 DEF Replaced, Cell
  <2>2. CASE b = 1
    <3>1. e1 = z /\ e0 = d0 BY <2>2, <1>16, <1>19 DEF Bits
    <3> HIDE DEF bits, d0, d1, e0, e1
    <3>2. [<<d0, d1>> EXCEPT ![b + 1] = z] = <<d0, z>> BY <2>2
    <3>3. WriteEdge[n][e] = Cell(bits, <<d0, z>>, NoItem) BY <3>1, <1>17 DEF bits, e0, e1
    <3>4. WriteEdge[n][d] = Cell(bits, <<d0, d1>>, NoItem) BY <1>18 DEF bits, d0, d1
    <3> QED BY <3>2, <3>3, <3>4 DEF Replaced, Cell
  <2> QED BY <2>1, <2>2, <1>9 DEF Bits
<1> HIDE DEF part, y
<1>21. WriteEdge[n][d].refs[b + 1] = WriteEdge[m][part] BY <1>10
<1> QED BY <1>8, <1>9, <1>10, <1>15, <1>20, <1>21 DEF label, m, p, b, part, y, e, z
\* The library's first item makes the edge of a dictionary of one.
LEMMA SetFirst ==
  ASSUME NEW n \in 0..KeyLength, NEW x \in Keys(n), NEW item \in Items
  PROVE  dict_set[n][NoCell][x][item] = WriteEdge[n][With([k \in Keys(n) |-> NoItem], x, item)]
<1> DEFINE none == [k \in Keys(n) |-> NoItem]
           e == With(none, x, item)
<1>0. n \in Nat BY KeyLengthAssumption
<1>1. dict_set[n][NoCell][x][item] = Set(dict_set, NoCell, x, item)
  <2>1. dict_set[n] = [c \in Labelled(n) \cup {NoCell} |-> [y \in Keys(n) |-> [i \in Items |-> Set(dict_set, c, y, i)]]]
    BY DictSetIs
  <2>2. NoCell \in Labelled(n) \cup {NoCell} OBVIOUS
  <2> QED BY <2>1, <2>2
<1>2. Set(dict_set, NoCell, x, item) = Cell(append_dict_label(x, n), << >>, item)
  <2>1. Len(x) = n BY <1>0, KeysAre
  <2>2. Set(dict_set, NoCell, x, item) = Cell(append_dict_label(x, Len(x)), << >>, item) BY DEF Set
  <2> QED BY <2>1, <2>2
<1>3. none \in [Keys(n) -> Items \cup {NoItem}] /\ KeysOf(none) = {} BY DEF KeysOf
<1> HIDE DEF none
<1>4. e \in Dicts(n) /\ e[x] = item /\ KeysOf(e) = {x} BY <1>0, <1>3, WithIs
<1> HIDE DEF e
<1>5. WriteEdge[n][e] = Cell(append_dict_label(x, n), << >>, e[x]) BY <1>4, EdgeOfOne
<1> QED BY <1>1, <1>2, <1>4, <1>5 DEF e, none

\* The library sets one more item in what the serializer writes: the cell is what
\* the serializer writes for the dictionary with the item.
LEMMA SetInEdge ==
  ASSUME NEW n \in 0..KeyLength, NEW d \in Dicts(n), NEW x \in Keys(n), NEW item \in Items, d[x] = NoItem
  PROVE  dict_set[n][WriteEdge[n][d]][x][item] = WriteEdge[n][With(d, x, item)]
<1>0. KeyLength \in Nat /\ n \in Nat BY KeyLengthAssumption
<1> DEFINE T == {k \in Nat : k <= KeyLength =>
                   \A e \in Dicts(k), y \in Keys(k), i \in Items :
                     e[y] = NoItem => dict_set[k][WriteEdge[k][e]][y][i] = WriteEdge[k][With(e, y, i)]}
<1>1. ASSUME NEW k \in Nat, \A j \in 0..(k - 1) : j \in T PROVE k \in T
  <2> SUFFICES ASSUME k <= KeyLength, NEW e \in Dicts(k), NEW y \in Keys(k), NEW i \in Items, e[y] = NoItem
               PROVE  dict_set[k][WriteEdge[k][e]][y][i] = WriteEdge[k][With(e, y, i)]
    OBVIOUS
  <2>1. k \in 0..KeyLength BY <1>0
  <2>2. Len(y) = k /\ y \in Seq(Bits) BY KeysAre
  <2> DEFINE cell == WriteEdge[k][e]
             label == LongestCommonPrefix(KeysOf(e))
             p == Len(LongestCommonPrefix({label, y}))
             m == k - p - 1
             new == Cell(append_dict_label(After(y, p + 1), m), << >>, i)
             old == Relabelled(cell, append_dict_label(After(label, p + 1), m))
             e1 == Cell(append_dict_label(y, k), << >>, i)
             e2 == Cell(append_dict_label(SubSeq(y, 1, p), k),
                        IF y[p + 1] = 1 THEN <<old, new>> ELSE <<new, old>>, NoItem)
             e3 == [cell EXCEPT !.item = i]
             e4 == [cell EXCEPT !.refs[y[p + 1] + 1] = dict_set[m][@][After(y, p + 1)][i]]
             none == cell = NoCell
             inside == p < Len(label)
  <2>3. cell \in Labelled(k) /\ ~none /\ parse_label(cell.bits, Len(y)) = label BY <2>1, <2>2, EdgeLabelled
  <2>4. dict_set[k][cell][y][i] = Set(dict_set, cell, y, i)
    <3> HIDE DEF cell
    <3>1. dict_set[k] = [c \in Labelled(k) \cup {NoCell} |->
                          [x0 \in Keys(k) |-> [i0 \in Items |-> Set(dict_set, c, x0, i0)]]]
      BY <2>1, DictSetIs
    <3>2. cell \in Labelled(k) \cup {NoCell} BY <2>3
    <3> QED BY <3>1, <3>2
  <2>5. Set(dict_set, cell, y, i) = CASE none -> e1
                                      [] ~none /\ inside -> e2
                                      [] ~none /\ label = y -> e3
                                      [] OTHER -> e4
    <3>1. parse_label(cell.bits, Len(y)) = label BY <2>3
    <3> HIDE DEF label, cell
    <3> QED BY <2>2, <3>1 DEF Set, Relabelled
  <2>6. /\ label \in Seq(Bits) /\ label \in Labels(k)
        /\ (Cardinality(KeysOf(e)) = 1 => KeysOf(e) = {label})
        /\ (Cardinality(KeysOf(e)) # 1 => Len(label) < k)
    BY DictLabel
  <2>7. label # y
    <3> SUFFICES ASSUME label = y PROVE FALSE
      OBVIOUS
    <3>1. Cardinality(KeysOf(e)) = 1 BY <2>2, <2>6
    <3>2. y \in KeysOf(e) BY <3>1, <2>6
    <3> QED BY <3>2 DEF KeysOf
  <2>8. /\ p \in 0..Len(label) /\ (Starts(label, y) <=> p = Len(label))
    <3> HIDE DEF label
    <3>1. label \in Labels(k) BY <2>6
    <3> HIDE DEF T
    <3> QED BY <3>1, PairOnWay
  <2>9. Len(label) \in Nat BY <2>6
  <2>10. CASE inside
    <3>1. ~Starts(label, y)
      <4> HIDE DEF p, label
      <4> QED BY <2>8, <2>9, <2>10
    <3>2. WriteEdge[k][With(e, y, i)] = e2 BY <2>1, <3>1, WithInside
    <3>3. ~none BY <2>3
    <3> HIDE DEF e1, e2, e3, e4, none, inside, label, cell
    <3>4. Set(dict_set, cell, y, i) = e2 BY <2>5, <2>7, <2>10, <3>3
    <3> QED BY <2>4, <3>2, <3>4 DEF cell
  <2>11. CASE ~inside
    <3>1. p = Len(label) /\ Starts(label, y)
      <4> HIDE DEF p, label
      <4> QED BY <2>8, <2>9, <2>11
    <3> DEFINE b == y[p + 1]
               part == Below(e, Append(label, b), m)
               z == After(y, p + 1)
               child == WriteEdge[m][With(part, z, i)]
    <3>2. Set(dict_set, cell, y, i) = e4
      <4>1. ~none BY <2>3
      <4> HIDE DEF e1, e2, e3, e4, none, inside, label, cell
      <4> QED BY <2>5, <2>7, <2>11, <4>1
    <3>3. /\ m \in 0..(k - 1) /\ b \in Bits
          /\ part \in Dicts(m) /\ z \in Keys(m) /\ part[z] = NoItem
          /\ cell.refs[b + 1] = WriteEdge[m][part]
          /\ WriteEdge[k][With(e, y, i)] = Replaced(cell, b, child)
      <4> DEFINE l == Len(label)
                 j == k - l - 1
                 c == y[l + 1]
                 f == Below(e, Append(label, c), j)
                 w == After(y, l + 1)
      <4>1. /\ j \in 0..(k - 1) /\ c \in Bits
            /\ f \in Dicts(j) /\ w \in Keys(j) /\ f[w] = NoItem
            /\ cell.refs[c + 1] = WriteEdge[j][f]
            /\ WriteEdge[k][With(e, y, i)] = Replaced(cell, c, WriteEdge[j][With(f, w, i)])
        BY <2>1, <3>1, WithFurther
      <4>2. l = p BY <3>1
      <4> HIDE DEF l, p, cell, label
      <4> QED BY <4>1, <4>2
    <3> HIDE DEF part, z, cell, p, m, label
    <3>4. m \in T /\ m \in Nat /\ m <= KeyLength BY <3>3, <2>1, <1>0, <1>1
    <3>5. dict_set[m][WriteEdge[m][part]][z][i] = child BY <3>3, <3>4
    <3> HIDE DEF child, b
    <3>6. dict_set[m][cell.refs[b + 1]][z][i] = child BY <3>3, <3>5
    <3>7. e4 = Replaced(cell, b, child) BY <3>6 DEF Replaced, b, z
    <3> QED BY <2>4, <3>2, <3>3, <3>7 DEF cell
  <2> QED BY <2>10, <2>11
<1> HIDE DEF T
<1>2. \A k \in Nat : k \in T BY <1>1, StrongInduction
<1> QED BY <1>0, <1>2 DEF T
-----------------------------------------------------------------------------
(* Batches. *)

LEMMA IndexIs ==
  ASSUME NEW i \in Indexes
  PROVE  Binary(i, KeyLength) \in Keys(KeyLength) /\ Number(Binary(i, KeyLength)) = i
<1>1. KeyLength \in 0..KeyLength BY KeyLengthAssumption
<1>2. i \in 0..(Power2[KeyLength] - 1) BY DEF Indexes
<1> QED BY <1>1, <1>2, NumberOfBinary

\* What has each item under its index has it under the index's key.
LEMMA ConvertedIs ==
  ASSUME NEW d \in [Indexes -> Items \cup {NoItem}]
  PROVE  /\ Converted(d) \in [Keys(KeyLength) -> Items \cup {NoItem}]
         /\ \A i \in Indexes : Converted(d)[Binary(i, KeyLength)] = d[i]
         /\ \A k \in Keys(KeyLength) :
              Converted(d)[k] # NoItem => \E i \in KeysOf(d) : k = Binary(i, KeyLength)
<1> DEFINE c == Converted(d)
           key(i) == Binary(i, KeyLength)
           padded == {key(i) : i \in KeysOf(d)}
<1>1. KeysOf(d) \subseteq Indexes /\ \A i \in Indexes : i \in KeysOf(d) <=> d[i] # NoItem BY DEF KeysOf
<1>2. c = [k \in Keys(KeyLength) |-> IF k \in padded THEN d[Number(k)] ELSE NoItem] BY DEF Converted
<1>3. \A i \in Indexes : key(i) \in Keys(KeyLength) /\ Number(key(i)) = i BY IndexIs
<1> HIDE DEF c, key
<1>4. ASSUME NEW k \in padded PROVE \E i \in KeysOf(d) : k = key(i) /\ Number(k) = i
  <2>1. PICK i \in KeysOf(d) : k = key(i) OBVIOUS
  <2> QED BY <2>1, <1>1, <1>3
<1>5. ASSUME NEW k \in Keys(KeyLength) PROVE c[k] \in Items \cup {NoItem}
  <2>1. CASE k \in padded
    <3>1. PICK i \in KeysOf(d) : Number(k) = i BY <2>1, <1>4
    <3> QED BY <2>1, <3>1, <1>1, <1>2
  <2>2. CASE k \notin padded BY <2>2, <1>2
  <2> QED BY <2>1, <2>2
<1>6. ASSUME NEW i \in Indexes PROVE c[key(i)] = d[i]
  <2>1. CASE i \in KeysOf(d)
    <3>1. key(i) \in padded BY <2>1
    <3> QED BY <3>1, <1>2, <1>3
  <2>2. CASE i \notin KeysOf(d)
    <3>1. key(i) \notin padded
      <4> SUFFICES ASSUME key(i) \in padded PROVE FALSE
        OBVIOUS
      <4>1. PICK j \in KeysOf(d) : Number(key(i)) = j BY <1>4
      <4> QED BY <4>1, <2>2, <1>3
    <3> HIDE DEF padded
    <3>2. c[key(i)] = NoItem BY <3>1, <1>2, <1>3
    <3> QED BY <3>2, <2>2, <1>1
  <2> QED BY <2>1, <2>2
<1>7. ASSUME NEW k \in Keys(KeyLength), c[k] # NoItem PROVE \E i \in KeysOf(d) : k = key(i)
  <2>1. k \in padded
    <3> HIDE DEF padded
    <3> QED BY <1>2, <1>7
  <2> QED BY <2>1
<1>8. c \in [Keys(KeyLength) -> Items \cup {NoItem}]
  <2> HIDE DEF padded
  <2> QED BY <1>2, <1>5
<1> QED BY <1>6, <1>7, <1>8 DEF c, key

\* One more item under an index is one more item under its key.
LEMMA ConvertedWith ==
  ASSUME NEW d \in [Indexes -> Items \cup {NoItem}], NEW i \in Indexes, NEW item \in Items
  PROVE  Converted([d EXCEPT ![i] = item]) = With(Converted(d), Binary(i, KeyLength), item)
<1> DEFINE e == [d EXCEPT ![i] = item]
           key(j) == Binary(j, KeyLength)
           a == Converted(d)
           b == Converted(e)
           c == With(a, key(i), item)
<1>0. KeyLength \in Nat BY KeyLengthAssumption
<1>1. /\ e \in [Indexes -> Items \cup {NoItem}] /\ e[i] = item
      /\ \A j \in Indexes : j # i => e[j] = d[j]
  OBVIOUS
<1> HIDE DEF e
<1>2. /\ a \in [Keys(KeyLength) -> Items \cup {NoItem}]
      /\ \A j \in Indexes : a[key(j)] = d[j]
      /\ \A k \in Keys(KeyLength) : a[k] # NoItem => \E j \in KeysOf(d) : k = key(j)
  BY ConvertedIs
<1>3. /\ b \in [Keys(KeyLength) -> Items \cup {NoItem}]
      /\ \A j \in Indexes : b[key(j)] = e[j]
      /\ \A k \in Keys(KeyLength) : b[k] # NoItem => \E j \in KeysOf(e) : k = key(j)
  BY <1>1, ConvertedIs
<1>4. key(i) \in Keys(KeyLength) BY IndexIs
<1> HIDE DEF a, b, key
<1>5. c \in [Keys(KeyLength) -> Items \cup {NoItem}] /\ c[key(i)] = item
      /\ \A k \in Keys(KeyLength) : k # key(i) => c[k] = a[k]
  BY <1>0, <1>2, <1>4, WithIs
<1> HIDE DEF c
<1>6. KeysOf(d) \subseteq Indexes /\ KeysOf(e) \subseteq Indexes BY <1>1 DEF KeysOf
<1>7. ASSUME NEW k \in Keys(KeyLength) PROVE b[k] = c[k]
  <2>1. CASE k = key(i) BY <2>1, <1>1, <1>3, <1>5
  <2>2. CASE k # key(i)
    <3>1. c[k] = a[k] BY <2>2, <1>5
    <3>2. CASE \E j \in Indexes : k = key(j)
      <4>1. PICK j \in Indexes : k = key(j) BY <3>2
      <4>2. j # i BY <4>1, <2>2
      <4> QED BY <4>1, <4>2, <3>1, <1>1, <1>2, <1>3
    <3>3. CASE ~\E j \in Indexes : k = key(j)
      <4>1. a[k] = NoItem /\ b[k] = NoItem BY <3>3, <1>2, <1>3, <1>6
      <4> QED BY <4>1, <3>1
    <3> QED BY <3>2, <3>3
  <2> QED BY <2>1, <2>2
<1>8. b = c BY <1>3, <1>5, <1>7
<1> QED BY <1>8 DEF a, b, c, e, key

\* The native dictionary is what the serializer would write of the batch as it is.
BatchInv ==
  /\ dict \in [Indexes -> Items \cup {NoItem}]
  /\ KeysOf(dict) = {} => native = NoCell
  /\ KeysOf(dict) # {} => Converted(dict) \in Dicts(KeyLength) /\ native = Serialize(dict)

LEMMA AddStep ==
  ASSUME BatchInv, NEW i \in Indexes, NEW item \in Items, Add(i, item)
  PROVE  BatchInv'
<1> DEFINE x == Binary(i, KeyLength)
           c == Converted(dict)
           e == Converted(dict')
<1>0. KeyLength \in Nat /\ KeyLength \in 0..KeyLength BY KeyLengthAssumption
<1>1. /\ i \notin KeysOf(dict) /\ dict' = [dict EXCEPT ![i] = item]
      /\ native' = dict_set[KeyLength][native][x][item]
  BY DEF Add
<1>2. dict \in [Indexes -> Items \cup {NoItem}] BY DEF BatchInv
<1>3. dict' \in [Indexes -> Items \cup {NoItem}] /\ dict'[i] = item BY <1>1, <1>2
<1>4. item # NoItem BY ItemsAssumption
<1>5. i \in KeysOf(dict') BY <1>3, <1>4 DEF KeysOf
<1>6. dict[i] = NoItem BY <1>1, <1>2 DEF KeysOf
<1>7. x \in Keys(KeyLength) BY IndexIs
<1>8. /\ c \in [Keys(KeyLength) -> Items \cup {NoItem}] /\ c[x] = NoItem
      /\ \A k \in Keys(KeyLength) : c[k] # NoItem => \E j \in KeysOf(dict) : k = Binary(j, KeyLength)
  BY <1>2, <1>6, ConvertedIs
<1>9. e = With(c, x, item) BY <1>1, <1>2, ConvertedWith
<1> HIDE DEF x, c, e
<1>10. e \in Dicts(KeyLength) BY <1>0, <1>7, <1>8, <1>9, WithIs
<1>11. native' = WriteEdge[KeyLength][e]
  <2>1. CASE KeysOf(dict) = {}
    <3>1. native = NoCell BY <2>1 DEF BatchInv
    <3>2. c = [k \in Keys(KeyLength) |-> NoItem] BY <2>1, <1>8
    <3>3. dict_set[KeyLength][NoCell][x][item] = WriteEdge[KeyLength][With([k \in Keys(KeyLength) |-> NoItem], x, item)]
      BY <1>0, <1>7, SetFirst
    <3> QED BY <3>1, <3>2, <3>3, <1>1, <1>9
  <2>2. CASE KeysOf(dict) # {}
    <3>1. c \in Dicts(KeyLength) /\ native = WriteEdge[KeyLength][c] BY <2>2 DEF BatchInv, Serialize, c
    <3>2. dict_set[KeyLength][WriteEdge[KeyLength][c]][x][item] = WriteEdge[KeyLength][With(c, x, item)]
      BY <3>1, <1>0, <1>7, <1>8, SetInEdge
    <3> QED BY <3>1, <3>2, <1>1, <1>9
  <2> QED BY <2>1, <2>2
<1> QED BY <1>3, <1>5, <1>10, <1>11 DEF BatchInv, Serialize, e

LEMMA BatchInvariant == Spec => []BatchInv
<1>1. Init => BatchInv
  <2> SUFFICES ASSUME Init PROVE BatchInv
    OBVIOUS
  <2>1. dict = [i \in Indexes |-> NoItem] /\ native = NoCell BY DEF Init
  <2>2. KeysOf(dict) = {} BY <2>1 DEF KeysOf
  <2> QED BY <2>1, <2>2 DEF BatchInv
<1>2. BatchInv /\ [Next]_vars => BatchInv'
  <2> SUFFICES ASSUME BatchInv, [Next]_vars PROVE BatchInv'
    OBVIOUS
  <2>1. ASSUME NEW i \in Indexes, NEW item \in Items, Add(i, item) PROVE BatchInv'
    BY <2>1, AddStep
  <2>2. ASSUME NEW k \in Kinds, NEW t \in Texts, Write(k, t) PROVE BatchInv'
    BY <2>2 DEF BatchInv, Write, batchVars
  <2>3. CASE Read BY <2>3 DEF BatchInv, Read, batchVars
  <2>4. CASE UNCHANGED vars BY <2>4 DEF BatchInv, vars, batchVars
  <2> QED BY <2>1, <2>2, <2>3, <2>4 DEF Next
<1> QED BY <1>1, <1>2, PTL DEF Spec

\* For every length of keys and every batch, whatever the order of its items: the
\* cells of SerializeDict.cs are bit for bit those that the library's dictionary
\* makes when the items are set one by one (BuildEdge and WriteEdge; dict_set,
\* append_dict_label).
THEOREM SerializerIsNative == Spec => []SameAsNative
<1>1. BatchInv => SameAsNative BY DEF BatchInv, SameAsNative
<1> QED BY <1>1, BatchInvariant, PTL

\* For every length of keys and every batch: the library's lookup finds each item
\* under its index in what SerializeDict.cs wrote, and nothing under the other
\* indexes (lookup, LabelParser).
THEOREM EveryItemFound == Spec => []ItemsFound
<1>1. BatchInv => ItemsFound
  <2> SUFFICES ASSUME BatchInv, KeysOf(dict) # {}, NEW i \in Indexes
               PROVE  lookup[KeyLength][Serialize(dict)][Binary(i, KeyLength)] = dict[i]
    BY DEF ItemsFound
  <2> DEFINE x == Binary(i, KeyLength)
             c == Converted(dict)
  <2>1. KeyLength \in 0..KeyLength BY KeyLengthAssumption
  <2>2. x \in Keys(KeyLength) BY IndexIs
  <2>3. c \in Dicts(KeyLength) BY DEF BatchInv
  <2>4. c[x] = dict[i] BY ConvertedIs DEF BatchInv
  <2> HIDE DEF x, c
  <2>5. lookup[KeyLength][WriteEdge[KeyLength][c]][x] = c[x] BY <2>1, <2>2, <2>3, LookupInEdge
  <2> QED BY <2>4, <2>5 DEF x, c, Serialize
<1> QED BY <1>1, BatchInvariant, PTL
=============================================================================
