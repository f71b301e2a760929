--------------------------- MODULE CostQueryProofs ---------------------------
(***************************************************************************)
(* Proofs about CostQuery, for all bases, values, options and keys, any      *)
(* number of rows and queries and, but for KeyTellsApart, of levels of an    *)
(* expression.                                                              *)
(*                                                                         *)
(* Expressions and Go values are trees.  What a recursive function makes of *)
(* one is found by induction over its levels, with the set of the levels    *)
(* for which it holds in place of a predicate.                              *)
(***************************************************************************)
EXTENDS CostQuery, WellFoundedInduction, SequenceTheorems, FiniteSetTheorems, TLAPS

-----------------------------------------------------------------------------
(* Expressions and Go values, level by level.                              *)

\* Induction over the naturals, for a set in place of a predicate.
LEMMA NatSets ==
  ASSUME NEW S, 0 \in S, \A n \in Nat : n \in S => n + 1 \in S
  PROVE  \A n \in Nat : n \in S
<1> SUFFICES ASSUME Nat \ S # {} PROVE FALSE
  OBVIOUS
<1> DEFINE R == {ss \in Nat \X Nat : ss[1] < ss[2]}
           T == Nat \ S
<1>1. \E x \in T : \A y \in T : ~ (<<y, x>> \in R)
  <2>1. T \subseteq Nat /\ T # {}
    OBVIOUS
  <2>2. IsWellFoundedOn(R, Nat)
    BY NatLessThanWellFounded DEF OpToRel
  <2> HIDE DEF T, R
  <2> QED BY <2>1, <2>2, WFMin
<1>2. PICK x \in T : \A y \in T : ~(y < x)
  BY <1>1
<1>3. x # 0 /\ x - 1 \in Nat
  BY <1>2
<1>4. x - 1 \in S
  BY <1>2, <1>3
<1> QED BY <1>3, <1>4, <1>2

\* f gives the expressions of up to n levels.
Levels(n, f) == f = [k \in 0 .. n |-> ExpressionsOver(IF k = 0 THEN {} ELSE f[k - 1])]

\* The first level of it, and each from the one below.
LEMMA LevelsAre ==
  ASSUME NEW n \in Nat, NEW f, Levels(n, f), NEW k \in 0 .. n
  PROVE  f[k] = ExpressionsOver(IF k = 0 THEN {} ELSE f[k - 1])
<1> DEFINE e(g, j) == ExpressionsOver(IF j = 0 THEN {} ELSE g[j - 1])
<1>1. f = [j \in 0 .. n |-> e(f, j)]
  BY DEF Levels
<1>2. f[k] = e(f, k)
  <2> HIDE DEF e
  <2> QED BY <1>1
<1> QED BY <1>2

\* There is such a function for any number of levels ...
LEMMA LevelsExist ==
  ASSUME NEW n \in Nat
  PROVE  \E f : Levels(n, f)
<1> DEFINE S == {k \in Nat : \E f : Levels(k, f)}
<1>1. 0 \in S
  <2> DEFINE f == [k \in 0 .. 0 |-> ExpressionsOver({})]
  <2>1. f = [k \in 0 .. 0 |-> ExpressionsOver(IF k = 0 THEN {} ELSE f[k - 1])]
    <3>1. \A k \in 0 .. 0 : k = 0
      OBVIOUS
    <3>2. ASSUME NEW g PROVE [k \in 0 .. 0 |-> ExpressionsOver({})]
          = [k \in 0 .. 0 |-> ExpressionsOver(IF k = 0 THEN {} ELSE g[k - 1])]
      BY <3>1
    <3> QED BY <3>2
  <2>2. Levels(0, f)
    BY <2>1 DEF Levels
  <2> QED BY <2>2
<1>2. ASSUME NEW k \in Nat, k \in S PROVE k + 1 \in S
  <2>1. PICK f : Levels(k, f)
    BY <1>2
  <2> DEFINE g == [i \in 0 .. k + 1 |-> IF i = k + 1 THEN ExpressionsOver(f[k]) ELSE f[i]]
  <2>2. \A i \in 0 .. k + 1 : g[i] = IF i = k + 1 THEN ExpressionsOver(f[k]) ELSE f[i]
    OBVIOUS
  <2>3. g = [i \in 0 .. k + 1 |-> g[i]]
    OBVIOUS
  <2> HIDE DEF g
  <2>4. ASSUME NEW i \in 0 .. k + 1 PROVE g[i] = ExpressionsOver(IF i = 0 THEN {} ELSE g[i - 1])
    <3>1. CASE i = k + 1
      <4>1. i # 0 /\ i - 1 = k /\ k \in 0 .. k + 1 /\ k # k + 1
        BY <3>1
      <4>2. g[i - 1] = f[k]
        BY <4>1, <2>2
      <4> QED BY <4>1, <4>2, <3>1, <2>2
    <3>2. CASE i # k + 1
      <4>1. i \in 0 .. k
        BY <3>2
      <4>2. g[i] = f[i]
        BY <3>2, <2>2
      <4>3. f[i] = ExpressionsOver(IF i = 0 THEN {} ELSE f[i - 1])
        BY <4>1, <2>1, LevelsAre
      <4>4. ASSUME i # 0 PROVE g[i - 1] = f[i - 1]
        <5>1. i - 1 \in 0 .. k + 1 /\ i - 1 # k + 1
          BY <4>4
        <5> QED BY <5>1, <2>2
      <4> QED BY <4>2, <4>3, <4>4
    <3> QED BY <3>1, <3>2
  <2>5. [i \in 0 .. k + 1 |-> g[i]]
        = [i \in 0 .. k + 1 |-> ExpressionsOver(IF i = 0 THEN {} ELSE g[i - 1])]
    BY <2>4
  <2>6. Levels(k + 1, g)
    BY <2>3, <2>5 DEF Levels
  <2> QED BY <2>6
<1> HIDE DEF S
<1>3. \A k \in Nat : k \in S
  BY <1>1, <1>2, NatSets
<1> QED BY <1>3 DEF S

\* ... and any two agree as far as they go.
LEMMA LevelsAgree ==
  ASSUME NEW m \in Nat, NEW n \in Nat, NEW f, NEW g, Levels(m, f), Levels(n, g)
  PROVE  \A k \in Nat : k <= m /\ k <= n => f[k] = g[k]
<1> DEFINE S == {k \in Nat : k <= m /\ k <= n => f[k] = g[k]}
<1>1. 0 \in S
  <2>1. 0 \in 0 .. m /\ 0 \in 0 .. n
    OBVIOUS
  <2>2. f[0] = ExpressionsOver({}) /\ g[0] = ExpressionsOver({})
    BY <2>1, LevelsAre
  <2> QED BY <2>2
<1>2. ASSUME NEW k \in Nat, k \in S PROVE k + 1 \in S
  <2> SUFFICES ASSUME k + 1 <= m, k + 1 <= n PROVE f[k + 1] = g[k + 1]
    OBVIOUS
  <2>1. f[k] = g[k]
    BY <1>2
  <2>2. k + 1 \in 0 .. m /\ k + 1 \in 0 .. n /\ k + 1 # 0 /\ (k + 1) - 1 = k
    OBVIOUS
  <2>3. f[k + 1] = ExpressionsOver(IF k + 1 = 0 THEN {} ELSE f[(k + 1) - 1])
    BY <2>2, LevelsAre
  <2>4. g[k + 1] = ExpressionsOver(IF k + 1 = 0 THEN {} ELSE g[(k + 1) - 1])
    BY <2>2, LevelsAre
  <2> QED BY <2>1, <2>2, <2>3, <2>4
<1> HIDE DEF S
<1>3. \A k \in Nat : k \in S
  BY <1>1, <1>2, NatSets
<1> QED BY <1>3 DEF S

\* Expressions is what its definition says.
LEMMA ExpressionsAre ==
  \A n \in Nat : Expressions[n] = ExpressionsOver(IF n = 0 THEN {} ELSE Expressions[n - 1])
<1> DEFINE upTo(n) == CHOOSE f : Levels(n, f)
           F == [n \in Nat |-> upTo(n)[n]]
           body(G, n) == ExpressionsOver(IF n = 0 THEN {} ELSE G[n - 1])
<1>1. \A n \in Nat : Levels(n, upTo(n))
  BY LevelsExist
<1>2. ASSUME NEW n \in Nat PROVE F[n] = body(F, n)
  <2>1. F[n] = upTo(n)[n]
    OBVIOUS
  <2>2. upTo(n)[n] = ExpressionsOver(IF n = 0 THEN {} ELSE upTo(n)[n - 1])
    <3>1. n \in 0 .. n /\ Levels(n, upTo(n))
      BY <1>1
    <3> HIDE DEF upTo
    <3> QED BY <3>1, LevelsAre
  <2>3. ASSUME n # 0 PROVE upTo(n)[n - 1] = F[n - 1]
    <3>1. n - 1 \in Nat /\ n - 1 <= n /\ n - 1 <= n - 1
      BY <2>3
    <3>2. F[n - 1] = upTo(n - 1)[n - 1]
      BY <3>1
    <3>3. Levels(n, upTo(n)) /\ Levels(n - 1, upTo(n - 1))
      BY <3>1, <1>1
    <3>4. upTo(n)[n - 1] = upTo(n - 1)[n - 1]
      <4> HIDE DEF upTo
      <4> QED BY <3>1, <3>3, LevelsAgree
    <3> QED BY <3>2, <3>4
  <2> HIDE DEF F, upTo
  <2> QED BY <2>1, <2>2, <2>3
<1>3. F = [n \in Nat |-> F[n]]
  OBVIOUS
<1> HIDE DEF F
<1>4. F = [n \in Nat |-> body(F, n)]
  <2>1. [n \in Nat |-> F[n]] = [n \in Nat |-> body(F, n)]
    BY <1>2
  <2> QED BY <1>3, <2>1
<1>5. \E G : G = [n \in Nat |-> body(G, n)]
  BY <1>4
<1>6. Expressions = CHOOSE G : G = [n \in Nat |-> body(G, n)]
  BY DEF Expressions
<1>7. Expressions = [n \in Nat |-> body(Expressions, n)]
  BY <1>5, <1>6
<1>8. ASSUME NEW n \in Nat PROVE Expressions[n] = body(Expressions, n)
  <2> HIDE DEF body
  <2> QED BY <1>7
<1> QED BY <1>8

\* f gives the Go values of up to n levels.
Heights(n, f) == f = [k \in 0 .. n |-> GoValuesOver(IF k = 0 THEN {} ELSE f[k - 1])]

\* The first level of it, and each from the one below.
LEMMA HeightsAre ==
  ASSUME NEW n \in Nat, NEW f, Heights(n, f), NEW k \in 0 .. n
  PROVE  f[k] = GoValuesOver(IF k = 0 THEN {} ELSE f[k - 1])
<1> DEFINE e(g, j) == GoValuesOver(IF j = 0 THEN {} ELSE g[j - 1])
<1>1. f = [j \in 0 .. n |-> e(f, j)]
  BY DEF Heights
<1>2. f[k] = e(f, k)
  <2> HIDE DEF e
  <2> QED BY <1>1
<1> QED BY <1>2

\* There is such a function for any number of levels ...
LEMMA HeightsExist ==
  ASSUME NEW n \in Nat
  PROVE  \E f : Heights(n, f)
<1> DEFINE S == {k \in Nat : \E f : Heights(k, f)}
<1>1. 0 \in S
  <2> DEFINE f == [k \in 0 .. 0 |-> GoValuesOver({})]
  <2>1. f = [k \in 0 .. 0 |-> GoValuesOver(IF k = 0 THEN {} ELSE f[k - 1])]
    <3>1. \A k \in 0 .. 0 : k = 0
      OBVIOUS
    <3>2. ASSUME NEW g PROVE [k \in 0 .. 0 |-> GoValuesOver({})]
          = [k \in 0 .. 0 |-> GoValuesOver(IF k = 0 THEN {} ELSE g[k - 1])]
      BY <3>1
    <3> QED BY <3>2
  <2>2. Heights(0, f)
    BY <2>1 DEF Heights
  <2> QED BY <2>2
<1>2. ASSUME NEW k \in Nat, k \in S PROVE k + 1 \in S
  <2>1. PICK f : Heights(k, f)
    BY <1>2
  <2> DEFINE g == [i \in 0 .. k + 1 |-> IF i = k + 1 THEN GoValuesOver(f[k]) ELSE f[i]]
  <2>2. \A i \in 0 .. k + 1 : g[i] = IF i = k + 1 THEN GoValuesOver(f[k]) ELSE f[i]
    OBVIOUS
  <2>3. g = [i \in 0 .. k + 1 |-> g[i]]
    OBVIOUS
  <2> HIDE DEF g
  <2>4. ASSUME NEW i \in 0 .. k + 1 PROVE g[i] = GoValuesOver(IF i = 0 THEN {} ELSE g[i - 1])
    <3>1. CASE i = k + 1
      <4>1. i # 0 /\ i - 1 = k /\ k \in 0 .. k + 1 /\ k # k + 1
        BY <3>1
      <4>2. g[i - 1] = f[k]
        BY <4>1, <2>2
      <4> QED BY <4>1, <4>2, <3>1, <2>2
    <3>2. CASE i # k + 1
      <4>1. i \in 0 .. k
        BY <3>2
      <4>2. g[i] = f[i]
        BY <3>2, <2>2
      <4>3. f[i] = GoValuesOver(IF i = 0 THEN {} ELSE f[i - 1])
        BY <4>1, <2>1, HeightsAre
      <4>4. ASSUME i # 0 PROVE g[i - 1] = f[i - 1]
        <5>1. i - 1 \in 0 .. k + 1 /\ i - 1 # k + 1
          BY <4>4
        <5> QED BY <5>1, <2>2
      <4> QED BY <4>2, <4>3, <4>4
    <3> QED BY <3>1, <3>2
  <2>5. [i \in 0 .. k + 1 |-> g[i]]
        = [i \in 0 .. k + 1 |-> GoValuesOver(IF i = 0 THEN {} ELSE g[i - 1])]
    BY <2>4
  <2>6. Heights(k + 1, g)
    BY <2>3, <2>5 DEF Heights
  <2> QED BY <2>6
<1> HIDE DEF S
<1>3. \A k \in Nat : k \in S
  BY <1>1, <1>2, NatSets
<1> QED BY <1>3 DEF S

\* ... and any two agree as far as they go.
LEMMA HeightsAgree ==
  ASSUME NEW m \in Nat, NEW n \in Nat, NEW f, NEW g, Heights(m, f), Heights(n, g)
  PROVE  \A k \in Nat : k <= m /\ k <= n => f[k] = g[k]
<1> DEFINE S == {k \in Nat : k <= m /\ k <= n => f[k] = g[k]}
<1>1. 0 \in S
  <2>1. 0 \in 0 .. m /\ 0 \in 0 .. n
    OBVIOUS
  <2>2. f[0] = GoValuesOver({}) /\ g[0] = GoValuesOver({})
    BY <2>1, HeightsAre
  <2> QED BY <2>2
<1>2. ASSUME NEW k \in Nat, k \in S PROVE k + 1 \in S
  <2> SUFFICES ASSUME k + 1 <= m, k + 1 <= n PROVE f[k + 1] = g[k + 1]
    OBVIOUS
  <2>1. f[k] = g[k]
    BY <1>2
  <2>2. k + 1 \in 0 .. m /\ k + 1 \in 0 .. n /\ k + 1 # 0 /\ (k + 1) - 1 = k
    OBVIOUS
  <2>3. f[k + 1] = GoValuesOver(IF k + 1 = 0 THEN {} ELSE f[(k + 1) - 1])
    BY <2>2, HeightsAre
  <2>4. g[k + 1] = GoValuesOver(IF k + 1 = 0 THEN {} ELSE g[(k + 1) - 1])
    BY <2>2, HeightsAre
  <2> QED BY <2>1, <2>2, <2>3, <2>4
<1> HIDE DEF S
<1>3. \A k \in Nat : k \in S
  BY <1>1, <1>2, NatSets
<1> QED BY <1>3 DEF S

\* GoValues is what its definition says.
LEMMA GoValuesAre ==
  \A n \in Nat : GoValues[n] = GoValuesOver(IF n = 0 THEN {} ELSE GoValues[n - 1])
<1> DEFINE upTo(n) == CHOOSE f : Heights(n, f)
           F == [n \in Nat |-> upTo(n)[n]]
           body(G, n) == GoValuesOver(IF n = 0 THEN {} ELSE G[n - 1])
<1>1. \A n \in Nat : Heights(n, upTo(n))
  BY HeightsExist
<1>2. ASSUME NEW n \in Nat PROVE F[n] = body(F, n)
  <2>1. F[n] = upTo(n)[n]
    OBVIOUS
  <2>2. upTo(n)[n] = GoValuesOver(IF n = 0 THEN {} ELSE upTo(n)[n - 1])
    <3>1. n \in 0 .. n /\ Heights(n, upTo(n))
      BY <1>1
    <3> HIDE DEF upTo
    <3> QED BY <3>1, HeightsAre
  <2>3. ASSUME n # 0 PROVE upTo(n)[n - 1] = F[n - 1]
    <3>1. n - 1 \in Nat /\ n - 1 <= n /\ n - 1 <= n - 1
      BY <2>3
    <3>2. F[n - 1] = upTo(n - 1)[n - 1]
      BY <3>1
    <3>3. Heights(n, upTo(n)) /\ Heights(n - 1, upTo(n - 1))
      BY <3>1, <1>1
    <3>4. upTo(n)[n - 1] = upTo(n - 1)[n - 1]
      <4> HIDE DEF upTo
      <4> QED BY <3>1, <3>3, HeightsAgree
    <3> QED BY <3>2, <3>4
  <2> HIDE DEF F, upTo
  <2> QED BY <2>1, <2>2, <2>3
<1>3. F = [n \in Nat |-> F[n]]
  OBVIOUS
<1> HIDE DEF F
<1>4. F = [n \in Nat |-> body(F, n)]
  <2>1. [n \in Nat |-> F[n]] = [n \in Nat |-> body(F, n)]
    BY <1>2
  <2> QED BY <1>3, <2>1
<1>5. \E G : G = [n \in Nat |-> body(G, n)]
  BY <1>4
<1>6. GoValues = CHOOSE G : G = [n \in Nat |-> body(G, n)]
  BY DEF GoValues
<1>7. GoValues = [n \in Nat |-> body(GoValues, n)]
  BY <1>5, <1>6
<1>8. ASSUME NEW n \in Nat PROVE GoValues[n] = body(GoValues, n)
  <2> HIDE DEF body
  <2> QED BY <1>7
<1> QED BY <1>8

-----------------------------------------------------------------------------
(* NonNil, the sequence of what is not nil.                                *)

\* What the loop has after an entry e, from what it had before.
Keep(before, e) == IF e = NoExpression THEN before ELSE Append(before, e)

\* f is the recursive function of NonNil for the first n entries.
Kept(exprs, n, f) ==
  f = [k \in 0 .. n |-> IF k = 0 THEN <<>> ELSE Keep(f[k - 1], exprs[k])]

\* It begins with nothing and goes on entry by entry.
LEMMA KeptIs ==
  ASSUME NEW exprs, NEW n \in Nat, NEW f, Kept(exprs, n, f), NEW k \in 0 .. n
  PROVE  f[k] = IF k = 0 THEN <<>> ELSE Keep(f[k - 1], exprs[k])
<1> DEFINE e(g, j) == IF j = 0 THEN <<>> ELSE Keep(g[j - 1], exprs[j])
<1>1. f = [j \in 0 .. n |-> e(f, j)]
  BY DEF Kept
<1>2. f[k] = e(f, k)
  <2> HIDE DEF e
  <2> QED BY <1>1
<1> QED BY <1>2

\* There is such a function.
LEMMA KeptExists ==
  ASSUME NEW exprs, NEW n \in Nat
  PROVE  \E f : Kept(exprs, n, f)
<1> DEFINE S == {k \in Nat : \E f : Kept(exprs, k, f)}
<1>1. 0 \in S
  <2> DEFINE f == [k \in 0 .. 0 |-> <<>>]
  <2>1. f = [k \in 0 .. 0 |-> IF k = 0 THEN <<>> ELSE Keep(f[k - 1], exprs[k])]
    <3>1. \A k \in 0 .. 0 : k = 0
      OBVIOUS
    <3>2. ASSUME NEW g
          PROVE [k \in 0 .. 0 |-> <<>>]
                  = [k \in 0 .. 0 |-> IF k = 0 THEN <<>> ELSE Keep(g[k - 1], exprs[k])]
      BY <3>1
    <3> QED BY <3>2
  <2>2. Kept(exprs, 0, f)
    BY <2>1 DEF Kept
  <2> QED BY <2>2
<1>2. ASSUME NEW k \in Nat, k \in S PROVE k + 1 \in S
  <2>1. PICK f : Kept(exprs, k, f)
    BY <1>2
  <2> DEFINE last == Keep(f[k], exprs[k + 1])
             g == [i \in 0 .. k + 1 |-> IF i = k + 1 THEN last ELSE f[i]]
  <2>2. \A i \in 0 .. k + 1 : g[i] = IF i = k + 1 THEN last ELSE f[i]
    OBVIOUS
  <2>3. g = [i \in 0 .. k + 1 |-> g[i]]
    OBVIOUS
  <2> HIDE DEF g
  <2>4. ASSUME NEW i \in 0 .. k + 1
        PROVE  g[i] = IF i = 0 THEN <<>> ELSE Keep(g[i - 1], exprs[i])
    <3>1. CASE i = k + 1
      <4>1. i # 0 /\ i - 1 = k /\ k \in 0 .. k + 1 /\ k # k + 1
        BY <3>1
      <4>2. g[i - 1] = f[k]
        BY <4>1, <2>2
      <4> QED BY <4>1, <4>2, <3>1, <2>2
    <3>2. CASE i # k + 1
      <4>1. i \in 0 .. k
        BY <3>2
      <4>2. g[i] = f[i]
        BY <3>2, <2>2
      <4>3. f[i] = IF i = 0 THEN <<>> ELSE Keep(f[i - 1], exprs[i])
        BY <4>1, <2>1, KeptIs
      <4>4. ASSUME i # 0 PROVE g[i - 1] = f[i - 1]
        <5>1. i - 1 \in 0 .. k + 1 /\ i - 1 # k + 1
          BY <4>4
        <5> QED BY <5>1, <2>2
      <4> QED BY <4>2, <4>3, <4>4
    <3> QED BY <3>1, <3>2
  <2>5. [i \in 0 .. k + 1 |-> g[i]]
          = [i \in 0 .. k + 1 |-> IF i = 0 THEN <<>> ELSE Keep(g[i - 1], exprs[i])]
    BY <2>4
  <2>6. Kept(exprs, k + 1, g)
    BY <2>3, <2>5 DEF Kept
  <2> QED BY <2>6
<1> HIDE DEF S
<1>3. \A k \in Nat : k \in S
  BY <1>1, <1>2, NatSets
<1> QED BY <1>3 DEF S

\* What an append adds to the elements.
LEMMA RangeAppend ==
  ASSUME NEW S, NEW s \in Seq(S), NEW e \in S
  PROVE  Range(Append(s, e)) = Range(s) \cup {e}
<1>1. Append(s, e) = s \o <<e>> /\ <<e>> \in Seq(S)
  BY AppendIsConcat
<1>2. Range(<<e>>) = {e}
  <2>1. Range(<<e>>) = {<<e>>[i] : i \in 1 .. 1}
    BY DEF Range
  <2>2. <<e>>[1] = e /\ 1 .. 1 = {1}
    OBVIOUS
  <2> QED BY <2>1, <2>2
<1>3. Range(s \o <<e>>) = Range(s) \cup Range(<<e>>)
  BY <1>1, RangeConcatenation, ZenonT(20)
<1> QED BY <1>1, <1>2, <1>3

\* What the loop has after k entries.
LEMMA KeptHolds ==
  ASSUME NEW S, NEW exprs \in Seq(S), NEW f, Kept(exprs, Len(exprs), f)
  PROVE  \A k \in Nat : k <= Len(exprs) =>
           /\ f[k] \in Seq(S \ {NoExpression})
           /\ Range(f[k]) = {exprs[i] : i \in 1 .. k} \ {NoExpression}
<1> DEFINE T == {k \in Nat : k <= Len(exprs) =>
                   /\ f[k] \in Seq(S \ {NoExpression})
                   /\ Range(f[k]) = {exprs[i] : i \in 1 .. k} \ {NoExpression}}
<1>0. Len(exprs) \in Nat /\ \A i \in 1 .. Len(exprs) : exprs[i] \in S
  BY LenProperties, ElementOfSeq
<1>1. 0 \in T
  <2>1. f[0] = <<>>
    <3>1. 0 \in 0 .. Len(exprs)
      BY <1>0
    <3> QED BY <3>1, <1>0, KeptIs
  <2>2. Range(<<>>) = {} /\ {exprs[i] : i \in 1 .. 0} = {}
    BY DEF Range
  <2>3. <<>> \in Seq(S \ {NoExpression})
    BY EmptySeq
  <2> QED BY <2>1, <2>2, <2>3
<1>2. ASSUME NEW k \in Nat, k \in T PROVE k + 1 \in T
  <2> SUFFICES ASSUME k + 1 <= Len(exprs)
               PROVE  /\ f[k + 1] \in Seq(S \ {NoExpression})
                      /\ Range(f[k + 1]) = {exprs[i] : i \in 1 .. k + 1} \ {NoExpression}
    OBVIOUS
  <2>1. /\ f[k] \in Seq(S \ {NoExpression})
        /\ Range(f[k]) = {exprs[i] : i \in 1 .. k} \ {NoExpression}
    BY <1>0, <1>2
  <2>2. f[k + 1] = Keep(f[k], exprs[k + 1])
    <3>1. k + 1 \in 0 .. Len(exprs) /\ k + 1 # 0 /\ (k + 1) - 1 = k
      BY <1>0
    <3>2. f[k + 1] = IF k + 1 = 0 THEN <<>> ELSE Keep(f[(k + 1) - 1], exprs[k + 1])
      BY <3>1, <1>0, KeptIs
    <3> QED BY <3>1, <3>2
  <2>3. {exprs[i] : i \in 1 .. k + 1} = {exprs[i] : i \in 1 .. k} \cup {exprs[k + 1]}
    <3>1. 1 .. k + 1 = 1 .. k \cup {k + 1}
      OBVIOUS
    <3> QED BY <3>1
  <2>4. exprs[k + 1] \in S
    BY <1>0
  <2>5. CASE exprs[k + 1] = NoExpression
    BY <2>1, <2>2, <2>3, <2>5 DEF Keep
  <2>6. CASE exprs[k + 1] # NoExpression
    <3>1. f[k + 1] = Append(f[k], exprs[k + 1]) /\ exprs[k + 1] \in S \ {NoExpression}
      BY <2>2, <2>4, <2>6 DEF Keep
    <3>2. Range(f[k + 1]) = Range(f[k]) \cup {exprs[k + 1]}
      <4> DEFINE U == S \ {NoExpression}
                 s == f[k]
                 e == exprs[k + 1]
      <4>1. s \in Seq(U) /\ e \in U
        BY <2>1, <3>1
      <4> HIDE DEF U, s, e
      <4>2. Range(Append(s, e)) = Range(s) \cup {e}
        BY <4>1, RangeAppend
      <4> QED BY <3>1, <4>2 DEF s, e
    <3>3. f[k + 1] \in Seq(S \ {NoExpression})
      BY <2>1, <3>1, AppendProperties
    <3> QED BY <2>1, <2>3, <2>6, <3>2, <3>3
  <2> QED BY <2>5, <2>6
<1> HIDE DEF T
<1>3. \A k \in Nat : k \in T
  BY <1>1, <1>2, NatSets
<1> QED BY <1>3 DEF T

\* NonNil keeps what is not nil and nothing else.
LEMMA NonNilHolds ==
  ASSUME NEW S, NEW exprs \in Seq(S)
  PROVE  /\ NonNil(exprs) \in Seq(S \ {NoExpression})
         /\ Range(NonNil(exprs)) = Range(exprs) \ {NoExpression}
<1> DEFINE F == CHOOSE f : f = [k \in 0 .. Len(exprs) |->
                  IF k = 0 THEN <<>>
                  ELSE IF exprs[k] = NoExpression THEN f[k - 1]
                  ELSE Append(f[k - 1], exprs[k])]
<1>1. Len(exprs) \in Nat
  BY LenProperties
<1>2. ASSUME NEW f
      PROVE  Kept(exprs, Len(exprs), f) <=>
               f = [k \in 0 .. Len(exprs) |->
                      IF k = 0 THEN <<>>
                      ELSE IF exprs[k] = NoExpression THEN f[k - 1]
                      ELSE Append(f[k - 1], exprs[k])]
  BY DEF Kept, Keep
<1>3. \E f : Kept(exprs, Len(exprs), f)
  BY <1>1, KeptExists
<1>4. Kept(exprs, Len(exprs), F)
  BY <1>2, <1>3
<1>5. NonNil(exprs) = F[Len(exprs)]
  BY DEF NonNil
<1> HIDE DEF F
<1>6. /\ F[Len(exprs)] \in Seq(S \ {NoExpression})
      /\ Range(F[Len(exprs)]) = {exprs[i] : i \in 1 .. Len(exprs)} \ {NoExpression}
  <2>1. Len(exprs) <= Len(exprs)
    BY <1>1
  <2>2. \A k \in Nat : k <= Len(exprs) =>
           /\ F[k] \in Seq(S \ {NoExpression})
           /\ Range(F[k]) = {exprs[i] : i \in 1 .. k} \ {NoExpression}
    BY <1>4, KeptHolds, ZenonT(20)
  <2> QED BY <1>1, <2>1, <2>2
<1> QED BY <1>5, <1>6, RangeEquality

-----------------------------------------------------------------------------
(* SetToSeq, the order in which the keys of a map are taken.                *)

\* A finite set as a sequence has all its elements and no others.
LEMMA SetAsSeq ==
  ASSUME NEW S, IsFiniteSet(S)
  PROVE  SetToSeq(S) \in Seq(S) /\ Range(SetToSeq(S)) = S
<1> DEFINE n == Cardinality(S)
           f == SetToSeq(S)
<1>1. n \in Nat /\ ExistsBijection(1 .. n, S)
  BY FS_CardinalityType
<1>2. \E g \in [1 .. n -> S] : IsInjective(g)
  <2>1. PICK g \in Bijection(1 .. n, S) : TRUE
    BY <1>1 DEF ExistsBijection
  <2> QED BY <2>1 DEF Bijection, Injection, IsInjective
<1>3. f \in [1 .. n -> S] /\ IsInjective(f)
  BY <1>2 DEF SetToSeq
<1> HIDE DEF f
<1>4. f \in Seq(S)
  BY <1>1, <1>3
<1>5. S \subseteq Range(f)
  <2> SUFFICES ASSUME NEW x \in S, x \notin Range(f) PROVE FALSE
    OBVIOUS
  <2>1. IsFiniteSet(S \ {x}) /\ Cardinality(S \ {x}) = n - 1
    BY FS_RemoveElement
  <2>2. IsFiniteSet(1 .. n) /\ Cardinality(1 .. n) = n
    <3>1. 1 \in Int /\ n \in Int /\ (1 > n => n = 0)
      BY <1>1
    <3> HIDE DEF n
    <3>2. IsFiniteSet(1 .. n) /\ Cardinality(1 .. n) = IF 1 > n THEN 0 ELSE n - 1 + 1
      BY <3>1, FS_Interval
    <3> QED BY <3>1, <3>2
  <2>3. f \in [1 .. n -> S \ {x}]
    BY <1>3 DEF Range
  <2>4. \E i, j \in 1 .. n : i # j /\ f[i] = f[j]
    <3>1. n - 1 < n
      BY <1>1
    <3> HIDE DEF n
    <3> QED BY <2>1, <2>2, <2>3, <3>1, FS_PigeonHole
  <2> QED BY <2>4, <1>3 DEF IsInjective
<1>6. Range(f) \subseteq S
  BY <1>3 DEF Range
<1> QED BY <1>4, <1>5, <1>6 DEF f

-----------------------------------------------------------------------------
(* Expressions.                                                            *)

\* An expression over inner ones is nothing, a leaf, or a node of inner ones.
LEMMA Shapes ==
  ASSUME NEW inner, NEW e \in ExpressionsOver(inner)
  PROVE  \/ e = NoExpression
         \/ e \in Leaves
         \/ /\ e = Node("Not", e.children)
            /\ e.children \in Seq(inner \ {NoExpression}) /\ Len(e.children) = 1
         \/ /\ e = Node("And", e.children) \/ e = Node("Or", e.children)
            /\ e.children \in Seq(inner \ {NoExpression}) /\ Len(e.children) > 1
<1>1. CASE e = NoExpression \/ e \in Leaves
  BY <1>1
<1>2. CASE e \in Nodes({"Not"}, {s \in Seq(inner \ {NoExpression}) : Len(s) = 1})
  BY <1>2 DEF Nodes, Node
<1>3. CASE e \in Nodes({"And", "Or"}, {s \in Seq(inner \ {NoExpression}) : Len(s) > 1})
  BY <1>3 DEF Nodes, Node
<1> QED BY <1>1, <1>2, <1>3 DEF ExpressionsOver

\* A node of inner expressions is an expression over them.
LEMMA NodesAre ==
  ASSUME NEW inner, NEW s \in Seq(inner \ {NoExpression})
  PROVE  /\ Len(s) = 1 => Node("Not", s) \in ExpressionsOver(inner)
         /\ Len(s) > 1 => /\ Node("And", s) \in ExpressionsOver(inner)
                          /\ Node("Or", s) \in ExpressionsOver(inner)
<1>1. Len(s) = 1 =>
        Node("Not", s) \in Nodes({"Not"}, {t \in Seq(inner \ {NoExpression}) : Len(t) = 1})
  BY DEF Nodes, Node
<1>2. Len(s) > 1 =>
        /\ Node("And", s) \in Nodes({"And", "Or"}, {t \in Seq(inner \ {NoExpression}) : Len(t) > 1})
        /\ Node("Or", s) \in Nodes({"And", "Or"}, {t \in Seq(inner \ {NoExpression}) : Len(t) > 1})
  BY DEF Nodes, Node
<1> QED BY <1>1, <1>2 DEF ExpressionsOver

\* The operator of each shape, and the children of what has none.
LEMMA Operators ==
  /\ NoExpression.op = "nil" /\ NoExpression.children = <<>>
  /\ \A e \in Leaves : e.op = "leaf" /\ e.children = <<>>
  /\ \A op, s : Node(op, s).op = op /\ Node(op, s).children = s
BY DEF NoExpression, Node, Leaves

\* The parts of an expression.
LEMMA ChildrenAre ==
  ASSUME NEW inner, NEW e \in ExpressionsOver(inner)
  PROVE  \/ e = NoExpression
         \/ e \in Leaves
         \/ /\ e.op \in {"Not", "And", "Or"} /\ e = Node(e.op, e.children)
            /\ e.children \in Seq(inner) /\ e.children # <<>>
            /\ e.op = "Not" => Len(e.children) = 1
            /\ DOMAIN e.children = 1 .. Len(e.children) /\ Len(e.children) \in Nat
            /\ 1 \in DOMAIN e.children
            /\ \A i \in DOMAIN e.children : e.children[i] \in inner
<1> SUFFICES ASSUME e # NoExpression, e \notin Leaves
             PROVE  /\ e.op \in {"Not", "And", "Or"} /\ e = Node(e.op, e.children)
                    /\ e.children \in Seq(inner) /\ e.children # <<>>
                    /\ e.op = "Not" => Len(e.children) = 1
                    /\ DOMAIN e.children = 1 .. Len(e.children) /\ Len(e.children) \in Nat
                    /\ 1 \in DOMAIN e.children
                    /\ \A i \in DOMAIN e.children : e.children[i] \in inner
  OBVIOUS
<1>1. /\ \E op \in {"Not", "And", "Or"} : e = Node(op, e.children)
      /\ e.children \in Seq(inner \ {NoExpression}) /\ Len(e.children) >= 1
      /\ \/ e = Node("Not", e.children) /\ Len(e.children) = 1
         \/ e = Node("And", e.children)
         \/ e = Node("Or", e.children)
  <2>1. \A n : n = 1 \/ (n \in Nat /\ n > 1) => n >= 1
    OBVIOUS
  <2>2. e.children \in Seq(inner \ {NoExpression})
    BY Shapes
  <2>3. Len(e.children) \in Nat
    BY <2>2, LenProperties
  <2> QED BY <2>1, <2>2, <2>3, Shapes
<1>2. e.op \in {"Not", "And", "Or"} /\ e = Node(e.op, e.children)
  <2>1. PICK op \in {"Not", "And", "Or"} : e = Node(op, e.children)
    BY <1>1
  <2>2. Node(op, e.children).op = op
    BY Operators
  <2> QED BY <2>1, <2>2
<1>3. e.op = "Not" => Len(e.children) = 1
  <2>1. Node("And", e.children).op = "And" /\ Node("Or", e.children).op = "Or"
    BY Operators
  <2> QED BY <1>1, <2>1
<1>4. /\ e.children \in Seq(inner) /\ e.children # <<>>
      /\ DOMAIN e.children = 1 .. Len(e.children) /\ Len(e.children) \in Nat
  <2>1. e.children \in Seq(inner)
    BY <1>1, SeqMonotonic
  <2>2. DOMAIN e.children = 1 .. Len(e.children) /\ Len(e.children) \in Nat
    BY <2>1, LenProperties
  <2>3. Len(<<>>) = 0
    OBVIOUS
  <2>4. e.children # <<>>
    BY <1>1, <2>2, <2>3
  <2> QED BY <2>1, <2>2, <2>4
<1>5. 1 \in DOMAIN e.children
  BY <1>1, <1>4
<1>6. \A i \in DOMAIN e.children : e.children[i] \in inner
  BY <1>4, ElementOfSeq
<1> QED BY <1>2, <1>3, <1>4, <1>5, <1>6

\* More inner expressions, more expressions.
LEMMA OverGrows ==
  ASSUME NEW A, NEW B, A \subseteq B
  PROVE  ExpressionsOver(A) \subseteq ExpressionsOver(B)
<1> SUFFICES ASSUME NEW e \in ExpressionsOver(A) PROVE e \in ExpressionsOver(B)
  OBVIOUS
<1>1. CASE e = NoExpression \/ e \in Leaves
  BY <1>1 DEF ExpressionsOver
<1>2. CASE ~(e = NoExpression \/ e \in Leaves)
  <2>1. \/ e = Node("Not", e.children) /\ Len(e.children) = 1
        \/ (e = Node("And", e.children) \/ e = Node("Or", e.children)) /\ Len(e.children) > 1
    BY <1>2, Shapes
  <2>2. e.children \in Seq(A \ {NoExpression})
    BY <1>2, Shapes
  <2>3. e.children \in Seq(B \ {NoExpression})
    BY <2>2, SeqMonotonic
  <2> QED BY <2>1, <2>3, NodesAre
<1> QED BY <1>1, <1>2

\* Each level has all of those below.
LEMMA ExpressionsGrow ==
  ASSUME NEW m \in Nat, NEW n \in Nat, m <= n
  PROVE  Expressions[m] \subseteq Expressions[n]
<1> DEFINE below(k) == IF k = 0 THEN {} ELSE Expressions[k - 1]
           S == {k \in Nat : Expressions[k] \subseteq Expressions[k + 1]}
           T == {k \in Nat : Expressions[m] \subseteq Expressions[m + k]}
<1>0. \A k \in Nat : Expressions[k] = ExpressionsOver(below(k))
  BY ExpressionsAre
<1>1. 0 \in S
  <2>1. below(0) \subseteq below(1)
    OBVIOUS
  <2>2. Expressions[0] = ExpressionsOver(below(0)) /\ Expressions[1] = ExpressionsOver(below(1))
    BY <1>0
  <2> HIDE DEF below
  <2>3. Expressions[0] \subseteq Expressions[1]
    BY <2>1, <2>2, OverGrows
  <2> QED BY <2>3
<1>2. ASSUME NEW k \in Nat, k \in S PROVE k + 1 \in S
  <2>1. below(k + 1) \subseteq below((k + 1) + 1)
    <3>1. k + 1 # 0 /\ (k + 1) + 1 # 0 /\ (k + 1) - 1 = k /\ ((k + 1) + 1) - 1 = k + 1
      OBVIOUS
    <3>2. below(k + 1) = Expressions[k] /\ below((k + 1) + 1) = Expressions[k + 1]
      BY <3>1
    <3> QED BY <3>2, <1>2
  <2>2. /\ Expressions[k + 1] = ExpressionsOver(below(k + 1))
        /\ Expressions[(k + 1) + 1] = ExpressionsOver(below((k + 1) + 1))
    BY <1>0
  <2> HIDE DEF below
  <2>3. Expressions[k + 1] \subseteq Expressions[(k + 1) + 1]
    BY <2>1, <2>2, OverGrows
  <2> QED BY <2>3
<1> HIDE DEF S
<1>3. \A k \in Nat : k \in S
  BY <1>1, <1>2, NatSets
<1>4. 0 \in T
  BY m + 0 = m
<1>5. ASSUME NEW k \in Nat, k \in T PROVE k + 1 \in T
  <2>1. m + k \in S
    BY <1>3
  <2>2. (m + k) + 1 = m + (k + 1)
    OBVIOUS
  <2>3. Expressions[m + k] \subseteq Expressions[m + (k + 1)]
    BY <2>1, <2>2 DEF S
  <2> QED BY <2>3, <1>5
<1> HIDE DEF T
<1>6. \A k \in Nat : k \in T
  BY <1>4, <1>5, NatSets
<1>7. n - m \in Nat /\ m + (n - m) = n
  OBVIOUS
<1>8. n - m \in T
  BY <1>6, <1>7
<1> QED BY <1>7, <1>8 DEF T

-----------------------------------------------------------------------------
(* Matches, what an expression selects.                                    *)

\* f is the recursive function of Matches.
Selecting(f, line) ==
  f = [x \in Expressions[MaxNesting] |-> Selected(f, x, line)]

\* Whether an expression selects a line depends on its children alone.
LEMMA SelectedByChildren ==
  ASSUME NEW inner, NEW x \in ExpressionsOver(inner), NEW line, NEW f, NEW g,
         \A y \in inner : f[y] = g[y]
  PROVE  Selected(f, x, line) = Selected(g, x, line)
<1>1. CASE x = NoExpression \/ x \in Leaves
  <2>1. x.op = "nil" \/ x.op = "leaf"
    BY <1>1, Operators
  <2> QED BY <2>1 DEF Selected
<1>2. CASE ~(x = NoExpression \/ x \in Leaves)
  <2>1. /\ x.op \in {"Not", "And", "Or"} /\ 1 \in DOMAIN x.children
        /\ \A i \in DOMAIN x.children : x.children[i] \in inner
    BY <1>2, ChildrenAre
  <2>2. \A i \in DOMAIN x.children : f[x.children[i]] = g[x.children[i]]
    BY <2>1
  <2> QED BY <2>1, <2>2 DEF Selected
<1> QED BY <1>1, <1>2

\* There is such a function.
LEMMA SelectsExists ==
  ASSUME NEW line
  PROVE  \E f : Selecting(f, line)
<1> DEFINE D == Expressions[MaxNesting]
           S == {k \in Nat : k <= MaxNesting =>
                   \E f : /\ f = [x \in D |-> f[x]]
                          /\ \A x \in Expressions[k] : f[x] = Selected(f, x, line)}
<1>0. MaxNesting \in Nat
  BY CostAssumption
<1>a. \A k \in Nat : k <= MaxNesting => Expressions[k] \subseteq D
  BY <1>0, ExpressionsGrow
<1>b. ASSUME NEW h, NEW g, g = [x \in D |-> Selected(h, x, line)]
      PROVE  g = [x \in D |-> g[x]] /\ \A x \in D : g[x] = Selected(h, x, line)
  BY <1>b
<1>1. 0 \in S
  <2> DEFINE g == [x \in D |-> Selected(line, x, line)]
  <2>1. g = [x \in D |-> g[x]] /\ \A x \in D : g[x] = Selected(line, x, line)
    OBVIOUS
  <2> HIDE DEF g
  <2>2. ASSUME NEW x \in Expressions[0] PROVE g[x] = Selected(g, x, line)
    <3>1. x \in D
      BY <1>a, <1>0
    <3>2. x \in ExpressionsOver({})
      BY ExpressionsAre
    <3>3. Selected(line, x, line) = Selected(g, x, line)
      BY <3>2, SelectedByChildren
    <3> QED BY <2>1, <3>1, <3>3
  <2> QED BY <2>1, <2>2
<1>2. ASSUME NEW k \in Nat, k \in S PROVE k + 1 \in S
  <2> SUFFICES ASSUME k + 1 <= MaxNesting
               PROVE  \E f : /\ f = [x \in D |-> f[x]]
                             /\ \A x \in Expressions[k + 1] : f[x] = Selected(f, x, line)
    OBVIOUS
  <2>1. PICK f : \A x \in Expressions[k] : f[x] = Selected(f, x, line)
    BY <1>2, <1>0
  <2> DEFINE g == [x \in D |-> Selected(f, x, line)]
  <2>2. g = [x \in D |-> g[x]] /\ \A x \in D : g[x] = Selected(f, x, line)
    OBVIOUS
  <2> HIDE DEF g
  <2>3. \A y \in Expressions[k] : f[y] = g[y]
    BY <2>1, <2>2, <1>a, <1>0
  <2>4. ASSUME NEW x \in Expressions[k + 1] PROVE g[x] = Selected(g, x, line)
    <3>1. x \in D
      BY <1>a, <1>0
    <3>2. x \in ExpressionsOver(Expressions[k])
      <4>1. k + 1 # 0 /\ (k + 1) - 1 = k
        OBVIOUS
      <4> QED BY <4>1, ExpressionsAre
    <3>3. Selected(f, x, line) = Selected(g, x, line)
      BY <2>3, <3>2, SelectedByChildren
    <3> QED BY <2>2, <3>1, <3>3
  <2> QED BY <2>2, <2>4
<1> HIDE DEF S
<1>3. MaxNesting \in S
  BY <1>0, <1>1, <1>2, NatSets
<1>4. PICK f : f = [x \in D |-> f[x]] /\ \A x \in D : f[x] = Selected(f, x, line)
  BY <1>0, <1>3 DEF S
<1>5. [x \in D |-> f[x]] = [x \in D |-> Selected(f, x, line)]
  BY <1>4
<1> QED BY <1>4, <1>5 DEF Selecting

\* Matches is what its definition says, one expression after the other.
LEMMA MatchesIs ==
  ASSUME NEW line
  PROVE  \E f : /\ \A x \in Expressions[MaxNesting] : f[x] = Selected(f, x, line)
                /\ \A x : Matches(x, line) = f[x]
<1> DEFINE F == CHOOSE f : f = [x \in Expressions[MaxNesting] |-> Selected(f, x, line)]
<1>1. Selecting(F, line)
  BY SelectsExists DEF Selecting
<1>2. \A x : Matches(x, line) = F[x]
  BY DEF Matches
<1> HIDE DEF F
<1>3. \A x \in Expressions[MaxNesting] : F[x] = Selected(F, x, line)
  <2> DEFINE e(g, x) == Selected(g, x, line)
  <2>1. F = [x \in Expressions[MaxNesting] |-> e(F, x)]
    BY <1>1 DEF Selecting
  <2> HIDE DEF e
  <2>2. \A x \in Expressions[MaxNesting] : F[x] = e(F, x)
    BY <2>1
  <2> QED BY <2>2 DEF e
<1> QED BY <1>2, <1>3

\* Nothing selects every line.
LEMMA MatchesNothing ==
  ASSUME NEW line, NoExpression \in Expressions[MaxNesting]
  PROVE  Matches(NoExpression, line)
<1>1. PICK f : /\ \A x \in Expressions[MaxNesting] : f[x] = Selected(f, x, line)
               /\ \A x : Matches(x, line) = f[x]
  BY MatchesIs
<1>2. Selected(f, NoExpression, line) = TRUE
  BY Operators DEF Selected
<1> QED BY <1>1, <1>2

\* What a leaf selects.
LEMMA MatchesLeaf ==
  ASSUME NEW line, NEW e \in Leaves, e \in Expressions[MaxNesting]
  PROVE  Matches(e, line) <=> LeafMatches(e, line)
<1>1. e.op = "leaf"
  BY Operators
<1>2. Matches(e, line) = LeafMatches(e, line)
  BY <1>1, MatchesIs DEF Selected
<1> QED BY <1>2

\* A Not selects what its child does not.
LEMMA MatchesNot ==
  ASSUME NEW line, NEW e, Node("Not", <<e>>) \in Expressions[MaxNesting]
  PROVE  Matches(Node("Not", <<e>>), line) <=> ~Matches(e, line)
<1> DEFINE x == Node("Not", <<e>>)
<1>1. x.op = "Not" /\ x.children[1] = e
  BY Operators
<1> HIDE DEF x
<1>2. PICK f : /\ \A y \in Expressions[MaxNesting] : f[y] = Selected(f, y, line)
               /\ \A y : Matches(y, line) = f[y]
  BY MatchesIs
<1>3. Selected(f, x, line) = ~f[e]
  BY <1>1 DEF Selected
<1>4. f[x] = Selected(f, x, line)
  BY <1>2 DEF x
<1>5. Matches(x, line) = f[x] /\ Matches(e, line) = f[e]
  BY <1>2
<1>6. Matches(x, line) <=> ~Matches(e, line)
  BY <1>3, <1>4, <1>5
<1> QED BY <1>6 DEF x

\* An And selects what all of its children do.
LEMMA MatchesAnd ==
  ASSUME NEW line, NEW s, Node("And", s) \in Expressions[MaxNesting]
  PROVE  Matches(Node("And", s), line) <=> \A i \in DOMAIN s : Matches(s[i], line)
<1> DEFINE x == Node("And", s)
<1>1. x.op = "And" /\ x.children = s
  BY Operators
<1> HIDE DEF x
<1>2. PICK f : /\ \A y \in Expressions[MaxNesting] : f[y] = Selected(f, y, line)
               /\ \A y : Matches(y, line) = f[y]
  BY MatchesIs
<1>3. Selected(f, x, line) = \A i \in DOMAIN s : f[s[i]]
  BY <1>1 DEF Selected
<1>4. f[x] = Selected(f, x, line)
  BY <1>2 DEF x
<1>5. Matches(x, line) = f[x] /\ \A i \in DOMAIN s : Matches(s[i], line) = f[s[i]]
  BY <1>2
<1>6. Matches(x, line) <=> \A i \in DOMAIN s : Matches(s[i], line)
  BY <1>3, <1>4, <1>5
<1> QED BY <1>6 DEF x

-----------------------------------------------------------------------------
(* What a request selects.                                                 *)

\* The rows a query may have.
Rows == [on : [kind : Kinds, key : STRING], values : Seq(STRING),
         options : Seq(STRING), exclude : BOOLEAN]

\* What a row is about, its exclusion left aside.
About(r, line) ==
  IF Absence \in Range(r.options) THEN line[r.on] = NoValue
  ELSE line[r.on] \in Range(r.values)

\* A row that carries something lets through what it is about, or all else.
LEMMA LetsIs ==
  ASSUME NEW r, NEW line
  PROVE  /\ CarriesNothing(r) => RowLets(r, line)
         /\ ~CarriesNothing(r) /\ r.exclude = FALSE => (RowLets(r, line) <=> About(r, line))
         /\ ~CarriesNothing(r) /\ r.exclude = TRUE => (RowLets(r, line) <=> ~About(r, line))
<1>1. RowLets(r, line) <=> CarriesNothing(r) \/ r.exclude # About(r, line)
  BY DEF RowLets, About
<1>2. About(r, line) = TRUE \/ About(r, line) = FALSE
  <2>1. CASE Absence \in Range(r.options)
    <3>1. About(r, line) = (line[r.on] = NoValue)
      BY <2>1 DEF About
    <3> QED BY <3>1
  <2>2. CASE Absence \notin Range(r.options)
    <3>1. About(r, line) = (line[r.on] \in Range(r.values))
      BY <2>2 DEF About
    <3> QED BY <3>1
  <2> QED BY <2>1, <2>2
<1> QED BY <1>1, <1>2, Zenon

\* The levels there are.
LEMMA LevelsThere ==
  /\ MaxNesting \in Nat /\ MaxNesting >= 2 /\ MaxNesting - 1 \in Nat
  /\ \A k \in Nat : k <= MaxNesting => Expressions[k] \subseteq Expressions[MaxNesting]
  /\ \A k \in Nat : NoExpression \in Expressions[k] /\ Leaves \subseteq Expressions[k]
<1>1. MaxNesting \in Nat /\ MaxNesting >= 2 /\ MaxNesting - 1 \in Nat
  BY CostAssumption
<1>2. \A k \in Nat : k <= MaxNesting => Expressions[k] \subseteq Expressions[MaxNesting]
  BY <1>1, ExpressionsGrow
<1>3. \A k \in Nat : NoExpression \in Expressions[k] /\ Leaves \subseteq Expressions[k]
  BY ExpressionsAre DEF ExpressionsOver
<1> QED BY <1>1, <1>2, <1>3

\* The leaf of a row selects what the row, but for its exclusion, is about.
LEMMA LeafOfRow ==
  ASSUME NEW r \in Rows
  PROVE  /\ Leaf(r) \in Leaves /\ Leaf(r) # NoExpression
         /\ \A line : LeafMatches(Leaf(r), line) <=> About(r, line)
<1>1. Leaf(r) \in Leaves
  BY DEF Leaf, Leaves, Rows
<1>2. Leaf(r) # NoExpression
  BY DEF Leaf, NoExpression, Node
<1>3. Leaf(r).on = r.on /\ Leaf(r).values = r.values /\ Leaf(r).options = r.options
  BY DEF Leaf
<1> QED BY <1>1, <1>2, <1>3 DEF LeafMatches, About

\* The expression of a row selects what the row lets through, in a level at
\* most, and in none when it excludes nothing.
LEMMA RowIs ==
  ASSUME NEW r \in Rows
  PROVE  /\ Expression(r) \in Expressions[1]
         /\ ~r.exclude => Expression(r) \in Expressions[0]
         /\ \A line : Matches(Expression(r), line) <=> RowLets(r, line)
<1>0. /\ 0 \in Nat /\ 1 \in Nat /\ 0 <= MaxNesting /\ 1 <= MaxNesting
      /\ r.exclude \in BOOLEAN
  BY LevelsThere DEF Rows
<1>1. CASE CarriesNothing(r)
  <2>1. Expression(r) = NoExpression
    BY <1>1 DEF Expression
  <2>2. /\ NoExpression \in Expressions[1] /\ NoExpression \in Expressions[0]
        /\ NoExpression \in Expressions[MaxNesting]
    BY LevelsThere, <1>0
  <2>3. \A line : Matches(NoExpression, line)
    BY <2>2, MatchesNothing
  <2> QED BY <1>1, <2>1, <2>2, <2>3, LetsIs
<1>2. CASE ~CarriesNothing(r) /\ ~r.exclude
  <2>1. Expression(r) = Leaf(r)
    BY <1>2 DEF Expression, Negate
  <2>2. /\ Leaf(r) \in Leaves /\ Leaf(r) \in Expressions[1] /\ Leaf(r) \in Expressions[0]
        /\ Leaf(r) \in Expressions[MaxNesting]
    BY LevelsThere, <1>0, LeafOfRow
  <2>3. ASSUME NEW line PROVE Matches(Leaf(r), line) <=> RowLets(r, line)
    <3>1. Matches(Leaf(r), line) <=> LeafMatches(Leaf(r), line)
      BY <2>2, MatchesLeaf
    <3>2. LeafMatches(Leaf(r), line) <=> About(r, line)
      BY LeafOfRow
    <3>3. r.exclude = FALSE
      BY <1>0, <1>2
    <3> QED BY <1>2, <3>1, <3>2, <3>3, LetsIs
  <2> QED BY <2>1, <2>2, <2>3
<1>3. CASE ~CarriesNothing(r) /\ r.exclude
  <2>1. Expression(r) = Node("Not", <<Leaf(r)>>)
    BY <1>3, LeafOfRow DEF Expression, Negate, Not
  <2>2. Leaf(r) \in Leaves /\ Leaf(r) \in Expressions[0] /\ Leaf(r) \in Expressions[MaxNesting]
    BY LevelsThere, <1>0, LeafOfRow
  <2>3. Node("Not", <<Leaf(r)>>) \in Expressions[1]
    <3>1. <<Leaf(r)>> \in Seq(Expressions[0] \ {NoExpression}) /\ Len(<<Leaf(r)>>) = 1
      <4>1. Leaf(r) \in Expressions[0] \ {NoExpression}
        BY <2>2, LeafOfRow
      <4> HIDE DEF Leaf
      <4> QED BY <4>1
    <3>2. Node("Not", <<Leaf(r)>>) \in ExpressionsOver(Expressions[0])
      BY <3>1, NodesAre
    <3>3. Expressions[1] = ExpressionsOver(Expressions[0])
      <4>1. 1 # 0 /\ 1 - 1 = 0
        OBVIOUS
      <4> QED BY <4>1, ExpressionsAre
    <3> QED BY <3>2, <3>3
  <2>4. ASSUME NEW line PROVE Matches(Node("Not", <<Leaf(r)>>), line) <=> RowLets(r, line)
    <3>0. Node("Not", <<Leaf(r)>>) \in Expressions[MaxNesting]
      BY <2>3, <1>0, LevelsThere
    <3>1. Matches(Node("Not", <<Leaf(r)>>), line) <=> ~Matches(Leaf(r), line)
      BY <3>0, MatchesNot
    <3>2. Matches(Leaf(r), line) <=> LeafMatches(Leaf(r), line)
      BY <2>2, MatchesLeaf
    <3>3. LeafMatches(Leaf(r), line) <=> About(r, line)
      BY LeafOfRow
    <3>4. r.exclude = TRUE
      BY <1>0, <1>3
    <3> QED BY <1>3, <3>1, <3>2, <3>3, <3>4, LetsIs
  <2> QED BY <1>3, <2>1, <2>3, <2>4
<1> QED BY <1>1, <1>2, <1>3

\* And selects what all its operands do, in one more level than theirs.
LEMMA AndIs ==
  ASSUME NEW k \in Nat, k + 1 <= MaxNesting, NEW exprs \in Seq(Expressions[k])
  PROVE  /\ And(exprs) \in Expressions[k + 1]
         /\ \A line : Matches(And(exprs), line) <=>
                        \A e \in Range(exprs) : Matches(e, line)
<1> DEFINE children == NonNil(exprs)
<1>0. /\ k <= MaxNesting /\ k + 1 \in Nat
      /\ Expressions[k] \subseteq Expressions[MaxNesting]
      /\ Expressions[k + 1] \subseteq Expressions[MaxNesting]
      /\ Expressions[k] \subseteq Expressions[k + 1]
  BY LevelsThere, ExpressionsGrow
<1>1. /\ children \in Seq(Expressions[k] \ {NoExpression})
      /\ Range(children) = Range(exprs) \ {NoExpression}
  BY NonNilHolds
<1>2. And(exprs) = CASE Len(children) = 0 -> NoExpression
                     [] Len(children) = 1 -> children[1]
                     [] OTHER             -> Node("And", children)
  BY DEF And, Combine
<1>3. NoExpression \in Expressions[k + 1] /\ \A line : Matches(NoExpression, line)
  BY <1>0, LevelsThere, MatchesNothing
<1> HIDE DEF children
<1>4. Len(children) \in Nat /\ Range(children) = {children[i] : i \in 1 .. Len(children)}
      /\ DOMAIN children = 1 .. Len(children)
  BY <1>1, LenProperties, RangeEquality
<1>5. ASSUME NEW line
      PROVE (\A e \in Range(exprs) : Matches(e, line)) <=> \A e \in Range(children) : Matches(e, line)
  BY <1>1, <1>3
<1>6. CASE Len(children) = 0
  <2>1. And(exprs) = NoExpression
    BY <1>2, <1>6
  <2>2. Range(children) = {}
    BY <1>4, <1>6
  <2> QED BY <1>3, <1>5, <2>1, <2>2
<1>7. CASE Len(children) = 1
  <2>1. And(exprs) = children[1]
    BY <1>2, <1>7
  <2>2. Range(children) = {children[1]}
    BY <1>4, <1>7
  <2>3. children[1] \in Expressions[k]
    <3>1. 1 \in 1 .. Len(children)
      BY <1>7
    <3>2. children[1] \in Expressions[k] \ {NoExpression}
      BY <1>1, <3>1, ElementOfSeq
    <3> QED BY <3>2
  <2> QED BY <1>0, <1>5, <2>1, <2>2, <2>3
<1>8. CASE Len(children) # 0 /\ Len(children) # 1
  <2>1. And(exprs) = Node("And", children)
    BY <1>2, <1>8
  <2>2. Len(children) > 1
    BY <1>4, <1>8
  <2>3. Node("And", children) \in Expressions[k + 1]
    <3>1. Node("And", children) \in ExpressionsOver(Expressions[k])
      BY <1>1, <2>2, NodesAre
    <3>2. k + 1 # 0 /\ (k + 1) - 1 = k
      OBVIOUS
    <3>3. Expressions[k + 1] = ExpressionsOver(Expressions[k])
      BY <1>0, <3>2, ExpressionsAre
    <3> QED BY <3>1, <3>3
  <2>4. ASSUME NEW line
        PROVE  Matches(Node("And", children), line) <=> \A e \in Range(children) : Matches(e, line)
    <3>1. Node("And", children) \in Expressions[MaxNesting]
      BY <2>3, <1>0
    <3>2. Matches(Node("And", children), line) <=>
            \A i \in DOMAIN children : Matches(children[i], line)
      BY <3>1, MatchesAnd
    <3> QED BY <3>2 DEF Range
  <2> QED BY <1>5, <2>1, <2>3, <2>4
<1> QED BY <1>6, <1>7, <1>8

\* A fresh row lets through what has one of its values, and all without any.
LEMMA ByIs ==
  ASSUME NEW kind \in Kinds, NEW key \in STRING, NEW values \in Seq(STRING)
  PROVE  /\ By(kind, key, values) \in Rows /\ ~By(kind, key, values).exclude
         /\ \A line : RowLets(By(kind, key, values), line) <=>
              (values # <<>> => line[Subject(kind, key)] \in Range(values))
<1> DEFINE r == By(kind, key, values)
<1>1. r \in Rows /\ r.exclude = FALSE
  <2>1. <<>> \in Seq(STRING)
    BY EmptySeq
  <2> QED BY <2>1 DEF By, Rows, Subject
<1>2. /\ r.on = Subject(kind, key) /\ r.values = values /\ r.options = <<>>
      /\ CarriesNothing(r) <=> values = <<>>
  BY DEF By, CarriesNothing
<1>3. Absence \notin Range(r.options)
  BY <1>2 DEF Range
<1> HIDE DEF r
<1>4. \A line : RowLets(r, line) <=>
              (values # <<>> => line[Subject(kind, key)] \in Range(values))
  <2> SUFFICES ASSUME NEW line
               PROVE  RowLets(r, line) <=>
                        (values # <<>> => line[Subject(kind, key)] \in Range(values))
    OBVIOUS
  <2>1. About(r, line) <=> line[Subject(kind, key)] \in Range(values)
    BY <1>2, <1>3 DEF About
  <2>2. CASE values = <<>>
    BY <1>2, <2>2, LetsIs
  <2>3. CASE values # <<>>
    BY <1>1, <1>2, <2>1, <2>3, LetsIs
  <2> QED BY <2>2, <2>3
<1> QED BY <1>1, <1>4 DEF r

\* The filter of a map selects what has one of the values of each of its keys.
LEMMA ByKeysIs ==
  ASSUME NEW kind \in Kinds, NEW keys \in SUBSET STRING, IsFiniteSet(keys),
         NEW valuesOf \in [keys -> Seq(STRING)]
  PROVE  /\ FilterByKeys(kind, valuesOf) \in Expressions[1]
         /\ \A line : Matches(FilterByKeys(kind, valuesOf), line) <=>
              \A k \in keys :
                valuesOf[k] # <<>> => line[Subject(kind, k)] \in Range(valuesOf[k])
<1> DEFINE inOrder == SetToSeq(keys)
           of(k) == Expression(By(kind, k, valuesOf[k]))
           exprs == [i \in DOMAIN inOrder |-> of(inOrder[i])]
<1>1. inOrder \in Seq(keys) /\ Range(inOrder) = keys
  BY SetAsSeq
<1>2. FilterByKeys(kind, valuesOf) = And(exprs)
  BY DEF FilterByKeys
<1>3. ASSUME NEW k \in keys
      PROVE  /\ of(k) \in Expressions[0]
             /\ \A line : Matches(of(k), line) <=>
                  (valuesOf[k] # <<>> => line[Subject(kind, k)] \in Range(valuesOf[k]))
  <2>1. valuesOf[k] \in Seq(STRING) /\ k \in STRING
    OBVIOUS
  <2> DEFINE r == By(kind, k, valuesOf[k])
  <2>2. r \in Rows /\ ~r.exclude
    BY <2>1, ByIs
  <2>3. \A line : RowLets(r, line) <=>
                  (valuesOf[k] # <<>> => line[Subject(kind, k)] \in Range(valuesOf[k]))
    BY <2>1, ByIs
  <2> HIDE DEF r
  <2>4. Expression(r) \in Expressions[0]
        /\ \A line : Matches(Expression(r), line) <=> RowLets(r, line)
    BY <2>2, RowIs
  <2>5. /\ Expression(r) \in Expressions[0]
        /\ \A line : Matches(Expression(r), line) <=>
                  (valuesOf[k] # <<>> => line[Subject(kind, k)] \in Range(valuesOf[k]))
    BY <2>3, <2>4
  <2> QED BY <2>5 DEF r
<1> HIDE DEF of
<1>4. exprs \in Seq(Expressions[0]) /\ Range(exprs) = {of(k) : k \in keys}
  <2>1. DOMAIN inOrder = 1 .. Len(inOrder) /\ Len(inOrder) \in Nat
        /\ \A i \in DOMAIN inOrder : inOrder[i] \in keys
    BY <1>1, LenProperties, ElementOfSeq
  <2>2. keys = {inOrder[i] : i \in DOMAIN inOrder}
    BY <1>1 DEF Range
  <2> HIDE DEF inOrder
  <2>3. exprs \in [1 .. Len(inOrder) -> Expressions[0]]
    BY <2>1, <1>3
  <2>4. exprs \in Seq(Expressions[0])
    BY <2>1, <2>3
  <2>5. Range(exprs) = {of(inOrder[i]) : i \in DOMAIN inOrder}
    BY DEF Range
  <2>6. {of(inOrder[i]) : i \in DOMAIN inOrder} = {of(k) : k \in keys}
    BY <2>2
  <2> QED BY <2>4, <2>5, <2>6
<1> HIDE DEF exprs
<1>5. /\ And(exprs) \in Expressions[1]
      /\ \A line : Matches(And(exprs), line) <=> \A e \in Range(exprs) : Matches(e, line)
  <2>1. 0 + 1 <= MaxNesting /\ 0 \in Nat /\ 0 + 1 = 1
    BY LevelsThere
  <2>2. And(exprs) \in Expressions[0 + 1]
    BY <2>1, <1>4, AndIs
  <2>3. \A line : Matches(And(exprs), line) <=> \A e \in Range(exprs) : Matches(e, line)
    BY <2>1, <1>4, AndIs
  <2> QED BY <2>1, <2>2, <2>3
<1>6. ASSUME NEW line
      PROVE (\A e \in Range(exprs) : Matches(e, line)) <=>
              \A k \in keys :
                valuesOf[k] # <<>> => line[Subject(kind, k)] \in Range(valuesOf[k])
  <2>1. (\A e \in Range(exprs) : Matches(e, line)) <=> \A k \in keys : Matches(of(k), line)
    BY <1>4
  <2> QED BY <2>1, <1>3
<1> QED BY <1>2, <1>5, <1>6

\* A query that was built from one of the bases.
IsQuery(q) ==
  /\ DOMAIN q.tags \subseteq STRING /\ IsFiniteSet(DOMAIN q.tags)
  /\ q \in [start : Times, end : Times, granularity : STRING,
            metrics : Seq(STRING), groupBy : Seq([type : STRING, key : STRING]),
            services : Seq(STRING), tags : [DOMAIN q.tags -> Seq(STRING)],
            filters : Seq(Rows), filter : Expressions[MaxNesting - 1],
            billingViewArn : STRING]

\* Its parts.
LEMMA QueryParts ==
  ASSUME NEW q, IsQuery(q)
  PROVE  /\ q.start \in Times /\ q.end \in Times /\ q.granularity \in STRING
         /\ q.metrics \in Seq(STRING) /\ q.groupBy \in Seq([type : STRING, key : STRING])
         /\ q.services \in Seq(STRING) /\ q.filters \in Seq(Rows)
         /\ q.tags \in [DOMAIN q.tags -> Seq(STRING)]
         /\ DOMAIN q.tags \subseteq STRING /\ IsFiniteSet(DOMAIN q.tags)
         /\ q.filter \in Expressions[MaxNesting - 1] /\ q.billingViewArn \in STRING
<1> DEFINE D == DOMAIN q.tags
           F == Expressions[MaxNesting - 1]
<1>1. q \in [start : Times, end : Times, granularity : STRING,
             metrics : Seq(STRING), groupBy : Seq([type : STRING, key : STRING]),
             services : Seq(STRING), tags : [D -> Seq(STRING)],
             filters : Seq(Rows), filter : F, billingViewArn : STRING]
  BY DEF IsQuery
<1>2. D \subseteq STRING /\ IsFiniteSet(D)
  BY DEF IsQuery
<1> HIDE DEF D, F
<1>3. /\ q.start \in Times /\ q.end \in Times /\ q.granularity \in STRING
      /\ q.metrics \in Seq(STRING) /\ q.groupBy \in Seq([type : STRING, key : STRING])
      /\ q.services \in Seq(STRING) /\ q.filters \in Seq(Rows)
      /\ q.tags \in [D -> Seq(STRING)]
      /\ q.filter \in F /\ q.billingViewArn \in STRING
  BY <1>1
<1> QED BY <1>2, <1>3 DEF D, F

\* The filter of a query is well shaped and selects what the query does.
LEMMA FilterIs ==
  ASSUME NEW q, IsQuery(q)
  PROVE  /\ buildFilter(q) \in Expressions[MaxNesting]
         /\ \A line : Matches(buildFilter(q), line) <=> Selects(q, line)
<1> DEFINE E == Expressions[MaxNesting - 1]
           service == FilterBy("Service", q.services)
           tags == FilterByTags(q.tags)
           rows == [i \in DOMAIN q.filters |-> Expression(q.filters[i])]
           exprs == <<service, tags>> \o rows \o <<q.filter>>
<1>0. /\ MaxNesting - 1 \in Nat /\ 0 <= MaxNesting - 1 /\ 1 <= MaxNesting - 1
      /\ 0 \in Nat /\ 1 \in Nat
      /\ (MaxNesting - 1) + 1 = MaxNesting /\ (MaxNesting - 1) + 1 <= MaxNesting
  BY LevelsThere
<1>1. Expressions[0] \subseteq E /\ Expressions[1] \subseteq E
  BY <1>0, ExpressionsGrow
<1>2. /\ service \in E
      /\ \A line : Matches(service, line) <=>
           (q.services # <<>> => line[Subject("Dimensions", "SERVICE")] \in Range(q.services))
  <2> DEFINE r == By("Dimensions", "SERVICE", q.services)
  <2>1. service = Expression(r)
    <3>1. FilterDimension["Service"] = "SERVICE"
      BY DEF FilterDimension
    <3> QED BY <3>1 DEF FilterBy
  <2>2. "Dimensions" \in Kinds /\ "SERVICE" \in STRING /\ q.services \in Seq(STRING)
    <3>1. "Dimensions" \in Kinds
      BY DEF Kinds
    <3>2. "SERVICE" \in STRING
      BY CostAssumption DEF Literals
    <3> QED BY <3>1, <3>2, QueryParts
  <2>3. r \in Rows
    BY <2>2, ByIs
  <2>4. \A line : RowLets(r, line) <=>
           (q.services # <<>> => line[Subject("Dimensions", "SERVICE")] \in Range(q.services))
    BY <2>2, ByIs
  <2> HIDE DEF r, service
  <2>5. Expression(r) \in Expressions[1]
        /\ \A line : Matches(Expression(r), line) <=> RowLets(r, line)
    BY <2>3, RowIs
  <2> QED BY <2>1, <2>4, <2>5, <1>1
<1>3. /\ tags \in E
      /\ \A line : Matches(tags, line) <=>
           \A k \in DOMAIN q.tags :
             q.tags[k] # <<>> => line[Subject("Tags", k)] \in Range(q.tags[k])
  <2> DEFINE K == DOMAIN q.tags
  <2>1. "Tags" \in Kinds /\ K \in SUBSET STRING /\ IsFiniteSet(K) /\ q.tags \in [K -> Seq(STRING)]
    BY QueryParts DEF Kinds
  <2> HIDE DEF K
  <2>2. FilterByKeys("Tags", q.tags) \in Expressions[1]
    BY <2>1, ByKeysIs
  <2>3. \A line : Matches(FilterByKeys("Tags", q.tags), line) <=>
           \A k \in K : q.tags[k] # <<>> => line[Subject("Tags", k)] \in Range(q.tags[k])
    BY <2>1, ByKeysIs
  <2>4. tags = FilterByKeys("Tags", q.tags)
    BY DEF FilterByTags
  <2> HIDE DEF tags
  <2> QED BY <1>1, <2>2, <2>3, <2>4 DEF K
<1>4. /\ rows \in Seq(E)
      /\ \A line : (\A e \in Range(rows) : Matches(e, line)) <=>
           \A i \in DOMAIN q.filters : RowLets(q.filters[i], line)
  <2>1. /\ DOMAIN q.filters = 1 .. Len(q.filters) /\ Len(q.filters) \in Nat
        /\ \A i \in DOMAIN q.filters : q.filters[i] \in Rows
    BY QueryParts, LenProperties, ElementOfSeq
  <2>2. ASSUME NEW i \in DOMAIN q.filters
        PROVE  /\ Expression(q.filters[i]) \in E
               /\ \A line : Matches(Expression(q.filters[i]), line) <=> RowLets(q.filters[i], line)
    BY <2>1, <1>1, RowIs
  <2>3. rows \in [1 .. Len(q.filters) -> E]
    BY <2>1, <2>2
  <2>4. rows \in Seq(E)
    BY <2>1, <2>3
  <2>5. Range(rows) = {Expression(q.filters[i]) : i \in DOMAIN q.filters}
    BY DEF Range
  <2> HIDE DEF rows
  <2> QED BY <2>2, <2>4, <2>5
<1>5. q.filter \in E
  BY QueryParts
<1> HIDE DEF E, service, tags, rows
<1>6. exprs \in Seq(E) /\ Range(exprs) = {service, tags} \cup Range(rows) \cup {q.filter}
  <2>1. <<service, tags>> \in Seq(E) /\ <<q.filter>> \in Seq(E)
    BY <1>2, <1>3, <1>5
  <2>2. Range(<<service, tags>>) = {service, tags} /\ Range(<<q.filter>>) = {q.filter}
    <3>1. /\ Len(<<service, tags>>) = 2 /\ <<service, tags>>[1] = service
          /\ <<service, tags>>[2] = tags /\ 1 .. 2 = {1, 2}
          /\ Len(<<q.filter>>) = 1 /\ <<q.filter>>[1] = q.filter /\ 1 .. 1 = {1}
      OBVIOUS
    <3>2. /\ Range(<<service, tags>>) = {<<service, tags>>[i] : i \in 1 .. 2}
          /\ Range(<<q.filter>>) = {<<q.filter>>[i] : i \in 1 .. 1}
      BY <2>1, <3>1, RangeEquality
    <3> QED BY <3>1, <3>2
  <2>3. /\ <<service, tags>> \o rows \in Seq(E)
        /\ Range(<<service, tags>> \o rows) = Range(<<service, tags>>) \cup Range(rows)
    BY <1>4, <2>1, ConcatProperties, RangeConcatenation, ZenonT(20)
  <2>4. /\ exprs \in Seq(E)
        /\ Range(exprs) = Range(<<service, tags>> \o rows) \cup Range(<<q.filter>>)
    <3> DEFINE front == <<service, tags>> \o rows
    <3>1. front \in Seq(E)
      BY <2>3
    <3>2. exprs = front \o <<q.filter>>
      OBVIOUS
    <3> HIDE DEF front, exprs
    <3>3. front \o <<q.filter>> \in Seq(E)
      BY <2>1, <3>1, ConcatProperties
    <3>4. Range(front \o <<q.filter>>) = Range(front) \cup Range(<<q.filter>>)
      BY <2>1, <3>1, RangeConcatenation, ZenonT(20)
    <3> QED BY <3>2, <3>3, <3>4 DEF front
  <2> QED BY <2>2, <2>3, <2>4
<1>7. buildFilter(q) = And(exprs)
  BY DEF buildFilter, service, tags, rows
<1> HIDE DEF exprs
<1>8. /\ And(exprs) \in Expressions[MaxNesting]
      /\ \A line : Matches(And(exprs), line) <=> \A e \in Range(exprs) : Matches(e, line)
  <2>1. exprs \in Seq(Expressions[MaxNesting - 1])
    BY <1>6 DEF E
  <2>2. And(exprs) \in Expressions[(MaxNesting - 1) + 1]
    BY <1>0, <2>1, AndIs
  <2>3. \A line : Matches(And(exprs), line) <=> \A e \in Range(exprs) : Matches(e, line)
    BY <1>0, <2>1, AndIs
  <2> QED BY <1>0, <2>2, <2>3
<1>9. ASSUME NEW line
      PROVE  (\A e \in Range(exprs) : Matches(e, line)) <=> Selects(q, line)
  <2>1. (\A e \in Range(exprs) : Matches(e, line)) <=>
          /\ Matches(service, line) /\ Matches(tags, line)
          /\ \A e \in Range(rows) : Matches(e, line)
          /\ Matches(q.filter, line)
    BY <1>6
  <2> QED BY <2>1, <1>2, <1>3, <1>4 DEF Selects
<1> QED BY <1>7, <1>8, <1>9

-----------------------------------------------------------------------------
(* Go values.                                                              *)

\* What is known of a value over inner ones.
LEMMA ValueParts ==
  ASSUME NEW inner, NEW v \in GoValuesOver(inner)
  PROVE  /\ v.kind \in GoKinds /\ v.text \in STRING /\ v.parts \in Seq(inner)
         /\ v.entries \in SUBSET (inner \X inner)
         /\ v.kind = "pointer" => v.parts # <<>>
         /\ DOMAIN v.parts = 1 .. Len(v.parts) /\ Len(v.parts) \in Nat
         /\ \A i \in DOMAIN v.parts : v.parts[i] \in inner
<1>1. /\ v.kind \in GoKinds /\ v.text \in STRING /\ v.parts \in Seq(inner)
      /\ v.entries \in SUBSET (inner \X inner)
      /\ v.kind = "pointer" => v.parts # <<>>
  BY DEF GoValuesOver
<1>2. DOMAIN v.parts = 1 .. Len(v.parts) /\ Len(v.parts) \in Nat
  BY <1>1, LenProperties
<1>3. \A i \in DOMAIN v.parts : v.parts[i] \in inner
  BY <1>1, <1>2, ElementOfSeq
<1> QED BY <1>1, <1>2, <1>3

\* More inner values, more values.
LEMMA ValuesOverGrow ==
  ASSUME NEW A, NEW B, A \subseteq B
  PROVE  GoValuesOver(A) \subseteq GoValuesOver(B)
<1> SUFFICES ASSUME NEW v \in GoValuesOver(A) PROVE v \in GoValuesOver(B)
  OBVIOUS
<1>1. v \in [kind : GoKinds, text : STRING, parts : Seq(A), entries : SUBSET (A \X A)]
  BY DEF GoValuesOver
<1>2. v.parts \in Seq(B)
  BY ValueParts, SeqMonotonic
<1>3. v.entries \in SUBSET (B \X B)
  BY ValueParts
<1>4. v \in [kind : GoKinds, text : STRING, parts : Seq(B), entries : SUBSET (B \X B)]
  BY <1>1, <1>2, <1>3
<1> QED BY <1>4, ValueParts DEF GoValuesOver

\* Each level has all of those below.
LEMMA GoValuesGrow ==
  ASSUME NEW m \in Nat, NEW n \in Nat, m <= n
  PROVE  GoValues[m] \subseteq GoValues[n]
<1> DEFINE below(k) == IF k = 0 THEN {} ELSE GoValues[k - 1]
           S == {k \in Nat : GoValues[k] \subseteq GoValues[k + 1]}
           T == {k \in Nat : GoValues[m] \subseteq GoValues[m + k]}
<1>0. \A k \in Nat : GoValues[k] = GoValuesOver(below(k))
  BY GoValuesAre
<1>1. 0 \in S
  <2>1. below(0) \subseteq below(1)
    OBVIOUS
  <2>2. GoValues[0] = GoValuesOver(below(0)) /\ GoValues[1] = GoValuesOver(below(1))
    BY <1>0
  <2> HIDE DEF below
  <2>3. GoValues[0] \subseteq GoValues[1]
    BY <2>1, <2>2, ValuesOverGrow
  <2> QED BY <2>3
<1>2. ASSUME NEW k \in Nat, k \in S PROVE k + 1 \in S
  <2>1. below(k + 1) \subseteq below((k + 1) + 1)
    <3>1. k + 1 # 0 /\ (k + 1) + 1 # 0 /\ (k + 1) - 1 = k /\ ((k + 1) + 1) - 1 = k + 1
      OBVIOUS
    <3>2. below(k + 1) = GoValues[k] /\ below((k + 1) + 1) = GoValues[k + 1]
      BY <3>1
    <3> QED BY <3>2, <1>2
  <2>2. /\ GoValues[k + 1] = GoValuesOver(below(k + 1))
        /\ GoValues[(k + 1) + 1] = GoValuesOver(below((k + 1) + 1))
    BY <1>0
  <2> HIDE DEF below
  <2>3. GoValues[k + 1] \subseteq GoValues[(k + 1) + 1]
    BY <2>1, <2>2, ValuesOverGrow
  <2> QED BY <2>3
<1> HIDE DEF S
<1>3. \A k \in Nat : k \in S
  BY <1>1, <1>2, NatSets
<1>4. 0 \in T
  BY m + 0 = m
<1>5. ASSUME NEW k \in Nat, k \in T PROVE k + 1 \in T
  <2>1. m + k \in S
    BY <1>3
  <2>2. (m + k) + 1 = m + (k + 1)
    OBVIOUS
  <2>3. GoValues[m + k] \subseteq GoValues[m + (k + 1)]
    BY <2>1, <2>2 DEF S
  <2> QED BY <2>3, <1>5
<1> HIDE DEF T
<1>6. \A k \in Nat : k \in T
  BY <1>4, <1>5, NatSets
<1>7. n - m \in Nat /\ m + (n - m) = n
  OBVIOUS
<1>8. n - m \in T
  BY <1>6, <1>7
<1> QED BY <1>7, <1>8 DEF T

\* A level is made of the one below.
LEMMA NextLevel ==
  ASSUME NEW n \in Nat
  PROVE  GoValues[n + 1] = GoValuesOver(GoValues[n])
<1>1. n + 1 \in Nat /\ n + 1 # 0 /\ (n + 1) - 1 = n
  OBVIOUS
<1> QED BY <1>1, GoValuesAre

\* Values without parts.
LEMMA SimpleValues ==
  ASSUME NEW n \in Nat
  PROVE  /\ Nil \in GoValues[n]
         /\ \A t \in STRING : Basic(t) \in GoValues[n] /\ SelfDescribed(t) \in GoValues[n]
<1> DEFINE inner == IF n = 0 THEN {} ELSE GoValues[n - 1]
<1>1. GoValues[n] = GoValuesOver(inner)
  BY GoValuesAre
<1> HIDE DEF inner
<1>2. <<>> \in Seq(inner) /\ {} \in SUBSET (inner \X inner) /\ "" \in STRING
  BY EmptySeq, CostAssumption DEF Literals
<1>3. Nil \in GoValuesOver(inner)
  BY <1>2 DEF Nil, GoValue, GoValuesOver, GoKinds
<1>4. \A t \in STRING : Basic(t) \in GoValuesOver(inner) /\ SelfDescribed(t) \in GoValuesOver(inner)
  BY <1>2 DEF Basic, SelfDescribed, GoValue, GoValuesOver, GoKinds
<1> QED BY <1>1, <1>3, <1>4

\* Values with parts are a level up.
LEMMA PartedValues ==
  ASSUME NEW n \in Nat
  PROVE  /\ \A v \in GoValues[n] : Pointer(v) \in GoValues[n + 1]
         /\ \A vs \in Seq(GoValues[n]) :
              /\ GoList(vs) \in GoValues[n + 1]
              /\ \A t \in STRING : Struct(t, vs) \in GoValues[n + 1]
         /\ \A f : (DOMAIN f \subseteq STRING /\ \A k \in DOMAIN f : f[k] \in GoValues[n]) =>
                      GoMap(f) \in GoValues[n + 1]
<1> DEFINE inner == GoValues[n]
<1>1. GoValues[n + 1] = GoValuesOver(inner)
  BY NextLevel
<1>2. Nil \in GoValues[n + 1] /\ \A t \in STRING : Basic(t) \in inner
  <2>1. n + 1 \in Nat
    OBVIOUS
  <2>2. Nil \in GoValues[n + 1]
    BY <2>1, SimpleValues
  <2>3. \A t \in STRING : Basic(t) \in GoValues[n]
    BY SimpleValues
  <2> QED BY <2>2, <2>3
<1> HIDE DEF inner
<1>3. <<>> \in Seq(inner) /\ {} \in SUBSET (inner \X inner) /\ "" \in STRING
  BY EmptySeq, CostAssumption DEF Literals
<1>4. ASSUME NEW v \in inner PROVE Pointer(v) \in GoValuesOver(inner)
  <2>1. <<v>> \in Seq(inner) /\ <<v>> # <<>>
    OBVIOUS
  <2> DEFINE one == <<v>>
  <2> HIDE DEF one
  <2>2. GoValue("pointer", "", one, {}) \in GoValuesOver(inner)
    BY <1>3, <2>1 DEF one, GoValue, GoValuesOver, GoKinds
  <2> QED BY <2>2 DEF Pointer, one
<1>5. ASSUME NEW vs \in Seq(inner)
      PROVE  /\ GoList(vs) \in GoValuesOver(inner)
             /\ \A t \in STRING : Struct(t, vs) \in GoValuesOver(inner)
  <2>1. GoValue("list", "", vs, {}) \in GoValuesOver(inner)
    BY <1>3 DEF GoValue, GoValuesOver, GoKinds
  <2>2. \A t \in STRING : Struct(t, vs) \in GoValuesOver(inner)
    BY <1>3 DEF Struct, GoValue, GoValuesOver, GoKinds
  <2> QED BY <1>1, <1>2, <2>1, <2>2 DEF GoList
<1>6. ASSUME NEW f, DOMAIN f \subseteq STRING, \A k \in DOMAIN f : f[k] \in inner
      PROVE  GoMap(f) \in GoValuesOver(inner)
  <2> DEFINE entries == {<<Basic(k), f[k]>> : k \in DOMAIN f}
  <2>1. entries \in SUBSET (inner \X inner)
    BY <1>2, <1>6
  <2> HIDE DEF entries
  <2>2. GoValue("map", "", <<>>, entries) \in GoValuesOver(inner)
    BY <1>3, <2>1 DEF GoValue, GoValuesOver, GoKinds
  <2> QED BY <1>1, <1>2, <2>2 DEF GoMap, entries
<1> QED BY <1>1, <1>4, <1>5, <1>6 DEF inner

-----------------------------------------------------------------------------
(* WriteCanonical, the rendering of a value.                               *)

\* The depths a value may be at.
Depths == 0 .. keyMaxDepth + 1

\* f is the recursive function of WriteCanonical.
Writes(f) ==
  f = [at \in GoValues[MaxHeight] \X Depths |-> WriteValue(f, at[1], at[2])]

\* How a value is written depends on how its parts are, a level down or, for
\* a pointer, at its own.
LEMMA WrittenByParts ==
  ASSUME NEW inner, NEW v \in GoValuesOver(inner), NEW d \in Depths, NEW f, NEW g,
         \A y \in inner : \A e \in Depths : f[<<y, e>>] = g[<<y, e>>]
  PROVE  WriteValue(f, v, d) = WriteValue(g, v, d)
<1>1. CASE d > keyMaxDepth
  BY <1>1 DEF WriteValue
<1>2. CASE ~(d > keyMaxDepth)
  <2>1. d + 1 \in Depths
    BY <1>2 DEF Depths, keyMaxDepth
  <2>2. \A i \in DOMAIN v.parts : /\ f[<<v.parts[i], d + 1>>] = g[<<v.parts[i], d + 1>>]
                                  /\ f[<<v.parts[i], d>>] = g[<<v.parts[i], d>>]
    BY <2>1, ValueParts
  <2>3. CASE v.kind = "pointer"
    <3>1. v.parts # <<>> /\ v.parts \in Seq(inner)
      BY <2>3, ValueParts
    <3>2. Len(v.parts) \in Nat \ {0} /\ DOMAIN v.parts = 1 .. Len(v.parts)
      BY <3>1, EmptySeq, LenProperties
    <3>3. 1 \in DOMAIN v.parts
      BY <3>2
    <3>4. WritePointer(f, v, d) = WritePointer(g, v, d)
      BY <2>2, <3>3 DEF WritePointer
    <3> QED BY <1>2, <2>3, <3>4 DEF WriteValue
  <2>4. CASE v.kind = "struct" \/ v.kind = "list"
    <3>1. [i \in DOMAIN v.parts |-> f[<<v.parts[i], d + 1>>]]
            = [i \in DOMAIN v.parts |-> g[<<v.parts[i], d + 1>>]]
      BY <2>2
    <3>2. WriteStruct(f, v, d) = WriteStruct(g, v, d) /\ WriteList(f, v, d) = WriteList(g, v, d)
      BY <3>1 DEF WriteStruct, WriteList
    <3> QED BY <1>2, <2>4, <3>2 DEF WriteValue
  <2>5. CASE v.kind = "map"
    <3>1. v.entries \in SUBSET (inner \X inner)
      BY ValueParts
    <3>2. \A e \in v.entries : /\ f[<<e[1], d + 1>>] = g[<<e[1], d + 1>>]
                               /\ f[<<e[2], d + 1>>] = g[<<e[2], d + 1>>]
      BY <2>1, <3>1
    <3>3. {<<f[<<e[1], d + 1>>], f[<<e[2], d + 1>>]>> : e \in v.entries}
            = {<<g[<<e[1], d + 1>>], g[<<e[2], d + 1>>]>> : e \in v.entries}
      BY <3>2
    <3>4. WriteMap(f, v, d) = WriteMap(g, v, d)
      BY <3>3 DEF WriteMap
    <3> QED BY <1>2, <2>5, <3>4 DEF WriteValue
  <2>6. CASE v.kind = "nil" \/ v.kind = "basic" \/ v.kind = "self"
    BY <1>2, <2>6 DEF WriteValue
  <2>7. v.kind \in GoKinds
    BY ValueParts
  <2> QED BY <2>3, <2>4, <2>5, <2>6, <2>7 DEF GoKinds
<1> QED BY <1>1, <1>2

\* There is such a function.
LEMMA WritesExists == \E f : Writes(f)
<1> DEFINE D == GoValues[MaxHeight] \X Depths
           P(k) == \E f : /\ f = [at \in D |-> f[at]]
                          /\ \A v \in GoValues[k], d \in Depths :
                               f[<<v, d>>] = WriteValue(f, v, d)
           S == {k \in Nat : k <= MaxHeight => P(k)}
<1>0. MaxHeight \in Nat
  BY CostAssumption
<1>a. \A k \in Nat : k <= MaxHeight => GoValues[k] \subseteq GoValues[MaxHeight]
  BY <1>0, GoValuesGrow
<1>b. ASSUME NEW f
      PROVE  \E g : /\ g = [at \in D |-> g[at]]
                    /\ \A v \in GoValues[MaxHeight], d \in Depths :
                         g[<<v, d>>] = WriteValue(f, v, d)
  <2> DEFINE g == [at \in D |-> WriteValue(f, at[1], at[2])]
  <2>1. g = [at \in D |-> g[at]]
    OBVIOUS
  <2>2. ASSUME NEW v \in GoValues[MaxHeight], NEW d \in Depths
        PROVE  g[<<v, d>>] = WriteValue(f, v, d)
    <3>1. <<v, d>> \in D /\ <<v, d>>[1] = v /\ <<v, d>>[2] = d
      OBVIOUS
    <3> QED BY <3>1
  <2> HIDE DEF g
  <2> QED BY <2>1, <2>2
<1>1. 0 \in S
  <2>1. PICK g : /\ g = [at \in D |-> g[at]]
                 /\ \A v \in GoValues[MaxHeight], d \in Depths :
                      g[<<v, d>>] = WriteValue(0, v, d)
    BY <1>b
  <2>2. ASSUME NEW v \in GoValues[0], NEW d \in Depths PROVE g[<<v, d>>] = WriteValue(g, v, d)
    <3>1. v \in GoValues[MaxHeight]
      BY <1>a, <1>0
    <3>2. v \in GoValuesOver({})
      BY GoValuesAre
    <3>3. WriteValue(0, v, d) = WriteValue(g, v, d)
      BY <3>2, WrittenByParts
    <3> QED BY <2>1, <3>1, <3>3
  <2> HIDE DEF D
  <2> QED BY <2>1, <2>2
<1>2. ASSUME NEW k \in Nat, k \in S PROVE k + 1 \in S
  <2> SUFFICES ASSUME k + 1 <= MaxHeight PROVE P(k + 1)
    <3> HIDE DEF P
    <3> QED OBVIOUS
  <2>0. k <= MaxHeight /\ P(k)
    <3> HIDE DEF P
    <3>1. k <= MaxHeight
      BY <1>0
    <3> QED BY <1>2, <3>1
  <2>1. PICK f : \A v \in GoValues[k], d \in Depths : f[<<v, d>>] = WriteValue(f, v, d)
    BY <2>0
  <2>2. PICK g : /\ g = [at \in D |-> g[at]]
                 /\ \A v \in GoValues[MaxHeight], d \in Depths :
                      g[<<v, d>>] = WriteValue(f, v, d)
    BY <1>b
  <2> HIDE DEF D
  <2>3. \A y \in GoValues[k] : \A e \in Depths : f[<<y, e>>] = g[<<y, e>>]
    <3>1. GoValues[k] \subseteq GoValues[MaxHeight]
      BY <1>a, <2>0
    <3> QED BY <2>1, <2>2, <3>1
  <2>4. ASSUME NEW v \in GoValues[k + 1], NEW d \in Depths
        PROVE  g[<<v, d>>] = WriteValue(g, v, d)
    <3>1. v \in GoValues[MaxHeight]
      BY <1>a, <1>0
    <3>2. v \in GoValuesOver(GoValues[k])
      BY NextLevel
    <3>3. WriteValue(f, v, d) = WriteValue(g, v, d)
      BY <2>3, <3>2, WrittenByParts
    <3> QED BY <2>2, <3>1, <3>3
  <2> QED BY <2>2, <2>4
<1> HIDE DEF S
<1>3. MaxHeight \in S
  BY <1>0, <1>1, <1>2, NatSets
<1>c. P(MaxHeight)
  <2> HIDE DEF P
  <2>1. MaxHeight <= MaxHeight
    BY <1>0
  <2> QED BY <1>3, <2>1 DEF S
<1>4. PICK f : /\ f = [at \in D |-> f[at]]
               /\ \A v \in GoValues[MaxHeight], d \in Depths :
                    f[<<v, d>>] = WriteValue(f, v, d)
  BY <1>c
<1>5. \A at \in D : f[at] = WriteValue(f, at[1], at[2])
  BY <1>4
<1>6. [at \in D |-> f[at]] = [at \in D |-> WriteValue(f, at[1], at[2])]
  BY <1>5
<1> QED BY <1>4, <1>6 DEF Writes

\* WriteCanonical is what its definition says, one value after the other.
LEMMA WriteIs ==
  \E f : /\ \A v \in GoValues[MaxHeight], d \in Depths : f[<<v, d>>] = WriteValue(f, v, d)
         /\ \A v, d : WriteCanonical(v, d) = f[<<v, d>>]
<1> DEFINE F == CHOOSE f : f = [at \in GoValues[MaxHeight] \X (0 .. keyMaxDepth + 1) |->
                                  WriteValue(f, at[1], at[2])]
<1>1. Writes(F)
  BY WritesExists DEF Writes, Depths
<1>2. \A v, d : WriteCanonical(v, d) = F[<<v, d>>]
  BY DEF WriteCanonical
<1> HIDE DEF F
<1>3. ASSUME NEW v \in GoValues[MaxHeight], NEW d \in Depths
      PROVE  F[<<v, d>>] = WriteValue(F, v, d)
  <2> DEFINE e(at) == WriteValue(F, at[1], at[2])
  <2>1. F = [at \in GoValues[MaxHeight] \X Depths |-> e(at)]
    BY <1>1 DEF Writes
  <2>2. e(<<v, d>>) = WriteValue(F, v, d)
    OBVIOUS
  <2> HIDE DEF e
  <2>3. F[<<v, d>>] = e(<<v, d>>)
    BY <2>1
  <2> QED BY <2>2, <2>3
<1> QED BY <1>2, <1>3

\* The depths at which a value is not cut.
Uncut == 0 .. keyMaxDepth

\* They are depths, with one more below.
LEMMA UncutIs ==
  \A d \in Uncut : /\ d \in Depths /\ d + 1 \in Depths /\ d \in Nat
                   /\ ~(d > keyMaxDepth) /\ d <= 12
BY DEF Uncut, Depths, keyMaxDepth

\* A level is there as long as it is below the highest.
LEMMA HeightsThere ==
  \A n \in Nat : n <= MaxHeight => GoValues[n] \subseteq GoValues[MaxHeight]
<1>1. MaxHeight \in Nat
  BY CostAssumption
<1> QED BY <1>1, GoValuesGrow

\* The fields of a value.
LEMMA ValueFields ==
  ASSUME NEW kind, NEW text, NEW parts, NEW entries
  PROVE  /\ GoValue(kind, text, parts, entries).kind = kind
         /\ GoValue(kind, text, parts, entries).text = text
         /\ GoValue(kind, text, parts, entries).parts = parts
         /\ GoValue(kind, text, parts, entries).entries = entries
BY DEF GoValue

\* A value without parts is written as it is.
LEMMA WriteSimple ==
  ASSUME NEW d \in Uncut
  PROVE  /\ WriteCanonical(Nil, d) = Nil
         /\ \A t \in STRING : /\ WriteCanonical(Basic(t), d) = Basic(t)
                              /\ WriteCanonical(SelfDescribed(t), d) = SelfDescribed(t)
<1>0. MaxHeight \in Nat
  BY CostAssumption
<1>1. d \in Depths /\ ~(d > keyMaxDepth)
  BY UncutIs
<1>2. PICK f : /\ \A v \in GoValues[MaxHeight], e \in Depths : f[<<v, e>>] = WriteValue(f, v, e)
               /\ \A v, e : WriteCanonical(v, e) = f[<<v, e>>]
  BY WriteIs
<1>3. WriteValue(f, Nil, d) = Nil
  <2>1. Nil.kind = "nil"
    BY DEF Nil, GoValue
  <2> QED BY <1>1, <2>1 DEF WriteValue
<1>4. ASSUME NEW t \in STRING
      PROVE  /\ WriteValue(f, Basic(t), d) = Basic(t)
             /\ WriteValue(f, SelfDescribed(t), d) = SelfDescribed(t)
  <2>1. /\ Basic(t).kind = "basic"
        /\ SelfDescribed(t).kind = "self" /\ SelfDescribed(t).text = t
    BY DEF Basic, SelfDescribed, GoValue
  <2> QED BY <1>1, <2>1 DEF WriteValue, WriteSelfDescribed
<1>5. /\ Nil \in GoValues[MaxHeight]
      /\ \A t \in STRING : Basic(t) \in GoValues[MaxHeight]
            /\ SelfDescribed(t) \in GoValues[MaxHeight]
  BY <1>0, SimpleValues
<1> QED BY <1>1, <1>2, <1>3, <1>4, <1>5

\* A pointer is written as what it points to, at the same depth.
LEMMA WriteOfPointer ==
  ASSUME NEW n \in Nat, n + 1 <= MaxHeight, NEW v \in GoValues[n], NEW d \in Uncut
  PROVE  WriteCanonical(Pointer(v), d) = WriteCanonical(v, d)
<1>1. d \in Depths /\ ~(d > keyMaxDepth)
  BY UncutIs
<1>2. PICK f : /\ \A u \in GoValues[MaxHeight], e \in Depths : f[<<u, e>>] = WriteValue(f, u, e)
               /\ \A u, e : WriteCanonical(u, e) = f[<<u, e>>]
  BY WriteIs
<1>3. Pointer(v) \in GoValues[MaxHeight]
  <2>1. n + 1 \in Nat
    OBVIOUS
  <2>2. Pointer(v) \in GoValues[n + 1]
    BY PartedValues
  <2> QED BY <2>1, <2>2, HeightsThere
<1>4. Pointer(v).kind = "pointer" /\ Pointer(v).parts[1] = v
  BY DEF Pointer, GoValue
<1>5. WriteValue(f, Pointer(v), d) = f[<<v, d>>]
  BY <1>1, <1>4 DEF WriteValue, WritePointer
<1> QED BY <1>1, <1>2, <1>3, <1>5

\* The parts of a list or a struct are written a level down.
LEMMA WriteOfParts ==
  ASSUME NEW n \in Nat, n + 1 <= MaxHeight, NEW vs \in Seq(GoValues[n]), NEW d \in Uncut
  PROVE  /\ WriteCanonical(GoList(vs), d)
              = GoList([i \in DOMAIN vs |-> WriteCanonical(vs[i], d + 1)])
         /\ \A t \in STRING :
              WriteCanonical(Struct(t, vs), d)
                = Struct(t, [i \in DOMAIN vs |-> WriteCanonical(vs[i], d + 1)])
<1>1. d \in Depths /\ ~(d > keyMaxDepth)
  BY UncutIs
<1>2. PICK f : /\ \A u \in GoValues[MaxHeight], e \in Depths : f[<<u, e>>] = WriteValue(f, u, e)
               /\ \A u, e : WriteCanonical(u, e) = f[<<u, e>>]
  BY WriteIs
<1>3. /\ GoList(vs) \in GoValues[MaxHeight]
      /\ \A t \in STRING : Struct(t, vs) \in GoValues[MaxHeight]
  <2>1. n + 1 \in Nat
    OBVIOUS
  <2>2. /\ GoList(vs) \in GoValues[n + 1]
        /\ \A t \in STRING : Struct(t, vs) \in GoValues[n + 1]
    BY PartedValues
  <2> QED BY <2>1, <2>2, HeightsThere
<1> DEFINE written == [i \in DOMAIN vs |-> WriteCanonical(vs[i], d + 1)]
<1>4. [i \in DOMAIN vs |-> f[<<vs[i], d + 1>>]] = written
  BY <1>2
<1> HIDE DEF written
<1>5. ASSUME NEW t \in STRING PROVE WriteValue(f, Struct(t, vs), d) = Struct(t, written)
  <2>1. Struct(t, vs).kind = "struct" /\ Struct(t, vs).text = t /\ Struct(t, vs).parts = vs
    BY DEF Struct, GoValue
  <2>2. WriteStruct(f, Struct(t, vs), d) = Struct(t, written)
    BY <1>4, <2>1 DEF WriteStruct
  <2> QED BY <1>1, <2>1, <2>2 DEF WriteValue
<1>6. CASE vs = <<>>
  <2>1. GoList(vs) = Nil
    BY <1>6 DEF GoList
  <2>2. written = <<>>
    BY <1>6 DEF written
  <2>3. GoList(written) = Nil
    BY <2>2 DEF GoList
  <2>4. WriteCanonical(GoList(vs), d) = GoList(written)
    BY <2>1, <2>3, WriteSimple
  <2> QED BY <1>1, <1>2, <1>3, <1>5, <2>4 DEF written
<1>7. CASE vs # <<>>
  <2>1. GoList(vs) = GoValue("list", "", vs, {})
    BY <1>7 DEF GoList
  <2>2. GoList(vs).kind = "list" /\ GoList(vs).parts = vs
    <3>1. /\ GoValue("list", "", vs, {}).kind = "list"
          /\ GoValue("list", "", vs, {}).parts = vs
      BY DEF GoValue
    <3> QED BY <2>1, <3>1
  <2>3. WriteList(f, GoList(vs), d) = GoList(written)
    BY <1>4, <2>2 DEF WriteList
  <2>4. WriteValue(f, GoList(vs), d) = GoList(written)
    BY <1>1, <2>2, <2>3 DEF WriteValue
  <2> QED BY <1>1, <1>2, <1>3, <1>5, <2>4 DEF written
<1> QED BY <1>6, <1>7

\* So are the values of a map, its keys are written as they are.
LEMMA WriteOfMap ==
  ASSUME NEW n \in Nat, n + 1 <= MaxHeight, NEW m, DOMAIN m \subseteq STRING,
         \A k \in DOMAIN m : m[k] \in GoValues[n],
         NEW d \in Uncut, d + 1 \in Uncut
  PROVE  WriteCanonical(GoMap(m), d) = GoMap([k \in DOMAIN m |-> WriteCanonical(m[k], d + 1)])
<1>1. d \in Depths /\ ~(d > keyMaxDepth)
  BY UncutIs
<1>2. PICK f : /\ \A u \in GoValues[MaxHeight], e \in Depths : f[<<u, e>>] = WriteValue(f, u, e)
               /\ \A u, e : WriteCanonical(u, e) = f[<<u, e>>]
  BY WriteIs
<1>3. GoMap(m) \in GoValues[MaxHeight]
  <2>1. n + 1 \in Nat
    OBVIOUS
  <2>2. GoMap(m) \in GoValues[n + 1]
    BY PartedValues
  <2> QED BY <2>1, <2>2, HeightsThere
<1> DEFINE w == [k \in DOMAIN m |-> WriteCanonical(m[k], d + 1)]
<1>4. DOMAIN w = DOMAIN m /\ \A k \in DOMAIN m : w[k] = WriteCanonical(m[k], d + 1)
  OBVIOUS
<1> HIDE DEF w
<1>5. CASE DOMAIN m = {}
  <2>1. GoMap(m) = Nil /\ GoMap(w) = Nil
    BY <1>4, <1>5 DEF GoMap
  <2> QED BY <2>1, WriteSimple DEF w
<1>6. CASE DOMAIN m # {}
  <2> DEFINE entries == {<<Basic(k), m[k]>> : k \in DOMAIN m}
             g(e) == <<f[<<e[1], d + 1>>], f[<<e[2], d + 1>>]>>
             rendered == {g(e) : e \in entries}
  <2>1. GoMap(m) = GoValue("map", "", <<>>, entries)
    BY <1>6 DEF GoMap
  <2>2. GoMap(m).kind = "map" /\ GoMap(m).entries = entries
    <3> HIDE DEF entries
    <3>1. /\ GoValue("map", "", <<>>, entries).kind = "map"
          /\ GoValue("map", "", <<>>, entries).entries = entries
      BY DEF GoValue
    <3> QED BY <2>1, <3>1
  <2>3. rendered = {<<Basic(k), w[k]>> : k \in DOMAIN w}
    <3>1. \A k \in DOMAIN m : f[<<Basic(k), d + 1>>] = Basic(k) /\ f[<<m[k], d + 1>>] = w[k]
      <4>1. \A k \in DOMAIN m : WriteCanonical(Basic(k), d + 1) = Basic(k)
        BY WriteSimple
      <4> QED BY <1>2, <1>4, <4>1
    <3>2. \A k \in DOMAIN m : g(<<Basic(k), m[k]>>) = <<Basic(k), w[k]>>
      BY <3>1
    <3> HIDE DEF g
    <3>3. rendered = {g(<<Basic(k), m[k]>>) : k \in DOMAIN m}
      OBVIOUS
    <3>4. {g(<<Basic(k), m[k]>>) : k \in DOMAIN m} = {<<Basic(k), w[k]>> : k \in DOMAIN m}
      BY <3>2
    <3> HIDE DEF rendered
    <3> QED BY <1>4, <3>3, <3>4
  <2>4. WriteMap(f, GoMap(m), d) = GoValue("map", "", <<>>, rendered)
    BY <2>2 DEF WriteMap
  <2> HIDE DEF rendered, entries
  <2>5. GoMap(w) = GoValue("map", "", <<>>, rendered)
    BY <1>4, <1>6, <2>3 DEF GoMap
  <2>6. WriteValue(f, GoMap(m), d) = GoMap(w)
    BY <1>1, <2>2, <2>4, <2>5 DEF WriteValue
  <2> QED BY <1>1, <1>2, <1>3, <2>6 DEF w
<1> QED BY <1>5, <1>6

-----------------------------------------------------------------------------
(* What tells two values apart.                                            *)

\* Values without parts by their text.
LEMMA SimpleApart ==
  ASSUME NEW s, NEW t
  PROVE  /\ Basic(s) = Basic(t) => s = t
         /\ SelfDescribed(s) = SelfDescribed(t) => s = t
<1>1. Basic(s).text = s /\ Basic(t).text = t
  BY DEF Basic, GoValue
<1>2. SelfDescribed(s).text = s /\ SelfDescribed(t).text = t
  BY DEF SelfDescribed, GoValue
<1> QED BY <1>1, <1>2

\* Lists by their elements, structs by their type and fields.
LEMMA PartsApart ==
  ASSUME NEW a, NEW b
  PROVE  /\ GoList(a) = GoList(b) => a = b
         /\ \A s, t : Struct(s, a) = Struct(t, b) => s = t /\ a = b
         /\ \A t : Struct(t, a) # Nil
         /\ GoList(a) = Nil <=> a = <<>>
<1>1. \A t, v : Struct(t, v).text = t /\ Struct(t, v).parts = v /\ Struct(t, v).kind = "struct"
  BY DEF Struct, GoValue
<1>2. Nil.kind = "nil"
  BY DEF Nil, GoValue
<1>3. ASSUME NEW v, v # <<>> PROVE GoList(v).parts = v /\ GoList(v).kind = "list"
  BY <1>3 DEF GoList, GoValue
<1>4. GoList(<<>>) = Nil
  BY DEF GoList
<1>5. GoList(a) = GoList(b) => a = b
  <2>1. CASE a = <<>>
    BY <2>1, <1>2, <1>3, <1>4
  <2>2. CASE b = <<>>
    BY <2>2, <1>2, <1>3, <1>4
  <2>3. CASE a # <<>> /\ b # <<>>
    BY <2>3, <1>3
  <2> QED BY <2>1, <2>2, <2>3
<1>6. \A s, t : Struct(s, a) = Struct(t, b) => s = t /\ a = b
  BY <1>1
<1>7. \A t : Struct(t, a) # Nil
  BY <1>1, <1>2
<1>8. GoList(a) = Nil <=> a = <<>>
  BY <1>2, <1>3, <1>4
<1> QED BY <1>5, <1>6, <1>7, <1>8

\* Maps by their keys and values.
LEMMA MapsApart ==
  ASSUME NEW D, NEW E, NEW a, NEW b, DOMAIN a = D, DOMAIN b = E, GoMap(a) = GoMap(b)
  PROVE  D = E /\ \A k \in D : a[k] = b[k]
<1> DEFINE of(f) == {<<Basic(k), f[k]>> : k \in DOMAIN f}
<1>1. ASSUME NEW f, DOMAIN f # {}
      PROVE  GoMap(f).kind = "map" /\ GoMap(f).entries = of(f)
  BY <1>1 DEF GoMap, GoValue
<1>2. ASSUME NEW f, DOMAIN f = {} PROVE GoMap(f).kind = "nil"
  BY <1>2 DEF GoMap, Nil, GoValue
<1>3. CASE D = {} \/ E = {}
  BY <1>1, <1>2, <1>3
<1>4. CASE D # {} /\ E # {}
  <2>1. of(a) = of(b)
    BY <1>1, <1>4
  <2>2. ASSUME NEW f, NEW g, of(f) = of(g), NEW k \in DOMAIN f
        PROVE  k \in DOMAIN g /\ f[k] = g[k]
    <3>1. <<Basic(k), f[k]>> \in of(g)
      BY <2>2
    <3>2. PICK j \in DOMAIN g : <<Basic(k), f[k]>> = <<Basic(j), g[j]>>
      BY <3>1
    <3>3. Basic(k) = Basic(j) /\ f[k] = g[j]
      BY <3>2
    <3>4. k = j
      BY <3>3, SimpleApart
    <3> QED BY <3>3, <3>4
  <2> HIDE DEF of
  <2>3. \A k \in DOMAIN a : k \in DOMAIN b /\ a[k] = b[k]
    BY <2>1, <2>2
  <2>4. \A k \in DOMAIN b : k \in DOMAIN a
    BY <2>1, <2>2
  <2> QED BY <2>3, <2>4
<1> QED BY <1>3, <1>4

\* Sequences are the same when what is made of each entry of them is.
LEMMA SequencesApart ==
  ASSUME NEW S, NEW s \in Seq(S), NEW t \in Seq(S), DOMAIN s = DOMAIN t,
         \A i \in DOMAIN s : s[i] = t[i]
  PROVE  s = t
<1>1. DOMAIN s = 1 .. Len(s) /\ DOMAIN t = 1 .. Len(t) /\ Len(s) \in Nat /\ Len(t) \in Nat
  BY LenProperties
<1>2. Len(s) = Len(t)
  <2>1. \A m, n \in Nat : 1 .. m = 1 .. n => m = n
    <3> SUFFICES ASSUME NEW m \in Nat, NEW n \in Nat, 1 .. m = 1 .. n PROVE m = n
      OBVIOUS
    <3>1. \A i \in Nat : 1 <= i /\ i <= m <=> 1 <= i /\ i <= n
      OBVIOUS
    <3> QED BY <3>1
  <2> QED BY <1>1, <2>1
<1> QED BY <1>1, <1>2, SeqEqual

\* Lists that are written the same have elements that are.
LEMMA WrittenListsApart ==
  ASSUME NEW n \in Nat, n + 1 <= MaxHeight, NEW u \in Seq(GoValues[n]),
         NEW v \in Seq(GoValues[n]), NEW d \in Uncut,
         WriteCanonical(GoList(u), d) = WriteCanonical(GoList(v), d)
  PROVE  /\ DOMAIN u = DOMAIN v
         /\ \A i \in DOMAIN u : WriteCanonical(u[i], d + 1) = WriteCanonical(v[i], d + 1)
<1> DEFINE wu == [i \in DOMAIN u |-> WriteCanonical(u[i], d + 1)]
           wv == [i \in DOMAIN v |-> WriteCanonical(v[i], d + 1)]
<1>1. GoList(wu) = GoList(wv)
  <2>1. WriteCanonical(GoList(u), d) = GoList(wu)
    BY WriteOfParts
  <2>2. WriteCanonical(GoList(v), d) = GoList(wv)
    BY WriteOfParts
  <2> QED BY <2>1, <2>2
<1>2. DOMAIN wu = DOMAIN u /\ DOMAIN wv = DOMAIN v
  OBVIOUS
<1>3. /\ \A i \in DOMAIN u : wu[i] = WriteCanonical(u[i], d + 1)
      /\ \A i \in DOMAIN v : wv[i] = WriteCanonical(v[i], d + 1)
  OBVIOUS
<1> HIDE DEF wu, wv
<1>4. wu = wv
  BY <1>1, PartsApart
<1> QED BY <1>2, <1>3, <1>4

\* Structs that are written the same have one type, and fields that are.
LEMMA WrittenStructsApart ==
  ASSUME NEW n \in Nat, n + 1 <= MaxHeight, NEW u \in Seq(GoValues[n]),
         NEW v \in Seq(GoValues[n]), NEW s \in STRING, NEW t \in STRING, NEW d \in Uncut,
         WriteCanonical(Struct(s, u), d) = WriteCanonical(Struct(t, v), d)
  PROVE  /\ s = t /\ DOMAIN u = DOMAIN v
         /\ \A i \in DOMAIN u : WriteCanonical(u[i], d + 1) = WriteCanonical(v[i], d + 1)
<1> DEFINE wu == [i \in DOMAIN u |-> WriteCanonical(u[i], d + 1)]
           wv == [i \in DOMAIN v |-> WriteCanonical(v[i], d + 1)]
<1>1. Struct(s, wu) = Struct(t, wv)
  <2>1. WriteCanonical(Struct(s, u), d) = Struct(s, wu)
    BY WriteOfParts
  <2>2. WriteCanonical(Struct(t, v), d) = Struct(t, wv)
    BY WriteOfParts
  <2> QED BY <2>1, <2>2
<1>2. DOMAIN wu = DOMAIN u /\ DOMAIN wv = DOMAIN v
  OBVIOUS
<1>3. /\ \A i \in DOMAIN u : wu[i] = WriteCanonical(u[i], d + 1)
      /\ \A i \in DOMAIN v : wv[i] = WriteCanonical(v[i], d + 1)
  OBVIOUS
<1> HIDE DEF wu, wv
<1>4. s = t /\ wu = wv
  BY <1>1, PartsApart
<1> QED BY <1>2, <1>3, <1>4

\* Maps that are written the same have one set of keys, and values that are.
LEMMA WrittenMapsApart ==
  ASSUME NEW n \in Nat, n + 1 <= MaxHeight, NEW a, NEW b,
         DOMAIN a \subseteq STRING, \A k \in DOMAIN a : a[k] \in GoValues[n],
         DOMAIN b \subseteq STRING, \A k \in DOMAIN b : b[k] \in GoValues[n],
         NEW d \in Uncut, d + 1 \in Uncut,
         WriteCanonical(GoMap(a), d) = WriteCanonical(GoMap(b), d)
  PROVE  /\ DOMAIN a = DOMAIN b
         /\ \A k \in DOMAIN a : WriteCanonical(a[k], d + 1) = WriteCanonical(b[k], d + 1)
<1> DEFINE wa == [k \in DOMAIN a |-> WriteCanonical(a[k], d + 1)]
           wb == [k \in DOMAIN b |-> WriteCanonical(b[k], d + 1)]
<1>1. GoMap(wa) = GoMap(wb)
  BY WriteOfMap
<1>2. DOMAIN wa = DOMAIN a /\ DOMAIN wb = DOMAIN b
  OBVIOUS
<1>3. /\ \A k \in DOMAIN a : wa[k] = WriteCanonical(a[k], d + 1)
      /\ \A k \in DOMAIN b : wb[k] = WriteCanonical(b[k], d + 1)
  OBVIOUS
<1> HIDE DEF wa, wb
<1>4. DOMAIN a = DOMAIN b /\ \A k \in DOMAIN a : wa[k] = wb[k]
  BY <1>1, <1>2, MapsApart
<1> QED BY <1>3, <1>4

\* Whatever is written, a list is nil if it is empty and a struct never.
LEMMA WrittenAsNil ==
  ASSUME NEW n \in Nat, n + 1 <= MaxHeight, NEW u \in Seq(GoValues[n]), NEW d \in Uncut
  PROVE  /\ WriteCanonical(GoList(u), d) = Nil <=> u = <<>>
         /\ \A t \in STRING : WriteCanonical(Struct(t, u), d) # Nil
<1> DEFINE wu == [i \in DOMAIN u |-> WriteCanonical(u[i], d + 1)]
<1>1. /\ WriteCanonical(GoList(u), d) = GoList(wu)
      /\ \A t \in STRING : WriteCanonical(Struct(t, u), d) = Struct(t, wu)
  BY WriteOfParts
<1>2. wu = <<>> <=> u = <<>>
  <2>1. DOMAIN wu = DOMAIN u
    OBVIOUS
  <2>2. DOMAIN u = 1 .. Len(u) /\ Len(u) \in Nat
    BY LenProperties
  <2>3. u = <<>> => wu = <<>>
    OBVIOUS
  <2>4. wu = <<>> => DOMAIN wu = {}
    OBVIOUS
  <2>5. DOMAIN u = {} => u = <<>>
    BY <2>2, EmptySeq
  <2> HIDE DEF wu
  <2> QED BY <2>1, <2>3, <2>4, <2>5
<1> HIDE DEF wu
<1>3. GoList(wu) = Nil <=> wu = <<>>
  BY PartsApart
<1>4. \A t : Struct(t, wu) # Nil
  BY PartsApart
<1> QED BY <1>1, <1>2, <1>3, <1>4

-----------------------------------------------------------------------------
(* The parts of a query.                                                   *)

\* There are heights enough for an expression of any number of levels.
LEMMA EnoughHeight ==
  /\ MaxHeight \in Nat
  /\ \A n \in Nat : n <= 4 => n <= MaxHeight
  /\ \A n \in Nat : n < MaxNesting => 2 * n + 6 \in Nat /\ 2 * n + 6 <= MaxHeight
<1>1. MaxHeight \in Nat /\ MaxHeight >= 2 * MaxNesting + 4 /\ MaxNesting \in Nat
  BY CostAssumption
<1>2. ASSUME NEW n \in Nat, n < MaxNesting PROVE 2 * n + 6 \in Nat /\ 2 * n + 6 <= MaxHeight
  BY <1>1, <1>2
<1>3. ASSUME NEW n \in Nat, n <= 4 PROVE n <= MaxHeight
  BY <1>1, <1>3
<1> QED BY <1>1, <1>2, <1>3

\* A list of texts is told apart by the texts.
LEMMA StringsApart ==
  ASSUME NEW s \in Seq(STRING)
  PROVE  /\ Strings(s) \in GoValues[1]
         /\ \A t \in Seq(STRING) : \A d \in Uncut :
              d + 1 \in Uncut /\ WriteCanonical(Strings(s), d) = WriteCanonical(Strings(t), d)
                => s = t
<1>0. 0 \in Nat /\ 0 + 1 = 1 /\ 1 <= MaxHeight
  BY EnoughHeight
<1> DEFINE basics(t) == [i \in DOMAIN t |-> Basic(t[i])]
<1>1. ASSUME NEW t \in Seq(STRING)
      PROVE  basics(t) \in Seq(GoValues[0])
  <2>1. DOMAIN t = 1 .. Len(t) /\ Len(t) \in Nat /\ \A i \in DOMAIN t : t[i] \in STRING
    BY LenProperties, ElementOfSeq
  <2>2. \A i \in DOMAIN t : Basic(t[i]) \in GoValues[0]
    BY <2>1, SimpleValues
  <2>3. basics(t) \in [1 .. Len(t) -> GoValues[0]]
    BY <2>1, <2>2
  <2> QED BY <2>1, <2>3, SMTT(20)
<1>2. \A t : Strings(t) = GoList(basics(t))
  BY DEF Strings
<1>3. \A t : DOMAIN basics(t) = DOMAIN t /\ \A i \in DOMAIN t : basics(t)[i] = Basic(t[i])
  OBVIOUS
<1> HIDE DEF basics
<1>4. Strings(s) \in GoValues[1]
  <2>1. GoList(basics(s)) \in GoValues[0 + 1]
    BY <1>1, PartedValues
  <2> QED BY <1>0, <1>2, <2>1
<1>5. ASSUME NEW t \in Seq(STRING), NEW d \in Uncut, d + 1 \in Uncut,
             WriteCanonical(Strings(s), d) = WriteCanonical(Strings(t), d)
      PROVE  s = t
  <2>1. /\ DOMAIN basics(s) = DOMAIN basics(t)
        /\ \A i \in DOMAIN basics(s) :
             WriteCanonical(basics(s)[i], d + 1) = WriteCanonical(basics(t)[i], d + 1)
    BY <1>0, <1>1, <1>2, <1>5, WrittenListsApart
  <2>2. DOMAIN s = DOMAIN t
    BY <1>3, <2>1
  <2>3. ASSUME NEW i \in DOMAIN s PROVE s[i] = t[i]
    <3>1. s[i] \in STRING /\ t[i] \in STRING
      BY <2>2, ElementOfSeq, LenProperties
    <3>2. WriteCanonical(Basic(s[i]), d + 1) = WriteCanonical(Basic(t[i]), d + 1)
      BY <1>3, <2>1, <2>2
    <3>3. /\ WriteCanonical(Basic(s[i]), d + 1) = Basic(s[i])
          /\ WriteCanonical(Basic(t[i]), d + 1) = Basic(t[i])
      BY <1>5, <3>1, WriteSimple
    <3> QED BY <3>2, <3>3, SimpleApart
  <2> QED BY <2>2, <2>3, SequencesApart
<1> QED BY <1>4, <1>5

-----------------------------------------------------------------------------
(* GoExpression, an expression as a Go value.                              *)

\* f is the recursive function of GoExpression.
Goes(f) == f = [e \in Expressions[MaxNesting] |-> GoNode(f, e)]

\* A node depends on what its children are made into.
LEMMA NodeByChildren ==
  ASSUME NEW inner, NEW e \in ExpressionsOver(inner), NEW f, NEW g,
         \A y \in inner : f[y] = g[y]
  PROVE  GoNode(f, e) = GoNode(g, e)
<1>1. CASE e.op \in {"nil", "leaf"}
  BY <1>1 DEF GoNode
<1>2. CASE e.op \notin {"nil", "leaf"}
  <2>1. \A i \in DOMAIN e.children : f[e.children[i]] = g[e.children[i]]
    BY <1>2, Operators, ChildrenAre
  <2>2. [i \in DOMAIN e.children |-> f[e.children[i]]]
          = [i \in DOMAIN e.children |-> g[e.children[i]]]
    BY <2>1
  <2>3. f[e.children[1]] = g[e.children[1]]
    BY <1>2, <2>1, Operators, ChildrenAre
  <2> QED BY <2>2, <2>3 DEF GoNode
<1> QED BY <1>1, <1>2

\* There is such a function.
LEMMA GoesExists == \E f : Goes(f)
<1> DEFINE D == Expressions[MaxNesting]
           S == {k \in Nat : k <= MaxNesting =>
                   \E f : /\ f = [x \in D |-> f[x]]
                          /\ \A x \in Expressions[k] : f[x] = GoNode(f, x)}
<1>0. MaxNesting \in Nat
  BY CostAssumption
<1>a. \A k \in Nat : k <= MaxNesting => Expressions[k] \subseteq D
  BY <1>0, ExpressionsGrow
<1>1. 0 \in S
  <2> DEFINE g == [x \in D |-> GoNode(0, x)]
  <2>1. g = [x \in D |-> g[x]] /\ \A x \in D : g[x] = GoNode(0, x)
    OBVIOUS
  <2> HIDE DEF g
  <2>2. ASSUME NEW x \in Expressions[0] PROVE g[x] = GoNode(g, x)
    <3>1. x \in D
      BY <1>a, <1>0
    <3>2. x \in ExpressionsOver({})
      BY ExpressionsAre
    <3>3. GoNode(0, x) = GoNode(g, x)
      BY <3>2, NodeByChildren
    <3> QED BY <2>1, <3>1, <3>3
  <2> QED BY <2>1, <2>2
<1>2. ASSUME NEW k \in Nat, k \in S PROVE k + 1 \in S
  <2> SUFFICES ASSUME k + 1 <= MaxNesting
               PROVE  \E f : /\ f = [x \in D |-> f[x]]
                             /\ \A x \in Expressions[k + 1] : f[x] = GoNode(f, x)
    OBVIOUS
  <2>1. PICK f : \A x \in Expressions[k] : f[x] = GoNode(f, x)
    BY <1>2, <1>0
  <2> DEFINE g == [x \in D |-> GoNode(f, x)]
  <2>2. g = [x \in D |-> g[x]] /\ \A x \in D : g[x] = GoNode(f, x)
    OBVIOUS
  <2> HIDE DEF g
  <2>3. \A y \in Expressions[k] : f[y] = g[y]
    BY <2>1, <2>2, <1>a, <1>0
  <2>4. ASSUME NEW x \in Expressions[k + 1] PROVE g[x] = GoNode(g, x)
    <3>1. x \in D
      BY <1>a, <1>0
    <3>2. x \in ExpressionsOver(Expressions[k])
      <4>1. k + 1 # 0 /\ (k + 1) - 1 = k
        OBVIOUS
      <4> QED BY <4>1, ExpressionsAre
    <3>3. GoNode(f, x) = GoNode(g, x)
      BY <2>3, <3>2, NodeByChildren
    <3> QED BY <2>2, <3>1, <3>3
  <2> QED BY <2>2, <2>4
<1> HIDE DEF S
<1>3. MaxNesting \in S
  BY <1>0, <1>1, <1>2, NatSets
<1>4. PICK f : f = [x \in D |-> f[x]] /\ \A x \in D : f[x] = GoNode(f, x)
  BY <1>0, <1>3 DEF S
<1>5. [x \in D |-> f[x]] = [x \in D |-> GoNode(f, x)]
  BY <1>4
<1> QED BY <1>4, <1>5 DEF Goes

\* The fields of an expression, made of those of its children.
Listed(e, op) ==
  IF e.op # op THEN Nil
  ELSE GoList([i \in DOMAIN e.children |-> GoExpression(e.children[i])])

Negated(e) == IF e.op = "Not" THEN Pointer(GoExpression(e.children[1])) ELSE Nil

Fields(e) == <<Listed(e, "And"), GoLeaf(e, "CostCategories"), GoLeaf(e, "Dimensions"),
               Negated(e), Listed(e, "Or"), GoLeaf(e, "Tags")>>

\* GoExpression is what its definition says.
LEMMA GoExpressionIs ==
  \A e \in Expressions[MaxNesting] : GoExpression(e) = Struct("Expression", Fields(e))
<1> DEFINE F == CHOOSE f : f = [e \in Expressions[MaxNesting] |-> GoNode(f, e)]
<1>1. Goes(F)
  BY GoesExists DEF Goes
<1>2. \A e : GoExpression(e) = F[e]
  BY DEF GoExpression
<1> HIDE DEF F
<1>3. ASSUME NEW e \in Expressions[MaxNesting] PROVE F[e] = GoNode(F, e)
  <2> DEFINE n(g, x) == GoNode(g, x)
  <2>1. F = [x \in Expressions[MaxNesting] |-> n(F, x)]
    BY <1>1 DEF Goes
  <2> HIDE DEF n
  <2>2. F[e] = n(F, e)
    BY <2>1
  <2> QED BY <2>2 DEF n
<1>4. ASSUME NEW e PROVE GoNode(F, e) = Struct("Expression", Fields(e))
  <2>1. \A op : Listed(e, op) = IF e.op # op THEN Nil
                                ELSE GoList([i \in DOMAIN e.children |-> F[e.children[i]]])
    BY <1>2 DEF Listed
  <2>2. Negated(e) = IF e.op = "Not" THEN Pointer(F[e.children[1]]) ELSE Nil
    BY <1>2 DEF Negated
  <2> QED BY <2>1, <2>2 DEF GoNode, Fields
<1> QED BY <1>2, <1>3, <1>4

\* The kinds of leaves are texts.
LEMMA KindsAreTexts ==
  /\ Kinds \subseteq STRING /\ "Expression" \in STRING
  /\ "Dimensions" \in Kinds /\ "Tags" \in Kinds /\ "CostCategories" \in Kinds
<1>1. Kinds \subseteq STRING /\ "Expression" \in STRING
  BY CostAssumption DEF Literals
<1> QED BY <1>1 DEF Kinds

\* The fields of a leaf.
LeafFields(e) == <<Basic(e.on.key), Strings(e.options), Strings(e.values)>>

\* Their height, and with it that of the leaf.
LEMMA LeafHeight ==
  ASSUME NEW e \in Leaves, NEW kind \in STRING
  PROVE  /\ e.on.kind \in Kinds /\ e.on.key \in STRING
         /\ e.values \in Seq(STRING) /\ e.options \in Seq(STRING)
         /\ LeafFields(e) \in Seq(GoValues[1])
         /\ Struct(kind, LeafFields(e)) \in GoValues[2]
         /\ Pointer(Struct(kind, LeafFields(e))) \in GoValues[3]
<1>1. /\ e.on.kind \in Kinds /\ e.on.key \in STRING
      /\ e.values \in Seq(STRING) /\ e.options \in Seq(STRING)
  BY DEF Leaves
<1>2. Basic(e.on.key) \in GoValues[1]
  <2>1. 1 \in Nat
    OBVIOUS
  <2> QED BY <1>1, <2>1, SimpleValues
<1>3. Strings(e.options) \in GoValues[1] /\ Strings(e.values) \in GoValues[1]
  BY <1>1, StringsApart
<1>4. LeafFields(e) \in Seq(GoValues[1])
  <2>1. \A V : \A a, b, c \in V : <<a, b, c>> \in Seq(V)
    OBVIOUS
  <2> QED BY <1>2, <1>3, <2>1 DEF LeafFields
<1> DEFINE leaf == Struct(kind, LeafFields(e))
<1>5. leaf \in GoValues[2]
  <2>1. 1 \in Nat /\ 1 + 1 = 2
    OBVIOUS
  <2>2. leaf \in GoValues[1 + 1]
    BY <1>4, <2>1, PartedValues
  <2> HIDE DEF leaf
  <2> QED BY <2>1, <2>2
<1> HIDE DEF leaf
<1>6. Pointer(leaf) \in GoValues[3]
  <2>1. 2 \in Nat /\ 2 + 1 = 3
    OBVIOUS
  <2>2. Pointer(leaf) \in GoValues[2 + 1]
    BY <1>5, <2>1, PartedValues
  <2> QED BY <2>1, <2>2
<1> QED BY <1>1, <1>4, <1>5, <1>6 DEF leaf

\* What GoLeaf makes of an expression, by whether it is a leaf of the kind.
LEMMA GoLeafIs ==
  ASSUME NEW e, NEW kind \in STRING, e.op = "leaf" => e \in Leaves
  PROVE  /\ GoLeaf(e, kind) \in GoValues[3]
         /\ \A d \in Uncut :
              WriteCanonical(GoLeaf(e, kind), d) = Nil <=> ~(e.op = "leaf" /\ e.on.kind = kind)
         /\ e.op = "leaf" /\ e.on.kind = kind =>
              /\ GoLeaf(e, kind) = Pointer(Struct(kind, LeafFields(e)))
              /\ \A d \in Uncut : WriteCanonical(GoLeaf(e, kind), d)
                                    = WriteCanonical(Struct(kind, LeafFields(e)), d)
<1>1. CASE ~(e.op = "leaf" /\ e.on.kind = kind)
  <2>1. GoLeaf(e, kind) = Nil
    BY <1>1 DEF GoLeaf
  <2>2. Nil \in GoValues[3]
    <3>1. 3 \in Nat
      OBVIOUS
    <3> QED BY <3>1, SimpleValues
  <2> QED BY <1>1, <2>1, <2>2, WriteSimple
<1>2. CASE e.op = "leaf" /\ e.on.kind = kind
  <2>1. GoLeaf(e, kind) = Pointer(Struct(kind, LeafFields(e)))
    BY <1>2 DEF GoLeaf, LeafFields
  <2>2. /\ LeafFields(e) \in Seq(GoValues[1])
        /\ Struct(kind, LeafFields(e)) \in GoValues[2]
        /\ Pointer(Struct(kind, LeafFields(e))) \in GoValues[3]
    BY <1>2, LeafHeight
  <2>3. 1 \in Nat /\ 2 \in Nat /\ 1 + 1 <= MaxHeight /\ 2 + 1 <= MaxHeight
    BY EnoughHeight
  <2>4. ASSUME NEW d \in Uncut
        PROVE  /\ WriteCanonical(Pointer(Struct(kind, LeafFields(e))), d)
                    = WriteCanonical(Struct(kind, LeafFields(e)), d)
               /\ WriteCanonical(Struct(kind, LeafFields(e)), d) # Nil
    <3>1. WriteCanonical(Pointer(Struct(kind, LeafFields(e))), d)
            = WriteCanonical(Struct(kind, LeafFields(e)), d)
      BY <2>2, <2>3, WriteOfPointer
    <3>2. WriteCanonical(Struct(kind, LeafFields(e)), d) # Nil
      BY <2>2, <2>3, WrittenAsNil
    <3> QED BY <3>1, <3>2
  <2> QED BY <1>2, <2>1, <2>2, <2>4
<1> QED BY <1>1, <1>2

\* Leaves of a kind are told apart.
LEMMA LeavesApart ==
  ASSUME NEW a \in Leaves, NEW b \in Leaves, a.on.kind = b.on.kind,
         NEW d \in Uncut, d + 1 \in Uncut, (d + 1) + 1 \in Uncut,
         WriteCanonical(GoLeaf(a, a.on.kind), d) = WriteCanonical(GoLeaf(b, a.on.kind), d)
  PROVE  a = b
<1> DEFINE kind == a.on.kind
<1>1. /\ kind \in STRING /\ a.op = "leaf" /\ b.op = "leaf"
      /\ a.on.key \in STRING /\ a.values \in Seq(STRING) /\ a.options \in Seq(STRING)
      /\ b.on.key \in STRING /\ b.values \in Seq(STRING) /\ b.options \in Seq(STRING)
      /\ LeafFields(a) \in Seq(GoValues[1]) /\ LeafFields(b) \in Seq(GoValues[1])
  <2>1. a.on.kind \in Kinds
    BY DEF Leaves
  <2>2. kind \in STRING
    BY <2>1, KindsAreTexts
  <2> QED BY <2>2, LeafHeight, Operators
<1>2. b.on.kind = kind
  OBVIOUS
<1>3. WriteCanonical(GoLeaf(a, kind), d) = WriteCanonical(GoLeaf(b, kind), d)
  OBVIOUS
<1>4. a.on.kind = kind
  OBVIOUS
<1> HIDE DEF kind
<1>5. WriteCanonical(Struct(kind, LeafFields(a)), d)
      = WriteCanonical(Struct(kind, LeafFields(b)), d)
  <2>1. WriteCanonical(GoLeaf(a, kind), d) = WriteCanonical(Struct(kind, LeafFields(a)), d)
    BY <1>1, <1>4, GoLeafIs
  <2>2. WriteCanonical(GoLeaf(b, kind), d) = WriteCanonical(Struct(kind, LeafFields(b)), d)
    BY <1>1, <1>2, GoLeafIs
  <2> QED BY <1>3, <2>1, <2>2
<1>6. \A i \in DOMAIN LeafFields(a) :
        WriteCanonical(LeafFields(a)[i], d + 1) = WriteCanonical(LeafFields(b)[i], d + 1)
  <2>1. 1 \in Nat /\ 1 + 1 <= MaxHeight
    BY EnoughHeight
  <2> QED BY <1>1, <1>5, <2>1, WrittenStructsApart
<1>7. /\ WriteCanonical(Basic(a.on.key), d + 1) = WriteCanonical(Basic(b.on.key), d + 1)
      /\ WriteCanonical(Strings(a.options), d + 1) = WriteCanonical(Strings(b.options), d + 1)
      /\ WriteCanonical(Strings(a.values), d + 1) = WriteCanonical(Strings(b.values), d + 1)
  <2>1. \A e : /\ LeafFields(e)[1] = Basic(e.on.key) /\ LeafFields(e)[2] = Strings(e.options)
               /\ LeafFields(e)[3] = Strings(e.values)
               /\ {1, 2, 3} \subseteq DOMAIN LeafFields(e)
    BY DEF LeafFields
  <2>2. 1 \in DOMAIN LeafFields(a) /\ 2 \in DOMAIN LeafFields(a) /\ 3 \in DOMAIN LeafFields(a)
    BY <2>1
  <2> QED BY <1>6, <2>1, <2>2
<1>8. a.on.key = b.on.key /\ a.options = b.options /\ a.values = b.values
  <2>1. a.on.key = b.on.key
    <3>1. Basic(a.on.key) = Basic(b.on.key)
      BY <1>1, <1>7, WriteSimple
    <3> QED BY <3>1, SimpleApart
  <2>2. a.options = b.options
    BY <1>1, <1>7, StringsApart
  <2>3. a.values = b.values
    BY <1>1, <1>7, StringsApart
  <2> QED BY <2>1, <2>2, <2>3
<1>9. a.on = b.on
  <2>1. a.on \in [kind : Kinds, key : STRING] /\ b.on \in [kind : Kinds, key : STRING]
    BY DEF Leaves
  <2> QED BY <1>2, <1>4, <1>8, <2>1
<1> HIDE DEF kind
<1> QED BY <1>8, <1>9 DEF Leaves

-----------------------------------------------------------------------------
(* Expressions of any number of levels.                                    *)

\* The heights of the fields are above those of the children.
LEMMA FieldsHeight ==
  ASSUME NEW inner, NEW m \in Nat, m >= 2,
         \A c \in inner : GoExpression(c) \in GoValues[m],
         NEW e \in ExpressionsOver(inner)
  PROVE  /\ Fields(e) \in Seq(GoValues[m + 1])
         /\ e.op \in {"Not", "And", "Or"} =>
              [i \in DOMAIN e.children |-> GoExpression(e.children[i])] \in Seq(GoValues[m])
<1>1. GoValues[3] \subseteq GoValues[m + 1] /\ Nil \in GoValues[m + 1]
  <2>1. m + 1 \in Nat /\ 3 <= m + 1
    OBVIOUS
  <2> QED BY <2>1, GoValuesGrow, SimpleValues
<1>2. e.op = "leaf" => e \in Leaves
  BY Operators, ChildrenAre
<1>3. \A kind \in Kinds : GoLeaf(e, kind) \in GoValues[m + 1]
  BY <1>1, <1>2, GoLeafIs, KindsAreTexts
<1> DEFINE children == [i \in DOMAIN e.children |-> GoExpression(e.children[i])]
<1>4. e.op \in {"Not", "And", "Or"} => children \in Seq(GoValues[m])
  <2> SUFFICES ASSUME e.op \in {"Not", "And", "Or"} PROVE children \in Seq(GoValues[m])
    OBVIOUS
  <2>1. /\ DOMAIN e.children = 1 .. Len(e.children) /\ Len(e.children) \in Nat
        /\ \A i \in DOMAIN e.children : e.children[i] \in inner
    BY Operators, ChildrenAre
  <2>2. children \in [1 .. Len(e.children) -> GoValues[m]]
    BY <2>1
  <2> QED BY <2>1, <2>2
<1>5. Listed(e, "And") \in GoValues[m + 1] /\ Listed(e, "Or") \in GoValues[m + 1]
  <2>1. \A op : Listed(e, op) = IF e.op # op THEN Nil ELSE GoList(children)
    BY DEF Listed
  <2> HIDE DEF children
  <2>2. e.op \in {"Not", "And", "Or"} => GoList(children) \in GoValues[m + 1]
    BY <1>4, PartedValues
  <2> QED BY <1>1, <2>1, <2>2
<1>6. Negated(e) \in GoValues[m + 1]
  <2>1. e.op = "Not" => GoExpression(e.children[1]) \in GoValues[m]
    BY Operators, ChildrenAre
  <2>2. e.op = "Not" => Pointer(GoExpression(e.children[1])) \in GoValues[m + 1]
    BY <2>1, PartedValues
  <2> QED BY <1>1, <2>2 DEF Negated
<1>7. /\ GoLeaf(e, "CostCategories") \in GoValues[m + 1]
      /\ GoLeaf(e, "Dimensions") \in GoValues[m + 1]
      /\ GoLeaf(e, "Tags") \in GoValues[m + 1]
  BY <1>3, KindsAreTexts
<1>8. Fields(e) \in Seq(GoValues[m + 1])
  <2>1. \A V : \A a, b, c, x, y, z \in V : <<a, b, c, x, y, z>> \in Seq(V)
    OBVIOUS
  <2> QED BY <1>5, <1>6, <1>7, <2>1 DEF Fields
<1> QED BY <1>4, <1>8

\* The height of an expression of n levels.
LEMMA ExpressionHeight ==
  \A n \in Nat : n < MaxNesting =>
    /\ 2 * n + 3 \in Nat /\ (2 * n + 3) + 1 = 2 * n + 4 /\ (2 * n + 3) + 1 <= MaxHeight
    /\ \A e \in Expressions[n] : /\ e \in Expressions[MaxNesting]
                                 /\ GoExpression(e) = Struct("Expression", Fields(e))
                                 /\ Fields(e) \in Seq(GoValues[2 * n + 3])
                                 /\ GoExpression(e) \in GoValues[2 * n + 4]
<1>0. MaxNesting \in Nat
  BY CostAssumption
<1>1. ASSUME NEW n \in Nat, n < MaxNesting
      PROVE  /\ 2 * n + 3 \in Nat /\ (2 * n + 3) + 1 = 2 * n + 4 /\ (2 * n + 3) + 1 <= MaxHeight
             /\ \A e \in Expressions[n] : /\ e \in Expressions[MaxNesting]
                                          /\ GoExpression(e) = Struct("Expression", Fields(e))
  <2>1. 2 * n + 3 \in Nat /\ (2 * n + 3) + 1 = 2 * n + 4
    OBVIOUS
  <2>2. (2 * n + 3) + 1 <= MaxHeight
    <3>1. 2 * n + 6 <= MaxHeight /\ MaxHeight \in Nat
      BY <1>1, EnoughHeight
    <3> QED BY <3>1
  <2>3. n <= MaxNesting
    BY <1>0, <1>1
  <2>4. Expressions[n] \subseteq Expressions[MaxNesting]
    BY <1>0, <2>3, ExpressionsGrow
  <2> QED BY <2>1, <2>2, <2>4, GoExpressionIs
<1>2. ASSUME NEW n \in Nat, n < MaxNesting, NEW e \in Expressions[n],
             Fields(e) \in Seq(GoValues[2 * n + 3])
      PROVE  GoExpression(e) \in GoValues[2 * n + 4]
  <2>1. GoExpression(e) = Struct("Expression", Fields(e))
    BY <1>1, <1>2
  <2>2. Struct("Expression", Fields(e)) \in GoValues[(2 * n + 3) + 1]
    <3>1. 2 * n + 3 \in Nat
      OBVIOUS
    <3> QED BY <1>2, <3>1, PartedValues, KindsAreTexts
  <2> QED BY <1>1, <1>2, <2>1, <2>2
<1> DEFINE P(n) == \A e \in Expressions[n] : Fields(e) \in Seq(GoValues[2 * n + 3])
           S == {n \in Nat : n < MaxNesting => P(n)}
<1>3. 0 \in S
  <2>1. P(0)
    <3>1. 2 \in Nat /\ 2 >= 2 /\ 2 + 1 = 3 /\ 2 * 0 + 3 = 3
      OBVIOUS
    <3>2. Expressions[0] = ExpressionsOver({})
      BY ExpressionsAre
    <3>3. \A e \in Expressions[0] : Fields(e) \in Seq(GoValues[2 + 1])
      BY <3>1, <3>2, FieldsHeight
    <3> QED BY <3>1, <3>3
  <2> HIDE DEF P
  <2> QED BY <2>1
<1>4. ASSUME NEW n \in Nat, n \in S PROVE n + 1 \in S
  <2> HIDE DEF P
  <2> SUFFICES ASSUME n + 1 < MaxNesting PROVE P(n + 1)
    OBVIOUS
  <2>1. n < MaxNesting /\ P(n)
    BY <1>0, <1>4
  <2>2. \A c \in Expressions[n] : GoExpression(c) \in GoValues[2 * n + 4]
    BY <1>2, <2>1 DEF P
  <2>3. /\ 2 * n + 4 \in Nat /\ 2 * n + 4 >= 2
        /\ (2 * n + 4) + 1 = 2 * (n + 1) + 3
    OBVIOUS
  <2>4. Expressions[n + 1] = ExpressionsOver(Expressions[n])
    <3>1. n + 1 # 0 /\ (n + 1) - 1 = n
      OBVIOUS
    <3> QED BY <3>1, ExpressionsAre
  <2>5. \A e \in Expressions[n + 1] : Fields(e) \in Seq(GoValues[(2 * n + 4) + 1])
    BY <2>2, <2>3, <2>4, FieldsHeight
  <2> QED BY <2>3, <2>5 DEF P
<1> HIDE DEF S
<1>5. \A n \in Nat : n \in S
  BY <1>3, <1>4, NatSets
<1> QED BY <1>1, <1>2, <1>5 DEF S

\* Which fields of an expression are written as nil.
LEMMA FieldsAsNil ==
  ASSUME NEW inner, NEW m \in Nat, m >= 2, (m + 1) + 1 <= MaxHeight,
         NEW d \in Uncut,
         \A c \in inner : /\ GoExpression(c) \in GoValues[m]
                          /\ WriteCanonical(GoExpression(c), d) # Nil,
         NEW e \in ExpressionsOver(inner)
  PROVE  /\ \A op \in {"And", "Or"} : WriteCanonical(Listed(e, op), d) = Nil <=> e.op # op
         /\ WriteCanonical(Negated(e), d) = Nil <=> e.op # "Not"
         /\ \A kind \in Kinds : WriteCanonical(GoLeaf(e, kind), d) = Nil
                                  <=> ~(e.op = "leaf" /\ e.on.kind = kind)
<1>0. WriteCanonical(Nil, d) = Nil
  BY WriteSimple
<1>1. m + 1 <= MaxHeight
  BY EnoughHeight
<1> DEFINE children == [i \in DOMAIN e.children |-> GoExpression(e.children[i])]
<1>2. ASSUME NEW op \in {"And", "Or"}
      PROVE  WriteCanonical(Listed(e, op), d) = Nil <=> e.op # op
  <2>1. e.op # op => Listed(e, op) = Nil
    BY DEF Listed
  <2>2. ASSUME e.op = op PROVE WriteCanonical(Listed(e, op), d) # Nil
    <3>1. children \in Seq(GoValues[m])
      BY <2>2, FieldsHeight
    <3>2. children # <<>>
      <4>1. 1 \in DOMAIN children
        BY <2>2, Operators, ChildrenAre
      <4> HIDE DEF children
      <4> QED BY <4>1
    <3>3. Listed(e, op) = GoList(children)
      BY <2>2 DEF Listed
    <3> HIDE DEF children
    <3> QED BY <1>1, <3>1, <3>2, <3>3, WrittenAsNil
  <2> QED BY <1>0, <2>1, <2>2
<1>3. WriteCanonical(Negated(e), d) = Nil <=> e.op # "Not"
  <2>1. e.op # "Not" => Negated(e) = Nil
    BY DEF Negated
  <2>2. ASSUME e.op = "Not" PROVE WriteCanonical(Negated(e), d) # Nil
    <3>1. e.children[1] \in inner
      BY <2>2, Operators, ChildrenAre
    <3>2. Negated(e) = Pointer(GoExpression(e.children[1]))
      BY <2>2 DEF Negated
    <3>3. WriteCanonical(Pointer(GoExpression(e.children[1])), d)
            = WriteCanonical(GoExpression(e.children[1]), d)
      BY <1>1, <3>1, WriteOfPointer
    <3> QED BY <3>1, <3>2, <3>3
  <2> QED BY <1>0, <2>1, <2>2
<1>4. e.op = "leaf" => e \in Leaves
  BY Operators, ChildrenAre
<1>5. \A kind \in Kinds : WriteCanonical(GoLeaf(e, kind), d) = Nil
                            <=> ~(e.op = "leaf" /\ e.on.kind = kind)
  BY <1>4, GoLeafIs, KindsAreTexts
<1> QED BY <1>2, <1>3, <1>5

\* Expressions are told apart if their children are.
LEMMA FieldsApart ==
  ASSUME NEW inner, NEW m \in Nat, m >= 2, (m + 1) + 1 <= MaxHeight,
         NEW d \in Uncut, d + 1 \in Uncut, (d + 1) + 1 \in Uncut, ((d + 1) + 1) + 1 \in Uncut,
         \A c \in inner : /\ GoExpression(c) \in GoValues[m]
                          /\ WriteCanonical(GoExpression(c), d + 1) # Nil,
         \A x, y \in inner :
           WriteCanonical(GoExpression(x), d + 1) = WriteCanonical(GoExpression(y), d + 1) => x = y,
         \A x, y \in inner :
           WriteCanonical(GoExpression(x), (d + 1) + 1)
                 = WriteCanonical(GoExpression(y), (d + 1) + 1)
             => x = y,
         NEW a \in ExpressionsOver(inner), NEW b \in ExpressionsOver(inner),
         WriteCanonical(Struct("Expression", Fields(a)), d)
           = WriteCanonical(Struct("Expression", Fields(b)), d)
  PROVE  a = b
<1>0. /\ m + 1 \in Nat /\ m + 1 <= MaxHeight
      /\ Fields(a) \in Seq(GoValues[m + 1]) /\ Fields(b) \in Seq(GoValues[m + 1])
  <2>1. m + 1 \in Nat /\ m + 1 <= MaxHeight
    BY EnoughHeight
  <2>2. Fields(a) \in Seq(GoValues[m + 1]) /\ Fields(b) \in Seq(GoValues[m + 1])
    BY FieldsHeight
  <2> QED BY <2>1, <2>2
<1>1. \A i \in DOMAIN Fields(a) :
        WriteCanonical(Fields(a)[i], d + 1) = WriteCanonical(Fields(b)[i], d + 1)
  BY <1>0, WrittenStructsApart, KindsAreTexts
<1>2. /\ WriteCanonical(Listed(a, "And"), d + 1) = WriteCanonical(Listed(b, "And"), d + 1)
      /\ WriteCanonical(GoLeaf(a, "CostCategories"), d + 1)
           = WriteCanonical(GoLeaf(b, "CostCategories"), d + 1)
      /\ WriteCanonical(GoLeaf(a, "Dimensions"), d + 1)
           = WriteCanonical(GoLeaf(b, "Dimensions"), d + 1)
      /\ WriteCanonical(Negated(a), d + 1) = WriteCanonical(Negated(b), d + 1)
      /\ WriteCanonical(Listed(a, "Or"), d + 1) = WriteCanonical(Listed(b, "Or"), d + 1)
      /\ WriteCanonical(GoLeaf(a, "Tags"), d + 1) = WriteCanonical(GoLeaf(b, "Tags"), d + 1)
  <2>1. \A e : /\ Fields(e)[1] = Listed(e, "And") /\ Fields(e)[2] = GoLeaf(e, "CostCategories")
               /\ Fields(e)[3] = GoLeaf(e, "Dimensions") /\ Fields(e)[4] = Negated(e)
               /\ Fields(e)[5] = Listed(e, "Or") /\ Fields(e)[6] = GoLeaf(e, "Tags")
               /\ {1, 2, 3, 4, 5, 6} \subseteq DOMAIN Fields(e)
    BY DEF Fields
  <2>2. /\ 1 \in DOMAIN Fields(a) /\ 2 \in DOMAIN Fields(a) /\ 3 \in DOMAIN Fields(a)
        /\ 4 \in DOMAIN Fields(a) /\ 5 \in DOMAIN Fields(a) /\ 6 \in DOMAIN Fields(a)
    BY <2>1
  <2> QED BY <1>1, <2>1, <2>2
<1>3. \A e \in ExpressionsOver(inner) :
        /\ WriteCanonical(Listed(e, "And"), d + 1) = Nil <=> e.op # "And"
        /\ WriteCanonical(Listed(e, "Or"), d + 1) = Nil <=> e.op # "Or"
        /\ WriteCanonical(Negated(e), d + 1) = Nil <=> e.op # "Not"
        /\ WriteCanonical(GoLeaf(e, "CostCategories"), d + 1) = Nil
             <=> ~(e.op = "leaf" /\ e.on.kind = "CostCategories")
        /\ WriteCanonical(GoLeaf(e, "Dimensions"), d + 1) = Nil
             <=> ~(e.op = "leaf" /\ e.on.kind = "Dimensions")
        /\ WriteCanonical(GoLeaf(e, "Tags"), d + 1) = Nil
             <=> ~(e.op = "leaf" /\ e.on.kind = "Tags")
  BY FieldsAsNil, KindsAreTexts
<1>4. /\ a.op = "And" <=> b.op = "And"
      /\ a.op = "Or" <=> b.op = "Or"
      /\ a.op = "Not" <=> b.op = "Not"
      /\ \A kind \in Kinds : a.op = "leaf" /\ a.on.kind = kind <=> b.op = "leaf" /\ b.on.kind = kind
  BY <1>2, <1>3 DEF Kinds
<1>5. \A e \in ExpressionsOver(inner) : \/ e = NoExpression /\ e.op = "nil"
                                        \/ e \in Leaves /\ e.op = "leaf" /\ e.on.kind \in Kinds
                                        \/ e.op \in {"Not", "And", "Or"}
  <2>1. \A e \in Leaves : e.on.kind \in Kinds
    BY DEF Leaves
  <2> QED BY <2>1, Operators, ChildrenAre
<1>6. CASE a.op = "nil"
  BY <1>4, <1>5, <1>6
<1>7. CASE a.op = "leaf"
  <2>1. a \in Leaves /\ b \in Leaves /\ a.on.kind = b.on.kind /\ a.on.kind \in Kinds
    BY <1>4, <1>5, <1>7
  <2>2. WriteCanonical(GoLeaf(a, a.on.kind), d + 1) = WriteCanonical(GoLeaf(b, a.on.kind), d + 1)
    BY <1>2, <2>1 DEF Kinds
  <2> QED BY <2>1, <2>2, LeavesApart
<1>8. CASE a.op = "Not"
  <2>1. /\ b.op = "Not" /\ a = Node("Not", a.children) /\ b = Node("Not", b.children)
        /\ a.children \in Seq(inner) /\ b.children \in Seq(inner)
        /\ Len(a.children) = 1 /\ Len(b.children) = 1
        /\ a.children[1] \in inner /\ b.children[1] \in inner
    BY <1>4, <1>8, Operators, ChildrenAre
  <2>2. \A e : e.op = "Not" => Negated(e) = Pointer(GoExpression(e.children[1]))
    BY DEF Negated
  <2>3. WriteCanonical(GoExpression(a.children[1]), d + 1)
          = WriteCanonical(GoExpression(b.children[1]), d + 1)
    <3>1. \A c \in inner : WriteCanonical(Pointer(GoExpression(c)), d + 1)
                             = WriteCanonical(GoExpression(c), d + 1)
      BY <1>0, WriteOfPointer
    <3> QED BY <1>2, <1>8, <2>1, <2>2, <3>1
  <2>4. a.children[1] = b.children[1]
    BY <2>1, <2>3
  <2>5. a.children = b.children
    <3>1. DOMAIN a.children = 1 .. 1 /\ DOMAIN b.children = 1 .. 1
      BY <2>1, LenProperties
    <3>2. \A i \in DOMAIN a.children : a.children[i] = b.children[i]
      BY <2>4, <3>1
    <3> QED BY <2>1, <3>1, <3>2, SequencesApart
  <2> QED BY <2>1, <2>5
<1>9. CASE a.op \in {"And", "Or"}
  <2>1. /\ b.op = a.op /\ a = Node(a.op, a.children) /\ b = Node(a.op, b.children)
        /\ a.children \in Seq(inner) /\ b.children \in Seq(inner)
        /\ \A i \in DOMAIN a.children : a.children[i] \in inner
        /\ \A i \in DOMAIN b.children : b.children[i] \in inner
    BY <1>4, <1>9, Operators, ChildrenAre
  <2> DEFINE made(e) == [i \in DOMAIN e.children |-> GoExpression(e.children[i])]
  <2>2. made(a) \in Seq(GoValues[m]) /\ made(b) \in Seq(GoValues[m])
    BY <1>9, <2>1, FieldsHeight, SMTT(20)
  <2>3. \A e : /\ DOMAIN made(e) = DOMAIN e.children
               /\ \A i \in DOMAIN e.children : made(e)[i] = GoExpression(e.children[i])
               /\ Listed(e, e.op) = GoList(made(e))
    BY DEF Listed
  <2>4. WriteCanonical(Listed(a, a.op), d + 1) = WriteCanonical(Listed(b, b.op), d + 1)
    BY <1>2, <1>9, <2>1
  <2> HIDE DEF made
  <2>5. /\ DOMAIN made(a) = DOMAIN made(b)
        /\ \A i \in DOMAIN made(a) : WriteCanonical(made(a)[i], (d + 1) + 1)
                                       = WriteCanonical(made(b)[i], (d + 1) + 1)
    <3>1. WriteCanonical(GoList(made(a)), d + 1) = WriteCanonical(GoList(made(b)), d + 1)
      BY <2>3, <2>4
    <3> QED BY <1>0, <2>2, <3>1, WrittenListsApart
  <2>6. DOMAIN a.children = DOMAIN b.children
    BY <2>3, <2>5
  <2>7. \A i \in DOMAIN a.children : a.children[i] = b.children[i]
    BY <2>1, <2>3, <2>5, <2>6
  <2>8. a.children = b.children
    BY <2>1, <2>6, <2>7, SequencesApart
  <2> QED BY <2>1, <2>8
<1> QED BY <1>5, <1>6, <1>7, <1>8, <1>9

\* Expressions are told apart if their deepest values are not cut.
LEMMA ExpressionsApart ==
  \A n \in Nat : n < MaxNesting =>
    \A d \in Nat : d + 2 * n + 3 <= keyMaxDepth =>
      \A x, y \in Expressions[n] :
        WriteCanonical(GoExpression(x), d) = WriteCanonical(GoExpression(y), d) => x = y
<1> DEFINE Apart(E, d) == \A x, y \in E :
             WriteCanonical(GoExpression(x), d) = WriteCanonical(GoExpression(y), d) => x = y
           P(n) == \A d \in Nat : d + 2 * n + 3 <= keyMaxDepth => Apart(Expressions[n], d)
           S == {n \in Nat : n < MaxNesting => P(n)}
<1>0. MaxNesting \in Nat
  BY CostAssumption
<1>1. ASSUME NEW d \in Nat, d + 3 <= 12
      PROVE  /\ d \in Uncut /\ d + 1 \in Uncut /\ (d + 1) + 1 \in Uncut
             /\ ((d + 1) + 1) + 1 \in Uncut
  BY <1>1 DEF Uncut, keyMaxDepth
<1>2. keyMaxDepth = 12
  BY DEF keyMaxDepth
<1>3. ASSUME NEW inner, NEW m \in Nat, m >= 2, (m + 1) + 1 <= MaxHeight,
             NEW d \in Nat, d + 3 <= 12,
             \A c \in inner : /\ GoExpression(c) \in GoValues[m]
                              /\ \A at \in Uncut : WriteCanonical(GoExpression(c), at) # Nil,
             Apart(inner, d + 1), Apart(inner, (d + 1) + 1),
             ExpressionsOver(inner) \subseteq Expressions[MaxNesting]
      PROVE  Apart(ExpressionsOver(inner), d)
  <2> SUFFICES ASSUME NEW x \in ExpressionsOver(inner), NEW y \in ExpressionsOver(inner),
                      WriteCanonical(GoExpression(x), d) = WriteCanonical(GoExpression(y), d)
               PROVE  x = y
    OBVIOUS
  <2>1. /\ d \in Uncut /\ d + 1 \in Uncut /\ (d + 1) + 1 \in Uncut
        /\ ((d + 1) + 1) + 1 \in Uncut
    BY <1>1, <1>3
  <2>2. WriteCanonical(Struct("Expression", Fields(x)), d)
          = WriteCanonical(Struct("Expression", Fields(y)), d)
    BY <1>3, GoExpressionIs
  <2>3. \A c \in inner : /\ GoExpression(c) \in GoValues[m]
                         /\ WriteCanonical(GoExpression(c), d + 1) # Nil
    BY <1>3, <2>1
  <2>4. /\ \A u, v \in inner :
             WriteCanonical(GoExpression(u), d + 1)
                   = WriteCanonical(GoExpression(v), d + 1) => u = v
        /\ \A u, v \in inner :
             WriteCanonical(GoExpression(u), (d + 1) + 1)
                   = WriteCanonical(GoExpression(v), (d + 1) + 1)
               => u = v
    BY <1>3
  <2> QED BY <1>3, <2>1, <2>2, <2>3, <2>4, FieldsApart
<1>4. 0 \in S
  <2>1. ASSUME 0 < MaxNesting, NEW d \in Nat, d + 2 * 0 + 3 <= keyMaxDepth
        PROVE  Apart(Expressions[0], d)
    <3>1. Expressions[0] = ExpressionsOver({}) /\ Expressions[0] \subseteq Expressions[MaxNesting]
      BY <2>1, ExpressionsAre, ExpressionHeight
    <3>2. 2 \in Nat /\ 2 >= 2 /\ (2 + 1) + 1 <= MaxHeight /\ d + 3 <= 12
      BY <1>2, <2>1, EnoughHeight
    <3>3. Apart({}, d + 1) /\ Apart({}, (d + 1) + 1)
      OBVIOUS
    <3> HIDE DEF Apart
    <3>4. Apart(ExpressionsOver({}), d)
      BY <1>3, <3>1, <3>2, <3>3
    <3> QED BY <3>1, <3>4
  <2> HIDE DEF Apart
  <2> QED BY <2>1
<1>5. ASSUME NEW n \in Nat, n \in S PROVE n + 1 \in S
  <2>1. ASSUME n + 1 < MaxNesting, NEW d \in Nat, d + 2 * (n + 1) + 3 <= keyMaxDepth
        PROVE  Apart(Expressions[n + 1], d)
    <3>1. n < MaxNesting
      BY <1>0, <2>1
    <3>2. P(n)
      BY <1>5, <3>1
    <3>3. Expressions[n + 1] = ExpressionsOver(Expressions[n])
      <4>1. n + 1 \in Nat /\ n + 1 # 0 /\ (n + 1) - 1 = n
        OBVIOUS
      <4> QED BY <4>1, ExpressionsAre
    <3>4. Expressions[n + 1] \subseteq Expressions[MaxNesting]
      <4>1. n + 1 \in Nat
        OBVIOUS
      <4> QED BY <2>1, <4>1, ExpressionHeight
    <3>5. /\ 2 * n + 4 \in Nat /\ 2 * n + 4 >= 2 /\ ((2 * n + 4) + 1) + 1 <= MaxHeight
          /\ d + 3 <= 12 /\ d + 1 \in Nat /\ (d + 1) + 1 \in Nat
          /\ (d + 1) + 2 * n + 3 <= keyMaxDepth /\ ((d + 1) + 1) + 2 * n + 3 <= keyMaxDepth
      <4>1. 2 * n + 6 <= MaxHeight /\ MaxHeight \in Nat
        BY <3>1, EnoughHeight
      <4> QED BY <1>2, <2>1, <4>1
    <3>6. Apart(Expressions[n], d + 1) /\ Apart(Expressions[n], (d + 1) + 1)
      <4> HIDE DEF Apart
      <4> QED BY <3>2, <3>5
    <3>7. \A c \in Expressions[n] :
            /\ GoExpression(c) \in GoValues[2 * n + 4]
            /\ \A at \in Uncut : WriteCanonical(GoExpression(c), at) # Nil
      <4> SUFFICES ASSUME NEW c \in Expressions[n]
                   PROVE  /\ GoExpression(c) \in GoValues[2 * n + 4]
                          /\ \A at \in Uncut : WriteCanonical(GoExpression(c), at) # Nil
        OBVIOUS
      <4>1. /\ 2 * n + 3 \in Nat /\ (2 * n + 3) + 1 <= MaxHeight
            /\ GoExpression(c) = Struct("Expression", Fields(c))
            /\ Fields(c) \in Seq(GoValues[2 * n + 3])
            /\ GoExpression(c) \in GoValues[2 * n + 4]
        BY <3>1, ExpressionHeight
      <4>2. \A at \in Uncut : WriteCanonical(Struct("Expression", Fields(c)), at) # Nil
        BY <4>1, WrittenAsNil, KindsAreTexts
      <4> QED BY <4>1, <4>2
    <3> HIDE DEF Apart
    <3>8. Apart(ExpressionsOver(Expressions[n]), d)
      BY <1>3, <3>3, <3>4, <3>5, <3>6, <3>7
    <3> QED BY <3>3, <3>8
  <2> HIDE DEF Apart
  <2>2. n + 1 \in Nat
    OBVIOUS
  <2> QED BY <2>1, <2>2
<1> HIDE DEF S
<1>6. \A n \in Nat : n \in S
  BY <1>4, <1>5, NatSets
<1> QED BY <1>6 DEF S

-----------------------------------------------------------------------------
(* The key of a query.                                                     *)

\* A row is a value of two levels, which tells it apart.
LEMMA RowsApart ==
  ASSUME NEW r \in Rows
  PROVE  /\ GoRow(r) \in GoValues[2]
         /\ \A s \in Rows : \A d \in Uncut :
              d + 1 \in Uncut /\ (d + 1) + 1 \in Uncut
                /\ WriteCanonical(GoRow(r), d) = WriteCanonical(GoRow(s), d)
              => r = s
<1> DEFINE flag(t) == IF t.exclude THEN "true" ELSE "false"
           fields(t) == <<Basic(t.on.key), Strings(t.values), Strings(t.options), Basic(flag(t))>>
<1>0. 1 \in Nat /\ 1 + 1 = 2 /\ 1 + 1 <= MaxHeight
  BY EnoughHeight
<1>1. ASSUME NEW t \in Rows
      PROVE  /\ t.on \in [kind : Kinds, key : STRING] /\ t.on.kind \in STRING
             /\ t.on.key \in STRING
             /\ t.values \in Seq(STRING) /\ t.options \in Seq(STRING)
             /\ t.exclude \in BOOLEAN /\ flag(t) \in STRING
             /\ GoRow(t) = Struct(t.on.kind, fields(t))
  <2>1. /\ t.on \in [kind : Kinds, key : STRING] /\ t.values \in Seq(STRING)
        /\ t.options \in Seq(STRING) /\ t.exclude \in BOOLEAN
    BY DEF Rows
  <2>2. t.on.kind \in STRING /\ t.on.key \in STRING
    BY <2>1, KindsAreTexts
  <2>3. flag(t) \in STRING
    <3>1. "true" \in STRING /\ "false" \in STRING
      BY CostAssumption DEF Literals
    <3> QED BY <3>1
  <2>4. GoRow(t) = Struct(t.on.kind, fields(t))
    BY DEF GoRow
  <2> QED BY <2>1, <2>2, <2>3, <2>4
<1>2. ASSUME NEW t \in Rows PROVE fields(t) \in Seq(GoValues[1])
  <2> HIDE DEF flag
  <2>1. Basic(t.on.key) \in GoValues[1] /\ Basic(flag(t)) \in GoValues[1]
    BY <1>0, <1>1, SimpleValues
  <2>2. Strings(t.values) \in GoValues[1] /\ Strings(t.options) \in GoValues[1]
    BY <1>1, StringsApart
  <2>3. \A V : \A a, b, c, x \in V : <<a, b, c, x>> \in Seq(V)
    OBVIOUS
  <2> QED BY <2>1, <2>2, <2>3
<1>3. \A t : /\ fields(t)[1] = Basic(t.on.key) /\ fields(t)[2] = Strings(t.values)
             /\ fields(t)[3] = Strings(t.options) /\ fields(t)[4] = Basic(flag(t))
             /\ {1, 2, 3, 4} \subseteq DOMAIN fields(t)
  <2> HIDE DEF flag
  <2> QED OBVIOUS
<1>4. \A t, u \in Rows : flag(t) = flag(u) => t.exclude = u.exclude
  BY <1>1
<1> HIDE DEF fields, flag
<1>5. GoRow(r) \in GoValues[2]
  <2>1. Struct(r.on.kind, fields(r)) \in GoValues[1 + 1]
    BY <1>0, <1>1, <1>2, PartedValues
  <2> QED BY <1>0, <1>1, <2>1
<1>6. ASSUME NEW s \in Rows, NEW d \in Uncut, d + 1 \in Uncut, (d + 1) + 1 \in Uncut,
             WriteCanonical(GoRow(r), d) = WriteCanonical(GoRow(s), d)
      PROVE  r = s
  <2>1. /\ r.on.kind = s.on.kind
        /\ \A i \in DOMAIN fields(r) :
             WriteCanonical(fields(r)[i], d + 1) = WriteCanonical(fields(s)[i], d + 1)
    <3>1. WriteCanonical(Struct(r.on.kind, fields(r)), d)
            = WriteCanonical(Struct(s.on.kind, fields(s)), d)
      BY <1>1, <1>6
    <3>2. /\ r.on.kind \in STRING /\ s.on.kind \in STRING
          /\ fields(r) \in Seq(GoValues[1]) /\ fields(s) \in Seq(GoValues[1])
      BY <1>1, <1>2, <1>6
    <3> DEFINE p == r.on.kind
               q == s.on.kind
    <3>3. p \in STRING /\ q \in STRING
      BY <3>2
    <3>4. WriteCanonical(Struct(p, fields(r)), d) = WriteCanonical(Struct(q, fields(s)), d)
      BY <3>1
    <3> HIDE DEF p, q
    <3>5. /\ p = q
          /\ \A i \in DOMAIN fields(r) :
               WriteCanonical(fields(r)[i], d + 1) = WriteCanonical(fields(s)[i], d + 1)
      BY <1>0, <3>2, <3>3, <3>4, WrittenStructsApart
    <3> QED BY <3>5 DEF p, q
  <2>2. /\ 1 \in DOMAIN fields(r) /\ 2 \in DOMAIN fields(r)
        /\ 3 \in DOMAIN fields(r) /\ 4 \in DOMAIN fields(r)
    BY <1>3
  <2>3. /\ WriteCanonical(Basic(r.on.key), d + 1) = WriteCanonical(Basic(s.on.key), d + 1)
        /\ WriteCanonical(Strings(r.values), d + 1) = WriteCanonical(Strings(s.values), d + 1)
        /\ WriteCanonical(Strings(r.options), d + 1) = WriteCanonical(Strings(s.options), d + 1)
        /\ WriteCanonical(Basic(flag(r)), d + 1) = WriteCanonical(Basic(flag(s)), d + 1)
    BY <1>3, <2>1, <2>2
  <2>4. r.on.key = s.on.key /\ flag(r) = flag(s)
    <3>1. Basic(r.on.key) = Basic(s.on.key) /\ Basic(flag(r)) = Basic(flag(s))
      <4>1. /\ r.on.key \in STRING /\ s.on.key \in STRING
            /\ flag(r) \in STRING /\ flag(s) \in STRING
        BY <1>1, <1>6
      <4> QED BY <1>6, <2>3, <4>1, WriteSimple
    <3>2. r.on.key = s.on.key
      BY <3>1, SimpleApart
    <3>3. flag(r) = flag(s)
      BY <3>1, SimpleApart
    <3> QED BY <3>2, <3>3
  <2>5. r.values = s.values
    BY <1>1, <1>6, <2>3, StringsApart
  <2>6. r.options = s.options
    BY <1>1, <1>6, <2>3, StringsApart
  <2>7. r.on = s.on
    <3>1. /\ r.on \in [kind : Kinds, key : STRING] /\ s.on \in [kind : Kinds, key : STRING]
          /\ r.on.kind = s.on.kind /\ r.on.key = s.on.key
      BY <1>1, <2>1, <2>4
    <3> QED BY <3>1
  <2>8. r.exclude = s.exclude
    BY <1>4, <2>4
  <2> QED BY <2>5, <2>6, <2>7, <2>8 DEF Rows
<1> QED BY <1>5, <1>6

\* The groupings.
Groupings == [type : STRING, key : STRING]

GoGrouping(g) == Struct("GroupDefinition", <<Basic(g.key), Basic(g.type)>>)

\* A grouping is a value of one level, which tells it apart.
LEMMA GroupingsApart ==
  ASSUME NEW g \in Groupings
  PROVE  /\ GoGrouping(g) \in GoValues[1]
         /\ \A h \in Groupings : \A d \in Uncut :
              d + 1 \in Uncut /\ WriteCanonical(GoGrouping(g), d) = WriteCanonical(GoGrouping(h), d)
              => g = h
<1> DEFINE fields(t) == <<Basic(t.key), Basic(t.type)>>
<1>0. 0 \in Nat /\ 0 + 1 = 1 /\ 0 + 1 <= MaxHeight /\ "GroupDefinition" \in STRING
  <2>1. "GroupDefinition" \in STRING
    BY CostAssumption DEF Literals
  <2> QED BY <2>1, EnoughHeight
<1>1. ASSUME NEW t \in Groupings
      PROVE  /\ t.key \in STRING /\ t.type \in STRING
             /\ GoGrouping(t) = Struct("GroupDefinition", fields(t))
             /\ fields(t) \in Seq(GoValues[0])
  <2>1. t.key \in STRING /\ t.type \in STRING
    BY DEF Groupings
  <2>2. Basic(t.key) \in GoValues[0] /\ Basic(t.type) \in GoValues[0]
    BY <1>0, <2>1, SimpleValues
  <2>3. \A V : \A a, b \in V : <<a, b>> \in Seq(V)
    OBVIOUS
  <2>4. fields(t) \in Seq(GoValues[0])
    BY <2>2, <2>3
  <2> QED BY <2>1, <2>4 DEF GoGrouping
<1>2. \A t : /\ fields(t)[1] = Basic(t.key) /\ fields(t)[2] = Basic(t.type)
             /\ {1, 2} \subseteq DOMAIN fields(t)
  OBVIOUS
<1> HIDE DEF fields
<1>3. GoGrouping(g) \in GoValues[1]
  <2>1. Struct("GroupDefinition", fields(g)) \in GoValues[0 + 1]
    BY <1>0, <1>1, PartedValues
  <2> QED BY <1>0, <1>1, <2>1
<1>4. ASSUME NEW h \in Groupings, NEW d \in Uncut, d + 1 \in Uncut,
             WriteCanonical(GoGrouping(g), d) = WriteCanonical(GoGrouping(h), d)
      PROVE  g = h
  <2>1. \A i \in DOMAIN fields(g) :
          WriteCanonical(fields(g)[i], d + 1) = WriteCanonical(fields(h)[i], d + 1)
    <3>1. WriteCanonical(Struct("GroupDefinition", fields(g)), d)
            = WriteCanonical(Struct("GroupDefinition", fields(h)), d)
      BY <1>1, <1>4
    <3> QED BY <1>0, <1>1, <3>1, WrittenStructsApart
  <2>2. 1 \in DOMAIN fields(g) /\ 2 \in DOMAIN fields(g)
    BY <1>2
  <2>3. /\ WriteCanonical(Basic(g.key), d + 1) = WriteCanonical(Basic(h.key), d + 1)
        /\ WriteCanonical(Basic(g.type), d + 1) = WriteCanonical(Basic(h.type), d + 1)
    BY <1>2, <2>1, <2>2
  <2>4. Basic(g.key) = Basic(h.key) /\ Basic(g.type) = Basic(h.type)
    BY <1>1, <1>4, <2>3, WriteSimple
  <2>5. g.key = h.key
    BY <2>4, SimpleApart
  <2>6. g.type = h.type
    BY <2>4, SimpleApart
  <2> QED BY <2>5, <2>6 DEF Groupings
<1> QED BY <1>3, <1>4

-----------------------------------------------------------------------------

\* Rows, groupings and tags as Go values.
GoRows(rows) == GoList([i \in DOMAIN rows |-> GoRow(rows[i])])

GoGroupings(gs) == GoList([i \in DOMAIN gs |-> GoGrouping(gs[i])])

GoTags(D, tags) == GoMap([k \in D |-> Strings(tags[k])])

\* Lists of rows are told apart by their elements.
LEMMA RowListsApart ==
  ASSUME NEW rs \in Seq(Rows)
  PROVE  /\ GoRows(rs) \in GoValues[3]
         /\ \A ss \in Seq(Rows) : \A d \in Uncut :
              d + 1 \in Uncut /\ (d + 1) + 1 \in Uncut /\ ((d + 1) + 1) + 1 \in Uncut
                /\ WriteCanonical(GoRows(rs), d)
                     = WriteCanonical(GoRows(ss), d)
              => rs = ss
<1> DEFINE made(s) == [i \in DOMAIN s |-> GoRow(s[i])]
<1>0. 2 \in Nat /\ 2 + 1 = 3 /\ 2 + 1 <= MaxHeight
  BY EnoughHeight
<1>1. ASSUME NEW s \in Seq(Rows)
      PROVE  made(s) \in Seq(GoValues[2]) /\ \A i \in DOMAIN s : s[i] \in Rows
  <2>1. DOMAIN s = 1 .. Len(s) /\ Len(s) \in Nat /\ \A i \in DOMAIN s : s[i] \in Rows
    BY LenProperties, ElementOfSeq
  <2>2. made(s) \in [1 .. Len(s) -> GoValues[2]]
    BY <2>1, RowsApart
  <2> QED BY <2>1, <2>2
<1>2. \A s : DOMAIN made(s) = DOMAIN s /\ \A i \in DOMAIN s : made(s)[i] = GoRow(s[i])
  OBVIOUS
<1> HIDE DEF made
<1>3. GoList(made(rs)) \in GoValues[3]
  <2>1. GoList(made(rs)) \in GoValues[2 + 1]
    BY <1>0, <1>1, PartedValues
  <2> QED BY <1>0, <2>1
<1>4. ASSUME NEW ss \in Seq(Rows), NEW d \in Uncut,
             d + 1 \in Uncut, (d + 1) + 1 \in Uncut, ((d + 1) + 1) + 1 \in Uncut,
             WriteCanonical(GoList(made(rs)), d) = WriteCanonical(GoList(made(ss)), d)
      PROVE  rs = ss
  <2>1. /\ DOMAIN made(rs) = DOMAIN made(ss)
        /\ \A i \in DOMAIN made(rs) :
             WriteCanonical(made(rs)[i], d + 1) = WriteCanonical(made(ss)[i], d + 1)
    BY <1>0, <1>1, <1>4, WrittenListsApart
  <2>2. DOMAIN rs = DOMAIN ss
    BY <1>2, <2>1
  <2>3. ASSUME NEW i \in DOMAIN rs PROVE rs[i] = ss[i]
    <3>1. WriteCanonical(GoRow(rs[i]), d + 1) = WriteCanonical(GoRow(ss[i]), d + 1)
      BY <1>2, <2>1, <2>2
    <3>2. rs[i] \in Rows /\ ss[i] \in Rows
      BY <1>1, <2>2
    <3> QED BY <1>4, <3>1, <3>2, RowsApart
  <2> QED BY <2>2, <2>3, SequencesApart
<1>5. \A s : GoRows(s) = GoList(made(s))
  BY DEF GoRows, made
<1> QED BY <1>3, <1>4, <1>5

\* Likewise for groupings.
LEMMA GroupingListsApart ==
  ASSUME NEW rs \in Seq(Groupings)
  PROVE  /\ GoGroupings(rs) \in GoValues[2]
         /\ \A ss \in Seq(Groupings) : \A d \in Uncut :
              d + 1 \in Uncut /\ (d + 1) + 1 \in Uncut
                /\ WriteCanonical(GoGroupings(rs), d)
                     = WriteCanonical(GoGroupings(ss), d)
              => rs = ss
<1> DEFINE made(s) == [i \in DOMAIN s |-> GoGrouping(s[i])]
<1>0. 1 \in Nat /\ 1 + 1 = 2 /\ 1 + 1 <= MaxHeight
  BY EnoughHeight
<1>1. ASSUME NEW s \in Seq(Groupings)
      PROVE  made(s) \in Seq(GoValues[1]) /\ \A i \in DOMAIN s : s[i] \in Groupings
  <2>1. DOMAIN s = 1 .. Len(s) /\ Len(s) \in Nat /\ \A i \in DOMAIN s : s[i] \in Groupings
    BY LenProperties, ElementOfSeq
  <2>2. made(s) \in [1 .. Len(s) -> GoValues[1]]
    BY <2>1, GroupingsApart
  <2> QED BY <2>1, <2>2, SMTT(20)
<1>2. \A s : DOMAIN made(s) = DOMAIN s /\ \A i \in DOMAIN s : made(s)[i] = GoGrouping(s[i])
  OBVIOUS
<1> HIDE DEF made
<1>3. GoList(made(rs)) \in GoValues[2]
  <2>1. GoList(made(rs)) \in GoValues[1 + 1]
    BY <1>0, <1>1, PartedValues
  <2> QED BY <1>0, <2>1
<1>4. ASSUME NEW ss \in Seq(Groupings), NEW d \in Uncut,
             d + 1 \in Uncut, (d + 1) + 1 \in Uncut,
             WriteCanonical(GoList(made(rs)), d) = WriteCanonical(GoList(made(ss)), d)
      PROVE  rs = ss
  <2>1. /\ DOMAIN made(rs) = DOMAIN made(ss)
        /\ \A i \in DOMAIN made(rs) :
             WriteCanonical(made(rs)[i], d + 1) = WriteCanonical(made(ss)[i], d + 1)
    BY <1>0, <1>1, <1>4, WrittenListsApart
  <2>2. DOMAIN rs = DOMAIN ss
    BY <1>2, <2>1
  <2>3. ASSUME NEW i \in DOMAIN rs PROVE rs[i] = ss[i]
    <3>1. WriteCanonical(GoGrouping(rs[i]), d + 1) = WriteCanonical(GoGrouping(ss[i]), d + 1)
      BY <1>2, <2>1, <2>2
    <3>2. rs[i] \in Groupings /\ ss[i] \in Groupings
      BY <1>1, <2>2
    <3> QED BY <1>4, <3>1, <3>2, GroupingsApart
  <2> QED BY <2>2, <2>3, SequencesApart
<1>5. \A s : GoGroupings(s) = GoList(made(s))
  BY DEF GoGroupings, made
<1> QED BY <1>3, <1>4, <1>5

\* The tags are told apart by their keys and their values.
LEMMA TagsApart ==
  ASSUME NEW D \in SUBSET STRING, NEW a \in [D -> Seq(STRING)]
  PROVE  /\ GoTags(D, a) \in GoValues[2]
         /\ \A E \in SUBSET STRING : \A b \in [E -> Seq(STRING)] : \A d \in Uncut :
              d + 1 \in Uncut /\ (d + 1) + 1 \in Uncut
                /\ WriteCanonical(GoTags(D, a), d)
                     = WriteCanonical(GoTags(E, b), d)
              => D = E /\ a = b
<1> DEFINE made(S, c) == [k \in S |-> Strings(c[k])]
<1>0. 1 \in Nat /\ 1 + 1 = 2 /\ 1 + 1 <= MaxHeight
  BY EnoughHeight
<1>1. \A S, c : DOMAIN made(S, c) = S /\ \A k \in S : made(S, c)[k] = Strings(c[k])
  OBVIOUS
<1> HIDE DEF made
<1>2. ASSUME NEW S \in SUBSET STRING, NEW c \in [S -> Seq(STRING)]
      PROVE  /\ DOMAIN made(S, c) \subseteq STRING
             /\ \A k \in DOMAIN made(S, c) : made(S, c)[k] \in GoValues[1]
  <2>1. \A k \in S : c[k] \in Seq(STRING)
    OBVIOUS
  <2>2. \A k \in S : Strings(c[k]) \in GoValues[1]
    BY <2>1, StringsApart
  <2>3. DOMAIN made(S, c) = S /\ \A k \in S : made(S, c)[k] = Strings(c[k])
    BY <1>1
  <2> QED BY <2>2, <2>3
<1>3. GoMap(made(D, a)) \in GoValues[2]
  <2>1. GoMap(made(D, a)) \in GoValues[1 + 1]
    BY <1>0, <1>2, PartedValues
  <2> QED BY <1>0, <2>1
<1>4. ASSUME NEW E \in SUBSET STRING, NEW b \in [E -> Seq(STRING)], NEW d \in Uncut,
             d + 1 \in Uncut, (d + 1) + 1 \in Uncut,
             WriteCanonical(GoMap(made(D, a)), d) = WriteCanonical(GoMap(made(E, b)), d)
      PROVE  D = E /\ a = b
  <2> DEFINE m == made(D, a)
             n == made(E, b)
  <2>1. /\ DOMAIN m \subseteq STRING /\ \A k \in DOMAIN m : m[k] \in GoValues[1]
        /\ DOMAIN n \subseteq STRING /\ \A k \in DOMAIN n : n[k] \in GoValues[1]
        /\ WriteCanonical(GoMap(m), d) = WriteCanonical(GoMap(n), d)
    BY <1>2, <1>4
  <2>2. /\ DOMAIN m = D /\ \A k \in D : m[k] = Strings(a[k])
        /\ DOMAIN n = E /\ \A k \in E : n[k] = Strings(b[k])
    BY <1>1
  <2> HIDE DEF m, n
  <2>3. /\ DOMAIN m = DOMAIN n
        /\ \A k \in DOMAIN m : WriteCanonical(m[k], d + 1) = WriteCanonical(n[k], d + 1)
    BY <1>0, <1>4, <2>1, WrittenMapsApart
  <2>4. D = E
    BY <2>2, <2>3
  <2>5. ASSUME NEW k \in D PROVE a[k] = b[k]
    <3>1. a[k] \in Seq(STRING) /\ b[k] \in Seq(STRING)
      BY <2>4
    <3>2. WriteCanonical(Strings(a[k]), d + 1) = WriteCanonical(Strings(b[k]), d + 1)
      BY <2>2, <2>3, <2>4
    <3> QED BY <1>4, <3>1, <3>2, StringsApart
  <2>6. a = [k \in D |-> a[k]] /\ b = [k \in E |-> b[k]]
    OBVIOUS
  <2>7. [k \in D |-> a[k]] = [k \in E |-> b[k]]
    BY <2>4, <2>5
  <2> QED BY <2>4, <2>6, <2>7
<1>5. \A S, c : GoTags(S, c) = GoMap(made(S, c))
  BY DEF GoTags, made
<1> QED BY <1>3, <1>4, <1>5

\* The fields of a query as Go values.
GoFilter(e) == IF e = NoExpression THEN Nil ELSE Pointer(GoExpression(e))

QueryFields(q) ==
  <<SelfDescribed(TimeText[q.start]), SelfDescribed(TimeText[q.end]),
    Basic(q.granularity), Strings(q.metrics), Strings(q.services),
    GoTags(DOMAIN q.tags, q.tags), GoRows(q.filters), GoFilter(q.filter),
    GoGroupings(q.groupBy), Basic(q.billingViewArn)>>

\* GoQuery is the struct of them.
LEMMA GoQueryIs == \A q : GoQuery(q) = Struct("CostQuery", QueryFields(q))
BY DEF GoQuery, QueryFields, GoRows, GoGroupings, GoGrouping, GoTags, GoFilter

\* The times are told apart.
LEMMA TimesApart ==
  /\ \A t \in Times : TimeText[t] \in STRING
  /\ \A t, u \in Times : TimeText[t] = TimeText[u] => t = u
<1>1. TimeText \in [Times -> STRING] /\ IsInjective(TimeText)
  BY CostAssumption
<1>2. DOMAIN TimeText = Times
  BY DEF Times
<1> QED BY <1>1, <1>2 DEF IsInjective

\* The height of an expression of the caller's own, and where its deepest values
\* lie.
LEMMA OwnLevels ==
  /\ MaxNesting - 1 \in Nat /\ MaxNesting - 1 < MaxNesting
  /\ 2 * (MaxNesting - 1) + 4 \in Nat
  /\ (2 * (MaxNesting - 1) + 4) + 1 \in Nat
  /\ 3 <= (2 * (MaxNesting - 1) + 4) + 1
  /\ ((2 * (MaxNesting - 1) + 4) + 1) + 1 <= MaxHeight
  /\ (2 * (MaxNesting - 1) + 4) + 1 <= MaxHeight
  /\ MaxNesting <= 5 => 1 + 2 * (MaxNesting - 1) + 3 <= keyMaxDepth
<1>1. MaxNesting \in Nat /\ MaxNesting >= 2 /\ MaxHeight \in Nat /\ MaxHeight >= 2 * MaxNesting + 4
  BY CostAssumption
<1> QED BY <1>1 DEF keyMaxDepth

\* The filter of a query is told apart from another.
LEMMA FiltersApart ==
  ASSUME NEW e \in Expressions[MaxNesting - 1]
  PROVE  /\ GoFilter(e) \in GoValues[(2 * (MaxNesting - 1) + 4) + 1]
         /\ \A x \in Expressions[MaxNesting - 1] :
              MaxNesting <= 5 /\ WriteCanonical(GoFilter(e), 1) = WriteCanonical(GoFilter(x), 1)
              => e = x
<1> DEFINE n == MaxNesting - 1
           h == 2 * n + 4
<1>1. /\ n \in Nat /\ n < MaxNesting /\ h \in Nat /\ h + 1 \in Nat /\ h + 1 <= MaxHeight
      /\ MaxNesting <= 5 => 1 + 2 * n + 3 <= keyMaxDepth
  BY OwnLevels
<1>2. 1 \in Uncut /\ 1 \in Nat
  BY DEF Uncut, keyMaxDepth
<1> HIDE DEF n
<1>3. \A x \in Expressions[n] :
        /\ GoExpression(x) \in GoValues[h]
        /\ WriteCanonical(GoExpression(x), 1) # Nil
  <2> SUFFICES ASSUME NEW x \in Expressions[n]
               PROVE  /\ GoExpression(x) \in GoValues[h]
                      /\ WriteCanonical(GoExpression(x), 1) # Nil
    OBVIOUS
  <2>1. /\ 2 * n + 3 \in Nat /\ (2 * n + 3) + 1 <= MaxHeight
        /\ GoExpression(x) = Struct("Expression", Fields(x))
        /\ Fields(x) \in Seq(GoValues[2 * n + 3])
        /\ GoExpression(x) \in GoValues[h]
    BY <1>1, ExpressionHeight
  <2>2. WriteCanonical(Struct("Expression", Fields(x)), 1) # Nil
    BY <1>2, <2>1, WrittenAsNil, KindsAreTexts
  <2> QED BY <2>1, <2>2
<1> HIDE DEF h
<1>4. \A x \in Expressions[n] :
        x # NoExpression =>
          WriteCanonical(GoFilter(x), 1) = WriteCanonical(GoExpression(x), 1)
  BY <1>1, <1>2, <1>3, WriteOfPointer DEF GoFilter
<1>5. GoFilter(NoExpression) = Nil /\ WriteCanonical(Nil, 1) = Nil
  BY <1>2, WriteSimple DEF GoFilter
<1>6. e \in Expressions[n]
  BY DEF n
<1>7. GoFilter(e) \in GoValues[h + 1]
  <2>1. Pointer(GoExpression(e)) \in GoValues[h + 1]
    BY <1>1, <1>3, <1>6, PartedValues
  <2>2. Nil \in GoValues[h + 1]
    BY <1>1, SimpleValues
  <2> QED BY <2>1, <2>2 DEF GoFilter
<1>8. ASSUME MaxNesting <= 5, NEW x \in Expressions[n],
             WriteCanonical(GoFilter(e), 1) = WriteCanonical(GoFilter(x), 1)
      PROVE  e = x
  <2>1. e = NoExpression <=> x = NoExpression
    BY <1>3, <1>4, <1>5, <1>6, <1>8
  <2>2. CASE e # NoExpression
    <3>1. WriteCanonical(GoExpression(e), 1) = WriteCanonical(GoExpression(x), 1)
      BY <1>4, <1>6, <1>8, <2>1, <2>2
    <3> QED BY <1>1, <1>2, <1>6, <1>8, <3>1, ExpressionsApart
  <2> QED BY <2>1, <2>2
<1> QED BY <1>7, <1>8 DEF n, h

\* The fields of a query are Go values.
LEMMA QueryFieldsAre ==
  ASSUME NEW q, IsQuery(q)
  PROVE  QueryFields(q) \in Seq(GoValues[(2 * (MaxNesting - 1) + 4) + 1])
<1> DEFINE h == (2 * (MaxNesting - 1) + 4) + 1
           V == GoValues[h]
<1>0. h \in Nat /\ 3 <= h
  BY OwnLevels
<1>1. /\ q.start \in Times /\ q.end \in Times /\ q.granularity \in STRING
      /\ q.metrics \in Seq(STRING) /\ q.groupBy \in Seq(Groupings)
      /\ q.services \in Seq(STRING) /\ q.filters \in Seq(Rows)
      /\ q.tags \in [DOMAIN q.tags -> Seq(STRING)]
      /\ DOMAIN q.tags \in SUBSET STRING
      /\ q.filter \in Expressions[MaxNesting - 1] /\ q.billingViewArn \in STRING
  BY QueryParts DEF Groupings
<1>2. GoFilter(q.filter) \in V
  BY <1>1, FiltersApart
<1> HIDE DEF h
<1>3. GoValues[1] \subseteq V /\ GoValues[2] \subseteq V /\ GoValues[3] \subseteq V
  <2>1. 1 \in Nat /\ 2 \in Nat /\ 3 \in Nat /\ 1 <= h /\ 2 <= h
    BY <1>0
  <2> QED BY <1>0, <2>1, GoValuesGrow
<1>4. /\ SelfDescribed(TimeText[q.start]) \in V /\ SelfDescribed(TimeText[q.end]) \in V
      /\ Basic(q.granularity) \in V /\ Basic(q.billingViewArn) \in V
  BY <1>0, <1>1, SimpleValues, TimesApart
<1>5. Strings(q.metrics) \in V /\ Strings(q.services) \in V
  BY <1>1, <1>3, StringsApart
<1>6. GoTags(DOMAIN q.tags, q.tags) \in V
  <2>1. GoTags(DOMAIN q.tags, q.tags) \in GoValues[2]
    BY <1>1, TagsApart
  <2> QED BY <1>3, <2>1
<1>7. GoRows(q.filters) \in V
  BY <1>1, <1>3, RowListsApart
<1>8. GoGroupings(q.groupBy) \in V
  BY <1>1, <1>3, GroupingListsApart
<1> HIDE DEF V
<1>9. \A S : \A a, b, c, x, y, z, u, v, w, o \in S :
        <<a, b, c, x, y, z, u, v, w, o>> \in Seq(S)
  OBVIOUS
<1>10. QueryFields(q) \in Seq(V)
  BY <1>2, <1>4, <1>5, <1>6, <1>7, <1>8, <1>9 DEF QueryFields
<1> QED BY <1>10 DEF V, h

\* No two queries have one key, as long as the deepest values of an expression
\* are not cut.
LEMMA QueriesApart ==
  ASSUME MaxNesting <= 5, NEW p, IsQuery(p), NEW q, IsQuery(q), QueryKey(p) = QueryKey(q)
  PROVE  p = q
<1>0. /\ 0 \in Uncut /\ 0 + 1 = 1 /\ 1 \in Uncut /\ 1 + 1 \in Uncut
      /\ (1 + 1) + 1 \in Uncut /\ ((1 + 1) + 1) + 1 \in Uncut
  BY DEF Uncut, keyMaxDepth
<1>1. WriteCanonical(GoQuery(p), 0) = WriteCanonical(GoQuery(q), 0)
  <2> DEFINE rendered(v) == [i \in DOMAIN <<v>> |-> WriteCanonical(<<v>>[i], 0)]
  <2>1. \A v : rendered(v)[1] = WriteCanonical(v, 0)
    OBVIOUS
  <2>2. rendered(GoQuery(p)) = rendered(GoQuery(q))
    BY DEF QueryKey, Key
  <2> HIDE DEF rendered
  <2> QED BY <2>1, <2>2
<1>2. \A i \in DOMAIN QueryFields(p) :
        WriteCanonical(QueryFields(p)[i], 1) = WriteCanonical(QueryFields(q)[i], 1)
  <2> DEFINE h == (2 * (MaxNesting - 1) + 4) + 1
  <2>1. h \in Nat /\ h + 1 <= MaxHeight
    BY OwnLevels
  <2>2. QueryFields(p) \in Seq(GoValues[h]) /\ QueryFields(q) \in Seq(GoValues[h])
    BY QueryFieldsAre
  <2> HIDE DEF h
  <2>3. WriteCanonical(Struct("CostQuery", QueryFields(p)), 0)
          = WriteCanonical(Struct("CostQuery", QueryFields(q)), 0)
    BY <1>1, GoQueryIs
  <2>4. "CostQuery" \in STRING
    BY CostAssumption DEF Literals
  <2>5. \A i \in DOMAIN QueryFields(p) :
          WriteCanonical(QueryFields(p)[i], 0 + 1) = WriteCanonical(QueryFields(q)[i], 0 + 1)
    BY <1>0, <2>1, <2>2, <2>3, <2>4, WrittenStructsApart
  <2> QED BY <1>0, <2>5
<1>3. \A r : /\ QueryFields(r)[1] = SelfDescribed(TimeText[r.start])
             /\ QueryFields(r)[2] = SelfDescribed(TimeText[r.end])
             /\ QueryFields(r)[3] = Basic(r.granularity)
             /\ QueryFields(r)[4] = Strings(r.metrics)
             /\ QueryFields(r)[5] = Strings(r.services)
             /\ QueryFields(r)[6] = GoTags(DOMAIN r.tags, r.tags)
             /\ QueryFields(r)[7] = GoRows(r.filters)
             /\ QueryFields(r)[8] = GoFilter(r.filter)
             /\ QueryFields(r)[9] = GoGroupings(r.groupBy)
             /\ QueryFields(r)[10] = Basic(r.billingViewArn)
             /\ 1 .. 10 \subseteq DOMAIN QueryFields(r)
  BY DEF QueryFields
<1>4. /\ 1 \in DOMAIN QueryFields(p) /\ 2 \in DOMAIN QueryFields(p) /\ 3 \in DOMAIN QueryFields(p)
      /\ 4 \in DOMAIN QueryFields(p) /\ 5 \in DOMAIN QueryFields(p) /\ 6 \in DOMAIN QueryFields(p)
      /\ 7 \in DOMAIN QueryFields(p) /\ 8 \in DOMAIN QueryFields(p) /\ 9 \in DOMAIN QueryFields(p)
      /\ 10 \in DOMAIN QueryFields(p)
  <2>1. 1 .. 10 \subseteq DOMAIN QueryFields(p)
    BY <1>3
  <2> QED BY <2>1
<1>5. \A r : IsQuery(r) =>
        /\ r.start \in Times /\ r.end \in Times /\ r.granularity \in STRING
        /\ r.metrics \in Seq(STRING) /\ r.groupBy \in Seq(Groupings)
        /\ r.services \in Seq(STRING) /\ r.filters \in Seq(Rows)
        /\ r.tags \in [DOMAIN r.tags -> Seq(STRING)]
        /\ DOMAIN r.tags \in SUBSET STRING
        /\ r.filter \in Expressions[MaxNesting - 1] /\ r.billingViewArn \in STRING
  BY QueryParts DEF Groupings
<1>6. p.start = q.start /\ p.end = q.end
  <2>1. \A r : IsQuery(r) =>
          /\ WriteCanonical(SelfDescribed(TimeText[r.start]), 1) = SelfDescribed(TimeText[r.start])
          /\ WriteCanonical(SelfDescribed(TimeText[r.end]), 1) = SelfDescribed(TimeText[r.end])
    BY <1>0, <1>5, TimesApart, WriteSimple
  <2>2. /\ SelfDescribed(TimeText[p.start]) = SelfDescribed(TimeText[q.start])
        /\ SelfDescribed(TimeText[p.end]) = SelfDescribed(TimeText[q.end])
    BY <1>2, <1>3, <1>4, <2>1
  <2>3. TimeText[p.start] = TimeText[q.start]
    BY <2>2, SimpleApart
  <2>4. TimeText[p.end] = TimeText[q.end]
    BY <2>2, SimpleApart
  <2> QED BY <1>5, <2>3, <2>4, TimesApart
<1>7. p.granularity = q.granularity
  <2>1. WriteCanonical(Basic(p.granularity), 1) = WriteCanonical(Basic(q.granularity), 1)
    BY <1>2, <1>3, <1>4
  <2>2. Basic(p.granularity) = Basic(q.granularity)
    BY <1>0, <1>5, <2>1, WriteSimple
  <2> QED BY <2>2, SimpleApart
<1>8. p.metrics = q.metrics
  <2>1. WriteCanonical(Strings(p.metrics), 1) = WriteCanonical(Strings(q.metrics), 1)
    BY <1>2, <1>3, <1>4
  <2> QED BY <1>0, <1>5, <2>1, StringsApart
<1>9. p.services = q.services
  <2>1. WriteCanonical(Strings(p.services), 1) = WriteCanonical(Strings(q.services), 1)
    BY <1>2, <1>3, <1>4
  <2> QED BY <1>0, <1>5, <2>1, StringsApart
<1>10. DOMAIN p.tags = DOMAIN q.tags /\ p.tags = q.tags
  <2>1. WriteCanonical(GoTags(DOMAIN p.tags, p.tags), 1)
          = WriteCanonical(GoTags(DOMAIN q.tags, q.tags), 1)
    BY <1>2, <1>3, <1>4
  <2>2. \A D, E \in SUBSET STRING : \A a \in [D -> Seq(STRING)], b \in [E -> Seq(STRING)] :
          WriteCanonical(GoTags(D, a), 1) = WriteCanonical(GoTags(E, b), 1) => D = E /\ a = b
    <3> SUFFICES ASSUME NEW D \in SUBSET STRING, NEW E \in SUBSET STRING,
                        NEW a \in [D -> Seq(STRING)], NEW b \in [E -> Seq(STRING)],
                        WriteCanonical(GoTags(D, a), 1) = WriteCanonical(GoTags(E, b), 1)
                 PROVE  D = E /\ a = b
      OBVIOUS
    <3> QED BY <1>0, TagsApart, ZenonT(20)
  <2>3. /\ DOMAIN p.tags \in SUBSET STRING /\ p.tags \in [DOMAIN p.tags -> Seq(STRING)]
        /\ DOMAIN q.tags \in SUBSET STRING /\ q.tags \in [DOMAIN q.tags -> Seq(STRING)]
    BY <1>5
  <2> QED BY <2>1, <2>2, <2>3
<1>11. p.filters = q.filters
  <2>1. WriteCanonical(GoRows(p.filters), 1) = WriteCanonical(GoRows(q.filters), 1)
    BY <1>2, <1>3, <1>4
  <2>2. \A rs, ss \in Seq(Rows) : WriteCanonical(GoRows(rs), 1)
        = WriteCanonical(GoRows(ss), 1) => rs = ss
    BY <1>0, RowListsApart
  <2> QED BY <1>5, <2>1, <2>2
<1>12. p.filter = q.filter
  <2>1. WriteCanonical(GoFilter(p.filter), 1) = WriteCanonical(GoFilter(q.filter), 1)
    BY <1>2, <1>3, <1>4
  <2> QED BY <1>5, <2>1, FiltersApart
<1>13. p.groupBy = q.groupBy
  <2>1. WriteCanonical(GoGroupings(p.groupBy), 1) = WriteCanonical(GoGroupings(q.groupBy), 1)
    BY <1>2, <1>3, <1>4
  <2>2. \A rs, ss \in Seq(Groupings) :
          WriteCanonical(GoGroupings(rs), 1) = WriteCanonical(GoGroupings(ss), 1) => rs = ss
    BY <1>0, GroupingListsApart
  <2> QED BY <1>5, <2>1, <2>2
<1>14. p.billingViewArn = q.billingViewArn
  <2>1. WriteCanonical(Basic(p.billingViewArn), 1) = WriteCanonical(Basic(q.billingViewArn), 1)
    BY <1>2, <1>3, <1>4
  <2>2. Basic(p.billingViewArn) = Basic(q.billingViewArn)
    BY <1>0, <1>5, <2>1, WriteSimple
  <2> QED BY <2>2, SimpleApart
<1> DEFINE D == DOMAIN p.tags
           F == Expressions[MaxNesting - 1]
           All == [start : Times, end : Times, granularity : STRING,
                   metrics : Seq(STRING), groupBy : Seq([type : STRING, key : STRING]),
                   services : Seq(STRING), tags : [D -> Seq(STRING)],
                   filters : Seq(Rows), filter : F, billingViewArn : STRING]
<1>15. p \in All /\ q \in All
  <2>1. DOMAIN q.tags = D
    BY <1>10
  <2>2. p \in All
    BY DEF IsQuery
  <2>3. q \in [start : Times, end : Times, granularity : STRING,
               metrics : Seq(STRING), groupBy : Seq([type : STRING, key : STRING]),
               services : Seq(STRING), tags : [DOMAIN q.tags -> Seq(STRING)],
               filters : Seq(Rows), filter : F, billingViewArn : STRING]
    BY DEF IsQuery
  <2> HIDE DEF D, F
  <2> QED BY <2>1, <2>2, <2>3
<1> HIDE DEF D, F
<1>16. p.tags = q.tags
  BY <1>10
<1>17. /\ p = [start |-> p.start, end |-> p.end, granularity |-> p.granularity,
               metrics |-> p.metrics, groupBy |-> p.groupBy, services |-> p.services,
               tags |-> p.tags, filters |-> p.filters, filter |-> p.filter,
               billingViewArn |-> p.billingViewArn]
       /\ q = [start |-> q.start, end |-> q.end, granularity |-> q.granularity,
               metrics |-> q.metrics, groupBy |-> q.groupBy, services |-> q.services,
               tags |-> q.tags, filters |-> q.filters, filter |-> q.filter,
               billingViewArn |-> q.billingViewArn]
  BY <1>15
<1> QED BY <1>6, <1>7, <1>8, <1>9, <1>11, <1>12, <1>13, <1>14, <1>16, <1>17

-----------------------------------------------------------------------------
(* The invariant.                                                          *)

\* The query and the row are such as the filters of filter.go, a request is the
\* one of the query, and what is stored has the key of its query.
IInv ==
  /\ IsQuery(query)
  /\ row = NoRow \/ row \in Rows
  /\ row # NoRow => result = "none"
  /\ result = "none" => sent = NoRequest
  /\ sent = NoRequest \/ sent = Request(query)
  /\ \A s \in stored : IsQuery(s.query) /\ s.key = QueryKey(s.query)

\* The bases are such queries.
LEMMA BasesAre ==
  ASSUME NEW q \in Bases
  PROVE  IsQuery(q)
<1> DEFINE D == DOMAIN q.tags
           F == Expressions[MaxNesting - 1]
<1>1. /\ D \subseteq STRING /\ IsFiniteSet(D)
      /\ q \in [start : Times, end : Times, granularity : STRING,
                metrics : Seq(STRING), groupBy : Seq([type : STRING, key : STRING]),
                services : Seq(STRING), tags : [D -> Seq(STRING)],
                filters : {<<>>}, filter : F, billingViewArn : STRING]
  BY CostAssumption
<1>2. <<>> \in Seq(Rows)
  BY EmptySeq
<1> HIDE DEF D, F
<1>3. q \in [start : Times, end : Times, granularity : STRING,
             metrics : Seq(STRING), groupBy : Seq([type : STRING, key : STRING]),
             services : Seq(STRING), tags : [D -> Seq(STRING)],
             filters : Seq(Rows), filter : F, billingViewArn : STRING]
  BY <1>1, <1>2
<1> QED BY <1>1, <1>3 DEF IsQuery, D, F

\* And stay so with another row.
LEMMA OneMoreRow ==
  ASSUME NEW q, IsQuery(q), NEW r \in Rows
  PROVE  IsQuery([q EXCEPT !.filters = Append(@, r)])
<1> DEFINE D == DOMAIN q.tags
           F == Expressions[MaxNesting - 1]
           p == [q EXCEPT !.filters = Append(@, r)]
<1>1. q \in [start : Times, end : Times, granularity : STRING,
             metrics : Seq(STRING), groupBy : Seq([type : STRING, key : STRING]),
             services : Seq(STRING), tags : [D -> Seq(STRING)],
             filters : Seq(Rows), filter : F, billingViewArn : STRING]
  BY DEF IsQuery
<1>2. D \subseteq STRING /\ IsFiniteSet(D)
  BY DEF IsQuery
<1> HIDE DEF D, F
<1>3. Append(q.filters, r) \in Seq(Rows)
  <2>1. q.filters \in Seq(Rows)
    BY QueryParts
  <2> QED BY <2>1, AppendProperties
<1>4. p \in [start : Times, end : Times, granularity : STRING,
             metrics : Seq(STRING), groupBy : Seq([type : STRING, key : STRING]),
             services : Seq(STRING), tags : [D -> Seq(STRING)],
             filters : Seq(Rows), filter : F, billingViewArn : STRING]
  BY <1>1, <1>3
<1>5. p.tags = q.tags
  BY <1>1
<1> HIDE DEF p
<1>6. IsQuery(p)
  BY <1>2, <1>4, <1>5 DEF IsQuery, D, F
<1> QED BY <1>6 DEF p

\* It holds in the beginning.
LEMMA Initially == Init => IInv
BY BasesAre DEF Init, IInv

\* A row that is begun is a row.
LEMMA StartRowKeeps == IInv /\ StartRow => IInv'
<1> SUFFICES ASSUME IInv, StartRow PROVE IInv'
  OBVIOUS
<1>0. PICK kind \in DOMAIN Keys, values \in Values :
        \E key \in Keys[kind] : Building(By(kind, key, values))
  BY DEF StartRow
<1>1. PICK key \in Keys[kind] : Building(By(kind, key, values))
  BY <1>0
<1>2. kind \in Kinds /\ key \in STRING /\ values \in Seq(STRING)
  BY CostAssumption
<1>3. By(kind, key, values) \in Rows
  BY <1>2, ByIs
<1>4. result = "none"
  BY DEF StartRow
<1> QED BY <1>1, <1>3, <1>4 DEF IInv, Building, IsQuery

\* So is one that is changed.
LEMMA ChangeRowKeeps == IInv /\ ChangeRow => IInv'
<1> SUFFICES ASSUME IInv, ChangeRow PROVE IInv'
  OBVIOUS
<1>1. row \in Rows /\ result = "none"
  BY DEF IInv, ChangeRow
<1>2. \E r \in Rows : Building(r)
  <2>1. ASSUME NEW o \in Options PROVE Matching(row, <<o>>) \in Rows
    <3>1. <<o>> \in Seq(STRING)
      BY CostAssumption
    <3> QED BY <1>1, <3>1 DEF Matching, Rows
  <2>2. Excluded(row) \in Rows
    BY <1>1 DEF Excluded, Rows
  <2>3. Absent(row) \in Rows
    <3>1. <<>> \in Seq(STRING) /\ <<Absence>> \in Seq(STRING)
      <4>1. Absence \in STRING
        BY CostAssumption DEF Literals
      <4>2. \A S : \A x \in S : <<x>> \in Seq(S)
        OBVIOUS
      <4>3. <<>> \in Seq(STRING)
        BY EmptySeq
      <4> QED BY <4>1, <4>2, <4>3
    <3> QED BY <1>1, <3>1 DEF Absent, Rows
  <2>4. Present(row) \in Rows
    BY <2>3 DEF Present, Excluded, Rows
  <2> QED BY <2>1, <2>2, <2>3, <2>4 DEF ChangeRow
<1> QED BY <1>1, <1>2 DEF IInv, Building, IsQuery

\* Adding it makes another query, of which nothing was sent yet.
LEMMA AddRowKeeps == IInv /\ AddRow => IInv'
<1> SUFFICES ASSUME IInv, AddRow PROVE IInv'
  OBVIOUS
<1>1. row \in Rows /\ result = "none" /\ sent = NoRequest
  BY DEF IInv, AddRow
<1>2. IsQuery([query EXCEPT !.filters = Append(@, row)])
  BY <1>1, OneMoreRow DEF IInv
<1>3. IsQuery(query')
  BY <1>2 DEF AddRow
<1>4. \A s \in stored' : IsQuery(s.query) /\ s.key = QueryKey(s.query)
  BY DEF IInv, AddRow
<1> QED BY <1>1, <1>3, <1>4 DEF IInv, AddRow

\* What is sent is the request of the query, what is stored has its key.
LEMMA GetKeeps == IInv /\ GetCostAndUsageByQuery => IInv'
<1> SUFFICES ASSUME IInv, GetCostAndUsageByQuery PROVE IInv'
  OBVIOUS
<1>1. /\ row = NoRow /\ result = "none" /\ UNCHANGED <<query, row>>
      /\ result' \in {"cached", "refused", "ok", "failed"}
      /\ UNCHANGED sent \/ sent' = Request(query)
      /\ UNCHANGED stored \/ stored' = stored \cup {[key |-> QueryKey(query), query |-> query]}
  BY DEF GetCostAndUsageByQuery
<1>2. \A s \in stored' : IsQuery(s.query) /\ s.key = QueryKey(s.query)
  BY <1>1 DEF IInv
<1>3. IsQuery(query')
  BY <1>1 DEF IInv
<1>4. sent' = NoRequest \/ sent' = Request(query')
  BY <1>1 DEF IInv
<1> QED BY <1>1, <1>2, <1>3, <1>4 DEF IInv

\* Another query starts from a base, with nothing sent.
LEMMA NextQueryKeeps == IInv /\ NextQuery => IInv'
<1> SUFFICES ASSUME IInv, NextQuery PROVE IInv'
  OBVIOUS
<1>1. IsQuery(query')
  BY BasesAre DEF NextQuery
<1>2. /\ sent' = NoRequest /\ result' = "none" /\ UNCHANGED <<row, stored>>
  BY DEF NextQuery
<1>3. \A s \in stored' : IsQuery(s.query) /\ s.key = QueryKey(s.query)
  BY <1>2 DEF IInv
<1> QED BY <1>1, <1>2, <1>3 DEF IInv

\* Every step keeps the invariant.
LEMMA Consecution == IInv /\ [Next]_vars => IInv'
<1> SUFFICES ASSUME IInv, [Next]_vars PROVE IInv'
  OBVIOUS
<1>1. CASE UNCHANGED vars
  <2>1. IsQuery(query') /\ \A s \in stored' : IsQuery(s.query) /\ s.key = QueryKey(s.query)
    BY <1>1 DEF vars, IInv
  <2> QED BY <1>1, <2>1 DEF vars, IInv
<1> QED BY <1>1, StartRowKeeps, ChangeRowKeeps, AddRowKeeps, GetKeeps,
           NextQueryKeeps DEF Next

\* It is an invariant: queries, rows and what is stored of them are such as the
\* helpers of filter.go build, and a request is the one of its query.
THEOREM Invariance == Spec => []IInv
BY Initially, Consecution, PTL DEF Spec

\* For all rows, however built, services, tags and expressions of the caller's
\* own of any number of levels, the request selects what they all let through.
THEOREM FilterMeansRowsHolds == Spec => []FilterMeansRows
<1>1. IInv => FilterMeansRows
  <2> SUFFICES ASSUME IInv, sent # NoRequest
               PROVE  /\ WellShaped(sent.filter)
                      /\ \A line \in Lines : Matches(sent.filter, line) <=> Selects(query, line)
    BY DEF FilterMeansRows
  <2>1. sent = Request(query) /\ IsQuery(query)
    BY DEF IInv
  <2>2. sent.filter = buildFilter(query)
    BY <2>1 DEF Request
  <2> QED BY <2>1, <2>2, FilterIs DEF WellShaped
<1> QED BY <1>1, Invariance, PTL

\* "Different arguments never share a key" (cache/key.go): for all queries,
\* with expressions of the caller's own of up to four levels, of And and Or in
\* one another, an answer from the cache is that of the very same query.
THEOREM KeyTellsApartHolds ==
  ASSUME MaxNesting <= 5
  PROVE  Spec => []KeyTellsApart
<1>1. Init => KeyTellsApart
  BY DEF Init, KeyTellsApart
<1>2. IInv /\ KeyTellsApart /\ [Next]_vars => KeyTellsApart'
  <2> SUFFICES ASSUME IInv, KeyTellsApart, [Next]_vars, result' = "cached"
               PROVE  \E s \in stored' : s.query = query'
    BY DEF KeyTellsApart
  <2>1. CASE UNCHANGED vars
    BY <2>1 DEF vars, KeyTellsApart
  <2>2. CASE StartRow
    BY <2>2 DEF StartRow, Building
  <2>3. CASE ChangeRow
    <3>1. result = "none" /\ result' = result
      BY <2>3 DEF ChangeRow, Building, IInv
    <3> QED BY <3>1
  <2>4. CASE AddRow
    <3>1. result = "none" /\ result' = result
      BY <2>4 DEF AddRow, IInv
    <3> QED BY <3>1
  <2>5. CASE GetCostAndUsageByQuery
    <3>1. Hit(QueryKey(query)) /\ UNCHANGED <<stored, query>>
      BY <2>5 DEF GetCostAndUsageByQuery
    <3>2. PICK s \in stored : s.key = QueryKey(query)
      BY <3>1 DEF Hit
    <3>3. IsQuery(s.query) /\ QueryKey(s.query) = QueryKey(query) /\ IsQuery(query)
      BY <3>2 DEF IInv
    <3>4. s.query = query
      BY <3>3, QueriesApart
    <3> QED BY <3>1, <3>4
  <2>6. CASE NextQuery
    BY <2>6 DEF NextQuery
  <2> QED BY <2>1, <2>2, <2>3, <2>4, <2>5, <2>6 DEF Next
<1> QED BY <1>1, <1>2, Invariance, PTL DEF Spec

=============================================================================
