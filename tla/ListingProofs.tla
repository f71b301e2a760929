---------------------------- MODULE ListingProofs ----------------------------
(***************************************************************************)
(* Proofs about Listing, for every set of methods of ListMethods, listings *)
(* with any pages, chunks and limits of any size and any number of failing *)
(* requests and calls.                                                     *)
(*                                                                         *)
(* The invariant follows the stack.  A method that reads pages itself      *)
(* keeps one equation: what it has got, with what is ahead of it, is what  *)
(* its pages hold but for what is gone.  A method that calls others keeps  *)
(* it for the items it has still to ask about, and for what belongs to     *)
(* them. At the end nothing is ahead, after a failure a beginning is left. *)
(***************************************************************************)
EXTENDS Listing, WellFoundedInduction, SequenceTheorems, TLAPS

-----------------------------------------------------------------------------
(* Induction in set form, and FlattenSeq.  The theorems on induction take  *)
(* a predicate; these take a set, so that they can be cited.               *)

\* Induction over the naturals, for a set in place of a predicate.
LEMMA NatSets ==
  ASSUME NEW S, 0 \in S, \A n \in Nat : n \in S => n + 1 \in S
  PROVE  \A n \in Nat : n \in S
<1> SUFFICES ASSUME Nat \ S # {} PROVE FALSE
  OBVIOUS
<1> DEFINE R == {ss \in Nat \X Nat : ss[1] < ss[2]}
           T == Nat \ S
<1>1. \E x \in T : \A y \in T : ~ (<<y, x>> \in R)
  <2>1. T \subseteq Nat /\ T # {}
    OBVIOUS
  <2>2. IsWellFoundedOn(R, Nat)
    BY NatLessThanWellFounded DEF OpToRel
  <2> HIDE DEF T, R
  <2> QED BY <2>1, <2>2, WFMin
<1>2. PICK x \in T : \A y \in T : ~(y < x)
  BY <1>1
<1>3. x # 0 /\ x - 1 \in Nat
  BY <1>2
<1>4. x - 1 \in S
  BY <1>2, <1>3
<1> QED BY <1>3, <1>4, <1>2

\* Induction over the sequences of a set, likewise.
LEMMA SeqSets ==
  ASSUME NEW S, NEW P, <<>> \in P,
         \A s \in Seq(S), e \in S : s \in P => Append(s, e) \in P
  PROVE  \A s \in Seq(S) : s \in P
<1> DEFINE T == {n \in Nat : \A s \in Seq(S) : Len(s) = n => s \in P}
<1>1. 0 \in T
  BY EmptySeq
<1>2. ASSUME NEW n \in Nat, n \in T PROVE n + 1 \in T
  <2> SUFFICES ASSUME NEW s \in Seq(S), Len(s) = n + 1 PROVE s \in P
    OBVIOUS
  <2>1. s # <<>>
    BY EmptySeq
  <2>2. PICK d \in Seq(S), e \in S : s = Append(d, e)
    BY <2>1, SequenceEmptyOrAppend
  <2>3. Len(d) = n
    BY <2>2, AppendProperties, LenProperties
  <2> QED BY <2>2, <2>3, <1>2
<1> HIDE DEF T
<1>3. \A n \in Nat : n \in T
  BY <1>1, <1>2, NatSets
<1> QED BY <1>3, LenProperties DEF T

\* f is the recursive function of FlattenSeq for the first n sequences.
Flat(ss, n, f) == f = [i \in 1 .. n |-> IF i = 1 THEN ss[i] ELSE f[i - 1] \o ss[i]]

\* The recursive function begins with the first sequence ...
LEMMA FlatFirst ==
  ASSUME NEW ss, NEW n \in Nat \ {0}, NEW f, Flat(ss, n, f)
  PROVE  f[1] = ss[1]
<1> DEFINE e(g, j) == IF j = 1 THEN ss[j] ELSE g[j - 1] \o ss[j]
<1>1. f = [j \in 1 .. n |-> e(f, j)]
  BY DEF Flat
<1>2. f[1] = e(f, 1)
  <2> HIDE DEF e
  <2> QED BY <1>1
<1> QED BY <1>2

\* ... and adds one after the other.
LEMMA FlatNext ==
  ASSUME NEW ss, NEW n \in Nat, NEW f, Flat(ss, n, f), NEW i \in Nat \ {0}, i < n
  PROVE  f[i + 1] = f[i] \o ss[i + 1]
<1> DEFINE e(g, j) == IF j = 1 THEN ss[j] ELSE g[j - 1] \o ss[j]
<1>1. f = [j \in 1 .. n |-> e(f, j)]
  BY DEF Flat
<1>2. f[i + 1] = e(f, i + 1)
  <2>1. i + 1 \in 1 .. n
    OBVIOUS
  <2> HIDE DEF e
  <2> QED BY <1>1, <2>1
<1>3. i + 1 # 1 /\ (i + 1) - 1 = i
  OBVIOUS
<1>4. f[i + 1] = f[(i + 1) - 1] \o ss[i + 1]
  BY <1>2, <1>3
<1> QED BY <1>3, <1>4

\* There is such a function: what FlattenSeq chooses exists.
LEMMA FlatExists ==
  ASSUME NEW ss, NEW n \in Nat
  PROVE  \E f : Flat(ss, n, f)
<1> DEFINE S == {k \in Nat : \E f : Flat(ss, k, f)}
<1>1. 0 \in S
  <2>1. Flat(ss, 0, [i \in 1 .. 0 |-> ss])
    BY DEF Flat
  <2> QED BY <2>1
<1>2. ASSUME NEW k \in Nat, k \in S PROVE k + 1 \in S
  <2>1. PICK f : Flat(ss, k, f)
    BY <1>2
  <2> DEFINE g == [i \in 1 .. k + 1 |->
               IF i = k + 1 THEN IF i = 1 THEN ss[i] ELSE f[i - 1] \o ss[i] ELSE f[i]]
  <2>2. \A i \in 1 .. k + 1 : g[i] = IF i = k + 1 THEN IF i = 1 THEN ss[i] ELSE f[i - 1] \o ss[i] ELSE f[i]
    OBVIOUS
  <2>3. g = [i \in 1 .. k + 1 |-> g[i]]
    OBVIOUS
  <2> HIDE DEF g
  <2>4. ASSUME NEW i \in 1 .. k + 1 PROVE g[i] = IF i = 1 THEN ss[i] ELSE g[i - 1] \o ss[i]
    <3>1. CASE i = 1
      <4>1. ASSUME k # 0 PROVE f[1] = ss[1]
        <5>1. k \in Nat \ {0}
          BY <4>1
        <5> QED BY <5>1, <2>1, FlatFirst
      <4> QED BY <3>1, <4>1, <2>2
    <3>2. CASE i # 1
      <4>1. /\ i - 1 \in Nat \ {0} /\ i - 1 \in 1 .. k + 1 /\ i - 1 # k + 1 /\ (i - 1) + 1 = i
            /\ i # k + 1 => i - 1 < k
        BY <3>2
      <4>2. g[i - 1] = f[i - 1]
        BY <4>1, <2>2
      <4>3. CASE i = k + 1
        BY <4>3, <3>2, <4>2, <2>2
      <4>4. CASE i # k + 1
        <5>1. f[(i - 1) + 1] = f[i - 1] \o ss[(i - 1) + 1]
          BY <4>1, <4>4, <2>1, FlatNext
        <5>2. g[i] = f[i]
          BY <4>4, <2>2
        <5>3. g[i] = g[i - 1] \o ss[i]
          BY <5>1, <5>2, <4>1, <4>2
        <5> QED BY <5>3, <3>2
      <4> QED BY <4>3, <4>4
    <3> QED BY <3>1, <3>2
  <2>5. [i \in 1 .. k + 1 |-> g[i]] = [i \in 1 .. k + 1 |-> IF i = 1 THEN ss[i] ELSE g[i - 1] \o ss[i]]
    BY <2>4
  <2>6. Flat(ss, k + 1, g)
    BY <2>3, <2>5 DEF Flat
  <2> QED BY <2>6
<1> HIDE DEF S
<1>3. \A k \in Nat : k \in S
  BY <1>1, <1>2, NatSets
<1> QED BY <1>3 DEF S

\* FlattenSeq is its last value.
LEMMA FlattenIs ==
  ASSUME NEW ss, Len(ss) \in Nat
  PROVE \E f : Flat(ss, Len(ss), f) /\ FlattenSeq(ss) = IF Len(ss) = 0 THEN ss ELSE f[Len(ss)]
<1>1. \E f : Flat(ss, Len(ss), f)
  BY FlatExists
<1> DEFINE F == CHOOSE f : f = [i \in 1 .. Len(ss) |-> IF i = 1 THEN ss[i] ELSE f[i - 1] \o ss[i]]
<1>2. Flat(ss, Len(ss), F)
  BY <1>1 DEF Flat
<1>3. FlattenSeq(ss) = IF Len(ss) = 0 THEN ss ELSE F[Len(ss)]
  BY DEF FlattenSeq
<1> QED BY <1>2, <1>3

\* FlattenSeq, one more sequence at the end.
LEMMA FlattenAppend ==
  ASSUME NEW S, NEW ss \in Seq(Seq(S)), NEW s \in Seq(S)
  PROVE  /\ FlattenSeq(ss) \in Seq(S)
         /\ FlattenSeq(Append(ss, s)) = FlattenSeq(ss) \o s
<1> DEFINE tt == Append(ss, s)
           n == Len(ss)
<1>1. /\ tt \in Seq(Seq(S)) /\ Len(tt) = n + 1 /\ n \in Nat
      /\ \A i \in 1 .. n : tt[i] = ss[i] /\ tt[i] \in Seq(S)
      /\ tt[n + 1] = s
  BY AppendProperties, LenProperties, ElementOfSeq
<1> HIDE DEF tt, n
<1>2. PICK g : Flat(tt, n + 1, g) /\ FlattenSeq(tt) = g[n + 1]
  <2>1. Len(tt) \in Nat /\ Len(tt) # 0
    BY <1>1
  <2>2. PICK g : Flat(tt, Len(tt), g) /\ FlattenSeq(tt) = IF Len(tt) = 0 THEN tt ELSE g[Len(tt)]
    BY <2>1, FlattenIs
  <2> QED BY <2>1, <2>2, <1>1
<1>3. PICK f : Flat(ss, n, f) /\ FlattenSeq(ss) = IF n = 0 THEN ss ELSE f[n]
  BY <1>1, FlattenIs DEF n
<1> DEFINE T == {k \in Nat : k \in 1 .. n => f[k] = g[k] /\ f[k] \in Seq(S)}
<1>4. 0 \in T
  OBVIOUS
<1>5. ASSUME NEW k \in Nat, k \in T PROVE k + 1 \in T
  <2> SUFFICES ASSUME k + 1 \in 1 .. n PROVE f[k + 1] = g[k + 1] /\ f[k + 1] \in Seq(S)
    OBVIOUS
  <2>1. ss[k + 1] = tt[k + 1] /\ tt[k + 1] \in Seq(S)
    BY <1>1
  <2>2. CASE k = 0
    <3>1. f[1] = ss[1] /\ g[1] = tt[1]
      BY <1>1, <1>2, <1>3, FlatFirst
    <3> QED BY <2>1, <2>2, <3>1
  <2>3. CASE k # 0
    <3>1. k \in 1 .. n /\ k \in Nat \ {0} /\ k < n /\ k < n + 1 /\ n + 1 \in Nat
      BY <2>3, <1>1
    <3>2. f[k] = g[k] /\ f[k] \in Seq(S)
      BY <3>1, <1>5
    <3>3. f[k + 1] = f[k] \o ss[k + 1]
      BY <3>1, <1>1, <1>3, FlatNext
    <3>4. g[k + 1] = g[k] \o tt[k + 1]
      BY <3>1, <1>2, FlatNext
    <3>5. f[k] \o ss[k + 1] \in Seq(S)
      BY <3>2, <2>1, ConcatProperties
    <3> QED BY <3>2, <3>3, <3>4, <3>5, <2>1
  <2> QED BY <2>2, <2>3
<1> HIDE DEF T
<1>6. \A k \in Nat : k \in T
  BY <1>4, <1>5, NatSets
<1>7. CASE n = 0
  <2>1. ss = <<>>
    BY <1>7, EmptySeq DEF n
  <2>2. g[n + 1] = s
    BY <1>7, <1>2, <1>1, FlatFirst
  <2>3. FlattenSeq(ss) = <<>>
    BY <1>3, <1>7, <2>1
  <2>4. <<>> \o s = s
    BY ConcatEmptySeq
  <2> QED BY <2>2, <2>3, <2>4, <1>2, EmptySeq DEF tt
<1>8. CASE n # 0
  <2>1. n \in 1 .. n /\ n \in Nat \ {0} /\ n < n + 1 /\ n + 1 \in Nat
    BY <1>1, <1>8
  <2>2. f[n] = g[n] /\ f[n] \in Seq(S)
    BY <2>1, <1>6 DEF T
  <2>3. g[n + 1] = g[n] \o tt[n + 1]
    BY <2>1, <1>2, FlatNext, ZenonT(20)
  <2>4. FlattenSeq(ss) = g[n]
    BY <2>2, <1>3, <1>8
  <2>5. FlattenSeq(tt) = g[n] \o s
    BY <2>3, <1>1, <1>2
  <2> QED BY <2>2, <2>4, <2>5 DEF tt
<1> QED BY <1>7, <1>8

\* FlattenSeq of none is empty.
LEMMA FlattenEmpty == FlattenSeq(<<>>) = <<>>
BY EmptySeq DEF FlattenSeq

\* Concatenation is associative, as a fact about all of Seq(S).
LEMMA Regroup ==
  ASSUME NEW S
  PROVE  \A x \in Seq(S), y \in Seq(S), z \in Seq(S) : (x \o y) \o z = x \o (y \o z)
BY ConcatAssociative

\* FlattenSeq distributes over concatenation.
LEMMA FlattenConcat ==
  ASSUME NEW S, NEW a \in Seq(Seq(S)), NEW b \in Seq(Seq(S))
  PROVE  FlattenSeq(a \o b) = FlattenSeq(a) \o FlattenSeq(b)
<1>0. \A x \in Seq(Seq(S)), y \in Seq(Seq(S)), z \in Seq(Seq(S)) : (x \o y) \o z = x \o (y \o z)
  <2> DEFINE U == Seq(S)
  <2>1. \A x \in Seq(U), y \in Seq(U), z \in Seq(U) : (x \o y) \o z = x \o (y \o z)
    <3> HIDE DEF U
    <3> QED BY Regroup, SMTT(20)
  <2> QED BY <2>1
<1>1. \A x \in Seq(S), y \in Seq(S), z \in Seq(S) : (x \o y) \o z = x \o (y \o z)
  BY ConcatAssociative, SMTT(20)
<1>2. \A c \in Seq(Seq(S)) : FlattenSeq(c) \in Seq(S)
  BY FlattenAppend, EmptySeq
<1> DEFINE P == {c \in Seq(Seq(S)) :
                    FlattenSeq(a \o c) = FlattenSeq(a) \o FlattenSeq(c)}
<1>3. <<>> \in P
  BY <1>2, FlattenEmpty, ConcatEmptySeq, EmptySeq
<1>4. ASSUME NEW d \in Seq(Seq(S)), NEW s \in Seq(S), d \in P
      PROVE  Append(d, s) \in P
  <2>1. a \o Append(d, s) = Append(a \o d, s) /\ a \o d \in Seq(Seq(S))
    <3>1. Append(d, s) = d \o <<s>> /\ <<s>> \in Seq(Seq(S))
      BY AppendIsConcat
    <3>2. a \o d \in Seq(Seq(S)) /\ a \o Append(d, s) = (a \o d) \o <<s>>
      BY <3>1, <1>0, ConcatProperties
    <3> QED BY <3>2, AppendIsConcat
  <2>2. /\ FlattenSeq(a \o Append(d, s)) = FlattenSeq(a \o d) \o s
        /\ FlattenSeq(Append(d, s)) = FlattenSeq(d) \o s
    BY <2>1, FlattenAppend
  <2>3. FlattenSeq(a \o d) = FlattenSeq(a) \o FlattenSeq(d)
    BY <1>4
  <2>4. FlattenSeq(a \o Append(d, s)) = FlattenSeq(a) \o FlattenSeq(Append(d, s))
    <3>1. FlattenSeq(a) \in Seq(S) /\ FlattenSeq(d) \in Seq(S)
      BY <1>2
    <3>2. (FlattenSeq(a) \o FlattenSeq(d)) \o s = FlattenSeq(a) \o (FlattenSeq(d) \o s)
      BY <3>1, <1>1, Zenon
    <3> QED BY <2>2, <2>3, <3>2, Zenon
  <2> QED BY <2>4, AppendProperties
<1> HIDE DEF P
<1>5. \A c \in Seq(Seq(S)) : c \in P
  BY <1>3, <1>4, SeqSets
<1> QED BY <1>5 DEF P

\* FlattenSeq, one sequence fewer at the front.
LEMMA FlattenHead ==
  ASSUME NEW S, NEW ss \in Seq(Seq(S)), ss # <<>>
  PROVE  FlattenSeq(ss) = Head(ss) \o FlattenSeq(Tail(ss))
<1>1. Head(ss) \in Seq(S) /\ Tail(ss) \in Seq(Seq(S)) /\ <<Head(ss)>> \in Seq(Seq(S))
  BY HeadTailProperties
<1>2. ss = <<Head(ss)>> \o Tail(ss)
  OBVIOUS
<1>3. FlattenSeq(<<Head(ss)>>) = Head(ss)
  <2>1. <<Head(ss)>> = Append(<<>>, Head(ss))
    OBVIOUS
  <2>2. <<>> \in Seq(Seq(S)) /\ <<>> \o Head(ss) = Head(ss)
    BY <1>1, ConcatEmptySeq
  <2> QED BY <2>1, <2>2, <1>1, FlattenAppend, FlattenEmpty
<1> QED BY <1>1, <1>2, <1>3, FlattenConcat

-----------------------------------------------------------------------------
(* Elements and repetitions of sequences; what Without does to an element. *)

\* The elements of a concatenation.
LEMMA SetOfConcat ==
  ASSUME NEW S, NEW a \in Seq(S), NEW b \in Seq(S)
  PROVE  ToSet(a \o b) = ToSet(a) \cup ToSet(b)
<1>1. /\ a \o b \in Seq(S) /\ DOMAIN (a \o b) = 1 .. Len(a) + Len(b)
      /\ DOMAIN a = 1 .. Len(a) /\ DOMAIN b = 1 .. Len(b)
      /\ Len(a) \in Nat /\ Len(b) \in Nat
      /\ \A i \in 1 .. Len(a) + Len(b) :
           (a \o b)[i] = IF i <= Len(a) THEN a[i] ELSE b[i - Len(a)]
  BY ConcatProperties, LenProperties
<1>2. ASSUME NEW i \in 1 .. Len(a) PROVE a[i] \in ToSet(a \o b)
  <2>1. i \in 1 .. Len(a) + Len(b) /\ (a \o b)[i] = a[i]
    BY <1>1
  <2> QED BY <2>1, <1>1 DEF ToSet
<1>3. ASSUME NEW i \in 1 .. Len(b) PROVE b[i] \in ToSet(a \o b)
  <2>1. /\ Len(a) + i \in 1 .. Len(a) + Len(b) /\ ~(Len(a) + i <= Len(a))
        /\ (Len(a) + i) - Len(a) = i
    BY <1>1
  <2>2. (a \o b)[Len(a) + i] = b[i]
    BY <2>1, <1>1
  <2> QED BY <2>1, <2>2, <1>1 DEF ToSet
<1>4. ASSUME NEW i \in 1 .. Len(a) + Len(b) PROVE (a \o b)[i] \in ToSet(a) \cup ToSet(b)
  <2>1. CASE i <= Len(a)
    BY <2>1, <1>1 DEF ToSet
  <2>2. CASE ~(i <= Len(a))
    <3>1. i - Len(a) \in 1 .. Len(b)
      BY <2>2, <1>1
    <3> QED BY <3>1, <2>2, <1>1 DEF ToSet
  <2> QED BY <2>1, <2>2
<1>5. ToSet(a) \cup ToSet(b) \subseteq ToSet(a \o b)
  BY <1>1, <1>2, <1>3 DEF ToSet
<1>6. ToSet(a \o b) \subseteq ToSet(a) \cup ToSet(b)
  BY <1>1, <1>4 DEF ToSet
<1> QED BY <1>5, <1>6

\* The elements after an append.
LEMMA SetOfAppend ==
  ASSUME NEW S, NEW s \in Seq(S), NEW e \in S
  PROVE  ToSet(Append(s, e)) = ToSet(s) \cup {e}
<1>1. /\ DOMAIN Append(s, e) = 1 .. Len(s) + 1 /\ DOMAIN s = 1 .. Len(s)
      /\ Len(s) \in Nat
      /\ \A i \in 1 .. Len(s) : Append(s, e)[i] = s[i]
      /\ Append(s, e)[Len(s) + 1] = e
  BY AppendProperties, LenProperties
<1>2. ASSUME NEW i \in 1 .. Len(s) + 1 PROVE Append(s, e)[i] \in ToSet(s) \cup {e}
  BY <1>1 DEF ToSet
<1>3. ASSUME NEW i \in 1 .. Len(s) PROVE s[i] \in ToSet(Append(s, e))
  <2>1. i \in 1 .. Len(s) + 1
    BY <1>1
  <2> QED BY <2>1, <1>1 DEF ToSet
<1>4. e \in ToSet(Append(s, e))
  <2>1. Len(s) + 1 \in 1 .. Len(s) + 1
    BY <1>1
  <2> QED BY <2>1, <1>1 DEF ToSet
<1>5. ToSet(s) \cup {e} \subseteq ToSet(Append(s, e))
  BY <1>1, <1>3, <1>4 DEF ToSet
<1>6. ToSet(Append(s, e)) \subseteq ToSet(s) \cup {e}
  BY <1>1, <1>2 DEF ToSet
<1> QED BY <1>5, <1>6

\* The empty sequence has no elements.
LEMMA SetOfEmpty == ToSet(<<>>) = {}
BY DEF ToSet

\* A sequence of S has elements of S, a nonempty one has some.
LEMMA SetOfSeq ==
  ASSUME NEW S, NEW s \in Seq(S)
  PROVE  ToSet(s) \subseteq S /\ (s # <<>> => ToSet(s) # {})
<1>1. DOMAIN s = 1 .. Len(s) /\ (s # <<>> => 1 \in 1 .. Len(s))
  BY LenProperties, EmptySeq
<1> QED BY <1>1, ElementOfSeq DEF ToSet

\* An element once more is a repetition if and only if it was there.
LEMMA InjectiveAppend ==
  ASSUME NEW S, NEW s \in Seq(S), NEW e \in S
  PROVE  IsInjective(Append(s, e)) <=> IsInjective(s) /\ e \notin ToSet(s)
<1>1. /\ DOMAIN Append(s, e) = 1 .. Len(s) + 1 /\ DOMAIN s = 1 .. Len(s)
      /\ Len(s) \in Nat
      /\ \A i \in 1 .. Len(s) : Append(s, e)[i] = s[i]
      /\ Append(s, e)[Len(s) + 1] = e
  BY AppendProperties, LenProperties
<1> DEFINE t == Append(s, e)
<1>2. ASSUME IsInjective(t) PROVE IsInjective(s) /\ e \notin ToSet(s)
  <2>1. \A i, j \in 1 .. Len(s) + 1 : t[i] = t[j] => i = j
    BY <1>1, <1>2 DEF IsInjective
  <2> HIDE DEF t
  <2>2. \A i \in 1 .. Len(s) : i \in 1 .. Len(s) + 1 /\ i # Len(s) + 1
    BY <1>1
  <2>3. \A i, j \in 1 .. Len(s) : s[i] = s[j] => i = j
    BY <2>1, <2>2, <1>1 DEF t
  <2>4. \A i \in 1 .. Len(s) : s[i] # e
    <3>1. Len(s) + 1 \in 1 .. Len(s) + 1
      BY <1>1
    <3> QED BY <3>1, <2>1, <2>2, <1>1 DEF t
  <2> QED BY <2>3, <2>4, <1>1 DEF IsInjective, ToSet
<1>3. ASSUME IsInjective(s), e \notin ToSet(s) PROVE IsInjective(t)
  <2>1. \A i, j \in 1 .. Len(s) : s[i] = s[j] => i = j
    BY <1>1, <1>3 DEF IsInjective
  <2>2. \A i \in 1 .. Len(s) : s[i] # e
    BY <1>1, <1>3 DEF ToSet
  <2>3. \A i \in 1 .. Len(s) + 1 : i \in 1 .. Len(s) \/ i = Len(s) + 1
    BY <1>1
  <2>4. \A i, j \in 1 .. Len(s) + 1 : t[i] = t[j] => i = j
    BY <2>1, <2>2, <2>3, <1>1
  <2> QED BY <2>4, <1>1 DEF IsInjective
<1> QED BY <1>2, <1>3

\* A concatenation repeats nothing if neither part does and they share nothing.
LEMMA InjectiveConcat ==
  ASSUME NEW S, NEW a \in Seq(S), NEW b \in Seq(S)
  PROVE  IsInjective(a \o b) <=>
           IsInjective(a) /\ IsInjective(b) /\ ToSet(a) \cap ToSet(b) = {}
<1> DEFINE P == {c \in Seq(S) : IsInjective(a \o c) <=>
                    IsInjective(a) /\ IsInjective(c) /\ ToSet(a) \cap ToSet(c) = {}}
<1>1. <<>> \in P
  <2>1. IsInjective(<<>>)
    BY DEF IsInjective
  <2>2. a \o <<>> = a
    BY ConcatEmptySeq
  <2> QED BY <2>1, <2>2, SetOfEmpty, EmptySeq
<1>2. ASSUME NEW s \in Seq(S), NEW e \in S, s \in P PROVE Append(s, e) \in P
  <2>1. a \o Append(s, e) = Append(a \o s, e) /\ a \o s \in Seq(S)
    <3>1. Append(s, e) = s \o <<e>> /\ <<e>> \in Seq(S) /\ a \o s \in Seq(S)
      BY AppendIsConcat, ConcatProperties
    <3> QED BY <3>1, AppendIsConcat, Regroup
  <2>2. IsInjective(a \o Append(s, e)) <=> IsInjective(a \o s) /\ e \notin ToSet(a \o s)
    BY <2>1, InjectiveAppend
  <2>3. IsInjective(Append(s, e)) <=> IsInjective(s) /\ e \notin ToSet(s)
    BY InjectiveAppend
  <2>4. ToSet(a \o s) = ToSet(a) \cup ToSet(s) /\ ToSet(Append(s, e)) = ToSet(s) \cup {e}
    BY SetOfConcat, SetOfAppend
  <2>5. IsInjective(a \o s) <=>
          IsInjective(a) /\ IsInjective(s) /\ ToSet(a) \cap ToSet(s) = {}
    BY <1>2
  <2>6. Append(s, e) \in Seq(S)
    BY AppendProperties
  <2>7. IsInjective(a \o Append(s, e)) <=>
          IsInjective(a) /\ IsInjective(Append(s, e)) /\ ToSet(a) \cap ToSet(Append(s, e)) = {}
    BY <2>2, <2>3, <2>4, <2>5
  <2> QED BY <2>6, <2>7
<1> HIDE DEF P
<1>3. \A c \in Seq(S) : c \in P
  BY <1>1, <1>2, SeqSets
<1> QED BY <1>3 DEF P

-----------------------------------------------------------------------------

\* Of nothing nothing is left.
LEMMA WithoutEmpty ==
  ASSUME NEW X
  PROVE  Without(<<>>, X) = <<>>
<1>1. [i \in DOMAIN <<>> |-> IF <<>>[i] \in X THEN <<>> ELSE << <<>>[i] >>] = <<>>
  OBVIOUS
<1> QED BY <1>1, FlattenEmpty DEF Without

\* Without goes element by element.
LEMMA WithoutAppend ==
  ASSUME NEW S, NEW s \in Seq(S), NEW e \in S, NEW X
  PROVE  /\ Without(s, X) \in Seq(S)
         /\ Without(Append(s, e), X) =
              IF e \in X THEN Without(s, X) ELSE Append(Without(s, X), e)
<1> DEFINE t == Append(s, e)
           one(x) == IF x \in X THEN <<>> ELSE <<x>>
           ss == [i \in DOMAIN s |-> one(s[i])]
           tt == [i \in DOMAIN t |-> one(t[i])]
<1>1. /\ t \in Seq(S) /\ DOMAIN t = 1 .. Len(s) + 1 /\ DOMAIN s = 1 .. Len(s)
      /\ Len(s) \in Nat
      /\ \A i \in 1 .. Len(s) : t[i] = s[i] /\ s[i] \in S
      /\ t[Len(s) + 1] = e
  BY AppendProperties, LenProperties, ElementOfSeq
<1>2. \A x \in S : one(x) \in Seq(S)
  OBVIOUS
<1>3. Without(s, X) = FlattenSeq(ss) /\ Without(t, X) = FlattenSeq(tt)
  BY DEF Without
<1> HIDE DEF t, one
<1>4. ss \in Seq(Seq(S)) /\ Len(ss) = Len(s) /\ DOMAIN ss = 1 .. Len(s)
  BY <1>1, <1>2
<1>5. tt = Append(ss, one(e))
  <2>1. one(e) \in Seq(S)
    BY <1>2
  <2>2. /\ Append(ss, one(e)) \in Seq(Seq(S)) /\ Len(Append(ss, one(e))) = Len(s) + 1
        /\ \A i \in 1 .. Len(s) : Append(ss, one(e))[i] = ss[i]
        /\ Append(ss, one(e))[Len(s) + 1] = one(e)
    BY <2>1, <1>4, AppendProperties
  <2>3. tt \in Seq(Seq(S)) /\ Len(tt) = Len(s) + 1
    <3>1. \A i \in 1 .. Len(s) + 1 : t[i] \in S
      BY <1>1
    <3> QED BY <3>1, <1>1, <1>2
  <2>4. \A i \in 1 .. Len(s) + 1 : i \in 1 .. Len(s) \/ i = Len(s) + 1
    BY <1>1
  <2>5. \A i \in 1 .. Len(s) + 1 : tt[i] = one(t[i])
    BY <1>1
  <2>6. \A i \in 1 .. Len(s) : ss[i] = one(s[i])
    BY <1>1
  <2> HIDE DEF tt, ss
  <2>7. \A i \in 1 .. Len(tt) : tt[i] = Append(ss, one(e))[i]
    BY <2>2, <2>3, <2>4, <2>5, <2>6, <1>1
  <2> QED BY <2>2, <2>3, <2>7, SeqEqual
<1> HIDE DEF tt, ss
<1>6. FlattenSeq(tt) = FlattenSeq(ss) \o one(e) /\ FlattenSeq(ss) \in Seq(S)
  BY <1>2, <1>4, <1>5, FlattenAppend
<1>7. CASE e \in X
  <2>1. FlattenSeq(ss) \o one(e) = FlattenSeq(ss)
    BY <1>6, <1>7, ConcatEmptySeq DEF one
  <2> QED BY <2>1, <1>3, <1>6, <1>7 DEF t
<1>8. CASE e \notin X
  <2>1. FlattenSeq(ss) \o one(e) = Append(FlattenSeq(ss), e)
    BY <1>6, <1>8, AppendIsConcat DEF one
  <2> QED BY <2>1, <1>3, <1>6, <1>8 DEF t
<1> QED BY <1>7, <1>8

-----------------------------------------------------------------------------
(* The laws of Without, and of what a function gives for each element.     *)

\* What Without leaves: the elements that are not gone, in a sequence with no
\* repetition of its own.
LEMMA WithoutSet ==
  ASSUME NEW S, NEW s \in Seq(S), NEW X
  PROVE  /\ Without(s, X) \in Seq(S)
         /\ ToSet(Without(s, X)) = ToSet(s) \ X
         /\ IsInjective(s) => IsInjective(Without(s, X))
<1>0. \A d \in Seq(S) : Without(d, X) \in Seq(S)
  <2> TAKE d \in Seq(S)
  <2>1. CASE S = {}
    <3>1. d = <<>>
      BY <2>1, EmptySeq, ElementOfSeq, LenProperties
    <3> QED BY <3>1, WithoutEmpty, EmptySeq
  <2>2. ASSUME NEW e \in S PROVE Without(d, X) \in Seq(S)
    BY WithoutAppend
  <2> QED BY <2>1, <2>2
<1> DEFINE P == {d \in Seq(S) : /\ ToSet(Without(d, X)) = ToSet(d) \ X
                                /\ IsInjective(d) => IsInjective(Without(d, X))}
<1>1. <<>> \in P
  BY WithoutEmpty, SetOfEmpty, EmptySeq
<1>2. ASSUME NEW d \in Seq(S), NEW e \in S, d \in P PROVE Append(d, e) \in P
  <2>1. /\ Without(d, X) \in Seq(S) /\ Append(d, e) \in Seq(S)
        /\ Without(Append(d, e), X) =
             IF e \in X THEN Without(d, X) ELSE Append(Without(d, X), e)
    <3>1. Append(d, e) \in Seq(S)
      BY AppendProperties
    <3>2. Without(d, X) \in Seq(S)
      BY WithoutAppend
    <3>3. Without(Append(d, e), X) =
            IF e \in X THEN Without(d, X) ELSE Append(Without(d, X), e)
      BY WithoutAppend
    <3> QED BY <3>1, <3>2, <3>3
  <2>2. ToSet(Append(d, e)) = ToSet(d) \cup {e}
    BY SetOfAppend
  <2>3. IsInjective(Append(d, e)) <=> IsInjective(d) /\ e \notin ToSet(d)
    BY InjectiveAppend
  <2>4. ToSet(Append(Without(d, X), e)) = ToSet(Without(d, X)) \cup {e}
    BY <2>1, SetOfAppend
  <2>5. IsInjective(Append(Without(d, X), e)) <=>
          IsInjective(Without(d, X)) /\ e \notin ToSet(Without(d, X))
    BY <2>1, InjectiveAppend
  <2>6. /\ ToSet(Without(d, X)) = ToSet(d) \ X
        /\ IsInjective(d) => IsInjective(Without(d, X))
    BY <1>2
  <2>7. ToSet(Without(Append(d, e), X)) = ToSet(Append(d, e)) \ X
    BY <2>1, <2>2, <2>4, <2>6
  <2>8. IsInjective(Append(d, e)) => IsInjective(Without(Append(d, e), X))
    BY <2>1, <2>3, <2>5, <2>6
  <2> QED BY <2>1, <2>7, <2>8
<1> HIDE DEF P
<1>3. \A d \in Seq(S) : d \in P
  BY <1>1, <1>2, SeqSets
<1> QED BY <1>0, <1>3 DEF P

\* If none of it is gone, all of it is left.
LEMMA WithoutNone ==
  ASSUME NEW S, NEW s \in Seq(S), NEW X, ToSet(s) \cap X = {}
  PROVE  Without(s, X) = s
<1> DEFINE P == {d \in Seq(S) : ToSet(d) \cap X = {} => Without(d, X) = d}
<1>1. <<>> \in P
  BY WithoutEmpty, EmptySeq
<1>2. ASSUME NEW d \in Seq(S), NEW e \in S, d \in P PROVE Append(d, e) \in P
  <2>1. /\ Append(d, e) \in Seq(S)
        /\ Without(Append(d, e), X) =
             IF e \in X THEN Without(d, X) ELSE Append(Without(d, X), e)
    BY WithoutAppend, AppendProperties
  <2>2. ToSet(Append(d, e)) = ToSet(d) \cup {e}
    BY SetOfAppend
  <2> QED BY <1>2, <2>1, <2>2
<1> HIDE DEF P
<1>3. \A d \in Seq(S) : d \in P
  BY <1>1, <1>2, SeqSets
<1> QED BY <1>3 DEF P

\* If all of it is gone, nothing is left.
LEMMA WithoutAll ==
  ASSUME NEW S, NEW s \in Seq(S), NEW X, ToSet(s) \subseteq X
  PROVE  Without(s, X) = <<>>
<1>1. Without(s, X) \in Seq(S) /\ ToSet(Without(s, X)) = {}
  BY WithoutSet
<1> QED BY <1>1, SetOfSeq

\* What goes at once and what goes one after the other leave the same.
LEMMA WithoutTwice ==
  ASSUME NEW S, NEW s \in Seq(S), NEW X, NEW Y
  PROVE  Without(Without(s, X), Y) = Without(s, X \cup Y)
<1> DEFINE P == {d \in Seq(S) : Without(Without(d, X), Y) = Without(d, X \cup Y)}
<1>1. <<>> \in P
  BY WithoutEmpty, EmptySeq
<1>2. ASSUME NEW d \in Seq(S), NEW e \in S, d \in P PROVE Append(d, e) \in P
  <2>1. /\ Append(d, e) \in Seq(S) /\ Without(d, X) \in Seq(S)
        /\ Without(Append(d, e), X) =
             IF e \in X THEN Without(d, X) ELSE Append(Without(d, X), e)
    <3>1. Append(d, e) \in Seq(S)
      BY AppendProperties
    <3>2. Without(d, X) \in Seq(S)
      BY WithoutAppend
    <3>3. Without(Append(d, e), X) =
            IF e \in X THEN Without(d, X) ELSE Append(Without(d, X), e)
      BY WithoutAppend
    <3> QED BY <3>1, <3>2, <3>3
  <2>2. Without(Append(d, e), X \cup Y) =
          IF e \in X \cup Y THEN Without(d, X \cup Y) ELSE Append(Without(d, X \cup Y), e)
    BY WithoutAppend
  <2>3. Without(Append(Without(d, X), e), Y) =
          IF e \in Y THEN Without(Without(d, X), Y)
                     ELSE Append(Without(Without(d, X), Y), e)
    BY <2>1, WithoutAppend, SMTT(20)
  <2>4. Without(Without(d, X), Y) = Without(d, X \cup Y)
    BY <1>2
  <2>5. CASE e \in X
    BY <2>1, <2>2, <2>4, <2>5
  <2>6. CASE e \notin X
    BY <2>1, <2>2, <2>3, <2>4, <2>6
  <2> QED BY <2>5, <2>6
<1> HIDE DEF P
<1>3. \A d \in Seq(S) : d \in P
  BY <1>1, <1>2, SeqSets
<1> QED BY <1>3 DEF P

\* Without distributes over concatenation.
LEMMA WithoutConcat ==
  ASSUME NEW S, NEW a \in Seq(S), NEW b \in Seq(S), NEW X
  PROVE  Without(a \o b, X) = Without(a, X) \o Without(b, X)
<1>0. \A d \in Seq(S) : Without(d, X) \in Seq(S)
  BY WithoutSet
<1> DEFINE P == {d \in Seq(S) : Without(a \o d, X) = Without(a, X) \o Without(d, X)}
<1>1. <<>> \in P
  BY <1>0, WithoutEmpty, ConcatEmptySeq, EmptySeq
<1>2. ASSUME NEW d \in Seq(S), NEW e \in S, d \in P PROVE Append(d, e) \in P
  <2>1. a \o Append(d, e) = Append(a \o d, e) /\ a \o d \in Seq(S)
    <3>1. Append(d, e) = d \o <<e>> /\ <<e>> \in Seq(S) /\ a \o d \in Seq(S)
      BY AppendIsConcat, ConcatProperties
    <3> QED BY <3>1, AppendIsConcat, Regroup
  <2>2. Without(Append(a \o d, e), X) =
          IF e \in X THEN Without(a \o d, X) ELSE Append(Without(a \o d, X), e)
    <3>1. \A u \in Seq(S) : Without(Append(u, e), X) =
            IF e \in X THEN Without(u, X) ELSE Append(Without(u, X), e)
      BY WithoutAppend
    <3> QED BY <2>1, <3>1, Zenon
  <2>3. Without(Append(d, e), X) =
          IF e \in X THEN Without(d, X) ELSE Append(Without(d, X), e)
    BY WithoutAppend
  <2>4. Without(a \o d, X) = Without(a, X) \o Without(d, X)
    BY <1>2
  <2>5. Without(a, X) \in Seq(S) /\ Without(d, X) \in Seq(S)
    BY <1>0
  <2>6. Append(Without(a, X) \o Without(d, X), e) = Without(a, X) \o Append(Without(d, X), e)
    <3> DEFINE A == Without(a, X)
               D == Without(d, X)
    <3> HIDE DEF A, D
    <3>1. A \in Seq(S) /\ D \in Seq(S) /\ A \o D \in Seq(S) /\ <<e>> \in Seq(S)
      BY <2>5, ConcatProperties DEF A, D
    <3>2. Append(A \o D, e) = (A \o D) \o <<e>> /\ Append(D, e) = D \o <<e>>
      BY <3>1, AppendIsConcat
    <3>3. Append(A \o D, e) = A \o Append(D, e)
      BY <3>1, <3>2, Regroup, SMTT(20)
    <3> QED BY <3>3 DEF A, D
  <2>7. Without(a \o Append(d, e), X) = Without(a, X) \o Without(Append(d, e), X)
    BY <2>1, <2>2, <2>3, <2>4, <2>6
  <2> QED BY <2>7, AppendProperties
<1> HIDE DEF P
<1>3. \A d \in Seq(S) : d \in P
  BY <1>1, <1>2, SeqSets
<1> QED BY <1>3 DEF P

-----------------------------------------------------------------------------

\* The values of f for the elements of s, one after the other.
Gather(f, s) == FlattenSeq([i \in DOMAIN s |-> f[s[i]]])

\* Gather has the values f gives.
LEMMA GatherIs ==
  ASSUME NEW S, NEW T, NEW f \in [S -> Seq(T)], NEW s \in Seq(S)
  PROVE  [i \in DOMAIN s |-> f[s[i]]] \in Seq(Seq(T)) /\ Gather(f, s) \in Seq(T)
<1>1. Len(s) \in Nat /\ DOMAIN s = 1 .. Len(s) /\ \A i \in 1 .. Len(s) : s[i] \in S
  BY LenProperties, ElementOfSeq
<1>2. \A x \in S : f[x] \in Seq(T)
  OBVIOUS
<1>3. [i \in DOMAIN s |-> f[s[i]]] \in Seq(Seq(T))
  BY <1>1, <1>2
<1> HIDE DEF Gather
<1>4. FlattenSeq([i \in DOMAIN s |-> f[s[i]]]) \in Seq(T)
  BY <1>3, FlattenAppend, EmptySeq
<1> QED BY <1>3, <1>4 DEF Gather

\* Gather of nothing is empty.
LEMMA GatherEmpty ==
  ASSUME NEW f
  PROVE  Gather(f, <<>>) = <<>>
<1>1. [i \in DOMAIN <<>> |-> f[<<>>[i]]] = <<>>
  OBVIOUS
<1> QED BY <1>1, FlattenEmpty DEF Gather

\* Gather, one element fewer at the front.
LEMMA GatherHead ==
  ASSUME NEW S, NEW T, NEW f \in [S -> Seq(T)], NEW s \in Seq(S), s # <<>>
  PROVE  /\ Head(s) \in S /\ Tail(s) \in Seq(S) /\ f[Head(s)] \in Seq(T)
         /\ Gather(f, s) = f[Head(s)] \o Gather(f, Tail(s))
<1> DEFINE m(u) == [i \in DOMAIN u |-> f[u[i]]]
<1>1. m(s) \in Seq(Seq(T)) /\ m(Tail(s)) \in Seq(Seq(T)) /\ Tail(s) \in Seq(S) /\ Head(s) \in S
  BY GatherIs, HeadTailProperties
<1>2. /\ Len(s) \in Nat \ {0} /\ DOMAIN s = 1 .. Len(s)
      /\ DOMAIN Tail(s) = 1 .. Len(s) - 1 /\ Head(s) = s[1]
      /\ \A i \in 1 .. Len(s) - 1 : Tail(s)[i] = s[i + 1]
  BY HeadTailProperties, LenProperties, EmptySeq
<1>3. /\ \A i \in 1 .. Len(s) : m(s)[i] = f[s[i]]
      /\ \A i \in 1 .. Len(s) - 1 : m(Tail(s))[i] = f[Tail(s)[i]]
  BY <1>2
<1>4. Len(m(s)) = Len(s) /\ Len(m(Tail(s))) = Len(s) - 1 /\ m(s) # <<>>
  BY <1>1, <1>2, LenProperties, EmptySeq
<1>5. Gather(f, s) = FlattenSeq(m(s)) /\ Gather(f, Tail(s)) = FlattenSeq(m(Tail(s)))
  BY DEF Gather
<1> HIDE DEF m
<1>6. /\ Head(m(s)) = m(s)[1] /\ Tail(m(s)) \in Seq(Seq(T)) /\ Len(Tail(m(s))) = Len(s) - 1
      /\ \A i \in 1 .. Len(s) - 1 : Tail(m(s))[i] = m(s)[i + 1]
  BY <1>1, <1>4, HeadTailProperties
<1>7. Head(m(s)) = f[Head(s)]
  BY <1>2, <1>3, <1>6
<1>8. Tail(m(s)) = m(Tail(s))
  <2>1. \A i \in 1 .. Len(s) - 1 : Tail(m(s))[i] = m(Tail(s))[i]
    <3> TAKE i \in 1 .. Len(s) - 1
    <3>1. i + 1 \in 1 .. Len(s)
      BY <1>2
    <3> QED BY <3>1, <1>2, <1>3, <1>6
  <2> QED BY <2>1, <1>1, <1>4, <1>6, SeqEqual
<1>9. FlattenSeq(m(s)) = Head(m(s)) \o FlattenSeq(Tail(m(s)))
  BY <1>1, <1>4, FlattenHead
<1> QED BY <1>1, <1>5, <1>7, <1>8, <1>9

\* An element of Gather is of the value of some element.
LEMMA GatherSet ==
  ASSUME NEW S, NEW T, NEW f \in [S -> Seq(T)]
  PROVE  \A s \in Seq(S) : \A x \in ToSet(Gather(f, s)) : \E y \in ToSet(s) : x \in ToSet(f[y])
<1>0. \A d \in Seq(S) : d # <<>> => Gather(f, d) = f[Head(d)] \o Gather(f, Tail(d))
  BY GatherHead, SMTT(20)
<1> DEFINE P == {n \in Nat : \A d \in Seq(S) : Len(d) = n =>
                   \A z \in ToSet(Gather(f, d)) : \E y \in ToSet(d) : z \in ToSet(f[y])}
<1>1. 0 \in P
  BY GatherEmpty, SetOfEmpty, EmptySeq
<1>2. ASSUME NEW n \in Nat, n \in P PROVE n + 1 \in P
  <2> SUFFICES ASSUME NEW d \in Seq(S), Len(d) = n + 1, NEW z \in ToSet(Gather(f, d))
               PROVE  \E y \in ToSet(d) : z \in ToSet(f[y])
    OBVIOUS
  <2>1. d # <<>>
    BY EmptySeq
  <2>2. /\ Head(d) \in S /\ Tail(d) \in Seq(S) /\ f[Head(d)] \in Seq(T) /\ Len(Tail(d)) = n
        /\ Gather(f, d) = f[Head(d)] \o Gather(f, Tail(d)) /\ Gather(f, Tail(d)) \in Seq(T)
    <3>1. Tail(d) \in Seq(S) /\ Len(Tail(d)) = n
      BY <2>1, HeadTailProperties
    <3>2. Gather(f, Tail(d)) \in Seq(T)
      BY <3>1, GatherIs
    <3>3. Head(d) \in S /\ f[Head(d)] \in Seq(T)
      BY <2>1, HeadTailProperties
    <3>4. Gather(f, d) = f[Head(d)] \o Gather(f, Tail(d))
      BY <2>1, <1>0
    <3> QED BY <3>1, <3>2, <3>3, <3>4
  <2>3. z \in ToSet(f[Head(d)]) \/ z \in ToSet(Gather(f, Tail(d)))
    BY <2>2, SetOfConcat
  <2>4. Head(d) \in ToSet(d) /\ ToSet(Tail(d)) \subseteq ToSet(d)
    <3>1. /\ DOMAIN d = 1 .. n + 1 /\ DOMAIN Tail(d) = 1 .. n /\ Head(d) = d[1]
          /\ \A i \in 1 .. n : Tail(d)[i] = d[i + 1]
      BY <2>1, <2>2, HeadTailProperties, LenProperties
    <3>2. \A i \in 1 .. n : i + 1 \in 1 .. n + 1
      OBVIOUS
    <3> QED BY <3>1, <3>2 DEF ToSet
  <2>5. CASE z \in ToSet(f[Head(d)])
    BY <2>4, <2>5
  <2>6. CASE z \in ToSet(Gather(f, Tail(d)))
    <3>1. \E y \in ToSet(Tail(d)) : z \in ToSet(f[y])
      BY <2>2, <2>6, <1>2
    <3> QED BY <3>1, <2>4
  <2> QED BY <2>3, <2>5, <2>6
<1> HIDE DEF P
<1>3. \A n \in Nat : n \in P
  BY <1>1, <1>2, NatSets
<1> QED BY <1>3, LenProperties DEF P

-----------------------------------------------------------------------------
(* Chunks.                                                                 *)

\* A beginning of a sequence repeats nothing that the sequence does not.
LEMMA SubSeqInjective ==
  ASSUME NEW S, NEW s \in Seq(S), NEW n \in 0 .. Len(s), IsInjective(s)
  PROVE  IsInjective(SubSeq(s, 1, n)) /\ SubSeq(s, 1, n) \in Seq(S)
         /\ ToSet(SubSeq(s, 1, n)) \subseteq ToSet(s)
<1>1. DOMAIN s = 1 .. Len(s) /\ Len(s) \in Nat /\ \A i \in 1 .. n : s[i] \in S
  BY LenProperties, ElementOfSeq
<1>2. /\ SubSeq(s, 1, n) \in Seq(S) /\ DOMAIN SubSeq(s, 1, n) = 1 .. n
      /\ \A i \in 1 .. n : SubSeq(s, 1, n)[i] = s[i]
  <2> DEFINE t == SubSeq(s, 1, n)
  <2>1. t \in Seq(S) /\ Len(t) = (IF 1 <= n THEN n - 1 + 1 ELSE 0)
        /\ \A i \in 1 .. n - 1 + 1 : t[i] = s[1 + i - 1]
    BY <1>1, SubSeqProperties
  <2> HIDE DEF t
  <2>2. Len(t) = n /\ \A i \in 1 .. n : t[i] = s[i]
    BY <2>1, <1>1
  <2>3. DOMAIN t = 1 .. n
    BY <2>1, <2>2, LenProperties
  <2> QED BY <2>1, <2>2, <2>3 DEF t
<1>3. \A i \in 1 .. n : i \in 1 .. Len(s)
  BY <1>1
<1>4. \A i, j \in 1 .. n : s[i] = s[j] => i = j
  BY <1>1, <1>3 DEF IsInjective
<1>5. IsInjective(SubSeq(s, 1, n))
  BY <1>2, <1>4 DEF IsInjective
<1> QED BY <1>1, <1>2, <1>3, <1>5 DEF ToSet

\* What a quotient is, as the solver knows it: Chunks divides.
LEMMA Division ==
  ASSUME NEW a \in Nat, NEW b \in Nat \ {0}
  PROVE  a \div b \in Nat /\ (a \div b) * b <= a /\ a < (a \div b) * b + b
OBVIOUS

\* The first k chunks hold what they are cut from, up to the end of the k-th.
LEMMA ChunksHoldAll ==
  ASSUME NEW S, NEW items \in Seq(S), NEW size \in Nat \ {0}
  PROVE  /\ Chunks(items, size) \in Seq(Seq(S))
         /\ FlattenSeq(Chunks(items, size)) = items
         /\ size = 1 => \A b \in ToSet(Chunks(items, size)) : Len(b) = 1
<1> DEFINE len == Len(items)
           n == (len + size - 1) \div size
           end(k) == IF k * size > len THEN len ELSE k * size
           ch == [k \in 1 .. n |-> SubSeq(items, (k - 1) * size + 1, end(k))]
<1>1. len \in Nat /\ \A i \in 1 .. len : items[i] \in S
  BY LenProperties, ElementOfSeq
<1>2. n \in Nat /\ n * size >= len /\ n * size < len + size
  <2>1. len + size - 1 \in Nat
    BY <1>1
  <2> DEFINE a == len + size - 1
  <2>2. a \div size \in Nat /\ (a \div size) * size <= a /\ a < (a \div size) * size + size
    <3> HIDE DEF a
    <3> QED BY <2>1, Division DEF a
  <2> DEFINE m == n * size
  <2>3. m <= a /\ a < m + size /\ m \in Nat /\ n \in Nat
    BY <2>2
  <2>4. m >= len /\ m < len + size
    <3> HIDE DEF m, n
    <3> QED BY <2>3, <1>1 DEF a
  <2> QED BY <2>3, <2>4
<1> HIDE DEF len, n
<1>3. \A k \in Nat : /\ k * size \in Nat /\ (k + 1) * size = k * size + size
                     /\ k < n => k * size < len
  <2> TAKE k \in Nat
  <2>1. k * size \in Nat /\ (k + 1) * size = k * size + size
    OBVIOUS
  <2>2. ASSUME k < n PROVE k * size < len
    <3>1. (k + 1) * size <= n * size
      BY <2>2, <1>2
    <3> QED BY <3>1, <2>1, <1>2, <1>1
  <2> QED BY <2>1, <2>2
<1>4. \A k \in Nat : end(k) \in 0 .. len /\ end(0) = 0 /\ end(n) = len
  BY <1>1, <1>2, <1>3
<1>5. \A k \in Nat : k < n => /\ ((k + 1) - 1) * size + 1 = end(k) + 1
                              /\ end(k) < end(k + 1)
  <2> TAKE k \in Nat
  <2> HAVE k < n
  <2>1. k * size < len /\ k * size \in Nat /\ (k + 1) * size = k * size + size
    BY <1>3
  <2>2. end(k) = k * size
    BY <2>1, <1>1
  <2>3. ((k + 1) - 1) * size = k * size
    OBVIOUS
  <2>4. end(k) < end(k + 1)
    BY <2>1, <1>1
  <2> QED BY <2>2, <2>3, <2>4
<1>6. Chunks(items, size) = ch
  BY DEF Chunks, n, len
<1> HIDE DEF end
<1>7. \A k \in Nat : k < n =>
        /\ k + 1 \in 1 .. n
        /\ ch[k + 1] = SubSeq(items, end(k) + 1, end(k + 1))
        /\ ch[k + 1] \in Seq(S) /\ Len(ch[k + 1]) = end(k + 1) - end(k)
  <2> TAKE k \in Nat
  <2> HAVE k < n
  <2>1. k + 1 \in 1 .. n
    BY <1>2
  <2>2. ch[k + 1] = SubSeq(items, ((k + 1) - 1) * size + 1, end(k + 1))
    BY <2>1
  <2>3. end(k) \in 0 .. len /\ end(k + 1) \in 0 .. len /\ end(k) < end(k + 1)
    BY <1>4, <1>5
  <2>4. ch[k + 1] = SubSeq(items, end(k) + 1, end(k + 1))
    BY <2>2, <1>5
  <2> HIDE DEF ch
  <2>5. \A i \in end(k) + 1 .. end(k + 1) : items[i] \in S
    BY <1>1, <2>3
  <2> DEFINE a == end(k) + 1
             b == end(k + 1)
  <2>6. a \in Int /\ b \in Int /\ a <= b
    BY <2>3
  <2>7. \A i \in a .. b : items[i] \in S
    BY <2>5
  <2> HIDE DEF a, b
  <2>8. SubSeq(items, a, b) \in Seq(S) /\ Len(SubSeq(items, a, b)) = b - a + 1
    BY <2>6, <2>7, SubSeqProperties
  <2>9. b - a + 1 = end(k + 1) - end(k)
    BY <2>3 DEF a, b
  <2> QED BY <2>1, <2>4, <2>8, <2>9 DEF a, b
<1>8. ch \in Seq(Seq(S)) /\ Len(ch) = n /\ DOMAIN ch = 1 .. n
  <2>1. ASSUME NEW k \in 1 .. n PROVE ch[k] \in Seq(S)
    <3>1. k - 1 \in Nat /\ k - 1 < n /\ (k - 1) + 1 = k
      BY <1>2
    <3> HIDE DEF ch
    <3> QED BY <3>1, <1>7
  <2>2. \A k \in 1 .. n : SubSeq(items, (k - 1) * size + 1, end(k)) \in Seq(S)
    BY <2>1
  <2> QED BY <2>2, <1>2
<1> HIDE DEF ch
<1> DEFINE P == {k \in Nat : k <= n => FlattenSeq(SubSeq(ch, 1, k)) = SubSeq(items, 1, end(k))}
<1>9. 0 \in P
  <2>1. SubSeq(ch, 1, 0) = <<>> /\ SubSeq(items, 1, 0) = <<>>
    BY SubSeqEmpty
  <2> QED BY <2>1, <1>4, FlattenEmpty
<1>10. ASSUME NEW k \in Nat, k \in P PROVE k + 1 \in P
  <2> SUFFICES ASSUME k < n
               PROVE  FlattenSeq(SubSeq(ch, 1, k + 1)) = SubSeq(items, 1, end(k + 1))
    BY <1>2
  <2>1. FlattenSeq(SubSeq(ch, 1, k)) = SubSeq(items, 1, end(k))
    BY <1>10, <1>2
  <2>2. SubSeq(ch, 1, k + 1) = Append(SubSeq(ch, 1, k), ch[k + 1]) /\ SubSeq(ch, 1, k) \in Seq(Seq(S))
    <3>1. SubSeq(ch, 1, k + 1) = SubSeq(ch, 1, (k + 1) - 1) \o <<ch[k + 1]>>
      <4>1. 1 \in 1 .. Len(ch) /\ k + 1 \in 1 .. Len(ch)
        BY <1>8, <1>2
      <4> QED BY <4>1, <1>8, SubSeqRecursiveSecond
    <3>2. (k + 1) - 1 = k
      OBVIOUS
    <3>3. \A i \in 1 .. k : ch[i] \in Seq(S)
      BY <1>8, <1>2
    <3>4. SubSeq(ch, 1, k) \in Seq(Seq(S))
      BY <3>3, SubSeqProperties
    <3>5. ch[k + 1] \in Seq(S)
      BY <1>7
    <3> QED BY <3>1, <3>2, <3>4, <3>5, AppendIsConcat
  <2>3. ch[k + 1] \in Seq(S) /\ ch[k + 1] = SubSeq(items, end(k) + 1, end(k + 1))
    BY <1>7
  <2>4. FlattenSeq(SubSeq(ch, 1, k + 1)) = FlattenSeq(SubSeq(ch, 1, k)) \o ch[k + 1]
    BY <2>2, <2>3, FlattenAppend
  <2>5. SubSeq(items, 1, end(k)) \o SubSeq(items, end(k) + 1, end(k + 1)) = SubSeq(items, 1, end(k + 1))
    <3> DEFINE a == end(k)
               b == end(k + 1)
    <3>1. a \in 0 .. len /\ b \in 0 .. len /\ a < b
      BY <1>4, <1>5
    <3> HIDE DEF a, b
    <3>2. 1 \in 1 .. Len(items) + 1 /\ a \in 1 - 1 .. Len(items) /\ b \in a .. Len(items)
      BY <3>1, <1>1 DEF len
    <3>3. SubSeq(items, 1, a) \o SubSeq(items, a + 1, b) = SubSeq(items, 1, b)
      BY <3>2, ConcatAdjacentSubSeq
    <3> QED BY <3>3 DEF a, b
  <2> QED BY <2>1, <2>3, <2>4, <2>5
<1> HIDE DEF P
<1>11. \A k \in Nat : k \in P
  BY <1>9, <1>10, NatSets
<1>12. FlattenSeq(ch) = items
  <2>1. FlattenSeq(SubSeq(ch, 1, n)) = SubSeq(items, 1, end(n))
    BY <1>11, <1>2 DEF P
  <2>2. SubSeq(ch, 1, n) = ch
    BY <1>8, SubSeqFull
  <2>3. SubSeq(items, 1, len) = items
    BY SubSeqFull DEF len
  <2> QED BY <2>1, <2>2, <2>3, <1>2, <1>4
<1>13. ASSUME size = 1 PROVE \A b \in ToSet(ch) : Len(b) = 1
  <2>1. ASSUME NEW j \in 1 .. n PROVE Len(ch[j]) = 1
    <3>1. j - 1 \in Nat /\ j - 1 < n /\ (j - 1) + 1 = j
      BY <1>2
    <3>2. Len(ch[j]) = end(j) - end(j - 1) /\ end(j - 1) < end(j)
      BY <3>1, <1>7, <1>5
    <3>3. end(j) <= j /\ end(j - 1) = j - 1
      <4>1. (j - 1) * size < len /\ (j - 1) * size = j - 1 /\ j * size = j
        BY <3>1, <1>3, <1>13
      <4> QED BY <4>1, <1>1 DEF end
    <3> QED BY <3>2, <3>3, <1>4, <3>1
  <2> QED BY <2>1, <1>8 DEF ToSet
<1> QED BY <1>6, <1>8, <1>12, <1>13

-----------------------------------------------------------------------------
(* Pages, and what a method's pages hold.                                  *)

\* The type of what is given, as far as the proofs need it.
LayoutsOK == layouts \in [items : Layouts, belonging : Layouts]

\* A listing has at least one page, each of some size.
LEMMA PagesIs ==
  ASSUME LayoutsOK, NEW s
  PROVE  /\ Pages(s) \in Seq(Nat) /\ Len(Pages(s)) \in Nat \ {0}
         /\ DOMAIN Pages(s) = 1 .. Len(Pages(s))
         /\ \A p \in DOMAIN Pages(s) : Pages(s)[p] \in Nat
<1>1. Pages(s) \in Seq(Nat) /\ Pages(s) # <<>>
  BY ListingAssumption DEF LayoutsOK, Pages
<1> QED BY <1>1, LenProperties, ElementOfSeq, EmptySeq

\* An item names its source, which tells the items of a call from one another.
LEMMA ItemsIs ==
  ASSUME NEW s, NEW x \in Items(s)
  PROVE  x[1] = s /\ x # <<>> /\ (s = <<>> => x \in Item)
<1>1. PICK p \in DOMAIN Pages(s) : x \in {<<s, p, i>> : i \in 1 .. Pages(s)[p]}
  BY DEF Items
<1>2. PICK i \in 1 .. Pages(s)[p] : x = <<s, p, i>>
  BY <1>1
<1>3. x[1] = s /\ x # <<>>
  BY <1>2
<1> QED BY <1>3 DEF Item

\* What belongs to an item of the listing is in Item.
LEMMA ItemsOfItem ==
  ASSUME NEW s \in Items(<<>>)
  PROVE  Items(s) \subseteq Item /\ s # <<>>
BY ItemsIs DEF Item

\* A page has items of its listing, none twice, and none of another page.
LEMMA PageIs ==
  ASSUME LayoutsOK, NEW s, NEW p \in DOMAIN Pages(s)
  PROVE  /\ Page(s, p) \in Seq(Items(s)) /\ IsInjective(Page(s, p))
         /\ \A x \in ToSet(Page(s, p)) : x[2] = p
<1> DEFINE n == Pages(s)[p]
           q == [i \in 1 .. n |-> <<s, p, i>>]
<1>1. n \in Nat /\ Page(s, p) = q
  BY PagesIs DEF Page
<1>2. \A i \in 1 .. n : <<s, p, i>> \in Items(s)
  BY DEF Items
<1> HIDE DEF n
<1>3. q \in Seq(Items(s)) /\ DOMAIN q = 1 .. n
  BY <1>1, <1>2
<1>4. IsInjective(q)
  <2>1. \A i, j \in 1 .. n : q[i] = q[j] => i = j
    OBVIOUS
  <2> HIDE DEF q
  <2> QED BY <2>1, <1>3 DEF IsInjective
<1>5. \A x \in ToSet(q) : x[2] = p
  BY DEF ToSet
<1> QED BY <1>1, <1>3, <1>4, <1>5

\* All items from a page on are those of the page and those from the next one on.
LEMMA AllFromIs ==
  ASSUME LayoutsOK, NEW s
  PROVE  /\ AllFrom(s, Len(Pages(s)) + 1) = <<>>
         /\ \A p \in DOMAIN Pages(s) : AllFrom(s, p) = Page(s, p) \o AllFrom(s, p + 1)
<1> DEFINE n == Len(Pages(s))
<1>1. n \in Nat \ {0} /\ DOMAIN Pages(s) = 1 .. n
  BY PagesIs
<1>2. AllFrom(s, n + 1) = <<>>
  <2>1. n + 1 - (n + 1) = 0
    BY <1>1
  <2>2. [i \in 1 .. n + 1 - (n + 1) |-> Page(s, n + 1 + i - 1)] = <<>>
    BY <2>1
  <2> QED BY <2>2, FlattenEmpty DEF AllFrom
<1>3. ASSUME NEW p \in 1 .. n PROVE AllFrom(s, p) = Page(s, p) \o AllFrom(s, p + 1)
  <2> DEFINE a == [i \in 1 .. n + 1 - p |-> Page(s, p + i - 1)]
             b == [i \in 1 .. n + 1 - (p + 1) |-> Page(s, (p + 1) + i - 1)]
  <2>1. AllFrom(s, p) = FlattenSeq(a) /\ AllFrom(s, p + 1) = FlattenSeq(b)
    BY DEF AllFrom
  <2>2. \A i \in 1 .. n : Page(s, i) \in Seq(Items(s))
    BY <1>1, PageIs
  <2> HIDE DEF n
  <2>3. \A i \in 1 .. n + 1 - p : p + i - 1 \in 1 .. n
    BY <1>1
  <2>4. \A i \in 1 .. n + 1 - (p + 1) : (p + 1) + i - 1 \in 1 .. n
    BY <1>1
  <2>5. a \in Seq(Seq(Items(s))) /\ Len(a) = n + 1 - p
    BY <1>1, <2>2, <2>3
  <2>6. b \in Seq(Seq(Items(s))) /\ Len(b) = n + 1 - (p + 1)
    BY <1>1, <2>2, <2>4
  <2>7. 1 \in 1 .. n + 1 - p /\ p + 1 - 1 = p
    BY <1>1
  <2>8. a[1] = Page(s, p)
    BY <2>7
  <2>9. \A i \in 1 .. n + 1 - (p + 1) : a[i + 1] = b[i]
    <3> TAKE i \in 1 .. n + 1 - (p + 1)
    <3>1. i + 1 \in 1 .. n + 1 - p /\ p + (i + 1) - 1 = (p + 1) + i - 1
      BY <1>1
    <3> QED BY <3>1
  <2> HIDE DEF a, b
  <2>10. a # <<>>
    BY <2>5, <2>7, EmptySeq
  <2>11. /\ Head(a) = a[1] /\ Tail(a) \in Seq(Seq(Items(s))) /\ Len(Tail(a)) = Len(a) - 1
         /\ \A i \in 1 .. Len(Tail(a)) : Tail(a)[i] = a[i + 1]
    BY <2>5, <2>10, HeadTailProperties
  <2>12. Tail(a) = b
    <3>1. Len(Tail(a)) = Len(b) /\ Len(b) = n + 1 - (p + 1)
      BY <2>5, <2>6, <2>11, <1>1
    <3> QED BY <3>1, <2>6, <2>9, <2>11, SeqEqual
  <2> QED BY <2>1, <2>5, <2>8, <2>10, <2>11, <2>12, FlattenHead
<1> QED BY <1>1, <1>2, <1>3

\* All items from a page on: of the listing, none twice, and a part of all.
LEMMA AllFromHolds ==
  ASSUME LayoutsOK, NEW s
  PROVE  \A p \in DOMAIN Pages(s) :
           /\ AllFrom(s, p) \in Seq(Items(s)) /\ IsInjective(AllFrom(s, p))
           /\ AllFrom(s, p + 1) \in Seq(Items(s))
           /\ ToSet(AllFrom(s, p)) \subseteq ToSet(AllFrom(s, 1))
<1> DEFINE n == Len(Pages(s))
<1>1. n \in Nat \ {0} /\ DOMAIN Pages(s) = 1 .. n
  BY PagesIs
<1>2. /\ AllFrom(s, n + 1) = <<>>
      /\ \A p \in 1 .. n : /\ AllFrom(s, p) = Page(s, p) \o AllFrom(s, p + 1)
                           /\ Page(s, p) \in Seq(Items(s)) /\ IsInjective(Page(s, p))
                           /\ \A x \in ToSet(Page(s, p)) : x[2] = p
  BY <1>1, AllFromIs, PageIs
<1> HIDE DEF n
<1> DEFINE Good(p) == /\ AllFrom(s, p) \in Seq(Items(s)) /\ IsInjective(AllFrom(s, p))
                      /\ \A x \in ToSet(AllFrom(s, p)) : x[2] \in Nat /\ x[2] >= p
           P == {k \in Nat : k <= n => Good(n + 1 - k)}
<1>3. 0 \in P
  <2>1. n + 1 - 0 = n + 1
    BY <1>1
  <2>2. IsInjective(<<>>)
    BY DEF IsInjective
  <2> QED BY <2>1, <2>2, <1>2, SetOfEmpty, EmptySeq
<1>4. ASSUME NEW k \in Nat, k \in P PROVE k + 1 \in P
  <2> SUFFICES ASSUME k + 1 <= n PROVE Good(n + 1 - (k + 1))
    OBVIOUS
  <2> DEFINE p == n + 1 - (k + 1)
  <2>1. p \in 1 .. n /\ p + 1 = n + 1 - k /\ k <= n
    BY <1>1
  <2>2. Good(p + 1)
    BY <2>1, <1>4
  <2> HIDE DEF p
  <2>3. AllFrom(s, p) = Page(s, p) \o AllFrom(s, p + 1)
    BY <2>1, <1>2
  <2>4. /\ Page(s, p) \in Seq(Items(s)) /\ IsInjective(Page(s, p))
        /\ \A x \in ToSet(Page(s, p)) : x[2] = p
    BY <2>1, <1>2
  <2>5. /\ AllFrom(s, p) \in Seq(Items(s))
        /\ ToSet(AllFrom(s, p)) = ToSet(Page(s, p)) \cup ToSet(AllFrom(s, p + 1))
    BY <2>2, <2>3, <2>4, ConcatProperties, SetOfConcat
  <2>6. ToSet(Page(s, p)) \cap ToSet(AllFrom(s, p + 1)) = {}
    BY <2>1, <2>2, <2>4
  <2>7. IsInjective(AllFrom(s, p))
    BY <2>2, <2>3, <2>4, <2>6, InjectiveConcat
  <2>8. \A x \in ToSet(AllFrom(s, p)) : x[2] \in Nat /\ x[2] >= p
    BY <2>1, <2>2, <2>4, <2>5
  <2> QED BY <2>5, <2>7, <2>8 DEF p
<1> HIDE DEF P
<1>5. \A k \in Nat : k \in P
  BY <1>3, <1>4, NatSets
<1>6. ASSUME NEW p \in 1 .. n + 1 PROVE Good(p)
  <2>1. n + 1 - p \in Nat /\ n + 1 - p <= n /\ n + 1 - (n + 1 - p) = p
    BY <1>1
  <2> QED BY <2>1, <1>5 DEF P
<1> DEFINE Q == {k \in Nat : k + 1 \in 1 .. n => ToSet(AllFrom(s, k + 1)) \subseteq ToSet(AllFrom(s, 1))}
<1>7. 0 \in Q
  OBVIOUS
<1>8. ASSUME NEW k \in Nat, k \in Q PROVE k + 1 \in Q
  <2> SUFFICES ASSUME (k + 1) + 1 \in 1 .. n
               PROVE  ToSet(AllFrom(s, (k + 1) + 1)) \subseteq ToSet(AllFrom(s, 1))
    OBVIOUS
  <2>1. k + 1 \in 1 .. n /\ (k + 1) + 1 \in 1 .. n + 1
    BY <1>1
  <2>2. ToSet(AllFrom(s, k + 1)) \subseteq ToSet(AllFrom(s, 1))
    BY <2>1, <1>8
  <2>3. AllFrom(s, k + 1) = Page(s, k + 1) \o AllFrom(s, (k + 1) + 1)
    BY <2>1, <1>2
  <2>4. Page(s, k + 1) \in Seq(Items(s)) /\ AllFrom(s, (k + 1) + 1) \in Seq(Items(s))
    BY <2>1, <1>2, <1>6
  <2>5. ToSet(AllFrom(s, k + 1)) = ToSet(Page(s, k + 1)) \cup ToSet(AllFrom(s, (k + 1) + 1))
    <3> DEFINE a == Page(s, k + 1)
               b == AllFrom(s, (k + 1) + 1)
    <3> HIDE DEF a, b
    <3>1. ToSet(a \o b) = ToSet(a) \cup ToSet(b)
      BY <2>4, SetOfConcat DEF a, b
    <3> QED BY <2>3, <3>1 DEF a, b
  <2> QED BY <2>2, <2>5
<1> HIDE DEF Q
<1>9. \A k \in Nat : k \in Q
  BY <1>7, <1>8, NatSets
<1>10. ASSUME NEW p \in 1 .. n
       PROVE  /\ AllFrom(s, p) \in Seq(Items(s)) /\ IsInjective(AllFrom(s, p))
              /\ AllFrom(s, p + 1) \in Seq(Items(s))
              /\ ToSet(AllFrom(s, p)) \subseteq ToSet(AllFrom(s, 1))
  <2>1. p \in 1 .. n + 1 /\ p + 1 \in 1 .. n + 1 /\ p - 1 \in Nat /\ (p - 1) + 1 = p
    BY <1>1
  <2>2. Good(p) /\ Good(p + 1)
    BY <2>1, <1>6
  <2>3. ToSet(AllFrom(s, p)) \subseteq ToSet(AllFrom(s, 1))
    BY <2>1, <1>9 DEF Q
  <2> QED BY <2>2, <2>3
<1> QED BY <1>1, <1>10

\* What a method's pages hold: items of the source, each once, and at least
\* a part of all there is.
LEMMA HeldIs ==
  ASSUME LayoutsOK, NEW m, NEW s, NEW p \in DOMAIN Pages(s)
  PROVE  /\ Held(m, s, p) \in Seq(Items(s)) /\ IsInjective(Held(m, s, p))
         /\ ToSet(Held(m, s, p)) \subseteq ToSet(AllFrom(s, 1))
<1>1. 1 \in DOMAIN Pages(s)
  BY PagesIs
<1>2. ToSet(Page(s, p)) \subseteq ToSet(AllFrom(s, p))
  <2>1. AllFrom(s, p) = Page(s, p) \o AllFrom(s, p + 1)
    BY AllFromIs
  <2>2. Page(s, p) \in Seq(Items(s)) /\ AllFrom(s, p + 1) \in Seq(Items(s))
    BY PageIs, AllFromHolds
  <2> QED BY <2>1, <2>2, SetOfConcat
<1>3. CASE m.paging = "first"
  BY <1>2, <1>3, PageIs, AllFromHolds DEF Held
<1>4. CASE m.paging # "first"
  BY <1>1, <1>4, AllFromHolds DEF Held
<1> QED BY <1>3, <1>4

-----------------------------------------------------------------------------
(* Losses: from the next portion, and from the rest of a listing.          *)

\* A part is a prefix of the whole.
LEMMA PrefixOfConcat ==
  ASSUME NEW S, NEW a \in Seq(S), NEW b \in Seq(S)
  PROVE  IsPrefix(a, a \o b)
<1>1. /\ Len(a) \in Nat /\ Len(b) \in Nat /\ a \o b \in Seq(S)
      /\ Len(a \o b) = Len(a) + Len(b)
  BY ConcatProperties, LenProperties
<1>2. SubSeq(a, 1, Len(a)) = SubSeq(a \o b, 1, Len(a))
  <2>1. CASE Len(a) = 0
    BY <2>1, SubSeqEmpty
  <2>2. CASE Len(a) # 0
    <3>1. 1 \in 1 .. Len(a) /\ Len(a) \in 1 .. Len(a)
      BY <2>2, <1>1
    <3> QED BY <3>1, SubSeqOfConcat1
  <2> QED BY <2>1, <2>2
<1> QED BY <1>1, <1>2 DEF IsPrefix

\* A cut within a prefix is the same cut of the whole.
LEMMA PrefixCut ==
  ASSUME NEW S, NEW a \in Seq(S), NEW b \in Seq(S), IsPrefix(a, b),
         NEW n \in 0 .. Len(a)
  PROVE  SubSeq(a, 1, n) = SubSeq(b, 1, n)
<1>1. /\ Len(a) \in Nat /\ Len(b) \in Nat /\ Len(a) <= Len(b)
      /\ SubSeq(a, 1, Len(a)) = SubSeq(b, 1, Len(a)) /\ SubSeq(a, 1, Len(a)) = a
  BY LenProperties, SubSeqFull DEF IsPrefix
<1>2. CASE n = 0
  BY <1>2, SubSeqEmpty
<1>3. CASE n # 0
  <2>1. \A i \in 1 .. Len(b) : b[i] \in S
    BY ElementOfSeq
  <2>2. \A i \in 1 .. Len(a) : SubSeq(b, 1, Len(a))[i] = b[i]
    <3>1. \A i \in 1 .. Len(a) : b[i] \in S
      BY <1>1, <2>1
    <3>2. \A i \in 1 .. Len(a) - 1 + 1 : SubSeq(b, 1, Len(a))[i] = b[1 + i - 1]
      BY <3>1, <1>1, SubSeqProperties
    <3> QED BY <3>2, <1>1
  <2>3. \A i \in 1 .. Len(a) : a[i] = b[i]
    BY <2>2, <1>1
  <2>4. /\ SubSeq(a, 1, n) \in Seq(S) /\ Len(SubSeq(a, 1, n)) = n
        /\ \A i \in 1 .. n : SubSeq(a, 1, n)[i] = a[i]
    <3>1. \A i \in 1 .. n : a[i] \in S
      BY <1>1, ElementOfSeq
    <3>2. /\ SubSeq(a, 1, n) \in Seq(S)
          /\ Len(SubSeq(a, 1, n)) = (IF 1 <= n THEN n - 1 + 1 ELSE 0)
          /\ \A i \in 1 .. n - 1 + 1 : SubSeq(a, 1, n)[i] = a[1 + i - 1]
      BY <3>1, SubSeqProperties
    <3> QED BY <3>2, <1>3
  <2>5. /\ SubSeq(b, 1, n) \in Seq(S) /\ Len(SubSeq(b, 1, n)) = n
        /\ \A i \in 1 .. n : SubSeq(b, 1, n)[i] = b[i]
    <3>1. \A i \in 1 .. n : b[i] \in S
      BY <1>1, <2>1
    <3>2. /\ SubSeq(b, 1, n) \in Seq(S)
          /\ Len(SubSeq(b, 1, n)) = (IF 1 <= n THEN n - 1 + 1 ELSE 0)
          /\ \A i \in 1 .. n - 1 + 1 : SubSeq(b, 1, n)[i] = b[1 + i - 1]
      BY <3>1, SubSeqProperties
    <3> QED BY <3>2, <1>3
  <2>6. \A i \in 1 .. n : SubSeq(a, 1, n)[i] = SubSeq(b, 1, n)[i]
    BY <2>3, <2>4, <2>5, <1>1
  <2> QED BY <2>4, <2>5, <2>6, SeqEqual
<1> QED BY <1>2, <1>3

\* The laws of Without, for sequences of one set.
LEMMA WithoutLaws ==
  ASSUME NEW S
  PROVE  /\ \A s \in Seq(S) : \A X : Without(s, X) \in Seq(S)
         /\ \A s \in Seq(S) : \A X : IsInjective(s) => IsInjective(Without(s, X))
         /\ \A s \in Seq(S) : \A X : ToSet(Without(s, X)) = ToSet(s) \ X
         /\ \A s \in Seq(S) : \A X : ToSet(s) \cap X = {} => Without(s, X) = s
         /\ \A s \in Seq(S) : \A X : ToSet(s) \subseteq X => Without(s, X) = <<>>
         /\ \A s \in Seq(S) : \A X, Y : Without(Without(s, X), Y) = Without(s, X \cup Y)
         /\ \A a \in Seq(S), b \in Seq(S) : \A X :
              Without(a \o b, X) = Without(a, X) \o Without(b, X)
<1>1. \A s \in Seq(S) : \A X : Without(s, X) \in Seq(S)
  BY WithoutSet
<1>2. \A s \in Seq(S) : \A X : IsInjective(s) => IsInjective(Without(s, X))
  BY WithoutSet
<1>3. \A s \in Seq(S) : \A X : ToSet(Without(s, X)) = ToSet(s) \ X
  BY WithoutSet
<1>4. \A s \in Seq(S) : \A X : ToSet(s) \cap X = {} => Without(s, X) = s
  BY WithoutNone
<1>5. \A s \in Seq(S) : \A X : ToSet(s) \subseteq X => Without(s, X) = <<>>
  BY WithoutAll
<1>6. \A s \in Seq(S) : \A X, Y : Without(Without(s, X), Y) = Without(s, X \cup Y)
  BY WithoutTwice
<1>7. \A a \in Seq(S), b \in Seq(S) : \A X :
        Without(a \o b, X) = Without(a, X) \o Without(b, X)
  BY WithoutConcat
<1> QED BY <1>1, <1>2, <1>3, <1>4, <1>5, <1>6, <1>7, Zenon

\* The laws of concatenation, for sequences of one set.
LEMMA ConcatLaws ==
  ASSUME NEW S
  PROVE  /\ \A a \in Seq(S), b \in Seq(S) : a \o b \in Seq(S)
         /\ \A a \in Seq(S) : a \o <<>> = a /\ <<>> \o a = a
         /\ \A a \in Seq(S), b \in Seq(S), c \in Seq(S) : (a \o b) \o c = a \o (b \o c)
         /\ \A a \in Seq(S), b \in Seq(S) : ToSet(a \o b) = ToSet(a) \cup ToSet(b)
         /\ \A a \in Seq(S), b \in Seq(S) : IsInjective(a \o b) =>
              IsInjective(a) /\ IsInjective(b) /\ ToSet(a) \cap ToSet(b) = {}
<1>1. \A a \in Seq(S), b \in Seq(S) : a \o b \in Seq(S)
  BY ConcatProperties
<1>2. \A a \in Seq(S) : a \o <<>> = a /\ <<>> \o a = a
  BY ConcatEmptySeq
<1>3. \A a \in Seq(S), b \in Seq(S), c \in Seq(S) : (a \o b) \o c = a \o (b \o c)
  BY Regroup
<1>4. \A a \in Seq(S), b \in Seq(S) : ToSet(a \o b) = ToSet(a) \cup ToSet(b)
  BY SetOfConcat
<1>5. \A a \in Seq(S), b \in Seq(S) : IsInjective(a \o b) =>
        IsInjective(a) /\ IsInjective(b) /\ ToSet(a) \cap ToSet(b) = {}
  BY InjectiveConcat
<1> QED BY <1>1, <1>2, <1>3, <1>4, <1>5, Zenon

\* Some of the items asked about are lost, and nothing else.
HeadLost(w, g, h, z) ==
  \A gone, lost :
    IsInjective(w) /\ Without(w, gone) = g \o (h \o z) /\ lost \subseteq ToSet(h)
      => Without(w, gone \cup lost) = (g \o Without(h, lost)) \o z

HeadLaw(S) ==
  \A w \in Seq(S), g \in Seq(S), h \in Seq(S), z \in Seq(S) : HeadLost(w, g, h, z)

\* What a request about the next items loses, for all sequences of S.
LEMMA LostFromHead ==
  ASSUME NEW S
  PROVE  HeadLaw(S)
<1> USE DEF HeadLaw, HeadLost
<1>1. \A s \in Seq(S) : \A X : Without(s, X) \in Seq(S)
  BY WithoutLaws
<1>2. \A s \in Seq(S) : \A X : IsInjective(s) => IsInjective(Without(s, X))
  BY WithoutLaws
<1>3. \A s \in Seq(S) : \A X : ToSet(s) \cap X = {} => Without(s, X) = s
  BY WithoutLaws
<1>4. \A s \in Seq(S) : \A X, Y : Without(Without(s, X), Y) = Without(s, X \cup Y)
  BY WithoutLaws
<1>5. \A a \in Seq(S), b \in Seq(S) : \A X :
        Without(a \o b, X) = Without(a, X) \o Without(b, X)
  BY WithoutLaws
<1>6. \A a \in Seq(S), b \in Seq(S), c \in Seq(S) : (a \o b) \o c = a \o (b \o c)
  BY ConcatLaws
<1>7. \A a \in Seq(S), b \in Seq(S) : /\ a \o b \in Seq(S)
                                      /\ ToSet(a \o b) = ToSet(a) \cup ToSet(b)
  BY ConcatLaws
<1>8. \A a \in Seq(S), b \in Seq(S) : IsInjective(a \o b) =>
        IsInjective(a) /\ IsInjective(b) /\ ToSet(a) \cap ToSet(b) = {}
  BY ConcatLaws
<1> TAKE w \in Seq(S), g \in Seq(S), h \in Seq(S), z \in Seq(S)
<1> TAKE gone, lost
<1> HAVE IsInjective(w) /\ Without(w, gone) = g \o (h \o z) /\ lost \subseteq ToSet(h)
<1>9. h \o z \in Seq(S) /\ Without(h, lost) \in Seq(S)
  BY <1>1, <1>7, Zenon
<1>10. IsInjective(g \o (h \o z))
  <2>1. IsInjective(Without(w, gone))
    BY <1>2, Zenon
  <2> QED BY <2>1, Zenon
<1>11. ToSet(g) \cap lost = {} /\ ToSet(z) \cap lost = {}
  <2>1. IsInjective(h \o z) /\ ToSet(g) \cap ToSet(h \o z) = {}
    BY <1>8, <1>9, <1>10, Zenon
  <2>2. ToSet(h \o z) = ToSet(h) \cup ToSet(z) /\ ToSet(h) \cap ToSet(z) = {}
    BY <2>1, <1>7, <1>8, Zenon
  <2> QED BY <2>1, <2>2, Zenon
<1>12. Without(g, lost) = g /\ Without(z, lost) = z
  BY <1>3, <1>11, Zenon
<1>13. Without(w, gone \cup lost) = Without(g \o (h \o z), lost)
  <2>1. Without(Without(w, gone), lost) = Without(w, gone \cup lost)
    <3>1. \A U, V : Without(Without(w, U), V) = Without(w, U \cup V)
      BY <1>4, Zenon
    <3> QED BY <3>1, Zenon
  <2> QED BY <2>1, Zenon
<1>14. Without(g \o (h \o z), lost) = Without(g, lost) \o (Without(h, lost) \o Without(z, lost))
  <2>1. Without(g \o (h \o z), lost) = Without(g, lost) \o Without(h \o z, lost)
    BY <1>5, <1>9, ZenonT(20)
  <2>2. Without(h \o z, lost) = Without(h, lost) \o Without(z, lost)
    BY <1>5, Zenon
  <2> QED BY <2>1, <2>2, Zenon
<1>15. (g \o Without(h, lost)) \o z = g \o (Without(h, lost) \o z)
  BY <1>6, <1>9, Zenon
<1> QED BY <1>12, <1>13, <1>14, <1>15, Zenon

\* A listing is given up: what was kept of it is all that is not skipped.
RestLost(w, g, z) ==
  \A gone, X :
    IsInjective(w) /\ Without(w, gone) = g \o z /\ ToSet(w) \subseteq X
      => /\ Without(w, gone \cup (X \ ToSet(g))) = g
         /\ Without(w, gone \cup (X \ ToSet(<<>>))) = <<>>

RestLaw(S) ==
  \A w \in Seq(S), g \in Seq(S), z \in Seq(S) : RestLost(w, g, z)

\* What a listing that is given up loses, for all sequences of S.
LEMMA LostTheRest ==
  ASSUME NEW S
  PROVE  RestLaw(S)
<1> USE DEF RestLaw, RestLost
<1>1. \A s \in Seq(S) : \A X : /\ ToSet(Without(s, X)) = ToSet(s) \ X
                               /\ IsInjective(s) => IsInjective(Without(s, X))
  BY WithoutLaws
<1>2. \A s \in Seq(S) : \A X : /\ ToSet(s) \cap X = {} => Without(s, X) = s
                               /\ ToSet(s) \subseteq X => Without(s, X) = <<>>
  BY WithoutLaws
<1>3. \A s \in Seq(S) : \A X, Y : Without(Without(s, X), Y) = Without(s, X \cup Y)
  BY WithoutLaws
<1>4. \A a \in Seq(S), b \in Seq(S) : \A X :
        Without(a \o b, X) = Without(a, X) \o Without(b, X)
  BY WithoutLaws
<1>5. \A a \in Seq(S) : a \o <<>> = a
  BY ConcatLaws
<1>6. \A a \in Seq(S), b \in Seq(S) : ToSet(a \o b) = ToSet(a) \cup ToSet(b)
  BY ConcatLaws
<1>7. \A a \in Seq(S), b \in Seq(S) : IsInjective(a \o b) => ToSet(a) \cap ToSet(b) = {}
  BY ConcatLaws
<1> TAKE w \in Seq(S), g \in Seq(S), z \in Seq(S)
<1> TAKE gone, X
<1> HAVE IsInjective(w) /\ Without(w, gone) = g \o z /\ ToSet(w) \subseteq X
<1>8. ToSet(g) \cap ToSet(z) = {} /\ ToSet(g) \cup ToSet(z) \subseteq X
  <2>1. IsInjective(Without(w, gone)) /\ ToSet(Without(w, gone)) = ToSet(w) \ gone
    BY <1>1, Zenon
  <2>2. IsInjective(g \o z) /\ ToSet(g \o z) = ToSet(w) \ gone
    BY <2>1, Zenon
  <2>3. ToSet(g) \cap ToSet(z) = {} /\ ToSet(g) \cup ToSet(z) = ToSet(w) \ gone
    BY <2>2, <1>6, <1>7, Zenon
  <2> QED BY <2>3, Zenon
<1>9. Without(w, gone \cup (X \ ToSet(g))) = g
  <2> DEFINE Y == X \ ToSet(g)
  <2>1. ToSet(g) \cap Y = {} /\ ToSet(z) \subseteq Y
    BY <1>8, Zenon
  <2> HIDE DEF Y
  <2>2. Without(g, Y) = g /\ Without(z, Y) = <<>>
    BY <2>1, <1>2, Zenon
  <2>3. Without(Without(w, gone), Y) = Without(w, gone \cup Y)
    <3>1. \A U, V : Without(Without(w, U), V) = Without(w, U \cup V)
      BY <1>3, Zenon
    <3> QED BY <3>1, Zenon
  <2>4. Without(g \o z, Y) = Without(g, Y) \o Without(z, Y)
    BY <1>4, Zenon
  <2>5. g \o <<>> = g
    BY <1>5, Zenon
  <2>6. Without(w, gone \cup Y) = g
    BY <2>2, <2>3, <2>4, <2>5, Zenon
  <2> QED BY <2>6 DEF Y
<1>10. Without(w, gone \cup (X \ ToSet(<<>>))) = <<>>
  <2>1. ToSet(w) \subseteq gone \cup (X \ ToSet(<<>>))
    BY SetOfEmpty, Zenon
  <2> QED BY <2>1, <1>2, Zenon
<1> QED BY <1>9, <1>10

-----------------------------------------------------------------------------
(* The records of ListMethods: what the proofs need to know of them.       *)

\* The methods that are modelled.
Known == Paged \cup Unpaged \cup Calling

\* What the proofs need of a method that reads pages itself.
MethodFacts(m) ==
  /\ m.paging \in {"pages", "input", "first", "whole", "none"}
  /\ m.of = <<>> /\ m.each = <<>>
  /\ m.batch \in {"none", "item", "chunk", "page"}
  /\ "limit" \in m.heeds => m.paging = "pages" /\ m.batch = "none" /\ m.found = "all"
  /\ m.found = "none" => m.batch = "item" /\ m.failed = "panic"

\* What they need of a method that calls others.
CallerFacts(m) ==
  /\ m.paging = "call" /\ m.batch = "item" /\ m.heeds = {} /\ m.found \in {"all", "some"}
  /\ m.of # <<>> /\ m.of[1] \in Paged \cup Unpaged /\ m.of[1].paging \in {"pages", "first"}
  /\ "limit" \in m.of[1].heeds => m.each = <<>> /\ m.failed = "keep" /\ m.found = "all"
  /\ m.each = <<>> => m.failed \in {"keep", "skip", "nothing"}
  /\ m.each # <<>> => /\ m.each[1] \in Paged \cup Unpaged
                      /\ m.each[1].paging \in {"pages", "first"}
                      /\ m.each[1].found # "none" /\ "limit" \notin m.each[1].heeds

\* Every record of ListMethods that asks AWS for pages is such a method.
LEMMA ReadingMethods == \A m \in Paged \cup Unpaged : MethodFacts(m)
<1>1. /\ MethodFacts(AutoScalingGroups) /\ MethodFacts(ComputeEnvironments)
      /\ MethodFacts(JobQueues) /\ MethodFacts(Instances) /\ MethodFacts(InstanceTypes)
      /\ MethodFacts(Snapshots) /\ MethodFacts(FileSystems) /\ MethodFacts(Policies)
      /\ MethodFacts(DbInstances) /\ MethodFacts(DBEngineVersions)
      /\ MethodFacts(DbSnapshots) /\ MethodFacts(Secrets)
      /\ MethodFacts(ConnectionGroups) /\ MethodFacts(DistributionTenants)
  BY DEF MethodFacts, Plain, AutoScalingGroups, ComputeEnvironments, JobQueues, Instances, InstanceTypes,
   Snapshots, FileSystems, Policies, DbInstances, DBEngineVersions, DbSnapshots,
   Secrets, ConnectionGroups, DistributionTenants
<1>2. /\ MethodFacts(RouteTables) /\ MethodFacts(SecurityGroups) /\ MethodFacts(Subnets)
      /\ MethodFacts(Volumes) /\ MethodFacts(VpcEndpoints) /\ MethodFacts(Vpcs)
      /\ MethodFacts(FoundResources) /\ MethodFacts(CostAndUsage)
      /\ MethodFacts(DimensionValues) /\ MethodFacts(Domains)
      /\ MethodFacts(Operations) /\ MethodFacts(ResourceRecords)
  BY DEF MethodFacts, Plain, RouteTables, SecurityGroups, Subnets, Volumes, VpcEndpoints, Vpcs,
   FoundResources, CostAndUsage, DimensionValues, Domains, Operations, ResourceRecords
<1>3. /\ MethodFacts(Roles) /\ MethodFacts(Users) /\ MethodFacts(Functions)
      /\ MethodFacts(EcsClusters) /\ MethodFacts(EcsServices) /\ MethodFacts(EmrClusters)
      /\ MethodFacts(JobRuns)
  BY DEF MethodFacts, Plain, Tagged, Described, Roles, Users, Functions,
   EcsClusters, EcsServices, EmrClusters, JobRuns
<1>4. MethodFacts(Applications) /\ MethodFacts(HostedZones)
  BY DEF MethodFacts, Plain, Tagged, Described, Applications, HostedZones
<1>5. /\ MethodFacts(LogGroups) /\ MethodFacts(LoadBalancers) /\ MethodFacts(DynamoTables)
      /\ MethodFacts(Topics) /\ MethodFacts(Queues) /\ MethodFacts(EksClusters)
      /\ MethodFacts(AttachedPolicies)
  BY DEF MethodFacts, Plain, First, Tagged, Described, LogGroups, LoadBalancers,
   DynamoTables, Topics, Queues, EksClusters, AttachedPolicies
<1>6. /\ MethodFacts(Databases) /\ MethodFacts(Jobs) /\ MethodFacts(GlueTables)
      /\ MethodFacts(Prices) /\ MethodFacts(HealthEvents) /\ MethodFacts(Addresses)
      /\ MethodFacts(Regions) /\ MethodFacts(NoAthena)
  BY DEF MethodFacts, Plain, First, Databases, Jobs, GlueTables, Prices, HealthEvents,
   Addresses, Regions, NoAthena
<1>7. MethodFacts(Buckets)
  BY DEF MethodFacts, Plain, First, Described, Buckets
<1> QED BY <1>1, <1>2, <1>3, <1>4, <1>5, <1>6, <1>7 DEF Paged, Unpaged

\* Every record that calls other methods is such a caller.
LEMMA CallingMethods == \A m \in Calling : CallerFacts(m)
<1>1. CallerFacts(CloudControlResources)
  BY DEF CallerFacts, Plain, Described, Of, CloudControlResources, FoundResources, Paged
<1>2. CallerFacts(DomainDetails)
  BY DEF CallerFacts, Plain, Described, Of, DomainDetails, Domains, Paged
<1>3. CallerFacts(PolicyVersions)
  BY DEF CallerFacts, Plain, Described, Of, PolicyVersions, First, AttachedPolicies, Unpaged
<1>4. CallerFacts(AllServices)
  BY DEF CallerFacts, Plain, Described, Of, AllServices, EcsClusters, EcsServices, Paged
<1>5. CallerFacts(AllGlueTables)
  BY DEF CallerFacts, Plain, Described, Of, AllGlueTables, First, Databases, GlueTables, Unpaged
<1>6. CallerFacts(AllJobRuns)
  BY DEF CallerFacts, Plain, Described, Of, AllJobRuns, Applications, JobRuns, Paged
<1> QED BY <1>1, <1>2, <1>3, <1>4, <1>5, <1>6 DEF Calling

\* What is known of a method, and of the methods it calls.
LEMMA MethodsKnown ==
  ASSUME NEW m \in Known
  PROVE  /\ m.of = <<>> => MethodFacts(m)
         /\ m.of # <<>> => CallerFacts(m) /\ MethodFacts(m.of[1]) /\ m.of[1] \in Known
         /\ m.each # <<>> => m.of # <<>> /\ MethodFacts(m.each[1]) /\ m.each[1] \in Known
<1>1. CASE m \in Paged \cup Unpaged
  <2>1. MethodFacts(m)
    BY <1>1, ReadingMethods
  <2> QED BY <2>1 DEF MethodFacts
<1>2. CASE m \in Calling
  <2>1. CallerFacts(m)
    BY <1>2, CallingMethods
  <2> QED BY <2>1, ReadingMethods DEF CallerFacts, Known
<1> QED BY <1>1, <1>2 DEF Known

-----------------------------------------------------------------------------
(* A method that reads pages itself: what its frame says.                  *)

\* The limit is one of those a caller sets.
LimitOK == limit \in {None} \cup Limits

\* The method heeds a limit, and there is one.
Limiting(m) == "limit" \in m.heeds /\ limit # None

\* What a method that reads pages has still to return.
Ahead(f) ==
  FlattenSeq(f.todo) \o
    (IF f.page = None THEN <<>> ELSE Held(f.method, f.source, f.page))

\* A frame of a method that is modelled, with items of its own listing.
FrameOK(f) ==
  /\ f \in [method : Known, source : {<<>>} \cup Items(<<>>), page : Nat,
            todo : Seq(Seq(Item)), got : Seq(Item), again : BOOLEAN]
  /\ f.page \in {None} \cup DOMAIN Pages(f.source)
  /\ f.todo \in Seq(Seq(Items(f.source)))
  /\ f.method.each = <<>> => f.got \in Seq(Items(f.source))
  /\ f.again => f.todo # <<>>

\* What it has and what it will have is what its pages hold, from p on, without
\* what is gone; only a limit ends a listing early.
Reading(f, p, gone) ==
  /\ f.method.found = "none" => f.got = <<>>
  /\ f.method.found # "none" =>
       \/ Without(Held(f.method, f.source, p), gone) = f.got \o Ahead(f)
       \/ /\ Limiting(f.method) /\ f.page = None /\ Len(f.got) >= limit
          /\ IsPrefix(f.got, Held(f.method, f.source, p))
  /\ Limiting(f.method) => /\ gone = {} /\ f.todo = <<>>
                           /\ f.page # None => Len(f.got) < limit

\* Items of a listing are items of the call.
LEMMA ItemsAreItems ==
  ASSUME NEW s \in {<<>>} \cup Items(<<>>)
  PROVE  /\ Items(s) \subseteq Item
         /\ Seq(Items(s)) \subseteq Seq(Item)
         /\ Seq(Seq(Items(s))) \subseteq Seq(Seq(Item))
<1>1. Items(s) \subseteq Item
  BY ItemsIs, ItemsOfItem
<1>2. Seq(Items(s)) \subseteq Seq(Item)
  BY <1>1, SeqMonotonic
<1> DEFINE A == Seq(Items(s))
           B == Seq(Item)
<1>3. A \subseteq B
  BY <1>2
<1> HIDE DEF A, B
<1>4. Seq(A) \subseteq Seq(B)
  BY <1>3, SeqMonotonic
<1> QED BY <1>1, <1>2, <1>4 DEF A, B

\* The portions a frame has still to ask about, one by one.
LEMMA FrameFacts ==
  ASSUME NEW f, FrameOK(f)
  PROVE  /\ f.todo \in Seq(Seq(Items(f.source)))
         /\ FlattenSeq(f.todo) \in Seq(Items(f.source))
         /\ f.todo # <<>> => /\ Head(f.todo) \in Seq(Items(f.source))
                             /\ Tail(f.todo) \in Seq(Seq(Items(f.source)))
                             /\ FlattenSeq(Tail(f.todo)) \in Seq(Items(f.source))
                             /\ FlattenSeq(f.todo) = Head(f.todo) \o FlattenSeq(Tail(f.todo))
<1> DEFINE S == Items(f.source)
<1>1. f.todo \in Seq(Seq(S))
  BY DEF FrameOK
<1>2. \A ss \in Seq(Seq(S)) : FlattenSeq(ss) \in Seq(S)
  BY FlattenAppend, EmptySeq
<1>3. \A ss \in Seq(Seq(S)) : ss # <<>> => FlattenSeq(ss) = Head(ss) \o FlattenSeq(Tail(ss))
  BY FlattenHead
<1>4. \A ss \in Seq(Seq(S)) : ss # <<>> => Head(ss) \in Seq(S) /\ Tail(ss) \in Seq(Seq(S))
  <2> DEFINE T == Seq(S)
  <2>1. \A ss \in Seq(T) : ss # <<>> => Head(ss) \in T /\ Tail(ss) \in Seq(T)
    <3> HIDE DEF T
    <3> QED BY HeadTailProperties
  <2> QED BY <2>1
<1> HIDE DEF S
<1>5. /\ f.todo \in Seq(Seq(S)) /\ FlattenSeq(f.todo) \in Seq(S)
      /\ f.todo # <<>> => /\ Head(f.todo) \in Seq(S) /\ Tail(f.todo) \in Seq(Seq(S))
                          /\ FlattenSeq(Tail(f.todo)) \in Seq(S)
                          /\ FlattenSeq(f.todo) = Head(f.todo) \o FlattenSeq(Tail(f.todo))
  BY <1>1, <1>2, <1>3, <1>4, Zenon
<1> QED BY <1>5 DEF S

\* What is ahead are items of the listing.
LEMMA AheadIs ==
  ASSUME LayoutsOK, NEW f, FrameOK(f)
  PROVE  Ahead(f) \in Seq(Items(f.source))
<1>1. FlattenSeq(f.todo) \in Seq(Items(f.source))
  BY FrameFacts
<1>2. f.page # None => Held(f.method, f.source, f.page) \in Seq(Items(f.source))
  BY HeldIs DEF FrameOK
<1>3. <<>> \in Seq(Items(f.source))
  BY EmptySeq
<1> QED BY <1>1, <1>2, <1>3, ConcatProperties DEF Ahead

\* A method that has just been called has everything ahead of it.
LEMMA ReadingBegins ==
  ASSUME LayoutsOK, LimitOK, NEW m \in Known, m.of = <<>>,
         NEW s \in {<<>>} \cup Items(<<>>), NEW p \in DOMAIN Pages(s),
         NEW gone, Items(s) \cap gone = {}, "limit" \in m.heeds => gone = {}
  PROVE  FrameOK(Frame(m, s, p)) /\ Reading(Frame(m, s, p), p, gone)
<1> DEFINE f == Frame(m, s, p)
<1>1. /\ f.method = m /\ f.source = s /\ f.page = p /\ f.todo = <<>> /\ f.got = <<>>
      /\ f.again = FALSE
  BY DEF Frame
<1>2. p \in Nat /\ p # None
  BY PagesIs DEF None
<1>3. FrameOK(f)
  <2>1. f \in [method : Known, source : {<<>>} \cup Items(<<>>), page : Nat,
            todo : Seq(Seq(Item)), got : Seq(Item), again : BOOLEAN]
    BY <1>2, EmptySeq DEF Frame
  <2> HIDE DEF f
  <2> QED BY <2>1, <1>1, EmptySeq DEF FrameOK
<1> HIDE DEF f
<1>4. Without(Held(m, s, p), gone) = f.got \o Ahead(f)
  <2>1. Held(m, s, p) \in Seq(Items(s))
    BY HeldIs
  <2>2. Ahead(f) = <<>> \o Held(m, s, p)
    BY <1>1, <1>2, FlattenEmpty DEF Ahead
  <2>3. f.got \o Ahead(f) = Held(m, s, p)
    BY <2>1, <2>2, <1>1, ConcatEmptySeq
  <2>4. ToSet(Held(m, s, p)) \cap gone = {}
    BY <2>1, SetOfSeq
  <2>5. Without(Held(m, s, p), gone) = Held(m, s, p)
    BY <2>1, <2>4, WithoutNone
  <2> QED BY <2>3, <2>5
<1>5. Limiting(m) => Len(f.got) < limit
  BY <1>1, EmptySeq, ListingAssumption DEF Limiting, LimitOK, None
<1>6. Reading(f, p, gone)
  <2>1. Limiting(m) => gone = {}
    BY DEF Limiting
  <2> QED BY <2>1, <1>1, <1>4, <1>5 DEF Reading
<1> QED BY <1>3, <1>6 DEF f

\* The portions of items of S hold them all in order.
BatchesHold(m, S) ==
  \A its \in Seq(S) :
    /\ Batches(m, its) \in Seq(Seq(S))
    /\ m.batch = "none" => Batches(m, its) = <<>>
    /\ m.batch # "none" => FlattenSeq(Batches(m, its)) = its
    /\ m.batch = "item" => \A b \in ToSet(Batches(m, its)) : Len(b) = 1

\* Batches loses and repeats nothing, for chunks of any size.
LEMMA BatchesHoldAll ==
  ASSUME NEW S, NEW m, m.batch \in {"none", "item", "chunk", "page"}
  PROVE  BatchesHold(m, S)
<1> USE DEF BatchesHold
<1> TAKE its \in Seq(S)
<1>1. CASE m.batch = "none"
  BY <1>1, EmptySeq DEF Batches
<1>2. CASE m.batch = "page"
  <2>1. Batches(m, its) = Append(<<>>, its)
    BY <1>2 DEF Batches
  <2>2. <<>> \in Seq(Seq(S)) /\ FlattenSeq(<<>>) = <<>> /\ <<>> \o its = its
    BY FlattenEmpty, ConcatEmptySeq
  <2>3. FlattenSeq(Append(<<>>, its)) = its
    BY <2>2, FlattenAppend
  <2>4. Append(<<>>, its) \in Seq(Seq(S))
    BY <2>2
  <2> QED BY <2>1, <2>3, <2>4, <1>2
<1>3. CASE m.batch \in {"item", "chunk"}
  <2> DEFINE size == IF m.batch = "item" THEN 1 ELSE ChunkSize
  <2>1. size \in Nat \ {0} /\ (m.batch = "item" => size = 1)
    BY ListingAssumption
  <2>2. Batches(m, its) = Chunks(its, size)
    BY <1>3 DEF Batches
  <2> HIDE DEF size
  <2> QED BY <2>1, <2>2, <1>3, ChunksHoldAll
<1> QED BY <1>1, <1>2, <1>3

-----------------------------------------------------------------------------
(* It receives a page.                                                     *)

\* What the next page has.
PageItems(f) ==
  IF f.method.paging = "whole" THEN AllFrom(f.source, 1) ELSE Page(f.source, f.page)

\* None is asked for after it.
LastPage(f) ==
  \/ f.method.paging \in {"first", "whole"}
  \/ f.page = Len(Pages(f.source))
  \/ LimitReached(f, PageItems(f))

\* The frame after it.
Turned(f) ==
  Received(f, PageItems(f), IF LastPage(f) THEN None ELSE f.page + 1)

\* The frame once a page, or the list of another method, has been received.
LEMMA ReceivedIs ==
  ASSUME NEW f, FrameOK(f), NEW its \in Seq(Items(f.source)),
         NEW next \in {None} \cup DOMAIN Pages(f.source), next \in Nat,
         f.todo = <<>>, f.method.batch \in {"none", "item", "chunk", "page"},
         f.got \in Seq(Items(f.source))
  PROVE  LET g == Received(f, its, next) IN
         /\ FrameOK(g)
         /\ g.method = f.method /\ g.source = f.source /\ g.page = next
         /\ g.got \o FlattenSeq(g.todo) = f.got \o its
         /\ g.todo = Batches(f.method, its)
         /\ g.got = IF f.method.batch = "none" THEN f.got \o its ELSE f.got
<1> DEFINE S == Items(f.source)
           g == Received(f, its, next)
           todo == Batches(f.method, its)
           got == IF f.method.batch = "none" THEN f.got \o its ELSE f.got
<1>1. /\ todo \in Seq(Seq(S)) /\ (f.method.batch = "none" => todo = <<>>)
      /\ (f.method.batch # "none" => FlattenSeq(todo) = its)
  <2> DEFINE m == f.method
  <2>1. m.batch \in {"none", "item", "chunk", "page"}
    OBVIOUS
  <2> HIDE DEF m, S
  <2>2. its \in Seq(S)
    BY DEF S
  <2>3. BatchesHold(m, S)
    BY <2>1, BatchesHoldAll
  <2>4. /\ Batches(m, its) \in Seq(Seq(S))
        /\ m.batch = "none" => Batches(m, its) = <<>>
        /\ m.batch # "none" => FlattenSeq(Batches(m, its)) = its
    BY <2>2, <2>3, Zenon DEF BatchesHold
  <2> QED BY <2>4 DEF m
<1>2. f.got \o its \in Seq(S) /\ got \in Seq(S)
  BY ConcatProperties
<1>3. f \in [method : Known, source : {<<>>} \cup Items(<<>>), page : Nat,
            todo : Seq(Seq(Item)), got : Seq(Item), again : BOOLEAN]
  BY DEF FrameOK
<1>4. Seq(S) \subseteq Seq(Item) /\ Seq(Seq(S)) \subseteq Seq(Seq(Item))
  BY <1>3, ItemsAreItems
<1>5. f.again = FALSE
  BY <1>3 DEF FrameOK
<1>6. /\ g.method = f.method /\ g.source = f.source /\ g.page = next
      /\ g.todo = todo /\ g.got = got /\ g.again = f.again
  BY <1>3 DEF Received
<1>7. g \in [method : Known, source : {<<>>} \cup Items(<<>>), page : Nat,
            todo : Seq(Seq(Item)), got : Seq(Item), again : BOOLEAN]
  <2>1. todo \in Seq(Seq(Item)) /\ got \in Seq(Item)
    BY <1>1, <1>2, <1>4
  <2> HIDE DEF todo, got, S
  <2>2. g = [f EXCEPT !.page = next, !.todo = todo, !.got = got]
    BY <1>3 DEF Received, todo, got
  <2> HIDE DEF g
  <2> QED BY <2>1, <2>2, <1>3
<1>8. FrameOK(g)
  <2> HIDE DEF g, todo, got
  <2> QED BY <1>1, <1>2, <1>5, <1>6, <1>7 DEF FrameOK
<1>9. got \o FlattenSeq(todo) = f.got \o its
  <2>1. CASE f.method.batch = "none"
    <3>1. FlattenSeq(todo) = <<>>
      BY <2>1, <1>1, FlattenEmpty
    <3> QED BY <3>1, <2>1, <1>2, ConcatEmptySeq
  <2>2. CASE f.method.batch # "none"
    BY <2>2, <1>1
  <2> QED BY <2>1, <2>2
<1> HIDE DEF g, todo, got
<1> QED BY <1>6, <1>8, <1>9 DEF g, todo, got

\* The pages after a page hold the rest.
LEMMA PageByPage ==
  ASSUME LayoutsOK, NEW f, FrameOK(f), f.page # None,
         f.method.paging \in {"pages", "input", "first", "whole"}
  PROVE  LET last == \/ f.method.paging \in {"first", "whole"}
                     \/ f.page = Len(Pages(f.source))
             rest == IF last THEN <<>> ELSE Held(f.method, f.source, f.page + 1)
         IN /\ PageItems(f) \in Seq(Items(f.source)) /\ rest \in Seq(Items(f.source))
            /\ Held(f.method, f.source, f.page) = PageItems(f) \o rest
            /\ ~last => f.page + 1 \in DOMAIN Pages(f.source)
<1> DEFINE m == f.method
           s == f.source
           p == f.page
           n == Len(Pages(s))
           S == Items(s)
<1>1. p \in 1 .. n /\ p \in DOMAIN Pages(s) /\ n \in Nat \ {0} /\ 1 \in DOMAIN Pages(s)
      /\ DOMAIN Pages(s) = 1 .. n
  BY PagesIs DEF FrameOK
<1>2. Page(s, p) \in Seq(S) /\ AllFrom(s, 1) \in Seq(S)
  BY <1>1, PageIs, AllFromHolds
<1>3. PageItems(f) \in Seq(S)
  BY <1>2 DEF PageItems
<1>4. CASE m.paging = "first"
  <2>1. Held(m, s, p) = Page(s, p) /\ PageItems(f) = Page(s, p)
    BY <1>4 DEF Held, PageItems
  <2> QED BY <2>1, <1>2, <1>4, ConcatEmptySeq, EmptySeq
<1>5. CASE m.paging = "whole"
  <2>1. Held(m, s, p) = AllFrom(s, 1) /\ PageItems(f) = AllFrom(s, 1)
    BY <1>5 DEF Held, PageItems
  <2> QED BY <2>1, <1>2, <1>5, ConcatEmptySeq, EmptySeq
<1>6. CASE m.paging \in {"pages", "input"}
  <2>1. /\ Held(m, s, p) = AllFrom(s, p) /\ PageItems(f) = Page(s, p)
        /\ Held(m, s, p + 1) = AllFrom(s, p + 1)
    BY <1>6 DEF Held, PageItems
  <2>2. AllFrom(s, p) = Page(s, p) \o AllFrom(s, p + 1)
    BY <1>1, AllFromIs
  <2>3. AllFrom(s, p + 1) \in Seq(S)
    BY <1>1, AllFromHolds
  <2>4. CASE p = n
    <3>1. AllFrom(s, p + 1) = <<>>
      BY <2>4, AllFromIs
    <3> QED BY <3>1, <2>1, <2>2, <2>4, <1>3, EmptySeq
  <2>5. CASE p # n
    <3>1. p + 1 \in 1 .. n
      BY <2>5, <1>1
    <3>2. m.paging \notin {"first", "whole"}
      BY <1>6
    <3> QED BY <3>1, <3>2, <2>1, <2>2, <2>3, <2>5, <1>1, <1>3
  <2> QED BY <2>4, <2>5
<1> QED BY <1>4, <1>5, <1>6

\* A page is received: what is returned and what is ahead stay the same together,
\* and once the limit is reached nothing is ahead.
LEMMA ReadingPage ==
  ASSUME LayoutsOK, LimitOK, NEW f, FrameOK(f), NEW p \in DOMAIN Pages(f.source),
         NEW gone, Reading(f, p, gone), f.method.of = <<>>, f.todo = <<>>, f.page # None,
         f.method.paging \in {"pages", "input", "first", "whole"}
  PROVE  /\ FrameOK(Turned(f)) /\ Reading(Turned(f), p, gone)
         /\ Turned(f).method = f.method /\ Turned(f).source = f.source
<1> DEFINE S == Items(f.source)
           m == f.method
           its == PageItems(f)
           last == m.paging \in {"first", "whole"} \/ f.page = Len(Pages(f.source))
           rest == IF last THEN <<>> ELSE Held(m, f.source, f.page + 1)
           next == IF LastPage(f) THEN None ELSE f.page + 1
           g == Turned(f)
<1>1. m \in Known /\ f.page \in Nat
  BY DEF FrameOK
<1>2. MethodFacts(m)
  BY <1>1, MethodsKnown
<1>3. /\ its \in Seq(S) /\ rest \in Seq(S) /\ Held(m, f.source, f.page) = its \o rest
      /\ ~last => f.page + 1 \in DOMAIN Pages(f.source)
  BY PageByPage
<1>4. f.got \in Seq(S)
  BY <1>2 DEF FrameOK, MethodFacts
<1>5. next \in {None} \cup DOMAIN Pages(f.source) /\ next \in Nat
  BY <1>1, <1>3 DEF LastPage, None
<1>6. /\ FrameOK(g) /\ g.method = m /\ g.source = f.source /\ g.page = next
      /\ g.got \o FlattenSeq(g.todo) = f.got \o its
      /\ g.todo = Batches(m, its)
      /\ g.got = IF m.batch = "none" THEN f.got \o its ELSE f.got
  <2>1. m.batch \in {"none", "item", "chunk", "page"}
    BY <1>2 DEF MethodFacts
  <2> HIDE DEF next
  <2>2. g = Received(f, its, next)
    BY DEF Turned, next
  <2> HIDE DEF g, its, S
  <2> QED BY <2>1, <2>2, <1>3, <1>4, <1>5, ReceivedIs DEF S
<1>7. m.found # "none" => Without(Held(m, f.source, p), gone) = (f.got \o its) \o rest
  <2>1. Ahead(f) = Held(m, f.source, f.page)
    <3>1. its \o rest \in Seq(S)
      BY <1>3, ConcatProperties
    <3>2. <<>> \o Held(m, f.source, f.page) = Held(m, f.source, f.page)
      BY <3>1, <1>3, ConcatEmptySeq
    <3> QED BY <3>2, FlattenEmpty DEF Ahead
  <2>2. m.found # "none" => Without(Held(m, f.source, p), gone) = f.got \o Held(m, f.source, f.page)
    BY <2>1 DEF Reading
  <2>3. \A a \in Seq(S), b \in Seq(S), c \in Seq(S) : (a \o b) \o c = a \o (b \o c)
    BY ConcatLaws
  <2> HIDE DEF S, its, rest
  <2>4. (f.got \o its) \o rest = f.got \o (its \o rest)
    BY <2>3, <1>3, <1>4, Zenon
  <2> QED BY <2>2, <2>4, <1>3
<1>8. Limiting(m) => gone = {} /\ m.batch = "none" /\ m.found = "all" /\ m.paging = "pages"
  BY <1>2 DEF Reading, MethodFacts, Limiting
<1>9. \A a \in Seq(S), b \in Seq(S) : a \o b \in Seq(S)
  BY ConcatLaws
<1>10. f.got \o its \in Seq(S)
  BY <1>3, <1>4, <1>9, Zenon
<1>11. g.todo \in Seq(Seq(S)) /\ g.got \in Seq(S) /\ FlattenSeq(g.todo) \in Seq(S)
  <2>1. FlattenSeq(g.todo) \in Seq(Items(g.source)) /\ g.todo \in Seq(Seq(Items(g.source)))
    BY <1>6, FrameFacts
  <2> QED BY <2>1, <1>4, <1>6, <1>10
<1>12. ASSUME m.found # "none", ~LimitReached(f, its)
       PROVE  Without(Held(m, f.source, p), gone) = g.got \o Ahead(g)
  <2>1. (IF g.page = None THEN <<>> ELSE Held(g.method, g.source, g.page)) = rest
    BY <1>1, <1>3, <1>6, <1>12 DEF LastPage, None
  <2>2. Ahead(g) = FlattenSeq(g.todo) \o rest
    BY <2>1 DEF Ahead
  <2>3. \A a \in Seq(S), b \in Seq(S), c \in Seq(S) : (a \o b) \o c = a \o (b \o c)
    BY ConcatLaws
  <2> HIDE DEF S, its, rest, g
  <2>4. (g.got \o FlattenSeq(g.todo)) \o rest = g.got \o (FlattenSeq(g.todo) \o rest)
    BY <2>3, <1>3, <1>11, Zenon
  <2>5. (f.got \o its) \o rest = (g.got \o FlattenSeq(g.todo)) \o rest
    BY <1>6
  <2> QED BY <1>7, <1>12, <2>2, <2>4, <2>5
<1>13. ASSUME LimitReached(f, its)
       PROVE  /\ Limiting(m) /\ g.page = None /\ Len(g.got) >= limit
              /\ IsPrefix(g.got, Held(m, f.source, p))
  <2>1. Limiting(m) /\ g.page = None
    BY <1>13, <1>6 DEF LimitReached, Limiting, LastPage
  <2>2. g.got = f.got \o its
    BY <2>1, <1>6, <1>8
  <2>3. Len(g.got) >= limit
    BY <2>2, <1>13 DEF LimitReached
  <2>4. Held(m, f.source, p) = (f.got \o its) \o rest
    <3>1. Held(m, f.source, p) \in Seq(S)
      BY HeldIs
    <3>2. Without(Held(m, f.source, p), {}) = Held(m, f.source, p)
      BY <3>1, WithoutNone
    <3> QED BY <3>2, <2>1, <1>7, <1>8
  <2>5. \A a \in Seq(S), b \in Seq(S) : IsPrefix(a, a \o b)
    BY PrefixOfConcat
  <2> HIDE DEF S, its, rest, g
  <2>6. IsPrefix(f.got \o its, (f.got \o its) \o rest)
    BY <2>5, <1>3, <1>10, Zenon
  <2> QED BY <2>1, <2>2, <2>3, <2>4, <2>6
<1>14. ASSUME Limiting(m)
       PROVE  gone = {} /\ g.todo = <<>> /\ (g.page # None => Len(g.got) < limit)
  <2>1. g.todo = <<>>
    BY <1>6, <1>8, <1>14 DEF Batches
  <2>2. ASSUME g.page # None PROVE Len(g.got) < limit
    <3>1. ~LimitReached(f, its)
      BY <2>2, <1>6 DEF LastPage
    <3>2. ~(Len(f.got \o its) >= limit)
      BY <3>1, <1>14 DEF LimitReached, Limiting
    <3>3. Len(f.got \o its) \in Nat /\ limit \in Nat
      <4>1. limit \in Nat
        BY ListingAssumption DEF LimitOK, None
      <4>2. Len(f.got \o its) \in Nat
        BY <1>10, LenProperties
      <4> QED BY <4>1, <4>2
    <3>4. g.got = f.got \o its
      BY <1>14, <1>6, <1>8
    <3> QED BY <3>2, <3>3, <3>4
  <2> QED BY <2>1, <2>2, <1>8, <1>14
<1>15. m.found = "none" => g.got = <<>>
  <2>1. m.found = "none" => m.batch # "none" /\ f.got = <<>>
    BY <1>2 DEF MethodFacts, Reading
  <2> QED BY <2>1, <1>6
<1> HIDE DEF g, its, rest
<1>16. Reading(g, p, gone)
  BY <1>6, <1>12, <1>13, <1>14, <1>15 DEF Reading
<1> QED BY <1>6, <1>16 DEF g

-----------------------------------------------------------------------------
(* It asks about items.                                                    *)

\* A frame whose next further requests are answered.
LEMMA AnsweredIs ==
  ASSUME NEW f, FrameOK(f), f.todo # <<>>, NEW its \in Seq(Item),
         f.method.each = <<>> => its \in Seq(Items(f.source))
  PROVE  LET g == Answered(f, its) IN
         /\ FrameOK(g)
         /\ g.method = f.method /\ g.source = f.source /\ g.page = f.page
         /\ g.todo = Tail(f.todo) /\ g.got = f.got \o its /\ g.again = FALSE
<1> DEFINE S == Items(f.source)
           g == Answered(f, its)
           todo == Tail(f.todo)
           got == f.got \o its
           Frames == [method : Known, source : {<<>>} \cup Items(<<>>), page : Nat,
                      todo : Seq(Seq(Item)), got : Seq(Item), again : BOOLEAN]
<1>1. f \in Frames
  BY DEF FrameOK
<1>2. todo \in Seq(Seq(S))
  BY FrameFacts
<1>3. got \in Seq(Item) /\ (f.method.each = <<>> => got \in Seq(S))
  BY <1>1, ConcatProperties DEF FrameOK
<1>4. Seq(Seq(S)) \subseteq Seq(Seq(Item))
  BY <1>1, ItemsAreItems
<1>5. /\ g.method = f.method /\ g.source = f.source /\ g.page = f.page
      /\ g.todo = todo /\ g.got = got /\ g.again = FALSE
  BY <1>1 DEF Answered
<1>6. g \in Frames
  <2>1. g = [f EXCEPT !.todo = todo, !.got = got, !.again = FALSE]
    BY <1>1 DEF Answered
  <2>2. todo \in Seq(Seq(Item))
    BY <1>2, <1>4
  <2> HIDE DEF g, todo, got
  <2> QED BY <2>1, <2>2, <1>1, <1>3
<1>7. FrameOK(g)
  <2> HIDE DEF g, todo, got
  <2> QED BY <1>2, <1>3, <1>5, <1>6 DEF FrameOK
<1> QED BY <1>5, <1>7

\* A request is answered: what is lost is gone, the rest is returned.
LEMMA ReadingAsked ==
  ASSUME LayoutsOK, NEW f, FrameOK(f), NEW p \in DOMAIN Pages(f.source),
         NEW gone, Reading(f, p, gone), f.method.of = <<>>, f.todo # <<>>,
         NEW lost, lost \subseteq ToSet(Head(f.todo)), f.method.found # "none"
  PROVE  LET g == Answered(f, Without(Head(f.todo), lost)) IN
         FrameOK(g) /\ Reading(g, p, gone \cup lost) /\ g.method = f.method /\ g.source = f.source
<1> DEFINE S == Items(f.source)
           m == f.method
           h == Head(f.todo)
           t == FlattenSeq(Tail(f.todo))
           r == IF f.page = None THEN <<>> ELSE Held(m, f.source, f.page)
           w == Held(m, f.source, p)
           its == Without(h, lost)
           g == Answered(f, its)
<1>1. m \in Known /\ m.each = <<>>
  <2>1. m \in Known
    BY DEF FrameOK
  <2> QED BY <2>1, MethodsKnown DEF MethodFacts
<1>2. f.got \in Seq(S)
  BY <1>1 DEF FrameOK
<1>3. h \in Seq(S) /\ t \in Seq(S) /\ FlattenSeq(f.todo) = h \o t
  BY FrameFacts
<1>4. its \in Seq(S)
  BY <1>3, WithoutLaws
<1>5. r \in Seq(S)
  <2>1. f.page # None => Held(m, f.source, f.page) \in Seq(S)
    BY HeldIs DEF FrameOK
  <2> QED BY <2>1, EmptySeq
<1>6. w \in Seq(S) /\ IsInjective(w)
  BY HeldIs
<1>7. /\ FrameOK(g) /\ g.method = m /\ g.source = f.source /\ g.page = f.page
      /\ g.todo = Tail(f.todo) /\ g.got = f.got \o its /\ g.again = FALSE
  <2>1. its \in Seq(Item)
    <3>1. Seq(S) \subseteq Seq(Item)
      BY ItemsAreItems DEF FrameOK
    <3> QED BY <3>1, <1>4
  <2> HIDE DEF its
  <2> QED BY <2>1, <1>4, AnsweredIs
<1>8. ~Limiting(m) /\ Without(w, gone) = f.got \o ((h \o t) \o r)
  BY <1>3 DEF Reading, Ahead
<1>9. Without(w, gone \cup lost) = (f.got \o its) \o (t \o r)
  <2>1. HeadLaw(S)
    BY LostFromHead
  <2>2. \A a \in Seq(S), b \in Seq(S), c \in Seq(S) : (a \o b) \o c = a \o (b \o c)
    BY ConcatLaws
  <2>3. \A a \in Seq(S), b \in Seq(S) : a \o b \in Seq(S)
    BY ConcatLaws
  <2>4. lost \subseteq ToSet(h)
    OBVIOUS
  <2> DEFINE k == f.got
  <2>5. k \in Seq(S) /\ Without(w, gone) = k \o ((h \o t) \o r)
    BY <1>2, <1>8
  <2> HIDE DEF S, h, t, r, w, k
  <2>6. t \o r \in Seq(S) /\ (h \o t) \o r = h \o (t \o r)
    BY <2>2, <2>3, <1>3, <1>5, SMTT(20)
  <2>7. Without(w, gone) = k \o (h \o (t \o r))
    BY <2>5, <2>6
  <2> DEFINE z == t \o r
  <2>8. z \in Seq(S) /\ Without(w, gone) = k \o (h \o z)
    BY <2>6, <2>7
  <2> HIDE DEF z
  <2>9. HeadLost(w, k, h, z)
    BY <2>1, <2>5, <2>8, <1>3, <1>6, Zenon DEF HeadLaw
  <2>10. Without(w, gone \cup lost) = (k \o Without(h, lost)) \o z
    BY <2>4, <2>8, <2>9, <1>6 DEF HeadLost
  <2> QED BY <2>10 DEF k, z
<1>10. Without(w, gone \cup lost) = g.got \o Ahead(g)
  BY <1>7, <1>9 DEF Ahead
<1> HIDE DEF g
<1>11. Reading(g, p, gone \cup lost)
  BY <1>7, <1>8, <1>10 DEF Reading
<1> QED BY <1>7, <1>11 DEF g

\* A method that returns none of what it asks for.
LEMMA ReadingNone ==
  ASSUME LayoutsOK, NEW f, FrameOK(f), NEW p,
         NEW gone, Reading(f, p, gone), f.method.of = <<>>, f.todo # <<>>,
         NEW lost, f.method.found = "none"
  PROVE  LET g == Answered(f, <<>>) IN
         FrameOK(g) /\ Reading(g, p, gone \cup lost) /\ g.method = f.method /\ g.source = f.source
<1> DEFINE g == Answered(f, <<>>)
<1>1. <<>> \in Seq(Item) /\ <<>> \in Seq(Items(f.source))
  BY EmptySeq
<1>2. /\ FrameOK(g) /\ g.method = f.method /\ g.source = f.source /\ g.page = f.page
      /\ g.got = f.got \o <<>>
  BY <1>1, AnsweredIs
<1>3. f.got = <<>> /\ ~Limiting(f.method)
  BY DEF Reading
<1>4. g.got = <<>>
  BY <1>2, <1>3, <1>1, ConcatEmptySeq
<1> HIDE DEF g
<1>5. Reading(g, p, gone \cup lost)
  BY <1>2, <1>3, <1>4 DEF Reading
<1> QED BY <1>2, <1>5 DEF g

\* The item is asked for once more: nothing else changes.
LEMMA ReadingAgain ==
  ASSUME NEW f, FrameOK(f), f.todo # <<>>
  PROVE  LET g == [f EXCEPT !.again = TRUE] IN
         /\ FrameOK(g)
         /\ \A p, gone : Reading(f, p, gone) => Reading(g, p, gone)
         /\ g.method = f.method /\ g.source = f.source /\ g.page = f.page
         /\ g.todo = f.todo /\ g.got = f.got
<1> DEFINE g == [f EXCEPT !.again = TRUE]
           Frames == [method : Known, source : {<<>>} \cup Items(<<>>), page : Nat,
                      todo : Seq(Seq(Item)), got : Seq(Item), again : BOOLEAN]
<1>1. f \in Frames
  BY DEF FrameOK
<1>2. /\ g \in Frames /\ g.method = f.method /\ g.source = f.source /\ g.page = f.page
      /\ g.todo = f.todo /\ g.got = f.got /\ g.again = TRUE
  BY <1>1
<1> HIDE DEF g
<1>3. FrameOK(g)
  BY <1>2 DEF FrameOK
<1>4. ASSUME NEW p, NEW gone, Reading(f, p, gone) PROVE Reading(g, p, gone)
  BY <1>2, <1>4 DEF Reading, Ahead
<1> QED BY <1>2, <1>3, <1>4 DEF g

-----------------------------------------------------------------------------
(* It ends, or gives up, within its limit.                                 *)

\* What of a sequence a method with a limit returns.
Cut(m, s) == IF Limiting(m) /\ Len(s) > limit THEN SubSeq(s, 1, limit) ELSE s

\* The empty sequence is a prefix of every one.
LEMMA EmptyPrefix ==
  ASSUME NEW S, NEW a \in Seq(S)
  PROVE  IsPrefix(<<>>, a)
<1>1. <<>> \in Seq(S) /\ <<>> \o a = a
  BY EmptySeq, ConcatEmptySeq
<1>2. IsPrefix(<<>>, <<>> \o a)
  BY <1>1, PrefixOfConcat
<1> QED BY <1>1, <1>2

\* A prefix of the same length is the whole.
LEMMA PrefixWhole ==
  ASSUME NEW S, NEW a \in Seq(S), NEW b \in Seq(S), IsPrefix(a, b), Len(a) = Len(b)
  PROVE  a = b
BY SubSeqFull DEF IsPrefix

\* The first n elements are a prefix of length n.
LEMMA CutPrefix ==
  ASSUME NEW S, NEW b \in Seq(S), NEW n \in 0 .. Len(b)
  PROVE  SubSeq(b, 1, n) \in Seq(S) /\ Len(SubSeq(b, 1, n)) = n /\ IsPrefix(SubSeq(b, 1, n), b)
<1> DEFINE a == SubSeq(b, 1, n)
<1>1. Len(b) \in Nat
  BY LenProperties
<1>2. a \in Seq(S) /\ Len(a) = n
  <2>1. \A i \in 1 .. n : b[i] \in S
    BY <1>1, ElementOfSeq
  <2>2. a \in Seq(S) /\ Len(a) = IF 1 <= n THEN n - 1 + 1 ELSE 0
    BY <2>1, SubSeqProperties
  <2> QED BY <2>2, <1>1
<1>3. SubSeq(a, 1, Len(a)) = a
  BY <1>2, SubSeqFull
<1> QED BY <1>1, <1>2, <1>3 DEF IsPrefix

\* A prefix no longer than a cut is a prefix of the cut.
LEMMA PrefixOfCut ==
  ASSUME NEW S, NEW a \in Seq(S), NEW b \in Seq(S), IsPrefix(a, b),
         NEW n \in Nat, Len(a) <= n, n <= Len(b)
  PROVE  IsPrefix(a, SubSeq(b, 1, n))
<1> DEFINE c == SubSeq(b, 1, n)
<1>1. Len(a) \in Nat /\ Len(b) \in Nat
  BY LenProperties
<1>2. n \in 0 .. Len(b)
  BY <1>1
<1>3. c \in Seq(S) /\ Len(c) = n /\ IsPrefix(c, b)
  BY <1>2, CutPrefix
<1> HIDE DEF c
<1>4. SubSeq(a, 1, Len(a)) = SubSeq(b, 1, Len(a))
  BY DEF IsPrefix
<1>5. Len(a) \in 0 .. Len(c)
  BY <1>1, <1>3
<1>6. SubSeq(c, 1, Len(a)) = SubSeq(b, 1, Len(a))
  BY <1>3, <1>5, PrefixCut
<1>7. IsPrefix(a, c)
  BY <1>3, <1>4, <1>6 DEF IsPrefix
<1> QED BY <1>7 DEF c

\* A cut has elements of the sequence.
LEMMA CutHolds ==
  ASSUME LimitOK, NEW S, NEW s \in Seq(S), NEW m
  PROVE  Cut(m, s) \in Seq(S)
<1>1. limit \in Nat /\ Len(s) \in Nat
  BY ListingAssumption, LenProperties DEF LimitOK, None
<1>2. ASSUME Len(s) > limit PROVE SubSeq(s, 1, limit) \in Seq(S)
  <2>1. limit \in 0 .. Len(s)
    BY <1>1, <1>2
  <2> QED BY <2>1, CutPrefix
<1> QED BY <1>2 DEF Cut

\* Nothing is left to read or to ask about: all is returned, but for what the
\* limit cuts off.
LEMMA ReadingEnds ==
  ASSUME LayoutsOK, LimitOK, NEW f, FrameOK(f), NEW p \in DOMAIN Pages(f.source),
         NEW gone, Reading(f, p, gone), f.method.of = <<>>,
         f.page = None, f.todo = <<>>
  PROVE  /\ Cut(f.method, f.got) \in Seq(Items(f.source))
         /\ f.method.found # "none" =>
              Cut(f.method, f.got) = Without(Cut(f.method, Held(f.method, f.source, p)), gone)
<1> DEFINE S == Items(f.source)
           m == f.method
           w == Held(m, f.source, p)
<1>1. f.got \in Seq(S)
  <2>1. m \in Known
    BY DEF FrameOK
  <2> QED BY <2>1, MethodsKnown DEF MethodFacts, FrameOK
<1>2. w \in Seq(S)
  BY HeldIs
<1>3. limit \in Nat
  BY ListingAssumption DEF LimitOK, None
<1>4. Len(f.got) \in Nat /\ Len(w) \in Nat
  BY <1>1, <1>2, LenProperties
<1>5. Cut(m, f.got) \in Seq(S)
  <2> HIDE DEF S, m
  <2> QED BY <1>1, CutHolds
<1>6. f.got \o Ahead(f) = f.got
  <2>1. Ahead(f) = <<>>
    BY FlattenEmpty DEF Ahead
  <2> QED BY <2>1, <1>1, ConcatEmptySeq
<1>7. ASSUME m.found # "none", ~Limiting(m) PROVE Cut(m, f.got) = Without(Cut(m, w), gone)
  BY <1>6, <1>7 DEF Cut, Reading
<1>8. ASSUME m.found # "none", Limiting(m) PROVE Cut(m, f.got) = Without(Cut(m, w), gone)
  <2>1. gone = {} /\ Cut(m, w) \in Seq(S)
    <3>1. gone = {}
      BY <1>8 DEF Reading
    <3>2. Cut(m, w) \in Seq(S)
      <4> HIDE DEF S, m, w
      <4> QED BY <1>2, CutHolds
    <3> QED BY <3>1, <3>2
  <2>2. Without(Cut(m, w), gone) = Cut(m, w) /\ Without(w, gone) = w
    BY <2>1, <1>2, WithoutNone
  <2>3. CASE w = f.got
    BY <2>2, <2>3
  <2>4. CASE w # f.got
    <3>1. Len(f.got) >= limit /\ IsPrefix(f.got, w)
      BY <2>2, <2>4, <1>6, <1>8 DEF Reading
    <3>2. Len(f.got) <= Len(w)
      BY <3>1 DEF IsPrefix
    <3>3. Len(f.got) # Len(w)
      BY <3>1, <2>4, <1>1, <1>2, PrefixWhole
    <3>4. Cut(m, w) = SubSeq(w, 1, limit)
      BY <3>1, <3>2, <3>3, <1>3, <1>4, <1>8 DEF Cut
    <3>5. limit \in 0 .. Len(f.got)
      BY <3>1, <1>3, <1>4
    <3>6. SubSeq(f.got, 1, limit) = SubSeq(w, 1, limit)
      BY <3>1, <3>5, <1>1, <1>2, PrefixCut
    <3>7. Cut(m, f.got) = SubSeq(f.got, 1, limit)
      <4>1. Len(f.got) = limit => SubSeq(f.got, 1, limit) = f.got
        BY <1>1, SubSeqFull
      <4> QED BY <4>1, <3>1, <1>3, <1>4, <1>8 DEF Cut
    <3> QED BY <3>4, <3>6, <3>7, <2>2
  <2> QED BY <2>3, <2>4
<1> QED BY <1>5, <1>7, <1>8

\* Something is left when a request fails: what was had is a beginning of what is due.
LEMMA ReadingFails ==
  ASSUME LayoutsOK, LimitOK, NEW f, FrameOK(f), NEW p \in DOMAIN Pages(f.source),
         NEW gone, Reading(f, p, gone), f.method.of = <<>>,
         f.page # None \/ f.todo # <<>>
  PROVE  LET due == Without(Cut(f.method, Held(f.method, f.source, p)), gone) IN
         /\ f.got \in Seq(Items(f.source)) /\ due \in Seq(Items(f.source))
         /\ IsPrefix(f.got, due) /\ IsPrefix(<<>>, due)
<1> DEFINE S == Items(f.source)
           m == f.method
           w == Held(m, f.source, p)
           due == Without(Cut(m, w), gone)
<1>1. f.got \in Seq(S)
  <2>1. m \in Known
    BY DEF FrameOK
  <2> QED BY <2>1, MethodsKnown DEF MethodFacts, FrameOK
<1>2. w \in Seq(S) /\ Ahead(f) \in Seq(S)
  BY HeldIs, AheadIs
<1>3. limit \in Nat
  BY ListingAssumption DEF LimitOK, None
<1>4. Len(f.got) \in Nat /\ Len(w) \in Nat
  BY <1>1, <1>2, LenProperties
<1>5. Cut(m, w) \in Seq(S)
  <2> HIDE DEF S, m, w
  <2> QED BY <1>2, CutHolds
<1>6. due \in Seq(S)
  BY <1>5, WithoutSet
<1>7. IsPrefix(<<>>, due)
  BY <1>6, EmptyPrefix
<1>8. IsPrefix(f.got, f.got \o Ahead(f))
  BY <1>1, <1>2, PrefixOfConcat
<1>9. ASSUME m.found # "none", ~Limiting(m) PROVE IsPrefix(f.got, due)
  BY <1>8, <1>9 DEF Cut, Reading
<1>10. ASSUME m.found # "none", Limiting(m) PROVE IsPrefix(f.got, due)
  <2>1. gone = {} /\ Len(f.got) < limit /\ Without(w, gone) = f.got \o Ahead(f)
    BY <1>10 DEF Reading
  <2>2. due = Cut(m, w) /\ Without(w, gone) = w
    BY <2>1, <1>2, <1>5, WithoutNone
  <2>3. IsPrefix(f.got, w)
    BY <2>1, <2>2, <1>8
  <2>4. CASE Len(w) > limit
    <3>1. IsPrefix(f.got, SubSeq(w, 1, limit))
      <4> DEFINE a == f.got
      <4>1. Len(a) <= limit /\ limit <= Len(w) /\ a \in Seq(S) /\ IsPrefix(a, w)
        BY <2>1, <2>3, <2>4, <1>1, <1>3, <1>4
      <4> HIDE DEF S, w, a
      <4>2. IsPrefix(a, SubSeq(w, 1, limit))
        BY <4>1, <1>2, <1>3, PrefixOfCut
      <4> QED BY <4>2 DEF a
    <3> QED BY <3>1, <2>2, <2>4, <1>10 DEF Cut
  <2>5. CASE ~(Len(w) > limit)
    BY <2>2, <2>3, <2>5 DEF Cut
  <2> QED BY <2>4, <2>5
<1>11. ASSUME m.found = "none" PROVE IsPrefix(f.got, due)
  BY <1>7, <1>11 DEF Reading
<1> QED BY <1>1, <1>6, <1>7, <1>9, <1>10, <1>11

\* A listing of what belongs to an item is given up: all of it is gone that was
\* not had, or all of it where nothing is kept.
LEMMA ReadingSkips ==
  ASSUME LayoutsOK, NEW f, FrameOK(f), NEW p \in DOMAIN Pages(f.source), NEW gone, Reading(f, p, gone),
         f.method.of = <<>>, f.method.found # "none", ~Limiting(f.method)
  PROVE  LET X == ToSet(AllFrom(f.source, 1))
             w == Held(f.method, f.source, p)
         IN /\ Without(w, gone \cup (X \ ToSet(f.got))) = f.got
            /\ Without(w, gone \cup (X \ ToSet(<<>>))) = <<>>
<1> DEFINE S == Items(f.source)
           m == f.method
           w == Held(m, f.source, p)
           X == ToSet(AllFrom(f.source, 1))
           g == f.got
           z == Ahead(f)
<1>1. g \in Seq(S)
  <2>1. m \in Known
    BY DEF FrameOK
  <2> QED BY <2>1, MethodsKnown DEF MethodFacts, FrameOK
<1>2. w \in Seq(S) /\ z \in Seq(S) /\ IsInjective(w) /\ ToSet(w) \subseteq X
  BY HeldIs, AheadIs
<1>3. Without(w, gone) = g \o z
  BY DEF Reading
<1>4. RestLaw(S)
  BY LostTheRest
<1> HIDE DEF S, w, g, z, X
<1>5. RestLost(w, g, z)
  BY <1>1, <1>2, <1>4, Zenon DEF RestLaw
<1>6. /\ Without(w, gone \cup (X \ ToSet(g))) = g
      /\ Without(w, gone \cup (X \ ToSet(<<>>))) = <<>>
  BY <1>2, <1>3, <1>5 DEF RestLost
<1> QED BY <1>6 DEF w, g, X

-----------------------------------------------------------------------------
(* What is due of a call.                                                  *)

\* What is given is as Init chooses it.
GivenOK == LayoutsOK /\ LimitOK /\ method \in Known

\* What is due of the items listed, and what of the whole call.
ListedFrom(start, gone) == Without(Cut(Lister, Held(Lister, <<>>, start)), gone)

DueFrom(start, gone) ==
  IF method.each = <<>> THEN ListedFrom(start, gone)
  ELSE Without(Belonging(ListedFrom(start, gone)), gone)

\* None of the items belongs to one of the sequence.
Apart(items, s) == \A x \in items : x[1] \notin ToSet(s)

\* What belongs to the items of a sequence, in their order.
BelongOK(s) ==
  /\ Belonging(s) \in Seq(Item)
  /\ \A x \in ToSet(Belonging(s)) : x[1] \in ToSet(s)
  /\ s # <<>> => Belonging(s) = Held(method.each[1], Head(s), 1) \o Belonging(Tail(s))

\* What belongs to an item is read from its first page.
LEMMA OneIsAPage ==
  ASSUME LayoutsOK, NEW s
  PROVE  1 \in DOMAIN Pages(s)
BY PagesIs

\* Belonging goes item by item, and what it has tells which one.
LEMMA BelongingIs ==
  ASSUME LayoutsOK
  PROVE  \A s \in Seq(Items(<<>>)) : BelongOK(s)
<1> DEFINE S == Items(<<>>)
           part == [x \in S |-> Held(method.each[1], x, 1)]
<1>1. \A x \in S : Held(method.each[1], x, 1) \in Seq(Items(x)) /\ Items(x) \subseteq Item
  BY OneIsAPage, HeldIs, ItemsOfItem
<1>2. \A x \in S : Held(method.each[1], x, 1) \in Seq(Item)
  BY <1>1, SeqMonotonic
<1>3. part \in [S -> Seq(Item)]
  BY <1>2
<1>4. \A s \in Seq(S) : Belonging(s) = Gather(part, s)
  <2> TAKE s \in Seq(S)
  <2>1. \A i \in DOMAIN s : s[i] \in S
    BY ElementOfSeq, LenProperties
  <2>2. [i \in DOMAIN s |-> Held(method.each[1], s[i], 1)] = [i \in DOMAIN s |-> part[s[i]]]
    BY <2>1
  <2> QED BY <2>2 DEF Belonging, Gather
<1>5. \A x \in S : part[x] = Held(method.each[1], x, 1)
  OBVIOUS
<1> HIDE DEF part, S
<1>6. \A s \in Seq(S) : Gather(part, s) \in Seq(Item)
  BY <1>3, GatherIs
<1>7. \A s \in Seq(S) : s # <<>> => /\ Head(s) \in S /\ Tail(s) \in Seq(S)
                                    /\ Gather(part, s) = part[Head(s)] \o Gather(part, Tail(s))
  BY <1>3, GatherHead, SMTT(20)
<1>8. \A s \in Seq(S) : \A x \in ToSet(Gather(part, s)) : \E y \in ToSet(s) : x \in ToSet(part[y])
  BY <1>3, GatherSet
<1>9. \A s \in Seq(S) : ToSet(s) \subseteq S
  BY SetOfSeq
<1>10. \A y \in S : \A x \in ToSet(part[y]) : x[1] = y
  <2> TAKE y \in S
  <2> TAKE x \in ToSet(part[y])
  <2>1. part[y] \in Seq(Items(y))
    BY <1>1, <1>5 DEF S
  <2>2. x \in Items(y)
    BY <2>1, SetOfSeq
  <2> QED BY <2>2, ItemsIs
<1>11. ASSUME NEW s \in Seq(S) PROVE BelongOK(s)
  <2>1. Belonging(s) \in Seq(Item)
    BY <1>4, <1>6
  <2>2. \A x \in ToSet(Belonging(s)) : x[1] \in ToSet(s)
    <3> TAKE x \in ToSet(Belonging(s))
    <3>1. Belonging(s) = Gather(part, s)
      BY <1>4
    <3>2. PICK y \in ToSet(s) : x \in ToSet(part[y])
      BY <3>1, <1>8
    <3>3. y \in S
      BY <1>9
    <3> QED BY <3>2, <3>3, <1>10
  <2>3. ASSUME s # <<>> PROVE Belonging(s) = Held(method.each[1], Head(s), 1) \o Belonging(Tail(s))
    <3>1. Head(s) \in S /\ Tail(s) \in Seq(S) /\ Gather(part, s) = part[Head(s)] \o Gather(part, Tail(s))
      BY <2>3, <1>7
    <3> QED BY <3>1, <1>4, <1>5
  <2> QED BY <2>1, <2>2, <2>3 DEF BelongOK
<1> QED BY <1>11 DEF S

\* Different sources share no items.
LEMMA ItemsApart ==
  ASSUME NEW s, NEW t, s # t
  PROVE  Items(s) \cap Items(t) = {}
BY ItemsIs

\* What the lister's pages hold, up to its limit.
LEMMA ListedIs ==
  ASSUME GivenOK, NEW start \in DOMAIN layouts.items
  PROVE  LET w == Cut(Lister, Held(Lister, <<>>, start)) IN
         w \in Seq(Items(<<>>)) /\ IsInjective(w)
<1> DEFINE S == Items(<<>>)
           h == Held(Lister, <<>>, start)
<1>1. start \in DOMAIN Pages(<<>>)
  BY DEF Pages
<1>2. h \in Seq(S) /\ IsInjective(h)
  BY <1>1, HeldIs DEF GivenOK
<1>3. limit \in Nat
  BY ListingAssumption DEF GivenOK, LimitOK, None
<1> HIDE DEF S, h
<1>4. Cut(Lister, h) \in Seq(S)
  BY <1>2, CutHolds DEF GivenOK
<1>5. ASSUME Len(h) > limit PROVE IsInjective(SubSeq(h, 1, limit))
  <2>1. Len(h) \in Nat
    BY <1>2, LenProperties
  <2>2. limit \in 0 .. Len(h)
    BY <2>1, <1>3, <1>5
  <2> QED BY <2>2, <1>2, SubSeqInjective
<1>6. IsInjective(Cut(Lister, h))
  BY <1>2, <1>5 DEF Cut
<1> QED BY <1>4, <1>6 DEF S, h

\* What is due of the items listed: items, none twice.
LEMMA ListedFromIs ==
  ASSUME GivenOK, NEW start \in DOMAIN layouts.items, NEW gone
  PROVE  /\ ListedFrom(start, gone) \in Seq(Items(<<>>))
         /\ IsInjective(ListedFrom(start, gone))
<1> DEFINE w == Cut(Lister, Held(Lister, <<>>, start))
           S == Items(<<>>)
<1>1. w \in Seq(S) /\ IsInjective(w)
  BY ListedIs
<1> HIDE DEF w, S
<1>2. Without(w, gone) \in Seq(S) /\ IsInjective(Without(w, gone))
  BY <1>1, WithoutSet
<1> QED BY <1>2 DEF ListedFrom, w, S

\* Items that belong to an item are none of those listed.
LEMMA ListedKeeps ==
  ASSUME GivenOK, NEW start \in DOMAIN layouts.items, NEW gone,
         NEW lost, lost \cap Items(<<>>) = {}
  PROVE  ListedFrom(start, gone \cup lost) = ListedFrom(start, gone)
<1> DEFINE w == Cut(Lister, Held(Lister, <<>>, start))
           S == Items(<<>>)
           v == Without(w, gone)
<1>1. w \in Seq(S)
  BY ListedIs
<1>2. v \in Seq(S)
  BY ListedFromIs DEF ListedFrom
<1> HIDE DEF w, S
<1>3. Without(w, gone \cup lost) = Without(v, lost)
  BY <1>1, WithoutTwice
<1> HIDE DEF v
<1>4. ToSet(v) \subseteq S
  BY <1>2, SetOfSeq
<1>5. ToSet(v) \cap lost = {}
  BY <1>4 DEF S
<1>6. Without(v, lost) = v
  BY <1>2, <1>5, WithoutNone
<1> QED BY <1>3, <1>6 DEF ListedFrom, w, v

\* What is due are items.
LEMMA DueIs ==
  ASSUME GivenOK, NEW start \in DOMAIN layouts.items, NEW gone
  PROVE  DueFrom(start, gone) \in Seq(Item)
<1> DEFINE l == ListedFrom(start, gone)
<1>1. l \in Seq(Items(<<>>))
  BY ListedFromIs
<1>2. Seq(Items(<<>>)) \subseteq Seq(Item)
  BY ItemsAreItems
<1> HIDE DEF l
<1>3. BelongOK(l)
  BY <1>1, BelongingIs DEF GivenOK
<1>4. Without(Belonging(l), gone) \in Seq(Item)
  BY <1>3, WithoutSet DEF BelongOK
<1> QED BY <1>1, <1>2, <1>4 DEF DueFrom, l

\* Due, with the page and the items gone as parameters.
LEMMA DueSame == Due = DueFrom(from, skipped)
<1>1. \A s : Limited(s) = Cut(Lister, s)
  BY DEF Limited, Cut, Limiting
<1> QED BY <1>1 DEF Due, DueFrom, ListedFrom

-----------------------------------------------------------------------------
(* A method that calls others, once it has the list.                       *)

\* A calling method that has the list, and asks about its items one by one.
Asked(c, start, gone) ==
  /\ c.method = method /\ c.source = <<>> /\ c.page = None /\ FrameOK(c)
  /\ Lister.found = "none" => c.todo = <<>> /\ c.got = <<>>
  /\ method.each = <<>> /\ Lister.found # "none" =>
       ListedFrom(start, gone) = c.got \o FlattenSeq(c.todo)
  /\ method.each # <<>> =>
       /\ c.again = FALSE
       /\ \A b \in ToSet(c.todo) : Len(b) = 1
       /\ IsInjective(FlattenSeq(c.todo))
       /\ Apart(ToSet(c.got), FlattenSeq(c.todo))
       /\ Lister.found # "none" =>
            Without(Belonging(ListedFrom(start, gone)), gone) =
              c.got \o Without(Belonging(FlattenSeq(c.todo)), gone)

\* The frame with what belongs to the next item added.
Taken(c, items) == [c EXCEPT !.todo = Tail(@), !.got = @ \o items]

\* A portion of one item, and those after it.
LEMMA OneFirst ==
  ASSUME NEW S, NEW h \in Seq(S), Len(h) = 1, NEW t \in Seq(S)
  PROVE  /\ h \o t \in Seq(S) /\ h \o t # <<>> /\ Head(h \o t) = h[1] /\ Tail(h \o t) = t
         /\ h[1] \in S /\ ToSet(h) = {h[1]}
<1> DEFINE u == h \o t
<1>1. /\ u \in Seq(S) /\ Len(u) = 1 + Len(t) /\ Len(t) \in Nat
      /\ \A i \in 1 .. Len(u) : u[i] = IF i <= 1 THEN h[i] ELSE t[i - 1]
  <2>1. u \in Seq(S) /\ Len(u) = Len(h) + Len(t) /\ Len(t) \in Nat
    BY ConcatProperties, LenProperties
  <2>2. \A i \in 1 .. Len(h) + Len(t) : u[i] = IF i <= Len(h) THEN h[i] ELSE t[i - Len(h)]
    BY ConcatProperties
  <2> HIDE DEF u
  <2> QED BY <2>1, <2>2
<1> HIDE DEF u
<1>2. u # <<>>
  BY <1>1, EmptySeq
<1>3. /\ Head(u) = u[1] /\ Tail(u) \in Seq(S) /\ Len(Tail(u)) = Len(t)
      /\ \A i \in 1 .. Len(t) : Tail(u)[i] = u[i + 1]
  BY <1>1, <1>2, HeadTailProperties
<1>4. Head(u) = h[1]
  BY <1>1, <1>3
<1>5. Tail(u) = t
  <2>1. ASSUME NEW i \in 1 .. Len(t) PROVE Tail(u)[i] = t[i]
    <3>1. i + 1 \in 1 .. Len(u) /\ ~(i + 1 <= 1) /\ (i + 1) - 1 = i
      BY <1>1
    <3> QED BY <3>1, <1>1, <1>3
  <2> QED BY <2>1, <1>3, SeqEqual
<1>6. h[1] \in S /\ ToSet(h) = {h[1]}
  <2>1. DOMAIN h = 1 .. 1
    BY LenProperties
  <2>2. 1 \in 1 .. 1 /\ \A i \in 1 .. 1 : i = 1
    OBVIOUS
  <2>3. h[1] \in S
    BY <2>2, ElementOfSeq
  <2> QED BY <2>1, <2>2, <2>3 DEF ToSet
<1> QED BY <1>1, <1>2, <1>4, <1>5, <1>6 DEF u

\* The item whose belongings are asked for next.
LEMMA NextItem ==
  ASSUME NEW c, FrameOK(c), c.source = <<>>, c.todo # <<>>,
         \A b \in ToSet(c.todo) : Len(b) = 1, IsInjective(FlattenSeq(c.todo))
  PROVE  LET x == Head(c.todo)[1]
             u == FlattenSeq(c.todo)
             t == FlattenSeq(Tail(c.todo))
         IN /\ x \in Items(<<>>) /\ u \in Seq(Items(<<>>)) /\ t \in Seq(Items(<<>>))
            /\ u # <<>> /\ Head(u) = x /\ Tail(u) = t
            /\ ToSet(u) = {x} \cup ToSet(t) /\ x \notin ToSet(t) /\ IsInjective(t)
            /\ \A b \in ToSet(Tail(c.todo)) : Len(b) = 1
<1> DEFINE S == Items(<<>>)
           h == Head(c.todo)
           t == FlattenSeq(Tail(c.todo))
<1>1. /\ c.todo \in Seq(Seq(S)) /\ h \in Seq(S) /\ t \in Seq(S)
      /\ FlattenSeq(c.todo) = h \o t
  BY FrameFacts
<1>2. h \in ToSet(c.todo) /\ ToSet(Tail(c.todo)) \subseteq ToSet(c.todo)
  <2> DEFINE T == Seq(S)
             d == c.todo
  <2>1. d \in Seq(T) /\ d # <<>>
    BY <1>1
  <2> HIDE DEF T, d
  <2>2. /\ Len(d) \in Nat \ {0} /\ DOMAIN d = 1 .. Len(d)
        /\ DOMAIN Tail(d) = 1 .. Len(d) - 1 /\ Head(d) = d[1]
        /\ \A i \in 1 .. Len(d) - 1 : Tail(d)[i] = d[i + 1]
    BY <2>1, HeadTailProperties, LenProperties, EmptySeq
  <2>3. 1 \in 1 .. Len(d) /\ \A i \in 1 .. Len(d) - 1 : i + 1 \in 1 .. Len(d)
    BY <2>2
  <2>4. Head(d) \in ToSet(d) /\ ToSet(Tail(d)) \subseteq ToSet(d)
    BY <2>2, <2>3 DEF ToSet
  <2> QED BY <2>4 DEF d
<1>3. Len(h) = 1
  BY <1>2
<1> HIDE DEF S, h, t
<1>4. /\ h \o t # <<>> /\ Head(h \o t) = h[1] /\ Tail(h \o t) = t
      /\ h \o t \in Seq(S) /\ h[1] \in S /\ ToSet(h) = {h[1]}
  BY <1>1, <1>3, OneFirst
<1>5. ToSet(h \o t) = ToSet(h) \cup ToSet(t)
  BY <1>1, SetOfConcat
<1>6. IsInjective(t) /\ ToSet(h) \cap ToSet(t) = {}
  BY <1>1, InjectiveConcat
<1> QED BY <1>1, <1>2, <1>4, <1>5, <1>6 DEF S, h, t

\* More of what belongs to the items still to be asked about is gone.
LEMMA AskedLoses ==
  ASSUME GivenOK, NEW start \in DOMAIN layouts.items, NEW gone, NEW c,
         Asked(c, start, gone), method.each # <<>>,
         NEW lost, lost \cap Items(<<>>) = {},
         \A x \in lost : x[1] \in ToSet(FlattenSeq(c.todo))
  PROVE  Asked(c, start, gone \cup lost)
<1> DEFINE l == ListedFrom(start, gone)
           u == FlattenSeq(c.todo)
           a == Belonging(l)
           b == Belonging(u)
           g == c.got
<1>1. ListedFrom(start, gone \cup lost) = l
  BY ListedKeeps
<1>2. l \in Seq(Items(<<>>)) /\ u \in Seq(Items(<<>>))
  BY ListedFromIs, FrameFacts DEF Asked
<1>3. g \in Seq(Item) /\ ToSet(g) \cap lost = {}
  BY DEF Asked, FrameOK, Apart
<1> HIDE DEF l, u
<1>4. a \in Seq(Item) /\ b \in Seq(Item)
  BY <1>2, BelongingIs DEF BelongOK, GivenOK
<1>5. ASSUME Lister.found # "none"
      PROVE  Without(a, gone \cup lost) = g \o Without(b, gone \cup lost)
  <2>1. Without(a, gone) = g \o Without(b, gone)
    BY <1>5 DEF Asked, l, u
  <2> HIDE DEF a, b, g
  <2>2. \A s \in Seq(Item) : \A X : Without(s, X) \in Seq(Item)
    BY WithoutLaws
  <2>3. \A s \in Seq(Item) : \A X : ToSet(s) \cap X = {} => Without(s, X) = s
    BY WithoutLaws
  <2>4. \A s \in Seq(Item) : \A X, Y : Without(Without(s, X), Y) = Without(s, X \cup Y)
    BY WithoutLaws
  <2>5. \A s \in Seq(Item), t \in Seq(Item) : \A X :
          Without(s \o t, X) = Without(s, X) \o Without(t, X)
    BY WithoutLaws
  <2>6. Without(b, gone) \in Seq(Item)
    BY <2>2, <1>4, Zenon
  <2>7. Without(g \o Without(b, gone), lost) = Without(g, lost) \o Without(Without(b, gone), lost)
    BY <2>5, <2>6, <1>3, SMTT(20)
  <2>8. Without(g, lost) = g
    BY <2>3, <1>3, Zenon
  <2>9. /\ Without(Without(a, gone), lost) = Without(a, gone \cup lost)
        /\ Without(Without(b, gone), lost) = Without(b, gone \cup lost)
    BY <2>4, <1>4
  <2> QED BY <2>1, <2>7, <2>8, <2>9
<1> QED BY <1>1, <1>5 DEF Asked, l, u

\* What belongs to the next item is added.
LEMMA AskedTakes ==
  ASSUME GivenOK, NEW start \in DOMAIN layouts.items, NEW gone, NEW c,
         Asked(c, start, gone), method.each # <<>>, c.todo # <<>>,
         Apart(gone, FlattenSeq(Tail(c.todo))),
         NEW taken, taken = Without(Held(method.each[1], Head(c.todo)[1], 1), gone)
  PROVE  Asked(Taken(c, taken), start, gone) /\ Taken(c, taken).todo = Tail(c.todo)
<1> DEFINE x == Head(c.todo)[1]
           u == FlattenSeq(c.todo)
           t == FlattenSeq(Tail(c.todo))
           h == Held(method.each[1], x, 1)
           k == c.got
           S == Items(<<>>)
<1>1. /\ x \in S /\ u \in Seq(S) /\ t \in Seq(S)
      /\ u # <<>> /\ Head(u) = x /\ Tail(u) = t
      /\ ToSet(u) = {x} \cup ToSet(t) /\ x \notin ToSet(t) /\ IsInjective(t)
      /\ \A b \in ToSet(Tail(c.todo)) : Len(b) = 1
  BY NextItem DEF Asked
<1>2. h \in Seq(Items(x))
  BY HeldIs, OneIsAPage DEF GivenOK
<1>3. taken \in Seq(Items(x))
  BY <1>2, WithoutSet
<1>4. /\ Seq(Items(x)) \subseteq Seq(Item) /\ h \in Seq(Item) /\ taken \in Seq(Item)
      /\ \A y \in ToSet(taken) : y[1] = x
  <2>1. Seq(Items(x)) \subseteq Seq(Item)
    BY <1>1, ItemsAreItems
  <2>2. ToSet(taken) \subseteq Items(x)
    BY <1>3, SetOfSeq
  <2> HIDE DEF x, h
  <2> QED BY <2>1, <2>2, <1>2, <1>3, ItemsIs
<1>5. BelongOK(u) /\ BelongOK(t)
  BY <1>1, BelongingIs DEF GivenOK
<1>6. Belonging(u) = h \o Belonging(t) /\ Belonging(t) \in Seq(Item)
  BY <1>1, <1>5 DEF BelongOK
<1>7. Lister.found # "none" /\ k \in Seq(Item) /\ Apart(ToSet(k), u)
  BY DEF Asked, FrameOK
<1>8. Without(Belonging(ListedFrom(start, gone)), gone)
        = (k \o taken) \o Without(Belonging(t), gone)
  <2> DEFINE b == Belonging(t)
  <2>1. Without(Belonging(ListedFrom(start, gone)), gone) = k \o Without(h \o b, gone)
    BY <1>6, <1>7 DEF Asked
  <2>2. h \in Seq(Item) /\ b \in Seq(Item) /\ taken = Without(h, gone)
    BY <1>4, <1>6
  <2> HIDE DEF h, b, k, S
  <2> DEFINE q == Without(b, gone)
  <2>3. Without(h \o b, gone) = taken \o q
    <3>1. \A s \in Seq(Item), r \in Seq(Item) : \A X :
            Without(s \o r, X) = Without(s, X) \o Without(r, X)
      BY WithoutLaws
    <3>2. h \in Seq(Item) /\ b \in Seq(Item)
      BY <2>2
    <3>3. Without(h \o b, gone) = Without(h, gone) \o Without(b, gone)
      BY <3>1, <3>2, Zenon
    <3> QED BY <3>3, <2>2
  <2>4. q \in Seq(Item)
    BY <2>2, WithoutSet
  <2>5. (k \o taken) \o q = k \o (taken \o q)
    <3> HIDE DEF q
    <3>1. \A r \in Seq(Item), s \in Seq(Item), v \in Seq(Item) : (r \o s) \o v = r \o (s \o v)
      BY ConcatLaws
    <3> QED BY <3>1, <2>4, <1>4, <1>7, SMTT(20)
  <2> QED BY <2>1, <2>3, <2>5 DEF b
<1> DEFINE g == Taken(c, taken)
<1>9. /\ FrameOK(g) /\ g.method = c.method /\ g.source = c.source /\ g.page = c.page
      /\ g.todo = Tail(c.todo) /\ g.got = k \o taken /\ g.again = FALSE
  <2> DEFINE e == Answered(c, taken)
  <2>1. FrameOK(c) /\ c.again = FALSE /\ c.method.each # <<>>
    BY DEF Asked
  <2>2. /\ FrameOK(e) /\ e.method = c.method /\ e.source = c.source /\ e.page = c.page
        /\ e.todo = Tail(c.todo) /\ e.got = c.got \o taken /\ e.again = FALSE
    BY <2>1, <1>4, AnsweredIs
  <2>3. g = e
    BY <2>1 DEF Answered, Taken, FrameOK
  <2> HIDE DEF g, e
  <2> QED BY <2>2, <2>3
<1>10. Apart(ToSet(k \o taken), t)
  <2>1. ToSet(k \o taken) = ToSet(k) \cup ToSet(taken)
    <3> HIDE DEF k
    <3> QED BY <1>4, <1>7, SetOfConcat
  <2> HIDE DEF k, t, x, u
  <2> QED BY <2>1, <1>1, <1>4, <1>7 DEF Apart
<1> HIDE DEF g
<1>11. Asked(g, start, gone)
  BY <1>1, <1>7, <1>8, <1>9, <1>10 DEF Asked
<1> QED BY <1>9, <1>11 DEF g

-----------------------------------------------------------------------------
(* It waits for the list, receives it, and has its requests answered.      *)

\* The frame of a calling method while the method that lists is read.
Waiting(start) == [Frame(method, <<>>, start) EXCEPT !.page = None]

\* The waiting frame has nothing yet.
LEMMA WaitingIs ==
  ASSUME GivenOK, NEW start
  PROVE  LET c == Waiting(start) IN
         /\ FrameOK(c) /\ c.method = method /\ c.source = <<>> /\ c.page = None
         /\ c.todo = <<>> /\ c.got = <<>> /\ c.again = FALSE
<1> DEFINE c == Waiting(start)
<1>1. /\ c.method = method /\ c.source = <<>> /\ c.page = None
      /\ c.todo = <<>> /\ c.got = <<>> /\ c.again = FALSE
  BY DEF Frame, Waiting
<1>2. c \in [method : Known, source : {<<>>} \cup Items(<<>>), page : Nat,
            todo : Seq(Seq(Item)), got : Seq(Item), again : BOOLEAN]
  BY EmptySeq DEF Frame, Waiting, GivenOK, None
<1> HIDE DEF c
<1>3. FrameOK(c)
  BY <1>1, <1>2, EmptySeq DEF FrameOK
<1> QED BY <1>1, <1>3 DEF c

\* The list is received: each of its items is to be asked about.
LEMMA AskedBegins ==
  ASSUME GivenOK, method.of # <<>>, NEW start \in DOMAIN layouts.items,
         NEW gone, gone \subseteq Items(<<>>), NEW its \in Seq(Items(<<>>)),
         Lister.found # "none" => its = ListedFrom(start, gone),
         Lister.found = "none" => its = <<>>
  PROVE  LET g == Received(Waiting(start), its, None) IN
         /\ Asked(g, start, gone)
         /\ method.each # <<>> => Apart(gone, FlattenSeq(g.todo))
<1> DEFINE c == Waiting(start)
           S == Items(<<>>)
           g == Received(c, its, None)
<1>1. /\ FrameOK(c) /\ c.method = method /\ c.source = <<>> /\ c.page = None
      /\ c.todo = <<>> /\ c.got = <<>> /\ c.again = FALSE
  BY WaitingIs
<1>2. method.batch = "item" /\ CallerFacts(method)
  <2>1. CallerFacts(method)
    BY MethodsKnown DEF GivenOK
  <2> QED BY <2>1 DEF CallerFacts
<1>3. /\ FrameOK(g) /\ g.method = method /\ g.source = <<>> /\ g.page = None
      /\ g.got = <<>> /\ g.todo = Batches(method, its)
  <2> HIDE DEF c
  <2>1. None \in {None} \cup DOMAIN Pages(c.source) /\ None \in Nat
    BY DEF None
  <2>2. c.got \in Seq(Items(c.source)) /\ its \in Seq(Items(c.source))
    BY <1>1, EmptySeq
  <2>3. c.method.batch \in {"none", "item", "chunk", "page"}
    BY <1>1, <1>2
  <2>4. /\ FrameOK(g) /\ g.method = c.method /\ g.source = c.source /\ g.page = None
        /\ g.todo = Batches(c.method, its)
        /\ g.got = IF c.method.batch = "none" THEN c.got \o its ELSE c.got
    <3> HIDE DEF g
    <3> QED BY <2>1, <2>2, <2>3, <1>1, ReceivedIs DEF g
  <2> QED BY <2>4, <1>1, <1>2
<1>4. BatchesHold(method, S)
  BY <1>2, BatchesHoldAll
<1> HIDE DEF g, c
<1>5. FlattenSeq(g.todo) = its /\ \A b \in ToSet(g.todo) : Len(b) = 1
  BY <1>2, <1>3, <1>4 DEF BatchesHold
<1>6. its = <<>> => g.todo = <<>>
  <2>1. ASSUME its = <<>> PROVE Batches(method, its) = <<>>
    <3>1. Batches(method, its) = Chunks(<<>>, 1)
      BY <1>2, <2>1 DEF Batches
    <3>2. (0 + 1 - 1) \div 1 = 0
      OBVIOUS
    <3>3. Len(<<>>) = 0
      OBVIOUS
    <3> DEFINE n == (Len(<<>>) + 1 - 1) \div 1
    <3>4. n = 0 /\ 1 .. 0 = {}
      BY <3>2, <3>3
    <3> HIDE DEF n
    <3>5. Chunks(<<>>, 1) = [k \in 1 .. n |->
             SubSeq(<<>>, (k - 1) * 1 + 1, IF k * 1 > Len(<<>>) THEN Len(<<>>) ELSE k * 1)]
      BY DEF Chunks, n
    <3> QED BY <3>1, <3>4, <3>5
  <2> QED BY <2>1, <1>3
<1>7. IsInjective(its)
  <2>1. Lister.found # "none" => IsInjective(its)
    BY ListedFromIs
  <2>2. IsInjective(<<>>)
    BY DEF IsInjective
  <2> QED BY <2>1, <2>2
<1>8. Apart({}, its) /\ Apart(ToSet(<<>>), its)
  BY SetOfEmpty DEF Apart
<1>9. Apart(gone, its)
  <2>1. ToSet(its) \subseteq Items(<<>>)
    BY SetOfSeq
  <2> QED BY <2>1, ItemsIs DEF Apart
<1>10. ASSUME Lister.found # "none" PROVE ListedFrom(start, gone) = g.got \o FlattenSeq(g.todo)
  BY <1>3, <1>5, <1>10, ConcatEmptySeq
<1>11. ASSUME Lister.found # "none"
       PROVE  Without(Belonging(ListedFrom(start, gone)), gone) =
                g.got \o Without(Belonging(FlattenSeq(g.todo)), gone)
  <2> DEFINE b == Belonging(its)
  <2>1. b \in Seq(Item)
    BY BelongingIs DEF BelongOK, GivenOK
  <2> HIDE DEF b
  <2>2. Without(b, gone) \in Seq(Item)
    BY <2>1, WithoutSet
  <2>3. <<>> \o Without(b, gone) = Without(b, gone)
    BY <2>2, ConcatEmptySeq
  <2> QED BY <2>3, <1>3, <1>5, <1>11 DEF b
<1>12. method.each # <<>> => g.again = FALSE
  BY <1>3, <1>1 DEF g, Received, FrameOK
<1>13. Asked(g, start, gone)
  BY <1>3, <1>5, <1>6, <1>7, <1>8, <1>10, <1>11, <1>12 DEF Asked
<1> QED BY <1>5, <1>9, <1>13 DEF g, c

\* A request about an item is answered.
LEMMA AskedAnswers ==
  ASSUME GivenOK, NEW start \in DOMAIN layouts.items, NEW gone, NEW c,
         Asked(c, start, gone), method.each = <<>>, c.todo # <<>>,
         NEW lost, lost \subseteq ToSet(Head(c.todo))
  PROVE  Asked(Answered(c, Without(Head(c.todo), lost)), start, gone \cup lost)
<1> DEFINE S == Items(<<>>)
           w == Cut(Lister, Held(Lister, <<>>, start))
           k == c.got
           h == Head(c.todo)
           z == FlattenSeq(Tail(c.todo))
           its == Without(h, lost)
           g == Answered(c, its)
<1>1. FrameOK(c) /\ c.method = method /\ c.source = <<>> /\ c.page = None
  BY DEF Asked
<1>2. h \in Seq(S) /\ z \in Seq(S) /\ FlattenSeq(c.todo) = h \o z
  BY <1>1, FrameFacts
<1>3. k \in Seq(S)
  BY <1>1 DEF FrameOK
<1>4. w \in Seq(S) /\ IsInjective(w)
  BY ListedIs
<1>5. its \in Seq(S) /\ its \in Seq(Item)
  <2>1. its \in Seq(S)
    BY <1>2, WithoutLaws
  <2>2. Seq(S) \subseteq Seq(Item)
    BY ItemsAreItems
  <2> QED BY <2>1, <2>2
<1>6. /\ FrameOK(g) /\ g.method = method /\ g.source = <<>> /\ g.page = None
      /\ g.todo = Tail(c.todo) /\ g.got = k \o its
  <2> HIDE DEF its
  <2> QED BY <1>1, <1>5, AnsweredIs
<1>7. Lister.found # "none" /\ Without(w, gone) = k \o (h \o z)
  BY <1>2 DEF Asked, ListedFrom
<1>8. HeadLaw(S)
  BY LostFromHead
<1>9. lost \subseteq ToSet(h)
  OBVIOUS
<1> HIDE DEF S, w, k, h, z
<1>10. HeadLost(w, k, h, z)
  BY <1>2, <1>3, <1>4, <1>8, Zenon DEF HeadLaw
<1>11. Without(w, gone \cup lost) = (k \o its) \o z
  BY <1>4, <1>7, <1>9, <1>10 DEF HeadLost
<1> HIDE DEF g, its
<1>12. ListedFrom(start, gone \cup lost) = g.got \o FlattenSeq(g.todo)
  BY <1>6, <1>11 DEF ListedFrom, w, z
<1>13. Asked(g, start, gone \cup lost)
  BY <1>6, <1>7, <1>12 DEF Asked
<1> QED BY <1>13 DEF g, its, h

\* To ask once more changes nothing else.
LEMMA AskedAgain ==
  ASSUME NEW start, NEW gone, NEW c, Asked(c, start, gone), method.each = <<>>, c.todo # <<>>
  PROVE  Asked([c EXCEPT !.again = TRUE], start, gone)
<1> DEFINE g == [c EXCEPT !.again = TRUE]
<1>1. FrameOK(c)
  BY DEF Asked
<1>2. /\ FrameOK(g) /\ g.method = c.method /\ g.source = c.source /\ g.page = c.page
      /\ g.todo = c.todo /\ g.got = c.got
  BY <1>1, ReadingAgain
<1> HIDE DEF g
<1>3. Asked(g, start, gone)
  BY <1>2 DEF Asked
<1> QED BY <1>3 DEF g

-----------------------------------------------------------------------------
(* The five stages of a call.                                              *)

\* A method that reads pages itself is called.
Reads(st, start, gone) ==
  /\ st = <<st[1]>> /\ method.of = <<>>
  /\ st[1].method = method /\ st[1].source = <<>>
  /\ FrameOK(st[1]) /\ Reading(st[1], start, gone)

\* A method is called that has not called the one that lists.
Calls(st, start, gone) ==
  st = <<Frame(method, <<>>, start)>> /\ method.of # <<>> /\ gone = {}

\* That one is being read.
Lists(st, start, gone) ==
  /\ st = <<Waiting(start), st[2]>> /\ method.of # <<>>
  /\ st[2].method = Lister /\ st[2].source = <<>>
  /\ FrameOK(st[2]) /\ Reading(st[2], start, gone)
  /\ gone \subseteq Items(<<>>)

\* The items listed are asked about.
Asks(st, start, gone) ==
  /\ st = <<st[1]>> /\ method.of # <<>> /\ Asked(st[1], start, gone)
  /\ method.each # <<>> => Apart(gone, FlattenSeq(st[1].todo))

\* What belongs to the next of them is being read.
Follows(st, start, gone) ==
  /\ st = <<st[1], st[2]>> /\ method.of # <<>> /\ method.each # <<>>
  /\ Asked(st[1], start, gone) /\ st[1].todo # <<>>
  /\ st[2].method = method.each[1] /\ st[2].source = Head(st[1].todo)[1]
  /\ FrameOK(st[2]) /\ Reading(st[2], 1, gone)
  /\ Apart(gone, FlattenSeq(Tail(st[1].todo)))

\* The stages of a call that is being executed.
Good(st, start, gone) ==
  \/ Reads(st, start, gone) \/ Calls(st, start, gone) \/ Lists(st, start, gone)
  \/ Asks(st, start, gone) \/ Follows(st, start, gone)

\* What is known of the method called, of the one it has list for it, and of the
\* one it calls for each item.
LEMMA GivenMethods ==
  ASSUME GivenOK
  PROVE  /\ method.of = <<>> => MethodFacts(method) /\ method.each = <<>> /\ Lister = method
         /\ method.of # <<>> => CallerFacts(method) /\ MethodFacts(Lister) /\ Lister \in Known
                                /\ Lister.of = <<>> /\ Lister.paging \in {"pages", "first"}
         /\ method.each # <<>> => /\ method.of # <<>> /\ MethodFacts(method.each[1])
                                  /\ method.each[1] \in Known /\ method.each[1].of = <<>>
                                  /\ method.each[1].paging \in {"pages", "first"}
                                  /\ method.each[1].found # "none"
                                  /\ "limit" \notin method.each[1].heeds
                                  /\ "limit" \notin Lister.heeds
<1>1. /\ method.of = <<>> => MethodFacts(method)
      /\ method.of # <<>> => /\ CallerFacts(method) /\ MethodFacts(method.of[1])
                             /\ method.of[1] \in Known
      /\ method.each # <<>> => /\ method.of # <<>> /\ MethodFacts(method.each[1])
                               /\ method.each[1] \in Known
  BY MethodsKnown DEF GivenOK
<1>2. method.of # <<>> => Lister = method.of[1]
  BY DEF Lister
<1>3. method.of = <<>> => Lister = method
  BY DEF Lister
<1> QED BY <1>1, <1>2, <1>3 DEF MethodFacts, CallerFacts

\* What belongs to the next item was not listed, and belongs to none after it.
LEMMA NextSource ==
  ASSUME NEW c, NEW start, NEW gone, Asked(c, start, gone), method.each # <<>>, c.todo # <<>>
  PROVE  LET x == Head(c.todo)[1] IN
         /\ x \in Items(<<>>) /\ x # <<>> /\ Items(x) \cap Items(<<>>) = {}
         /\ x \in ToSet(FlattenSeq(c.todo)) /\ x \notin ToSet(FlattenSeq(Tail(c.todo)))
<1> DEFINE x == Head(c.todo)[1]
<1>1. /\ x \in Items(<<>>) /\ x \notin ToSet(FlattenSeq(Tail(c.todo)))
      /\ ToSet(FlattenSeq(c.todo)) = {x} \cup ToSet(FlattenSeq(Tail(c.todo)))
  BY NextItem DEF Asked
<1>2. x # <<>>
  BY <1>1, ItemsIs
<1>3. Items(x) \cap Items(<<>>) = {}
  BY <1>2, ItemsApart
<1> QED BY <1>1, <1>2, <1>3

\* In each of the five stages the frame at the top is well formed, and if its method
\* reads pages itself it keeps what Reading says.
LEMMA GoodFrames ==
  ASSUME GivenOK, NEW st, NEW start \in DOMAIN layouts.items, NEW gone, Good(st, start, gone)
  PROVE  LET f == st[Len(st)] IN
         /\ Len(st) \in 1 .. 2 /\ DOMAIN st = 1 .. Len(st)
         /\ \A k \in DOMAIN st : FrameOK(st[k])
         /\ FrameOK(f)
         /\ f.method.of = <<>> =>
              \E p \in DOMAIN Pages(f.source) : Reading(f, p, gone)
         /\ f.method.paging = "input" => f.source = <<>>
         /\ f.method.of = <<>> \/ (f.method.paging = "call" /\ f.method.heeds = {} /\ Len(st) = 1)
<1>1. start \in DOMAIN Pages(<<>>)
  BY DEF Pages
<1>2. CASE Reads(st, start, gone)
  <2>1. Len(st) = 1 /\ DOMAIN st = 1 .. 1
    BY <1>2 DEF Reads
  <2> QED BY <2>1, <1>1, <1>2 DEF Reads
<1>3. CASE Calls(st, start, gone)
  <2>1. Len(st) = 1 /\ DOMAIN st = 1 .. 1 /\ st[1] = Frame(method, <<>>, start)
    BY <1>3 DEF Calls
  <2> DEFINE f == Frame(method, <<>>, start)
  <2>2. start \in Nat
    BY <1>1, PagesIs DEF GivenOK
  <2>3. /\ f \in [method : Known, source : {<<>>} \cup Items(<<>>), page : Nat,
            todo : Seq(Seq(Item)), got : Seq(Item), again : BOOLEAN]
        /\ f.page = start /\ f.source = <<>> /\ f.todo = <<>> /\ f.got = <<>> /\ f.again = FALSE
        /\ f.method = method
    BY <2>2, EmptySeq DEF Frame, GivenOK
  <2> HIDE DEF f
  <2>4. FrameOK(f)
    BY <2>3, <1>1, EmptySeq DEF FrameOK
  <2>5. method.of # <<>> /\ CallerFacts(method)
    BY <1>3, GivenMethods DEF Calls
  <2> QED BY <2>1, <2>3, <2>4, <2>5 DEF CallerFacts, f
<1>4. CASE Lists(st, start, gone)
  <2>1. Len(st) = 2 /\ DOMAIN st = 1 .. 2 /\ st[1] = Waiting(start)
    BY <1>4 DEF Lists
  <2>2. FrameOK(Waiting(start))
    BY WaitingIs
  <2>3. Lister.of = <<>>
    BY <1>4, GivenMethods DEF Lists
  <2>4. FrameOK(st[1]) /\ FrameOK(st[2]) /\ \A k \in 1 .. 2 : k = 1 \/ k = 2
    BY <1>4, <2>1, <2>2 DEF Lists
  <2> QED BY <2>1, <2>3, <2>4, <1>1, <1>4 DEF Lists
<1>5. CASE Asks(st, start, gone)
  <2>1. Len(st) = 1 /\ DOMAIN st = 1 .. 1
    BY <1>5 DEF Asks
  <2>2. CallerFacts(method)
    BY <1>5, GivenMethods DEF Asks
  <2> QED BY <2>1, <2>2, <1>5 DEF Asks, Asked, CallerFacts
<1>6. CASE Follows(st, start, gone)
  <2>1. Len(st) = 2 /\ DOMAIN st = 1 .. 2
    BY <1>6 DEF Follows
  <2>2. method.each[1].of = <<>> /\ method.each[1].paging \in {"pages", "first"}
    BY <1>6, GivenMethods DEF Follows
  <2>3. 1 \in DOMAIN Pages(st[2].source)
    BY OneIsAPage DEF GivenOK
  <2>4. FrameOK(st[1]) /\ FrameOK(st[2]) /\ \A k \in 1 .. 2 : k = 1 \/ k = 2
    BY <1>6 DEF Follows, Asked
  <2> QED BY <2>1, <2>2, <2>3, <2>4, <1>6 DEF Follows
<1> QED BY <1>2, <1>3, <1>4, <1>5, <1>6 DEF Good

\* A method that reads pages goes on.
LEMMA TopMoves ==
  ASSUME GivenOK, NEW st, NEW start \in DOMAIN layouts.items, NEW gone, Good(st, start, gone),
         st[Len(st)].method.of = <<>>,
         NEW g, FrameOK(g), g.method = st[Len(st)].method, g.source = st[Len(st)].source,
         NEW lost, lost \subseteq Items(g.source),
         \A p \in DOMAIN Pages(g.source) :
           Reading(st[Len(st)], p, gone) => Reading(g, p, gone \cup lost)
  PROVE  Good([st EXCEPT ![Len(st)] = g], start, gone \cup lost)
<1> DEFINE s2 == [st EXCEPT ![Len(st)] = g]
<1>1. start \in DOMAIN Pages(<<>>)
  BY DEF Pages
<1>2. CASE Reads(st, start, gone)
  <2>1. Len(st) = 1 /\ s2 = <<g>>
    BY <1>2 DEF Reads
  <2>2. g.method = method /\ g.source = <<>> /\ Reading(g, start, gone \cup lost)
    BY <1>1, <1>2, <2>1 DEF Reads
  <2> HIDE DEF s2
  <2>3. s2[1] = g /\ s2 = <<s2[1]>>
    BY <2>1
  <2>4. Reads(s2, start, gone \cup lost)
    BY <2>2, <2>3, <1>2 DEF Reads
  <2> QED BY <2>4 DEF Good, s2
<1>3. CASE Calls(st, start, gone) \/ Asks(st, start, gone)
  <2>1. CASE Calls(st, start, gone)
    BY <2>1 DEF Calls, Frame
  <2>2. CASE Asks(st, start, gone)
    <3>1. Len(st) = 1 /\ method.of # <<>> /\ st[1].method = method
      BY <2>2 DEF Asks, Asked
    <3> QED BY <3>1
  <2> QED BY <1>3, <2>1, <2>2
<1>4. CASE Lists(st, start, gone)
  <2>1. Len(st) = 2 /\ s2 = <<Waiting(start), g>>
    BY <1>4 DEF Lists
  <2>2. g.method = Lister /\ g.source = <<>> /\ Reading(g, start, gone \cup lost)
    BY <1>1, <1>4, <2>1 DEF Lists
  <2> HIDE DEF s2
  <2>3. s2[2] = g /\ s2 = <<Waiting(start), s2[2]>>
    BY <2>1
  <2>4. Lists(s2, start, gone \cup lost)
    BY <2>2, <2>3, <1>4 DEF Lists
  <2> QED BY <2>4 DEF Good, s2
<1>5. CASE Follows(st, start, gone)
  <2> DEFINE c == st[1]
             x == Head(c.todo)[1]
  <2>1. Len(st) = 2 /\ s2 = <<c, g>> /\ Asked(c, start, gone) /\ c.todo # <<>> /\ method.each # <<>>
    BY <1>5 DEF Follows
  <2>2. 1 \in DOMAIN Pages(x)
    BY OneIsAPage DEF GivenOK
  <2>3. g.method = method.each[1] /\ g.source = x /\ Reading(g, 1, gone \cup lost)
    BY <1>5, <2>1, <2>2 DEF Follows
  <2>4. /\ x \in Items(<<>>) /\ Items(x) \cap Items(<<>>) = {}
        /\ x \in ToSet(FlattenSeq(c.todo)) /\ x \notin ToSet(FlattenSeq(Tail(c.todo)))
    BY <2>1, NextSource
  <2>5. lost \cap Items(<<>>) = {} /\ \A y \in lost : y[1] = x
    BY <2>3, <2>4, ItemsIs
  <2>6. Asked(c, start, gone \cup lost)
    BY <2>1, <2>4, <2>5, AskedLoses
  <2>7. Apart(gone \cup lost, FlattenSeq(Tail(c.todo)))
    BY <1>5, <2>4, <2>5 DEF Follows, Apart
  <2> HIDE DEF s2
  <2>8. s2[1] = c /\ s2[2] = g /\ s2 = <<s2[1], s2[2]>>
    BY <2>1
  <2>9. Follows(s2, start, gone \cup lost)
    BY <2>1, <2>3, <2>6, <2>7, <2>8, <1>5 DEF Follows
  <2> QED BY <2>9 DEF Good, s2
<1> QED BY <1>2, <1>3, <1>4, <1>5 DEF Good

\* A method that asks about listed items goes on.
LEMMA AskMoves ==
  ASSUME GivenOK, NEW st, NEW start, NEW gone, Good(st, start, gone),
         st[Len(st)].method.of # <<>>, st[Len(st)].todo # <<>>, st[Len(st)].method.each = <<>>
  PROVE  /\ method.each = <<>> /\ method.of # <<>> /\ Asked(st[Len(st)], start, gone)
         /\ \A g, gone2 : Asked(g, start, gone2) =>
              Good([st EXCEPT ![Len(st)] = g], start, gone2)
<1>1. Asks(st, start, gone)
  <2>1. ~Reads(st, start, gone)
    BY DEF Reads
  <2>2. ~Calls(st, start, gone)
    BY DEF Calls, Frame
  <2>3. ~Lists(st, start, gone)
    BY GivenMethods DEF Lists
  <2>4. ~Follows(st, start, gone)
    BY GivenMethods DEF Follows
  <2> QED BY <2>1, <2>2, <2>3, <2>4 DEF Good
<1>2. Len(st) = 1 /\ Asked(st[1], start, gone) /\ method.of # <<>> /\ method.each = <<>>
  BY <1>1 DEF Asks, Asked
<1>3. ASSUME NEW g, NEW gone2, Asked(g, start, gone2)
      PROVE  Good([st EXCEPT ![Len(st)] = g], start, gone2)
  <2> DEFINE s2 == [st EXCEPT ![Len(st)] = g]
  <2>1. s2 = <<g>>
    BY <1>1, <1>2 DEF Asks
  <2> HIDE DEF s2
  <2>2. s2[1] = g /\ s2 = <<s2[1]>>
    BY <2>1
  <2>3. Asks(s2, start, gone2)
    BY <2>2, <1>2, <1>3 DEF Asks
  <2> QED BY <2>3 DEF Good, s2
<1> QED BY <1>2, <1>3

-----------------------------------------------------------------------------
(* What a step may do, and how methods return.                             *)

\* What a step of such a call may rely on.
Listening ==
  /\ GivenOK /\ from \in DOMAIN layouts.items /\ status = "listing"
  /\ Good(stack, from, skipped) /\ skipped \subseteq Item /\ result \in Seq(Item)

\* What a step of a call may do: go on, or end with what the properties ask for.
Outcome ==
  /\ skipped' \subseteq Item
  /\ \/ status' = "listing" /\ result' \in Seq(Item) /\ Good(stack', from, skipped')
     \/ /\ stack' = <<>> /\ status' \in {"nothing", "nil", "error", "panic"}
        /\ result' \in Seq(Item)
        /\ status' = "nil" /\ Lister.found # "none" => result' = DueFrom(from, skipped')
        /\ status' = "error" => IsPrefix(result', DueFrom(from, skipped'))

\* The fourth stage is one of the five.
LEMMA AsksGood ==
  ASSUME NEW g, NEW start, NEW gone, method.of # <<>>, Asked(g, start, gone),
         method.each # <<>> => Apart(gone, FlattenSeq(g.todo))
  PROVE  Good(<<g>>, start, gone)
<1> DEFINE st == <<g>>
<1>1. st[1] = g /\ st = <<st[1]>>
  OBVIOUS
<1> HIDE DEF st
<1>2. Asks(st, start, gone)
  BY <1>1 DEF Asks
<1> QED BY <1>2 DEF Good, st

\* Nothing belongs to nothing.
LEMMA BelongingNone ==
  ASSUME LayoutsOK, NEW X
  PROVE  Without(Belonging(<<>>), X) = <<>>
<1>1. BelongOK(<<>>)
  BY EmptySeq, BelongingIs
<1>2. Belonging(<<>>) \in Seq(Item) /\ ToSet(Belonging(<<>>)) = {}
  BY <1>1, SetOfEmpty DEF BelongOK
<1>3. Belonging(<<>>) = <<>>
  BY <1>2, SetOfSeq
<1> QED BY <1>3, WithoutEmpty

\* A method that has read and asked about everything returns without an error: the
\* call ends with all that is due, or its caller goes on.
LEMMA ReturnsNil ==
  ASSUME Listening, Top.page = None, Top.todo = <<>>, Return("nil", Cut(Top.method, Top.got))
  PROVE  Outcome
<1> DEFINE its == Cut(Top.method, Top.got)
<1> USE DEF Listening
<1>1. from \in DOMAIN Pages(<<>>) /\ from # None
  <2>1. from \in DOMAIN Pages(<<>>)
    BY DEF Pages
  <2>2. Len(Pages(<<>>)) \in Nat /\ DOMAIN Pages(<<>>) = 1 .. Len(Pages(<<>>))
    BY PagesIs DEF GivenOK
  <2> QED BY <2>1, <2>2 DEF None
<1>2. CASE Reads(stack, from, skipped)
  <2>1. Len(stack) = 1 /\ Top = stack[1]
    BY <1>2 DEF Reads, Top
  <2>2. /\ FrameOK(Top) /\ Reading(Top, from, skipped) /\ method.of = <<>>
        /\ Top.method = method /\ Top.source = <<>>
    BY <1>2, <2>1 DEF Reads
  <2>3. /\ its \in Seq(Items(<<>>))
        /\ method.found # "none" => its = Without(Cut(method, Held(method, <<>>, from)), skipped)
    BY <2>2, <1>1, ReadingEnds DEF GivenOK
  <2>4. Lister = method /\ method.each = <<>>
    BY <2>2, GivenMethods
  <2>5. Lister.found # "none" => its = DueFrom(from, skipped)
    BY <2>3, <2>4 DEF DueFrom, ListedFrom
  <2>6. its \in Seq(Item)
    BY <2>3, ItemsAreItems
  <2> HIDE DEF its
  <2>7. stack' = <<>> /\ status' = "nil" /\ result' = its /\ skipped' = skipped
    BY <2>1 DEF Return, EndCall, its
  <2> QED BY <2>5, <2>6, <2>7 DEF Outcome
<1>3. CASE Calls(stack, from, skipped)
  <2>1. Len(stack) = 1 /\ Top.page = from
    BY <1>3 DEF Calls, Frame, Top
  <2> QED BY <2>1, <1>1
<1>4. CASE Lists(stack, from, skipped)
  <2>1. /\ Len(stack) = 2 /\ Top = stack[2] /\ stack[1] = Waiting(from)
        /\ method.of # <<>> /\ skipped \subseteq Items(<<>>)
    <3>1. Len(stack) = 2 /\ stack[1] = Waiting(from)
      BY <1>4 DEF Lists
    <3> QED BY <3>1, <1>4 DEF Lists, Top
  <2>2. /\ FrameOK(Top) /\ Reading(Top, from, skipped) /\ Top.method.of = <<>>
        /\ Top.method = Lister /\ Top.source = <<>>
    BY <1>4, <2>1, GivenMethods DEF Lists
  <2>3. /\ its \in Seq(Items(<<>>))
        /\ Lister.found # "none" => its = ListedFrom(from, skipped)
    <3>1. /\ its \in Seq(Items(<<>>))
          /\ Lister.found # "none" => its = Without(Cut(Lister, Held(Lister, <<>>, from)), skipped)
      BY <2>2, <1>1, ReadingEnds DEF GivenOK
    <3> QED BY <3>1 DEF ListedFrom
  <2>4. Lister.found = "none" => its = <<>>
    <3>1. ASSUME Lister.found = "none" PROVE Top.got = <<>>
      BY <3>1, <2>2 DEF Reading
    <3>2. limit \in Nat
      BY ListingAssumption DEF GivenOK, LimitOK, None
    <3> QED BY <3>1, <3>2 DEF Cut
  <2> DEFINE g == Received(Waiting(from), its, None)
  <2> HIDE DEF its
  <2>5. Asked(g, from, skipped) /\ (method.each # <<>> => Apart(skipped, FlattenSeq(g.todo)))
    BY <2>1, <2>3, <2>4, AskedBegins
  <2>6. Good(<<g>>, from, skipped)
    <3> HIDE DEF g
    <3> QED BY <2>1, <2>5, AsksGood
  <2>7. Waiting(from).todo = <<>>
    BY WaitingIs
  <2>8. stack' = <<g>> /\ status' = status /\ result' = result /\ skipped' = skipped
    BY <2>1, <2>7 DEF Return, ReturnTo, its
  <2> HIDE DEF g
  <2> QED BY <2>6, <2>8 DEF Outcome
<1>5. CASE Asks(stack, from, skipped)
  <2>1. Len(stack) = 1 /\ Top = stack[1] /\ method.of # <<>> /\ Asked(Top, from, skipped)
    BY <1>5 DEF Asks, Top
  <2>2. Top.method = method /\ method.heeds = {} /\ Top.got \in Seq(Item)
    BY <2>1, GivenMethods DEF Asked, CallerFacts, FrameOK
  <2>3. its = Top.got
    BY <2>2 DEF Cut, Limiting
  <2>4. FlattenSeq(Top.todo) = <<>> /\ Top.got \o <<>> = Top.got
    BY <2>2, FlattenEmpty, ConcatEmptySeq
  <2>5. Lister.found # "none" => Top.got = DueFrom(from, skipped)
    <3>1. ASSUME Lister.found # "none", method.each = <<>> PROVE Top.got = DueFrom(from, skipped)
      BY <3>1, <2>1, <2>4 DEF Asked, DueFrom
    <3>2. ASSUME Lister.found # "none", method.each # <<>> PROVE Top.got = DueFrom(from, skipped)
      <4>1. Without(Belonging(<<>>), skipped) = <<>>
        BY BelongingNone DEF GivenOK
      <4> QED BY <3>2, <4>1, <2>1, <2>4 DEF Asked, DueFrom
    <3> QED BY <3>1, <3>2
  <2> HIDE DEF its
  <2>6. stack' = <<>> /\ status' = "nil" /\ result' = its /\ skipped' = skipped
    BY <2>1 DEF Return, EndCall, its
  <2> QED BY <2>2, <2>3, <2>5, <2>6 DEF Outcome
<1>6. CASE Follows(stack, from, skipped)
  <2> DEFINE c == stack[1]
             x == Head(c.todo)[1]
  <2>1. /\ Len(stack) = 2 /\ Top = stack[2] /\ method.of # <<>> /\ method.each # <<>>
        /\ Asked(c, from, skipped) /\ c.todo # <<>>
        /\ Apart(skipped, FlattenSeq(Tail(c.todo)))
    BY <1>6 DEF Follows, Top
  <2>2. /\ FrameOK(Top) /\ Reading(Top, 1, skipped) /\ Top.method.of = <<>>
        /\ Top.method = method.each[1] /\ Top.source = x
        /\ "limit" \notin Top.method.heeds /\ Top.method.found # "none"
    BY <1>6, <2>1, GivenMethods DEF Follows
  <2>3. its = Without(Held(method.each[1], x, 1), skipped)
    <3>1. its = Without(Cut(Top.method, Held(Top.method, Top.source, 1)), skipped)
      BY <2>2, OneIsAPage, ReadingEnds DEF GivenOK
    <3>2. Cut(Top.method, Held(Top.method, Top.source, 1)) = Held(Top.method, Top.source, 1)
      BY <2>2 DEF Cut, Limiting
    <3> QED BY <2>2, <3>1, <3>2
  <2> HIDE DEF its
  <2> DEFINE g == Taken(c, its)
  <2>4. Asked(g, from, skipped) /\ g.todo = Tail(c.todo)
    <3> HIDE DEF c
    <3> QED BY <2>1, <2>3, AskedTakes
  <2>5. stack' = <<g>> /\ status' = status /\ result' = result /\ skipped' = skipped
    BY <2>1 DEF Return, ReturnTo, its, Taken
  <2> HIDE DEF g
  <2>6. Good(<<g>>, from, skipped)
    BY <2>1, <2>4, AsksGood
  <2> QED BY <2>5, <2>6 DEF Outcome
<1> QED BY <1>2, <1>3, <1>4, <1>5, <1>6 DEF Good

\* A method gives up: the call ends with a beginning of what is due, or with nothing,
\* or its caller goes on without the rest.
LEMMA ReturnsError ==
  ASSUME Listening, Top.page # None \/ Top.todo # <<>>,
         Top.method.of = <<>> \/ (Top.todo # <<>> /\ Top.method.each = <<>>),
         NEW its \in {Top.got, <<>>}, Return("error", its)
  PROVE  Outcome
<1> USE DEF Listening
<1> DEFINE due == DueFrom(from, skipped)
<1>1. from \in DOMAIN Pages(<<>>)
  BY DEF Pages
<1>2. due \in Seq(Item)
  BY DueIs
<1>3. IsPrefix(<<>>, due)
  <2> HIDE DEF due
  <2> QED BY <1>2, EmptyPrefix
<1>4. CASE Reads(stack, from, skipped)
  <2>1. Len(stack) = 1 /\ Top = stack[1]
    BY <1>4 DEF Reads, Top
  <2>2. /\ FrameOK(Top) /\ Reading(Top, from, skipped) /\ method.of = <<>>
        /\ Top.method = method /\ Top.source = <<>>
    BY <1>4, <2>1 DEF Reads
  <2>3. Lister = method /\ method.each = <<>>
    BY <2>2, GivenMethods
  <2>4. Top.got \in Seq(Items(<<>>)) /\ IsPrefix(Top.got, due)
    BY <2>2, <2>3, <1>1, ReadingFails DEF GivenOK, DueFrom, ListedFrom
  <2>5. Top.got \in Seq(Item)
    BY <2>4, ItemsAreItems
  <2>6. stack' = <<>> /\ status' = "error" /\ result' = its /\ skipped' = skipped
    BY <2>1 DEF Return, EndCall
  <2> QED BY <2>4, <2>5, <2>6, <1>3, EmptySeq DEF Outcome
<1>5. CASE Calls(stack, from, skipped)
  <2>1. Len(stack) = 1 /\ Top.todo = <<>> /\ Top.method.of # <<>>
    BY <1>5 DEF Calls, Frame, Top
  <2> QED BY <2>1
<1>6. CASE Lists(stack, from, skipped)
  <2>1. Len(stack) = 2 /\ stack[1] = Waiting(from)
    BY <1>6 DEF Lists
  <2>2. Waiting(from).todo = <<>>
    BY WaitingIs
  <2>3. stack' = <<>> /\ status' = "error" /\ result' = <<>> /\ skipped' = skipped
    BY <2>1, <2>2 DEF Return, ReturnTo, EndCall
  <2> QED BY <2>3, <1>3, EmptySeq DEF Outcome
<1>7. CASE Asks(stack, from, skipped)
  <2>1. Len(stack) = 1 /\ Top = stack[1] /\ method.of # <<>> /\ Asked(Top, from, skipped)
    BY <1>7 DEF Asks, Top
  <2>2. Top.method = method /\ Top.page = None /\ Top.source = <<>> /\ FrameOK(Top)
    BY <2>1 DEF Asked
  <2>3. method.each = <<>> /\ Top.todo # <<>> /\ Lister.found # "none"
    BY <2>1, <2>2 DEF Asked
  <2>4. due = Top.got \o FlattenSeq(Top.todo)
    BY <2>1, <2>3 DEF Asked, DueFrom
  <2>5. Top.got \in Seq(Items(<<>>)) /\ FlattenSeq(Top.todo) \in Seq(Items(<<>>))
    BY <2>2, <2>3, FrameFacts DEF FrameOK
  <2>6. IsPrefix(Top.got, Top.got \o FlattenSeq(Top.todo))
    <3> DEFINE a == Top.got
               b == FlattenSeq(Top.todo)
               S == Items(<<>>)
    <3>1. a \in Seq(S) /\ b \in Seq(S)
      BY <2>5
    <3> HIDE DEF a, b, S
    <3>2. IsPrefix(a, a \o b)
      BY <3>1, PrefixOfConcat
    <3> QED BY <3>2 DEF a, b
  <2>7. Top.got \in Seq(Item)
    BY <2>5, ItemsAreItems
  <2>8. stack' = <<>> /\ status' = "error" /\ result' = its /\ skipped' = skipped
    BY <2>1 DEF Return, EndCall
  <2> QED BY <2>4, <2>6, <2>7, <2>8, <1>3, EmptySeq DEF Outcome
<1>8. CASE Follows(stack, from, skipped)
  <2> DEFINE c == stack[1]
             x == Head(c.todo)[1]
             taken == IF "error" = "nil" \/ c.method.failed = "part" THEN its ELSE <<>>
             X == ToSet(AllFrom(x, 1))
             lost == X \ ToSet(taken)
             w == Held(method.each[1], x, 1)
  <2>1. /\ Len(stack) = 2 /\ Top = stack[2] /\ method.of # <<>> /\ method.each # <<>>
        /\ Asked(c, from, skipped) /\ c.todo # <<>>
        /\ Apart(skipped, FlattenSeq(Tail(c.todo)))
    BY <1>8 DEF Follows, Top
  <2>2. /\ FrameOK(Top) /\ Reading(Top, 1, skipped) /\ Top.method.of = <<>>
        /\ Top.method = method.each[1] /\ Top.source = x
        /\ "limit" \notin Top.method.heeds /\ Top.method.found # "none"
    BY <1>8, <2>1, GivenMethods DEF Follows
  <2>3. taken \in {Top.got, <<>>}
    OBVIOUS
  <2>4. Without(w, skipped \cup lost) = taken
    <3>1. /\ Without(w, skipped \cup (X \ ToSet(Top.got))) = Top.got
          /\ Without(w, skipped \cup (X \ ToSet(<<>>))) = <<>>
      <4> DEFINE f == Top
      <4>1. 1 \in DOMAIN Pages(f.source)
        BY OneIsAPage DEF GivenOK
      <4>2. /\ FrameOK(f) /\ Reading(f, 1, skipped) /\ f.method.of = <<>>
            /\ f.method.found # "none" /\ ~Limiting(f.method)
        BY <2>2 DEF Limiting
      <4>3. /\ w = Held(f.method, f.source, 1) /\ X = ToSet(AllFrom(f.source, 1))
        BY <2>2
      <4> HIDE DEF f, w, X
      <4>4. LayoutsOK
        BY DEF GivenOK
      <4>5. /\ Without(w, skipped \cup (X \ ToSet(f.got))) = f.got
            /\ Without(w, skipped \cup (X \ ToSet(<<>>))) = <<>>
        BY <4>1, <4>2, <4>3, <4>4, ReadingSkips
      <4> QED BY <4>5 DEF f
    <3> HIDE DEF w, X, taken
    <3> QED BY <2>3, <3>1
  <2>5. /\ x \in Items(<<>>) /\ Items(x) \cap Items(<<>>) = {} /\ Items(x) \subseteq Item
        /\ x \in ToSet(FlattenSeq(c.todo)) /\ x \notin ToSet(FlattenSeq(Tail(c.todo)))
    BY <2>1, NextSource, ItemsOfItem
  <2>6. X \subseteq Items(x)
    <3>1. AllFrom(x, 1) \in Seq(Items(x))
      BY AllFromHolds, OneIsAPage DEF GivenOK
    <3> QED BY <3>1, SetOfSeq
  <2>7. /\ lost \subseteq Item /\ lost \cap Items(<<>>) = {} /\ \A y \in lost : y[1] = x
    <3>1. lost \subseteq Items(x)
      BY <2>6
    <3> HIDE DEF lost, x
    <3> QED BY <2>5, <3>1, ItemsIs
  <2> HIDE DEF lost
  <2>8. Asked(c, from, skipped \cup lost)
    BY <2>1, <2>5, <2>7, AskedLoses
  <2>9. Apart(skipped \cup lost, FlattenSeq(Tail(c.todo)))
    BY <2>1, <2>5, <2>7 DEF Apart
  <2> DEFINE g == Taken(c, taken)
  <2>10. Asked(g, from, skipped \cup lost) /\ g.todo = Tail(c.todo)
    <3> DEFINE gone == skipped \cup lost
    <3> HIDE DEF taken, c, gone
    <3>1. /\ Asked(c, from, gone) /\ Apart(gone, FlattenSeq(Tail(c.todo)))
          /\ taken = Without(Held(method.each[1], Head(c.todo)[1], 1), gone)
      BY <2>4, <2>8, <2>9 DEF gone
    <3>2. Asked(g, from, gone) /\ g.todo = Tail(c.todo)
      BY <2>1, <3>1, AskedTakes
    <3> QED BY <3>2 DEF gone
  <2>11. /\ stack' = <<g>> /\ status' = status /\ result' = result
         /\ skipped' = skipped \cup lost
    BY <2>1, <2>2 DEF Return, ReturnTo, lost, Taken
  <2> HIDE DEF g
  <2>12. Good(<<g>>, from, skipped \cup lost)
    BY <2>1, <2>9, <2>10, AsksGood
  <2> QED BY <2>7, <2>11, <2>12 DEF Outcome
<1> QED BY <1>4, <1>5, <1>6, <1>7, <1>8 DEF Good

-----------------------------------------------------------------------------
(* The inductive invariant.                                                *)

\* The types of all but the stack.
Settled ==
  /\ GivenOK /\ method \in Methods
  /\ {input, from} \subseteq DOMAIN layouts.items
  /\ status \in {"idle", "listing", "nothing", "nil", "error", "panic"}
  /\ result \in Seq(Item) /\ skipped \subseteq Item
  /\ failures \in 0 .. MaxFailures /\ calls \in 0 .. MaxCalls

\* What has been returned and what is ahead is what is due, in every stage; and the
\* result, once there is one, is what is due or a beginning of it.
IInv ==
  /\ Settled
  /\ IF status = "listing" THEN Good(stack, from, skipped) ELSE stack = <<>>
  /\ status = "nil" /\ Lister.found # "none" => result = DueFrom(from, skipped)
  /\ status = "error" => IsPrefix(result, DueFrom(from, skipped))

\* What is given does not change, and neither does what is said of it.
LEMMA SameGiven ==
  ASSUME given' = given
  PROVE  /\ method' = method /\ layouts' = layouts /\ limit' = limit
         /\ GivenOK' = GivenOK /\ Lister' = Lister /\ Item' = Item
         /\ \A st, start, gone : Good(st, start, gone)' = Good(st, start, gone)
         /\ \A start, gone : DueFrom(start, gone)' = DueFrom(start, gone)
<1>1. method' = method /\ layouts' = layouts /\ limit' = limit
  BY DEF given
<1>2. /\ \A s : Pages(s)' = Pages(s)
      /\ \A s : Items(s)' = Items(s)
      /\ \A s, p : AllFrom(s, p)' = AllFrom(s, p)
      /\ \A m, s, p : Held(m, s, p)' = Held(m, s, p)
      /\ \A s : Belonging(s)' = Belonging(s)
  BY <1>1 DEF Pages, Items, Page, AllFrom, Held, Belonging
<1>3. Item' = Item
  BY <1>2 DEF Item
<1>4. GivenOK' = GivenOK /\ Lister' = Lister
  BY <1>1 DEF GivenOK, LayoutsOK, LimitOK, Lister
<1>5. /\ \A m : Limiting(m)' = Limiting(m)
      /\ \A m, s : Cut(m, s)' = Cut(m, s)
  BY <1>1 DEF Limiting, Cut
<1>6. \A start, gone : ListedFrom(start, gone)' = ListedFrom(start, gone)
  BY <1>2, <1>4, <1>5 DEF ListedFrom
<1>7. \A start, gone : DueFrom(start, gone)' = DueFrom(start, gone)
  BY <1>1, <1>2, <1>6 DEF DueFrom
<1>8. \A f : FrameOK(f)' = FrameOK(f)
  BY <1>2, <1>3 DEF FrameOK
<1>9. \A f : Ahead(f)' = Ahead(f)
  BY <1>2 DEF Ahead
<1>10. \A f, p, gone : Reading(f, p, gone)' = Reading(f, p, gone)
  BY <1>1, <1>2, <1>5, <1>9, SMTT(20) DEF Reading
<1>11. \A c, start, gone : Asked(c, start, gone)' = Asked(c, start, gone)
  <2> TAKE c, start, gone
  <2>1. /\ FrameOK(c)' = FrameOK(c) /\ ListedFrom(start, gone)' = ListedFrom(start, gone)
        /\ Belonging(ListedFrom(start, gone))' = Belonging(ListedFrom(start, gone))
        /\ Belonging(FlattenSeq(c.todo))' = Belonging(FlattenSeq(c.todo))
    BY <1>2, <1>6, <1>8
  <2> QED BY <1>1, <1>4, <2>1 DEF Asked
<1>12. \A start : Waiting(start)' = Waiting(start)
  BY <1>1 DEF Waiting, Frame
<1>13. /\ \A st, start, gone : Reads(st, start, gone)' = Reads(st, start, gone)
       /\ \A st, start, gone : Calls(st, start, gone)' = Calls(st, start, gone)
       /\ \A st, start, gone : Asks(st, start, gone)' = Asks(st, start, gone)
  <2>1. \A st, start, gone : Reads(st, start, gone)' = Reads(st, start, gone)
    BY <1>1, <1>8, <1>10 DEF Reads
  <2>2. \A st, start, gone : Calls(st, start, gone)' = Calls(st, start, gone)
    BY <1>1 DEF Calls
  <2>3. \A st, start, gone : Asks(st, start, gone)' = Asks(st, start, gone)
    BY <1>1, <1>11 DEF Asks
  <2> QED BY <2>1, <2>2, <2>3
<1>14. \A st, start, gone : Lists(st, start, gone)' = Lists(st, start, gone)
  BY <1>1, <1>2, <1>4, <1>8, <1>10, <1>12 DEF Lists
<1>15. \A st, start, gone : Follows(st, start, gone)' = Follows(st, start, gone)
  BY <1>1, <1>8, <1>10, <1>11 DEF Follows
<1>16. \A st, start, gone : Good(st, start, gone)' = Good(st, start, gone)
  BY <1>13, <1>14, <1>15 DEF Good
<1> QED BY <1>1, <1>3, <1>4, <1>7, <1>16

\* A step with such an outcome keeps the invariant.
LEMMA OutcomeKeeps ==
  ASSUME IInv, Outcome, given' = given, from' = from, input' \in DOMAIN layouts.items,
         failures' \in 0 .. MaxFailures, calls' \in 0 .. MaxCalls
  PROVE  IInv'
<1>1. /\ method' = method /\ layouts' = layouts /\ GivenOK' = GivenOK
      /\ Lister' = Lister /\ Item' = Item
      /\ Good(stack, from, skipped)' = Good(stack', from', skipped')
      /\ DueFrom(from, skipped)' = DueFrom(from', skipped')
  BY SameGiven
<1>2. Settled'
  BY <1>1 DEF IInv, Settled, Outcome
<1>3. CASE status' = "listing"
  <2>1. Good(stack', from, skipped') /\ status' # "nil" /\ status' # "error"
    BY <1>3 DEF Outcome
  <2>2. Good(stack, from, skipped)'
    BY <2>1, <1>1
  <2> QED BY <2>1, <2>2, <1>2, <1>3 DEF IInv
<1>4. CASE status' # "listing"
  <2>1. /\ stack' = <<>>
        /\ status' = "nil" /\ Lister.found # "none" => result' = DueFrom(from, skipped')
        /\ status' = "error" => IsPrefix(result', DueFrom(from, skipped'))
    BY <1>4 DEF Outcome
  <2> QED BY <2>1, <1>1, <1>2, <1>4 DEF IInv
<1> QED BY <1>3, <1>4

\* What the invariant says while a call is being executed.
LEMMA Listens ==
  ASSUME IInv, status = "listing"
  PROVE  /\ Listening /\ FrameOK(Top) /\ Len(stack) \in 1 .. 2
         /\ Top.method.of = <<>> => \E p \in DOMAIN Pages(Top.source) : Reading(Top, p, skipped)
         /\ Top.method.paging = "input" => Top.source = <<>>
         /\ Top.method.of = <<>> =>
              MethodFacts(Top.method) /\ Top.method.each = <<>> /\ Top.method.paging # "call"
         /\ Top.method.of # <<>> =>
              Top.method.paging = "call" /\ Top.method.heeds = {} /\ Len(stack) = 1
<1>1. Listening
  BY DEF IInv, Settled, Listening
<1>2. /\ Len(stack) \in 1 .. 2 /\ FrameOK(Top)
      /\ Top.method.of = <<>> => \E p \in DOMAIN Pages(Top.source) : Reading(Top, p, skipped)
      /\ Top.method.paging = "input" => Top.source = <<>>
      /\ Top.method.of = <<>> \/
           (Top.method.paging = "call" /\ Top.method.heeds = {} /\ Len(stack) = 1)
  BY <1>1, GoodFrames DEF Listening, Top
<1>3. Top.method \in Known
  BY <1>2 DEF FrameOK
<1>4. Top.method.of = <<>> =>
        MethodFacts(Top.method) /\ Top.method.each = <<>> /\ Top.method.paging # "call"
  BY <1>3, MethodsKnown DEF MethodFacts
<1> QED BY <1>1, <1>2, <1>4

\* A method that reads pages replaces its frame.
LEMMA ReaderGoesOn ==
  ASSUME Listening, Top.method.of = <<>>,
         NEW g, FrameOK(g), g.method = Top.method, g.source = Top.source,
         NEW lost, lost \subseteq Items(Top.source),
         \A p \in DOMAIN Pages(Top.source) :
           Reading(Top, p, skipped) => Reading(g, p, skipped \cup lost),
         SetTop(g), skipped' = skipped \cup lost, status' = status, result' = result
  PROVE  Outcome
<1>1. Good([stack EXCEPT ![Len(stack)] = g], from, skipped \cup lost)
  BY TopMoves DEF Listening, Top
<1>2. lost \subseteq Item
  <2>1. FrameOK(Top)
    BY GoodFrames DEF Listening, Top
  <2>2. Top.source \in {<<>>} \cup Items(<<>>)
    BY <2>1 DEF FrameOK
  <2>3. Items(Top.source) \subseteq Item
    BY <2>2, ItemsAreItems
  <2> QED BY <2>3
<1> QED BY <1>1, <1>2 DEF Outcome, SetTop, Listening

\* A method that asks about listed items replaces its frame.
LEMMA AskerGoesOn ==
  ASSUME Listening, Top.method.of # <<>>, Top.todo # <<>>, Top.method.each = <<>>,
         NEW g, NEW lost, lost \subseteq Item,
         Asked(Top, from, skipped) => Asked(g, from, skipped \cup lost),
         SetTop(g), skipped' = skipped \cup lost, status' = status, result' = result
  PROVE  Outcome
<1>1. /\ Asked(Top, from, skipped)
      /\ \A h, gone : Asked(h, from, gone) =>
           Good([stack EXCEPT ![Len(stack)] = h], from, gone)
  BY AskMoves DEF Listening, Top
<1>2. Good([stack EXCEPT ![Len(stack)] = g], from, skipped \cup lost)
  BY <1>1
<1> QED BY <1>2 DEF Outcome, SetTop, Listening

-----------------------------------------------------------------------------
(* One lemma for each action: pages, and requests about items.             *)

\* The count of failures keeps its bound.
LEMMA OneMoreFailure ==
  ASSUME IInv, failures < MaxFailures
  PROVE  failures + 1 \in 0 .. MaxFailures
<1>1. failures \in 0 .. MaxFailures /\ MaxFailures \in Nat
  BY ListingAssumption DEF IInv, Settled
<1> QED BY <1>1

\* A method that calls others is at the top before the list is read and after it.
LEMMA StageOfCaller ==
  ASSUME Listening, Top.method.of # <<>>
  PROVE  Calls(stack, from, skipped) \/ Asks(stack, from, skipped)
<1> USE DEF Listening
<1>1. ~Reads(stack, from, skipped)
  <2>1. Reads(stack, from, skipped) => Len(stack) = 1
    BY DEF Reads
  <2> QED BY <2>1 DEF Reads, Top
<1>2. ~Lists(stack, from, skipped)
  <2>1. Lists(stack, from, skipped) => Len(stack) = 2
    BY DEF Lists
  <2> QED BY <2>1, GivenMethods DEF Lists, Top
<1>3. ~Follows(stack, from, skipped)
  <2>1. Follows(stack, from, skipped) => Len(stack) = 2
    BY DEF Follows
  <2> QED BY <2>1, GivenMethods DEF Follows, Top
<1> QED BY <1>1, <1>2, <1>3 DEF Good

\* A page is received.
LEMMA NextPageStep ==
  ASSUME IInv, NextPage
  PROVE  IInv'
<1> DEFINE f == Top
           g == Turned(f)
<1>1. status = "listing" /\ f.page # None /\ f.todo = <<>>
      /\ f.method.paging \in {"pages", "input", "first", "whole"}
  BY DEF NextPage
<1>2. /\ Listening /\ FrameOK(f) /\ f.method.of = <<>>
      /\ f.method.paging = "input" => f.source = <<>>
  BY <1>1, Listens
<1>3. /\ SetTop(g) /\ status' = status /\ result' = result /\ skipped' = skipped
      /\ given' = given /\ from' = from /\ failures' = failures /\ calls' = calls
      /\ input' = IF f.method.paging = "input" THEN f.page ELSE input
  BY DEF NextPage, Turned, PageItems, LastPage
<1>4. LayoutsOK /\ LimitOK
  BY <1>2 DEF Listening, GivenOK
<1> HIDE DEF f
<1>5. ASSUME NEW p \in DOMAIN Pages(f.source), Reading(f, p, skipped)
      PROVE  Reading(g, p, skipped)
  BY <1>1, <1>2, <1>4, <1>5, ReadingPage
<1>6. \E p \in DOMAIN Pages(f.source) : Reading(f, p, skipped)
  BY <1>1, <1>2, Listens DEF f
<1>7. FrameOK(g) /\ g.method = f.method /\ g.source = f.source
  BY <1>1, <1>2, <1>4, <1>6, ReadingPage
<1> DEFINE lost == {}
<1>8. skipped \cup lost = skipped /\ lost \subseteq Items(f.source)
  OBVIOUS
<1> HIDE DEF g, lost
<1>9. Outcome
  <2>1. \A p \in DOMAIN Pages(f.source) : Reading(f, p, skipped) => Reading(g, p, skipped \cup lost)
    BY <1>5, <1>8
  <2> QED BY <1>2, <1>3, <1>7, <1>8, <2>1, ReaderGoesOn DEF f
<1>10. input' \in DOMAIN layouts.items
  <2>1. f.page \in DOMAIN Pages(f.source)
    BY <1>1, <1>2 DEF FrameOK
  <2>2. f.method.paging = "input" => f.page \in DOMAIN layouts.items
    BY <1>2, <2>1 DEF Pages
  <2> QED BY <1>3, <2>2 DEF IInv, Settled
<1> QED BY <1>3, <1>9, <1>10, OutcomeKeeps DEF IInv, Settled

\* What a request about the items at the head of those to be asked about does.
LEMMA AnsweredGoesOn ==
  ASSUME Listening, Top.todo # <<>>, Top.method.each = <<>>, Top.method.found # "none",
         NEW lost, lost \subseteq ToSet(Head(Top.todo)),
         SetTop(Answered(Top, Without(Head(Top.todo), lost))),
         skipped' = skipped \cup lost, status' = status, result' = result
  PROVE  Outcome
<1> DEFINE f == Top
           g == Answered(f, Without(Head(f.todo), lost))
<1>1. FrameOK(f) /\ LayoutsOK
  BY GoodFrames DEF Listening, Top, GivenOK
<1>2. lost \subseteq Items(f.source)
  <2>1. Head(f.todo) \in Seq(Items(f.source))
    BY <1>1, FrameFacts
  <2> QED BY <2>1, SetOfSeq
<1>3. lost \subseteq Item
  <2>1. Items(f.source) \subseteq Item
    BY <1>1, ItemsAreItems DEF FrameOK
  <2> QED BY <1>2, <2>1
<1>4. CASE f.method.of = <<>>
  <2>0. \E p \in DOMAIN Pages(f.source) : Reading(f, p, skipped)
    BY <1>4, GoodFrames DEF Listening, Top
  <2> HIDE DEF f
  <2>1. f.todo # <<>> /\ f.method.found # "none" /\ lost \subseteq ToSet(Head(f.todo))
    BY DEF f
  <2>2. ASSUME NEW p \in DOMAIN Pages(f.source), Reading(f, p, skipped)
        PROVE  /\ FrameOK(g) /\ Reading(g, p, skipped \cup lost)
               /\ g.method = f.method /\ g.source = f.source
    BY <1>1, <1>4, <2>1, <2>2, ReadingAsked
  <2>3. FrameOK(g) /\ g.method = f.method /\ g.source = f.source
    BY <2>0, <2>2
  <2>4. SetTop(g)
    BY DEF f
  <2> HIDE DEF g
  <2> QED BY <1>2, <1>4, <2>2, <2>3, <2>4, ReaderGoesOn DEF f
<1>5. CASE f.method.of # <<>>
  <2>1. method.each = <<>>
    BY <1>5, AskMoves DEF Listening, Top
  <2> HIDE DEF f
  <2>2. f.todo # <<>> /\ lost \subseteq ToSet(Head(f.todo))
    BY DEF f
  <2>3. Asked(f, from, skipped) => Asked(g, from, skipped \cup lost)
    BY <2>1, <2>2, AskedAnswers DEF Listening
  <2>4. SetTop(g)
    BY DEF f
  <2> HIDE DEF g
  <2> QED BY <1>3, <1>5, <2>3, <2>4, AskerGoesOn DEF f
<1> QED BY <1>4, <1>5

\* A request about items of a method that returns none of them.
LEMMA NoneGoesOn ==
  ASSUME Listening, Top.todo # <<>>, Top.method.each = <<>>, Top.method.found = "none",
         SetTop(Answered(Top, <<>>)),
         NEW lost, lost \subseteq ToSet(Head(Top.todo)),
         skipped' = skipped \cup lost, status' = status, result' = result
  PROVE  Outcome
<1> DEFINE f == Top
           g == Answered(f, <<>>)
<1>1. FrameOK(f) /\ LayoutsOK
  BY GoodFrames DEF Listening, Top, GivenOK
<1>2. lost \subseteq Items(f.source)
  <2>1. Head(f.todo) \in Seq(Items(f.source))
    BY <1>1, FrameFacts
  <2> QED BY <2>1, SetOfSeq
<1>3. f.method.of = <<>>
  <2>1. f.method \in Known
    BY <1>1 DEF FrameOK
  <2> QED BY <2>1, MethodsKnown DEF CallerFacts
<1>4. \E p \in DOMAIN Pages(f.source) : Reading(f, p, skipped)
  BY <1>3, GoodFrames DEF Listening, Top
<1>5. SetTop(g) /\ f.todo # <<>> /\ f.method.found = "none"
  OBVIOUS
<1> HIDE DEF f
<1>6. ASSUME NEW p, Reading(f, p, skipped)
      PROVE  /\ FrameOK(g) /\ Reading(g, p, skipped \cup lost)
             /\ g.method = f.method /\ g.source = f.source
  BY <1>1, <1>3, <1>5, <1>6, ReadingNone
<1>7. FrameOK(g) /\ g.method = f.method /\ g.source = f.source
  BY <1>4, <1>6
<1> HIDE DEF g
<1> QED BY <1>2, <1>3, <1>5, <1>6, <1>7, ReaderGoesOn DEF f

\* A request about items is answered.
LEMMA DescribeStep ==
  ASSUME IInv, Describe
  PROVE  IInv'
<1>1. status = "listing" /\ Top.todo # <<>> /\ Top.method.each = <<>>
  BY DEF Describe, Asking
<1>2. Listening
  BY <1>1, Listens
<1>3. /\ status' = status /\ result' = result /\ given' = given /\ from' = from
      /\ input' = input /\ failures' = failures /\ calls' = calls
  BY DEF Describe
<1>4. PICK lost \in SUBSET ToSet(Head(Top.todo)) :
        /\ SetTop(Answered(Top, IF Top.method.found = "none" THEN <<>>
                                ELSE Without(Head(Top.todo), lost)))
        /\ skipped' = skipped \cup lost
  BY DEF Describe
<1>5. ASSUME Top.method.found = "none" PROVE Outcome
  BY <1>1, <1>2, <1>3, <1>4, <1>5, NoneGoesOn
<1>6. ASSUME Top.method.found # "none" PROVE Outcome
  BY <1>1, <1>2, <1>3, <1>4, <1>6, AnsweredGoesOn
<1> QED BY <1>3, <1>5, <1>6, OutcomeKeeps DEF IInv, Settled

\* A request about items fails and the method goes on.
LEMMA DescribeFailsStep ==
  ASSUME IInv, DescribeFails
  PROVE  IInv'
<1>1. status = "listing" /\ Top.todo # <<>> /\ Top.method.each = <<>>
  BY DEF DescribeFails, Asking
<1>2. Listening /\ FrameOK(Top)
  BY <1>1, Listens
<1>3. /\ status' = status /\ result' = result /\ given' = given /\ from' = from
      /\ input' = input /\ failures' = failures + 1 /\ calls' = calls /\ failures < MaxFailures
  BY DEF DescribeFails
<1>4. Head(Top.todo) \in Seq(Items(Top.source))
  BY <1>1, <1>2, FrameFacts
<1>5. Top.method.failed \in {"keep", "skip", "again"} => Top.method.found # "none"
  <2>1. Top.method \in Known
    BY <1>2 DEF FrameOK
  <2>2. Top.method.of = <<>> => MethodFacts(Top.method)
    BY <2>1, MethodsKnown
  <2>3. Top.method.of # <<>> => CallerFacts(Top.method)
    BY <2>1, MethodsKnown
  <2> QED BY <2>2, <2>3 DEF MethodFacts, CallerFacts
<1> DEFINE h == Head(Top.todo)
<1>6. Without(h, {}) = h /\ Without(h, ToSet(h)) = <<>>
  <2>1. h \in Seq(Items(Top.source))
    BY <1>4
  <2> HIDE DEF h
  <2>2. Without(h, {}) = h
    BY <2>1, WithoutNone
  <2>3. Without(h, ToSet(h)) = <<>>
    BY <2>1, WithoutAll
  <2> QED BY <2>2, <2>3
<1>7. ASSUME Top.method.failed = "keep", SetTop(Answered(Top, h)), skipped' = skipped
      PROVE  Outcome
  <2> DEFINE lost == {}
  <2>1. /\ lost \subseteq ToSet(h) /\ SetTop(Answered(Top, Without(h, lost)))
        /\ skipped' = skipped \cup lost
    BY <1>6, <1>7
  <2> HIDE DEF lost
  <2> QED BY <1>1, <1>2, <1>3, <1>5, <1>7, <2>1, AnsweredGoesOn
<1>8. ASSUME Top.method.failed \in {"skip", "again"}, SetTop(Answered(Top, <<>>)),
             skipped' = skipped \cup ToSet(h)
      PROVE  Outcome
  <2> DEFINE lost == ToSet(h)
  <2>1. /\ lost \subseteq ToSet(h) /\ SetTop(Answered(Top, Without(h, lost)))
        /\ skipped' = skipped \cup lost
    BY <1>6, <1>8
  <2> HIDE DEF lost
  <2> QED BY <1>1, <1>2, <1>3, <1>5, <1>8, <2>1, AnsweredGoesOn
<1>9. Outcome
  BY <1>7, <1>8 DEF DescribeFails
<1>10. failures' \in 0 .. MaxFailures
  BY <1>3, OneMoreFailure
<1>11. input' \in DOMAIN layouts.items /\ calls' \in 0 .. MaxCalls
  BY <1>3 DEF IInv, Settled
<1> QED BY <1>3, <1>9, <1>10, <1>11, OutcomeKeeps

\* A request about items fails and is made once more.
LEMMA AskAgainStep ==
  ASSUME IInv, AskAgain
  PROVE  IInv'
<1> DEFINE f == Top
           g == [f EXCEPT !.again = TRUE]
           lost == {}
<1>1. status = "listing" /\ f.todo # <<>> /\ f.method.each = <<>>
  BY DEF AskAgain, Asking
<1>2. Listening /\ FrameOK(f)
  BY <1>1, Listens
<1>3. /\ status' = status /\ result' = result /\ given' = given /\ from' = from
      /\ input' = input /\ failures' = failures + 1 /\ calls' = calls /\ failures < MaxFailures
      /\ skipped' = skipped /\ SetTop(g)
  BY DEF AskAgain
<1> HIDE DEF f
<1>4. /\ FrameOK(g) /\ g.method = f.method /\ g.source = f.source
      /\ \A p, gone : Reading(f, p, gone) => Reading(g, p, gone)
  BY <1>1, <1>2, ReadingAgain
<1>5. skipped \cup lost = skipped /\ lost \subseteq Items(f.source) /\ lost \subseteq Item
  OBVIOUS
<1>6. f.method.of # <<>> => (Asked(f, from, skipped) => Asked(g, from, skipped))
  <2>1. f.method.of # <<>> => method.each = <<>>
    BY <1>1, <1>2, AskMoves DEF Listening, Top, f
  <2> QED BY <1>1, <2>1, AskedAgain
<1> HIDE DEF g, lost
<1>9. failures' \in 0 .. MaxFailures
  BY <1>3, OneMoreFailure
<1>10. input' \in DOMAIN layouts.items /\ calls' \in 0 .. MaxCalls
  BY <1>3 DEF IInv, Settled
<1>7. CASE f.method.of = <<>>
  <2>1. \A p \in DOMAIN Pages(f.source) : Reading(f, p, skipped) => Reading(g, p, skipped \cup lost)
    BY <1>4, <1>5
  <2>2. Outcome
    BY <1>2, <1>3, <1>4, <1>5, <1>7, <2>1, ReaderGoesOn DEF f
  <2> QED BY <1>3, <1>9, <1>10, <2>2, OutcomeKeeps
<1>8. CASE f.method.of # <<>>
  <2>1. Outcome
    BY <1>1, <1>2, <1>3, <1>5, <1>6, <1>8, AskerGoesOn DEF f
  <2> QED BY <1>3, <1>9, <1>10, <2>1, OutcomeKeeps
<1> QED BY <1>7, <1>8

-----------------------------------------------------------------------------
(* The other actions, and the theorems.                                    *)

\* The request for a page fails.
LEMMA PageFailsStep ==
  ASSUME IInv, PageFails
  PROVE  IInv'
<1> DEFINE its == IF Top.method.onError = "part" THEN Top.got ELSE <<>>
<1>1. /\ status = "listing" /\ Top.page # None /\ Top.method.paging # "call"
      /\ Return("error", its) /\ given' = given /\ from' = from /\ calls' = calls
      /\ failures < MaxFailures /\ failures' = failures + 1
      /\ input' = IF Top.method.paging = "input" THEN Top.page ELSE input
  BY DEF PageFails
<1>2. /\ Listening /\ FrameOK(Top) /\ Top.method.of = <<>>
      /\ Top.method.paging = "input" => Top.source = <<>>
  BY <1>1, Listens
<1>3. its \in {Top.got, <<>>}
  OBVIOUS
<1> HIDE DEF its
<1>4. Outcome
  BY <1>1, <1>2, <1>3, ReturnsError
<1>5. failures' \in 0 .. MaxFailures
  BY <1>1, OneMoreFailure
<1>6. input' \in DOMAIN layouts.items
  <2>1. Top.page \in DOMAIN Pages(Top.source)
    BY <1>1, <1>2 DEF FrameOK
  <2>2. Top.method.paging = "input" => Top.page \in DOMAIN layouts.items
    BY <1>2, <2>1 DEF Pages
  <2> QED BY <1>1, <2>2 DEF IInv, Settled
<1>7. calls' \in 0 .. MaxCalls
  BY <1>1 DEF IInv, Settled
<1> QED BY <1>1, <1>4, <1>5, <1>6, <1>7, OutcomeKeeps

\* The context is found cancelled.
LEMMA SeeCancelledStep ==
  ASSUME IInv, SeeCancelled
  PROVE  IInv'
<1>1. /\ status = "listing" /\ Top.page # None /\ "context" \in Top.method.heeds
      /\ Return("error", Top.got) /\ given' = given /\ from' = from /\ input' = input
      /\ calls' = calls /\ failures < MaxFailures /\ failures' = failures + 1
  BY DEF SeeCancelled
<1>2. Listening /\ Top.method.of = <<>>
  BY <1>1, Listens
<1>3. Outcome
  BY <1>1, <1>2, ReturnsError
<1>4. failures' \in 0 .. MaxFailures
  BY <1>1, OneMoreFailure
<1>5. input' \in DOMAIN layouts.items /\ calls' \in 0 .. MaxCalls
  BY <1>1 DEF IInv, Settled
<1> QED BY <1>1, <1>3, <1>4, <1>5, OutcomeKeeps

\* A request about items fails and the method gives up.
LEMMA FailStep ==
  ASSUME IInv, Fail
  PROVE  IInv'
<1> DEFINE its == IF Top.method.failed = "part" THEN Top.got ELSE <<>>
<1>1. /\ status = "listing" /\ Top.todo # <<>> /\ Top.method.each = <<>>
      /\ Return("error", its) /\ given' = given /\ from' = from /\ input' = input
      /\ calls' = calls /\ failures < MaxFailures /\ failures' = failures + 1
  BY DEF Fail, Asking
<1>2. Listening
  BY <1>1, Listens
<1>3. its \in {Top.got, <<>>}
  OBVIOUS
<1> HIDE DEF its
<1>4. Outcome
  BY <1>1, <1>2, <1>3, ReturnsError
<1>5. failures' \in 0 .. MaxFailures
  BY <1>1, OneMoreFailure
<1>6. input' \in DOMAIN layouts.items /\ calls' \in 0 .. MaxCalls
  BY <1>1 DEF IInv, Settled
<1> QED BY <1>1, <1>4, <1>5, <1>6, OutcomeKeeps

\* A request about items fails and its answer is dereferenced.
LEMMA PanicStep ==
  ASSUME IInv, Panic
  PROVE  IInv'
<1>1. /\ status' = "panic" /\ stack' = <<>> /\ result' = result /\ skipped' = skipped
      /\ given' = given /\ from' = from /\ input' = input
      /\ calls' = calls /\ failures < MaxFailures /\ failures' = failures + 1
  BY DEF Panic
<1>2. Outcome
  BY <1>1 DEF Outcome, IInv, Settled
<1>3. failures' \in 0 .. MaxFailures
  BY <1>1, OneMoreFailure
<1>4. input' \in DOMAIN layouts.items /\ calls' \in 0 .. MaxCalls
  BY <1>1 DEF IInv, Settled
<1> QED BY <1>1, <1>2, <1>3, <1>4, OutcomeKeeps

\* There is no input to ask AWS with.
LEMMA AnswerNothingStep ==
  ASSUME IInv, AnswerNothing
  PROVE  IInv'
<1>1. /\ status' = "nothing" /\ stack' = <<>> /\ result' = result /\ skipped' = skipped
      /\ given' = given /\ from' = from /\ input' = input
      /\ calls' = calls /\ failures' = failures
  BY DEF AnswerNothing
<1>2. Outcome
  BY <1>1 DEF Outcome, IInv, Settled
<1> QED BY <1>1, <1>2, OutcomeKeeps DEF IInv, Settled

\* A method returns without an error.
LEMMA EndStep ==
  ASSUME IInv, End
  PROVE  IInv'
<1>1. /\ status = "listing" /\ Top.page = None /\ Top.todo = <<>>
      /\ Return("nil", Cut(Top.method, Top.got)) /\ given' = given /\ from' = from
      /\ input' = input /\ calls' = calls /\ failures' = failures
  BY DEF End, Cut, Limiting
<1>2. Listening
  BY <1>1, Listens
<1>3. Outcome
  BY <1>1, <1>2, ReturnsNil
<1> QED BY <1>1, <1>3, OutcomeKeeps DEF IInv, Settled

\* The method that lists is called.
LEMMA ListGood ==
  ASSUME GivenOK, method.of # <<>>, NEW start \in DOMAIN layouts.items
  PROVE  Good(<<Waiting(start), Frame(Lister, <<>>, start)>>, start, {})
<1> DEFINE st == <<Waiting(start), Frame(Lister, <<>>, start)>>
<1>1. Lister \in Known /\ Lister.of = <<>>
  BY GivenMethods
<1>2. start \in DOMAIN Pages(<<>>)
  BY DEF Pages
<1>3. FrameOK(Frame(Lister, <<>>, start)) /\ Reading(Frame(Lister, <<>>, start), start, {})
  BY <1>1, <1>2, ReadingBegins DEF GivenOK
<1>4. /\ st[2].method = Lister /\ st[2].source = <<>> /\ st[2] = Frame(Lister, <<>>, start)
      /\ st = <<Waiting(start), st[2]>>
  BY DEF Frame
<1> HIDE DEF st
<1>5. Lists(st, start, {})
  BY <1>3, <1>4 DEF Lists
<1> QED BY <1>5 DEF Good, st

\* The method that lists what belongs to the next item is called.
LEMMA FollowGood ==
  ASSUME GivenOK, NEW start, NEW gone, NEW c, Asked(c, start, gone),
         method.each # <<>>, c.todo # <<>>, Apart(gone, FlattenSeq(c.todo))
  PROVE  Good(<<c, Frame(method.each[1], Head(c.todo)[1], 1)>>, start, gone)
<1> DEFINE x == Head(c.todo)[1]
           m == method.each[1]
           f == Frame(m, x, 1)
           st == <<c, f>>
<1>1. m \in Known /\ m.of = <<>> /\ "limit" \notin m.heeds /\ method.of # <<>>
  BY GivenMethods
<1>2. /\ x \in Items(<<>>) /\ x \in ToSet(FlattenSeq(c.todo))
  BY NextSource
<1>3. ToSet(FlattenSeq(Tail(c.todo))) \subseteq ToSet(FlattenSeq(c.todo))
  BY NextItem DEF Asked
<1>4. Items(x) \cap gone = {}
  <2>1. \A y \in Items(x) : y[1] = x
    BY ItemsIs
  <2>2. \A y \in gone : y[1] # x
    BY <1>2 DEF Apart
  <2> HIDE DEF x
  <2> QED BY <2>1, <2>2
<1>5. 1 \in DOMAIN Pages(x)
  BY OneIsAPage DEF GivenOK
<1>6. f.method = m /\ f.source = x
  BY DEF Frame
<1>7. FrameOK(f) /\ Reading(f, 1, gone)
  <2> HIDE DEF m, x
  <2> QED BY <1>1, <1>2, <1>4, <1>5, ReadingBegins DEF GivenOK
<1> HIDE DEF f
<1>8. st[1] = c /\ st[2] = f /\ st = <<st[1], st[2]>>
  OBVIOUS
<1>9. Apart(gone, FlattenSeq(Tail(c.todo)))
  BY <1>3 DEF Apart
<1> HIDE DEF st
<1>10. Follows(st, start, gone)
  BY <1>1, <1>6, <1>7, <1>8, <1>9 DEF Follows
<1> QED BY <1>10 DEF Good, st, f

\* Another method is called.
LEMMA CallMethodStep ==
  ASSUME IInv, CallMethod
  PROVE  IInv'
<1>1. /\ status = "listing" /\ given' = given /\ input' = input /\ from' = from
      /\ status' = status /\ result' = result /\ skipped' = skipped
      /\ failures' = failures /\ calls' = calls
  BY DEF CallMethod
<1>2. Listening
  BY <1>1, Listens
<1>3. ASSUME Top.page # None, Top.method.paging = "call",
             stack' = <<[Top EXCEPT !.page = None],
                        Frame(Top.method.of[1], <<>>, Top.page)>>
      PROVE  Good(stack', from, skipped')
  <2>1. Top.method.of # <<>>
    BY <1>1, <1>3, Listens
  <2>2. ~Asks(stack, from, skipped)
    <3>1. Asks(stack, from, skipped) => Len(stack) = 1
      BY DEF Asks
    <3> QED BY <1>3, <3>1 DEF Asks, Asked, Top
  <2>3. Calls(stack, from, skipped)
    BY <1>2, <2>1, <2>2, StageOfCaller
  <2>4. Top = Frame(method, <<>>, from) /\ method.of # <<>> /\ skipped = {}
    BY <2>3 DEF Calls, Top
  <2>5. Lister = method.of[1] /\ Top.page = from /\ Top.method = method
    BY <2>4 DEF Lister, Frame
  <2>6. stack' = <<Waiting(from), Frame(Lister, <<>>, from)>>
    BY <1>3, <2>4, <2>5 DEF Waiting
  <2> QED BY <1>1, <1>2, <2>4, <2>6, ListGood DEF Listening
<1>4. ASSUME Top.todo # <<>>, Top.method.each # <<>>,
             stack' = <<Top, Frame(Top.method.each[1], Head(Top.todo)[1], 1)>>
      PROVE  Good(stack', from, skipped')
  <2>1. Top.method.of # <<>>
    BY <1>1, <1>4, Listens
  <2>2. ~Calls(stack, from, skipped)
    <3>1. Calls(stack, from, skipped) => Top = Frame(method, <<>>, from)
      BY DEF Calls, Top
    <3> QED BY <1>4, <3>1 DEF Frame
  <2>3. Asks(stack, from, skipped)
    BY <1>2, <2>1, <2>2, StageOfCaller
  <2>4. Top = stack[1]
    BY <2>3 DEF Asks, Top
  <2>5. Asked(Top, from, skipped) /\ Top.method = method
    BY <2>3, <2>4 DEF Asks, Asked
  <2>6. method.each # <<>> /\ Apart(skipped, FlattenSeq(Top.todo))
    BY <1>4, <2>3, <2>4, <2>5 DEF Asks
  <2>7. Good(<<Top, Frame(method.each[1], Head(Top.todo)[1], 1)>>, from, skipped)
    <3> DEFINE c == Top
    <3>1. Asked(c, from, skipped) /\ c.todo # <<>> /\ Apart(skipped, FlattenSeq(c.todo))
      BY <1>4, <2>5, <2>6
    <3> HIDE DEF c
    <3>2. Good(<<c, Frame(method.each[1], Head(c.todo)[1], 1)>>, from, skipped)
      BY <1>2, <2>6, <3>1, FollowGood DEF Listening
    <3> QED BY <3>2 DEF c
  <2> QED BY <1>1, <1>4, <2>5, <2>7
<1>5. Good(stack', from, skipped')
  BY <1>3, <1>4 DEF CallMethod
<1>6. Outcome
  BY <1>1, <1>5 DEF Outcome, IInv, Settled
<1> QED BY <1>1, <1>6, OutcomeKeeps DEF IInv, Settled

\* The caller calls, again perhaps, with what its input says by now.
LEMMA BeginStep ==
  ASSUME IInv, Begin
  PROVE  IInv'
<1>1. /\ calls < MaxCalls /\ calls' = calls + 1 /\ from' = input /\ skipped' = {}
      /\ result' = <<>> /\ status' = "listing" /\ stack' = <<Frame(method, <<>>, input)>>
      /\ given' = given /\ input' = input /\ failures' = failures
  BY DEF Begin
<1>2. GivenOK /\ input \in DOMAIN layouts.items
  BY DEF IInv, Settled
<1> DEFINE f == Frame(method, <<>>, input)
           st == <<f>>
<1>3. Good(st, input, {})
  <2>1. CASE method.of = <<>>
    <3>1. input \in DOMAIN Pages(<<>>)
      BY <1>2 DEF Pages
    <3>2. FrameOK(f) /\ Reading(f, input, {})
      BY <1>2, <2>1, <3>1, ReadingBegins DEF GivenOK
    <3>3. f.method = method /\ f.source = <<>>
      BY DEF Frame
    <3>4. st[1] = f /\ st = <<st[1]>>
      OBVIOUS
    <3> HIDE DEF f, st
    <3>5. Reads(st, input, {})
      BY <2>1, <3>2, <3>3, <3>4 DEF Reads
    <3> QED BY <3>5 DEF Good
  <2>2. CASE method.of # <<>>
    <3>1. Calls(st, input, {})
      BY <2>2 DEF Calls
    <3> QED BY <3>1 DEF Good
  <2> QED BY <2>1, <2>2
<1>4. Good(stack, from, skipped)'
  <2>1. Good(stack, from, skipped)' = Good(stack', from', skipped')
    BY <1>1, SameGiven
  <2>2. Good(stack', from', skipped')
    BY <1>1, <1>3
  <2> QED BY <2>1, <2>2
<1>5. calls' \in 0 .. MaxCalls
  <2>1. calls \in 0 .. MaxCalls /\ MaxCalls \in Nat
    BY ListingAssumption DEF IInv, Settled
  <2> QED BY <1>1, <2>1
<1>6. Settled'
  <2>1. method' = method /\ layouts' = layouts /\ GivenOK' = GivenOK /\ Item' = Item
    BY <1>1, SameGiven
  <2> QED BY <1>1, <1>5, <2>1, EmptySeq DEF IInv, Settled
<1>7. status' # "nil" /\ status' # "error"
  BY <1>1
<1> QED BY <1>1, <1>4, <1>6, <1>7 DEF IInv

\* Nothing changes.
LEMMA StutterStep ==
  ASSUME IInv, UNCHANGED vars
  PROVE  IInv'
<1>1. /\ given' = given /\ stack' = stack /\ from' = from /\ skipped' = skipped
      /\ status' = status /\ result' = result /\ input' = input
      /\ failures' = failures /\ calls' = calls
  BY DEF vars, given
<1>2. /\ method' = method /\ layouts' = layouts /\ GivenOK' = GivenOK
      /\ Lister' = Lister /\ Item' = Item
      /\ Good(stack, from, skipped)' = Good(stack', from', skipped')
      /\ DueFrom(from, skipped)' = DueFrom(from', skipped')
  BY <1>1, SameGiven
<1>3. Settled'
  BY <1>1, <1>2 DEF IInv, Settled
<1> QED BY <1>1, <1>2, <1>3 DEF IInv

\* Every step keeps the invariant.
LEMMA Consecution ==
  ASSUME IInv, [Next]_vars
  PROVE  IInv'
<1>1. CASE List
  BY <1>1, AnswerNothingStep, NextPageStep, PageFailsStep, SeeCancelledStep,
     CallMethodStep, DescribeStep, DescribeFailsStep, AskAgainStep, FailStep,
     PanicStep, EndStep DEF List
<1> QED BY <1>1, BeginStep, StutterStep DEF Next

\* It holds before the first call.
LEMMA Initially ==
  ASSUME Init
  PROVE  IInv
<1>1. /\ method \in Methods /\ layouts \in [items : Layouts, belonging : Layouts]
      /\ limit \in {None} \cup Limits /\ input = asked /\ from = asked /\ stack = <<>>
      /\ status = "idle" /\ result = <<>> /\ skipped = {} /\ failures = 0 /\ calls = 0
      /\ asked \in IF method.each = <<>> THEN DOMAIN layouts.items ELSE {1}
  BY DEF Init
<1>2. GivenOK
  BY <1>1, ListingAssumption DEF GivenOK, LayoutsOK, LimitOK, Known
<1>3. asked \in DOMAIN layouts.items
  <2>1. 1 \in DOMAIN Pages(<<>>)
    BY <1>2, OneIsAPage DEF GivenOK
  <2>2. 1 \in DOMAIN layouts.items
    BY <2>1 DEF Pages
  <2> QED BY <1>1, <2>2
<1>4. Settled
  BY <1>1, <1>2, <1>3, EmptySeq, ListingAssumption DEF Settled
<1> QED BY <1>1, <1>4 DEF IInv

\* The invariant holds always.
THEOREM Invariance == Spec => []IInv
<1>1. Init => IInv
  BY Initially
<1>2. IInv /\ [Next]_vars => IInv'
  BY Consecution
<1> QED BY <1>1, <1>2, PTL DEF Spec

\* It implies type correctness.
LEMMA InvTypes ==
  ASSUME IInv
  PROVE  TypeOK
<1>1. /\ {input, from} \subseteq DOMAIN layouts.items
      /\ status \in {"idle", "listing", "nothing", "nil", "error", "panic"}
      /\ result \in Seq(Item) /\ skipped \subseteq Item
      /\ failures \in 0 .. MaxFailures /\ calls \in 0 .. MaxCalls
  BY DEF IInv, Settled
<1>2. CASE status # "listing"
  <2>1. stack = <<>> /\ Len(stack) = 0 /\ DOMAIN stack = {}
    BY <1>2 DEF IInv
  <2> QED BY <1>1, <1>2, <2>1 DEF TypeOK
<1>3. CASE status = "listing"
  <2>1. Listening
    BY <1>3, Listens
  <2>2. Len(stack) \in 1 .. 2 /\ \A k \in DOMAIN stack : FrameOK(stack[k])
    BY <2>1, GoodFrames DEF Listening
  <2>3. ASSUME NEW k \in DOMAIN stack
        PROVE  /\ stack[k].page \in {None} \cup DOMAIN Pages(stack[k].source)
               /\ ToSet(stack[k].got \o FlattenSeq(stack[k].todo)) \subseteq Item
               /\ stack[k].again => stack[k].todo # <<>>
    <3> DEFINE f == stack[k]
    <3>1. FrameOK(f)
      BY <2>2
    <3> HIDE DEF f
    <3>2. FlattenSeq(f.todo) \in Seq(Items(f.source)) /\ f.source \in {<<>>} \cup Items(<<>>)
      BY <3>1, FrameFacts DEF FrameOK
    <3>3. FlattenSeq(f.todo) \in Seq(Item) /\ f.got \in Seq(Item)
      BY <3>1, <3>2, ItemsAreItems DEF FrameOK
    <3>4. f.got \o FlattenSeq(f.todo) \in Seq(Item)
      BY <3>3, ConcatProperties
    <3>5. ToSet(f.got \o FlattenSeq(f.todo)) \subseteq Item
      BY <3>4, SetOfSeq
    <3>6. f.page \in {None} \cup DOMAIN Pages(f.source) /\ (f.again => f.todo # <<>>)
      BY <3>1 DEF FrameOK
    <3> QED BY <3>5, <3>6 DEF f
  <2> QED BY <1>1, <1>3, <2>2, <2>3 DEF TypeOK
<1> QED BY <1>2, <1>3

\* TypeOK for every set of methods, layouts, limits and bounds: no method is called
\* deeper than one level, and what frames hold are items of their listings.
THEOREM TypeCorrect == Spec => []TypeOK
<1>1. IInv => TypeOK
  BY InvTypes
<1> QED BY <1>1, Invariance, PTL

\* Without an error a call has every item of the pages it reads, once and in order,
\* less what its requests failed for: for every method of ListMethods, listings with
\* any pages, chunks and limits of any size and any number of failures and calls.
THEOREM NilErrorMeansAllHolds == Spec => []NilErrorMeansAll
<1>1. IInv => NilErrorMeansAll
  BY DueSame DEF IInv, NilErrorMeansAll
<1> QED BY <1>1, Invariance, PTL

\* What comes with an error is a beginning of what is due, for all the same.
THEOREM ErrorMeansPrefixHolds == Spec => []ErrorMeansPrefix
<1>1. IInv => ErrorMeansPrefix
  BY DueSame DEF IInv, ErrorMeansPrefix
<1> QED BY <1>1, Invariance, PTL

-----------------------------------------------------------------------------
(* Which listings are complete.                                            *)

\* The input of a method that keeps no marker in it stays as it was.
MarkerKept == method.paging # "input" => input = asked /\ from = asked

\* Only the method called keeps a marker in the input, none that it calls.
LEMMA MarkerOfMethod ==
  ASSUME IInv, status = "listing"
  PROVE  Top.method.paging = "input" => method.paging = "input"
<1>1. GivenOK /\ Good(stack, from, skipped)
  BY DEF IInv, Settled
<1>2. CASE Reads(stack, from, skipped)
  BY <1>2 DEF Reads, Top
<1>3. CASE Calls(stack, from, skipped)
  BY <1>3 DEF Calls, Top, Frame
<1>4. CASE Lists(stack, from, skipped)
  <2>1. Top.method = Lister /\ method.of # <<>>
    BY <1>4 DEF Lists, Top
  <2> QED BY <1>1, <2>1, GivenMethods
<1>5. CASE Asks(stack, from, skipped)
  BY <1>5 DEF Asks, Asked, Top
<1>6. CASE Follows(stack, from, skipped)
  <2>1. Top.method = method.each[1] /\ method.each # <<>>
    BY <1>6 DEF Follows, Top
  <2> QED BY <1>1, <2>1, GivenMethods
<1> QED BY <1>1, <1>2, <1>3, <1>4, <1>5, <1>6 DEF Good

\* Every step keeps it.
LEMMA MarkerStays ==
  ASSUME IInv, MarkerKept, [Next]_vars
  PROVE  MarkerKept'
<1>1. CASE Begin
  BY <1>1 DEF Begin, MarkerKept, given
<1>2. CASE NextPage \/ PageFails
  <2>1. /\ status = "listing" /\ given' = given /\ from' = from
        /\ input' = IF Top.method.paging = "input" THEN Top.page ELSE input
    BY <1>2 DEF NextPage, PageFails
  <2> QED BY <2>1, MarkerOfMethod DEF MarkerKept, given
<1>3. ASSUME given' = given, from' = from, input' = input PROVE MarkerKept'
  BY <1>3 DEF MarkerKept, given
<1>4. CASE AnswerNothing \/ SeeCancelled \/ CallMethod \/ Describe \/ DescribeFails
           \/ AskAgain \/ Fail \/ Panic \/ End
  BY <1>3, <1>4 DEF AnswerNothing, SeeCancelled, CallMethod, Describe, DescribeFails,
                    AskAgain, Fail, Panic, End
<1>5. CASE UNCHANGED vars
  BY <1>3, <1>5 DEF vars, given
<1> QED BY <1>1, <1>2, <1>4, <1>5 DEF Next, List

\* "`List*All()` / `Get*` methods drive pagination internally and return complete,
\* flattened slices" (README.md:21) holds for every method that asks for all pages
\* from the one its input says, or gets all in one answer.  Those of which it does
\* not hold are the ones that ask for one page, and the one that leaves its marker
\* in the caller's input; `ListApplicationsByInput` returns none of what it finds.
\* As in the run, no request fails and nothing further is listed for each item.
THEOREM CompleteWherePaged ==
  Spec => [](Lister.paging \in {"pages", "whole"} /\ Lister.found # "none"
               => EveryListingComplete)
<1>1. Init => IInv /\ MarkerKept
  BY Initially DEF Init, MarkerKept
<1>2. IInv /\ MarkerKept /\ [Next]_vars => IInv' /\ MarkerKept'
  BY Consecution, MarkerStays
<1>3. IInv /\ MarkerKept => (Lister.paging \in {"pages", "whole"} /\ Lister.found # "none"
                              => EveryListingComplete)
  <2> SUFFICES ASSUME IInv, MarkerKept, Lister.paging \in {"pages", "whole"},
                      Lister.found # "none", status = "nil", skipped = {},
                      method.each = <<>>
               PROVE  result = Limited(AllFrom(<<>>,
                                 IF Lister.paging = "whole" THEN 1 ELSE asked))
    BY DEF EveryListingComplete
  <2>1. GivenOK /\ from \in DOMAIN layouts.items /\ result = DueFrom(from, {})
    BY DEF IInv, Settled
  <2>2. from = asked
    <3>1. CASE method.of = <<>>
      BY <2>1, <3>1, GivenMethods DEF MarkerKept
    <3>2. CASE method.of # <<>>
      BY <2>1, <3>2, GivenMethods DEF MarkerKept, CallerFacts
    <3> QED BY <3>1, <3>2
  <2> DEFINE held == Held(Lister, <<>>, from)
             w == Cut(Lister, held)
  <2>3. w \in Seq(Items(<<>>)) /\ result = Without(w, {})
    BY <2>1, ListedIs DEF DueFrom, ListedFrom
  <2>4. w = Limited(held)
    BY DEF Cut, Limiting, Limited
  <2>5. held = AllFrom(<<>>, IF Lister.paging = "whole" THEN 1 ELSE asked)
    BY <2>2 DEF Held
  <2> HIDE DEF w, held
  <2>6. Without(w, {}) = w
    BY <2>3, WithoutNone
  <2> QED BY <2>3, <2>4, <2>5, <2>6
<1> QED BY <1>1, <1>2, <1>3, PTL DEF Spec

=============================================================================
