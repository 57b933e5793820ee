--------------------------- MODULE Arithmetic_proofs ---------------------------
(***************************************************************************)
(* Facts the other proofs rest on, for every value of what they speak of:  *)
(* quotients and products, induction, sequences, sums, and the AMM's       *)
(* arithmetic.                                                             *)
(*                                                                         *)
(* Induction is stated of sets instead of predicates: a set that has the   *)
(* empty set and, with a set, what one more element makes of it, has every *)
(* finite set.  That follows from the well-foundedness of strict inclusion *)
(* and its minimum principle, both of the library.                         *)
(***************************************************************************)
EXTENDS AmmMath, SequencesExt, FiniteSetTheorems, SequenceTheorems, WellFoundedInduction, TLAPS

\* A quotient of naturals is a natural number.
LEMMA DivNat ==
  ASSUME NEW n \in Nat, NEW d \in Nat \ {0}
  PROVE  n \div d \in Nat
  OBVIOUS

\* A quotient of an integer is one.
LEMMA DivInt ==
  ASSUME NEW n \in Int, NEW d \in Nat \ {0}
  PROVE  n \div d \in Int
  OBVIOUS

\* The Euclidean bounds of a quotient, with the divisor a variable.
LEMMA DivBounds ==
  ASSUME NEW n \in Nat, NEW d \in Nat \ {0}
  PROVE  /\ d * (n \div d) <= n
         /\ n < d * (n \div d) + d
  OBVIOUS

\* What is left of an input after the fee is a natural number, at most the input.
LEMMA EffectiveInput ==
  ASSUME NEW a \in Nat
  PROVE  /\ calculate_effective_input(a, SOL_POOL_FEE_BPS) \in Nat
         /\ calculate_effective_input(a, SOL_POOL_FEE_BPS) <= a
  BY DEF calculate_effective_input, SOL_POOL_FEE_BPS, BPS_DENOMINATOR

\* So is a product.
LEMMA ProductNat ==
  ASSUME NEW m \in Nat, NEW n \in Nat
  PROVE  m * n \in Nat
  OBVIOUS

\* A swap pays out a natural number of tokens.
LEMMA SwapOutputNat ==
  ASSUME NEW a \in Nat, NEW x \in Nat \ {0}, NEW y \in Nat
  PROVE  SwapOutput(a, x, y) \in Nat
<1> DEFINE e == calculate_effective_input(a, SOL_POOL_FEE_BPS)
<1>1. e \in Nat
  BY EffectiveInput
<1>2. y * e \in Nat
  BY <1>1, ProductNat
<1>3. x + e \in Nat \ {0}
  BY <1>1
<1> HIDE DEF e
<1>4. (y * e) \div (x + e) \in Nat
  BY <1>2, <1>3, DivNat
<1> QED
  BY <1>4 DEF SwapOutput, calculate_swap_output, e

\* The check verify_k_invariant of a swap never fails: the fee and the rounding
\* both stay in the pool.
THEOREM SwapKeepsK ==
  ASSUME NEW a \in Nat, NEW x \in Nat \ {0}, NEW y \in Nat
  PROVE  verify_k_invariant(x, y, x + a, y - SwapOutput(a, x, y))
<1> DEFINE e == calculate_effective_input(a, SOL_POOL_FEE_BPS)
           out == SwapOutput(a, x, y)
<1>1. e \in Nat /\ e <= a
  BY EffectiveInput
<1>2. out \in Nat
  BY SwapOutputNat
<1>3. (x + e) * out <= y * e
  <2>1. y * e \in Nat
    BY <1>1, ProductNat
  <2>2. out = (y * e) \div (x + e)
    BY DEF SwapOutput, calculate_swap_output
  <2>3. x + e \in Nat \ {0}
    BY <1>1
  <2> HIDE DEF e, out
  <2> QED
    BY <2>1, <2>2, <2>3, DivBounds
<1> HIDE DEF e, out
<1>4. out <= y
  <2> SUFFICES ASSUME out >= y + 1 PROVE FALSE
    BY <1>2
  <2>1. (x + e) * out >= (x + e) * (y + 1)
    BY <1>1, <1>2
  <2>2. (x + e) * (y + 1) = x * y + x + e * y + e
    BY <1>1
  <2>3. x * y \in Nat /\ e * y \in Nat /\ y * e = e * y
    BY <1>1
  <2> QED
    BY <1>1, <1>2, <1>3, <2>1, <2>2, <2>3
<1>5. (x + a) * (y - out) >= (x + e) * (y - out)
  <2>1. PICK g \in Nat : a = e + g
    <3>1. a - e \in Nat /\ a = e + (a - e)
      BY <1>1
    <3> QED BY <3>1
  <2>2. PICK h \in Nat : y - out = h
    BY <1>2, <1>4
  <2>3. (x + a) * h = (x + e) * h + g * h
    BY <1>1, <2>1
  <2>4. g * h \in Nat
    BY ProductNat
  <2>5. (x + e) * h \in Int
    BY <1>1
  <2> QED BY <2>2, <2>3, <2>4, <2>5
<1>6. (x + e) * (y - out) = x * y + y * e - (x + e) * out
  BY <1>1, <1>2
<1>7. (x + e) * (y - out) >= x * y
  <2>1. x * y \in Int /\ y * e \in Int /\ (x + e) * out \in Int
    BY <1>1, <1>2
  <2> QED BY <1>3, <1>6, <2>1
<1>8. (x + a) * (y - out) >= x * y
  <2>1. x * y \in Int /\ (x + e) * (y - out) \in Int /\ (x + a) * (y - out) \in Int
    BY <1>1, <1>2
  <2> QED BY <1>5, <1>7, <2>1
<1> QED
  BY <1>8 DEF verify_k_invariant, out

\* A swap never pays out the whole reserve it draws on.
LEMMA SwapLeavesReserve ==
  ASSUME NEW a \in Nat, NEW x \in Nat \ {0}, NEW y \in Nat \ {0}
  PROVE  SwapOutput(a, x, y) < y
<1> DEFINE out == SwapOutput(a, x, y)
<1>1. out \in Nat
  BY SwapOutputNat
<1>2. (x + a) * (y - out) >= x * y
  BY SwapKeepsK DEF verify_k_invariant
<1> HIDE DEF out
<1>3. x * y > 0
  OBVIOUS
<1> SUFFICES ASSUME y - out <= 0 PROVE FALSE
  BY <1>1 DEF out
<1>4. PICK d \in Nat : y - out = -d
  <2>1. out - y \in Nat /\ y - out = -(out - y)
    BY <1>1
  <2> QED BY <2>1
<1>5. (x + a) * d \in Nat /\ (x + a) * (-d) = -((x + a) * d)
  BY ProductNat
<1> QED
  BY <1>2, <1>3, <1>4, <1>5
------------------------------------------------------------------------------
(* Induction. *)

\* A set of subsets of a finite set has a minimal one.
LEMMA SubsetMinimum ==
  ASSUME NEW D, IsFiniteSet(D), NEW T, T \subseteq SUBSET D, T # {}
  PROVE  \E s \in T : \A t \in T : t \subseteq s => t = s
<1> DEFINE R == StrictSubsetOrdering(D)
<1>1. FiniteSubsetsOf(D) = SUBSET D
  BY FS_FiniteSubsetsOfFinite
<1>2. IsWellFoundedOn(R, SUBSET D)
  BY <1>1, FS_StrictSubsetOrderingWellFounded
<1>3. \E s \in T : \A t \in T : ~ (<<t, s>> \in R)
  <2> HIDE DEF R
  <2> QED BY <1>2, WFMin
<1> QED BY <1>3 DEF StrictSubsetOrdering

\* Induction over the subsets of a finite set.
LEMMA SubsetInduction ==
  ASSUME NEW D, IsFiniteSet(D), NEW Q, {} \in Q,
         \A s \in SUBSET D : \A x \in D \ s : s \in Q => s \union {x} \in Q
  PROVE  D \in Q
<1> SUFFICES ASSUME D \notin Q PROVE FALSE
  OBVIOUS
<1> DEFINE T == {s \in SUBSET D : s \notin Q}
<1>1. PICK s \in T : \A t \in T : t \subseteq s => t = s
  <2>1. T \subseteq SUBSET D /\ T # {}
    OBVIOUS
  <2> HIDE DEF T
  <2> QED BY <2>1, SubsetMinimum
<1>2. PICK x : x \in s
  OBVIOUS
<1> DEFINE t == s \ {x}
<1>3. t \in Q
  BY <1>1, <1>2
<1>4. t \in SUBSET D /\ x \in D \ t /\ t \union {x} = s
  BY <1>2
<1> QED BY <1>3, <1>4

\* A set of natural numbers has a least one.
LEMMA NatMinimum ==
  ASSUME NEW T, T \subseteq Nat, T # {}
  PROVE  \E x \in T : \A y \in T : x <= y
<1> DEFINE R == {ss \in Nat \X Nat : ss[1] < ss[2]}
<1>1. IsWellFoundedOn(R, Nat)
  BY NatLessThanWellFounded DEF OpToRel
<1>2. \A x, y \in Nat : <<x, y>> \in R <=> x < y
  OBVIOUS
<1> HIDE DEF R
<1>3. PICK x \in T : \A y \in T : ~ (<<y, x>> \in R)
  BY <1>1, WFMin
<1>4. ASSUME NEW y \in T PROVE x <= y
  <2>1. x \in Nat /\ y \in Nat
    OBVIOUS
  <2>2. ~ (y < x)
    BY <1>2, <1>3, <2>1
  <2> QED BY <2>1, <2>2
<1> QED BY <1>4

\* Induction over the natural numbers.
LEMMA NatSetInduction ==
  ASSUME NEW Q, 0 \in Q, \A n \in Nat : n \in Q => n + 1 \in Q
  PROVE  Nat \subseteq Q
<1> SUFFICES ASSUME NEW n \in Nat, n \notin Q PROVE FALSE
  OBVIOUS
<1>1. PICK m \in Nat \ Q : \A y \in Nat \ Q : m <= y
  BY NatMinimum
<1>2. m # 0 /\ m - 1 \in Nat /\ m = (m - 1) + 1
  BY <1>1
<1>3. m - 1 \in Q
  BY <1>1, <1>2
<1> QED BY <1>1, <1>2, <1>3

------------------------------------------------------------------------------
(* Sequences. *)

LEMMA Elements ==
  \A S : \A q \in Seq(S) : /\ Len(q) \in Nat /\ DOMAIN q = 1..Len(q)
                          /\ \A i \in 1..Len(q) : q[i] \in S
  OBVIOUS

\* Two sequences, one after the other.
Join(S, a, b, s) ==
  /\ s \in Seq(S)
  /\ Len(a) \in Nat /\ Len(b) \in Nat /\ Len(s) = Len(a) + Len(b)
  /\ \A i \in 1..Len(a) : s[i] = a[i] /\ a[i] \in S
  /\ \A i \in 1..Len(b) : s[Len(a) + i] = b[i] /\ b[i] \in S

LEMMA Joined ==
  ASSUME NEW S, NEW a \in Seq(S), NEW b \in Seq(S)
  PROVE  Join(S, a, b, a \o b)
<1> DEFINE s == a \o b
<1>1. Len(a) \in Nat /\ Len(b) \in Nat
  OBVIOUS
<1>2. /\ s \in Seq(S) /\ Len(s) = Len(a) + Len(b)
      /\ \A i \in 1..Len(s) : s[i] = IF i <= Len(a) THEN a[i] ELSE b[i - Len(a)]
  BY ConcatProperties
<1>3. (\A i \in 1..Len(a) : a[i] \in S) /\ (\A i \in 1..Len(b) : b[i] \in S)
  OBVIOUS
<1> HIDE DEF s
<1>4. ASSUME NEW i \in 1..Len(a) PROVE s[i] = a[i]
  BY <1>1, <1>2
<1>5. ASSUME NEW i \in 1..Len(b) PROVE s[Len(a) + i] = b[i]
  <2>1. Len(a) + i \in 1..Len(s) /\ ~ (Len(a) + i <= Len(a)) /\ (Len(a) + i) - Len(a) = i
    BY <1>1, <1>2
  <2> QED BY <1>2, <2>1
<1>6. Join(S, a, b, s)
  BY <1>1, <1>2, <1>3, <1>4, <1>5 DEF Join
<1> QED BY <1>6 DEF s

\* FlattenSeq is a recursive function of the number of parts: it appends one at
\* a time.
FlattenRun(parts, run) ==
  /\ FlattenSeq(parts) = run[Len(parts)]
  /\ run[1] = parts[1]
  /\ \A n \in 2..Len(parts) : run[n] = run[n - 1] \o parts[n]

LEMMA FlattenRuns ==
  ASSUME NEW parts, Len(parts) \in Nat \ {0}
  PROVE  \E run : FlattenRun(parts, run)
<1> DEFINE len == Len(parts)
           step(g, n) == IF n = 1 THEN parts[n] ELSE g[n - 1] \o parts[n]
           Runs(g, m) == g = [n \in 1..m |-> step(g, n)]
           Can(m) == \E g : Runs(g, m)
           Q == {m \in Nat : m <= len => Can(m)}
<1>0. len \in Nat
  OBVIOUS
<1>1. 0 \in Q
  <2>1. Runs(<<>>, 0)
    OBVIOUS
  <2> QED BY <2>1
<1>2. ASSUME NEW m \in Nat, Can(m), m + 1 <= len PROVE Can(m + 1)
  <2>1. PICK g : Runs(g, m)
    BY <1>2, Zenon
  <2> DEFINE last == IF m = 0 THEN parts[1] ELSE g[m] \o parts[m + 1]
             h == [n \in 1..(m + 1) |-> IF n = m + 1 THEN last ELSE g[n]]
  <2> HIDE DEF last
  <2>2. ASSUME NEW n \in 1..(m + 1) PROVE h[n] = step(h, n)
    <3>1. CASE n = m + 1
      <4>1. CASE m = 0
        BY <3>1, <4>1 DEF last
      <4>2. CASE m # 0
        <5>1. n # 1 /\ n - 1 = m /\ m \in 1..(m + 1) /\ m # m + 1
          BY <3>1, <4>2
        <5>2. h[n - 1] = g[m]
          BY <5>1
        <5> HIDE DEF h
        <5>3. h[n] = last
          BY <3>1 DEF h
        <5> QED BY <3>1, <4>2, <5>1, <5>2, <5>3 DEF last
      <4> QED BY <4>1, <4>2
    <3>2. CASE n \in 1..m
      <4>1. n # m + 1
        BY <3>2
      <4>2. g[n] = step(g, n)
        BY <2>1, <3>2, Zenon
      <4>3. h[n] = g[n]
        BY <4>1
      <4>4. n # 1 => h[n - 1] = g[n - 1]
        BY <3>2
      <4> QED BY <4>2, <4>3, <4>4
    <3> QED BY <3>1, <3>2
  <2>3. Runs(h, m + 1)
    BY <2>2
  <2> QED BY <2>3
<1>2a. ASSUME NEW m \in Nat, m \in Q PROVE m + 1 \in Q
  <2> HIDE DEF Can
  <2>1. m + 1 <= len => m <= len
    BY <1>0
  <2> QED BY <1>2, <1>2a, <2>1
<1>3. Nat \subseteq Q
  <2> HIDE DEF Q
  <2> QED BY <1>1, <1>2a, NatSetInduction
<1>4. \E g : Runs(g, len)
  <2>1. Can(len)
    <3> HIDE DEF Can
    <3> QED BY <1>0, <1>3
  <2> QED BY <2>1
<1> DEFINE run == CHOOSE g : Runs(g, len)
<1>5. Runs(run, len)
  BY <1>4
<1>6. FlattenSeq(parts) = run[len]
  BY DEF FlattenSeq
<1> HIDE DEF run, Q
<1>7. \A n \in 1..len : run[n] = step(run, n)
  BY <1>5
<1>8. run[1] = parts[1]
  BY <1>7
<1>9. ASSUME NEW n \in 2..len PROVE run[n] = run[n - 1] \o parts[n]
  <2>1. n \in 1..len /\ n # 1
    BY <1>0
  <2> QED BY <1>7, <2>1
<1> QED BY <1>6, <1>8, <1>9 DEF FlattenRun

\* What is in the whole is what is in its parts.
Gathers(S, parts, s) ==
  /\ s \in Seq(S)
  /\ \A x : x \in ToSet(s) <=> \E k \in DOMAIN parts : x \in ToSet(parts[k])

LEMMA JoinToSet ==
  ASSUME NEW S, NEW a \in Seq(S), NEW b \in Seq(S)
  PROVE  a \o b \in Seq(S) /\ \A x : x \in ToSet(a \o b) <=> x \in ToSet(a) \/ x \in ToSet(b)
<1> DEFINE s == a \o b
<1>1. Join(S, a, b, s)
  BY Joined, Zenon
<1>2. DOMAIN a = 1..Len(a) /\ DOMAIN b = 1..Len(b)
  OBVIOUS
<1> HIDE DEF s
<1>3. s \in Seq(S) /\ DOMAIN s = 1..Len(s) /\ Len(s) = Len(a) + Len(b)
  BY <1>1 DEF Join
<1>4. ASSUME NEW i \in 1..Len(a) PROVE s[i] = a[i] /\ i \in 1..Len(s)
  BY <1>1, <1>4 DEF Join
<1>5. ASSUME NEW i \in 1..Len(b) PROVE s[Len(a) + i] = b[i] /\ Len(a) + i \in 1..Len(s)
  BY <1>1, <1>5 DEF Join
<1>6. ASSUME NEW i \in 1..Len(s)
      PROVE  i \in 1..Len(a) \/ \E k \in 1..Len(b) : i = Len(a) + k
  <2>1. CASE i <= Len(a)
    BY <2>1, <1>1 DEF Join
  <2>2. CASE i > Len(a)
    <3>1. i - Len(a) \in 1..Len(b) /\ i = Len(a) + (i - Len(a))
      BY <2>2, <1>1 DEF Join
    <3> QED BY <3>1
  <2> QED BY <2>1, <2>2, <1>1 DEF Join
<1>7. ASSUME NEW x PROVE x \in ToSet(s) <=> x \in ToSet(a) \/ x \in ToSet(b)
  <2>1. ASSUME x \in ToSet(s) PROVE x \in ToSet(a) \/ x \in ToSet(b)
    <3>1. PICK i \in 1..Len(s) : s[i] = x
      BY <1>3, <2>1 DEF ToSet
    <3>2. CASE i \in 1..Len(a)
      BY <1>2, <1>4, <3>1, <3>2 DEF ToSet
    <3>3. CASE \E k \in 1..Len(b) : i = Len(a) + k
      BY <1>2, <1>5, <3>1, <3>3 DEF ToSet
    <3> QED BY <1>6, <3>2, <3>3
  <2>2. ASSUME x \in ToSet(a) PROVE x \in ToSet(s)
    <3>1. PICK i \in 1..Len(a) : a[i] = x
      BY <1>2, <2>2 DEF ToSet
    <3> QED BY <1>3, <1>4, <3>1 DEF ToSet
  <2>3. ASSUME x \in ToSet(b) PROVE x \in ToSet(s)
    <3>1. PICK i \in 1..Len(b) : b[i] = x
      BY <1>2, <2>3 DEF ToSet
    <3> QED BY <1>3, <1>5, <3>1 DEF ToSet
  <2> QED BY <2>1, <2>2, <2>3
<1> QED BY <1>3, <1>7 DEF s

LEMMA FlattenGathers ==
  ASSUME NEW S, NEW parts \in Seq(Seq(S))
  PROVE  Gathers(S, parts, FlattenSeq(parts))
<1> DEFINE len == Len(parts)
           s == FlattenSeq(parts)
<1>1. len \in Nat /\ DOMAIN parts = 1..len /\ \A n \in 1..len : parts[n] \in Seq(S)
  OBVIOUS
<1>2. CASE len = 0
  <2>1. s = parts
    BY <1>2 DEF FlattenSeq
  <2>2. parts = <<>>
    BY <1>2
  <2>3. <<>> \in Seq(S) /\ ToSet(<<>>) = {}
    BY DEF ToSet
  <2> QED BY <2>1, <2>2, <2>3 DEF Gathers, ToSet
<1>3. CASE len # 0
  <2>1. PICK run : FlattenRun(parts, run)
    BY <1>1, <1>3, FlattenRuns
  <2> DEFINE So(m) == /\ run[m] \in Seq(S)
                      /\ \A x : x \in ToSet(run[m]) <=> \E k \in 1..m : x \in ToSet(parts[k])
             P == {m \in Nat : m + 1 <= len => So(m + 1)}
  <2>2. 0 \in P
    <3>1. run[1] = parts[1] /\ 1 \in 1..len
      BY <1>1, <1>3, <2>1 DEF FlattenRun
    <3> QED BY <1>1, <3>1
  <2>3. ASSUME NEW m \in Nat, m \in P PROVE m + 1 \in P
    <3> SUFFICES ASSUME (m + 1) + 1 <= len PROVE So((m + 1) + 1)
      OBVIOUS
    <3> DEFINE n == (m + 1) + 1
    <3>1. n \in 2..len /\ n \in 1..len /\ n - 1 = m + 1 /\ m + 1 <= len
      BY <1>1
    <3>2. run[n] = run[m + 1] \o parts[n]
      BY <2>1, <3>1 DEF FlattenRun
    <3>3. So(m + 1) /\ parts[n] \in Seq(S)
      BY <1>1, <2>3, <3>1
    <3>4. /\ run[n] \in Seq(S)
          /\ \A x : x \in ToSet(run[n]) <=> x \in ToSet(run[m + 1]) \/ x \in ToSet(parts[n])
      BY <3>2, <3>3, JoinToSet, Zenon
    <3>5. \A k : k \in 1..n <=> k \in 1..(m + 1) \/ k = n
      OBVIOUS
    <3> HIDE DEF n
    <3>6. So(n)
      BY <3>3, <3>4, <3>5
    <3> QED BY <3>6 DEF n
  <2>4. Nat \subseteq P
    <3> HIDE DEF P
    <3> QED BY <2>2, <2>3, NatSetInduction
  <2>5. So(len)
    <3>1. PICK m \in Nat : m + 1 = len
      <4>1. len - 1 \in Nat /\ (len - 1) + 1 = len
        BY <1>1, <1>3
      <4> QED BY <4>1
    <3>2. m \in P
      <4> HIDE DEF P
      <4> QED BY <2>4
    <3>3. So(m + 1)
      BY <1>1, <3>1, <3>2
    <3> QED BY <3>1, <3>3
  <2>6. s = run[len]
    BY <2>1 DEF FlattenRun
  <2> QED BY <1>1, <2>5, <2>6 DEF Gathers
<1> QED BY <1>2, <1>3

------------------------------------------------------------------------------
(* Sums.  SumFunctionOnSet is a recursive function on the subsets of its      *)
(* second argument.  What it computes is the number of units there are in f,  *)
(* each unit of f[x] a pair of x and its place.                               *)

Units(f, S) == {p \in S \X Nat : p[2] \in 1..f[p[1]]}
Count(f, S) == Cardinality(Units(f, S))

\* One more element adds its units.
LEMMA UnitsAdd ==
  ASSUME NEW f, NEW S, NEW x, x \notin S, f[x] \in Nat, IsFiniteSet(Units(f, S))
  PROVE  /\ IsFiniteSet(Units(f, S \union {x}))
         /\ Count(f, S \union {x}) = Count(f, S) + f[x]
<1> DEFINE X == {x} \X (1..f[x])
<1>1. Units(f, S \union {x}) = Units(f, S) \union X
  BY DEF Units
<1>2. Units(f, S) \intersect X = {}
  BY DEF Units
<1>3. IsFiniteSet(X) /\ Cardinality(X) = f[x]
  <2>1. IsFiniteSet({x}) /\ Cardinality({x}) = 1
    BY FS_Singleton
  <2>2. IsFiniteSet(1..f[x]) /\ Cardinality(1..f[x]) = f[x]
    BY FS_Interval
  <2>3. IsFiniteSet(X) /\ Cardinality(X) = 1 * f[x]
    BY <2>1, <2>2, FS_Product
  <2> QED BY <2>3
<1> HIDE DEF X
<1>4. /\ IsFiniteSet(Units(f, S) \union X)
      /\ Cardinality(Units(f, S) \union X)
           = Cardinality(Units(f, S)) + Cardinality(X) - Cardinality(Units(f, S) \intersect X)
  BY <1>3, FS_Union
<1>5. Cardinality(Units(f, S) \intersect X) = 0
  BY <1>2, FS_EmptySet
<1>6. Cardinality(Units(f, S)) \in Nat
  BY FS_CardinalityType
<1>7. Cardinality(Units(f, S) \union X) = Cardinality(Units(f, S)) + f[x]
  BY <1>3, <1>4, <1>5, <1>6
<1> QED BY <1>1, <1>4, <1>7 DEF Count

\* Finitely many naturals have finitely many units.
LEMMA UnitsFinite ==
  ASSUME NEW D, IsFiniteSet(D), NEW f \in [D -> Nat]
  PROVE  IsFiniteSet(Units(f, D)) /\ Count(f, D) \in Nat
<1> DEFINE Q == {s \in SUBSET D : IsFiniteSet(Units(f, s))}
<1>1. {} \in Q
  <2>1. Units(f, {}) = {}
    BY DEF Units
  <2> QED BY <2>1, FS_EmptySet
<1>2. ASSUME NEW s \in SUBSET D, NEW x \in D \ s, s \in Q PROVE s \union {x} \in Q
  BY <1>2, UnitsAdd
<1>3. D \in Q
  <2> HIDE DEF Q
  <2> QED BY <1>1, <1>2, SubsetInduction
<1> QED BY <1>3, FS_CardinalityType DEF Count

\* The recursion of SumFunctionOnSet: it takes the elements off one by one.
First(s) == CHOOSE x \in s : TRUE

Equation(f, D, g) ==
  g = [s \in SUBSET D |-> IF s = {} THEN 0 ELSE f[First(s)] + g[s \ {First(s)}]]

\* The number of units solves the equation, ...
LEMMA CountSolves ==
  ASSUME NEW D, IsFiniteSet(D), NEW f \in [D -> Nat]
  PROVE  \E g : Equation(f, D, g)
<1> DEFINE g == [s \in SUBSET D |-> Count(f, s)]
<1>1. ASSUME NEW s \in SUBSET D
      PROVE  g[s] = IF s = {} THEN 0 ELSE f[First(s)] + g[s \ {First(s)}]
  <2>1. CASE s = {}
    <3>1. Units(f, {}) = {}
      BY DEF Units
    <3> QED BY <3>1, <2>1, FS_EmptySet DEF Count
  <2>2. CASE s # {}
    <3> DEFINE x == First(s)
               t == s \ {x}
    <3>1. x \in s
      BY <2>2 DEF First
    <3>2. t \in SUBSET D /\ x \notin t /\ t \union {x} = s /\ IsFiniteSet(t)
      BY <3>1, FS_Subset
    <3>3. IsFiniteSet(Units(f, t)) /\ Count(f, t) \in Nat
      <4>1. [y \in t |-> f[y]] \in [t -> Nat] /\ Units(f, t) = Units([y \in t |-> f[y]], t)
        BY <3>2 DEF Units
      <4> QED BY <4>1, <3>2, UnitsFinite DEF Count
    <3> HIDE DEF x, t
    <3>4. Count(f, t \union {x}) = Count(f, t) + f[x]
      BY <3>1, <3>2, <3>3, UnitsAdd
    <3>5. f[x] \in Nat
      BY <3>1
    <3>6. g[s] = f[x] + g[t]
      BY <3>2, <3>3, <3>4, <3>5
    <3> QED BY <3>6, <2>2 DEF x, t
  <2> QED BY <2>1, <2>2
<1> QED BY <1>1 DEF Equation

\* ... and every solution is the number of units: at a smallest set where it is
\* not, the set without its first element would be another one.
LEMMA SolutionCounts ==
  ASSUME NEW D, IsFiniteSet(D), NEW f \in [D -> Nat], NEW g, Equation(f, D, g)
  PROVE  g[D] = Count(f, D)
<1> SUFFICES ASSUME g[D] # Count(f, D) PROVE FALSE
  OBVIOUS
<1> DEFINE T == {s \in SUBSET D : g[s] # Count(f, s)}
<1>1. PICK s \in T : \A t \in T : t \subseteq s => t = s
  <2>1. T \subseteq SUBSET D /\ T # {}
    OBVIOUS
  <2> HIDE DEF T
  <2> QED BY <2>1, SubsetMinimum
<1>2. g[s] = IF s = {} THEN 0 ELSE f[First(s)] + g[s \ {First(s)}]
  BY DEF Equation
<1>3. CASE s = {}
  <2>1. Units(f, {}) = {}
    BY DEF Units
  <2> QED BY <1>3, <1>2, <2>1, FS_EmptySet DEF Count
<1>4. CASE s # {}
  <2> DEFINE x == First(s)
             t == s \ {x}
  <2>1. x \in s
    BY <1>4 DEF First
  <2>2. t \in SUBSET D /\ x \notin t /\ t \union {x} = s /\ IsFiniteSet(t)
    BY <2>1, FS_Subset
  <2>3. g[t] = Count(f, t)
    BY <2>1, <2>2, <1>1
  <2>4. IsFiniteSet(Units(f, t)) /\ Count(f, t) \in Nat
    <3>1. [y \in t |-> f[y]] \in [t -> Nat] /\ Units(f, t) = Units([y \in t |-> f[y]], t)
      BY <2>2 DEF Units
    <3> QED BY <3>1, <2>2, UnitsFinite DEF Count
  <2>5. g[s] = f[x] + g[t]
    BY <1>2, <1>4
  <2> HIDE DEF x, t
  <2>6. Count(f, t \union {x}) = Count(f, t) + f[x] /\ f[x] \in Nat
    BY <2>1, <2>2, <2>4, UnitsAdd
  <2>7. Count(f, s) = Count(f, t) + f[x]
    BY <2>2, <2>6
  <2>8. g[s] = f[x] + Count(f, t)
    BY <2>3, <2>5
  <2>9. Count(f, s) = g[s]
    BY <2>4, <2>6, <2>7, <2>8
  <2> QED BY <2>9
<1> QED BY <1>3, <1>4

\* A sum of naturals is the number of their units.
LEMMA SumCounts ==
  ASSUME NEW D, IsFiniteSet(D), NEW f \in [D -> Nat]
  PROVE  SumFunctionOnSet(f, D) = Count(f, D)
<1> DEFINE g == CHOOSE h : Equation(f, D, h)
<1>1. Equation(f, D, g)
  <2> HIDE DEF Equation
  <2> QED BY CountSolves
<1>2. SumFunctionOnSet(f, D) = g[D]
  BY DEF SumFunctionOnSet, FoldFunctionOnSet, MapThenFoldSet, Equation, First
<1> QED BY <1>1, <1>2, SolutionCounts

\* A sum of naturals is a natural number, zero if all of them are.
LEMMA SumNat ==
  ASSUME NEW D, IsFiniteSet(D), NEW f \in [D -> Nat]
  PROVE  /\ SumFunction(f) \in Nat
         /\ SumFunction(f) = Count(f, D)
         /\ (\A x \in D : f[x] = 0) => SumFunction(f) = 0
<1>1. SumFunction(f) = Count(f, D)
  BY SumCounts DEF SumFunction
<1>2. Count(f, D) \in Nat
  BY UnitsFinite
<1>3. ASSUME \A x \in D : f[x] = 0 PROVE Count(f, D) = 0
  <2>1. Units(f, D) = {}
    BY <1>3 DEF Units
  <2> QED BY <2>1, FS_EmptySet DEF Count
<1> QED BY <1>1, <1>2, <1>3

\* What one element changes.
LEMMA SumUpdate ==
  ASSUME NEW D, IsFiniteSet(D), NEW f \in [D -> Nat], NEW x \in D, NEW v \in Nat
  PROVE  /\ SumFunction([f EXCEPT ![x] = v]) = SumFunction(f) - f[x] + v
         /\ f[x] <= SumFunction(f)
<1> DEFINE r == [f EXCEPT ![x] = v]
           t == D \ {x}
<1>1. r \in [D -> Nat] /\ r[x] = v
  OBVIOUS
<1>2. t \union {x} = D /\ x \notin t /\ IsFiniteSet(t)
  BY FS_Subset
<1>3. Units(r, t) = Units(f, t)
  BY DEF Units
<1>4. IsFiniteSet(Units(f, t)) /\ Count(f, t) \in Nat
  <2>1. [y \in t |-> f[y]] \in [t -> Nat] /\ Units(f, t) = Units([y \in t |-> f[y]], t)
    BY <1>2 DEF Units
  <2> QED BY <2>1, <1>2, UnitsFinite DEF Count
<1> HIDE DEF r, t
<1>5. Count(f, t \union {x}) = Count(f, t) + f[x]
  BY <1>2, <1>4, UnitsAdd
<1>6. Count(r, t \union {x}) = Count(r, t) + r[x]
  BY <1>1, <1>2, <1>3, <1>4, UnitsAdd
<1>7. Count(r, t) = Count(f, t)
  BY <1>3 DEF Count
<1>8. SumFunction(f) = Count(f, D) /\ SumFunction(r) = Count(r, D)
  BY <1>1, SumNat
<1>9. SumFunction(f) = Count(f, t) + f[x] /\ SumFunction(r) = Count(f, t) + v
  BY <1>1, <1>2, <1>5, <1>6, <1>7, <1>8
<1>10. f[x] \in Nat
  OBVIOUS
<1> QED BY <1>4, <1>9, <1>10 DEF r

\* A sum grows with its terms.
LEMMA SumMonotone ==
  ASSUME NEW D, IsFiniteSet(D), NEW f \in [D -> Nat], NEW g \in [D -> Nat],
         \A x \in D : f[x] <= g[x]
  PROVE  SumFunction(f) <= SumFunction(g)
<1>1. Units(f, D) \subseteq Units(g, D)
  BY DEF Units
<1>2. IsFiniteSet(Units(g, D))
  BY UnitsFinite
<1>3. Cardinality(Units(f, D)) <= Cardinality(Units(g, D))
  BY <1>1, <1>2, FS_Subset
<1> QED BY <1>3, SumNat DEF Count

\* Sums are linear.
LEMMA SumLinear ==
  ASSUME NEW D, IsFiniteSet(D), NEW f \in [D -> Nat], NEW g \in [D -> Nat],
         NEW c \in Nat, NEW h \in [D -> Nat], \A x \in D : h[x] = f[x] + c * g[x]
  PROVE  SumFunction(h) = SumFunction(f) + c * SumFunction(g)
<1> DEFINE Q == {s \in SUBSET D : /\ IsFiniteSet(Units(f, s)) /\ Count(f, s) \in Nat
                                 /\ IsFiniteSet(Units(g, s)) /\ Count(g, s) \in Nat
                                 /\ IsFiniteSet(Units(h, s))
                                 /\ Count(h, s) = Count(f, s) + c * Count(g, s)}
<1>1. {} \in Q
  <2>1. Units(f, {}) = {} /\ Units(g, {}) = {} /\ Units(h, {}) = {}
    BY DEF Units
  <2>2. Count(f, {}) = 0 /\ Count(g, {}) = 0 /\ Count(h, {}) = 0
    BY <2>1, FS_EmptySet DEF Count
  <2>3. IsFiniteSet({}) /\ {} \in SUBSET D
    BY FS_EmptySet
  <2>4. Count(h, {}) = Count(f, {}) + c * Count(g, {})
    BY <2>2
  <2>5. Count(f, {}) \in Nat /\ Count(g, {}) \in Nat
    BY <2>2
  <2> HIDE DEF Units, Count
  <2> QED BY <2>1, <2>3, <2>4, <2>5
<1>2. ASSUME NEW s \in SUBSET D, NEW x \in D \ s, s \in Q PROVE s \union {x} \in Q
  <2>1. f[x] \in Nat /\ g[x] \in Nat /\ h[x] \in Nat /\ h[x] = f[x] + c * g[x]
    OBVIOUS
  <2>2. /\ IsFiniteSet(Units(f, s \union {x}))
        /\ Count(f, s \union {x}) = Count(f, s) + f[x]
    BY <1>2, <2>1, UnitsAdd
  <2>3. /\ IsFiniteSet(Units(g, s \union {x}))
        /\ Count(g, s \union {x}) = Count(g, s) + g[x]
    BY <1>2, <2>1, UnitsAdd
  <2>4. /\ IsFiniteSet(Units(h, s \union {x}))
        /\ Count(h, s \union {x}) = Count(h, s) + h[x]
    BY <1>2, <2>1, UnitsAdd
  <2>5. c * (Count(g, s) + g[x]) = c * Count(g, s) + c * g[x]
    BY <1>2, <2>1
  <2>6. c * Count(g, s) \in Nat /\ c * g[x] \in Nat
    BY <1>2, <2>1, ProductNat
  <2>7. Count(h, s) = Count(f, s) + c * Count(g, s) /\ Count(f, s) \in Nat
    BY <1>2
  <2>8. Count(h, s \union {x}) = Count(f, s \union {x}) + c * Count(g, s \union {x})
    BY <2>1, <2>2, <2>3, <2>4, <2>5, <2>6, <2>7
  <2>9. Count(f, s \union {x}) \in Nat /\ Count(g, s \union {x}) \in Nat
    BY <1>2, <2>1, <2>2, <2>3
  <2> QED BY <2>2, <2>3, <2>4, <2>8, <2>9
<1>3. D \in Q
  <2> HIDE DEF Q
  <2> QED BY <1>1, <1>2, SubsetInduction
<1> QED BY <1>3, SumNat

\* FlattenSeq of one part more.
LEMMA FlattenAppends ==
  ASSUME NEW S, NEW parts \in Seq(Seq(S)), NEW x \in Seq(S)
  PROVE  FlattenSeq(Append(parts, x)) = FlattenSeq(parts) \o x
<1> DEFINE len == Len(parts)
           more == Append(parts, x)
<1>1. /\ len \in Nat /\ Len(more) = len + 1 /\ more[len + 1] = x
      /\ \A n \in 1..len : more[n] = parts[n] /\ parts[n] \in Seq(S)
  OBVIOUS
<1>2. PICK r2 : FlattenRun(more, r2)
  <2>1. Len(more) \in Nat \ {0}
    BY <1>1
  <2> HIDE DEF more
  <2> QED BY <2>1, FlattenRuns
<1>3. CASE len = 0
  <2>1. parts = <<>>
    BY <1>3
  <2>2. FlattenSeq(parts) = <<>>
    BY <2>1 DEF FlattenSeq
  <2>3. FlattenSeq(more) = x
    BY <1>1, <1>2, <1>3 DEF FlattenRun
  <2>4. <<>> \o x = x
    OBVIOUS
  <2> QED BY <2>2, <2>3, <2>4
<1>4. CASE len # 0
  <2> HIDE DEF more
  <2>1. PICK r1 : FlattenRun(parts, r1)
    BY <1>1, <1>4, FlattenRuns
  <2> DEFINE P == {m \in Nat : m + 1 <= len => r2[m + 1] = r1[m + 1]}
  <2>2. 0 \in P
    <3>1. r1[1] = parts[1] /\ r2[1] = more[1] /\ 1 \in 1..len
      BY <1>1, <1>2, <1>4, <2>1 DEF FlattenRun
    <3> QED BY <1>1, <3>1
  <2>3. ASSUME NEW m \in Nat, m \in P PROVE m + 1 \in P
    <3> SUFFICES ASSUME (m + 1) + 1 <= len PROVE r2[(m + 1) + 1] = r1[(m + 1) + 1]
      OBVIOUS
    <3> DEFINE n == (m + 1) + 1
    <3>1. n \in 2..len /\ n \in 1..len /\ n \in 2..Len(more) /\ n - 1 = m + 1 /\ m + 1 <= len
      BY <1>1
    <3>2. r1[n] = r1[m + 1] \o parts[n] /\ r2[n] = r2[m + 1] \o more[n]
      BY <1>2, <2>1, <3>1 DEF FlattenRun
    <3>3. r2[m + 1] = r1[m + 1] /\ more[n] = parts[n]
      BY <1>1, <2>3, <3>1
    <3> QED BY <3>2, <3>3
  <2>4. Nat \subseteq P
    <3> HIDE DEF P
    <3> QED BY <2>2, <2>3, NatSetInduction
  <2>5. r2[len] = r1[len]
    <3>1. len - 1 \in Nat /\ (len - 1) + 1 = len
      BY <1>1, <1>4
    <3>2. len - 1 \in P
      BY <2>4, <3>1
    <3> QED BY <1>1, <3>1, <3>2
  <2>6. r2[len + 1] = r2[len] \o more[len + 1]
    <3>1. len + 1 \in 2..Len(more) /\ (len + 1) - 1 = len
      BY <1>1, <1>4
    <3> QED BY <1>2, <3>1 DEF FlattenRun
  <2>7. FlattenSeq(more) = r2[len + 1] /\ FlattenSeq(parts) = r1[len]
    BY <1>1, <1>2, <2>1 DEF FlattenRun
  <2>8. FlattenSeq(more) = FlattenSeq(parts) \o x
    BY <1>1, <2>5, <2>6, <2>7
  <2> QED BY <2>8 DEF more
<1> QED BY <1>3, <1>4

\* A sum by parts: what is nonzero has its place in one of them.
LEMMA SumByParts ==
  ASSUME NEW D, IsFiniteSet(D), NEW P, IsFiniteSet(P), NEW place,
         NEW f \in [D -> Nat], \A x \in D : f[x] # 0 => place[x] \in P,
         NEW g \in [P -> Nat],
         \A p \in P : g[p] = SumFunction([x \in D |-> IF place[x] = p THEN f[x] ELSE 0])
  PROVE  SumFunction(f) = SumFunction(g)
<1> DEFINE within(s) == [x \in D |-> IF place[x] \in s THEN f[x] ELSE 0]
           at(p) == [x \in D |-> IF place[x] = p THEN f[x] ELSE 0]
           Q == {s \in SUBSET P : /\ IsFiniteSet(Units(g, s)) /\ Count(g, s) \in Nat
                                 /\ SumFunction(within(s)) = Count(g, s)}
<1>1. {} \in Q
  <2>1. within({}) \in [D -> Nat] /\ \A x \in D : within({})[x] = 0
    OBVIOUS
  <2>2. SumFunction(within({})) = 0
    <3> HIDE DEF within
    <3> QED BY <2>1, SumNat
  <2>3. Units(g, {}) = {}
    BY DEF Units
  <2>4. Count(g, {}) = 0 /\ IsFiniteSet(Units(g, {}))
    BY <2>3, FS_EmptySet DEF Count
  <2> QED BY <2>2, <2>4
<1>2. ASSUME NEW s \in SUBSET P, NEW p \in P \ s, s \in Q PROVE s \union {p} \in Q
  <2>1. g[p] \in Nat /\ g[p] = SumFunction(at(p))
    OBVIOUS
  <2>2. /\ IsFiniteSet(Units(g, s \union {p}))
        /\ Count(g, s \union {p}) = Count(g, s) + g[p]
    BY <1>2, <2>1, UnitsAdd
  <2>3. /\ within(s) \in [D -> Nat] /\ at(p) \in [D -> Nat] /\ within(s \union {p}) \in [D -> Nat]
        /\ \A x \in D : within(s \union {p})[x] = within(s)[x] + 1 * at(p)[x]
    OBVIOUS
  <2>4. SumFunction(within(s \union {p})) = SumFunction(within(s)) + 1 * SumFunction(at(p))
    <3> HIDE DEF within, at
    <3>1. PICK a, b, h : a = within(s) /\ b = at(p) /\ h = within(s \union {p})
      OBVIOUS
    <3>2. PICK c \in Nat : c = 1
      OBVIOUS
    <3>3. /\ a \in [D -> Nat] /\ b \in [D -> Nat] /\ h \in [D -> Nat]
          /\ \A x \in D : h[x] = a[x] + c * b[x]
      BY <2>3, <3>1, <3>2
    <3>4. SumFunction(h) = SumFunction(a) + c * SumFunction(b)
      BY <3>2, <3>3, SumLinear
    <3> QED BY <3>1, <3>2, <3>4
  <2>5. SumFunction(within(s)) = Count(g, s) /\ Count(g, s) \in Nat
    BY <1>2
  <2>6. SumFunction(within(s \union {p})) = Count(g, s \union {p}) /\ Count(g, s \union {p}) \in Nat
    <3> HIDE DEF within, at
    <3> QED BY <2>1, <2>2, <2>4, <2>5
  <2> QED BY <2>2, <2>6
<1>3. P \in Q
  <2> HIDE DEF Q
  <2> QED BY <1>1, <1>2, SubsetInduction
<1>4. within(P) = f
  OBVIOUS
<1>5. SumFunction(within(P)) = Count(g, P)
  BY <1>3
<1>6. SumFunction(g) = Count(g, P)
  BY SumNat
<1> QED BY <1>4, <1>5, <1>6

\* The greatest and the least of a set.
LEMMA MaxIs ==
  ASSUME NEW T \in SUBSET Int, NEW m \in T, \A x \in T : x <= m
  PROVE  Max(T) = m
<1>1. \A x \in T : (\A y \in T : x >= y) <=> x = m
  OBVIOUS
<1> QED BY <1>1 DEF Max

LEMMA MinIs ==
  ASSUME NEW T \in SUBSET Int, NEW m \in T, \A x \in T : m <= x
  PROVE  Min(T) = m
<1>1. \A x \in T : (\A y \in T : x <= y) <=> x = m
  OBVIOUS
<1> QED BY <1>1 DEF Min

LEMMA ImageFinite ==
  ASSUME NEW f, NEW D, f = [x \in D |-> f[x]], IsFiniteSet(D)
  PROVE  IsFiniteSet({f[x] : x \in D})
<1> DEFINE T == {f[x] : x \in D}
<1>1. f \in Surjection(D, T)
  BY DEF Surjection
<1> HIDE DEF T
<1>2. IsFiniteSet(T)
  BY <1>1, FS_Surjection
<1> QED BY <1>2 DEF T

\* A product grows with its factor.
LEMMA ProductMonotone ==
  ASSUME NEW a \in Nat, NEW b \in Nat, NEW v \in Nat, a <= b
  PROVE  a * v <= b * v /\ a * v \in Nat /\ b * v \in Nat
<1>1. PICK d \in Nat : b = a + d
  <2>1. b - a \in Nat /\ b = a + (b - a)
    OBVIOUS
  <2> QED BY <2>1
<1>2. (a + d) * v = a * v + d * v
  OBVIOUS
<1>3. a * v \in Nat /\ d * v \in Nat /\ b * v \in Nat
  BY ProductNat
<1> QED BY <1>1, <1>2, <1>3

\* A sum is the same with zeros added.
LEMMA SumExtends ==
  ASSUME NEW D, IsFiniteSet(D), NEW E \in SUBSET D, NEW f \in [E -> Nat], NEW g \in [D -> Nat],
         \A x \in D : g[x] = IF x \in E THEN f[x] ELSE 0
  PROVE  SumFunction(f) = SumFunction(g)
<1>1. Units(f, E) = Units(g, D)
  <2>1. \A n : n \notin 1..0
    OBVIOUS
  <2>2. \A p : p \in Units(f, E) <=> p \in Units(g, D)
    BY <2>1 DEF Units
  <2> QED BY <2>2
<1>2. IsFiniteSet(E)
  BY FS_Subset
<1> QED BY <1>1, <1>2, SumNat DEF Count
================================================================================
