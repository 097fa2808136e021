-------------------------- MODULE JudgementsProofs --------------------------
(***************************************************************************)
(* The computations do what they are for, for inputs of any size: the      *)
(* boundaries of the ranges, the report on the results of a sweep, the     *)
(* order scan, the checks of a drain, and the percentiles.  What recurs or *)
(* sorts is proved by a least counterexample (LeastNat, Upwards).          *)
(***************************************************************************)
EXTENDS Judgements, FiniteSetTheorems, SequenceTheorems, WellFoundedInduction, TLAPS

-----------------------------------------------------------------------------
(* Rounding.                                                               *)

\* Quotient and remainder.
LEMMA Division ==
    ASSUME NEW n \in Nat, NEW d \in Nat \ {0}
    PROVE  /\ n \div d \in Nat /\ n % d \in 0..(d - 1)
           /\ n = d * (n \div d) + (n % d)
OBVIOUS

\* A rounded quotient is at most half away.
LEMMA RoundNear ==
    ASSUME NEW n \in Nat, NEW d \in Nat \ {0}
    PROVE  /\ Round(n, d) \in Nat
           /\ 2 * n - d <= 2 * (d * Round(n, d))
           /\ 2 * (d * Round(n, d)) <= 2 * n + d
<1> DEFINE q == n \div d
           r == n % d
<1>1. q \in Nat /\ r \in Nat /\ r < d /\ n = d * q + r
  BY Division
<1>2. \/ Round(n, d) = q /\ 2 * r <= d
      \/ Round(n, d) = q + 1 /\ 2 * r >= d
  BY <1>1 DEF Round
<1> HIDE DEF q, r
<1>3. d * q \in Nat /\ d * (q + 1) = d * q + d
  BY <1>1
<1> QED
  BY <1>1, <1>2, <1>3

\* A greater number is not rounded to a smaller one.
LEMMA RoundRises ==
    ASSUME NEW a \in Nat, NEW b \in Nat, NEW d \in Nat \ {0}, a <= b
    PROVE  Round(a, d) <= Round(b, d)
<1> DEFINE S == Round(a, d)
           R == Round(b, d)
<1>1. S \in Nat /\ 2 * (d * S) <= 2 * a + d
  BY RoundNear
<1>2. R \in Nat /\ 2 * b - d <= 2 * (d * R)
  BY RoundNear
<1>3. a = b => S = R
  OBVIOUS
<1> HIDE DEF S, R
<1>4. CASE a < b
  <2> SUFFICES ASSUME S >= R + 1 PROVE FALSE
    BY <1>1, <1>2 DEF S, R
  <2>1. d * S >= d * (R + 1) /\ d * (R + 1) = d * R + d
    BY <1>1, <1>2
  <2> QED
    BY <1>1, <1>2, <1>4, <2>1
<1> QED
  BY <1>1, <1>2, <1>3, <1>4 DEF S, R

\* What an interior boundary is.
LEMMA Interior ==
    ASSUME NEW m \in Nat, NEW k \in 1..(m - 1)
    PROVE  /\ Round(k * 256, m) \in Nat
           /\ Boundary(k, m) = AtMost(255, Round(k * 256, m))
           /\ Boundary(k, m) \in 0..255
<1>1. k * 256 \in Nat /\ m \in Nat \ {0} /\ ~(k <= 0) /\ ~(k >= m)
  OBVIOUS
<1> DEFINE R == Round(k * 256, m)
<1>2. R \in Nat
  BY <1>1, RoundNear
<1>3. Boundary(k, m) = AtMost(255, R)
  BY <1>1 DEF Boundary
<1> HIDE DEF R
<1>4. AtMost(255, R) \in 0..255
  BY <1>2 DEF AtMost
<1> QED
  BY <1>2, <1>3, <1>4 DEF R

\* The first boundary is "" and the last one "FF".
LEMMA Ends ==
    ASSUME NEW m \in Nat \ {0} PROVE Boundary(0, m) = -1 /\ Boundary(m, m) = 255
BY DEF Boundary

\* No range ends before it starts, and the first one is not empty.
LEMMA NoneFalls ==
    ASSUME NEW m \in Nat \ {0}, NEW k \in 1..m
    PROVE  /\ Boundary(k - 1, m) \in Int /\ Boundary(k, m) \in Int
           /\ Boundary(k - 1, m) <= Boundary(k, m)
           /\ k = 1 => Boundary(k - 1, m) < Boundary(k, m)
<1>1. CASE k = m
  <2>1. Boundary(k, m) = 255
    BY <1>1, Ends
  <2>2. Boundary(k - 1, m) \in -1..255 /\ (k = 1 => Boundary(k - 1, m) = -1)
    <3>1. CASE k = 1
      BY <3>1, Ends
    <3>2. CASE k # 1
      <4>1. k - 1 \in 1..(m - 1)
        BY <1>1, <3>2
      <4>2. Boundary(k - 1, m) \in 0..255
        BY <4>1, Interior
      <4> QED
        BY <3>2, <4>2
    <3> QED
      BY <3>1, <3>2
  <2> QED
    BY <2>1, <2>2
<1>2. CASE k # m /\ k = 1
  <2>1. Boundary(0, m) = -1 /\ k \in 1..(m - 1)
    BY <1>2, Ends
  <2>2. Boundary(k, m) \in 0..255
    BY <2>1, Interior
  <2> QED
    BY <1>2, <2>1, <2>2
<1>3. CASE k # m /\ k # 1
  <2> DEFINE R == Round(k * 256, m)
             S == Round((k - 1) * 256, m)
  <2>1. k \in 1..(m - 1) /\ k - 1 \in 1..(m - 1)
    BY <1>3
  <2>2. R \in Nat /\ Boundary(k, m) = AtMost(255, R)
    BY <2>1, Interior
  <2>3. S \in Nat /\ Boundary(k - 1, m) = AtMost(255, S)
    BY <2>1, Interior
  <2>4. S <= R
    <3>1. (k - 1) * 256 \in Nat /\ k * 256 \in Nat /\ (k - 1) * 256 <= k * 256
      BY <2>1
    <3> QED
      BY <3>1, RoundRises
  <2> HIDE DEF R, S
  <2> QED
    BY <1>3, <2>2, <2>3, <2>4 DEF AtMost
<1> QED
  BY <1>1, <1>2, <1>3

\* The last range is empty exactly from 171 ranges on: it is narrower than a
\* byte and a half.
LEMMA LastRange ==
    ASSUME NEW m \in Nat \ {0}
    PROVE  Boundary(m - 1, m) < Boundary(m, m) <=> m <= 170
<1>1. Boundary(m, m) = 255
  BY Ends
<1>2. CASE m = 1
  BY <1>1, <1>2, Ends
<1>3. CASE m # 1
  <2> DEFINE R == Round((m - 1) * 256, m)
  <2>1. m - 1 \in 1..(m - 1) /\ (m - 1) * 256 \in Nat
    BY <1>3
  <2>2. R \in Nat /\ Boundary(m - 1, m) = AtMost(255, R)
    BY <2>1, Interior
  <2>3. /\ 2 * ((m - 1) * 256) - m <= 2 * (m * R)
        /\ 2 * (m * R) <= 2 * ((m - 1) * 256) + m
    BY <2>1, RoundNear
  <2> HIDE DEF R
  <2>4. ASSUME m <= 170 PROVE R < 255
    <3> SUFFICES ASSUME R >= 255 PROVE FALSE
      BY <2>2
    <3>1. m * R >= m * 255
      BY <2>2
    <3> QED
      BY <2>2, <2>3, <2>4, <3>1
  <2>5. ASSUME ~(m <= 170) PROVE R >= 255
    <3> SUFFICES ASSUME R <= 254 PROVE FALSE
      BY <2>2
    <3>1. m * R <= m * 254
      BY <2>2
    <3> QED
      BY <2>2, <2>3, <2>5, <3>1
  <2> QED
    BY <1>1, <2>2, <2>4, <2>5 DEF AtMost
<1> QED
  BY <1>2, <1>3

\* Up to 256 ranges interior boundaries are a byte apart.
LEMMA InteriorRises ==
    ASSUME NEW m \in Nat, m <= 256, NEW k \in 2..(m - 1)
    PROVE  Boundary(k - 1, m) < Boundary(k, m)
<1> DEFINE R == Round(k * 256, m)
           S == Round((k - 1) * 256, m)
<1>1. /\ k \in 1..(m - 1) /\ k - 1 \in 1..(m - 1) /\ m \in Nat \ {0}
      /\ k * 256 \in Nat /\ (k - 1) * 256 \in Nat /\ k <= m - 1
  OBVIOUS
<1>2. R \in Nat /\ Boundary(k, m) = AtMost(255, R)
  BY <1>1, Interior
<1>3. S \in Nat /\ Boundary(k - 1, m) = AtMost(255, S)
  BY <1>1, Interior
<1>4. /\ 2 * (k * 256) - m <= 2 * (m * R)
      /\ 2 * (m * R) <= 2 * (k * 256) + m
  BY <1>1, RoundNear
<1>5. 2 * (m * S) <= 2 * ((k - 1) * 256) + m
  BY <1>1, RoundNear
<1>6. m = 256 => S = k - 1 /\ R = k
  BY <1>1 DEF Round
<1> HIDE DEF R, S
<1>7. R <= 255
  <2> SUFFICES ASSUME R >= 256 PROVE FALSE
    BY <1>2
  <2>1. m * R >= m * 256
    BY <1>1, <1>2
  <2> QED
    BY <1>1, <1>2, <1>4, <2>1
<1>8. S < R
  <2> SUFFICES ASSUME S >= R, m < 256 PROVE FALSE
    BY <1>1, <1>2, <1>3, <1>6
  <2>1. m * S >= m * R
    BY <1>1, <1>2, <1>3
  <2> QED
    BY <1>1, <1>2, <1>3, <1>4, <1>5, <2>1
<1> QED
  BY <1>2, <1>3, <1>7, <1>8 DEF AtMost

-----------------------------------------------------------------------------
(* A behaviour takes one input and evaluates it at most once.              *)

Inputs ==
    \/ kind = "ranges"  /\ given \in 1..MaxRanges
    \/ kind = "order"   /\ given \in UpTo(Events, MaxLen) \X UpTo(Events, MaxLen)
    \/ kind = "percentile" /\ given \in (UpTo(Samples, MaxLen) \ {<<>>}) \X Percents
    \/ kind = "resume"
       /\ given \in UpTo(Items, 2) \X UpTo(Items, 2) \X ((0..4) \cup {Unset})
    \/ kind = "drain"
       /\ given \in (UpTo(UpTo(Items, 2), MaxLen) \ {<<>>}) \X (0..MaxLen)
                            \X ((0..4) \cup {Unset})
    \/ kind = "report" /\ given \in UpTo([scenario : Scenarios, sdk : Sdks,
                                          status : Statuses], MaxLen)
    \/ kind = "sweep"
       /\ given \in [Scenarios \X Sdks -> {"pass", "fail", "error", "gated"}]

JudgedInv == Inputs /\ (outcome # {} => outcome = {Outcome})

\* Inputs and outcome belong together in every reached state.
LEMMA JudgedAlways == Spec => []JudgedInv
<1>1. Init => JudgedInv
  BY DEF Init, JudgedInv, Inputs
<1>2. JudgedInv /\ [Evaluate]_vars => JudgedInv'
  <2> SUFFICES ASSUME JudgedInv, [Evaluate]_vars PROVE JudgedInv'
    OBVIOUS
  <2>1. kind' = kind /\ given' = given /\ outcome' \in {outcome, {Outcome}}
    BY DEF Evaluate, vars
  <2>2. Outcome' = Outcome
    BY <2>1 DEF Outcome
  <2> QED
    BY <2>1, <2>2 DEF JudgedInv, Inputs
<1> QED
  BY <1>1, <1>2, PTL DEF Spec

-----------------------------------------------------------------------------
(* Induction, over the members of a set: the least member outside is none.  *)

\* A set of natural numbers has a least one.
LEMMA LeastNat ==
    ASSUME NEW T, T \subseteq Nat, T # {}
    PROVE  \E n \in T : \A m \in T : n <= m
<1> DEFINE R == OpToRel(<, Nat)
<1>1. PICK n \in T : \A m \in T : <<m, n>> \notin R
  <2> HIDE DEF R
  <2>1. IsWellFoundedOn(R, Nat)
    BY NatLessThanWellFounded DEF R
  <2> QED
    BY <2>1, WFMin
<1>2. \A m \in T : ~(m < n)
  BY <1>1 DEF OpToRel
<1> HIDE DEF R
<1> QED
  BY <1>2

\* Induction up to a number, over the members of a set.
LEMMA Upwards ==
    ASSUME NEW m \in Nat, NEW T, 0 \in T, \A k \in 1..m : k - 1 \in T => k \in T
    PROVE  0..m \subseteq T
<1> DEFINE U == {k \in 0..m : k \notin T}
<1> SUFFICES ASSUME U # {} PROVE FALSE
  OBVIOUS
<1>1. PICK n \in U : \A k \in U : n <= k
  <2> HIDE DEF U
  <2>1. U \subseteq Nat
    BY DEF U
  <2> QED
    BY <2>1, LeastNat
<1>2. n \in 1..m /\ n - 1 \in 0..m /\ n - 1 \notin U
  BY <1>1
<1> QED
  BY <1>1, <1>2

\* From 257 ranges on some interior boundary repeats: rising by one each would
\* take them beyond 255.
LEMMA InteriorRepeats ==
    ASSUME NEW m \in Nat, m >= 257,
           \A k \in 2..(m - 1) : Boundary(k - 1, m) < Boundary(k, m)
    PROVE  FALSE
<1> DEFINE B(k) == Boundary(k, m)
           T == {i \in 0..(m - 2) : B(i + 1) >= B(1) + i}
<1>1. \A k \in 1..(m - 1) : B(k) \in 0..255
  BY Interior
<1>2. \A k \in 2..(m - 1) : B(k - 1) < B(k)
  OBVIOUS
<1>3. m = 257 => B(1) = 1
  <2>1. 256 \div 257 = 0 /\ 256 % 257 = 256
    OBVIOUS
  <2> QED
    BY <2>1 DEF Boundary, Round, AtMost
<1> HIDE DEF B
<1>4. 0 \in T
  BY <1>1
<1>5. ASSUME NEW i \in 1..(m - 2), i - 1 \in T PROVE i \in T
  <2>1. /\ i + 1 \in 2..(m - 1) /\ i \in 1..(m - 1) /\ i + 1 \in 1..(m - 1)
        /\ 1 \in 1..(m - 1) /\ (i + 1) - 1 = i /\ (i - 1) + 1 = i
    OBVIOUS
  <2>2. B(i) < B(i + 1)
    BY <1>2, <2>1
  <2>3. B(i) >= B(1) + (i - 1)
    BY <1>5, <2>1
  <2>4. B(i + 1) >= B(1) + i
    <3>1. B(i) \in 0..255 /\ B(i + 1) \in 0..255 /\ B(1) \in 0..255
      BY <1>1, <2>1
    <3> DEFINE x == B(1)
               y == B(i)
               z == B(i + 1)
    <3>2. y < z /\ y >= x + (i - 1) /\ x \in Int /\ y \in Int /\ z \in Int
      BY <2>2, <2>3, <3>1
    <3> HIDE DEF x, y, z
    <3>3. z >= x + i
      BY <3>2
    <3> QED
      BY <3>3 DEF x, z
  <2>5. i \in 0..(m - 2)
    OBVIOUS
  <2> QED
    BY <2>4, <2>5
<1>6. m - 2 \in T
  <2>1. m - 2 \in Nat
    OBVIOUS
  <2> HIDE DEF T
  <2> QED
    BY <1>4, <1>5, <2>1, Upwards
<1>7. B(m - 1) >= B(1) + (m - 2) /\ B(m - 1) \in 0..255 /\ B(1) \in 0..255
  <2>1. (m - 2) + 1 = m - 1 /\ m - 1 \in 1..(m - 1) /\ 1 \in 1..(m - 1)
    OBVIOUS
  <2> QED
    BY <1>1, <1>6, <2>1
<1> DEFINE x == B(1)
           y == B(m - 1)
<1>8. y >= x + (m - 2) /\ y \in 0..255 /\ x \in 0..255 /\ (m = 257 => x = 1)
  BY <1>3, <1>7
<1> HIDE DEF x, y
<1> QED
  BY <1>8

\* For a topology of any number of ranges the boundaries go from "" to "FF" and
\* never fall; no range is empty exactly up to 170 ranges, and the interior
\* boundaries are distinct exactly up to 256.
THEOREM RangesHold == Spec => []RangesTile
<1>1. JudgedInv => RangesTile
  <2> SUFFICES ASSUME JudgedInv, Judged("ranges") PROVE RangesTile
    BY DEF RangesTile
  <2> DEFINE m == given
  <2>1. m \in Nat \ {0}
    BY JudgementAssumption DEF JudgedInv, Inputs, Judged
  <2>2. Result = Boundaries(m)
    BY DEF Result, JudgedInv, Judged, Outcome
  <2>3. \A k \in 0..m : Result[k] = Boundary(k, m)
    BY <2>2 DEF Boundaries
  <2> HIDE DEF m
  <2>4. \A k \in 1..m : /\ Result[k - 1] = Boundary(k - 1, m) /\ Result[k] = Boundary(k, m)
                        /\ Result[k - 1] <= Result[k]
                        /\ k = 1 => Result[k - 1] < Result[k]
    BY <2>1, <2>3, NoneFalls
  <2>5. Result[0] = -1 /\ Result[m] = 255
    BY <2>1, <2>3, Ends
  <2>6. Result[m - 1] < Result[m] <=> m <= 170
    BY <2>1, <2>3, LastRange
  <2>7. (\A k \in 2..(m - 1) : Result[k - 1] < Result[k]) <=> m <= 256
    <3>1. ASSUME m <= 256, NEW k \in 2..(m - 1) PROVE Result[k - 1] < Result[k]
      BY <2>1, <2>4, <3>1, InteriorRises
    <3>2. ASSUME m >= 257, \A k \in 2..(m - 1) : Result[k - 1] < Result[k] PROVE FALSE
      <4>1. \A k \in 2..(m - 1) : Boundary(k - 1, m) < Boundary(k, m)
        BY <2>1, <2>4, <3>2
      <4> QED
        BY <2>1, <3>2, <4>1, InteriorRepeats
    <3> QED
      BY <2>1, <3>1, <3>2
  <2>8. (\A k \in 1..m : Result[k - 1] < Result[k]) <=> m <= 170
    <3>1. ASSUME m <= 170, NEW k \in 1..m PROVE Result[k - 1] < Result[k]
      <4>1. k = 1 \/ k = m \/ k \in 2..(m - 1)
        BY <2>1
      <4> QED
        BY <2>1, <2>4, <2>6, <2>7, <3>1, <4>1
    <3>2. (\A k \in 1..m : Result[k - 1] < Result[k]) => m <= 170
      BY <2>1, <2>6
    <3> QED
      BY <3>1, <3>2
  <2> QED
    BY <2>4, <2>5, <2>7, <2>8 DEF RangesTile, m
<1> QED
  BY <1>1, JudgedAlways, PTL

\* W is b at 0, and goes on by N.
Unrolls(V, m, b, N, W) ==
    W \in [0..m -> V] /\ W[0] = b /\ \A i \in 1..m : W[i] = N[<<W[i - 1], i>>]

\* Such a W exists.
LEMMA Recursion ==
    ASSUME NEW V, NEW m \in Nat, NEW b \in V, NEW N \in [V \X (1..m) -> V]
    PROVE  \E W : Unrolls(V, m, b, N, W)
<1> DEFINE Solves(W, k) == /\ W \in [0..k -> V] /\ W[0] = b
                           /\ \A i \in 1..k : W[i] = N[<<W[i - 1], i>>]
           T == {k \in 0..m : \E W : Solves(W, k)}
<1>1. 0 \in T
  <2>1. Solves([i \in 0..0 |-> b], 0)
    OBVIOUS
  <2> HIDE DEF Solves
  <2> QED
    BY <2>1
<1>2. ASSUME NEW k \in 1..m, k - 1 \in T PROVE k \in T
  <2>1. PICK W : Solves(W, k - 1)
    BY <1>2
  <2> DEFINE U == [i \in 0..k |-> IF i < k THEN W[i] ELSE N[<<W[k - 1], k>>]]
  <2>2. k - 1 \in Nat /\ k \in Nat /\ W[k - 1] \in V
    BY <2>1
  <2>3. U \in [0..k -> V] /\ U[0] = b
    BY <2>1, <2>2
  <2>4. ASSUME NEW i \in 1..k PROVE U[i] = N[<<U[i - 1], i>>]
    <3>1. U[i - 1] = W[i - 1]
      BY <2>2
    <3>2. CASE i < k
      BY <2>1, <2>2, <3>1, <3>2
    <3>3. CASE i = k
      BY <2>2, <3>1, <3>3
    <3> QED
      BY <2>2, <3>2, <3>3
  <2>5. Solves(U, k)
    BY <2>3, <2>4
  <2> HIDE DEF Solves, U
  <2> QED
    BY <2>5
<1>3. m \in T
  <2> HIDE DEF T
  <2> QED
    BY <1>1, <1>2, Upwards
<1> QED
  BY <1>3 DEF Unrolls

\* The least member of a set of numbers.
LEMMA MinIs ==
    ASSUME NEW S, S \subseteq Nat, S # {}
    PROVE  Min(S) \in S /\ \A y \in S : Min(S) <= y
<1>1. PICK n \in S : \A y \in S : n <= y
  BY LeastNat
<1> QED
  BY <1>1 DEF Min

\* What UpTo holds are sequences.
LEMMA UpToIs ==
    ASSUME NEW S, NEW n \in Nat, NEW s \in UpTo(S, n)
    PROVE  s \in Seq(S)
<1>1. PICK k \in 0..n : s \in [1..k -> S]
  BY DEF UpTo
<1> QED
  BY <1>1, SeqDef

-----------------------------------------------------------------------------
(* Sets.                                                                   *)

\* A set of positions has a greatest one.
LEMMA MaxIs ==
    ASSUME NEW n \in Nat, NEW S, S \subseteq 1..n, S # {}
    PROVE  Max(S) \in S /\ \A y \in S : y <= Max(S)
<1> DEFINE T == {n - s : s \in S}
           R == OpToRel(<, Nat)
<1>1. T \subseteq Nat /\ T # {}
  <2>1. PICK s \in S : TRUE
    OBVIOUS
  <2>2. n - s \in T
    OBVIOUS
  <2>3. ASSUME NEW u \in S PROVE n - u \in Nat
    OBVIOUS
  <2> QED
    BY <2>2, <2>3
<1>2. PICK x \in T : \A y \in T : <<y, x>> \notin R
  <2> HIDE DEF T, R
  <2>1. IsWellFoundedOn(R, Nat)
    BY NatLessThanWellFounded DEF R
  <2> QED
    BY <1>1, <2>1, WFMin
<1>3. \A y \in T : ~(y < x)
  BY <1>1, <1>2 DEF OpToRel
<1>4. PICK m \in S : x = n - m
  BY <1>2
<1>5. \A y \in S : m >= y
  <2> SUFFICES ASSUME NEW y \in S PROVE m >= y
    OBVIOUS
  <2>1. n - y \in T
    OBVIOUS
  <2>2. ~(n - y < n - m)
    BY <1>3, <1>4, <2>1
  <2> QED
    BY <2>2
<1> HIDE DEF T, R
<1>6. Max(S) \in S /\ \A y \in S : Max(S) >= y
  BY <1>5 DEF Max
<1> QED
  BY <1>6

\* More than one element are two.
LEMMA MoreThanOne ==
    ASSUME NEW S, IsFiniteSet(S)
    PROVE  Cardinality(S) >= 2 <=> \E x, y \in S : x # y
<1>1. Cardinality(S) \in Nat
  BY FS_CardinalityType
<1>2. Cardinality(S) = 0 <=> S = {}
  BY FS_EmptySet
<1>3. Cardinality(S) = 1 <=> \E x : S = {x}
  BY FS_Singleton
<1> QED
  BY <1>1, <1>2, <1>3

-----------------------------------------------------------------------------
(* The report.                                                             *)

Reports == [scenario : Scenarios, sdk : Sdks, status : Statuses]

\* The last result of its SDK for its scenario, and one that took part.
IsLast(rs, i) == \A j \in DOMAIN rs : j > i =>
    <<rs[j].scenario, rs[j].sdk>> # <<rs[i].scenario, rs[i].sdk>>
Ran(rs, i) == IsLast(rs, i) /\ rs[i].status # "skip"

Apart(rs, sc) == \E i, j \in DOMAIN rs :
    /\ Ran(rs, i) /\ Ran(rs, j) /\ rs[i].scenario = sc /\ rs[j].scenario = sc
    /\ rs[i].status # rs[j].status

\* The SDKs of some results are finitely many.
LEMMA SdksFinite ==
    ASSUME NEW n \in Nat, NEW rs \in [1..n -> Reports], NEW of \in SUBSET (1..n)
    PROVE  IsFiniteSet({rs[i].sdk : i \in of})
<1> DEFINE T == {rs[i].sdk : i \in of}
           f == [i \in of |-> rs[i].sdk]
<1>1. IsFiniteSet(of)
  <2>1. IsFiniteSet(1..n)
    BY FS_Interval
  <2> QED
    BY <2>1, FS_Subset
<1>2. f \in Surjection(of, T)
  BY DEF Surjection
<1> HIDE DEF f, T
<1> QED
  BY <1>1, <1>2, FS_Surjection DEF T

\* What the comparison keeps of an SDK is its last result.
LEMMA KeptIsLast ==
    ASSUME NEW n \in Nat, NEW rs \in [1..n -> Reports], NEW sc,
           NEW i \in 1..n, rs[i].scenario = sc
    PROVE  \E m \in 1..n :
             /\ rs[m].scenario = sc /\ rs[m].sdk = rs[i].sdk /\ IsLast(rs, m)
             /\ BySdk(rs, sc)[rs[i].sdk] = rs[m].status
             /\ IsLast(rs, i) => m = i
<1> DEFINE sdk == rs[i].sdk
           S == {k \in 1..n : rs[k].scenario = sc /\ rs[k].sdk = sdk}
           m == Max(S)
<1>1. m \in S /\ \A y \in S : y <= m
  BY MaxIs
<1>2. DOMAIN rs = 1..n
  OBVIOUS
<1>3. BySdk(rs, sc)[sdk] = rs[m].status
  <2> DEFINE of == {k \in DOMAIN rs : rs[k].scenario = sc}
  <2>1. {k \in of : rs[k].sdk = sdk} = S
    BY <1>2
  <2>2. sdk \in {rs[k].sdk : k \in of}
    BY <1>2
  <2> HIDE DEF S, sdk
  <2> QED
    BY <2>1, <2>2 DEF BySdk
<1> HIDE DEF m
<1>4. IsLast(rs, m)
  BY <1>1, <1>2 DEF IsLast
<1>5. IsLast(rs, i) => m = i
  <2>1. /\ i <= m /\ m \in 1..n
        /\ <<rs[m].scenario, rs[m].sdk>> = <<rs[i].scenario, rs[i].sdk>>
    BY <1>1
  <2> QED
    BY <1>2, <2>1 DEF IsLast
<1> QED
  BY <1>1, <1>3, <1>4, <1>5

\* A scenario diverges when two last results that took part ended apart.
LEMMA DivergentIs ==
    ASSUME NEW n \in Nat, NEW rs \in [1..n -> Reports], NEW sc
    PROVE  Divergent(rs, sc) <=> Apart(rs, sc)
<1> DEFINE last == BySdk(rs, sc)
           of   == {i \in DOMAIN rs : rs[i].scenario = sc}
           part == Participating(last)
           Kept == {last[sdk] : sdk \in part}
<1>1. DOMAIN rs = 1..n /\ of \in SUBSET (1..n)
  OBVIOUS
<1>2. DOMAIN last = {rs[i].sdk : i \in of}
  BY DEF BySdk
<1>3. \A sdk \in DOMAIN last : \E m \in 1..n :
         /\ rs[m].scenario = sc /\ rs[m].sdk = sdk /\ IsLast(rs, m)
         /\ last[sdk] = rs[m].status
  BY <1>1, <1>2, KeptIsLast, SMTT(30)
<1>4. \A m \in 1..n : rs[m].scenario = sc /\ IsLast(rs, m) =>
         rs[m].sdk \in DOMAIN last /\ last[rs[m].sdk] = rs[m].status
  <2> SUFFICES ASSUME NEW m \in 1..n, rs[m].scenario = sc, IsLast(rs, m)
               PROVE  rs[m].sdk \in DOMAIN last /\ last[rs[m].sdk] = rs[m].status
    OBVIOUS
  <2>1. rs[m].sdk \in DOMAIN last
    BY <1>1, <1>2
  <2>2. last[rs[m].sdk] = rs[m].status
    BY KeptIsLast
  <2> QED
    BY <2>1, <2>2
<1>5. IsFiniteSet(DOMAIN last)
  BY <1>1, <1>2, SdksFinite
<1> HIDE DEF last, of
<1>6. part \subseteq DOMAIN last /\ IsFiniteSet(part)
  <2>1. part \subseteq DOMAIN last
    BY DEF Participating
  <2> QED
    BY <1>5, <2>1, FS_Subset
<1>7. Kept \subseteq Statuses /\ IsFiniteSet(Kept)
  <2>1. Kept \subseteq Statuses
    BY <1>3, <1>6 DEF Reports
  <2>3. IsFiniteSet(Statuses)
    <3>1. Statuses = ({"pass"} \cup {"fail"}) \cup {"skip"}
      BY DEF Statuses
    <3>2. IsFiniteSet({"pass"} \cup {"fail"})
      BY FS_Singleton, FS_AddElement
    <3> QED
      BY <3>1, <3>2, FS_AddElement
  <2> QED
    BY <2>1, <2>3, FS_Subset
<1>8. Divergent(rs, sc) <=> Cardinality(part) >= 2 /\ Cardinality(Kept) >= 2
  <2>1. Cardinality(Kept) \in Nat
    BY <1>7, FS_CardinalityType
  <2> QED
    BY <2>1 DEF Divergent, last
<1>9. Cardinality(part) >= 2 <=> \E s, t \in part : s # t
  BY <1>6, MoreThanOne
<1>10. Cardinality(Kept) >= 2 <=> \E s, t \in part : last[s] # last[t]
  <2>1. Cardinality(Kept) >= 2 <=> \E x, y \in Kept : x # y
    <3> HIDE DEF Kept
    <3> QED
      BY <1>7, MoreThanOne
  <2> QED
    BY <2>1
<1>11. Divergent(rs, sc) <=> \E s, t \in part : last[s] # last[t]
  BY <1>8, <1>9, <1>10
<1>12. ASSUME NEW s \in part, NEW t \in part, last[s] # last[t] PROVE Apart(rs, sc)
  <2>1. s \in DOMAIN last /\ last[s] # "skip" /\ t \in DOMAIN last /\ last[t] # "skip"
    BY DEF Participating
  <2>2. PICK i \in 1..n : rs[i].scenario = sc /\ IsLast(rs, i) /\ last[s] = rs[i].status
    BY <1>3, <2>1
  <2>3. PICK j \in 1..n : rs[j].scenario = sc /\ IsLast(rs, j) /\ last[t] = rs[j].status
    BY <1>3, <2>1
  <2> QED
    BY <1>1, <1>12, <2>1, <2>2, <2>3 DEF Apart, Ran
<1>13. ASSUME Apart(rs, sc) PROVE \E s, t \in part : last[s] # last[t]
  <2>1. PICK i \in 1..n, j \in 1..n :
           /\ Ran(rs, i) /\ Ran(rs, j) /\ rs[i].scenario = sc /\ rs[j].scenario = sc
           /\ rs[i].status # rs[j].status
    BY <1>1, <1>13 DEF Apart
  <2>2. /\ rs[i].sdk \in part /\ last[rs[i].sdk] = rs[i].status
        /\ rs[j].sdk \in part /\ last[rs[j].sdk] = rs[j].status
    BY <1>4, <2>1 DEF Ran, Participating
  <2> QED
    BY <2>1, <2>2
<1> QED
  BY <1>11, <1>12, <1>13

\* Two results of one scenario that took part and ended apart.
SomeApart(rs) == \E i, j \in DOMAIN rs :
    /\ Ran(rs, i) /\ Ran(rs, j) /\ rs[i].scenario = rs[j].scenario
    /\ rs[i].status # rs[j].status

\* The exit code of the comparison.
LEMMA CompareIs ==
    ASSUME NEW n \in Nat, NEW rs \in [1..n -> Reports]
    PROVE  CompareExit(rs) = 1 <=> n = 0 \/ SomeApart(rs)
<1> DEFINE Seen == {rs[i].sdk : i \in DOMAIN rs}
<1>1. DOMAIN rs = 1..n
  OBVIOUS
<1>2. rs = << >> <=> n = 0
  BY <1>1
<1>3. SomeApart(rs) <=> \E sc \in Scenarios : Divergent(rs, sc)
  <2>1. \A sc : Divergent(rs, sc) <=> Apart(rs, sc)
    BY DivergentIs
  <2>2. \A i \in 1..n : rs[i].scenario \in Scenarios
    BY DEF Reports
  <2> QED
    BY <1>1, <2>1, <2>2 DEF SomeApart, Apart
<1>4. IsFiniteSet(Seen) /\ Cardinality(Seen) \in Nat
  <2>1. IsFiniteSet(Seen)
    BY <1>1, SdksFinite
  <2> QED
    BY <2>1, FS_CardinalityType
<1>5. SomeApart(rs) => Cardinality(Seen) >= 2
  <2> SUFFICES ASSUME SomeApart(rs) PROVE Cardinality(Seen) >= 2
    OBVIOUS
  <2>1. PICK i \in 1..n, j \in 1..n :
           /\ Ran(rs, i) /\ Ran(rs, j) /\ rs[i].scenario = rs[j].scenario
           /\ rs[i].status # rs[j].status
    BY <1>1 DEF SomeApart
  <2>2. i # j /\ (i < j \/ j < i)
    BY <2>1
  <2>3. rs[i].sdk # rs[j].sdk
    BY <1>1, <2>1, <2>2 DEF Ran, IsLast
  <2>4. rs[i].sdk \in Seen /\ rs[j].sdk \in Seen
    BY <1>1
  <2> HIDE DEF Seen
  <2> QED
    BY <1>4, <2>3, <2>4, MoreThanOne
<1> HIDE DEF Seen
<1>6. CASE n = 0
  BY <1>2, <1>6 DEF CompareExit
<1>7. CASE n # 0 /\ Cardinality(Seen) < 2
  <2>1. ~SomeApart(rs)
    BY <1>4, <1>5, <1>7
  <2> QED
    BY <1>2, <1>7, <2>1 DEF CompareExit, Seen
<1>8. CASE n # 0 /\ ~(Cardinality(Seen) < 2)
  BY <1>2, <1>3, <1>8 DEF CompareExit, Seen
<1> QED
  BY <1>6, <1>7, <1>8

-----------------------------------------------------------------------------
(* The sweep.                                                              *)

\* A finite set written down as a sequence.
LEMMA SequenceIs ==
    ASSUME NEW S, IsFiniteSet(S)
    PROVE  /\ Cardinality(S) \in Nat /\ (Cardinality(S) = 0 <=> S = {})
           /\ SetToSeq(S) \in [1..Cardinality(S) -> S]
<1>1. Cardinality(S) \in Nat /\ ExistsBijection(1..Cardinality(S), S)
  BY FS_CardinalityType
<1>2. PICK f \in Bijection(1..Cardinality(S), S) : TRUE
  BY <1>1 DEF ExistsBijection
<1>3. f \in [1..Cardinality(S) -> S] /\ IsInjective(f)
  BY <1>2 DEF Bijection, Injection, IsInjective
<1>4. SetToSeq(S) \in [1..Cardinality(S) -> S]
  BY <1>3 DEF SetToSeq
<1>5. Cardinality(S) = 0 <=> S = {}
  BY FS_EmptySet
<1> QED
  BY <1>1, <1>4, <1>5

\* What a sweep without a failure leaves is passed and skipped results.
LEMMA WrittenIs ==
    ASSUME NEW sweep \in [Scenarios \X Sdks -> {"pass", "fail", "error", "gated"}],
           IsFiniteSet(Scenarios), Scenarios # {}, IsFiniteSet(Sdks), Sdks # {},
           MatrixExit(sweep) = 0
    PROVE  \E n \in Nat \ {0} :
             /\ Written(sweep) \in [1..n -> Reports]
             /\ \A i \in 1..n : Written(sweep)[i].status \in {"pass", "skip"}
<1> DEFINE P == Scenarios \X Sdks
           f == [p \in P |-> [scenario |-> p[1], sdk |-> p[2],
                              status |-> IF sweep[p] = "gated" THEN "skip" ELSE sweep[p]]]
           W == {[scenario |-> p[1], sdk |-> p[2],
                  status |-> IF sweep[p] = "gated" THEN "skip" ELSE sweep[p]] : p \in P}
<1>1. IsFiniteSet(P) /\ P # {}
  <2>1. PICK sc \in Scenarios, sdk \in Sdks : TRUE
    OBVIOUS
  <2>2. <<sc, sdk>> \in P
    OBVIOUS
  <2>3. IsFiniteSet(P)
    BY FS_Product
  <2> QED
    BY <2>2, <2>3
<1>2. f \in Surjection(P, W)
  BY DEF Surjection
<1>3. \A p \in P : sweep[p] \in {"pass", "gated"}
  BY DEF MatrixExit
<1>4. W \subseteq Reports /\ \A w \in W : w.status \in {"pass", "skip"}
  BY <1>3 DEF Reports, Statuses
<1>5. W # {}
  <2>1. PICK p \in P : TRUE
    BY <1>1
  <2>2. f[p] \in W
    BY <2>1
  <2> QED
    BY <2>2
<1>6. Written(sweep) = SetToSeq(W)
  BY DEF Written
<1> HIDE DEF P, f, W
<1>7. IsFiniteSet(W)
  BY <1>1, <1>2, FS_Surjection
<1>8. /\ Cardinality(W) \in Nat \ {0}
      /\ Written(sweep) \in [1..Cardinality(W) -> W]
  BY <1>5, <1>6, <1>7, SequenceIs
<1> QED
  BY <1>4, <1>8

\* The comparison fails exactly when there is nothing to compare or two SDKs
\* that both ran a scenario ended it apart; and after a sweep of at least one
\* pair that exits well it does not fail.
THEOREM ReportsExact ==
    ASSUME IsFiniteSet(Scenarios), Scenarios # {}, IsFiniteSet(Sdks), Sdks # {}
    PROVE  Spec => []DivergenceExact
<1>1. JudgedInv => DivergenceExact
  <2> SUFFICES ASSUME JudgedInv PROVE DivergenceExact
    OBVIOUS
  <2>1. ASSUME Judged("report")
        PROVE  Result = 1 <=> given = << >> \/ SomeApart(given)
    <3>1. PICK n \in 0..MaxLen : given \in [1..n -> Reports]
      BY <2>1 DEF JudgedInv, Inputs, Judged, UpTo, Reports
    <3>2. n \in Nat /\ DOMAIN given = 1..n /\ (given = << >> <=> n = 0)
      BY <3>1, JudgementAssumption
    <3>3. Result = CompareExit(given)
      BY <2>1 DEF Result, JudgedInv, Judged, Outcome
    <3> QED
      BY <3>1, <3>2, <3>3, CompareIs
  <2>2. ASSUME Judged("sweep"), Result[1] = 0 PROVE Result[2] = 0
    <3>1. given \in [Scenarios \X Sdks -> {"pass", "fail", "error", "gated"}]
      BY <2>2 DEF JudgedInv, Inputs, Judged
    <3>2. Result = <<MatrixExit(given), CompareExit(Written(given))>>
      BY <2>2 DEF Result, JudgedInv, Judged, Outcome
    <3>3. PICK n \in Nat \ {0} :
             /\ Written(given) \in [1..n -> Reports]
             /\ \A i \in 1..n : Written(given)[i].status \in {"pass", "skip"}
      BY <2>2, <3>1, <3>2, WrittenIs
    <3>4. ~SomeApart(Written(given))
      BY <3>3 DEF SomeApart, Ran
    <3>5. CompareExit(Written(given)) # 1
      BY <3>3, <3>4, CompareIs
    <3> QED
      BY <3>2, <3>5 DEF CompareExit
  <2> QED
    BY <2>1, <2>2 DEF DivergenceExact, SomeApart, Ran, IsLast
<1> QED
  BY <1>1, JudgedAlways, PTL
-----------------------------------------------------------------------------
(* The order scan.                                                         *)

\* Where the scan goes on from position w for the i-th wanted event.
After(actual, want, w, i) ==
    Min({j \in (w + 1)..Len(actual) : actual[j] = want[i]} \cup {Len(actual) + 1})

Matches(actual, want, w, i) == {j \in (w + 1)..Len(actual) : actual[j] = want[i]}

\* The scan goes on to the next match, or past the end.
LEMMA AfterIs ==
    ASSUME NEW S, NEW actual \in Seq(S), NEW want, NEW w \in Nat, NEW i
    PROVE  /\ After(actual, want, w, i) \in Nat
           /\ After(actual, want, w, i) <= Len(actual) + 1
           /\ After(actual, want, w, i) \in
                  Matches(actual, want, w, i) \cup {Len(actual) + 1}
           /\ \A j \in Matches(actual, want, w, i) : After(actual, want, w, i) <= j
<1> DEFINE A == Matches(actual, want, w, i) \cup {Len(actual) + 1}
<1>1. Len(actual) \in Nat
  OBVIOUS
<1>2. \A j \in A : j \in Nat /\ j <= Len(actual) + 1
  BY <1>1 DEF Matches
<1>3. Min(A) \in A /\ \A y \in A : Min(A) <= y
  <2>1. Len(actual) + 1 \in A
    OBVIOUS
  <2> HIDE DEF A
  <2> QED
    BY <1>2, <2>1, MinIs
<1>4. After(actual, want, w, i) = Min(A)
  BY DEF After, Matches
<1> HIDE DEF A
<1>5. Min(A) \in Nat /\ Min(A) <= Len(actual) + 1
  BY <1>2, <1>3
<1> QED
  BY <1>3, <1>4, <1>5 DEF A

\* The positions the scan is at.
Scan(actual, want, W) ==
    /\ W \in [0..Len(want) -> Nat] /\ W[0] = 0
    /\ \A i \in 1..Len(want) : W[i] = After(actual, want, W[i - 1], i)

\* Reached is the last position of the scan.
LEMMA ReachedIs ==
    ASSUME NEW S, NEW actual \in Seq(S), NEW want \in Seq(S)
    PROVE  \E W : Scan(actual, want, W) /\ Reached(actual, want) = W[Len(want)]
<1> DEFINE m == Len(want)
           N == [p \in Nat \X (1..m) |-> After(actual, want, p[1], p[2])]
           Body(W) == [i \in 0..m |-> IF i = 0 THEN 0 ELSE After(actual, want, W[i - 1], i)]
<1>0. m \in Nat
  OBVIOUS
<1>1. N \in [Nat \X (1..m) -> Nat]
  BY AfterIs
<1> HIDE DEF m
<1>2. PICK W \in [0..m -> Nat] : W[0] = 0 /\ \A i \in 1..m : W[i] = N[<<W[i - 1], i>>]
  <2> DEFINE V == Nat
  <2>1. N \in [V \X (1..m) -> V] /\ 0 \in V
    BY <1>1
  <2> HIDE DEF N, V
  <2>2. \E W : Unrolls(V, m, 0, N, W)
    BY <1>0, <2>1, Recursion
  <2> QED
    BY <2>2 DEF V, Unrolls
<1>3. \A i \in 1..m : W[i] = After(actual, want, W[i - 1], i)
  <2> SUFFICES ASSUME NEW i \in 1..m PROVE W[i] = After(actual, want, W[i - 1], i)
    OBVIOUS
  <2>1. <<W[i - 1], i>> \in Nat \X (1..m)
    BY <1>0, <1>2
  <2>2. N[<<W[i - 1], i>>] = After(actual, want, W[i - 1], i)
    BY <2>1
  <2> QED
    BY <1>2, <2>2
<1>4. W = Body(W)
  BY <1>0, <1>2, <1>3
<1> DEFINE F == CHOOSE F : F = Body(F)
<1>5. F = Body(F)
  <2> HIDE DEF Body
  <2> QED
    BY <1>4
<1>6. Reached(actual, want) = F[m]
  BY DEF Reached, After, m
<1> HIDE DEF F
<1>7. F[0] = 0 /\ \A i \in 1..m : F[i] = After(actual, want, F[i - 1], i)
  BY <1>0, <1>5
<1>8. \A i \in 0..m : F[i] = W[i]
  <2> DEFINE T == {i \in 0..m : F[i] = W[i]}
  <2>1. 0 \in T /\ \A i \in 1..m : i - 1 \in T => i \in T
    BY <1>0, <1>2, <1>3, <1>7
  <2> HIDE DEF T
  <2>2. 0..m \subseteq T
    BY <1>0, <2>1, Upwards
  <2> QED
    BY <2>2 DEF T
<1> QED
  BY <1>0, <1>2, <1>3, <1>6, <1>8 DEF Scan, m

\* f picks the wanted events out of the actual ones, in order.
Picks(actual, want, f) ==
    /\ f \in [DOMAIN want -> DOMAIN actual]
    /\ \A i, j \in DOMAIN want : i < j => f[i] < f[j]
    /\ \A i \in DOMAIN want : actual[f[i]] = want[i]

\* A scan that has not come to its end has picked an event for each wanted one.
LEMMA ScanPicks ==
    ASSUME NEW S, NEW actual \in Seq(S), NEW want \in Seq(S), NEW W,
           Scan(actual, want, W), W[Len(want)] <= Len(actual)
    PROVE  Picks(actual, want, [i \in DOMAIN want |-> W[i]])
<1> DEFINE m == Len(want)
           n == Len(actual)
<1>0. m \in Nat /\ n \in Nat /\ DOMAIN want = 1..m /\ DOMAIN actual = 1..n
  OBVIOUS
<1>1. \A i \in 0..m : W[i] \in Nat
  BY DEF Scan
<1>2. \A i \in 1..m : /\ W[i] <= n => W[i] > W[i - 1] /\ actual[W[i]] = want[i]
                      /\ W[i] <= n + 1
  <2> SUFFICES ASSUME NEW i \in 1..m
               PROVE  /\ W[i] <= n => W[i] > W[i - 1] /\ actual[W[i]] = want[i]
                      /\ W[i] <= n + 1
    OBVIOUS
  <2>1. W[i - 1] \in Nat
    BY <1>0, <1>1
  <2>2. W[i] = After(actual, want, W[i - 1], i)
    BY DEF Scan
  <2> HIDE DEF m
  <2> DEFINE w == W[i - 1]
             r == W[i]
  <2> HIDE DEF w, r
  <2>3. w \in Nat /\ r = After(actual, want, w, i)
    BY <2>1, <2>2 DEF w, r
  <2>4. r \in Nat /\ r <= Len(actual) + 1
    BY <2>3, AfterIs
  <2>5. r \in Matches(actual, want, w, i) \cup {Len(actual) + 1}
    BY <2>3, AfterIs
  <2> QED
    BY <1>0, <2>3, <2>4, <2>5 DEF r, w, Matches
<1>3. \A i \in 1..m : W[i - 1] > n => W[i] > n
  <2> SUFFICES ASSUME NEW i \in 1..m, W[i - 1] > n, W[i] <= n PROVE FALSE
    BY <1>0, <1>1
  <2> QED
    BY <1>0, <1>1, <1>2
<1> HIDE DEF m, n
<1>4. \A i \in 0..m : W[i] <= n
  <2> DEFINE N == {d \in 0..m : W[m - d] <= n}
  <2>1. 0 \in N
    BY <1>0 DEF m, n
  <2>2. ASSUME NEW d \in 1..m, d - 1 \in N PROVE d \in N
    <3>1. m - d + 1 \in 1..m /\ W[m - d + 1] <= n /\ m - d \in 0..m
      BY <1>0, <2>2
    <3>2. ~(W[(m - d + 1) - 1] > n)
      BY <1>0, <1>1, <1>3, <3>1
    <3>3. (m - d + 1) - 1 = m - d
      BY <1>0
    <3> QED
      BY <1>0, <1>1, <3>1, <3>2, <3>3
  <2>3. 0..m \subseteq N
    <3> HIDE DEF N
    <3> QED
      BY <1>0, <2>1, <2>2, Upwards
  <2> SUFFICES ASSUME NEW i \in 0..m PROVE W[i] <= n
    OBVIOUS
  <2>4. m - i \in 0..m /\ m - (m - i) = i
    BY <1>0
  <2>5. m - i \in N
    BY <2>3, <2>4
  <2> QED
    BY <2>4, <2>5
<1>5. \A i \in 1..m : W[i] > W[i - 1] /\ actual[W[i]] = want[i]
  BY <1>0, <1>2, <1>4
<1>6. \A i, j \in 0..m : i < j => W[i] < W[j]
  <2> SUFFICES ASSUME NEW i \in 0..m PROVE \A j \in 0..m : i < j => W[i] < W[j]
    OBVIOUS
  <2> DEFINE N == {j \in 0..m : i < j => W[i] < W[j]}
  <2>1. 0 \in N
    BY <1>0
  <2>2. ASSUME NEW j \in 1..m, j - 1 \in N PROVE j \in N
    <3>1. W[j] > W[j - 1] /\ W[i] \in Nat /\ W[j] \in Nat /\ W[j - 1] \in Nat
      BY <1>0, <1>1, <1>5
    <3> QED
      BY <1>0, <2>2, <3>1
  <2>3. 0..m \subseteq N
    <3> HIDE DEF N
    <3> QED
      BY <1>0, <2>1, <2>2, Upwards
  <2> QED
    BY <2>3
<1>7. \A i \in 1..m : W[i] \in 1..n
  <2> SUFFICES ASSUME NEW i \in 1..m PROVE W[i] \in 1..n
    OBVIOUS
  <2>1. W[i] > W[i - 1] /\ W[i] \in Nat /\ W[i - 1] \in Nat /\ W[i] <= n
    BY <1>0, <1>1, <1>4, <1>5
  <2> QED
    BY <1>0, <2>1
<1> QED
  BY <1>0, <1>5, <1>6, <1>7 DEF Picks

\* The scan never gets further than any other way to pick them.
LEMMA ScanFirst ==
    ASSUME NEW S, NEW actual \in Seq(S), NEW want \in Seq(S), NEW W,
           Scan(actual, want, W), NEW f, Picks(actual, want, f)
    PROVE  W[Len(want)] <= Len(actual)
<1> DEFINE m == Len(want)
           n == Len(actual)
<1>0. m \in Nat /\ n \in Nat /\ DOMAIN want = 1..m /\ DOMAIN actual = 1..n
  OBVIOUS
<1>1. /\ \A i \in 0..m : W[i] \in Nat
      /\ W[0] = 0
      /\ \A i \in 1..m : W[i] = After(actual, want, W[i - 1], i)
  BY DEF Scan
<1>2. /\ \A i \in 1..m : f[i] \in 1..n /\ actual[f[i]] = want[i]
      /\ \A i, j \in 1..m : i < j => f[i] < f[j]
  BY <1>0 DEF Picks
<1>3. ASSUME NEW i \in 1..m, W[i - 1] < f[i] PROVE W[i] <= f[i]
  <2>1. W[i - 1] \in Nat /\ W[i] = After(actual, want, W[i - 1], i)
    BY <1>0, <1>1
  <2>2. f[i] \in (W[i - 1] + 1)..n /\ actual[f[i]] = want[i]
    BY <1>0, <1>2, <1>3, <2>1
  <2> HIDE DEF m
  <2> DEFINE w == W[i - 1]
             r == W[i]
  <2> HIDE DEF w, r
  <2>3. w \in Nat /\ r = After(actual, want, w, i)
    BY <2>1, <2>2 DEF w, r
  <2>4. \A j \in Matches(actual, want, w, i) : r <= j
    BY <2>3, AfterIs
  <2> QED
    BY <2>2, <2>4 DEF w, r, Matches
<1> HIDE DEF m, n
<1> DEFINE N == {i \in 0..m : i > 0 => W[i] <= f[i]}
<1>4. 0 \in N
  BY <1>0
<1>5. ASSUME NEW i \in 1..m, i - 1 \in N PROVE i \in N
  <2>1. W[i - 1] < f[i]
    <3>1. CASE i = 1
      BY <1>1, <1>2, <3>1
    <3>2. CASE i > 1
      <4>1. i - 1 \in 1..m /\ i - 1 < i
        BY <1>0, <3>2
      <4>2. W[i - 1] <= f[i - 1] /\ f[i - 1] < f[i]
        BY <1>2, <1>5, <4>1
      <4> QED
        BY <1>1, <1>2, <4>1, <4>2
    <3> QED
      BY <1>0, <3>1, <3>2
  <2> QED
    BY <1>0, <1>3, <2>1
<1>6. 0..m \subseteq N
  <2> HIDE DEF N
  <2> QED
    BY <1>0, <1>4, <1>5, Upwards
<1>7. W[m] <= n
  <2>1. CASE m = 0
    BY <1>0, <1>1, <2>1
  <2>2. CASE m > 0
    <3>1. m \in 1..m /\ m \in N
      BY <1>0, <1>6, <2>2
    <3> QED
      BY <1>0, <1>1, <1>2, <3>1
  <2> QED
    BY <1>0, <2>1, <2>2
<1> QED
  BY <1>7 DEF m, n

\* The scan comes to its end exactly when the wanted events can be picked.
LEMMA OrderIs ==
    ASSUME NEW S, NEW actual \in Seq(S), NEW want \in Seq(S)
    PROVE  ContainsInOrder(actual, want) <=> \E f : Picks(actual, want, f)
<1>1. PICK W : Scan(actual, want, W) /\ Reached(actual, want) = W[Len(want)]
  BY ReachedIs
<1>2. ContainsInOrder(actual, want) <=> W[Len(want)] <= Len(actual)
  BY <1>1 DEF ContainsInOrder
<1> QED
  BY <1>1, <1>2, ScanPicks, ScanFirst
-----------------------------------------------------------------------------
(* Pages.                                                                  *)

\* A page put behind others.
Plus(s, t) == s \o t

\* Pages can be put together in any grouping.
LEMMA PlusAssociates ==
    ASSUME NEW S, NEW s \in Seq(S), NEW t \in Seq(S), NEW u \in Seq(S)
    PROVE  Plus(Plus(s, t), u) = Plus(s, Plus(t, u))
BY ConcatAssociative DEF Plus

\* The pages put together, up to each of them.
Joined(S, pages, W) ==
    /\ W \in [0..Len(pages) -> Seq(S)] /\ W[0] = << >>
    /\ \A i \in 1..Len(pages) : W[i] = Plus(W[i - 1], pages[i])

\* FlattenSeq puts the pages together one by one.
LEMMA FlattenIs ==
    ASSUME NEW S, NEW pages \in Seq(Seq(S))
    PROVE  \E W : Joined(S, pages, W) /\ FlattenSeq(pages) = W[Len(pages)]
<1> DEFINE n == Len(pages)
           V == Seq(S)
           N == [p \in V \X (1..n) |-> Plus(p[1], pages[p[2]])]
           Body(W) == [i \in 1..n |-> IF i = 1 THEN pages[i] ELSE Plus(W[i - 1], pages[i])]
<1>0. n \in Nat /\ (n = 0 => pages = << >>) /\ \A i \in 1..n : pages[i] \in V
  OBVIOUS
<1>1. << >> \in V /\ \A s, t \in V : Plus(s, t) \in V
  BY DEF Plus
<1>2. \A t \in V : Plus(<< >>, t) = t
  BY ConcatEmptySeq DEF Plus
<1> HIDE DEF n, V
<1>3. N \in [V \X (1..n) -> V]
  BY <1>0, <1>1
<1>4. PICK W : Unrolls(V, n, << >>, N, W)
  <2> HIDE DEF N
  <2> QED
    BY <1>0, <1>1, <1>3, Recursion
<1>5. W \in [0..n -> V] /\ W[0] = << >>
  BY <1>4 DEF Unrolls
<1>6. ASSUME NEW i \in 1..n PROVE W[i] = Plus(W[i - 1], pages[i])
  <2>1. <<W[i - 1], i>> \in V \X (1..n)
    BY <1>0, <1>5
  <2>2. N[<<W[i - 1], i>>] = Plus(W[i - 1], pages[i])
    BY <2>1
  <2> QED
    BY <1>4, <2>2 DEF Unrolls
<1>7. Joined(S, pages, W)
  BY <1>5, <1>6 DEF Joined, n, V
<1>8. FlattenSeq(pages) = W[n]
  <2>1. CASE n = 0
    BY <1>0, <1>5, <2>1 DEF FlattenSeq, n
  <2>2. CASE n > 0
    <3> DEFINE F == CHOOSE F : F = Body(F)
               U == [i \in 1..n |-> W[i]]
    <3>0. W[1] = pages[1]
      <4>1. 1 \in 1..n /\ 1 - 1 = 0
        BY <1>0, <2>2
      <4>2. W[1] = Plus(W[0], pages[1])
        BY <1>6, <4>1
      <4> QED
        BY <1>0, <1>2, <1>5, <4>1, <4>2
    <3>1. U = Body(U)
      <4> SUFFICES ASSUME NEW i \in 1..n
                   PROVE  W[i] = IF i = 1 THEN pages[i] ELSE Plus(U[i - 1], pages[i])
        OBVIOUS
      <4>1. CASE i = 1
        BY <3>0, <4>1
      <4>2. CASE i # 1
        <5>1. i - 1 \in 1..n
          BY <1>0, <4>2
        <5>2. U[i - 1] = W[i - 1]
          BY <5>1
        <5> QED
          BY <1>6, <4>2, <5>2
      <4> QED
        BY <4>1, <4>2
    <3>2. F = Body(F)
      <4> HIDE DEF Body, U
      <4> QED
        BY <3>1
    <3>3. FlattenSeq(pages) = F[n]
      BY <1>0, <2>2 DEF FlattenSeq, Plus, n
    <3> HIDE DEF F
    <3>4. \A i \in 1..n : F[i] = IF i = 1 THEN pages[i] ELSE Plus(F[i - 1], pages[i])
      BY <3>2
    <3> DEFINE T == {i \in 0..n : i > 0 => F[i] = W[i]}
    <3>5. 0 \in T
      BY <1>0
    <3>6. ASSUME NEW i \in 1..n, i - 1 \in T PROVE i \in T
      <4>1. CASE i = 1
        BY <1>0, <3>0, <3>4, <4>1
      <4>2. CASE i # 1
        <5>1. F[i - 1] = W[i - 1]
          BY <1>0, <3>6, <4>2
        <5>2. F[i] = W[i]
          BY <1>6, <3>4, <4>2, <5>1
        <5> QED
          BY <1>0, <5>2
      <4> QED
        BY <4>1, <4>2
    <3>7. 0..n \subseteq T
      <4> HIDE DEF T
      <4> QED
        BY <1>0, <3>5, <3>6, Upwards
    <3> QED
      BY <1>0, <2>2, <3>3, <3>7
  <2> QED
    BY <1>0, <2>1, <2>2
<1> QED
  BY <1>7, <1>8 DEF n

\* Items in two parts are the items.
LEMMA FlattenSplit ==
    ASSUME NEW S, NEW pages \in Seq(Seq(S)), NEW k \in 0..Len(pages)
    PROVE  LET first == FlattenSeq(SubSeq(pages, 1, k))
               rest  == FlattenSeq(SubSeq(pages, k + 1, Len(pages)))
           IN  /\ first \in Seq(S) /\ rest \in Seq(S)
               /\ FlattenSeq(pages) = first \o rest
<1> DEFINE n == Len(pages)
           head == SubSeq(pages, 1, k)
           tail == SubSeq(pages, k + 1, n)
<1>0. n \in Nat /\ k \in Nat /\ k <= n /\ \A i \in 1..n : pages[i] \in Seq(S)
  OBVIOUS
<1>1. /\ head \in Seq(Seq(S)) /\ Len(head) = k
      /\ \A i \in 1..k : head[i] = pages[i]
  <2>1. \A i \in 1..k : pages[i] \in Seq(S)
    BY <1>0
  <2> QED
    BY <1>0, <2>1, SubSeqProperties
<1>2. /\ tail \in Seq(Seq(S)) /\ Len(tail) = n - k
      /\ \A i \in 1..(n - k) : tail[i] = pages[k + i]
  <2>1. \A i \in (k + 1)..n : pages[i] \in Seq(S)
    BY <1>0
  <2>2. k + 1 \in Int /\ n \in Int
    BY <1>0
  <2>3. /\ tail \in Seq(Seq(S)) /\ Len(tail) = (IF k + 1 <= n THEN n - (k + 1) + 1 ELSE 0)
        /\ \A i \in 1..(n - (k + 1) + 1) : tail[i] = pages[(k + 1) + i - 1]
    BY <2>1, <2>2, SubSeqProperties
  <2> QED
    BY <1>0, <2>3, SMTT(30)
<1>3. PICK W : Joined(S, pages, W) /\ FlattenSeq(pages) = W[n]
  BY FlattenIs
<1> HIDE DEF head, tail
<1>4. PICK A : Joined(S, head, A) /\ FlattenSeq(head) = A[k]
  BY <1>1, FlattenIs
<1>5. PICK B : Joined(S, tail, B) /\ FlattenSeq(tail) = B[n - k]
  BY <1>2, FlattenIs
<1>6. /\ W \in [0..n -> Seq(S)] /\ W[0] = << >>
      /\ \A i \in 1..n : W[i] = Plus(W[i - 1], pages[i])
  BY <1>3 DEF Joined
<1>7. /\ A \in [0..k -> Seq(S)] /\ A[0] = << >>
      /\ \A i \in 1..k : A[i] = Plus(A[i - 1], pages[i])
  BY <1>1, <1>4 DEF Joined
<1>8. /\ B \in [0..(n - k) -> Seq(S)] /\ B[0] = << >>
      /\ \A i \in 1..(n - k) : B[i] = Plus(B[i - 1], pages[k + i])
  BY <1>2, <1>5 DEF Joined
<1> HIDE DEF n
<1>9. A[k] = W[k]
  <2> DEFINE T == {i \in 0..k : A[i] = W[i]}
  <2>1. 0 \in T
    BY <1>0, <1>6, <1>7
  <2>2. ASSUME NEW i \in 1..k, i - 1 \in T PROVE i \in T
    BY <1>0, <1>6, <1>7, <2>2
  <2>3. 0..k \subseteq T
    <3> HIDE DEF T
    <3> QED
      BY <1>0, <2>1, <2>2, Upwards
  <2> QED
    BY <1>0, <2>3
<1>10. W[n] = Plus(A[k], B[n - k])
  <2> DEFINE T == {i \in 0..(n - k) : W[k + i] = Plus(A[k], B[i])}
  <2>0. n - k \in Nat /\ A[k] \in Seq(S)
    BY <1>0, <1>7
  <2>1. 0 \in T
    <3>1. W[k + 0] = W[k] /\ Plus(A[k], << >>) = A[k]
      BY <1>0, <2>0, ConcatEmptySeq DEF Plus
    <3> QED
      BY <1>8, <1>9, <2>0, <3>1
  <2>2. ASSUME NEW i \in 1..(n - k), i - 1 \in T PROVE i \in T
    <3>1. W[k + (i - 1)] = Plus(A[k], B[i - 1])
      BY <2>2
    <3>2. /\ k + i \in 1..n /\ (k + i) - 1 = k + (i - 1) /\ i - 1 \in 0..(n - k)
          /\ i \in 0..(n - k)
      BY <1>0
    <3>3. W[k + i] = Plus(Plus(A[k], B[i - 1]), pages[k + i])
      BY <1>6, <3>1, <3>2
    <3>4. B[i - 1] \in Seq(S) /\ pages[k + i] \in Seq(S) /\ B[i] = Plus(B[i - 1], pages[k + i])
      BY <1>0, <1>8, <3>2
    <3>5. Plus(Plus(A[k], B[i - 1]), pages[k + i]) = Plus(A[k], Plus(B[i - 1], pages[k + i]))
      BY <2>0, <3>4, PlusAssociates
    <3> QED
      BY <3>2, <3>3, <3>4, <3>5
  <2>3. 0..(n - k) \subseteq T
    <3> HIDE DEF T
    <3> QED
      BY <2>0, <2>1, <2>2, Upwards
  <2>4. n - k \in T /\ k + (n - k) = n
    BY <1>0, <2>0, <2>3
  <2> QED
    BY <2>4
<1>11. A[k] \in Seq(S) /\ B[n - k] \in Seq(S)
  BY <1>0, <1>7, <1>8
<1> QED
  BY <1>3, <1>4, <1>5, <1>10, <1>11 DEF head, tail, n, Plus
-----------------------------------------------------------------------------
(* The checks of a drain.                                                  *)

\* No item of s comes twice.
Distinct(s) == \A i, j \in DOMAIN s : s[i] = s[j] => i = j

\* A sequence is as long as it has elements when none comes twice.
LEMMA DistinctCount ==
    ASSUME NEW S, NEW s \in Seq(S)
    PROVE  Len(s) = Cardinality(Elements(s)) <=> Distinct(s)
<1> DEFINE n == Len(s)
           E == Elements(s)
<1>1. n \in Nat /\ DOMAIN s = 1..n
  OBVIOUS
<1>2. s \in Surjection(1..n, E)
  BY <1>1 DEF Surjection, Elements
<1>3. IsFiniteSet(1..n) /\ Cardinality(1..n) = n
  BY <1>1, FS_Interval
<1>4. Cardinality(E) = n <=> s \in Injection(1..n, E)
  <2> HIDE DEF n, E
  <2> QED
    BY <1>2, <1>3, FS_Surjection
<1>5. s \in Injection(1..n, E) <=> Distinct(s)
  BY <1>1, <1>2 DEF Injection, IsInjective, Surjection, Distinct
<1> QED
  BY <1>4, <1>5

\* The elements of two sequences put together.
LEMMA ElementsOfBoth ==
    ASSUME NEW S, NEW s \in Seq(S), NEW t \in Seq(S)
    PROVE  Elements(s \o t) = Elements(s) \cup Elements(t)
<1>1. /\ s \o t \in Seq(S) /\ Len(s \o t) = Len(s) + Len(t)
      /\ \A i \in 1..(Len(s) + Len(t)) :
           (s \o t)[i] = IF i <= Len(s) THEN s[i] ELSE t[i - Len(s)]
  BY ConcatProperties
<1>2. /\ Len(s) \in Nat /\ Len(t) \in Nat
      /\ DOMAIN s = 1..Len(s) /\ DOMAIN t = 1..Len(t)
      /\ DOMAIN (s \o t) = 1..(Len(s) + Len(t))
  BY <1>1
<1>3. ASSUME NEW i \in DOMAIN s PROVE i \in DOMAIN (s \o t) /\ (s \o t)[i] = s[i]
  BY <1>1, <1>2
<1>4. ASSUME NEW i \in DOMAIN t
      PROVE  Len(s) + i \in DOMAIN (s \o t) /\ (s \o t)[Len(s) + i] = t[i]
  BY <1>1, <1>2
<1>5. ASSUME NEW i \in DOMAIN (s \o t)
      PROVE  (s \o t)[i] \in Elements(s) \cup Elements(t)
  BY <1>1, <1>2 DEF Elements
<1> QED
  BY <1>3, <1>4, <1>5, ZenonT(60) DEF Elements

\* The two parts of a drain pass when they are one that serves no item twice.
LEMMA ResumesIs ==
    ASSUME NEW S, NEW first \in Seq(S), NEW rest \in Seq(S), NEW total
    PROVE  LET all == first \o rest
           IN  /\ Resumes(first, rest, total)
                    <=> Distinct(all) /\ total \in {Unset, Len(all)}
               /\ PagesCover(all, total)
                    <=> Distinct(all) /\ total \in {Unset, Len(all)}
<1> DEFINE all == first \o rest
           n == Len(first)
<1>1. /\ all \in Seq(S) /\ Len(all) = Len(first) + Len(rest)
      /\ \A i \in 1..(Len(first) + Len(rest)) :
           all[i] = IF i <= Len(first) THEN first[i] ELSE rest[i - Len(first)]
  BY ConcatProperties
<1>2. Elements(all) = Elements(first) \cup Elements(rest)
  BY ElementsOfBoth
<1>3. Len(all) = Cardinality(Elements(all)) <=> Distinct(all)
  BY <1>1, DistinctCount
<1>4. NoDupes(first, rest) <=> Distinct(all)
  BY <1>1, <1>2, <1>3 DEF NoDupes
<1>5. Distinct(all) => Elements(first) \cap Elements(rest) = {}
  <2> SUFFICES ASSUME Distinct(all), NEW x \in Elements(first), x \in Elements(rest)
               PROVE  FALSE
    OBVIOUS
  <2>1. PICK i \in DOMAIN first, j \in DOMAIN rest : first[i] = x /\ rest[j] = x
    BY DEF Elements
  <2>2. /\ n \in Nat /\ i \in 1..n /\ j \in 1..Len(rest) /\ Len(rest) \in Nat
        /\ DOMAIN all = 1..(n + Len(rest))
    BY <1>1, <2>1
  <2>3. all[i] = x /\ all[n + j] = x
    BY <1>1, <2>1, <2>2
  <2>4. i \in DOMAIN all /\ n + j \in DOMAIN all /\ i # n + j
    BY <2>2
  <2> QED
    BY <2>3, <2>4 DEF Distinct
<1> HIDE DEF all
<1>6. Resumes(first, rest, total) <=> Distinct(all) /\ total \in {Unset, Len(all)}
  BY <1>2, <1>3, <1>4, <1>5 DEF Resumes
<1>7. PagesCover(all, total) <=> Distinct(all) /\ total \in {Unset, Len(all)}
  BY <1>3 DEF PagesCover
<1> QED
  BY <1>6, <1>7 DEF all

\* A drain and the same once more pass when there is nothing to drain.
LEMMA TwiceIs ==
    ASSUME NEW S, NEW all \in Seq(S), NEW total
    PROVE  Resumes(all, all, total) <=> all = << >> /\ total \in {Unset, 0}
<1>1. Resumes(all, all, total)
        <=> Distinct(all \o all) /\ total \in {Unset, Len(all \o all)}
  BY ResumesIs
<1>2. /\ all \o all \in Seq(S) /\ Len(all \o all) = Len(all) + Len(all)
      /\ \A i \in 1..(Len(all) + Len(all)) :
           (all \o all)[i] = IF i <= Len(all) THEN all[i] ELSE all[i - Len(all)]
  BY ConcatProperties
<1>3. CASE all = << >>
  BY <1>1, <1>2, <1>3 DEF Distinct
<1>4. CASE all # << >>
  <2>1. Len(all) \in Nat /\ Len(all) >= 1
    BY <1>4
  <2>2. DOMAIN (all \o all) = 1..(Len(all) + Len(all))
    BY <1>2
  <2>3. (all \o all)[1] = all[1] /\ (all \o all)[Len(all) + 1] = all[1]
    BY <1>2, <2>1
  <2>4. ~Distinct(all \o all)
    BY <2>1, <2>2, <2>3 DEF Distinct
  <2> QED
    BY <1>1, <1>4, <2>4
<1> QED
  BY <1>3, <1>4
-----------------------------------------------------------------------------
(* The drain.                                                              *)

\* The greater of two numbers.
LEMMA MaxOfTwo ==
    ASSUME NEW a \in Int, NEW b \in Int
    PROVE  Max({a, b}) = IF a >= b THEN a ELSE b
BY DEF Max

\* The lesser of two numbers.
LEMMA MinOfTwo ==
    ASSUME NEW a \in Int, NEW b \in Int
    PROVE  Min({a, b}) = IF a <= b THEN a ELSE b
BY DEF Min

\* Where the first drain stops.
Stop(n, limit) == IF limit < 1 THEN 1 ELSE IF limit < n THEN limit ELSE n

\* LastPage of a first drain is where it stops.
LEMMA StopIs ==
    ASSUME NEW n \in Nat, n >= 1, NEW limit \in Nat
    PROVE  LastPage(n, 1, limit) = Stop(n, limit)
<1>1. limit # Unset /\ 1 + limit - 1 = limit
  BY JudgementAssumption
<1>2. Max({1, limit}) = IF 1 >= limit THEN 1 ELSE limit
  BY MaxOfTwo
<1> DEFINE least == Max({1, limit})
<1>3. least \in Int /\ n \in Int
  BY <1>2
<1>4. Min({n, least}) = IF n <= least THEN n ELSE least
  <2> HIDE DEF least
  <2> QED
    BY <1>3, MinOfTwo
<1> QED
  BY <1>1, <1>2, <1>4 DEF LastPage, Stop

\* The two drains read the pages up to the stop and the rest, or everything twice.
LEMMA DrainIs ==
    ASSUME NEW S, NEW pages \in Seq(Seq(S)), NEW n, n = Len(pages), n >= 1,
           NEW limit \in Nat, NEW k, k = Stop(n, limit)
    PROVE  LET parts == DrainInTwo(pages, limit)
               from  == IF k < n THEN k + 1 ELSE 1
           IN  /\ k \in 1..n
               /\ parts = <<parts[1], parts[2]>>
               /\ parts[1].items = FlattenSeq(SubSeq(pages, 1, k))
               /\ parts[1].pageCount = k
               /\ parts[2].items = FlattenSeq(SubSeq(pages, from, n))
               /\ parts[2].pageCount = n - from + 1
<1> DEFINE from == IF k < n THEN k + 1 ELSE 1
           token == IF k < n THEN k + 1 ELSE Unset
           first == Drain(pages, Unset, limit)
<1>0. n \in Nat /\ k \in 1..n /\ Unset \notin Nat
  BY JudgementAssumption DEF Stop
<1>1. first = [items        |-> FlattenSeq(SubSeq(pages, 1, k)),
               pageCount    |-> k,
               continuation |-> token]
  <2>1. FirstPage(Unset) = 1 /\ LastPage(n, 1, limit) = k
    BY StopIs DEF FirstPage
  <2> QED
    BY <1>0, <2>1 DEF Drain
<1>2. FirstPage(Lookup(token)) = from
  BY <1>0 DEF FirstPage, Lookup, Empty
<1>3. LastPage(n, from, Unset) = n
  BY DEF LastPage
<1>4. /\ Drain(pages, Lookup(token), Unset).items = FlattenSeq(SubSeq(pages, from, n))
      /\ Drain(pages, Lookup(token), Unset).pageCount = n - from + 1
  BY <1>2, <1>3 DEF Drain
<1>5. DrainInTwo(pages, limit) = <<first, Drain(pages, Lookup(token), Unset)>>
  BY <1>1 DEF DrainInTwo
<1> HIDE DEF first, token
<1> QED
  BY <1>0, <1>1, <1>4, <1>5

-----------------------------------------------------------------------------
(* The assertions.                                                         *)

\* The three parts of AssertionsExact in a reached state.
LEMMA AssertionsStep ==
    ASSUME JudgedInv PROVE AssertionsExact
<1>1. MaxLen \in Nat /\ Unset \notin Nat
  BY JudgementAssumption
<1>2. ASSUME Judged("order")
      PROVE  LET actual == given[1]
                 want   == given[2]
             IN  Result <=> \E f \in [DOMAIN want -> DOMAIN actual] :
                     /\ \A i, j \in DOMAIN want : i < j => f[i] < f[j]
                     /\ \A i \in DOMAIN want : actual[f[i]] = want[i]
  <2>1. given[1] \in Seq(Events) /\ given[2] \in Seq(Events)
    BY <1>1, <1>2, UpToIs DEF JudgedInv, Inputs, Judged
  <2>2. Result = ContainsInOrder(given[1], given[2])
    BY <1>2 DEF JudgedInv, Judged, Result, Outcome
  <2>3. ContainsInOrder(given[1], given[2]) \in BOOLEAN
    BY DEF ContainsInOrder
  <2>4. ContainsInOrder(given[1], given[2]) <=> \E f : Picks(given[1], given[2], f)
    BY <2>1, OrderIs
  <2>5. Result <=> \E f : Picks(given[1], given[2], f)
    BY <2>2, <2>4
  <2> QED
    BY <2>5 DEF Picks
<1>3. ASSUME Judged("resume")
      PROVE  LET all == given[1] \o given[2]
             IN  /\ Result[1] <=> /\ \A i, j \in DOMAIN all : all[i] = all[j] => i = j
                                  /\ given[3] \in {Unset, Len(all)}
                 /\ Result[1] = Result[2]
  <2>1. given[1] \in Seq(Items) /\ given[2] \in Seq(Items)
    BY <1>3, UpToIs DEF JudgedInv, Inputs, Judged
  <2>2. Result = <<Resumes(given[1], given[2], given[3]),
                   PagesCover(given[1] \o given[2], given[3])>>
    BY <1>3 DEF JudgedInv, Judged, Result, Outcome
  <2>3. Result[1] = Resumes(given[1], given[2], given[3])
        /\ Result[2] = PagesCover(given[1] \o given[2], given[3])
    BY <2>2
  <2>4. Resumes(given[1], given[2], given[3]) \in BOOLEAN
        /\ PagesCover(given[1] \o given[2], given[3]) \in BOOLEAN
    BY DEF Resumes, PagesCover
  <2> DEFINE all == given[1] \o given[2]
             good == Distinct(all) /\ given[3] \in {Unset, Len(all)}
  <2>5. /\ Resumes(given[1], given[2], given[3]) <=> good
        /\ PagesCover(given[1] \o given[2], given[3]) <=> good
    BY <2>1, ResumesIs
  <2>6. good \in BOOLEAN
    OBVIOUS
  <2> HIDE DEF good
  <2>7. Result[1] = good /\ Result[2] = good
    BY <2>3, <2>4, <2>5, <2>6
  <2> QED
    BY <2>7 DEF good, Distinct
<1>4. ASSUME Judged("drain")
      PROVE  LET all   == FlattenSeq(given[1])
                 part  == Result[1]
                 whole == Len(part[1].items) + Len(part[2].items) = Len(all)
                 once  == \A i, j \in DOMAIN all : all[i] = all[j] => i = j
             IN  IF Max({1, given[2]}) < Len(given[1])
                 THEN /\ whole /\ part[1].pageCount + part[2].pageCount = Len(given[1])
                      /\ Result[2] <=> once /\ given[3] \in {Unset, Len(all)}
                 ELSE Result[2] <=> all = << >> /\ given[3] \in {Unset, 0}
  <2> DEFINE pages == given[1]
             limit == given[2]
             n     == Len(pages)
             all   == FlattenSeq(pages)
             parts == DrainInTwo(pages, limit)
             k     == Stop(n, limit)
             first == parts[1].items
             rest  == parts[2].items
  <2>1. /\ pages \in UpTo(UpTo(Items, 2), MaxLen) /\ pages # << >>
        /\ limit \in 0..MaxLen
    BY <1>4 DEF JudgedInv, Inputs, Judged
  <2>2. limit \in Nat
    BY <1>1, <2>1
  <2>3. pages \in Seq(Seq(Items))
    <3>1. pages \in Seq(UpTo(Items, 2))
      BY <1>1, <2>1, UpToIs
    <3>2. UpTo(Items, 2) \subseteq Seq(Items)
      BY UpToIs
    <3> QED
      BY <3>1, <3>2, SeqMonotonic
  <2>4. n \in Nat /\ n >= 1
    BY <2>1, <2>3, EmptySeq
  <2>5. Result = <<parts, Resumes(first, rest, given[3])>>
    BY <1>4 DEF JudgedInv, Judged, Result, Outcome
  <2>6. Result[1] = parts /\ Result[2] = Resumes(first, rest, given[3])
    BY <2>5
  <2> HIDE DEF pages, limit, parts, all, n
  <2>7. /\ k \in 1..n
        /\ first = FlattenSeq(SubSeq(pages, 1, k)) /\ parts[1].pageCount = k
        /\ k < n => /\ rest = FlattenSeq(SubSeq(pages, k + 1, n))
                    /\ parts[2].pageCount = n - k
        /\ k = n => rest = FlattenSeq(SubSeq(pages, 1, n))
    BY <2>2, <2>3, <2>4, DrainIs DEF parts, n
  <2>8. Max({1, limit}) < n <=> k < n
    BY <2>2, <2>4, MaxOfTwo DEF Stop
  <2>9. k < n => first \in Seq(Items) /\ rest \in Seq(Items) /\ all = first \o rest
    <3> SUFFICES ASSUME k < n
                 PROVE  first \in Seq(Items) /\ rest \in Seq(Items) /\ all = first \o rest
      OBVIOUS
    <3>1. k \in 0..Len(pages)
      BY <2>4, <2>7 DEF n
    <3> HIDE DEF k, first, rest
    <3> QED
      BY <2>3, <2>7, <3>1, FlattenSplit DEF all, n
  <2>10. Resumes(first, rest, given[3]) \in BOOLEAN
    BY DEF Resumes
  <2>11. CASE k < n
    <3>1. Len(first) + Len(rest) = Len(all)
      BY <2>9, <2>11, ConcatProperties
    <3>2. Resumes(first, rest, given[3]) <=> Distinct(all) /\ given[3] \in {Unset, Len(all)}
      BY <2>9, <2>11, ResumesIs, ZenonT(60)
    <3>3. parts[1].pageCount + parts[2].pageCount = n
      BY <2>4, <2>7, <2>11
    <3> QED
      BY <2>6, <2>8, <2>10, <2>11, <3>1, <3>2, <3>3
         DEF Distinct, all, n, limit, pages
  <2>12. CASE k = n
    <3>1. SubSeq(pages, 1, n) = pages
      BY <2>3, SubSeqFull DEF n
    <3>2. first = all /\ rest = all
      BY <2>7, <2>12, <3>1 DEF all
    <3>3. all \in Seq(Items)
      <4>1. PICK W : Joined(Items, pages, W) /\ all = W[n]
        BY <2>3, FlattenIs DEF all, n
      <4> QED
        BY <2>4, <4>1 DEF Joined, n
    <3>4. Resumes(all, all, given[3]) <=> all = << >> /\ given[3] \in {Unset, 0}
      BY <3>3, TwiceIs
    <3> QED
      BY <2>4, <2>6, <2>8, <2>10, <2>12, <3>2, <3>4 DEF all, n, limit, pages
  <2>13. k < n \/ k = n
    BY <2>4, <2>7
  <2> QED
    BY <2>11, <2>12, <2>13
<1> QED
  BY <1>2, <1>3, <1>4 DEF AssertionsExact

\* For sequences of any length: the scan of sequence ... contains_in_order, which
\* reads the metadata only once, finds the wanted events exactly when they are
\* there in order; resumes_without_gap, and pages_cover_set on a drain in one
\* piece, pass exactly when no item is served twice and as many as expected; and
\* the two drains of D-403 pass so exactly when max_pages stops the first before
\* its last page.
THEOREM AssertionsHold == Spec => []AssertionsExact
<1>1. JudgedInv => AssertionsExact
  BY AssertionsStep
<1> QED
  BY <1>1, JudgedAlways, PTL

-----------------------------------------------------------------------------
(* The percentiles.                                                        *)

\* p brings the n values of s into ascending order.
Sorts(s, n, p) ==
    /\ p \in Bijection(1..n, 1..n)
    /\ \A i, j \in 1..n : i < j => s[p[i]] <= s[p[j]]

\* A sequence of numbers has a greatest one.
LEMMA GreatestIs ==
    ASSUME NEW n \in Nat \ {0}, NEW s, \A i \in 1..n : s[i] \in Nat
    PROVE  \E m \in 1..n : \A i \in 1..n : s[i] <= s[m]
<1> DEFINE T == {k \in 0..n : k > 0 => \E m \in 1..k : \A i \in 1..k : s[i] <= s[m]}
<1>1. 0 \in T
  OBVIOUS
<1>2. ASSUME NEW k \in 1..n, k - 1 \in T PROVE k \in T
  <2>1. CASE k = 1
    <3>1. 1 \in 1..k /\ \A i \in 1..k : s[i] <= s[1]
      BY <2>1
    <3> QED
      BY <3>1
  <2>2. CASE k > 1
    <3>1. PICK m \in 1..(k - 1) : \A i \in 1..(k - 1) : s[i] <= s[m]
      BY <1>2, <2>2
    <3>2. s[m] \in Nat /\ s[k] \in Nat /\ m \in 1..k
      BY <2>2
    <3>3. CASE s[k] <= s[m]
      <4>1. \A i \in 1..k : s[i] <= s[m]
        BY <3>1, <3>3
      <4> QED
        BY <3>2, <4>1
    <3>4. CASE s[m] <= s[k]
      <4>1. ASSUME NEW i \in 1..k PROVE s[i] <= s[k]
        <5>1. CASE i = k
          BY <3>2, <5>1
        <5>2. CASE i # k
          <6>1. i \in 1..(k - 1) /\ s[i] \in Nat
            BY <5>2
          <6>2. s[i] <= s[m]
            BY <3>1, <6>1
          <6> QED
            BY <3>2, <3>4, <6>1, <6>2
        <5> QED
          BY <5>1, <5>2
      <4> QED
        BY <2>2, <4>1
    <3> QED
      BY <3>2, <3>3, <3>4
  <2> QED
    BY <2>1, <2>2
<1>3. 0..n \subseteq T
  <2> HIDE DEF T
  <2> QED
    BY <1>1, <1>2, Upwards
<1> QED
  BY <1>3

\* Two positions changed for each other.
Swapped(n, m, i) == IF i = m THEN n ELSE IF i = n THEN m ELSE i

\* Numbers can be brought into ascending order: the greatest goes last.
LEMMA CanBeSorted ==
    ASSUME NEW n \in Nat, NEW s \in [1..n -> Nat]
    PROVE  \E p : Sorts(s, n, p)
<1> DEFINE T == {k \in 0..n : \A t \in [1..k -> Nat] : \E p : Sorts(t, k, p)}
<1>1. 0 \in T
  <2> SUFFICES ASSUME NEW t \in [1..0 -> Nat] PROVE Sorts(t, 0, [i \in 1..0 |-> i])
    OBVIOUS
  <2> QED
    BY DEF Sorts, Bijection, Injection, Surjection, IsInjective
<1>2. ASSUME NEW k \in 1..n, k - 1 \in T PROVE k \in T
  <2> SUFFICES ASSUME NEW t \in [1..k -> Nat] PROVE \E p : Sorts(t, k, p)
    OBVIOUS
  <2>1. PICK m \in 1..k : \A i \in 1..k : t[i] <= t[m]
    <3>1. k \in Nat \ {0} /\ \A i \in 1..k : t[i] \in Nat
      OBVIOUS
    <3> QED
      BY <3>1, GreatestIs
  <2> DEFINE q(i) == Swapped(k, m, i)
             u == [i \in 1..(k - 1) |-> t[q(i)]]
  <2>2. /\ \A i \in 1..k : q(i) \in 1..k /\ q(q(i)) = i
        /\ q(k) = m
    BY DEF Swapped
  <2>3. u \in [1..(k - 1) -> Nat]
    BY <2>2
  <2>4. PICK r : Sorts(u, k - 1, r)
    BY <1>2, <2>3
  <2> DEFINE p == [i \in 1..k |-> IF i = k THEN m ELSE q(r[i])]
  <2>5. /\ r \in [1..(k - 1) -> 1..(k - 1)]
        /\ \A i, j \in 1..(k - 1) : r[i] = r[j] => i = j
        /\ \A y \in 1..(k - 1) : \E i \in 1..(k - 1) : r[i] = y
        /\ \A i, j \in 1..(k - 1) : i < j => u[r[i]] <= u[r[j]]
    BY <2>4 DEF Sorts, Bijection, Injection, Surjection, IsInjective
  <2> HIDE DEF q
  <2>6. \A i \in 1..k : i # k => i \in 1..(k - 1) /\ r[i] \in 1..(k - 1) /\ r[i] \in 1..k
    <3> SUFFICES ASSUME NEW i \in 1..k, i # k
                 PROVE  i \in 1..(k - 1) /\ r[i] \in 1..(k - 1) /\ r[i] \in 1..k
      OBVIOUS
    <3>1. i \in 1..(k - 1)
      OBVIOUS
    <3>2. r[i] \in 1..(k - 1)
      BY <2>5, <3>1
    <3> QED
      BY <3>1, <3>2
  <2>7. p \in [1..k -> 1..k]
    BY <2>2, <2>6
  <2>8. \A i \in 1..k : i # k => p[i] = q(r[i]) /\ q(p[i]) = r[i] /\ p[i] # m
    <3> SUFFICES ASSUME NEW i \in 1..k, i # k
                 PROVE  p[i] = q(r[i]) /\ q(p[i]) = r[i] /\ p[i] # m
      OBVIOUS
    <3>1. r[i] \in 1..k /\ r[i] # k
      BY <2>6
    <3>2. p[i] = q(r[i]) /\ q(p[i]) = r[i]
      BY <2>2, <3>1
    <3>3. q(m) = k
      BY <2>2
    <3> QED
      BY <3>1, <3>2, <3>3
  <2>9. p[k] = m
    OBVIOUS
  <2>10. ASSUME NEW i \in 1..k, NEW j \in 1..k, p[i] = p[j] PROVE i = j
    BY <2>5, <2>6, <2>8, <2>9, <2>10
  <2>11. ASSUME NEW y \in 1..k PROVE \E i \in 1..k : p[i] = y
    <3>1. CASE q(y) = k
      BY <2>2, <2>9, <3>1
    <3>2. CASE q(y) # k
      <4>1. q(y) \in 1..(k - 1)
        BY <2>2, <3>2
      <4>2. PICK i \in 1..(k - 1) : r[i] = q(y)
        BY <2>5, <4>1
      <4>3. i \in 1..k /\ i # k
        OBVIOUS
      <4>4. p[i] = q(q(y))
        BY <2>8, <4>2, <4>3
      <4> QED
        BY <2>2, <4>3, <4>4
    <3> QED
      BY <3>1, <3>2
  <2>12. ASSUME NEW i \in 1..k, NEW j \in 1..k, i < j PROVE t[p[i]] <= t[p[j]]
    <3>1. CASE j = k
      BY <2>1, <2>7, <2>9, <3>1
    <3>2. CASE j # k
      <4>1. i \in 1..(k - 1) /\ j \in 1..(k - 1)
        BY <2>12, <3>2
      <4>2. u[r[i]] <= u[r[j]] /\ r[i] \in 1..(k - 1) /\ r[j] \in 1..(k - 1)
        BY <2>5, <2>12, <4>1
      <4>3. u[r[i]] = t[p[i]] /\ u[r[j]] = t[p[j]]
        <5>1. p[i] = q(r[i]) /\ p[j] = q(r[j])
          BY <2>8, <2>12, <3>2, <4>1
        <5> HIDE DEF p
        <5> QED
          BY <4>2, <5>1
      <4> QED
        BY <4>2, <4>3
    <3> QED
      BY <3>1, <3>2
  <2> HIDE DEF p
  <2>13. p \in Bijection(1..k, 1..k)
    BY <2>7, <2>10, <2>11 DEF Bijection, Injection, Surjection, IsInjective
  <2>14. Sorts(t, k, p)
    BY <2>12, <2>13 DEF Sorts
  <2> QED
    BY <2>14
<1>3. 0..n \subseteq T
  <2> HIDE DEF T
  <2> QED
    BY <1>1, <1>2, Upwards
<1>4. n \in T
  <2> HIDE DEF T
  <2> QED
    BY <1>3
<1> QED
  BY <1>4

\* Sorted is one of these orders.
LEMMA SortedIs ==
    ASSUME NEW n \in Nat, NEW s \in [1..n -> Nat]
    PROVE  \E p : Sorts(s, n, p) /\ Sorted(s) = [i \in 1..n |-> s[p[i]]]
<1>1. DOMAIN s = 1..n
  OBVIOUS
<1> DEFINE order == CHOOSE p \in Bijection(1..n, 1..n) :
                        \A i, j \in 1..n : i < j => s[p[i]] <= s[p[j]]
<1>2. \E p \in Bijection(1..n, 1..n) :
                        \A i, j \in 1..n : i < j => s[p[i]] <= s[p[j]]
  BY CanBeSorted DEF Sorts
<1>3. Sorts(s, n, order)
  BY <1>2 DEF Sorts
<1>4. Sorted(s) = [i \in 1..n |-> s[order[i]]]
  BY <1>1 DEF Sorted
<1> HIDE DEF order
<1> QED
  BY <1>3, <1>4

\* The samples at or below a percentile in thousandths, and at or above.
Below(s, n, v) == {i \in 1..n : 1000 * s[i] <= v}
Above(s, n, v) == {i \in 1..n : 1000 * s[i] >= v}

\* v lies between the sorted samples lo and hi.
Held(s, p, lo, hi, v) == 1000 * s[p[lo]] <= v /\ v <= 1000 * s[p[hi]]

Flanked(s, n, lo, hi, v) ==
    /\ lo <= Cardinality(Below(s, n, v)) /\ Cardinality(Below(s, n, v)) \in Nat
    /\ n - hi + 1 <= Cardinality(Above(s, n, v)) /\ Cardinality(Above(s, n, v)) \in Nat

\* A value between the sorted samples lo and hi has lo samples at or below it
\* and n - hi + 1 at or above.
LEMMA BothSides ==
    ASSUME NEW n \in Nat, NEW s \in [1..n -> Nat], NEW p, Sorts(s, n, p),
           NEW lo \in 1..n, NEW hi \in 1..n, NEW v \in Nat, Held(s, p, lo, hi, v)
    PROVE  Flanked(s, n, lo, hi, v)
<1> USE DEF Held
<1> DEFINE B == {i \in 1..n : 1000 * s[i] <= v}
           A == {i \in 1..n : 1000 * s[i] >= v}
<1>0. B = Below(s, n, v) /\ A = Above(s, n, v)
  BY DEF Below, Above
<1>1. /\ p \in [1..n -> 1..n]
      /\ \A i, j \in 1..n : p[i] = p[j] => i = j
      /\ \A i, j \in 1..n : i < j => s[p[i]] <= s[p[j]]
  BY DEF Sorts, Bijection, Injection, IsInjective
<1>2. \A i \in 1..n : p[i] \in 1..n /\ s[p[i]] \in Nat
  BY <1>1
<1>3. IsFiniteSet(B) /\ IsFiniteSet(A)
  <2>1. B \subseteq 1..n /\ A \subseteq 1..n
    OBVIOUS
  <2>2. IsFiniteSet(1..n)
    BY FS_Interval
  <2> HIDE DEF A, B
  <2> QED
    BY <2>1, <2>2, FS_Subset
<1>4. \A i \in 1..lo : i \in 1..n /\ p[i] \in B
  <2> SUFFICES ASSUME NEW i \in 1..lo PROVE i \in 1..n /\ p[i] \in B
    OBVIOUS
  <2>1. i \in 1..n /\ (i = lo \/ i < lo)
    OBVIOUS
  <2>2. s[p[i]] <= s[p[lo]]
    <3>1. CASE i = lo
      BY <1>2, <3>1
    <3>2. CASE i < lo
      BY <1>1, <2>1, <3>2
    <3> QED
      BY <2>1, <3>1, <3>2
  <2> QED
    BY <1>2, <2>1, <2>2
<1>5. \A i \in hi..n : i \in 1..n /\ p[i] \in A
  <2> SUFFICES ASSUME NEW i \in hi..n PROVE i \in 1..n /\ p[i] \in A
    OBVIOUS
  <2>1. i \in 1..n /\ (i = hi \/ hi < i)
    OBVIOUS
  <2>2. s[p[hi]] <= s[p[i]]
    <3>1. CASE i = hi
      BY <1>2, <3>1
    <3>2. CASE hi < i
      BY <1>1, <2>1, <3>2
    <3> QED
      BY <2>1, <3>1, <3>2
  <2> QED
    BY <1>2, <2>1, <2>2
<1> DEFINE f == [i \in 1..lo |-> p[i]]
           g == [i \in hi..n |-> p[i]]
<1>6. f \in Injection(1..lo, B)
  <2>1. f \in [1..lo -> B]
    BY <1>4
  <2>2. \A i, j \in 1..lo : f[i] = f[j] => i = j
    BY <1>1, <1>4
  <2> QED
    BY <2>1, <2>2 DEF Injection, IsInjective
<1>7. g \in Injection(hi..n, A)
  <2>1. g \in [hi..n -> A]
    BY <1>5
  <2>2. \A i, j \in hi..n : g[i] = g[j] => i = j
    BY <1>1, <1>5
  <2> QED
    BY <2>1, <2>2 DEF Injection, IsInjective
<1> HIDE DEF f, g, A, B
<1>8. Cardinality(1..lo) <= Cardinality(B) /\ Cardinality(hi..n) <= Cardinality(A)
  BY <1>3, <1>6, <1>7, FS_Injection
<1>9. Cardinality(1..lo) = lo /\ Cardinality(hi..n) = n - hi + 1
  <2>1. lo \in Int /\ hi \in Int /\ n \in Int /\ 1 \in Int /\ 1 <= lo /\ hi <= n
    OBVIOUS
  <2>2. Cardinality(1..lo) = lo - 1 + 1 /\ Cardinality(hi..n) = n - hi + 1
    BY <2>1, FS_Interval
  <2> QED
    BY <2>1, <2>2
<1> QED
  <2>1. Cardinality(B) \in Nat /\ Cardinality(A) \in Nat
    BY <1>3, FS_CardinalityType
  <2> QED
    BY <1>0, <1>8, <1>9, <2>1 DEF Flanked

\* Percentiles, in tenths.  Under a name the range is no 1001 cases to the provers.
Tenths == 0..1000

\* The two samples a percentile lies between, by their rank, and how far from the
\* first of them, in thousandths.
Low(n, pct)  == Rank(n, pct) \div 1000 + 1
High(n, pct) == (Rank(n, pct) + 999) \div 1000 + 1
Frac(n, pct) == Rank(n, pct) % 1000

Ranked(n, pct) ==
    /\ Rank(n, pct) \in Nat
    /\ Low(n, pct) \in 1..n /\ High(n, pct) \in 1..n /\ Frac(n, pct) \in 0..999
    /\ Frac(n, pct) = 0 => High(n, pct) = Low(n, pct)
    /\ Frac(n, pct) # 0 => High(n, pct) = Low(n, pct) + 1

\* They are neighbours, or the same sample.
LEMMA Ranks ==
    ASSUME NEW n \in Nat \ {0}, NEW pct \in Tenths PROVE Ranked(n, pct)
<1> USE DEF Tenths
<1> DEFINE a == n - 1
           r == Rank(n, pct)
           q == r \div 1000
           f == r % 1000
<1>1. a \in Nat /\ pct \in Nat /\ pct <= 1000
  OBVIOUS
<1>2. r \in Nat /\ r <= 1000 * a
  <2>1. r = pct * a
    BY DEF Rank
  <2> HIDE DEF a, r
  <2>2. pct * a \in Nat /\ pct * a <= 1000 * a
    BY <1>1
  <2> QED
    BY <2>1, <2>2
<1>3. n = a + 1
  OBVIOUS
<1> HIDE DEF a, r
<1>4. q \in Nat /\ f \in 0..999 /\ r = 1000 * q + f
  BY <1>2
<1>5. (f = 0 => (r + 999) \div 1000 = q) /\ (f # 0 => (r + 999) \div 1000 = q + 1)
  BY <1>2, <1>4
<1>6. q <= a /\ (f # 0 => q < a)
  BY <1>1, <1>2, <1>4
<1> QED
  <2>1. Low(n, pct) = q + 1 /\ Frac(n, pct) = f /\ High(n, pct) = (r + 999) \div 1000 + 1
    BY DEF Low, High, Frac, r
  <2>2. Rank(n, pct) \in Nat
    BY <1>2 DEF r
  <2> HIDE DEF q, f
  <2>3. q + 1 \in 1..n /\ (f # 0 => q + 2 \in 1..n)
    BY <1>1, <1>3, <1>4, <1>6
  <2> QED
    BY <1>4, <1>5, <2>1, <2>2, <2>3 DEF Ranked

\* A higher percentile lies no lower.
LEMMA RanksRise ==
    ASSUME NEW n \in Nat \ {0}, NEW b \in Tenths, NEW c \in Tenths, b <= c
    PROVE  /\ Low(n, b) <= Low(n, c)
           /\ Low(n, b) = Low(n, c) => Frac(n, b) <= Frac(n, c)
<1> USE DEF Tenths
<1> DEFINE a == n - 1
           x == Rank(n, b)
           y == Rank(n, c)
<1>1. x \in Nat /\ y \in Nat /\ x <= y
  <2>1. a \in Nat /\ b \in Nat /\ c \in Nat
    OBVIOUS
  <2>2. x = b * a /\ y = c * a
    BY DEF Rank
  <2> HIDE DEF a, x, y
  <2> QED
    BY <2>1, <2>2
<1> HIDE DEF x, y
<1>2. /\ x \div 1000 \in Nat /\ y \div 1000 \in Nat /\ x \div 1000 <= y \div 1000
      /\ x \div 1000 = y \div 1000 => x % 1000 <= y % 1000
  BY <1>1
<1> QED
  BY <1>2 DEF Low, Frac, x, y

\* A value that divides the distance of two samples lies between them.
LEMMA BetweenIs ==
    ASSUME NEW a \in Nat, NEW b \in Nat, a <= b, NEW f \in 0..999
    PROVE  /\ 1000 * a + (b - a) * f \in Nat
           /\ 1000 * a <= 1000 * a + (b - a) * f
           /\ 1000 * a + (b - a) * f <= 1000 * b
<1> DEFINE d == b - a
<1>1. d \in Nat /\ b = a + d
  OBVIOUS
<1> HIDE DEF d
<1>2. d * f \in Nat /\ d * f <= d * 1000
  BY <1>1
<1>3. 1000 * b = 1000 * a + d * 1000
  BY <1>1
<1> QED
  BY <1>2, <1>3 DEF d

Ascends(t, n) ==
    t \in [1..n -> Nat] /\ \A i, j \in 1..n : i <= j => t[i] <= t[j]

\* t holds the samples s in the order p.
Takes(t, s, n, p) == Sorts(s, n, p) /\ t = [i \in 1..n |-> s[p[i]]]

\* Samples taken in such an order ascend.
LEMMA AscendsIs ==
    ASSUME NEW n \in Nat, NEW s \in [1..n -> Nat], NEW p, NEW t, Takes(t, s, n, p)
    PROVE  Ascends(t, n) /\ Len(t) = n
<1>1. /\ p \in [1..n -> 1..n]
      /\ \A i, j \in 1..n : i < j => s[p[i]] <= s[p[j]]
  BY DEF Takes, Sorts, Bijection, Injection
<1>2. ASSUME NEW i \in 1..n PROVE t[i] \in Nat /\ t[i] = s[p[i]]
  <2>1. p[i] \in 1..n
    BY <1>1
  <2> QED
    BY <2>1 DEF Takes
<1>3. t \in [1..n -> Nat]
  BY <1>2 DEF Takes
<1>4. ASSUME NEW i \in 1..n, NEW j \in 1..n, i <= j PROVE t[i] <= t[j]
  <2> DEFINE x == t[i]
             y == t[j]
  <2>1. x \in Nat /\ y \in Nat
    BY <1>2
  <2>2. i < j => x <= y
    BY <1>1, <1>2
  <2>3. i = j => x = y
    OBVIOUS
  <2>4. i < j \/ i = j
    BY <1>4
  <2> HIDE DEF x, y
  <2>5. x <= y
    BY <2>1, <2>2, <2>3, <2>4
  <2> QED
    BY <2>5 DEF x, y
<1>5. t \in Seq(Nat) /\ Len(t) = n
  BY <1>3, SeqDef
<1> QED
  BY <1>3, <1>4, <1>5 DEF Ascends

\* The value at a percentile of ascending samples.
Value(t, n, pct) == Between(t, Low(n, pct), High(n, pct), Frac(n, pct))

Lies(t, n, pct) ==
    /\ Value(t, n, pct) \in Nat
    /\ 1000 * t[Low(n, pct)] <= Value(t, n, pct)
    /\ Value(t, n, pct) <= 1000 * t[High(n, pct)]

LEMMA ValueIs ==
    ASSUME NEW n \in Nat \ {0}, NEW t, Ascends(t, n), NEW pct \in Tenths
    PROVE  Lies(t, n, pct)
<1> DEFINE lo == Low(n, pct)
           hi == High(n, pct)
           f  == Frac(n, pct)
           x  == t[lo]
           y  == t[hi]
<1>1. lo \in 1..n /\ hi \in 1..n /\ f \in 0..999 /\ lo <= hi
  <2>1. /\ lo \in 1..n /\ hi \in 1..n /\ f \in 0..999
        /\ f = 0 => hi = lo
        /\ f # 0 => hi = lo + 1
    <3>1. Ranked(n, pct)
      BY Ranks
    <3> QED
      BY <3>1 DEF Ranked
  <2> HIDE DEF lo, hi, f
  <2> QED
    BY <2>1
<1>2. x \in Nat /\ y \in Nat /\ x <= y
  <2> HIDE DEF lo, hi
  <2> QED
    BY <1>1 DEF Ascends
<1>3. Value(t, n, pct) = 1000 * x + (y - x) * f
  BY DEF Value, Between
<1> HIDE DEF lo, hi, f, x, y
<1>4. /\ 1000 * x + (y - x) * f \in Nat
      /\ 1000 * x <= 1000 * x + (y - x) * f
      /\ 1000 * x + (y - x) * f <= 1000 * y
  BY <1>1, <1>2, BetweenIs
<1> QED
  BY <1>3, <1>4 DEF Lies, x, y, lo, hi

\* A higher percentile has no lower value.
LEMMA ValueRises ==
    ASSUME NEW n \in Nat \ {0}, NEW t, Ascends(t, n),
           NEW b \in Tenths, NEW c \in Tenths, b <= c
    PROVE  Value(t, n, b) <= Value(t, n, c)
<1> DEFINE lb == Low(n, b)
           lc == Low(n, c)
           hb == High(n, b)
           hc == High(n, c)
           fb == Frac(n, b)
           fc == Frac(n, c)
           vb == Value(t, n, b)
           vc == Value(t, n, c)
<1>1. /\ lb \in 1..n /\ hb \in 1..n /\ fb \in 0..999
      /\ fb = 0 => hb = lb
      /\ fb # 0 => hb = lb + 1
  <2>1. Ranked(n, b)
    BY Ranks
  <2> QED
    BY <2>1 DEF Ranked
<1>2. /\ lc \in 1..n /\ hc \in 1..n /\ fc \in 0..999
      /\ fc = 0 => hc = lc
      /\ fc # 0 => hc = lc + 1
  <2>1. Ranked(n, c)
    BY Ranks
  <2> QED
    BY <2>1 DEF Ranked
<1>3. lb <= lc /\ (lb = lc => fb <= fc)
  BY RanksRise
<1>4. vb \in Nat /\ vb <= 1000 * t[hb] /\ vb = 1000 * t[lb] + (t[hb] - t[lb]) * fb
  <2>1. Lies(t, n, b)
    BY ValueIs
  <2>2. vb = 1000 * t[lb] + (t[hb] - t[lb]) * fb
    BY DEF Value, Between
  <2> QED
    BY <2>1, <2>2 DEF Lies
<1>5. vc \in Nat /\ 1000 * t[lc] <= vc /\ vc = 1000 * t[lc] + (t[hc] - t[lc]) * fc
  <2>1. Lies(t, n, c)
    BY ValueIs
  <2>2. vc = 1000 * t[lc] + (t[hc] - t[lc]) * fc
    BY DEF Value, Between
  <2> QED
    BY <2>1, <2>2 DEF Lies
<1>6. vb <= vc
  <2> HIDE DEF lb, lc, hb, hc, fb, fc, vb, vc
  <2>1. /\ t[lb] \in Nat /\ t[hb] \in Nat /\ t[lc] \in Nat /\ t[hc] \in Nat
        /\ hb <= lc => t[hb] <= t[lc]
        /\ lb <= hb => t[lb] <= t[hb]
    BY <1>1, <1>2 DEF Ascends
  <2>2. CASE hb <= lc
    BY <1>4, <1>5, <2>1, <2>2
  <2>3. CASE ~(hb <= lc)
    <3>1. lb = lc /\ fb # 0 /\ fc # 0 /\ fb <= fc
      BY <1>1, <1>2, <1>3, <2>3
    <3>2. hc = hb /\ lb <= hb
      BY <1>1, <1>2, <3>1
    <3> DEFINE x == t[lb]
               y == t[hb]
               d == y - x
    <3>3. d \in Nat /\ x \in Nat
      BY <2>1, <3>2
    <3>4. vb = 1000 * x + d * fb /\ vc = 1000 * x + d * fc
      BY <1>4, <1>5, <3>1, <3>2
    <3> HIDE DEF x, y, d
    <3>5. d * fb \in Nat /\ d * fc \in Nat /\ d * fb <= d * fc
      BY <1>1, <1>2, <3>1, <3>3
    <3> QED
      BY <3>3, <3>4, <3>5
  <2> QED
    BY <2>2, <2>3
<1> QED
  BY <1>6

\* The value at a percentile has as many samples on either side as it says.
LEMMA ValueSplits ==
    ASSUME NEW n \in Nat \ {0}, NEW s \in [1..n -> Nat], Len(s) = n, NEW p,
           NEW t, Takes(t, s, n, p), Ascends(t, n),
           NEW pct \in Tenths
    PROVE  Splits(s, Value(t, n, pct), pct)
<1> DEFINE v == Value(t, n, pct)
           lo == Low(n, pct)
           hi == High(n, pct)
           below == Cardinality(Below(s, n, v))
           above == Cardinality(Above(s, n, v))
<1>1. v \in Nat /\ 1000 * t[lo] <= v /\ v <= 1000 * t[hi]
  <2>1. Lies(t, n, pct)
    BY ValueIs
  <2> QED
    BY <2>1 DEF Lies
<1>2. lo \in 1..n /\ hi \in 1..n
  <2>1. Ranked(n, pct)
    BY Ranks
  <2> QED
    BY <2>1 DEF Ranked
<1>3. t[lo] = s[p[lo]] /\ t[hi] = s[p[hi]]
  BY <1>2 DEF Takes
<1> HIDE DEF v, lo, hi
<1>4. v \in Nat /\ Held(s, p, lo, hi, v)
  BY <1>1, <1>3 DEF Held
<1>5. /\ lo <= below /\ below \in Nat
      /\ n - hi + 1 <= above /\ above \in Nat
  <2>1. Sorts(s, n, p) /\ n \in Nat
    BY DEF Takes
  <2>2. s \in [1..n -> Nat]
    OBVIOUS
  <2>3. Flanked(s, n, lo, hi, v)
    BY <1>2, <1>4, <2>1, <2>2, BothSides
  <2> QED
    BY <2>3 DEF Flanked
<1>6. DOMAIN s = 1..n
  OBVIOUS
<1>7. /\ lo = (pct * (n - 1)) \div 1000 + 1 /\ hi = (pct * (n - 1) + 999) \div 1000 + 1
      /\ (pct * (n - 1)) \div 1000 \in Int /\ (pct * (n - 1) + 999) \div 1000 \in Int
  <2>0. Ranked(n, pct)
    BY Ranks
  <2>1. Rank(n, pct) = pct * (n - 1) /\ Rank(n, pct) \in Int
    BY <2>0 DEF Ranked, Rank
  <2> DEFINE r == pct * (n - 1)
  <2>2. r \in Int
    BY <2>1
  <2> HIDE DEF r
  <2>3. r \div 1000 \in Int /\ (r + 999) \div 1000 \in Int
    BY <2>2
  <2> QED
    BY <2>1, <2>3 DEF lo, hi, Low, High, r
<1> DEFINE qlo == (pct * (n - 1)) \div 1000
           qhi == (pct * (n - 1) + 999) \div 1000
<1>8. below > qlo /\ above >= n - qhi
  <2>1. lo = qlo + 1 /\ hi = qhi + 1 /\ qlo \in Int /\ qhi \in Int
    BY <1>7
  <2> HIDE DEF qlo, qhi, below, above
  <2> QED
    BY <1>5, <2>1
<1> HIDE DEF v
<1> QED
  BY <1>6, <1>8 DEF Splits, Below, Above, v

\* What Java computes for a percentile that needs no rounding.
Unrounded(s, pct) ==
    LET t  == Sorted(s)
        n  == Len(t)
        lo == Rank(n, pct) \div 1000 + 1
        hi == (Rank(n, pct) + 999) \div 1000 + 1
    IN  IF n = 1 THEN 1000 * t[1] ELSE Between(t, lo, hi, Rank(n, pct) % 1000)

Computed(s, t, n, pct) ==
    /\ PythonPercentile(s, pct) = Value(t, n, pct)
    /\ Unrounded(s, pct) = Value(t, n, pct)

\* Both languages compute this value.
LEMMA PercentileIs ==
    ASSUME NEW n \in Nat \ {0}, NEW s, NEW t, t = Sorted(s), Len(t) = n, Ascends(t, n),
           NEW pct \in Tenths
    PROVE  Computed(s, t, n, pct)
<1> DEFINE lo == Low(n, pct)
           hi == High(n, pct)
           f  == Frac(n, pct)
           v  == Value(t, n, pct)
<1>1. /\ lo \in 1..n /\ hi \in 1..n /\ f \in 0..999
      /\ f = 0 => hi = lo
      /\ f # 0 => hi = lo + 1
  <2>1. Ranked(n, pct)
    BY Ranks
  <2> QED
    BY <2>1 DEF Ranked
<1>2. v = 1000 * t[lo] + (t[hi] - t[lo]) * f
  BY DEF Value, Between
<1>3. PythonPercentile(s, pct) = IF n = 1 THEN 1000 * t[1]
                                 ELSE IF lo + 1 > n THEN 1000 * t[n]
                                 ELSE 1000 * t[lo] + (t[lo + 1] - t[lo]) * f
  BY DEF PythonPercentile, Between, Low, Frac
<1>4. Unrounded(s, pct) = IF n = 1 THEN 1000 * t[1] ELSE v
  BY DEF Unrounded, Value, Low, High, Frac
<1> HIDE DEF lo, hi, f, v
<1>5. \A i \in 1..n : t[i] \in Nat
  BY DEF Ascends
<1>6. f = 0 => v = 1000 * t[lo]
  <2> SUFFICES ASSUME f = 0 PROVE v = 1000 * t[lo]
    OBVIOUS
  <2>1. v = 1000 * t[lo] + (t[lo] - t[lo]) * 0 /\ t[lo] \in Nat
    BY <1>1, <1>2, <1>5
  <2> QED
    BY <2>1
<1>7. CASE n = 1
  <2>1. lo = 1 /\ f = 0
    BY <1>1, <1>7
  <2> QED
    BY <1>3, <1>4, <1>6, <1>7, <2>1 DEF Computed, v
<1>8. CASE n # 1 /\ f = 0
  <2>1. CASE lo + 1 > n
    <3>1. lo = n
      BY <1>1, <2>1
    <3> QED
      BY <1>3, <1>4, <1>6, <1>8, <2>1, <3>1 DEF Computed, v
  <2>2. CASE ~(lo + 1 > n)
    <3> DEFINE x == t[lo]
               y == t[lo + 1]
    <3>1. x \in Nat /\ y \in Nat
      <4>1. lo + 1 \in 1..n
        BY <1>1, <2>2
      <4> QED
        BY <1>1, <1>5, <4>1
    <3>2. PythonPercentile(s, pct) = 1000 * x + (y - x) * 0
      BY <1>3, <1>8, <2>2
    <3>3. v = 1000 * x
      BY <1>6, <1>8
    <3> HIDE DEF x, y
    <3>4. PythonPercentile(s, pct) = 1000 * x
      BY <3>1, <3>2
    <3> QED
      BY <1>4, <1>8, <3>3, <3>4 DEF Computed, v
  <2> QED
    BY <2>1, <2>2
<1>9. CASE n # 1 /\ f # 0
  <2>1. hi = lo + 1 /\ ~(lo + 1 > n)
    BY <1>1, <1>9
  <2> QED
    BY <1>2, <1>3, <1>4, <1>9, <2>1 DEF Computed, v
<1> QED
  BY <1>7, <1>8, <1>9

\* For any number of samples and any percentile from 0 to 100, in tenths: as
\* many samples lie on either side of Python's value as the percentile says, and
\* of Java's as the whole percentile below says; Java's value is never above
\* Python's, and the same when the percentile is whole.
THEOREM PercentilesHold == Spec => []PercentilesExact
<1>1. JudgedInv => PercentilesExact
  <2> SUFFICES ASSUME JudgedInv, Judged("percentile") PROVE PercentilesExact
    BY DEF PercentilesExact
  <2> DEFINE s == given[1]
             pct == given[2]
             whole == pct - (pct % 10)
             n == Len(s)
             t == Sorted(s)
  <2>1. s \in UpTo(Samples, MaxLen) /\ s # << >> /\ pct \in Tenths
    <3>1. Percents \subseteq Tenths
      BY JudgementAssumption DEF Tenths
    <3> QED
      BY <3>1 DEF JudgedInv, Inputs, Judged
  <2>2. n \in Nat \ {0} /\ s \in [1..n -> Nat]
    <3>1. s \in Seq(Samples) /\ Samples \subseteq Nat
      BY <2>1, JudgementAssumption, UpToIs
    <3> HIDE DEF s
    <3>2. n \in Nat /\ s \in [1..n -> Samples] /\ (n = 0 => s = << >>)
      BY <3>1
    <3> QED
      BY <2>1, <3>1, <3>2
  <2>3. Result = <<PythonPercentile(s, pct), JavaPercentile(s, pct)>>
    BY DEF JudgedInv, Judged, Result, Outcome
  <2> HIDE DEF s, pct
  <2>4. whole \in Tenths /\ whole <= pct /\ AsInt(pct) = whole
    BY <2>1 DEF AsInt, Tenths
  <2>5. JavaPercentile(s, pct) = Unrounded(s, whole)
    BY <2>4 DEF JavaPercentile, Unrounded
  <2>6. Len(s) = n
    OBVIOUS
  <2> HIDE DEF n, whole, t
  <2>7. PICK p : Takes(t, s, n, p)
    BY <2>2, SortedIs DEF t, Takes
  <2>8. Ascends(t, n) /\ Len(t) = n
    BY <2>2, <2>7, AscendsIs
  <2>9. Result[1] = Value(t, n, pct)
    <3>1. Computed(s, t, n, pct)
      BY <2>1, <2>2, <2>8, PercentileIs DEF t
    <3> QED
      BY <2>3, <3>1 DEF Computed
  <2>10. Result[2] = Value(t, n, whole)
    <3>1. Computed(s, t, n, whole)
      BY <2>2, <2>4, <2>8, PercentileIs DEF t
    <3> QED
      BY <2>3, <2>5, <3>1 DEF Computed
  <2>11. Splits(s, Value(t, n, pct), pct)
    BY <2>1, <2>2, <2>6, <2>7, <2>8, ValueSplits
  <2>12. Splits(s, Value(t, n, whole), whole)
    BY <2>2, <2>4, <2>6, <2>7, <2>8, ValueSplits
  <2>13. Value(t, n, whole) <= Value(t, n, pct)
    BY <2>1, <2>2, <2>4, <2>8, ValueRises
  <2> QED
    BY <2>9, <2>10, <2>11, <2>12, <2>13 DEF PercentilesExact, s, pct, whole
<1> QED
  BY <1>1, JudgedAlways, PTL
=============================================================================
