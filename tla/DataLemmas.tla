------------------------------ MODULE DataLemmas ------------------------------
(***************************************************************************)
(* What several proofs need of the data: natural numbers, induction over   *)
(* them and over finite sets, sums, and recursive definitions.             *)
(***************************************************************************)
EXTENDS Integers, Sequences, FiniteSets, Functions, FiniteSetTheorems,
        SequenceTheorems, WellFoundedInduction, TLAPS

\* Every non-empty set of natural numbers has a least element.
LEMMA LeastNatural ==
    ASSUME NEW S \in SUBSET Nat, S # {}
    PROVE  \E n \in S : \A m \in S : n <= m
  <1>1. PICK n \in S : \A m \in S : ~(<<m, n>> \in OpToRel(<, Nat))
    BY WFMin, NatLessThanWellFounded
  <1>2. OpToRel(<, Nat) = {pair \in Nat \X Nat : pair[1] < pair[2]}
    BY DEF OpToRel
  <1>3. ASSUME NEW m \in S PROVE n <= m
    <2>1. ~(<<m, n>> \in {pair \in Nat \X Nat : pair[1] < pair[2]})
      BY <1>1, <1>2
    <2>2. m \in Nat /\ n \in Nat
      OBVIOUS
    <2>3. QED
      BY ONLY <2>1, <2>2
  <1>4. QED
    BY <1>3

\* Whole division.
LEMMA DivFacts ==
    ASSUME NEW a \in Nat, NEW d \in Nat \ {0}
    PROVE  a \div d \in Nat /\ d * (a \div d) <= a /\ a < d * (a \div d) + d
  OBVIOUS

\* A factor is cancelled, or put in.
LEMMA CommonFactor ==
    ASSUME NEW d \in Nat \ {0}, NEW a \in Int, NEW b \in Int
    PROVE  /\ d * a <= d * b => a <= b
           /\ a <= b => d * a <= d * b
  <1>1. ASSUME a > b PROVE d * a > d * b
    <2>1. a - b >= 1 /\ a - b \in Int
      BY <1>1
    <2>2. d * (a - b) >= 1
      BY <2>1
    <2>3. d * (a - b) = d * a - d * b
      OBVIOUS
    <2>4. d * a \in Int /\ d * b \in Int
      OBVIOUS
    <2>5. QED
      BY <2>2, <2>3, <2>4
  <1>2. ASSUME a <= b PROVE d * a <= d * b
    <2>1. b - a \in Nat
      BY <1>2
    <2>2. d * (b - a) \in Nat /\ d * (b - a) = d * b - d * a
      BY <2>1
    <2>3. d * a \in Int /\ d * b \in Int
      OBVIOUS
    <2>4. QED
      BY <2>2, <2>3
  <1>3. d * a \in Int /\ d * b \in Int
    OBVIOUS
  <1>4. QED
    BY <1>1, <1>2, <1>3

\* Of two fractions, the smaller has the smaller whole part.
LEMMA DivMonotone ==
    ASSUME NEW a \in Nat, NEW b \in Nat, NEW c \in Nat \ {0}, NEW d \in Nat \ {0},
           a * d <= b * c
    PROVE  a \div c <= b \div d
  <1> DEFINE x == a \div c
             y == b \div d
  <1>1. /\ x \in Nat /\ c * x <= a
        /\ y \in Nat /\ b < d * y + d
    BY DivFacts
  <1> HIDE DEF x, y
  <1>2. d * (c * x) <= d * a
    BY <1>1, CommonFactor
  <1>3. c * (b + 1) <= c * (d * y + d)
    BY <1>1, CommonFactor
  <1>4. d * (c * x) = (c * d) * x /\ c * (d * y + d) = (c * d) * (y + 1)
    BY <1>1
  <1>5. d * a = a * d /\ c * (b + 1) = b * c + c
    OBVIOUS
  <1>6. c * d \in Nat /\ (c * d) * x \in Nat /\ (c * d) * (y + 1) \in Nat
        /\ a * d \in Nat /\ b * c \in Nat
    BY <1>1
  <1>7. (c * d) * x < (c * d) * (y + 1)
    BY <1>2, <1>3, <1>4, <1>5, <1>6
  <1>8. c * d \in Nat \ {0}
    OBVIOUS
  <1>9. ~(y + 1 <= x)
    <2>1. y + 1 <= x => (c * d) * (y + 1) <= (c * d) * x
      BY <1>1, <1>8, CommonFactor
    <2>2. QED
      BY <1>6, <1>7, <2>1
  <1>10. QED
    BY <1>1, <1>9 DEF x, y

\* A part is less than the whole: x of d, of an amount r.
LEMMA PartOf ==
    ASSUME NEW x \in Nat, NEW r \in Nat \ {0}, NEW d \in Nat \ {0}, x < d
    PROVE  (x * r) \div d \in Nat /\ (x * r) \div d < r /\ d * ((x * r) \div d) <= x * r
  <1> DEFINE q == (x * r) \div d
  <1>1. x * r \in Nat
    OBVIOUS
  <1>2. q \in Nat /\ d * q <= x * r
    BY <1>1, DivFacts
  <1> HIDE DEF q
  <1>3. x * r < d * r
    OBVIOUS
  <1>4. ASSUME q >= r PROVE FALSE
    <2>1. d * q >= d * r
      BY <1>2, <1>4
    <2>2. QED
      BY <1>1, <1>2, <1>3, <2>1
  <1>5. QED
    BY <1>2, <1>4 DEF q

\* A pool grows faster than its liquidity, or shrinks slower.
LEMMA ValueKept ==
    ASSUME NEW r0 \in Nat, NEW r1 \in Nat, NEW T \in Nat,
           NEW q0 \in Nat, NEW q1 \in Nat, NEW U \in Nat,
           r0 * U <= q0 * T, r1 * U <= q1 * T
    PROVE  (r0 * r1) * (U * U) <= (q0 * q1) * (T * T)
  <1> DEFINE x0 == r0 * U
             x1 == r1 * U
             y0 == q0 * T
             y1 == q1 * T
  <1>1. x0 \in Nat /\ x1 \in Nat /\ y0 \in Nat /\ y1 \in Nat
    OBVIOUS
  <1>2. (r0 * r1) * (U * U) = x0 * x1 /\ (q0 * q1) * (T * T) = y0 * y1
    OBVIOUS
  <1>3. x0 <= y0 /\ x1 <= y1
    OBVIOUS
  <1> HIDE DEF x0, x1, y0, y1
  <1>4. x0 * x1 <= x0 * y1 /\ x0 * y1 <= y0 * y1
    BY <1>1, <1>3
  <1>5. x0 * x1 \in Nat /\ x0 * y1 \in Nat /\ y0 * y1 \in Nat
    BY <1>1
  <1>6. QED
    BY ONLY <1>2, <1>4, <1>5

\* A trade along the constant product.
LEMMA TradeKeepsProduct ==
    ASSUME NEW ri \in Nat, NEW ro \in Nat, NEW in \in Nat, NEW out \in Nat,
           NEW qi \in Nat, NEW qo \in Nat,
           out <= ro, (ri + in) * out <= in * ro,
           ri + in <= qi, ro - out <= qo
    PROVE  ri * ro <= qi * qo
  <1>1. (ri + in) * (ro - out) = ri * ro + in * ro - (ri + in) * out
    OBVIOUS
  <1>2. ri * ro \in Nat /\ in * ro \in Nat /\ (ri + in) * out \in Nat
    OBVIOUS
  <1>3. ri * ro <= (ri + in) * (ro - out)
    BY ONLY <1>1, <1>2, (ri + in) * out <= in * ro
  <1>4. ro - out \in Nat /\ ri + in \in Nat
    OBVIOUS
  <1>5. (ri + in) * (ro - out) <= qi * (ro - out) /\ qi * (ro - out) <= qi * qo
    BY <1>4
  <1>6. (ri + in) * (ro - out) \in Nat /\ qi * (ro - out) \in Nat /\ qi * qo \in Nat
    BY <1>4
  <1>7. QED
    BY ONLY <1>2, <1>3, <1>5, <1>6

LEMMA ValueTransitive ==
    ASSUME NEW a \in Nat, NEW b \in Nat, NEW c \in Nat,
           NEW R \in Nat, NEW S \in Nat \ {0}, NEW T \in Nat,
           a * S <= b * R, b * T <= c * S
    PROVE  a * T <= c * R
  <1>1. (a * S) * T <= (b * R) * T /\ (b * T) * R <= (c * S) * R
    <2>1. a * S \in Nat /\ b * R \in Nat /\ b * T \in Nat /\ c * S \in Nat
      OBVIOUS
    <2>2. QED
      BY <2>1
  <1>2. (a * S) * T = S * (a * T) /\ (c * S) * R = S * (c * R) /\ (b * R) * T = (b * T) * R
    OBVIOUS
  <1>3. a * T \in Nat /\ c * R \in Nat /\ (b * R) * T \in Nat
        /\ S * (a * T) \in Nat /\ S * (c * R) \in Nat
    OBVIOUS
  <1>4. S * (a * T) <= S * (c * R)
    BY ONLY <1>1, <1>2, <1>3
  <1> DEFINE x == a * T
             y == c * R
  <1> HIDE DEF x, y
  <1>5. S * x <= S * y /\ x \in Nat /\ y \in Nat
    BY <1>3, <1>4 DEF x, y
  <1>6. ASSUME x > y PROVE FALSE
    <2>1. S * x >= S * (y + 1)
      BY <1>5, <1>6
    <2>2. S * (y + 1) = S * y + S /\ S * y \in Nat /\ S * x \in Nat
      BY <1>5
    <2>3. QED
      BY <1>5, <2>1, <2>2
  <1>7. QED
    BY <1>5, <1>6 DEF x, y

\* Division with remainder has one result.
LEMMA ModUnique ==
    ASSUME NEW d \in Nat \ {0}, NEW q \in Int, NEW r \in 0..(d - 1)
    PROVE  (d * q + r) % d = r
  <1> DEFINE a == d * q + r
             p == a \div d
             m == a % d
  <1>1. a \in Int
    OBVIOUS
  <1>2. p \in Int /\ m \in 0..(d - 1) /\ a = d * p + m
    BY <1>1
  <1> HIDE DEF p, m
  <1>3. ASSUME p > q PROVE FALSE
    <2>1. p = q + 1 + (p - q - 1) /\ p - q - 1 \in Nat
      BY <1>2, <1>3
    <2> DEFINE k == p - q - 1
    <2>2. d * p = d * q + d + d * k
      BY <1>2, <2>1
    <2>3. d * k \in Nat
      BY <2>1
    <2>4. QED
      BY <1>2, <2>2, <2>3
  <1>4. ASSUME p < q PROVE FALSE
    <2> DEFINE k == q - p - 1
    <2>1. q = p + 1 + k /\ k \in Nat
      BY <1>2, <1>4
    <2> HIDE DEF k
    <2>2. d * q = d * p + d + d * k
      BY <1>2, <2>1
    <2>3. d * k \in Nat
      BY <2>1
    <2>4. QED
      BY <1>2, <2>2, <2>3
  <1>5. p = q
    BY <1>2, <1>3, <1>4
  <1>6. QED
    BY <1>2, <1>5 DEF m

\* Counting modulo d.
LEMMA ModSucc ==
    ASSUME NEW d \in Nat \ {0}, NEW n \in Nat
    PROVE  /\ n % d \in 0..(d - 1)
           /\ (n + 1) % d = IF n % d = d - 1 THEN 0 ELSE (n % d) + 1
  <1> DEFINE q == n \div d
             r == n % d
  <1>1. q \in Int /\ r \in 0..(d - 1) /\ n = d * q + r
    OBVIOUS
  <1> HIDE DEF q, r
  <1>2. CASE r = d - 1
    <2>1. n + 1 = d * (q + 1) + 0
      BY <1>1, <1>2
    <2>2. (d * (q + 1) + 0) % d = 0
      BY <1>1, ModUnique
    <2>3. QED
      BY <1>1, <1>2, <2>1, <2>2 DEF r
  <1>3. CASE r # d - 1
    <2>1. n + 1 = d * q + (r + 1) /\ r + 1 \in 0..(d - 1)
      BY <1>1, <1>3
    <2>2. (d * q + (r + 1)) % d = r + 1
      BY <1>1, <2>1, ModUnique
    <2>3. QED
      BY <1>1, <1>3, <2>1, <2>2 DEF r
  <1>4. QED
    BY <1>2, <1>3

-----------------------------------------------------------------------------
(* Induction, over the natural numbers and over the subsets of a set. *)

\* A set of numbers with 0 that is closed under successor has them all.
LEMMA NaturalInduction ==
    ASSUME NEW P \in SUBSET Nat, 0 \in P, \A n \in P : n + 1 \in P
    PROVE  P = Nat
  <1> SUFFICES ASSUME Nat \ P # {} PROVE FALSE
    OBVIOUS
  <1>1. PICK n \in Nat \ P : \A m \in Nat \ P : n <= m
    BY LeastNatural
  <1>2. n # 0 /\ n - 1 \in Nat
    BY <1>1
  <1>3. n - 1 \in P
    BY <1>1, <1>2
  <1>4. QED
    BY <1>1, <1>3

\* An element of s, the one that the sums of the library leave out first.
Pick(s) == CHOOSE x \in s : TRUE

LEMMA PickIn == ASSUME NEW s, s # {} PROVE Pick(s) \in s
  BY DEF Pick

\* Course-of-values induction over the subsets of a finite set.
LEMMA SubsetCourseInduction ==
    ASSUME NEW S, IsFiniteSet(S), NEW F \in SUBSET SUBSET S,
           \A T \in SUBSET S : T # {} /\ (\A U \in SUBSET T : U # T => U \in F) => T \in F,
           {} \in F
    PROVE  F = SUBSET S
  <1> DEFINE C == {Cardinality(T) : T \in (SUBSET S) \ F}
  <1>1. \A s \in SUBSET S : IsFiniteSet(s) /\ Cardinality(s) \in Nat
    BY FS_Subset, FS_CardinalityType
  <1>2. SUFFICES ASSUME (SUBSET S) \ F # {} PROVE FALSE
    OBVIOUS
  <1>3. C \in SUBSET Nat /\ C # {}
    BY <1>1, <1>2
  <1>4. PICK n \in C : \A m \in C : n <= m
    BY <1>3, LeastNatural
  <1>5. PICK T \in (SUBSET S) \ F : Cardinality(T) = n
    BY <1>4
  <1>6. ASSUME NEW U \in SUBSET T, U # T PROVE U \in F
    <2>1. Cardinality(U) < Cardinality(T)
      BY <1>1, <1>6, FS_Subset
    <2>2. U \in SUBSET S
      BY <1>5
    <2>3. QED
      BY <1>1, <1>4, <1>5, <2>1, <2>2
  <1>7. QED
    BY <1>5, <1>6

\* The same with one element left out of the set.
LEMMA SubsetInduction ==
    ASSUME NEW S, IsFiniteSet(S), NEW F \in SUBSET SUBSET S, {} \in F,
           \A T \in SUBSET S : T # {} /\ T \ {Pick(T)} \in F => T \in F
    PROVE  F = SUBSET S
  <1>1. ASSUME NEW T \in SUBSET S, T # {}, \A U \in SUBSET T : U # T => U \in F
        PROVE  T \in F
    <2>1. Pick(T) \in T
      BY <1>1, PickIn
    <2>2. T \ {Pick(T)} \in SUBSET T /\ T \ {Pick(T)} # T
      BY <2>1
    <2>3. T \ {Pick(T)} \in F
      BY <1>1, <2>2
    <2>4. QED
      BY <1>1, <2>3
  <1>2. QED
    BY <1>1, SubsetCourseInduction

\* g adds up f over every set of its domain.
IsSum(g, f, D) ==
    \A s \in D : g[s] = IF s = {} THEN 0 ELSE f[Pick(s)] + g[s \ {Pick(s)}]

\* Every function over a finite set can be added up.
LEMMA SumExists ==
    ASSUME NEW S, IsFiniteSet(S), NEW f \in [S -> Int]
    PROVE  \E g \in [SUBSET S -> Int] : IsSum(g, f, SUBSET S)
  <1> DEFINE D(n) == {s \in SUBSET S : Cardinality(s) <= n}
             P == {n \in Nat : \E g \in [D(n) -> Int] : IsSum(g, f, D(n))}
  <1>1. \A s \in SUBSET S : IsFiniteSet(s) /\ Cardinality(s) \in Nat
    BY FS_Subset, FS_CardinalityType
  <1>2. 0 \in P
    <2>1. D(0) = {{}}
      BY <1>1, FS_EmptySet
    <2>2. [s \in D(0) |-> 0] \in [D(0) -> Int] /\ IsSum([s \in D(0) |-> 0], f, D(0))
      BY <2>1 DEF IsSum
    <2>3. QED
      BY <2>2
  <1>3. ASSUME NEW n \in P PROVE n + 1 \in P
    <2>1. PICK g \in [D(n) -> Int] : IsSum(g, f, D(n))
      BY <1>3
    <2> DEFINE h == [s \in D(n + 1) |-> IF s = {} THEN 0 ELSE f[Pick(s)] + g[s \ {Pick(s)}]]
    <2>2. ASSUME NEW s \in D(n + 1), s # {}
          PROVE  Pick(s) \in S /\ s \ {Pick(s)} \in D(n) /\ s \ {Pick(s)} \in D(n + 1)
      <3>1. Pick(s) \in s
        BY <2>2, PickIn
      <3>2. Cardinality(s \ {Pick(s)}) = Cardinality(s) - 1
        BY <1>1, <3>1, FS_RemoveElement
      <3>3. QED
        BY <1>1, <3>1, <3>2
    <2>3. h \in [D(n + 1) -> Int]
      BY <2>2
    <2>4. ASSUME NEW s \in D(n) PROVE h[s] = g[s]
      <3>1. s \in D(n + 1)
        BY <1>1
      <3>2. QED
        BY <2>1, <3>1 DEF IsSum
    <2>5. IsSum(h, f, D(n + 1))
      <3> SUFFICES ASSUME NEW s \in D(n + 1)
                   PROVE h[s] = IF s = {} THEN 0 ELSE f[Pick(s)] + h[s \ {Pick(s)}]
        BY DEF IsSum
      <3>1. CASE s = {}
        BY <3>1
      <3>2. CASE s # {}
        <4>1. h[s \ {Pick(s)}] = g[s \ {Pick(s)}]
          BY <2>2, <2>4, <3>2
        <4>2. QED
          BY <3>2, <4>1
      <3>3. QED
        BY <3>1, <3>2
    <2>6. \E k \in [D(n + 1) -> Int] : IsSum(k, f, D(n + 1))
      BY <2>3, <2>5
    <2>7. n + 1 \in Nat
      OBVIOUS
    <2>8. QED
      BY <2>6, <2>7, Zenon
  <1>4. P = Nat
    <2> HIDE DEF P
    <2>1. P \in SUBSET Nat
      BY DEF P
    <2>2. QED
      BY <1>2, <1>3, <2>1, NaturalInduction
  <1>5. SUBSET S = D(Cardinality(S)) /\ Cardinality(S) \in Nat
    BY <1>1, FS_Subset
  <1>6. QED
    BY <1>4, <1>5

\* The value of SumFunction is such a sum.
LEMMA SumIsSum ==
    ASSUME NEW S, IsFiniteSet(S), NEW f \in [S -> Int]
    PROVE  \E g \in [SUBSET S -> Int] : IsSum(g, f, SUBSET S) /\ SumFunction(f) = g[S]
  <1> DEFINE iter == CHOOSE g : g = [s \in SUBSET S |->
                IF s = {} THEN 0
                ELSE f[CHOOSE x \in s : TRUE] + g[s \ {CHOOSE x \in s : TRUE}]]
  <1>1. SumFunction(f) = iter[S]
    BY DEF SumFunction, SumFunctionOnSet, FoldFunctionOnSet, MapThenFoldSet
  <1>2. PICK g \in [SUBSET S -> Int] : IsSum(g, f, SUBSET S)
    BY SumExists
  <1>3. g = [s \in SUBSET S |->
                IF s = {} THEN 0
                ELSE f[CHOOSE x \in s : TRUE] + g[s \ {CHOOSE x \in s : TRUE}]]
    BY <1>2 DEF IsSum, Pick
  <1>4. iter = [s \in SUBSET S |->
                IF s = {} THEN 0
                ELSE f[CHOOSE x \in s : TRUE] + iter[s \ {CHOOSE x \in s : TRUE}]]
    BY <1>3
  <1> HIDE DEF iter
  <1>5. IsSum(iter, f, SUBSET S)
    BY <1>4 DEF IsSum, Pick
  <1>6. iter = g
    <2> DEFINE F == {s \in SUBSET S : iter[s] = g[s]}
    <2>1. {} \in F
      BY <1>2, <1>5 DEF IsSum
    <2>2. ASSUME NEW T \in SUBSET S, T # {}, T \ {Pick(T)} \in F PROVE T \in F
      BY <1>2, <1>5, <2>2 DEF IsSum
    <2>3. F = SUBSET S
      <3> HIDE DEF F
      <3>1. F \in SUBSET SUBSET S
        BY DEF F
      <3>2. QED
        BY <2>1, <2>2, <3>1, SubsetInduction
    <2>4. QED
      BY <1>4, <2>3
  <1>7. QED
    BY <1>1, <1>2, <1>6

\* g is the table of the sums of f over the subsets of the finite set S.
Sums(g, f, S) ==
    /\ IsFiniteSet(S)
    /\ f \in [S -> Int]
    /\ g \in [SUBSET S -> Int]
    /\ IsSum(g, f, SUBSET S)

LEMMA SumTable ==
    ASSUME NEW S, IsFiniteSet(S), NEW f \in [S -> Int]
    PROVE  \E g : Sums(g, f, S) /\ SumFunction(f) = g[S]
  <1>1. PICK g \in [SUBSET S -> Int] : IsSum(g, f, SUBSET S) /\ SumFunction(f) = g[S]
    BY SumIsSum
  <1>2. QED
    BY <1>1 DEF Sums

\* Whichever element is left out.
LEMMA SumLeaveOut ==
    ASSUME NEW S, NEW f, NEW g, Sums(g, f, S)
    PROVE  \A T \in SUBSET S : \A x \in T : g[T] = f[x] + g[T \ {x}]
  <1> DEFINE F == {T \in SUBSET S : \A x \in T : g[T] = f[x] + g[T \ {x}]}
  <1>0. /\ IsFiniteSet(S) /\ f \in [S -> Int] /\ g \in [SUBSET S -> Int]
        /\ \A s \in SUBSET S : g[s] = IF s = {} THEN 0 ELSE f[Pick(s)] + g[s \ {Pick(s)}]
    BY DEF Sums, IsSum
  <1>1. {} \in F
    OBVIOUS
  <1>2. ASSUME NEW T \in SUBSET S, T # {},
               \A U \in SUBSET T : U # T => U \in F
        PROVE  T \in F
    <2> DEFINE p == Pick(T)
    <2>1. p \in T
      BY <1>2, PickIn
    <2>2. g[T] = f[p] + g[T \ {p}]
      BY <1>0, <1>2
    <2> HIDE DEF p
    <2>3. ASSUME NEW x \in T, x # p
          PROVE  g[T] = f[x] + g[T \ {x}]
      <3>1. g[T \ {p}] = f[x] + g[(T \ {p}) \ {x}]
        BY <1>2, <2>1, <2>3
      <3>2. g[T \ {x}] = f[p] + g[(T \ {x}) \ {p}]
        BY <1>2, <2>1, <2>3
      <3> DEFINE rest == g[(T \ {x}) \ {p}]
      <3>3. g[T \ {p}] = f[x] + rest /\ g[T \ {x}] = f[p] + rest
        <4>1. (T \ {p}) \ {x} = (T \ {x}) \ {p}
          OBVIOUS
        <4>2. QED
          BY <3>1, <3>2, <4>1
      <3>4. f[x] \in Int /\ f[p] \in Int /\ rest \in Int
        BY <1>0, <2>1
      <3> HIDE DEF rest
      <3>5. QED
        BY <2>2, <3>3, <3>4
    <2>4. QED
      BY <2>2, <2>3
  <1>3. F = SUBSET S
    <2> HIDE DEF F
    <2>1. F \in SUBSET SUBSET S
      BY DEF F
    <2>2. QED
      BY <1>0, <1>1, <1>2, <2>1, SubsetCourseInduction
  <1>4. QED
    BY <1>3

\* Two functions have the same sum over a set on which they agree.
LEMMA SumAgree ==
    ASSUME NEW S, NEW f, NEW f2, NEW g, NEW g2, Sums(g, f, S), Sums(g2, f2, S),
           NEW T \in SUBSET S, \A x \in T : f[x] = f2[x]
    PROVE  g[T] = g2[T]
  <1> DEFINE F == {U \in SUBSET S : U \subseteq T => g[U] = g2[U]}
  <1>0. IsFiniteSet(S) /\ IsSum(g, f, SUBSET S) /\ IsSum(g2, f2, SUBSET S)
    BY DEF Sums
  <1>1. {} \in F
    BY <1>0 DEF IsSum
  <1>2. ASSUME NEW U \in SUBSET S, U # {}, U \ {Pick(U)} \in F PROVE U \in F
    <2>1. SUFFICES ASSUME U \subseteq T PROVE g[U] = g2[U]
      OBVIOUS
    <2>2. Pick(U) \in U
      BY <1>2, PickIn
    <2>3. g[U \ {Pick(U)}] = g2[U \ {Pick(U)}]
      BY <1>2, <2>1
    <2>4. f[Pick(U)] = f2[Pick(U)]
      BY <2>1, <2>2
    <2>5. QED
      BY <1>0, <1>2, <2>3, <2>4 DEF IsSum
  <1>3. F = SUBSET S
    <2> HIDE DEF F
    <2>1. F \in SUBSET SUBSET S
      BY DEF F
    <2>2. QED
      BY <1>0, <1>1, <1>2, <2>1, SubsetInduction
  <1>4. QED
    BY <1>3

-----------------------------------------------------------------------------
(* What the proofs use of SumFunction, for a function with finite domain. *)

LEMMA SumInt ==
    ASSUME NEW S, IsFiniteSet(S), NEW f \in [S -> Int]
    PROVE  SumFunction(f) \in Int
  <1>1. PICK g : Sums(g, f, S) /\ SumFunction(f) = g[S]
    BY SumTable
  <1>2. S \in SUBSET S
    OBVIOUS
  <1>3. QED
    BY <1>1, <1>2 DEF Sums

\* One value changes: so does the sum, by as much.
LEMMA SumUpdate ==
    ASSUME NEW S, IsFiniteSet(S), NEW f \in [S -> Int], NEW f2 \in [S -> Int],
           NEW x \in S, \A y \in S \ {x} : f2[y] = f[y]
    PROVE  SumFunction(f2) = SumFunction(f) - f[x] + f2[x]
  <1>1. PICK g : Sums(g, f, S) /\ SumFunction(f) = g[S]
    BY SumTable
  <1>2. PICK g2 : Sums(g2, f2, S) /\ SumFunction(f2) = g2[S]
    BY SumTable
  <1>3. S \in SUBSET S /\ S \ {x} \in SUBSET S
    OBVIOUS
  <1>4. g[S] = f[x] + g[S \ {x}] /\ g2[S] = f2[x] + g2[S \ {x}]
    BY <1>1, <1>2, <1>3, SumLeaveOut
  <1>5. g[S \ {x}] = g2[S \ {x}]
    <2>1. \A y \in S \ {x} : f[y] = f2[y]
      OBVIOUS
    <2>2. QED
      BY <1>1, <1>2, <1>3, <2>1, SumAgree
  <1>6. g[S \ {x}] \in Int
    BY <1>1, <1>3 DEF Sums
  <1>7. f[x] \in Int /\ f2[x] \in Int
    OBVIOUS
  <1> DEFINE rest == g[S \ {x}]
             a == f[x]
             b == f2[x]
  <1>8. SumFunction(f) = a + rest /\ SumFunction(f2) = b + rest
    BY <1>1, <1>2, <1>4, <1>5
  <1>9. rest \in Int /\ a \in Int /\ b \in Int
    BY <1>6, <1>7
  <1> HIDE DEF rest, a, b
  <1>10. SumFunction(f2) = SumFunction(f) - a + b
    BY <1>8, <1>9
  <1>11. QED
    BY <1>10 DEF a, b

LEMMA SumZero ==
    ASSUME NEW S, IsFiniteSet(S)
    PROVE  SumFunction([x \in S |-> 0]) = 0
  <1> DEFINE f == [x \in S |-> 0]
             g == [s \in SUBSET S |-> 0]
  <1>1. f \in [S -> Int] /\ g \in [SUBSET S -> Int]
    OBVIOUS
  <1>2. IsSum(g, f, SUBSET S)
    <2>1. ASSUME NEW s \in SUBSET S, s # {} PROVE f[Pick(s)] = 0
      BY <2>1, PickIn
    <2>2. QED
      BY <2>1 DEF IsSum
  <1>3. Sums(g, f, S)
    BY <1>1, <1>2 DEF Sums
  <1>4. PICK g2 : Sums(g2, f, S) /\ SumFunction(f) = g2[S]
    BY <1>1, SumTable
  <1>5. S \in SUBSET S /\ g[S] = 0
    OBVIOUS
  <1>6. g2[S] = g[S]
    <2> HIDE DEF f, g
    <2>1. \A y \in S : f[y] = f[y]
      OBVIOUS
    <2>2. QED
      BY <1>3, <1>4, <1>5, <2>1, SumAgree
  <1>7. QED
    BY <1>4, <1>5, <1>6

\* The sum of natural numbers is one, and no part of it is larger.
LEMMA SumNat ==
    ASSUME NEW S, IsFiniteSet(S), NEW f \in [S -> Nat]
    PROVE  /\ SumFunction(f) \in Nat
           /\ \A x \in S : f[x] <= SumFunction(f)
  <1>0. f \in [S -> Int]
    OBVIOUS
  <1>1. PICK g : Sums(g, f, S) /\ SumFunction(f) = g[S]
    BY <1>0, SumTable
  <1> DEFINE F == {T \in SUBSET S : g[T] \in Nat}
  <1>2. {} \in F
    <2>1. {} \in SUBSET S
      OBVIOUS
    <2>2. g[{}] = 0
      BY <1>1, <2>1 DEF Sums, IsSum
    <2>3. QED
      BY <2>1, <2>2
  <1>3. ASSUME NEW T \in SUBSET S, T # {}, T \ {Pick(T)} \in F PROVE T \in F
    <2>1. Pick(T) \in S /\ f[Pick(T)] \in Nat
      BY <1>3, PickIn
    <2>2. g[T] = f[Pick(T)] + g[T \ {Pick(T)}]
      BY <1>1, <1>3 DEF Sums, IsSum
    <2>3. QED
      BY <1>3, <2>1, <2>2
  <1>4. F = SUBSET S
    <2> HIDE DEF F
    <2>1. F \in SUBSET SUBSET S
      BY DEF F
    <2>2. QED
      BY <1>2, <1>3, <2>1, SubsetInduction
  <1>5. ASSUME NEW x \in S PROVE f[x] <= g[S]
    <2>1. S \in SUBSET S /\ S \ {x} \in SUBSET S
      OBVIOUS
    <2>2. g[S] = f[x] + g[S \ {x}]
      BY <1>1, <2>1, SumLeaveOut
    <2>3. g[S \ {x}] \in Nat /\ g[S] \in Nat
      BY <1>4, <2>1
    <2>4. QED
      BY <2>2, <2>3
  <1>6. QED
    BY <1>1, <1>4, <1>5

-----------------------------------------------------------------------------
(* A recursion over the natural numbers has a solution. *)

\* f follows the recursion up to n.
Follows(f, base, step, n) ==
    f[0] = base /\ \A i \in Nat : i < n => f[i + 1] = step[<<f[i], i>>]

LEMMA RecursionPrefix ==
    ASSUME NEW X, NEW base \in X, NEW step \in [X \X Nat -> X], NEW n \in Nat
    PROVE  \E f \in [Nat -> X] : Follows(f, base, step, n)
  <1> DEFINE P == {m \in Nat : \E f \in [Nat -> X] : Follows(f, base, step, m)}
  <1>1. 0 \in P
    <2>1. /\ [i \in Nat |-> base] \in [Nat -> X]
          /\ Follows([i \in Nat |-> base], base, step, 0)
      BY DEF Follows
    <2>2. QED
      BY <2>1, Zenon
  <1>2. ASSUME NEW m \in P PROVE m + 1 \in P
    <2>1. PICK f \in [Nat -> X] : Follows(f, base, step, m)
      BY <1>2
    <2> DEFINE h == [i \in Nat |-> IF i = m + 1 THEN step[<<f[m], m>>] ELSE f[i]]
    <2>2. m \in Nat /\ m + 1 \in Nat
      OBVIOUS
    <2>3. h \in [Nat -> X]
      BY <2>1, <2>2
    <2>4. /\ h[m + 1] = step[<<f[m], m>>]
          /\ \A i \in Nat : i # m + 1 => h[i] = f[i]
      BY <2>2
    <2> HIDE DEF h
    <2>5. h[0] = base
      <3>1. 0 # m + 1
        BY <2>2
      <3>2. QED
        BY <2>1, <2>4, <3>1 DEF Follows
    <2>6. ASSUME NEW i \in Nat, i < m + 1 PROVE h[i + 1] = step[<<h[i], i>>]
      <3>1. h[i] = f[i]
        BY <2>2, <2>4, <2>6
      <3>2. CASE i = m
        BY <2>4, <3>1, <3>2
      <3>3. CASE i < m
        <4>1. f[i + 1] = step[<<f[i], i>>]
          BY <2>1, <3>3 DEF Follows
        <4>2. h[i + 1] = f[i + 1]
          BY <2>2, <2>4, <3>3
        <4>3. QED
          BY <3>1, <4>1, <4>2
      <3>4. QED
        BY <2>2, <2>6, <3>2, <3>3
    <2>7. Follows(h, base, step, m + 1)
      BY <2>5, <2>6 DEF Follows
    <2>8. QED
      BY <2>2, <2>3, <2>7, Zenon
  <1>3. P = Nat
    <2> HIDE DEF P
    <2>1. P \in SUBSET Nat
      BY DEF P
    <2>2. QED
      BY <1>1, <1>2, <2>1, NaturalInduction
  <1>4. QED
    BY <1>3

StepsOn(X) == [X \X Nat -> X]

LEMMA RecursionExists ==
    ASSUME NEW X, NEW base \in X, NEW step \in StepsOn(X)
    PROVE  \E f \in [Nat -> X] :
             f[0] = base /\ \A n \in Nat : f[n + 1] = step[<<f[n], n>>]
  <1> DEFINE At(n) == CHOOSE f \in [Nat -> X] : Follows(f, base, step, n)
  <1>1. ASSUME NEW n \in Nat PROVE At(n) \in [Nat -> X] /\ Follows(At(n), base, step, n)
    BY RecursionPrefix DEF StepsOn
  <1> HIDE DEF At
  <1>2. ASSUME NEW n \in Nat PROVE \A i \in Nat : i <= n => At(n + 1)[i] = At(n)[i]
    <2> DEFINE f == At(n)
               h == At(n + 1)
               Q == {i \in Nat : i <= n => h[i] = f[i]}
    <2>0. n + 1 \in Nat
      OBVIOUS
    <2>1. Follows(f, base, step, n) /\ Follows(h, base, step, n + 1)
      BY <1>1, <2>0
    <2> HIDE DEF f, h
    <2>2. 0 \in Q
      BY <2>1 DEF Follows
    <2>3. ASSUME NEW i \in Q PROVE i + 1 \in Q
      <3>1. SUFFICES ASSUME i + 1 <= n PROVE h[i + 1] = f[i + 1]
        OBVIOUS
      <3>2. i \in Nat /\ i < n /\ i < n + 1 /\ h[i] = f[i]
        BY <3>1
      <3>3. f[i + 1] = step[<<f[i], i>>] /\ h[i + 1] = step[<<h[i], i>>]
        BY <2>1, <3>2 DEF Follows
      <3>4. QED
        BY <3>2, <3>3
    <2>4. Q = Nat
      <3> HIDE DEF Q
      <3>1. Q \in SUBSET Nat
        BY DEF Q
      <3>2. QED
        BY <2>2, <2>3, <3>1, NaturalInduction
    <2>5. QED
      BY <2>4 DEF f, h
  <1> DEFINE r == [n \in Nat |-> At(n)[n]]
  <1>3. r \in [Nat -> X]
    BY <1>1
  <1>4. r[0] = base
    BY <1>1 DEF Follows
  <1>5. ASSUME NEW n \in Nat PROVE r[n + 1] = step[<<r[n], n>>]
    <2>1. n + 1 \in Nat /\ n < n + 1 /\ n <= n
      OBVIOUS
    <2>2. At(n + 1)[n + 1] = step[<<At(n + 1)[n], n>>]
      BY <1>1, <2>1 DEF Follows
    <2>3. At(n + 1)[n] = At(n)[n]
      BY <1>2, <2>1
    <2>4. r[n + 1] = At(n + 1)[n + 1] /\ r[n] = At(n)[n]
      BY <2>1
    <2>5. QED
      BY <2>2, <2>3, <2>4
  <1>6. QED
    BY <1>3, <1>4, <1>5

\* The same up to N, where the step may depend on data that ends there.
StepsWithin(step, X, N) == \A x \in X, n \in 1..N : step[<<x, n>>] \in X

Recursive(f, X, base, step, N) ==
    /\ f \in [0..N -> X]
    /\ f[0] = base
    /\ \A n \in 1..N : f[n - 1] \in X /\ f[n] = step[<<f[n - 1], n>>]

LEMMA RecursionTo ==
    ASSUME NEW X, NEW base \in X, NEW N \in Nat,
           NEW step, StepsWithin(step, X, N)
    PROVE  \E f : Recursive(f, X, base, step, N)
  <1> DEFINE st == [p \in X \X Nat |->
                      IF p[2] + 1 \in 1..N THEN step[<<p[1], p[2] + 1>>] ELSE p[1]]
  <1>1. st \in StepsOn(X)
    BY DEF StepsOn, StepsWithin
  <1>2. \A x \in X, n \in Nat : n + 1 \in 1..N => st[<<x, n>>] = step[<<x, n + 1>>]
    OBVIOUS
  <1> HIDE DEF st
  <1>3. PICK f \in [Nat -> X] : f[0] = base /\ \A n \in Nat : f[n + 1] = st[<<f[n], n>>]
    BY <1>1, RecursionExists
  <1> DEFINE g == [n \in 0..N |-> f[n]]
  <1>4. g \in [0..N -> X] /\ g[0] = base
    BY <1>3
  <1>5. ASSUME NEW n \in 1..N PROVE g[n - 1] \in X /\ g[n] = step[<<g[n - 1], n>>]
    <2>1. n - 1 \in Nat /\ (n - 1) + 1 = n /\ n \in 0..N /\ n - 1 \in 0..N
      OBVIOUS
    <2>2. f[n] = st[<<f[n - 1], n - 1>>]
      BY <1>3, <2>1
    <2>3. f[n - 1] \in X
      BY <1>3, <2>1
    <2>4. st[<<f[n - 1], n - 1>>] = step[<<f[n - 1], n>>]
      BY <1>2, <2>1, <2>3
    <2>5. QED
      BY <2>1, <2>2, <2>3, <2>4
  <1>6. QED
    BY <1>4, <1>5 DEF Recursive

\* Two functions that start alike and go on alike are alike.
Alike(f, g, N) == \A n \in 0..N : f[n] = g[n]
GoOnAlike(f, g, N) == \A n \in 1..N : f[n - 1] = g[n - 1] => f[n] = g[n]

LEMMA SameRecursion ==
    ASSUME NEW N \in Nat, NEW f, NEW g, f[0] = g[0], GoOnAlike(f, g, N)
    PROVE  Alike(f, g, N)
  <1> DEFINE P == {n \in Nat : n <= N => f[n] = g[n]}
  <1>1. 0 \in P
    OBVIOUS
  <1>2. ASSUME NEW n \in P PROVE n + 1 \in P
    <2>1. SUFFICES ASSUME n + 1 <= N PROVE f[n + 1] = g[n + 1]
      OBVIOUS
    <2>2. n + 1 \in 1..N /\ (n + 1) - 1 = n /\ f[n] = g[n]
      BY <2>1
    <2>3. QED
      BY <2>2 DEF GoOnAlike
  <1>3. P = Nat
    <2> HIDE DEF P
    <2>1. P \in SUBSET Nat
      BY DEF P
    <2>2. QED
      BY <1>1, <1>2, <2>1, NaturalInduction
  <1>4. QED
    BY <1>3 DEF Alike

\* A recursion has one solution: d is one that may not be known to stay in X.
Obeys(d, X, base, step, N) ==
    d[0] = base /\ \A n \in 1..N : d[n - 1] \in X => d[n] = step[<<d[n - 1], n>>]

LEMMA RecursionUnique ==
    ASSUME NEW X, NEW base, NEW step, NEW N \in Nat, NEW f, NEW d,
           Recursive(f, X, base, step, N), Obeys(d, X, base, step, N)
    PROVE  Alike(f, d, N)
  <1>1. f[0] = d[0]
    BY DEF Recursive, Obeys
  <1>2. GoOnAlike(f, d, N)
    BY DEF Recursive, Obeys, GoOnAlike
  <1>3. QED
    BY <1>1, <1>2, SameRecursion

\* One step more: the steps of the longer recursion begin like the shorter's.
SameSteps(step, step2, X, N) ==
    \A x \in X, n \in 1..N : step[<<x, n>>] = step2[<<x, n>>]

LEMMA RecursionLonger ==
    ASSUME NEW X, NEW base, NEW step, NEW step2, NEW N \in Nat, NEW M, M = N + 1,
           NEW f, NEW g,
           Recursive(f, X, base, step, N), Recursive(g, X, base, step2, M),
           SameSteps(step, step2, X, N)
    PROVE  f[N] \in X /\ g[M] = step2[<<f[N], M>>]
  <1>1. f[N] \in X
    BY DEF Recursive
  <1>2. f[0] = g[0]
    BY DEF Recursive
  <1>3. GoOnAlike(f, g, N)
    <2>1. ASSUME NEW n \in 1..N, f[n - 1] = g[n - 1] PROVE f[n] = g[n]
      <3>1. f[n - 1] \in X /\ f[n] = step[<<f[n - 1], n>>]
        BY DEF Recursive
      <3>2. n \in 1..M
        OBVIOUS
      <3>3. g[n] = step2[<<g[n - 1], n>>]
        BY <3>2 DEF Recursive
      <3>4. QED
        BY <2>1, <3>1, <3>3 DEF SameSteps
    <2>2. QED
      BY <2>1 DEF GoOnAlike
  <1>4. Alike(f, g, N)
    BY <1>2, <1>3, SameRecursion
  <1>5. f[N] = g[N]
    BY <1>4 DEF Alike
  <1>6. M \in 1..M /\ M - 1 = N
    OBVIOUS
  <1>7. g[M] = step2[<<g[M - 1], M>>]
    BY <1>6 DEF Recursive
  <1>8. QED
    BY <1>1, <1>5, <1>6, <1>7

\* Induction over the sequences of elements of S.
LEMMA SequenceInduction ==
    ASSUME NEW S, NEW F \in SUBSET Seq(S), <<>> \in F,
           \A s \in F : \A x \in S : Append(s, x) \in F
    PROVE  F = Seq(S)
  <1> DEFINE P == {n \in Nat : \A s \in Seq(S) : Len(s) = n => s \in F}
  <1>1. 0 \in P
    <2>1. \A s \in Seq(S) : Len(s) = 0 => s = <<>>
      BY EmptySeq
    <2>2. QED
      BY <2>1
  <1>2. ASSUME NEW n \in P PROVE n + 1 \in P
    <2>1. SUFFICES ASSUME NEW s \in Seq(S), Len(s) = n + 1 PROVE s \in F
      OBVIOUS
    <2>2. s # <<>>
      BY <2>1, EmptySeq
    <2>3. PICK q \in Seq(S), x \in S : s = Append(q, x)
      BY <2>2, SequenceEmptyOrAppend
    <2>4. Len(s) = Len(q) + 1 /\ Len(q) \in Nat
      BY <2>3, AppendProperties, LenProperties
    <2>5. q \in F
      BY <1>2, <2>1, <2>4
    <2>6. QED
      BY <2>3, <2>5
  <1>3. P = Nat
    <2> HIDE DEF P
    <2>1. P \in SUBSET Nat
      BY DEF P
    <2>2. QED
      BY <1>1, <1>2, <2>1, NaturalInduction
  <1>4. \A s \in Seq(S) : Len(s) \in Nat
    OBVIOUS
  <1>5. \A s \in Seq(S) : s \in F
    BY <1>3, <1>4
  <1>6. QED
    BY <1>5

\* A finite non-empty set of natural numbers has a greatest element.
LEMMA GreatestNatural ==
    ASSUME NEW S \in SUBSET Nat, IsFiniteSet(S), S # {}
    PROVE  \E m \in S : \A n \in S : n <= m
  <1> DEFINE F == {T \in SUBSET S : T # {} => \E m \in T : \A n \in T : n <= m}
  <1>1. {} \in F
    OBVIOUS
  <1>2. ASSUME NEW T \in SUBSET S, T # {}, T \ {Pick(T)} \in F PROVE T \in F
    <2>1. Pick(T) \in T
      BY <1>2, PickIn
    <2>2. CASE T \ {Pick(T)} = {}
      <3>1. \A n \in T : n = Pick(T)
        BY <2>2
      <3>2. Pick(T) \in Nat
        BY <2>1
      <3>3. QED
        BY <2>1, <3>1, <3>2
    <2>3. CASE T \ {Pick(T)} # {}
      <3>1. PICK m \in T \ {Pick(T)} : \A n \in T \ {Pick(T)} : n <= m
        BY <1>2, <2>3
      <3>2. m \in Nat /\ Pick(T) \in Nat
        BY <2>1
      <3>3. CASE Pick(T) <= m
        BY <3>1, <3>3
      <3>4. CASE ~(Pick(T) <= m)
        <4>1. \A n \in T : n <= Pick(T)
          BY <3>1, <3>2, <3>4
        <4>2. QED
          BY <2>1, <4>1
      <3>5. QED
        BY <3>3, <3>4
    <2>4. QED
      BY <2>2, <2>3
  <1>3. F = SUBSET S
    <2> HIDE DEF F
    <2>1. F \in SUBSET SUBSET S
      BY DEF F
    <2>2. QED
      BY <1>1, <1>2, <2>1, SubsetInduction
  <1>4. QED
    BY <1>3
=============================================================================
