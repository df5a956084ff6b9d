----------------------------- MODULE SwapProofs -----------------------------
(***************************************************************************)
(* Machine-checked proofs about Swap, for every set of users and           *)
(* transactions, every fee and minimal liquidity, and every bound.         *)
(*                                                                         *)
(* That a pool is never emptied rests on the liquidity tokens of any two   *)
(* holders being no more than there are. A sum over all holders would need *)
(* induction; instead a measure of the sets of holders is carried along,   *)
(* whose existence says the same.                                          *)
(***************************************************************************)
EXTENDS Swap, DataLemmas, SequenceTheorems, TLAPS

-----------------------------------------------------------------------------
(* Measures *)

\* s adds the balances f up over sets of holders.
IsMeasure(s, f) ==
    /\ s \in [SUBSET Accounts -> Nat]
    /\ \A a \in Accounts : s[{a}] = f[a]
    /\ \A S, T \in SUBSET Accounts : S \cap T = {} => s[S \cup T] = s[S] + s[T]

\* The liquidity tokens there are, are those that are held.
Counted(b) == \E s : IsMeasure(s, b.bal[LP]) /\ s[Accounts] = b.sum[LP]

\* What one holder has is part of what a set he belongs to has.
LEMMA MeasureSplit ==
    ASSUME NEW f, NEW s, IsMeasure(s, f), NEW a \in Accounts,
           NEW S \in SUBSET Accounts, a \in S
    PROVE  s[S] = f[a] + s[S \ {a}] /\ s[S \ {a}] \in Nat
  <1>1. {a} \in SUBSET Accounts /\ S \ {a} \in SUBSET Accounts
        /\ {a} \cap (S \ {a}) = {} /\ {a} \cup (S \ {a}) = S
    OBVIOUS
  <1>2. s[S] = s[{a}] + s[S \ {a}]
    BY <1>1 DEF IsMeasure
  <1>3. QED
    BY <1>1, <1>2 DEF IsMeasure

\* Two holders have no more than all.
LEMMA MeasureOfTwo ==
    ASSUME NEW b \in Books, Counted(b),
           NEW u \in Accounts, NEW v \in Accounts, u # v
    PROVE  b.bal[LP][u] + b.bal[LP][v] <= b.sum[LP]
  <1>1. PICK s : IsMeasure(s, b.bal[LP]) /\ s[Accounts] = b.sum[LP]
    BY DEF Counted
  <1>2. s[Accounts] = b.bal[LP][u] + s[Accounts \ {u}]
    BY <1>1, MeasureSplit
  <1>3. s[Accounts \ {u}] = b.bal[LP][v] + s[(Accounts \ {u}) \ {v}]
        /\ s[(Accounts \ {u}) \ {v}] \in Nat
    BY <1>1, MeasureSplit
  <1>4. b.bal[LP][u] \in Nat /\ b.bal[LP][v] \in Nat
    BY DEF Books, Ticks
  <1>5. QED
    BY <1>1, <1>2, <1>3, <1>4

Raised(f, a, x) == [f EXCEPT ![a] = @ + x]
Lowered(f, a, x) == [f EXCEPT ![a] = @ - x]

\* A balance that grows, and one that falls.
LEMMA MeasureUp ==
    ASSUME NEW f \in [Accounts -> Nat], NEW s, IsMeasure(s, f), NEW a \in Accounts,
           NEW x \in Nat
    PROVE  \E r : IsMeasure(r, Raised(f, a, x)) /\ r[Accounts] = s[Accounts] + x
  <1> DEFINE g == [f EXCEPT ![a] = @ + x]
  <1> DEFINE r == [S \in SUBSET Accounts |-> s[S] + (IF a \in S THEN x ELSE 0)]
  <1>1. s \in [SUBSET Accounts -> Nat]
    BY DEF IsMeasure
  <1>2. r \in [SUBSET Accounts -> Nat]
    BY <1>1
  <1>3. ASSUME NEW c \in Accounts PROVE r[{c}] = g[c]
    <2>1. s[{c}] = f[c]
      BY DEF IsMeasure
    <2>2. r[{c}] = s[{c}] + (IF a \in {c} THEN x ELSE 0)
      OBVIOUS
    <2>3. QED
      BY <2>1, <2>2
  <1>4. ASSUME NEW S \in SUBSET Accounts, NEW T \in SUBSET Accounts, S \cap T = {}
        PROVE  r[S \cup T] = r[S] + r[T]
    <2>1. s[S \cup T] = s[S] + s[T]
      BY <1>4 DEF IsMeasure
    <2>2. s[S] \in Nat /\ s[T] \in Nat /\ S \cup T \in SUBSET Accounts
      BY <1>1
    <2>3. QED
      BY <1>4, <2>1, <2>2
  <1>5. r[Accounts] = s[Accounts] + x
    OBVIOUS
  <1>6. IsMeasure(r, g)
    BY <1>2, <1>3, <1>4 DEF IsMeasure
  <1>7. QED
    BY <1>5, <1>6 DEF Raised

LEMMA MeasureDown ==
    ASSUME NEW f \in [Accounts -> Nat], NEW s, IsMeasure(s, f), NEW a \in Accounts,
           NEW x \in Nat, x <= f[a]
    PROVE  \E r : IsMeasure(r, Lowered(f, a, x)) /\ r[Accounts] = s[Accounts] - x
  <1> DEFINE g == [f EXCEPT ![a] = @ - x]
  <1> DEFINE r == [S \in SUBSET Accounts |-> s[S] - (IF a \in S THEN x ELSE 0)]
  <1>1. s \in [SUBSET Accounts -> Nat]
    BY DEF IsMeasure
  <1>2. r \in [SUBSET Accounts -> Nat]
    <2>1. ASSUME NEW S \in SUBSET Accounts, a \in S PROVE s[S] - x \in Nat
      <3>1. s[S] = f[a] + s[S \ {a}] /\ s[S \ {a}] \in Nat
        BY <2>1, MeasureSplit
      <3>2. f[a] \in Nat
        OBVIOUS
      <3>3. QED
        BY <3>1, <3>2
    <2>2. QED
      BY <1>1, <2>1
  <1>3. ASSUME NEW c \in Accounts PROVE r[{c}] = g[c]
    <2>1. s[{c}] = f[c]
      BY DEF IsMeasure
    <2>2. r[{c}] = s[{c}] - (IF a \in {c} THEN x ELSE 0)
      OBVIOUS
    <2>3. QED
      BY <2>1, <2>2
  <1>4. ASSUME NEW S \in SUBSET Accounts, NEW T \in SUBSET Accounts, S \cap T = {}
        PROVE  r[S \cup T] = r[S] + r[T]
    <2>1. s[S \cup T] = s[S] + s[T]
      BY <1>4 DEF IsMeasure
    <2>2. s[S] \in Nat /\ s[T] \in Nat /\ S \cup T \in SUBSET Accounts
      BY <1>1
    <2>3. QED
      BY <1>4, <2>1, <2>2
  <1>5. r[Accounts] = s[Accounts] - x
    OBVIOUS
  <1>6. IsMeasure(r, g)
    BY <1>2, <1>3, <1>4 DEF IsMeasure
  <1>7. QED
    BY <1>5, <1>6 DEF Lowered

-----------------------------------------------------------------------------
(* The ledger's operations *)

LEMMA NameFacts ==
    /\ Tick0 \in Ticks /\ Tick1 \in Ticks /\ LP \in Ticks /\ WDOGE \in Ticks
    /\ Pair \subseteq Ticks /\ LP \notin Pair /\ WDOGE \in Pair
    /\ Tick0 # Tick1 /\ Tick0 # LP /\ Tick1 # LP /\ WDOGE # LP
    /\ Pool \in Accounts /\ Pool \notin Users /\ Users \subseteq Accounts
  BY SwapAssumption DEF Ticks, Pair, Accounts

LEMMA MoveInFacts ==
    ASSUME NEW b \in Books, NEW t \in Ticks, NEW from \in Accounts, NEW to \in Accounts,
           NEW amt \in Int, CanMove(b.bal, t, from, to, amt)
    PROVE  /\ MoveIn(b, t, from, to, amt) \in Books
           /\ MoveIn(b, t, from, to, amt).sum = b.sum
           /\ \A k \in Ticks, a \in Accounts :
                MoveIn(b, t, from, to, amt).bal[k][a] =
                  IF k = t /\ a = from THEN b.bal[k][a] - amt
                  ELSE IF k = t /\ a = to THEN b.bal[k][a] + amt
                  ELSE b.bal[k][a]
           /\ \A k \in Ticks \ {t} :
                MoveIn(b, t, from, to, amt).bal[k] = b.bal[k]
  <1> DEFINE c == Move(b.bal, t, from, to, amt)
  <1>1. b.bal \in [Ticks -> [Accounts -> Nat]] /\ b.sum \in [Ticks -> Nat]
        /\ b = [bal |-> b.bal, sum |-> b.sum]
    BY DEF Books
  <1>2. c \in [Ticks -> [Accounts -> Nat]]
    BY <1>1 DEF Move, CanMove
  <1>3. \A k \in Ticks, a \in Accounts :
          c[k][a] = IF k = t /\ a = from THEN b.bal[k][a] - amt
                    ELSE IF k = t /\ a = to THEN b.bal[k][a] + amt
                    ELSE b.bal[k][a]
    BY <1>1 DEF Move, CanMove
  <1>4. \A k \in Ticks \ {t} : c[k] = b.bal[k]
    BY <1>1 DEF Move
  <1>5. MoveIn(b, t, from, to, amt) = [bal |-> c, sum |-> b.sum]
    BY <1>1 DEF MoveIn
  <1> HIDE DEF c
  <1>6. QED
    BY <1>1, <1>2, <1>3, <1>4, <1>5 DEF Books

LEMMA MintInFacts ==
    ASSUME NEW b \in Books, NEW t \in Ticks, NEW h \in Accounts, NEW amt \in Nat
    PROVE  /\ MintIn(b, t, h, amt) \in Books
           /\ MintIn(b, t, h, amt).sum = [b.sum EXCEPT ![t] = @ + amt]
           /\ \A k \in Ticks, a \in Accounts :
                MintIn(b, t, h, amt).bal[k][a] =
                  IF k = t /\ a = h THEN b.bal[k][a] + amt ELSE b.bal[k][a]
           /\ \A k \in Ticks \ {t} : MintIn(b, t, h, amt).bal[k] = b.bal[k]
  <1> DEFINE c == Mint(b.bal, t, h, amt)
  <1>1. b.bal \in [Ticks -> [Accounts -> Nat]] /\ b.sum \in [Ticks -> Nat]
    BY DEF Books
  <1>2. c \in [Ticks -> [Accounts -> Nat]]
    BY <1>1 DEF Mint
  <1>3. \A k \in Ticks, a \in Accounts :
          c[k][a] = IF k = t /\ a = h THEN b.bal[k][a] + amt ELSE b.bal[k][a]
    BY <1>1 DEF Mint
  <1>4. \A k \in Ticks \ {t} : c[k] = b.bal[k]
    BY <1>1 DEF Mint
  <1>5. [b.sum EXCEPT ![t] = @ + amt] \in [Ticks -> Nat]
    BY <1>1
  <1>6. MintIn(b, t, h, amt) = [bal |-> c, sum |-> [b.sum EXCEPT ![t] = @ + amt]]
    BY DEF MintIn
  <1> HIDE DEF c
  <1>7. QED
    BY <1>2, <1>3, <1>4, <1>5, <1>6 DEF Books

LEMMA BurnInFacts ==
    ASSUME NEW b \in Books, NEW t \in Ticks, NEW h \in Accounts, NEW amt \in Nat,
           CanBurnIn(b, t, h, amt)
    PROVE  /\ BurnIn(b, t, h, amt) \in Books
           /\ BurnIn(b, t, h, amt).sum = [b.sum EXCEPT ![t] = @ - amt]
           /\ \A k \in Ticks, a \in Accounts :
                BurnIn(b, t, h, amt).bal[k][a] =
                  IF k = t /\ a = h THEN b.bal[k][a] - amt ELSE b.bal[k][a]
           /\ \A k \in Ticks \ {t} : BurnIn(b, t, h, amt).bal[k] = b.bal[k]
  <1> DEFINE c == Burn(b.bal, t, h, amt)
  <1>1. b.bal \in [Ticks -> [Accounts -> Nat]] /\ b.sum \in [Ticks -> Nat]
        /\ amt <= b.sum[t] /\ amt <= b.bal[t][h]
    BY DEF Books, CanBurnIn, CanBurn
  <1>2. c \in [Ticks -> [Accounts -> Nat]]
    BY <1>1 DEF Burn
  <1>3. \A k \in Ticks, a \in Accounts :
          c[k][a] = IF k = t /\ a = h THEN b.bal[k][a] - amt ELSE b.bal[k][a]
    BY <1>1 DEF Burn
  <1>4. \A k \in Ticks \ {t} : c[k] = b.bal[k]
    BY <1>1 DEF Burn
  <1>5. [b.sum EXCEPT ![t] = @ - amt] \in [Ticks -> Nat]
    BY <1>1
  <1>6. BurnIn(b, t, h, amt) = [bal |-> c, sum |-> [b.sum EXCEPT ![t] = @ - amt]]
    BY DEF BurnIn
  <1> HIDE DEF c
  <1>7. QED
    BY <1>2, <1>3, <1>4, <1>5, <1>6 DEF Books

LEMMA CountedMove ==
    ASSUME NEW b \in Books, Counted(b),
           NEW t \in Ticks, NEW from \in Accounts, NEW to \in Accounts,
           NEW amt \in Int, CanMove(b.bal, t, from, to, amt)
    PROVE  Counted(MoveIn(b, t, from, to, amt))
  <1> DEFINE c == MoveIn(b, t, from, to, amt)
             f == b.bal[LP]
             g == Lowered(f, from, amt)
  <1>1. c.sum = b.sum /\ (t # LP => c.bal[LP] = f)
    BY MoveInFacts, NameFacts
  <1>2. CASE t # LP
    BY <1>1, <1>2 DEF Counted
  <1>3. CASE t = LP
    <2>1. PICK s : IsMeasure(s, f) /\ s[Accounts] = b.sum[LP]
      BY DEF Counted
    <2>2. f \in [Accounts -> Nat] /\ amt \in Nat /\ amt <= f[from] /\ from # to
      BY <1>3, NameFacts DEF Books, CanMove
    <2>3. g \in [Accounts -> Nat]
      BY <2>2 DEF Lowered
    <2>4. c.bal[LP] = Raised(g, to, amt)
      <3>1. c.bal = Move(b.bal, t, from, to, amt) /\ b.bal \in [Ticks -> [Accounts -> Nat]]
        BY DEF MoveIn, Books
      <3>2. QED
        BY <1>3, <2>2, <3>1, NameFacts DEF Move, Raised, Lowered
    <2>5. PICK r : IsMeasure(r, g) /\ r[Accounts] = s[Accounts] - amt
      <3> HIDE DEF f
      <3>1. QED
        BY <2>1, <2>2, MeasureDown
    <2>6. PICK q : IsMeasure(q, c.bal[LP]) /\ q[Accounts] = r[Accounts] + amt
      <3> HIDE DEF g
      <3>1. QED
        BY <2>2, <2>3, <2>4, <2>5, MeasureUp
    <2>7. s[Accounts] \in Nat
      BY <2>1 DEF IsMeasure
    <2>8. q[Accounts] = c.sum[LP]
      BY <1>1, <2>1, <2>2, <2>5, <2>6, <2>7
    <2>9. QED
      BY <2>6, <2>8 DEF Counted
  <1>4. QED
    BY <1>2, <1>3

LEMMA CountedMint ==
    ASSUME NEW b \in Books, Counted(b), NEW t \in Ticks, NEW h \in Accounts,
           NEW amt \in Nat
    PROVE  Counted(MintIn(b, t, h, amt))
  <1> DEFINE c == MintIn(b, t, h, amt)
             f == b.bal[LP]
  <1>1. b.sum \in [Ticks -> Nat] /\ b.bal \in [Ticks -> [Accounts -> Nat]]
        /\ c.sum = [b.sum EXCEPT ![t] = @ + amt] /\ c.bal = Mint(b.bal, t, h, amt)
    BY DEF Books, MintIn
  <1>2. CASE t # LP
    <2>1. c.sum[LP] = b.sum[LP] /\ c.bal[LP] = f
      BY <1>1, <1>2, NameFacts DEF Mint
    <2>2. QED
      BY <2>1 DEF Counted
  <1>3. CASE t = LP
    <2>1. PICK s : IsMeasure(s, f) /\ s[Accounts] = b.sum[LP]
      BY DEF Counted
    <2>2. f \in [Accounts -> Nat]
      BY <1>1, <1>3, NameFacts DEF Books
    <2>3. c.bal[LP] = Raised(f, h, amt)
      BY <1>1, <1>3, NameFacts DEF Mint, Raised
    <2>4. PICK q : IsMeasure(q, c.bal[LP]) /\ q[Accounts] = s[Accounts] + amt
      <3> HIDE DEF f
      <3>1. QED
        BY <2>1, <2>2, <2>3, MeasureUp
    <2>5. q[Accounts] = c.sum[LP]
      BY <1>1, <1>3, <2>1, <2>4, NameFacts
    <2>6. QED
      BY <2>4, <2>5 DEF Counted
  <1>4. QED
    BY <1>2, <1>3

LEMMA CountedBurn ==
    ASSUME NEW b \in Books, Counted(b), NEW t \in Ticks, NEW h \in Accounts,
           NEW amt \in Nat,
           CanBurnIn(b, t, h, amt)
    PROVE  Counted(BurnIn(b, t, h, amt))
  <1> DEFINE c == BurnIn(b, t, h, amt)
             f == b.bal[LP]
  <1>1. b.sum \in [Ticks -> Nat] /\ b.bal \in [Ticks -> [Accounts -> Nat]]
        /\ c.sum = [b.sum EXCEPT ![t] = @ - amt] /\ c.bal = Burn(b.bal, t, h, amt)
    BY DEF Books, BurnIn
  <1>2. CASE t # LP
    <2>1. c.sum[LP] = b.sum[LP] /\ c.bal[LP] = f
      BY <1>1, <1>2, NameFacts DEF Burn
    <2>2. QED
      BY <2>1 DEF Counted
  <1>3. CASE t = LP
    <2>1. PICK s : IsMeasure(s, f) /\ s[Accounts] = b.sum[LP]
      BY DEF Counted
    <2>2. f \in [Accounts -> Nat] /\ amt <= f[h]
      BY <1>1, <1>3, NameFacts DEF Books, CanBurnIn, CanBurn
    <2>3. c.bal[LP] = Lowered(f, h, amt)
      BY <1>1, <1>3, NameFacts DEF Burn, Lowered
    <2>4. PICK q : IsMeasure(q, c.bal[LP]) /\ q[Accounts] = s[Accounts] - amt
      <3> HIDE DEF f
      <3>1. QED
        BY <2>1, <2>2, <2>3, MeasureDown
    <2>5. q[Accounts] = c.sum[LP]
      BY <1>1, <1>3, <2>1, <2>4, NameFacts
    <2>6. QED
      BY <2>4, <2>5 DEF Counted
  <1>4. QED
    BY <1>2, <1>3

-----------------------------------------------------------------------------
(* A sound pool *)

\* What is said of a ledger and a row of swap_liquidity, committed or not.
Sound(b, p) ==
    /\ b \in Books
    /\ p \in Rows \cup {NoPool}
    /\ Counted(b)
    /\ p = NoPool => b.sum[LP] = 0
    /\ p # NoPool =>
          /\ \A t \in Pair : p.amt[t] >= 1 /\ p.amt[t] <= b.bal[t][Pool]
          /\ p.total = b.sum[LP]
          /\ b.bal[LP][Pool] >= MINI_LIQUIDITY

\* A refreshed row is sound if the pool has something of either token.
LEMMA RefreshSound ==
    ASSUME NEW b \in Books, Counted(b),
           \A t \in Pair : b.bal[t][Pool] >= 1,
           b.bal[LP][Pool] >= MINI_LIQUIDITY
    PROVE  Sound(b, Refresh(b)) /\ Refresh(b) # NoPool
  <1>1. b.bal \in [Ticks -> [Accounts -> Nat]] /\ b.sum \in [Ticks -> Nat]
    BY DEF Books
  <1>2. \A t \in Pair : b.bal[t][Pool] \in Nat
    BY <1>1, NameFacts
  <1>3. Refresh(b) \in Rows
    BY <1>1, <1>2, NameFacts DEF Refresh, Rows
  <1>4. Refresh(b) # NoPool
    BY <1>3, SwapAssumption
  <1>5. \A t \in Pair : Refresh(b).amt[t] = b.bal[t][Pool]
    BY DEF Refresh
  <1>6. Refresh(b).total = b.sum[LP]
    BY DEF Refresh
  <1>7. QED
    BY <1>2, <1>3, <1>4, <1>5, <1>6 DEF Sound

\* What a sound pool's parts are.
LEMMA SoundFacts ==
    ASSUME NEW b, NEW p, Sound(b, p), p # NoPool
    PROVE  /\ \A t \in Pair : p.amt[t] \in Nat \ {0} /\ b.bal[t][Pool] \in Nat
           /\ p.total \in Nat /\ p.total = b.sum[LP]
           /\ p.total >= MINI_LIQUIDITY
           /\ \A u \in Users : b.bal[LP][u] \in Nat /\ b.bal[LP][u] < p.total
  <1>1. b \in Books /\ p \in Rows /\ Counted(b)
    BY DEF Sound
  <1>2. b.bal \in [Ticks -> [Accounts -> Nat]] /\ b.sum \in [Ticks -> Nat]
    BY <1>1 DEF Books
  <1>3. p.amt \in [Pair -> Nat] /\ p.total \in Nat /\ p.total = b.sum[LP]
    BY <1>1 DEF Sound, Rows
  <1>4. \A t \in Pair : p.amt[t] >= 1
    BY DEF Sound
  <1>5. MINI_LIQUIDITY \in Nat \ {0} /\ b.bal[LP][Pool] >= MINI_LIQUIDITY
        /\ b.bal[LP][Pool] \in Nat
    BY <1>2, SwapAssumption, NameFacts DEF Sound
  <1>6. ASSUME NEW u \in Users
        PROVE  b.bal[LP][u] \in Nat /\ b.bal[LP][u] + b.bal[LP][Pool] <= p.total
    <2>1. u \in Accounts /\ u # Pool /\ Pool \in Accounts
      BY NameFacts
    <2>2. b.bal[LP][u] + b.bal[LP][Pool] <= b.sum[LP]
      BY <1>1, <2>1, MeasureOfTwo
    <2>3. QED
      BY <1>2, <1>3, <2>1, <2>2, NameFacts
  <1>7. \A u \in Users : b.bal[LP][u] < p.total
    BY <1>3, <1>5, <1>6
  <1>8. p.total >= MINI_LIQUIDITY
    <2>1. PICK s : IsMeasure(s, b.bal[LP]) /\ s[Accounts] = b.sum[LP]
      BY <1>1 DEF Counted
    <2>2. s[Accounts] = b.bal[LP][Pool] + s[Accounts \ {Pool}]
          /\ s[Accounts \ {Pool}] \in Nat
      BY <2>1, MeasureSplit, NameFacts
    <2>3. QED
      BY <1>3, <1>5, <2>1, <2>2
  <1>9. QED
    BY <1>2, <1>3, <1>4, <1>6, <1>7, <1>8, NameFacts

-----------------------------------------------------------------------------
(* The whole square root *)

LEMMA IsqrtFacts ==
    ASSUME NEW n \in Nat
    PROVE  Isqrt(n) \in Nat
  <1> DEFINE T == {r \in Nat : (r + 1) * (r + 1) > n}
  <1>1. n \in T
    OBVIOUS
  <1>2. PICK r \in T : \A k \in T : r <= k
    BY <1>1, LeastNatural
  <1>3. r \in Nat /\ (r + 1) * (r + 1) > n
    OBVIOUS
  <1>4. r * r <= n
    <2>1. CASE r = 0
      BY <2>1
    <2>2. CASE r # 0
      <3>1. r - 1 \in Nat /\ r - 1 < r
        BY <1>3, <2>2
      <3>3. r - 1 \notin T
        BY <1>2, <1>3, <3>1
      <3>4. ((r - 1) + 1) * ((r - 1) + 1) <= n
        BY <3>1, <3>3
      <3>5. (r - 1) + 1 = r
        BY <1>3
      <3>6. QED
        BY <3>4, <3>5
    <2>3. QED
      BY <2>1, <2>2
  <1>5. r \in 0..n
    <2>1. ASSUME r > n PROVE FALSE
      <3>1. r * r >= r * 1
        BY <1>3, <2>1
      <3>2. QED
        BY <1>3, <1>4, <2>1, <3>1
    <2>2. QED
      BY <1>3, <2>1
  <1>6. Isqrt(n) \in 0..n
    BY <1>3, <1>4, <1>5 DEF Isqrt
  <1>7. QED
    BY <1>6

-----------------------------------------------------------------------------
(* The pool's operations keep it sound *)

\* Both ticks of the pair move between two addresses.
LEMMA PairMoved ==
    ASSUME NEW b \in Books, Counted(b),
           NEW from \in Accounts, NEW to \in Accounts, NEW x \in Int, NEW y \in Int,
           CanMove(b.bal, Tick0, from, to, x), CanMove(b.bal, Tick1, from, to, y)
    PROVE  LET c == MoveIn(MoveIn(b, Tick0, from, to, x), Tick1, from, to, y)
           IN  /\ c \in Books /\ Counted(c)
               /\ c.sum = b.sum /\ c.bal[LP] = b.bal[LP]
               /\ \A a \in Accounts :
                    /\ c.bal[Tick0][a] = IF a = from THEN b.bal[Tick0][a] - x
                                         ELSE IF a = to THEN b.bal[Tick0][a] + x
                                         ELSE b.bal[Tick0][a]
                    /\ c.bal[Tick1][a] = IF a = from THEN b.bal[Tick1][a] - y
                                         ELSE IF a = to THEN b.bal[Tick1][a] + y
                                         ELSE b.bal[Tick1][a]
  <1> DEFINE d == MoveIn(b, Tick0, from, to, x)
             c == MoveIn(d, Tick1, from, to, y)
  <1>1. /\ d \in Books /\ d.sum = b.sum
        /\ \A k \in Ticks, a \in Accounts :
             d.bal[k][a] = IF k = Tick0 /\ a = from THEN b.bal[k][a] - x
                           ELSE IF k = Tick0 /\ a = to THEN b.bal[k][a] + x
                           ELSE b.bal[k][a]
        /\ \A k \in Ticks \ {Tick0} : d.bal[k] = b.bal[k]
    BY MoveInFacts, NameFacts
  <1>2. Counted(d)
    BY CountedMove, NameFacts
  <1> HIDE DEF d
  <1>3. CanMove(d.bal, Tick1, from, to, y)
    BY <1>1, NameFacts DEF CanMove
  <1>4. /\ c \in Books /\ c.sum = d.sum
        /\ \A k \in Ticks, a \in Accounts :
             c.bal[k][a] = IF k = Tick1 /\ a = from THEN d.bal[k][a] - y
                           ELSE IF k = Tick1 /\ a = to THEN d.bal[k][a] + y
                           ELSE d.bal[k][a]
        /\ \A k \in Ticks \ {Tick1} : c.bal[k] = d.bal[k]
    BY <1>1, <1>3, MoveInFacts, NameFacts
  <1>5. Counted(c)
    BY <1>1, <1>2, <1>3, CountedMove, NameFacts
  <1> HIDE DEF c
  <1>6. c.bal[LP] = b.bal[LP] /\ c.sum = b.sum
    BY <1>1, <1>4, NameFacts
  <1>7. \A a \in Accounts :
           /\ c.bal[Tick0][a] = d.bal[Tick0][a]
           /\ d.bal[Tick1][a] = b.bal[Tick1][a]
    BY <1>1, <1>4, NameFacts
  <1>8. \A a \in Accounts :
           /\ c.bal[Tick0][a] = IF a = from THEN b.bal[Tick0][a] - x
                                ELSE IF a = to THEN b.bal[Tick0][a] + x
                                ELSE b.bal[Tick0][a]
           /\ c.bal[Tick1][a] = IF a = from THEN b.bal[Tick1][a] - y
                                ELSE IF a = to THEN b.bal[Tick1][a] + y
                                ELSE b.bal[Tick1][a]
    BY <1>1, <1>4, <1>7, NameFacts
  <1>9. QED
    BY <1>4, <1>5, <1>6, <1>8 DEF c, d

\* A user pays both ticks to the pool, and is paid.
LEMMA PaidToPool ==
    ASSUME NEW b \in Books, Counted(b), NEW u \in Users, NEW x \in Nat, NEW y \in Nat,
           CanMove(b.bal, Tick0, u, Pool, x), CanMove(b.bal, Tick1, u, Pool, y)
    PROVE  LET c == MoveIn(MoveIn(b, Tick0, u, Pool, x), Tick1, u, Pool, y)
           IN  /\ c \in Books /\ Counted(c)
               /\ c.sum = b.sum /\ c.bal[LP] = b.bal[LP]
               /\ c.bal[Tick0][Pool] = b.bal[Tick0][Pool] + x
               /\ c.bal[Tick1][Pool] = b.bal[Tick1][Pool] + y
  <1> DEFINE c == MoveIn(MoveIn(b, Tick0, u, Pool, x), Tick1, u, Pool, y)
  <1>1. u \in Accounts /\ u # Pool /\ Pool \in Accounts /\ x \in Int /\ y \in Int
    BY NameFacts
  <1> HIDE DEF c
  <1>2. /\ c \in Books /\ Counted(c)
        /\ c.sum = b.sum /\ c.bal[LP] = b.bal[LP]
        /\ \A a \in Accounts :
             /\ c.bal[Tick0][a] = IF a = u THEN b.bal[Tick0][a] - x
                                  ELSE IF a = Pool THEN b.bal[Tick0][a] + x
                                  ELSE b.bal[Tick0][a]
             /\ c.bal[Tick1][a] = IF a = u THEN b.bal[Tick1][a] - y
                                  ELSE IF a = Pool THEN b.bal[Tick1][a] + y
                                  ELSE b.bal[Tick1][a]
    BY <1>1, PairMoved DEF c
  <1>3. QED
    BY <1>1, <1>2 DEF c

LEMMA PaidFromPool ==
    ASSUME NEW b \in Books, Counted(b), NEW u \in Users, NEW x \in Nat, NEW y \in Nat,
           CanMove(b.bal, Tick0, Pool, u, x), CanMove(b.bal, Tick1, Pool, u, y)
    PROVE  LET c == MoveIn(MoveIn(b, Tick0, Pool, u, x), Tick1, Pool, u, y)
           IN  /\ c \in Books /\ Counted(c)
               /\ c.sum = b.sum /\ c.bal[LP] = b.bal[LP]
               /\ c.bal[Tick0][Pool] = b.bal[Tick0][Pool] - x
               /\ c.bal[Tick1][Pool] = b.bal[Tick1][Pool] - y
  <1> DEFINE c == MoveIn(MoveIn(b, Tick0, Pool, u, x), Tick1, Pool, u, y)
  <1>1. u \in Accounts /\ u # Pool /\ Pool \in Accounts /\ x \in Int /\ y \in Int
    BY NameFacts
  <1> HIDE DEF c
  <1>2. /\ c \in Books /\ Counted(c)
        /\ c.sum = b.sum /\ c.bal[LP] = b.bal[LP]
        /\ \A a \in Accounts :
             /\ c.bal[Tick0][a] = IF a = Pool THEN b.bal[Tick0][a] - x
                                  ELSE IF a = u THEN b.bal[Tick0][a] + x
                                  ELSE b.bal[Tick0][a]
             /\ c.bal[Tick1][a] = IF a = Pool THEN b.bal[Tick1][a] - y
                                  ELSE IF a = u THEN b.bal[Tick1][a] + y
                                  ELSE b.bal[Tick1][a]
    BY <1>1, PairMoved DEF c
  <1>3. QED
    BY <1>1, <1>2 DEF c

\* Liquidity is minted, and burned.
LEMMA LiquidityMinted ==
    ASSUME NEW b \in Books, Counted(b), NEW h \in Accounts, NEW amt \in Nat
    PROVE  LET c == MintIn(b, LP, h, amt)
           IN  /\ c \in Books /\ Counted(c)
               /\ c.bal[Tick0] = b.bal[Tick0] /\ c.bal[Tick1] = b.bal[Tick1]
               /\ c.sum[LP] = b.sum[LP] + amt
               /\ c.bal[LP][Pool] = IF h = Pool THEN b.bal[LP][Pool] + amt
                                    ELSE b.bal[LP][Pool]
  <1> DEFINE c == MintIn(b, LP, h, amt)
  <1>1. Counted(c)
    BY CountedMint, NameFacts
  <1>2. b.sum \in [Ticks -> Nat]
    BY DEF Books
  <1>3. /\ c \in Books /\ c.sum = [b.sum EXCEPT ![LP] = @ + amt]
        /\ \A k \in Ticks, a \in Accounts :
             c.bal[k][a] = IF k = LP /\ a = h THEN b.bal[k][a] + amt ELSE b.bal[k][a]
        /\ \A k \in Ticks \ {LP} : c.bal[k] = b.bal[k]
    BY MintInFacts, NameFacts
  <1> HIDE DEF c
  <1>4. QED
    BY <1>1, <1>2, <1>3, NameFacts DEF c

LEMMA LiquidityBurned ==
    ASSUME NEW b \in Books, Counted(b), NEW h \in Accounts, NEW amt \in Nat,
           CanBurnIn(b, LP, h, amt)
    PROVE  LET c == BurnIn(b, LP, h, amt)
           IN  /\ c \in Books /\ Counted(c)
               /\ c.bal[Tick0] = b.bal[Tick0] /\ c.bal[Tick1] = b.bal[Tick1]
               /\ c.sum[LP] = b.sum[LP] - amt
               /\ h # Pool => c.bal[LP][Pool] = b.bal[LP][Pool]
  <1> DEFINE c == BurnIn(b, LP, h, amt)
  <1>1. Counted(c)
    BY CountedBurn, NameFacts
  <1>2. b.sum \in [Ticks -> Nat]
    BY DEF Books
  <1>3. /\ c \in Books /\ c.sum = [b.sum EXCEPT ![LP] = @ - amt]
        /\ \A k \in Ticks, a \in Accounts :
             c.bal[k][a] = IF k = LP /\ a = h THEN b.bal[k][a] - amt ELSE b.bal[k][a]
        /\ \A k \in Ticks \ {LP} : c.bal[k] = b.bal[k]
    BY BurnInFacts, NameFacts
  <1> HIDE DEF c
  <1>4. QED
    BY <1>1, <1>2, <1>3, NameFacts DEF c

\* What an operation yields, given the ledger it leaves.
LEMMA RefreshedWork ==
    ASSUME NEW b \in Books, Counted(b), NEW out \in Nat,
           b.bal[Tick0][Pool] >= 1, b.bal[Tick1][Pool] >= 1,
           b.bal[LP][Pool] >= MINI_LIQUIDITY
    PROVE  LET d == [book |-> b, pool |-> Refresh(b), out |-> out]
           IN  d \in Works /\ Sound(d.book, d.pool) /\ d.pool # NoPool
  <1>1. \A t \in Pair : b.bal[t][Pool] >= 1
    BY DEF Pair
  <1>2. Sound(b, Refresh(b)) /\ Refresh(b) # NoPool
    BY <1>1, RefreshSound
  <1>3. Refresh(b) \in Rows \cup {NoPool}
    BY <1>2 DEF Sound
  <1>4. QED
    BY <1>2, <1>3 DEF Works

LEMMA CreateSound ==
    ASSUME NEW s \in Works, Sound(s.book, s.pool), NEW u \in Users, NEW o \in Inscriptions,
           o.op = "create", CanCreate(s, u, o)
    PROVE  LET d == SwapCreate(s, u, o)
           IN  d \in Works /\ Sound(d.book, d.pool) /\ d.pool # NoPool
  <1> DEFINE b == s.book
             first == FirstLiquidity(o)
             paid == MoveIn(MoveIn(b, Tick0, u, Pool, o.amt[Tick0]),
                            Tick1, u, Pool, o.amt[Tick1])
             minted == MintIn(paid, LP, u, first)
             c == MintIn(minted, LP, Pool, MINI_LIQUIDITY)
  <1>1. o.amt \in [Pair -> Nat] /\ u \in Accounts /\ u # Pool
    BY NameFacts DEF Inscriptions
  <1>2. b \in Books /\ Counted(b) /\ s.out \in Nat
    BY DEF Works, Sound
  <1>3. o.amt[Tick0] \in Nat /\ o.amt[Tick1] \in Nat
    BY <1>1 DEF Pair
  <1>4. CanMove(b.bal, Tick0, u, Pool, o.amt[Tick0])
        /\ CanMove(b.bal, Tick1, u, Pool, o.amt[Tick1])
    BY DEF CanCreate, Pair
  <1>5. first \in Nat
    <2>1. o.amt[Tick0] * o.amt[Tick1] \in Nat
      BY <1>3
    <2>2. Isqrt(o.amt[Tick0] * o.amt[Tick1]) \in Nat
      BY <2>1, IsqrtFacts
    <2>3. first > 0
      BY DEF CanCreate
    <2>4. QED
      BY <2>2, <2>3, SwapAssumption DEF FirstLiquidity
  <1>6. SwapCreate(s, u, o) = [book |-> c, pool |-> Refresh(c), out |-> s.out]
    <2>1. s = [book |-> s.book, pool |-> s.pool, out |-> s.out]
      BY DEF Works
    <2>2. SwapCreate(s, u, o) = [s EXCEPT !.book = c, !.pool = Refresh(c)]
      BY DEF SwapCreate
    <2> HIDE DEF c
    <2>3. QED
      BY ONLY <2>1, <2>2
  <1> HIDE DEF b, first
  <1>7. /\ paid \in Books /\ Counted(paid)
        /\ paid.bal[LP] = b.bal[LP]
        /\ paid.bal[Tick0][Pool] = b.bal[Tick0][Pool] + o.amt[Tick0]
        /\ paid.bal[Tick1][Pool] = b.bal[Tick1][Pool] + o.amt[Tick1]
    BY <1>1, <1>2, <1>3, <1>4, PaidToPool
  <1> HIDE DEF paid
  <1>8. minted \in Books /\ Counted(minted) /\ minted.bal[Tick0] = paid.bal[Tick0]
        /\ minted.bal[Tick1] = paid.bal[Tick1]
        /\ minted.bal[LP][Pool] = paid.bal[LP][Pool]
    BY <1>1, <1>5, <1>7, LiquidityMinted
  <1> HIDE DEF minted
  <1>9. /\ c \in Books /\ Counted(c)
        /\ c.bal[Tick0] = minted.bal[Tick0] /\ c.bal[Tick1] = minted.bal[Tick1]
        /\ c.bal[LP][Pool] = minted.bal[LP][Pool] + MINI_LIQUIDITY
    <2>1. MINI_LIQUIDITY \in Nat /\ Pool \in Accounts
      BY SwapAssumption, NameFacts
    <2>2. QED
      BY <1>8, <2>1, LiquidityMinted
  <1> HIDE DEF c
  <1>10. b.bal[Tick0][Pool] \in Nat /\ b.bal[Tick1][Pool] \in Nat /\ b.bal[LP][Pool] \in Nat
    BY <1>2, NameFacts DEF Books
  <1>11. o.amt[Tick0] >= 1 /\ o.amt[Tick1] >= 1
    BY <1>4 DEF CanMove
  <1>12. c.bal[Tick0][Pool] >= 1 /\ c.bal[Tick1][Pool] >= 1
         /\ c.bal[LP][Pool] >= MINI_LIQUIDITY
    <2>1. MINI_LIQUIDITY \in Nat
      BY SwapAssumption
    <2>2. c.bal[Tick0][Pool] = b.bal[Tick0][Pool] + o.amt[Tick0]
          /\ c.bal[Tick1][Pool] = b.bal[Tick1][Pool] + o.amt[Tick1]
          /\ c.bal[LP][Pool] = b.bal[LP][Pool] + MINI_LIQUIDITY
      BY ONLY <1>7, <1>8, <1>9
    <2>3. QED
      BY ONLY <1>3, <1>10, <1>11, <2>1, <2>2
  <1>13. QED
    BY <1>2, <1>6, <1>9, <1>12, RefreshedWork

\* What matches an amount, and what is taken.
LEMMA TakenFacts ==
    ASSUME NEW b, NEW p, Sound(b, p), p # NoPool, NEW o \in Inscriptions, o.op = "add"
    PROVE  Taken(p, o) \in [Pair -> Nat]
  <1>1. o.amt \in [Pair -> Nat] /\ Tick0 \in Pair /\ Tick1 \in Pair
    BY DEF Inscriptions, Pair
  <1>2. \A t \in Pair : p.amt[t] \in Nat \ {0}
    BY SoundFacts
  <1>3. ASSUME NEW t \in Pair, NEW k \in Pair PROVE Match(p, t, k, o.amt[t]) \in Nat
    <2>1. o.amt[t] \in Nat /\ p.amt[k] \in Nat /\ p.amt[t] \in Nat \ {0}
      BY <1>1, <1>2
    <2>2. o.amt[t] * p.amt[k] \in Nat
      BY <2>1
    <2>3. QED
      BY <2>1, <2>2, DivFacts DEF Match
  <1>4. QED
    BY <1>1, <1>3 DEF Taken

LEMMA LiquidityFacts ==
    ASSUME NEW b, NEW p, Sound(b, p), p # NoPool, NEW o \in Inscriptions, o.op = "add"
    PROVE  /\ Liquidity(p, o) \in Nat
           /\ \A t \in Pair : p.amt[t] * Liquidity(p, o) <= Taken(p, o)[t] * p.total
  <1>1. Taken(p, o) \in [Pair -> Nat]
    BY TakenFacts
  <1>2. (\A t \in Pair : p.amt[t] \in Nat \ {0}) /\ p.total \in Nat
    BY SoundFacts
  <1>3. ASSUME NEW t \in Pair
        PROVE  Share(p, o, t) \in Nat /\ p.amt[t] * Share(p, o, t) <= Taken(p, o)[t] * p.total
    <2>1. Taken(p, o)[t] * p.total \in Nat
      BY <1>1, <1>2
    <2>2. QED
      BY <1>2, <2>1, DivFacts DEF Share
  <1>4. Liquidity(p, o) \in Nat /\ \A t \in Pair : Liquidity(p, o) <= Share(p, o, t)
    BY <1>3 DEF Liquidity, Pair
  <1>5. ASSUME NEW t \in Pair
        PROVE  p.amt[t] * Liquidity(p, o) <= Taken(p, o)[t] * p.total
    <2>1. p.amt[t] * Liquidity(p, o) <= p.amt[t] * Share(p, o, t)
      BY <1>2, <1>3, <1>4
    <2>2. Taken(p, o)[t] * p.total \in Nat
      BY <1>1, <1>2
    <2>3. p.amt[t] * Liquidity(p, o) \in Nat /\ p.amt[t] * Share(p, o, t) \in Nat
      BY <1>2, <1>3, <1>4
    <2>4. QED
      BY <1>3, <2>1, <2>2, <2>3
  <1>6. QED
    BY <1>4, <1>5

LEMMA AddSound ==
    ASSUME NEW s \in Works, Sound(s.book, s.pool), NEW u \in Users, NEW o \in Inscriptions,
           o.op = "add", CanAdd(s, u, o)
    PROVE  LET d == SwapAdd(s, u, o)
           IN  d \in Works /\ Sound(d.book, d.pool) /\ d.pool # NoPool
               /\ WorthNoMore(s.pool, d.pool)
  <1> DEFINE b == s.book
             in == Taken(s.pool, o)
             l == Liquidity(s.pool, o)
             paid == MoveIn(MoveIn(b, Tick0, u, Pool, in[Tick0]), Tick1, u, Pool, in[Tick1])
             c == MintIn(paid, LP, u, l)
  <1>1. u \in Accounts /\ u # Pool /\ Pool \in Accounts
    BY NameFacts
  <1>2. b \in Books /\ Counted(b) /\ s.out \in Nat /\ s.pool # NoPool
    BY DEF Works, Sound, CanAdd
  <1>3. in[Tick0] \in Nat /\ in[Tick1] \in Nat /\ l \in Nat
    <2>1. in \in [Pair -> Nat]
      BY <1>2, TakenFacts
    <2>2. l \in Nat
      BY <1>2, LiquidityFacts
    <2> HIDE DEF in, l
    <2>3. QED
      BY <2>1, <2>2 DEF Pair
  <1>4. CanMove(b.bal, Tick0, u, Pool, in[Tick0])
        /\ CanMove(b.bal, Tick1, u, Pool, in[Tick1])
    BY DEF CanAdd, Pair
  <1>5. SwapAdd(s, u, o) = [book |-> c, pool |-> Refresh(c), out |-> s.out]
    <2>1. s = [book |-> s.book, pool |-> s.pool, out |-> s.out]
      BY DEF Works
    <2>2. SwapAdd(s, u, o) = [s EXCEPT !.book = c, !.pool = Refresh(c)]
      BY DEF SwapAdd
    <2> HIDE DEF c
    <2>3. QED
      BY ONLY <2>1, <2>2
  <1>6. b.bal[Tick0][Pool] >= 1 /\ b.bal[Tick1][Pool] >= 1
        /\ b.bal[LP][Pool] >= MINI_LIQUIDITY
        /\ b.bal[Tick0][Pool] \in Nat /\ b.bal[Tick1][Pool] \in Nat
    <2>1. \A t \in Pair : s.pool.amt[t] \in Nat \ {0} /\ b.bal[t][Pool] \in Nat
      BY <1>2, SoundFacts
    <2>2. \A t \in Pair : s.pool.amt[t] <= b.bal[t][Pool]
      BY <1>2 DEF Sound
    <2>3. b.bal[LP][Pool] >= MINI_LIQUIDITY
      BY <1>2 DEF Sound
    <2> HIDE DEF b
    <2>4. QED
      BY <2>1, <2>2, <2>3 DEF Pair
  <1> HIDE DEF b, in, l
  <1>7. /\ paid \in Books /\ Counted(paid)
        /\ paid.bal[LP] = b.bal[LP] /\ paid.sum = b.sum
        /\ paid.bal[Tick0][Pool] = b.bal[Tick0][Pool] + in[Tick0]
        /\ paid.bal[Tick1][Pool] = b.bal[Tick1][Pool] + in[Tick1]
    BY <1>1, <1>2, <1>3, <1>4, PaidToPool
  <1> HIDE DEF paid
  <1>8. /\ c \in Books /\ Counted(c)
        /\ c.bal[Tick0] = paid.bal[Tick0] /\ c.bal[Tick1] = paid.bal[Tick1]
        /\ c.bal[LP][Pool] = paid.bal[LP][Pool] /\ c.sum[LP] = paid.sum[LP] + l
    BY <1>1, <1>3, <1>7, LiquidityMinted
  <1> HIDE DEF c
  <1>9. c.bal[Tick0][Pool] >= 1 /\ c.bal[Tick1][Pool] >= 1
        /\ c.bal[LP][Pool] >= MINI_LIQUIDITY
    BY <1>3, <1>6, <1>7, <1>8
  <1>10. WorthNoMore(s.pool, Refresh(c))
    <2>1. /\ s.pool.amt[Tick0] \in Nat /\ s.pool.amt[Tick0] <= b.bal[Tick0][Pool]
          /\ s.pool.amt[Tick1] \in Nat /\ s.pool.amt[Tick1] <= b.bal[Tick1][Pool]
          /\ s.pool.total \in Nat /\ s.pool.total = b.sum[LP]
      BY <1>2, SoundFacts DEF Sound, Pair, b
    <2>2. /\ s.pool.amt[Tick0] * l <= in[Tick0] * s.pool.total
          /\ s.pool.amt[Tick1] * l <= in[Tick1] * s.pool.total
      BY <1>2, LiquidityFacts DEF Pair, l, in
    <2>3. /\ Refresh(c).amt[Tick0] = b.bal[Tick0][Pool] + in[Tick0]
          /\ Refresh(c).amt[Tick1] = b.bal[Tick1][Pool] + in[Tick1]
          /\ Refresh(c).total = s.pool.total + l
      BY <1>7, <1>8, <2>1 DEF Refresh, Pair
    <2>4. ASSUME NEW r \in Nat, NEW T \in Nat, NEW q \in Nat, NEW x \in Nat,
                 r <= q, r * l <= x * T
          PROVE  r * (T + l) <= (q + x) * T
      <3>1. r * T <= q * T
        BY <2>4
      <3>2. r * (T + l) = r * T + r * l /\ (q + x) * T = q * T + x * T
        BY <1>3
      <3>3. r * T \in Nat /\ r * l \in Nat /\ q * T \in Nat /\ x * T \in Nat
        BY <1>3
      <3>4. QED
        BY ONLY <2>4, <3>1, <3>2, <3>3
    <2>5. /\ s.pool.amt[Tick0] * (s.pool.total + l)
               <= (b.bal[Tick0][Pool] + in[Tick0]) * s.pool.total
          /\ s.pool.amt[Tick1] * (s.pool.total + l)
               <= (b.bal[Tick1][Pool] + in[Tick1]) * s.pool.total
      BY <1>3, <1>6, <2>1, <2>2, <2>4
    <2>6. /\ b.bal[Tick0][Pool] + in[Tick0] \in Nat /\ b.bal[Tick1][Pool] + in[Tick1] \in Nat
          /\ s.pool.total + l \in Nat
      BY <1>3, <1>6, <2>1
    <2>7. (s.pool.amt[Tick0] * s.pool.amt[Tick1]) * ((s.pool.total + l) * (s.pool.total + l))
             <= ((b.bal[Tick0][Pool] + in[Tick0]) * (b.bal[Tick1][Pool] + in[Tick1]))
                  * (s.pool.total * s.pool.total)
      BY <2>1, <2>5, <2>6, ValueKept
    <2>8. QED
      BY <2>3, <2>7 DEF WorthNoMore
  <1>11. QED
    BY <1>2, <1>5, <1>8, <1>9, <1>10, RefreshedWork

\* What a part of the liquidity is worth leaves something in the pool.
LEMMA WorthFacts ==
    ASSUME NEW b, NEW p, Sound(b, p), p # NoPool,
           NEW l \in Nat, l < p.total, NEW t \in Pair
    PROVE  /\ Worth(p, t, l) \in Nat /\ Worth(p, t, l) < p.amt[t]
           /\ p.total * Worth(p, t, l) <= l * p.amt[t]
  <1>1. p.amt[t] \in Nat \ {0} /\ p.total \in Nat \ {0}
    BY SoundFacts
  <1>2. QED
    BY <1>1, PartOf DEF Worth

LEMMA RemoveSound ==
    ASSUME NEW s \in Works, Sound(s.book, s.pool), NEW u \in Users, NEW o \in Inscriptions,
           o.op = "remove", CanRemove(s, u, o)
    PROVE  LET d == SwapRemove(s, u, o)
           IN  d \in Works /\ Sound(d.book, d.pool) /\ d.pool # NoPool
               /\ WorthNoMore(s.pool, d.pool)
  <1> DEFINE b == s.book
             l == o.liquidity
             x == Worth(s.pool, Tick0, l)
             y == Worth(s.pool, Tick1, l)
             paid == MoveIn(MoveIn(b, Tick0, Pool, u, x), Tick1, Pool, u, y)
             c == BurnIn(paid, LP, u, l)
             out == s.out + IF o.doge THEN Worth(s.pool, WDOGE, l) ELSE 0
  <1>1. u \in Accounts /\ u # Pool /\ Pool \in Accounts
    BY NameFacts
  <1>2. b \in Books /\ Counted(b) /\ s.out \in Nat /\ s.pool # NoPool
    BY DEF Works, Sound, CanRemove
  <1>3. l \in Nat /\ l <= b.bal[LP][u] /\ l <= b.sum[LP]
    BY DEF Inscriptions, CanRemove, CanBurnIn, CanBurn
  <1>4. s.pool.total \in Nat /\ l < s.pool.total
    <2>1. b.bal[LP][u] \in Nat /\ b.bal[LP][u] < s.pool.total /\ s.pool.total \in Nat
      BY <1>2, SoundFacts
    <2> HIDE DEF b, l
    <2>2. QED
      BY <1>3, <2>1
  <1>5. \A t \in Pair : /\ Worth(s.pool, t, l) \in Nat
                        /\ Worth(s.pool, t, l) < s.pool.amt[t]
                        /\ s.pool.total * Worth(s.pool, t, l) <= l * s.pool.amt[t]
    BY <1>2, <1>3, <1>4, WorthFacts
  <1>6. /\ s.pool.amt[Tick0] \in Nat /\ s.pool.amt[Tick0] <= b.bal[Tick0][Pool]
        /\ s.pool.amt[Tick1] \in Nat /\ s.pool.amt[Tick1] <= b.bal[Tick1][Pool]
        /\ b.bal[Tick0][Pool] \in Nat /\ b.bal[Tick1][Pool] \in Nat
        /\ s.pool.total = b.sum[LP] /\ b.bal[LP][Pool] >= MINI_LIQUIDITY
    BY <1>2, SoundFacts DEF Sound, Pair
  <1>7. /\ x \in Nat /\ x < s.pool.amt[Tick0] /\ s.pool.total * x <= l * s.pool.amt[Tick0]
        /\ y \in Nat /\ y < s.pool.amt[Tick1] /\ s.pool.total * y <= l * s.pool.amt[Tick1]
    BY <1>5, NameFacts DEF Pair
  <1>8. CanMove(b.bal, Tick0, Pool, u, x) /\ CanMove(b.bal, Tick1, Pool, u, y)
    BY DEF CanRemove, Pair
  <1>9. out \in Nat
    BY <1>2, <1>5, NameFacts
  <1>10. SwapRemove(s, u, o) = [book |-> c, pool |-> Refresh(c), out |-> out]
    BY DEF SwapRemove
  <1>11. CanBurnIn(b, LP, u, l)
    BY DEF CanRemove
  <1> HIDE DEF b, l, x, y, out
  <1>12. /\ paid \in Books /\ Counted(paid)
         /\ paid.bal[LP] = b.bal[LP] /\ paid.sum = b.sum
         /\ paid.bal[Tick0][Pool] = b.bal[Tick0][Pool] - x
         /\ paid.bal[Tick1][Pool] = b.bal[Tick1][Pool] - y
    BY <1>2, <1>7, <1>8, PaidFromPool
  <1> HIDE DEF paid
  <1>13. CanBurnIn(paid, LP, u, l)
    BY <1>11, <1>12 DEF CanBurnIn, CanBurn
  <1>14. /\ c \in Books /\ Counted(c)
         /\ c.bal[Tick0] = paid.bal[Tick0] /\ c.bal[Tick1] = paid.bal[Tick1]
         /\ c.bal[LP][Pool] = paid.bal[LP][Pool] /\ c.sum[LP] = paid.sum[LP] - l
    BY <1>1, <1>3, <1>12, <1>13, LiquidityBurned
  <1> HIDE DEF c
  <1>15. c.bal[Tick0][Pool] >= 1 /\ c.bal[Tick1][Pool] >= 1
         /\ c.bal[LP][Pool] >= MINI_LIQUIDITY
    BY <1>6, <1>7, <1>12, <1>14
  <1>16. WorthNoMore(s.pool, Refresh(c))
    <2>1. /\ Refresh(c).amt[Tick0] = b.bal[Tick0][Pool] - x
          /\ Refresh(c).amt[Tick1] = b.bal[Tick1][Pool] - y
          /\ Refresh(c).total = s.pool.total - l
      BY <1>6, <1>12, <1>14 DEF Refresh, Pair
    <2>2. ASSUME NEW r \in Nat, NEW T \in Nat, NEW q \in Nat, NEW k \in Nat,
                 r <= q, k <= r, T * k <= l * r, l <= T
          PROVE  r * (T - l) <= (q - k) * T
      <3>1. r * T <= q * T
        BY <2>2
      <3>2. r * (T - l) = r * T - l * r /\ (q - k) * T = q * T - T * k
        BY <1>3
      <3>3. r * T \in Nat /\ l * r \in Nat /\ q * T \in Nat /\ T * k \in Nat
        BY <1>3
      <3>4. QED
        BY ONLY <2>2, <3>1, <3>2, <3>3
    <2>3. /\ s.pool.amt[Tick0] * (s.pool.total - l)
               <= (b.bal[Tick0][Pool] - x) * s.pool.total
          /\ s.pool.amt[Tick1] * (s.pool.total - l)
               <= (b.bal[Tick1][Pool] - y) * s.pool.total
      <3>1. l <= s.pool.total /\ x <= s.pool.amt[Tick0] /\ y <= s.pool.amt[Tick1]
        BY <1>3, <1>4, <1>6, <1>7
      <3>2. s.pool.amt[Tick0] * (s.pool.total - l)
               <= (b.bal[Tick0][Pool] - x) * s.pool.total
        BY <1>4, <1>6, <1>7, <2>2, <3>1
      <3>3. s.pool.amt[Tick1] * (s.pool.total - l)
               <= (b.bal[Tick1][Pool] - y) * s.pool.total
        BY <1>4, <1>6, <1>7, <2>2, <3>1
      <3>4. QED
        BY <3>2, <3>3
    <2>4. /\ b.bal[Tick0][Pool] - x \in Nat /\ b.bal[Tick1][Pool] - y \in Nat
          /\ s.pool.total - l \in Nat
      BY <1>3, <1>4, <1>6, <1>7
    <2>5. (s.pool.amt[Tick0] * s.pool.amt[Tick1]) * ((s.pool.total - l) * (s.pool.total - l))
             <= ((b.bal[Tick0][Pool] - x) * (b.bal[Tick1][Pool] - y))
                  * (s.pool.total * s.pool.total)
      BY <1>4, <1>6, <2>3, <2>4, ValueKept
    <2>6. QED
      BY ONLY <2>1, <2>5 DEF WorthNoMore
  <1>17. QED
    BY <1>9, <1>10, <1>14, <1>15, <1>16, RefreshedWork

\* What comes out of a swap leaves something in the pool.
LEMMA OutFacts ==
    ASSUME NEW b, NEW p, Sound(b, p), p # NoPool,
           NEW o \in Inscriptions, o.op = "swap"
    PROVE  \E in \in Nat :
             /\ in <= o.amt
             /\ Out(p, o) \in Nat /\ Out(p, o) < p.amt[Other(o.tick)]
             /\ (p.amt[o.tick] + in) * Out(p, o) <= in * p.amt[Other(o.tick)]
  <1> DEFINE fee == FeeParts * (o.amt \div FeeUnit)
             in == o.amt - fee
             ri == p.amt[o.tick]
             ro == p.amt[Other(o.tick)]
  <1>1. o.tick \in Pair /\ o.amt \in Nat /\ Other(o.tick) \in Pair
    BY DEF Inscriptions, Other, Pair
  <1>2. ri \in Nat \ {0} /\ ro \in Nat \ {0}
    BY <1>1, SoundFacts
  <1>3. in \in Nat /\ in <= o.amt
    <2>1. FeeUnit \in Nat \ {0} /\ FeeParts \in Nat /\ FeeParts < FeeUnit
      BY SwapAssumption
    <2>2. o.amt \div FeeUnit \in Nat /\ FeeUnit * (o.amt \div FeeUnit) <= o.amt
      BY <1>1, <2>1, DivFacts
    <2>3. fee \in Nat /\ fee <= FeeUnit * (o.amt \div FeeUnit)
      BY <2>1, <2>2
    <2> HIDE DEF fee
    <2>4. FeeUnit * (o.amt \div FeeUnit) \in Nat
      BY <2>1, <2>2
    <2>5. QED
      BY <1>1, <2>2, <2>3, <2>4
  <1>4. Out(p, o) = (in * ro) \div (ri + in)
    BY DEF Out
  <1> HIDE DEF in, ri, ro
  <1>5. ri + in \in Nat \ {0} /\ in < ri + in
    BY <1>2, <1>3
  <1>6. QED
    BY <1>2, <1>3, <1>4, <1>5, PartOf DEF ri, ro

\* A tick is paid to the pool, and the other one from it.
LEMMA TickTraded ==
    ASSUME NEW b \in Books, Counted(b), NEW u \in Users,
           NEW t \in Pair, NEW k \in Pair, t # k, NEW x \in Nat, NEW y \in Nat,
           CanMove(b.bal, t, u, Pool, x), CanMove(b.bal, k, Pool, u, y)
    PROVE  LET c == MoveIn(MoveIn(b, t, u, Pool, x), k, Pool, u, y)
           IN  /\ c \in Books /\ Counted(c)
               /\ c.sum = b.sum /\ c.bal[LP] = b.bal[LP]
               /\ c.bal[t][Pool] = b.bal[t][Pool] + x
               /\ c.bal[k][Pool] = b.bal[k][Pool] - y
  <1> DEFINE d == MoveIn(b, t, u, Pool, x)
             c == MoveIn(d, k, Pool, u, y)
  <1>1. /\ u \in Accounts /\ u # Pool /\ Pool \in Accounts /\ x \in Int /\ y \in Int
        /\ t \in Ticks /\ k \in Ticks /\ LP \in Ticks /\ t # LP /\ k # LP
    BY NameFacts
  <1>2. /\ d \in Books /\ d.sum = b.sum
        /\ \A j \in Ticks, a \in Accounts :
             d.bal[j][a] = IF j = t /\ a = u THEN b.bal[j][a] - x
                           ELSE IF j = t /\ a = Pool THEN b.bal[j][a] + x
                           ELSE b.bal[j][a]
        /\ \A j \in Ticks \ {t} : d.bal[j] = b.bal[j]
    BY <1>1, MoveInFacts
  <1>3. Counted(d)
    BY <1>1, CountedMove
  <1> HIDE DEF d
  <1>4. CanMove(d.bal, k, Pool, u, y)
    BY <1>1, <1>2 DEF CanMove
  <1>5. /\ c \in Books /\ c.sum = d.sum
        /\ \A j \in Ticks, a \in Accounts :
             c.bal[j][a] = IF j = k /\ a = Pool THEN d.bal[j][a] - y
                           ELSE IF j = k /\ a = u THEN d.bal[j][a] + y
                           ELSE d.bal[j][a]
        /\ \A j \in Ticks \ {k} : c.bal[j] = d.bal[j]
    BY <1>1, <1>2, <1>4, MoveInFacts
  <1>6. Counted(c)
    BY <1>1, <1>2, <1>3, <1>4, CountedMove
  <1> HIDE DEF c
  <1>7. c.bal[LP] = b.bal[LP] /\ c.sum = b.sum
    BY <1>1, <1>2, <1>5
  <1>8. c.bal[t][Pool] = b.bal[t][Pool] + x /\ c.bal[k][Pool] = b.bal[k][Pool] - y
    BY <1>1, <1>2, <1>5
  <1>9. QED
    BY <1>5, <1>6, <1>7, <1>8 DEF c, d

LEMMA ExecSound ==
    ASSUME NEW s \in Works, Sound(s.book, s.pool), NEW u \in Users, NEW o \in Inscriptions,
           o.op = "swap", CanExec(s, u, o)
    PROVE  LET d == SwapExec(s, u, o)
           IN  d \in Works /\ Sound(d.book, d.pool) /\ d.pool # NoPool
               /\ WorthNoMore(s.pool, d.pool)
  <1> DEFINE b == s.book
             t == o.tick
             k == Other(o.tick)
             x == o.amt
             y == Out(s.pool, o)
             c == MoveIn(MoveIn(b, t, u, Pool, x), k, Pool, u, y)
             out == s.out + IF o.doge /\ o.tick # WDOGE THEN y ELSE 0
  <1>1. u \in Accounts /\ u # Pool /\ Pool \in Accounts
    BY NameFacts
  <1>2. b \in Books /\ Counted(b) /\ s.out \in Nat /\ s.pool # NoPool
    BY DEF Works, Sound, CanExec
  <1>3. /\ t \in Pair /\ k \in Pair /\ t # k /\ x \in Nat
        /\ (t = Tick0 /\ k = Tick1) \/ (t = Tick1 /\ k = Tick0)
    BY SwapAssumption DEF Inscriptions, Other, Pair
  <1>4. PICK in \in Nat : /\ in <= x
                         /\ y \in Nat /\ y < s.pool.amt[k]
                         /\ (s.pool.amt[t] + in) * y <= in * s.pool.amt[k]
    BY <1>2, OutFacts
  <1>5. CanMove(b.bal, t, u, Pool, x) /\ CanMove(b.bal, k, Pool, u, y)
    BY DEF CanExec
  <1>6. /\ \A j \in Pair : /\ s.pool.amt[j] \in Nat /\ b.bal[j][Pool] \in Nat
                           /\ s.pool.amt[j] <= b.bal[j][Pool]
        /\ s.pool.total \in Nat /\ s.pool.total = b.sum[LP]
        /\ b.bal[LP][Pool] >= MINI_LIQUIDITY
    BY <1>2, SoundFacts DEF Sound
  <1>7. out \in Nat
    BY <1>2, <1>4
  <1>8. SwapExec(s, u, o) = [book |-> c, pool |-> Refresh(c), out |-> out]
    BY DEF SwapExec
  <1> HIDE DEF b, t, k, x, y, out
  <1>9. /\ c \in Books /\ Counted(c)
        /\ c.sum = b.sum /\ c.bal[LP] = b.bal[LP]
        /\ c.bal[t][Pool] = b.bal[t][Pool] + x
        /\ c.bal[k][Pool] = b.bal[k][Pool] - y
    BY <1>2, <1>3, <1>4, <1>5, TickTraded
  <1> HIDE DEF c
  <1>10. c.bal[t][Pool] >= s.pool.amt[t] + in /\ c.bal[k][Pool] >= s.pool.amt[k] - y
         /\ c.bal[t][Pool] \in Nat /\ c.bal[k][Pool] \in Nat /\ c.bal[k][Pool] >= 1
    BY <1>3, <1>4, <1>6, <1>9
  <1>11. x >= 1
    BY <1>5 DEF CanMove
  <1>12. c.bal[t][Pool] >= 1 /\ c.bal[LP][Pool] >= MINI_LIQUIDITY
    BY <1>3, <1>6, <1>9, <1>11
  <1>13. c.bal[Tick0][Pool] >= 1 /\ c.bal[Tick1][Pool] >= 1
    BY <1>3, <1>10, <1>12
  <1>14. WorthNoMore(s.pool, Refresh(c))
    <2>1. Refresh(c).amt[t] = c.bal[t][Pool] /\ Refresh(c).amt[k] = c.bal[k][Pool]
          /\ Refresh(c).total = s.pool.total
      BY <1>3, <1>6, <1>9 DEF Refresh
    <2>2. s.pool.amt[t] \in Nat /\ s.pool.amt[k] \in Nat /\ y <= s.pool.amt[k]
      BY <1>3, <1>4, <1>6
    <2>3. s.pool.amt[t] * s.pool.amt[k] <= c.bal[t][Pool] * c.bal[k][Pool]
      BY <1>4, <1>10, <2>2, TradeKeepsProduct
    <2>4. s.pool.amt[t] * s.pool.amt[k] = s.pool.amt[Tick0] * s.pool.amt[Tick1]
          /\ c.bal[t][Pool] * c.bal[k][Pool] = Refresh(c).amt[Tick0] * Refresh(c).amt[Tick1]
      BY <1>3, <1>10, <2>1, <2>2
    <2>5. ASSUME NEW m \in Nat, NEW n \in Nat, NEW T \in Nat, m <= n
          PROVE  m * (T * T) <= n * (T * T)
      BY <2>5
    <2>6. s.pool.amt[t] * s.pool.amt[k] \in Nat /\ c.bal[t][Pool] * c.bal[k][Pool] \in Nat
      BY <1>10, <2>2
    <2>7. (s.pool.amt[t] * s.pool.amt[k]) * (s.pool.total * s.pool.total)
             <= (c.bal[t][Pool] * c.bal[k][Pool]) * (s.pool.total * s.pool.total)
      BY <1>6, <2>3, <2>5, <2>6
    <2>8. QED
      BY ONLY <2>1, <2>4, <2>7 DEF WorthNoMore
  <1>15. QED
    BY <1>7, <1>8, <1>9, <1>12, <1>13, <1>14, RefreshedWork

\* Whatever the inscription is.
LEMMA DoSound ==
    ASSUME NEW s \in Works, Sound(s.book, s.pool), NEW u \in Users, NEW o \in Inscriptions,
           Can(s, u, o)
    PROVE  /\ Do(s, u, o) \in Works
           /\ Sound(Do(s, u, o).book, Do(s, u, o).pool)
           /\ Do(s, u, o).pool # NoPool
           /\ s.pool # NoPool => WorthNoMore(s.pool, Do(s, u, o).pool)
  <1>1. CASE o.op = "create" /\ CanCreate(s, u, o)
    <2>1. s.pool = NoPool
      BY <1>1 DEF CanCreate
    <2>2. Do(s, u, o) = SwapCreate(s, u, o)
      BY <1>1 DEF Do
    <2>3. QED
      BY <1>1, <2>1, <2>2, CreateSound
  <1>2. CASE o.op = "add" /\ CanAdd(s, u, o)
    <2>1. Do(s, u, o) = SwapAdd(s, u, o)
      BY <1>2 DEF Do
    <2>2. QED
      BY <1>2, <2>1, AddSound
  <1>3. CASE o.op = "remove" /\ CanRemove(s, u, o)
    <2>1. Do(s, u, o) = SwapRemove(s, u, o)
      BY <1>3 DEF Do
    <2>2. QED
      BY <1>3, <2>1, RemoveSound
  <1>4. CASE o.op = "swap" /\ CanExec(s, u, o)
    <2>1. Do(s, u, o) = SwapExec(s, u, o)
      BY <1>4 DEF Do
    <2>2. QED
      BY <1>4, <2>1, ExecSound
  <1>5. QED
    BY <1>1, <1>2, <1>3, <1>4 DEF Can

-----------------------------------------------------------------------------
(* What is not the pool's own operation takes nothing from it *)

LEMMA SoundKept ==
    ASSUME NEW b \in Books, NEW p, Sound(b, p), NEW c \in Books, Counted(c),
           \A t \in Ticks : c.bal[t][Pool] >= b.bal[t][Pool],
           c.sum[LP] = b.sum[LP]
    PROVE  Sound(c, p)
  <1>1. \A t \in Ticks : b.bal[t][Pool] \in Nat /\ c.bal[t][Pool] \in Nat
    BY NameFacts DEF Books
  <1>2. CASE p = NoPool
    BY <1>2 DEF Sound
  <1>3. CASE p # NoPool
    <2>1. \A t \in Pair : p.amt[t] \in Nat
      BY <1>3, SoundFacts
    <2>2. \A t \in Pair : p.amt[t] >= 1 /\ p.amt[t] <= b.bal[t][Pool]
      BY <1>3 DEF Sound
    <2>3. \A t \in Pair : p.amt[t] >= 1 /\ p.amt[t] <= c.bal[t][Pool]
      BY <1>1, <2>1, <2>2, NameFacts
    <2>4. c.bal[LP][Pool] >= MINI_LIQUIDITY
      <3>1. b.bal[LP][Pool] >= MINI_LIQUIDITY /\ MINI_LIQUIDITY \in Nat
        BY <1>3, SwapAssumption DEF Sound
      <3>2. QED
        BY <1>1, <3>1, NameFacts
    <2>5. QED
      BY <1>3, <2>3, <2>4 DEF Sound
  <1>4. QED
    BY <1>2, <1>3

LEMMA MintKeepsSound ==
    ASSUME NEW b \in Books, NEW p, Sound(b, p), NEW u \in Users, NEW amt \in Nat
    PROVE  Sound(MintIn(b, WDOGE, u, amt), p)
  <1> DEFINE c == MintIn(b, WDOGE, u, amt)
  <1>1. u \in Accounts /\ u # Pool
    BY NameFacts
  <1>2. Counted(c)
    BY <1>1, CountedMint, NameFacts DEF Sound
  <1>3. /\ c \in Books /\ c.sum = [b.sum EXCEPT ![WDOGE] = @ + amt]
        /\ \A k \in Ticks, a \in Accounts :
             c.bal[k][a] = IF k = WDOGE /\ a = u THEN b.bal[k][a] + amt ELSE b.bal[k][a]
    BY <1>1, MintInFacts, NameFacts
  <1> HIDE DEF c
  <1>4. c.sum[LP] = b.sum[LP]
    <2>1. b.sum \in [Ticks -> Nat] /\ WDOGE \in Ticks /\ LP \in Ticks /\ WDOGE # LP
      BY NameFacts DEF Books
    <2>2. QED
      BY <1>3, <2>1
  <1>5. \A t \in Ticks : c.bal[t][Pool] >= b.bal[t][Pool]
    <2>1. \A t \in Ticks : c.bal[t][Pool] = b.bal[t][Pool]
      BY <1>1, <1>3, NameFacts
    <2>2. \A t \in Ticks : b.bal[t][Pool] \in Nat
      BY NameFacts DEF Books
    <2>3. QED
      BY <2>1, <2>2
  <1>6. QED
    BY <1>2, <1>3, <1>4, <1>5, SoundKept DEF c

LEMMA BurnKeepsSound ==
    ASSUME NEW b \in Books, NEW p, Sound(b, p), NEW u \in Users, NEW amt \in Nat,
           CanBurnIn(b, WDOGE, u, amt)
    PROVE  Sound(BurnIn(b, WDOGE, u, amt), p)
  <1> DEFINE c == BurnIn(b, WDOGE, u, amt)
  <1>1. u \in Accounts /\ u # Pool
    BY NameFacts
  <1>2. Counted(c)
    BY <1>1, CountedBurn, NameFacts DEF Sound
  <1>3. /\ c \in Books /\ c.sum = [b.sum EXCEPT ![WDOGE] = @ - amt]
        /\ \A k \in Ticks, a \in Accounts :
             c.bal[k][a] = IF k = WDOGE /\ a = u THEN b.bal[k][a] - amt ELSE b.bal[k][a]
    BY <1>1, BurnInFacts, NameFacts
  <1> HIDE DEF c
  <1>4. c.sum[LP] = b.sum[LP]
    <2>1. b.sum \in [Ticks -> Nat] /\ WDOGE \in Ticks /\ LP \in Ticks /\ WDOGE # LP
      BY NameFacts DEF Books
    <2>2. QED
      BY <1>3, <2>1
  <1>5. \A t \in Ticks : c.bal[t][Pool] >= b.bal[t][Pool]
    <2>1. \A t \in Ticks : c.bal[t][Pool] = b.bal[t][Pool]
      BY <1>1, <1>3, NameFacts
    <2>2. \A t \in Ticks : b.bal[t][Pool] \in Nat
      BY NameFacts DEF Books
    <2>3. QED
      BY <2>1, <2>2
  <1>6. QED
    BY <1>2, <1>3, <1>4, <1>5, SoundKept DEF c

LEMMA MoveKeepsSound ==
    ASSUME NEW b \in Books, NEW p, Sound(b, p), NEW t \in Ticks, NEW u \in Users,
           NEW a \in Accounts, NEW amt \in Nat, CanMove(b.bal, t, u, a, amt)
    PROVE  Sound(MoveIn(b, t, u, a, amt), p)
  <1> DEFINE c == MoveIn(b, t, u, a, amt)
  <1>1. u \in Accounts /\ u # Pool /\ amt \in Int
    BY NameFacts
  <1>2. Counted(c)
    BY <1>1, CountedMove DEF Sound
  <1>3. /\ c \in Books /\ c.sum = b.sum
        /\ \A k \in Ticks, d \in Accounts :
             c.bal[k][d] = IF k = t /\ d = u THEN b.bal[k][d] - amt
                           ELSE IF k = t /\ d = a THEN b.bal[k][d] + amt
                           ELSE b.bal[k][d]
    BY <1>1, MoveInFacts
  <1> HIDE DEF c
  <1>4. \A k \in Ticks : b.bal[k][Pool] \in Nat
    BY NameFacts DEF Books
  <1>5. \A k \in Ticks : c.bal[k][Pool] >= b.bal[k][Pool]
    BY <1>1, <1>3, <1>4, NameFacts
  <1>6. QED
    BY <1>2, <1>3, <1>5, SoundKept DEF c

-----------------------------------------------------------------------------
(* The invariant *)

SoundWork ==
    phase = "swap" =>
        /\ Sound(work.book, work.pool)
        /\ pool # NoPool => work.pool # NoPool /\ WorthNoMore(pool, work.pool)

SoundPast == \A h \in DOMAIN ended : Sound(ended[h], poolAt[h])

\* A pool is created once; it was there at the end of a block if it was created
\* up to it.
CreatedOnce ==
    /\ pool = NoPool <=> creates = {}
    /\ \A c, d \in creates : c = d
    /\ \A h \in DOMAIN ended : poolAt[h] # NoPool <=> \E c \in creates : c <= h

\* A transaction begins with its first inscription.
Resting == phase = "idle" => i = 1

IInv ==
    /\ TypeOK
    /\ Sound(book, pool)
    /\ SoundWork
    /\ SoundPast
    /\ CreatedOnce
    /\ Resting

LEMMA FundsSound == Sound(Funds, NoPool)
  <1>1. Funds \in Books /\ Funds.sum[LP] = 0 /\ \A a \in Accounts : Funds.bal[LP][a] = 0
    BY SwapAssumption
  <1> DEFINE s == [S \in SUBSET Accounts |-> 0]
  <1>2. IsMeasure(s, Funds.bal[LP])
    BY <1>1 DEF IsMeasure
  <1>3. s[Accounts] = 0
    OBVIOUS
  <1>4. Counted(Funds)
    BY <1>1, <1>2, <1>3 DEF Counted
  <1>5. QED
    BY <1>1, <1>4 DEF Sound

LEMMA InitInvariant == Init => IInv
  <1> SUFFICES ASSUME Init PROVE IInv
    OBVIOUS
  <1>1. book = Funds /\ pool = NoPool /\ height = 0 /\ ended = [h \in {} |-> Funds]
        /\ poolAt = [h \in {} |-> NoPool] /\ creates = {} /\ tx = <<>> /\ i = 1
        /\ phase = "idle" /\ due = 0 /\ had = 0 /\ sender \in Users
        /\ work = [book |-> Funds, pool |-> NoPool, out |-> 0]
    BY DEF Init, Ledger!AbsInit
  <1>2. Funds \in Books /\ work \in Works
    BY <1>1, SwapAssumption DEF Works
  <1>3. DOMAIN ended = {} /\ DOMAIN poolAt = {} /\ 0..(height - 1) = {}
    BY <1>1
  <1>4. TypeOK
    BY <1>1, <1>2, <1>3 DEF TypeOK
  <1>5. QED
    BY <1>1, <1>3, <1>4, FundsSound DEF IInv, SoundWork, SoundPast, CreatedOnce, Resting

\* A unit of liquidity is worth as much as itself.
LEMMA WorthItself ==
    ASSUME NEW p \in Rows
    PROVE  WorthNoMore(p, p)
  <1>1. p.amt[Tick0] \in Nat /\ p.amt[Tick1] \in Nat /\ p.total \in Nat
    BY DEF Rows, Pair
  <1>2. (p.amt[Tick0] * p.amt[Tick1]) * (p.total * p.total) \in Nat
    BY <1>1
  <1>3. QED
    BY <1>2 DEF WorthNoMore

\* More than more.
LEMMA WorthTransitive ==
    ASSUME NEW p \in Rows, NEW q \in Rows, NEW r \in Rows, q.total # 0,
           WorthNoMore(p, q), WorthNoMore(q, r)
    PROVE  WorthNoMore(p, r)
  <1> DEFINE a == p.amt[Tick0] * p.amt[Tick1]
             b == q.amt[Tick0] * q.amt[Tick1]
             c == r.amt[Tick0] * r.amt[Tick1]
             R == p.total * p.total
             S == q.total * q.total
             T == r.total * r.total
  <1>1. a \in Nat /\ b \in Nat /\ c \in Nat /\ R \in Nat /\ T \in Nat
    BY DEF Rows, Pair
  <1>2. S \in Nat \ {0}
    BY DEF Rows
  <1>3. a * S <= b * R /\ b * T <= c * S
    BY DEF WorthNoMore
  <1> HIDE DEF a, b, c, R, S, T
  <1>4. a * T <= c * R
    BY <1>1, <1>2, <1>3, ValueTransitive
  <1>5. QED
    BY <1>4 DEF WorthNoMore, a, c, R, T

\* What a step of the router that touches neither ledger, row nor past keeps.
LEMMA QuietInvariant ==
    ASSUME IInv, UNCHANGED <<book, pool, creates, chain>>,
           TypeOK', SoundWork', Resting'
    PROVE  IInv'
  <1>1. Sound(book, pool)'
    BY DEF IInv
  <1>2. SoundPast'
    BY DEF IInv, SoundPast, chain
  <1>3. CreatedOnce'
    BY DEF IInv, CreatedOnce, chain
  <1>4. QED
    BY <1>1, <1>2, <1>3 DEF IInv

\* executePairV1 is over: its database transaction is of no interest any more.
LEMMA ReturnFacts ==
    ASSUME TypeOK, Return
    PROVE  /\ SoundWork' /\ Resting' /\ phase' = "idle" /\ sender' \in Users
           /\ tx' \in Seq(Inscriptions) /\ i' \in 1..(Len(tx') + 1)
           /\ due' \in Nat /\ had' \in Nat /\ work' \in Works
  <1>1. Funds \in Books
    BY SwapAssumption
  <1>2. QED
    BY <1>1 DEF TypeOK, Return, SoundWork, Works, Resting

LEMMA RouteInvariant ==
    ASSUME IInv, NEW u \in Users, NEW t \in Txs, Route(u, t)
    PROVE  IInv'
  <1>1. t \in Seq(Inscriptions)
    BY SwapAssumption
  <1>2. book.bal[WDOGE][u] \in Nat
    BY NameFacts DEF IInv, TypeOK, Books
  <1>3. tx' = t /\ i' = i /\ i = 1
    BY DEF Route, IInv, Idle, Resting
  <1>4. i' \in 1..(Len(tx') + 1)
    BY <1>1, <1>3, LenProperties
  <1>5. TypeOK'
    BY <1>1, <1>2, <1>3, <1>4 DEF IInv, TypeOK, Route, chain
  <1>6. SoundWork' /\ Resting'
    BY DEF Route, SoundWork, Resting
  <1>7. QED
    BY <1>5, <1>6, QuietInvariant DEF Route

LEMMA CountDepositInvariant ==
    ASSUME IInv, CountDeposit
    PROVE  IInv'
  <1>1. tx \in Seq(Inscriptions) /\ i \in 1..(Len(tx) + 1) /\ i <= Len(tx)
    BY DEF IInv, TypeOK, CountDeposit
  <1>2. tx[i] \in Inscriptions
    BY <1>1, ElementOfSeq, LenProperties
  <1>3. DepositOf(tx[i]) \in Nat
    BY <1>2, NameFacts DEF DepositOf, Inscriptions
  <1>4. i' \in 1..(Len(tx') + 1)
    BY <1>1, LenProperties DEF CountDeposit
  <1>5. TypeOK'
    BY <1>3, <1>4 DEF IInv, TypeOK, CountDeposit, chain
  <1>6. SoundWork' /\ Resting'
    BY DEF CountDeposit, SoundWork, Resting
  <1>7. QED
    BY <1>5, <1>6, QuietInvariant DEF CountDeposit

LEMMA CommitDepositInvariant ==
    ASSUME IInv, CommitDeposit
    PROVE  IInv'
  <1>1. book \in Books /\ Sound(book, pool) /\ sender \in Users /\ due \in Nat
    BY DEF IInv, TypeOK
  <1>2. Sound(book', pool)
    BY <1>1, MintKeepsSound DEF CommitDeposit
  <1>3. book' \in Books /\ pool \in Rows \cup {NoPool}
    BY <1>2 DEF Sound
  <1>4. work' = [book |-> book', pool |-> pool, out |-> 0] /\ work' \in Works
    BY <1>3 DEF CommitDeposit, Works
  <1>5. i' \in 1..(Len(tx') + 1)
    BY LenProperties DEF CommitDeposit, IInv, TypeOK
  <1>6. TypeOK'
    BY <1>3, <1>4, <1>5 DEF IInv, TypeOK, CommitDeposit, chain
  <1>7. SoundWork'
    <2>1. pool' = pool /\ (pool # NoPool => pool \in Rows)
      BY <1>3 DEF CommitDeposit
    <2>2. QED
      BY <1>2, <1>4, <2>1, WorthItself DEF SoundWork
  <1>8. SoundPast' /\ CreatedOnce' /\ Resting' /\ Sound(book', pool')
    BY <1>2 DEF CommitDeposit, IInv, SoundPast, CreatedOnce, Resting, chain
  <1>9. QED
    BY <1>6, <1>7, <1>8 DEF IInv

LEMMA InscribeInvariant ==
    ASSUME IInv, Inscribe
    PROVE  IInv'
  <1>1. tx \in Seq(Inscriptions) /\ i \in 1..(Len(tx) + 1) /\ i <= Len(tx)
    BY DEF IInv, TypeOK, Inscribe
  <1>2. tx[i] \in Inscriptions
    BY <1>1, ElementOfSeq, LenProperties
  <1>3. work \in Works /\ sender \in Users /\ pool \in Rows \cup {NoPool}
    BY DEF IInv, TypeOK
  <1>4. /\ Sound(work.book, work.pool)
        /\ pool # NoPool => work.pool # NoPool /\ WorthNoMore(pool, work.pool)
    BY DEF IInv, Inscribe, SoundWork
  <1>5. /\ work' \in Works /\ Sound(work'.book, work'.pool) /\ work'.pool # NoPool
        /\ work.pool # NoPool => WorthNoMore(work.pool, work'.pool)
    BY <1>2, <1>3, <1>4, DoSound DEF Inscribe
  <1>6. i' \in 1..(Len(tx') + 1)
    BY <1>1, LenProperties DEF Inscribe
  <1>7. TypeOK'
    BY <1>5, <1>6 DEF IInv, TypeOK, Inscribe, chain
  <1>8. ASSUME pool # NoPool PROVE WorthNoMore(pool, work'.pool)
    <2>1. pool \in Rows /\ work.pool \in Rows /\ work'.pool \in Rows
      BY <1>3, <1>4, <1>5, <1>8 DEF Works
    <2>2. work.pool.total # 0
      BY <1>4, <1>8, SoundFacts, SwapAssumption
    <2>3. QED
      BY <1>4, <1>5, <1>8, <2>1, <2>2, WorthTransitive
  <1>9. SoundWork' /\ Resting'
    BY <1>5, <1>8 DEF SoundWork, Inscribe, Resting
  <1>10. QED
    BY <1>7, <1>9, QuietInvariant DEF Inscribe

LEMMA CommitSwapsInvariant ==
    ASSUME IInv, CommitSwaps
    PROVE  IInv'
  <1>1. /\ work \in Works /\ sender \in Users /\ Sound(work.book, work.pool)
        /\ pool # NoPool => work.pool # NoPool
        /\ height \in Nat /\ creates \subseteq 0..height
        /\ DOMAIN ended = 0..(height - 1)
    BY DEF IInv, TypeOK, CommitSwaps, SoundWork
  <1>2. work.book \in Books /\ work.out \in Nat
    BY <1>1 DEF Works
  <1>3. Sound(book', work.pool)
    BY <1>1, <1>2, BurnKeepsSound DEF CommitSwaps
  <1>4. Sound(book, pool)'
    BY <1>3 DEF CommitSwaps
  <1>5. /\ SoundWork' /\ Resting' /\ phase' = "idle" /\ sender' \in Users
        /\ tx' \in Seq(Inscriptions) /\ i' \in 1..(Len(tx') + 1)
        /\ due' \in Nat /\ had' \in Nat /\ work' \in Works
    BY ReturnFacts DEF IInv, CommitSwaps
  <1>6. creates' \subseteq 0..height'
    BY <1>1 DEF CommitSwaps, chain
  <1>7. TypeOK'
    BY <1>4, <1>5, <1>6 DEF IInv, TypeOK, CommitSwaps, chain, Sound
  <1>8. SoundPast'
    BY DEF IInv, SoundPast, CommitSwaps, chain
  <1>9. CreatedOnce'
    <2>1. CASE pool = NoPool /\ work.pool # NoPool
      <3>1. creates = {} /\ creates' = {height} /\ pool' # NoPool
        BY <2>1 DEF IInv, CreatedOnce, CommitSwaps
      <3>2. \A h \in DOMAIN ended : poolAt[h] = NoPool /\ ~(height <= h)
        BY <1>1, <3>1 DEF IInv, CreatedOnce
      <3>3. QED
        BY <3>1, <3>2 DEF CreatedOnce, CommitSwaps, chain
    <2>2. CASE ~(pool = NoPool /\ work.pool # NoPool)
      <3>1. creates' = creates /\ (pool' = NoPool <=> pool = NoPool)
        BY <1>1, <2>2 DEF CommitSwaps
      <3>2. QED
        BY <3>1 DEF IInv, CreatedOnce, CommitSwaps, chain
    <2>3. QED
      BY <2>1, <2>2
  <1>10. QED
    BY <1>4, <1>5, <1>7, <1>8, <1>9 DEF IInv

LEMMA GiveUpInvariant ==
    ASSUME IInv, RollbackSwaps \/ Crash
    PROVE  IInv'
  <1>1. Return /\ UNCHANGED <<book, pool, creates, chain>>
    BY DEF RollbackSwaps, Crash
  <1>2. /\ SoundWork' /\ Resting' /\ phase' = "idle" /\ sender' \in Users
        /\ tx' \in Seq(Inscriptions) /\ i' \in 1..(Len(tx') + 1)
        /\ due' \in Nat /\ had' \in Nat /\ work' \in Works
    BY <1>1, ReturnFacts DEF IInv
  <1>3. TypeOK'
    BY <1>1, <1>2 DEF IInv, TypeOK, chain
  <1>4. QED
    BY <1>1, <1>2, <1>3, QuietInvariant

\* A step between two transactions that leaves the pool its own.
LEMMA LedgerInvariant ==
    ASSUME IInv, Idle, Sound(book', pool), UNCHANGED <<pool, creates, chain, router>>
    PROVE  IInv'
  <1>1. Sound(book, pool)'
    OBVIOUS
  <1>2. TypeOK'
    BY DEF IInv, TypeOK, chain, router, Sound
  <1>3. SoundWork' /\ Resting'
    BY DEF IInv, SoundWork, Resting, Idle, router
  <1>4. SoundPast' /\ CreatedOnce'
    BY DEF IInv, SoundPast, CreatedOnce, chain
  <1>5. QED
    BY <1>1, <1>2, <1>3, <1>4 DEF IInv

LEMMA DepositInvariant ==
    ASSUME IInv, NEW u \in Users, NEW amt \in Gifts, Deposit(u, amt)
    PROVE  IInv'
  <1>1. book \in Books /\ Sound(book, pool) /\ amt \in Nat
    BY SwapAssumption DEF IInv, TypeOK
  <1>2. Sound(book', pool)
    BY <1>1, MintKeepsSound DEF Deposit
  <1>3. QED
    BY <1>2, LedgerInvariant DEF Deposit

LEMMA WithdrawInvariant ==
    ASSUME IInv, NEW u \in Users, NEW amt \in Gifts, Withdraw(u, amt)
    PROVE  IInv'
  <1>1. book \in Books /\ Sound(book, pool) /\ amt \in Nat
    BY SwapAssumption DEF IInv, TypeOK
  <1>2. Sound(book', pool)
    BY <1>1, BurnKeepsSound DEF Withdraw
  <1>3. QED
    BY <1>2, LedgerInvariant DEF Withdraw

LEMMA TransferInvariant ==
    ASSUME IInv, NEW t \in Ticks, NEW u \in Users, NEW a \in Accounts, NEW amt \in Gifts,
           Transfer(t, u, a, amt)
    PROVE  IInv'
  <1>1. book \in Books /\ Sound(book, pool) /\ amt \in Nat
    BY SwapAssumption DEF IInv, TypeOK
  <1>2. Sound(book', pool)
    BY <1>1, MoveKeepsSound DEF Transfer
  <1>3. QED
    BY <1>2, LedgerInvariant DEF Transfer

LEMMA NextBlockInvariant ==
    ASSUME IInv, NextBlock
    PROVE  IInv'
  <1>1. height \in Nat /\ DOMAIN ended = 0..(height - 1) /\ DOMAIN poolAt = DOMAIN ended
        /\ Sound(book, pool) /\ creates \subseteq 0..height
    BY DEF IInv, TypeOK
  <1>2. /\ book' = book /\ height' = height + 1
        /\ ended' = [h \in 0..height |-> IF h = height THEN book ELSE ended[h]]
        /\ poolAt' = [h \in 0..height |-> IF h = height THEN pool ELSE poolAt[h]]
        /\ UNCHANGED <<pool, creates, txs, router>>
    BY DEF NextBlock, Ledger!EndBlock
  <1>3. DOMAIN ended' = 0..height /\ DOMAIN poolAt' = 0..height /\ 0..height = 0..(height' - 1)
    BY <1>1, <1>2
  <1>4. \A h \in 0..height : h = height \/ h \in DOMAIN ended
    BY <1>1
  <1>5. SoundPast'
    BY <1>1, <1>2, <1>3, <1>4 DEF IInv, SoundPast
  <1>6. \A h \in 0..height : ended'[h] \in Books /\ poolAt'[h] \in Rows \cup {NoPool}
    BY <1>3, <1>5 DEF SoundPast, Sound
  <1>7. creates' \subseteq 0..height'
    BY <1>1, <1>2
  <1>8. height' \in Nat
    BY <1>1, <1>2
  <1>9. TypeOK'
    BY <1>2, <1>3, <1>6, <1>7, <1>8 DEF IInv, TypeOK, router
  <1>10. CreatedOnce'
    <2>1. \A c \in creates : c <= height
      BY <1>1
    <2>2. (pool = NoPool <=> creates = {}) /\ \A c, d \in creates : c = d
      BY DEF IInv, CreatedOnce
    <2>3. \A h \in DOMAIN ended : poolAt[h] # NoPool <=> \E c \in creates : c <= h
      BY DEF IInv, CreatedOnce
    <2>4. \A h \in 0..height : poolAt'[h] # NoPool <=> \E c \in creates : c <= h
      BY <1>2, <1>4, <2>1, <2>2, <2>3
    <2>5. QED
      BY <1>2, <1>3, <2>2, <2>4 DEF CreatedOnce
  <1>11. SoundWork' /\ Resting' /\ Sound(book, pool)'
    BY <1>1, <1>2 DEF IInv, SoundWork, Resting, NextBlock, Idle, router
  <1>12. QED
    BY <1>5, <1>9, <1>10, <1>11 DEF IInv

\* The row after a fork, and whether the pool was there.
LEMMA ForkFacts ==
    ASSUME IInv, NEW h \in DOMAIN ended, Fork(h)
    PROVE  /\ h \in Nat /\ h < height
           /\ book' = ended[h] /\ height' = h
           /\ ended' = [g \in 0..(h - 1) |-> ended[g]]
           /\ poolAt' = [g \in 0..(h - 1) |-> poolAt[g]]
           /\ \A g \in 0..(h - 1) : g \in DOMAIN ended
           /\ Sound(ended[h], poolAt[h]) /\ Sound(book, pool)'
           /\ pool' \in {NoPool, Refresh(ended[h])}
           /\ pool' = NoPool <=> poolAt[h] = NoPool
           /\ pool' = NoPool <=> creates' = {}
  <1>1. /\ height \in Nat /\ DOMAIN ended = 0..(height - 1)
        /\ Sound(ended[h], poolAt[h])
        /\ creates \subseteq 0..height
    BY DEF IInv, TypeOK, SoundPast
  <1>2. h \in Nat /\ h < height
    BY <1>1
  <1>3. /\ book' = ended[h] /\ height' = h
        /\ ended' = [g \in 0..(h - 1) |-> ended[g]]
        /\ poolAt' = [g \in 0..(h - 1) |-> poolAt[g]]
        /\ pool' = RestoreRow(h, ended[h])
        /\ creates' = {c \in creates : c <= h}
    BY DEF Fork, Ledger!Rollback
  <1>4. \A g \in 0..(h - 1) : g \in DOMAIN ended
    BY <1>1, <1>2
  <1>5. /\ pool = NoPool <=> creates = {}
        /\ \A c, d \in creates : c = d
        /\ poolAt[h] # NoPool <=> \E c \in creates : c <= h
    BY DEF IInv, CreatedOnce
  <1>6. ASSUME poolAt[h] # NoPool
        PROVE  Sound(ended[h], Refresh(ended[h])) /\ Refresh(ended[h]) # NoPool
    <2>1. ended[h] \in Books /\ Counted(ended[h])
      BY <1>1 DEF Sound
    <2>2. \A t \in Pair : poolAt[h].amt[t] \in Nat \ {0} /\ ended[h].bal[t][Pool] \in Nat
      BY <1>1, <1>6, SoundFacts
    <2>3. /\ \A t \in Pair : poolAt[h].amt[t] <= ended[h].bal[t][Pool]
          /\ ended[h].bal[LP][Pool] >= MINI_LIQUIDITY
      BY <1>1, <1>6 DEF Sound
    <2>4. \A t \in Pair : ended[h].bal[t][Pool] >= 1
      BY <2>2, <2>3
    <2>5. QED
      BY <2>1, <2>3, <2>4, RefreshSound
  <1>7. CASE poolAt[h] = NoPool
    <2>1. \A c \in creates : ~(c <= h)
      BY <1>5, <1>7
    <2>2. creates' = {}
      BY <1>3, <2>1
    <2>3. pool = NoPool \/ \E c \in creates : c > h
      BY <1>1, <1>2, <1>5, <2>1
    <2>4. pool' = NoPool
      BY <1>3, <2>3 DEF RestoreRow
    <2>5. QED
      BY <1>1, <1>2, <1>3, <1>4, <1>7, <2>2, <2>4
  <1>8. CASE poolAt[h] # NoPool
    <2>1. PICK c \in creates : c <= h
      BY <1>5, <1>8
    <2>2. \A d \in creates : ~(d > h)
      BY <1>1, <1>2, <1>5, <2>1
    <2>3. creates' # {} /\ pool # NoPool
      BY <1>3, <1>5, <2>1
    <2>4. pool' = Refresh(ended[h])
      BY <1>3, <2>2, <2>3 DEF RestoreRow
    <2>5. QED
      BY <1>1, <1>2, <1>3, <1>4, <1>6, <1>8, <2>3, <2>4
  <1>9. QED
    BY <1>7, <1>8

LEMMA ForkInvariant ==
    ASSUME IInv, NEW h \in DOMAIN ended, Fork(h)
    PROVE  IInv'
  <1>1. /\ h \in Nat /\ h < height
        /\ book' = ended[h] /\ height' = h
        /\ ended' = [g \in 0..(h - 1) |-> ended[g]]
        /\ poolAt' = [g \in 0..(h - 1) |-> poolAt[g]]
        /\ \A g \in 0..(h - 1) : g \in DOMAIN ended
        /\ Sound(book, pool)'
        /\ pool' = NoPool <=> creates' = {}
    BY ForkFacts
  <1>2. creates' = {c \in creates : c <= h} /\ UNCHANGED router /\ Idle
    BY DEF Fork
  <1>3. DOMAIN ended' = 0..(h - 1) /\ DOMAIN poolAt' = 0..(h - 1)
    BY <1>1
  <1>4. creates' \subseteq 0..height'
    BY <1>1, <1>2 DEF IInv, TypeOK
  <1>5. SoundPast'
    BY <1>1, <1>3 DEF IInv, SoundPast
  <1>6. \A g \in 0..(h - 1) : ended'[g] \in Books /\ poolAt'[g] \in Rows \cup {NoPool}
    BY <1>3, <1>5 DEF SoundPast, Sound
  <1>7. TypeOK'
    BY <1>1, <1>2, <1>3, <1>4, <1>6 DEF IInv, TypeOK, router, Sound
  <1>8. CreatedOnce'
    <2>1. \A c, d \in creates' : c = d
      BY <1>2 DEF IInv, CreatedOnce
    <2>2. ASSUME NEW g \in 0..(h - 1)
          PROVE  poolAt'[g] # NoPool <=> \E c \in creates' : c <= g
      <3>1. poolAt'[g] = poolAt[g] /\ g \in DOMAIN ended
        BY <1>1
      <3>2. poolAt[g] # NoPool <=> \E c \in creates : c <= g
        BY <3>1 DEF IInv, CreatedOnce
      <3>3. \A c \in creates : c <= g => c <= h
        BY <1>1 DEF IInv, TypeOK
      <3>4. QED
        BY <1>2, <3>1, <3>2, <3>3
    <2>3. QED
      BY <1>1, <1>3, <2>1, <2>2 DEF CreatedOnce
  <1>9. SoundWork' /\ Resting'
    BY <1>2 DEF IInv, SoundWork, Resting, Idle, router
  <1>10. QED
    BY <1>1, <1>5, <1>7, <1>8, <1>9 DEF IInv

LEMMA StepInvariant ==
    ASSUME IInv, [Next]_vars
    PROVE  IInv'
  <1>1. CASE \E u \in Users, t \in Txs : Route(u, t)
    BY <1>1, RouteInvariant
  <1>2. CASE CountDeposit
    BY <1>2, CountDepositInvariant
  <1>3. CASE CommitDeposit
    BY <1>3, CommitDepositInvariant
  <1>4. CASE Inscribe
    BY <1>4, InscribeInvariant
  <1>5. CASE CommitSwaps
    BY <1>5, CommitSwapsInvariant
  <1>6. CASE RollbackSwaps \/ Crash
    BY <1>6, GiveUpInvariant
  <1>7. CASE \E u \in Users, amt \in Gifts : Deposit(u, amt) \/ Withdraw(u, amt)
    BY <1>7, DepositInvariant, WithdrawInvariant
  <1>8. CASE \E t \in Ticks, u \in Users, a \in Accounts, amt \in Gifts :
               Transfer(t, u, a, amt)
    BY <1>8, TransferInvariant
  <1>9. CASE NextBlock
    BY <1>9, NextBlockInvariant
  <1>10. CASE \E h \in DOMAIN ended : Fork(h)
    BY <1>10, ForkInvariant
  <1>11. CASE UNCHANGED vars
    <2>1. UNCHANGED <<book, pool, creates, chain>> /\ UNCHANGED router
      BY <1>11 DEF vars
    <2>2. TypeOK' /\ SoundWork' /\ Resting'
      BY <2>1 DEF IInv, TypeOK, SoundWork, Resting, chain, router
    <2>3. QED
      BY <2>1, <2>2, QuietInvariant
  <1>12. QED
    BY <1>1, <1>2, <1>3, <1>4, <1>5, <1>6, <1>7, <1>8, <1>9, <1>10, <1>11 DEF Next

THEOREM SwapInvariant == Spec => []IInv
  <1>1. Init => IInv
    BY InitInvariant
  <1>2. IInv /\ [Next]_vars => IInv'
    BY StepInvariant
  <1>3. QED
    BY <1>1, <1>2, PTL DEF Spec

\* Every variable keeps its type.
THEOREM SwapTypeCorrect == Spec => []TypeOK
  BY SwapInvariant, PTL DEF IInv

\* A pool never runs dry, whoever adds, removes, swaps or transfers what, and
\* whichever blocks are undone.
THEOREM PoolNeverEmpty == Spec => []NeverEmpty
  <1>1. IInv => NeverEmpty
    <2> SUFFICES ASSUME IInv, pool # NoPool PROVE NeverEmpty
      BY DEF NeverEmpty
    <2>1. Sound(book, pool)
      BY DEF IInv
    <2>2. pool.total >= MINI_LIQUIDITY
      BY <2>1, SoundFacts
    <2>3. QED
      BY <2>1, <2>2 DEF Sound, NeverEmpty
  <1>2. QED
    BY <1>1, SwapInvariant, PTL

\* The row never promises more than the ledger holds for the pool.
THEOREM PoolIsCovered == Spec => []LedgerCovers
  <1>1. IInv => LedgerCovers
    BY DEF IInv, Sound, LedgerCovers
  <1>2. QED
    BY <1>1, SwapInvariant, PTL

\* Rounding never costs those who stay in the pool.
THEOREM ShareValueKept == Spec => ShareValueNeverFalls
  <1>1. ASSUME IInv, [Next]_vars, pool # NoPool, pool' # NoPool, height' >= height
        PROVE  WorthNoMore(pool, pool')
    <2>1. pool \in Rows /\ height \in Nat
      BY <1>1 DEF IInv, TypeOK
    <2>2. CASE CommitSwaps
      BY <1>1, <2>2 DEF IInv, SoundWork, CommitSwaps
    <2>3. CASE \E h \in DOMAIN ended : Fork(h)
      <3>1. PICK h \in DOMAIN ended : Fork(h)
        BY <2>3
      <3>2. h \in Nat /\ h < height /\ height' = h
        BY <1>1, <3>1, ForkFacts
      <3>3. QED
        BY <1>1, <2>1, <3>2
    <2>4. CASE pool' = pool
      BY <2>1, <2>4, WorthItself
    <2>5. QED
      BY <1>1, <2>2, <2>3, <2>4
         DEF Next, Route, CountDeposit, CommitDeposit, Inscribe, RollbackSwaps, Crash,
             Deposit, Withdraw, Transfer, NextBlock, vars
  <1>2. IInv /\ [Next]_vars =>
          [pool # NoPool /\ pool' # NoPool /\ height' >= height =>
             WorthNoMore(pool, pool')]_vars
    BY <1>1
  <1>3. QED
    BY <1>2, SwapInvariant, PTL DEF Spec, ShareValueNeverFalls

\* A fork gives back the row the pool had.
THEOREM RowIsRestored == Spec => ForkRestoresRow
  <1>1. ASSUME IInv, [Next]_vars, height' < height
        PROVE  LET was == poolAt[height'] IN
               /\ (was = NoPool) = (pool' = NoPool)
               /\ was # NoPool /\ was = Refresh(ended[height']) => pool' = was
    <2>1. height \in Nat
      BY <1>1 DEF IInv, TypeOK
    <2>2. CASE \E h \in DOMAIN ended : Fork(h)
      <3>1. PICK h \in DOMAIN ended : Fork(h)
        BY <2>2
      <3>2. /\ height' = h /\ pool' \in {NoPool, Refresh(ended[h])}
            /\ pool' = NoPool <=> poolAt[h] = NoPool
        BY <1>1, <3>1, ForkFacts
      <3>3. QED
        BY <3>2
    <2>3. CASE height' = height \/ height' = height + 1
      BY <1>1, <2>1, <2>3
    <2>4. QED
      BY <1>1, <2>2, <2>3
         DEF Next, Route, CountDeposit, CommitDeposit, Inscribe, CommitSwaps,
             RollbackSwaps, Crash, Deposit, Withdraw, Transfer, NextBlock,
             Ledger!EndBlock, vars, chain
  <1>2. IInv /\ [Next]_vars =>
          [height' < height =>
             LET was == poolAt[height'] IN
             /\ (was = NoPool) = (pool' = NoPool)
             /\ was # NoPool /\ was = Refresh(ended[height']) => pool' = was]_vars
    BY <1>1
  <1>3. QED
    BY <1>2, SwapInvariant, PTL DEF Spec, ForkRestoresRow

-----------------------------------------------------------------------------
(* The router: what the sender has of WDOGE, beside what is to be withdrawn  *)
(* and what was deposited for the inscriptions still to come.                *)

\* Inscription o of u takes no more WDOGE than it brings, and what it gives is
\* withdrawn again.
KeepsWdoge(s, u, o, d) ==
    d.book.bal[WDOGE][u] + s.out + DepositOf(o) >= s.book.bal[WDOGE][u] + d.out

LEMMA DepositNat ==
    ASSUME NEW o \in Inscriptions
    PROVE  DepositOf(o) \in Nat
  BY NameFacts DEF DepositOf, Inscriptions

\* The WDOGE of a user who pays both ticks to the pool: it is one of them.
LEMMA WdogeMoved ==
    ASSUME NEW b \in Books, Counted(b),
           NEW from \in Accounts, NEW to \in Accounts, from # to,
           NEW x \in Int, NEW y \in Int,
           CanMove(b.bal, Tick0, from, to, x), CanMove(b.bal, Tick1, from, to, y)
    PROVE  LET c == MoveIn(MoveIn(b, Tick0, from, to, x), Tick1, from, to, y)
               w == IF WDOGE = Tick0 THEN x ELSE y
           IN  /\ c.bal[WDOGE][from] = b.bal[WDOGE][from] - w
               /\ c.bal[WDOGE][to] = b.bal[WDOGE][to] + w
  <1> DEFINE c == MoveIn(MoveIn(b, Tick0, from, to, x), Tick1, from, to, y)
  <1>1. \A a \in Accounts :
          /\ c.bal[Tick0][a] = IF a = from THEN b.bal[Tick0][a] - x
                               ELSE IF a = to THEN b.bal[Tick0][a] + x
                               ELSE b.bal[Tick0][a]
          /\ c.bal[Tick1][a] = IF a = from THEN b.bal[Tick1][a] - y
                               ELSE IF a = to THEN b.bal[Tick1][a] + y
                               ELSE b.bal[Tick1][a]
    BY PairMoved
  <1> HIDE DEF c
  <1>2. WDOGE = Tick0 \/ WDOGE = Tick1
    BY NameFacts DEF Pair
  <1>3. QED
    BY <1>1, <1>2, NameFacts DEF c

\* Liquidity is not WDOGE.
LEMMA WdogeMinted ==
    ASSUME NEW b \in Books, Counted(b), NEW h \in Accounts, NEW amt \in Nat
    PROVE  MintIn(b, LP, h, amt).bal[WDOGE] = b.bal[WDOGE]
  BY LiquidityMinted, NameFacts DEF Pair

LEMMA WdogeBurned ==
    ASSUME NEW b \in Books, Counted(b), NEW h \in Accounts, NEW amt \in Nat,
           CanBurnIn(b, LP, h, amt)
    PROVE  BurnIn(b, LP, h, amt).bal[WDOGE] = b.bal[WDOGE]
  BY LiquidityBurned, NameFacts DEF Pair

\* WDOGE is deposited, and withdrawn.
LEMMA WdogeDeposited ==
    ASSUME NEW b \in Books, NEW h \in Accounts, NEW amt \in Nat
    PROVE  MintIn(b, WDOGE, h, amt).bal[WDOGE][h] = b.bal[WDOGE][h] + amt
  <1> DEFINE c == MintIn(b, WDOGE, h, amt)
  <1>1. WDOGE \in Ticks
    BY NameFacts
  <1>2. /\ c \in Books
        /\ c.sum = [b.sum EXCEPT ![WDOGE] = @ + amt]
        /\ \A k \in Ticks, a \in Accounts :
             c.bal[k][a] = IF k = WDOGE /\ a = h THEN b.bal[k][a] + amt ELSE b.bal[k][a]
        /\ \A k \in Ticks \ {WDOGE} : c.bal[k] = b.bal[k]
    BY <1>1, MintInFacts
  <1> HIDE DEF c
  <1>3. QED
    BY <1>1, <1>2 DEF c

LEMMA WdogeWithdrawn ==
    ASSUME NEW b \in Books, NEW h \in Accounts, NEW amt \in Nat,
           CanBurnIn(b, WDOGE, h, amt)
    PROVE  BurnIn(b, WDOGE, h, amt).bal[WDOGE][h] = b.bal[WDOGE][h] - amt
  <1> DEFINE c == BurnIn(b, WDOGE, h, amt)
  <1>1. WDOGE \in Ticks
    BY NameFacts
  <1>2. /\ c \in Books
        /\ c.sum = [b.sum EXCEPT ![WDOGE] = @ - amt]
        /\ \A k \in Ticks, a \in Accounts :
             c.bal[k][a] = IF k = WDOGE /\ a = h THEN b.bal[k][a] - amt ELSE b.bal[k][a]
        /\ \A k \in Ticks \ {WDOGE} : c.bal[k] = b.bal[k]
    BY <1>1, BurnInFacts
  <1> HIDE DEF c
  <1>3. QED
    BY <1>1, <1>2 DEF c

LEMMA CreateKeepsWdoge ==
    ASSUME NEW s \in Works, Sound(s.book, s.pool), NEW u \in Users, NEW o \in Inscriptions,
           o.doge, o.op = "create", CanCreate(s, u, o)
    PROVE  KeepsWdoge(s, u, o, SwapCreate(s, u, o))
  <1> DEFINE b == s.book
             x == o.amt[Tick0]
             y == o.amt[Tick1]
             first == FirstLiquidity(o)
             paid == MoveIn(MoveIn(b, Tick0, u, Pool, x), Tick1, u, Pool, y)
             minted == MintIn(paid, LP, u, first)
             c == MintIn(minted, LP, Pool, MINI_LIQUIDITY)
  <1>1. u \in Accounts /\ u # Pool /\ Pool \in Accounts
    BY NameFacts
  <1>2. b \in Books /\ Counted(b) /\ s.out \in Nat
    BY DEF Works, Sound
  <1>3. x \in Nat /\ y \in Nat
    BY DEF Inscriptions, Pair
  <1>4. CanMove(b.bal, Tick0, u, Pool, x) /\ CanMove(b.bal, Tick1, u, Pool, y)
    BY DEF CanCreate, Pair
  <1>5. first \in Nat /\ MINI_LIQUIDITY \in Nat
    <2>1. Isqrt(x * y) \in Nat
      BY <1>3, IsqrtFacts
    <2>2. first > 0
      BY DEF CanCreate
    <2>3. QED
      BY <2>1, <2>2, SwapAssumption DEF FirstLiquidity
  <1>6. SwapCreate(s, u, o).book = c /\ SwapCreate(s, u, o).out = s.out
    BY DEF SwapCreate, Works
  <1>7. DepositOf(o) = IF WDOGE = Tick0 THEN x ELSE y
    BY NameFacts DEF DepositOf, Pair
  <1> HIDE DEF b, x, y, first
  <1>8. paid \in Books /\ Counted(paid)
    BY <1>1, <1>2, <1>3, <1>4, PaidToPool
  <1>9. paid.bal[WDOGE][u] = b.bal[WDOGE][u] - (IF WDOGE = Tick0 THEN x ELSE y)
    BY <1>1, <1>2, <1>3, <1>4, WdogeMoved
  <1> HIDE DEF paid
  <1>10. minted \in Books /\ Counted(minted) /\ minted.bal[WDOGE] = paid.bal[WDOGE]
    BY <1>1, <1>5, <1>8, LiquidityMinted, WdogeMinted
  <1> HIDE DEF minted
  <1>11. c.bal[WDOGE] = minted.bal[WDOGE]
    BY <1>1, <1>5, <1>10, WdogeMinted
  <1> HIDE DEF c
  <1>12. b.bal[WDOGE][u] \in Nat
    BY <1>1, <1>2, NameFacts DEF Books
  <1>13. QED
    BY <1>2, <1>3, <1>6, <1>7, <1>9, <1>10, <1>11, <1>12 DEF KeepsWdoge, b

\* An add takes no more than it offers of either tick.
LEMMA TakesOffered ==
    ASSUME NEW b, NEW p, Sound(b, p), p # NoPool, NEW o \in Inscriptions, o.op = "add",
           TakesAllOf0(p, o) \/ TakesAllOf1(p, o)
    PROVE  Taken(p, o)[Tick0] <= o.amt[Tick0] /\ Taken(p, o)[Tick1] <= o.amt[Tick1]
  <1>1. o.amt[Tick0] \in Nat /\ o.amt[Tick1] \in Nat
    BY DEF Inscriptions, Pair
  <1>2. Tick0 # Tick1 /\ Tick0 \in Pair /\ Tick1 \in Pair
    BY NameFacts DEF Pair
  <1>3. CASE TakesAllOf0(p, o)
    <2>1. Match(p, Tick0, Tick1, o.amt[Tick0]) <= o.amt[Tick1]
      BY <1>3 DEF TakesAllOf0
    <2>2. Taken(p, o)[Tick0] = o.amt[Tick0]
          /\ Taken(p, o)[Tick1] = Match(p, Tick0, Tick1, o.amt[Tick0])
      BY <1>2, <1>3 DEF Taken
    <2>3. QED
      BY <1>1, <2>1, <2>2
  <1>4. CASE ~TakesAllOf0(p, o)
    <2>1. Match(p, Tick1, Tick0, o.amt[Tick1]) <= o.amt[Tick0]
      BY <1>4 DEF TakesAllOf1
    <2>2. Taken(p, o)[Tick1] = o.amt[Tick1]
          /\ Taken(p, o)[Tick0] = Match(p, Tick1, Tick0, o.amt[Tick1])
      BY <1>2, <1>4 DEF Taken
    <2>3. QED
      BY <1>1, <2>1, <2>2
  <1>5. QED
    BY <1>3, <1>4

LEMMA AddKeepsWdoge ==
    ASSUME NEW s \in Works, Sound(s.book, s.pool), NEW u \in Users, NEW o \in Inscriptions,
           o.doge, o.op = "add", CanAdd(s, u, o)
    PROVE  KeepsWdoge(s, u, o, SwapAdd(s, u, o))
  <1> DEFINE b == s.book
             x == Taken(s.pool, o)[Tick0]
             y == Taken(s.pool, o)[Tick1]
             l == Liquidity(s.pool, o)
             paid == MoveIn(MoveIn(b, Tick0, u, Pool, x), Tick1, u, Pool, y)
             c == MintIn(paid, LP, u, l)
  <1>1. u \in Accounts /\ u # Pool /\ Pool \in Accounts
    BY NameFacts
  <1>2. b \in Books /\ Counted(b) /\ s.out \in Nat /\ s.pool # NoPool
    BY DEF Works, Sound, CanAdd
  <1>3. x \in Nat /\ y \in Nat /\ l \in Nat
    <2>1. Taken(s.pool, o) \in [Pair -> Nat] /\ l \in Nat
      BY <1>2, TakenFacts, LiquidityFacts
    <2> HIDE DEF l
    <2>2. QED
      BY <2>1 DEF Pair
  <1>4. CanMove(b.bal, Tick0, u, Pool, x) /\ CanMove(b.bal, Tick1, u, Pool, y)
    BY DEF CanAdd, Pair
  <1>5. x <= o.amt[Tick0] /\ y <= o.amt[Tick1]
    BY <1>2, TakesOffered DEF CanAdd
  <1>6. SwapAdd(s, u, o).book = c /\ SwapAdd(s, u, o).out = s.out
    BY DEF SwapAdd, Works
  <1>7. DepositOf(o) = o.amt[WDOGE] /\ (WDOGE = Tick0 \/ WDOGE = Tick1)
    BY NameFacts DEF DepositOf, Pair
  <1>8. o.amt[Tick0] \in Nat /\ o.amt[Tick1] \in Nat
    BY DEF Inscriptions, Pair
  <1> HIDE DEF b, x, y, l
  <1>9. paid \in Books /\ Counted(paid)
    BY <1>1, <1>2, <1>3, <1>4, PaidToPool
  <1>10. paid.bal[WDOGE][u] = b.bal[WDOGE][u] - (IF WDOGE = Tick0 THEN x ELSE y)
    BY <1>1, <1>2, <1>3, <1>4, WdogeMoved
  <1> HIDE DEF paid
  <1>11. c.bal[WDOGE] = paid.bal[WDOGE]
    BY <1>1, <1>3, <1>9, WdogeMinted
  <1> HIDE DEF c
  <1>12. b.bal[WDOGE][u] \in Nat
    BY <1>1, <1>2, NameFacts DEF Books
  <1>13. DepositOf(o) >= IF WDOGE = Tick0 THEN x ELSE y
    BY <1>5, <1>7
  <1>14. DepositOf(o) \in Nat
    BY DepositNat
  <1>15. QED
    BY <1>2, <1>3, <1>6, <1>10, <1>11, <1>12, <1>13, <1>14 DEF KeepsWdoge, b

LEMMA RemoveKeepsWdoge ==
    ASSUME NEW s \in Works, Sound(s.book, s.pool), NEW u \in Users, NEW o \in Inscriptions,
           o.doge, o.op = "remove", CanRemove(s, u, o)
    PROVE  KeepsWdoge(s, u, o, SwapRemove(s, u, o))
  <1> DEFINE b == s.book
             l == o.liquidity
             x == Worth(s.pool, Tick0, l)
             y == Worth(s.pool, Tick1, l)
             paid == MoveIn(MoveIn(b, Tick0, Pool, u, x), Tick1, Pool, u, y)
             c == BurnIn(paid, LP, u, l)
             w == IF WDOGE = Tick0 THEN x ELSE y
  <1>1. u \in Accounts /\ u # Pool /\ Pool \in Accounts
    BY NameFacts
  <1>2. b \in Books /\ Counted(b) /\ s.out \in Nat /\ s.pool # NoPool
    BY DEF Works, Sound, CanRemove
  <1>3. l \in Nat /\ l <= b.bal[LP][u] /\ l <= b.sum[LP]
    BY DEF Inscriptions, CanRemove, CanBurnIn, CanBurn
  <1>4. l < s.pool.total
    <2>1. b.bal[LP][u] \in Nat /\ b.bal[LP][u] < s.pool.total /\ s.pool.total \in Nat
      BY <1>2, SoundFacts
    <2> HIDE DEF b, l
    <2>2. QED
      BY <1>3, <2>1
  <1>5. x \in Nat /\ y \in Nat
    BY <1>2, <1>3, <1>4, WorthFacts DEF Pair
  <1>6. CanMove(b.bal, Tick0, Pool, u, x) /\ CanMove(b.bal, Tick1, Pool, u, y)
    BY DEF CanRemove, Pair
  <1>7. SwapRemove(s, u, o).book = c /\ SwapRemove(s, u, o).out = s.out + w
    BY NameFacts DEF SwapRemove, Pair
  <1> HIDE DEF b, l, x, y
  <1>8. paid \in Books /\ Counted(paid) /\ paid.sum = b.sum /\ paid.bal[LP] = b.bal[LP]
    BY <1>1, <1>2, <1>5, <1>6, PaidFromPool
  <1>9. paid.bal[WDOGE][u] = b.bal[WDOGE][u] + w
    BY <1>1, <1>2, <1>5, <1>6, WdogeMoved
  <1> HIDE DEF paid
  <1>10. CanBurnIn(paid, LP, u, l)
    BY <1>3, <1>8 DEF CanBurnIn, CanBurn
  <1>11. c.bal[WDOGE] = paid.bal[WDOGE]
    BY <1>1, <1>3, <1>8, <1>10, WdogeBurned
  <1> HIDE DEF c
  <1>12. b.bal[WDOGE][u] \in Nat /\ w \in Nat
    BY <1>1, <1>2, <1>5, NameFacts DEF Books
  <1> HIDE DEF w
  <1>13. DepositOf(o) \in Nat
    BY DepositNat
  <1>14. QED
    BY <1>2, <1>7, <1>9, <1>11, <1>12, <1>13 DEF KeepsWdoge, b

LEMMA ExecKeepsWdoge ==
    ASSUME NEW s \in Works, Sound(s.book, s.pool), NEW u \in Users, NEW o \in Inscriptions,
           o.doge, o.op = "swap", CanExec(s, u, o)
    PROVE  KeepsWdoge(s, u, o, SwapExec(s, u, o))
  <1> DEFINE b == s.book
             t == o.tick
             k == Other(o.tick)
             x == o.amt
             y == Out(s.pool, o)
             d == MoveIn(b, t, u, Pool, x)
             c == MoveIn(d, k, Pool, u, y)
  <1>1. u \in Accounts /\ u # Pool /\ Pool \in Accounts
    BY NameFacts
  <1>2. b \in Books /\ s.out \in Nat /\ s.pool # NoPool
    BY DEF Works, CanExec
  <1>3. /\ t \in Ticks /\ k \in Ticks /\ t # k /\ x \in Nat
        /\ (t = WDOGE /\ k # WDOGE) \/ (t # WDOGE /\ k = WDOGE)
    BY SwapAssumption DEF Inscriptions, Other, Pair, Ticks
  <1>4. y \in Nat
    BY <1>2, OutFacts
  <1>5. CanMove(b.bal, t, u, Pool, x) /\ CanMove(b.bal, k, Pool, u, y)
    BY DEF CanExec
  <1>6. /\ SwapExec(s, u, o).book = c
        /\ SwapExec(s, u, o).out = s.out + IF t # WDOGE THEN y ELSE 0
    BY DEF SwapExec
  <1>7. DepositOf(o) = IF t = WDOGE THEN x ELSE 0
    BY DEF DepositOf
  <1> HIDE DEF b, t, k, x, y
  <1>8. /\ d \in Books
        /\ \A j \in Ticks, a \in Accounts :
             d.bal[j][a] = IF j = t /\ a = u THEN b.bal[j][a] - x
                           ELSE IF j = t /\ a = Pool THEN b.bal[j][a] + x
                           ELSE b.bal[j][a]
    BY <1>1, <1>2, <1>3, <1>5, MoveInFacts
  <1> HIDE DEF d
  <1>9. CanMove(d.bal, k, Pool, u, y)
    BY <1>1, <1>3, <1>5, <1>8 DEF CanMove
  <1>10. \A j \in Ticks, a \in Accounts :
             c.bal[j][a] = IF j = k /\ a = Pool THEN d.bal[j][a] - y
                           ELSE IF j = k /\ a = u THEN d.bal[j][a] + y
                           ELSE d.bal[j][a]
    BY <1>1, <1>3, <1>4, <1>8, <1>9, MoveInFacts
  <1> HIDE DEF c
  <1>11. c.bal[WDOGE][u] = IF t = WDOGE THEN b.bal[WDOGE][u] - x ELSE b.bal[WDOGE][u] + y
    BY <1>1, <1>3, <1>8, <1>10, NameFacts
  <1>12. b.bal[WDOGE][u] \in Nat
    BY <1>1, <1>2, NameFacts DEF Books
  <1>13. QED
    BY <1>2, <1>3, <1>4, <1>6, <1>7, <1>11, <1>12 DEF KeepsWdoge, b

LEMMA DoKeepsWdoge ==
    ASSUME NEW s \in Works, Sound(s.book, s.pool), NEW u \in Users, NEW o \in Inscriptions,
           o.doge, Can(s, u, o)
    PROVE  KeepsWdoge(s, u, o, Do(s, u, o))
  <1>1. CASE o.op = "create" /\ CanCreate(s, u, o)
    BY <1>1, CreateKeepsWdoge DEF Do
  <1>2. CASE o.op = "add" /\ CanAdd(s, u, o)
    BY <1>2, AddKeepsWdoge DEF Do
  <1>3. CASE o.op = "remove" /\ CanRemove(s, u, o)
    BY <1>3, RemoveKeepsWdoge DEF Do
  <1>4. CASE o.op = "swap" /\ CanExec(s, u, o)
    BY <1>4, ExecKeepsWdoge DEF Do
  <1>5. QED
    BY <1>1, <1>2, <1>3, <1>4 DEF Can

-----------------------------------------------------------------------------
(* The router's invariant *)

\* paid is what the inscriptions of a transaction bring: paid[k], those before
\* the k-th.
Brings(paid, t) ==
    /\ paid \in [1..(Len(t) + 1) -> Nat]
    /\ paid[1] = 0
    /\ \A k \in 1..Len(t) : paid[k + 1] = paid[k] + DepositOf(t[k])

\* What has been counted of it, and what the sender has of it.
Accounted(paid) ==
    /\ phase = "deposit" => due = paid[i]
    /\ phase = "swap" =>
         /\ due = paid[Len(tx) + 1]
         /\ AllDoge => work.book.bal[WDOGE][sender] + paid[i] >= had + work.out + due

\* The ledger of the first database transaction has the deposit or not; the
\* sender has had no less from the start.
RouterInv ==
    /\ Idle => due = 0
    /\ ~Idle =>
        /\ book.bal[WDOGE][sender] >= had
        /\ \E paid : Brings(paid, tx) /\ Accounted(paid)

LEMMA BringsExists ==
    ASSUME NEW t \in Seq(Inscriptions)
    PROVE  \E paid : Brings(paid, t)
  <1> DEFINE N == Len(t)
             step == [q \in Nat \X (1..N) |-> q[1] + DepositOf(t[q[2]])]
  <1>1. N \in Nat
    BY LenProperties
  <1>2. \A k \in 1..N : DepositOf(t[k]) \in Nat
    <2>1. \A k \in 1..N : t[k] \in Inscriptions
      BY ElementOfSeq
    <2>2. QED
      BY <2>1, DepositNat
  <1>3. StepsWithin(step, Nat, N)
    BY <1>2 DEF StepsWithin
  <1>4. \A q \in Nat, k \in 1..N : step[<<q, k>>] = q + DepositOf(t[k])
    OBVIOUS
  <1> HIDE DEF step, N
  <1>5. PICK f : Recursive(f, Nat, 0, step, N)
    <2>1. 0 \in Nat
      OBVIOUS
    <2>2. QED
      BY ONLY <1>1, <1>3, <2>1, RecursionTo
  <1>6. /\ f \in [0..N -> Nat] /\ f[0] = 0
        /\ \A k \in 1..N : f[k - 1] \in Nat /\ f[k] = step[<<f[k - 1], k>>]
    BY <1>5 DEF Recursive
  <1> DEFINE paid == [k \in 1..(N + 1) |-> f[k - 1]]
  <1>7. paid \in [1..(N + 1) -> Nat]
    BY <1>1, <1>6
  <1>8. paid[1] = 0
    BY <1>1, <1>6
  <1>9. ASSUME NEW k \in 1..N PROVE paid[k + 1] = paid[k] + DepositOf(t[k])
    <2>1. k \in 1..(N + 1) /\ k + 1 \in 1..(N + 1) /\ (k + 1) - 1 = k
      BY <1>1
    <2>2. paid[k + 1] = f[k] /\ paid[k] = f[k - 1]
      BY <2>1
    <2> HIDE DEF paid
    <2>3. f[k - 1] \in Nat /\ f[k] = step[<<f[k - 1], k>>]
      BY <1>6
    <2>4. QED
      BY <1>4, <2>2, <2>3
  <1>10. QED
    BY <1>7, <1>8, <1>9 DEF Brings, N

LEMMA RouteAccounted ==
    ASSUME IInv, RouterInv, NEW u \in Users, NEW t \in Txs, Route(u, t)
    PROVE  RouterInv'
  <1>1. t \in Seq(Inscriptions) /\ tx' = t /\ i' = 1 /\ due' = 0 /\ phase' = "deposit"
        /\ sender' = u /\ book' = book /\ had' = book.bal[WDOGE][u]
    BY SwapAssumption DEF Route, IInv, RouterInv, Resting, Idle
  <1>2. book.bal[WDOGE][u] \in Nat
    BY NameFacts DEF IInv, TypeOK, Books
  <1>3. PICK paid : Brings(paid, t)
    BY <1>1, BringsExists
  <1>4. Brings(paid, tx)' /\ Accounted(paid)'
    BY <1>1, <1>3 DEF Brings, Accounted
  <1>5. QED
    BY <1>1, <1>2, <1>4 DEF RouterInv, Idle

LEMMA CountDepositAccounted ==
    ASSUME IInv, RouterInv, CountDeposit
    PROVE  RouterInv'
  <1>1. /\ phase = "deposit" /\ phase' = phase /\ i <= Len(tx) /\ i' = i + 1 /\ tx' = tx
        /\ due' = due + DepositOf(tx[i]) /\ UNCHANGED <<book, sender, had>>
    BY DEF CountDeposit
  <1>2. tx \in Seq(Inscriptions) /\ i \in 1..(Len(tx) + 1)
    BY DEF IInv, TypeOK
  <1>3. i \in 1..Len(tx)
    BY <1>1, <1>2, LenProperties
  <1>4. PICK paid : Brings(paid, tx) /\ Accounted(paid)
    BY <1>1 DEF RouterInv, Idle
  <1>5. paid[i'] = due'
    BY <1>1, <1>3, <1>4 DEF Brings, Accounted
  <1>6. Brings(paid, tx') /\ Accounted(paid)'
    BY <1>1, <1>4, <1>5 DEF Accounted
  <1>7. QED
    BY <1>1, <1>6 DEF RouterInv, Idle

LEMMA CommitDepositAccounted ==
    ASSUME IInv, RouterInv, CommitDeposit
    PROVE  RouterInv'
  <1>1. /\ phase = "deposit" /\ phase' = "swap" /\ i = Len(tx) + 1 /\ i' = 1
        /\ UNCHANGED <<tx, sender, due, had>>
        /\ work' = [book |-> book', pool |-> pool, out |-> 0]
        /\ book' = IF due > 0 THEN MintIn(book, WDOGE, sender, due) ELSE book
    BY DEF CommitDeposit
  <1>2. PICK paid : Brings(paid, tx) /\ Accounted(paid)
    BY <1>1 DEF RouterInv, Idle
  <1>3. due = paid[Len(tx) + 1] /\ paid[1] = 0
    BY <1>1, <1>2 DEF Brings, Accounted
  <1>4. /\ book \in Books /\ sender \in Accounts /\ due \in Nat /\ had \in Nat
        /\ book.bal[WDOGE][sender] \in Nat /\ book.bal[WDOGE][sender] >= had
    BY <1>1, NameFacts DEF IInv, TypeOK, Books, RouterInv, Idle
  <1>5. book'.bal[WDOGE][sender] = book.bal[WDOGE][sender] + due
    <2>1. CASE due > 0
      <3>1. book' = MintIn(book, WDOGE, sender, due)
        BY <1>1, <2>1
      <3>2. MintIn(book, WDOGE, sender, due).bal[WDOGE][sender]
               = book.bal[WDOGE][sender] + due
        BY <1>4, WdogeDeposited
      <3>3. QED
        BY ONLY <3>1, <3>2
    <2>2. CASE ~(due > 0)
      <3>1. due = 0 /\ book' = book
        BY <1>1, <1>4, <2>2
      <3>2. QED
        BY <1>4, <3>1
    <2>3. QED
      BY <2>1, <2>2
  <1>6. work'.book = book' /\ work'.out = 0
    BY <1>1
  <1>7. Accounted(paid)'
    BY <1>1, <1>3, <1>4, <1>5, <1>6 DEF Accounted
  <1>8. Brings(paid, tx')
    BY <1>1, <1>2
  <1>9. book'.bal[WDOGE][sender'] >= had'
    BY <1>1, <1>4, <1>5
  <1>10. QED
    BY <1>1, <1>7, <1>8, <1>9 DEF RouterInv, Idle

LEMMA InscribeAccounted ==
    ASSUME IInv, RouterInv, Inscribe
    PROVE  RouterInv'
  <1>1. /\ phase = "swap" /\ phase' = phase /\ i <= Len(tx) /\ i' = i + 1
        /\ UNCHANGED <<book, tx, sender, due, had>>
        /\ Can(work, sender, tx[i]) /\ work' = Do(work, sender, tx[i])
    BY DEF Inscribe
  <1>2. tx \in Seq(Inscriptions) /\ i \in 1..(Len(tx) + 1)
    BY DEF IInv, TypeOK
  <1>3. i \in 1..Len(tx) /\ tx[i] \in Inscriptions /\ i \in DOMAIN tx
    BY <1>1, <1>2, ElementOfSeq, LenProperties
  <1>4. work \in Works /\ Sound(work.book, work.pool) /\ sender \in Users
    BY <1>1 DEF IInv, TypeOK, SoundWork
  <1>5. work' \in Works
    BY <1>1, <1>3, <1>4, DoSound
  <1>6. PICK paid : Brings(paid, tx) /\ Accounted(paid)
    BY <1>1 DEF RouterInv, Idle
  <1>7. paid[i + 1] = paid[i] + DepositOf(tx[i]) /\ paid[i] \in Nat
    BY <1>3, <1>6 DEF Brings
  <1>8. DepositOf(tx[i]) \in Nat
    BY <1>3, DepositNat
  <1>9. ASSUME AllDoge
        PROVE  work'.book.bal[WDOGE][sender] + paid[i + 1] >= had + work'.out + due
    <2>1. tx[i].doge
      BY <1>3, <1>9 DEF AllDoge
    <2>2. KeepsWdoge(work, sender, tx[i], work')
      BY <1>1, <1>3, <1>4, <2>1, DoKeepsWdoge
    <2>3. work.book.bal[WDOGE][sender] + paid[i] >= had + work.out + due
      BY <1>1, <1>6, <1>9 DEF Accounted
    <2>4. /\ work.book.bal[WDOGE][sender] \in Nat /\ work'.book.bal[WDOGE][sender] \in Nat
          /\ work.out \in Nat /\ work'.out \in Nat
      BY <1>4, <1>5, NameFacts DEF Works, Books
    <2>5. had \in Nat /\ due \in Nat
      BY DEF IInv, TypeOK
    <2>6. work'.book.bal[WDOGE][sender] + work.out + DepositOf(tx[i])
             >= work.book.bal[WDOGE][sender] + work'.out
      BY <2>2 DEF KeepsWdoge
    <2>7. QED
      BY ONLY <1>7, <1>8, <2>3, <2>4, <2>5, <2>6
  <1>10. due = paid[Len(tx) + 1]
    BY <1>1, <1>6 DEF Accounted
  <1>11. AllDoge' <=> AllDoge
    BY <1>1 DEF AllDoge
  <1>12. Accounted(paid)'
    BY <1>1, <1>9, <1>10, <1>11 DEF Accounted
  <1>13. Brings(paid, tx')
    BY <1>1, <1>6
  <1>14. book'.bal[WDOGE][sender'] >= had'
    BY <1>1 DEF RouterInv, Idle
  <1>15. QED
    BY <1>1, <1>12, <1>13, <1>14 DEF RouterInv, Idle

LEMMA StepAccounted ==
    ASSUME IInv, RouterInv, [Next]_vars
    PROVE  RouterInv'
  <1>1. CASE \E u \in Users, t \in Txs : Route(u, t)
    BY <1>1, RouteAccounted
  <1>2. CASE CountDeposit
    BY <1>2, CountDepositAccounted
  <1>3. CASE CommitDeposit
    BY <1>3, CommitDepositAccounted
  <1>4. CASE Inscribe
    BY <1>4, InscribeAccounted
  <1>5. CASE CommitSwaps \/ RollbackSwaps \/ Crash
    <2>1. phase' = "idle" /\ due' = 0
      BY <1>5 DEF CommitSwaps, RollbackSwaps, Crash, Return
    <2>2. QED
      BY <2>1 DEF RouterInv, Idle
  <1>6. CASE Idle /\ UNCHANGED router
    BY <1>6 DEF RouterInv, Idle, router
  <1>7. CASE UNCHANGED vars
    <2>1. UNCHANGED <<book, phase, sender, tx, i, due, work, had>>
      BY <1>7 DEF vars, router
    <2>2. CASE Idle
      BY <2>1, <2>2 DEF RouterInv, Idle
    <2>3. CASE ~Idle
      <3>1. PICK paid : Brings(paid, tx) /\ Accounted(paid)
        BY <2>3 DEF RouterInv
      <3>2. Brings(paid, tx') /\ Accounted(paid)'
        BY <2>1, <3>1 DEF Accounted, AllDoge
      <3>3. QED
        BY <2>1, <2>3, <3>2 DEF RouterInv, Idle
    <2>4. QED
      BY <2>2, <2>3
  <1>8. QED
    BY <1>1, <1>2, <1>3, <1>4, <1>5, <1>6, <1>7
       DEF Next, Deposit, Withdraw, Transfer, NextBlock, Fork

\* Who pays and is paid in DOGE has at least the WDOGE of before when the
\* transaction is over, however it ends.
THEOREM RouterLeavesWdoge == Spec => RouterKeepsWdoge
  <1>1. Init => RouterInv
    BY DEF Init, RouterInv, Idle
  <1>2. IInv /\ RouterInv /\ [Next]_vars => RouterInv'
    BY StepAccounted
  <1>3. ASSUME IInv, RouterInv, [Next]_vars, ~Idle, phase' = "idle", AllDoge
        PROVE  book'.bal[WDOGE][sender] >= had
    <2>1. book.bal[WDOGE][sender] >= had
      BY <1>3 DEF RouterInv
    <2>2. CASE CommitSwaps
      <3>1. /\ phase = "swap" /\ i = Len(tx) + 1
            /\ CanBurnIn(work.book, WDOGE, sender, work.out)
            /\ book' = IF work.out > 0 THEN BurnIn(work.book, WDOGE, sender, work.out)
                       ELSE work.book
        BY <2>2 DEF CommitSwaps
      <3>2. PICK paid : Brings(paid, tx) /\ Accounted(paid)
        BY <1>3 DEF RouterInv
      <3>3. due = paid[i] /\ work.book.bal[WDOGE][sender] + paid[i] >= had + work.out + due
        BY <1>3, <3>1, <3>2 DEF Accounted
      <3>4. /\ work.book \in Books /\ work.out \in Nat /\ sender \in Accounts
            /\ work.book.bal[WDOGE][sender] \in Nat /\ had \in Nat /\ due \in Nat
        <4>1. work \in Works /\ sender \in Users /\ had \in Nat /\ due \in Nat
          BY <1>3 DEF IInv, TypeOK
        <4>2. QED
          BY <4>1, NameFacts DEF Works, Books
      <3>5. work.book.bal[WDOGE][sender] - work.out >= had
        BY ONLY <3>3, <3>4
      <3>6. book'.bal[WDOGE][sender] = work.book.bal[WDOGE][sender] - work.out
        <4>1. CASE work.out > 0
          <5>1. book' = BurnIn(work.book, WDOGE, sender, work.out)
            BY <3>1, <4>1
          <5>2. BurnIn(work.book, WDOGE, sender, work.out).bal[WDOGE][sender]
                   = work.book.bal[WDOGE][sender] - work.out
            BY <3>1, <3>4, WdogeWithdrawn
          <5>3. QED
            BY ONLY <5>1, <5>2
        <4>2. CASE ~(work.out > 0)
          <5>1. work.out = 0 /\ book' = work.book
            BY <3>1, <3>4, <4>2
          <5>2. QED
            BY <3>4, <5>1
        <4>3. QED
          BY <4>1, <4>2
      <3>7. QED
        BY <3>5, <3>6
    <2>3. CASE book' = book
      BY <2>1, <2>3
    <2>4. QED
      BY <1>3, <2>2, <2>3
         DEF Next, Route, CountDeposit, CommitDeposit, Inscribe, RollbackSwaps, Crash,
             Deposit, Withdraw, Transfer, NextBlock, Fork, Idle, vars
  <1>4. IInv /\ RouterInv /\ [Next]_vars =>
          [~Idle /\ phase' = "idle" /\ AllDoge => book'.bal[WDOGE][sender] >= had]_vars
    BY <1>3
  <1>5. QED
    BY <1>1, <1>2, <1>4, SwapInvariant, PTL DEF Spec, RouterKeepsWdoge
=============================================================================
