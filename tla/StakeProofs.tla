----------------------------- MODULE StakeProofs -----------------------------
(***************************************************************************)
(* Proofs about Stake: positions, totals and reserves agree, a reward is   *)
(* paid once, and a fork gives back the stakes of the block it returns to, *)
(* for any holders, ticks and amounts, and wherever the fork's transaction *)
(* is broken off.                                                          *)
(***************************************************************************)
EXTENDS Stake, DataLemmas

-----------------------------------------------------------------------------
(* Balances *)

LEMMA MoveType ==
    ASSUME NEW b \in Books, NEW t \in Ticks,
           NEW from \in Accounts, NEW to \in Accounts, NEW amt \in Int,
           CanMove(b, t, from, to, amt)
    PROVE  Move(b, t, from, to, amt) \in Books
  BY DEF Move, CanMove, Books

LEMMA MoveValue ==
    ASSUME NEW b \in Books, NEW t \in Ticks,
           NEW from \in Accounts, NEW to \in Accounts, NEW amt \in Int,
           CanMove(b, t, from, to, amt),
           NEW u \in Ticks, NEW a \in Accounts
    PROVE  Move(b, t, from, to, amt)[u][a] =
             IF u = t /\ a = from THEN b[u][a] - amt
             ELSE IF u = t /\ a = to THEN b[u][a] + amt
             ELSE b[u][a]
  BY DEF Move, CanMove, Books

LEMMA Addresses ==
    ASSUME NEW t \in StakeTicks, NEW u \in Users
    PROVE  /\ t \in Ticks /\ u \in Accounts /\ Pool \in Accounts /\ Reserve[t] \in Accounts
           /\ u # Reserve[t] /\ u # Pool /\ Pool # Reserve[t]
           /\ \A s \in StakeTicks : Reserve[t] = Reserve[s] => t = s
  BY StakeAssumption DEF Accounts

-----------------------------------------------------------------------------
(* The two tables *)

LEMMA AmountNat ==
    ASSUME NEW p, IsTable(p), NEW k
    PROVE  AmountOf(p, k) \in Nat
  BY DEF IsTable, AmountOf, Positions

\* One holder's stake in a tick changes.
LEMMA StakeOfUpdate ==
    ASSUME NEW p, IsTable(p), NEW q, IsTable(q), NEW t \in StakeTicks, NEW u \in Users,
           \A x \in Users \ {u} : AmountOf(q, <<t, x>>) = AmountOf(p, <<t, x>>)
    PROVE  StakeOf(q, t) = StakeOf(p, t) - AmountOf(p, <<t, u>>) + AmountOf(q, <<t, u>>)
  <1> DEFINE f == [x \in Users |-> AmountOf(p, <<t, x>>)]
             g == [x \in Users |-> AmountOf(q, <<t, x>>)]
  <1>1. f \in [Users -> Int] /\ g \in [Users -> Int]
    BY AmountNat
  <1>2. f[u] = AmountOf(p, <<t, u>>) /\ g[u] = AmountOf(q, <<t, u>>)
    OBVIOUS
  <1>3. \A x \in Users \ {u} : g[x] = f[x]
    OBVIOUS
  <1>4. StakeOf(p, t) = SumFunction(f) /\ StakeOf(q, t) = SumFunction(g)
    BY DEF StakeOf
  <1>5. IsFiniteSet(Users)
    BY StakeAssumption
  <1> HIDE DEF f, g
  <1>6. SumFunction(g) = SumFunction(f) - f[u] + g[u]
    BY <1>1, <1>3, <1>5, SumUpdate
  <1>7. QED
    BY <1>2, <1>4, <1>6

LEMMA StakeOfSame ==
    ASSUME NEW p, NEW q, NEW t, \A x \in Users : AmountOf(q, <<t, x>>) = AmountOf(p, <<t, x>>)
    PROVE  StakeOf(q, t) = StakeOf(p, t)
  <1>1. [x \in Users |-> AmountOf(p, <<t, x>>)] = [x \in Users |-> AmountOf(q, <<t, x>>)]
    OBVIOUS
  <1>2. QED
    BY <1>1 DEF StakeOf

LEMMA StakeOfInt ==
    ASSUME NEW p, IsTable(p), NEW t
    PROVE  StakeOf(p, t) \in Int
  <1> DEFINE f == [x \in Users |-> AmountOf(p, <<t, x>>)]
  <1>1. f \in [Users -> Int] /\ IsFiniteSet(Users)
    BY AmountNat, StakeAssumption
  <1> HIDE DEF f
  <1>2. SumFunction(f) \in Int
    BY <1>1, SumInt
  <1>3. QED
    BY <1>2 DEF StakeOf, f

IsTables(T) ==
    /\ T = [totals |-> T.totals, positions |-> T.positions]
    /\ T.totals \in [StakeTicks -> Nat]
    /\ IsTable(T.positions)

AddsUp(T) == \A t \in StakeTicks : StakeOf(T.positions, t) = T.totals[t]

\* R is T with d more in the position of u in a tick and in the tick's total.
Differ(T, R, tick, u, d) ==
    /\ IsTables(R)
    /\ R.totals[tick] = T.totals[tick] + d
    /\ \A t \in StakeTicks \ {tick} : R.totals[t] = T.totals[t]
    /\ DOMAIN R.positions = DOMAIN T.positions \cup {<<tick, u>>}
    /\ AmountOf(R.positions, <<tick, u>>) = AmountOf(T.positions, <<tick, u>>) + d
    /\ \A k \in (StakeTicks \X Users) \ {<<tick, u>>} :
          AmountOf(R.positions, k) = AmountOf(T.positions, k)
    /\ \A k \in DOMAIN T.positions :
          /\ R.positions[k].reward = T.positions[k].reward
          /\ R.positions[k].received = T.positions[k].received
    /\ \A k \in DOMAIN R.positions \ DOMAIN T.positions :
          R.positions[k].reward = 0 /\ R.positions[k].received = 0

LEMMA StakeDiffers ==
    ASSUME NEW T, IsTables(T), NEW tick \in StakeTicks, NEW u \in Users, NEW amt \in Nat
    PROVE  Differ(T, StakeStakeV1(T, tick, u, amt), tick, u, amt)
  <1> DEFINE k == <<tick, u>>
             p == T.positions
             tot == [T.totals EXCEPT ![tick] = @ + amt]
             q == [x \in DOMAIN p \cup {k} |->
                      IF x # k THEN p[x]
                      ELSE IF x \in DOMAIN p THEN [p[x] EXCEPT !.amt = @ + amt]
                           ELSE NewPosition(amt)]
             R == [totals |-> tot, positions |-> q]
  <1>1. StakeStakeV1(T, tick, u, amt) = R
    BY DEF StakeStakeV1
  <1>2. /\ T.totals \in [StakeTicks -> Nat] /\ DOMAIN p \subseteq StakeTicks \X Users
        /\ p \in [DOMAIN p -> Positions] /\ k \in StakeTicks \X Users
    BY DEF IsTables, IsTable
  <1>3. /\ tot \in [StakeTicks -> Nat] /\ tot[tick] = T.totals[tick] + amt
        /\ \A t \in StakeTicks \ {tick} : tot[t] = T.totals[t]
    BY <1>2
  <1>4. DOMAIN q = DOMAIN p \cup {k} /\ \A x \in DOMAIN p \ {k} : q[x] = p[x]
    OBVIOUS
  <1>5. CASE k \in DOMAIN p
    <2>1. q[k] = [p[k] EXCEPT !.amt = @ + amt]
      BY <1>5
    <2>2. p[k] \in Positions
      BY <1>2, <1>5
    <2>3. /\ q[k] \in Positions /\ q[k].amt = p[k].amt + amt
          /\ q[k].reward = p[k].reward /\ q[k].received = p[k].received
      BY <2>1, <2>2 DEF Positions
    <2> HIDE DEF q, p, k, tot
    <2>4. IsTable(q)
      <3>1. \A x \in DOMAIN q : q[x] \in Positions
        BY <1>2, <1>4, <2>3
      <3>2. q = [x \in DOMAIN q |-> q[x]]
        BY DEF q
      <3>3. QED
        BY <1>2, <1>4, <3>1, <3>2 DEF IsTable
    <2>5. R.totals = tot /\ R.positions = q
      OBVIOUS
    <2>6. QED
      BY <1>1, <1>2, <1>3, <1>4, <1>5, <2>3, <2>4, <2>5 DEF Differ, IsTables, AmountOf, k, p
  <1>6. CASE k \notin DOMAIN p
    <2>1. q[k] = NewPosition(amt)
      BY <1>6
    <2>2. /\ q[k] \in Positions /\ q[k].amt = amt
          /\ q[k].reward = 0 /\ q[k].received = 0
      BY <2>1 DEF Positions, NewPosition
    <2> HIDE DEF q, p, k, tot
    <2>3. IsTable(q)
      <3>1. \A x \in DOMAIN q : q[x] \in Positions
        BY <1>2, <1>4, <1>6, <2>2
      <3>2. q = [x \in DOMAIN q |-> q[x]]
        BY DEF q
      <3>3. QED
        BY <1>2, <1>4, <3>1, <3>2 DEF IsTable
    <2>4. R.totals = tot /\ R.positions = q
      OBVIOUS
    <2>5. /\ AmountOf(q, k) = amt /\ AmountOf(p, k) = 0
          /\ \A x \in (StakeTicks \X Users) \ {k} : AmountOf(q, x) = AmountOf(p, x)
      BY <1>4, <1>6, <2>2 DEF AmountOf
    <2>6. \A x \in DOMAIN p : q[x] = p[x]
      BY <1>4, <1>6
    <2>7. IsTables(R)
      BY <1>3, <2>3, <2>4 DEF IsTables
    <2>8. Differ(T, R, tick, u, amt)
      BY <1>3, <1>4, <1>6, <2>2, <2>4, <2>5, <2>6, <2>7 DEF Differ, k, p
    <2>9. QED
      BY <1>1, <2>8
  <1>7. QED
    BY <1>5, <1>6

LEMMA UnStakeDiffers ==
    ASSUME NEW T, IsTables(T), NEW tick \in StakeTicks, NEW u \in Users, NEW amt \in Nat,
           CanUnStake(T, tick, u, amt)
    PROVE  Differ(T, StakeUnStakeV1(T, tick, u, amt), tick, u, -amt)
  <1> DEFINE k == <<tick, u>>
             p == T.positions
             tot == [T.totals EXCEPT ![tick] = @ - amt]
             q == [p EXCEPT ![k].amt = @ - amt]
             R == [totals |-> tot, positions |-> q]
  <1>1. /\ T.totals \in [StakeTicks -> Nat] /\ DOMAIN p \subseteq StakeTicks \X Users
        /\ p \in [DOMAIN p -> Positions] /\ k \in DOMAIN p
        /\ amt <= T.totals[tick] /\ amt <= p[k].amt
    BY DEF IsTables, IsTable, CanUnStake
  <1>2. StakeUnStakeV1(T, tick, u, amt) = R
    BY DEF StakeUnStakeV1
  <1>3. /\ tot \in [StakeTicks -> Nat] /\ tot[tick] = T.totals[tick] - amt
        /\ \A t \in StakeTicks \ {tick} : tot[t] = T.totals[t]
    BY <1>1
  <1>4. /\ DOMAIN q = DOMAIN p /\ \A x \in DOMAIN p \ {k} : q[x] = p[x]
        /\ q[k] = [p[k] EXCEPT !.amt = @ - amt]
    BY <1>1
  <1>5. /\ p[k] \in Positions /\ q[k] \in Positions /\ q[k].amt = p[k].amt - amt
        /\ q[k].reward = p[k].reward /\ q[k].received = p[k].received
    BY <1>1, <1>4 DEF Positions
  <1>6. q = [x \in DOMAIN q |-> q[x]]
    BY <1>1
  <1> HIDE DEF q, p, k, tot
  <1>7. IsTable(q)
    <2>1. \A x \in DOMAIN q : q[x] \in Positions
      BY <1>1, <1>4, <1>5
    <2>2. QED
      BY <1>1, <1>4, <1>6, <2>1 DEF IsTable
  <1>8. R.totals = tot /\ R.positions = q
    OBVIOUS
  <1>9. QED
    BY <1>1, <1>2, <1>3, <1>4, <1>5, <1>7, <1>8 DEF Differ, IsTables, AmountOf, k, p

\* The positions of a tick still add up to its total.
LEMMA StillAddsUp ==
    ASSUME NEW T, IsTables(T), AddsUp(T), NEW R, NEW tick \in StakeTicks, NEW u \in Users,
           NEW d \in Int, Differ(T, R, tick, u, d)
    PROVE  AddsUp(R)
  <1>1. ASSUME NEW t \in StakeTicks PROVE StakeOf(R.positions, t) = R.totals[t]
    <2>1. StakeOf(T.positions, t) = T.totals[t] /\ T.totals[t] \in Int
      BY DEF AddsUp, IsTables
    <2>2. CASE t = tick
      <3>1. \A x \in Users \ {u} :
               AmountOf(R.positions, <<t, x>>) = AmountOf(T.positions, <<t, x>>)
        BY <2>2 DEF Differ
      <3>2. IsTable(T.positions) /\ IsTable(R.positions)
        BY DEF IsTables, Differ
      <3>3. StakeOf(R.positions, t) = StakeOf(T.positions, t)
               - AmountOf(T.positions, <<t, u>>) + AmountOf(R.positions, <<t, u>>)
        BY <3>1, <3>2, StakeOfUpdate
      <3>4. AmountOf(T.positions, <<t, u>>) \in Int
        BY <3>2, AmountNat
      <3>5. QED
        BY <2>1, <2>2, <3>3, <3>4 DEF Differ
    <2>3. CASE t # tick
      <3>1. \A x \in Users :
               AmountOf(R.positions, <<t, x>>) = AmountOf(T.positions, <<t, x>>)
        BY <2>3 DEF Differ
      <3>2. StakeOf(R.positions, t) = StakeOf(T.positions, t)
        BY <3>1, StakeOfSame
      <3>3. QED
        BY <2>1, <2>3, <3>2 DEF Differ
    <2>4. QED
      BY <2>2, <2>3
  <1>2. QED
    BY <1>1 DEF AddsUp

-----------------------------------------------------------------------------
(* What rows add up to *)

AreRows(table, ids) == ids \subseteq 1..MaxOps /\ \A i \in ids : table[i] \in Reverts

Terms(table, ids, k) == [i \in 1..MaxOps |-> IF i \in ids THEN Change(table[i], k) ELSE 0]

LEMMA OpsFinite == MaxOps \in Nat /\ IsFiniteSet(1..MaxOps)
  <1>1. MaxOps \in Nat
    BY StakeAssumption
  <1>2. QED
    BY <1>1, FS_Interval

LEMMA TermsInt ==
    ASSUME NEW table, NEW ids, AreRows(table, ids), NEW k
    PROVE  /\ Terms(table, ids, k) \in [1..MaxOps -> Int] /\ IsFiniteSet(1..MaxOps)
           /\ NetOf(table, ids, k) = SumFunction(Terms(table, ids, k))
           /\ NetOf(table, ids, k) \in Int
  <1> DEFINE f == Terms(table, ids, k)
  <1>1. \A i \in ids : Change(table[i], k) \in Int
    BY DEF AreRows, Reverts, Change
  <1>2. f \in [1..MaxOps -> Int]
    BY <1>1 DEF Terms
  <1>3. IsFiniteSet(1..MaxOps)
    BY OpsFinite
  <1>4. NetOf(table, ids, k) = SumFunction(f)
    BY DEF NetOf, Terms
  <1> HIDE DEF f
  <1>5. SumFunction(f) \in Int
    BY <1>2, <1>3, SumInt
  <1>6. QED
    BY <1>2, <1>3, <1>4, <1>5 DEF f

LEMMA NetSame ==
    ASSUME NEW table, NEW ids, NEW table2, NEW ids2, NEW k,
           \A i \in 1..MaxOps : (i \in ids <=> i \in ids2) /\ (i \in ids => table[i] = table2[i])
    PROVE  NetOf(table, ids, k) = NetOf(table2, ids2, k)
  <1>1. Terms(table, ids, k) = Terms(table2, ids2, k)
    BY DEF Terms
  <1>2. QED
    BY <1>1 DEF NetOf, Terms

LEMMA NetNone ==
    ASSUME NEW table, NEW k
    PROVE  NetOf(table, {}, k) = 0
  <1>1. Terms(table, {}, k) = [i \in 1..MaxOps |-> 0]
    BY DEF Terms
  <1>2. IsFiniteSet(1..MaxOps)
    BY OpsFinite
  <1>3. SumFunction([i \in 1..MaxOps |-> 0]) = 0
    BY <1>2, SumZero
  <1>4. QED
    BY <1>1, <1>3 DEF NetOf, Terms

LEMMA NetMore ==
    ASSUME NEW table, NEW ids, AreRows(table, ids), NEW n \in 1..MaxOps, n \notin ids,
           NEW table2, NEW ids2, ids2 = ids \cup {n}, AreRows(table2, ids2),
           \A i \in ids : table2[i] = table[i], NEW k
    PROVE  NetOf(table2, ids2, k) = NetOf(table, ids, k) + Change(table2[n], k)
  <1> DEFINE f == Terms(table, ids, k)
             g == Terms(table2, ids2, k)
  <1>1. /\ f \in [1..MaxOps -> Int] /\ g \in [1..MaxOps -> Int] /\ IsFiniteSet(1..MaxOps)
        /\ NetOf(table, ids, k) = SumFunction(f) /\ NetOf(table2, ids2, k) = SumFunction(g)
        /\ NetOf(table, ids, k) \in Int
    BY TermsInt
  <1>2. f[n] = 0 /\ g[n] = Change(table2[n], k)
    BY DEF Terms
  <1>3. \A i \in (1..MaxOps) \ {n} : g[i] = f[i]
    BY DEF Terms
  <1> HIDE DEF f, g
  <1>4. SumFunction(g) = SumFunction(f) - f[n] + g[n]
    BY <1>1, <1>3, SumUpdate
  <1>5. g[n] \in Int
    BY <1>1
  <1>6. QED
    BY <1>1, <1>2, <1>4, <1>5

\* The greatest and the least of a set of ids.
LEMMA MaxIs ==
    ASSUME NEW N \in Nat, NEW S \in SUBSET (1..N), S # {}
    PROVE  Max(S) \in S /\ \A x \in S : x <= Max(S)
  <1> DEFINE D == {N - x : x \in S}
  <1>1. D \in SUBSET Nat /\ D # {}
    OBVIOUS
  <1>2. PICK m \in D : \A d \in D : m <= d
    BY <1>1, LeastNatural
  <1>3. PICK x \in S : m = N - x
    BY <1>2
  <1>4. \A y \in S : N - x <= N - y
    BY <1>2, <1>3
  <1>5. \A y \in S : x >= y
    BY <1>4
  <1>6. QED
    BY <1>5 DEF Max

LEMMA MinIs ==
    ASSUME NEW S \in SUBSET Nat, S # {}
    PROVE  Min(S) \in S
  <1>1. \E x \in S : \A y \in S : x <= y
    BY LeastNatural
  <1>2. QED
    BY <1>1 DEF Min

-----------------------------------------------------------------------------
(* What the actions share *)

Keys == StakeTicks \X Users

LEMMA InitStake == ASSUME Init PROVE StakeInv
  <1>1. /\ bal = Funds /\ height = 0 /\ DOMAIN ended = {} /\ DOMAIN stakesAt = {}
        /\ totals = [t \in StakeTicks |-> 0] /\ DOMAIN positions = {}
        /\ positions = [k \in {} |-> NewPosition(0)]
        /\ DOMAIN reverts = {} /\ DOMAIN rewards = {} /\ nextId = 1
        /\ forkTo = None /\ cursor = 0
        /\ paid = [k \in StakeTicks \X Users |-> 0]
    BY DEF Init, Ledger!AbsInit
  <1>2. 0..(0 - 1) = {} /\ MaxOps \in Nat /\ Funds \in Books
    BY OpsFinite, StakeAssumption
  <1>3. IsTable(positions)
    BY <1>1 DEF IsTable
  <1>4. TypeOK
    BY <1>1, <1>2, <1>3 DEF TypeOK, Scanning
  <1>5. Backed
    <2>1. SUFFICES ASSUME NEW t \in StakeTicks
                   PROVE  StakeOf(positions, t) = totals[t] /\ totals[t] <= bal[t][Reserve[t]]
      BY DEF Backed
    <2>2. [u \in Users |-> AmountOf(positions, <<t, u>>)] = [u \in Users |-> 0]
      BY <1>1 DEF AmountOf
    <2>3. IsFiniteSet(Users)
      BY StakeAssumption
    <2>4. StakeOf(positions, t) = 0
      BY <2>2, <2>3, SumZero DEF StakeOf
    <2>5. t \in Ticks /\ Reserve[t] \in Accounts
      BY StakeAssumption DEF Accounts
    <2>6. bal[t][Reserve[t]] \in Nat
      BY <1>1, <1>2, <2>5 DEF Books
    <2>7. QED
      BY <1>1, <2>4, <2>6
  <1>6. NeverPaidTwice /\ Recounted /\ BackedThen /\ HalfUndone /\ Claimed
    BY <1>1 DEF NeverPaidTwice, Recounted, BackedThen, HalfUndone, Claimed, Scanning
  <1>7. QED
    BY <1>4, <1>5, <1>6 DEF StakeInv

\* The rows of finished blocks and of this one.
LEMMA RowsBetween ==
    ASSUME TypeOK, NEW g, NEW h
    PROVE  AreRows(reverts, Between(reverts, g, h)) /\ AreRows(reverts, Pending(reverts))
  <1>1. DOMAIN reverts \subseteq 1..MaxOps
    <2>1. nextId \in 1..(MaxOps + 1) /\ DOMAIN reverts \subseteq 1..(nextId - 1)
      BY DEF TypeOK
    <2>2. MaxOps \in Nat
      BY OpsFinite
    <2>3. QED
      BY <2>1, <2>2
  <1>2. \A i \in DOMAIN reverts : reverts[i] \in Reverts
    BY DEF TypeOK
  <1>3. QED
    BY <1>1, <1>2 DEF AreRows, Between, Pending, Above

\* The past is not touched.
LEMMA BackedThenKept ==
    ASSUME BackedThen, UNCHANGED <<stakesAt, ended>>
    PROVE  BackedThen'
  BY DEF BackedThen

LEMMA RecountedKept ==
    ASSUME Recounted, UNCHANGED <<stakesAt, reverts, height>>,
           \A k \in Keys : AmountOf(positions', k) = AmountOf(positions, k)
    PROVE  Recounted'
  BY DEF Recounted, Keys

\* A row of this block is added to stake_revert.
LEMMA RevertAdded ==
    ASSUME TypeOK, Recounted, NEW op \in {"stake", "unstake"}, NEW tick \in StakeTicks,
           NEW u \in Users, NEW amt \in Nat, NEW d \in Int,
           d = IF op = "stake" THEN amt ELSE -amt,
           Journal(op, tick, u, amt), UNCHANGED <<stakesAt, height>>,
           AmountOf(positions', <<tick, u>>) = AmountOf(positions, <<tick, u>>) + d,
           \A k \in Keys \ {<<tick, u>>} : AmountOf(positions', k) = AmountOf(positions, k)
    PROVE  /\ nextId' \in 1..(MaxOps + 1)
           /\ DOMAIN reverts' = DOMAIN reverts \cup {nextId}
           /\ DOMAIN reverts' \subseteq 1..(nextId' - 1)
           /\ \A i \in DOMAIN reverts : reverts'[i] = reverts[i]
           /\ \A i \in DOMAIN reverts' : reverts'[i] \in Reverts /\ reverts'[i].at <= height
           /\ reverts'[nextId].tick = tick /\ reverts'[nextId].holder = u
           /\ Recounted'
  <1> DEFINE n == nextId
             r == [op |-> op, tick |-> tick, holder |-> u, amt |-> amt, at |-> height]
  <1>1. /\ n <= MaxOps /\ n \in 1..(MaxOps + 1) /\ MaxOps \in Nat /\ height \in Nat
        /\ DOMAIN reverts \subseteq 1..(n - 1)
        /\ \A i \in DOMAIN reverts : reverts[i] \in Reverts /\ reverts[i].at <= height
        /\ DOMAIN stakesAt = 0..(height - 1)
    BY OpsFinite DEF TypeOK, Journal
  <1>2. /\ DOMAIN reverts' = DOMAIN reverts \cup {n} /\ nextId' = n + 1
        /\ \A i \in DOMAIN reverts : i # n /\ reverts'[i] = reverts[i]
        /\ reverts'[n] = r
    BY <1>1 DEF Journal
  <1>3. r \in Reverts /\ r.at = height /\ r.tick = tick /\ r.holder = u
    BY <1>1 DEF Reverts
  <1>4. \A k : Change(r, k) = IF k = <<tick, u>> THEN d ELSE 0
    BY DEF Change
  <1> HIDE DEF r
  <1>5. \A i \in DOMAIN reverts' : reverts'[i] \in Reverts /\ reverts'[i].at <= height
    BY <1>1, <1>2, <1>3
  <1>6. n \in 1..MaxOps /\ n \notin DOMAIN reverts /\ DOMAIN reverts' \subseteq 1..MaxOps
    BY <1>1, <1>2
  <1>7. Recounted'
    <2>1. SUFFICES ASSUME NEW h \in DOMAIN stakesAt, NEW k \in Keys
                   PROVE  /\ AmountOf(positions', k) = AmountOf(stakesAt[h].positions, k)
                               + NetOf(reverts', Between(reverts', h, height), k)
                          /\ \A g \in 0..(h - 1) :
                                AmountOf(stakesAt[h].positions, k) =
                                  AmountOf(stakesAt[g].positions, k)
                                    + NetOf(reverts', Between(reverts', g, h), k)
      BY DEF Recounted, Keys
    <2>2. /\ AmountOf(positions, k) = AmountOf(stakesAt[h].positions, k)
               + NetOf(reverts, Between(reverts, h, height), k)
          /\ \A g \in 0..(h - 1) :
                AmountOf(stakesAt[h].positions, k) = AmountOf(stakesAt[g].positions, k)
                   + NetOf(reverts, Between(reverts, g, h), k)
      BY DEF Recounted, Keys
    <2>3. h \in Nat /\ h < height
      BY <1>1
    <2>4. NetOf(reverts', Between(reverts', h, height), k)
            = NetOf(reverts, Between(reverts, h, height), k) + Change(r, k)
      <3> DEFINE ids == Between(reverts, h, height)
                 ids2 == Between(reverts', h, height)
      <3>1. AreRows(reverts, ids) /\ n \notin ids
        BY <1>6, RowsBetween DEF Between
      <3>2. ids2 = ids \cup {n}
        <4>1. \A i \in DOMAIN reverts' : i \in DOMAIN reverts \/ i = n
          BY <1>2
        <4>2. h < r.at /\ r.at <= height
          BY <1>1, <1>3, <2>3
        <4>3. \A i : i \in ids2 <=> i \in ids \/ i = n
          BY <1>2, <1>6, <4>1, <4>2 DEF Between
        <4> HIDE DEF ids, ids2
        <4>4. QED
          BY <4>3
      <3>3. AreRows(reverts', ids2)
        BY <1>5, <1>6 DEF AreRows, Between
      <3>4. \A i \in ids : reverts'[i] = reverts[i]
        BY <1>2 DEF Between
      <3> HIDE DEF ids, ids2
      <3>5. PICK a, b, c, x, y : a = reverts /\ b = reverts' /\ c = n /\ x = ids /\ y = ids2
        OBVIOUS
      <3>6. /\ AreRows(a, x) /\ c \notin x /\ c \in 1..MaxOps /\ y = x \cup {c}
            /\ AreRows(b, y) /\ \A i \in x : b[i] = a[i]
        BY <1>6, <3>1, <3>2, <3>3, <3>4, <3>5
      <3>7. NetOf(b, y, k) = NetOf(a, x, k) + Change(b[c], k)
        BY ONLY <3>6, NetMore
      <3>8. QED
        BY <1>2, <3>5, <3>7 DEF ids, ids2
    <2>5. ASSUME NEW g \in 0..(h - 1)
          PROVE  NetOf(reverts', Between(reverts', g, h), k)
                   = NetOf(reverts, Between(reverts, g, h), k)
      <3>1. ~(r.at <= h)
        BY <1>1, <1>3, <2>3
      <3>2. \A i \in 1..MaxOps :
               /\ i \in Between(reverts', g, h) <=> i \in Between(reverts, g, h)
               /\ i \in Between(reverts', g, h) => reverts'[i] = reverts[i]
        BY <1>2, <3>1 DEF Between
      <3>3. QED
        BY <3>2, NetSame
    <2>6. /\ NetOf(reverts, Between(reverts, h, height), k) \in Int
          /\ AmountOf(stakesAt[h].positions, k) \in Int
      <3>1. IsTable(stakesAt[h].positions)
        BY DEF TypeOK
      <3>2. QED
        BY <3>1, AmountNat, RowsBetween, TermsInt
    <2>7. AmountOf(positions', k) = AmountOf(positions, k) + Change(r, k)
      <3>1. CASE k = <<tick, u>>
        BY <1>4, <3>1
      <3>2. CASE k # <<tick, u>>
        BY <1>4, <2>2, <2>6, <3>2
      <3>3. QED
        BY <3>1, <3>2
    <2>8. Change(r, k) \in Int
      BY <1>4
    <2>9. QED
      BY <2>2, <2>4, <2>5, <2>6, <2>7, <2>8
  <1>8. QED
    BY <1>1, <1>2, <1>3, <1>5, <1>7

\* What a stake and an unstake have in common: d more in the position of u.
LEMMA StakeMoved ==
    ASSUME StakeInv, Scanning, NEW op \in {"stake", "unstake"}, NEW tick \in StakeTicks,
           NEW u \in Users, NEW amt \in Nat, NEW d \in Int,
           d = IF op = "stake" THEN amt ELSE -amt,
           op = "unstake" => <<tick, u>> \in DOMAIN positions,
           Differ(Stakes, [totals |-> totals', positions |-> positions'], tick, u, d),
           bal' \in Books, bal'[tick][Reserve[tick]] = bal[tick][Reserve[tick]] + d,
           \A t \in StakeTicks \ {tick} : bal'[t][Reserve[t]] = bal[t][Reserve[t]],
           Journal(op, tick, u, amt),
           UNCHANGED <<ended, height, forking, gifts, paid, stakesAt>>
    PROVE  StakeInv'
  <1> DEFINE R == [totals |-> totals', positions |-> positions']
             k == <<tick, u>>
  <1>1. /\ TypeOK /\ Backed /\ NeverPaidTwice /\ Recounted /\ BackedThen /\ Claimed
        /\ UNCHANGED <<forkTo, work, cursor, rewards>> /\ k \in Keys
    BY DEF StakeInv, forking, Journal, Keys
  <1>2. Stakes.totals = totals /\ Stakes.positions = positions
        /\ R.totals = totals' /\ R.positions = positions'
    BY DEF Stakes
  <1>3. IsTables(Stakes) /\ AddsUp(Stakes)
    <2>1. Stakes = [totals |-> Stakes.totals, positions |-> Stakes.positions]
      BY DEF Stakes
    <2>2. QED
      BY <1>1, <1>2, <2>1 DEF IsTables, AddsUp, Backed, TypeOK
  <1>4. Differ(Stakes, R, tick, u, d)
    OBVIOUS
  <1> HIDE DEF R
  <1>5. AddsUp(R)
    BY <1>3, <1>4, StillAddsUp
  <1>6. /\ totals' \in [StakeTicks -> Nat] /\ IsTable(positions')
        /\ totals'[tick] = totals[tick] + d
        /\ \A t \in StakeTicks \ {tick} : totals'[t] = totals[t]
        /\ DOMAIN positions' = DOMAIN positions \cup {k}
        /\ AmountOf(positions', k) = AmountOf(positions, k) + d
        /\ \A x \in Keys \ {k} : AmountOf(positions', x) = AmountOf(positions, x)
        /\ \A x \in DOMAIN positions : /\ positions'[x].reward = positions[x].reward
                                       /\ positions'[x].received = positions[x].received
        /\ \A x \in DOMAIN positions' \ DOMAIN positions :
              positions'[x].reward = 0 /\ positions'[x].received = 0
    BY <1>2, <1>4 DEF Differ, IsTables, Keys
  <1>7. /\ nextId' \in 1..(MaxOps + 1)
        /\ DOMAIN reverts' = DOMAIN reverts \cup {nextId}
        /\ DOMAIN reverts' \subseteq 1..(nextId' - 1)
        /\ \A i \in DOMAIN reverts : reverts'[i] = reverts[i]
        /\ \A i \in DOMAIN reverts' : reverts'[i] \in Reverts /\ reverts'[i].at <= height
        /\ reverts'[nextId].tick = tick /\ reverts'[nextId].holder = u
        /\ Recounted'
    <2> HIDE DEF k
    <2>1. /\ AmountOf(positions', <<tick, u>>) = AmountOf(positions, <<tick, u>>) + d
          /\ \A x \in Keys \ {<<tick, u>>} : AmountOf(positions', x) = AmountOf(positions, x)
      BY <1>6 DEF k
    <2>2. QED
      BY <1>1, <2>1, RevertAdded
  <1> HIDE DEF k
  <1>8. TypeOK'
    <2>1. nextId' = nextId + 1 /\ nextId \in Nat
      BY <1>1 DEF Journal, TypeOK
    <2>2. DOMAIN rewards' \subseteq 1..(nextId' - 1) /\ cursor' \in 0..nextId'
      BY <1>1, <2>1 DEF TypeOK
    <2>3. Scanning'
      BY <1>1 DEF Scanning
    <2>4. QED
      BY <1>1, <1>6, <1>7, <2>2, <2>3 DEF TypeOK
  <1>9. Backed'
    <2>1. SUFFICES ASSUME NEW t \in StakeTicks
                   PROVE  StakeOf(positions', t) = totals'[t] /\ totals'[t] <= bal'[t][Reserve[t]]
      BY DEF Backed
    <2>2. StakeOf(positions', t) = totals'[t]
      BY <1>2, <1>5 DEF AddsUp
    <2>3. totals[t] <= bal[t][Reserve[t]] /\ totals[t] \in Int /\ bal[t][Reserve[t]] \in Int
      <3>1. t \in Ticks /\ Reserve[t] \in Accounts
        BY StakeAssumption DEF Accounts
      <3>2. QED
        BY <1>1, <3>1 DEF Backed, TypeOK, Books
    <2>4. CASE t = tick
      BY <1>6, <2>2, <2>3, <2>4
    <2>5. CASE t # tick
      BY <1>6, <2>2, <2>3, <2>5
    <2>6. QED
      BY <2>4, <2>5
  <1>10. NeverPaidTwice'
    <2>1. SUFFICES ASSUME NEW x \in DOMAIN positions'
                   PROVE  paid[x] <= positions'[x].received
                          /\ positions'[x].received <= positions'[x].reward
      BY DEF NeverPaidTwice
    <2>2. CASE x \in DOMAIN positions
      BY <1>1, <1>6, <2>2 DEF NeverPaidTwice
    <2>3. CASE x \notin DOMAIN positions
      <3>1. x \in StakeTicks \X Users
        BY <1>6 DEF IsTable
      <3>2. paid[x] = 0
        BY <1>1, <2>3, <3>1 DEF Claimed
      <3>3. QED
        BY <1>6, <2>3, <3>2
    <2>4. QED
      BY <2>2, <2>3
  <1>11. BackedThen' /\ HalfUndone'
    BY <1>1, BackedThenKept DEF HalfUndone, Scanning
  <1>12. Claimed'
    <2>1. \A i \in DOMAIN reverts' : <<reverts'[i].tick, reverts'[i].holder>> \in DOMAIN positions'
      BY <1>1, <1>6, <1>7 DEF Claimed, k
    <2>2. \A x \in (StakeTicks \X Users) \ DOMAIN positions' : paid'[x] = 0
      BY <1>1, <1>6 DEF Claimed
    <2>3. \A h \in DOMAIN stakesAt', x \in StakeTicks \X Users :
             /\ stakesAt'[h].paid[x] <= paid'[x]
             /\ \A g \in 0..(h - 1) : stakesAt'[g].paid[x] <= stakesAt'[h].paid[x]
      BY <1>1 DEF Claimed
    <2>4. \A i \in DOMAIN rewards' :
             LET x == <<rewards'[i].tick, rewards'[i].holder>> IN
             /\ x \in DOMAIN positions'
             /\ rewards'[i].amt <= positions'[x].reward
             /\ \A h \in DOMAIN stakesAt' :
                   rewards'[i].at > h =>
                      stakesAt'[h].paid[x] <= positions'[x].reward - rewards'[i].amt
      BY <1>1, <1>6 DEF Claimed
    <2>5. QED
      BY <2>1, <2>2, <2>3, <2>4 DEF Claimed
  <1>13. QED
    BY <1>7, <1>8, <1>9, <1>10, <1>11, <1>12 DEF StakeInv

LEMMA StakeStep ==
    ASSUME StakeInv, NEW tick \in StakeTicks, NEW u \in Users, NEW amt \in Amounts,
           Stake(tick, u, amt)
    PROVE  StakeInv'
  <1> DEFINE t == StakeStakeV1(Stakes, tick, u, amt)
  <1>1. /\ Scanning /\ CanMove(bal, tick, u, Reserve[tick], amt)
        /\ bal' = Move(bal, tick, u, Reserve[tick], amt)
        /\ totals' = t.totals /\ positions' = t.positions
        /\ Journal("stake", tick, u, amt)
        /\ UNCHANGED <<ended, height, forking, gifts, paid, stakesAt>>
    BY DEF Stake
  <1>2. amt \in Nat /\ bal \in Books
    BY StakeAssumption DEF StakeInv, TypeOK
  <1>3. IsTables(Stakes)
    BY DEF StakeInv, TypeOK, Stakes, IsTables
  <1>4. Differ(Stakes, t, tick, u, amt)
    BY <1>2, <1>3, StakeDiffers
  <1>5. t = [totals |-> totals', positions |-> positions']
    BY <1>1 DEF StakeStakeV1
  <1> HIDE DEF t
  <1>6. bal' \in Books
    BY <1>1, <1>2, Addresses, MoveType
  <1>7. bal'[tick][Reserve[tick]] = bal[tick][Reserve[tick]] + amt
    BY <1>1, <1>2, Addresses, MoveValue
  <1>8. \A s \in StakeTicks \ {tick} : bal'[s][Reserve[s]] = bal[s][Reserve[s]]
    BY <1>1, <1>2, Addresses, MoveValue
  <1>9. QED
    BY <1>1, <1>2, <1>4, <1>5, <1>6, <1>7, <1>8, StakeMoved

LEMMA UnStakeStep ==
    ASSUME StakeInv, NEW tick \in StakeTicks, NEW u \in Users, NEW amt \in Amounts,
           UnStake(tick, u, amt)
    PROVE  StakeInv'
  <1> DEFINE t == StakeUnStakeV1(Stakes, tick, u, amt)
  <1>1. /\ Scanning /\ CanMove(bal, tick, Reserve[tick], u, amt)
        /\ CanUnStake(Stakes, tick, u, amt)
        /\ bal' = Move(bal, tick, Reserve[tick], u, amt)
        /\ totals' = t.totals /\ positions' = t.positions
        /\ Journal("unstake", tick, u, amt)
        /\ UNCHANGED <<ended, height, forking, gifts, paid, stakesAt>>
    BY DEF UnStake
  <1>2. amt \in Nat /\ bal \in Books
    BY StakeAssumption DEF StakeInv, TypeOK
  <1>3. IsTables(Stakes)
    BY DEF StakeInv, TypeOK, Stakes, IsTables
  <1>4. Differ(Stakes, t, tick, u, -amt)
    BY <1>1, <1>2, <1>3, UnStakeDiffers
  <1>5. t = [totals |-> totals', positions |-> positions']
    BY <1>1 DEF StakeUnStakeV1
  <1> HIDE DEF t
  <1>6. bal' \in Books
    BY <1>1, <1>2, Addresses, MoveType
  <1>7. bal'[tick][Reserve[tick]] = bal[tick][Reserve[tick]] - amt
    BY <1>1, <1>2, Addresses, MoveValue
  <1>8. \A s \in StakeTicks \ {tick} : bal'[s][Reserve[s]] = bal[s][Reserve[s]]
    BY <1>1, <1>2, Addresses, MoveValue
  <1>9. <<tick, u>> \in DOMAIN positions
    BY <1>1 DEF CanUnStake, Stakes
  <1>10. bal[tick][Reserve[tick]] \in Int
    BY <1>2, Addresses DEF Books
  <1>11. bal'[tick][Reserve[tick]] = bal[tick][Reserve[tick]] + (-amt) /\ -amt \in Int
    BY <1>2, <1>7, <1>10
  <1>12. QED
    BY <1>1, <1>2, <1>4, <1>5, <1>6, <1>8, <1>9, <1>11, StakeMoved

-----------------------------------------------------------------------------
(* Rewards and transfers *)

\* The tables change in rewards, received and balances only.
LEMMA AmountsStay ==
    ASSUME Backed, UNCHANGED totals, positions' \in [DOMAIN positions -> Positions],
           \A k \in DOMAIN positions : positions'[k].amt = positions[k].amt,
           \A t \in StakeTicks : totals[t] <= bal'[t][Reserve[t]]
    PROVE  /\ \A k : AmountOf(positions', k) = AmountOf(positions, k)
           /\ Backed'
  <1>1. \A k : AmountOf(positions', k) = AmountOf(positions, k)
    BY DEF AmountOf
  <1>2. \A t \in StakeTicks : StakeOf(positions', t) = StakeOf(positions, t)
    BY <1>1, StakeOfSame
  <1>3. QED
    BY <1>1, <1>2 DEF Backed

\* Every amount that is given is a number.
LEMMA GivesNat ==
    ASSUME NEW tick \in StakeTicks, NEW owed \in Nat, bal \in Books, Divides(tick)
    PROVE  /\ DOMAIN Gives(tick, owed) \subseteq Ticks
           /\ \A t \in DOMAIN Gives(tick, owed) : Gives(tick, owed)[t] \in Nat
  <1>1. CASE tick = LpWdoge
    BY <1>1, StakeAssumption DEF Gives
  <1>2. CASE tick # LpWdoge
    <2>1. UNIX \in Ticks /\ Pool \in Accounts
      BY StakeAssumption DEF Accounts
    <2>2. Gives(tick, owed) = [t \in Others \cup {UNIX} |->
            IF t = UNIX THEN owed ELSE (bal[t][Pool] * owed) \div bal[UNIX][Pool]]
      BY <1>2 DEF Gives
    <2>3. ASSUME NEW t \in Others
          PROVE  (bal[t][Pool] * owed) \div bal[UNIX][Pool] \in Nat
      <3>1. bal[UNIX][Pool] # 0 /\ t \in Ticks
        BY <1>2, <2>3 DEF Divides, Others
      <3>2. bal[UNIX][Pool] \in Nat \ {0} /\ bal[t][Pool] \in Nat
        BY <2>1, <3>1 DEF Books
      <3>3. PICK a, d : a = bal[t][Pool] * owed /\ d = bal[UNIX][Pool]
        OBVIOUS
      <3>4. a \in Nat /\ d \in Nat \ {0}
        BY <3>2, <3>3
      <3>5. a \div d \in Nat
        BY ONLY <3>4, DivFacts
      <3>6. QED
        BY <3>3, <3>5
    <2>4. QED
      BY <2>1, <2>2, <2>3 DEF Others
  <1>3. QED
    BY <1>1, <1>2

LEMMA GetAllRewardStep ==
    ASSUME StakeInv, NEW tick \in StakeTicks, NEW u \in Users, GetAllReward(tick, u)
    PROVE  StakeInv'
  <1> DEFINE k == <<tick, u>>
             p == positions[k]
             gives == Gives(tick, Owed(p))
             r == [tick |-> tick, holder |-> u, amt |-> Recorded(p), at |-> height]
             n == nextId
  <1>1. /\ TypeOK /\ Backed /\ NeverPaidTwice /\ Recounted /\ BackedThen /\ Claimed
    BY DEF StakeInv
  <1>2. /\ Scanning /\ n <= MaxOps /\ k \in DOMAIN positions /\ Divides(tick)
        /\ \A t \in DOMAIN gives : CanMove(bal, t, Pool, u, gives[t])
        /\ bal' = [t \in Ticks |-> IF t \in DOMAIN gives
                                   THEN Move(bal, t, Pool, u, gives[t])[t] ELSE bal[t]]
        /\ positions' = [positions EXCEPT ![k].received = p.reward]
        /\ rewards' = [i \in DOMAIN rewards \cup {n} |-> IF i # n THEN rewards[i] ELSE r]
        /\ nextId' = n + 1
        /\ paid' = [paid EXCEPT ![k] = @ + Owed(p)]
        /\ UNCHANGED <<ended, height, totals, reverts, gifts, stakesAt>>
        /\ UNCHANGED <<forkTo, work, cursor>>
    BY DEF GetAllReward, forking
  <1>3. /\ p \in Positions /\ k \in Keys /\ positions \in [DOMAIN positions -> Positions]
        /\ DOMAIN positions \subseteq Keys
    BY <1>1, <1>2 DEF TypeOK, IsTable, Keys
  <1>4. /\ p.reward \in Nat /\ p.received \in Nat /\ paid[k] \in Nat
        /\ paid[k] <= p.received /\ p.received <= p.reward
    <2>1. p.reward \in Nat /\ p.received \in Nat
      BY <1>3 DEF Positions
    <2>2. paid[k] \in Nat
      BY <1>1 DEF TypeOK
    <2>3. QED
      BY <1>1, <1>2, <2>1, <2>2 DEF NeverPaidTwice
  <1>5. Owed(p) \in Nat /\ Owed(p) = p.reward - p.received
    BY <1>4 DEF Owed
  <1>6. /\ r.amt \in Nat /\ r.amt <= p.reward
        /\ paid[k] <= p.reward - r.amt
        /\ r.at = height /\ r.tick = tick /\ r.holder = u
    BY <1>4 DEF Recorded
  <1>7. r \in RewardReverts
    BY <1>1, <1>6 DEF RewardReverts, TypeOK
  <1>8. bal' \in Books /\ \A t \in StakeTicks : bal'[t][Reserve[t]] = bal[t][Reserve[t]]
    <2>1. bal \in Books
      BY <1>1 DEF TypeOK
    <2>2. \A t \in DOMAIN gives : t \in Ticks /\ gives[t] \in Int
      BY <1>2, <1>5, <2>1, GivesNat
    <2> HIDE DEF gives, p
    <2>3. ASSUME NEW t \in Ticks
          PROVE  /\ bal'[t] \in [Accounts -> Nat]
                 /\ t \in StakeTicks => bal'[t][Reserve[t]] = bal[t][Reserve[t]]
      <3>1. CASE t \in DOMAIN gives
        <4> DEFINE b == Move(bal, t, Pool, u, gives[t])
        <4>1. CanMove(bal, t, Pool, u, gives[t]) /\ gives[t] \in Int
          BY <1>2, <2>2, <3>1
        <4>2. b \in Books
          BY <2>1, <4>1, Addresses, MoveType
        <4>3. t \in StakeTicks => b[t][Reserve[t]] = bal[t][Reserve[t]]
          BY <2>1, <4>1, Addresses, MoveValue
        <4>4. bal'[t] = b[t]
          BY <1>2, <3>1
        <4> HIDE DEF b
        <4>5. QED
          BY <4>2, <4>3, <4>4 DEF Books
      <3>2. CASE t \notin DOMAIN gives
        BY <1>2, <2>1, <3>2 DEF Books
      <3>3. QED
        BY <3>1, <3>2
    <2>4. bal' = [t \in Ticks |-> bal'[t]]
      BY <1>2
    <2>5. bal' \in Books
      BY <2>3, <2>4 DEF Books
    <2>6. QED
      BY <2>3, <2>5, StakeAssumption
  <1>9. /\ positions' \in [DOMAIN positions -> Positions]
        /\ \A x \in DOMAIN positions \ {k} : positions'[x] = positions[x]
        /\ positions'[k].amt = p.amt /\ positions'[k].reward = p.reward
        /\ positions'[k].received = p.reward
    <2>1. /\ DOMAIN positions' = DOMAIN positions
          /\ \A x \in DOMAIN positions \ {k} : positions'[x] = positions[x]
          /\ positions'[k] = [p EXCEPT !.received = p.reward]
      BY <1>2, <1>3
    <2>2. /\ positions'[k] \in Positions /\ positions'[k].amt = p.amt
          /\ positions'[k].reward = p.reward /\ positions'[k].received = p.reward
      BY <1>3, <2>1 DEF Positions
    <2>3. \A x \in DOMAIN positions : positions'[x] \in Positions
      BY <1>3, <2>1, <2>2
    <2>4. positions' = [x \in DOMAIN positions |-> positions'[x]]
      BY <1>2, <1>3
    <2>5. QED
      BY <2>1, <2>2, <2>3, <2>4
  <1>10. /\ DOMAIN rewards' = DOMAIN rewards \cup {n} /\ rewards'[n] = r
         /\ \A i \in DOMAIN rewards : rewards'[i] = rewards[i]
    <2>1. n \notin DOMAIN rewards
      BY <1>1 DEF TypeOK
    <2>2. QED
      BY <1>2, <2>1
  <1>11. /\ paid' \in [Keys -> Nat] /\ paid'[k] = paid[k] + (p.reward - p.received)
         /\ \A x \in Keys \ {k} : paid'[x] = paid[x]
         /\ \A x \in Keys : paid[x] \in Nat /\ paid[x] <= paid'[x]
    <2>1. paid \in [Keys -> Nat]
      BY <1>1 DEF TypeOK, Keys
    <2>2. /\ paid' \in [Keys -> Nat] /\ paid'[k] = paid[k] + (p.reward - p.received)
          /\ \A x \in Keys \ {k} : paid'[x] = paid[x]
      BY <1>2, <1>3, <1>5, <2>1
    <2>3. paid[k] <= paid'[k]
      BY <1>4, <2>2
    <2>4. \A x \in Keys : paid[x] \in Nat
      BY <2>1
    <2> HIDE DEF k
    <2>5. \A x \in Keys : paid[x] <= paid'[x]
      BY <2>2, <2>3, <2>4
    <2>6. QED
      BY <2>2, <2>4, <2>5
  <1> HIDE DEF r, p, gives
  <1>12. DOMAIN positions' = DOMAIN positions
         /\ \A x \in DOMAIN positions : /\ positions'[x].amt = positions[x].amt
                                        /\ positions'[x].reward = positions[x].reward
    BY <1>9 DEF p
  <1>13. Backed' /\ \A x : AmountOf(positions', x) = AmountOf(positions, x)
    <2>1. \A t \in StakeTicks : totals[t] <= bal'[t][Reserve[t]]
      BY <1>1, <1>8 DEF Backed
    <2>2. QED
      BY <1>1, <1>2, <1>9, <1>12, <2>1, AmountsStay
  <1>14. TypeOK'
    <2>1. nextId' \in 1..(MaxOps + 1) /\ nextId \in Nat /\ nextId' = nextId + 1
      BY <1>1, <1>2, OpsFinite DEF TypeOK
    <2>2. /\ DOMAIN reverts' \subseteq 1..(nextId' - 1) /\ DOMAIN rewards' \subseteq 1..(nextId' - 1)
          /\ cursor' \in 0..nextId'
      BY <1>1, <1>2, <1>10, <2>1 DEF TypeOK
    <2>3. \A i \in DOMAIN rewards' : rewards'[i] \in RewardReverts /\ rewards'[i].at <= height'
      <3>1. height \in Nat
        BY <1>1 DEF TypeOK
      <3>2. r.at <= height
        BY <1>6, <3>1 DEF r
      <3>3. QED
        BY <1>1, <1>2, <1>7, <1>10, <3>2 DEF TypeOK
    <2>4. IsTable(positions') /\ Scanning'
      BY <1>2, <1>3, <1>9, <1>12 DEF IsTable, Keys, Scanning
    <2>5. QED
      BY <1>1, <1>2, <1>8, <1>11, <2>1, <2>2, <2>3, <2>4 DEF TypeOK, Keys
  <1>15. NeverPaidTwice'
    <2>1. SUFFICES ASSUME NEW x \in DOMAIN positions
                   PROVE  paid'[x] <= positions'[x].received
                          /\ positions'[x].received <= positions'[x].reward
      BY <1>12 DEF NeverPaidTwice
    <2>2. CASE x = k
      <3>1. paid'[k] <= positions'[k].received
        BY <1>4, <1>9, <1>11
      <3>2. QED
        BY <1>4, <1>9, <2>2, <3>1
    <2>3. CASE x # k
      BY <1>1, <1>3, <1>9, <1>11, <2>3 DEF NeverPaidTwice
    <2>4. QED
      BY <2>2, <2>3
  <1>16. Recounted' /\ BackedThen' /\ HalfUndone'
    BY <1>1, <1>2, <1>13, RecountedKept, BackedThenKept DEF HalfUndone, Scanning
  <1>17. Claimed'
    <2>1. \A i \in DOMAIN reverts' : <<reverts'[i].tick, reverts'[i].holder>> \in DOMAIN positions'
      BY <1>1, <1>2, <1>12 DEF Claimed
    <2>2. \A x \in (StakeTicks \X Users) \ DOMAIN positions' : paid'[x] = 0
      BY <1>1, <1>2, <1>11, <1>12 DEF Claimed, Keys
    <2>3. \A h \in DOMAIN stakesAt', x \in StakeTicks \X Users :
             /\ stakesAt'[h].paid[x] <= paid'[x]
             /\ \A g \in 0..(h - 1) : stakesAt'[g].paid[x] <= stakesAt'[h].paid[x]
      <3>1. ASSUME NEW h \in DOMAIN stakesAt, NEW x \in Keys
            PROVE  stakesAt[h].paid[x] <= paid'[x]
        <4>1. stakesAt[h].paid[x] \in Nat /\ stakesAt[h].paid[x] <= paid[x]
          BY <1>1 DEF TypeOK, Claimed, Keys
        <4>2. paid[x] \in Nat /\ paid'[x] \in Nat /\ paid[x] <= paid'[x]
          BY <1>11
        <4>3. QED
          BY <4>1, <4>2
      <3>2. QED
        BY <1>1, <1>2, <3>1 DEF Claimed, Keys
    <2>4. ASSUME NEW i \in DOMAIN rewards'
          PROVE  LET x == <<rewards'[i].tick, rewards'[i].holder>> IN
                 /\ x \in DOMAIN positions'
                 /\ rewards'[i].amt <= positions'[x].reward
                 /\ \A h \in DOMAIN stakesAt' :
                       rewards'[i].at > h =>
                          stakesAt'[h].paid[x] <= positions'[x].reward - rewards'[i].amt
      <3>1. CASE i \in DOMAIN rewards
        <4>1. rewards'[i] = rewards[i]
          BY <1>10, <3>1
        <4>2. QED
          BY <1>1, <1>2, <1>12, <3>1, <4>1 DEF Claimed
      <3>2. CASE i = n
        <4>1. <<rewards'[i].tick, rewards'[i].holder>> = k /\ rewards'[i] = r
          BY <1>6, <1>10, <3>2
        <4>2. ASSUME NEW h \in DOMAIN stakesAt PROVE stakesAt[h].paid[k] <= p.reward - r.amt
          <5>1. stakesAt[h].paid[k] \in Nat /\ stakesAt[h].paid[k] <= paid[k]
            BY <1>1, <1>3 DEF TypeOK, Claimed, Keys
          <5>2. QED
            BY <1>4, <1>6, <5>1
        <4>3. QED
          BY <1>2, <1>6, <1>9, <1>12, <4>1, <4>2
      <3>3. QED
        BY <1>10, <3>1, <3>2
    <2>5. QED
      BY <2>1, <2>2, <2>3, <2>4 DEF Claimed
  <1>18. QED
    BY <1>13, <1>14, <1>15, <1>16, <1>17 DEF StakeInv

LEMMA AccrueStep ==
    ASSUME StakeInv, NEW k \in Keys, NEW a \in Accruals, Accrue(k, a)
    PROVE  StakeInv'
  <1> DEFINE p == positions[k]
  <1>1. /\ TypeOK /\ Backed /\ NeverPaidTwice /\ Recounted /\ BackedThen /\ Claimed
    BY DEF StakeInv
  <1>2. /\ Scanning /\ k \in DOMAIN positions /\ a \in Nat
        /\ positions' = [positions EXCEPT ![k].reward = @ + a]
        /\ UNCHANGED <<bal, ended, height, totals, reverts, rewards, nextId,
                       forkTo, work, cursor, gifts, paid, stakesAt>>
    BY StakeAssumption DEF Accrue, forking, journals
  <1>3. /\ p \in Positions /\ positions \in [DOMAIN positions -> Positions]
        /\ DOMAIN positions \subseteq Keys
    BY <1>1, <1>2 DEF TypeOK, IsTable, Keys
  <1>4. /\ DOMAIN positions' = DOMAIN positions
        /\ \A x \in DOMAIN positions \ {k} : positions'[x] = positions[x]
        /\ positions'[k] = [p EXCEPT !.reward = @ + a]
    BY <1>2, <1>3
  <1>5. /\ positions'[k] \in Positions /\ positions'[k].amt = p.amt
        /\ positions'[k].reward = p.reward + a /\ positions'[k].received = p.received
        /\ p.reward \in Nat /\ p.received \in Nat
    BY <1>2, <1>3, <1>4 DEF Positions
  <1>6. positions' \in [DOMAIN positions -> Positions]
    <2>1. \A x \in DOMAIN positions : positions'[x] \in Positions
      BY <1>3, <1>4, <1>5
    <2>2. positions' = [x \in DOMAIN positions |-> positions'[x]]
      BY <1>2, <1>3
    <2>3. QED
      BY <2>1, <2>2
  <1> HIDE DEF p
  <1>7. \A x \in DOMAIN positions :
           /\ positions'[x].amt = positions[x].amt
           /\ positions'[x].received = positions[x].received
           /\ positions[x].reward \in Nat /\ positions'[x].reward \in Nat
           /\ positions[x].reward <= positions'[x].reward
           /\ positions[x].received \in Nat
    <2>1. \A x \in DOMAIN positions : positions[x].reward \in Nat /\ positions[x].received \in Nat
      BY <1>3 DEF Positions
    <2>2. positions[k].reward <= positions'[k].reward /\ positions'[k].reward \in Nat
      BY <1>2, <1>5 DEF p
    <2>3. positions'[k].amt = positions[k].amt /\ positions'[k].received = positions[k].received
      BY <1>5 DEF p
    <2>4. ASSUME NEW x \in DOMAIN positions
          PROVE  /\ positions'[x].amt = positions[x].amt
                 /\ positions'[x].received = positions[x].received
                 /\ positions'[x].reward \in Nat
                 /\ positions[x].reward <= positions'[x].reward
      <3>1. CASE x = k
        BY <2>2, <2>3, <3>1
      <3>2. CASE x # k
        <4>1. positions'[x] = positions[x] /\ positions[x].reward \in Nat
          BY <1>4, <2>1, <3>2
        <4>2. QED
          BY <4>1
      <3>3. QED
        BY <3>1, <3>2
    <2>5. QED
      BY <2>1, <2>4
  <1>8. Backed' /\ \A x : AmountOf(positions', x) = AmountOf(positions, x)
    <2>1. \A t \in StakeTicks : totals[t] <= bal'[t][Reserve[t]]
      BY <1>1, <1>2 DEF Backed
    <2>2. QED
      BY <1>1, <1>2, <1>6, <1>7, <2>1, AmountsStay
  <1>9. TypeOK'
    BY <1>1, <1>2, <1>3, <1>4, <1>6 DEF TypeOK, Keys, IsTable, Scanning
  <1>10. NeverPaidTwice'
    <2>1. SUFFICES ASSUME NEW x \in DOMAIN positions
                   PROVE  paid[x] <= positions'[x].received
                          /\ positions'[x].received <= positions'[x].reward
      BY <1>2, <1>4 DEF NeverPaidTwice
    <2>2. paid[x] <= positions[x].received /\ positions[x].received <= positions[x].reward
      BY <1>1 DEF NeverPaidTwice
    <2>3. QED
      BY <1>7, <2>2
  <1>11. Recounted' /\ BackedThen' /\ HalfUndone'
    BY <1>1, <1>2, <1>8, RecountedKept, BackedThenKept DEF HalfUndone, Scanning
  <1>12. Claimed'
    <2>1. ASSUME NEW i \in DOMAIN rewards
          PROVE  LET x == <<rewards[i].tick, rewards[i].holder>> IN
                 /\ x \in DOMAIN positions'
                 /\ rewards[i].amt <= positions'[x].reward
                 /\ \A h \in DOMAIN stakesAt :
                       rewards[i].at > h =>
                          stakesAt[h].paid[x] <= positions'[x].reward - rewards[i].amt
      <3> DEFINE x == <<rewards[i].tick, rewards[i].holder>>
      <3>1. /\ x \in DOMAIN positions /\ rewards[i].amt <= positions[x].reward
            /\ \A h \in DOMAIN stakesAt :
                  rewards[i].at > h =>
                     stakesAt[h].paid[x] <= positions[x].reward - rewards[i].amt
        BY <1>1 DEF Claimed
      <3>2. rewards[i].amt \in Nat
        BY <1>1 DEF TypeOK, RewardReverts
      <3> HIDE DEF x
      <3>3. /\ positions[x].reward \in Nat /\ positions'[x].reward \in Nat
            /\ positions[x].reward <= positions'[x].reward
        BY <1>7, <3>1
      <3>4. \A h \in DOMAIN stakesAt : stakesAt[h].paid[x] \in Nat
        BY <1>1, <1>3, <3>1 DEF TypeOK, Keys
      <3>5. rewards[i].amt <= positions'[x].reward
        BY <3>1, <3>2, <3>3
      <3>6. \A h \in DOMAIN stakesAt :
               rewards[i].at > h => stakesAt[h].paid[x] <= positions'[x].reward - rewards[i].amt
        BY <3>1, <3>2, <3>3, <3>4
      <3>7. QED
        BY <1>4, <3>1, <3>5, <3>6 DEF x
    <2>2. \A i \in DOMAIN reverts' : <<reverts'[i].tick, reverts'[i].holder>> \in DOMAIN positions'
      BY <1>1, <1>2, <1>4 DEF Claimed
    <2>3. \A x \in (StakeTicks \X Users) \ DOMAIN positions' : paid'[x] = 0
      BY <1>1, <1>2, <1>4 DEF Claimed
    <2>4. \A h \in DOMAIN stakesAt', x \in StakeTicks \X Users :
             /\ stakesAt'[h].paid[x] <= paid'[x]
             /\ \A g \in 0..(h - 1) : stakesAt'[g].paid[x] <= stakesAt'[h].paid[x]
      BY <1>1, <1>2 DEF Claimed
    <2>5. QED
      BY <1>2, <2>1, <2>2, <2>3, <2>4 DEF Claimed
  <1>13. QED
    BY <1>8, <1>9, <1>10, <1>11, <1>12 DEF StakeInv

LEMMA TransferStep ==
    ASSUME StakeInv, NEW t \in Ticks, NEW from \in Users, NEW to \in Accounts,
           NEW amt \in Amounts, Transfer(t, from, to, amt)
    PROVE  StakeInv'
  <1>1. /\ TypeOK /\ Backed /\ NeverPaidTwice /\ Recounted /\ BackedThen /\ Claimed
    BY DEF StakeInv
  <1>2. /\ Scanning /\ amt \in Nat /\ from \in Accounts /\ bal \in Books
        /\ CanMove(bal, t, from, to, amt) /\ bal' = Move(bal, t, from, to, amt)
        /\ UNCHANGED <<ended, height, totals, positions, reverts, rewards, nextId,
                       forkTo, work, cursor, paid, stakesAt>>
    BY <1>1, StakeAssumption DEF Transfer, forking, journals, Accounts, TypeOK
  <1>3. bal' \in Books
    BY <1>2, MoveType
  <1>4. ASSUME NEW s \in StakeTicks PROVE totals[s] <= bal'[s][Reserve[s]]
    <2>1. s \in Ticks /\ Reserve[s] \in Accounts /\ from # Reserve[s]
      BY Addresses
    <2>2. bal'[s][Reserve[s]] = IF s = t /\ Reserve[s] = to THEN bal[s][Reserve[s]] + amt
                                ELSE bal[s][Reserve[s]]
      BY <1>2, <2>1, MoveValue
    <2>3. bal[s][Reserve[s]] \in Nat /\ totals[s] \in Nat
      BY <1>1, <1>2, <2>1 DEF Books, TypeOK
    <2>4. totals[s] <= bal[s][Reserve[s]]
      BY <1>1 DEF Backed
    <2>5. QED
      BY <1>2, <2>2, <2>3, <2>4
  <1>5. TypeOK'
    BY <1>1, <1>2, <1>3 DEF TypeOK, Scanning
  <1>6. Backed'
    BY <1>1, <1>2, <1>4 DEF Backed
  <1>7. NeverPaidTwice' /\ Claimed'
    BY <1>1, <1>2 DEF NeverPaidTwice, Claimed
  <1>8. Recounted' /\ BackedThen' /\ HalfUndone'
    BY <1>1, <1>2, RecountedKept, BackedThenKept DEF HalfUndone, Scanning
  <1>9. QED
    BY <1>5, <1>6, <1>7, <1>8 DEF StakeInv

LEMMA NextBlockStep ==
    ASSUME StakeInv, NextBlock
    PROVE  StakeInv'
  <1>1. /\ TypeOK /\ Backed /\ NeverPaidTwice /\ Recounted /\ BackedThen /\ Claimed
    BY DEF StakeInv
  <1>2. /\ Scanning /\ height' = height + 1
        /\ ended' = [h \in 0..height |-> IF h = height THEN bal ELSE ended[h]]
        /\ stakesAt' = [h \in 0..height |->
                      IF h = height
                      THEN [totals |-> totals, positions |-> positions, paid |-> paid]
                      ELSE stakesAt[h]]
        /\ UNCHANGED <<bal, totals, positions, reverts, rewards, nextId,
                       forkTo, work, cursor, gifts, paid>>
    BY DEF NextBlock, Ledger!EndBlock, forking, journals
  <1>3. /\ height \in Nat /\ DOMAIN stakesAt = 0..(height - 1) /\ DOMAIN ended = 0..(height - 1)
    BY <1>1 DEF TypeOK
  <1>4. /\ DOMAIN stakesAt' = 0..height /\ DOMAIN ended' = 0..height
        /\ \A h \in 0..height : h \in DOMAIN stakesAt \/ h = height
        /\ \A h \in DOMAIN stakesAt : /\ stakesAt'[h] = stakesAt[h] /\ ended'[h] = ended[h]
                                      /\ h \in 0..height /\ h # height
        /\ stakesAt'[height].totals = totals /\ stakesAt'[height].positions = positions
        /\ stakesAt'[height].paid = paid /\ ended'[height] = bal
    BY <1>2, <1>3
  <1>5. TypeOK'
    <2>1. height' \in Nat /\ 0..(height' - 1) = 0..height
      BY <1>2, <1>3
    <2>2. \A h \in DOMAIN ended' :
             /\ ended'[h] \in Books
             /\ stakesAt'[h].totals \in [StakeTicks -> Nat]
             /\ IsTable(stakesAt'[h].positions)
             /\ stakesAt'[h].paid \in [StakeTicks \X Users -> Nat]
      BY <1>1, <1>3, <1>4 DEF TypeOK
    <2>3. /\ \A i \in DOMAIN reverts : reverts[i] \in Reverts /\ reverts[i].at <= height + 1
          /\ \A i \in DOMAIN rewards : rewards[i] \in RewardReverts /\ rewards[i].at <= height + 1
      <3>1. \A i \in DOMAIN reverts : reverts[i].at \in Nat
        BY <1>1 DEF TypeOK, Reverts
      <3>2. \A i \in DOMAIN rewards : rewards[i].at \in Nat
        BY <1>1 DEF TypeOK, RewardReverts
      <3>3. QED
        BY <1>1, <1>3, <3>1, <3>2 DEF TypeOK
    <2>4. forkTo' = None /\ Scanning'
      BY <1>2 DEF Scanning
    <2>5. QED
      BY <1>1, <1>2, <1>4, <2>1, <2>2, <2>3, <2>4 DEF TypeOK
  <1>6. Backed' /\ NeverPaidTwice' /\ HalfUndone'
    BY <1>1, <1>2 DEF Backed, NeverPaidTwice, HalfUndone, Scanning
  <1>7. Recounted'
    <2>1. \A i \in DOMAIN reverts : reverts[i].at \in Nat /\ reverts[i].at <= height
      BY <1>1 DEF TypeOK, Reverts
    <2>2. \A g \in 0..height : Between(reverts, g, height + 1) = Between(reverts, g, height)
      BY <1>3, <2>1 DEF Between
    <2>3. Between(reverts, height, height + 1) = {}
      BY <1>3, <2>1 DEF Between
    <2>4. ASSUME NEW h \in 0..height, NEW k \in Keys
          PROVE  /\ AmountOf(positions, k) = AmountOf(stakesAt'[h].positions, k)
                      + NetOf(reverts, Between(reverts, h, height + 1), k)
                 /\ \A g \in 0..(h - 1) :
                       AmountOf(stakesAt'[h].positions, k) =
                         AmountOf(stakesAt'[g].positions, k)
                           + NetOf(reverts, Between(reverts, g, h), k)
      <3>1. CASE h = height
        <4>1. AmountOf(positions, k) \in Nat
          BY <1>1, AmountNat DEF TypeOK
        <4>2. NetOf(reverts, Between(reverts, h, height + 1), k) = 0
          BY <2>3, <3>1, NetNone
        <4>3. \A g \in 0..(h - 1) : g \in DOMAIN stakesAt /\ stakesAt'[g] = stakesAt[g]
          BY <1>3, <1>4, <3>1
        <4>4. \A g \in 0..(h - 1) : AmountOf(positions, k) =
                 AmountOf(stakesAt[g].positions, k) + NetOf(reverts, Between(reverts, g, height), k)
          BY <1>1, <4>3 DEF Recounted, Keys
        <4>5. QED
          BY <1>4, <3>1, <4>1, <4>2, <4>3, <4>4
      <3>2. CASE h \in DOMAIN stakesAt
        <4>1. \A g \in 0..(h - 1) : g \in DOMAIN stakesAt
          BY <1>3, <3>2
        <4>2. QED
          BY <1>1, <1>4, <2>2, <3>2, <4>1 DEF Recounted, Keys
      <3>3. QED
        BY <1>4, <3>1, <3>2
    <2>5. /\ height' = height + 1 /\ DOMAIN stakesAt' = 0..height
          /\ reverts' = reverts /\ positions' = positions
      BY <1>2, <1>4
    <2>6. QED
      BY <2>4, <2>5 DEF Recounted, Keys
  <1>8. BackedThen'
    BY <1>1, <1>4 DEF BackedThen, Backed
  <1>9. Claimed'
    <2>1. \A k \in Keys : paid[k] \in Nat
      BY <1>1 DEF TypeOK, Keys
    <2>2. \A h \in 0..height, k \in Keys :
             /\ stakesAt'[h].paid[k] <= paid[k]
             /\ \A g \in 0..(h - 1) : stakesAt'[g].paid[k] <= stakesAt'[h].paid[k]
      <3>1. ASSUME NEW h \in 0..height, NEW k \in Keys
            PROVE  /\ stakesAt'[h].paid[k] <= paid[k]
                   /\ \A g \in 0..(h - 1) : stakesAt'[g].paid[k] <= stakesAt'[h].paid[k]
        <4>1. \A g \in 0..(h - 1) : g \in DOMAIN stakesAt
          BY <1>3
        <4>2. CASE h = height
          BY <1>1, <1>4, <2>1, <4>1, <4>2 DEF Claimed, Keys
        <4>3. CASE h \in DOMAIN stakesAt
          BY <1>1, <1>4, <4>1, <4>3 DEF Claimed, Keys
        <4>4. QED
          BY <1>4, <4>2, <4>3
      <3>2. QED
        BY <3>1
    <2>3. ASSUME NEW i \in DOMAIN rewards
          PROVE  LET x == <<rewards[i].tick, rewards[i].holder>> IN
                 /\ x \in DOMAIN positions
                 /\ rewards[i].amt <= positions[x].reward
                 /\ \A h \in 0..height :
                       rewards[i].at > h =>
                          stakesAt'[h].paid[x] <= positions[x].reward - rewards[i].amt
      <3>1. rewards[i].at \in Nat /\ rewards[i].at <= height
        BY <1>1 DEF TypeOK, RewardReverts
      <3>2. \A h \in 0..height : rewards[i].at > h => h \in DOMAIN stakesAt
        BY <1>3, <3>1
      <3>3. QED
        BY <1>1, <1>4, <3>2 DEF Claimed
    <2>4. QED
      BY <1>1, <1>2, <1>4, <2>2, <2>3 DEF Claimed, Keys
  <1>10. QED
    BY <1>5, <1>6, <1>7, <1>8, <1>9 DEF StakeInv

-----------------------------------------------------------------------------
(* Forks *)

\* The rows above block f whose ids are below c.
Left(table, f, c) == {i \in DOMAIN table : table[i].at > f /\ i < c}

\* The tables of the transaction, when the rows left are those below c.
Midway(T, f, c) ==
    /\ AddsUp(T)
    /\ \A k \in Keys : AmountOf(T.positions, k) =
                         AmountOf(stakesAt[f].positions, k) + NetOf(reverts, Left(reverts, f, c), k)
    /\ \A k \in DOMAIN positions :
          /\ T.positions[k].reward = positions[k].reward
          /\ T.positions[k].received = positions[k].received

LEMMA MidwayIs ==
    ASSUME HalfUndone, ~Scanning
    PROVE  Midway(work, forkTo, cursor)
  BY DEF HalfUndone, Midway, Left, Pending, Above, AddsUp, Keys

\* The state of a fork under way, from that of its transaction.
LEMMA MidwayNext ==
    ASSUME NEW T, NEW f, NEW c, Midway(T, f, c), work' = T, forkTo' = f, cursor' = c,
           UNCHANGED <<positions, stakesAt, reverts>>
    PROVE  HalfUndone'
  BY DEF HalfUndone, Midway, Left, Pending, Above, AddsUp, Keys

LEMMA BeginForkStep ==
    ASSUME StakeInv, NEW h \in DOMAIN ended, BeginFork(h)
    PROVE  StakeInv'
  <1>1. /\ TypeOK /\ Backed /\ NeverPaidTwice /\ Recounted /\ BackedThen /\ Claimed
    BY DEF StakeInv
  <1>2. /\ forkTo' = h /\ work' = Stakes /\ cursor' = nextId
        /\ UNCHANGED <<bal, ended, height, totals, positions, reverts, rewards, nextId,
                       gifts, paid, stakesAt>>
    BY DEF BeginFork, journals
  <1>3. /\ totals \in [StakeTicks -> Nat] /\ positions \in [DOMAIN positions -> Positions]
        /\ nextId \in Nat /\ h \in DOMAIN stakesAt
    BY <1>1, OpsFinite DEF TypeOK, IsTable
  <1>4. TypeOK'
    <2>1. Stakes \in [totals : [StakeTicks -> Nat], positions : [DOMAIN positions -> Positions]]
      BY <1>3 DEF Stakes
    <2>2. nextId \in 0..nextId
      BY <1>3
    <2>3. IsTable(positions')
      BY <1>1, <1>2 DEF TypeOK
    <2>4. QED
      BY <1>1, <1>2, <2>1, <2>2, <2>3 DEF TypeOK
  <1>5. Midway(Stakes, h, nextId)
    <2>1. AddsUp(Stakes)
      BY <1>1 DEF AddsUp, Stakes, Backed
    <2>2. ASSUME NEW k \in Keys
          PROVE  AmountOf(positions, k) = AmountOf(stakesAt[h].positions, k)
                                            + NetOf(reverts, Left(reverts, h, nextId), k)
      <3>1. \A i \in DOMAIN reverts : /\ reverts[i].at <= height /\ i < nextId
                                      /\ reverts[i].at \in Nat
        BY <1>1 DEF TypeOK, Reverts
      <3>2. h \in Nat
        BY <1>1 DEF TypeOK
      <3>3. \A i : i \in Left(reverts, h, nextId) <=> i \in Between(reverts, h, height)
        BY <3>1, <3>2 DEF Left, Between
      <3>4. NetOf(reverts, Left(reverts, h, nextId), k)
              = NetOf(reverts, Between(reverts, h, height), k)
        BY <3>3, NetSame
      <3>5. QED
        BY <1>1, <1>3, <3>4 DEF Recounted, Keys
    <2>3. QED
      BY <2>1, <2>2 DEF Midway, Stakes
  <1>6. HalfUndone'
    BY <1>2, <1>5, MidwayNext
  <1>7. Backed' /\ NeverPaidTwice' /\ Claimed'
    BY <1>1, <1>2 DEF Backed, NeverPaidTwice, Claimed
  <1>8. Recounted' /\ BackedThen'
    BY <1>1, <1>2, RecountedKept, BackedThenKept
  <1>9. QED
    BY <1>4, <1>6, <1>7, <1>8 DEF StakeInv

LEMMA UndoNextStep ==
    ASSUME StakeInv, UndoNext
    PROVE  StakeInv'
  <1>1. /\ TypeOK /\ Backed /\ NeverPaidTwice /\ Recounted /\ BackedThen /\ Claimed
        /\ HalfUndone
    BY DEF StakeInv
  <1> DEFINE f == forkTo
             ids == Left(reverts, f, cursor)
  <1>2. /\ ~Scanning /\ Pending(reverts) = ids /\ ids # {}
        /\ UNCHANGED <<bal, ended, height, totals, positions, reverts, rewards, nextId,
                       forkTo, gifts, paid, stakesAt>>
    BY DEF UndoNext, Pending, Above, Left, journals
  <1>3. PICK j : /\ j = Max(ids) /\ UndoOk(reverts[j])
                 /\ work' = Undo(reverts[j]) /\ cursor' = j
    BY <1>2 DEF UndoNext
  <1>4. MaxOps \in Nat /\ AreRows(reverts, ids)
    BY <1>1, <1>2, OpsFinite, RowsBetween
  <1>5. ids \in SUBSET (1..MaxOps)
    BY <1>4 DEF AreRows
  <1>6. j \in ids /\ \A x \in ids : x <= j
    <2> HIDE DEF ids
    <2>1. QED
      BY <1>2, <1>3, <1>4, <1>5, MaxIs
  <1> DEFINE r == reverts[j]
             k0 == <<r.tick, r.holder>>
             d == IF r.op = "stake" THEN -r.amt ELSE r.amt
  <1>7. /\ r \in Reverts /\ j \in DOMAIN reverts /\ j < cursor /\ j \in 1..MaxOps
        /\ cursor \in 0..nextId
    BY <1>1, <1>4, <1>6 DEF AreRows, Left, TypeOK
  <1>8. /\ r.tick \in StakeTicks /\ r.holder \in Users /\ r.amt \in Nat /\ d \in Int
        /\ r.op \in {"stake", "unstake"} /\ k0 \in Keys /\ k0 \in DOMAIN positions
    BY <1>1, <1>7 DEF Reverts, Keys, Claimed
  <1>9. /\ Change(r, k0) = -d /\ \A k \in Keys \ {k0} : Change(r, k) = 0
    BY <1>8 DEF Change
  <1>10. /\ IsTables(work) /\ DOMAIN work.positions = DOMAIN positions
         /\ DOMAIN positions \subseteq Keys
    BY <1>1, <1>2 DEF TypeOK, IsTables, IsTable, Keys
  <1>11. Differ(work, work', r.tick, r.holder, d)
    <2> HIDE DEF r
    <2>1. work' = Undo(r) /\ UndoOk(r)
      BY <1>3 DEF r
    <2>2. CASE r.op = "stake"
      <3>1. /\ work' = StakeUnStakeV1(work, r.tick, r.holder, r.amt)
            /\ CanUnStake(work, r.tick, r.holder, r.amt)
        BY <2>1, <2>2 DEF Undo, UndoOk
      <3>2. QED
        BY <1>8, <1>10, <2>2, <3>1, UnStakeDiffers
    <2>3. CASE r.op # "stake"
      <3>1. work' = StakeStakeV1(work, r.tick, r.holder, r.amt)
        BY <2>1, <2>3 DEF Undo
      <3>2. QED
        BY <1>8, <1>10, <2>3, <3>1, StakeDiffers
    <2>4. QED
      BY <2>2, <2>3
  <1>12. Midway(work, f, cursor)
    BY <1>1, <1>2, MidwayIs
  <1> DEFINE rest == Left(reverts, f, j)
  <1>13. ids = rest \cup {j} /\ j \notin rest /\ AreRows(reverts, rest)
    <2>1. \A i : i \in ids <=> i \in rest \/ i = j
      <3>1. ASSUME NEW i \in ids PROVE i \in rest \/ i = j
        <4>1. i \in 1..MaxOps /\ j \in 1..MaxOps /\ i <= j
          BY <1>5, <1>6
        <4>2. i < j \/ i = j
          BY <1>4, <4>1
        <4>3. QED
          BY <4>2 DEF Left
      <3>2. ASSUME NEW i \in rest PROVE i \in ids
        <4>1. i \in DOMAIN reverts /\ i < j /\ reverts[i].at > f
          BY DEF Left
        <4>2. i \in Nat /\ j \in Nat /\ cursor \in Nat /\ nextId \in Nat
          BY <1>1, <1>4, <1>7, <4>1 DEF TypeOK
        <4>3. i < cursor
          BY <1>7, <4>1, <4>2
        <4>4. QED
          BY <4>1, <4>3 DEF Left
      <3>3. QED
        BY <1>6, <3>1, <3>2
    <2>2. j \notin rest
      BY <1>4, <1>7 DEF Left
    <2> HIDE DEF ids, rest
    <2>3. QED
      BY <1>4, <2>1, <2>2 DEF AreRows
  <1>14. ASSUME NEW k \in Keys
         PROVE  NetOf(reverts, ids, k) = NetOf(reverts, rest, k) + Change(r, k)
    <2> HIDE DEF ids, rest
    <2>1. PICK a, x, y, n : a = reverts /\ x = rest /\ y = ids /\ n = j
      OBVIOUS
    <2>2. AreRows(a, x) /\ n \in 1..MaxOps /\ n \notin x /\ y = x \cup {n} /\ AreRows(a, y)
      BY <1>4, <1>7, <1>13, <2>1
    <2>3. NetOf(a, y, k) = NetOf(a, x, k) + Change(a[n], k)
      BY ONLY <2>2, NetMore
    <2>4. QED
      BY <2>1, <2>3
  <1>15. Midway(work', f, j)
    <2>1. AddsUp(work')
      BY <1>8, <1>10, <1>11, <1>12, StillAddsUp DEF Midway
    <2>2. ASSUME NEW k \in Keys
          PROVE  AmountOf(work'.positions, k) =
                   AmountOf(stakesAt[f].positions, k) + NetOf(reverts, rest, k)
      <3>1. AmountOf(work.positions, k) =
               AmountOf(stakesAt[f].positions, k) + NetOf(reverts, ids, k)
        BY <1>12 DEF Midway
      <3>2. AmountOf(work'.positions, k) = AmountOf(work.positions, k) - Change(r, k)
        <4>1. AmountOf(work.positions, k) \in Int
          BY <1>10, AmountNat DEF IsTables
        <4>2. CASE k = k0
          BY <1>8, <1>9, <1>11, <4>1, <4>2 DEF Differ
        <4>3. CASE k # k0
          <5>1. AmountOf(work'.positions, k) = AmountOf(work.positions, k)
            BY <1>11, <4>3 DEF Differ, Keys
          <5>2. Change(r, k) = 0
            BY <1>9, <4>3
          <5>3. QED
            BY <4>1, <5>1, <5>2
        <4>4. QED
          BY <4>2, <4>3
      <3>3. /\ NetOf(reverts, rest, k) \in Int /\ Change(r, k) \in Int
            /\ AmountOf(stakesAt[f].positions, k) \in Int
        <4>1. NetOf(reverts, rest, k) \in Int
          BY <1>13, TermsInt
        <4>2. Change(r, k) \in Int
          BY <1>8 DEF Change
        <4>3. IsTable(stakesAt[f].positions)
          BY <1>1, <1>2 DEF TypeOK, Scanning
        <4>4. QED
          BY <4>1, <4>2, <4>3, AmountNat
      <3>4. QED
        BY <1>14, <3>1, <3>2, <3>3
    <2>3. \A k \in DOMAIN positions :
             /\ work'.positions[k].reward = positions[k].reward
             /\ work'.positions[k].received = positions[k].received
      BY <1>10, <1>11, <1>12 DEF Differ, Midway
    <2>4. QED
      BY <2>1, <2>2, <2>3 DEF Midway
  <1>16. HalfUndone'
    BY <1>2, <1>3, <1>15, MidwayNext
  <1>17. TypeOK'
    <2>1. DOMAIN work'.positions = DOMAIN positions
      BY <1>8, <1>10, <1>11 DEF Differ
    <2>2. work' \in [totals : [StakeTicks -> Nat], positions : [DOMAIN positions -> Positions]]
      BY <1>11, <2>1 DEF Differ, IsTables, IsTable
    <2>3. j \in 0..nextId
      BY <1>1, <1>3, <1>4, <1>7 DEF TypeOK
    <2>4. QED
      BY <1>1, <1>2, <1>3, <2>2, <2>3 DEF TypeOK, Scanning
  <1>18. Backed' /\ NeverPaidTwice' /\ Claimed'
    BY <1>1, <1>2 DEF Backed, NeverPaidTwice, Claimed
  <1>19. Recounted' /\ BackedThen'
    BY <1>1, <1>2, RecountedKept, BackedThenKept
  <1>20. QED
    BY <1>16, <1>17, <1>18, <1>19 DEF StakeInv

\* What a fork leaves: f is the block it returns to.
LEMMA Committed ==
    ASSUME StakeInv, CommitFork
    PROVE  /\ forkTo \in 0..(height - 1)
           /\ \A k \in Keys : AmountOf(positions', k) = AmountOf(stakesAt[forkTo].positions, k)
           /\ totals' = stakesAt[forkTo].totals
           /\ DOMAIN positions' = DOMAIN positions
           /\ \A k \in DOMAIN positions :
                 /\ positions'[k] = [work.positions[k] EXCEPT !.received = Received(k)]
                 /\ work.positions[k] \in Positions
  <1>1. /\ TypeOK /\ BackedThen /\ HalfUndone /\ ~Scanning /\ Pending(reverts) = {}
        /\ totals' = work.totals
        /\ positions' = [k \in DOMAIN work.positions |->
                           [work.positions[k] EXCEPT !.received = Received(k)]]
    BY DEF StakeInv, CommitFork
  <1>2. /\ forkTo \in 0..(height - 1) /\ forkTo \in DOMAIN stakesAt
        /\ stakesAt[forkTo].totals \in [StakeTicks -> Nat]
        /\ IsTable(stakesAt[forkTo].positions)
        /\ work.positions \in [DOMAIN positions -> Positions]
        /\ work.totals \in [StakeTicks -> Nat]
    BY <1>1 DEF TypeOK, Scanning
  <1>3. /\ DOMAIN positions' = DOMAIN positions
        /\ \A k \in DOMAIN positions :
              /\ positions'[k] = [work.positions[k] EXCEPT !.received = Received(k)]
              /\ work.positions[k] \in Positions
    BY <1>1, <1>2
  <1>4. ASSUME NEW k \in Keys
        PROVE  AmountOf(work.positions, k) = AmountOf(stakesAt[forkTo].positions, k)
    <2>1. AmountOf(work.positions, k) =
             AmountOf(stakesAt[forkTo].positions, k) + NetOf(reverts, Pending(reverts), k)
      BY <1>1 DEF HalfUndone, Keys
    <2>2. NetOf(reverts, Pending(reverts), k) = 0
      BY <1>1, NetNone
    <2>3. AmountOf(stakesAt[forkTo].positions, k) \in Nat
      BY <1>2, AmountNat
    <2>4. QED
      BY <2>1, <2>2, <2>3
  <1>5. ASSUME NEW k \in Keys
        PROVE  AmountOf(positions', k) = AmountOf(work.positions, k)
    <2>1. CASE k \in DOMAIN positions
      <3>1. positions'[k].amt = work.positions[k].amt
        BY <1>3, <2>1 DEF Positions
      <3>2. QED
        BY <1>2, <1>3, <2>1, <3>1 DEF AmountOf
    <2>2. CASE k \notin DOMAIN positions
      BY <1>2, <1>3, <2>2 DEF AmountOf
    <2>3. QED
      BY <2>1, <2>2
  <1>6. ASSUME NEW t \in StakeTicks PROVE work.totals[t] = stakesAt[forkTo].totals[t]
    <2>1. StakeOf(work.positions, t) = work.totals[t]
      BY <1>1 DEF HalfUndone
    <2>2. StakeOf(stakesAt[forkTo].positions, t) = stakesAt[forkTo].totals[t]
      BY <1>1, <1>2 DEF BackedThen
    <2>3. StakeOf(work.positions, t) = StakeOf(stakesAt[forkTo].positions, t)
      BY <1>4, StakeOfSame DEF Keys
    <2>4. QED
      BY <2>1, <2>2, <2>3
  <1>7. totals' = stakesAt[forkTo].totals
    BY <1>1, <1>2, <1>6
  <1>8. QED
    BY <1>2, <1>3, <1>4, <1>5, <1>7

\* What counts as received after a fork covers what had been paid by then.
LEMMA ReceivedCovers ==
    ASSUME StakeInv, ~Scanning, NEW k \in DOMAIN positions
    PROVE  /\ Received(k) \in Nat
           /\ stakesAt[forkTo].paid[k] \in Nat
           /\ stakesAt[forkTo].paid[k] <= Received(k)
           /\ Received(k) <= positions[k].reward
           /\ work.positions[k].reward = positions[k].reward
  <1>1. TypeOK /\ HalfUndone /\ Claimed /\ NeverPaidTwice
    BY DEF StakeInv
  <1>2. forkTo \in DOMAIN stakesAt /\ k \in Keys
    BY <1>1 DEF TypeOK, Scanning, IsTable, Keys
  <1>3. /\ positions[k].reward \in Nat /\ positions[k].received \in Nat
        /\ paid[k] \in Nat /\ stakesAt[forkTo].paid[k] \in Nat
    BY <1>1, <1>2 DEF TypeOK, IsTable, Positions, Keys
  <1>4. /\ work.positions[k].reward = positions[k].reward
        /\ work.positions[k].received = positions[k].received
    BY <1>1 DEF HalfUndone
  <1>5. /\ stakesAt[forkTo].paid[k] <= paid[k] /\ paid[k] <= positions[k].received
        /\ positions[k].received <= positions[k].reward
    BY <1>1, <1>2 DEF Claimed, NeverPaidTwice, Keys
  <1> DEFINE rows == {i \in Above(rewards) : <<rewards[i].tick, rewards[i].holder>> = k}
  <1>6. Received(k) = IF rows = {} THEN work.positions[k].received
                      ELSE work.positions[k].reward - rewards[Min(rows)].amt
    BY DEF Received
  <1>7. CASE rows = {}
    BY <1>3, <1>4, <1>5, <1>6, <1>7
  <1>8. CASE rows # {}
    <2>1. rows \in SUBSET Nat
      BY <1>1 DEF TypeOK, Above
    <2>2. PICK j \in rows : j = Min(rows)
      <3> HIDE DEF rows
      <3>1. QED
        BY <1>8, <2>1, MinIs
    <2>3. /\ j \in DOMAIN rewards /\ rewards[j].at > forkTo
          /\ <<rewards[j].tick, rewards[j].holder>> = k
      BY <2>2 DEF Above
    <2>4. /\ rewards[j].amt \in Nat /\ rewards[j].amt <= positions[k].reward
          /\ stakesAt[forkTo].paid[k] <= positions[k].reward - rewards[j].amt
      BY <1>1, <1>2, <2>3 DEF Claimed, TypeOK, RewardReverts
    <2>5. Received(k) = positions[k].reward - rewards[j].amt
      BY <1>4, <1>6, <1>8, <2>2
    <2>6. QED
      BY <1>3, <1>4, <2>4, <2>5
  <1>9. QED
    BY <1>7, <1>8

LEMMA CommitForkStep ==
    ASSUME StakeInv, CommitFork
    PROVE  StakeInv'
  <1> DEFINE f == forkTo
  <1>1. /\ TypeOK /\ Backed /\ NeverPaidTwice /\ Recounted /\ BackedThen /\ Claimed
    BY DEF StakeInv
  <1>2. /\ ~Scanning /\ Scanning'
        /\ bal' = ended[f] /\ ended' = [g \in 0..(f - 1) |-> ended[g]] /\ height' = f
        /\ reverts' = [i \in DOMAIN reverts \ Above(reverts) |-> reverts[i]]
        /\ rewards' = [i \in DOMAIN rewards \ Above(rewards) |-> rewards[i]]
        /\ paid' = stakesAt[f].paid
        /\ stakesAt' = [g \in 0..(f - 1) |-> stakesAt[g]]
        /\ nextId' = nextId /\ forkTo' = None /\ cursor' = 0
    BY DEF CommitFork, Ledger!Rollback, NoFork, Scanning
  <1>3. /\ f \in 0..(height - 1)
        /\ \A k \in Keys : AmountOf(positions', k) = AmountOf(stakesAt[f].positions, k)
        /\ totals' = stakesAt[f].totals
        /\ DOMAIN positions' = DOMAIN positions
        /\ \A k \in DOMAIN positions :
              /\ positions'[k] = [work.positions[k] EXCEPT !.received = Received(k)]
              /\ work.positions[k] \in Positions
    BY Committed
  <1>4. /\ f \in DOMAIN stakesAt /\ f \in DOMAIN ended /\ f \in Nat /\ height \in Nat
        /\ DOMAIN stakesAt = 0..(height - 1) /\ DOMAIN positions \subseteq Keys
    BY <1>1, <1>3 DEF TypeOK, IsTable, Keys
  <1>5. \A k \in DOMAIN positions :
           /\ positions'[k] \in Positions
           /\ positions'[k].reward = positions[k].reward
           /\ positions'[k].received <= positions'[k].reward
           /\ paid'[k] <= positions'[k].received
    <2>1. SUFFICES ASSUME NEW k \in DOMAIN positions
                   PROVE  /\ positions'[k] \in Positions
                          /\ positions'[k].reward = positions[k].reward
                          /\ positions'[k].received <= positions'[k].reward
                          /\ paid'[k] <= positions'[k].received
      OBVIOUS
    <2>2. /\ Received(k) \in Nat /\ stakesAt[f].paid[k] \in Nat
          /\ stakesAt[f].paid[k] <= Received(k)
          /\ Received(k) <= positions[k].reward
          /\ work.positions[k].reward = positions[k].reward
      BY <1>2, ReceivedCovers
    <2> DEFINE q == work.positions[k]
               c == Received(k)
    <2>3. positions'[k] = [q EXCEPT !.received = c] /\ q \in Positions /\ c \in Nat
      BY <1>3, <2>2
    <2> HIDE DEF q, c
    <2>4. /\ positions'[k] \in Positions /\ positions'[k].reward = q.reward
          /\ positions'[k].received = c
      BY <2>3 DEF Positions
    <2>5. QED
      BY <1>2, <2>2, <2>4 DEF q, c
  <1>6. \A h \in 0..(f - 1) : /\ h \in DOMAIN stakesAt /\ h \in DOMAIN ended /\ h < f
                              /\ stakesAt'[h] = stakesAt[h] /\ ended'[h] = ended[h]
    BY <1>1, <1>2, <1>3, <1>4 DEF TypeOK
  <1>7. /\ DOMAIN stakesAt' = 0..(f - 1) /\ DOMAIN ended' = 0..(f - 1)
    BY <1>2
  <1>8. /\ DOMAIN reverts' \subseteq DOMAIN reverts /\ DOMAIN rewards' \subseteq DOMAIN rewards
        /\ \A i \in DOMAIN reverts : /\ reverts[i].at \in Nat /\ reverts[i] \in Reverts
                                     /\ i \in DOMAIN reverts' <=> reverts[i].at <= f
        /\ \A i \in DOMAIN rewards : /\ rewards[i].at \in Nat /\ rewards[i] \in RewardReverts
                                     /\ i \in DOMAIN rewards' <=> rewards[i].at <= f
        /\ \A i \in DOMAIN reverts' : reverts'[i] = reverts[i]
        /\ \A i \in DOMAIN rewards' : rewards'[i] = rewards[i]
    <2>1. \A i \in DOMAIN reverts : reverts[i].at \in Nat /\ reverts[i] \in Reverts
      BY <1>1 DEF TypeOK, Reverts
    <2>2. \A i \in DOMAIN rewards : rewards[i].at \in Nat /\ rewards[i] \in RewardReverts
      BY <1>1 DEF TypeOK, RewardReverts
    <2>3. QED
      BY <1>2, <1>4, <2>1, <2>2 DEF Above
  <1>9. TypeOK'
    <2>1. /\ bal' \in Books /\ totals' \in [StakeTicks -> Nat]
          /\ paid' \in [StakeTicks \X Users -> Nat]
      BY <1>1, <1>2, <1>3, <1>4 DEF TypeOK
    <2>2. IsTable(positions')
      <3>1. positions' = [k \in DOMAIN positions |-> positions'[k]]
        BY <1>2, <1>3 DEF CommitFork
      <3>2. QED
        BY <1>3, <1>4, <1>5, <3>1 DEF IsTable, Keys
    <2>3. \A h \in DOMAIN ended' :
             /\ ended'[h] \in Books
             /\ stakesAt'[h].totals \in [StakeTicks -> Nat]
             /\ IsTable(stakesAt'[h].positions)
             /\ stakesAt'[h].paid \in [StakeTicks \X Users -> Nat]
      BY <1>1, <1>6, <1>7 DEF TypeOK
    <2>4. DOMAIN reverts' \subseteq 1..(nextId' - 1) /\ DOMAIN rewards' \subseteq 1..(nextId' - 1)
      BY <1>1, <1>2, <1>8 DEF TypeOK
    <2>5. /\ \A i \in DOMAIN reverts' : reverts'[i] \in Reverts /\ reverts'[i].at <= height'
          /\ \A i \in DOMAIN rewards' : rewards'[i] \in RewardReverts /\ rewards'[i].at <= height'
      BY <1>2, <1>8
    <2>6. cursor' \in 0..nextId' /\ nextId' \in 1..(MaxOps + 1)
      BY <1>1, <1>2, OpsFinite DEF TypeOK
    <2>7. height' \in Nat /\ DOMAIN ended' = 0..(height' - 1) /\ DOMAIN stakesAt' = DOMAIN ended'
      BY <1>2, <1>4, <1>7
    <2>8. QED
      BY <1>2, <2>1, <2>2, <2>3, <2>4, <2>5, <2>6, <2>7 DEF TypeOK
  <1>10. Backed'
    <2>1. SUFFICES ASSUME NEW t \in StakeTicks
                   PROVE  StakeOf(positions', t) = totals'[t] /\ totals'[t] <= bal'[t][Reserve[t]]
      BY DEF Backed
    <2>2. /\ StakeOf(stakesAt[f].positions, t) = stakesAt[f].totals[t]
          /\ stakesAt[f].totals[t] <= ended[f][t][Reserve[t]]
      BY <1>1, <1>4 DEF BackedThen
    <2>3. StakeOf(positions', t) = StakeOf(stakesAt[f].positions, t)
      BY <1>3, StakeOfSame DEF Keys
    <2>4. QED
      BY <1>2, <1>3, <2>2, <2>3
  <1>11. NeverPaidTwice'
    BY <1>3, <1>5 DEF NeverPaidTwice
  <1>12. Recounted'
    <2>1. ASSUME NEW g \in 0..(f - 1), NEW h \in 0..f, NEW k \in Keys
          PROVE  NetOf(reverts', Between(reverts', g, h), k) = NetOf(reverts, Between(reverts, g, h), k)
      <3>1. \A i : i \in Between(reverts', g, h) <=> i \in Between(reverts, g, h)
        BY <1>4, <1>8 DEF Between
      <3>2. \A i : i \in Between(reverts', g, h) => reverts'[i] = reverts[i]
        BY <1>8 DEF Between
      <3>3. QED
        BY <3>1, <3>2, NetSame
    <2>2. ASSUME NEW h \in 0..(f - 1), NEW k \in Keys
          PROVE  /\ AmountOf(positions', k) = AmountOf(stakesAt'[h].positions, k)
                      + NetOf(reverts', Between(reverts', h, f), k)
                 /\ \A g \in 0..(h - 1) :
                       AmountOf(stakesAt'[h].positions, k) =
                         AmountOf(stakesAt'[g].positions, k)
                           + NetOf(reverts', Between(reverts', g, h), k)
      <3>1. AmountOf(stakesAt[f].positions, k) = AmountOf(stakesAt[h].positions, k)
               + NetOf(reverts, Between(reverts, h, f), k)
        BY <1>1, <1>4 DEF Recounted, Keys
      <3>2. \A g \in 0..(h - 1) :
               AmountOf(stakesAt[h].positions, k) = AmountOf(stakesAt[g].positions, k)
                 + NetOf(reverts, Between(reverts, g, h), k)
        BY <1>1, <1>6 DEF Recounted, Keys
      <3>3. f \in 0..f /\ h \in 0..f /\ \A g \in 0..(h - 1) : g \in 0..(f - 1)
        BY <1>4
      <3>4. NetOf(reverts', Between(reverts', h, f), k) = NetOf(reverts, Between(reverts, h, f), k)
        BY <2>1, <3>3
      <3>5. \A g \in 0..(h - 1) :
               /\ NetOf(reverts', Between(reverts', g, h), k) = NetOf(reverts, Between(reverts, g, h), k)
               /\ stakesAt'[g] = stakesAt[g]
        BY <1>6, <2>1, <3>3
      <3>6. QED
        BY <1>3, <1>6, <3>1, <3>2, <3>4, <3>5
    <2>3. QED
      BY <1>2, <1>7, <2>2 DEF Recounted, Keys
  <1>13. BackedThen'
    BY <1>1, <1>6, <1>7 DEF BackedThen
  <1>14. HalfUndone'
    BY <1>2 DEF HalfUndone, Scanning
  <1>15. Claimed'
    <2>1. \A i \in DOMAIN reverts' : <<reverts'[i].tick, reverts'[i].holder>> \in DOMAIN positions'
      BY <1>1, <1>3, <1>8 DEF Claimed
    <2>2. ASSUME NEW k \in (StakeTicks \X Users) \ DOMAIN positions'
          PROVE  paid'[k] = 0
      <3>1. stakesAt[f].paid[k] <= paid[k] /\ paid[k] = 0
        BY <1>1, <1>3, <1>4 DEF Claimed
      <3>2. stakesAt[f].paid[k] \in Nat
        BY <1>1, <1>4 DEF TypeOK
      <3>3. QED
        BY <1>2, <3>1, <3>2
    <2>3. \A h \in 0..(f - 1), k \in StakeTicks \X Users :
             /\ stakesAt'[h].paid[k] <= paid'[k]
             /\ \A g \in 0..(h - 1) : stakesAt'[g].paid[k] <= stakesAt'[h].paid[k]
      <3>1. ASSUME NEW h \in 0..(f - 1), NEW k \in StakeTicks \X Users
            PROVE  /\ stakesAt'[h].paid[k] <= paid'[k]
                   /\ \A g \in 0..(h - 1) : stakesAt'[g].paid[k] <= stakesAt'[h].paid[k]
        <4>1. stakesAt[h].paid[k] <= stakesAt[f].paid[k]
          BY <1>1, <1>4 DEF Claimed
        <4>2. \A g \in 0..(h - 1) : g \in 0..(f - 1)
          BY <1>4
        <4>3. QED
          BY <1>1, <1>2, <1>6, <4>1, <4>2 DEF Claimed
      <3>2. QED
        BY <3>1
    <2>4. ASSUME NEW i \in DOMAIN rewards'
          PROVE  LET k == <<rewards'[i].tick, rewards'[i].holder>> IN
                 /\ k \in DOMAIN positions'
                 /\ rewards'[i].amt <= positions'[k].reward
                 /\ \A h \in 0..(f - 1) :
                       rewards'[i].at > h =>
                          stakesAt'[h].paid[k] <= positions'[k].reward - rewards'[i].amt
      <3>1. i \in DOMAIN rewards /\ rewards'[i] = rewards[i]
        BY <1>8
      <3>2. QED
        BY <1>1, <1>3, <1>5, <1>6, <3>1 DEF Claimed
    <2>5. QED
      BY <1>7, <2>1, <2>2, <2>3, <2>4 DEF Claimed
  <1>16. QED
    BY <1>9, <1>10, <1>11, <1>12, <1>13, <1>14, <1>15 DEF StakeInv

LEMMA AbortForkStep ==
    ASSUME StakeInv, AbortFork
    PROVE  StakeInv'
  <1>1. /\ TypeOK /\ Backed /\ NeverPaidTwice /\ Recounted /\ BackedThen /\ Claimed
    BY DEF StakeInv
  <1>2. /\ forkTo' = None /\ cursor' = 0 /\ Scanning'
        /\ UNCHANGED <<bal, ended, height, totals, positions, reverts, rewards, nextId,
                       gifts, paid, stakesAt>>
    BY DEF AbortFork, NoFork, journals, Scanning
  <1>3. 0 \in 0..nextId
    BY <1>1, OpsFinite DEF TypeOK
  <1>4. TypeOK'
    BY <1>1, <1>2, <1>3 DEF TypeOK
  <1>5. HalfUndone'
    BY <1>2 DEF HalfUndone
  <1>6. Backed' /\ NeverPaidTwice' /\ Claimed'
    BY <1>1, <1>2 DEF Backed, NeverPaidTwice, Claimed
  <1>7. Recounted' /\ BackedThen'
    BY <1>1, <1>2, RecountedKept, BackedThenKept
  <1>8. QED
    BY <1>4, <1>5, <1>6, <1>7 DEF StakeInv

-----------------------------------------------------------------------------
(* The specification *)

LEMMA StakeInvStep ==
    ASSUME StakeInv, [Next]_vars
    PROVE  StakeInv'
  <1>1. Amounts \subseteq Nat
    BY StakeAssumption
  <1>2. CASE UNCHANGED vars
    <2>1. UNCHANGED <<bal, ended, height, totals, positions, reverts, rewards, nextId,
                      forkTo, work, cursor, gifts, paid, stakesAt>>
      BY <1>2 DEF vars, journals, forking
    <2>2. /\ TypeOK /\ Backed /\ NeverPaidTwice /\ Recounted /\ BackedThen /\ HalfUndone
          /\ Claimed
      BY DEF StakeInv
    <2>3. TypeOK' /\ Backed' /\ NeverPaidTwice' /\ Claimed'
      BY <2>1, <2>2 DEF TypeOK, Backed, NeverPaidTwice, Claimed, Scanning
    <2>4. Recounted' /\ BackedThen'
      BY <2>1, <2>2, RecountedKept, BackedThenKept
    <2>5. HalfUndone'
      BY <2>1, <2>2 DEF HalfUndone, Scanning, Pending, Above
    <2>6. QED
      BY <2>3, <2>4, <2>5 DEF StakeInv
  <1>3. CASE \E t \in StakeTicks, u \in Users, amt \in Amounts : Stake(t, u, amt)
    BY <1>1, <1>3, StakeStep
  <1>4. CASE \E t \in StakeTicks, u \in Users, amt \in Amounts : UnStake(t, u, amt)
    BY <1>1, <1>4, UnStakeStep
  <1>5. CASE \E t \in StakeTicks, u \in Users : GetAllReward(t, u)
    BY <1>5, GetAllRewardStep
  <1>6. CASE \E k \in StakeTicks \X Users, r \in Accruals : Accrue(k, r)
    BY <1>6, AccrueStep DEF Keys
  <1>7. CASE \E t \in Ticks, from \in Users, to \in Accounts, amt \in Amounts :
                Transfer(t, from, to, amt)
    BY <1>7, TransferStep
  <1>8. CASE NextBlock
    BY <1>8, NextBlockStep
  <1>9. CASE \E h \in DOMAIN ended : BeginFork(h)
    BY <1>9, BeginForkStep
  <1>10. CASE UndoNext
    BY <1>10, UndoNextStep
  <1>11. CASE CommitFork
    BY <1>11, CommitForkStep
  <1>12. CASE AbortFork
    BY <1>12, AbortForkStep
  <1>13. QED
    BY <1>2, <1>3, <1>4, <1>5, <1>6, <1>7, <1>8, <1>9, <1>10, <1>11, <1>12 DEF Next

\* Types, the sums of the journal's rows, the state a broken-off fork leaves
\* and what the claims have paid, in every state of the staking tables.
THEOREM StakesInvariant == Spec => []StakeInv
  <1>1. Init => StakeInv
    BY InitStake
  <1>2. StakeInv /\ [Next]_vars => StakeInv'
    BY StakeInvStep
  <1>3. QED
    BY <1>1, <1>2, PTL DEF Spec

\* Everybody can take his stake back: the positions of a tick add up to its
\* total and the reserves hold it, for any number of holders
\* (StakeStakeV1, StakeUnStakeV1, stakeFork).
THEOREM StakesBacked == Spec => []Backed
  <1>1. StakeInv => Backed
    BY DEF StakeInv
  <1>2. QED
    BY <1>1, StakesInvariant, PTL

\* No reward is paid a second time, whether or not the client writes
\* received_reward back into the row's struct before the journal row is
\* computed (StakeRewardV1, stakeFork).
THEOREM RewardsPaidOnce == Spec => []NeverPaidTwice
  <1>1. StakeInv => NeverPaidTwice
    BY DEF StakeInv
  <1>2. QED
    BY <1>1, StakesInvariant, PTL

\* Only a committed fork lowers the height, and it gives back the stakes of
\* the block it returns to (stakeFork, delRevert).
THEOREM StakeForksRestore == Spec => ForkRestoresStakes
  <1>1. ASSUME StakeInv, [Next]_vars
        PROVE  [height' < height =>
                  LET was == stakesAt[height'] IN
                  /\ totals' = was.totals
                  /\ \A k \in StakeTicks \X Users :
                        AmountOf(positions', k) = AmountOf(was.positions, k)]_vars
    <2>1. SUFFICES ASSUME Next, height' < height
                   PROVE  /\ totals' = stakesAt[height'].totals
                          /\ \A k \in StakeTicks \X Users :
                                AmountOf(positions', k) = AmountOf(stakesAt[height'].positions, k)
      BY <1>1
    <2>2. height \in Nat
      BY <1>1 DEF StakeInv, TypeOK
    <2>3. height' # height /\ height' # height + 1
      BY <2>1, <2>2
    <2>4. CommitFork
      BY <2>1, <2>3 DEF Next, Stake, UnStake, GetAllReward, Accrue, Transfer, NextBlock,
                        Ledger!EndBlock, BeginFork, UndoNext, AbortFork
    <2>5. height' = forkTo
      BY <2>4 DEF CommitFork, Ledger!Rollback
    <2>6. QED
      BY <1>1, <2>4, <2>5, Committed DEF Keys
  <1>2. QED
    BY <1>1, StakesInvariant, PTL DEF Spec, ForkRestoresStakes

=============================================================================
