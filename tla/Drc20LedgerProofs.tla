-------------------------- MODULE Drc20LedgerProofs --------------------------
(***************************************************************************)
(* Machine-checked proofs about Drc20Ledger and Drc20LedgerHist, for every *)
(* set of ticks and holders and every bound; and, after them, about Pump,  *)
(* whose curve is kept next to two such ledgers. The components share no   *)
(* names: a theorem speaks of the specification it names.                  *)
(***************************************************************************)
EXTENDS Drc20LedgerHist, Pump, DataLemmas, TLAPS

-----------------------------------------------------------------------------
(* The three balance functions keep the types of the tables. *)

LEMMA CountType ==
    ASSUME NEW n \in 0..(Counter - 1), NEW fork \in BOOLEAN
    PROVE  Count(n, fork) \in 0..(Counter - 1)
  BY LedgerAssumption DEF Count, Inc, Dec

LEMMA MintType ==
    ASSUME NEW s \in Stores, NEW t \in Ticks, NEW h \in Holders,
           NEW amt \in Nat, NEW fork \in BOOLEAN
    PROVE  MintDrc20(s, t, h, amt, fork) \in Stores
  <1>1. Count(s.trans[t], fork) \in 0..(Counter - 1)
    BY CountType DEF Stores
  <1>2. QED
    BY <1>1 DEF MintDrc20, Credit, Stores

LEMMA BurnType ==
    ASSUME NEW s \in Stores, NEW t \in Ticks, NEW h \in Holders,
           NEW amt \in Nat, NEW fork \in BOOLEAN,
           amt <= s.sum[t], amt <= s.bal[t][h]
    PROVE  BurnDrc20(s, t, h, amt, fork) \in Stores
  <1>1. Count(s.trans[t], fork) \in 0..(Counter - 1)
    BY CountType DEF Stores
  <1>2. QED
    BY <1>1 DEF BurnDrc20, Debit, Stores

LEMMA TransferType ==
    ASSUME NEW s \in Stores, NEW t \in Ticks, NEW from \in Holders,
           NEW to \in Holders, NEW amt \in Nat,
           TransferOk(s, t, from, to, amt)
    PROVE  TransferDrc20(s, t, from, to, amt) \in Stores
  BY DEF TransferDrc20, TransferOk, Credit, Debit, Stores

-----------------------------------------------------------------------------
(* An update of one balance, of one amt_sum or of one counter and its      *)
(* opposite cancel.                                                        *)

LEMMA SameBalances ==
    ASSUME NEW f \in [Ticks -> [Holders -> Int]],
           NEW g \in [Ticks -> [Holders -> Int]],
           \A t \in Ticks, h \in Holders : f[t][h] = g[t][h]
    PROVE  f = g
  <1>1. ASSUME NEW t \in Ticks PROVE f[t] = g[t]
    <2>1. f[t] \in [Holders -> Int] /\ g[t] \in [Holders -> Int]
      OBVIOUS
    <2>2. \A h \in Holders : f[t][h] = g[t][h]
      OBVIOUS
    <2>3. QED
      BY <2>1, <2>2
  <1>2. QED
    BY <1>1

LEMMA CancelCredit ==
    ASSUME NEW f \in [Ticks -> [Holders -> Int]], NEW t \in Ticks,
           NEW h \in Holders, NEW amt \in Nat
    PROVE  /\ Credit(f, t, h, amt) \in [Ticks -> [Holders -> Int]]
           /\ Debit(Credit(f, t, h, amt), t, h, amt) = f
  <1> DEFINE g == Credit(f, t, h, amt)
             g2 == Debit(g, t, h, amt)
  <1>1. /\ g \in [Ticks -> [Holders -> Int]]
        /\ g[t][h] = f[t][h] + amt
        /\ \A x \in Ticks, y \in Holders :
              x # t \/ y # h => g[x][y] = f[x][y]
    BY DEF Credit
  <1> HIDE DEF g
  <1>2. g2 \in [Ticks -> [Holders -> Int]]
    BY <1>1 DEF Debit
  <1>3. \A x \in Ticks, y \in Holders : g2[x][y] = f[x][y]
    BY <1>1 DEF Debit
  <1> HIDE DEF g2
  <1>4. g2 = f
    BY <1>1, <1>2, <1>3, SameBalances
  <1>5. QED
    BY <1>1, <1>4 DEF g2, g

LEMMA CancelDebit ==
    ASSUME NEW f \in [Ticks -> [Holders -> Int]], NEW t \in Ticks,
           NEW h \in Holders, NEW amt \in Nat
    PROVE  /\ Debit(f, t, h, amt) \in [Ticks -> [Holders -> Int]]
           /\ Credit(Debit(f, t, h, amt), t, h, amt) = f
  <1> DEFINE g == Debit(f, t, h, amt)
             g2 == Credit(g, t, h, amt)
  <1>1. /\ g \in [Ticks -> [Holders -> Int]]
        /\ g[t][h] = f[t][h] - amt
        /\ \A x \in Ticks, y \in Holders :
              x # t \/ y # h => g[x][y] = f[x][y]
    BY DEF Debit
  <1> HIDE DEF g
  <1>2. g2 \in [Ticks -> [Holders -> Int]]
    BY <1>1 DEF Credit
  <1>3. \A x \in Ticks, y \in Holders : g2[x][y] = f[x][y]
    BY <1>1 DEF Credit
  <1> HIDE DEF g2
  <1>4. g2 = f
    BY <1>1, <1>2, <1>3, SameBalances
  <1>5. QED
    BY <1>1, <1>4 DEF g2, g

LEMMA CancelSum ==
    ASSUME NEW f \in [Ticks -> Nat], NEW t \in Ticks, NEW amt \in Nat
    PROVE  /\ [[f EXCEPT ![t] = @ + amt] EXCEPT ![t] = @ - amt] = f
           /\ [[f EXCEPT ![t] = @ - amt] EXCEPT ![t] = @ + amt] = f
  <1>1. /\ f[t] \in Nat
        /\ (f[t] + amt) - amt = f[t]
        /\ (f[t] - amt) + amt = f[t]
    OBVIOUS
  <1>2. QED
    BY <1>1

LEMMA CancelCount ==
    ASSUME NEW f \in [Ticks -> 0..(Counter - 1)], NEW t \in Ticks
    PROVE  [[f EXCEPT ![t] = Count(@, FALSE)] EXCEPT ![t] = Count(@, TRUE)] = f
  <1>1. Count(Count(f[t], FALSE), TRUE) = f[t]
    BY LedgerAssumption DEF Count, Inc, Dec
  <1>2. QED
    BY <1>1

-----------------------------------------------------------------------------
(* The journal row of an operation, undone right after it, gives back the  *)
(* amounts from before it.                                                 *)

LEMMA MintUndone ==
    ASSUME NEW s \in Stores, NEW r \in Rows, IsMint(r)
    PROVE  Undoes(Funds(MintDrc20(s, r.tick, r.to, r.amt, FALSE)), r, Funds(s))
  <1> DEFINE t == r.tick
             h == r.to
             amt == r.amt
             s2 == MintDrc20(s, t, h, amt, FALSE)
  <1>1. t \in Ticks /\ h \in Holders /\ amt \in Nat /\ ~IsBurn(r)
    BY DEF Rows, IsMint, IsBurn
  <1>2. /\ s.bal \in [Ticks -> [Holders -> Nat]]
        /\ s.bal \in [Ticks -> [Holders -> Int]]
        /\ s.sum \in [Ticks -> Nat]
        /\ s.trans \in [Ticks -> 0..(Counter - 1)]
    BY DEF Stores
  <1>3. /\ s2.bal = Credit(s.bal, t, h, amt)
        /\ s2.sum = [s.sum EXCEPT ![t] = @ + amt]
        /\ s2.trans = [s.trans EXCEPT ![t] = Count(@, FALSE)]
    BY DEF MintDrc20
  <1>4. Funds(Undo(AllRows(Funds(s2)), r)) =
          [bal   |-> Debit(s2.bal, t, h, amt),
           sum   |-> [s2.sum EXCEPT ![t] = @ - amt],
           trans |-> [s2.trans EXCEPT ![t] = Count(@, TRUE)]]
    BY DEF Funds, AllRows, Undo, BurnDrc20
  <1>5. Undoes(Funds(s2), r, Funds(s)) <=>
          /\ amt <= s2.sum[t] /\ amt <= s2.bal[t][h]
          /\ Funds(s) = Funds(Undo(AllRows(Funds(s2)), r))
    BY DEF Undoes, Funds
  <1> HIDE DEF t, h, amt, s2
  <1>6. Debit(s2.bal, t, h, amt) = s.bal
    <2> DEFINE b == s.bal
    <2>1. b \in [Ticks -> [Holders -> Int]]
      BY <1>2
    <2> HIDE DEF b
    <2>2. Debit(Credit(b, t, h, amt), t, h, amt) = b
      BY ONLY <1>1, <2>1, CancelCredit
    <2>3. QED
      BY <1>3, <2>2 DEF b
  <1>7. [s2.sum EXCEPT ![t] = @ - amt] = s.sum
    BY <1>1, <1>2, <1>3, CancelSum
  <1>8. [s2.trans EXCEPT ![t] = Count(@, TRUE)] = s.trans
    BY <1>1, <1>2, <1>3, CancelCount
  <1>9. amt <= s2.sum[t] /\ amt <= s2.bal[t][h]
    BY <1>1, <1>2, <1>3 DEF Credit
  <1>10. Funds(s) = Funds(Undo(AllRows(Funds(s2)), r))
    BY <1>4, <1>6, <1>7, <1>8 DEF Funds
  <1>11. QED
    BY <1>5, <1>9, <1>10 DEF s2, t, h, amt

LEMMA BurnUndone ==
    ASSUME NEW s \in Stores, NEW r \in Rows, IsBurn(r)
    PROVE  Undoes(Funds(BurnDrc20(s, r.tick, r.from, r.amt, FALSE)), r, Funds(s))
  <1> DEFINE t == r.tick
             h == r.from
             amt == r.amt
             s2 == BurnDrc20(s, t, h, amt, FALSE)
  <1>1. t \in Ticks /\ h \in Holders /\ amt \in Nat /\ ~IsMint(r)
    BY DEF Rows, IsMint, IsBurn
  <1>2. /\ s.bal \in [Ticks -> [Holders -> Nat]]
        /\ s.bal \in [Ticks -> [Holders -> Int]]
        /\ s.sum \in [Ticks -> Nat]
        /\ s.trans \in [Ticks -> 0..(Counter - 1)]
    BY DEF Stores
  <1>3. /\ s2.bal = Debit(s.bal, t, h, amt)
        /\ s2.sum = [s.sum EXCEPT ![t] = @ - amt]
        /\ s2.trans = [s.trans EXCEPT ![t] = Count(@, FALSE)]
    BY DEF BurnDrc20
  <1>4. Funds(Undo(AllRows(Funds(s2)), r)) =
          [bal   |-> Credit(s2.bal, t, h, amt),
           sum   |-> [s2.sum EXCEPT ![t] = @ + amt],
           trans |-> [s2.trans EXCEPT ![t] = Count(@, TRUE)]]
    BY <1>1 DEF Funds, AllRows, Undo, MintDrc20
  <1>5. Undoes(Funds(s2), r, Funds(s)) <=>
          Funds(s) = Funds(Undo(AllRows(Funds(s2)), r))
    BY <1>1 DEF Undoes
  <1> HIDE DEF t, h, amt, s2
  <1>6. Credit(s2.bal, t, h, amt) = s.bal
    <2> DEFINE b == s.bal
    <2>1. b \in [Ticks -> [Holders -> Int]]
      BY <1>2
    <2> HIDE DEF b
    <2>2. Credit(Debit(b, t, h, amt), t, h, amt) = b
      BY ONLY <1>1, <2>1, CancelDebit
    <2>3. QED
      BY <1>3, <2>2 DEF b
  <1>7. [s2.sum EXCEPT ![t] = @ + amt] = s.sum
    BY <1>1, <1>2, <1>3, CancelSum
  <1>8. [s2.trans EXCEPT ![t] = Count(@, TRUE)] = s.trans
    BY <1>1, <1>2, <1>3, CancelCount
  <1>9. Funds(s) = Funds(Undo(AllRows(Funds(s2)), r))
    BY <1>4, <1>6, <1>7, <1>8 DEF Funds
  <1>10. QED
    BY <1>5, <1>9 DEF s2, t, h, amt

LEMMA TransferUndone ==
    ASSUME NEW s \in Stores, NEW r \in Rows, ~IsMint(r), ~IsBurn(r),
           r.from \in Holders, r.to \in Holders,
           TransferOk(s, r.tick, r.from, r.to, r.amt)
    PROVE  Undoes(Funds(TransferDrc20(s, r.tick, r.from, r.to, r.amt)), r,
                  Funds(s))
  <1> DEFINE t == r.tick
             from == r.from
             to == r.to
             amt == r.amt
             s2 == TransferDrc20(s, t, from, to, amt)
  <1>1. /\ t \in Ticks /\ from \in Holders /\ to \in Holders /\ amt \in Nat
        /\ amt >= 1 /\ from # to
    BY DEF Rows, TransferOk
  <1>2. /\ s.bal \in [Ticks -> [Holders -> Nat]]
        /\ s.bal \in [Ticks -> [Holders -> Int]]
    BY DEF Stores
  <1>3. /\ s2.bal = Credit(Debit(s.bal, t, from, amt), t, to, amt)
        /\ s2.sum = s.sum
        /\ s2.trans = s.trans
    BY DEF TransferDrc20
  <1>4. Funds(Undo(AllRows(Funds(s2)), r)) =
          [bal   |-> Credit(Debit(s2.bal, t, to, amt), t, from, amt),
           sum   |-> s2.sum,
           trans |-> s2.trans]
    BY DEF Funds, AllRows, Undo, TransferDrc20
  <1>5. Undoes(Funds(s2), r, Funds(s)) <=>
          /\ amt >= 1 /\ from # to /\ amt <= s2.bal[t][to]
          /\ Funds(s) = Funds(Undo(AllRows(Funds(s2)), r))
    BY DEF Undoes, Funds
  <1> HIDE DEF t, from, to, amt, s2
  <1>6. Credit(Debit(s2.bal, t, to, amt), t, from, amt) = s.bal
    <2> DEFINE b == s.bal
               b1 == Debit(b, t, from, amt)
    <2>1. b \in [Ticks -> [Holders -> Int]]
      BY <1>2
    <2>2. s2.bal = Credit(b1, t, to, amt)
      BY <1>3
    <2> HIDE DEF b
    <2>3. /\ b1 \in [Ticks -> [Holders -> Int]]
          /\ Credit(b1, t, from, amt) = b
      BY ONLY <1>1, <2>1, CancelDebit
    <2> HIDE DEF b1
    <2>4. Debit(Credit(b1, t, to, amt), t, to, amt) = b1
      BY ONLY <1>1, <2>3, CancelCredit
    <2>5. QED
      BY <2>2, <2>3, <2>4 DEF b
  <1>7. amt <= s2.bal[t][to]
    BY <1>1, <1>2, <1>3 DEF Credit, Debit
  <1>8. Funds(s) = Funds(Undo(AllRows(Funds(s2)), r))
    BY <1>3, <1>4, <1>6 DEF Funds
  <1>9. QED
    BY <1>1, <1>5, <1>7, <1>8 DEF s2, t, from, to, amt

\* The undo of a row needs the holders' rows and the tick's, which RowsKept
\* provides, and the amounts that Undoes speaks of.
LEMMA UndoExplained ==
    ASSUME NEW s \in Stores, NEW r \in Rows, NEW before,
           r.from # NoAddr \/ r.to # NoAddr,
           NeededRows(r) \subseteq s.rows,
           IsMint(r) \/ IsBurn(r) => collect[r.tick].deployed,
           Undoes(Funds(s), r, before)
    PROVE  /\ UndoOk(s, r)
           /\ Undo(s, r) \in Stores
           /\ Funds(Undo(s, r)) = before
           /\ s.rows \subseteq Undo(s, r).rows
  <1>1. Funds(Undo(s, r)) = before
    BY DEF Undoes, Undo, AllRows, Funds, MintDrc20, BurnDrc20, TransferDrc20
  <1>2. s.rows \subseteq Undo(s, r).rows
    BY DEF Undo, MintDrc20, BurnDrc20, TransferDrc20
  <1>3. /\ r.tick \in Ticks /\ r.amt \in Nat
        /\ r.from # NoAddr => r.from \in Holders /\ <<r.tick, r.from>> \in s.rows
        /\ r.to # NoAddr => r.to \in Holders /\ <<r.tick, r.to>> \in s.rows
    BY DEF Rows, NeededRows
  <1>4. CASE IsMint(r)
    <2>1. BurnOk(s, r.tick, r.to, r.amt)
      BY <1>3, <1>4 DEF BurnOk, Undoes, Funds, IsMint
    <2>2. BurnDrc20(s, r.tick, r.to, r.amt, TRUE) \in Stores
      BY <1>3, <1>4, <2>1, BurnType DEF BurnOk, IsMint
    <2>3. QED
      BY <1>1, <1>2, <1>4, <2>1, <2>2 DEF UndoOk, Undo
  <1>5. CASE IsBurn(r)
    <2>1. ~IsMint(r)
      BY <1>5 DEF IsMint, IsBurn
    <2>2. MintOk(r.tick)
      BY <1>5 DEF MintOk
    <2>3. MintDrc20(s, r.tick, r.from, r.amt, TRUE) \in Stores
      BY <1>3, <1>5, MintType DEF IsBurn
    <2>4. QED
      BY <1>1, <1>2, <1>5, <2>1, <2>2, <2>3 DEF UndoOk, Undo
  <1>6. CASE ~IsMint(r) /\ ~IsBurn(r)
    <2>1. r.from \in Holders /\ r.to \in Holders
      BY <1>3, <1>6 DEF IsMint, IsBurn
    <2>2. TransferOk(s, r.tick, r.to, r.from, r.amt)
      BY <1>3, <1>6, <2>1 DEF TransferOk, Undoes, Funds, IsMint, IsBurn
    <2>3. TransferDrc20(s, r.tick, r.to, r.from, r.amt) \in Stores
      BY <1>3, <2>1, <2>2, TransferType
    <2>4. QED
      BY <1>1, <1>2, <1>6, <2>2, <2>3 DEF UndoOk, Undo
  <1>7. QED
    BY <1>4, <1>5, <1>6

-----------------------------------------------------------------------------
(* The journal as a chain. *)

\* Rows above the height of a fork are the last ones, so the row the undo
\* loop visits next is the one written last among those that still count.
LEMMA NextExplained ==
    ASSUME HistInv, pc = "fork", NEW i \in Pending, IsNext(i)
    PROVE  Undoes(Funds(work), reverts[i], past[i])
  <1> USE DEF HistInv
  <1>1. /\ i \in DOMAIN reverts /\ i < cursor /\ reverts[i].height > forkTo
        /\ DOMAIN reverts \subseteq Nat
        /\ \A k \in DOMAIN reverts : reverts[k].height \in Nat
        /\ forkTo \in Nat /\ cursor \in Nat /\ nextId \in Nat
    BY DEF Pending, TypeOK, Rows
  <1>2. \A k \in DOMAIN reverts : k < cursor => k <= i
    <2>1. SUFFICES ASSUME NEW k \in DOMAIN reverts, k < cursor, k > i
                   PROVE  FALSE
      BY <1>1
    <2>2. reverts[k].height > forkTo
      BY <1>1, <2>1 DEF JournalOrdered
    <2>3. k \in Pending
      BY <2>1, <2>2 DEF Pending
    <2>4. QED
      BY <1>1, <2>1, <2>3 DEF IsNext
  <1>3. CASE cursor = nextId /\ Funds(work) = Funds(store)
    <2>1. IsLast(i)
      BY <1>1, <1>2, <1>3 DEF IsLast, TypeOK
    <2>2. QED
      BY <1>1, <1>3, <2>1 DEF StoreExplained
  <1>4. CASE cursor \in DOMAIN reverts /\ Funds(work) = past[cursor]
    <2>1. Adjacent(i, cursor)
      BY <1>1, <1>2, <1>4 DEF Adjacent
    <2>2. QED
      BY <1>1, <1>4, <2>1 DEF ChainExplained
  <1>5. QED
    BY <1>3, <1>4 DEF ForkExplained

\* What the next turn of the loop does.
LEMMA NextUndone ==
    ASSUME HistInv, pc = "fork", NEW i \in Pending, IsNext(i)
    PROVE  /\ UndoOk(work, reverts[i])
           /\ Undo(work, reverts[i]) \in Stores
           /\ Funds(Undo(work, reverts[i])) = past[i]
           /\ work.rows \subseteq Undo(work, reverts[i]).rows
  <1>1. i \in DOMAIN reverts
    BY DEF Pending
  <1>2. work \in Stores /\ reverts[i] \in Rows
    BY <1>1 DEF HistInv, TypeOK
  <1>3. /\ reverts[i].from # NoAddr \/ reverts[i].to # NoAddr
        /\ NeededRows(reverts[i]) \subseteq work.rows
        /\ IsMint(reverts[i]) \/ IsBurn(reverts[i])
              => collect[reverts[i].tick].deployed
    BY <1>1 DEF HistInv, RowsKept
  <1>4. Undoes(Funds(work), reverts[i], past[i])
    BY NextExplained
  <1>5. QED
    BY <1>2, <1>3, <1>4, UndoExplained

-----------------------------------------------------------------------------
(* HistInv is inductive: one lemma per action. *)

\* Every operation that writes a journal row, given that the row undoes it.
LEMMA JournalStep ==
    ASSUME HistInv, pc = "scan", Remember,
           NEW from \in Holders \cup {NoAddr}, NEW to \in Holders \cup {NoAddr},
           NEW t \in Ticks, NEW amt \in Nat, NEW r,
           r = [from |-> from, to |-> to, tick |-> t, amt |-> amt,
                height |-> height],
           Journal(from, to, t, amt),
           from # NoAddr \/ to # NoAddr,
           IsMint(r) \/ IsBurn(r) => collect[t].deployed,
           NeededRows(r) \subseteq store'.rows,
           store.rows \subseteq store'.rows,
           store' \in Stores,
           Undoes(Funds(store'), r, Funds(store)),
           UNCHANGED <<collect, height, pc, work, cursor, forkTo>>
    PROVE  HistInv'
  <1> USE DEF HistInv
  <1>1. /\ nextId \in Nat \ {0} /\ height \in Nat
        /\ DOMAIN reverts \subseteq 1..(nextId - 1)
        /\ nextId \notin DOMAIN reverts
        /\ r \in Rows
    BY DEF TypeOK, Rows
  <1>2. /\ nextId' = nextId + 1
        /\ DOMAIN reverts' = DOMAIN reverts \cup {nextId}
        /\ reverts'[nextId] = r
        /\ \A i \in DOMAIN reverts : reverts'[i] = reverts[i]
    BY <1>1 DEF Journal
  <1>3. /\ DOMAIN past' = DOMAIN reverts'
        /\ past'[nextId] = Funds(store)
        /\ \A i \in DOMAIN reverts : past'[i] = past[i]
    BY <1>1, <1>2 DEF Remember
  <1>4. Funds(store) \in AllFunds
    BY DEF TypeOK, Stores, Funds, AllFunds
  <1>5. TypeOK'
    BY <1>1, <1>2 DEF TypeOK
  <1>4b. /\ ended' \in [0..(height' - 1) -> AllFunds]
         /\ \A h \in 0..(height - 1) : ended'[h] = ended[h]
    BY <1>1, <1>4 DEF Remember, HistTypeOK
  <1>6. HistTypeOK'
    BY <1>2, <1>3, <1>4, <1>4b DEF HistTypeOK
  <1>7. JournalOrdered'
    <2>1. r.height = height
      OBVIOUS
    <2>2. \A i \in DOMAIN reverts : i < nextId /\ reverts[i].height <= height
      BY <1>1 DEF JournalOrdered
    <2>3. QED
      BY <1>1, <1>2, <2>1, <2>2 DEF JournalOrdered
  <1>8. ChainExplained'
    <2>1. SUFFICES ASSUME NEW i \in DOMAIN reverts', NEW j \in DOMAIN reverts',
                          Adjacent(i, j)'
                   PROVE  Undoes(past'[j], reverts'[i], past'[i])
      BY DEF ChainExplained
    <2>2. i < j /\ \A k \in DOMAIN reverts' : k <= i \/ k >= j
      BY <2>1 DEF Adjacent
    <2>3. i \in DOMAIN reverts
      BY <1>1, <1>2, <2>1, <2>2
    <2>4. CASE j = nextId
      <3>1. IsLast(i)
        BY <1>1, <1>2, <2>2, <2>4 DEF IsLast
      <3>2. QED
        BY <1>2, <1>3, <2>3, <2>4, <3>1 DEF StoreExplained
    <2>5. CASE j # nextId
      <3>1. j \in DOMAIN reverts /\ Adjacent(i, j)
        BY <1>2, <2>1, <2>2, <2>5 DEF Adjacent
      <3>2. QED
        BY <1>2, <1>3, <2>3, <3>1 DEF ChainExplained
    <2>6. QED
      BY <2>4, <2>5
  <1>9. StoreExplained'
    <2>1. SUFFICES ASSUME NEW i \in DOMAIN reverts', IsLast(i)'
                   PROVE  Undoes(Funds(store'), reverts'[i], past'[i])
      BY DEF StoreExplained, Funds
    <2>2. i = nextId
      BY <1>1, <1>2, <2>1 DEF IsLast
    <2>3. QED
      BY <1>2, <1>3, <2>2
  <1>10. RowsKept'
    <2>1. SUFFICES ASSUME NEW i \in DOMAIN reverts'
                   PROVE  /\ reverts'[i].from # NoAddr \/ reverts'[i].to # NoAddr
                          /\ NeededRows(reverts'[i]) \subseteq store'.rows
                          /\ IsMint(reverts'[i]) \/ IsBurn(reverts'[i])
                                => collect[reverts'[i].tick].deployed
      BY DEF RowsKept, NeededRows, IsMint, IsBurn
    <2>2. CASE i = nextId
      BY <1>2, <2>2
    <2>3. CASE i \in DOMAIN reverts
      BY <1>2, <2>3 DEF RowsKept
    <2>4. QED
      BY <1>2, <2>2, <2>3
  <1>11. ForkExplained'
    BY DEF ForkExplained
  <1>12. EndedExplained'
    <2>1. SUFFICES
            ASSUME NEW h \in 0..(height - 1)
            PROVE  /\ \A i \in DOMAIN reverts' :
                         IsFirstAbove(i, h)' => ended[h] = past'[i]
                   /\ \E i \in DOMAIN reverts' : ~(reverts'[i].height <= h)
      BY <1>4b DEF EndedExplained
    <2>2. reverts'[nextId].height > h
      BY <1>1, <1>2
    <2>3. ASSUME NEW i \in DOMAIN reverts', IsFirstAbove(i, h)'
          PROVE  ended[h] = past'[i]
      <3>1. CASE i = nextId
        <4>1. \A k \in DOMAIN reverts : reverts[k].height <= h
          BY <1>1, <1>2, <2>3, <3>1 DEF IsFirstAbove, TypeOK, Rows
        <4>2. QED
          BY <1>3, <3>1, <4>1 DEF EndedExplained
      <3>2. CASE i \in DOMAIN reverts
        <4>1. IsFirstAbove(i, h)
          BY <1>2, <2>3, <3>2 DEF IsFirstAbove
        <4>2. QED
          BY <1>3, <3>2, <4>1 DEF EndedExplained
      <3>3. QED
        BY <1>2, <3>1, <3>2
    <2>4. QED
      BY <1>1, <1>2, <2>2, <2>3
  <1>13. QED
    BY <1>5, <1>6, <1>7, <1>8, <1>9, <1>10, <1>11, <1>12

LEMMA MintStep ==
    ASSUME HistInv, pc = "scan", Remember,
           NEW t \in Ticks, NEW h \in Holders, NEW amt \in Nat, MintOk(t),
           store' = MintDrc20(store, t, h, amt, FALSE),
           Journal(NoAddr, h, t, amt),
           UNCHANGED <<collect, height, pc, work, cursor, forkTo>>
    PROVE  HistInv'
  <1> DEFINE r == [from |-> NoAddr, to |-> h, tick |-> t, amt |-> amt,
                   height |-> height]
  <1>1. store \in Stores /\ height \in Nat /\ h # NoAddr
    BY LedgerAssumption DEF HistInv, TypeOK
  <1>2. /\ r \in Rows /\ r.tick = t /\ r.to = h /\ r.amt = amt
        /\ IsMint(r)
        /\ NeededRows(r) = {<<t, h>>}
    BY <1>1 DEF Rows, IsMint, NeededRows
  <1>3. store' \in Stores
    BY <1>1, MintType
  <1>4. store.rows \subseteq store'.rows /\ <<t, h>> \in store'.rows
    BY DEF MintDrc20
  <1> HIDE DEF r
  <1>5. Undoes(Funds(MintDrc20(store, r.tick, r.to, r.amt, FALSE)), r,
               Funds(store))
    BY <1>1, <1>2, MintUndone
  <1>6. Undoes(Funds(store'), r, Funds(store))
    BY <1>2, <1>5
  <1>7. collect[t].deployed
    BY DEF MintOk
  <1>8. NoAddr \in Holders \cup {NoAddr} /\ h \in Holders \cup {NoAddr}
    OBVIOUS
  <1>9. NeededRows(r) \subseteq store'.rows
    BY <1>2, <1>4
  <1>10. QED
    BY <1>1, <1>3, <1>4, <1>6, <1>7, <1>8, <1>9, JournalStep DEF r

LEMMA BurnStep ==
    ASSUME HistInv, pc = "scan", Remember,
           NEW t \in Ticks, NEW h \in Holders, NEW amt \in Nat,
           BurnOk(store, t, h, amt),
           store' = BurnDrc20(store, t, h, amt, FALSE),
           Journal(h, NoAddr, t, amt),
           UNCHANGED <<collect, height, pc, work, cursor, forkTo>>
    PROVE  HistInv'
  <1> DEFINE r == [from |-> h, to |-> NoAddr, tick |-> t, amt |-> amt,
                   height |-> height]
  <1>1. store \in Stores /\ height \in Nat /\ h # NoAddr
    BY LedgerAssumption DEF HistInv, TypeOK
  <1>2. /\ r \in Rows /\ r.tick = t /\ r.from = h /\ r.amt = amt
        /\ IsBurn(r)
        /\ NeededRows(r) = {<<t, h>>}
    BY <1>1 DEF Rows, IsBurn, NeededRows
  <1>3. store' \in Stores
    BY <1>1, BurnType DEF BurnOk
  <1>4. store.rows \subseteq store'.rows /\ <<t, h>> \in store'.rows
    BY DEF BurnDrc20, BurnOk
  <1> HIDE DEF r
  <1>5. Undoes(Funds(BurnDrc20(store, r.tick, r.from, r.amt, FALSE)), r,
               Funds(store))
    BY <1>1, <1>2, BurnUndone
  <1>6. Undoes(Funds(store'), r, Funds(store))
    BY <1>2, <1>5
  <1>7. collect[t].deployed
    BY DEF BurnOk
  <1>8. NoAddr \in Holders \cup {NoAddr} /\ h \in Holders \cup {NoAddr}
    OBVIOUS
  <1>9. NeededRows(r) \subseteq store'.rows
    BY <1>2, <1>4
  <1>10. QED
    BY <1>1, <1>3, <1>4, <1>6, <1>7, <1>8, <1>9, JournalStep DEF r

LEMMA TransferStep ==
    ASSUME HistInv, pc = "scan", Remember,
           NEW t \in Ticks, NEW from \in Holders, NEW to \in Holders,
           NEW amt \in Nat, TransferOk(store, t, from, to, amt),
           store' = TransferDrc20(store, t, from, to, amt),
           Journal(from, to, t, amt),
           UNCHANGED <<collect, height, pc, work, cursor, forkTo>>
    PROVE  HistInv'
  <1> DEFINE r == [from |-> from, to |-> to, tick |-> t, amt |-> amt,
                   height |-> height]
  <1>1. store \in Stores /\ height \in Nat /\ from # NoAddr /\ to # NoAddr
    BY LedgerAssumption DEF HistInv, TypeOK
  <1>2. /\ r \in Rows /\ r.tick = t /\ r.from = from /\ r.to = to
        /\ r.amt = amt
        /\ ~IsMint(r) /\ ~IsBurn(r)
        /\ NeededRows(r) = {<<t, from>>, <<t, to>>}
    BY <1>1 DEF Rows, IsMint, IsBurn, NeededRows
  <1>3. store' \in Stores
    BY <1>1, TransferType
  <1>4. /\ store.rows \subseteq store'.rows
        /\ <<t, from>> \in store'.rows /\ <<t, to>> \in store'.rows
    BY DEF TransferDrc20, TransferOk
  <1> HIDE DEF r
  <1>5. Undoes(Funds(TransferDrc20(store, r.tick, r.from, r.to, r.amt)), r,
               Funds(store))
    BY <1>1, <1>2, TransferUndone
  <1>6. Undoes(Funds(store'), r, Funds(store))
    BY <1>2, <1>5
  <1>7. from \in Holders \cup {NoAddr} /\ to \in Holders \cup {NoAddr}
    OBVIOUS
  <1>8. NeededRows(r) \subseteq store'.rows
    BY <1>2, <1>4
  <1>9. QED
    BY <1>1, <1>2, <1>3, <1>4, <1>6, <1>7, <1>8, JournalStep DEF r

LEMMA UndoStep ==
    ASSUME HistInv, UndoNext, Remember
    PROVE  HistInv'
  <1> USE DEF HistInv
  <1>1. PICK i \in Pending : /\ IsNext(i)
                             /\ work' = Undo(work, reverts[i])
                             /\ cursor' = i
    BY DEF UndoNext
  <1>2. /\ pc = "fork" /\ pc' = "fork"
        /\ UNCHANGED <<collect, store, reverts, nextId, height, forkTo>>
    BY DEF UndoNext
  <1>3. /\ work' \in Stores
        /\ Funds(work') = past[i]
        /\ work.rows \subseteq work'.rows
    BY <1>1, <1>2, NextUndone
  <1>4. i \in DOMAIN reverts /\ i \in Nat /\ reverts[i].height > forkTo
    BY DEF Pending, TypeOK
  <1>5. /\ \A k \in DOMAIN reverts : past'[k] = past[k]
        /\ ended' = ended
    BY <1>2 DEF Remember, HistTypeOK, TypeOK
  <1>6. TypeOK'
    BY <1>1, <1>2, <1>3, <1>4 DEF TypeOK
  <1>7. HistTypeOK'
    BY <1>2, <1>5 DEF HistTypeOK, Remember
  <1>8. JournalOrdered'
    BY <1>2 DEF JournalOrdered
  <1>9. ChainExplained'
    BY <1>2, <1>5 DEF ChainExplained, Adjacent
  <1>10. StoreExplained'
    BY <1>2, <1>5 DEF StoreExplained, IsLast, Funds
  <1>11. RowsKept'
    BY <1>2, <1>3 DEF RowsKept, NeededRows, IsMint, IsBurn
  <1>12. ForkExplained'
    <2>1. forkTo' < height'
      BY <1>2 DEF ForkExplained
    <2>2. \A k \in DOMAIN reverts : k >= i => reverts[k].height > forkTo
      <3>1. SUFFICES ASSUME NEW k \in DOMAIN reverts, k >= i
                     PROVE  reverts[k].height > forkTo
        OBVIOUS
      <3>2. /\ reverts[k].height \in Nat /\ reverts[i].height \in Nat
            /\ k \in Nat /\ forkTo \in Nat
        BY <1>4 DEF TypeOK, Rows
      <3>3. i < k => reverts[i].height <= reverts[k].height
        BY <1>4 DEF JournalOrdered
      <3>4. QED
        BY <1>4, <3>1, <3>2, <3>3
    <2>3. Funds(work') = past'[i]
      BY <1>3, <1>4, <1>5
    <2>4. QED
      BY <1>1, <1>2, <1>4, <2>1, <2>2, <2>3 DEF ForkExplained, Funds
  <1>13. EndedExplained'
    BY <1>2, <1>5 DEF EndedExplained, IsFirstAbove, Funds
  <1>14. QED
    BY <1>6, <1>7, <1>8, <1>9, <1>10, <1>11, <1>12, <1>13

LEMMA CommitStep ==
    ASSUME HistInv, CommitFork, Remember
    PROVE  HistInv'
  <1> USE DEF HistInv
  <1> DEFINE kept == {i \in DOMAIN reverts : reverts[i].height <= forkTo}
  <1>1. /\ pc = "fork" /\ pc' = "scan" /\ Pending = {}
        /\ store' = work /\ height' = forkTo
        /\ work' = EmptyStore /\ cursor' = 0 /\ forkTo' = 0
        /\ UNCHANGED <<collect, nextId>>
    BY DEF CommitFork, EndFork
  <1>2. /\ DOMAIN reverts' = kept
        /\ \A i \in kept : i \in DOMAIN reverts /\ reverts'[i] = reverts[i]
    BY DEF CommitFork, DelRevert
  <1>3. /\ \A i \in kept : past'[i] = past[i]
        /\ forkTo < height
        /\ ended' = [h \in 0..(forkTo - 1) |-> ended[h]]
    BY <1>1, <1>2 DEF Remember, ForkExplained, TypeOK
  <1>4. /\ DOMAIN reverts \subseteq Nat
        /\ \A i \in DOMAIN reverts : reverts[i].height \in Nat
        /\ forkTo \in Nat /\ nextId \in Nat /\ cursor \in Nat
        /\ \A i \in DOMAIN reverts : i < nextId
    BY DEF TypeOK, Rows
  \* The rows that go are all above those that stay.
  <1>5. \A i \in kept, k \in DOMAIN reverts : k \notin kept => i < k
    BY <1>4 DEF JournalOrdered
  <1>6. \A k \in DOMAIN reverts : k \in kept <=> k < cursor
    <2>1. ASSUME NEW k \in DOMAIN reverts, k < cursor PROVE k \in kept
      BY <1>1, <1>4, <2>1 DEF Pending
    <2>2. ASSUME NEW k \in kept PROVE k < cursor
      BY <1>1, <1>4 DEF ForkExplained
    <2>3. QED
      BY <2>1, <2>2
  <1> HIDE DEF kept
  <1>7. TypeOK'
    <2>1. EmptyStore \in Stores
      BY LedgerAssumption DEF EmptyStore, Stores
    <2>2. kept \subseteq DOMAIN reverts
      BY <1>2
    <2>3. QED
      BY <1>1, <1>2, <2>1, <2>2 DEF TypeOK
  <1>8. HistTypeOK'
    <2>1. DOMAIN past' = DOMAIN reverts'
      BY DEF Remember
    <2>2. ended' \in [0..(height' - 1) -> AllFunds]
      BY <1>1, <1>3, <1>4 DEF HistTypeOK, TypeOK
    <2>3. QED
      BY <1>2, <1>3, <2>1, <2>2 DEF HistTypeOK
  <1>9. JournalOrdered'
    BY <1>1, <1>2 DEF JournalOrdered, kept
  <1>10. ChainExplained'
    <2>1. SUFFICES ASSUME NEW i \in kept, NEW j \in kept, Adjacent(i, j)'
                   PROVE  Undoes(past'[j], reverts'[i], past'[i])
      BY <1>2 DEF ChainExplained
    <2>2. Adjacent(i, j)
      BY <1>2, <1>4, <1>5, <2>1 DEF Adjacent
    <2>3. QED
      BY <1>2, <1>3, <2>2 DEF ChainExplained
  <1>11. StoreExplained'
    <2>1. SUFFICES ASSUME NEW i \in kept, IsLast(i)'
                   PROVE  Undoes(Funds(work), reverts[i], past[i])
      BY <1>1, <1>2, <1>3 DEF StoreExplained, Funds
    <2>2. i \in DOMAIN reverts /\ \A k \in kept : k <= i
      BY <1>2, <2>1 DEF IsLast
    <2>3. CASE cursor = nextId /\ Funds(work) = Funds(store)
      <3>1. IsLast(i)
        BY <1>4, <1>6, <2>2, <2>3 DEF IsLast
      <3>2. QED
        BY <2>2, <2>3, <3>1 DEF StoreExplained
    <2>4. CASE cursor \in DOMAIN reverts /\ Funds(work) = past[cursor]
      <3>1. Adjacent(i, cursor)
        BY <1>4, <1>6, <2>1, <2>2, <2>4 DEF Adjacent
      <3>2. QED
        BY <2>2, <2>4, <3>1 DEF ChainExplained
    <2>5. QED
      BY <1>1, <2>3, <2>4 DEF ForkExplained
  <1>12. RowsKept'
    BY <1>1, <1>2 DEF RowsKept, NeededRows, IsMint, IsBurn
  <1>13. ForkExplained'
    BY <1>1 DEF ForkExplained
  <1>14. EndedExplained'
    <2>1. SUFFICES
            ASSUME NEW h \in 0..(forkTo - 1)
            PROVE  /\ \A i \in kept : IsFirstAbove(i, h)' => ended[h] = past[i]
                   /\ (\A i \in kept : reverts[i].height <= h)
                         => ended[h] = Funds(work)
      BY <1>1, <1>2, <1>3 DEF EndedExplained, Funds
    <2>2. h \in 0..(height - 1)
      BY <1>3, <1>4 DEF TypeOK
    <2>3. ASSUME NEW i \in kept, IsFirstAbove(i, h)'
          PROVE  ended[h] = past[i]
      <3>1. IsFirstAbove(i, h)
        BY <1>2, <1>4, <1>5, <2>3 DEF IsFirstAbove
      <3>2. QED
        BY <1>2, <2>2, <3>1 DEF EndedExplained
    <2>4. ASSUME \A i \in kept : reverts[i].height <= h
          PROVE  ended[h] = Funds(work)
      <3>1. CASE cursor = nextId /\ Funds(work) = Funds(store)
        <4>1. \A i \in DOMAIN reverts : i \in kept
          BY <1>4, <1>6, <3>1
        <4>2. QED
          BY <2>2, <2>4, <3>1, <4>1 DEF EndedExplained
      <3>2. CASE cursor \in DOMAIN reverts /\ Funds(work) = past[cursor]
        <4>1. reverts[cursor].height > h
          BY <1>1, <1>4, <3>2 DEF ForkExplained
        <4>2. IsFirstAbove(cursor, h)
          BY <1>4, <1>6, <2>4, <3>2, <4>1 DEF IsFirstAbove
        <4>3. QED
          BY <2>2, <3>2, <4>2 DEF EndedExplained
      <3>3. QED
        BY <1>1, <3>1, <3>2 DEF ForkExplained
    <2>5. QED
      BY <2>3, <2>4
  <1>15. QED
    BY <1>7, <1>8, <1>9, <1>10, <1>11, <1>12, <1>13, <1>14

\* The steps that leave the amounts, the journal and the history alone.
LEMMA QuietStep ==
    ASSUME HistInv, Remember, TypeOK', ForkExplained',
           UNCHANGED <<store, reverts, nextId>>,
           \A t \in Ticks : collect[t].deployed => collect'[t].deployed,
           height' >= height,
           pc' = "fork" => \/ pc = "fork" /\ work' = work
                           \/ work' = store
    PROVE  HistInv'
  <1> USE DEF HistInv
  <1>1. \A i \in DOMAIN reverts : past'[i] = past[i]
    BY DEF Remember
  <1>2. HistTypeOK'
    <2>1. Funds(store) \in AllFunds
      BY DEF TypeOK, Stores, Funds, AllFunds
    <2>2. ASSUME NEW h \in 0..(height' - 1), h < height
          PROVE  ended[h] \in AllFunds
      <3>1. h \in 0..(height - 1) /\ ended \in [0..(height - 1) -> AllFunds]
        BY <2>2 DEF HistTypeOK, TypeOK
      <3>2. QED
        BY <3>1
    <2>3. ended' \in [0..(height' - 1) -> AllFunds]
      BY <2>1, <2>2 DEF Remember
    <2>4. QED
      BY <1>1, <2>3 DEF HistTypeOK, Remember
  <1>3. JournalOrdered'
    <2>1. \A i \in DOMAIN reverts : reverts[i].height \in Nat
      BY DEF TypeOK, Rows
    <2>2. QED
      BY <2>1 DEF JournalOrdered, TypeOK
  <1>4. ChainExplained'
    BY <1>1 DEF ChainExplained, Adjacent
  <1>5. StoreExplained'
    BY <1>1 DEF StoreExplained, IsLast, Funds
  <1>6. RowsKept'
    <2>1. \A i \in DOMAIN reverts : reverts[i].tick \in Ticks
      BY DEF TypeOK, Rows
    <2>2. QED
      BY <2>1 DEF RowsKept, NeededRows, IsMint, IsBurn
  <1>7. EndedExplained'
    <2>1. SUFFICES
            ASSUME NEW h \in 0..(height' - 1)
            PROVE  /\ \A i \in DOMAIN reverts :
                         IsFirstAbove(i, h) => ended'[h] = past[i]
                   /\ (\A i \in DOMAIN reverts : reverts[i].height <= h)
                         => ended'[h] = Funds(store)
      BY <1>1 DEF EndedExplained, IsFirstAbove, Funds
    <2>2. CASE h < height
      <3>1. h \in 0..(height - 1) /\ ended'[h] = ended[h]
        BY <2>2 DEF Remember, TypeOK
      <3>2. QED
        BY <3>1 DEF EndedExplained
    <2>3. CASE h >= height
      <3>1. ended'[h] = Funds(store)
        BY <2>3 DEF Remember, TypeOK
      <3>2. \A i \in DOMAIN reverts : ~IsFirstAbove(i, h)
        BY <2>3 DEF IsFirstAbove, JournalOrdered, TypeOK, Rows
      <3>3. QED
        BY <3>1, <3>2
    <2>4. QED
      BY <2>2, <2>3 DEF TypeOK
  <1>8. QED
    BY <1>2, <1>3, <1>4, <1>5, <1>6, <1>7

LEMMA DeployStep ==
    ASSUME HistInv, Remember,
           NEW t \in Ticks, NEW max \in Amounts, NEW lim \in Amounts,
           Deploy(t, max, lim)
    PROVE  HistInv'
  <1>1. /\ collect' \in [Ticks -> [deployed : BOOLEAN, max : Nat, lim : Nat]]
        /\ \A u \in Ticks : collect[u].deployed => collect'[u].deployed
    BY LedgerAssumption DEF Deploy, HistInv, TypeOK
  <1>2. TypeOK'
    BY <1>1 DEF Deploy, HistInv, TypeOK
  <1>3. ForkExplained' /\ pc' = "scan" /\ height' >= height
    BY DEF Deploy, ForkExplained, HistInv, TypeOK
  <1>4. QED
    BY <1>1, <1>2, <1>3, QuietStep DEF Deploy

LEMMA BlockStep ==
    ASSUME HistInv, Remember, NextBlock
    PROVE  HistInv'
  <1>1. TypeOK'
    BY DEF NextBlock, HistInv, TypeOK
  <1>2. ForkExplained' /\ pc' = "scan" /\ height' >= height
    BY DEF NextBlock, ForkExplained, HistInv, TypeOK
  <1>3. QED
    BY <1>1, <1>2, QuietStep DEF NextBlock

LEMMA BeginStep ==
    ASSUME HistInv, Remember, NEW h \in 0..(height - 1), BeginFork(h)
    PROVE  HistInv'
  <1>1. TypeOK'
    BY DEF BeginFork, HistInv, TypeOK
  <1>2. /\ pc' = "fork" /\ work' = store /\ cursor' = nextId /\ forkTo' = h
        /\ UNCHANGED <<collect, store, reverts, nextId, height>>
    BY DEF BeginFork
  <1>3. ForkExplained'
    <2>1. \A i \in DOMAIN reverts : ~(i >= nextId)
      BY DEF HistInv, TypeOK
    <2>2. h < height
      BY DEF HistInv, TypeOK
    <2>3. QED
      BY <1>2, <2>1, <2>2 DEF ForkExplained, Funds
  <1>4. height' >= height
    BY <1>2 DEF HistInv, TypeOK
  <1>5. QED
    BY <1>1, <1>2, <1>3, <1>4, QuietStep

LEMMA AbortStep ==
    ASSUME HistInv, Remember, AbortFork
    PROVE  HistInv'
  <1>1. EmptyStore \in Stores
    BY LedgerAssumption DEF EmptyStore, Stores
  <1>2. TypeOK'
    BY <1>1 DEF AbortFork, EndFork, HistInv, TypeOK
  <1>3. ForkExplained' /\ pc' = "scan" /\ height' >= height
    BY DEF AbortFork, EndFork, ForkExplained, HistInv, TypeOK
  <1>4. QED
    BY <1>2, <1>3, QuietStep DEF AbortFork

LEMMA OperationStep ==
    ASSUME HistInv, Remember, Operations
    PROVE  HistInv'
  <1>1. \A x, y \in Nat : x * y \in Nat
    OBVIOUS
  <1>2. Amounts \subseteq Nat /\ Addresses \subseteq Holders
        /\ ProtocolTicks \subseteq Ticks /\ 0..MaxRepeat \subseteq Nat
    BY LedgerAssumption DEF Addresses
  <1>3. ASSUME NEW t \in Ticks, NEW max \in Amounts, NEW lim \in Amounts,
               Deploy(t, max, lim)
        PROVE  HistInv'
    BY <1>3, DeployStep
  <1>4. ASSUME NEW t \in Ticks, NEW holder \in Addresses, NEW amt \in Amounts,
               NEW repeat \in 0..MaxRepeat, InscribedMint(t, holder, amt, repeat)
        PROVE  HistInv'
    <2>1. amt * repeat \in Nat
      BY <1>1, <1>2
    <2>2. QED
      BY <1>2, <1>4, <2>1, MintStep DEF InscribedMint
  <1>5. ASSUME NEW t \in Ticks, NEW from \in Addresses, NEW to \in Holders,
               NEW amt \in Amounts,
               \/ Transfer(t, from, to, amt)
               \/ ProtocolTransfer(t, from, to, amt)
        PROVE  HistInv'
    BY <1>2, <1>5, TransferStep DEF Transfer, ProtocolTransfer
  <1>6. ASSUME NEW t \in ProtocolTicks, NEW holder \in Addresses,
               NEW amt \in Amounts, ProtocolMint(t, holder, amt)
        PROVE  HistInv'
    BY <1>2, <1>6, MintStep DEF ProtocolMint
  <1>7. ASSUME NEW t \in ProtocolTicks, NEW holder \in Addresses,
               NEW amt \in Amounts, ProtocolBurn(t, holder, amt)
        PROVE  HistInv'
    BY <1>2, <1>7, BurnStep DEF ProtocolBurn
  <1>8. QED
    BY <1>2, <1>3, <1>4, <1>5, <1>6, <1>7 DEF Operations

-----------------------------------------------------------------------------
(* Theorems *)

\* For every set of ticks and holders and every length of chain and journal,
\* the invariant that relates the journal of storage/common.go to the
\* balances holds: each row still undoes its operation (drc20Fork).
THEOREM HistInvariant == HistSpec => []HistInv
  <1>1. HistInit => HistInv
    <2>1. SUFFICES ASSUME HistInit PROVE HistInv
      OBVIOUS
    <2>2. EmptyStore \in Stores
      BY LedgerAssumption DEF EmptyStore, Stores
    <2>3. DOMAIN reverts = {} /\ DOMAIN past = {}
      BY <2>1 DEF HistInit, Init
    <2>4. pc = "scan"
      BY <2>1 DEF HistInit, Init
    <2>5. TypeOK /\ height = 0
      BY <2>1, <2>2, <2>3 DEF HistInit, Init, TypeOK
    <2>6. ended \in [0..(height - 1) -> AllFunds]
      BY <2>1, <2>5 DEF HistInit
    <2>7. QED
      BY <2>3, <2>4, <2>5, <2>6 DEF HistInv, HistTypeOK, JournalOrdered,
                              ChainExplained, StoreExplained, RowsKept,
                              ForkExplained, EndedExplained
  <1>2. HistInv /\ [HistNext]_histVars => HistInv'
    <2>1. CASE HistNext /\ HistInv
      <3>1. Remember
        BY <2>1 DEF HistNext
      <3>2. CASE Operations
        BY <2>1, <3>1, <3>2, OperationStep
      <3>3. CASE NextBlock
        BY <2>1, <3>1, <3>3, BlockStep
      <3>4. CASE \E h \in 0..(height - 1) : BeginFork(h)
        BY <2>1, <3>1, <3>4, BeginStep
      <3>5. CASE UndoNext
        BY <2>1, <3>1, <3>5, UndoStep
      <3>6. CASE CommitFork
        BY <2>1, <3>1, <3>6, CommitStep
      <3>7. CASE AbortFork
        BY <2>1, <3>1, <3>7, AbortStep
      <3>8. QED
        BY <2>1, <3>2, <3>3, <3>4, <3>5, <3>6, <3>7 DEF HistNext, Next
    <2>2. CASE UNCHANGED histVars /\ HistInv
      BY <2>2 DEF histVars, vars, HistInv, TypeOK, HistTypeOK, JournalOrdered,
                  ChainExplained, Adjacent, StoreExplained, IsLast, Funds,
                  EndedExplained, IsFirstAbove, RowsKept, NeededRows, IsMint, IsBurn, ForkExplained
    <2>3. QED
      BY <2>1, <2>2
  <1>3. QED
    BY <1>1, <1>2, PTL DEF HistSpec

\* The tables never hold a negative amount, a counter out of its range or a
\* journal row with an id not yet given: the uint64 and big.Int columns of
\* storage/common.go are used within their types.
THEOREM TypeCorrect == HistSpec => []TypeOK
  BY HistInvariant, PTL DEF HistInv

\* Ids and block numbers of drc20_revert grow together, so the rows fork()
\* selects by block number are the last ones written.
THEOREM JournalIsOrdered == HistSpec => []JournalOrdered
  BY HistInvariant, PTL DEF HistInv

\* drc20Fork never meets a missing row or an insufficient balance.
THEOREM UndoAlwaysPossible == HistSpec => []UndoNeverFails
  <1>1. HistInv => UndoNeverFails
    BY NextUndone DEF UndoNeverFails
  <1>2. QED
    BY <1>1, HistInvariant, PTL

\* At the end of the undo loop the working copy is the checkpoint of forkTo.
LEMMA EndOfFork ==
    ASSUME HistInv, pc = "fork", Pending = {}
    PROVE  ended[forkTo] = Funds(work)
  <1>1. /\ DOMAIN reverts \subseteq Nat
        /\ \A i \in DOMAIN reverts : reverts[i].height \in Nat /\ i < nextId
        /\ forkTo \in 0..(height - 1) /\ nextId \in Nat /\ cursor \in Nat
    BY DEF HistInv, TypeOK, Rows, ForkExplained
  <1>2. /\ \A i \in DOMAIN reverts : i >= cursor => reverts[i].height > forkTo
        /\ \/ cursor = nextId /\ Funds(work) = Funds(store)
           \/ cursor \in DOMAIN reverts /\ Funds(work) = past[cursor]
    BY DEF HistInv, ForkExplained
  <1>3. \A i \in DOMAIN reverts : reverts[i].height > forkTo => i >= cursor
    BY <1>1 DEF Pending
  <1>4. CASE cursor = nextId /\ Funds(work) = Funds(store)
    <2>1. \A i \in DOMAIN reverts : reverts[i].height <= forkTo
      BY <1>1, <1>3, <1>4
    <2>2. QED
      BY <1>1, <1>4, <2>1 DEF HistInv, EndedExplained
  <1>5. CASE cursor \in DOMAIN reverts /\ Funds(work) = past[cursor]
    <2>1. IsFirstAbove(cursor, forkTo)
      BY <1>1, <1>2, <1>3, <1>5 DEF IsFirstAbove
    <2>2. QED
      BY <1>1, <1>5, <2>1 DEF HistInv, EndedExplained
  <1>6. QED
    BY <1>2, <1>4, <1>5

\* When drc20Fork's loop ends, its copy of the tables has the amounts
\* from when the block it returns to ended.
THEOREM RollbackIsExact == HistSpec => []RollbackRestores
  <1>1. HistInv => RollbackRestores
    BY EndOfFork DEF RollbackRestores
  <1>2. QED
    BY <1>1, HistInvariant, PTL

\* The ledger with its journal implements the ledger with checkpoints: every
\* operation changes only the present, and committing a fork to block h gives
\* back the amounts as they were when block h ended (fork(), drc20Fork).
THEOREM LedgerImplementsCheckpoints == HistSpec => ImplementsCheckpoints
  <1> USE DEF Checkpoints!absVars
  <1>1. HistInit => Checkpoints!AbsInit
    BY DEF HistInit, Init, Checkpoints!AbsInit
  <1>2. HistInv /\ HistInv' /\ [HistNext]_histVars
          => [Checkpoints!AbsNext]_Checkpoints!absVars
    <2>1. SUFFICES ASSUME HistInv, HistInv', [HistNext]_histVars
                   PROVE  [Checkpoints!AbsNext]_Checkpoints!absVars
      OBVIOUS
    <2>2. /\ ended \in [0..(height - 1) -> AllFunds] /\ height \in Nat
          /\ Funds(store') \in AllFunds
      BY <2>1 DEF HistInv, HistTypeOK, TypeOK, Funds, AllFunds, Stores
    <2>3. ASSUME Remember, UNCHANGED height
          PROVE  [Checkpoints!AbsNext]_Checkpoints!absVars
      <3>1. UNCHANGED ended
        BY <2>2, <2>3 DEF Remember
      <3>2. Checkpoints!Operate
        BY <2>2, <2>3, <3>1 DEF Checkpoints!Operate, Funds
      <3>3. QED
        BY <3>2 DEF Checkpoints!AbsNext
    <2>4. ASSUME Remember, NextBlock
          PROVE  [Checkpoints!AbsNext]_Checkpoints!absVars
      <3>1. height' = height + 1 /\ UNCHANGED store
        BY <2>4 DEF NextBlock
      <3>2. ended' = [h \in 0..height |->
                        IF h = height THEN Funds(store) ELSE ended[h]]
        BY <2>2, <2>4, <3>1 DEF Remember
      <3>3. Checkpoints!EndBlock
        BY <3>1, <3>2 DEF Checkpoints!EndBlock, Funds
      <3>4. QED
        BY <3>3 DEF Checkpoints!AbsNext
    <2>5. ASSUME Remember, CommitFork
          PROVE  [Checkpoints!AbsNext]_Checkpoints!absVars
      <3>1. pc = "fork" /\ Pending = {} /\ store' = work /\ height' = forkTo
        BY <2>5 DEF CommitFork
      <3>2. forkTo \in 0..(height - 1)
        BY <2>1, <3>1 DEF HistInv, ForkExplained, TypeOK
      <3>3. ended[forkTo] = Funds(work)
        BY <2>1, <3>1, <3>2, EndOfFork
      <3>4. ended' = [g \in 0..(forkTo - 1) |-> ended[g]]
        BY <2>2, <2>5, <3>1, <3>2 DEF Remember
      <3>5. Checkpoints!Rollback(forkTo)
        BY <3>1, <3>3, <3>4 DEF Checkpoints!Rollback, Funds
      <3>6. QED
        BY <3>2, <3>5 DEF Checkpoints!AbsNext
    <2>6. CASE HistNext
      <3>1. Remember
        BY <2>6 DEF HistNext
      <3>2. Operations => UNCHANGED height
        BY DEF Operations, Deploy, InscribedMint, Transfer, ProtocolMint, ProtocolBurn,
               ProtocolTransfer
      <3>3. /\ \A h : BeginFork(h) => UNCHANGED height
            /\ UndoNext \/ AbortFork => UNCHANGED height
        BY DEF BeginFork, UndoNext, AbortFork
      <3>4. QED
        BY <2>3, <2>4, <2>5, <2>6, <3>1, <3>2, <3>3 DEF HistNext, Next
    <2>7. CASE UNCHANGED histVars
      BY <2>7 DEF histVars, vars
    <2>8. QED
      BY <2>1, <2>6, <2>7
  <1>3. QED
    BY <1>1, <1>2, HistInvariant, PTL
       DEF HistSpec, ImplementsCheckpoints, Checkpoints!AbsSpec

-----------------------------------------------------------------------------
(* The supply: sums of balances, and the counter of mints and burns. *)

IntBalances == [Ticks -> [Holders -> Int]]

\* One balance changes, and with it the sum of its tick alone.
LEMMA CreditSum ==
    ASSUME NEW f \in IntBalances, NEW t \in Ticks,
           NEW h \in Holders, NEW amt \in Nat
    PROVE  /\ Credit(f, t, h, amt) \in IntBalances
           /\ Debit(f, t, h, amt) \in IntBalances
           /\ \A u \in Ticks :
                /\ SumFunction(f[u]) \in Int
                /\ SumFunction(Credit(f, t, h, amt)[u]) =
                     SumFunction(f[u]) + (IF u = t THEN amt ELSE 0)
                /\ SumFunction(Debit(f, t, h, amt)[u]) =
                     SumFunction(f[u]) - (IF u = t THEN amt ELSE 0)
  <1> USE DEF IntBalances
  <1>1. Credit(f, t, h, amt) \in IntBalances /\ Debit(f, t, h, amt) \in IntBalances
    BY DEF Credit, Debit
  <1>2. IsFiniteSet(Holders)
    BY LedgerAssumption
  <1>3. ASSUME NEW u \in Ticks PROVE SumFunction(f[u]) \in Int
    <2>1. f[u] \in [Holders -> Int]
      OBVIOUS
    <2>2. QED
      BY <1>2, <2>1, SumInt
  <1>4. ASSUME NEW g \in [Holders -> Int], NEW d \in Int
        PROVE  SumFunction([g EXCEPT ![h] = @ + d]) = SumFunction(g) + d
    <2> DEFINE g2 == [g EXCEPT ![h] = @ + d]
    <2>1. g2 \in [Holders -> Int] /\ g2[h] = g[h] + d
          /\ \A y \in Holders \ {h} : g2[y] = g[y]
      OBVIOUS
    <2> HIDE DEF g2
    <2>2. SumFunction(g2) = SumFunction(g) - g[h] + g2[h]
      BY <1>2, <2>1, SumUpdate
    <2>3. SumFunction(g) \in Int /\ g[h] \in Int
      BY <1>2, SumInt
    <2>4. SumFunction(g2) = SumFunction(g) + d
      BY <2>1, <2>2, <2>3
    <2>5. QED
      BY <2>4 DEF g2
  <1>5. ASSUME NEW u \in Ticks, u # t
        PROVE  Credit(f, t, h, amt)[u] = f[u] /\ Debit(f, t, h, amt)[u] = f[u]
    BY <1>5 DEF Credit, Debit
  <1>6. /\ SumFunction(Credit(f, t, h, amt)[t]) = SumFunction(f[t]) + amt
        /\ SumFunction(Debit(f, t, h, amt)[t]) = SumFunction(f[t]) - amt
    <2> DEFINE g == f[t]
    <2>1. g \in [Holders -> Int] /\ amt \in Int /\ -amt \in Int
      OBVIOUS
    <2>2. Credit(f, t, h, amt)[t] = [g EXCEPT ![h] = @ + amt]
      BY DEF Credit
    <2>3. Debit(f, t, h, amt)[t] = [g EXCEPT ![h] = @ + (-amt)]
      <3>1. g[h] - amt = g[h] + (-amt)
        BY <2>1
      <3>2. Debit(f, t, h, amt)[t] = [g EXCEPT ![h] = @ - amt]
        BY DEF Debit
      <3>3. QED
        BY <3>1, <3>2
    <2>4. SumFunction(g) \in Int
      BY <1>3
    <2> HIDE DEF g
    <2>5. /\ SumFunction([g EXCEPT ![h] = @ + amt]) = SumFunction(g) + amt
          /\ SumFunction([g EXCEPT ![h] = @ + (-amt)]) = SumFunction(g) + (-amt)
      <3>1. SumFunction([g EXCEPT ![h] = @ + amt]) = SumFunction(g) + amt
        BY <1>4, <2>1
      <3> DEFINE d == -amt
      <3>2. d \in Int
        BY <2>1
      <3> HIDE DEF d
      <3>3. SumFunction([g EXCEPT ![h] = @ + d]) = SumFunction(g) + d
        BY <1>4, <2>1, <3>2
      <3>4. QED
        BY <3>1, <3>3 DEF d
    <2>6. SumFunction(g) + (-amt) = SumFunction(g) - amt
      BY <2>4
    <2>7. QED
      BY <2>2, <2>3, <2>5, <2>6 DEF g
  <1>7. QED
    BY <1>1, <1>3, <1>5, <1>6

LEMMA StoreIntegers ==
    ASSUME NEW s \in Stores
    PROVE  /\ s.bal \in IntBalances
           /\ s.sum \in [Ticks -> Nat]
           /\ s.trans \in [Ticks -> 0..(Counter - 1)]
  BY DEF Stores, IntBalances

LEMMA ConservedMint ==
    ASSUME NEW s \in Stores, NEW t \in Ticks, NEW h \in Holders, NEW amt \in Nat,
           NEW fork, Conserved(s)
    PROVE  Conserved(MintDrc20(s, t, h, amt, fork))
  <1> DEFINE s2 == MintDrc20(s, t, h, amt, fork)
  <1>1. s2.bal = Credit(s.bal, t, h, amt) /\ s2.sum = [s.sum EXCEPT ![t] = @ + amt]
    BY DEF MintDrc20
  <1> HIDE DEF s2
  <1>2. ASSUME NEW u \in Ticks PROVE SumFunction(s2.bal[u]) = s2.sum[u]
    <2>0. s.bal \in IntBalances
      BY StoreIntegers
    <2>1. SumFunction(s2.bal[u]) = SumFunction(s.bal[u]) + (IF u = t THEN amt ELSE 0)
      BY <1>1, <2>0, CreditSum
    <2>2. SumFunction(s.bal[u]) = s.sum[u] /\ s.sum[u] \in Nat
      BY StoreIntegers DEF Conserved
    <2>3. s2.sum[u] = s.sum[u] + (IF u = t THEN amt ELSE 0)
      BY <1>1, StoreIntegers
    <2>4. QED
      BY <2>1, <2>2, <2>3
  <1>3. QED
    BY <1>2 DEF Conserved, s2

LEMMA ConservedBurn ==
    ASSUME NEW s \in Stores, NEW t \in Ticks, NEW h \in Holders, NEW amt \in Nat,
           NEW fork, Conserved(s)
    PROVE  Conserved(BurnDrc20(s, t, h, amt, fork))
  <1> DEFINE s2 == BurnDrc20(s, t, h, amt, fork)
  <1>1. s2.bal = Debit(s.bal, t, h, amt) /\ s2.sum = [s.sum EXCEPT ![t] = @ - amt]
    BY DEF BurnDrc20
  <1> HIDE DEF s2
  <1>2. ASSUME NEW u \in Ticks PROVE SumFunction(s2.bal[u]) = s2.sum[u]
    <2>0. s.bal \in IntBalances
      BY StoreIntegers
    <2>1. SumFunction(s2.bal[u]) = SumFunction(s.bal[u]) - (IF u = t THEN amt ELSE 0)
      BY <1>1, <2>0, CreditSum
    <2>2. SumFunction(s.bal[u]) = s.sum[u] /\ s.sum[u] \in Nat
      BY StoreIntegers DEF Conserved
    <2>3. s2.sum[u] = s.sum[u] - (IF u = t THEN amt ELSE 0)
      BY <1>1, StoreIntegers
    <2>4. QED
      BY <2>1, <2>2, <2>3
  <1>3. QED
    BY <1>2 DEF Conserved, s2

LEMMA ConservedTransfer ==
    ASSUME NEW s \in Stores, NEW t \in Ticks, NEW from \in Holders,
           NEW to \in Holders, NEW amt \in Nat, Conserved(s)
    PROVE  Conserved(TransferDrc20(s, t, from, to, amt))
  <1> DEFINE s2 == TransferDrc20(s, t, from, to, amt)
             b == Debit(s.bal, t, from, amt)
  <1>1. s2.bal = Credit(b, t, to, amt) /\ s2.sum = s.sum
    BY DEF TransferDrc20
  <1>2. /\ b \in IntBalances
        /\ \A u \in Ticks : SumFunction(b[u]) =
                              SumFunction(s.bal[u]) - (IF u = t THEN amt ELSE 0)
    <2>1. s.bal \in IntBalances
      BY StoreIntegers
    <2>2. QED
      BY <2>1, CreditSum
  <1> HIDE DEF s2, b
  <1>3. ASSUME NEW u \in Ticks PROVE SumFunction(s2.bal[u]) = s2.sum[u]
    <2>1. SumFunction(s2.bal[u]) = SumFunction(b[u]) + (IF u = t THEN amt ELSE 0)
      BY <1>1, <1>2, CreditSum
    <2>2. SumFunction(s.bal[u]) = s.sum[u] /\ s.sum[u] \in Nat
      BY StoreIntegers DEF Conserved
    <2>3. QED
      BY <1>1, <1>2, <2>1, <2>2
  <1>4. QED
    BY <1>3 DEF Conserved, s2

LEMMA EmptyStoreFacts ==
    /\ EmptyStore \in Stores
    /\ Conserved(EmptyStore)
    /\ \A t \in Ticks : EmptyStore.sum[t] = 0
  <1>1. EmptyStore \in Stores /\ \A t \in Ticks : EmptyStore.sum[t] = 0
    BY LedgerAssumption DEF EmptyStore, Stores
  <1>2. ASSUME NEW t \in Ticks PROVE SumFunction(EmptyStore.bal[t]) = 0
    <2>1. EmptyStore.bal[t] = [h \in Holders |-> 0]
      BY DEF EmptyStore
    <2>2. QED
      BY <2>1, LedgerAssumption, SumZero
  <1>3. QED
    BY <1>1, <1>2 DEF Conserved

\* The counter runs modulo 2^64 in both directions.
LEMMA CountsRows ==
    ASSUME NEW n \in Nat
    PROVE  /\ Count(n % Counter, FALSE) = (n + 1) % Counter
           /\ Count((n + 1) % Counter, TRUE) = n % Counter
  <1>1. /\ n % Counter \in 0..(Counter - 1)
        /\ (n + 1) % Counter = IF n % Counter = Counter - 1 THEN 0 ELSE (n % Counter) + 1
    BY LedgerAssumption, ModSucc
  <1> DEFINE r == n % Counter
  <1> HIDE DEF r
  <1>2. /\ r \in 0..(Counter - 1)
        /\ (n + 1) % Counter = IF r = Counter - 1 THEN 0 ELSE r + 1
    BY <1>1 DEF r
  <1>3. /\ Count(r, FALSE) = (n + 1) % Counter
        /\ Count((n + 1) % Counter, TRUE) = r
    BY <1>2, LedgerAssumption DEF Count, Inc, Dec
  <1>4. QED
    BY <1>3 DEF r

LEMMA JournalFinite ==
    ASSUME HistInv
    PROVE  /\ IsFiniteSet(DOMAIN reverts)
           /\ \A t \in Ticks : IsFiniteSet(SupplyRows(t)) /\ IsFiniteSet(SupplyRows(t) \cap Standing)
  <1>1. IsFiniteSet(1..(nextId - 1)) /\ DOMAIN reverts \subseteq 1..(nextId - 1)
    BY FS_Interval DEF HistInv, TypeOK
  <1>2. IsFiniteSet(DOMAIN reverts)
    BY <1>1, FS_Subset
  <1>3. \A t \in Ticks : SupplyRows(t) \subseteq DOMAIN reverts
                         /\ SupplyRows(t) \cap Standing \subseteq DOMAIN reverts
    BY DEF SupplyRows
  <1>4. QED
    BY <1>2, <1>3, FS_Subset

\* Writing a journal row adds it to the rows that count for its tick.
LEMMA JournalCounts ==
    ASSUME HistInv, NEW from, NEW to, NEW t \in Ticks, NEW amt \in Nat,
           Journal(from, to, t, amt), NEW u \in Ticks,
           from # NoAddr \/ to # NoAddr
    PROVE  SupplyRows(u)' =
             IF u = t /\ (from = NoAddr \/ to = NoAddr)
             THEN SupplyRows(u) \cup {nextId} ELSE SupplyRows(u)
  <1>1. nextId \notin DOMAIN reverts
    BY DEF HistInv, TypeOK
  <1>2. /\ DOMAIN reverts' = DOMAIN reverts \cup {nextId}
        /\ \A i \in DOMAIN reverts : reverts'[i] = reverts[i]
        /\ reverts'[nextId] = [from |-> from, to |-> to, tick |-> t, amt |-> amt,
                               height |-> height]
    BY <1>1 DEF Journal
  <1>3. SupplyRows(u)' =
          {i \in DOMAIN reverts' :
             reverts'[i].tick = u /\ (IsMint(reverts'[i]) \/ IsBurn(reverts'[i]))}
    BY DEF SupplyRows
  <1>4. IsMint(reverts'[nextId]) \/ IsBurn(reverts'[nextId])
          <=> from = NoAddr \/ to = NoAddr
    BY <1>2 DEF IsMint, IsBurn
  <1>5. reverts'[nextId].tick = t
    BY <1>2
  <1>6. QED
    BY <1>1, <1>2, <1>3, <1>4, <1>5 DEF SupplyRows

\* What an operation does to the supply: s2 is the store it leaves.
LEMMA OperationSupply ==
    ASSUME HistInv, SupplyInv, pc = "scan",
           NEW from, NEW to, NEW t \in Ticks, NEW amt \in Nat,
           Journal(from, to, t, amt), from # NoAddr \/ to # NoAddr,
           UNCHANGED <<collect, height, pc, work, cursor, forkTo>>,
           Conserved(store'),
           \A u \in Ticks \ {t} : store'.sum[u] = store.sum[u],
           t \notin ProtocolTicks =>
                to # NoAddr /\ collect[t].deployed /\ store'.sum[t] <= collect[t].max,
           \A u \in Ticks : store'.trans[u] =
               IF u = t /\ (from = NoAddr \/ to = NoAddr)
               THEN Count(store.trans[u], FALSE) ELSE store.trans[u]
    PROVE  SupplyInv'
  <1>1. Conservation'
    BY DEF SupplyInv, Conservation, Conserved
  <1>2. SupplyCap'
    BY DEF SupplyInv, SupplyCap, SupplyCapped
  <1>3. CapExplained'
    <2>1. \A u \in Ticks \ ProtocolTicks :
            ~collect'[u].deployed => store'.sum[u] = 0 /\ work'.sum[u] = 0
      BY DEF SupplyInv, CapExplained
    <2>2. nextId \notin DOMAIN reverts
      BY DEF HistInv, TypeOK
    <2>3. /\ DOMAIN reverts' = DOMAIN reverts \cup {nextId}
          /\ \A i \in DOMAIN reverts : reverts'[i] = reverts[i]
          /\ reverts'[nextId] = [from |-> from, to |-> to, tick |-> t, amt |-> amt,
                                 height |-> height]
      BY <2>2 DEF Journal
    <2>4. IsBurn(reverts'[nextId]) => t \in ProtocolTicks
      BY <2>3 DEF IsBurn
    <2>5. \A i \in DOMAIN reverts' :
            IsBurn(reverts'[i]) => reverts'[i].tick \in ProtocolTicks
      BY <2>3, <2>4 DEF SupplyInv, CapExplained
    <2>6. QED
      BY <2>1, <2>5 DEF CapExplained
  <1>4. ASSUME NEW u \in Ticks
        PROVE  store'.trans[u] = Cardinality(SupplyRows(u)') % Counter
    <2>1. IsFiniteSet(SupplyRows(u)) /\ nextId \notin SupplyRows(u)
      <3>1. nextId \notin DOMAIN reverts
        BY DEF HistInv, TypeOK
      <3>2. QED
        BY <3>1, JournalFinite DEF SupplyRows
    <2> DEFINE n == Cardinality(SupplyRows(u))
    <2>2. n \in Nat /\ Cardinality(SupplyRows(u) \cup {nextId}) = n + 1
      BY <2>1, FS_CardinalityType, FS_AddElement
    <2>3. store.trans[u] = n % Counter
      BY DEF SupplyInv, TransactionsCounted
    <2>4. SupplyRows(u)' =
             IF u = t /\ (from = NoAddr \/ to = NoAddr)
             THEN SupplyRows(u) \cup {nextId} ELSE SupplyRows(u)
      BY JournalCounts
    <2>5. Count(n % Counter, FALSE) = (n + 1) % Counter
      BY <2>2, CountsRows
    <2>6. QED
      BY <2>2, <2>3, <2>4, <2>5
  <1>5. TransactionsCounted'
    BY <1>4 DEF TransactionsCounted
  <1>6. QED
    BY <1>1, <1>2, <1>3, <1>5 DEF SupplyInv

LEMMA MintSupply ==
    ASSUME HistInv, SupplyInv, pc = "scan",
           NEW t \in Ticks, NEW h \in Holders, NEW amt \in Nat, MintOk(t),
           t \notin ProtocolTicks => store.sum[t] + amt <= collect[t].max,
           store' = MintDrc20(store, t, h, amt, FALSE),
           Journal(NoAddr, h, t, amt),
           UNCHANGED <<collect, height, pc, work, cursor, forkTo>>
    PROVE  SupplyInv'
  <1>1. store \in Stores /\ h # NoAddr /\ Conserved(store)
    BY LedgerAssumption DEF HistInv, TypeOK, SupplyInv, Conservation
  <1>2. Conserved(MintDrc20(store, t, h, amt, FALSE))
    BY <1>1, ConservedMint
  <1>3. /\ store'.sum = [store.sum EXCEPT ![t] = @ + amt]
        /\ store'.trans = [store.trans EXCEPT ![t] = Count(@, FALSE)]
        /\ store.sum \in [Ticks -> Nat] /\ store.trans \in [Ticks -> 0..(Counter - 1)]
    BY <1>1, StoreIntegers DEF MintDrc20
  <1>4. /\ \A u \in Ticks \ {t} : store'.sum[u] = store.sum[u]
        /\ store'.sum[t] = store.sum[t] + amt
        /\ \A u \in Ticks : store'.trans[u] =
               IF u = t THEN Count(store.trans[u], FALSE) ELSE store.trans[u]
    BY <1>3
  <1>5. collect[t].deployed
    BY DEF MintOk
  <1>6. QED
    BY <1>1, <1>2, <1>4, <1>5, OperationSupply

LEMMA BurnSupply ==
    ASSUME HistInv, SupplyInv, pc = "scan",
           NEW t \in ProtocolTicks, NEW h \in Holders, NEW amt \in Nat,
           BurnOk(store, t, h, amt),
           store' = BurnDrc20(store, t, h, amt, FALSE),
           Journal(h, NoAddr, t, amt),
           UNCHANGED <<collect, height, pc, work, cursor, forkTo>>
    PROVE  SupplyInv'
  <1>1. store \in Stores /\ h # NoAddr /\ Conserved(store) /\ t \in Ticks
    BY LedgerAssumption DEF HistInv, TypeOK, SupplyInv, Conservation
  <1>2. Conserved(BurnDrc20(store, t, h, amt, FALSE))
    BY <1>1, ConservedBurn
  <1>3. /\ store'.sum = [store.sum EXCEPT ![t] = @ - amt]
        /\ store'.trans = [store.trans EXCEPT ![t] = Count(@, FALSE)]
        /\ store.sum \in [Ticks -> Nat] /\ store.trans \in [Ticks -> 0..(Counter - 1)]
    BY <1>1, StoreIntegers DEF BurnDrc20
  <1>4. /\ \A u \in Ticks \ {t} : store'.sum[u] = store.sum[u]
        /\ \A u \in Ticks : store'.trans[u] =
               IF u = t THEN Count(store.trans[u], FALSE) ELSE store.trans[u]
    BY <1>3
  <1>5. QED
    BY <1>1, <1>2, <1>4, OperationSupply

LEMMA TransferSupply ==
    ASSUME HistInv, SupplyInv, pc = "scan",
           NEW t \in Ticks, NEW from \in Holders, NEW to \in Holders,
           NEW amt \in Nat, TransferOk(store, t, from, to, amt),
           store' = TransferDrc20(store, t, from, to, amt),
           Journal(from, to, t, amt),
           UNCHANGED <<collect, height, pc, work, cursor, forkTo>>
    PROVE  SupplyInv'
  <1>1. store \in Stores /\ from # NoAddr /\ to # NoAddr /\ Conserved(store)
    BY LedgerAssumption DEF HistInv, TypeOK, SupplyInv, Conservation
  <1>2. Conserved(TransferDrc20(store, t, from, to, amt))
    BY <1>1, ConservedTransfer
  <1>3. store'.sum = store.sum /\ store'.trans = store.trans
    BY DEF TransferDrc20
  <1>4. store.sum[t] >= 1
    <2>1. store.bal[t] \in [Holders -> Nat]
      BY <1>1 DEF Stores
    <2>2. SumFunction(store.bal[t]) \in Nat /\ store.bal[t][from] <= SumFunction(store.bal[t])
      BY <2>1, LedgerAssumption, SumNat
    <2>3. store.sum[t] = SumFunction(store.bal[t])
      BY <1>1 DEF Conserved
    <2>4. amt >= 1 /\ amt <= store.bal[t][from] /\ store.bal[t][from] \in Nat
      BY <2>1 DEF TransferOk
    <2>5. QED
      BY <2>2, <2>3, <2>4
  <1>5. t \notin ProtocolTicks => collect[t].deployed /\ store.sum[t] <= collect[t].max
    BY <1>4 DEF SupplyInv, SupplyCap, SupplyCapped, CapExplained
  <1>6. QED
    BY <1>1, <1>2, <1>3, <1>5, OperationSupply

\* The steps that leave the amounts and the journal alone.
LEMMA QuietSupply ==
    ASSUME HistInv, SupplyInv, UNCHANGED <<store, reverts>>, Conserved(work'),
           \A t \in Ticks : \/ work'.sum[t] = work.sum[t]
                            \/ work'.sum[t] = store.sum[t]
                            \/ work'.sum[t] = 0,
           \A t \in Ticks : \/ collect'[t] = collect[t]
                            \/ ~collect[t].deployed /\ collect'[t].deployed,
           \A t \in Ticks : collect'[t].max \in Nat,
           pc' = "fork" => \A t \in Ticks :
               work'.trans[t] = Cardinality((SupplyRows(t) \cap Standing)') % Counter
    PROVE  SupplyInv'
  <1>1. Conservation'
    BY DEF SupplyInv, Conservation, Conserved
  <1>2. SupplyCap'
    <2>1. ASSUME NEW t \in Ticks \ ProtocolTicks, collect'[t].deployed
          PROVE  store.sum[t] <= collect'[t].max /\ work'.sum[t] <= collect'[t].max
      <3>1. collect'[t].max \in Nat
        OBVIOUS
      <3>2. CASE collect'[t] = collect[t]
        BY <2>1, <3>1, <3>2 DEF SupplyInv, SupplyCap, SupplyCapped
      <3>3. CASE ~collect[t].deployed
        BY <2>1, <3>1, <3>3 DEF SupplyInv, CapExplained
      <3>4. QED
        BY <3>2, <3>3
    <2>2. QED
      BY <2>1 DEF SupplyCap, SupplyCapped
  <1>3. CapExplained'
    <2>1. \A t \in Ticks \ ProtocolTicks :
            ~collect'[t].deployed => store'.sum[t] = 0 /\ work'.sum[t] = 0
      BY DEF SupplyInv, CapExplained
    <2>2. QED
      BY <2>1 DEF SupplyInv, CapExplained, IsBurn
  <1>4. TransactionsCounted'
    <2>1. \A t \in Ticks : SupplyRows(t)' = SupplyRows(t)
      BY DEF SupplyRows, IsMint, IsBurn
    <2>2. QED
      BY <2>1 DEF SupplyInv, TransactionsCounted
  <1>5. QED
    BY <1>1, <1>2, <1>3, <1>4 DEF SupplyInv

\* The rows not yet undone are those of before without the one just visited.
LEMMA NextStands ==
    ASSUME HistInv, pc = "fork", UNCHANGED <<reverts, pc, forkTo>>,
           NEW i \in Pending, IsNext(i), cursor' = i
    PROVE  Standing' = Standing \ {i} /\ i \in Standing
  <1>1. /\ i \in DOMAIN reverts /\ i < cursor /\ reverts[i].height > forkTo
        /\ DOMAIN reverts \subseteq Nat /\ i \in Nat
        /\ \A k \in DOMAIN reverts : reverts[k].height \in Nat
        /\ forkTo \in Nat /\ cursor \in Nat
    BY DEF Pending, HistInv, TypeOK, Rows
  <1>2. \A k \in DOMAIN reverts :
          k < cursor /\ k > i => reverts[k].height <= forkTo
    BY <1>1 DEF Pending, IsNext
  <1>3. Standing = {k \in DOMAIN reverts : k < cursor \/ reverts[k].height <= forkTo}
    BY DEF Standing
  <1>4. Standing' = {k \in DOMAIN reverts : k < i \/ reverts[k].height <= forkTo}
    BY DEF Standing
  <1>5. ASSUME NEW k \in DOMAIN reverts
        PROVE  k \in Standing' <=> k \in Standing /\ k # i
    BY <1>1, <1>2, <1>3, <1>4
  <1>6. QED
    BY <1>1, <1>3, <1>4, <1>5

LEMMA UndoSupply ==
    ASSUME HistInv, SupplyInv, UndoNext
    PROVE  SupplyInv'
  <1>1. PICK i \in Pending : /\ IsNext(i)
                             /\ UndoOk(work, reverts[i])
                             /\ work' = Undo(work, reverts[i])
                             /\ cursor' = i
    BY DEF UndoNext
  <1>2. /\ pc = "fork" /\ pc' = "fork"
        /\ UNCHANGED <<collect, store, reverts, nextId, height, forkTo>>
    BY DEF UndoNext
  <1> DEFINE r == reverts[i]
             t == r.tick
  <1>3. /\ work \in Stores /\ work' \in Stores /\ Conserved(work)
        /\ r \in Rows /\ i \in DOMAIN reverts
        /\ r.from # NoAddr \/ r.to # NoAddr
        /\ IsBurn(r) => t \in ProtocolTicks
    BY <1>1, <1>2, NextUndone
       DEF HistInv, TypeOK, SupplyInv, Conservation, CapExplained, RowsKept, Pending
  <1> HIDE DEF r
  <1>4. t \in Ticks /\ r.amt \in Nat
        /\ (IsMint(r) => r.to \in Holders) /\ (IsBurn(r) => r.from \in Holders)
        /\ (~IsMint(r) /\ ~IsBurn(r) => r.from \in Holders /\ r.to \in Holders)
        /\ ~(IsMint(r) /\ IsBurn(r))
    BY <1>3 DEF Rows, IsMint, IsBurn
  <1>5. work' = Undo(work, r)
    BY <1>1 DEF r
  <1>6. Conserved(work')
    <2>1. CASE IsMint(r)
      BY <1>3, <1>4, <1>5, <2>1, ConservedBurn DEF Undo
    <2>2. CASE IsBurn(r)
      BY <1>3, <1>4, <1>5, <2>2, ConservedMint DEF Undo
    <2>3. CASE ~IsMint(r) /\ ~IsBurn(r)
      BY <1>3, <1>4, <1>5, <2>3, ConservedTransfer DEF Undo
    <2>4. QED
      BY <2>1, <2>2, <2>3
  <1>7. /\ work.sum \in [Ticks -> Nat] /\ work'.sum \in [Ticks -> Nat]
        /\ work.trans \in [Ticks -> 0..(Counter - 1)]
    BY <1>3, StoreIntegers
  <1>8. \A u \in Ticks \ ProtocolTicks : work'.sum[u] <= work.sum[u]
    <2>1. CASE IsMint(r)
      BY <1>4, <1>5, <1>7, <2>1 DEF Undo, BurnDrc20
    <2>2. CASE IsBurn(r)
      <3>1. work'.sum = [work.sum EXCEPT ![t] = @ + r.amt] /\ t \in ProtocolTicks
        BY <1>3, <1>4, <1>5, <2>2 DEF Undo, MintDrc20
      <3>2. QED
        BY <1>7, <3>1
    <2>3. CASE ~IsMint(r) /\ ~IsBurn(r)
      BY <1>5, <1>7, <2>3 DEF Undo, TransferDrc20
    <2>4. QED
      BY <2>1, <2>2, <2>3
  <1>9. \A u \in Ticks : work'.trans[u] =
            IF u = t /\ (IsMint(r) \/ IsBurn(r))
            THEN Count(work.trans[u], TRUE) ELSE work.trans[u]
    BY <1>4, <1>5, <1>7 DEF Undo, BurnDrc20, MintDrc20, TransferDrc20
  <1>10. Conservation'
    BY <1>2, <1>6 DEF SupplyInv, Conservation, Conserved
  <1>11. SupplyCap'
    <2>1. \A u \in Ticks : collect[u].max \in Nat
      BY DEF HistInv, TypeOK
    <2>2. QED
      BY <1>2, <1>7, <1>8, <2>1 DEF SupplyInv, SupplyCap, SupplyCapped
  <1>12. CapExplained'
    <2>1. \A u \in Ticks \ ProtocolTicks : ~collect[u].deployed => work'.sum[u] = 0
      BY <1>7, <1>8 DEF SupplyInv, CapExplained
    <2>2. QED
      BY <1>2, <2>1 DEF SupplyInv, CapExplained, IsBurn
  <1>13. ASSUME NEW u \in Ticks
         PROVE  work'.trans[u] = Cardinality((SupplyRows(u) \cap Standing)') % Counter
    <2> DEFINE before == SupplyRows(u) \cap Standing
    <2>1. SupplyRows(u)' = SupplyRows(u)
      BY <1>2 DEF SupplyRows, IsMint, IsBurn
    <2>2. Standing' = Standing \ {i} /\ i \in Standing
      BY <1>1, <1>2, NextStands
    <2>3. (SupplyRows(u) \cap Standing)' = before \ {i}
      BY <2>1, <2>2
    <2>4. i \in before <=> u = t /\ (IsMint(r) \/ IsBurn(r))
      BY <1>3, <2>2 DEF SupplyRows, r
    <2>5. IsFiniteSet(before)
      BY JournalFinite
    <2>6. work.trans[u] = Cardinality(before) % Counter
      BY <1>2 DEF SupplyInv, TransactionsCounted
    <2> HIDE DEF before
    <2>7. CASE i \in before
      <3> DEFINE n == Cardinality(before \ {i})
      <3>1. IsFiniteSet(before \ {i}) /\ n \in Nat /\ Cardinality(before) = n + 1
        BY <2>5, <2>7, FS_RemoveElement, FS_CardinalityType, FS_Subset
      <3> HIDE DEF n
      <3>2. Count((n + 1) % Counter, TRUE) = n % Counter
        BY <3>1, CountsRows
      <3>3. work'.trans[u] = n % Counter
        BY <1>9, <2>4, <2>6, <2>7, <3>1, <3>2
      <3>4. QED
        BY <2>3, <3>3 DEF n
    <2>8. CASE i \notin before
      <3>1. before \ {i} = before
        BY <2>8
      <3>2. QED
        BY <1>9, <2>3, <2>4, <2>6, <2>8, <3>1
    <2>9. QED
      BY <2>7, <2>8
  <1>14. TransactionsCounted'
    <2>1. \A u \in Ticks : SupplyRows(u)' = SupplyRows(u)
      BY <1>2 DEF SupplyRows, IsMint, IsBurn
    <2>2. QED
      BY <1>2, <1>13, <2>1 DEF SupplyInv, TransactionsCounted
  <1>15. QED
    BY <1>10, <1>11, <1>12, <1>14 DEF SupplyInv

LEMMA CommitSupply ==
    ASSUME HistInv, SupplyInv, CommitFork
    PROVE  SupplyInv'
  <1>1. /\ pc = "fork" /\ pc' = "scan" /\ Pending = {}
        /\ store' = work /\ work' = EmptyStore /\ UNCHANGED collect
    BY DEF CommitFork, EndFork
  <1> DEFINE kept == {i \in DOMAIN reverts : reverts[i].height <= forkTo}
  <1>2. /\ DOMAIN reverts' = kept
        /\ \A i \in kept : i \in DOMAIN reverts /\ reverts'[i] = reverts[i]
    BY DEF CommitFork, DelRevert
  <1>3. \A i \in DOMAIN reverts : i \in Standing <=> i \in kept
    BY <1>1 DEF Standing, Pending, HistInv, TypeOK, Rows
  <1>4. Conservation'
    BY <1>1, EmptyStoreFacts DEF SupplyInv, Conservation, Conserved
  <1>5. SupplyCap'
    <2>1. \A t \in Ticks : collect[t].max \in Nat
      BY DEF HistInv, TypeOK
    <2>2. QED
      BY <1>1, <2>1, EmptyStoreFacts DEF SupplyInv, SupplyCap, SupplyCapped
  <1>6. CapExplained'
    <2>1. \A t \in Ticks \ ProtocolTicks :
             ~collect'[t].deployed => store'.sum[t] = 0 /\ work'.sum[t] = 0
      BY <1>1, EmptyStoreFacts DEF SupplyInv, CapExplained
    <2>2. \A i \in DOMAIN reverts' :
             IsBurn(reverts'[i]) => reverts'[i].tick \in ProtocolTicks
      BY <1>2 DEF SupplyInv, CapExplained
    <2>3. QED
      BY <2>1, <2>2 DEF CapExplained
  <1>7. ASSUME NEW t \in Ticks
        PROVE  store'.trans[t] = Cardinality(SupplyRows(t)') % Counter
    <2>1. SupplyRows(t)' = {i \in DOMAIN reverts' : reverts'[i].tick = t
                              /\ (IsMint(reverts'[i]) \/ IsBurn(reverts'[i]))}
      BY DEF SupplyRows
    <2>2. SupplyRows(t)' = SupplyRows(t) \cap Standing
      <3> HIDE DEF kept
      <3>1. kept \subseteq DOMAIN reverts
        BY <1>2
      <3>2. QED
        BY <1>2, <1>3, <2>1, <3>1 DEF SupplyRows
    <2>3. QED
      BY <1>1, <2>2 DEF SupplyInv, TransactionsCounted
  <1>8. TransactionsCounted'
    BY <1>1, <1>7 DEF TransactionsCounted
  <1>9. QED
    BY <1>4, <1>5, <1>6, <1>8 DEF SupplyInv

LEMMA QuietStepsSupply ==
    ASSUME HistInv, SupplyInv,
           \/ \E t \in Ticks, max \in Amounts, lim \in Amounts : Deploy(t, max, lim)
           \/ NextBlock
           \/ \E h \in 0..(height - 1) : BeginFork(h)
           \/ AbortFork
    PROVE  SupplyInv'
  <1>1. Conserved(store) /\ Conserved(work) /\ \A t \in Ticks : collect[t].max \in Nat
    BY DEF SupplyInv, Conservation, HistInv, TypeOK
  <1>2. ASSUME NEW t \in Ticks, NEW max \in Amounts, NEW lim \in Amounts, Deploy(t, max, lim)
        PROVE  SupplyInv'
    <2>1. /\ ~collect[t].deployed /\ max \in Nat /\ pc' # "fork"
          /\ UNCHANGED <<store, reverts, work>>
          /\ collect' = [collect EXCEPT ![t] = [deployed |-> TRUE, max |-> max, lim |-> lim]]
      BY <1>2, LedgerAssumption DEF Deploy, VerifyDeploy
    <2>2. \A u \in Ticks : collect'[u] = IF u = t THEN [deployed |-> TRUE, max |-> max, lim |-> lim]
                                         ELSE collect[u]
      BY <2>1 DEF HistInv, TypeOK
    <2>3. QED
      BY <1>1, <2>1, <2>2, QuietSupply
  <1>3. CASE NextBlock
    <2>1. UNCHANGED <<store, reverts, work, collect>> /\ pc' # "fork"
      BY <1>3 DEF NextBlock
    <2>2. QED
      BY <1>1, <2>1, QuietSupply
  <1>4. ASSUME NEW h \in 0..(height - 1), BeginFork(h)
        PROVE  SupplyInv'
    <2>1. UNCHANGED <<store, reverts, collect>> /\ work' = store
          /\ pc' = "fork" /\ cursor' = nextId /\ forkTo' = h
      BY <1>4 DEF BeginFork
    <2>2. ASSUME NEW t \in Ticks
          PROVE  work'.trans[t] = Cardinality((SupplyRows(t) \cap Standing)') % Counter
      <3>1. SupplyRows(t)' = SupplyRows(t)
        BY <2>1 DEF SupplyRows, IsMint, IsBurn
      <3>2. SupplyRows(t) \subseteq DOMAIN reverts /\ Standing' = DOMAIN reverts
        <4>1. \A i \in DOMAIN reverts : i < nextId
          BY DEF HistInv, TypeOK
        <4>2. Standing' = {i \in DOMAIN reverts : i < nextId \/ reverts[i].height <= h}
          BY <2>1 DEF Standing
        <4>3. QED
          BY <4>1, <4>2 DEF SupplyRows
      <3>3. (SupplyRows(t) \cap Standing)' = SupplyRows(t)
        BY <3>1, <3>2
      <3>4. QED
        BY <2>1, <3>3 DEF SupplyInv, TransactionsCounted
    <2>3. QED
      BY <1>1, <2>1, <2>2, QuietSupply
  <1>5. CASE AbortFork
    <2>1. UNCHANGED <<store, reverts, collect>> /\ work' = EmptyStore /\ pc' # "fork"
      BY <1>5 DEF AbortFork, EndFork
    <2>2. QED
      BY <1>1, <2>1, EmptyStoreFacts, QuietSupply
  <1>6. QED
    BY <1>2, <1>3, <1>4, <1>5

LEMMA OperationsSupply ==
    ASSUME HistInv, SupplyInv, Operations
    PROVE  SupplyInv'
  <1>1. \A x, y \in Nat : x * y \in Nat
    OBVIOUS
  <1>2. Amounts \subseteq Nat /\ Addresses \subseteq Holders
        /\ ProtocolTicks \subseteq Ticks /\ 0..MaxRepeat \subseteq Nat
    BY LedgerAssumption DEF Addresses
  <1>3. ASSUME NEW t \in Ticks, NEW max \in Amounts, NEW lim \in Amounts,
               Deploy(t, max, lim)
        PROVE  SupplyInv'
    BY <1>3, QuietStepsSupply
  <1>4. ASSUME NEW t \in Ticks, NEW holder \in Addresses, NEW amt \in Amounts,
               NEW repeat \in 0..MaxRepeat, InscribedMint(t, holder, amt, repeat)
        PROVE  SupplyInv'
    <2>1. amt * repeat \in Nat /\ holder \in Holders
      BY <1>1, <1>2
    <2>2. store.sum[t] + amt * repeat <= collect[t].max
      BY <1>4 DEF InscribedMint, VerifyMint
    <2>3. QED
      BY <1>4, <2>1, <2>2, MintSupply DEF InscribedMint
  <1>5. ASSUME NEW t \in Ticks, NEW from \in Addresses, NEW to \in Holders,
               NEW amt \in Amounts,
               \/ Transfer(t, from, to, amt)
               \/ ProtocolTransfer(t, from, to, amt)
        PROVE  SupplyInv'
    BY <1>2, <1>5, TransferSupply DEF Transfer, ProtocolTransfer
  <1>6. ASSUME NEW t \in ProtocolTicks, NEW holder \in Addresses,
               NEW amt \in Amounts, ProtocolMint(t, holder, amt)
        PROVE  SupplyInv'
    BY <1>2, <1>6, MintSupply DEF ProtocolMint
  <1>7. ASSUME NEW t \in ProtocolTicks, NEW holder \in Addresses,
               NEW amt \in Amounts, ProtocolBurn(t, holder, amt)
        PROVE  SupplyInv'
    BY <1>2, <1>7, BurnSupply DEF ProtocolBurn
  <1>8. QED
    BY <1>2, <1>3, <1>4, <1>5, <1>6, <1>7 DEF Operations

\* The supply invariant of every execution: what holders have adds up to
\* amt_sum, caps hold, and the counters are those of the journal's rows.
THEOREM SupplyInvariant == HistSpec => []SupplyInv
  <1>1. HistInit => SupplyInv
    <2>1. SUFFICES ASSUME HistInit PROVE SupplyInv
      OBVIOUS
    <2>2. /\ store = EmptyStore /\ work = EmptyStore /\ DOMAIN reverts = {}
          /\ pc = "scan"
          /\ \A t \in Ticks : collect[t].max = 0
      BY <2>1 DEF HistInit, Init
    <2>3. Conservation /\ CapExplained
      BY <2>2, EmptyStoreFacts DEF Conservation, CapExplained
    <2>4. SupplyCap
      BY <2>2, EmptyStoreFacts DEF SupplyCap, SupplyCapped
    <2>5. ASSUME NEW t \in Ticks PROVE store.trans[t] = Cardinality(SupplyRows(t)) % Counter
      <3>1. SupplyRows(t) = {}
        BY <2>2 DEF SupplyRows
      <3>2. Cardinality(SupplyRows(t)) = 0
        BY <3>1, FS_EmptySet
      <3>3. store.trans[t] = 0
        BY <2>2 DEF EmptyStore
      <3>4. 0 % Counter = 0
        BY LedgerAssumption
      <3>5. QED
        BY <3>2, <3>3, <3>4
    <2>6. QED
      BY <2>2, <2>3, <2>4, <2>5 DEF SupplyInv, TransactionsCounted
  <1>2. HistInv /\ SupplyInv /\ [HistNext]_histVars => SupplyInv'
    <2>1. CASE HistInv /\ SupplyInv /\ Next
      <3>1. CASE Operations
        BY <2>1, <3>1, OperationsSupply
      <3>2. CASE NextBlock \/ AbortFork \/ \E h \in 0..(height - 1) : BeginFork(h)
        BY <2>1, <3>2, QuietStepsSupply
      <3>3. CASE UndoNext
        BY <2>1, <3>3, UndoSupply
      <3>4. CASE CommitFork
        BY <2>1, <3>4, CommitSupply
      <3>5. QED
        BY <2>1, <3>1, <3>2, <3>3, <3>4 DEF Next
    <2>2. CASE UNCHANGED histVars /\ SupplyInv
      BY <2>2 DEF histVars, vars, SupplyInv, Conservation, Conserved, SupplyCap,
                  SupplyCapped, CapExplained, IsBurn, IsMint, TransactionsCounted,
                  SupplyRows, Standing
    <2>3. QED
      BY <2>1, <2>2 DEF HistNext
  <1>3. QED
    BY <1>1, <1>2, HistInvariant, PTL DEF HistSpec

\* Tokens are neither lost nor made up: in the tables and in the working copy
\* of a fork, amt_sum is the sum of the balances (MintDrc20, BurnDrc20,
\* TransferDrc20 and their undo).
THEOREM TokensConserved == HistSpec => []Conservation
  BY SupplyInvariant, PTL DEF SupplyInv

\* verifyMint's cap holds in every state, also while a fork is undone.
THEOREM CapNeverExceeded == HistSpec => []SupplyCap
  BY SupplyInvariant, PTL DEF SupplyInv

\* The column transactions counts the mint and burn rows of the journal, and
\* in a fork those not yet undone: it never wraps below zero.
THEOREM TransactionsExact == HistSpec => []TransactionsCounted
  BY SupplyInvariant, PTL DEF SupplyInv

-----------------------------------------------------------------------------
(* Pump: the oldest row of a journal, and what is left of one *)

LEMMA OldestIs ==
    ASSUME NEW S \in SUBSET Nat, S # {}
    PROVE  Oldest(S) \in S /\ \A y \in S : Oldest(S) <= y
  <1>1. \E x \in S : \A y \in S : x <= y
    BY LeastNatural
  <1>2. QED
    BY <1>1 DEF Oldest

LEMMA OldestUnique ==
    ASSUME NEW S \in SUBSET Nat, NEW x \in S, \A y \in S : x <= y
    PROVE  Oldest(S) = x
  <1>1. Oldest(S) \in S /\ Oldest(S) <= x /\ x <= Oldest(S)
    BY OldestIs
  <1>2. Oldest(S) \in Nat /\ x \in Nat
    BY <1>1
  <1>3. QED
    BY <1>1, <1>2

\* A row that is added is no older than another.
LEMMA OldestOfMore ==
    ASSUME NEW S \in SUBSET Nat, S # {}, NEW n \in Nat, \A y \in S : y <= n
    PROVE  Oldest(S \cup {n}) = Oldest(S)
  <1>1. Oldest(S) \in S /\ \A y \in S : Oldest(S) <= y
    BY OldestIs
  <1>2. \A y \in S \cup {n} : Oldest(S) <= y
    BY <1>1
  <1>3. QED
    BY <1>1, <1>2, OldestUnique

\* Rows are deleted from the young end.
LEMMA OldestKept ==
    ASSUME NEW rows, DOMAIN rows \subseteq Nat, Dated(rows), NEW h \in Nat,
           \A k \in DOMAIN rows : rows[k].at \in Nat,
           NEW up \in SUBSET DOMAIN rows, up \ Above(rows, h) # {}
    PROVE  Oldest(up \ Above(rows, h)) = Oldest(up)
  <1>1. PICK y \in up : y \notin Above(rows, h)
    OBVIOUS
  <1>2. Oldest(up) \in up /\ \A x \in up : Oldest(up) <= x
    BY <1>1, OldestIs
  <1>3. rows[Oldest(up)].at <= rows[y].at /\ ~(rows[y].at > h)
    BY <1>1, <1>2 DEF Dated, Above
  <1>4. Oldest(up) \notin Above(rows, h)
    BY <1>1, <1>2, <1>3 DEF Above
  <1>5. QED
    BY <1>2, <1>4, OldestUnique

\* What is kept of a journal is a journal.
LEMMA KeptIs ==
    ASSUME NEW S, NEW rows \in Seq(S), Dated(rows), NEW h \in Nat,
           \A k \in DOMAIN rows : rows[k].at \in Nat
    PROVE  /\ Kept(rows, h) \in Seq(S)
           /\ DOMAIN Kept(rows, h) = DOMAIN rows \ Above(rows, h)
           /\ \A k \in DOMAIN Kept(rows, h) : Kept(rows, h)[k] = rows[k]
  <1> DEFINE K == DOMAIN rows \ Above(rows, h)
  <1>1. DOMAIN rows = 1..Len(rows) /\ Len(rows) \in Nat
    BY LenProperties
  <1>2. IsFiniteSet(K) /\ K \in SUBSET Nat
    <2>1. K \subseteq 1..Len(rows)
      BY <1>1
    <2>2. IsFiniteSet(1..Len(rows))
      BY <1>1, FS_Interval
    <2>3. IsFiniteSet(K)
      BY <2>1, <2>2, FS_Subset
    <2>4. QED
      BY <1>1, <2>1, <2>3
  <1>3. \E m \in 0..Len(rows) : K = 1..m
    <2>1. CASE K = {}
      BY <1>1, <2>1
    <2>2. CASE K # {}
      <3>1. PICK m \in K : \A n \in K : n <= m
        BY <1>2, <2>2, GreatestNatural
      <3>2. ASSUME NEW n \in 1..m PROVE n \in K
        <4>1. m \in 1..Len(rows) /\ n \in 1..Len(rows) /\ n <= m
          BY <1>1, <3>1
        <4>2. rows[n].at <= rows[m].at /\ ~(rows[m].at > h)
          BY <1>1, <3>1, <4>1 DEF Dated, Above
        <4>3. QED
          BY <1>1, <4>1, <4>2 DEF Above
      <3>3. K \subseteq 1..m
        BY <1>1, <3>1
      <3>4. QED
        BY <1>1, <3>1, <3>2, <3>3
    <2>3. QED
      BY <2>1, <2>2
  <1>4. Kept(rows, h) = [k \in K |-> rows[k]]
    BY DEF Kept
  <1>5. PICK m \in Nat : K = 1..m
    BY <1>3
  <1>6. \A k \in K : rows[k] \in S
    BY ElementOfSeq, <1>1
  <1>7. [k \in 1..m |-> rows[k]] \in Seq(S)
    BY <1>5, <1>6, IsASeq
  <1>8. QED
    BY <1>4, <1>5, <1>7

-----------------------------------------------------------------------------
(* Pump: the journal of the curve *)

\* A trade that is journalled undoes to the curve before it.
LEMMA TradeUndone ==
    ASSUME NEW rows \in Seq(Reverts), NEW c \in Curves, NEW d \in Curves,
           d.reserve = c.reserve, NEW at \in Nat, NEW h \in Nat, h < at
    PROVE  LET row == [op |-> "trade", amt0 |-> c.amt0, amt1 |-> c.amt1, at |-> at]
           IN  UndoneCurve(d, Append(rows, row), h) = UndoneCurve(c, rows, h)
  <1> DEFINE row == [op |-> "trade", amt0 |-> c.amt0, amt1 |-> c.amt1, at |-> at]
             new == Append(rows, row)
             n == Len(rows) + 1
             up == Above(rows, h)
  <1>1. /\ DOMAIN rows = 1..Len(rows) /\ Len(rows) \in Nat
        /\ DOMAIN new = DOMAIN rows \cup {n} /\ new[n] = row
        /\ \A k \in DOMAIN rows : new[k] = rows[k]
    BY LenProperties, AppendProperties
  <1>2. Above(new, h) = up \cup {n}
    BY <1>1 DEF Above
  <1>3. up \in SUBSET Nat /\ n \in Nat /\ \A y \in up : y <= n
    BY <1>1 DEF Above
  <1>4. (\E k \in up \cup {n} : new[k].op = "deploy") <=> \E k \in up : rows[k].op = "deploy"
    BY <1>1 DEF Above
  <1>5. \A x, y : [d EXCEPT !.amt0 = x, !.amt1 = y] = [c EXCEPT !.amt0 = x, !.amt1 = y]
    BY DEF Curves
  <1>6. c = [d EXCEPT !.amt0 = c.amt0, !.amt1 = c.amt1]
    BY DEF Curves
  <1> HIDE DEF row, new, n, up
  <1>7. CASE up = {}
    <2>1. Oldest(up \cup {n}) = n
      BY <1>3, <1>7, OldestUnique
    <2>2. new[n].op = "trade" /\ new[n].amt0 = c.amt0 /\ new[n].amt1 = c.amt1
      BY <1>1 DEF row
    <2> DEFINE S == up \cup {n}
    <2>3. S # {} /\ ~\E k \in S : new[k].op = "deploy"
      BY <1>7, <2>2
    <2>4. UndoneCurve(d, new, h) = [d EXCEPT !.amt0 = c.amt0, !.amt1 = c.amt1]
      <3>1. Above(new, h) = S /\ Oldest(S) = n
        BY <1>2, <2>1
      <3> HIDE DEF S
      <3>2. QED
        BY <2>2, <2>3, <3>1 DEF UndoneCurve
    <2>5. UndoneCurve(c, rows, h) = c
      BY <1>7 DEF UndoneCurve, up
    <2>6. QED
      BY <1>6, <2>4, <2>5 DEF new, row
  <1>8. CASE up # {} /\ \E k \in up : rows[k].op = "deploy"
    BY <1>2, <1>4, <1>8 DEF UndoneCurve, up, new, row
  <1>9. CASE up # {} /\ ~\E k \in up : rows[k].op = "deploy"
    <2>1. Oldest(up \cup {n}) = Oldest(up) /\ Oldest(up) \in up
      BY <1>3, <1>9, OldestOfMore, OldestIs
    <2>2. new[Oldest(up)] = rows[Oldest(up)]
      BY <1>1, <2>1 DEF up, Above
    <2>3. UndoneCurve(d, new, h) =
            [d EXCEPT !.amt0 = rows[Oldest(up)].amt0, !.amt1 = rows[Oldest(up)].amt1]
      BY <1>2, <1>4, <1>9, <2>1, <2>2 DEF UndoneCurve
    <2>4. UndoneCurve(c, rows, h) =
            [c EXCEPT !.amt0 = rows[Oldest(up)].amt0, !.amt1 = rows[Oldest(up)].amt1]
      BY <1>9 DEF UndoneCurve, up
    <2>5. QED
      BY <1>5, <2>3, <2>4 DEF new, row
  <1>10. QED
    BY <1>7, <1>8, <1>9

\* Two forks lead where the second would have led alone.
LEMMA CurveUndoneTwice ==
    ASSUME NEW rows \in Seq(Reverts), Dated(rows), NEW c \in Curves \cup {NoPump},
           c = NoPump <=> rows = <<>>,
           \A k \in DOMAIN rows : rows[k].op = "deploy" <=> k = 1,
           NEW h \in Nat, NEW g \in Nat, g < h
    PROVE  UndoneCurve(UndoneCurve(c, rows, h), Kept(rows, h), g) = UndoneCurve(c, rows, g)
  <1> DEFINE kept == Kept(rows, h)
             up == Above(rows, g)
  <1>1. /\ DOMAIN rows = 1..Len(rows) /\ Len(rows) \in Nat
        /\ \A k \in DOMAIN rows : rows[k] \in Reverts /\ rows[k].at \in Nat
    <2>1. DOMAIN rows = 1..Len(rows) /\ Len(rows) \in Nat
      BY LenProperties
    <2>2. \A k \in DOMAIN rows : rows[k] \in Reverts
      BY <2>1, ElementOfSeq
    <2>3. QED
      BY <2>1, <2>2 DEF Reverts
  <1>2. /\ DOMAIN kept = DOMAIN rows \ Above(rows, h)
        /\ \A k \in DOMAIN kept : kept[k] = rows[k]
    BY <1>1, KeptIs
  <1>3. Above(kept, g) = up \ Above(rows, h) /\ Above(rows, h) \subseteq up
    BY <1>1, <1>2 DEF Above
  <1>4. CASE Above(rows, h) = {}
    <2>1. UndoneCurve(c, rows, h) = c
      BY <1>4 DEF UndoneCurve
    <2>2. kept = rows
      <3>1. kept = [k \in DOMAIN rows |-> rows[k]]
        BY <1>4 DEF Kept
      <3>2. QED
        BY <3>1
    <2>3. QED
      BY <2>1, <2>2
  <1>5. CASE \E k \in Above(rows, h) : rows[k].op = "deploy"
    <2>1. 1 \in Above(rows, h) /\ rows[1].op = "deploy"
      BY <1>5 DEF Above
    <2>2. \A k \in DOMAIN rows : k \in Above(rows, h)
      BY <1>1, <2>1 DEF Above, Dated
    <2>3. Above(kept, g) = {}
      BY <1>1, <1>2, <2>2 DEF Above
    <2>4. UndoneCurve(c, rows, h) = NoPump /\ UndoneCurve(c, rows, g) = NoPump
      BY <1>3, <2>1 DEF UndoneCurve
    <2>5. UndoneCurve(NoPump, kept, g) = NoPump
      BY <2>3 DEF UndoneCurve
    <2>6. QED
      BY <2>4, <2>5
  <1>6. CASE Above(rows, h) # {} /\ ~\E k \in Above(rows, h) : rows[k].op = "deploy"
    <2> DEFINE a == rows[Oldest(Above(rows, h))].amt0
               b == rows[Oldest(Above(rows, h))].amt1
               mid == [c EXCEPT !.amt0 = a, !.amt1 = b]
    <2>1. UndoneCurve(c, rows, h) = mid
      BY <1>6 DEF UndoneCurve
    <2>2. c \in Curves
      BY <1>6 DEF Above
    <2>3. CASE up \ Above(rows, h) = {}
      <3>1. up = Above(rows, h)
        BY <1>3, <2>3
      <3>2. UndoneCurve(mid, kept, g) = mid
        BY <1>3, <2>3 DEF UndoneCurve
      <3>3. UndoneCurve(c, rows, g) = mid
        BY <1>6, <3>1 DEF UndoneCurve
      <3>4. QED
        BY <2>1, <3>2, <3>3
    <2>4. CASE up \ Above(rows, h) # {} /\ \E k \in up : rows[k].op = "deploy"
      <3>1. \E k \in up \ Above(rows, h) : kept[k].op = "deploy"
        BY <1>2, <1>6, <2>4 DEF Above
      <3>2. UndoneCurve(mid, kept, g) = NoPump
        BY <1>3, <3>1 DEF UndoneCurve
      <3>3. UndoneCurve(c, rows, g) = NoPump
        BY <2>4 DEF UndoneCurve
      <3>4. QED
        BY <2>1, <3>2, <3>3
    <2>5. CASE up \ Above(rows, h) # {} /\ ~\E k \in up : rows[k].op = "deploy"
      <3>1. Oldest(up \ Above(rows, h)) = Oldest(up)
        <4>1. DOMAIN rows \subseteq Nat /\ up \in SUBSET DOMAIN rows
          BY <1>1 DEF Above
        <4>2. QED
          BY <1>1, <2>5, <4>1, OldestKept
      <3>2. Oldest(up) \in DOMAIN kept /\ kept[Oldest(up)] = rows[Oldest(up)]
        <4> DEFINE S == up \ Above(rows, h)
        <4>1. S \in SUBSET Nat /\ S # {}
          BY <1>1, <2>5 DEF Above
        <4> HIDE DEF S
        <4>2. Oldest(S) \in S
          BY <4>1, OldestIs
        <4>3. QED
          BY <1>2, <3>1, <4>2 DEF Above, S
      <3>3. UndoneCurve(mid, kept, g) =
              [mid EXCEPT !.amt0 = rows[Oldest(up)].amt0, !.amt1 = rows[Oldest(up)].amt1]
        <4>1. ~\E k \in Above(kept, g) : kept[k].op = "deploy"
          BY <1>2, <1>3, <2>5 DEF Above
        <4>2. QED
          BY <1>3, <2>5, <3>1, <3>2, <4>1 DEF UndoneCurve
      <3>4. UndoneCurve(c, rows, g) =
              [c EXCEPT !.amt0 = rows[Oldest(up)].amt0, !.amt1 = rows[Oldest(up)].amt1]
        BY <2>5 DEF UndoneCurve
      <3>5. \A x, y : [mid EXCEPT !.amt0 = x, !.amt1 = y] = [c EXCEPT !.amt0 = x, !.amt1 = y]
        BY <2>2 DEF Curves
      <3>6. QED
        BY <2>1, <3>3, <3>4, <3>5
    <2>6. QED
      BY <2>3, <2>4, <2>5
  <1>7. QED
    BY <1>4, <1>5, <1>6

-----------------------------------------------------------------------------
(* Pump: the journal of the rewards *)

LEMMA RewardRowTypes ==
    ASSUME NEW rows \in Seq(RewardReverts)
    PROVE  /\ DOMAIN rows = 1..Len(rows) /\ Len(rows) \in Nat
           /\ \A k \in DOMAIN rows : rows[k] \in RewardReverts /\ rows[k].at \in Nat
  <1>1. DOMAIN rows = 1..Len(rows) /\ Len(rows) \in Nat
    BY LenProperties
  <1>2. \A k \in DOMAIN rows : rows[k] \in RewardReverts
    BY <1>1, ElementOfSeq
  <1>3. QED
    BY <1>1, <1>2 DEF RewardReverts

\* A credit that is journalled undoes to the row before it, if it names the
\* inviter of the row; the other rows it leaves alone.
LEMMA CreditUndone ==
    ASSUME NEW rows \in Seq(RewardReverts), NEW w, NEW row \in Rewards, NEW new \in Rewards,
           new.by = row.by, NEW r \in RewardReverts,
           NEW h \in Nat, r.at > h,
           r.who = w => r.by = row.by /\ r.amt = row.amt,
           r.who # w => new = row
    PROVE  UndoneReward(w, new, Append(rows, r), h) = UndoneReward(w, row, rows, h)
  <1> DEFINE all == Append(rows, r)
             n == Len(rows) + 1
             up == Naming(w, row, rows, h)
  <1>1. /\ DOMAIN rows = 1..Len(rows) /\ Len(rows) \in Nat
        /\ DOMAIN all = DOMAIN rows \cup {n} /\ all[n] = r
        /\ \A k \in DOMAIN rows : all[k] = rows[k]
    BY LenProperties, AppendProperties
  <1>2. up \in SUBSET Nat /\ n \in Nat /\ (\A y \in up : y <= n) /\ up \subseteq DOMAIN rows
    BY <1>1 DEF Naming, Above
  <1>3. Naming(w, new, all, h) = IF r.who = w THEN up \cup {n} ELSE up
    BY <1>1 DEF Naming, Above
  <1>4. row = [row EXCEPT !.amt = row.amt]
        /\ \A x : [new EXCEPT !.amt = x] = [row EXCEPT !.amt = x]
    BY DEF Rewards
  <1> HIDE DEF all, n, up
  <1>5. CASE r.who # w
    <2>1. CASE up = {}
      BY <1>3, <1>5, <2>1 DEF UndoneReward, up, all
    <2>2. CASE up # {}
      <3>1. Oldest(up) \in up /\ all[Oldest(up)] = rows[Oldest(up)]
        BY <1>1, <1>2, <2>2, OldestIs
      <3>2. QED
        BY <1>3, <1>5, <2>2, <3>1 DEF UndoneReward, up, all
    <2>3. QED
      BY <2>1, <2>2
  <1>6. CASE r.who = w /\ up = {}
    <2>1. Oldest(up \cup {n}) = n
      <3>1. {n} \in SUBSET Nat /\ (\A y \in {n} : n <= y) /\ up \cup {n} = {n}
        BY <1>2, <1>6
      <3>2. Oldest({n}) = n
        BY <3>1, OldestUnique
      <3>3. QED
        BY <3>1, <3>2
    <2>2. UndoneReward(w, new, all, h) = [new EXCEPT !.amt = row.amt]
      BY <1>1, <1>3, <1>6, <2>1 DEF UndoneReward
    <2>3. UndoneReward(w, row, rows, h) = row
      BY <1>6 DEF UndoneReward, up
    <2>4. QED
      BY <1>4, <2>2, <2>3 DEF all
  <1>7. CASE r.who = w /\ up # {}
    <2>1. Oldest(up \cup {n}) = Oldest(up) /\ Oldest(up) \in up
      BY <1>2, <1>7, OldestOfMore, OldestIs
    <2>2. all[Oldest(up)] = rows[Oldest(up)]
      BY <1>1, <1>2, <2>1
    <2>3. UndoneReward(w, new, all, h) = [new EXCEPT !.amt = rows[Oldest(up)].amt]
      BY <1>3, <1>7, <2>1, <2>2 DEF UndoneReward
    <2>4. UndoneReward(w, row, rows, h) = [row EXCEPT !.amt = rows[Oldest(up)].amt]
      BY <1>7 DEF UndoneReward, up
    <2>5. QED
      BY <1>4, <2>3, <2>4 DEF all
  <1>8. QED
    BY <1>5, <1>6, <1>7

LEMMA RewardUndoneTwice ==
    ASSUME NEW rows \in Seq(RewardReverts), Dated(rows), NEW w, NEW row \in Rewards,
           NEW h \in Nat, NEW g \in Nat, g < h
    PROVE  UndoneReward(w, UndoneReward(w, row, rows, h), Kept(rows, h), g)
             = UndoneReward(w, row, rows, g)
  <1> DEFINE kept == Kept(rows, h)
             mid == UndoneReward(w, row, rows, h)
             up == Naming(w, row, rows, g)
  <1>1. /\ DOMAIN rows = 1..Len(rows) /\ Len(rows) \in Nat
        /\ \A k \in DOMAIN rows : rows[k] \in RewardReverts /\ rows[k].at \in Nat
    BY RewardRowTypes
  <1>2. /\ DOMAIN kept = DOMAIN rows \ Above(rows, h)
        /\ \A k \in DOMAIN kept : kept[k] = rows[k]
    BY <1>1, KeptIs
  <1>3. mid.by = row.by /\ \A x : [mid EXCEPT !.amt = x] = [row EXCEPT !.amt = x]
    BY DEF Rewards, UndoneReward
  <1>4. /\ Naming(w, mid, kept, g) = up \ Above(rows, h)
        /\ Naming(w, row, rows, h) = up \cap Above(rows, h)
        /\ up \in SUBSET DOMAIN rows
    BY <1>1, <1>2, <1>3 DEF Naming, Above
  <1>5. CASE up \ Above(rows, h) = {}
    <2>1. Naming(w, row, rows, h) = up
      BY <1>4, <1>5
    <2>2. UndoneReward(w, mid, kept, g) = mid
      BY <1>4, <1>5 DEF UndoneReward
    <2>3. QED
      BY <2>1, <2>2 DEF UndoneReward
  <1>6. CASE up \ Above(rows, h) # {}
    <2> DEFINE S == up \ Above(rows, h)
    <2>1. Oldest(S) = Oldest(up)
      BY <1>1, <1>4, <1>6, OldestKept
    <2>2. S \in SUBSET Nat /\ S # {} /\ S \subseteq DOMAIN kept /\ up # {}
      BY <1>1, <1>2, <1>4, <1>6
    <2>3. Naming(w, mid, kept, g) = S
      BY <1>4
    <2> HIDE DEF S
    <2>4. Oldest(up) \in S /\ kept[Oldest(up)] = rows[Oldest(up)]
      BY <1>2, <2>1, <2>2, OldestIs
    <2>5. UndoneReward(w, mid, kept, g) = [mid EXCEPT !.amt = rows[Oldest(up)].amt]
      BY <2>1, <2>2, <2>3, <2>4 DEF UndoneReward
    <2>6. UndoneReward(w, row, rows, g) = [row EXCEPT !.amt = rows[Oldest(up)].amt]
      BY <2>2 DEF UndoneReward
    <2>7. QED
      BY <1>3, <2>5, <2>6
  <1>7. QED
    BY <1>5, <1>6

\* InvitePump.
LEMMA CreditStep ==
    ASSUME NEW s, PerHolder(s.rewards, Rewards), s.rewardReverts \in Seq(RewardReverts),
           PerHolder(invites, Invites), current \in Nat, NEW u \in Users, NEW fee \in Nat,
           Dated(s.rewardReverts),
           \A k \in DOMAIN s.rewardReverts : s.rewardReverts[k].who \in DOMAIN s.rewards,
           NEW t, t.rewards = Credited(s, u, fee), t.rewardReverts = CreditRevert(s, u)
    PROVE  /\ PerHolder(t.rewards, Rewards) /\ t.rewardReverts \in Seq(RewardReverts)
           /\ Dated(t.rewardReverts)
           /\ \A k \in DOMAIN t.rewardReverts : t.rewardReverts[k].who \in DOMAIN t.rewards
           /\ DOMAIN s.rewards \subseteq DOMAIN t.rewards
           /\ \A w \in DOMAIN s.rewards : t.rewards[w].by = s.rewards[w].by
           /\ Mixed(s) \subseteq Mixed(t)
           /\ \A h \in Nat, w \in DOMAIN s.rewards \ Mixed(t) :
                 h < current =>
                   UndoneReward(w, t.rewards[w], t.rewardReverts, h)
                     = UndoneReward(w, s.rewards[w], s.rewardReverts, h)
  <1> DEFINE rows == s.rewardReverts
             r == [who |-> u, by |-> invites[u].by, at |-> current,
                   amt |-> IF u \in DOMAIN s.rewards THEN s.rewards[u].amt ELSE 0]
             n == Len(rows) + 1
  <1>1. CASE u \notin DOMAIN invites
    <2>1. t.rewards = s.rewards /\ t.rewardReverts = s.rewardReverts
      BY <1>1 DEF Credited, CreditRevert
    <2>2. QED
      BY <2>1 DEF Mixed
  <1>2. CASE u \in DOMAIN invites
    <2>1. /\ \A w \in DOMAIN s.rewards : s.rewards[w] \in Rewards
          /\ DOMAIN s.rewards \subseteq Users
          /\ invites[u] \in Invites
      BY <1>2 DEF PerHolder
    <2>2. r \in RewardReverts
      BY <2>1 DEF Rewards, Invites, RewardReverts
    <2>3. t.rewardReverts = Append(rows, r)
      BY <1>2 DEF CreditRevert
    <2>4. fee \div 2 \in Nat
      BY DivFacts
    <2> DEFINE new == IF u \in DOMAIN s.rewards
                      THEN [by |-> s.rewards[u].by, amt |-> s.rewards[u].amt + fee \div 2]
                      ELSE [by |-> invites[u].by, amt |-> fee \div 2]
    <2>5. new \in Rewards
      BY <2>1, <2>4 DEF Rewards, Invites
    <2>6. t.rewards = [w \in DOMAIN s.rewards \cup {u} |-> IF w # u THEN s.rewards[w] ELSE new]
      BY <1>2 DEF Credited
    <2> HIDE DEF new
    <2>7. /\ DOMAIN t.rewards = DOMAIN s.rewards \cup {u} /\ t.rewards[u] = new
          /\ \A w \in DOMAIN s.rewards \ {u} : t.rewards[w] = s.rewards[w]
      BY <2>6
    <2>8. PerHolder(t.rewards, Rewards)
      BY <2>1, <2>5, <2>6 DEF PerHolder
    <2>9. /\ DOMAIN rows = 1..Len(rows) /\ Len(rows) \in Nat
          /\ \A k \in DOMAIN rows : rows[k] \in RewardReverts /\ rows[k].at \in Nat
      BY RewardRowTypes
    <2>10. /\ t.rewardReverts \in Seq(RewardReverts)
           /\ DOMAIN t.rewardReverts = DOMAIN rows \cup {n} /\ t.rewardReverts[n] = r
           /\ \A k \in DOMAIN rows : t.rewardReverts[k] = rows[k]
      BY <2>2, <2>3, AppendProperties
    <2>11. Dated(t.rewardReverts)
      BY <2>9, <2>10 DEF Dated
    <2>12. \A k \in DOMAIN t.rewardReverts : t.rewardReverts[k].who \in DOMAIN t.rewards
      BY <2>7, <2>10
    <2>13. \A w \in DOMAIN s.rewards : t.rewards[w].by = s.rewards[w].by
      BY <2>7 DEF new
    <2>14. ASSUME NEW h \in Nat, h < current, NEW w \in DOMAIN s.rewards, w \notin Mixed(t)
           PROVE  UndoneReward(w, t.rewards[w], t.rewardReverts, h)
                     = UndoneReward(w, s.rewards[w], s.rewardReverts, h)
      <3>1. s.rewards[w] \in Rewards /\ t.rewards[w] \in Rewards
        BY <2>1, <2>5, <2>7
      <3>2. r.who = w => r.by = s.rewards[w].by /\ r.amt = s.rewards[w].amt
        <4>1. w \in DOMAIN t.rewards /\ (u = w => t.rewardReverts[n].who = w)
          BY <2>7, <2>10
        <4>2. u = w => t.rewardReverts[n].by = t.rewards[w].by
          BY <2>10, <2>14, <4>1 DEF Mixed
        <4>3. QED
          BY <2>10, <2>13, <4>2
      <3>3. r.who # w => t.rewards[w] = s.rewards[w]
        BY <2>7
      <3>4. r.at > h
        BY <2>14
      <3> HIDE DEF r
      <3>5. QED
        BY <2>2, <2>3, <2>13, <3>1, <3>2, <3>3, <3>4, CreditUndone
    <2>15. Mixed(s) \subseteq Mixed(t)
      BY <2>7, <2>10, <2>13 DEF Mixed
    <2>16. QED
      BY <2>7, <2>8, <2>10, <2>11, <2>12, <2>13, <2>14, <2>15
  <1>3. QED
    BY <1>1, <1>2

-----------------------------------------------------------------------------
(* Pump: one trade *)

LEMMA PumpNames ==
    /\ MEME \in Pair /\ WDOGE \in Pair /\ MEME # WDOGE
    /\ \A p \in Pair : p = MEME \/ p = WDOGE
    /\ Users \subseteq Accounts /\ Reserves \in Accounts /\ TxFee \in Accounts /\ Pool \in Accounts
    /\ Reserves \notin Users /\ Reserves # TxFee /\ Reserves # Pool
  BY PumpAssumption DEF Pair, Accounts

\* A transfer of one of the two, and what it means to the reserves.
LEMMA MoveHere ==
    ASSUME NEW bal \in Books, NEW t \in Pair, NEW from \in Accounts, NEW to \in Accounts,
           NEW amt \in Nat, CanMove(bal, t, from, to, amt)
    PROVE  /\ Move(bal, t, from, to, amt) \in Books
           /\ \A k \in Pair : k # t => Move(bal, t, from, to, amt)[k] = bal[k]
           /\ Move(bal, t, from, to, amt)[t][Reserves] \in Nat
           /\ bal[t][Reserves] \in Nat
           /\ Move(bal, t, from, to, amt)[t][Reserves] =
                IF from = Reserves THEN bal[t][Reserves] - amt
                ELSE IF to = Reserves THEN bal[t][Reserves] + amt
                ELSE bal[t][Reserves]
  <1> DEFINE b == Move(bal, t, from, to, amt)
  <1>1. bal \in [Pair -> [Accounts -> Nat]] /\ amt \in Int
    BY DEF Books
  <1>2. Reserves \in Accounts
    BY PumpNames
  <1>3. b \in [Pair -> [Accounts -> Nat]]
    BY <1>1 DEF Move, CanMove
  <1>4. \A k \in Pair : k # t => b[k] = bal[k]
    BY <1>1 DEF Move, CanMove
  <1>5. b[t][Reserves] = IF from = Reserves THEN bal[t][Reserves] - amt
                         ELSE IF to = Reserves THEN bal[t][Reserves] + amt
                         ELSE bal[t][Reserves]
    BY <1>1, <1>2 DEF Move, CanMove
  <1> HIDE DEF b
  <1>6. b[t][Reserves] \in Nat /\ bal[t][Reserves] \in Nat
    BY <1>1, <1>2, <1>3
  <1>7. QED
    BY <1>3, <1>4, <1>5, <1>6 DEF Books, b

LEMMA FeeIs ==
    ASSUME NEW amt \in Nat
    PROVE  Fee(amt) \in Nat /\ Fee(amt) <= amt
  <1>1. FeeUnit \in Nat \ {0}
    BY PumpAssumption
  <1>2. Fee(amt) \in Nat /\ FeeUnit * Fee(amt) <= amt
    BY <1>1, DivFacts DEF Fee
  <1>3. \A d \in Nat \ {0}, q \in Nat : q <= d * q
    OBVIOUS
  <1>4. Fee(amt) <= FeeUnit * Fee(amt) /\ FeeUnit * Fee(amt) \in Nat
    BY <1>1, <1>2, <1>3
  <1>5. QED
    BY <1>2, <1>4

\* Of two reserves x and y, in more of y no more than x comes out, and their
\* product does not fall.
LEMMA ConstantProduct ==
    ASSUME NEW x \in Nat, NEW y \in Nat, NEW in \in Nat \ {0}
    PROVE  LET out == (in * x) \div (y + in)
           IN  out \in Nat /\ out <= x /\ (x - out) * (y + in) >= x * y
  <1> DEFINE d == y + in
             out == (in * x) \div d
  <1>1. d \in Nat \ {0} /\ in * x \in Nat /\ in <= d
    OBVIOUS
  <1>2. out \in Nat /\ d * out <= in * x
    BY <1>1, DivFacts
  <1>3. in * x <= d * x
    BY <1>1
  <1>4. out <= x
    BY <1>1, <1>2, <1>3, CommonFactor
  <1>5. (x - out) * d = d * x - d * out /\ d * x = x * y + in * x
    <2> HIDE DEF out
    <2>1. (x - out) * d = d * x - d * out
      BY <1>1, <1>2
    <2>2. d * x = x * y + in * x
      OBVIOUS
    <2>3. QED
      BY <2>1, <2>2
  <1>6. QED
    BY <1>2, <1>4, <1>5

LEMMA OutIs ==
    ASSUME NEW c \in Curves, NEW amt \in Nat \ {0}
    PROVE  /\ Out(c, WDOGE, amt) \in Nat /\ Out(c, WDOGE, amt) <= c.amt0
           /\ (c.amt0 - Out(c, WDOGE, amt)) * (c.amt1 + amt) >= c.amt0 * c.amt1
           /\ Out(c, MEME, amt) \in Nat /\ Out(c, MEME, amt) <= c.amt1
           /\ (c.amt0 + amt) * (c.amt1 - Out(c, MEME, amt)) >= c.amt0 * c.amt1
  <1>1. c.amt0 \in Nat /\ c.amt1 \in Nat
    BY DEF Curves
  <1>2. /\ Out(c, WDOGE, amt) = (amt * c.amt0) \div (c.amt1 + amt)
        /\ Out(c, MEME, amt) = (amt * c.amt1) \div (c.amt0 + amt)
    BY PumpNames DEF Out
  <1>3. /\ Out(c, WDOGE, amt) \in Nat /\ Out(c, WDOGE, amt) <= c.amt0
        /\ (c.amt0 - Out(c, WDOGE, amt)) * (c.amt1 + amt) >= c.amt0 * c.amt1
    BY <1>1, <1>2, ConstantProduct
  <1>4. /\ Out(c, MEME, amt) \in Nat /\ Out(c, MEME, amt) <= c.amt1
        /\ (c.amt1 - Out(c, MEME, amt)) * (c.amt0 + amt) >= c.amt1 * c.amt0
    BY <1>1, <1>2, ConstantProduct
  <1>5. /\ (c.amt1 - Out(c, MEME, amt)) * (c.amt0 + amt)
             = (c.amt0 + amt) * (c.amt1 - Out(c, MEME, amt))
        /\ c.amt1 * c.amt0 = c.amt0 * c.amt1
    BY <1>1, <1>4
  <1>6. QED
    BY <1>3, <1>4, <1>5

\* The fee costs the reserves no more than itself, and nothing if another pays.
LEMMA PayFeeIs ==
    ASSUME NEW bal \in Books, NEW payer \in Accounts, NEW u \in Users, NEW fee \in Nat,
           PerHolder(invites, Invites), CanPayFee(bal, payer, u, fee)
    PROVE  /\ PayFee(bal, payer, u, fee) \in Books
           /\ PayFee(bal, payer, u, fee)[MEME] = bal[MEME]
           /\ PayFee(bal, payer, u, fee)[WDOGE][Reserves] >=
                bal[WDOGE][Reserves] - (IF payer = Reserves THEN fee ELSE 0)
  <1> DEFINE paid == Move(bal, WDOGE, payer, TxFee, fee)
             half == fee \div 2
  <1>1. CanMove(bal, WDOGE, payer, TxFee, fee)
    BY DEF CanPayFee
  <1>2. /\ paid \in Books /\ paid[MEME] = bal[MEME]
        /\ paid[WDOGE][Reserves] \in Nat /\ bal[WDOGE][Reserves] \in Nat
        /\ paid[WDOGE][Reserves] = IF payer = Reserves THEN bal[WDOGE][Reserves] - fee
                                   ELSE bal[WDOGE][Reserves]
    BY <1>1, PumpNames, MoveHere
  <1>3. CASE u \notin DOMAIN invites
    BY <1>2, <1>3 DEF PayFee
  <1>4. CASE u \in DOMAIN invites
    <2> DEFINE by == invites[u].by
               b == Move(paid, WDOGE, TxFee, by, half)
    <2>1. by \in Accounts /\ half \in Nat
      BY <1>4, DivFacts DEF PerHolder, Invites
    <2>2. CanMove(paid, WDOGE, TxFee, by, half)
      BY <1>4 DEF CanPayFee
    <2>3. PayFee(bal, payer, u, fee) = b
      BY <1>4 DEF PayFee
    <2> HIDE DEF paid, by, half
    <2>4. /\ b \in Books /\ b[MEME] = paid[MEME]
          /\ b[WDOGE][Reserves] \in Nat
          /\ b[WDOGE][Reserves] = IF by = Reserves THEN paid[WDOGE][Reserves] + half
                                  ELSE paid[WDOGE][Reserves]
      BY <1>2, <2>1, <2>2, PumpNames, MoveHere
    <2> HIDE DEF b
    <2>5. QED
      BY <1>2, <2>1, <2>3, <2>4
  <1>5. QED
    BY <1>3, <1>4

\* The curve is covered, and its product kept, after t if it was in s.
KeepsCurve(s, t) ==
    /\ t.bal \in Books /\ t.curve \in Curves
    /\ t.curve.reserve = s.curve.reserve
    /\ Covered(s.bal, s.curve) => Covered(t.bal, t.curve)
    /\ ProductKept(s.curve) => ProductKept(t.curve)

LEMMA BuyKeepsCurve ==
    ASSUME NEW s, s.bal \in Books, s.curve \in Curves, PerHolder(invites, Invites),
           NEW u \in Users, NEW o \in TradeOps, o.tick = WDOGE, CanTrade(s, u, o)
    PROVE  KeepsCurve(s, Traded(s, u, o))
  <1> DEFINE out == Yield(s, o)
             in == In(o)
             fee == Fee(o.amt)
             b0 == s.bal
             b1 == PayFee(b0, u, u, fee)
             b2 == Move(b1, WDOGE, u, Reserves, in)
             b3 == Move(b2, MEME, Reserves, u, out)
             t == Traded(s, u, o)
  <1>1. o.amt \in Nat
    BY DEF TradeOps
  <1>2. fee \in Nat /\ in \in Nat /\ in = o.amt - fee
    BY <1>1, FeeIs DEF In
  <1>3. /\ CanPayFee(b0, u, u, fee) /\ CanMove(b1, WDOGE, u, Reserves, in)
        /\ CanMove(b2, MEME, Reserves, u, out)
    BY DEF CanTrade, BuyPaid
  <1>4. in \in Nat \ {0}
    BY <1>2, <1>3 DEF CanMove
  <1>5. s.curve.amt0 \in Nat /\ s.curve.amt1 \in Nat
    BY DEF Curves
  <1>6. /\ out \in Nat /\ out <= s.curve.amt0
        /\ (s.curve.amt0 - out) * (s.curve.amt1 + in) >= s.curve.amt0 * s.curve.amt1
    BY <1>4, OutIs DEF Yield
  <1>7. /\ t.bal = b3
        /\ t.curve = [s.curve EXCEPT !.amt0 = @ - out, !.amt1 = @ + in]
    BY DEF Traded, BuyPaid, CurveAfter
  <1> HIDE DEF out, in, fee, b0, b1, b2, b3, t
  <1>8. b0 \in Books
    BY DEF b0
  <1>9. /\ b1 \in Books /\ b1[MEME] = b0[MEME] /\ b1[WDOGE][Reserves] >= b0[WDOGE][Reserves]
        /\ b0[WDOGE][Reserves] \in Nat /\ b0[MEME][Reserves] \in Nat
    <2>1. /\ b1 \in Books /\ b1[MEME] = b0[MEME]
          /\ b1[WDOGE][Reserves] >= b0[WDOGE][Reserves] - (IF u = Reserves THEN fee ELSE 0)
      BY <1>2, <1>3, <1>8, PumpNames, PayFeeIs DEF b1
    <2>2. b0[WDOGE][Reserves] \in Nat /\ b0[MEME][Reserves] \in Nat /\ u # Reserves
      BY <1>8, PumpNames DEF Books
    <2>3. QED
      BY <2>1, <2>2
  <1>10. /\ b2 \in Books /\ b2[MEME] = b1[MEME]
         /\ b1[WDOGE][Reserves] \in Nat
         /\ b2[WDOGE][Reserves] = b1[WDOGE][Reserves] + in
    BY <1>2, <1>3, <1>9, PumpNames, MoveHere DEF b2
  <1>11. /\ b3 \in Books /\ b3[WDOGE] = b2[WDOGE]
         /\ b3[MEME][Reserves] = b2[MEME][Reserves] - out
    BY <1>3, <1>6, <1>10, PumpNames, MoveHere DEF b3
  <1>12. /\ t.curve.amt0 = s.curve.amt0 - out /\ t.curve.amt1 = s.curve.amt1 + in
         /\ t.curve.reserve = s.curve.reserve /\ t.curve \in Curves
    <2>1. t.curve = [amt0 |-> s.curve.amt0 - out, amt1 |-> s.curve.amt1 + in,
                     reserve |-> s.curve.reserve]
      BY <1>7 DEF Curves
    <2>2. s.curve.amt0 - out \in Nat /\ s.curve.amt1 + in \in Nat /\ s.curve.reserve \in Nat
      BY <1>2, <1>5, <1>6, <1>7 DEF Curves
    <2>3. QED
      BY <2>1, <2>2 DEF Curves
  <1>13. Covered(s.bal, s.curve) => Covered(t.bal, t.curve)
    <2>1. DogeInit \in Nat /\ s.bal = b0 /\ t.bal = b3
      BY <1>7, PumpAssumption DEF b0
    <2>2. QED
      BY <1>2, <1>5, <1>6, <1>9, <1>10, <1>11, <1>12, <2>1 DEF Covered
  <1>14. ProductKept(s.curve) => ProductKept(t.curve)
    <2> DEFINE p == s.curve.amt0 * s.curve.amt1
               q == t.curve.amt0 * t.curve.amt1
               m == DogeInit * MemeMax
    <2>1. p \in Int /\ q \in Int /\ m \in Int /\ q >= p
      BY <1>2, <1>5, <1>6, <1>12, PumpAssumption
    <2>2. p >= m => q >= m
      <3> HIDE DEF p, q, m
      <3>1. QED
        BY <2>1
    <2>3. QED
      BY <1>12, <2>2 DEF ProductKept
  <1>15. QED
    BY <1>7, <1>11, <1>12, <1>13, <1>14 DEF KeepsCurve, t

LEMMA SellKeepsCurve ==
    ASSUME NEW s, s.bal \in Books, s.curve \in Curves, PerHolder(invites, Invites),
           NEW u \in Users, NEW o \in TradeOps, o.tick = MEME, CanTrade(s, u, o)
    PROVE  KeepsCurve(s, Traded(s, u, o))
  <1> DEFINE out == Yield(s, o)
             in == In(o)
             fee == Fee(out)
             b0 == s.bal
             b1 == Move(b0, MEME, u, Reserves, in)
             b2 == PayFee(b1, Reserves, u, fee)
             b3 == Move(b2, WDOGE, Reserves, u, out - fee)
             t == Traded(s, u, o)
  <1>1. o.tick # WDOGE /\ in \in Nat
    BY PumpNames DEF In, TradeOps
  <1>2. /\ CanMove(b0, MEME, u, Reserves, in) /\ CanPayFee(b1, Reserves, u, fee)
        /\ CanMove(b2, WDOGE, Reserves, u, out - fee)
    BY <1>1 DEF CanTrade, SellPaid
  <1>3. in \in Nat \ {0}
    BY <1>1, <1>2 DEF CanMove
  <1>4. s.curve.amt0 \in Nat /\ s.curve.amt1 \in Nat
    BY DEF Curves
  <1>5. /\ out \in Nat /\ out <= s.curve.amt1
        /\ (s.curve.amt0 + in) * (s.curve.amt1 - out) >= s.curve.amt0 * s.curve.amt1
    BY <1>3, OutIs DEF Yield
  <1>6. fee \in Nat /\ out - fee \in Nat
    BY <1>5, FeeIs
  <1>7. /\ t.bal = b3
        /\ t.curve = [s.curve EXCEPT !.amt0 = @ + in, !.amt1 = @ - out]
    BY <1>1 DEF Traded, SellPaid, CurveAfter
  <1> HIDE DEF out, in, fee, b0, b1, b2, b3, t
  <1>8. b0 \in Books
    BY DEF b0
  <1>9. /\ b1 \in Books /\ b1[WDOGE] = b0[WDOGE]
        /\ b0[MEME][Reserves] \in Nat /\ b0[WDOGE][Reserves] \in Nat
        /\ b1[MEME][Reserves] = b0[MEME][Reserves] + in
    <2>1. /\ b1 \in Books /\ b1[WDOGE] = b0[WDOGE] /\ b0[MEME][Reserves] \in Nat
          /\ b1[MEME][Reserves] = b0[MEME][Reserves] + in
      BY <1>1, <1>2, <1>8, PumpNames, MoveHere DEF b1
    <2>2. b0[WDOGE][Reserves] \in Nat
      BY <1>8, PumpNames DEF Books
    <2>3. QED
      BY <2>1, <2>2
  <1>10. /\ b2 \in Books /\ b2[MEME] = b1[MEME]
         /\ b2[WDOGE][Reserves] >= b1[WDOGE][Reserves] - fee
    BY <1>2, <1>6, <1>9, PumpNames, PayFeeIs DEF b2
  <1>11. /\ b3 \in Books /\ b3[MEME] = b2[MEME]
         /\ b2[WDOGE][Reserves] \in Nat
         /\ b3[WDOGE][Reserves] = b2[WDOGE][Reserves] - (out - fee)
    BY <1>2, <1>6, <1>10, PumpNames, MoveHere DEF b3
  <1>12. /\ t.curve.amt0 = s.curve.amt0 + in /\ t.curve.amt1 = s.curve.amt1 - out
         /\ t.curve.reserve = s.curve.reserve /\ t.curve \in Curves
    <2>1. t.curve = [amt0 |-> s.curve.amt0 + in, amt1 |-> s.curve.amt1 - out,
                     reserve |-> s.curve.reserve]
      BY <1>7 DEF Curves
    <2>2. s.curve.amt0 + in \in Nat /\ s.curve.amt1 - out \in Nat /\ s.curve.reserve \in Nat
      BY <1>1, <1>4, <1>5, <1>7 DEF Curves
    <2>3. QED
      BY <2>1, <2>2 DEF Curves
  <1>13. Covered(s.bal, s.curve) => Covered(t.bal, t.curve)
    <2>1. DogeInit \in Nat /\ s.bal = b0 /\ t.bal = b3
      BY <1>7, PumpAssumption DEF b0
    <2>2. QED
      BY <1>1, <1>4, <1>5, <1>6, <1>9, <1>10, <1>11, <1>12, <2>1 DEF Covered
  <1>14. ProductKept(s.curve) => ProductKept(t.curve)
    <2> DEFINE p == s.curve.amt0 * s.curve.amt1
               q == t.curve.amt0 * t.curve.amt1
               m == DogeInit * MemeMax
    <2>1. p \in Int /\ q \in Int /\ m \in Int /\ q >= p
      BY <1>1, <1>4, <1>5, <1>12, PumpAssumption
    <2>2. p >= m => q >= m
      <3> HIDE DEF p, q, m
      <3>1. QED
        BY <2>1
    <2>3. QED
      BY <1>12, <2>2 DEF ProductKept
  <1>15. QED
    BY <1>7, <1>11, <1>12, <1>13, <1>14 DEF KeepsCurve, t

-----------------------------------------------------------------------------
(* Pump: what a trade, a deploy and a withdrawal make of the tables *)

\* The tables stay in order, and the journals of t lead where those of s did.
Continues(s, t) ==
    /\ TablesInv(t)
    /\ s.pools \subseteq t.pools
    /\ (\A p \in s.pools : p.at <= current) => \A p \in t.pools : p.at <= current
    /\ DOMAIN s.rewards \subseteq DOMAIN t.rewards
    /\ Mixed(s) \subseteq Mixed(t)
    /\ \A h \in 0..(current - 1) :
          /\ UndoneCurve(t.curve, t.reverts, h) = UndoneCurve(s.curve, s.reverts, h)
          /\ \A w \in DOMAIN s.rewards \ Mixed(t) :
                UndoneReward(w, t.rewards[w], t.rewardReverts, h)
                  = UndoneReward(w, s.rewards[w], s.rewardReverts, h)

LEMMA ContinuesOn ==
    ASSUME NEW s, NEW t, NEW v, Continues(s, t), Continues(t, v)
    PROVE  Continues(s, v)
  <1>1. DOMAIN s.rewards \ Mixed(v) \subseteq DOMAIN s.rewards \ Mixed(t)
    BY DEF Continues
  <1>2. DOMAIN s.rewards \ Mixed(v) \subseteq DOMAIN t.rewards \ Mixed(v)
    BY DEF Continues
  <1>3. QED
    BY <1>1, <1>2 DEF Continues

\* A change of the balances that leaves the curve covered.
LEMMA BalancesChange ==
    ASSUME NEW s, TablesInv(s), NEW b \in Books,
           s.curve # NoPump /\ s.pools = {} => Covered(b, s.curve)
    PROVE  Continues(s, [s EXCEPT !.bal = b])
  <1> DEFINE t == [s EXCEPT !.bal = b]
  <1>1. /\ t.bal = b /\ t.curve = s.curve /\ t.pools = s.pools /\ t.reverts = s.reverts
        /\ t.rewards = s.rewards /\ t.rewardReverts = s.rewardReverts
        /\ t \in [bal : Books, curve : Curves \cup {NoPump}, pools : SUBSET Pools,
                  reverts : Seq(Reverts), rewards : {s.rewards},
                  rewardReverts : Seq(RewardReverts)]
    BY DEF TablesInv
  <1> HIDE DEF t
  <1>2. TablesInv(t)
    BY <1>1 DEF TablesInv
  <1>3. Mixed(t) = Mixed(s)
    BY <1>1 DEF Mixed
  <1>4. QED
    BY <1>1, <1>2, <1>3 DEF Continues, t

\* A trade without PumpFinish.
LEMMA TradedContinues ==
    ASSUME NEW s, TablesInv(s), s.curve # NoPump, PerHolder(invites, Invites), current \in Nat,
           NEW u \in Users, NEW o \in TradeOps, CanTrade(s, u, o)
    PROVE  Continues(s, Traded(s, u, o))
  <1> DEFINE t == Traded(s, u, o)
             fee == IF o.tick = WDOGE THEN Fee(o.amt) ELSE Fee(Yield(s, o))
             row == [op |-> "trade", amt0 |-> s.curve.amt0, amt1 |-> s.curve.amt1, at |-> current]
             n == Len(s.reverts) + 1
  <1>1. /\ s.bal \in Books /\ s.curve \in Curves /\ s.pools \in SUBSET Pools
        /\ s.reverts \in Seq(Reverts) /\ s.rewardReverts \in Seq(RewardReverts)
    BY DEF TablesInv
  <1>2. KeepsCurve(s, t)
    <2>1. o.tick = WDOGE \/ o.tick = MEME
      BY PumpNames DEF TradeOps
    <2>2. QED
      BY <1>1, <2>1, BuyKeepsCurve, SellKeepsCurve
  <1>3. fee \in Nat
    <2>1. CASE o.tick = WDOGE
      BY <2>1, FeeIs DEF TradeOps
    <2>2. CASE o.tick # WDOGE
      <3>1. o.tick = MEME /\ o.amt \in Nat \ {0}
        BY <2>2, PumpNames DEF TradeOps, CanTrade, CanMove, In
      <3>2. Yield(s, o) \in Nat
        BY <1>1, <3>1, PumpNames, OutIs DEF Yield, In
      <3>3. QED
        BY <2>2, <3>2, FeeIs
    <2>3. QED
      BY <2>1, <2>2
  <1>4. /\ t.pools = s.pools /\ t.reverts = Append(s.reverts, row)
        /\ t.rewards = Credited(s, u, fee) /\ t.rewardReverts = CreditRevert(s, u)
        /\ t = [bal |-> t.bal, curve |-> t.curve, pools |-> t.pools, reverts |-> t.reverts,
                rewards |-> t.rewards, rewardReverts |-> t.rewardReverts]
    BY DEF Traded
  <1>5. row \in Reverts
    BY <1>1 DEF Curves, Reverts
  <1> HIDE DEF t, fee
  <1>6. /\ PerHolder(t.rewards, Rewards) /\ t.rewardReverts \in Seq(RewardReverts)
        /\ Dated(t.rewardReverts)
        /\ \A k \in DOMAIN t.rewardReverts : t.rewardReverts[k].who \in DOMAIN t.rewards
        /\ DOMAIN s.rewards \subseteq DOMAIN t.rewards
        /\ Mixed(s) \subseteq Mixed(t)
        /\ \A h \in Nat, w \in DOMAIN s.rewards \ Mixed(t) :
             h < current =>
               UndoneReward(w, t.rewards[w], t.rewardReverts, h)
                 = UndoneReward(w, s.rewards[w], s.rewardReverts, h)
    BY <1>3, <1>4, CreditStep DEF TablesInv
  <1>7. /\ t.reverts \in Seq(Reverts)
        /\ DOMAIN s.reverts = 1..Len(s.reverts) /\ Len(s.reverts) \in Nat
        /\ DOMAIN t.reverts = DOMAIN s.reverts \cup {n} /\ t.reverts[n] = row
        /\ \A k \in DOMAIN s.reverts : t.reverts[k] = s.reverts[k]
    BY <1>1, <1>4, <1>5, AppendProperties, LenProperties
  <1>8. Dated(t.reverts)
    <2>1. \A k \in DOMAIN s.reverts : s.reverts[k].at <= current
      BY <1>7 DEF TablesInv, Dated
    <2>2. \A k, l \in DOMAIN s.reverts :
             k <= l => s.reverts[k].at <= s.reverts[l].at /\ s.reverts[l].at <= current
      BY DEF TablesInv, Dated
    <2>3. \A k \in DOMAIN s.reverts : ~(n <= k)
      BY <1>7
    <2>4. row.at = current /\ current <= current
      OBVIOUS
    <2> HIDE DEF row, n
    <2>5. QED
      BY <1>7, <2>1, <2>2, <2>3, <2>4 DEF Dated
  <1>9. \A k \in DOMAIN t.reverts : t.reverts[k].op = "deploy" <=> k = 1
    <2>1. Len(s.reverts) # 0
      BY <1>1, EmptySeq DEF TablesInv
    <2>2. n # 1
      BY <1>7, <2>1
    <2>3. QED
      BY <1>7, <2>2 DEF TablesInv
  <1>10. t.curve # NoPump /\ t.reverts # <<>>
    BY <1>2, <1>7, PumpAssumption DEF KeepsCurve
  <1>11. ProductKept(t.curve) /\ (t.pools = {} => Covered(t.bal, t.curve))
    BY <1>2, <1>4 DEF KeepsCurve, TablesInv
  <1>12. t \in [bal : Books, curve : Curves \cup {NoPump}, pools : SUBSET Pools,
               reverts : Seq(Reverts), rewards : {t.rewards},
               rewardReverts : Seq(RewardReverts)]
    BY <1>1, <1>2, <1>4, <1>6, <1>7 DEF KeepsCurve
  <1>13. TablesInv(t)
    BY <1>6, <1>8, <1>9, <1>10, <1>11, <1>12 DEF TablesInv
  <1>14. \A h \in 0..(current - 1) :
            UndoneCurve(t.curve, t.reverts, h) = UndoneCurve(s.curve, s.reverts, h)
    <2>1. ASSUME NEW h \in 0..(current - 1)
          PROVE  UndoneCurve(t.curve, t.reverts, h) = UndoneCurve(s.curve, s.reverts, h)
      <3>1. h \in Nat /\ h < current
        OBVIOUS
      <3>2. t.curve \in Curves /\ t.curve.reserve = s.curve.reserve
        BY <1>2 DEF KeepsCurve
      <3>3. QED
        BY <1>1, <1>4, <3>1, <3>2, TradeUndone
    <2>2. QED
      BY <2>1
  <1>15. \A h \in 0..(current - 1) : h \in Nat /\ h < current
    OBVIOUS
  <1>16. QED
    BY <1>4, <1>6, <1>13, <1>14, <1>15 DEF Continues, t

\* PumpFinish leaves the curve and the journals alone, and makes a pool.
LEMMA FinishedContinues ==
    ASSUME NEW s, TablesInv(s), current \in Nat, CanFinish(s)
    PROVE  Continues(s, Finished(s))
  <1> DEFINE bal == s.bal
             fees == PumpFinishFee + PumpCreateHolderFee
             b == Burn(bal, WDOGE, Reserves, fees)
             memes == b[MEME][Reserves]
             doge == b[WDOGE][Reserves]
             b1 == Move(b, MEME, Reserves, Pool, memes)
             b2 == Move(b1, WDOGE, Reserves, Pool, doge)
             row == [amt0 |-> memes, amt1 |-> doge, at |-> current]
             t == Finished(s)
  <1>1. /\ s.bal \in [Pair -> [Accounts -> Nat]] /\ s.pools \in SUBSET Pools
        /\ s.bal \in Books
    BY DEF TablesInv, Books
  <1>2. fees \in Nat
    BY PumpAssumption
  <1>3. bal[WDOGE][Reserves] - fees >= 1 /\ bal[MEME][Reserves] >= 1
        /\ bal[WDOGE][Reserves] \in Nat /\ bal[MEME][Reserves] \in Nat
    BY <1>1, PumpNames DEF CanFinish, Left
  <1>4. /\ b \in [Pair -> [Accounts -> Nat]] /\ memes = bal[MEME][Reserves]
        /\ doge = bal[WDOGE][Reserves] - fees
    <2> HIDE DEF fees
    <2>1. QED
      BY <1>1, <1>2, <1>3, PumpNames DEF Burn
  <1>5. t = [s EXCEPT !.bal = b2, !.pools = @ \cup {row}]
    BY DEF Finished
  <1> HIDE DEF b, fees
  <1>6. memes \in Nat \ {0} /\ doge \in Nat \ {0}
    BY <1>1, <1>3, <1>4, <1>2
  <1>7. /\ b1 \in Books /\ b1[WDOGE] = b[WDOGE]
    <2>1. CanMove(b, MEME, Reserves, Pool, memes)
      BY <1>4, <1>6, PumpNames DEF CanMove
    <2>2. b \in Books /\ memes \in Nat
      BY <1>4, <1>6 DEF Books
    <2> HIDE DEF memes
    <2>3. QED
      BY <2>1, <2>2, PumpNames, MoveHere
  <1>8. b2 \in Books
    <2>1. CanMove(b1, WDOGE, Reserves, Pool, doge)
      BY <1>6, <1>7, PumpNames DEF CanMove
    <2>2. doge \in Nat
      BY <1>6
    <2> HIDE DEF doge, b1
    <2>3. QED
      BY <1>7, <2>1, <2>2, PumpNames, MoveHere
  <1>9. row \in Pools
    BY <1>6 DEF Pools
  <1> HIDE DEF b1, b2, memes, doge, row
  <1>10. /\ t.bal = b2 /\ t.curve = s.curve /\ t.pools = s.pools \cup {row}
         /\ t.reverts = s.reverts /\ t.rewards = s.rewards
         /\ t.rewardReverts = s.rewardReverts
         /\ t \in [bal : Books, curve : Curves \cup {NoPump}, pools : SUBSET Pools,
                   reverts : Seq(Reverts), rewards : {s.rewards},
                   rewardReverts : Seq(RewardReverts)]
    <2>1. /\ s \in [bal : Books, curve : Curves \cup {NoPump}, pools : SUBSET Pools,
                   reverts : Seq(Reverts), rewards : {s.rewards},
                   rewardReverts : Seq(RewardReverts)]
          /\ s.pools \cup {row} \in SUBSET Pools
      BY <1>1, <1>9 DEF TablesInv
    <2> HIDE DEF t
    <2>2. QED
      BY <1>5, <1>8, <2>1
  <1> HIDE DEF t
  <1>11. TablesInv(t)
    BY <1>10 DEF TablesInv
  <1>12. row.at <= current /\ Mixed(t) = Mixed(s)
    BY <1>10 DEF row, Mixed
  <1>13. QED
    BY <1>10, <1>11, <1>12 DEF Continues, t

LEMMA PumpTradeContinues ==
    ASSUME NEW s, TablesInv(s), s.curve # NoPump, PerHolder(invites, Invites), current \in Nat,
           NEW u \in Users, NEW o \in TradeOps, CanPumpTrade(s, u, o)
    PROVE  Continues(s, PumpTrade(s, u, o))
  <1> DEFINE t == Traded(s, u, o)
  <1>1. Continues(s, t)
    BY TradedContinues DEF CanPumpTrade
  <1>2. CASE ~Full(t)
    BY <1>1, <1>2 DEF PumpTrade
  <1>3. CASE Full(t)
    <2>1. CanFinish(t) /\ PumpTrade(s, u, o) = Finished(t)
      BY <1>3 DEF CanPumpTrade, PumpTrade
    <2>2. Continues(t, Finished(t))
      BY <1>1, <2>1, FinishedContinues DEF Continues
    <2>3. QED
      BY <1>1, <2>1, <2>2, ContinuesOn
  <1>4. QED
    BY <1>2, <1>3

LEMMA ReservesShareIs ==
    ASSUME NEW o \in DeployOps, o.reserve < ReserveUnit
    PROVE  /\ ReservesShare(o) \in Nat /\ MemeMax - ReservesShare(o) \in Nat
           /\ o.reserve = 0 => ReservesShare(o) = MemeMax
  <1> DEFINE q == MemeMax \div ReserveUnit
             k == ReserveUnit - o.reserve
  <1>1. /\ MemeMax \in Nat /\ ReserveUnit \in Nat \ {0} /\ MemeMax % ReserveUnit = 0
        /\ o.reserve \in Nat
    BY PumpAssumption DEF DeployOps
  <1>2. q \in Nat /\ ReserveUnit * q <= MemeMax /\ MemeMax < ReserveUnit * q + ReserveUnit
    BY <1>1, DivFacts
  <1>3. ReserveUnit * q = MemeMax
    <2> DEFINE r == MemeMax - ReserveUnit * q
    <2> HIDE DEF q
    <2>1. r \in 0..(ReserveUnit - 1) /\ ReserveUnit * q + r = MemeMax
      BY <1>1, <1>2
    <2> HIDE DEF r
    <2>2. (ReserveUnit * q + r) % ReserveUnit = r
      BY <1>1, <1>2, <2>1, ModUnique
    <2>4. r = 0
      BY <1>1, <2>1, <2>2
    <2>3. QED
      BY <1>1, <1>2, <2>1, <2>4
  <1>4. k \in Nat /\ k <= ReserveUnit /\ (o.reserve = 0 => k = ReserveUnit)
    BY <1>1
  <1>5. q * k \in Nat /\ q * k <= q * ReserveUnit /\ q * ReserveUnit = ReserveUnit * q
    <2> HIDE DEF q, k
    <2>1. q * k \in Nat /\ q * ReserveUnit = ReserveUnit * q
      BY <1>1, <1>2, <1>4
    <2>2. \A x, y, z \in Nat : y <= z => x * y <= x * z
      OBVIOUS
    <2>3. QED
      BY <1>1, <1>2, <1>4, <2>1, <2>2
  <1>6. ReservesShare(o) = q * k
    BY DEF ReservesShare
  <1> HIDE DEF q, k
  <1>7. QED
    BY <1>1, <1>2, <1>3, <1>4, <1>5, <1>6

\* PumpDeploy up to the first trade.
LEMMA OpenedContinues ==
    ASSUME NEW s, TablesInv(s), s.curve = NoPump, current \in Nat,
           NEW u \in Users, NEW o \in DeployOps, o.reserve < ReserveUnit
    PROVE  Continues(s, Opened(s, u, o)) /\ Opened(s, u, o).curve # NoPump
  <1> DEFINE share == ReservesShare(o)
             b1 == IF o.reserve > 0 THEN Mint(s.bal, MEME, u, MemeMax - share) ELSE s.bal
             b2 == Mint(b1, MEME, Reserves, share)
             c == [amt0 |-> share, amt1 |-> DogeInit, reserve |-> o.reserve]
             row == [op |-> "deploy", amt0 |-> 0, amt1 |-> 0, at |-> current]
             t == Opened(s, u, o)
  <1>1. /\ share \in Nat /\ MemeMax - share \in Nat /\ (o.reserve = 0 => share = MemeMax)
        /\ DogeInit \in Nat /\ MemeMax \in Nat
    BY ReservesShareIs, PumpAssumption
  <1>2. /\ s.bal \in [Pair -> [Accounts -> Nat]] /\ s.reverts = <<>>
        /\ s.pools \in SUBSET Pools /\ s.rewardReverts \in Seq(RewardReverts)
    BY DEF TablesInv, Books
  <1>3. t = [s EXCEPT !.bal = b2, !.curve = c, !.reverts = Append(@, row)]
    BY DEF Opened
  <1>4. c \in Curves /\ row \in Reverts
    BY <1>1 DEF Curves, Reverts, DeployOps
  <1> HIDE DEF share
  <1>5. b1 \in [Pair -> [Accounts -> Nat]] /\ b1[MEME][Reserves] \in Nat
    BY <1>1, <1>2, PumpNames DEF Mint
  <1>6. /\ b2 \in [Pair -> [Accounts -> Nat]]
        /\ b2[MEME][Reserves] = b1[MEME][Reserves] + share
        /\ b2[WDOGE][Reserves] \in Nat
    <2> HIDE DEF b1
    <2>1. QED
      BY <1>1, <1>5, PumpNames DEF Mint
  <1>7. Covered(b2, c)
    <2> HIDE DEF b1, b2
    <2>1. QED
      BY <1>1, <1>5, <1>6 DEF Covered
  <1>8. ProductKept(c)
    BY <1>1 DEF ProductKept
  <1>9. /\ Append(s.reverts, row) = <<row>> /\ <<row>> \in Seq(Reverts) /\ <<row>> # <<>>
        /\ DOMAIN <<row>> = {1} /\ <<row>>[1] = row
    <2> HIDE DEF row
    <2>1. QED
      BY <1>2, <1>4
  <1>10. c \in Curves \cup {NoPump} /\ c # NoPump
    BY <1>4, PumpAssumption
  <1> HIDE DEF b1, b2, c
  <1>11. /\ t.bal = b2 /\ t.curve = c /\ t.pools = s.pools
         /\ t.reverts = <<row>> /\ t.rewards = s.rewards
         /\ t.rewardReverts = s.rewardReverts
         /\ t \in [bal : Books, curve : Curves \cup {NoPump}, pools : SUBSET Pools,
                   reverts : Seq(Reverts), rewards : {s.rewards},
                   rewardReverts : Seq(RewardReverts)]
    <2> HIDE DEF row, t
    <2>1. b2 \in Books
      BY <1>6 DEF Books
    <2>2. QED
      BY <1>2, <1>3, <1>9, <1>10, <2>1 DEF TablesInv
  <1> HIDE DEF t
  <1>12. Dated(t.reverts)
    BY <1>9, <1>11 DEF Dated
  <1>13. \A k \in DOMAIN t.reverts : t.reverts[k].op = "deploy" <=> k = 1
    BY <1>9, <1>11
  <1>14. TablesInv(t)
    BY <1>7, <1>8, <1>9, <1>10, <1>11, <1>12, <1>13 DEF TablesInv
  <1>15. \A h \in 0..(current - 1) :
            UndoneCurve(t.curve, t.reverts, h) = UndoneCurve(s.curve, s.reverts, h)
    <2>1. ASSUME NEW h \in 0..(current - 1)
          PROVE  UndoneCurve(t.curve, t.reverts, h) = UndoneCurve(s.curve, s.reverts, h)
      <3>1. 1 \in Above(t.reverts, h) /\ t.reverts[1].op = "deploy"
        BY <1>9, <1>11 DEF Above
      <3>2. UndoneCurve(t.curve, t.reverts, h) = NoPump
        BY <3>1 DEF UndoneCurve
      <3>3. Above(s.reverts, h) = {}
        BY <1>2 DEF Above
      <3>4. QED
        BY <3>2, <3>3 DEF UndoneCurve
    <2>2. QED
      BY <2>1
  <1>16. Mixed(t) = Mixed(s)
    BY <1>11 DEF Mixed
  <1>17. QED
    BY <1>10, <1>11, <1>14, <1>15, <1>16 DEF Continues, t

LEMMA DoContinues ==
    ASSUME NEW s, TablesInv(s), PerHolder(invites, Invites), current \in Nat,
           NEW u \in Users, NEW o \in Deploys \cup Trades, Can(s, u, o)
    PROVE  Continues(s, Do(s, u, o))
  <1>1. o \in DeployOps \/ o \in TradeOps
    BY PumpAssumption
  <1>2. CASE o \in TradeOps
    <2>1. o.op = "trade"
      BY <1>2 DEF TradeOps
    <2>2. s.curve # NoPump /\ CanPumpTrade(s, u, o) /\ Do(s, u, o) = PumpTrade(s, u, o)
      BY <2>1 DEF Can, VerifyTrade, Do
    <2>3. QED
      BY <1>2, <2>2, PumpTradeContinues
  <1>3. CASE o \in DeployOps
    <2> DEFINE t == Opened(s, u, o)
    <2>1. o.op = "deploy" /\ CanDeploy(s, u, o) /\ Do(s, u, o) = PumpDeploy(s, u, o)
      BY <1>3 DEF DeployOps, Can, Do
    <2>2. Continues(s, t) /\ t.curve # NoPump
      BY <1>3, <2>1, OpenedContinues DEF CanDeploy
    <2>3. CASE ~(o.first > 0)
      BY <2>1, <2>2, <2>3 DEF PumpDeploy
    <2>4. CASE o.first > 0
      <3>1. FirstBuy(o) \in TradeOps
        BY <1>3, PumpNames DEF FirstBuy, DeployOps, TradeOps
      <3>2. CanPumpTrade(t, u, FirstBuy(o)) /\ Do(s, u, o) = PumpTrade(t, u, FirstBuy(o))
        BY <2>1, <2>4 DEF CanDeploy, PumpDeploy
      <3>3. TablesInv(t)
        BY <2>2 DEF Continues
      <3> HIDE DEF t
      <3>4. Continues(t, PumpTrade(t, u, FirstBuy(o)))
        BY <2>2, <3>1, <3>2, <3>3, PumpTradeContinues
      <3>5. QED
        BY <2>2, <3>2, <3>4, ContinuesOn
    <2>5. QED
      BY <2>3, <2>4
  <1>4. QED
    BY <1>1, <1>2, <1>3

-----------------------------------------------------------------------------
(* Pump: the steps *)

LEMMA UndoneCurveIs ==
    ASSUME NEW rows \in Seq(Reverts), Dated(rows), NEW c \in Curves \cup {NoPump},
           c = NoPump <=> rows = <<>>,
           \A k \in DOMAIN rows : rows[k].op = "deploy" <=> k = 1,
           NEW h \in Nat
    PROVE  /\ UndoneCurve(c, rows, h) \in Curves \cup {NoPump}
           /\ UndoneCurve(c, rows, h) = NoPump <=> Kept(rows, h) = <<>>
  <1> DEFINE up == Above(rows, h)
             kept == Kept(rows, h)
  <1>1. /\ DOMAIN rows = 1..Len(rows) /\ Len(rows) \in Nat
        /\ \A k \in DOMAIN rows : rows[k] \in Reverts /\ rows[k].at \in Nat
              /\ rows[k].amt0 \in Nat /\ rows[k].amt1 \in Nat
    <2>1. DOMAIN rows = 1..Len(rows) /\ Len(rows) \in Nat
      BY LenProperties
    <2>2. \A k \in DOMAIN rows : rows[k] \in Reverts
      BY <2>1, ElementOfSeq
    <2>3. QED
      BY <2>1, <2>2 DEF Reverts
  <1>2. /\ kept \in Seq(Reverts) /\ DOMAIN kept = DOMAIN rows \ up
        /\ (kept = <<>> <=> DOMAIN kept = {})
    <2>1. kept \in Seq(Reverts) /\ DOMAIN kept = DOMAIN rows \ up
      BY <1>1, KeptIs
    <2> HIDE DEF kept
    <2>2. kept = <<>> <=> Len(kept) = 0
      BY <2>1, EmptySeq
    <2>3. DOMAIN kept = 1..Len(kept) /\ Len(kept) \in Nat
      BY <2>1, LenProperties
    <2>4. kept = <<>> <=> DOMAIN kept = {}
      <3>1. \A n \in Nat : 1..n = {} <=> n = 0
        OBVIOUS
      <3>2. DOMAIN kept = {} <=> Len(kept) = 0
        BY <2>3, <3>1
      <3>3. QED
        BY <2>2, <3>2
    <2>5. QED
      BY <2>1, <2>4 DEF kept
  <1>3. rows = <<>> <=> DOMAIN rows = {}
    BY <1>1, EmptySeq
  <1>4. CASE up = {}
    <2>1. UndoneCurve(c, rows, h) = c
      BY <1>4 DEF UndoneCurve
    <2>2. QED
      BY <1>2, <1>3, <1>4, <2>1
  <1>5. CASE \E k \in up : rows[k].op = "deploy"
    <2>1. 1 \in up
      BY <1>5 DEF Above
    <2>2. \A k \in DOMAIN rows : k \in up
      BY <1>1, <2>1 DEF Above, Dated
    <2>3. UndoneCurve(c, rows, h) = NoPump
      BY <1>5 DEF UndoneCurve
    <2>4. QED
      BY <1>2, <2>2, <2>3
  <1>6. CASE up # {} /\ ~\E k \in up : rows[k].op = "deploy"
    <2>1. 1 \in DOMAIN rows /\ 1 \notin up
      BY <1>1, <1>6 DEF Above
    <2>2. c \in Curves
      BY <1>3, <2>1
    <2>3. Oldest(up) \in DOMAIN rows
      <3>1. up \in SUBSET Nat /\ up \subseteq DOMAIN rows
        BY <1>1 DEF Above
      <3> HIDE DEF up
      <3>2. QED
        BY <1>6, <3>1, OldestIs
    <2>4. UndoneCurve(c, rows, h) =
            [c EXCEPT !.amt0 = rows[Oldest(up)].amt0, !.amt1 = rows[Oldest(up)].amt1]
      BY <1>6 DEF UndoneCurve
    <2>5. \A x, y \in Nat : [c EXCEPT !.amt0 = x, !.amt1 = y] \in Curves
      BY <2>2 DEF Curves
    <2>6. UndoneCurve(c, rows, h) \in Curves
      <3>1. rows[Oldest(up)].amt0 \in Nat /\ rows[Oldest(up)].amt1 \in Nat
        BY <1>1, <2>3
      <3>2. QED
        BY <2>4, <2>5, <3>1
    <2>7. QED
      BY <1>2, <2>1, <2>6, PumpAssumption
  <1>7. QED
    BY <1>4, <1>5, <1>6

LEMMA PumpInvInit == PumpInit => PumpInv
  <1> SUFFICES ASSUME PumpInit PROVE PumpInv
    OBVIOUS
  <1>1. Broke \in Books
    BY PumpAssumption DEF Broke, Books
  <1>2. /\ db = [bal |-> Broke, curve |-> NoPump, pools |-> {}, reverts |-> <<>>,
                 rewards |-> [w \in {} |-> NoOp], rewardReverts |-> <<>>]
        /\ current = 0 /\ balAt = [h \in {} |-> Broke] /\ curveAt = [h \in {} |-> NoPump]
        /\ rewardsAt = [h \in {} |-> [w \in {} |-> NoOp]] /\ doing = NoOp
        /\ invites = [w \in {} |-> NoOp] /\ mixed = {}
    BY DEF PumpInit
  <1>3. /\ db.bal = Broke /\ db.curve = NoPump /\ db.pools = {} /\ db.reverts = <<>>
        /\ db.rewards = [w \in {} |-> NoOp] /\ db.rewardReverts = <<>>
    BY <1>2
  <1>4. <<>> \in Seq(Reverts) /\ <<>> \in Seq(RewardReverts) /\ DOMAIN <<>> = {}
    OBVIOUS
  <1>5. PerHolder(invites, Invites) /\ PerHolder(db.rewards, Rewards)
    BY <1>2, <1>3 DEF PerHolder
  <1>6. Dated(db.reverts) /\ Dated(db.rewardReverts)
    BY <1>3, <1>4 DEF Dated
  <1>7. db \in [bal : Books, curve : Curves \cup {NoPump}, pools : SUBSET Pools,
                reverts : Seq(Reverts), rewards : {db.rewards},
                rewardReverts : Seq(RewardReverts)]
    <2> DEFINE r == [w \in {} |-> NoOp]
    <2>1. db.rewards = r
      BY <1>3
    <2> HIDE DEF r
    <2>2. db = [bal |-> Broke, curve |-> NoPump, pools |-> {}, reverts |-> <<>>,
                rewards |-> r, rewardReverts |-> <<>>]
      BY <1>2 DEF r
    <2>3. QED
      BY <1>1, <1>4, <2>1, <2>2
  <1>8. TablesInv(db)
    BY <1>3, <1>4, <1>5, <1>6, <1>7 DEF TablesInv
  <1>9. Mixed(db) = {}
    BY <1>3 DEF Mixed
  <1>10. 0..(current - 1) = {}
    BY <1>2
  <1>11. QED
    BY <1>2, <1>3, <1>5, <1>8, <1>9, <1>10 DEF PumpInv

\* A step that leaves the finished blocks alone.
LEMMA StepContinues ==
    ASSUME PumpInv, Continues(db, db'), UNCHANGED chain,
           PerHolder(invites', Invites),
           doing' \in {NoOp} \cup [who : Users, op : Deploys \cup Trades],
           mixed \cup Mixed(db') \subseteq mixed'
    PROVE  PumpInv'
  <1>1. balAt' = balAt /\ current' = current /\ curveAt' = curveAt /\ rewardsAt' = rewardsAt
    BY DEF chain
  <1>2. TablesInv(db)' /\ (\A p \in db.pools : p.at <= current)'
    BY <1>1 DEF PumpInv, Continues, TablesInv, Dated
  <1>3. ASSUME NEW h \in 0..(current - 1) PROVE LeadsBack(h)'
    <2>1. LeadsBack(h)
      BY DEF PumpInv
    <2>2. CurveBack(h)' = curveAt'[h]
      BY <1>1, <2>1 DEF LeadsBack, CurveBack, Continues
    <2>3. ASSUME NEW w \in DOMAIN rewardsAt[h]
          PROVE  w \in DOMAIN db'.rewards
                 /\ (w \notin mixed' => RewardsBack(h)'[w] = rewardsAt'[h][w])
      <3>1. w \in DOMAIN db.rewards /\ w \in DOMAIN db'.rewards
        BY <2>1 DEF LeadsBack, Continues
      <3>2. ASSUME w \notin mixed' PROVE RewardsBack(h)'[w] = rewardsAt'[h][w]
        <4>1. w \notin mixed /\ w \notin Mixed(db')
          BY <3>2
        <4>2. RewardsBack(h)[w] = rewardsAt[h][w]
          BY <2>1, <4>1 DEF LeadsBack
        <4>3. UndoneReward(w, db'.rewards[w], db'.rewardReverts, h)
                = UndoneReward(w, db.rewards[w], db.rewardReverts, h)
          BY <3>1, <4>1 DEF Continues
        <4>4. QED
          BY <1>1, <3>1, <4>2, <4>3 DEF RewardsBack
      <3>3. QED
        BY <3>1, <3>2
    <2>4. (\A p \in db'.pools : p.at > h) => \A p \in db.pools : p.at > h
      BY DEF Continues
    <2>5. QED
      BY <1>1, <2>1, <2>2, <2>3, <2>4 DEF LeadsBack
  <1>4. Mixed(db)' \subseteq mixed'
    BY DEF Mixed
  <1>5. QED
    BY <1>1, <1>2, <1>3, <1>4 DEF PumpInv, PerHolder

LEMMA BalanceStep ==
    ASSUME PumpInv, NEW b \in Books, db' = [db EXCEPT !.bal = b],
           b[MEME][Reserves] >= db.bal[MEME][Reserves],
           b[WDOGE][Reserves] >= db.bal[WDOGE][Reserves],
           UNCHANGED <<chain, invites, mixed>>,
           doing' \in {NoOp} \cup [who : Users, op : Deploys \cup Trades]
    PROVE  PumpInv'
  <1>1. TablesInv(db) /\ PerHolder(invites, Invites)
    BY DEF PumpInv
  <1>2. db.curve # NoPump /\ db.pools = {} => Covered(b, db.curve)
    <2>1. /\ db.bal[MEME][Reserves] \in Nat /\ db.bal[WDOGE][Reserves] \in Nat
          /\ b[MEME][Reserves] \in Nat /\ b[WDOGE][Reserves] \in Nat
          /\ DogeInit \in Nat
      BY <1>1, PumpNames, PumpAssumption DEF TablesInv, Books
    <2>2. db.curve # NoPump => db.curve.amt0 \in Nat /\ db.curve.amt1 \in Nat
      BY <1>1 DEF TablesInv, Curves
    <2>3. QED
      BY <1>1, <2>1, <2>2 DEF TablesInv, Covered
  <1>3. Continues(db, [db EXCEPT !.bal = b])
    BY <1>1, <1>2, BalancesChange
  <1>4. Mixed(db') = Mixed(db)
    BY <1>1 DEF Mixed, TablesInv
  <1>5. Mixed(db) \subseteq mixed /\ mixed' = mixed
    BY DEF PumpInv
  <1>6. QED
    BY <1>1, <1>3, <1>4, <1>5, StepContinues

LEMMA BeginKeeps ==
    ASSUME PumpInv, NEW u \in Users, NEW o \in Deploys \cup Trades, Begin(u, o)
    PROVE  PumpInv'
  <1> DEFINE d == DepositOf(o)
             b == Mint(db.bal, WDOGE, u, d)
  <1>1. db.bal \in Books /\ TablesInv(db)
    BY DEF PumpInv, TablesInv
  <1>2. d \in Nat
    BY PumpAssumption DEF DepositOf, DeployOps, TradeOps
  <1> HIDE DEF d
  <1>3. /\ b \in Books /\ b[MEME][Reserves] = db.bal[MEME][Reserves]
        /\ b[WDOGE][Reserves] = db.bal[WDOGE][Reserves]
        /\ db.bal[MEME][Reserves] \in Nat /\ db.bal[WDOGE][Reserves] \in Nat
    BY <1>1, <1>2, PumpNames DEF Mint, Books
  <1>4. doing' \in [who : Users, op : Deploys \cup Trades]
    BY DEF Begin
  <1>5. UNCHANGED <<chain, invites, mixed>>
    BY DEF Begin
  <1> HIDE DEF b
  <1>6. CASE d > 0
    <2>1. db' = [db EXCEPT !.bal = b]
      BY <1>6 DEF Begin, b, d
    <2>2. QED
      BY <1>3, <1>4, <1>5, <2>1, BalanceStep
  <1>7. CASE ~(d > 0)
    <2>1. db' = [db EXCEPT !.bal = db.bal]
      BY <1>1, <1>7 DEF Begin, d, TablesInv
    <2>2. QED
      BY <1>1, <1>3, <1>4, <1>5, <2>1, BalanceStep
  <1>8. QED
    BY <1>2, <1>6, <1>7

LEMMA TransferKeeps ==
    ASSUME PumpInv, NEW u \in Users, NEW a \in Accounts, NEW amt \in Gifts,
           MemeTransfer(u, a, amt) \/ DogeTransfer(u, a, amt)
    PROVE  PumpInv'
  <1>1. db.bal \in Books /\ amt \in Nat
    BY PumpAssumption DEF PumpInv, TablesInv
  <1>2. /\ doing' \in {NoOp} \cup [who : Users, op : Deploys \cup Trades]
        /\ UNCHANGED <<chain, invites, mixed>>
    BY DEF PumpInv, MemeTransfer, DogeTransfer
  <1>3. PICK t \in Pair : /\ CanMove(db.bal, t, u, a, amt)
                          /\ db' = [db EXCEPT !.bal = Move(db.bal, t, u, a, amt)]
    BY PumpNames DEF MemeTransfer, DogeTransfer
  <1> DEFINE b == Move(db.bal, t, u, a, amt)
  <1>4. /\ b \in Books /\ b[t][Reserves] >= db.bal[t][Reserves]
        /\ \A k \in Pair : k # t => b[k] = db.bal[k]
    BY <1>1, <1>3, PumpNames, MoveHere
  <1> HIDE DEF b
  <1>5. \A k \in Pair : db.bal[k][Reserves] \in Nat
    BY <1>1, PumpNames DEF Books
  <1>6. \A k \in Pair : b[k][Reserves] >= db.bal[k][Reserves]
    BY <1>4, <1>5
  <1>7. QED
    BY <1>2, <1>3, <1>4, <1>6, PumpNames, BalanceStep DEF b

LEMMA ExecuteKeeps ==
    ASSUME PumpInv, Execute
    PROVE  PumpInv'
  <1> DEFINE u == doing.who
             o == doing.op
             done == Do(db, u, o)
             out == WithdrawOf(db, o)
             b == Burn(done.bal, WDOGE, u, out)
  <1>1. TablesInv(db) /\ PerHolder(invites, Invites) /\ current \in Nat
        /\ u \in Users /\ o \in Deploys \cup Trades
    BY DEF PumpInv, Execute, Idle
  <1>2. /\ Can(db, u, o)
        /\ out > 0 => CanBurn(done.bal, WDOGE, u, out)
        /\ db' = Withdrawn(done, u, out)
        /\ mixed' = mixed \cup Mixed(db') /\ doing' = NoOp
        /\ UNCHANGED <<chain, invites>>
    BY DEF Execute
  <1> HIDE DEF u, o
  <1>3. Continues(db, done)
    BY <1>1, <1>2, DoContinues
  <1> HIDE DEF done, out
  <1>4. TablesInv(done)
    BY <1>3 DEF Continues
  <1>5. CASE ~(out > 0)
    <2>1. db' = done
      BY <1>2, <1>5 DEF Withdrawn
    <2>2. QED
      BY <1>1, <1>2, <1>3, <2>1, StepContinues
  <1>6. CASE out > 0
    <2>1. db' = [done EXCEPT !.bal = b]
      BY <1>2, <1>6 DEF Withdrawn
    <2>2. out \in Int
      <3>1. o \in DeployOps \/ o \in TradeOps
        BY <1>1, PumpAssumption
      <3>2. o.op = "trade" /\ o.tick = MEME /\ o \in TradeOps
        BY <1>6, <3>1 DEF out, WithdrawOf, DeployOps
      <3>3. db.curve \in Curves
        <4>1. db.curve \in Curves \cup {NoPump}
          BY <1>1 DEF TablesInv
        <4>2. VerifyTrade(db, u, o)
          BY <1>2, <3>2 DEF Can
        <4>3. QED
          BY <4>1, <4>2 DEF VerifyTrade
      <3>4. Yield(db, o) \in Nat
        <4>1. o.amt \in Nat \ {0}
          BY <1>2, <3>2 DEF Can, VerifyTrade, TradeOps
        <4>2. Yield(db, o) = Out(db.curve, MEME, o.amt)
          BY <3>2, PumpNames DEF Yield, In
        <4>3. QED
          BY <3>3, <4>1, <4>2, OutIs
      <3>5. Fee(Yield(db, o)) \in Nat
        BY <3>4, FeeIs
      <3>6. QED
        BY <1>6, <3>4, <3>5 DEF out, WithdrawOf
    <2>3. done.bal \in [Pair -> [Accounts -> Nat]]
      BY <1>4 DEF TablesInv, Books
    <2>4. /\ b \in Books /\ b[MEME][Reserves] = done.bal[MEME][Reserves]
          /\ b[WDOGE][Reserves] = done.bal[WDOGE][Reserves]
      BY <1>1, <1>2, <1>6, <2>2, <2>3, PumpNames DEF Burn, CanBurn, Books
    <2> HIDE DEF b
    <2>5. done.curve # NoPump /\ done.pools = {} => Covered(b, done.curve)
      BY <1>4, <2>4 DEF TablesInv, Covered
    <2>6. Continues(done, db')
      BY <1>4, <2>1, <2>4, <2>5, BalancesChange
    <2>7. Continues(db, db')
      BY <1>3, <2>6, ContinuesOn
    <2>8. QED
      BY <1>1, <1>2, <2>7, StepContinues
  <1>7. QED
    BY <1>5, <1>6

\* Nothing that leads back is touched.
LEMMA OthersKeep ==
    ASSUME PumpInv, UNCHANGED <<db, chain, mixed>>,
           PerHolder(invites', Invites),
           doing' \in {NoOp} \cup [who : Users, op : Deploys \cup Trades]
    PROVE  PumpInv'
  <1>1. TablesInv(db) /\ Mixed(db) \subseteq mixed /\ db' = db
    BY DEF PumpInv
  <1>2. Continues(db, db')
    BY <1>1 DEF Continues
  <1>3. mixed \cup Mixed(db') \subseteq mixed'
    BY <1>1
  <1>4. QED
    BY <1>2, <1>3, StepContinues

LEMMA InviteKeeps ==
    ASSUME PumpInv, NEW u \in Users, NEW by \in Accounts, Invite(u, by)
    PROVE  PumpInv'
  <1>1. [by |-> by, at |-> current] \in Invites
    BY DEF PumpInv, Invites
  <1>2. PerHolder(invites', Invites)
    BY <1>1 DEF PumpInv, PerHolder, Invite
  <1>3. QED
    BY <1>2, OthersKeep DEF Invite, PumpInv

LEMMA DropKeeps ==
    ASSUME PumpInv, Drop
    PROVE  PumpInv'
  BY OthersKeep DEF Drop, PumpInv

LEMMA FinishBlockKeeps ==
    ASSUME PumpInv, FinishBlock
    PROVE  PumpInv'
  <1>1. /\ UNCHANGED <<db, invites, doing, mixed>> /\ current' = current + 1
        /\ balAt' = [h \in 0..current |-> IF h = current THEN db.bal ELSE balAt[h]]
        /\ curveAt' = [h \in 0..current |-> IF h = current THEN db.curve ELSE curveAt[h]]
        /\ rewardsAt' = [h \in 0..current |-> IF h = current THEN db.rewards ELSE rewardsAt[h]]
    BY DEF FinishBlock, Ledger!EndBlock
  <1>2. /\ TablesInv(db) /\ current \in Nat /\ \A p \in db.pools : p.at <= current
        /\ balAt \in [0..(current - 1) -> Books]
        /\ curveAt \in [0..(current - 1) -> Curves \cup {NoPump}]
    BY DEF PumpInv
  <1>3. current' \in Nat /\ 0..(current' - 1) = 0..current
        /\ \A h \in 0..current : h # current => h \in 0..(current - 1)
    BY <1>1, <1>2
  <1>4. /\ \A k \in DOMAIN db.reverts : k \in Nat /\ db.reverts[k].at \in Nat
        /\ \A k \in DOMAIN db.rewardReverts : k \in Nat /\ db.rewardReverts[k].at \in Nat
        /\ \A p \in db.pools : p.at \in Nat
    <2>1. /\ db.reverts \in Seq(Reverts) /\ db.rewardReverts \in Seq(RewardReverts)
          /\ db.pools \in SUBSET Pools
      BY <1>2 DEF TablesInv
    <2>2. \A k \in DOMAIN db.reverts : k \in Nat /\ db.reverts[k] \in Reverts
      BY <2>1, LenProperties, ElementOfSeq
    <2>3. \A k \in DOMAIN db.rewardReverts : k \in Nat /\ db.rewardReverts[k].at \in Nat
      BY <2>1, RewardRowTypes
    <2>4. QED
      BY <2>1, <2>2, <2>3 DEF Reverts, Pools
  <1>5. TablesInv(db)'
    <2>1. Dated(db.reverts)' /\ Dated(db.rewardReverts)'
      BY <1>1, <1>2, <1>4 DEF TablesInv, Dated
    <2>2. QED
      BY <1>1, <1>2, <2>1 DEF TablesInv
  <1>6. (\A p \in db.pools : p.at <= current)'
    BY <1>1, <1>2, <1>4
  <1>7. /\ balAt' \in [0..(current' - 1) -> Books]
        /\ curveAt' \in [0..(current' - 1) -> Curves \cup {NoPump}]
        /\ DOMAIN rewardsAt' = 0..(current' - 1)
    <2>1. db.bal \in Books /\ db.curve \in Curves \cup {NoPump}
      BY <1>2 DEF TablesInv
    <2>2. QED
      BY <1>1, <1>2, <1>3, <2>1
  <1>8. ASSUME NEW h \in 0..current, h # current
        PROVE  LeadsBack(h)'
    <2>1. h \in 0..(current - 1) /\ LeadsBack(h)
      BY <1>3, <1>8 DEF PumpInv
    <2>2. curveAt'[h] = curveAt[h] /\ rewardsAt'[h] = rewardsAt[h] /\ balAt'[h] = balAt[h]
      BY <1>1, <1>8
    <2>3. CurveBack(h)' = CurveBack(h) /\ RewardsBack(h)' = RewardsBack(h)
      BY <1>1 DEF CurveBack, RewardsBack
    <2>4. QED
      BY <1>1, <2>1, <2>2, <2>3 DEF LeadsBack
  <1>9. ASSUME NEW h \in 0..current, h = current
        PROVE  LeadsBack(h)'
    <2>1. curveAt'[h] = db.curve /\ rewardsAt'[h] = db.rewards /\ balAt'[h] = db.bal
      BY <1>1, <1>9
    <2>2. Above(db.reverts, h) = {} /\ Above(db.rewardReverts, h) = {}
      <3>1. Dated(db.reverts) /\ Dated(db.rewardReverts)
        BY <1>2 DEF TablesInv
      <3>2. /\ \A k \in DOMAIN db.reverts : db.reverts[k].at <= h
            /\ \A k \in DOMAIN db.rewardReverts : db.rewardReverts[k].at <= h
        BY <1>4, <1>9, <3>1 DEF Dated
      <3>3. QED
        BY <1>2, <1>4, <1>9, <3>2 DEF Above
    <2>3. CurveBack(h)' = curveAt'[h]
      BY <1>1, <2>1, <2>2 DEF CurveBack, UndoneCurve
    <2>4. ASSUME NEW w \in DOMAIN db.rewards
          PROVE  RewardsBack(h)'[w] = rewardsAt'[h][w]
      <3>1. UndoneReward(w, db.rewards[w], db.rewardReverts, h) = db.rewards[w]
        BY <2>2 DEF UndoneReward, Naming
      <3>2. QED
        BY <1>1, <2>1, <3>1 DEF RewardsBack
    <2>5. (\A p \in db.pools : p.at > h) => db.pools = {}
      BY <1>2, <1>4, <1>9
    <2>6. db.curve # NoPump =>
            /\ ProductKept(db.curve)
            /\ (\A p \in db.pools : p.at > h) => Covered(db.bal, db.curve)
      BY <1>2, <2>5 DEF TablesInv
    <2>7. QED
      BY <1>1, <2>1, <2>3, <2>4, <2>6 DEF LeadsBack
  <1>10. QED
    BY <1>1, <1>3, <1>5, <1>6, <1>7, <1>8, <1>9 DEF PumpInv


\* What a fork makes of the tables is a table again.
LEMMA ForkedTables ==
    ASSUME PumpInv, NEW h \in 0..(current - 1), Fork(h)
    PROVE  TablesInv(db)' /\ Mixed(db') \subseteq mixed
  <1>0. /\ current' = h /\ mixed' = mixed
        /\ db' = [bal |-> balAt[h], curve |-> CurveBack(h),
                  pools |-> {p \in db.pools : p.at <= h},
                  reverts |-> Kept(db.reverts, h), rewards |-> RewardsBack(h),
                  rewardReverts |-> Kept(db.rewardReverts, h)]
    BY DEF Fork
  <1> DEFINE back == RewardsBack(h)
             kept == Kept(db.reverts, h)
             keptR == Kept(db.rewardReverts, h)
  <1>1. /\ current \in Nat /\ h \in Nat /\ h <= current - 1
        /\ TablesInv(db) /\ LeadsBack(h) /\ Mixed(db) \subseteq mixed
        /\ balAt[h] \in Books /\ curveAt[h] \in Curves \cup {NoPump}
    BY DEF PumpInv
  <1>2. /\ db.reverts \in Seq(Reverts) /\ db.rewardReverts \in Seq(RewardReverts)
        /\ db.pools \in SUBSET Pools /\ db.curve \in Curves \cup {NoPump}
        /\ Dated(db.reverts) /\ Dated(db.rewardReverts)
        /\ PerHolder(db.rewards, Rewards)
        /\ db.curve = NoPump <=> db.reverts = <<>>
        /\ \A k \in DOMAIN db.reverts : db.reverts[k].op = "deploy" <=> k = 1
        /\ \A k \in DOMAIN db.rewardReverts : db.rewardReverts[k].who \in DOMAIN db.rewards
    BY <1>1 DEF TablesInv
  <1>3. current' = h /\ mixed' = mixed
        /\ db' = [bal |-> balAt[h], curve |-> CurveBack(h),
                  pools |-> {p \in db.pools : p.at <= h},
                  reverts |-> kept, rewards |-> back, rewardReverts |-> keptR]
    BY <1>0
  <1>4. /\ \A k \in DOMAIN db.reverts :
              k \in Nat /\ db.reverts[k] \in Reverts /\ db.reverts[k].at \in Nat
        /\ \A k \in DOMAIN db.rewardReverts :
              k \in Nat /\ db.rewardReverts[k] \in RewardReverts
              /\ db.rewardReverts[k].at \in Nat
    <2>1. \A k \in DOMAIN db.reverts : k \in Nat /\ db.reverts[k] \in Reverts
      BY <1>2, ElementOfSeq, LenProperties
    <2>2. \A k \in DOMAIN db.rewardReverts :
            k \in Nat /\ db.rewardReverts[k] \in RewardReverts
            /\ db.rewardReverts[k].at \in Nat
      BY <1>2, RewardRowTypes
    <2>3. QED
      BY <2>1, <2>2 DEF Reverts
  <1>5. /\ kept \in Seq(Reverts) /\ DOMAIN kept = DOMAIN db.reverts \ Above(db.reverts, h)
        /\ \A k \in DOMAIN kept : kept[k] = db.reverts[k]
    <2>1. /\ db.reverts \in Seq(Reverts) /\ Dated(db.reverts) /\ h \in Nat
          /\ \A k \in DOMAIN db.reverts : db.reverts[k].at \in Nat
      BY <1>1, <1>2, <1>4
    <2>2. QED
      BY <2>1, KeptIs
  <1>6. /\ keptR \in Seq(RewardReverts)
        /\ DOMAIN keptR = DOMAIN db.rewardReverts \ Above(db.rewardReverts, h)
        /\ \A k \in DOMAIN keptR : keptR[k] = db.rewardReverts[k]
    BY <1>1, <1>2, <1>4, KeptIs
  <1>7. CurveBack(h) = curveAt[h] /\ (curveAt[h] = NoPump <=> kept = <<>>)
    <2>1. UndoneCurve(db.curve, db.reverts, h) = NoPump <=> kept = <<>>
      BY <1>1, <1>2, UndoneCurveIs
    <2>2. CurveBack(h) = curveAt[h]
      BY <1>1 DEF LeadsBack
    <2>3. QED
      BY <2>1, <2>2 DEF CurveBack
  <1>8. DOMAIN back = DOMAIN db.rewards /\ PerHolder(back, Rewards)
        /\ \A w \in DOMAIN back : back[w].by = db.rewards[w].by
    <2>1. DOMAIN back = DOMAIN db.rewards
      BY DEF RewardsBack
    <2>2. ASSUME NEW w \in DOMAIN db.rewards
          PROVE  back[w] \in Rewards /\ back[w].by = db.rewards[w].by
      <3> DEFINE row == db.rewards[w]
                 rows == db.rewardReverts
                 up == Naming(w, row, rows, h)
      <3>1. row \in Rewards /\ back[w] = UndoneReward(w, row, rows, h)
        BY <1>2 DEF PerHolder, RewardsBack
      <3>2. up \in SUBSET Nat /\ up \subseteq DOMAIN rows
        BY <1>2, RewardRowTypes DEF Naming, Above
      <3> HIDE DEF up, row, rows
      <3>3. CASE up = {}
        BY <3>1, <3>3 DEF UndoneReward, up, row
      <3>4. CASE up # {}
        <4>1. Oldest(up) \in DOMAIN rows
          BY <3>2, <3>4, OldestIs
        <4>2. rows[Oldest(up)].amt \in Nat
          BY <1>4, <4>1 DEF RewardReverts, rows
        <4>3. back[w] = [row EXCEPT !.amt = rows[Oldest(up)].amt]
          BY <3>1, <3>4 DEF UndoneReward, up
        <4>4. QED
          BY <3>1, <4>2, <4>3 DEF Rewards, row
      <3>5. QED
        BY <3>3, <3>4
    <2>3. PerHolder(back, Rewards)
      <3>1. back = [w \in DOMAIN db.rewards |->
                      UndoneReward(w, db.rewards[w], db.rewardReverts, h)]
        BY DEF RewardsBack
      <3> HIDE DEF back
      <3>2. QED
        BY <1>2, <2>1, <2>2, <3>1 DEF PerHolder
    <2>4. QED
      BY <2>1, <2>2, <2>3
  <1> HIDE DEF back, kept, keptR
  <1>9. /\ db'.bal = balAt[h] /\ db'.curve = curveAt[h] /\ db'.reverts = kept
        /\ db'.rewards = back /\ db'.rewardReverts = keptR
        /\ db'.pools = {p \in db.pools : p.at <= h}
        /\ db' \in [bal : Books, curve : Curves \cup {NoPump}, pools : SUBSET Pools,
                     reverts : Seq(Reverts), rewards : {back},
                     rewardReverts : Seq(RewardReverts)]
    <2>1. {p \in db.pools : p.at <= h} \in SUBSET Pools
      BY <1>2
    <2>2. QED
      BY <1>1, <1>3, <1>5, <1>6, <1>7, <2>1
  <1>10. Dated(db.reverts)' /\ Dated(db.rewardReverts)'
    <2>1. /\ \A k, l \in DOMAIN kept : k <= l => kept[k].at <= kept[l].at /\ kept[l].at <= h
          /\ \A k, l \in DOMAIN keptR : k <= l => keptR[k].at <= keptR[l].at /\ keptR[l].at <= h
      <3>1. /\ \A k \in DOMAIN kept : kept[k].at \in Nat /\ kept[k].at <= h
            /\ \A k \in DOMAIN keptR : keptR[k].at \in Nat /\ keptR[k].at <= h
        BY <1>1, <1>4, <1>5, <1>6 DEF Above
      <3>2. /\ \A k, l \in DOMAIN kept : k <= l => kept[k].at <= kept[l].at
            /\ \A k, l \in DOMAIN keptR : k <= l => keptR[k].at <= keptR[l].at
        BY <1>2, <1>5, <1>6 DEF Dated
      <3>3. QED
        BY <3>1, <3>2
    <2>2. QED
      BY <1>3, <1>9, <2>1 DEF Dated
  <1>11. \A k \in DOMAIN kept : kept[k].op = "deploy" <=> k = 1
    BY <1>2, <1>5
  <1>12. \A k \in DOMAIN keptR : keptR[k].who \in DOMAIN back
    BY <1>2, <1>6, <1>8
  <1>13. curveAt[h] # NoPump =>
            ProductKept(curveAt[h])
            /\ (db'.pools = {} => Covered(balAt[h], curveAt[h]))
    <2>1. db'.pools = {} => \A p \in db.pools : p.at > h
      BY <1>1, <1>2, <1>9 DEF Pools
    <2>2. QED
      BY <1>1, <2>1 DEF LeadsBack
  <1>14. TablesInv(db)'
    BY <1>7, <1>8, <1>9, <1>10, <1>11, <1>12, <1>13 DEF TablesInv
  <1>15. Mixed(db') \subseteq Mixed(db)
    BY <1>6, <1>8, <1>9 DEF Mixed
  <1>16. QED
    BY <1>1, <1>14, <1>15

LEMMA ForkKeeps ==
    ASSUME PumpInv, NEW h \in DOMAIN balAt, Fork(h)
    PROVE  PumpInv'
  <1>1. /\ h \in 0..(current - 1) /\ current \in Nat /\ h \in Nat /\ h <= current - 1
        /\ \A g \in 0..(h - 1) : g \in 0..(current - 1) /\ g \in Nat /\ g < h
        /\ TablesInv(db) /\ \A p \in db.pools : p.at \in Nat
        /\ balAt \in [0..(current - 1) -> Books]
        /\ curveAt \in [0..(current - 1) -> Curves \cup {NoPump}]
        /\ PerHolder(invites, Invites)
    BY DEF PumpInv, TablesInv, Pools
  <1>2. TablesInv(db)' /\ Mixed(db') \subseteq mixed
    BY <1>1, ForkedTables
  <1>3. /\ current' = h /\ mixed' = mixed /\ doing' = doing
        /\ balAt' = [g \in 0..(h - 1) |-> balAt[g]]
        /\ curveAt' = [g \in 0..(h - 1) |-> curveAt[g]]
        /\ rewardsAt' = [g \in 0..(h - 1) |-> rewardsAt[g]]
        /\ invites' = InvitesBack(h)
        /\ db' = [bal |-> balAt[h], curve |-> CurveBack(h),
                  pools |-> {p \in db.pools : p.at <= h},
                  reverts |-> Kept(db.reverts, h), rewards |-> RewardsBack(h),
                  rewardReverts |-> Kept(db.rewardReverts, h)]
    BY DEF Fork
  <1>4. /\ db'.curve = CurveBack(h) /\ db'.pools = {p \in db.pools : p.at <= h}
        /\ db'.reverts = Kept(db.reverts, h) /\ db'.rewards = RewardsBack(h)
        /\ db'.rewardReverts = Kept(db.rewardReverts, h)
    BY <1>3
  <1>5. (\A p \in db.pools : p.at <= current)'
    BY <1>3, <1>4
  <1>6. PerHolder(invites', Invites)
    BY <1>1, <1>3 DEF InvitesBack, PerHolder
  <1>7. /\ balAt' \in [0..(h - 1) -> Books]
        /\ curveAt' \in [0..(h - 1) -> Curves \cup {NoPump}]
        /\ DOMAIN rewardsAt' = 0..(h - 1)
    BY <1>1, <1>3
  <1>8. ASSUME NEW g \in 0..(h - 1) PROVE LeadsBack(g)'
    <2>1. LeadsBack(g) /\ g \in Nat /\ g < h
      BY <1>1 DEF PumpInv
    <2>2. curveAt'[g] = curveAt[g] /\ rewardsAt'[g] = rewardsAt[g] /\ balAt'[g] = balAt[g]
      BY <1>3
    <2>3. CurveBack(g)' = curveAt'[g]
      <3>1. UndoneCurve(UndoneCurve(db.curve, db.reverts, h), Kept(db.reverts, h), g)
              = UndoneCurve(db.curve, db.reverts, g)
        <4>1. /\ db.reverts \in Seq(Reverts) /\ Dated(db.reverts)
              /\ db.curve \in Curves \cup {NoPump}
              /\ db.curve = NoPump <=> db.reverts = <<>>
              /\ \A k \in DOMAIN db.reverts : db.reverts[k].op = "deploy" <=> k = 1
          BY <1>1 DEF TablesInv
        <4>2. QED
          BY <1>1, <2>1, <4>1, CurveUndoneTwice
      <3>2. UndoneCurve(db'.curve, db'.reverts, g) = UndoneCurve(db.curve, db.reverts, g)
        BY <1>4, <3>1 DEF CurveBack
      <3>3. QED
        BY <2>1, <2>2, <3>2 DEF CurveBack, LeadsBack
    <2>4. ASSUME NEW w \in DOMAIN rewardsAt[g]
          PROVE  w \in DOMAIN db'.rewards
                 /\ (w \notin mixed' => RewardsBack(g)'[w] = rewardsAt'[g][w])
      <3>1. w \in DOMAIN db.rewards /\ db.rewards[w] \in Rewards
            /\ (w \notin mixed => RewardsBack(g)[w] = rewardsAt[g][w])
        BY <1>1, <2>1 DEF LeadsBack, TablesInv, PerHolder
      <3>2. /\ DOMAIN db'.rewards = DOMAIN db.rewards
            /\ db'.rewards[w] = UndoneReward(w, db.rewards[w], db.rewardReverts, h)
        BY <1>4, <3>1 DEF RewardsBack
      <3>3. UndoneReward(w, db'.rewards[w], db'.rewardReverts, g)
              = UndoneReward(w, db.rewards[w], db.rewardReverts, g)
        BY <1>1, <1>4, <2>1, <3>1, <3>2, RewardUndoneTwice DEF TablesInv
      <3>4. RewardsBack(g)'[w] = RewardsBack(g)[w]
        BY <3>1, <3>2, <3>3 DEF RewardsBack
      <3>5. QED
        BY <1>3, <2>2, <3>1, <3>2, <3>4
    <2>5. curveAt[g] # NoPump =>
            /\ ProductKept(curveAt[g])
            /\ (\A p \in db'.pools : p.at > g) => Covered(balAt[g], curveAt[g])
      <3>1. (\A p \in db'.pools : p.at > g) => \A p \in db.pools : p.at > g
        BY <1>1, <1>4, <2>1
      <3>2. QED
        BY <2>1, <3>1 DEF LeadsBack
    <2>6. QED
      BY <2>2, <2>3, <2>4, <2>5 DEF LeadsBack
  <1>9. Mixed(db)' \subseteq mixed'
    BY <1>2, <1>3 DEF Mixed
  <1>10. QED
    BY <1>1, <1>2, <1>3, <1>5, <1>6, <1>7, <1>8, <1>9 DEF PumpInv

LEMMA PumpInvStep == PumpInv /\ [PumpNext]_pumpVars => PumpInv'
  <1> SUFFICES ASSUME PumpInv, [PumpNext]_pumpVars PROVE PumpInv'
    OBVIOUS
  <1>1. CASE \E u \in Users, o \in Deploys \cup Trades : Begin(u, o)
    BY <1>1, BeginKeeps
  <1>2. CASE Execute
    BY <1>2, ExecuteKeeps
  <1>3. CASE Drop
    BY <1>3, DropKeeps
  <1>4. CASE \E u \in Users, a \in Accounts, amt \in Gifts :
               MemeTransfer(u, a, amt) \/ DogeTransfer(u, a, amt)
    BY <1>4, TransferKeeps
  <1>5. CASE \E u \in Users, by \in Accounts : Invite(u, by)
    BY <1>5, InviteKeeps
  <1>6. CASE FinishBlock
    BY <1>6, FinishBlockKeeps
  <1>7. CASE \E h \in DOMAIN balAt : Fork(h)
    BY <1>7, ForkKeeps
  <1>8. CASE UNCHANGED pumpVars
    BY <1>8, OthersKeep DEF pumpVars, PumpInv
  <1>9. QED
    BY <1>1, <1>2, <1>3, <1>4, <1>5, <1>6, <1>7, <1>8 DEF PumpNext

-----------------------------------------------------------------------------
(* Pump: the theorems *)

\* The tables of pump and invite keep to their types and orders, and their
\* journals lead back to the end of every finished block, however trades,
\* deploys, transfers, invitations, crashes and forks follow each other.
THEOREM PumpInvariant == PumpSpec => []PumpInv
  BY PumpInvInit, PumpInvStep, PTL DEF PumpSpec

\* The row of pump_liquidity, counted on its own next to the two ledgers
\* (PumpTrade, TransferDrc20, TransferMeme20), never promises what the
\* reserves do not hold.
THEOREM CurveIsCovered == PumpSpec => []CurveCovered
  <1>1. PumpInv => CurveCovered
    BY DEF PumpInv, TablesInv, CurveCovered, Open
  <1>2. QED
    BY <1>1, PumpInvariant, PTL

\* The sale of everything that is out of the reserves gives no more than the
\* reserves have: the product of the curve never falls below its first value.
THEOREM HoldersArePaid == PumpSpec => []HoldersCanBePaid
  <1>1. ASSUME PumpInv, Open, db.curve.reserve = 0
        PROVE  Out(db.curve, MEME, MemeMax - db.curve.amt0) <= db.bal[WDOGE][Reserves]
    <2> DEFINE a0 == db.curve.amt0
               a1 == db.curve.amt1
               x == (MemeMax - a0) * a1
               q == x \div MemeMax
               paid == db.bal[WDOGE][Reserves]
    <2>1. /\ a0 \in Nat /\ a1 \in Nat /\ paid \in Nat
          /\ MemeMax \in Nat \ {0} /\ DogeInit \in Nat
      <3>1. TablesInv(db) /\ db.curve # NoPump
        BY <1>1 DEF PumpInv, Open
      <3>2. db.curve \in Curves /\ db.bal \in Books
        BY <3>1 DEF TablesInv
      <3>3. QED
        BY <3>2, PumpNames, PumpAssumption DEF Curves, Books
    <2>2. a0 * a1 >= DogeInit * MemeMax /\ a1 <= DogeInit + paid
      BY <1>1 DEF PumpInv, TablesInv, Open, ProductKept, Covered
    <2>3. Out(db.curve, MEME, MemeMax - a0) = q
      <3>1. a0 + (MemeMax - a0) = MemeMax
        BY <2>1
      <3>2. QED
        BY <3>1, PumpNames DEF Out
    <2> HIDE DEF a0, a1, paid
    <2>4. x \in Int /\ x = MemeMax * a1 - a0 * a1
      BY <2>1
    <2>5. x <= MemeMax * (a1 - DogeInit)
      <3>1. MemeMax * (a1 - DogeInit) = MemeMax * a1 - DogeInit * MemeMax
        BY <2>1
      <3>2. MemeMax * a1 \in Int /\ a0 * a1 \in Int /\ DogeInit * MemeMax \in Int
        BY <2>1
      <3>3. QED
        BY <2>2, <2>4, <3>1, <3>2
    <2> HIDE DEF x
    <2>6. q \in Int /\ MemeMax * q <= x
      BY <2>1, <2>4
    <2> HIDE DEF q
    <2>7. q <= a1 - DogeInit
      <3>1. ASSUME q > a1 - DogeInit PROVE FALSE
        <4>1. \A m \in Nat \ {0}, y, z \in Int : y > z => m * y > m * z
          OBVIOUS
        <4>2. MemeMax * q > MemeMax * (a1 - DogeInit)
          BY <2>1, <2>6, <3>1, <4>1
        <4>3. MemeMax * q \in Int /\ MemeMax * (a1 - DogeInit) \in Int
          BY <2>1, <2>6
        <4>4. QED
          BY <2>4, <2>5, <2>6, <4>2, <4>3
      <3>2. QED
        BY <2>1, <2>6, <3>1
    <2>8. QED
      BY <2>1, <2>2, <2>3, <2>6, <2>7 DEF paid, a0
  <1>2. PumpInv => HoldersCanBePaid
    BY <1>1 DEF HoldersCanBePaid
  <1>3. QED
    BY <1>2, PumpInvariant, PTL

\* A fork gives back the curve, and the rewards of the holders whose credits
\* were of one inviter (pumpFork).
THEOREM CurveForksRestore == PumpSpec => ForkRestoresCurve
  <1>1. ASSUME PumpInv, [PumpNext]_pumpVars, ~UNCHANGED pumpVars, current' < current
        PROVE  \E h \in 0..(current - 1) : Fork(h)
    <2>1. current \in Nat /\ DOMAIN balAt = 0..(current - 1)
      BY <1>1 DEF PumpInv
    <2>2. current' # current
      BY <1>1, <2>1
    <2>3. ~FinishBlock
      BY <1>1, <2>1 DEF FinishBlock, Ledger!EndBlock
    <2>4. ~Execute /\ ~Drop
      BY <2>2 DEF Execute, Drop, chain
    <2>5. \A u \in Users :
            /\ \A o \in Deploys \cup Trades : ~Begin(u, o)
            /\ \A a \in Accounts, amt \in Gifts :
                  ~MemeTransfer(u, a, amt) /\ ~DogeTransfer(u, a, amt)
            /\ \A by \in Accounts : ~Invite(u, by)
      BY <2>2 DEF Begin, MemeTransfer, DogeTransfer, Invite, chain
    <2>6. QED
      BY <1>1, <2>1, <2>3, <2>4, <2>5 DEF PumpNext
  <1>2. ASSUME PumpInv, NEW h \in 0..(current - 1), Fork(h)
        PROVE  /\ db'.curve = curveAt[current']
               /\ \A w \in DOMAIN rewardsAt[current'] :
                     w \notin mixed => db'.rewards[w] = rewardsAt[current'][w]
    <2>1. current' = h /\ db'.curve = CurveBack(h) /\ db'.rewards = RewardsBack(h)
      BY <1>2 DEF Fork
    <2>2. LeadsBack(h)
      BY <1>2 DEF PumpInv
    <2>3. QED
      BY <2>1, <2>2 DEF LeadsBack
  <1>3. PumpInv /\ [PumpNext]_pumpVars =>
          [current' < current =>
             /\ db'.curve = curveAt[current']
             /\ \A w \in DOMAIN rewardsAt[current'] :
                   w \notin mixed => db'.rewards[w] = rewardsAt[current'][w]]_pumpVars
    BY <1>1, <1>2
  <1>4. QED
    BY <1>3, PumpInvariant, PTL DEF PumpSpec, ForkRestoresCurve
=============================================================================
