--------------------------- MODULE ExchangeProofs ---------------------------
(***************************************************************************)
(* Machine-checked proofs about Exchange, for every set of orders, users   *)
(* and amounts and every bound.                                            *)
(***************************************************************************)
EXTENDS Exchange, DataLemmas, SequenceTheorems, TLAPS

-----------------------------------------------------------------------------
(* Balances *)

LEMMA AccountFacts ==
    /\ \A u \in Users : u \in Accounts
    /\ \A e \in ExIds : Reserve[e] \in Accounts
    /\ \A e \in ExIds : Offer[e] \in Offers
  BY ExchangeAssumption DEF Accounts

\* A movement that is allowed keeps the ledger a ledger ...
LEMMA MoveType ==
    ASSUME NEW b \in Books, NEW t \in Ticks,
           NEW from \in Accounts, NEW to \in Accounts, NEW amt \in Int,
           CanMove(b, t, from, to, amt)
    PROVE  Move(b, t, from, to, amt) \in Books
  BY DEF Move, CanMove, Books

\* ... takes the amount from one balance, adds it to another, and leaves the
\* rest alone.
LEMMA MoveValue ==
    ASSUME NEW b \in Books, NEW t \in Ticks,
           NEW from \in Accounts, NEW to \in Accounts, NEW amt \in Int,
           CanMove(b, t, from, to, amt),
           NEW u \in Ticks, NEW a \in Accounts
    PROVE  Move(b, t, from, to, amt)[u][a] =
             IF u = t /\ a = from THEN b[u][a] - amt
             ELSE IF u = t /\ a = to THEN b[u][a] + amt
             ELSE b[u][a]
  BY DEF Move, CanMove, Books

-----------------------------------------------------------------------------
(* The first row of an order *)

LEMMA FirstExists ==
    ASSUME orders \in Seq(OrderRows), NEW e \in ExIds, RowsOf(e) # {}
    PROVE  \E i \in RowsOf(e) : IsFirst(i) /\ First(e) = orders[i]
  <1>1. RowsOf(e) \in SUBSET Nat
    BY DEF RowsOf
  <1>2. PICK n \in RowsOf(e) : \A m \in RowsOf(e) : n <= m
    BY <1>1, LeastNatural
  <1>3. \E i \in RowsOf(e) : IsFirst(i)
    BY <1>2 DEF IsFirst, RowsOf
  <1>4. QED
    BY <1>3 DEF First

LEMMA FirstType ==
    ASSUME orders \in Seq(OrderRows), NEW e \in ExIds, RowsOf(e) # {}
    PROVE  First(e).fin0 \in Nat /\ First(e).fin1 \in Nat
  <1>1. PICK i \in RowsOf(e) : First(e) = orders[i]
    BY FirstExists
  <1>2. i \in DOMAIN orders /\ orders[i] \in OrderRows
    BY <1>1, ElementOfSeq DEF RowsOf
  <1>3. QED
    BY <1>1, <1>2 DEF OrderRows

-----------------------------------------------------------------------------
(* The inductive invariant *)

\* The order of a row that no fork has touched is known to exchange_info, and
\* was created no later than its latest operation.
RowsKnown ==
    \A i \in DOMAIN orders :
        LET e == orders[i].exId
        IN  e \notin orphaned => e \in DOMAIN info /\ info[e] <= last[e]

\* The ledgers a fork can give back cover the orders whose operations it keeps.
PastBacked ==
    \A g \in DOMAIN ended, i \in DOMAIN orders :
        orders[i].exId \notin orphaned /\ last[orders[i].exId] <= g
            => CoveredBy(ended[g], i)

\* exchange_info has no row of a block above the one being scanned.
InfoBelow == \A e \in DOMAIN info : info[e] <= height

IInv == TypeOK /\ Backed /\ OneRow /\ RowsKnown /\ PastBacked /\ InfoBelow

-----------------------------------------------------------------------------
(* Updates of exchange_collect and exchange_revert *)

LEMMA FinishFacts ==
    ASSUME orders \in Seq(OrderRows), NEW e \in ExIds,
           NEW fin0 \in Nat, NEW fin1 \in Nat
    PROVE  /\ Finish(e, fin0, fin1) \in Seq(OrderRows)
           /\ DOMAIN Finish(e, fin0, fin1) = DOMAIN orders
           /\ \A i \in DOMAIN orders :
                Finish(e, fin0, fin1)[i] =
                  IF orders[i].exId = e
                  THEN [exId |-> e, fin0 |-> fin0, fin1 |-> fin1]
                  ELSE orders[i]
  <1> DEFINE F == Finish(e, fin0, fin1)
  <1>1. F \in [1..Len(orders) -> OrderRows]
    <2>1. DOMAIN orders = 1..Len(orders)
          /\ \A i \in 1..Len(orders) : orders[i] \in OrderRows
      OBVIOUS
    <2>2. [exId |-> e, fin0 |-> fin0, fin1 |-> fin1] \in OrderRows
      BY DEF OrderRows
    <2>3. QED
      BY <2>1, <2>2 DEF Finish
  <1>2. F \in Seq(OrderRows)
    BY <1>1, SeqDef
  <1>3. QED
    BY <1>2 DEF Finish

LEMMA JournalType ==
    ASSUME TypeOK, NEW row, row.exId \in ExIds, row.height = 0, Journal(row)
    PROVE  /\ DOMAIN reverts' \subseteq 1..(nextId' - 1)
           /\ \A i \in DOMAIN reverts' :
                 reverts'[i].exId \in ExIds /\ reverts'[i].height = 0
           /\ nextId' \in Nat \ {0}
           /\ last' \in [ExIds -> Nat]
           /\ \A f \in ExIds :
                 last'[f] = IF f = row.exId THEN height ELSE last[f]
  <1>1. nextId \in Nat \ {0} /\ DOMAIN reverts \subseteq 1..(nextId - 1)
    BY DEF TypeOK
  <1>2. nextId' = nextId + 1 /\ DOMAIN reverts' = DOMAIN reverts \cup {nextId}
    BY DEF Journal
  <1>3. nextId \in 1..(nextId' - 1)
    BY <1>1, <1>2
  <1>4. QED
    BY <1>1, <1>2, <1>3 DEF TypeOK, Journal

-----------------------------------------------------------------------------
(* Trades and cancels: tokens leave the address of one order, no more than *)
(* amt0_finish goes up by, and no other order's address loses any.         *)

LEMMA FillKeepsIInv ==
    ASSUME IInv, NEW e \in ExIds, NEW out \in Int, out >= 1, NEW paid \in Nat,
           NEW row, row.exId = e, row.height = 0, Journal(row),
           RowsOf(e) # {},
           orders' = Finish(e, First(e).fin0 + out, First(e).fin1 + paid),
           bal' \in Books,
           bal'[Offer[e].tick0][Reserve[e]] >= bal[Offer[e].tick0][Reserve[e]] - out,
           \A f \in ExIds \ {e} :
             bal'[Offer[f].tick0][Reserve[f]] >= bal[Offer[f].tick0][Reserve[f]],
           UNCHANGED <<ended, height, info, orphaned>>
    PROVE  IInv'
  <1> USE DEF IInv
  <1> DEFINE n0 == First(e).fin0 + out
             n1 == First(e).fin1 + paid
  <1>1. orders \in Seq(OrderRows)
    BY DEF TypeOK
  <1>2. PICK k \in RowsOf(e) : IsFirst(k) /\ First(e) = orders[k]
    BY <1>1, FirstExists
  <1>3. k \in DOMAIN orders /\ orders[k].exId = e /\ orders[k] \in OrderRows
    BY <1>1, <1>2 DEF RowsOf
  <1>4. n0 \in Nat /\ n1 \in Nat
    BY <1>2, <1>3 DEF OrderRows
  <1>5. /\ orders' \in Seq(OrderRows)
        /\ DOMAIN orders' = DOMAIN orders
        /\ \A i \in DOMAIN orders :
             orders'[i] = IF orders[i].exId = e
                          THEN [exId |-> e, fin0 |-> n0, fin1 |-> n1]
                          ELSE orders[i]
    BY <1>1, <1>4, FinishFacts
  <1> HIDE DEF n0, n1
  <1>6. /\ \A i \in DOMAIN orders : orders'[i].exId = orders[i].exId
        /\ \A i \in DOMAIN orders : orders[i].exId \in ExIds
    <2>1. \A i \in DOMAIN orders : orders[i] \in OrderRows
      BY <1>1, ElementOfSeq
    <2>2. \A i \in DOMAIN orders : orders[i].exId \in ExIds
      BY <2>1 DEF OrderRows
    <2>3. ASSUME NEW i \in DOMAIN orders PROVE orders'[i].exId = orders[i].exId
      BY <1>5
    <2>4. QED
      BY <2>2, <2>3
  <1>7. TypeOK'
    <2>1. /\ DOMAIN reverts' \subseteq 1..(nextId' - 1)
          /\ \A i \in DOMAIN reverts' :
                reverts'[i].exId \in ExIds /\ reverts'[i].height = 0
          /\ nextId' \in Nat \ {0}
          /\ last' \in [ExIds -> Nat]
      BY JournalType
    <2>2. QED
      BY <1>5, <2>1 DEF TypeOK
  <1>8. \A f \in ExIds : last'[f] = IF f = e THEN height ELSE last[f]
    BY JournalType
  <1>9. Backed'
    <2>1. SUFFICES ASSUME NEW i \in DOMAIN orders, orders[i].exId \notin orphaned
                   PROVE  CoveredBy(bal, i)'
      BY <1>5, <1>6 DEF Backed
    <2>2. CoveredBy(bal, i)
      BY <2>1 DEF Backed
    <2>3. CASE orders[i].exId = e
      <3>1. i = k
        BY <1>3, <2>1, <2>3 DEF OneRow
      <3>2. orders'[i].fin0 = First(e).fin0 + out /\ orders[i].fin0 = First(e).fin0
        BY <1>2, <1>5, <2>3, <3>1 DEF n0
      <3> DEFINE a == Offer[e].amt0
                 f == First(e).fin0
                 b == bal[Offer[e].tick0][Reserve[e]]
                 c == bal'[Offer[e].tick0][Reserve[e]]
      <3>3. a \in Nat /\ f \in Nat
        BY <1>2, <1>3, AccountFacts DEF OrderRows, Offers
      <3>4. b \in Nat /\ c \in Nat
        BY AccountFacts DEF TypeOK, Books, Offers
      <3>5. a - f <= b /\ c >= b - out
        BY <2>2, <2>3, <3>2 DEF CoveredBy
      <3>6. a - (f + out) <= c
        <4> HIDE DEF a, b, c, f
        <4>1. QED
          BY <3>3, <3>4, <3>5
      <3>7. QED
        BY <1>6, <2>3, <3>2, <3>6 DEF CoveredBy
    <2>4. CASE orders[i].exId # e
      <3>1. orders'[i] = orders[i] /\ orders[i].exId \in ExIds \ {e}
        BY <1>5, <1>6, <2>4
      <3> DEFINE f == orders[i].exId
                 a == Offer[f].amt0 - orders[i].fin0
                 b == bal[Offer[f].tick0][Reserve[f]]
                 c == bal'[Offer[f].tick0][Reserve[f]]
      <3>2. b \in Nat /\ c \in Nat
        BY <3>1, AccountFacts DEF TypeOK, Books, Offers
      <3>3. orders[i] \in OrderRows
        BY <1>1, ElementOfSeq
      <3>4. a \in Int
        BY <3>1, <3>3, AccountFacts DEF OrderRows, Offers
      <3>5. a <= b /\ b <= c
        BY <2>2, <3>1, <3>2 DEF CoveredBy
      <3>6. a <= c
        <4> HIDE DEF a, b, c
        <4>1. QED
          BY <3>2, <3>4, <3>5
      <3>7. QED
        BY <3>1, <3>6 DEF CoveredBy
    <2>5. QED
      BY <2>3, <2>4
  <1>10. OneRow'
    BY <1>5, <1>6 DEF OneRow
  <1>11. RowsKnown'
    <2>1. \A i \in DOMAIN orders :
            orders[i].exId \notin orphaned =>
              /\ orders[i].exId \in DOMAIN info
              /\ info[orders[i].exId] <= last'[orders[i].exId]
      BY <1>6, <1>8 DEF RowsKnown, InfoBelow
    <2>2. QED
      BY <1>5, <1>6, <2>1 DEF RowsKnown
  <1>12. PastBacked'
    <2>1. SUFFICES ASSUME NEW g \in DOMAIN ended, NEW i \in DOMAIN orders,
                          orders[i].exId \notin orphaned,
                          last'[orders[i].exId] <= g
                   PROVE  CoveredBy(ended[g], i)'
      BY <1>5, <1>6 DEF PastBacked
    <2>2. orders[i].exId # e
      <3>1. g < height /\ height \in Nat /\ g \in Nat
        BY <2>1 DEF TypeOK
      <3>2. QED
        BY <1>6, <1>8, <2>1, <3>1
    <2>3. orders'[i] = orders[i] /\ last'[orders[i].exId] = last[orders[i].exId]
      BY <1>5, <1>6, <1>8, <2>2
    <2>4. QED
      BY <2>1, <2>3 DEF PastBacked, CoveredBy
  <1>13. InfoBelow'
    BY DEF InfoBelow
  <1>14. QED
    BY <1>7, <1>9, <1>10, <1>11, <1>12, <1>13

LEMMA TradeKeepsIInv ==
    ASSUME IInv, NEW e \in ExIds, NEW u \in Users, NEW amt \in Amounts,
           Trade(e, u, amt)
    PROVE  IInv'
  <1> DEFINE o    == Offer[e]
             r    == Reserve[e]
             out  == Out(o, First(e).fin0, amt)
             paid == Move(bal, o.tick1, u, o.holder, amt)
             row  == JournalRow("trade", e, out, amt)
  <1>1. /\ amt \in Nat /\ o \in Offers /\ o.amt1 >= 1
        /\ u \in Accounts /\ r \in Accounts /\ o.holder \in Accounts
        /\ bal \in Books
    BY AccountFacts, ExchangeAssumption DEF IInv, TypeOK, Offers
  <1>2. out \in Int
    <2>1. orders \in Seq(OrderRows)
      BY DEF IInv, TypeOK
    <2>2. First(e).fin0 \in Nat
      BY <2>1, FirstType DEF Trade, VerifyExchangeTrade
    <2>3. o.amt0 \in Nat /\ o.amt1 \in Nat \ {0}
      BY <1>1 DEF Offers
    <2>4. (amt * o.amt0) \in Nat
      BY <1>1, <2>3
    <2>5. ((amt * o.amt0) \div o.amt1) \in Int
      BY <2>3, <2>4
    <2>6. QED
      BY <2>2, <2>3, <2>5 DEF Out
  <1>3. /\ CanMove(bal, o.tick1, u, o.holder, amt)
        /\ CanMove(paid, o.tick0, r, u, out)
        /\ bal' = Move(paid, o.tick0, r, u, out)
        /\ orders' = Finish(e, First(e).fin0 + out, First(e).fin1 + amt)
        /\ Journal(row)
        /\ RowsOf(e) # {}
        /\ UNCHANGED <<ended, height, info, orphaned>>
    BY DEF Trade, VerifyExchangeTrade
  <1>4. paid \in Books
    BY <1>1, <1>3, MoveType DEF Offers
  <1>5. bal' \in Books /\ out >= 1
    BY <1>1, <1>2, <1>3, <1>4, MoveType DEF Offers, CanMove
  <1>6. ASSUME NEW f \in ExIds
        PROVE  bal'[Offer[f].tick0][Reserve[f]] =
                 IF f = e THEN bal[o.tick0][r] - out
                 ELSE bal[Offer[f].tick0][Reserve[f]]
    <2> DEFINE t == Offer[f].tick0
               a == Reserve[f]
    <2>1. t \in Ticks /\ a \in Accounts /\ a # u /\ a # o.holder
      BY <1>1, AccountFacts, ExchangeAssumption DEF Offers
    <2>2. paid[t][a] = bal[t][a]
      BY <1>1, <1>3, <2>1, MoveValue DEF Offers
    <2>3. bal'[t][a] = IF t = o.tick0 /\ a = r THEN paid[t][a] - out
                       ELSE paid[t][a]
      <3>1. o.tick0 \in Ticks
        BY <1>1 DEF Offers
      <3> HIDE DEF o, r, out, paid, t, a
      <3>2. QED
        BY <1>1, <1>2, <1>3, <1>4, <2>1, <3>1, MoveValue
    <2>4. a = r => f = e
      BY ExchangeAssumption
    <2>5. QED
      BY <2>2, <2>3, <2>4
  <1>7. bal'[o.tick0][r] >= bal[o.tick0][r] - out
    BY <1>1, <1>2, <1>6 DEF Books, Offers
  <1>8. \A f \in ExIds \ {e} :
          bal'[Offer[f].tick0][Reserve[f]] >= bal[Offer[f].tick0][Reserve[f]]
    <2>1. ASSUME NEW f \in ExIds \ {e}
          PROVE  bal[Offer[f].tick0][Reserve[f]] \in Nat
      BY <1>1, AccountFacts DEF Books, Offers
    <2>2. QED
      BY <1>6, <2>1
  <1>9. row.exId = e /\ row.height = 0
    BY DEF JournalRow
  <1>10. QED
    <2> HIDE DEF out, row, o, r, paid
    <2>1. bal'[Offer[e].tick0][Reserve[e]] >= bal[Offer[e].tick0][Reserve[e]] - out
      BY <1>7 DEF o, r
    <2>2. QED
      BY <1>1, <1>2, <1>3, <1>5, <1>8, <1>9, <2>1, FillKeepsIInv

LEMMA CancelKeepsIInv ==
    ASSUME IInv, NEW e \in ExIds, NEW u \in Users, NEW amt \in Amounts,
           Cancel(e, u, amt)
    PROVE  IInv'
  <1> DEFINE o   == Offer[e]
             r   == Reserve[e]
             row == JournalRow("cancel", e, amt, 0)
  <1>1. /\ amt \in Nat /\ o \in Offers
        /\ u \in Accounts /\ r \in Accounts
        /\ bal \in Books
    BY AccountFacts, ExchangeAssumption DEF IInv, TypeOK
  <1>2. /\ CanMove(bal, o.tick0, r, u, amt)
        /\ bal' = Move(bal, o.tick0, r, u, amt)
        /\ orders' = Finish(e, First(e).fin0 + amt, First(e).fin1)
        /\ Journal(row)
        /\ RowsOf(e) # {}
        /\ UNCHANGED <<ended, height, info, orphaned>>
    BY DEF Cancel, VerifyExchangeCancel
  <1>3. bal' \in Books /\ amt >= 1
    BY <1>1, <1>2, MoveType DEF Offers, CanMove
  <1>4. ASSUME NEW f \in ExIds
        PROVE  bal'[Offer[f].tick0][Reserve[f]] =
                 IF f = e THEN bal[o.tick0][r] - amt
                 ELSE bal[Offer[f].tick0][Reserve[f]]
    <2> DEFINE t == Offer[f].tick0
               a == Reserve[f]
    <2>1. t \in Ticks /\ a \in Accounts /\ a # u
      BY <1>1, AccountFacts, ExchangeAssumption DEF Offers
    <2>2. bal'[t][a] = IF t = o.tick0 /\ a = r THEN bal[t][a] - amt
                       ELSE bal[t][a]
      BY <1>1, <1>2, <2>1, MoveValue DEF Offers
    <2>3. a = r => f = e
      BY ExchangeAssumption
    <2>4. QED
      BY <2>2, <2>3
  <1>5. bal'[Offer[e].tick0][Reserve[e]] >= bal[Offer[e].tick0][Reserve[e]] - amt
    BY <1>1, <1>4 DEF Books, Offers
  <1>6. \A f \in ExIds \ {e} :
          bal'[Offer[f].tick0][Reserve[f]] >= bal[Offer[f].tick0][Reserve[f]]
    <2>1. ASSUME NEW f \in ExIds \ {e}
          PROVE  bal[Offer[f].tick0][Reserve[f]] \in Nat
      BY <1>1, AccountFacts DEF Books, Offers
    <2>2. QED
      BY <1>4, <2>1
  <1>7. row.exId = e /\ row.height = 0
    BY DEF JournalRow
  <1>8. First(e).fin1 + 0 = First(e).fin1
    <2>1. orders \in Seq(OrderRows)
      BY DEF IInv, TypeOK
    <2>2. First(e).fin1 \in Nat
      BY <1>2, <2>1, FirstType
    <2>3. QED
      BY <2>2
  <1>9. QED
    <2> HIDE DEF row, o, r
    <2>1. orders' = Finish(e, First(e).fin0 + amt, First(e).fin1 + 0)
      BY <1>2, <1>8
    <2>2. QED
      BY <1>1, <1>2, <1>3, <1>5, <1>6, <1>7, <2>1, FillKeepsIInv

-----------------------------------------------------------------------------
(* The other actions *)

LEMMA CreateKeepsIInv ==
    ASSUME IInv, NEW e \in ExIds, Create(e)
    PROVE  IInv'
  <1> USE DEF IInv
  <1> DEFINE o   == Offer[e]
             r   == Reserve[e]
             row == JournalRow("create", e, 0, 0)
             new == [exId |-> e, fin0 |-> 0, fin1 |-> 0]
  <1>1. /\ o \in Offers /\ o.holder \in Accounts /\ r \in Accounts
        /\ o.amt0 \in Nat /\ o.amt0 >= 1 /\ o.tick0 \in Ticks
        /\ bal \in Books /\ orders \in Seq(OrderRows) /\ height \in Nat
    BY AccountFacts, ExchangeAssumption DEF TypeOK, Offers
  <1>2. /\ e \notin DOMAIN info
        /\ info' = [f \in DOMAIN info \cup {e} |-> IF f = e THEN height ELSE info[f]]
        /\ CanMove(bal, o.tick0, o.holder, r, o.amt0)
        /\ bal' = Move(bal, o.tick0, o.holder, r, o.amt0)
        /\ orders' = Append(orders, new)
        /\ Journal(row)
        /\ UNCHANGED <<ended, height, gifts, orphaned>>
    BY DEF Create, Decoded
  <1>3. new \in OrderRows
    BY DEF OrderRows
  <1> DEFINE n == Len(orders)
  <1>4. /\ n \in Nat /\ DOMAIN orders = 1..n
        /\ orders' \in Seq(OrderRows) /\ DOMAIN orders' = 1..(n + 1)
        /\ \A i \in 1..n : orders'[i] = orders[i]
        /\ orders'[n + 1] = new
    BY <1>1, <1>2, <1>3
  <1>5. /\ \A i \in 1..n : orders[i] \in OrderRows
        /\ \A i \in 1..n : orders[i].exId \in ExIds
    <2>1. \A i \in 1..n : orders[i] \in OrderRows
      BY <1>1, <1>4, ElementOfSeq
    <2>2. QED
      BY <2>1 DEF OrderRows
  <1>6. row.exId = e /\ row.height = 0
    BY DEF JournalRow
  <1> HIDE DEF row, new, n
  <1>7. /\ DOMAIN reverts' \subseteq 1..(nextId' - 1)
        /\ \A i \in DOMAIN reverts' :
              reverts'[i].exId \in ExIds /\ reverts'[i].height = 0
        /\ nextId' \in Nat \ {0}
        /\ last' \in [ExIds -> Nat]
        /\ \A f \in ExIds : last'[f] = IF f = e THEN height ELSE last[f]
    BY <1>2, <1>6, JournalType
  <1>8. bal' \in Books
    BY <1>1, <1>2, MoveType
  <1>9. TypeOK'
    BY <1>1, <1>2, <1>4, <1>7, <1>8 DEF TypeOK
  <1>10. \A i \in 1..n : orders[i].exId = e => e \in orphaned
    BY <1>2, <1>4 DEF RowsKnown
  <1>11. ASSUME NEW f \in ExIds
         PROVE  bal'[Offer[f].tick0][Reserve[f]] =
                  IF f = e THEN bal[o.tick0][r] + o.amt0
                  ELSE bal[Offer[f].tick0][Reserve[f]]
    <2> DEFINE t == Offer[f].tick0
               a == Reserve[f]
    <2>1. t \in Ticks /\ a \in Accounts /\ a # o.holder
      BY <1>1, AccountFacts, ExchangeAssumption DEF Offers
    <2>2. bal'[t][a] = IF t = o.tick0 /\ a = r THEN bal[t][a] + o.amt0
                       ELSE bal[t][a]
      BY <1>1, <1>2, <2>1, MoveValue
    <2>3. a = r => f = e
      BY ExchangeAssumption
    <2>4. QED
      BY <2>2, <2>3
  <1>12. Backed'
    <2>1. SUFFICES ASSUME NEW i \in 1..(n + 1), orders'[i].exId \notin orphaned
                   PROVE  CoveredBy(bal, i)'
      BY <1>2, <1>4 DEF Backed
    <2>2. CASE i = n + 1
      <3>1. orders'[i].exId = e /\ orders'[i].fin0 = 0
        BY <1>4, <2>2 DEF new
      <3>2. bal[o.tick0][r] \in Nat
        BY <1>1 DEF Books
      <3>3. o.amt0 - 0 <= bal[o.tick0][r] + o.amt0
        BY <1>1, <3>2
      <3>4. bal'[o.tick0][r] = bal[o.tick0][r] + o.amt0
        BY <1>11
      <3>5. QED
        BY <3>1, <3>3, <3>4 DEF CoveredBy
    <2>3. CASE i \in 1..n
      <3>1. orders'[i] = orders[i] /\ orders[i].exId \in ExIds
        BY <1>4, <1>5, <2>3
      <3>2. orders[i].exId # e
        BY <1>10, <2>1, <2>3, <3>1
      <3>3. CoveredBy(bal, i)
        BY <1>4, <2>1, <2>3, <3>1 DEF Backed
      <3>4. QED
        BY <1>11, <3>1, <3>2, <3>3 DEF CoveredBy
    <2>4. QED
      BY <1>4, <2>2, <2>3
  <1>13. OneRow'
    <2>1. ASSUME NEW i \in 1..(n + 1), NEW j \in 1..(n + 1),
                 orders'[i].exId = orders'[j].exId, orders'[i].exId \notin orphaned
          PROVE  i = j
      <3>1. CASE i \in 1..n /\ j \in 1..n
        BY <1>4, <2>1, <3>1 DEF OneRow
      <3>2. CASE i = n + 1 /\ j \in 1..n
        BY <1>4, <1>10, <2>1, <3>2 DEF new
      <3>3. CASE i \in 1..n /\ j = n + 1
        BY <1>4, <1>10, <2>1, <3>3 DEF new
      <3>4. QED
        BY <1>4, <3>1, <3>2, <3>3
    <2>2. QED
      BY <1>2, <1>4, <2>1 DEF OneRow
  <1>14. RowsKnown'
    <2>1. SUFFICES ASSUME NEW i \in 1..(n + 1), orders'[i].exId \notin orphaned
                   PROVE  /\ orders'[i].exId \in DOMAIN info'
                          /\ info'[orders'[i].exId] <= last'[orders'[i].exId]
      BY <1>2, <1>4 DEF RowsKnown
    <2>2. CASE i = n + 1
      BY <1>1, <1>2, <1>4, <1>7, <2>2 DEF new
    <2>3. CASE i \in 1..n
      <3>1. orders'[i].exId = orders[i].exId /\ orders[i].exId \in ExIds \ {e}
        BY <1>4, <1>5, <1>10, <2>1, <2>3
      <3>2. orders[i].exId \in DOMAIN info /\ info[orders[i].exId] <= last[orders[i].exId]
        BY <1>4, <2>1, <2>3, <3>1 DEF RowsKnown
      <3>3. QED
        BY <1>2, <1>7, <3>1, <3>2
    <2>4. QED
      BY <1>4, <2>2, <2>3
  <1>15. PastBacked'
    <2>1. SUFFICES ASSUME NEW g \in DOMAIN ended, NEW i \in 1..(n + 1),
                          orders'[i].exId \notin orphaned,
                          last'[orders'[i].exId] <= g
                   PROVE  CoveredBy(ended[g], i)'
      BY <1>2, <1>4 DEF PastBacked
    <2>2. g \in Nat /\ g < height
      BY <1>1, <2>1 DEF TypeOK
    <2>3. orders'[i].exId # e
      <3>1. e \in ExIds => last'[e] = height
        BY <1>7
      <3>2. QED
        BY <1>1, <2>1, <2>2, <3>1
    <2>4. i \in 1..n
      BY <1>4, <2>1, <2>3 DEF new
    <2>5. orders'[i] = orders[i] /\ orders[i].exId \in ExIds \ {e}
      BY <1>4, <1>5, <2>3, <2>4
    <2>6. CoveredBy(ended[g], i)
      BY <1>4, <1>7, <2>1, <2>4, <2>5 DEF PastBacked
    <2>7. QED
      BY <1>2, <2>5, <2>6 DEF CoveredBy
  <1>16. InfoBelow'
    BY <1>1, <1>2 DEF InfoBelow
  <1>17. QED
    BY <1>9, <1>12, <1>13, <1>14, <1>15, <1>16

LEMMA CreateRefusedKeepsIInv ==
    ASSUME IInv, NEW e \in ExIds, CreateRefused(e)
    PROVE  IInv'
  <1> USE DEF IInv
  <1>1. /\ e \notin DOMAIN info
        /\ info' = [f \in DOMAIN info \cup {e} |-> IF f = e THEN height ELSE info[f]]
        /\ UNCHANGED <<bal, ended, height, orders, reverts, nextId, last, orphaned>>
    BY DEF CreateRefused, Decoded
  <1>2. TypeOK'
    BY <1>1 DEF TypeOK
  <1>3. Backed' /\ OneRow' /\ PastBacked'
    BY <1>1 DEF Backed, OneRow, PastBacked, CoveredBy
  <1>4. RowsKnown'
    BY <1>1 DEF RowsKnown
  <1>5. InfoBelow'
    BY <1>1 DEF InfoBelow, TypeOK
  <1>6. QED
    BY <1>2, <1>3, <1>4, <1>5

LEMMA TransferKeepsIInv ==
    ASSUME IInv, NEW t \in Ticks, NEW u \in Users, NEW e \in ExIds,
           NEW amt \in Amounts, Transfer(t, u, e, amt)
    PROVE  IInv'
  <1> USE DEF IInv
  <1>1. /\ amt \in Nat /\ u \in Accounts /\ Reserve[e] \in Accounts
        /\ bal \in Books /\ orders \in Seq(OrderRows)
    BY AccountFacts, ExchangeAssumption DEF TypeOK
  <1>2. /\ CanMove(bal, t, u, Reserve[e], amt)
        /\ bal' = Move(bal, t, u, Reserve[e], amt)
        /\ UNCHANGED <<ended, height, orders, info, reverts, nextId, last, orphaned>>
    BY DEF Transfer
  <1>3. bal' \in Books
    BY <1>1, <1>2, MoveType
  <1>4. TypeOK'
    BY <1>2, <1>3 DEF TypeOK
  <1>5. ASSUME NEW f \in ExIds
        PROVE  bal'[Offer[f].tick0][Reserve[f]] >= bal[Offer[f].tick0][Reserve[f]]
    <2>1. /\ Offer[f].tick0 \in Ticks /\ Reserve[f] \in Accounts /\ Reserve[f] # u
      BY AccountFacts, ExchangeAssumption DEF Offers
    <2>2. bal[Offer[f].tick0][Reserve[f]] \in Nat
      BY <1>1, <2>1 DEF Books
    <2>3. QED
      BY <1>1, <1>2, <2>1, <2>2, MoveValue
  <1>6. Backed'
    <2>1. SUFFICES ASSUME NEW i \in DOMAIN orders, orders[i].exId \notin orphaned
                   PROVE  CoveredBy(bal, i)'
      BY <1>2 DEF Backed
    <2> DEFINE f == orders[i].exId
               a == Offer[f].amt0 - orders[i].fin0
               b == bal[Offer[f].tick0][Reserve[f]]
               c == bal'[Offer[f].tick0][Reserve[f]]
    <2>2. orders[i] \in OrderRows
      BY <1>1, ElementOfSeq
    <2>3. f \in ExIds /\ a \in Int
      BY <2>2, AccountFacts DEF OrderRows, Offers
    <2>4. b \in Nat /\ c \in Nat
      BY <1>1, <1>3, <2>3, AccountFacts DEF Books, Offers
    <2>5. a <= b /\ b <= c
      BY <1>5, <2>1, <2>3 DEF Backed, CoveredBy
    <2>6. a <= c
      <3> HIDE DEF a, b, c
      <3>1. QED
        BY <2>3, <2>4, <2>5
    <2>7. QED
      BY <1>2, <2>6 DEF CoveredBy
  <1>7. OneRow' /\ RowsKnown' /\ PastBacked' /\ InfoBelow'
    BY <1>2 DEF OneRow, RowsKnown, PastBacked, CoveredBy, InfoBelow
  <1>8. QED
    BY <1>4, <1>6, <1>7

LEMMA NextBlockKeepsIInv ==
    ASSUME IInv, NextBlock
    PROVE  IInv'
  <1> USE DEF IInv
  <1>1. /\ ended' = [h \in 0..height |-> IF h = height THEN bal ELSE ended[h]]
        /\ height' = height + 1
        /\ UNCHANGED <<bal, orders, info, reverts, nextId, last, orphaned>>
        /\ height \in Nat /\ bal \in Books /\ DOMAIN ended = 0..(height - 1)
    BY DEF NextBlock, Ledger!EndBlock, TypeOK
  <1>2. TypeOK'
    BY <1>1 DEF TypeOK
  <1>3. Backed' /\ OneRow' /\ RowsKnown'
    BY <1>1 DEF Backed, OneRow, RowsKnown, CoveredBy
  <1>4. PastBacked'
    <2>1. SUFFICES ASSUME NEW g \in 0..height, NEW i \in DOMAIN orders,
                          orders[i].exId \notin orphaned, last[orders[i].exId] <= g
                   PROVE  CoveredBy(ended'[g], i)
      BY <1>1 DEF PastBacked, CoveredBy
    <2>2. CASE g = height
      BY <1>1, <2>1, <2>2 DEF Backed
    <2>3. CASE g \in 0..(height - 1)
      BY <1>1, <2>1, <2>3 DEF PastBacked
    <2>4. QED
      BY <1>1, <2>2, <2>3
  <1>5. InfoBelow'
    BY <1>1 DEF InfoBelow, TypeOK
  <1>6. QED
    BY <1>2, <1>3, <1>4, <1>5

\* exchange_revert rows have block number 0: no fork selects any.
LEMMA NothingUndone ==
    ASSUME TypeOK, NEW h \in Nat
    PROVE  Above(h) = {} /\ Undone(h) = orders /\ DelRevert(h) = [i \in DOMAIN reverts |-> reverts[i]]
  <1>1. Above(h) = {}
    BY DEF Above, TypeOK
  <1>2. QED
    BY <1>1 DEF Undone, DelRevert

LEMMA ForkKeepsIInv ==
    ASSUME IInv, NEW h \in DOMAIN ended, Fork(h)
    PROVE  IInv'
  <1> USE DEF IInv
  <1>1. h \in Nat /\ h < height /\ height \in Nat /\ DOMAIN ended = 0..(height - 1)
    BY DEF TypeOK
  <1>2. /\ bal' = ended[h]
        /\ ended' = [g \in 0..(h - 1) |-> ended[g]]
        /\ height' = h
        /\ info' = [e \in {f \in DOMAIN info : info[f] <= h} |-> info[e]]
        /\ orders' = orders
        /\ reverts' = [i \in DOMAIN reverts |-> reverts[i]]
        /\ orphaned' = orphaned \cup {e \in ExIds : last[e] > h}
        /\ UNCHANGED <<nextId, last>>
    BY <1>1, NothingUndone DEF Fork, Ledger!Rollback
  <1>3. TypeOK'
    BY <1>1, <1>2 DEF TypeOK
  <1>4. \A i \in DOMAIN orders :
          /\ orders[i].exId \in ExIds
          /\ orders[i].exId \notin orphaned' =>
                orders[i].exId \notin orphaned /\ last[orders[i].exId] <= h
    <2>1. \A i \in DOMAIN orders : orders[i] \in OrderRows
      BY ElementOfSeq DEF TypeOK
    <2>2. \A i \in DOMAIN orders : orders[i].exId \in ExIds
      BY <2>1 DEF OrderRows
    <2>3. \A e \in ExIds : last[e] \in Nat
      BY DEF TypeOK
    <2>4. QED
      BY <1>1, <1>2, <2>2, <2>3
  <1>5. Backed'
    BY <1>2, <1>4 DEF Backed, PastBacked, CoveredBy
  <1>6. OneRow'
    BY <1>2, <1>4 DEF OneRow
  <1>7. RowsKnown'
    <2>1. SUFFICES ASSUME NEW i \in DOMAIN orders, orders[i].exId \notin orphaned'
                   PROVE  /\ orders[i].exId \in DOMAIN info'
                          /\ info'[orders[i].exId] <= last[orders[i].exId]
      BY <1>2 DEF RowsKnown
    <2> DEFINE e == orders[i].exId
    <2>2. e \in DOMAIN info /\ info[e] <= last[e] /\ last[e] <= h
      BY <1>4, <2>1 DEF RowsKnown
    <2>3. info[e] \in Nat /\ last[e] \in Nat
      BY <1>4, <2>2 DEF TypeOK
    <2>4. info[e] <= h
      <3> HIDE DEF e
      <3>1. QED
        BY <1>1, <2>2, <2>3
    <2>5. QED
      BY <1>2, <2>2, <2>4
  <1>8. PastBacked'
    BY <1>1, <1>2, <1>4 DEF PastBacked, CoveredBy
  <1>9. InfoBelow'
    BY <1>2 DEF InfoBelow
  <1>10. QED
    BY <1>3, <1>5, <1>6, <1>7, <1>8, <1>9

-----------------------------------------------------------------------------
(* The invariants *)

LEMMA InitIInv ==
    ASSUME Init
    PROVE  IInv
  <1>1. bal = Funds /\ ended = [h \in {} |-> Funds] /\ height = 0
    BY DEF Init, Ledger!AbsInit
  <1>2. TypeOK
    BY <1>1, ExchangeAssumption DEF Init, TypeOK
  <1>3. Backed /\ OneRow /\ RowsKnown /\ PastBacked /\ InfoBelow
    BY <1>1 DEF Init, Backed, OneRow, RowsKnown, PastBacked, InfoBelow
  <1>4. QED
    BY <1>2, <1>3 DEF IInv

LEMMA NextKeepsIInv ==
    ASSUME IInv, [Next]_vars
    PROVE  IInv'
  <1>1. CASE \E e \in ExIds : Create(e) \/ CreateRefused(e)
    BY <1>1, CreateKeepsIInv, CreateRefusedKeepsIInv
  <1>2. CASE \E e \in ExIds, u \in Users, amt \in Amounts :
               Trade(e, u, amt) \/ Cancel(e, u, amt)
    BY <1>2, TradeKeepsIInv, CancelKeepsIInv
  <1>3. CASE \E t \in Ticks, u \in Users, e \in ExIds, amt \in Amounts :
               Transfer(t, u, e, amt)
    BY <1>3, TransferKeepsIInv
  <1>4. CASE NextBlock
    BY <1>4, NextBlockKeepsIInv
  <1>5. CASE \E h \in DOMAIN ended : Fork(h)
    BY <1>5, ForkKeepsIInv
  <1>6. CASE UNCHANGED vars
    BY <1>6 DEF vars, IInv, TypeOK, Backed, OneRow, RowsKnown, PastBacked,
                InfoBelow, CoveredBy
  <1>7. QED
    BY <1>1, <1>2, <1>3, <1>4, <1>5, <1>6 DEF Next

\* The tables and the ledger keep their types, and everything below is proved
\* from this one inductive invariant.
THEOREM ExchangeInvariant == Spec => []IInv
  <1>1. Init => IInv
    BY InitIInv
  <1>2. IInv /\ [Next]_vars => IInv'
    BY NextKeepsIInv
  <1>3. QED
    BY <1>1, <1>2, PTL DEF Spec

\* exchange_collect holds naturals and no balance is ever negative.
THEOREM ExchangeTypeCorrect == Spec => []TypeOK
  BY ExchangeInvariant, PTL DEF IInv

\* An order that no fork has touched can pay out all it still offers.
THEOREM OrdersAreBacked == Spec => []Backed
  BY ExchangeInvariant, PTL DEF IInv

\* An order that no fork has touched is in exchange_collect once.
THEOREM OrdersAreUnique == Spec => []OneRow
  BY ExchangeInvariant, PTL DEF IInv

-----------------------------------------------------------------------------
(* The price *)

LEMMA DivisionRoundsDown ==
    ASSUME NEW n \in Nat, NEW d \in Nat \ {0}
    PROVE  (n \div d) \in Nat /\ (n \div d) * d <= n
  OBVIOUS

LEMMA OutAtPrice ==
    ASSUME NEW a0 \in Nat, NEW a1 \in Nat \ {0}, NEW amt \in Nat,
           NEW out \in Int, out >= 1, out <= (amt * a0) \div a1
    PROVE  out * a1 <= amt * a0
  <1> DEFINE n == amt * a0
             q == n \div a1
  <1>1. n \in Nat
    OBVIOUS
  <1>2. q \in Nat /\ q * a1 <= n
    BY <1>1, DivisionRoundsDown
  <1>3. out * a1 <= q * a1
    OBVIOUS
  <1>4. QED
    BY <1>1, <1>2, <1>3

\* What the action property says of one row.
AtPrice(i) ==
    LET o     == Offer[orders[i].exId]
        sold  == orders'[i].fin0 - orders[i].fin0
        price == orders'[i].fin1 - orders[i].fin1
    IN  IsFirst(i) /\ price # 0 =>
            /\ sold >= 1 /\ price >= 1
            /\ sold * o.amt1 <= price * o.amt0
            /\ orders'[i].fin0 <= o.amt0

LEMMA OutFacts ==
    ASSUME TypeOK, NEW e \in ExIds, NEW u \in Users, NEW amt \in Amounts,
           Trade(e, u, amt)
    PROVE  LET o   == Offer[e]
               out == Out(o, First(e).fin0, amt)
           IN  /\ out \in Int /\ out >= 1
               /\ out * o.amt1 <= amt * o.amt0
               /\ First(e).fin0 + out <= o.amt0
  <1> DEFINE o   == Offer[e]
             f   == First(e).fin0
             due == (amt * o.amt0) \div o.amt1
             out == Out(o, f, amt)
  <1>1. o.amt0 \in Nat /\ o.amt1 \in Nat \ {0} /\ amt \in Nat
    BY AccountFacts, ExchangeAssumption DEF Offers
  <1>2. f \in Nat
    BY FirstType DEF Trade, VerifyExchangeTrade, TypeOK
  <1>3. out >= 1
    BY DEF Trade, VerifyExchangeTrade, CanMove
  <1>4. amt * o.amt0 \in Nat
    BY <1>1
  <1>5. due \in Nat
    BY <1>1, <1>4, DivisionRoundsDown
  <1>6. out = IF o.amt0 - f < due THEN o.amt0 - f ELSE due
    BY DEF Out
  <1>7. out \in Int /\ out <= due /\ f + out <= o.amt0
    <2> HIDE DEF o, f, due, out
    <2>1. QED
      BY <1>1, <1>2, <1>5, <1>6
  <1>8. out * o.amt1 <= amt * o.amt0
    BY <1>1, <1>3, <1>7, OutAtPrice
  <1>9. QED
    BY <1>3, <1>7, <1>8

LEMMA TradeAtPrice ==
    ASSUME TypeOK, NEW e \in ExIds, NEW u \in Users, NEW amt \in Amounts,
           Trade(e, u, amt), NEW i \in DOMAIN orders
    PROVE  AtPrice(i)
  <1> DEFINE out == Out(Offer[e], First(e).fin0, amt)
  <1>1. orders \in Seq(OrderRows) /\ amt \in Nat /\ amt >= 1 /\ RowsOf(e) # {}
    BY ExchangeAssumption DEF TypeOK, Trade, VerifyExchangeTrade
  <1>2. /\ out \in Int /\ out >= 1
        /\ out * Offer[e].amt1 <= amt * Offer[e].amt0
        /\ First(e).fin0 + out <= Offer[e].amt0
    BY OutFacts
  <1>3. First(e).fin0 \in Nat /\ First(e).fin1 \in Nat
    BY <1>1, FirstType
  <1> DEFINE n0 == First(e).fin0 + out
             n1 == First(e).fin1 + amt
  <1>4. orders' = Finish(e, n0, n1)
    BY DEF Trade, VerifyExchangeTrade
  <1>5. orders'[i] = IF orders[i].exId = e
                     THEN [exId |-> e, fin0 |-> n0, fin1 |-> n1]
                     ELSE orders[i]
    <2>1. n0 \in Nat /\ n1 \in Nat
      BY <1>1, <1>2, <1>3
    <2> HIDE DEF n0, n1
    <2>2. QED
      BY <1>1, <1>4, <2>1, FinishFacts
  <1>6. CASE orders[i].exId # e
    <2>1. orders[i] \in OrderRows
      BY <1>1, ElementOfSeq
    <2>2. orders'[i].fin1 - orders[i].fin1 = 0
      BY <1>5, <1>6, <2>1 DEF OrderRows
    <2>3. QED
      BY <2>2 DEF AtPrice
  <1>7. CASE orders[i].exId = e /\ IsFirst(i)
    <2>1. PICK k \in RowsOf(e) : IsFirst(k) /\ First(e) = orders[k]
      BY <1>1, FirstExists
    <2>2. i = k
      BY <1>1, <1>7, <2>1 DEF IsFirst, RowsOf
    <2>3. orders'[i].fin0 - orders[i].fin0 = out
      BY <1>2, <1>3, <1>5, <1>7, <2>1, <2>2
    <2>4. orders'[i].fin1 - orders[i].fin1 = amt
      BY <1>1, <1>3, <1>5, <1>7, <2>1, <2>2
    <2>5. orders'[i].fin0 <= Offer[e].amt0
      BY <1>2, <1>5, <1>7
    <2>6. QED
      BY <1>1, <1>2, <1>7, <2>3, <2>4, <2>5 DEF AtPrice
  <1>8. QED
    BY <1>6, <1>7 DEF AtPrice

\* Only a trade changes what the row of an order says was paid.
LEMMA OthersAtPrice ==
    ASSUME TypeOK, NEW i \in DOMAIN orders, orders'[i].fin1 = orders[i].fin1
    PROVE  AtPrice(i)
  <1>1. orders[i] \in OrderRows
    BY ElementOfSeq DEF TypeOK
  <1>2. orders'[i].fin1 - orders[i].fin1 = 0
    BY <1>1 DEF OrderRows
  <1>3. QED
    BY <1>2 DEF AtPrice

LEMMA CancelAtPrice ==
    ASSUME TypeOK, NEW e \in ExIds, NEW u \in Users, NEW amt \in Amounts,
           Cancel(e, u, amt), NEW i \in DOMAIN orders
    PROVE  AtPrice(i)
  <1>1. orders \in Seq(OrderRows) /\ amt \in Nat /\ RowsOf(e) # {}
    BY ExchangeAssumption DEF TypeOK, Cancel, VerifyExchangeCancel
  <1>2. First(e).fin0 + amt \in Nat /\ First(e).fin1 \in Nat
    BY <1>1, FirstType
  <1>3. orders' = Finish(e, First(e).fin0 + amt, First(e).fin1)
    BY DEF Cancel, VerifyExchangeCancel
  <1>4. orders'[i] = IF orders[i].exId = e
                     THEN [exId |-> e, fin0 |-> First(e).fin0 + amt,
                           fin1 |-> First(e).fin1]
                     ELSE orders[i]
    BY <1>1, <1>2, <1>3, FinishFacts
  <1>5. CASE orders[i].exId # e
    BY <1>4, <1>5, OthersAtPrice
  <1>6. CASE orders[i].exId = e /\ IsFirst(i)
    <2>1. PICK k \in RowsOf(e) : IsFirst(k) /\ First(e) = orders[k]
      BY <1>1, FirstExists
    <2>2. i = k
      BY <1>1, <1>6, <2>1 DEF IsFirst, RowsOf
    <2>3. QED
      BY <1>4, <1>6, <2>1, <2>2, OthersAtPrice
  <1>7. QED
    BY <1>5, <1>6 DEF AtPrice

LEMMA StepAtPrice ==
    ASSUME TypeOK, [Next]_vars, NEW i \in DOMAIN orders
    PROVE  AtPrice(i)
  <1>1. CASE \E e \in ExIds : Create(e)
    <2>1. PICK row \in OrderRows : orders' = Append(orders, row)
      BY <1>1 DEF Create, OrderRows
    <2>2. orders'[i] = orders[i]
      BY <2>1 DEF TypeOK
    <2>3. QED
      BY <2>2, OthersAtPrice
  <1>2. CASE \E e \in ExIds, u \in Users, amt \in Amounts : Trade(e, u, amt)
    BY <1>2, TradeAtPrice
  <1>3. CASE \E e \in ExIds, u \in Users, amt \in Amounts : Cancel(e, u, amt)
    BY <1>3, CancelAtPrice
  <1>4. CASE \E h \in DOMAIN ended : Fork(h)
    <2>1. PICK h \in DOMAIN ended : Fork(h)
      BY <1>4
    <2>2. h \in Nat
      BY DEF TypeOK
    <2>3. orders' = orders
      BY <2>1, <2>2, NothingUndone DEF Fork
    <2>4. QED
      BY <2>3, OthersAtPrice
  <1>5. CASE UNCHANGED orders
    BY <1>5, OthersAtPrice
  <1>6. QED
    BY <1>1, <1>2, <1>3, <1>4, <1>5
       DEF Next, CreateRefused, Transfer, NextBlock, vars

\* A trade pays the maker the price asked for, and sells no more than offered.
THEOREM TradesFillAtPrice == Spec => FillsAtPrice
  <1>1. TypeOK /\ [Next]_vars => \A i \in DOMAIN orders : AtPrice(i)
    BY StepAtPrice
  <1>2. TypeOK /\ [Next]_vars =>
          [\A i \in DOMAIN orders :
             LET o     == Offer[orders[i].exId]
                 sold  == orders'[i].fin0 - orders[i].fin0
                 price == orders'[i].fin1 - orders[i].fin1
             IN  IsFirst(i) /\ price # 0 =>
                     /\ sold >= 1 /\ price >= 1
                     /\ sold * o.amt1 <= price * o.amt0
                     /\ orders'[i].fin0 <= o.amt0]_vars
    BY <1>1 DEF AtPrice
  <1>3. QED
    BY <1>2, ExchangeTypeCorrect, PTL DEF Spec, FillsAtPrice
=============================================================================
