------------------------------ MODULE Exchange ------------------------------
(***************************************************************************)
(* Orders that sell one drc-20 token for another, protocol order-v1        *)
(* (explorer/exchange.go, storage/exchange.go). The tokens for sale are    *)
(* held in the ledger by an address of the order's own; exchange_collect   *)
(* counts how many of them have left it (amt0_finish) and what was paid    *)
(* (amt1_finish). Two journals must agree when the chain forks: the        *)
(* ledger's, which CheckpointLedger stands for, and exchange_revert, whose *)
(* rows carry no block number.                                             *)
(***************************************************************************)
EXTENDS Balances, Sequences, FiniteSets, SequencesExt

CONSTANTS
    Ticks,      \* the deployed drc-20 tokens
    Users,      \* addresses that send inscriptions
    ExIds,      \* create transactions; the hash is the ex_id of the order
    Offer,      \* ex_id -> what the create inscription says: see Offers
    Reserve,    \* ex_id -> reserves_address, the script hash of the ex_id
    Funds,      \* the ledger to begin with
    Amounts,    \* amounts an inscription may carry
    MaxHeight,  \* bound: blocks
    MaxOps,     \* bound: rows of exchange_revert
    MaxGifts    \* bound: transfers to the address of an order

Accounts == Users \cup {Reserve[e] : e \in ExIds}
Books == [Ticks -> [Accounts -> Nat]]
Offers == [tick0 : Ticks, tick1 : Ticks, amt0 : Nat, amt1 : Nat, holder : Users]

\* VerifyExchangeCreate: both tokens exist, both amounts are positive.
ASSUME ExchangeAssumption ==
    /\ Offer \in [ExIds -> Offers]
    /\ \A e \in ExIds : Offer[e].amt0 >= 1 /\ Offer[e].amt1 >= 1
    /\ \A e \in ExIds : Reserve[e] \notin Users
    /\ \A e, f \in ExIds : Reserve[e] = Reserve[f] => e = f
    /\ Funds \in Books
    /\ Amounts \subseteq Nat
    /\ MaxHeight \in Nat
    /\ MaxOps \in Nat
    /\ MaxGifts \in Nat

VARIABLES
    bal,        \* the ledger: tick -> address -> amount
    ended,      \* the ledger at the end of each finished block
    height,     \* Explorer.currentHeight
    orders,     \* exchange_collect, by primary key: ex_id, fin0, fin1
    info,       \* exchange_info of creates: ex_id -> block_number
    reverts,    \* exchange_revert: id -> row
    nextId,     \* the next id of exchange_revert
    gifts,      \* transfers so far
    last,       \* ghost: ex_id -> height of its latest operation
    orphaned    \* ghost: ex_ids of which a fork abandoned an operation

vars == <<bal, ended, height, orders, info, reverts, nextId, gifts, last, orphaned>>

Ledger == INSTANCE CheckpointLedger
          WITH Ledgers <- Books, EmptyLedger <- Funds,
               now <- bal, atEnd <- ended, height <- height

-----------------------------------------------------------------------------
(* exchange_collect *)

RowsOf(e) == {i \in DOMAIN orders : orders[i].exId = e}

\* Where("ex_id = ?").First: the row with the lowest primary key.
IsFirst(i) == \A j \in RowsOf(orders[i].exId) : i <= j

First(e) == orders[CHOOSE i \in RowsOf(e) : IsFirst(i)]

\* Where("ex_id = ?").Updates: every row of the order.
Finish(e, fin0, fin1) ==
    [i \in DOMAIN orders |->
        IF orders[i].exId = e THEN [exId |-> e, fin0 |-> fin0, fin1 |-> fin1]
        ELSE orders[i]]

\* exchange_revert, without the field BlockNumber: the column is 0.
JournalRow(op, e, amt0, amt1) ==
    [op |-> op, exId |-> e, amt0 |-> amt0, amt1 |-> amt1, height |-> 0]

Journal(row) ==
    /\ nextId <= MaxOps
    /\ reverts' = [i \in DOMAIN reverts \cup {nextId} |->
                     IF i = nextId THEN row ELSE reverts[i]]
    /\ nextId' = nextId + 1
    /\ last' = [last EXCEPT ![row.exId] = height]

-----------------------------------------------------------------------------

Init ==
    /\ Ledger!AbsInit
    /\ orders = <<>>
    /\ info = [e \in {} |-> 0]
    /\ reverts = [i \in {} |-> 0]
    /\ nextId = 1
    /\ gifts = 0
    /\ last = [e \in ExIds |-> 0]
    /\ orphaned = {}

\* exchangeDecode: a transaction with an info row is not decoded again.
Decoded(e) ==
    /\ e \notin DOMAIN info
    /\ info' = [f \in DOMAIN info \cup {e} |-> IF f = e THEN height ELSE info[f]]

\* The maker's tokens move to the order's address.
Create(e) ==
    /\ Decoded(e)
    /\ LET o == Offer[e] IN
         /\ CanMove(bal, o.tick0, o.holder, Reserve[e], o.amt0)
         /\ bal' = Move(bal, o.tick0, o.holder, Reserve[e], o.amt0)
    /\ orders' = Append(orders, [exId |-> e, fin0 |-> 0, fin1 |-> 0])
    /\ Journal(JournalRow("create", e, 0, 0))
    /\ UNCHANGED <<ended, height, gifts, orphaned>>

\* The database transaction fails; the info row has been saved before it.
CreateRefused(e) ==
    /\ Decoded(e)
    /\ LET o == Offer[e] IN
         ~CanMove(bal, o.tick0, o.holder, Reserve[e], o.amt0)
    /\ UNCHANGED <<bal, ended, height, orders, reverts, nextId, gifts, last, orphaned>>

VerifyExchangeTrade(e, taker, amt1) ==
    /\ amt1 >= 1
    /\ RowsOf(e) # {}
    /\ taker # Offer[e].holder

\* Who cancels, and what of, is not looked at.
VerifyExchangeCancel(e, amt0) == amt0 >= 1 /\ RowsOf(e) # {}

\* Mutant: the taker's tokens are rounded up.
OutRoundedUp(o, fin0, amt1) ==
    LET due == (amt1 * o.amt0 + o.amt1 - 1) \div o.amt1
    IN  IF o.amt0 - fin0 < due THEN o.amt0 - fin0 ELSE due

\* What a taker gets for amt1: at the order's price, rounded down, and no
\* more than what is left.
Out(o, fin0, amt1) ==
    LET due == (amt1 * o.amt0) \div o.amt1
    IN  IF o.amt0 - fin0 < due THEN o.amt0 - fin0 ELSE due

\* The taker pays the maker, in full even when less than that is left, and is
\* paid by the order's address.
Trade(e, taker, amt1) ==
    /\ VerifyExchangeTrade(e, taker, amt1)
    /\ LET o    == Offer[e]
           out  == Out(o, First(e).fin0, amt1)
           paid == Move(bal, o.tick1, taker, o.holder, amt1)
       IN  /\ CanMove(bal, o.tick1, taker, o.holder, amt1)
           /\ CanMove(paid, o.tick0, Reserve[e], taker, out)
           /\ bal' = Move(paid, o.tick0, Reserve[e], taker, out)
           /\ orders' = Finish(e, First(e).fin0 + out, First(e).fin1 + amt1)
           /\ Journal(JournalRow("trade", e, out, amt1))
    /\ UNCHANGED <<ended, height, info, gifts, orphaned>>

\* Mutant: amt0_finish is not updated.
CancelUnrecorded(e, sender, amt0) ==
    /\ VerifyExchangeCancel(e, amt0)
    /\ CanMove(bal, Offer[e].tick0, Reserve[e], sender, amt0)
    /\ bal' = Move(bal, Offer[e].tick0, Reserve[e], sender, amt0)
    /\ UNCHANGED orders
    /\ Journal(JournalRow("cancel", e, amt0, 0))
    /\ UNCHANGED <<ended, height, info, gifts, orphaned>>

\* Tokens leave the order's address for the sender of the cancel; the amount
\* is compared with the balance of that address only.
Cancel(e, sender, amt0) ==
    /\ VerifyExchangeCancel(e, amt0)
    /\ CanMove(bal, Offer[e].tick0, Reserve[e], sender, amt0)
    /\ bal' = Move(bal, Offer[e].tick0, Reserve[e], sender, amt0)
    /\ orders' = Finish(e, First(e).fin0 + amt0, First(e).fin1)
    /\ Journal(JournalRow("cancel", e, amt0, 0))
    /\ UNCHANGED <<ended, height, info, gifts, orphaned>>

\* A drc-20 transfer to the address of an order. (Transfers between users
\* change nothing an order depends on.)
Transfer(t, from, e, amt) ==
    /\ gifts < MaxGifts
    /\ gifts' = gifts + 1
    /\ CanMove(bal, t, from, Reserve[e], amt)
    /\ bal' = Move(bal, t, from, Reserve[e], amt)
    /\ UNCHANGED <<ended, height, orders, info, reverts, nextId, last, orphaned>>

NextBlock ==
    /\ height < MaxHeight
    /\ Ledger!EndBlock
    /\ UNCHANGED <<orders, info, reverts, nextId, gifts, last, orphaned>>

-----------------------------------------------------------------------------
(* Forks *)

\* One turn of exchangeFork's loop. (A cancel is undone by adding again.)
UndoRow(row, table) ==
    LET Of(o) == o.exId = row.exId
        Rest(o) == o.exId # row.exId
        Set(o) == IF ~Of(o) THEN o
                  ELSE IF row.op = "trade"
                  THEN [o EXCEPT !.fin0 = @ - row.amt0, !.fin1 = @ - row.amt1]
                  ELSE [o EXCEPT !.fin0 = @ + row.amt0]
    IN  IF row.op = "create" THEN SelectSeq(table, Rest)
        ELSE [i \in DOMAIN table |-> Set(table[i])]

Above(h) == {i \in DOMAIN reverts : reverts[i].height > h}

\* exchangeFork: the rows selected are undone, the newest first. As no row has
\* a block number, none is selected.
Undone(h) ==
    IF Above(h) = {} THEN orders
    ELSE FoldLeft(LAMBDA table, i : UndoRow(reverts[i], table), orders,
                  SetToSortSeq(Above(h), >))

DelRevert(h) == [i \in DOMAIN reverts \ Above(h) |-> reverts[i]]

\* fork: delInfo, drc20Fork, exchangeFork, delRevert, in one transaction.
Fork(h) ==
    /\ Ledger!Rollback(h)
    /\ info' = [e \in {f \in DOMAIN info : info[f] <= h} |-> info[e]]
    /\ orders' = Undone(h)
    /\ reverts' = DelRevert(h)
    /\ orphaned' = orphaned \cup {e \in ExIds : last[e] > h}
    /\ UNCHANGED <<nextId, gifts, last>>

-----------------------------------------------------------------------------

Next ==
    \/ \E e \in ExIds : Create(e) \/ CreateRefused(e)
    \/ \E e \in ExIds, u \in Users, amt \in Amounts :
          Trade(e, u, amt) \/ Cancel(e, u, amt)
    \/ \E t \in Ticks, u \in Users, e \in ExIds, amt \in Amounts :
          Transfer(t, u, e, amt)
    \/ NextBlock
    \/ \E h \in DOMAIN ended : Fork(h)

Spec == Init /\ [][Next]_vars

-----------------------------------------------------------------------------
(* Properties *)

OrderRows == [exId : ExIds, fin0 : Nat, fin1 : Nat]

TypeOK ==
    /\ bal \in Books
    /\ height \in Nat
    /\ DOMAIN ended = 0..(height - 1)
    /\ \A h \in DOMAIN ended : ended[h] \in Books
    /\ orders \in Seq(OrderRows)
    /\ DOMAIN info \subseteq ExIds
    /\ \A e \in DOMAIN info : info[e] \in Nat
    /\ DOMAIN reverts \subseteq 1..(nextId - 1)
    /\ \A i \in DOMAIN reverts : reverts[i].exId \in ExIds /\ reverts[i].height = 0
    /\ nextId \in Nat \ {0}
    /\ last \in [ExIds -> Nat]
    /\ orphaned \subseteq ExIds

\* What an order has left to sell is there to be paid out: the ledger holds at
\* least amt0 - amt0_finish at the order's address, whatever was created,
\* traded, cancelled, sent there or forked away. Only an order of which a
\* fork has abandoned an operation is excepted: exchange_revert rows have
\* no block number, so no fork undoes them (storage/exchange.go:31).
CoveredBy(book, i) ==
    LET e == orders[i].exId
    IN  Offer[e].amt0 - orders[i].fin0 <= book[Offer[e].tick0][Reserve[e]]

Backed ==
    \A i \in DOMAIN orders :
        orders[i].exId \notin orphaned => CoveredBy(bal, i)

\* The same order is in the table once, unless a fork has come between: a
\* create that is mined again after a fork finds its first row still there.
OneRow ==
    \A i, j \in DOMAIN orders :
        orders[i].exId = orders[j].exId /\ orders[i].exId \notin orphaned => i = j

\* The maker is paid at least the price asked for, in every trade, and never
\* for more tokens than were for sale, also when part of them has been
\* cancelled, rounding eats into an amount or a fork left the table behind.
FillsAtPrice ==
    [][\A i \in DOMAIN orders :
         LET o     == Offer[orders[i].exId]
             sold  == orders'[i].fin0 - orders[i].fin0
             price == orders'[i].fin1 - orders[i].fin1
         IN  IsFirst(i) /\ price # 0 =>
                 /\ sold >= 1 /\ price >= 1
                 /\ sold * o.amt1 <= price * o.amt0
                 /\ orders'[i].fin0 <= o.amt0]_vars
=============================================================================
