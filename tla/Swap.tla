-------------------------------- MODULE Swap --------------------------------
(***************************************************************************)
(* One liquidity pool of protocol pair-v1 with WDOGE on one side, and the  *)
(* router that turns DOGE into WDOGE on the way in and back on the way out *)
(* (executePairV1, storage/swap.go, explorer/swap.go, storage/wdoge.go).   *)
(* The row of swap_liquidity is a copy of three ledger entries: the        *)
(* balances of reserves_address and the amt_sum of the liquidity token. It *)
(* is refreshed by the pool's own operations and by every fork, and not by *)
(* transfers. A transaction carries a list of inscriptions; its deposit is *)
(* committed on its own, before the rest.                                  *)
(***************************************************************************)
EXTENDS Balances, Sequences

CONSTANTS
    Tick0, Tick1,    \* the pair, in the order of SortTokens
    WDOGE,           \* the one of them that is WDOGE(WRAPPED-DOGE)
    LP,              \* the liquidity token, tick0-SWAP-tick1
    Users,           \* addresses that send inscriptions
    Pool,            \* reserves_address, the script hash of tick0 tick1
    Txs,             \* sequences of inscriptions a transaction may carry
    Gifts,           \* amounts of transfers and of wdoge inscriptions
    Funds,           \* the ledger to begin with
    MINI_LIQUIDITY,  \* 1000
    FeeUnit,         \* 1000
    FeeParts,        \* 3 of FeeUnit stay in the pool
    MinWithdraw,     \* 100000000, one DOGE
    NoPool,
    MaxHeight,       \* bound: blocks
    MaxTxs           \* bound: inscribing transactions

Pair == {Tick0, Tick1}
Ticks == Pair \cup {LP}
Accounts == Users \cup {Pool}
Books == [bal : [Ticks -> [Accounts -> Nat]], sum : [Ticks -> Nat]]
Rows == [amt : [Pair -> Nat], total : Nat]
Works == [book : Books, pool : Rows \cup {NoPool}, out : Nat]

Inscriptions ==
    [op : {"create"}, amt : [Pair -> Nat], doge : BOOLEAN]
    \cup [op : {"add"}, amt : [Pair -> Nat], min : [Pair -> Nat], doge : BOOLEAN]
    \cup [op : {"remove"}, liquidity : Nat, doge : BOOLEAN]
    \cup [op : {"swap"}, tick : Pair, amt : Nat, min : Nat, doge : BOOLEAN]

ASSUME SwapAssumption ==
    /\ Tick0 # Tick1 /\ WDOGE \in Pair /\ LP \notin Pair
    /\ Pool \notin Users
    /\ NoPool \notin Rows
    /\ Txs \subseteq Seq(Inscriptions)
    /\ Gifts \subseteq Nat
    /\ Funds \in Books /\ Funds.sum[LP] = 0 /\ \A a \in Accounts : Funds.bal[LP][a] = 0
    /\ MINI_LIQUIDITY \in Nat \ {0}
    /\ FeeUnit \in Nat \ {0} /\ FeeParts \in 0..(FeeUnit - 1)
    /\ MinWithdraw \in Nat
    /\ MaxHeight \in Nat /\ MaxTxs \in Nat

VARIABLES
    book,       \* the ledger: balances, and amt_sum of each token
    ended,      \* the ledger at the end of each finished block
    height,     \* Explorer.currentHeight
    pool,       \* swap_liquidity: amt of each tick, total; or NoPool
    creates,    \* swap_revert: block numbers of creates
    poolAt,     \* ghost: the row at the end of each finished block
    phase,      \* where executePairV1 is: "idle", "deposit" or "swap"
    sender, tx, \* its transaction
    i,          \* its loop variable
    due,        \* dogeDepositAmt
    work,       \* dbtx: the ledger, the row and dogeWithdrawAmt in it
    had,        \* ghost: the sender's WDOGE before
    txs         \* transactions so far

chain == <<ended, height, poolAt>>
router == <<phase, sender, tx, i, due, work, had>>
vars == <<book, pool, creates, txs, chain, router>>

Ledger == INSTANCE CheckpointLedger
          WITH Ledgers <- Books, EmptyLedger <- Funds,
               now <- book, atEnd <- ended, height <- height

-----------------------------------------------------------------------------
(* The ledger *)

MoveIn(b, t, from, to, amt) == [b EXCEPT !.bal = Move(b.bal, t, from, to, amt)]

MintIn(b, t, a, amt) == [bal |-> Mint(b.bal, t, a, amt), sum |-> [b.sum EXCEPT ![t] = @ + amt]]

\* BurnDrc20 looks at the total as well as at the balance.
CanBurnIn(b, t, a, amt) == amt <= b.sum[t] /\ CanBurn(b.bal, t, a, amt)

BurnIn(b, t, a, amt) == [bal |-> Burn(b.bal, t, a, amt), sum |-> [b.sum EXCEPT ![t] = @ - amt]]

\* UpdateLiquidity, UpdateLiquidityFork.
Refresh(b) == [amt |-> [t \in Pair |-> b.bal[t][Pool]], total |-> b.sum[LP]]

-----------------------------------------------------------------------------
(* One inscription of user u, in the state s of the database transaction:  *)
(* the ledger, the row, and the WDOGE to be withdrawn at the end.          *)

Isqrt(n) == CHOOSE r \in 0..n : r * r <= n /\ (r + 1) * (r + 1) > n

\* Liquidity the creator of a pool gets, and the pool keeps as well.
FirstLiquidity(o) == Isqrt(o.amt[Tick0] * o.amt[Tick1]) - MINI_LIQUIDITY

\* verifySwapCreate, SwapCreate.
CanCreate(s, u, o) ==
    /\ s.pool = NoPool
    /\ FirstLiquidity(o) > 0
    /\ \A t \in Pair : CanMove(s.book.bal, t, u, Pool, o.amt[t])

\* Mutant: the creator gets all the liquidity, nothing is locked.
CreateUnlocked(s, u, o) ==
    LET paid == MoveIn(MoveIn(s.book, Tick0, u, Pool, o.amt[Tick0]),
                       Tick1, u, Pool, o.amt[Tick1])
        b    == MintIn(paid, LP, u, FirstLiquidity(o))
    IN  [s EXCEPT !.book = b, !.pool = Refresh(b)]

SwapCreate(s, u, o) ==
    LET paid   == MoveIn(MoveIn(s.book, Tick0, u, Pool, o.amt[Tick0]),
                         Tick1, u, Pool, o.amt[Tick1])
        minted == MintIn(paid, LP, u, FirstLiquidity(o))
        b      == MintIn(minted, LP, Pool, MINI_LIQUIDITY)
    IN  [s EXCEPT !.book = b, !.pool = Refresh(b)]

\* What of the other tick goes with amt of t, at the pool's ratio.
Match(p, t, other, amt) == (amt * p.amt[other]) \div p.amt[t]

\* verifySwapAdd: it decides by the minimum of Tick1 alone which side is taken
\* in full, SwapAdd below by the amount offered too.
AddVerified(s, u, o) ==
    LET need1 == Match(s.pool, Tick0, Tick1, o.amt[Tick0])
        need0 == Match(s.pool, Tick1, Tick0, o.amt[Tick1])
    IN  /\ \A t \in Pair : o.amt[t] >= 1
        /\ IF need1 < o.min[Tick1]
           THEN /\ need0 >= o.min[Tick0]
                /\ need0 <= s.book.bal[Tick0][u] /\ o.amt[Tick1] <= s.book.bal[Tick1][u]
           ELSE o.amt[Tick0] <= s.book.bal[Tick0][u] /\ need1 <= s.book.bal[Tick1][u]

TakesAllOf0(p, o) ==
    LET need1 == Match(p, Tick0, Tick1, o.amt[Tick0])
    IN  o.min[Tick1] <= need1 /\ need1 <= o.amt[Tick1]

TakesAllOf1(p, o) ==
    LET need0 == Match(p, Tick1, Tick0, o.amt[Tick1])
    IN  o.min[Tick0] <= need0 /\ need0 <= o.amt[Tick0]

Taken(p, o) ==
    [t \in Pair |->
        IF TakesAllOf0(p, o)
        THEN IF t = Tick0 THEN o.amt[Tick0] ELSE Match(p, Tick0, Tick1, o.amt[Tick0])
        ELSE IF t = Tick1 THEN o.amt[Tick1] ELSE Match(p, Tick1, Tick0, o.amt[Tick1])]

\* Liquidity for one side of what is taken.
Share(p, o, t) == (Taken(p, o)[t] * p.total) \div p.amt[t]

\* Mutant: the larger of the two.
LargerShare(p, o) ==
    IF Share(p, o, Tick0) > Share(p, o, Tick1) THEN Share(p, o, Tick0) ELSE Share(p, o, Tick1)

Liquidity(p, o) ==
    IF Share(p, o, Tick0) > Share(p, o, Tick1) THEN Share(p, o, Tick1) ELSE Share(p, o, Tick0)

\* verifySwapAdd, SwapAdd. An add whose liquidity rounds to nothing is carried
\* out like any other: MintDrc20 mints 0.
CanAdd(s, u, o) ==
    /\ s.pool # NoPool
    /\ AddVerified(s, u, o)
    /\ TakesAllOf0(s.pool, o) \/ TakesAllOf1(s.pool, o)
    /\ \A t \in Pair : CanMove(s.book.bal, t, u, Pool, Taken(s.pool, o)[t])

SwapAdd(s, u, o) ==
    LET in   == Taken(s.pool, o)
        paid == MoveIn(MoveIn(s.book, Tick0, u, Pool, in[Tick0]), Tick1, u, Pool, in[Tick1])
        b    == MintIn(paid, LP, u, Liquidity(s.pool, o))
    IN  [s EXCEPT !.book = b, !.pool = Refresh(b)]

\* What liquidity is worth in t.
Worth(p, t, liquidity) == (liquidity * p.amt[t]) \div p.total

\* verifySwapRemove, SwapRemove.
CanRemove(s, u, o) ==
    /\ s.pool # NoPool
    /\ o.liquidity >= 1 /\ o.liquidity <= s.pool.total
    /\ CanBurnIn(s.book, LP, u, o.liquidity)
    /\ \A t \in Pair : CanMove(s.book.bal, t, Pool, u, Worth(s.pool, t, o.liquidity))

SwapRemove(s, u, o) ==
    LET out(t) == Worth(s.pool, t, o.liquidity)
        paid   == MoveIn(MoveIn(s.book, Tick0, Pool, u, out(Tick0)), Tick1, Pool, u, out(Tick1))
        b      == BurnIn(paid, LP, u, o.liquidity)
    IN  [book |-> b, pool |-> Refresh(b), out |-> s.out + IF o.doge THEN out(WDOGE) ELSE 0]

Other(t) == IF t = Tick0 THEN Tick1 ELSE Tick0

\* The amount out of a swap: FeeParts of every whole FeeUnit paid stay in the
\* pool, the rest trades along the constant product.
Out(p, o) ==
    LET in == o.amt - FeeParts * (o.amt \div FeeUnit)
    IN  (in * p.amt[Other(o.tick)]) \div (p.amt[o.tick] + in)

\* verifySwapExec, SwapExec.
CanExec(s, u, o) ==
    /\ s.pool # NoPool
    /\ Out(s.pool, o) >= o.min
    /\ CanMove(s.book.bal, o.tick, u, Pool, o.amt)
    /\ CanMove(s.book.bal, Other(o.tick), Pool, u, Out(s.pool, o))

\* Mutant: the row is not refreshed.
ExecStale(s, u, o) ==
    LET out  == Out(s.pool, o)
        paid == MoveIn(s.book, o.tick, u, Pool, o.amt)
        b    == MoveIn(paid, Other(o.tick), Pool, u, out)
    IN  [book |-> b, pool |-> s.pool,
         out |-> s.out + IF o.doge /\ o.tick # WDOGE THEN out ELSE 0]

SwapExec(s, u, o) ==
    LET out  == Out(s.pool, o)
        paid == MoveIn(s.book, o.tick, u, Pool, o.amt)
        b    == MoveIn(paid, Other(o.tick), Pool, u, out)
    IN  [book |-> b, pool |-> Refresh(b),
         out |-> s.out + IF o.doge /\ o.tick # WDOGE THEN out ELSE 0]

-----------------------------------------------------------------------------
(* A transaction *)

\* Mutant: the WDOGE of an add is not deposited.
DepositOfSwaps(o) ==
    IF ~o.doge THEN 0
    ELSE CASE o.op = "create" -> o.amt[WDOGE]
           [] o.op = "swap"   -> IF o.tick = WDOGE THEN o.amt ELSE 0
           [] OTHER           -> 0

\* The DOGE an inscription brings.
DepositOf(o) ==
    IF ~o.doge THEN 0
    ELSE CASE o.op \in {"create", "add"} -> o.amt[WDOGE]
           [] o.op = "swap"              -> IF o.tick = WDOGE THEN o.amt ELSE 0
           [] OTHER                      -> 0

\* What an inscription is checked for, and what it does.
Can(s, u, o) ==
    \/ o.op = "create" /\ CanCreate(s, u, o)
    \/ o.op = "add"    /\ CanAdd(s, u, o)
    \/ o.op = "remove" /\ CanRemove(s, u, o)
    \/ o.op = "swap"   /\ CanExec(s, u, o)

Do(s, u, o) ==
    CASE o.op = "create" -> SwapCreate(s, u, o)
      [] o.op = "add"    -> SwapAdd(s, u, o)
      [] o.op = "remove" -> SwapRemove(s, u, o)
      [] o.op = "swap"   -> SwapExec(s, u, o)

-----------------------------------------------------------------------------

Init ==
    /\ Ledger!AbsInit
    /\ pool = NoPool
    /\ creates = {}
    /\ poolAt = [h \in {} |-> NoPool]
    /\ phase = "idle"
    /\ tx = <<>>
    /\ sender \in Users
    /\ i = 1
    /\ due = 0
    /\ work = [book |-> Funds, pool |-> NoPool, out |-> 0]
    /\ had = 0
    /\ txs = 0

Idle == phase = "idle"

\* The end of executePairV1; what its local variables held is of no interest.
Return ==
    /\ phase' = "idle"
    /\ tx' = <<>> /\ i' = 1 /\ due' = 0 /\ had' = 0
    /\ work' = [book |-> Funds, pool |-> NoPool, out |-> 0]
    /\ UNCHANGED sender

\* executePairV1 is called.
Route(u, t) ==
    /\ Idle
    /\ txs < MaxTxs
    /\ txs' = txs + 1
    /\ phase' = "deposit"
    /\ sender' = u
    /\ tx' = t
    /\ had' = book.bal[WDOGE][u]
    /\ UNCHANGED <<book, pool, creates, chain, i, due, work>>

\* Its first loop.
CountDeposit ==
    /\ phase = "deposit"
    /\ i <= Len(tx)
    /\ due' = due + DepositOf(tx[i])
    /\ i' = i + 1
    /\ UNCHANGED <<book, pool, creates, chain, phase, sender, tx, work, had, txs>>

\* The first database transaction, wdogeDepositSwap, is committed; the second
\* begins.
CommitDeposit ==
    /\ phase = "deposit"
    /\ i = Len(tx) + 1
    /\ book' = IF due > 0 THEN MintIn(book, WDOGE, sender, due) ELSE book
    /\ work' = [book |-> book', pool |-> pool, out |-> 0]
    /\ phase' = "swap"
    /\ i' = 1
    /\ UNCHANGED <<pool, creates, chain, sender, tx, due, had, txs>>

\* Its second loop: one inscription after the other.
Inscribe ==
    /\ phase = "swap"
    /\ i <= Len(tx)
    /\ Can(work, sender, tx[i])
    /\ work' = Do(work, sender, tx[i])
    /\ i' = i + 1
    /\ UNCHANGED <<book, pool, creates, chain, phase, sender, tx, due, had, txs>>

\* wdogeWithdrawSwap, and the second database transaction is committed. The
\* info row of the withdrawal is what the operator pays DOGE out for.
CommitSwaps ==
    /\ phase = "swap"
    /\ i = Len(tx) + 1
    /\ CanBurnIn(work.book, WDOGE, sender, work.out)
    /\ book' = IF work.out > 0 THEN BurnIn(work.book, WDOGE, sender, work.out) ELSE work.book
    /\ pool' = work.pool
    /\ creates' = IF pool = NoPool /\ work.pool # NoPool THEN creates \cup {height} ELSE creates
    /\ Return
    /\ UNCHANGED <<chain, txs>>

\* An inscription is refused, or the withdrawal: the second database
\* transaction is rolled back, the deposit stays.
RollbackSwaps ==
    /\ phase = "swap"
    /\ IF i <= Len(tx) THEN ~Can(work, sender, tx[i])
       ELSE ~CanBurnIn(work.book, WDOGE, sender, work.out)
    /\ Return
    /\ UNCHANGED <<book, pool, creates, chain, txs>>

\* The process dies, or the database fails. The info rows have been saved: the
\* transaction is not tried again.
Crash ==
    /\ ~Idle
    /\ Return
    /\ UNCHANGED <<book, pool, creates, chain, txs>>

\* DogeDeposit, DogeWithdraw.
Deposit(u, amt) ==
    /\ Idle
    /\ txs < MaxTxs
    /\ txs' = txs + 1
    /\ amt >= 1
    /\ book' = MintIn(book, WDOGE, u, amt)
    /\ UNCHANGED <<pool, creates, chain, router>>

Withdraw(u, amt) ==
    /\ Idle
    /\ txs < MaxTxs
    /\ txs' = txs + 1
    /\ amt >= 1 /\ amt >= MinWithdraw
    /\ CanBurnIn(book, WDOGE, u, amt)
    /\ book' = BurnIn(book, WDOGE, u, amt)
    /\ UNCHANGED <<pool, creates, chain, router>>

\* A drc-20 transfer, which may go to the pool's address.
Transfer(t, u, a, amt) ==
    /\ Idle
    /\ txs < MaxTxs
    /\ txs' = txs + 1
    /\ CanMove(book.bal, t, u, a, amt)
    /\ book' = MoveIn(book, t, u, a, amt)
    /\ UNCHANGED <<pool, creates, chain, router>>

NextBlock ==
    /\ Idle
    /\ height < MaxHeight
    /\ Ledger!EndBlock
    /\ poolAt' = [h \in 0..height |-> IF h = height THEN pool ELSE poolAt[h]]
    /\ UNCHANGED <<pool, creates, txs, router>>

\* Mutant: the row is left alone unless it is deleted.
RestoreRowStale(h, b) ==
    IF \E c \in creates : c > h THEN NoPool ELSE pool

\* swapFork: pools created above h are deleted, all others refreshed.
RestoreRow(h, b) ==
    IF \E c \in creates : c > h THEN NoPool
    ELSE IF pool = NoPool THEN NoPool ELSE Refresh(b)

\* fork: drc20Fork, swapFork, delRevert.
Fork(h) ==
    /\ Idle
    /\ Ledger!Rollback(h)
    /\ pool' = RestoreRow(h, ended[h])
    /\ creates' = {c \in creates : c <= h}
    /\ poolAt' = [g \in 0..(h - 1) |-> poolAt[g]]
    /\ UNCHANGED <<txs, router>>

-----------------------------------------------------------------------------

Next ==
    \/ \E u \in Users, t \in Txs : Route(u, t)
    \/ CountDeposit
    \/ CommitDeposit
    \/ Inscribe
    \/ CommitSwaps
    \/ RollbackSwaps
    \/ Crash
    \/ \E u \in Users, amt \in Gifts : Deposit(u, amt) \/ Withdraw(u, amt)
    \/ \E t \in Ticks, u \in Users, a \in Accounts, amt \in Gifts : Transfer(t, u, a, amt)
    \/ NextBlock
    \/ \E h \in DOMAIN ended : Fork(h)

Spec == Init /\ [][Next]_vars

-----------------------------------------------------------------------------
(* Properties *)

TypeOK ==
    /\ book \in Books
    /\ pool \in Rows \cup {NoPool}
    /\ height \in Nat
    /\ DOMAIN ended = 0..(height - 1) /\ DOMAIN poolAt = DOMAIN ended
    /\ \A h \in DOMAIN ended : ended[h] \in Books
    /\ creates \subseteq 0..height
    /\ phase \in {"idle", "deposit", "swap"}
    /\ sender \in Users
    /\ tx \in Seq(Inscriptions)
    /\ i \in 1..(Len(tx) + 1)
    /\ due \in Nat
    /\ work \in Works
    /\ had \in Nat
    /\ \A h \in DOMAIN poolAt : poolAt[h] \in Rows \cup {NoPool}

\* A pool never runs dry: both reserves and the liquidity they are divided by
\* stay positive through any adds, removes, swaps and forks, so that no later
\* inscription divides by zero (storage/swap.go). The minimal liquidity locked
\* at the pool's address is what keeps it so.
NeverEmpty ==
    pool # NoPool =>
        /\ \A t \in Pair : pool.amt[t] >= 1
        /\ pool.total >= MINI_LIQUIDITY
        /\ book.bal[LP][Pool] >= MINI_LIQUIDITY

\* The row never promises more than the ledger holds for the pool, and its
\* liquidity is the number of liquidity tokens there are.
LedgerCovers ==
    /\ pool # NoPool =>
          /\ \A t \in Pair : pool.amt[t] <= book.bal[t][Pool]
          /\ pool.total = book.sum[LP]
    /\ pool = NoPool => book.sum[LP] = 0

\* A unit of liquidity is worth no more in p than in q: the product of the
\* reserves per squared liquidity.
WorthNoMore(p, q) ==
    (p.amt[Tick0] * p.amt[Tick1]) * (q.total * q.total)
        <= (q.amt[Tick0] * q.amt[Tick1]) * (p.total * p.total)

\* No operation makes a unit of liquidity worth less, short of a fork: rounding
\* always favours those who stay in the pool (SwapAdd, SwapRemove, SwapExec).
ShareValueNeverFalls ==
    [][pool # NoPool /\ pool' # NoPool /\ height' >= height =>
         WorthNoMore(pool, pool')]_vars

AllDoge == \A k \in DOMAIN tx : tx[k].doge

\* A sender who pays and is paid in DOGE has at least the WDOGE of before when
\* it is over, however it ends: the deposit covers what the pool takes, the
\* withdrawal is no more than what it gives, and a failure between the two
\* database transactions leaves the deposit.
RouterKeepsWdoge ==
    [][~Idle /\ phase' = "idle" /\ AllDoge =>
         book'.bal[WDOGE][sender] >= had]_vars

\* A fork gives the pool the row it had at the end of the block returned to, if
\* that was in step with the ledger: transfers to the pool's address that were
\* not yet in the row are in it after a fork, and nowhere else.
ForkRestoresRow ==
    [][height' < height =>
         LET was == poolAt[height'] IN
         /\ (was = NoPool) = (pool' = NoPool)
         /\ was # NoPool /\ was = Refresh(ended[height']) => pool' = was]_vars
=============================================================================
