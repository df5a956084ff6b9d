------------------------------- MODULE SwapV2 -------------------------------
(***************************************************************************)
(* One pool of protocol pair-v2, between WDOGE and a meme token, with the  *)
(* meme-20 ledger it shares the database with (executePairV2,              *)
(* storage/swap_v2.go, the meme20 functions of storage/common.go,          *)
(* explorer/meme20.go). The liquidity token is a meme token itself: its    *)
(* row of meme20_collect is created by the pool, every holder may transfer *)
(* it, and a fork first undoes its journal rows and then deletes it. WDOGE *)
(* is on the drc-20 ledger, whose fork CheckpointLedger stands for.        *)
(***************************************************************************)
EXTENDS Balances, Sequences, FiniteSets, Functions

CONSTANTS
    MEME, WDOGE,     \* the pair
    LP,              \* the liquidity token, its tick_id is the pair_id
    Tick0, Tick1,    \* MEME and WDOGE in the order of SortTokens
    DEPLOYED,        \* a meme token that Deployer may deploy
    Deployer, NewMax,
    Traders,         \* addresses that send inscriptions
    Pool,            \* reserves_address, the script hash of pair_id
    Txs,             \* sequences of inscriptions a transaction may carry
    Gifts,           \* amounts of transfers
    Opening,         \* the balances to begin with
    MINI_LIQUIDITY,  \* 1000
    FeeUnit,         \* 1000
    FeeParts,        \* 3 of FeeUnit stay in the pool
    NoPool, NoRow, Nobody, Stuck,
    MaxBlocks,       \* bound: blocks
    MaxTxs           \* bound: inscribing transactions

Pair == {Tick0, Tick1}
Ticks == Pair \cup {LP, DEPLOYED}
Memes == {MEME, LP, DEPLOYED}
Addresses == Traders \cup {Pool}
Purses == [Ticks -> [Addresses -> Nat]]
Rows == [amt : [Pair -> Nat], total : Nat]
MemeReverts == [tick : Memes, from : Addresses \cup {Nobody}, to : Addresses \cup {Nobody},
            amt : Nat, at : Nat]
Tables == [bal : Purses, max : Nat \cup {NoRow}, pool : Rows \cup {NoPool},
           rows : Nat, mined : Nat \cup {NoRow},
           creates : SUBSET Nat, journal : Seq(MemeReverts), swapped : SUBSET (Traders \X Nat)]

Inscriptions ==
    [op : {"create"}, amt : [Pair -> Nat], doge : BOOLEAN]
    \cup [op : {"add"}, amt : [Pair -> Nat], min : [Pair -> Nat], doge : BOOLEAN]
    \cup [op : {"remove"}, liquidity : Nat, doge : BOOLEAN]
    \cup [op : {"swap"}, tick : Pair, amt : Nat, min : Nat, doge : BOOLEAN]

ASSUME SwapV2Assumption ==
    /\ MEME # WDOGE /\ {Tick0, Tick1} = {MEME, WDOGE} /\ Tick0 # Tick1 /\ LP \notin Pair
    /\ DEPLOYED \notin Pair \cup {LP} /\ Deployer \in Traders /\ NewMax \in Nat \ {0}
    /\ IsFiniteSet(Traders) /\ Pool \notin Traders /\ Nobody \notin Traders \cup {Pool}
    /\ NoPool \notin Rows /\ NoRow \notin Nat /\ Stuck \notin Tables
    /\ Txs \subseteq Seq(Inscriptions)
    /\ Gifts \subseteq Nat
    /\ Opening \in Purses /\ \A a \in Addresses : Opening[LP][a] = 0 /\ Opening[DEPLOYED][a] = 0
    /\ MINI_LIQUIDITY \in Nat \ {0}
    /\ FeeUnit \in Nat \ {0} /\ FeeParts \in 0..(FeeUnit - 1)
    /\ MaxBlocks \in Nat /\ MaxTxs \in Nat

VARIABLES
    db,         \* the tables: balances of both ledgers; max_ of the liquidity
                \*   token's row; swap_v2_liquidity; rows of DEPLOYED's deployer
                \*   in meme20_collect_address; block of its deploy in
                \*   meme20_info; blocks of creates in
                \*   swap_v2_revert; meme20_revert; executed swaps of swap_v2_info
    wdogeAt,    \* WDOGE at the end of each finished block
    current,    \* Explorer.currentHeight
    dbAt,       \* ghost: the tables at the end of each finished block
    sender, tx, \* the transaction executePairV2 is at; Nobody when at none
    turn,       \* its loop variable
    work, out,  \* dbtx: the tables and dogeWithdrawAmt in it
    txs         \* transactions so far

chain == <<wdogeAt, current, dbAt>>
router == <<sender, tx, turn, work, out>>
poolVars == <<db, chain, router, txs>>

WdogeLedger == INSTANCE CheckpointLedger
          WITH Ledgers <- [Addresses -> Nat], EmptyLedger <- Opening[WDOGE],
               now <- db.bal[WDOGE], atEnd <- wdogeAt, height <- current

-----------------------------------------------------------------------------
(* The meme-20 ledger, on tables s. *)

Record(s, t, from, to, amt) ==
    IF t = WDOGE THEN s.journal
    ELSE Append(s.journal, [tick |-> t, from |-> from, to |-> to, amt |-> amt, at |-> current])

\* TransferDrc20, TransferMeme20.
Pay(s, t, from, to, amt) ==
    [s EXCEPT !.bal = Move(s.bal, t, from, to, amt), !.journal = Record(s, t, from, to, amt)]

\* MintMeme20, which does not mind an amount of 0.
MintLP(s, a, amt) ==
    [s EXCEPT !.bal = Mint(s.bal, LP, a, amt), !.max = @ + amt,
              !.journal = Record(s, LP, Nobody, a, amt)]

\* Mutant: the burn leaves max_ alone.
BurnLPOnly(s, a, amt) ==
    [s EXCEPT !.bal = Burn(s.bal, LP, a, amt), !.journal = Record(s, LP, a, Nobody, amt)]

\* BurnMeme20.
CanBurnLP(s, a, amt) == amt <= s.max /\ CanBurn(s.bal, LP, a, amt)

BurnLP(s, a, amt) ==
    [s EXCEPT !.bal = Burn(s.bal, LP, a, amt), !.max = @ - amt,
              !.journal = Record(s, LP, a, Nobody, amt)]

\* UpdateV2Liquidity, UpdateV2LiquidityFork.
Refresh(s) == [s EXCEPT !.pool = [amt |-> [t \in Pair |-> s.bal[t][Pool]], total |-> s.max]]

-----------------------------------------------------------------------------
(* One inscription of user u on tables s. *)

Isqrt(n) == CHOOSE r \in 0..n : r * r <= n /\ (r + 1) * (r + 1) > n

FirstLiquidity(o) == Isqrt(o.amt[Tick0] * o.amt[Tick1]) - MINI_LIQUIDITY

Paid(s, u, amt) == Pay(Pay(s, Tick0, u, Pool, amt[Tick0]), Tick1, u, Pool, amt[Tick1])

CanPay(s, u, amt) == \A t \in Pair : CanMove(s.bal, t, u, Pool, amt[t])

\* verifySwapV2Create, SwapV2Create.
CanCreate(s, u, o) == FirstLiquidity(o) > 0 /\ CanPay(s, u, o.amt)

SwapV2Create(s, u, o) ==
    LET begun == [Paid(s, u, o.amt) EXCEPT !.max = 0, !.creates = @ \cup {current}]
    IN  Refresh(MintLP(MintLP(begun, u, FirstLiquidity(o)), Pool, MINI_LIQUIDITY))

\* What of the other tick goes with amt of t, at the pool's ratio.
Match(p, t, other, amt) == (amt * p.amt[other]) \div p.amt[t]

TakesAllOf0(p, o) ==
    LET need1 == Match(p, Tick0, Tick1, o.amt[Tick0])
    IN  o.min[Tick1] <= need1 /\ need1 <= o.amt[Tick1]

TakesAllOf1(p, o) ==
    LET need0 == Match(p, Tick1, Tick0, o.amt[Tick1])
    IN  o.min[Tick0] <= need0 /\ need0 <= o.amt[Tick0]

\* Amt0Out and Amt1Out: what is counted of the amounts, which the pool gets whole.
Counted(p, o) ==
    [t \in Pair |->
        IF TakesAllOf0(p, o)
        THEN IF t = Tick0 THEN o.amt[Tick0] ELSE Match(p, Tick0, Tick1, o.amt[Tick0])
        ELSE IF t = Tick1 THEN o.amt[Tick1] ELSE Match(p, Tick1, Tick0, o.amt[Tick1])]

Share(p, o, t) == (Counted(p, o)[t] * p.total) \div p.amt[t]

\* Mutant: liquidity for the amounts offered instead of those counted.
LiquidityOffered(p, o) == (o.amt[Tick0] * p.total) \div p.amt[Tick0]

Liquidity(p, o) ==
    IF Share(p, o, Tick0) > Share(p, o, Tick1) THEN Share(p, o, Tick1) ELSE Share(p, o, Tick0)

\* verifySwapV2Add, which asks for no more than SwapV2Add; SwapV2Add.
CanAdd(s, u, o) ==
    /\ s.pool # NoPool
    /\ \A t \in Pair : o.amt[t] * s.pool.amt[t] >= 1
    /\ TakesAllOf0(s.pool, o) \/ TakesAllOf1(s.pool, o)
    /\ CanPay(s, u, o.amt)

SwapV2Add(s, u, o) == Refresh(MintLP(Paid(s, u, o.amt), u, Liquidity(s.pool, o)))

\* What liquidity is worth in t.
Worth(p, t, liquidity) == (liquidity * p.amt[t]) \div p.total

\* verifySwapV2Remove, SwapV2Remove.
CanRemove(s, u, o) ==
    /\ s.pool # NoPool
    /\ o.liquidity >= 1 /\ o.liquidity <= s.pool.total
    /\ \A t \in Pair : CanMove(s.bal, t, Pool, u, Worth(s.pool, t, o.liquidity))
    /\ CanBurnLP(s, u, o.liquidity)

SwapV2Remove(s, u, o) ==
    LET amt(t) == Worth(s.pool, t, o.liquidity)
        paid   == Pay(Pay(s, Tick0, Pool, u, amt(Tick0)), Tick1, Pool, u, amt(Tick1))
    IN  Refresh(BurnLP(paid, u, o.liquidity))

Other(t) == IF t = Tick0 THEN Tick1 ELSE Tick0

Out(p, o) ==
    LET in == o.amt - FeeParts * (o.amt \div FeeUnit)
    IN  (in * p.amt[Other(o.tick)]) \div (p.amt[o.tick] + in)

\* verifySwapV2Exec, SwapV2Exec. The query for a swap of the same holder in the
\* block sees those of the same database transaction.
CanExec(s, u, o) ==
    /\ s.pool # NoPool
    /\ <<u, current>> \notin s.swapped
    /\ Out(s.pool, o) >= o.min
    /\ CanMove(s.bal, o.tick, u, Pool, o.amt)
    /\ CanMove(s.bal, Other(o.tick), Pool, u, Out(s.pool, o))

SwapV2Exec(s, u, o) ==
    LET paid == Pay(Pay(s, o.tick, u, Pool, o.amt), Other(o.tick), Pool, u, Out(s.pool, o))
    IN  Refresh([paid EXCEPT !.swapped = @ \cup {<<u, current>>}])

Can(s, u, o) ==
    \/ o.op = "create" /\ CanCreate(s, u, o)
    \/ o.op = "add"    /\ CanAdd(s, u, o)
    \/ o.op = "remove" /\ CanRemove(s, u, o)
    \/ o.op = "swap"   /\ CanExec(s, u, o)

Do(s, u, o) ==
    CASE o.op = "create" -> SwapV2Create(s, u, o)
      [] o.op = "add"    -> SwapV2Add(s, u, o)
      [] o.op = "remove" -> SwapV2Remove(s, u, o)
      [] o.op = "swap"   -> SwapV2Exec(s, u, o)

-----------------------------------------------------------------------------
(* A transaction *)

\* The DOGE an inscription brings, and the WDOGE it lets out.
DepositOf(o) ==
    IF ~o.doge THEN 0
    ELSE CASE o.op = "add"  -> o.amt[WDOGE]
           [] o.op = "swap" -> IF o.tick = WDOGE THEN o.amt ELSE 0
           [] OTHER         -> 0

WithdrawOf(s, o) ==
    IF ~o.doge THEN 0
    ELSE CASE o.op = "remove" -> Worth(s.pool, WDOGE, o.liquidity)
           [] o.op = "swap"   -> IF o.tick = WDOGE THEN 0 ELSE Out(s.pool, o)
           [] OTHER           -> 0

Due(t) == SumFunction([k \in DOMAIN t |-> DepositOf(t[k])])

\* The pool is looked up before the deposit, for a create as well: one that
\* brings DOGE goes no further, and the DOGE becomes no WDOGE.
NeedsPool(o) == o.doge /\ o.op \in {"create", "add"}

SwapV2Init ==
    /\ db = [bal |-> Opening, max |-> NoRow, pool |-> NoPool, rows |-> 0, mined |-> NoRow,
             creates |-> {}, journal |-> <<>>, swapped |-> {}]
    /\ wdogeAt = [h \in {} |-> Opening[WDOGE]]
    /\ current = 0
    /\ dbAt = [h \in {} |-> db]
    /\ sender = Nobody /\ tx = <<>> /\ turn = 1 /\ work = db /\ out = 0
    /\ txs = 0

Idle == sender = Nobody

Count == txs < MaxTxs /\ txs' = txs + 1

\* executePairV2: the lookups, and the deposit in a database transaction of its
\* own.
Begin(u, t) ==
    /\ Idle
    /\ Count
    /\ \A k \in DOMAIN t : NeedsPool(t[k]) => db.pool # NoPool
    /\ db' = [db EXCEPT !.bal = Mint(db.bal, WDOGE, u, Due(t))]
    /\ sender' = u /\ tx' = t /\ turn' = 1 /\ work' = db' /\ out' = 0
    /\ UNCHANGED chain

\* One turn of its second loop.
Inscribe ==
    /\ ~Idle
    /\ turn <= Len(tx)
    /\ Can(work, sender, tx[turn])
    /\ work' = Do(work, sender, tx[turn])
    /\ out' = out + WithdrawOf(work, tx[turn])
    /\ turn' = turn + 1
    /\ UNCHANGED <<db, chain, sender, tx, txs>>

Return == sender' = Nobody /\ tx' = <<>> /\ turn' = 1 /\ work' = db' /\ out' = 0

\* wdogeWithdrawSwap, and the commit.
Commit ==
    /\ ~Idle
    /\ turn = Len(tx) + 1
    /\ CanBurn(work.bal, WDOGE, sender, out)
    /\ db' = [work EXCEPT !.bal = Burn(work.bal, WDOGE, sender, out)]
    /\ Return
    /\ UNCHANGED <<chain, txs>>

\* An inscription or the withdrawal is refused, or the process dies: the
\* database transaction is rolled back, the deposit stays.
GiveUp ==
    /\ ~Idle
    /\ UNCHANGED <<db, chain, txs>>
    /\ Return

\* A drc-20 transfer of WDOGE.
DogeTransfer(u, a, amt) ==
    /\ Idle
    /\ Count
    /\ CanMove(db.bal, WDOGE, u, a, amt)
    /\ db' = [db EXCEPT !.bal = Move(db.bal, WDOGE, u, a, amt)]
    /\ work' = db'
    /\ UNCHANGED <<chain, sender, tx, turn, out>>

\* verifyMeme20Transfer, meme20Transfer: of memes and of liquidity. Whoever
\* swapped in the block may not.
MemeTransfer(t, u, a, amt) ==
    /\ Idle
    /\ Count
    /\ <<u, current>> \notin db.swapped
    /\ CanMove(db.bal, t, u, a, amt)
    /\ db' = Pay(db, t, u, a, amt)
    /\ work' = db'
    /\ UNCHANGED <<chain, sender, tx, turn, out>>

\* memeDeploy, whose tick_id is the hash of its transaction. It writes no journal
\* row, and one that is mined again adds a row behind the one that is used.
memeDeploy ==
    /\ Idle
    /\ Count
    /\ db.mined = NoRow
    /\ db' = [db EXCEPT !.mined = current, !.rows = @ + 1,
                        !.bal[DEPLOYED][Deployer] = IF db.rows = 0 THEN NewMax ELSE @]
    /\ work' = db'
    /\ UNCHANGED <<chain, sender, tx, turn, out>>

FinishBlock ==
    /\ Idle
    /\ current < MaxBlocks
    /\ UNCHANGED <<db, router, txs>>
    /\ WdogeLedger!EndBlock
    /\ dbAt' = [h \in 0..current |-> IF h = current THEN db ELSE dbAt[h]]

-----------------------------------------------------------------------------
(* A fork to block h. *)

\* Mutant: in the order of the ids.
ByRisingId(j, k) == j[k]

\* The journal by falling id.
ByFallingId(j, k) == j[Len(j) + 1 - k]

\* BurnMeme20, MintMeme20 and TransferMeme20 with fork set: each wants the
\* row of the token, and the balance it takes from.
UndoOk(s, r) ==
    /\ r.tick = LP => s.max # NoRow
    /\ r.from = Nobody => CanBurnLP(s, r.to, r.amt)
    /\ r.from # Nobody /\ r.to # Nobody => CanMove(s.bal, r.tick, r.to, r.from, r.amt)

Undo(s, r) ==
    CASE r.from = Nobody -> [s EXCEPT !.bal = Burn(s.bal, LP, r.to, r.amt), !.max = @ - r.amt]
      [] r.to = Nobody   -> [s EXCEPT !.bal = Mint(s.bal, LP, r.from, r.amt), !.max = @ + r.amt]
      [] OTHER           -> [s EXCEPT !.bal = Move(s.bal, r.tick, r.to, r.from, r.amt)]

\* meme20Fork: the rows above h; an undo that is refused refuses the fork.
meme20Fork(s, h) ==
    LET undone[k \in 0..Len(s.journal)] ==
            IF k = 0 THEN s
            ELSE LET w == undone[k - 1]
                     r == ByFallingId(s.journal, k)
                 IN  IF r.at <= h THEN w
                     ELSE IF w # Stuck /\ UndoOk(w, r) THEN Undo(w, r)
                     ELSE Stuck
    IN  undone[Len(s.journal)]

\* Mutant: the row of a pool that goes on is not refreshed.
SwapV2ForkStale(s, h) ==
    IF \E c \in s.creates : c > h
    THEN [s EXCEPT !.pool = NoPool, !.max = NoRow, !.bal[LP] = [a \in Addresses |-> 0]]
    ELSE s

\* swapV2Fork: the rows of a pool created above h are deleted, with its token.
SwapV2Fork(s, h) ==
    IF \E c \in s.creates : c > h
    THEN [s EXCEPT !.pool = NoPool, !.max = NoRow, !.bal[LP] = [a \in Addresses |-> 0]]
    ELSE IF s.pool = NoPool THEN s ELSE Refresh(s)

\* delInfo, drc20Fork.
Forking(h) ==
    [db EXCEPT !.swapped = {e \in @ : e[2] <= h}, !.bal[WDOGE] = wdogeAt[h],
               !.mined = IF @ # NoRow /\ @ > h THEN NoRow ELSE @]

\* delRevert.
Later(j, h) == {k \in DOMAIN j : j[k].at > h}

DelRevert(s, h) ==
    [s EXCEPT !.journal = [k \in DOMAIN @ \ Later(@, h) |-> @[k]],
              !.creates = {c \in @ : c <= h}]

forkBack(h) ==
    LET undone == meme20Fork(Forking(h), h) IN
    /\ Idle
    /\ undone # Stuck
    /\ db' = DelRevert(SwapV2Fork(undone, h), h)
    /\ WdogeLedger!Rollback(h)
    /\ work' = db'
    /\ dbAt' = [g \in 0..(h - 1) |-> dbAt[g]]
    /\ UNCHANGED <<sender, tx, turn, out, txs>>

-----------------------------------------------------------------------------

\* Assumed: a create names a pair_id no pool has. The code does not ask.
Fresh == turn \in DOMAIN tx /\ tx[turn].op = "create" => work.pool = NoPool

SwapV2Next ==
    \/ \E u \in Traders, t \in Txs : Begin(u, t)
    \/ Fresh /\ Inscribe
    \/ Commit
    \/ GiveUp
    \/ \E u \in Traders, a \in Addresses, amt \in Gifts :
          \/ DogeTransfer(u, a, amt)
          \/ \E t \in Memes : MemeTransfer(t, u, a, amt)
    \/ memeDeploy
    \/ FinishBlock
    \/ \E h \in DOMAIN wdogeAt : forkBack(h)

SwapV2Spec == SwapV2Init /\ [][SwapV2Next]_poolVars

-----------------------------------------------------------------------------
(* Properties *)

\* The pool's row, its token and the two ledgers agree, through adds, removes,
\* transfers of liquidity, crashes and forks: max_ of meme20_collect counts
\* the liquidity its holders have, the row repeats it and promises no more
\* than the reserves address holds, and a token without a pool has no row
\* and no holder (SwapV2Remove, meme20Fork, swapV2Fork). A token deployed,
\* abandoned by a fork and deployed again has its supply once (memeDeploy).
Held(t) == SumFunction(db.bal[t])

TokensAgree ==
    /\ Held(DEPLOYED) = IF db.rows = 0 THEN 0 ELSE NewMax
    /\ IF db.pool = NoPool
       THEN db.max = NoRow /\ Held(LP) = 0
       ELSE /\ db.max = Held(LP)
            /\ db.pool.total = db.max
            /\ \A t \in Pair : db.pool.amt[t] <= db.bal[t][Pool]

\* A unit of liquidity is worth no more in p than in q.
WorthNoMore(p, q) ==
    (p.amt[Tick0] * p.amt[Tick1]) * (q.total * q.total)
        <= (q.amt[Tick0] * q.amt[Tick1]) * (p.total * p.total)

\* No operation makes a unit of liquidity worth less, short of a fork: an add
\* gives liquidity for the part that is counted of what it pays (SwapV2Add),
\* and rounding favours those who stay in the pool.
ShareValueNeverFalls ==
    [][db.pool # NoPool /\ db'.pool # NoPool /\ current' >= current =>
         WorthNoMore(db.pool, db'.pool)]_poolVars

\* Between inscriptions a fork to any finished block can be carried out: no
\* undo of meme20Fork meets a missing row or a balance that is too small, so
\* that the transaction of forkBack is never rolled back for good.
MemeForkNeverRefused ==
    Idle => \A h \in DOMAIN wdogeAt : meme20Fork(Forking(h), h) # Stuck

\* A fork gives back the meme balances, the liquidity token's row, the journal
\* and the executed swaps of the block returned to, and the pool's row where
\* it was in step with the ledgers then. A token whose deploy it abandons stays,
\* and is whole with its deployer (memeDeploy writes no journal row).
Whole == [a \in Addresses |-> IF a = Deployer THEN NewMax ELSE 0]

ForkRestores ==
    [][current' < current =>
         LET was == dbAt[current'] IN
         /\ [db' EXCEPT !.pool = was.pool, !.rows = was.rows, !.bal[DEPLOYED] = was.bal[DEPLOYED]] = was
         /\ db'.bal[DEPLOYED] = IF was.rows = 0 /\ db.rows > 0 THEN Whole ELSE was.bal[DEPLOYED]
         /\ (db'.pool = NoPool) = (was.pool = NoPool)
         /\ was.pool # NoPool /\ Refresh(was) = was => db'.pool = was.pool]_poolVars
=============================================================================
