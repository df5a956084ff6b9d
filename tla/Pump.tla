-------------------------------- MODULE Pump --------------------------------
(***************************************************************************)
(* One meme token of protocol pump, its bonding curve against WDOGE, the   *)
(* referral fees of protocol invite, and the transfers of meme-20 that the *)
(* curve restricts (executePump, storage/pump.go, explorer/pump.go,        *)
(* explorer/invite.go). The row of pump_liquidity is not a copy of the     *)
(* ledger: it starts with DOGE nobody has paid, and is kept by addition    *)
(* and subtraction next to the balances of the reserves address, with a    *)
(* journal of its own for forks. When the reserves have FinishAt, what     *)
(* they hold becomes a pool of pair-v2.                                    *)
(***************************************************************************)
EXTENDS Balances, Sequences, FiniteSets, Functions

CONSTANTS
    MEME, WDOGE,    \* the token (Tick0Id) and WDOGE(WRAPPED-DOGE)
    Users,          \* addresses that send inscriptions
    Reserves,       \* reserves_address of the token
    TxFee,          \* TxFeeAddress
    Pool,           \* reserves_address of the pools the reserves become
    Deploys,        \* deploy inscriptions: reserve, first, doge
    Trades,         \* trade inscriptions: tick, amt, min, doge
    Gifts,          \* amounts of transfers
    Wealth,         \* the WDOGE everybody begins with
    MemeMax, DogeInit,
    TradeMax,       \* DogeMax of verifys.go, 33000 DOGE
    FinishAt,       \* DogeMax of storage/pump.go, 100000 DOGE
    MaxFirst,       \* 5000 DOGE
    PumpFinishFee, PumpCreateHolderFee,
    FeeUnit,        \* 100: one of FeeUnit is the fee
    ReserveUnit,    \* 100: reserve is a number of parts of ReserveUnit
    MINI_LIQUIDITY,
    NoPump, NoOp,
    MaxBlocks,      \* bound: blocks
    MaxTxs          \* bound: inscriptions

Pair == {MEME, WDOGE}
Accounts == Users \cup {Reserves, TxFee, Pool}
Books == [Pair -> [Accounts -> Nat]]
Curves == [amt0 : Nat, amt1 : Nat, reserve : Nat]
DeployOps == [op : {"deploy"}, reserve : Nat, first : Nat, doge : BOOLEAN]
TradeOps == [op : {"trade"}, tick : Pair, amt : Nat, min : Nat, doge : BOOLEAN]
Reverts == [op : {"deploy", "trade"}, amt0 : Nat, amt1 : Nat, at : Nat]
Rewards == [by : Accounts, amt : Nat]
RewardReverts == [who : Users, by : Accounts, amt : Nat, at : Nat]
Pools == [amt0 : Nat, amt1 : Nat, at : Nat]
Invites == [by : Accounts, at : Nat]

Broke == [t \in Pair |-> [a \in Accounts |-> IF t = WDOGE THEN Wealth[a] ELSE 0]]

ASSUME PumpAssumption ==
    /\ MEME # WDOGE
    /\ Reserves \notin Users /\ TxFee \notin Users \cup {Reserves}
    /\ Pool \notin Users \cup {Reserves, TxFee}
    /\ NoPump \notin Curves /\ NoOp \notin Users
    /\ Deploys \subseteq DeployOps /\ Trades \subseteq TradeOps
    /\ Gifts \subseteq Nat
    /\ Wealth \in [Accounts -> Nat]
    /\ MemeMax \in Nat \ {0} /\ DogeInit \in Nat \ {0}
    /\ TradeMax \in Nat /\ FinishAt \in Nat /\ MaxFirst \in Nat
    /\ PumpFinishFee \in Nat \ {0} /\ PumpCreateHolderFee \in Nat \ {0}
    /\ FeeUnit \in Nat \ {0}
    /\ ReserveUnit \in Nat \ {0} /\ MemeMax % ReserveUnit = 0
    /\ MINI_LIQUIDITY \in Nat
    /\ MaxBlocks \in Nat /\ MaxTxs \in Nat

VARIABLES
    db,         \* the tables a trade changes: the balances; the curve (row of
                \*   pump_liquidity, or NoPump); the pools it became; pump_revert;
                \*   pump_invite_reward and its journal
    balAt,      \* the balances at the end of each finished block
    current,    \* Explorer.currentHeight
    invites,    \* invite_collect: holder -> who invited it, and the block
    traded,     \* pump_info with op trade and order_status 0: holder and block
    doing,      \* the inscription executePump is at and its sender, or NoOp
    curveAt,    \* ghost: the curve at the end of each finished block
    rewardsAt,  \* ghost: the rewards at the end of each finished block
    mixed,      \* ghost: holders whose reward row was ever credited on account
                \*   of somebody else than the inviter it names
    txs         \* inscriptions so far

chain == <<balAt, current, curveAt, rewardsAt>>
pumpVars == <<db, chain, invites, traded, doing, mixed, txs>>

Ledger == INSTANCE CheckpointLedger
          WITH Ledgers <- Books, EmptyLedger <- Broke,
               now <- db.bal, atEnd <- balAt, height <- current

Idle == doing = NoOp

-----------------------------------------------------------------------------
(* One trade, on the tables s: first the fee, then the payment in, then    *)
(* what comes out.                                                         *)

Fee(amt) == amt \div FeeUnit

\* Mutant: the division is rounded up.
OutRoundedUp(c, tick, amt) ==
    IF tick = WDOGE THEN (amt * c.amt0 + c.amt1 + amt - 1) \div (c.amt1 + amt)
    ELSE (amt * c.amt1 + c.amt0 + amt - 1) \div (c.amt0 + amt)

\* What comes out of the curve for amt of tick, fee not yet taken.
Out(c, tick, amt) ==
    IF tick = WDOGE THEN (amt * c.amt0) \div (c.amt1 + amt)
    ELSE (amt * c.amt1) \div (c.amt0 + amt)

\* The fee goes to TxFee, and half of it on to whoever invited u.
CanPayFee(bal, payer, u, fee) ==
    /\ CanMove(bal, WDOGE, payer, TxFee, fee)
    /\ u \in DOMAIN invites =>
          CanMove(Move(bal, WDOGE, payer, TxFee, fee), WDOGE, TxFee, invites[u].by, fee \div 2)

PayFee(bal, payer, u, fee) ==
    LET paid == Move(bal, WDOGE, payer, TxFee, fee)
    IN  IF u \in DOMAIN invites
        THEN Move(paid, WDOGE, TxFee, invites[u].by, fee \div 2) ELSE paid

\* InvitePump: the row is found by the holder alone.
Credited(s, u, fee) ==
    IF u \notin DOMAIN invites THEN s.rewards
    ELSE [w \in DOMAIN s.rewards \cup {u} |->
            IF w # u THEN s.rewards[w]
            ELSE IF u \in DOMAIN s.rewards
                 THEN [by |-> s.rewards[u].by, amt |-> s.rewards[u].amt + fee \div 2]
                 ELSE [by |-> invites[u].by, amt |-> fee \div 2]]

CreditRevert(s, u) ==
    IF u \notin DOMAIN invites THEN s.rewardReverts
    ELSE Append(s.rewardReverts,
                [who |-> u, by |-> invites[u].by, at |-> current,
                 amt |-> IF u \in DOMAIN s.rewards THEN s.rewards[u].amt ELSE 0])

\* amtin.
In(o) == IF o.tick = WDOGE THEN o.amt - Fee(o.amt) ELSE o.amt

Yield(s, o) == Out(s.curve, o.tick, In(o))

\* The balances: a buyer pays the fee, a seller's comes out of the reserves.
BuyPaid(s, u, o) ==
    Move(PayFee(s.bal, u, u, Fee(o.amt)), WDOGE, u, Reserves, In(o))

SellPaid(s, u, o) ==
    PayFee(Move(s.bal, MEME, u, Reserves, In(o)), Reserves, u, Fee(Yield(s, o)))

CanTrade(s, u, o) ==
    LET out == Yield(s, o) IN
    IF o.tick = WDOGE
    THEN /\ CanPayFee(s.bal, u, u, Fee(o.amt))
         /\ CanMove(PayFee(s.bal, u, u, Fee(o.amt)), WDOGE, u, Reserves, In(o))
         /\ CanMove(BuyPaid(s, u, o), MEME, Reserves, u, out)
    ELSE /\ CanMove(s.bal, MEME, u, Reserves, In(o))
         /\ CanPayFee(Move(s.bal, MEME, u, Reserves, In(o)), Reserves, u, Fee(out))
         /\ CanMove(SellPaid(s, u, o), WDOGE, Reserves, u, out - Fee(out))

\* Mutant: the row forgets the fee that left the reserves with a sale.
CurveAfterNet(s, o) ==
    LET out == Yield(s, o) IN
    IF o.tick = WDOGE
    THEN [s.curve EXCEPT !.amt0 = @ - out, !.amt1 = @ + In(o)]
    ELSE [s.curve EXCEPT !.amt0 = @ + In(o), !.amt1 = @ - (out - Fee(out))]

CurveAfter(s, o) ==
    LET out == Yield(s, o) IN
    IF o.tick = WDOGE
    THEN [s.curve EXCEPT !.amt0 = @ - out, !.amt1 = @ + In(o)]
    ELSE [s.curve EXCEPT !.amt0 = @ + In(o), !.amt1 = @ - out]

\* Everything of PumpTrade but PumpFinish.
Traded(s, u, o) ==
    LET out == Yield(s, o)
        fee == IF o.tick = WDOGE THEN Fee(o.amt) ELSE Fee(out)
    IN  [bal |-> IF o.tick = WDOGE
                 THEN Move(BuyPaid(s, u, o), MEME, Reserves, u, out)
                 ELSE Move(SellPaid(s, u, o), WDOGE, Reserves, u, out - fee),
         curve |-> CurveAfter(s, o),
         pools |-> s.pools,
         reverts |-> Append(s.reverts,
                            [op |-> "trade", amt0 |-> s.curve.amt0,
                             amt1 |-> s.curve.amt1, at |-> current]),
         rewards |-> Credited(s, u, fee),
         rewardReverts |-> CreditRevert(s, u)]

\* PumpFinish. Two fees are wrapped DOGE sent to an address and withdrawn there
\* at once; all the reserves hold is the pool's. SwapV2Create wants a square
\* root above MINI_LIQUIDITY.
Full(s) == s.bal[WDOGE][Reserves] >= FinishAt

Left(s) == s.bal[WDOGE][Reserves] - (PumpFinishFee + PumpCreateHolderFee)

CanFinish(s) ==
    /\ Left(s) >= 1
    /\ s.bal[MEME][Reserves] >= 1
    /\ Left(s) * s.bal[MEME][Reserves] >= (MINI_LIQUIDITY + 1) * (MINI_LIQUIDITY + 1)

Finished(s) ==
    LET b    == Burn(s.bal, WDOGE, Reserves, PumpFinishFee + PumpCreateHolderFee)
        memes == b[MEME][Reserves]
        doge == b[WDOGE][Reserves]
    IN  [s EXCEPT !.bal = Move(Move(b, MEME, Reserves, Pool, memes),
                               WDOGE, Reserves, Pool, doge),
                  !.pools = @ \cup {[amt0 |-> memes, amt1 |-> doge, at |-> current]}]

CanPumpTrade(s, u, o) ==
    /\ CanTrade(s, u, o)
    /\ Full(Traded(s, u, o)) => CanFinish(Traded(s, u, o))

PumpTrade(s, u, o) ==
    LET t == Traded(s, u, o) IN IF Full(t) THEN Finished(t) ELSE t

-----------------------------------------------------------------------------
(* A deploy *)

\* What the reserves get; the rest is the deployer's.
ReservesShare(o) == (MemeMax \div ReserveUnit) * (ReserveUnit - o.reserve)

FirstBuy(o) == [op |-> "trade", tick |-> WDOGE, amt |-> o.first, min |-> 0, doge |-> FALSE]

\* PumpDeploy up to the first trade.
Opened(s, u, o) ==
    [s EXCEPT !.bal = Mint(IF o.reserve > 0
                           THEN Mint(s.bal, MEME, u, MemeMax - ReservesShare(o)) ELSE s.bal,
                           MEME, Reserves, ReservesShare(o)),
              !.curve = [amt0 |-> ReservesShare(o), amt1 |-> DogeInit, reserve |-> o.reserve],
              !.reverts = Append(@, [op |-> "deploy", amt0 |-> 0, amt1 |-> 0, at |-> current])]

\* verifyPumpDeploy, PumpDeploy. There is at most one token in the model.
CanDeploy(s, u, o) ==
    /\ o.reserve < ReserveUnit
    /\ o.reserve > 0 => o.first = 0
    /\ s.curve = NoPump
    /\ o.first <= MaxFirst
    /\ o.first > 0 => CanPumpTrade(Opened(s, u, o), u, FirstBuy(o))

PumpDeploy(s, u, o) ==
    IF o.first > 0 THEN PumpTrade(Opened(s, u, o), u, FirstBuy(o)) ELSE Opened(s, u, o)

-----------------------------------------------------------------------------

TradedNow(u) == \E r \in traded : r.who = u /\ r.at = current

\* verifyPumpTrade; the least amount the trader asked for is not looked at.
VerifyTrade(s, u, o) ==
    /\ o.amt >= 1
    /\ s.curve # NoPump
    /\ s.curve.amt1 < TradeMax
    /\ ~TradedNow(u)

Can(s, u, o) ==
    \/ o.op = "deploy" /\ CanDeploy(s, u, o)
    \/ o.op = "trade" /\ VerifyTrade(s, u, o) /\ CanPumpTrade(s, u, o)

Do(s, u, o) == IF o.op = "deploy" THEN PumpDeploy(s, u, o) ELSE PumpTrade(s, u, o)

\* WDOGE the inscription brings, and takes with it: the seller's part of what
\* the sale gives, which is in no pool and so survives PumpFinish.
DepositOf(o) ==
    IF ~o.doge THEN 0
    ELSE IF o.op = "deploy" THEN o.first
    ELSE IF o.tick = WDOGE THEN o.amt ELSE 0

WithdrawOf(s, o) ==
    IF o.op = "trade" /\ o.doge /\ o.tick = MEME
    THEN Yield(s, o) - Fee(Yield(s, o)) ELSE 0

Withdrawn(s, u, amt) == IF amt > 0 THEN [s EXCEPT !.bal = Burn(@, WDOGE, u, amt)] ELSE s

-----------------------------------------------------------------------------

PumpInit ==
    /\ db = [bal |-> Broke, curve |-> NoPump, pools |-> {}, reverts |-> <<>>,
             rewards |-> [w \in {} |-> NoOp], rewardReverts |-> <<>>]
    /\ balAt = [h \in {} |-> Broke]
    /\ current = 0
    /\ invites = [w \in {} |-> NoOp]
    /\ traded = {}
    /\ doing = NoOp
    /\ curveAt = [h \in {} |-> NoPump]
    /\ rewardsAt = [h \in {} |-> [w \in {} |-> NoOp]]
    /\ mixed = {}
    /\ txs = 0

Spend == txs < MaxTxs /\ txs' = txs + 1

\* executePump is called: the deposit is a database transaction of its own.
Begin(u, o) ==
    /\ Idle
    /\ Spend
    /\ doing' = [who |-> u, op |-> o]
    /\ db' = IF DepositOf(o) > 0
             THEN [db EXCEPT !.bal = Mint(@, WDOGE, u, DepositOf(o))] ELSE db
    /\ UNCHANGED <<chain, invites, traded, mixed>>

\* The journal finds a reward row by its holder and the inviter credited,
\* InvitePump by the holder alone: those for whom the two differ.
Mixed(s) ==
    {w \in DOMAIN s.rewards :
        \E k \in DOMAIN s.rewardReverts :
            s.rewardReverts[k].who = w /\ s.rewardReverts[k].by # s.rewards[w].by}

\* The second one: VerifyPump, PumpDeploy or PumpTrade, wdogeWithdrawSwap.
Execute ==
    /\ ~Idle
    /\ Can(db, doing.who, doing.op)
    /\ LET done == Do(db, doing.who, doing.op)
           out  == WithdrawOf(db, doing.op)
       IN  /\ out > 0 => CanBurn(done.bal, WDOGE, doing.who, out)
           /\ db' = Withdrawn(done, doing.who, out)
    /\ traded' = IF doing.op.op = "trade"
                 THEN traded \cup {[who |-> doing.who, at |-> current]} ELSE traded
    /\ mixed' = mixed \cup Mixed(db')
    /\ doing' = NoOp
    /\ UNCHANGED <<chain, invites, txs>>

\* An inscription is refused, or the process dies between the two: it is not
\* tried again, and the deposit stays.
Drop ==
    /\ ~Idle
    /\ doing' = NoOp
    /\ UNCHANGED <<db, chain, invites, traded, mixed, txs>>

\* meme-20 transfer (verifyMeme20Transfer): not in the block of a trade.
MemeTransfer(u, a, amt) ==
    /\ Idle
    /\ Spend
    /\ ~TradedNow(u)
    /\ CanMove(db.bal, MEME, u, a, amt)
    /\ db' = [db EXCEPT !.bal = Move(@, MEME, u, a, amt)]
    /\ UNCHANGED <<chain, invites, traded, doing, mixed>>

\* A drc-20 transfer of WDOGE, maybe to the reserves.
DogeTransfer(u, a, amt) ==
    /\ Idle
    /\ Spend
    /\ CanMove(db.bal, WDOGE, u, a, amt)
    /\ db' = [db EXCEPT !.bal = Move(@, WDOGE, u, a, amt)]
    /\ UNCHANGED <<chain, invites, traded, doing, mixed>>

\* verifyInviteDeploy, inviteDeploy: any address may be named.
Invite(u, by) ==
    /\ Idle
    /\ Spend
    /\ by # u
    /\ u \notin DOMAIN invites
    /\ invites' = [w \in DOMAIN invites \cup {u} |->
                     IF w = u THEN [by |-> by, at |-> current] ELSE invites[w]]
    /\ UNCHANGED <<db, chain, traded, doing, mixed>>

FinishBlock ==
    /\ Idle
    /\ current < MaxBlocks
    /\ UNCHANGED <<db, invites, traded, doing, mixed, txs>>
    /\ Ledger!EndBlock
    /\ curveAt' = [h \in 0..current |-> IF h = current THEN db.curve ELSE curveAt[h]]
    /\ rewardsAt' = [h \in 0..current |-> IF h = current THEN db.rewards ELSE rewardsAt[h]]

-----------------------------------------------------------------------------
(* A fork to block h *)

Above(s, h) == {k \in DOMAIN s : s[k].at > h}

\* delRevert
Kept(s, h) == [k \in DOMAIN s \ Above(s, h) |-> s[k]]

Newest(S) == CHOOSE x \in S : \A y \in S : y <= x
Oldest(S) == CHOOSE x \in S : \A y \in S : x <= y

\* Mutant: the undo ends with the newest row instead of the oldest.
UndoneToNewest(c, rows, h) ==
    LET up == Above(rows, h) IN
    IF up = {} THEN c
    ELSE IF \E k \in up : rows[k].op = "deploy" THEN NoPump
    ELSE [c EXCEPT !.amt0 = rows[Newest(up)].amt0, !.amt1 = rows[Newest(up)].amt1]

\* pumpFork, by falling id: what the oldest row says is what remains.
UndoneCurve(c, rows, h) ==
    LET up == Above(rows, h) IN
    IF up = {} THEN c
    ELSE IF \E k \in up : rows[k].op = "deploy" THEN NoPump
    ELSE [c EXCEPT !.amt0 = rows[Oldest(up)].amt0, !.amt1 = rows[Oldest(up)].amt1]

CurveBack(h) == UndoneCurve(db.curve, db.reverts, h)

\* Rows above h that name the reward row of w.
Naming(w, row, rows, h) ==
    {k \in Above(rows, h) : rows[k].who = w /\ rows[k].by = row.by}

UndoneReward(w, row, rows, h) ==
    LET up == Naming(w, row, rows, h)
    IN  IF up = {} THEN row ELSE [row EXCEPT !.amt = rows[Oldest(up)].amt]

RewardsBack(h) ==
    [w \in DOMAIN db.rewards |-> UndoneReward(w, db.rewards[w], db.rewardReverts, h)]

\* inviteFork
InvitesBack(h) ==
    [w \in {x \in DOMAIN invites : invites[x].at <= h} |-> invites[w]]

\* delInfo, drc20Fork, meme20Fork, pumpFork, swapV2Fork, inviteFork, delRevert:
\* pump_info rows and pools of later blocks are deleted, the rest restored.
Fork(h) ==
    /\ Idle
    /\ db' = [bal |-> balAt[h],
              curve |-> CurveBack(h),
              pools |-> {p \in db.pools : p.at <= h},
              reverts |-> Kept(db.reverts, h),
              rewards |-> RewardsBack(h),
              rewardReverts |-> Kept(db.rewardReverts, h)]
    /\ invites' = InvitesBack(h)
    /\ traded' = {r \in traded : r.at <= h}
    /\ balAt' = [g \in 0..(h - 1) |-> balAt[g]]
    /\ current' = h
    /\ curveAt' = [g \in 0..(h - 1) |-> curveAt[g]]
    /\ rewardsAt' = [g \in 0..(h - 1) |-> rewardsAt[g]]
    /\ UNCHANGED <<doing, mixed, txs>>

PumpNext ==
    \/ \E u \in Users, o \in Deploys \cup Trades : Begin(u, o)
    \/ Execute
    \/ Drop
    \/ \E u \in Users, a \in Accounts, amt \in Gifts :
          MemeTransfer(u, a, amt) \/ DogeTransfer(u, a, amt)
    \/ \E u \in Users, by \in Accounts : Invite(u, by)
    \/ FinishBlock
    \/ \E h \in DOMAIN balAt : Fork(h)

PumpSpec == PumpInit /\ [][PumpNext]_pumpVars

-----------------------------------------------------------------------------
(* Properties *)

Open == db.curve # NoPump /\ db.pools = {}

Covered(bal, c) ==
    /\ c.amt0 <= bal[MEME][Reserves]
    /\ c.amt1 <= DogeInit + bal[WDOGE][Reserves]

\* The curve, which is counted up and down on its own, never promises what the
\* reserves do not have: no more memes, and of the DOGE no more than was paid
\* in on top of the DogeInit nobody paid (PumpTrade against TransferDrc20 and
\* TransferMeme20; fees, presents and forks included).
CurveCovered == Open => Covered(db.bal, db.curve)

\* If all holders of a token without a reserve sold what they have, in one sale
\* or in many, the reserves could pay: DogeInit is never sold.
HoldersCanBePaid ==
    Open /\ db.curve.reserve = 0 =>
        LET held == MemeMax - db.curve.amt0
        IN  Out(db.curve, MEME, held) <= db.bal[WDOGE][Reserves]

\* A fork gives back the curve of the end of the block it returns to, whatever
\* trades, deploys and earlier forks came since (pumpFork over pump_revert, next
\* to the two ledgers' journals); and the rewards, of those holders who have had
\* one inviter only.
ForkRestoresCurve ==
    [][current' < current =>
         /\ db'.curve = curveAt[current']
         /\ \A w \in DOMAIN rewardsAt[current'] :
               w \notin mixed => db'.rewards[w] = rewardsAt[current'][w]]_pumpVars

\* "pump inner plate has been completed" (verifyPumpTrade): a token that is not
\* traded any more because it is complete has become a pool.
CompletedIsFinished ==
    db.curve # NoPump /\ db.curve.amt1 >= TradeMax => db.pools # {}

-----------------------------------------------------------------------------
(* The inductive invariant of the properties *)

PerHolder(rows, S) == DOMAIN rows \subseteq Users /\ rows \in [DOMAIN rows -> S]

\* No row is younger than the one after it, none of a later block.
Dated(rows) ==
    \A k, l \in DOMAIN rows : k <= l => rows[k].at <= rows[l].at /\ rows[l].at <= current

\* Without a reserve, the product of the curve stays above its first value.
ProductKept(c) == c.reserve = 0 => c.amt0 * c.amt1 >= DogeInit * MemeMax

\* Of the tables: the journal of the curve begins with its deploy and has no
\* other, every credit is of a row, and the curve is covered until it is a pool.
TablesInv(s) ==
    /\ s \in [bal : Books, curve : Curves \cup {NoPump}, pools : SUBSET Pools,
              reverts : Seq(Reverts), rewards : {s.rewards},
              rewardReverts : Seq(RewardReverts)]
    /\ PerHolder(s.rewards, Rewards)
    /\ Dated(s.reverts) /\ Dated(s.rewardReverts)
    /\ s.curve = NoPump <=> s.reverts = <<>>
    /\ \A k \in DOMAIN s.reverts : s.reverts[k].op = "deploy" <=> k = 1
    /\ \A k \in DOMAIN s.rewardReverts : s.rewardReverts[k].who \in DOMAIN s.rewards
    /\ s.curve # NoPump => ProductKept(s.curve) /\ (s.pools = {} => Covered(s.bal, s.curve))

\* Of every finished block: the journals lead back to its curve and rewards, and
\* its balances covered its curve, if that was not a pool yet.
LeadsBack(h) ==
    /\ CurveBack(h) = curveAt[h]
    /\ \A w \in DOMAIN rewardsAt[h] :
          /\ w \in DOMAIN db.rewards
          /\ w \notin mixed => RewardsBack(h)[w] = rewardsAt[h][w]
    /\ curveAt[h] # NoPump =>
          /\ ProductKept(curveAt[h])
          /\ (\A p \in db.pools : p.at > h) => Covered(balAt[h], curveAt[h])

PumpInv ==
    /\ TablesInv(db) /\ \A p \in db.pools : p.at <= current
    /\ PerHolder(invites, Invites)
    /\ doing \in {NoOp} \cup [who : Users, op : Deploys \cup Trades]
    /\ current \in Nat
    /\ balAt \in [0..(current - 1) -> Books]
    /\ curveAt \in [0..(current - 1) -> Curves \cup {NoPump}]
    /\ DOMAIN rewardsAt = 0..(current - 1)
    /\ Mixed(db) \subseteq mixed
    /\ \A h \in 0..(current - 1) : LeadsBack(h)
=============================================================================
