-------------------------------- MODULE Stake --------------------------------
(***************************************************************************)
(* Staking, stake-v1 (explorer/stake.go, storage/stake.go,                 *)
(* StakeStakeV1 ... StakeGetRewardV1 of storage/common.go). A stake moves  *)
(* tokens to the tick's reserves and adds them to the holder's position;   *)
(* getallreward pays what has accrued since the last claim out of one pool *)
(* address. Two journals, stake_revert and stake_reward_revert, stand next *)
(* to the ledger's.                                                        *)
(*                                                                         *)
(* Rewards are accrued by a process outside the repository, which writes   *)
(* the column reward; the indexer writes received_reward.                  *)
(***************************************************************************)
EXTENDS Balances, FiniteSetsExt

CONSTANTS
    Ticks, UNIX, WDOGE,
    LpWdoge,         \* UNIX-SWAP-WDOGE(WRAPPED-DOGE)
    StakeTicks,      \* ticks with a row in stake_collect
    Users,           \* addresses that send inscriptions
    Pool,            \* stakePoolAddress
    Reserve,         \* tick -> the script hash of "<tick>--STAKE"
    Funds,           \* the ledger to begin with
    Amounts,         \* amounts that inscriptions name
    Accruals,        \* what a position accrues at a time
    WritesBack,      \* gorm's Update sets the field of the struct as well
    None,
    MaxHeight,       \* bound: blocks
    MaxOps,          \* bound: rows in the journals
    MaxReward,       \* bound: reward of a position
    MaxGifts         \* bound: transfers

Accounts == Users \cup {Pool} \cup {Reserve[t] : t \in StakeTicks}
Books == [Ticks -> [Accounts -> Nat]]
\* stake_collect_address: tick and holder -> the row. Rows are never deleted.
Positions == [amt : Nat, reward : Nat, received : Nat]
IsTable(p) == DOMAIN p \subseteq StakeTicks \X Users /\ p \in [DOMAIN p -> Positions]
Reverts == [op : {"stake", "unstake"}, tick : StakeTicks, holder : Users,
            amt : Nat, at : Nat]
RewardReverts == [tick : StakeTicks, holder : Users, amt : Nat, at : Nat]

ASSUME StakeAssumption ==
    /\ {UNIX, WDOGE} \subseteq Ticks /\ UNIX # WDOGE
    /\ StakeTicks \subseteq Ticks /\ LpWdoge \notin {UNIX, WDOGE}
    /\ IsFiniteSet(Users) /\ Pool \notin Users
    /\ \A t \in StakeTicks : Reserve[t] \notin Users \cup {Pool}
    /\ \A t, s \in StakeTicks : Reserve[t] = Reserve[s] => t = s
    /\ Funds \in Books
    /\ Amounts \subseteq Nat /\ Accruals \subseteq Nat
    /\ WritesBack \in BOOLEAN
    /\ None \notin Nat
    /\ {MaxHeight, MaxOps, MaxReward, MaxGifts} \subseteq Nat

VARIABLES
    bal,        \* the ledger: tick -> address -> amount
    ended,      \* the ledger at the end of each finished block
    height,     \* Explorer.currentHeight
    totals,     \* stake_collect.amt
    positions,  \* stake_collect_address
    reverts,    \* stake_revert: id -> row
    rewards,    \* stake_reward_revert: id -> row
    nextId,     \* the next id of either journal
    forkTo,     \* fork's argument while its transaction is open, or None
    work,       \* totals and positions in that transaction, or None
    cursor,     \* rows from this id on have been undone
    gifts,      \* transfers so far
    paid,       \* ghost: tick, holder -> what claims on this chain have paid
    stakesAt    \* ghost: totals, positions and paid at the ends of blocks

journals == <<reverts, rewards, nextId>>
forking == <<forkTo, work, cursor>>
vars == <<bal, ended, height, totals, positions, journals, forking, gifts, paid, stakesAt>>

Ledger == INSTANCE CheckpointLedger
          WITH Ledgers <- Books, EmptyLedger <- Funds,
               now <- bal, atEnd <- ended, height <- height

-----------------------------------------------------------------------------
(* The positions: one table in, the next one out *)

NewPosition(amt) == [amt |-> amt, reward |-> 0, received |-> 0]

\* Mutant: a second stake replaces the position.
ReplacePosition(t, tick, u, amt) ==
    [totals |-> [t.totals EXCEPT ![tick] = @ + amt],
     positions |-> [k \in DOMAIN t.positions \cup {<<tick, u>>} |->
                      IF k = <<tick, u>> THEN NewPosition(amt) ELSE t.positions[k]]]

StakeStakeV1(t, tick, u, amt) ==
    [totals |-> [t.totals EXCEPT ![tick] = @ + amt],
     positions |-> [k \in DOMAIN t.positions \cup {<<tick, u>>} |->
                      IF k # <<tick, u>> THEN t.positions[k]
                      ELSE IF k \in DOMAIN t.positions
                           THEN [t.positions[k] EXCEPT !.amt = @ + amt]
                           ELSE NewPosition(amt)]]

CanUnStake(t, tick, u, amt) ==
    /\ amt <= t.totals[tick]
    /\ <<tick, u>> \in DOMAIN t.positions
    /\ amt <= t.positions[<<tick, u>>].amt

StakeUnStakeV1(t, tick, u, amt) ==
    [totals |-> [t.totals EXCEPT ![tick] = @ - amt],
     positions |-> [t.positions EXCEPT ![<<tick, u>>].amt = @ - amt]]

Stakes == [totals |-> totals, positions |-> positions]

-----------------------------------------------------------------------------

Init ==
    /\ Ledger!AbsInit
    /\ totals = [t \in StakeTicks |-> 0]
    /\ positions = [k \in {} |-> NewPosition(0)]
    /\ reverts = [i \in {} |-> 0] /\ rewards = [i \in {} |-> 0]
    /\ nextId = 1
    /\ forkTo = None /\ work = None /\ cursor = 0
    /\ gifts = 0
    /\ paid = [k \in StakeTicks \X Users |-> 0]
    /\ stakesAt = [h \in {} |-> 0]

Scanning == forkTo = None

Journal(op, tick, u, amt) ==
    /\ nextId <= MaxOps
    /\ reverts' = [i \in DOMAIN reverts \cup {nextId} |->
                     IF i # nextId THEN reverts[i]
                     ELSE [op |-> op, tick |-> tick, holder |-> u, amt |-> amt,
                           at |-> height]]
    /\ nextId' = nextId + 1
    /\ UNCHANGED rewards

\* verifyStakeStake, StakeStake.
Stake(tick, u, amt) ==
    /\ Scanning
    /\ tick \in StakeTicks
    /\ CanMove(bal, tick, u, Reserve[tick], amt)
    /\ bal' = Move(bal, tick, u, Reserve[tick], amt)
    /\ LET t == StakeStakeV1(Stakes, tick, u, amt)
       IN  totals' = t.totals /\ positions' = t.positions
    /\ Journal("stake", tick, u, amt)
    /\ UNCHANGED <<ended, height, forking, gifts, paid, stakesAt>>

\* verifyStakeUnStake, StakeUnStake.
UnStake(tick, u, amt) ==
    /\ Scanning
    /\ CanUnStake(Stakes, tick, u, amt)
    /\ CanMove(bal, tick, Reserve[tick], u, amt)
    /\ bal' = Move(bal, tick, Reserve[tick], u, amt)
    /\ LET t == StakeUnStakeV1(Stakes, tick, u, amt)
       IN  totals' = t.totals /\ positions' = t.positions
    /\ Journal("unstake", tick, u, amt)
    /\ UNCHANGED <<ended, height, forking, gifts, paid, stakesAt>>

-----------------------------------------------------------------------------
(* Rewards *)

Owed(p) == p.reward - p.received

\* The other ticks the pool address holds: each is paid in the proportion of
\* the UNIX that is.
Others == {t \in Ticks \ {UNIX, WDOGE} : bal[t][Pool] # 0}

\* StakeGetRewardV1: tick -> amount. Without UNIX in the pool the division by
\* a missing row ends the process.
Gives(tick, owed) ==
    IF tick = LpWdoge THEN [t \in {WDOGE} |-> owed]
    ELSE [t \in Others \cup {UNIX} |->
            IF t = UNIX THEN owed ELSE (bal[t][Pool] * owed) \div bal[UNIX][Pool]]

Divides(tick) == tick = LpWdoge \/ Others = {} \/ bal[UNIX][Pool] # 0

\* Mutant: the journal row names the whole reward.
RecordedAll(p) == p.reward

\* StakeRewardV1 computes the amount of its journal row from the struct it has
\* just given to Update.
Recorded(p) == p.reward - (IF WritesBack THEN p.reward ELSE p.received)

\* verifyStakeGetAllReward, StakeGetReward: a transfer for each tick, all of
\* them or none, and StakeRewardV1.
GetAllReward(tick, u) ==
    LET k == <<tick, u>> IN
    /\ Scanning
    /\ nextId <= MaxOps
    /\ k \in DOMAIN positions
    /\ Divides(tick)
    /\ LET gives == Gives(tick, Owed(positions[k])) IN
          /\ \A t \in DOMAIN gives : CanMove(bal, t, Pool, u, gives[t])
          /\ bal' = [t \in Ticks |-> IF t \in DOMAIN gives
                                     THEN Move(bal, t, Pool, u, gives[t])[t]
                                     ELSE bal[t]]
    /\ positions' = [positions EXCEPT ![k].received = positions[k].reward]
    /\ rewards' = [i \in DOMAIN rewards \cup {nextId} |->
                     IF i # nextId THEN rewards[i]
                     ELSE [tick |-> tick, holder |-> u,
                           amt |-> Recorded(positions[k]), at |-> height]]
    /\ nextId' = nextId + 1
    /\ paid' = [paid EXCEPT ![k] = @ + Owed(positions[k])]
    /\ UNCHANGED <<ended, height, totals, reverts, forking, gifts, stakesAt>>

\* The process that accrues rewards.
Accrue(k, r) ==
    /\ Scanning
    /\ k \in DOMAIN positions
    /\ positions[k].reward + r <= MaxReward
    /\ positions' = [positions EXCEPT ![k].reward = @ + r]
    /\ UNCHANGED <<bal, ended, height, totals, journals, forking, gifts, paid, stakesAt>>

\* A drc-20 transfer, to the pool or to reserves as well.
Transfer(t, from, to, amt) ==
    /\ Scanning
    /\ gifts < MaxGifts
    /\ gifts' = gifts + 1
    /\ CanMove(bal, t, from, to, amt)
    /\ bal' = Move(bal, t, from, to, amt)
    /\ UNCHANGED <<ended, height, totals, positions, journals, forking, paid, stakesAt>>

NextBlock ==
    /\ Scanning
    /\ height < MaxHeight
    /\ Ledger!EndBlock
    /\ stakesAt' = [h \in 0..height |->
                      IF h = height
                      THEN [totals |-> totals, positions |-> positions, paid |-> paid]
                      ELSE stakesAt[h]]
    /\ UNCHANGED <<totals, positions, journals, forking, gifts, paid>>

-----------------------------------------------------------------------------
(* Forks: stakeFork in fork's transaction *)

BeginFork(h) ==
    /\ Scanning
    /\ forkTo' = h
    /\ work' = Stakes
    /\ cursor' = nextId
    /\ UNCHANGED <<bal, ended, height, totals, positions, journals, gifts, paid, stakesAt>>

NoFork ==
    /\ forkTo' = None
    /\ work' = None
    /\ cursor' = 0

Above(table) == {i \in DOMAIN table : table[i].at > forkTo}

\* The rows left to undo, the highest id first: those of stake_revert, then
\* those of stake_reward_revert.
Pending(table) == {i \in Above(table) : i < cursor}

UndoOk(r) == r.op = "stake" => CanUnStake(work, r.tick, r.holder, r.amt)

\* Mutant: unstakes are not undone.
UndoStake(r) ==
    IF r.op = "stake" THEN StakeUnStakeV1(work, r.tick, r.holder, r.amt) ELSE work

Undo(r) ==
    IF r.op = "stake" THEN StakeUnStakeV1(work, r.tick, r.holder, r.amt)
    ELSE StakeStakeV1(work, r.tick, r.holder, r.amt)

UndoNext ==
    /\ ~Scanning
    /\ Pending(reverts) # {}
    /\ LET i == Max(Pending(reverts)) IN
          /\ UndoOk(reverts[i])
          /\ work' = Undo(reverts[i])
          /\ cursor' = i
    /\ UNCHANGED <<bal, ended, height, totals, positions, journals, forkTo, gifts,
                   paid, stakesAt>>

\* received_reward is what is accrued now less the amount of the row; of
\* several rows of a position the oldest, written last, remains.
Received(k) ==
    LET rows == {i \in Above(rewards) : <<rewards[i].tick, rewards[i].holder>> = k}
    IN  IF rows = {} THEN work.positions[k].received
        ELSE work.positions[k].reward - rewards[Min(rows)].amt

\* The end of stakeFork, then delRevert, and the commit; the ledger has undone
\* its own journal. Info rows and stake_reward_info are not looked at here.
CommitFork ==
    /\ ~Scanning
    /\ Pending(reverts) = {}
    /\ Ledger!Rollback(forkTo)
    /\ totals' = work.totals
    /\ positions' = [k \in DOMAIN work.positions |->
                       [work.positions[k] EXCEPT !.received = Received(k)]]
    /\ reverts' = [i \in DOMAIN reverts \ Above(reverts) |-> reverts[i]]
    /\ rewards' = [i \in DOMAIN rewards \ Above(rewards) |-> rewards[i]]
    /\ paid' = stakesAt[forkTo].paid
    /\ stakesAt' = [g \in 0..(forkTo - 1) |-> stakesAt[g]]
    /\ UNCHANGED <<nextId, gifts>>
    /\ NoFork

\* An error, or the end of the process: the transaction is rolled back.
AbortFork ==
    /\ ~Scanning
    /\ UNCHANGED <<bal, ended, height, totals, positions, journals, gifts, paid, stakesAt>>
    /\ NoFork

-----------------------------------------------------------------------------

Next ==
    \/ \E t \in StakeTicks, u \in Users, amt \in Amounts : Stake(t, u, amt)
    \/ \E t \in StakeTicks, u \in Users, amt \in Amounts : UnStake(t, u, amt)
    \/ \E t \in StakeTicks, u \in Users : GetAllReward(t, u)
    \/ \E k \in StakeTicks \X Users, r \in Accruals : Accrue(k, r)
    \/ \E t \in Ticks, from \in Users, to \in Accounts, amt \in Amounts :
          Transfer(t, from, to, amt)
    \/ NextBlock
    \/ \E h \in DOMAIN ended : BeginFork(h)
    \/ UndoNext \/ CommitFork \/ AbortFork

Spec == Init /\ [][Next]_vars

-----------------------------------------------------------------------------
(* Properties *)

TypeOK ==
    /\ bal \in Books
    /\ height \in Nat
    /\ DOMAIN ended = 0..(height - 1) /\ DOMAIN stakesAt = DOMAIN ended
    /\ \A h \in DOMAIN ended :
          /\ ended[h] \in Books
          /\ stakesAt[h].totals \in [StakeTicks -> Nat]
          /\ IsTable(stakesAt[h].positions)
          /\ stakesAt[h].paid \in [StakeTicks \X Users -> Nat]
    /\ totals \in [StakeTicks -> Nat]
    /\ IsTable(positions)
    /\ nextId \in 1..(MaxOps + 1)
    /\ DOMAIN reverts \subseteq 1..(nextId - 1)
    /\ \A i \in DOMAIN reverts : reverts[i] \in Reverts /\ reverts[i].at <= height
    /\ DOMAIN rewards \subseteq 1..(nextId - 1)
    /\ \A i \in DOMAIN rewards : rewards[i] \in RewardReverts /\ rewards[i].at <= height
    /\ forkTo \in DOMAIN ended \cup {None}
    /\ ~Scanning => work \in [totals : [StakeTicks -> Nat],
                              positions : [DOMAIN positions -> Positions]]
    /\ cursor \in 0..nextId
    /\ paid \in [StakeTicks \X Users -> Nat]

AmountOf(p, k) == IF k \in DOMAIN p THEN p[k].amt ELSE 0

StakeOf(p, t) == SumFunction([u \in Users |-> AmountOf(p, <<t, u>>)])

\* Everybody can take his stake back: the positions of a tick add up to its
\* total, and its reserves hold that much, after forks that undo stakes and
\* unstakes in two journals (StakeStakeV1, StakeUnStakeV1, stakeFork).
Backed ==
    \A t \in StakeTicks :
        /\ StakeOf(positions, t) = totals[t]
        /\ totals[t] <= bal[t][Reserve[t]]

\* A reward is paid once: what the claims on this chain have paid is never
\* more than what counts as received, and that never more than what has
\* accrued, although a fork rewrites received_reward while the pool gets the
\* tokens back (StakeRewardV1, stakeFork).
NeverPaidTwice ==
    \A k \in DOMAIN positions :
        /\ paid[k] <= positions[k].received
        /\ positions[k].received <= positions[k].reward

\* A fork gives back the stakes of the block it returns to; a position made
\* since then is left with nothing in it (stakeFork, delRevert).
ForkRestoresStakes ==
    [][height' < height =>
         LET was == stakesAt[height'] IN
         /\ totals' = was.totals
         /\ \A k \in StakeTicks \X Users :
               AmountOf(positions', k) = AmountOf(was.positions, k)]_vars

\* What the rows ids of stake_revert have done to a position.
Change(r, k) ==
    IF <<r.tick, r.holder>> # k THEN 0 ELSE IF r.op = "stake" THEN r.amt ELSE -r.amt

NetOf(table, ids, k) ==
    SumFunction([i \in 1..MaxOps |-> IF i \in ids THEN Change(table[i], k) ELSE 0])

Between(table, g, h) == {i \in DOMAIN table : g < table[i].at /\ table[i].at <= h}

\* The rows after block g add up to what has changed since then: up to now, and
\* up to the end of every later block.
Recounted ==
    \A h \in DOMAIN stakesAt, k \in StakeTicks \X Users :
        /\ AmountOf(positions, k) =
              AmountOf(stakesAt[h].positions, k) + NetOf(reverts, Between(reverts, h, height), k)
        /\ \A g \in 0..(h - 1) :
              AmountOf(stakesAt[h].positions, k) =
                 AmountOf(stakesAt[g].positions, k) + NetOf(reverts, Between(reverts, g, h), k)

BackedThen ==
    \A h \in DOMAIN stakesAt : \A t \in StakeTicks :
        /\ StakeOf(stakesAt[h].positions, t) = stakesAt[h].totals[t]
        /\ stakesAt[h].totals[t] <= ended[h][t][Reserve[t]]

\* The rows that are left to undo make the difference between the tables of
\* the transaction and those of the block it returns to.
HalfUndone ==
    ~Scanning =>
        /\ \A t \in StakeTicks : StakeOf(work.positions, t) = work.totals[t]
        /\ \A k \in StakeTicks \X Users :
              AmountOf(work.positions, k) =
                 AmountOf(stakesAt[forkTo].positions, k)
                 + NetOf(reverts, Pending(reverts), k)
        /\ \A k \in DOMAIN positions :
              /\ work.positions[k].reward = positions[k].reward
              /\ work.positions[k].received = positions[k].received

\* Every row has its position, and what it says was received before the claim
\* covers what had been paid at the end of the blocks below.
Claimed ==
    /\ \A i \in DOMAIN reverts : <<reverts[i].tick, reverts[i].holder>> \in DOMAIN positions
    /\ \A k \in (StakeTicks \X Users) \ DOMAIN positions : paid[k] = 0
    /\ \A h \in DOMAIN stakesAt, k \in StakeTicks \X Users :
          /\ stakesAt[h].paid[k] <= paid[k]
          /\ \A g \in 0..(h - 1) : stakesAt[g].paid[k] <= stakesAt[h].paid[k]
    /\ \A i \in DOMAIN rewards :
          LET k == <<rewards[i].tick, rewards[i].holder>> IN
          /\ k \in DOMAIN positions
          /\ rewards[i].amt <= positions[k].reward
          /\ \A h \in DOMAIN stakesAt :
                rewards[i].at > h => stakesAt[h].paid[k] <= positions[k].reward - rewards[i].amt

StakeInv ==
    /\ TypeOK
    /\ Backed
    /\ NeverPaidTwice
    /\ Recounted
    /\ BackedThen
    /\ HalfUndone
    /\ Claimed
=============================================================================
