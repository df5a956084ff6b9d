------------------------------- MODULE Deploys -------------------------------
(***************************************************************************)
(* Three ways to deploy a drc-20 token share the table drc20_collect and   *)
(* the journal drc20_revert: box-v1, cross and drc-20 itself. A fork       *)
(* undoes the ledger first, then pools, boxes and wrapped tokens, each by  *)
(* its own journal (explorer/fork.go:74-159).                              *)
(***************************************************************************)
EXTENDS Box, Cross

CONSTANTS
    Users,         \* addresses that send inscriptions
    BoxDeploys,    \* box deploys: tick0, tick1, max, amt0, liqamt
    Amounts,       \* amounts that inscriptions name
    MaxHeight,     \* bound: blocks
    MaxOps         \* bound: inscriptions executed

Deploying == [tick0 : BoxTicks, tick1 : Ticks, max : Nat, amt0 : Nat, liqamt : Nat]

\* Functions on part of D.
PartlyOn(D, R) == UNION {[S -> R] : S \in SUBSET D}

\* Rows of box_collect, box_collect_address, box_revert, and of cross_collect with
\* its row of cross_revert.
BoxRows == [tick1 : Ticks, amt0 : Nat, liqamt : Nat, finish : Nat]
ShareRows == [tick : BoxTicks, holder : Users, amt : Nat, at : Nat]
BoxLogRows == [op : {"deploy", "finish"}, tick : BoxTicks, at : Nat]
CrossRows == [admin : Users, at : Nat]

\* collect: drc20_collect, tick -> amt_sum; bal: drc20_collect_address; log:
\* drc20_revert; pools: those that boxes finished in, tick0 -> block.
Tables ==
    [collect : PartlyOn(Ticks, Nat),
     bal     : [Ticks -> [Accounts -> Nat]],
     log     : Seq(LogRows),
     boxes   : PartlyOn(BoxTicks, BoxRows),
     shares  : Seq(ShareRows),
     boxlog  : Seq(BoxLogRows),
     pools   : PartlyOn(BoxTicks, Nat),
     cross   : PartlyOn(Wrapped, CrossRows)]

ASSUME DeploysAssumption ==
    /\ Users \subseteq Accounts
    /\ \A t \in BoxTicks : {BoxReserve[t], PoolReserve[t]} \cap Users = {}
    /\ Wrapped \cap (BoxTicks \cup {LP[t] : t \in BoxTicks}) = {}
    /\ BoxDeploys \subseteq Deploying
    /\ Amounts \subseteq Nat
    /\ {MaxHeight, MaxOps} \subseteq Nat
    /\ Stuck \notin Tables

VARIABLES
    db,         \* the tables
    current,    \* Explorer.currentHeight
    ops,        \* inscriptions executed so far
    dbAt,       \* ghost: the tables at the end of each finished block
    plain,      \* ghost: tokens that drc-20 deploys made
    left,       \* ghost: rows of box_revert up to here are of abandoned blocks
    spoilt      \* ghost: ticks a fork undid by a row of an abandoned block

deployVars == <<db, current, ops, dbAt, plain, left, spoilt>>

DeploysInit ==
    /\ db = [collect |-> [t \in DOMAIN Minted |-> Supply(Minted, t)],
             bal |-> [t \in Ticks |-> IF t \in DOMAIN Minted THEN Minted[t]
                                      ELSE [a \in Accounts |-> 0]],
             log |-> <<>>, boxes |-> [t \in {} |-> 0], shares |-> <<>>, boxlog |-> <<>>,
             pools |-> [t \in {} |-> 0], cross |-> [t \in {} |-> 0]]
    /\ current = 0
    /\ ops = 0
    /\ dbAt = [h \in {} |-> db]
    /\ plain = DOMAIN Minted
    /\ left = {}
    /\ spoilt = {}

\* An inscription's database transaction is committed.
Carry(s) ==
    /\ ops < MaxOps
    /\ ops' = ops + 1
    /\ s # Stuck
    /\ db' = s
    /\ UNCHANGED <<current, dbAt, left, spoilt>>

\* verifyDeploy, drc20Deploy: no journal gets a row.
Drc20Deploy(t) ==
    /\ ~HasToken(db, t)
    /\ Carry(NewToken(db, t))
    /\ plain' = plain \cup {t}

\* A drc-20 transfer, to reserves as well.
Drc20Transfer(t, from, to, amt) ==
    /\ CanMove(db.bal, t, from, to, amt)
    /\ Carry(TransferDrc20(db, t, from, to, amt, current))
    /\ UNCHANGED plain

\* executeBoxV1.
Box(u) ==
    /\ \/ \E d \in BoxDeploys :
             /\ CanBoxDeploy(db, d)
             /\ Carry(BoxDeploy(db, d, current))
       \/ \E t \in BoxTicks, amt \in Amounts :
             /\ CanBoxMint(db, t, u, amt)
             /\ Carry(BoxMint(db, t, u, amt, current))
    /\ UNCHANGED plain

\* executeCross.
Cross(u) ==
    /\ \/ \E t \in Wrapped :
             /\ CanCrossDeploy(db, t)
             /\ Carry(CrossDeploy(db, t, u, current))
       \/ \E t \in Ticks, amt \in Amounts :
             \/ /\ CanCrossMint(db, t, u, amt)
                /\ \E to \in Users : Carry(CrossMint(db, t, to, amt, current))
             \/ /\ CanCrossBurn(db, t, u, amt)
                /\ Carry(CrossBurn(db, t, u, amt, current))
    /\ UNCHANGED plain

NextBlock ==
    /\ current < MaxHeight
    /\ current' = current + 1
    /\ dbAt' = [h \in 0..current |-> IF h = current THEN db ELSE dbAt[h]]
    /\ UNCHANGED <<db, ops, plain, left, spoilt>>

\* fork, in its order; an undo that is refused refuses the whole.
Forked(h) ==
    LET undone == drc20Fork(db, h)
    IN  IF undone = Stuck THEN Stuck
        ELSE KeepLog(crossFork(boxFork(swapFork(undone, h), h), h), h)

\* Ticks that a fork to h undoes by a row of an abandoned block.
Stale(h) == {db.boxlog[k].tick : k \in RowsAbove(db.boxlog, h) \cap left}

Fork(h) ==
    /\ Forked(h) # Stuck
    /\ db' = Forked(h)
    /\ current' = h
    /\ dbAt' = [g \in 0..(h - 1) |-> dbAt[g]]
    /\ spoilt' = spoilt \cup Stale(h)
    /\ left' = left \cup RowsAbove(db.boxlog, h)
    /\ plain' = plain \cap DOMAIN db'.collect
    /\ UNCHANGED ops

DeploysNext ==
    \/ \E t \in BoxTicks : Drc20Deploy(t)
    \/ \E t \in Ticks, from \in Users, to \in Accounts, amt \in Amounts :
          Drc20Transfer(t, from, to, amt)
    \/ \E u \in Users : Box(u) \/ Cross(u)
    \/ NextBlock
    \/ \E h \in DOMAIN dbAt : Fork(h)

DeploysSpec == DeploysInit /\ [][DeploysNext]_deployVars

-----------------------------------------------------------------------------
(* Properties. A row of box_revert that a fork leaves behind names a block *)
(* above the ancestor, and a later fork obeys it, whatever the tick means  *)
(* by then: such ticks are set aside as spoilt, with their pools' tokens.  *)

Lost(S) == S \cup {LP[t] : t \in S}

\* Who paid into a box that is not finished is covered by its reserves, though
\* mints, gifts and forks count them in three tables (BoxMint, boxFork).
BoxesCovered ==
    \A t \in DOMAIN db.boxes \ DOMAIN db.pools :
        {t, db.boxes[t].tick1} \cap Lost(spoilt) = {} =>
            PaidIn(db, t) <= db.bal[db.boxes[t].tick1][BoxReserve[t]]

\* amt_sum is what the holders have between them, for tokens that forks delete
\* and deploys bring back (NewToken, boxFork, drc20Fork).
SupplyIsHeld ==
    \A t \in DOMAIN db.collect :
        t \notin Lost(spoilt) =>
            db.collect[t] = Supply(db.bal, t)

\* As long as no tick is spoilt a fork to any finished block goes through:
\* every journal row finds its token and its balances (drc20Fork before
\* swapFork, boxFork and crossFork).
ForkNeverRefused == spoilt = {} => \A h \in DOMAIN dbAt : drc20Fork(db, h) # Stuck

\* A fork gives back the balances, wrapped tokens and contributions of the
\* block returned to, and its boxes, pools and tokens but for the spoilt ones;
\* only the tokens of drc-20 deploys outlive their block.
ForkRestores ==
    [][current' < current =>
         LET was == dbAt[current'] IN
             /\ db'.cross = was.cross /\ db'.shares = was.shares /\ db'.log = was.log
             /\ \A t \in Ticks \ Lost(spoilt') :
                   /\ db'.bal[t] = was.bal[t]
                   /\ HasToken(db', t) <=> HasToken(was, t) \/ t \in plain
                   /\ (t \in DOMAIN db'.boxes) <=> (t \in DOMAIN was.boxes)
                   /\ (t \in DOMAIN db'.pools) <=> (t \in DOMAIN was.pools)]_deployVars

=============================================================================
