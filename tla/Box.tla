--------------------------------- MODULE Box ---------------------------------
(***************************************************************************)
(* Boxes, box-v1 (explorer/box.go, storage/box.go): a deploy mints the     *)
(* whole of a new token to the box's reserves address; mints pay another   *)
(* token in, and the mint that finishes the box makes a swap pool of the   *)
(* two tokens and shares amt0 out among all who paid in.                   *)
(*                                                                         *)
(* ConvertBox never sets LiqBlock, so no row has one: the finish and the   *)
(* refund of BoxDeployScheduled, at the block LiqBlock, cannot come about. *)
(***************************************************************************)
EXTENDS Tokens

CONSTANTS
    BoxTicks,        \* names that boxes take
    BoxReserve,      \* tick0 -> the script hash of "<tick0>--BOX"
    PoolReserve,     \* tick0 -> the reserves of the pool it finishes in
    LP,              \* tick0 -> the liquidity token of that pool
    MINI_LIQUIDITY

ASSUME BoxAssumption ==
    /\ BoxTicks \subseteq Ticks \ DOMAIN Minted
    /\ \A t \in BoxTicks :
          /\ LP[t] \in Ticks \ (BoxTicks \cup DOMAIN Minted)
          /\ BoxReserve[t] \in Accounts /\ PoolReserve[t] \in Accounts
          /\ BoxReserve[t] # PoolReserve[t]
    /\ \A t, x \in BoxTicks :
          t # x => BoxReserve[t] # BoxReserve[x] /\ LP[t] # LP[x]
    /\ MINI_LIQUIDITY \in Nat

With(f, t, v) == [x \in DOMAIN f \cup {t} |-> IF x = t THEN v ELSE f[x]]

Noted(s, op, t, h) ==
    [s EXCEPT !.boxlog = Append(@, [op |-> op, tick |-> t, at |-> h])]

-----------------------------------------------------------------------------
(* Deploy *)

\* VerifyBoxDeploy; box_collect gets no second row of a tick, because
\* drc20_collect would not.
CanBoxDeploy(s, d) ==
    /\ HasToken(s, d.tick1) /\ ~HasToken(s, d.tick0)
    /\ d.max >= 1 /\ d.liqamt >= 1

BoxDeploy(s, d, h) ==
    LET minted == MintDrc20(NewToken(s, d.tick0), d.tick0, BoxReserve[d.tick0], d.max, h)
        row == [tick1 |-> d.tick1, amt0 |-> d.amt0, liqamt |-> d.liqamt, finish |-> 0]
    IN  Noted([minted EXCEPT !.boxes = With(@, d.tick0, row)], "deploy", d.tick0, h)

-----------------------------------------------------------------------------
(* The finish: SwapCreate in the name of the reserves address, then the    *)
(* shares.                                                                 *)

Isqrt(n) == CHOOSE r \in 0..n : r * r <= n /\ (r + 1) * (r + 1) > n

FirstLiquidity(box) == Isqrt(box.amt0 * box.finish) - MINI_LIQUIDITY

\* A second pool of two ticks is refused by swap_liquidity.
CanCreatePool(s, t) ==
    LET box == s.boxes[t] IN
    /\ FirstLiquidity(box) > 0
    /\ t \notin DOMAIN s.pools
    /\ CanMove(s.bal, t, BoxReserve[t], PoolReserve[t], box.amt0)
    /\ CanMove(s.bal, box.tick1, BoxReserve[t], PoolReserve[t], box.finish)

SwapCreate(s, t, h) ==
    LET box == s.boxes[t]
        paid0 == TransferDrc20(s, t, BoxReserve[t], PoolReserve[t], box.amt0, h)
        paid1 == TransferDrc20(paid0, box.tick1, BoxReserve[t], PoolReserve[t],
                               box.finish, h)
        token == IF HasToken(paid1, LP[t]) THEN paid1 ELSE NewToken(paid1, LP[t])
        first == MintDrc20(token, LP[t], BoxReserve[t], FirstLiquidity(box), h)
    IN  [MintDrc20(first, LP[t], PoolReserve[t], MINI_LIQUIDITY, h)
           EXCEPT !.pools = With(@, t, h)]

PaidIn(s, t) ==
    SumFunction([k \in DOMAIN s.shares |-> IF s.shares[k].tick = t THEN s.shares[k].amt ELSE 0])

Part(s, r) == (r.amt * s.boxes[r.tick].amt0) \div PaidIn(s, r.tick)

\* Row by row; one that no transfer can pay stops the finish.
ShareOut(s, t, h) ==
    LET paid[k \in 0..Len(s.shares)] ==
            IF k = 0 THEN s
            ELSE LET w == paid[k - 1]
                     r == s.shares[k]
                 IN  IF r.tick # t THEN w
                     ELSE IF w # Stuck /\ CanMove(w.bal, t, BoxReserve[t], r.holder, Part(s, r))
                     THEN TransferDrc20(w, t, BoxReserve[t], r.holder, Part(s, r), h)
                     ELSE Stuck
    IN  paid[Len(s.shares)]

BoxFinish(s, t, h) ==
    IF ~CanCreatePool(s, t) THEN Stuck
    ELSE LET shared == ShareOut(SwapCreate(s, t, h), t, h)
         IN  IF shared = Stuck THEN Stuck ELSE Noted(shared, "finish", t, h)

-----------------------------------------------------------------------------
(* Mint *)

\* VerifyBoxMint, and the transfer of BoxMint.
CanBoxMint(s, t, u, amt) ==
    /\ amt >= 1
    /\ t \in DOMAIN s.boxes
    /\ s.boxes[t].finish + amt <= s.boxes[t].liqamt
    /\ CanMove(s.bal, s.boxes[t].tick1, u, BoxReserve[t], amt)

\* A mint finishes the box when what was counted before and the mint make up
\* all that the reserves hold, so the first one does unless somebody sent the
\* reserves some tick1 before. liqamt is not asked.
BoxMint(s, t, u, amt, h) ==
    LET paid == TransferDrc20(s, s.boxes[t].tick1, u, BoxReserve[t], amt, h)
        held == paid.bal[s.boxes[t].tick1][BoxReserve[t]]
        counted == s.boxes[t].finish + amt
        next == [paid EXCEPT !.boxes[t].finish = held,
                             !.shares = Append(@, [tick |-> t, holder |-> u,
                                                   amt |-> amt, at |-> h])]
    IN  IF counted >= held
        THEN BoxFinish([next EXCEPT !.boxes[t].finish = counted], t, h)
        ELSE next

-----------------------------------------------------------------------------
(* Forks *)

\* swapFork: the rows and the liquidity tokens of pools made above h.
swapFork(s, h) ==
    LET gone == {t \in DOMAIN s.pools : s.pools[t] > h}
        lps == {LP[t] : t \in gone}
    IN  [s EXCEPT !.pools = [t \in DOMAIN @ \ gone |-> s.pools[t]],
                  !.collect = [t \in DOMAIN @ \ lps |-> s.collect[t]],
                  !.bal = [t \in Ticks |-> IF t \in lps THEN [a \in Accounts |-> 0]
                                           ELSE s.bal[t]]]

\* What the rows of box_revert above h say was done.
Reverted(s, op, h) ==
    {s.boxlog[k].tick : k \in {i \in RowsAbove(s.boxlog, h) : s.boxlog[i].op = op}}

\* Every box's finish becomes what its reserves hold.
Recounted(s) ==
    [t \in DOMAIN s.boxes |->
        [s.boxes[t] EXCEPT !.finish = s.bal[s.boxes[t].tick1][BoxReserve[t]]]]

\* Mutant: the shares stay.
BoxForkShares(s, h) ==
    [s EXCEPT !.boxes = [t \in DOMAIN @ \ Reverted(s, "deploy", h) |-> Recounted(s)[t]],
              !.collect = [t \in DOMAIN @ \ Reverted(s, "deploy", h) |-> @[t]],
              !.pools = [t \in DOMAIN @ \ Reverted(s, "finish", h) |-> @[t]]]

\* boxFork: deletions, whose order does not matter. The rows of box_revert
\* stay: delRevert passes them over.
boxFork(s, h) ==
    [s EXCEPT !.boxes = [t \in DOMAIN @ \ Reverted(s, "deploy", h) |-> Recounted(s)[t]],
              !.collect = [t \in DOMAIN @ \ Reverted(s, "deploy", h) |-> @[t]],
              !.pools = [t \in DOMAIN @ \ Reverted(s, "finish", h) |-> @[t]],
              !.shares = RowsUpTo(@, h)]
=============================================================================
