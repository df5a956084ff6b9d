------------------------------- MODULE MCStake -------------------------------
(***************************************************************************)
(* UNIX and the liquidity token of UNIX and WDOGE are staked; the pool has *)
(* UNIX, WDOGE and the liquidity token to give. Two holders.               *)
(***************************************************************************)
EXTENDS Stake, TLC

CONSTANTS unix, wdoge, lp, a, b, pool, r1, r2

MCReserve == (unix :> r1) @@ (lp :> r2)
Of(m, n, p) == [x \in {a, b, pool, r1, r2} |->
                  CASE x = a -> m [] x = b -> n [] x = pool -> p [] OTHER -> 0]
MCFunds == (unix :> Of(1, 0, 2)) @@ (lp :> Of(0, 1, 1)) @@ (wdoge :> Of(0, 0, 1))
=============================================================================
