------------------------------- MODULE MCSwap -------------------------------
(***************************************************************************)
(* A pool of a token and WDOGE, small enough for every rounding to matter: *)
(* AddingDust is taken in full, for liquidity that rounds to nothing.      *)
(***************************************************************************)
EXTENDS Swap, TLC

CONSTANTS B, W, m, n, p, P

Pairs(x, y) == (B :> x) @@ (W :> y)

NewPool    == [op |-> "create", amt |-> Pairs(2, 3), doge |-> TRUE]
Adding     == [op |-> "add", amt |-> Pairs(2, 3), min |-> Pairs(0, 0), doge |-> TRUE]
AddingMin  == [op |-> "add", amt |-> Pairs(1, 3), min |-> Pairs(1, 2), doge |-> FALSE]
AddingDust == [op |-> "add", amt |-> Pairs(1, 1), min |-> Pairs(0, 0), doge |-> TRUE]
Removing(x, d) == [op |-> "remove", liquidity |-> x, doge |-> d]
Buying     == [op |-> "swap", tick |-> W, amt |-> 4, min |-> 0, doge |-> TRUE]
Selling    == [op |-> "swap", tick |-> B, amt |-> 2, min |-> 1, doge |-> TRUE]
Plain      == [op |-> "swap", tick |-> B, amt |-> 1, min |-> 0, doge |-> FALSE]

MCTxs == {<<NewPool>>, <<Adding>>, <<AddingMin>>, <<AddingDust>>, <<Removing(1, TRUE)>>,
          <<Removing(2, FALSE)>>, <<Buying>>, <<Selling>>, <<Plain>>,
          <<Buying, Selling>>, <<NewPool, Adding>>}

MCFunds ==
    [bal |-> [t \in {B, W, P} |->
                [a \in {m, n, p} |-> IF t = B /\ a = m THEN 6
                                     ELSE IF t = B /\ a = n THEN 3
                                     ELSE IF t = W /\ a = n THEN 2 ELSE 0]],
     sum |-> (B :> 9) @@ (W :> 2) @@ (P :> 0)]
=============================================================================
