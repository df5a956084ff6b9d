------------------------------ MODULE MCSwapV2 ------------------------------
(***************************************************************************)
(* A pool of a meme token and WDOGE, small enough for rounding to matter.  *)
(***************************************************************************)
EXTENDS SwapV2, TLC

CONSTANTS B, W, P, D, m, n, q

Pairs(x, y) == (B :> x) @@ (W :> y)

NewPool        == [op |-> "create", amt |-> Pairs(2, 3), doge |-> FALSE]
NewPoolDoge    == [op |-> "create", amt |-> Pairs(2, 3), doge |-> TRUE]
Adding(x, y)   == [op |-> "add", amt |-> Pairs(x, y), min |-> Pairs(0, 0), doge |-> TRUE]
AddingMin      == [op |-> "add", amt |-> Pairs(1, 3), min |-> Pairs(1, 2), doge |-> FALSE]
Removing(x, d) == [op |-> "remove", liquidity |-> x, doge |-> d]
Buying         == [op |-> "swap", tick |-> W, amt |-> 4, min |-> 0, doge |-> TRUE]
Selling        == [op |-> "swap", tick |-> B, amt |-> 2, min |-> 1, doge |-> TRUE]

MCTxs == {<<NewPool>>, <<NewPoolDoge>>, <<NewPool, Removing(1, FALSE)>>,
          <<Adding(2, 3)>>, <<Adding(1, 4)>>, <<AddingMin>>,
          <<Removing(1, TRUE)>>, <<Removing(2, FALSE)>>,
          <<Buying>>, <<Selling>>, <<Buying, Selling>>}

MCFunds ==
    [t \in {B, W, P, D} |->
        [a \in {m, n, q} |-> IF t = B /\ a = m THEN 6
                             ELSE IF t = B /\ a = n THEN 2
                             ELSE IF t = W /\ a = m THEN 4 ELSE 0]]
=============================================================================
