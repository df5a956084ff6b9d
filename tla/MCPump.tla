------------------------------- MODULE MCPump -------------------------------
(***************************************************************************)
(* A curve of 12 memes and 2 DOGE, small enough for all of it to be        *)
(* bought, with a fee of a third so that half of it can be nothing.        *)
(***************************************************************************)
EXTENDS Pump, TLC

CONSTANTS u, v, r, f, p

MCDeploys == {[op |-> "deploy", reserve |-> 0, first |-> 0, doge |-> FALSE],
              [op |-> "deploy", reserve |-> 0, first |-> 3, doge |-> TRUE],
              [op |-> "deploy", reserve |-> 1, first |-> 0, doge |-> FALSE]}

Trade(t, a, m, d) == [op |-> "trade", tick |-> t, amt |-> a, min |-> m, doge |-> d]

MCTrades == {Trade(WDOGE, 6, 0, TRUE), Trade(WDOGE, 3, 4, FALSE),
             Trade(WDOGE, 9, 0, TRUE), Trade(MEME, 4, 2, FALSE),
             Trade(MEME, 6, 0, TRUE)}

MCWealth == (u :> 3) @@ (v :> 6) @@ (r :> 0) @@ (f :> 0) @@ (p :> 0)
=============================================================================
