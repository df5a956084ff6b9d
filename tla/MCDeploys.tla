------------------------------ MODULE MCDeploys ------------------------------
(***************************************************************************)
(* One box of four units, two of them for the pool; one wrapped token; two *)
(* holders of the token that boxes take in.                                *)
(***************************************************************************)
EXTENDS Deploys, TLC

CONSTANTS cardi, meow, meowLP, wbtc, a, b, reserve, pool

MCMinted == cardi :> [x \in {a, b, reserve, pool} |-> IF x = a THEN 3 ELSE IF x = b THEN 1 ELSE 0]
MCReserve == meow :> reserve
MCPool == meow :> pool
MCLP == meow :> meowLP
MCDeploy == {[tick0 |-> meow, tick1 |-> cardi, max |-> 4, amt0 |-> 2, liqamt |-> 3]}
=============================================================================
