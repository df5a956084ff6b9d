---------------------------- MODULE MCConsensus ----------------------------
(***************************************************************************)
(* Two holders with one stake each, two unstakes of the first stake and    *)
(* one of the second.                                                      *)
(***************************************************************************)
EXTENDS Consensus, TLC

CONSTANTS C, m, n, s1, s2, r1, r2, x1, x2, y1

MCHolder  == (s1 :> m) @@ (s2 :> n)
MCAmt     == (s1 :> 20) @@ (s2 :> 30)
MCReserve == (s1 :> r1) @@ (s2 :> r2)
MCSender  == (x1 :> m) @@ (x2 :> n) @@ (y1 :> n)
MCNames   == (x1 :> s1) @@ (x2 :> s1) @@ (y1 :> s2)
MCFunds   == C :> [a \in {m, n, r1, r2} |-> CASE a = m -> 21 [] a = n -> 30 [] OTHER -> 0]
=============================================================================
