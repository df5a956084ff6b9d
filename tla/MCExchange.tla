----------------------------- MODULE MCExchange -----------------------------
(***************************************************************************)
(* Two users with one order each, at prices that do not divide.            *)
(***************************************************************************)
EXTENDS Exchange, TLC

CONSTANTS A, B, m, n, e1, e2, r1, r2

MCOffer ==
    (e1 :> [tick0 |-> A, tick1 |-> B, amt0 |-> 3, amt1 |-> 2, holder |-> m])
    @@ (e2 :> [tick0 |-> B, tick1 |-> A, amt0 |-> 2, amt1 |-> 3, holder |-> n])

MCReserve == (e1 :> r1) @@ (e2 :> r2)

MCFunds ==
    (A :> [a \in {m, n, r1, r2} |-> CASE a = m -> 4 [] a = n -> 1 [] OTHER -> 0])
    @@ (B :> [a \in {m, n, r1, r2} |-> CASE a = n -> 3 [] OTHER -> 0])
=============================================================================
