--------------------------- MODULE MCFileExchange ---------------------------
(***************************************************************************)
(* One file: m sells it, and n sells it on after having bought it.         *)
(***************************************************************************)
EXTENDS FileExchange, TLC

CONSTANTS A, m, n, f1, e1, e2, r1, r2

MCDeployer == f1 :> m

MCOffer ==
    (e1 :> [file |-> f1, tick |-> A, amt |-> 2, holder |-> m])
    @@ (e2 :> [file |-> f1, tick |-> A, amt |-> 1, holder |-> n])

MCReserve == (e1 :> r1) @@ (e2 :> r2)

MCFunds == A :> [a \in {m, n, r1, r2} |-> CASE a = m -> 1 [] a = n -> 3 [] OTHER -> 0]
=============================================================================
