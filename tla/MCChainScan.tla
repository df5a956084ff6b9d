----------------------------- MODULE MCChainScan -----------------------------
(***************************************************************************)
(* A small block tree for TLC. The chain forks above a1, may come back to  *)
(* the branch it left, and forks again above b2 or d2:                     *)
(*     g - a1 - a2 - a3 - a4 - a5                                          *)
(*           \- b2 - b3 - b4                                               *)
(*           |    |- c3 - c4 - c5 - c6                                     *)
(*           |    |- f3 - f4                                               *)
(*           |    \- h3 - h4                                               *)
(*           \- d2 - d3 - d4 - d5                                          *)
(*                \- e3 - e4 - e5 - e6                                     *)
(* The branches share transactions in different orders, and z is valid     *)
(* only after y. The last four have inscriptions of which a fork leaves    *)
(* something behind: box is in f3, then in d2 below the place where e3     *)
(* leaves; stake (consensus) is in d3 and in e3; deploy is in h3, and in   *)
(* e4 after the mint that needs it. d4 has a trade of a file.              *)
(***************************************************************************)
EXTENDS ChainScan, TLC

CONSTANTS g, a1, a2, a3, a4, a5, b2, b3, b4, c3, c4, c5, c6, f3, f4, h3, h4,
          d2, d3, d4, d5, e3, e4, e5, e6
CONSTANTS w, x, y, z, box, stake, deploy, mint, trade

MCParent ==
    (g :> NoBlock) @@ (a1 :> g) @@ (a2 :> a1) @@ (a3 :> a2) @@ (a4 :> a3)
    @@ (a5 :> a4) @@ (b2 :> a1) @@ (b3 :> b2) @@ (b4 :> b3)
    @@ (c3 :> b2) @@ (c4 :> c3) @@ (c5 :> c4) @@ (c6 :> c5)
    @@ (f3 :> b2) @@ (f4 :> f3) @@ (h3 :> b2) @@ (h4 :> h3)
    @@ (d2 :> a1) @@ (d3 :> d2) @@ (d4 :> d3) @@ (d5 :> d4)
    @@ (e3 :> d2) @@ (e4 :> e3) @@ (e5 :> e4) @@ (e6 :> e5)

ShortA == <<g, a1, a2, a3>>
MCChains == {ShortA, <<g, a1, b2, b3, b4>>, <<g, a1, a2, a3, a4, a5>>,
             <<g, a1, b2, c3, c4, c5, c6>>, <<g, a1, b2, f3, f4>>,
             <<g, a1, b2, h3, h4>>, <<g, a1, d2, d3, d4, d5>>,
             <<g, a1, d2, e3, e4, e5, e6>>}

MCTxsOf ==
    (a1 :> <<x>>) @@ (a2 :> <<y, z>>) @@ (a3 :> <<w>>)
    @@ (b2 :> <<z>>) @@ (b3 :> <<y, w>>) @@ (c3 :> <<w, y>>)
    @@ (f3 :> <<box>>) @@ (d2 :> <<box>>) @@ (d3 :> <<stake>>)
    @@ (h3 :> <<deploy>>) @@ (d4 :> <<trade>>) @@ (e3 :> <<stake, mint>>)
    @@ (e4 :> <<deploy>>)
    @@ [b \in Blocks |-> <<>>]

MCNeeds ==
    [t \in Txs |-> CASE t = z -> {y} [] t = mint -> {deploy} [] OTHER -> {}]

MCKind ==
    [t \in Txs |-> CASE t = box    -> "box"
                     [] t = stake  -> "consensus"
                     [] t = deploy -> "lasting"
                     [] t = trade  -> "fileTrade"
                     [] OTHER      -> "undone"]

\* The database as it is handed out, indexed up to the first block; and one
\* without a block, to be filled from block 4.
MCStarts == {[from |-> 0, rows |-> <<g>>], [from |-> 4, rows |-> <<>>]}
=============================================================================
