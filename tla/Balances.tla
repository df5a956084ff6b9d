------------------------------ MODULE Balances ------------------------------
(***************************************************************************)
(* The balance functions of storage/common.go as the other protocols see   *)
(* them: amounts only. Drc20Ledger models the same functions with their    *)
(* rows, counters and journal and proves, through CheckpointLedger, that a *)
(* fork gives back the balances at the end of the block it returns to.     *)
(***************************************************************************)
EXTENDS Integers

\* TransferDrc20. A missing row is a balance of 0, and an amount is positive.
CanMove(bal, t, from, to, amt) ==
    /\ amt >= 1
    /\ from # to
    /\ amt <= bal[t][from]

Move(bal, t, from, to, amt) ==
    [bal EXCEPT ![t][from] = @ - amt, ![t][to] = @ + amt]

\* MintDrc20.
Mint(bal, t, holder, amt) == [bal EXCEPT ![t][holder] = @ + amt]

\* BurnDrc20.
CanBurn(bal, t, holder, amt) == amt <= bal[t][holder]

Burn(bal, t, holder, amt) == [bal EXCEPT ![t][holder] = @ - amt]
=============================================================================
