---------------------------- MODULE MCDrc20Ledger ----------------------------
(* Small instances of the drc-20 ledger for TLC. *)
EXTENDS Drc20LedgerHist, TLC

CONSTANTS a, b, ab      \* two addresses, and the list "a,b" as one value
CONSTANTS UNI, WDOGE    \* a deployed token and the wrapped coin

MCRecipients == (a :> <<a>>) @@ (b :> <<b>>) @@ (ab :> <<a, b>>)
=============================================================================
