-------------------------- MODULE CheckpointLedger --------------------------
(***************************************************************************)
(* What a fork-safe token ledger promises, with no journal, no row ids and *)
(* no undo loop: the ledger moves on while blocks are scanned, the ledger  *)
(* at the end of every finished block is remembered, and a rollback to     *)
(* block h makes the ledger exactly what it was when block h ended.        *)
(* Drc20LedgerHist shows that Drc20Ledger implements this.                 *)
(***************************************************************************)
EXTENDS Integers

CONSTANT Ledgers,       \* every state a token ledger can be in
         EmptyLedger    \* the ledger before the first operation

VARIABLES now,          \* the ledger
          atEnd,        \* block h < height -> the ledger when block h ended
          height        \* the block being scanned

absVars == <<now, atEnd, height>>

AbsInit ==
    /\ now = EmptyLedger
    /\ atEnd = [h \in {} |-> EmptyLedger]
    /\ height = 0

\* An operation of the block being scanned: the past does not change.
Operate ==
    /\ now' \in Ledgers
    /\ UNCHANGED <<atEnd, height>>

\* The block ends and the next one begins.
EndBlock ==
    /\ atEnd' = [h \in 0..height |-> IF h = height THEN now ELSE atEnd[h]]
    /\ height' = height + 1
    /\ UNCHANGED now

\* Blocks above h are abandoned; block h is open again.
Rollback(h) ==
    /\ now' = atEnd[h]
    /\ atEnd' = [g \in 0..(h - 1) |-> atEnd[g]]
    /\ height' = h

AbsNext ==
    \/ Operate
    \/ EndBlock
    \/ \E h \in 0..(height - 1) : Rollback(h)

AbsSpec == AbsInit /\ [][AbsNext]_absVars
=============================================================================
