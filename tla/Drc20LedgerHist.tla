--------------------------- MODULE Drc20LedgerHist ---------------------------
(***************************************************************************)
(* Drc20Ledger with two history variables that no action reads: for every  *)
(* row of the journal the amounts as they were before its operation ran,   *)
(* and for every finished block the amounts when it ended. With them       *)
(* "undoing the journal gives the earlier ledger back" can be stated, and  *)
(* the ledger is shown to implement CheckpointLedger.                      *)
(***************************************************************************)
EXTENDS Drc20Ledger

VARIABLES
    past,       \* id of a journal row -> Funds before that row
    ended       \* height of a finished block -> Funds when it ended

histVars == <<vars, past, ended>>

\* What must come back. Rows of holders are left out: an undo brings a
\* balance back to 0 but never deletes the row that an operation created.
Funds(s) == [bal |-> s.bal, sum |-> s.sum, trans |-> s.trans]

AllFunds ==
    [bal : [Ticks -> [Holders -> Nat]], sum : [Ticks -> Nat],
     trans : [Ticks -> 0..(Counter - 1)]]

HistInit ==
    /\ Init
    /\ past = [i \in {} |-> Funds(EmptyStore)]
    /\ ended = [h \in {} |-> Funds(EmptyStore)]

Remember ==
    /\ past' = [i \in DOMAIN reverts' |->
                  IF i \in DOMAIN reverts THEN past[i] ELSE Funds(store)]
    /\ ended' = [h \in 0..(height' - 1) |->
                   IF h < height THEN ended[h] ELSE Funds(store)]

HistNext == Next /\ Remember

HistSpec == HistInit /\ [][HistNext]_histVars

-----------------------------------------------------------------------------

\* The first row of a block above h.
IsFirstAbove(i, h) ==
    /\ i \in DOMAIN reverts
    /\ reverts[i].height > h
    /\ \A j \in DOMAIN reverts : reverts[j].height > h => i <= j

\* When drc20Fork has visited every row above forkTo, the amounts of its
\* working copy are those from the moment block forkTo ended: nothing of the
\* abandoned blocks is left and nothing of the kept blocks is lost.
RollbackRestores ==
    (pc = "fork" /\ Pending = {}) => Funds(work) = ended[forkTo]

\* The inductive invariant behind RollbackRestores: every row of the journal,
\* undone in the amounts that its operation left behind, is undone without an
\* error and gives back the amounts recorded for it.
AllRows(f) == [bal |-> f.bal, rows |-> Ticks \X Holders,
               sum |-> f.sum, trans |-> f.trans]

Undoes(f, r, before) ==
    /\ IsMint(r) => r.amt <= f.sum[r.tick] /\ r.amt <= f.bal[r.tick][r.to]
    /\ ~IsMint(r) /\ ~IsBurn(r) =>
          r.amt >= 1 /\ r.from # r.to /\ r.amt <= f.bal[r.tick][r.to]
    /\ before = Funds(Undo(AllRows(f), r))

\* i and j are neighbours in the journal.
Adjacent(i, j) ==
    i < j /\ \A k \in DOMAIN reverts : k <= i \/ k >= j

IsLast(i) == \A k \in DOMAIN reverts : k <= i

HistTypeOK == /\ DOMAIN past = DOMAIN reverts
              /\ \A i \in DOMAIN reverts : past[i] \in AllFunds
              /\ ended \in [0..(height - 1) -> AllFunds]

ChainExplained ==
    \A i, j \in DOMAIN reverts :
        Adjacent(i, j) => Undoes(past[j], reverts[i], past[i])

StoreExplained ==
    \A i \in DOMAIN reverts :
        IsLast(i) => Undoes(Funds(store), reverts[i], past[i])

\* Operations leave behind the rows that their undo will look up.
NeededRows(r) ==
    {<<r.tick, h>> : h \in {r.from, r.to} \ {NoAddr}}

RowsKept ==
    \A i \in DOMAIN reverts :
        /\ reverts[i].from # NoAddr \/ reverts[i].to # NoAddr
        /\ NeededRows(reverts[i]) \subseteq store.rows
        /\ pc = "fork" => NeededRows(reverts[i]) \subseteq work.rows
        /\ (IsMint(reverts[i]) \/ IsBurn(reverts[i]))
              => collect[reverts[i].tick].deployed

\* Where a fork stands: everything from cursor on is undone.
ForkExplained ==
    pc = "fork" =>
        /\ forkTo < height
        /\ \A i \in DOMAIN reverts : i >= cursor => reverts[i].height > forkTo
        /\ \/ cursor = nextId /\ Funds(work) = Funds(store)
           \/ cursor \in DOMAIN reverts /\ Funds(work) = past[cursor]

\* The end of block h is where the first row above h starts from.
EndedExplained ==
    \A h \in 0..(height - 1) :
        /\ \A i \in DOMAIN reverts : IsFirstAbove(i, h) => ended[h] = past[i]
        /\ (\A i \in DOMAIN reverts : reverts[i].height <= h)
              => ended[h] = Funds(store)

HistInv ==
    /\ TypeOK
    /\ HistTypeOK
    /\ JournalOrdered
    /\ ChainExplained
    /\ StoreExplained
    /\ EndedExplained
    /\ RowsKept
    /\ ForkExplained

\* What is invariant of the supply, on top of HistInv.
SupplyInv ==
    /\ Conservation
    /\ SupplyCap
    /\ CapExplained
    /\ TransactionsCounted

-----------------------------------------------------------------------------

Checkpoints ==
    INSTANCE CheckpointLedger
    WITH Ledgers <- AllFunds,
         EmptyLedger <- Funds(EmptyStore),
         now <- Funds(store),
         atEnd <- ended,
         height <- height

\* The journalled ledger implements the ledger with checkpoints: whatever was
\* scanned, forked and aborted before, committing a fork to block h gives the
\* ledger as it was when block h ended.
ImplementsCheckpoints == Checkpoints!AbsSpec
=============================================================================
