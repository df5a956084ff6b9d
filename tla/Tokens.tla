------------------------------- MODULE Tokens -------------------------------
(***************************************************************************)
(* The drc-20 tables as the deploys of other protocols use them: the row   *)
(* of a token in drc20_collect comes and goes, the holders' rows and the   *)
(* journal drc20_revert stay (storage/common.go:42-278, drc20Fork).        *)
(***************************************************************************)
EXTENDS Balances, Sequences, FiniteSets, Functions

CONSTANTS
    Ticks,
    Accounts,
    Minted,        \* drc-20 tokens to begin with: tick -> address -> amount
    Nobody,        \* the missing side of a mint or a burn in drc20_revert
    Stuck          \* a state no undo leads out of

ASSUME TokensAssumption ==
    /\ DOMAIN Minted \subseteq Ticks
    /\ \A t \in DOMAIN Minted : Minted[t] \in [Accounts -> Nat]
    /\ IsFiniteSet(Accounts) /\ Nobody \notin Accounts

\* A row of drc20_revert.
LogRows == [tick : Ticks, from : Accounts \cup {Nobody}, to : Accounts \cup {Nobody},
            amt : Nat, at : Nat]

\* What the holders of a token have between them.
Supply(b, t) == SumFunction(b[t])

AddTo(f, x, n) == [f EXCEPT ![x] = @ + n]

HasToken(s, t) == t \in DOMAIN s.collect

NewToken(s, t) == [s EXCEPT !.collect = [x \in DOMAIN @ \cup {t} |->
                                           IF x = t THEN 0 ELSE s.collect[x]]]

Logged(s, t, from, to, amt, h) ==
    [s EXCEPT !.log = Append(@, [tick |-> t, from |-> from, to |-> to, amt |-> amt,
                                 at |-> h])]

\* TransferDrc20 looks at the two holders' rows only.
TransferDrc20(s, t, from, to, amt, h) ==
    Logged([s EXCEPT !.bal = Move(s.bal, t, from, to, amt)], t, from, to, amt, h)

MintDrc20(s, t, u, amt, h) ==
    Logged([s EXCEPT !.bal = Mint(s.bal, t, u, amt), !.collect = AddTo(@, t, amt)],
           t, Nobody, u, amt, h)

CanBurnDrc20(s, t, u, amt) ==
    /\ HasToken(s, t)
    /\ amt <= s.collect[t]
    /\ CanBurn(s.bal, t, u, amt)

BurnDrc20(s, t, u, amt, h) ==
    Logged([s EXCEPT !.bal = Burn(s.bal, t, u, amt), !.collect = AddTo(@, t, -amt)],
           t, u, Nobody, amt, h)

-----------------------------------------------------------------------------
(* drc20Fork *)

UndoOk(s, r) ==
    CASE r.from = Nobody -> CanBurnDrc20(s, r.tick, r.to, r.amt)
      [] r.to = Nobody   -> HasToken(s, r.tick)
      [] OTHER           -> CanMove(s.bal, r.tick, r.to, r.from, r.amt)

\* Mutant: amt_sum is not looked after.
UndoBalances(s, r) ==
    CASE r.from = Nobody -> [s EXCEPT !.bal = Burn(s.bal, r.tick, r.to, r.amt)]
      [] r.to = Nobody   -> [s EXCEPT !.bal = Mint(s.bal, r.tick, r.from, r.amt)]
      [] OTHER           -> [s EXCEPT !.bal = Move(s.bal, r.tick, r.to, r.from, r.amt)]

Undo(s, r) ==
    IF r.from = Nobody THEN [s EXCEPT !.bal = Burn(@, r.tick, r.to, r.amt),
                                      !.collect = AddTo(@, r.tick, -r.amt)]
    ELSE IF r.to = Nobody THEN [s EXCEPT !.bal = Mint(@, r.tick, r.from, r.amt),
                                         !.collect = AddTo(@, r.tick, r.amt)]
    ELSE [s EXCEPT !.bal = Move(@, r.tick, r.to, r.from, r.amt)]

\* Mutant: the rows in the order they were written.
OldestFirst(rows, k) == rows[k]

NewestFirst(rows, k) == rows[Len(rows) + 1 - k]

\* The rows above h from the last one on: the first that cannot be undone
\* refuses the fork.
drc20Fork(s, h) ==
    LET undone[k \in 0..Len(s.log)] ==
            IF k = 0 THEN s
            ELSE LET w == undone[k - 1]
                     r == NewestFirst(s.log, k)
                 IN  IF r.at <= h THEN w
                     ELSE IF w # Stuck /\ UndoOk(w, r) THEN Undo(w, r)
                     ELSE Stuck
    IN  undone[Len(s.log)]

\* Rows of blocks above h, and the others.
RowsAbove(rows, h) == {k \in DOMAIN rows : rows[k].at > h}
RowsUpTo(rows, h) == [k \in DOMAIN rows \ RowsAbove(rows, h) |-> rows[k]]

KeepLog(s, h) == [s EXCEPT !.log = RowsUpTo(@, h)]
=============================================================================
