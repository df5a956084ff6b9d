----------------------------- MODULE Drc20Ledger -----------------------------
(***************************************************************************)
(* The drc-20 token ledger of the indexer (storage/common.go,              *)
(* explorer/drc20.go): the tables drc20_collect and drc20_collect_address, *)
(* the journal drc20_revert that every operation writes, and the undo of   *)
(* the journal when the chain forks (explorer/fork.go, drc20Fork).         *)
(*                                                                         *)
(* Every operation runs in one database transaction, so it is one action.  *)
(* A fork is one transaction too, but a long one: its working copy is      *)
(* explicit (work), the journal is undone row by row, and until it commits *)
(* an error or a crash throws the copy away.                               *)
(***************************************************************************)
EXTENDS Integers, Sequences, FiniteSets, Functions

CONSTANTS
    Ticks,          \* token names
    ProtocolTicks,  \* those minted and burned by the other protocols (WDOGE,
                    \*   liquidity tokens): their row exists, its lim_ is 0
    Holders,        \* values of the column holder_address
    Recipients,     \* holder_address -> the addresses its comma list names
    NoAddr,         \* the empty from/to address of a journal row
    Amounts,        \* amounts an inscription may carry
    MaxRepeat,      \* drc20Decode caps the mints of one transaction (30)
    Counter,        \* range of the uint64 column transactions (2^64)
    MaxHeight,      \* bound: blocks
    MaxOps          \* bound: journal rows ever written

ASSUME LedgerAssumption ==
    /\ ProtocolTicks \subseteq Ticks
    /\ IsFiniteSet(Holders)
    /\ NoAddr \notin Holders
    /\ Recipients \in [Holders -> Seq(Holders)]
    /\ Amounts \subseteq Nat
    /\ MaxRepeat \in Nat
    /\ Counter \in Nat \ {0}
    /\ MaxHeight \in Nat
    /\ MaxOps \in Nat

VARIABLES
    collect,    \* drc20_collect: tick -> deployed, max_, lim_
    store,      \* the amounts: bal, rows, sum, trans (see Stores)
    reverts,    \* drc20_revert: id -> row
    nextId,     \* the next auto-increment id of drc20_revert
    height,     \* Explorer.currentHeight
    pc,         \* "scan" or, inside the fork transaction, "fork"
    work,       \* the fork transaction's view of store
    cursor,     \* journal rows with id >= cursor have been visited
    forkTo      \* the height fork() was called with

vars == <<collect, store, reverts, nextId, height, pc, work, cursor, forkTo>>

-----------------------------------------------------------------------------
(* Values *)

Stores ==
    [bal   : [Ticks -> [Holders -> Nat]],  \* drc20_collect_address.amt_sum,
                                           \*   0 where there is no row
     rows  : SUBSET (Ticks \X Holders),    \* which rows exist
     sum   : [Ticks -> Nat],               \* drc20_collect.amt_sum
     trans : [Ticks -> 0..(Counter - 1)]]  \* drc20_collect.transactions

EmptyStore ==
    [bal   |-> [t \in Ticks |-> [h \in Holders |-> 0]],
     rows  |-> {},
     sum   |-> [t \in Ticks |-> 0],
     trans |-> [t \in Ticks |-> 0]]

Rows == [from : Holders \cup {NoAddr}, to : Holders \cup {NoAddr},
         tick : Ticks, amt : Nat, height : Nat]

IsMint(r) == r.to # NoAddr /\ r.from = NoAddr
IsBurn(r) == r.from # NoAddr /\ r.to = NoAddr

\* uint64 arithmetic: the test trans < 0 of the code can never be true.
Inc(n) == IF n = Counter - 1 THEN 0 ELSE n + 1
Dec(n) == IF n = 0 THEN Counter - 1 ELSE n - 1
\* Mutant: the counter also goes up when a fork undoes a row.
CountAlwaysUp(n, fork) == Inc(n)
Count(n, fork) == IF fork THEN Dec(n) ELSE Inc(n)

-----------------------------------------------------------------------------
(* The three functions every protocol changes balances with. Each has the  *)
(* condition under which it returns no error and the store it then leaves. *)

Credit(bal, t, holder, amt) == [bal EXCEPT ![t][holder] = @ + amt]
Debit(bal, t, holder, amt)  == [bal EXCEPT ![t][holder] = @ - amt]

TransferOk(s, t, from, to, amt) ==
    /\ amt >= 1
    /\ from # to
    /\ <<t, from>> \in s.rows
    /\ amt <= s.bal[t][from]

\* Mutant: the update of the sender is forgotten.
TransferWithoutDebit(s, t, from, to, amt) ==
    [bal   |-> Credit(s.bal, t, to, amt),
     rows  |-> s.rows \cup {<<t, to>>},
     sum   |-> s.sum,
     trans |-> s.trans]

TransferDrc20(s, t, from, to, amt) ==
    [bal   |-> Credit(Debit(s.bal, t, from, amt), t, to, amt),
     rows  |-> s.rows \cup {<<t, to>>},
     sum   |-> s.sum,
     trans |-> s.trans]

MintOk(t) == collect[t].deployed

MintDrc20(s, t, holder, amt, fork) ==
    [bal   |-> Credit(s.bal, t, holder, amt),
     rows  |-> s.rows \cup {<<t, holder>>},
     sum   |-> [s.sum EXCEPT ![t] = @ + amt],
     trans |-> [s.trans EXCEPT ![t] = Count(@, fork)]]

BurnOk(s, t, holder, amt) ==
    /\ collect[t].deployed
    /\ <<t, holder>> \in s.rows
    /\ amt <= s.sum[t]
    /\ amt <= s.bal[t][holder]

BurnDrc20(s, t, holder, amt, fork) ==
    [bal   |-> Debit(s.bal, t, holder, amt),
     rows  |-> s.rows,
     sum   |-> [s.sum EXCEPT ![t] = @ - amt],
     trans |-> [s.trans EXCEPT ![t] = Count(@, fork)]]

-----------------------------------------------------------------------------
(* Scanning: one action per operation, all in the block at height. *)

Init ==
    /\ collect = [t \in Ticks |->
                    [deployed |-> t \in ProtocolTicks, max |-> 0, lim |-> 0]]
    /\ store = EmptyStore
    /\ reverts = [i \in {} |-> NoAddr]
    /\ nextId = 1
    /\ height = 0
    /\ pc = "scan"
    /\ work = EmptyStore
    /\ cursor = 0
    /\ forkTo = 0

\* The tail of the three functions when fork is false: tx.Create(revert).
Journal(from, to, t, amt) ==
    /\ nextId <= MaxOps
    /\ reverts' = [i \in DOMAIN reverts \cup {nextId} |->
                     IF i = nextId
                     THEN [from |-> from, to |-> to, tick |-> t, amt |-> amt,
                           height |-> height]
                     ELSE reverts[i]]
    /\ nextId' = nextId + 1

VerifyDeploy(t, max, lim) ==
    /\ max >= 1 /\ lim >= 1
    /\ max >= lim
    /\ ~collect[t].deployed

\* executeDrc20 "deploy": the row is created and nothing is journalled.
Deploy(t, max, lim) ==
    /\ pc = "scan"
    /\ VerifyDeploy(t, max, lim)
    /\ collect' = [collect EXCEPT
                     ![t] = [deployed |-> TRUE, max |-> max, lim |-> lim]]
    /\ UNCHANGED <<store, reverts, nextId, height, pc, work, cursor, forkTo>>

\* Mutant: the cap is compared with one mint, not with all repetitions.
VerifyOneMint(t, amt, repeat) ==
    /\ collect[t].deployed
    /\ amt >= 1
    /\ amt <= collect[t].lim
    /\ store.sum[t] + amt <= collect[t].max

VerifyMint(t, amt, repeat) ==
    /\ collect[t].deployed
    /\ amt >= 1
    /\ amt <= collect[t].lim
    /\ store.sum[t] + amt * repeat <= collect[t].max

\* executeDrc20 "mint".
InscribedMint(t, holder, amt, repeat) ==
    /\ pc = "scan"
    /\ VerifyMint(t, amt, repeat)
    /\ MintOk(t)
    /\ store' = MintDrc20(store, t, holder, amt * repeat, FALSE)
    /\ Journal(NoAddr, holder, t, amt * repeat)
    /\ UNCHANGED <<collect, height, pc, work, cursor, forkTo>>

\* A list of recipients must be paid for once per recipient ...
VerifyTransfer(t, from, to, amt) ==
    /\ amt >= 1
    /\ <<t, from>> \in store.rows
    /\ amt * Len(Recipients[to]) <= store.bal[t][from]

\* executeDrc20 "transfer". ... but the list is credited, once, as if it were
\* one address. drc20Decode refuses a sender that is among the recipients.
Transfer(t, from, to, amt) ==
    /\ pc = "scan"
    /\ \A i \in DOMAIN Recipients[to] : Recipients[to][i] # from
    /\ VerifyTransfer(t, from, to, amt)
    /\ TransferOk(store, t, from, to, amt)
    /\ store' = TransferDrc20(store, t, from, to, amt)
    /\ Journal(from, to, t, amt)
    /\ UNCHANGED <<collect, height, pc, work, cursor, forkTo>>

\* The other protocols: WDOGE deposit and withdraw, liquidity tokens, and
\* payments into and out of the addresses that hold pools and orders.
ProtocolMint(t, holder, amt) ==
    /\ pc = "scan"
    /\ MintOk(t)
    /\ store' = MintDrc20(store, t, holder, amt, FALSE)
    /\ Journal(NoAddr, holder, t, amt)
    /\ UNCHANGED <<collect, height, pc, work, cursor, forkTo>>

ProtocolBurn(t, holder, amt) ==
    /\ pc = "scan"
    /\ BurnOk(store, t, holder, amt)
    /\ store' = BurnDrc20(store, t, holder, amt, FALSE)
    /\ Journal(holder, NoAddr, t, amt)
    /\ UNCHANGED <<collect, height, pc, work, cursor, forkTo>>

ProtocolTransfer(t, from, to, amt) ==
    /\ pc = "scan"
    /\ TransferOk(store, t, from, to, amt)
    /\ store' = TransferDrc20(store, t, from, to, amt)
    /\ Journal(from, to, t, amt)
    /\ UNCHANGED <<collect, height, pc, work, cursor, forkTo>>

\* scan() has saved the block and moves to the next one.
NextBlock ==
    /\ pc = "scan"
    /\ height < MaxHeight
    /\ height' = height + 1
    /\ UNCHANGED <<collect, store, reverts, nextId, pc, work, cursor, forkTo>>

-----------------------------------------------------------------------------
(* Forking *)

\* forkBack found the common ancestor at height h: DB.Begin, fork(tx, h).
BeginFork(h) ==
    /\ pc = "scan"
    /\ pc' = "fork"
    /\ work' = store
    /\ cursor' = nextId
    /\ forkTo' = h
    /\ UNCHANGED <<collect, store, reverts, nextId, height>>

\* Where("block_number > ?", height): the rows drc20Fork has still to visit.
Pending == {i \in DOMAIN reverts : i < cursor /\ reverts[i].height > forkTo}

\* Mutant: the journal is undone from its oldest row on.
IsOldest(i) == i \in Pending /\ \A j \in Pending : i <= j

\* Order("id desc"): the row it visits next.
IsNext(i) == i \in Pending /\ \A j \in Pending : j <= i

UndoOk(s, r) ==
    IF IsMint(r) THEN BurnOk(s, r.tick, r.to, r.amt)
    ELSE IF IsBurn(r) THEN MintOk(r.tick)
    ELSE TransferOk(s, r.tick, r.to, r.from, r.amt)

Undo(s, r) ==
    IF IsMint(r) THEN BurnDrc20(s, r.tick, r.to, r.amt, TRUE)
    ELSE IF IsBurn(r) THEN MintDrc20(s, r.tick, r.from, r.amt, TRUE)
    ELSE TransferDrc20(s, r.tick, r.to, r.from, r.amt)

\* One turn of drc20Fork's loop.
UndoNext ==
    /\ pc = "fork"
    /\ \E i \in Pending :
         /\ IsNext(i)
         /\ UndoOk(work, reverts[i])
         /\ work' = Undo(work, reverts[i])
         /\ cursor' = i
    /\ UNCHANGED <<collect, store, reverts, nextId, height, pc, forkTo>>

EndFork ==
    /\ pc' = "scan"
    /\ work' = EmptyStore
    /\ cursor' = 0
    /\ forkTo' = 0

\* drc20_revert after Where("block_number > ?", h).Delete.
DelRevert(h) ==
    LET kept == {i \in DOMAIN reverts : reverts[i].height <= h}
    IN  [i \in kept |-> reverts[i]]

\* The loop is over: delRevert, Commit, currentHeight = height.
CommitFork ==
    /\ pc = "fork"
    /\ Pending = {}
    /\ store' = work
    /\ reverts' = DelRevert(forkTo)
    /\ height' = forkTo
    /\ EndFork
    /\ UNCHANGED <<collect, nextId>>

\* Mutant: an error in the middle of a fork commits what has been undone.
AbortKeepsWork ==
    /\ pc = "fork"
    /\ store' = work
    /\ EndFork
    /\ UNCHANGED <<collect, reverts, nextId, height>>

\* A crash, an error of the database or an undo that fails: Rollback. The
\* next scan() starts the fork again.
AbortFork ==
    /\ pc = "fork"
    /\ EndFork
    /\ UNCHANGED <<collect, store, reverts, nextId, height>>

\* The values of holder_address that are one address.
Addresses == {h \in Holders : Recipients[h] = <<h>>}

Operations ==
    \/ \E t \in Ticks, max, lim \in Amounts : Deploy(t, max, lim)
    \/ \E t \in Ticks, holder \in Addresses, amt \in Amounts,
          repeat \in 0..MaxRepeat : InscribedMint(t, holder, amt, repeat)
    \/ \E t \in Ticks, from \in Addresses, to \in Holders, amt \in Amounts :
          Transfer(t, from, to, amt)
    \/ \E t \in Ticks, from, to \in Addresses, amt \in Amounts :
          ProtocolTransfer(t, from, to, amt)
    \/ \E t \in ProtocolTicks, holder \in Addresses, amt \in Amounts :
          \/ ProtocolMint(t, holder, amt)
          \/ ProtocolBurn(t, holder, amt)

Next ==
    \/ Operations
    \/ NextBlock
    \/ \E h \in 0..(height - 1) : BeginFork(h)
    \/ UndoNext
    \/ CommitFork
    \/ AbortFork

Spec == Init /\ [][Next]_vars

-----------------------------------------------------------------------------
(* Properties *)

TypeOK ==
    /\ collect \in [Ticks -> [deployed : BOOLEAN, max : Nat, lim : Nat]]
    /\ store \in Stores
    /\ DOMAIN reverts \subseteq 1..(nextId - 1)
    /\ \A i \in DOMAIN reverts : reverts[i] \in Rows
    /\ nextId \in Nat \ {0}
    /\ height \in Nat
    /\ pc \in {"scan", "fork"}
    /\ work \in Stores
    /\ cursor \in Nat
    /\ forkTo \in Nat

\* Tokens are neither lost nor made up, in the tables and in the fork's
\* working copy: what the holders of a tick have adds up to the amt_sum of
\* its drc20_collect row, after any interleaving of operations and undos.
Conserved(s) == \A t \in Ticks : SumFunction(s.bal[t]) = s.sum[t]

Conservation == Conserved(store) /\ Conserved(work)

\* A tick that is only minted by inscriptions never exceeds the max_ it was
\* deployed with, also while a fork takes mints back (verifyMint).
SupplyCapped(s) ==
    \A t \in Ticks \ ProtocolTicks :
        collect[t].deployed => s.sum[t] <= collect[t].max

SupplyCap == SupplyCapped(store) /\ SupplyCapped(work)

\* The inductive invariant behind SupplyCap: a tick that is not deployed has
\* no supply, and an undo mints again only what a protocol had burned.
CapExplained ==
    /\ \A t \in Ticks \ ProtocolTicks :
          ~collect[t].deployed => store.sum[t] = 0 /\ work.sum[t] = 0
    /\ \A i \in DOMAIN reverts :
          IsBurn(reverts[i]) => reverts[i].tick \in ProtocolTicks

\* Ids and block numbers of the journal grow together, and no row is of a
\* block above the one being scanned: the rows a fork selects by block number
\* are therefore the last ones written, and undoing them by falling id is
\* undoing them in reverse. Relates drc20Fork's WHERE to its ORDER BY.
JournalOrdered ==
    /\ \A i \in DOMAIN reverts : reverts[i].height <= height
    /\ \A i, j \in DOMAIN reverts :
          i < j => reverts[i].height <= reverts[j].height

\* The undo of a journalled operation always succeeds: drc20Fork never meets
\* a missing row or an insufficient balance, so a fork is never refused by
\* the ledger (it would be retried, and refused, for ever).
UndoNeverFails ==
    pc = "fork" =>
        \A i \in Pending : IsNext(i) => UndoOk(work, reverts[i])

\* The counter of a tick's mints and burns is the number of its mint and burn
\* rows in the journal, in the fork's working copy the number of those not yet
\* undone: undoing a row never takes the unsigned counter below zero, where it
\* would become 2^64 - 1 (the guard trans < 0 is dead code).
SupplyRows(t) ==
    {i \in DOMAIN reverts :
        reverts[i].tick = t /\ (IsMint(reverts[i]) \/ IsBurn(reverts[i]))}

Standing ==
    {i \in DOMAIN reverts :
        pc = "fork" => (i < cursor \/ reverts[i].height <= forkTo)}

TransactionsCounted ==
    \A t \in Ticks :
        /\ store.trans[t] = Cardinality(SupplyRows(t)) % Counter
        /\ pc = "fork" =>
              work.trans[t] = Cardinality(SupplyRows(t) \cap Standing) % Counter
=============================================================================
