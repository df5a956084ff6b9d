---------------------------- MODULE FileExchange ----------------------------
(***************************************************************************)
(* Files and the orders that sell them for a drc-20 token, protocols file  *)
(* and order-v2 (explorer/file.go, storage/file.go, TransferFile of        *)
(* storage/common.go, explorer/file_exchange.go, storage/file_exchange.go).*)
(* A file for sale is held by an address of the order's own. A fork has to *)
(* bring three things back together: the ledger (CheckpointLedger), the    *)
(* owners of files (file_revert) and the orders (file_exchange_revert).    *)
(***************************************************************************)
EXTENDS Balances, Sequences, SequencesExt

CONSTANTS
    Ticks,      \* the deployed drc-20 tokens
    Users,      \* addresses that send inscriptions
    NoAddr,     \* the empty from/to address of a journal row
    Files,      \* deploy transactions; the hash is the file_id
    Deployer,   \* file_id -> the address its deploy is sent to
    ExIds,      \* create transactions; the hash is the ex_id
    Offer,      \* ex_id -> what the create inscription says: see Offers
    Reserve,    \* ex_id -> reserves_address, the script hash of the ex_id
    Funds,      \* the ledger to begin with
    MaxHeight,  \* bound: blocks
    MaxRows,    \* bound: rows of file_revert
    MaxFiles    \* bound: rows of file_collect_address

Accounts == Users \cup {Reserve[e] : e \in ExIds}
Books == [Ticks -> [Accounts -> Nat]]
Offers == [file : Files, tick : Ticks, amt : Nat, holder : Users]

ASSUME FileExchangeAssumption ==
    /\ NoAddr \notin Accounts
    /\ Deployer \in [Files -> Users]
    /\ Offer \in [ExIds -> Offers]
    /\ \A e \in ExIds : Offer[e].amt >= 1
    /\ \A e \in ExIds : Reserve[e] \notin Users
    /\ \A e, f \in ExIds : Reserve[e] = Reserve[f] => e = f
    /\ Funds \in Books
    /\ MaxHeight \in Nat
    /\ MaxRows \in Nat
    /\ MaxFiles \in Nat

VARIABLES
    bal,        \* the ledger: tick -> address -> amount
    ended,      \* the ledger at the end of each finished block
    height,     \* Explorer.currentHeight
    files,      \* file_collect_address, by primary key: file, holder
    moves,      \* file_revert, by primary key: from, to, file, height
    orders,     \* file_exchange_collect: ex_id -> amt_finish = amt
    fills,      \* file_exchange_revert, by primary key: op, ex_id, height
    info,       \* file_info, file_exchange_info: deploy or create -> height
    was,        \* ghost: files and orders at the end of each finished block
    undeployed  \* ghost: files of which a fork abandoned the deploy

vars == <<bal, ended, height, files, moves, orders, fills, info, was, undeployed>>

Ledger == INSTANCE CheckpointLedger
          WITH Ledgers <- Books, EmptyLedger <- Funds,
               now <- bal, atEnd <- ended, height <- height

-----------------------------------------------------------------------------
(* file_collect_address *)

Row(f, a) == [file |-> f, holder |-> a]

Holds(a, f) == \E i \in DOMAIN files : files[i] = Row(f, a)

\* Where("file_id = ? AND holder_address = ?").Update: every such row, and no
\* error when there is none.
MoveFile(table, f, from, to) ==
    [i \in DOMAIN table |-> IF table[i] = Row(f, from) THEN Row(f, to) ELSE table[i]]

\* TransferFile with fork = false: the move is journalled whether or not there
\* was a row to move.
TransferFile(f, from, to) ==
    /\ Len(moves) < MaxRows
    /\ files' = MoveFile(files, f, from, to)
    /\ moves' = Append(moves, [from |-> from, to |-> to, file |-> f, height |-> height])

\* file_exchange_revert.
Journal(op, e) == fills' = Append(fills, [op |-> op, exId |-> e, height |-> height])

\* fileDecode, fileExchangeDecode: a transaction with an info row is refused.
Decoded(tx) ==
    /\ tx \notin DOMAIN info
    /\ info' = [t \in DOMAIN info \cup {tx} |-> IF t = tx THEN height ELSE info[t]]

-----------------------------------------------------------------------------

Init ==
    /\ Ledger!AbsInit
    /\ files = <<>>
    /\ moves = <<>>
    /\ orders = [e \in {} |-> FALSE]
    /\ fills = <<>>
    /\ info = [t \in {} |-> 0]
    /\ was = [h \in {} |-> 0]
    /\ undeployed = {}

\* Mutant: a deploy is decoded again although it has an info row.
DeployAgain(f) ==
    /\ info' = [t \in DOMAIN info \cup {f} |-> IF t = f THEN height ELSE info[t]]
    /\ Len(moves) < MaxRows
    /\ Len(files) < MaxFiles
    /\ files' = Append(files, Row(f, Deployer[f]))
    /\ moves' = Append(moves, [from |-> NoAddr, to |-> NoAddr, file |-> f,
                               height |-> height])
    /\ UNCHANGED <<bal, ended, height, orders, fills, was, undeployed>>

\* FileDeploy. The to_address of its journal row is that of the inscription,
\* which a deploy does not have.
Deploy(f) ==
    /\ Decoded(f)
    /\ Len(moves) < MaxRows
    /\ Len(files) < MaxFiles
    /\ files' = Append(files, Row(f, Deployer[f]))
    /\ moves' = Append(moves, [from |-> NoAddr, to |-> NoAddr, file |-> f,
                               height |-> height])
    /\ UNCHANGED <<bal, ended, height, orders, fills, was, undeployed>>

\* verifyFileTransfer, FileTransfer.
Transfer(f, from, to) ==
    /\ from # to
    /\ Holds(from, f)
    /\ TransferFile(f, from, to)
    /\ UNCHANGED <<bal, ended, height, orders, fills, info, was, undeployed>>

VerifyFileExchangeCreate(e) == Holds(Offer[e].holder, Offer[e].file)

\* Whether the order is finished is not looked at.
VerifyFileExchangeTrade(e, taker) == e \in DOMAIN orders /\ taker # Offer[e].holder

VerifyFileExchangeCancel(e, u) == e \in DOMAIN orders /\ u = Offer[e].holder

\* FileExchangeCreate.
Create(e) ==
    /\ Decoded(e)
    /\ VerifyFileExchangeCreate(e)
    /\ TransferFile(Offer[e].file, Offer[e].holder, Reserve[e])
    /\ orders' = [x \in DOMAIN orders \cup {e} |-> IF x = e THEN FALSE ELSE orders[x]]
    /\ Journal("create", e)
    /\ UNCHANGED <<bal, ended, height, was, undeployed>>

\* Refused; the info row has been saved before.
CreateRefused(e) ==
    /\ Decoded(e)
    /\ ~VerifyFileExchangeCreate(e)
    /\ UNCHANGED <<bal, ended, height, files, moves, orders, fills, was, undeployed>>

\* Mutant: the file moves and the order stays open.
TradeLeftOpen(e, taker) ==
    /\ VerifyFileExchangeTrade(e, taker)
    /\ CanMove(bal, Offer[e].tick, taker, Offer[e].holder, Offer[e].amt)
    /\ bal' = Move(bal, Offer[e].tick, taker, Offer[e].holder, Offer[e].amt)
    /\ TransferFile(Offer[e].file, Reserve[e], taker)
    /\ Journal("trade", e)
    /\ UNCHANGED <<ended, height, orders, info, was, undeployed>>

\* FileExchangeTrade, at exactly the price.
Trade(e, taker) ==
    /\ VerifyFileExchangeTrade(e, taker)
    /\ CanMove(bal, Offer[e].tick, taker, Offer[e].holder, Offer[e].amt)
    /\ bal' = Move(bal, Offer[e].tick, taker, Offer[e].holder, Offer[e].amt)
    /\ TransferFile(Offer[e].file, Reserve[e], taker)
    /\ orders' = [orders EXCEPT ![e] = TRUE]
    /\ Journal("trade", e)
    /\ UNCHANGED <<ended, height, info, was, undeployed>>

\* FileExchangeCancel: the file goes back to the maker.
Cancel(e, u) ==
    /\ VerifyFileExchangeCancel(e, u)
    /\ TransferFile(Offer[e].file, Reserve[e], u)
    /\ orders' = [orders EXCEPT ![e] = TRUE]
    /\ Journal("cancel", e)
    /\ UNCHANGED <<bal, ended, height, info, was, undeployed>>

NextBlock ==
    /\ height < MaxHeight
    /\ Ledger!EndBlock
    /\ was' = [h \in 0..height |->
                 IF h = height THEN [files |-> files, orders |-> orders] ELSE was[h]]
    /\ UNCHANGED <<files, moves, orders, fills, info, undeployed>>

-----------------------------------------------------------------------------
(* Forks *)

\* delRevert: the rows above h are deleted.
UpTo(rows, h) ==
    LET kept[n \in 0..Len(rows)] ==
          IF n = 0 THEN <<>>
          ELSE IF rows[n].height <= h THEN Append(kept[n - 1], rows[n])
          ELSE kept[n - 1]
    IN  kept[Len(rows)]

\* Mutant: only rows that name a sender are undone, the others are deleted.
UndoMoveForward(table, r) ==
    LET Other(row) == row # Row(r.file, r.to)
    IN  IF r.to # NoAddr /\ r.from = NoAddr THEN SelectSeq(table, Other)
        ELSE MoveFile(table, r.file, r.from, r.to)

\* One turn of fileFork's loop.
UndoMove(table, r) ==
    LET Other(row) == row # Row(r.file, r.to)
    IN  IF r.to # NoAddr /\ r.from = NoAddr THEN SelectSeq(table, Other)
        ELSE MoveFile(table, r.file, r.to, r.from)

\* fileFork: the rows above h are undone, the last one first.
MovesUndone(table, rows, h) ==
    LET undone[n \in 0..Len(rows)] ==
          IF n = 0 THEN table
          ELSE IF rows[Len(rows) + 1 - n].height > h
               THEN UndoMove(undone[n - 1], rows[Len(rows) + 1 - n])
          ELSE undone[n - 1]
    IN  undone[Len(rows)]

\* One turn of fileExchangeFork's loop. A create is undone. For a trade the
\* column amt_finish of table exchange_collect is updated, which has no such
\* column (models/exchange.go:31), for a cancel a row of exchange_collect is
\* looked up that is never there: both end the whole fork with an error.
FillsUndone(h) ==
    \A i \in DOMAIN fills : fills[i].height > h => fills[i].op = "create"

CreatedAbove(h) ==
    {fills[i].exId : i \in {j \in DOMAIN fills : fills[j].height > h}}

\* fork: delInfo, drc20Fork, fileFork, fileExchangeFork, delRevert, in one
\* database transaction; when it fails nothing changes.
Fork(h) ==
    /\ FillsUndone(h)
    /\ Ledger!Rollback(h)
    /\ info' = [t \in {u \in DOMAIN info : info[u] <= h} |-> info[t]]
    /\ files' = MovesUndone(files, moves, h)
    /\ orders' = [e \in DOMAIN orders \ CreatedAbove(h) |-> orders[e]]
    /\ moves' = UpTo(moves, h)
    /\ fills' = UpTo(fills, h)
    /\ was' = [g \in 0..(h - 1) |-> was[g]]
    /\ undeployed' = undeployed \cup {f \in Files \cap DOMAIN info : info[f] > h}

-----------------------------------------------------------------------------

Next ==
    \/ \E f \in Files : Deploy(f)
    \/ \E f \in Files, from \in Users, to \in Accounts : Transfer(f, from, to)
    \/ \E e \in ExIds : Create(e) \/ CreateRefused(e)
    \/ \E e \in ExIds, u \in Users : Trade(e, u) \/ Cancel(e, u)
    \/ NextBlock
    \/ \E h \in DOMAIN ended : Fork(h)

Spec == Init /\ [][Next]_vars

-----------------------------------------------------------------------------
(* Properties *)

FileRows == [file : Files, holder : Accounts]

\* A deploy's row names nobody, a transfer's both sides.
MoveRows ==
    {r \in [from : Accounts \cup {NoAddr}, to : Accounts \cup {NoAddr},
            file : Files, height : Nat] : r.from = NoAddr => r.to = NoAddr}

FillRows == [op : {"create", "trade", "cancel"}, exId : ExIds, height : Nat]

Orders(os) == DOMAIN os \subseteq ExIds /\ os \in [DOMAIN os -> BOOLEAN]

TypeOK ==
    /\ height \in Nat
    /\ DOMAIN ended = 0..(height - 1)
    /\ files \in Seq(FileRows)
    /\ moves \in Seq(MoveRows)
    /\ fills \in Seq(FillRows)
    /\ Orders(orders)
    /\ DOMAIN info \subseteq Files \cup ExIds
    /\ \A t \in DOMAIN info : info[t] \in 0..height
    /\ DOMAIN was = DOMAIN ended
    /\ \A h \in DOMAIN was : was[h].files \in Seq(FileRows) /\ Orders(was[h].orders)
    /\ undeployed \subseteq Files

Owners(table, f) == {table[i].holder : i \in {j \in DOMAIN table : table[j].file = f}}

\* A file has one row and so one owner, unless a fork has abandoned its deploy:
\* the undo of a deploy finds nothing to delete (storage/file.go:25), and the
\* same deploy, mined again, adds a second row.
OneOwner ==
    \A i, j \in DOMAIN files :
        files[i].file = files[j].file /\ files[i].file \notin undeployed => i = j

\* While an order is open the file it sells is held by the order's address, so
\* that the trade that finishes it delivers the file: after any creates,
\* cancels, transfers and forks.
OpenOrderHoldsFile ==
    \A e \in DOMAIN orders :
        ~orders[e] /\ Offer[e].file \notin undeployed =>
            Owners(files, Offer[e].file) = {Reserve[e]}

\* The rows of file_revert are in the order of their blocks, those of files
\* and orders come after their info rows.
Recorded ==
    /\ \A i, j \in DOMAIN moves : i <= j => moves[i].height <= moves[j].height
    /\ \A i \in DOMAIN moves : moves[i].height <= height
    /\ \A i \in DOMAIN fills : fills[i].height <= height
    /\ \A i \in DOMAIN files : files[i].file \in DOMAIN info \cup undeployed
    /\ DOMAIN orders \subseteq DOMAIN info

\* Of block h: the table of files is longer than it was by the files deployed
\* since, and the orders there were are older.
Since(h) ==
    /\ Len(was[h].files) <= Len(files)
    /\ \A i \in DOMAIN files :
          IF i <= Len(was[h].files) THEN files[i].file = was[h].files[i].file
          ELSE files[i].file \in undeployed
               \/ (files[i].file \in DOMAIN info /\ info[files[i].file] > h)
    /\ \A e \in DOMAIN was[h].orders : e \in DOMAIN info /\ info[e] <= h

\* What a fork to block h would bring back, if it is not refused.
FilesBack(h) ==
    FillsUndone(h) =>
       \A i \in DOMAIN was[h].files :
          was[h].files[i].file \notin undeployed =>
             MovesUndone(files, moves, h)[i] = was[h].files[i]

OrdersBack(h) ==
    FillsUndone(h) =>
       was[h].orders = [e \in DOMAIN orders \ CreatedAbove(h) |-> orders[e]]

HeldThen(h) ==
    \A e \in DOMAIN was[h].orders :
       ~was[h].orders[e] /\ Offer[e].file \notin undeployed =>
          Owners(was[h].files, Offer[e].file) = {Reserve[e]}

FileInv ==
    /\ TypeOK
    /\ Recorded
    /\ OneOwner
    /\ OpenOrderHoldsFile
    /\ \A h \in DOMAIN was : Since(h) /\ FilesBack(h) /\ OrdersBack(h) /\ HeldThen(h)

\* A fork gives every file the owner it had when the block returned to ended,
\* and leaves the orders there were then, along with the balances: the three
\* journals agree. (But for files whose deploy is abandoned.)
ForkRestores ==
    [][height' < height =>
         /\ bal' = ended[height']
         /\ orders' = was[height'].orders
         /\ \A f \in Files \ undeployed' :
               Owners(files', f) = Owners(was[height'].files, f)]_vars

=============================================================================
