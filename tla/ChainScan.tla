------------------------------ MODULE ChainScan ------------------------------
(***************************************************************************)
(* The scanner of the indexer (explorer/scanner.go, explorer/fork.go): it  *)
(* follows the best chain of a Dogecoin node over RPC, one call at a time, *)
(* executes the inscriptions of each block against the database and undoes *)
(* the blocks that the node has abandoned.                                 *)
(*                                                                         *)
(* The node may change its best chain between any two calls, a call may    *)
(* fail and the process may crash. The table block, the info tables (one   *)
(* row per inscription met) and the journal of effects are durable; the    *)
(* height, the block and the list of transactions in hand are not.         *)
(* What an effect does to balances is Drc20Ledger's subject: here it is an *)
(* entry of the journal, and a transaction may need earlier ones to have   *)
(* taken effect (a transfer needs the mint), as verifys.go decides.        *)
(***************************************************************************)
EXTENDS Integers, Sequences, FiniteSets, SequencesExt

CONSTANTS
    Blocks,         \* block hashes
    NoBlock,        \* the empty hash
    Parent,         \* block -> its PreviousHash
    BestChains,     \* the chains the node may have: the block of each height
    FirstChain,     \* the node's chain when the indexer is first started
    Txs,            \* inscription transactions
    TxsOf,          \* block -> its inscription transactions, in order
    Needs,          \* tx -> the transactions without which it is not valid
    Kind,           \* tx -> what a fork makes of it, see Kinds
    Starts,         \* from: the configuration explorer.from_block, 0 is
                    \*   "resume"; rows: height -> hash, the rows of block
    Batch,          \* scan() handles at most so many blocks (100)
    MaxFaults       \* bound: failed calls and crashes

\* What a fork finds of an inscription that it takes back:
\*   "undone"     its info row and its effect are deleted;
\*   "consensus"  no statement of delInfo deletes its info row;
\*   "lasting"    part of its effect has no undo: the token of a drc-20 deploy
\*                and the file of a file deploy (no journal row, or one that
\*                finds nothing), the order of an order-v1 (its journal rows
\*                have no block number);
\*   "box"        delRevert leaves its box_revert row, which later forks obey
\*                as well, and what concerns the box's token may no longer be
\*                undone then;
\*   "fileTrade"  the undo of an order-v2 trade or cancel is always refused.
Kinds == {"undone", "consensus", "lasting", "box", "fileTrade"}

ASSUME ScanAssumption ==
    /\ NoBlock \notin Blocks
    /\ Parent \in [Blocks -> Blocks \cup {NoBlock}]
    /\ BestChains \subseteq Seq(Blocks)
    /\ \A c \in BestChains : \A h \in 2..Len(c) : Parent[c[h]] = c[h - 1]
    /\ FirstChain \in BestChains
    /\ TxsOf \in [Blocks -> Seq(Txs)]
    /\ Needs \in [Txs -> SUBSET Txs]
    /\ Kind \in [Txs -> Kinds]
    /\ \A s \in Starts : /\ s.from \in Nat
                        /\ DOMAIN s.rows \subseteq Nat
                        /\ IsFiniteSet(DOMAIN s.rows)
                        /\ \A h \in DOMAIN s.rows : s.rows[h] \in Blocks
    /\ Batch \in Nat \ {0}
    /\ MaxFaults \in Nat

\* What a chain is, and what a database to be resumed holds: a chain starts
\* at a block without a parent and has every transaction once; the rows are
\* the first blocks of a chain, from before the first inscription.
ASSUME ChainAssumption ==
    /\ \A c \in BestChains : c # <<>> => Parent[c[1]] = NoBlock
    /\ \A c \in BestChains : \A g, h \in DOMAIN c :
          \A i \in DOMAIN TxsOf[c[g]], j \in DOMAIN TxsOf[c[h]] :
             TxsOf[c[g]][i] = TxsOf[c[h]][j] => g = h /\ i = j
    /\ \A s \in Starts : s.from = 0 =>
          \E c \in BestChains : \E n \in 0..Len(c) :
             /\ s.rows = SubSeq(c, 1, n)
             /\ \A h \in 1..n : TxsOf[c[h]] = <<>>

VARIABLES
    from,       \* explorer.from_block
    chain,      \* the node's best chain
    block,      \* table block: height -> block_hash
    info,       \* info tables: tx -> block_number, order_status, source block
    journal,    \* the effects in the database, in order: tx, block_number
    leftover,   \* what forks have left behind in the tables: tx, block_number
    height,     \* Explorer.currentHeight
    limit,      \* blockCount of the scan() that is running
    pc,         \* where scan() is
    hash,       \* blockHash
    walk,       \* forkBack's own height
    localHash,  \* forkBack's localHash
    todo,       \* what is left of block.Tx
    faults,     \* failed calls and crashes so far
    lapses      \* ghost: what has happened that scan() cannot make good

durable == <<block, info, journal, leftover>>
inHand  == <<hash, walk, localHash, todo>>
vars    == <<from, chain, durable, height, limit, pc, inHand, faults, lapses>>

-----------------------------------------------------------------------------

\* Start: from_block, or the block after the highest row of table block.
Resume(rows) ==
    IF from # 0 THEN from
    ELSE IF DOMAIN rows = {} THEN 0
    ELSE 1 + CHOOSE h \in DOMAIN rows : \A g \in DOMAIN rows : g <= h

Valid(tx, done) == Needs[tx] \subseteq ToSet(done)

\* The effects of executing a sequence of transactions in order.
Replay(txs) ==
    LET done[n \in 0..Len(txs)] ==
          IF n = 0 THEN <<>>
          ELSE IF Valid(txs[n], done[n - 1]) THEN Append(done[n - 1], txs[n])
          ELSE done[n - 1]
    IN  done[Len(txs)]

\* The entries of blocks up to h but for those of gone, in order.
EntriesKept(entries, h, gone) ==
    LET kept[n \in 0..Len(entries)] ==
          IF n = 0 THEN <<>>
          ELSE IF entries[n].height <= h /\ entries[n].tx \notin gone
               THEN Append(kept[n - 1], entries[n])
          ELSE kept[n - 1]
    IN  kept[Len(entries)]

EntriesUpTo(entries, h) == EntriesKept(entries, h, {})

TxsIn(entries) == [i \in DOMAIN entries |-> entries[i].tx]

Lapse(when, what) == lapses' = IF when THEN lapses \cup {what} ELSE lapses

\* scan() returns: what it had in hand is gone, the height stays.
Return ==
    /\ pc' = "idle"
    /\ hash' = NoBlock /\ localHash' = NoBlock
    /\ walk' = 0 /\ todo' = <<>>

Init ==
    /\ \E s \in Starts : from = s.from /\ block = s.rows
    /\ chain = FirstChain
    /\ info = [t \in {} |-> NoBlock]
    /\ journal = <<>>
    /\ leftover = {}
    /\ height = Resume(block)
    /\ limit = 0
    /\ pc = "idle"
    /\ hash = NoBlock /\ localHash = NoBlock
    /\ walk = 0 /\ todo = <<>>
    /\ faults = 0
    /\ lapses = {}

-----------------------------------------------------------------------------
(* The node *)

\* New blocks, with or without a reorganisation: a longer chain wins.
NodeMoves ==
    /\ \E c \in BestChains :
          /\ Len(c) > Len(chain)
          /\ chain' = c
    /\ UNCHANGED <<from, durable, height, limit, pc, inHand, faults, lapses>>

-----------------------------------------------------------------------------
(* scan(), up to forkBack *)

\* Mutant: one block too few.
BeginShortScan ==
    /\ pc = "idle"
    /\ limit' = IF Len(chain) - height > Batch THEN height + Batch
                ELSE Len(chain) - 1
    /\ pc' = "loop"
    /\ UNCHANGED <<from, chain, durable, height, inHand, faults, lapses>>

\* GetBlockCount. The tip itself is left for a later scan.
BeginScan ==
    /\ pc = "idle"
    /\ limit' = IF Len(chain) - height > Batch THEN height + Batch ELSE Len(chain)
    /\ pc' = "loop"
    /\ UNCHANGED <<from, chain, durable, height, inHand, faults, lapses>>

EndScan ==
    /\ pc = "loop"
    /\ height >= limit
    /\ Return
    /\ UNCHANGED <<from, chain, durable, height, limit, faults, lapses>>

AtHead == pc = "loop" /\ height < limit /\ height \in DOMAIN chain

\* forkBack, no row for the block below: it is taken from the node, and the
\* next scan() goes on from there.
AdoptParent ==
    /\ AtHead
    /\ height - 1 \notin DOMAIN block
    /\ block' = [h \in DOMAIN block \cup {height - 1} |->
                   IF h = height - 1 THEN Parent[chain[height]] ELSE block[h]]
    /\ Return
    /\ UNCHANGED <<from, chain, info, journal, leftover, height, limit, faults, lapses>>

HeadMatches ==
    /\ AtHead
    /\ height - 1 \in DOMAIN block
    /\ block[height - 1] = Parent[chain[height]]
    /\ pc' = "fetch"
    /\ UNCHANGED <<from, chain, durable, height, limit, inHand, faults, lapses>>

HeadDiffers ==
    /\ AtHead
    /\ height - 1 \in DOMAIN block
    /\ block[height - 1] # Parent[chain[height]]
    /\ pc' = "walk"
    /\ hash' = chain[height]
    /\ localHash' = block[height - 1]
    /\ walk' = height
    /\ UNCHANGED <<from, chain, durable, height, limit, todo, faults, lapses>>

\* One turn of forkBack's loop. A missing row leaves localHash as it was.
LocalHashAt(h) == IF h \in DOMAIN block THEN block[h] ELSE localHash

WalkBack ==
    /\ pc = "walk"
    /\ hash # localHash
    /\ walk - 1 \in DOMAIN chain
    /\ LocalHashAt(walk - 1) # NoBlock
    /\ walk' = walk - 1
    /\ hash' = chain[walk - 1]
    /\ localHash' = LocalHashAt(walk - 1)
    /\ UNCHANGED <<from, chain, durable, height, limit, pc, todo, faults, lapses>>

\* Below the first block, or at an empty hash: an error.
TooDeep ==
    /\ pc = "walk"
    /\ hash # localHash
    /\ walk - 1 \in DOMAIN chain => LocalHashAt(walk - 1) = NoBlock

WalkFails ==
    /\ TooDeep
    /\ Return
    /\ UNCHANGED <<from, chain, durable, height, limit, faults, lapses>>

\* Mutant: off by one, the first abandoned block keeps its info rows.
DelInfoAbove(h) ==
    [t \in {u \in DOMAIN info : info[u].height <= h + 1 \/ Kind[u] = "consensus"}
        |-> info[t]]

DelInfo(h) ==
    [t \in {u \in DOMAIN info : info[u].height <= h \/ Kind[u] = "consensus"}
        |-> info[t]]

\* What a fork to h leaves behind in the tables.
LeftAbove(h) ==
    {e \in ToSet(journal) : e.height > h /\ Kind[e.tx] \in {"lasting", "box"}}
    \cup {[tx |-> t, height |-> info[t].height] :
            t \in {u \in DOMAIN info : info[u].height > h /\ Kind[u] = "consensus"}}

\* The inscriptions of some kinds of which forks have left something behind.
LeftBehind(kinds) == {e.tx : e \in {f \in leftover : Kind[f.tx] \in kinds}}

\* The boxes whose rows an earlier fork left, above h: boxFork deletes them, in
\* whatever block they have been deployed again.
DeletedAgain(h) == {e.tx : e \in {f \in leftover : f.height > h /\ Kind[f.tx] = "box"}}

\* Mutants: nothing is undone; off by one, the ancestor's effects are undone.
UndoNothing(h) == journal

UndoAncestorToo(h) == EntriesUpTo(journal, h - 1)

UndoJournal(h) == EntriesKept(journal, h, DeletedAgain(h))

AtAncestor == pc = "walk" /\ hash = localHash

\* An undo that is refused, at this scan and at every later one ...
NeverUndone(h) ==
    \E i \in DOMAIN journal : journal[i].height > h /\ Kind[journal[i].tx] = "fileTrade"

\* ... or one that may be, as a row it needs may be gone with a box.
PerhapsNotUndone == LeftBehind({"box"}) # {}

\* The common ancestor: fork() in one database transaction. It deletes the
\* info rows above it, undoes the journal (drc20Fork ...), deletes its rows
\* and scan() goes on with the ancestor itself, without another forkBack.
\* A lapse: something is left behind of what it undoes.
ForkCommit ==
    /\ AtAncestor
    /\ ~NeverUndone(walk)
    /\ info' = DelInfo(walk)
    /\ journal' = UndoJournal(walk)
    /\ leftover' = leftover \cup LeftAbove(walk)
    /\ height' = walk
    /\ pc' = "fetch"
    /\ hash' = NoBlock /\ localHash' = NoBlock /\ walk' = 0
    /\ Lapse(LeftAbove(walk) # {}, "leftBehind")
    /\ UNCHANGED <<from, chain, block, limit, todo, faults>>

\* An undo is refused: fork() is rolled back and scan() returns its error, to
\* come here again at the next tick.
ForkInDoubt == AtAncestor /\ (NeverUndone(walk) \/ PerhapsNotUndone)

ForkRefused ==
    /\ ForkInDoubt
    /\ Return
    /\ UNCHANGED <<from, chain, durable, height, limit, faults, lapses>>

-----------------------------------------------------------------------------
(* scan(), the transactions of a block *)

\* A lapse: the block read now is not the child of the last local one
\* (forkBack looked at another chain), or it takes the place of a block at
\* this height some of whose transactions are in the database already (and not
\* only what a fork left of them).
Unlinked(b) ==
    height - 1 \in DOMAIN block /\ Parent[b] # block[height - 1]

Replaces(b) ==
    \E t \in DOMAIN info \ LeftBehind({"consensus"}) :
       info[t].height >= height /\ info[t].block # b

\* GetBlockHash again, GetBlockVerboseBool.
Fetch ==
    /\ pc = "fetch"
    /\ height \in DOMAIN chain
    /\ hash' = chain[height]
    /\ todo' = TxsOf[chain[height]]
    /\ pc' = "txs"
    /\ Lapse(Unlinked(chain[height]) \/ Replaces(chain[height]), "otherBlock")
    /\ UNCHANGED <<from, chain, durable, height, limit, walk, localHash, faults>>

\* xDecode: an info row for the transaction exists, "already exist".
SkipKnown ==
    /\ pc = "txs" /\ todo # <<>>
    /\ Head(todo) \in DOMAIN info
    /\ todo' = Tail(todo)
    /\ UNCHANGED <<from, chain, durable, height, limit, pc, hash, walk, localHash,
                   faults, lapses>>

\* Mutant: decoding does not look for an earlier info row.
SaveInfoAgain ==
    /\ pc = "txs" /\ todo # <<>>
    /\ info' = [t \in DOMAIN info \cup {Head(todo)} |->
                  IF t = Head(todo)
                  THEN [height |-> height, block |-> hash, done |-> FALSE]
                  ELSE info[t]]
    /\ pc' = "exec"
    /\ UNCHANGED <<from, chain, block, journal, leftover, height, limit, inHand, faults, lapses>>

\* xDecode ends with DB.Save(info), order_status 1.
SaveInfo ==
    /\ pc = "txs" /\ todo # <<>>
    /\ Head(todo) \notin DOMAIN info
    /\ info' = [t \in DOMAIN info \cup {Head(todo)} |->
                  IF t = Head(todo)
                  THEN [height |-> height, block |-> hash, done |-> FALSE]
                  ELSE info[t]]
    /\ pc' = "exec"
    /\ UNCHANGED <<from, chain, block, journal, leftover, height, limit, inHand, faults, lapses>>

\* What forks have left behind decides too: it may be found where an earlier
\* inscription is needed, and may be in the way of the inscription itself (a
\* token is not deployed twice), depending on the rows.
Remains == LeftBehind({"lasting", "box"})

Unsure(tx) == (Needs[tx] \cup {tx}) \cap Remains # {}

\* executeX: verified and carried out in one database transaction that also
\* sets order_status to 0 ...
Execute ==
    /\ pc = "exec"
    /\ Needs[Head(todo)] \subseteq ToSet(TxsIn(journal)) \cup Remains
    /\ journal' = Append(journal, [tx |-> Head(todo), height |-> height])
    /\ info' = [info EXCEPT ![Head(todo)] =
                  [height |-> @.height, block |-> @.block, done |-> TRUE]]
    /\ todo' = Tail(todo)
    /\ pc' = "txs"
    /\ UNCHANGED <<from, chain, block, leftover, height, limit, hash, walk, localHash,
                   faults, lapses>>

\* ... or refused, and only err_info is written.
Refuse ==
    /\ pc = "exec"
    /\ ~Valid(Head(todo), TxsIn(journal)) \/ Unsure(Head(todo))
    /\ todo' = Tail(todo)
    /\ pc' = "txs"
    /\ UNCHANGED <<from, chain, durable, height, limit, hash, walk, localHash, faults,
                   lapses>>

\* Mutant: the row is written before the block's transactions are done.
SaveBlockEarly ==
    /\ pc = "txs"
    /\ block' = [h \in DOMAIN block \cup {height} |->
                   IF h = height THEN hash ELSE block[h]]
    /\ height' = height + 1
    /\ pc' = "loop"
    /\ hash' = NoBlock
    /\ todo' = <<>>
    /\ UNCHANGED <<from, chain, info, journal, leftover, limit, walk, localHash, faults,
                   lapses>>

SaveBlock ==
    /\ pc = "txs" /\ todo = <<>>
    /\ block' = [h \in DOMAIN block \cup {height} |->
                   IF h = height THEN hash ELSE block[h]]
    /\ height' = height + 1
    /\ pc' = "loop"
    /\ hash' = NoBlock
    /\ UNCHANGED <<from, chain, info, journal, leftover, limit, walk, localHash, todo,
                   faults, lapses>>

-----------------------------------------------------------------------------
(* Faults *)

Fault == faults < MaxFaults /\ faults' = faults + 1

\* A call of the node or the database fails and scan() returns the error.
CallFails ==
    /\ Fault
    /\ pc \notin {"idle", "exec"}
    /\ Return
    /\ UNCHANGED <<from, chain, durable, height, limit, lapses>>

\* A call inside xDecode fails: logged, and on to the next transaction.
DecodeFails ==
    /\ Fault
    /\ pc = "txs" /\ todo # <<>>
    /\ Head(todo) \notin DOMAIN info
    /\ todo' = Tail(todo)
    /\ Lapse(TRUE, "notDecoded")
    /\ UNCHANGED <<from, chain, durable, height, limit, pc, hash, walk, localHash>>

\* The database transaction of executeX fails: as if it had been refused.
ExecuteFails ==
    /\ Fault
    /\ pc = "exec"
    /\ todo' = Tail(todo)
    /\ pc' = "txs"
    /\ Lapse(Valid(Head(todo), TxsIn(journal)), "notExecuted")
    /\ UNCHANGED <<from, chain, durable, height, limit, hash, walk, localHash>>

\* The process dies and is started again. Lapses: an inscription was saved
\* and not yet executed; rows that a fork left above height make Start resume
\* too high (or from_block sends it back).
Crash ==
    /\ Fault
    /\ Return
    /\ height' = Resume(block)
    /\ limit' = 0
    /\ lapses' = lapses
         \cup (IF pc = "exec" /\ Valid(Head(todo), TxsIn(journal))
               THEN {"notExecuted"} ELSE {})
         \cup (IF Resume(block) # height THEN {"resumedElsewhere"} ELSE {})
    /\ UNCHANGED <<from, chain, durable>>

-----------------------------------------------------------------------------

Scanner ==
    \/ BeginScan \/ EndScan
    \/ AdoptParent \/ HeadMatches \/ HeadDiffers
    \/ WalkBack \/ WalkFails \/ ForkCommit \/ ForkRefused
    \/ Fetch \/ SkipKnown \/ SaveInfo \/ Execute \/ Refuse \/ SaveBlock

Faults == CallFails \/ DecodeFails \/ ExecuteFails \/ Crash

Next == NodeMoves \/ Scanner \/ Faults

Spec == Init /\ [][Next]_vars

\* The ticker of Start calls scan() again and again, and nothing else blocks
\* it: the calls it makes return sooner or later, most of them well.
FairSpec == Spec /\ WF_vars(Scanner)

-----------------------------------------------------------------------------
(* Properties *)

Infos == [height : Nat, block : Blocks, done : BOOLEAN]
Entries == [tx : Txs, height : Nat]

TypeOK ==
    /\ from \in Nat
    /\ chain \in BestChains
    /\ DOMAIN block \subseteq Nat /\ IsFiniteSet(DOMAIN block)
    /\ \A h \in DOMAIN block : block[h] \in Blocks \cup {NoBlock}
    /\ DOMAIN info \subseteq Txs /\ \A t \in DOMAIN info : info[t] \in Infos
    /\ journal \in Seq(Entries)
    /\ leftover \subseteq Entries
    /\ height \in Nat /\ limit \in Nat /\ walk \in Nat /\ faults \in Nat
    /\ pc \in {"idle", "loop", "walk", "fetch", "txs", "exec"}
    /\ hash \in Blocks \cup {NoBlock} /\ localHash \in Blocks \cup {NoBlock}
    /\ todo \in Seq(Txs)
    /\ lapses \subseteq {"otherBlock", "notDecoded", "notExecuted",
                         "resumedElsewhere", "leftBehind"}

\* Whatever fails, no inscription takes effect twice: neither when a block is
\* scanned again after a failed call, nor when a fork goes back to the common
\* ancestor, which is then scanned a second time, nor when two branches carry
\* the same transaction. (What a fork leaves behind is not counted here.)
AtMostOnce ==
    \A i, j \in DOMAIN journal : journal[i].tx = journal[j].tx => i = j

\* order_status 0 and the journal do not part: an info row says "done" if and
\* only if the effect is in the database, under the same block number, after
\* any sequence of crashes and forks. They part in two cases only: a row of
\* consensus_info whose block was abandoned keeps saying so, and its inscription
\* never takes effect again; and the effect of a box goes when a fork obeys a
\* row that an earlier one left. Relates delInfo to the forks and delRevert.
DoneMeansJournalled ==
    /\ \A t \in DOMAIN info \ LeftBehind({"consensus", "box"}) :
          info[t].done => \E i \in DOMAIN journal :
                            journal[i] = [tx |-> t, height |-> info[t].height]
    /\ \A i \in DOMAIN journal :
          /\ journal[i].tx \in DOMAIN info \ LeftBehind({"consensus"})
          /\ info[journal[i].tx] =
               [height |-> journal[i].height, block |-> info[journal[i].tx].block,
                done |-> TRUE]

\* The inductive invariant behind the two: every entry has its info row, and
\* an inscription that is about to be executed has a row and no entry.
TablesAgree ==
    /\ \A i \in DOMAIN journal :
          /\ journal[i].tx \in DOMAIN info
          /\ info[journal[i].tx].done
          /\ info[journal[i].tx].height = journal[i].height
          /\ journal[i].tx \notin LeftBehind({"consensus"})
    /\ \A t \in DOMAIN info :
          info[t].done => \/ \E i \in DOMAIN journal : journal[i].tx = t
                          \/ t \in LeftBehind({"consensus", "box"})
    /\ LeftBehind({"consensus"}) \subseteq DOMAIN info

InHandOK ==
    /\ pc \in {"txs", "exec"} => hash \in Blocks /\ height >= 1
    /\ pc = "exec" => /\ todo # <<>>
                      /\ Head(todo) \in DOMAIN info
                      /\ info[Head(todo)] =
                           [height |-> height, block |-> hash, done |-> FALSE]
                      /\ Head(todo) \notin LeftBehind({"consensus"})

TableInv == TypeOK /\ AtMostOnce /\ TablesAgree /\ InHandOK

\* The blocks below height, and their transactions.
LocalChain == [h \in 1..(height - 1) |->
                 IF h \in DOMAIN block THEN block[h] ELSE NoBlock]

TxsAt(rows, h) ==
    IF h \in DOMAIN rows /\ rows[h] # NoBlock THEN TxsOf[rows[h]] ELSE <<>>

TxsThrough(rows, n) ==
    LET txs[h \in 0..n] == IF h = 0 THEN <<>> ELSE txs[h - 1] \o TxsAt(rows, h)
    IN  IF n < 0 THEN <<>> ELSE txs[n]

\* Unless one of the lapses has occurred, the effects in the database are
\* those of replaying, in order, the blocks below height and a first part of
\* one more block that is their child: the block in hand if there is one, all
\* of whose transactions so far have been dealt with. (With from_block set
\* the rows before it are missing.)
Faithful ==
    from = 0 /\ lapses = {} =>
        LET before == TxsThrough(block, height - 1)
            done   == TxsIn(journal)
            From(b, n) == Replay(before \o SubSeq(TxsOf[b], 1, n))
            Between(b, n) == /\ IsPrefix(From(b, n), done)
                             /\ IsPrefix(done, From(b, Len(TxsOf[b])))
        IN  IF pc \in {"txs", "exec"}
            THEN Between(hash, Len(TxsOf[hash]) - Len(todo))
            ELSE \/ done = Replay(before)
                 \/ \E b \in Blocks :
                      /\ height - 1 \in DOMAIN block => Parent[b] = block[height - 1]
                      /\ Between(b, 0)

\* The inductive invariant behind Faithful. The rows below height are the
\* first blocks of a chain of the node, ...
ChainBelow(c) ==
    /\ height - 1 <= Len(c)
    /\ \A h \in 1..(height - 1) : h \in DOMAIN block /\ block[h] = c[h]

\* ... the effects and the info rows below each height are those of them, ...
BlocksDone ==
    /\ \A h \in 0..(height - 1) :
          TxsIn(EntriesUpTo(journal, h)) = Replay(TxsThrough(block, h))
    /\ \A h \in 1..(height - 1) : \A i \in DOMAIN TxsOf[block[h]] :
          /\ TxsOf[block[h]][i] \in DOMAIN info
          /\ info[TxsOf[block[h]][i]].height = h
    /\ \A t \in DOMAIN info :
          info[t].height < height =>
             /\ info[t].height \in 1..(height - 1)
             /\ info[t].block = block[info[t].height]
             /\ t \in ToSet(TxsOf[info[t].block])

\* ... and those at height are of the first m transactions of a child b.
Saved == IF pc = "exec" THEN {Head(todo)} ELSE {}

ChildOf(b) ==
    /\ \E c \in BestChains : height \in DOMAIN c /\ b = c[height]
    /\ height > 1 => Parent[b] = block[height - 1]

Partial(b, m) ==
    /\ m > 0 => ChildOf(b)
    /\ TxsIn(journal) = Replay(TxsThrough(block, height - 1) \o SubSeq(TxsOf[b], 1, m))
    /\ \A i \in 1..m : /\ TxsOf[b][i] \in DOMAIN info
                       /\ info[TxsOf[b][i]].height = height
    /\ \A t \in DOMAIN info \ Saved :
          info[t].height >= height =>
             /\ info[t].height = height
             /\ info[t].block = b
             /\ t \in ToSet(SubSeq(TxsOf[b], 1, m))

WalkOK ==
    /\ walk \in 1..height
    /\ \E c \in BestChains : walk \in DOMAIN c /\ hash = c[walk]
    /\ height - 1 \in DOMAIN block
    /\ localHash = block[IF walk = height THEN height - 1 ELSE walk]

\* What forkBack may have put below the first block is the empty hash.
RootOK == 0 \in DOMAIN block => block[0] = NoBlock

OnChain == \E c \in BestChains : ChainBelow(c)

NoneAbove == \A i \in DOMAIN journal : journal[i].height <= height

\* Of the block in hand k transactions have been gone through now, and m are
\* in the tables, from this time or from an earlier one.
InBlock ==
    \E k, m \in 0..Len(TxsOf[hash]) :
       /\ ChildOf(hash) /\ Partial(hash, m)
       /\ k <= m /\ (pc = "exec" => k = m)
       /\ todo = SubSeq(TxsOf[hash], k + 1, Len(TxsOf[hash]))

SomeBlock ==
    \/ height = 0 /\ journal = <<>> /\ DOMAIN info = {}
    \/ \E b \in Blocks : \E m \in 0..Len(TxsOf[b]) : Partial(b, m)

Unlapsed ==
    /\ leftover = {}
    /\ RootOK
    /\ OnChain
    /\ BlocksDone
    /\ NoneAbove
    /\ pc = "walk" => WalkOK
    /\ pc \in {"txs", "exec"} => InBlock
    /\ SomeBlock

ScanInv == TableInv /\ (from = 0 /\ lapses = {} => Unlapsed)

\* The finished blocks with their effects are a followed chain: a block counts
\* only when all of it is done, a fork takes back whole blocks, and a block
\* scanned halfway is never seen from the outside.
Settled == EntriesUpTo(journal, height - 1)

ReplayBlocks(blocks) == Replay(TxsThrough(blocks, Len(blocks)))

Followed ==
    INSTANCE FollowedChain
    WITH EffectsOf <- ReplayBlocks,
         indexed <- LocalChain,
         effects <- TxsIn(Settled),
         lapsed <- lapses # {} \/ from # 0

FollowsChain == Followed!AbsSpec

\* The scanner is where it cannot go on: at a fork that is refused, or may be;
\* with from_block, when it has followed two branches back beyond the first row
\* it has.
CannotGoOn == ForkInDoubt \/ (from # 0 /\ TooDeep)

\* The scanner catches up: failed calls, crashes and reorganisations over, it
\* comes to the node's tip and stays there (the tip itself waits), unless it
\* finds itself again and again where it cannot go on.
CatchesUp == []<>CannotGoOn \/ <>[](height = Len(chain))

\* And then, without a lapse, the database is the replay of the node's chain.
Converges ==
    \/ []<>CannotGoOn
    \/ <>[](from = 0 /\ lapses = {} =>
               /\ LocalChain = SubSeq(chain, 1, Len(chain) - 1)
               /\ TxsIn(journal) = Replay(TxsThrough(block, Len(chain) - 1)))
=============================================================================
