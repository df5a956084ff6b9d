----------------------------- MODULE Consensus -----------------------------
(***************************************************************************)
(* Consensus staking (explorer/consensus.go, storage/consensus.go). Every  *)
(* stake transaction opens a record of its own and moves its CARDI to an   *)
(* address of its own; one unstake, of the whole amount, closes the record *)
(* with a score for the blocks it lasted. The records have a journal,      *)
(* consensus_revert, next to the ledger's. The rows of consensus_info are  *)
(* not among those a fork deletes: a transaction takes effect once, and    *)
(* not again when a fork has undone it and it is mined again.              *)
(***************************************************************************)
EXTENDS Balances

CONSTANTS
    CARDI,
    Users,           \* addresses that send inscriptions
    Stakes,          \* stake transactions; the hash is the stake_id
    Holder, Amt,     \* what the stake transaction says
    Reserve,         \* stake_id -> reserves_address, a script hash
    Unstakes,        \* unstake transactions
    Sender, Names,   \* who sends it; the stake_id it names
    Funds,           \* the ledger to begin with
    Amounts,         \* amounts of transfers
    Q, SCALE,        \* fixed point: 2^Q is one; the unit of logarithms
    LN2_SCALED,      \* the logarithm of 2 in that unit
    None,            \* NULL
    MaxHeight,       \* bound: blocks
    MaxGifts         \* bound: transfers

Accounts == Users \cup {Reserve[s] : s \in Stakes}
Books == [{CARDI} -> [Accounts -> Nat]]
\* consensus_stake_record: the status is "active" where until is None. The score
\* is left to the formula below.
IsTable(r) ==
    /\ DOMAIN r \subseteq Stakes
    /\ \A s \in DOMAIN r : r[s].at \in Nat /\ r[s].until \in Nat \cup {None}
Reverts == [op : {"stake", "unstake"}, stake : Stakes, at : Nat]

ASSUME ConsensusAssumption ==
    /\ Holder \in [Stakes -> Users] /\ Amt \in [Stakes -> Nat]
    /\ \A s \in Stakes : Reserve[s] \notin Users
    /\ \A s, t \in Stakes : Reserve[s] = Reserve[t] => s = t
    /\ Stakes \cap Unstakes = {}
    /\ Sender \in [Unstakes -> Users] /\ Names \in [Unstakes -> Stakes]
    /\ Funds \in Books
    /\ Amounts \subseteq Nat
    /\ Q \in Nat \ {0} /\ SCALE \in Nat \ {0} /\ LN2_SCALED \in Nat
    \* the series at 2, 2 * (1/3 + 1/81 + 1/1215), is no more than ln 2
    /\ (842 * SCALE) \div 1215 <= LN2_SCALED
    /\ None \notin Nat
    /\ MaxHeight \in Nat /\ MaxGifts \in Nat

VARIABLES
    bal,        \* the ledger: tick -> address -> amount
    ended,      \* the ledger at the end of each finished block
    height,     \* Explorer.currentHeight
    seen,       \* tx_hash of consensus_info
    records,    \* consensus_stake_record: stake_id -> its row
    reverts,    \* consensus_revert: id -> row
    nextId,     \* the next id of consensus_revert
    gifts,      \* transfers so far
    recordsAt   \* ghost: the records at the end of each finished block

vars == <<bal, ended, height, seen, records, reverts, nextId, gifts, recordsAt>>

Ledger == INSTANCE CheckpointLedger
          WITH Ledgers <- Books, EmptyLedger <- Funds,
               now <- bal, atEnd <- ended, height <- height

-----------------------------------------------------------------------------
(* CalculateConsensusScoreByBlocks: amt * ln(1 + blocks), in integers *)

\* 1 shifted to the left, k times.
Power[k \in Nat] == IF k = 0 THEN 1 ELSE 2 * Power[k - 1]

\* BitLen - 1: n = a * 2^k with 1 <= a < 2.
Exponent(n) == CHOOSE k \in 0..n : Power[k] <= n /\ n < Power[k + 1]

\* That a, in fixed point.
Fraction(n) == (n * Power[Q]) \div Power[Exponent(n)]

\* ln a = 2 artanh y with y = (a - 1) / (a + 1), to the fifth power of y.
LogOfFraction(a) ==
    LET one == Power[Q]
        y   == ((a - one) * one) \div (a + one)
        y2  == (y * y) \div one
        y3  == (y2 * y) \div one
        y5  == (y3 * y2) \div one
    IN  (2 * (y + y3 \div 3 + y5 \div 5) * SCALE) \div one

\* Mutant: the part k * ln 2 is left out.
LogOfMantissa(n) == LogOfFraction(Fraction(n))

Log(n) == Exponent(n) * LN2_SCALED + LogOfFraction(Fraction(n))

Score(amt, blocks) == (amt * Log(1 + blocks)) \div SCALE

-----------------------------------------------------------------------------

Init ==
    /\ Ledger!AbsInit
    /\ seen = {}
    /\ records = [s \in {} |-> 0]
    /\ reverts = [i \in {} |-> 0]
    /\ nextId = 1
    /\ gifts = 0
    /\ recordsAt = [h \in {} |-> records]

\* consensusDecode: a transaction with an info row is not decoded again.
Decoded(x) == x \notin seen /\ seen' = seen \cup {x}

Journal(op, s) ==
    /\ reverts' = [i \in DOMAIN reverts \cup {nextId} |->
                     IF i = nextId THEN [op |-> op, stake |-> s, at |-> height]
                     ELSE reverts[i]]
    /\ nextId' = nextId + 1

\* verifyConsensusStake, consensusStake.
Stake(s) ==
    /\ Decoded(s)
    /\ CanMove(bal, CARDI, Holder[s], Reserve[s], Amt[s])
    /\ bal' = Move(bal, CARDI, Holder[s], Reserve[s], Amt[s])
    /\ records' = [t \in DOMAIN records \cup {s} |->
                     IF t = s THEN [at |-> height, until |-> None, score |-> None]
                     ELSE records[t]]
    /\ Journal("stake", s)
    /\ UNCHANGED <<ended, height, gifts, recordsAt>>

Active(s) == s \in DOMAIN records /\ records[s].until = None

Closed(s) ==
    [at |-> records[s].at, until |-> height,
     score |-> Score(Amt[s], height - records[s].at)]

\* verifyConsensusUnstake, consensusUnstake.
Unstake(x) ==
    LET s == Names[x] IN
    /\ Decoded(x)
    /\ Active(s)
    /\ Sender[x] = Holder[s]
    /\ CanMove(bal, CARDI, Reserve[s], Sender[x], Amt[s])
    /\ bal' = Move(bal, CARDI, Reserve[s], Sender[x], Amt[s])
    /\ records' = [records EXCEPT ![s] = Closed(s)]
    /\ Journal("unstake", s)
    /\ UNCHANGED <<ended, height, gifts, recordsAt>>

\* The info row is saved, and the inscription is refused, or lost in a crash.
Refused(x) ==
    /\ Decoded(x)
    /\ UNCHANGED <<bal, ended, height, records, reverts, nextId, gifts, recordsAt>>

\* A drc-20 transfer of CARDI, to an address of a stake as well.
Transfer(from, to, amt) ==
    /\ gifts < MaxGifts
    /\ gifts' = gifts + 1
    /\ CanMove(bal, CARDI, from, to, amt)
    /\ bal' = Move(bal, CARDI, from, to, amt)
    /\ UNCHANGED <<ended, height, seen, records, reverts, nextId, recordsAt>>

NextBlock ==
    /\ height < MaxHeight
    /\ Ledger!EndBlock
    /\ recordsAt' = [h \in 0..height |-> IF h = height THEN records ELSE recordsAt[h]]
    /\ UNCHANGED <<seen, records, reverts, nextId, gifts>>

-----------------------------------------------------------------------------
(* Forks *)

Above(h) == {i \in DOMAIN reverts : reverts[i].at > h}

RowsAbove(h, op, s) == {i \in Above(h) : reverts[i].op = op /\ reverts[i].stake = s}

\* ConsensusRevertUnstake wants the record. Rows are undone with falling ids:
\* it is gone if it never was, or if the row of its stake has been undone.
CanUndo(h) ==
    \A s \in Stakes : \A i \in RowsAbove(h, "unstake", s) :
        /\ s \in DOMAIN records
        /\ \A j \in RowsAbove(h, "stake", s) : j < i

Revoked(h) == {s \in Stakes : RowsAbove(h, "stake", s) # {}}

Reopened(h) == {s \in Stakes : RowsAbove(h, "unstake", s) # {}}

Reopen(r) == [at |-> r.at, until |-> None, score |-> 0]

\* Mutant: the record stays closed.
UndoneStakes(h) == [s \in DOMAIN records \ Revoked(h) |-> records[s]]

\* Mutant: the record stays.
UndoneUnstakes(h) ==
    [s \in DOMAIN records |-> IF s \in Reopened(h) THEN Reopen(records[s]) ELSE records[s]]

\* consensusFork: ConsensusRevertStake deletes the record,
\* ConsensusRevertUnstake opens it again and makes its score 0.
Undone(h) ==
    [s \in DOMAIN records \ Revoked(h) |->
        IF s \in Reopened(h) THEN Reopen(records[s]) ELSE records[s]]

\* fork: drc20Fork, consensusFork, delRevert, in one transaction. No row of
\* consensus_info is deleted.
Fork(h) ==
    /\ CanUndo(h)
    /\ Ledger!Rollback(h)
    /\ records' = Undone(h)
    /\ reverts' = [i \in DOMAIN reverts \ Above(h) |-> reverts[i]]
    /\ recordsAt' = [g \in 0..(h - 1) |-> recordsAt[g]]
    /\ UNCHANGED <<seen, nextId, gifts>>

-----------------------------------------------------------------------------

Next ==
    \/ \E s \in Stakes : Stake(s)
    \/ \E x \in Unstakes : Unstake(x)
    \/ \E x \in Stakes \cup Unstakes : Refused(x)
    \/ \E from \in Users, to \in Accounts, amt \in Amounts : Transfer(from, to, amt)
    \/ NextBlock
    \/ \E h \in DOMAIN ended : Fork(h)

Spec == Init /\ [][Next]_vars

-----------------------------------------------------------------------------
(* Properties *)

TypeOK ==
    /\ bal \in Books
    /\ height \in Nat
    /\ DOMAIN ended = 0..(height - 1) /\ DOMAIN recordsAt = DOMAIN ended
    /\ \A h \in DOMAIN ended : ended[h] \in Books /\ IsTable(recordsAt[h])
    /\ seen \subseteq Stakes \cup Unstakes
    /\ IsTable(records)
    /\ nextId \in Nat \ {0}
    /\ DOMAIN reverts \subseteq 1..(nextId - 1)
    /\ \A i \in DOMAIN reverts : reverts[i] \in Reverts
    /\ gifts \in Nat

\* Whoever has an open record can always take his CARDI back: the address of
\* the stake holds at least what was staked, after forks that undo stakes,
\* unstakes or both in the two journals (ConsensusUnstake).
Backed == \A s \in Stakes : Active(s) => Amt[s] <= bal[CARDI][Reserve[s]]

\* A fork to any finished block can be carried out: no unstake is undone after
\* its stake (consensusFork).
ForkNeverRefused == \A h \in DOMAIN ended : CanUndo(h)

\* The same records, but for the score of one that is open: it was NULL before
\* its unstake and is 0 after the fork (ConsensusRevertUnstake).
SameRecords(r, was) ==
    /\ DOMAIN r = DOMAIN was
    /\ \A s \in DOMAIN was :
          \/ r[s] = was[s]
          \/ r[s].at = was[s].at /\ r[s].until = None /\ was[s].until = None

\* A fork gives back the records of the block it returns to, with the blocks
\* and scores of those closed by then (consensusFork, delRevert).
ForkRestoresRecords ==
    [][height' < height => SameRecords(records', recordsAt[height'])]_vars

\* More CARDI for more blocks never has a smaller score, whatever forks came
\* between (ConsensusUnstake, CalculateConsensusScoreByBlocks).
ScoresGrow ==
    \A s, t \in DOMAIN records :
        /\ ~Active(s) /\ ~Active(t)
        /\ Amt[s] <= Amt[t]
        /\ records[s].until - records[s].at <= records[t].until - records[t].at
        => records[s].score <= records[t].score
=============================================================================
