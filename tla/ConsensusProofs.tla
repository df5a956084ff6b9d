-------------------------- MODULE ConsensusProofs --------------------------
(***************************************************************************)
(* Machine-checked proofs about Consensus, for every set of holders,       *)
(* stakes and unstakes and every bound; about SwapV2, in the second part.  *)
(***************************************************************************)
EXTENDS Consensus, SwapV2, DataLemmas

-----------------------------------------------------------------------------
(* Balances *)

LEMMA AccountFacts ==
    /\ \A u \in Users : u \in Accounts
    /\ \A s \in Stakes : Reserve[s] \in Accounts /\ Holder[s] \in Accounts /\ Amt[s] \in Nat
    /\ \A s \in Stakes : Reserve[s] \notin Users
    /\ \A s, t \in Stakes : Reserve[s] = Reserve[t] => s = t
    /\ \A x \in Unstakes : Names[x] \in Stakes /\ Sender[x] \in Accounts
  BY ConsensusAssumption DEF Accounts

\* A movement that is allowed keeps the ledger a ledger ...
LEMMA MoveType ==
    ASSUME NEW b \in Books, NEW from \in Accounts, NEW to \in Accounts, NEW amt \in Nat,
           CanMove(b, CARDI, from, to, amt)
    PROVE  Move(b, CARDI, from, to, amt) \in Books
  BY DEF Move, CanMove, Books

\* ... takes the amount from one balance, adds it to another, and leaves the
\* rest alone.
LEMMA MoveValue ==
    ASSUME NEW b \in Books, NEW from \in Accounts, NEW to \in Accounts, NEW amt \in Nat,
           CanMove(b, CARDI, from, to, amt), NEW a \in Accounts
    PROVE  Move(b, CARDI, from, to, amt)[CARDI][a] =
             IF a = from THEN b[CARDI][a] - amt
             ELSE IF a = to THEN b[CARDI][a] + amt
             ELSE b[CARDI][a]
  BY DEF Move, CanMove, Books

-----------------------------------------------------------------------------
(* The inductive invariant *)

\* Blocks never fall along the journal, so that undoing with falling ids is
\* undoing with falling blocks.
JournalOrdered ==
    /\ \A i \in DOMAIN reverts : reverts[i].at <= height
    /\ \A i, j \in DOMAIN reverts : i < j => reverts[i].at <= reverts[j].at

\* Nothing is known of a stake transaction without a row of consensus_info.
UnseenUntouched ==
    \A s \in Stakes : s \notin seen =>
        /\ s \notin DOMAIN records
        /\ \A i \in DOMAIN reverts : reverts[i].stake # s
        /\ \A h \in DOMAIN ended : s \notin DOMAIN recordsAt[h]

\* What was unstaked has a record, and was staked before.
UnstakesKnown ==
    \A i \in DOMAIN reverts : reverts[i].op = "unstake" =>
        /\ reverts[i].stake \in DOMAIN records
        /\ \A j \in DOMAIN reverts :
              reverts[j].op = "stake" /\ reverts[j].stake = reverts[i].stake => j < i

\* The ledgers a fork can give back cover the records open then.
PastBacked ==
    \A h \in DOMAIN ended, s \in Stakes :
        s \in DOMAIN recordsAt[h] /\ recordsAt[h][s].until = None
            => Amt[s] <= ended[h][CARDI][Reserve[s]]

\* The journal leads back to the records at the end of every finished block.
PastExplained == \A h \in DOMAIN ended : SameRecords(Undone(h), recordsAt[h])

IInv ==
    /\ TypeOK
    /\ JournalOrdered
    /\ UnseenUntouched
    /\ UnstakesKnown
    /\ Backed
    /\ PastBacked
    /\ PastExplained

-----------------------------------------------------------------------------
(* One lemma per action *)

LEMMA InitIInv == Init => IInv
  <1> SUFFICES ASSUME Init PROVE IInv
    OBVIOUS
  <1> USE DEF Init, Ledger!AbsInit
  <1>1. TypeOK
    BY ConsensusAssumption DEF TypeOK, IsTable
  <1>2. JournalOrdered /\ UnseenUntouched /\ UnstakesKnown
    BY DEF JournalOrdered, UnseenUntouched, UnstakesKnown
  <1>3. Backed /\ PastBacked /\ PastExplained
    BY DEF Backed, Active, PastBacked, PastExplained
  <1>4. QED
    BY <1>1, <1>2, <1>3 DEF IInv

LEMMA StakeKeepsIInv ==
    ASSUME IInv, NEW s \in Stakes, Stake(s)
    PROVE  IInv'
  <1> USE DEF IInv
  <1> DEFINE row == [op |-> "stake", stake |-> s, at |-> height]
  <1>1. /\ bal' = Move(bal, CARDI, Holder[s], Reserve[s], Amt[s])
        /\ CanMove(bal, CARDI, Holder[s], Reserve[s], Amt[s])
        /\ s \notin seen /\ seen' = seen \cup {s}
        /\ UNCHANGED <<ended, height, gifts, recordsAt>>
    BY DEF Stake, Decoded
  <1>2. /\ DOMAIN records' = DOMAIN records \cup {s}
        /\ records'[s] = [at |-> height, until |-> None, score |-> None]
        /\ \A t \in DOMAIN records : t # s => records'[t] = records[t]
    BY DEF Stake
  <1>3. /\ nextId \in Nat \ {0} /\ nextId' = nextId + 1
        /\ DOMAIN reverts' = DOMAIN reverts \cup {nextId}
        /\ nextId \notin DOMAIN reverts
        /\ reverts'[nextId] = row
        /\ \A i \in DOMAIN reverts : i \in Nat /\ i < nextId /\ reverts'[i] = reverts[i]
    BY DEF Stake, Journal, TypeOK
  <1>4. /\ s \notin DOMAIN records
        /\ \A i \in DOMAIN reverts : reverts[i].stake # s
        /\ \A h \in DOMAIN ended : s \notin DOMAIN recordsAt[h]
    BY <1>1 DEF UnseenUntouched
  <1>5. bal' \in Books
    BY <1>1, AccountFacts, MoveType DEF TypeOK
  <1>6. TypeOK'
    <2>1. IsTable(records')
      BY <1>2 DEF TypeOK, IsTable
    <2>2. \A i \in DOMAIN reverts' : reverts'[i] \in Reverts
      BY <1>3 DEF TypeOK, Reverts
    <2>3. QED
      BY <1>1, <1>3, <1>5, <2>1, <2>2 DEF TypeOK
  <1>7. JournalOrdered'
    BY <1>1, <1>3 DEF JournalOrdered, TypeOK, Reverts
  <1>8. UnseenUntouched'
    BY <1>1, <1>2, <1>3 DEF UnseenUntouched
  <1>9. UnstakesKnown'
    BY <1>2, <1>3, <1>4 DEF UnstakesKnown
  <1>10. Backed'
    <2> SUFFICES ASSUME NEW t \in Stakes, Active(t)'
                 PROVE  Amt[t] <= bal'[CARDI][Reserve[t]]
      BY DEF Backed
    <2>1. Reserve[t] # Holder[s] /\ Holder[s] \in Users
      BY ConsensusAssumption
    <2>2. bal[CARDI][Reserve[t]] \in Nat
      BY AccountFacts DEF TypeOK, Books
    <2>3. CASE t = s
      BY <1>1, <2>1, <2>2, <2>3, AccountFacts, MoveValue DEF TypeOK
    <2>4. CASE t # s
      <3>1. Amt[t] <= bal[CARDI][Reserve[t]]
        BY <1>2, <2>4 DEF Active, Backed
      <3>2. QED
        BY <1>1, <2>1, <2>2, <2>4, <3>1, AccountFacts, MoveValue DEF TypeOK
    <2>5. QED
      BY <2>3, <2>4
  <1>11. PastBacked'
    BY <1>1 DEF PastBacked
  <1>12. PastExplained'
    <2> SUFFICES ASSUME NEW h \in DOMAIN ended
                 PROVE  SameRecords(Undone(h)', recordsAt[h])
      BY <1>1 DEF PastExplained
    <2>1. h < height /\ h \in Nat /\ height \in Nat
      BY DEF TypeOK
    <2>2. s \in Revoked(h)'
      BY <1>3, <2>1 DEF Revoked, RowsAbove, Above
    <2>3. ASSUME NEW t \in Stakes, t # s, NEW op
          PROVE  RowsAbove(h, op, t)' = RowsAbove(h, op, t)
      BY <1>3, <2>3 DEF RowsAbove, Above
    <2>4. \A t \in Stakes : t # s => /\ (t \in Revoked(h)' <=> t \in Revoked(h))
                                     /\ (t \in Reopened(h)' <=> t \in Reopened(h))
      BY <2>3 DEF Revoked, Reopened
    <2>5. DOMAIN records \subseteq Stakes
      BY DEF TypeOK, IsTable
    <2>6. DOMAIN Undone(h)' = DOMAIN Undone(h)
      BY <1>2, <1>4, <2>2, <2>4, <2>5 DEF Undone
    <2>7. \A t \in DOMAIN Undone(h) : Undone(h)'[t] = Undone(h)[t]
      BY <1>2, <1>4, <2>2, <2>4, <2>5 DEF Undone
    <2>8. SameRecords(Undone(h), recordsAt[h])
      BY DEF PastExplained
    <2>9. QED
      BY <2>6, <2>7, <2>8 DEF SameRecords
  <1>13. QED
    BY <1>6, <1>7, <1>8, <1>9, <1>10, <1>11, <1>12

LEMMA UnstakeKeepsIInv ==
    ASSUME IInv, NEW x \in Unstakes, Unstake(x)
    PROVE  IInv'
  <1> USE DEF IInv
  <1> DEFINE s == Names[x]
  <1> DEFINE row == [op |-> "unstake", stake |-> s, at |-> height]
  <1>1. /\ bal' = Move(bal, CARDI, Reserve[s], Sender[x], Amt[s])
        /\ CanMove(bal, CARDI, Reserve[s], Sender[x], Amt[s])
        /\ seen' = seen \cup {x}
        /\ UNCHANGED <<ended, height, gifts, recordsAt>>
    BY DEF Unstake, Decoded
  <1>2. /\ s \in Stakes /\ s \in DOMAIN records /\ records[s].until = None
        /\ records[s].at \in Nat /\ height \in Nat
    BY AccountFacts DEF Unstake, Active, TypeOK, IsTable
  <1>3. /\ DOMAIN records' = DOMAIN records
        /\ records'[s].at = records[s].at /\ records'[s].until = height
        /\ \A t \in DOMAIN records : t # s => records'[t] = records[t]
    BY <1>2 DEF Unstake, Closed
  <1>4. /\ nextId \in Nat \ {0} /\ nextId' = nextId + 1
        /\ DOMAIN reverts' = DOMAIN reverts \cup {nextId}
        /\ nextId \notin DOMAIN reverts
        /\ reverts'[nextId] = row
        /\ \A i \in DOMAIN reverts : i \in Nat /\ i < nextId /\ reverts'[i] = reverts[i]
    BY DEF Unstake, Journal, TypeOK
  <1>5. bal' \in Books
    BY <1>1, <1>2, AccountFacts, MoveType DEF TypeOK
  <1>6. TypeOK'
    <2>1. IsTable(records')
      BY <1>2, <1>3 DEF TypeOK, IsTable
    <2>2. \A i \in DOMAIN reverts' : reverts'[i] \in Reverts
      BY <1>2, <1>4 DEF TypeOK, Reverts
    <2>3. QED
      BY <1>1, <1>4, <1>5, <2>1, <2>2 DEF TypeOK
  <1>7. JournalOrdered'
    BY <1>1, <1>4 DEF JournalOrdered, TypeOK, Reverts
  <1>8. UnseenUntouched'
    <2>1. s \in seen
      BY <1>2 DEF UnseenUntouched
    <2>2. QED
      BY <1>1, <1>3, <1>4, <2>1 DEF UnseenUntouched
  <1>9. UnstakesKnown'
    BY <1>2, <1>3, <1>4 DEF UnstakesKnown
  <1>10. Backed'
    <2> SUFFICES ASSUME NEW t \in Stakes, Active(t)'
                 PROVE  Amt[t] <= bal'[CARDI][Reserve[t]]
      BY DEF Backed
    <2>1. t # s
      BY <1>2, <1>3, ConsensusAssumption DEF Active
    <2>2. Amt[t] <= bal[CARDI][Reserve[t]]
      BY <1>3, <2>1 DEF Active, Backed
    <2>3. Reserve[t] # Reserve[s] /\ Reserve[t] # Sender[x]
      BY <1>2, <2>1, ConsensusAssumption
    <2>4. QED
      BY <1>1, <1>2, <2>2, <2>3, AccountFacts, MoveValue DEF TypeOK
  <1>11. PastBacked'
    BY <1>1 DEF PastBacked
  <1>12. PastExplained'
    <2> SUFFICES ASSUME NEW h \in DOMAIN ended
                 PROVE  SameRecords(Undone(h)', recordsAt[h])
      BY <1>1 DEF PastExplained
    <2>1. h < height /\ h \in Nat
      BY DEF TypeOK
    <2>2. s \in Reopened(h)'
      BY <1>2, <1>4, <2>1 DEF Reopened, RowsAbove, Above
    <2>3. ASSUME NEW t \in Stakes
          PROVE  /\ RowsAbove(h, "stake", t)' = RowsAbove(h, "stake", t)
                 /\ t # s => RowsAbove(h, "unstake", t)' = RowsAbove(h, "unstake", t)
      BY <1>4, <2>3 DEF RowsAbove, Above
    <2>4. /\ Revoked(h)' = Revoked(h)
          /\ \A t \in Stakes : t # s => (t \in Reopened(h)' <=> t \in Reopened(h))
      BY <2>3 DEF Revoked, Reopened
    <2>5. DOMAIN records \subseteq Stakes
      BY DEF TypeOK, IsTable
    <2>6. DOMAIN Undone(h)' = DOMAIN Undone(h)
      BY <1>3, <2>4, <2>5 DEF Undone
    <2>7. \A t \in DOMAIN Undone(h) : t # s => Undone(h)'[t] = Undone(h)[t]
      BY <1>3, <2>4, <2>5 DEF Undone
    <2>8. s \in DOMAIN Undone(h) =>
            /\ Undone(h)'[s].at = records[s].at /\ Undone(h)[s].at = records[s].at
            /\ Undone(h)'[s].until = None /\ Undone(h)[s].until = None
      BY <1>2, <1>3, <2>2, <2>4 DEF Undone, Reopen
    <2>9. SameRecords(Undone(h), recordsAt[h])
      BY DEF PastExplained
    <2>10. QED
      BY <2>6, <2>7, <2>8, <2>9 DEF SameRecords
  <1>13. QED
    BY <1>6, <1>7, <1>8, <1>9, <1>10, <1>11, <1>12

LEMMA RefusedKeepsIInv ==
    ASSUME IInv, NEW x \in Stakes \cup Unstakes, Refused(x)
    PROVE  IInv'
  <1>1. /\ UNCHANGED <<bal, ended, height, records, reverts, nextId, gifts, recordsAt>>
        /\ seen' = seen \cup {x}
    BY DEF Refused, Decoded
  <1>2. TypeOK'
    BY <1>1 DEF IInv, TypeOK, IsTable
  <1>3. JournalOrdered' /\ UnseenUntouched' /\ UnstakesKnown' /\ Backed' /\ PastBacked'
    BY <1>1 DEF IInv, JournalOrdered, UnseenUntouched, UnstakesKnown, Backed, Active, PastBacked
  <1>4. \A h \in DOMAIN ended : Undone(h)' = Undone(h)
    BY <1>1 DEF Undone, Revoked, Reopened, RowsAbove, Above
  <1>5. PastExplained'
    BY <1>1, <1>4 DEF IInv, PastExplained
  <1>6. QED
    BY <1>2, <1>3, <1>5 DEF IInv

LEMMA TransferKeepsIInv ==
    ASSUME IInv, NEW from \in Users, NEW to \in Accounts, NEW amt \in Amounts,
           Transfer(from, to, amt)
    PROVE  IInv'
  <1> USE DEF IInv
  <1>1. /\ UNCHANGED <<ended, height, seen, records, reverts, nextId, recordsAt>>
        /\ gifts' = gifts + 1
        /\ CanMove(bal, CARDI, from, to, amt)
        /\ bal' = Move(bal, CARDI, from, to, amt)
    BY DEF Transfer
  <1>2. amt \in Nat /\ from \in Accounts
    BY ConsensusAssumption DEF Accounts
  <1>3. TypeOK'
    BY <1>1, <1>2, MoveType DEF TypeOK, IsTable
  <1>4. JournalOrdered' /\ UnseenUntouched' /\ UnstakesKnown' /\ PastBacked'
    BY <1>1 DEF JournalOrdered, UnseenUntouched, UnstakesKnown, PastBacked
  <1>5. Backed'
    <2> SUFFICES ASSUME NEW t \in Stakes, Active(t)'
                 PROVE  Amt[t] <= bal'[CARDI][Reserve[t]]
      BY DEF Backed
    <2>1. Amt[t] <= bal[CARDI][Reserve[t]]
      BY <1>1 DEF Active, Backed
    <2>2. Reserve[t] # from /\ Reserve[t] \in Accounts /\ Amt[t] \in Nat
      BY AccountFacts
    <2>3. bal[CARDI][Reserve[t]] \in Nat
      BY <2>2 DEF TypeOK, Books
    <2>4. QED
      BY <1>1, <1>2, <2>1, <2>2, <2>3, MoveValue DEF TypeOK
  <1>6. \A h \in DOMAIN ended : Undone(h)' = Undone(h)
    BY <1>1 DEF Undone, Revoked, Reopened, RowsAbove, Above
  <1>7. PastExplained'
    BY <1>1, <1>6 DEF PastExplained
  <1>8. QED
    BY <1>3, <1>4, <1>5, <1>7

LEMMA NextBlockKeepsIInv ==
    ASSUME IInv, NextBlock
    PROVE  IInv'
  <1> USE DEF IInv
  <1>1. /\ UNCHANGED <<bal, seen, records, reverts, nextId, gifts>>
        /\ height \in Nat /\ height' = height + 1
        /\ DOMAIN ended = 0..(height - 1) /\ DOMAIN recordsAt = 0..(height - 1)
        /\ ended' = [h \in 0..height |-> IF h = height THEN bal ELSE ended[h]]
        /\ recordsAt' = [h \in 0..height |-> IF h = height THEN records ELSE recordsAt[h]]
    BY DEF NextBlock, Ledger!EndBlock, TypeOK
  <1>2. /\ DOMAIN ended' = 0..height /\ DOMAIN recordsAt' = 0..height
        /\ ended'[height] = bal /\ recordsAt'[height] = records
        /\ \A h \in DOMAIN ended : ended'[h] = ended[h] /\ recordsAt'[h] = recordsAt[h]
        /\ \A h \in 0..height : h = height \/ h \in DOMAIN ended
    BY <1>1
  <1>3. TypeOK'
    BY <1>1, <1>2 DEF TypeOK, IsTable
  <1>4. JournalOrdered'
    BY <1>1 DEF JournalOrdered, TypeOK, Reverts
  <1>5. UnseenUntouched' /\ UnstakesKnown' /\ Backed'
    BY <1>1, <1>2 DEF UnseenUntouched, UnstakesKnown, Backed, Active
  <1>6. PastBacked'
    BY <1>1, <1>2 DEF PastBacked, Backed, Active
  <1>7. PastExplained'
    <2> SUFFICES ASSUME NEW h \in 0..height
                 PROVE  SameRecords(Undone(h), recordsAt'[h])
      BY <1>1, <1>2 DEF PastExplained, Undone, Revoked, Reopened, RowsAbove, Above
    <2>1. CASE h = height
      <3>1. Above(height) = {}
        BY DEF Above, JournalOrdered, TypeOK, Reverts
      <3>2. Revoked(height) = {} /\ Reopened(height) = {}
        BY <3>1 DEF Revoked, Reopened, RowsAbove
      <3>3. QED
        BY <1>2, <2>1, <3>2 DEF SameRecords, Undone
    <2>2. CASE h \in DOMAIN ended
      BY <1>2, <2>2 DEF PastExplained
    <2>3. QED
      BY <1>2, <2>1, <2>2
  <1>8. QED
    BY <1>3, <1>4, <1>5, <1>6, <1>7

\* What a fork to g leaves of the journal and of the records.
LEMMA ForkEffect ==
    ASSUME IInv, NEW g \in DOMAIN ended, Fork(g)
    PROVE  /\ g \in Nat /\ height \in Nat /\ g < height /\ height' = g
           /\ seen' = seen /\ nextId' = nextId /\ gifts' = gifts
           /\ bal' = ended[g]
           /\ DOMAIN ended' = 0..(g - 1) /\ DOMAIN recordsAt' = 0..(g - 1)
           /\ \A h \in 0..(g - 1) : /\ h \in DOMAIN ended /\ ended'[h] = ended[h]
                                    /\ recordsAt'[h] = recordsAt[h]
           /\ DOMAIN reverts' = {i \in DOMAIN reverts : reverts[i].at <= g}
           /\ \A i \in DOMAIN reverts' : reverts'[i] = reverts[i]
           /\ records' = Undone(g)
  <1>1. /\ g \in Nat /\ height \in Nat /\ g < height /\ DOMAIN ended = 0..(height - 1)
        /\ \A i \in DOMAIN reverts : reverts[i].at \in Nat
    BY DEF IInv, TypeOK, Reverts
  <1>2. DOMAIN reverts \ Above(g) = {i \in DOMAIN reverts : reverts[i].at <= g}
    BY <1>1 DEF Above
  <1>3. QED
    BY <1>1, <1>2 DEF Fork, Ledger!Rollback


\* Undoing the journal down to h after a fork to a later block g is undoing it
\* down to h at once.
LEMMA ForkComposes ==
    ASSUME IInv, NEW g \in DOMAIN ended, Fork(g), NEW h \in 0..(g - 1)
    PROVE  Undone(h)' = Undone(h)
  <1>1. /\ g \in Nat /\ h \in Nat /\ h < g
        /\ DOMAIN reverts' = {i \in DOMAIN reverts : reverts[i].at <= g}
        /\ \A i \in DOMAIN reverts' : reverts'[i] = reverts[i]
        /\ \A i \in DOMAIN reverts : reverts[i].at \in Nat
        /\ records' = Undone(g)
    <2>1. \A i \in DOMAIN reverts : reverts[i].at \in Nat
      BY DEF IInv, TypeOK, Reverts
    <2>2. /\ g \in Nat /\ records' = Undone(g)
          /\ DOMAIN reverts' = {i \in DOMAIN reverts : reverts[i].at <= g}
          /\ \A i \in DOMAIN reverts' : reverts'[i] = reverts[i]
      BY ForkEffect
    <2>3. h \in Nat /\ h < g
      BY <2>2
    <2>4. QED
      BY <2>1, <2>2, <2>3
  <1>2. ASSUME NEW op, NEW s
        PROVE  RowsAbove(h, op, s) = RowsAbove(g, op, s) \cup RowsAbove(h, op, s)'
    <2>1. RowsAbove(h, op, s)' = {i \in RowsAbove(h, op, s) : reverts[i].at <= g}
      BY <1>1 DEF RowsAbove, Above
    <2>2. RowsAbove(g, op, s) = {i \in RowsAbove(h, op, s) : reverts[i].at > g}
      BY <1>1 DEF RowsAbove, Above
    <2>3. \A i \in RowsAbove(h, op, s) : reverts[i].at <= g \/ reverts[i].at > g
      BY <1>1 DEF RowsAbove, Above
    <2>4. QED
      BY <2>1, <2>2, <2>3
  <1>3. /\ Revoked(h) = Revoked(g) \cup Revoked(h)'
        /\ Reopened(h) = Reopened(g) \cup Reopened(h)'
    BY <1>2 DEF Revoked, Reopened
  <1>4. DOMAIN Undone(g) = DOMAIN records \ Revoked(g)
    BY DEF Undone
  <1>5. \A s \in DOMAIN Undone(g) :
          Undone(g)[s] = IF s \in Reopened(g) THEN Reopen(records[s]) ELSE records[s]
    BY DEF Undone
  <1>6. Undone(h)' = [s \in DOMAIN records' \ Revoked(h)' |->
                        IF s \in Reopened(h)' THEN Reopen(records'[s]) ELSE records'[s]]
    BY DEF Undone, Reopen
  <1>7. DOMAIN records' \ Revoked(h)' = DOMAIN records \ Revoked(h)
    BY <1>1, <1>3, <1>4
  <1>8. ASSUME NEW s \in DOMAIN records \ Revoked(h)
        PROVE  (IF s \in Reopened(h)' THEN Reopen(records'[s]) ELSE records'[s])
             = (IF s \in Reopened(h) THEN Reopen(records[s]) ELSE records[s])
    <2>1. s \in DOMAIN Undone(g)
      BY <1>3, <1>4
    <2>2. records'[s] = IF s \in Reopened(g) THEN Reopen(records[s]) ELSE records[s]
      BY <1>1, <1>5, <2>1
    <2>3. Reopen(Reopen(records[s])) = Reopen(records[s])
      BY DEF Reopen
    <2>4. QED
      BY <1>3, <2>2, <2>3
  <1>9. QED
    BY <1>6, <1>7, <1>8 DEF Undone

LEMMA ForkKeepsIInv ==
    ASSUME IInv, NEW g \in DOMAIN ended, Fork(g)
    PROVE  IInv'
  <1>1. /\ g \in Nat /\ height \in Nat /\ g < height /\ height' = g
        /\ seen' = seen /\ nextId' = nextId /\ gifts' = gifts
        /\ bal' = ended[g]
        /\ DOMAIN ended' = 0..(g - 1) /\ DOMAIN recordsAt' = 0..(g - 1)
        /\ \A h \in 0..(g - 1) : /\ h \in DOMAIN ended /\ ended'[h] = ended[h]
                                 /\ recordsAt'[h] = recordsAt[h]
        /\ DOMAIN reverts' = {i \in DOMAIN reverts : reverts[i].at <= g}
        /\ \A i \in DOMAIN reverts' : reverts'[i] = reverts[i]
        /\ records' = Undone(g)
    BY ForkEffect
  <1>2. SameRecords(records', recordsAt[g])
    BY <1>1 DEF IInv, PastExplained
  <1>3. /\ DOMAIN records' = DOMAIN records \ Revoked(g)
        /\ \A s \in DOMAIN records' :
              /\ records'[s].at = records[s].at
              /\ records'[s].until = None \/ records'[s].until = records[s].until
    BY <1>1 DEF Undone, Reopen
  <1>4. TypeOK'
    <2>1. IsTable(records')
      BY <1>3 DEF IInv, TypeOK, IsTable
    <2>2. bal' \in Books /\ \A h \in DOMAIN ended' : ended'[h] \in Books /\ IsTable(recordsAt'[h])
      BY <1>1 DEF IInv, TypeOK, IsTable
    <2>3. /\ DOMAIN reverts' \subseteq 1..(nextId' - 1)
          /\ \A i \in DOMAIN reverts' : reverts'[i] \in Reverts
      BY <1>1 DEF IInv, TypeOK
    <2>4. QED
      BY <1>1, <2>1, <2>2, <2>3 DEF IInv, TypeOK
  <1>5. JournalOrdered'
    BY <1>1 DEF IInv, JournalOrdered
  <1>6. UnseenUntouched'
    BY <1>1, <1>3 DEF IInv, UnseenUntouched
  <1>7. UnstakesKnown'
    <2> SUFFICES ASSUME NEW i \in DOMAIN reverts', reverts'[i].op = "unstake"
                 PROVE  /\ reverts'[i].stake \in DOMAIN records'
                        /\ \A j \in DOMAIN reverts' :
                              reverts'[j].op = "stake" /\ reverts'[j].stake = reverts'[i].stake
                                => j < i
      BY DEF UnstakesKnown
    <2> DEFINE s == reverts[i].stake
    <2>1. /\ i \in DOMAIN reverts /\ reverts[i].at <= g /\ reverts'[i] = reverts[i]
          /\ reverts[i].at \in Nat
      BY <1>1 DEF IInv, TypeOK, Reverts
    <2>2. s \in DOMAIN records
      BY <2>1 DEF IInv, UnstakesKnown
    <2>3. ASSUME NEW j \in RowsAbove(g, "stake", s)
          PROVE  FALSE
      <3>1. /\ j \in DOMAIN reverts /\ reverts[j].at > g /\ reverts[j].at \in Nat
            /\ reverts[j].op = "stake" /\ reverts[j].stake = s
        BY DEF RowsAbove, Above, IInv, TypeOK, Reverts
      <3>2. j < i
        BY <2>1, <3>1 DEF IInv, UnstakesKnown
      <3>3. reverts[j].at <= reverts[i].at
        BY <2>1, <3>1, <3>2 DEF IInv, JournalOrdered
      <3>4. QED
        BY <1>1, <2>1, <3>1, <3>3
    <2>4. s \in DOMAIN records'
      BY <1>3, <2>2, <2>3 DEF Revoked
    <2>5. QED
      BY <1>1, <2>1, <2>4 DEF IInv, UnstakesKnown
  <1>8. Backed'
    <2> SUFFICES ASSUME NEW s \in Stakes, Active(s)'
                 PROVE  Amt[s] <= bal'[CARDI][Reserve[s]]
      BY DEF Backed
    <2>1. s \in DOMAIN recordsAt[g] /\ recordsAt[g][s].until = None
      BY <1>2 DEF Active, SameRecords
    <2>2. QED
      BY <1>1, <2>1 DEF IInv, PastBacked
  <1>9. PastBacked'
    BY <1>1 DEF IInv, PastBacked
  <1>10. PastExplained'
    <2> SUFFICES ASSUME NEW h \in 0..(g - 1)
                 PROVE  SameRecords(Undone(h)', recordsAt'[h])
      BY <1>1 DEF PastExplained
    <2>1. Undone(h)' = Undone(h)
      BY ForkComposes
    <2>2. QED
      BY <1>1, <2>1 DEF IInv, PastExplained
  <1>11. QED
    BY <1>4, <1>5, <1>6, <1>7, <1>8, <1>9, <1>10 DEF IInv

LEMMA NextKeepsIInv == IInv /\ [Next]_vars => IInv'
  <1> SUFFICES ASSUME IInv, [Next]_vars PROVE IInv'
    OBVIOUS
  <1>1. CASE \E s \in Stakes : Stake(s)
    BY <1>1, StakeKeepsIInv
  <1>2. CASE \E x \in Unstakes : Unstake(x)
    BY <1>2, UnstakeKeepsIInv
  <1>3. CASE \E x \in Stakes \cup Unstakes : Refused(x)
    BY <1>3, RefusedKeepsIInv
  <1>4. CASE \E from \in Users, to \in Accounts, amt \in Amounts : Transfer(from, to, amt)
    BY <1>4, TransferKeepsIInv
  <1>5. CASE NextBlock
    BY <1>5, NextBlockKeepsIInv
  <1>6. CASE \E h \in DOMAIN ended : Fork(h)
    BY <1>6, ForkKeepsIInv
  <1>7. CASE UNCHANGED vars
    <2>1. TypeOK'
      BY <1>7 DEF vars, IInv, TypeOK, IsTable
    <2>2. JournalOrdered' /\ UnseenUntouched' /\ UnstakesKnown' /\ Backed' /\ PastBacked'
      BY <1>7 DEF vars, IInv, JournalOrdered, UnseenUntouched, UnstakesKnown, Backed, Active,
                  PastBacked
    <2>3. \A h \in DOMAIN ended : Undone(h)' = Undone(h)
      BY <1>7 DEF vars, Undone, Revoked, Reopened, RowsAbove, Above
    <2>4. PastExplained'
      BY <1>7, <2>3 DEF vars, IInv, PastExplained
    <2>5. QED
      BY <2>1, <2>2, <2>4 DEF IInv
  <1>8. QED
    BY <1>1, <1>2, <1>3, <1>4, <1>5, <1>6, <1>7 DEF Next

-----------------------------------------------------------------------------
(* The score *)

LEMMA PowerIs ==
    /\ Power \in [Nat -> Nat \ {0}]
    /\ Power[0] = 1
    /\ \A k \in Nat : Power[k + 1] = 2 * Power[k]
  <1> DEFINE X == Nat \ {0}
             step == [p \in X \X Nat |-> 2 * p[1]]
  <1>1. step \in StepsOn(X) /\ 1 \in X
    BY DEF StepsOn
  <1>2. \A x \in X, k \in Nat : step[<<x, k>>] = 2 * x
    OBVIOUS
  <1> HIDE DEF step
  <1>3. PICK f \in [Nat -> X] : f[0] = 1 /\ \A k \in Nat : f[k + 1] = step[<<f[k], k>>]
    <2> HIDE DEF X
    <2>1. QED
      BY <1>1, RecursionExists
  <1>4. ASSUME NEW k \in Nat PROVE f[k] = IF k = 0 THEN 1 ELSE 2 * f[k - 1]
    <2>1. CASE k = 0
      BY <1>3, <2>1
    <2>2. CASE k # 0
      <3>1. k - 1 \in Nat /\ (k - 1) + 1 = k
        BY <2>2
      <3>2. f[k] = step[<<f[k - 1], k - 1>>] /\ f[k - 1] \in X
        BY <1>3, <3>1
      <3>3. QED
        BY <1>2, <2>2, <3>1, <3>2
    <2>3. QED
      BY <2>1, <2>2
  <1>5. f = [k \in Nat |-> IF k = 0 THEN 1 ELSE 2 * f[k - 1]]
    BY <1>3, <1>4
  <1>6. Power = [k \in Nat |-> IF k = 0 THEN 1 ELSE 2 * Power[k - 1]]
    BY <1>5, Zenon DEF Power
  <1>7. Power[0] = 1
    BY <1>6
  <1>8. ASSUME NEW k \in Nat PROVE Power[k + 1] = 2 * Power[k]
    <2>1. k + 1 \in Nat /\ k + 1 # 0 /\ (k + 1) - 1 = k
      OBVIOUS
    <2>2. QED
      BY <1>6, <2>1
  <1>9. \A k \in Nat : Power[k] \in X
    <2> DEFINE S == {k \in Nat : Power[k] \in X}
    <2>1. 0 \in S
      BY <1>7
    <2>2. \A k \in S : k + 1 \in S
      BY <1>8
    <2>3. S = Nat
      <3> HIDE DEF S
      <3>1. S \in SUBSET Nat
        BY DEF S
      <3>2. QED
        BY <2>1, <2>2, <3>1, NaturalInduction
    <2>4. QED
      BY <2>3
  <1>10. Power \in [Nat -> Nat \ {0}]
    BY <1>6, <1>9
  <1>11. QED
    BY <1>7, <1>8, <1>10

LEMMA PowerGrows ==
    ASSUME NEW i \in Nat, NEW j \in Nat, i <= j
    PROVE  Power[i] <= Power[j]
  <1> DEFINE S == {d \in Nat : Power[i] <= Power[i + d]}
  <1>1. 0 \in S
    BY PowerIs
  <1>2. ASSUME NEW d \in S PROVE d + 1 \in S
    <2>1. i + d \in Nat /\ i + (d + 1) = (i + d) + 1
      OBVIOUS
    <2>2. Power[(i + d) + 1] = 2 * Power[i + d] /\ Power[i + d] \in Nat /\ Power[i] \in Nat
      BY <2>1, PowerIs
    <2>3. QED
      BY <2>1, <2>2
  <1>3. S = Nat
    <2> HIDE DEF S
    <2>1. S \in SUBSET Nat
      BY DEF S
    <2>2. QED
      BY <1>1, <1>2, <2>1, NaturalInduction
  <1>4. j - i \in Nat /\ i + (j - i) = j
    OBVIOUS
  <1>5. QED
    BY <1>3, <1>4

LEMMA PowerExceeds ==
    ASSUME NEW n \in Nat
    PROVE  n < Power[n]
  <1> DEFINE S == {k \in Nat : k < Power[k]}
  <1>1. 0 \in S
    BY PowerIs
  <1>2. ASSUME NEW k \in S PROVE k + 1 \in S
    <2>1. Power[k + 1] = 2 * Power[k] /\ Power[k] \in Nat /\ k < Power[k]
      BY PowerIs
    <2>2. QED
      BY <2>1
  <1>3. S = Nat
    <2> HIDE DEF S
    <2>1. S \in SUBSET Nat
      BY DEF S
    <2>2. QED
      BY <1>1, <1>2, <2>1, NaturalInduction
  <1>4. QED
    BY <1>3

\* The exponent is that of the greatest power that is not above n.
LEMMA ExponentIs ==
    ASSUME NEW n \in Nat \ {0}
    PROVE  /\ Exponent(n) \in Nat
           /\ Power[Exponent(n)] <= n /\ n < Power[Exponent(n) + 1]
  <1> DEFINE S == {k \in Nat : n < Power[k]}
  <1>1. n \in S
    BY PowerExceeds
  <1>2. PICK k \in S : \A j \in S : k <= j
    <2> HIDE DEF S
    <2>1. S \in SUBSET Nat /\ S # {}
      BY <1>1 DEF S
    <2>2. QED
      BY <2>1, LeastNatural
  <1>3. k \in Nat /\ n < Power[k] /\ k <= n /\ k # 0
    BY <1>1, <1>2, PowerIs
  <1>4. k - 1 \in 0..n /\ k - 1 \in Nat /\ (k - 1) + 1 = k /\ k - 1 \notin S
    BY <1>2, <1>3
  <1>5. Power[k - 1] <= n
    <2>1. Power[k - 1] \in Nat
      BY <1>4, PowerIs
    <2>2. QED
      BY <1>4, <2>1
  <1>6. \E e \in 0..n : Power[e] <= n /\ n < Power[e + 1]
    BY <1>3, <1>4, <1>5
  <1>7. QED
    BY <1>6 DEF Exponent

LEMMA ExponentGrows ==
    ASSUME NEW n \in Nat \ {0}, NEW m \in Nat \ {0}, n <= m
    PROVE  Exponent(n) <= Exponent(m)
  <1> DEFINE i == Exponent(n)
             j == Exponent(m)
  <1>1. i \in Nat /\ j \in Nat /\ Power[i] <= n /\ m < Power[j + 1]
    BY ExponentIs
  <1> HIDE DEF i, j
  <1>2. ASSUME j + 1 <= i PROVE FALSE
    <2>1. Power[j + 1] <= Power[i] /\ Power[j + 1] \in Nat /\ Power[i] \in Nat
      BY <1>1, <1>2, PowerGrows, PowerIs
    <2>2. QED
      BY <1>1, <2>1
  <1>3. QED
    BY <1>1, <1>2 DEF i, j

One == Power[Q]

LEMMA OneIs == One \in Nat \ {0} /\ SCALE \in Nat \ {0} /\ LN2_SCALED \in Nat /\ Q \in Nat
  <1>1. Q \in Nat
    BY ConsensusAssumption
  <1>2. QED
    BY <1>1, PowerIs, ConsensusAssumption DEF One

\* The fraction is at least one and less than two.
LEMMA FractionIs ==
    ASSUME NEW n \in Nat \ {0}
    PROVE  Fraction(n) \in Nat /\ One <= Fraction(n) /\ Fraction(n) < 2 * One
  <1> DEFINE p == Power[Exponent(n)]
             a == (n * One) \div p
  <1>1. Power[Exponent(n) + 1] = 2 * p /\ p \in Nat \ {0} /\ p <= n /\ n < 2 * p
    BY ExponentIs, PowerIs
  <1>2. Fraction(n) = a
    BY DEF Fraction, One
  <1>3. One \in Nat \ {0} /\ n * One \in Nat
    BY OneIs
  <1> HIDE DEF p, a
  <1>4. a \in Nat /\ p * a <= n * One /\ n * One < p * a + p
    BY <1>1, <1>3, DivFacts DEF a
  <1>5. One * p <= One * n /\ One * (n + 1) <= One * (2 * p)
    BY <1>1, <1>3, CommonFactor
  <1>6. /\ One * p = p * One /\ One * n = n * One
        /\ One * (n + 1) = n * One + One /\ One * (2 * p) = p * (2 * One)
    BY <1>1, <1>3
  <1>7. /\ p * One \in Nat /\ p * (2 * One) \in Nat /\ p * a \in Nat /\ p * (a + 1) = p * a + p
    BY <1>1, <1>3, <1>4
  <1>8. p * One < p * (a + 1) /\ p * a < p * (2 * One)
    <2>1. p * One <= n * One /\ n * One + One <= p * (2 * One)
      BY <1>5, <1>6
    <2>2. n * One < p * (a + 1)
      BY <1>4, <1>7
    <2>3. p * (a + 1) \in Nat
      BY <1>1, <1>4
    <2>4. QED
      BY <1>3, <1>4, <1>7, <2>1, <2>2, <2>3
  <1>9. ~(a + 1 <= One) /\ ~(2 * One <= a)
    <2>1. /\ a + 1 <= One => p * (a + 1) <= p * One
          /\ 2 * One <= a => p * (2 * One) <= p * a
      BY <1>1, <1>3, <1>4, CommonFactor
    <2>2. p * (a + 1) \in Nat
      BY <1>1, <1>4
    <2>3. QED
      BY <1>7, <1>8, <2>1, <2>2
  <1>10. QED
    BY <1>2, <1>3, <1>4, <1>9

\* The parts of the logarithm.
Y(a) == ((a - One) * One) \div (a + One)
Y2(a) == (Y(a) * Y(a)) \div One
Y3(a) == (Y2(a) * Y(a)) \div One
Y5(a) == (Y3(a) * Y2(a)) \div One
Series(a) == Y(a) + Y3(a) \div 3 + Y5(a) \div 5

LEMMA LogIs == \A a : LogOfFraction(a) = (2 * Series(a) * SCALE) \div One
  BY DEF LogOfFraction, Series, Y5, Y3, Y2, Y, One

\* Shifting a product of small numbers gives a small one.
LEMMA ProductSmall ==
    ASSUME NEW u \in Nat, NEW v \in Nat, NEW one \in Nat \ {0},
           NEW c \in Nat \ {0}, NEW d \in Nat \ {0}, c * u <= one, d * v <= one
    PROVE  (u * v) \div one \in Nat /\ (c * d) * ((u * v) \div one) <= one
  <1> DEFINE q == (u * v) \div one
  <1>1. u * v \in Nat
    OBVIOUS
  <1>2. q \in Nat /\ one * q <= u * v
    BY <1>1, DivFacts
  <1> HIDE DEF q
  <1>3. (c * u) * (d * v) <= one * one
    <2>1. c * u \in Nat /\ d * v \in Nat
      OBVIOUS
    <2>2. one * (d * v) <= one * one
      BY <2>1, CommonFactor
    <2>3. (c * u) * (d * v) <= one * (d * v)
      <3>1. CASE d * v = 0
        BY <2>1, <3>1
      <3>2. CASE d * v # 0
        <4>1. (d * v) * (c * u) <= (d * v) * one
          BY <2>1, <3>2, CommonFactor
        <4>2. QED
          BY <2>1, <4>1
      <3>3. QED
        BY <3>1, <3>2
    <2>4. (c * u) * (d * v) \in Nat /\ one * (d * v) \in Nat /\ one * one \in Nat
      BY <2>1
    <2>5. QED
      BY <2>2, <2>3, <2>4
  <1>4. c * d \in Nat \ {0} /\ one * q \in Nat
    BY <1>2
  <1>5. (c * d) * (one * q) <= (c * d) * (u * v)
    BY <1>1, <1>2, <1>4, CommonFactor
  <1>6. (c * d) * (u * v) = (c * u) * (d * v) /\ (c * d) * (one * q) = one * ((c * d) * q)
    BY <1>2
  <1>7. one * ((c * d) * q) <= one * one
    <2>1. (c * d) * (u * v) \in Int /\ (c * d) * (one * q) \in Int /\ one * one \in Int
      BY <1>1, <1>4
    <2>2. QED
      BY <1>3, <1>5, <1>6, <2>1
  <1>8. (c * d) * q \in Int
    BY <1>2, <1>4
  <1>9. QED
    BY <1>2, <1>7, <1>8, CommonFactor DEF q

\* y is at most a third of one, and its powers shrink accordingly.
LEMMA SeriesIs ==
    ASSUME NEW a \in Nat, One <= a, a < 2 * One
    PROVE  /\ Y(a) \in Nat /\ Y2(a) \in Nat /\ Y3(a) \in Nat /\ Y5(a) \in Nat
           /\ Series(a) \in Nat /\ 1215 * Series(a) <= 421 * One
  <1> DEFINE o == One
             y == Y(a)
             y2 == Y2(a)
             y3 == Y3(a)
             y5 == Y5(a)
  <1>1. o \in Nat \ {0}
    BY OneIs
  <1>2. y \in Nat /\ 3 * y <= o
    <2> DEFINE b == a + o
               z == (a - o) * o
    <2>1. a - o \in Nat /\ b \in Nat \ {0} /\ z \in Nat /\ 3 * (a - o) <= b
      BY <1>1
    <2>2. y = z \div b
      BY DEF Y
    <2>3. o * (3 * (a - o)) <= o * b /\ 3 * z = o * (3 * (a - o))
      BY <1>1, <2>1, CommonFactor
    <2> HIDE DEF o, y, b, z
    <2>4. y \in Nat /\ b * y <= z
      BY <2>1, <2>2, DivFacts
    <2>5. b * (3 * y) = 3 * (b * y) /\ o * b = b * o /\ b * y \in Nat /\ b * o \in Nat
      BY <1>1, <2>1, <2>4
    <2>6. b * (3 * y) <= b * o
      BY <2>1, <2>3, <2>4, <2>5
    <2>7. QED
      BY <1>1, <2>1, <2>4, <2>6, CommonFactor
  <1>3. /\ y2 = (y * y) \div o /\ y3 = (y2 * y) \div o /\ y5 = (y3 * y2) \div o
        /\ Series(a) = y + y3 \div 3 + y5 \div 5
    BY DEF Y2, Y3, Y5, Series
  <1> HIDE DEF o, y, y2, y3, y5
  <1>4. y2 \in Nat /\ (3 * 3) * y2 <= o
    BY <1>1, <1>2, <1>3, ProductSmall
  <1>5. y3 \in Nat /\ (9 * 3) * y3 <= o
    <2>1. 9 * y2 <= o
      BY <1>4
    <2>2. QED
      BY <1>1, <1>2, <1>3, <1>4, <2>1, ProductSmall
  <1>6. y5 \in Nat /\ (27 * 9) * y5 <= o
    <2>1. 9 * y2 <= o /\ 27 * y3 <= o
      BY <1>4, <1>5
    <2>2. y2 \in Nat /\ y3 \in Nat /\ 9 \in Nat \ {0} /\ 27 \in Nat \ {0}
      BY <1>4, <1>5
    <2>3. (y3 * y2) \div o \in Nat /\ (27 * 9) * ((y3 * y2) \div o) <= o
      BY ONLY <1>1, <2>1, <2>2, ProductSmall
    <2>4. QED
      BY <1>3, <2>3
  <1>7. /\ y3 \div 3 \in Nat /\ 3 * (y3 \div 3) <= y3
        /\ y5 \div 5 \in Nat /\ 5 * (y5 \div 5) <= y5
    BY <1>5, <1>6
  <1>8. Series(a) \in Nat /\ 1215 * Series(a) <= 421 * o
    BY <1>1, <1>2, <1>3, <1>5, <1>6, <1>7
  <1>9. QED
    BY <1>2, <1>4, <1>5, <1>6, <1>8 DEF o, y, y2, y3, y5

\* The logarithm of a fraction is no more than that of two.
LEMMA LogBelowTwo ==
    ASSUME NEW a \in Nat, One <= a, a < 2 * One
    PROVE  LogOfFraction(a) \in Nat /\ LogOfFraction(a) <= LN2_SCALED
  <1> DEFINE s == Series(a)
             l == (2 * s * SCALE) \div One
  <1>1. /\ One \in Nat \ {0} /\ SCALE \in Nat \ {0} /\ s \in Nat /\ 1215 * s <= 421 * One
        /\ LogOfFraction(a) = l
    BY OneIs, SeriesIs, LogIs
  <1> HIDE DEF s, l
  <1>2. 2 * s * SCALE \in Nat
    BY <1>1
  <1>3. l \in Nat /\ One * l <= 2 * s * SCALE
    BY <1>1, <1>2, DivFacts DEF l
  <1>4. (2 * SCALE) * (1215 * s) <= (2 * SCALE) * (421 * One)
    BY <1>1, CommonFactor
  <1>5. /\ (2 * SCALE) * (1215 * s) = 1215 * (2 * s * SCALE)
        /\ (2 * SCALE) * (421 * One) = One * (842 * SCALE)
        /\ 1215 * (One * l) = One * (1215 * l)
        /\ One * l \in Nat
    BY <1>1, <1>3
  <1>6. One * (1215 * l) <= One * (842 * SCALE)
    <2> DEFINE w == 2 * s * SCALE
               b == One * (842 * SCALE)
               c == One * l
    <2>1. w \in Nat /\ c \in Nat /\ b \in Nat /\ c <= w /\ 1215 * w <= b
      BY <1>1, <1>2, <1>3, <1>4, <1>5
    <2> HIDE DEF w, b, c
    <2>2. 1215 * c <= b
      BY <2>1
    <2>3. QED
      BY <1>5, <2>2 DEF b, c
  <1>7. 1215 * l <= 842 * SCALE
    BY <1>1, <1>3, <1>6, CommonFactor
  <1>8. l <= (842 * SCALE) \div 1215
    BY <1>1, <1>3, <1>7
  <1>9. (842 * SCALE) \div 1215 <= LN2_SCALED /\ LN2_SCALED \in Nat
    BY ConsensusAssumption
  <1>10. QED
    BY <1>1, <1>3, <1>8, <1>9

\* A product shifted grows with its factors.
LEMMA ProductGrows ==
    ASSUME NEW u \in Nat, NEW v \in Nat, NEW u2 \in Nat, NEW v2 \in Nat,
           NEW one \in Nat \ {0}, u <= u2, v <= v2
    PROVE  (u * v) \div one <= (u2 * v2) \div one
  <1>1. u * v <= u2 * v2
    <2>1. u * v <= u * v2
      BY CommonFactor
    <2>2. u * v2 <= u2 * v2
      <3>1. v2 * u <= v2 * u2
        BY CommonFactor
      <3>2. QED
        BY <3>1
    <2>3. u * v \in Nat /\ u * v2 \in Nat /\ u2 * v2 \in Nat
      OBVIOUS
    <2>4. QED
      BY <2>1, <2>2, <2>3
  <1>2. u * v \in Nat /\ u2 * v2 \in Nat
    OBVIOUS
  <1>3. (u * v) * one <= (u2 * v2) * one
    <2>1. one * (u * v) <= one * (u2 * v2)
      BY <1>1, <1>2, CommonFactor
    <2>2. QED
      BY <1>2, <2>1
  <1>4. QED
    BY <1>2, <1>3, DivMonotone

LEMMA LogOfFractionGrows ==
    ASSUME NEW a \in Nat, NEW b \in Nat, One <= a, a <= b, b < 2 * One
    PROVE  LogOfFraction(a) <= LogOfFraction(b)
  <1> DEFINE o == One
  <1>1. o \in Nat \ {0} /\ SCALE \in Nat \ {0} /\ a < 2 * o /\ o <= b
    BY OneIs
  <1>2. /\ Y(a) \in Nat /\ Y2(a) \in Nat /\ Y3(a) \in Nat /\ Y5(a) \in Nat /\ Series(a) \in Nat
        /\ Y(b) \in Nat /\ Y2(b) \in Nat /\ Y3(b) \in Nat /\ Y5(b) \in Nat /\ Series(b) \in Nat
    BY <1>1, SeriesIs
  <1>3. Y(a) <= Y(b)
    <2> DEFINE r == (a - o) * o
               s == (b - o) * o
               c == a + o
               d == b + o
    <2>1. /\ a - o \in Nat /\ b - o \in Nat /\ r \in Nat /\ s \in Nat
          /\ c \in Nat \ {0} /\ d \in Nat \ {0}
      BY <1>1
    <2>2. (a - o) * d <= (b - o) * c
      <3>1. (b - o) * c - (a - o) * d = (2 * o) * (b - a)
        BY <1>1
      <3>2. (2 * o) * (b - a) \in Nat /\ (b - o) * c \in Int /\ (a - o) * d \in Int
        BY <1>1
      <3>3. QED
        BY <3>1, <3>2
    <2>3. o * ((a - o) * d) <= o * ((b - o) * c)
      <3>1. (a - o) * d \in Int /\ (b - o) * c \in Int
        BY <2>1
      <3>2. QED
        BY <1>1, <2>2, <3>1, CommonFactor
    <2>4. r * d = o * ((a - o) * d) /\ s * c = o * ((b - o) * c)
      BY <1>1, <2>1
    <2>5. Y(a) = r \div c /\ Y(b) = s \div d
      BY DEF Y
    <2> HIDE DEF r, s, c, d
    <2>6. r * d <= s * c
      BY <2>3, <2>4
    <2>7. QED
      BY <2>1, <2>5, <2>6, DivMonotone
  <1>4. Y2(a) <= Y2(b)
    BY <1>1, <1>2, <1>3, ProductGrows DEF Y2
  <1>5. Y3(a) <= Y3(b)
    BY <1>1, <1>2, <1>3, <1>4, ProductGrows DEF Y3
  <1>6. Y5(a) <= Y5(b)
    BY <1>1, <1>2, <1>4, <1>5, ProductGrows DEF Y5
  <1>7. Series(a) <= Series(b)
    BY <1>2, <1>3, <1>5, <1>6 DEF Series
  <1>8. (2 * Series(a) * SCALE) \div One <= (2 * Series(b) * SCALE) \div One
    <2> DEFINE u == 2 * Series(a)
               v == 2 * Series(b)
    <2>1. u \in Nat /\ v \in Nat /\ u <= v /\ SCALE \in Nat /\ SCALE <= SCALE
      BY <1>1, <1>2, <1>7
    <2> HIDE DEF u, v
    <2>2. (u * SCALE) \div One <= (v * SCALE) \div One
      BY <1>1, <2>1, ProductGrows
    <2>3. QED
      BY <2>2 DEF u, v
  <1>9. QED
    BY <1>8, LogIs

LEMMA LogGrows ==
    ASSUME NEW n \in Nat \ {0}, NEW m \in Nat \ {0}, n <= m
    PROVE  Log(n) \in Nat /\ Log(m) \in Nat /\ Log(n) <= Log(m)
  <1> DEFINE i == Exponent(n)
             j == Exponent(m)
             x == LogOfFraction(Fraction(n))
             y == LogOfFraction(Fraction(m))
             L == LN2_SCALED
  <1>1. /\ i \in Nat /\ j \in Nat /\ i <= j /\ L \in Nat
        /\ Log(n) = i * L + x /\ Log(m) = j * L + y
    BY ExponentIs, ExponentGrows, OneIs DEF Log
  <1>2. /\ Fraction(n) \in Nat /\ One <= Fraction(n) /\ Fraction(n) < 2 * One
        /\ Fraction(m) \in Nat /\ One <= Fraction(m) /\ Fraction(m) < 2 * One
    BY FractionIs
  <1>3. x \in Nat /\ x <= L /\ y \in Nat
    BY <1>2, LogBelowTwo
  <1>4. ASSUME i = j PROVE x <= y
    <2> DEFINE p == Power[i]
    <2>1. p \in Nat \ {0} /\ One \in Nat \ {0} /\ n * One \in Nat /\ m * One \in Nat
      BY <1>1, PowerIs, OneIs
    <2>2. Fraction(n) = (n * One) \div p /\ Fraction(m) = (m * One) \div p
      BY <1>4 DEF Fraction, One
    <2> HIDE DEF p, i, j
    <2>3. Fraction(n) <= Fraction(m)
      <3>1. n \in Nat /\ m \in Nat /\ One \in Nat /\ One <= One
        BY <2>1
      <3>2. (n * One) \div p <= (m * One) \div p
        BY <2>1, <3>1, ProductGrows
      <3>3. QED
        BY <2>2, <3>2
    <2>4. QED
      BY <1>2, <2>3, LogOfFractionGrows
  <1> HIDE DEF i, j, x, y, L
  <1>5. i * L \in Nat /\ j * L \in Nat
    BY <1>1
  <1>6. CASE i = j
    BY <1>1, <1>3, <1>4, <1>5, <1>6
  <1>7. CASE i + 1 <= j
    <2>1. L * (i + 1) <= L * j
      BY <1>1, <1>7
    <2>2. L * (i + 1) = i * L + L /\ L * j = j * L
      BY <1>1
    <2>3. QED
      BY <1>1, <1>3, <1>5, <2>1, <2>2
  <1>8. QED
    BY <1>1, <1>6, <1>7

\* More CARDI, or more blocks: no smaller a score.
LEMMA ScoreGrows ==
    ASSUME NEW a \in Nat, NEW b \in Nat, NEW d \in Nat, NEW e \in Nat, a <= b, d <= e
    PROVE  Score(a, d) <= Score(b, e)
  <1>1. 1 + d \in Nat \ {0} /\ 1 + e \in Nat \ {0} /\ 1 + d <= 1 + e
    OBVIOUS
  <1>2. Log(1 + d) \in Nat /\ Log(1 + e) \in Nat /\ Log(1 + d) <= Log(1 + e)
    BY <1>1, LogGrows
  <1>3. SCALE \in Nat \ {0}
    BY OneIs
  <1>4. QED
    BY <1>2, <1>3, ProductGrows DEF Score

-----------------------------------------------------------------------------
(* Theorems *)

\* The invariant of the two journals: the one of the ledger and the one of the
\* records always lead back to states that belong together.
THEOREM ConsensusInvariant == Spec => []IInv
  BY InitIInv, NextKeepsIInv, PTL DEF Spec

\* Whoever has an open record can always take his CARDI back, after any number
\* of forks (verifyConsensusUnstake finds the balance).
THEOREM StakesAreBacked == Spec => []Backed
  <1>1. IInv => Backed
    BY DEF IInv
  <1>2. QED
    BY <1>1, ConsensusInvariant, PTL

\* Balances stay natural numbers, and the records and journal rows rows of
\* their tables (ConsensusStakeRecord, ConsensusRevert).
THEOREM ConsensusTypeCorrect == Spec => []TypeOK
  <1>1. IInv => TypeOK
    BY DEF IInv
  <1>2. QED
    BY <1>1, ConsensusInvariant, PTL

\* consensusFork never meets an unstake whose record is gone, and so fork can
\* return to every block there has been.
THEOREM ForksAreNeverRefused == Spec => []ForkNeverRefused
  <1>1. ASSUME IInv PROVE ForkNeverRefused
    <2> SUFFICES ASSUME NEW h \in DOMAIN ended, NEW s \in Stakes,
                        NEW i \in RowsAbove(h, "unstake", s)
                 PROVE  /\ s \in DOMAIN records
                        /\ \A j \in RowsAbove(h, "stake", s) : j < i
      BY DEF ForkNeverRefused, CanUndo
    <2>1. i \in DOMAIN reverts /\ reverts[i].op = "unstake" /\ reverts[i].stake = s
      BY DEF RowsAbove, Above
    <2>2. QED
      BY <1>1, <2>1 DEF IInv, UnstakesKnown, RowsAbove, Above
  <1>2. QED
    BY <1>1, ConsensusInvariant, PTL

\* A fork gives back the records of the block it returns to (consensusFork).
THEOREM RecordsAreRestored == Spec => ForkRestoresRecords
  <1>1. ASSUME IInv, [Next]_vars, height' < height
        PROVE  SameRecords(records', recordsAt[height'])
    <2>1. height \in Nat
      BY <1>1 DEF IInv, TypeOK
    <2>2. PICK g \in DOMAIN ended : Fork(g)
      <3>1. ASSUME height' = height \/ height' = height + 1
            PROVE  FALSE
        BY <1>1, <2>1, <3>1
      <3>2. ~ UNCHANGED vars
        BY <3>1 DEF vars
      <3>3. ~ NextBlock
        BY <3>1 DEF NextBlock, Ledger!EndBlock
      <3>4. \A s \in Stakes : ~ Stake(s)
        BY <3>1 DEF Stake
      <3>5. \A x \in Unstakes : ~ Unstake(x)
        BY <3>1 DEF Unstake
      <3>6. \A x \in Stakes \cup Unstakes : ~ Refused(x)
        BY <3>1 DEF Refused
      <3>7. \A from \in Users, to \in Accounts, amt \in Amounts : ~ Transfer(from, to, amt)
        BY <3>1 DEF Transfer
      <3>8. QED
        BY <1>1, <3>2, <3>3, <3>4, <3>5, <3>6, <3>7 DEF Next
    <2>3. height' = g /\ records' = Undone(g)
      BY <1>1, <2>2, ForkEffect
    <2>4. QED
      BY <1>1, <2>3 DEF IInv, PastExplained
  <1>2. QED
    BY <1>1, ConsensusInvariant, PTL DEF ForkRestoresRecords, Spec

-----------------------------------------------------------------------------
(* Scores *)

\* A closed record has the score of the blocks it lasted, and no block knows a
\* stake of a later one.
Scored(s, r) ==
    r.until # None => r.at <= r.until /\ r.score = Score(Amt[s], r.until - r.at)

ScoreInv ==
    /\ \A s \in DOMAIN records : records[s].at <= height /\ Scored(s, records[s])
    /\ \A h \in DOMAIN ended : \A s \in DOMAIN recordsAt[h] : recordsAt[h][s].at <= h

LEMMA ScoreInvStep ==
    ASSUME IInv, ScoreInv, [Next]_vars
    PROVE  ScoreInv'
  <1>1. /\ height \in Nat /\ DOMAIN ended = 0..(height - 1) /\ DOMAIN recordsAt = DOMAIN ended
        /\ IsTable(records)
    BY DEF IInv, TypeOK
  <1>2. ASSUME UNCHANGED <<records, height, ended, recordsAt>> PROVE ScoreInv'
    BY <1>2 DEF ScoreInv, Scored
  <1>3. ASSUME NEW s \in Stakes, Stake(s) PROVE ScoreInv'
    <2>1. /\ UNCHANGED <<height, ended, recordsAt>>
          /\ records' = [t \in DOMAIN records \cup {s} |->
                           IF t = s THEN [at |-> height, until |-> None, score |-> None]
                           ELSE records[t]]
      BY <1>3 DEF Stake
    <2>2. ASSUME NEW t \in DOMAIN records'
          PROVE  records'[t].at <= height /\ Scored(t, records'[t])
      <3>1. CASE t = s
        BY <1>1, <2>1, <3>1 DEF Scored
      <3>2. CASE t # s
        <4>1. t \in DOMAIN records /\ records'[t] = records[t]
          BY <2>1, <3>2
        <4>2. QED
          BY <4>1 DEF ScoreInv
      <3>3. QED
        BY <3>1, <3>2
    <2>3. QED
      BY <2>1, <2>2 DEF ScoreInv, Scored
  <1>4. ASSUME NEW x \in Unstakes, Unstake(x) PROVE ScoreInv'
    <2> DEFINE s == Names[x]
    <2>1. /\ UNCHANGED <<height, ended, recordsAt>>
          /\ s \in DOMAIN records
          /\ records' = [records EXCEPT ![s] = Closed(s)]
      BY <1>4 DEF Unstake, Active
    <2>2. /\ DOMAIN records' = DOMAIN records /\ records'[s] = Closed(s)
          /\ \A t \in DOMAIN records \ {s} : records'[t] = records[t]
      BY <1>1, <2>1
    <2>3. records[s].at \in Nat /\ records[s].at <= height
      BY <1>1, <2>1 DEF IsTable, ScoreInv
    <2>4. Closed(s).at <= height /\ Scored(s, Closed(s))
      BY <2>3 DEF Closed, Scored
    <2>5. ASSUME NEW t \in DOMAIN records'
          PROVE  records'[t].at <= height /\ Scored(t, records'[t])
      <3>1. CASE t = s
        BY <2>2, <2>4, <3>1
      <3>2. CASE t # s
        <4>1. t \in DOMAIN records /\ records'[t] = records[t]
          BY <2>2, <3>2
        <4>2. QED
          BY <4>1 DEF ScoreInv
      <3>3. QED
        BY <3>1, <3>2
    <2>6. QED
      BY <2>1, <2>5 DEF ScoreInv, Scored
  <1>5. ASSUME NextBlock PROVE ScoreInv'
    <2>1. /\ records' = records /\ height' = height + 1
          /\ DOMAIN ended' = 0..height
          /\ recordsAt' = [h \in 0..height |-> IF h = height THEN records ELSE recordsAt[h]]
      BY <1>5 DEF NextBlock, Ledger!EndBlock
    <2>2. \A s \in DOMAIN records : records[s].at \in Nat /\ records[s].at <= height
      BY <1>1 DEF IsTable, ScoreInv
    <2>3. ASSUME NEW h \in 0..height
          PROVE  \A s \in DOMAIN recordsAt'[h] : recordsAt'[h][s].at <= h
      <3>1. CASE h = height
        BY <1>1, <2>1, <2>2, <3>1
      <3>2. CASE h # height
        <4>1. h \in DOMAIN ended /\ recordsAt'[h] = recordsAt[h]
          BY <1>1, <2>1, <3>2
        <4>2. QED
          BY <4>1 DEF ScoreInv
      <3>3. QED
        BY <3>1, <3>2
    <2>4. \A s \in DOMAIN records : records[s].at <= height + 1
      BY <1>1, <2>2
    <2>5. QED
      BY <2>1, <2>3, <2>4 DEF ScoreInv, Scored
  <1>6. ASSUME NEW g \in DOMAIN ended, Fork(g) PROVE ScoreInv'
    <2>1. /\ height' = g /\ records' = Undone(g)
          /\ DOMAIN ended' = 0..(g - 1)
          /\ recordsAt' = [h \in 0..(g - 1) |-> recordsAt[h]]
      BY <1>6 DEF Fork, Ledger!Rollback
    <2>2. SameRecords(Undone(g), recordsAt[g])
      BY DEF IInv, PastExplained
    <2>3. ASSUME NEW s \in DOMAIN Undone(g)
          PROVE  Undone(g)[s].at <= g /\ Scored(s, Undone(g)[s])
      <3>1. s \in DOMAIN recordsAt[g] /\ Undone(g)[s].at = recordsAt[g][s].at
        BY <2>2 DEF SameRecords
      <3>2. recordsAt[g][s].at <= g
        BY <3>1 DEF ScoreInv
      <3>3. s \in DOMAIN records
        BY DEF Undone
      <3>4. Undone(g)[s] = Reopen(records[s]) \/ Undone(g)[s] = records[s]
        BY DEF Undone
      <3>5. Scored(s, Reopen(records[s])) /\ Scored(s, records[s])
        BY <3>3 DEF ScoreInv, Scored, Reopen
      <3>6. QED
        BY <3>1, <3>2, <3>4, <3>5
    <2>4. \A h \in 0..(g - 1) : h \in DOMAIN ended
      BY <1>1
    <2>5. QED
      BY <2>1, <2>3, <2>4 DEF ScoreInv, Scored
  <1>7. CASE \E x \in Stakes \cup Unstakes : Refused(x)
    BY <1>2, <1>7 DEF Refused
  <1>8. CASE \E from \in Users, to \in Accounts, amt \in Amounts : Transfer(from, to, amt)
    BY <1>2, <1>8 DEF Transfer
  <1>9. CASE UNCHANGED vars
    BY <1>2, <1>9 DEF vars
  <1>10. QED
    BY <1>3, <1>4, <1>5, <1>6, <1>7, <1>8, <1>9 DEF Next

\* Scores never fall with the amount or with the blocks, for every amount and
\* every number of blocks, across the powers of two at which shift and series
\* are joined, and after any forks (ConsensusUnstake,
\* CalculateConsensusScoreByBlocks).
THEOREM LongerStakesScoreMore == Spec => []ScoresGrow
  <1>1. Init => ScoreInv
    <2>1. ASSUME Init PROVE DOMAIN records = {} /\ DOMAIN ended = {}
      BY <2>1 DEF Init, Ledger!AbsInit
    <2>2. QED
      BY <2>1 DEF ScoreInv
  <1>2. ASSUME IInv, ScoreInv PROVE ScoresGrow
    <2>1. SUFFICES ASSUME NEW s \in DOMAIN records, NEW t \in DOMAIN records,
                          ~Active(s), ~Active(t), Amt[s] <= Amt[t],
                          records[s].until - records[s].at <= records[t].until - records[t].at
                   PROVE  records[s].score <= records[t].score
      BY DEF ScoresGrow
    <2>2. IsTable(records)
      BY <1>2 DEF IInv, TypeOK
    <2>3. ASSUME NEW r \in DOMAIN records, ~Active(r)
          PROVE  /\ r \in Stakes /\ Amt[r] \in Nat
                 /\ records[r].until - records[r].at \in Nat
                 /\ records[r].score = Score(Amt[r], records[r].until - records[r].at)
      <3>1. /\ r \in Stakes /\ records[r].at \in Nat /\ records[r].until \in Nat \cup {None}
        BY <2>2 DEF IsTable
      <3>2. records[r].until # None
        BY <2>3 DEF Active
      <3>3. records[r].at <= records[r].until
            /\ records[r].score = Score(Amt[r], records[r].until - records[r].at)
        BY <1>2, <3>2 DEF ScoreInv, Scored
      <3>4. QED
        BY <3>1, <3>2, <3>3, ConsensusAssumption
    <2> DEFINE d == records[s].until - records[s].at
               e == records[t].until - records[t].at
    <2>4. /\ Amt[s] \in Nat /\ Amt[t] \in Nat /\ d \in Nat /\ e \in Nat /\ d <= e
          /\ records[s].score = Score(Amt[s], d) /\ records[t].score = Score(Amt[t], e)
      BY <2>1, <2>3
    <2> HIDE DEF d, e
    <2>5. QED
      BY <2>1, <2>4, ScoreGrows
  <1>3. QED
    BY <1>1, <1>2, ScoreInvStep, ConsensusInvariant, PTL DEF Spec

-----------------------------------------------------------------------------
(***************************************************************************)
(* Machine-checked proofs about SwapV2, for every set of traders, every    *)
(* sequence of transactions and every bound.                               *)
(***************************************************************************)
\* The memes of the tables, the only part of them the journal is about.
MemeBooks == [bal : [Memes -> [Addresses -> Nat]], max : Nat \cup {NoRow}]
MemesOf(s) == [bal |-> [t \in Memes |-> s.bal[t]], max |-> s.max]

\* Only liquidity is minted and burned.
Meant(r) == /\ (r.from = Nobody \/ r.to = Nobody) => r.tick = LP
            /\ r.from # Nobody \/ r.to # Nobody

Mentions(s, t) == \E k \in DOMAIN s.journal : s.journal[k].tick = t

\* The tables at some time of block b: what the holders have is counted, and
\* the journal of a token begins with the token.
Booked(s, b) ==
    /\ s \in Tables
    /\ \A k \in DOMAIN s.journal : Meant(s.journal[k]) /\ s.journal[k].at <= b
    /\ SumFunction(s.bal[DEPLOYED]) = IF s.rows = 0 THEN 0 ELSE NewMax
    /\ s.rows = 0 => s.mined = NoRow /\ ~Mentions(s, DEPLOYED)
    /\ s.mined # NoRow => s.mined <= b
    /\ \A e \in s.swapped : e[2] <= b
    /\ s.max = NoRow => SumFunction(s.bal[LP]) = 0 /\ s.creates = {} /\ ~Mentions(s, LP)
    /\ s.max # NoRow =>
          /\ s.max = SumFunction(s.bal[LP])
          /\ \E c \in 0..b : /\ s.creates = {c}
                             /\ \A k \in DOMAIN s.journal :
                                   s.journal[k].tick = LP => s.journal[k].at >= c

\* The row of the pool is true of its token and its reserves.
RowTrue(s) ==
    IF s.pool = NoPool THEN s.max = NoRow
    ELSE s.pool.total = s.max /\ \A t \in Pair : s.pool.amt[t] <= s.bal[t][Pool]

\* The tables was of the end of block h are what s was.
Past(was, s, h) ==
    /\ Len(was.journal) <= Len(s.journal)
    /\ \A k \in 1..Len(was.journal) : was.journal[k] = s.journal[k]
    /\ \A k \in 1..Len(s.journal) : k > Len(was.journal) => s.journal[k].at > h
    /\ was.swapped = {e \in s.swapped : e[2] <= h}
    /\ was.creates = {c \in s.creates : c <= h}
    /\ was.mined = IF s.mined # NoRow /\ s.mined > h THEN NoRow ELSE s.mined
    /\ was.rows <= s.rows

\* The journal leads from the memes of s back along tr: no undo is refused.
Leads(tr, s) ==
    /\ tr \in [0..Len(s.journal) -> MemeBooks]
    /\ tr[Len(s.journal)] = MemesOf(s)
    /\ \A k \in 1..Len(s.journal) :
          UndoOk(tr[k], s.journal[k]) /\ Undo(tr[k], s.journal[k]) = tr[k - 1]

\* It passes by the memes of was, up to what has no journal row: the row of the
\* liquidity token, and a deploy.
Passes(tr, was, s) ==
    LET m == tr[Len(was.journal)] IN
    /\ m.bal[MEME] = was.bal[MEME] /\ m.bal[LP] = was.bal[LP]
    /\ m.bal[DEPLOYED] = IF was.rows = 0 /\ s.rows > 0 THEN Whole ELSE was.bal[DEPLOYED]
    /\ m.max = IF was.max = NoRow /\ s.max # NoRow THEN 0 ELSE was.max

Explained(s, past, b) ==
    \E tr : Leads(tr, s) /\ \A h \in 0..(b - 1) : Passes(tr, past[h], s)

Finished(past, b) ==
    /\ past \in [0..(b - 1) -> Tables]
    /\ \A h \in 0..(b - 1) : Booked(past[h], h) /\ RowTrue(past[h])

Core(s, past, b) ==
    /\ Booked(s, b)
    /\ \A h \in 0..(b - 1) : Past(past[h], s, h)
    /\ Explained(s, past, b)

-----------------------------------------------------------------------------
LEMMA V2Names ==
    /\ Ticks = Memes \cup {WDOGE} /\ WDOGE \notin Memes
    /\ MEME \in Memes /\ LP \in Memes /\ DEPLOYED \in Memes
    /\ MEME # LP /\ MEME # DEPLOYED /\ LP # DEPLOYED
    /\ Pair = {MEME, WDOGE} /\ Pair = {Tick0, Tick1} /\ Tick0 # Tick1
    /\ Pair \subseteq Ticks /\ LP \notin Pair /\ DEPLOYED \notin Pair
    /\ IsFiniteSet(Addresses)
    /\ Pool \in Addresses /\ Pool \notin Traders /\ Traders \subseteq Addresses
    /\ Nobody \notin Addresses /\ NoRow \notin Nat /\ Deployer \in Addresses
    /\ NewMax \in Nat \ {0} /\ NoPool \notin Rows /\ Stuck \notin Tables
  <1>1. IsFiniteSet(Addresses)
    BY SwapV2Assumption, FS_EmptySet, FS_AddElement DEF Addresses
  <1>2. QED
    BY <1>1, SwapV2Assumption DEF Ticks, Memes, Pair, Addresses

Passed(f, from, to, amt) == [f EXCEPT ![from] = @ - amt, ![to] = @ + amt]
More(f, a, amt) == [f EXCEPT ![a] = @ + amt]
Less(f, a, amt) == [f EXCEPT ![a] = @ - amt]

\* One balance changes, and changes back.
LEMMA MoreFacts ==
    ASSUME NEW f \in [Addresses -> Nat], NEW a \in Addresses, NEW amt \in Nat
    PROVE  /\ More(f, a, amt) \in [Addresses -> Nat]
           /\ SumFunction(More(f, a, amt)) = SumFunction(f) + amt
           /\ More(f, a, amt)[a] = f[a] + amt
           /\ Less(More(f, a, amt), a, amt) = f
  <1> DEFINE g == More(f, a, amt)
             k == Less(g, a, amt)
  <1>1. /\ f \in [Addresses -> Int] /\ g \in [Addresses -> Nat] /\ g \in [Addresses -> Int]
        /\ g[a] = f[a] + amt /\ \A x \in Addresses \ {a} : g[x] = f[x]
    BY DEF More
  <1> HIDE DEF g
  <1>2. k \in [Addresses -> Int] /\ \A x \in Addresses : k[x] = f[x]
    BY <1>1 DEF Less
  <1> HIDE DEF k
  <1>3. k = f
    BY ONLY <1>1, <1>2
  <1>4. SumFunction(f) \in Nat
    BY V2Names, SumNat
  <1>5. SumFunction(g) = SumFunction(f) - f[a] + g[a]
    BY <1>1, V2Names, SumUpdate
  <1>6. SumFunction(g) = SumFunction(f) + amt
    BY <1>1, <1>4, <1>5
  <1>7. QED
    BY <1>1, <1>3, <1>6 DEF g, k

LEMMA LessFacts ==
    ASSUME NEW f \in [Addresses -> Nat], NEW a \in Addresses, NEW amt \in Nat, amt <= f[a]
    PROVE  /\ Less(f, a, amt) \in [Addresses -> Nat]
           /\ SumFunction(Less(f, a, amt)) = SumFunction(f) - amt
           /\ SumFunction(f) \in Nat
           /\ More(Less(f, a, amt), a, amt) = f
  <1> DEFINE g == Less(f, a, amt)
             k == More(g, a, amt)
  <1>1. /\ f \in [Addresses -> Int] /\ g \in [Addresses -> Nat] /\ g \in [Addresses -> Int]
        /\ g[a] = f[a] - amt /\ \A x \in Addresses \ {a} : g[x] = f[x]
    BY DEF Less
  <1> HIDE DEF g
  <1>2. k \in [Addresses -> Int] /\ \A x \in Addresses : k[x] = f[x]
    BY <1>1 DEF More
  <1> HIDE DEF k
  <1>3. k = f
    BY ONLY <1>1, <1>2
  <1>4. SumFunction(f) \in Nat
    BY V2Names, SumNat
  <1>5. SumFunction(g) = SumFunction(f) - f[a] + g[a]
    BY <1>1, V2Names, SumUpdate
  <1>6. SumFunction(g) = SumFunction(f) - amt
    BY <1>1, <1>4, <1>5
  <1>7. QED
    BY <1>1, <1>3, <1>4, <1>6 DEF g, k

\* What one holder passes to another.
LEMMA PassedFacts ==
    ASSUME NEW f \in [Addresses -> Nat], NEW from \in Addresses, NEW to \in Addresses,
           from # to, NEW amt \in Nat, amt <= f[from]
    PROVE  /\ Passed(f, from, to, amt) \in [Addresses -> Nat]
           /\ SumFunction(Passed(f, from, to, amt)) = SumFunction(f)
           /\ amt <= Passed(f, from, to, amt)[to]
           /\ Passed(Passed(f, from, to, amt), to, from, amt) = f
  <1> DEFINE d == Less(f, from, amt)
             g == Passed(f, from, to, amt)
             k == Passed(g, to, from, amt)
  <1>1. /\ d \in [Addresses -> Nat] /\ SumFunction(d) = SumFunction(f) - amt
        /\ SumFunction(f) \in Nat
    BY LessFacts
  <1>2. g = More(d, to, amt)
    BY DEF Passed, More, Less
  <1>3. /\ g \in [Addresses -> Nat]
        /\ \A x \in Addresses : g[x] = IF x = from THEN f[x] - amt
                                        ELSE IF x = to THEN f[x] + amt ELSE f[x]
    BY DEF Passed
  <1> HIDE DEF d, g
  <1>4. SumFunction(g) = SumFunction(d) + amt
    BY <1>1, <1>2, MoreFacts
  <1>5. k \in [Addresses -> Int] /\ \A x \in Addresses : k[x] = f[x]
    BY <1>3 DEF Passed
  <1> HIDE DEF k
  <1>6. k = f
    BY ONLY <1>5, f \in [Addresses -> Nat]
  <1>7. SumFunction(g) = SumFunction(f) /\ amt <= g[to]
    BY <1>1, <1>3, <1>4
  <1>8. QED
    BY <1>3, <1>6, <1>7 DEF g, k

LEMMA MoveFacts ==
    ASSUME NEW purse, NEW M, purse \in [M -> [Addresses -> Nat]], NEW t \in M,
           NEW from \in Addresses, NEW to \in Addresses, NEW amt \in Nat,
           CanMove(purse, t, from, to, amt)
    PROVE  LET c == Move(purse, t, from, to, amt) IN
           /\ c \in [M -> [Addresses -> Nat]]
           /\ \A k \in M : SumFunction(c[k]) = SumFunction(purse[k])
           /\ \A k \in M \ {t} : c[k] = purse[k]
           /\ c[t] = Passed(purse[t], from, to, amt)
           /\ CanMove(c, t, to, from, amt)
           /\ Move(c, t, to, from, amt) = purse
  <1> DEFINE f == purse[t]
             g == Passed(f, from, to, amt)
             c == Move(purse, t, from, to, amt)
  <1>1. from # to /\ amt >= 1 /\ amt <= f[from] /\ f \in [Addresses -> Nat]
    BY DEF CanMove
  <1>2. c = [purse EXCEPT ![t] = g]
    BY DEF Move, Passed
  <1>3. Move(c, t, to, from, amt) = [c EXCEPT ![t] = Passed(c[t], to, from, amt)]
    BY DEF Move, Passed
  <1> HIDE DEF f
  <1>4. /\ g \in [Addresses -> Nat] /\ SumFunction(g) = SumFunction(f)
        /\ amt <= g[to] /\ Passed(g, to, from, amt) = f
    BY <1>1, PassedFacts
  <1> HIDE DEF g
  <1>5. /\ c[t] = g /\ c \in [M -> [Addresses -> Nat]] /\ \A k \in M \ {t} : c[k] = purse[k]
    BY <1>2, <1>4
  <1> HIDE DEF c
  <1>6. Move(c, t, to, from, amt) = [c EXCEPT ![t] = f]
    BY <1>3, <1>4, <1>5
  <1>7. [c EXCEPT ![t] = f] = purse
    BY <1>5 DEF f
  <1>8. CanMove(c, t, to, from, amt)
    BY <1>1, <1>4, <1>5 DEF CanMove
  <1>9. \A k \in M : SumFunction(c[k]) = SumFunction(purse[k])
    BY <1>4, <1>5 DEF f
  <1>10. QED
    BY <1>5, <1>6, <1>7, <1>8, <1>9 DEF f, g, c

LEMMA MintFacts ==
    ASSUME NEW purse, NEW M, purse \in [M -> [Addresses -> Nat]], NEW t \in M,
           NEW a \in Addresses, NEW amt \in Nat
    PROVE  LET c == Mint(purse, t, a, amt) IN
           /\ c \in [M -> [Addresses -> Nat]]
           /\ SumFunction(c[t]) = SumFunction(purse[t]) + amt
           /\ \A k \in M \ {t} : c[k] = purse[k]
           /\ c[t] = More(purse[t], a, amt)
           /\ CanBurn(c, t, a, amt)
           /\ Burn(c, t, a, amt) = purse
  <1> DEFINE f == purse[t]
             g == More(f, a, amt)
             c == Mint(purse, t, a, amt)
  <1>1. f \in [Addresses -> Nat] /\ f[a] \in Nat
    OBVIOUS
  <1>2. c = [purse EXCEPT ![t] = g]
    BY DEF Mint, More
  <1>3. Burn(c, t, a, amt) = [c EXCEPT ![t] = Less(c[t], a, amt)]
    BY DEF Burn, Less
  <1> HIDE DEF f
  <1>4. /\ g \in [Addresses -> Nat] /\ SumFunction(g) = SumFunction(f) + amt
        /\ g[a] = f[a] + amt /\ Less(g, a, amt) = f
    BY <1>1, MoreFacts
  <1> HIDE DEF g
  <1>5. /\ c[t] = g /\ c \in [M -> [Addresses -> Nat]] /\ \A k \in M \ {t} : c[k] = purse[k]
    BY <1>2, <1>4
  <1> HIDE DEF c
  <1>6. Burn(c, t, a, amt) = [c EXCEPT ![t] = f]
    BY <1>3, <1>4, <1>5
  <1>7. [c EXCEPT ![t] = f] = purse
    BY <1>5 DEF f
  <1>8. CanBurn(c, t, a, amt)
    BY <1>1, <1>4, <1>5 DEF CanBurn
  <1>9. QED
    BY <1>4, <1>5, <1>6, <1>7, <1>8 DEF f, g, c

LEMMA BurnFacts ==
    ASSUME NEW purse, NEW M, purse \in [M -> [Addresses -> Nat]], NEW t \in M,
           NEW a \in Addresses, NEW amt \in Nat, CanBurn(purse, t, a, amt)
    PROVE  LET c == Burn(purse, t, a, amt) IN
           /\ c \in [M -> [Addresses -> Nat]]
           /\ SumFunction(c[t]) = SumFunction(purse[t]) - amt
           /\ SumFunction(purse[t]) \in Nat
           /\ \A k \in M \ {t} : c[k] = purse[k]
           /\ c[t] = Less(purse[t], a, amt)
           /\ Mint(c, t, a, amt) = purse
  <1> DEFINE f == purse[t]
             g == Less(f, a, amt)
             c == Burn(purse, t, a, amt)
  <1>1. f \in [Addresses -> Nat] /\ amt <= f[a]
    BY DEF CanBurn
  <1>2. c = [purse EXCEPT ![t] = g]
    BY DEF Burn, Less
  <1>3. Mint(c, t, a, amt) = [c EXCEPT ![t] = More(c[t], a, amt)]
    BY DEF Mint, More
  <1> HIDE DEF f
  <1>4. /\ g \in [Addresses -> Nat] /\ SumFunction(g) = SumFunction(f) - amt
        /\ SumFunction(f) \in Nat /\ More(g, a, amt) = f
    BY <1>1, LessFacts
  <1> HIDE DEF g
  <1>5. /\ c[t] = g /\ c \in [M -> [Addresses -> Nat]] /\ \A k \in M \ {t} : c[k] = purse[k]
    BY <1>2, <1>4
  <1> HIDE DEF c
  <1>6. Mint(c, t, a, amt) = [c EXCEPT ![t] = f]
    BY <1>3, <1>4, <1>5
  <1>7. [c EXCEPT ![t] = f] = purse
    BY <1>5 DEF f
  <1>8. QED
    BY <1>4, <1>5, <1>6, <1>7 DEF f, g, c

-----------------------------------------------------------------------------
(* The journal leads back *)

LEMMA TablesFacts ==
    ASSUME NEW s \in Tables
    PROVE  /\ s.bal \in [Ticks -> [Addresses -> Nat]] /\ s.max \in Nat \cup {NoRow}
           /\ s.pool \in Rows \cup {NoPool} /\ s.rows \in Nat
           /\ s.mined \in Nat \cup {NoRow} /\ s.creates \in SUBSET Nat
           /\ s.journal \in Seq(MemeReverts) /\ s.swapped \in SUBSET (Traders \X Nat)
           /\ Len(s.journal) \in Nat /\ DOMAIN s.journal = 1..Len(s.journal)
           /\ \A k \in 1..Len(s.journal) : s.journal[k] \in MemeReverts
           /\ MemesOf(s) \in MemeBooks
  <1>1. /\ s.bal \in [Ticks -> [Addresses -> Nat]] /\ s.max \in Nat \cup {NoRow}
        /\ s.pool \in Rows \cup {NoPool} /\ s.rows \in Nat
        /\ s.mined \in Nat \cup {NoRow} /\ s.creates \in SUBSET Nat
        /\ s.journal \in Seq(MemeReverts) /\ s.swapped \in SUBSET (Traders \X Nat)
    BY DEF Tables, Purses
  <1>2. /\ Len(s.journal) \in Nat /\ DOMAIN s.journal = 1..Len(s.journal)
        /\ \A k \in 1..Len(s.journal) : s.journal[k] \in MemeReverts
    BY <1>1
  <1>3. MemesOf(s) \in MemeBooks
    BY <1>1, V2Names DEF MemesOf, MemeBooks
  <1>4. QED
    BY <1>1, <1>2, <1>3

LEMMA AppendCore ==
    ASSUME NEW b \in Nat, NEW past, NEW s, Core(s, past, b), Finished(past, b),
           NEW s2, Booked(s2, b), NEW r \in MemeReverts, r.at = b,
           s2.journal = Append(s.journal, r),
           UndoOk(MemesOf(s2), r), Undo(MemesOf(s2), r) = MemesOf(s),
           s2.swapped = s.swapped, s2.creates = s.creates, s2.mined = s.mined,
           s2.rows = s.rows, s2.max = NoRow <=> s.max = NoRow
    PROVE  Core(s2, past, b)
  <1> DEFINE n == Len(s.journal)
  <1>1. s \in Tables /\ s2 \in Tables
    BY DEF Core, Booked
  <1>2. n \in Nat /\ s.journal \in Seq(MemeReverts)
    BY <1>1, TablesFacts
  <1>3. /\ Len(s2.journal) = n + 1 /\ s2.journal[n + 1] = r
        /\ \A k \in 1..n : s2.journal[k] = s.journal[k]
    BY <1>2
  <1>4. ASSUME NEW h \in 0..(b - 1) PROVE Past(past[h], s2, h)
    <2>1. Past(past[h], s, h)
      BY DEF Core
    <2>2. past[h] \in Tables
      BY DEF Finished
    <2>3. Len(past[h].journal) \in Nat
      BY <2>2, TablesFacts
    <2>4. h \in Nat /\ h < b
      OBVIOUS
    <2> DEFINE m == Len(past[h].journal)
    <2>5. m \in Nat /\ m <= n /\ \A k \in 1..m : past[h].journal[k] = s.journal[k]
      BY <2>1, <2>3 DEF Past
    <2>6. \A k \in 1..n : k > m => s.journal[k].at > h
      BY <2>1 DEF Past
    <2> HIDE DEF m, n
    <2>7. \A k \in 1..m : past[h].journal[k] = s2.journal[k]
      BY <1>2, <1>3, <2>5
    <2>8. \A k \in 1..(n + 1) : k > m => s2.journal[k].at > h
      <3> SUFFICES ASSUME NEW k \in 1..(n + 1), k > m PROVE s2.journal[k].at > h
        OBVIOUS
      <3>1. CASE k = n + 1
        BY <1>3, <2>4, <3>1
      <3>2. CASE k # n + 1
        <4>1. k \in 1..n
          BY <1>2, <3>2
        <4>2. QED
          BY <1>3, <2>6, <4>1
      <3>3. QED
        BY <3>1, <3>2
    <2>9. m <= n + 1
      BY <1>2, <2>5
    <2>10. QED
      BY <1>3, <2>1, <2>7, <2>8, <2>9 DEF Past, m
  <1>5. Explained(s2, past, b)
    <2>1. PICK tr : Leads(tr, s) /\ \A h \in 0..(b - 1) : Passes(tr, past[h], s)
      BY DEF Core, Explained
    <2> DEFINE t2 == [k \in 0..(n + 1) |-> IF k = n + 1 THEN MemesOf(s2) ELSE tr[k]]
    <2>2. MemesOf(s2) \in MemeBooks
      BY <1>1, TablesFacts
    <2>3. /\ tr \in [0..n -> MemeBooks] /\ tr[n] = MemesOf(s)
          /\ \A k \in 1..n : UndoOk(tr[k], s.journal[k]) /\ Undo(tr[k], s.journal[k]) = tr[k - 1]
      BY <2>1 DEF Leads
    <2>4. /\ t2 \in [0..(n + 1) -> MemeBooks] /\ t2[n + 1] = MemesOf(s2)
          /\ \A k \in 0..n : t2[k] = tr[k]
      BY <1>2, <2>2, <2>3
    <2> HIDE DEF t2
    <2>5. ASSUME NEW k \in 1..(n + 1)
          PROVE  UndoOk(t2[k], s2.journal[k]) /\ Undo(t2[k], s2.journal[k]) = t2[k - 1]
      <3>1. CASE k = n + 1
        <4>1. k - 1 = n /\ t2[k - 1] = MemesOf(s) /\ t2[k] = MemesOf(s2) /\ s2.journal[k] = r
          BY <1>2, <1>3, <2>3, <2>4, <3>1
        <4>2. QED
          BY <4>1
      <3>2. CASE k # n + 1
        <4>1. k \in 1..n /\ k \in 0..n /\ k - 1 \in 0..n
          BY <1>2, <3>2
        <4>2. t2[k] = tr[k] /\ t2[k - 1] = tr[k - 1] /\ s2.journal[k] = s.journal[k]
          BY <1>3, <2>4, <4>1
        <4>3. QED
          BY <2>3, <4>1, <4>2
      <3>3. QED
        BY <3>1, <3>2
    <2>6. Leads(t2, s2)
      BY <1>3, <2>4, <2>5 DEF Leads
    <2>7. ASSUME NEW h \in 0..(b - 1) PROVE Passes(t2, past[h], s2)
      <3>1. Passes(tr, past[h], s)
        BY <2>1
      <3>2. past[h] \in Tables /\ Past(past[h], s, h)
        BY DEF Finished, Core
      <3>3. Len(past[h].journal) \in 0..n
        <4>1. Len(past[h].journal) \in Nat /\ Len(past[h].journal) <= n
          BY <3>2, TablesFacts DEF Past
        <4>2. QED
          BY <1>2, <4>1
      <3>4. t2[Len(past[h].journal)] = tr[Len(past[h].journal)]
        BY <2>4, <3>3
      <3>5. QED
        BY <3>1, <3>4 DEF Passes
    <2>8. QED
      BY <2>6, <2>7 DEF Explained
  <1>6. QED
    BY <1>4, <1>5 DEF Core

\* What is not about memes leaves no trace.
LEMMA QuietCore ==
    ASSUME NEW b \in Nat, NEW past, NEW s, Core(s, past, b),
           NEW s2, Booked(s2, b), s2.journal = s.journal, MemesOf(s2) = MemesOf(s),
           \A h \in 0..(b - 1) : {e \in s2.swapped : e[2] <= h} = {e \in s.swapped : e[2] <= h},
           s2.creates = s.creates, s2.mined = s.mined, s2.rows = s.rows
    PROVE  Core(s2, past, b)
  <1>1. s2.max = s.max
    BY DEF MemesOf
  <1>2. ASSUME NEW h \in 0..(b - 1) PROVE Past(past[h], s2, h)
    <2>1. Past(past[h], s, h)
      BY DEF Core
    <2>2. QED
      BY <2>1 DEF Past
  <1>3. PICK tr : Leads(tr, s) /\ \A h \in 0..(b - 1) : Passes(tr, past[h], s)
    BY DEF Core, Explained
  <1>4. Leads(tr, s2)
    BY <1>3 DEF Leads
  <1>5. \A h \in 0..(b - 1) : Passes(tr, past[h], s2)
    BY <1>1, <1>3 DEF Passes
  <1>6. QED
    BY <1>2, <1>4, <1>5 DEF Core, Explained

\* Nobody has any of nothing.
LEMMA NothingHeld ==
    ASSUME NEW f \in [Addresses -> Nat], SumFunction(f) = 0
    PROVE  \A a \in Addresses : f[a] = 0
  BY V2Names, SumNat

LEMMA AppendBooked ==
    ASSUME NEW b \in Nat, NEW s, Booked(s, b), NEW s2 \in Tables, NEW r \in MemeReverts,
           Meant(r), r.at = b, s2.journal = Append(s.journal, r),
           s2.swapped = s.swapped, s2.creates = s.creates, s2.mined = s.mined,
           s2.rows = s.rows, SumFunction(s2.bal[DEPLOYED]) = SumFunction(s.bal[DEPLOYED]),
           s.rows = 0 => r.tick # DEPLOYED,
           s.max = NoRow => /\ s2.max = NoRow /\ r.tick # LP
                            /\ SumFunction(s2.bal[LP]) = SumFunction(s.bal[LP]),
           s.max # NoRow => s2.max = SumFunction(s2.bal[LP]) /\ s2.max # NoRow
    PROVE  Booked(s2, b) /\ (s2.max = NoRow <=> s.max = NoRow)
  <1> DEFINE n == Len(s.journal)
  <1>1. s \in Tables
    BY DEF Booked
  <1>2. n \in Nat /\ s.journal \in Seq(MemeReverts) /\ DOMAIN s.journal = 1..n
    BY <1>1, TablesFacts
  <1>3. /\ DOMAIN s2.journal = 1..(n + 1) /\ s2.journal[n + 1] = r
        /\ \A k \in 1..n : s2.journal[k] = s.journal[k]
    BY <1>2
  <1> HIDE DEF n
  <1>4. \A k \in 1..(n + 1) : k = n + 1 \/ k \in 1..n
    BY <1>2
  <1>5. \A k \in DOMAIN s2.journal : Meant(s2.journal[k]) /\ s2.journal[k].at <= b
    <2>1. \A k \in 1..n : Meant(s.journal[k]) /\ s.journal[k].at <= b
      BY <1>2 DEF Booked
    <2>2. ASSUME NEW k \in 1..(n + 1)
          PROVE  Meant(s2.journal[k]) /\ s2.journal[k].at <= b
      <3>1. CASE k = n + 1
        BY <1>3, <3>1
      <3>2. CASE k \in 1..n
        BY <1>3, <2>1, <3>2
      <3>3. QED
        BY <1>4, <3>1, <3>2
    <2>3. QED
      BY <1>3, <2>2
  <1>6. ASSUME NEW t, ~Mentions(s, t), r.tick # t PROVE ~Mentions(s2, t)
    BY <1>2, <1>3, <1>4, <1>6 DEF Mentions
  <1>7. ASSUME s2.max # NoRow
        PROVE  \E c \in 0..b : /\ s2.creates = {c}
                                /\ \A k \in DOMAIN s2.journal :
                                      s2.journal[k].tick = LP => s2.journal[k].at >= c
    <2>1. PICK c \in 0..b : /\ s.creates = {c}
                            /\ \A k \in DOMAIN s.journal :
                                  s.journal[k].tick = LP => s.journal[k].at >= c
      BY <1>7 DEF Booked
    <2>2. r.at >= c
      OBVIOUS
    <2>3. \A k \in DOMAIN s2.journal : s2.journal[k].tick = LP => s2.journal[k].at >= c
      BY <1>2, <1>3, <1>4, <2>1, <2>2
    <2>4. QED
      BY <2>1, <2>3
  <1>8. QED
    BY <1>5, <1>6, <1>7 DEF Booked

\* The books of two ledgers.
LEMMA PayCore ==
    ASSUME current \in Nat, Finished(dbAt, current), NEW s, Core(s, dbAt, current),
           NEW t \in Ticks, NEW from \in Addresses, NEW to \in Addresses, NEW amt \in Nat,
           CanMove(s.bal, t, from, to, amt)
    PROVE  LET p == Pay(s, t, from, to, amt) IN
           /\ Core(p, dbAt, current)
           /\ p.bal = Move(s.bal, t, from, to, amt)
           /\ p.max = s.max /\ p.pool = s.pool /\ p.creates = s.creates
           /\ p.swapped = s.swapped
  <1> DEFINE c == Move(s.bal, t, from, to, amt)
             j == Record(s, t, from, to, amt)
             p == Pay(s, t, from, to, amt)
             r == [tick |-> t, from |-> from, to |-> to, amt |-> amt, at |-> current]
  <1>1. Booked(s, current) /\ s \in Tables
    BY DEF Core, Booked
  <1>2. s.bal \in [Ticks -> [Addresses -> Nat]] /\ s.journal \in Seq(MemeReverts)
    BY <1>1, TablesFacts
  <1>3. /\ c \in [Ticks -> [Addresses -> Nat]]
        /\ \A k \in Ticks : SumFunction(c[k]) = SumFunction(s.bal[k])
        /\ \A k \in Ticks \ {t} : c[k] = s.bal[k]
    BY <1>2, MoveFacts
  <1>4. /\ p = [s EXCEPT !.bal = c, !.journal = j]
        /\ p.bal = c /\ p.journal = j
        /\ p.max = s.max /\ p.pool = s.pool /\ p.creates = s.creates
        /\ p.swapped = s.swapped /\ p.rows = s.rows /\ p.mined = s.mined
    BY <1>1 DEF Pay, Tables
  <1>5. CASE t = WDOGE
    <2>1. j = s.journal
      BY <1>5 DEF Record
    <2>2. \A k \in Memes : c[k] = s.bal[k]
      BY <1>3, <1>5, V2Names
    <2>3. MemesOf(p) = MemesOf(s)
      BY <1>4, <2>2 DEF MemesOf
    <2> HIDE DEF c, j
    <2>4. p \in Tables
      BY <1>1, <1>3, <1>4, <2>1 DEF Tables, Purses
    <2> HIDE DEF p
    <2>5. Booked(p, current)
      BY <1>1, <1>3, <1>4, <2>1, <2>4, V2Names DEF Booked, Mentions
    <2>6. Core(p, dbAt, current)
      BY <1>4, <2>1, <2>3, <2>5, QuietCore
    <2>7. QED
      BY <1>4, <2>6 DEF p, c
  <1>6. CASE t # WDOGE
    <2>1. j = Append(s.journal, r) /\ t \in Memes
      BY <1>6, V2Names DEF Record
    <2>2. from # Nobody /\ to # Nobody /\ from # to /\ amt >= 1 /\ amt <= s.bal[t][from]
      BY V2Names DEF CanMove
    <2>3. r \in MemeReverts /\ Meant(r) /\ r.at = current /\ r.tick = t
          /\ r.from = from /\ r.to = to /\ r.amt = amt
      BY <2>1, <2>2 DEF MemeReverts, Meant
    <2> HIDE DEF c, j, r
    <2>4. p \in Tables
      <3>1. j \in Seq(MemeReverts)
        BY <1>2, <2>1, <2>3
      <3>2. QED
        BY <1>1, <1>3, <1>4, <3>1 DEF Tables, Purses
    <2>5. ASSUME NEW k \in Memes, SumFunction(s.bal[k]) = 0 PROVE t # k
      <3>1. s.bal[k] \in [Addresses -> Nat]
        BY <1>2, V2Names
      <3>2. s.bal[k][from] = 0
        BY <2>5, <3>1, NothingHeld
      <3>3. QED
        BY <2>2, <3>2
    <2>6. (s.rows = 0 => t # DEPLOYED) /\ (s.max = NoRow => t # LP)
      BY <1>1, <2>5, V2Names DEF Booked
    <2> DEFINE mb == [k \in Memes |-> s.bal[k]]
               mc == [k \in Memes |-> c[k]]
    <2>7. mb \in [Memes -> [Addresses -> Nat]] /\ CanMove(mb, t, from, to, amt)
      BY <1>2, <2>1, V2Names DEF CanMove
    <2>8. mc = Move(mb, t, from, to, amt)
      <3>1. c = [s.bal EXCEPT ![t] = Passed(s.bal[t], from, to, amt)]
        BY DEF c, Move, Passed
      <3>2. Move(mb, t, from, to, amt) = [mb EXCEPT ![t] = Passed(mb[t], from, to, amt)]
        BY DEF Move, Passed
      <3>3. mb[t] = s.bal[t] /\ Memes \subseteq Ticks
        BY <2>1, V2Names
      <3>4. QED
        BY <1>2, <2>1, <3>1, <3>2, <3>3
    <2> HIDE DEF mb
    <2>9. CanMove(mc, t, to, from, amt) /\ Move(mc, t, to, from, amt) = mb
      <3> HIDE DEF mc
      <3>1. QED
        BY <2>1, <2>7, <2>8, MoveFacts
    <2> HIDE DEF p
    <2>10. /\ MemesOf(p) = [bal |-> mc, max |-> s.max] /\ MemesOf(s) = [bal |-> mb, max |-> s.max]
      BY <1>4 DEF MemesOf, mb
    <2> HIDE DEF mc
    <2>11. UndoOk(MemesOf(p), r) /\ Undo(MemesOf(p), r) = MemesOf(s)
      BY <2>2, <2>3, <2>6, <2>9, <2>10 DEF UndoOk, Undo
    <2>12. Booked(p, current) /\ (p.max = NoRow <=> s.max = NoRow)
      <3>1. /\ SumFunction(p.bal[DEPLOYED]) = SumFunction(s.bal[DEPLOYED])
            /\ SumFunction(p.bal[LP]) = SumFunction(s.bal[LP])
        BY <1>3, <1>4, V2Names
      <3>2. s.max # NoRow => p.max = SumFunction(p.bal[LP]) /\ p.max # NoRow
        BY <1>1, <1>4, <3>1 DEF Booked
      <3>3. s.rows = 0 => r.tick # DEPLOYED
        BY <2>3, <2>6
      <3>4. s.max = NoRow => /\ p.max = NoRow /\ r.tick # LP
                             /\ SumFunction(p.bal[LP]) = SumFunction(s.bal[LP])
        BY <1>4, <2>3, <2>6, <3>1
      <3>5. p.journal = Append(s.journal, r)
        BY <1>4, <2>1
      <3>6. /\ p.swapped = s.swapped /\ p.creates = s.creates /\ p.mined = s.mined
            /\ p.rows = s.rows
        BY <1>4
      <3>7. QED
        BY ONLY current \in Nat, <1>1, <2>3, <2>4, <3>1, <3>2, <3>3, <3>4, <3>5, <3>6, AppendBooked
    <2>13. Core(p, dbAt, current)
      BY <1>4, <2>1, <2>3, <2>11, <2>12, AppendCore
    <2>14. QED
      BY <1>4, <2>13 DEF p, c
  <1>7. QED
    BY <1>5, <1>6

LEMMA MintCore ==
    ASSUME current \in Nat, Finished(dbAt, current), NEW s, Core(s, dbAt, current),
           s.max # NoRow, NEW a \in Addresses, NEW amt \in Nat
    PROVE  LET p == MintLP(s, a, amt) IN
           /\ Core(p, dbAt, current)
           /\ p.bal = Mint(s.bal, LP, a, amt)
           /\ p.max = s.max + amt /\ p.max \in Nat
           /\ p.pool = s.pool /\ p.creates = s.creates /\ p.swapped = s.swapped
  <1> DEFINE c == Mint(s.bal, LP, a, amt)
             p == MintLP(s, a, amt)
             r == [tick |-> LP, from |-> Nobody, to |-> a, amt |-> amt, at |-> current]
  <1>1. Booked(s, current) /\ s \in Tables
    BY DEF Core, Booked
  <1>2. s.bal \in [Ticks -> [Addresses -> Nat]] /\ s.journal \in Seq(MemeReverts)
        /\ s.max \in Nat /\ LP \in Ticks /\ DEPLOYED \in Ticks \ {LP}
    BY <1>1, TablesFacts, V2Names
  <1>3. /\ c \in [Ticks -> [Addresses -> Nat]]
        /\ SumFunction(c[LP]) = SumFunction(s.bal[LP]) + amt
        /\ \A k \in Ticks \ {LP} : c[k] = s.bal[k]
    <2> DEFINE purse == s.bal
    <2>1. LP \in Ticks /\ purse \in [Ticks -> [Addresses -> Nat]]
      BY <1>2
    <2> HIDE DEF purse
    <2>2. /\ Mint(purse, LP, a, amt) \in [Ticks -> [Addresses -> Nat]]
          /\ SumFunction(Mint(purse, LP, a, amt)[LP]) = SumFunction(purse[LP]) + amt
          /\ \A k \in Ticks \ {LP} : Mint(purse, LP, a, amt)[k] = purse[k]
      BY ONLY <2>1, a \in Addresses, amt \in Nat, MintFacts
    <2>3. QED
      BY <2>2 DEF c, purse
  <1>4. /\ p = [s EXCEPT !.bal = c, !.max = @ + amt, !.journal = Append(s.journal, r)]
        /\ p.bal = c /\ p.journal = Append(s.journal, r) /\ p.max = s.max + amt
        /\ p.pool = s.pool /\ p.creates = s.creates
        /\ p.swapped = s.swapped /\ p.rows = s.rows /\ p.mined = s.mined
    BY <1>1, V2Names DEF MintLP, Tables, Record
  <1>5. s.max + amt \in Nat /\ s.max + amt # NoRow
    <2>1. s.max + amt \in Nat
      BY <1>2 DEF CanBurnLP
    <2>2. QED
      BY ONLY <2>1, V2Names
  <1>6. /\ r \in MemeReverts /\ Meant(r) /\ r.at = current /\ r.tick = LP
        /\ r.from = Nobody /\ r.to = a /\ r.amt = amt /\ a # Nobody
    BY V2Names DEF MemeReverts, Meant
  <1> HIDE DEF c, r
  <1>7. p \in Tables
    <2>1. Append(s.journal, r) \in Seq(MemeReverts)
      BY <1>2, <1>6
    <2>2. QED
      BY <1>1, <1>3, <1>4, <1>5, <2>1 DEF Tables, Purses
  <1> DEFINE mb == [k \in Memes |-> s.bal[k]]
             mc == [k \in Memes |-> c[k]]
  <1>8. mb \in [Memes -> [Addresses -> Nat]] /\ LP \in Memes
    BY <1>2, V2Names DEF CanBurnLP, CanBurn
  <1>9. mc = Mint(mb, LP, a, amt)
    <2>1. c = [s.bal EXCEPT ![LP] = More(s.bal[LP], a, amt)]
      BY DEF c, Mint, More, Less
    <2>2. Mint(mb, LP, a, amt) = [mb EXCEPT ![LP] = More(mb[LP], a, amt)]
      BY DEF Mint, More, Less
    <2>3. mb[LP] = s.bal[LP] /\ Memes \subseteq Ticks
      BY V2Names
    <2>4. QED
      BY <1>2, <1>8, <2>1, <2>2, <2>3
  <1> HIDE DEF mb
  <1>10. CanBurn(mc, LP, a, amt) /\ Burn(mc, LP, a, amt) = mb
    <2> HIDE DEF mc
    <2>1. QED
      BY <1>8, <1>9, MintFacts
  <1> HIDE DEF p
  <1>11. /\ MemesOf(p) = [bal |-> mc, max |-> s.max + amt]
         /\ MemesOf(s) = [bal |-> mb, max |-> s.max]
    BY <1>4 DEF MemesOf, mb
  <1> HIDE DEF mc
  <1>12. UndoOk(MemesOf(p), r) /\ Undo(MemesOf(p), r) = MemesOf(s)
    <2>1. UndoOk(MemesOf(p), r)
      BY <1>2, <1>5, <1>6, <1>10, <1>11 DEF UndoOk, CanBurnLP
    <2>2. Undo(MemesOf(p), r) = [bal |-> mb, max |-> (s.max + amt) - amt]
      <3> DEFINE m == MemesOf(p)
      <3>1. m.bal = mc /\ m.max = s.max + amt /\ m = [bal |-> m.bal, max |-> m.max]
        BY <1>11
      <3> HIDE DEF m
      <3>2. Undo(m, r) = [m EXCEPT !.bal = Burn(m.bal, LP, a, amt), !.max = @ - amt]
        BY <1>6 DEF Undo
      <3>3. Undo(m, r) = [bal |-> Burn(mc, LP, a, amt), max |-> (s.max + amt) - amt]
        BY ONLY <3>1, <3>2
      <3>4. QED
        BY <1>10, <3>3 DEF m
    <2>3. (s.max + amt) - amt = s.max
      BY <1>2
    <2>4. QED
      BY <1>11, <2>1, <2>2, <2>3
  <1>13. Booked(p, current) /\ (p.max = NoRow <=> s.max = NoRow)
    <2>1. SumFunction(p.bal[DEPLOYED]) = SumFunction(s.bal[DEPLOYED])
      BY <1>2, <1>3, <1>4
    <2>2. p.max = SumFunction(p.bal[LP]) /\ p.max # NoRow
      BY <1>1, <1>3, <1>4, <1>5 DEF Booked
    <2>3. s.rows = 0 => r.tick # DEPLOYED
      BY <1>6, V2Names
    <2>4. p.journal = Append(s.journal, r)
      BY <1>4
    <2>5. /\ p.swapped = s.swapped /\ p.creates = s.creates /\ p.mined = s.mined
          /\ p.rows = s.rows
      BY <1>4
    <2>6. QED
      BY ONLY current \in Nat, s.max # NoRow, <1>1, <1>6, <1>7, <2>1, <2>2, <2>3, <2>4, <2>5,
              AppendBooked
  <1>14. Core(p, dbAt, current)
    BY <1>4, <1>6, <1>12, <1>13, AppendCore
  <1>15. QED
    BY <1>4, <1>5, <1>14 DEF p, c

LEMMA BurnCore ==
    ASSUME current \in Nat, Finished(dbAt, current), NEW s, Core(s, dbAt, current),
           s.max # NoRow, NEW a \in Addresses, NEW amt \in Nat, CanBurnLP(s, a, amt)
    PROVE  LET p == BurnLP(s, a, amt) IN
           /\ Core(p, dbAt, current)
           /\ p.bal = Burn(s.bal, LP, a, amt)
           /\ p.max = s.max - amt /\ p.max \in Nat
           /\ p.pool = s.pool /\ p.creates = s.creates /\ p.swapped = s.swapped
  <1> DEFINE c == Burn(s.bal, LP, a, amt)
             p == BurnLP(s, a, amt)
             r == [tick |-> LP, from |-> a, to |-> Nobody, amt |-> amt, at |-> current]
  <1>1. Booked(s, current) /\ s \in Tables
    BY DEF Core, Booked
  <1>2. s.bal \in [Ticks -> [Addresses -> Nat]] /\ s.journal \in Seq(MemeReverts)
        /\ s.max \in Nat /\ LP \in Ticks /\ DEPLOYED \in Ticks \ {LP}
    BY <1>1, TablesFacts, V2Names
  <1>3. /\ c \in [Ticks -> [Addresses -> Nat]]
        /\ SumFunction(c[LP]) = SumFunction(s.bal[LP]) - amt
        /\ \A k \in Ticks \ {LP} : c[k] = s.bal[k]
    <2> DEFINE purse == s.bal
    <2>1. LP \in Ticks /\ purse \in [Ticks -> [Addresses -> Nat]] /\ CanBurn(purse, LP, a, amt)
      BY <1>2 DEF CanBurnLP
    <2> HIDE DEF purse
    <2>2. /\ Burn(purse, LP, a, amt) \in [Ticks -> [Addresses -> Nat]]
          /\ SumFunction(Burn(purse, LP, a, amt)[LP]) = SumFunction(purse[LP]) - amt
          /\ \A k \in Ticks \ {LP} : Burn(purse, LP, a, amt)[k] = purse[k]
      BY ONLY <2>1, a \in Addresses, amt \in Nat, BurnFacts
    <2>3. QED
      BY <2>2 DEF c, purse
  <1>4. /\ p = [s EXCEPT !.bal = c, !.max = @ - amt, !.journal = Append(s.journal, r)]
        /\ p.bal = c /\ p.journal = Append(s.journal, r) /\ p.max = s.max - amt
        /\ p.pool = s.pool /\ p.creates = s.creates
        /\ p.swapped = s.swapped /\ p.rows = s.rows /\ p.mined = s.mined
    BY <1>1, V2Names DEF BurnLP, Tables, Record
  <1>5. s.max - amt \in Nat /\ s.max - amt # NoRow
    <2>1. s.max - amt \in Nat
      BY <1>2 DEF CanBurnLP
    <2>2. QED
      BY ONLY <2>1, V2Names
  <1>6. /\ r \in MemeReverts /\ Meant(r) /\ r.at = current /\ r.tick = LP
        /\ r.from = a /\ r.to = Nobody /\ r.amt = amt /\ a # Nobody
    BY V2Names DEF MemeReverts, Meant
  <1> HIDE DEF c, r
  <1>7. p \in Tables
    <2>1. Append(s.journal, r) \in Seq(MemeReverts)
      BY <1>2, <1>6
    <2>2. QED
      BY <1>1, <1>3, <1>4, <1>5, <2>1 DEF Tables, Purses
  <1> DEFINE mb == [k \in Memes |-> s.bal[k]]
             mc == [k \in Memes |-> c[k]]
  <1>8. mb \in [Memes -> [Addresses -> Nat]] /\ LP \in Memes /\ CanBurn(mb, LP, a, amt)
    BY <1>2, V2Names DEF CanBurnLP, CanBurn
  <1>9. mc = Burn(mb, LP, a, amt)
    <2>1. c = [s.bal EXCEPT ![LP] = Less(s.bal[LP], a, amt)]
      BY DEF c, Burn, More, Less
    <2>2. Burn(mb, LP, a, amt) = [mb EXCEPT ![LP] = Less(mb[LP], a, amt)]
      BY DEF Burn, More, Less
    <2>3. mb[LP] = s.bal[LP] /\ Memes \subseteq Ticks
      BY V2Names
    <2>4. QED
      BY <1>2, <1>8, <2>1, <2>2, <2>3
  <1> HIDE DEF mb
  <1>10. Mint(mc, LP, a, amt) = mb
    <2> HIDE DEF mc
    <2>1. QED
      BY <1>8, <1>9, BurnFacts
  <1> HIDE DEF p
  <1>11. /\ MemesOf(p) = [bal |-> mc, max |-> s.max - amt]
         /\ MemesOf(s) = [bal |-> mb, max |-> s.max]
    BY <1>4 DEF MemesOf, mb
  <1> HIDE DEF mc
  <1>12. UndoOk(MemesOf(p), r) /\ Undo(MemesOf(p), r) = MemesOf(s)
    <2>1. UndoOk(MemesOf(p), r)
      BY <1>2, <1>5, <1>6, <1>10, <1>11 DEF UndoOk, CanBurnLP
    <2>2. Undo(MemesOf(p), r) = [bal |-> mb, max |-> (s.max - amt) + amt]
      <3> DEFINE m == MemesOf(p)
      <3>1. m.bal = mc /\ m.max = s.max - amt /\ m = [bal |-> m.bal, max |-> m.max]
        BY <1>11
      <3> HIDE DEF m
      <3>2. Undo(m, r) = [m EXCEPT !.bal = Mint(m.bal, LP, a, amt), !.max = @ + amt]
        BY <1>6 DEF Undo
      <3>3. Undo(m, r) = [bal |-> Mint(mc, LP, a, amt), max |-> (s.max - amt) + amt]
        BY ONLY <3>1, <3>2
      <3>4. QED
        BY <1>10, <3>3 DEF m
    <2>3. (s.max - amt) + amt = s.max
      BY <1>2
    <2>4. QED
      BY <1>11, <2>1, <2>2, <2>3
  <1>13. Booked(p, current) /\ (p.max = NoRow <=> s.max = NoRow)
    <2>1. SumFunction(p.bal[DEPLOYED]) = SumFunction(s.bal[DEPLOYED])
      BY <1>2, <1>3, <1>4
    <2>2. p.max = SumFunction(p.bal[LP]) /\ p.max # NoRow
      BY <1>1, <1>3, <1>4, <1>5 DEF Booked
    <2>3. s.rows = 0 => r.tick # DEPLOYED
      BY <1>6, V2Names
    <2>4. p.journal = Append(s.journal, r)
      BY <1>4
    <2>5. /\ p.swapped = s.swapped /\ p.creates = s.creates /\ p.mined = s.mined
          /\ p.rows = s.rows
      BY <1>4
    <2>6. QED
      BY ONLY current \in Nat, s.max # NoRow, <1>1, <1>6, <1>7, <2>1, <2>2, <2>3, <2>4, <2>5,
              AppendBooked
  <1>14. Core(p, dbAt, current)
    BY <1>4, <1>6, <1>12, <1>13, AppendCore
  <1>15. QED
    BY <1>4, <1>5, <1>14 DEF p, c

\* A pool begins.
LEMMA BeginCore ==
    ASSUME current \in Nat, Finished(dbAt, current), NEW s, Core(s, dbAt, current),
           s.max = NoRow
    PROVE  LET p == [s EXCEPT !.max = 0, !.creates = @ \cup {current}] IN
           /\ Core(p, dbAt, current) /\ p.bal = s.bal /\ p.max = 0
           /\ p.pool = s.pool /\ p.swapped = s.swapped
  <1> DEFINE p == [s EXCEPT !.max = 0, !.creates = @ \cup {current}]
             n == Len(s.journal)
  <1>1. Booked(s, current) /\ s \in Tables /\ s.creates = {}
    BY DEF Core, Booked
  <1>2. /\ s.journal \in Seq(MemeReverts) /\ n \in Nat /\ DOMAIN s.journal = 1..n
        /\ \A k \in 1..n : s.journal[k] \in MemeReverts
    BY <1>1, TablesFacts
  <1>3. /\ p.bal = s.bal /\ p.max = 0 /\ p.creates = {current}
        /\ p.journal = s.journal /\ p.pool = s.pool /\ p.rows = s.rows
        /\ p.mined = s.mined /\ p.swapped = s.swapped /\ p \in Tables
    BY <1>1 DEF Tables
  <1> HIDE DEF p
  <1>4. \A k \in 1..n : s.journal[k].tick # LP
    BY <1>1, <1>2 DEF Booked, Mentions
  <1>5. Booked(p, current)
    <2>1. p.max = SumFunction(p.bal[LP]) /\ 0 # NoRow
      BY <1>1, <1>3, V2Names DEF Booked
    <2>2. current \in 0..current /\ p.creates = {current}
          /\ \A k \in DOMAIN p.journal : p.journal[k].tick # LP
      BY <1>2, <1>3, <1>4
    <2>3. QED
      BY <1>1, <1>3, <2>1, <2>2 DEF Booked, Mentions
  <1>6. ASSUME NEW h \in 0..(current - 1) PROVE Past(dbAt[h], p, h)
    <2>1. Past(dbAt[h], s, h) /\ ~ (current <= h)
      BY DEF Core
    <2>2. {c \in p.creates : c <= h} = {c \in s.creates : c <= h}
      BY <1>1, <1>3, <2>1
    <2>3. QED
      BY <1>3, <2>1, <2>2 DEF Past
  <1>7. PICK tr : Leads(tr, s) /\ \A h \in 0..(current - 1) : Passes(tr, dbAt[h], s)
    BY DEF Core, Explained
  <1> DEFINE t2 == [k \in 0..n |-> [tr[k] EXCEPT !.max = 0]]
  <1>8. /\ tr \in [0..n -> MemeBooks] /\ tr[n] = MemesOf(s)
        /\ \A k \in 1..n : UndoOk(tr[k], s.journal[k]) /\ Undo(tr[k], s.journal[k]) = tr[k - 1]
    BY <1>7 DEF Leads
  <1>9. \A k \in 0..n : /\ t2[k] = [bal |-> tr[k].bal, max |-> 0] /\ t2[k] \in MemeBooks
                        /\ tr[k] = [bal |-> tr[k].bal, max |-> tr[k].max]
    BY <1>8 DEF MemeBooks
  <1>10. t2 \in [0..n -> MemeBooks]
    BY <1>9
  <1>11. t2[n] = MemesOf(p)
    <2>1. n \in 0..n
      BY <1>2
    <2>2. t2[n] = [bal |-> tr[n].bal, max |-> 0]
      BY <1>9, <2>1
    <2>3. QED
      BY <1>3, <1>8, <2>2 DEF MemesOf
  <1> HIDE DEF t2
  <1>12. ASSUME NEW k \in 1..n
         PROVE  UndoOk(t2[k], p.journal[k]) /\ Undo(t2[k], p.journal[k]) = t2[k - 1]
    <2> DEFINE r == s.journal[k]
    <2>1. k \in 0..n /\ k - 1 \in 0..n
      BY <1>2
    <2>2. r.tick # LP /\ Meant(r)
      BY <1>1, <1>2, <1>4 DEF Booked
    <2>3. UndoOk(tr[k], r) /\ Undo(tr[k], r) = tr[k - 1]
      BY <1>8
    <2> HIDE DEF r
    <2>4. r.from # Nobody /\ r.to # Nobody
      BY <2>2 DEF Meant
    <2>5. CanMove(tr[k].bal, r.tick, r.to, r.from, r.amt)
          /\ tr[k - 1] = [tr[k] EXCEPT !.bal = Move(tr[k].bal, r.tick, r.to, r.from, r.amt)]
      BY <2>3, <2>4 DEF UndoOk, Undo
    <2>6. tr[k - 1].bal = Move(tr[k].bal, r.tick, r.to, r.from, r.amt)
      BY <1>9, <2>1, <2>5
    <2> DEFINE m == t2[k]
    <2>12. m = [bal |-> tr[k].bal, max |-> 0]
      BY <1>9, <2>1
    <2> HIDE DEF m
    <2>10. m = [bal |-> tr[k].bal, max |-> 0] /\ m.bal = tr[k].bal
      BY ONLY <2>12
    <2>7. UndoOk(m, r)
      BY <2>2, <2>4, <2>5, <2>10 DEF UndoOk
    <2>11. Undo(m, r) = [m EXCEPT !.bal = Move(m.bal, r.tick, r.to, r.from, r.amt)]
      BY <2>4 DEF Undo
    <2>8. Undo(m, r) = [bal |-> Move(tr[k].bal, r.tick, r.to, r.from, r.amt), max |-> 0]
      BY ONLY <2>10, <2>11
    <2>9. QED
      BY <1>3, <1>9, <2>1, <2>6, <2>7, <2>8 DEF r, m
  <1>13. Leads(t2, p)
    BY <1>3, <1>10, <1>11, <1>12 DEF Leads
  <1>14. ASSUME NEW h \in 0..(current - 1) PROVE Passes(t2, dbAt[h], p)
    <2>1. Passes(tr, dbAt[h], s) /\ Past(dbAt[h], s, h) /\ dbAt[h] \in Tables
          /\ Booked(dbAt[h], h)
      BY <1>7 DEF Core, Finished
    <2>2. Len(dbAt[h].journal) \in 0..n
      <3>1. Len(dbAt[h].journal) \in Nat /\ Len(dbAt[h].journal) <= n
        BY <2>1, TablesFacts DEF Past
      <3>2. QED
        BY <1>2, <3>1
    <2>3. dbAt[h].creates = {}
      BY <1>1, <2>1 DEF Past
    <2>4. dbAt[h].max = NoRow
      BY <2>1, <2>3 DEF Booked
    <2>5. t2[Len(dbAt[h].journal)] = [bal |-> tr[Len(dbAt[h].journal)].bal, max |-> 0]
      BY <1>9, <2>2
    <2>6. p.max # NoRow
      BY <1>3, V2Names
    <2>7. QED
      BY <1>3, <2>1, <2>4, <2>5, <2>6 DEF Passes
  <1>15. Core(p, dbAt, current)
    BY <1>5, <1>6, <1>13, <1>14 DEF Core, Explained
  <1>16. QED
    BY <1>3, <1>15 DEF p

\* WDOGE, the row of the pool and the executed swaps are not about memes.
LEMMA SameMemesCore ==
    ASSUME current \in Nat, NEW s, Core(s, dbAt, current), NEW p \in Tables,
           \A k \in Memes : p.bal[k] = s.bal[k], p.max = s.max, p.journal = s.journal,
           p.creates = s.creates, p.mined = s.mined, p.rows = s.rows, NEW u,
           p.swapped = s.swapped \/ p.swapped = s.swapped \cup {<<u, current>>}
    PROVE  Core(p, dbAt, current)
  <1>1. Booked(s, current) /\ LP \in Memes /\ DEPLOYED \in Memes
    BY V2Names DEF Core
  <1>2. MemesOf(p) = MemesOf(s)
    BY DEF MemesOf
  <1>3. \A e \in p.swapped : e \in s.swapped \/ e[2] = current
    OBVIOUS
  <1>4. \A e \in p.swapped : e[2] <= current
    BY <1>1, <1>3 DEF Booked
  <1>5. Booked(p, current)
    BY <1>1, <1>4 DEF Booked, Mentions
  <1>6. ASSUME NEW h \in 0..(current - 1)
        PROVE  {e \in p.swapped : e[2] <= h} = {e \in s.swapped : e[2] <= h}
    <2>1. ~ (current <= h)
      OBVIOUS
    <2>2. s.swapped \subseteq p.swapped
      OBVIOUS
    <2>3. QED
      BY <1>3, <2>1, <2>2
  <1>7. QED
    BY <1>2, <1>5, <1>6, QuietCore

LEMMA RefreshCore ==
    ASSUME current \in Nat, NEW s, Core(s, dbAt, current), s.max # NoRow
    PROVE  LET p == Refresh(s) IN
           /\ Core(p, dbAt, current) /\ RowTrue(p) /\ p.pool # NoPool
           /\ p.pool.total = s.max /\ \A t \in Pair : p.pool.amt[t] = s.bal[t][Pool]
  <1> DEFINE row == [amt |-> [t \in Pair |-> s.bal[t][Pool]], total |-> s.max]
             p == Refresh(s)
  <1>1. s \in Tables
    BY DEF Core, Booked
  <1>2. s.bal \in [Ticks -> [Addresses -> Nat]] /\ s.max \in Nat
    BY <1>1, TablesFacts
  <1>3. row \in Rows /\ row # NoPool
    BY <1>2, V2Names DEF Rows
  <1>4. /\ p \in Tables /\ p.pool = row /\ p.bal = s.bal /\ p.max = s.max
        /\ p.journal = s.journal /\ p.creates = s.creates /\ p.mined = s.mined
        /\ p.rows = s.rows /\ p.swapped = s.swapped
    <2>1. p = [s EXCEPT !.pool = row]
      BY DEF Refresh
    <2> HIDE DEF p, row
    <2>2. QED
      BY <1>1, <1>3, <2>1 DEF Tables
  <1>5. row.total = s.max /\ \A t \in Pair : row.amt[t] = s.bal[t][Pool]
    OBVIOUS
  <1> HIDE DEF p, row
  <1>6. Core(p, dbAt, current)
    BY <1>4, SameMemesCore
  <1>7. \A t \in Pair : s.bal[t][Pool] \in Nat
    BY <1>2, V2Names
  <1>8. RowTrue(p)
    BY <1>3, <1>4, <1>5, <1>7 DEF RowTrue
  <1>9. QED
    BY <1>3, <1>4, <1>5, <1>6, <1>8 DEF p

\* Two ticks are paid.
LEMMA PayTwice ==
    ASSUME current \in Nat, Finished(dbAt, current), NEW s, Core(s, dbAt, current),
           NEW t \in Ticks, NEW k \in Ticks, t # k, NEW x \in Nat, NEW y \in Nat,
           NEW f1 \in Addresses, NEW t1 \in Addresses,
           NEW f2 \in Addresses, NEW t2 \in Addresses,
           CanMove(s.bal, t, f1, t1, x), CanMove(s.bal, k, f2, t2, y)
    PROVE  LET p == Pay(Pay(s, t, f1, t1, x), k, f2, t2, y) IN
           /\ Core(p, dbAt, current)
           /\ p.max = s.max /\ p.pool = s.pool /\ p.creates = s.creates
           /\ p.swapped = s.swapped
           /\ p.bal[t] = Passed(s.bal[t], f1, t1, x)
           /\ p.bal[k] = Passed(s.bal[k], f2, t2, y)
           /\ \A j \in Ticks \ {t, k} : p.bal[j] = s.bal[j]
  <1> DEFINE q == Pay(s, t, f1, t1, x)
             p == Pay(q, k, f2, t2, y)
  <1>1. s.bal \in [Ticks -> [Addresses -> Nat]]
    BY TablesFacts DEF Core, Booked
  <1>2. /\ Core(q, dbAt, current) /\ q.bal = Move(s.bal, t, f1, t1, x)
        /\ q.max = s.max /\ q.pool = s.pool /\ q.creates = s.creates
        /\ q.swapped = s.swapped
    BY PayCore
  <1> HIDE DEF q
  <1>3. /\ q.bal \in [Ticks -> [Addresses -> Nat]]
        /\ \A j \in Ticks \ {t} : q.bal[j] = s.bal[j]
        /\ q.bal[t] = Passed(s.bal[t], f1, t1, x)
    <2> DEFINE c == Move(s.bal, t, f1, t1, x)
    <2>1. /\ c \in [Ticks -> [Addresses -> Nat]]
          /\ \A j \in Ticks \ {t} : c[j] = s.bal[j]
          /\ c[t] = Passed(s.bal[t], f1, t1, x)
      <3> DEFINE purse == s.bal
      <3>1. purse \in [Ticks -> [Addresses -> Nat]] /\ CanMove(purse, t, f1, t1, x)
        BY <1>1
      <3> HIDE DEF purse
      <3>2. /\ Move(purse, t, f1, t1, x) \in [Ticks -> [Addresses -> Nat]]
            /\ \A j \in Ticks \ {t} : Move(purse, t, f1, t1, x)[j] = purse[j]
            /\ Move(purse, t, f1, t1, x)[t] = Passed(purse[t], f1, t1, x)
        BY <3>1, MoveFacts
      <3>3. QED
        BY <3>2 DEF purse
    <2> HIDE DEF c
    <2>2. q.bal = c
      BY <1>2 DEF c
    <2>3. QED
      BY <2>1, <2>2
  <1>4. CanMove(q.bal, k, f2, t2, y)
    BY <1>3 DEF CanMove
  <1>5. /\ Core(p, dbAt, current) /\ p.bal = Move(q.bal, k, f2, t2, y)
        /\ p.max = q.max /\ p.pool = q.pool /\ p.creates = q.creates
        /\ p.swapped = q.swapped
    BY <1>2, <1>4, PayCore
  <1> HIDE DEF p
  <1>6. /\ \A j \in Ticks \ {k} : p.bal[j] = q.bal[j]
        /\ p.bal[k] = Passed(q.bal[k], f2, t2, y)
    BY <1>3, <1>4, <1>5, MoveFacts
  <1>7. QED
    BY <1>2, <1>3, <1>5, <1>6 DEF p, q

-----------------------------------------------------------------------------
(* The operations of the pool *)

Sound(s) == Core(s, dbAt, current) /\ RowTrue(s)

LEMMA SoundFacts ==
    ASSUME NEW s, Sound(s), s.pool # NoPool
    PROVE  /\ \A t \in Pair : /\ s.pool.amt[t] \in Nat /\ s.bal[t][Pool] \in Nat
                              /\ s.pool.amt[t] <= s.bal[t][Pool]
           /\ s.pool.total \in Nat /\ s.pool.total = s.max /\ s.max # NoRow
  <1>1. s \in Tables
    BY DEF Sound, Core, Booked
  <1>2. s.bal \in [Ticks -> [Addresses -> Nat]] /\ s.pool \in Rows
    BY <1>1, TablesFacts
  <1>3. s.pool.amt \in [Pair -> Nat] /\ s.pool.total \in Nat
    BY <1>2 DEF Rows
  <1>4. s.pool.total = s.max /\ \A t \in Pair : s.pool.amt[t] <= s.bal[t][Pool]
    BY DEF Sound, RowTrue
  <1>5. \A t \in Pair : s.bal[t][Pool] \in Nat
    BY <1>2, V2Names
  <1>6. QED
    BY <1>3, <1>4, <1>5, V2Names

LEMMA IsqrtIsNat == ASSUME NEW n \in Nat PROVE Isqrt(n) \in Nat
  <1> DEFINE T == {r \in Nat : (r + 1) * (r + 1) > n}
  <1>1. n \in T
    OBVIOUS
  <1>2. PICK r \in T : \A k \in T : r <= k
    BY <1>1, LeastNatural
  <1>3. r \in Nat /\ (r + 1) * (r + 1) > n
    OBVIOUS
  <1>4. r * r <= n
    <2>1. CASE r = 0
      BY <2>1
    <2>2. CASE r # 0
      <3>1. r - 1 \in Nat /\ r - 1 < r /\ (r - 1) + 1 = r
        BY <1>3, <2>2
      <3>2. r - 1 \notin T
        BY <1>2, <1>3, <3>1
      <3>3. ((r - 1) + 1) * ((r - 1) + 1) <= n
        BY <3>1, <3>2
      <3>4. QED
        BY <3>1, <3>3
    <2>3. QED
      BY <2>1, <2>2
  <1>5. r \in 0..n
    <2>1. ASSUME r > n PROVE FALSE
      <3>1. r * r >= r * 1
        BY <1>3, <2>1
      <3>2. QED
        BY <1>3, <1>4, <2>1, <3>1
    <2>2. QED
      BY <1>3, <2>1
  <1>6. Isqrt(n) \in 0..n
    BY <1>3, <1>4, <1>5 DEF Isqrt
  <1>7. QED
    BY <1>6

\* What the pool has after it was paid, or paid.
LEMMA PoolPassed ==
    ASSUME NEW f \in [Addresses -> Nat], NEW u \in Traders, NEW amt \in Nat
    PROVE  /\ Passed(f, u, Pool, amt)[Pool] = f[Pool] + amt
           /\ Passed(f, Pool, u, amt)[Pool] = f[Pool] - amt
  BY V2Names DEF Passed

LEMMA CreateSound ==
    ASSUME current \in Nat, Finished(dbAt, current), NEW s, Sound(s), s.pool = NoPool,
           NEW u \in Traders, NEW o \in Inscriptions, o.op = "create", CanCreate(s, u, o)
    PROVE  LET d == SwapV2Create(s, u, o) IN Sound(d) /\ d.pool # NoPool
  <1> DEFINE l == FirstLiquidity(o)
             paid == Paid(s, u, o.amt)
             begun == [paid EXCEPT !.max = 0, !.creates = @ \cup {current}]
             first == MintLP(begun, u, l)
             last == MintLP(first, Pool, MINI_LIQUIDITY)
  <1>1. /\ o.amt \in [Pair -> Nat] /\ MINI_LIQUIDITY \in Nat
        /\ Tick0 \in Pair /\ Tick1 \in Pair /\ Tick0 \in Ticks /\ Tick1 \in Ticks
        /\ Tick0 # Tick1 /\ u \in Addresses /\ Pool \in Addresses
    BY V2Names, SwapV2Assumption DEF Inscriptions
  <1>2. l \in Nat
    <2>1. o.amt[Tick0] * o.amt[Tick1] \in Nat
      BY <1>1
    <2>2. Isqrt(o.amt[Tick0] * o.amt[Tick1]) \in Nat
      BY <2>1, IsqrtIsNat
    <2>3. QED
      BY <1>1, <2>2 DEF CanCreate, FirstLiquidity
  <1>3. Core(paid, dbAt, current) /\ paid.max = NoRow
    <2>1. Core(s, dbAt, current) /\ s.max = NoRow
      BY DEF Sound, RowTrue
    <2>2. /\ CanMove(s.bal, Tick0, u, Pool, o.amt[Tick0])
          /\ CanMove(s.bal, Tick1, u, Pool, o.amt[Tick1])
      BY <1>1 DEF CanCreate, CanPay
    <2>3. o.amt[Tick0] \in Nat /\ o.amt[Tick1] \in Nat
      BY <1>1
    <2>4. QED
      BY <1>1, <2>1, <2>2, <2>3, PayTwice DEF Paid
  <1> HIDE DEF l, paid
  <1>4. Core(begun, dbAt, current) /\ begun.max = 0
    BY <1>3, BeginCore
  <1> HIDE DEF begun
  <1>5. Core(first, dbAt, current) /\ first.max # NoRow
    BY <1>1, <1>2, <1>4, MintCore, V2Names
  <1> HIDE DEF first
  <1>6. Core(last, dbAt, current) /\ last.max # NoRow
    BY <1>1, <1>5, MintCore, V2Names
  <1>7. SwapV2Create(s, u, o) = Refresh(last)
    BY DEF SwapV2Create, begun, first, last, paid, l
  <1> HIDE DEF last
  <1>8. QED
    BY <1>6, <1>7, RefreshCore DEF Sound

\* Both of the pair are paid to the pool.
LEMMA PaidFacts ==
    ASSUME current \in Nat, Finished(dbAt, current), NEW s, Core(s, dbAt, current),
           NEW u \in Traders, NEW amt \in [Pair -> Nat], CanPay(s, u, amt)
    PROVE  LET p == Paid(s, u, amt) IN
           /\ Core(p, dbAt, current) /\ p.max = s.max /\ p.pool = s.pool
           /\ p.bal \in [Ticks -> [Addresses -> Nat]]
           /\ \A t \in Pair : p.bal[t][Pool] = s.bal[t][Pool] + amt[t]
  <1> DEFINE x == amt[Tick0]
             y == amt[Tick1]
             p == Pay(Pay(s, Tick0, u, Pool, x), Tick1, u, Pool, y)
  <1>1. /\ Pair = {Tick0, Tick1} /\ Tick0 \in Ticks /\ Tick1 \in Ticks
        /\ Tick0 # Tick1 /\ u \in Addresses /\ Pool \in Addresses
        /\ x \in Nat /\ y \in Nat
    BY V2Names
  <1>2. CanMove(s.bal, Tick0, u, Pool, x) /\ CanMove(s.bal, Tick1, u, Pool, y)
    BY <1>1 DEF CanPay
  <1>3. s.bal \in [Ticks -> [Addresses -> Nat]]
    BY TablesFacts DEF Core, Booked
  <1>4. Paid(s, u, amt) = p
    BY DEF Paid
  <1> HIDE DEF x, y
  <1>5. /\ Core(p, dbAt, current) /\ p.max = s.max /\ p.pool = s.pool
        /\ p.bal[Tick0] = Passed(s.bal[Tick0], u, Pool, x)
        /\ p.bal[Tick1] = Passed(s.bal[Tick1], u, Pool, y)
    BY ONLY current \in Nat, Finished(dbAt, current), Core(s, dbAt, current),
            <1>1, <1>2, PayTwice
  <1> HIDE DEF p
  <1>6. p.bal \in [Ticks -> [Addresses -> Nat]]
    BY <1>5, TablesFacts DEF Core, Booked
  <1>7. s.bal[Tick0] \in [Addresses -> Nat] /\ s.bal[Tick1] \in [Addresses -> Nat]
    BY <1>1, <1>3
  <1>8. p.bal[Tick0][Pool] = s.bal[Tick0][Pool] + x /\ p.bal[Tick1][Pool] = s.bal[Tick1][Pool] + y
    <2>1. /\ Passed(s.bal[Tick0], u, Pool, x)[Pool] = s.bal[Tick0][Pool] + x
          /\ Passed(s.bal[Tick1], u, Pool, y)[Pool] = s.bal[Tick1][Pool] + y
      BY ONLY <1>1, <1>7, u \in Traders, PoolPassed
    <2>2. QED
      BY ONLY <1>5, <2>1
  <1>9. QED
    BY <1>1, <1>4, <1>5, <1>6, <1>8 DEF x, y

\* A row is worth no more than another, and is not the first with liquidity.
Grew(p, q) == WorthNoMore(p, q) /\ (p.total = 0 => q.total = 0)

LEMMA RowFacts ==
    ASSUME NEW p \in Rows
    PROVE  /\ p.amt[Tick0] \in Nat /\ p.amt[Tick1] \in Nat /\ p.total \in Nat
           /\ \A t \in Pair : p.amt[t] \in Nat
           /\ p.amt[Tick0] * p.amt[Tick1] \in Nat /\ p.total * p.total \in Nat
  <1>1. p.amt[Tick0] \in Nat /\ p.amt[Tick1] \in Nat /\ p.total \in Nat
    BY V2Names DEF Rows
  <1>2. QED
    BY <1>1, V2Names

LEMMA GrewItself ==
    ASSUME NEW p \in Rows
    PROVE  Grew(p, p)
  <1>1. (p.amt[Tick0] * p.amt[Tick1]) * (p.total * p.total) \in Nat
    BY RowFacts
  <1>2. QED
    BY <1>1 DEF Grew, WorthNoMore

LEMMA GrewTransitive ==
    ASSUME NEW p \in Rows, NEW q \in Rows, NEW r \in Rows, Grew(p, q), Grew(q, r)
    PROVE  Grew(p, r)
  <1> DEFINE a == p.amt[Tick0] * p.amt[Tick1]
             b == q.amt[Tick0] * q.amt[Tick1]
             c == r.amt[Tick0] * r.amt[Tick1]
             R == p.total * p.total
             S == q.total * q.total
             T == r.total * r.total
  <1>1. /\ a \in Nat /\ b \in Nat /\ c \in Nat /\ R \in Nat /\ S \in Nat /\ T \in Nat
        /\ q.total \in Nat
    BY RowFacts
  <1>2. a * S <= b * R /\ b * T <= c * S
    BY DEF Grew, WorthNoMore
  <1>3. CASE q.total = 0
    <2>1. r.total = 0 /\ T = 0
      BY <1>3 DEF Grew
    <2> HIDE DEF a, b, c, R, S, T
    <2>2. a * T = 0 /\ c * R \in Nat
      BY <1>1, <2>1
    <2>3. a * T <= c * R
      BY <2>2
    <2>4. QED
      BY <2>1, <2>3 DEF Grew, WorthNoMore, a, c, R, T
  <1>4. CASE q.total # 0
    <2>1. S \in Nat \ {0}
      BY <1>1, <1>4
    <2> HIDE DEF a, b, c, R, S, T
    <2>2. a * T <= c * R
      BY <1>1, <1>2, <2>1, ValueTransitive
    <2>3. QED
      BY <1>4, <2>2 DEF Grew, WorthNoMore, a, c, R, T
  <1>5. QED
    BY <1>3, <1>4

\* An add is counted for no more than it pays, and gets no more than its share.
LEMMA AddFacts ==
    ASSUME NEW s, Sound(s), NEW u \in Traders, NEW o \in Inscriptions, o.op = "add",
           CanAdd(s, u, o)
    PROVE  /\ \A t \in Pair : s.pool.amt[t] \in Nat \ {0} /\ o.amt[t] \in Nat
           /\ Liquidity(s.pool, o) \in Nat
           /\ \A t \in Pair : s.pool.amt[t] * Liquidity(s.pool, o) <= o.amt[t] * s.pool.total
           /\ s.pool.total = 0 => Liquidity(s.pool, o) = 0
  <1> DEFINE p == s.pool
             l == Liquidity(p, o)
             c == Counted(p, o)
  <1>1. /\ Pair = {Tick0, Tick1} /\ Tick0 # Tick1
        /\ \A t \in Pair : o.amt[t] \in Nat /\ o.min[t] \in Nat
    BY V2Names DEF Inscriptions
  <1>2. p.total \in Nat /\ \A t \in Pair : p.amt[t] \in Nat \ {0}
    <2>1. p.total \in Nat /\ \A t \in Pair : p.amt[t] \in Nat
      BY SoundFacts DEF CanAdd
    <2>2. \A t \in Pair : o.amt[t] * p.amt[t] >= 1
      BY DEF CanAdd
    <2> HIDE DEF p
    <2>3. QED
      BY <1>1, <2>1, <2>2
  <1>3. TakesAllOf0(p, o) \/ TakesAllOf1(p, o)
    BY DEF CanAdd
  <1> HIDE DEF p
  <1>4. ASSUME NEW t \in Pair, NEW k \in Pair PROVE Match(p, t, k, o.amt[t]) \in Nat
    <2>1. o.amt[t] \in Nat /\ p.amt[k] \in Nat /\ p.amt[t] \in Nat \ {0}
      BY <1>1, <1>2
    <2>2. o.amt[t] * p.amt[k] \in Nat
      BY <2>1
    <2>3. QED
      BY <2>1, <2>2, DivFacts DEF Match
  <1>5. \A t \in Pair : c[t] \in Nat /\ c[t] <= o.amt[t]
    <2>1. /\ Match(p, Tick0, Tick1, o.amt[Tick0]) \in Nat
          /\ Match(p, Tick1, Tick0, o.amt[Tick1]) \in Nat
          /\ o.amt[Tick0] \in Nat /\ o.amt[Tick1] \in Nat
      BY <1>1, <1>4
    <2>2. CASE TakesAllOf0(p, o)
      <3>1. Match(p, Tick0, Tick1, o.amt[Tick0]) <= o.amt[Tick1]
        BY <2>2 DEF TakesAllOf0
      <3>2. c[Tick0] = o.amt[Tick0] /\ c[Tick1] = Match(p, Tick0, Tick1, o.amt[Tick0])
        BY <1>1, <2>2 DEF Counted
      <3> HIDE DEF c
      <3>3. QED
        BY <1>1, <2>1, <3>1, <3>2
    <2>3. CASE ~TakesAllOf0(p, o)
      <3>1. Match(p, Tick1, Tick0, o.amt[Tick1]) <= o.amt[Tick0]
        BY <1>3, <2>3 DEF TakesAllOf1
      <3>2. c[Tick1] = o.amt[Tick1] /\ c[Tick0] = Match(p, Tick1, Tick0, o.amt[Tick1])
        BY <1>1, <2>3 DEF Counted
      <3> HIDE DEF c
      <3>3. QED
        BY <1>1, <2>1, <3>1, <3>2
    <2>4. QED
      BY <2>2, <2>3
  <1>6. ASSUME NEW t \in Pair
        PROVE  Share(p, o, t) \in Nat /\ p.amt[t] * Share(p, o, t) <= o.amt[t] * p.total
    <2>1. Share(p, o, t) = (c[t] * p.total) \div p.amt[t]
      BY DEF Share
    <2> HIDE DEF c
    <2>2. c[t] \in Nat /\ c[t] <= o.amt[t] /\ o.amt[t] \in Nat
      BY <1>1, <1>5
    <2>3. c[t] * p.total \in Nat /\ c[t] * p.total <= o.amt[t] * p.total
          /\ o.amt[t] * p.total \in Nat
      BY <1>2, <2>2
    <2>4. Share(p, o, t) \in Nat /\ p.amt[t] * Share(p, o, t) <= c[t] * p.total
      BY <1>2, <2>1, <2>3, DivFacts
    <2>5. p.amt[t] * Share(p, o, t) \in Nat
      BY <1>2, <2>4
    <2>6. QED
      BY ONLY <2>3, <2>4, <2>5
  <1>7. l \in Nat /\ \A t \in Pair : l <= Share(p, o, t)
    BY <1>1, <1>6 DEF Liquidity
  <1> HIDE DEF l
  <1>8. ASSUME NEW t \in Pair PROVE p.amt[t] * l <= o.amt[t] * p.total
    <2>1. p.amt[t] \in Nat /\ Share(p, o, t) \in Nat /\ l <= Share(p, o, t) /\ o.amt[t] \in Nat
      BY <1>1, <1>2, <1>6, <1>7
    <2>2. p.amt[t] * l <= p.amt[t] * Share(p, o, t)
      BY <1>7, <2>1
    <2>3. p.amt[t] * l \in Nat /\ p.amt[t] * Share(p, o, t) \in Nat /\ o.amt[t] * p.total \in Nat
      BY <1>2, <1>7, <2>1
    <2>4. QED
      BY ONLY <1>6, <2>2, <2>3
  <1>9. p.total = 0 => l = 0
    <2>1. ASSUME p.total = 0 PROVE l = 0
      <3>1. p.amt[Tick0] * l <= o.amt[Tick0] * 0
        BY <1>1, <1>8, <2>1
      <3>2. p.amt[Tick0] \in Nat \ {0} /\ o.amt[Tick0] \in Nat
        BY <1>1, <1>2
      <3>3. p.amt[Tick0] * l <= 0
        BY <3>1, <3>2
      <3>4. QED
        BY <1>7, <3>2, <3>3
    <2>2. QED
      BY <2>1
  <1>10. QED
    BY <1>1, <1>2, <1>7, <1>8, <1>9 DEF p, l

\* The row that is refreshed after the reserves and the liquidity changed.
LEMMA RefreshGrew ==
    ASSUME NEW p \in Rows, NEW q \in Rows,
           p.amt[Tick0] * q.total <= q.amt[Tick0] * p.total,
           p.amt[Tick1] * q.total <= q.amt[Tick1] * p.total,
           p.total = 0 => q.total = 0
    PROVE  Grew(p, q)
  <1>1. (p.amt[Tick0] * p.amt[Tick1]) * (q.total * q.total)
           <= (q.amt[Tick0] * q.amt[Tick1]) * (p.total * p.total)
    BY RowFacts, ValueKept
  <1>2. QED
    BY <1>1 DEF Grew, WorthNoMore

LEMMA AddSound ==
    ASSUME current \in Nat, Finished(dbAt, current), NEW s, Sound(s),
           NEW u \in Traders, NEW o \in Inscriptions, o.op = "add", CanAdd(s, u, o)
    PROVE  LET d == SwapV2Add(s, u, o) IN Sound(d) /\ d.pool # NoPool /\ Grew(s.pool, d.pool)
  <1> DEFINE l == Liquidity(s.pool, o)
             paid == Paid(s, u, o.amt)
             c == MintLP(paid, u, l)
             d == Refresh(c)
  <1>1. /\ Tick0 \in Pair /\ Tick1 \in Pair /\ Tick0 \in Ticks /\ Tick1 \in Ticks
        /\ Tick0 # Tick1 /\ u \in Addresses /\ Pool \in Addresses
        /\ LP \notin Pair /\ LP \in Ticks
        /\ Pair = {Tick0, Tick1}
    BY V2Names
  <1>2. /\ \A t \in Pair : s.pool.amt[t] \in Nat \ {0} /\ o.amt[t] \in Nat
        /\ l \in Nat
        /\ \A t \in Pair : s.pool.amt[t] * l <= o.amt[t] * s.pool.total
        /\ s.pool.total = 0 => l = 0
    BY AddFacts
  <1>3. /\ s.pool \in Rows
        /\ \A t \in Pair : s.bal[t][Pool] \in Nat /\ s.pool.amt[t] <= s.bal[t][Pool]
        /\ s.pool.total \in Nat /\ s.pool.total = s.max /\ s.max # NoRow
    <2>1. s.pool # NoPool /\ s \in Tables
      BY DEF CanAdd, Sound, Core, Booked
    <2>2. s.pool \in Rows
      BY <2>1, TablesFacts
    <2>3. QED
      BY <2>1, <2>2, SoundFacts
  <1> HIDE DEF l
  <1>4. /\ Core(paid, dbAt, current) /\ paid.max = s.max
        /\ paid.bal \in [Ticks -> [Addresses -> Nat]]
        /\ \A t \in Pair : paid.bal[t][Pool] = s.bal[t][Pool] + o.amt[t]
    <2>1. Core(s, dbAt, current) /\ CanPay(s, u, o.amt)
      BY DEF Sound, CanAdd
    <2>2. o.amt \in [Pair -> Nat]
      BY DEF Inscriptions
    <2>3. QED
      BY <2>1, <2>2, PaidFacts
  <1> HIDE DEF paid
  <1>7. /\ Core(c, dbAt, current) /\ c.max = s.max + l /\ c.max \in Nat
        /\ c.bal = Mint(paid.bal, LP, u, l)
    BY <1>1, <1>2, <1>3, <1>4, MintCore
  <1>8. \A t \in Pair : c.bal[t] = paid.bal[t]
    <2> DEFINE m == Mint(paid.bal, LP, u, l)
    <2>1. \A k \in Ticks \ {LP} : m[k] = paid.bal[k]
      <3> DEFINE purse == paid.bal
      <3>1. purse \in [Ticks -> [Addresses -> Nat]] /\ LP \in Ticks /\ u \in Addresses /\ l \in Nat
        BY <1>1, <1>2, <1>4
      <3> HIDE DEF purse
      <3>2. /\ Mint(purse, LP, u, l) \in [Ticks -> [Addresses -> Nat]]
            /\ \A k \in Ticks \ {LP} : Mint(purse, LP, u, l)[k] = purse[k]
        BY ONLY <3>1, MintFacts
      <3>3. QED
        BY <3>2 DEF purse
    <2>2. Pair \subseteq Ticks \ {LP}
      BY V2Names
    <2> HIDE DEF m
    <2>3. c.bal = m
      BY <1>7 DEF m
    <2>4. QED
      BY <2>1, <2>2, <2>3
  <1> HIDE DEF c
  <1>9. /\ Core(d, dbAt, current) /\ RowTrue(d) /\ d.pool # NoPool
        /\ d.pool.total = c.max /\ \A t \in Pair : d.pool.amt[t] = c.bal[t][Pool]
    BY <1>7, V2Names, RefreshCore
  <1>10. SwapV2Add(s, u, o) = d
    BY DEF SwapV2Add, d, c, paid, l
  <1> HIDE DEF d
  <1>11. d.pool \in Rows
    BY <1>9, TablesFacts DEF Core, Booked
  <1>12. ASSUME NEW t \in Pair PROVE s.pool.amt[t] * d.pool.total <= d.pool.amt[t] * s.pool.total
    <2>1. d.pool.total = s.pool.total + l /\ d.pool.amt[t] = s.bal[t][Pool] + o.amt[t]
      BY <1>3, <1>4, <1>7, <1>8, <1>9
    <2>2. ASSUME NEW r \in Nat, NEW T \in Nat, NEW q \in Nat, NEW x \in Nat,
                 r <= q, r * l <= x * T
          PROVE  r * (T + l) <= (q + x) * T
      <3>1. r * T <= q * T
        BY <2>2
      <3>2. r * (T + l) = r * T + r * l /\ (q + x) * T = q * T + x * T
        BY <1>2
      <3>3. r * T \in Nat /\ r * l \in Nat /\ q * T \in Nat /\ x * T \in Nat
        BY <1>2
      <3>4. QED
        BY ONLY <2>2, <3>1, <3>2, <3>3
    <2>3. QED
      BY <1>2, <1>3, <2>1, <2>2
  <1>13. s.pool.total = 0 => d.pool.total = 0
    BY <1>2, <1>3, <1>7, <1>9
  <1>14. Grew(s.pool, d.pool)
    BY <1>1, <1>3, <1>11, <1>12, <1>13, RefreshGrew
  <1>15. QED
    BY <1>9, <1>10, <1>14 DEF Sound

\* Both of the pair are paid from the pool.
LEMMA PaidOutFacts ==
    ASSUME current \in Nat, Finished(dbAt, current), NEW s, Core(s, dbAt, current),
           NEW u \in Traders, NEW x \in Nat, NEW y \in Nat,
           CanMove(s.bal, Tick0, Pool, u, x), CanMove(s.bal, Tick1, Pool, u, y)
    PROVE  LET p == Pay(Pay(s, Tick0, Pool, u, x), Tick1, Pool, u, y) IN
           /\ Core(p, dbAt, current) /\ p.max = s.max
           /\ p.bal \in [Ticks -> [Addresses -> Nat]]
           /\ p.bal[LP] = s.bal[LP]
           /\ p.bal[Tick0][Pool] = s.bal[Tick0][Pool] - x
           /\ p.bal[Tick1][Pool] = s.bal[Tick1][Pool] - y
  <1> DEFINE p == Pay(Pay(s, Tick0, Pool, u, x), Tick1, Pool, u, y)
  <1>1. /\ Tick0 \in Ticks /\ Tick1 \in Ticks /\ LP \in Ticks \ {Tick0, Tick1}
        /\ Tick0 # Tick1 /\ u \in Addresses /\ Pool \in Addresses
    BY V2Names
  <1>2. s.bal \in [Ticks -> [Addresses -> Nat]]
    BY TablesFacts DEF Core, Booked
  <1>3. /\ Core(p, dbAt, current) /\ p.max = s.max
        /\ p.bal[Tick0] = Passed(s.bal[Tick0], Pool, u, x)
        /\ p.bal[Tick1] = Passed(s.bal[Tick1], Pool, u, y)
        /\ \A j \in Ticks \ {Tick0, Tick1} : p.bal[j] = s.bal[j]
    BY ONLY current \in Nat, Finished(dbAt, current), Core(s, dbAt, current),
            CanMove(s.bal, Tick0, Pool, u, x), CanMove(s.bal, Tick1, Pool, u, y),
            x \in Nat, y \in Nat, <1>1, PayTwice
  <1> HIDE DEF p
  <1>4. p.bal \in [Ticks -> [Addresses -> Nat]]
    BY <1>3, TablesFacts DEF Core, Booked
  <1>5. s.bal[Tick0] \in [Addresses -> Nat] /\ s.bal[Tick1] \in [Addresses -> Nat]
    BY <1>1, <1>2
  <1>6. /\ Passed(s.bal[Tick0], Pool, u, x)[Pool] = s.bal[Tick0][Pool] - x
        /\ Passed(s.bal[Tick1], Pool, u, y)[Pool] = s.bal[Tick1][Pool] - y
    BY ONLY <1>1, <1>5, u \in Traders, x \in Nat, y \in Nat, PoolPassed
  <1>7. QED
    BY <1>1, <1>3, <1>4, <1>6 DEF p

\* What a part of the liquidity is worth.
LEMMA WorthFacts ==
    ASSUME NEW r \in Nat, NEW T \in Nat \ {0}, NEW l \in Nat, l <= T
    PROVE  /\ (l * r) \div T \in Nat /\ (l * r) \div T <= r
           /\ T * ((l * r) \div T) <= l * r
  <1> DEFINE x == (l * r) \div T
  <1>1. l * r \in Nat /\ T * r \in Nat /\ l * r <= T * r
    OBVIOUS
  <1>2. x \in Nat /\ T * x <= l * r
    BY <1>1, DivFacts
  <1> HIDE DEF x
  <1>3. T * x \in Nat
    BY <1>2
  <1>4. T * x <= T * r
    BY ONLY <1>1, <1>2, <1>3
  <1>5. x <= r
    BY <1>2, <1>4, CommonFactor
  <1>6. QED
    BY <1>2, <1>5 DEF x

LEMMA RemoveSound ==
    ASSUME current \in Nat, Finished(dbAt, current), NEW s, Sound(s),
           NEW u \in Traders, NEW o \in Inscriptions, o.op = "remove", CanRemove(s, u, o)
    PROVE  LET d == SwapV2Remove(s, u, o)
           IN  Sound(d) /\ d.pool # NoPool /\ Grew(s.pool, d.pool)
  <1> DEFINE l == o.liquidity
             x == Worth(s.pool, Tick0, l)
             y == Worth(s.pool, Tick1, l)
             paid == Pay(Pay(s, Tick0, Pool, u, x), Tick1, Pool, u, y)
             c == BurnLP(paid, u, l)
             d == Refresh(c)
  <1>1. /\ Tick0 \in Pair /\ Tick1 \in Pair /\ Tick0 \in Ticks \ {LP} /\ Tick1 \in Ticks \ {LP}
        /\ u \in Addresses /\ LP \in Ticks /\ Pair = {Tick0, Tick1}
    BY V2Names
  <1>2. /\ s.pool \in Rows
        /\ \A t \in Pair : s.pool.amt[t] \in Nat /\ s.bal[t][Pool] \in Nat
                           /\ s.pool.amt[t] <= s.bal[t][Pool]
        /\ s.pool.total \in Nat /\ s.pool.total = s.max /\ s.max # NoRow
    <2>1. s.pool # NoPool /\ s \in Tables
      BY DEF CanRemove, Sound, Core, Booked
    <2>2. s.pool \in Rows
      BY <2>1, TablesFacts
    <2>3. QED
      BY <2>1, <2>2, SoundFacts
  <1>3. l \in Nat /\ l >= 1 /\ l <= s.pool.total /\ s.pool.total \in Nat \ {0}
    <2>1. l \in Nat /\ l >= 1 /\ l <= s.pool.total
      BY DEF Inscriptions, CanRemove
    <2> HIDE DEF l
    <2>2. QED
      BY <1>2, <2>1
  <1>4. /\ x \in Nat /\ x <= s.pool.amt[Tick0] /\ s.pool.total * x <= l * s.pool.amt[Tick0]
        /\ y \in Nat /\ y <= s.pool.amt[Tick1] /\ s.pool.total * y <= l * s.pool.amt[Tick1]
    <2> HIDE DEF l
    <2>1. s.pool.amt[Tick0] \in Nat /\ s.pool.amt[Tick1] \in Nat
      BY <1>1, <1>2
    <2>2. QED
      BY <1>3, <2>1, WorthFacts DEF Worth
  <1>5. CanMove(s.bal, Tick0, Pool, u, x) /\ CanMove(s.bal, Tick1, Pool, u, y)
    BY <1>1 DEF CanRemove
  <1>6. Core(s, dbAt, current) /\ CanBurnLP(s, u, l)
    BY DEF Sound, CanRemove
  <1>7. SwapV2Remove(s, u, o) = d
    BY DEF SwapV2Remove
  <1> HIDE DEF l, x, y
  <1>8. /\ Core(paid, dbAt, current) /\ paid.max = s.max
        /\ paid.bal \in [Ticks -> [Addresses -> Nat]]
        /\ paid.bal[LP] = s.bal[LP]
        /\ paid.bal[Tick0][Pool] = s.bal[Tick0][Pool] - x
        /\ paid.bal[Tick1][Pool] = s.bal[Tick1][Pool] - y
    BY ONLY current \in Nat, Finished(dbAt, current), u \in Traders, <1>4, <1>5, <1>6, PaidOutFacts
  <1> HIDE DEF paid
  <1>9. CanBurnLP(paid, u, l)
    BY <1>6, <1>8 DEF CanBurnLP, CanBurn
  <1>10. /\ Core(c, dbAt, current) /\ c.max = s.max - l /\ c.max \in Nat
         /\ c.bal = Burn(paid.bal, LP, u, l)
    BY <1>1, <1>2, <1>3, <1>8, <1>9, BurnCore
  <1>11. c.bal[Tick0] = paid.bal[Tick0] /\ c.bal[Tick1] = paid.bal[Tick1]
    <2> DEFINE purse == paid.bal
    <2>1. /\ purse \in [Ticks -> [Addresses -> Nat]] /\ LP \in Ticks /\ u \in Addresses
          /\ l \in Nat /\ CanBurn(purse, LP, u, l)
      BY <1>1, <1>3, <1>8, <1>9 DEF CanBurnLP
    <2> HIDE DEF purse
    <2>2. /\ Burn(purse, LP, u, l) \in [Ticks -> [Addresses -> Nat]]
          /\ \A k \in Ticks \ {LP} : Burn(purse, LP, u, l)[k] = purse[k]
      BY ONLY <2>1, BurnFacts
    <2>3. QED
      BY <1>1, <1>10, <2>2 DEF purse
  <1> HIDE DEF c
  <1>12. /\ Core(d, dbAt, current) /\ RowTrue(d) /\ d.pool # NoPool
         /\ d.pool.total = c.max /\ \A t \in Pair : d.pool.amt[t] = c.bal[t][Pool]
    BY <1>10, V2Names, RefreshCore
  <1> HIDE DEF d
  <1>13. d.pool \in Rows
    BY <1>12, TablesFacts DEF Core, Booked
  <1>14. /\ d.pool.total = s.pool.total - l
         /\ d.pool.amt[Tick0] = s.bal[Tick0][Pool] - x
         /\ d.pool.amt[Tick1] = s.bal[Tick1][Pool] - y
    BY <1>1, <1>2, <1>8, <1>10, <1>11, <1>12
  <1>15. ASSUME NEW r \in Nat, NEW T \in Nat, NEW q \in Nat, NEW k \in Nat,
                r <= q, k <= r, T * k <= l * r, l <= T
         PROVE  r * (T - l) <= (q - k) * T
    <2>1. r * T <= q * T
      BY <1>15
    <2>2. r * (T - l) = r * T - l * r /\ (q - k) * T = q * T - T * k
      BY <1>3
    <2>3. r * T \in Nat /\ l * r \in Nat /\ q * T \in Nat /\ T * k \in Nat
      BY <1>3
    <2>4. QED
      BY ONLY <1>15, <2>1, <2>2, <2>3
  <1>16. /\ s.pool.amt[Tick0] * (s.pool.total - l)
              <= (s.bal[Tick0][Pool] - x) * s.pool.total
         /\ s.pool.amt[Tick1] * (s.pool.total - l)
              <= (s.bal[Tick1][Pool] - y) * s.pool.total
    <2>1. /\ s.pool.amt[Tick0] \in Nat /\ s.bal[Tick0][Pool] \in Nat
          /\ s.pool.amt[Tick0] <= s.bal[Tick0][Pool]
          /\ s.pool.amt[Tick1] \in Nat /\ s.bal[Tick1][Pool] \in Nat
          /\ s.pool.amt[Tick1] <= s.bal[Tick1][Pool]
      BY <1>1, <1>2
    <2>2. s.pool.amt[Tick0] * (s.pool.total - l)
              <= (s.bal[Tick0][Pool] - x) * s.pool.total
      BY <1>3, <1>4, <1>15, <2>1
    <2>3. s.pool.amt[Tick1] * (s.pool.total - l)
              <= (s.bal[Tick1][Pool] - y) * s.pool.total
      BY <1>3, <1>4, <1>15, <2>1
    <2>4. QED
      BY <2>2, <2>3
  <1>17. Grew(s.pool, d.pool)
    <2>1. s.pool.total # 0
      BY <1>3
    <2>2. /\ s.pool.amt[Tick0] * d.pool.total <= d.pool.amt[Tick0] * s.pool.total
          /\ s.pool.amt[Tick1] * d.pool.total <= d.pool.amt[Tick1] * s.pool.total
      BY ONLY <1>14, <1>16
    <2>3. QED
      BY ONLY <1>2, <1>13, <2>1, <2>2, RefreshGrew
  <1>18. QED
    BY <1>7, <1>12, <1>17 DEF Sound

\* The fee leaves something to trade.
LEMMA TradeFacts ==
    ASSUME NEW p \in Rows, NEW o \in Inscriptions, o.op = "swap", o.amt >= 1
    PROVE  \E in \in Nat :
             /\ in <= o.amt
             /\ Out(p, o) \in Nat /\ Out(p, o) <= p.amt[Other(o.tick)]
             /\ (p.amt[o.tick] + in) * Out(p, o) <= in * p.amt[Other(o.tick)]
  <1> DEFINE fee == FeeParts * (o.amt \div FeeUnit)
             in == o.amt - fee
             ri == p.amt[o.tick]
             ro == p.amt[Other(o.tick)]
  <1>1. o.tick \in Pair /\ o.amt \in Nat /\ Other(o.tick) \in Pair
    BY V2Names DEF Inscriptions, Other
  <1>2. ri \in Nat /\ ro \in Nat
    BY <1>1, RowFacts
  <1>3. in \in Nat /\ in <= o.amt /\ in >= 1
    <2>1. FeeUnit \in Nat \ {0} /\ FeeParts \in Nat /\ FeeParts <= FeeUnit - 1
      BY SwapV2Assumption
    <2> DEFINE q == o.amt \div FeeUnit
    <2>2. q \in Nat /\ FeeUnit * q <= o.amt
      BY <1>1, <2>1, DivFacts
    <2> HIDE DEF q
    <2>3. FeeParts * q \in Nat /\ FeeParts * q <= (FeeUnit - 1) * q /\ FeeUnit * q \in Nat
      BY <2>1, <2>2
    <2>4. (FeeUnit - 1) * q = FeeUnit * q - q
      BY <2>1, <2>2
    <2>5. fee = FeeParts * q
      BY DEF q
    <2> HIDE DEF fee
    <2>6. CASE q = 0
      BY <1>1, <2>1, <2>3, <2>5, <2>6
    <2>7. CASE q # 0
      BY <1>1, <2>2, <2>3, <2>4, <2>5, <2>7
    <2>8. QED
      BY <2>6, <2>7
  <1>4. Out(p, o) = (in * ro) \div (ri + in)
    BY DEF Out
  <1> HIDE DEF in, ri, ro
  <1>5. ri + in \in Nat \ {0} /\ in <= ri + in
    BY <1>2, <1>3
  <1>6. Out(p, o) \in Nat /\ Out(p, o) <= ro /\ (ri + in) * Out(p, o) <= in * ro
    BY <1>2, <1>3, <1>4, <1>5, WorthFacts
  <1>7. QED
    BY <1>3, <1>6 DEF ri, ro

LEMMA ExecSound ==
    ASSUME current \in Nat, Finished(dbAt, current), NEW s, Sound(s),
           NEW u \in Traders, NEW o \in Inscriptions, o.op = "swap", CanExec(s, u, o)
    PROVE  LET d == SwapV2Exec(s, u, o)
           IN  Sound(d) /\ d.pool # NoPool /\ Grew(s.pool, d.pool)
  <1> DEFINE t == o.tick
             k == Other(o.tick)
             x == o.amt
             y == Out(s.pool, o)
             paid == Pay(Pay(s, t, u, Pool, x), k, Pool, u, y)
             c == [paid EXCEPT !.swapped = @ \cup {<<u, current>>}]
             d == Refresh(c)
  <1>1. /\ t \in Pair /\ k \in Pair /\ t # k /\ x \in Nat
        /\ (t = Tick0 /\ k = Tick1) \/ (t = Tick1 /\ k = Tick0)
        /\ t \in Ticks /\ k \in Ticks /\ u \in Addresses /\ Pool \in Addresses
        /\ Pair = {Tick0, Tick1}
    BY V2Names DEF Inscriptions, Other
  <1>2. /\ s.pool \in Rows
        /\ \A j \in Pair : s.pool.amt[j] \in Nat /\ s.bal[j][Pool] \in Nat
                           /\ s.pool.amt[j] <= s.bal[j][Pool]
        /\ s.pool.total \in Nat /\ s.pool.total = s.max /\ s.max # NoRow
    <2>1. s.pool # NoPool /\ s \in Tables
      BY DEF CanExec, Sound, Core, Booked
    <2>2. s.pool \in Rows
      BY <2>1, TablesFacts
    <2>3. QED
      BY <2>1, <2>2, SoundFacts
  <1>3. CanMove(s.bal, t, u, Pool, x) /\ CanMove(s.bal, k, Pool, u, y) /\ x >= 1
    BY DEF CanExec, CanMove
  <1>4. PICK in \in Nat : /\ in <= x
                         /\ y \in Nat /\ y <= s.pool.amt[k]
                         /\ (s.pool.amt[t] + in) * y <= in * s.pool.amt[k]
    BY <1>2, <1>3, TradeFacts
  <1>5. SwapV2Exec(s, u, o) = d
    BY DEF SwapV2Exec
  <1>6. Core(s, dbAt, current)
    BY DEF Sound
  <1> HIDE DEF t, k, x, y
  <1>7. /\ Core(paid, dbAt, current) /\ paid.max = s.max
        /\ paid.bal[t] = Passed(s.bal[t], u, Pool, x)
        /\ paid.bal[k] = Passed(s.bal[k], Pool, u, y)
    BY ONLY current \in Nat, Finished(dbAt, current), <1>1, <1>3, <1>4, <1>6, PayTwice
  <1>8. paid.bal[t][Pool] = s.bal[t][Pool] + x /\ paid.bal[k][Pool] = s.bal[k][Pool] - y
    <2>1. s.bal \in [Ticks -> [Addresses -> Nat]]
      BY <1>6, TablesFacts DEF Core, Booked
    <2>2. s.bal[t] \in [Addresses -> Nat] /\ s.bal[k] \in [Addresses -> Nat]
          /\ u \in Traders /\ x \in Nat /\ y \in Nat
      BY <1>1, <1>4, <2>1
    <2>3. /\ Passed(s.bal[t], u, Pool, x)[Pool] = s.bal[t][Pool] + x
          /\ Passed(s.bal[k], Pool, u, y)[Pool] = s.bal[k][Pool] - y
      BY ONLY <2>2, PoolPassed
    <2>4. QED
      BY ONLY <1>7, <2>3
  <1>9. paid \in Tables
    BY <1>7 DEF Core, Booked
  <1> HIDE DEF paid
  <1>10. /\ c \in Tables /\ c.bal = paid.bal /\ c.max = paid.max /\ c.journal = paid.journal
         /\ c.creates = paid.creates /\ c.mined = paid.mined /\ c.rows = paid.rows
         /\ c.swapped = paid.swapped \cup {<<u, current>>}
    BY <1>9 DEF Tables
  <1> HIDE DEF c
  <1>11. Core(c, dbAt, current)
    BY <1>7, <1>10, SameMemesCore
  <1>12. /\ Core(d, dbAt, current) /\ RowTrue(d) /\ d.pool # NoPool
         /\ d.pool.total = c.max /\ \A j \in Pair : d.pool.amt[j] = c.bal[j][Pool]
    BY <1>2, <1>7, <1>10, <1>11, RefreshCore
  <1> HIDE DEF d
  <1>13. d.pool \in Rows
    BY <1>12, TablesFacts DEF Core, Booked
  <1>14. Grew(s.pool, d.pool)
    <2> DEFINE qi == s.bal[t][Pool] + x
               qo == s.bal[k][Pool] - y
    <2>1. d.pool.amt[t] = qi /\ d.pool.amt[k] = qo /\ d.pool.total = s.pool.total
      BY <1>1, <1>2, <1>7, <1>8, <1>10, <1>12
    <2>2. /\ s.pool.amt[t] \in Nat /\ s.pool.amt[k] \in Nat /\ y <= s.pool.amt[k]
          /\ qi \in Nat /\ qo \in Nat /\ y \in Nat
          /\ s.pool.amt[t] + in <= qi /\ s.pool.amt[k] - y <= qo
      BY <1>1, <1>2, <1>4
    <2> HIDE DEF qi, qo
    <2>3. s.pool.amt[t] * s.pool.amt[k] <= qi * qo
      BY <1>4, <2>2, TradeKeepsProduct
    <2>4. s.pool.amt[t] * s.pool.amt[k] = s.pool.amt[Tick0] * s.pool.amt[Tick1]
          /\ qi * qo = d.pool.amt[Tick0] * d.pool.amt[Tick1]
      BY <1>1, <2>1, <2>2
    <2>5. ASSUME NEW m \in Nat, NEW n \in Nat, NEW T \in Nat, m <= n
          PROVE  m * (T * T) <= n * (T * T)
      BY <2>5
    <2>6. s.pool.amt[t] * s.pool.amt[k] \in Nat /\ qi * qo \in Nat
      BY <2>2
    <2>7. (s.pool.amt[t] * s.pool.amt[k]) * (s.pool.total * s.pool.total)
             <= (qi * qo) * (s.pool.total * s.pool.total)
      BY <1>2, <2>3, <2>5, <2>6
    <2>8. QED
      BY ONLY <2>1, <2>4, <2>7 DEF Grew, WorthNoMore
  <1>15. QED
    BY <1>5, <1>12, <1>14 DEF Sound

\* Whatever the inscription is.
LEMMA DoSound ==
    ASSUME current \in Nat, Finished(dbAt, current), NEW s, Sound(s),
           NEW u \in Traders, NEW o \in Inscriptions, Can(s, u, o),
           o.op = "create" => s.pool = NoPool
    PROVE  /\ Sound(Do(s, u, o)) /\ Do(s, u, o).pool # NoPool
           /\ s.pool # NoPool => Grew(s.pool, Do(s, u, o).pool)
  <1>1. CASE o.op = "create" /\ CanCreate(s, u, o)
    <2>1. Do(s, u, o) = SwapV2Create(s, u, o)
      BY <1>1 DEF Do
    <2>2. QED
      BY <1>1, <2>1, CreateSound
  <1>2. CASE o.op = "add" /\ CanAdd(s, u, o)
    <2>1. Do(s, u, o) = SwapV2Add(s, u, o)
      BY <1>2 DEF Do
    <2>2. QED
      BY <1>2, <2>1, AddSound
  <1>3. CASE o.op = "remove" /\ CanRemove(s, u, o)
    <2>1. Do(s, u, o) = SwapV2Remove(s, u, o)
      BY <1>3 DEF Do
    <2>2. QED
      BY <1>3, <2>1, RemoveSound
  <1>4. CASE o.op = "swap" /\ CanExec(s, u, o)
    <2>1. Do(s, u, o) = SwapV2Exec(s, u, o)
      BY <1>4 DEF Do
    <2>2. QED
      BY <1>4, <2>1, ExecSound
  <1>5. QED
    BY <1>1, <1>2, <1>3, <1>4 DEF Can

-----------------------------------------------------------------------------
(* What is not the pool's own operation takes nothing from it *)

\* The ledger of WDOGE.
LEMMA WdogeSound ==
    ASSUME current \in Nat, NEW s, Sound(s), NEW c \in [Ticks -> [Addresses -> Nat]],
           \A k \in Ticks \ {WDOGE} : c[k] = s.bal[k], c[WDOGE][Pool] >= s.bal[WDOGE][Pool]
    PROVE  LET p == [s EXCEPT !.bal = c] IN Sound(p) /\ p.pool = s.pool
  <1> DEFINE p == [s EXCEPT !.bal = c]
  <1>1. s \in Tables /\ Core(s, dbAt, current) /\ RowTrue(s)
    BY DEF Sound, Core, Booked
  <1>2. /\ p \in Tables /\ p.bal = c /\ p.max = s.max /\ p.journal = s.journal
        /\ p.creates = s.creates /\ p.mined = s.mined /\ p.rows = s.rows
        /\ p.swapped = s.swapped /\ p.pool = s.pool
    BY <1>1 DEF Tables, Purses
  <1> HIDE DEF p
  <1>3. \A k \in Memes : p.bal[k] = s.bal[k]
    BY <1>2, V2Names
  <1>4. Core(p, dbAt, current)
    BY <1>1, <1>2, <1>3, SameMemesCore
  <1>5. RowTrue(p)
    <2>1. CASE s.pool = NoPool
      BY <1>1, <1>2, <2>1 DEF RowTrue
    <2>2. CASE s.pool # NoPool
      <3>1. \A t \in Pair : s.pool.amt[t] \in Nat /\ s.bal[t][Pool] \in Nat
                            /\ s.pool.amt[t] <= s.bal[t][Pool]
        BY <2>2, SoundFacts
      <3>2. s.pool.total = s.max
        BY <2>2, SoundFacts
      <3>3. WDOGE \in Ticks /\ Pool \in Addresses /\ Pair \subseteq Ticks
        BY V2Names
      <3>4. c[WDOGE][Pool] \in Nat
        BY <3>3
      <3>5. \A t \in Pair : s.pool.amt[t] <= p.bal[t][Pool]
        BY <1>2, <3>1, <3>3, <3>4
      <3>6. QED
        BY <1>2, <2>2, <3>2, <3>5 DEF RowTrue
    <2>3. QED
      BY <2>1, <2>2
  <1>6. QED
    BY <1>2, <1>4, <1>5 DEF Sound, p

LEMMA WdogeMintSound ==
    ASSUME current \in Nat, NEW s, Sound(s), NEW u \in Traders, NEW amt \in Nat
    PROVE  LET p == [s EXCEPT !.bal = Mint(s.bal, WDOGE, u, amt)] IN Sound(p) /\ p.pool = s.pool
  <1> DEFINE c == Mint(s.bal, WDOGE, u, amt)
             b == s.bal
  <1>1. b \in [Ticks -> [Addresses -> Nat]]
    BY TablesFacts DEF Sound, Core, Booked
  <1>2. WDOGE \in Ticks /\ u \in Addresses /\ u # Pool /\ Pool \in Addresses
    BY V2Names
  <1> HIDE DEF b
  <1>3. /\ Mint(b, WDOGE, u, amt) \in [Ticks -> [Addresses -> Nat]]
        /\ \A k \in Ticks \ {WDOGE} : Mint(b, WDOGE, u, amt)[k] = b[k]
        /\ Mint(b, WDOGE, u, amt)[WDOGE] = More(b[WDOGE], u, amt)
    BY <1>1, <1>2, MintFacts
  <1>4. More(b[WDOGE], u, amt)[Pool] = b[WDOGE][Pool] /\ b[WDOGE][Pool] \in Nat
    BY <1>1, <1>2 DEF More
  <1>5. Mint(b, WDOGE, u, amt)[WDOGE][Pool] >= b[WDOGE][Pool]
    BY <1>3, <1>4
  <1>6. QED
    BY <1>3, <1>5, WdogeSound DEF b

LEMMA WdogeBurnSound ==
    ASSUME current \in Nat, NEW s, Sound(s), NEW u \in Traders, NEW amt \in Nat,
           CanBurn(s.bal, WDOGE, u, amt)
    PROVE  LET p == [s EXCEPT !.bal = Burn(s.bal, WDOGE, u, amt)] IN Sound(p) /\ p.pool = s.pool
  <1> DEFINE b == s.bal
  <1>1. b \in [Ticks -> [Addresses -> Nat]] /\ CanBurn(b, WDOGE, u, amt)
    BY TablesFacts DEF Sound, Core, Booked
  <1>2. WDOGE \in Ticks /\ u \in Addresses /\ u # Pool /\ Pool \in Addresses
    BY V2Names
  <1> HIDE DEF b
  <1>3. /\ Burn(b, WDOGE, u, amt) \in [Ticks -> [Addresses -> Nat]]
        /\ \A k \in Ticks \ {WDOGE} : Burn(b, WDOGE, u, amt)[k] = b[k]
        /\ Burn(b, WDOGE, u, amt)[WDOGE] = Less(b[WDOGE], u, amt)
    BY <1>1, <1>2, BurnFacts
  <1>4. Less(b[WDOGE], u, amt)[Pool] = b[WDOGE][Pool] /\ b[WDOGE][Pool] \in Nat
    BY <1>1, <1>2 DEF Less
  <1>5. Burn(b, WDOGE, u, amt)[WDOGE][Pool] >= b[WDOGE][Pool]
    BY <1>3, <1>4
  <1>6. QED
    BY <1>3, <1>5, WdogeSound DEF b

\* No trader sends what is the pool's.
LEMMA PoolNotSender ==
    ASSUME NEW f \in [Addresses -> Nat], NEW u \in Traders, NEW a \in Addresses, NEW amt \in Nat
    PROVE  Passed(f, u, a, amt)[Pool] >= f[Pool]
  <1>1. u # Pool /\ Pool \in Addresses /\ f[Pool] \in Nat
    BY V2Names
  <1>2. QED
    BY <1>1 DEF Passed

LEMMA WdogeMoveSound ==
    ASSUME current \in Nat, NEW s, Sound(s), NEW u \in Traders, NEW a \in Addresses,
           NEW amt \in Nat, CanMove(s.bal, WDOGE, u, a, amt)
    PROVE  LET p == [s EXCEPT !.bal = Move(s.bal, WDOGE, u, a, amt)]
           IN  Sound(p) /\ p.pool = s.pool
  <1> DEFINE b == s.bal
  <1>1. b \in [Ticks -> [Addresses -> Nat]] /\ CanMove(b, WDOGE, u, a, amt)
    BY TablesFacts DEF Sound, Core, Booked
  <1>2. WDOGE \in Ticks /\ u \in Addresses /\ Pool \in Addresses
    BY V2Names
  <1> HIDE DEF b
  <1>3. /\ Move(b, WDOGE, u, a, amt) \in [Ticks -> [Addresses -> Nat]]
        /\ \A k \in Ticks \ {WDOGE} : Move(b, WDOGE, u, a, amt)[k] = b[k]
        /\ Move(b, WDOGE, u, a, amt)[WDOGE] = Passed(b[WDOGE], u, a, amt)
    BY ONLY <1>1, <1>2, a \in Addresses, amt \in Nat, MoveFacts
  <1>4. b[WDOGE] \in [Addresses -> Nat]
    BY <1>1, <1>2
  <1>5. Move(b, WDOGE, u, a, amt)[WDOGE][Pool] >= b[WDOGE][Pool]
    BY <1>3, <1>4, PoolNotSender
  <1>6. QED
    BY <1>3, <1>5, WdogeSound DEF b

\* The ledger of the memes.
LEMMA MemeMoveSound ==
    ASSUME current \in Nat, Finished(dbAt, current), NEW s, Sound(s),
           NEW t \in Memes, NEW u \in Traders, NEW a \in Addresses, NEW amt \in Nat,
           CanMove(s.bal, t, u, a, amt)
    PROVE  LET p == Pay(s, t, u, a, amt) IN Sound(p) /\ p.pool = s.pool
  <1> DEFINE p == Pay(s, t, u, a, amt)
             b == s.bal
  <1>1. b \in [Ticks -> [Addresses -> Nat]] /\ CanMove(b, t, u, a, amt)
    BY TablesFacts DEF Sound, Core, Booked
  <1>2. t \in Ticks /\ u \in Addresses /\ Pool \in Addresses /\ Pair \subseteq Ticks
    BY V2Names
  <1>3. /\ Core(p, dbAt, current) /\ p.bal = Move(s.bal, t, u, a, amt)
        /\ p.max = s.max /\ p.pool = s.pool
    BY <1>2, PayCore DEF Sound
  <1> HIDE DEF p
  <1>4. RowTrue(p)
    <2>1. CASE s.pool = NoPool
      BY <1>3, <2>1 DEF RowTrue, Sound
    <2>2. CASE s.pool # NoPool
      <3>1. \A k \in Pair : s.pool.amt[k] \in Nat /\ s.bal[k][Pool] \in Nat
                            /\ s.pool.amt[k] <= s.bal[k][Pool]
        BY <2>2, SoundFacts
      <3>2. s.pool.total = s.max
        BY <2>2, SoundFacts
      <3> HIDE DEF b
      <3>3. /\ Move(b, t, u, a, amt) \in [Ticks -> [Addresses -> Nat]]
            /\ \A k \in Ticks \ {t} : Move(b, t, u, a, amt)[k] = b[k]
            /\ Move(b, t, u, a, amt)[t] = Passed(b[t], u, a, amt)
        BY ONLY <1>1, <1>2, a \in Addresses, amt \in Nat, MoveFacts
      <3>4. b[t] \in [Addresses -> Nat]
        BY <1>1, <1>2
      <3>5. Move(b, t, u, a, amt)[t][Pool] >= b[t][Pool]
        BY <3>3, <3>4, PoolNotSender
      <3>6. /\ p.bal \in [Ticks -> [Addresses -> Nat]]
            /\ \A k \in Ticks \ {t} : p.bal[k] = s.bal[k]
            /\ p.bal[t][Pool] >= s.bal[t][Pool]
        BY <1>3, <3>3, <3>5 DEF b
      <3>7. ASSUME NEW k \in Pair PROVE s.pool.amt[k] <= p.bal[k][Pool]
        <4>1. p.bal[k][Pool] \in Nat /\ s.pool.amt[k] \in Nat /\ s.bal[k][Pool] \in Nat
              /\ s.pool.amt[k] <= s.bal[k][Pool]
          BY <1>2, <3>1, <3>6
        <4>2. CASE k = t
          BY <3>6, <4>1, <4>2
        <4>3. CASE k # t
          BY <1>2, <3>6, <4>1, <4>3
        <4>4. QED
          BY <4>2, <4>3
      <3>8. QED
        BY <1>3, <2>2, <3>2, <3>7 DEF RowTrue
    <2>3. QED
      BY <2>1, <2>2
  <1>5. QED
    BY <1>3, <1>4 DEF Sound, p

-----------------------------------------------------------------------------
(* What has no journal row is put into the whole trace *)

\* The memes m with the holders f of token T, and its row with max x.
Put(b, T, f) == [b EXCEPT ![T] = f]
Over(m, T, f, x) == [bal |-> Put(m.bal, T, f), max |-> x]

LEMMA OverFacts ==
    ASSUME NEW m \in MemeBooks, NEW T \in Memes, NEW f \in [Addresses -> Nat],
           NEW x \in Nat \cup {NoRow}
    PROVE  LET n == Over(m, T, f, x) IN
           /\ n \in MemeBooks /\ n.max = x /\ n.bal[T] = f
           /\ \A k \in Memes \ {T} : n.bal[k] = m.bal[k]
           /\ n = [bal |-> n.bal, max |-> n.max]
           /\ n.bal = Put(m.bal, T, f)
  <1> DEFINE n == Over(m, T, f, x)
  <1>1. m.bal \in [Memes -> [Addresses -> Nat]]
    BY DEF MemeBooks
  <1>2. n.bal = Put(m.bal, T, f) /\ n.max = x /\ n = [bal |-> n.bal, max |-> n.max]
    BY DEF Over
  <1> HIDE DEF n
  <1>3. /\ n.bal \in [Memes -> [Addresses -> Nat]] /\ n.bal[T] = f
        /\ \A k \in Memes \ {T} : n.bal[k] = m.bal[k]
    BY <1>1, <1>2 DEF Put
  <1>4. n \in MemeBooks
    BY <1>2, <1>3 DEF MemeBooks
  <1>5. QED
    BY <1>2, <1>3, <1>4 DEF n

\* Changes of two tokens commute.
LEMMA TwoTokens ==
    ASSUME NEW b \in [Memes -> [Addresses -> Nat]], NEW T \in Memes, NEW k \in Memes, k # T,
           NEW f, NEW g
    PROVE  Put(Put(b, T, f), k, g) = Put(Put(b, k, g), T, f)
  BY DEF Put

LEMMA OverBurn ==
    ASSUME NEW b \in [Memes -> [Addresses -> Nat]], NEW T \in Memes, NEW k \in Memes, k # T,
           NEW f, NEW a \in Addresses, NEW amt \in Nat
    PROVE  LET c == Put(b, T, f) IN
           /\ Burn(c, k, a, amt) = Put(Burn(b, k, a, amt), T, f)
           /\ Mint(c, k, a, amt) = Put(Mint(b, k, a, amt), T, f)
           /\ c[k] = b[k]
  <1> DEFINE c == Put(b, T, f)
  <1>1. c[k] = b[k]
    BY DEF Put
  <1>2. /\ Burn(c, k, a, amt) = Put(c, k, Less(c[k], a, amt))
        /\ Burn(b, k, a, amt) = Put(b, k, Less(b[k], a, amt))
    BY DEF Burn, Less, Put
  <1>3. /\ Mint(c, k, a, amt) = Put(c, k, More(c[k], a, amt))
        /\ Mint(b, k, a, amt) = Put(b, k, More(b[k], a, amt))
    BY DEF Mint, More, Put
  <1>4. \A g : Put(c, k, g) = Put(Put(b, k, g), T, f)
    BY TwoTokens
  <1> HIDE DEF c
  <1>5. QED
    BY <1>1, <1>2, <1>3, <1>4 DEF c

LEMMA OverMove ==
    ASSUME NEW b \in [Memes -> [Addresses -> Nat]], NEW T \in Memes, NEW k \in Memes, k # T,
           NEW f, NEW from \in Addresses, NEW to \in Addresses, NEW amt \in Nat
    PROVE  LET c == Put(b, T, f) IN
           Move(c, k, from, to, amt) = Put(Move(b, k, from, to, amt), T, f)
  <1> DEFINE c == Put(b, T, f)
  <1>1. c[k] = b[k]
    BY DEF Put
  <1>2. /\ Move(c, k, from, to, amt) = Put(c, k, Passed(c[k], from, to, amt))
        /\ Move(b, k, from, to, amt) = Put(b, k, Passed(b[k], from, to, amt))
    BY DEF Move, Passed, Put
  <1>3. \A g : Put(c, k, g) = Put(Put(b, k, g), T, f)
    BY TwoTokens
  <1> HIDE DEF c
  <1>4. QED
    BY <1>1, <1>2, <1>3 DEF c

\* An undo of another token's row is the same over it.
LEMMA OverStep ==
    ASSUME NEW m \in MemeBooks, NEW u \in MemeBooks, NEW r \in MemeReverts, Meant(r),
           UndoOk(m, r), Undo(m, r) = u, NEW T \in Memes, r.tick # T,
           NEW f \in [Addresses -> Nat], NEW x \in Nat \cup {NoRow}, NEW y,
           T = LP => x = y,
           T # LP => x = m.max /\ y = u.max
    PROVE  UndoOk(Over(m, T, f, x), r) /\ Undo(Over(m, T, f, x), r) = Over(u, T, f, y)
  <1> DEFINE n == Over(m, T, f, x)
  <1>1. /\ m.bal \in [Memes -> [Addresses -> Nat]] /\ m = [bal |-> m.bal, max |-> m.max]
        /\ u = [bal |-> u.bal, max |-> u.max]
    BY DEF MemeBooks
  <1>2. /\ n.max = x /\ n.bal = Put(m.bal, T, f) /\ n = [bal |-> n.bal, max |-> n.max]
        /\ \A k \in Memes \ {T} : n.bal[k] = m.bal[k]
    BY OverFacts
  <1>3. /\ r.tick \in Memes /\ r.amt \in Nat /\ Nobody \notin Addresses
        /\ (r.from # Nobody => r.from \in Addresses)
        /\ (r.to # Nobody => r.to \in Addresses)
        /\ (r.from = Nobody \/ r.to = Nobody => r.tick = LP)
        /\ (r.from # Nobody \/ r.to # Nobody)
        /\ LP \in Memes
    BY V2Names DEF MemeReverts, Meant
  <1> HIDE DEF n
  <1>4. CASE r.from = Nobody
    <2>1. /\ r.tick = LP /\ T # LP /\ r.to \in Addresses /\ r.to # Nobody
      BY <1>3, <1>4
    <2>2. x = m.max /\ y = u.max /\ n.bal[LP] = m.bal[LP] /\ CanBurnLP(m, r.to, r.amt)
          /\ m.max # NoRow
      BY <1>2, <1>3, <1>4, <2>1 DEF UndoOk
    <2>3. UndoOk(n, r)
      BY <1>2, <1>3, <1>4, <2>1, <2>2 DEF UndoOk, CanBurnLP, CanBurn
    <2>4. u = [m EXCEPT !.bal = Burn(m.bal, LP, r.to, r.amt), !.max = @ - r.amt]
      BY <1>4, <2>1 DEF Undo
    <2>5. u.bal = Burn(m.bal, LP, r.to, r.amt) /\ u.max = m.max - r.amt
      BY ONLY <1>1, <2>4
    <2>6. Undo(n, r) = [n EXCEPT !.bal = Burn(n.bal, LP, r.to, r.amt), !.max = @ - r.amt]
      BY <1>4, <2>1 DEF Undo
    <2>7. Undo(n, r) = [bal |-> Burn(n.bal, LP, r.to, r.amt), max |-> n.max - r.amt]
      BY ONLY <1>2, <2>6
    <2>8. Burn(n.bal, LP, r.to, r.amt) = Put(Burn(m.bal, LP, r.to, r.amt), T, f)
      BY <1>1, <1>2, <1>3, <2>1, OverBurn
    <2>9. QED
      BY <1>2, <2>2, <2>3, <2>5, <2>7, <2>8 DEF Over, n
  <1>5. CASE r.from # Nobody /\ r.to = Nobody
    <2>1. /\ r.tick = LP /\ T # LP /\ r.from \in Addresses
      BY <1>3, <1>5
    <2>2. x = m.max /\ y = u.max /\ m.max # NoRow
      BY <2>1 DEF UndoOk
    <2>3. UndoOk(n, r)
      BY <1>2, <1>5, <2>1, <2>2 DEF UndoOk
    <2>4. u = [m EXCEPT !.bal = Mint(m.bal, LP, r.from, r.amt), !.max = @ + r.amt]
      BY <1>5 DEF Undo
    <2>5. u.bal = Mint(m.bal, LP, r.from, r.amt) /\ u.max = m.max + r.amt
      BY ONLY <1>1, <2>4
    <2>6. Undo(n, r) = [n EXCEPT !.bal = Mint(n.bal, LP, r.from, r.amt), !.max = @ + r.amt]
      BY <1>5 DEF Undo
    <2>7. Undo(n, r) = [bal |-> Mint(n.bal, LP, r.from, r.amt), max |-> n.max + r.amt]
      BY ONLY <1>2, <2>6
    <2>8. Mint(n.bal, LP, r.from, r.amt) = Put(Mint(m.bal, LP, r.from, r.amt), T, f)
      BY <1>1, <1>2, <1>3, <2>1, OverBurn
    <2>9. QED
      BY <1>2, <2>2, <2>3, <2>5, <2>7, <2>8 DEF Over, n
  <1>6. CASE r.from # Nobody /\ r.to # Nobody
    <2>1. r.from \in Addresses /\ r.to \in Addresses /\ n.bal[r.tick] = m.bal[r.tick]
      BY <1>2, <1>3, <1>6
    <2>2. CanMove(m.bal, r.tick, r.to, r.from, r.amt)
          /\ u = [m EXCEPT !.bal = Move(m.bal, r.tick, r.to, r.from, r.amt)]
      BY <1>6 DEF UndoOk, Undo
    <2>3. u.bal = Move(m.bal, r.tick, r.to, r.from, r.amt) /\ u.max = m.max
      BY ONLY <1>1, <2>2
    <2>4. x = y
      BY <2>3
    <2>5. UndoOk(n, r)
      BY <1>2, <1>6, <2>1, <2>2 DEF UndoOk, CanMove
    <2>6. Undo(n, r) = [n EXCEPT !.bal = Move(n.bal, r.tick, r.to, r.from, r.amt)]
      BY <1>6 DEF Undo
    <2>7. Undo(n, r) = [bal |-> Move(n.bal, r.tick, r.to, r.from, r.amt), max |-> n.max]
      BY ONLY <1>2, <2>6
    <2>8. Move(n.bal, r.tick, r.to, r.from, r.amt)
             = Put(Move(m.bal, r.tick, r.to, r.from, r.amt), T, f)
      BY <1>1, <1>2, <1>3, <2>1, OverMove
    <2>9. QED
      BY <1>2, <2>3, <2>4, <2>5, <2>7, <2>8 DEF Over, n
  <1>7. QED
    BY <1>4, <1>5, <1>6

\* The whole trace with token T put into it leads back from what has T put in.
LEMMA OverLeads ==
    ASSUME NEW s \in Tables, NEW tr, Leads(tr, s), NEW T \in Memes,
           \A k \in 1..Len(s.journal) : Meant(s.journal[k]) /\ s.journal[k].tick # T,
           NEW f \in [Addresses -> Nat], NEW s2 \in Tables, s2.journal = s.journal,
           MemesOf(s2) = Over(MemesOf(s), T, f, s2.max),
           T # LP => s2.max = s.max
    PROVE  \E t2 : /\ Leads(t2, s2)
                   /\ \A k \in 0..Len(s.journal) :
                        t2[k] = Over(tr[k], T, f, IF T = LP THEN s2.max ELSE tr[k].max)
  <1> DEFINE n == Len(s.journal)
             x(k) == IF T = LP THEN s2.max ELSE tr[k].max
             t2 == [k \in 0..n |-> Over(tr[k], T, f, x(k))]
  <1>1. /\ n \in Nat /\ s2.max \in Nat \cup {NoRow}
        /\ \A k \in 1..n : s.journal[k] \in MemeReverts
    BY TablesFacts
  <1>2. /\ tr \in [0..n -> MemeBooks] /\ tr[n] = MemesOf(s)
        /\ \A k \in 1..n : UndoOk(tr[k], s.journal[k]) /\ Undo(tr[k], s.journal[k]) = tr[k - 1]
    BY DEF Leads
  <1>3. \A k \in 0..n : t2[k] = Over(tr[k], T, f, x(k)) /\ x(k) \in Nat \cup {NoRow}
                        /\ tr[k] \in MemeBooks
    BY <1>1, <1>2 DEF MemeBooks
  <1>4. \A k \in 0..n : Over(tr[k], T, f, x(k)) \in MemeBooks
    <2> HIDE DEF x
    <2>1. QED
      BY <1>3, OverFacts
  <1>5. t2 \in [0..n -> MemeBooks]
    BY <1>3, <1>4
  <1>6. t2[n] = MemesOf(s2)
    <2>1. n \in 0..n
      BY <1>1
    <2>2. MemesOf(s).max = s.max
      BY DEF MemesOf
    <2>3. x(n) = s2.max
      BY <1>2, <2>2
    <2>4. QED
      BY <1>2, <1>3, <2>1, <2>3
  <1>7. ASSUME NEW k \in 1..n
        PROVE  UndoOk(t2[k], s2.journal[k]) /\ Undo(t2[k], s2.journal[k]) = t2[k - 1]
    <2> DEFINE r == s.journal[k]
               xk == x(k)
               xj == x(k - 1)
    <2>1. k \in 0..n /\ k - 1 \in 0..n
      BY <1>1
    <2>2. /\ UndoOk(tr[k], r) /\ Undo(tr[k], r) = tr[k - 1] /\ Meant(r) /\ r.tick # T
          /\ r \in MemeReverts /\ tr[k] \in MemeBooks /\ tr[k - 1] \in MemeBooks
      BY <1>1, <1>2, <2>1
    <2>3. t2[k] = Over(tr[k], T, f, xk) /\ t2[k - 1] = Over(tr[k - 1], T, f, xj)
          /\ xk \in Nat \cup {NoRow}
      BY <1>3, <2>1
    <2>4. (T = LP => xk = xj) /\ (T # LP => xk = tr[k].max /\ xj = tr[k - 1].max)
      OBVIOUS
    <2> DEFINE m == tr[k]
               u == tr[k - 1]
    <2>5. /\ m \in MemeBooks /\ u \in MemeBooks /\ r \in MemeReverts /\ Meant(r)
          /\ UndoOk(m, r) /\ Undo(m, r) = u /\ r.tick # T
          /\ xk \in Nat \cup {NoRow}
          /\ (T = LP => xk = xj) /\ (T # LP => xk = m.max /\ xj = u.max)
      BY <2>2, <2>3, <2>4
    <2> HIDE DEF xk, xj, r, t2, m, u
    <2>6. UndoOk(Over(m, T, f, xk), r) /\ Undo(Over(m, T, f, xk), r) = Over(u, T, f, xj)
      BY ONLY T \in Memes, f \in [Addresses -> Nat], <2>5, OverStep
    <2>7. QED
      BY <2>3, <2>6 DEF r, m, u
  <1>8. Leads(t2, s2)
    <2> HIDE DEF t2
    <2>1. QED
      BY <1>5, <1>6, <1>7 DEF Leads
  <1>9. QED
    BY <1>3, <1>8

LEMMA WholeFacts == Whole \in [Addresses -> Nat] /\ SumFunction(Whole) = NewMax
  <1> DEFINE f == [a \in Addresses |-> 0]
             g == More(f, Deployer, NewMax)
  <1>1. f \in [Addresses -> Nat] /\ Deployer \in Addresses /\ NewMax \in Nat
    BY V2Names
  <1>2. SumFunction(f) = 0
    BY V2Names, SumZero
  <1>3. SumFunction(g) = SumFunction(f) + NewMax /\ g \in [Addresses -> Nat]
    <2> HIDE DEF f
    <2>1. QED
      BY <1>1, MoreFacts
  <1>4. g = Whole
    BY <1>1 DEF More, Whole
  <1>5. QED
    BY <1>1, <1>2, <1>3, <1>4

\* A deploy.
Deployed(s) ==
    [s EXCEPT !.mined = current, !.rows = @ + 1,
              !.bal[DEPLOYED][Deployer] = IF s.rows = 0 THEN NewMax ELSE @]

LEMMA DeployedFacts ==
    ASSUME current \in Nat, NEW s, Booked(s, current)
    PROVE  LET p == Deployed(s) IN
           /\ p \in Tables /\ p.mined = current /\ p.rows = s.rows + 1
           /\ p.max = s.max /\ p.journal = s.journal /\ p.creates = s.creates
           /\ p.swapped = s.swapped /\ p.pool = s.pool
           /\ p.bal[DEPLOYED] = IF s.rows = 0 THEN Whole ELSE s.bal[DEPLOYED]
           /\ \A k \in Ticks \ {DEPLOYED} : p.bal[k] = s.bal[k]
           /\ s.rows \in Nat
  <1> DEFINE p == Deployed(s)
             f == s.bal[DEPLOYED]
             g == [f EXCEPT ![Deployer] = IF s.rows = 0 THEN NewMax ELSE @]
  <1>1. /\ s \in Tables /\ s.bal \in [Ticks -> [Addresses -> Nat]] /\ s.rows \in Nat
    BY TablesFacts DEF Booked
  <1>2. DEPLOYED \in Ticks /\ Deployer \in Addresses /\ NewMax \in Nat
    BY V2Names
  <1>3. f \in [Addresses -> Nat]
    BY <1>1, <1>2
  <1>4. p = [s EXCEPT !.mined = current, !.rows = @ + 1, !.bal = [s.bal EXCEPT ![DEPLOYED] = g]]
    BY <1>1 DEF Deployed, Tables
  <1> HIDE DEF p
  <1>5. g \in [Addresses -> Nat]
    BY <1>2, <1>3
  <1>6. g = IF s.rows = 0 THEN Whole ELSE f
    <2>1. CASE s.rows = 0
      <3>1. SumFunction(f) = 0
        BY <2>1 DEF Booked
      <3>2. \A a \in Addresses : f[a] = 0
        BY <1>3, <3>1, NothingHeld
      <3>3. g = Whole
        BY <1>3, <2>1, <3>2 DEF Whole
      <3>4. QED
        BY <2>1, <3>3
    <2>2. CASE s.rows # 0
      BY <1>3, <2>2
    <2>3. QED
      BY <2>1, <2>2
  <1> DEFINE c == [s.bal EXCEPT ![DEPLOYED] = g]
  <1>7. /\ c \in [Ticks -> [Addresses -> Nat]] /\ c[DEPLOYED] = g
        /\ \A k \in Ticks \ {DEPLOYED} : c[k] = s.bal[k]
    <2> HIDE DEF g
    <2>1. QED
      BY <1>1, <1>2, <1>5
  <1> HIDE DEF c, g, f
  <1>8. /\ p \in Tables /\ p.bal = c /\ p.mined = current /\ p.rows = s.rows + 1
        /\ p.max = s.max /\ p.journal = s.journal /\ p.creates = s.creates
        /\ p.swapped = s.swapped /\ p.pool = s.pool
    <2>1. p = [s EXCEPT !.mined = current, !.rows = @ + 1, !.bal = c]
      BY <1>4 DEF c
    <2>2. /\ p.bal = c /\ p.mined = current /\ p.rows = s.rows + 1
          /\ p.max = s.max /\ p.journal = s.journal /\ p.creates = s.creates
          /\ p.swapped = s.swapped /\ p.pool = s.pool
          /\ p = [bal |-> c, max |-> s.max, pool |-> s.pool, rows |-> s.rows + 1,
                  mined |-> current, creates |-> s.creates, journal |-> s.journal,
                  swapped |-> s.swapped]
      BY <1>1, <2>1 DEF Tables
    <2>3. s.rows + 1 \in Nat /\ current \in Nat \cup {NoRow}
      BY <1>1
    <2>4. p \in Tables
      BY <1>1, <1>7, <2>2, <2>3, TablesFacts DEF Tables, Purses
    <2>5. QED
      BY <2>2, <2>4
  <1>9. QED
    BY <1>1, <1>6, <1>7, <1>8 DEF p, f

LEMMA DeploySound ==
    ASSUME current \in Nat, Finished(dbAt, current), NEW s, Sound(s), s.mined = NoRow
    PROVE  Sound(Deployed(s)) /\ Deployed(s).pool = s.pool
  <1> DEFINE p == Deployed(s)
             n == Len(s.journal)
  <1>1. Booked(s, current) /\ Core(s, dbAt, current) /\ s \in Tables /\ RowTrue(s)
    BY DEF Sound, Core, Booked
  <1>2. /\ p \in Tables /\ p.mined = current /\ p.rows = s.rows + 1
        /\ p.max = s.max /\ p.journal = s.journal /\ p.creates = s.creates
        /\ p.swapped = s.swapped /\ p.pool = s.pool
        /\ p.bal[DEPLOYED] = IF s.rows = 0 THEN Whole ELSE s.bal[DEPLOYED]
        /\ \A k \in Ticks \ {DEPLOYED} : p.bal[k] = s.bal[k]
        /\ s.rows \in Nat
    BY <1>1, DeployedFacts
  <1> HIDE DEF p
  <1>3. n \in Nat /\ DOMAIN s.journal = 1..n
    BY <1>1, TablesFacts
  <1>4. /\ LP \in Ticks \ {DEPLOYED} /\ MEME \in Ticks \ {DEPLOYED} /\ DEPLOYED \in Memes
        /\ Pair \subseteq Ticks \ {DEPLOYED}
        /\ \A k \in Memes \ {DEPLOYED} : k \in Ticks \ {DEPLOYED}
        /\ LP # DEPLOYED /\ LP \in Memes /\ MEME \in Memes /\ MEME # DEPLOYED
        /\ NoRow \notin Nat /\ NewMax \in Nat
    BY V2Names
  <1>5. p.rows \in Nat /\ p.rows # 0 /\ p.rows > 0
    BY <1>2
  <1>6. Booked(p, current)
    <2>1. SumFunction(p.bal[DEPLOYED]) = NewMax
      BY <1>1, <1>2, WholeFacts DEF Booked
    <2>2. p.bal[LP] = s.bal[LP]
      BY <1>2, <1>4
    <2>3. QED
      BY <1>1, <1>2, <1>5, <2>1, <2>2 DEF Booked, Mentions
  <1>7. ASSUME NEW h \in 0..(current - 1) PROVE Past(dbAt[h], p, h)
    <2>1. Past(dbAt[h], s, h)
      BY <1>1 DEF Core
    <2>2. dbAt[h].mined = NoRow /\ current > h
      BY <2>1 DEF Past
    <2>3. dbAt[h].rows <= p.rows
      <3>1. dbAt[h].rows \in Nat /\ dbAt[h].rows <= s.rows
        BY <2>1, TablesFacts DEF Past, Finished
      <3>2. QED
        BY <1>2, <3>1
    <2>4. QED
      BY <1>2, <2>1, <2>2, <2>3 DEF Past
  <1>8. PICK tr : Leads(tr, s) /\ \A h \in 0..(current - 1) : Passes(tr, dbAt[h], s)
    BY <1>1 DEF Core, Explained
  <1>9. ASSUME NEW h \in 0..(current - 1)
        PROVE  Len(dbAt[h].journal) \in 0..n /\ dbAt[h].rows \in Nat /\ dbAt[h].rows <= s.rows
    <2>1. Past(dbAt[h], s, h) /\ dbAt[h] \in Tables
      BY <1>1 DEF Core, Finished
    <2>2. Len(dbAt[h].journal) \in Nat /\ Len(dbAt[h].journal) <= n /\ dbAt[h].rows \in Nat
          /\ dbAt[h].rows <= s.rows
      BY <2>1, TablesFacts DEF Past
    <2>3. QED
      BY <1>3, <2>2
  <1>10. Explained(p, dbAt, current)
    <2>1. CASE s.rows # 0
      <3>1. \A k \in Memes : p.bal[k] = s.bal[k]
        BY <1>2, <1>4, <2>1
      <3>2. MemesOf(p) = MemesOf(s)
        BY <1>2, <3>1 DEF MemesOf
      <3>3. Leads(tr, p)
        BY <1>2, <1>8, <3>2 DEF Leads
      <3>4. s.rows > 0
        BY <1>2, <2>1
      <3>5. \A h \in 0..(current - 1) : Passes(tr, dbAt[h], p)
        BY <1>2, <1>5, <1>8, <3>4 DEF Passes
      <3>6. QED
        BY <3>3, <3>5 DEF Explained
    <2>2. CASE s.rows = 0
      <3>1. \A k \in 1..n : Meant(s.journal[k]) /\ s.journal[k].tick # DEPLOYED
        BY <1>1, <1>3, <2>2 DEF Booked, Mentions
      <3>2. MemesOf(p) = Over(MemesOf(s), DEPLOYED, Whole, p.max)
        <4> DEFINE pb == [t \in Memes |-> p.bal[t]]
                   sb == [t \in Memes |-> s.bal[t]]
        <4>1. pb = Put(sb, DEPLOYED, Whole)
          BY <1>2, <1>4, <2>2 DEF Put
        <4>2. QED
          BY <4>1 DEF MemesOf, Over
      <3>3. Whole \in [Addresses -> Nat]
        BY WholeFacts
      <3>4. PICK t2 : /\ Leads(t2, p)
                      /\ \A k \in 0..n :
                           t2[k] = Over(tr[k], DEPLOYED, Whole,
                                        IF DEPLOYED = LP THEN p.max ELSE tr[k].max)
        BY <1>1, <1>2, <1>4, <1>8, <3>1, <3>2, <3>3, OverLeads
      <3>5. \A k \in 0..n : t2[k] = Over(tr[k], DEPLOYED, Whole, tr[k].max)
        BY <1>4, <3>4
      <3>6. ASSUME NEW h \in 0..(current - 1) PROVE Passes(t2, dbAt[h], p)
        <4> DEFINE i == Len(dbAt[h].journal)
        <4>1. i \in 0..n /\ dbAt[h].rows = 0
          BY <1>9, <2>2
        <4>2. Passes(tr, dbAt[h], s)
          BY <1>8
        <4>3. tr[i] \in MemeBooks
          BY <1>8, <4>1 DEF Leads
        <4> HIDE DEF i
        <4>4. tr[i].max \in Nat \cup {NoRow}
          BY <4>3 DEF MemeBooks
        <4>5. /\ t2[i].max = tr[i].max /\ t2[i].bal[DEPLOYED] = Whole
              /\ \A k \in Memes \ {DEPLOYED} : t2[i].bal[k] = tr[i].bal[k]
          <5> DEFINE m == tr[i]
                     x == m.max
          <5>1. t2[i] = Over(m, DEPLOYED, Whole, x)
            BY <3>5, <4>1
          <5>2. m \in MemeBooks /\ x \in Nat \cup {NoRow} /\ DEPLOYED \in Memes
            BY <1>4, <4>3, <4>4
          <5> HIDE DEF m, x
          <5>3. QED
            BY <3>3, <5>1, <5>2, OverFacts DEF m, x
        <4>6. QED
          <5>1. /\ tr[i].bal[MEME] = dbAt[h].bal[MEME] /\ tr[i].bal[LP] = dbAt[h].bal[LP]
                /\ tr[i].max = IF dbAt[h].max = NoRow /\ s.max # NoRow THEN 0 ELSE dbAt[h].max
            BY <4>2 DEF Passes, i
          <5>2. /\ t2[i].bal[MEME] = dbAt[h].bal[MEME] /\ t2[i].bal[LP] = dbAt[h].bal[LP]
                /\ t2[i].max = IF dbAt[h].max = NoRow /\ p.max # NoRow THEN 0 ELSE dbAt[h].max
            <6>1. MEME \in Memes \ {DEPLOYED} /\ LP \in Memes \ {DEPLOYED}
              BY <1>4
            <6>2. t2[i].bal[MEME] = tr[i].bal[MEME] /\ t2[i].bal[LP] = tr[i].bal[LP]
              BY ONLY <4>5, <6>1
            <6>3. p.max = s.max /\ t2[i].max = tr[i].max
              BY <1>2, <4>5
            <6>4. QED
              BY ONLY <5>1, <6>2, <6>3
          <5>3. QED
            BY <1>5, <4>1, <4>5, <5>2 DEF Passes, i
      <3>7. QED
        BY <3>4, <3>6 DEF Explained
    <2>3. QED
      BY <2>1, <2>2
  <1>11. RowTrue(p)
    <2>1. \A t \in Pair : p.bal[t] = s.bal[t]
      BY <1>2, <1>4
    <2>2. QED
      BY <1>1, <1>2, <2>1 DEF RowTrue
  <1>12. QED
    BY <1>2, <1>6, <1>7, <1>10, <1>11 DEF Sound, Core, p

-----------------------------------------------------------------------------
(* A block ends *)

LEMMA FinishCore ==
    ASSUME current \in Nat, Finished(dbAt, current), NEW s, Sound(s)
    PROVE  LET past == [h \in 0..current |-> IF h = current THEN s ELSE dbAt[h]] IN
           Finished(past, current + 1) /\ Core(s, past, current + 1)
  <1> DEFINE past == [h \in 0..current |-> IF h = current THEN s ELSE dbAt[h]]
             n == Len(s.journal)
  <1>1. Booked(s, current) /\ Core(s, dbAt, current) /\ s \in Tables /\ RowTrue(s)
    BY DEF Sound, Core, Booked
  <1>2. /\ n \in Nat /\ DOMAIN s.journal = 1..n /\ s.creates \in SUBSET Nat
        /\ \A k \in 1..n : s.journal[k].at <= current /\ s.journal[k].at \in Nat
    <2>1. /\ n \in Nat /\ DOMAIN s.journal = 1..n /\ s.creates \in SUBSET Nat
          /\ \A k \in 1..n : s.journal[k] \in MemeReverts
      BY <1>1, TablesFacts
    <2>2. \A k \in 1..n : s.journal[k].at <= current
      BY <1>1, <2>1 DEF Booked
    <2>3. QED
      BY <2>1, <2>2 DEF MemeReverts
  <1>3. /\ past[current] = s /\ \A h \in 0..(current - 1) : past[h] = dbAt[h]
        /\ 0..((current + 1) - 1) = 0..current
        /\ \A h \in 0..current : h = current \/ h \in 0..(current - 1)
    OBVIOUS
  <1>4. past \in [0..current -> Tables]
    BY <1>1 DEF Finished
  <1> HIDE DEF past, n
  <1>5. Finished(past, current + 1)
    <2>1. ASSUME NEW h \in 0..current PROVE Booked(past[h], h) /\ RowTrue(past[h])
      <3>1. CASE h = current
        BY <1>1, <1>3, <3>1
      <3>2. CASE h # current
        BY <1>3, <3>2 DEF Finished
      <3>3. QED
        BY <3>1, <3>2
    <2>2. QED
      BY <1>3, <1>4, <2>1 DEF Finished
  <1>6. s.creates = {} \/ \E c \in 0..current : s.creates = {c}
    BY <1>1 DEF Booked
  <1>7. Booked(s, current + 1)
    <2>1. \A k \in DOMAIN s.journal : Meant(s.journal[k]) /\ s.journal[k].at <= current + 1
      BY <1>1, <1>2 DEF Booked
    <2>2. s.mined # NoRow => s.mined <= current + 1
      <3>1. s.mined # NoRow => s.mined \in Nat
        BY <1>1, TablesFacts
      <3>2. QED
        BY <1>1, <3>1 DEF Booked
    <2>3. \A e \in s.swapped : e[2] <= current + 1
      <3>1. \A e \in s.swapped : e[2] \in Nat
        BY <1>1, TablesFacts
      <3>2. QED
        BY <1>1, <3>1 DEF Booked
    <2>4. 0..current \subseteq 0..(current + 1)
      OBVIOUS
    <2>5. QED
      BY <1>1, <2>1, <2>2, <2>3, <2>4 DEF Booked
  <1>8. ASSUME NEW h \in 0..current PROVE Past(past[h], s, h)
    <2>1. CASE h = current
      <3>1. \A e \in s.swapped : e[2] <= current
        BY <1>1 DEF Booked
      <3>2. s.swapped = {e \in s.swapped : e[2] <= current}
        BY <3>1
      <3>3. \A c \in s.creates : c <= current
        BY <1>6
      <3>4. s.creates = {c \in s.creates : c <= current}
        BY <3>3
      <3>5. s.mined = IF s.mined # NoRow /\ s.mined > current THEN NoRow ELSE s.mined
        <4>1. s.mined # NoRow => s.mined \in Nat /\ s.mined <= current
          BY <1>1, TablesFacts DEF Booked
        <4>2. QED
          BY <4>1
      <3>6. s.rows <= s.rows
        BY <1>1, TablesFacts
      <3>7. Past(s, s, current)
        BY <1>2, <3>2, <3>4, <3>5, <3>6 DEF Past, n
      <3>8. QED
        BY <1>3, <2>1, <3>7
    <2>2. CASE h # current
      BY <1>1, <1>3, <2>2 DEF Core
    <2>3. QED
      BY <2>1, <2>2
  <1>9. PICK tr : Leads(tr, s) /\ \A h \in 0..(current - 1) : Passes(tr, dbAt[h], s)
    BY <1>1 DEF Core, Explained
  <1>10. Passes(tr, s, s)
    <2>1. tr[Len(s.journal)] = MemesOf(s)
      BY <1>9 DEF Leads
    <2>2. MEME \in Memes /\ LP \in Memes /\ DEPLOYED \in Memes
      BY V2Names
    <2>3. /\ MemesOf(s).bal[MEME] = s.bal[MEME] /\ MemesOf(s).bal[LP] = s.bal[LP]
          /\ MemesOf(s).bal[DEPLOYED] = s.bal[DEPLOYED] /\ MemesOf(s).max = s.max
      BY <2>2 DEF MemesOf
    <2>4. ~(s.rows = 0 /\ s.rows > 0)
      OBVIOUS
    <2>5. QED
      BY <2>1, <2>3, <2>4 DEF Passes
  <1>11. \A h \in 0..current : Passes(tr, past[h], s)
    BY <1>3, <1>9, <1>10
  <1>12. Core(s, past, current + 1)
    BY <1>3, <1>7, <1>8, <1>9, <1>11 DEF Core, Explained
  <1>13. QED
    BY <1>5, <1>12 DEF past

-----------------------------------------------------------------------------
(* A fork *)

\* The tables s with the memes m.
With(s, m) ==
    [s EXCEPT !.bal = [t \in Ticks |-> IF t \in Memes THEN m.bal[t] ELSE s.bal[t]],
              !.max = m.max]

LEMMA WithFacts ==
    ASSUME NEW s \in Tables, NEW m \in MemeBooks
    PROVE  LET w == With(s, m) IN
           /\ w \in Tables /\ w # Stuck /\ w.max = m.max
           /\ \A t \in Memes : w.bal[t] = m.bal[t]
           /\ w.bal[WDOGE] = s.bal[WDOGE]
           /\ w.pool = s.pool /\ w.rows = s.rows /\ w.mined = s.mined
           /\ w.creates = s.creates /\ w.journal = s.journal /\ w.swapped = s.swapped
           /\ w.bal = [t \in Ticks |-> IF t \in Memes THEN m.bal[t] ELSE s.bal[t]]
  <1> DEFINE c == [t \in Ticks |-> IF t \in Memes THEN m.bal[t] ELSE s.bal[t]]
             w == With(s, m)
  <1>1. /\ m.bal \in [Memes -> [Addresses -> Nat]] /\ m.max \in Nat \cup {NoRow}
        /\ s.bal \in [Ticks -> [Addresses -> Nat]]
    BY TablesFacts DEF MemeBooks
  <1>2. c \in [Ticks -> [Addresses -> Nat]]
    BY <1>1
  <1>3. (\A t \in Memes : c[t] = m.bal[t]) /\ c[WDOGE] = s.bal[WDOGE]
    BY V2Names
  <1>4. w = [s EXCEPT !.bal = c, !.max = m.max]
    BY DEF With
  <1> HIDE DEF c, w
  <1>5. /\ w.max = m.max /\ w.bal = c /\ w.pool = s.pool /\ w.rows = s.rows
        /\ w.mined = s.mined /\ w.creates = s.creates /\ w.journal = s.journal
        /\ w.swapped = s.swapped
        /\ w \in Tables
    BY <1>1, <1>2, <1>4 DEF Tables, Purses
  <1>6. w # Stuck
    BY <1>5, V2Names
  <1>7. QED
    BY <1>3, <1>5, <1>6 DEF w, c

\* The undo of a row changes nothing but the memes.
LEMMA UndoWith ==
    ASSUME NEW s \in Tables, NEW m \in MemeBooks, NEW u \in MemeBooks,
           NEW r \in MemeReverts, Meant(r), UndoOk(m, r), Undo(m, r) = u
    PROVE  UndoOk(With(s, m), r) /\ Undo(With(s, m), r) = With(s, u)
  <1> DEFINE w == With(s, m)
             over(b) == [t \in Ticks |-> IF t \in Memes THEN b[t] ELSE s.bal[t]]
  <1>1. /\ w.max = m.max /\ w.bal = over(m.bal) /\ w \in Tables
        /\ \A t \in Memes : w.bal[t] = m.bal[t]
    BY WithFacts
  <1>2. /\ m.bal \in [Memes -> [Addresses -> Nat]] /\ m = [bal |-> m.bal, max |-> m.max]
        /\ u = [bal |-> u.bal, max |-> u.max]
    BY DEF MemeBooks
  <1>3. /\ r.tick \in Memes /\ r.amt \in Nat
        /\ (r.from = Nobody \/ r.to = Nobody => r.tick = LP)
        /\ (r.from # Nobody \/ r.to # Nobody)
        /\ LP \in Memes /\ Memes \subseteq Ticks
    BY V2Names DEF MemeReverts, Meant
  <1>4. \A b, x : [[w EXCEPT !.bal = over(b)] EXCEPT !.max = x]
                     = [[s EXCEPT !.bal = over(b)] EXCEPT !.max = x]
    <2>1. w = [s EXCEPT !.bal = over(m.bal), !.max = m.max]
      BY DEF With
    <2> HIDE DEF w, over
    <2>2. QED
      BY <1>1, <2>1 DEF Tables
  <1>5. ASSUME NEW k \in Memes, NEW g
        PROVE  Put(w.bal, k, g) = over(Put(m.bal, k, g))
    <2>1. w.bal = over(m.bal)
      BY <1>1
    <2> HIDE DEF w
    <2>2. QED
      BY <1>2, <1>3, <2>1 DEF Put
  <1>6. /\ \A a, x : Burn(m.bal, LP, a, x) = Put(m.bal, LP, Less(m.bal[LP], a, x))
        /\ \A a, x : Burn(w.bal, LP, a, x) = Put(w.bal, LP, Less(w.bal[LP], a, x))
        /\ \A a, x : Mint(m.bal, LP, a, x) = Put(m.bal, LP, More(m.bal[LP], a, x))
        /\ \A a, x : Mint(w.bal, LP, a, x) = Put(w.bal, LP, More(w.bal[LP], a, x))
    BY DEF Burn, Less, Mint, More, Put
  <1>7. /\ Move(m.bal, r.tick, r.to, r.from, r.amt)
             = Put(m.bal, r.tick, Passed(m.bal[r.tick], r.to, r.from, r.amt))
        /\ Move(w.bal, r.tick, r.to, r.from, r.amt)
             = Put(w.bal, r.tick, Passed(w.bal[r.tick], r.to, r.from, r.amt))
    BY DEF Move, Passed, Put
  <1>8. With(s, u) = [[s EXCEPT !.bal = over(u.bal)] EXCEPT !.max = u.max]
    <2>1. With(s, u) = [s EXCEPT !.bal = over(u.bal), !.max = u.max]
      BY DEF With
    <2> HIDE DEF over
    <2>2. QED
      BY <2>1 DEF Tables
  <1> HIDE DEF w, over
  <1>9. CASE r.from = Nobody
    <2>1. r.tick = LP /\ r.to # Nobody /\ CanBurnLP(m, r.to, r.amt) /\ m.max # NoRow
      BY <1>3, <1>9 DEF UndoOk
    <2>2. UndoOk(w, r)
      BY <1>1, <1>3, <1>9, <2>1 DEF UndoOk, CanBurnLP, CanBurn
    <2>3. u = [m EXCEPT !.bal = Burn(m.bal, LP, r.to, r.amt), !.max = @ - r.amt]
      BY <1>9, <2>1 DEF Undo
    <2>4. u.bal = Burn(m.bal, LP, r.to, r.amt) /\ u.max = m.max - r.amt
      BY ONLY <1>2, <2>3
    <2>5. Undo(w, r) = [w EXCEPT !.bal = Burn(w.bal, LP, r.to, r.amt), !.max = @ - r.amt]
      BY <1>9, <2>1 DEF Undo
    <2>6. Burn(w.bal, LP, r.to, r.amt) = over(u.bal)
      BY <1>1, <1>3, <1>5, <1>6, <2>4
    <2>7. Undo(w, r) = [[w EXCEPT !.bal = over(u.bal)] EXCEPT !.max = u.max]
      BY <1>1, <2>4, <2>5, <2>6 DEF Tables
    <2>8. QED
      BY <1>4, <1>8, <2>2, <2>7 DEF w
  <1>10. CASE r.from # Nobody /\ r.to = Nobody
    <2>1. r.tick = LP /\ m.max # NoRow
      BY <1>3, <1>10 DEF UndoOk
    <2>2. UndoOk(w, r)
      BY <1>1, <1>10, <2>1 DEF UndoOk
    <2>3. u = [m EXCEPT !.bal = Mint(m.bal, LP, r.from, r.amt), !.max = @ + r.amt]
      BY <1>10 DEF Undo
    <2>4. u.bal = Mint(m.bal, LP, r.from, r.amt) /\ u.max = m.max + r.amt
      BY ONLY <1>2, <2>3
    <2>5. Undo(w, r) = [w EXCEPT !.bal = Mint(w.bal, LP, r.from, r.amt), !.max = @ + r.amt]
      BY <1>10 DEF Undo
    <2>6. Mint(w.bal, LP, r.from, r.amt) = over(u.bal)
      BY <1>1, <1>3, <1>5, <1>6, <2>4
    <2>7. Undo(w, r) = [[w EXCEPT !.bal = over(u.bal)] EXCEPT !.max = u.max]
      BY <1>1, <2>4, <2>5, <2>6 DEF Tables
    <2>8. QED
      BY <1>4, <1>8, <2>2, <2>7 DEF w
  <1>11. CASE r.from # Nobody /\ r.to # Nobody
    <2>1. CanMove(m.bal, r.tick, r.to, r.from, r.amt)
          /\ u = [m EXCEPT !.bal = Move(m.bal, r.tick, r.to, r.from, r.amt)]
          /\ (r.tick = LP => m.max # NoRow)
      BY <1>11 DEF UndoOk, Undo
    <2>2. UndoOk(w, r)
      BY <1>1, <1>3, <1>11, <2>1 DEF UndoOk, CanMove
    <2>4. u.bal = Move(m.bal, r.tick, r.to, r.from, r.amt) /\ u.max = m.max
      BY ONLY <1>2, <2>1
    <2>5. Undo(w, r) = [w EXCEPT !.bal = Move(w.bal, r.tick, r.to, r.from, r.amt)]
      BY <1>11 DEF Undo
    <2>6. Move(w.bal, r.tick, r.to, r.from, r.amt) = over(u.bal)
      BY <1>1, <1>3, <1>5, <1>7, <2>4
    <2>7. Undo(w, r) = [[w EXCEPT !.bal = over(u.bal)] EXCEPT !.max = u.max]
      BY <1>1, <2>4, <2>5, <2>6 DEF Tables
    <2>8. QED
      BY <1>4, <1>8, <2>2, <2>7 DEF w
  <1>12. QED
    BY <1>9, <1>10, <1>11

\* The rows above h undone are the memes where the trace is at the cut.
LEMMA UndoneFacts ==
    ASSUME NEW s \in Tables, NEW tr, Leads(tr, s), NEW h \in Nat, NEW cut \in 0..Len(s.journal),
           \A k \in 1..Len(s.journal) : Meant(s.journal[k]),
           \A k \in 1..Len(s.journal) : s.journal[k].at <= h <=> k <= cut
    PROVE  meme20Fork(s, h) = With(s, tr[cut])
  <1> DEFINE n == Len(s.journal)
             go(w, r) == IF r.at <= h THEN w
                         ELSE IF w # Stuck /\ UndoOk(w, r) THEN Undo(w, r)
                         ELSE Stuck
             d == CHOOSE d : d = [k \in 0..n |-> IF k = 0 THEN s ELSE
                                IF s.journal[n + 1 - k].at <= h THEN d[k - 1]
                                ELSE IF d[k - 1] # Stuck /\ UndoOk(d[k - 1], s.journal[n + 1 - k])
                                     THEN Undo(d[k - 1], s.journal[n + 1 - k])
                                ELSE Stuck]
             at(k) == IF n - k > cut THEN n - k ELSE cut
             sol == [k \in 0..n |-> With(s, tr[at(k)])]
  <1>0. \A m \in MemeBooks : With(s, m) \in Tables /\ With(s, m) # Stuck
    BY WithFacts
  <1>1. meme20Fork(s, h) = d[n]
    BY DEF meme20Fork, ByFallingId
  <1>2. /\ n \in Nat /\ cut \in Nat /\ cut <= n
        /\ \A k \in 1..n : s.journal[k] \in MemeReverts
    BY TablesFacts
  <1>3. /\ tr \in [0..n -> MemeBooks] /\ tr[n] = MemesOf(s)
        /\ \A k \in 1..n : UndoOk(tr[k], s.journal[k]) /\ Undo(tr[k], s.journal[k]) = tr[k - 1]
    BY DEF Leads
  <1>4. \A k \in 1..n : Meant(s.journal[k]) /\ (s.journal[k].at <= h <=> k <= cut)
    OBVIOUS
  <1> HIDE DEF d, n
  <1>5. sol[0] = s
    <2>1. at(0) = n
      BY <1>2
    <2>2. sol[0] = With(s, tr[n])
      BY <1>2, <2>1
    <2>3. With(s, MemesOf(s)) = s
      <3> DEFINE c == [t \in Ticks |-> IF t \in Memes THEN MemesOf(s).bal[t] ELSE s.bal[t]]
      <3>1. s.bal \in [Ticks -> [Addresses -> Nat]]
        BY TablesFacts
      <3>2. \A t \in Memes : MemesOf(s).bal[t] = s.bal[t]
        BY DEF MemesOf
      <3>3. c = s.bal
        BY <3>1, <3>2
      <3>4. MemesOf(s).max = s.max
        BY DEF MemesOf
      <3>5. With(s, MemesOf(s)) = [s EXCEPT !.bal = s.bal, !.max = s.max]
        BY <3>3, <3>4 DEF With
      <3>6. QED
        BY <3>5 DEF Tables
    <2>4. QED
      BY <1>3, <2>2, <2>3
  <1>6. ASSUME NEW k \in 1..n
        PROVE  sol[k] = go(sol[k - 1], s.journal[n + 1 - k]) /\ sol[k - 1] # Stuck
    <2> DEFINE i == n + 1 - k
               r == s.journal[i]
    <2>1. i \in 1..n /\ i \in 0..n /\ i - 1 \in 0..n /\ k \in 0..n /\ k - 1 \in 0..n
          /\ n - k = i - 1 /\ n - (k - 1) = i
      BY <1>2
    <2>2. sol[k] = With(s, tr[at(k)]) /\ sol[k - 1] = With(s, tr[at(k - 1)])
      BY <2>1
    <2>3. /\ at(k) = IF i - 1 > cut THEN i - 1 ELSE cut
          /\ at(k - 1) = IF i > cut THEN i ELSE cut
      BY <2>1
    <2>4. /\ tr[i] \in MemeBooks /\ tr[i - 1] \in MemeBooks /\ tr[cut] \in MemeBooks
          /\ r \in MemeReverts /\ Meant(r) /\ (r.at <= h <=> i <= cut)
          /\ UndoOk(tr[i], r) /\ Undo(tr[i], r) = tr[i - 1]
      <3>1. cut \in 0..n
        BY <1>2
      <3> HIDE DEF i
      <3>2. QED
        BY <1>2, <1>3, <1>4, <2>1, <3>1
    <2> HIDE DEF i, r, at, sol
    <2>5. CASE i <= cut
      <3>1. at(k) = cut /\ at(k - 1) = cut
        BY <1>2, <2>1, <2>3, <2>5
      <3>2. go(sol[k - 1], r) = sol[k - 1]
        BY <2>4, <2>5
      <3>3. sol[k - 1] # Stuck
        BY <1>0, <2>2, <2>4, <3>1
      <3>4. QED
        BY <2>2, <3>1, <3>2, <3>3 DEF r, i
    <2>6. CASE ~(i <= cut)
      <3>1. at(k) = i - 1 /\ at(k - 1) = i
        BY <1>2, <2>1, <2>3, <2>6
      <3>2. UndoOk(With(s, tr[i]), r) /\ Undo(With(s, tr[i]), r) = With(s, tr[i - 1])
        BY <2>4, UndoWith
      <3>3. sol[k - 1] # Stuck
        BY <1>0, <2>2, <2>4, <3>1
      <3>4. sol[k - 1] = With(s, tr[i]) /\ sol[k] = With(s, tr[i - 1])
        BY <2>2, <3>1
      <3>5. go(sol[k - 1], r) = sol[k]
        BY <2>4, <2>6, <3>2, <3>3, <3>4
      <3>6. QED
        BY <3>3, <3>5 DEF r, i
    <2>7. QED
      BY <2>5, <2>6
  <1> HIDE DEF at
  <1>7. sol = [k \in 0..n |-> IF k = 0 THEN s ELSE
                   IF s.journal[n + 1 - k].at <= h THEN sol[k - 1]
                   ELSE IF sol[k - 1] # Stuck /\ UndoOk(sol[k - 1], s.journal[n + 1 - k])
                        THEN Undo(sol[k - 1], s.journal[n + 1 - k])
                   ELSE Stuck]
    <2>1. ASSUME NEW k \in 0..n
          PROVE  sol[k] = IF k = 0 THEN s ELSE
                   IF s.journal[n + 1 - k].at <= h THEN sol[k - 1]
                   ELSE IF sol[k - 1] # Stuck /\ UndoOk(sol[k - 1], s.journal[n + 1 - k])
                        THEN Undo(sol[k - 1], s.journal[n + 1 - k])
                   ELSE Stuck
      <3> HIDE DEF sol
      <3>1. CASE k = 0
        BY <1>5, <3>1
      <3>2. CASE k # 0
        <4>1. k \in 1..n
          BY <1>2, <3>2
        <4>2. QED
          BY <1>6, <3>2, <4>1
      <3>3. QED
        BY <3>1, <3>2
    <2>2. \E D : sol = [k \in D |-> sol[k]] /\ D = 0..n
      OBVIOUS
    <2> HIDE DEF sol
    <2>3. QED
      BY <2>1, <2>2
  <1>8. sol[n] = With(s, tr[cut])
    <2>1. at(n) = cut /\ n \in 0..n
      BY <1>2 DEF at
    <2>2. QED
      BY <2>1
  <1> HIDE DEF sol
  <1>9. d = [k \in 0..n |-> IF k = 0 THEN s ELSE
                   IF s.journal[n + 1 - k].at <= h THEN d[k - 1]
                   ELSE IF d[k - 1] # Stuck /\ UndoOk(d[k - 1], s.journal[n + 1 - k])
                        THEN Undo(d[k - 1], s.journal[n + 1 - k])
                   ELSE Stuck]
    BY <1>7 DEF d
  <1>10. d[0] = sol[0]
    BY <1>2, <1>5, <1>9
  <1>11. \A k \in 1..n : d[k] = go(d[k - 1], s.journal[n + 1 - k])
    <2>1. \A k \in 1..n : k \in 0..n /\ k # 0
      BY <1>2
    <2>2. QED
      BY <1>9, <2>1
  <1>12. GoOnAlike(d, sol, n)
    <2> HIDE DEF go
    <2>1. QED
      BY <1>6, <1>11 DEF GoOnAlike
  <1>13. Alike(d, sol, n)
    BY <1>2, <1>10, <1>12, SameRecursion
  <1>14. d[n] = sol[n]
    BY <1>2, <1>13 DEF Alike
  <1>15. QED
    BY <1>1, <1>8, <1>14

LEMMA RowMeansPool ==
    ASSUME NEW b \in Nat, NEW s, Booked(s, b), RowTrue(s)
    PROVE  /\ s.pool = NoPool <=> s.max = NoRow
           /\ s.max = NoRow <=> s.creates = {}
           /\ s.max = NoRow => s.bal[LP] = [a \in Addresses |-> 0] /\ ~Mentions(s, LP)
  <1>1. /\ s \in Tables /\ s.pool \in Rows \cup {NoPool} /\ NoRow \notin Nat
        /\ s.bal[LP] \in [Addresses -> Nat] /\ s.max \in Nat \cup {NoRow}
    <2>1. s \in Tables
      BY DEF Booked
    <2>2. s.bal \in [Ticks -> [Addresses -> Nat]] /\ LP \in Ticks
      BY <2>1, TablesFacts, V2Names
    <2>3. QED
      BY <2>1, <2>2, TablesFacts, V2Names
  <1>2. s.pool # NoPool => s.pool.total \in Nat
    BY <1>1 DEF Rows
  <1>3. s.pool = NoPool <=> s.max = NoRow
    BY <1>1, <1>2 DEF RowTrue
  <1>4. s.max = NoRow <=> s.creates = {}
    BY DEF Booked
  <1>5. s.max = NoRow => SumFunction(s.bal[LP]) = 0 /\ ~Mentions(s, LP)
    BY DEF Booked
  <1>6. s.max = NoRow => s.bal[LP] = [a \in Addresses |-> 0]
    <2> DEFINE f == s.bal[LP]
    <2>1. f \in [Addresses -> Nat] /\ (s.max = NoRow => SumFunction(f) = 0)
      BY <1>1, <1>5
    <2>2. s.max = NoRow => \A a \in Addresses : f[a] = 0
      <3> HIDE DEF f
      <3>1. QED
        BY <2>1, NothingHeld
    <2>3. QED
      BY <2>1, <2>2
  <1>7. QED
    BY <1>3, <1>4, <1>5, <1>6

\* What was before g is still so after a fork to h above g.
LEMMA PastBefore ==
    ASSUME NEW g \in Nat, NEW h \in Nat, g < h, NEW p, NEW was, NEW s, NEW d,
           s \in Tables, d \in Tables, Booked(p, g), Booked(was, h),
           Past(p, s, g), Past(was, s, h),
           d.journal = was.journal, d.swapped = was.swapped, d.creates = was.creates,
           d.mined = was.mined, d.rows = s.rows
    PROVE  Past(p, d, g)
  <1> DEFINE l == Len(p.journal)
             m == Len(was.journal)
             n == Len(s.journal)
  <1>1. /\ p \in Tables /\ was \in Tables /\ l \in Nat /\ m \in Nat /\ n \in Nat
        /\ DOMAIN p.journal = 1..l
        /\ \A k \in 1..l : p.journal[k] \in MemeReverts
        /\ \A k \in 1..n : s.journal[k] \in MemeReverts
    BY TablesFacts DEF Booked
  <1>2. /\ \A k \in 1..n : s.journal[k].at \in Nat
        /\ \A k \in 1..l : p.journal[k].at <= g
    BY <1>1 DEF Booked, MemeReverts
  <1>3. /\ l <= n /\ m <= n /\ \A k \in 1..l : p.journal[k] = s.journal[k]
        /\ \A k \in 1..m : was.journal[k] = s.journal[k]
        /\ \A k \in 1..n : k > l => s.journal[k].at > g
        /\ \A k \in 1..n : k > m => s.journal[k].at > h
    BY DEF Past
  <1> HIDE DEF l, m, n
  <1>4. l <= m
    <2>1. SUFFICES ASSUME ~(l <= m) PROVE FALSE
      OBVIOUS
    <2>2. m + 1 \in 1..l /\ m + 1 \in 1..n /\ m + 1 > m
      BY <1>1, <1>3, <2>1
    <2>3. s.journal[m + 1].at > h /\ s.journal[m + 1].at <= g /\ s.journal[m + 1].at \in Nat
      BY <1>2, <1>3, <2>2
    <2>4. QED
      BY ONLY <2>3, g \in Nat, h \in Nat, g < h
  <1>5. \A k \in 1..l : p.journal[k] = d.journal[k]
    BY <1>1, <1>3, <1>4
  <1>6. \A k \in 1..m : k > l => d.journal[k].at > g
    BY <1>1, <1>3
  <1>7. p.swapped = {e \in d.swapped : e[2] <= g}
    <2>1. p.swapped = {e \in s.swapped : e[2] <= g} /\ d.swapped = {e \in s.swapped : e[2] <= h}
      BY DEF Past
    <2>2. \A e \in s.swapped : e[2] \in Nat
      BY TablesFacts
    <2>3. \A e \in s.swapped : e[2] <= g => e[2] <= h
      BY <2>2
    <2>4. QED
      BY <2>1, <2>3
  <1>8. p.creates = {c \in d.creates : c <= g}
    <2>1. p.creates = {c \in s.creates : c <= g} /\ d.creates = {c \in s.creates : c <= h}
      BY DEF Past
    <2>2. \A c \in s.creates : c <= g => c <= h
      BY TablesFacts
    <2>3. QED
      BY <2>1, <2>2
  <1>9. p.mined = IF d.mined # NoRow /\ d.mined > g THEN NoRow ELSE d.mined
    <2>1. /\ p.mined = IF s.mined # NoRow /\ s.mined > g THEN NoRow ELSE s.mined
          /\ d.mined = IF s.mined # NoRow /\ s.mined > h THEN NoRow ELSE s.mined
      BY DEF Past
    <2>2. s.mined \in Nat \cup {NoRow}
      BY TablesFacts
    <2>3. QED
      BY <2>1, <2>2
  <1>10. p.rows <= d.rows
    BY DEF Past
  <1>11. QED
    BY <1>4, <1>5, <1>6, <1>7, <1>8, <1>9, <1>10 DEF Past, l, m

\* The rows of the journal that a fork to h undoes are those behind its end then.
LEMMA CutFacts ==
    ASSUME NEW h \in Nat, NEW was, Booked(was, h), NEW s \in Tables, Past(was, s, h)
    PROVE  LET m == Len(was.journal) IN
           /\ m \in 0..Len(s.journal)
           /\ \A k \in 1..Len(s.journal) : s.journal[k].at <= h <=> k <= m
           /\ [k \in DOMAIN s.journal \ Later(s.journal, h) |-> s.journal[k]] = was.journal
  <1> DEFINE m == Len(was.journal)
             n == Len(s.journal)
  <1>1. /\ was \in Tables /\ m \in Nat /\ n \in Nat
        /\ DOMAIN was.journal = 1..m /\ DOMAIN s.journal = 1..n
        /\ \A k \in 1..n : s.journal[k] \in MemeReverts
        /\ was.journal \in Seq(MemeReverts)
    BY TablesFacts DEF Booked
  <1>2. /\ \A k \in 1..n : s.journal[k].at \in Nat
        /\ \A k \in 1..m : was.journal[k].at <= h
    BY <1>1 DEF Booked, MemeReverts
  <1>3. /\ m <= n /\ \A k \in 1..m : was.journal[k] = s.journal[k]
        /\ \A k \in 1..n : k > m => s.journal[k].at > h
    BY DEF Past
  <1>4. was.journal = [k \in 1..m |-> was.journal[k]]
    BY <1>1
  <1> HIDE DEF m, n
  <1>5. \A k \in 1..n : s.journal[k].at <= h <=> k <= m
    BY <1>1, <1>2, <1>3
  <1>6. DOMAIN s.journal \ Later(s.journal, h) = 1..m
    BY <1>1, <1>2, <1>3, <1>5 DEF Later
  <1>7. QED
    BY <1>1, <1>3, <1>4, <1>5, <1>6 DEF m, n

\* What forkBack puts in the tables' place.
Restored(h) == DelRevert(SwapV2Fork(meme20Fork(Forking(h), h), h), h)

LEMMA ForkingFacts ==
    ASSUME NEW h \in Nat, db \in Tables, wdogeAt[h] \in [Addresses -> Nat]
    PROVE  LET f == Forking(h) IN
           /\ f \in Tables /\ f.bal[WDOGE] = wdogeAt[h]
           /\ \A t \in Memes : f.bal[t] = db.bal[t]
           /\ f.max = db.max /\ f.pool = db.pool /\ f.rows = db.rows
           /\ f.mined = (IF db.mined # NoRow /\ db.mined > h THEN NoRow ELSE db.mined)
           /\ f.creates = db.creates /\ f.journal = db.journal
           /\ f.swapped = {e \in db.swapped : e[2] <= h}
           /\ MemesOf(f) = MemesOf(db)
  <1> DEFINE f == Forking(h)
             sw == {e \in db.swapped : e[2] <= h}
             mi == IF db.mined # NoRow /\ db.mined > h THEN NoRow ELSE db.mined
             c == [db.bal EXCEPT ![WDOGE] = wdogeAt[h]]
  <1>1. /\ db.bal \in [Ticks -> [Addresses -> Nat]] /\ db.mined \in Nat \cup {NoRow}
        /\ db.swapped \in SUBSET (Traders \X Nat)
    BY TablesFacts
  <1>2. /\ c \in [Ticks -> [Addresses -> Nat]] /\ c[WDOGE] = wdogeAt[h]
        /\ \A t \in Memes : c[t] = db.bal[t]
    BY <1>1, V2Names
  <1>3. sw \in SUBSET (Traders \X Nat) /\ mi \in Nat \cup {NoRow}
    BY <1>1
  <1>4. f = [db EXCEPT !.swapped = sw, !.bal = c, !.mined = mi]
    BY DEF Forking, Tables
  <1> HIDE DEF f, sw, mi, c
  <1>5. /\ f \in Tables /\ f.bal = c /\ f.max = db.max /\ f.pool = db.pool
        /\ f.rows = db.rows /\ f.mined = mi /\ f.creates = db.creates
        /\ f.journal = db.journal /\ f.swapped = sw
    BY <1>2, <1>3, <1>4 DEF Tables, Purses
  <1>6. MemesOf(f) = MemesOf(db)
    BY <1>2, <1>5 DEF MemesOf
  <1>7. QED
    BY <1>2, <1>5, <1>6 DEF f, sw, mi

LEMMA UndoneToCut ==
    ASSUME current \in Nat, Finished(dbAt, current), Sound(db), NEW h \in 0..(current - 1),
           wdogeAt[h] = dbAt[h].bal[WDOGE], NEW tr, Leads(tr, db)
    PROVE  LET m == tr[Len(dbAt[h].journal)] IN
           /\ m \in MemeBooks
           /\ Forking(h) \in Tables
           /\ meme20Fork(Forking(h), h) = With(Forking(h), m)
           /\ meme20Fork(Forking(h), h) # Stuck
  <1> DEFINE was == dbAt[h]
             cut == Len(was.journal)
             m == tr[cut]
             f == Forking(h)
  <1>1. /\ was \in Tables /\ Booked(was, h) /\ db \in Tables /\ h \in Nat
        /\ Booked(db, current) /\ Past(was, db, h)
    BY DEF Finished, Sound, Core, Booked
  <1>2. wdogeAt[h] \in [Addresses -> Nat]
    <2>1. was.bal \in [Ticks -> [Addresses -> Nat]]
      BY <1>1, TablesFacts
    <2>2. QED
      BY <2>1, V2Names
  <1>3. f \in Tables /\ f.journal = db.journal /\ MemesOf(f) = MemesOf(db)
    BY <1>1, <1>2, ForkingFacts
  <1>4. /\ cut \in 0..Len(db.journal)
        /\ \A k \in 1..Len(db.journal) : db.journal[k].at <= h <=> k <= cut
    <2> HIDE DEF was
    <2>1. h \in Nat /\ Booked(was, h) /\ db \in Tables /\ Past(was, db, h)
      BY <1>1
    <2>2. QED
      BY ONLY <2>1, CutFacts
  <1>5. Leads(tr, f)
    BY <1>3 DEF Leads
  <1>6. \A k \in 1..Len(f.journal) : Meant(f.journal[k])
    BY <1>1, <1>3, TablesFacts DEF Booked
  <1>6a. /\ f \in Tables /\ Leads(tr, f) /\ h \in Nat /\ cut \in 0..Len(f.journal)
         /\ \A k \in 1..Len(f.journal) : Meant(f.journal[k])
         /\ \A k \in 1..Len(f.journal) : f.journal[k].at <= h <=> k <= cut
    <2> HIDE DEF f, cut
    <2>1. QED
      BY <1>1, <1>3, <1>4, <1>5, <1>6
  <1> HIDE DEF was, cut, f
  <1>7. meme20Fork(f, h) = With(f, tr[cut])
    BY ONLY <1>6a, UndoneFacts
  <1>8. m \in MemeBooks
    BY <1>3, <1>4, <1>5 DEF Leads
  <1> HIDE DEF m
  <1>9. With(f, m) \in Tables /\ With(f, m) # Stuck
    BY <1>3, <1>8, WithFacts
  <1>10. QED
    BY <1>3, <1>7, <1>8, <1>9 DEF m, cut, was, f

LEMMA DelRevertFacts ==
    ASSUME NEW x \in Tables, NEW h \in Nat, NEW j \in Seq(MemeReverts),
           [k \in DOMAIN x.journal \ Later(x.journal, h) |-> x.journal[k]] = j
    PROVE  LET d == DelRevert(x, h) IN
           /\ d \in Tables /\ d.bal = x.bal /\ d.max = x.max /\ d.pool = x.pool
           /\ d.rows = x.rows /\ d.mined = x.mined /\ d.swapped = x.swapped
           /\ d.journal = j /\ d.creates = {c \in x.creates : c <= h}
  <1> DEFINE d == DelRevert(x, h)
             cr == {c \in x.creates : c <= h}
  <1>1. cr \in SUBSET Nat
    BY TablesFacts
  <1>2. d = [x EXCEPT !.journal = j, !.creates = cr]
    BY DEF DelRevert, Tables
  <1> HIDE DEF d, cr
  <1>3. /\ d \in Tables /\ d.bal = x.bal /\ d.max = x.max /\ d.pool = x.pool
        /\ d.rows = x.rows /\ d.mined = x.mined /\ d.swapped = x.swapped
        /\ d.journal = j /\ d.creates = cr
    BY <1>1, <1>2 DEF Tables
  <1>4. QED
    BY <1>3 DEF d, cr

LEMMA RestoredFacts ==
    ASSUME current \in Nat, Finished(dbAt, current), Sound(db), NEW h \in 0..(current - 1),
           wdogeAt[h] = dbAt[h].bal[WDOGE]
    PROVE  LET d == Restored(h)
               was == dbAt[h] IN
           /\ d \in Tables
           /\ d.bal[WDOGE] = was.bal[WDOGE] /\ d.bal[MEME] = was.bal[MEME]
           /\ d.bal[LP] = was.bal[LP] /\ d.max = was.max
           /\ d.bal[DEPLOYED] = (IF was.rows = 0 /\ db.rows > 0 THEN Whole ELSE was.bal[DEPLOYED])
           /\ d.rows = db.rows /\ d.mined = was.mined /\ d.creates = was.creates
           /\ d.journal = was.journal /\ d.swapped = was.swapped
           /\ d.pool = NoPool <=> was.pool = NoPool
           /\ d.pool # NoPool =>
                 d.pool = [amt |-> [t \in Pair |-> was.bal[t][Pool]], total |-> was.max]
           /\ was.max = NoRow /\ db.max # NoRow => d.bal[LP] = [a \in Addresses |-> 0]
  <1> DEFINE d == Restored(h)
             was == dbAt[h]
             cut == Len(was.journal)
             f == Forking(h)
  <1>1. /\ was \in Tables /\ Booked(was, h) /\ db \in Tables /\ h \in Nat
        /\ Booked(db, current) /\ Past(was, db, h) /\ RowTrue(was) /\ RowTrue(db)
    BY DEF Finished, Sound, Core, Booked
  <1>2. PICK tr : Leads(tr, db) /\ \A g \in 0..(current - 1) : Passes(tr, dbAt[g], db)
    BY DEF Sound, Core, Explained
  <1> DEFINE m == tr[cut]
             w == With(f, m)
  <1>3. m \in MemeBooks /\ f \in Tables /\ meme20Fork(f, h) = w
    BY <1>2, UndoneToCut
  <1>4. /\ m.bal[MEME] = was.bal[MEME] /\ m.bal[LP] = was.bal[LP]
        /\ m.bal[DEPLOYED] = (IF was.rows = 0 /\ db.rows > 0 THEN Whole ELSE was.bal[DEPLOYED])
        /\ m.max = IF was.max = NoRow /\ db.max # NoRow THEN 0 ELSE was.max
    BY <1>2 DEF Passes
  <1>5. was.bal \in [Ticks -> [Addresses -> Nat]] /\ was.max \in Nat \cup {NoRow}
    BY <1>1, TablesFacts
  <1>6. wdogeAt[h] \in [Addresses -> Nat] /\ wdogeAt[h] = was.bal[WDOGE]
    BY <1>5, V2Names
  <1>7. /\ f.bal[WDOGE] = was.bal[WDOGE] /\ f.max = db.max /\ f.pool = db.pool
        /\ f.rows = db.rows
        /\ f.mined = (IF db.mined # NoRow /\ db.mined > h THEN NoRow ELSE db.mined)
        /\ f.creates = db.creates /\ f.journal = db.journal
        /\ f.swapped = {e \in db.swapped : e[2] <= h}
    BY <1>1, <1>6, ForkingFacts
  <1>8. d = DelRevert(SwapV2Fork(w, h), h)
    BY <1>3 DEF Restored
  <1> HIDE DEF d, f, m
  <1>9. /\ w \in Tables /\ w.max = m.max
        /\ \A t \in Memes : w.bal[t] = m.bal[t]
        /\ w.bal[WDOGE] = f.bal[WDOGE]
        /\ w.pool = f.pool /\ w.rows = f.rows /\ w.mined = f.mined
        /\ w.creates = f.creates /\ w.journal = f.journal /\ w.swapped = f.swapped
    BY <1>3, WithFacts
  <1> HIDE DEF w
  <1>10. [k \in DOMAIN w.journal \ Later(w.journal, h) |-> w.journal[k]] = was.journal
    <2>1. w.journal = db.journal
      BY <1>7, <1>9
    <2> HIDE DEF was
    <2>2. Booked(was, h) /\ h \in Nat /\ db \in Tables /\ Past(was, db, h)
      BY <1>1
    <2>3. [k \in DOMAIN db.journal \ Later(db.journal, h) |-> db.journal[k]] = was.journal
      BY ONLY <2>2, CutFacts
    <2>4. QED
      BY <2>1, <2>3
  <1>11. was.journal \in Seq(MemeReverts)
    BY <1>1, TablesFacts
  <1>12. /\ db.pool = NoPool <=> db.max = NoRow
         /\ db.max = NoRow <=> db.creates = {}
    BY <1>1, RowMeansPool
  <1>13. /\ was.pool = NoPool <=> was.max = NoRow
         /\ was.max = NoRow <=> was.creates = {}
         /\ was.max = NoRow => was.bal[LP] = [a \in Addresses |-> 0]
    <2> HIDE DEF was
    <2>1. h \in Nat /\ Booked(was, h) /\ RowTrue(was)
      BY <1>1
    <2>2. QED
      BY ONLY <2>1, RowMeansPool
  <1>14. /\ was.swapped = {x \in db.swapped : x[2] <= h}
         /\ was.creates = {c \in db.creates : c <= h}
         /\ was.mined = (IF db.mined # NoRow /\ db.mined > h THEN NoRow ELSE db.mined)
    BY <1>1 DEF Past
  <1>15. db.creates = {} \/ \E c \in Nat : db.creates = {c}
    BY <1>1 DEF Booked
  <1> HIDE DEF was
  <1>16. /\ w.bal[WDOGE] = was.bal[WDOGE] /\ w.bal[MEME] = was.bal[MEME]
         /\ w.bal[LP] = was.bal[LP] /\ w.max = m.max
         /\ w.bal[DEPLOYED] = (IF was.rows = 0 /\ db.rows > 0 THEN Whole ELSE was.bal[DEPLOYED])
         /\ w.pool = db.pool /\ w.rows = db.rows /\ w.mined = was.mined
         /\ w.creates = db.creates /\ w.swapped = was.swapped
         /\ {c \in w.creates : c <= h} = was.creates
    BY <1>4, <1>7, <1>9, <1>14, V2Names
  <1>17. w.bal \in [Ticks -> [Addresses -> Nat]]
    BY <1>9, TablesFacts
  <1> DEFINE e == SwapV2Fork(w, h)
             zeros == [a \in Addresses |-> 0]
             row == [amt |-> [t \in Pair |-> w.bal[t][Pool]], total |-> w.max]
  <1>18. CASE \E c \in db.creates : c > h
    <2>1. was.creates = {} /\ was.max = NoRow /\ was.pool = NoPool /\ was.bal[LP] = zeros
      BY <1>13, <1>14, <1>15, <1>18
    <2> DEFINE c == [w.bal EXCEPT ![LP] = zeros]
    <2>2. /\ c \in [Ticks -> [Addresses -> Nat]] /\ c[LP] = zeros
          /\ \A t \in Ticks \ {LP} : c[t] = w.bal[t]
      <3>1. zeros \in [Addresses -> Nat]
        OBVIOUS
      <3> HIDE DEF zeros
      <3>2. QED
        BY <1>17, <3>1, V2Names
    <2>3. e = [w EXCEPT !.pool = NoPool, !.max = NoRow, !.bal = c]
      BY <1>9, <1>16, <1>18 DEF SwapV2Fork, Tables
    <2> HIDE DEF e, c, zeros
    <2>4. /\ e \in Tables /\ e.bal = c /\ e.max = NoRow /\ e.pool = NoPool
          /\ e.rows = w.rows /\ e.mined = w.mined /\ e.swapped = w.swapped
          /\ e.creates = w.creates /\ e.journal = w.journal
      BY <1>9, <2>2, <2>3 DEF Tables, Purses
    <2>5. [k \in DOMAIN e.journal \ Later(e.journal, h) |-> e.journal[k]] = was.journal
      BY <1>10, <2>4
    <2>6. /\ d \in Tables /\ d.bal = e.bal /\ d.max = e.max /\ d.pool = e.pool
          /\ d.rows = e.rows /\ d.mined = e.mined /\ d.swapped = e.swapped
          /\ d.journal = was.journal /\ d.creates = {x \in e.creates : x <= h}
      <3>1. /\ DelRevert(e, h) \in Tables /\ DelRevert(e, h).bal = e.bal
            /\ DelRevert(e, h).max = e.max /\ DelRevert(e, h).pool = e.pool
            /\ DelRevert(e, h).rows = e.rows /\ DelRevert(e, h).mined = e.mined
            /\ DelRevert(e, h).swapped = e.swapped
            /\ DelRevert(e, h).journal = was.journal
            /\ DelRevert(e, h).creates = {x \in e.creates : x <= h}
        BY ONLY <1>1, <1>11, <2>4, <2>5, DelRevertFacts
      <3>2. QED
        BY <1>8, <3>1 DEF e
    <2>7. /\ c[WDOGE] = w.bal[WDOGE] /\ c[MEME] = w.bal[MEME] /\ c[DEPLOYED] = w.bal[DEPLOYED]
      BY <2>2, V2Names
    <2>8. QED
      BY <1>16, <2>1, <2>2, <2>4, <2>6, <2>7 DEF d, was, zeros
  <1>19. CASE (~ \E c \in db.creates : c > h) /\ db.pool = NoPool
    <2>1. db.max = NoRow /\ db.creates = {}
      BY <1>12, <1>19
    <2>2. was.creates = {} /\ was.max = NoRow /\ was.pool = NoPool /\ m.max = NoRow
      BY <1>4, <1>13, <1>14, <2>1 DEF was
    <2>3. e = w
      BY <1>16, <1>19 DEF SwapV2Fork
    <2> HIDE DEF e
    <2>4. /\ d \in Tables /\ d.bal = w.bal /\ d.max = w.max /\ d.pool = w.pool
          /\ d.rows = w.rows /\ d.mined = w.mined /\ d.swapped = w.swapped
          /\ d.journal = was.journal /\ d.creates = {x \in w.creates : x <= h}
      <3>1. /\ DelRevert(w, h) \in Tables /\ DelRevert(w, h).bal = w.bal
            /\ DelRevert(w, h).max = w.max /\ DelRevert(w, h).pool = w.pool
            /\ DelRevert(w, h).rows = w.rows /\ DelRevert(w, h).mined = w.mined
            /\ DelRevert(w, h).swapped = w.swapped
            /\ DelRevert(w, h).journal = was.journal
            /\ DelRevert(w, h).creates = {x \in w.creates : x <= h}
        <4>1. w \in Tables /\ h \in Nat /\ was.journal \in Seq(MemeReverts)
          BY <1>1, <1>9, <1>11
        <4>2. QED
          BY ONLY <4>1, <1>10, DelRevertFacts
      <3>2. QED
        BY <1>8, <2>3, <3>1 DEF e
    <2>5. QED
      BY <1>16, <1>19, <2>1, <2>2, <2>4 DEF d, was
  <1>20. CASE (~ \E c \in db.creates : c > h) /\ db.pool # NoPool
    <2>1. db.max # NoRow /\ db.creates # {}
      BY <1>12, <1>20
    <2>2. was.creates # {} /\ was.max # NoRow /\ was.pool # NoPool /\ m.max = was.max
          /\ w.max \in Nat
      <3>1. \A c \in db.creates : c <= h
        BY <1>1, <1>20, TablesFacts
      <3>2. was.creates = db.creates
        BY <1>14, <3>1
      <3>3. was.max # NoRow /\ was.pool # NoPool /\ was.creates # {}
        BY <1>13, <2>1, <3>2
      <3>4. m.max = was.max /\ was.max \in Nat
        BY <1>4, <1>5, <3>3 DEF was
      <3>5. QED
        BY <1>16, <3>3, <3>4
    <2>3. row \in Rows /\ row # NoPool
      BY <1>17, <2>2, V2Names DEF Rows
    <2>4. e = [w EXCEPT !.pool = row]
      BY <1>16, <1>20 DEF SwapV2Fork, Refresh
    <2> HIDE DEF e, row
    <2>5. /\ e \in Tables /\ e.bal = w.bal /\ e.max = w.max /\ e.pool = row
          /\ e.rows = w.rows /\ e.mined = w.mined /\ e.swapped = w.swapped
          /\ e.creates = w.creates /\ e.journal = w.journal
      BY <1>9, <2>3, <2>4 DEF Tables
    <2>6. [k \in DOMAIN e.journal \ Later(e.journal, h) |-> e.journal[k]] = was.journal
      BY <1>10, <2>5
    <2>7. /\ d \in Tables /\ d.bal = e.bal /\ d.max = e.max /\ d.pool = e.pool
          /\ d.rows = e.rows /\ d.mined = e.mined /\ d.swapped = e.swapped
          /\ d.journal = was.journal /\ d.creates = {x \in e.creates : x <= h}
      <3>1. /\ DelRevert(e, h) \in Tables /\ DelRevert(e, h).bal = e.bal
            /\ DelRevert(e, h).max = e.max /\ DelRevert(e, h).pool = e.pool
            /\ DelRevert(e, h).rows = e.rows /\ DelRevert(e, h).mined = e.mined
            /\ DelRevert(e, h).swapped = e.swapped
            /\ DelRevert(e, h).journal = was.journal
            /\ DelRevert(e, h).creates = {x \in e.creates : x <= h}
        BY ONLY <1>1, <1>11, <2>5, <2>6, DelRevertFacts
      <3>2. QED
        BY <1>8, <3>1 DEF e
    <2>8. row = [amt |-> [t \in Pair |-> was.bal[t][Pool]], total |-> was.max]
      <3>1. \A t \in Pair : w.bal[t] = was.bal[t]
        BY <1>16, V2Names
      <3>2. w.max = was.max
        BY <1>16, <2>2
      <3>3. QED
        BY <3>1, <3>2 DEF row
    <2>9. QED
      BY <1>16, <2>2, <2>3, <2>5, <2>7, <2>8 DEF d, was
  <1>21. QED
    BY <1>18, <1>19, <1>20

\* The trace of db up to the cut is a trace of what was restored.
LEMMA RestoredExplained ==
    ASSUME current \in Nat, Finished(dbAt, current), Sound(db), NEW h \in 0..(current - 1),
           wdogeAt[h] = dbAt[h].bal[WDOGE]
    PROVE  \E t2 : /\ Leads(t2, Restored(h))
                   /\ \A g \in 0..(h - 1) : Passes(t2, dbAt[g], Restored(h))
  <1> DEFINE d == Restored(h)
             was == dbAt[h]
             cut == Len(was.journal)
             zeros == [a \in Addresses |-> 0]
  <1>1. /\ was \in Tables /\ Booked(was, h) /\ db \in Tables /\ h \in Nat
        /\ Booked(db, current) /\ Past(was, db, h) /\ RowTrue(was) /\ RowTrue(db)
    BY DEF Finished, Sound, Core, Booked
  <1>2. PICK tr : Leads(tr, db) /\ \A g \in 0..(current - 1) : Passes(tr, dbAt[g], db)
    BY DEF Sound, Core, Explained
  <1> DEFINE m == tr[cut]
             t1 == [k \in 0..cut |-> tr[k]]
             s1 == With(was, m)
  <1>3. /\ cut \in 0..Len(db.journal) /\ Len(db.journal) \in Nat
        /\ cut \in Nat /\ cut <= Len(db.journal)
        /\ \A k \in 1..cut : was.journal[k] = db.journal[k]
        /\ \A k \in 1..cut : Meant(was.journal[k])
    <2>1. cut \in Nat /\ Len(db.journal) \in Nat /\ DOMAIN was.journal = 1..cut
      BY <1>1, TablesFacts
    <2>2. QED
      BY <1>1, <2>1 DEF Past, Booked
  <1>4. /\ m.bal[MEME] = was.bal[MEME] /\ m.bal[LP] = was.bal[LP]
        /\ m.bal[DEPLOYED] = (IF was.rows = 0 /\ db.rows > 0 THEN Whole ELSE was.bal[DEPLOYED])
        /\ m.max = IF was.max = NoRow /\ db.max # NoRow THEN 0 ELSE was.max
    BY <1>2 DEF Passes
  <1>5. /\ d \in Tables
        /\ d.bal[MEME] = was.bal[MEME]
        /\ d.bal[LP] = was.bal[LP] /\ d.max = was.max
        /\ d.bal[DEPLOYED] = (IF was.rows = 0 /\ db.rows > 0 THEN Whole ELSE was.bal[DEPLOYED])
        /\ d.rows = db.rows /\ d.journal = was.journal
        /\ was.max = NoRow /\ db.max # NoRow => d.bal[LP] = zeros
    BY RestoredFacts
  <1>6. m \in MemeBooks /\ t1 \in [0..cut -> MemeBooks] /\ t1[cut] = m
    BY <1>2, <1>3 DEF Leads
  <1>7. \A k \in 1..cut : UndoOk(t1[k], was.journal[k]) /\ Undo(t1[k], was.journal[k]) = t1[k - 1]
    <2>1. TAKE k \in 1..cut
    <2>2. k \in 0..cut /\ k - 1 \in 0..cut /\ k \in 1..Len(db.journal)
      BY <1>3
    <2>3. UndoOk(tr[k], db.journal[k]) /\ Undo(tr[k], db.journal[k]) = tr[k - 1]
      BY <1>2, <2>2 DEF Leads
    <2>4. t1[k] = tr[k] /\ t1[k - 1] = tr[k - 1]
      BY <2>2
    <2> HIDE DEF t1
    <2>5. QED
      BY <1>3, <2>3, <2>4
  <1>8. ASSUME NEW g \in 0..(h - 1)
        PROVE  /\ Len(dbAt[g].journal) \in 0..cut
               /\ t1[Len(dbAt[g].journal)] = tr[Len(dbAt[g].journal)]
               /\ tr[Len(dbAt[g].journal)] \in MemeBooks
               /\ Passes(tr, dbAt[g], db)
               /\ db.max # NoRow /\ was.max = NoRow =>
                     dbAt[g].max = NoRow /\ dbAt[g].bal[LP] = zeros
    <2> DEFINE p == dbAt[g]
    <2>1. g \in 0..(current - 1) /\ g \in Nat /\ g < h
      BY <1>1
    <2>2. p \in Tables /\ Booked(p, g) /\ RowTrue(p) /\ Past(p, db, g) /\ Passes(tr, p, db)
      BY <1>2, <2>1 DEF Finished, Sound, Core
    <2> HIDE DEF p
    <2> DEFINE w == [db EXCEPT !.journal = was.journal]
    <2>3. Len(p.journal) \in 0..cut
      <3>1. \A k \in 1..Len(p.journal) : p.journal[k] = db.journal[k] /\ p.journal[k].at <= g
        BY <2>2, TablesFacts DEF Past, Booked
      <3>2. Len(p.journal) \in Nat /\ Len(p.journal) <= Len(db.journal)
        BY <2>2, TablesFacts DEF Past
      <3>3. \A k \in 1..Len(db.journal) :
               k > cut => db.journal[k].at > h /\ db.journal[k].at \in Nat
        <4>1. \A k \in 1..Len(db.journal) : db.journal[k] \in MemeReverts
          BY <1>1, TablesFacts
        <4>2. QED
          BY <1>1, <4>1 DEF Past, MemeReverts
      <3> HIDE DEF cut
      <3>4. SUFFICES ASSUME ~(Len(p.journal) <= cut) PROVE FALSE
        BY <1>3, <3>2
      <3>5. cut + 1 \in 1..Len(p.journal) /\ cut + 1 \in 1..Len(db.journal) /\ cut + 1 > cut
        BY <1>3, <3>2, <3>4
      <3>6. /\ db.journal[cut + 1].at > h /\ db.journal[cut + 1].at <= g
            /\ db.journal[cut + 1].at \in Nat
        BY <3>1, <3>3, <3>5
      <3>7. QED
        BY ONLY <1>1, <2>1, <3>6
    <2>4. db.max # NoRow /\ was.max = NoRow => p.max = NoRow /\ p.bal[LP] = zeros
      <3>1. /\ p.max = NoRow <=> p.creates = {}
            /\ p.max = NoRow => p.bal[LP] = [a \in Addresses |-> 0]
        BY <2>1, <2>2, RowMeansPool
      <3>2. was.max = NoRow <=> was.creates = {}
        BY <1>1, RowMeansPool
      <3>3. was.creates = {c \in db.creates : c <= h} /\ p.creates = {c \in db.creates : c <= g}
            /\ db.creates \in SUBSET Nat
        BY <1>1, <2>2, TablesFacts DEF Past
      <3>4. was.creates = {} => p.creates = {}
        BY <2>1, <1>1, <3>3
      <3>5. QED
        BY <3>1, <3>2, <3>4
    <2>5. t1[Len(p.journal)] = tr[Len(p.journal)]
      BY <2>3
    <2>6. tr[Len(p.journal)] \in MemeBooks
      <3>1. Len(p.journal) \in 0..Len(db.journal)
        BY <1>3, <2>3
      <3>2. QED
        BY <1>2, <3>1 DEF Leads
    <2>7. QED
      BY <2>2, <2>3, <2>4, <2>5, <2>6 DEF p
  <1>9. MEME \in Memes /\ LP \in Memes /\ DEPLOYED \in Memes /\ MEME # LP /\ DEPLOYED # LP
        /\ NoRow \notin Nat /\ Memes = {MEME, LP, DEPLOYED}
    BY V2Names DEF Memes
  <1>10. was.max \in Nat \cup {NoRow} /\ db.max \in Nat \cup {NoRow}
    BY <1>1, TablesFacts
  <1>11. CASE was.max = NoRow <=> db.max = NoRow
    <2>1. m.max = was.max
      BY <1>4, <1>11
    <2>2. MemesOf(d) = m
      <3>1. \A t \in Memes : d.bal[t] = m.bal[t]
        BY <1>4, <1>5, <1>9
      <3>2. m.bal = [t \in Memes |-> m.bal[t]] /\ m = [bal |-> m.bal, max |-> m.max]
        BY <1>6 DEF MemeBooks
      <3> HIDE DEF m, d
      <3>3. QED
        BY <1>5, <2>1, <3>1, <3>2 DEF MemesOf
    <2>3. Leads(t1, d)
      <3> HIDE DEF t1, m, d
      <3>1. QED
        BY <1>5, <1>6, <1>7, <2>2 DEF Leads
    <2>4. ASSUME NEW g \in 0..(h - 1) PROVE Passes(t1, dbAt[g], d)
      <3>1. t1[Len(dbAt[g].journal)] = tr[Len(dbAt[g].journal)] /\ Passes(tr, dbAt[g], db)
        BY <1>8
      <3> HIDE DEF t1, d
      <3>2. d.rows = db.rows /\ (d.max = NoRow <=> db.max = NoRow)
        BY <1>5, <1>11
      <3>3. QED
        BY <3>1, <3>2 DEF Passes
    <2>5. QED
      BY <2>3, <2>4
  <1>12. CASE was.max = NoRow /\ db.max # NoRow
    <2>1. s1 \in Tables /\ s1.max = m.max /\ s1.journal = was.journal
          /\ \A t \in Memes : s1.bal[t] = m.bal[t]
      <3> HIDE DEF was, m
      <3>1. QED
        BY <1>1, <1>6, WithFacts
    <2> HIDE DEF s1
    <2>2. MemesOf(s1) = m
      <3>1. m.bal = [t \in Memes |-> m.bal[t]] /\ m = [bal |-> m.bal, max |-> m.max]
        BY <1>6 DEF MemeBooks
      <3> HIDE DEF m
      <3>2. QED
        BY <2>1, <3>1 DEF MemesOf
    <2>3. Leads(t1, s1)
      <3> HIDE DEF t1, m
      <3>1. QED
        BY <1>6, <1>7, <2>1, <2>2 DEF Leads
    <2>4. \A k \in 1..Len(s1.journal) : Meant(s1.journal[k]) /\ s1.journal[k].tick # LP
      <3>1. ~Mentions(was, LP)
        BY <1>1, <1>12, RowMeansPool
      <3>2. DOMAIN was.journal = 1..cut
        BY <1>1, TablesFacts
      <3>3. QED
        BY <1>3, <2>1, <3>1, <3>2 DEF Mentions
    <2>5. MemesOf(d) = Over(m, LP, zeros, d.max)
      <3>1. m.bal \in [Memes -> [Addresses -> Nat]]
        BY <1>6 DEF MemeBooks
      <3>2. d.bal[LP] = zeros /\ d.bal[MEME] = m.bal[MEME] /\ d.bal[DEPLOYED] = m.bal[DEPLOYED]
        BY <1>4, <1>5, <1>12
      <3> HIDE DEF m, d, zeros
      <3>3. [t \in Memes |-> d.bal[t]] = Put(m.bal, LP, zeros)
        BY <1>9, <3>1, <3>2 DEF Put
      <3>4. QED
        BY <3>3 DEF MemesOf, Over
    <2>6. zeros \in [Addresses -> Nat]
      OBVIOUS
    <2>7. \E t2 : /\ Leads(t2, d)
                  /\ \A k \in 0..cut : t2[k] = Over(t1[k], LP, zeros, d.max)
      <3> HIDE DEF t1, m, d, zeros
      <3>1. /\ s1 \in Tables /\ Leads(t1, s1) /\ LP \in Memes /\ zeros \in [Addresses -> Nat]
            /\ \A k \in 1..Len(s1.journal) : Meant(s1.journal[k]) /\ s1.journal[k].tick # LP
        BY <1>9, <2>1, <2>3, <2>4, <2>6
      <3>2. /\ d \in Tables /\ d.journal = s1.journal
            /\ MemesOf(d) = Over(MemesOf(s1), LP, zeros, d.max)
        BY <1>5, <2>1, <2>2, <2>5
      <3>3. \E t2 : /\ Leads(t2, d)
                    /\ \A k \in 0..Len(s1.journal) :
                         t2[k] = Over(t1[k], LP, zeros, IF LP = LP THEN d.max ELSE t1[k].max)
        BY ONLY <3>1, <3>2, OverLeads
      <3>4. Len(s1.journal) = cut
        BY <2>1
      <3>5. QED
        BY <3>3, <3>4
    <2>8. PICK t2 : /\ Leads(t2, d)
                    /\ \A k \in 0..cut : t2[k] = Over(t1[k], LP, zeros, d.max)
      BY <2>7
    <2>9. ASSUME NEW g \in 0..(h - 1) PROVE Passes(t2, dbAt[g], d)
      <3> DEFINE i == Len(dbAt[g].journal)
                 mi == tr[i]
      <3>1. /\ i \in 0..cut /\ t1[i] = mi /\ mi \in MemeBooks /\ Passes(tr, dbAt[g], db)
            /\ dbAt[g].max = NoRow /\ dbAt[g].bal[LP] = zeros
        BY <1>8, <1>12
      <3>2. t2[i] = Over(mi, LP, zeros, NoRow) /\ d.max = NoRow
        BY <1>5, <1>12, <2>8, <3>1
      <3>3. /\ mi.bal[MEME] = dbAt[g].bal[MEME]
            /\ mi.bal[DEPLOYED] = IF dbAt[g].rows = 0 /\ db.rows > 0 THEN Whole
                                  ELSE dbAt[g].bal[DEPLOYED]
        BY <3>1 DEF Passes
      <3> HIDE DEF mi, zeros, d, t1
      <3>4. /\ t2[i].max = NoRow /\ t2[i].bal[LP] = zeros
            /\ \A k \in Memes \ {LP} : t2[i].bal[k] = mi.bal[k]
        BY <1>9, <2>6, <3>1, <3>2, OverFacts
      <3>5. t2[i].bal[MEME] = mi.bal[MEME] /\ t2[i].bal[DEPLOYED] = mi.bal[DEPLOYED]
        BY <1>9, <3>4
      <3>6. d.rows = db.rows
        BY <1>5
      <3>7. QED
        BY <3>1, <3>2, <3>3, <3>4, <3>5, <3>6 DEF Passes
    <2>10. QED
      BY <2>8, <2>9
  <1>13. ~(was.max # NoRow /\ db.max = NoRow)
    <2>1. (was.max = NoRow <=> was.creates = {}) /\ (db.max = NoRow <=> db.creates = {})
      BY <1>1, RowMeansPool
    <2>2. was.creates \subseteq db.creates
      BY <1>1 DEF Past
    <2>3. QED
      BY <2>1, <2>2
  <1>14. QED
    BY <1>11, <1>12, <1>13

LEMMA RestoredSound ==
    ASSUME current \in Nat, Finished(dbAt, current), Sound(db), NEW h \in 0..(current - 1),
           wdogeAt[h] = dbAt[h].bal[WDOGE]
    PROVE  LET past == [g \in 0..(h - 1) |-> dbAt[g]] IN
           Finished(past, h) /\ Core(Restored(h), past, h) /\ RowTrue(Restored(h))
  <1> DEFINE d == Restored(h)
             was == dbAt[h]
             past == [g \in 0..(h - 1) |-> dbAt[g]]
  <1>1. /\ was \in Tables /\ Booked(was, h) /\ db \in Tables /\ h \in Nat
        /\ Booked(db, current) /\ Past(was, db, h) /\ RowTrue(was) /\ RowTrue(db)
    BY DEF Finished, Sound, Core, Booked
  <1>2. /\ d \in Tables
        /\ d.bal[WDOGE] = was.bal[WDOGE] /\ d.bal[MEME] = was.bal[MEME]
        /\ d.bal[LP] = was.bal[LP] /\ d.max = was.max
        /\ d.bal[DEPLOYED] = (IF was.rows = 0 /\ db.rows > 0 THEN Whole ELSE was.bal[DEPLOYED])
        /\ d.rows = db.rows /\ d.mined = was.mined /\ d.creates = was.creates
        /\ d.journal = was.journal /\ d.swapped = was.swapped
        /\ d.pool = NoPool <=> was.pool = NoPool
        /\ d.pool # NoPool =>
              d.pool = [amt |-> [t \in Pair |-> was.bal[t][Pool]], total |-> was.max]
    BY RestoredFacts
  <1>3. \E t2 : Leads(t2, d) /\ \A g \in 0..(h - 1) : Passes(t2, dbAt[g], d)
    BY RestoredExplained
  <1>4. \A g \in 0..(h - 1) : g \in 0..(current - 1) /\ g \in Nat /\ g < h
    BY <1>1
  <1>5. \A g \in 0..(h - 1) : past[g] = dbAt[g] /\ dbAt[g] \in Tables
                              /\ Booked(dbAt[g], g) /\ RowTrue(dbAt[g]) /\ Past(dbAt[g], db, g)
    BY <1>4 DEF Finished, Sound, Core
  <1>6. past \in [0..(h - 1) -> Tables]
    BY <1>5
  <1> HIDE DEF d, past
  <1>7. Finished(past, h)
    BY <1>5, <1>6 DEF Finished
  <1>8. was.rows \in Nat /\ db.rows \in Nat /\ was.rows <= db.rows
    BY <1>1, TablesFacts DEF Past
  <1> HIDE DEF was
  <1>9. Booked(d, h)
    <2>1. SumFunction(d.bal[DEPLOYED]) = IF d.rows = 0 THEN 0 ELSE NewMax
      <3>1. CASE was.rows = 0 /\ db.rows > 0
        BY <1>2, <1>8, <3>1, WholeFacts
      <3>2. CASE ~(was.rows = 0 /\ db.rows > 0)
        <4>1. was.rows = 0 <=> d.rows = 0
          BY <1>2, <1>8, <3>2
        <4>2. QED
          BY <1>1, <1>2, <3>2, <4>1 DEF Booked
      <3>3. QED
        BY <3>1, <3>2
    <2>2. d.rows = 0 => was.rows = 0
      BY <1>2, <1>8
    <2>3. d.rows = 0 => d.mined = NoRow /\ ~Mentions(d, DEPLOYED)
      BY <1>1, <1>2, <2>2 DEF Booked, Mentions
    <2>4. /\ \A k \in DOMAIN d.journal : Meant(d.journal[k]) /\ d.journal[k].at <= h
          /\ d.mined # NoRow => d.mined <= h
          /\ \A e \in d.swapped : e[2] <= h
      BY <1>1, <1>2 DEF Booked
    <2>5. d.max = NoRow => SumFunction(d.bal[LP]) = 0 /\ d.creates = {} /\ ~Mentions(d, LP)
      BY <1>1, <1>2 DEF Booked, Mentions
    <2>6. d.max # NoRow =>
          /\ d.max = SumFunction(d.bal[LP])
          /\ \E c \in 0..h : /\ d.creates = {c}
                             /\ \A k \in DOMAIN d.journal :
                                   d.journal[k].tick = LP => d.journal[k].at >= c
      BY <1>1, <1>2 DEF Booked
    <2>7. QED
      BY <1>2, <2>1, <2>3, <2>4, <2>5, <2>6 DEF Booked
  <1>10. ASSUME NEW g \in 0..(h - 1) PROVE Past(past[g], d, g)
    <2> DEFINE p == dbAt[g]
    <2>1. g \in Nat /\ g < h /\ past[g] = p /\ Booked(p, g) /\ Past(p, db, g)
      BY <1>4, <1>5
    <2> HIDE DEF p
    <2>2. /\ h \in Nat /\ db \in Tables /\ d \in Tables /\ Booked(was, h) /\ Past(was, db, h)
          /\ d.journal = was.journal /\ d.swapped = was.swapped /\ d.creates = was.creates
          /\ d.mined = was.mined /\ d.rows = db.rows
      BY <1>1, <1>2
    <2>3. Past(p, d, g)
      BY ONLY <2>1, <2>2, PastBefore
    <2>4. QED
      BY <2>1, <2>3
  <1>11. Explained(d, past, h)
    BY <1>3, <1>5 DEF Explained
  <1>12. Core(d, past, h)
    BY <1>9, <1>10, <1>11 DEF Core
  <1>13. RowTrue(d)
    <2>1. CASE d.pool = NoPool
      BY <1>1, <1>2, <2>1 DEF RowTrue
    <2>2. CASE d.pool # NoPool
      <3>1. \A t \in Pair : d.bal[t] = was.bal[t]
        BY <1>2, V2Names
      <3>2. d.pool.total = d.max /\ \A t \in Pair : d.pool.amt[t] = d.bal[t][Pool]
        BY <1>2, <2>2, <3>1
      <3>3. \A t \in Pair : d.bal[t][Pool] \in Nat
        BY <1>2, TablesFacts, V2Names
      <3>4. QED
        BY <2>2, <3>2, <3>3 DEF RowTrue
    <2>3. QED
      BY <2>1, <2>2
  <1>14. QED
    BY <1>7, <1>12, <1>13 DEF past, d

-----------------------------------------------------------------------------
(* The deposit and the withdrawal of a transaction *)

LEMMA PairOps ==
    ASSUME NEW o \in Inscriptions
    PROVE  /\ o.op \in {"create", "add", "remove", "swap"} /\ o.doge \in BOOLEAN
           /\ o.op = "create" => o.amt \in [Pair -> Nat]
           /\ o.op = "add" => o.amt \in [Pair -> Nat] /\ o.min \in [Pair -> Nat]
           /\ o.op = "remove" => o.liquidity \in Nat
           /\ o.op = "swap" => o.tick \in Pair /\ o.amt \in Nat /\ o.min \in Nat
  BY DEF Inscriptions

LEMMA DepositIsNat ==
    ASSUME NEW o \in Inscriptions
    PROVE  DepositOf(o) \in Nat
  <1>1. WDOGE \in Pair
    BY V2Names
  <1>2. CASE o.op = "add" /\ o.doge
    <2>1. DepositOf(o) = o.amt[WDOGE]
      BY <1>2 DEF DepositOf
    <2>2. QED
      BY <1>1, <1>2, <2>1, PairOps
  <1>3. CASE o.op = "swap" /\ o.doge
    <2>1. DepositOf(o) = IF o.tick = WDOGE THEN o.amt ELSE 0
      BY <1>3 DEF DepositOf
    <2>2. QED
      BY <1>3, <2>1, PairOps
  <1>4. CASE o.op \notin {"add", "swap"} \/ ~o.doge
    <2>1. DepositOf(o) = 0
      BY <1>4 DEF DepositOf
    <2>2. QED
      BY <2>1
  <1>5. QED
    BY <1>2, <1>3, <1>4

LEMMA DueIsNat ==
    ASSUME NEW t \in Seq(Inscriptions)
    PROVE  Due(t) \in Nat
  <1> DEFINE f == [k \in DOMAIN t |-> DepositOf(t[k])]
  <1>1. DOMAIN t = 1..Len(t) /\ Len(t) \in Nat /\ \A k \in DOMAIN t : t[k] \in Inscriptions
    OBVIOUS
  <1>2. IsFiniteSet(DOMAIN t)
    BY <1>1, FS_Interval
  <1>3. f \in [DOMAIN t -> Nat]
    BY <1>1, DepositIsNat
  <1> HIDE DEF f
  <1>4. SumFunction(f) \in Nat
    BY <1>2, <1>3, SumNat
  <1>5. QED
    BY <1>4 DEF f, Due

LEMMA WithdrawIsNat ==
    ASSUME NEW s, Sound(s), NEW u, NEW o \in Inscriptions, Can(s, u, o)
    PROVE  WithdrawOf(s, o) \in Nat
  <1>1. CASE o.op = "remove" /\ o.doge
    <2>1. WithdrawOf(s, o) = Worth(s.pool, WDOGE, o.liquidity)
      BY <1>1 DEF WithdrawOf
    <2>2. CanRemove(s, u, o)
      BY <1>1 DEF Can
    <2>3. /\ s.pool # NoPool /\ o.liquidity >= 1 /\ o.liquidity <= s.pool.total
          /\ o.liquidity \in Nat
      BY <1>1, <2>2, PairOps DEF CanRemove
    <2>4. s.pool.amt[WDOGE] \in Nat /\ s.pool.total \in Nat
      BY <2>3, SoundFacts, V2Names
    <2>5. s.pool.total \in Nat \ {0}
      BY <2>3, <2>4
    <2>6. (o.liquidity * s.pool.amt[WDOGE]) \div s.pool.total \in Nat
      BY <2>3, <2>4, <2>5, WorthFacts
    <2>7. QED
      BY <2>1, <2>6 DEF Worth
  <1>2. CASE o.op = "swap" /\ o.doge
    <2>1. WithdrawOf(s, o) = IF o.tick = WDOGE THEN 0 ELSE Out(s.pool, o)
      BY <1>2 DEF WithdrawOf
    <2>2. CanExec(s, u, o)
      BY <1>2 DEF Can
    <2>3. s.pool # NoPool /\ o.amt >= 1
      BY <2>2 DEF CanExec, CanMove
    <2>4. s.pool \in Rows
      <3>1. s \in Tables
        BY DEF Sound, Core, Booked
      <3>2. QED
        BY <2>3, <3>1, TablesFacts
    <2>5. Out(s.pool, o) \in Nat
      BY <1>2, <2>3, <2>4, TradeFacts
    <2>6. QED
      BY <2>1, <2>5
  <1>3. CASE o.op \notin {"remove", "swap"} \/ ~o.doge
    <2>1. WithdrawOf(s, o) = 0
      BY <1>3 DEF WithdrawOf
    <2>2. QED
      BY <2>1
  <1>4. QED
    BY <1>1, <1>2, <1>3

-----------------------------------------------------------------------------
(* The invariant *)

PastInv ==
    /\ current \in Nat /\ Finished(dbAt, current)
    /\ wdogeAt \in [0..(current - 1) -> [Addresses -> Nat]]
    /\ \A h \in 0..(current - 1) : wdogeAt[h] = dbAt[h].bal[WDOGE]

RouterInv ==
    /\ sender \in Traders \cup {Nobody} /\ tx \in Seq(Inscriptions)
    /\ turn \in Nat \ {0} /\ out \in Nat
    /\ Idle => work = db
    /\ db.pool # NoPool => work.pool # NoPool /\ Grew(db.pool, work.pool)

V2Inv == PastInv /\ Sound(db) /\ Sound(work) /\ RouterInv

LEMMA SoundPool ==
    ASSUME NEW s, Sound(s), s.pool # NoPool
    PROVE  s.pool \in Rows /\ Grew(s.pool, s.pool)
  <1>1. s \in Tables
    BY DEF Sound, Core, Booked
  <1>2. s.pool \in Rows
    BY <1>1, TablesFacts
  <1>3. QED
    BY <1>2, GrewItself

LEMMA V2InvInit ==
    ASSUME SwapV2Init
    PROVE  V2Inv
  <1> DEFINE zeros == [a \in Addresses |-> 0]
             tr == [k \in 0..0 |-> MemesOf(db)]
  <1>1. db = [bal |-> Opening, max |-> NoRow, pool |-> NoPool, rows |-> 0, mined |-> NoRow,
              creates |-> {}, journal |-> <<>>, swapped |-> {}]
    BY DEF SwapV2Init
  <1>2. /\ current = 0 /\ sender = Nobody /\ tx = <<>> /\ turn = 1 /\ work = db /\ out = 0
        /\ wdogeAt = [h \in {} |-> Opening[WDOGE]] /\ dbAt = [h \in {} |-> db]
    BY DEF SwapV2Init
  <1>3. Opening \in [Ticks -> [Addresses -> Nat]]
        /\ \A a \in Addresses : Opening[LP][a] = 0 /\ Opening[DEPLOYED][a] = 0
    BY SwapV2Assumption DEF Purses
  <1>4. Opening[LP] = zeros /\ Opening[DEPLOYED] = zeros
    BY <1>3, V2Names
  <1>5. SumFunction(zeros) = 0
    BY V2Names, SumZero
  <1>6. db \in Tables
    <2>1. <<>> \in Seq(MemeReverts)
      OBVIOUS
    <2>2. QED
      BY <1>1, <1>3, <2>1 DEF Tables, Purses
  <1>7. /\ db.bal = Opening /\ db.max = NoRow /\ db.pool = NoPool /\ db.rows = 0
        /\ db.mined = NoRow /\ db.creates = {} /\ db.journal = <<>> /\ db.swapped = {}
        /\ DOMAIN db.journal = {} /\ Len(db.journal) = 0 /\ 1..0 = {}
    BY <1>1
  <1> HIDE DEF zeros
  <1>8. Booked(db, current) /\ RowTrue(db)
    BY <1>4, <1>5, <1>6, <1>7 DEF Booked, RowTrue, Mentions
  <1>9. 0..(current - 1) = {}
    BY <1>2
  <1>10. Leads(tr, db)
    <2>1. MemesOf(db) \in MemeBooks
      BY <1>6, TablesFacts
    <2>2. tr \in [0..0 -> MemeBooks] /\ tr[0] = MemesOf(db)
      BY <2>1
    <2> HIDE DEF tr
    <2>3. QED
      BY <1>7, <2>2 DEF Leads
  <1>11. Explained(db, dbAt, current)
    BY <1>9, <1>10 DEF Explained
  <1>12. Finished(dbAt, current)
    BY <1>2, <1>9 DEF Finished
  <1>13. Core(db, dbAt, current)
    BY <1>8, <1>9, <1>11 DEF Core
  <1>14. PastInv
    BY <1>2, <1>9, <1>12 DEF PastInv
  <1>15. RouterInv
    <2>1. <<>> \in Seq(Inscriptions)
      OBVIOUS
    <2>2. QED
      BY <1>2, <1>7, <2>1 DEF RouterInv
  <1>16. QED
    BY <1>2, <1>8, <1>13, <1>14, <1>15 DEF V2Inv, Sound

\* Between transactions: the tables of the next are sound and the copy is dropped.
LEMMA IdleInv ==
    ASSUME V2Inv, NEW p, Sound(p), db' = p, work' = db',
           sender' = Nobody, tx' = <<>>, turn' = 1, out' = 0,
           UNCHANGED chain
    PROVE  V2Inv'
  <1>1. /\ current' = current /\ wdogeAt' = wdogeAt /\ dbAt' = dbAt
    BY DEF chain
  <1>2. PastInv'
    BY <1>1 DEF V2Inv, PastInv, Finished
  <1>3. Sound(db)' /\ Sound(work)'
    BY <1>1 DEF Sound
  <1>4. RouterInv'
    <2>1. db'.pool # NoPool => Grew(db'.pool, work'.pool)
      BY SoundPool
    <2>2. <<>> \in Seq(Inscriptions)
      OBVIOUS
    <2>3. QED
      BY <2>1, <2>2 DEF RouterInv
  <1>5. QED
    BY <1>2, <1>3, <1>4 DEF V2Inv

LEMMA AtRest ==
    ASSUME V2Inv, Idle, NEW p, Sound(p), db' = p, work' = db',
           UNCHANGED <<chain, sender, tx, turn, out>>
    PROVE  V2Inv'
  <1>1. /\ current' = current /\ wdogeAt' = wdogeAt /\ dbAt' = dbAt
    BY DEF chain
  <1>2. PastInv'
    BY <1>1 DEF V2Inv, PastInv, Finished
  <1>3. Sound(db)' /\ Sound(work)'
    BY <1>1 DEF Sound
  <1>4. RouterInv'
    <2>1. db'.pool # NoPool => Grew(db'.pool, work'.pool)
      BY SoundPool
    <2>2. QED
      BY <2>1 DEF RouterInv, V2Inv
  <1>5. QED
    BY <1>2, <1>3, <1>4 DEF V2Inv

LEMMA V2Begin ==
    ASSUME V2Inv, NEW u \in Traders, NEW t \in Txs, Begin(u, t)
    PROVE  V2Inv' /\ db'.pool = db.pool /\ current' = current
  <1>1. /\ db' = [db EXCEPT !.bal = Mint(db.bal, WDOGE, u, Due(t))]
        /\ sender' = u /\ tx' = t /\ turn' = 1 /\ work' = db' /\ out' = 0
        /\ current' = current /\ wdogeAt' = wdogeAt /\ dbAt' = dbAt
    BY DEF Begin, chain
  <1>2. t \in Seq(Inscriptions)
    BY SwapV2Assumption
  <1>3. Due(t) \in Nat
    BY <1>2, DueIsNat
  <1>4. current \in Nat /\ Sound(db)
    BY DEF V2Inv, PastInv
  <1>5. Sound(db') /\ db'.pool = db.pool
    BY <1>1, <1>3, <1>4, WdogeMintSound
  <1>6. PastInv'
    BY <1>1 DEF V2Inv, PastInv, Finished
  <1>7. Sound(db)' /\ Sound(work)'
    BY <1>1, <1>5 DEF Sound
  <1>8. RouterInv'
    <2>1. db'.pool # NoPool => Grew(db'.pool, work'.pool)
      BY <1>1, <1>5, SoundPool
    <2>2. ~Idle'
      BY <1>1, SwapV2Assumption DEF Idle
    <2>3. QED
      BY <1>1, <1>2, <2>1, <2>2 DEF RouterInv
  <1>9. QED
    BY <1>1, <1>5, <1>6, <1>7, <1>8 DEF V2Inv

LEMMA V2Inscribe ==
    ASSUME V2Inv, Fresh, Inscribe
    PROVE  V2Inv' /\ db' = db /\ current' = current
  <1> DEFINE o == tx[turn]
  <1>1. /\ ~Idle /\ turn <= Len(tx) /\ Can(work, sender, o)
        /\ work' = Do(work, sender, o) /\ out' = out + WithdrawOf(work, o)
        /\ turn' = turn + 1 /\ sender' = sender /\ tx' = tx
        /\ db' = db /\ current' = current /\ wdogeAt' = wdogeAt /\ dbAt' = dbAt
    BY DEF Inscribe, chain
  <1>2. /\ PastInv /\ Sound(db) /\ Sound(work)
        /\ tx \in Seq(Inscriptions) /\ turn \in Nat \ {0} /\ out \in Nat
        /\ db.pool # NoPool => work.pool # NoPool /\ Grew(db.pool, work.pool)
    BY DEF V2Inv, RouterInv
  <1>3. sender \in Traders
    BY <1>1 DEF V2Inv, RouterInv, Idle
  <1>4. turn \in DOMAIN tx /\ o \in Inscriptions
    BY <1>1, <1>2
  <1>5. o.op = "create" => work.pool = NoPool
    BY <1>4 DEF Fresh
  <1> HIDE DEF o
  <1>6. /\ Sound(Do(work, sender, o)) /\ Do(work, sender, o).pool # NoPool
        /\ work.pool # NoPool => Grew(work.pool, Do(work, sender, o).pool)
    BY <1>1, <1>2, <1>3, <1>4, <1>5, DoSound DEF PastInv
  <1>7. WithdrawOf(work, o) \in Nat
    BY <1>1, <1>2, <1>4, WithdrawIsNat
  <1>8. PastInv'
    BY <1>1, <1>2 DEF PastInv, Finished
  <1>9. Sound(db)' /\ Sound(work)'
    BY <1>1, <1>2, <1>6 DEF Sound
  <1>10. db.pool # NoPool => Grew(db.pool, work'.pool)
    <2>1. HAVE db.pool # NoPool
    <2>2. db.pool \in Rows /\ work.pool \in Rows /\ work'.pool \in Rows
      BY <1>1, <1>2, <1>6, <2>1, SoundPool
    <2>3. Grew(db.pool, work.pool) /\ Grew(work.pool, work'.pool)
      BY <1>1, <1>2, <1>6, <2>1
    <2>4. QED
      BY <2>2, <2>3, GrewTransitive
  <1>11. RouterInv'
    <2>1. ~Idle'
      BY <1>1 DEF Idle
    <2>2. out' \in Nat /\ turn' \in Nat \ {0}
      BY <1>1, <1>2, <1>7
    <2>3. QED
      BY <1>1, <1>2, <1>3, <1>6, <1>10, <2>1, <2>2 DEF RouterInv
  <1>12. QED
    BY <1>1, <1>8, <1>9, <1>11 DEF V2Inv

LEMMA V2Commit ==
    ASSUME V2Inv, Commit
    PROVE  /\ V2Inv' /\ current' = current
           /\ db.pool # NoPool => Grew(db.pool, db'.pool)
  <1> DEFINE p == [work EXCEPT !.bal = Burn(work.bal, WDOGE, sender, out)]
  <1>1. /\ ~Idle /\ CanBurn(work.bal, WDOGE, sender, out) /\ db' = p
        /\ sender' = Nobody /\ tx' = <<>> /\ turn' = 1 /\ work' = db' /\ out' = 0
        /\ UNCHANGED chain
    BY DEF Commit, Return
  <1>2. /\ current \in Nat /\ Sound(work) /\ sender \in Traders /\ out \in Nat
        /\ db.pool # NoPool => Grew(db.pool, work.pool)
    BY <1>1 DEF V2Inv, PastInv, RouterInv, Idle
  <1>3. Sound(p) /\ p.pool = work.pool
    BY <1>1, <1>2, WdogeBurnSound
  <1> HIDE DEF p
  <1>4. V2Inv'
    BY <1>1, <1>3, IdleInv
  <1>5. QED
    BY <1>1, <1>2, <1>3, <1>4 DEF chain

LEMMA V2GiveUp ==
    ASSUME V2Inv, GiveUp
    PROVE  V2Inv' /\ db' = db /\ current' = current
  <1>1. /\ db' = db /\ sender' = Nobody /\ tx' = <<>> /\ turn' = 1 /\ work' = db' /\ out' = 0
        /\ UNCHANGED chain
    BY DEF GiveUp, Return
  <1>2. Sound(db)
    BY DEF V2Inv
  <1>3. V2Inv'
    BY <1>1, <1>2, IdleInv
  <1>4. QED
    BY <1>1, <1>3 DEF chain

LEMMA V2DogeTransfer ==
    ASSUME V2Inv, NEW u \in Traders, NEW a \in Addresses, NEW amt \in Gifts,
           DogeTransfer(u, a, amt)
    PROVE  V2Inv' /\ db'.pool = db.pool /\ current' = current
  <1> DEFINE p == [db EXCEPT !.bal = Move(db.bal, WDOGE, u, a, amt)]
  <1>1. /\ Idle /\ CanMove(db.bal, WDOGE, u, a, amt) /\ db' = p /\ work' = db'
        /\ UNCHANGED <<chain, sender, tx, turn, out>>
    BY DEF DogeTransfer
  <1>2. current \in Nat /\ Sound(db) /\ amt \in Nat
    BY SwapV2Assumption DEF V2Inv, PastInv
  <1>3. Sound(p) /\ p.pool = db.pool
    BY <1>1, <1>2, WdogeMoveSound
  <1> HIDE DEF p
  <1>4. V2Inv'
    BY <1>1, <1>3, AtRest
  <1>5. QED
    BY <1>1, <1>3, <1>4 DEF chain

LEMMA V2MemeTransfer ==
    ASSUME V2Inv, NEW t \in Memes, NEW u \in Traders, NEW a \in Addresses, NEW amt \in Gifts,
           MemeTransfer(t, u, a, amt)
    PROVE  V2Inv' /\ db'.pool = db.pool /\ current' = current
  <1> DEFINE p == Pay(db, t, u, a, amt)
  <1>1. /\ Idle /\ CanMove(db.bal, t, u, a, amt) /\ db' = p /\ work' = db'
        /\ UNCHANGED <<chain, sender, tx, turn, out>>
    BY DEF MemeTransfer
  <1>2. current \in Nat /\ Finished(dbAt, current) /\ Sound(db) /\ amt \in Nat
    BY SwapV2Assumption DEF V2Inv, PastInv
  <1>3. Sound(p) /\ p.pool = db.pool
    BY <1>1, <1>2, MemeMoveSound
  <1> HIDE DEF p
  <1>4. V2Inv'
    BY <1>1, <1>3, AtRest
  <1>5. QED
    BY <1>1, <1>3, <1>4 DEF chain

LEMMA V2Deploy ==
    ASSUME V2Inv, memeDeploy
    PROVE  V2Inv' /\ db'.pool = db.pool /\ current' = current
  <1> DEFINE p == Deployed(db)
  <1>1. /\ Idle /\ db.mined = NoRow /\ db' = p /\ work' = db'
        /\ UNCHANGED <<chain, sender, tx, turn, out>>
    BY DEF memeDeploy, Deployed
  <1>2. current \in Nat /\ Finished(dbAt, current) /\ Sound(db)
    BY DEF V2Inv, PastInv
  <1>3. Sound(p) /\ p.pool = db.pool
    BY <1>1, <1>2, DeploySound
  <1> HIDE DEF p
  <1>4. V2Inv'
    BY <1>1, <1>3, AtRest
  <1>5. QED
    BY <1>1, <1>3, <1>4 DEF chain

LEMMA V2FinishBlock ==
    ASSUME V2Inv, FinishBlock
    PROVE  V2Inv' /\ db' = db /\ current' >= current
  <1> DEFINE past == [h \in 0..current |-> IF h = current THEN db ELSE dbAt[h]]
             ends == [h \in 0..current |-> IF h = current THEN db.bal[WDOGE] ELSE wdogeAt[h]]
  <1>1. /\ Idle /\ db' = db /\ sender' = sender /\ tx' = tx /\ turn' = turn /\ work' = work
        /\ out' = out
        /\ wdogeAt' = ends /\ current' = current + 1 /\ dbAt' = past
    BY DEF FinishBlock, router, WdogeLedger!EndBlock
  <1>2. /\ current \in Nat /\ Finished(dbAt, current) /\ Sound(db) /\ work = db
        /\ wdogeAt \in [0..(current - 1) -> [Addresses -> Nat]]
        /\ \A h \in 0..(current - 1) : wdogeAt[h] = dbAt[h].bal[WDOGE]
    BY <1>1 DEF V2Inv, PastInv, RouterInv
  <1>3. Finished(past, current + 1) /\ Core(db, past, current + 1)
    BY <1>2, FinishCore
  <1>4. db.bal[WDOGE] \in [Addresses -> Nat]
    <2>1. db \in Tables
      BY <1>2 DEF Sound, Core, Booked
    <2>2. QED
      BY <2>1, TablesFacts, V2Names
  <1>5. /\ ends \in [0..current -> [Addresses -> Nat]]
        /\ \A h \in 0..current : ends[h] = past[h].bal[WDOGE]
        /\ (current + 1) - 1 = current
    BY <1>2, <1>4
  <1> HIDE DEF past, ends
  <1>6. PastInv'
    BY <1>1, <1>2, <1>3, <1>5 DEF PastInv
  <1>7. Sound(db)' /\ Sound(work)'
    BY <1>1, <1>2, <1>3 DEF Sound
  <1>8. RouterInv'
    BY <1>1 DEF V2Inv, RouterInv, Idle
  <1>9. QED
    BY <1>1, <1>2, <1>6, <1>7, <1>8 DEF V2Inv

LEMMA V2Fork ==
    ASSUME V2Inv, NEW h \in DOMAIN wdogeAt, forkBack(h)
    PROVE  V2Inv' /\ current' = h /\ h \in 0..(current - 1) /\ db' = Restored(h)
  <1> DEFINE past == [g \in 0..(h - 1) |-> dbAt[g]]
             ends == [g \in 0..(h - 1) |-> wdogeAt[g]]
  <1>1. /\ Idle /\ db' = Restored(h) /\ work' = db' /\ sender' = sender /\ tx' = tx
        /\ turn' = turn /\ out' = out
        /\ wdogeAt' = ends /\ current' = h /\ dbAt' = past
    BY DEF forkBack, Restored, WdogeLedger!Rollback
  <1>2. /\ current \in Nat /\ Finished(dbAt, current) /\ Sound(db)
        /\ wdogeAt \in [0..(current - 1) -> [Addresses -> Nat]]
        /\ \A g \in 0..(current - 1) : wdogeAt[g] = dbAt[g].bal[WDOGE]
    BY DEF V2Inv, PastInv
  <1>3. h \in 0..(current - 1) /\ h \in Nat
    BY <1>2
  <1>4. Finished(past, h) /\ Core(Restored(h), past, h) /\ RowTrue(Restored(h))
    BY <1>2, <1>3, RestoredSound
  <1>5. /\ ends \in [0..(h - 1) -> [Addresses -> Nat]]
        /\ \A g \in 0..(h - 1) : ends[g] = past[g].bal[WDOGE]
    BY <1>2, <1>3
  <1> HIDE DEF past, ends
  <1>6. PastInv'
    BY <1>1, <1>3, <1>4, <1>5 DEF PastInv
  <1>7. Sound(db)' /\ Sound(work)'
    BY <1>1, <1>4 DEF Sound
  <1>8. RouterInv'
    <2>1. db'.pool # NoPool => Grew(db'.pool, work'.pool)
      <3>1. SUFFICES ASSUME db'.pool # NoPool PROVE Grew(db'.pool, db'.pool)
        BY <1>1
      <3>2. Restored(h) \in Tables
        BY <1>4 DEF Core, Booked
      <3>3. db'.pool \in Rows
        BY <1>1, <3>1, <3>2, TablesFacts
      <3>4. QED
        BY <3>3, GrewItself
    <2>2. QED
      BY <1>1, <2>1 DEF V2Inv, RouterInv
  <1>9. QED
    BY <1>1, <1>3, <1>6, <1>7, <1>8 DEF V2Inv

\* What a step does to the pool: it moves on, or a fork puts the past in its place.
MovesOn ==
    \/ /\ current' >= current
       /\ db.pool # NoPool /\ db'.pool # NoPool => Grew(db.pool, db'.pool)
    \/ /\ current' \in 0..(current - 1) /\ db' = Restored(current')

LEMMA V2Step ==
    ASSUME V2Inv, [SwapV2Next]_poolVars
    PROVE  V2Inv' /\ MovesOn
  <1>1. current \in Nat /\ Sound(db)
    BY DEF V2Inv, PastInv
  <1>2. db.pool # NoPool => Grew(db.pool, db.pool)
    BY <1>1, SoundPool
  <1>3. ASSUME NEW u \in Traders, NEW t \in Txs, Begin(u, t) PROVE V2Inv' /\ MovesOn
    BY <1>1, <1>2, <1>3, V2Begin DEF MovesOn
  <1>4. CASE Fresh /\ Inscribe
    BY <1>1, <1>2, <1>4, V2Inscribe DEF MovesOn
  <1>5. CASE Commit
    BY <1>1, <1>5, V2Commit DEF MovesOn
  <1>6. CASE GiveUp
    BY <1>1, <1>2, <1>6, V2GiveUp DEF MovesOn
  <1>7. ASSUME NEW u \in Traders, NEW a \in Addresses, NEW amt \in Gifts,
               DogeTransfer(u, a, amt)
        PROVE  V2Inv' /\ MovesOn
    BY <1>1, <1>2, <1>7, V2DogeTransfer DEF MovesOn
  <1>8. ASSUME NEW u \in Traders, NEW a \in Addresses, NEW amt \in Gifts, NEW t \in Memes,
               MemeTransfer(t, u, a, amt)
        PROVE  V2Inv' /\ MovesOn
    BY <1>1, <1>2, <1>8, V2MemeTransfer DEF MovesOn
  <1>9. CASE memeDeploy
    BY <1>1, <1>2, <1>9, V2Deploy DEF MovesOn
  <1>10. CASE FinishBlock
    BY <1>1, <1>2, <1>10, V2FinishBlock DEF MovesOn
  <1>11. ASSUME NEW h \in DOMAIN wdogeAt, forkBack(h) PROVE V2Inv' /\ MovesOn
    BY <1>11, V2Fork DEF MovesOn
  <1>12. CASE UNCHANGED poolVars
    <2>1. /\ db' = db /\ wdogeAt' = wdogeAt /\ current' = current /\ dbAt' = dbAt
          /\ sender' = sender /\ tx' = tx /\ turn' = turn /\ work' = work /\ out' = out
      BY <1>12 DEF poolVars, chain, router
    <2>2. PastInv' /\ RouterInv'
      BY <2>1 DEF V2Inv, PastInv, RouterInv, Idle
    <2>3. Sound(db)' /\ Sound(work)'
      BY <2>1 DEF V2Inv, Sound
    <2>4. MovesOn
      BY <1>1, <1>2, <2>1 DEF MovesOn
    <2>5. QED
      BY <2>2, <2>3, <2>4 DEF V2Inv
  <1>13. QED
    BY <1>3, <1>4, <1>5, <1>6, <1>7, <1>8, <1>9, <1>10, <1>11, <1>12 DEF SwapV2Next

\* The invariant: the journal leads from the memes of the tables, and of the
\* transaction's copy of them, back through the memes of every finished block,
\* and the row of the pool is true of its token and its reserves.
THEOREM PoolInvariant == SwapV2Spec => []V2Inv
  <1>1. SwapV2Init => V2Inv
    BY V2InvInit
  <1>2. V2Inv /\ [SwapV2Next]_poolVars => V2Inv'
    BY V2Step
  <1>3. QED
    BY <1>1, <1>2, PTL DEF SwapV2Spec

\* The pool's row, its token and the two ledgers agree through adds, removes,
\* transfers of liquidity, crashes and forks (SwapV2Remove, meme20Fork, swapV2Fork).
THEOREM PoolTokensAgree == SwapV2Spec => []TokensAgree
  <1>1. V2Inv => TokensAgree
    <2>1. HAVE V2Inv
    <2>2. Booked(db, current) /\ RowTrue(db) /\ current \in Nat
      BY <2>1 DEF V2Inv, Sound, Core, PastInv
    <2>3. (db.pool = NoPool <=> db.max = NoRow)
      BY <2>2, RowMeansPool
    <2>4. /\ SumFunction(db.bal[DEPLOYED]) = (IF db.rows = 0 THEN 0 ELSE NewMax)
          /\ db.max = NoRow => SumFunction(db.bal[LP]) = 0
          /\ db.max # NoRow => db.max = SumFunction(db.bal[LP])
      BY <2>2 DEF Booked
    <2>5. db.pool # NoPool =>
             db.pool.total = db.max /\ \A t \in Pair : db.pool.amt[t] <= db.bal[t][Pool]
      BY <2>2 DEF RowTrue
    <2>6. QED
      BY <2>3, <2>4, <2>5 DEF TokensAgree, Held
  <1>2. QED
    BY <1>1, PoolInvariant, PTL

\* No operation makes a unit of liquidity worth less (SwapV2Add, SwapV2Remove,
\* SwapV2Exec), whatever the order in which they come, short of a fork.
THEOREM PoolSharesKeepValue == SwapV2Spec => ShareValueNeverFalls
  <1>1. V2Inv /\ [SwapV2Next]_poolVars
          => [db.pool # NoPool /\ db'.pool # NoPool /\ current' >= current =>
                WorthNoMore(db.pool, db'.pool)]_poolVars
    <2>1. SUFFICES ASSUME V2Inv, [SwapV2Next]_poolVars, db.pool # NoPool, db'.pool # NoPool,
                          current' >= current
                   PROVE  WorthNoMore(db.pool, db'.pool)
      OBVIOUS
    <2>2. MovesOn /\ current \in Nat
      BY <2>1, V2Step DEF V2Inv, PastInv
    <2>3. ~(current' \in 0..(current - 1))
      BY <2>1, <2>2
    <2>4. Grew(db.pool, db'.pool)
      BY <2>1, <2>2, <2>3 DEF MovesOn
    <2>5. QED
      BY <2>4 DEF Grew
  <1>2. QED
    BY <1>1, PoolInvariant, PTL DEF SwapV2Spec, ShareValueNeverFalls

\* A fork to any finished block can be carried out: no undo of meme20Fork is
\* refused for a missing row or a balance too small.
THEOREM MemeForkIsAccepted == SwapV2Spec => []MemeForkNeverRefused
  <1>1. V2Inv => MemeForkNeverRefused
    <2>1. SUFFICES ASSUME V2Inv, NEW h \in DOMAIN wdogeAt
                   PROVE  meme20Fork(Forking(h), h) # Stuck
      BY DEF MemeForkNeverRefused
    <2>2. /\ current \in Nat /\ Finished(dbAt, current) /\ Sound(db)
          /\ h \in 0..(current - 1) /\ wdogeAt[h] = dbAt[h].bal[WDOGE]
      BY <2>1 DEF V2Inv, PastInv
    <2>3. PICK tr : Leads(tr, db)
      BY <2>2 DEF Sound, Core, Explained
    <2>4. QED
      BY <2>2, <2>3, UndoneToCut
  <1>2. QED
    BY <1>1, PoolInvariant, PTL

\* A fork gives back the memes, the liquidity token, the pool's row, the journal
\* and the executed swaps of the block returned to (meme20Fork, swapV2Fork,
\* delInfo, delRevert).
THEOREM PoolForksRestore == SwapV2Spec => ForkRestores
  <1>1. ASSUME V2Inv, [SwapV2Next]_poolVars, current' < current
        PROVE  LET was == dbAt[current'] IN
               /\ [db' EXCEPT !.pool = was.pool, !.rows = was.rows,
                              !.bal[DEPLOYED] = was.bal[DEPLOYED]] = was
               /\ db'.bal[DEPLOYED] = IF was.rows = 0 /\ db.rows > 0 THEN Whole
                                      ELSE was.bal[DEPLOYED]
               /\ (db'.pool = NoPool) = (was.pool = NoPool)
               /\ was.pool # NoPool /\ Refresh(was) = was => db'.pool = was.pool
    <2> DEFINE h == current'
               was == dbAt[h]
               d == Restored(h)
    <2>1. /\ current \in Nat /\ Finished(dbAt, current) /\ Sound(db) /\ Sound(db)'
          /\ \A g \in 0..(current - 1) : wdogeAt[g] = dbAt[g].bal[WDOGE]
          /\ MovesOn
          /\ V2Inv'
      BY <1>1, V2Step DEF V2Inv, PastInv
    <2>2. h \in 0..(current - 1) /\ db' = d
      <3>1. current' \in Nat
        BY <2>1 DEF V2Inv, PastInv
      <3>2. ~(current' >= current)
        BY <1>1, <2>1, <3>1
      <3>3. QED
        BY <2>1, <3>2 DEF MovesOn
    <2> HIDE DEF h
    <2>3. was \in Tables
      BY <2>1, <2>2 DEF Finished
    <2>4. /\ d \in Tables
          /\ d.bal[WDOGE] = was.bal[WDOGE] /\ d.bal[MEME] = was.bal[MEME]
          /\ d.bal[LP] = was.bal[LP] /\ d.max = was.max
          /\ d.bal[DEPLOYED] = (IF was.rows = 0 /\ db.rows > 0 THEN Whole ELSE was.bal[DEPLOYED])
          /\ d.rows = db.rows /\ d.mined = was.mined /\ d.creates = was.creates
          /\ d.journal = was.journal /\ d.swapped = was.swapped
          /\ d.pool = NoPool <=> was.pool = NoPool
          /\ d.pool # NoPool =>
                d.pool = [amt |-> [t \in Pair |-> was.bal[t][Pool]], total |-> was.max]
      BY <2>1, <2>2, RestoredFacts
    <2> HIDE DEF was, d
    <2>5. [d EXCEPT !.pool = was.pool, !.rows = was.rows, !.bal[DEPLOYED] = was.bal[DEPLOYED]] = was
      <3> DEFINE c == [d.bal EXCEPT ![DEPLOYED] = was.bal[DEPLOYED]]
      <3>1. d.bal \in [Ticks -> [Addresses -> Nat]] /\ was.bal \in [Ticks -> [Addresses -> Nat]]
        BY <2>3, <2>4, TablesFacts
      <3>2. c \in [Ticks -> [Addresses -> Nat]] /\ \A t \in Ticks : c[t] = was.bal[t]
        BY <2>4, <3>1, V2Names DEF Memes
      <3>3. c = was.bal
        <4> HIDE DEF c
        <4>1. QED
          BY <3>1, <3>2
      <3>4. [d EXCEPT !.pool = was.pool, !.rows = was.rows, !.bal[DEPLOYED] = was.bal[DEPLOYED]]
              = [d EXCEPT !.pool = was.pool, !.rows = was.rows, !.bal = c]
        BY <2>4 DEF Tables
      <3>5. [d EXCEPT !.pool = was.pool, !.rows = was.rows, !.bal = was.bal] = was
        BY <2>3, <2>4 DEF Tables
      <3>6. QED
        BY <3>3, <3>4, <3>5
    <2>6. was.pool # NoPool /\ Refresh(was) = was => d.pool = was.pool
      <3>1. Refresh(was) = was =>
               was.pool = [amt |-> [t \in Pair |-> was.bal[t][Pool]], total |-> was.max]
        BY <2>3 DEF Refresh, Tables
      <3>2. QED
        BY <2>4, <3>1
    <2>7. QED
      BY <2>2, <2>4, <2>5, <2>6 DEF was, h
  <1>2. V2Inv /\ [SwapV2Next]_poolVars
          => [current' < current =>
               LET was == dbAt[current'] IN
               /\ [db' EXCEPT !.pool = was.pool, !.rows = was.rows,
                              !.bal[DEPLOYED] = was.bal[DEPLOYED]] = was
               /\ db'.bal[DEPLOYED] = IF was.rows = 0 /\ db.rows > 0 THEN Whole
                                      ELSE was.bal[DEPLOYED]
               /\ (db'.pool = NoPool) = (was.pool = NoPool)
               /\ was.pool # NoPool /\ Refresh(was) = was => db'.pool = was.pool]_poolVars
    BY <1>1
  <1>3. QED
    BY <1>2, PoolInvariant, PTL DEF SwapV2Spec, ForkRestores
=============================================================================
