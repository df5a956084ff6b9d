--------------------------- MODULE ChainScanProofs ---------------------------
(***************************************************************************)
(* Machine-checked proofs about ChainScan, for every tree of blocks, every *)
(* behaviour of the node and any number of faults; and, at the end, about  *)
(* Decode, which says what becomes of one transaction of a scanned block,  *)
(* and about Deploys, which says what a fork gives back of the tokens.     *)
(***************************************************************************)
EXTENDS ChainScan, Decode, Deploys, DataLemmas, TLAPS

-----------------------------------------------------------------------------
(* The recursive definitions: what they are for the empty sequence and for *)
(* one element more.                                                       *)

ReplayStep(done, tx) == IF Valid(tx, done) THEN Append(done, tx) ELSE done

ReplaySteps(s) == [p \in Seq(Txs) \X (1..Len(s)) |-> ReplayStep(p[1], s[p[2]])]

LEMMA ReplayStepType ==
    ASSUME NEW d \in Seq(Txs), NEW t \in Txs
    PROVE  ReplayStep(d, t) \in Seq(Txs)
  BY AppendProperties DEF ReplayStep

LEMMA ReplayTable ==
    ASSUME NEW s \in Seq(Txs)
    PROVE  \E f : /\ Recursive(f, Seq(Txs), <<>>, ReplaySteps(s), Len(s))
                  /\ Replay(s) = f[Len(s)]
  <1> DEFINE N == Len(s)
             X == Seq(Txs)
             st == ReplaySteps(s)
             d == CHOOSE d : d = [n \in 0..N |->
                    IF n = 0 THEN <<>>
                    ELSE IF Valid(s[n], d[n - 1]) THEN Append(d[n - 1], s[n])
                    ELSE d[n - 1]]
  <1>1. N \in Nat /\ <<>> \in X
    OBVIOUS
  <1>2. Replay(s) = d[N]
    BY DEF Replay
  <1> HIDE DEF N, X
  <1>3. \A x \in X, n \in 1..N : st[<<x, n>>] = ReplayStep(x, s[n])
    BY DEF ReplaySteps, X, N
  <1> HIDE DEF st
  <1>4. StepsWithin(st, X, N)
    <2>1. ASSUME NEW x \in X, NEW n \in 1..N PROVE st[<<x, n>>] \in X
      <3>1. s[n] \in Txs
        BY ElementOfSeq DEF N
      <3>2. QED
        BY <1>3, <3>1, ReplayStepType DEF X
    <2>2. QED
      BY <2>1 DEF StepsWithin
  <1>5. PICK f : Recursive(f, X, <<>>, st, N)
    BY <1>1, <1>4, RecursionTo
  <1>6. /\ f \in [0..N -> X] /\ f[0] = <<>>
        /\ \A n \in 1..N : f[n] = ReplayStep(f[n - 1], s[n])
    BY <1>3, <1>5 DEF Recursive
  <1>7. f = [n \in 0..N |-> IF n = 0 THEN <<>>
                            ELSE IF Valid(s[n], f[n - 1]) THEN Append(f[n - 1], s[n])
                            ELSE f[n - 1]]
    <2>1. ASSUME NEW n \in 0..N
          PROVE  f[n] = IF n = 0 THEN <<>>
                        ELSE IF Valid(s[n], f[n - 1]) THEN Append(f[n - 1], s[n])
                        ELSE f[n - 1]
      <3>1. CASE n = 0
        BY <1>6, <3>1
      <3>2. CASE n # 0
        <4>1. n \in 1..N
          BY <1>1, <3>2
        <4>2. QED
          BY <1>6, <3>2, <4>1 DEF ReplayStep
      <3>3. QED
        BY <3>1, <3>2
    <2>2. QED
      BY <1>6, <2>1
  <1>8. d = [n \in 0..N |-> IF n = 0 THEN <<>>
                            ELSE IF Valid(s[n], d[n - 1]) THEN Append(d[n - 1], s[n])
                            ELSE d[n - 1]]
    BY <1>7
  <1> HIDE DEF d
  <1>9. Obeys(d, X, <<>>, st, N)
    <2>1. d[0] = <<>>
      BY <1>1, <1>8
    <2>2. ASSUME NEW n \in 1..N, d[n - 1] \in X PROVE d[n] = st[<<d[n - 1], n>>]
      <3>1. n \in 0..N /\ n # 0
        BY <1>1
      <3>2. QED
        BY <1>3, <1>8, <2>2, <3>1 DEF ReplayStep
    <2>3. QED
      BY <2>1, <2>2 DEF Obeys
  <1>10. Alike(f, d, N)
    BY <1>1, <1>5, <1>9, RecursionUnique
  <1>11. d[N] = f[N]
    BY <1>1, <1>10 DEF Alike
  <1>12. QED
    BY <1>2, <1>5, <1>11 DEF X, N, st

LEMMA ReplayEmpty == Replay(<<>>) = <<>>
  <1>1. <<>> \in Seq(Txs) /\ Len(<<>>) = 0
    OBVIOUS
  <1>2. PICK f : /\ Recursive(f, Seq(Txs), <<>>, ReplaySteps(<<>>), Len(<<>>))
                 /\ Replay(<<>>) = f[Len(<<>>)]
    BY <1>1, ReplayTable
  <1>3. QED
    BY <1>1, <1>2 DEF Recursive

LEMMA ReplayAppend ==
    ASSUME NEW s \in Seq(Txs), NEW t \in Txs
    PROVE  /\ Replay(s) \in Seq(Txs)
           /\ Replay(Append(s, t)) = ReplayStep(Replay(s), t)
  <1> DEFINE u == Append(s, t)
             X == Seq(Txs)
             N == Len(s)
             st == ReplaySteps(s)
             st2 == ReplaySteps(u)
  <1>1. /\ u \in X /\ Len(u) = N + 1 /\ N \in Nat
        /\ \A i \in 1..N : u[i] = s[i]
        /\ u[N + 1] = t
    BY AppendProperties, LenProperties
  <1> HIDE DEF u
  <1>2. PICK f : Recursive(f, X, <<>>, st, N) /\ Replay(s) = f[N]
    BY ReplayTable
  <1>3. PICK g : Recursive(g, X, <<>>, st2, N + 1) /\ Replay(u) = g[N + 1]
    BY <1>1, ReplayTable
  <1> HIDE DEF X, N
  <1>4. SameSteps(st, st2, X, N)
    BY <1>1 DEF SameSteps, ReplaySteps, X, N
  <1>5. \A x \in X : st2[<<x, N + 1>>] = ReplayStep(x, t)
    BY <1>1 DEF ReplaySteps, X
  <1> HIDE DEF st, st2
  <1>6. f[N] \in X /\ g[N + 1] = st2[<<f[N], N + 1>>]
    BY <1>1, <1>2, <1>3, <1>4, RecursionLonger
  <1>7. QED
    BY <1>2, <1>3, <1>5, <1>6 DEF u, X

KeptStep(kept, entry, h, gone) ==
    IF entry.height <= h /\ entry.tx \notin gone THEN Append(kept, entry) ELSE kept

KeptSteps(s, h, gone) ==
    [p \in Seq(Entries) \X (1..Len(s)) |-> KeptStep(p[1], s[p[2]], h, gone)]

LEMMA KeptStepType ==
    ASSUME NEW d \in Seq(Entries), NEW e \in Entries, NEW h, NEW gone
    PROVE  KeptStep(d, e, h, gone) \in Seq(Entries)
  BY AppendProperties DEF KeptStep

LEMMA KeptTable ==
    ASSUME NEW s \in Seq(Entries), NEW h, NEW gone
    PROVE  \E f : /\ Recursive(f, Seq(Entries), <<>>, KeptSteps(s, h, gone), Len(s))
                  /\ EntriesKept(s, h, gone) = f[Len(s)]
  <1> DEFINE N == Len(s)
             X == Seq(Entries)
             st == KeptSteps(s, h, gone)
             d == CHOOSE d : d = [n \in 0..N |->
                    IF n = 0 THEN <<>>
                    ELSE IF s[n].height <= h /\ s[n].tx \notin gone
                    THEN Append(d[n - 1], s[n])
                    ELSE d[n - 1]]
  <1>1. N \in Nat /\ <<>> \in X
    OBVIOUS
  <1>2. EntriesKept(s, h, gone) = d[N]
    BY DEF EntriesKept
  <1> HIDE DEF N, X
  <1>3. \A x \in X, n \in 1..N : st[<<x, n>>] = KeptStep(x, s[n], h, gone)
    BY DEF KeptSteps, X, N
  <1> HIDE DEF st
  <1>4. StepsWithin(st, X, N)
    <2>1. ASSUME NEW x \in X, NEW n \in 1..N PROVE st[<<x, n>>] \in X
      <3>1. s[n] \in Entries
        BY ElementOfSeq DEF N
      <3>2. QED
        BY <1>3, <3>1, KeptStepType DEF X
    <2>2. QED
      BY <2>1 DEF StepsWithin
  <1>5. PICK f : Recursive(f, X, <<>>, st, N)
    BY <1>1, <1>4, RecursionTo
  <1>6. /\ f \in [0..N -> X] /\ f[0] = <<>>
        /\ \A n \in 1..N : f[n] = KeptStep(f[n - 1], s[n], h, gone)
    BY <1>3, <1>5 DEF Recursive
  <1>7. f = [n \in 0..N |-> IF n = 0 THEN <<>>
                            ELSE IF s[n].height <= h /\ s[n].tx \notin gone
                            THEN Append(f[n - 1], s[n])
                            ELSE f[n - 1]]
    <2>1. ASSUME NEW n \in 0..N
          PROVE  f[n] = IF n = 0 THEN <<>>
                        ELSE IF s[n].height <= h /\ s[n].tx \notin gone
                        THEN Append(f[n - 1], s[n])
                        ELSE f[n - 1]
      <3>1. CASE n = 0
        BY <1>6, <3>1
      <3>2. CASE n # 0
        <4>1. n \in 1..N
          BY <1>1, <3>2
        <4>2. QED
          BY <1>6, <3>2, <4>1 DEF KeptStep
      <3>3. QED
        BY <3>1, <3>2
    <2>2. QED
      BY <1>6, <2>1
  <1>8. d = [n \in 0..N |-> IF n = 0 THEN <<>>
                            ELSE IF s[n].height <= h /\ s[n].tx \notin gone
                            THEN Append(d[n - 1], s[n])
                            ELSE d[n - 1]]
    BY <1>7
  <1> HIDE DEF d
  <1>9. Obeys(d, X, <<>>, st, N)
    <2>1. d[0] = <<>>
      BY <1>1, <1>8
    <2>2. ASSUME NEW n \in 1..N, d[n - 1] \in X PROVE d[n] = st[<<d[n - 1], n>>]
      <3>1. n \in 0..N /\ n # 0
        BY <1>1
      <3>2. QED
        BY <1>3, <1>8, <2>2, <3>1 DEF KeptStep
    <2>3. QED
      BY <2>1, <2>2 DEF Obeys
  <1>10. Alike(f, d, N)
    BY <1>1, <1>5, <1>9, RecursionUnique
  <1>11. d[N] = f[N]
    BY <1>1, <1>10 DEF Alike
  <1>12. QED
    BY <1>2, <1>5, <1>11 DEF X, N, st

LEMMA KeptEmpty == ASSUME NEW h, NEW gone PROVE EntriesKept(<<>>, h, gone) = <<>>
  <1>1. <<>> \in Seq(Entries) /\ Len(<<>>) = 0
    OBVIOUS
  <1>2. PICK f : /\ Recursive(f, Seq(Entries), <<>>, KeptSteps(<<>>, h, gone), Len(<<>>))
                 /\ EntriesKept(<<>>, h, gone) = f[Len(<<>>)]
    BY <1>1, KeptTable
  <1>3. QED
    BY <1>1, <1>2 DEF Recursive

LEMMA KeptAppend ==
    ASSUME NEW s \in Seq(Entries), NEW t \in Entries, NEW h, NEW gone
    PROVE  /\ EntriesKept(s, h, gone) \in Seq(Entries)
           /\ EntriesKept(Append(s, t), h, gone) = KeptStep(EntriesKept(s, h, gone), t, h, gone)
  <1> DEFINE u == Append(s, t)
             X == Seq(Entries)
             N == Len(s)
             st == KeptSteps(s, h, gone)
             st2 == KeptSteps(u, h, gone)
  <1>1. /\ u \in X /\ Len(u) = N + 1 /\ N \in Nat
        /\ \A i \in 1..N : u[i] = s[i]
        /\ u[N + 1] = t
    BY AppendProperties, LenProperties
  <1> HIDE DEF u
  <1>2. PICK f : Recursive(f, X, <<>>, st, N) /\ EntriesKept(s, h, gone) = f[N]
    BY KeptTable
  <1>3. PICK g : Recursive(g, X, <<>>, st2, N + 1) /\ EntriesKept(u, h, gone) = g[N + 1]
    BY <1>1, KeptTable
  <1> HIDE DEF X, N
  <1>4. SameSteps(st, st2, X, N)
    BY <1>1 DEF SameSteps, KeptSteps, X, N
  <1>5. \A x \in X : st2[<<x, N + 1>>] = KeptStep(x, t, h, gone)
    BY <1>1 DEF KeptSteps, X
  <1> HIDE DEF st, st2
  <1>6. f[N] \in X /\ g[N + 1] = st2[<<f[N], N + 1>>]
    <2>1. N \in Nat /\ Recursive(f, X, <<>>, st, N) /\ Recursive(g, X, <<>>, st2, N + 1)
      BY <1>1, <1>2, <1>3
    <2>2. QED
      BY <2>1, <1>4, RecursionLonger
  <1>7. EntriesKept(s, h, gone) \in X
    BY <1>2, <1>6
  <1>8. EntriesKept(u, h, gone) = KeptStep(EntriesKept(s, h, gone), t, h, gone)
    BY <1>2, <1>3, <1>5, <1>6
  <1>9. QED
    BY <1>7, <1>8 DEF u, X

\* The same for EntriesUpTo, which leaves out no inscription.
KeepStep(kept, entry, h) == IF entry.height <= h THEN Append(kept, entry) ELSE kept

LEMMA KeepEmpty == ASSUME NEW h PROVE EntriesUpTo(<<>>, h) = <<>>
  BY KeptEmpty DEF EntriesUpTo

LEMMA KeepAppend ==
    ASSUME NEW s \in Seq(Entries), NEW t \in Entries, NEW h
    PROVE  /\ EntriesUpTo(s, h) \in Seq(Entries)
           /\ EntriesUpTo(Append(s, t), h) = KeepStep(EntriesUpTo(s, h), t, h)
  <1>1. /\ EntriesKept(s, h, {}) \in Seq(Entries)
        /\ EntriesKept(Append(s, t), h, {}) = KeptStep(EntriesKept(s, h, {}), t, h, {})
    BY KeptAppend
  <1>2. QED
    BY <1>1 DEF EntriesUpTo, KeptStep, KeepStep

Rows(rows) == \A h \in DOMAIN rows : rows[h] \in Blocks \cup {NoBlock}

LEMMA TxsAtType ==
    ASSUME NEW rows, Rows(rows), NEW h
    PROVE  TxsAt(rows, h) \in Seq(Txs)
  <1>1. CASE h \in DOMAIN rows /\ rows[h] # NoBlock
    BY <1>1, ScanAssumption DEF TxsAt, Rows
  <1>2. CASE ~(h \in DOMAIN rows /\ rows[h] # NoBlock)
    BY <1>2, EmptySeq DEF TxsAt
  <1>3. QED
    BY <1>1, <1>2

ThroughSteps(rows, n) ==
    [p \in Seq(Txs) \X (1..n) |-> p[1] \o TxsAt(rows, p[2])]

LEMMA ThroughTable ==
    ASSUME NEW rows, Rows(rows), NEW N \in Nat
    PROVE  \E f : /\ Recursive(f, Seq(Txs), <<>>, ThroughSteps(rows, N), N)
                  /\ TxsThrough(rows, N) = f[N]
  <1> DEFINE X == Seq(Txs)
             st == ThroughSteps(rows, N)
             d == CHOOSE d : d = [h \in 0..N |->
                    IF h = 0 THEN <<>> ELSE d[h - 1] \o TxsAt(rows, h)]
  <1>1. <<>> \in X
    BY EmptySeq
  <1>2. TxsThrough(rows, N) = d[N]
    BY DEF TxsThrough
  <1> HIDE DEF X
  <1>3. \A x \in X, n \in 1..N : st[<<x, n>>] = x \o TxsAt(rows, n)
    BY DEF ThroughSteps, X
  <1> HIDE DEF st
  <1>4. StepsWithin(st, X, N)
    <2>1. ASSUME NEW x \in X, NEW n \in 1..N PROVE st[<<x, n>>] \in X
      <3>1. TxsAt(rows, n) \in X
        BY TxsAtType DEF X
      <3>2. x \o TxsAt(rows, n) \in X
        BY <3>1, ConcatProperties DEF X
      <3>3. QED
        BY <1>3, <3>2
    <2>2. QED
      BY <2>1 DEF StepsWithin
  <1>5. PICK f : Recursive(f, X, <<>>, st, N)
    BY <1>1, <1>4, RecursionTo
  <1>6. /\ f \in [0..N -> X] /\ f[0] = <<>>
        /\ \A n \in 1..N : f[n] = f[n - 1] \o TxsAt(rows, n)
    BY <1>3, <1>5 DEF Recursive
  <1>7. f = [h \in 0..N |-> IF h = 0 THEN <<>> ELSE f[h - 1] \o TxsAt(rows, h)]
    <2>1. ASSUME NEW n \in 0..N
          PROVE  f[n] = IF n = 0 THEN <<>> ELSE f[n - 1] \o TxsAt(rows, n)
      <3>1. CASE n = 0
        BY <1>6, <3>1
      <3>2. CASE n # 0
        <4>1. n \in 1..N
          BY <3>2
        <4>2. QED
          BY <1>6, <3>2, <4>1
      <3>3. QED
        BY <3>1, <3>2
    <2>2. QED
      BY <1>6, <2>1
  <1>8. d = [h \in 0..N |-> IF h = 0 THEN <<>> ELSE d[h - 1] \o TxsAt(rows, h)]
    BY <1>7
  <1> HIDE DEF d
  <1>9. Obeys(d, X, <<>>, st, N)
    <2>1. d[0] = <<>>
      BY <1>8
    <2>2. ASSUME NEW n \in 1..N, d[n - 1] \in X PROVE d[n] = st[<<d[n - 1], n>>]
      <3>1. n \in 0..N /\ n # 0
        OBVIOUS
      <3>2. QED
        BY <1>3, <1>8, <2>2, <3>1
    <2>3. QED
      BY <2>1, <2>2 DEF Obeys
  <1>10. Alike(f, d, N)
    BY <1>5, <1>9, RecursionUnique
  <1>11. d[N] = f[N]
    BY <1>10 DEF Alike
  <1>12. QED
    BY <1>2, <1>5, <1>11 DEF X, st

LEMMA ThroughNone ==
    ASSUME NEW rows, Rows(rows), NEW n \in Int, n <= 0
    PROVE  TxsThrough(rows, n) = <<>>
  <1>1. CASE n < 0
    BY <1>1 DEF TxsThrough
  <1>2. CASE n = 0
    <2>1. PICK f : /\ Recursive(f, Seq(Txs), <<>>, ThroughSteps(rows, 0), 0)
                   /\ TxsThrough(rows, 0) = f[0]
      BY ThroughTable
    <2>2. QED
      BY <1>2, <2>1 DEF Recursive
  <1>3. QED
    BY <1>1, <1>2

LEMMA ThroughNext ==
    ASSUME NEW rows, Rows(rows), NEW n \in Nat
    PROVE  /\ TxsThrough(rows, n) \in Seq(Txs)
           /\ TxsThrough(rows, n + 1) = TxsThrough(rows, n) \o TxsAt(rows, n + 1)
  <1> DEFINE X == Seq(Txs)
             N == n
             M == n + 1
             st == ThroughSteps(rows, N)
             st2 == ThroughSteps(rows, M)
  <1>0. N \in Nat /\ M \in 1..M /\ M = N + 1 /\ M \in Nat /\ \A i \in 1..N : i \in 1..M
    OBVIOUS
  <1> HIDE DEF N, M
  <1>1. PICK f : Recursive(f, X, <<>>, st, N) /\ TxsThrough(rows, N) = f[N]
    BY <1>0, ThroughTable
  <1>2. PICK g : Recursive(g, X, <<>>, st2, M) /\ TxsThrough(rows, M) = g[M]
    BY <1>0, ThroughTable
  <1> HIDE DEF X
  <1>3. SameSteps(st, st2, X, N)
    BY <1>0 DEF SameSteps, ThroughSteps, X
  <1>4. \A x \in X : st2[<<x, M>>] = x \o TxsAt(rows, M)
    BY <1>0 DEF ThroughSteps, X
  <1> HIDE DEF st, st2
  <1>5. f[N] \in X /\ g[M] = st2[<<f[N], M>>]
    <2>1. N \in Nat /\ M = N + 1
      BY <1>0
    <2>2. Recursive(f, X, <<>>, st, N)
      BY <1>1
    <2>3. Recursive(g, X, <<>>, st2, M)
      BY <1>2
    <2>4. QED
      BY ONLY <1>3, <2>1, <2>2, <2>3, RecursionLonger
  <1>6. QED
    BY <1>1, <1>2, <1>4, <1>5 DEF X, N, M

LEMMA ThroughType ==
    ASSUME NEW rows, Rows(rows), NEW n \in Int
    PROVE  TxsThrough(rows, n) \in Seq(Txs)
  <1>1. CASE n <= 0
    BY <1>1, ThroughNone, EmptySeq
  <1>2. CASE n > 0
    BY <1>2, ThroughNext
  <1>3. QED
    BY <1>1, <1>2

\* Only the rows up to n matter.
SameRows(rows, rows2, n) == \A h \in 1..n : TxsAt(rows, h) = TxsAt(rows2, h)

LEMMA ThroughSame ==
    ASSUME NEW rows, NEW rows2, Rows(rows), Rows(rows2), NEW n \in Int,
           SameRows(rows, rows2, n)
    PROVE  TxsThrough(rows, n) = TxsThrough(rows2, n)
  <1> DEFINE P == {i \in Nat : i <= n => TxsThrough(rows, i) = TxsThrough(rows2, i)}
  <1>1. 0 \in P
    BY ThroughNone
  <1>2. ASSUME NEW i \in P PROVE i + 1 \in P
    <2>1. SUFFICES ASSUME i + 1 <= n
                   PROVE  TxsThrough(rows, i + 1) = TxsThrough(rows2, i + 1)
      OBVIOUS
    <2>2. i \in Nat /\ i + 1 \in 1..n /\ TxsThrough(rows, i) = TxsThrough(rows2, i)
      BY <2>1
    <2>3. TxsAt(rows, i + 1) = TxsAt(rows2, i + 1)
      BY <2>2 DEF SameRows
    <2>4. /\ TxsThrough(rows, i + 1) = TxsThrough(rows, i) \o TxsAt(rows, i + 1)
          /\ TxsThrough(rows2, i + 1) = TxsThrough(rows2, i) \o TxsAt(rows2, i + 1)
      BY <2>2, ThroughNext
    <2>5. QED
      BY <2>2, <2>3, <2>4
  <1>3. P = Nat
    <2> HIDE DEF P
    <2>1. P \in SUBSET Nat
      BY DEF P
    <2>2. QED
      BY <1>1, <1>2, <2>1, NaturalInduction
  <1>4. CASE n < 0
    BY <1>4, ThroughNone
  <1>5. CASE n >= 0
    BY <1>3, <1>5
  <1>6. QED
    BY <1>4, <1>5

LEMMA ThroughEmpty ==
    ASSUME NEW rows, Rows(rows), NEW n \in Int, \A h \in 1..n : TxsAt(rows, h) = <<>>
    PROVE  TxsThrough(rows, n) = <<>>
  <1> DEFINE none == [h \in {} |-> NoBlock]
  <1>1. Rows(none) /\ \A h : TxsAt(none, h) = <<>>
    BY DEF Rows, TxsAt
  <1> HIDE DEF none
  <1> DEFINE P == {i \in Nat : TxsThrough(none, i) = <<>>}
  <1>2. 0 \in P
    BY <1>1, ThroughNone
  <1>3. ASSUME NEW i \in P PROVE i + 1 \in P
    <2>1. TxsThrough(none, i + 1) = TxsThrough(none, i) \o <<>>
      BY <1>1, ThroughNext
    <2>2. <<>> \o <<>> = <<>>
      BY EmptySeq, ConcatEmptySeq
    <2>3. QED
      BY <2>1, <2>2
  <1>4. P = Nat
    <2> HIDE DEF P
    <2>1. P \in SUBSET Nat
      BY DEF P
    <2>2. QED
      BY <1>2, <1>3, <2>1, NaturalInduction
  <1>5. TxsThrough(none, n) = <<>>
    <2>1. CASE n < 0
      BY <1>1, <2>1, ThroughNone
    <2>2. CASE n >= 0
      BY <1>4, <2>2
    <2>3. QED
      BY <2>1, <2>2
  <1>6. SameRows(rows, none, n)
    BY <1>1 DEF SameRows
  <1>7. QED
    BY <1>1, <1>5, <1>6, ThroughSame

-----------------------------------------------------------------------------
(* What is kept of the journal, and what a longer replay adds. *)

Once(s) == \A i, j \in DOMAIN s : s[i].tx = s[j].tx => i = j

Among(s, e) == \E i \in DOMAIN s : s[i] = e

\* What k keeps of s: the entries up to h but for those of gone, each as often
\* as it was there.
Kept(k, s, h, gone) ==
    /\ k \in Seq(Entries)
    /\ \A i \in DOMAIN k : k[i].height <= h /\ k[i].tx \notin gone /\ Among(s, k[i])
    /\ \A j \in DOMAIN s : s[j].height <= h /\ s[j].tx \notin gone => Among(k, s[j])
    /\ Once(s) => Once(k)

Keeps(k, s, h) ==
    /\ k \in Seq(Entries)
    /\ \A i \in DOMAIN k : k[i].height <= h /\ Among(s, k[i])
    /\ \A j \in DOMAIN s : s[j].height <= h => Among(k, s[j])
    /\ Once(s) => Once(k)

LEMMA AmongAppend ==
    ASSUME NEW s \in Seq(Entries), NEW e \in Entries, NEW x
    PROVE  /\ Append(s, e) \in Seq(Entries)
           /\ DOMAIN Append(s, e) = DOMAIN s \cup {Len(s) + 1}
           /\ Len(s) + 1 \notin DOMAIN s
           /\ \A i \in DOMAIN s : Append(s, e)[i] = s[i]
           /\ Append(s, e)[Len(s) + 1] = e
           /\ Among(Append(s, e), x) <=> Among(s, x) \/ x = e
  <1>1. /\ Append(s, e) \in Seq(Entries) /\ Len(Append(s, e)) = Len(s) + 1
        /\ \A i \in 1..Len(s) : Append(s, e)[i] = s[i]
        /\ Append(s, e)[Len(s) + 1] = e
    BY AppendProperties
  <1>2. /\ DOMAIN s = 1..Len(s) /\ Len(s) \in Nat
        /\ DOMAIN Append(s, e) = 1..Len(Append(s, e))
    BY <1>1, LenProperties
  <1>3. DOMAIN Append(s, e) = DOMAIN s \cup {Len(s) + 1} /\ Len(s) + 1 \notin DOMAIN s
    BY <1>1, <1>2
  <1>4. \A i \in DOMAIN s : Append(s, e)[i] = s[i]
    BY <1>1, <1>2
  <1> DEFINE u == Append(s, e)
             N == Len(s) + 1
  <1>5. /\ DOMAIN u = DOMAIN s \cup {N}
        /\ \A i \in DOMAIN s : u[i] = s[i]
        /\ u[N] = e
    BY <1>1, <1>3, <1>4
  <1> HIDE DEF u, N
  <1>6. Among(u, x) <=> Among(s, x) \/ x = e
    BY <1>5 DEF Among
  <1>7. QED
    BY <1>1, <1>3, <1>4, <1>6 DEF u

LEMMA OnceAppend ==
    ASSUME NEW s \in Seq(Entries), NEW e \in Entries
    PROVE  Once(Append(s, e)) <=>
             Once(s) /\ \A i \in DOMAIN s : s[i].tx # e.tx
  <1> DEFINE u == Append(s, e)
             N == Len(s) + 1
  <1>1. /\ DOMAIN u = DOMAIN s \cup {N} /\ N \notin DOMAIN s
        /\ \A i \in DOMAIN s : u[i] = s[i]
        /\ u[N] = e
    BY AmongAppend
  <1> HIDE DEF u, N
  <1>2. ASSUME Once(u) PROVE Once(s) /\ \A i \in DOMAIN s : s[i].tx # e.tx
    BY <1>1, <1>2 DEF Once
  <1>3. ASSUME Once(s), \A i \in DOMAIN s : s[i].tx # e.tx PROVE Once(u)
    BY <1>1, <1>3 DEF Once
  <1>4. QED
    BY <1>2, <1>3 DEF u

LEMMA KeptUpTo ==
    ASSUME NEW s \in Seq(Entries), NEW h, NEW gone
    PROVE  Kept(EntriesKept(s, h, gone), s, h, gone)
  <1> DEFINE F == {q \in Seq(Entries) : Kept(EntriesKept(q, h, gone), q, h, gone)}
  <1>1. <<>> \in F
    <2>1. <<>> \in Seq(Entries) /\ DOMAIN <<>> = {}
      BY EmptySeq
    <2>2. Kept(<<>>, <<>>, h, gone)
      BY <2>1 DEF Kept, Once
    <2>3. QED
      BY <2>1, <2>2, KeptEmpty
  <1>2. ASSUME NEW q \in F, NEW e \in Entries PROVE Append(q, e) \in F
    <2> DEFINE k == EntriesKept(q, h, gone)
               u == Append(q, e)
    <2>1. Kept(k, q, h, gone) /\ q \in Seq(Entries) /\ k \in Seq(Entries)
      BY DEF Kept
    <2>2. EntriesKept(u, h, gone) = KeptStep(k, e, h, gone)
      BY <2>1, KeptAppend
    <2>3. /\ DOMAIN u = DOMAIN q \cup {Len(q) + 1}
          /\ \A i \in DOMAIN q : u[i] = q[i]
          /\ u[Len(q) + 1] = e /\ u \in Seq(Entries)
      BY <2>1, AmongAppend
    <2>4. \A x : Among(u, x) <=> Among(q, x) \/ x = e
      BY <2>1, AmongAppend
    <2>5. Once(u) <=> Once(q) /\ \A i \in DOMAIN q : q[i].tx # e.tx
      BY <2>1, OnceAppend
    <2> HIDE DEF u
    <2>6. CASE e.height <= h /\ e.tx \notin gone
      <3> DEFINE k2 == Append(k, e)
      <3>1. /\ DOMAIN k2 = DOMAIN k \cup {Len(k) + 1}
            /\ \A i \in DOMAIN k : k2[i] = k[i]
            /\ k2[Len(k) + 1] = e /\ k2 \in Seq(Entries)
        BY <2>1, AmongAppend
      <3>2. \A x : Among(k2, x) <=> Among(k, x) \/ x = e
        BY <2>1, AmongAppend
      <3>3. Once(k2) <=> Once(k) /\ \A i \in DOMAIN k : k[i].tx # e.tx
        BY <2>1, OnceAppend
      <3> HIDE DEF k2, k
      <3>4. \A i \in DOMAIN k2 : k2[i].height <= h /\ k2[i].tx \notin gone /\ Among(u, k2[i])
        BY <2>1, <2>4, <2>6, <3>1 DEF Kept
      <3>5. \A j \in DOMAIN u : u[j].height <= h /\ u[j].tx \notin gone => Among(k2, u[j])
        BY <2>1, <2>3, <3>2 DEF Kept
      <3>6. Once(u) => Once(k2)
        <4>1. SUFFICES ASSUME Once(u), NEW i \in DOMAIN k PROVE k[i].tx # e.tx
          BY <2>1, <2>5, <3>3 DEF Kept
        <4>2. PICK j \in DOMAIN q : q[j] = k[i]
          BY <2>1, <4>1 DEF Kept, Among
        <4>3. QED
          BY <2>5, <4>1, <4>2
      <3>7. Kept(k2, u, h, gone)
        BY <3>1, <3>4, <3>5, <3>6 DEF Kept
      <3>8. EntriesKept(u, h, gone) = k2
        BY <2>2, <2>6 DEF KeptStep, k2
      <3>9. QED
        BY <2>3, <3>7, <3>8 DEF u
    <2>7. CASE ~(e.height <= h /\ e.tx \notin gone)
      <3> HIDE DEF k
      <3>1. Kept(k, u, h, gone)
        BY <2>1, <2>3, <2>4, <2>5, <2>7 DEF Kept
      <3>2. EntriesKept(u, h, gone) = k
        BY <2>2, <2>7 DEF KeptStep
      <3>3. QED
        BY <2>3, <3>1, <3>2 DEF u
    <2>8. QED
      BY <2>6, <2>7
  <1>3. F = Seq(Entries)
    <2> HIDE DEF F
    <2>1. F \in SUBSET Seq(Entries)
      BY DEF F
    <2>2. QED
      BY <1>1, <1>2, <2>1, SequenceInduction
  <1>4. QED
    BY <1>3

LEMMA KeepsUpTo ==
    ASSUME NEW s \in Seq(Entries), NEW h
    PROVE  Keeps(EntriesUpTo(s, h), s, h)
  <1>1. Kept(EntriesUpTo(s, h), s, h, {})
    BY KeptUpTo DEF EntriesUpTo
  <1>2. QED
    BY <1>1 DEF Kept, Keeps

\* Nothing is dropped of a journal that has only blocks up to h.
LEMMA KeepsAll ==
    ASSUME NEW s \in Seq(Entries), NEW h, \A i \in DOMAIN s : s[i].height <= h
    PROVE  EntriesUpTo(s, h) = s
  <1> DEFINE F == {q \in Seq(Entries) :
                     (\A i \in DOMAIN q : q[i].height <= h) => EntriesUpTo(q, h) = q}
  <1>1. <<>> \in F
    BY KeepEmpty, EmptySeq
  <1>2. ASSUME NEW q \in F, NEW e \in Entries PROVE Append(q, e) \in F
    <2> DEFINE u == Append(q, e)
    <2>1. /\ DOMAIN u = DOMAIN q \cup {Len(q) + 1}
          /\ \A i \in DOMAIN q : u[i] = q[i]
          /\ u[Len(q) + 1] = e /\ u \in Seq(Entries)
      BY AmongAppend
    <2>2. EntriesUpTo(u, h) = KeepStep(EntriesUpTo(q, h), e, h)
      BY KeepAppend
    <2>3. SUFFICES ASSUME \A i \in DOMAIN u : u[i].height <= h
                   PROVE  EntriesUpTo(u, h) = u
      BY <2>1
    <2> HIDE DEF u
    <2>4. EntriesUpTo(q, h) = q /\ e.height <= h
      BY <2>1, <2>3
    <2>5. QED
      BY <2>2, <2>4 DEF KeepStep, u
  <1>3. F = Seq(Entries)
    <2> HIDE DEF F
    <2>1. F \in SUBSET Seq(Entries)
      BY DEF F
    <2>2. QED
      BY <1>1, <1>2, <2>1, SequenceInduction
  <1>4. QED
    BY <1>3

\* Cutting twice is cutting once, at the lower block.
LEMMA KeepsTwice ==
    ASSUME NEW s \in Seq(Entries), NEW h \in Int, NEW w \in Int, w <= h
    PROVE  EntriesUpTo(EntriesUpTo(s, h), w) = EntriesUpTo(s, w)
  <1> DEFINE F == {q \in Seq(Entries) :
                     EntriesUpTo(EntriesUpTo(q, h), w) = EntriesUpTo(q, w)}
  <1>1. <<>> \in F
    BY KeepEmpty, EmptySeq
  <1>2. ASSUME NEW q \in F, NEW e \in Entries PROVE Append(q, e) \in F
    <2> DEFINE u == Append(q, e)
               k == EntriesUpTo(q, h)
               m == EntriesUpTo(q, w)
    <2>1. u \in Seq(Entries) /\ k \in Seq(Entries) /\ e.height \in Nat
      BY AppendProperties, KeepAppend DEF Entries
    <2>2. EntriesUpTo(k, w) = m
      OBVIOUS
    <2>3. EntriesUpTo(u, h) = KeepStep(k, e, h) /\ EntriesUpTo(u, w) = KeepStep(m, e, w)
      BY KeepAppend
    <2>4. EntriesUpTo(Append(k, e), w) = KeepStep(EntriesUpTo(k, w), e, w)
      BY <2>1, KeepAppend
    <2>5. EntriesUpTo(EntriesUpTo(u, h), w) = EntriesUpTo(u, w)
      <3> HIDE DEF u, k, m
      <3>1. CASE e.height <= h
        BY <2>2, <2>3, <2>4, <3>1 DEF KeepStep
      <3>2. CASE ~(e.height <= h)
        <4>1. ~(e.height <= w)
          BY <2>1, <3>2
        <4>2. QED
          BY <2>2, <2>3, <3>2, <4>1 DEF KeepStep
      <3>3. QED
        BY <3>1, <3>2
    <2>6. QED
      BY <2>1, <2>5
  <1>3. F = Seq(Entries)
    <2> HIDE DEF F
    <2>1. F \in SUBSET Seq(Entries)
      BY DEF F
    <2>2. QED
      BY <1>1, <1>2, <2>1, SequenceInduction
  <1>4. QED
    BY <1>3

-----------------------------------------------------------------------------
(* The tables, whatever the node does and whatever fails. *)

LEMMA HighestRow ==
    ASSUME NEW S \in SUBSET Nat, IsFiniteSet(S), S # {}
    PROVE  \E m \in S : \A g \in S : g <= m
  <1> DEFINE F == {T \in SUBSET S : T # {} => \E m \in T : \A g \in T : g <= m}
  <1>1. {} \in F
    OBVIOUS
  <1>2. ASSUME NEW T \in SUBSET S, T # {}, T \ {Pick(T)} \in F PROVE T \in F
    <2>1. Pick(T) \in T /\ Pick(T) \in Nat
      BY <1>2, PickIn
    <2>2. CASE T \ {Pick(T)} = {}
      <3>1. \A g \in T : g = Pick(T)
        BY <2>2
      <3>2. \A g \in T : g <= Pick(T)
        BY <2>1, <3>1
      <3>3. QED
        BY <2>1, <3>2
    <2>3. CASE T \ {Pick(T)} # {}
      <3>1. PICK m \in T \ {Pick(T)} : \A g \in T \ {Pick(T)} : g <= m
        BY <1>2, <2>3
      <3>2. CASE m <= Pick(T)
        BY <2>1, <3>1, <3>2
      <3>3. CASE ~(m <= Pick(T))
        BY <2>1, <3>1, <3>3
      <3>4. QED
        BY <3>2, <3>3
    <2>4. QED
      BY <2>2, <2>3
  <1>3. F = SUBSET S
    <2> HIDE DEF F
    <2>1. F \in SUBSET SUBSET S
      BY DEF F
    <2>2. QED
      BY <1>1, <1>2, <2>1, SubsetInduction
  <1>4. QED
    BY <1>3

LEMMA ResumeType ==
    ASSUME NEW rows, from \in Nat, DOMAIN rows \subseteq Nat, IsFiniteSet(DOMAIN rows)
    PROVE  Resume(rows) \in Nat
  <1>1. CASE DOMAIN rows # {}
    <2>1. \E m \in DOMAIN rows : \A g \in DOMAIN rows : g <= m
      BY <1>1, HighestRow
    <2> DEFINE top == CHOOSE h \in DOMAIN rows : \A g \in DOMAIN rows : g <= h
    <2>2. top \in Nat
      BY <2>1
    <2> HIDE DEF top
    <2>3. Resume(rows) = IF from # 0 THEN from ELSE 1 + top
      BY <1>1 DEF Resume, top
    <2>4. QED
      BY <2>2, <2>3
  <1>2. CASE DOMAIN rows = {}
    BY <1>2 DEF Resume
  <1>3. QED
    BY <1>1, <1>2

LEMMA ChainType ==
    ASSUME chain \in BestChains
    PROVE  /\ Len(chain) \in Nat /\ DOMAIN chain = 1..Len(chain)
           /\ \A h \in DOMAIN chain :
                /\ h \in Nat /\ h >= 1
                /\ chain[h] \in Blocks
                /\ Parent[chain[h]] \in Blocks \cup {NoBlock}
                /\ TxsOf[chain[h]] \in Seq(Txs)
  <1>1. chain \in Seq(Blocks)
    BY ScanAssumption
  <1>2. DOMAIN chain = 1..Len(chain) /\ Len(chain) \in Nat
    BY <1>1, LenProperties
  <1>3. \A h \in DOMAIN chain : chain[h] \in Blocks
    BY <1>1, <1>2, ElementOfSeq
  <1>4. QED
    BY <1>2, <1>3, ScanAssumption

LEMMA TodoType ==
    ASSUME todo \in Seq(Txs), todo # <<>>
    PROVE  Head(todo) \in Txs /\ Tail(todo) \in Seq(Txs)
  BY HeadTailProperties

LEMMA TypeInit == Init => TypeOK
  <1> SUFFICES ASSUME Init PROVE TypeOK
    OBVIOUS
  <1>1. PICK s \in Starts : from = s.from /\ block = s.rows
    BY DEF Init
  <1>2. /\ from \in Nat /\ DOMAIN block \subseteq Nat /\ IsFiniteSet(DOMAIN block)
        /\ \A h \in DOMAIN block : block[h] \in Blocks \cup {NoBlock}
    BY <1>1, ScanAssumption
  <1>3. Resume(block) \in Nat
    BY <1>2, ResumeType
  <1>4. chain \in BestChains
    BY ScanAssumption DEF Init
  <1>5. journal \in Seq(Entries) /\ todo \in Seq(Txs)
    BY EmptySeq DEF Init
  <1>6. DOMAIN info = {}
    BY DEF Init
  <1>7. QED
    BY <1>2, <1>3, <1>4, <1>5, <1>6 DEF Init, TypeOK

\* What forks leave behind are entries, or info rows as entries.
LEMMA LeftType ==
    ASSUME TypeOK, NEW h
    PROVE  LeftAbove(h) \subseteq Entries
  <1>1. \A e \in ToSet(journal) : e \in Entries
    BY LenProperties, ElementOfSeq DEF TypeOK, ToSet
  <1>2. \A t \in DOMAIN info : [tx |-> t, height |-> info[t].height] \in Entries
    BY DEF TypeOK, Infos, Entries
  <1>3. QED
    BY <1>1, <1>2 DEF LeftAbove

LEMMA TypeStep == TypeOK /\ InHandOK /\ [Next]_vars => TypeOK'
  <1> SUFFICES ASSUME TypeOK, InHandOK, [Next]_vars PROVE TypeOK'
    OBVIOUS
  <1> USE DEF TypeOK
  <1>c. /\ Len(chain) \in Nat /\ DOMAIN chain = 1..Len(chain)
        /\ \A h \in DOMAIN chain :
             /\ h \in Nat /\ h >= 1
             /\ chain[h] \in Blocks
             /\ Parent[chain[h]] \in Blocks \cup {NoBlock}
             /\ TxsOf[chain[h]] \in Seq(Txs)
    BY ChainType
  <1>t. todo # <<>> => Head(todo) \in Txs /\ Tail(todo) \in Seq(Txs)
    BY TodoType
  <1>e. <<>> \in Seq(Txs)
    BY EmptySeq
  <1>1. CASE NodeMoves
    BY <1>1 DEF NodeMoves, durable, inHand
  <1>2. CASE BeginScan
    <2>1. limit' \in Nat
      BY <1>2, <1>c, ScanAssumption DEF BeginScan
    <2>2. QED
      BY <1>2, <2>1 DEF BeginScan, durable, inHand
  <1>3. CASE EndScan
    BY <1>3, <1>e DEF EndScan, Return, durable
  <1>4. CASE AdoptParent
    <2>1. height - 1 \in Nat /\ height \in DOMAIN chain
      BY <1>4, <1>c DEF AdoptParent, AtHead
    <2>2. DOMAIN block' = DOMAIN block \cup {height - 1}
      BY <1>4 DEF AdoptParent
    <2>3. IsFiniteSet(DOMAIN block')
      <3>1. IsFiniteSet(DOMAIN block)
        OBVIOUS
      <3>2. QED
        BY ONLY <2>2, <3>1, FS_AddElement
    <2>4. \A h \in DOMAIN block' : block'[h] \in Blocks \cup {NoBlock}
      BY <1>4, <1>c, <2>1 DEF AdoptParent
    <2>5. QED
      BY <1>4, <1>e, <2>1, <2>2, <2>3, <2>4 DEF AdoptParent, Return
  <1>5. CASE HeadMatches
    BY <1>5 DEF HeadMatches, durable, inHand
  <1>6. CASE HeadDiffers
    BY <1>6, <1>c DEF HeadDiffers, AtHead, durable
  <1>7. CASE WalkBack
    <2>1. localHash' \in Blocks \cup {NoBlock}
      BY <1>7 DEF WalkBack, LocalHashAt
    <2>2. walk' \in Nat /\ hash' \in Blocks
      BY <1>7, <1>c DEF WalkBack
    <2>3. QED
      BY <1>7, <2>1, <2>2 DEF WalkBack, durable
  <1>8. CASE WalkFails
    BY <1>8, <1>e DEF WalkFails, TooDeep, Return, durable
  <1>9. CASE ForkCommit
    <2>1. journal' \in Seq(Entries)
      BY <1>9, KeptUpTo DEF ForkCommit, UndoJournal, Kept
    <2>2. DOMAIN info' \subseteq Txs /\ \A t \in DOMAIN info' : info'[t] \in Infos
      BY <1>9 DEF ForkCommit, DelInfo
    <2>3. leftover' \subseteq Entries
      BY <1>9, LeftType DEF ForkCommit
    <2>4. lapses' \subseteq {"otherBlock", "notDecoded", "notExecuted",
                           "resumedElsewhere", "leftBehind"}
      BY <1>9 DEF ForkCommit, Lapse
    <2>5. QED
      BY <1>9, <2>1, <2>2, <2>3, <2>4 DEF ForkCommit, AtAncestor
  <1>10. CASE Fetch
    <2>1. hash' \in Blocks /\ todo' \in Seq(Txs)
      BY <1>10, <1>c DEF Fetch
    <2>2. lapses' \subseteq {"otherBlock", "notDecoded", "notExecuted",
                         "resumedElsewhere", "leftBehind"}
      BY <1>10 DEF Fetch, Lapse
    <2>3. QED
      BY <1>10, <2>1, <2>2 DEF Fetch, durable
  <1>11. CASE SkipKnown
    BY <1>11, <1>t DEF SkipKnown, durable
  <1>12. CASE SaveInfo
    <2>1. Head(todo) \in Txs /\ hash \in Blocks
      BY <1>12, <1>t DEF SaveInfo, InHandOK
    <2>2. [height |-> height, block |-> hash, done |-> FALSE] \in Infos
      BY <2>1 DEF Infos
    <2>3. DOMAIN info' \subseteq Txs /\ \A t \in DOMAIN info' : info'[t] \in Infos
      BY <1>12, <2>1, <2>2 DEF SaveInfo
    <2>4. QED
      BY <1>12, <2>3 DEF SaveInfo, inHand
  <1>13. CASE Execute
    <2>1. todo # <<>> /\ Head(todo) \in Txs /\ Head(todo) \in DOMAIN info /\ Tail(todo) \in Seq(Txs)
      BY <1>13, <1>t DEF Execute, InHandOK
    <2>2. [tx |-> Head(todo), height |-> height] \in Entries
      BY <2>1 DEF Entries
    <2>3. journal' \in Seq(Entries)
      BY <1>13, <2>2, AppendProperties DEF Execute
    <2>4. info[Head(todo)] \in Infos
      BY <2>1
    <2>5. DOMAIN info' \subseteq Txs /\ \A t \in DOMAIN info' : info'[t] \in Infos
      BY <1>13, <2>1, <2>4 DEF Execute, Infos
    <2>6. QED
      BY <1>13, <2>1, <2>3, <2>5 DEF Execute
  <1>14. CASE Refuse
    BY <1>14, <1>t DEF Refuse, InHandOK, durable
  <1>15. CASE SaveBlock
    <2>1. DOMAIN block' = DOMAIN block \cup {height}
      BY <1>15 DEF SaveBlock
    <2>2. IsFiniteSet(DOMAIN block')
      <3>1. IsFiniteSet(DOMAIN block)
        OBVIOUS
      <3>2. QED
        BY ONLY <2>1, <3>1, FS_AddElement
    <2>3. \A h \in DOMAIN block' : block'[h] \in Blocks \cup {NoBlock}
      BY <1>15 DEF SaveBlock
    <2>4. QED
      BY <1>15, <2>1, <2>2, <2>3 DEF SaveBlock
  <1>16. CASE CallFails
    BY <1>16, <1>e DEF CallFails, Fault, Return, durable
  <1>17. CASE DecodeFails
    <2>1. lapses' \subseteq {"otherBlock", "notDecoded", "notExecuted",
                         "resumedElsewhere", "leftBehind"}
      BY <1>17 DEF DecodeFails, Lapse
    <2>2. QED
      BY <1>17, <1>t, <2>1 DEF DecodeFails, Fault, durable
  <1>18. CASE ExecuteFails
    <2>1. lapses' \subseteq {"otherBlock", "notDecoded", "notExecuted",
                         "resumedElsewhere", "leftBehind"}
      BY <1>18 DEF ExecuteFails, Lapse
    <2>2. QED
      BY <1>18, <1>t, <2>1 DEF ExecuteFails, Fault, InHandOK, durable
  <1>19. CASE Crash
    <2>1. Resume(block) \in Nat
      BY ResumeType
    <2>2. lapses' \subseteq {"otherBlock", "notDecoded", "notExecuted",
                         "resumedElsewhere", "leftBehind"}
      BY <1>19 DEF Crash
    <2>3. QED
      BY <1>19, <1>e, <2>1, <2>2 DEF Crash, Fault, Return, durable
  <1>20. CASE UNCHANGED vars
    BY <1>20 DEF vars, durable, inHand
  <1>21. CASE ForkRefused
    BY <1>21, <1>e DEF ForkRefused, Return, durable
  <1>22. QED
    BY <1>1, <1>2, <1>3, <1>4, <1>5, <1>6, <1>7, <1>8, <1>9, <1>10, <1>11, <1>12,
       <1>13, <1>14, <1>15, <1>16, <1>17, <1>18, <1>19, <1>20, <1>21
    DEF Next, Scanner, Faults

\* What earlier forks have left behind stays, and what this one leaves is added.
LEMMA LeftOfFork ==
    ASSUME ForkCommit, NEW kinds
    PROVE  /\ LeftBehind(kinds) \subseteq LeftBehind(kinds)'
           /\ LeftBehind(kinds)' = LeftBehind(kinds) \cup
                {e.tx : e \in {f \in LeftAbove(walk) : Kind[f.tx] \in kinds}}
  <1>1. leftover' = leftover \cup LeftAbove(walk)
    BY DEF ForkCommit
  <1> DEFINE L == LeftAbove(walk)
  <1> HIDE DEF L
  <1>2. LeftBehind(kinds)' = {e.tx : e \in {f \in leftover \cup L : Kind[f.tx] \in kinds}}
    BY <1>1 DEF LeftBehind, L
  <1>3. QED
    BY <1>2 DEF LeftBehind, L

\* The consensus rows that this fork leaves behind have their row still, and
\* every other one above the ancestor goes with its entry.
LEMMA ConsensusLeft ==
    ASSUME TypeOK, TablesAgree, ForkCommit, NEW t
    PROVE  t \in LeftBehind({"consensus"})' <=>
             \/ t \in LeftBehind({"consensus"})
             \/ t \in DOMAIN info /\ info[t].height > walk /\ Kind[t] = "consensus"
  <1> DEFINE new == {e.tx : e \in {f \in LeftAbove(walk) : Kind[f.tx] \in {"consensus"}}}
  <1>1. LeftBehind({"consensus"})' = LeftBehind({"consensus"}) \cup new
    BY LeftOfFork
  <1>2. t \in new <=> t \in DOMAIN info /\ info[t].height > walk /\ Kind[t] = "consensus"
    <2>1. ASSUME t \in new
          PROVE  t \in DOMAIN info /\ info[t].height > walk /\ Kind[t] = "consensus"
      <3>1. PICK e \in LeftAbove(walk) : Kind[e.tx] = "consensus" /\ t = e.tx
        BY <2>1
      <3>2. PICK u \in DOMAIN info : /\ info[u].height > walk /\ Kind[u] = "consensus"
                                     /\ e = [tx |-> u, height |-> info[u].height]
        BY <3>1 DEF LeftAbove
      <3>3. QED
        BY <3>1, <3>2
    <2>2. ASSUME t \in DOMAIN info, info[t].height > walk, Kind[t] = "consensus"
          PROVE  t \in new
      <3>1. [tx |-> t, height |-> info[t].height] \in LeftAbove(walk)
        BY <2>2 DEF LeftAbove
      <3>2. QED
        BY <2>2, <3>1
    <2>3. QED
      BY <2>1, <2>2
  <1> HIDE DEF new
  <1>3. QED
    BY <1>1, <1>2

\* What the forks leave: the entries and the info rows of the same blocks, but
\* for consensus rows and for boxes deleted again.
LEMMA TablesFork == TypeOK /\ AtMostOnce /\ TablesAgree /\ ForkCommit => AtMostOnce' /\ TablesAgree'
  <1> SUFFICES ASSUME TypeOK, AtMostOnce, TablesAgree, ForkCommit
               PROVE  AtMostOnce' /\ TablesAgree'
    OBVIOUS
  <1> DEFINE gone == DeletedAgain(walk)
  <1>1. journal' = EntriesKept(journal, walk, gone) /\ journal \in Seq(Entries)
    BY DEF ForkCommit, UndoJournal, TypeOK
  <1> HIDE DEF gone
  <1>2. Kept(journal', journal, walk, gone)
    BY <1>1, KeptUpTo
  <1>3. AtMostOnce'
    BY <1>2 DEF Kept, Once, AtMostOnce
  <1>4. /\ DOMAIN info' = {u \in DOMAIN info : info[u].height <= walk \/ Kind[u] = "consensus"}
        /\ \A t \in DOMAIN info' : info'[t] = info[t]
    BY DEF ForkCommit, DelInfo
  <1>t. walk \in Nat /\ \A t \in DOMAIN info : info[t].height \in Nat
    BY DEF TypeOK, Infos
  <1>5. ASSUME NEW i \in DOMAIN journal'
        PROVE  /\ journal'[i].tx \in DOMAIN info'
               /\ info'[journal'[i].tx].done
               /\ info'[journal'[i].tx].height = journal'[i].height
               /\ journal'[i].tx \notin LeftBehind({"consensus"})'
    <2>1. journal'[i].height <= walk /\ \E j \in DOMAIN journal : journal[j] = journal'[i]
      BY <1>2 DEF Kept, Among
    <2>2. PICK j \in DOMAIN journal : journal[j] = journal'[i]
      BY <2>1
    <2>3. /\ journal[j].tx \in DOMAIN info
          /\ info[journal[j].tx].done
          /\ info[journal[j].tx].height = journal[j].height
          /\ journal[j].tx \notin LeftBehind({"consensus"})
      BY DEF TablesAgree
    <2>4. journal[j].tx \in DOMAIN info'
      BY <1>4, <2>1, <2>2, <2>3
    <2>5. journal[j].tx \notin LeftBehind({"consensus"})'
      BY <1>t, <2>1, <2>2, <2>3, ConsensusLeft
    <2>6. QED
      BY <1>4, <2>2, <2>3, <2>4, <2>5
  <1>6. ASSUME NEW t \in DOMAIN info', info'[t].done,
               t \notin LeftBehind({"consensus", "box"})'
        PROVE  \E i \in DOMAIN journal' : journal'[i].tx = t
    <2>1. t \in DOMAIN info /\ info[t].done /\ t \notin LeftBehind({"consensus", "box"})
      BY <1>4, <1>6, LeftOfFork
    <2>2. t \notin LeftBehind({"consensus"})'
      BY <1>6 DEF LeftBehind
    <2>3. info[t].height <= walk
      BY <1>4, <1>t, <2>2, ConsensusLeft
    <2>4. PICK j \in DOMAIN journal : journal[j].tx = t
      BY <2>1 DEF TablesAgree
    <2>5. journal[j].height <= walk
      BY <2>3, <2>4 DEF TablesAgree
    <2>6. t \notin gone
      BY <2>1 DEF gone, DeletedAgain, LeftBehind
    <2>7. PICK i \in DOMAIN journal' : journal'[i] = journal[j]
      BY <1>2, <2>4, <2>5, <2>6 DEF Kept, Among
    <2>8. QED
      BY <2>4, <2>7
  <1>7. LeftBehind({"consensus"})' \subseteq DOMAIN info'
    <2>1. SUFFICES ASSUME NEW t \in LeftBehind({"consensus"})' PROVE t \in DOMAIN info'
      OBVIOUS
    <2>2. t \in DOMAIN info
      BY <2>1, ConsensusLeft DEF TablesAgree
    <2>3. Kind[t] = "consensus"
      BY <2>1 DEF LeftBehind
    <2>4. QED
      BY <1>4, <2>2, <2>3
  <1>8. QED
    BY <1>3, <1>5, <1>6, <1>7 DEF TablesAgree

LEMMA TablesStep == TypeOK /\ AtMostOnce /\ TablesAgree /\ InHandOK /\ [Next]_vars
                      => AtMostOnce' /\ TablesAgree'
  <1> SUFFICES ASSUME TypeOK, AtMostOnce, TablesAgree, InHandOK, [Next]_vars
               PROVE  AtMostOnce' /\ TablesAgree'
    OBVIOUS
  <1>1. CASE UNCHANGED <<info, journal, leftover>>
    BY <1>1 DEF AtMostOnce, TablesAgree, LeftBehind
  <1>2. CASE ForkCommit
    BY <1>2, TablesFork
  <1>3. CASE SaveInfo
    <2> DEFINE t == Head(todo)
    <2>1. t \notin DOMAIN info /\ journal' = journal /\ leftover' = leftover
      BY <1>3 DEF SaveInfo
    <2>2. /\ DOMAIN info' = DOMAIN info \cup {t}
          /\ \A u \in DOMAIN info : info'[u] = info[u]
          /\ info'[t].done = FALSE
      BY <1>3 DEF SaveInfo
    <2>3. \A kinds : LeftBehind(kinds)' = LeftBehind(kinds)
      BY <2>1 DEF LeftBehind
    <2> HIDE DEF t
    <2>4. AtMostOnce'
      BY <2>1 DEF AtMostOnce
    <2>5. TablesAgree'
      BY <2>1, <2>2, <2>3 DEF TablesAgree
    <2>6. QED
      BY <2>4, <2>5
  <1>4. CASE Execute
    <2> DEFINE t == Head(todo)
               e == [tx |-> t, height |-> height]
               N == Len(journal) + 1
    <2>1. /\ todo # <<>> /\ t \in DOMAIN info /\ info[t].done = FALSE
          /\ info[t].height = height /\ t \notin LeftBehind({"consensus"})
      BY <1>4 DEF Execute, InHandOK
    <2>2. e \in Entries
      BY <1>4, <2>1 DEF TypeOK, Entries
    <2>3. /\ journal' = Append(journal, e) /\ journal \in Seq(Entries)
          /\ DOMAIN info' = DOMAIN info
          /\ info'[t].done = TRUE /\ info'[t].height = height
          /\ \A u \in DOMAIN info \ {t} : info'[u] = info[u]
          /\ leftover' = leftover
      BY <1>4, <2>1 DEF Execute, TypeOK
    <2>4. /\ DOMAIN journal' = DOMAIN journal \cup {N} /\ N \notin DOMAIN journal
          /\ \A i \in DOMAIN journal : journal'[i] = journal[i]
          /\ journal'[N] = e
      BY <2>2, <2>3, AmongAppend
    <2>5. e.tx = t /\ e.height = height
      OBVIOUS
    <2>l. \A kinds : LeftBehind(kinds)' = LeftBehind(kinds)
      BY <2>3 DEF LeftBehind
    <2> HIDE DEF t, e, N
    <2>6. \A i \in DOMAIN journal : journal[i].tx # t
      BY <2>1 DEF TablesAgree
    <2>7. AtMostOnce'
      BY <2>4, <2>5, <2>6 DEF AtMostOnce
    <2>8. ASSUME NEW i \in DOMAIN journal'
          PROVE  /\ journal'[i].tx \in DOMAIN info'
                 /\ info'[journal'[i].tx].done
                 /\ info'[journal'[i].tx].height = journal'[i].height
                 /\ journal'[i].tx \notin LeftBehind({"consensus"})'
      BY <2>1, <2>3, <2>4, <2>5, <2>6, <2>l DEF TablesAgree
    <2>9. ASSUME NEW u \in DOMAIN info', info'[u].done,
                 u \notin LeftBehind({"consensus", "box"})'
          PROVE  \E i \in DOMAIN journal' : journal'[i].tx = u
      BY <2>3, <2>4, <2>5, <2>9, <2>l DEF TablesAgree
    <2>10. LeftBehind({"consensus"})' \subseteq DOMAIN info'
      BY <2>3, <2>l DEF TablesAgree
    <2>11. QED
      BY <2>7, <2>8, <2>9, <2>10 DEF TablesAgree
  <1>5. QED
    BY <1>1, <1>2, <1>3, <1>4 DEF Next, Scanner, Faults, NodeMoves, BeginScan, EndScan,
       AdoptParent, HeadMatches, HeadDiffers, WalkBack, WalkFails, ForkRefused, Fetch,
       SkipKnown, Refuse, SaveBlock, CallFails, DecodeFails, ExecuteFails, Crash, Return,
       vars, durable, inHand

LEMMA InHandStep == TypeOK /\ TablesAgree /\ InHandOK /\ [Next]_vars => InHandOK'
  <1> SUFFICES ASSUME TypeOK, TablesAgree, InHandOK, [Next]_vars PROVE InHandOK'
    OBVIOUS
  <1>1. CASE pc' \notin {"txs", "exec"}
    BY <1>1 DEF InHandOK
  <1>2. CASE UNCHANGED <<pc, hash, height, todo, info, leftover>>
    BY <1>2 DEF InHandOK, LeftBehind
  <1>3. CASE Fetch
    BY <1>3, ChainType DEF Fetch, InHandOK, TypeOK
  <1>4. CASE pc \in {"txs", "exec"} /\ pc' = "txs" /\ UNCHANGED <<hash, height>>
    BY <1>4 DEF InHandOK
  <1>5. CASE SaveInfo
    <2>1. /\ pc' = "exec" /\ pc = "txs" /\ UNCHANGED <<hash, height, todo>> /\ todo # <<>>
          /\ Head(todo) \in DOMAIN info'
          /\ info'[Head(todo)] = [height |-> height, block |-> hash, done |-> FALSE]
      BY <1>5 DEF SaveInfo, inHand
    <2>2. Head(todo) \notin DOMAIN info /\ leftover' = leftover
      BY <1>5 DEF SaveInfo
    <2>3. Head(todo) \notin LeftBehind({"consensus"})'
      BY <2>2 DEF TablesAgree, LeftBehind
    <2>4. QED
      BY <2>1, <2>3 DEF InHandOK
  <1>6. QED
    BY <1>1, <1>2, <1>3, <1>4, <1>5 DEF Next, Scanner, Faults, NodeMoves, BeginScan, EndScan,
       AdoptParent, HeadMatches, HeadDiffers, WalkBack, WalkFails, ForkCommit, ForkRefused,
       SkipKnown, Execute, Refuse, SaveBlock, CallFails, DecodeFails, ExecuteFails, Crash,
       Return, vars, durable, inHand

\* Every state has consistent tables.
THEOREM TablesInvariant == Spec => []TableInv
  <1>1. Init => TableInv
    <2> SUFFICES ASSUME Init PROVE TableInv
      OBVIOUS
    <2>1. journal = <<>> /\ DOMAIN info = {} /\ pc = "idle"
      BY DEF Init
    <2>2. DOMAIN journal = {} /\ LeftBehind({"consensus"}) = {}
      BY <2>1 DEF Init, LeftBehind
    <2>3. AtMostOnce /\ TablesAgree /\ InHandOK
      BY <2>1, <2>2 DEF AtMostOnce, TablesAgree, InHandOK
    <2>4. QED
      BY <2>3, TypeInit DEF TableInv
  <1>2. TableInv /\ [Next]_vars => TableInv'
    BY TypeStep, TablesStep, InHandStep DEF TableInv
  <1>3. QED
    BY <1>1, <1>2, PTL DEF Spec

\* No inscription takes effect twice, however the chain forks and whatever
\* fails: executeX, delInfo and the journal that drc20Fork undoes.
THEOREM NeverExecutedTwice == Spec => []AtMostOnce
  BY TablesInvariant, PTL DEF TableInv

\* order_status and the journal agree in every state, after any crash: a done
\* inscription has its entry, unless a fork left it behind as a consensus row or
\* as a box, and an entry has its done row, which no fork left behind (delInfo,
\* delRevert and boxFork, which obeys the rows that it leaves).
THEOREM StatusMatchesEffect == Spec => []DoneMeansJournalled
  <1>1. TableInv => DoneMeansJournalled
    <2> SUFFICES ASSUME TableInv PROVE DoneMeansJournalled
      OBVIOUS
    <2>1. journal \in Seq(Entries) /\ TablesAgree
      BY DEF TableInv, TypeOK
    <2>2. ASSUME NEW t \in DOMAIN info \ LeftBehind({"consensus", "box"}), info[t].done
          PROVE  \E i \in DOMAIN journal : journal[i] = [tx |-> t, height |-> info[t].height]
      <3>1. PICK i \in DOMAIN journal : journal[i].tx = t
        BY <2>1, <2>2 DEF TablesAgree
      <3>2. journal[i] \in Entries /\ journal[i].height = info[t].height
        BY <2>1, <3>1, LenProperties, ElementOfSeq DEF TablesAgree
      <3>3. QED
        BY <3>1, <3>2 DEF Entries
    <2>3. ASSUME NEW i \in DOMAIN journal
          PROVE  /\ journal[i].tx \in DOMAIN info \ LeftBehind({"consensus"})
                 /\ info[journal[i].tx] =
                      [height |-> journal[i].height, block |-> info[journal[i].tx].block,
                       done |-> TRUE]
      <3> DEFINE r == info[journal[i].tx]
      <3>1. /\ journal[i].tx \in DOMAIN info \ LeftBehind({"consensus"})
            /\ r.done /\ r.height = journal[i].height
        BY <2>1 DEF TablesAgree
      <3>2. r \in Infos
        BY <3>1 DEF TableInv, TypeOK
      <3> HIDE DEF r
      <3>3. r = [height |-> journal[i].height, block |-> r.block, done |-> TRUE]
        BY <3>1, <3>2 DEF Infos
      <3>4. QED
        BY <3>1, <3>3 DEF r
    <2>4. QED
      BY <2>1, <2>2, <2>3 DEF DoneMeansJournalled
  <1>2. QED
    BY <1>1, TablesInvariant, PTL

-----------------------------------------------------------------------------
(* The chains of the node. *)

LEMMA Chain ==
    ASSUME NEW c \in BestChains
    PROVE  /\ Len(c) \in Nat /\ DOMAIN c = 1..Len(c)
           /\ \A h \in DOMAIN c : c[h] \in Blocks /\ TxsOf[c[h]] \in Seq(Txs)
           /\ 1 \in DOMAIN c => Parent[c[1]] = NoBlock
           /\ \A h \in DOMAIN c : h > 1 => h - 1 \in DOMAIN c /\ Parent[c[h]] = c[h - 1]
  <1>1. c \in Seq(Blocks)
    BY ScanAssumption
  <1>2. DOMAIN c = 1..Len(c) /\ Len(c) \in Nat
    BY <1>1, LenProperties
  <1>3. \A h \in DOMAIN c : c[h] \in Blocks
    BY <1>1, <1>2, ElementOfSeq
  <1>4. 1 \in DOMAIN c => Parent[c[1]] = NoBlock
    <2>1. SUFFICES ASSUME 1 \in DOMAIN c PROVE Parent[c[1]] = NoBlock
      OBVIOUS
    <2>2. c # <<>>
      BY <2>1, EmptySeq
    <2>3. QED
      BY <2>2, ChainAssumption
  <1>5. \A h \in DOMAIN c : h > 1 => h - 1 \in DOMAIN c /\ Parent[c[h]] = c[h - 1]
    <2>1. SUFFICES ASSUME NEW h \in DOMAIN c, h > 1
                   PROVE  h - 1 \in DOMAIN c /\ Parent[c[h]] = c[h - 1]
      OBVIOUS
    <2>2. h \in 2..Len(c) /\ h - 1 \in 1..Len(c)
      BY <1>2, <2>1
    <2>3. QED
      BY <1>2, <2>2, ScanAssumption
  <1>6. QED
    BY <1>2, <1>3, <1>4, <1>5, ScanAssumption

\* A block is at the same height wherever it is.
LEMMA OneHeight ==
    ASSUME NEW c \in BestChains, NEW d \in BestChains,
           NEW g \in DOMAIN c, NEW h \in DOMAIN d, c[g] = d[h]
    PROVE  g = h
  <1> DEFINE P == {n \in Nat : \A k \in DOMAIN d : n \in DOMAIN c /\ c[n] = d[k] => k = n}
  <1>1. /\ DOMAIN c = 1..Len(c) /\ Len(c) \in Nat
        /\ DOMAIN d = 1..Len(d) /\ Len(d) \in Nat
    BY Chain
  <1>2. 0 \in P
    BY <1>1
  <1>3. ASSUME NEW n \in P PROVE n + 1 \in P
    <2>1. n + 1 \in Nat
      OBVIOUS
    <2>2. SUFFICES ASSUME NEW k \in DOMAIN d, n + 1 \in DOMAIN c, c[n + 1] = d[k]
                   PROVE  k = n + 1
      BY <2>1
    <2>3. k \in Nat /\ k >= 1
      BY <1>1
    <2>4. CASE n = 0
      <3>1. Parent[d[k]] = NoBlock
        BY <2>2, <2>4, Chain
      <3>2. CASE k > 1
        <4>1. Parent[d[k]] = d[k - 1] /\ k - 1 \in DOMAIN d
          BY <3>2, Chain
        <4>2. d[k - 1] \in Blocks
          BY <4>1, Chain
        <4>3. QED
          BY <3>1, <4>1, <4>2, ScanAssumption
      <3>3. QED
        BY <2>3, <2>4, <3>2
    <2>5. CASE n # 0
      <3>1. n \in DOMAIN c /\ Parent[c[n + 1]] = c[n]
        <4>1. n + 1 > 1 /\ (n + 1) - 1 = n
          BY <2>5
        <4>2. QED
          BY <2>2, <4>1, Chain
      <3>2. c[n] \in Blocks
        BY <3>1, Chain
      <3>3. k # 1
        <4>1. k = 1 => Parent[d[k]] = NoBlock
          BY Chain
        <4>2. QED
          BY <2>2, <3>1, <3>2, <4>1, ScanAssumption
      <3>4. k - 1 \in DOMAIN d /\ Parent[d[k]] = d[k - 1]
        BY <2>3, <3>3, Chain
      <3>5. k - 1 = n
        BY <2>2, <3>1, <3>4
      <3>6. QED
        BY <2>3, <3>5
    <2>6. QED
      BY <2>4, <2>5
  <1>4. P = Nat
    <2> HIDE DEF P
    <2>1. P \in SUBSET Nat
      BY DEF P
    <2>2. QED
      BY <1>2, <1>3, <2>1, NaturalInduction
  <1>5. QED
    BY <1>1, <1>4

\* Two chains that have a block in common have all those below it.
LEMMA SameBelow ==
    ASSUME NEW c \in BestChains, NEW d \in BestChains,
           NEW h \in Nat, h \in DOMAIN c, h \in DOMAIN d, c[h] = d[h],
           NEW g \in 1..h
    PROVE  g \in DOMAIN c /\ g \in DOMAIN d /\ c[g] = d[g]
  <1>1. /\ DOMAIN c = 1..Len(c) /\ Len(c) \in Nat
        /\ DOMAIN d = 1..Len(d) /\ Len(d) \in Nat
    BY Chain
  <1> DEFINE P == {n \in Nat : n < h => c[h - n] = d[h - n]}
  <1>2. 0 \in P
    OBVIOUS
  <1>3. ASSUME NEW n \in P PROVE n + 1 \in P
    <2>1. SUFFICES ASSUME n + 1 < h PROVE c[h - (n + 1)] = d[h - (n + 1)]
      OBVIOUS
    <2> DEFINE k == h - n
    <2>2. k \in DOMAIN c /\ k \in DOMAIN d /\ k > 1 /\ c[k] = d[k] /\ h - (n + 1) = k - 1
      BY <1>1, <2>1
    <2> HIDE DEF k
    <2>3. Parent[c[k]] = c[k - 1] /\ Parent[d[k]] = d[k - 1]
      BY <2>2, Chain
    <2>4. QED
      BY <2>2, <2>3
  <1>4. P = Nat
    <2> HIDE DEF P
    <2>1. P \in SUBSET Nat
      BY DEF P
    <2>2. QED
      BY <1>2, <1>3, <2>1, NaturalInduction
  <1>5. h - g \in Nat /\ h - g < h /\ h - (h - g) = g /\ g \in DOMAIN c /\ g \in DOMAIN d
    BY <1>1
  <1>6. h - g \in P
    BY <1>4, <1>5
  <1>7. QED
    BY <1>5, <1>6

-----------------------------------------------------------------------------
(* Sequences of transactions. *)

LEMMA TxsInEmpty == TxsIn(<<>>) = <<>>
  BY DEF TxsIn

LEMMA TxsInAppend ==
    ASSUME NEW s \in Seq(Entries), NEW e \in Entries
    PROVE  /\ TxsIn(s) \in Seq(Txs)
           /\ TxsIn(Append(s, e)) = Append(TxsIn(s), e.tx)
  <1>1. /\ Len(s) \in Nat /\ DOMAIN s = 1..Len(s) /\ e.tx \in Txs
        /\ \A i \in 1..Len(s) : s[i].tx \in Txs
    <2>1. \A i \in 1..Len(s) : s[i] \in Entries
      BY ElementOfSeq
    <2>2. QED
      BY <2>1, LenProperties DEF Entries
  <1>2. TxsIn(s) \in Seq(Txs) /\ Len(TxsIn(s)) = Len(s)
    BY <1>1 DEF TxsIn
  <1> DEFINE u == Append(s, e)
             N == Len(s)
             p == TxsIn(s)
             q == Append(p, e.tx)
  <1>3. /\ u \in Seq(Entries) /\ Len(u) = N + 1 /\ N \in Nat /\ DOMAIN u = 1..(N + 1)
        /\ \A i \in 1..N : u[i] = s[i]
        /\ u[N + 1] = e
    BY AppendProperties, LenProperties
  <1>4. /\ q \in Seq(Txs) /\ Len(q) = N + 1 /\ DOMAIN q = 1..(N + 1)
        /\ \A i \in 1..N : q[i] = p[i]
        /\ q[N + 1] = e.tx
    BY <1>1, <1>2, AppendProperties, LenProperties
  <1>5. \A i \in 1..N : p[i] = s[i].tx
    BY <1>1 DEF TxsIn
  <1> HIDE DEF u, p, q, N
  <1>6. TxsIn(u) = [i \in 1..(N + 1) |-> u[i].tx]
    BY <1>3 DEF TxsIn
  <1>7. q = [i \in 1..(N + 1) |-> q[i]]
    <2>1. q \in [1..(N + 1) -> Txs]
      BY <1>4, LenProperties
    <2>2. QED
      BY <2>1
  <1>8. \A i \in 1..(N + 1) : u[i].tx = q[i]
    <2>1. \A i \in 1..(N + 1) : i \in 1..N \/ i = N + 1
      BY <1>3
    <2>2. QED
      BY <1>3, <1>4, <1>5, <2>1
  <1>9. TxsIn(u) = q
    BY <1>6, <1>7, <1>8
  <1>10. QED
    BY <1>2, <1>9 DEF u, q, p

\* A prefix stays one.
LEMMA PrefixAppend ==
    ASSUME NEW a \in Seq(Txs), NEW b \in Seq(Txs), NEW t \in Txs, IsPrefix(a, b)
    PROVE  IsPrefix(a, Append(b, t))
  <1>1. /\ Len(a) \in Nat /\ Len(b) \in Nat /\ Len(a) <= Len(b)
        /\ SubSeq(a, 1, Len(a)) = SubSeq(b, 1, Len(a))
    BY DEF IsPrefix
  <1>2. Len(Append(b, t)) = Len(b) + 1
    BY AppendProperties
  <1>3. SubSeq(Append(b, t), 1, Len(a)) = SubSeq(b, 1, Len(a))
    <2>1. CASE Len(a) = 0
      BY <2>1, SubSeqEmpty
    <2>2. CASE Len(a) # 0
      <3>1. Append(b, t) = b \o <<t>> /\ <<t>> \in Seq(Txs)
        BY AppendIsConcat
      <3>2. 1 \in 1..Len(b) /\ Len(a) \in 1..Len(b)
        BY <1>1, <2>2
      <3>3. QED
        BY <3>1, <3>2, SubSeqOfConcat1
    <2>3. QED
      BY <2>1, <2>2
  <1>4. QED
    BY <1>1, <1>2, <1>3 DEF IsPrefix

LEMMA ConcatAppend ==
    ASSUME NEW a \in Seq(Txs), NEW b \in Seq(Txs), NEW t \in Txs
    PROVE  a \o Append(b, t) = Append(a \o b, t)
  <1>1. <<t>> \in Seq(Txs) /\ a \o b \in Seq(Txs)
    BY ConcatProperties
  <1>2. Append(b, t) = b \o <<t>> /\ Append(a \o b, t) = (a \o b) \o <<t>>
    BY <1>1, AppendIsConcat
  <1>3. QED
    BY <1>1, <1>2, ConcatAssociative

\* More transactions add effects and take none away.
LEMMA ReplayLonger ==
    ASSUME NEW s \in Seq(Txs), NEW t \in Seq(Txs)
    PROVE  IsPrefix(Replay(s), Replay(s \o t))
  <1> DEFINE F == {q \in Seq(Txs) : IsPrefix(Replay(s), Replay(s \o q))}
  <1>1. <<>> \in F
    <2>1. s \o <<>> = s /\ <<>> \in Seq(Txs)
      BY ConcatEmptySeq, EmptySeq
    <2>2. QED
      BY <2>1 DEF IsPrefix
  <1>2. ASSUME NEW q \in F, NEW x \in Txs PROVE Append(q, x) \in F
    <2>1. s \o q \in Seq(Txs) /\ Append(q, x) \in Seq(Txs)
      BY ConcatProperties, AppendProperties
    <2>2. s \o Append(q, x) = Append(s \o q, x)
      BY ConcatAppend
    <2>3. /\ Replay(s \o q) \in Seq(Txs) /\ Replay(s) \in Seq(Txs)
          /\ Replay(Append(s \o q, x)) = ReplayStep(Replay(s \o q), x)
      BY <2>1, ReplayAppend
    <2>4. IsPrefix(Replay(s), Append(Replay(s \o q), x))
      BY <2>3, PrefixAppend
    <2>5. IsPrefix(Replay(s), ReplayStep(Replay(s \o q), x))
      BY <2>4 DEF ReplayStep
    <2>6. QED
      BY <2>1, <2>2, <2>3, <2>5
  <1>3. F = Seq(Txs)
    <2> HIDE DEF F
    <2>1. F \in SUBSET Seq(Txs)
      BY DEF F
    <2>2. QED
      BY <1>1, <1>2, <2>1, SequenceInduction
  <1>4. QED
    BY <1>3

\* The first m of a block's transactions, and one more.
LEMMA FirstTxs ==
    ASSUME NEW T \in Seq(Txs), NEW m \in 0..Len(T)
    PROVE  /\ SubSeq(T, 1, m) \in Seq(Txs)
           /\ m = 0 => SubSeq(T, 1, m) = <<>>
           /\ m = Len(T) => SubSeq(T, 1, m) = T
           /\ m < Len(T) => SubSeq(T, 1, m + 1) = Append(SubSeq(T, 1, m), T[m + 1])
           /\ ToSet(SubSeq(T, 1, m)) = {T[i] : i \in 1..m}
  <1>1. Len(T) \in Nat /\ \A i \in 1..Len(T) : T[i] \in Txs
    BY LenProperties, ElementOfSeq
  <1>2. /\ SubSeq(T, 1, m) \in Seq(Txs)
        /\ Len(SubSeq(T, 1, m)) = m
        /\ \A i \in 1..m : SubSeq(T, 1, m)[i] = T[i]
    <2>1. \A i \in 1..m : T[i] \in Txs
      BY <1>1
    <2>2. /\ SubSeq(T, 1, m) \in Seq(Txs)
          /\ Len(SubSeq(T, 1, m)) = IF 1 <= m THEN m - 1 + 1 ELSE 0
          /\ \A i \in 1..(m - 1 + 1) : SubSeq(T, 1, m)[i] = T[1 + i - 1]
      BY <1>1, <2>1, SubSeqProperties
    <2>3. QED
      BY <1>1, <2>2
  <1>3. m = 0 => SubSeq(T, 1, m) = <<>>
    BY SubSeqEmpty
  <1>4. m = Len(T) => SubSeq(T, 1, m) = T
    BY SubSeqFull
  <1>5. m < Len(T) => SubSeq(T, 1, m + 1) = Append(SubSeq(T, 1, m), T[m + 1])
    <2>1. SUFFICES ASSUME m < Len(T)
                   PROVE  SubSeq(T, 1, m + 1) = Append(SubSeq(T, 1, m), T[m + 1])
      OBVIOUS
    <2>2. m + 1 \in 1..Len(T) /\ 1 \in 1..Len(T) /\ m + 1 \in 1..Len(T) /\ (m + 1) - 1 = m
      BY <1>1, <2>1
    <2>3. SubSeq(T, 1, m + 1) = SubSeq(T, 1, (m + 1) - 1) \o <<T[m + 1]>>
      BY <2>2, SubSeqRecursiveSecond
    <2>4. Append(SubSeq(T, 1, m), T[m + 1]) = SubSeq(T, 1, m) \o <<T[m + 1]>>
      BY <1>1, <1>2, <2>2, AppendIsConcat
    <2>5. QED
      BY <2>2, <2>3, <2>4
  <1>6. ToSet(SubSeq(T, 1, m)) = {T[i] : i \in 1..m}
    <2> DEFINE s == SubSeq(T, 1, m)
    <2>1. DOMAIN s = 1..m /\ \A i \in 1..m : s[i] = T[i]
      BY <1>2, LenProperties
    <2> HIDE DEF s
    <2>2. ToSet(s) = {T[i] : i \in 1..m}
      BY <2>1 DEF ToSet
    <2>3. QED
      BY <2>2 DEF s
  <1>7. QED
    BY <1>2, <1>3, <1>4, <1>5, <1>6

\* What is left of them after k.
LEMMA RestTxs ==
    ASSUME NEW T \in Seq(Txs), NEW k \in 0..Len(T)
    PROVE  /\ SubSeq(T, k + 1, Len(T)) = <<>> <=> k = Len(T)
           /\ Len(SubSeq(T, k + 1, Len(T))) = Len(T) - k
           /\ k < Len(T) =>
                /\ Head(SubSeq(T, k + 1, Len(T))) = T[k + 1]
                /\ Tail(SubSeq(T, k + 1, Len(T))) = SubSeq(T, k + 1 + 1, Len(T))
  <1>1. Len(T) \in Nat /\ \A i \in 1..Len(T) : T[i] \in Txs
    BY LenProperties, ElementOfSeq
  <1>2. CASE k = Len(T)
    <2>1. SubSeq(T, k + 1, Len(T)) = <<>>
      BY <1>1, <1>2, SubSeqEmpty
    <2>2. QED
      BY <1>1, <1>2, <2>1
  <1>3. CASE k < Len(T)
    <2>1. k + 1 \in 1..Len(T) /\ Len(T) \in (k + 1)..Len(T)
      BY <1>1, <1>3
    <2>2. /\ Head(SubSeq(T, k + 1, Len(T))) = T[k + 1]
          /\ Tail(SubSeq(T, k + 1, Len(T))) = SubSeq(T, k + 1 + 1, Len(T))
      BY <2>1, HeadTailOfSubSeq
    <2>3. Len(SubSeq(T, k + 1, Len(T))) = Len(T) - k
      <3>1. \A i \in (k + 1)..Len(T) : T[i] \in Txs
        BY <1>1
      <3>2. Len(SubSeq(T, k + 1, Len(T))) = IF k + 1 <= Len(T) THEN Len(T) - (k + 1) + 1 ELSE 0
        BY <1>1, <3>1, SubSeqProperties
      <3>3. QED
        BY <1>1, <1>3, <3>2
    <2>4. SubSeq(T, k + 1, Len(T)) # <<>>
      <3>1. Len(T) - k # 0
        BY <1>1, <1>3
      <3>2. QED
        BY <2>3, <3>1
    <2>5. QED
      BY <1>3, <2>2, <2>3, <2>4
  <1>4. QED
    BY <1>1, <1>2, <1>3

-----------------------------------------------------------------------------
(* A scan without a lapse, one step at a time. *)

LEMMA RowsOK == TypeOK => Rows(block)
  BY DEF TypeOK, Rows

\* A step that leaves the tables alone, and no transaction in hand.
LEMMA QuietStep ==
    ASSUME Unlapsed, UNCHANGED <<durable, height>>, pc # "exec",
           pc' \in {"idle", "loop", "fetch"}
    PROVE  Unlapsed'
  <1>1. /\ block' = block /\ info' = info /\ journal' = journal /\ height' = height
        /\ leftover' = leftover
    BY DEF durable
  <1>2. RootOK' /\ OnChain' /\ BlocksDone' /\ NoneAbove'
    BY <1>1 DEF Unlapsed, RootOK, OnChain, ChainBelow, BlocksDone, NoneAbove
  <1>3. Saved = {} /\ Saved' = {}
    BY DEF Saved
  <1>4. \A b, m : Partial(b, m) => Partial(b, m)'
    BY <1>1, <1>3 DEF Partial, ChildOf
  <1>5. SomeBlock'
    BY <1>1, <1>4 DEF Unlapsed, SomeBlock
  <1>6. QED
    BY <1>1, <1>2, <1>5 DEF Unlapsed

\* The rows below height are blocks.
LEMMA BelowHeight ==
    ASSUME TypeOK, OnChain, NEW h \in 1..(height - 1)
    PROVE  /\ h \in DOMAIN block /\ block[h] \in Blocks
           /\ TxsAt(block, h) = TxsOf[block[h]]
  <1>1. PICK c \in BestChains : ChainBelow(c)
    BY DEF OnChain
  <1>2. h \in DOMAIN c /\ block[h] = c[h] /\ h \in DOMAIN block
    <2>1. DOMAIN c = 1..Len(c) /\ Len(c) \in Nat /\ height - 1 <= Len(c) /\ height \in Nat
      BY <1>1, Chain DEF ChainBelow, TypeOK
    <2>2. QED
      BY <1>1, <2>1 DEF ChainBelow
  <1>3. block[h] \in Blocks
    BY <1>2, Chain
  <1>4. QED
    BY <1>2, <1>3, ScanAssumption DEF TxsAt

\* A first part of nothing is any block's.
LEMMA NothingDone ==
    ASSUME NEW b \in Blocks, TxsIn(journal) = Replay(TxsThrough(block, height - 1)),
           TypeOK, \A t \in DOMAIN info \ Saved : ~(info[t].height >= height)
    PROVE  0 \in 0..Len(TxsOf[b]) /\ Partial(b, 0)
  <1>1. TxsOf[b] \in Seq(Txs) /\ Len(TxsOf[b]) \in Nat
    BY ScanAssumption
  <1>2. SubSeq(TxsOf[b], 1, 0) = <<>>
    BY <1>1, SubSeqEmpty
  <1>3. TxsThrough(block, height - 1) \in Seq(Txs)
    BY RowsOK, ThroughType DEF TypeOK
  <1>4. TxsThrough(block, height - 1) \o SubSeq(TxsOf[b], 1, 0) = TxsThrough(block, height - 1)
    BY <1>2, <1>3, ConcatEmptySeq
  <1>5. 0 \in 0..Len(TxsOf[b]) /\ ~(0 > 0) /\ 1..0 = {}
    BY <1>1
  <1>6. Partial(b, 0)
    BY <1>4, <1>5, Zenon DEF Partial
  <1>7. QED
    BY <1>5, <1>6

LEMMA UnlapsedInit == Init /\ from = 0 => Unlapsed
  <1> SUFFICES ASSUME Init, from = 0 PROVE Unlapsed
    OBVIOUS
  <1>1. TypeOK
    BY TypeInit
  <1>2. PICK s \in Starts : from = s.from /\ block = s.rows
    BY DEF Init
  <1>0. PICK c \in BestChains : \E n \in 0..Len(c) :
          s.rows = SubSeq(c, 1, n) /\ \A h \in 1..n : TxsOf[c[h]] = <<>>
    BY <1>2, ChainAssumption
  <1>3. PICK n \in 0..Len(c) :
          s.rows = SubSeq(c, 1, n) /\ \A h \in 1..n : TxsOf[c[h]] = <<>>
    BY <1>0
  <1>4. Len(c) \in Nat /\ DOMAIN c = 1..Len(c) /\ \A h \in 1..Len(c) : c[h] \in Blocks
    BY Chain
  <1>5. DOMAIN block = 1..n /\ \A h \in 1..n : block[h] = c[h]
    <2>1. \A h \in 1..n : c[h] \in Blocks
      BY <1>4
    <2>2. /\ SubSeq(c, 1, n) \in Seq(Blocks)
          /\ Len(SubSeq(c, 1, n)) = IF 1 <= n THEN n - 1 + 1 ELSE 0
          /\ \A i \in 1..(n - 1 + 1) : SubSeq(c, 1, n)[i] = c[1 + i - 1]
      BY <1>4, <2>1, SubSeqProperties
    <2>3. Len(SubSeq(c, 1, n)) = n /\ \A i \in 1..n : SubSeq(c, 1, n)[i] = c[i]
      BY <1>4, <2>2
    <2>4. DOMAIN SubSeq(c, 1, n) = 1..n
      BY <2>2, <2>3, LenProperties
    <2>5. QED
      BY <1>2, <1>3, <2>3, <2>4
  <1>6. height = IF n = 0 THEN 0 ELSE n + 1
    <2>1. height = Resume(block)
      BY DEF Init
    <2>2. CASE n = 0
      <3>1. DOMAIN block = {}
        BY <1>5, <2>2
      <3>2. QED
        BY <2>1, <2>2, <3>1 DEF Resume
    <2>3. CASE n # 0
      <3> DEFINE top == CHOOSE h \in DOMAIN block : \A g \in DOMAIN block : g <= h
      <3>1. n \in DOMAIN block /\ \A g \in DOMAIN block : g <= n
        BY <1>4, <1>5, <2>3
      <3>2. top \in DOMAIN block /\ \A g \in DOMAIN block : g <= top
        BY <3>1
      <3> HIDE DEF top
      <3>3. top = n
        BY <1>4, <1>5, <3>1, <3>2
      <3>4. Resume(block) = 1 + top
        BY <3>1 DEF Resume, top
      <3>5. QED
        BY <1>4, <2>1, <2>3, <3>3, <3>4
    <2>4. QED
      BY <2>2, <2>3
  <1>7. journal = <<>> /\ DOMAIN info = {} /\ pc = "idle" /\ leftover = {}
    BY DEF Init
  <1>8. RootOK /\ NoneAbove
    <2>1. DOMAIN journal = {}
      BY <1>7
    <2>2. 0 \notin DOMAIN block
      BY <1>4, <1>5
    <2>3. QED
      BY <2>1, <2>2 DEF RootOK, NoneAbove
  <1>9. ChainBelow(c)
    BY <1>4, <1>5, <1>6 DEF ChainBelow
  <1>10. Rows(block)
    BY <1>1, RowsOK
  <1>11. \A h \in 1..n : TxsOf[block[h]] = <<>> /\ TxsAt(block, h) = <<>>
    BY <1>3, <1>5 DEF TxsAt
  <1>12. ASSUME NEW h \in Int, h <= n PROVE TxsThrough(block, h) = <<>>
    <2>1. \A g \in 1..h : g \in 1..n
      BY <1>4, <1>12
    <2>2. \A g \in 1..h : TxsAt(block, g) = <<>>
      BY <1>11, <2>1
    <2>3. QED
      BY <1>10, <2>2, ThroughEmpty
  <1>13. BlocksDone
    <2>1. ASSUME NEW h \in 0..(height - 1)
          PROVE  TxsIn(EntriesUpTo(journal, h)) = Replay(TxsThrough(block, h))
      <3>1. h \in Int /\ h <= n
        BY <1>4, <1>6
      <3>2. TxsThrough(block, h) = <<>> /\ EntriesUpTo(journal, h) = <<>>
        BY <1>7, <1>12, <3>1, KeepEmpty
      <3>3. QED
        BY <3>2, TxsInEmpty, ReplayEmpty
    <2>2. ASSUME NEW h \in 1..(height - 1), NEW i \in DOMAIN TxsOf[block[h]]
          PROVE  FALSE
      <3>1. h \in 1..n
        BY <1>4, <1>6
      <3>2. TxsOf[block[h]] = <<>>
        BY <1>11, <3>1
      <3>3. QED
        BY <3>2
    <2>3. QED
      BY <1>7, <2>1, <2>2 DEF BlocksDone
  <1>14. SomeBlock
    <2>1. CASE n = 0
      BY <1>6, <1>7, <2>1 DEF SomeBlock
    <2>2. CASE n # 0
      <3>1. c[1] \in Blocks
        BY <1>4, <2>2
      <3>2. TxsThrough(block, height - 1) = <<>>
        BY <1>4, <1>6, <1>12, <2>2
      <3>3. TxsIn(journal) = Replay(TxsThrough(block, height - 1))
        BY <1>7, <3>2, TxsInEmpty, ReplayEmpty
      <3>4. 0 \in 0..Len(TxsOf[c[1]]) /\ Partial(c[1], 0)
        BY <1>1, <1>7, <3>1, <3>3, NothingDone
      <3>5. QED
        BY <3>1, <3>4 DEF SomeBlock
    <2>3. QED
      BY <2>1, <2>2
  <1>15. QED
    BY <1>7, <1>8, <1>9, <1>13, <1>14 DEF Unlapsed, OnChain

LEMMA AdoptStep ==
    ASSUME TypeOK, TypeOK', Unlapsed, AdoptParent
    PROVE  Unlapsed'
  <1>1. /\ height \in DOMAIN chain /\ chain \in BestChains /\ height \in Nat /\ height >= 1
        /\ height - 1 \notin DOMAIN block
    BY Chain DEF AdoptParent, AtHead, TypeOK
  <1>2. height = 1
    <2>1. SUFFICES ASSUME height > 1 PROVE FALSE
      BY <1>1
    <2>2. height - 1 \in 1..(height - 1)
      BY <1>1, <2>1
    <2>3. QED
      BY <1>1, <2>2, BelowHeight DEF Unlapsed
  <1>3. Parent[chain[height]] = NoBlock
    BY <1>1, <1>2, Chain
  <1>4. /\ UNCHANGED <<info, journal, leftover, height>> /\ pc = "loop" /\ pc' = "idle"
        /\ block'[0] = NoBlock
    BY <1>2, <1>3 DEF AdoptParent, AtHead, Return
  <1>5. RootOK' /\ NoneAbove'
    BY <1>4 DEF RootOK, NoneAbove, Unlapsed
  <1>6. OnChain'
    <2>1. PICK c \in BestChains : ChainBelow(c)
      BY DEF Unlapsed, OnChain
    <2>2. ChainBelow(c)'
      BY <1>2, <1>4, <2>1 DEF ChainBelow
    <2>3. QED
      BY <2>2 DEF OnChain
  <1>7. \A n \in Int : n <= 0 => TxsThrough(block', n) = <<>> /\ TxsThrough(block, n) = <<>>
    BY ThroughNone, RowsOK DEF TypeOK, Rows
  <1>8. BlocksDone'
    <2>1. \A h \in 0..(height - 1) : TxsThrough(block', h) = TxsThrough(block, h)
      BY <1>2, <1>7
    <2>2. 1..(height - 1) = {}
      BY <1>2
    <2>3. QED
      BY <1>4, <2>1, <2>2 DEF BlocksDone, Unlapsed
  <1>9. SomeBlock'
    <2>1. TxsThrough(block', height - 1) = TxsThrough(block, height - 1)
      BY <1>2, <1>7
    <2>2. Saved = {} /\ Saved' = {}
      BY <1>4 DEF Saved
    <2>3. ASSUME NEW b, NEW m, Partial(b, m) PROVE Partial(b, m)'
      BY <1>2, <1>4, <2>1, <2>2, <2>3 DEF Partial, ChildOf
    <2>4. QED
      BY <1>2, <1>4, <2>3 DEF SomeBlock, Unlapsed
  <1>10. QED
    BY <1>4, <1>5, <1>6, <1>8, <1>9 DEF Unlapsed

LEMMA WalkStep ==
    ASSUME TypeOK, TypeOK', Unlapsed, HeadDiffers \/ WalkBack
    PROVE  Unlapsed'
  <1>1. /\ block' = block /\ info' = info /\ journal' = journal /\ height' = height
        /\ leftover' = leftover
    BY DEF HeadDiffers, WalkBack, durable
  <1>2. pc \in {"loop", "walk"} /\ pc' = "walk"
    BY DEF HeadDiffers, WalkBack, AtHead
  <1>3. RootOK' /\ OnChain' /\ BlocksDone' /\ NoneAbove'
    BY <1>1 DEF Unlapsed, RootOK, OnChain, ChainBelow, BlocksDone, NoneAbove
  <1>4. Saved = {} /\ Saved' = {}
    BY <1>2 DEF Saved
  <1>5. \A b, m : Partial(b, m) => Partial(b, m)'
    BY <1>1, <1>4 DEF Partial, ChildOf
  <1>6. SomeBlock'
    BY <1>1, <1>5 DEF Unlapsed, SomeBlock
  <1>7. WalkOK'
    <2>1. CASE HeadDiffers
      <3>1. /\ height \in DOMAIN chain /\ chain \in BestChains /\ height \in Nat /\ height >= 1
        BY <2>1, Chain DEF HeadDiffers, AtHead, TypeOK
      <3>2. QED
        BY <1>1, <2>1, <3>1 DEF HeadDiffers, WalkOK
    <2>2. CASE WalkBack
      <3>1. WalkOK /\ walk - 1 \in DOMAIN chain /\ chain \in BestChains /\ height \in Nat
        BY <2>2 DEF WalkBack, Unlapsed, TypeOK
      <3>2. walk - 1 \in 1..(height - 1) /\ walk' = walk - 1 /\ walk' # height
        BY <2>2, <3>1, Chain DEF WalkBack, WalkOK
      <3>3. walk - 1 \in DOMAIN block
        BY <3>2, BelowHeight DEF Unlapsed
      <3>4. localHash' = block[walk - 1] /\ hash' = chain[walk - 1]
        BY <2>2, <3>3 DEF WalkBack, LocalHashAt
      <3>5. walk' \in 1..height
        BY <3>1, <3>2
      <3>6. QED
        BY <1>1, <3>1, <3>2, <3>4, <3>5 DEF WalkOK
    <2>3. QED
      BY <2>1, <2>2
  <1>8. QED
    BY <1>1, <1>2, <1>3, <1>6, <1>7 DEF Unlapsed

\* The common ancestor is below the block that forkBack started from.
LEMMA AncestorBelow ==
    ASSUME TypeOK, Unlapsed, ForkCommit
    PROVE  walk \in 1..(height - 1)
  <1>1. WalkOK /\ hash = localHash /\ height \in Nat /\ walk \in Nat
    BY DEF ForkCommit, AtAncestor, Unlapsed, TypeOK
  <1>2. PICK d \in BestChains : ChainBelow(d)
    BY DEF Unlapsed, OnChain
  <1>3. \A h \in 1..(height - 1) : h \in DOMAIN d /\ block[h] = d[h]
    <2>1. DOMAIN d = 1..Len(d) /\ Len(d) \in Nat
      BY Chain
    <2>2. QED
      BY <1>1, <1>2, <2>1 DEF ChainBelow
  <1>4. walk # height
    <2>1. SUFFICES ASSUME walk = height PROVE FALSE
      OBVIOUS
    <2>2. PICK c \in BestChains : height \in DOMAIN c /\ hash = c[height]
      BY <1>1, <2>1 DEF WalkOK
    <2>3. block[height - 1] = c[height] /\ height - 1 \in DOMAIN block /\ height >= 1
      BY <1>1, <2>1, <2>2 DEF WalkOK
    <2>4. CASE height = 1
      <3>1. c[height] \in Blocks
        BY <2>2, Chain
      <3>2. block[0] = NoBlock
        BY <2>3, <2>4 DEF Unlapsed, RootOK
      <3>3. QED
        BY <2>3, <2>4, <3>1, <3>2, ScanAssumption
    <2>5. CASE height > 1
      <3>1. height - 1 \in DOMAIN d /\ block[height - 1] = d[height - 1]
        BY <1>1, <1>3, <2>5
      <3>2. height - 1 = height
        BY <2>2, <2>3, <3>1, OneHeight
      <3>3. QED
        BY <1>1, <3>2
    <2>6. QED
      BY <1>1, <2>3, <2>4, <2>5
  <1>5. QED
    BY <1>1, <1>4 DEF WalkOK

\* fork(): what is left is what the blocks up to the ancestor gave.
LEMMA ForkStep ==
    ASSUME TypeOK, TypeOK', Unlapsed, ForkCommit, lapses' = {}
    PROVE  Unlapsed'
  <1>l. LeftAbove(walk) = {} /\ leftover = {}
    BY DEF ForkCommit, Lapse, Unlapsed
  <1>k. leftover' = {} /\ DeletedAgain(walk) = {}
    BY <1>l DEF ForkCommit, DeletedAgain
  <1>i. \A t \in DOMAIN info : Kind[t] = "consensus" => info[t].height <= walk
    <2>1. SUFFICES ASSUME NEW t \in DOMAIN info, Kind[t] = "consensus",
                          ~(info[t].height <= walk)
                   PROVE  FALSE
      OBVIOUS
    <2>2. info[t].height > walk
      BY <2>1 DEF TypeOK, Infos
    <2>3. [tx |-> t, height |-> info[t].height] \in LeftAbove(walk)
      BY <2>1, <2>2 DEF LeftAbove
    <2>4. QED
      BY <1>l, <2>3
  <1>1. /\ block' = block /\ height' = walk /\ pc' = "fetch"
        /\ journal' = EntriesUpTo(journal, walk)
        /\ DOMAIN info' = {u \in DOMAIN info : info[u].height <= walk}
        /\ \A t \in DOMAIN info' : info'[t] = info[t]
    BY <1>i, <1>k DEF ForkCommit, UndoJournal, EntriesUpTo, DelInfo
  <1>2. /\ WalkOK /\ hash = localHash /\ height \in Nat /\ walk \in Nat
        /\ journal \in Seq(Entries)
    BY DEF ForkCommit, AtAncestor, Unlapsed, TypeOK
  <1>3. PICK d \in BestChains : ChainBelow(d)
    BY DEF Unlapsed, OnChain
  <1>4. /\ DOMAIN d = 1..Len(d) /\ Len(d) \in Nat /\ \A h \in DOMAIN d : d[h] \in Blocks
        /\ height - 1 <= Len(d)
        /\ \A h \in 1..(height - 1) : h \in DOMAIN d /\ h \in DOMAIN block /\ block[h] = d[h]
    BY <1>2, <1>3, Chain DEF ChainBelow
  <1>5. walk \in 1..(height - 1)
    BY AncestorBelow
  <1>6. walk \in 1..(height - 1) /\ \A h \in 1..(walk - 1) : h \in 1..(height - 1)
    BY <1>2, <1>5
  <1>b. PICK b : b = block[walk]
    OBVIOUS
  <1> DEFINE T == TxsOf[b]
  <1>7. b \in Blocks /\ b = d[walk] /\ walk \in DOMAIN d /\ TxsAt(block, walk) = T
    BY <1>4, <1>6, <1>b, BelowHeight DEF Unlapsed
  <1>8. T \in Seq(Txs) /\ Len(T) \in Nat /\ DOMAIN T = 1..Len(T)
    BY <1>7, ScanAssumption, LenProperties
  <1>9. Keeps(journal', journal, walk)
    BY <1>1, <1>2, KeepsUpTo
  <1>10. RootOK' /\ NoneAbove'
    BY <1>1, <1>9 DEF RootOK, NoneAbove, Unlapsed, Keeps
  <1>11. OnChain'
    <2>1. ChainBelow(d)'
      BY <1>1, <1>2, <1>4, <1>6 DEF ChainBelow
    <2>2. QED
      BY <2>1 DEF OnChain
  <1>12. BlocksDone'
    <2>1. ASSUME NEW h \in 0..(walk - 1)
          PROVE  TxsIn(EntriesUpTo(journal', h)) = Replay(TxsThrough(block', h))
      <3>1. h \in 0..(height - 1) /\ h \in Int /\ walk \in Int /\ h <= walk
        BY <1>2, <1>6
      <3>2. EntriesUpTo(journal', h) = EntriesUpTo(journal, h)
        BY <1>1, <1>2, <3>1, KeepsTwice
      <3>3. QED
        BY <1>1, <3>1, <3>2 DEF Unlapsed, BlocksDone
    <2>2. ASSUME NEW h \in 1..(walk - 1), NEW i \in DOMAIN TxsOf[block'[h]]
          PROVE  /\ TxsOf[block'[h]][i] \in DOMAIN info'
                 /\ info'[TxsOf[block'[h]][i]].height = h
      <3> DEFINE t == TxsOf[block[h]][i]
      <3>1. t \in DOMAIN info /\ info[t].height = h
        BY <1>1, <1>6 DEF Unlapsed, BlocksDone
      <3>2. h <= walk
        BY <1>2
      <3> HIDE DEF t
      <3>3. t \in DOMAIN info' /\ info'[t].height = h
        BY <1>1, <3>1, <3>2
      <3>4. QED
        BY <1>1, <3>3 DEF t
    <2>3. ASSUME NEW t \in DOMAIN info', info'[t].height < walk
          PROVE  /\ info'[t].height \in 1..(walk - 1)
                 /\ info'[t].block = block'[info'[t].height]
                 /\ t \in ToSet(TxsOf[info'[t].block])
      <3>1. t \in DOMAIN info /\ info'[t] = info[t]
        BY <1>1
      <3>2. info[t].height \in Nat
        BY <3>1 DEF TypeOK, Infos
      <3>3. info[t].height < height
        BY <1>2, <1>6, <2>3, <3>1, <3>2
      <3>4. /\ info[t].height \in 1..(height - 1)
            /\ info[t].block = block[info[t].height]
            /\ t \in ToSet(TxsOf[info[t].block])
        BY <3>1, <3>3 DEF Unlapsed, BlocksDone
      <3>5. info[t].height \in 1..(walk - 1)
        BY <1>2, <2>3, <3>1, <3>2, <3>4
      <3>6. QED
        BY <1>1, <3>1, <3>4, <3>5
    <2>4. QED
      BY <1>1, <2>1, <2>2, <2>3 DEF BlocksDone
  <1>13. Partial(b, Len(T))'
    <2>1. ChildOf(b)'
      <3>1. walk > 1 => Parent[b] = block[walk - 1]
        <4>1. SUFFICES ASSUME walk > 1 PROVE Parent[b] = block[walk - 1]
          OBVIOUS
        <4>2. walk - 1 \in 1..(height - 1)
          BY <1>2, <1>6, <4>1
        <4>3. Parent[d[walk]] = d[walk - 1]
          BY <1>7, <4>1, Chain
        <4>4. QED
          BY <1>4, <1>7, <4>2, <4>3
      <3>2. \E c \in BestChains : walk \in DOMAIN c /\ b = c[walk]
        BY <1>7
      <3>3. QED
        BY <1>1, <3>1, <3>2 DEF ChildOf
    <2>2. TxsIn(journal') = Replay(TxsThrough(block', walk - 1) \o SubSeq(T, 1, Len(T)))
      <3>1. walk \in 0..(height - 1)
        BY <1>6
      <3>2. TxsIn(EntriesUpTo(journal, walk)) = Replay(TxsThrough(block, walk))
        BY <3>1 DEF Unlapsed, BlocksDone
      <3>3. TxsThrough(block, (walk - 1) + 1) =
              TxsThrough(block, walk - 1) \o TxsAt(block, (walk - 1) + 1)
        <4>1. walk - 1 \in Nat /\ Rows(block)
          BY <1>2, <1>6, RowsOK
        <4>2. QED
          BY ONLY <4>1, ThroughNext
      <3>4. (walk - 1) + 1 = walk
        BY <1>2
      <3>5. SubSeq(T, 1, Len(T)) = T
        BY <1>8, SubSeqFull
      <3>6. QED
        BY <1>1, <1>7, <3>2, <3>3, <3>4, <3>5
    <2>3. ASSUME NEW i \in 1..Len(T)
          PROVE  T[i] \in DOMAIN info' /\ info'[T[i]].height = walk
      <3>1. T[i] \in DOMAIN info /\ info[T[i]].height = walk
        BY <1>6, <1>8, <1>b DEF Unlapsed, BlocksDone
      <3>2. walk <= walk
        BY <1>2
      <3> HIDE DEF T
      <3>3. QED
        BY <1>1, <3>1, <3>2
    <2>4. ASSUME NEW t \in DOMAIN info', info'[t].height >= walk
          PROVE  /\ info'[t].height = walk
                 /\ info'[t].block = b
                 /\ t \in ToSet(SubSeq(T, 1, Len(T)))
      <3>1. t \in DOMAIN info /\ info'[t] = info[t] /\ info[t].height <= walk
        BY <1>1
      <3>2. info[t].height \in Nat
        BY <3>1 DEF TypeOK, Infos
      <3>3. info[t].height = walk /\ info[t].height < height
        BY <1>2, <1>6, <2>4, <3>1, <3>2
      <3>4. info[t].block = b /\ t \in ToSet(TxsOf[info[t].block])
        BY <1>b, <3>1, <3>3 DEF Unlapsed, BlocksDone
      <3>5. SubSeq(T, 1, Len(T)) = T
        BY <1>8, SubSeqFull
      <3>6. QED
        BY <3>1, <3>3, <3>4, <3>5
    <2>5. Saved' = {}
      BY <1>1 DEF Saved
    <2>6. QED
      BY <1>1, <2>1, <2>2, <2>3, <2>4, <2>5 DEF Partial
  <1>14. SomeBlock'
    <2>1. Len(T) \in 0..Len(T)
      BY <1>8
    <2>2. QED
      BY <1>7, <1>13, <2>1 DEF SomeBlock
  <1>15. QED
    BY <1>1, <1>k, <1>10, <1>11, <1>12, <1>14 DEF Unlapsed

\* The block in hand: k of its transactions gone through, m in the tables.
Hand(b, k, m) ==
    /\ b = hash
    /\ ChildOf(b) /\ Partial(b, m)
    /\ k <= m /\ (pc = "exec" => k = m)
    /\ todo = SubSeq(TxsOf[b], k + 1, Len(TxsOf[b]))

LEMMA InHand ==
    ASSUME TypeOK, InHandOK, Unlapsed, pc \in {"txs", "exec"}
    PROVE  \E b \in Blocks : \E k, m \in 0..Len(TxsOf[b]) : Hand(b, k, m)
  BY DEF Unlapsed, InBlock, InHandOK, Hand

LEMMA HandTodo ==
    ASSUME NEW b \in Blocks, NEW k \in 0..Len(TxsOf[b]), NEW m, Hand(b, k, m)
    PROVE  /\ TxsOf[b] \in Seq(Txs) /\ Len(TxsOf[b]) \in Nat
           /\ todo = <<>> => k = Len(TxsOf[b])
           /\ todo # <<>> =>
                /\ k < Len(TxsOf[b])
                /\ Head(todo) = TxsOf[b][k + 1]
                /\ Tail(todo) = SubSeq(TxsOf[b], k + 1 + 1, Len(TxsOf[b]))
  <1>1. TxsOf[b] \in Seq(Txs) /\ Len(TxsOf[b]) \in Nat
    BY ScanAssumption
  <1> DEFINE T == TxsOf[b]
  <1>2. todo = SubSeq(T, k + 1, Len(T))
    BY DEF Hand
  <1>3. k \in 0..Len(T) /\ T \in Seq(Txs)
    BY <1>1
  <1> HIDE DEF T
  <1>4. /\ SubSeq(T, k + 1, Len(T)) = <<>> <=> k = Len(T)
        /\ k < Len(T) =>
             /\ Head(SubSeq(T, k + 1, Len(T))) = T[k + 1]
             /\ Tail(SubSeq(T, k + 1, Len(T))) = SubSeq(T, k + 1 + 1, Len(T))
    BY <1>3, RestTxs
  <1>5. todo = <<>> <=> k = Len(T)
    BY <1>2, <1>4
  <1>6. Len(T) \in Nat
    BY <1>3, LenProperties
  <1>7. todo # <<>> => k < Len(T)
    BY <1>3, <1>5, <1>6
  <1>8. QED
    BY <1>1, <1>2, <1>4, <1>5, <1>7 DEF T

LEMMA HandKept ==
    ASSUME NEW b \in Blocks, NEW k \in 0..Len(TxsOf[b]), NEW m \in 0..Len(TxsOf[b]),
           Hand(b, k, m)'
    PROVE  InBlock' /\ SomeBlock'
  BY DEF Hand, InBlock, SomeBlock

\* The block read is a child of the last, and what the tables hold of this
\* height is its own.
LEMMA FetchStep ==
    ASSUME TypeOK, TypeOK', Unlapsed, Fetch, lapses' = {}
    PROVE  Unlapsed'
  <1>1. /\ UNCHANGED <<durable, height>> /\ pc = "fetch" /\ pc' = "txs"
        /\ height \in DOMAIN chain /\ hash' = chain[height]
        /\ todo' = TxsOf[chain[height]] /\ chain \in BestChains /\ height \in Nat
    BY DEF Fetch, TypeOK
  <1>2. /\ block' = block /\ info' = info /\ journal' = journal /\ height' = height
        /\ leftover' = leftover
    BY <1>1 DEF durable
  <1>3. PICK b : b = chain[height]
    OBVIOUS
  <1> DEFINE T == TxsOf[b]
  <1>4. /\ ~Unlinked(b)
        /\ \A t \in DOMAIN info : info[t].height >= height => info[t].block = b
    <2>1. ~Unlinked(b) /\ ~Replaces(b)
      BY <1>1, <1>3 DEF Fetch, Lapse
    <2>2. LeftBehind({"consensus"}) = {}
      BY DEF Unlapsed, LeftBehind
    <2>3. QED
      BY <2>1, <2>2 DEF Replaces
  <1>5. b \in Blocks /\ T \in Seq(Txs) /\ Len(T) \in Nat /\ height >= 1
    BY <1>1, <1>3, Chain, ScanAssumption
  <1>6. RootOK' /\ OnChain' /\ BlocksDone' /\ NoneAbove'
    BY <1>2 DEF Unlapsed, RootOK, OnChain, ChainBelow, BlocksDone, NoneAbove
  <1>7. Saved = {} /\ Saved' = {}
    BY <1>1 DEF Saved
  <1>8. ChildOf(b)
    <2>1. height > 1 => Parent[b] = block[height - 1]
      <3>1. SUFFICES ASSUME height > 1 PROVE Parent[b] = block[height - 1]
        OBVIOUS
      <3>2. height - 1 \in 1..(height - 1)
        BY <1>1, <3>1
      <3>3. height - 1 \in DOMAIN block
        BY <3>2, BelowHeight DEF Unlapsed
      <3>4. QED
        BY <1>4, <3>3 DEF Unlinked
    <2>2. QED
      BY <1>1, <1>3, <2>1 DEF ChildOf
  <1>9. \E m \in 0..Len(T) : Partial(b, m)
    <2>1. height # 0
      BY <1>5
    <2>2. PICK a \in Blocks : \E m \in 0..Len(TxsOf[a]) : Partial(a, m)
      BY <2>1 DEF Unlapsed, SomeBlock
    <2>3. PICK m \in 0..Len(TxsOf[a]) : Partial(a, m)
      BY <2>2
    <2>4. TxsOf[a] \in Seq(Txs) /\ Len(TxsOf[a]) \in Nat
      BY ScanAssumption
    <2>5. CASE m = 0
      <3>1. SubSeq(TxsOf[a], 1, m) = <<>> /\ ToSet(SubSeq(TxsOf[a], 1, m)) = {}
        <4>1. SubSeq(TxsOf[a], 1, m) = <<>>
          BY <2>5, SubSeqEmpty
        <4>2. DOMAIN <<>> = {}
          OBVIOUS
        <4>3. QED
          BY <4>1, <4>2 DEF ToSet
      <3>2. TxsThrough(block, height - 1) \in Seq(Txs)
        BY <1>1, RowsOK, ThroughType
      <3>3. TxsIn(journal) = Replay(TxsThrough(block, height - 1))
        BY <2>3, <3>1, <3>2, ConcatEmptySeq DEF Partial
      <3>4. \A t \in DOMAIN info \ Saved : ~(info[t].height >= height)
        BY <2>3, <3>1 DEF Partial
      <3>5. 0 \in 0..Len(T) /\ Partial(b, 0)
        BY <1>5, <3>3, <3>4, NothingDone
      <3>6. QED
        BY <3>5
    <2>6. CASE m # 0
      <3> DEFINE t == TxsOf[a][1]
      <3>1. 1 \in 1..m /\ m \in 0..Len(TxsOf[a])
        BY <2>3, <2>4, <2>6
      <3>2. t \in DOMAIN info /\ info[t].height = height
        BY <2>3, <3>1 DEF Partial
      <3>3. info[t].height >= height
        BY <1>1, <3>2
      <3>4. info[t].block = b
        BY <1>4, <3>2, <3>3
      <3>5. info[t].block = a
        BY <1>7, <2>3, <3>2, <3>3 DEF Partial
      <3>6. a = b
        BY <3>4, <3>5
      <3>7. QED
        BY <2>3, <3>6
    <2>7. QED
      BY <2>5, <2>6
  <1>10. PICK m \in 0..Len(T) : Partial(b, m)
    BY <1>9
  <1>11. Hand(b, 0, m)'
    <2>1. Partial(b, m)' /\ ChildOf(b)'
      BY <1>2, <1>7, <1>8, <1>10 DEF Partial, ChildOf
    <2>2. SubSeq(T, 0 + 1, Len(T)) = T
      BY <1>5, SubSeqFull
    <2>3. hash' = b /\ todo' = T
      BY <1>1, <1>3
    <2>4. 0 <= m
      BY <1>5
    <2>5. QED
      BY <1>1, <2>1, <2>2, <2>3, <2>4 DEF Hand
  <1>12. InBlock' /\ SomeBlock'
    <2>1. 0 \in 0..Len(TxsOf[b])
      BY <1>5
    <2>2. QED
      BY <1>5, <1>10, <1>11, <2>1, HandKept
  <1>13. QED
    BY <1>1, <1>2, <1>6, <1>12 DEF Unlapsed

\* A transaction that the tables have already is one of the first m.
LEMMA KnownIsDone ==
    ASSUME TypeOK, Unlapsed, pc = "txs",
           NEW b \in Blocks, NEW m \in 0..Len(TxsOf[b]), ChildOf(b), Partial(b, m),
           NEW i \in 1..Len(TxsOf[b]), TxsOf[b][i] \in DOMAIN info
    PROVE  i <= m
  <1> DEFINE T == TxsOf[b]
             t == T[i]
             g == info[t].height
  <1>1. PICK c \in BestChains : height \in DOMAIN c /\ b = c[height]
    BY DEF ChildOf
  <1>2. /\ DOMAIN c = 1..Len(c) /\ Len(c) \in Nat /\ height \in Nat /\ height >= 1
        /\ T \in Seq(Txs) /\ Len(T) \in Nat /\ DOMAIN T = 1..Len(T)
    BY <1>1, Chain, LenProperties, ScanAssumption
  <1>3. Saved = {}
    BY DEF Saved
  <1>4. g \in Nat
    BY DEF TypeOK, Infos
  <1>5. CASE g >= height
    <2>1. t \in ToSet(SubSeq(T, 1, m))
      BY <1>3, <1>5 DEF Partial
    <2>2. ToSet(SubSeq(T, 1, m)) = {T[j] : j \in 1..m}
      BY <1>2, FirstTxs
    <2>3. PICK j \in 1..m : T[j] = t
      BY <2>1, <2>2
    <2>4. j \in DOMAIN T /\ i \in DOMAIN T
      BY <1>2
    <2>5. i = j
      BY <1>1, <2>3, <2>4, ChainAssumption
    <2>6. QED
      BY <2>5
  <1>6. CASE g < height
    <2>1. /\ g \in 1..(height - 1)
          /\ info[t].block = block[g]
          /\ t \in ToSet(TxsOf[block[g]])
      BY <1>6 DEF Unlapsed, BlocksDone
    <2>2. PICK j \in DOMAIN TxsOf[block[g]] : TxsOf[block[g]][j] = t
      BY <2>1 DEF ToSet
    <2>3. PICK d \in BestChains : ChainBelow(d)
      BY DEF Unlapsed, OnChain
    <2>4. /\ DOMAIN d = 1..Len(d) /\ Len(d) \in Nat /\ height - 1 <= Len(d)
          /\ \A h \in 1..(height - 1) : h \in DOMAIN d /\ block[h] = d[h]
      BY <1>2, <2>3, Chain DEF ChainBelow
    <2>5. height > 1 /\ height - 1 \in Nat /\ height - 1 \in 1..(height - 1) /\ height - 1 \in DOMAIN d
      BY <1>2, <2>1, <2>4
    <2>6. c[height - 1] = d[height - 1] /\ height - 1 \in DOMAIN c
      <3>1. Parent[c[height]] = c[height - 1] /\ height - 1 \in DOMAIN c
        BY <1>1, <2>5, Chain
      <3>2. Parent[b] = block[height - 1]
        BY <2>5 DEF ChildOf
      <3>3. block[height - 1] = d[height - 1]
        BY <2>4, <2>5
      <3>4. QED
        BY <1>1, <3>1, <3>2, <3>3
    <2>7. g \in DOMAIN c /\ c[g] = d[g]
      BY <2>1, <2>5, <2>6, SameBelow
    <2>8. c[g] = block[g]
      BY <2>1, <2>4, <2>7
    <2>9. i \in DOMAIN T /\ T[i] = t
      BY <1>2
    <2>10. g = height
      BY <1>1, <2>2, <2>7, <2>8, <2>9, ChainAssumption
    <2>11. QED
      BY <1>2, <1>6, <2>10
  <1>7. QED
    BY <1>2, <1>4, <1>5, <1>6

LEMMA SkipStep ==
    ASSUME TypeOK, InHandOK, TypeOK', Unlapsed, SkipKnown
    PROVE  Unlapsed'
  <1>1. /\ UNCHANGED <<durable, height, hash>> /\ pc = "txs" /\ pc' = "txs" /\ todo # <<>>
        /\ Head(todo) \in DOMAIN info /\ todo' = Tail(todo)
    BY DEF SkipKnown
  <1>2. /\ block' = block /\ info' = info /\ journal' = journal /\ height' = height
        /\ leftover' = leftover
    BY <1>1 DEF durable
  <1>3. PICK b \in Blocks : \E k, m \in 0..Len(TxsOf[b]) : Hand(b, k, m)
    BY <1>1, InHand
  <1>4. PICK k \in 0..Len(TxsOf[b]), m \in 0..Len(TxsOf[b]) : Hand(b, k, m)
    BY <1>3
  <1> DEFINE T == TxsOf[b]
  <1>5. /\ T \in Seq(Txs) /\ Len(T) \in Nat /\ k < Len(T) /\ Head(todo) = T[k + 1]
        /\ Tail(todo) = SubSeq(T, k + 1 + 1, Len(T))
    BY <1>1, <1>4, HandTodo
  <1>6. RootOK' /\ OnChain' /\ BlocksDone' /\ NoneAbove'
    BY <1>2 DEF Unlapsed, RootOK, OnChain, ChainBelow, BlocksDone, NoneAbove
  <1>7. Saved = {} /\ Saved' = {}
    BY <1>1 DEF Saved
  <1>8. k + 1 \in 1..Len(T) /\ k + 1 \in 0..Len(T)
    BY <1>5
  <1>9. k + 1 <= m
    BY <1>1, <1>4, <1>5, <1>8, KnownIsDone DEF Hand
  <1>10. Hand(b, k + 1, m)'
    <2>1. Partial(b, m)' /\ ChildOf(b)'
      BY <1>2, <1>4, <1>7 DEF Partial, ChildOf, Hand
    <2>2. hash' = b
      BY <1>1, <1>4 DEF Hand
    <2>3. QED
      BY <1>1, <1>5, <1>9, <2>1, <2>2 DEF Hand
  <1>11. InBlock' /\ SomeBlock'
    BY <1>4, <1>8, <1>10, HandKept
  <1>12. QED
    BY <1>1, <1>2, <1>6, <1>11 DEF Unlapsed

LEMMA OneMore ==
    ASSUME NEW A \in Seq(Txs), NEW T \in Seq(Txs), NEW m \in 0..Len(T), m < Len(T)
    PROVE  /\ m + 1 \in 0..Len(T) /\ T[m + 1] \in Txs
           /\ Replay(A \o SubSeq(T, 1, m + 1)) = ReplayStep(Replay(A \o SubSeq(T, 1, m)), T[m + 1])
           /\ \A t \in ToSet(SubSeq(T, 1, m)) : t \in ToSet(SubSeq(T, 1, m + 1))
           /\ T[m + 1] \in ToSet(SubSeq(T, 1, m + 1))
  <1>1. Len(T) \in Nat /\ m + 1 \in 1..Len(T) /\ m + 1 \in 0..Len(T)
    BY LenProperties
  <1>2. T[m + 1] \in Txs
    BY <1>1, ElementOfSeq
  <1> DEFINE S == SubSeq(T, 1, m)
  <1>3. /\ S \in Seq(Txs) /\ SubSeq(T, 1, m + 1) = Append(S, T[m + 1])
        /\ ToSet(S) = {T[i] : i \in 1..m}
    BY FirstTxs
  <1>4. ToSet(SubSeq(T, 1, m + 1)) = {T[i] : i \in 1..(m + 1)}
    BY <1>1, FirstTxs
  <1>5. 1..m \subseteq 1..(m + 1) /\ m + 1 \in 1..(m + 1)
    BY <1>1
  <1>6. A \o S \in Seq(Txs) /\ A \o Append(S, T[m + 1]) = Append(A \o S, T[m + 1])
    BY <1>2, <1>3, ConcatProperties, ConcatAppend
  <1>7. Replay(A \o SubSeq(T, 1, m + 1)) = ReplayStep(Replay(A \o S), T[m + 1])
    BY <1>2, <1>3, <1>6, ReplayAppend
  <1>8. QED
    BY <1>1, <1>2, <1>3, <1>4, <1>5, <1>7

LEMMA SaveInfoStep ==
    ASSUME TypeOK, InHandOK, TypeOK', Unlapsed, SaveInfo
    PROVE  Unlapsed'
  <1>1. /\ pc = "txs" /\ pc' = "exec" /\ todo # <<>> /\ Head(todo) \notin DOMAIN info
        /\ block' = block /\ journal' = journal /\ height' = height /\ hash' = hash
        /\ todo' = todo /\ leftover' = leftover
    BY DEF SaveInfo, inHand
  <1>2. PICK b \in Blocks : \E k, m \in 0..Len(TxsOf[b]) : Hand(b, k, m)
    BY <1>1, InHand
  <1>3. PICK k \in 0..Len(TxsOf[b]), m \in 0..Len(TxsOf[b]) : Hand(b, k, m)
    BY <1>2
  <1> DEFINE T == TxsOf[b]
  <1>4. T \in Seq(Txs) /\ Len(T) \in Nat /\ k < Len(T) /\ Head(todo) = T[k + 1]
    BY <1>1, <1>3, HandTodo
  <1>5. PICK t : t = T[k + 1]
    OBVIOUS
  <1>6. /\ t \notin DOMAIN info /\ DOMAIN info' = DOMAIN info \cup {t}
        /\ \A u \in DOMAIN info : u # t /\ info'[u] = info[u]
        /\ info'[t].height = height
    BY <1>1, <1>4, <1>5 DEF SaveInfo
  <1>7. Saved = {} /\ Saved' = {t}
    BY <1>1, <1>4, <1>5 DEF Saved
  <1>8. k = m
    <2>1. Partial(b, m) /\ k <= m
      BY <1>3 DEF Hand
    <2>2. SUFFICES ASSUME k + 1 \in 1..m PROVE FALSE
      BY <1>4, <2>1
    <2>3. T[k + 1] \in DOMAIN info
      BY <2>1, <2>2 DEF Partial
    <2>4. QED
      BY <1>5, <1>6, <2>3
  <1>9. Partial(b, m)'
    <2>1. /\ m > 0 => ChildOf(b)
          /\ TxsIn(journal) = Replay(TxsThrough(block, height - 1) \o SubSeq(T, 1, m))
          /\ \A i \in 1..m : T[i] \in DOMAIN info /\ info[T[i]].height = height
          /\ \A u \in DOMAIN info :
               info[u].height >= height =>
                  /\ info[u].height = height
                  /\ info[u].block = b
                  /\ u \in ToSet(SubSeq(T, 1, m))
      BY <1>3, <1>7 DEF Hand, Partial
    <2>2. \A i \in 1..m : T[i] \in DOMAIN info' /\ info'[T[i]].height = height
      BY <1>6, <2>1
    <2>3. \A u \in DOMAIN info' \ Saved' : u \in DOMAIN info /\ info'[u] = info[u]
      BY <1>6, <1>7
    <2>4. (m > 0 => ChildOf(b))'
      BY <1>1, <2>1 DEF ChildOf
    <2> HIDE DEF T
    <2>5. QED
      BY <1>1, <2>1, <2>2, <2>3, <2>4 DEF Partial, T
  <1>10. Hand(b, k, m)'
    BY <1>1, <1>3, <1>8, <1>9 DEF Hand, ChildOf
  <1>11. RootOK' /\ OnChain' /\ NoneAbove'
    BY <1>1 DEF Unlapsed, RootOK, OnChain, ChainBelow, NoneAbove
  <1>12. BlocksDone'
    <2>1. BlocksDone
      BY DEF Unlapsed
    <2>2. \A h \in 1..(height - 1) : \A i \in DOMAIN TxsOf[block[h]] :
            /\ TxsOf[block[h]][i] \in DOMAIN info'
            /\ info'[TxsOf[block[h]][i]].height = h
      BY <1>6, <2>1 DEF BlocksDone
    <2>3. ASSUME NEW u \in DOMAIN info', info'[u].height < height
          PROVE  u \in DOMAIN info /\ info'[u] = info[u]
      <3>1. u # t
        BY <1>6, <2>3 DEF TypeOK
      <3>2. QED
        BY <1>6, <3>1
    <2>4. \A u \in DOMAIN info' :
            info'[u].height < height =>
               /\ info'[u].height \in 1..(height - 1)
               /\ info'[u].block = block[info'[u].height]
               /\ u \in ToSet(TxsOf[info'[u].block])
      BY <2>1, <2>3 DEF BlocksDone
    <2>5. QED
      BY <1>1, <2>1, <2>2, <2>4 DEF BlocksDone
  <1>13. InBlock' /\ SomeBlock'
    BY <1>3, <1>10, HandKept
  <1>14. QED
    BY <1>1, <1>11, <1>12, <1>13 DEF Unlapsed

\* One more transaction of the block has been dealt with: if it was valid it
\* is in the journal, and if not the journal is as it was.
LEMMA DealtWith ==
    ASSUME TypeOK, InHandOK, TypeOK', Unlapsed, pc = "exec",
           NEW b \in Blocks, NEW m \in 0..Len(TxsOf[b]), Hand(b, m, m),
           UNCHANGED <<block, height>>, pc' # "exec",
           DOMAIN info' = DOMAIN info,
           \A t \in DOMAIN info : /\ info'[t].height = info[t].height
                                  /\ info'[t].block = info[t].block,
           TxsIn(journal') = ReplayStep(TxsIn(journal), Head(todo)),
           \A h \in 0..(height - 1) : EntriesUpTo(journal', h) = EntriesUpTo(journal, h),
           NoneAbove'
    PROVE  /\ RootOK' /\ OnChain' /\ BlocksDone'
           /\ m + 1 \in 0..Len(TxsOf[b]) /\ Partial(b, m + 1)'
  <1> DEFINE T == TxsOf[b]
  <1>1. todo # <<>> /\ Head(todo) \in DOMAIN info /\ info[Head(todo)].height = height
        /\ info[Head(todo)].block = hash /\ hash = b
    BY DEF InHandOK, Hand
  <1>2. T \in Seq(Txs) /\ Len(T) \in Nat /\ m < Len(T) /\ Head(todo) = T[m + 1]
    BY <1>1, HandTodo
  <1>3. PICK t : t = T[m + 1]
    OBVIOUS
  <1>4. Saved = {t} /\ Saved' = {}
    BY <1>2, <1>3 DEF Saved
  <1>5. RootOK' /\ OnChain'
    BY DEF Unlapsed, RootOK, OnChain, ChainBelow
  <1>6. BlocksDone'
    <2>1. BlocksDone
      BY DEF Unlapsed
    <2>2. \A h \in 0..(height - 1) :
            TxsIn(EntriesUpTo(journal', h)) = Replay(TxsThrough(block, h))
      BY <2>1 DEF BlocksDone
    <2>3. \A h \in 1..(height - 1) : \A i \in DOMAIN TxsOf[block[h]] :
            /\ TxsOf[block[h]][i] \in DOMAIN info'
            /\ info'[TxsOf[block[h]][i]].height = h
      BY <2>1 DEF BlocksDone
    <2>4. \A u \in DOMAIN info' :
            info'[u].height < height =>
               /\ info'[u].height \in 1..(height - 1)
               /\ info'[u].block = block[info'[u].height]
               /\ u \in ToSet(TxsOf[info'[u].block])
      BY <2>1 DEF BlocksDone
    <2>5. QED
      BY <2>2, <2>3, <2>4 DEF BlocksDone
  <1> DEFINE A == TxsThrough(block, height - 1)
  <1>7. A \in Seq(Txs)
    BY RowsOK, ThroughType DEF TypeOK
  <1>8. /\ m + 1 \in 0..Len(T)
        /\ Replay(A \o SubSeq(T, 1, m + 1)) = ReplayStep(Replay(A \o SubSeq(T, 1, m)), t)
        /\ \A u \in ToSet(SubSeq(T, 1, m)) : u \in ToSet(SubSeq(T, 1, m + 1))
        /\ t \in ToSet(SubSeq(T, 1, m + 1))
    BY <1>2, <1>3, <1>7, OneMore
  <1>9. /\ ChildOf(b)
        /\ TxsIn(journal) = Replay(A \o SubSeq(T, 1, m))
        /\ \A i \in 1..m : T[i] \in DOMAIN info /\ info[T[i]].height = height
        /\ \A u \in DOMAIN info \ {t} :
             info[u].height >= height =>
                /\ info[u].height = height
                /\ info[u].block = b
                /\ u \in ToSet(SubSeq(T, 1, m))
    BY <1>4 DEF Hand, Partial
  <1>10. TxsIn(journal') = Replay(A \o SubSeq(T, 1, m + 1))
    BY <1>2, <1>3, <1>8, <1>9
  <1>11. \A i \in 1..(m + 1) : T[i] \in DOMAIN info' /\ info'[T[i]].height = height
    <2>1. \A i \in 1..(m + 1) : i \in 1..m \/ i = m + 1
      BY <1>2
    <2>2. QED
      BY <1>1, <1>2, <1>9, <2>1
  <1>12. \A u \in DOMAIN info' :
             info'[u].height >= height =>
                /\ info'[u].height = height
                /\ info'[u].block = b
                /\ u \in ToSet(SubSeq(T, 1, m + 1))
    <2>1. info[t].height = height /\ info[t].block = b
      BY <1>1, <1>2, <1>3
    <2>2. QED
      BY <1>8, <1>9, <2>1
  <1>13. ChildOf(b)'
    BY <1>9 DEF ChildOf
  <1>14. TxsThrough(block', height' - 1) = A /\ block' = block /\ height' = height
    OBVIOUS
  <1> HIDE DEF A, T
  <1>15. Partial(b, m + 1)'
    BY <1>4, <1>10, <1>11, <1>12, <1>13, <1>14 DEF Partial, T
  <1>16. QED
    BY <1>5, <1>6, <1>8, <1>15 DEF T

LEMMA RefusedStep ==
    ASSUME TypeOK, InHandOK, TypeOK', Unlapsed, pc = "exec",
           ~Valid(Head(todo), TxsIn(journal)),
           UNCHANGED <<block, info, journal, leftover, height>>,
           \/ pc' = "txs" /\ todo' = Tail(todo) /\ hash' = hash
           \/ pc' = "idle"
    PROVE  Unlapsed'
  <1>1. PICK b \in Blocks : \E k, m \in 0..Len(TxsOf[b]) : Hand(b, k, m)
    BY InHand
  <1>2. PICK k \in 0..Len(TxsOf[b]), m \in 0..Len(TxsOf[b]) : Hand(b, k, m)
    BY <1>1
  <1>3. k = m /\ Hand(b, m, m)
    BY <1>2 DEF Hand
  <1>4. NoneAbove'
    BY DEF Unlapsed, NoneAbove
  <1>5. TxsIn(journal') = ReplayStep(TxsIn(journal), Head(todo))
    BY DEF ReplayStep
  <1>6. /\ RootOK' /\ OnChain' /\ BlocksDone'
        /\ m + 1 \in 0..Len(TxsOf[b]) /\ Partial(b, m + 1)'
    BY <1>3, <1>4, <1>5, DealtWith
  <1>7. SomeBlock'
    BY <1>6 DEF SomeBlock
  <1>8. CASE pc' = "idle"
    BY <1>4, <1>6, <1>7, <1>8 DEF Unlapsed
  <1>9. CASE pc' = "txs" /\ todo' = Tail(todo) /\ hash' = hash
    <2>1. todo # <<>>
      BY DEF InHandOK
    <2>2. Tail(todo) = SubSeq(TxsOf[b], m + 1 + 1, Len(TxsOf[b]))
      BY <1>3, <2>1, HandTodo
    <2>3. ChildOf(b)' /\ b = hash'
      BY <1>3, <1>9 DEF Hand, ChildOf
    <2>4. m + 1 <= m + 1
      BY <1>6
    <2>5. Hand(b, m + 1, m + 1)'
      BY <1>6, <1>9, <2>2, <2>3, <2>4 DEF Hand
    <2>6. InBlock'
      BY <1>6, <2>5, HandKept
    <2>7. QED
      BY <1>4, <1>6, <1>7, <1>9, <2>6 DEF Unlapsed
  <1>10. QED
    BY <1>8, <1>9

LEMMA ExecuteStep ==
    ASSUME TypeOK, InHandOK, TypeOK', Unlapsed, Execute
    PROVE  Unlapsed'
  <1>1. /\ pc = "exec" /\ pc' = "txs" /\ hash' = hash /\ todo' = Tail(todo)
        /\ block' = block /\ height' = height /\ leftover' = leftover
        /\ Needs[Head(todo)] \subseteq ToSet(TxsIn(journal)) \cup Remains
        /\ journal' = Append(journal, [tx |-> Head(todo), height |-> height])
    BY DEF Execute
  <1>v. Valid(Head(todo), TxsIn(journal))
    <2>1. Remains = {}
      BY DEF Unlapsed, Remains, LeftBehind
    <2>2. QED
      BY <1>1, <2>1 DEF Valid
  <1>2. PICK b \in Blocks : \E k, m \in 0..Len(TxsOf[b]) : Hand(b, k, m)
    BY <1>1, InHand
  <1>3. PICK k \in 0..Len(TxsOf[b]), m \in 0..Len(TxsOf[b]) : Hand(b, k, m)
    BY <1>2
  <1>4. k = m /\ Hand(b, m, m)
    BY <1>1, <1>3 DEF Hand
  <1>5. todo # <<>> /\ Head(todo) \in Txs /\ Head(todo) \in DOMAIN info
    BY <1>1, TodoType DEF InHandOK, TypeOK
  <1> DEFINE e == [tx |-> Head(todo), height |-> height]
  <1>6. e \in Entries /\ e.tx = Head(todo) /\ e.height = height /\ height \in Nat
        /\ journal \in Seq(Entries) /\ journal' = Append(journal, e)
    BY <1>1, <1>5 DEF TypeOK, Entries
  <1> HIDE DEF e
  <1>7. /\ DOMAIN info' = DOMAIN info
        /\ \A t \in DOMAIN info : /\ info'[t].height = info[t].height
                                  /\ info'[t].block = info[t].block
    BY <1>5 DEF Execute
  <1>8. NoneAbove'
    <2>1. /\ DOMAIN journal' = DOMAIN journal \cup {Len(journal) + 1}
          /\ \A i \in DOMAIN journal : journal'[i] = journal[i]
          /\ journal'[Len(journal) + 1] = e
      BY <1>6, AmongAppend
    <2>2. height <= height
      BY <1>6
    <2>3. QED
      BY <1>1, <1>6, <2>1, <2>2 DEF NoneAbove, Unlapsed
  <1>9. TxsIn(journal') = ReplayStep(TxsIn(journal), Head(todo))
    BY <1>1, <1>v, <1>6, TxsInAppend DEF ReplayStep
  <1>10. \A h \in 0..(height - 1) : EntriesUpTo(journal', h) = EntriesUpTo(journal, h)
    <2>1. SUFFICES ASSUME NEW h \in 0..(height - 1)
                   PROVE  EntriesUpTo(journal', h) = EntriesUpTo(journal, h)
      OBVIOUS
    <2>2. ~(height <= h)
      BY <1>6
    <2>3. EntriesUpTo(Append(journal, e), h) = KeepStep(EntriesUpTo(journal, h), e, h)
      BY <1>6, KeepAppend
    <2>4. QED
      BY <1>6, <2>2, <2>3 DEF KeepStep
  <1>11. /\ RootOK' /\ OnChain' /\ BlocksDone'
         /\ m + 1 \in 0..Len(TxsOf[b]) /\ Partial(b, m + 1)'
    BY <1>1, <1>4, <1>7, <1>8, <1>9, <1>10, DealtWith
  <1>12. Hand(b, m + 1, m + 1)'
    <2>1. Tail(todo) = SubSeq(TxsOf[b], m + 1 + 1, Len(TxsOf[b]))
      BY <1>4, <1>5, HandTodo
    <2>2. ChildOf(b)' /\ b = hash'
      BY <1>1, <1>4 DEF Hand, ChildOf
    <2>3. m + 1 <= m + 1
      BY <1>11
    <2>4. QED
      BY <1>1, <1>11, <2>1, <2>2, <2>3 DEF Hand
  <1>13. InBlock' /\ SomeBlock'
    BY <1>11, <1>12, HandKept
  <1>14. QED
    BY <1>1, <1>8, <1>11, <1>13 DEF Unlapsed

\* The whole block is done: its row makes it one of those below height.
LEMMA SaveBlockStep ==
    ASSUME TypeOK, InHandOK, TypeOK', Unlapsed, SaveBlock
    PROVE  Unlapsed'
  <1>1. /\ pc = "txs" /\ pc' = "loop" /\ todo = <<>> /\ height' = height + 1
        /\ journal' = journal /\ info' = info /\ leftover' = leftover
        /\ DOMAIN block' = DOMAIN block \cup {height} /\ block'[height] = hash
        /\ \A h \in DOMAIN block : h # height => block'[h] = block[h]
    BY DEF SaveBlock
  <1>2. PICK b \in Blocks : \E k, m \in 0..Len(TxsOf[b]) : Hand(b, k, m)
    BY <1>1, InHand
  <1>3. PICK k \in 0..Len(TxsOf[b]), m \in 0..Len(TxsOf[b]) : Hand(b, k, m)
    BY <1>2
  <1> DEFINE T == TxsOf[b]
  <1>4. T \in Seq(Txs) /\ Len(T) \in Nat /\ DOMAIN T = 1..Len(T) /\ k = Len(T)
    BY <1>1, <1>3, HandTodo, LenProperties
  <1>5. m = Len(T) /\ b = hash /\ ChildOf(b) /\ Partial(b, m)
    BY <1>3, <1>4 DEF Hand
  <1>6. height \in Nat /\ height >= 1 /\ journal \in Seq(Entries) /\ b # NoBlock
    BY <1>1, ScanAssumption DEF TypeOK, InHandOK
  <1>7. Saved = {} /\ Saved' = {}
    BY <1>1 DEF Saved
  <1>8. PICK c \in BestChains : height \in DOMAIN c /\ b = c[height]
    BY <1>5 DEF ChildOf
  <1>9. DOMAIN c = 1..Len(c) /\ Len(c) \in Nat
    BY Chain
  <1>10. \A h \in 1..(height - 1) : h \in DOMAIN block /\ block[h] = c[h]
    <2>1. SUFFICES ASSUME NEW h \in 1..(height - 1)
                   PROVE  h \in DOMAIN block /\ block[h] = c[h]
      OBVIOUS
    <2>2. PICK d \in BestChains : ChainBelow(d)
      BY DEF Unlapsed, OnChain
    <2>3. /\ DOMAIN d = 1..Len(d) /\ Len(d) \in Nat /\ height - 1 <= Len(d)
          /\ \A g \in 1..(height - 1) : g \in DOMAIN block /\ block[g] = d[g]
      BY <2>2, Chain DEF ChainBelow
    <2>4. /\ height > 1 /\ height - 1 \in Nat /\ height - 1 \in 1..(height - 1)
          /\ height - 1 \in DOMAIN d
      BY <1>6, <2>1, <2>3
    <2>5. Parent[c[height]] = c[height - 1] /\ height - 1 \in DOMAIN c
      BY <1>8, <2>4, Chain
    <2>6. c[height - 1] = d[height - 1]
      BY <1>5, <1>8, <2>3, <2>4, <2>5 DEF ChildOf
    <2>7. c[h] = d[h]
      BY <2>1, <2>4, <2>5, <2>6, SameBelow
    <2>8. QED
      BY <2>1, <2>3, <2>7
  <1>11. /\ block'[height] = b
         /\ \A h \in 1..(height - 1) : h \in DOMAIN block' /\ block'[h] = block[h]
         /\ 0 # height /\ height \in DOMAIN block'
    BY <1>1, <1>5, <1>6, <1>10
  <1>12. \A h \in 1..height : h = height \/ h \in 1..(height - 1)
    BY <1>6
  <1>13. RootOK' /\ OnChain' /\ NoneAbove'
    <2>1. RootOK'
      BY <1>1, <1>11 DEF RootOK, Unlapsed
    <2>2. ChainBelow(c)'
      <3>1. height' - 1 = height /\ height <= Len(c)
        BY <1>1, <1>6, <1>8, <1>9
      <3>2. \A h \in 1..height : h \in DOMAIN block' /\ block'[h] = c[h]
        BY <1>8, <1>10, <1>11, <1>12
      <3>3. QED
        BY <3>1, <3>2 DEF ChainBelow
    <2>3. NoneAbove'
      <3>1. \A i \in DOMAIN journal : journal[i].height \in Nat
        <4>1. \A i \in DOMAIN journal : journal[i] \in Entries
          BY <1>6, LenProperties, ElementOfSeq
        <4>2. QED
          BY <4>1 DEF Entries
      <3>2. \A i \in DOMAIN journal : journal[i].height <= height + 1
        BY <1>6, <3>1 DEF Unlapsed, NoneAbove
      <3>3. QED
        BY <1>1, <3>2 DEF NoneAbove
    <2>4. QED
      BY <2>1, <2>2, <2>3 DEF OnChain
  <1>14. \A h \in Int : h <= height - 1 => TxsThrough(block', h) = TxsThrough(block, h)
    <2>1. SUFFICES ASSUME NEW h \in Int, h <= height - 1
                   PROVE  TxsThrough(block', h) = TxsThrough(block, h)
      OBVIOUS
    <2>2. Rows(block) /\ Rows(block')
      BY DEF TypeOK, Rows
    <2>3. \A g \in 1..h : g \in 1..(height - 1)
      BY <1>6, <2>1
    <2>4. \A g \in 1..h : TxsAt(block', g) = TxsAt(block, g)
      BY <1>10, <1>11, <2>3 DEF TxsAt
    <2>5. SameRows(block', block, h)
      BY <2>4 DEF SameRows
    <2>6. QED
      BY <2>2, <2>5, ThroughSame
  <1> DEFINE A == TxsThrough(block, height - 1)
  <1>15. TxsThrough(block', height) = A \o T
    <2>1. Rows(block') /\ height - 1 \in Nat /\ (height - 1) + 1 = height
      BY <1>6 DEF TypeOK, Rows
    <2>2. TxsThrough(block', (height - 1) + 1) =
            TxsThrough(block', height - 1) \o TxsAt(block', (height - 1) + 1)
      BY ONLY <2>1, ThroughNext
    <2>3. TxsAt(block', height) = T
      BY <1>6, <1>11 DEF TxsAt
    <2>4. TxsThrough(block', height - 1) = A
      BY <1>6, <1>14
    <2>5. QED
      BY <2>1, <2>2, <2>3, <2>4
  <1>16. SubSeq(T, 1, m) = T
    BY <1>4, <1>5, SubSeqFull
  <1>17. /\ TxsIn(journal) = Replay(TxsThrough(block', height))
         /\ \A i \in 1..Len(T) : T[i] \in DOMAIN info /\ info[T[i]].height = height
         /\ \A t \in DOMAIN info :
              info[t].height >= height =>
                /\ info[t].height = height
                /\ info[t].block = b
                /\ t \in ToSet(T)
    BY <1>5, <1>7, <1>15, <1>16 DEF Partial
  <1>18. BlocksDone'
    <2>0. BlocksDone /\ height' - 1 = height
      BY <1>1, <1>6 DEF Unlapsed
    <2>1. ASSUME NEW h \in 0..height
          PROVE  TxsIn(EntriesUpTo(journal, h)) = Replay(TxsThrough(block', h))
      <3>1. CASE h = height
        <4>1. EntriesUpTo(journal, h) = journal
          BY <1>6, <3>1, KeepsAll DEF Unlapsed, NoneAbove
        <4>2. QED
          BY <1>17, <3>1, <4>1
      <3>2. CASE h # height
        <4>1. h \in 0..(height - 1) /\ h \in Int /\ h <= height - 1
          BY <1>6, <3>2
        <4>2. QED
          BY <1>14, <2>0, <4>1 DEF BlocksDone
      <3>3. QED
        BY <3>1, <3>2
    <2>2. ASSUME NEW h \in 1..height, NEW i \in DOMAIN TxsOf[block'[h]]
          PROVE  /\ TxsOf[block'[h]][i] \in DOMAIN info
                 /\ info[TxsOf[block'[h]][i]].height = h
      <3>1. CASE h = height
        <4>1. i \in 1..Len(T) /\ block'[h] = b
          BY <1>4, <1>11, <2>2, <3>1
        <4>2. QED
          BY <1>17, <3>1, <4>1
      <3>2. CASE h # height
        <4>1. h \in 1..(height - 1) /\ block'[h] = block[h]
          BY <1>11, <1>12, <3>2
        <4>2. QED
          BY <2>0, <2>2, <4>1 DEF BlocksDone
      <3>3. QED
        BY <3>1, <3>2
    <2>3. ASSUME NEW t \in DOMAIN info, info[t].height < height'
          PROVE  /\ info[t].height \in 1..height
                 /\ info[t].block = block'[info[t].height]
                 /\ t \in ToSet(TxsOf[info[t].block])
      <3>1. info[t].height \in Nat
        BY DEF TypeOK, Infos
      <3>2. CASE info[t].height >= height
        <4>1. info[t].height = height /\ info[t].block = b /\ t \in ToSet(T)
          BY <1>17, <3>2
        <4>2. height \in 1..height
          BY <1>6
        <4>3. QED
          BY <1>11, <4>1, <4>2
      <3>3. CASE info[t].height < height
        <4>1. /\ info[t].height \in 1..(height - 1)
              /\ info[t].block = block[info[t].height]
              /\ t \in ToSet(TxsOf[info[t].block])
          BY <2>0, <3>3 DEF BlocksDone
        <4>2. info[t].height \in 1..height
          BY <1>6, <4>1
        <4>3. QED
          BY <1>11, <4>1, <4>2
      <3>4. QED
        BY <1>6, <3>1, <3>2, <3>3
    <2> HIDE DEF T, A
    <2>4. QED
      BY <1>1, <2>0, <2>1, <2>2, <2>3 DEF BlocksDone
  <1>19. SomeBlock'
    <2>1. TxsIn(journal') = Replay(TxsThrough(block', height' - 1))
      <3>1. height' - 1 = height
        BY <1>1, <1>6
      <3>2. QED
        BY <1>1, <1>17, <3>1
    <2>2. \A t \in DOMAIN info' \ Saved' : ~(info'[t].height >= height')
      <3>1. SUFFICES ASSUME NEW t \in DOMAIN info, info[t].height >= height + 1
                     PROVE  FALSE
        BY <1>1, <1>7
      <3>2. info[t].height \in Nat
        BY DEF TypeOK, Infos
      <3>3. info[t].height >= height
        BY <1>6, <3>1, <3>2
      <3>4. info[t].height = height
        BY <1>17, <3>3
      <3>5. QED
        BY <1>6, <3>1, <3>4
    <2>3. TxsThrough(block', height' - 1) \o <<>> = TxsThrough(block', height' - 1)
      <3>1. Rows(block') /\ height' - 1 \in Int
        BY <1>1, <1>6 DEF TypeOK, Rows
      <3>2. TxsThrough(block', height' - 1) \in Seq(Txs)
        BY ONLY <3>1, ThroughType
      <3>3. QED
        BY <3>2, ConcatEmptySeq
    <2>4. SubSeq(T, 1, 0) = <<>> /\ 0 \in 0..Len(T) /\ ~(0 > 0) /\ 1..0 = {}
      BY <1>4, SubSeqEmpty
    <2> HIDE DEF T, A
    <2>5. Partial(b, 0)'
      BY <2>1, <2>2, <2>3, <2>4, Zenon DEF Partial, T
    <2>6. QED
      BY <2>4, <2>5 DEF SomeBlock, T
  <1>20. QED
    BY <1>1, <1>13, <1>18, <1>19 DEF Unlapsed

LEMMA UnlapsedStep ==
    ASSUME TypeOK, InHandOK, TypeOK', Unlapsed, [Next]_vars, lapses' = {}
    PROVE  Unlapsed'
  <1>1. CASE AdoptParent
    BY <1>1, AdoptStep
  <1>2. CASE HeadDiffers \/ WalkBack
    BY <1>2, WalkStep
  <1>3. CASE ForkCommit
    BY <1>3, ForkStep
  <1>4. CASE Fetch
    BY <1>4, FetchStep
  <1>5. CASE SkipKnown
    BY <1>5, SkipStep
  <1>6. CASE SaveInfo
    BY <1>6, SaveInfoStep
  <1>7. CASE Execute
    BY <1>7, ExecuteStep
  <1>8. CASE SaveBlock
    BY <1>8, SaveBlockStep
  <1>9. CASE Refuse
    <2>1. ~Unsure(Head(todo))
      BY DEF Unlapsed, Unsure, Remains, LeftBehind
    <2>2. QED
      BY <1>9, <2>1, RefusedStep DEF Refuse, durable
  <1>10. CASE ExecuteFails
    <2>1. ~Valid(Head(todo), TxsIn(journal))
      BY <1>10 DEF ExecuteFails, Lapse
    <2>2. QED
      BY <1>10, <2>1, RefusedStep DEF ExecuteFails, durable
  <1>11. CASE DecodeFails
    BY <1>11 DEF DecodeFails, Lapse
  <1>12. CASE Crash
    <2>1. height' = height /\ UNCHANGED durable /\ pc' = "idle"
      BY <1>12 DEF Crash, Return
    <2>2. CASE pc = "exec"
      <3>1. ~Valid(Head(todo), TxsIn(journal))
        BY <1>12, <2>2 DEF Crash
      <3>2. QED
        BY <2>1, <2>2, <3>1, RefusedStep DEF durable
    <2>3. CASE pc # "exec"
      BY <2>1, <2>3, QuietStep
    <2>4. QED
      BY <2>2, <2>3
  <1>13. CASE BeginScan \/ EndScan \/ HeadMatches \/ WalkFails
             \/ ForkRefused \/ CallFails
    <2>1. pc # "exec" /\ pc' \in {"idle", "loop", "fetch"} /\ UNCHANGED <<durable, height>>
      BY <1>13 DEF BeginScan, EndScan, HeadMatches, WalkFails, TooDeep, ForkRefused,
         ForkInDoubt, AtAncestor, CallFails, AtHead, Return
    <2>2. QED
      BY <2>1, QuietStep
  <1>14. CASE NodeMoves \/ UNCHANGED vars
    <2>1. /\ block' = block /\ info' = info /\ journal' = journal /\ height' = height
          /\ leftover' = leftover /\ pc' = pc /\ hash' = hash /\ walk' = walk
          /\ localHash' = localHash
          /\ todo' = todo
      BY <1>14 DEF NodeMoves, vars, durable, inHand
    <2>2. \A b, m : Partial(b, m) => Partial(b, m)'
      BY <2>1 DEF Partial, ChildOf, Saved
    <2>3. QED
      BY <2>1, <2>2 DEF Unlapsed, RootOK, OnChain, ChainBelow, BlocksDone, NoneAbove,
         WalkOK, InBlock, SomeBlock, ChildOf
  <1>15. QED
    BY <1>1, <1>2, <1>3, <1>4, <1>5, <1>6, <1>7, <1>8, <1>9, <1>10, <1>11, <1>12, <1>13,
       <1>14 DEF Next, Scanner, Faults

\* In every state the tables hold what scan(), forkBack and their callees have
\* finished of the local chain, unless one of the named lapses has occurred.
THEOREM ScanInvariant == Spec => []ScanInv
  <1>1. Init => ScanInv
    <2>1. Init => TableInv
      BY TypeInit DEF Init, TableInv, AtMostOnce, TablesAgree, InHandOK, LeftBehind
    <2>2. QED
      BY <2>1, UnlapsedInit DEF ScanInv
  <1>2. ScanInv /\ [Next]_vars => ScanInv'
    <2> SUFFICES ASSUME ScanInv, [Next]_vars PROVE ScanInv'
      OBVIOUS
    <2>1. TableInv /\ TableInv'
      BY TypeStep, TablesStep, InHandStep DEF ScanInv, TableInv
    <2>2. ASSUME from' = 0, lapses' = {} PROVE Unlapsed'
      <3>1. from = 0 /\ lapses = {}
        BY <2>2 DEF Next, Scanner, Faults, NodeMoves, BeginScan, EndScan, AdoptParent,
           HeadMatches, HeadDiffers, WalkBack, WalkFails, ForkCommit, ForkRefused, Fetch,
           SkipKnown, SaveInfo, Execute, Refuse, SaveBlock, CallFails, DecodeFails,
           ExecuteFails, Crash, Lapse, vars
      <3>2. QED
        BY <2>1, <2>2, <3>1, UnlapsedStep DEF ScanInv, TableInv
    <2>3. QED
      BY <2>1, <2>2 DEF ScanInv
  <1>3. QED
    BY <1>1, <1>2, PTL DEF Spec

-----------------------------------------------------------------------------
(* What the invariant says of the effects, and the abstract chain. *)

LEMMA ReplayPart ==
    ASSUME NEW A \in Seq(Txs), NEW T \in Seq(Txs),
           NEW k \in 0..Len(T), NEW m \in 0..Len(T), k <= m
    PROVE  IsPrefix(Replay(A \o SubSeq(T, 1, k)), Replay(A \o SubSeq(T, 1, m)))
  <1>1. Len(T) \in Nat /\ \A i \in 1..Len(T) : T[i] \in Txs
    BY LenProperties, ElementOfSeq
  <1> DEFINE P == SubSeq(T, 1, k)
             R == SubSeq(T, k + 1, m)
             Q == SubSeq(T, 1, m)
  <1>2. P \in Seq(Txs) /\ Q \in Seq(Txs)
    BY FirstTxs
  <1>3. R \in Seq(Txs)
    <2>1. \A i \in (k + 1)..m : T[i] \in Txs
      BY <1>1
    <2>2. QED
      BY <1>1, <2>1, SubSeqProperties
  <1>4. P \o R = Q
    <2>1. 1 \in 1..(Len(T) + 1) /\ k \in (1 - 1)..Len(T) /\ m \in k..Len(T)
      BY <1>1
    <2>2. QED
      BY <2>1, ConcatAdjacentSubSeq
  <1> HIDE DEF P, Q, R
  <1>5. A \o Q = (A \o P) \o R /\ A \o P \in Seq(Txs)
    <2>1. (A \o P) \o R = A \o (P \o R)
      <3>1. A \in Seq(Txs) /\ P \in Seq(Txs) /\ R \in Seq(Txs)
        BY <1>2, <1>3
      <3>2. QED
        BY ONLY <3>1, ConcatAssociative
    <2>2. A \o P \in Seq(Txs)
      BY <1>2, ConcatProperties
    <2>3. QED
      BY <1>4, <2>1, <2>2
  <1>6. IsPrefix(Replay(A \o P), Replay((A \o P) \o R))
    BY <1>3, <1>5, ReplayLonger
  <1>7. QED
    BY <1>5, <1>6 DEF P, Q

\* Unless the scanner has lapsed the effects are those of the blocks of the
\* chain, and of a first part of one more.
THEOREM EffectsFollowBlocks == Spec => []Faithful
  <1>1. ScanInv => Faithful
    <2> SUFFICES ASSUME ScanInv, from = 0, lapses = {} PROVE Faithful
      BY DEF Faithful
    <2>1. TypeOK /\ InHandOK /\ Unlapsed /\ height \in Nat
      BY DEF ScanInv, TableInv, TypeOK
    <2> DEFINE A == TxsThrough(block, height - 1)
               done == TxsIn(journal)
               From(b, n) == Replay(A \o SubSeq(TxsOf[b], 1, n))
               Between(b, n) == /\ IsPrefix(From(b, n), done)
                                /\ IsPrefix(done, From(b, Len(TxsOf[b])))
    <2>2. A \in Seq(Txs)
      BY <2>1, RowsOK, ThroughType
    <2>3. ASSUME NEW b \in Blocks, NEW k \in 0..Len(TxsOf[b]), NEW m \in 0..Len(TxsOf[b]),
                 k <= m, Partial(b, m)
          PROVE  Between(b, k)
      <3>1. TxsOf[b] \in Seq(Txs)
        BY ScanAssumption
      <3>2. Len(TxsOf[b]) \in 0..Len(TxsOf[b]) /\ m <= Len(TxsOf[b])
        BY <3>1, LenProperties
      <3>3. done = From(b, m)
        BY <2>3 DEF Partial
      <3> DEFINE T == TxsOf[b]
      <3>4. T \in Seq(Txs) /\ k \in 0..Len(T) /\ m \in 0..Len(T) /\ Len(T) \in 0..Len(T)
            /\ m <= Len(T)
        BY <3>1, <3>2
      <3> HIDE DEF T, A
      <3>5. IsPrefix(Replay(A \o SubSeq(T, 1, k)), Replay(A \o SubSeq(T, 1, m)))
        BY <2>2, <2>3, <3>4, ReplayPart
      <3>6. IsPrefix(Replay(A \o SubSeq(T, 1, m)), Replay(A \o SubSeq(T, 1, Len(T))))
        BY <2>2, <3>4, ReplayPart
      <3>7. QED
        BY <3>3, <3>5, <3>6 DEF T
    <2>4. CASE pc \in {"txs", "exec"}
      <3>1. PICK b \in Blocks : \E k, m \in 0..Len(TxsOf[b]) : Hand(b, k, m)
        BY <2>1, <2>4, InHand
      <3>2. PICK k \in 0..Len(TxsOf[b]), m \in 0..Len(TxsOf[b]) : Hand(b, k, m)
        BY <3>1
      <3>3. b = hash /\ k <= m /\ Partial(b, m)
        BY <3>2 DEF Hand
      <3>4. Len(TxsOf[b]) - Len(todo) = k
        <4>1. TxsOf[b] \in Seq(Txs) /\ Len(TxsOf[b]) \in Nat
          BY ScanAssumption
        <4>2. Len(todo) = Len(TxsOf[b]) - k
          BY <3>2, <4>1, RestTxs DEF Hand
        <4>3. QED
          BY <4>1, <4>2
      <3>5. Between(b, k)
        BY <2>3, <3>3
      <3>6. QED
        BY <2>4, <3>3, <3>4, <3>5 DEF Faithful
    <2>5. CASE pc \notin {"txs", "exec"}
      <3>1. CASE height = 0 /\ journal = <<>>
        <4>1. A = <<>>
          BY <2>1, <3>1, RowsOK, ThroughNone
        <4>2. done = Replay(A)
          BY <3>1, <4>1, TxsInEmpty, ReplayEmpty
        <4>3. QED
          BY <2>5, <4>2 DEF Faithful
      <3>2. CASE \E b \in Blocks : \E m \in 0..Len(TxsOf[b]) : Partial(b, m)
        <4>1. PICK b \in Blocks : \E m \in 0..Len(TxsOf[b]) : Partial(b, m)
          BY <3>2
        <4>2. PICK m \in 0..Len(TxsOf[b]) : Partial(b, m)
          BY <4>1
        <4>3. TxsOf[b] \in Seq(Txs) /\ Len(TxsOf[b]) \in Nat
          BY ScanAssumption
        <4>4. CASE m = 0
          <5>1. SubSeq(TxsOf[b], 1, m) = <<>>
            BY <4>4, SubSeqEmpty
          <5>2. done = Replay(A)
            BY <2>2, <4>2, <5>1, ConcatEmptySeq DEF Partial
          <5>3. QED
            BY <2>5, <5>2 DEF Faithful
        <4>5. CASE m # 0
          <5>1. m > 0 /\ 0 \in 0..Len(TxsOf[b]) /\ 0 <= m
            BY <4>3, <4>5
          <5>2. ChildOf(b) /\ Between(b, 0)
            BY <2>3, <4>2, <5>1 DEF Partial
          <5>3. height - 1 \in DOMAIN block => Parent[b] = block[height - 1]
            <6>1. PICK c \in BestChains : height \in DOMAIN c /\ b = c[height]
              BY <5>2 DEF ChildOf
            <6>2. height >= 1
              BY <6>1, Chain
            <6>3. CASE height = 1
              <7>1. Parent[b] = NoBlock
                BY <6>1, <6>3, Chain
              <7>2. QED
                BY <2>1, <6>3, <7>1 DEF Unlapsed, RootOK
            <6>4. CASE height > 1
              BY <5>2, <6>4 DEF ChildOf
            <6>5. QED
              BY <2>1, <6>2, <6>3, <6>4
          <5>4. QED
            BY <2>5, <5>2, <5>3 DEF Faithful
        <4>6. QED
          BY <4>4, <4>5
      <3>3. QED
        BY <2>1, <3>1, <3>2 DEF Unlapsed, SomeBlock
    <2>6. QED
      BY <2>4, <2>5
  <1>2. QED
    BY <1>1, ScanInvariant, PTL

\* The blocks below height as a sequence.
LocalOK ==
    /\ LocalChain \in Seq(Blocks)
    /\ Len(LocalChain) = IF height = 0 THEN 0 ELSE height - 1
    /\ \A h \in 1..(height - 1) : LocalChain[h] = block[h]
    /\ TxsIn(Settled) = ReplayBlocks(LocalChain)

LEMMA LocalBlocks == TypeOK /\ Unlapsed => LocalOK
  <1> SUFFICES ASSUME TypeOK, Unlapsed PROVE LocalOK
    OBVIOUS
  <1>1. height \in Nat /\ OnChain /\ BlocksDone
    BY DEF TypeOK, Unlapsed
  <1>2. PICK N \in Nat : N = IF height = 0 THEN 0 ELSE height - 1
    BY <1>1
  <1>3. 1..(height - 1) = 1..N
    BY <1>1, <1>2
  <1>4. \A h \in 1..N : h \in DOMAIN block /\ block[h] \in Blocks
    BY <1>1, <1>3, BelowHeight
  <1>5. LocalChain = [h \in 1..N |-> block[h]]
    BY <1>3, <1>4 DEF LocalChain
  <1>6. LocalChain \in Seq(Blocks) /\ Len(LocalChain) = N
    BY <1>2, <1>4, <1>5
  <1>7. DOMAIN LocalChain = 1..N /\ \A h \in 1..N : LocalChain[h] = block[h]
    BY <1>5
  <1>8. Rows(block) /\ Rows(LocalChain)
    <2>1. Rows(LocalChain)
      BY <1>4, <1>7 DEF Rows
    <2>2. QED
      BY <2>1, RowsOK
  <1>9. \A h \in 1..N : TxsAt(LocalChain, h) = TxsAt(block, h)
    BY <1>4, <1>7 DEF TxsAt
  <1> DEFINE L == LocalChain
  <1> HIDE DEF L
  <1>10. TxsThrough(L, N) = TxsThrough(block, N)
    <2>1. Rows(block) /\ Rows(L) /\ N \in Int
      BY <1>2, <1>8 DEF L
    <2>2. SameRows(L, block, N)
      BY <1>9 DEF SameRows, L
    <2>3. QED
      BY <2>1, <2>2, ThroughSame
  <1>11. ReplayBlocks(LocalChain) = Replay(TxsThrough(block, N))
    BY <1>6, <1>10 DEF ReplayBlocks, L
  <1>12. CASE height = 0
    <2>1. journal = <<>>
      <3>1. SUFFICES ASSUME NEW b \in Blocks, NEW m \in 0..Len(TxsOf[b]), Partial(b, m)
                     PROVE  journal = <<>>
        BY DEF Unlapsed, SomeBlock
      <3>2. TxsOf[b] \in Seq(Txs) /\ Len(TxsOf[b]) \in Nat
        BY ScanAssumption
      <3>3. m = 0
        <4>1. SUFFICES ASSUME m > 0 PROVE FALSE
          BY <3>2
        <4>2. PICK c \in BestChains : height \in DOMAIN c
          BY <3>1, <4>1 DEF Partial, ChildOf
        <4>3. QED
          BY <1>12, <4>2, Chain
      <3>4. SubSeq(TxsOf[b], 1, m) = <<>> /\ TxsThrough(block, height - 1) = <<>>
        BY <1>8, <1>12, <3>3, SubSeqEmpty, ThroughNone
      <3>5. <<>> \o <<>> = <<>>
        BY EmptySeq, ConcatEmptySeq
      <3>6. TxsIn(journal) = <<>>
        BY <3>1, <3>4, <3>5, ReplayEmpty DEF Partial
      <3>7. journal \in Seq(Entries) /\ DOMAIN journal = {}
        <4>1. DOMAIN TxsIn(journal) = DOMAIN journal
          BY DEF TxsIn
        <4>2. DOMAIN <<>> = {}
          OBVIOUS
        <4>3. QED
          BY <3>6, <4>1, <4>2 DEF TypeOK
      <3>8. Len(journal) = 0
        BY <3>7, LenProperties
      <3>9. QED
        BY <3>7, <3>8, EmptySeq
    <2>2. Settled = <<>>
      BY <2>1, KeepEmpty DEF Settled
    <2>3. TxsThrough(block, N) = <<>>
      BY <1>2, <1>8, <1>12, ThroughNone
    <2>4. TxsIn(Settled) = Replay(TxsThrough(block, N))
      BY <2>2, <2>3, TxsInEmpty, ReplayEmpty
    <2>5. QED
      BY <1>2, <1>3, <1>6, <1>7, <1>11, <2>4 DEF LocalOK
  <1>13. CASE height # 0
    <2>1. height - 1 \in 0..(height - 1) /\ N = height - 1
      BY <1>1, <1>2, <1>13
    <2>2. TxsIn(Settled) = Replay(TxsThrough(block, N))
      BY <1>1, <2>1 DEF BlocksDone, Settled
    <2>3. QED
      BY <1>2, <1>3, <1>6, <1>7, <1>11, <2>2 DEF LocalOK
  <1>14. QED
    BY <1>12, <1>13

\* What the scanner has finished is a followed chain: the abstract actions
\* are SaveBlock (a block more) and ForkCommit (blocks fewer); every other
\* step leaves the finished blocks and their effects alone, or is a lapse.
THEOREM ScannerFollows == Spec => FollowsChain
  <1>1. Init => Followed!AbsInit
    <2>1. SUFFICES ASSUME Init, from = 0 PROVE Followed!AbsInit
      BY DEF Followed!AbsInit
    <2>2. TypeOK /\ Unlapsed
      BY <2>1, TypeInit, UnlapsedInit
    <2>3. LocalChain \in Seq(Blocks) /\ TxsIn(Settled) = ReplayBlocks(LocalChain)
      BY <2>2, LocalBlocks DEF LocalOK
    <2>4. QED
      BY <2>1, <2>3 DEF Followed!AbsInit, Init
  <1>0. (TypeOK /\ Unlapsed => LocalOK)'
    BY LocalBlocks, PTL
  <1>2. ScanInv /\ ScanInv' /\ [Next]_vars => [Followed!AbsNext]_Followed!absVars
    <2> SUFFICES ASSUME ScanInv, ScanInv', [Next]_vars
                 PROVE  [Followed!AbsNext]_Followed!absVars
      OBVIOUS
    <2>1. CASE lapses' # {} \/ from' # 0
      BY <2>1 DEF Followed!AbsNext
    <2>2. CASE lapses' = {} /\ from' = 0
      <3>1. from = 0 /\ lapses = {}
        BY <2>2 DEF Next, Scanner, Faults, NodeMoves, BeginScan, EndScan, AdoptParent,
           HeadMatches, HeadDiffers, WalkBack, WalkFails, ForkCommit, ForkRefused, Fetch,
           SkipKnown, SaveInfo, Execute, Refuse, SaveBlock, CallFails, DecodeFails,
           ExecuteFails, Crash, Lapse, vars
      <3>2. /\ TypeOK /\ InHandOK /\ Unlapsed /\ TypeOK' /\ Unlapsed'
            /\ height \in Nat
        BY <2>2, <3>1 DEF ScanInv, TableInv, TypeOK
      <3>3. /\ LocalChain \in Seq(Blocks)
            /\ Len(LocalChain) = IF height = 0 THEN 0 ELSE height - 1
            /\ \A h \in 1..(height - 1) : LocalChain[h] = block[h]
            /\ TxsIn(Settled) = ReplayBlocks(LocalChain)
        BY <3>2, LocalBlocks DEF LocalOK
      <3>4. /\ LocalChain' \in Seq(Blocks)
            /\ Len(LocalChain') = IF height' = 0 THEN 0 ELSE height' - 1
            /\ \A h \in 1..(height' - 1) : LocalChain'[h] = block'[h]
            /\ TxsIn(Settled') = ReplayBlocks(LocalChain')
        BY <3>2, <1>0 DEF LocalOK
      <3>5. CASE LocalChain' = LocalChain
        <4>1. TxsIn(Settled') = TxsIn(Settled)
          BY <3>3, <3>4, <3>5
        <4>2. (lapses # {} \/ from # 0)' = (lapses # {} \/ from # 0)
          BY <2>2, <3>1
        <4>3. QED
          BY <3>5, <4>1, <4>2 DEF Followed!absVars
      <3>6. CASE SaveBlock
        <4> DEFINE b == hash
        <4>1. /\ b \in Blocks /\ height >= 1 /\ height' = height + 1
              /\ block'[height] = b
          BY <3>2, <3>6 DEF SaveBlock, InHandOK
        <4>2. ChildOf(b)
          BY <3>2, <3>6 DEF Unlapsed, InBlock, SaveBlock
        <4>3. LocalChain # <<>> => Parent[b] = LocalChain[Len(LocalChain)]
          <5>1. SUFFICES ASSUME LocalChain # <<>> PROVE Parent[b] = LocalChain[Len(LocalChain)]
            OBVIOUS
          <5>2. Len(LocalChain) # 0
            BY <3>3, <5>1, EmptySeq
          <5>3. height > 1 /\ Len(LocalChain) = height - 1 /\ height - 1 \in 1..(height - 1)
            BY <3>2, <3>3, <5>2
          <5>4. QED
            BY <3>3, <4>2, <5>3 DEF ChildOf
        <4>4. LocalChain' = Append(LocalChain, b)
          <5>1. Len(LocalChain) = height - 1 /\ Len(LocalChain') = height
            BY <3>2, <3>3, <3>4, <4>1
          <5>2. /\ Append(LocalChain, b) \in Seq(Blocks)
                /\ Len(Append(LocalChain, b)) = Len(LocalChain) + 1
                /\ \A i \in 1..Len(LocalChain) : Append(LocalChain, b)[i] = LocalChain[i]
                /\ Append(LocalChain, b)[Len(LocalChain) + 1] = b
            BY <3>3, <4>1, AppendProperties
          <5>3. \A i \in 1..(height - 1) : i \in DOMAIN block /\ i # height
            BY <3>2, BelowHeight DEF Unlapsed
          <5>4. \A i \in 1..(height - 1) : block'[i] = block[i]
            BY <3>6, <5>3 DEF SaveBlock
          <5>5. \A i \in 1..height : LocalChain'[i] = Append(LocalChain, b)[i]
            <6>1. height' - 1 = height /\ (height - 1) + 1 = height
              BY <3>2, <4>1
            <6>2. \A i \in 1..height : i = height \/ i \in 1..(height - 1)
              BY <3>2
            <6>3. \A i \in 1..height : LocalChain'[i] = block'[i]
              BY <3>4, <6>1
            <6>4. \A i \in 1..(height - 1) : Append(LocalChain, b)[i] = block[i]
              BY <3>3, <5>1, <5>2
            <6>5. Append(LocalChain, b)[height] = b
              BY <5>1, <5>2, <6>1
            <6>6. QED
              BY <4>1, <5>4, <6>2, <6>3, <6>4, <6>5
          <5>6. Len(Append(LocalChain, b)) = height
            BY <3>2, <5>1, <5>2
          <5>7. QED
            BY <3>4, <5>1, <5>2, <5>5, <5>6, SeqEqual
        <4>5. Followed!Extend(b)
          BY <3>4, <4>3, <4>4 DEF Followed!Extend
        <4>6. QED
          BY <2>2, <4>1, <4>5 DEF Followed!AbsNext
      <3>7. CASE ForkCommit
        <4>1. walk \in 1..(height - 1) /\ height' = walk /\ block' = block
          BY <3>2, <3>7, AncestorBelow DEF ForkCommit
        <4>2. Len(LocalChain) = height - 1 /\ walk - 1 \in 0..(Len(LocalChain) - 1)
          BY <3>2, <3>3, <4>1
        <4> DEFINE n == walk - 1
                   S == SubSeq(LocalChain, 1, n)
        <4>3. LocalChain' = S
          <5>1. Len(LocalChain') = n
            BY <3>2, <3>4, <4>1
          <5>2. \A i \in 1..n : LocalChain[i] \in Blocks
            BY <3>2, <3>3, <4>1, <4>2, ElementOfSeq
          <5>3. S \in Seq(Blocks) /\ Len(S) = n /\ \A i \in 1..n : S[i] = LocalChain[i]
            <6>1. n \in Nat /\ 1 \in Int /\ n - 1 + 1 = n
              BY <3>2, <4>1
            <6> HIDE DEF n
            <6>2. /\ SubSeq(LocalChain, 1, n) \in Seq(Blocks)
                  /\ Len(SubSeq(LocalChain, 1, n)) = IF 1 <= n THEN n - 1 + 1 ELSE 0
                  /\ \A i \in 1..(n - 1 + 1) : SubSeq(LocalChain, 1, n)[i] = LocalChain[1 + i - 1]
              BY <5>2, <6>1, SubSeqProperties
            <6>3. QED
              BY <6>1, <6>2
          <5>4. \A i \in 1..n : LocalChain'[i] = LocalChain[i]
            <6>1. \A i \in 1..n : i \in 1..(height - 1) /\ i \in 1..(height' - 1)
              BY <3>2, <4>1
            <6>2. QED
              BY <3>3, <3>4, <4>1, <6>1
          <5> HIDE DEF S, n
          <5>5. QED
            BY <3>4, <5>1, <5>3, <5>4, SeqEqual
        <4>4. Followed!Retreat(walk - 1)
          BY <3>4, <4>3 DEF Followed!Retreat
        <4>5. QED
          BY <2>2, <4>2, <4>4 DEF Followed!AbsNext
      <3>8. CASE AdoptParent
        <4>1. height' = height
          BY <3>8 DEF AdoptParent
        <4>2. \A h \in 1..(height - 1) : h \in DOMAIN block /\ h # height - 1
          <5>1. \A h \in 1..(height - 1) : h \in DOMAIN block
            BY <3>2, BelowHeight DEF Unlapsed
          <5>2. height - 1 \notin DOMAIN block
            BY <3>8 DEF AdoptParent
          <5>3. QED
            BY <5>1, <5>2
        <4>3. \A h \in 1..(height - 1) : h \in DOMAIN block' /\ block'[h] = block[h]
          BY <3>8, <4>2 DEF AdoptParent
        <4>4. LocalChain' = LocalChain
          BY <4>1, <4>2, <4>3 DEF LocalChain
        <4>5. QED
          BY <3>5, <4>4
      <3>9. CASE ~SaveBlock /\ ~ForkCommit /\ ~AdoptParent
        <4>1. block' = block /\ height' = height
          BY <2>2, <3>9 DEF Next, Scanner, Faults, NodeMoves, BeginScan, EndScan,
             HeadMatches, HeadDiffers, WalkBack, WalkFails, ForkRefused, Fetch, SkipKnown,
             SaveInfo, Execute, Refuse, CallFails, DecodeFails, ExecuteFails,
             Crash, Return, vars, durable, inHand
        <4>2. LocalChain' = LocalChain
          BY <4>1 DEF LocalChain
        <4>3. QED
          BY <3>5, <4>2
      <3>10. QED
        BY <3>6, <3>7, <3>8, <3>9
    <2>3. QED
      BY <2>1, <2>2
  <1>3. QED
    BY <1>1, <1>2, ScanInvariant, PTL DEF Spec, FollowsChain, Followed!AbsSpec

-----------------------------------------------------------------------------
(* Decode: one transaction, its outputs and the funders of its inputs *)

\* What the assumption says of a transaction, field by field.
LEMMA RawTypes ==
    ASSUME raw \in Transactions
    PROVE  /\ raw.ins \in Seq(Inputs) /\ raw.ins # <<>> /\ 1 \in DOMAIN raw.ins
           /\ \A k \in DOMAIN raw.ins : raw.ins[k] \in Inputs
           /\ IsFiniteSet(DOMAIN raw.ins) /\ Len(raw.ins) \in Nat \ {0}
           /\ DOMAIN raw.ins = 1..Len(raw.ins)
           /\ IsFiniteSet(DOMAIN raw.outs)
           /\ \A k \in DOMAIN raw.outs : raw.outs[k].value \in Nat /\ raw.outs[k].to \in Addresses
           /\ DOMAIN raw.outs = 1..Len(raw.outs) /\ Len(raw.outs) \in Nat \ {0}
           /\ <<Protocol, Operation>> \in Operations
  <1>1. /\ raw.ins \in Seq(Inputs) /\ raw.ins # <<>>
        /\ raw.outs \in Seq([to : Addresses, value : Nat]) /\ raw.outs # <<>>
        /\ <<Protocol, Operation>> \in Operations
    BY DecodeAssumption DEF Protocol, Operation
  <1>2. /\ DOMAIN raw.ins = 1..Len(raw.ins) /\ Len(raw.ins) \in Nat
        /\ DOMAIN raw.outs = 1..Len(raw.outs) /\ Len(raw.outs) \in Nat
    BY <1>1, LenProperties
  <1>3. Len(raw.ins) # 0 /\ Len(raw.outs) # 0
    BY <1>1, EmptySeq
  <1>4. \A k \in DOMAIN raw.ins : raw.ins[k] \in Inputs
    BY <1>1, <1>2, ElementOfSeq
  <1>5. \A k \in DOMAIN raw.outs : raw.outs[k] \in [to : Addresses, value : Nat]
    BY <1>1, <1>2, ElementOfSeq
  <1>6. IsFiniteSet(DOMAIN raw.ins) /\ IsFiniteSet(DOMAIN raw.outs)
    BY <1>2, FS_Interval
  <1>7. QED
    BY <1>1, <1>2, <1>3, <1>4, <1>5, <1>6

\* What the outputs pay to the cool address is no less than any one of them.
LEMMA PaidToCoolIs ==
    ASSUME raw \in Transactions
    PROVE  /\ PaidToCool \in Nat
           /\ \A k \in DOMAIN raw.outs : Out(k).to = Cool => Out(k).value <= PaidToCool
  <1> DEFINE K == {j \in DOMAIN raw.outs : Out(j).to = Cool}
             V == {Out(k).value : k \in K}
             S == {0} \cup V
  <1>1. IsFiniteSet(DOMAIN raw.outs) /\ \A k \in DOMAIN raw.outs : Out(k).value \in Nat
    BY RawTypes DEF Out
  <1>2. S \in SUBSET Nat /\ S # {}
    BY <1>1
  <1>3. IsFiniteSet(K) /\ K \subseteq DOMAIN raw.outs
    BY <1>1, FS_Subset
  <1>4. IsFiniteSet(V)
    <2> DEFINE f == [k \in K |-> Out(k).value]
    <2>1. f \in Surjection(K, V)
      BY DEF Surjection
    <2> HIDE DEF K, V, f
    <2>2. QED
      BY <1>3, <2>1, FS_Surjection
  <1>5. IsFiniteSet(S)
    <2> HIDE DEF V
    <2>1. QED
      BY <1>4, FS_AddElement, FS_EmptySet, FS_Union, FS_Singleton
  <1>6. PICK m \in S : \A n \in S : n <= m
    <2> HIDE DEF S
    <2>1. QED
      BY <1>2, <1>5, GreatestNatural
  <1>7. PaidToCool = CHOOSE x \in S : \A y \in S : x >= y
    BY DEF PaidToCool, Max
  <1>8. PaidToCool \in S /\ \A y \in S : PaidToCool >= y
    <2>1. m \in S /\ \A y \in S : m >= y
      BY <1>2, <1>6
    <2> HIDE DEF S
    <2>2. QED
      BY <1>7, <2>1
  <1>9. ASSUME NEW k \in DOMAIN raw.outs, Out(k).to = Cool PROVE Out(k).value <= PaidToCool
    <2>1. Out(k).value \in S
      BY <1>9
    <2>2. QED
      BY <1>1, <1>2, <1>8, <2>1
  <1>10. QED
    BY <1>2, <1>8, <1>9

LEMMA DepositOfInput ==
    ASSUME NEW i \in Inputs
    PROVE  RouterDeposit(i) \in Nat /\ PumpDeposit(i) \in Nat
  <1>1. i.amts[1] \in Nat /\ i.amts[2] \in Nat
    BY DEF Inputs
  <1>2. QED
    BY <1>1 DEF RouterDeposit, PumpDeposit, OfWdoge

LEMMA ListDepositIs ==
    ASSUME raw \in Transactions
    PROVE  ListDeposit \in Nat
  <1> DEFINE f == [k \in DOMAIN raw.ins |-> RouterDeposit(raw.ins[k])]
  <1>1. f \in [DOMAIN raw.ins -> Nat] /\ IsFiniteSet(DOMAIN raw.ins)
    BY RawTypes, DepositOfInput
  <1> HIDE DEF f
  <1>2. SumFunction(f) \in Nat
    BY <1>1, SumNat
  <1>3. QED
    BY <1>2 DEF f, ListDeposit, SumOver

\* An output that is accepted for a deposit covers it but for a koinu.
LEMMA DepositCovered ==
    ASSUME raw \in Transactions, Len(raw.outs) >= 3, NEW amt \in Nat, PaysDeposit(amt)
    PROVE  amt <= PaidToCool + 1
  <1>1. 2 \in DOMAIN raw.outs /\ Out(2).value \in Nat
    BY RawTypes DEF Out
  <1>2. Out(2).to = Cool /\ Float64ToBigInt(Out(2).value) >= amt
    BY DEF PaysDeposit, Pays
  <1>3. Out(2).value <= PaidToCool /\ PaidToCool \in Nat
    BY <1>1, <1>2, PaidToCoolIs
  <1>4. Out(2).value + 1 >= amt
    BY <1>1, <1>2 DEF Float64ToBigInt
  <1>5. QED
    BY <1>1, <1>3, <1>4

\* Both functions count the same for a list that names the ticks of its pools.
LEMMA CountedAlike ==
    ASSUME raw \in Transactions, Protocol = "pair-v2",
           \A k \in DOMAIN raw.ins : HasPool(raw.ins[k]),
           \A k \in DOMAIN raw.ins : NamesItsPool(raw.ins[k])
    PROVE  Due = ListDeposit
  <1> DEFINE i(k) == raw.ins[k]
             f == [k \in DOMAIN raw.ins |-> RouterDeposit(i(k))]
             g == [k \in DOMAIN raw.ins |->
                     IF i(k).doge THEN RouterDeposit(OfPool(i(k))) ELSE 0]
  <1>1. ASSUME NEW k \in DOMAIN raw.ins PROVE f[k] = g[k]
    <2>1. i(k) \in Inputs
      BY RawTypes
    <2>2. CASE ~i(k).doge
      BY <2>2 DEF RouterDeposit
    <2>3. CASE i(k).doge /\ i(k).op \in {"create", "add"}
      <3>1. i(k).ticks = PoolTicks[i(k).ref]
        BY <2>3 DEF HasPool, NamesItsPool
      <3>2. [i(k) EXCEPT !.ticks = PoolTicks[i(k).ref]] = i(k)
        BY <2>1, <3>1 DEF Inputs
      <3>3. OfPool(i(k)) = i(k)
        BY <2>3, <3>2 DEF OfPool
      <3>4. QED
        BY <2>3, <3>3
    <2>4. CASE i(k).doge /\ i(k).op \notin {"create", "add"}
      BY <2>4 DEF OfPool
    <2>5. QED
      BY <2>2, <2>3, <2>4
  <1>2. f = g
    BY <1>1
  <1>3. ListDeposit = SumOver(f) /\ Due = SumOver(g)
    BY DEF ListDeposit, Due
  <1>4. QED
    BY <1>2, <1>3

LEMMA DueIsPaid ==
    ASSUME DecodeInv, MintDeposit,
           Protocol = "pair-v2" => \A k \in DOMAIN raw.ins : NamesItsPool(raw.ins[k])
    PROVE  minted' <= PaidToCool + 1
  <1>1. /\ raw \in Transactions /\ stage = "execute" /\ minted = 0 /\ PaysInTheEnd
        /\ Len(list) = Wanted /\ (Protocol = "wdoge" /\ list # <<>> => wdogeDecode)
        /\ minted' = minted + Due
        /\ (Protocol = "pair-v2" => \A k \in DOMAIN raw.ins : HasPool(raw.ins[k]))
    BY DEF DecodeInv, GotTo, MintDeposit
  <1>2. PaidToCool \in Nat /\ ListDeposit \in Nat
    BY <1>1, PaidToCoolIs, ListDepositIs
  <1>3. raw.ins[1] \in Inputs
    BY <1>1, RawTypes
  <1>4. CASE Protocol \in Routers
    <2>1. Due = ListDeposit
      <3>1. CASE Protocol = "pair-v1"
        BY <3>1 DEF Due
      <3>2. CASE Protocol = "pair-v2"
        BY <1>1, <3>2, CountedAlike
      <3>3. QED
        BY <1>4, <3>1, <3>2 DEF Routers
    <2>2. ListDeposit > 0 => Len(raw.outs) = 3 /\ PaysDeposit(ListDeposit)
      BY <1>1, <1>4 DEF PaysInTheEnd
    <2>3. ListDeposit <= PaidToCool + 1
      <3>1. CASE ListDeposit > 0
        <4>1. Len(raw.outs) >= 3 /\ PaysDeposit(ListDeposit)
          BY <2>2, <3>1
        <4>2. QED
          BY <1>1, <1>2, <4>1, DepositCovered
      <3>2. CASE ListDeposit = 0
        BY <1>2, <3>2
      <3>3. QED
        BY <1>2, <3>1, <3>2
    <2>4. QED
      BY <1>1, <1>2, <2>1, <2>3
  <1>5. CASE Protocol = "pump"
    <2>1. Due = PumpDeposit(raw.ins[1]) /\ Due \in Nat
      BY <1>3, <1>5, DepositOfInput DEF Due
    <2>2. Due > 0 => Len(raw.outs) >= 3 /\ PaysDeposit(Due)
      BY <1>1, <1>5, <2>1 DEF PaysInTheEnd, Routers
    <2>3. Due <= PaidToCool + 1
      <3>1. CASE Due > 0
        BY <1>1, <2>1, <2>2, <3>1, DepositCovered
      <3>2. QED
        BY <1>2, <2>1, <3>1
    <2>4. QED
      BY <1>1, <1>2, <2>1, <2>3
  <1>6. CASE Protocol = "wdoge" /\ Operation = "deposit"
    <2>1. Due = raw.ins[1].amts[1] /\ Due \in Nat
      BY <1>3, <1>6 DEF Due, Inputs
    <2>2. list # <<>>
      <3>1. Len(list) = 1
        BY <1>1, <1>6 DEF Wanted, Routers
      <3>2. QED
        BY <3>1
    <2>3. Len(raw.outs) = 3 /\ PaysDeposit(Due)
      BY <1>1, <1>6, <2>1, <2>2 DEF wdogeDecode
    <2>4. QED
      BY <1>1, <1>2, <2>1, <2>3, DepositCovered
  <1>7. CASE /\ Protocol \notin Routers \cup {"pump"}
             /\ Protocol = "wdoge" => Operation # "deposit"
    <2>1. Due = 0
      BY <1>7 DEF Due, Routers
    <2>2. QED
      BY <1>1, <1>2, <2>1
  <1>8. QED
    BY <1>4, <1>5, <1>6, <1>7

\* Who is accepted as the holder of input k funded it, or gives.
LEMMA HolderAccepted ==
    ASSUME raw \in Transactions, NEW k \in DOMAIN raw.ins, Accepts(k),
           Protocol \notin Routers => k = 1
    PROVE  Holder(k) = Funder(k) \/ Gives
  <1>1. <<Protocol, Operation>> \in Operations
    BY RawTypes
  <1>2. CASE <<Protocol, Operation>> \in {<<"drc-20", "transfer">>, <<"file", "transfer">>,
                      <<"meme-20", "transfer">>, <<"cross", "mint">>}
    BY <1>2 DEF Holder
  <1>3. CASE Gives
    BY <1>3
  <1>4. CASE /\ ~Gives
             /\ <<Protocol, Operation>> \notin
                  {<<"drc-20", "transfer">>, <<"file", "transfer">>,
                   <<"meme-20", "transfer">>, <<"cross", "mint">>}
    <2>1. Holder(k) = Receiver
      BY <1>4 DEF Holder
    <2>2. Protocol \notin {"drc-20", "file"}
      BY <1>1, <1>4 DEF Operations, Gives, Routers
    <2>3. Protocol = "meme-20" => Operation = "deploy"
      BY <1>1, <1>4 DEF Operations, Routers
    <2>4. Protocol = "cross" => Operation # "mint"
      BY <1>4
    <2>5. Protocol \in Routers \cup {"wdoge", "stake-v1", "order-v1", "order-v2", "box-v1",
                                     "cross", "meme-20", "consensus", "pump", "invite"}
      BY <1>1, <2>2 DEF Operations, Routers
    <2>6. OwnAddress(k)
      <3>1. CASE Protocol \in Routers
        BY <3>1 DEF Accepts, Routers
      <3>2. CASE Protocol \notin Routers
        <4>1. k = 1
          BY <3>2
        <4>2. OwnAddress(1)
          BY <2>3, <2>4, <2>5, <3>2
             DEF Accepts, Routers, wdogeDecode, stakeDecode, exchangeDecode, fileExchangeDecode,
                 boxDecode, crossDecode, meme20Decode, consensusDecode, pumpDecode, inviteDecode
        <4>3. QED
          BY <4>1, <4>2
      <3>3. QED
        BY <3>1, <3>2
    <2>7. QED
      BY <2>1, <2>6 DEF OwnAddress
  <1>5. QED
    BY <1>2, <1>3, <1>4

\* What is said of the transaction alone stays true of it.
LEMMA TransactionStays ==
    ASSUME raw' = raw
    PROVE  /\ Protocol' = Protocol /\ Operation' = Operation /\ Wanted' = Wanted
           /\ PaysInTheEnd' = PaysInTheEnd /\ wdogeDecode' = wdogeDecode
           /\ Gives' = Gives /\ PaidToCool' = PaidToCool
           /\ \A k : Funder(k)' = Funder(k)
  <1>1. Protocol' = Protocol /\ Operation' = Operation
    BY DEF Protocol, Operation
  <1>2. \A k : Funder(k)' = Funder(k)
    BY DEF Funder
  <1>3. Wanted' = Wanted /\ Gives' = Gives
    BY <1>1 DEF Wanted, Gives
  <1>4. \A k : Out(k)' = Out(k)
    BY DEF Out
  <1>5. Receiver' = Receiver
    BY <1>4 DEF Receiver
  <1>6. PaidToCool' = PaidToCool
    BY <1>4 DEF PaidToCool
  <1>7. ListDeposit' = ListDeposit
    BY DEF ListDeposit
  <1>8. \A k, to, amt : Pays(k, to, amt)' = Pays(k, to, amt)
    BY <1>4 DEF Pays
  <1>9. \A amt : PaysDeposit(amt)' = PaysDeposit(amt)
    BY <1>8 DEF PaysDeposit
  <1>10. wdogeDecode' = wdogeDecode
    BY <1>1, <1>2, <1>5, <1>9 DEF wdogeDecode, OwnAddress
  <1>11. PaysInTheEnd' = PaysInTheEnd
    BY <1>1, <1>7, <1>9 DEF PaysInTheEnd
  <1>12. QED
    BY <1>1, <1>2, <1>3, <1>6, <1>10, <1>11

\* A transaction that was never scanned has brought nothing.
LEMMA DecodeInvInit == ASSUME DecodeInit PROVE DecodeInv
  <1>1. raw \in Transactions /\ saved = 0 /\ stage = "idle" /\ list = <<>> /\ minted = 0
        /\ acted = <<>>
    BY DEF DecodeInit
  <1>2. PaidToCool \in Nat
    BY <1>1, PaidToCoolIs
  <1>3. GotTo
    BY <1>1 DEF GotTo
  <1>4. MintedIsPaid /\ ActsForFunder
    BY <1>1, <1>2 DEF MintedIsPaid, ActsForFunder
  <1>5. QED
    BY <1>1, <1>3, <1>4 DEF DecodeInv

\* A step that neither mints nor acts keeps the two properties.
LEMMA NeitherMintsNorActs ==
    ASSUME DecodeInv, raw' = raw, minted' = minted, acted' = acted
    PROVE  MintedIsPaid' /\ ActsForFunder'
  <1>1. MintedIsPaid'
    BY TransactionStays DEF DecodeInv, MintedIsPaid, NamesItsPool
  <1>2. ActsForFunder'
    BY TransactionStays DEF DecodeInv, ActsForFunder
  <1>3. QED
    BY <1>1, <1>2

\* Each step of the scanner keeps what is known of the transaction.
LEMMA DecodeInvStep == ASSUME DecodeInv, [DecodeNext]_decodeVars PROVE DecodeInv'
  <1> USE DEF DecodeInv
  <1>1. raw \in Transactions /\ GotTo /\ Wanted \in Nat \ {0} /\ Wanted <= Len(raw.ins)
    BY RawTypes DEF Wanted
  <1>2. CASE UNCHANGED decodeVars
    <2>1. /\ raw' = raw /\ saved' = saved /\ stage' = stage /\ list' = list
          /\ minted' = minted /\ acted' = acted
      BY <1>2 DEF decodeVars
    <2>2. GotTo'
      BY <1>1, <2>1, TransactionStays DEF GotTo
    <2>3. QED
      BY <2>1, <2>2, NeitherMintsNorActs
  <1>3. CASE Scan
    <2>1. /\ raw' = raw /\ saved' = saved /\ stage' = "inputs" /\ list' = list
          /\ minted' = minted /\ acted' = acted /\ saved = 0 /\ stage = "idle"
      BY <1>3 DEF Scan
    <2>2. GotTo'
      BY <1>1, <2>1, TransactionStays DEF GotTo
    <2>3. QED
      BY <2>1, <2>2, NeitherMintsNorActs
  <1>4. CASE DecodeInput
    <2> DEFINE k == Len(list) + 1
    <2>1. /\ raw' = raw /\ saved' = saved + 1 /\ stage = "inputs" /\ stage' = "inputs"
          /\ list' = Append(list, Holder(k)) /\ minted' = minted /\ acted' = acted
          /\ Len(list) < Wanted /\ Accepts(k)
      BY <1>4 DEF DecodeInput
    <2>2. k \in DOMAIN raw.ins /\ (Protocol \notin Routers => k = 1)
      BY <1>1, <2>1, RawTypes DEF Wanted
    <2>3. Holder(k) = Funder(k) \/ Gives
      BY <1>1, <2>1, <2>2, HolderAccepted
    <2>4. Holder(k) \in Addresses
      <3>1. raw.ins[k].funder \in Addresses
        BY <1>1, <2>2, RawTypes DEF Inputs
      <3>2. 1 \in DOMAIN raw.outs /\ raw.outs[1].to \in Addresses
        BY <1>1, RawTypes
      <3>3. Holder(k) = raw.ins[k].funder \/ Holder(k) = raw.outs[1].to
        BY DEF Holder, Funder, Receiver, Out
      <3>4. QED
        BY <3>1, <3>2, <3>3
    <2>5. /\ list' \in Seq(Addresses) /\ Len(list') = k /\ list'[k] = Holder(k)
          /\ \A j \in DOMAIN list : list'[j] = list[j]
          /\ DOMAIN list' = DOMAIN list \cup {k}
      BY <2>1, <2>4, AppendProperties
    <2>6. Protocol = "wdoge" => wdogeDecode
      BY <2>1 DEF Accepts, Routers
    <2>7. GotTo'
      <3>1. \A j \in DOMAIN list' : list'[j] = Funder(j)' \/ Gives'
        BY <1>1, <2>1, <2>3, <2>5, TransactionStays DEF GotTo
      <3>2. saved' = Len(list') /\ minted' = 0 /\ Len(list') <= Wanted' /\ saved' # 0
        BY <1>1, <2>1, <2>5, TransactionStays DEF GotTo
      <3>3. Protocol' = "wdoge" => wdogeDecode'
        BY <2>1, <2>6, TransactionStays
      <3>4. QED
        BY <2>1, <3>1, <3>2, <3>3 DEF GotTo
    <2>8. QED
      BY <2>1, <2>5, <2>7, NeitherMintsNorActs
  <1>5. CASE Decoded
    <2>1. /\ raw' = raw /\ saved' = saved /\ stage = "inputs" /\ stage' = "execute"
          /\ list' = list /\ minted' = minted /\ acted' = acted
          /\ Len(list) = Wanted /\ PaysInTheEnd
      BY <1>5 DEF Decoded
    <2>2. GotTo'
      BY <1>1, <2>1, TransactionStays DEF GotTo
    <2>3. QED
      BY <2>1, <2>2, NeitherMintsNorActs
  <1>6. CASE GiveUp
    <2>1. /\ raw' = raw /\ saved' = saved /\ stage' = "idle" /\ list' = <<>>
          /\ minted' = minted /\ acted' = acted
      BY <1>6 DEF GiveUp, Leave
    <2>2. GotTo'
      BY <1>1, <2>1, TransactionStays DEF GotTo
    <2>3. QED
      BY <2>1, <2>2, NeitherMintsNorActs
  <1>7. CASE MintDeposit
    <2>1. /\ raw' = raw /\ saved' = saved /\ stage = "execute" /\ stage' = "act"
          /\ list' = list /\ acted' = acted
      BY <1>7 DEF MintDeposit
    <2>2. saved # 0 /\ Len(list) = Wanted
      BY <1>1, <2>1 DEF GotTo
    <2>3. GotTo'
      BY <1>1, <2>1, <2>2, TransactionStays DEF GotTo
    <2>4. MintedIsPaid'
      BY <1>7, <2>1, DueIsPaid, TransactionStays DEF MintedIsPaid, NamesItsPool
    <2>5. ActsForFunder'
      BY <2>1, TransactionStays DEF ActsForFunder
    <2>6. QED
      BY <2>1, <2>3, <2>4, <2>5
  <1>8. CASE Act
    <2>1. /\ raw' = raw /\ saved' = saved /\ stage = "act" /\ stage' = "idle" /\ list' = <<>>
          /\ minted' = minted /\ acted' = Append(acted, list)
      BY <1>8 DEF Act, Leave
    <2>2. saved # 0 /\ Len(list) = Wanted /\ \A k \in DOMAIN list : list[k] = Funder(k) \/ Gives
      BY <1>1, <2>1 DEF GotTo
    <2>3. GotTo'
      BY <1>1, <2>1, <2>2, TransactionStays DEF GotTo
    <2>4. MintedIsPaid'
      BY <2>1, TransactionStays DEF MintedIsPaid, NamesItsPool
    <2>5. /\ acted' \in Seq(Seq(Addresses)) /\ DOMAIN acted' = DOMAIN acted \cup {Len(acted) + 1}
          /\ \A n \in DOMAIN acted : acted'[n] = acted[n]
          /\ acted'[Len(acted) + 1] = list
      BY <2>1, AppendProperties
    <2>6. ActsForFunder'
      BY <2>1, <2>2, <2>5, TransactionStays DEF ActsForFunder
    <2>7. QED
      BY <2>1, <2>3, <2>4, <2>5, <2>6
  <1>9. QED
    BY <1>2, <1>3, <1>4, <1>5, <1>6, <1>7, <1>8 DEF DecodeNext

\* What is known of a transaction that has got so far, of any number of inputs
\* and outputs, however often it is scanned and wherever that is cut off.
THEOREM DecodeInvariant == DecodeSpec => []DecodeInv
  <1>1. DecodeInit => DecodeInv
    BY DecodeInvInit
  <1>2. DecodeInv /\ [DecodeNext]_decodeVars => DecodeInv'
    BY DecodeInvStep
  <1>3. QED
    BY <1>1, <1>2, PTL DEF DecodeSpec

\* The WDOGE minted for a transaction (swapRouterDecode and executePairV1,
\* swapV2RouterDecode and executePairV2, pumpDecode, wdogeDecode) is covered by
\* one output to the cool address, but for one koinu of rounding.
THEOREM DepositsArePaid == DecodeSpec => []MintedIsPaid
  <1>1. DecodeInv => MintedIsPaid
    BY DEF DecodeInv
  <1>2. QED
    BY <1>1, DecodeInvariant, PTL

\* What the decode functions let through is done in the name of him who funded
\* it, for a list input by input, and a list as a whole.
THEOREM OnlyFundersAct == DecodeSpec => []ActsForFunder
  <1>1. DecodeInv => ActsForFunder
    BY DEF DecodeInv
  <1>2. QED
    BY <1>1, DecodeInvariant, PTL

-----------------------------------------------------------------------------
(* Deploys. The tables are sound, and so is what a fork to any finished    *)
(* block would leave of them, but for the ticks that rows of an abandoned  *)
(* block have spoiled, or would. The journal drc20_revert is followed      *)
(* backwards by a trace of each tick's balances.                           *)

\* What the assumptions say of names, without their quantifiers.
LEMMA DeployNames ==
    /\ IsFiniteSet(Accounts) /\ Nobody \notin Accounts
    /\ BoxTicks \subseteq Ticks /\ BoxTicks \cap DOMAIN Minted = {} /\ DOMAIN Minted \subseteq Ticks
    /\ \A t \in DOMAIN Minted : Minted[t] \in [Accounts -> Nat]
    /\ \A t \in BoxTicks : /\ LP[t] \in Ticks /\ LP[t] \notin BoxTicks /\ LP[t] \notin DOMAIN Minted
                          /\ BoxReserve[t] \in Accounts /\ BoxReserve[t] \notin Users
                          /\ PoolReserve[t] \in Accounts /\ PoolReserve[t] \notin Users
                          /\ BoxReserve[t] # PoolReserve[t]
                          /\ LP[t] \notin Wrapped /\ t \notin Wrapped
    /\ \A t, x \in BoxTicks : t # x => BoxReserve[t] # BoxReserve[x] /\ LP[t] # LP[x]
    /\ Users \subseteq Accounts /\ Wrapped \subseteq Ticks
    /\ MINI_LIQUIDITY \in Nat /\ Amounts \subseteq Nat /\ MaxHeight \in Nat /\ MaxOps \in Nat
    /\ \A d \in BoxDeploys : /\ d.tick0 \in BoxTicks /\ d.tick1 \in Ticks
                            /\ d.max \in Nat /\ d.amt0 \in Nat /\ d.liqamt \in Nat
    /\ Stuck \notin Tables
  BY TokensAssumption, BoxAssumption, CrossAssumption, DeploysAssumption DEF Deploying

\* Functions on part of a set.
LEMMA PartlyFacts ==
    ASSUME NEW D, NEW R, NEW f
    PROVE  /\ f \in PartlyOn(D, R) => DOMAIN f \subseteq D /\ f \in [DOMAIN f -> R]
           /\ \A S \in SUBSET D : f \in [S -> R] => f \in PartlyOn(D, R)
  BY DEF PartlyOn

\* What the tables hold, table by table.
LEMMA TableFacts ==
    ASSUME NEW s \in Tables
    PROVE  /\ DOMAIN s.collect \subseteq Ticks /\ s.collect \in [DOMAIN s.collect -> Nat]
           /\ s.bal \in [Ticks -> [Accounts -> Nat]]
           /\ s.log \in Seq(LogRows)
           /\ DOMAIN s.boxes \subseteq BoxTicks /\ s.boxes \in [DOMAIN s.boxes -> BoxRows]
           /\ s.shares \in Seq(ShareRows)
           /\ s.boxlog \in Seq(BoxLogRows)
           /\ DOMAIN s.pools \subseteq BoxTicks /\ s.pools \in [DOMAIN s.pools -> Nat]
           /\ DOMAIN s.cross \subseteq Wrapped /\ s.cross \in [DOMAIN s.cross -> CrossRows]
  <1>1. /\ s.collect \in PartlyOn(Ticks, Nat) /\ s.bal \in [Ticks -> [Accounts -> Nat]]
        /\ s.log \in Seq(LogRows) /\ s.boxes \in PartlyOn(BoxTicks, BoxRows)
        /\ s.shares \in Seq(ShareRows) /\ s.boxlog \in Seq(BoxLogRows)
        /\ s.pools \in PartlyOn(BoxTicks, Nat) /\ s.cross \in PartlyOn(Wrapped, CrossRows)
    BY DEF Tables
  <1>2. DOMAIN s.collect \subseteq Ticks /\ s.collect \in [DOMAIN s.collect -> Nat]
    BY <1>1, PartlyFacts
  <1>3. DOMAIN s.boxes \subseteq BoxTicks /\ s.boxes \in [DOMAIN s.boxes -> BoxRows]
    BY <1>1, PartlyFacts
  <1>4. DOMAIN s.pools \subseteq BoxTicks /\ s.pools \in [DOMAIN s.pools -> Nat]
    BY <1>1, PartlyFacts
  <1>5. DOMAIN s.cross \subseteq Wrapped /\ s.cross \in [DOMAIN s.cross -> CrossRows]
    BY <1>1, PartlyFacts
  <1>6. QED
    BY <1>1, <1>2, <1>3, <1>4, <1>5

\* Balances of one tick: what each address has of it.
Purses == [Accounts -> Nat]

\* A purse with amt more, or less, of an address; and with amt moved.
More(b, a, amt) == [b EXCEPT ![a] = @ + amt]
Less(b, a, amt) == [b EXCEPT ![a] = @ - amt]

\* Adding to an address adds to the sum, and can be undone.
LEMMA MoreFacts ==
    ASSUME NEW b \in Purses, NEW a \in Accounts, NEW amt \in Nat
    PROVE  /\ More(b, a, amt) \in Purses
           /\ SumFunction(More(b, a, amt)) = SumFunction(b) + amt
           /\ Less(More(b, a, amt), a, amt) = b
           /\ amt <= More(b, a, amt)[a]
           /\ SumFunction(b) \in Nat
  <1> DEFINE g == More(b, a, amt)
             k == Less(g, a, amt)
  <1>1. /\ b \in [Accounts -> Nat] /\ b \in [Accounts -> Int]
        /\ g \in [Accounts -> Nat] /\ g \in [Accounts -> Int]
        /\ g[a] = b[a] + amt /\ \A x \in Accounts \ {a} : g[x] = b[x]
    BY DEF More, Purses
  <1> HIDE DEF g
  <1>2. k \in [Accounts -> Int] /\ \A x \in Accounts : k[x] = b[x]
    BY <1>1 DEF Less
  <1> HIDE DEF k
  <1>3. k = b
    BY ONLY <1>1, <1>2
  <1>4. SumFunction(b) \in Nat
    BY <1>1, DeployNames, SumNat
  <1>5. SumFunction(g) = SumFunction(b) - b[a] + g[a]
    BY <1>1, DeployNames, SumUpdate
  <1>6. SumFunction(g) = SumFunction(b) + amt
    BY <1>1, <1>4, <1>5
  <1>7. amt <= g[a]
    BY <1>1
  <1>8. QED
    BY <1>1, <1>3, <1>4, <1>6, <1>7 DEF g, k, Purses

\* Taking from an address takes from the sum, and can be undone.
LEMMA LessFacts ==
    ASSUME NEW b \in Purses, NEW a \in Accounts, NEW amt \in Nat, amt <= b[a]
    PROVE  /\ Less(b, a, amt) \in Purses
           /\ SumFunction(Less(b, a, amt)) = SumFunction(b) - amt
           /\ More(Less(b, a, amt), a, amt) = b
           /\ SumFunction(b) \in Nat /\ amt <= SumFunction(b)
  <1> DEFINE g == Less(b, a, amt)
             k == More(g, a, amt)
  <1>1. /\ b \in [Accounts -> Nat] /\ b \in [Accounts -> Int]
        /\ g \in [Accounts -> Nat] /\ g \in [Accounts -> Int]
        /\ g[a] = b[a] - amt /\ \A x \in Accounts \ {a} : g[x] = b[x]
    BY DEF Less, Purses
  <1> HIDE DEF g
  <1>2. k \in [Accounts -> Int] /\ \A x \in Accounts : k[x] = b[x]
    BY <1>1 DEF More
  <1> HIDE DEF k
  <1>3. k = b
    BY ONLY <1>1, <1>2
  <1>4. SumFunction(b) \in Nat /\ b[a] <= SumFunction(b)
    BY <1>1, DeployNames, SumNat
  <1>5. SumFunction(g) = SumFunction(b) - b[a] + g[a]
    BY <1>1, DeployNames, SumUpdate
  <1>6. SumFunction(g) = SumFunction(b) - amt
    BY <1>1, <1>4, <1>5
  <1>7. amt <= SumFunction(b)
    BY <1>1, <1>4
  <1>8. QED
    BY <1>1, <1>3, <1>4, <1>6, <1>7 DEF g, k, Purses

Passed(b, payer, to, amt) == More(Less(b, payer, amt), to, amt)

\* A transfer leaves the sum, and can be undone.
LEMMA PassedFacts ==
    ASSUME NEW b \in Purses, NEW payer \in Accounts, NEW to \in Accounts, payer # to,
           NEW amt \in Nat, amt <= b[payer]
    PROVE  /\ Passed(b, payer, to, amt) \in Purses
           /\ SumFunction(Passed(b, payer, to, amt)) = SumFunction(b)
           /\ amt <= Passed(b, payer, to, amt)[to]
           /\ Passed(Passed(b, payer, to, amt), to, payer, amt) = b
  <1> DEFINE l == Less(b, payer, amt)
             p == More(l, to, amt)
  <1>1. /\ l \in Purses /\ SumFunction(l) = SumFunction(b) - amt /\ More(l, payer, amt) = b
        /\ SumFunction(b) \in Nat
    BY LessFacts
  <1> HIDE DEF l
  <1>2. /\ p \in Purses /\ SumFunction(p) = SumFunction(l) + amt /\ Less(p, to, amt) = l
        /\ amt <= p[to]
    BY <1>1, MoreFacts
  <1> HIDE DEF p
  <1>3. SumFunction(p) = SumFunction(b)
    BY <1>1, <1>2
  <1>4. QED
    BY <1>1, <1>2, <1>3 DEF p, l, Passed

\* Row r of the journal on the balances b of its tick.
Undoable(b, r) ==
    IF r.from = Nobody THEN r.amt <= b[r.to]
    ELSE r.to # Nobody => r.amt >= 1 /\ r.to # r.from /\ r.amt <= b[r.to]

\* The balances before it.
Back(b, r) ==
    IF r.from = Nobody THEN Less(b, r.to, r.amt)
    ELSE IF r.to = Nobody THEN More(b, r.from, r.amt)
    ELSE Passed(b, r.to, r.from, r.amt)

\* A row has two sides, or one of them is nobody.
Meant(r) == Nobody \in {r.from, r.to} => r.from # r.to

\* What undoing a row adds to the sum.
Shift(r) == IF r.from = Nobody THEN -r.amt ELSE IF r.to = Nobody THEN r.amt ELSE 0

\* The fields of a row that is meant.
LEMMA RowTypes ==
    ASSUME NEW r \in LogRows, Meant(r)
    PROVE  /\ r.amt \in Nat /\ r.tick \in Ticks /\ r.at \in Nat
           /\ r.from = Nobody => r.to \in Accounts /\ r.to # Nobody
           /\ r.from # Nobody => r.from \in Accounts
           /\ r.to # Nobody => r.to \in Accounts
  BY DeployNames DEF LogRows, Meant

\* Undoing a row of the journal on balances that allow it.
LEMMA BackPurse ==
    ASSUME NEW b \in Purses, NEW r \in LogRows, Meant(r), Undoable(b, r)
    PROVE  /\ Back(b, r) \in Purses
           /\ SumFunction(b) \in Nat
           /\ SumFunction(Back(b, r)) = SumFunction(b) + Shift(r)
           /\ r.from = Nobody => r.amt <= SumFunction(b)
  <1>1. r.amt \in Nat
    BY RowTypes
  <1>2. CASE r.from = Nobody
    <2>1. r.to \in Accounts /\ r.amt <= b[r.to]
      BY <1>2, RowTypes DEF Undoable
    <2>2. QED
      BY <1>1, <1>2, <2>1, LessFacts DEF Back, Shift
  <1>3. CASE r.from # Nobody /\ r.to = Nobody
    <2>1. r.from \in Accounts
      BY <1>3, RowTypes
    <2>2. QED
      BY <1>1, <1>3, <2>1, MoreFacts DEF Back, Shift
  <1>4. CASE r.from # Nobody /\ r.to # Nobody
    <2>1. /\ r.from \in Accounts /\ r.to \in Accounts /\ r.to # r.from /\ r.amt <= b[r.to]
      BY <1>4, RowTypes DEF Undoable
    <2>2. /\ Passed(b, r.to, r.from, r.amt) \in Purses
          /\ SumFunction(Passed(b, r.to, r.from, r.amt)) = SumFunction(b)
          /\ SumFunction(b) \in Nat
      BY <1>1, <2>1, PassedFacts, LessFacts
    <2>3. Back(b, r) = Passed(b, r.to, r.from, r.amt) /\ Shift(r) = 0
      BY <1>4 DEF Back, Shift
    <2>4. QED
      BY <1>4, <2>2, <2>3
  <1>5. QED
    BY <1>2, <1>3, <1>4

\* The balances of tick t are replaced.
Put(bal, t, f) == [bal EXCEPT ![t] = f]

\* The operators of Balances work on one purse.
LEMMA BalancesAsPurses ==
    ASSUME NEW bal \in [Ticks -> [Accounts -> Nat]], NEW t \in Ticks
    PROVE  /\ bal[t] \in Purses
           /\ \A a \in Accounts, amt \in Nat :
                 /\ Mint(bal, t, a, amt) = Put(bal, t, More(bal[t], a, amt))
                 /\ Burn(bal, t, a, amt) = Put(bal, t, Less(bal[t], a, amt))
           /\ \A a, x \in Accounts, amt \in Nat : a # x =>
                 Move(bal, t, a, x, amt) = Put(bal, t, Passed(bal[t], a, x, amt))
           /\ \A f \in Purses : /\ Put(bal, t, f) \in [Ticks -> [Accounts -> Nat]]
                                /\ Put(bal, t, f)[t] = f
                                /\ \A x \in Ticks \ {t} : Put(bal, t, f)[x] = bal[x]
  <1>1. \A a, x \in Accounts, amt \in Nat : a # x =>
                 Move(bal, t, a, x, amt) = Put(bal, t, Passed(bal[t], a, x, amt))
    <2> SUFFICES ASSUME NEW a \in Accounts, NEW x \in Accounts, NEW amt \in Nat, a # x
                 PROVE  Move(bal, t, a, x, amt) = Put(bal, t, Passed(bal[t], a, x, amt))
      OBVIOUS
    <2> DEFINE f == [bal[t] EXCEPT ![a] = @ - amt, ![x] = @ + amt]
    <2>1. Move(bal, t, a, x, amt) = Put(bal, t, f)
      BY DEF Move, Put
    <2>2. f = Passed(bal[t], a, x, amt)
      BY DEF Passed, More, Less
    <2>3. QED
      BY <2>1, <2>2
  <1>2. QED
    BY <1>1 DEF Mint, Burn, Put, More, Less, Purses

\* The balances of other ticks stay.
LEMMA PutFacts ==
    ASSUME NEW bal \in [Ticks -> [Accounts -> Nat]], NEW t \in Ticks, NEW f \in Purses
    PROVE  /\ Put(bal, t, f) \in [Ticks -> [Accounts -> Nat]]
           /\ Put(bal, t, f)[t] = f
           /\ \A x \in Ticks \ {t} : Put(bal, t, f)[x] = bal[x]
  BY DEF Put, Purses

\* All but the ledger's balances and amt_sum.
Others(s) == <<s.log, s.boxes, s.shares, s.boxlog, s.pools, s.cross>>

\* The fields of Others, one by one.
LEMMA OthersFacts ==
    ASSUME NEW s, NEW z, Others(s) = Others(z)
    PROVE  /\ s.log = z.log /\ s.boxes = z.boxes /\ s.shares = z.shares
           /\ s.boxlog = z.boxlog /\ s.pools = z.pools /\ s.cross = z.cross
  BY DEF Others

\* Two fields of the tables are replaced.
WithLedger(s, b, c) == [s EXCEPT !.bal = b, !.collect = c]

\* Tables with another ledger are tables.
LEMMA WithLedgerFacts ==
    ASSUME NEW s \in Tables, NEW b \in [Ticks -> [Accounts -> Nat]], NEW c,
           DOMAIN c = DOMAIN s.collect, c \in [DOMAIN s.collect -> Nat]
    PROVE  /\ WithLedger(s, b, c) \in Tables
           /\ WithLedger(s, b, c).bal = b /\ WithLedger(s, b, c).collect = c
           /\ Others(WithLedger(s, b, c)) = Others(s)
           /\ WithLedger(s, b, c) # Stuck
  <1>1. c \in PartlyOn(Ticks, Nat)
    BY TableFacts, PartlyFacts
  <1>2. WithLedger(s, b, c) \in Tables
    BY <1>1 DEF WithLedger, Tables
  <1>3. WithLedger(s, b, c) # Stuck
    BY <1>2, DeployNames
  <1>4. QED
    BY <1>2, <1>3 DEF WithLedger, Tables, Others

\* What drc20Fork does with a row that it can undo.
LEMMA UndoFacts ==
    ASSUME NEW w \in Tables, NEW r \in LogRows, Meant(r), UndoOk(w, r)
    PROVE  /\ Undo(w, r) \in Tables
           /\ Undoable(w.bal[r.tick], r)
           /\ Undo(w, r).bal = Put(w.bal, r.tick, Back(w.bal[r.tick], r))
           /\ DOMAIN Undo(w, r).collect = DOMAIN w.collect
           /\ \A x \in DOMAIN w.collect :
                 Undo(w, r).collect[x] = IF x = r.tick THEN w.collect[x] + Shift(r)
                                         ELSE w.collect[x]
           /\ Others(Undo(w, r)) = Others(w)
  <1> DEFINE t == r.tick
  <1>1. /\ r.amt \in Nat /\ t \in Ticks
        /\ r.from = Nobody => r.to \in Accounts /\ r.to # Nobody
        /\ r.from # Nobody => r.from \in Accounts
        /\ r.to # Nobody => r.to \in Accounts
    BY RowTypes
  <1>2. /\ w.bal \in [Ticks -> [Accounts -> Nat]]
        /\ w.collect \in [DOMAIN w.collect -> Nat]
        /\ w.bal[t] \in Purses
    BY <1>1, TableFacts, BalancesAsPurses
  <1>3. CASE r.from = Nobody
    <2> DEFINE b == Put(w.bal, t, Less(w.bal[t], r.to, r.amt))
               c == AddTo(w.collect, t, -r.amt)
    <2>1. /\ t \in DOMAIN w.collect /\ r.amt <= w.collect[t] /\ r.amt <= w.bal[t][r.to]
          /\ r.to \in Accounts
      BY <1>1, <1>3 DEF UndoOk, CanBurnDrc20, CanBurn, HasToken
    <2>2. Less(w.bal[t], r.to, r.amt) \in Purses
      BY <1>1, <1>2, <2>1, LessFacts
    <2>3. b \in [Ticks -> [Accounts -> Nat]]
      BY <1>1, <1>2, <2>2, BalancesAsPurses
    <2>4. DOMAIN c = DOMAIN w.collect /\ c \in [DOMAIN w.collect -> Nat]
      BY <1>1, <1>2, <2>1 DEF AddTo
    <2>5. Undo(w, r) = WithLedger(w, b, c)
      <3>1. Burn(w.bal, t, r.to, r.amt) = b
        BY <1>1, <1>2, <2>1, BalancesAsPurses
      <3>2. Undo(w, r) = [w EXCEPT !.bal = Burn(w.bal, t, r.to, r.amt), !.collect = AddTo(@, t, -r.amt)]
        BY <1>3 DEF Undo
      <3>3. QED
        BY <3>1, <3>2 DEF WithLedger, Tables
    <2>6. /\ Undoable(w.bal[t], r) /\ Back(w.bal[t], r) = Less(w.bal[t], r.to, r.amt)
          /\ Shift(r) = -r.amt
      BY <1>3, <2>1 DEF Undoable, Back, Shift
    <2> HIDE DEF b
    <2>7. \A x \in DOMAIN w.collect :
             c[x] = IF x = t THEN w.collect[x] + Shift(r) ELSE w.collect[x]
      BY <1>1, <1>2, <2>6 DEF AddTo
    <2> HIDE DEF c
    <2>8. QED
      BY <2>3, <2>4, <2>5, <2>6, <2>7, WithLedgerFacts DEF b
  <1>4. CASE r.from # Nobody /\ r.to = Nobody
    <2> DEFINE b == Put(w.bal, t, More(w.bal[t], r.from, r.amt))
               c == AddTo(w.collect, t, r.amt)
    <2>1. t \in DOMAIN w.collect /\ r.from \in Accounts
      BY <1>1, <1>4 DEF UndoOk, HasToken
    <2>2. More(w.bal[t], r.from, r.amt) \in Purses
      BY <1>1, <1>2, <2>1, MoreFacts
    <2>3. b \in [Ticks -> [Accounts -> Nat]]
      BY <1>1, <1>2, <2>2, BalancesAsPurses
    <2>4. DOMAIN c = DOMAIN w.collect /\ c \in [DOMAIN w.collect -> Nat]
      BY <1>1, <1>2, <2>1 DEF AddTo
    <2>5. Undo(w, r) = WithLedger(w, b, c)
      <3>1. Mint(w.bal, t, r.from, r.amt) = b
        BY <1>1, <1>2, <2>1, BalancesAsPurses
      <3>2. Undo(w, r) = [w EXCEPT !.bal = Mint(w.bal, t, r.from, r.amt), !.collect = AddTo(@, t, r.amt)]
        BY <1>4 DEF Undo
      <3>3. QED
        BY <3>1, <3>2 DEF WithLedger, Tables
    <2>6. /\ Undoable(w.bal[t], r) /\ Back(w.bal[t], r) = More(w.bal[t], r.from, r.amt)
          /\ Shift(r) = r.amt
      BY <1>4 DEF Undoable, Back, Shift
    <2> HIDE DEF b
    <2>7. \A x \in DOMAIN w.collect :
             c[x] = IF x = t THEN w.collect[x] + Shift(r) ELSE w.collect[x]
      BY <1>1, <1>2, <2>6 DEF AddTo
    <2> HIDE DEF c
    <2>8. QED
      BY <2>3, <2>4, <2>5, <2>6, <2>7, WithLedgerFacts DEF b
  <1>5. CASE r.from # Nobody /\ r.to # Nobody
    <2> DEFINE b == Put(w.bal, t, Passed(w.bal[t], r.to, r.from, r.amt))
               c == w.collect
    <2>1. /\ r.from \in Accounts /\ r.to \in Accounts /\ r.amt >= 1 /\ r.to # r.from
          /\ r.amt <= w.bal[t][r.to]
      BY <1>1, <1>5 DEF UndoOk, CanMove
    <2>2. Passed(w.bal[t], r.to, r.from, r.amt) \in Purses
      BY <1>1, <1>2, <2>1, PassedFacts
    <2>3. b \in [Ticks -> [Accounts -> Nat]]
      BY <1>1, <1>2, <2>2, BalancesAsPurses
    <2>4. DOMAIN c = DOMAIN w.collect /\ c \in [DOMAIN w.collect -> Nat]
      BY <1>1, <1>2, <2>1 DEF AddTo
    <2>5. Undo(w, r) = WithLedger(w, b, c)
      <3>1. Move(w.bal, t, r.to, r.from, r.amt) = b
        <4>1. \A a, x \in Accounts, amt \in Nat : a # x =>
                 Move(w.bal, t, a, x, amt) = Put(w.bal, t, Passed(w.bal[t], a, x, amt))
          BY <1>1, <1>2, BalancesAsPurses
        <4>2. QED
          BY <1>1, <2>1, <4>1
      <3>2. QED
        BY <1>5, <3>1 DEF Undo, WithLedger, Tables
    <2>6. /\ Undoable(w.bal[t], r) /\ Back(w.bal[t], r) = Passed(w.bal[t], r.to, r.from, r.amt)
          /\ Shift(r) = 0
      BY <1>5, <2>1 DEF Undoable, Back, Shift
    <2> HIDE DEF b
    <2>7. \A x \in DOMAIN w.collect :
             c[x] = IF x = t THEN w.collect[x] + Shift(r) ELSE w.collect[x]
      BY <1>1, <1>2, <2>6 DEF AddTo
    <2> HIDE DEF c
    <2>8. QED
      BY <2>3, <2>4, <2>5, <2>6, <2>7, WithLedgerFacts DEF b
  <1>6. QED
    BY <1>3, <1>4, <1>5

\* A row whose token is there, and whose amount is held, can be undone.
LEMMA UndoAllowed ==
    ASSUME NEW w \in Tables, NEW r \in LogRows, Meant(r), Undoable(w.bal[r.tick], r),
           Nobody \in {r.from, r.to} => r.tick \in DOMAIN w.collect,
           r.from = Nobody => r.amt <= w.collect[r.tick]
    PROVE  UndoOk(w, r)
  BY DEF UndoOk, Undoable, CanBurnDrc20, CanBurn, CanMove, HasToken

\* tr goes through the balances of t that the rows of the journal lead through,
\* up to those of s.
TraceOf(tr, s, t) ==
    /\ tr \in [0..Len(s.log) -> Purses]
    /\ tr[Len(s.log)] = s.bal[t]
    /\ \A k \in 1..Len(s.log) :
          IF s.log[k].tick = t
          THEN Undoable(tr[k], s.log[k]) /\ tr[k - 1] = Back(tr[k], s.log[k])
          ELSE tr[k - 1] = tr[k]

\* Of s the rows after the i-th have been undone.
Going(w, s, lost, i) ==
    /\ w \in Tables /\ Others(w) = Others(s) /\ DOMAIN w.collect = DOMAIN s.collect
    /\ \A t \in Ticks \ lost :
          /\ \A tr : TraceOf(tr, s, t) => w.bal[t] = tr[i]
          /\ t \in DOMAIN w.collect => w.collect[t] = Supply(w.bal, t)

\* Undoing one row more goes on with the trace of every tick.
LEMMA GoingOn ==
    ASSUME NEW s \in Tables, NEW w, NEW lost, NEW i \in 1..Len(s.log), Going(w, s, lost, i),
           NEW r, r = s.log[i], Meant(r), UndoOk(w, r)
    PROVE  Going(Undo(w, r), s, lost, i - 1)
  <1> DEFINE z == Undo(w, r)
             t == r.tick
  <1>1. /\ w \in Tables /\ Others(w) = Others(s) /\ DOMAIN w.collect = DOMAIN s.collect
        /\ r \in LogRows /\ i \in Nat /\ Len(s.log) \in Nat
    BY TableFacts DEF Going
  <1>2. /\ z \in Tables
        /\ Undoable(w.bal[t], r)
        /\ z.bal = Put(w.bal, t, Back(w.bal[t], r))
        /\ DOMAIN z.collect = DOMAIN w.collect
        /\ \A x \in DOMAIN w.collect :
              z.collect[x] = IF x = t THEN w.collect[x] + Shift(r) ELSE w.collect[x]
        /\ Others(z) = Others(w)
    BY <1>1, UndoFacts
  <1> HIDE DEF z
  <1>3. /\ w.bal \in [Ticks -> [Accounts -> Nat]] /\ t \in Ticks /\ w.bal[t] \in Purses
    BY <1>1, TableFacts, RowTypes, BalancesAsPurses
  <1>4. /\ Back(w.bal[t], r) \in Purses
        /\ SumFunction(w.bal[t]) \in Nat
        /\ SumFunction(Back(w.bal[t], r)) = SumFunction(w.bal[t]) + Shift(r)
    BY <1>1, <1>2, <1>3, BackPurse
  <1>5. /\ z.bal[t] = Back(w.bal[t], r)
        /\ \A x \in Ticks \ {t} : z.bal[x] = w.bal[x]
    <2>1. \A f \in Purses : /\ Put(w.bal, t, f)[t] = f
                            /\ \A x \in Ticks \ {t} : Put(w.bal, t, f)[x] = w.bal[x]
      BY <1>3, PutFacts
    <2> HIDE DEF t
    <2>2. QED
      BY <1>2, <1>4, <2>1
  <1>6. ASSUME NEW x \in Ticks \ lost, NEW tr, TraceOf(tr, s, x)
        PROVE  z.bal[x] = tr[i - 1]
    <2>1. w.bal[x] = tr[i]
      BY <1>6 DEF Going
    <2>2. IF r.tick = x THEN tr[i - 1] = Back(tr[i], r) ELSE tr[i - 1] = tr[i]
      BY <1>6 DEF TraceOf
    <2>3. QED
      BY <1>5, <2>1, <2>2
  <1>7. ASSUME NEW x \in Ticks \ lost, x \in DOMAIN z.collect
        PROVE  z.collect[x] = Supply(z.bal, x)
    <2>1. w.collect[x] = SumFunction(w.bal[x])
      BY <1>2, <1>7 DEF Going, Supply
    <2>2. z.collect[x] = SumFunction(z.bal[x])
      BY <1>2, <1>4, <1>5, <1>7, <2>1
    <2>3. QED
      BY <2>2 DEF Supply
  <1>8. QED
    BY <1>1, <1>2, <1>6, <1>7 DEF Going, z

\* A row whose tick is not lost can be undone.
LEMMA GoesOn ==
    ASSUME NEW s \in Tables, NEW w, NEW lost, NEW i \in 1..Len(s.log), Going(w, s, lost, i),
           NEW r, r = s.log[i], Meant(r), r.tick \notin lost,
           NEW tr, TraceOf(tr, s, r.tick),
           Nobody \in {r.from, r.to} => r.tick \in DOMAIN s.collect
    PROVE  UndoOk(w, r)
  <1> DEFINE t == r.tick
  <1>1. /\ w \in Tables /\ DOMAIN w.collect = DOMAIN s.collect
        /\ r \in LogRows /\ t \in Ticks /\ r.amt \in Nat
    BY TableFacts, RowTypes DEF Going
  <1>2. w.bal[t] = tr[i] /\ (t \in DOMAIN w.collect => w.collect[t] = SumFunction(w.bal[t]))
    BY <1>1 DEF Going, Supply
  <1>3. Undoable(w.bal[t], r)
    BY <1>2 DEF TraceOf
  <1>4. w.bal[t] \in Purses
    BY <1>1, TableFacts, BalancesAsPurses
  <1>5. r.from = Nobody => r.amt <= SumFunction(w.bal[t])
    BY <1>1, <1>3, <1>4, BackPurse
  <1>6. QED
    BY <1>1, <1>2, <1>3, <1>5, UndoAllowed

\* What drc20Fork does with row k from the last one.
UndoneStep(w, r, h) ==
    IF r.at <= h THEN w
    ELSE IF w # Stuck /\ UndoOk(w, r) THEN Undo(w, r)
    ELSE Stuck

\* drc20Fork is a run through the journal, the last row first.
LEMMA UndoneSteps ==
    ASSUME NEW s \in Tables, NEW h \in Nat, \A k \in 1..Len(s.log) : Meant(s.log[k])
    PROVE  \E d : /\ drc20Fork(s, h) = d[Len(s.log)]
                  /\ d[0] = s
                  /\ \A k \in 1..Len(s.log) :
                        d[k] = UndoneStep(d[k - 1], s.log[Len(s.log) + 1 - k], h)
  <1> DEFINE n == Len(s.log)
             X == Tables \cup {Stuck}
             step == [p \in X \X (1..n) |-> UndoneStep(p[1], s.log[n + 1 - p[2]], h)]
             d == CHOOSE d : d = [k \in 0..n |-> IF k = 0 THEN s
                                   ELSE IF s.log[n + 1 - k].at <= h THEN d[k - 1]
                                   ELSE IF d[k - 1] # Stuck /\ UndoOk(d[k - 1], s.log[n + 1 - k])
                                        THEN Undo(d[k - 1], s.log[n + 1 - k])
                                   ELSE Stuck]
  <1>1. drc20Fork(s, h) = d[n]
    BY DEF drc20Fork, NewestFirst
  <1>2. n \in Nat /\ \A k \in 1..n : s.log[k] \in LogRows /\ Meant(s.log[k])
    BY TableFacts
  <1> HIDE DEF d, n
  <1>3. ASSUME NEW w \in X, NEW r \in LogRows, Meant(r) PROVE UndoneStep(w, r, h) \in X
    BY <1>3, UndoFacts DEF UndoneStep
  <1>4. \A k \in 1..n : n + 1 - k \in 1..n
    BY <1>2
  <1>5. StepsWithin(step, X, n)
    BY <1>2, <1>3, <1>4 DEF StepsWithin
  <1>6. PICK f : Recursive(f, X, s, step, n)
    BY <1>2, <1>5, RecursionTo
  <1>7. /\ f \in [0..n -> X] /\ f[0] = s
        /\ \A k \in 1..n : f[k - 1] \in X /\ f[k] = step[<<f[k - 1], k>>]
    BY <1>6 DEF Recursive
  <1>8. \A k \in 1..n : f[k] = UndoneStep(f[k - 1], s.log[n + 1 - k], h)
    BY <1>7
  <1> HIDE DEF X, step
  <1>9. f = [k \in 0..n |-> IF k = 0 THEN s
                            ELSE IF s.log[n + 1 - k].at <= h THEN f[k - 1]
                            ELSE IF f[k - 1] # Stuck /\ UndoOk(f[k - 1], s.log[n + 1 - k])
                                 THEN Undo(f[k - 1], s.log[n + 1 - k])
                            ELSE Stuck]
    <2>1. \A k \in 0..n : k = 0 \/ k \in 1..n
      BY <1>2
    <2>2. \A k \in 0..n : f[k] = IF k = 0 THEN s
                            ELSE IF s.log[n + 1 - k].at <= h THEN f[k - 1]
                            ELSE IF f[k - 1] # Stuck /\ UndoOk(f[k - 1], s.log[n + 1 - k])
                                 THEN Undo(f[k - 1], s.log[n + 1 - k])
                            ELSE Stuck
      BY <1>2, <1>7, <1>8, <2>1 DEF UndoneStep
    <2>3. QED
      BY <1>7, <2>2
  <1>10. d = [k \in 0..n |-> IF k = 0 THEN s
                             ELSE IF s.log[n + 1 - k].at <= h THEN d[k - 1]
                             ELSE IF d[k - 1] # Stuck /\ UndoOk(d[k - 1], s.log[n + 1 - k])
                                  THEN Undo(d[k - 1], s.log[n + 1 - k])
                             ELSE Stuck]
    BY <1>9 DEF d
  <1>11. d[0] = s
    BY <1>2, <1>10
  <1>12. \A k \in 1..n : d[k] = UndoneStep(d[k - 1], s.log[n + 1 - k], h)
    <2>1. \A k \in 1..n : k \in 0..n /\ k # 0
      BY <1>2
    <2>2. QED
      BY <1>10, <2>1 DEF UndoneStep
  <1>13. QED
    BY <1>1, <1>11, <1>12 DEF n

\* Every row of the journal can be undone in its turn.
AllThere(s, lost) ==
    \A k \in 1..Len(s.log) :
        /\ s.log[k].tick \notin lost
        /\ \E tr : TraceOf(tr, s, s.log[k].tick)
        /\ Nobody \in {s.log[k].from, s.log[k].to} => s.log[k].tick \in DOMAIN s.collect

\* If the rows above h are the last ones, drc20Fork leads to the balances that
\* the traces name there; and it goes through where every token is there.
LEMMA UndoneFacts ==
    ASSUME NEW s \in Tables, NEW lost, NEW h \in Nat, NEW cut \in 0..Len(s.log),
           \A k \in 1..Len(s.log) : Meant(s.log[k]),
           \A k \in 1..Len(s.log) : s.log[k].at <= h <=> k <= cut,
           Going(s, s, lost, Len(s.log))
    PROVE  /\ drc20Fork(s, h) # Stuck => Going(drc20Fork(s, h), s, lost, cut)
           /\ AllThere(s, lost) => drc20Fork(s, h) # Stuck
  <1> DEFINE n == Len(s.log)
             at(k) == IF n - k > cut THEN n - k ELSE cut
  <1>1. PICK d : /\ drc20Fork(s, h) = d[n]
                 /\ d[0] = s
                 /\ \A k \in 1..n : d[k] = UndoneStep(d[k - 1], s.log[n + 1 - k], h)
    BY UndoneSteps
  <1> DEFINE P == {k \in Nat : k <= n =>
                     /\ d[k] # Stuck => Going(d[k], s, lost, at(k))
                     /\ AllThere(s, lost) => d[k] # Stuck}
  <1>2. n \in Nat /\ cut \in Nat /\ cut <= n
    BY TableFacts
  <1>3. /\ Going(s, s, lost, n) /\ s # Stuck
        /\ \A k \in 1..n : Meant(s.log[k]) /\ (s.log[k].at <= h <=> k <= cut)
    BY DeployNames
  <1> HIDE DEF n
  <1>4. 0 \in P
    <2>1. at(0) = n
      BY <1>2
    <2> HIDE DEF at
    <2>2. QED
      BY <1>1, <1>3, <2>1
  <1>5. ASSUME NEW k \in P PROVE k + 1 \in P
    <2> DEFINE i == n - k
               r == s.log[i]
    <2>1. SUFFICES ASSUME k + 1 <= n
                   PROVE  /\ d[k + 1] # Stuck => Going(d[k + 1], s, lost, at(k + 1))
                          /\ AllThere(s, lost) => d[k + 1] # Stuck
      BY <1>5
    <2>2. /\ k \in Nat /\ k <= n /\ i \in 1..n /\ i - 1 = n - (k + 1) /\ i \in Nat
          /\ k + 1 \in 1..n /\ (k + 1) - 1 = k /\ n + 1 - (k + 1) = i
      BY <1>2, <1>5, <2>1
    <2>3. /\ d[k] # Stuck => Going(d[k], s, lost, at(k))
          /\ AllThere(s, lost) => d[k] # Stuck
      BY <1>5, <2>2
    <2>4. /\ at(k) = IF i > cut THEN i ELSE cut
          /\ at(k + 1) = IF i - 1 > cut THEN i - 1 ELSE cut
      BY <2>2
    <2>5. d[k + 1] = UndoneStep(d[k], r, h)
      BY <1>1, <2>2
    <2>6. Meant(r) /\ (r.at <= h <=> i <= cut)
      BY <1>3, <2>2
    <2> HIDE DEF at, i, P
    <2>7. CASE i <= cut
      <3>1. at(k) = cut /\ at(k + 1) = cut
        BY <1>2, <2>2, <2>4, <2>7
      <3>2. d[k + 1] = d[k]
        BY <2>5, <2>6, <2>7 DEF UndoneStep
      <3>3. QED
        BY <2>3, <3>1, <3>2
    <2>8. CASE ~(i <= cut)
      <3>1. at(k) = i /\ at(k + 1) = i - 1
        BY <1>2, <2>2, <2>4, <2>8
      <3>2. d[k + 1] = IF d[k] # Stuck /\ UndoOk(d[k], r) THEN Undo(d[k], r) ELSE Stuck
        BY <2>5, <2>6, <2>8 DEF UndoneStep
      <3>3. i \in 1..Len(s.log)
        BY <2>2 DEF n
      <3>4. ASSUME d[k + 1] # Stuck PROVE Going(d[k + 1], s, lost, i - 1)
        <4>1. d[k] # Stuck /\ UndoOk(d[k], r) /\ d[k + 1] = Undo(d[k], r)
          BY <3>2, <3>4
        <4>2. Going(d[k], s, lost, i)
          BY <2>3, <3>1, <4>1
        <4>3. QED
          BY <2>6, <3>3, <4>1, <4>2, GoingOn
      <3>5. ASSUME AllThere(s, lost) PROVE d[k + 1] # Stuck
        <4>1. d[k] # Stuck /\ Going(d[k], s, lost, i)
          BY <2>3, <3>1, <3>5
        <4>2. /\ r.tick \notin lost
              /\ Nobody \in {r.from, r.to} => r.tick \in DOMAIN s.collect
          BY <3>3, <3>5 DEF AllThere
        <4>3. PICK tr : TraceOf(tr, s, r.tick)
          BY <3>3, <3>5 DEF AllThere
        <4>4. UndoOk(d[k], r)
          BY <2>6, <3>3, <4>1, <4>2, <4>3, GoesOn
        <4>5. d[k + 1] = Undo(d[k], r) /\ Going(Undo(d[k], r), s, lost, i - 1)
          BY <2>6, <3>2, <3>3, <4>1, <4>4, GoingOn
        <4>6. QED
          BY <4>5, DeployNames DEF Going
      <3>6. QED
        BY <3>1, <3>4, <3>5
    <2>9. QED
      BY <2>7, <2>8
  <1>6. n \in P
    <2> HIDE DEF P
    <2>1. P = Nat
      <3>1. P \subseteq Nat
        BY DEF P
      <3>2. QED
        BY <1>4, <1>5, <3>1, NaturalInduction
    <2>2. QED
      BY <1>2, <2>1
  <1>7. at(n) = cut
    BY <1>2
  <1> HIDE DEF at
  <1>8. /\ d[n] # Stuck => Going(d[n], s, lost, cut)
        /\ AllThere(s, lost) => d[n] # Stuck
    BY <1>2, <1>6, <1>7
  <1>9. QED
    BY <1>1, <1>8

\* What the log of a block is of the log now.
LEMMA CutFacts ==
    ASSUME NEW R, NEW rows \in Seq(R), NEW was \in Seq(R), NEW h, RowsUpTo(rows, h) = was
    PROVE  /\ Len(was) \in 0..Len(rows) /\ Len(was) \in Nat /\ Len(rows) \in Nat
           /\ \A k \in 1..Len(rows) : k \notin RowsAbove(rows, h) <=> k <= Len(was)
           /\ \A k \in 1..Len(was) : k \in 1..Len(rows) /\ was[k] = rows[k]
  <1>1. /\ DOMAIN was = 1..Len(was) /\ Len(was) \in Nat
        /\ DOMAIN rows = 1..Len(rows) /\ Len(rows) \in Nat
    OBVIOUS
  <1>2. /\ DOMAIN was = DOMAIN rows \ RowsAbove(rows, h)
        /\ \A k \in DOMAIN was : was[k] = rows[k]
    BY DEF RowsUpTo
  <1>3. RowsAbove(rows, h) \subseteq DOMAIN rows
    BY DEF RowsAbove
  <1>4. \A k \in 1..Len(was) : k \in 1..Len(rows) /\ was[k] = rows[k]
    BY <1>1, <1>2
  <1>5. Len(was) <= Len(rows)
    <2>1. CASE Len(was) = 0
      BY <1>1, <2>1
    <2>2. CASE Len(was) # 0
      <3>1. Len(was) \in 1..Len(was)
        BY <1>1, <2>2
      <3>2. QED
        BY <1>1, <1>4, <3>1
    <2>3. QED
      BY <2>1, <2>2
  <1>6. \A k \in 1..Len(rows) : k \notin RowsAbove(rows, h) <=> k \in 1..Len(was)
    BY <1>1, <1>2, <1>3
  <1>7. QED
    BY <1>1, <1>4, <1>5, <1>6

-----------------------------------------------------------------------------
(* The inductive invariant of Deploys *)

\* Rows of the ledger's journal are of blocks up to n.
LogSound(s, n) == \A k \in DOMAIN s.log : s.log[k].at <= n /\ Meant(s.log[k])

\* But for lost ticks: who has a token can have it, amt_sum is the supply, and
\* what was minted or burned is there to be burned or minted again.
LedgerSound(s, lost) ==
    /\ \A t \in Ticks \ lost :
          IF t \in DOMAIN s.collect THEN s.collect[t] = Supply(s.bal, t)
          ELSE s.bal[t] = [a \in Accounts |-> 0]
    /\ \A k \in DOMAIN s.log : Nobody \in {s.log[k].from, s.log[k].to} =>
          s.log[k].tick \in DOMAIN s.collect \cup lost

\* The other rows.
RowsSound(s, n, lost) ==
    /\ \A k \in DOMAIN s.shares :
          /\ s.shares[k].at <= n /\ s.shares[k].amt >= 1
          /\ s.shares[k].tick \in DOMAIN s.boxes \cup lost
    /\ \A t \in DOMAIN s.boxes : s.boxes[t].tick1 # t
    /\ \A t \in DOMAIN s.pools : s.pools[t] <= n
    /\ \A t \in DOMAIN s.cross : s.cross[t].at <= n

\* The reserves of an unfinished box hold what was paid in: BoxesCovered of any
\* tables.
Covered(s, lost) ==
    \A t \in DOMAIN s.boxes \ DOMAIN s.pools :
        t \notin lost /\ s.boxes[t].tick1 \notin lost =>
            PaidIn(s, t) <= s.bal[s.boxes[t].tick1][BoxReserve[t]]

\* The rows of box_revert that tell of the chain as it is.
Real(s, op, t) ==
    {k \in DOMAIN s.boxlog \ left : s.boxlog[k].op = op /\ s.boxlog[k].tick = t}

\* How a box, its pool and its two tokens came to be, when own are the tokens of
\* drc-20 deploys.
BoxOrigin(s, t, own) ==
    /\ \A j, k \in Real(s, "deploy", t) : j = k
    /\ \A k \in Real(s, "finish", t) :
          /\ t \in DOMAIN s.pools /\ s.pools[t] = s.boxlog[k].at
          /\ \E j \in Real(s, "deploy", t) : s.boxlog[j].at <= s.boxlog[k].at
    /\ t \in DOMAIN s.boxes <=> Real(s, "deploy", t) # {}
    /\ t \in DOMAIN s.pools <=> Real(s, "finish", t) # {}
    /\ t \in DOMAIN s.boxes => t \in DOMAIN s.collect /\ t \notin own
    /\ t \in DOMAIN s.collect => t \in DOMAIN s.boxes \cup own
    /\ t \in DOMAIN s.pools <=> LP[t] \in DOMAIN s.collect

\* How every box and every wrapped token came to be.
Origins(s, own) ==
    /\ \A k \in DOMAIN s.boxlog \ left : s.boxlog[k].at <= current
    /\ own \subseteq DOMAIN s.collect
    /\ \A t \in BoxTicks \ spoilt : BoxOrigin(s, t, own)
    /\ \A t \in Wrapped : /\ t \in DOMAIN s.collect <=> t \in DOMAIN s.cross \cup own
                          /\ t \in DOMAIN s.cross => t \notin own

\* Ticks that are lost once the tables are forked back to h.
LostAt(h) == Lost(spoilt \cup Stale(h))

\* The tokens that a fork to h deletes.
Doomed(s, h) ==
    Reverted(s, "deploy", h)
    \cup {LP[t] : t \in {x \in DOMAIN s.pools : s.pools[x] > h}}
    \cup {t \in DOMAIN s.cross : s.cross[t].at > h}

\* What a fork to h leaves of the tables is what was there then.
LeadsTo(s, was, h, own, lost) ==
    /\ RowsUpTo(s.shares, h) = was.shares
    /\ [t \in {x \in DOMAIN s.cross : s.cross[x].at <= h} |-> s.cross[t]] = was.cross
    /\ \A t \in Ticks \ lost :
          /\ t \in DOMAIN s.collect \ Doomed(s, h) <=> t \in DOMAIN was.collect \cup own
          /\ t \in DOMAIN s.boxes \ Reverted(s, "deploy", h) <=> t \in DOMAIN was.boxes
          /\ t \in DOMAIN was.boxes => was.boxes[t].tick1 = s.boxes[t].tick1
          /\ t \in DOMAIN was.pools <=>
                /\ t \in DOMAIN s.pools \ Reverted(s, "finish", h)
                /\ s.pools[t] <= h

\* A tick that is not lost has had, at the end of each block where it was not
\* lost either, the balances that the journal leads back to.
Traced(s) ==
    \A t \in Ticks \ Lost(spoilt) :
        \E tr : /\ TraceOf(tr, s, t)
                /\ \A h \in DOMAIN dbAt : t \notin LostAt(h) =>
                      tr[Len(dbAt[h].log)] = dbAt[h].bal[t]

\* The tables s may be committed, as far as the ledger goes, ...
Ledgered(s) ==
    /\ s \in Tables
    /\ LogSound(s, current)
    /\ LedgerSound(s, Lost(spoilt))
    /\ \A h \in DOMAIN dbAt : RowsUpTo(s.log, h) = dbAt[h].log
    /\ Traced(s)

\* ... and as far as the rest goes.
Shaped(s, own) ==
    /\ RowsSound(s, current, Lost(spoilt))
    /\ Origins(s, own)
    /\ \A h \in DOMAIN dbAt : LeadsTo(s, dbAt[h], h, own, LostAt(h))

\* Heights, and what the ghosts are.
Clock ==
    /\ current \in Nat /\ dbAt \in [0..(current - 1) -> Tables]
    /\ left \subseteq DOMAIN db.boxlog /\ spoilt \subseteq BoxTicks

\* The tables at the end of each block were sound, but for the ticks that a fork
\* there loses.
PastSound ==
    \A h \in DOMAIN dbAt :
        /\ LogSound(dbAt[h], h)
        /\ LedgerSound(dbAt[h], LostAt(h))
        /\ RowsSound(dbAt[h], h, LostAt(h))
        /\ Covered(dbAt[h], LostAt(h))

\* The inductive invariant.
DeploysInv ==
    /\ Clock /\ PastSound
    /\ Ledgered(db) /\ Shaped(db, plain) /\ Covered(db, Lost(spoilt))

\* The blocks that are finished are those below the current one.
LEMMA ClockFacts ==
    ASSUME Clock
    PROVE  /\ DOMAIN dbAt = 0..(current - 1)
           /\ \A h \in DOMAIN dbAt : h \in Nat /\ h < current /\ dbAt[h] \in Tables
  BY DEF Clock

\* A row of the current block is above the blocks that are finished.
LEMMA AppendAbove ==
    ASSUME NEW R, NEW rows \in Seq(R), NEW r \in R, NEW h \in Nat, r.at > h
    PROVE  RowsUpTo(Append(rows, r), h) = RowsUpTo(rows, h)
  <1> DEFINE n == Len(rows)
             z == Append(rows, r)
  <1>1. /\ DOMAIN rows = 1..n /\ n \in Nat /\ DOMAIN z = 1..(n + 1)
        /\ z[n + 1] = r /\ \A k \in 1..n : z[k] = rows[k]
    OBVIOUS
  <1> HIDE DEF n, z
  <1>2. n + 1 \in RowsAbove(z, h)
    BY <1>1 DEF RowsAbove
  <1>3. \A k \in 1..n : k \in RowsAbove(z, h) <=> k \in RowsAbove(rows, h)
    BY <1>1 DEF RowsAbove
  <1>4. DOMAIN z \ RowsAbove(z, h) = DOMAIN rows \ RowsAbove(rows, h)
    <2>1. \A k : k \in 1..(n + 1) <=> k \in 1..n \/ k = n + 1
      BY <1>1
    <2>2. n + 1 \notin 1..n
      BY <1>1
    <2>3. QED
      BY <1>1, <1>2, <1>3, <2>1, <2>2
  <1>5. \A k \in DOMAIN rows \ RowsAbove(rows, h) : z[k] = rows[k]
    BY <1>1
  <1>6. RowsUpTo(z, h) = RowsUpTo(rows, h)
    BY <1>4, <1>5 DEF RowsUpTo
  <1>7. QED
    BY <1>6 DEF z

\* One more row of the ledger's journal.
LEMMA LogStep ==
    ASSUME Clock, NEW s, Ledgered(s), NEW z \in Tables, NEW r \in LogRows, Meant(r),
           r.at = current, z.log = Append(s.log, r),
           NEW f \in Purses, z.bal = Put(s.bal, r.tick, f),
           Undoable(f, r), Back(f, r) = s.bal[r.tick],
           LedgerSound(z, Lost(spoilt))
    PROVE  Ledgered(z)
  <1> DEFINE n == Len(s.log)
             t == r.tick
  <1>1. /\ s \in Tables /\ s.log \in Seq(LogRows) /\ s.bal \in [Ticks -> [Accounts -> Nat]]
        /\ n \in Nat /\ t \in Ticks /\ current \in Nat
    BY TableFacts, RowTypes DEF Ledgered, Clock
  <1>2. /\ Len(z.log) = n + 1 /\ z.log[n + 1] = r /\ \A k \in 1..n : z.log[k] = s.log[k]
        /\ DOMAIN z.log = 1..(n + 1) /\ DOMAIN s.log = 1..n
    BY <1>1
  <1>3. /\ z.bal[t] = f /\ \A x \in Ticks \ {t} : z.bal[x] = s.bal[x]
    <2>1. /\ Put(s.bal, t, f)[t] = f
          /\ \A x \in Ticks \ {t} : Put(s.bal, t, f)[x] = s.bal[x]
      BY <1>1, PutFacts
    <2>2. QED
      BY <2>1
  <1> HIDE DEF n, t
  <1>4. LogSound(z, current)
    <2>1. ASSUME NEW k \in 1..(n + 1) PROVE z.log[k].at <= current /\ Meant(z.log[k])
      <3>1. CASE k \in 1..n
        BY <1>2, <3>1 DEF Ledgered, LogSound
      <3>2. CASE k = n + 1
        BY <1>1, <1>2, <3>2
      <3>3. k \in 1..n \/ k = n + 1
        BY <1>1
      <3>4. QED
        BY <3>1, <3>2, <3>3
    <2>2. QED
      BY <1>2, <2>1 DEF LogSound
  <1>5. ASSUME NEW h \in DOMAIN dbAt PROVE RowsUpTo(z.log, h) = dbAt[h].log
    <2>1. h \in Nat /\ r.at > h
      BY <1>1, ClockFacts
    <2>2. RowsUpTo(Append(s.log, r), h) = RowsUpTo(s.log, h)
      BY <1>1, <2>1, AppendAbove
    <2>3. QED
      BY <2>2 DEF Ledgered
  <1>6. ASSUME NEW x \in Ticks \ Lost(spoilt)
        PROVE  \E tr : /\ TraceOf(tr, z, x)
                       /\ \A h \in DOMAIN dbAt : x \notin LostAt(h) =>
                             tr[Len(dbAt[h].log)] = dbAt[h].bal[x]
    <2>1. PICK tr : /\ TraceOf(tr, s, x)
                    /\ \A h \in DOMAIN dbAt : x \notin LostAt(h) =>
                             tr[Len(dbAt[h].log)] = dbAt[h].bal[x]
      BY <1>6 DEF Ledgered, Traced
    <2>2. /\ tr \in [0..n -> Purses] /\ tr[n] = s.bal[x]
          /\ \A k \in 1..n : IF s.log[k].tick = x
                             THEN Undoable(tr[k], s.log[k]) /\ tr[k - 1] = Back(tr[k], s.log[k])
                             ELSE tr[k - 1] = tr[k]
      BY <2>1 DEF TraceOf, n
    <2> DEFINE tr2 == [k \in 0..(n + 1) |-> IF k = n + 1 THEN z.bal[x] ELSE tr[k]]
    <2>3. z.bal[x] \in Purses
      BY TableFacts, BalancesAsPurses
    <2>4. /\ tr2 \in [0..(n + 1) -> Purses] /\ tr2[n + 1] = z.bal[x]
          /\ \A k \in 0..n : tr2[k] = tr[k]
      BY <1>1, <2>2, <2>3
    <2> HIDE DEF tr2
    <2>5. ASSUME NEW k \in 1..(n + 1)
          PROVE  IF z.log[k].tick = x
                 THEN Undoable(tr2[k], z.log[k]) /\ tr2[k - 1] = Back(tr2[k], z.log[k])
                 ELSE tr2[k - 1] = tr2[k]
      <3>1. CASE k \in 1..n
        <4>1. k \in 0..n /\ k - 1 \in 0..n
          BY <1>1, <3>1
        <4>2. tr2[k] = tr[k] /\ tr2[k - 1] = tr[k - 1] /\ z.log[k] = s.log[k]
          BY <1>2, <2>4, <3>1, <4>1
        <4>3. QED
          BY <2>2, <3>1, <4>2
      <3>2. CASE k = n + 1
        <4>1. k - 1 = n /\ n \in 0..n
          BY <1>1, <3>2
        <4>2. tr2[k - 1] = s.bal[x] /\ tr2[k] = z.bal[x] /\ z.log[k] = r
          BY <1>2, <2>2, <2>4, <3>2, <4>1
        <4>3. QED
          BY <1>3, <4>2 DEF t
      <3>3. k \in 1..n \/ k = n + 1
        BY <1>1
      <3>4. QED
        BY <3>1, <3>2, <3>3
    <2>6. ASSUME NEW h \in DOMAIN dbAt, x \notin LostAt(h)
          PROVE  tr2[Len(dbAt[h].log)] = dbAt[h].bal[x]
      <3>1. dbAt[h].log \in Seq(LogRows) /\ RowsUpTo(s.log, h) = dbAt[h].log
        BY ClockFacts, TableFacts DEF Ledgered
      <3>2. Len(dbAt[h].log) \in 0..n
        BY <1>1, <3>1, CutFacts DEF n
      <3>3. QED
        BY <2>1, <2>4, <2>6, <3>2
    <2>7. TraceOf(tr2, z, x)
      BY <1>2, <2>4, <2>5 DEF TraceOf
    <2>8. QED
      BY <2>6, <2>7
  <1>7. QED
    BY <1>4, <1>5, <1>6 DEF Ledgered, Traced

\* What is not the ledger's, and which tokens there are.
Shape(s) == <<DOMAIN s.collect, s.boxes, s.shares, s.boxlog, s.pools, s.cross>>

\* The fields of Shape, one by one.
LEMMA ShapeFacts ==
    ASSUME NEW s, NEW z, Shape(s) = Shape(z)
    PROVE  /\ DOMAIN s.collect = DOMAIN z.collect /\ s.boxes = z.boxes /\ s.shares = z.shares
           /\ s.boxlog = z.boxlog /\ s.pools = z.pools /\ s.cross = z.cross
  BY DEF Shape

\* The ledger of s with another purse and amt_sum of r's tick, and the row r.
Entered(s, f, c, r) ==
    [s EXCEPT !.bal = Put(s.bal, r.tick, f), !.collect = c, !.log = Append(s.log, r)]

\* A row more of the journal, and the balances and the amt_sum it tells of.
LEMMA LedgerStep ==
    ASSUME Clock, NEW s, Ledgered(s), NEW r \in LogRows, Meant(r), r.at = current,
           NEW f \in Purses, Undoable(f, r), Back(f, r) = s.bal[r.tick],
           NEW c \in [DOMAIN s.collect -> Nat],
           \A x \in DOMAIN s.collect \ {r.tick} : c[x] = s.collect[x],
           r.tick \notin Lost(spoilt) => r.tick \in DOMAIN s.collect /\ c[r.tick] = SumFunction(f)
    PROVE  /\ Ledgered(Entered(s, f, c, r))
           /\ Entered(s, f, c, r) \in Tables /\ Entered(s, f, c, r) # Stuck
           /\ Shape(Entered(s, f, c, r)) = Shape(s)
           /\ Entered(s, f, c, r).bal[r.tick] = f
           /\ \A x \in Ticks \ {r.tick} : Entered(s, f, c, r).bal[x] = s.bal[x]
  <1> DEFINE z == Entered(s, f, c, r)
             t == r.tick
             lost == Lost(spoilt)
  <1>1. /\ s \in Tables /\ s.log \in Seq(LogRows) /\ s.bal \in [Ticks -> [Accounts -> Nat]]
        /\ t \in Ticks /\ DOMAIN s.collect \subseteq Ticks
    BY TableFacts, RowTypes DEF Ledgered
  <1>2. /\ Put(s.bal, t, f) \in [Ticks -> [Accounts -> Nat]]
        /\ Put(s.bal, t, f)[t] = f
        /\ \A x \in Ticks \ {t} : Put(s.bal, t, f)[x] = s.bal[x]
    BY <1>1, PutFacts
  <1>3. c \in PartlyOn(Ticks, Nat)
    BY <1>1 DEF PartlyOn
  <1>4. Append(s.log, r) \in Seq(LogRows)
    BY <1>1
  <1>5. z \in Tables
    BY <1>1, <1>2, <1>3, <1>4 DEF Tables, Entered
  <1>6. /\ z.bal = Put(s.bal, t, f) /\ z.collect = c /\ z.log = Append(s.log, r)
        /\ Shape(z) = Shape(s)
    BY <1>1 DEF Tables, Entered, Shape
  <1> HIDE DEF z, t, lost
  <1>7. z.bal[t] = f /\ \A x \in Ticks \ {t} : z.bal[x] = s.bal[x]
    BY <1>2, <1>6
  <1>8. LedgerSound(z, lost)
    <2>1. /\ DOMAIN z.collect = DOMAIN s.collect
          /\ \A x \in DOMAIN s.collect \ {t} : z.collect[x] = s.collect[x]
          /\ t \notin lost => t \in DOMAIN s.collect /\ z.collect[t] = SumFunction(f)
      BY <1>6 DEF t, lost
    <2>2. LedgerSound(s, lost)
      BY DEF Ledgered, lost
    <2>3. ASSUME NEW x \in Ticks \ lost
          PROVE  IF x \in DOMAIN z.collect THEN z.collect[x] = Supply(z.bal, x)
                 ELSE z.bal[x] = [a \in Accounts |-> 0]
      <3>1. CASE x = t
        BY <1>7, <2>1, <2>3, <3>1 DEF Supply
      <3>2. CASE x # t
        BY <1>7, <2>1, <2>2, <2>3, <3>2 DEF Supply, LedgerSound
      <3>3. QED
        BY <3>1, <3>2
    <2>4. ASSUME NEW k \in DOMAIN z.log, Nobody \in {z.log[k].from, z.log[k].to}
          PROVE  z.log[k].tick \in DOMAIN z.collect \cup lost
      <3>1. /\ DOMAIN z.log = 1..(Len(s.log) + 1) /\ DOMAIN s.log = 1..Len(s.log)
            /\ Len(s.log) \in Nat
            /\ z.log[Len(s.log) + 1] = r /\ \A i \in 1..Len(s.log) : z.log[i] = s.log[i]
        BY <1>1, <1>6
      <3>2. k \in 1..Len(s.log) \/ k = Len(s.log) + 1
        BY <3>1
      <3>3. CASE k \in 1..Len(s.log)
        BY <2>1, <2>2, <2>4, <3>1, <3>3 DEF LedgerSound
      <3>4. CASE k = Len(s.log) + 1
        BY <2>1, <3>1, <3>4 DEF t
      <3>5. QED
        BY <3>2, <3>3, <3>4
    <2>5. QED
      BY <2>3, <2>4 DEF LedgerSound
  <1>9. Ledgered(z)
    BY <1>5, <1>6, <1>8, LogStep DEF t, lost
  <1>10. z # Stuck
    BY <1>5, DeployNames
  <1>11. QED
    BY <1>5, <1>6, <1>7, <1>9, <1>10 DEF z, t

\* TransferDrc20 keeps the ledger.
LEMMA TransferLedger ==
    ASSUME Clock, NEW s, Ledgered(s), NEW t \in Ticks, NEW payer \in Accounts,
           NEW to \in Accounts, NEW amt \in Nat, CanMove(s.bal, t, payer, to, amt),
           NEW z, z = TransferDrc20(s, t, payer, to, amt, current)
    PROVE  /\ Ledgered(z) /\ z \in Tables /\ z # Stuck /\ Shape(z) = Shape(s)
           /\ \A x \in Ticks, a \in Accounts \ {payer} : s.bal[x][a] <= z.bal[x][a]
           /\ \A x \in Ticks \ {t} : z.bal[x] = s.bal[x]
           /\ z.bal[t][to] = s.bal[t][to] + amt
           /\ z.bal[t][payer] = s.bal[t][payer] - amt
           /\ t \in DOMAIN s.collect \cup Lost(spoilt)
  <1> DEFINE f == Passed(s.bal[t], payer, to, amt)
             r == [tick |-> t, from |-> payer, to |-> to, amt |-> amt, at |-> current]
             c == s.collect
  <1>1. /\ s \in Tables /\ s.bal \in [Ticks -> [Accounts -> Nat]] /\ s.bal[t] \in Purses
        /\ c \in [DOMAIN s.collect -> Nat] /\ current \in Nat
        /\ LedgerSound(s, Lost(spoilt))
    BY TableFacts, BalancesAsPurses DEF Ledgered, Clock
  <1>2. amt >= 1 /\ payer # to /\ amt <= s.bal[t][payer]
    BY DEF CanMove
  <1>3. /\ f \in Purses /\ SumFunction(f) = SumFunction(s.bal[t]) /\ amt <= f[to]
        /\ Passed(f, to, payer, amt) = s.bal[t]
    BY <1>1, <1>2, PassedFacts
  <1>4. /\ r \in LogRows /\ r.from # Nobody /\ r.to # Nobody /\ Meant(r)
        /\ r.tick = t /\ r.at = current /\ r.from = payer /\ r.to = to /\ r.amt = amt
    BY <1>1, DeployNames DEF LogRows, Meant
  <1>5. f[to] = s.bal[t][to] + amt /\ f[payer] = s.bal[t][payer] - amt
        /\ \A a \in Accounts \ {payer} : s.bal[t][a] <= f[a]
    BY <1>1, <1>2 DEF Passed, More, Less, Purses
  <1>6. z = Entered(s, f, c, r)
    <2>1. Move(s.bal, t, payer, to, amt) = Put(s.bal, t, f)
      <3>1. \A a, x \in Accounts, n \in Nat : a # x =>
               Move(s.bal, t, a, x, n) = Put(s.bal, t, Passed(s.bal[t], a, x, n))
        BY <1>1, BalancesAsPurses
      <3>2. QED
        BY <1>2, <3>1
    <2> HIDE DEF f
    <2>2. z = [[s EXCEPT !.bal = Put(s.bal, t, f)] EXCEPT !.log = Append(s.log, r)]
      BY <1>1, <2>1 DEF TransferDrc20, Logged, Tables
    <2>3. QED
      BY <1>1, <2>2 DEF Entered, Tables
  <1> HIDE DEF f, r, c
  <1>7. Undoable(f, r) /\ Back(f, r) = s.bal[t]
    BY <1>2, <1>3, <1>4 DEF Undoable, Back
  <1>8. t \notin Lost(spoilt) => t \in DOMAIN s.collect /\ c[t] = SumFunction(f)
    <2>1. ASSUME t \notin Lost(spoilt), t \notin DOMAIN s.collect PROVE FALSE
      <3>1. s.bal[t][payer] = 0
        BY <1>1, <2>1 DEF LedgerSound
      <3>2. QED
        BY <1>2, <3>1
    <2>2. QED
      BY <1>1, <1>3, <2>1 DEF LedgerSound, Supply, c
  <1>9. /\ Ledgered(z) /\ z \in Tables /\ z # Stuck /\ Shape(z) = Shape(s)
        /\ z.bal[t] = f /\ \A x \in Ticks \ {t} : z.bal[x] = s.bal[x]
    <2>1. \A x \in DOMAIN s.collect \ {r.tick} : c[x] = s.collect[x]
      BY DEF c
    <2>2. QED
      BY <1>1, <1>3, <1>4, <1>6, <1>7, <1>8, <2>1, LedgerStep
  <1>10. ASSUME NEW x \in Ticks, NEW a \in Accounts \ {payer} PROVE s.bal[x][a] <= z.bal[x][a]
    <2>1. s.bal[x][a] \in Nat
      BY <1>1
    <2>2. CASE x = t
      BY <1>5, <1>9, <2>2
    <2>3. CASE x # t
      BY <1>9, <2>1, <2>3
    <2>4. QED
      BY <2>2, <2>3
  <1>11. QED
    BY <1>5, <1>8, <1>9, <1>10

\* MintDrc20 keeps the ledger.
LEMMA MintLedger ==
    ASSUME Clock, NEW s, Ledgered(s), NEW t \in DOMAIN s.collect, NEW to \in Accounts,
           NEW amt \in Nat, NEW z, z = MintDrc20(s, t, to, amt, current)
    PROVE  /\ Ledgered(z) /\ z \in Tables /\ z # Stuck /\ Shape(z) = Shape(s)
           /\ \A x \in Ticks, a \in Accounts : s.bal[x][a] <= z.bal[x][a]
           /\ \A x \in Ticks \ {t} : z.bal[x] = s.bal[x]
  <1> DEFINE f == More(s.bal[t], to, amt)
             r == [tick |-> t, from |-> Nobody, to |-> to, amt |-> amt, at |-> current]
             c == AddTo(s.collect, t, amt)
  <1>1. /\ s \in Tables /\ s.bal \in [Ticks -> [Accounts -> Nat]]
        /\ s.collect \in [DOMAIN s.collect -> Nat] /\ current \in Nat
        /\ LedgerSound(s, Lost(spoilt)) /\ t \in Ticks
    BY TableFacts DEF Ledgered, Clock
  <1>2. s.bal[t] \in Purses
    BY <1>1, BalancesAsPurses
  <1>3. /\ f \in Purses /\ SumFunction(f) = SumFunction(s.bal[t]) + amt /\ amt <= f[to]
        /\ Less(f, to, amt) = s.bal[t]
    BY <1>2, MoreFacts
  <1>4. /\ r \in LogRows /\ r.from = Nobody /\ r.to # Nobody /\ Meant(r)
        /\ r.tick = t /\ r.at = current /\ r.to = to /\ r.amt = amt
    BY <1>1, DeployNames DEF LogRows, Meant
  <1>5. \A a \in Accounts : s.bal[t][a] <= f[a]
    BY <1>1, <1>2 DEF More, Purses
  <1>6. /\ c \in [DOMAIN s.collect -> Nat] /\ c[t] = s.collect[t] + amt
        /\ \A x \in DOMAIN s.collect \ {t} : c[x] = s.collect[x]
    BY <1>1 DEF AddTo
  <1>7. z = Entered(s, f, c, r)
    <2>1. Mint(s.bal, t, to, amt) = Put(s.bal, t, f)
      BY <1>1, BalancesAsPurses
    <2> HIDE DEF f, c
    <2>2. z = [[s EXCEPT !.bal = Put(s.bal, t, f), !.collect = c] EXCEPT !.log = Append(s.log, r)]
      BY <1>1, <2>1 DEF MintDrc20, Logged, Tables, c
    <2>3. QED
      BY <1>1, <2>2 DEF Entered, Tables
  <1> HIDE DEF f, r, c
  <1>8. Undoable(f, r) /\ Back(f, r) = s.bal[t]
    BY <1>3, <1>4 DEF Undoable, Back
  <1>9. t \notin Lost(spoilt) => c[t] = SumFunction(f)
    BY <1>1, <1>3, <1>6 DEF LedgerSound, Supply
  <1>10. /\ Ledgered(z) /\ z \in Tables /\ z # Stuck /\ Shape(z) = Shape(s)
         /\ z.bal[t] = f /\ \A x \in Ticks \ {t} : z.bal[x] = s.bal[x]
    BY <1>1, <1>3, <1>4, <1>6, <1>7, <1>8, <1>9, LedgerStep
  <1>11. ASSUME NEW x \in Ticks, NEW a \in Accounts PROVE s.bal[x][a] <= z.bal[x][a]
    <2>1. s.bal[x][a] \in Nat
      BY <1>1
    <2>2. CASE x = t
      BY <1>5, <1>10, <2>2
    <2>3. CASE x # t
      BY <1>10, <2>1, <2>3
    <2>4. QED
      BY <2>2, <2>3
  <1>12. QED
    BY <1>10, <1>11

\* BurnDrc20 keeps the ledger.
LEMMA BurnLedger ==
    ASSUME Clock, NEW s, Ledgered(s), NEW t \in Ticks, NEW payer \in Accounts,
           NEW amt \in Nat, CanBurnDrc20(s, t, payer, amt),
           NEW z, z = BurnDrc20(s, t, payer, amt, current)
    PROVE  /\ Ledgered(z) /\ z \in Tables /\ z # Stuck /\ Shape(z) = Shape(s)
           /\ \A x \in Ticks, a \in Accounts \ {payer} : s.bal[x][a] <= z.bal[x][a]
  <1> DEFINE f == Less(s.bal[t], payer, amt)
             r == [tick |-> t, from |-> payer, to |-> Nobody, amt |-> amt, at |-> current]
             c == AddTo(s.collect, t, -amt)
  <1>1. /\ s \in Tables /\ s.bal \in [Ticks -> [Accounts -> Nat]]
        /\ s.collect \in [DOMAIN s.collect -> Nat] /\ current \in Nat
        /\ LedgerSound(s, Lost(spoilt))
    BY TableFacts DEF Ledgered, Clock
  <1>2. s.bal[t] \in Purses /\ s.bal[t] \in [Accounts -> Nat]
    BY <1>1, BalancesAsPurses
  <1>3. t \in DOMAIN s.collect /\ amt <= s.collect[t] /\ amt <= s.bal[t][payer]
    BY DEF CanBurnDrc20, CanBurn, HasToken
  <1>4. /\ f \in Purses /\ SumFunction(f) = SumFunction(s.bal[t]) - amt
        /\ More(f, payer, amt) = s.bal[t]
    BY <1>2, <1>3, LessFacts
  <1>5. /\ r \in LogRows /\ r.from # Nobody /\ r.to = Nobody /\ Meant(r)
        /\ r.tick = t /\ r.at = current /\ r.from = payer /\ r.amt = amt
    BY <1>1, DeployNames DEF LogRows, Meant
  <1>6. \A a \in Accounts \ {payer} : s.bal[t][a] <= f[a]
    BY <1>1, <1>2 DEF Less, Purses
  <1>7. /\ c \in [DOMAIN s.collect -> Nat] /\ c[t] = s.collect[t] - amt
        /\ \A x \in DOMAIN s.collect \ {t} : c[x] = s.collect[x]
    BY <1>1, <1>3 DEF AddTo
  <1>8. z = Entered(s, f, c, r)
    <2>1. Burn(s.bal, t, payer, amt) = Put(s.bal, t, f)
      BY <1>1, BalancesAsPurses
    <2> HIDE DEF f, c
    <2>2. z = [[s EXCEPT !.bal = Put(s.bal, t, f), !.collect = c] EXCEPT !.log = Append(s.log, r)]
      BY <1>1, <2>1 DEF BurnDrc20, Logged, Tables, c
    <2>3. QED
      BY <1>1, <2>2 DEF Entered, Tables
  <1> HIDE DEF f, r, c
  <1>9. Undoable(f, r) /\ Back(f, r) = s.bal[t]
    BY <1>4, <1>5 DEF Undoable, Back
  <1>10. t \notin Lost(spoilt) => c[t] = SumFunction(f)
    BY <1>1, <1>3, <1>4, <1>7 DEF LedgerSound, Supply
  <1>11. /\ Ledgered(z) /\ z \in Tables /\ z # Stuck /\ Shape(z) = Shape(s)
         /\ z.bal[t] = f /\ \A x \in Ticks \ {t} : z.bal[x] = s.bal[x]
    <2>1. /\ Undoable(f, r) /\ Back(f, r) = s.bal[r.tick]
          /\ \A x \in DOMAIN s.collect \ {r.tick} : c[x] = s.collect[x]
          /\ r.tick \notin Lost(spoilt) => r.tick \in DOMAIN s.collect /\ c[r.tick] = SumFunction(f)
      BY <1>3, <1>5, <1>7, <1>9, <1>10
    <2>2. f \in Purses /\ c \in [DOMAIN s.collect -> Nat] /\ r \in LogRows /\ Meant(r)
          /\ r.at = current /\ r.tick = t
      BY <1>4, <1>5, <1>7
    <2>3. QED
      BY <1>8, <2>1, <2>2, LedgerStep
  <1>12. ASSUME NEW x \in Ticks, NEW a \in Accounts \ {payer} PROVE s.bal[x][a] <= z.bal[x][a]
    <2>1. s.bal[x][a] \in Nat
      BY <1>1
    <2>2. CASE x = t
      BY <1>6, <1>11, <2>2
    <2>3. CASE x # t
      BY <1>11, <2>1, <2>3
    <2>4. QED
      BY <2>2, <2>3
  <1>13. QED
    BY <1>11, <1>12

\* The journal and the balances alone matter to a trace.
LEMMA TracedAlike ==
    ASSUME NEW s, NEW z, Traced(s), z.log = s.log, z.bal = s.bal
    PROVE  Traced(z)
  BY DEF Traced, TraceOf

\* A new row of drc20_collect keeps the ledger: nobody held the token.
LEMMA NewTokenLedger ==
    ASSUME NEW s, Ledgered(s), NEW t \in Ticks, t \notin DOMAIN s.collect
    PROVE  /\ Ledgered(NewToken(s, t)) /\ NewToken(s, t) \in Tables /\ NewToken(s, t) # Stuck
           /\ DOMAIN NewToken(s, t).collect = DOMAIN s.collect \cup {t}
           /\ NewToken(s, t).bal = s.bal /\ NewToken(s, t).log = s.log
           /\ NewToken(s, t).boxes = s.boxes /\ NewToken(s, t).shares = s.shares
           /\ NewToken(s, t).boxlog = s.boxlog /\ NewToken(s, t).pools = s.pools
           /\ NewToken(s, t).cross = s.cross
  <1> DEFINE z == NewToken(s, t)
             c == [x \in DOMAIN s.collect \cup {t} |-> IF x = t THEN 0 ELSE s.collect[x]]
  <1>1. /\ s \in Tables /\ DOMAIN s.collect \subseteq Ticks
        /\ s.collect \in [DOMAIN s.collect -> Nat]
    BY TableFacts DEF Ledgered
  <1>2. c \in [DOMAIN s.collect \cup {t} -> Nat] /\ DOMAIN s.collect \cup {t} \in SUBSET Ticks
    BY <1>1
  <1>3. c \in PartlyOn(Ticks, Nat)
    BY <1>2 DEF PartlyOn
  <1>4. /\ c[t] = 0 /\ DOMAIN c = DOMAIN s.collect \cup {t}
        /\ \A x \in DOMAIN s.collect : c[x] = s.collect[x]
    OBVIOUS
  <1> HIDE DEF c
  <1>5. z = [s EXCEPT !.collect = c]
    BY DEF NewToken, c
  <1> HIDE DEF z
  <1>6. z \in Tables
    BY <1>1, <1>3, <1>5 DEF Tables
  <1>7. /\ z.collect = c /\ z.bal = s.bal /\ z.log = s.log
        /\ z.boxes = s.boxes /\ z.shares = s.shares
        /\ z.boxlog = s.boxlog /\ z.pools = s.pools /\ z.cross = s.cross
    BY <1>1, <1>5 DEF Tables
  <1>8. LedgerSound(z, Lost(spoilt))
    <2>1. LedgerSound(s, Lost(spoilt))
      BY DEF Ledgered
    <2>2. t \notin Lost(spoilt) => Supply(z.bal, t) = 0
      <3>1. SumFunction([a \in Accounts |-> 0]) = 0
        BY DeployNames, SumZero
      <3>2. t \notin Lost(spoilt) => s.bal[t] = [a \in Accounts |-> 0]
        BY <2>1 DEF LedgerSound
      <3>3. QED
        BY <1>7, <3>1, <3>2 DEF Supply
    <2>3. QED
      BY <1>4, <1>7, <2>1, <2>2 DEF LedgerSound, Supply
  <1>9. Ledgered(z)
    BY <1>6, <1>7, <1>8, TracedAlike DEF Ledgered, LogSound
  <1>10. z # Stuck
    BY <1>6, DeployNames
  <1>11. QED
    BY <1>4, <1>6, <1>7, <1>9, <1>10 DEF z

\* Tables that differ elsewhere.
LEMMA SameLedger ==
    ASSUME NEW s, Ledgered(s), NEW z \in Tables,
           z.collect = s.collect, z.bal = s.bal, z.log = s.log
    PROVE  Ledgered(z)
  <1>1. LogSound(z, current) /\ LedgerSound(z, Lost(spoilt))
    BY DEF Ledgered, LogSound, LedgerSound
  <1>2. QED
    BY <1>1, TracedAlike DEF Ledgered

\* Steps that change the ledger only keep the rest (three lemmas).
LEMMA OriginsAlike ==
    ASSUME NEW s, NEW z, NEW own, DOMAIN s.collect = DOMAIN z.collect,
           DOMAIN s.boxes = DOMAIN z.boxes, s.boxlog = z.boxlog, s.pools = z.pools, s.cross = z.cross
    PROVE  Origins(s, own) => Origins(z, own)
  <1>1. \A op, t : Real(s, op, t) = Real(z, op, t)
    BY DEF Real
  <1>2. \A t : BoxOrigin(s, t, own) => BoxOrigin(z, t, own)
    BY <1>1 DEF BoxOrigin
  <1>3. QED
    BY <1>2 DEF Origins

LEMMA LeadsToAlike ==
    ASSUME NEW s, NEW z, NEW was, NEW h, NEW own, NEW lost, Shape(s) = Shape(z)
    PROVE  LeadsTo(s, was, h, own, lost) => LeadsTo(z, was, h, own, lost)
  <1>1. /\ DOMAIN s.collect = DOMAIN z.collect /\ s.boxes = z.boxes /\ s.shares = z.shares
        /\ s.boxlog = z.boxlog /\ s.pools = z.pools /\ s.cross = z.cross
    BY ShapeFacts
  <1>2. \A op : Reverted(s, op, h) = Reverted(z, op, h)
    BY <1>1 DEF Reverted
  <1>3. Doomed(s, h) = Doomed(z, h)
    BY <1>1, <1>2 DEF Doomed
  <1>4. QED
    BY <1>1, <1>2, <1>3 DEF LeadsTo

LEMMA ShapedAlike ==
    ASSUME NEW s, NEW z, NEW own, Shape(s) = Shape(z), Shaped(s, own)
    PROVE  Shaped(z, own)
  <1>1. /\ DOMAIN s.collect = DOMAIN z.collect /\ s.boxes = z.boxes /\ s.shares = z.shares
        /\ s.boxlog = z.boxlog /\ s.pools = z.pools /\ s.cross = z.cross
    BY ShapeFacts
  <1>2. RowsSound(z, current, Lost(spoilt))
    BY <1>1 DEF Shaped, RowsSound
  <1>3. Origins(z, own)
    BY <1>1, OriginsAlike DEF Shaped
  <1>4. QED
    BY <1>2, <1>3, LeadsToAlike DEF Shaped

\* Rows of box_collect_address are finitely many.
LEMMA SharesFinite ==
    ASSUME NEW s \in Tables
    PROVE  /\ IsFiniteSet(DOMAIN s.shares)
           /\ \A k \in DOMAIN s.shares : s.shares[k] \in ShareRows
  <1>1. s.shares \in Seq(ShareRows)
    BY TableFacts
  <1>2. DOMAIN s.shares = 1..Len(s.shares)
    BY <1>1
  <1>3. 1 \in Int /\ Len(s.shares) \in Int
    BY <1>1
  <1>4. IsFiniteSet(1..Len(s.shares))
    BY <1>3, FS_Interval
  <1>5. QED
    BY <1>1, <1>2, <1>4

\* The shares of box t, one by one, and the sum of them.
Shares(rows, t) == [k \in DOMAIN rows |-> IF rows[k].tick = t THEN rows[k].amt ELSE 0]

\* What was paid into a box is the sum of its rows of box_collect_address.
LEMMA PaidInFacts ==
    ASSUME NEW s \in Tables, NEW t
    PROVE  /\ PaidIn(s, t) = SumFunction(Shares(s.shares, t))
           /\ PaidIn(s, t) \in Nat
           /\ \A k \in DOMAIN s.shares : s.shares[k].tick = t => s.shares[k].amt <= PaidIn(s, t)
  <1>1. PaidIn(s, t) = SumFunction(Shares(s.shares, t))
    BY DEF PaidIn, Shares
  <1>2. \A k \in DOMAIN s.shares : s.shares[k] \in ShareRows
    BY SharesFinite
  <1>3. IsFiniteSet(DOMAIN s.shares)
    BY SharesFinite
  <1>4. Shares(s.shares, t) \in [DOMAIN s.shares -> Nat]
    BY <1>2 DEF Shares, ShareRows
  <1>5. /\ SumFunction(Shares(s.shares, t)) \in Nat
        /\ \A k \in DOMAIN s.shares : Shares(s.shares, t)[k] <= SumFunction(Shares(s.shares, t))
    BY <1>3, <1>4, SumNat
  <1>6. QED
    BY <1>1, <1>5 DEF Shares

\* Box reserves get no poorer.
NotPoorer(s, z) ==
    \A x \in Ticks, b \in BoxTicks : s.bal[x][BoxReserve[b]] <= z.bal[x][BoxReserve[b]]

\* Boxes stay covered where no reserve gets poorer.
LEMMA CoveredAlike ==
    ASSUME NEW s \in Tables, NEW z \in Tables, NEW lost, Shape(s) = Shape(z),
           NotPoorer(s, z), Covered(s, lost)
    PROVE  Covered(z, lost)
  <1>1. s.boxes = z.boxes /\ s.shares = z.shares /\ s.pools = z.pools
    BY ShapeFacts
  <1>2. ASSUME NEW t \in DOMAIN z.boxes \ DOMAIN z.pools,
               t \notin lost, z.boxes[t].tick1 \notin lost
        PROVE  PaidIn(z, t) <= z.bal[z.boxes[t].tick1][BoxReserve[t]]
    <2> DEFINE x == z.boxes[t].tick1
    <2>1. PaidIn(z, t) = PaidIn(s, t) /\ PaidIn(s, t) \in Nat
      BY <1>1, PaidInFacts DEF PaidIn
    <2>2. t \in BoxTicks /\ x \in Ticks /\ BoxReserve[t] \in Accounts
      BY TableFacts, DeployNames DEF BoxRows
    <2>3. s.bal[x][BoxReserve[t]] \in Nat /\ z.bal[x][BoxReserve[t]] \in Nat
      BY <2>2, TableFacts
    <2>4. PaidIn(s, t) <= s.bal[x][BoxReserve[t]]
      BY <1>1, <1>2 DEF Covered
    <2>5. s.bal[x][BoxReserve[t]] <= z.bal[x][BoxReserve[t]]
      BY <2>2 DEF NotPoorer
    <2>6. QED
      BY <2>1, <2>3, <2>4, <2>5
  <1>3. QED
    BY <1>2 DEF Covered

\* An inscription's transaction: the tables become z, the context stays.
LEMMA CarryKeeps ==
    ASSUME DeploysInv, NEW z, Ledgered(z), NEW own, Shaped(z, own), Covered(z, Lost(spoilt)),
           \A k \in DOMAIN db.boxlog : k \in DOMAIN z.boxlog /\ z.boxlog[k] = db.boxlog[k],
           db' = z, plain' = own, UNCHANGED <<current, dbAt, left, spoilt>>
    PROVE  DeploysInv'
  <1>1. left \subseteq DOMAIN db.boxlog
    BY DEF DeploysInv, Clock
  <1>2. \A h : Stale(h)' = Stale(h)
    <2>1. \A h : RowsAbove(z.boxlog, h) \cap left = RowsAbove(db.boxlog, h) \cap left
      BY <1>1 DEF RowsAbove
    <2>2. \A h : Stale(h)' = {z.boxlog[k].tick : k \in RowsAbove(z.boxlog, h) \cap left}
      BY DEF Stale
    <2>3. QED
      BY <1>1, <2>1, <2>2 DEF Stale
  <1>3. \A h : LostAt(h)' = LostAt(h)
    BY <1>2 DEF LostAt
  <1>4. Clock'
    BY <1>1 DEF DeploysInv, Clock
  <1>5. PastSound'
    BY <1>3 DEF DeploysInv, PastSound
  <1>6. Traced(db)'
    BY <1>3 DEF Ledgered, Traced
  <1>7. Ledgered(db)'
    BY <1>6 DEF Ledgered
  <1>8. Shaped(db, plain)'
    <2>1. \A op, t : Real(db, op, t)' = Real(z, op, t)
      BY DEF Real
    <2>2. \A t : BoxOrigin(db, t, plain)' <=> BoxOrigin(z, t, own)
      BY <2>1 DEF BoxOrigin
    <2>3. Origins(db, plain)'
      BY <2>2 DEF Shaped, Origins
    <2>4. QED
      BY <1>3, <2>3 DEF Shaped
  <1>9. Covered(db, Lost(spoilt))'
    OBVIOUS
  <1>10. QED
    BY <1>4, <1>5, <1>7, <1>8, <1>9 DEF DeploysInv

\* What the invariant says, unfolded as far as the steps need it.
LEMMA InvFacts ==
    ASSUME DeploysInv
    PROVE  /\ Clock /\ Ledgered(db) /\ Shaped(db, plain) /\ Covered(db, Lost(spoilt))
           /\ RowsSound(db, current, Lost(spoilt)) /\ Origins(db, plain)
           /\ \A h \in DOMAIN dbAt : /\ LeadsTo(db, dbAt[h], h, plain, LostAt(h))
                                     /\ h \in Nat /\ h < current /\ dbAt[h] \in Tables
           /\ db \in Tables /\ current \in Nat
           /\ left \subseteq DOMAIN db.boxlog /\ spoilt \subseteq BoxTicks
           /\ DOMAIN dbAt = 0..(current - 1)
  BY ClockFacts DEF DeploysInv, Shaped, Ledgered, Clock

\* Ticks that are lost, whatever is lost besides.
LEMMA LostFacts ==
    ASSUME NEW h
    PROVE  /\ Lost(spoilt) \subseteq LostAt(h) /\ Stale(h) \subseteq LostAt(h)
           /\ \A t \in Stale(h) : LP[t] \in LostAt(h)
           /\ spoilt \subseteq Lost(spoilt)
           /\ \A t \in spoilt : LP[t] \in Lost(spoilt)
  BY DEF LostAt, Lost

\* A row of box_revert above h is of the chain as it is, or its tick is lost.
LEMMA RevertedFacts ==
    ASSUME NEW op, NEW h, NEW t \in Reverted(db, op, h)
    PROVE  Real(db, op, t) # {} \/ t \in Stale(h)
  <1>1. PICK k \in RowsAbove(db.boxlog, h) : db.boxlog[k].op = op /\ db.boxlog[k].tick = t
    BY DEF Reverted
  <1>2. k \in DOMAIN db.boxlog
    BY DEF RowsAbove
  <1>3. CASE k \in left
    BY <1>1, <1>3 DEF Stale
  <1>4. CASE k \notin left
    BY <1>1, <1>2, <1>4 DEF Real
  <1>5. QED
    BY <1>3, <1>4

\* A tick that no token has, is no box.
LEMMA NoTokenFacts ==
    ASSUME DeploysInv, NEW t \in BoxTicks, t \notin DOMAIN db.collect, t \notin spoilt
    PROVE  /\ t \notin DOMAIN db.boxes /\ t \notin plain
           /\ Real(db, "deploy", t) = {}
           /\ Real(db, "finish", t) = {} /\ t \notin DOMAIN db.pools
  <1>1. Origins(db, plain) /\ BoxOrigin(db, t, plain)
    BY InvFacts DEF Origins
  <1>2. t \notin DOMAIN db.boxes /\ t \notin plain /\ Real(db, "deploy", t) = {}
    BY <1>1 DEF BoxOrigin, Origins
  <1>3. Real(db, "finish", t) = {}
    BY <1>1, <1>2 DEF BoxOrigin
  <1>4. QED
    BY <1>1, <1>2, <1>3 DEF BoxOrigin

\* A drc-20 deploy.
LEMMA Drc20DeployKeeps ==
    ASSUME DeploysInv, NEW t \in BoxTicks, Drc20Deploy(t)
    PROVE  DeploysInv'
  <1> DEFINE z == NewToken(db, t)
             own == plain \cup {t}
  <1>1. /\ t \notin DOMAIN db.collect
        /\ db' = z /\ plain' = own /\ UNCHANGED <<current, dbAt, left, spoilt>>
    BY DEF Drc20Deploy, Carry, HasToken
  <1>2. /\ Clock /\ Ledgered(db) /\ Shaped(db, plain) /\ Covered(db, Lost(spoilt))
        /\ RowsSound(db, current, Lost(spoilt)) /\ Origins(db, plain) /\ db \in Tables
        /\ \A h \in DOMAIN dbAt : LeadsTo(db, dbAt[h], h, plain, LostAt(h))
    BY InvFacts
  <1>3. t \in Ticks /\ t \notin Wrapped /\ \A x \in BoxTicks : LP[x] # t
    BY DeployNames
  <1>4. /\ Ledgered(z) /\ DOMAIN z.collect = DOMAIN db.collect \cup {t}
        /\ z.bal = db.bal /\ z.boxes = db.boxes /\ z.shares = db.shares
        /\ z.boxlog = db.boxlog /\ z.pools = db.pools /\ z.cross = db.cross
    BY <1>1, <1>2, <1>3, NewTokenLedger
  <1> HIDE DEF z
  <1>5. RowsSound(z, current, Lost(spoilt)) /\ Covered(z, Lost(spoilt))
    BY <1>2, <1>4 DEF RowsSound, Covered, PaidIn
  <1>6. Origins(z, own)
    <2>1. \A op, x : Real(z, op, x) = Real(db, op, x)
      BY <1>4 DEF Real
    <2>2. ASSUME NEW x \in BoxTicks \ spoilt PROVE BoxOrigin(z, x, own)
      <3>1. BoxOrigin(db, x, plain)
        BY <1>2, <2>2 DEF Origins
      <3>2. LP[x] # t
        BY <1>3, <2>2
      <3>3. x = t => x \notin DOMAIN db.boxes
        BY <1>1, <3>1 DEF BoxOrigin
      <3>4. QED
        BY <1>4, <2>1, <3>1, <3>2, <3>3 DEF BoxOrigin
    <2>3. QED
      BY <1>2, <1>3, <1>4, <2>2 DEF Origins
  <1>7. ASSUME NEW h \in DOMAIN dbAt
        PROVE  LeadsTo(z, dbAt[h], h, own, LostAt(h))
    <2>1. /\ \A op : Reverted(z, op, h) = Reverted(db, op, h)
          /\ Doomed(z, h) = Doomed(db, h)
      BY <1>4 DEF Reverted, Doomed
    <2>2. t \in LostAt(h) \/ t \notin Doomed(db, h)
      <3>1. ASSUME t \in Reverted(db, "deploy", h), t \notin LostAt(h) PROVE FALSE
        <4>1. t \notin Stale(h) /\ t \notin spoilt
          BY <3>1, LostFacts
        <4>2. Real(db, "deploy", t) # {}
          BY <3>1, <4>1, RevertedFacts
        <4>3. QED
          BY <1>1, <4>1, <4>2, NoTokenFacts
      <3>2. DOMAIN db.pools \subseteq BoxTicks /\ DOMAIN db.cross \subseteq Wrapped
        BY <1>2, TableFacts
      <3>3. QED
        BY <1>3, <3>1, <3>2 DEF Doomed
    <2>3. LeadsTo(db, dbAt[h], h, plain, LostAt(h))
      BY <1>2
    <2>4. ASSUME NEW x \in Ticks \ LostAt(h)
          PROVE  x \in DOMAIN z.collect \ Doomed(z, h) <=> x \in DOMAIN dbAt[h].collect \cup own
      <3>1. x \in DOMAIN db.collect \ Doomed(db, h) <=> x \in DOMAIN dbAt[h].collect \cup plain
        BY <2>3, <2>4 DEF LeadsTo
      <3>2. QED
        BY <1>1, <1>4, <2>1, <2>2, <2>4, <3>1
    <2>5. QED
      BY <1>4, <2>1, <2>3, <2>4 DEF LeadsTo
  <1>8. Shaped(z, own)
    BY <1>5, <1>6, <1>7 DEF Shaped
  <1>9. QED
    BY <1>1, <1>4, <1>5, <1>8, CarryKeeps

\* A step of the ledger alone.
LEMMA LedgerKeeps ==
    ASSUME DeploysInv, NEW z, Ledgered(z), Shape(z) = Shape(db), NotPoorer(db, z),
           db' = z, plain' = plain, UNCHANGED <<current, dbAt, left, spoilt>>
    PROVE  DeploysInv'
  <1>1. /\ Shaped(db, plain) /\ Covered(db, Lost(spoilt)) /\ db \in Tables /\ z \in Tables
    BY InvFacts DEF Ledgered
  <1>2. Shaped(z, plain) /\ Covered(z, Lost(spoilt))
    BY <1>1, ShapedAlike, CoveredAlike
  <1>3. z.boxlog = db.boxlog
    BY ShapeFacts
  <1>4. QED
    BY <1>2, <1>3, CarryKeeps

\* A drc-20 transfer.
LEMMA Drc20TransferKeeps ==
    ASSUME DeploysInv, NEW t \in Ticks, NEW payer \in Users, NEW to \in Accounts,
           NEW amt \in Amounts, Drc20Transfer(t, payer, to, amt)
    PROVE  DeploysInv'
  <1> DEFINE z == TransferDrc20(db, t, payer, to, amt, current)
  <1>1. /\ CanMove(db.bal, t, payer, to, amt) /\ payer \in Accounts /\ amt \in Nat
        /\ db' = z /\ plain' = plain /\ UNCHANGED <<current, dbAt, left, spoilt>>
        /\ Clock /\ Ledgered(db)
    BY InvFacts, DeployNames DEF Drc20Transfer, Carry
  <1>2. /\ Ledgered(z) /\ Shape(z) = Shape(db)
        /\ \A x \in Ticks, a \in Accounts \ {payer} : db.bal[x][a] <= z.bal[x][a]
    BY <1>1, TransferLedger
  <1> HIDE DEF z
  <1>3. NotPoorer(db, z)
    BY <1>2, DeployNames DEF NotPoorer
  <1>4. QED
    BY <1>1, <1>2, <1>3, LedgerKeeps

\* A mint of a wrapped token.
LEMMA CrossMintKeeps ==
    ASSUME DeploysInv, NEW u \in Users, NEW t \in Ticks, NEW amt \in Amounts, NEW to \in Users,
           CanCrossMint(db, t, u, amt), Carry(CrossMint(db, t, to, amt, current)),
           UNCHANGED plain
    PROVE  DeploysInv'
  <1> DEFINE z == MintDrc20(db, t, to, amt, current)
  <1>1. /\ t \in DOMAIN db.collect /\ to \in Accounts /\ amt \in Nat
        /\ db' = z /\ plain' = plain /\ UNCHANGED <<current, dbAt, left, spoilt>>
        /\ Clock /\ Ledgered(db)
    BY InvFacts, DeployNames DEF CanCrossMint, HasToken, Carry, CrossMint
  <1>2. /\ Ledgered(z) /\ Shape(z) = Shape(db)
        /\ \A x \in Ticks, a \in Accounts : db.bal[x][a] <= z.bal[x][a]
    BY <1>1, MintLedger
  <1> HIDE DEF z
  <1>3. NotPoorer(db, z)
    BY <1>2, DeployNames DEF NotPoorer
  <1>4. QED
    BY <1>1, <1>2, <1>3, LedgerKeeps

\* A burn of any token.
LEMMA CrossBurnKeeps ==
    ASSUME DeploysInv, NEW u \in Users, NEW t \in Ticks, NEW amt \in Amounts,
           CanCrossBurn(db, t, u, amt), Carry(CrossBurn(db, t, u, amt, current)),
           UNCHANGED plain
    PROVE  DeploysInv'
  <1> DEFINE z == BurnDrc20(db, t, u, amt, current)
  <1>1. /\ CanBurnDrc20(db, t, u, amt) /\ u \in Accounts /\ amt \in Nat
        /\ db' = z /\ plain' = plain /\ UNCHANGED <<current, dbAt, left, spoilt>>
        /\ Clock /\ Ledgered(db)
    BY InvFacts, DeployNames DEF CanCrossBurn, Carry, CrossBurn
  <1>2. /\ Ledgered(z) /\ Shape(z) = Shape(db)
        /\ \A x \in Ticks, a \in Accounts \ {u} : db.bal[x][a] <= z.bal[x][a]
    BY <1>1, BurnLedger
  <1> HIDE DEF z
  <1>3. NotPoorer(db, z)
    BY <1>2, DeployNames DEF NotPoorer
  <1>4. QED
    BY <1>1, <1>2, <1>3, LedgerKeeps

\* A deploy of a wrapped token.
LEMMA CrossDeployKeeps ==
    ASSUME DeploysInv, NEW u \in Users, NEW t \in Wrapped,
           CanCrossDeploy(db, t), Carry(CrossDeploy(db, t, u, current)), UNCHANGED plain
    PROVE  DeploysInv'
  <1> DEFINE new == NewToken(db, t)
             rows == [x \in DOMAIN db.cross \cup {t} |->
                        IF x = t THEN [admin |-> u, at |-> current] ELSE db.cross[x]]
             z == [new EXCEPT !.cross = rows]
  <1>1. /\ t \notin DOMAIN db.collect
        /\ plain' = plain /\ UNCHANGED <<current, dbAt, left, spoilt>>
    BY DEF CanCrossDeploy, HasToken, Carry
  <1>2. /\ Clock /\ Ledgered(db) /\ Shaped(db, plain) /\ Covered(db, Lost(spoilt))
        /\ RowsSound(db, current, Lost(spoilt)) /\ Origins(db, plain) /\ db \in Tables
        /\ \A h \in DOMAIN dbAt : /\ LeadsTo(db, dbAt[h], h, plain, LostAt(h))
                                  /\ h \in Nat /\ h < current
        /\ current \in Nat
    BY InvFacts
  <1>3. t \in Ticks /\ t \notin BoxTicks /\ \A x \in BoxTicks : LP[x] # t
    BY DeployNames
  <1>4. /\ Ledgered(new) /\ new \in Tables /\ DOMAIN new.collect = DOMAIN db.collect \cup {t}
        /\ new.bal = db.bal /\ new.log = db.log /\ new.boxes = db.boxes /\ new.shares = db.shares
        /\ new.boxlog = db.boxlog /\ new.pools = db.pools /\ new.cross = db.cross
    BY <1>1, <1>2, <1>3, NewTokenLedger
  <1>5. db' = z
    BY <1>4 DEF Carry, CrossDeploy, Tables
  <1>6. /\ DOMAIN db.cross \subseteq Wrapped /\ db.cross \in [DOMAIN db.cross -> CrossRows]
    BY <1>2, TableFacts
  <1>7. /\ DOMAIN rows = DOMAIN db.cross \cup {t} /\ rows[t].at = current
        /\ \A x \in DOMAIN db.cross \ {t} : rows[x] = db.cross[x]
    OBVIOUS
  <1>8. rows \in PartlyOn(Wrapped, CrossRows)
    <2>1. rows \in [DOMAIN db.cross \cup {t} -> CrossRows]
      BY <1>2, <1>6 DEF CrossRows
    <2> HIDE DEF rows
    <2>2. QED
      BY <1>6, <2>1 DEF PartlyOn
  <1> HIDE DEF new, rows
  <1>9. z \in Tables
    BY <1>4, <1>8 DEF Tables
  <1>10. /\ z.collect = new.collect /\ z.bal = new.bal /\ z.log = new.log
         /\ z.boxes = db.boxes /\ z.shares = db.shares
         /\ z.boxlog = db.boxlog /\ z.pools = db.pools /\ z.cross = rows
    BY <1>4 DEF Tables
  <1> HIDE DEF z
  <1>11. Ledgered(z)
    BY <1>4, <1>9, <1>10, SameLedger
  <1>12. t \notin DOMAIN db.cross /\ t \notin plain
    BY <1>1, <1>2 DEF Origins
  <1>13. RowsSound(z, current, Lost(spoilt)) /\ Covered(z, Lost(spoilt))
    <2>1. \A x \in DOMAIN rows : rows[x].at <= current
      BY <1>2, <1>7 DEF RowsSound
    <2>2. QED
      BY <1>2, <1>4, <1>10, <2>1 DEF RowsSound, Covered, PaidIn
  <1>14. Origins(z, plain)
    <2>1. \A op, x : Real(z, op, x) = Real(db, op, x)
      BY <1>10 DEF Real
    <2>2. ASSUME NEW x \in BoxTicks \ spoilt PROVE BoxOrigin(z, x, plain)
      <3>1. BoxOrigin(db, x, plain) /\ x # t /\ LP[x] # t
        BY <1>2, <1>3, <2>2 DEF Origins
      <3>2. QED
        BY <1>4, <1>10, <2>1, <3>1 DEF BoxOrigin
    <2>3. ASSUME NEW x \in Wrapped
          PROVE  /\ x \in DOMAIN z.collect <=> x \in DOMAIN z.cross \cup plain
                 /\ x \in DOMAIN z.cross => x \notin plain
      BY <1>2, <1>4, <1>7, <1>10, <1>12 DEF Origins
    <2>4. QED
      BY <1>2, <1>4, <1>10, <2>2, <2>3 DEF Origins
  <1>15. ASSUME NEW h \in DOMAIN dbAt
         PROVE  LeadsTo(z, dbAt[h], h, plain, LostAt(h))
    <2>1. \A op : Reverted(z, op, h) = Reverted(db, op, h)
      BY <1>10 DEF Reverted
    <2>2. current > h
      BY <1>2
    <2>3. Doomed(z, h) = Doomed(db, h) \cup {t}
      <3>1. {x \in DOMAIN z.cross : z.cross[x].at > h} = {x \in DOMAIN db.cross : db.cross[x].at > h} \cup {t}
        BY <1>7, <1>10, <1>12, <2>2
      <3>2. QED
        BY <1>10, <2>1, <3>1 DEF Doomed
    <2>4. LeadsTo(db, dbAt[h], h, plain, LostAt(h))
      BY <1>2
    <2>5. ASSUME NEW x \in Ticks \ LostAt(h)
          PROVE  x \in DOMAIN z.collect \ Doomed(z, h) <=> x \in DOMAIN dbAt[h].collect \cup plain
      <3>1. x \in DOMAIN db.collect \ Doomed(db, h) <=> x \in DOMAIN dbAt[h].collect \cup plain
        BY <2>4, <2>5 DEF LeadsTo
      <3>2. QED
        BY <1>1, <1>4, <1>10, <2>3, <2>5, <3>1
    <2>6. [x \in {y \in DOMAIN z.cross : z.cross[y].at <= h} |-> z.cross[x]] = dbAt[h].cross
      <3> DEFINE S == {y \in DOMAIN z.cross : z.cross[y].at <= h}
                 T == {y \in DOMAIN db.cross : db.cross[y].at <= h}
      <3>1. ~(current <= h)
        BY <1>2
      <3>2. S = T
        BY <1>7, <1>10, <1>12, <3>1
      <3>3. \A x \in T : z.cross[x] = db.cross[x]
        BY <1>7, <1>10, <1>12
      <3> HIDE DEF S, T
      <3>4. [x \in S |-> z.cross[x]] = [x \in T |-> db.cross[x]]
        BY <3>2, <3>3
      <3>5. QED
        BY <2>4, <3>4 DEF LeadsTo, S, T
    <2>7. QED
      BY <1>10, <2>1, <2>4, <2>5, <2>6 DEF LeadsTo
  <1>16. Shaped(z, plain)
    BY <1>13, <1>14, <1>15 DEF Shaped
  <1>17. QED
    BY <1>1, <1>5, <1>10, <1>11, <1>13, <1>16, CarryKeeps

\* More ticks are lost: less is said of the rest.
LEMMA MoreLost ==
    ASSUME NEW s, NEW lost, NEW more, lost \subseteq more
    PROVE  /\ LedgerSound(s, lost) => LedgerSound(s, more)
           /\ \A n : RowsSound(s, n, lost) => RowsSound(s, n, more)
           /\ Covered(s, lost) => Covered(s, more)
  <1>1. LedgerSound(s, lost) => LedgerSound(s, more)
    BY DEF LedgerSound
  <1>2. ASSUME NEW n, RowsSound(s, n, lost) PROVE RowsSound(s, n, more)
    BY <1>2 DEF RowsSound
  <1>3. Covered(s, lost) => Covered(s, more)
    BY DEF Covered
  <1>4. QED
    BY <1>1, <1>2, <1>3

\* Nothing is above the current block.
LEMMA NoRowAbove ==
    ASSUME NEW R, NEW rows \in Seq(R), NEW h, \A k \in DOMAIN rows : ~(rows[k].at > h)
    PROVE  RowsUpTo(rows, h) = rows
  <1>1. RowsAbove(rows, h) = {}
    BY DEF RowsAbove
  <1>2. rows = [k \in DOMAIN rows |-> rows[k]]
    OBVIOUS
  <1>3. QED
    BY <1>1, <1>2 DEF RowsUpTo

\* A fork to the end of the block that has just been finished leaves the tables.
LEMMA LeadsToNow ==
    ASSUME DeploysInv
    PROVE  LeadsTo(db, db, current, plain, LostAt(current))
  <1>1. /\ RowsSound(db, current, Lost(spoilt)) /\ Origins(db, plain) /\ db \in Tables
        /\ current \in Nat
    BY InvFacts
  <1>2. /\ db.shares \in Seq(ShareRows) /\ \A k \in DOMAIN db.shares : db.shares[k] \in ShareRows
        /\ DOMAIN db.pools \subseteq BoxTicks /\ db.pools \in [DOMAIN db.pools -> Nat]
        /\ db.cross \in [DOMAIN db.cross -> CrossRows]
    BY <1>1, TableFacts
  <1>3. RowsUpTo(db.shares, current) = db.shares
    <2>1. \A k \in DOMAIN db.shares : ~(db.shares[k].at > current)
      BY <1>1, <1>2 DEF RowsSound, ShareRows
    <2>2. QED
      BY <1>2, <2>1, NoRowAbove
  <1>4. /\ {x \in DOMAIN db.cross : db.cross[x].at <= current} = DOMAIN db.cross
        /\ {x \in DOMAIN db.cross : db.cross[x].at > current} = {}
    BY <1>1, <1>2 DEF RowsSound, CrossRows
  <1>5. {x \in DOMAIN db.pools : db.pools[x] > current} = {}
    BY <1>1, <1>2 DEF RowsSound
  <1>6. \A op : Reverted(db, op, current) \subseteq LostAt(current)
    <2>1. ASSUME NEW op, NEW k \in RowsAbove(db.boxlog, current) PROVE k \in left
      <3>1. /\ k \in DOMAIN db.boxlog /\ db.boxlog[k].at > current
            /\ db.boxlog[k] \in BoxLogRows
        BY <1>1, <2>1, TableFacts DEF RowsAbove
      <3>2. db.boxlog[k].at \in Nat
        BY <3>1 DEF BoxLogRows
      <3>3. k \notin left => db.boxlog[k].at <= current
        BY <1>1, <3>1 DEF Origins
      <3>4. QED
        BY <1>1, <3>1, <3>2, <3>3
    <2>2. \A op : Reverted(db, op, current) \subseteq Stale(current)
      BY <2>1 DEF Reverted, Stale
    <2>3. QED
      BY <2>2, LostFacts
  <1>7. Doomed(db, current) \subseteq LostAt(current)
    BY <1>4, <1>5, <1>6 DEF Doomed
  <1>8. plain \subseteq DOMAIN db.collect
    BY <1>1 DEF Origins
  <1>9. [t \in {x \in DOMAIN db.cross : db.cross[x].at <= current} |-> db.cross[t]] = db.cross
    BY <1>2, <1>4
  <1>10. ASSUME NEW t \in Ticks \ LostAt(current)
         PROVE  /\ t \in DOMAIN db.collect \ Doomed(db, current) <=> t \in DOMAIN db.collect \cup plain
                /\ t \in DOMAIN db.boxes \ Reverted(db, "deploy", current) <=> t \in DOMAIN db.boxes
                /\ t \in DOMAIN db.pools <=>
                      /\ t \in DOMAIN db.pools \ Reverted(db, "finish", current)
                      /\ db.pools[t] <= current
    <2>1. /\ t \notin Doomed(db, current) /\ t \notin Reverted(db, "deploy", current)
          /\ t \notin Reverted(db, "finish", current)
      BY <1>6, <1>7, <1>10
    <2>2. t \in DOMAIN db.pools => db.pools[t] <= current
      BY <1>1 DEF RowsSound
    <2>3. QED
      BY <1>8, <2>1, <2>2
  <1>11. QED
    BY <1>3, <1>9, <1>10 DEF LeadsTo

\* A block is finished.
LEMMA NextBlockKeeps ==
    ASSUME DeploysInv, NextBlock
    PROVE  DeploysInv'
  <1>1. /\ current' = current + 1
        /\ dbAt' = [h \in 0..current |-> IF h = current THEN db ELSE dbAt[h]]
        /\ UNCHANGED <<db, plain, left, spoilt>>
    BY DEF NextBlock
  <1>2. /\ Clock /\ Ledgered(db) /\ Shaped(db, plain) /\ Covered(db, Lost(spoilt))
        /\ RowsSound(db, current, Lost(spoilt)) /\ Origins(db, plain) /\ db \in Tables
        /\ current \in Nat /\ PastSound
        /\ DOMAIN dbAt = 0..(current - 1) /\ \A h \in DOMAIN dbAt : dbAt[h] \in Tables
    BY InvFacts DEF DeploysInv
  <1>3. \A h : LostAt(h)' = LostAt(h)
    BY <1>1 DEF LostAt, Stale
  <1>4. /\ DOMAIN dbAt' = 0..current /\ dbAt'[current] = db
        /\ \A h \in 0..current : (h \in DOMAIN dbAt /\ dbAt'[h] = dbAt[h]) \/ h = current
    <2>1. \A h \in 0..current : (h \in 0..(current - 1) /\ h # current) \/ h = current
      BY <1>2
    <2>2. current \in 0..current
      BY <1>2
    <2>3. QED
      BY <1>1, <1>2, <2>1, <2>2
  <1>5. Clock'
    <2>1. (current + 1) - 1 = current /\ current + 1 \in Nat
      BY <1>2
    <2>2. \A h \in 0..current : dbAt'[h] \in Tables
      BY <1>2, <1>4
    <2>3. dbAt' \in [0..current -> Tables]
      BY <1>1, <2>2
    <2>4. QED
      BY <1>1, <1>2, <2>1, <2>3 DEF Clock
  <1>6. /\ LogSound(db, current) /\ LedgerSound(db, Lost(spoilt))
        /\ \A h \in DOMAIN dbAt : RowsUpTo(db.log, h) = dbAt[h].log
        /\ Traced(db)
    BY <1>2 DEF Ledgered
  <1>7. PastSound'
    <2>1. /\ LedgerSound(db, LostAt(current)) /\ RowsSound(db, current, LostAt(current))
          /\ Covered(db, LostAt(current))
      BY <1>2, <1>6, LostFacts, MoreLost
    <2>2. \A h \in 0..current : /\ LogSound(dbAt'[h], h) /\ LedgerSound(dbAt'[h], LostAt(h))
                                /\ RowsSound(dbAt'[h], h, LostAt(h))
                                /\ Covered(dbAt'[h], LostAt(h))
      BY <1>2, <1>4, <1>6, <2>1 DEF PastSound
    <2>3. QED
      BY <1>3, <1>4, <2>2 DEF PastSound
  <1>8. /\ db.log \in Seq(LogRows) /\ \A k \in DOMAIN db.log : db.log[k].at \in Nat
        /\ \A k \in DOMAIN db.shares : db.shares[k].at \in Nat
        /\ \A t \in DOMAIN db.pools : db.pools[t] \in Nat
        /\ \A t \in DOMAIN db.cross : db.cross[t].at \in Nat
        /\ \A k \in DOMAIN db.boxlog : db.boxlog[k].at \in Nat
    <2>1. /\ db.log \in Seq(LogRows) /\ db.shares \in Seq(ShareRows) /\ db.boxlog \in Seq(BoxLogRows)
          /\ db.pools \in [DOMAIN db.pools -> Nat] /\ db.cross \in [DOMAIN db.cross -> CrossRows]
      BY <1>2, TableFacts
    <2>2. /\ \A k \in DOMAIN db.log : db.log[k] \in LogRows
          /\ \A k \in DOMAIN db.shares : db.shares[k] \in ShareRows
          /\ \A k \in DOMAIN db.boxlog : db.boxlog[k] \in BoxLogRows
      BY <2>1
    <2>3. QED
      BY <2>1, <2>2 DEF LogRows, ShareRows, BoxLogRows, CrossRows
  <1>9. Ledgered(db)'
    <2>1. LogSound(db, current + 1)
      BY <1>2, <1>6, <1>8 DEF LogSound
    <2>2. RowsUpTo(db.log, current) = db.log
      <3>1. \A k \in DOMAIN db.log : ~(db.log[k].at > current)
        BY <1>2, <1>6, <1>8 DEF LogSound
      <3>2. QED
        BY <1>8, <3>1, NoRowAbove
    <2>3. \A h \in 0..current : RowsUpTo(db.log, h) = dbAt'[h].log
      BY <1>4, <1>6, <2>2
    <2>4. ASSUME NEW t \in Ticks \ Lost(spoilt)
          PROVE  \E tr : /\ TraceOf(tr, db, t)
                         /\ \A h \in 0..current : t \notin LostAt(h) =>
                               tr[Len(dbAt'[h].log)] = dbAt'[h].bal[t]
      <3>1. PICK tr : /\ TraceOf(tr, db, t)
                      /\ \A h \in DOMAIN dbAt : t \notin LostAt(h) =>
                            tr[Len(dbAt[h].log)] = dbAt[h].bal[t]
        BY <1>6 DEF Traced
      <3>2. tr[Len(db.log)] = db.bal[t]
        BY <3>1 DEF TraceOf
      <3>3. QED
        BY <1>4, <3>1, <3>2
    <2>5. Traced(db)'
      BY <1>1, <1>3, <1>4, <2>4 DEF Traced
    <2>6. QED
      BY <1>1, <1>2, <1>4, <1>6, <2>1, <2>3, <2>5 DEF Ledgered
  <1>10. Shaped(db, plain)'
    <2>1. RowsSound(db, current + 1, Lost(spoilt))
      BY <1>2, <1>8 DEF RowsSound
    <2>2. Origins(db, plain)'
      <3>1. \A k \in DOMAIN db.boxlog \ left : db.boxlog[k].at <= current + 1
        BY <1>2, <1>8 DEF Origins
      <3>2. \A t : BoxOrigin(db, t, plain)' <=> BoxOrigin(db, t, plain)
        BY <1>1 DEF BoxOrigin, Real
      <3>3. QED
        BY <1>1, <1>2, <3>1, <3>2 DEF Origins
    <2>3. \A h \in 0..current : LeadsTo(db, dbAt'[h], h, plain, LostAt(h))
      BY <1>2, <1>4, LeadsToNow DEF Shaped
    <2>4. QED
      BY <1>1, <1>3, <1>4, <2>1, <2>2, <2>3 DEF Shaped
  <1>11. QED
    BY <1>1, <1>2, <1>5, <1>7, <1>9, <1>10 DEF DeploysInv

\* e is a new row of box_revert.
NewRow(z, e) ==
    /\ z.boxlog \in Seq(BoxLogRows)
    /\ \A k \in DOMAIN db.boxlog : k \in DOMAIN z.boxlog /\ z.boxlog[k] = db.boxlog[k]
    /\ \A k \in DOMAIN z.boxlog \ left : z.boxlog[k].at <= current
    /\ \A op, x : e.op # op \/ e.tick # x => Real(z, op, x) = Real(db, op, x)
    /\ \E n : /\ n \in DOMAIN z.boxlog /\ z.boxlog[n] = e
              /\ Real(z, e.op, e.tick) = Real(db, e.op, e.tick) \cup {n}
    /\ \A h \in DOMAIN dbAt :
          /\ \A op : e.op # op => Reverted(z, op, h) = Reverted(db, op, h)
          /\ Reverted(z, e.op, h) = Reverted(db, e.op, h) \cup {e.tick}

\* A row of box_revert.
LEMMA NotedFacts ==
    ASSUME DeploysInv, NEW e \in BoxLogRows, e.at = current,
           NEW z, z.boxlog = Append(db.boxlog, e)
    PROVE  NewRow(z, e)
  <1> DEFINE n == Len(db.boxlog) + 1
  <1>1. /\ db \in Tables /\ Origins(db, plain) /\ left \subseteq DOMAIN db.boxlog /\ current \in Nat
        /\ \A h \in DOMAIN dbAt : h \in Nat /\ h < current
    BY InvFacts
  <1>2. db.boxlog \in Seq(BoxLogRows)
    BY <1>1, TableFacts
  <1>3. /\ z.boxlog \in Seq(BoxLogRows) /\ DOMAIN db.boxlog = 1..(n - 1) /\ DOMAIN z.boxlog = 1..n
        /\ n \in Nat /\ z.boxlog[n] = e
        /\ \A k \in 1..(n - 1) : z.boxlog[k] = db.boxlog[k]
    BY <1>2
  <1> HIDE DEF n
  <1>4. /\ \A k : k \in 1..n <=> k \in 1..(n - 1) \/ k = n
        /\ n \notin 1..(n - 1)
    <2>1. n >= 1
      <3>1. DOMAIN db.boxlog = 1..Len(db.boxlog) /\ Len(db.boxlog) \in Nat
        BY <1>2
      <3>2. QED
        BY <3>1 DEF n
    <2>2. QED
      BY <1>3, <2>1
  <1>5. n \notin left
    BY <1>1, <1>3, <1>4
  <1>6. \A k \in DOMAIN z.boxlog \ left : z.boxlog[k].at <= current
    BY <1>1, <1>3, <1>4 DEF Origins
  <1>7. \A op, x : e.op # op \/ e.tick # x => Real(z, op, x) = Real(db, op, x)
    BY <1>3, <1>4 DEF Real
  <1>8. Real(z, e.op, e.tick) = Real(db, e.op, e.tick) \cup {n}
    BY <1>3, <1>4, <1>5 DEF Real
  <1>9. ASSUME NEW h \in DOMAIN dbAt
        PROVE  /\ \A op : e.op # op => Reverted(z, op, h) = Reverted(db, op, h)
               /\ Reverted(z, e.op, h) = Reverted(db, e.op, h) \cup {e.tick}
    <2>1. e.at > h
      BY <1>1
    <2>2. RowsAbove(z.boxlog, h) = RowsAbove(db.boxlog, h) \cup {n}
      BY <1>3, <1>4, <2>1 DEF RowsAbove
    <2>3. RowsAbove(db.boxlog, h) \subseteq 1..(n - 1)
      BY <1>3 DEF RowsAbove
    <2>4. QED
      BY <1>3, <2>2, <2>3 DEF Reverted
  <1>10. QED
    BY <1>3, <1>4, <1>6, <1>7, <1>8, <1>9 DEF NewRow

\* Nobody has paid into a box that is not there.
LEMMA NobodyPaid ==
    ASSUME NEW s \in Tables, NEW t, \A k \in DOMAIN s.shares : s.shares[k].tick # t
    PROVE  PaidIn(s, t) = 0
  <1>1. IsFiniteSet(DOMAIN s.shares)
    BY SharesFinite
  <1>2. Shares(s.shares, t) = [k \in DOMAIN s.shares |-> 0]
    BY DEF Shares
  <1>3. QED
    BY <1>1, <1>2, PaidInFacts, SumZero

\* What With puts where (four lemmas).
LEMMA WithDomain == ASSUME NEW f, NEW t, NEW v PROVE DOMAIN With(f, t, v) = DOMAIN f \cup {t}
  BY DEF With

LEMMA WithThis == ASSUME NEW f, NEW t, NEW v PROVE With(f, t, v)[t] = v
  BY DEF With

LEMMA WithOther ==
    ASSUME NEW f, NEW t, NEW v
    PROVE  \A x \in DOMAIN f \ {t} : With(f, t, v)[x] = f[x]
  BY DEF With

LEMMA WithPartly ==
    ASSUME NEW D, NEW R, NEW f \in PartlyOn(D, R), NEW t \in D, NEW v \in R
    PROVE  With(f, t, v) \in PartlyOn(D, R)
  <1>1. DOMAIN f \subseteq D /\ f \in [DOMAIN f -> R]
    BY PartlyFacts
  <1>2. With(f, t, v) \in [DOMAIN f \cup {t} -> R] /\ DOMAIN f \cup {t} \in SUBSET D
    BY <1>1 DEF With
  <1>3. QED
    BY <1>2 DEF PartlyOn

\* A deploy of a box.
LEMMA BoxDeployKeeps ==
    ASSUME DeploysInv, NEW d \in BoxDeploys, CanBoxDeploy(db, d),
           Carry(BoxDeploy(db, d, current)), UNCHANGED plain
    PROVE  DeploysInv'
  <1> DEFINE t == d.tick0
             new == NewToken(db, t)
             issued == MintDrc20(new, t, BoxReserve[t], d.max, current)
             row == [tick1 |-> d.tick1, amt0 |-> d.amt0, liqamt |-> d.liqamt, finish |-> 0]
             e == [op |-> "deploy", tick |-> t, at |-> current]
             z == BoxDeploy(db, d, current)
  <1>1. /\ t \notin DOMAIN db.collect /\ d.tick1 \in DOMAIN db.collect
        /\ db' = z /\ plain' = plain /\ UNCHANGED <<current, dbAt, left, spoilt>>
    BY DEF CanBoxDeploy, HasToken, Carry
  <1>2. /\ Clock /\ Ledgered(db) /\ Shaped(db, plain) /\ Covered(db, Lost(spoilt))
        /\ RowsSound(db, current, Lost(spoilt)) /\ Origins(db, plain) /\ db \in Tables
        /\ \A h \in DOMAIN dbAt : LeadsTo(db, dbAt[h], h, plain, LostAt(h))
        /\ current \in Nat
    BY InvFacts
  <1>3. /\ t \in BoxTicks /\ d.tick1 \in Ticks /\ d.max \in Nat /\ d.amt0 \in Nat /\ d.liqamt \in Nat
        /\ t \in Ticks /\ t \notin Wrapped /\ BoxReserve[t] \in Accounts
        /\ \A x \in BoxTicks : LP[x] # t
    BY DeployNames
  <1>4. /\ Ledgered(new) /\ new \in Tables /\ DOMAIN new.collect = DOMAIN db.collect \cup {t}
        /\ new.bal = db.bal /\ new.boxes = db.boxes /\ new.shares = db.shares
        /\ new.boxlog = db.boxlog /\ new.pools = db.pools /\ new.cross = db.cross
    BY <1>1, <1>2, <1>3, NewTokenLedger
  <1> HIDE DEF new, t
  <1>5. /\ Ledgered(issued) /\ issued \in Tables /\ Shape(issued) = Shape(new)
        /\ \A x \in Ticks, a \in Accounts : new.bal[x][a] <= issued.bal[x][a]
    <2>1. t \in DOMAIN new.collect
      BY <1>4
    <2>2. Clock /\ Ledgered(new) /\ BoxReserve[t] \in Accounts /\ d.max \in Nat
      BY <1>2, <1>3, <1>4
    <2> HIDE DEF issued
    <2>3. issued = MintDrc20(new, t, BoxReserve[t], d.max, current)
      BY DEF issued
    <2>4. QED
      BY <2>1, <2>2, <2>3, MintLedger
  <1> HIDE DEF issued
  <1>6. /\ DOMAIN issued.collect = DOMAIN db.collect \cup {t}
        /\ issued.boxes = db.boxes /\ issued.shares = db.shares /\ issued.boxlog = db.boxlog
        /\ issued.pools = db.pools /\ issued.cross = db.cross
    BY <1>4, <1>5, ShapeFacts
  <1>7. row \in BoxRows /\ e \in BoxLogRows /\ e.at = current /\ e.op = "deploy" /\ e.tick = t
        /\ row.tick1 = d.tick1
    BY <1>2, <1>3 DEF BoxRows, BoxLogRows
  <1>8. /\ With(issued.boxes, t, row) \in PartlyOn(BoxTicks, BoxRows)
        /\ Append(issued.boxlog, e) \in Seq(BoxLogRows)
    <2>1. issued.boxes \in PartlyOn(BoxTicks, BoxRows) /\ issued.boxlog \in Seq(BoxLogRows)
      BY <1>5 DEF Tables
    <2>2. With(issued.boxes, t, row) \in PartlyOn(BoxTicks, BoxRows)
      BY <1>3, <1>7, <2>1, WithPartly
    <2>3. QED
      BY <1>7, <2>1, <2>2
  <1>9. z = [issued EXCEPT !.boxes = With(issued.boxes, t, row), !.boxlog = Append(issued.boxlog, e)]
    BY <1>5 DEF BoxDeploy, Noted, Tables, issued, new, t
  <1> HIDE DEF row, e, z
  <1>10. /\ z \in Tables /\ z.collect = issued.collect /\ z.bal = issued.bal /\ z.log = issued.log
         /\ z.boxes = With(db.boxes, t, row) /\ z.shares = db.shares
         /\ z.boxlog = Append(db.boxlog, e) /\ z.pools = db.pools /\ z.cross = db.cross
    BY <1>5, <1>6, <1>8, <1>9 DEF Tables
  <1>11. Ledgered(z)
    BY <1>5, <1>10, SameLedger
  <1>12. /\ DOMAIN z.boxes = DOMAIN db.boxes \cup {t} /\ z.boxes[t] = row
         /\ \A x \in DOMAIN db.boxes \ {t} : z.boxes[x] = db.boxes[x]
    <2>1. DOMAIN With(db.boxes, t, row) = DOMAIN db.boxes \cup {t}
      BY WithDomain
    <2>2. With(db.boxes, t, row)[t] = row
      BY WithThis
    <2>3. \A x \in DOMAIN db.boxes \ {t} : With(db.boxes, t, row)[x] = db.boxes[x]
      BY WithOther
    <2>4. QED
      BY <1>10, <2>1, <2>2, <2>3
  <1>13. d.tick1 # t
    BY <1>1
  <1>14. /\ \A k \in DOMAIN db.boxlog : k \in DOMAIN z.boxlog /\ z.boxlog[k] = db.boxlog[k]
         /\ \A k \in DOMAIN z.boxlog \ left : z.boxlog[k].at <= current
         /\ \A op, x : "deploy" # op \/ t # x => Real(z, op, x) = Real(db, op, x)
         /\ \E n : Real(z, "deploy", t) = Real(db, "deploy", t) \cup {n}
         /\ \A h \in DOMAIN dbAt :
               /\ Reverted(z, "finish", h) = Reverted(db, "finish", h)
               /\ Reverted(z, "deploy", h) = Reverted(db, "deploy", h) \cup {t}
    <2>1. e \in BoxLogRows /\ e.at = current /\ z.boxlog = Append(db.boxlog, e)
      BY <1>7, <1>10
    <2> HIDE DEF e
    <2>2. NewRow(z, e)
      BY <2>1, NotedFacts
    <2>3. QED
      BY <1>7, <2>2 DEF NewRow
  <1>15. RowsSound(z, current, Lost(spoilt))
    BY <1>2, <1>7, <1>10, <1>12, <1>13 DEF RowsSound
  <1>16. Covered(z, Lost(spoilt))
    <2>1. ASSUME NEW x \in DOMAIN z.boxes \ DOMAIN z.pools,
                 x \notin Lost(spoilt), z.boxes[x].tick1 \notin Lost(spoilt)
          PROVE  PaidIn(z, x) <= z.bal[z.boxes[x].tick1][BoxReserve[x]]
      <3> DEFINE y == z.boxes[x].tick1
      <3>1. x \in BoxTicks /\ y \in Ticks /\ BoxReserve[x] \in Accounts
        BY <1>10, <2>1, TableFacts, DeployNames DEF BoxRows
      <3>2. /\ db.bal[y][BoxReserve[x]] \in Nat /\ z.bal[y][BoxReserve[x]] \in Nat
            /\ db.bal[y][BoxReserve[x]] <= z.bal[y][BoxReserve[x]]
        BY <1>2, <1>4, <1>5, <1>10, <3>1, TableFacts
      <3>3. CASE x = t
        <4>1. t \notin spoilt
          BY <2>1, <3>3, LostFacts
        <4>2. t \notin DOMAIN db.boxes
          BY <1>1, <1>3, <4>1, NoTokenFacts
        <4>3. \A k \in DOMAIN z.shares : z.shares[k].tick # t
          BY <1>2, <1>10, <2>1, <3>3, <4>2 DEF RowsSound
        <4>4. PaidIn(z, x) = 0
          BY <1>10, <3>3, <4>3, NobodyPaid
        <4>5. QED
          BY <3>2, <4>4
      <3>4. CASE x # t
        <4>1. x \in DOMAIN db.boxes \ DOMAIN db.pools /\ z.boxes[x] = db.boxes[x]
          BY <1>10, <1>12, <2>1, <3>4
        <4>2. PaidIn(db, x) <= db.bal[y][BoxReserve[x]]
          BY <1>2, <2>1, <4>1 DEF Covered
        <4>3. PaidIn(z, x) = PaidIn(db, x) /\ PaidIn(db, x) \in Nat
          BY <1>2, <1>10, PaidInFacts DEF PaidIn
        <4>4. QED
          BY <3>2, <4>2, <4>3
      <3>5. QED
        BY <3>3, <3>4
    <2>2. QED
      BY <2>1 DEF Covered
  <1>17. Origins(z, plain)
    <2>1. ASSUME NEW x \in BoxTicks \ spoilt PROVE BoxOrigin(z, x, plain)
      <3>1. BoxOrigin(db, x, plain) /\ LP[x] # t
        BY <1>2, <1>3, <2>1 DEF Origins
      <3>2. CASE x = t
        <4>1. /\ t \notin DOMAIN db.boxes /\ t \notin plain /\ Real(db, "deploy", t) = {}
              /\ Real(db, "finish", t) = {} /\ t \notin DOMAIN db.pools
          BY <1>1, <1>3, <2>1, <3>2, NoTokenFacts
        <4>2. PICK n : Real(z, "deploy", t) = {n}
          BY <1>14, <4>1
        <4>3. Real(z, "finish", t) = {}
          BY <1>14, <4>1
        <4>4. QED
          BY <1>6, <1>10, <1>12, <3>1, <3>2, <4>1, <4>2, <4>3 DEF BoxOrigin
      <3>3. CASE x # t
        <4>1. /\ Real(z, "deploy", x) = Real(db, "deploy", x)
              /\ Real(z, "finish", x) = Real(db, "finish", x)
          BY <1>14, <3>3
        <4>2. \A k \in Real(db, "deploy", x) \cup Real(db, "finish", x) : z.boxlog[k] = db.boxlog[k]
          BY <1>14 DEF Real
        <4>3. \A k \in Real(z, "finish", x) :
                 /\ x \in DOMAIN z.pools /\ z.pools[x] = z.boxlog[k].at
                 /\ \E j \in Real(z, "deploy", x) : z.boxlog[j].at <= z.boxlog[k].at
          BY <1>10, <3>1, <4>1, <4>2 DEF BoxOrigin
        <4>4. /\ x \in DOMAIN z.boxes <=> x \in DOMAIN db.boxes
              /\ x \in DOMAIN z.collect <=> x \in DOMAIN db.collect
              /\ LP[x] \in DOMAIN z.collect <=> LP[x] \in DOMAIN db.collect
              /\ z.pools = db.pools
          BY <1>6, <1>10, <1>12, <3>1, <3>3
        <4>5. QED
          BY <3>1, <4>1, <4>3, <4>4 DEF BoxOrigin
      <3>4. QED
        BY <3>2, <3>3
    <2>2. \A x \in Wrapped : /\ x \in DOMAIN z.collect <=> x \in DOMAIN z.cross \cup plain
                             /\ x \in DOMAIN z.cross => x \notin plain
      BY <1>2, <1>3, <1>6, <1>10 DEF Origins
    <2>3. plain \subseteq DOMAIN z.collect
      BY <1>2, <1>6, <1>10 DEF Origins
    <2>4. QED
      BY <1>14, <2>1, <2>2, <2>3 DEF Origins
  <1>18. ASSUME NEW h \in DOMAIN dbAt
         PROVE  LeadsTo(z, dbAt[h], h, plain, LostAt(h))
    <2>1. LeadsTo(db, dbAt[h], h, plain, LostAt(h))
      BY <1>2
    <2>2. /\ Reverted(z, "finish", h) = Reverted(db, "finish", h)
          /\ Reverted(z, "deploy", h) = Reverted(db, "deploy", h) \cup {t}
          /\ Doomed(z, h) = Doomed(db, h) \cup {t}
      BY <1>10, <1>14 DEF Doomed
    <2>3. t \notin LostAt(h) => t \notin DOMAIN db.boxes
      BY <1>1, <1>3, NoTokenFacts, LostFacts
    <2>4. ASSUME NEW x \in Ticks \ LostAt(h)
          PROVE  /\ x \in DOMAIN z.collect \ Doomed(z, h) <=> x \in DOMAIN dbAt[h].collect \cup plain
                 /\ x \in DOMAIN z.boxes \ Reverted(z, "deploy", h) <=> x \in DOMAIN dbAt[h].boxes
                 /\ x \in DOMAIN dbAt[h].boxes => dbAt[h].boxes[x].tick1 = z.boxes[x].tick1
      <3>1. /\ x \in DOMAIN db.collect \ Doomed(db, h) <=> x \in DOMAIN dbAt[h].collect \cup plain
            /\ x \in DOMAIN db.boxes \ Reverted(db, "deploy", h) <=> x \in DOMAIN dbAt[h].boxes
            /\ x \in DOMAIN dbAt[h].boxes => dbAt[h].boxes[x].tick1 = db.boxes[x].tick1
        BY <2>1, <2>4 DEF LeadsTo
      <3>2. x \in DOMAIN dbAt[h].boxes => x # t /\ z.boxes[x] = db.boxes[x]
        BY <1>12, <2>3, <2>4, <3>1
      <3>3. QED
        BY <1>1, <1>6, <1>10, <1>12, <2>2, <2>3, <2>4, <3>1, <3>2
    <2>5. QED
      BY <1>10, <2>1, <2>2, <2>4 DEF LeadsTo
  <1>19. Shaped(z, plain)
    BY <1>15, <1>17, <1>18 DEF Shaped
  <1>20. QED
    BY <1>1, <1>11, <1>14, <1>16, <1>19, CarryKeeps

\* One more value is added.
LEMMA SumOneMore ==
    ASSUME NEW T, NEW x \in T, NEW S, S = T \ {x}, IsFiniteSet(S),
           NEW f \in [S -> Int], NEW g \in [T -> Int], \A y \in S : g[y] = f[y]
    PROVE  SumFunction(g) = SumFunction(f) + g[x]
  <1>0. T = S \cup {x}
    OBVIOUS
  <1>1. IsFiniteSet(T)
    BY <1>0, FS_AddElement
  <1>2. PICK G : Sums(G, g, T) /\ SumFunction(g) = G[T]
    BY <1>1, SumTable
  <1>3. PICK F : Sums(F, f, S) /\ SumFunction(f) = F[S]
    BY SumTable
  <1>4. G[T] = g[x] + G[T \ {x}] /\ T \ {x} = S
    BY <1>2, SumLeaveOut
  <1> DEFINE G2 == [U \in SUBSET S |-> G[U]]
  <1>5. /\ G \in [SUBSET T -> Int] /\ SUBSET S \subseteq SUBSET T
        /\ \A U \in SUBSET T : G[U] = IF U = {} THEN 0 ELSE g[Pick(U)] + G[U \ {Pick(U)}]
    BY <1>2 DEF Sums, IsSum
  <1>6. Sums(G2, f, S)
    <2>1. G2 \in [SUBSET S -> Int]
      BY <1>5
    <2>2. ASSUME NEW U \in SUBSET S
          PROVE  G2[U] = IF U = {} THEN 0 ELSE f[Pick(U)] + G2[U \ {Pick(U)}]
      <3>1. CASE U = {}
        BY <1>5, <3>1
      <3>2. CASE U # {}
        <4>1. Pick(U) \in S /\ U \ {Pick(U)} \in SUBSET S
          BY <3>2, PickIn
        <4>2. U \in SUBSET T
          BY <1>5
        <4>3. G[U] = g[Pick(U)] + G[U \ {Pick(U)}]
          BY <1>5, <3>2, <4>2
        <4>4. QED
          BY <3>2, <4>1, <4>3
      <3>3. QED
        BY <3>1, <3>2
    <2> HIDE DEF G2
    <2>3. QED
      BY <2>1, <2>2 DEF Sums, IsSum
  <1>7. G2[S] = F[S]
    <2> HIDE DEF G2
    <2>1. \A y \in S : f[y] = f[y]
      OBVIOUS
    <2>2. QED
      BY <1>3, <1>6, <2>1, SumAgree
  <1>8. G2[S] = G[S]
    OBVIOUS
  <1>9. SumFunction(f) \in Int /\ g[x] \in Int
    BY SumInt
  <1>10. G[T] = g[x] + SumFunction(f)
    BY <1>3, <1>4, <1>7, <1>8
  <1>11. QED
    BY <1>2, <1>9, <1>10

\* One row more of box_collect_address.
LEMMA PaidInMore ==
    ASSUME NEW s \in Tables, NEW z \in Tables, NEW r \in ShareRows,
           z.shares = Append(s.shares, r), NEW t
    PROVE  PaidIn(z, t) = PaidIn(s, t) + (IF r.tick = t THEN r.amt ELSE 0)
  <1> DEFINE n == Len(s.shares)
             f == Shares(s.shares, t)
             g == Shares(z.shares, t)
  <1>1. /\ DOMAIN s.shares = 1..n /\ n \in Nat /\ DOMAIN z.shares = 1..(n + 1)
        /\ z.shares[n + 1] = r /\ \A k \in 1..n : z.shares[k] = s.shares[k]
        /\ \A k \in 1..n : s.shares[k] \in ShareRows
    BY TableFacts
  <1> HIDE DEF n
  <1>2. /\ IsFiniteSet(1..n) /\ n + 1 \notin 1..n /\ 1..(n + 1) = (1..n) \cup {n + 1}
    <2>1. IsFiniteSet(1..n)
      BY <1>1, FS_Interval
    <2>2. n + 1 \notin 1..n /\ 1..(n + 1) = (1..n) \cup {n + 1}
      BY <1>1
    <2>3. QED
      BY <2>1, <2>2
  <1>3. /\ f \in [1..n -> Int] /\ \A k \in 1..n : g[k] = f[k]
        /\ g \in [(1..n) \cup {n + 1} -> Int]
        /\ g[n + 1] = IF r.tick = t THEN r.amt ELSE 0
    BY <1>1, <1>2 DEF Shares, ShareRows
  <1> HIDE DEF f, g
  <1>4. SumFunction(g) = SumFunction(f) + g[n + 1]
    <2> DEFINE S == 1..n
               x == n + 1
               T == S \cup {x}
    <2>1. /\ IsFiniteSet(S) /\ x \in T /\ S = T \ {x} /\ f \in [S -> Int]
          /\ g \in [T -> Int] /\ \A k \in S : g[k] = f[k]
      BY <1>2, <1>3
    <2> HIDE DEF S, x, T
    <2>2. SumFunction(g) = SumFunction(f) + g[x]
      BY <2>1, SumOneMore
    <2>3. QED
      BY <2>2 DEF x
  <1>5. QED
    BY <1>3, <1>4, PaidInFacts DEF f, g

\* Box t counts n as paid in.
CountedAs(boxes, t, n) == [boxes EXCEPT ![t].finish = n]

\* What a box counts is told by its row only.
LEMMA CountedAsFacts ==
    ASSUME NEW boxes \in PartlyOn(BoxTicks, BoxRows), NEW t \in DOMAIN boxes, NEW n \in Nat
    PROVE  /\ CountedAs(boxes, t, n) \in PartlyOn(BoxTicks, BoxRows)
           /\ DOMAIN CountedAs(boxes, t, n) = DOMAIN boxes
           /\ \A x \in DOMAIN boxes : CountedAs(boxes, t, n)[x].tick1 = boxes[x].tick1
  <1>1. DOMAIN boxes \subseteq BoxTicks /\ boxes \in [DOMAIN boxes -> BoxRows]
    BY PartlyFacts
  <1>2. /\ CountedAs(boxes, t, n) = [boxes EXCEPT ![t] = [boxes[t] EXCEPT !.finish = n]]
    BY DEF CountedAs
  <1>3. [boxes[t] EXCEPT !.finish = n] \in BoxRows /\ [boxes[t] EXCEPT !.finish = n].tick1 = boxes[t].tick1
    <2>1. boxes[t] \in BoxRows
      BY <1>1
    <2>2. QED
      BY <2>1 DEF BoxRows
  <1>4. /\ CountedAs(boxes, t, n) \in [DOMAIN boxes -> BoxRows]
        /\ \A x \in DOMAIN boxes : CountedAs(boxes, t, n)[x].tick1 = boxes[x].tick1
    <2> DEFINE b == [boxes[t] EXCEPT !.finish = n]
    <2>1. CountedAs(boxes, t, n) = [boxes EXCEPT ![t] = b] /\ b \in BoxRows /\ b.tick1 = boxes[t].tick1
      BY <1>2, <1>3
    <2> HIDE DEF b
    <2>2. QED
      BY <1>1, <2>1
  <1>5. CountedAs(boxes, t, n) \in PartlyOn(BoxTicks, BoxRows)
    BY <1>1, <1>4 DEF PartlyOn
  <1>6. QED
    BY <1>4, <1>5

\* The tables when u has paid amt into box t, before it is finished.
PaidTo(t, u, amt, n) ==
    [TransferDrc20(db, db.boxes[t].tick1, u, BoxReserve[t], amt, current) EXCEPT
        !.boxes = CountedAs(db.boxes, t, n),
        !.shares = Append(db.shares, [tick |-> t, holder |-> u, amt |-> amt, at |-> current])]

\* A transfer to a reserve covers what it adds.
LEMMA PaidToFacts ==
    ASSUME DeploysInv, NEW t \in DOMAIN db.boxes, NEW u \in Users, NEW amt \in Nat, amt >= 1,
           CanMove(db.bal, db.boxes[t].tick1, u, BoxReserve[t], amt), NEW n \in Nat,
           NEW m, m = PaidTo(t, u, amt, n)
    PROVE  /\ Ledgered(m) /\ m \in Tables /\ Shaped(m, plain) /\ Covered(m, Lost(spoilt))
           /\ m.boxlog = db.boxlog /\ DOMAIN m.collect = DOMAIN db.collect
           /\ m.pools = db.pools /\ m.cross = db.cross
           /\ DOMAIN m.boxes = DOMAIN db.boxes
  <1> DEFINE x == db.boxes[t].tick1
             paid == TransferDrc20(db, x, u, BoxReserve[t], amt, current)
             bx == CountedAs(db.boxes, t, n)
             r == [tick |-> t, holder |-> u, amt |-> amt, at |-> current]
             sh == Append(db.shares, r)
  <1>1. /\ Clock /\ Ledgered(db) /\ Shaped(db, plain) /\ Covered(db, Lost(spoilt))
        /\ RowsSound(db, current, Lost(spoilt)) /\ Origins(db, plain) /\ db \in Tables
        /\ \A h \in DOMAIN dbAt : /\ LeadsTo(db, dbAt[h], h, plain, LostAt(h))
                                  /\ h \in Nat /\ h < current
        /\ current \in Nat
    BY InvFacts
  <1>2. /\ t \in BoxTicks /\ BoxReserve[t] \in Accounts /\ u \in Accounts
        /\ x \in Ticks /\ \A b \in BoxTicks : BoxReserve[b] \in Accounts \ {u}
        /\ \A y \in BoxTicks : y # t => BoxReserve[y] # BoxReserve[t]
    BY <1>1, TableFacts, DeployNames DEF BoxRows
  <1>3. /\ Ledgered(paid) /\ paid \in Tables /\ Shape(paid) = Shape(db)
        /\ \A y \in Ticks, a \in Accounts \ {u} : db.bal[y][a] <= paid.bal[y][a]
        /\ paid.bal[x][BoxReserve[t]] = db.bal[x][BoxReserve[t]] + amt
    BY <1>1, <1>2, TransferLedger
  <1>4. /\ DOMAIN paid.collect = DOMAIN db.collect /\ paid.boxes = db.boxes /\ paid.shares = db.shares
        /\ paid.boxlog = db.boxlog /\ paid.pools = db.pools /\ paid.cross = db.cross
    BY <1>3, ShapeFacts
  <1>5. m = [paid EXCEPT !.boxes = bx, !.shares = sh]
    BY DEF PaidTo
  <1> HIDE DEF paid, x
  <1>6. r \in ShareRows /\ r.tick = t /\ r.amt = amt /\ r.at = current
    BY <1>1, <1>2 DEF ShareRows
  <1>7. db.shares \in Seq(ShareRows) /\ sh \in Seq(ShareRows)
    BY <1>1, <1>6, TableFacts
  <1>8. /\ bx \in PartlyOn(BoxTicks, BoxRows) /\ DOMAIN bx = DOMAIN db.boxes
        /\ \A y \in DOMAIN db.boxes : bx[y].tick1 = db.boxes[y].tick1
    <2>1. db.boxes \in PartlyOn(BoxTicks, BoxRows)
      BY <1>1 DEF Tables
    <2>2. QED
      BY <2>1, CountedAsFacts
  <1> HIDE DEF r, bx, sh
  <1>9. m \in Tables
    BY <1>3, <1>5, <1>7, <1>8 DEF Tables
  <1>10. /\ m.collect = paid.collect /\ m.bal = paid.bal /\ m.log = paid.log
         /\ m.boxes = bx /\ m.shares = sh
         /\ m.boxlog = db.boxlog /\ m.pools = db.pools /\ m.cross = db.cross
    BY <1>3, <1>4, <1>5 DEF Tables
  <1>11. Ledgered(m)
    BY <1>3, <1>9, <1>10, SameLedger
  <1>12. DOMAIN m.collect = DOMAIN db.collect /\ DOMAIN m.boxes = DOMAIN db.boxes
    BY <1>4, <1>8, <1>10
  <1>13. RowsSound(m, current, Lost(spoilt))
    <2>1. ASSUME NEW k \in DOMAIN m.shares
          PROVE  /\ m.shares[k].at <= current /\ m.shares[k].amt >= 1
                 /\ m.shares[k].tick \in DOMAIN m.boxes \cup Lost(spoilt)
      <3>1. /\ DOMAIN m.shares = 1..(Len(db.shares) + 1) /\ DOMAIN db.shares = 1..Len(db.shares)
            /\ Len(db.shares) \in Nat
            /\ m.shares[Len(db.shares) + 1] = r
            /\ \A i \in 1..Len(db.shares) : m.shares[i] = db.shares[i]
        BY <1>6, <1>7, <1>10 DEF sh
      <3>2. k \in 1..Len(db.shares) \/ k = Len(db.shares) + 1
        BY <3>1
      <3>3. CASE k \in 1..Len(db.shares)
        BY <1>1, <1>12, <3>1, <3>3 DEF RowsSound
      <3>4. CASE k = Len(db.shares) + 1
        BY <1>1, <1>6, <1>12, <3>1, <3>4
      <3>5. QED
        BY <3>2, <3>3, <3>4
    <2>2. QED
      BY <1>1, <1>8, <1>10, <2>1 DEF RowsSound
  <1>14. Origins(m, plain)
    BY <1>1, <1>10, <1>12, OriginsAlike
  <1>15. ASSUME NEW h \in DOMAIN dbAt
         PROVE  LeadsTo(m, dbAt[h], h, plain, LostAt(h))
    <2>1. LeadsTo(db, dbAt[h], h, plain, LostAt(h)) /\ h \in Nat /\ r.at > h
      BY <1>1, <1>6
    <2>2. RowsUpTo(m.shares, h) = RowsUpTo(db.shares, h)
      BY <1>6, <1>7, <1>10, <2>1, AppendAbove DEF sh
    <2>3. /\ \A op : Reverted(m, op, h) = Reverted(db, op, h)
          /\ Doomed(m, h) = Doomed(db, h)
      BY <1>10 DEF Reverted, Doomed
    <2>4. \A y \in Ticks \ LostAt(h) : y \in DOMAIN dbAt[h].boxes => y \in DOMAIN db.boxes
      BY <2>1 DEF LeadsTo
    <2>5. QED
      BY <1>8, <1>10, <1>12, <2>1, <2>2, <2>3, <2>4 DEF LeadsTo
  <1>16. Covered(m, Lost(spoilt))
    <2>1. ASSUME NEW y \in DOMAIN m.boxes \ DOMAIN m.pools,
                 y \notin Lost(spoilt), m.boxes[y].tick1 \notin Lost(spoilt)
          PROVE  PaidIn(m, y) <= m.bal[m.boxes[y].tick1][BoxReserve[y]]
      <3> DEFINE w == db.boxes[y].tick1
      <3>1. /\ y \in DOMAIN db.boxes \ DOMAIN db.pools /\ m.boxes[y].tick1 = w
            /\ y \in BoxTicks /\ w \in Ticks
        BY <1>1, <1>8, <1>10, <1>12, <2>1, TableFacts DEF BoxRows
      <3>2. PaidIn(db, y) <= db.bal[w][BoxReserve[y]]
        BY <1>1, <2>1, <3>1 DEF Covered
      <3>3. PaidIn(m, y) = PaidIn(db, y) + (IF r.tick = y THEN r.amt ELSE 0)
        BY <1>1, <1>6, <1>9, <1>10, PaidInMore DEF sh
      <3>4. PaidIn(db, y) \in Nat
        BY <1>1, PaidInFacts
      <3>5. /\ db.bal[w][BoxReserve[y]] \in Nat /\ m.bal[w][BoxReserve[y]] \in Nat
            /\ db.bal[w][BoxReserve[y]] <= m.bal[w][BoxReserve[y]]
        <4>1. BoxReserve[y] \in Accounts /\ BoxReserve[y] # u
          BY <1>2, <3>1
        <4>2. db.bal[w][BoxReserve[y]] <= m.bal[w][BoxReserve[y]]
          BY <1>3, <1>10, <3>1, <4>1
        <4>3. /\ db.bal \in [Ticks -> [Accounts -> Nat]]
              /\ m.bal \in [Ticks -> [Accounts -> Nat]]
          BY <1>1, <1>9, TableFacts
        <4>4. QED
          BY <3>1, <4>1, <4>2, <4>3
      <3>6. CASE y = t
        <4>1. m.bal[w][BoxReserve[y]] = db.bal[w][BoxReserve[y]] + amt
          BY <1>3, <1>10, <3>6 DEF x
        <4>2. QED
          BY <1>6, <3>1, <3>2, <3>3, <3>4, <3>5, <3>6, <4>1
      <3>7. CASE y # t
        BY <1>6, <3>1, <3>2, <3>3, <3>4, <3>5, <3>7
      <3>8. QED
        BY <3>6, <3>7
    <2>2. QED
      BY <2>1 DEF Covered
  <1>17. Shaped(m, plain)
    BY <1>13, <1>14, <1>15 DEF Shaped
  <1>18. QED
    BY <1>9, <1>10, <1>11, <1>12, <1>16, <1>17

\* Reserves of boxes other than t get no poorer.
NotPoorerBut(s, z, t) ==
    \A x \in Ticks, b \in BoxTicks \ {t} : s.bal[x][BoxReserve[b]] <= z.bal[x][BoxReserve[b]]

\* Who pays out of the reserves of one box leaves the others covered.
LEMMA PoorerFacts ==
    ASSUME NEW s \in Tables, NEW w \in Tables, NEW z \in Tables, NEW t \in BoxTicks
    PROVE  /\ NotPoorerBut(s, s, t)
           /\ NotPoorerBut(s, w, t) /\ NotPoorerBut(w, z, t) => NotPoorerBut(s, z, t)
           /\ (\A x \in Ticks, a \in Accounts \ {BoxReserve[t]} : w.bal[x][a] <= z.bal[x][a])
                 => NotPoorerBut(w, z, t)
  <1>1. \A x \in Ticks, b \in BoxTicks : /\ s.bal[x][BoxReserve[b]] \in Nat
                                         /\ w.bal[x][BoxReserve[b]] \in Nat
                                         /\ z.bal[x][BoxReserve[b]] \in Nat
    BY TableFacts, DeployNames
  <1>2. \A b \in BoxTicks \ {t} : BoxReserve[b] \in Accounts \ {BoxReserve[t]}
    BY DeployNames
  <1>3. NotPoorerBut(s, s, t)
    BY <1>1 DEF NotPoorerBut
  <1>4. ASSUME NotPoorerBut(s, w, t), NotPoorerBut(w, z, t) PROVE NotPoorerBut(s, z, t)
    <2>1. ASSUME NEW x \in Ticks, NEW b \in BoxTicks \ {t}
          PROVE  s.bal[x][BoxReserve[b]] <= z.bal[x][BoxReserve[b]]
      <3>1. /\ s.bal[x][BoxReserve[b]] <= w.bal[x][BoxReserve[b]]
            /\ w.bal[x][BoxReserve[b]] <= z.bal[x][BoxReserve[b]]
        BY <1>4 DEF NotPoorerBut
      <3>2. QED
        BY <1>1, <3>1
    <2>2. QED
      BY <2>1 DEF NotPoorerBut
  <1>5. ASSUME \A x \in Ticks, a \in Accounts \ {BoxReserve[t]} : w.bal[x][a] <= z.bal[x][a]
        PROVE  NotPoorerBut(w, z, t)
    BY <1>2, <1>5 DEF NotPoorerBut
  <1>6. QED
    BY <1>3, <1>4, <1>5

\* What may become of s while the shares of box t are paid.
Shared(s, t) ==
    {w \in Tables : Ledgered(w) /\ Shape(w) = Shape(s) /\ NotPoorerBut(s, w, t)}

\* What ShareOut does with row r.
SharedStep(s, t, w, r) ==
    IF r.tick # t THEN w
    ELSE IF w # Stuck /\ CanMove(w.bal, t, BoxReserve[t], r.holder, Part(s, r))
    THEN TransferDrc20(w, t, BoxReserve[t], r.holder, Part(s, r), current)
    ELSE Stuck

\* Sharing out is a run of transfers from the reserves.
LEMMA ShareOutFacts ==
    ASSUME Clock, NEW s, Ledgered(s), NEW t \in DOMAIN s.boxes,
           \A k \in DOMAIN s.shares : s.shares[k].amt >= 1
    PROVE  ShareOut(s, t, current) \in Shared(s, t) \cup {Stuck}
  <1> DEFINE n == Len(s.shares)
             X == Shared(s, t) \cup {Stuck}
             step == [p \in X \X (1..n) |-> SharedStep(s, t, p[1], s.shares[p[2]])]
             d == CHOOSE d : d = [k \in 0..n |-> IF k = 0 THEN s
                                   ELSE IF s.shares[k].tick # t THEN d[k - 1]
                                   ELSE IF d[k - 1] # Stuck /\ CanMove(d[k - 1].bal, t, BoxReserve[t],
                                              s.shares[k].holder, Part(s, s.shares[k]))
                                        THEN TransferDrc20(d[k - 1], t, BoxReserve[t],
                                              s.shares[k].holder, Part(s, s.shares[k]), current)
                                   ELSE Stuck]
  <1>1. ShareOut(s, t, current) = d[n]
    BY DEF ShareOut
  <1>2. /\ s \in Tables /\ n \in Nat /\ DOMAIN s.shares = 1..n
        /\ \A k \in 1..n : s.shares[k] \in ShareRows /\ s.shares[k].amt >= 1
        /\ t \in BoxTicks /\ t \in Ticks /\ s.boxes[t].amt0 \in Nat /\ BoxReserve[t] \in Accounts
    BY TableFacts, DeployNames DEF Ledgered, BoxRows
  <1> HIDE DEF d, n
  <1>3. ASSUME NEW k \in 1..n, s.shares[k].tick = t
        PROVE  Part(s, s.shares[k]) \in Nat /\ s.shares[k].holder \in Accounts
    <2> DEFINE r == s.shares[k]
    <2>1. r \in ShareRows /\ r.amt >= 1 /\ r.amt \in Nat
      BY <1>2 DEF ShareRows
    <2>2. PaidIn(s, t) \in Nat /\ r.amt <= PaidIn(s, t)
      BY <1>2, <1>3, PaidInFacts
    <2>3. PaidIn(s, t) \in Nat \ {0}
      BY <2>1, <2>2
    <2>4. r.amt * s.boxes[t].amt0 \in Nat
      BY <1>2, <2>1
    <2>5. (r.amt * s.boxes[t].amt0) \div PaidIn(s, t) \in Nat
      BY <2>3, <2>4, DivFacts
    <2>6. QED
      BY <1>3, <2>1, <2>5, DeployNames DEF Part, ShareRows
  <1>4. ASSUME NEW w \in X, NEW k \in 1..n PROVE SharedStep(s, t, w, s.shares[k]) \in X
    <2> DEFINE r == s.shares[k]
               z == TransferDrc20(w, t, BoxReserve[t], r.holder, Part(s, r), current)
    <2>1. CASE r.tick = t /\ w # Stuck /\ CanMove(w.bal, t, BoxReserve[t], r.holder, Part(s, r))
      <3>1. w \in Tables /\ Ledgered(w) /\ Shape(w) = Shape(s) /\ NotPoorerBut(s, w, t)
        BY <2>1 DEF Shared
      <3>2. Part(s, r) \in Nat /\ r.holder \in Accounts
        BY <1>3, <2>1
      <3>3. /\ Ledgered(z) /\ z \in Tables /\ Shape(z) = Shape(w)
            /\ \A x \in Ticks, a \in Accounts \ {BoxReserve[t]} : w.bal[x][a] <= z.bal[x][a]
        BY <1>2, <2>1, <3>1, <3>2, TransferLedger
      <3>4. NotPoorerBut(s, z, t)
        BY <1>2, <3>1, <3>3, PoorerFacts
      <3>5. SharedStep(s, t, w, r) = z
        BY <2>1 DEF SharedStep
      <3> HIDE DEF z
      <3>6. QED
        BY <3>1, <3>3, <3>4, <3>5 DEF Shared
    <2>2. CASE ~(r.tick = t /\ w # Stuck /\ CanMove(w.bal, t, BoxReserve[t], r.holder, Part(s, r)))
      BY <2>2 DEF SharedStep
    <2>3. QED
      BY <2>1, <2>2
  <1>5. s \in Shared(s, t)
    BY <1>2, PoorerFacts DEF Shared
  <1>6. StepsWithin(step, X, n)
    BY <1>4 DEF StepsWithin
  <1>7. PICK f : Recursive(f, X, s, step, n)
    BY <1>2, <1>5, <1>6, RecursionTo
  <1>8. /\ f \in [0..n -> X] /\ f[0] = s
        /\ \A k \in 1..n : f[k - 1] \in X /\ f[k] = SharedStep(s, t, f[k - 1], s.shares[k])
    BY <1>7 DEF Recursive
  <1> HIDE DEF X, step
  <1>9. f = [k \in 0..n |-> IF k = 0 THEN s
                            ELSE IF s.shares[k].tick # t THEN f[k - 1]
                            ELSE IF f[k - 1] # Stuck /\ CanMove(f[k - 1].bal, t, BoxReserve[t],
                                       s.shares[k].holder, Part(s, s.shares[k]))
                                 THEN TransferDrc20(f[k - 1], t, BoxReserve[t],
                                       s.shares[k].holder, Part(s, s.shares[k]), current)
                            ELSE Stuck]
    <2>1. \A k \in 0..n : k = 0 \/ k \in 1..n
      BY <1>2
    <2>2. \A k \in 0..n : f[k] = IF k = 0 THEN s
                            ELSE IF s.shares[k].tick # t THEN f[k - 1]
                            ELSE IF f[k - 1] # Stuck /\ CanMove(f[k - 1].bal, t, BoxReserve[t],
                                       s.shares[k].holder, Part(s, s.shares[k]))
                                 THEN TransferDrc20(f[k - 1], t, BoxReserve[t],
                                       s.shares[k].holder, Part(s, s.shares[k]), current)
                            ELSE Stuck
      BY <1>2, <1>8, <2>1 DEF SharedStep
    <2>3. QED
      BY <1>8, <2>2
  <1>10. d = [k \in 0..n |-> IF k = 0 THEN s
                             ELSE IF s.shares[k].tick # t THEN d[k - 1]
                             ELSE IF d[k - 1] # Stuck /\ CanMove(d[k - 1].bal, t, BoxReserve[t],
                                        s.shares[k].holder, Part(s, s.shares[k]))
                                  THEN TransferDrc20(d[k - 1], t, BoxReserve[t],
                                        s.shares[k].holder, Part(s, s.shares[k]), current)
                             ELSE Stuck]
    BY <1>9 DEF d
  <1>11. d[0] = f[0]
    BY <1>2, <1>8, <1>10
  <1>12. \A k \in 1..n : d[k] = SharedStep(s, t, d[k - 1], s.shares[k])
    <2>1. \A k \in 1..n : k \in 0..n /\ k # 0
      BY <1>2
    <2>2. QED
      BY <1>10, <2>1 DEF SharedStep
  <1>13. GoOnAlike(d, f, n)
    BY <1>8, <1>12 DEF GoOnAlike
  <1>14. d[n] = f[n] /\ f[n] \in X
    <2>1. Alike(d, f, n)
      BY <1>2, <1>11, <1>13, SameRecursion
    <2>2. n \in 0..n
      BY <1>2
    <2>3. QED
      BY <1>8, <2>1, <2>2 DEF Alike
  <1>15. QED
    BY <1>1, <1>14 DEF X

\* The integer square root of a natural number is one.
LEMMA IsqrtNatural == ASSUME NEW n \in Nat PROVE Isqrt(n) \in Nat
  <1> DEFINE T == {r \in Nat : (r + 1) * (r + 1) > n}
  <1>1. n \in T
    OBVIOUS
  <1>2. PICK r \in T : \A k \in T : r <= k
    BY <1>1, LeastNatural
  <1>3. r \in Nat /\ (r + 1) * (r + 1) > n
    OBVIOUS
  <1>4. r * r <= n
    <2>1. CASE r = 0
      BY <2>1
    <2>2. CASE r # 0
      <3>1. r - 1 \in Nat /\ r - 1 < r /\ (r - 1) + 1 = r
        BY <1>3, <2>2
      <3>2. r - 1 \notin T
        BY <1>2, <1>3, <3>1
      <3>3. ((r - 1) + 1) * ((r - 1) + 1) <= n
        BY <3>1, <3>2
      <3>4. QED
        BY <3>1, <3>3
    <2>3. QED
      BY <2>1, <2>2
  <1>5. r \in 0..n
    <2>1. ASSUME r > n PROVE FALSE
      <3>1. r * r >= r * 1
        BY <1>3, <2>1
      <3>2. QED
        BY <1>3, <1>4, <2>1, <3>1
    <2>2. QED
      BY <1>3, <2>1
  <1>6. Isqrt(n) \in 0..n
    BY <1>3, <1>4, <1>5 DEF Isqrt
  <1>7. QED
    BY <1>6

\* A pool is made of what the reserves of box t hold.
LEMMA SwapCreateFacts ==
    ASSUME Clock, NEW s, Ledgered(s), NEW t \in DOMAIN s.boxes, s.boxes[t].tick1 # t,
           CanCreatePool(s, t), NEW z, z = SwapCreate(s, t, current)
    PROVE  /\ Ledgered(z) /\ z \in Tables /\ z # Stuck
           /\ DOMAIN z.collect = DOMAIN s.collect \cup {LP[t]}
           /\ z.boxes = s.boxes /\ z.shares = s.shares /\ z.boxlog = s.boxlog
           /\ z.pools = With(s.pools, t, current) /\ z.cross = s.cross
           /\ NotPoorerBut(s, z, t)
  <1> DEFINE box == s.boxes[t]
             x == box.tick1
             br == BoxReserve[t]
             pr == PoolReserve[t]
             lp == LP[t]
             n == FirstLiquidity(box)
             p0 == TransferDrc20(s, t, br, pr, box.amt0, current)
             p1 == TransferDrc20(p0, x, br, pr, box.finish, current)
             p2 == IF HasToken(p1, lp) THEN p1 ELSE NewToken(p1, lp)
             p3 == MintDrc20(p2, lp, br, n, current)
             p4 == MintDrc20(p3, lp, pr, MINI_LIQUIDITY, current)
  <1>1. /\ s \in Tables /\ t \in BoxTicks /\ t \in Ticks /\ lp \in Ticks
        /\ br \in Accounts /\ pr \in Accounts /\ MINI_LIQUIDITY \in Nat /\ current \in Nat
        /\ box \in BoxRows
    BY TableFacts, DeployNames DEF Ledgered, Clock
  <1>2. x \in Ticks /\ box.amt0 \in Nat /\ box.finish \in Nat /\ x # t
    BY <1>1 DEF BoxRows
  <1>3. n \in Nat
    <2>1. box.amt0 * box.finish \in Nat
      BY <1>2
    <2>2. Isqrt(box.amt0 * box.finish) \in Nat
      BY <2>1, IsqrtNatural
    <2>3. n > 0 /\ n = Isqrt(box.amt0 * box.finish) - MINI_LIQUIDITY
      BY DEF CanCreatePool, FirstLiquidity
    <2>4. QED
      BY <1>1, <2>2, <2>3
  <1>4. CanMove(s.bal, t, br, pr, box.amt0) /\ CanMove(s.bal, x, br, pr, box.finish)
    BY DEF CanCreatePool
  <1>5. z = [p4 EXCEPT !.pools = With(p4.pools, t, current)]
    BY DEF SwapCreate
  <1> HIDE DEF box, x, br, pr, lp, n
  <1>6. /\ Ledgered(p0) /\ p0 \in Tables /\ Shape(p0) = Shape(s)
        /\ \A y \in Ticks, a \in Accounts \ {br} : s.bal[y][a] <= p0.bal[y][a]
        /\ \A y \in Ticks \ {t} : p0.bal[y] = s.bal[y]
    BY <1>1, <1>2, <1>4, TransferLedger
  <1> HIDE DEF p0
  <1>7. CanMove(p0.bal, x, br, pr, box.finish)
    <2>1. p0.bal[x] = s.bal[x]
      BY <1>2, <1>6
    <2>2. QED
      BY <1>4, <2>1 DEF CanMove
  <1>8. /\ Ledgered(p1) /\ p1 \in Tables /\ Shape(p1) = Shape(p0)
        /\ \A y \in Ticks, a \in Accounts \ {br} : p0.bal[y][a] <= p1.bal[y][a]
    BY <1>1, <1>2, <1>6, <1>7, TransferLedger
  <1> HIDE DEF p1
  <1>9. /\ DOMAIN p1.collect = DOMAIN s.collect /\ p1.boxes = s.boxes /\ p1.shares = s.shares
        /\ p1.boxlog = s.boxlog /\ p1.pools = s.pools /\ p1.cross = s.cross
    BY <1>6, <1>8, ShapeFacts
  <1>10. /\ Ledgered(p2) /\ p2 \in Tables /\ p2.bal = p1.bal
         /\ DOMAIN p2.collect = DOMAIN s.collect \cup {lp} /\ p2.boxes = s.boxes
         /\ p2.shares = s.shares
         /\ p2.boxlog = s.boxlog /\ p2.pools = s.pools /\ p2.cross = s.cross
    <2>1. CASE lp \in DOMAIN p1.collect
      BY <1>8, <1>9, <2>1 DEF HasToken
    <2>2. CASE lp \notin DOMAIN p1.collect
      <3>1. p2 = NewToken(p1, lp)
        BY <2>2 DEF HasToken
      <3>2. QED
        BY <1>1, <1>8, <1>9, <2>2, <3>1, NewTokenLedger
    <2>3. QED
      BY <2>1, <2>2
  <1> HIDE DEF p2
  <1>11. /\ Ledgered(p3) /\ p3 \in Tables /\ Shape(p3) = Shape(p2)
         /\ \A y \in Ticks, a \in Accounts : p2.bal[y][a] <= p3.bal[y][a]
    <2>1. lp \in DOMAIN p2.collect
      BY <1>10
    <2>2. QED
      <3>1. Clock /\ Ledgered(p2) /\ br \in Accounts /\ n \in Nat
        BY <1>1, <1>3, <1>10
      <3> HIDE DEF p3
      <3>2. p3 = MintDrc20(p2, lp, br, n, current)
        BY DEF p3
      <3>3. QED
        BY <2>1, <3>1, <3>2, MintLedger
  <1> HIDE DEF p3
  <1>12. lp \in DOMAIN p3.collect
    BY <1>10, <1>11, ShapeFacts
  <1>13. /\ Ledgered(p4) /\ p4 \in Tables /\ Shape(p4) = Shape(p3)
         /\ \A y \in Ticks, a \in Accounts : p3.bal[y][a] <= p4.bal[y][a]
    BY <1>1, <1>11, <1>12, MintLedger
  <1> HIDE DEF p4
  <1>14. /\ DOMAIN p4.collect = DOMAIN s.collect \cup {lp} /\ p4.boxes = s.boxes
         /\ p4.shares = s.shares
         /\ p4.boxlog = s.boxlog /\ p4.pools = s.pools /\ p4.cross = s.cross
    <2>1. Shape(p4) = Shape(p2)
      BY <1>11, <1>13
    <2>2. QED
      BY <1>10, <2>1, ShapeFacts
  <1>15. With(s.pools, t, current) \in PartlyOn(BoxTicks, Nat)
    <2>1. s.pools \in PartlyOn(BoxTicks, Nat)
      BY <1>1 DEF Tables
    <2>2. QED
      BY <1>1, <2>1, WithPartly
  <1>16. /\ z \in Tables /\ z.collect = p4.collect /\ z.bal = p4.bal /\ z.log = p4.log
         /\ z.boxes = s.boxes /\ z.shares = s.shares /\ z.boxlog = s.boxlog
         /\ z.pools = With(s.pools, t, current) /\ z.cross = s.cross
    BY <1>5, <1>13, <1>14, <1>15 DEF Tables
  <1>17. Ledgered(z)
    BY <1>13, <1>16, SameLedger
  <1>18. NotPoorerBut(s, z, t)
    <2>1. /\ NotPoorerBut(s, p0, t) /\ NotPoorerBut(p0, p1, t)
      BY <1>1, <1>6, <1>8, PoorerFacts DEF br
    <2>2. /\ NotPoorerBut(p2, p3, t) /\ NotPoorerBut(p3, p4, t)
      BY <1>1, <1>10, <1>11, <1>13, PoorerFacts
    <2>3. NotPoorerBut(p1, p2, t) /\ NotPoorerBut(p4, z, t)
      <3>1. NotPoorerBut(p1, p1, t) /\ NotPoorerBut(p4, p4, t)
        BY <1>1, <1>8, <1>13, PoorerFacts
      <3>2. QED
        BY <1>10, <1>16, <3>1 DEF NotPoorerBut
    <2>4. NotPoorerBut(s, p1, t)
      BY <1>1, <1>6, <1>8, <2>1, PoorerFacts
    <2>5. NotPoorerBut(s, p2, t)
      BY <1>1, <1>8, <1>10, <2>3, <2>4, PoorerFacts
    <2>6. NotPoorerBut(s, p3, t)
      BY <1>1, <1>10, <1>11, <2>2, <2>5, PoorerFacts
    <2>7. NotPoorerBut(s, p4, t)
      BY <1>1, <1>11, <1>13, <2>2, <2>6, PoorerFacts
    <2>8. QED
      BY <1>1, <1>13, <1>16, <2>3, <2>7, PoorerFacts
  <1>19. z # Stuck
    BY <1>16, DeployNames
  <1>20. QED
    BY <1>14, <1>16, <1>17, <1>18, <1>19 DEF lp

\* The mint that finishes box t, m being the tables with the mint paid in.
LEMMA BoxFinishKeeps ==
    ASSUME DeploysInv, NEW m, Ledgered(m), Shaped(m, plain), Covered(m, Lost(spoilt)),
           m.boxlog = db.boxlog, DOMAIN m.collect = DOMAIN db.collect,
           m.pools = db.pools, m.cross = db.cross, DOMAIN m.boxes = DOMAIN db.boxes,
           NEW t \in DOMAIN m.boxes, Carry(BoxFinish(m, t, current)), UNCHANGED plain
    PROVE  DeploysInv'
  <1> DEFINE c == SwapCreate(m, t, current)
             w == ShareOut(c, t, current)
             e == [op |-> "finish", tick |-> t, at |-> current]
             z == BoxFinish(m, t, current)
             lp == LP[t]
  <1>1. /\ CanCreatePool(m, t) /\ w # Stuck /\ z = Noted(w, "finish", t, current)
        /\ db' = z /\ plain' = plain /\ UNCHANGED <<current, dbAt, left, spoilt>>
    BY DEF BoxFinish, Carry
  <1> HIDE DEF z
  <1>2. /\ Clock /\ RowsSound(m, current, Lost(spoilt)) /\ Origins(db, plain) /\ db \in Tables
        /\ \A h \in DOMAIN dbAt : /\ LeadsTo(m, dbAt[h], h, plain, LostAt(h))
                                  /\ h \in Nat /\ h < current
        /\ current \in Nat /\ m \in Tables
    BY InvFacts DEF Shaped, Ledgered
  <1>3. /\ t \in BoxTicks /\ lp \notin BoxTicks /\ lp \notin Wrapped /\ lp \in Ticks
        /\ \A x \in BoxTicks : x # t => LP[x] # lp
        /\ \A x \in BoxTicks : LP[x] \notin BoxTicks
        /\ t \in DOMAIN db.boxes /\ m.boxes[t].tick1 # t
    BY <1>2, TableFacts, DeployNames DEF RowsSound
  <1> HIDE DEF lp
  <1>4. /\ Ledgered(c) /\ c \in Tables
        /\ DOMAIN c.collect = DOMAIN db.collect \cup {lp}
        /\ c.boxes = m.boxes /\ c.shares = m.shares /\ c.boxlog = db.boxlog
        /\ c.pools = With(db.pools, t, current) /\ c.cross = db.cross
        /\ NotPoorerBut(m, c, t)
    BY <1>1, <1>2, <1>3, SwapCreateFacts DEF lp
  <1> HIDE DEF c
  <1>5. Ledgered(w) /\ w \in Tables /\ Shape(w) = Shape(c) /\ NotPoorerBut(c, w, t)
    <2>1. t \in DOMAIN c.boxes
      BY <1>4
    <2>2. \A k \in DOMAIN c.shares : c.shares[k].amt >= 1
      BY <1>2, <1>4 DEF RowsSound
    <2>3. w \in Shared(c, t) \cup {Stuck}
      BY <1>2, <1>4, <2>1, <2>2, ShareOutFacts
    <2> HIDE DEF w
    <2>4. w \in Shared(c, t)
      BY <1>1, <2>3
    <2>5. QED
      BY <2>4 DEF Shared
  <1> HIDE DEF w
  <1>6. /\ DOMAIN w.collect = DOMAIN db.collect \cup {lp}
        /\ w.boxes = m.boxes /\ w.shares = m.shares /\ w.boxlog = db.boxlog
        /\ w.pools = With(db.pools, t, current) /\ w.cross = db.cross
    BY <1>4, <1>5, ShapeFacts
  <1>7. e \in BoxLogRows /\ e.at = current /\ e.op = "finish" /\ e.tick = t
    BY <1>2, <1>3 DEF BoxLogRows
  <1>8. z = [w EXCEPT !.boxlog = Append(w.boxlog, e)]
    BY <1>1 DEF Noted
  <1> HIDE DEF e
  <1>9. Append(w.boxlog, e) \in Seq(BoxLogRows)
    <2>1. w.boxlog \in Seq(BoxLogRows)
      BY <1>5 DEF Tables
    <2>2. QED
      BY <1>7, <2>1
  <1>10. /\ z \in Tables /\ z.collect = w.collect /\ z.bal = w.bal /\ z.log = w.log
         /\ z.boxes = m.boxes /\ z.shares = m.shares
         /\ z.boxlog = Append(db.boxlog, e) /\ z.pools = w.pools
         /\ z.cross = db.cross
    BY <1>5, <1>6, <1>8, <1>9 DEF Tables
  <1>11. Ledgered(z)
    BY <1>5, <1>10, SameLedger
  <1>12. /\ DOMAIN z.pools = DOMAIN db.pools \cup {t} /\ z.pools[t] = current
         /\ \A x \in DOMAIN db.pools \ {t} : z.pools[x] = db.pools[x]
         /\ DOMAIN z.collect = DOMAIN db.collect \cup {lp}
    <2>1. DOMAIN With(db.pools, t, current) = DOMAIN db.pools \cup {t}
      BY WithDomain
    <2>2. With(db.pools, t, current)[t] = current
      BY WithThis
    <2>3. \A x \in DOMAIN db.pools \ {t} : With(db.pools, t, current)[x] = db.pools[x]
      BY WithOther
    <2>4. QED
      BY <1>6, <1>10, <2>1, <2>2, <2>3
  <1>13. t \notin DOMAIN db.pools
    BY <1>1 DEF CanCreatePool
  <1>14. /\ \A k \in DOMAIN db.boxlog : k \in DOMAIN z.boxlog /\ z.boxlog[k] = db.boxlog[k]
         /\ \A k \in DOMAIN z.boxlog \ left : z.boxlog[k].at <= current
         /\ \A op, x : "finish" # op \/ t # x => Real(z, op, x) = Real(db, op, x)
         /\ \E n : /\ z.boxlog[n].at = current
                   /\ Real(z, "finish", t) = Real(db, "finish", t) \cup {n}
         /\ \A h \in DOMAIN dbAt :
               /\ Reverted(z, "deploy", h) = Reverted(db, "deploy", h)
               /\ Reverted(z, "finish", h) = Reverted(db, "finish", h) \cup {t}
    <2>1. NewRow(z, e)
      BY <1>7, <1>10, NotedFacts
    <2>2. QED
      BY <1>7, <2>1 DEF NewRow
  <1>15. RowsSound(z, current, Lost(spoilt))
    <2>1. \A x \in DOMAIN z.pools : z.pools[x] <= current
      <3>1. \A x \in DOMAIN db.pools : db.pools[x] <= current
        BY <1>2 DEF RowsSound
      <3>2. QED
        BY <1>2, <1>12, <3>1
    <2>2. QED
      BY <1>2, <1>10, <2>1 DEF RowsSound
  <1>16. Covered(z, Lost(spoilt))
    <2>1. ASSUME NEW x \in DOMAIN z.boxes \ DOMAIN z.pools,
                 x \notin Lost(spoilt), z.boxes[x].tick1 \notin Lost(spoilt)
          PROVE  PaidIn(z, x) <= z.bal[z.boxes[x].tick1][BoxReserve[x]]
      <3> DEFINE y == m.boxes[x].tick1
      <3>1. /\ x \in BoxTicks \ {t} /\ y \in Ticks /\ BoxReserve[x] \in Accounts
            /\ x \in DOMAIN m.boxes \ DOMAIN m.pools
        BY <1>2, <1>10, <1>12, <2>1, TableFacts, DeployNames DEF BoxRows
      <3>2. /\ m.bal[y][BoxReserve[x]] \in Nat /\ c.bal[y][BoxReserve[x]] \in Nat
            /\ z.bal[y][BoxReserve[x]] \in Nat
        BY <1>2, <1>4, <1>10, <3>1, TableFacts
      <3>3. /\ m.bal[y][BoxReserve[x]] <= c.bal[y][BoxReserve[x]]
            /\ c.bal[y][BoxReserve[x]] <= z.bal[y][BoxReserve[x]]
        BY <1>4, <1>5, <1>10, <3>1 DEF NotPoorerBut
      <3>4. PaidIn(m, x) <= m.bal[y][BoxReserve[x]]
        BY <1>10, <2>1, <3>1 DEF Covered
      <3>5. PaidIn(z, x) = PaidIn(m, x) /\ PaidIn(m, x) \in Nat
        BY <1>2, <1>10, PaidInFacts DEF PaidIn
      <3>6. z.boxes[x].tick1 = y
        BY <1>10
      <3> HIDE DEF y
      <3>7. QED
        BY <3>2, <3>3, <3>4, <3>5, <3>6
    <2>2. QED
      BY <2>1 DEF Covered
  <1>17. Origins(z, plain)
    <2>1. ASSUME NEW x \in BoxTicks \ spoilt PROVE BoxOrigin(z, x, plain)
      <3>1. BoxOrigin(db, x, plain) /\ LP[x] \notin BoxTicks
        BY <1>2, <1>3, <2>1 DEF Origins
      <3>2. /\ x \in DOMAIN z.boxes <=> x \in DOMAIN db.boxes
            /\ x \in DOMAIN z.collect <=> x \in DOMAIN db.collect
        BY <1>3, <1>10, <1>12
      <3>3. Real(z, "deploy", x) = Real(db, "deploy", x)
        BY <1>14
      <3>4. \A op : \A k \in Real(db, op, x) : z.boxlog[k] = db.boxlog[k]
        BY <1>14 DEF Real
      <3>5. CASE x = t
        <4>1. Real(db, "finish", t) = {}
          BY <1>13, <3>1, <3>5 DEF BoxOrigin
        <4>2. PICK n : Real(z, "finish", t) = {n} /\ z.boxlog[n].at = current
          BY <1>14, <4>1
        <4>3. PICK j \in Real(db, "deploy", x) : TRUE
          BY <1>3, <3>1, <3>5 DEF BoxOrigin
        <4>4. z.boxlog[j].at <= current
          BY <1>2, <3>4, <4>3 DEF Origins, Real
        <4>5. LP[x] \in DOMAIN z.collect /\ x \in DOMAIN z.pools /\ z.pools[x] = current
          BY <1>12, <3>5 DEF lp
        <4>6. \A k \in Real(z, "finish", x) :
                 /\ x \in DOMAIN z.pools /\ z.pools[x] = z.boxlog[k].at
                 /\ \E i \in Real(z, "deploy", x) : z.boxlog[i].at <= z.boxlog[k].at
          BY <3>3, <3>5, <4>2, <4>3, <4>4, <4>5
        <4>7. Real(z, "finish", x) # {}
          BY <3>5, <4>2
        <4>8. QED
          BY <3>1, <3>2, <3>3, <4>5, <4>6, <4>7 DEF BoxOrigin
      <3>6. CASE x # t
        <4>1. Real(z, "finish", x) = Real(db, "finish", x)
          BY <1>14, <3>6
        <4>2. /\ x \in DOMAIN z.pools <=> x \in DOMAIN db.pools
              /\ x \in DOMAIN db.pools => z.pools[x] = db.pools[x]
              /\ LP[x] \in DOMAIN z.collect <=> LP[x] \in DOMAIN db.collect
          BY <1>3, <1>12, <2>1, <3>6
        <4>3. \A k \in Real(z, "finish", x) :
                 /\ x \in DOMAIN z.pools /\ z.pools[x] = z.boxlog[k].at
                 /\ \E i \in Real(z, "deploy", x) : z.boxlog[i].at <= z.boxlog[k].at
          BY <3>1, <3>3, <3>4, <4>1, <4>2 DEF BoxOrigin
        <4>4. QED
          BY <3>1, <3>2, <3>3, <4>1, <4>2, <4>3 DEF BoxOrigin
      <3>7. QED
        BY <3>5, <3>6
    <2>2. \A x \in Wrapped : /\ x \in DOMAIN z.collect <=> x \in DOMAIN z.cross \cup plain
                             /\ x \in DOMAIN z.cross => x \notin plain
      BY <1>2, <1>3, <1>10, <1>12 DEF Origins
    <2>3. plain \subseteq DOMAIN z.collect
      BY <1>2, <1>12 DEF Origins
    <2>4. QED
      BY <1>14, <2>1, <2>2, <2>3 DEF Origins
  <1>18. ASSUME NEW h \in DOMAIN dbAt
         PROVE  LeadsTo(z, dbAt[h], h, plain, LostAt(h))
    <2>1. LeadsTo(m, dbAt[h], h, plain, LostAt(h)) /\ ~(current <= h) /\ current > h
      BY <1>2
    <2>2. /\ Reverted(z, "deploy", h) = Reverted(m, "deploy", h)
          /\ Reverted(z, "finish", h) = Reverted(m, "finish", h) \cup {t}
      <3>1. \A op : Reverted(m, op, h) = Reverted(db, op, h)
        BY DEF Reverted
      <3>2. QED
        BY <1>14, <3>1
    <2>3. Doomed(z, h) = Doomed(m, h) \cup {lp}
      <3>1. {x \in DOMAIN z.pools : z.pools[x] > h} = {x \in DOMAIN m.pools : m.pools[x] > h} \cup {t}
        BY <1>12, <1>13, <2>1
      <3>2. QED
        BY <1>10, <2>2, <3>1 DEF Doomed, lp
    <2>4. lp \notin LostAt(h) => lp \notin DOMAIN db.collect
      <3>1. lp \notin LostAt(h) => t \notin spoilt
        BY LostFacts DEF lp
      <3>2. t \notin spoilt => BoxOrigin(db, t, plain)
        BY <1>2, <1>3 DEF Origins
      <3>3. QED
        BY <1>13, <3>1, <3>2 DEF BoxOrigin, lp
    <2>5. ASSUME NEW x \in Ticks \ LostAt(h)
          PROVE  /\ x \in DOMAIN z.collect \ Doomed(z, h) <=> x \in DOMAIN dbAt[h].collect \cup plain
                 /\ x \in DOMAIN z.boxes \ Reverted(z, "deploy", h) <=> x \in DOMAIN dbAt[h].boxes
                 /\ x \in DOMAIN dbAt[h].boxes => dbAt[h].boxes[x].tick1 = z.boxes[x].tick1
                 /\ x \in DOMAIN dbAt[h].pools <=>
                      /\ x \in DOMAIN z.pools \ Reverted(z, "finish", h)
                      /\ z.pools[x] <= h
      <3>1. /\ x \in DOMAIN m.collect \ Doomed(m, h) <=> x \in DOMAIN dbAt[h].collect \cup plain
            /\ x \in DOMAIN m.boxes \ Reverted(m, "deploy", h) <=> x \in DOMAIN dbAt[h].boxes
            /\ x \in DOMAIN dbAt[h].boxes => dbAt[h].boxes[x].tick1 = m.boxes[x].tick1
            /\ x \in DOMAIN dbAt[h].pools <=>
                      /\ x \in DOMAIN m.pools \ Reverted(m, "finish", h)
                      /\ m.pools[x] <= h
        BY <2>1, <2>5 DEF LeadsTo
      <3>2. x \in DOMAIN z.collect \ Doomed(z, h) <=> x \in DOMAIN m.collect \ Doomed(m, h)
        BY <1>12, <2>3, <2>4, <2>5
      <3>3. x \in DOMAIN z.pools \ Reverted(z, "finish", h) /\ z.pools[x] <= h
              <=> x \in DOMAIN m.pools \ Reverted(m, "finish", h) /\ m.pools[x] <= h
        BY <1>12, <1>13, <2>2
      <3>4. QED
        BY <1>10, <2>2, <3>1, <3>2, <3>3
    <2>6. QED
      BY <1>10, <2>1, <2>5 DEF LeadsTo
  <1>19. Shaped(z, plain)
    BY <1>15, <1>17, <1>18 DEF Shaped
  <1>20. QED
    BY <1>1, <1>11, <1>14, <1>16, <1>19, CarryKeeps

\* A mint into box t.
LEMMA BoxMintKeeps ==
    ASSUME DeploysInv, NEW u \in Users, NEW t \in BoxTicks, NEW amt \in Amounts,
           CanBoxMint(db, t, u, amt), Carry(BoxMint(db, t, u, amt, current)), UNCHANGED plain
    PROVE  DeploysInv'
  <1> DEFINE x == db.boxes[t].tick1
             paid == TransferDrc20(db, x, u, BoxReserve[t], amt, current)
             held == paid.bal[x][BoxReserve[t]]
             counted == db.boxes[t].finish + amt
             r == [tick |-> t, holder |-> u, amt |-> amt, at |-> current]
             next == [paid EXCEPT !.boxes[t].finish = held, !.shares = Append(@, r)]
             done == [next EXCEPT !.boxes[t].finish = counted]
             z == BoxMint(db, t, u, amt, current)
  <1>1. /\ amt \in Nat /\ amt >= 1 /\ t \in DOMAIN db.boxes
        /\ CanMove(db.bal, x, u, BoxReserve[t], amt)
        /\ Clock /\ Ledgered(db) /\ db \in Tables
        /\ u \in Accounts /\ BoxReserve[t] \in Accounts
        /\ db' = z /\ plain' = plain /\ UNCHANGED <<current, dbAt, left, spoilt>>
    BY InvFacts, DeployNames DEF CanBoxMint, Carry
  <1>2. z = IF counted >= held THEN BoxFinish(done, t, current) ELSE next
    BY DEF BoxMint
  <1> HIDE DEF z
  <1>3. db.boxes[t] \in BoxRows /\ x \in Ticks /\ counted \in Nat
    BY <1>1, TableFacts DEF BoxRows
  <1>4. /\ paid \in Tables /\ Shape(paid) = Shape(db)
    BY <1>1, <1>3, TransferLedger
  <1>5. paid.boxes = db.boxes /\ paid.shares = db.shares /\ held \in Nat
    BY <1>1, <1>3, <1>4, ShapeFacts, TableFacts
  <1>6. next = PaidTo(t, u, amt, held)
    <2>1. next = [paid EXCEPT !.boxes = CountedAs(paid.boxes, t, held), !.shares = Append(paid.shares, r)]
      <3> HIDE DEF paid, x, held, r
      <3>1. QED
        BY <1>4 DEF CountedAs, Tables
    <2>2. QED
      BY <1>5, <2>1 DEF PaidTo
  <1>7. done = PaidTo(t, u, amt, counted)
    <2>1. CountedAs(CountedAs(db.boxes, t, held), t, counted) = CountedAs(db.boxes, t, counted)
      BY <1>1, <1>3 DEF CountedAs, BoxRows
    <2>2. next.boxes = CountedAs(db.boxes, t, held) /\ next.shares = Append(db.shares, r)
      BY <1>4, <1>5 DEF CountedAs, Tables
    <2>3. done = [paid EXCEPT !.boxes = CountedAs(next.boxes, t, counted), !.shares = next.shares]
      <3> DEFINE c == CountedAs(next.boxes, t, counted)
                 b == CountedAs(paid.boxes, t, held)
                 s == Append(paid.shares, r)
      <3>1. done = [next EXCEPT !.boxes = c]
        <4> HIDE DEF next
        <4>1. QED
          BY DEF CountedAs
      <3>2. next = [paid EXCEPT !.boxes = b, !.shares = s]
        <4> HIDE DEF paid, x, held, r
        <4>1. QED
          BY <1>4 DEF CountedAs, Tables
      <3> HIDE DEF next, done, c, b, s, paid
      <3>3. QED
        BY <1>4, <3>1, <3>2 DEF Tables, c
    <2>4. QED
      BY <2>1, <2>2, <2>3 DEF PaidTo
  <1> HIDE DEF next, done, held, counted
  <1>8. CASE counted >= held
    <2>1. /\ Ledgered(done) /\ done \in Tables /\ Shaped(done, plain) /\ Covered(done, Lost(spoilt))
          /\ done.boxlog = db.boxlog /\ DOMAIN done.collect = DOMAIN db.collect
          /\ done.pools = db.pools /\ done.cross = db.cross
          /\ DOMAIN done.boxes = DOMAIN db.boxes
      BY <1>1, <1>3, <1>7, PaidToFacts
    <2>2. Carry(BoxFinish(done, t, current))
      BY <1>2, <1>8 DEF z
    <2>3. QED
      BY <1>1, <2>1, <2>2, BoxFinishKeeps
  <1>9. CASE ~(counted >= held)
    <2>1. /\ Ledgered(next) /\ Shaped(next, plain) /\ Covered(next, Lost(spoilt))
          /\ next.boxlog = db.boxlog
      BY <1>1, <1>5, <1>6, PaidToFacts
    <2>2. db' = next
      BY <1>1, <1>2, <1>9
    <2>3. QED
      BY <1>1, <2>1, <2>2, CarryKeeps
  <1>10. QED
    BY <1>8, <1>9

-----------------------------------------------------------------------------
(* A fork *)

\* Liquidity tokens of pools that were made above h.
LatePoolTokens(s, h) == {LP[t] : t \in {x \in DOMAIN s.pools : s.pools[x] > h}}

\* swapFork: the pools made above h and their tokens go, with the balances.
LEMMA SwapForkFacts ==
    ASSUME NEW s \in Tables, NEW h \in Nat, NEW z, z = swapFork(s, h)
    PROVE  /\ z \in Tables
           /\ z.boxes = s.boxes /\ z.shares = s.shares /\ z.boxlog = s.boxlog
           /\ z.cross = s.cross /\ z.log = s.log
           /\ DOMAIN z.pools = {x \in DOMAIN s.pools : s.pools[x] <= h}
           /\ \A x \in DOMAIN z.pools : z.pools[x] = s.pools[x]
           /\ DOMAIN z.collect = DOMAIN s.collect \ LatePoolTokens(s, h)
           /\ \A t \in DOMAIN z.collect : z.collect[t] = s.collect[t]
           /\ \A t \in Ticks : z.bal[t] = IF t \in LatePoolTokens(s, h) THEN [a \in Accounts |-> 0]
                                          ELSE s.bal[t]
  <1> DEFINE gone == {t \in DOMAIN s.pools : s.pools[t] > h}
             lps == LatePoolTokens(s, h)
             p == [t \in DOMAIN s.pools \ gone |-> s.pools[t]]
             c == [t \in DOMAIN s.collect \ lps |-> s.collect[t]]
             b == [t \in Ticks |-> IF t \in lps THEN [a \in Accounts |-> 0] ELSE s.bal[t]]
  <1>1. /\ DOMAIN s.collect \subseteq Ticks /\ s.collect \in [DOMAIN s.collect -> Nat]
        /\ s.bal \in [Ticks -> [Accounts -> Nat]]
        /\ DOMAIN s.pools \subseteq BoxTicks /\ s.pools \in [DOMAIN s.pools -> Nat]
    BY TableFacts
  <1>2. z = [s EXCEPT !.pools = p, !.collect = c, !.bal = b]
    BY DEF swapFork, LatePoolTokens, Tables
  <1>3. /\ p \in [DOMAIN s.pools \ gone -> Nat] /\ DOMAIN s.pools \ gone \in SUBSET BoxTicks
        /\ c \in [DOMAIN s.collect \ lps -> Nat] /\ DOMAIN s.collect \ lps \in SUBSET Ticks
    BY <1>1
  <1>4. p \in PartlyOn(BoxTicks, Nat) /\ c \in PartlyOn(Ticks, Nat)
    <2> HIDE DEF p, c
    <2>1. QED
      BY <1>3, PartlyFacts
  <1>5. b \in [Ticks -> [Accounts -> Nat]]
    BY <1>1
  <1>6. /\ DOMAIN p = {x \in DOMAIN s.pools : s.pools[x] <= h}
        /\ \A x \in DOMAIN p : p[x] = s.pools[x]
        /\ DOMAIN c = DOMAIN s.collect \ lps /\ \A t \in DOMAIN c : c[t] = s.collect[t]
        /\ \A t \in Ticks : b[t] = IF t \in lps THEN [a \in Accounts |-> 0] ELSE s.bal[t]
    <2>1. \A x \in DOMAIN s.pools : s.pools[x] > h <=> ~(s.pools[x] <= h)
      BY <1>1
    <2>2. DOMAIN s.pools \ gone = {x \in DOMAIN s.pools : s.pools[x] <= h}
      BY <2>1
    <2>3. QED
      BY <2>2
  <1> HIDE DEF p, c, b, lps
  <1>7. z \in Tables
    BY <1>2, <1>4, <1>5 DEF Tables
  <1>8. /\ z.boxes = s.boxes /\ z.shares = s.shares /\ z.boxlog = s.boxlog
        /\ z.cross = s.cross /\ z.log = s.log /\ z.pools = p /\ z.collect = c /\ z.bal = b
    BY <1>2 DEF Tables
  <1>9. QED
    BY <1>6, <1>7, <1>8 DEF lps

\* boxFork: the boxes that box_revert says were deployed go, with their tokens.
LEMMA BoxForkFacts ==
    ASSUME NEW s \in Tables, NEW h \in Nat, NEW z, z = boxFork(s, h),
           NEW rows \in Seq(ShareRows), RowsUpTo(s.shares, h) = rows
    PROVE  /\ z \in Tables
           /\ z.shares = rows /\ z.boxlog = s.boxlog
           /\ z.cross = s.cross /\ z.log = s.log /\ z.bal = s.bal
           /\ DOMAIN z.boxes = DOMAIN s.boxes \ Reverted(s, "deploy", h)
           /\ \A t \in DOMAIN z.boxes : z.boxes[t].tick1 = s.boxes[t].tick1
           /\ DOMAIN z.pools = DOMAIN s.pools \ Reverted(s, "finish", h)
           /\ \A t \in DOMAIN z.pools : z.pools[t] = s.pools[t]
           /\ DOMAIN z.collect = DOMAIN s.collect \ Reverted(s, "deploy", h)
           /\ \A t \in DOMAIN z.collect : z.collect[t] = s.collect[t]
  <1> DEFINE rd == Reverted(s, "deploy", h)
             rf == Reverted(s, "finish", h)
             x == [t \in DOMAIN s.boxes \ rd |-> Recounted(s)[t]]
             c == [t \in DOMAIN s.collect \ rd |-> s.collect[t]]
             p == [t \in DOMAIN s.pools \ rf |-> s.pools[t]]
  <1>1. /\ DOMAIN s.collect \subseteq Ticks /\ s.collect \in [DOMAIN s.collect -> Nat]
        /\ s.bal \in [Ticks -> [Accounts -> Nat]]
        /\ DOMAIN s.pools \subseteq BoxTicks /\ s.pools \in [DOMAIN s.pools -> Nat]
        /\ DOMAIN s.boxes \subseteq BoxTicks /\ s.boxes \in [DOMAIN s.boxes -> BoxRows]
    BY TableFacts
  <1>2. z = [s EXCEPT !.boxes = x, !.collect = c, !.pools = p, !.shares = rows]
    BY DEF boxFork, Tables
  <1>3. ASSUME NEW t \in DOMAIN s.boxes
        PROVE  Recounted(s)[t] \in BoxRows /\ Recounted(s)[t].tick1 = s.boxes[t].tick1
    <2> DEFINE n == s.bal[s.boxes[t].tick1][BoxReserve[t]]
    <2>1. s.boxes[t] \in BoxRows /\ BoxReserve[t] \in Accounts
      BY <1>1, DeployNames
    <2>2. s.boxes[t].tick1 \in Ticks
      BY <2>1 DEF BoxRows
    <2>3. n \in Nat
      BY <1>1, <2>1, <2>2
    <2>4. Recounted(s)[t] = [s.boxes[t] EXCEPT !.finish = n]
      BY DEF Recounted
    <2> HIDE DEF n
    <2>5. QED
      BY <2>1, <2>3, <2>4 DEF BoxRows
  <1> HIDE DEF rd, rf
  <1>4. /\ x \in [DOMAIN s.boxes \ rd -> BoxRows] /\ DOMAIN s.boxes \ rd \in SUBSET BoxTicks
        /\ c \in [DOMAIN s.collect \ rd -> Nat] /\ DOMAIN s.collect \ rd \in SUBSET Ticks
        /\ p \in [DOMAIN s.pools \ rf -> Nat] /\ DOMAIN s.pools \ rf \in SUBSET BoxTicks
    BY <1>1, <1>3
  <1>5. /\ x \in PartlyOn(BoxTicks, BoxRows) /\ c \in PartlyOn(Ticks, Nat)
        /\ p \in PartlyOn(BoxTicks, Nat)
    <2> HIDE DEF p, c, x
    <2>1. QED
      BY <1>4, PartlyFacts
  <1>6. /\ DOMAIN x = DOMAIN s.boxes \ rd /\ \A t \in DOMAIN x : x[t].tick1 = s.boxes[t].tick1
        /\ DOMAIN c = DOMAIN s.collect \ rd /\ \A t \in DOMAIN c : c[t] = s.collect[t]
        /\ DOMAIN p = DOMAIN s.pools \ rf /\ \A t \in DOMAIN p : p[t] = s.pools[t]
    BY <1>3
  <1> HIDE DEF x, c, p
  <1>7. z \in Tables
    BY <1>2, <1>5 DEF Tables
  <1>8. /\ z.boxes = x /\ z.shares = rows /\ z.boxlog = s.boxlog
        /\ z.cross = s.cross /\ z.log = s.log /\ z.pools = p /\ z.collect = c /\ z.bal = s.bal
    BY <1>2 DEF Tables
  <1>9. QED
    BY <1>6, <1>7, <1>8 DEF rd, rf

\* crossFork: the wrapped tokens deployed above h go.
LEMMA CrossForkFacts ==
    ASSUME NEW s \in Tables, NEW h \in Nat, NEW z, z = KeepLog(crossFork(s, h), h),
           NEW rows \in Seq(LogRows), RowsUpTo(s.log, h) = rows
    PROVE  /\ z \in Tables
           /\ z.shares = s.shares /\ z.boxlog = s.boxlog
           /\ z.boxes = s.boxes /\ z.log = rows /\ z.bal = s.bal /\ z.pools = s.pools
           /\ z.cross = [t \in {x \in DOMAIN s.cross : s.cross[x].at <= h} |-> s.cross[t]]
           /\ DOMAIN z.collect = DOMAIN s.collect \ {t \in DOMAIN s.cross : s.cross[t].at > h}
           /\ \A t \in DOMAIN z.collect : z.collect[t] = s.collect[t]
  <1> DEFINE gone == {t \in DOMAIN s.cross : s.cross[t].at > h}
             stay == {x \in DOMAIN s.cross : s.cross[x].at <= h}
             r == [t \in DOMAIN s.cross \ gone |-> s.cross[t]]
             c == [t \in DOMAIN s.collect \ gone |-> s.collect[t]]
  <1>1. /\ DOMAIN s.collect \subseteq Ticks /\ s.collect \in [DOMAIN s.collect -> Nat]
        /\ DOMAIN s.cross \subseteq Wrapped /\ s.cross \in [DOMAIN s.cross -> CrossRows]
    BY TableFacts
  <1>2. z = [s EXCEPT !.cross = r, !.collect = c, !.log = rows]
    BY DEF crossFork, KeepLog, Tables
  <1>3. DOMAIN s.cross \ gone = stay
    <2>1. \A x \in DOMAIN s.cross : s.cross[x].at > h <=> ~(s.cross[x].at <= h)
      BY <1>1 DEF CrossRows
    <2>2. QED
      BY <2>1
  <1> HIDE DEF gone
  <1>4. /\ r \in [stay -> CrossRows] /\ stay \in SUBSET Wrapped
        /\ c \in [DOMAIN s.collect \ gone -> Nat] /\ DOMAIN s.collect \ gone \in SUBSET Ticks
    BY <1>1, <1>3
  <1>5. r \in PartlyOn(Wrapped, CrossRows) /\ c \in PartlyOn(Ticks, Nat)
    <2> HIDE DEF r, c, stay
    <2>1. QED
      BY <1>4, PartlyFacts
  <1>6. /\ DOMAIN c = DOMAIN s.collect \ gone /\ \A t \in DOMAIN c : c[t] = s.collect[t]
        /\ r = [t \in stay |-> s.cross[t]]
    BY <1>3
  <1> HIDE DEF r, c, stay
  <1>7. z \in Tables
    BY <1>2, <1>5 DEF Tables
  <1>8. /\ z.boxes = s.boxes /\ z.shares = s.shares /\ z.boxlog = s.boxlog
        /\ z.cross = r /\ z.log = rows /\ z.pools = s.pools /\ z.collect = c /\ z.bal = s.bal
    BY <1>2 DEF Tables
  <1>9. QED
    BY <1>6, <1>7, <1>8 DEF gone, stay

\* What a fork to h makes of the tables.
LeftOf(z, h) ==
    /\ z.shares = dbAt[h].shares /\ z.log = dbAt[h].log /\ z.cross = dbAt[h].cross
    /\ z.boxlog = db.boxlog
    /\ DOMAIN z.boxes = DOMAIN db.boxes \ Reverted(db, "deploy", h)
    /\ \A t \in DOMAIN z.boxes : z.boxes[t].tick1 = db.boxes[t].tick1
    /\ DOMAIN z.pools = {x \in DOMAIN db.pools : db.pools[x] <= h} \ Reverted(db, "finish", h)
    /\ \A t \in DOMAIN z.pools : z.pools[t] = db.pools[t]
    /\ DOMAIN z.collect = DOMAIN db.collect \ Doomed(db, h)
    /\ \A t \in Ticks \ LostAt(h) :
          /\ z.bal[t] = dbAt[h].bal[t]
          /\ t \in DOMAIN z.collect => z.collect[t] = Supply(z.bal, t)

\* The journal's rows can be undone as far as nothing is lost.
LEMMA GoingFromHere ==
    ASSUME DeploysInv, NEW h \in DOMAIN dbAt
    PROVE  /\ drc20Fork(db, h) # Stuck
                => Going(drc20Fork(db, h), db, Lost(spoilt), Len(dbAt[h].log))
           /\ AllThere(db, Lost(spoilt)) => drc20Fork(db, h) # Stuck
           /\ h \in Nat /\ Len(dbAt[h].log) \in 0..Len(db.log)
  <1> DEFINE n == Len(db.log)
             cut == Len(dbAt[h].log)
  <1>1. /\ db \in Tables /\ h \in Nat /\ dbAt[h] \in Tables /\ Ledgered(db)
    BY InvFacts
  <1>2. /\ db.log \in Seq(LogRows) /\ dbAt[h].log \in Seq(LogRows)
        /\ RowsUpTo(db.log, h) = dbAt[h].log
    BY <1>1, TableFacts DEF Ledgered
  <1>3. /\ cut \in 0..n /\ n \in Nat
        /\ \A k \in 1..n : k \notin RowsAbove(db.log, h) <=> k <= cut
    BY <1>2, CutFacts
  <1>4. DOMAIN db.log = 1..n /\ \A k \in 1..n : db.log[k] \in LogRows /\ db.log[k].at \in Nat
    <2>1. DOMAIN db.log = 1..n /\ \A k \in 1..n : db.log[k] \in LogRows
      BY <1>2
    <2>2. \A r \in LogRows : r.at \in Nat
      BY DEF LogRows
    <2>3. QED
      BY <2>1, <2>2
  <1>5. \A k \in 1..n : db.log[k].at <= h <=> k <= cut
    BY <1>1, <1>3, <1>4 DEF RowsAbove
  <1>6. \A k \in 1..n : Meant(db.log[k])
    BY <1>1, <1>4 DEF Ledgered, LogSound
  <1>7. Going(db, db, Lost(spoilt), n)
    BY <1>1 DEF Going, Ledgered, LedgerSound, TraceOf
  <1>8. QED
    BY <1>1, <1>3, <1>5, <1>6, <1>7, UndoneFacts

\* What the four undos do between them.
LEMMA ForkedFacts ==
    ASSUME DeploysInv, NEW h \in DOMAIN dbAt, Forked(h) # Stuck
    PROVE  Forked(h) \in Tables /\ LeftOf(Forked(h), h)
  <1> DEFINE was == dbAt[h]
             u == drc20Fork(db, h)
             v == swapFork(u, h)
             w == boxFork(v, h)
             z == KeepLog(crossFork(w, h), h)
             lps == LatePoolTokens(db, h)
             late == {t \in DOMAIN db.cross : db.cross[t].at > h}
  <1>1. /\ db \in Tables /\ h \in Nat /\ was \in Tables /\ Ledgered(db)
        /\ LeadsTo(db, was, h, plain, LostAt(h)) /\ LedgerSound(was, LostAt(h))
    BY InvFacts DEF DeploysInv, PastSound
  <1>2. u # Stuck /\ Forked(h) = z
    BY DEF Forked
  <1>3. Going(u, db, Lost(spoilt), Len(was.log))
    BY <1>2, GoingFromHere
  <1> HIDE DEF u
  <1>4. u \in Tables /\ Others(u) = Others(db) /\ DOMAIN u.collect = DOMAIN db.collect
    BY <1>3 DEF Going
  <1>5. /\ u.log = db.log /\ u.boxes = db.boxes /\ u.shares = db.shares
        /\ u.boxlog = db.boxlog /\ u.pools = db.pools /\ u.cross = db.cross
    BY <1>4, OthersFacts
  <1>6. /\ RowsUpTo(db.shares, h) = was.shares /\ was.shares \in Seq(ShareRows)
        /\ RowsUpTo(db.log, h) = was.log /\ was.log \in Seq(LogRows)
        /\ [t \in {x \in DOMAIN db.cross : db.cross[x].at <= h} |-> db.cross[t]] = was.cross
    BY <1>1, TableFacts DEF LeadsTo, Ledgered
  <1>7. LatePoolTokens(u, h) = lps
    BY <1>5 DEF LatePoolTokens
  <1> HIDE DEF v
  <1>8. /\ v \in Tables
        /\ v.boxes = db.boxes /\ v.shares = db.shares /\ v.boxlog = db.boxlog
        /\ v.cross = db.cross /\ v.log = db.log
        /\ DOMAIN v.pools = {x \in DOMAIN db.pools : db.pools[x] <= h}
        /\ \A x \in DOMAIN v.pools : v.pools[x] = db.pools[x]
        /\ DOMAIN v.collect = DOMAIN db.collect \ lps
        /\ \A t \in DOMAIN v.collect : v.collect[t] = u.collect[t]
        /\ \A t \in Ticks : v.bal[t] = IF t \in lps THEN [a \in Accounts |-> 0] ELSE u.bal[t]
    <2>1. v = swapFork(u, h)
      BY DEF v
    <2> HIDE DEF lps
    <2>2. QED
      BY <1>1, <1>4, <1>5, <1>7, <2>1, SwapForkFacts
  <1>9. \A op : Reverted(v, op, h) = Reverted(db, op, h)
    BY <1>8 DEF Reverted
  <1> HIDE DEF w
  <1>10. /\ w \in Tables
         /\ w.shares = was.shares /\ w.boxlog = db.boxlog
         /\ w.cross = db.cross /\ w.log = db.log /\ w.bal = v.bal
         /\ DOMAIN w.boxes = DOMAIN db.boxes \ Reverted(db, "deploy", h)
         /\ \A t \in DOMAIN w.boxes : w.boxes[t].tick1 = db.boxes[t].tick1
         /\ DOMAIN w.pools = DOMAIN v.pools \ Reverted(db, "finish", h)
         /\ \A t \in DOMAIN w.pools : w.pools[t] = v.pools[t]
         /\ DOMAIN w.collect = DOMAIN v.collect \ Reverted(db, "deploy", h)
         /\ \A t \in DOMAIN w.collect : w.collect[t] = v.collect[t]
    <2>1. w = boxFork(v, h) /\ RowsUpTo(v.shares, h) = was.shares
      BY <1>6, <1>8 DEF w
    <2>2. QED
      BY <1>1, <1>6, <1>8, <1>9, <2>1, BoxForkFacts
  <1> HIDE DEF z
  <1>11. /\ z \in Tables
         /\ z.shares = was.shares /\ z.boxlog = db.boxlog
         /\ z.boxes = w.boxes /\ z.log = was.log /\ z.bal = v.bal /\ z.pools = w.pools
         /\ z.cross = was.cross
         /\ DOMAIN z.collect = DOMAIN w.collect \ late
         /\ \A t \in DOMAIN z.collect : z.collect[t] = w.collect[t]
    <2>1. z = KeepLog(crossFork(w, h), h) /\ RowsUpTo(w.log, h) = was.log
      BY <1>6, <1>10 DEF z
    <2>2. QED
      BY <1>1, <1>6, <1>10, <2>1, CrossForkFacts
  <1>12. DOMAIN z.collect = DOMAIN db.collect \ Doomed(db, h)
    BY <1>8, <1>10, <1>11 DEF Doomed, LatePoolTokens
  <1>13. \A t \in DOMAIN z.collect : z.collect[t] = u.collect[t]
    BY <1>8, <1>10, <1>11
  <1>14. ASSUME NEW t \in Ticks \ LostAt(h)
         PROVE  /\ z.bal[t] = was.bal[t]
                /\ t \in DOMAIN z.collect => z.collect[t] = Supply(z.bal, t)
    <2>1. t \notin Lost(spoilt)
      BY <1>14, LostFacts
    <2>2. PICK tr : TraceOf(tr, db, t) /\ tr[Len(was.log)] = was.bal[t]
      BY <1>1, <1>14, <2>1 DEF Ledgered, Traced
    <2>3. u.bal[t] = was.bal[t]
      BY <1>3, <1>14, <2>1, <2>2 DEF Going
    <2>4. t \in DOMAIN db.collect => u.collect[t] = SumFunction(u.bal[t])
      BY <1>3, <1>4, <1>14, <2>1 DEF Going, Supply
    <2>5. CASE t \in lps
      <3>1. t \in Doomed(db, h)
        BY <2>5 DEF Doomed, LatePoolTokens
      <3>2. t \notin DOMAIN was.collect
        BY <1>1, <1>14, <3>1 DEF LeadsTo
      <3>3. was.bal[t] = [a \in Accounts |-> 0]
        BY <1>1, <1>14, <3>2 DEF LedgerSound
      <3>4. QED
        BY <1>8, <1>11, <1>12, <1>14, <2>5, <3>1, <3>3
    <2>6. CASE t \notin lps
      BY <1>8, <1>11, <1>12, <1>13, <1>14, <2>3, <2>4, <2>6 DEF Supply
    <2>7. QED
      BY <2>5, <2>6
  <1>15. LeftOf(z, h)
    <2>1. /\ DOMAIN z.boxes = DOMAIN db.boxes \ Reverted(db, "deploy", h)
          /\ \A t \in DOMAIN z.boxes : z.boxes[t].tick1 = db.boxes[t].tick1
          /\ DOMAIN z.pools = {x \in DOMAIN db.pools : db.pools[x] <= h} \ Reverted(db, "finish", h)
          /\ \A t \in DOMAIN z.pools : z.pools[t] = db.pools[t]
      BY <1>8, <1>10, <1>11
    <2>2. QED
      BY <1>11, <1>12, <1>14, <2>1 DEF LeftOf
  <1>16. QED
    BY <1>2, <1>11, <1>15

\* The context after a fork to h: what is lost for a block below stays so, and
\* so are the ticks of the rows that the fork obeyed.
LEMMA ForkFacts ==
    ASSUME DeploysInv, NEW h \in DOMAIN dbAt, Fork(h)
    PROVE  /\ db' \in Tables /\ LeftOf(db', h) /\ current' = h
           /\ DOMAIN dbAt' = 0..(h - 1)
           /\ \A g \in DOMAIN dbAt' : g \in DOMAIN dbAt /\ g \in Nat /\ g < h /\ dbAt'[g] = dbAt[g]
           /\ left' = left \cup RowsAbove(db.boxlog, h)
           /\ plain' = plain \cap DOMAIN db'.collect
           /\ spoilt' = spoilt \cup Stale(h)
           /\ Lost(spoilt)' = LostAt(h)
           /\ \A g \in DOMAIN dbAt' :
                 /\ LostAt(g) \subseteq LostAt(g)' /\ LostAt(h) \subseteq LostAt(g)'
                 /\ \A op : \A t \in Reverted(db, op, h) : t \in LostAt(g)' /\ LP[t] \in LostAt(g)'
           /\ Clock'
  <1>1. /\ db' = Forked(h) /\ Forked(h) # Stuck /\ current' = h
        /\ dbAt' = [g \in 0..(h - 1) |-> dbAt[g]]
        /\ spoilt' = spoilt \cup Stale(h) /\ left' = left \cup RowsAbove(db.boxlog, h)
        /\ plain' = plain \cap DOMAIN db'.collect
    BY DEF Fork
  <1>2. /\ db \in Tables /\ current \in Nat /\ h \in Nat /\ h < current
        /\ left \subseteq DOMAIN db.boxlog /\ spoilt \subseteq BoxTicks
        /\ DOMAIN dbAt = 0..(current - 1) /\ \A g \in DOMAIN dbAt : dbAt[g] \in Tables
    BY InvFacts
  <1>3. db' \in Tables /\ LeftOf(db', h)
    BY <1>1, ForkedFacts
  <1>4. DOMAIN dbAt' = 0..(h - 1)
    BY <1>1
  <1>5. ASSUME NEW g \in 0..(h - 1)
        PROVE  g \in DOMAIN dbAt /\ g \in Nat /\ g < h /\ dbAt'[g] = dbAt[g]
    <2>1. g \in 0..(current - 1)
      BY <1>2
    <2>2. QED
      BY <1>1, <1>2, <2>1
  <1>6. Lost(spoilt)' = LostAt(h)
    BY <1>1 DEF LostAt, Lost
  <1>7. db'.boxlog = db.boxlog
    BY <1>3 DEF LeftOf
  <1>8. db.boxlog \in Seq(BoxLogRows)
    BY <1>2, TableFacts
  <1>9. \A k \in DOMAIN db.boxlog : db.boxlog[k] \in BoxLogRows
    BY <1>8
  <1>10. \A k \in DOMAIN db.boxlog : db.boxlog[k].at \in Nat /\ db.boxlog[k].tick \in BoxTicks
    BY <1>9 DEF BoxLogRows
  <1>11. ASSUME NEW g \in 0..(h - 1)
         PROVE  /\ LostAt(g) \subseteq LostAt(g)' /\ LostAt(h) \subseteq LostAt(g)'
                /\ \A op : \A t \in Reverted(db, op, h) : t \in LostAt(g)' /\ LP[t] \in LostAt(g)'
    <2>1. g \in Nat /\ g < h
      BY <1>5
    <2>2. RowsAbove(db.boxlog, h) \subseteq RowsAbove(db.boxlog, g)
      BY <1>2, <1>10, <2>1 DEF RowsAbove
    <2>3. Stale(g)' = {db.boxlog[k].tick : k \in RowsAbove(db.boxlog, g)
                                                \cap (left \cup RowsAbove(db.boxlog, h))}
      BY <1>1, <1>7 DEF Stale
    <2>4. Stale(g) \subseteq Stale(g)'
      BY <2>3 DEF Stale
    <2>5. \A op : Reverted(db, op, h) \subseteq Stale(g)'
      BY <2>2, <2>3 DEF Reverted
    <2>6. LostAt(g)' = Lost(spoilt \cup Stale(h) \cup Stale(g)')
      BY <1>1 DEF LostAt, Lost
    <2>7. QED
      BY <2>4, <2>5, <2>6 DEF LostAt, Lost
  <1>12. Clock'
    <2>1. h \in Nat /\ dbAt' \in [0..(h - 1) -> Tables]
      <3>1. \A g \in 0..(h - 1) : dbAt[g] \in Tables
        BY <1>2, <1>5
      <3>2. QED
        BY <1>1, <1>2, <3>1
    <2>2. left' \subseteq DOMAIN db.boxlog
      BY <1>1, <1>2 DEF RowsAbove
    <2>3. spoilt' \subseteq BoxTicks
      <3>1. Stale(h) \subseteq BoxTicks
        BY <1>10 DEF Stale, RowsAbove
      <3>2. QED
        BY <1>1, <1>2, <3>1
    <2>4. QED
      BY <1>1, <1>7, <2>1, <2>2, <2>3 DEF Clock
  <1>13. QED
    BY <1>1, <1>3, <1>4, <1>5, <1>6, <1>11, <1>12

\* Rows up to g of the rows up to h, when g is below h.
LEMMA RowsUpToTwice ==
    ASSUME NEW rows, NEW g \in Nat, NEW h \in Nat, g < h,
           \A k \in DOMAIN rows : rows[k].at \in Nat
    PROVE  RowsUpTo(RowsUpTo(rows, h), g) = RowsUpTo(rows, g)
  <1> DEFINE z == RowsUpTo(rows, h)
  <1>1. /\ DOMAIN z = DOMAIN rows \ RowsAbove(rows, h)
        /\ \A k \in DOMAIN z : z[k] = rows[k]
    BY DEF RowsUpTo
  <1> HIDE DEF z
  <1>2. DOMAIN z \ RowsAbove(z, g) = DOMAIN rows \ RowsAbove(rows, g)
    BY <1>1 DEF RowsAbove
  <1>3. \A k \in DOMAIN z \ RowsAbove(z, g) : z[k] = rows[k]
    BY <1>1
  <1>4. RowsUpTo(z, g) = RowsUpTo(rows, g)
    BY <1>2, <1>3 DEF RowsUpTo
  <1>5. QED
    BY <1>4 DEF z

\* The blocks below h, seen from the tables of block h.
LEMMA ForkPast ==
    ASSUME DeploysInv, NEW h \in DOMAIN dbAt, Fork(h)
    PROVE  PastSound'
  <1>1. /\ DOMAIN dbAt' = 0..(h - 1)
        /\ \A g \in DOMAIN dbAt' : g \in DOMAIN dbAt /\ dbAt'[g] = dbAt[g]
        /\ \A g \in DOMAIN dbAt' : LostAt(g) \subseteq LostAt(g)'
    BY ForkFacts
  <1>2. PastSound
    BY DEF DeploysInv
  <1>3. ASSUME NEW g \in DOMAIN dbAt'
        PROVE  /\ LogSound(dbAt[g], g) /\ LedgerSound(dbAt[g], LostAt(g)')
               /\ RowsSound(dbAt[g], g, LostAt(g)') /\ Covered(dbAt[g], LostAt(g)')
    <2>1. /\ LogSound(dbAt[g], g) /\ LedgerSound(dbAt[g], LostAt(g))
          /\ RowsSound(dbAt[g], g, LostAt(g)) /\ Covered(dbAt[g], LostAt(g))
      BY <1>1, <1>2 DEF PastSound
    <2>2. QED
      BY <1>1, <2>1, MoreLost
  <1>4. QED
    BY <1>1, <1>3 DEF PastSound

\* A fork keeps the ledger: the traces end where the journal is cut.
LEMMA ForkLedger ==
    ASSUME DeploysInv, NEW h \in DOMAIN dbAt, Fork(h)
    PROVE  Ledgered(db)'
  <1> DEFINE was == dbAt[h]
             z == db'
             lost == LostAt(h)
             cut == Len(was.log)
  <1>1. /\ z \in Tables /\ LeftOf(z, h) /\ current' = h
        /\ DOMAIN dbAt' = 0..(h - 1)
        /\ \A g \in DOMAIN dbAt' : g \in DOMAIN dbAt /\ g \in Nat /\ g < h /\ dbAt'[g] = dbAt[g]
        /\ Lost(spoilt)' = lost
        /\ \A g \in DOMAIN dbAt' : LostAt(g) \subseteq LostAt(g)' /\ lost \subseteq LostAt(g)'
    BY ForkFacts
  <1>2. /\ db \in Tables /\ was \in Tables /\ h \in Nat /\ Ledgered(db)
        /\ LeadsTo(db, was, h, plain, lost)
        /\ LogSound(was, h) /\ LedgerSound(was, lost)
        /\ \A g \in DOMAIN dbAt : dbAt[g] \in Tables
    BY InvFacts DEF DeploysInv, PastSound
  <1> HIDE DEF z
  <1>3. /\ z.log = was.log /\ DOMAIN z.collect = DOMAIN db.collect \ Doomed(db, h)
        /\ \A t \in Ticks \ lost :
              /\ z.bal[t] = was.bal[t]
              /\ t \in DOMAIN z.collect => z.collect[t] = Supply(z.bal, t)
    BY <1>1 DEF LeftOf
  <1>4. /\ db.log \in Seq(LogRows) /\ was.log \in Seq(LogRows) /\ RowsUpTo(db.log, h) = was.log
    BY <1>2, TableFacts DEF Ledgered
  <1>5. \A k \in DOMAIN db.log : db.log[k] \in LogRows
    BY <1>4
  <1>6. \A k \in DOMAIN db.log : db.log[k].at \in Nat
    BY <1>5 DEF LogRows
  <1>7. LogSound(z, h)
    BY <1>2, <1>3 DEF LogSound
  <1>8. \A t \in Ticks \ lost : t \in DOMAIN was.collect => t \in DOMAIN z.collect
    BY <1>2, <1>3 DEF LeadsTo
  <1>9. LedgerSound(z, lost)
    <2>1. ASSUME NEW t \in Ticks \ lost
          PROVE  IF t \in DOMAIN z.collect THEN z.collect[t] = Supply(z.bal, t)
                 ELSE z.bal[t] = [a \in Accounts |-> 0]
      <3>1. t \notin DOMAIN z.collect => was.bal[t] = [a \in Accounts |-> 0]
        BY <1>2, <1>8, <2>1 DEF LedgerSound
      <3>2. QED
        BY <1>3, <2>1, <3>1
    <2>2. ASSUME NEW k \in DOMAIN z.log, Nobody \in {z.log[k].from, z.log[k].to}
          PROVE  z.log[k].tick \in DOMAIN z.collect \cup lost
      <3>1. was.log[k].tick \in DOMAIN was.collect \cup lost
        BY <1>2, <1>3, <2>2 DEF LedgerSound
      <3>2. DOMAIN was.collect \subseteq Ticks
        BY <1>2, TableFacts
      <3>3. QED
        BY <1>3, <1>8, <3>1, <3>2
    <2>3. QED
      BY <2>1, <2>2 DEF LedgerSound
  <1>10. ASSUME NEW g \in DOMAIN dbAt' PROVE RowsUpTo(z.log, g) = dbAt[g].log
    <2>1. g \in Nat /\ g < h /\ g \in DOMAIN dbAt
      BY <1>1
    <2>2. RowsUpTo(RowsUpTo(db.log, h), g) = RowsUpTo(db.log, g)
      BY <1>2, <1>6, <2>1, RowsUpToTwice
    <2>3. QED
      BY <1>2, <1>3, <1>4, <2>1, <2>2 DEF Ledgered
  <1>11. /\ cut \in 0..Len(db.log) /\ cut \in Nat /\ Len(db.log) \in Nat
         /\ \A k \in 1..cut : k \in 1..Len(db.log) /\ was.log[k] = db.log[k]
    BY <1>4, CutFacts
  <1>12. ASSUME NEW t \in Ticks \ lost
         PROVE  \E tr : /\ TraceOf(tr, z, t)
                        /\ \A g \in DOMAIN dbAt' : t \notin LostAt(g)' =>
                              tr[Len(dbAt[g].log)] = dbAt[g].bal[t]
    <2>1. t \notin Lost(spoilt)
      BY <1>12, LostFacts
    <2>2. PICK tr : /\ TraceOf(tr, db, t)
                    /\ \A g \in DOMAIN dbAt : t \notin LostAt(g) =>
                          tr[Len(dbAt[g].log)] = dbAt[g].bal[t]
      BY <1>2, <1>12, <2>1 DEF Ledgered, Traced
    <2>3. /\ tr \in [0..Len(db.log) -> Purses]
          /\ \A k \in 1..Len(db.log) :
                IF db.log[k].tick = t
                THEN Undoable(tr[k], db.log[k]) /\ tr[k - 1] = Back(tr[k], db.log[k])
                ELSE tr[k - 1] = tr[k]
          /\ tr[cut] = was.bal[t]
      BY <1>12, <2>2 DEF TraceOf
    <2> DEFINE tr2 == [k \in 0..cut |-> tr[k]]
    <2>4. \A k \in 0..cut : k \in 0..Len(db.log)
      BY <1>11
    <2>5. tr2 \in [0..cut -> Purses] /\ \A k \in 0..cut : tr2[k] = tr[k]
      BY <2>3, <2>4
    <2> HIDE DEF tr2, cut
    <2>6. TraceOf(tr2, z, t)
      <3>1. ASSUME NEW k \in 1..cut
            PROVE  IF z.log[k].tick = t
                   THEN Undoable(tr2[k], z.log[k]) /\ tr2[k - 1] = Back(tr2[k], z.log[k])
                   ELSE tr2[k - 1] = tr2[k]
        <4>1. k \in 0..cut /\ k - 1 \in 0..cut
          BY <1>11
        <4>2. tr2[k] = tr[k] /\ tr2[k - 1] = tr[k - 1] /\ z.log[k] = db.log[k] /\ k \in 1..Len(db.log)
          BY <1>3, <1>11, <2>5, <4>1
        <4>3. QED
          BY <2>3, <4>2
      <3>2. tr2[cut] = z.bal[t]
        <4>1. cut \in 0..cut
          BY <1>11
        <4>2. QED
          BY <1>3, <1>12, <2>3, <2>5, <4>1
      <3>3. Len(z.log) = cut
        BY <1>3 DEF cut
      <3>4. QED
        BY <2>5, <3>1, <3>2, <3>3 DEF TraceOf
    <2>7. ASSUME NEW g \in DOMAIN dbAt', t \notin LostAt(g)'
          PROVE  tr2[Len(dbAt[g].log)] = dbAt[g].bal[t]
      <3>1. g \in DOMAIN dbAt /\ t \notin LostAt(g)
        BY <1>1, <2>7
      <3>2. tr[Len(dbAt[g].log)] = dbAt[g].bal[t]
        BY <2>2, <3>1
      <3>3. dbAt[g].log \in Seq(LogRows)
        BY <1>2, <3>1, TableFacts
      <3>4. RowsUpTo(was.log, g) = dbAt[g].log
        BY <1>3, <1>10
      <3>5. Len(dbAt[g].log) \in 0..cut
        BY <1>4, <3>3, <3>4, CutFacts DEF cut
      <3>6. QED
        BY <2>5, <3>2, <3>5
    <2>8. QED
      BY <2>6, <2>7
  <1>13. Traced(db)'
    BY <1>1, <1>12 DEF Traced, z
  <1>14. QED
    BY <1>1, <1>7, <1>9, <1>10, <1>13 DEF Ledgered, z

\* A fork keeps the other rows.
LEMMA ForkRows ==
    ASSUME DeploysInv, NEW h \in DOMAIN dbAt, Fork(h)
    PROVE  RowsSound(db', h, LostAt(h)) /\ Covered(db', LostAt(h))
  <1> DEFINE was == dbAt[h]
             z == db'
             lost == LostAt(h)
  <1>1. z \in Tables /\ LeftOf(z, h)
    BY ForkFacts
  <1>2. /\ db \in Tables /\ was \in Tables /\ h \in Nat
        /\ LeadsTo(db, was, h, plain, lost)
        /\ RowsSound(db, current, Lost(spoilt))
        /\ RowsSound(was, h, lost) /\ Covered(was, lost)
    BY InvFacts DEF DeploysInv, PastSound
  <1> HIDE DEF z
  <1>3. /\ z.shares = was.shares /\ z.cross = was.cross
        /\ DOMAIN z.boxes = DOMAIN db.boxes \ Reverted(db, "deploy", h)
        /\ \A t \in DOMAIN z.boxes : z.boxes[t].tick1 = db.boxes[t].tick1
        /\ DOMAIN z.pools = {x \in DOMAIN db.pools : db.pools[x] <= h} \ Reverted(db, "finish", h)
        /\ \A t \in DOMAIN z.pools : z.pools[t] = db.pools[t]
        /\ \A t \in Ticks \ lost : z.bal[t] = was.bal[t]
    BY <1>1 DEF LeftOf
  <1>4. DOMAIN was.boxes \subseteq Ticks /\ DOMAIN z.boxes \subseteq Ticks
    BY <1>1, <1>2, TableFacts, DeployNames
  <1>5. RowsSound(z, h, lost)
    <2>1. ASSUME NEW k \in DOMAIN z.shares
          PROVE  /\ z.shares[k].at <= h /\ z.shares[k].amt >= 1
                 /\ z.shares[k].tick \in DOMAIN z.boxes \cup lost
      <3>1. /\ z.shares[k].at <= h /\ z.shares[k].amt >= 1
            /\ z.shares[k].tick \in DOMAIN was.boxes \cup lost
        BY <1>2, <1>3, <2>1 DEF RowsSound
      <3>2. \A t \in DOMAIN was.boxes \ lost : t \in DOMAIN z.boxes
        BY <1>2, <1>3, <1>4 DEF LeadsTo
      <3>3. QED
        BY <3>1, <3>2
    <2>2. \A t \in DOMAIN z.boxes : z.boxes[t].tick1 # t
      BY <1>2, <1>3 DEF RowsSound
    <2>3. /\ \A t \in DOMAIN z.pools : z.pools[t] <= h
          /\ \A t \in DOMAIN z.cross : z.cross[t].at <= h
      BY <1>2, <1>3 DEF RowsSound
    <2>4. QED
      BY <2>1, <2>2, <2>3 DEF RowsSound
  <1>6. Covered(z, lost)
    <2>1. ASSUME NEW t \in DOMAIN z.boxes \ DOMAIN z.pools,
                 t \notin lost, z.boxes[t].tick1 \notin lost
          PROVE  PaidIn(z, t) <= z.bal[z.boxes[t].tick1][BoxReserve[t]]
      <3>1. /\ t \in DOMAIN was.boxes /\ t \notin DOMAIN was.pools
            /\ was.boxes[t].tick1 = z.boxes[t].tick1
        BY <1>2, <1>3, <1>4, <2>1 DEF LeadsTo
      <3>2. PaidIn(was, t) <= was.bal[was.boxes[t].tick1][BoxReserve[t]]
        BY <1>2, <2>1, <3>1 DEF Covered
      <3>3. PaidIn(z, t) = PaidIn(was, t)
        BY <1>3 DEF PaidIn
      <3>4. z.boxes[t].tick1 \in Ticks
        BY <1>1, <2>1, TableFacts DEF BoxRows
      <3>5. QED
        BY <1>3, <2>1, <3>1, <3>2, <3>3, <3>4
    <2>2. QED
      BY <2>1 DEF Covered
  <1>7. QED
    BY <1>5, <1>6 DEF z

\* A fork keeps how boxes and tokens came to be, but of the ticks it spoils.
LEMMA ForkOrigins ==
    ASSUME DeploysInv, NEW h \in DOMAIN dbAt, Fork(h)
    PROVE  Origins(db, plain)'
  <1> DEFINE z == db'
             own == plain'
             real(op, t) == {k \in Real(db, op, t) : db.boxlog[k].at <= h}
  <1>1. /\ z \in Tables /\ LeftOf(z, h) /\ current' = h
        /\ left' = left \cup RowsAbove(db.boxlog, h)
        /\ own = plain \cap DOMAIN z.collect
        /\ spoilt' = spoilt \cup Stale(h)
    BY ForkFacts
  <1>2. db \in Tables /\ h \in Nat /\ Origins(db, plain)
    BY InvFacts
  <1> HIDE DEF z, own
  <1>3. /\ z.cross = dbAt[h].cross /\ z.boxlog = db.boxlog
        /\ DOMAIN z.boxes = DOMAIN db.boxes \ Reverted(db, "deploy", h)
        /\ DOMAIN z.pools = {x \in DOMAIN db.pools : db.pools[x] <= h} \ Reverted(db, "finish", h)
        /\ \A t \in DOMAIN z.pools : z.pools[t] = db.pools[t]
        /\ DOMAIN z.collect = DOMAIN db.collect \ Doomed(db, h)
    BY <1>1 DEF LeftOf
  <1>4. /\ DOMAIN db.pools \subseteq BoxTicks /\ DOMAIN db.cross \subseteq Wrapped
        /\ db.pools \in [DOMAIN db.pools -> Nat] /\ db.boxlog \in Seq(BoxLogRows)
        /\ db.cross \in [DOMAIN db.cross -> CrossRows]
    BY <1>2, TableFacts
  <1>5. \A k \in DOMAIN db.boxlog : db.boxlog[k] \in BoxLogRows
    BY <1>4
  <1>6. \A k \in DOMAIN db.boxlog : db.boxlog[k].at \in Nat /\ db.boxlog[k].tick \in BoxTicks
    BY <1>5 DEF BoxLogRows
  <1>7. \A k \in DOMAIN db.boxlog : k \notin RowsAbove(db.boxlog, h) <=> db.boxlog[k].at <= h
    BY <1>2, <1>6 DEF RowsAbove
  <1>8. \A op, t : Real(db, op, t)' = real(op, t)
    <2>1. \A op, t : Real(db, op, t)' = {k \in DOMAIN db.boxlog \ (left \cup RowsAbove(db.boxlog, h)) :
                         db.boxlog[k].op = op /\ db.boxlog[k].tick = t}
      BY <1>1, <1>3 DEF Real, z
    <2>2. QED
      BY <1>7, <2>1 DEF Real
  <1>9. \A op : Reverted(db, op, h) \subseteq BoxTicks
    BY <1>6 DEF Reverted, RowsAbove
  <1>10. ASSUME NEW t \in BoxTicks \ spoilt'
         PROVE  BoxOrigin(db, t, plain)'
    <2>1. t \notin spoilt /\ t \notin Stale(h) /\ BoxOrigin(db, t, plain)
      BY <1>1, <1>2, <1>10 DEF Origins
    <2> DEFINE D == Real(db, "deploy", t)
               F == Real(db, "finish", t)
    <2>2. /\ \A j, k \in D : j = k
          /\ \A k \in F : /\ t \in DOMAIN db.pools /\ db.pools[t] = db.boxlog[k].at
                          /\ \E j \in D : db.boxlog[j].at <= db.boxlog[k].at
          /\ t \in DOMAIN db.boxes <=> D # {}
          /\ t \in DOMAIN db.pools <=> F # {}
          /\ t \in DOMAIN db.boxes => t \in DOMAIN db.collect /\ t \notin plain
          /\ t \in DOMAIN db.collect => t \in DOMAIN db.boxes \cup plain
          /\ t \in DOMAIN db.pools <=> LP[t] \in DOMAIN db.collect
      BY <2>1 DEF BoxOrigin
    <2>3. /\ t \in Reverted(db, "deploy", h) <=> \E k \in D : ~(db.boxlog[k].at <= h)
          /\ t \in Reverted(db, "finish", h) <=> \E k \in F : ~(db.boxlog[k].at <= h)
      <3>1. ASSUME NEW op
            PROVE  t \in Reverted(db, op, h) <=> \E k \in Real(db, op, t) : ~(db.boxlog[k].at <= h)
        <4>1. ASSUME t \in Reverted(db, op, h)
              PROVE  \E k \in Real(db, op, t) : ~(db.boxlog[k].at <= h)
          <5>1. PICK k \in RowsAbove(db.boxlog, h) : db.boxlog[k].op = op /\ db.boxlog[k].tick = t
            BY <4>1 DEF Reverted
          <5>2. k \in DOMAIN db.boxlog /\ ~(db.boxlog[k].at <= h)
            BY <1>7 DEF RowsAbove
          <5>3. k \notin left
            BY <2>1, <5>1 DEF Stale
          <5>4. QED
            BY <5>1, <5>2, <5>3 DEF Real
        <4>2. ASSUME NEW k \in Real(db, op, t), ~(db.boxlog[k].at <= h)
              PROVE  t \in Reverted(db, op, h)
          BY <1>7, <4>2 DEF Real, Reverted
        <4>3. QED
          BY <4>1, <4>2
      <3>2. QED
        BY <3>1
    <2> HIDE DEF D, F
    <2>4. \A k \in D \cup F : db.boxlog[k].at \in Nat
      BY <1>6 DEF D, F, Real
    <2>5. t \in DOMAIN db.pools => db.pools[t] \in Nat
      BY <1>4
    <2>6. /\ t \notin Wrapped /\ LP[t] \notin Wrapped /\ LP[t] \notin BoxTicks
          /\ \A x \in BoxTicks : LP[x] # t /\ (LP[x] = LP[t] => x = t)
      BY <1>10, DeployNames
    <2>7. t \in Doomed(db, h) <=> t \in Reverted(db, "deploy", h)
      BY <1>4, <2>6 DEF Doomed
    <2>8. LP[t] \in Doomed(db, h) <=> t \in DOMAIN db.pools /\ db.pools[t] > h
      BY <1>4, <1>9, <2>6 DEF Doomed
    <2>9. t \in DOMAIN z.pools <=> t \in DOMAIN db.pools /\ db.pools[t] <= h
      BY <1>3, <2>2, <2>3
    <2>10. \A k \in real("finish", t) :
              /\ t \in DOMAIN z.pools /\ z.pools[t] = db.boxlog[k].at
              /\ \E j \in real("deploy", t) : db.boxlog[j].at <= db.boxlog[k].at
      <3>1. ASSUME NEW k \in F, db.boxlog[k].at <= h
            PROVE  /\ t \in DOMAIN z.pools /\ z.pools[t] = db.boxlog[k].at
                   /\ \E j \in D : db.boxlog[j].at <= h /\ db.boxlog[j].at <= db.boxlog[k].at
        <4>1. t \in DOMAIN z.pools /\ z.pools[t] = db.boxlog[k].at
          BY <1>3, <2>2, <2>9, <3>1
        <4>2. PICK j \in D : db.boxlog[j].at <= db.boxlog[k].at
          BY <2>2, <3>1
        <4>3. db.boxlog[j].at <= h
          BY <1>2, <2>4, <3>1, <4>2
        <4>4. QED
          BY <4>1, <4>2, <4>3
      <3>2. QED
        BY <3>1 DEF D, F
    <2>11. t \in DOMAIN z.boxes <=> real("deploy", t) # {}
      <3>1. t \in DOMAIN z.boxes <=> D # {} /\ \A k \in D : db.boxlog[k].at <= h
        BY <1>3, <2>2, <2>3
      <3>2. D # {} /\ (\A k \in D : db.boxlog[k].at <= h) <=> \E k \in D : db.boxlog[k].at <= h
        BY <2>2
      <3>3. real("deploy", t) # {} <=> \E k \in D : db.boxlog[k].at <= h
        BY DEF D
      <3>4. QED
        BY <3>1, <3>2, <3>3
    <2>12. t \in DOMAIN z.pools <=> real("finish", t) # {}
      <3>1. real("finish", t) # {} => t \in DOMAIN z.pools
        BY <2>10
      <3>2. ASSUME t \in DOMAIN z.pools PROVE real("finish", t) # {}
        <4>1. PICK k \in F : db.pools[t] = db.boxlog[k].at
          BY <2>2, <2>9, <3>2
        <4>2. QED
          BY <2>9, <3>2, <4>1 DEF F
      <3>3. QED
        BY <3>1, <3>2
    <2>13. /\ t \in DOMAIN z.boxes => t \in DOMAIN z.collect /\ t \notin own
           /\ t \in DOMAIN z.collect => t \in DOMAIN z.boxes \cup own
      BY <1>1, <1>3, <2>2, <2>7
    <2>14. t \in DOMAIN z.pools <=> LP[t] \in DOMAIN z.collect
      <3>1. t \in DOMAIN db.pools => (db.pools[t] > h <=> ~(db.pools[t] <= h))
        BY <1>2, <2>5
      <3>2. QED
        BY <1>3, <2>2, <2>8, <2>9, <3>1
    <2>15. \A j, k \in real("deploy", t) : j = k
      BY <2>2 DEF D
    <2> HIDE DEF real
    <2>16. QED
      BY <1>3, <1>8, <2>10, <2>11, <2>12, <2>13, <2>14, <2>15 DEF BoxOrigin, z, own
  <1>11. ASSUME NEW t \in Wrapped
         PROVE  /\ t \in DOMAIN z.collect <=> t \in DOMAIN z.cross \cup own
                /\ t \in DOMAIN z.cross => t \notin own
    <2>1. DOMAIN z.cross = {x \in DOMAIN db.cross : db.cross[x].at <= h}
      <3>1. [x \in {y \in DOMAIN db.cross : db.cross[y].at <= h} |-> db.cross[x]] = z.cross
        BY <1>3, InvFacts DEF LeadsTo
      <3>2. QED
        BY <3>1
    <2>2. t \in DOMAIN db.cross => (db.cross[t].at > h <=> ~(db.cross[t].at <= h))
      BY <1>2, <1>4 DEF CrossRows
    <2>3. t \notin BoxTicks /\ \A x \in BoxTicks : LP[x] # t
      BY <1>11, DeployNames
    <2>4. t \in Doomed(db, h) <=> t \in DOMAIN db.cross /\ ~(db.cross[t].at <= h)
      BY <1>4, <1>9, <2>2, <2>3 DEF Doomed
    <2>5. /\ t \in DOMAIN db.collect <=> t \in DOMAIN db.cross \cup plain
          /\ t \in DOMAIN db.cross => t \notin plain
      BY <1>2, <1>11 DEF Origins
    <2>6. QED
      BY <1>1, <1>3, <2>1, <2>4, <2>5
  <1>12. \A k \in DOMAIN z.boxlog \ left' : z.boxlog[k].at <= h
    BY <1>1, <1>3, <1>7
  <1>13. own \subseteq DOMAIN z.collect
    BY <1>1
  <1>14. QED
    BY <1>1, <1>10, <1>11, <1>12, <1>13 DEF Origins, z, own

\* A fork after the fork leads to the same tables.
LEMMA ForkLeads ==
    ASSUME DeploysInv, NEW h \in DOMAIN dbAt, Fork(h), NEW g \in DOMAIN dbAt'
    PROVE  LeadsTo(db', dbAt'[g], g, plain', LostAt(g)')
  <1> DEFINE was == dbAt[g]
             z == db'
             own == plain'
             lost == LostAt(g)'
             rd(x) == Reverted(db, "deploy", x)
             rf(x) == Reverted(db, "finish", x)
  <1>1. /\ z \in Tables /\ LeftOf(z, h)
        /\ g \in DOMAIN dbAt /\ g \in Nat /\ g < h /\ dbAt'[g] = was
        /\ own = plain \cap DOMAIN z.collect
        /\ LostAt(g) \subseteq lost /\ LostAt(h) \subseteq lost
        /\ \A op : \A t \in Reverted(db, op, h) : t \in lost /\ LP[t] \in lost
    BY ForkFacts
  <1>2. /\ db \in Tables /\ h \in Nat /\ was \in Tables
        /\ LeadsTo(db, was, g, plain, LostAt(g)) /\ LeadsTo(db, dbAt[h], h, plain, LostAt(h))
    BY <1>1, InvFacts
  <1> HIDE DEF z, own, lost
  <1>3. /\ z.shares = dbAt[h].shares /\ z.cross = dbAt[h].cross /\ z.boxlog = db.boxlog
        /\ DOMAIN z.boxes = DOMAIN db.boxes \ rd(h)
        /\ \A t \in DOMAIN z.boxes : z.boxes[t].tick1 = db.boxes[t].tick1
        /\ DOMAIN z.pools = {x \in DOMAIN db.pools : db.pools[x] <= h} \ rf(h)
        /\ \A t \in DOMAIN z.pools : z.pools[t] = db.pools[t]
        /\ DOMAIN z.collect = DOMAIN db.collect \ Doomed(db, h)
    BY <1>1 DEF LeftOf
  <1>4. /\ DOMAIN db.pools \subseteq BoxTicks /\ db.pools \in [DOMAIN db.pools -> Nat]
        /\ db.cross \in [DOMAIN db.cross -> CrossRows]
        /\ db.boxlog \in Seq(BoxLogRows) /\ db.shares \in Seq(ShareRows)
    BY <1>2, TableFacts
  <1>5. /\ \A k \in DOMAIN db.boxlog : db.boxlog[k] \in BoxLogRows
        /\ \A k \in DOMAIN db.shares : db.shares[k] \in ShareRows
    BY <1>4
  <1>6. /\ \A k \in DOMAIN db.boxlog : db.boxlog[k].at \in Nat
        /\ \A k \in DOMAIN db.shares : db.shares[k].at \in Nat
    BY <1>5 DEF BoxLogRows, ShareRows
  <1>7. rd(h) \subseteq rd(g) /\ rf(h) \subseteq rf(g)
    <2>1. RowsAbove(db.boxlog, h) \subseteq RowsAbove(db.boxlog, g)
      BY <1>1, <1>2, <1>6 DEF RowsAbove
    <2>2. QED
      BY <2>1 DEF Reverted
  <1>8. /\ Reverted(z, "deploy", g) = rd(g) /\ Reverted(z, "finish", g) = rf(g)
    BY <1>3 DEF Reverted
  <1> HIDE DEF rd, rf
  <1>9. \A n \in Nat : /\ n <= g => n <= h
                       /\ n > h => n > g
                       /\ n > g <=> ~(n <= g)
                       /\ n > h <=> ~(n <= h)
    BY <1>1, <1>2
  <1>10. RowsUpTo(z.shares, g) = was.shares
    <2>1. RowsUpTo(RowsUpTo(db.shares, h), g) = RowsUpTo(db.shares, g)
      BY <1>1, <1>2, <1>6, RowsUpToTwice
    <2>2. QED
      BY <1>2, <1>3, <2>1 DEF LeadsTo
  <1>11. /\ DOMAIN z.cross = {x \in DOMAIN db.cross : db.cross[x].at <= h}
         /\ \A t \in DOMAIN z.cross : z.cross[t] = db.cross[t]
    <2>1. [t \in {x \in DOMAIN db.cross : db.cross[x].at <= h} |-> db.cross[t]] = z.cross
      BY <1>2, <1>3 DEF LeadsTo
    <2>2. QED
      BY <2>1
  <1>12. \A t \in DOMAIN db.cross : db.cross[t].at \in Nat
    BY <1>4 DEF CrossRows
  <1>13. [t \in {x \in DOMAIN z.cross : z.cross[x].at <= g} |-> z.cross[t]] = was.cross
    <2> DEFINE S == {x \in DOMAIN z.cross : z.cross[x].at <= g}
               T == {x \in DOMAIN db.cross : db.cross[x].at <= g}
    <2>1. S = T
      BY <1>9, <1>11, <1>12
    <2>2. \A t \in S : z.cross[t] = db.cross[t]
      BY <1>11
    <2> HIDE DEF S, T
    <2>3. [t \in S |-> z.cross[t]] = [t \in T |-> db.cross[t]]
      BY <2>1, <2>2
    <2>4. QED
      BY <1>2, <2>3 DEF LeadsTo, S, T
  <1>14. ASSUME NEW t \in Ticks \ lost
         PROVE  /\ t \in DOMAIN z.collect \ Doomed(z, g) <=> t \in DOMAIN was.collect \cup own
                /\ t \in DOMAIN z.boxes \ rd(g) <=> t \in DOMAIN was.boxes
                /\ t \in DOMAIN was.boxes => was.boxes[t].tick1 = z.boxes[t].tick1
                /\ t \in DOMAIN was.pools <=>
                      /\ t \in DOMAIN z.pools \ rf(g)
                      /\ z.pools[t] <= g
    <2>1. /\ t \in DOMAIN db.collect \ Doomed(db, g) <=> t \in DOMAIN was.collect \cup plain
          /\ t \in DOMAIN db.boxes \ rd(g) <=> t \in DOMAIN was.boxes
          /\ t \in DOMAIN was.boxes => was.boxes[t].tick1 = db.boxes[t].tick1
          /\ t \in DOMAIN was.pools <=>
                /\ t \in DOMAIN db.pools \ rf(g)
                /\ db.pools[t] <= g
      BY <1>1, <1>2, <1>14 DEF LeadsTo, rd, rf
    <2>2. t \in DOMAIN was.boxes => t \in DOMAIN z.boxes
      BY <1>3, <1>7, <2>1
    <2>3. t \in DOMAIN was.pools <=> t \in DOMAIN z.pools \ rf(g) /\ z.pools[t] <= g
      BY <1>3, <1>4, <1>7, <1>9, <2>1
    <2>4. t \in Doomed(db, g) <=> t \in Doomed(db, h) \/ t \in Doomed(z, g)
      <3> DEFINE late(s, x) == {LP[y] : y \in {i \in DOMAIN s.pools : s.pools[i] > x}}
                 new(s, x) == {y \in DOMAIN s.cross : s.cross[y].at > x}
      <3>1. /\ Doomed(db, g) = rd(g) \cup late(db, g) \cup new(db, g)
            /\ Doomed(db, h) = rd(h) \cup late(db, h) \cup new(db, h)
            /\ Doomed(z, g) = rd(g) \cup late(z, g) \cup new(z, g)
        BY <1>8 DEF Doomed, rd
      <3>2. t \in new(db, g) <=> t \in new(db, h) \/ t \in new(z, g)
        BY <1>9, <1>11, <1>12
      <3>3. t \in late(db, g) <=> t \in late(db, h) \/ t \in late(z, g)
        <4>1. ASSUME NEW y \in DOMAIN db.pools, db.pools[y] > g, t = LP[y]
              PROVE  t \in late(db, h) \/ t \in late(z, g)
          <5>1. y \notin rf(h)
            BY <1>1, <1>14, <4>1 DEF rf
          <5>2. db.pools[y] > h \/ (y \in DOMAIN z.pools /\ z.pools[y] > g)
            <6>1. db.pools[y] > h \/ db.pools[y] <= h
              BY <1>4, <1>9, <4>1
            <6>2. db.pools[y] <= h => y \in DOMAIN z.pools /\ z.pools[y] = db.pools[y]
              BY <1>3, <4>1, <5>1
            <6>3. QED
              BY <4>1, <6>1, <6>2
          <5>3. QED
            BY <4>1, <5>2
        <4>2. ASSUME NEW y \in DOMAIN db.pools, db.pools[y] > h, t = LP[y]
              PROVE  t \in late(db, g)
          BY <1>4, <1>9, <4>2
        <4>3. ASSUME NEW y \in DOMAIN z.pools, z.pools[y] > g, t = LP[y]
              PROVE  t \in late(db, g)
          BY <1>3, <4>3
        <4>4. QED
          BY <4>1, <4>2, <4>3
      <3> HIDE DEF late, new
      <3>4. QED
        BY <1>7, <3>1, <3>2, <3>3
    <2>5. t \in DOMAIN z.collect \ Doomed(z, g) <=> t \in DOMAIN db.collect \ Doomed(db, g)
      BY <1>3, <2>4
    <2>6. t \in DOMAIN z.collect \ Doomed(z, g) <=> t \in DOMAIN was.collect \cup own
      BY <1>1, <2>1, <2>5
    <2>7. QED
      BY <1>3, <2>1, <2>2, <2>3, <2>6
  <1>15. LeadsTo(z, was, g, own, lost)
    BY <1>8, <1>10, <1>13, <1>14 DEF LeadsTo
  <1>16. QED
    BY <1>1, <1>15 DEF z, own, lost

\* A fork.
LEMMA ForkKeeps ==
    ASSUME DeploysInv, NEW h \in DOMAIN dbAt, Fork(h)
    PROVE  DeploysInv'
  <1>1. Clock' /\ current' = h /\ Lost(spoilt)' = LostAt(h)
    BY ForkFacts
  <1>2. PastSound' /\ Ledgered(db)'
    BY ForkPast, ForkLedger
  <1>3. RowsSound(db', h, LostAt(h)) /\ Covered(db', LostAt(h))
    BY ForkRows
  <1>4. Origins(db, plain)'
    BY ForkOrigins
  <1>5. \A g \in DOMAIN dbAt' : LeadsTo(db', dbAt'[g], g, plain', LostAt(g)')
    BY ForkLeads
  <1>6. RowsSound(db, current, Lost(spoilt))'
    BY <1>1, <1>3
  <1>7. Covered(db, Lost(spoilt))'
    BY <1>1, <1>3
  <1>8. Shaped(db, plain)'
    BY <1>4, <1>5, <1>6 DEF Shaped
  <1>9. QED
    BY <1>1, <1>2, <1>7, <1>8 DEF DeploysInv

\* The tables to begin with.
LEMMA InitTables ==
    ASSUME DeploysInit
    PROVE  /\ db \in Tables /\ Lost(spoilt) = {}
           /\ \A t \in Ticks : IF t \in DOMAIN db.collect THEN db.collect[t] = Supply(db.bal, t)
                               ELSE db.bal[t] = [a \in Accounts |-> 0]
  <1> DEFINE none == [t \in {} |-> 0]
             c == [t \in DOMAIN Minted |-> Supply(Minted, t)]
             b == [t \in Ticks |-> IF t \in DOMAIN Minted THEN Minted[t]
                                   ELSE [a \in Accounts |-> 0]]
  <1>1. \A D, R : none \in PartlyOn(D, R)
    <2>1. \A D, R : none \in [{} -> R] /\ {} \in SUBSET D
      OBVIOUS
    <2>2. QED
      BY <2>1 DEF PartlyOn
  <1>2. c \in PartlyOn(Ticks, Nat)
    <2>1. \A t \in DOMAIN Minted : Supply(Minted, t) \in Nat
      BY DeployNames, SumNat DEF Supply
    <2>2. c \in [DOMAIN Minted -> Nat] /\ DOMAIN Minted \in SUBSET Ticks
      BY <2>1, DeployNames
    <2> HIDE DEF c
    <2>3. QED
      BY <2>2, PartlyFacts
  <1>3. b \in [Ticks -> [Accounts -> Nat]]
    BY DeployNames
  <1>4. db = [collect |-> c, bal |-> b, log |-> <<>>, boxes |-> none, shares |-> <<>>,
              boxlog |-> <<>>, pools |-> none, cross |-> none]
    BY DEF DeploysInit
  <1>5. /\ DOMAIN c = DOMAIN Minted /\ \A t \in DOMAIN Minted : c[t] = SumFunction(Minted[t])
        /\ \A t \in Ticks : b[t] = IF t \in DOMAIN Minted THEN Minted[t]
                                   ELSE [a \in Accounts |-> 0]
    BY DEF Supply
  <1> HIDE DEF none, c, b
  <1>6. db \in Tables
    <2>1. \A R : <<>> \in Seq(R)
      OBVIOUS
    <2>2. QED
      BY <1>1, <1>2, <1>3, <1>4, <2>1 DEF Tables
  <1>7. \A t \in Ticks : IF t \in DOMAIN db.collect THEN db.collect[t] = Supply(db.bal, t)
                         ELSE db.bal[t] = [a \in Accounts |-> 0]
    BY <1>4, <1>5 DEF Supply
  <1>8. Lost(spoilt) = {}
    BY DEF DeploysInit, Lost
  <1>9. QED
    BY <1>6, <1>7, <1>8

\* The invariant holds to begin with.
LEMMA InitKeeps ==
    ASSUME DeploysInit
    PROVE  DeploysInv
  <1>1. /\ db \in Tables /\ Lost(spoilt) = {}
        /\ \A t \in Ticks : IF t \in DOMAIN db.collect THEN db.collect[t] = Supply(db.bal, t)
                            ELSE db.bal[t] = [a \in Accounts |-> 0]
    BY InitTables
  <1>2. /\ db.log = <<>> /\ db.shares = <<>> /\ db.boxlog = <<>>
        /\ DOMAIN db.boxes = {} /\ DOMAIN db.pools = {} /\ DOMAIN db.cross = {}
        /\ DOMAIN db.collect = DOMAIN Minted
        /\ current = 0 /\ DOMAIN dbAt = {} /\ plain = DOMAIN Minted /\ left = {} /\ spoilt = {}
    BY DEF DeploysInit
  <1>3. Clock
    <2>1. dbAt \in [{} -> Tables] /\ 0..(0 - 1) = {}
      BY DEF DeploysInit
    <2>2. QED
      BY <1>2, <2>1 DEF Clock
  <1>4. PastSound
    BY <1>2 DEF PastSound
  <1>5. /\ DOMAIN db.log = {} /\ DOMAIN db.shares = {} /\ DOMAIN db.boxlog = {} /\ Len(db.log) = 0
    BY <1>2
  <1>6. Ledgered(db)
    <2>1. LogSound(db, current) /\ LedgerSound(db, Lost(spoilt))
      BY <1>1, <1>5 DEF LogSound, LedgerSound
    <2>2. ASSUME NEW t \in Ticks
          PROVE  \E tr : TraceOf(tr, db, t)
      <3>1. db.bal[t] \in Purses
        BY <1>1, TableFacts, BalancesAsPurses
      <3>2. 1..0 = {}
        OBVIOUS
      <3>3. TraceOf([k \in 0..0 |-> db.bal[t]], db, t)
        BY <1>5, <3>1, <3>2 DEF TraceOf
      <3>4. QED
        BY <3>3
    <2>3. Traced(db)
      BY <1>2, <2>2 DEF Traced
    <2>4. QED
      BY <1>1, <1>2, <2>1, <2>3 DEF Ledgered
  <1>7. Shaped(db, plain)
    <2>1. RowsSound(db, current, Lost(spoilt))
      BY <1>2, <1>5 DEF RowsSound
    <2>2. \A op, t : Real(db, op, t) = {}
      BY <1>5 DEF Real
    <2>3. \A t \in BoxTicks : BoxOrigin(db, t, plain)
      <3>1. \A t \in BoxTicks : t \notin DOMAIN Minted /\ LP[t] \notin DOMAIN Minted
        BY DeployNames
      <3>2. QED
        BY <1>2, <2>2, <3>1 DEF BoxOrigin
    <2>4. Origins(db, plain)
      BY <1>2, <1>5, <2>3 DEF Origins
    <2>5. QED
      BY <1>2, <2>1, <2>4 DEF Shaped
  <1>8. Covered(db, Lost(spoilt))
    BY <1>2 DEF Covered
  <1>9. QED
    BY <1>3, <1>4, <1>6, <1>7, <1>8 DEF DeploysInv

\* The invariant is inductive.
LEMMA DeploysStep == DeploysInv /\ [DeploysNext]_deployVars => DeploysInv'
  <1> SUFFICES ASSUME DeploysInv, [DeploysNext]_deployVars PROVE DeploysInv'
    OBVIOUS
  <1>1. ASSUME NEW t \in BoxTicks, Drc20Deploy(t) PROVE DeploysInv'
    BY <1>1, Drc20DeployKeeps
  <1>2. ASSUME NEW t \in Ticks, NEW payer \in Users, NEW to \in Accounts, NEW amt \in Amounts,
               Drc20Transfer(t, payer, to, amt)
        PROVE  DeploysInv'
    BY <1>2, Drc20TransferKeeps
  <1>3. ASSUME NEW u \in Users, Box(u) PROVE DeploysInv'
    <2>1. ASSUME NEW d \in BoxDeploys, CanBoxDeploy(db, d), Carry(BoxDeploy(db, d, current)),
                 UNCHANGED plain
          PROVE  DeploysInv'
      BY <2>1, BoxDeployKeeps
    <2>2. ASSUME NEW t \in BoxTicks, NEW amt \in Amounts, CanBoxMint(db, t, u, amt),
                 Carry(BoxMint(db, t, u, amt, current)), UNCHANGED plain
          PROVE  DeploysInv'
      BY <2>2, BoxMintKeeps
    <2>3. QED
      BY <1>3, <2>1, <2>2 DEF Box
  <1>4. ASSUME NEW u \in Users, Cross(u) PROVE DeploysInv'
    <2>1. ASSUME NEW t \in Wrapped, CanCrossDeploy(db, t), Carry(CrossDeploy(db, t, u, current)),
                 UNCHANGED plain
          PROVE  DeploysInv'
      BY <2>1, CrossDeployKeeps
    <2>2. ASSUME NEW t \in Ticks, NEW amt \in Amounts, CanCrossMint(db, t, u, amt),
                 NEW to \in Users, Carry(CrossMint(db, t, to, amt, current)), UNCHANGED plain
          PROVE  DeploysInv'
      BY <2>2, CrossMintKeeps
    <2>3. ASSUME NEW t \in Ticks, NEW amt \in Amounts, CanCrossBurn(db, t, u, amt),
                 Carry(CrossBurn(db, t, u, amt, current)), UNCHANGED plain
          PROVE  DeploysInv'
      BY <2>3, CrossBurnKeeps
    <2>4. QED
      BY <1>4, <2>1, <2>2, <2>3 DEF Cross
  <1>5. CASE NextBlock
    BY <1>5, NextBlockKeeps
  <1>6. ASSUME NEW h \in DOMAIN dbAt, Fork(h) PROVE DeploysInv'
    BY <1>6, ForkKeeps
  <1>7. CASE UNCHANGED deployVars
    <2>1. db' = db /\ plain' = plain /\ UNCHANGED <<current, dbAt, left, spoilt>>
      BY <1>7 DEF deployVars
    <2>2. QED
      BY <2>1, InvFacts, CarryKeeps
  <1>8. QED
    BY <1>1, <1>2, <1>3, <1>4, <1>5, <1>6, <1>7 DEF DeploysNext

\* The tables stay what the chain followed has made of them, but for lost ticks
\* (DeploysInv), through every inscription, block and fork.
THEOREM DeploysInvariant == DeploysSpec => []DeploysInv
  <1>1. DeploysInit => DeploysInv
    BY InitKeeps
  <1>2. DeploysInv /\ [DeploysNext]_deployVars => DeploysInv'
    BY DeploysStep
  <1>3. QED
    BY <1>1, <1>2, PTL DEF DeploysSpec

\* What was paid into a box that is not finished, its reserves hold, whatever
\* mints, gifts, other boxes and forks there were (BoxMint, boxFork): for every
\* set of boxes and of holders, but of the ticks that a fork spoiled.
THEOREM BoxesStayCovered == DeploysSpec => []BoxesCovered
  <1>1. DeploysInv => BoxesCovered
    BY DEF DeploysInv, BoxesCovered, Covered
  <1>2. QED
    BY <1>1, DeploysInvariant, PTL

\* amt_sum of a token is what its holders have between them, for tokens that
\* forks delete and deploys bring back (NewToken, drc20Fork, swapFork, boxFork,
\* crossFork), but of the ticks that a fork spoiled.
THEOREM TokenSupplyIsHeld == DeploysSpec => []SupplyIsHeld
  <1>1. DeploysInv => SupplyIsHeld
    <2> SUFFICES ASSUME DeploysInv, NEW t \in DOMAIN db.collect, t \notin Lost(spoilt)
                 PROVE  db.collect[t] = Supply(db.bal, t)
      BY DEF SupplyIsHeld
    <2>1. t \in Ticks
      BY InvFacts, TableFacts
    <2>2. LedgerSound(db, Lost(spoilt))
      BY DEF DeploysInv, Ledgered
    <2>3. QED
      BY <2>1, <2>2 DEF LedgerSound
  <1>2. QED
    BY <1>1, DeploysInvariant, PTL

\* As long as no fork has obeyed a row of an abandoned block, a fork to any
\* finished block goes through: every row of drc20_revert above it finds its
\* token and its balances (drc20Fork, which fork calls before the other undos).
THEOREM DeployForkIsAccepted == DeploysSpec => []ForkNeverRefused
  <1>1. DeploysInv => ForkNeverRefused
    <2> SUFFICES ASSUME DeploysInv, spoilt = {}, NEW h \in DOMAIN dbAt
                 PROVE  drc20Fork(db, h) # Stuck
      BY DEF ForkNeverRefused
    <2>1. /\ db \in Tables /\ LedgerSound(db, Lost(spoilt)) /\ Traced(db)
      BY DEF DeploysInv, Ledgered
    <2>2. Lost(spoilt) = {}
      BY DEF Lost
    <2>3. db.log \in Seq(LogRows)
      BY <2>1, TableFacts
    <2>4. DOMAIN db.log = 1..Len(db.log) /\ \A k \in DOMAIN db.log : db.log[k] \in LogRows
      BY <2>3
    <2>5. \A k \in DOMAIN db.log : db.log[k].tick \in Ticks
      BY <2>4 DEF LogRows
    <2>6. ASSUME NEW k \in DOMAIN db.log
          PROVE  /\ \E tr : TraceOf(tr, db, db.log[k].tick)
                 /\ Nobody \in {db.log[k].from, db.log[k].to} => db.log[k].tick \in DOMAIN db.collect
      BY <2>1, <2>2, <2>5, <2>6 DEF Traced, LedgerSound
    <2>7. AllThere(db, Lost(spoilt))
      BY <2>2, <2>4, <2>6 DEF AllThere
    <2>8. QED
      BY <2>7, GoingFromHere
  <1>2. QED
    BY <1>1, DeploysInvariant, PTL

\* What a fork to h gives back.
LEMMA ForkGivesBack ==
    ASSUME DeploysInv, NEW h \in DOMAIN dbAt, Fork(h)
    PROVE  LET was == dbAt[current'] IN
             /\ db'.cross = was.cross /\ db'.shares = was.shares /\ db'.log = was.log
             /\ \A t \in Ticks \ Lost(spoilt') :
                   /\ db'.bal[t] = was.bal[t]
                   /\ HasToken(db', t) <=> HasToken(was, t) \/ t \in plain
                   /\ (t \in DOMAIN db'.boxes) <=> (t \in DOMAIN was.boxes)
                   /\ (t \in DOMAIN db'.pools) <=> (t \in DOMAIN was.pools)
  <1> DEFINE was == dbAt[h]
             z == db'
  <1>1. LeftOf(z, h) /\ current' = h /\ Lost(spoilt') = LostAt(h)
    BY ForkFacts DEF Lost
  <1>2. LeadsTo(db, was, h, plain, LostAt(h))
    BY InvFacts
  <1> HIDE DEF z
  <1>3. z.cross = was.cross /\ z.shares = was.shares /\ z.log = was.log
    BY <1>1 DEF LeftOf
  <1>4. ASSUME NEW t \in Ticks \ LostAt(h)
        PROVE  /\ z.bal[t] = was.bal[t]
               /\ t \in DOMAIN z.collect <=> t \in DOMAIN was.collect \/ t \in plain
               /\ t \in DOMAIN z.boxes <=> t \in DOMAIN was.boxes
               /\ t \in DOMAIN z.pools <=> t \in DOMAIN was.pools
    BY <1>1, <1>2, <1>4 DEF LeftOf, LeadsTo
  <1>5. QED
    BY <1>1, <1>3, <1>4 DEF HasToken, z

\* A fork restores balances, boxes, pools, wrapped tokens and contributions of
\* the block it returns to (drc20Fork, swapFork, boxFork, crossFork), but of the
\* ticks it spoils; of the tokens only those of drc-20 deploys outlive their block.
THEOREM DeployForksRestore == DeploysSpec => ForkRestores
  <1> DEFINE Restored ==
        current' < current =>
         LET was == dbAt[current'] IN
             /\ db'.cross = was.cross /\ db'.shares = was.shares /\ db'.log = was.log
             /\ \A t \in Ticks \ Lost(spoilt') :
                   /\ db'.bal[t] = was.bal[t]
                   /\ HasToken(db', t) <=> HasToken(was, t) \/ t \in plain
                   /\ (t \in DOMAIN db'.boxes) <=> (t \in DOMAIN was.boxes)
                   /\ (t \in DOMAIN db'.pools) <=> (t \in DOMAIN was.pools)
  <1>1. DeploysInv /\ [DeploysNext]_deployVars => [Restored]_deployVars
    <2> SUFFICES ASSUME DeploysInv, DeploysNext, current' < current PROVE Restored
      BY DEF deployVars
    <2>1. current \in Nat
      BY InvFacts
    <2>2. ASSUME UNCHANGED current PROVE FALSE
      BY <2>1, <2>2
    <2>3. ASSUME NextBlock PROVE FALSE
      BY <2>1, <2>3 DEF NextBlock
    <2>4. \A s : Carry(s) => UNCHANGED current
      BY DEF Carry
    <2>5. PICK h \in DOMAIN dbAt : Fork(h)
      BY <2>2, <2>3, <2>4 DEF DeploysNext, Drc20Deploy, Drc20Transfer, Box, Cross
    <2>6. QED
      BY <2>5, ForkGivesBack
  <1> HIDE DEF Restored
  <1>2. DeploysSpec => [][Restored]_deployVars
    BY <1>1, DeploysInvariant, PTL DEF DeploysSpec
  <1>3. QED
    BY <1>2 DEF ForkRestores, Restored
=============================================================================
