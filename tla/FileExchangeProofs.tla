-------------------------- MODULE FileExchangeProofs --------------------------
(***************************************************************************)
(* Proofs about FileExchange: a file has one owner, an open order holds    *)
(* the file it sells, and a fork brings owners, orders and balances back   *)
(* together, for any files, orders and users, and any number of blocks.    *)
(***************************************************************************)
EXTENDS FileExchange, DataLemmas

-----------------------------------------------------------------------------
(* Rows deleted *)

KeepStep(kept, row, h) == IF row.height <= h THEN Append(kept, row) ELSE kept

KeepSteps(S, s, h) == [p \in Seq(S) \X (1..Len(s)) |-> KeepStep(p[1], s[p[2]], h)]

LEMMA KeepStepType ==
    ASSUME NEW S, NEW d \in Seq(S), NEW e \in S, NEW h
    PROVE  KeepStep(d, e, h) \in Seq(S)
  BY AppendProperties DEF KeepStep

LEMMA KeepTable ==
    ASSUME NEW S, NEW s \in Seq(S), NEW h
    PROVE  \E f : /\ Recursive(f, Seq(S), <<>>, KeepSteps(S, s, h), Len(s))
                  /\ UpTo(s, h) = f[Len(s)]
  <1> DEFINE N == Len(s)
             X == Seq(S)
             st == KeepSteps(S, s, h)
             d == CHOOSE d : d = [n \in 0..N |->
                    IF n = 0 THEN <<>>
                    ELSE IF s[n].height <= h THEN Append(d[n - 1], s[n])
                    ELSE d[n - 1]]
  <1>1. N \in Nat /\ <<>> \in X
    OBVIOUS
  <1>2. UpTo(s, h) = d[N]
    BY DEF UpTo
  <1> HIDE DEF N, X
  <1>3. \A x \in X, n \in 1..N : st[<<x, n>>] = KeepStep(x, s[n], h)
    BY DEF KeepSteps, X, N
  <1> HIDE DEF st
  <1>4. StepsWithin(st, X, N)
    <2>1. ASSUME NEW x \in X, NEW n \in 1..N PROVE st[<<x, n>>] \in X
      <3>1. s[n] \in S
        BY ElementOfSeq DEF N
      <3>2. QED
        BY <1>3, <3>1, KeepStepType DEF X
    <2>2. QED
      BY <2>1 DEF StepsWithin
  <1>5. PICK f : Recursive(f, X, <<>>, st, N)
    BY <1>1, <1>4, RecursionTo
  <1>6. /\ f \in [0..N -> X] /\ f[0] = <<>>
        /\ \A n \in 1..N : f[n] = KeepStep(f[n - 1], s[n], h)
    BY <1>3, <1>5 DEF Recursive
  <1>7. f = [n \in 0..N |-> IF n = 0 THEN <<>>
                            ELSE IF s[n].height <= h THEN Append(f[n - 1], s[n])
                            ELSE f[n - 1]]
    <2>1. ASSUME NEW n \in 0..N
          PROVE  f[n] = IF n = 0 THEN <<>>
                        ELSE IF s[n].height <= h THEN Append(f[n - 1], s[n])
                        ELSE f[n - 1]
      <3>1. CASE n = 0
        BY <1>6, <3>1
      <3>2. CASE n # 0
        <4>1. n \in 1..N
          BY <1>1, <3>2
        <4>2. QED
          BY <1>6, <3>2, <4>1 DEF KeepStep
      <3>3. QED
        BY <3>1, <3>2
    <2>2. QED
      BY <1>6, <2>1
  <1>8. d = [n \in 0..N |-> IF n = 0 THEN <<>>
                            ELSE IF s[n].height <= h THEN Append(d[n - 1], s[n])
                            ELSE d[n - 1]]
    BY <1>7
  <1> HIDE DEF d
  <1>9. Obeys(d, X, <<>>, st, N)
    <2>1. d[0] = <<>>
      BY <1>1, <1>8
    <2>2. ASSUME NEW n \in 1..N, d[n - 1] \in X PROVE d[n] = st[<<d[n - 1], n>>]
      <3>1. n \in 0..N /\ n # 0
        BY <1>1
      <3>2. QED
        BY <1>3, <1>8, <2>2, <3>1 DEF KeepStep
    <2>3. QED
      BY <2>1, <2>2 DEF Obeys
  <1>10. Alike(f, d, N)
    BY <1>1, <1>5, <1>9, RecursionUnique
  <1>11. d[N] = f[N]
    BY <1>1, <1>10 DEF Alike
  <1>12. QED
    BY <1>2, <1>5, <1>11 DEF X, N, st

LEMMA KeepEmpty == ASSUME NEW h PROVE UpTo(<<>>, h) = <<>>
  <1>1. <<>> \in Seq(FillRows) /\ Len(<<>>) = 0
    OBVIOUS
  <1>2. PICK f : /\ Recursive(f, Seq(FillRows), <<>>, KeepSteps(FillRows, <<>>, h), Len(<<>>))
                 /\ UpTo(<<>>, h) = f[Len(<<>>)]
    BY <1>1, KeepTable
  <1>3. QED
    BY <1>1, <1>2 DEF Recursive

LEMMA KeepAppend ==
    ASSUME NEW S, NEW s \in Seq(S), NEW t \in S, NEW h
    PROVE  /\ UpTo(s, h) \in Seq(S)
           /\ UpTo(Append(s, t), h) = KeepStep(UpTo(s, h), t, h)
  <1> DEFINE u == Append(s, t)
             X == Seq(S)
             N == Len(s)
             st == KeepSteps(S, s, h)
             st2 == KeepSteps(S, u, h)
  <1>1. /\ u \in X /\ Len(u) = N + 1 /\ N \in Nat
        /\ \A i \in 1..N : u[i] = s[i]
        /\ u[N + 1] = t
    BY AppendProperties, LenProperties
  <1> HIDE DEF u
  <1>2. PICK f : Recursive(f, X, <<>>, st, N) /\ UpTo(s, h) = f[N]
    BY KeepTable
  <1>3. PICK g : Recursive(g, X, <<>>, st2, N + 1) /\ UpTo(u, h) = g[N + 1]
    BY <1>1, KeepTable
  <1> HIDE DEF X, N
  <1>4. SameSteps(st, st2, X, N)
    BY <1>1 DEF SameSteps, KeepSteps, X, N
  <1>5. \A x \in X : st2[<<x, N + 1>>] = KeepStep(x, t, h)
    BY <1>1 DEF KeepSteps, X
  <1> HIDE DEF st, st2
  <1>6. f[N] \in X /\ g[N + 1] = st2[<<f[N], N + 1>>]
    BY <1>1, <1>2, <1>3, <1>4, RecursionLonger
  <1>7. QED
    BY <1>2, <1>3, <1>5, <1>6 DEF u, X

\* The rows that are left are those up to h, in the same order.
Ascending(s) == \A i, j \in DOMAIN s : i <= j => s[i].height <= s[j].height

Keeps(k, s, h) ==
    /\ \A i \in DOMAIN k : k[i].height <= h /\ \E j \in DOMAIN s : k[i] = s[j]
    /\ \A j \in DOMAIN s : s[j].height <= h => \E i \in DOMAIN k : k[i] = s[j]
    /\ Ascending(s) => Ascending(k)

LEMMA KeepsUpTo ==
    ASSUME NEW S, \A r \in S : r.height \in Nat, NEW s \in Seq(S), NEW h \in Nat
    PROVE  UpTo(s, h) \in Seq(S) /\ Keeps(UpTo(s, h), s, h)
  <1> DEFINE F == {q \in Seq(S) : UpTo(q, h) \in Seq(S) /\ Keeps(UpTo(q, h), q, h)}
  <1>1. <<>> \in F
    <2>1. <<>> \in Seq(S) /\ DOMAIN <<>> = {}
      OBVIOUS
    <2>2. Keeps(<<>>, <<>>, h)
      BY <2>1 DEF Keeps, Ascending
    <2>3. QED
      BY <2>1, <2>2, KeepEmpty
  <1>2. ASSUME NEW q \in F, NEW e \in S PROVE Append(q, e) \in F
    <2> DEFINE k == UpTo(q, h)
               u == Append(q, e)
               n == Len(q)
    <2>1. /\ n \in Nat /\ u \in Seq(S) /\ DOMAIN u = 1..(n + 1) /\ DOMAIN q = 1..n
          /\ u[n + 1] = e /\ \A i \in 1..n : u[i] = q[i]
      BY AppendProperties, LenProperties
    <2>2. k \in Seq(S) /\ Keeps(k, q, h) /\ UpTo(u, h) = KeepStep(k, e, h)
      BY KeepAppend
    <2>3. \A i \in DOMAIN q : q[i].height \in Nat
      BY <2>1, ElementOfSeq
    <2>4. e.height \in Nat
      OBVIOUS
    <2>5. \A i, j \in 1..n : i \in 1..(n + 1) /\ j \in 1..(n + 1) 
      BY <2>1
    <2>6. n + 1 \in 1..(n + 1) /\ \A i \in 1..n : i <= n + 1
      BY <2>1
    <2> HIDE DEF u, n
    <2>7. Ascending(u) => Ascending(q) /\ \A i \in DOMAIN q : q[i].height <= e.height
      <3>1. SUFFICES ASSUME Ascending(u)
                     PROVE  Ascending(q) /\ \A i \in DOMAIN q : q[i].height <= e.height
        OBVIOUS
      <3>2. Ascending(q)
        BY <3>1, <2>1, <2>5 DEF Ascending
      <3>3. ASSUME NEW i \in DOMAIN q PROVE q[i].height <= e.height
        <4>1. i \in 1..n
          BY <2>1
        <4>2. i \in DOMAIN u /\ n + 1 \in DOMAIN u /\ i <= n + 1
          BY <4>1, <2>1, <2>5, <2>6
        <4>3. u[i].height <= u[n + 1].height
          BY <3>1, <4>2 DEF Ascending
        <4>4. QED
          BY <4>1, <4>3, <2>1
      <3>4. QED
        BY <3>2, <3>3
    <2>8. ASSUME e.height <= h PROVE UpTo(u, h) \in Seq(S) /\ Keeps(UpTo(u, h), u, h)
      <3> DEFINE k2 == Append(k, e)
                 m == Len(k)
      <3>1. UpTo(u, h) = k2
        BY <2>2, <2>8 DEF KeepStep
      <3> HIDE DEF k
      <3>2. /\ m \in Nat /\ k2 \in Seq(S) /\ DOMAIN k2 = 1..(m + 1) /\ DOMAIN k = 1..m
            /\ k2[m + 1] = e /\ \A i \in 1..m : k2[i] = k[i]
        BY <2>2, AppendProperties, LenProperties
      <3> HIDE DEF k2, m
      <3>3. \A i \in 1..(m + 1) : i \in 1..m \/ i = m + 1
        BY <3>2
      <3>4. \A i \in 1..(n + 1) : i \in 1..n \/ i = n + 1
        BY <2>1
      <3>5. ASSUME NEW i \in DOMAIN k2
            PROVE  k2[i].height <= h /\ \E j \in DOMAIN u : k2[i] = u[j]
        <4>1. CASE i = m + 1
          BY <4>1, <3>2, <2>8, <2>1, <2>6
        <4>2. CASE i \in 1..m
          <5>1. PICK j \in DOMAIN q : k[i] = q[j]
            BY <4>2, <3>2, <2>2 DEF Keeps
          <5>2. j \in DOMAIN u /\ u[j] = k[i]
            BY <5>1, <2>1, <2>5
          <5>3. QED
            BY <5>2, <4>2, <3>2, <2>2 DEF Keeps
        <4>3. QED
          BY <3>2, <3>3, <4>1, <4>2
      <3>6. ASSUME NEW j \in DOMAIN u, u[j].height <= h PROVE \E i \in DOMAIN k2 : k2[i] = u[j]
        <4>1. CASE j = n + 1
          <5>1. m + 1 \in DOMAIN k2
            BY <3>2
          <5>2. QED
            BY <4>1, <5>1, <3>2, <2>1
        <4>2. CASE j \in 1..n
          <5>1. PICK i \in DOMAIN k : k[i] = q[j]
            BY <4>2, <3>6, <2>1, <2>2 DEF Keeps
          <5>2. i \in DOMAIN k2
            BY <3>2
          <5>3. QED
            BY <5>1, <5>2, <4>2, <3>2, <2>1
        <4>3. QED
          BY <2>1, <3>4, <4>1, <4>2
      <3>7. Ascending(u) => Ascending(k2)
        <4>1. SUFFICES ASSUME Ascending(u), NEW i \in DOMAIN k2, NEW j \in DOMAIN k2, i <= j
                       PROVE  k2[i].height <= k2[j].height
          BY DEF Ascending
        <4>2. Ascending(k) /\ \A a \in DOMAIN k : k[a].height <= e.height
          BY <4>1, <2>7, <2>2 DEF Keeps
        <4>3. CASE j \in 1..m
          <5>1. i \in 1..m
            BY <4>1, <4>3, <3>2
          <5>2. QED
            BY <4>1, <4>2, <4>3, <5>1, <3>2 DEF Ascending
        <4>4. CASE j = m + 1
          BY <4>2, <4>4, <3>2, <3>3, <2>4
        <4>5. QED
          BY <3>2, <3>3, <4>3, <4>4
      <3>8. Keeps(k2, u, h)
        BY <3>5, <3>6, <3>7 DEF Keeps
      <3>9. QED
        BY <3>1, <3>2, <3>8
    <2>9. ASSUME ~(e.height <= h) PROVE UpTo(u, h) \in Seq(S) /\ Keeps(UpTo(u, h), u, h)
      <3>1. UpTo(u, h) = k
        BY <2>2, <2>9 DEF KeepStep
      <3>2. \A i \in 1..(n + 1) : i \in 1..n \/ i = n + 1
        BY <2>1
      <3>3. \A j \in DOMAIN u : u[j].height <= h => j \in DOMAIN q /\ u[j] = q[j]
        BY <2>1, <2>9, <3>2
      <3>4. \A j \in DOMAIN q : j \in DOMAIN u /\ u[j] = q[j]
        BY <2>1, <2>5
      <3> HIDE DEF k
      <3>5. Keeps(k, u, h)
        BY <2>2, <2>7, <3>3, <3>4 DEF Keeps
      <3>6. QED
        BY <2>2, <3>1, <3>5
    <2>10. UpTo(u, h) \in Seq(S) /\ Keeps(UpTo(u, h), u, h)
      BY <2>8, <2>9
    <2>11. QED
      BY <2>1, <2>10 DEF u
  <1>3. F = Seq(S)
    <2> HIDE DEF F
    <2>1. F \in SUBSET Seq(S)
      BY DEF F
    <2>2. QED
      BY <1>1, <1>2, <2>1, SequenceInduction
  <1>4. QED
    BY <1>3

\* Nothing is deleted when nothing is above h.
LEMMA KeepAll ==
    ASSUME NEW S, NEW s \in Seq(S), NEW h, \A i \in DOMAIN s : s[i].height <= h
    PROVE  UpTo(s, h) = s
  <1> DEFINE F == {q \in Seq(S) :
                     (\A i \in DOMAIN q : q[i].height <= h) => UpTo(q, h) = q}
  <1>1. <<>> \in F
    BY KeepEmpty
  <1>2. ASSUME NEW q \in F, NEW e \in S PROVE Append(q, e) \in F
    <2> DEFINE u == Append(q, e)
               n == Len(q)
    <2>1. /\ n \in Nat /\ u \in Seq(S) /\ DOMAIN u = 1..(n + 1) /\ DOMAIN q = 1..n
          /\ u[n + 1] = e /\ \A i \in 1..n : u[i] = q[i]
      BY AppendProperties, LenProperties
    <2>2. UpTo(u, h) = KeepStep(UpTo(q, h), e, h)
      BY KeepAppend
    <2> HIDE DEF u, n
    <2>3. SUFFICES ASSUME \A i \in DOMAIN u : u[i].height <= h
                   PROVE  UpTo(u, h) = u
      BY <2>1 DEF u
    <2>4. UpTo(q, h) = q /\ e.height <= h
      BY <2>1, <2>3
    <2>5. QED
      BY <2>2, <2>4 DEF KeepStep, u
  <1>3. F = Seq(S)
    <2> HIDE DEF F
    <2>1. F \in SUBSET Seq(S)
      BY DEF F
    <2>2. QED
      BY <1>1, <1>2, <2>1, SequenceInduction
  <1>4. QED
    BY <1>3

-----------------------------------------------------------------------------
(* Moves undone *)

\* One row of the table, a move undone.
BackOf(row, r) == IF row = Row(r.file, r.to) THEN Row(r.file, r.from) ELSE row

LEMMA UndoMoveRows ==
    ASSUME NEW T \in Seq(FileRows), NEW r \in MoveRows
    PROVE  /\ UndoMove(T, r) = [i \in DOMAIN T |-> BackOf(T[i], r)]
           /\ UndoMove(T, r) \in Seq(FileRows)
           /\ Len(UndoMove(T, r)) = Len(T)
           /\ \A i \in DOMAIN T : BackOf(T[i], r).file = T[i].file
  <1>1. UndoMove(T, r) = [i \in DOMAIN T |-> BackOf(T[i], r)]
    BY DEF UndoMove, MoveFile, BackOf, MoveRows
  <1>2. ASSUME NEW i \in DOMAIN T
        PROVE  BackOf(T[i], r) \in FileRows /\ BackOf(T[i], r).file = T[i].file
    <2>1. T[i] \in FileRows
      BY ElementOfSeq
    <2>2. T[i].holder \in Accounts /\ NoAddr \notin Accounts
      BY <2>1, FileExchangeAssumption DEF FileRows
    <2>3. CASE T[i] = Row(r.file, r.to)
      <3>1. r.from \in Accounts
        BY <2>2, <2>3 DEF MoveRows, Row
      <3>2. QED
        BY <2>3, <3>1 DEF BackOf, Row, FileRows, MoveRows
    <2>4. CASE T[i] # Row(r.file, r.to)
      BY <2>1, <2>4 DEF BackOf
    <2>5. QED
      BY <2>3, <2>4
  <1> DEFINE u == [i \in 1..Len(T) |-> BackOf(T[i], r)]
  <1>3. u \in Seq(FileRows) /\ Len(u) = Len(T)
    BY <1>2
  <1>4. UndoMove(T, r) = u
    BY <1>1
  <1>5. QED
    BY <1>1, <1>2, <1>3, <1>4

UndoStep(T, r, h) == IF r.height > h THEN UndoMove(T, r) ELSE T

UndoSteps(M, h) ==
    [p \in Seq(FileRows) \X (1..Len(M)) |-> UndoStep(p[1], M[Len(M) + 1 - p[2]], h)]

LEMMA UndoStepType ==
    ASSUME NEW T \in Seq(FileRows), NEW r \in MoveRows, NEW h
    PROVE  UndoStep(T, r, h) \in Seq(FileRows)
  BY UndoMoveRows DEF UndoStep

LEMMA UndoTable ==
    ASSUME NEW T \in Seq(FileRows), NEW M \in Seq(MoveRows), NEW h
    PROVE  \E f : /\ Recursive(f, Seq(FileRows), T, UndoSteps(M, h), Len(M))
                  /\ MovesUndone(T, M, h) = f[Len(M)]
  <1> DEFINE N == Len(M)
             X == Seq(FileRows)
             st == UndoSteps(M, h)
             d == CHOOSE d : d = [n \in 0..N |->
                    IF n = 0 THEN T
                    ELSE IF M[N + 1 - n].height > h
                         THEN UndoMove(d[n - 1], M[N + 1 - n])
                    ELSE d[n - 1]]
  <1>1. N \in Nat /\ T \in X
    OBVIOUS
  <1>2. MovesUndone(T, M, h) = d[N]
    BY DEF MovesUndone
  <1> HIDE DEF N, X
  <1>3. \A x \in X, n \in 1..N : st[<<x, n>>] = UndoStep(x, M[N + 1 - n], h)
    BY DEF UndoSteps, X, N
  <1> HIDE DEF st
  <1>4. StepsWithin(st, X, N)
    <2>1. ASSUME NEW x \in X, NEW n \in 1..N PROVE st[<<x, n>>] \in X
      <3>1. N + 1 - n \in 1..N
        BY <1>1
      <3>2. M[N + 1 - n] \in MoveRows
        BY <3>1, ElementOfSeq DEF N
      <3>3. QED
        BY <1>3, <3>2, UndoStepType DEF X
    <2>2. QED
      BY <2>1 DEF StepsWithin
  <1>5. PICK f : Recursive(f, X, T, st, N)
    BY <1>1, <1>4, RecursionTo
  <1>6. /\ f \in [0..N -> X] /\ f[0] = T
        /\ \A n \in 1..N : f[n] = UndoStep(f[n - 1], M[N + 1 - n], h)
    BY <1>3, <1>5 DEF Recursive
  <1>7. f = [n \in 0..N |-> IF n = 0 THEN T
                            ELSE IF M[N + 1 - n].height > h
                                 THEN UndoMove(f[n - 1], M[N + 1 - n])
                            ELSE f[n - 1]]
    <2>1. ASSUME NEW n \in 0..N
          PROVE  f[n] = IF n = 0 THEN T
                        ELSE IF M[N + 1 - n].height > h
                             THEN UndoMove(f[n - 1], M[N + 1 - n])
                        ELSE f[n - 1]
      <3>1. CASE n = 0
        BY <1>6, <3>1
      <3>2. CASE n # 0
        <4>1. n \in 1..N
          BY <1>1, <3>2
        <4>2. QED
          BY <1>6, <3>2, <4>1 DEF UndoStep
      <3>3. QED
        BY <3>1, <3>2
    <2>2. QED
      BY <1>6, <2>1
  <1>8. d = [n \in 0..N |-> IF n = 0 THEN T
                            ELSE IF M[N + 1 - n].height > h
                                 THEN UndoMove(d[n - 1], M[N + 1 - n])
                            ELSE d[n - 1]]
    BY <1>7
  <1> HIDE DEF d
  <1>9. Obeys(d, X, T, st, N)
    <2>1. d[0] = T
      BY <1>1, <1>8
    <2>2. ASSUME NEW n \in 1..N, d[n - 1] \in X PROVE d[n] = st[<<d[n - 1], n>>]
      <3>1. n \in 0..N /\ n # 0
        BY <1>1
      <3>2. QED
        BY <1>3, <1>8, <2>2, <3>1 DEF UndoStep
    <2>3. QED
      BY <2>1, <2>2 DEF Obeys
  <1>10. Alike(f, d, N)
    BY <1>1, <1>5, <1>9, RecursionUnique
  <1>11. d[N] = f[N]
    BY <1>1, <1>10 DEF Alike
  <1>12. QED
    BY <1>2, <1>5, <1>11 DEF X, N, st

LEMMA UndoneEmpty ==
    ASSUME NEW T \in Seq(FileRows), NEW h
    PROVE  MovesUndone(T, <<>>, h) = T
  <1>1. <<>> \in Seq(MoveRows) /\ Len(<<>>) = 0
    OBVIOUS
  <1>2. PICK f : /\ Recursive(f, Seq(FileRows), T, UndoSteps(<<>>, h), Len(<<>>))
                 /\ MovesUndone(T, <<>>, h) = f[Len(<<>>)]
    BY <1>1, UndoTable
  <1>3. QED
    BY <1>1, <1>2 DEF Recursive

\* The last row is the first to be undone.
LEMMA UndoneAppend ==
    ASSUME NEW T \in Seq(FileRows), NEW M \in Seq(MoveRows), NEW r \in MoveRows, NEW h
    PROVE  /\ UndoStep(T, r, h) \in Seq(FileRows)
           /\ MovesUndone(T, Append(M, r), h) = MovesUndone(UndoStep(T, r, h), M, h)
  <1> DEFINE u == Append(M, r)
             X == Seq(FileRows)
             N == Len(M)
             st == UndoSteps(M, h)
             st2 == UndoSteps(u, h)
             T2 == UndoStep(T, r, h)
  <1>1. /\ u \in Seq(MoveRows) /\ Len(u) = N + 1 /\ N \in Nat
        /\ \A i \in 1..N : u[i] = M[i]
        /\ u[N + 1] = r
    BY AppendProperties, LenProperties
  <1>2. T2 \in X
    BY UndoStepType
  <1> HIDE DEF u, T2
  <1>3. PICK f : Recursive(f, X, T2, st, N) /\ MovesUndone(T2, M, h) = f[N]
    BY <1>2, UndoTable
  <1>4. PICK g : Recursive(g, X, T, st2, N + 1) /\ MovesUndone(T, u, h) = g[N + 1]
    BY <1>1, UndoTable
  <1>5. \A x \in X, n \in 1..(N + 1) :
           st2[<<x, n>>] = UndoStep(x, u[Len(u) + 1 - n], h)
    BY <1>1 DEF UndoSteps
  <1>6. \A x \in X, n \in 1..N : st[<<x, n>>] = UndoStep(x, M[N + 1 - n], h)
    BY DEF UndoSteps
  <1> HIDE DEF X, N, st, st2
  <1>7. \A x \in X, n \in 1..N : st2[<<x, n + 1>>] = st[<<x, n>>]
    <2>1. ASSUME NEW x \in X, NEW n \in 1..N PROVE st2[<<x, n + 1>>] = st[<<x, n>>]
      <3>1. /\ n + 1 \in 1..(N + 1) /\ Len(u) + 1 - (n + 1) = N + 1 - n
            /\ N + 1 - n \in 1..N
        BY <1>1
      <3>2. u[N + 1 - n] = M[N + 1 - n]
        BY <1>1, <3>1
      <3>3. st2[<<x, n + 1>>] = UndoStep(x, u[Len(u) + 1 - (n + 1)], h)
        BY <1>5, <3>1
      <3>4. QED
        BY <1>6, <3>1, <3>2, <3>3
    <2>2. QED
      BY <2>1
  <1>8. /\ g[0] = T
        /\ \A n \in 1..(N + 1) : g[n - 1] \in X /\ g[n] = st2[<<g[n - 1], n>>]
    BY <1>4 DEF Recursive
  <1>9. g[1] = T2
    <2>1. 1 \in 1..(N + 1) /\ 1 - 1 = 0 /\ Len(u) + 1 - 1 = N + 1
      BY <1>1
    <2>2. T \in X /\ g[1] = st2[<<T, 1>>]
      BY <1>8, <2>1
    <2>3. QED
      BY <1>1, <1>5, <2>1, <2>2 DEF T2
  <1> DEFINE d == [n \in 0..N |-> g[n + 1]]
  <1>10. Obeys(d, X, T2, st, N)
    <2>1. d[0] = T2
      BY <1>1, <1>9
    <2>2. ASSUME NEW n \in 1..N, d[n - 1] \in X PROVE d[n] = st[<<d[n - 1], n>>]
      <3>1. n + 1 \in 1..(N + 1) /\ (n + 1) - 1 = n /\ n \in 0..N /\ n - 1 \in 0..N
            /\ (n - 1) + 1 = n
        BY <1>1
      <3>2. d[n] = g[n + 1] /\ d[n - 1] = g[n]
        BY <3>1
      <3>3. g[n + 1] = st2[<<g[n], n + 1>>]
        BY <1>8, <3>1
      <3>4. QED
        BY <1>7, <2>2, <3>2, <3>3
    <2>3. QED
      BY <2>1, <2>2 DEF Obeys
  <1>11. d[N] = g[N + 1]
    BY <1>1
  <1> HIDE DEF d
  <1>12. Alike(f, d, N)
    BY <1>1, <1>3, <1>10, RecursionUnique
  <1>13. d[N] = f[N]
    BY <1>1, <1>12 DEF Alike
  <1>14. QED
    BY <1>2, <1>3, <1>4, <1>11, <1>13 DEF u, X, T2

\* The rows stay in their places, and each is of the same file.
SameFiles(T, T2) == Len(T) = Len(T2) /\ \A i \in DOMAIN T : T[i].file = T2[i].file

LEMMA UndoneRows ==
    ASSUME NEW M \in Seq(MoveRows), NEW h, NEW T \in Seq(FileRows)
    PROVE  MovesUndone(T, M, h) \in Seq(FileRows) /\ SameFiles(MovesUndone(T, M, h), T)
  <1> DEFINE F == {q \in Seq(MoveRows) : \A S \in Seq(FileRows) :
                     /\ MovesUndone(S, q, h) \in Seq(FileRows)
                     /\ SameFiles(MovesUndone(S, q, h), S)}
  <1>1. <<>> \in F
    <2>1. <<>> \in Seq(MoveRows)
      OBVIOUS
    <2>2. QED
      BY <2>1, UndoneEmpty DEF SameFiles
  <1>2. ASSUME NEW q \in F, NEW r \in MoveRows PROVE Append(q, r) \in F
    <2>1. Append(q, r) \in Seq(MoveRows)
      BY AppendProperties
    <2>2. ASSUME NEW S \in Seq(FileRows)
          PROVE  /\ MovesUndone(S, Append(q, r), h) \in Seq(FileRows)
                 /\ SameFiles(MovesUndone(S, Append(q, r), h), S)
      <3> DEFINE S2 == UndoStep(S, r, h)
      <3>1. S2 \in Seq(FileRows) /\ MovesUndone(S, Append(q, r), h) = MovesUndone(S2, q, h)
        BY UndoneAppend
      <3>2. SameFiles(S2, S)
        <4>1. CASE r.height > h
          <5>1. S2 = UndoMove(S, r)
            BY <4>1 DEF UndoStep
          <5> HIDE DEF S2
          <5>2. Len(S2) = Len(S) /\ \A i \in DOMAIN S : S2[i].file = S[i].file
            BY <5>1, UndoMoveRows
          <5>3. DOMAIN S2 = DOMAIN S
            BY <3>1, <5>2
          <5>4. QED
            BY <5>2, <5>3 DEF SameFiles
        <4>2. CASE ~(r.height > h)
          BY <4>2 DEF UndoStep, SameFiles
        <4>3. QED
          BY <4>1, <4>2
      <3> HIDE DEF S2
      <3>3. MovesUndone(S2, q, h) \in Seq(FileRows) /\ SameFiles(MovesUndone(S2, q, h), S2)
        BY <3>1
      <3>4. QED
        <4> DEFINE u == MovesUndone(S2, q, h)
        <4> HIDE DEF u
        <4>1. u \in Seq(FileRows) /\ SameFiles(u, S2) /\ SameFiles(S2, S)
          BY <3>2, <3>3 DEF u
        <4>2. SameFiles(u, S)
          BY <3>1, <4>1 DEF SameFiles
        <4>3. QED
          BY <3>1, <4>1, <4>2 DEF u
    <2>3. QED
      BY <2>1, <2>2
  <1>3. F = Seq(MoveRows)
    <2> HIDE DEF F
    <2>1. F \in SUBSET Seq(MoveRows)
      BY DEF F
    <2>2. QED
      BY <1>1, <1>2, <2>1, SequenceInduction
  <1>4. QED
    BY <1>3

\* What becomes of a row depends on this row alone.
LEMMA UndoneAgree ==
    ASSUME NEW M \in Seq(MoveRows), NEW h, NEW T \in Seq(FileRows), NEW U \in Seq(FileRows),
           NEW i \in DOMAIN T \cap DOMAIN U, T[i] = U[i]
    PROVE  MovesUndone(T, M, h)[i] = MovesUndone(U, M, h)[i]
  <1> DEFINE Same(V, W) == i \in DOMAIN V /\ i \in DOMAIN W /\ V[i] = W[i]
             F == {q \in Seq(MoveRows) : \A V, W \in Seq(FileRows) :
                     Same(V, W) => MovesUndone(V, q, h)[i] = MovesUndone(W, q, h)[i]}
  <1>1. <<>> \in F
    <2>1. <<>> \in Seq(MoveRows)
      OBVIOUS
    <2>2. QED
      BY <2>1, UndoneEmpty
  <1>2. ASSUME NEW q \in F, NEW r \in MoveRows PROVE Append(q, r) \in F
    <2>1. Append(q, r) \in Seq(MoveRows)
      BY AppendProperties
    <2>2. ASSUME NEW V \in Seq(FileRows), NEW W \in Seq(FileRows), Same(V, W)
          PROVE  MovesUndone(V, Append(q, r), h)[i] = MovesUndone(W, Append(q, r), h)[i]
      <3> DEFINE V2 == UndoStep(V, r, h)
                 W2 == UndoStep(W, r, h)
      <3>1. /\ V2 \in Seq(FileRows) /\ MovesUndone(V, Append(q, r), h) = MovesUndone(V2, q, h)
            /\ W2 \in Seq(FileRows) /\ MovesUndone(W, Append(q, r), h) = MovesUndone(W2, q, h)
        BY UndoneAppend
      <3>2. Same(V2, W2)
        BY <2>2, UndoMoveRows DEF UndoStep
      <3> HIDE DEF V2, W2
      <3>3. QED
        BY <3>1, <3>2
    <2>3. QED
      BY <2>1, <2>2
  <1>3. F = Seq(MoveRows)
    <2> HIDE DEF F
    <2>1. F \in SUBSET Seq(MoveRows)
      BY DEF F
    <2>2. QED
      BY <1>1, <1>2, <2>1, SequenceInduction
  <1>4. QED
    BY <1>3

\* Nothing is undone when nothing is above h.
LEMMA UndoneNothing ==
    ASSUME NEW T \in Seq(FileRows), NEW M \in Seq(MoveRows), NEW h \in Nat,
           \A i \in DOMAIN M : M[i].height <= h
    PROVE  MovesUndone(T, M, h) = T
  <1> DEFINE F == {q \in Seq(MoveRows) :
                     (\A i \in DOMAIN q : q[i].height <= h) => MovesUndone(T, q, h) = T}
  <1>1. <<>> \in F
    <2>1. <<>> \in Seq(MoveRows)
      OBVIOUS
    <2>2. QED
      BY <2>1, UndoneEmpty
  <1>2. ASSUME NEW q \in F, NEW r \in MoveRows PROVE Append(q, r) \in F
    <2> DEFINE u == Append(q, r)
               n == Len(q)
    <2>1. /\ n \in Nat /\ u \in Seq(MoveRows) /\ DOMAIN u = 1..(n + 1) /\ DOMAIN q = 1..n
          /\ u[n + 1] = r /\ \A i \in 1..n : u[i] = q[i]
      BY AppendProperties, LenProperties
    <2>2. MovesUndone(T, u, h) = MovesUndone(UndoStep(T, r, h), q, h)
      BY UndoneAppend
    <2> HIDE DEF u, n
    <2>3. SUFFICES ASSUME \A i \in DOMAIN u : u[i].height <= h
                   PROVE  MovesUndone(T, u, h) = T
      BY <2>1 DEF u
    <2>4. MovesUndone(T, q, h) = T /\ r.height <= h /\ r.height \in Nat
      BY <2>1, <2>3 DEF MoveRows
    <2>5. UndoStep(T, r, h) = T
      BY <2>4 DEF UndoStep
    <2>6. QED
      BY <2>2, <2>4, <2>5
  <1>3. F = Seq(MoveRows)
    <2> HIDE DEF F
    <2>1. F \in SUBSET Seq(MoveRows)
      BY DEF F
    <2>2. QED
      BY <1>1, <1>2, <2>1, SequenceInduction
  <1>4. QED
    BY <1>3

\* A fork to h and then to w undoes what a fork to w does.
LEMMA UndoneTwice ==
    ASSUME NEW M \in Seq(MoveRows), Ascending(M), NEW h \in Nat, NEW w \in Nat, w <= h,
           NEW T \in Seq(FileRows)
    PROVE  MovesUndone(MovesUndone(T, M, h), UpTo(M, h), w) = MovesUndone(T, M, w)
  <1> DEFINE F == {q \in Seq(MoveRows) : Ascending(q) => \A S \in Seq(FileRows) :
                     MovesUndone(MovesUndone(S, q, h), UpTo(q, h), w) = MovesUndone(S, q, w)}
  <1>1. <<>> \in F
    <2>1. <<>> \in Seq(MoveRows)
      OBVIOUS
    <2>2. QED
      BY <2>1, UndoneEmpty, KeepEmpty
  <1>2. ASSUME NEW q \in F, NEW r \in MoveRows PROVE Append(q, r) \in F
    <2> DEFINE u == Append(q, r)
               n == Len(q)
    <2>1. /\ n \in Nat /\ u \in Seq(MoveRows) /\ DOMAIN u = 1..(n + 1) /\ DOMAIN q = 1..n
          /\ u[n + 1] = r /\ \A i \in 1..n : u[i] = q[i]
      BY AppendProperties, LenProperties
    <2>2. UpTo(u, h) = KeepStep(UpTo(q, h), r, h)
      BY KeepAppend
    <2>3. \A S \in Seq(FileRows) : /\ UndoStep(S, r, h) \in Seq(FileRows)
                                   /\ MovesUndone(S, u, h) = MovesUndone(UndoStep(S, r, h), q, h)
      BY UndoneAppend
    <2>4. \A S \in Seq(FileRows) : /\ UndoStep(S, r, w) \in Seq(FileRows)
                                   /\ MovesUndone(S, u, w) = MovesUndone(UndoStep(S, r, w), q, w)
      BY UndoneAppend
    <2> HIDE DEF u, n
    <2>5. ASSUME Ascending(u), NEW S \in Seq(FileRows)
          PROVE  MovesUndone(MovesUndone(S, u, h), UpTo(u, h), w) = MovesUndone(S, u, w)
      <3>1. r.height \in Nat
        BY DEF MoveRows
      <3>2. CASE r.height <= h
        <4>1. \A i \in DOMAIN u : u[i].height <= h
          <5>1. ASSUME NEW i \in DOMAIN u PROVE u[i].height <= h
            <6>1. i \in DOMAIN u /\ n + 1 \in DOMAIN u /\ i <= n + 1
              BY <2>1
            <6>2. u[i].height <= r.height
              BY <2>1, <2>5, <6>1 DEF Ascending
            <6>3. u[i] \in MoveRows
              BY <2>1, ElementOfSeq
            <6>4. u[i].height \in Nat
              BY <6>3 DEF MoveRows
            <6>5. QED
              BY <3>1, <3>2, <6>2, <6>4
          <5>2. QED
            BY <5>1
        <4>2. MovesUndone(S, u, h) = S
          BY <2>1, <4>1, UndoneNothing
        <4>3. UpTo(u, h) = u
          BY <2>1, <4>1, KeepAll
        <4>4. QED
          BY <4>2, <4>3
      <3>3. CASE ~(r.height <= h)
        <4>1. r.height > h /\ r.height > w
          BY <3>1, <3>3
        <4>2. UpTo(u, h) = UpTo(q, h)
          BY <2>2, <3>3 DEF KeepStep
        <4>3. UndoStep(S, r, h) = UndoStep(S, r, w)
          BY <4>1 DEF UndoStep
        <4>4. Ascending(q)
          <5>1. \A i \in DOMAIN q : i \in DOMAIN u /\ u[i] = q[i]
            BY <2>1
          <5>2. QED
            BY <2>5, <5>1 DEF Ascending
        <4> DEFINE S2 == UndoStep(S, r, w)
        <4>5. /\ S2 \in Seq(FileRows) /\ MovesUndone(S, u, h) = MovesUndone(S2, q, h)
              /\ MovesUndone(S, u, w) = MovesUndone(S2, q, w)
          BY <2>3, <2>4, <4>3
        <4> HIDE DEF S2
        <4>6. MovesUndone(MovesUndone(S2, q, h), UpTo(q, h), w) = MovesUndone(S2, q, w)
          BY <4>4, <4>5
        <4>7. QED
          BY <4>2, <4>5, <4>6
      <3>4. QED
        BY <3>2, <3>3
    <2>6. QED
      BY <2>1, <2>5 DEF u
  <1>3. F = Seq(MoveRows)
    <2> HIDE DEF F
    <2>1. F \in SUBSET Seq(MoveRows)
      BY DEF F
    <2>2. QED
      BY <1>1, <1>2, <2>1, SequenceInduction
  <1>4. QED
    BY <1>3

-----------------------------------------------------------------------------
(* A file moved *)

LEMMA MoveFileRows ==
    ASSUME NEW T \in Seq(FileRows), NEW f \in Files, NEW from, NEW to \in Accounts
    PROVE  /\ MoveFile(T, f, from, to) \in Seq(FileRows)
           /\ SameFiles(MoveFile(T, f, from, to), T)
           /\ DOMAIN MoveFile(T, f, from, to) = DOMAIN T
           /\ \A i \in DOMAIN T : MoveFile(T, f, from, to)[i] =
                 IF T[i] = Row(f, from) THEN Row(f, to) ELSE T[i]
  <1> DEFINE At(i) == IF T[i] = Row(f, from) THEN Row(f, to) ELSE T[i]
             u == [i \in 1..Len(T) |-> At(i)]
  <1>1. ASSUME NEW i \in DOMAIN T PROVE At(i) \in FileRows /\ At(i).file = T[i].file
    <2>1. T[i] \in FileRows
      BY ElementOfSeq
    <2>2. QED
      BY <2>1 DEF Row, FileRows
  <1>2. u \in Seq(FileRows) /\ Len(u) = Len(T) /\ DOMAIN u = DOMAIN T
    BY <1>1
  <1>3. MoveFile(T, f, from, to) = u
    BY DEF MoveFile
  <1>4. \A i \in DOMAIN T : u[i] = At(i)
    OBVIOUS
  <1> HIDE DEF u
  <1>5. SameFiles(u, T)
    BY <1>1, <1>2, <1>4 DEF SameFiles
  <1>6. QED
    BY <1>2, <1>3, <1>4, <1>5

\* Whoever is not the sender keeps what is his.
IsOwner(T, g, a) == Owners(T, g) = {a}

LEMMA OwnersKept ==
    ASSUME NEW T \in Seq(FileRows), NEW f \in Files, NEW from, NEW to \in Accounts,
           NEW g, NEW a, a # from, IsOwner(T, g, a)
    PROVE  IsOwner(MoveFile(T, f, from, to), g, a)
  <1> DEFINE U == MoveFile(T, f, from, to)
  <1>1. \A i \in DOMAIN T : T[i].file = g => T[i].holder = a
    BY DEF IsOwner, Owners
  <1>2. DOMAIN U = DOMAIN T /\ \A i \in DOMAIN T : U[i].file = T[i].file
    BY MoveFileRows DEF SameFiles
  <1>3. \A i \in DOMAIN T : T[i].file = g => U[i].holder = T[i].holder
    <2>1. ASSUME NEW i \in DOMAIN T, T[i].file = g PROVE U[i] = T[i]
      <3>1. T[i] # Row(f, from)
        BY <1>1, <2>1 DEF Row
      <3>2. QED
        BY <3>1, MoveFileRows
    <2>2. QED
      BY <2>1
  <1> HIDE DEF U
  <1>4. Owners(U, g) = Owners(T, g)
    BY <1>2, <1>3 DEF Owners
  <1>5. QED
    BY <1>4 DEF U, IsOwner

LEMMA OwnerMoved ==
    ASSUME NEW T \in Seq(FileRows), NEW f \in Files, NEW from, NEW to \in Accounts,
           NEW i \in DOMAIN T, T[i] = Row(f, from),
           \A j \in DOMAIN T : T[j].file = f => j = i
    PROVE  Owners(MoveFile(T, f, from, to), f) = {to}
  <1> DEFINE U == MoveFile(T, f, from, to)
  <1>1. DOMAIN U = DOMAIN T /\ \A j \in DOMAIN T : U[j].file = T[j].file
    BY MoveFileRows DEF SameFiles
  <1>2. U[i] = Row(f, to)
    BY MoveFileRows
  <1> HIDE DEF U
  <1>3. U[i].file = f /\ U[i].holder = to
    BY <1>2 DEF Row
  <1>4. \A j \in DOMAIN U : U[j].file = f => j = i
    BY <1>1
  <1>5. Owners(U, f) = {to}
    BY <1>1, <1>3, <1>4 DEF Owners
  <1>6. QED
    BY <1>5 DEF U

\* The undo of a move finds the row where the move has put it.
LEMMA UndoneMove ==
    ASSUME NEW T \in Seq(FileRows), NEW M \in Seq(MoveRows), NEW f \in Files,
           NEW from \in Accounts, NEW to \in Accounts, NEW k \in Nat, NEW h, k > h,
           NEW i \in DOMAIN T, T[i].file = f => T[i] = Row(f, from)
    PROVE  MovesUndone(MoveFile(T, f, from, to),
                       Append(M, [from |-> from, to |-> to, file |-> f, height |-> k]), h)[i]
             = MovesUndone(T, M, h)[i]
  <1> DEFINE r == [from |-> from, to |-> to, file |-> f, height |-> k]
             U == MoveFile(T, f, from, to)
             V == UndoStep(U, r, h)
  <1>1. r \in MoveRows
    BY FileExchangeAssumption DEF MoveRows
  <1>2. U \in Seq(FileRows) /\ i \in DOMAIN U
    BY MoveFileRows
  <1>3. V = [j \in DOMAIN U |-> BackOf(U[j], r)]
    <2>1. r.height > h
      OBVIOUS
    <2> HIDE DEF r, U
    <2>2. QED
      BY <1>1, <1>2, <2>1, UndoMoveRows DEF UndoStep
  <1>4. V[i] = T[i]
    <2>1. V[i] = BackOf(U[i], r)
      BY <1>2, <1>3
    <2>2. r.file = f /\ r.to = to /\ r.from = from
      OBVIOUS
    <2>3. U[i] = IF T[i] = Row(f, from) THEN Row(f, to) ELSE T[i]
      BY MoveFileRows
    <2> HIDE DEF V, U, r
    <2>4. CASE T[i] = Row(f, from)
      BY <2>1, <2>2, <2>3, <2>4 DEF BackOf
    <2>5. CASE T[i].file # f
      BY <2>1, <2>2, <2>3, <2>5 DEF BackOf, Row
    <2>6. QED
      BY <2>4, <2>5
  <1>5. i \in DOMAIN V
    BY <1>2, <1>3
  <1> HIDE DEF r, U
  <1>6. V \in Seq(FileRows) /\ MovesUndone(U, Append(M, r), h) = MovesUndone(V, M, h)
    BY <1>1, <1>2, UndoneAppend
  <1> HIDE DEF V
  <1>7. MovesUndone(V, M, h)[i] = MovesUndone(T, M, h)[i]
    BY <1>4, <1>5, <1>6, UndoneAgree
  <1>8. QED
    BY <1>6, <1>7 DEF r, U

-----------------------------------------------------------------------------
(* What the actions share *)

LEMMA OneOwnerKept ==
    ASSUME OneOwner, files \in Seq(FileRows), files' \in Seq(FileRows),
           SameFiles(files', files), undeployed \subseteq undeployed'
    PROVE  OneOwner'
  <1>1. DOMAIN files' = DOMAIN files
    BY DEF SameFiles
  <1>2. \A i \in DOMAIN files : files'[i].file = files[i].file
    BY <1>1 DEF SameFiles
  <1>3. QED
    BY <1>1, <1>2 DEF OneOwner

InfoGrows == \A t \in DOMAIN info : t \in DOMAIN info' /\ info'[t] = info[t]

LEMMA SinceKept ==
    ASSUME NEW h \in DOMAIN was, Since(h), files \in Seq(FileRows),
           files' \in Seq(FileRows), SameFiles(files', files),
           undeployed' = undeployed, was'[h] = was[h], InfoGrows
    PROVE  Since(h)'
  <1>1. DOMAIN files' = DOMAIN files /\ Len(files') = Len(files)
    BY DEF SameFiles
  <1>2. \A i \in DOMAIN files : files'[i].file = files[i].file
    BY <1>1 DEF SameFiles
  <1>3. Len(was'[h].files) <= Len(files')
    BY <1>1 DEF Since
  <1>4. \A i \in DOMAIN files' :
          IF i <= Len(was'[h].files) THEN files'[i].file = was'[h].files[i].file
          ELSE files'[i].file \in undeployed'
               \/ (files'[i].file \in DOMAIN info' /\ info'[files'[i].file] > h)
    BY <1>1, <1>2 DEF Since, InfoGrows
  <1>5. \A e \in DOMAIN was'[h].orders : e \in DOMAIN info' /\ info'[e] <= h
    BY DEF Since, InfoGrows
  <1>6. QED
    BY <1>3, <1>4, <1>5 DEF Since

LEMMA HeldThenKept ==
    ASSUME NEW h, HeldThen(h), was'[h] = was[h], undeployed \subseteq undeployed'
    PROVE  HeldThen(h)'
  BY DEF HeldThen

\* Heights stay in order when a row is added.
LEMMA RowAdded ==
    ASSUME NEW S, \A q \in S : q.height \in Nat, NEW s \in Seq(S), NEW r \in S,
           \A i \in DOMAIN s : s[i].height <= r.height
    PROVE  /\ Append(s, r) \in Seq(S)
           /\ \A i \in DOMAIN Append(s, r) : Append(s, r)[i].height <= r.height
           /\ Ascending(s) => Ascending(Append(s, r))
  <1> DEFINE u == Append(s, r)
             n == Len(s)
  <1>1. /\ n \in Nat /\ u \in Seq(S) /\ DOMAIN u = 1..(n + 1) /\ DOMAIN s = 1..n
        /\ u[n + 1] = r /\ \A i \in 1..n : u[i] = s[i]
    BY AppendProperties, LenProperties
  <1>2. r.height \in Nat
    OBVIOUS
  <1> HIDE DEF u, n
  <1>3. \A i \in DOMAIN u : u[i].height <= r.height
    <2>1. \A i \in 1..(n + 1) : i = n + 1 \/ i \in 1..n
      BY <1>1
    <2>2. QED
      BY <1>1, <1>2, <2>1
  <1>4. ASSUME Ascending(s), NEW i \in DOMAIN u, NEW j \in DOMAIN u, i <= j
        PROVE  u[i].height <= u[j].height
    <2>1. CASE j = n + 1
      BY <1>1, <1>3, <2>1
    <2>2. CASE j # n + 1
      <3>1. i \in 1..n /\ j \in 1..n
        BY <1>1, <1>4, <2>2
      <3>2. QED
        BY <1>1, <1>4, <3>1 DEF Ascending
    <2>3. QED
      BY <2>1, <2>2
  <1>5. Ascending(s) => Ascending(u)
    BY <1>4 DEF Ascending
  <1>6. QED
    BY <1>1, <1>3, <1>5 DEF u

LEMMA MoveJournalled ==
    ASSUME TypeOK, Recorded, NEW f \in Files, NEW from \in Accounts, NEW to \in Accounts,
           TransferFile(f, from, to)
    PROVE  /\ files' \in Seq(FileRows) /\ SameFiles(files', files)
           /\ files' = MoveFile(files, f, from, to)
           /\ moves' = Append(moves, [from |-> from, to |-> to, file |-> f, height |-> height])
           /\ moves' \in Seq(MoveRows)
           /\ Ascending(moves')
           /\ \A i \in DOMAIN moves' : moves'[i].height <= height
  <1> DEFINE r == [from |-> from, to |-> to, file |-> f, height |-> height]
  <1>1. files' = MoveFile(files, f, from, to) /\ moves' = Append(moves, r)
    BY DEF TransferFile
  <1>2. r \in MoveRows /\ r.height = height
    BY FileExchangeAssumption DEF MoveRows, TypeOK
  <1>3. /\ moves \in Seq(MoveRows) /\ Ascending(moves)
        /\ \A i \in DOMAIN moves : moves[i].height <= r.height
    BY <1>2 DEF TypeOK, Recorded, Ascending
  <1>4. \A q \in MoveRows : q.height \in Nat
    BY DEF MoveRows
  <1> HIDE DEF r
  <1>5. /\ moves' \in Seq(MoveRows) /\ Ascending(moves')
        /\ \A i \in DOMAIN moves' : moves'[i].height <= r.height
    BY <1>1, <1>2, <1>3, <1>4, RowAdded
  <1>6. files' \in Seq(FileRows) /\ SameFiles(files', files)
    BY <1>1, MoveFileRows DEF TypeOK
  <1>7. QED
    BY <1>1, <1>2, <1>5, <1>6 DEF r

\* What a fork would bring back is the same after a move of a file that is
\* where the move looks for it.
LEMMA MoveComesBack ==
    ASSUME FileInv, NEW f \in Files, NEW from \in Accounts, NEW to \in Accounts,
           TransferFile(f, from, to), Holds(from, f),
           NEW h \in DOMAIN was, FillsUndone(h),
           NEW i \in DOMAIN was[h].files, was[h].files[i].file \notin undeployed
    PROVE  MovesUndone(files', moves', h)[i] = was[h].files[i]
  <1>1. /\ files \in Seq(FileRows) /\ moves \in Seq(MoveRows) /\ height \in Nat
        /\ height > h /\ was[h].files \in Seq(FileRows)
    BY DEF FileInv, TypeOK
  <1>2. i \in DOMAIN files /\ files[i].file = was[h].files[i].file
    BY <1>1 DEF FileInv, Since
  <1>3. files[i].file = f => files[i] = Row(f, from)
    <2>1. PICK j \in DOMAIN files : files[j] = Row(f, from)
      BY DEF Holds
    <2>2. files[j].file = f
      BY <2>1 DEF Row
    <2>3. files[i].file = f => i = j
      BY <1>2, <2>2 DEF FileInv, OneOwner
    <2>4. QED
      BY <2>1, <2>3
  <1>4. MovesUndone(files', moves', h)[i] = MovesUndone(files, moves, h)[i]
    <2>1. /\ files' = MoveFile(files, f, from, to)
          /\ moves' = Append(moves, [from |-> from, to |-> to, file |-> f,
                                     height |-> height])
      BY DEF TransferFile
    <2>2. PICK k : k = height
      OBVIOUS
    <2>3. k \in Nat /\ k > h
      BY <1>1, <2>2
    <2> DEFINE r == [from |-> from, to |-> to, file |-> f, height |-> k]
    <2>4. MovesUndone(MoveFile(files, f, from, to), Append(moves, r), h)[i]
            = MovesUndone(files, moves, h)[i]
      BY ONLY <1>1, <1>2, <1>3, <2>3, UndoneMove, f \in Files, from \in Accounts,
              to \in Accounts
    <2>5. QED
      BY <2>1, <2>2, <2>4
  <1>5. QED
    BY <1>4 DEF FileInv, FilesBack

-----------------------------------------------------------------------------
(* The actions *)

LEMMA InitFile == ASSUME Init PROVE FileInv
  <1>1. /\ height = 0 /\ files = <<>> /\ moves = <<>> /\ fills = <<>>
        /\ DOMAIN orders = {} /\ DOMAIN info = {} /\ DOMAIN was = {} /\ DOMAIN ended = {}
        /\ undeployed = {}
    BY DEF Init, Ledger!AbsInit
  <1>2. <<>> \in Seq(FileRows) /\ <<>> \in Seq(MoveRows) /\ <<>> \in Seq(FillRows)
        /\ DOMAIN <<>> = {} /\ 0..(0 - 1) = {}
    OBVIOUS
  <1>3. TypeOK
    BY <1>1, <1>2 DEF TypeOK, Orders
  <1>4. Recorded /\ OneOwner /\ OpenOrderHoldsFile
    BY <1>1, <1>2 DEF Recorded, OneOwner, OpenOrderHoldsFile
  <1>5. QED
    BY <1>1, <1>3, <1>4 DEF FileInv

LEMMA DeployFile ==
    ASSUME FileInv, NEW f \in Files, Deploy(f)
    PROVE  FileInv'
  <1> DEFINE row == Row(f, Deployer[f])
             r == [from |-> NoAddr, to |-> NoAddr, file |-> f, height |-> height]
             n == Len(files)
  <1>1. TypeOK /\ Recorded /\ OneOwner /\ OpenOrderHoldsFile
    BY DEF FileInv
  <1>2. /\ files' = Append(files, row) /\ moves' = Append(moves, r)
        /\ UNCHANGED <<ended, height, orders, fills, was, undeployed>>
        /\ f \notin DOMAIN info
        /\ info' = [t \in DOMAIN info \cup {f} |-> IF t = f THEN height ELSE info[t]]
    BY DEF Deploy, Decoded
  <1>3. row \in FileRows /\ row.file = f
    BY FileExchangeAssumption DEF FileRows, Row, Accounts
  <1>4. r \in MoveRows /\ r.height = height /\ r.from = NoAddr /\ r.to = NoAddr /\ r.file = f
    BY <1>1 DEF MoveRows, TypeOK
  <1>5. InfoGrows /\ f \in DOMAIN info' /\ info'[f] = height
    BY <1>2 DEF InfoGrows
  <1> HIDE DEF row, r, n
  <1>6. /\ n \in Nat /\ files \in Seq(FileRows) /\ files' \in Seq(FileRows)
        /\ DOMAIN files = 1..n /\ DOMAIN files' = 1..(n + 1) /\ Len(files) = n
        /\ Len(files') = n + 1
        /\ files'[n + 1] = row /\ \A i \in 1..n : files'[i] = files[i]
    BY <1>1, <1>2, <1>3, AppendProperties, LenProperties DEF TypeOK, n
  <1>7. /\ moves' \in Seq(MoveRows) /\ Ascending(moves')
        /\ \A i \in DOMAIN moves' : moves'[i].height <= height
    <2>1. /\ moves \in Seq(MoveRows) /\ Ascending(moves)
          /\ \A i \in DOMAIN moves : moves[i].height <= r.height
      BY <1>1, <1>4 DEF TypeOK, Recorded, Ascending
    <2>2. \A q \in MoveRows : q.height \in Nat
      BY DEF MoveRows
    <2>3. QED
      BY <1>2, <1>4, <2>1, <2>2, RowAdded
  <1>8. TypeOK'
    BY <1>1, <1>2, <1>6, <1>7 DEF TypeOK, Orders
  <1>9. Recorded'
    <2>1. \A i \in DOMAIN files' : files'[i].file \in DOMAIN info' \cup undeployed'
      <3>1. \A i \in 1..(n + 1) : i = n + 1 \/ i \in 1..n
        BY <1>6
      <3>2. \A i \in 1..n : files'[i].file \in DOMAIN info' \cup undeployed'
        BY <1>1, <1>2, <1>5, <1>6 DEF Recorded, InfoGrows
      <3>3. QED
        BY <1>3, <1>5, <1>6, <3>1, <3>2
    <2>2. QED
      BY <1>1, <1>2, <1>5, <1>7, <2>1 DEF Recorded, Ascending, InfoGrows
  <1>10. \A i \in DOMAIN files : files[i].file # f \/ f \in undeployed
    BY <1>1, <1>2 DEF Recorded
  <1>11. OneOwner'
    <2>1. SUFFICES ASSUME NEW i \in DOMAIN files', NEW j \in DOMAIN files',
                          files'[i].file = files'[j].file,
                          files'[i].file \notin undeployed
                   PROVE  i = j
      BY <1>2 DEF OneOwner
    <2>2. (i = n + 1 \/ i \in 1..n) /\ (j = n + 1 \/ j \in 1..n)
      BY <1>6
    <2>3. CASE i \in 1..n /\ j \in 1..n
      BY <1>1, <1>6, <2>1, <2>3 DEF OneOwner
    <2>4. CASE i = n + 1 /\ j \in 1..n
      BY <1>3, <1>6, <1>10, <2>1, <2>4
    <2>5. CASE j = n + 1 /\ i \in 1..n
      BY <1>3, <1>6, <1>10, <2>1, <2>5
    <2>6. QED
      BY <2>2, <2>3, <2>4, <2>5
  <1>12. OpenOrderHoldsFile'
    <2>1. SUFFICES ASSUME NEW e \in DOMAIN orders, ~orders[e],
                          Offer[e].file \notin undeployed
                   PROVE  Owners(files', Offer[e].file) = {Reserve[e]}
      BY <1>2 DEF OpenOrderHoldsFile
    <2> DEFINE g == Offer[e].file
    <2>2. Owners(files, g) = {Reserve[e]}
      BY <1>1, <2>1 DEF OpenOrderHoldsFile
    <2>3. PICK i \in DOMAIN files : files[i].file = g
      BY <2>2 DEF Owners
    <2>4. g # f
      BY <1>10, <2>1, <2>3
    <2> HIDE DEF g
    <2>5. \A j \in DOMAIN files' : files'[j].file = g => j \in DOMAIN files /\ files'[j] = files[j]
      <3>1. \A j \in 1..(n + 1) : j = n + 1 \/ j \in 1..n
        BY <1>6
      <3>2. QED
        BY <1>3, <1>6, <2>4, <3>1
    <2>6. \A j \in DOMAIN files : j \in DOMAIN files' /\ files'[j] = files[j]
      BY <1>6
    <2>7. Owners(files', g) = Owners(files, g)
      BY <2>5, <2>6 DEF Owners
    <2>8. QED
      BY <2>2, <2>7 DEF g
  <1>13. ASSUME NEW h \in DOMAIN was
         PROVE  (Since(h) /\ FilesBack(h) /\ OrdersBack(h) /\ HeldThen(h))'
    <2>1. /\ Since(h) /\ FilesBack(h) /\ OrdersBack(h) /\ HeldThen(h)
          /\ h \in Nat /\ height > h /\ height \in Nat /\ was[h].files \in Seq(FileRows)
      BY <1>1 DEF FileInv, TypeOK
    <2>2. Since(h)'
      <3>1. Len(was'[h].files) <= Len(files') /\ Len(was[h].files) \in Nat
            /\ Len(was[h].files) <= n
        BY <1>2, <1>6, <2>1 DEF Since
      <3>2. ASSUME NEW i \in DOMAIN files'
            PROVE  IF i <= Len(was'[h].files) THEN files'[i].file = was'[h].files[i].file
                   ELSE files'[i].file \in undeployed'
                        \/ (files'[i].file \in DOMAIN info' /\ info'[files'[i].file] > h)
        <4>1. CASE i \in 1..n
          BY <1>2, <1>5, <1>6, <2>1, <4>1 DEF Since, InfoGrows
        <4>2. CASE i = n + 1
          BY <1>2, <1>3, <1>5, <1>6, <2>1, <3>1, <4>2
        <4>3. QED
          BY <1>6, <4>1, <4>2
      <3>3. \A e \in DOMAIN was'[h].orders : e \in DOMAIN info' /\ info'[e] <= h
        BY <1>2, <1>5, <2>1 DEF Since, InfoGrows
      <3>4. QED
        BY <3>1, <3>2, <3>3 DEF Since
    <2>3. FilesBack(h)'
      <3>1. SUFFICES ASSUME FillsUndone(h), NEW i \in DOMAIN was[h].files,
                            was[h].files[i].file \notin undeployed
                     PROVE  MovesUndone(files', moves', h)[i] = was[h].files[i]
        BY <1>2 DEF FilesBack, FillsUndone
      <3>2. i \in DOMAIN files
        BY <1>6, <2>1 DEF Since
      <3> DEFINE V == UndoStep(files', r, h)
      <3>3. V \in Seq(FileRows) /\ MovesUndone(files', Append(moves, r), h) = MovesUndone(V, moves, h)
        <4>1. moves \in Seq(MoveRows)
          BY <1>1 DEF TypeOK
        <4>2. QED
          BY <1>4, <1>6, <4>1, UndoneAppend
      <3>4. V = [j \in DOMAIN files' |-> BackOf(files'[j], r)]
        BY <1>4, <1>6, <2>1, UndoMoveRows DEF UndoStep
      <3>5. i \in DOMAIN V /\ V[i] = files[i]
        <4>1. i \in DOMAIN files' /\ files'[i] = files[i]
          BY <1>6, <3>2
        <4>2. BackOf(files'[i], r) = files'[i]
          BY <1>4 DEF BackOf
        <4>3. QED
          BY <3>4, <4>1, <4>2
      <3> HIDE DEF V
      <3>6. MovesUndone(V, moves, h)[i] = MovesUndone(files, moves, h)[i]
        <4>1. moves \in Seq(MoveRows) /\ files \in Seq(FileRows) /\ V \in Seq(FileRows)
          BY <1>1, <3>3 DEF TypeOK
        <4>2. i \in DOMAIN V \cap DOMAIN files /\ V[i] = files[i]
          BY <3>2, <3>5
        <4>3. QED
          BY ONLY <4>1, <4>2, UndoneAgree
      <3>7. QED
        BY <1>2, <2>1, <3>1, <3>3, <3>6 DEF FilesBack
    <2>4. OrdersBack(h)'
      BY <1>2, <2>1 DEF OrdersBack, FillsUndone, CreatedAbove
    <2>5. HeldThen(h)'
      BY <1>2, <2>1 DEF HeldThen
    <2>6. QED
      BY <2>2, <2>3, <2>4, <2>5
  <1>14. QED
    BY <1>2, <1>8, <1>9, <1>11, <1>12, <1>13 DEF FileInv

\* What holds of the other tables after a move, whatever it is part of.
LEMMA MoveShared ==
    ASSUME FileInv, NEW f \in Files, NEW from \in Accounts, NEW to \in Accounts,
           TransferFile(f, from, to), InfoGrows,
           UNCHANGED <<height, ended, was, undeployed>>
    PROVE  /\ files' \in Seq(FileRows) /\ moves' \in Seq(MoveRows)
           /\ \A i, j \in DOMAIN moves' : i <= j => moves'[i].height <= moves'[j].height
           /\ \A i \in DOMAIN moves' : moves'[i].height <= height'
           /\ \A i \in DOMAIN files' : files'[i].file \in DOMAIN info' \cup undeployed'
           /\ OneOwner'
           /\ \A h \in DOMAIN was : Since(h)' /\ HeldThen(h)'
           /\ \A g, a : a # from /\ Owners(files, g) = {a} => Owners(files', g) = {a}
  <1>1. TypeOK /\ Recorded /\ OneOwner
    BY DEF FileInv
  <1>2. /\ files' \in Seq(FileRows) /\ SameFiles(files', files)
        /\ files' = MoveFile(files, f, from, to)
        /\ moves' \in Seq(MoveRows)
        /\ Ascending(moves')
        /\ \A i \in DOMAIN moves' : moves'[i].height <= height
    BY <1>1, MoveJournalled
  <1>3. files \in Seq(FileRows)
    BY <1>1 DEF TypeOK
  <1>4. OneOwner'
    BY <1>1, <1>2, <1>3, OneOwnerKept
  <1>5. \A i \in DOMAIN files' : files'[i].file \in DOMAIN info' \cup undeployed'
    <2>1. DOMAIN files' = DOMAIN files
      BY <1>2, <1>3 DEF SameFiles
    <2>2. \A i \in DOMAIN files : files'[i].file = files[i].file
      BY <1>2, <2>1 DEF SameFiles
    <2>3. QED
      BY <1>1, <2>1, <2>2 DEF Recorded, InfoGrows
  <1>6. ASSUME NEW h \in DOMAIN was PROVE Since(h)' /\ HeldThen(h)'
    <2>1. Since(h) /\ HeldThen(h)
      BY DEF FileInv
    <2>2. Since(h)'
      BY <1>2, <1>3, <2>1, SinceKept
    <2>3. HeldThen(h)'
      BY <2>1, HeldThenKept
    <2>4. QED
      BY <2>2, <2>3
  <1>7. ASSUME NEW g, NEW a, a # from, Owners(files, g) = {a} PROVE Owners(files', g) = {a}
    <2>1. PICK T : T = files
      OBVIOUS
    <2>2. T \in Seq(FileRows) /\ IsOwner(T, g, a)
      BY <1>3, <1>7, <2>1 DEF IsOwner
    <2>3. IsOwner(MoveFile(T, f, from, to), g, a)
      BY ONLY <1>7, <2>2, OwnersKept, f \in Files, to \in Accounts
    <2>4. QED
      BY <1>2, <2>1, <2>3 DEF IsOwner
  <1>8. QED
    BY <1>2, <1>4, <1>5, <1>6, <1>7 DEF Ascending

\* No order is open for a file that a user has.
LEMMA UsersAndReserves ==
    ASSUME NEW u \in Users, NEW e \in ExIds
    PROVE  u # Reserve[e] /\ u \in Accounts /\ Reserve[e] \in Accounts
  BY FileExchangeAssumption DEF Accounts

LEMMA TransferFiles ==
    ASSUME FileInv, NEW f \in Files, NEW from \in Users, NEW to \in Accounts,
           Transfer(f, from, to)
    PROVE  FileInv'
  <1>1. TypeOK /\ Recorded /\ OneOwner /\ OpenOrderHoldsFile
    BY DEF FileInv
  <1>2. /\ TransferFile(f, from, to) /\ Holds(from, f) /\ from \in Accounts
        /\ UNCHANGED <<ended, height, orders, fills, info, was, undeployed>>
    BY DEF Transfer, Accounts
  <1>3. InfoGrows
    BY <1>2 DEF InfoGrows
  <1>4. /\ files' \in Seq(FileRows) /\ moves' \in Seq(MoveRows)
        /\ \A i, j \in DOMAIN moves' : i <= j => moves'[i].height <= moves'[j].height
        /\ \A i \in DOMAIN moves' : moves'[i].height <= height'
        /\ \A i \in DOMAIN files' : files'[i].file \in DOMAIN info' \cup undeployed'
        /\ OneOwner'
        /\ \A h \in DOMAIN was : Since(h)' /\ HeldThen(h)'
        /\ \A g, a : a # from /\ Owners(files, g) = {a} => Owners(files', g) = {a}
    BY <1>2, <1>3, MoveShared
  <1>5. TypeOK'
    BY <1>1, <1>2, <1>4 DEF TypeOK, Orders
  <1>6. Recorded'
    BY <1>1, <1>2, <1>4 DEF Recorded
  <1>7. OpenOrderHoldsFile'
    <2>1. \A e \in DOMAIN orders : Reserve[e] # from
      BY <1>1, UsersAndReserves DEF TypeOK, Orders
    <2>2. QED
      BY <1>1, <1>2, <1>4, <2>1 DEF OpenOrderHoldsFile
  <1>8. ASSUME NEW h \in DOMAIN was PROVE FilesBack(h)' /\ OrdersBack(h)'
    <2>1. FillsUndone(h)' => FillsUndone(h)
      BY <1>2 DEF FillsUndone
    <2>2. FilesBack(h)'
      BY <1>2, <2>1, MoveComesBack DEF FilesBack
    <2>3. OrdersBack(h)
      BY DEF FileInv
    <2>4. OrdersBack(h)'
      BY <1>2, <2>3 DEF OrdersBack, FillsUndone, CreatedAbove
    <2>5. QED
      BY <2>2, <2>4
  <1>9. QED
    BY <1>2, <1>4, <1>5, <1>6, <1>7, <1>8 DEF FileInv

\* An info row is added, of this block.
LEMMA InfoAdded ==
    ASSUME NEW t, Decoded(t)
    PROVE  /\ t \notin DOMAIN info /\ DOMAIN info' = DOMAIN info \cup {t}
           /\ info'[t] = height /\ InfoGrows
  BY DEF Decoded, InfoGrows

\* A row of this block in file_exchange_revert.
LEMMA FillJournalled ==
    ASSUME TypeOK, Recorded, NEW op \in {"create", "trade", "cancel"}, NEW e \in ExIds,
           Journal(op, e)
    PROVE  /\ fills' \in Seq(FillRows)
           /\ \A i \in DOMAIN fills' : fills'[i].height <= height
           /\ \A h \in DOMAIN was :
                 /\ FillsUndone(h)' => FillsUndone(h) /\ op = "create"
                 /\ CreatedAbove(h)' = CreatedAbove(h) \cup {e}
  <1> DEFINE r == [op |-> op, exId |-> e, height |-> height]
             n == Len(fills)
  <1>1. fills' = Append(fills, r)
    BY DEF Journal
  <1>2. r \in FillRows /\ r.height = height /\ r.op = op /\ r.exId = e
    BY DEF FillRows, TypeOK
  <1>3. /\ fills \in Seq(FillRows) /\ \A i \in DOMAIN fills : fills[i].height <= r.height
        /\ \A q \in FillRows : q.height \in Nat
    BY DEF TypeOK, Recorded, FillRows
  <1> HIDE DEF r
  <1>4. fills' \in Seq(FillRows) /\ \A i \in DOMAIN fills' : fills'[i].height <= r.height
    BY <1>1, <1>2, <1>3, RowAdded
  <1>5. /\ n \in Nat /\ DOMAIN fills' = 1..(n + 1) /\ DOMAIN fills = 1..n
        /\ fills'[n + 1] = r /\ \A i \in 1..n : fills'[i] = fills[i]
    BY <1>1, <1>2, <1>3, AppendProperties, LenProperties
  <1> HIDE DEF n
  <1>6. ASSUME NEW h \in DOMAIN was
        PROVE  /\ FillsUndone(h)' => FillsUndone(h) /\ op = "create"
               /\ CreatedAbove(h)' = CreatedAbove(h) \cup {e}
    <2>1. h \in Nat /\ height \in Nat /\ height > h
      BY DEF TypeOK
    <2>2. n + 1 \in DOMAIN fills' /\ \A i \in DOMAIN fills : i \in DOMAIN fills'
      BY <1>5
    <2>3. FillsUndone(h)' => FillsUndone(h) /\ op = "create"
      BY <1>2, <1>5, <2>1, <2>2 DEF FillsUndone
    <2>4. CreatedAbove(h)' = {fills'[i].exId : i \in {j \in DOMAIN fills' : fills'[j].height > h}}
      BY DEF CreatedAbove
    <2>5. \A i \in DOMAIN fills' : i \in DOMAIN fills \/ i = n + 1
      BY <1>5
    <2>6. \A x : x \in CreatedAbove(h)' <=> x \in CreatedAbove(h) \/ x = e
      <3>1. ASSUME NEW x \in CreatedAbove(h)' PROVE x \in CreatedAbove(h) \/ x = e
        BY <1>2, <1>5, <2>4, <2>5 DEF CreatedAbove
      <3>2. e \in CreatedAbove(h)'
        BY <1>2, <1>5, <2>1, <2>2, <2>4
      <3>3. ASSUME NEW x \in CreatedAbove(h) PROVE x \in CreatedAbove(h)'
        <4>1. PICK i \in DOMAIN fills : fills[i].height > h /\ x = fills[i].exId
          BY <3>3 DEF CreatedAbove
        <4>2. i \in DOMAIN fills' /\ fills'[i] = fills[i]
          BY <1>5, <2>2
        <4>3. QED
          BY <2>4, <4>1, <4>2
      <3>4. QED
        BY <3>1, <3>2, <3>3
    <2>7. QED
      BY <2>3, <2>6
  <1>7. QED
    BY <1>2, <1>4, <1>6

LEMMA CreateFiles ==
    ASSUME FileInv, NEW e \in ExIds, Create(e)
    PROVE  FileInv'
  <1> DEFINE f == Offer[e].file
             u == Offer[e].holder
             R == Reserve[e]
  <1>1. TypeOK /\ Recorded /\ OneOwner /\ OpenOrderHoldsFile
    BY DEF FileInv
  <1>2. /\ TransferFile(f, u, R) /\ Holds(u, f) /\ Decoded(e) /\ Journal("create", e)
        /\ orders' = [x \in DOMAIN orders \cup {e} |-> IF x = e THEN FALSE ELSE orders[x]]
        /\ UNCHANGED <<bal, ended, height, was, undeployed>>
    BY DEF Create, VerifyFileExchangeCreate
  <1>3. f \in Files /\ u \in Users /\ u \in Accounts /\ R \in Accounts
    BY FileExchangeAssumption DEF Offers, Accounts
  <1>4. /\ e \notin DOMAIN info /\ DOMAIN info' = DOMAIN info \cup {e}
        /\ info'[e] = height /\ InfoGrows
    BY <1>2, InfoAdded
  <1> HIDE DEF f, u, R
  <1>5. /\ files' \in Seq(FileRows) /\ moves' \in Seq(MoveRows)
        /\ \A i, j \in DOMAIN moves' : i <= j => moves'[i].height <= moves'[j].height
        /\ \A i \in DOMAIN moves' : moves'[i].height <= height'
        /\ \A i \in DOMAIN files' : files'[i].file \in DOMAIN info' \cup undeployed'
        /\ OneOwner'
        /\ \A h \in DOMAIN was : Since(h)' /\ HeldThen(h)'
        /\ \A g, a : a # u /\ Owners(files, g) = {a} => Owners(files', g) = {a}
    BY <1>2, <1>3, <1>4, MoveShared
  <1>6. /\ fills' \in Seq(FillRows)
        /\ \A i \in DOMAIN fills' : fills'[i].height <= height
        /\ \A h \in DOMAIN was : /\ FillsUndone(h)' => FillsUndone(h)
                                 /\ CreatedAbove(h)' = CreatedAbove(h) \cup {e}
    BY <1>1, <1>2, FillJournalled
  <1>7. TypeOK'
    <2>1. Orders(orders')
      BY <1>1, <1>2 DEF TypeOK, Orders
    <2>2. DOMAIN info' \subseteq Files \cup ExIds /\ \A t \in DOMAIN info' : info'[t] \in 0..height'
      BY <1>1, <1>2, <1>4 DEF TypeOK, InfoGrows
    <2>3. QED
      BY <1>1, <1>2, <1>5, <1>6, <2>1, <2>2 DEF TypeOK
  <1>8. Recorded'
    BY <1>1, <1>2, <1>4, <1>5, <1>6 DEF Recorded
  <1>9. OpenOrderHoldsFile'
    <2>1. SUFFICES ASSUME NEW x \in DOMAIN orders', ~orders'[x],
                          Offer[x].file \notin undeployed
                   PROVE  Owners(files', Offer[x].file) = {Reserve[x]}
      BY <1>2 DEF OpenOrderHoldsFile
    <2>2. CASE x = e
      <3>1. PICK i \in DOMAIN files : files[i] = Row(f, u)
        BY <1>2 DEF Holds
      <3>2. \A j \in DOMAIN files : files[j].file = f => j = i
        <4>1. files[i].file = f /\ f \notin undeployed
          BY <2>1, <2>2, <3>1 DEF Row, f
        <4>2. QED
          BY <1>1, <4>1 DEF OneOwner
      <3>3. files' = MoveFile(files, f, u, R) /\ files \in Seq(FileRows)
        BY <1>1, <1>2 DEF TransferFile, TypeOK
      <3>4. PICK T : T = files
        OBVIOUS
      <3>5. /\ T \in Seq(FileRows) /\ i \in DOMAIN T /\ T[i] = Row(f, u)
            /\ \A j \in DOMAIN T : T[j].file = f => j = i
        BY <3>1, <3>2, <3>3, <3>4
      <3>6. Owners(MoveFile(T, f, u, R), f) = {R}
        BY ONLY <1>3, <3>5, OwnerMoved
      <3>7. QED
        BY <2>2, <3>3, <3>4, <3>6 DEF f, R
    <2>3. CASE x # e
      <3>1. x \in DOMAIN orders /\ ~orders[x] /\ x \in ExIds
        BY <1>1, <1>2, <2>1, <2>3 DEF TypeOK, Orders
      <3>2. Owners(files, Offer[x].file) = {Reserve[x]} /\ Reserve[x] # u
        BY <1>1, <1>3, <2>1, <3>1, UsersAndReserves DEF OpenOrderHoldsFile
      <3>3. QED
        BY <1>5, <3>2
    <2>4. QED
      BY <2>2, <2>3
  <1>10. ASSUME NEW h \in DOMAIN was PROVE FilesBack(h)' /\ OrdersBack(h)'
    <2>1. /\ FillsUndone(h)' => FillsUndone(h)
          /\ CreatedAbove(h)' = CreatedAbove(h) \cup {e}
      BY <1>6
    <2>2. FilesBack(h)'
      BY <1>2, <1>3, <2>1, MoveComesBack DEF FilesBack
    <2>3. OrdersBack(h)
      BY DEF FileInv
    <2>4. DOMAIN orders' \ CreatedAbove(h)' = DOMAIN orders \ CreatedAbove(h)
      BY <1>1, <1>2, <1>4, <2>1 DEF Recorded
    <2>5. \A x \in DOMAIN orders \ CreatedAbove(h) : orders'[x] = orders[x]
      BY <1>1, <1>2, <1>4 DEF Recorded
    <2>6. OrdersBack(h)'
      BY <1>2, <2>1, <2>3, <2>4, <2>5 DEF OrdersBack
    <2>7. QED
      BY <2>2, <2>6
  <1>11. QED
    BY <1>2, <1>5, <1>7, <1>8, <1>9, <1>10 DEF FileInv

LEMMA RefuseFiles ==
    ASSUME FileInv, NEW e \in ExIds, CreateRefused(e)
    PROVE  FileInv'
  <1>1. TypeOK /\ Recorded /\ OneOwner /\ OpenOrderHoldsFile
    BY DEF FileInv
  <1>2. /\ Decoded(e)
        /\ UNCHANGED <<bal, ended, height, files, moves, orders, fills, was, undeployed>>
    BY DEF CreateRefused
  <1>3. /\ e \notin DOMAIN info /\ DOMAIN info' = DOMAIN info \cup {e}
        /\ info'[e] = height /\ InfoGrows
    BY <1>2, InfoAdded
  <1>4. TypeOK'
    BY <1>1, <1>2, <1>3 DEF TypeOK, Orders, InfoGrows
  <1>5. Recorded' /\ OneOwner' /\ OpenOrderHoldsFile'
    BY <1>1, <1>2, <1>3 DEF Recorded, OneOwner, OpenOrderHoldsFile
  <1>6. ASSUME NEW h \in DOMAIN was
        PROVE  (Since(h) /\ FilesBack(h) /\ OrdersBack(h) /\ HeldThen(h))'
    <2>1. Since(h) /\ FilesBack(h) /\ OrdersBack(h) /\ HeldThen(h)
      BY DEF FileInv
    <2>2. Since(h)'
      <3>1. SameFiles(files', files) /\ files \in Seq(FileRows) /\ files' \in Seq(FileRows)
        BY <1>1, <1>2 DEF SameFiles, TypeOK
      <3>2. QED
        BY <1>2, <1>3, <2>1, <3>1, SinceKept
    <2>3. FilesBack(h)' /\ OrdersBack(h)' /\ HeldThen(h)'
      BY <1>2, <2>1 DEF FilesBack, OrdersBack, HeldThen, FillsUndone, CreatedAbove
    <2>4. QED
      BY <2>2, <2>3
  <1>7. QED
    BY <1>2, <1>4, <1>5, <1>6 DEF FileInv

\* A trade and a cancel give the file from the order's address to u.
LEMMA CloseOrder ==
    ASSUME FileInv, NEW e \in DOMAIN orders, NEW u \in Users,
           NEW op \in {"trade", "cancel"},
           TransferFile(Offer[e].file, Reserve[e], u), Journal(op, e),
           orders' = [orders EXCEPT ![e] = TRUE],
           UNCHANGED <<ended, height, info, was, undeployed>>
    PROVE  FileInv'
  <1> DEFINE f == Offer[e].file
             R == Reserve[e]
  <1>1. TypeOK /\ Recorded /\ OneOwner /\ OpenOrderHoldsFile /\ e \in ExIds
    BY DEF FileInv, TypeOK, Orders
  <1>2. f \in Files /\ u \in Accounts /\ R \in Accounts
    BY <1>1, FileExchangeAssumption DEF Offers, Accounts
  <1>3. InfoGrows
    BY DEF InfoGrows
  <1>4. TransferFile(f, R, u)
    OBVIOUS
  <1> HIDE DEF f, R
  <1>5. /\ files' \in Seq(FileRows) /\ moves' \in Seq(MoveRows)
        /\ \A i, j \in DOMAIN moves' : i <= j => moves'[i].height <= moves'[j].height
        /\ \A i \in DOMAIN moves' : moves'[i].height <= height'
        /\ \A i \in DOMAIN files' : files'[i].file \in DOMAIN info' \cup undeployed'
        /\ OneOwner'
        /\ \A h \in DOMAIN was : Since(h)' /\ HeldThen(h)'
        /\ \A g, a : a # R /\ Owners(files, g) = {a} => Owners(files', g) = {a}
    BY <1>2, <1>3, <1>4, MoveShared
  <1>6. /\ fills' \in Seq(FillRows)
        /\ \A i \in DOMAIN fills' : fills'[i].height <= height
        /\ \A h \in DOMAIN was : ~FillsUndone(h)'
    BY <1>1, FillJournalled
  <1>7. TypeOK'
    BY <1>1, <1>5, <1>6 DEF TypeOK, Orders
  <1>8. Recorded'
    BY <1>1, <1>5, <1>6 DEF Recorded
  <1>9. OpenOrderHoldsFile'
    <2>1. SUFFICES ASSUME NEW x \in DOMAIN orders', ~orders'[x],
                          Offer[x].file \notin undeployed
                   PROVE  Owners(files', Offer[x].file) = {Reserve[x]}
      BY DEF OpenOrderHoldsFile
    <2>2. x \in DOMAIN orders /\ x # e /\ ~orders[x] /\ x \in ExIds
      BY <1>1, <2>1 DEF TypeOK, Orders
    <2>3. Owners(files, Offer[x].file) = {Reserve[x]} /\ Reserve[x] # R
      BY <1>1, <2>1, <2>2, FileExchangeAssumption DEF OpenOrderHoldsFile, R
    <2>4. QED
      BY <1>5, <2>3
  <1>10. ASSUME NEW h \in DOMAIN was PROVE FilesBack(h)' /\ OrdersBack(h)'
    BY <1>6 DEF FilesBack, OrdersBack
  <1>11. QED
    BY <1>5, <1>7, <1>8, <1>9, <1>10 DEF FileInv

LEMMA TradeFiles ==
    ASSUME FileInv, NEW e \in ExIds, NEW u \in Users, Trade(e, u)
    PROVE  FileInv'
  BY CloseOrder DEF Trade, VerifyFileExchangeTrade

LEMMA CancelFiles ==
    ASSUME FileInv, NEW e \in ExIds, NEW u \in Users, Cancel(e, u)
    PROVE  FileInv'
  BY CloseOrder DEF Cancel, VerifyFileExchangeCancel

LEMMA EndBlockFiles ==
    ASSUME FileInv, NextBlock
    PROVE  FileInv'
  <1>1. TypeOK /\ Recorded /\ OneOwner /\ OpenOrderHoldsFile
    BY DEF FileInv
  <1>2. /\ UNCHANGED <<files, moves, orders, fills, info, undeployed>>
        /\ height' = height + 1
        /\ ended' = [h \in 0..height |-> IF h = height THEN bal ELSE ended[h]]
        /\ was' = [h \in 0..height |->
                 IF h = height THEN [files |-> files, orders |-> orders] ELSE was[h]]
    BY DEF NextBlock, Ledger!EndBlock
  <1>3. /\ height \in Nat /\ DOMAIN was' = 0..height /\ DOMAIN was = 0..(height - 1)
        /\ \A h \in DOMAIN was' : h = height \/ h \in DOMAIN was
        /\ was'[height].files = files /\ was'[height].orders = orders
        /\ \A h \in DOMAIN was : was'[h] = was[h] /\ h \in DOMAIN was'
    BY <1>1, <1>2 DEF TypeOK
  <1>4. TypeOK'
    <2>1. /\ height' \in Nat /\ DOMAIN ended' = 0..(height' - 1)
          /\ DOMAIN was' = DOMAIN ended'
      BY <1>1, <1>2, <1>3 DEF TypeOK
    <2>2. \A t \in DOMAIN info' : info'[t] \in 0..height'
      BY <1>1, <1>2, <1>3 DEF TypeOK
    <2>3. \A h \in DOMAIN was' : was'[h].files \in Seq(FileRows) /\ Orders(was'[h].orders)
      BY <1>1, <1>3 DEF TypeOK
    <2>4. QED
      BY <1>1, <1>2, <2>1, <2>2, <2>3 DEF TypeOK
  <1>5. Recorded'
    <2>1. /\ \A i \in DOMAIN moves : moves[i] \in MoveRows
          /\ \A i \in DOMAIN fills : fills[i] \in FillRows
      BY <1>1, ElementOfSeq DEF TypeOK
    <2>2. /\ \A i \in DOMAIN moves : moves[i].height \in Nat
          /\ \A i \in DOMAIN fills : fills[i].height \in Nat
      BY <2>1 DEF MoveRows, FillRows
    <2>3. QED
      BY <1>1, <1>2, <1>3, <2>2 DEF Recorded
  <1>6. OneOwner' /\ OpenOrderHoldsFile'
    BY <1>1, <1>2 DEF OneOwner, OpenOrderHoldsFile
  <1>7. ASSUME NEW h \in DOMAIN was
        PROVE  (Since(h) /\ FilesBack(h) /\ OrdersBack(h) /\ HeldThen(h))'
    <2>1. Since(h) /\ FilesBack(h) /\ OrdersBack(h) /\ HeldThen(h)
      BY DEF FileInv
    <2>2. was'[h] = was[h]
      BY <1>3
    <2>3. Since(h)'
      BY <1>2, <2>1, <2>2 DEF Since
    <2>4. FilesBack(h)'
      BY <1>2, <2>1, <2>2 DEF FilesBack, FillsUndone
    <2>5. OrdersBack(h)'
      BY <1>2, <2>1, <2>2 DEF OrdersBack, FillsUndone, CreatedAbove
    <2>6. HeldThen(h)'
      BY <1>2, <2>1, <2>2 DEF HeldThen
    <2>7. QED
      BY <2>3, <2>4, <2>5, <2>6
  <1>8. PICK h : h = height
    OBVIOUS
  <1>9. (Since(h) /\ FilesBack(h) /\ OrdersBack(h) /\ HeldThen(h))'
    <2>1. was'[h].files = files /\ was'[h].orders = orders /\ h \in Nat
      BY <1>3, <1>8
    <2>2. Since(h)'
      <3>1. Len(files) \in Nat /\ DOMAIN files = 1..Len(files)
        BY <1>1 DEF TypeOK
      <3>2. \A e \in DOMAIN orders : e \in DOMAIN info /\ info[e] <= h
        BY <1>1, <1>8 DEF Recorded, TypeOK
      <3>3. \A i \in DOMAIN files : i <= Len(files)
        BY <3>1
      <3>4. Len(was'[h].files) <= Len(files')
        BY <1>2, <2>1, <3>1
      <3>5. \A i \in DOMAIN files' :
               i <= Len(was'[h].files) /\ files'[i].file = was'[h].files[i].file
        BY <1>2, <2>1, <3>3
      <3>6. \A e \in DOMAIN was'[h].orders : e \in DOMAIN info' /\ info'[e] <= h
        BY <1>2, <2>1, <3>2
      <3>7. QED
        BY <3>4, <3>5, <3>6 DEF Since
    <2>3. MovesUndone(files, moves, h) = files
      BY <1>1, <1>8, <2>1, UndoneNothing DEF TypeOK, Recorded
    <2>4. FilesBack(h)'
      BY <1>2, <2>1, <2>3 DEF FilesBack
    <2>5. CreatedAbove(h)' = {}
      <3>1. \A i \in DOMAIN fills : ~(fills[i].height > h)
        <4>1. \A i \in DOMAIN fills : fills[i] \in FillRows
          BY <1>1, ElementOfSeq DEF TypeOK
        <4>2. \A i \in DOMAIN fills : fills[i].height \in Nat
          BY <4>1 DEF FillRows
        <4>3. QED
          BY <1>1, <1>8, <2>1, <4>2 DEF Recorded
      <3>2. QED
        BY <1>2, <3>1 DEF CreatedAbove
    <2>6. OrdersBack(h)'
      <3>1. orders = [e \in DOMAIN orders |-> orders[e]]
        BY <1>1 DEF TypeOK, Orders
      <3>2. QED
        BY <1>2, <2>1, <2>5, <3>1 DEF OrdersBack
    <2>7. HeldThen(h)'
      BY <1>1, <1>2, <2>1 DEF HeldThen, OpenOrderHoldsFile
    <2>8. QED
      BY <2>2, <2>4, <2>6, <2>7
  <1>10. \A g \in DOMAIN was' : (Since(g) /\ FilesBack(g) /\ OrdersBack(g) /\ HeldThen(g))'
    BY <1>3, <1>7, <1>8, <1>9
  <1>11. QED
    BY <1>4, <1>5, <1>6, <1>10 DEF FileInv

-----------------------------------------------------------------------------
(* Forks *)

Abandoned(h) == {f \in Files \cap DOMAIN info : info[f] > h}

LEMMA ForkParts ==
    ASSUME FileInv, NEW h \in DOMAIN ended, Fork(h)
    PROVE  /\ FillsUndone(h) /\ h \in DOMAIN was /\ h \in Nat /\ h < height /\ height \in Nat
           /\ height' = h /\ bal' = ended[h]
           /\ ended' = [g \in 0..(h - 1) |-> ended[g]]
           /\ was' = [g \in 0..(h - 1) |-> was[g]]
           /\ undeployed' = undeployed \cup Abandoned(h)
           /\ info' = [t \in {u \in DOMAIN info : info[u] <= h} |-> info[t]]
           /\ files' = MovesUndone(files, moves, h)
           /\ orders' = was[h].orders
           /\ moves' = UpTo(moves, h)
           /\ fills' = UpTo(fills, h)
  <1>1. /\ FillsUndone(h) /\ h \in DOMAIN was /\ h \in Nat /\ h < height /\ height \in Nat
    BY DEF FileInv, TypeOK, Fork
  <1>2. orders' = was[h].orders
    BY <1>1 DEF FileInv, OrdersBack, Fork
  <1>3. QED
    BY <1>1, <1>2 DEF Fork, Ledger!Rollback, Abandoned

LEMMA ForkRows ==
    ASSUME FileInv, NEW h \in DOMAIN ended, Fork(h)
    PROVE  /\ files \in Seq(FileRows) /\ files' \in Seq(FileRows) /\ SameFiles(files', files)
           /\ moves' \in Seq(MoveRows) /\ Keeps(moves', moves, h) /\ Ascending(moves')
           /\ fills' \in Seq(FillRows) /\ Keeps(fills', fills, h)
  <1>1. /\ files \in Seq(FileRows) /\ moves \in Seq(MoveRows) /\ fills \in Seq(FillRows)
        /\ Ascending(moves) /\ h \in Nat
    BY DEF FileInv, TypeOK, Recorded, Ascending
  <1>2. /\ files' = MovesUndone(files, moves, h) /\ moves' = UpTo(moves, h)
        /\ fills' = UpTo(fills, h)
    BY ForkParts
  <1>3. files' \in Seq(FileRows) /\ SameFiles(files', files)
    BY <1>1, <1>2, UndoneRows
  <1>4. \A q \in MoveRows : q.height \in Nat
    BY DEF MoveRows
  <1>5. moves' \in Seq(MoveRows) /\ Keeps(moves', moves, h)
    BY <1>1, <1>2, <1>4, KeepsUpTo
  <1>6. \A q \in FillRows : q.height \in Nat
    BY DEF FillRows
  <1>7. fills' \in Seq(FillRows) /\ Keeps(fills', fills, h)
    BY <1>1, <1>2, <1>6, KeepsUpTo
  <1>8. QED
    BY <1>1, <1>3, <1>5, <1>7 DEF Keeps

\* The owners of a file whose deploy is not abandoned are those of then.
LEMMA ForkOwners ==
    ASSUME FileInv, NEW h \in DOMAIN ended, Fork(h), NEW f \in Files \ undeployed'
    PROVE  Owners(files', f) = Owners(was[h].files, f)
  <1> DEFINE W == was[h].files
  <1>1. /\ FillsUndone(h) /\ h \in DOMAIN was
        /\ undeployed' = undeployed \cup Abandoned(h)
        /\ files' = MovesUndone(files, moves, h)
    BY ForkParts
  <1>2. files \in Seq(FileRows) /\ files' \in Seq(FileRows) /\ SameFiles(files', files)
    BY ForkRows
  <1>3. W \in Seq(FileRows) /\ Len(W) \in Nat /\ DOMAIN W = 1..Len(W)
    BY <1>1 DEF FileInv, TypeOK
  <1>4. DOMAIN files' = DOMAIN files /\ DOMAIN files = 1..Len(files) /\ Len(files) \in Nat
    BY <1>2 DEF SameFiles
  <1>5. \A i \in DOMAIN files : files'[i].file = files[i].file
    BY <1>2, <1>4 DEF SameFiles
  <1>6. ASSUME NEW i \in DOMAIN files, files'[i].file = f
        PROVE  i \in DOMAIN W /\ W[i] = files'[i]
    <2>1. files[i].file = f
      BY <1>5, <1>6
    <2>2. CASE i <= Len(W)
      <3>1. i \in DOMAIN W
        BY <1>3, <1>4, <2>2
      <3>2. W[i].file = f
        BY <1>1, <2>1, <2>2 DEF FileInv, Since
      <3>3. QED
        BY <1>1, <3>1, <3>2 DEF FileInv, FilesBack
    <2>3. CASE ~(i <= Len(W))
      <3>1. f \in undeployed \/ (f \in DOMAIN info /\ info[f] > h)
        BY <1>1, <2>1, <2>3 DEF FileInv, Since
      <3>2. QED
        BY <1>1, <3>1 DEF Abandoned
    <2>4. QED
      BY <2>2, <2>3
  <1>7. ASSUME NEW i \in DOMAIN W, W[i].file = f
        PROVE  i \in DOMAIN files' /\ W[i] = files'[i]
    <2>1. i \in DOMAIN files
      BY <1>1, <1>3, <1>4 DEF FileInv, Since
    <2>2. QED
      BY <1>1, <1>4, <1>7, <2>1 DEF FileInv, FilesBack
  <1> HIDE DEF W
  <1>8. Owners(files', f) = Owners(W, f)
    BY <1>4, <1>6, <1>7 DEF Owners
  <1>9. QED
    BY <1>8 DEF W

LEMMA ForkFiles ==
    ASSUME FileInv, NEW h \in DOMAIN ended, Fork(h)
    PROVE  FileInv'
  <1>1. TypeOK /\ Recorded /\ OneOwner /\ OpenOrderHoldsFile
    BY DEF FileInv
  <1>2. /\ FillsUndone(h) /\ h \in DOMAIN was /\ h \in Nat /\ h < height /\ height \in Nat
        /\ height' = h
        /\ ended' = [g \in 0..(h - 1) |-> ended[g]]
        /\ was' = [g \in 0..(h - 1) |-> was[g]]
        /\ undeployed' = undeployed \cup Abandoned(h)
        /\ info' = [t \in {u \in DOMAIN info : info[u] <= h} |-> info[t]]
        /\ files' = MovesUndone(files, moves, h)
        /\ orders' = was[h].orders
        /\ moves' = UpTo(moves, h)
    BY ForkParts
  <1>3. /\ files \in Seq(FileRows) /\ files' \in Seq(FileRows) /\ SameFiles(files', files)
        /\ moves' \in Seq(MoveRows) /\ Keeps(moves', moves, h) /\ Ascending(moves')
        /\ fills' \in Seq(FillRows) /\ Keeps(fills', fills, h)
    BY ForkRows
  <1>4. /\ DOMAIN was' = 0..(h - 1) /\ DOMAIN ended' = 0..(h - 1)
        /\ \A g \in DOMAIN was' : was'[g] = was[g] /\ g \in DOMAIN was /\ g \in Nat /\ g < h
    BY <1>1, <1>2 DEF TypeOK
  <1>5. /\ DOMAIN info' \subseteq DOMAIN info
        /\ \A t \in DOMAIN info' : info'[t] = info[t] /\ info[t] <= h
        /\ \A t \in DOMAIN info : info[t] \in 0..height /\ (t \in DOMAIN info' <=> info[t] <= h)
    BY <1>1, <1>2 DEF TypeOK
  <1>6. undeployed \subseteq undeployed' /\ undeployed' \subseteq Files
    BY <1>1, <1>2 DEF TypeOK, Abandoned
  <1>7. DOMAIN files' = DOMAIN files /\ \A i \in DOMAIN files : files'[i].file = files[i].file
    BY <1>3 DEF SameFiles
  <1>8. \A i \in DOMAIN files : files[i].file \in Files
    <2>1. \A i \in DOMAIN files : files[i] \in FileRows
      BY <1>3, ElementOfSeq
    <2>2. QED
      BY <2>1 DEF FileRows
  <1>9. \A f \in Files \cap DOMAIN info : f \in DOMAIN info' \/ f \in undeployed'
    BY <1>2, <1>5 DEF Abandoned
  <1>10. TypeOK'
    <2>1. Orders(orders')
      BY <1>1, <1>2 DEF TypeOK
    <2>2. \A t \in DOMAIN info' : info'[t] \in 0..height'
      BY <1>2, <1>5
    <2>3. DOMAIN info' \subseteq Files \cup ExIds
      BY <1>1, <1>5 DEF TypeOK
    <2>4. \A g \in DOMAIN was' : was'[g].files \in Seq(FileRows) /\ Orders(was'[g].orders)
      BY <1>1, <1>4 DEF TypeOK
    <2>5. QED
      BY <1>2, <1>3, <1>4, <1>6, <2>1, <2>2, <2>3, <2>4 DEF TypeOK
  <1>11. Recorded'
    <2>1. \A i \in DOMAIN files' : files'[i].file \in DOMAIN info' \cup undeployed'
      BY <1>1, <1>6, <1>7, <1>8, <1>9 DEF Recorded
    <2>2. DOMAIN orders' \subseteq DOMAIN info'
      BY <1>2, <1>5 DEF FileInv, Since
    <2>3. QED
      BY <1>2, <1>3, <2>1, <2>2 DEF Recorded, Keeps, Ascending
  <1>12. OneOwner'
    BY <1>1, <1>3, <1>6, OneOwnerKept
  <1>13. OpenOrderHoldsFile'
    <2>1. SUFFICES ASSUME NEW e \in DOMAIN orders', ~orders'[e],
                          Offer[e].file \notin undeployed'
                   PROVE  Owners(files', Offer[e].file) = {Reserve[e]}
      BY DEF OpenOrderHoldsFile
    <2>2. Owners(was[h].files, Offer[e].file) = {Reserve[e]}
      BY <1>2, <1>6, <2>1 DEF FileInv, HeldThen
    <2>3. Offer[e].file \in Files
      BY <1>1, <1>2, <2>1, FileExchangeAssumption DEF TypeOK, Orders, Offers
    <2>4. Owners(files', Offer[e].file) = Owners(was[h].files, Offer[e].file)
      BY <2>1, <2>3, ForkOwners
    <2>5. QED
      BY <2>2, <2>4
  <1>14. ASSUME NEW g \in DOMAIN was'
         PROVE  (Since(g) /\ FilesBack(g) /\ OrdersBack(g) /\ HeldThen(g))'
    <2>1. /\ Since(g) /\ FilesBack(g) /\ OrdersBack(g) /\ HeldThen(g)
          /\ was'[g] = was[g] /\ g \in Nat /\ g < h /\ g \in DOMAIN was
      BY <1>4 DEF FileInv
    <2>2. Since(g)'
      <3>1. Len(was'[g].files) <= Len(files')
        BY <1>3, <2>1 DEF Since, SameFiles
      <3>2. ASSUME NEW i \in DOMAIN files'
            PROVE  IF i <= Len(was'[g].files) THEN files'[i].file = was'[g].files[i].file
                   ELSE files'[i].file \in undeployed'
                        \/ (files'[i].file \in DOMAIN info' /\ info'[files'[i].file] > g)
        <4>1. i \in DOMAIN files /\ files'[i].file = files[i].file /\ files[i].file \in Files
          BY <1>7, <1>8
        <4>2. CASE i <= Len(was[g].files)
          BY <2>1, <4>1, <4>2 DEF Since
        <4>3. CASE ~(i <= Len(was[g].files))
          <5>1. files[i].file \in undeployed
                  \/ (files[i].file \in DOMAIN info /\ info[files[i].file] > g)
            BY <2>1, <4>1, <4>3 DEF Since
          <5>2. QED
            BY <1>5, <1>6, <1>9, <2>1, <4>1, <4>3, <5>1
        <4>4. QED
          BY <2>1, <4>2, <4>3
      <3>3. \A e \in DOMAIN was'[g].orders : e \in DOMAIN info' /\ info'[e] <= g
        <4>1. \A e \in DOMAIN was[g].orders : e \in DOMAIN info /\ info[e] <= g
          BY <2>1 DEF Since
        <4>2. QED
          BY <1>2, <1>5, <2>1, <4>1
      <3>4. QED
        BY <3>1, <3>2, <3>3 DEF Since
    <2>3. \A i \in DOMAIN fills : fills[i].height \in Nat
      <3>1. \A i \in DOMAIN fills : fills[i] \in FillRows
        BY <1>1, ElementOfSeq DEF TypeOK
      <3>2. QED
        BY <3>1 DEF FillRows
    <2>4. FillsUndone(g)' => FillsUndone(g)
      <3>1. SUFFICES ASSUME FillsUndone(g)', NEW i \in DOMAIN fills, fills[i].height > g
                     PROVE  fills[i].op = "create"
        BY DEF FillsUndone
      <3>2. CASE fills[i].height <= h
        <4>1. PICK k \in DOMAIN fills' : fills'[k] = fills[i]
          BY <1>3, <3>2 DEF Keeps
        <4>2. QED
          BY <3>1, <4>1 DEF FillsUndone
      <3>3. CASE fills[i].height > h
        BY <1>2, <3>3 DEF FillsUndone
      <3>4. QED
        BY <1>2, <2>3, <3>2, <3>3
    <2>5. FilesBack(g)'
      <3>1. MovesUndone(files', moves', g) = MovesUndone(files, moves, g)
        <4>1. moves \in Seq(MoveRows) /\ Ascending(moves)
          BY <1>1 DEF TypeOK, Recorded, Ascending
        <4>2. g <= h
          BY <1>2, <2>1
        <4>3. QED
          BY <1>2, <1>3, <2>1, <4>1, <4>2, UndoneTwice
      <3>2. QED
        BY <1>6, <2>1, <2>4, <3>1 DEF FilesBack
    <2>6. OrdersBack(g)'
      <3>1. SUFFICES ASSUME FillsUndone(g)'
                     PROVE  was'[g].orders = [e \in DOMAIN orders' \ CreatedAbove(g)' |-> orders'[e]]
        BY DEF OrdersBack
      <3>2. was[g].orders = [e \in DOMAIN orders \ CreatedAbove(g) |-> orders[e]]
        BY <2>1, <2>4, <3>1 DEF OrdersBack
      <3>3. orders' = [e \in DOMAIN orders \ CreatedAbove(h) |-> orders[e]]
        BY DEF Fork
      <3>4. CreatedAbove(g)' = {fills'[i].exId : i \in {j \in DOMAIN fills' : fills'[j].height > g}}
        BY DEF CreatedAbove
      <3>5. \A x \in CreatedAbove(g) : x \in CreatedAbove(h) \/ x \in CreatedAbove(g)'
        <4>1. SUFFICES ASSUME NEW i \in DOMAIN fills, fills[i].height > g
                       PROVE  fills[i].exId \in CreatedAbove(h)
                                \/ fills[i].exId \in CreatedAbove(g)'
          BY DEF CreatedAbove
        <4>2. CASE fills[i].height > h
          BY <4>2 DEF CreatedAbove
        <4>3. CASE fills[i].height <= h
          <5>1. PICK k \in DOMAIN fills' : fills'[k] = fills[i]
            BY <1>3, <4>3 DEF Keeps
          <5>2. QED
            BY <3>4, <4>1, <5>1
        <4>4. QED
          BY <1>2, <2>3, <4>2, <4>3
      <3>6. CreatedAbove(h) \subseteq CreatedAbove(g)
        <4>1. SUFFICES ASSUME NEW i \in DOMAIN fills, fills[i].height > h
                       PROVE  fills[i].exId \in CreatedAbove(g)
          BY DEF CreatedAbove
        <4>2. fills[i].height > g
          BY <1>2, <2>1, <2>3, <4>1
        <4>3. QED
          BY <4>2 DEF CreatedAbove
      <3>7. CreatedAbove(g)' \subseteq CreatedAbove(g)
        <4>1. SUFFICES ASSUME NEW k \in DOMAIN fills', fills'[k].height > g
                       PROVE  fills'[k].exId \in CreatedAbove(g)
          BY <3>4
        <4>2. PICK j \in DOMAIN fills : fills'[k] = fills[j]
          BY <1>3 DEF Keeps
        <4>3. QED
          BY <4>1, <4>2 DEF CreatedAbove
      <3>8. DOMAIN orders' \ CreatedAbove(g)' = DOMAIN orders \ CreatedAbove(g)
        BY <3>3, <3>5, <3>6, <3>7
      <3>9. \A e \in DOMAIN orders \ CreatedAbove(g) : orders'[e] = orders[e]
        BY <3>3, <3>6
      <3>10. QED
        BY <2>1, <3>2, <3>8, <3>9
    <2>7. HeldThen(g)'
      BY <1>6, <2>1, HeldThenKept
    <2>8. QED
      BY <2>2, <2>5, <2>6, <2>7
  <1>15. QED
    BY <1>10, <1>11, <1>12, <1>13, <1>14 DEF FileInv

-----------------------------------------------------------------------------
(* The theorems *)

LEMMA FileInvStep ==
    ASSUME FileInv, [Next]_vars
    PROVE  FileInv'
  <1>1. CASE UNCHANGED vars
    <2>1. UNCHANGED <<bal, ended, height, files, moves, orders, fills, info, was, undeployed>>
      BY <1>1 DEF vars
    <2>2. TypeOK' /\ Recorded' /\ OneOwner' /\ OpenOrderHoldsFile'
      BY <2>1 DEF FileInv, TypeOK, Recorded, OneOwner, OpenOrderHoldsFile
    <2>3. \A h \in DOMAIN was' : (Since(h) /\ FilesBack(h) /\ OrdersBack(h) /\ HeldThen(h))'
      <3>1. ASSUME NEW h \in DOMAIN was
            PROVE  (Since(h) /\ FilesBack(h) /\ OrdersBack(h) /\ HeldThen(h))'
        <4>1. Since(h) /\ FilesBack(h) /\ OrdersBack(h) /\ HeldThen(h)
          BY DEF FileInv
        <4>2. QED
          BY <2>1, <4>1 DEF Since, FilesBack, OrdersBack, HeldThen, FillsUndone, CreatedAbove
      <3>2. QED
        BY <2>1, <3>1
    <2>4. QED
      BY <2>2, <2>3 DEF FileInv
  <1>2. ASSUME NEW f \in Files, Deploy(f) PROVE FileInv'
    BY <1>2, DeployFile
  <1>3. ASSUME NEW f \in Files, NEW from \in Users, NEW to \in Accounts, Transfer(f, from, to)
        PROVE  FileInv'
    BY <1>3, TransferFiles
  <1>4. ASSUME NEW e \in ExIds, Create(e) PROVE FileInv'
    BY <1>4, CreateFiles
  <1>5. ASSUME NEW e \in ExIds, CreateRefused(e) PROVE FileInv'
    BY <1>5, RefuseFiles
  <1>6. ASSUME NEW e \in ExIds, NEW u \in Users, Trade(e, u) PROVE FileInv'
    BY <1>6, TradeFiles
  <1>7. ASSUME NEW e \in ExIds, NEW u \in Users, Cancel(e, u) PROVE FileInv'
    BY <1>7, CancelFiles
  <1>8. CASE NextBlock
    BY <1>8, EndBlockFiles
  <1>9. ASSUME NEW h \in DOMAIN ended, Fork(h) PROVE FileInv'
    BY <1>9, ForkFiles
  <1>10. QED
    BY <1>1, <1>2, <1>3, <1>4, <1>5, <1>6, <1>7, <1>8, <1>9 DEF Next

\* The tables of files and orders and the journals that bring them back agree
\* in every state: what a fork to any finished block would leave is known
\* (storage/file.go, storage/file_exchange.go, fileFork, fileExchangeFork).
THEOREM FilesInvariant == Spec => []FileInv
  <1>1. Init => FileInv
    BY InitFile
  <1>2. FileInv /\ [Next]_vars => FileInv'
    BY FileInvStep
  <1>3. QED
    BY <1>1, <1>2, PTL DEF Spec

\* A file has one owner as long as no fork has abandoned its deploy (FileDeploy,
\* TransferFile, fileFork).
THEOREM FileHasOneOwner == Spec => []OneOwner
  <1>1. FileInv => OneOwner
    BY DEF FileInv
  <1>2. QED
    BY <1>1, FilesInvariant, PTL

\* The address of an open order, and no other, holds the file the order sells
\* (FileExchangeCreate, FileExchangeTrade, FileExchangeCancel).
THEOREM OpenOrdersHoldFiles == Spec => []OpenOrderHoldsFile
  <1>1. FileInv => OpenOrderHoldsFile
    BY DEF FileInv
  <1>2. QED
    BY <1>1, FilesInvariant, PTL

\* A fork that is not refused brings back the balances, the orders and the
\* owners of files of the block it returns to (fork, fileFork, fileExchangeFork).
THEOREM FileForksRestore == Spec => ForkRestores
  <1> DEFINE Restored ==
               height' < height =>
                 /\ bal' = ended[height']
                 /\ orders' = was[height'].orders
                 /\ \A f \in Files \ undeployed' :
                       Owners(files', f) = Owners(was[height'].files, f)
  <1>1. FileInv /\ [Next]_vars => Restored
    <2>1. SUFFICES ASSUME FileInv, [Next]_vars, height' < height PROVE Restored
      OBVIOUS
    <2>2. height \in Nat
      <3>1. TypeOK
        BY <2>1 DEF FileInv
      <3>2. QED
        BY <3>1 DEF TypeOK
    <2>3. ~(height' = height) /\ ~NextBlock
      BY <2>1, <2>2 DEF NextBlock, Ledger!EndBlock
    <2>4. PICK h \in DOMAIN ended : Fork(h)
      <3>1. ~(UNCHANGED vars)
        BY <2>3 DEF vars
      <3>2. \A f \in Files : ~Deploy(f)
        BY <2>3 DEF Deploy
      <3>3. \A f \in Files, from \in Users, to \in Accounts : ~Transfer(f, from, to)
        BY <2>3 DEF Transfer
      <3>4. \A e \in ExIds : ~Create(e) /\ ~CreateRefused(e)
        BY <2>3 DEF Create, CreateRefused
      <3>5. \A e \in ExIds, u \in Users : ~Trade(e, u) /\ ~Cancel(e, u)
        BY <2>3 DEF Trade, Cancel
      <3>6. QED
        BY <2>1, <2>3, <3>1, <3>2, <3>3, <3>4, <3>5 DEF Next
    <2>5. bal' = ended[h] /\ orders' = was[h].orders /\ height' = h
      BY <2>1, <2>4, ForkParts
    <2>6. \A f \in Files \ undeployed' : Owners(files', f) = Owners(was[h].files, f)
      BY <2>1, <2>4, ForkOwners
    <2>7. QED
      BY <2>5, <2>6
  <1>2. FileInv /\ [Next]_vars => [Restored]_vars
    BY <1>1
  <1>3. QED
    BY <1>2, FilesInvariant, PTL DEF Spec, ForkRestores
=============================================================================
