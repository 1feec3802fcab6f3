--------------------------- MODULE EventLogProofs ---------------------------
(***************************************************************************)
(* Facts about logs: what one INSERT does to what a query returns, which   *)
(* rows a query reads back, and that the walk over them computes the       *)
(* failure clock it promises; before them, recursion and induction in a    *)
(* form that needs no operator as a parameter.                             *)
(***************************************************************************)
EXTENDS FailureClock, FiniteSetTheorems, SequenceTheorems,
        WellFoundedInduction, TLAPS

RowType(S) == [ts : Nat, action : S]

-----------------------------------------------------------------------------
(***************************************************************************)
(* Recursive functions.  The library's induction theorems take a predicate *)
(* as a parameter; here the predicate is the set where it holds.           *)
(***************************************************************************)

\* A set that holds 0 and with every number the next holds every number.
LEMMA SetInduction ==
    ASSUME NEW S, 0 \in S, \A n \in Nat : n \in S => n + 1 \in S
    PROVE  Nat \subseteq S
<1> DEFINE R == OpToRel(<, Nat)
           T == Nat \ S
<1> SUFFICES ASSUME T # {} PROVE FALSE
  OBVIOUS
<1>1. PICK y \in T : \A z \in T : <<z, y>> \notin R
  <2>1. IsWellFoundedOn(R, Nat) /\ T \subseteq Nat
    BY NatLessThanWellFounded
  <2> HIDE DEF R, T
  <2> QED
    BY <2>1, WFMin
<1>2. y \in Nat /\ y # 0
  OBVIOUS
<1>3. y - 1 \in Nat /\ y - 1 < y /\ (y - 1) + 1 = y
  BY <1>2
<1>4. y - 1 \notin T
  BY <1>1, <1>3 DEF OpToRel
<1> QED
  BY <1>3, <1>4

\* f starts at f0 and goes from each value to the next by its step.
Steps(f, N, S, f0, step) ==
    /\ f \in [0..N -> S] /\ f[0] = f0
    /\ \A i \in 1..N : f[i] = step[i][f[i - 1]]

\* Given the steps, there is the function that takes them one after another.
LEMMA Recursion ==
    ASSUME NEW N \in Nat, NEW S, NEW f0 \in S, NEW step \in [1..N -> [S -> S]]
    PROVE  \E f : Steps(f, N, S, f0, step)
<1> DEFINE Follows(f, n) == Steps(f, n, S, f0, step)
           T == {n \in Nat : n <= N => \E f : Follows(f, n)}
<1>1. 0 \in T
  <2>1. Follows([i \in 0..0 |-> f0], 0)
    BY DEF Steps
  <2> QED
    BY <2>1
<1>2. ASSUME NEW n \in Nat, n \in T PROVE n + 1 \in T
  <2> SUFFICES ASSUME n + 1 <= N PROVE \E f : Follows(f, n + 1)
    OBVIOUS
  <2>1. PICK f : Follows(f, n)
    BY <1>2
  <2> USE DEF Steps
  <2> DEFINE g == [i \in 0..(n + 1) |-> IF i <= n THEN f[i] ELSE step[n + 1][f[n]]]
  <2>2. f[n] \in S /\ step[n + 1] \in [S -> S]
    BY <2>1
  <2>3. g \in [0..(n + 1) -> S]
    BY <2>1, <2>2
  <2>4. g[0] = f0
    BY <2>1
  <2>5. ASSUME NEW i \in 1..(n + 1) PROVE g[i] = step[i][g[i - 1]]
    <3>1. CASE i <= n
      <4>1. i \in 1..n /\ i - 1 \in 0..n /\ i \in 0..(n + 1) /\ i - 1 \in 0..(n + 1)
        BY <3>1
      <4>2. g[i] = f[i] /\ g[i - 1] = f[i - 1]
        BY <3>1, <4>1
      <4> HIDE DEF g
      <4> QED
        BY <2>1, <4>1, <4>2
    <3>2. CASE i = n + 1
      <4>1. g[n + 1] = step[n + 1][f[n]] /\ g[n] = f[n] /\ (n + 1) - 1 = n
        OBVIOUS
      <4> HIDE DEF g
      <4> QED
        BY <3>2, <4>1
    <3> QED
      BY <3>1, <3>2
  <2> HIDE DEF g
  <2>6. Follows(g, n + 1)
    BY <2>3, <2>4, <2>5
  <2> HIDE DEF Steps
  <2> QED
    BY <2>6
<1>3. Nat \subseteq T
  <2> HIDE DEF T
  <2> QED
    BY <1>1, <1>2, SetInduction
<1>4. PICK f : Follows(f, N)
  BY <1>3
<1> QED
  BY <1>4

-----------------------------------------------------------------------------
(***************************************************************************)
(* Rows and times.                                                         *)
(***************************************************************************)

\* Appending a row adds its id to the rows of the action sets it belongs to
\* and leaves every other row alone.
LEMMA RecordRows ==
    ASSUME NEW S, NEW log \in Seq(RowType(S)), NEW t \in Nat, NEW a \in S, NEW A
    PROVE  /\ Record(log, t, a) \in Seq(RowType(S))
           /\ Len(Record(log, t, a)) = Len(log) + 1
           /\ \A i \in DOMAIN log : Record(log, t, a)[i] = log[i]
           /\ Record(log, t, a)[Len(log) + 1] = Row(t, a)
           /\ Rows(Record(log, t, a), A) =
                 IF a \in A THEN Rows(log, A) \cup {Len(log) + 1}
                            ELSE Rows(log, A)
<1>1. Row(t, a) \in RowType(S)
  BY DEF Row, RowType
<1>2. /\ Record(log, t, a) \in Seq(RowType(S))
      /\ Len(Record(log, t, a)) = Len(log) + 1
      /\ \A i \in 1..Len(log) : Record(log, t, a)[i] = log[i]
      /\ Record(log, t, a)[Len(log) + 1] = Row(t, a)
  BY <1>1 DEF Record
<1>3. DOMAIN log = 1..Len(log) /\ Len(log) \in Nat
  OBVIOUS
<1>4. DOMAIN Record(log, t, a) = 1..(Len(log) + 1)
  BY <1>2
<1>5. Row(t, a).action = a
  BY DEF Row
<1> QED
  BY <1>2, <1>3, <1>4, <1>5 DEF Rows

\* The times a query returns grow by the time of the row, if it matches.
LEMMA RecordTimes ==
    ASSUME NEW S, NEW log \in Seq(RowType(S)), NEW t \in Nat, NEW a \in S, NEW A
    PROVE  Times(Record(log, t, a), A) =
              IF a \in A THEN Times(log, A) \cup {t} ELSE Times(log, A)
<1>1. /\ \A i \in DOMAIN log : Record(log, t, a)[i] = log[i]
      /\ Record(log, t, a)[Len(log) + 1] = Row(t, a)
      /\ Rows(Record(log, t, a), A) =
            IF a \in A THEN Rows(log, A) \cup {Len(log) + 1} ELSE Rows(log, A)
  BY RecordRows
<1>2. Rows(log, A) \subseteq DOMAIN log
  BY DEF Rows
<1>3. Row(t, a).ts = t
  BY DEF Row
<1> QED
  BY <1>1, <1>2, <1>3 DEF Times

\* The rows of a log stay where they are, and so does what was written before
\* each of them.
GrownFrom(log2, log) ==
    \A i \in DOMAIN log : /\ i \in DOMAIN log2 /\ log2[i] = log[i]
                           /\ SubSeq(log2, 1, i - 1) = SubSeq(log, 1, i - 1)

LEMMA RecordGrows ==
    ASSUME NEW S, NEW log \in Seq(RowType(S)), NEW t \in Nat, NEW a \in S
    PROVE  /\ GrownFrom(Record(log, t, a), log)
           /\ Record(log, t, a)[Len(log) + 1] = Row(t, a)
           /\ SubSeq(Record(log, t, a), 1, Len(log)) = log
<1> DEFINE log2 == Record(log, t, a)
<1>1. /\ log2 \in Seq(RowType(S)) /\ Len(log2) = Len(log) + 1 /\ Len(log) \in Nat
      /\ \A i \in 1..Len(log) : log2[i] = log[i]
      /\ log2[Len(log) + 1] = Row(t, a)
      /\ DOMAIN log = 1..Len(log) /\ DOMAIN log2 = 1..(Len(log) + 1)
  <2>1. /\ log2 \in Seq(RowType(S)) /\ Len(log2) = Len(log) + 1
        /\ \A i \in DOMAIN log : log2[i] = log[i]
        /\ log2[Len(log) + 1] = Row(t, a)
    BY RecordRows
  <2> HIDE DEF log2
  <2> QED
    BY <2>1, LenProperties
<1> HIDE DEF log2
<1>2. ASSUME NEW n \in 0..Len(log)
      PROVE  SubSeq(log2, 1, n) = SubSeq(log, 1, n)
  <2>0. n \in Nat /\ n <= Len(log) /\ n <= Len(log2)
    BY <1>1
  <2>1. /\ SubSeq(log2, 1, n) = [i \in 1..n |-> log2[i]]
        /\ SubSeq(log, 1, n) = [i \in 1..n |-> log[i]]
    BY <1>1, <2>0
  <2>2. \A i \in 1..n : log2[i] = log[i]
    BY <1>1
  <2> QED
    BY <2>1, <2>2
<1>3. SubSeq(log, 1, Len(log)) = log
  BY <1>1
<1>4. \A i \in DOMAIN log : i - 1 \in 0..Len(log)
  BY <1>1
<1>5. GrownFrom(log2, log)
  BY <1>1, <1>2, <1>4 DEF GrownFrom
<1>6. SubSeq(log2, 1, Len(log)) = log
  BY <1>1, <1>2, <1>3
<1> QED
  BY <1>1, <1>5, <1>6 DEF log2

\* The rows a query selects are finitely many.
LEMMA FiniteRows ==
    ASSUME NEW S, NEW log \in Seq(RowType(S)), NEW A
    PROVE  /\ Rows(log, A) \subseteq 1..Len(log) /\ Len(log) \in Nat
           /\ IsFiniteSet(Rows(log, A)) /\ Cardinality(Rows(log, A)) \in Nat
<1>1. Rows(log, A) \subseteq 1..Len(log) /\ Len(log) \in Nat
  BY DEF Rows
<1>2. IsFiniteSet(1..Len(log))
  BY <1>1, FS_Interval
<1> QED
  BY <1>1, <1>2, FS_Subset, FS_CardinalityType

-----------------------------------------------------------------------------
(***************************************************************************)
(* The newest row.                                                         *)
(***************************************************************************)

\* A set of times or ids that is not empty has a last one.
LEMMA LastEntry ==
    ASSUME NEW n \in Nat, NEW S \in SUBSET (0..n), S # {}
    PROVE  \E m \in S : \A x \in S : x <= m
<1> DEFINE T == {n - x : x \in S}
           R == OpToRel(<, Nat)
<1>0. \A x \in S : x \in Nat /\ n - x \in Nat
  OBVIOUS
<1>1. T \subseteq Nat /\ T # {}
  BY <1>0
<1>2. IsWellFoundedOn(R, Nat)
  BY NatLessThanWellFounded
<1>3. PICK y \in T : \A z \in T : <<z, y>> \notin R
  <2> HIDE DEF R, T
  <2> QED
    BY <1>1, <1>2, WFMin
<1>4. \A z \in T : ~(z < y)
  BY <1>1, <1>3 DEF OpToRel
<1>5. PICK m \in S : y = n - m
  OBVIOUS
<1>6. ASSUME NEW x \in S PROVE x <= m
  <2>1. ~(n - x < n - m)
    BY <1>4, <1>5
  <2>2. n \in Int /\ x \in Int /\ m \in Int
    BY <1>0
  <2> HIDE DEF T, R
  <2> QED
    BY <2>1, <2>2
<1> QED
  BY <1>6

\* The newest row is one of the rows selected.
LEMMA NewestIsSelected ==
    ASSUME NEW n \in Nat, NEW S, NEW log \in Seq([ts : 0..n, action : S]), NEW A,
           Rows(log, A) # {}
    PROVE  \E k \in Rows(log, A) : LastActionIn(log, A) = log[k]
<1> DEFINE T == {log[i].ts : i \in Rows(log, A)}
<1>1. Rows(log, A) \subseteq 1..Len(log) /\ Len(log) \in Nat
  BY DEF Rows
<1>2. \A i \in Rows(log, A) : log[i] \in [ts : 0..n, action : S]
  BY <1>1, ElementOfSeq
<1>3. PICK m \in T : \A t \in T : t <= m
  <2>1. T \in SUBSET (0..n) /\ T # {}
    BY <1>2
  <2> HIDE DEF T
  <2> QED
    BY <2>1, LastEntry
<1> DEFINE L == {i \in Rows(log, A) : log[i].ts = m}
<1>4. PICK k \in L : \A i \in L : i <= k
  <2>1. L \in SUBSET (0..Len(log)) /\ L # {}
    BY <1>1, <1>3
  <2> HIDE DEF L
  <2> QED
    BY <1>1, <2>1, LastEntry
<1>5. \A i \in Rows(log, A) : log[i].ts \in Int /\ i \in Int /\ log[i].ts <= m
  BY <1>1, <1>2, <1>3
<1>6. \A i \in Rows(log, A) : i = k \/ Older(log, i, k)
  <2> SUFFICES ASSUME NEW i \in Rows(log, A), i # k PROVE Older(log, i, k)
    OBVIOUS
  <2>1. log[k].ts = m /\ m \in Int /\ k \in Int /\ k \in Rows(log, A)
    BY <1>4, <1>5
  <2>2. CASE log[i].ts = m
    BY <1>4, <1>5, <2>1, <2>2 DEF Older
  <2>3. CASE log[i].ts # m
    <3>1. log[i].ts < m
      BY <1>5, <2>1, <2>3
    <3> QED
      BY <2>1, <3>1 DEF Older
  <2> QED
    BY <2>2, <2>3
<1>7. PICK i \in Rows(log, A) :
         /\ LastActionIn(log, A) = log[i]
         /\ \A j \in Rows(log, A) : j = i \/ Older(log, j, i)
  BY <1>4, <1>6 DEF LastActionIn
<1> QED
  BY <1>7

\* In a log in time order the newest row that matches is the last one.
LEMMA NewestIsLast ==
    ASSUME NEW S, NEW log \in Seq(RowType(S)), Ordered(log), NEW A
    PROVE  /\ Rows(log, A) = {} => LastActionIn(log, A) = Row(NoTime, "no row")
           /\ \A k \in Rows(log, A) :
                 (\A j \in Rows(log, A) : j <= k) => LastActionIn(log, A) = log[k]
           /\ Rows(log, A) # {} =>
                 \E k \in Rows(log, A) : \A j \in Rows(log, A) : j <= k
<1>1. Rows(log, A) \subseteq DOMAIN log /\ Rows(log, A) \in SUBSET (0..Len(log))
      /\ Len(log) \in Nat
  BY FiniteRows DEF Rows
<1>2. \A i \in DOMAIN log : log[i].ts \in Nat /\ i \in Nat
  <2>1. \A i \in DOMAIN log : log[i] \in RowType(S) /\ i \in Nat
    BY ElementOfSeq, LenProperties
  <2> QED
    BY <2>1 DEF RowType
<1>3. ASSUME NEW k \in Rows(log, A), \A j \in Rows(log, A) : j <= k
      PROVE  LastActionIn(log, A) = log[k]
  <2>1. \A j \in Rows(log, A) : j = k \/ Older(log, j, k)
    BY <1>1, <1>2, <1>3 DEF Older, Ordered
  <2>2. \A i \in Rows(log, A) :
           (\A j \in Rows(log, A) : j = i \/ Older(log, j, i)) => i = k
    BY <1>1, <1>2, <1>3, <2>1 DEF Older
  <2>3. (CHOOSE i \in Rows(log, A) :
            \A j \in Rows(log, A) : j = i \/ Older(log, j, i)) = k
    BY <2>1, <2>2
  <2> QED
    BY <2>3 DEF LastActionIn
<1>4. Rows(log, A) # {} => \E k \in Rows(log, A) : \A j \in Rows(log, A) : j <= k
  BY <1>1, LastEntry
<1> QED
  BY <1>3, <1>4 DEF LastActionIn

\* A row no older than the log is the newest of its action sets, and leaves
\* the newest row of the others.
LEMMA RecordNewest ==
    ASSUME NEW S, NEW log \in Seq(RowType(S)), Ordered(log), NEW t \in Nat,
           \A i \in DOMAIN log : log[i].ts <= t, NEW a \in S, NEW A
    PROVE  /\ Ordered(Record(log, t, a))
           /\ \A i \in DOMAIN Record(log, t, a) : Record(log, t, a)[i].ts <= t
           /\ LastActionIn(Record(log, t, a), A) =
                 IF a \in A THEN Row(t, a) ELSE LastActionIn(log, A)
<1> DEFINE new == Record(log, t, a)
<1> HIDE DEF new
<1>0. /\ new \in Seq(RowType(S)) /\ Len(new) = Len(log) + 1
      /\ \A i \in DOMAIN log : new[i] = log[i]
      /\ new[Len(log) + 1] = Row(t, a)
  BY RecordRows DEF new
<1>1. Rows(new, A) = IF a \in A THEN Rows(log, A) \cup {Len(log) + 1}
                                ELSE Rows(log, A)
  BY RecordRows DEF new
<1>2. Len(log) \in Nat /\ DOMAIN log = 1..Len(log) /\ DOMAIN new = 1..(Len(log) + 1)
  BY <1>0, <1>1
<1>3. Row(t, a).ts = t
  BY DEF Row
<1>4. \A i \in DOMAIN new : new[i].ts <= t
  BY <1>0, <1>1, <1>2, <1>3
<1>5. Ordered(new)
  BY <1>0, <1>1, <1>2, <1>3, <1>4 DEF Ordered
<1>6. Rows(log, A) \subseteq 1..Len(log)
  BY FiniteRows
<1>7. CASE a \in A
  <2>1. /\ Len(log) + 1 \in Rows(new, A)
        /\ \A j \in Rows(new, A) : j <= Len(log) + 1
    BY <1>0, <1>1, <1>2, <1>6, <1>7
  <2>2. LastActionIn(new, A) = new[Len(log) + 1]
    BY <1>0, <1>1, <1>5, <2>1, NewestIsLast
  <2> QED
    BY <1>0, <1>1, <1>4, <1>5, <1>7, <2>2 DEF new
<1>8. CASE a \notin A /\ Rows(log, A) = {}
  <2>1. LastActionIn(new, A) = Row(NoTime, "no row")
    BY <1>0, <1>1, <1>8 DEF LastActionIn
  <2>2. LastActionIn(log, A) = Row(NoTime, "no row")
    BY <1>8 DEF LastActionIn
  <2> QED
    BY <1>4, <1>5, <1>8, <2>1, <2>2 DEF new
<1>9. CASE a \notin A /\ Rows(log, A) # {}
  <2>1. PICK k \in Rows(log, A) : \A j \in Rows(log, A) : j <= k
    BY <1>9, NewestIsLast
  <2>2. LastActionIn(log, A) = log[k]
    BY <2>1, NewestIsLast
  <2>3. LastActionIn(new, A) = new[k]
    BY <1>0, <1>1, <1>5, <1>9, <2>1, NewestIsLast
  <2> QED
    BY <1>0, <1>1, <1>2, <1>4, <1>5, <1>6, <1>9, <2>1, <2>2, <2>3 DEF new
<1> QED
  BY <1>7, <1>8, <1>9

-----------------------------------------------------------------------------
(***************************************************************************)
(* The rows the failure clock reads back.                                  *)
(***************************************************************************)

LEMMA OrderedRows ==
    ASSUME NEW S, NEW rows \in Seq(RowType(S)), Ordered(rows)
    PROVE  /\ Len(rows) \in Nat /\ DOMAIN rows = 1..Len(rows)
           /\ \A i \in 1..Len(rows) : rows[i] \in RowType(S) /\ rows[i].ts \in Nat
           /\ \A i, j \in 1..Len(rows) : i < j => rows[i].ts <= rows[j].ts
<1>1. Len(rows) \in Nat /\ DOMAIN rows = 1..Len(rows) /\ \A i \in 1..Len(rows) : rows[i] \in RowType(S)
  OBVIOUS
<1>2. \A r \in RowType(S) : r.ts \in Nat
  BY DEF RowType
<1> QED
  BY <1>1, <1>2 DEF Ordered

\* In a log in time order the rows no younger than t come first.
LEMMA OlderComeFirst ==
    ASSUME NEW S, NEW rows \in Seq(RowType(S)), Ordered(rows), NEW t \in Nat
    PROVE  \E p \in 0..Len(rows) : /\ Cardinality({i \in DOMAIN rows : rows[i].ts <= t}) = p
                                   /\ \A i \in 1..Len(rows) : rows[i].ts <= t <=> i <= p
<1> DEFINE N == Len(rows)
           Split(n, p) == \A i \in 1..n : rows[i].ts <= t <=> i <= p
           T == {n \in Nat : n <= N => \E p \in 0..n : Split(n, p)}
<1>1. /\ N \in Nat /\ DOMAIN rows = 1..N
      /\ \A i \in 1..N : rows[i].ts \in Nat
      /\ \A i, j \in 1..N : i < j => rows[i].ts <= rows[j].ts
  BY OrderedRows
<1>2. 0 \in T
  <2>1. Split(0, 0) /\ 0 \in 0..0
    OBVIOUS
  <2> QED
    BY <2>1
<1>3. ASSUME NEW n \in Nat, n \in T PROVE n + 1 \in T
  <2> SUFFICES ASSUME n + 1 <= N PROVE \E p \in 0..(n + 1) : Split(n + 1, p)
    OBVIOUS
  <2>1. PICK p \in 0..n : Split(n, p)
    BY <1>1, <1>3
  <2>2. CASE rows[n + 1].ts <= t
    <3>1. Split(n + 1, n + 1)
      <4> SUFFICES ASSUME NEW i \in 1..(n + 1) PROVE rows[i].ts <= t
        OBVIOUS
      <4>1. i = n + 1 \/ rows[i].ts <= rows[n + 1].ts
        BY <1>1
      <4> QED
        BY <1>1, <2>2, <4>1
    <3>2. n + 1 \in 0..(n + 1)
      OBVIOUS
    <3> HIDE DEF Split
    <3> QED
      BY <3>1, <3>2
  <2>3. CASE ~(rows[n + 1].ts <= t)
    <3>1. Split(n + 1, p)
      <4> SUFFICES ASSUME NEW i \in 1..(n + 1) PROVE rows[i].ts <= t <=> i <= p
        OBVIOUS
      <4>1. i = n + 1 \/ i \in 1..n
        BY <1>1
      <4> QED
        BY <1>1, <2>1, <2>3, <4>1
    <3>2. p \in 0..(n + 1)
      OBVIOUS
    <3> HIDE DEF Split
    <3> QED
      BY <3>1, <3>2
  <2> QED
    BY <2>2, <2>3
<1>4. Nat \subseteq T
  <2> HIDE DEF T
  <2> QED
    BY <1>2, <1>3, SetInduction
<1>5. PICK p \in 0..N : Split(N, p)
  <2>1. N \in T
    BY <1>1, <1>4
  <2> HIDE DEF Split
  <2> QED
    BY <2>1
<1>6. {i \in DOMAIN rows : rows[i].ts <= t} = 1..p
  BY <1>1, <1>5
<1>7. Cardinality(1..p) = p
  BY <1>1, FS_Interval
<1> QED
  BY <1>5, <1>6, <1>7

\* new holds the rows of `rows` and one more, and nothing else.
Gains(new, rows, row) ==
    /\ \A i \in DOMAIN rows : \E j \in DOMAIN new : new[j] = rows[i]
    /\ \E j \in DOMAIN new : new[j] = row
    /\ \A j \in DOMAIN new : new[j] = row \/ \E i \in DOMAIN rows : new[j] = rows[i]

\* The row is placed without disturbing the order, and nothing else changes.
LEMMA PlacedInOrder ==
    ASSUME NEW S, NEW rows \in Seq(RowType(S)), Ordered(rows), NEW row \in RowType(S)
    PROVE  /\ Placed(rows, row) \in Seq(RowType(S)) /\ Ordered(Placed(rows, row))
           /\ Len(Placed(rows, row)) = Len(rows) + 1
           /\ Gains(Placed(rows, row), rows, row)
<1> DEFINE N == Len(rows)
<1>1. /\ N \in Nat /\ DOMAIN rows = 1..N /\ row.ts \in Nat
      /\ \A i \in 1..N : rows[i] \in RowType(S) /\ rows[i].ts \in Nat
      /\ \A i, j \in 1..N : i < j => rows[i].ts <= rows[j].ts
  <2>1. row.ts \in Nat
    BY DEF RowType
  <2> QED
    BY <2>1, OrderedRows
<1>2. PICK p \in 0..N : /\ Cardinality({i \in DOMAIN rows : rows[i].ts <= row.ts}) = p
                        /\ \A i \in 1..N : rows[i].ts <= row.ts <=> i <= p
  BY <1>1, OlderComeFirst
<1> DEFINE new == [i \in 1..(N + 1) |-> IF i <= p THEN rows[i]
                                        ELSE IF i = p + 1 THEN row ELSE rows[i - 1]]
<1>3. Placed(rows, row) = new
  <2> DEFINE a == SubSeq(rows, 1, p)
             c == SubSeq(rows, p + 1, N)
             whole == (a \o <<row>>) \o c
  <2>0. p \in Int /\ N \in Int /\ p + 1 \in Int
    BY <1>1
  <2>1. /\ a \in Seq(RowType(S)) /\ Len(a) = p /\ \A i \in 1..p : a[i] = rows[i]
    <3>1. \A i \in 1..p : rows[i] \in RowType(S)
      BY <1>1
    <3>2. /\ a \in Seq(RowType(S)) /\ Len(a) = IF 1 <= p THEN p - 1 + 1 ELSE 0
          /\ \A i \in 1..(p - 1 + 1) : a[i] = rows[1 + i - 1]
      BY <2>0, <3>1, SubSeqProperties
    <3> HIDE DEF a
    <3> QED
      BY <3>2
  <2>2. /\ c \in Seq(RowType(S)) /\ Len(c) = N - p
        /\ \A i \in 1..(N - p) : c[i] = rows[p + i]
    <3>1. \A i \in (p + 1)..N : rows[i] \in RowType(S)
      BY <1>1
    <3>2. /\ c \in Seq(RowType(S)) /\ Len(c) = IF p + 1 <= N THEN N - (p + 1) + 1 ELSE 0
          /\ \A i \in 1..(N - (p + 1) + 1) : c[i] = rows[p + 1 + i - 1]
      BY <2>0, <3>1, SubSeqProperties
    <3>3. N - (p + 1) + 1 = N - p /\ \A i \in 1..(N - p) : p + 1 + i - 1 = p + i
      BY <1>1
    <3> HIDE DEF c
    <3>4. p \in Nat /\ N \in Nat /\ p <= N
      BY <1>1
    <3> DEFINE length == Len(c)
    <3>5. length = N - p
      <4>1. length = IF p + 1 <= N THEN N - (p + 1) + 1 ELSE 0
        BY <3>2
      <4> HIDE DEF length, N
      <4> QED
        BY <3>4, <4>1
    <3>6. \A i \in 1..(N - p) : c[i] = rows[p + i]
      <4> HIDE DEF N
      <4> QED
        BY <3>2, <3>3
    <3> QED
      BY <3>2, <3>5, <3>6
  <2>3. Placed(rows, row) = whole
    BY <1>2 DEF Placed
  <2> HIDE DEF a, c
  <2>4. /\ a \o <<row>> \in Seq(RowType(S)) /\ Len(a \o <<row>>) = p + 1
        /\ \A i \in 1..(p + 1) : (a \o <<row>>)[i] = IF i <= p THEN rows[i] ELSE row
    <3>1. <<row>> \in Seq(RowType(S)) /\ Len(<<row>>) = 1 /\ <<row>>[1] = row
      OBVIOUS
    <3> DEFINE b == <<row>>
    <3> HIDE DEF b
    <3>2. /\ a \o b \in Seq(RowType(S)) /\ Len(a \o b) = Len(a) + Len(b)
          /\ \A i \in 1..(Len(a) + Len(b)) : (a \o b)[i] = IF i <= Len(a) THEN a[i] ELSE b[i - Len(a)]
      BY <2>1, <3>1, ConcatProperties DEF b
    <3>3. Len(b) = 1 /\ b[1] = row
      BY <3>1 DEF b
    <3>4. \A i \in 1..(p + 1) : (a \o b)[i] = IF i <= p THEN rows[i] ELSE row
      BY <2>1, <3>2, <3>3
    <3> QED
      BY <2>1, <3>2, <3>3, <3>4 DEF b
  <2> DEFINE ab == a \o <<row>>
  <2>5. whole = ab \o c
    OBVIOUS
  <2>6. ab \in Seq(RowType(S)) /\ Len(ab) = p + 1
        /\ \A i \in 1..(p + 1) : ab[i] = IF i <= p THEN rows[i] ELSE row
    BY <2>4
  <2> HIDE DEF ab, whole
  <2>7. /\ whole \in Seq(RowType(S)) /\ Len(whole) = Len(ab) + Len(c)
        /\ \A i \in 1..(Len(ab) + Len(c)) :
              whole[i] = IF i <= Len(ab) THEN ab[i] ELSE c[i - Len(ab)]
    BY <2>2, <2>5, <2>6, ConcatProperties
  <2>8. Len(whole) = N + 1
    BY <2>2, <2>6, <2>7
  <2>9. \A i \in 1..(N + 1) : whole[i] = IF i <= p THEN rows[i]
                                        ELSE IF i = p + 1 THEN row ELSE rows[i - 1]
    <3> TAKE i \in 1..(N + 1)
    <3>1. CASE i <= p + 1
      BY <2>2, <2>6, <2>7, <3>1
    <3>2. CASE i > p + 1
      <4>1. i - (p + 1) \in 1..(N - p) /\ p + (i - (p + 1)) = i - 1 /\ ~(i <= p + 1)
        BY <3>2
      <4>2. whole[i] = c[i - (p + 1)]
        BY <2>2, <2>6, <2>7, <4>1
      <4> QED
        BY <2>2, <3>2, <4>1, <4>2
    <3> QED
      BY <3>1, <3>2
  <2>10. whole = [i \in 1..(N + 1) |-> whole[i]]
    BY <2>7, <2>8
  <2> QED
    BY <2>3, <2>9, <2>10
<1>4. \A i \in 1..(N + 1) :
         /\ i <= p => i \in 1..N /\ new[i] = rows[i]
         /\ i = p + 1 => new[i] = row
         /\ i > p + 1 => i - 1 \in 1..N /\ new[i] = rows[i - 1]
  BY <1>1
<1>5. DOMAIN new = 1..(N + 1)
  OBVIOUS
<1>6. \A i \in 1..(N + 1) : new[i] \in RowType(S)
  BY <1>1, <1>4
<1>7. new \in Seq(RowType(S)) /\ Len(new) = N + 1
  BY <1>1, <1>6
<1> HIDE DEF new
<1>8. Ordered(new)
  <2> SUFFICES ASSUME NEW i \in 1..(N + 1), NEW j \in 1..(N + 1), i < j
               PROVE  new[i].ts <= new[j].ts
    BY <1>5 DEF Ordered
  <2>1. CASE j <= p
    BY <1>1, <1>4, <2>1
  <2>2. CASE j = p + 1
    BY <1>1, <1>2, <1>4, <2>2
  <2>3. CASE j > p + 1
    <3>1. new[j] = rows[j - 1] /\ j - 1 \in 1..N /\ ~(j - 1 <= p)
      BY <1>1, <1>4, <2>3
    <3>2. CASE i <= p
      BY <1>1, <1>4, <2>3, <3>1, <3>2
    <3>3. CASE i = p + 1
      <4>1. rows[j - 1].ts > row.ts
        BY <1>1, <1>2, <3>1
      <4> QED
        BY <1>1, <1>4, <3>1, <3>3, <4>1
    <3>4. CASE i > p + 1
      <4>1. new[i] = rows[i - 1] /\ i - 1 \in 1..N /\ i - 1 < j - 1
        BY <1>1, <1>4, <3>4
      <4> QED
        BY <1>1, <3>1, <4>1
    <3> QED
      BY <3>2, <3>3, <3>4
  <2> QED
    BY <2>1, <2>2, <2>3
<1>9. ASSUME NEW i \in DOMAIN rows PROVE \E j \in DOMAIN new : new[j] = rows[i]
  <2>1. CASE i <= p
    BY <1>1, <1>4, <1>5, <2>1
  <2>2. CASE ~(i <= p)
    <3>1. i + 1 \in 1..(N + 1) /\ i + 1 > p + 1 /\ (i + 1) - 1 = i
      BY <1>1, <2>2
    <3>2. new[i + 1] = rows[i]
      BY <1>4, <3>1
    <3> QED
      BY <1>5, <3>1, <3>2
  <2> QED
    BY <2>1, <2>2
<1>10. \E j \in DOMAIN new : new[j] = row
  <2>1. p + 1 \in 1..(N + 1)
    BY <1>1
  <2> QED
    BY <1>4, <1>5, <2>1
<1>11. ASSUME NEW j \in DOMAIN new PROVE new[j] = row \/ \E i \in DOMAIN rows : new[j] = rows[i]
  <2>1. j <= p \/ j = p + 1 \/ j > p + 1
    BY <1>5
  <2> QED
    BY <1>1, <1>4, <1>5, <2>1
<1> QED
  BY <1>3, <1>7, <1>8, <1>9, <1>10, <1>11 DEF Gains

\* What is read back is in time order and holds the rows stamped until `now`,
\* and no others.
LEMMA UntilNow ==
    ASSUME NEW S, NEW log \in Seq(RowType(S)), NEW now \in Int
    PROVE  /\ Until(log, now) \in Seq(RowType(S)) /\ Ordered(Until(log, now))
           /\ Len(Until(log, now)) <= Len(log)
           /\ \A j \in DOMAIN Until(log, now) :
                 \E i \in DOMAIN log : Until(log, now)[j] = log[i] /\ log[i].ts <= now
           /\ \A i \in DOMAIN log : log[i].ts <= now =>
                 \E j \in DOMAIN Until(log, now) : Until(log, now)[j] = log[i]
<1> DEFINE N == Len(log)
           In == {r \in Seq(RowType(S)) : Ordered(r)}
           placed[n \in 0..N] ==
               IF n = 0 THEN <<>>
               ELSE IF log[n].ts > now THEN placed[n - 1] ELSE Placed(placed[n - 1], log[n])
           Pass(f) == [n \in 0..N |->
               IF n = 0 THEN <<>>
               ELSE IF log[n].ts > now THEN f[n - 1] ELSE Placed(f[n - 1], log[n])]
           step == [n \in 1..N |-> [r \in In |->
                       IF log[n].ts > now THEN r ELSE Placed(r, log[n])]]
<1> HIDE DEF placed, Pass
<1>1. /\ N \in Nat /\ DOMAIN log = 1..N
      /\ \A n \in 1..N : log[n] \in RowType(S) /\ log[n].ts \in Nat
  <2>1. \A r \in RowType(S) : r.ts \in Nat
    BY DEF RowType
  <2> QED
    BY <2>1
<1>2. <<>> \in In
  BY DEF Ordered
<1>3. \A r \in In, n \in 1..N : Placed(r, log[n]) \in In
  BY <1>1, PlacedInOrder
<1>4. step \in [1..N -> [In -> In]]
  <2> HIDE DEF In
  <2> QED
    BY <1>3
<1>5. PICK f : Steps(f, N, In, <<>>, step)
  <2> HIDE DEF step, N, In
  <2> QED
    BY <1>1, <1>2, <1>4, Recursion
<1>6. f \in [0..N -> In] /\ f[0] = <<>> /\ \A n \in 1..N : f[n] = step[n][f[n - 1]]
  BY <1>5 DEF Steps
<1>7. f = Pass(f)
  <2>1. \A n \in 1..N : f[n] = IF log[n].ts > now THEN f[n - 1] ELSE Placed(f[n - 1], log[n])
    <3> TAKE n \in 1..N
    <3> HIDE DEF In
    <3>1. n - 1 \in 0..N /\ f[n - 1] \in In
      BY <1>1, <1>6
    <3> QED
      BY <1>6, <3>1
  <2> HIDE DEF step, In
  <2>2. \A n \in 0..N : n = 0 \/ n \in 1..N
    BY <1>1
  <2>3. f = [n \in 0..N |-> f[n]]
    BY <1>6
  <2>4. \A n \in 0..N : f[n] = Pass(f)[n]
    BY <1>6, <2>1, <2>2 DEF Pass
  <2>5. Pass(f) = [n \in 0..N |-> Pass(f)[n]]
    BY DEF Pass
  <2> HIDE DEF N
  <2> QED
    BY <2>3, <2>4, <2>5
<1>8. placed = Pass(placed)
  BY <1>7 DEF placed, Pass
<1>9. /\ placed[0] = <<>>
      /\ \A n \in 1..N : placed[n] = IF log[n].ts > now THEN placed[n - 1]
                                                        ELSE Placed(placed[n - 1], log[n])
  <2>1. \A n \in 0..N : placed[n] = IF n = 0 THEN <<>>
               ELSE IF log[n].ts > now THEN placed[n - 1] ELSE Placed(placed[n - 1], log[n])
    BY <1>8 DEF Pass
  <2>2. 0 \in 0..N /\ \A n \in 1..N : n \in 0..N /\ n # 0
    BY <1>1
  <2> QED
    BY <2>1, <2>2
<1> DEFINE Read(n, r) ==
               /\ r \in In /\ Len(r) <= n
               /\ \A j \in DOMAIN r : \E i \in 1..n : r[j] = log[i] /\ log[i].ts <= now
               /\ \A i \in 1..n : log[i].ts <= now => \E j \in DOMAIN r : r[j] = log[i]
           T == {n \in Nat : n <= N => Read(n, placed[n])}
<1>10. 0 \in T
  <2>1. placed[0] = <<>> /\ Len(<<>>) = 0 /\ DOMAIN <<>> = {}
    BY <1>9
  <2>2. Read(0, placed[0])
    BY <1>2, <2>1
  <2> QED
    BY <2>2
<1>11. ASSUME NEW n \in Nat, n \in T PROVE n + 1 \in T
  <2> SUFFICES ASSUME n + 1 <= N PROVE Read(n + 1, placed[n + 1])
    OBVIOUS
  <2> DEFINE r == placed[n]
             new == placed[n + 1]
             row == log[n + 1]
  <2>1. Read(n, r)
    BY <1>1, <1>11
  <2>2. n + 1 \in 1..N /\ row \in RowType(S) /\ row.ts \in Nat
        /\ \A i \in 1..(n + 1) : i \in 1..n \/ i = n + 1
    BY <1>1
  <2>3. new = IF row.ts > now THEN r ELSE Placed(r, row)
    BY <1>9, <2>2
  <2>4. r \in Seq(RowType(S)) /\ Ordered(r)
    BY <2>1
  <2> HIDE DEF r, new, row
  <2>5. CASE row.ts > now
    <3>1. new = r /\ ~(row.ts <= now)
      BY <2>2, <2>3, <2>5
    <3> QED
      BY <2>1, <2>2, <3>1 DEF row, new
  <2>6. CASE ~(row.ts > now)
    <3>1. new = Placed(r, row) /\ row.ts <= now
      BY <2>2, <2>3, <2>6
    <3>2. /\ new \in Seq(RowType(S)) /\ Ordered(new) /\ Len(new) = Len(r) + 1
          /\ Gains(new, r, row)
      <4>1. row \in RowType(S)
        BY <2>2
      <4> QED
        BY <2>4, <3>1, <4>1, PlacedInOrder
    <3>3. Len(new) <= n + 1 /\ new \in In
      <4>1. Len(r) \in Nat
        BY <2>4
      <4> QED
        BY <2>1, <3>2, <4>1
    <3>4. \A j \in DOMAIN new : \E i \in 1..(n + 1) : new[j] = log[i] /\ log[i].ts <= now
      <4> TAKE j \in DOMAIN new
      <4>1. CASE new[j] = row
        BY <2>2, <3>1, <4>1 DEF row
      <4>2. CASE \E i \in DOMAIN r : new[j] = r[i]
        BY <2>1, <2>2, <4>2
      <4> QED
        BY <3>2, <4>1, <4>2 DEF Gains
    <3>5. \A i \in 1..(n + 1) : log[i].ts <= now => \E j \in DOMAIN new : new[j] = log[i]
      BY <2>1, <2>2, <3>2 DEF row, Gains
    <3> QED
      BY <3>3, <3>4, <3>5 DEF new
  <2> QED
    BY <2>5, <2>6
<1>12. Nat \subseteq T
  <2> HIDE DEF T
  <2> QED
    BY <1>10, <1>11, SetInduction
<1>13. Read(N, placed[N])
  <2>1. N \in T
    BY <1>1, <1>12
  <2> HIDE DEF Read, N
  <2> QED
    BY <1>1, <2>1
<1>14. Until(log, now) = placed[N]
  BY DEF Until, placed
<1> DEFINE rows == placed[N]
<1>15. Read(N, rows)
  BY <1>13
<1> HIDE DEF rows
<1>16. /\ rows \in Seq(RowType(S)) /\ Ordered(rows) /\ Len(rows) <= N
       /\ \A j \in DOMAIN rows : \E i \in DOMAIN log : rows[j] = log[i] /\ log[i].ts <= now
       /\ \A i \in DOMAIN log : log[i].ts <= now => \E j \in DOMAIN rows : rows[j] = log[i]
  BY <1>1, <1>15
<1> QED
  BY <1>14, <1>16 DEF rows

\* rows are the rows of the log that were stamped until `now`, in time order,
\* but for rows older than all of them.
ReadBack(rows, log, now) ==
    /\ \A k \in DOMAIN rows : \E i \in DOMAIN log : rows[k] = log[i] /\ log[i].ts <= now
    /\ \A i \in DOMAIN log : log[i].ts <= now =>
          \/ \E k \in DOMAIN rows : rows[k] = log[i]
          \/ \A k \in DOMAIN rows : log[i].ts <= rows[k].ts

\* rows are all of them.
ReadWhole(rows, log, now) ==
    \A i \in DOMAIN log : log[i].ts <= now => \E k \in DOMAIN rows : rows[k] = log[i]

\* The walk is over the newest rows stamped until `now`, in time order, and over
\* all of them unless it reads as many rows as it may.
LEMMA HistoryReadsBack ==
    ASSUME NEW S, NEW log \in Seq(RowType(S)), NEW now \in Int, NEW maxRows \in Nat
    PROVE  /\ History(log, now, maxRows) \in Seq(RowType(S))
           /\ Ordered(History(log, now, maxRows))
           /\ ReadBack(History(log, now, maxRows), log, now)
           /\ \/ Len(History(log, now, maxRows)) = maxRows
              \/ ReadWhole(History(log, now, maxRows), log, now)
<1> DEFINE all  == Until(log, now)
           skip == IF Len(all) > maxRows THEN Len(all) - maxRows ELSE 0
           rows == [k \in 1..(Len(all) - skip) |-> all[skip + k]]
<1> HIDE DEF all
<1>1. /\ all \in Seq(RowType(S)) /\ Ordered(all) /\ Len(all) <= Len(log)
      /\ \A j \in DOMAIN all : \E i \in DOMAIN log : all[j] = log[i] /\ log[i].ts <= now
      /\ \A i \in DOMAIN log : log[i].ts <= now => \E j \in DOMAIN all : all[j] = log[i]
  BY UntilNow DEF all
<1>2. /\ Len(all) \in Nat /\ DOMAIN all = 1..Len(all)
      /\ \A i \in 1..Len(all) : all[i] \in RowType(S) /\ all[i].ts \in Nat
      /\ \A i, j \in 1..Len(all) : i < j => all[i].ts <= all[j].ts
  BY <1>1, OrderedRows
<1>3. /\ skip \in Nat /\ skip <= Len(all)
      /\ skip # 0 => Len(all) - skip = maxRows
  <2>1. CASE Len(all) > maxRows
    BY <1>2, <2>1
  <2>2. CASE ~(Len(all) > maxRows)
    BY <1>2, <2>2
  <2> QED
    BY <2>1, <2>2
<1>4. History(log, now, maxRows) = rows
  BY DEF History, all
<1> HIDE DEF skip
<1>5. \A k \in 1..(Len(all) - skip) : skip + k \in 1..Len(all) /\ rows[k] = all[skip + k]
  <2>1. skip \in Nat /\ Len(all) \in Nat
    BY <1>2, <1>3
  <2> QED
    BY <2>1
<1>6. DOMAIN rows = 1..(Len(all) - skip) /\ Len(all) - skip \in Nat
  <2>1. Len(all) \in Nat /\ skip \in Nat /\ skip <= Len(all)
    BY <1>2, <1>3
  <2>2. Len(all) - skip \in Nat
    BY <2>1
  <2> QED
    BY <2>2
<1>7. rows \in Seq(RowType(S))
  <2>1. \A k \in 1..(Len(all) - skip) : rows[k] \in RowType(S)
    BY <1>2, <1>5
  <2> QED
    BY <1>6, <2>1
<1> HIDE DEF rows
<1>8. Ordered(rows)
  <2> SUFFICES ASSUME NEW i \in 1..(Len(all) - skip), NEW j \in 1..(Len(all) - skip), i < j
               PROVE  rows[i].ts <= rows[j].ts
    BY <1>6 DEF Ordered
  <2>1. skip + i < skip + j
    BY <1>3
  <2> QED
    BY <1>2, <1>5, <2>1
<1>9. \A k \in DOMAIN rows : \E i \in DOMAIN log : rows[k] = log[i] /\ log[i].ts <= now
  BY <1>1, <1>2, <1>5, <1>6
<1>10. ASSUME NEW i \in DOMAIN log, log[i].ts <= now
       PROVE  \/ \E k \in DOMAIN rows : rows[k] = log[i]
              \/ skip # 0 /\ \A k \in DOMAIN rows : log[i].ts <= rows[k].ts
  <2>1. PICK j \in 1..Len(all) : all[j] = log[i]
    BY <1>1, <1>2, <1>10
  <2>2. CASE j > skip
    <3>1. j - skip \in DOMAIN rows /\ skip + (j - skip) = j
      <4>1. skip \in Nat /\ Len(all) \in Nat /\ j \in 1..Len(all)
        BY <1>2, <1>3
      <4> QED
        BY <1>6, <2>2, <4>1
    <3>2. rows[j - skip] = log[i]
      BY <1>5, <1>6, <2>1, <3>1
    <3> QED
      BY <3>1, <3>2
  <2>3. CASE ~(j > skip)
    <3>1. skip # 0
      BY <1>3, <2>3
    <3>2. ASSUME NEW k \in DOMAIN rows PROVE log[i].ts <= rows[k].ts
      <4>1. j < skip + k /\ skip + k \in 1..Len(all) /\ rows[k] = all[skip + k]
        BY <1>3, <1>5, <1>6, <2>3
      <4> QED
        BY <1>2, <2>1, <4>1
    <3> QED
      BY <3>1, <3>2
  <2> QED
    BY <2>2, <2>3
<1>11. ReadBack(rows, log, now)
  BY <1>9, <1>10 DEF ReadBack
<1>12. Len(rows) = maxRows \/ ReadWhole(rows, log, now)
  <2>1. CASE skip = 0
    BY <1>10, <2>1 DEF ReadWhole
  <2>2. CASE skip # 0
    BY <1>3, <1>6, <1>7, <2>2
  <2> QED
    BY <2>1, <2>2
<1> QED
  BY <1>4, <1>7, <1>8, <1>11, <1>12

-----------------------------------------------------------------------------
(***************************************************************************)
(* The failure clock: the walk computes what its docstring promises.       *)
(***************************************************************************)

\* The four kinds of evidence are kept apart.
RulesApart(rules) ==
    /\ rules.maxGap \in Int /\ rules.recovery \in Int
    /\ rules.reset \cap rules.mining = {} /\ rules.reset \cap rules.failure = {}
    /\ rules.reset \cap rules.notMining = {} /\ rules.mining \cap rules.failure = {}
    /\ rules.mining \cap rules.notMining = {} /\ rules.failure \cap rules.notMining = {}

IsEvidence(rows, k, rules) == rows[k].action \in Evidence(rules)
IsMining(rows, k, rules)   == rows[k].action \in rules.mining

\* MiningThroughout, one row at a time.
Throughout(rows, a, b, rules) ==
    /\ \A k \in a..b : IsEvidence(rows, k, rules) => IsMining(rows, k, rules)
    /\ \A k, m \in a..b :
          /\ k < m /\ IsEvidence(rows, k, rules) /\ IsEvidence(rows, m, rules)
          /\ \A n \in a..b : k < n /\ n < m => ~IsEvidence(rows, n, rules)
          => rows[m].ts - rows[k].ts <= rules.maxGap

LEMMA ThroughoutIs ==
    ASSUME NEW rows, NEW a, NEW b, NEW rules
    PROVE  MiningThroughout(rows, a, b, rules) <=> Throughout(rows, a, b, rules)
BY DEF MiningThroughout, Throughout, IsEvidence, IsMining

LEMMA MiningIsEvidence ==
    ASSUME NEW rows, NEW k, NEW rules, IsMining(rows, k, rules)
    PROVE  IsEvidence(rows, k, rules)
BY DEF IsMining, IsEvidence, Evidence

\* A run up to a row is one up to the row before.
LEMMA ThroughoutShrinks ==
    ASSUME NEW rows, NEW n \in Nat, NEW a \in 1..n, NEW rules,
           Throughout(rows, a, n + 1, rules)
    PROVE  Throughout(rows, a, n, rules)
<1>1. a..n \subseteq a..(n + 1)
  OBVIOUS
<1>2. ASSUME NEW k \in a..n, NEW m \in a..n, k < m,
             IsEvidence(rows, k, rules), IsEvidence(rows, m, rules),
             \A i \in a..n : k < i /\ i < m => ~IsEvidence(rows, i, rules)
      PROVE  rows[m].ts - rows[k].ts <= rules.maxGap
  <2>1. \A i \in a..(n + 1) : k < i /\ i < m => ~IsEvidence(rows, i, rules)
    BY <1>2
  <2> QED
    BY <1>1, <1>2, <2>1 DEF Throughout
<1> QED
  BY <1>1, <1>2 DEF Throughout

\* A row that is no evidence prolongs every run.
LEMMA ThroughoutStays ==
    ASSUME NEW rows, NEW n \in Nat, NEW a \in 1..n, NEW rules,
           ~IsEvidence(rows, n + 1, rules), Throughout(rows, a, n, rules)
    PROVE  Throughout(rows, a, n + 1, rules)
<1>1. \A k \in a..(n + 1) : k \in a..n \/ k = n + 1
  OBVIOUS
<1>2. ASSUME NEW k \in a..(n + 1), NEW m \in a..(n + 1), k < m,
             IsEvidence(rows, k, rules), IsEvidence(rows, m, rules),
             \A i \in a..(n + 1) : k < i /\ i < m => ~IsEvidence(rows, i, rules)
      PROVE  rows[m].ts - rows[k].ts <= rules.maxGap
  <2>1. k \in a..n /\ m \in a..n /\ a..n \subseteq a..(n + 1)
    BY <1>1, <1>2
  <2> QED
    BY <1>2, <2>1 DEF Throughout
<1> QED
  BY <1>1, <1>2 DEF Throughout

\* A mining row prolongs a run whose last row of evidence is near enough.
LEMMA ThroughoutGrows ==
    ASSUME NEW rows, NEW n \in Nat, NEW a \in 1..n, NEW l \in a..n, NEW rules,
           IsEvidence(rows, l, rules), \A k \in (l + 1)..n : ~IsEvidence(rows, k, rules),
           IsMining(rows, n + 1, rules)
    PROVE  Throughout(rows, a, n + 1, rules) <=>
              /\ Throughout(rows, a, n, rules)
              /\ rows[n + 1].ts - rows[l].ts <= rules.maxGap
<1>1. \A k \in a..(n + 1) : k \in a..n \/ k = n + 1
  OBVIOUS
<1>2. IsEvidence(rows, n + 1, rules)
  BY MiningIsEvidence
<1>3. ASSUME Throughout(rows, a, n + 1, rules)
      PROVE  rows[n + 1].ts - rows[l].ts <= rules.maxGap
  <2>1. l \in a..(n + 1) /\ n + 1 \in a..(n + 1) /\ l < n + 1
    OBVIOUS
  <2>2. \A i \in a..(n + 1) : l < i /\ i < n + 1 => i \in (l + 1)..n
    OBVIOUS
  <2>3. \A i \in a..(n + 1) : l < i /\ i < n + 1 => ~IsEvidence(rows, i, rules)
    BY <2>2
  <2> QED
    BY <1>2, <1>3, <2>1, <2>3 DEF Throughout
<1>4. ASSUME Throughout(rows, a, n, rules), rows[n + 1].ts - rows[l].ts <= rules.maxGap
      PROVE  Throughout(rows, a, n + 1, rules)
  <2>1. ASSUME NEW k \in a..(n + 1), NEW m \in a..(n + 1), k < m,
               IsEvidence(rows, k, rules), IsEvidence(rows, m, rules),
               \A i \in a..(n + 1) : k < i /\ i < m => ~IsEvidence(rows, i, rules)
        PROVE  rows[m].ts - rows[k].ts <= rules.maxGap
    <3>1. CASE m \in a..n
      <4>1. k \in a..n /\ a..n \subseteq a..(n + 1)
        BY <2>1, <3>1
      <4> QED
        BY <1>4, <2>1, <3>1, <4>1 DEF Throughout
    <3>2. CASE m = n + 1
      <4>1. k \in a..n /\ l \in a..(n + 1) /\ l < m
        BY <2>1, <3>2
      <4>2. ~(k < l)
        BY <2>1, <4>1
      <4>3. ~(l < k)
        <5> SUFFICES ASSUME l < k PROVE FALSE
          OBVIOUS
        <5>1. k \in (l + 1)..n
          BY <4>1
        <5> QED
          BY <2>1, <5>1
      <4>4. k = l
        BY <4>1, <4>2, <4>3
      <4> QED
        BY <1>4, <3>2, <4>4
    <3> QED
      BY <1>1, <3>1, <3>2
  <2>2. \A k \in a..(n + 1) : IsEvidence(rows, k, rules) => IsMining(rows, k, rules)
    BY <1>1, <1>4 DEF Throughout
  <2> QED
    BY <2>1, <2>2 DEF Throughout
<1> QED
  BY <1>3, <1>4, ThroughoutShrinks

\* A run that ends at evidence of another kind is over.
LEMMA ThroughoutBreaks ==
    ASSUME NEW rows, NEW n \in Nat, NEW a \in 1..n, NEW rules,
           IsEvidence(rows, n, rules), ~IsMining(rows, n, rules)
    PROVE  ~Throughout(rows, a, n, rules)
<1>1. n \in a..n
  OBVIOUS
<1> QED
  BY <1>1 DEF Throughout

\* A mining row alone is a run.
LEMMA ThroughoutBegins ==
    ASSUME NEW rows, NEW n \in Nat, NEW rules, IsMining(rows, n, rules)
    PROVE  Throughout(rows, n, n, rules)
<1>1. \A k \in n..n : k = n
  OBVIOUS
<1> QED
  BY <1>1 DEF Throughout

\* Row k is a failure that nothing cleared until row n.
Stands(rows, k, n, rules) ==
    /\ rows[k].action \in rules.failure
    /\ \A c \in k..n : ~ClearsClock(rows, c, rules)

\* The clock of the walk is the first failure that stands.
ClockIs(rows, n, w, rules) ==
    IF w.clock = NoTime THEN \A k \in 1..n : ~Stands(rows, k, n, rules)
    ELSE \E k \in 1..n : /\ Stands(rows, k, n, rules) /\ rows[k].ts = w.clock
                         /\ \A m \in 1..n : Stands(rows, m, n, rules) => k <= m

\* A run: mining from row a to row l and no evidence since, and no longer one
\* ends there.
IsRun(rows, a, l, n, rules) ==
    /\ IsMining(rows, a, rules) /\ IsMining(rows, l, rules)
    /\ Throughout(rows, a, n, rules)
    /\ \A k \in (l + 1)..n : ~IsEvidence(rows, k, rules)
    /\ \A b \in 1..n : IsMining(rows, b, rules) /\ Throughout(rows, b, n, rules) => a <= b

\* The run of the walk is the longest one that ends at row n.
RunIs(rows, n, w, rules) ==
    IF w.runStart = NoTime
    THEN \A b \in 1..n : IsMining(rows, b, rules) => ~Throughout(rows, b, n, rules)
    ELSE \E a \in 1..n, l \in 1..n :
            /\ a <= l /\ rows[a].ts = w.runStart /\ rows[l].ts = w.runLast
            /\ IsRun(rows, a, l, n, rules)

WalkState == [clock : Nat \cup {NoTime}, runStart : Nat \cup {NoTime}, runLast : Nat \cup {NoTime}]

\* What WalkRow does, by the kind of the row.
LEMMA WalkRowIs ==
    ASSUME NEW S, NEW w \in WalkState, NEW row \in RowType(S), NEW rules, RulesApart(rules)
    PROVE  LET new   == WalkRow(w, row, rules)
               start == IF Continues(w, row, rules) THEN w.runStart ELSE row.ts
           IN  /\ new \in WalkState
               /\ row.action \in rules.reset => new.clock = NoTime /\ new.runStart = NoTime
               /\ row.action \in rules.mining =>
                     /\ new.clock = IF Completed(start, row, rules) THEN NoTime ELSE w.clock
                     /\ new.runStart = start /\ new.runLast = row.ts
               /\ row.action \in rules.failure =>
                     /\ new.clock = IF w.clock = NoTime THEN row.ts ELSE w.clock
                     /\ new.runStart = NoTime
               /\ row.action \in rules.notMining => new.clock = w.clock /\ new.runStart = NoTime
               /\ row.action \notin Evidence(rules) => new = w
<1> DEFINE start == IF Continues(w, row, rules) THEN w.runStart ELSE row.ts
           new == WalkRow(w, row, rules)
<1>1. row.ts \in Nat /\ start \in Nat \cup {NoTime}
  BY DEF RowType, WalkState
<1>2. Broken(w) = [clock |-> w.clock, runStart |-> NoTime, runLast |-> NoTime]
  <2> DEFINE flat == [clock |-> w.clock, runStart |-> NoTime, runLast |-> NoTime]
  <2>1. Broken(w) \in WalkState /\ flat \in WalkState
    BY DEF Broken, WalkState
  <2>2. /\ Broken(w).clock = w.clock /\ Broken(w).runStart = NoTime /\ Broken(w).runLast = NoTime
    BY DEF Broken, WalkState
  <2> QED
    BY <2>1, <2>2 DEF WalkState
<1>3. row.action \in rules.reset => new = NoRun
  BY DEF WalkRow, Reset, RulesApart
<1>4. row.action \in rules.mining =>
         new = [clock    |-> IF Completed(start, row, rules) THEN NoTime ELSE w.clock,
                runStart |-> start, runLast |-> row.ts]
  BY DEF WalkRow, RulesApart
<1>5. row.action \in rules.failure =>
         new = IF w.clock = NoTime THEN [Broken(w) EXCEPT !.clock = row.ts] ELSE Broken(w)
  BY DEF WalkRow, RulesApart
<1>6. row.action \in rules.failure =>
         new = [clock    |-> IF w.clock = NoTime THEN row.ts ELSE w.clock,
                runStart |-> NoTime, runLast |-> NoTime]
  BY <1>2, <1>5
<1>7. row.action \in rules.notMining => new = Broken(w)
  BY DEF WalkRow, RulesApart
<1>8. row.action \notin Evidence(rules) => new = w
  BY DEF WalkRow, Evidence
<1>9. new \in WalkState
  <2>1. NoRun \in WalkState
    BY DEF NoRun, WalkState
  <2>2. w.clock \in Nat \cup {NoTime}
    BY DEF WalkState
  <2> HIDE DEF start, new
  <2>3. row.action \in rules.mining => new \in WalkState
    BY <1>1, <1>4, <2>2 DEF WalkState
  <2>4. row.action \in rules.failure \cup rules.notMining => new \in WalkState
    BY <1>1, <1>2, <1>6, <1>7, <2>2 DEF WalkState
  <2> QED
    BY <1>3, <1>8, <2>1, <2>3, <2>4 DEF Evidence
<1>10. row.action \in rules.reset => new.clock = NoTime /\ new.runStart = NoTime
  <2> HIDE DEF new
  <2> QED
    BY <1>3 DEF NoRun
<1>11. row.action \in rules.mining =>
          /\ new.clock = IF Completed(start, row, rules) THEN NoTime ELSE w.clock
          /\ new.runStart = start /\ new.runLast = row.ts
  <2> HIDE DEF new, start
  <2> QED
    BY <1>4
<1>12. row.action \in rules.failure =>
          /\ new.clock = IF w.clock = NoTime THEN row.ts ELSE w.clock
          /\ new.runStart = NoTime
  <2> HIDE DEF new
  <2> QED
    BY <1>6
<1>13. row.action \in rules.notMining => new.clock = w.clock /\ new.runStart = NoTime
  <2> HIDE DEF new
  <2> QED
    BY <1>2, <1>7
<1> QED
  BY <1>8, <1>9, <1>10, <1>11, <1>12, <1>13

\* A row clears the clock if it is a reset, or if the longest run that ends at
\* it lasts long enough.
LEMMA ClearsIs ==
    ASSUME NEW S, NEW rows \in Seq(RowType(S)), Ordered(rows), NEW rules, RulesApart(rules),
           NEW n \in 1..Len(rows)
    PROVE  /\ IsMining(rows, n, rules) =>
                 \A a \in 1..n : IsRun(rows, a, n, n, rules) =>
                    (ClearsClock(rows, n, rules) <=> Completed(rows[a].ts, rows[n], rules))
           /\ ~IsMining(rows, n, rules) =>
                 (ClearsClock(rows, n, rules) <=> rows[n].action \in rules.reset)
<1>1. /\ Len(rows) \in Nat /\ \A i \in 1..Len(rows) : rows[i].ts \in Nat
      /\ \A i, j \in 1..Len(rows) : i < j => rows[i].ts <= rows[j].ts
  BY OrderedRows
<1>2. ASSUME IsMining(rows, n, rules), NEW a \in 1..n, IsRun(rows, a, n, n, rules)
      PROVE  ClearsClock(rows, n, rules) <=> Completed(rows[a].ts, rows[n], rules)
  <2>1. ClearsClock(rows, n, rules) <=> CompletesRecovery(rows, n, rules)
    BY <1>2 DEF ClearsClock, IsMining, RulesApart
  <2>2. CompletesRecovery(rows, n, rules) <=>
          \E b \in 1..n : /\ IsMining(rows, b, rules)
                          /\ rows[n].ts - rows[b].ts >= rules.recovery
                          /\ Throughout(rows, b, n, rules)
    BY <1>2, ThroughoutIs DEF CompletesRecovery, IsMining
  <2>3. IsMining(rows, a, rules) /\ Throughout(rows, a, n, rules)
    BY <1>2 DEF IsRun
  <2>4. Completed(rows[a].ts, rows[n], rules) => CompletesRecovery(rows, n, rules)
    BY <2>2, <2>3 DEF Completed
  <2>5. ASSUME NEW b \in 1..n, IsMining(rows, b, rules),
               rows[n].ts - rows[b].ts >= rules.recovery, Throughout(rows, b, n, rules)
        PROVE  Completed(rows[a].ts, rows[n], rules)
    <3>1. a <= b
      BY <1>2, <2>5 DEF IsRun
    <3>2. rows[a].ts <= rows[b].ts
      BY <1>1, <3>1
    <3>3. rules.recovery \in Int
      BY DEF RulesApart
    <3> QED
      BY <1>1, <2>5, <3>2, <3>3 DEF Completed
  <2> QED
    BY <2>1, <2>2, <2>4, <2>5
<1>3. ~IsMining(rows, n, rules) => (ClearsClock(rows, n, rules) <=> rows[n].action \in rules.reset)
  BY DEF ClearsClock, CompletesRecovery, IsMining
<1> QED
  BY <1>2, <1>3

\* The run of the walk after one more row.
LEMMA RunAfterRow ==
    ASSUME NEW S, NEW rows \in Seq(RowType(S)), Ordered(rows), NEW rules, RulesApart(rules),
           NEW n \in Nat, n + 1 \in 1..Len(rows), NEW w \in WalkState, RunIs(rows, n, w, rules)
    PROVE  /\ RunIs(rows, n + 1, WalkRow(w, rows[n + 1], rules), rules)
           /\ IsMining(rows, n + 1, rules) =>
                 LET start == IF Continues(w, rows[n + 1], rules) THEN w.runStart
                              ELSE rows[n + 1].ts
                 IN  \E a \in 1..(n + 1) : rows[a].ts = start /\ IsRun(rows, a, n + 1, n + 1, rules)
<1> DEFINE row == rows[n + 1]
           new == WalkRow(w, row, rules)
           start == IF Continues(w, row, rules) THEN w.runStart ELSE row.ts
<1>1. /\ Len(rows) \in Nat /\ \A i \in 1..Len(rows) : rows[i].ts \in Nat
      /\ row \in RowType(S) /\ row.ts \in Nat
  BY OrderedRows
<1>2. \A b \in 1..(n + 1) : b \in 1..n \/ b = n + 1
  OBVIOUS
<1>3. NoTime \notin Nat
  BY DEF NoTime
<1>7. /\ row.action \in rules.mining => new.runStart = start /\ new.runLast = row.ts
      /\ row.action \in rules.reset \cup rules.failure \cup rules.notMining => new.runStart = NoTime
      /\ row.action \notin Evidence(rules) => new = w
  <2> HIDE DEF row
  <2>1. row \in RowType(S)
    BY <1>1
  <2>2. row.action \in rules.mining => new.runStart = start /\ new.runLast = row.ts
    BY <2>1, WalkRowIs
  <2>3. row.action \in rules.reset \cup rules.failure \cup rules.notMining => new.runStart = NoTime
    BY <2>1, WalkRowIs
  <2>4. row.action \notin Evidence(rules) => new = w
    BY <2>1, WalkRowIs
  <2> QED
    BY <2>2, <2>3, <2>4
<1>4. CASE IsMining(rows, n + 1, rules)
  <2>1. Throughout(rows, n + 1, n + 1, rules) /\ IsEvidence(rows, n + 1, rules)
    BY <1>4, ThroughoutBegins, MiningIsEvidence
  <2>2. new.runStart = start /\ new.runLast = row.ts
    BY <1>4, <1>7 DEF IsMining
  <2>3. \E a \in 1..(n + 1) : rows[a].ts = start /\ IsRun(rows, a, n + 1, n + 1, rules)
    <3>1. CASE Continues(w, row, rules)
      <4>1. w.runStart # NoTime /\ row.ts - w.runLast <= rules.maxGap /\ start = w.runStart
        BY <3>1 DEF Continues
      <4>2. PICK a \in 1..n, l \in 1..n :
               /\ a <= l /\ rows[a].ts = w.runStart /\ rows[l].ts = w.runLast
               /\ IsRun(rows, a, l, n, rules)
        BY <4>1 DEF RunIs
      <4>3. IsEvidence(rows, l, rules) /\ l \in a..n
        BY <4>2, MiningIsEvidence DEF IsRun
      <4>4. Throughout(rows, a, n + 1, rules)
        BY <1>4, <4>1, <4>2, <4>3, ThroughoutGrows DEF IsRun
      <4>5. ASSUME NEW b \in 1..(n + 1), IsMining(rows, b, rules), Throughout(rows, b, n + 1, rules)
            PROVE  a <= b
        <5>1. CASE b \in 1..n
          BY <4>2, <4>5, <5>1, ThroughoutShrinks DEF IsRun
        <5> QED
          BY <1>2, <5>1
      <4>6. IsRun(rows, a, n + 1, n + 1, rules)
        BY <1>4, <4>2, <4>4, <4>5 DEF IsRun
      <4> QED
        BY <4>1, <4>2, <4>6
    <3>2. CASE ~Continues(w, row, rules)
      <4>1. start = row.ts
        BY <3>2
      <4>2. ASSUME NEW b \in 1..n, IsMining(rows, b, rules), Throughout(rows, b, n + 1, rules)
            PROVE  FALSE
        <5>1. Throughout(rows, b, n, rules)
          BY <4>2, ThroughoutShrinks
        <5>2. w.runStart # NoTime
          BY <4>2, <5>1 DEF RunIs
        <5>3. PICK a \in 1..n, l \in 1..n :
                 /\ a <= l /\ rows[a].ts = w.runStart /\ rows[l].ts = w.runLast
                 /\ IsRun(rows, a, l, n, rules)
          BY <5>2 DEF RunIs
        <5>4. ~(b > l)
          <6> SUFFICES ASSUME b > l PROVE FALSE
            OBVIOUS
          <6>1. b \in (l + 1)..n
            OBVIOUS
          <6> QED
            BY <4>2, <5>3, <6>1, MiningIsEvidence DEF IsRun
        <5>5. l \in b..n /\ IsEvidence(rows, l, rules)
          BY <5>3, <5>4, MiningIsEvidence DEF IsRun
        <5>6. row.ts - rows[l].ts <= rules.maxGap
          BY <1>4, <4>2, <5>3, <5>5, ThroughoutGrows DEF IsRun
        <5> QED
          BY <3>2, <5>2, <5>3, <5>6 DEF Continues
      <4>3. IsRun(rows, n + 1, n + 1, n + 1, rules)
        <5>1. \A k \in ((n + 1) + 1)..(n + 1) : ~IsEvidence(rows, k, rules)
          OBVIOUS
        <5>2. \A b \in 1..(n + 1) : IsMining(rows, b, rules) /\ Throughout(rows, b, n + 1, rules)
                 => n + 1 <= b
          BY <1>2, <4>2
        <5> QED
          BY <1>4, <2>1, <5>1, <5>2 DEF IsRun
      <4> QED
        BY <4>1, <4>3
    <3> QED
      BY <3>1, <3>2
  <2>4. start # NoTime
    BY <1>1, <1>3 DEF Continues
  <2>5. n + 1 \in 1..(n + 1)
    OBVIOUS
  <2> HIDE DEF start, new, row
  <2>6. RunIs(rows, n + 1, new, rules)
    BY <2>2, <2>3, <2>4, <2>5 DEF RunIs, row
  <2> QED
    BY <2>3, <2>6 DEF start, new, row
<1>5. CASE ~IsMining(rows, n + 1, rules) /\ IsEvidence(rows, n + 1, rules)
  <2>1. row.action \in rules.reset \cup rules.failure \cup rules.notMining
    BY <1>5 DEF IsMining, IsEvidence, Evidence
  <2>2. new.runStart = NoTime
    BY <1>7, <2>1
  <2>3. \A b \in 1..(n + 1) : ~Throughout(rows, b, n + 1, rules)
    BY <1>5, ThroughoutBreaks
  <2> QED
    BY <1>5, <2>2, <2>3 DEF RunIs
<1>6. CASE ~IsEvidence(rows, n + 1, rules)
  <2>1. new = w
    BY <1>6, <1>7 DEF IsEvidence
  <2>2. ~IsMining(rows, n + 1, rules)
    BY <1>6, MiningIsEvidence
  <2>3. CASE w.runStart = NoTime
    <3>1. \A b \in 1..(n + 1) : IsMining(rows, b, rules) => ~Throughout(rows, b, n + 1, rules)
      BY <1>2, <2>2, <2>3, ThroughoutShrinks DEF RunIs
    <3> QED
      BY <2>1, <2>2, <2>3, <3>1 DEF RunIs
  <2>4. CASE w.runStart # NoTime
    <3>1. PICK a \in 1..n, l \in 1..n :
             /\ a <= l /\ rows[a].ts = w.runStart /\ rows[l].ts = w.runLast
             /\ IsRun(rows, a, l, n, rules)
      BY <2>4 DEF RunIs
    <3>2. Throughout(rows, a, n + 1, rules)
      BY <1>6, <3>1, ThroughoutStays DEF IsRun
    <3>3. \A k \in (l + 1)..(n + 1) : ~IsEvidence(rows, k, rules)
      <4>1. \A k \in (l + 1)..(n + 1) : k \in (l + 1)..n \/ k = n + 1
        OBVIOUS
      <4> QED
        BY <1>6, <3>1, <4>1 DEF IsRun
    <3>4. \A b \in 1..(n + 1) : IsMining(rows, b, rules) /\ Throughout(rows, b, n + 1, rules) => a <= b
      BY <1>2, <2>2, <3>1, ThroughoutShrinks DEF IsRun
    <3>5. IsRun(rows, a, l, n + 1, rules)
      BY <3>1, <3>2, <3>3, <3>4 DEF IsRun
    <3>6. a \in 1..(n + 1) /\ l \in 1..(n + 1)
      OBVIOUS
    <3> QED
      BY <2>1, <2>2, <2>4, <3>1, <3>5, <3>6 DEF RunIs
  <2> QED
    BY <2>3, <2>4
<1> QED
  BY <1>4, <1>5, <1>6

\* The clock of the walk after one more row.
LEMMA ClockAfterRow ==
    ASSUME NEW S, NEW rows \in Seq(RowType(S)), Ordered(rows), NEW rules, RulesApart(rules),
           NEW n \in Nat, n + 1 \in 1..Len(rows), NEW w \in WalkState,
           RunIs(rows, n, w, rules), ClockIs(rows, n, w, rules)
    PROVE  ClockIs(rows, n + 1, WalkRow(w, rows[n + 1], rules), rules)
<1> DEFINE row == rows[n + 1]
           new == WalkRow(w, row, rules)
           start == IF Continues(w, row, rules) THEN w.runStart ELSE row.ts
           Clears == ClearsClock(rows, n + 1, rules)
<1>1. /\ row \in RowType(S) /\ row.ts \in Nat /\ NoTime \notin Nat
  BY OrderedRows DEF NoTime
<1>2. \A k \in 1..(n + 1) : k \in 1..n \/ k = n + 1
  OBVIOUS
<1>3. n + 1 \in 1..(n + 1) /\ 1..n \subseteq 1..(n + 1)
  OBVIOUS
<1>4. Clears => \A k \in 1..(n + 1) : ~Stands(rows, k, n + 1, rules)
  <2>1. \A k \in 1..(n + 1) : n + 1 \in k..(n + 1)
    OBVIOUS
  <2> QED
    BY <2>1 DEF Stands
<1>5. ~Clears => \A k \in 1..n : Stands(rows, k, n + 1, rules) <=> Stands(rows, k, n, rules)
  <2>1. \A k \in 1..n : \A c \in k..(n + 1) : c \in k..n \/ c = n + 1
    OBVIOUS
  <2>2. \A k \in 1..n : k..n \subseteq k..(n + 1)
    OBVIOUS
  <2> QED
    BY <2>1, <2>2 DEF Stands
<1>6. ~Clears => (Stands(rows, n + 1, n + 1, rules) <=> row.action \in rules.failure)
  <2>1. \A c \in (n + 1)..(n + 1) : c = n + 1
    OBVIOUS
  <2> QED
    BY <2>1 DEF Stands
<1>7. row.action \in rules.mining => (Clears <=> Completed(start, row, rules))
  <2> SUFFICES ASSUME row.action \in rules.mining PROVE Clears <=> Completed(start, row, rules)
    OBVIOUS
  <2>1. IsMining(rows, n + 1, rules)
    BY DEF IsMining
  <2>2. PICK a \in 1..(n + 1) : rows[a].ts = start /\ IsRun(rows, a, n + 1, n + 1, rules)
    BY <2>1, RunAfterRow
  <2> HIDE DEF start
  <2> QED
    BY <2>1, <2>2, ClearsIs
<1>8. row.action \notin rules.mining => (Clears <=> row.action \in rules.reset)
  BY ClearsIs DEF IsMining
<1>9. /\ row.action \in rules.reset => new.clock = NoTime
      /\ row.action \in rules.mining =>
            new.clock = IF Completed(start, row, rules) THEN NoTime ELSE w.clock
      /\ row.action \in rules.failure =>
            new.clock = IF w.clock = NoTime THEN row.ts ELSE w.clock
      /\ row.action \notin rules.reset \cup rules.mining \cup rules.failure => new.clock = w.clock
  <2> HIDE DEF row
  <2>1. row \in RowType(S)
    BY <1>1
  <2>2. row.action \in rules.reset => new.clock = NoTime
    <3> SUFFICES ASSUME row.action \in rules.reset PROVE new.clock = NoTime
      OBVIOUS
    <3>1. new = NoRun
      BY DEF WalkRow, Reset, RulesApart
    <3> HIDE DEF new
    <3> QED
      BY <3>1 DEF NoRun
  <2>3. row.action \in rules.mining =>
            new.clock = IF Completed(start, row, rules) THEN NoTime ELSE w.clock
    BY <2>1, WalkRowIs
  <2>4. row.action \in rules.failure =>
            new.clock = IF w.clock = NoTime THEN row.ts ELSE w.clock
    BY <2>1, WalkRowIs
  <2>5. row.action \in rules.notMining => new.clock = w.clock
    BY <2>1, WalkRowIs
  <2>6. row.action \notin Evidence(rules) => new.clock = w.clock
    BY <2>1, WalkRowIs
  <2> QED
    BY <2>2, <2>3, <2>4, <2>5, <2>6 DEF Evidence
<1>10. rules.reset \cap rules.mining = {} /\ rules.mining \cap rules.failure = {}
       /\ rules.reset \cap rules.failure = {}
  BY DEF RulesApart
<1> HIDE DEF new, start, Clears
<1>11. CASE Clears
  <2>1. new.clock = NoTime
    BY <1>7, <1>8, <1>9, <1>11
  <2>2. ClockIs(rows, n + 1, new, rules)
    BY <1>4, <1>11, <2>1 DEF ClockIs
  <2> QED
    BY <2>2 DEF new
<1>12. CASE ~Clears /\ row.action \in rules.failure
  <2>1. new.clock = IF w.clock = NoTime THEN row.ts ELSE w.clock
    BY <1>9, <1>12
  <2>2. Stands(rows, n + 1, n + 1, rules)
        /\ \A k \in 1..n : Stands(rows, k, n + 1, rules) <=> Stands(rows, k, n, rules)
    BY <1>5, <1>6, <1>12
  <2>3. CASE w.clock = NoTime
    <3>1. \A m \in 1..(n + 1) : Stands(rows, m, n + 1, rules) => n + 1 <= m
      BY <1>2, <2>2, <2>3 DEF ClockIs
    <3>2. new.clock = rows[n + 1].ts /\ new.clock # NoTime
      BY <1>1, <2>1, <2>3
    <3>3. ClockIs(rows, n + 1, new, rules)
      BY <1>3, <2>2, <3>1, <3>2 DEF ClockIs
    <3> QED
      BY <3>3 DEF new
  <2>4. CASE w.clock # NoTime
    <3>1. PICK k \in 1..n : /\ Stands(rows, k, n, rules) /\ rows[k].ts = w.clock
                            /\ \A m \in 1..n : Stands(rows, m, n, rules) => k <= m
      BY <2>4 DEF ClockIs
    <3>2. \A m \in 1..(n + 1) : Stands(rows, m, n + 1, rules) => k <= m
      BY <1>2, <2>2, <3>1
    <3>3. ClockIs(rows, n + 1, new, rules)
      BY <1>3, <2>1, <2>2, <2>4, <3>1, <3>2 DEF ClockIs
    <3> QED
      BY <3>3 DEF new
  <2> QED
    BY <2>3, <2>4
<1>13. CASE ~Clears /\ row.action \notin rules.failure
  <2>1. new.clock = w.clock
    BY <1>7, <1>8, <1>9, <1>10, <1>13
  <2>2. ~Stands(rows, n + 1, n + 1, rules)
        /\ \A k \in 1..n : Stands(rows, k, n + 1, rules) <=> Stands(rows, k, n, rules)
    BY <1>5, <1>6, <1>13
  <2>3. ClockIs(rows, n + 1, new, rules)
    <3>1. CASE w.clock = NoTime
      BY <1>2, <2>1, <2>2, <3>1 DEF ClockIs
    <3>2. CASE w.clock # NoTime
      <4>1. PICK k \in 1..n : /\ Stands(rows, k, n, rules) /\ rows[k].ts = w.clock
                              /\ \A m \in 1..n : Stands(rows, m, n, rules) => k <= m
        BY <3>2 DEF ClockIs
      <4>2. \A m \in 1..(n + 1) : Stands(rows, m, n + 1, rules) => k <= m
        BY <1>2, <2>2, <4>1
      <4> QED
        BY <1>3, <2>1, <2>2, <3>2, <4>1, <4>2 DEF ClockIs
    <3> QED
      BY <3>1, <3>2
  <2> QED
    BY <2>3 DEF new
<1> QED
  BY <1>11, <1>12, <1>13

\* The clock the walk computes of a sequence of rows.
Walked(rows, rules) ==
    LET walk[n \in 0..Len(rows)] ==
            IF n = 0 THEN NoRun ELSE WalkRow(walk[n - 1], rows[n], rules)
    IN  walk[Len(rows)].clock

LEMMA WalkedIs ==
    ASSUME NEW S, NEW rows \in Seq(RowType(S)), Ordered(rows), NEW rules, RulesApart(rules)
    PROVE  \E w \in WalkState : w.clock = Walked(rows, rules) /\ ClockIs(rows, Len(rows), w, rules)
<1> DEFINE N == Len(rows)
           walk[n \in 0..N] == IF n = 0 THEN NoRun ELSE WalkRow(walk[n - 1], rows[n], rules)
           Pass(f) == [n \in 0..N |-> IF n = 0 THEN NoRun ELSE WalkRow(f[n - 1], rows[n], rules)]
           step == [n \in 1..N |-> [w \in WalkState |-> WalkRow(w, rows[n], rules)]]
<1> HIDE DEF walk, Pass
<1>1. N \in Nat /\ \A n \in 1..N : rows[n] \in RowType(S)
  BY OrderedRows
<1>2. NoRun \in WalkState
  BY DEF NoRun, WalkState
<1>3. \A w \in WalkState, n \in 1..N : WalkRow(w, rows[n], rules) \in WalkState
  BY <1>1, WalkRowIs
<1>4. step \in [1..N -> [WalkState -> WalkState]]
  BY <1>3
<1>5. PICK f : Steps(f, N, WalkState, NoRun, step)
  <2> HIDE DEF step, N
  <2> QED
    BY <1>1, <1>2, <1>4, Recursion
<1>6. f \in [0..N -> WalkState] /\ f[0] = NoRun /\ \A n \in 1..N : f[n] = step[n][f[n - 1]]
  BY <1>5 DEF Steps
<1>7. f = Pass(f)
  <2>1. \A n \in 1..N : f[n] = WalkRow(f[n - 1], rows[n], rules)
    <3> TAKE n \in 1..N
    <3>1. n - 1 \in 0..N /\ f[n - 1] \in WalkState
      BY <1>1, <1>6
    <3> QED
      BY <1>6, <3>1
  <2> HIDE DEF step
  <2>2. \A n \in 0..N : n = 0 \/ n \in 1..N
    BY <1>1
  <2>3. f = [n \in 0..N |-> f[n]]
    BY <1>6
  <2>4. \A n \in 0..N : f[n] = Pass(f)[n]
    BY <1>6, <2>1, <2>2 DEF Pass
  <2>5. Pass(f) = [n \in 0..N |-> Pass(f)[n]]
    BY DEF Pass
  <2> HIDE DEF N
  <2> QED
    BY <2>3, <2>4, <2>5
<1>8. walk = Pass(walk)
  BY <1>7 DEF walk, Pass
<1>9. walk[0] = NoRun /\ \A n \in 1..N : walk[n] = WalkRow(walk[n - 1], rows[n], rules)
  <2>1. \A n \in 0..N : walk[n] = IF n = 0 THEN NoRun ELSE WalkRow(walk[n - 1], rows[n], rules)
    BY <1>8 DEF Pass
  <2>2. 0 \in 0..N /\ \A n \in 1..N : n \in 0..N /\ n # 0
    BY <1>1
  <2> QED
    BY <2>1, <2>2
<1> DEFINE Right(n) == /\ walk[n] \in WalkState
                       /\ RunIs(rows, n, walk[n], rules) /\ ClockIs(rows, n, walk[n], rules)
           T == {n \in Nat : n <= N => Right(n)}
<1>10. 0 \in T
  <2>1. NoRun.clock = NoTime /\ NoRun.runStart = NoTime
    BY DEF NoRun
  <2>2. Right(0)
    BY <1>2, <1>9, <2>1 DEF RunIs, ClockIs
  <2> QED
    BY <2>2
<1>11. ASSUME NEW n \in Nat, n \in T PROVE n + 1 \in T
  <2> SUFFICES ASSUME n + 1 <= N PROVE Right(n + 1)
    OBVIOUS
  <2>1. Right(n)
    BY <1>1, <1>11
  <2>2. n + 1 \in 1..N /\ walk[n + 1] = WalkRow(walk[n], rows[n + 1], rules)
    BY <1>1, <1>9
  <2>3. walk[n + 1] \in WalkState
    BY <1>3, <2>1, <2>2
  <2>4. RunIs(rows, n + 1, walk[n + 1], rules)
    BY <2>1, <2>2, RunAfterRow
  <2>5. ClockIs(rows, n + 1, walk[n + 1], rules)
    BY <2>1, <2>2, ClockAfterRow
  <2> QED
    BY <2>3, <2>4, <2>5
<1>12. Nat \subseteq T
  <2> HIDE DEF T
  <2> QED
    BY <1>10, <1>11, SetInduction
<1>13. Right(N)
  BY <1>1, <1>12
<1>14. Walked(rows, rules) = walk[N].clock
  BY DEF Walked, walk
<1> QED
  BY <1>13, <1>14

LEMMA PromisedIs ==
    ASSUME NEW S, NEW rows \in Seq(RowType(S)), Ordered(rows), NEW rules,
           NEW w \in WalkState, ClockIs(rows, Len(rows), w, rules)
    PROVE  w.clock = LET failures == {k \in DOMAIN rows :
                                        /\ rows[k].action \in rules.failure
                                        /\ \A c \in k..Len(rows) : ~ClearsClock(rows, c, rules)}
                     IN  IF failures = {} THEN NoTime
                         ELSE rows[CHOOSE k \in failures : \A m \in failures : k <= m].ts
<1> DEFINE failures == {k \in DOMAIN rows :
                          /\ rows[k].action \in rules.failure
                          /\ \A c \in k..Len(rows) : ~ClearsClock(rows, c, rules)}
<1>1. Len(rows) \in Nat /\ DOMAIN rows = 1..Len(rows)
  BY OrderedRows
<1>2. \A k \in 1..Len(rows) : k \in failures <=> Stands(rows, k, Len(rows), rules)
  BY <1>1 DEF Stands
<1>3. failures \subseteq 1..Len(rows)
  BY <1>1
<1> HIDE DEF failures
<1>4. CASE w.clock = NoTime
  <2>1. failures = {}
    BY <1>2, <1>3, <1>4 DEF ClockIs
  <2> QED
    BY <1>4, <2>1 DEF failures
<1>5. CASE w.clock # NoTime
  <2>1. PICK k \in 1..Len(rows) : /\ Stands(rows, k, Len(rows), rules) /\ rows[k].ts = w.clock
                                  /\ \A m \in 1..Len(rows) : Stands(rows, m, Len(rows), rules) => k <= m
    BY <1>5 DEF ClockIs
  <2>2. k \in failures /\ \A m \in failures : k <= m
    BY <1>2, <1>3, <2>1
  <2>3. \A i \in failures : (\A m \in failures : i <= m) => i = k
    BY <1>1, <1>3, <2>2
  <2>4. (CHOOSE i \in failures : \A m \in failures : i <= m) = k
    BY <2>2, <2>3
  <2>5. failures # {}
    BY <2>2
  <2> QED
    BY <2>1, <2>4, <2>5 DEF failures
<1> QED
  BY <1>4, <1>5

\* For every log and every rules that keep the kinds of evidence apart: the walk
\* of failure_clock_start computes the clock its docstring promises.
THEOREM WalkKeepsPromise ==
    ASSUME NEW S, NEW log \in Seq(RowType(S)), NEW now \in Int,
           NEW rules, RulesApart(rules), rules.maxRows \in Nat
    PROVE  FailureClockStart(log, now, rules) = PromisedClockStart(log, now, rules)
<1> DEFINE rows == History(log, now, rules.maxRows)
<1>1. rows \in Seq(RowType(S)) /\ Ordered(rows)
  BY HistoryReadsBack
<1>2. FailureClockStart(log, now, rules) = Walked(rows, rules)
  BY DEF FailureClockStart, Walked
<1> HIDE DEF rows
<1>3. PICK w \in WalkState : w.clock = Walked(rows, rules) /\ ClockIs(rows, Len(rows), w, rules)
  BY <1>1, WalkedIs
<1>4. w.clock = LET failures == {k \in DOMAIN rows :
                                   /\ rows[k].action \in rules.failure
                                   /\ \A c \in k..Len(rows) : ~ClearsClock(rows, c, rules)}
                IN  IF failures = {} THEN NoTime
                    ELSE rows[CHOOSE k \in failures : \A m \in failures : k <= m].ts
  BY <1>1, <1>3, PromisedIs
<1> QED
  BY <1>2, <1>3, <1>4 DEF PromisedClockStart, rows

\* The clock is the time of the first failure read back that stands.
LEMMA ClockStands ==
    ASSUME NEW S, NEW log \in Seq(RowType(S)), NEW now \in Nat,
           NEW rules, RulesApart(rules), rules.maxRows \in Nat
    PROVE  LET rows == History(log, now, rules.maxRows)
           IN  \E w \in WalkState : /\ w.clock = FailureClockStart(log, now, rules)
                                    /\ ClockIs(rows, Len(rows), w, rules)
<1> DEFINE rows == History(log, now, rules.maxRows)
<1>1. rows \in Seq(RowType(S)) /\ Ordered(rows)
  BY HistoryReadsBack
<1>2. FailureClockStart(log, now, rules) = Walked(rows, rules)
  BY DEF FailureClockStart, Walked
<1> HIDE DEF rows
<1>3. PICK w \in WalkState : w.clock = Walked(rows, rules) /\ ClockIs(rows, Len(rows), w, rules)
  BY <1>1, WalkedIs
<1> QED
  BY <1>2, <1>3 DEF rows

\* A clock that runs started at a failure, and no reset is younger.
LEMMA ClockSays ==
    ASSUME NEW S, NEW log \in Seq(RowType(S)), NEW now \in Nat,
           NEW rules, RulesApart(rules), rules.maxRows \in Nat,
           FailureClockStart(log, now, rules) # NoTime
    PROVE  LET start == FailureClockStart(log, now, rules)
           IN  /\ start \in Nat /\ start <= now /\ start \in Times(log, rules.failure)
               /\ \A t \in Times(log, rules.reset) : t <= now => t <= start
<1> DEFINE rows == History(log, now, rules.maxRows)
           start == FailureClockStart(log, now, rules)
<1>1. /\ rows \in Seq(RowType(S)) /\ Ordered(rows) /\ ReadBack(rows, log, now)
  BY HistoryReadsBack
<1>2. PICK w \in WalkState : w.clock = start /\ ClockIs(rows, Len(rows), w, rules)
  BY ClockStands
<1> HIDE DEF rows, start
<1>3. /\ Len(rows) \in Nat /\ DOMAIN rows = 1..Len(rows)
      /\ \A i \in 1..Len(rows) : rows[i].ts \in Nat
      /\ \A i, j \in 1..Len(rows) : i < j => rows[i].ts <= rows[j].ts
  BY <1>1, OrderedRows
<1>4. PICK k \in 1..Len(rows) : Stands(rows, k, Len(rows), rules) /\ rows[k].ts = start
  BY <1>2 DEF ClockIs, start
<1>5. PICK i \in DOMAIN log : rows[k] = log[i] /\ log[i].ts <= now
  BY <1>1, <1>3 DEF ReadBack
<1>6. start \in Nat /\ start <= now /\ start \in Times(log, rules.failure)
  BY <1>3, <1>4, <1>5 DEF Stands, Times, Rows
<1>7. ASSUME NEW j \in DOMAIN log, log[j].action \in rules.reset, log[j].ts <= now
      PROVE  log[j].ts <= start
  <2>1. CASE \A c \in DOMAIN rows : log[j].ts <= rows[c].ts
    BY <1>3, <1>4, <2>1
  <2>2. CASE \E c \in DOMAIN rows : rows[c] = log[j]
    <3>1. PICK c \in 1..Len(rows) : rows[c] = log[j]
      BY <1>3, <2>2
    <3>2. ClearsClock(rows, c, rules)
      BY <1>7, <3>1 DEF ClearsClock
    <3>3. ~(k <= c)
      BY <1>4, <3>2 DEF Stands
    <3>4. c < k
      BY <3>3
    <3> QED
      BY <1>3, <1>4, <3>1, <3>4
  <2> QED
    BY <1>1, <1>7, <2>1, <2>2 DEF ReadBack
<1>8. \A t \in Times(log, rules.reset) : t <= now => t <= start
  BY <1>7 DEF Times, Rows
<1> QED
  BY <1>6, <1>8 DEF start

\* Every failure that is read back is on the clock, or something since has
\* cleared it: a reset, or mining over a recovery.
LEMMA ClockWaits ==
    ASSUME NEW S, NEW log \in Seq(RowType(S)), NEW now \in Nat,
           NEW rules, RulesApart(rules), rules.maxRows \in Nat,
           NEW s \in Times(History(log, now, rules.maxRows), rules.failure)
    PROVE  LET start == FailureClockStart(log, now, rules)
           IN  \/ start # NoTime /\ start \in Nat /\ start <= s
               \/ \E u \in Times(log, rules.reset) : s <= u /\ u <= now
               \/ \E u, v \in Times(log, rules.mining) :
                     s <= u /\ v - u >= rules.recovery /\ v <= now
<1> DEFINE rows == History(log, now, rules.maxRows)
           start == FailureClockStart(log, now, rules)
<1>1. /\ rows \in Seq(RowType(S)) /\ Ordered(rows) /\ ReadBack(rows, log, now)
  BY HistoryReadsBack
<1>2. PICK w \in WalkState : w.clock = start /\ ClockIs(rows, Len(rows), w, rules)
  BY ClockStands
<1> HIDE DEF rows, start
<1>3. /\ Len(rows) \in Nat /\ DOMAIN rows = 1..Len(rows)
      /\ \A i \in 1..Len(rows) : rows[i].ts \in Nat
      /\ \A i, j \in 1..Len(rows) : i < j => rows[i].ts <= rows[j].ts
  BY <1>1, OrderedRows
<1>4. \A A : \A c \in 1..Len(rows) : rows[c].action \in A =>
          rows[c].ts \in Times(log, A) /\ rows[c].ts <= now
  BY <1>1, <1>3 DEF ReadBack, Times, Rows
<1>5. PICK k \in 1..Len(rows) : rows[k].ts = s /\ rows[k].action \in rules.failure
  BY <1>3 DEF rows, Times, Rows
<1>6. CASE Stands(rows, k, Len(rows), rules)
  <2>1. start # NoTime
    BY <1>2, <1>6 DEF ClockIs
  <2>2. PICK m \in 1..Len(rows) : rows[m].ts = start /\ m <= k
    BY <1>2, <1>6, <2>1 DEF ClockIs
  <2>3. start \in Nat /\ start <= s
    BY <1>3, <1>5, <2>2
  <2> QED
    BY <2>1, <2>3 DEF start
<1>7. CASE ~Stands(rows, k, Len(rows), rules)
  <2>1. PICK c \in k..Len(rows) : ClearsClock(rows, c, rules)
    BY <1>5, <1>7 DEF Stands
  <2>2. c \in 1..Len(rows) /\ s <= rows[c].ts
    BY <1>3, <1>5
  <2>3. CASE rows[c].action \in rules.reset
    BY <1>4, <2>2, <2>3
  <2>4. CASE CompletesRecovery(rows, c, rules)
    <3>1. PICK a \in 1..c : /\ rows[a].action \in rules.mining
                            /\ rows[c].ts - rows[a].ts >= rules.recovery
                            /\ Throughout(rows, a, c, rules)
      BY <2>4, ThroughoutIs DEF CompletesRecovery
    <3>2. ~(a <= k)
      <4> SUFFICES ASSUME a <= k PROVE FALSE
        OBVIOUS
      <4>1. k \in a..c
        BY <2>1
      <4>2. rows[k].action \in Evidence(rules) /\ rows[k].action \notin rules.mining
        BY <1>5 DEF Evidence, RulesApart
      <4> QED
        BY <3>1, <4>1, <4>2 DEF Throughout, IsEvidence, IsMining
    <3>3. a \in 1..Len(rows) /\ s <= rows[a].ts
      BY <1>3, <1>5, <2>2, <3>2
    <3>4. rows[a].ts \in Times(log, rules.mining)
      BY <1>4, <3>1, <3>3
    <3>5. rows[c].ts \in Times(log, rules.mining) /\ rows[c].ts <= now
      BY <1>4, <2>2, <2>4 DEF CompletesRecovery
    <3> QED
      BY <3>1, <3>3, <3>4, <3>5
  <2> QED
    BY <2>1, <2>3, <2>4 DEF ClearsClock
<1> QED
  BY <1>6, <1>7
=============================================================================
