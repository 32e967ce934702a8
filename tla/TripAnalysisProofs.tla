------------------------- MODULE TripAnalysisProofs --------------------------
(***************************************************************************)
(* Proofs about TripAnalysis, for every set of folders, every scenario and *)
(* every number of launches.                                               *)
(***************************************************************************)
EXTENDS TripAnalysis, Aggregates, SequenceTheorems

-----------------------------------------------------------------------------
(* Lists of lines *)

\* s is a sequence of n elements, whatever they are.
IsList(s, n) == n \in Nat /\ Len(s) = n /\ s = [i \in 1..n |-> s[i]]

\* A function on 1..n is a list.
LEMMA FunctionIsList ==
    ASSUME NEW n \in Nat, NEW s, s = [i \in 1..n |-> s[i]]
    PROVE  IsList(s, n)
<1> DEFINE S == {s[i] : i \in 1..n}
<1>1. s \in [1..n -> S]
  OBVIOUS
<1>2. s \in Seq(S)
  BY <1>1, SeqDef
<1>3. Len(s) \in Nat /\ DOMAIN s = 1..Len(s)
  BY <1>2, LenProperties
<1>4. DOMAIN s = 1..n
  BY <1>1
<1>5. Len(s) = n
  BY <1>3, <1>4
<1> QED  BY <1>5 DEF IsList

\* A list is a sequence of its elements.
LEMMA ListIsSeq ==
    ASSUME NEW s, NEW n, IsList(s, n), NEW S, \A i \in 1..n : s[i] \in S
    PROVE  s \in Seq(S)
<1>1. s \in [1..n -> S]
  BY DEF IsList
<1> QED  BY <1>1, SeqDef DEF IsList

\* c is list a, of m elements, followed by list b, of n elements.
Joined(c, a, m, b, n) ==
    /\ IsList(c, m + n)
    /\ \A i \in 1..m : c[i] = a[i]
    /\ \A i \in 1..n : c[m + i] = b[i]

\* The lines of one list after those of another.
LEMMA JoinLists ==
    ASSUME NEW a, NEW b, NEW m, NEW n, IsList(a, m), IsList(b, n)
    PROVE  Joined(a \o b, a, m, b, n)
<1> DEFINE S == {a[i] : i \in 1..m} \cup {b[i] : i \in 1..n}
           c == a \o b
<1>1. a \in Seq(S) /\ b \in Seq(S)
  <2>1. (\A i \in 1..m : a[i] \in S) /\ (\A i \in 1..n : b[i] \in S)
    OBVIOUS
  <2> HIDE DEF S
  <2> QED  BY <2>1, ListIsSeq
<1>2. m \in Nat /\ n \in Nat /\ Len(a) = m /\ Len(b) = n
  BY DEF IsList
<1> HIDE DEF S
<1>3. /\ c \in Seq(S) /\ Len(c) = m + n
      /\ \A i \in 1..(m + n) : c[i] = IF i <= m THEN a[i] ELSE b[i - m]
  BY <1>1, <1>2, ConcatProperties
<1> HIDE DEF c
<1>4. c \in [1..(m + n) -> S]
  BY <1>3, LenProperties
<1>5. IsList(c, m + n)
  BY <1>2, <1>3, <1>4 DEF IsList
<1>6. ASSUME NEW i \in 1..m PROVE c[i] = a[i]
  <2>1. i \in 1..(m + n) /\ i <= m
    BY <1>2
  <2> QED  BY <1>3, <2>1
<1>7. ASSUME NEW i \in 1..n PROVE c[m + i] = b[i]
  <2>1. m + i \in 1..(m + n) /\ ~(m + i <= m) /\ (m + i) - m = i
    BY <1>2
  <2> QED  BY <1>3, <2>1
<1> QED  BY <1>5, <1>6, <1>7 DEF c, Joined

-----------------------------------------------------------------------------
(* The rows of a table *)

\* The values of a list without repetitions are finitely many.
LEMMA RangeIsFinite ==
    ASSUME NEW S, NEW order \in Seq(S)
    PROVE  IsFiniteSet(Range(order))
<1> DEFINE n == Len(order)
<1>1. n \in Nat /\ DOMAIN order = 1..n
  BY LenProperties
<1>2. IsFiniteSet(1..n)
  <2>1. 1 \in Int /\ n \in Int
    BY <1>1
  <2> HIDE DEF n
  <2> QED  BY <2>1, FS_Interval
<1>3. order \in Surjection(1..n, Range(order))
  <2>1. order \in [1..n -> Range(order)]
    BY <1>1, LenProperties DEF Range
  <2>2. \A t \in Range(order) : \E s \in 1..n : order[s] = t
    BY <1>1 DEF Range
  <2> QED  BY <2>1, <2>2 DEF Surjection
<1> QED  BY <1>2, <1>3, FS_Surjection

\* How many of present are not after g.
Rank(order, present, g) == Cardinality({h \in present : NotAfter(order, h, g)})

\* The groups that occur have the ranks 1, 2 and so on.
Ranked(order, present) ==
    /\ IsFiniteSet(present) /\ Cardinality(present) \in Nat
    /\ \A g \in present : Rank(order, present, g) \in 1..Cardinality(present)
    /\ \A g, h \in present : Rank(order, present, g) = Rank(order, present, h) => g = h
    /\ \A k \in 1..Cardinality(present) : \E g \in present : Rank(order, present, g) = k

\* Ranks number the groups that occur from 1 on, each once.
LEMMA RankIsBijective ==
    ASSUME NEW S, NEW order \in Seq(S), IsInjective(order), NEW present \in SUBSET Range(order)
    PROVE  Ranked(order, present)
<1> DEFINE n == Cardinality(present)
           upTo(g) == {h \in present : NotAfter(order, h, g)}
<1>1. IsFiniteSet(present) /\ n \in Nat
  BY RangeIsFinite, FS_Subset, FS_CardinalityType
<1>2. Len(order) \in Nat /\ DOMAIN order = 1..Len(order)
  BY LenProperties
<1>3. \A g \in present : \E i \in DOMAIN order : order[i] = g
  BY DEF Range
<1>4. ASSUME NEW g \in present PROVE Rank(order, present, g) \in 1..n /\ g \in upTo(g)
  <2>1. PICK i \in DOMAIN order : order[i] = g
    BY <1>3
  <2>2. i <= i
    BY <1>2
  <2>3. g \in upTo(g)
    BY <2>1, <2>2 DEF NotAfter
  <2>4. IsFiniteSet(upTo(g)) /\ Cardinality(upTo(g)) <= n
    BY <1>1, FS_Subset
  <2>5. Cardinality(upTo(g)) \in Nat /\ Cardinality(upTo(g)) # 0
    BY <2>3, <2>4, FS_CardinalityType, FS_EmptySet
  <2> QED  BY <1>1, <2>3, <2>4, <2>5 DEF Rank
<1>5. ASSUME NEW g \in present, NEW h \in present, Rank(order, present, g) = Rank(order, present, h)
      PROVE  g = h
  <2>1. PICK i \in DOMAIN order, j \in DOMAIN order : order[i] = g /\ order[j] = h
    BY <1>3
  <2>2. i \in Nat /\ j \in Nat
    BY <1>2
  <2>3. ASSUME NEW a \in DOMAIN order, NEW b \in DOMAIN order, NEW x \in present, NEW y \in present,
               order[a] = x, order[b] = y, a <= b,
               Rank(order, present, x) = Rank(order, present, y)
        PROVE  x = y
    <3>1. upTo(x) \subseteq upTo(y)
      <4>1. ASSUME NEW z \in upTo(x) PROVE z \in upTo(y)
        <5>1. PICK c \in DOMAIN order, d \in DOMAIN order : c <= d /\ order[c] = z /\ order[d] = x
          BY DEF NotAfter
        <5>2. d = a
          BY <2>3, <5>1 DEF IsInjective
        <5>3. c <= b
          BY <1>2, <2>3, <5>1, <5>2
        <5> QED  BY <2>3, <5>1, <5>3 DEF NotAfter
      <4> QED  BY <4>1
    <3>2. IsFiniteSet(upTo(y))
      BY <1>1, FS_Subset
    <3>3. upTo(x) = upTo(y)
      BY <2>3, <3>1, <3>2, FS_Subset DEF Rank
    <3>4. y \in upTo(x)
      BY <1>4, <3>3
    <3>5. PICK c \in DOMAIN order, d \in DOMAIN order : c <= d /\ order[c] = y /\ order[d] = x
      BY <3>4 DEF NotAfter
    <3>6. c = b /\ d = a
      BY <2>3, <3>5 DEF IsInjective
    <3>7. a = b
      BY <1>2, <2>3, <3>5, <3>6
    <3> QED  BY <2>3, <3>7
  <2>4. CASE i <= j
    BY <1>5, <2>1, <2>3, <2>4
  <2>5. CASE j <= i
    BY <1>5, <2>1, <2>3, <2>5
  <2> QED  BY <2>2, <2>4, <2>5
<1> HIDE DEF upTo, n
<1>6. ASSUME NEW k \in 1..n PROVE \E g \in present : Rank(order, present, g) = k
  <2> DEFINE rank == [g \in present |-> Rank(order, present, g)]
  <2>1. rank \in Injection(present, 1..n)
    BY <1>4, <1>5 DEF Injection, IsInjective
  <2>2. IsFiniteSet(1..n) /\ Cardinality(1..n) = n
    <3>1. 1 \in Int /\ n \in Int
      BY <1>1
    <3>2. IsFiniteSet(1..n) /\ Cardinality(1..n) = IF 1 > n THEN 0 ELSE n - 1 + 1
      BY <3>1, FS_Interval
    <3> QED  BY <1>1, <3>2
  <2>3. rank \in Surjection(present, 1..n)
    BY <2>1, <2>2, FS_Injection DEF n
  <2> QED  BY <2>3 DEF Surjection
<1> QED  BY <1>1, <1>4, <1>5, <1>6 DEF n, Ranked

\* The rows are about groups that occur, and each has its row.
KthIs(order, present) ==
    /\ \A k \in 1..Cardinality(present) : Kth(order, present, k) \in present
    /\ \A g \in present : \E k \in 1..Cardinality(present) : Kth(order, present, k) = g
    /\ \A j, k \in 1..Cardinality(present) :
          Kth(order, present, j) = Kth(order, present, k) => j = k

\* That is how Kth numbers them.
LEMMA KthFacts ==
    ASSUME NEW S, NEW order \in Seq(S), IsInjective(order), NEW present \in SUBSET Range(order)
    PROVE  KthIs(order, present)
<1> DEFINE n == Cardinality(present)
           rank(g) == Rank(order, present, g)
           kth(k) == Kth(order, present, k)
<1>1. Ranked(order, present)
  BY RankIsBijective
<1>2. /\ \A g \in present : rank(g) \in 1..n
      /\ \A g, h \in present : rank(g) = rank(h) => g = h
      /\ \A k \in 1..n : \E g \in present : rank(g) = k
  BY <1>1 DEF Ranked
<1>3. \A k : kth(k) = CHOOSE g \in present : rank(g) = k
  BY DEF Kth, Rank
<1> HIDE DEF n, rank, kth
<1>4. \A k \in 1..n : kth(k) \in present /\ rank(kth(k)) = k
  BY <1>2, <1>3
<1>5. \A g \in present : rank(g) \in 1..n /\ kth(rank(g)) = g
  BY <1>2, <1>4
<1>6. \A j, k \in 1..n : kth(j) = kth(k) => j = k
  BY <1>4
<1> QED  BY <1>4, <1>5, <1>6 DEF n, kth, KthIs

\* What DataFrame.to_csv writes for a table, as it stands in the file from
\* line p on.
TableAt(lines, p, column, order, present, f) ==
    LET n == Cardinality(present)
    IN /\ lines[p] = Line("head", column, {})
       /\ lines[p + 1] = Line("head", "", {})
       /\ lines[p + 2] = Line("names", "", {})
       /\ \A k \in 1..n : lines[p + 2 + k] = Row(f, Kth(order, present, k))
       /\ lines[p + 3 + n] = Line("blank", "", {})

\* Short tuples are lists.
LEMMA TupleIsList ==
    \A a, b, c : IsList(<<a>>, 1) /\ IsList(<<a, b>>, 2) /\ IsList(<<a, b, c>>, 3)
<1> TAKE a, b, c
<1>1. <<a>> = [i \in 1..1 |-> <<a>>[i]]
  OBVIOUS
<1>2. <<a, b>> = [i \in 1..2 |-> <<a, b>>[i]]
  OBVIOUS
<1>3. <<a, b, c>> = [i \in 1..3 |-> <<a, b, c>>[i]]
  OBVIOUS
<1> QED  BY <1>1, <1>2, <1>3, FunctionIsList

\* A table is a list: three lines, the rows and the newline.
LEMMA TableLines ==
    ASSUME NEW column, NEW order, NEW present, NEW f, Cardinality(present) \in Nat
    PROVE  /\ IsList(Table(column, order, present, f), Cardinality(present) + 4)
           /\ TableAt(Table(column, order, present, f), 1, column, order, present, f)
<1> DEFINE n == Cardinality(present)
           row(k) == Row(f, Kth(order, present, k))
           rows == [k \in 1..n |-> row(k)]
           h1 == Line("head", column, {})
           h2 == Line("head", "", {})
           h3 == Line("names", "", {})
           e == Line("blank", "", {})
           top == <<h1, h2, h3>>
           end == <<e>>
           t == (top \o rows) \o end
<1>1. Table(column, order, present, f) = t
  BY DEF Table
<1> HIDE DEF row, h1, h2, h3, e
<1>2. n \in Nat
  OBVIOUS
<1>3. IsList(top, 3) /\ IsList(end, 1)
  BY TupleIsList
<1>4. top[1] = h1 /\ top[2] = h2 /\ top[3] = h3 /\ end[1] = e
  OBVIOUS
<1> HIDE DEF n
<1>5. \A k \in 1..n : rows[k] = row(k)
  OBVIOUS
<1>6. IsList(rows, n)
  BY <1>2, <1>5, FunctionIsList
<1> HIDE DEF top, end, rows
<1>7. Joined(top \o rows, top, 3, rows, n)
  BY <1>3, <1>6, JoinLists
<1>8. Joined(t, top \o rows, 3 + n, end, 1)
  <2>1. IsList(top \o rows, 3 + n)
    BY <1>7 DEF Joined
  <2> QED  BY <1>3, <2>1, JoinLists
<1> DEFINE r == top \o rows
<1> HIDE DEF t, r
<1>9. t[1] = h1 /\ t[1 + 1] = h2 /\ t[1 + 2] = h3
  <2>1. 1 \in 1..3 /\ 2 \in 1..3 /\ 3 \in 1..3 /\ 1 \in 1..(3 + n) /\ 2 \in 1..(3 + n) /\ 3 \in 1..(3 + n)
    BY <1>2
  <2>2. 1 + 1 = 2 /\ 1 + 2 = 3
    OBVIOUS
  <2>3. r[1] = h1 /\ r[2] = h2 /\ r[3] = h3
    BY <1>4, <1>7, <2>1 DEF Joined, r
  <2> QED  BY <1>8, <2>1, <2>2, <2>3 DEF Joined, r
<1>10. ASSUME NEW k \in 1..n PROVE t[1 + 2 + k] = row(k)
  <2>1. 3 + k \in 1..(3 + n) /\ 1 + 2 + k = 3 + k
    BY <1>2
  <2> QED  BY <1>5, <1>7, <1>8, <2>1 DEF Joined
<1>11. t[1 + 3 + n] = e
  <2>1. 1 \in 1..1 /\ 1 + 3 + n = (3 + n) + 1
    BY <1>2
  <2> QED  BY <1>4, <1>8, <2>1 DEF Joined
<1>12. (3 + n) + 1 = n + 4
  BY <1>2
<1>13. IsList(t, n + 4)
  BY <1>8, <1>12 DEF Joined
<1> USE DEF n, row, h1, h2, h3, e
<1>14. TableAt(t, 1, column, order, present, f)
  BY <1>9, <1>10, <1>11 DEF TableAt
<1> QED  BY <1>1, <1>13, <1>14

\* A table stays one wherever its lines are put.
LEMMA TableWithin ==
    ASSUME NEW s, NEW t, NEW o \in Nat, NEW p \in Nat, NEW column, NEW order, NEW present, NEW f,
           Cardinality(present) \in Nat, TableAt(t, p, column, order, present, f),
           \A i \in p..(p + 3 + Cardinality(present)) : s[o + i] = t[i]
    PROVE  TableAt(s, o + p, column, order, present, f)
<1> DEFINE n == Cardinality(present)
           row(k) == Row(f, Kth(order, present, k))
<1>1. /\ t[p] = Line("head", column, {})
      /\ t[p + 1] = Line("head", "", {})
      /\ t[p + 2] = Line("names", "", {})
      /\ \A k \in 1..n : t[p + 2 + k] = row(k)
      /\ t[p + 3 + n] = Line("blank", "", {})
  BY DEF TableAt
<1>2. n \in Nat /\ \A i \in p..(p + 3 + n) : s[o + i] = t[i]
  OBVIOUS
<1> HIDE DEF n, row
<1>3. /\ p \in p..(p + 3 + n) /\ p + 1 \in p..(p + 3 + n) /\ p + 2 \in p..(p + 3 + n)
      /\ p + 3 + n \in p..(p + 3 + n)
      /\ o + (p + 1) = o + p + 1 /\ o + (p + 2) = o + p + 2 /\ o + (p + 3 + n) = o + p + 3 + n
      /\ \A k \in 1..n : p + 2 + k \in p..(p + 3 + n) /\ o + (p + 2 + k) = o + p + 2 + k
  BY <1>2
<1>4. /\ s[o + p] = Line("head", column, {})
      /\ s[o + p + 1] = Line("head", "", {})
      /\ s[o + p + 2] = Line("names", "", {})
      /\ s[o + p + 3 + n] = Line("blank", "", {})
  BY <1>1, <1>2, <1>3
<1>5. \A k \in 1..n : s[o + p + 2 + k] = row(k)
  BY <1>1, <1>2, <1>3
<1> QED  BY <1>4, <1>5 DEF TableAt, n, row

\* The groups that a log may name are finitely many.
LEMMA FiniteGroups ==
    ASSUME NEW f \in Logs
    PROVE  /\ f.strategies \in SUBSET Range(StrategyOrder) /\ f.routes \in SUBSET Range(RouteOrder)
           /\ Ranked(StrategyOrder, f.strategies) /\ Ranked(RouteOrder, f.routes)
<1>1. f.strategies \in SUBSET Range(StrategyOrder) /\ f.routes \in SUBSET Range(RouteOrder)
  BY TripAssumption DEF Logs, Strategies
<1>2. Ranked(StrategyOrder, f.strategies)
  BY <1>1, TripAssumption, RankIsBijective
<1>3. Ranked(RouteOrder, f.routes)
  BY <1>1, TripAssumption, RankIsBijective
<1> QED  BY <1>1, <1>2, <1>3

\* The lines about all trips.
TotalsAt(f, s) ==
    /\ s[1] = Line("skipped", "", {})
    /\ \A k \in 1..NumStats : s[1 + k] = Line("stat", "total", {<<f.launch, "total">>})

\* What write_group_stats has written for log f with its first table, and
\* what it leaves in tripstats.txt: each table is where its header is looked
\* for.
BrokenOff(f, s) ==
    /\ IsList(s, NumStats + Cardinality(f.strategies) + 5)
    /\ TotalsAt(f, s)
    /\ TableAt(s, NumStats + 2, "routingStrategy", StrategyOrder, f.strategies, f)

FileOf(f, s) ==
    LET ns == Cardinality(f.strategies)
        nr == Cardinality(f.routes)
    IN /\ IsList(s, NumStats + ns + nr + 9)
       /\ TotalsAt(f, s)
       /\ TableAt(s, NumStats + 2, "routingStrategy", StrategyOrder, f.strategies, f)
       /\ TableAt(s, NumStats + ns + 6, "routeId", RouteOrder, f.routes, f)

\* The first lines of the file.
LEMMA TotalsLines ==
    ASSUME NEW f
    PROVE  IsList(Totals(f), 1 + NumStats) /\ TotalsAt(f, Totals(f))
<1> DEFINE stat == Line("stat", "total", {<<f.launch, "total">>})
           first == <<Line("skipped", "", {})>>
           stats == [k \in 1..NumStats |-> stat]
           a == first \o stats
<1>1. Totals(f) = a
  BY DEF Totals
<1>2. NumStats \in Nat
  BY TripAssumption
<1>3. IsList(first, 1) /\ first[1] = Line("skipped", "", {})
  BY TupleIsList
<1>4. IsList(stats, NumStats) /\ \A k \in 1..NumStats : stats[k] = stat
  BY <1>2, FunctionIsList
<1> HIDE DEF first, stats, stat
<1>5. Joined(a, first, 1, stats, NumStats)
  BY <1>3, <1>4, JoinLists
<1> HIDE DEF a
<1>6. a[1] = first[1] /\ \A k \in 1..NumStats : a[1 + k] = stats[k]
  <2>1. 1 \in 1..1
    OBVIOUS
  <2> QED  BY <1>5, <2>1 DEF Joined
<1>7. IsList(a, 1 + NumStats)
  BY <1>5 DEF Joined
<1> QED  BY <1>1, <1>3, <1>4, <1>6, <1>7 DEF TotalsAt, stat

\* The file as far as its first table.
LEMMA StrategiesWritten ==
    ASSUME NEW f \in Logs
    PROVE  BrokenOff(f, WithStrategies(f))
<1> DEFINE ns == Cardinality(f.strategies)
           a == Totals(f)
           ts == Table("routingStrategy", StrategyOrder, f.strategies, f)
           b == a \o ts
<1>1. WithStrategies(f) = b
  BY DEF WithStrategies
<1>2. ns \in Nat /\ NumStats \in Nat
  BY FiniteGroups, TripAssumption DEF Ranked
<1>3. IsList(a, 1 + NumStats) /\ TotalsAt(f, a)
  BY TotalsLines
<1>4. /\ IsList(ts, ns + 4)
      /\ TableAt(ts, 1, "routingStrategy", StrategyOrder, f.strategies, f)
  BY <1>2, TableLines
<1> HIDE DEF a, ts
<1>5. Joined(b, a, 1 + NumStats, ts, ns + 4)
  BY <1>3, <1>4, JoinLists
<1> HIDE DEF b
<1>6. IsList(b, NumStats + ns + 5)
  <2> HIDE DEF ns
  <2>1. (1 + NumStats) + (ns + 4) = NumStats + ns + 5
    BY <1>2
  <2> QED  BY <1>5, <2>1 DEF Joined
<1>7. TotalsAt(f, b)
  <2>1. 1 \in 1..(1 + NumStats) /\ \A k \in 1..NumStats : 1 + k \in 1..(1 + NumStats)
    BY <1>2
  <2>2. b[1] = a[1] /\ \A k \in 1..NumStats : b[1 + k] = a[1 + k]
    BY <1>5, <2>1 DEF Joined
  <2> QED  BY <1>3, <2>2 DEF TotalsAt
<1>8. TableAt(b, NumStats + 2, "routingStrategy", StrategyOrder, f.strategies, f)
  <2>1. \A i \in 1..(1 + 3 + ns) : b[(1 + NumStats) + i] = ts[i]
    <3> HIDE DEF ns
    <3>1. \A i \in 1..(1 + 3 + ns) : i \in 1..(ns + 4)
      BY <1>2
    <3> QED  BY <1>5, <3>1 DEF Joined
  <2>2. 1 + NumStats \in Nat /\ (1 + NumStats) + 1 = NumStats + 2 /\ 1 \in Nat
    BY <1>2
  <2>3. TableAt(b, (1 + NumStats) + 1, "routingStrategy", StrategyOrder, f.strategies, f)
    BY <1>2, <1>4, <2>1, <2>2, TableWithin
  <2> QED  BY <2>2, <2>3
<1> QED  BY <1>1, <1>6, <1>7, <1>8 DEF BrokenOff

\* The file that write_group_stats writes.
LEMMA WrittenFile ==
    ASSUME NEW f \in Logs
    PROVE  FileOf(f, write_group_stats(f))
<1> DEFINE ns == Cardinality(f.strategies)
           nr == Cardinality(f.routes)
           b == WithStrategies(f)
           tr == Table("routeId", RouteOrder, f.routes, f)
           s == b \o tr
           m == NumStats + ns + 5
<1>1. write_group_stats(f) = s
  BY DEF write_group_stats
<1>2. ns \in Nat /\ nr \in Nat /\ NumStats \in Nat
  BY FiniteGroups, TripAssumption DEF Ranked
<1>3. /\ IsList(b, m) /\ TotalsAt(f, b)
      /\ TableAt(b, NumStats + 2, "routingStrategy", StrategyOrder, f.strategies, f)
  BY StrategiesWritten DEF BrokenOff
<1>4. /\ IsList(tr, nr + 4)
      /\ TableAt(tr, 1, "routeId", RouteOrder, f.routes, f)
  BY <1>2, TableLines
<1> HIDE DEF b, tr
<1>5. Joined(s, b, m, tr, nr + 4)
  <2> HIDE DEF m, s
  <2> QED  BY <1>3, <1>4, JoinLists DEF s
<1> HIDE DEF s
<1>6. IsList(s, NumStats + ns + nr + 9)
  <2>1. IsList(s, m + (nr + 4))
    BY <1>5 DEF Joined
  <2> HIDE DEF ns, nr
  <2>2. m + (nr + 4) = NumStats + ns + nr + 9
    BY <1>2
  <2> QED  BY <2>1, <2>2
<1>7. m \in Nat /\ \A i \in 1..m : s[i] = b[i]
  <2> HIDE DEF ns, nr
  <2> QED  BY <1>2, <1>5 DEF Joined
<1>8. TotalsAt(f, s)
  <2>1. 1 \in 1..m /\ \A k \in 1..NumStats : 1 + k \in 1..m
    <3> HIDE DEF ns
    <3> QED  BY <1>2
  <2> HIDE DEF m
  <2>2. s[1] = b[1] /\ \A k \in 1..NumStats : s[1 + k] = b[1 + k]
    BY <1>7, <2>1
  <2> QED  BY <1>3, <2>2 DEF TotalsAt
<1>9. TableAt(s, NumStats + 2, "routingStrategy", StrategyOrder, f.strategies, f)
  <2>1. \A i \in (NumStats + 2)..((NumStats + 2) + 3 + ns) : s[0 + i] = b[i]
    <3> HIDE DEF ns
    <3>1. \A i \in (NumStats + 2)..((NumStats + 2) + 3 + ns) : i \in 1..m /\ 0 + i = i
      BY <1>2
    <3> HIDE DEF m
    <3> QED  BY <1>7, <3>1
  <2>2. 0 \in Nat /\ NumStats + 2 \in Nat /\ 0 + (NumStats + 2) = NumStats + 2
    BY <1>2
  <2>3. TableAt(s, 0 + (NumStats + 2), "routingStrategy", StrategyOrder, f.strategies, f)
    BY <1>2, <1>3, <2>1, <2>2, TableWithin
  <2> QED  BY <2>2, <2>3
<1>10. TableAt(s, NumStats + ns + 6, "routeId", RouteOrder, f.routes, f)
  <2>1. \A i \in 1..(1 + 3 + nr) : s[m + i] = tr[i]
    <3> HIDE DEF nr, m
    <3>1. \A i \in 1..(1 + 3 + nr) : i \in 1..(nr + 4)
      BY <1>2
    <3> QED  BY <1>5, <3>1 DEF Joined
  <2>2. m \in Nat /\ 1 \in Nat /\ m + 1 = NumStats + ns + 6
    <3> HIDE DEF ns
    <3> QED  BY <1>2
  <2>3. TableAt(s, m + 1, "routeId", RouteOrder, f.routes, f)
    <3> HIDE DEF m
    <3> QED  BY <1>2, <1>4, <2>1, <2>2, TableWithin
  <2> QED  BY <2>2, <2>3
<1> QED  BY <1>1, <1>6, <1>8, <1>9, <1>10 DEF FileOf

-----------------------------------------------------------------------------
(* Reading the tables back *)

\* The columns of a line.
LEMMA LineFields ==
    \A kind, name, val : /\ Line(kind, name, val).kind = kind
                         /\ Line(kind, name, val).name = name
                         /\ Line(kind, name, val).val = val
BY DEF Line

\* The lines that are the same in every file.
LEMMA FixedLines ==
    /\ Line("head", "", {}).name = "" /\ Line("names", "", {}).name = ""
    /\ Line("blank", "", {}).name = "" /\ Line("blank", "", {}).kind = "blank"
    /\ Line("head", "routingStrategy", {}).kind = "head"
    /\ Line("head", "routingStrategy", {}).name = "routingStrategy"
    /\ Line("head", "routingStrategy", {}).val = {}
    /\ Line("head", "routeId", {}).kind = "head" /\ Line("head", "routeId", {}).name = "routeId"
BY DEF Line

\* The row of a group.
LEMMA RowFields ==
    \A f, g : /\ Row(f, g).kind = "row" /\ Row(f, g).name = g
              /\ Row(f, g).val = IF g \in f.single THEN {} ELSE {<<f.launch, g>>}
<1> TAKE f, g
<1>1. Row(f, g) = Line("row", g, IF g \in f.single THEN {} ELSE {<<f.launch, g>>})
  BY DEF Row
<1> QED  BY <1>1, LineFields

\* rows are rows of a table about the groups present, read from lines; when
\* no name in them is unknown, none of the known groups is missing.
ReadRows(lines, rows, present, names, f) ==
    /\ \A r \in rows : \E j \in DOMAIN lines : lines[j] = r
    /\ \E A \in SUBSET present :
          /\ rows = {Row(f, g) : g \in A}
          /\ A \subseteq names => names \cap present \subseteq A

\* The condition on which read_df_stats stops after k rows.
Taken(lines, first, N, k) ==
    /\ \A j \in first..(first + k - 1) : j <= Len(lines) /\ lines[j].kind = "row"
    /\ k = N \/ first + k > Len(lines) \/ lines[first + k].kind # "row"

\* How many rows it takes.
TakenRows(lines, first, N) == CHOOSE k \in 0..N : Taken(lines, first, N, k)

\* From line first on there are n rows and no more.
RowsFrom(lines, first, n) ==
    /\ \A k \in 1..n : lines[first + k - 1].kind = "row"
    /\ lines[first + n].kind # "row"

\* In a table of n rows it stops after the rows or the names, whichever are
\* fewer.
LEMMA TakenIsLess ==
    ASSUME NEW lines, NEW m \in Nat, Len(lines) = m, NEW first \in Nat, NEW n \in Nat, NEW N \in Nat,
           RowsFrom(lines, first, n), first + n <= m
    PROVE  TakenRows(lines, first, N) = IF n <= N THEN n ELSE N
<1> DEFINE t == IF n <= N THEN n ELSE N
<1>1. t \in 0..N /\ t <= n /\ (t = N \/ t = n)
  OBVIOUS
<1> USE DEF RowsFrom
<1>2. \A j \in first..(first + n - 1) : j <= Len(lines) /\ lines[j].kind = "row"
  <2>1. ASSUME NEW j \in first..(first + n - 1) PROVE j <= Len(lines) /\ lines[j].kind = "row"
    <3>1. j - first + 1 \in 1..n /\ first + (j - first + 1) - 1 = j /\ j <= m
      OBVIOUS
    <3> QED  BY <3>1
  <2> QED  BY <2>1
<1>3. Taken(lines, first, N, t)
  <2>1. \A j \in first..(first + t - 1) : j \in first..(first + n - 1)
    BY <1>1
  <2>2. CASE t = N
    BY <1>2, <2>1, <2>2 DEF Taken
  <2>3. CASE t = n
    BY <1>2, <2>1, <2>3 DEF Taken
  <2> QED  BY <1>1, <2>2, <2>3
<1> HIDE DEF t
<1>4. ASSUME NEW k \in 0..N, Taken(lines, first, N, k) PROVE k = t
  <2>1. CASE k > n
    <3>1. first + n \in first..(first + k - 1)
      BY <2>1
    <3> QED  BY <1>4, <3>1 DEF Taken
  <2>2. CASE k < t
    <3>1. k # N /\ ~(first + k > Len(lines))
      BY <1>1, <2>2
    <3>2. k + 1 \in 1..n /\ first + (k + 1) - 1 = first + k
      BY <1>1, <2>2
    <3>3. lines[first + k].kind = "row"
      BY <3>2
    <3> QED  BY <1>4, <3>1, <3>3 DEF Taken
  <2>3. CASE k <= n /\ k >= t
    BY <1>1, <2>3 DEF t
  <2> QED  BY <1>1, <2>1, <2>2, <2>3
<1>5. TakenRows(lines, first, N) = t
  <2>1. \E k \in 0..N : Taken(lines, first, N, k)
    BY <1>1, <1>3
  <2> QED  BY <1>4, <2>1 DEF TakenRows
<1> QED  BY <1>5 DEF t

\* The first rows of a table, when they are all known, leave out a known
\* group only if there are more of them than names.
LEMMA FirstRows ==
    ASSUME NEW S, NEW order \in Seq(S), IsInjective(order), NEW present \in SUBSET Range(order),
           NEW names, IsFiniteSet(names), NEW t,
           t = IF Cardinality(present) <= Cardinality(names) THEN Cardinality(present)
               ELSE Cardinality(names)
    PROVE  LET A == {Kth(order, present, k) : k \in 1..t}
           IN A \subseteq present /\ (A \subseteq names => names \cap present \subseteq A)
<1> DEFINE n == Cardinality(present)
           N == Cardinality(names)
           A == {Kth(order, present, k) : k \in 1..t}
           kth(k) == Kth(order, present, k)
<1>1. /\ \A k \in 1..n : kth(k) \in present
      /\ \A g \in present : \E k \in 1..n : kth(k) = g
      /\ \A j, k \in 1..n : kth(j) = kth(k) => j = k
  <2>1. KthIs(order, present)
    BY KthFacts
  <2> QED  BY <2>1 DEF KthIs
<1>2. n \in Nat /\ N \in Nat
  <2>1. Ranked(order, present)
    BY RankIsBijective
  <2> QED  BY <2>1, FS_CardinalityType DEF Ranked
<1>3. t \in Nat /\ t <= n /\ t <= N /\ (t = n \/ t = N) /\ t = IF n <= N THEN n ELSE N
  BY <1>2
<1>4. A = {kth(k) : k \in 1..t}
  OBVIOUS
<1> HIDE DEF n, N, kth, A
<1>5. \A k \in 1..t : k \in 1..n
  BY <1>2, <1>3
<1>6. A \subseteq present
  BY <1>1, <1>4, <1>5
<1>7. ASSUME A \subseteq names PROVE names \cap present \subseteq A
  <2>1. CASE t = n
    BY <1>1, <1>4, <2>1
  <2>2. CASE t = N
    <3> DEFINE h == [k \in 1..t |-> kth(k)]
    <3>1. h \in Bijection(1..t, A)
      <4>1. h \in Injection(1..t, A)
        BY <1>1, <1>4, <1>5 DEF Injection, IsInjective
      <4>2. h \in Surjection(1..t, A)
        BY <1>4 DEF Surjection
      <4> QED  BY <4>1, <4>2 DEF Bijection
    <3>2. IsFiniteSet(1..t) /\ Cardinality(1..t) = t
      <4>1. 1 \in Int /\ t \in Int
        BY <1>3
      <4>2. IsFiniteSet(1..t) /\ Cardinality(1..t) = IF 1 > t THEN 0 ELSE t - 1 + 1
        BY <4>1, FS_Interval
      <4> QED  BY <1>3, <4>2
    <3>3. IsFiniteSet(A) /\ Cardinality(A) = t
      <4>1. ExistsBijection(1..t, A)
        BY <3>1 DEF ExistsBijection
      <4>2. IsFiniteSet(A) /\ Cardinality(A) = Cardinality(1..t)
        BY <3>2, <4>1, FS_Bijection
      <4> QED  BY <3>2, <4>2
    <3>4. A = names
      <4>1. Cardinality(A) = Cardinality(names)
        BY <2>2, <3>3 DEF N
      <4> QED  BY <1>7, <4>1, FS_Subset
    <3> QED  BY <3>4
  <2> QED  BY <1>3, <2>1, <2>2
<1> QED  BY <1>6, <1>7 DEF A

\* read_df_stats returns the first rows of a table.
LEMMA TableRead ==
    ASSUME NEW S, NEW order \in Seq(S), IsInjective(order), NEW present \in SUBSET Range(order),
           NEW lines, NEW m \in Nat, IsList(lines, m), NEW p \in Nat, NEW column, NEW f,
           TableAt(lines, p, column, order, present, f), p + 3 + Cardinality(present) <= m,
           NEW names, IsFiniteSet(names)
    PROVE  ReadRows(lines, read_df_stats(lines, p, names), present, names, f)
<1> DEFINE n == Cardinality(present)
           N == Cardinality(names)
           first == p + 3
           row(g) == Row(f, g)
           kth(k) == Kth(order, present, k)
           t == IF n <= N THEN n ELSE N
           A == {kth(k) : k \in 1..t}
<1>1. n \in Nat /\ N \in Nat
  <2>1. Ranked(order, present)
    BY RankIsBijective
  <2> QED  BY <2>1, FS_CardinalityType DEF Ranked
<1>2. t \in Nat /\ t <= n
  BY <1>1
<1>3. /\ \A k \in 1..n : lines[p + 2 + k] = row(kth(k))
      /\ lines[p + 3 + n] = Line("blank", "", {})
  BY DEF TableAt
<1>4. A \subseteq present /\ (A \subseteq names => names \cap present \subseteq A)
  BY FirstRows
<1>5. read_df_stats(lines, p, names)
        = {lines[j] : j \in first..(first + TakenRows(lines, first, N) - 1)}
  BY DEF read_df_stats, Taken, TakenRows
<1>6. Len(lines) = m /\ DOMAIN lines = 1..m /\ first + n <= m
  BY DEF IsList
<1> HIDE DEF n, N, row, kth
<1>7. \A k \in 1..n : lines[first + k - 1] = row(kth(k))
  <2>1. \A k \in 1..n : first + k - 1 = p + 2 + k
    BY <1>1
  <2> QED  BY <1>3, <2>1
<1>8. TakenRows(lines, first, N) = t
  <2>1. ASSUME NEW k \in 1..n PROVE lines[first + k - 1].kind = "row"
    <3>1. lines[first + k - 1] = row(kth(k))
      BY <1>7
    <3> QED  BY <3>1, RowFields DEF row
  <2>2. lines[first + n].kind # "row"
    <3>1. lines[first + n].kind = "blank"
      BY <1>3, FixedLines
    <3> QED  BY <3>1
  <2>3. first \in Nat
    OBVIOUS
  <2>4. RowsFrom(lines, first, n)
    BY <2>1, <2>2 DEF RowsFrom
  <2> HIDE DEF first
  <2> QED  BY <1>1, <1>6, <2>3, <2>4, TakenIsLess
<1>9. {lines[j] : j \in first..(first + t - 1)} = {row(g) : g \in A}
  <2> HIDE DEF t
  <2>1. ASSUME NEW j \in first..(first + t - 1) PROVE lines[j] \in {row(g) : g \in A}
    <3>1. j - first + 1 \in 1..t /\ j - first + 1 \in 1..n /\ first + (j - first + 1) - 1 = j
      BY <1>1, <1>2
    <3>2. lines[j] = row(kth(j - first + 1))
      BY <1>7, <3>1
    <3> QED  BY <3>1, <3>2
  <2>2. ASSUME NEW g \in A PROVE row(g) \in {lines[j] : j \in first..(first + t - 1)}
    <3>1. PICK k \in 1..t : g = kth(k)
      OBVIOUS
    <3>2. k \in 1..n /\ first + k - 1 \in first..(first + t - 1)
      BY <1>1, <1>2
    <3>3. row(g) = lines[first + k - 1]
      BY <1>7, <3>1, <3>2
    <3> QED  BY <3>2, <3>3
  <2> QED  BY <2>1, <2>2
<1>10. \A j \in first..(first + t - 1) : j \in DOMAIN lines
  <2> HIDE DEF t
  <2> QED  BY <1>1, <1>2, <1>6
<1>11. /\ read_df_stats(lines, p, names) = {row(g) : g \in A}
       /\ read_df_stats(lines, p, names) = {lines[j] : j \in first..(first + t - 1)}
  BY <1>5, <1>8, <1>9
<1> HIDE DEF t, first, A
<1>12. \A r \in read_df_stats(lines, p, names) : \E j \in DOMAIN lines : lines[j] = r
  BY <1>10, <1>11
<1> QED  BY <1>4, <1>11, <1>12 DEF ReadRows, row

\* Rows that were read hold the values of their groups.
LEMMA RowValues ==
    ASSUME NEW lines, NEW rows, NEW present, NEW names, NEW f,
           ReadRows(lines, rows, present, names, f)
    PROVE  /\ \A r \in rows : /\ r.name \in present
                              /\ r.val = IF r.name \in f.single THEN {} ELSE {<<f.launch, r.name>>}
           /\ (\A r \in rows : r.name \in names) =>
                 \A g \in names : (\E r \in rows : r.name = g) <=> g \in present
<1>1. PICK A \in SUBSET present :
         /\ rows = {Row(f, g) : g \in A}
         /\ A \subseteq names => names \cap present \subseteq A
  BY DEF ReadRows
<1> DEFINE row(g) == Row(f, g)
           value(g) == IF g \in f.single THEN {} ELSE {<<f.launch, g>>}
<1>2. rows = {row(g) : g \in A} /\ \A g : row(g).name = g /\ row(g).val = value(g)
  BY <1>1, RowFields
<1> HIDE DEF row, value
<1>3. \A g : (\E r \in rows : r.name = g) <=> g \in A
  BY <1>2
<1>4. \A r \in rows : r.name \in A /\ r.val = value(r.name)
  BY <1>2
<1>5. ASSUME \A r \in rows : r.name \in names, NEW g \in names
      PROVE  (\E r \in rows : r.name = g) <=> g \in present
  <2>1. A \subseteq names
    BY <1>3, <1>5
  <2>2. g \in A <=> g \in present
    BY <1>1, <1>5, <2>1
  <2> QED  BY <1>3, <2>2
<1> QED  BY <1>1, <1>4, <1>5 DEF value

\* What the first row that fails, if any, says of the rows.
ErrorOf(e, rows, names) ==
    /\ e \in {"none", "KeyError", "ValueError"}
    /\ e = "KeyError" => \E r \in rows : r.name \notin names
    /\ e = "ValueError" => \E r \in rows : r.val = {}
    /\ e = "none" => \A r \in rows : r.name \in names /\ r.val # {}

\* FirstError finds that row.
LEMMA FirstErrorOf ==
    ASSUME NEW lines, NEW m, IsList(lines, m), NEW rows, NEW names,
           \A r \in rows : \E j \in DOMAIN lines : lines[j] = r
    PROVE  ErrorOf(FirstError(lines, rows, names), rows, names)
<1> DEFINE bad == {j \in DOMAIN lines : lines[j] \in rows /\ RowError(lines[j], names) # "none"}
<1>1. FirstError(lines, rows, names) = IF bad = {} THEN "none" ELSE RowError(lines[Min(bad)], names)
  BY DEF FirstError
<1>2. CASE bad = {}
  <2>1. \A r \in rows : RowError(r, names) = "none"
    BY <1>2
  <2>2. \A r \in rows : r.name \in names /\ r.val # {}
    BY <2>1 DEF RowError
  <2> QED  BY <1>1, <1>2, <2>2 DEF ErrorOf
<1>3. CASE bad # {}
  <2>1. bad \in SUBSET Nat
    BY DEF IsList
  <2>2. Min(bad) \in bad
    <3> HIDE DEF bad
    <3> QED  BY <1>3, <2>1, MinOfNats
  <2> DEFINE r == lines[Min(bad)]
  <2>3. r \in rows /\ RowError(r, names) # "none" /\ FirstError(lines, rows, names) = RowError(r, names)
    BY <1>1, <1>3, <2>2
  <2> HIDE DEF r, bad
  <2>4. \/ RowError(r, names) = "KeyError" /\ r.name \notin names
        \/ RowError(r, names) = "ValueError" /\ r.val = {}
    BY <2>3 DEF RowError
  <2> QED  BY <2>3, <2>4 DEF ErrorOf
<1> QED  BY <1>2, <1>3

\* Of the lines of a table of n rows only the first, line p, has a name and is
\* no row.
NoNames(s, p, n) == \A j \in (p + 1)..(p + 3 + n) : s[j].kind = "row" \/ s[j].name = ""

\* Below its header a table has no header with a name.
LEMMA TableHeaders ==
    ASSUME NEW s, NEW p \in Nat, NEW column, NEW order, NEW present, NEW f,
           Cardinality(present) \in Nat, TableAt(s, p, column, order, present, f)
    PROVE  NoNames(s, p, Cardinality(present))
<1> DEFINE n == Cardinality(present)
           row(k) == Row(f, Kth(order, present, k))
<1>1. /\ s[p + 1] = Line("head", "", {}) /\ s[p + 2] = Line("names", "", {})
      /\ \A k \in 1..n : s[p + 2 + k] = row(k)
      /\ s[p + 3 + n] = Line("blank", "", {})
  BY DEF TableAt
<1>2. n \in Nat
  OBVIOUS
<1> HIDE DEF n
<1>3. s[p + 1].name = "" /\ s[p + 2].name = "" /\ s[p + 3 + n].name = ""
  BY <1>1, FixedLines
<1>4. ASSUME NEW k \in 1..n PROVE s[p + 2 + k].kind = "row"
  <2>1. s[p + 2 + k] = row(k)
    BY <1>1
  <2> QED  BY <2>1, RowFields
<1>5. ASSUME NEW j \in (p + 1)..(p + 3 + n) PROVE s[j].kind = "row" \/ s[j].name = ""
  <2>1. CASE j - (p + 2) \in 1..n
    <3>1. p + 2 + (j - (p + 2)) = j
      OBVIOUS
    <3> QED  BY <1>4, <2>1, <3>1
  <2>2. CASE j - (p + 2) \notin 1..n
    <3>1. j = p + 1 \/ j = p + 2 \/ j = p + 3 + n
      BY <1>2, <2>2
    <3> QED  BY <1>3, <3>1
  <2> QED  BY <2>1, <2>2
<1> QED  BY <1>5 DEF n, NoNames

\* The only header of the routes after that of the strategies is its own.
LEMMA RoutesHeader ==
    ASSUME NEW f \in Logs, NEW s, FileOf(f, s)
    PROVE  RouteHeaders(s, NumStats + 2) = {NumStats + Cardinality(f.strategies) + 6}
<1> DEFINE ns == Cardinality(f.strategies)
           nr == Cardinality(f.routes)
           h == NumStats + 2
           q == NumStats + ns + 6
<1>1. ns \in Nat /\ nr \in Nat /\ NumStats \in Nat /\ h \in Nat /\ q \in Nat
  <2>1. ns \in Nat /\ nr \in Nat /\ NumStats \in Nat
    BY FiniteGroups, TripAssumption DEF Ranked
  <2> HIDE DEF ns
  <2> QED  BY <2>1
<1>2. DOMAIN s = 1..(NumStats + ns + nr + 9)
  BY DEF FileOf, IsList
<1>3. NoNames(s, h, ns)
  <2>1. TableAt(s, h, "routingStrategy", StrategyOrder, f.strategies, f)
    BY DEF FileOf
  <2>2. Cardinality(f.strategies) \in Nat /\ h \in Nat
    BY <1>1
  <2> HIDE DEF h
  <2> QED  BY <2>1, <2>2, TableHeaders
<1>4. NoNames(s, q, nr)
  <2>1. TableAt(s, q, "routeId", RouteOrder, f.routes, f)
    BY DEF FileOf
  <2>2. Cardinality(f.routes) \in Nat /\ q \in Nat
    BY <1>1
  <2> HIDE DEF q
  <2> QED  BY <2>1, <2>2, TableHeaders
<1>5. s[q].kind = "head" /\ s[q].name = "routeId"
  BY FixedLines DEF FileOf, TableAt
<1> HIDE DEF ns, nr
<1>6. q \in DOMAIN s /\ q > h
  BY <1>1, <1>2
<1>7. ASSUME NEW j \in DOMAIN s, j > h, s[j].kind = "head", s[j].name = "routeId" PROVE j = q
  <2>1. j \notin (h + 1)..(h + 3 + ns) /\ j \notin (q + 1)..(q + 3 + nr)
    <3> HIDE DEF h, q
    <3> QED  BY <1>3, <1>4, <1>7 DEF NoNames
  <2> QED  BY <1>1, <1>2, <1>7, <2>1
<1>8. RouteHeaders(s, h) = {q}
  BY <1>5, <1>6, <1>7 DEF RouteHeaders
<1> QED  BY <1>8 DEF ns

\* Without the second table there is none.
LEMMA NoRoutesHeader ==
    ASSUME NEW f \in Logs, NEW s, BrokenOff(f, s)
    PROVE  RouteHeaders(s, NumStats + 2) = {}
<1> DEFINE ns == Cardinality(f.strategies)
           h == NumStats + 2
<1>1. ns \in Nat /\ NumStats \in Nat /\ h \in Nat
  BY FiniteGroups, TripAssumption DEF Ranked
<1>2. DOMAIN s = 1..(NumStats + ns + 5)
  BY DEF BrokenOff, IsList
<1>3. NoNames(s, h, ns)
  <2>1. TableAt(s, h, "routingStrategy", StrategyOrder, f.strategies, f)
    BY DEF BrokenOff
  <2> HIDE DEF h
  <2> QED  BY <1>1, <2>1, TableHeaders
<1> HIDE DEF ns
<1>4. ASSUME NEW j \in DOMAIN s, j > h PROVE s[j].kind # "head" \/ s[j].name # "routeId"
  <2>1. j \in (h + 1)..(h + 3 + ns)
    BY <1>1, <1>2, <1>4
  <2>2. s[j].kind = "row" \/ s[j].name = ""
    BY <1>3, <2>1 DEF NoNames
  <2> QED  BY <2>2
<1> HIDE DEF h
<1>5. RouteHeaders(s, h) = {}
  BY <1>4 DEF RouteHeaders
<1> QED  BY <1>5 DEF h

\* What read_stats makes of a tripstats.txt with the contents x: it fails for
\* a file broken off, a strategy it does not know or a group of one vehicle,
\* and otherwise adds to every group its own value.
ReadAs(r, x) ==
    /\ r.error \in {"none"} \cup Errors
    /\ r.error = "IndexError" => x.tables = 0
    /\ r.error = "loops" => x.tables < 2
    /\ r.error = "KeyError" => x.tables > 0 /\ ~(x.log.strategies \subseteq strategynames)
    /\ r.error = "ValueError" => x.log.single \cap (x.log.routes \cup x.log.strategies) # {}
    /\ r.error = "none" =>
          /\ r.added \in [Groups -> SUBSET Tokens]
          /\ \A g \in Routes \cup strategynames :
                r.added[g] = {<<y.log.launch, g>> :
                                y \in {z \in {x} : g \in z.log.routes \cup z.log.strategies}}

\* The scenario names finitely many routes and strategies.
LEMMA FiniteNames ==
    IsFiniteSet(Routes) /\ IsFiniteSet(strategynames)
<1>1. IsFiniteSet(Range(RouteOrder)) /\ IsFiniteSet(Range(StrategyOrder))
  BY TripAssumption, RangeIsFinite
<1>2. Range(RouteOrder) = Routes /\ strategynames \subseteq Range(StrategyOrder)
  BY TripAssumption DEF Strategies
<1> QED  BY <1>1, <1>2, FS_Subset

\* The rows that read_stats takes from a file for the strategies and for the
\* routes, whose table begins at line q if there is one.
ReadParts(s, str, q, rts) ==
    /\ str = IF NumStats + 2 <= Len(s) /\ s[NumStats + 2].kind = "head"
                /\ s[NumStats + 2].name = "routingStrategy"
             THEN read_df_stats(s, NumStats + 2, strategynames) ELSE {}
    /\ q = IF RouteHeaders(s, NumStats + 2) = {} THEN 0 ELSE Min(RouteHeaders(s, NumStats + 2))
    /\ rts = IF q = 0 THEN {} ELSE read_df_stats(s, q, Routes)

\* The error of read_stats, whatever the file holds.
LEMMA ReadError ==
    ASSUME NEW s, NEW str, NEW rts, NEW q,
           ReadParts(s, str, q, rts)
    PROVE  read_stats(s).error =
             IF Len(s) < NumStats + 1 THEN "IndexError"
             ELSE IF FirstError(s, str, strategynames) # "none" THEN FirstError(s, str, strategynames)
             ELSE IF q = 0 THEN "loops"
             ELSE FirstError(s, rts, Routes)
BY DEF read_stats, ReadParts

\* A file broken off before its tables fails or is read for ever.
LEMMA ShortFileRead ==
    ASSUME NEW s, NEW n \in 0..(NumStats + 1), IsList(s, n)
    PROVE  read_stats(s).error \in {"IndexError", "loops"}
<1>1. NumStats \in Nat /\ Len(s) = n /\ DOMAIN s = 1..n /\ n \in Nat
  BY TripAssumption DEF IsList
<1>2. ~(NumStats + 2 <= Len(s))
  BY <1>1
<1>3. RouteHeaders(s, NumStats + 2) = {}
  BY <1>1 DEF RouteHeaders
<1>4. FirstError(s, {}, strategynames) = "none"
  BY DEF FirstError
<1> DEFINE str == {}
           rts == {}
           q == 0
<1>5. ReadParts(s, str, q, rts)
  BY <1>2, <1>3 DEF ReadParts
<1>6. read_stats(s).error =
         IF Len(s) < NumStats + 1 THEN "IndexError"
         ELSE IF FirstError(s, str, strategynames) # "none" THEN FirstError(s, str, strategynames)
         ELSE IF q = 0 THEN "loops"
         ELSE FirstError(s, rts, Routes)
  BY <1>5, ReadError
<1> QED  BY <1>4, <1>6

\* The rows of the strategies as read_stats finds them.
LEMMA StrategyRows ==
    ASSUME NEW f \in Logs, NEW s, NEW m \in Nat, IsList(s, m),
           TableAt(s, NumStats + 2, "routingStrategy", StrategyOrder, f.strategies, f),
           NumStats + 5 + Cardinality(f.strategies) <= m
    PROVE  LET str == read_df_stats(s, NumStats + 2, strategynames)
           IN /\ NumStats + 2 <= Len(s) /\ s[NumStats + 2].kind = "head"
              /\ s[NumStats + 2].name = "routingStrategy"
              /\ ~(Len(s) < NumStats + 1)
              /\ ReadRows(s, str, f.strategies, strategynames, f)
              /\ ErrorOf(FirstError(s, str, strategynames), str, strategynames)
<1> DEFINE str == read_df_stats(s, NumStats + 2, strategynames)
           ns == Cardinality(f.strategies)
           h == NumStats + 2
<1>1. ns \in Nat /\ NumStats \in Nat /\ Len(s) = m
  BY FiniteGroups, TripAssumption DEF Ranked, IsList
<1>2. h \in Nat /\ h + 3 + ns <= m /\ h <= m /\ ~(m < NumStats + 1)
  <2> HIDE DEF ns
  <2>1. NumStats + 5 + ns <= m
    BY DEF ns
  <2> QED  BY <1>1, <2>1
<1>3. s[NumStats + 2].kind = "head" /\ s[NumStats + 2].name = "routingStrategy"
  BY FixedLines DEF TableAt
<1>4. ReadRows(s, str, f.strategies, strategynames, f)
  <2>1. f.strategies \in SUBSET Range(StrategyOrder)
    BY FiniteGroups
  <2>2. TableAt(s, h, "routingStrategy", StrategyOrder, f.strategies, f)
    OBVIOUS
  <2>3. ReadRows(s, read_df_stats(s, h, strategynames), f.strategies, strategynames, f)
    <3> HIDE DEF h
    <3> QED  BY <1>2, <2>1, <2>2, FiniteNames, TripAssumption, TableRead
  <2> QED  BY <2>3
<1> HIDE DEF str
<1>5. ErrorOf(FirstError(s, str, strategynames), str, strategynames)
  <2>1. \A r \in str : \E j \in DOMAIN s : s[j] = r
    BY <1>4 DEF ReadRows
  <2> QED  BY <2>1, FirstErrorOf
<1> QED  BY <1>1, <1>2, <1>3, <1>4, <1>5 DEF str

\* What a failing row of a table says of the log: its group is unknown or has
\* one vehicle.
LEMMA RowsFail ==
    ASSUME NEW lines, NEW e, NEW rows, NEW present, NEW names, NEW f,
           ReadRows(lines, rows, present, names, f), ErrorOf(e, rows, names)
    PROVE  /\ e \in {"none", "KeyError", "ValueError"}
           /\ e = "KeyError" => ~(present \subseteq names)
           /\ e = "ValueError" => f.single \cap present # {}
           /\ e = "none" =>
                 /\ \A r \in rows : r.name \in present /\ r.name \in names
                                    /\ r.val = {<<f.launch, r.name>>}
                 /\ \A g \in names : (\E r \in rows : r.name = g) <=> g \in present
<1>1. /\ \A r \in rows : /\ r.name \in present
                         /\ r.val = IF r.name \in f.single THEN {} ELSE {<<f.launch, r.name>>}
      /\ (\A r \in rows : r.name \in names) =>
            \A g \in names : (\E r \in rows : r.name = g) <=> g \in present
  BY RowValues
<1>2. /\ e \in {"none", "KeyError", "ValueError"}
      /\ e = "KeyError" => ~(present \subseteq names)
  BY <1>1 DEF ErrorOf
<1>3. ASSUME e = "ValueError" PROVE f.single \cap present # {}
  <2>1. PICK r \in rows : r.val = {}
    BY <1>3 DEF ErrorOf
  <2>2. r.name \in f.single
    BY <1>1, <2>1
  <2> QED  BY <1>1, <2>2
<1>4. ASSUME e = "none", NEW r \in rows
      PROVE  r.name \in present /\ r.name \in names /\ r.val = {<<f.launch, r.name>>}
  <2>1. r.name \in names /\ r.val # {}
    BY <1>4 DEF ErrorOf
  <2> QED  BY <1>1, <2>1
<1> QED  BY <1>1, <1>2, <1>3, <1>4

\* What read_stats adds when it does not fail.
LEMMA ReadAdded ==
    ASSUME NEW s, NEW str, NEW rts, NEW q,
           ReadParts(s, str, q, rts)
    PROVE  read_stats(s).added =
             [g \in Groups |-> IF g # "total"
                               THEN UNION {r.val : r \in {x \in str \cup rts : x.name = g}}
                               ELSE UNION {s[j].val : j \in DOMAIN s \cap {2}}]
BY DEF read_stats, ReadParts

\* read_stats on a file broken off before the table of the routes.
LEMMA BrokenOffRead ==
    ASSUME NEW x, x.log \in Logs, x.tables = 1, NEW s, BrokenOff(x.log, s)
    PROVE  ReadAs(read_stats(s), x)
<1> DEFINE f == x.log
           str == read_df_stats(s, NumStats + 2, strategynames)
           e == FirstError(s, str, strategynames)
           m == NumStats + Cardinality(f.strategies) + 5
           rts == {}
           q == 0
<1>1. f \in Logs /\ BrokenOff(f, s)
  OBVIOUS
<1> HIDE DEF f
<1>2. m \in Nat /\ IsList(s, m) /\ NumStats + 5 + Cardinality(f.strategies) <= m
  <2> DEFINE ns == Cardinality(f.strategies)
  <2>1. ns \in Nat /\ NumStats \in Nat
    BY <1>1, FiniteGroups, TripAssumption DEF Ranked
  <2>2. IsList(s, m)
    BY <1>1 DEF BrokenOff
  <2> HIDE DEF ns
  <2>3. NumStats + ns + 5 \in Nat /\ NumStats + 5 + ns <= NumStats + ns + 5
    BY <2>1
  <2> QED  BY <2>2, <2>3 DEF ns
<1>3. TableAt(s, NumStats + 2, "routingStrategy", StrategyOrder, f.strategies, f)
  BY <1>1 DEF BrokenOff
<1> HIDE DEF m
<1>4. /\ NumStats + 2 <= Len(s) /\ s[NumStats + 2].kind = "head"
      /\ s[NumStats + 2].name = "routingStrategy"
      /\ ~(Len(s) < NumStats + 1)
      /\ ReadRows(s, str, f.strategies, strategynames, f)
      /\ ErrorOf(e, str, strategynames)
  BY <1>1, <1>2, <1>3, StrategyRows
<1>5. RouteHeaders(s, NumStats + 2) = {}
  BY <1>1, NoRoutesHeader
<1>6. ReadParts(s, str, q, rts)
  BY <1>4, <1>5 DEF ReadParts
<1>7. read_stats(s).error =
         IF Len(s) < NumStats + 1 THEN "IndexError"
         ELSE IF FirstError(s, str, strategynames) # "none" THEN FirstError(s, str, strategynames)
         ELSE IF q = 0 THEN "loops"
         ELSE FirstError(s, rts, Routes)
  BY <1>6, ReadError
<1>8. read_stats(s).error = IF e # "none" THEN e ELSE "loops"
  BY <1>4, <1>7
<1>9. /\ e \in {"none", "KeyError", "ValueError"}
      /\ e = "KeyError" => ~(f.strategies \subseteq strategynames)
      /\ e = "ValueError" => f.single \cap f.strategies # {}
  <2> HIDE DEF e, str
  <2> QED  BY <1>4, RowsFail
<1> HIDE DEF e
<1>10. read_stats(s).error \in {"KeyError", "ValueError", "loops"}
  BY <1>8, <1>9
<1>11. /\ read_stats(s).error = "KeyError" => ~(f.strategies \subseteq strategynames)
       /\ read_stats(s).error = "ValueError" => f.single \cap f.strategies # {}
  BY <1>8, <1>9
<1>12. x.tables > 0 /\ x.tables < 2
  OBVIOUS
<1> USE DEF f
<1> QED  BY <1>10, <1>11, <1>12 DEF ReadAs, Errors

\* read_stats on a file that write_group_stats wrote to its end.
LEMMA FileRead ==
    ASSUME NEW x, x.log \in Logs, x.log.launch \in Launches, x.tables = 2,
           NEW s, FileOf(x.log, s)
    PROVE  ReadAs(read_stats(s), x)
<1> DEFINE f == x.log
           l == f.launch
           ns == Cardinality(f.strategies)
           nr == Cardinality(f.routes)
           m == NumStats + ns + nr + 9
           q == NumStats + ns + 6
           str == read_df_stats(s, NumStats + 2, strategynames)
           rts == read_df_stats(s, q, Routes)
           e1 == FirstError(s, str, strategynames)
           e2 == FirstError(s, rts, Routes)
           Added(g) == UNION {r.val : r \in {y \in str \cup rts : y.name = g}}
           Total == UNION {s[j].val : j \in DOMAIN s \cap {2}}
           added == [g \in Groups |-> IF g # "total" THEN Added(g) ELSE Total]
<1>1. f \in Logs /\ l \in Launches /\ FileOf(f, s)
  OBVIOUS
<1> HIDE DEF f
<1>2. ns \in Nat /\ nr \in Nat /\ NumStats \in Nat
  BY <1>1, FiniteGroups, TripAssumption DEF Ranked
<1>3. IsList(s, m) /\ Len(s) = m /\ DOMAIN s = 1..m
  BY <1>1 DEF FileOf, IsList
<1>4. m \in Nat /\ q \in Nat /\ q # 0 /\ NumStats + 5 + ns <= m /\ q + 3 + nr <= m
  <2> HIDE DEF ns, nr
  <2> QED  BY <1>2
<1>5. /\ TotalsAt(f, s)
      /\ TableAt(s, NumStats + 2, "routingStrategy", StrategyOrder, f.strategies, f)
      /\ TableAt(s, q, "routeId", RouteOrder, f.routes, f)
  BY <1>1 DEF FileOf
<1>6. /\ NumStats + 2 <= Len(s) /\ s[NumStats + 2].kind = "head"
      /\ s[NumStats + 2].name = "routingStrategy"
      /\ ~(Len(s) < NumStats + 1)
      /\ ReadRows(s, str, f.strategies, strategynames, f)
      /\ ErrorOf(e1, str, strategynames)
  <2>1. NumStats + 5 + Cardinality(f.strategies) <= m
    BY <1>4
  <2> HIDE DEF m
  <2> QED  BY <1>1, <1>3, <1>4, <1>5, <2>1, StrategyRows
<1>7. ReadRows(s, rts, f.routes, Routes, f)
  <2>1. f.routes \in SUBSET Range(RouteOrder)
    BY <1>1, FiniteGroups
  <2> HIDE DEF q, m
  <2> QED  BY <1>3, <1>4, <1>5, <2>1, FiniteNames, TripAssumption, TableRead
<1>8. RouteHeaders(s, NumStats + 2) # {} /\ Min(RouteHeaders(s, NumStats + 2)) = q
  <2>1. RouteHeaders(s, NumStats + 2) = {q}
    BY <1>1, RoutesHeader
  <2>2. {q} \in SUBSET Nat /\ {q} # {}
    BY <1>4
  <2> HIDE DEF q
  <2>3. Min({q}) \in {q}
    BY <2>2, MinOfNats
  <2> QED  BY <2>1, <2>3
<1>9. ReadParts(s, str, q, rts)
  <2> HIDE DEF q
  <2> QED  BY <1>4, <1>6, <1>8 DEF ReadParts
<1> HIDE DEF str, rts, q, m
<1>10. ErrorOf(e2, rts, Routes)
  <2>1. \A r \in rts : \E j \in DOMAIN s : s[j] = r
    BY <1>7 DEF ReadRows
  <2> QED  BY <1>3, <2>1, FirstErrorOf
<1>11. read_stats(s).error = IF e1 # "none" THEN e1 ELSE e2
  <2>1. read_stats(s).error =
           IF Len(s) < NumStats + 1 THEN "IndexError"
           ELSE IF FirstError(s, str, strategynames) # "none" THEN FirstError(s, str, strategynames)
           ELSE IF q = 0 THEN "loops"
           ELSE FirstError(s, rts, Routes)
    BY <1>9, ReadError
  <2> QED  BY <1>4, <1>6, <2>1
<1>12. read_stats(s).added = added
  BY <1>9, ReadAdded
<1> HIDE DEF e1, e2
<1>13. /\ e1 \in {"none", "KeyError", "ValueError"}
       /\ e1 = "KeyError" => ~(f.strategies \subseteq strategynames)
       /\ e1 = "ValueError" => f.single \cap f.strategies # {}
       /\ e1 = "none" =>
             /\ \A r \in str : r.name \in f.strategies /\ r.name \in strategynames
                               /\ r.val = {<<l, r.name>>}
             /\ \A g \in strategynames : (\E r \in str : r.name = g) <=> g \in f.strategies
  BY <1>6, RowsFail
<1>14. /\ e2 \in {"none", "KeyError", "ValueError"}
       /\ e2 = "KeyError" => ~(f.routes \subseteq Routes)
       /\ e2 = "ValueError" => f.single \cap f.routes # {}
       /\ e2 = "none" =>
             /\ \A r \in rts : r.name \in f.routes /\ r.name \in Routes
                               /\ r.val = {<<l, r.name>>}
             /\ \A g \in Routes : (\E r \in rts : r.name = g) <=> g \in f.routes
  BY <1>7, <1>10, RowsFail
<1>15. f.routes \subseteq Routes /\ f.strategies \subseteq Strategies
  BY <1>1 DEF Logs
<1> DEFINE e == read_stats(s).error
<1>16. /\ e \in {"none", "KeyError", "ValueError"}
       /\ e = "KeyError" => ~(f.strategies \subseteq strategynames)
       /\ e = "ValueError" => f.single \cap (f.routes \cup f.strategies) # {}
       /\ e = "none" => e1 = "none" /\ e2 = "none"
  <2>1. e = IF e1 # "none" THEN e1 ELSE e2
    BY <1>11
  <2> HIDE DEF e
  <2> QED  BY <1>13, <1>14, <1>15, <2>1
<1> HIDE DEF e
<1>17. ASSUME e = "none" PROVE added \in [Groups -> SUBSET Tokens]
  <2>1. \A r \in str \cup rts : r.val \in SUBSET Tokens
    BY <1>1, <1>13, <1>14, <1>15, <1>16, <1>17 DEF Tokens, Groups
  <2>2. \A g : Added(g) \in SUBSET Tokens
    BY <2>1
  <2>3. Total \in SUBSET Tokens
    <3>1. ASSUME NEW j \in DOMAIN s \cap {2} PROVE s[j].val \in SUBSET Tokens
      <4>1. CASE NumStats = 0
        <5>1. s[NumStats + 2] = Line("head", "routingStrategy", {})
          BY <1>5 DEF TableAt
        <5>2. NumStats + 2 = 2
          BY <4>1
        <5>3. s[2].val = {}
          BY <5>1, <5>2, FixedLines
        <5> QED  BY <5>3, <3>1
      <4>2. CASE NumStats # 0
        <5>1. 1 \in 1..NumStats /\ 1 + 1 = 2
          BY <1>2, <4>2
        <5>2. s[2] = Line("stat", "total", {<<f.launch, "total">>})
          BY <1>5, <5>1 DEF TotalsAt
        <5>3. s[2].val = {<<f.launch, "total">>}
          BY <5>2, LineFields
        <5> QED  BY <1>1, <3>1, <5>3 DEF Tokens, Groups
      <4> QED  BY <4>1, <4>2
    <3> QED  BY <3>1
  <2> HIDE DEF Added, Total
  <2> QED  BY <2>2, <2>3
<1>18. ASSUME e = "none", NEW g \in Routes \cup strategynames
       PROVE  added[g] = {<<y.log.launch, g>> :
                            y \in {z \in {x} : g \in z.log.routes \cup z.log.strategies}}
  <2>1. /\ \A r \in str : r.name \in f.strategies /\ r.name \in strategynames
                          /\ r.val = {<<l, r.name>>}
        /\ \A h \in strategynames : (\E r \in str : r.name = h) <=> h \in f.strategies
        /\ \A r \in rts : r.name \in f.routes /\ r.name \in Routes /\ r.val = {<<l, r.name>>}
        /\ \A h \in Routes : (\E r \in rts : r.name = h) <=> h \in f.routes
    BY <1>13, <1>14, <1>16, <1>18
  <2>2. g \in Groups /\ g # "total" /\ (g \in Routes <=> g \notin strategynames)
    BY TripAssumption DEF Groups
  <2>3. (\E r \in str \cup rts : r.name = g) <=> g \in f.routes \cup f.strategies
    <3>1. CASE g \in Routes
      <4>1. g \notin f.strategies /\ ~\E r \in str : r.name = g
        BY <1>15, <2>1, <2>2, <3>1, TripAssumption
      <4> QED  BY <2>1, <3>1, <4>1
    <3>2. CASE g \in strategynames
      <4>1. g \notin f.routes /\ ~\E r \in rts : r.name = g
        BY <1>15, <2>1, <2>2, <3>2
      <4> QED  BY <2>1, <3>2, <4>1
    <3> QED  BY <3>1, <3>2
  <2>4. \A r \in str \cup rts : r.name = g => r.val = {<<l, g>>}
    BY <2>1
  <2>5. Added(g) = IF g \in f.routes \cup f.strategies THEN {<<l, g>>} ELSE {}
    BY <2>3, <2>4
  <2>6. added[g] = Added(g)
    BY <2>2
  <2> HIDE DEF added, Added
  <2> QED  BY <2>5, <2>6 DEF f
<1> HIDE DEF added
<1>19. x.tables > 0
  OBVIOUS
<1> USE DEF f, e
<1> QED  BY <1>12, <1>16, <1>17, <1>18, <1>19 DEF ReadAs, Errors

-----------------------------------------------------------------------------
(* average.txt *)

\* Line k of a file is the name of a route.
RouteName(lines, k) == lines[k].kind = "name" /\ lines[k].name \in Routes

\* What write_average_stats leaves: unless the routes end there, the name of a
\* route, found only once, is followed by its averages and by another route.
AverageOK(lines) ==
    /\ IsList(lines, Len(lines))
    /\ \A k \in 1..Len(lines) : lines[k].val \in SUBSET Tokens
    /\ \A k \in 1..Len(lines) :
          RouteName(lines, k) /\ (\E m \in (k + 1)..Len(lines) : lines[m].name \in Routes
                                                        /\ lines[m].name # lines[k].name)
          => /\ k + 2 \in 1..Len(lines)
             /\ lines[k + 1].kind = "stat" /\ RouteName(lines, k + 2)
             /\ \A j \in 1..Len(lines) :
                   lines[j].kind = "name" /\ lines[j].name = lines[k].name => j = k

\* The value that read_average_stats plots for such a route.
LEMMA AverageRead ==
    ASSUME NEW lines, AverageOK(lines), NEW k \in 1..Len(lines), RouteName(lines, k),
           \E m \in (k + 1)..Len(lines) : lines[m].name \in Routes /\ lines[m].name # lines[k].name
    PROVE  read_average_stats(lines)[lines[k].name] = lines[k + 1].val
<1> DEFINE n == Len(lines)
           g == lines[k].name
           names(j) == {i \in 1..j : lines[i].kind = "name" /\ lines[i].name \in Routes}
           booked == BookedTo(lines, g)
<1>1. n \in Nat /\ DOMAIN lines = 1..n
  BY DEF AverageOK, IsList
<1>2. /\ k + 2 \in 1..n /\ lines[k + 1].kind = "stat" /\ RouteName(lines, k + 2)
      /\ \A j \in 1..n : lines[j].kind = "name" /\ lines[j].name = g => j = k
  BY DEF AverageOK
<1>3. k \in Nat /\ k + 1 \in 1..n /\ k + 2 \in Nat /\ g \in Routes
  BY <1>1, <1>2 DEF RouteName
<1>4. booked = {j \in 1..n : lines[j].kind = "stat" /\ names(j) # {} /\ lines[Max(names(j))].name = g}
  BY <1>1 DEF BookedTo
<1> HIDE DEF booked, n
<1>5. \A j \in 1..n : names(j) # {} => Max(names(j)) \in names(j) /\ \A y \in names(j) : y <= Max(names(j))
  <2>1. ASSUME NEW j \in 1..n, names(j) # {}
        PROVE  Max(names(j)) \in names(j) /\ \A y \in names(j) : y <= Max(names(j))
    <3>1. j \in Int /\ 1 \in Int
      BY <1>1
    <3>2. IsFiniteSet(1..j)
      BY <3>1, FS_Interval
    <3>3. names(j) \in SUBSET Nat /\ names(j) \subseteq 1..j
      OBVIOUS
    <3>4. IsFiniteSet(names(j))
      BY <3>2, <3>3, FS_Subset
    <3> HIDE DEF names
    <3> QED  BY <2>1, <3>3, <3>4, MaxOfNats
  <2> QED  BY <2>1
<1>6. k + 1 \in booked
  <2>1. k \in names(k + 1)
    BY <1>3 DEF RouteName
  <2>2. Max(names(k + 1)) \in names(k + 1) /\ k <= Max(names(k + 1))
    BY <1>3, <1>5, <2>1
  <2>3. Max(names(k + 1)) \in 1..(k + 1) /\ lines[Max(names(k + 1))].kind = "name"
    BY <2>2
  <2>4. Max(names(k + 1)) # k + 1
    BY <1>2, <2>3
  <2>5. Max(names(k + 1)) = k
    BY <1>3, <2>2, <2>3, <2>4
  <2> QED  BY <1>2, <1>3, <1>4, <2>1, <2>5
<1>7. ASSUME NEW j \in booked PROVE j <= k + 1
  <2>1. j \in 1..n /\ names(j) # {} /\ lines[Max(names(j))].name = g
    BY <1>4
  <2>2. Max(names(j)) \in names(j) /\ \A y \in names(j) : y <= Max(names(j))
    BY <1>5, <2>1
  <2>3. Max(names(j)) \in 1..n /\ lines[Max(names(j))].kind = "name"
    BY <1>1, <2>1, <2>2
  <2>4. Max(names(j)) = k
    BY <1>2, <2>1, <2>3
  <2>5. ASSUME j >= k + 2 PROVE FALSE
    <3>1. k + 2 \in 1..j
      BY <1>1, <1>3, <2>1, <2>5
    <3>2. k + 2 \in names(j)
      BY <1>2, <3>1 DEF RouteName
    <3>3. k + 2 <= k
      BY <2>2, <2>4, <3>2
    <3> QED  BY <1>3, <3>3
  <2> QED  BY <1>1, <1>3, <2>1, <2>5
<1>8. Max(booked) = k + 1
  <2>1. booked \in SUBSET Nat /\ booked \subseteq 1..n
    BY <1>4
  <2>2. IsFiniteSet(booked)
    <3>1. 1 \in Int /\ n \in Int
      BY <1>1
    <3>2. IsFiniteSet(1..n)
      BY <3>1, FS_Interval
    <3> QED  BY <2>1, <3>2, FS_Subset
  <2>3. Max(booked) \in booked /\ \A y \in booked : y <= Max(booked)
    BY <1>6, <2>1, <2>2, MaxOfNats
  <2>4. Max(booked) \in Nat /\ Max(booked) <= k + 1 /\ k + 1 <= Max(booked)
    BY <1>6, <1>7, <2>1, <2>3
  <2> QED  BY <1>3, <2>4
<1> USE DEF booked
<1>9. read_average_stats(lines)[g] = lines[Max(BookedTo(lines, g))].val
  BY <1>3, <1>6 DEF read_average_stats
<1> QED  BY <1>8, <1>9

\* Whatever it plots is in the file.
LEMMA AverageReadType ==
    ASSUME NEW lines, AverageOK(lines)
    PROVE  read_average_stats(lines) \in [Routes -> SUBSET Tokens]
<1> DEFINE n == Len(lines)
<1>1. n \in Nat /\ DOMAIN lines = 1..n
  BY DEF AverageOK, IsList
<1>2. ASSUME NEW g \in Routes, BookedTo(lines, g) # {}
      PROVE  lines[Max(BookedTo(lines, g))].val \in SUBSET Tokens
  <2>1. BookedTo(lines, g) \subseteq 1..n
    BY <1>1 DEF BookedTo
  <2>2. IsFiniteSet(BookedTo(lines, g))
    <3>1. 1 \in Int /\ n \in Int
      BY <1>1
    <3> HIDE DEF n
    <3>2. IsFiniteSet(1..n)
      BY <3>1, FS_Interval
    <3> QED  BY <2>1, <3>2, FS_Subset
  <2>3. BookedTo(lines, g) \in SUBSET Nat
    BY <2>1
  <2>4. Max(BookedTo(lines, g)) \in 1..n
    BY <1>2, <2>1, <2>2, <2>3, MaxOfNats
  <2> QED  BY <2>4 DEF AverageOK
<1> QED  BY <1>2 DEF read_average_stats

\* The lines of the groups in order, two each.
SectionLines(s, order) ==
    /\ IsList(s, 2 * Len(order))
    /\ \A i \in 1..Len(order) :
          /\ s[2 * i - 1] = Line("name", order[i], {})
          /\ s[2 * i] = Line("stat", order[i], averages[order[i]])

\* What Sections makes of a list of groups.
LEMMA SectionsOf ==
    ASSUME NEW order, Len(order) \in Nat
    PROVE  SectionLines(Sections(order), order)
<1> DEFINE n == 2 * Len(order)
           at(k) == LET g == order[(k + 1) \div 2]
                    IN IF k % 2 = 1 THEN Line("name", g, {}) ELSE Line("stat", g, averages[g])
           s == [k \in 1..n |-> at(k)]
<1>1. Sections(order) = s
  BY DEF Sections
<1>2. n \in Nat
  OBVIOUS
<1>3. IsList(s, n)
  <2> HIDE DEF n, at
  <2> QED  BY <1>2, FunctionIsList
<1>4. ASSUME NEW i \in 1..Len(order)
      PROVE  /\ s[2 * i - 1] = Line("name", order[i], {})
             /\ s[2 * i] = Line("stat", order[i], averages[order[i]])
  <2>1. /\ 2 * i - 1 \in 1..n /\ ((2 * i - 1) + 1) \div 2 = i /\ (2 * i - 1) % 2 = 1
        /\ 2 * i \in 1..n /\ (2 * i + 1) \div 2 = i /\ ~((2 * i) % 2 = 1)
    OBVIOUS
  <2>2. at(2 * i - 1) = Line("name", order[i], {})
    BY <2>1
  <2>3. at(2 * i) = Line("stat", order[i], averages[order[i]])
    BY <2>1
  <2> HIDE DEF at, n
  <2> QED  BY <2>1, <2>2, <2>3
<1> QED  BY <1>1, <1>3, <1>4 DEF SectionLines

\* rest ends an average.txt after the routes of ok: strategies only, or the
\* name of one more route.
RestOK(rest, r, ok) ==
    /\ IsList(rest, r)
    /\ \/ \A j \in 1..r : rest[j].name \notin Routes /\ rest[j].val \in SUBSET Tokens
       \/ /\ r = 1 /\ rest[1].kind = "name" /\ rest[1].val = {} /\ rest[1].name \in Routes
          /\ \A i \in 1..Len(ok) : ok[i] # rest[1].name

\* lines is an average.txt: the total, the routes of ok and the rest.
AverageParts(lines, ok, rest, r) ==
    LET L == Len(ok)
    IN /\ IsList(lines, 2 + 2 * L + r)
       /\ \A k \in 1..2 : lines[k].name = "total" /\ lines[k].val \in SUBSET Tokens
       /\ \A i \in 1..L : /\ lines[2 * i + 1] = Line("name", ok[i], {})
                          /\ lines[2 * i + 2] = Line("stat", ok[i], averages[ok[i]])
       /\ \A j \in 1..r : lines[2 + 2 * L + j] = rest[j]

\* Such a file is as AverageRead expects it.
LEMMA PartsAreOK ==
    ASSUME averages \in [Groups -> SUBSET Tokens], NEW lines, NEW ok \in Seq(Routes),
           \A i, j \in 1..Len(ok) : ok[i] = ok[j] => i = j,
           NEW rest, NEW r \in Nat, RestOK(rest, r, ok), AverageParts(lines, ok, rest, r)
    PROVE  AverageOK(lines)
<1> DEFINE L == Len(ok)
           n == 2 + 2 * L + r
<1>1. L \in Nat /\ n \in Nat /\ \A i \in 1..L : ok[i] \in Routes
  <2>1. L \in Nat /\ DOMAIN ok = 1..L /\ ok \in [1..L -> Routes]
    BY LenProperties
  <2> HIDE DEF L
  <2> QED  BY <2>1
<1>2. IsList(lines, n) /\ Len(lines) = n
  BY DEF AverageParts, IsList
<1>3. \A k \in 1..2 : lines[k].name = "total" /\ lines[k].val \in SUBSET Tokens
  BY DEF AverageParts
<1>4. ASSUME NEW i \in 1..L
      PROVE  /\ lines[2 * i + 1].kind = "name" /\ lines[2 * i + 1].name = ok[i]
             /\ lines[2 * i + 1].val = {}
             /\ lines[2 * i + 2].kind = "stat" /\ lines[2 * i + 2].name = ok[i]
             /\ lines[2 * i + 2].val \in SUBSET Tokens
  <2>1. /\ lines[2 * i + 1] = Line("name", ok[i], {})
        /\ lines[2 * i + 2] = Line("stat", ok[i], averages[ok[i]])
    BY DEF AverageParts
  <2>2. Line("name", ok[i], {}).kind = "name" /\ Line("name", ok[i], {}).name = ok[i]
        /\ Line("name", ok[i], {}).val = {}
    BY DEF Line
  <2>3. /\ Line("stat", ok[i], averages[ok[i]]).kind = "stat"
        /\ Line("stat", ok[i], averages[ok[i]]).name = ok[i]
        /\ Line("stat", ok[i], averages[ok[i]]).val = averages[ok[i]]
    BY DEF Line
  <2>4. averages[ok[i]] \in SUBSET Tokens
    BY <1>1 DEF Groups
  <2> QED  BY <2>1, <2>2, <2>3, <2>4
<1>5. \A j \in 1..r : lines[2 + 2 * L + j] = rest[j]
  BY DEF AverageParts
<1>6. \/ \A j \in 1..r : rest[j].name \notin Routes /\ rest[j].val \in SUBSET Tokens
      \/ /\ r = 1 /\ rest[1].kind = "name" /\ rest[1].val = {} /\ rest[1].name \in Routes
         /\ \A i \in 1..L : ok[i] # rest[1].name
  BY DEF RestOK
<1>7. \A i, j \in 1..L : ok[i] = ok[j] => i = j
  OBVIOUS
<1>8. "total" \notin Routes
  BY TripAssumption
<1> HIDE DEF L
\* Where a line of the file is.
<1>9. ASSUME NEW k \in 1..n
      PROVE  \/ k \in 1..2
             \/ \E i \in 1..L : k = 2 * i + 1 \/ k = 2 * i + 2
             \/ \E j \in 1..r : k = 2 + 2 * L + j
  <2>1. CASE k > 2 + 2 * L
    <3>1. k - (2 + 2 * L) \in 1..r /\ k = 2 + 2 * L + (k - (2 + 2 * L))
      BY <1>1, <2>1
    <3> QED  BY <3>1
  <2>2. CASE k > 2 /\ k <= 2 + 2 * L
    <3>1. (k - 1) \div 2 \in 1..L /\ (k = 2 * ((k - 1) \div 2) + 1 \/ k = 2 * ((k - 1) \div 2) + 2)
      BY <1>1, <2>2
    <3> QED  BY <3>1
  <2> QED  BY <1>1, <2>1, <2>2
<1>10. ASSUME NEW k \in 1..n PROVE lines[k].val \in SUBSET Tokens
  <2>1. CASE k \in 1..2
    BY <1>3, <2>1
  <2>2. ASSUME NEW i \in 1..L, k = 2 * i + 1 \/ k = 2 * i + 2 PROVE lines[k].val \in SUBSET Tokens
    BY <1>4, <2>2
  <2>3. ASSUME NEW j \in 1..r, k = 2 + 2 * L + j PROVE lines[k].val \in SUBSET Tokens
    <3>1. lines[k] = rest[j]
      BY <1>5, <2>3
    <3>2. CASE \A x \in 1..r : rest[x].name \notin Routes /\ rest[x].val \in SUBSET Tokens
      BY <3>1, <3>2
    <3>3. CASE r = 1 /\ rest[1].val = {}
      <4>1. j = 1
        BY <3>3
      <4> QED  BY <3>1, <3>3, <4>1
    <3> QED  BY <1>6, <3>2, <3>3
  <2> QED  BY <1>9, <2>1, <2>2, <2>3
\* The route of a section is named nowhere else.
<1>11. ASSUME NEW i \in 1..L, NEW j \in 1..n, lines[j].kind = "name", lines[j].name = ok[i]
       PROVE  j = 2 * i + 1
  <2>1. j \notin 1..2
    BY <1>1, <1>3, <1>8, <1>11
  <2>2. ASSUME NEW x \in 1..L, j = 2 * x + 1 \/ j = 2 * x + 2 PROVE j = 2 * i + 1
    <3>1. j # 2 * x + 2
      BY <1>4, <1>11
    <3>2. ok[x] = ok[i] /\ j = 2 * x + 1
      BY <1>4, <1>11, <2>2, <3>1
    <3> QED  BY <1>7, <3>2
  <2>3. ASSUME NEW x \in 1..r, j = 2 + 2 * L + x PROVE FALSE
    <3>1. rest[x].name = ok[i]
      BY <1>5, <1>11, <2>3
    <3>2. CASE \A y \in 1..r : rest[y].name \notin Routes
      BY <1>1, <3>1, <3>2
    <3>3. CASE r = 1 /\ \A y \in 1..L : ok[y] # rest[1].name
      <4>1. x = 1
        BY <3>3
      <4> QED  BY <3>1, <3>3, <4>1
    <3> QED  BY <1>6, <3>2, <3>3
  <2> QED  BY <1>9, <2>1, <2>2, <2>3
<1>12. ASSUME NEW k \in 1..n, RouteName(lines, k), NEW m \in (k + 1)..n,
              lines[m].name \in Routes, lines[m].name # lines[k].name
       PROVE  /\ k + 2 \in 1..n /\ lines[k + 1].kind = "stat" /\ RouteName(lines, k + 2)
              /\ \A j \in 1..n : lines[j].kind = "name" /\ lines[j].name = lines[k].name => j = k
  <2>1. m \in 1..n /\ k \in Nat /\ m \in Nat /\ m > k
    BY <1>1
  <2>2. k \notin 1..2 /\ m \notin 1..2
    BY <1>3, <1>8, <1>12 DEF RouteName
  <2>3. PICK i \in 1..L : k = 2 * i + 1
    <3>1. ASSUME NEW i \in 1..L PROVE k # 2 * i + 2
      BY <1>4, <1>12 DEF RouteName
    <3>2. ASSUME NEW j \in 1..r, k = 2 + 2 * L + j PROVE FALSE
      <4>1. lines[k] = rest[j]
        BY <1>5, <3>2
      <4>2. ~ \A y \in 1..r : rest[y].name \notin Routes
        BY <1>12, <4>1 DEF RouteName
      <4>3. r = 1
        BY <1>6, <4>2
      <4> QED  BY <1>1, <2>1, <3>2, <4>3
    <3> QED  BY <1>9, <2>2, <3>1, <3>2
  <2>4. lines[k].name = ok[i] /\ lines[k + 1].kind = "stat"
    <3>1. k + 1 = 2 * i + 2
      BY <2>3
    <3> QED  BY <1>4, <2>3, <3>1
  <2>5. k + 2 \in 1..n /\ RouteName(lines, k + 2)
    <3>1. CASE i < L
      <4>1. i + 1 \in 1..L /\ k + 2 = 2 * (i + 1) + 1 /\ k + 2 \in 1..n
        BY <1>1, <2>3, <3>1
      <4>2. lines[2 * (i + 1) + 1].kind = "name" /\ lines[2 * (i + 1) + 1].name = ok[i + 1]
        BY <1>4, <4>1
      <4>3. lines[k + 2].kind = "name" /\ lines[k + 2].name = ok[i + 1]
        BY <4>1, <4>2
      <4> QED  BY <1>1, <4>1, <4>3 DEF RouteName
    <3>2. CASE i = L
      <4>1. m # 2 * i + 2
        BY <1>4, <1>12, <2>4
      <4>2. PICK j \in 1..r : m = 2 + 2 * L + j
        <5>1. ~ \E x \in 1..L : m = 2 * x + 1 \/ m = 2 * x + 2
          BY <1>1, <2>1, <2>3, <3>2, <4>1
        <5> QED  BY <1>9, <2>1, <2>2, <5>1
      <4>3. ~ \A y \in 1..r : rest[y].name \notin Routes
        BY <1>5, <1>12, <4>2
      <4>4. r = 1 /\ rest[1].kind = "name" /\ rest[1].name \in Routes
        BY <1>6, <4>3
      <4>5. k + 2 = 2 + 2 * L + 1 /\ 1 \in 1..r /\ k + 2 \in 1..n
        BY <1>1, <2>3, <3>2, <4>4
      <4>6. lines[k + 2] = rest[1]
        BY <1>5, <4>5
      <4> QED  BY <4>4, <4>5, <4>6 DEF RouteName
    <3> QED  BY <1>1, <3>1, <3>2
  <2>6. \A j \in 1..n : lines[j].kind = "name" /\ lines[j].name = lines[k].name => j = k
    BY <1>11, <2>3, <2>4
  <2> QED  BY <2>4, <2>5, <2>6
<1> HIDE DEF n
<1> QED  BY <1>2, <1>10, <1>12 DEF AverageOK

\* An order in which the groups of S come, as SetToSeqs gives them.
LEMMA OrderOf ==
    ASSUME NEW S, IsFiniteSet(S), NEW o \in SetToSeqs(S)
    PROVE  /\ o \in Seq(S) /\ Len(o) \in Nat /\ DOMAIN o = 1..Len(o)
           /\ o \in [1..Len(o) -> S]
           /\ \A i, j \in 1..Len(o) : o[i] = o[j] => i = j
<1> DEFINE n == Cardinality(S)
<1>1. n \in Nat
  BY FS_CardinalityType
<1>2. o \in [1..n -> S] /\ \A i, j \in 1..n : i # j => o[i] # o[j]
  BY DEF SetToSeqs
<1> HIDE DEF n
<1>3. o \in Seq(S)
  BY <1>1, <1>2, SeqDef
<1>4. Len(o) = n
  BY <1>1, <1>2, <1>3, LenProperties
<1> QED  BY <1>1, <1>2, <1>3, <1>4

\* write_average_stats puts the parts together.
LEMMA AverageWritten ==
    ASSUME averages \in [Groups -> SUBSET Tokens], NEW ro \in SetToSeqs(Routes),
           NEW so \in SetToSeqs(strategynames)
    PROVE  AverageOK(write_average_stats(ro, so))
<1> DEFINE empty == {k \in DOMAIN ro : averages[ro[k]] = {}}
           ok == IF empty = {} THEN ro ELSE SubSeq(ro, 1, Min(empty) - 1)
           total == <<Line("name", "total", {}), Line("stat", "total", averages["total"])>>
           rest == IF empty = {} THEN Sections(so) ELSE <<Line("name", ro[Min(empty)], {})>>
           r == IF empty = {} THEN 2 * Len(so) ELSE 1
           parts == (total \o Sections(ok)) \o rest
           none == <<Line("name", "total", {})>>
<1>1. write_average_stats(ro, so) = IF averages["total"] = {} THEN none ELSE parts
  <2>1. CASE empty = {}
    BY <2>1 DEF write_average_stats
  <2>2. CASE empty # {}
    BY <2>2 DEF write_average_stats
  <2> QED  BY <2>1, <2>2
<1>2. /\ ro \in Seq(Routes) /\ Len(ro) \in Nat /\ DOMAIN ro = 1..Len(ro)
      /\ ro \in [1..Len(ro) -> Routes]
      /\ \A i, j \in 1..Len(ro) : ro[i] = ro[j] => i = j
  BY FiniteNames, OrderOf
<1>3. /\ Len(so) \in Nat /\ so \in [1..Len(so) -> strategynames]
  BY FiniteNames, OrderOf
<1>4. averages["total"] \in SUBSET Tokens /\ "total" \notin Routes
      /\ \A g \in Routes \cup strategynames : averages[g] \in SUBSET Tokens
  BY TripAssumption DEF Groups
<1>5. AverageOK(none)
  <2>1. IsList(none, 1)
    BY TupleIsList
  <2>2. Line("name", "total", {}).name = "total" /\ Line("name", "total", {}).val = {}
    BY DEF Line
  <2>3. none[1].name = "total" /\ none[1].val = {} /\ Len(none) = 1
    BY <2>2
  <2> HIDE DEF none
  <2>4. \A k \in 1..1 : none[k].val \in SUBSET Tokens /\ ~RouteName(none, k)
    BY <1>4, <2>3 DEF RouteName
  <2> QED  BY <2>1, <2>3, <2>4 DEF AverageOK
<1>6. /\ ok \in Seq(Routes) /\ Len(ok) <= Len(ro) /\ \A i \in 1..Len(ok) : ok[i] = ro[i]
      /\ empty # {} => Min(empty) \in 1..Len(ro) /\ Len(ok) = Min(empty) - 1
  <2>1. CASE empty = {}
    BY <1>2, <2>1
  <2>2. CASE empty # {}
    <3>1. empty \in SUBSET Nat /\ empty \subseteq 1..Len(ro)
      BY <1>2
    <3>2. Min(empty) \in 1..Len(ro)
      BY <2>2, <3>1, MinOfNats
    <3> DEFINE e == Min(empty) - 1
    <3>3. e \in 0..Len(ro)
      BY <1>2, <3>2
    <3> HIDE DEF e, empty
    <3>4. /\ SubSeq(ro, 1, e) \in Seq(Routes) /\ Len(SubSeq(ro, 1, e)) = e
          /\ \A i \in 1..e : SubSeq(ro, 1, e)[i] = ro[i]
      <4>1. \A i \in 1..e : ro[i] \in Routes
        BY <1>2, <3>3
      <4> QED  BY <1>2, <3>3, <4>1, SubSeqProperties
    <3>5. ok = SubSeq(ro, 1, e)
      BY <2>2 DEF e
    <3> QED  BY <1>2, <3>2, <3>3, <3>4, <3>5 DEF e
  <2> QED  BY <2>1, <2>2
<1>7. Len(ok) \in Nat /\ \A i, j \in 1..Len(ok) : ok[i] = ok[j] => i = j
  <2>1. Len(ok) \in Nat
    BY <1>6, LenProperties
  <2>2. \A i \in 1..Len(ok) : i \in 1..Len(ro)
    BY <1>2, <1>6, <2>1
  <2> HIDE DEF ok
  <2> QED  BY <1>2, <1>6, <2>1, <2>2
<1>8. r \in Nat /\ RestOK(rest, r, ok)
  <2>1. CASE empty = {}
    <3> DEFINE x == Sections(so)
    <3>1. SectionLines(x, so) /\ rest = x /\ r = 2 * Len(so)
      BY <1>3, <2>1, SectionsOf
    <3> HIDE DEF x, ok, empty
    <3>2. ASSUME NEW j \in 1..r PROVE rest[j].name \notin Routes /\ rest[j].val \in SUBSET Tokens
      <4>1. PICK i \in 1..Len(so) : j = 2 * i - 1 \/ j = 2 * i
        <5>1. j \in 1..(2 * Len(so))
          BY <3>1
        <5>2. (j + 1) \div 2 \in 1..Len(so) /\ (j = 2 * ((j + 1) \div 2) - 1 \/ j = 2 * ((j + 1) \div 2))
          BY <1>3, <5>1
        <5> QED  BY <5>2
      <4>2. x[2 * i - 1] = Line("name", so[i], {}) /\ x[2 * i] = Line("stat", so[i], averages[so[i]])
        BY <3>1 DEF SectionLines
      <4>3. /\ Line("name", so[i], {}).name = so[i] /\ Line("name", so[i], {}).val = {}
            /\ Line("stat", so[i], averages[so[i]]).name = so[i]
            /\ Line("stat", so[i], averages[so[i]]).val = averages[so[i]]
        BY DEF Line
      <4>4. so[i] \in strategynames
        BY <1>3
      <4>5. so[i] \notin Routes /\ averages[so[i]] \in SUBSET Tokens
        BY <1>4, <4>4, TripAssumption
      <4>6. x[j].name = so[i] /\ x[j].val \in SUBSET Tokens
        BY <4>1, <4>2, <4>3, <4>5
      <4> QED  BY <3>1, <4>5, <4>6
    <3>3. IsList(rest, r) /\ r \in Nat
      BY <1>3, <3>1 DEF SectionLines
    <3> HIDE DEF rest, r
    <3> QED  BY <3>2, <3>3 DEF RestOK
  <2>2. CASE empty # {}
    <3> DEFINE g == ro[Min(empty)]
    <3>1. rest = <<Line("name", g, {})>> /\ r = 1
      BY <2>2
    <3>2. IsList(rest, 1) /\ rest[1] = Line("name", g, {})
      <4> DEFINE y == <<Line("name", g, {})>>
      <4>1. IsList(y, 1) /\ y[1] = Line("name", g, {})
        BY TupleIsList
      <4>2. rest = y
        BY <3>1
      <4> HIDE DEF y, rest
      <4> QED  BY <4>1, <4>2
    <3>3. /\ Line("name", g, {}).kind = "name" /\ Line("name", g, {}).name = g
          /\ Line("name", g, {}).val = {}
      BY DEF Line
    <3>4. Min(empty) \in 1..Len(ro) /\ Len(ok) = Min(empty) - 1
      BY <1>6, <2>2
    <3>5. g \in Routes
      BY <1>2, <3>4
    <3> HIDE DEF rest, r, ok, empty
    <3>6. ASSUME NEW i \in 1..Len(ok) PROVE ok[i] # g
      <4>1. i \in 1..Len(ro) /\ i # Min(empty)
        BY <1>2, <3>4
      <4> QED  BY <1>2, <1>6, <3>4, <4>1
    <3>7. rest[1].kind = "name" /\ rest[1].val = {} /\ rest[1].name = g
      BY <3>2, <3>3
    <3> HIDE DEF g
    <3> QED  BY <3>1, <3>2, <3>5, <3>6, <3>7 DEF RestOK
  <2> QED  BY <2>1, <2>2
<1>9. AverageParts(parts, ok, rest, r)
  <2> DEFINE L == Len(ok)
             x == Sections(ok)
             a == total \o x
  <2>1. IsList(total, 2)
    BY TupleIsList
  <2>2. total[1] = Line("name", "total", {}) /\ total[2] = Line("stat", "total", averages["total"])
    OBVIOUS
  <2>3. \A k \in 1..2 : total[k].name = "total" /\ total[k].val \in SUBSET Tokens
    <3>1. /\ Line("name", "total", {}).name = "total" /\ Line("name", "total", {}).val = {}
          /\ Line("stat", "total", averages["total"]).name = "total"
          /\ Line("stat", "total", averages["total"]).val = averages["total"]
      BY DEF Line
    <3> HIDE DEF total
    <3>2. /\ total[1].name = "total" /\ total[1].val = {}
          /\ total[2].name = "total" /\ total[2].val = averages["total"]
      BY <2>2, <3>1
    <3>3. \A k \in 1..2 : k = 1 \/ k = 2
      OBVIOUS
    <3> QED  BY <1>4, <3>2, <3>3
  <2>4. SectionLines(x, ok)
    BY <1>7, SectionsOf
  <2> HIDE DEF total, x
  <2>5. IsList(x, 2 * L) /\ IsList(rest, r) /\ L \in Nat /\ r \in Nat
    BY <1>7, <1>8, <2>4 DEF SectionLines, RestOK
  <2>6. Joined(a, total, 2, x, 2 * L)
    BY <2>1, <2>5, JoinLists
  <2> HIDE DEF a
  <2>7. Joined(parts, a, 2 + 2 * L, rest, r)
    <3>1. IsList(a, 2 + 2 * L)
      BY <2>6 DEF Joined
    <3>2. parts = a \o rest
      BY DEF a, x
    <3> HIDE DEF parts, rest, r, L
    <3> QED  BY <2>5, <3>1, <3>2, JoinLists
  <2> HIDE DEF parts, rest, r, ok
  <2>8. /\ IsList(parts, 2 + 2 * L + r)
        /\ \A j \in 1..r : parts[2 + 2 * L + j] = rest[j]
        /\ \A i \in 1..(2 + 2 * L) : parts[i] = a[i]
        /\ \A i \in 1..2 : a[i] = total[i]
        /\ \A i \in 1..(2 * L) : a[2 + i] = x[i]
    BY <2>6, <2>7 DEF Joined
  <2> HIDE DEF L
  <2>9. \A k \in 1..2 : parts[k].name = "total" /\ parts[k].val \in SUBSET Tokens
    <3>1. \A k \in 1..2 : k \in 1..(2 + 2 * L)
      BY <2>5
    <3>2. \A k \in 1..2 : parts[k] = total[k]
      BY <2>8, <3>1
    <3> QED  BY <2>3, <3>2
  <2>10. ASSUME NEW i \in 1..L
         PROVE  /\ parts[2 * i + 1] = Line("name", ok[i], {})
                /\ parts[2 * i + 2] = Line("stat", ok[i], averages[ok[i]])
    <3>1. /\ 2 * i - 1 \in 1..(2 * L) /\ 2 * i \in 1..(2 * L)
          /\ 2 + (2 * i - 1) = 2 * i + 1 /\ 2 + 2 * i = 2 * i + 2
          /\ 2 * i + 1 \in 1..(2 + 2 * L) /\ 2 * i + 2 \in 1..(2 + 2 * L)
      BY <2>5
    <3>2. parts[2 * i + 1] = x[2 * i - 1] /\ parts[2 * i + 2] = x[2 * i]
      BY <2>8, <3>1
    <3>3. x[2 * i - 1] = Line("name", ok[i], {}) /\ x[2 * i] = Line("stat", ok[i], averages[ok[i]])
      BY <2>4 DEF SectionLines, L
    <3> QED  BY <3>2, <3>3
  <2> QED  BY <2>8, <2>9, <2>10 DEF AverageParts, L
<1> HIDE DEF ok, rest, r, parts, none
<1>10. AverageOK(parts)
  BY <1>6, <1>7, <1>8, <1>9, PartsAreOK
<1> QED  BY <1>1, <1>5, <1>10

-----------------------------------------------------------------------------
(* The inductive invariant *)

\* Whose log a folder holds, and that runovnis.py only analyses one it has.
LogInv ==
    \A i \in Folders :
        /\ log[i] = NoFile \/ log[i].launch \in Launches
        /\ job[i] \in {"headed", "open"} => log[i] # NoFile
        /\ job[i] = "open" => i \in exists
        /\ log[i].launch = lastLaunch[i] \/ lastLaunch[i] \in silent

\* How far a tripstats.txt s with the contents x was written.
Written(x, s) ==
    \/ x = Nothing /\ s = <<>>
    \/ /\ x.log.launch \in Launches
       /\ \/ x.tables = 0 /\ \E n \in 0..(NumStats + 1) : IsList(s, n)
          \/ x.tables = 1 /\ BrokenOff(x.log, s)
          \/ x.tables = 2 /\ FileOf(x.log, s)

FileInv ==
    /\ tripstats = [i \in Folders |-> tripstats[i]]
    /\ \A i \in Folders : Written(source[i], tripstats[i])

\* While the averages are taken every group has the values of the logs seen.
AveragesInv ==
    calc \in {"reading", "written"} =>
        \A g \in Routes \cup strategynames :
            averages[g] = {<<x.log.launch, g>> :
                             x \in {y \in seen : g \in y.log.routes \cup y.log.strategies}}

\* average.txt is absent or as write_average_stats leaves it, and what is
\* plotted was read from it.
AverageInv ==
    /\ AverageOK(average)
    /\ calc = "compared" => result = read_average_stats(average)

TripInv == TypeOK /\ LogInv /\ FileInv /\ AveragesInv /\ FailuresExplained /\ AverageInv

\* The fields of a log and of the contents of a file.
LEMMA LogFields ==
    /\ NoFile \in Logs /\ NoFile.launch = 0
    /\ Nothing \in Sources /\ Nothing.tables = 0
    /\ \A f \in Logs : /\ f.launch \in 0..MaxLaunches /\ f.routes \subseteq Routes
                       /\ f.strategies \subseteq Strategies
    /\ \A x \in Sources : x.log \in Logs
<1>1. NoFile.launch = 0
  BY DEF NoFile
<1>2. NoFile \in Logs
  <2>1. 0 \in 0..MaxLaunches
    BY TripAssumption
  <2> QED  BY <2>1 DEF NoFile, Logs
<1>3. Nothing \in Sources /\ Nothing.tables = 0
  <2>1. 0 \in 0..2
    OBVIOUS
  <2> QED  BY <1>2, <2>1 DEF Nothing, Sources
<1>4. \A f \in Logs : /\ f.launch \in 0..MaxLaunches /\ f.routes \subseteq Routes
                      /\ f.strategies \subseteq Strategies
  BY DEF Logs
<1>5. \A x \in Sources : x.log \in Logs
  BY DEF Sources
<1> QED  BY <1>1, <1>2, <1>3, <1>4, <1>5

\* The contents of a file.
LEMMA NewSource ==
    ASSUME NEW f \in Logs, NEW n \in 0..2
    PROVE  LET x == [log |-> f, tables |-> n]
           IN x \in Sources /\ x.log = f /\ x.tables = n
BY DEF Sources

\* The log of a launch.
LEMMA NewLog ==
    ASSUME NEW l \in 0..MaxLaunches, NEW rts \in SUBSET Routes, NEW strs \in SUBSET Strategies,
           NEW ones \in SUBSET (Routes \cup Strategies)
    PROVE  LET f == [launch |-> l, header |-> FALSE, routes |-> rts, strategies |-> strs,
                     single |-> ones]
           IN f \in Logs /\ f.launch = l
BY DEF Logs

\* A header changes nothing else.
LEMMA Headed ==
    ASSUME NEW f \in Logs
    PROVE  LET g == [f EXCEPT !.header = TRUE]
           IN g \in Logs /\ g.launch = f.launch
BY Zenon DEF Logs

\* A log without its routes, and perhaps without its strategies.
LEMMA CutLog ==
    ASSUME NEW f \in Logs, NEW str \in SUBSET Strategies
    PROVE  LET g == [f EXCEPT !.strategies = str, !.routes = {}]
           IN g \in Logs /\ g.launch = f.launch
BY Zenon DEF Logs

LEMMA CutRoutes ==
    ASSUME NEW f \in Logs
    PROVE  LET g == [f EXCEPT !.routes = {}]
           IN g \in Logs /\ g.launch = f.launch
BY Zenon DEF Logs

\* The jobs do not touch the averages, nor the averages the jobs.
LEMMA JobsKeep ==
    ASSUME AveragesInv, FailuresExplained, AverageInv, UNCHANGED_calc
    PROVE  AveragesInv' /\ FailuresExplained' /\ AverageInv'
BY DEF UNCHANGED_calc, AveragesInv, FailuresExplained, AverageInv

LEMMA AveragesKeep ==
    ASSUME LogInv, FileInv, UNCHANGED_jobs
    PROVE  LogInv' /\ FileInv'
BY DEF UNCHANGED_jobs, LogInv, FileInv

\* A launch, reported or not.
LEMMA LaunchKeeps ==
    ASSUME TripInv, NEW i \in Folders, NEW a \in Arrivals, Launch(i, a[1], a[2], a[3])
    PROVE  TripInv'
<1> DEFINE new == [launch |-> launches', header |-> FALSE, routes |-> a[1], strategies |-> a[2],
                   single |-> a[3]]
<1> USE DEF TripInv
<1>1. /\ a[1] \in SUBSET Routes /\ a[2] \in SUBSET Strategies
      /\ a[3] \in SUBSET (Routes \cup Strategies)
  BY TripAssumption
<1>2. /\ job[i] = "idle" /\ launches < MaxLaunches /\ launches' = launches + 1
      /\ lastLaunch' = [lastLaunch EXCEPT ![i] = launches']
      /\ log' = IF a[1] = {} THEN log ELSE [log EXCEPT ![i] = new]
      /\ silent' = IF a[1] = {} THEN silent \cup {launches'} ELSE silent
      /\ job' = [job EXCEPT ![i] = "ran"]
      /\ UNCHANGED <<tripstats, source, exists>> /\ UNCHANGED_calc
  BY DEF Launch
<1>3. launches' \in Launches /\ launches' \in 0..MaxLaunches
  BY <1>2, TripAssumption DEF TypeOK, Launches
<1>4. new \in Logs /\ new.launch = launches'
  BY <1>1, <1>3, NewLog
<1> HIDE DEF new
<1>5. TypeOK'
  <2>1. log' \in [Folders -> Logs]
    BY <1>2, <1>4 DEF TypeOK
  <2>2. silent' \subseteq Launches
    BY <1>2, <1>3 DEF TypeOK
  <2>3. lastLaunch' \in [Folders -> 0..MaxLaunches]
    BY <1>2, <1>3 DEF TypeOK
  <2>4. job' \in [Folders -> {"idle", "ran", "headed", "open"}]
    BY <1>2 DEF TypeOK
  <2>5. \A j \in Folders : j \notin exists' \/ job'[j] = "open" => tripstats'[j] = <<>>
    BY <1>2 DEF TypeOK
  <2> QED  BY <1>2, <1>3, <2>1, <2>2, <2>3, <2>4, <2>5 DEF TypeOK, UNCHANGED_calc
<1>6. LogInv'
  <2>1. ASSUME NEW j \in Folders
        PROVE  /\ log'[j] = NoFile \/ log'[j].launch \in Launches
               /\ job'[j] \in {"headed", "open"} => log'[j] # NoFile
               /\ job'[j] = "open" => j \in exists'
               /\ log'[j].launch = lastLaunch'[j] \/ lastLaunch'[j] \in silent'
    <3>1. CASE j # i
      <4>1. log'[j] = log[j] /\ job'[j] = job[j] /\ lastLaunch'[j] = lastLaunch[j]
            /\ silent \subseteq silent' /\ exists' = exists
        BY <1>2, <3>1 DEF TypeOK
      <4> QED  BY <4>1 DEF LogInv
    <3>2. CASE j = i
      <4>1. job'[j] = "ran" /\ lastLaunch'[j] = launches'
        BY <1>2, <3>2 DEF TypeOK
      <4>2. CASE a[1] = {}
        BY <1>2, <4>1, <4>2 DEF LogInv
      <4>3. CASE a[1] # {}
        <5>1. log'[j] = new
          BY <1>2, <3>2, <4>3 DEF TypeOK
        <5> QED  BY <1>3, <1>4, <4>1, <5>1
      <4> QED  BY <4>2, <4>3
    <3> QED  BY <3>1, <3>2
  <2> QED  BY <2>1 DEF LogInv
<1>7. FileInv'
  BY <1>2 DEF FileInv
<1> QED  BY <1>2, <1>5, <1>6, <1>7, JobsKeep

\* runovnis.py between two launches: the header and tripstats.txt.
LEMMA AddHeaderKeeps ==
    ASSUME TripInv, NEW i \in Folders, AddHeader(i)
    PROVE  TripInv'
<1> USE DEF TripInv
<1> DEFINE new == [log[i] EXCEPT !.header = TRUE]
<1>1. /\ job[i] = "ran" /\ UNCHANGED <<launches, lastLaunch, silent, tripstats, source, exists>>
      /\ UNCHANGED_calc
      /\ \/ job' = [job EXCEPT ![i] = "idle"] /\ log' = log
         \/ /\ log[i] # NoFile /\ job' = [job EXCEPT ![i] = "headed"]
            /\ log' = [log EXCEPT ![i] = new]
  BY DEF AddHeader
<1>2. log[i] \in Logs
  BY DEF TypeOK
<1>3. new \in Logs /\ new.launch = log[i].launch
  BY <1>2, Headed
<1> HIDE DEF new
<1>4. TypeOK'
  <2>1. log' \in [Folders -> Logs]
    BY <1>1, <1>3 DEF TypeOK
  <2>2. job' \in [Folders -> {"idle", "ran", "headed", "open"}]
    BY <1>1 DEF TypeOK
  <2>3. \A j \in Folders : j \notin exists' \/ job'[j] = "open" => tripstats'[j] = <<>>
    BY <1>1 DEF TypeOK
  <2> QED  BY <1>1, <2>1, <2>2, <2>3 DEF TypeOK, UNCHANGED_calc
<1>5. ASSUME NEW j \in Folders
      PROVE  /\ log'[j] = NoFile \/ log'[j].launch \in Launches
             /\ job'[j] \in {"headed", "open"} => log'[j] # NoFile
             /\ job'[j] = "open" => j \in exists'
             /\ log'[j].launch = lastLaunch'[j] \/ lastLaunch'[j] \in silent'
  <2>1. CASE log' = log /\ (j # i \/ job'[j] = "idle")
    <3>1. job'[j] = job[j] \/ job'[j] = "idle"
      BY <1>1, <2>1 DEF TypeOK
    <3> QED  BY <1>1, <2>1, <3>1 DEF LogInv
  <2>2. CASE j # i /\ log'[j] = log[j] /\ job'[j] = job[j]
    BY <1>1, <2>2 DEF LogInv
  <2>3. CASE j = i /\ log[i] # NoFile /\ log'[j] = new
    <3>1. log[j].launch \in Launches
      BY <2>3 DEF LogInv
    <3>2. 0 \notin Launches
      BY DEF Launches
    <3>3. log'[j] # NoFile
      BY <1>3, <2>3, <3>1, <3>2, LogFields
    <3>4. job'[j] # "open"
      <4>1. job' = [job EXCEPT ![i] = "idle"] \/ job' = [job EXCEPT ![i] = "headed"]
        BY <1>1
      <4> QED  BY <2>3, <4>1 DEF TypeOK
    <3> QED  BY <1>1, <1>3, <2>3, <3>1, <3>3, <3>4 DEF LogInv
  <2> QED  BY <1>1, <2>1, <2>2, <2>3 DEF TypeOK
<1>6. LogInv'
  BY <1>5 DEF LogInv
<1>7. FileInv'
  BY <1>1 DEF FileInv
<1> QED  BY <1>1, <1>4, <1>6, <1>7, JobsKeep

LEMMA OpenTripstatsKeeps ==
    ASSUME TripInv, NEW i \in Folders, OpenTripstats(i)
    PROVE  TripInv'
<1> USE DEF TripInv
<1>1. /\ job[i] = "headed" /\ job' = [job EXCEPT ![i] = "open"]
      /\ tripstats' = [tripstats EXCEPT ![i] = <<>>]
      /\ source' = [source EXCEPT ![i] = Nothing]
      /\ exists' = exists \cup {i}
      /\ UNCHANGED <<launches, lastLaunch, silent, log>> /\ UNCHANGED_calc
  BY DEF OpenTripstats
<1>2. tripstats'[i] = <<>> /\ \A j \in Folders : j # i => tripstats'[j] = tripstats[j]
  BY <1>1 DEF FileInv
<1>3. \A j \in Folders : job'[j] = IF j = i THEN "open" ELSE job[j]
  BY <1>1 DEF TypeOK
<1>4. TypeOK'
  <2>1. \A j \in Folders : j \notin exists' \/ job'[j] = "open" => tripstats'[j] = <<>>
    BY <1>1, <1>2, <1>3 DEF TypeOK
  <2>2. source' \in [Folders -> Sources]
    BY <1>1, LogFields DEF TypeOK
  <2>3. job' \in [Folders -> {"idle", "ran", "headed", "open"}]
    BY <1>1 DEF TypeOK
  <2> QED  BY <1>1, <2>1, <2>2, <2>3 DEF TypeOK, UNCHANGED_calc
<1>5. LogInv'
  <2>1. \A j \in Folders : job'[j] \in {"headed", "open"} => job[j] \in {"headed", "open"}
    BY <1>1, <1>3
  <2>2. \A j \in Folders : job'[j] = "open" => j \in exists'
    BY <1>1, <1>3 DEF LogInv
  <2> QED  BY <1>1, <2>1, <2>2 DEF LogInv
<1>6. FileInv'
  <2>1. ASSUME NEW j \in Folders PROVE Written(source'[j], tripstats'[j])
    <3>1. CASE j # i
      <4>1. source'[j] = source[j] /\ tripstats'[j] = tripstats[j]
        BY <1>1, <1>2, <3>1 DEF TypeOK
      <4> QED  BY <4>1 DEF FileInv
    <3>2. CASE j = i
      <4>1. source'[j] = Nothing /\ tripstats'[j] = <<>>
        BY <1>1, <1>2, <3>2 DEF TypeOK
      <4> QED  BY <4>1 DEF Written
    <3> QED  BY <3>1, <3>2
  <2>2. tripstats' = [j \in Folders |-> tripstats'[j]]
    BY <1>1 DEF FileInv
  <2>3. \A j \in Folders : Written(source[j], tripstats[j])'
    BY <2>1 DEF Written, IsList, BrokenOff, FileOf
  <2> QED  BY <2>2, <2>3 DEF FileInv
<1> QED  BY <1>1, <1>4, <1>5, <1>6, JobsKeep

\* What write_group_stats leaves, at its end or broken off.
LEMMA WritingKeeps ==
    ASSUME TripInv, NEW i \in Folders, job[i] = "open", NEW x \in Sources, NEW s, Written(x, s),
           job' = [job EXCEPT ![i] = "idle"],
           tripstats' = [tripstats EXCEPT ![i] = s], source' = [source EXCEPT ![i] = x],
           UNCHANGED <<launches, lastLaunch, silent, log, exists>>, UNCHANGED_calc
    PROVE  TripInv'
<1> USE DEF TripInv
<1>1. tripstats'[i] = s /\ \A j \in Folders : j # i => tripstats'[j] = tripstats[j]
  BY DEF FileInv
<1>2. \A j \in Folders : job'[j] = IF j = i THEN "idle" ELSE job[j]
  BY DEF TypeOK
<1>3. TypeOK'
  <2>1. i \in exists
    BY DEF LogInv
  <2>2. \A j \in Folders : j \notin exists' \/ job'[j] = "open" => tripstats'[j] = <<>>
    BY <1>1, <1>2, <2>1 DEF TypeOK
  <2>3. source' \in [Folders -> Sources]
    BY DEF TypeOK
  <2>4. job' \in [Folders -> {"idle", "ran", "headed", "open"}]
    BY DEF TypeOK
  <2> QED  BY <2>2, <2>3, <2>4 DEF TypeOK, UNCHANGED_calc
<1>4. LogInv'
  <2>1. \A j \in Folders : job'[j] \in {"headed", "open"} => job[j] = job'[j]
    BY <1>2
  <2> QED  BY <2>1 DEF LogInv
<1>5. FileInv'
  <2>1. ASSUME NEW j \in Folders PROVE Written(source'[j], tripstats'[j])
    <3>1. CASE j # i
      <4>1. source'[j] = source[j] /\ tripstats'[j] = tripstats[j]
        BY <1>1, <3>1 DEF TypeOK
      <4> QED  BY <4>1 DEF FileInv
    <3>2. CASE j = i
      <4>1. source'[j] = x /\ tripstats'[j] = s
        BY <1>1, <3>2 DEF TypeOK
      <4> QED  BY <4>1
    <3> QED  BY <3>1, <3>2
  <2>2. tripstats' = [j \in Folders |-> tripstats'[j]]
    BY DEF FileInv
  <2> QED  BY <2>1, <2>2 DEF FileInv
<1> QED  BY <1>3, <1>4, <1>5, JobsKeep

LEMMA WriteTripstatsKeeps ==
    ASSUME TripInv, NEW i \in Folders, WriteTripstats(i)
    PROVE  TripInv'
<1> DEFINE x == [log |-> log[i], tables |-> 2]
           s == write_group_stats(log[i])
<1>1. /\ job[i] = "open" /\ job' = [job EXCEPT ![i] = "idle"]
      /\ tripstats' = [tripstats EXCEPT ![i] = s] /\ source' = [source EXCEPT ![i] = x]
      /\ UNCHANGED <<launches, lastLaunch, silent, log, exists>> /\ UNCHANGED_calc
  BY DEF WriteTripstats
<1>2. log[i] \in Logs /\ log[i].launch \in Launches
  BY <1>1 DEF TripInv, TypeOK, LogInv
<1>3. FileOf(log[i], s)
  BY <1>2, WrittenFile
<1>4. x \in Sources /\ x.log = log[i] /\ x.tables = 2
  <2>1. 2 \in 0..2
    OBVIOUS
  <2> QED  BY <1>2, <2>1, NewSource
<1> HIDE DEF x, s
<1>5. Written(x, s)
  BY <1>2, <1>3, <1>4 DEF Written
<1> QED  BY <1>1, <1>4, <1>5, WritingKeeps

\* The first lines of a file are a list.
LEMMA FirstLines ==
    ASSUME NEW f, NEW n \in 0..(NumStats + 1)
    PROVE  IsList(SubSeq(Totals(f), 1, n), n)
<1> DEFINE a == Totals(f)
           m == 1 + NumStats
           S == {a[k] : k \in 1..m}
<1>1. IsList(a, m)
  BY TotalsLines
<1>2. m \in Nat /\ n \in Nat /\ n <= m
  BY TripAssumption
<1> HIDE DEF a, m
<1>3. a \in Seq(S) /\ Len(a) = m
  <2>1. \A k \in 1..m : a[k] \in S
    OBVIOUS
  <2> HIDE DEF S
  <2> QED  BY <1>1, <2>1, ListIsSeq DEF IsList
<1>4. /\ SubSeq(a, 1, n) \in Seq(S) /\ Len(SubSeq(a, 1, n)) = n
  <2>1. \A k \in 1..n : a[k] \in S
    BY <1>2
  <2>2. n \in 0..Len(a)
    BY <1>2, <1>3
  <2> HIDE DEF S
  <2> QED  BY <1>2, <1>3, <2>1, <2>2, SubSeqProperties
<1> HIDE DEF S
<1>5. SubSeq(a, 1, n) \in [1..n -> S]
  BY <1>4, LenProperties
<1> QED  BY <1>2, <1>4, <1>5 DEF IsList, a

LEMMA BreaksOffKeeps ==
    ASSUME TripInv, NEW i \in Folders, BreaksOff(i)
    PROVE  TripInv'
<1>1. /\ job[i] = "open" /\ job' = [job EXCEPT ![i] = "idle"]
      /\ UNCHANGED <<launches, lastLaunch, silent, log, exists>> /\ UNCHANGED_calc
  BY DEF BreaksOff
<1>2. log[i] \in Logs /\ log[i].launch \in Launches
  BY <1>1 DEF TripInv, TypeOK, LogInv
<1>3. 0 \in 0..2 /\ 1 \in 0..2 /\ 2 \in 0..2
  OBVIOUS
<1>4. ASSUME NEW n \in 0..(NumStats + 1),
             tripstats' = [tripstats EXCEPT ![i] = SubSeq(Totals(log[i]), 1, n)],
             source' = [source EXCEPT ![i] = [log |-> log[i], tables |-> 0]]
      PROVE  TripInv'
  <2> DEFINE x == [log |-> log[i], tables |-> 0]
             s == SubSeq(Totals(log[i]), 1, n)
  <2>1. IsList(s, n)
    BY FirstLines
  <2>2. x \in Sources /\ x.log = log[i] /\ x.tables = 0
    BY <1>2, <1>3, NewSource
  <2>3. tripstats' = [tripstats EXCEPT ![i] = s] /\ source' = [source EXCEPT ![i] = x]
    BY <1>4
  <2> HIDE DEF x, s
  <2>4. Written(x, s)
    BY <1>2, <2>1, <2>2 DEF Written
  <2> QED  BY <1>1, <2>2, <2>3, <2>4, WritingKeeps
<1>5. ASSUME NEW str \in {{}, log[i].strategies},
             tripstats' = [tripstats EXCEPT ![i] =
                             WithStrategies([log[i] EXCEPT !.strategies = str, !.routes = {}])],
             source' = [source EXCEPT ![i] =
                          [log |-> [log[i] EXCEPT !.strategies = str, !.routes = {}], tables |-> 1]]
      PROVE  TripInv'
  <2> DEFINE f == [log[i] EXCEPT !.strategies = str, !.routes = {}]
             x == [log |-> f, tables |-> 1]
             s == WithStrategies(f)
  <2>1. f \in Logs /\ f.launch \in Launches
    <3>1. str \in SUBSET Strategies
      BY <1>2, LogFields
    <3> QED  BY <1>2, <3>1, CutLog
  <2>2. tripstats' = [tripstats EXCEPT ![i] = s] /\ source' = [source EXCEPT ![i] = x]
    BY <1>5
  <2> HIDE DEF f
  <2>3. BrokenOff(f, s)
    BY <2>1, StrategiesWritten
  <2>4. x \in Sources /\ x.log = f /\ x.tables = 1
    BY <1>3, <2>1, NewSource
  <2> HIDE DEF x, s
  <2>5. Written(x, s)
    BY <2>1, <2>3, <2>4 DEF Written
  <2> QED  BY <1>1, <2>2, <2>4, <2>5, WritingKeeps
<1>6. ASSUME tripstats' = [tripstats EXCEPT ![i] = write_group_stats([log[i] EXCEPT !.routes = {}])],
             source' = [source EXCEPT ![i] = [log |-> [log[i] EXCEPT !.routes = {}], tables |-> 2]]
      PROVE  TripInv'
  <2> DEFINE f == [log[i] EXCEPT !.routes = {}]
             x == [log |-> f, tables |-> 2]
             s == write_group_stats(f)
  <2>1. f \in Logs /\ f.launch \in Launches
    BY <1>2, CutRoutes
  <2>2. tripstats' = [tripstats EXCEPT ![i] = s] /\ source' = [source EXCEPT ![i] = x]
    BY <1>6
  <2> HIDE DEF f
  <2>3. FileOf(f, s)
    BY <2>1, WrittenFile
  <2>4. x \in Sources /\ x.log = f /\ x.tables = 2
    BY <1>3, <2>1, NewSource
  <2> HIDE DEF x, s
  <2>5. Written(x, s)
    BY <2>1, <2>3, <2>4 DEF Written
  <2> QED  BY <1>1, <2>2, <2>4, <2>5, WritingKeeps
<1> QED  BY <1>4, <1>5, <1>6 DEF BreaksOff

\* runovnis.py that goes to the analysis at once.
LEMMA OnlyAnalysisKeeps ==
    ASSUME TripInv, NEW i \in Folders, OnlyAnalysis(i)
    PROVE  TripInv'
<1> USE DEF TripInv
<1>1. /\ job' = [job EXCEPT ![i] = "ran"]
      /\ UNCHANGED <<launches, lastLaunch, silent, log, tripstats, source, exists>>
      /\ UNCHANGED_calc
  BY DEF OnlyAnalysis
<1>2. \A j \in Folders : job'[j] = IF j = i THEN "ran" ELSE job[j]
  BY <1>1 DEF TypeOK
<1>3. TypeOK'
  <2>1. \A j \in Folders : j \notin exists' \/ job'[j] = "open" => tripstats'[j] = <<>>
    BY <1>1, <1>2 DEF TypeOK
  <2>2. job' \in [Folders -> {"idle", "ran", "headed", "open"}]
    BY <1>1 DEF TypeOK
  <2> QED  BY <1>1, <2>1, <2>2 DEF TypeOK, UNCHANGED_calc
<1>4. LogInv'
  <2>1. \A j \in Folders : job'[j] \in {"headed", "open"} => job[j] = job'[j]
    BY <1>2
  <2> QED  BY <1>1, <2>1 DEF LogInv
<1>5. FileInv'
  BY <1>1 DEF FileInv
<1> QED  BY <1>1, <1>3, <1>4, <1>5, JobsKeep

LEMMA StartKeeps ==
    ASSUME TripInv, StartAverages
    PROVE  TripInv'
<1> USE DEF TripInv
<1>1. /\ calc' = "reading" /\ todo' = Folders /\ seen' = {} /\ averages' = [g \in Groups |-> {}]
      /\ average' = average /\ result' = [g \in Routes |-> {}] /\ UNCHANGED_jobs
  BY DEF StartAverages
<1>2. TypeOK'
  BY <1>1 DEF TypeOK, UNCHANGED_jobs
<1>3. AveragesInv'
  <2>1. \A g \in Routes \cup strategynames : g \in Groups
    BY TripAssumption DEF Groups
  <2> QED  BY <1>1, <2>1 DEF AveragesInv
<1>4. FailuresExplained' /\ AverageInv'
  BY <1>1 DEF FailuresExplained, AverageInv
<1> QED  BY <1>1, <1>2, <1>3, <1>4, AveragesKeep

\* An empty tripstats.txt is an IndexError.
LEMMA EmptyFileRead ==
    read_stats(<<>>).error = "IndexError"
<1>1. Len(<<>>) < NumStats + 1
  BY TripAssumption
<1> QED  BY <1>1 DEF read_stats

\* What reading a tripstats.txt comes to, however far it was written.
LEMMA WrittenRead ==
    ASSUME NEW x \in Sources, NEW s, Written(x, s)
    PROVE  ReadAs(read_stats(s), x)
<1>1. x.log \in Logs
  BY LogFields
<1>2. CASE x = Nothing /\ s = <<>>
  <2>1. read_stats(s).error = "IndexError" /\ x.tables = 0
    BY <1>2, EmptyFileRead, LogFields
  <2> QED  BY <2>1 DEF ReadAs, Errors
<1>3. ASSUME x.tables = 0, NEW n \in 0..(NumStats + 1), IsList(s, n)
      PROVE  ReadAs(read_stats(s), x)
  <2>1. read_stats(s).error \in {"IndexError", "loops"}
    BY <1>3, ShortFileRead
  <2>2. x.tables = 0 /\ x.tables < 2
    BY <1>3
  <2> QED  BY <2>1, <2>2 DEF ReadAs, Errors
<1>4. CASE x.tables = 1 /\ BrokenOff(x.log, s)
  BY <1>1, <1>4, BrokenOffRead
<1>5. CASE x.log.launch \in Launches /\ x.tables = 2 /\ FileOf(x.log, s)
  BY <1>1, <1>5, FileRead
<1> QED  BY <1>2, <1>3, <1>4, <1>5 DEF Written

LEMMA ReadFolderKeeps ==
    ASSUME TripInv, NEW i \in Folders, ReadFolder(i)
    PROVE  TripInv'
<1> USE DEF TripInv
<1> DEFINE x == source[i]
           r == read_stats(tripstats[i])
           own(g, files) == {<<y.log.launch, g>> :
                               y \in {z \in files : g \in z.log.routes \cup z.log.strategies}}
<1>1. /\ calc = "reading" /\ i \in todo /\ todo' = todo \ {i}
      /\ average' = average /\ result' = result /\ UNCHANGED_jobs
      /\ \/ calc' = calc /\ seen' = seen /\ averages' = averages
         \/ /\ seen' = seen \cup {x}
            /\ IF r.error = "none"
               THEN averages' = [g \in Groups |-> averages[g] \cup r.added[g]] /\ calc' = calc
               ELSE calc' = r.error /\ averages' = [g \in Groups |-> {}]
  BY DEF ReadFolder
<1>2. x \in Sources
  BY DEF TypeOK
<1>3. ReadAs(r, x)
  <2>1. Written(source[i], tripstats[i])
    BY DEF FileInv
  <2> QED  BY <1>2, <2>1, WrittenRead
<1> HIDE DEF r, x
<1>4. CASE calc' = calc /\ seen' = seen /\ averages' = averages
  <2>1. TypeOK'
    BY <1>1, <1>4 DEF TypeOK, UNCHANGED_jobs
  <2>2. AveragesInv' /\ FailuresExplained' /\ AverageInv'
    BY <1>1, <1>4 DEF AveragesInv, FailuresExplained, AverageInv
  <2> QED  BY <1>1, <2>1, <2>2, AveragesKeep
<1>5. ASSUME seen' = seen \cup {x},
             IF r.error = "none"
             THEN averages' = [g \in Groups |-> averages[g] \cup r.added[g]] /\ calc' = calc
             ELSE calc' = r.error /\ averages' = [g \in Groups |-> {}]
      PROVE  TripInv'
  <2>1. TypeOK'
    <3>1. calc' \in {"idle", "reading", "written", "compared"} \cup Errors
      BY <1>1, <1>3, <1>5 DEF ReadAs
    <3>2. averages' \in [Groups -> SUBSET Tokens]
      <4>1. CASE r.error = "none"
        <5>1. r.added \in [Groups -> SUBSET Tokens]
          BY <1>3, <4>1 DEF ReadAs
        <5>2. \A g \in Groups : averages[g] \cup r.added[g] \in SUBSET Tokens
          BY <5>1 DEF TypeOK
        <5> QED  BY <1>5, <4>1, <5>2
      <4>2. CASE r.error # "none"
        BY <1>5, <4>2
      <4> QED  BY <4>1, <4>2
    <3> QED  BY <1>1, <1>2, <1>5, <3>1, <3>2 DEF TypeOK, UNCHANGED_jobs
  <2>2. AveragesInv'
    <3>1. SUFFICES ASSUME calc' \in {"reading", "written"}, NEW g \in Routes \cup strategynames
                   PROVE  averages'[g] = own(g, seen')
      BY DEF AveragesInv
    <3>2. r.error = "none"
      BY <1>3, <1>5, <3>1 DEF ReadAs, Errors
    <3>3. g \in Groups
      BY TripAssumption DEF Groups
    <3>4. averages[g] = own(g, seen)
      BY <1>1 DEF AveragesInv
    <3>5. r.added[g] = own(g, {x})
      BY <1>3, <3>2 DEF ReadAs
    <3>6. own(g, seen \cup {x}) = own(g, seen) \cup own(g, {x})
      OBVIOUS
    <3> HIDE DEF own
    <3>7. averages'[g] = averages[g] \cup r.added[g]
      BY <1>5, <3>2, <3>3
    <3> QED  BY <1>5, <3>4, <3>5, <3>6, <3>7
  <2>3. FailuresExplained'
    <3>1. x \in seen' /\ calc' = IF r.error = "none" THEN "reading" ELSE r.error
      BY <1>1, <1>5
    <3> QED  BY <1>3, <3>1 DEF FailuresExplained, ReadAs
  <2>4. AverageInv'
    <3>1. calc' # "compared"
      BY <1>1, <1>3, <1>5 DEF ReadAs, Errors
    <3> QED  BY <1>1, <3>1 DEF AverageInv
  <2> QED  BY <1>1, <2>1, <2>2, <2>3, <2>4, AveragesKeep
<1> QED  BY <1>1, <1>4, <1>5

LEMMA WriteAverageKeeps ==
    ASSUME TripInv, NEW ro \in SetToSeqs(Routes), NEW so \in SetToSeqs(strategynames),
           WriteAverage(ro, so)
    PROVE  TripInv'
<1> USE DEF TripInv
<1>1. /\ calc = "reading" /\ average' = write_average_stats(ro, so)
      /\ calc' = IF \E g \in Routes : averages[g] = {} THEN "ValueError" ELSE "written"
      /\ todo' = todo /\ seen' = seen /\ averages' = averages /\ result' = result
      /\ UNCHANGED_jobs
  BY DEF WriteAverage
<1>2. TypeOK'
  BY <1>1 DEF TypeOK, UNCHANGED_jobs, Errors
<1>3. AveragesInv'
  BY <1>1 DEF AveragesInv
<1>4. FailuresExplained'
  <2>1. ASSUME NEW g \in Routes, averages[g] = {} PROVE \A x \in seen : g \notin x.log.routes
    <3>1. averages[g] = {<<x.log.launch, g>> :
                           x \in {y \in seen : g \in y.log.routes \cup y.log.strategies}}
      BY <1>1 DEF AveragesInv
    <3> QED  BY <2>1, <3>1
  <2> QED  BY <1>1, <2>1 DEF FailuresExplained
<1>5. AverageInv'
  <2>1. AverageOK(write_average_stats(ro, so))
    BY AverageWritten DEF TypeOK
  <2>2. AverageOK(average')
    BY <1>1, <2>1
  <2> QED  BY <1>1, <2>2 DEF AverageInv
<1> QED  BY <1>1, <1>2, <1>3, <1>4, <1>5, AveragesKeep

LEMMA CompareKeeps ==
    ASSUME TripInv, Compare
    PROVE  TripInv'
<1> USE DEF TripInv
<1>1. /\ calc # "reading" /\ calc' = "compared" /\ result' = read_average_stats(average)
      /\ todo' = {} /\ seen' = {} /\ averages' = [g \in Groups |-> {}] /\ average' = average
      /\ UNCHANGED_jobs
  BY DEF Compare
<1>2. read_average_stats(average) \in [Routes -> SUBSET Tokens]
  BY AverageReadType DEF AverageInv
<1>3. TypeOK'
  BY <1>1, <1>2 DEF TypeOK, UNCHANGED_jobs
<1>4. AveragesInv' /\ FailuresExplained'
  BY <1>1 DEF AveragesInv, FailuresExplained
<1>5. AverageInv'
  BY <1>1 DEF AverageInv
<1> QED  BY <1>1, <1>3, <1>4, <1>5, AveragesKeep

LEMMA TripInit ==
    ASSUME Init
    PROVE  TripInv
<1>1. TypeOK
  <2>1. 0 \in 0..MaxLaunches
    BY TripAssumption
  <2> QED  BY <2>1, LogFields DEF Init, TypeOK
<1>2. LogInv
  BY LogFields DEF Init, LogInv
<1>3. FileInv
  <2>1. \A i \in Folders : Written(source[i], tripstats[i])
    BY DEF Init, Written
  <2> QED  BY <2>1 DEF Init, FileInv
<1>4. AveragesInv /\ FailuresExplained
  BY DEF Init, AveragesInv, FailuresExplained
<1>5. AverageInv
  <2>1. Len(<<>>) = 0 /\ <<>> = [i \in 1..0 |-> <<>>[i]]
    OBVIOUS
  <2>2. IsList(<<>>, 0)
    BY <2>1 DEF IsList
  <2>3. AverageOK(<<>>)
    BY <2>1, <2>2 DEF AverageOK
  <2> QED  BY <2>3 DEF Init, AverageInv
<1> QED  BY <1>1, <1>2, <1>3, <1>4, <1>5 DEF TripInv

LEMMA TripStep ==
    ASSUME TripInv, [Next]_vars
    PROVE  TripInv'
<1>1. ASSUME NEW i \in Folders, NEW a \in Arrivals, Launch(i, a[1], a[2], a[3]) PROVE TripInv'
  BY <1>1, LaunchKeeps
<1>2. ASSUME NEW i \in Folders, OnlyAnalysis(i) PROVE TripInv'
  BY <1>2, OnlyAnalysisKeeps
<1>3. ASSUME NEW i \in Folders, AddHeader(i) PROVE TripInv'
  BY <1>3, AddHeaderKeeps
<1>4. ASSUME NEW i \in Folders, OpenTripstats(i) PROVE TripInv'
  BY <1>4, OpenTripstatsKeeps
<1>5. ASSUME NEW i \in Folders, WriteTripstats(i) PROVE TripInv'
  BY <1>5, WriteTripstatsKeeps
<1>6. ASSUME NEW i \in Folders, ReadFolder(i) PROVE TripInv'
  BY <1>6, ReadFolderKeeps
<1>7. CASE StartAverages
  BY <1>7, StartKeeps
<1>8. ASSUME NEW ro \in SetToSeqs(Routes), NEW so \in SetToSeqs(strategynames), WriteAverage(ro, so)
      PROVE  TripInv'
  BY <1>8, WriteAverageKeeps
<1>9. CASE Compare
  BY <1>9, CompareKeeps
<1>10. ASSUME NEW i \in Folders, BreaksOff(i) PROVE TripInv'
  BY <1>10, BreaksOffKeeps
<1>11. CASE UNCHANGED vars
  BY <1>11 DEF vars, TripInv, TypeOK, LogInv, FileInv, AveragesInv, FailuresExplained, AverageInv
<1> QED  BY <1>1, <1>2, <1>3, <1>4, <1>5, <1>6, <1>7, <1>8, <1>9, <1>10, <1>11 DEF Next

LEMMA TripInvHolds == Spec => []TripInv
<1>1. Init => TripInv
  BY TripInit
<1>2. TripInv /\ [Next]_vars => TripInv'
  BY TripStep
<1> QED  BY <1>1, <1>2, PTL DEF Spec

-----------------------------------------------------------------------------
(* The properties *)

\* Whatever runovnis.py and analyse.py do, their files and their averages
\* keep their types.
THEOREM TypeCorrect == Spec => []TypeOK
<1>1. TripInv => TypeOK
  BY DEF TripInv
<1> QED  BY <1>1, TripInvHolds, PTL

\* A tripstats.txt is about the launch just made in its folder, unless that
\* launch reported no arrival and so left an older log in place.
THEOREM FreshUnlessSilentHolds == Spec => []FreshUnlessSilent
<1>1. TripInv => FreshUnlessSilent
  BY DEF TripInv, LogInv, FreshUnlessSilent
<1> QED  BY <1>1, TripInvHolds, PTL

\* Whichever groups occur in a log, read_stats finds the rows of the two
\* tables that write_group_stats wrote and averages each group over its own.
THEOREM OwnGroupAveragesHolds == Spec => []OwnGroupAverages
<1>1. TripInv => OwnGroupAverages
  BY DEF TripInv, AveragesInv, OwnGroupAverages
<1> QED  BY <1>1, TripInvHolds, PTL

\* process_average_calculation fails only for a tripstats.txt still empty or
\* broken off, an unknown strategy, a route nobody took or a group of one
\* vehicle; its search for the routes comes to an end in every file that has
\* their table.
THEOREM FailuresExplainedHolds == Spec => []FailuresExplained
<1>1. TripInv => FailuresExplained
  BY DEF TripInv
<1> QED  BY <1>1, TripInvHolds, PTL

\* In whatever order the dictionaries come, process_compare_dirs plots for
\* every route but the last one in average.txt the averages of that route.
THEOREM OnlyLastRouteMixedHolds == Spec => []OnlyLastRouteMixed
<1>1. ASSUME TripInv, calc = "compared", NEW k \in 1..(Len(average) - 1)
      PROVE  \/ average[k].kind # "name" \/ average[k].name \notin Routes
             \/ result[average[k].name] = average[k + 1].val
             \/ \A m \in (k + 1)..Len(average) : average[m].name \notin Routes
                                              \/ average[m].name = average[k].name
  <2>1. SUFFICES ASSUME RouteName(average, k),
                        \E m \in (k + 1)..Len(average) : /\ average[m].name \in Routes
                                                         /\ average[m].name # average[k].name
                 PROVE  result[average[k].name] = average[k + 1].val
    BY DEF RouteName
  <2>2. AverageOK(average) /\ result = read_average_stats(average)
    BY <1>1 DEF TripInv, AverageInv
  <2>3. k \in 1..Len(average)
    BY <2>2 DEF AverageOK, IsList
  <2>4. read_average_stats(average)[average[k].name] = average[k + 1].val
    BY <2>1, <2>2, <2>3, AverageRead
  <2> QED  BY <2>2, <2>4
<1>2. TripInv => OnlyLastRouteMixed
  BY <1>1 DEF OnlyLastRouteMixed
<1> QED  BY <1>2, TripInvHolds, PTL

=============================================================================
