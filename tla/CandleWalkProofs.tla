-------------------------- MODULE CandleWalkProofs --------------------------
(***************************************************************************)
(* The walk of CandleWalk, for every calendar, every set of sheets, any    *)
(* number of contracts, workers, jobs and failures, and every width of a   *)
(* request: what is recorded is what is stored, no day is asked for twice  *)
(* by one job nor outside its sheet, a plan asks for what is missing and   *)
(* a settled walk leaves nothing out.                                      *)
(*                                                                         *)
(* WalkInv, the invariant, says why.  Every row lies on the grid its       *)
(* job's sheet is cut into: the n-th window back from the sheet's right    *)
(* edge, as wide as a request may be, the oldest one cut at the left edge  *)
(* (OnGrid).  The planner cuts that grid, and the walk, which goes on from *)
(* the left edge of the chunk it holds and takes its width from it, never  *)
(* leaves it: a chunk that was cut is the oldest, so there is nothing to   *)
(* take a narrower width on for.  Two windows at different distances are   *)
(* apart, and no job has two rows at the same distance (Tables).           *)
(*                                                                         *)
(* HoldInv, the second one, says what a walk knows when it is settled.  A  *)
(* row is planned when every day after it is held (Newer).  A row that has *)
(* ended well has its own days held (Own), and of the days before it the   *)
(* life is held, or an older row of the walk answers for them, or a lost   *)
(* planning step is to blame (Older).  A row that was skipped lies before  *)
(* the birth (Unborn).  The oldest row of a settled walk has no older one  *)
(* to refer to, so the whole life on the sheet is held.  That the gaps of  *)
(* the ledger are the days no row covers is induction over the sequence    *)
(* of windows that MergeRanges folds: SetsBySteps does it with a set of    *)
(* good sets in the place of a predicate.                                  *)
(***************************************************************************)
EXTENDS CandleWalk, FiniteSetTheorems, SequenceTheorems, WellFoundedInduction, TLAPS

Hypotheses == WalkAssumption /\ IsFiniteSet(Contracts) /\ IsFiniteSet(Resolutions)

\* The left edge of what a job asks of a series.
Left(c, s) ==
  IF c = Spot THEN Max({IF s.from = NoDay THEN LastDay ELSE s.from, DataFrom, ExchangeFloor})
  ELSE WalkFloor(s)

\* The n-th window back from hi, cut at lo.
IsPiece(x, lo, hi, n) ==
  /\ x.to = hi - n * ChunkDays /\ lo <= x.to
  /\ x.from = IF lo <= x.to + 1 - ChunkDays THEN x.to + 1 - ChunkDays ELSE lo
OnGrid(x, s) == \E n \in Nat : IsPiece(x, Left(x.c, s), WindowEnd(s), n)

\* The larger of two numbers.
LEMMA MaxOfTwo ==
  ASSUME NEW a \in Int, NEW b \in Int
  PROVE  Max({a, b}) = IF a >= b THEN a ELSE b
<1> DEFINE m == IF a >= b THEN a ELSE b
<1>1. m \in {a, b} /\ \A y \in {a, b} : m >= y
  OBVIOUS
<1>2. \A x \in {a, b} : (\A y \in {a, b} : x >= y) => x = m
  OBVIOUS
<1> QED
  BY <1>1, <1>2 DEF Max

\* The largest of three is one of them and at least each.
LEMMA MaxOfThree ==
  ASSUME NEW a \in Int, NEW b \in Int, NEW c \in Int
  PROVE  /\ Max({a, b, c}) \in {a, b, c}
         /\ Max({a, b, c}) >= a /\ Max({a, b, c}) >= b /\ Max({a, b, c}) >= c
<1>1. \E x \in {a, b, c} : \A y \in {a, b, c} : x >= y
  <2>1. CASE a >= b /\ a >= c
    BY <2>1
  <2>2. CASE b >= a /\ b >= c
    BY <2>2
  <2>3. CASE c >= a /\ c >= b
    BY <2>3
  <2> QED
    BY <2>1, <2>2, <2>3
<1> QED
  BY <1>1 DEF Max

\* The clamps on a life leave a day.
LEMMA LifeFloorFacts ==
  ASSUME WalkAssumption
  PROVE  LifeFloor \in Days
<1>1. LastDay \in Nat /\ ExchangeFloor \in Days /\ DataFrom \in Days /\ LifeDays \in 0 .. LastDay - 1
  BY DEF WalkAssumption
<1>2. ExchangeFloor \in Int /\ DataFrom \in Int /\ LastDay - LifeDays \in Days
  BY <1>1 DEF Days
<1>3. LastDay - LifeDays \in Int
  BY <1>2 DEF Days
<1> DEFINE m == Max({ExchangeFloor, DataFrom, LastDay - LifeDays})
<1>4. m \in {ExchangeFloor, DataFrom, LastDay - LifeDays}
  BY <1>2, <1>3, MaxOfThree
<1> HIDE DEF m
<1>5. m \in Days
  BY <1>1, <1>2, <1>4
<1> QED
  BY <1>5 DEF LifeFloor, m

\* What a sheet names lies in the model's days and resolutions.
LEMMA SheetFacts ==
  ASSUME WalkAssumption, NEW s \in Sheets
  PROVE  /\ s.from \in Days \cup {NoDay} /\ s.to \in Days \cup {NoDay}
         /\ s.res \subseteq Resolutions
         /\ WindowEnd(s) \in Days
BY DEF WalkAssumption, SheetType, WindowEnd, Days, NoDay

\* The left edge of what is asked is a day no earlier than the sheet's, and for a
\* contract no earlier than the clamps.
LEMMA LeftFacts ==
  ASSUME WalkAssumption, NEW s \in Sheets, NEW c \in Series
  PROVE  /\ Left(c, s) \in Days /\ Left(c, s) >= s.from
         /\ c # Spot => Left(c, s) >= LifeFloor
<1>0. LastDay \in Nat /\ ExchangeFloor \in Days /\ DataFrom \in Days
  BY DEF WalkAssumption
<1>1. s.from \in Days \cup {NoDay}
  BY SheetFacts
<1>2. CASE c = Spot
  <2> DEFINE a == IF s.from = NoDay THEN LastDay ELSE s.from
  <2>1. a \in Days /\ a >= s.from
    BY <1>0, <1>1 DEF Days, NoDay
  <2>2. a \in Int /\ ExchangeFloor \in Int /\ DataFrom \in Int /\ s.from \in Int
    BY <1>0, <1>1, <2>1 DEF Days, NoDay
  <2> HIDE DEF a
  <2>3. Max({a, DataFrom, ExchangeFloor}) \in {a, DataFrom, ExchangeFloor}
        /\ Max({a, DataFrom, ExchangeFloor}) >= a
    BY <2>2, MaxOfThree
  <2>4. Left(c, s) = Max({a, DataFrom, ExchangeFloor})
    BY <1>2 DEF Left, a
  <2>5. Left(c, s) \in Days
    BY <2>1, <2>3, <2>4, <1>0
  <2> QED
    BY <1>2, <2>1, <2>2, <2>3, <2>4, <2>5 DEF Days
<1>3. CASE c # Spot
  <2>1. LifeFloor \in Days /\ LifeFloor \in Int /\ s.from \in Int
    BY <1>1, <1>0, LifeFloorFacts DEF Days, NoDay
  <2>2. Left(c, s) = IF LifeFloor >= s.from THEN LifeFloor ELSE s.from
    BY <1>3, <2>1, MaxOfTwo DEF Left, WalkFloor
  <2> QED
    BY <1>1, <2>1, <2>2 DEF Days, NoDay
<1> QED
  BY <1>2, <1>3

\* Widths add up.
LEMMA Distribute ==
  ASSUME NEW a \in Int, NEW b \in Int, NEW c \in Int
  PROVE  (a + b) * c = a * c + b * c
OBVIOUS

\* A window further back lies at least one width further back.
LEMMA Scaled ==
  ASSUME NEW a \in Nat, NEW b \in Nat, NEW c \in Nat, a < b
  PROVE  a * c + c <= b * c /\ a * c \in Nat /\ b * c \in Nat
<1>1. PICK k \in Nat : b = (a + 1) + k
  <2>1. b - (a + 1) \in Nat /\ b = (a + 1) + (b - (a + 1))
    OBVIOUS
  <2> QED
    BY <2>1
<1>2. b * c = (a + 1) * c + k * c
  BY <1>1, Distribute
<1>3. (a + 1) * c = a * c + c
  BY Distribute
<1>4. a * c \in Nat /\ b * c \in Nat /\ k * c \in Nat
  OBVIOUS
<1> QED
  BY <1>2, <1>3, <1>4

\* A window of a grid is not empty and lies between its edges.
LEMMA PieceFacts ==
  ASSUME WalkAssumption, NEW lo \in Int, NEW hi \in Int, NEW n \in Nat, NEW x, IsPiece(x, lo, hi, n)
  PROVE  /\ x.from \in Int /\ x.to \in Int
         /\ lo <= x.from /\ x.from <= x.to /\ x.to <= hi
<1>1. ChunkDays \in Nat /\ ChunkDays > 0
  BY DEF WalkAssumption
<1>2. n * ChunkDays \in Nat
  BY <1>1
<1> DEFINE p == n * ChunkDays
<1> HIDE DEF p
<1>3. x.to = hi - p /\ lo <= x.to /\ p \in Nat
      /\ x.from = IF lo <= x.to + 1 - ChunkDays THEN x.to + 1 - ChunkDays ELSE lo
  BY <1>2 DEF p, IsPiece
<1> QED
  BY <1>1, <1>3

\* Two windows of one grid at different distances share no day.
LEMMA PiecesApart ==
  ASSUME WalkAssumption, NEW lo \in Int, NEW hi \in Int, NEW n \in Nat, NEW m \in Nat,
         NEW x, NEW y, IsPiece(x, lo, hi, n), IsPiece(y, lo, hi, m), n < m
  PROVE  y.to < x.from
<1>1. ChunkDays \in Nat /\ ChunkDays > 0
  BY DEF WalkAssumption
<1> DEFINE p == n * ChunkDays
           q == m * ChunkDays
<1>2. p \in Nat /\ q \in Nat /\ p + ChunkDays <= q
  BY <1>1, Scaled
<1>3. /\ x.to = hi - p /\ y.to = hi - q /\ lo <= y.to
      /\ x.from = IF lo <= x.to + 1 - ChunkDays THEN x.to + 1 - ChunkDays ELSE lo
  BY DEF IsPiece
<1> HIDE DEF p, q
<1> QED
  BY <1>1, <1>2, <1>3

\* Two windows of one grid at the same distance are the same.
LEMMA SamePiece ==
  ASSUME NEW lo, NEW hi, NEW n, NEW x, NEW y, IsPiece(x, lo, hi, n), IsPiece(y, lo, hi, n)
  PROVE  x.from = y.from /\ x.to = y.to
BY DEF IsPiece

\* The windows chunk_range cuts are pieces.
LEMMA GridIsPieces ==
  ASSUME WalkAssumption, NEW lo \in Int, NEW hi \in Int, NEW i \in DOMAIN Grid(lo, hi, ChunkDays)
  PROVE  i \in Nat \ {0} /\ IsPiece(Grid(lo, hi, ChunkDays)[i], lo, hi, i - 1)
<1>1. ChunkDays \in Nat /\ ChunkDays > 0
  BY DEF WalkAssumption
<1>2. i \in 1 .. hi - lo + 1 /\ hi - (i - 1) * ChunkDays >= lo
  BY DEF Grid
<1>3. i \in Nat \ {0} /\ i - 1 \in Nat
  BY <1>2
<1> DEFINE g == Grid(lo, hi, ChunkDays)[i]
<1>4. g = [to |-> hi - (i - 1) * ChunkDays, from |-> Max({lo, hi + 1 - i * ChunkDays})]
  BY <1>2 DEF Grid
<1>5. i * ChunkDays = (i - 1) * ChunkDays + ChunkDays
  <2>1. i = (i - 1) + 1
    BY <1>3
  <2>2. ((i - 1) + 1) * ChunkDays = (i - 1) * ChunkDays + 1 * ChunkDays
    BY <1>1, <1>3, Distribute
  <2> QED
    BY <2>1, <2>2, <1>1
<1>6. i * ChunkDays \in Int /\ (i - 1) * ChunkDays \in Int
  BY <1>1, <1>3
<1> DEFINE p == (i - 1) * ChunkDays
           q == i * ChunkDays
<1>7. q = p + ChunkDays /\ p \in Int /\ q \in Int /\ g.to = hi - p /\ g.from = Max({lo, hi + 1 - q})
      /\ hi - p >= lo
  BY <1>2, <1>4, <1>5, <1>6
<1>8. IsPiece(g, lo, hi, i - 1)
      <=> g.to = hi - p /\ lo <= g.to
          /\ g.from = IF lo <= g.to + 1 - ChunkDays THEN g.to + 1 - ChunkDays ELSE lo
  BY DEF IsPiece
<1> HIDE DEF g, p, q
<1>9. hi + 1 - q \in Int
  BY <1>7
<1>10. g.from = IF lo >= hi + 1 - q THEN lo ELSE hi + 1 - q
  BY <1>7, <1>9, MaxOfTwo
<1>11. IsPiece(g, lo, hi, i - 1)
  BY <1>1, <1>7, <1>8, <1>10
<1> QED
  BY <1>3, <1>11 DEF g

\* The windows older than a piece are pieces of the same grid.
LEMMA OlderIsPieces ==
  ASSUME WalkAssumption, NEW lo \in Int, NEW hi \in Int, NEW n \in Nat, NEW t,
         IsPiece(t, lo, hi, n), NEW i \in DOMAIN Grid(lo, t.from - 1, t.to - t.from + 1)
  PROVE  i \in Nat \ {0} /\ IsPiece(Grid(lo, t.from - 1, t.to - t.from + 1)[i], lo, hi, n + i)
<1>1. ChunkDays \in Nat /\ ChunkDays > 0
  BY DEF WalkAssumption
<1>2. t.from \in Int /\ t.to \in Int /\ lo <= t.from /\ t.from <= t.to
  BY PieceFacts
<1>3. i \in 1 .. (t.from - 1) - lo + 1
  BY DEF Grid
<1>4. i \in Nat \ {0} /\ t.from > lo
  BY <1>2, <1>3
<1>5. t.to = hi - n * ChunkDays
      /\ t.from = IF lo <= t.to + 1 - ChunkDays THEN t.to + 1 - ChunkDays ELSE lo
  BY DEF IsPiece
<1>6. t.from = t.to + 1 - ChunkDays
  BY <1>1, <1>2, <1>4, <1>5
<1>7. t.to - t.from + 1 = ChunkDays
  BY <1>1, <1>2, <1>6
<1> DEFINE hj == t.from - 1
           g == Grid(lo, hj, ChunkDays)[i]
<1>8. hj \in Int /\ i \in DOMAIN Grid(lo, hj, ChunkDays)
  BY <1>2, <1>7
<1>9. IsPiece(g, lo, hj, i - 1)
  BY <1>8, GridIsPieces
<1>10. (n + i) * ChunkDays = n * ChunkDays + i * ChunkDays
  BY <1>1, <1>4, Distribute
<1>11. i * ChunkDays = (i - 1) * ChunkDays + ChunkDays
  <2>1. i = (i - 1) + 1
    BY <1>4
  <2>2. ((i - 1) + 1) * ChunkDays = (i - 1) * ChunkDays + 1 * ChunkDays
    BY <1>1, <1>4, Distribute
  <2> QED
    BY <2>1, <2>2, <1>1
<1>12. hj - (i - 1) * ChunkDays = hi - (n + i) * ChunkDays
  <2> DEFINE a == n * ChunkDays
             b == i * ChunkDays
             c == (i - 1) * ChunkDays
             e == (n + i) * ChunkDays
  <2>1. a \in Int /\ b \in Int /\ c \in Int /\ e \in Int
    BY <1>1, <1>4
  <2>2. e = a + b /\ b = c + ChunkDays /\ t.to = hi - a
    BY <1>5, <1>10, <1>11
  <2> HIDE DEF a, b, c, e
  <2>3. hj - c = hi - e
    BY <1>1, <1>2, <1>6, <2>1, <2>2
  <2> QED
    BY <2>3 DEF c, e
<1>13. IsPiece(g, lo, hi, n + i)
  BY <1>9, <1>12 DEF IsPiece
<1> QED
  BY <1>4, <1>7, <1>13

\* The order SetToSeq gives a finite set: each member once.
LEMMA SetToSeqFacts ==
  ASSUME NEW S, IsFiniteSet(S)
  PROVE  /\ Cardinality(S) \in Nat
         /\ SetToSeq(S) \in Seq(S) /\ Len(SetToSeq(S)) = Cardinality(S)
         /\ \A a, b \in DOMAIN SetToSeq(S) : SetToSeq(S)[a] = SetToSeq(S)[b] => a = b
<1>1. Cardinality(S) \in Nat /\ ExistsBijection(1 .. Cardinality(S), S)
  BY FS_CardinalityType
<1>2. \E f \in [1 .. Cardinality(S) -> S] : IsInjective(f)
  <2>1. PICK f \in Bijection(1 .. Cardinality(S), S) : TRUE
    BY <1>1 DEF ExistsBijection
  <2>2. f \in [1 .. Cardinality(S) -> S] /\ IsInjective(f)
    BY <2>1 DEF Bijection, Injection, IsInjective
  <2> QED
    BY <2>2
<1>3. SetToSeq(S) \in [1 .. Cardinality(S) -> S] /\ IsInjective(SetToSeq(S))
  BY <1>2 DEF SetToSeq
<1> QED
  BY <1>1, <1>3 DEF IsInjective

JobRow == [sheet : Sheets, total : Nat, retried : BOOLEAN]
TaskRow(n) == [job : 1 .. n, c : Series, r : Resolutions, from : Days, to : Days, state : States]
RowsOf(ts, j) == {i \in DOMAIN ts : ts[i].job = j}

SameWindow(x, y) ==
  /\ x.job = y.job /\ x.c = y.c /\ x.r = y.r
  /\ x.from = y.from /\ x.to = y.to

\* The two tables agree: each row lies on the grid of its job's sheet, no job has
\* two rows for one window, and the totals count the rows.
Tables(js, ts) ==
  /\ js \in Seq(JobRow) /\ ts \in Seq(TaskRow(Len(js)))
  /\ \A i \in DOMAIN ts : OnGrid(ts[i], js[ts[i].job].sheet)
  /\ \A i, k \in DOMAIN ts : SameWindow(ts[i], ts[k]) => i = k
  /\ \A j \in DOMAIN js : js[j].total = Cardinality(RowsOf(ts, j))

\* Only the series and the window decide whether a row lies on a grid.
LEMMA OnGridFields ==
  ASSUME NEW x, NEW y, NEW s, x.c = y.c, x.from = y.from, x.to = y.to, OnGrid(x, s)
  PROVE  OnGrid(y, s)
<1>1. PICK n \in Nat : IsPiece(x, Left(x.c, s), WindowEnd(s), n)
  BY DEF OnGrid
<1>2. IsPiece(y, Left(y.c, s), WindowEnd(s), n)
  BY <1>1 DEF IsPiece
<1> QED
  BY <1>2 DEF OnGrid

\* A step that changes only what became of the rows keeps the tables.
LEMMA StatesOnly ==
  ASSUME NEW js, NEW ts, NEW us, Tables(js, ts),
         us \in Seq(TaskRow(Len(js))), DOMAIN us = DOMAIN ts,
         \A i \in DOMAIN ts : SameWindow(us[i], ts[i])
  PROVE  Tables(js, us)
<1>1. \A i \in DOMAIN us : OnGrid(us[i], js[us[i].job].sheet)
  <2> SUFFICES ASSUME NEW i \in DOMAIN us
               PROVE  OnGrid(us[i], js[us[i].job].sheet)
    OBVIOUS
  <2>1. OnGrid(ts[i], js[ts[i].job].sheet)
    BY DEF Tables
  <2>2. SameWindow(us[i], ts[i])
    OBVIOUS
  <2> QED
    BY <2>1, <2>2, OnGridFields DEF SameWindow
<1>2. \A i, k \in DOMAIN us : SameWindow(us[i], us[k]) => i = k
  BY DEF Tables, SameWindow
<1>3. \A j : RowsOf(us, j) = RowsOf(ts, j)
  BY DEF RowsOf, SameWindow
<1> QED
  BY <1>1, <1>2, <1>3 DEF Tables

\* Setting aside a row for one more window keeps them too.
LEMMA OneMore ==
  ASSUME NEW js, NEW ts, NEW j, NEW row, Tables(js, ts), j \in 1 .. Len(js),
         row \in TaskRow(Len(js)), row.job = j, OnGrid(row, js[j].sheet),
         \A i \in DOMAIN ts : ~SameWindow(ts[i], row)
  PROVE  Tables([js EXCEPT ![j].total = @ + 1], Append(ts, row))
<1> DEFINE ks == [js EXCEPT ![j].total = @ + 1]
           us == Append(ts, row)
           n == Len(ts)
<1>1. /\ js \in Seq(JobRow) /\ ts \in Seq(TaskRow(Len(js))) /\ n \in Nat /\ DOMAIN ts = 1 .. n
      /\ DOMAIN js = 1 .. Len(js) /\ Len(js) \in Nat
  BY DEF Tables
<1>2. /\ ks \in Seq(JobRow) /\ Len(ks) = Len(js)
      /\ \A k \in 1 .. Len(js) : ks[k].sheet = js[k].sheet
      /\ \A k \in 1 .. Len(js) : ks[k].total = IF k = j THEN js[k].total + 1 ELSE js[k].total
  <2>0. js[j] \in JobRow /\ \A k \in 1 .. Len(js) : js[k] \in JobRow
    BY <1>1
  <2> DEFINE one == [js[j] EXCEPT !.total = @ + 1]
  <2>1. one \in JobRow /\ one.sheet = js[j].sheet /\ one.total = js[j].total + 1
    BY <2>0 DEF JobRow
  <2>2. ks = [js EXCEPT ![j] = one]
    OBVIOUS
  <2> HIDE DEF one
  <2>3. ks \in Seq(JobRow) /\ Len(ks) = Len(js)
    BY <1>1, <2>1, <2>2
  <2>4. \A k \in 1 .. Len(js) : ks[k] = IF k = j THEN one ELSE js[k]
    BY <1>1, <2>2
  <2> HIDE DEF ks
  <2> QED
    BY <2>1, <2>3, <2>4
<1>3. us \in Seq(TaskRow(Len(js))) /\ DOMAIN us = 1 .. n + 1 /\ us[n + 1] = row
      /\ \A i \in 1 .. n : us[i] = ts[i]
  BY <1>1
<1>4. \A i \in 1 .. n : ts[i].job \in 1 .. Len(js)
  <2> SUFFICES ASSUME NEW i \in 1 .. n
               PROVE  ts[i].job \in 1 .. Len(js)
    OBVIOUS
  <2>1. ts[i] \in TaskRow(Len(js))
    BY <1>1
  <2> QED
    BY <2>1 DEF TaskRow
<1> HIDE DEF ks, us
<1>5. \A i \in DOMAIN us : OnGrid(us[i], ks[us[i].job].sheet)
  <2> SUFFICES ASSUME NEW i \in 1 .. n + 1
               PROVE  OnGrid(us[i], ks[us[i].job].sheet)
    BY <1>3
  <2>1. CASE i = n + 1
    BY <2>1, <1>1, <1>2, <1>3
  <2>2. CASE i \in 1 .. n
    <3>1. OnGrid(ts[i], js[ts[i].job].sheet) /\ ts[i].job \in 1 .. Len(js)
      BY <2>2, <1>1, <1>4 DEF Tables
    <3> QED
      BY <2>2, <3>1, <1>2, <1>3
  <2> QED
    BY <2>1, <2>2, <1>1
<1>6. \A i, k \in DOMAIN us : SameWindow(us[i], us[k]) => i = k
  <2> SUFFICES ASSUME NEW i \in 1 .. n + 1, NEW k \in 1 .. n + 1, SameWindow(us[i], us[k])
               PROVE  i = k
    BY <1>3
  <2>1. \A a \in 1 .. n : ~SameWindow(ts[a], row) /\ ~SameWindow(row, ts[a])
    BY <1>1 DEF SameWindow
  <2>2. CASE i \in 1 .. n /\ k \in 1 .. n
    BY <2>2, <1>1, <1>3 DEF Tables
  <2>3. CASE i = n + 1 /\ k \in 1 .. n
    BY <2>1, <2>3, <1>3
  <2>4. CASE k = n + 1 /\ i \in 1 .. n
    BY <2>1, <2>4, <1>3
  <2> QED
    BY <2>2, <2>3, <2>4, <1>1
<1>7. \A k \in DOMAIN ks : ks[k].total = Cardinality(RowsOf(us, k))
  <2> SUFFICES ASSUME NEW k \in 1 .. Len(js)
               PROVE  ks[k].total = Cardinality(RowsOf(us, k))
    BY <1>2
  <2>1. js[k].total = Cardinality(RowsOf(ts, k)) /\ RowsOf(ts, k) \subseteq 1 .. n
    BY <1>1 DEF Tables, RowsOf
  <2>2. IsFiniteSet(RowsOf(ts, k))
    <3>1. IsFiniteSet(1 .. n)
      BY <1>1, FS_Interval
    <3> QED
      BY <2>1, <3>1, FS_Subset
  <2>3. CASE k # j
    <3>1. RowsOf(us, k) = RowsOf(ts, k)
      BY <2>3, <1>1, <1>3 DEF RowsOf
    <3> QED
      BY <2>1, <2>3, <3>1, <1>2
  <2>4. CASE k = j
    <3>1. RowsOf(us, k) = RowsOf(ts, k) \cup {n + 1}
      BY <2>4, <1>1, <1>3 DEF RowsOf
    <3>2. n + 1 \notin RowsOf(ts, k)
      BY <2>1, <1>1
    <3> DEFINE T == RowsOf(ts, k)
               e == n + 1
    <3>3. IsFiniteSet(T) /\ e \notin T /\ RowsOf(us, k) = T \cup {e}
      BY <2>2, <3>1, <3>2
    <3>4. js[k].total = Cardinality(T)
      BY <2>1
    <3>5. ks[k].total = js[k].total + 1
      BY <2>4, <1>2
    <3> HIDE DEF T, e
    <3>6. Cardinality(T \cup {e}) = Cardinality(T) + 1
      BY <3>3, FS_AddElement
    <3> QED
      BY <3>3, <3>4, <3>5, <3>6
  <2> QED
    BY <2>3, <2>4
<1> QED
  BY <1>2, <1>3, <1>5, <1>6, <1>7 DEF Tables, ks, us
\* Two chunks that agree on every field are one.
LEMMA SameChunk ==
  ASSUME NEW x \in Chunk, NEW y \in Chunk, x.c = y.c, x.r = y.r, x.from = y.from, x.to = y.to
  PROVE  x = y
BY DEF Chunk


\* So does a job committed with the rows it was priced for.
LEMMA MoreRows ==
  ASSUME NEW js, NEW ks, NEW ts, NEW S, NEW s \in Sheets, Tables(js, ts),
         ks \in Seq(JobRow), Len(ks) = Len(js),
         \A j \in DOMAIN js : ks[j].sheet = js[j].sheet /\ ks[j].total = js[j].total,
         IsFiniteSet(S), S \subseteq Chunk, \A x \in S : OnGrid(x, s)
  PROVE  /\ Tables(Append(ks, [sheet |-> s, total |-> Cardinality(S), retried |-> FALSE]),
                   ts \o Rows(Len(js) + 1, S))
         /\ Len(ts) <= Len(ts \o Rows(Len(js) + 1, S))
         /\ \A i \in DOMAIN ts : (ts \o Rows(Len(js) + 1, S))[i] = ts[i]
<1> DEFINE seq == SetToSeq(S)
           card == Cardinality(S)
           n == Len(ts)
           j0 == Len(js) + 1
           rows == Rows(j0, S)
           ls == Append(ks, [sheet |-> s, total |-> card, retried |-> FALSE])
           us == ts \o rows
<1>1. /\ js \in Seq(JobRow) /\ ts \in Seq(TaskRow(Len(js))) /\ n \in Nat /\ DOMAIN ts = 1 .. n
      /\ DOMAIN js = 1 .. Len(js) /\ Len(js) \in Nat /\ j0 \in Nat
  BY DEF Tables
<1>2. /\ card \in Nat /\ seq \in Seq(S) /\ Len(seq) = card /\ DOMAIN seq = 1 .. card
      /\ \A a, b \in 1 .. card : seq[a] = seq[b] => a = b
      /\ \A a \in 1 .. card : seq[a] \in S
  <2>1. card \in Nat /\ seq \in Seq(S) /\ Len(seq) = card
        /\ \A a, b \in DOMAIN seq : seq[a] = seq[b] => a = b
    BY SetToSeqFacts
  <2> HIDE DEF seq, card
  <2> QED
    BY <2>1
<1>3. rows = [i \in 1 .. card |->
                [job |-> j0, c |-> seq[i].c, r |-> seq[i].r, from |-> seq[i].from,
                 to |-> seq[i].to, state |-> "pending"]]
  BY <1>2 DEF Rows
<1> HIDE DEF seq, card, rows
<1>4. \A a \in 1 .. card : /\ seq[a] \in Chunk /\ rows[a] \in TaskRow(j0) /\ OnGrid(rows[a], s)
                           /\ rows[a].job = j0
  <2> SUFFICES ASSUME NEW a \in 1 .. card
               PROVE  /\ seq[a] \in Chunk /\ rows[a] \in TaskRow(j0) /\ OnGrid(rows[a], s)
                      /\ rows[a].job = j0
    OBVIOUS
  <2>1. seq[a] \in Chunk /\ OnGrid(seq[a], s)
    BY <1>2
  <2>2. rows[a] = [job |-> j0, c |-> seq[a].c, r |-> seq[a].r, from |-> seq[a].from,
                   to |-> seq[a].to, state |-> "pending"]
    BY <1>3
  <2>3. rows[a] \in TaskRow(j0)
    <3>1. seq[a].c \in Series /\ seq[a].r \in Resolutions /\ seq[a].from \in Days /\ seq[a].to \in Days
      BY <2>1 DEF Chunk
    <3>2. j0 \in 1 .. j0
      BY <1>1
    <3> HIDE DEF j0
    <3> QED
      BY <2>2, <3>1, <3>2 DEF TaskRow, States
  <2>4. rows[a].c = seq[a].c /\ rows[a].from = seq[a].from /\ rows[a].to = seq[a].to /\ rows[a].job = j0
    BY <2>2
  <2> QED
    BY <2>1, <2>3, <2>4, OnGridFields
<1>5. rows \in Seq(TaskRow(j0)) /\ Len(rows) = card
  BY <1>2, <1>3, <1>4
<1>6. \A i \in 1 .. n : ts[i] \in TaskRow(Len(js)) /\ ts[i] \in TaskRow(j0) /\ ts[i].job \in 1 .. Len(js)
  <2> SUFFICES ASSUME NEW i \in 1 .. n
               PROVE  ts[i] \in TaskRow(Len(js)) /\ ts[i] \in TaskRow(j0) /\ ts[i].job \in 1 .. Len(js)
    OBVIOUS
  <2>1. ts[i] \in TaskRow(Len(js))
    BY <1>1
  <2> QED
    BY <2>1, <1>1 DEF TaskRow
<1>7. /\ us \in Seq(TaskRow(j0)) /\ DOMAIN us = 1 .. n + card
      /\ \A i \in 1 .. n : us[i] = ts[i]
      /\ \A i \in n + 1 .. n + card : us[i] = rows[i - n] /\ i - n \in 1 .. card
  <2>1. ts \in Seq(TaskRow(j0))
    BY <1>1, <1>6
  <2>2. rows \in Seq(TaskRow(j0)) /\ Len(rows) = card /\ card \in Nat /\ n \in Nat
    BY <1>1, <1>2, <1>5
  <2> HIDE DEF j0
  <2>3. us \in Seq(TaskRow(j0))
    BY <2>1, <2>2
  <2>4. Len(us) = n + card
    <3> HIDE DEF TaskRow
    <3> QED
      BY <2>1, <2>2, ConcatProperties
  <2>5. DOMAIN us = 1 .. n + card
    BY <2>3, <2>4
  <2>6. \A i \in 1 .. n : us[i] = ts[i]
    BY <2>1, <2>2
  <2>7. \A i \in n + 1 .. n + card : us[i] = rows[i - n] /\ i - n \in 1 .. card
    BY <2>1, <2>2
  <2> QED
    BY <2>3, <2>5, <2>6, <2>7
<1>8. /\ ls \in Seq(JobRow) /\ Len(ls) = j0 /\ DOMAIN ls = 1 .. j0
      /\ ls[j0].sheet = s /\ ls[j0].total = card
      /\ \A j \in 1 .. Len(js) : ls[j].sheet = js[j].sheet /\ ls[j].total = js[j].total
  <2> DEFINE new == [sheet |-> s, total |-> card, retried |-> FALSE]
  <2>1. new \in JobRow /\ new.sheet = s /\ new.total = card
    BY <1>2 DEF JobRow
  <2> HIDE DEF new
  <2>2. ls = Append(ks, new)
    BY DEF new
  <2> HIDE DEF ls
  <2>3a. Len(ks) \in Nat /\ Len(ks) = Len(js) /\ j0 = Len(ks) + 1
    BY <1>1
  <2>3b. ls \in Seq(JobRow)
    <3>1. ks \in Seq(JobRow)
      OBVIOUS
    <3> HIDE DEF JobRow
    <3> QED
      BY <2>1, <2>2, <3>1
  <2>3c. Len(ls) = Len(ks) + 1 /\ ls[Len(ks) + 1] = new
    BY <2>1, <2>2, <2>3a
  <2>3d. \A j \in 1 .. Len(ks) : ls[j] = ks[j]
    BY <2>1, <2>2, <2>3a
  <2>3. /\ ls \in Seq(JobRow) /\ Len(ls) = j0 /\ ls[j0] = new
        /\ \A j \in 1 .. Len(js) : ls[j] = ks[j]
    BY <2>3a, <2>3b, <2>3c, <2>3d
  <2> QED
    BY <2>1, <2>3, <1>1
<1> HIDE DEF ls, us
<1>9. \A i \in DOMAIN us : OnGrid(us[i], ls[us[i].job].sheet)
  <2> SUFFICES ASSUME NEW i \in 1 .. n + card
               PROVE  OnGrid(us[i], ls[us[i].job].sheet)
    BY <1>7
  <2>1. CASE i \in 1 .. n
    <3>1. OnGrid(ts[i], js[ts[i].job].sheet) /\ ts[i].job \in 1 .. Len(js)
      BY <2>1, <1>1, <1>6 DEF Tables
    <3> QED
      BY <2>1, <3>1, <1>7, <1>8
  <2>2. CASE i \in n + 1 .. n + card
    BY <2>2, <1>4, <1>7, <1>8
  <2> QED
    BY <2>1, <2>2, <1>1, <1>2
<1>10. \A i, k \in DOMAIN us : SameWindow(us[i], us[k]) => i = k
  <2> SUFFICES ASSUME NEW i \in 1 .. n + card, NEW k \in 1 .. n + card, SameWindow(us[i], us[k])
               PROVE  i = k
    BY <1>7
  <2>1. CASE i \in 1 .. n /\ k \in 1 .. n
    BY <2>1, <1>1, <1>7 DEF Tables
  <2>2. CASE i \in 1 .. n /\ k \in n + 1 .. n + card
    <3>1. us[i].job \in 1 .. Len(js) /\ us[k].job = j0 /\ us[i].job = us[k].job
      BY <2>2, <1>4, <1>6, <1>7 DEF SameWindow
    <3> QED
      BY <3>1, <1>1
  <2>3. CASE k \in 1 .. n /\ i \in n + 1 .. n + card
    <3>1. us[k].job \in 1 .. Len(js) /\ us[i].job = j0 /\ us[i].job = us[k].job
      BY <2>3, <1>4, <1>6, <1>7 DEF SameWindow
    <3> QED
      BY <3>1, <1>1
  <2>4. CASE i \in n + 1 .. n + card /\ k \in n + 1 .. n + card
    <3> DEFINE a == i - n
               b == k - n
    <3>1. us[i] = rows[a] /\ us[k] = rows[b] /\ a \in 1 .. card /\ b \in 1 .. card
      BY <2>4, <1>7
    <3>1a. i = a + n /\ k = b + n
      BY <1>1, <1>2
    <3> HIDE DEF a, b
    <3>2. seq[a].c = seq[b].c /\ seq[a].r = seq[b].r /\ seq[a].from = seq[b].from /\ seq[a].to = seq[b].to
      BY <3>1, <1>3 DEF SameWindow
    <3>3. seq[a] = seq[b]
      <4>1. seq[a] \in Chunk /\ seq[b] \in Chunk
        BY <3>1, <1>4
      <4> QED
        BY <3>2, <4>1, SameChunk
    <3> QED
      BY <3>1, <3>1a, <3>3, <1>2
  <2> QED
    BY <2>1, <2>2, <2>3, <2>4, <1>1, <1>2
<1>11. \A k \in DOMAIN ls : ls[k].total = Cardinality(RowsOf(us, k))
  <2> SUFFICES ASSUME NEW k \in 1 .. j0
               PROVE  ls[k].total = Cardinality(RowsOf(us, k))
    BY <1>8
  <2>1. CASE k \in 1 .. Len(js)
    <3>1. RowsOf(us, k) = RowsOf(ts, k)
      <4>1. \A i \in n + 1 .. n + card : us[i].job # k
        BY <2>1, <1>1, <1>4, <1>7
      <4>2. \A i \in 1 .. n + card : i \in 1 .. n \/ i \in n + 1 .. n + card
        BY <1>1, <1>2
      <4>3. \A i \in 1 .. n : i \in 1 .. n + card
        BY <1>1, <1>2
      <4> QED
        BY <4>1, <4>2, <4>3, <1>1, <1>7 DEF RowsOf
    <3> QED
      BY <2>1, <3>1, <1>1, <1>8 DEF Tables
  <2>2. CASE k = j0
    <3>1. RowsOf(us, k) = n + 1 .. n + card
      <4>1. \A i \in n + 1 .. n + card : us[i].job = k
        BY <2>2, <1>4, <1>7
      <4>2. \A i \in 1 .. n : us[i].job # k
        BY <2>2, <1>1, <1>6, <1>7
      <4>3. \A i : i \in 1 .. n + card <=> (i \in 1 .. n \/ i \in n + 1 .. n + card)
        BY <1>1, <1>2
      <4> QED
        BY <4>1, <4>2, <4>3, <1>7 DEF RowsOf
    <3>2. Cardinality(n + 1 .. n + card) = card
      <4> DEFINE p == n + 1
                 q == n + card
      <4>0. p \in Int /\ q \in Int
        BY <1>1, <1>2
      <4> HIDE DEF p, q
      <4>1. Cardinality(p .. q) = IF p > q THEN 0 ELSE q - p + 1
        BY <4>0, FS_Interval
      <4> QED
        BY <4>1, <1>1, <1>2 DEF p, q
    <3> QED
      BY <2>2, <3>1, <3>2, <1>8
  <2> QED
    BY <2>1, <2>2, <1>1
<1>12. Tables(ls, us)
  BY <1>7, <1>8, <1>9, <1>10, <1>11 DEF Tables
<1>13. Len(ts) <= Len(us) /\ \A i \in DOMAIN ts : us[i] = ts[i]
  <2>1. Len(us) = n + card
    BY <1>1, <1>2, <1>7
  <2> QED
    BY <2>1, <1>1, <1>2, <1>7
<1> QED
  BY <1>12, <1>13 DEF ls, us, card, rows

LedgerRow == [c : Series, r : Resolutions, from : Days, to : Days, status : {"ok", "empty"}]
Waiting == {"stored", "checking", "sealing"}

\* Where the workers stand: a busy one has a row, and only a contract's is decided on.
AtWork(wk, ts) ==
  /\ wk \in [Workers -> [step : Steps, task : 0 .. Len(ts)]]
  /\ \A w \in Workers : wk[w].step # "idle" => wk[w].task \in DOMAIN ts
  /\ \A w \in Workers : wk[w].step \in Waiting => ts[wk[w].task].c # Spot

\* What has been priced lies on the sheet it was priced for.
Priced(p) == p \in [sheet : Sheets, chunks : SUBSET Chunk] /\ \A x \in p.chunks : OnGrid(x, p.sheet)

StoreShape ==
  /\ birth \in [Contracts -> Births]
  /\ bars \in [Series \X Resolutions \X Days -> Nat]
  /\ ledger \subseteq LedgerRow
  /\ sealed \subseteq Contracts
DraftShape ==
  \/ draft = {}
  \/ \E p : draft = {p} /\ Priced(p)
Bounds ==
  /\ Len(jobs) <= MaxJobs /\ cut \subseteq (DOMAIN jobs) \X Contracts \X Resolutions
  /\ faults \in 0 .. MaxFaults

WalkInv ==
  /\ StoreShape /\ DraftShape /\ Bounds
  /\ Tables(jobs, tasks)
  /\ AtWork(work, tasks)
  /\ LedgerHonest

\* What is said of the store is not about the queue, the jobs or the workers.
LEMMA StoreStays ==
  ASSUME StoreShape, LedgerHonest, UNCHANGED <<birth, bars, ledger, sealed>>
  PROVE  StoreShape' /\ LedgerHonest'
<1>1. StoreShape'
  BY DEF StoreShape
<1>2. LedgerHonest'
  BY DEF LedgerHonest, Life, Held
<1> QED
  BY <1>1, <1>2

\* Nor is what is said of the draft.
LEMMA DraftStays ==
  ASSUME DraftShape, draft' = draft
  PROVE  DraftShape'
BY DEF DraftShape, Priced, OnGrid, IsPiece, Left, WindowEnd, WalkFloor, LifeFloor

\* There are finitely many requests.
LEMMA ChunkFinite ==
  ASSUME Hypotheses
  PROVE  IsFiniteSet(Chunk)
<1> DEFINE fields == (Series \X Resolutions) \X (Days \X Days)
           f == [x \in Chunk |-> <<<<x.c, x.r>>, <<x.from, x.to>>>>]
<1>1. IsFiniteSet(Days)
  <2>1. LastDay \in Int /\ 1 \in Int
    BY DEF Hypotheses, WalkAssumption
  <2> QED
    BY <2>1, FS_Interval DEF Days
<1>2. IsFiniteSet(Series)
  BY FS_AddElement DEF Hypotheses, Series
<1>3. IsFiniteSet(Series \X Resolutions) /\ IsFiniteSet(Days \X Days)
  BY <1>1, <1>2, FS_Product DEF Hypotheses
<1>4. IsFiniteSet(fields)
  BY <1>3, FS_Product
<1>5. f \in [Chunk -> fields]
  BY DEF Chunk
<1>6. \A x, y \in Chunk : f[x] = f[y] => x = y
  <2> SUFFICES ASSUME NEW x \in Chunk, NEW y \in Chunk, f[x] = f[y]
               PROVE  x = y
    OBVIOUS
  <2>1. x.c = y.c /\ x.r = y.r /\ x.from = y.from /\ x.to = y.to
    OBVIOUS
  <2> QED
    BY <2>1 DEF Chunk
<1>7. f \in Injection(Chunk, fields)
  BY <1>5, <1>6 DEF Injection, IsInjective
<1> HIDE DEF f, fields
<1> QED
  BY <1>4, <1>7, FS_Injection

\* Rows added at the end leave the workers where they stand.
LEMMA WorkStays ==
  ASSUME NEW wk, NEW ts, NEW us, AtWork(wk, ts), Len(ts) \in Nat, Len(us) \in Nat, Len(ts) <= Len(us),
         DOMAIN ts = 1 .. Len(ts), DOMAIN us = 1 .. Len(us),
         \A i \in DOMAIN ts : us[i].c = ts[i].c
  PROVE  AtWork(wk, us)
<1>1. wk \in [Workers -> [step : Steps, task : 0 .. Len(us)]]
  BY DEF AtWork
<1>2. \A w \in Workers : wk[w].step # "idle" => wk[w].task \in DOMAIN us
  BY DEF AtWork
<1>3. \A w \in Workers : wk[w].step \in Waiting => ts[wk[w].task].c # Spot /\ wk[w].task \in DOMAIN ts
  BY DEF AtWork, Waiting
<1> QED
  BY <1>1, <1>2, <1>3 DEF AtWork

\* A worker may be put on any row that exists.
LEMMA WorkSet ==
  ASSUME NEW wk, NEW ts, AtWork(wk, ts), NEW w \in Workers, NEW e,
         e \in [step : Steps, task : 0 .. Len(ts)],
         e.step # "idle" => e.task \in DOMAIN ts,
         e.step \in Waiting => ts[e.task].c # Spot
  PROVE  AtWork([wk EXCEPT ![w] = e], ts)
<1> DEFINE vk == [wk EXCEPT ![w] = e]
<1>1. wk \in [Workers -> [step : Steps, task : 0 .. Len(ts)]]
  BY DEF AtWork
<1>2. vk \in [Workers -> [step : Steps, task : 0 .. Len(ts)]]
  BY <1>1
<1>3. \A v \in Workers : vk[v] = IF v = w THEN e ELSE wk[v]
  BY <1>1
<1> HIDE DEF vk
<1>4. AtWork(vk, ts)
  BY <1>2, <1>3 DEF AtWork
<1> QED
  BY <1>4 DEF vk

\* Moving a worker on, with what it was given.
LEMMA WorkGoes ==
  ASSUME NEW wk, NEW ts, AtWork(wk, ts), NEW w \in Workers, NEW s \in Steps \ {"idle"},
         wk[w].step # "idle",
         s \in Waiting => ts[wk[w].task].c # Spot
  PROVE  AtWork([wk EXCEPT ![w].step = s], ts)
<1>1. wk \in [Workers -> [step : Steps, task : 0 .. Len(ts)]]
  BY DEF AtWork
<1> DEFINE e == [step |-> s, task |-> wk[w].task]
<1>2. wk[w] \in [step : Steps, task : 0 .. Len(ts)] /\ wk[w].task \in DOMAIN ts
  BY <1>1 DEF AtWork
<1>3. e \in [step : Steps, task : 0 .. Len(ts)] /\ e.step = s /\ e.task = wk[w].task
  BY <1>2
<1>4. [wk EXCEPT ![w].step = s] = [wk EXCEPT ![w] = e]
  <2>1. [wk[w] EXCEPT !.step = s] = e
    BY <1>2
  <2> HIDE DEF e
  <2> QED
    BY <2>1
<1> HIDE DEF e
<1> QED
  BY <1>2, <1>3, <1>4, WorkSet

\* A worker may put its row down.
LEMMA WorkIdle ==
  ASSUME NEW wk, NEW ts, AtWork(wk, ts), Len(ts) \in Nat, NEW w \in Workers
  PROVE  AtWork([wk EXCEPT ![w] = Idle], ts)
<1>1. Idle \in [step : Steps, task : 0 .. Len(ts)] /\ Idle.step = "idle"
  BY DEF Idle, Steps
<1>2. Idle.step \notin Waiting
  BY <1>1 DEF Waiting
<1> QED
  BY <1>1, <1>2, WorkSet

\* What the two tables are made of.
LEMMA Lengths ==
  ASSUME NEW js, NEW ts, Tables(js, ts)
  PROVE  /\ Len(js) \in Nat /\ DOMAIN js = 1 .. Len(js)
         /\ Len(ts) \in Nat /\ DOMAIN ts = 1 .. Len(ts)
         /\ \A j \in DOMAIN js : js[j] \in JobRow
         /\ \A i \in DOMAIN ts : ts[i] \in TaskRow(Len(js)) /\ ts[i].job \in DOMAIN js
<1>1. js \in Seq(JobRow) /\ ts \in Seq(TaskRow(Len(js)))
  BY DEF Tables
<1>2. /\ Len(js) \in Nat /\ DOMAIN js = 1 .. Len(js)
      /\ Len(ts) \in Nat /\ DOMAIN ts = 1 .. Len(ts)
  BY <1>1
<1>3. \A i \in DOMAIN ts : ts[i] \in TaskRow(Len(js))
  BY <1>1, <1>2
<1>4. \A j \in DOMAIN js : js[j] \in JobRow
  BY <1>1, <1>2
<1>5. \A i \in DOMAIN ts : ts[i].job \in 1 .. Len(js)
  BY <1>3 DEF TaskRow
<1> QED
  BY <1>2, <1>3, <1>4, <1>5

\* A step that changes only what became of the rows keeps both.
LEMMA StatesKept ==
  ASSUME NEW js, NEW ts, NEW us, NEW wk, Tables(js, ts), AtWork(wk, ts), DOMAIN us = DOMAIN ts,
         us = [i \in DOMAIN ts |-> us[i]],
         \A i \in DOMAIN ts : \E s \in States : us[i] = [ts[i] EXCEPT !.state = s]
  PROVE  Tables(js, us) /\ AtWork(wk, us)
<1>1. \A i \in DOMAIN ts : us[i] \in TaskRow(Len(js)) /\ SameWindow(us[i], ts[i])
  <2> SUFFICES ASSUME NEW i \in DOMAIN ts
               PROVE  us[i] \in TaskRow(Len(js)) /\ SameWindow(us[i], ts[i])
    OBVIOUS
  <2>1. PICK s \in States : us[i] = [ts[i] EXCEPT !.state = s]
    OBVIOUS
  <2>2. ts[i] \in TaskRow(Len(js))
    BY Lengths
  <2> QED
    BY <2>1, <2>2 DEF TaskRow, SameWindow
<1>2. DOMAIN ts = 1 .. Len(ts) /\ Len(ts) \in Nat
  BY Lengths
<1>3. us \in Seq(TaskRow(Len(js)))
  BY <1>1, <1>2
<1>4. Tables(js, us)
  BY <1>1, <1>3, StatesOnly
<1>5. Len(us) = Len(ts) /\ \A i \in DOMAIN ts : us[i].c = ts[i].c
  BY <1>1, <1>2, <1>3 DEF SameWindow
<1>6. AtWork(wk, us)
  BY <1>2, <1>5, WorkStays
<1> QED
  BY <1>4, <1>6

\* The same for one row.
LEMMA OneState ==
  ASSUME NEW js, NEW ts, NEW wk, Tables(js, ts), AtWork(wk, ts), NEW i \in DOMAIN ts, NEW s \in States
  PROVE  Tables(js, [ts EXCEPT ![i].state = s]) /\ AtWork(wk, [ts EXCEPT ![i].state = s])
<1> DEFINE us == [ts EXCEPT ![i].state = s]
<1>0. \A k \in DOMAIN ts : ts[k] \in TaskRow(Len(js))
  BY Lengths
<1>1. DOMAIN us = DOMAIN ts /\ us = [k \in DOMAIN ts |-> us[k]]
  OBVIOUS
<1>2. \A k \in DOMAIN ts : us[k] = IF k = i THEN [ts[k] EXCEPT !.state = s] ELSE ts[k]
  OBVIOUS
<1> HIDE DEF us
<1>3. \A k \in DOMAIN ts : \E q \in States : us[k] = [ts[k] EXCEPT !.state = q]
  <2> SUFFICES ASSUME NEW k \in DOMAIN ts
               PROVE  \E q \in States : us[k] = [ts[k] EXCEPT !.state = q]
    OBVIOUS
  <2>1. ts[k].state \in States /\ ts[k] = [ts[k] EXCEPT !.state = ts[k].state]
    BY <1>0 DEF TaskRow
  <2> QED
    BY <2>1, <1>2
<1>4. Tables(js, us) /\ AtWork(wk, us)
  BY <1>1, <1>3, StatesKept
<1> QED
  BY <1>4 DEF us

\* A window of a sheet's grid is a window of days, and a row for it is one the tables may hold.
LEMMA ChunkOfPiece ==
  ASSUME WalkAssumption, NEW s \in Sheets, NEW c \in Series, NEW r \in Resolutions, NEW n \in Nat,
         NEW g, IsPiece(g, Left(c, s), WindowEnd(s), n),
         NEW x, x = [c |-> c, r |-> r, from |-> g.from, to |-> g.to]
  PROVE  x \in Chunk /\ OnGrid(x, s)
<1>1. Left(c, s) \in Days /\ WindowEnd(s) \in Days
  BY LeftFacts, SheetFacts
<1>2. Left(c, s) \in Int /\ WindowEnd(s) \in Int
  BY <1>1 DEF Days
<1>3. g.from \in Int /\ g.to \in Int /\ Left(c, s) <= g.from /\ g.from <= g.to /\ g.to <= WindowEnd(s)
  BY <1>2, PieceFacts
<1>4. g.from \in Days /\ g.to \in Days
  <2>1. LastDay \in Nat
    BY DEF WalkAssumption
  <2> QED
    BY <1>1, <1>2, <1>3, <2>1 DEF Days
<1>5. x \in Chunk
  BY <1>4 DEF Chunk
<1>6. x.c = c /\ IsPiece(x, Left(c, s), WindowEnd(s), n)
  BY DEF IsPiece
<1> QED
  BY <1>5, <1>6 DEF OnGrid

\* What the planner emits for a contract lies on the sheet's grid.
LEMMA EmitOnGrid ==
  ASSUME WalkAssumption, NEW s \in Sheets, NEW c \in Contracts, NEW r \in s.res,
         NEW x \in EmitChunks(s, c, r)
  PROVE  x \in Chunk /\ OnGrid(x, s)
<1> DEFINE lo == WalkFloor(s)
           hi == WindowEnd(s)
           grid == Grid(lo, hi, ChunkDays)
<1>1. PICK i \in DOMAIN grid : x = [c |-> c, r |-> r, from |-> grid[i].from, to |-> grid[i].to]
  BY DEF EmitChunks
<1>2. c \in Series /\ c # Spot /\ r \in Resolutions
  BY SheetFacts DEF WalkAssumption, Series
<1>3. Left(c, s) = lo
  BY <1>2 DEF Left
<1>4. lo \in Int /\ hi \in Int
  BY <1>2, <1>3, LeftFacts, SheetFacts DEF Days
<1>5. i \in Nat \ {0} /\ IsPiece(grid[i], lo, hi, i - 1)
  BY <1>1, <1>4, GridIsPieces
<1>6. i - 1 \in Nat
  BY <1>5
<1> HIDE DEF lo, hi, grid
<1> QED
  BY <1>1, <1>2, <1>3, <1>5, <1>6, ChunkOfPiece DEF hi

\* So does what it emits for the underlying's own series.
LEMMA SpotOnGrid ==
  ASSUME WalkAssumption, NEW s \in Sheets, NEW x \in PlanSpot(s)
  PROVE  x \in Chunk /\ OnGrid(x, s)
<1> DEFINE lo == Max({IF s.from = NoDay THEN LastDay ELSE s.from, DataFrom, ExchangeFloor})
           hi == WindowEnd(s)
           grid == Grid(lo, hi, ChunkDays)
           rows(r) == IF s.force THEN {} ELSE Windows(Held(Spot, r))
           holes(r) == {y \in Range(grid) : MissingWindows(rows(r), y) # {}}
<1>1. PICK r \in s.res, y \in Range(grid) : x = [c |-> Spot, r |-> r, from |-> y.from, to |-> y.to]
  <2>1. x \in UNION {{[c |-> Spot, r |-> r, from |-> y.from, to |-> y.to] : y \in holes(r)} : r \in s.res}
    BY DEF PlanSpot
  <2>2. \A r \in s.res : holes(r) \subseteq Range(grid)
    OBVIOUS
  <2> HIDE DEF grid, holes
  <2> QED
    BY <2>1, <2>2
<1>1a. PICK i \in DOMAIN grid : y = grid[i]
  BY <1>1 DEF Range
<1>2. Spot \in Series /\ r \in Resolutions
  BY <1>1, SheetFacts DEF Series
<1>3. Left(Spot, s) = lo
  BY DEF Left
<1>4. lo \in Int /\ hi \in Int
  BY <1>2, <1>3, LeftFacts, SheetFacts DEF Days
<1>5. i \in Nat \ {0} /\ IsPiece(grid[i], lo, hi, i - 1)
  BY <1>1a, <1>4, GridIsPieces
<1>6. i - 1 \in Nat
  BY <1>5
<1> HIDE DEF lo, hi, grid
<1> QED
  BY <1>1, <1>1a, <1>2, <1>3, <1>5, <1>6, ChunkOfPiece DEF hi

\* An empty store and no jobs satisfy the invariant.
LEMMA InitWalk ==
  ASSUME Hypotheses, Init
  PROVE  WalkInv
<1>0. LastDay \in Nat /\ MaxJobs \in Nat /\ MaxFaults \in Nat
  BY DEF Hypotheses, WalkAssumption
<1>1. StoreShape
  <2>1. bars \in [Series \X Resolutions \X Days -> Nat]
    BY DEF Init
  <2> QED
    BY <2>1 DEF Init, StoreShape
<1>2. DraftShape
  BY DEF Init, DraftShape
<1>3. Bounds
  BY <1>0 DEF Init, Bounds
<1>4. Tables(jobs, tasks)
  BY DEF Init, Tables
<1>5. AtWork(work, tasks)
  <2>1. tasks = <<>> /\ Len(tasks) = 0 /\ work = [w \in Workers |-> Idle]
    BY DEF Init
  <2>2. Idle \in [step : Steps, task : 0 .. 0] /\ Idle.step = "idle"
    BY DEF Idle, Steps
  <2>3. work \in [Workers -> [step : Steps, task : 0 .. Len(tasks)]]
    BY <2>1, <2>2
  <2>4. \A w \in Workers : work[w].step = "idle"
    BY <2>1, <2>2
  <2> QED
    BY <2>3, <2>4 DEF AtWork, Waiting
<1>6. LedgerHonest
  <2>1. ledger = {} /\ \A k \in DOMAIN bars : bars[k] = 0
    BY DEF Init
  <2> QED
    BY <2>1 DEF LedgerHonest
<1> QED
  BY <1>1, <1>2, <1>3, <1>4, <1>5, <1>6 DEF WalkInv

\* Pricing a sheet keeps the invariant.
LEMMA PlanStep ==
  ASSUME Hypotheses, WalkInv, NEW s \in Sheets, Plan(s)
  PROVE  WalkInv'
<1>0. WalkAssumption
  BY DEF Hypotheses
<1>1. UNCHANGED <<birth, bars, ledger, sealed, jobs, tasks, work, cut, faults>>
  BY DEF Plan, database, queue
<1> DEFINE p == [sheet |-> s, chunks |-> PlanExpiry(s) \cup (IF s.spot THEN PlanSpot(s) ELSE {})]
<1>2. draft' = {p}
  BY DEF Plan
<1>3. \A x \in p.chunks : x \in Chunk /\ OnGrid(x, s)
  <2> SUFFICES ASSUME NEW x \in PlanExpiry(s) \cup PlanSpot(s)
               PROVE  x \in Chunk /\ OnGrid(x, s)
    OBVIOUS
  <2>1. CASE x \in PlanSpot(s)
    BY <2>1, <1>0, SpotOnGrid
  <2>2. CASE x \in PlanExpiry(s)
    <3>1. PICK c \in Contracts, r \in s.res : x \in EmitChunks(s, c, r)
      BY <2>2 DEF PlanExpiry
    <3> QED
      BY <3>1, <1>0, EmitOnGrid
  <2> QED
    BY <2>1, <2>2
<1>4. Priced(p)
  BY <1>3 DEF Priced
<1> HIDE DEF p
<1>5. DraftShape'
  BY <1>2, <1>4 DEF DraftShape, Priced, OnGrid, IsPiece, Left, WindowEnd, WalkFloor, LifeFloor
<1>6. StoreShape' /\ Bounds' /\ LedgerHonest'
  BY <1>1 DEF WalkInv, StoreShape, Bounds, LedgerHonest, Life, Held
<1>7. Tables(jobs', tasks') /\ AtWork(work', tasks')
  BY <1>1 DEF WalkInv
<1> QED
  BY <1>5, <1>6, <1>7 DEF WalkInv

\* Committing the priced plan keeps it: the rows are those that were priced.
LEMMA CommitStep ==
  ASSUME Hypotheses, WalkInv, Commit
  PROVE  WalkInv'
<1>1. UNCHANGED <<birth, bars, ledger, sealed, work, cut, faults>> /\ draft' = {}
  BY DEF Commit, database
<1>2. PICK plan \in draft : IF plan.chunks = {} THEN UNCHANGED <<jobs, tasks>>
         ELSE /\ jobs' = Append(jobs, [sheet |-> plan.sheet, total |-> Cardinality(plan.chunks),
                                       retried |-> FALSE])
              /\ tasks' = tasks \o Rows(Len(jobs) + 1, plan.chunks)
  BY DEF Commit, queue
<1>3. Tables(jobs, tasks) /\ AtWork(work, tasks) /\ Priced(plan) /\ Len(jobs) < MaxJobs
  BY <1>2 DEF WalkInv, DraftShape, Commit
<1>4. StoreShape' /\ LedgerHonest' /\ DraftShape'
  BY <1>1 DEF WalkInv, StoreShape, LedgerHonest, Life, Held, DraftShape
<1>5. CASE plan.chunks = {}
  <2>1. UNCHANGED <<jobs, tasks>>
    BY <1>2, <1>5
  <2>2. Tables(jobs', tasks') /\ AtWork(work', tasks')
    BY <1>1, <1>3, <2>1
  <2>3. Bounds'
    BY <1>1, <2>1 DEF WalkInv, Bounds
  <2> QED
    BY <1>4, <2>2, <2>3 DEF WalkInv
<1>6. CASE plan.chunks # {}
  <2>1. /\ plan.sheet \in Sheets /\ plan.chunks \subseteq Chunk
        /\ \A x \in plan.chunks : OnGrid(x, plan.sheet)
    BY <1>3 DEF Priced
  <2>2. IsFiniteSet(plan.chunks)
    BY <2>1, ChunkFinite, FS_Subset
  <2>3. jobs \in Seq(JobRow)
    BY <1>3 DEF Tables
  <2>4. /\ Tables(jobs', tasks') /\ Len(jobs') = Len(jobs) + 1
        /\ Len(tasks) <= Len(tasks') /\ \A i \in DOMAIN tasks : tasks'[i] = tasks[i]
    <3> DEFINE S == plan.chunks
               s == plan.sheet
               ls == Append(jobs, [sheet |-> s, total |-> Cardinality(S), retried |-> FALSE])
               us == tasks \o Rows(Len(jobs) + 1, S)
    <3>1. jobs' = ls /\ tasks' = us
      BY <1>2, <1>6
    <3>2. s \in Sheets /\ S \subseteq Chunk /\ IsFiniteSet(S) /\ \A x \in S : OnGrid(x, s)
      BY <2>1, <2>2
    <3> HIDE DEF S, s
    <3>2a. /\ ls = Append(jobs, [sheet |-> s, total |-> Cardinality(S), retried |-> FALSE])
           /\ us = tasks \o Rows(Len(jobs) + 1, S)
      OBVIOUS
    <3>2b. \A j \in DOMAIN jobs : jobs[j].sheet = jobs[j].sheet /\ jobs[j].total = jobs[j].total
      OBVIOUS
    <3>3. Tables(ls, us) /\ Len(tasks) <= Len(us) /\ \A i \in DOMAIN tasks : us[i] = tasks[i]
      BY <1>3, <2>3, <3>2, <3>2b, MoreRows
    <3>4. Len(ls) = Len(jobs) + 1
      BY <2>3
    <3> HIDE DEF ls, us
    <3> QED
      BY <3>1, <3>3, <3>4
  <2>5. /\ Len(tasks') \in Nat /\ DOMAIN tasks' = 1 .. Len(tasks') /\ Len(tasks) \in Nat
        /\ DOMAIN tasks = 1 .. Len(tasks) /\ Len(jobs) \in Nat
        /\ DOMAIN jobs = 1 .. Len(jobs) /\ DOMAIN jobs' = 1 .. Len(jobs')
    BY <1>3, <2>4, Lengths
  <2>8. AtWork(work', tasks')
    BY <1>1, <1>3, <2>4, <2>5, WorkStays
  <2>9. Bounds'
    <3>1. DOMAIN jobs \subseteq DOMAIN jobs' /\ Len(jobs') <= MaxJobs
      BY <2>4, <2>5, <1>3 DEF Hypotheses, WalkAssumption
    <3> QED
      BY <1>1, <3>1 DEF WalkInv, Bounds
  <2> QED
    BY <1>4, <2>4, <2>8, <2>9 DEF WalkInv
<1> QED
  BY <1>5, <1>6

\* A retry keeps it: the copies lie on the same sheet, one for each failed row.
LEMMA RetryStep ==
  ASSUME Hypotheses, WalkInv, NEW j \in DOMAIN jobs, RetryFailed(j)
  PROVE  WalkInv'
<1> DEFINE failed == {i \in TasksOf(j) : tasks[i].state = "failed"}
           S == {[c |-> tasks[i].c, r |-> tasks[i].r, from |-> tasks[i].from,
                  to |-> tasks[i].to] : i \in failed}
           s == jobs[j].sheet
           ks == [jobs EXCEPT ![j].retried = TRUE]
<1>1. UNCHANGED <<birth, bars, ledger, sealed, draft, work, cut, faults>> /\ Len(jobs) < MaxJobs
  BY DEF RetryFailed, database
<1>2. jobs' = Append(ks, [sheet |-> s, total |-> Cardinality(failed), retried |-> FALSE])
      /\ tasks' = tasks \o Rows(Len(jobs) + 1, S)
  BY DEF RetryFailed
<1>3. Tables(jobs, tasks) /\ AtWork(work, tasks)
  BY DEF WalkInv
<1>4. /\ Len(jobs) \in Nat /\ DOMAIN jobs = 1 .. Len(jobs)
      /\ Len(tasks) \in Nat /\ DOMAIN tasks = 1 .. Len(tasks)
      /\ \A i \in DOMAIN jobs : jobs[i] \in JobRow
      /\ \A i \in DOMAIN tasks : tasks[i] \in TaskRow(Len(jobs))
  BY <1>3, Lengths
<1>5. failed \subseteq DOMAIN tasks /\ \A i \in failed : tasks[i].job = j
  BY DEF TasksOf
<1>6. s \in Sheets
  BY <1>4 DEF JobRow
<1>7. \A x \in S : x \in Chunk /\ OnGrid(x, s)
  <2> SUFFICES ASSUME NEW x \in S
               PROVE  x \in Chunk /\ OnGrid(x, s)
    OBVIOUS
  <2>1. PICK i \in failed : x = [c |-> tasks[i].c, r |-> tasks[i].r, from |-> tasks[i].from,
                                 to |-> tasks[i].to]
    OBVIOUS
  <2> HIDE DEF failed, S, s
  <2>2. tasks[i] \in TaskRow(Len(jobs)) /\ i \in DOMAIN tasks /\ tasks[i].job = j
    BY <1>4, <1>5, <2>1
  <2>3. OnGrid(tasks[i], s)
    BY <1>3, <2>2 DEF Tables, s
  <2>4. x.c = tasks[i].c /\ x.from = tasks[i].from /\ x.to = tasks[i].to
    BY <2>1
  <2> QED
    BY <2>1, <2>2, <2>3, <2>4, OnGridFields DEF TaskRow, Chunk
<1>8. IsFiniteSet(S) /\ Cardinality(S) = Cardinality(failed)
  <2> DEFINE f == [i \in failed |-> [c |-> tasks[i].c, r |-> tasks[i].r, from |-> tasks[i].from,
                                     to |-> tasks[i].to]]
  <2>1. IsFiniteSet(failed)
    <3>1. IsFiniteSet(DOMAIN tasks)
      BY <1>4, FS_Interval
    <3> QED
      BY <1>5, <3>1, FS_Subset
  <2>2. f \in [failed -> S] /\ \A x \in S : \E i \in failed : f[i] = x
    OBVIOUS
  <2>3. \A i, k \in failed : f[i] = f[k] => i = k
    <3> SUFFICES ASSUME NEW i \in failed, NEW k \in failed, f[i] = f[k]
                 PROVE  i = k
      OBVIOUS
    <3>1. tasks[i].c = tasks[k].c /\ tasks[i].r = tasks[k].r
          /\ tasks[i].from = tasks[k].from /\ tasks[i].to = tasks[k].to
      OBVIOUS
    <3>2. tasks[i].job = j /\ tasks[k].job = j /\ i \in DOMAIN tasks /\ k \in DOMAIN tasks
      BY <1>5
    <3> QED
      BY <3>1, <3>2, <1>3 DEF Tables, SameWindow
  <2> HIDE DEF f, S, failed
  <2>4. f \in Bijection(failed, S)
    BY <2>2, <2>3 DEF Bijection, Injection, Surjection, IsInjective
  <2>5. ExistsBijection(failed, S)
    BY <2>4 DEF ExistsBijection
  <2> QED
    BY <2>1, <2>5, FS_Bijection
<1>9. ks \in Seq(JobRow) /\ Len(ks) = Len(jobs)
      /\ \A i \in DOMAIN jobs : ks[i].sheet = jobs[i].sheet /\ ks[i].total = jobs[i].total
  <2>1. jobs \in Seq(JobRow) /\ jobs[j] \in JobRow
    BY <1>3, <1>4 DEF Tables
  <2> DEFINE one == [jobs[j] EXCEPT !.retried = TRUE]
  <2>2. one \in JobRow /\ one.sheet = jobs[j].sheet /\ one.total = jobs[j].total
    BY <2>1 DEF JobRow
  <2>3. ks = [jobs EXCEPT ![j] = one]
    OBVIOUS
  <2> HIDE DEF one, ks
  <2>4. ks \in Seq(JobRow) /\ Len(ks) = Len(jobs)
    <3> HIDE DEF JobRow
    <3> QED
      BY <2>1, <2>2, <2>3, <1>4
  <2>5. \A i \in DOMAIN jobs : ks[i] = IF i = j THEN one ELSE jobs[i]
    BY <2>3
  <2> QED
    BY <2>2, <2>4, <2>5
<1> DEFINE ls == Append(ks, [sheet |-> s, total |-> Cardinality(S), retried |-> FALSE])
           us == tasks \o Rows(Len(jobs) + 1, S)
<1>10. jobs' = ls /\ tasks' = us
  BY <1>2, <1>8
<1> HIDE DEF S, s, ks, failed
<1>11. Tables(ls, us) /\ Len(tasks) <= Len(us) /\ \A i \in DOMAIN tasks : us[i] = tasks[i]
  <2>1. S \subseteq Chunk /\ \A x \in S : OnGrid(x, s)
    BY <1>7
  <2>2. Tables(jobs, tasks) /\ s \in Sheets /\ IsFiniteSet(S)
    BY <1>3, <1>6, <1>8
  <2>3. ks \in Seq(JobRow) /\ Len(ks) = Len(jobs)
    BY <1>9
  <2>4. \A i \in DOMAIN jobs : ks[i].sheet = jobs[i].sheet /\ ks[i].total = jobs[i].total
    BY <1>9
  <2>5. /\ Tables(Append(ks, [sheet |-> s, total |-> Cardinality(S), retried |-> FALSE]),
                  tasks \o Rows(Len(jobs) + 1, S))
        /\ Len(tasks) <= Len(tasks \o Rows(Len(jobs) + 1, S))
        /\ \A i \in DOMAIN tasks : (tasks \o Rows(Len(jobs) + 1, S))[i] = tasks[i]
    <3> HIDE DEF ls, us
    <3> QED
      BY <2>1, <2>2, <2>3, <2>4, MoreRows, SMTT(30)
  <2> QED
    BY <2>5
<1>12. Len(ls) = Len(jobs) + 1
  BY <1>9
<1> HIDE DEF ls, us
<1>13. /\ Tables(jobs', tasks') /\ Len(jobs') = Len(jobs) + 1
       /\ Len(tasks) <= Len(tasks') /\ \A i \in DOMAIN tasks : tasks'[i] = tasks[i]
  BY <1>10, <1>11, <1>12
<1>14. /\ Len(tasks') \in Nat /\ DOMAIN tasks' = 1 .. Len(tasks') /\ DOMAIN jobs' = 1 .. Len(jobs')
  BY <1>13, Lengths
<1>15. AtWork(work', tasks')
  BY <1>1, <1>3, <1>4, <1>13, <1>14, WorkStays
<1>16. Bounds'
  <2>1. DOMAIN jobs \subseteq DOMAIN jobs' /\ Len(jobs') <= MaxJobs
    BY <1>1, <1>4, <1>13, <1>14 DEF Hypotheses, WalkAssumption
  <2> QED
    BY <1>1, <2>1 DEF WalkInv, Bounds
<1>17. StoreShape' /\ LedgerHonest' /\ DraftShape'
  BY <1>1, StoreStays, DraftStays DEF WalkInv
<1> QED
  BY <1>13, <1>15, <1>16, <1>17 DEF WalkInv

\* What a worker that holds a row knows of it.
LEMMA MineFacts ==
  ASSUME WalkInv, NEW w \in Workers, work[w].step # "idle"
  PROVE  /\ work[w].task \in DOMAIN tasks /\ work[w].task \in Nat
         /\ Mine(w) \in TaskRow(Len(jobs)) /\ Mine(w).job \in DOMAIN jobs
         /\ OnGrid(Mine(w), jobs[Mine(w).job].sheet)
         /\ work[w].step \in Waiting => Mine(w).c \in Contracts
<1>1. Tables(jobs, tasks) /\ AtWork(work, tasks)
  BY DEF WalkInv
<1>2. work[w].task \in DOMAIN tasks
  BY <1>1 DEF AtWork
<1>3. /\ tasks[work[w].task] \in TaskRow(Len(jobs)) /\ tasks[work[w].task].job \in DOMAIN jobs
      /\ DOMAIN tasks = 1 .. Len(tasks)
  BY <1>1, <1>2, Lengths
<1>4. OnGrid(tasks[work[w].task], jobs[tasks[work[w].task].job].sheet)
  BY <1>1, <1>2 DEF Tables
<1>5. work[w].step \in Waiting => tasks[work[w].task].c \in Contracts
  BY <1>1, <1>3 DEF AtWork, TaskRow, Series
<1>6. work[w].task \in Nat
  BY <1>2, <1>3
<1> QED
  BY <1>2, <1>3, <1>4, <1>5, <1>6 DEF Mine

\* Settling a row changes its state alone.
LEMMA FinishKeeps ==
  ASSUME WalkInv, NEW w \in Workers, work[w].step # "idle", NEW s \in States, Finish(w, s), jobs' = jobs
  PROVE  Tables(jobs', tasks') /\ AtWork(work', tasks')
<1>1. Tables(jobs, tasks) /\ AtWork(work, tasks)
  BY DEF WalkInv
<1> DEFINE i == work[w].task
           us == [tasks EXCEPT ![i].state = s]
<1>2. i \in DOMAIN tasks
  BY MineFacts
<1>3. tasks' = us /\ work' = [work EXCEPT ![w] = Idle]
  BY DEF Finish
<1> HIDE DEF i
<1>4. Tables(jobs, us) /\ AtWork(work, us)
  BY <1>1, <1>2, OneState
<1> HIDE DEF us
<1>5. Len(us) \in Nat
  BY <1>4, Lengths
<1>6. AtWork([work EXCEPT ![w] = Idle], us)
  BY <1>4, <1>5, WorkIdle
<1> QED
  BY <1>3, <1>4, <1>6

\* Leasing a row keeps the invariant.
LEMMA LeaseStep ==
  ASSUME Hypotheses, WalkInv, NEW w \in Workers, Lease(w)
  PROVE  WalkInv'
<1>1. UNCHANGED <<birth, bars, ledger, sealed, jobs, draft, cut, faults>>
  BY DEF Lease, database
<1>2. PICK i \in DOMAIN tasks : /\ tasks' = [tasks EXCEPT ![i].state = "leased"]
                                /\ work' = [work EXCEPT ![w] = [step |-> "leased", task |-> i]]
  BY DEF Lease
<1>3. Tables(jobs, tasks) /\ AtWork(work, tasks)
  BY DEF WalkInv
<1> DEFINE us == [tasks EXCEPT ![i].state = "leased"]
           e == [step |-> "leased", task |-> i]
<1>4. "leased" \in States
  BY DEF States
<1>5. Tables(jobs, us) /\ AtWork(work, us)
  BY <1>3, <1>4, OneState
<1>6. DOMAIN us = DOMAIN tasks
  OBVIOUS
<1> HIDE DEF us
<1>7. Len(us) \in Nat /\ DOMAIN us = 1 .. Len(us)
  BY <1>5, Lengths
<1>8. /\ e \in [step : Steps, task : 0 .. Len(us)] /\ e.step = "leased" /\ e.task = i
      /\ i \in DOMAIN us
  BY <1>6, <1>7 DEF Steps
<1> HIDE DEF e
<1>9. AtWork([work EXCEPT ![w] = e], us)
  <2>1. e.step \notin Waiting
    BY <1>8 DEF Waiting
  <2> QED
    BY <1>5, <1>8, <2>1, WorkSet
<1>10. Tables(jobs', tasks') /\ AtWork(work', tasks')
  BY <1>1, <1>2, <1>5, <1>9 DEF us, e
<1>11. StoreShape' /\ LedgerHonest' /\ DraftShape'
  BY <1>1, StoreStays, DraftStays DEF WalkInv
<1>12. Bounds'
  BY <1>1 DEF WalkInv, Bounds
<1> QED
  BY <1>10, <1>11, <1>12 DEF WalkInv

\* A request that fails keeps it.
LEMMA RequestFailsStep ==
  ASSUME Hypotheses, WalkInv, NEW w \in Workers, RequestFails(w)
  PROVE  WalkInv'
<1>1. /\ UNCHANGED <<birth, bars, ledger, sealed, jobs, draft, cut>> /\ faults' = faults + 1
      /\ faults < MaxFaults
      /\ work[w].step # "idle" /\ Finish(w, "failed")
  BY DEF RequestFails, database
<1>2. Tables(jobs', tasks') /\ AtWork(work', tasks')
  BY <1>1, FinishKeeps DEF States
<1>3. StoreShape' /\ LedgerHonest' /\ DraftShape'
  BY <1>1, StoreStays, DraftStays DEF WalkInv
<1>4. Bounds'
  <2>1. faults' \in 0 .. MaxFaults
    BY <1>1 DEF WalkInv, Bounds, Hypotheses, WalkAssumption
  <2> QED
    BY <1>1, <2>1 DEF WalkInv, Bounds
<1> QED
  BY <1>2, <1>3, <1>4 DEF WalkInv

\* So does the outcome.
LEMMA AckStep ==
  ASSUME Hypotheses, WalkInv, NEW w \in Workers, Ack(w)
  PROVE  WalkInv'
<1>1. /\ UNCHANGED <<birth, bars, ledger, sealed, jobs, draft, cut, faults>>
      /\ work[w].step # "idle" /\ (Finish(w, "empty") \/ Finish(w, "done"))
  BY DEF Ack, database
<1>2. Tables(jobs', tasks') /\ AtWork(work', tasks')
  BY <1>1, FinishKeeps DEF States
<1>3. StoreShape' /\ LedgerHonest' /\ DraftShape'
  BY <1>1, StoreStays, DraftStays DEF WalkInv
<1>4. Bounds'
  BY <1>1 DEF WalkInv, Bounds
<1> QED
  BY <1>2, <1>3, <1>4 DEF WalkInv

Keys == Series \X Resolutions \X Days

\* The transaction of one window leaves the ledger honest.
LEMMA IngestKeeps ==
  ASSUME Hypotheses, WalkInv, NEW w \in Workers, work[w].step # "idle", IngestCandles(w)
  PROVE  StoreShape' /\ LedgerHonest'
<1> DEFINE t == Mine(w)
           got == Response(t)
           row == [c |-> t.c, r |-> t.r, from |-> t.from, to |-> t.to,
                   status |-> IF got = {} THEN "empty" ELSE "ok"]
           others == {x \in ledger : <<x.c, x.r, x.from, x.to>> # <<t.c, t.r, t.from, t.to>>}
<1>1. /\ bars' = IF row \in ledger THEN bars ELSE Stored(t, got)
      /\ ledger' = others \cup {row}
      /\ birth' = birth /\ sealed' = sealed
  BY DEF IngestCandles
<1>2. t \in TaskRow(Len(jobs))
  BY MineFacts
<1>3. /\ t.c \in Series /\ t.r \in Resolutions /\ t.from \in Days /\ t.to \in Days
  BY <1>2 DEF TaskRow
<1>4. got = Life(t.c) \cap (t.from .. t.to)
  BY DEF Response
<1>5. /\ row \in LedgerRow /\ row.c = t.c /\ row.r = t.r /\ row.from = t.from /\ row.to = t.to
      /\ (row.status = "empty") <=> (got = {})
  <2>1. row.c = t.c /\ row.r = t.r /\ row.from = t.from /\ row.to = t.to
        /\ row.status = IF got = {} THEN "empty" ELSE "ok"
    OBVIOUS
  <2> HIDE DEF t, got
  <2> QED
    BY <1>3, <2>1 DEF LedgerRow
<1>6. /\ birth \in [Contracts -> Births] /\ bars \in [Keys -> Nat] /\ ledger \subseteq LedgerRow
      /\ sealed \subseteq Contracts /\ DOMAIN bars = Keys
  BY DEF WalkInv, StoreShape, Keys
<1>7. LastDay \in Nat
  BY DEF Hypotheses, WalkAssumption
<1> HIDE DEF t, got, row
<1>8. \A x \in ledger : \A d \in x.from .. x.to :
        /\ <<x.c, x.r, d>> \in Keys
        /\ bars[<<x.c, x.r, d>>] = IF d \in Life(x.c) THEN 1 ELSE 0
  <2> SUFFICES ASSUME NEW x \in ledger, NEW d \in x.from .. x.to
               PROVE  /\ <<x.c, x.r, d>> \in Keys
                      /\ bars[<<x.c, x.r, d>>] = IF d \in Life(x.c) THEN 1 ELSE 0
    OBVIOUS
  <2>1. x.c \in Series /\ x.r \in Resolutions /\ x.from \in Days /\ x.to \in Days
    BY <1>6 DEF LedgerRow
  <2>2. d \in Days
    BY <2>1, <1>7 DEF Days
  <2> QED
    BY <2>1, <2>2 DEF WalkInv, LedgerHonest, Keys
<1>9. ledger' \subseteq LedgerRow
  BY <1>1, <1>5, <1>6
<1>10. \A d \in t.from .. t.to : d \in Days /\ <<t.c, t.r, d>> \in Keys
                                /\ d \in WindowBounds(t.from, t.to)
                                /\ (d \in got <=> d \in Life(t.c))
  <2> SUFFICES ASSUME NEW d \in t.from .. t.to
               PROVE  d \in Days /\ <<t.c, t.r, d>> \in Keys /\ d \in WindowBounds(t.from, t.to)
                      /\ (d \in got <=> d \in Life(t.c))
    OBVIOUS
  <2>1. d \in Days
    BY <1>3, <1>7 DEF Days
  <2>2. d \in WindowBounds(t.from, t.to)
    BY <1>3, <1>7, <2>1 DEF WindowBounds, Days
  <2> QED
    BY <1>3, <1>4, <2>1, <2>2 DEF Keys
<1>11. \A d \in WindowBounds(t.from, t.to) : d \in t.from .. t.to
  BY <1>3, <1>7 DEF WindowBounds, Days
<1>12. CASE row \in ledger
  <2>1. bars' = bars /\ ledger' \subseteq ledger
    BY <1>1, <1>12
  <2>2. StoreShape'
    BY <1>1, <1>6, <1>9, <2>1 DEF StoreShape, Keys
  <2>3. \A x \in ledger' :
           /\ \A d \in x.from .. x.to : bars'[<<x.c, x.r, d>>] = IF d \in Life(x.c)' THEN 1 ELSE 0
           /\ (x.status = "empty") <=> (Life(x.c)' \cap (x.from .. x.to) = {})
    BY <1>1, <2>1 DEF WalkInv, LedgerHonest, Life
  <2>4. \A k \in DOMAIN bars' :
          bars'[k] > 0 => \E x \in Held(k[1], k[2])' : k[3] \in x.from .. x.to
    <3> SUFFICES ASSUME NEW k \in DOMAIN bars, bars[k] > 0
                 PROVE  \E x \in Held(k[1], k[2])' : k[3] \in x.from .. x.to
      BY <2>1
    <3>1. PICK x \in ledger : x.c = k[1] /\ x.r = k[2] /\ k[3] \in x.from .. x.to
      BY DEF WalkInv, LedgerHonest, Held
    <3>2. CASE <<x.c, x.r, x.from, x.to>> = <<t.c, t.r, t.from, t.to>>
      <4>1. row.c = k[1] /\ row.r = k[2] /\ k[3] \in row.from .. row.to /\ row \in ledger'
        BY <1>1, <1>5, <3>1, <3>2
      <4> QED
        BY <4>1 DEF Held
    <3>3. CASE <<x.c, x.r, x.from, x.to>> # <<t.c, t.r, t.from, t.to>>
      <4>1. x \in ledger'
        BY <1>1, <3>3
      <4> QED
        BY <3>1, <4>1 DEF Held
    <3> QED
      BY <3>2, <3>3
  <2> QED
    BY <2>2, <2>3, <2>4 DEF LedgerHonest
<1>13. CASE row \notin ledger
  <2>1. bars' = [k \in Keys |->
                   IF k[1] = t.c /\ k[2] = t.r /\ k[3] \in WindowBounds(t.from, t.to)
                     THEN IF k[3] \in got THEN 1 ELSE 0
                     ELSE bars[k]]
    BY <1>1, <1>6, <1>13 DEF Stored
  <2>2. bars' \in [Keys -> Nat] /\ DOMAIN bars' = Keys
    BY <1>6, <2>1
  <2>3. StoreShape'
    BY <1>1, <1>6, <1>9, <2>2 DEF StoreShape, Keys
  <2>4. \A x \in ledger' :
           /\ \A d \in x.from .. x.to : bars'[<<x.c, x.r, d>>] = IF d \in Life(x.c) THEN 1 ELSE 0
           /\ (x.status = "empty") <=> (Life(x.c) \cap (x.from .. x.to) = {})
    <3> SUFFICES ASSUME NEW x \in ledger'
                 PROVE  /\ \A d \in x.from .. x.to :
                             bars'[<<x.c, x.r, d>>] = IF d \in Life(x.c) THEN 1 ELSE 0
                        /\ (x.status = "empty") <=> (Life(x.c) \cap (x.from .. x.to) = {})
      OBVIOUS
    <3>1. CASE x = row
      <4>1. \A d \in t.from .. t.to : bars'[<<t.c, t.r, d>>] = IF d \in Life(t.c) THEN 1 ELSE 0
        <5> SUFFICES ASSUME NEW d \in t.from .. t.to
                     PROVE  bars'[<<t.c, t.r, d>>] = IF d \in Life(t.c) THEN 1 ELSE 0
          OBVIOUS
        <5> DEFINE k == <<t.c, t.r, d>>
        <5>1. k \in Keys /\ k[1] = t.c /\ k[2] = t.r /\ k[3] = d
          BY <1>10
        <5> HIDE DEF k
        <5>2. bars'[k] = IF d \in Life(t.c) THEN 1 ELSE 0
          BY <1>10, <2>1, <5>1
        <5> QED
          BY <5>2 DEF k
      <4> QED
        BY <3>1, <4>1, <1>4, <1>5
    <3>2. CASE x \in ledger
      <4>1. (x.status = "empty") <=> (Life(x.c) \cap (x.from .. x.to) = {})
        BY <3>2 DEF WalkInv, LedgerHonest
      <4>2. ASSUME NEW d \in x.from .. x.to
            PROVE  bars'[<<x.c, x.r, d>>] = IF d \in Life(x.c) THEN 1 ELSE 0
        <5> DEFINE k == <<x.c, x.r, d>>
        <5>1. /\ k \in Keys /\ k[1] = x.c /\ k[2] = x.r /\ k[3] = d
              /\ bars[k] = IF d \in Life(x.c) THEN 1 ELSE 0
          BY <1>8, <3>2, <4>2
        <5> HIDE DEF k
        <5>2. CASE x.c = t.c /\ x.r = t.r /\ d \in WindowBounds(t.from, t.to)
          <6>1. d \in got <=> d \in Life(x.c)
            BY <1>10, <1>11, <5>2
          <6> QED
            BY <2>1, <5>1, <5>2, <6>1 DEF k
        <5>3. CASE ~(x.c = t.c /\ x.r = t.r /\ d \in WindowBounds(t.from, t.to))
          BY <2>1, <5>1, <5>3 DEF k
        <5> QED
          BY <5>2, <5>3
      <4> QED
        BY <4>1, <4>2
    <3> QED
      BY <3>1, <3>2, <1>1
  <2>5. \A k \in DOMAIN bars' :
          bars'[k] > 0 => \E x \in Held(k[1], k[2])' : k[3] \in x.from .. x.to
    <3> SUFFICES ASSUME NEW k \in Keys, bars'[k] > 0
                 PROVE  \E x \in Held(k[1], k[2])' : k[3] \in x.from .. x.to
      BY <2>2
    <3>1. CASE k[1] = t.c /\ k[2] = t.r /\ k[3] \in t.from .. t.to
      <4>1. row.c = k[1] /\ row.r = k[2] /\ k[3] \in row.from .. row.to /\ row \in ledger'
        BY <1>1, <1>5, <3>1
      <4> QED
        BY <4>1 DEF Held
    <3>2. CASE ~(k[1] = t.c /\ k[2] = t.r /\ k[3] \in t.from .. t.to)
      <4>1. bars[k] > 0
        BY <1>11, <2>1, <3>2
      <4>2. PICK x \in ledger : x.c = k[1] /\ x.r = k[2] /\ k[3] \in x.from .. x.to
        BY <1>6, <4>1 DEF WalkInv, LedgerHonest, Held
      <4>3. x \in ledger'
        BY <1>1, <3>2, <4>2
      <4> QED
        BY <4>2, <4>3 DEF Held
    <3> QED
      BY <3>1, <3>2
  <2>6. \A c : Life(c)' = Life(c)
    BY <1>1 DEF Life
  <2> QED
    BY <2>3, <2>4, <2>5, <2>6 DEF LedgerHonest
<1> QED
  BY <1>12, <1>13

\* Storing an answer keeps it.
LEMMA HandleStep ==
  ASSUME Hypotheses, WalkInv, NEW w \in Workers, HandleCandleChunk(w) \/ HandleSpotChunk(w)
  PROVE  WalkInv'
<1>1. /\ work[w].step = "leased" /\ IngestCandles(w)
      /\ (Mine(w).c # Spot /\ GoTo(w, "stored")) \/ GoTo(w, "decided")
  BY DEF HandleCandleChunk, HandleSpotChunk
<1>2. UNCHANGED <<sealed, jobs, tasks, draft, cut, faults>>
  BY <1>1 DEF IngestCandles, queue
<1>3. Tables(jobs, tasks) /\ AtWork(work, tasks)
  BY DEF WalkInv
<1>4. StoreShape' /\ LedgerHonest'
  BY <1>1, IngestKeeps
<1>5. DraftShape' /\ Bounds'
  BY <1>2 DEF WalkInv, DraftShape, Priced, OnGrid, IsPiece, Left, WindowEnd, WalkFloor, LifeFloor, Bounds
<1>6. "stored" \in Steps \ {"idle"} /\ "decided" \in Steps \ {"idle"} /\ "decided" \notin Waiting
  BY DEF Steps, Waiting
<1>7. AtWork(work', tasks)
  <2>1. CASE Mine(w).c # Spot /\ GoTo(w, "stored")
    <3>1. work' = [work EXCEPT ![w].step = "stored"] /\ tasks[work[w].task].c # Spot
      BY <2>1 DEF GoTo, Mine
    <3> QED
      BY <1>1, <1>3, <1>6, <3>1, WorkGoes
  <2>2. CASE GoTo(w, "decided")
    <3>1. work' = [work EXCEPT ![w].step = "decided"]
      BY <2>2 DEF GoTo
    <3> QED
      BY <1>1, <1>3, <1>6, <3>1, WorkGoes
  <2> QED
    BY <1>1, <2>1, <2>2
<1>8. Tables(jobs', tasks') /\ AtWork(work', tasks')
  BY <1>2, <1>3, <1>7
<1> QED
  BY <1>4, <1>5, <1>8 DEF WalkInv

\* A row that waits for a decision moves on.
LEMMA MovesOn ==
  ASSUME WalkInv, NEW w \in Workers, NEW s \in {"checking", "sealing", "decided"},
         work[w].step \in Waiting, GoTo(w, s)
  PROVE  AtWork(work', tasks)
<1>1. AtWork(work, tasks)
  BY DEF WalkInv
<1>2. work[w].step # "idle" /\ s \in Steps \ {"idle"}
  BY DEF Waiting, Steps
<1>3. tasks[work[w].task].c # Spot
  BY <1>1 DEF AtWork
<1>4. work' = [work EXCEPT ![w].step = s]
  BY DEF GoTo
<1> QED
  BY <1>1, <1>2, <1>3, <1>4, WorkGoes

\* Checking for open rows, sealing and a planning step that fails keep it.
LEMMA CheckOrSealStep ==
  ASSUME Hypotheses, WalkInv, NEW w \in Workers, CheckIdle(w) \/ Seal(w) \/ PlanningFails(w)
  PROVE  WalkInv'
<1>1. /\ work[w].step \in Waiting
      /\ GoTo(w, "checking") \/ GoTo(w, "sealing") \/ GoTo(w, "decided")
  BY DEF CheckIdle, Seal, PlanningFails, Waiting
<1>2. UNCHANGED <<birth, bars, ledger, jobs, tasks, draft>>
  BY DEF CheckIdle, Seal, PlanningFails, database, queue
<1>3. AtWork(work', tasks)
  BY <1>1, MovesOn
<1>4. Mine(w).c \in Contracts /\ Mine(w).job \in DOMAIN jobs /\ Mine(w).r \in Resolutions
  <2>1. work[w].step # "idle"
    BY <1>1 DEF Waiting
  <2> QED
    BY <1>1, <2>1, MineFacts DEF TaskRow
<1>5. Tables(jobs', tasks') /\ AtWork(work', tasks')
  BY <1>2, <1>3 DEF WalkInv
<1>6. LedgerHonest' /\ DraftShape'
  <2>1. LedgerHonest'
    BY <1>2 DEF WalkInv, LedgerHonest, Life, Held
  <2> QED
    BY <1>2, <2>1, DraftStays DEF WalkInv
<1>7. StoreShape'
  <2>1. sealed' \subseteq Contracts
    BY <1>4 DEF CheckIdle, Seal, PlanningFails, WalkInv, StoreShape
  <2> QED
    BY <1>2, <2>1 DEF WalkInv, StoreShape
<1>8. Bounds'
  <2>1. CASE CheckIdle(w) \/ Seal(w)
    BY <1>2, <2>1 DEF CheckIdle, Seal, WalkInv, Bounds
  <2>2. CASE PlanningFails(w)
    <3>1. cut' = cut \cup {<<Mine(w).job, Mine(w).c, Mine(w).r>>} /\ faults' = faults + 1 /\ faults < MaxFaults
      BY <2>2 DEF PlanningFails
    <3> QED
      BY <1>2, <1>4, <3>1 DEF WalkInv, Bounds, Hypotheses, WalkAssumption
  <2> QED
    BY <2>1, <2>2
<1> QED
  BY <1>5, <1>6, <1>7, <1>8 DEF WalkInv

\* A kill and a restart keep it: the claims come back as they were.
LEMMA CrashStep ==
  ASSUME Hypotheses, WalkInv, Crash
  PROVE  WalkInv'
<1> DEFINE us == [i \in DOMAIN tasks |->
         IF tasks[i].state = "leased" THEN [tasks[i] EXCEPT !.state = "pending"] ELSE tasks[i]]
<1>1. /\ UNCHANGED <<birth, bars, ledger, sealed, jobs, cut>> /\ draft' = {}
      /\ faults' = faults + 1 /\ faults < MaxFaults
      /\ work' = [w \in Workers |-> Idle] /\ tasks' = us
  BY DEF Crash, database
<1>2. Tables(jobs, tasks) /\ AtWork(work, tasks)
  BY DEF WalkInv
<1>3. \A i \in DOMAIN tasks : \E s \in States : us[i] = [tasks[i] EXCEPT !.state = s]
  <2> SUFFICES ASSUME NEW i \in DOMAIN tasks
               PROVE  \E s \in States : us[i] = [tasks[i] EXCEPT !.state = s]
    OBVIOUS
  <2>1. tasks[i] \in TaskRow(Len(jobs))
    BY <1>2, Lengths
  <2>2. tasks[i].state \in States /\ tasks[i] = [tasks[i] EXCEPT !.state = tasks[i].state]
        /\ "pending" \in States
    BY <2>1 DEF TaskRow, States
  <2> QED
    BY <2>2
<1>4. DOMAIN us = DOMAIN tasks /\ us = [i \in DOMAIN tasks |-> us[i]]
  OBVIOUS
<1> HIDE DEF us
<1>5. Tables(jobs, us) /\ AtWork(work, us)
  BY <1>2, <1>3, <1>4, StatesKept
<1>6. AtWork([w \in Workers |-> Idle], us)
  <2>1. Len(us) \in Nat
    BY <1>5, Lengths
  <2>2. Idle \in [step : Steps, task : 0 .. Len(us)] /\ Idle.step = "idle"
    BY <2>1 DEF Idle, Steps
  <2> DEFINE wk == [w \in Workers |-> Idle]
  <2>3. wk \in [Workers -> [step : Steps, task : 0 .. Len(us)]] /\ \A w \in Workers : wk[w] = Idle
    BY <2>2
  <2> HIDE DEF wk
  <2>4. AtWork(wk, us)
    BY <2>2, <2>3 DEF AtWork, Waiting
  <2> QED
    BY <2>4 DEF wk
<1>7. StoreShape' /\ LedgerHonest' /\ DraftShape'
  <2>1. DraftShape'
    BY <1>1 DEF DraftShape
  <2> QED
    BY <1>1, <2>1, StoreStays DEF WalkInv
<1>8. Bounds'
  <2>1. faults' \in 0 .. MaxFaults
    BY <1>1 DEF WalkInv, Bounds, Hypotheses, WalkAssumption
  <2> QED
    BY <1>1, <2>1 DEF WalkInv, Bounds
<1> QED
  BY <1>1, <1>5, <1>6, <1>7, <1>8 DEF WalkInv

\* Skipping older rows changes their states alone.
LEMMA SkipKeeps ==
  ASSUME WalkInv, NEW t, SkipOlderChunks(t)
  PROVE  Tables(jobs', tasks') /\ AtWork(work, tasks')
<1> DEFINE us == [i \in DOMAIN tasks |->
       IF /\ tasks[i].state = "pending" /\ tasks[i].job = t.job
          /\ tasks[i].c = t.c /\ tasks[i].r = t.r /\ tasks[i].to < t.from
         THEN [tasks[i] EXCEPT !.state = "skipped"] ELSE tasks[i]]
<1>1. tasks' = us /\ jobs' = jobs
  BY DEF SkipOlderChunks
<1>2. Tables(jobs, tasks) /\ AtWork(work, tasks)
  BY DEF WalkInv
<1>3. \A i \in DOMAIN tasks : \E s \in States : us[i] = [tasks[i] EXCEPT !.state = s]
  <2> SUFFICES ASSUME NEW i \in DOMAIN tasks
               PROVE  \E s \in States : us[i] = [tasks[i] EXCEPT !.state = s]
    OBVIOUS
  <2>1. tasks[i] \in TaskRow(Len(jobs))
    BY <1>2, Lengths
  <2>2. tasks[i].state \in States /\ tasks[i] = [tasks[i] EXCEPT !.state = tasks[i].state]
        /\ "skipped" \in States
    BY <2>1 DEF TaskRow, States
  <2> QED
    BY <2>2
<1>4. DOMAIN us = DOMAIN tasks /\ us = [i \in DOMAIN tasks |-> us[i]]
  OBVIOUS
<1> HIDE DEF us
<1>5. Tables(jobs, us) /\ AtWork(work, us)
  BY <1>2, <1>3, <1>4, StatesKept
<1> QED
  BY <1>1, <1>5

\* The follow-up lies on the sheet's grid, one window further back at least, and is not
\* inserted twice.
LEMMA InsertKeeps ==
  ASSUME Hypotheses, WalkInv, NEW w \in Workers, work[w].step = "stored",
         NEW x \in OlderWindows(Mine(w)), InsertFollowup(Mine(w), x)
  PROVE  /\ Tables(jobs', tasks') /\ Len(jobs') = Len(jobs)
         /\ Len(tasks) <= Len(tasks') /\ \A i \in DOMAIN tasks : tasks'[i] = tasks[i]
<1>0. WalkAssumption
  BY DEF Hypotheses
<1> DEFINE t == Mine(w)
           s == jobs[t.job].sheet
           lo == WalkFloor(s)
           hi == WindowEnd(s)
           grid == Grid(lo, t.from - 1, t.to - t.from + 1)
           row == [job |-> t.job, c |-> t.c, r |-> t.r, from |-> x.from, to |-> x.to,
                   state |-> "pending"]
<1>1. Tables(jobs, tasks)
  BY DEF WalkInv
<1>2. /\ Len(jobs) \in Nat /\ DOMAIN jobs = 1 .. Len(jobs)
      /\ Len(tasks) \in Nat /\ DOMAIN tasks = 1 .. Len(tasks)
      /\ \A j \in DOMAIN jobs : jobs[j] \in JobRow
      /\ \A i \in DOMAIN tasks : tasks[i] \in TaskRow(Len(jobs))
  BY <1>1, Lengths
<1>3. t \in TaskRow(Len(jobs)) /\ t.job \in DOMAIN jobs /\ OnGrid(t, s) /\ t.c \in Contracts
  BY MineFacts DEF Waiting
<1>4. s \in Sheets
  BY <1>2, <1>3 DEF JobRow
<1>5. t.c \in Series /\ t.r \in Resolutions /\ t.job \in 1 .. Len(jobs) /\ t.c # Spot
  BY <1>0, <1>3 DEF TaskRow, WalkAssumption
<1>6. Left(t.c, s) = lo
  BY <1>5 DEF Left
<1>7. PICK i \in DOMAIN grid : x = grid[i]
  BY DEF OlderWindows
<1> HIDE DEF t
<1>8. lo \in Int /\ hi \in Int
  <2> HIDE DEF s
  <2>1. Left(t.c, s) \in Days /\ WindowEnd(s) \in Days
    BY <1>0, <1>4, <1>5, LeftFacts, SheetFacts
  <2> HIDE DEF lo
  <2> QED
    BY <1>6, <2>1 DEF Days
<1>9. PICK n \in Nat : IsPiece(t, lo, hi, n)
  BY <1>3, <1>6 DEF OnGrid
<1> HIDE DEF lo, hi, s
<1>10. i \in Nat \ {0} /\ IsPiece(x, lo, hi, n + i)
  BY <1>0, <1>7, <1>8, <1>9, OlderIsPieces
<1> HIDE DEF grid
<1>11. n + i \in Nat /\ IsPiece(x, Left(t.c, s), WindowEnd(s), n + i)
  BY <1>6, <1>10 DEF hi
<1> DEFINE y == [c |-> t.c, r |-> t.r, from |-> x.from, to |-> x.to]
<1>12. y \in Chunk /\ OnGrid(y, s)
  BY <1>0, <1>4, <1>5, <1>11, ChunkOfPiece
<1>13. /\ row.job = t.job /\ row.c = t.c /\ row.r = t.r /\ row.from = x.from /\ row.to = x.to
       /\ row.state = "pending" /\ y.c = t.c /\ y.from = x.from /\ y.to = x.to
  OBVIOUS
<1>14. row \in TaskRow(Len(jobs))
  BY <1>5, <1>12 DEF TaskRow, Chunk, States
<1>15. OnGrid(row, s)
  BY <1>12, <1>13, OnGridFields
<1>16. CASE \E k \in DOMAIN tasks : [tasks[k] EXCEPT !.state = "pending"] = row
  <2>1. tasks' = tasks /\ jobs' = jobs
    BY <1>16 DEF InsertFollowup, queue, t
  <2> QED
    BY <2>1, <1>1, <1>2
<1>17. CASE ~ \E k \in DOMAIN tasks : [tasks[k] EXCEPT !.state = "pending"] = row
  <2>1. tasks' = Append(tasks, row) /\ jobs' = [jobs EXCEPT ![t.job].total = @ + 1]
    BY <1>17 DEF InsertFollowup, t
  <2>2. \A k \in DOMAIN tasks : ~SameWindow(tasks[k], row)
    <3> SUFFICES ASSUME NEW k \in DOMAIN tasks, SameWindow(tasks[k], row)
                 PROVE  FALSE
      OBVIOUS
    <3>1. tasks[k] \in TaskRow(Len(jobs))
      BY <1>2
    <3>2. [tasks[k] EXCEPT !.state = "pending"] = row
      BY <1>13, <3>1 DEF SameWindow, TaskRow
    <3> QED
      BY <1>17, <3>2
  <2> HIDE DEF row
  <2>3. Tables([jobs EXCEPT ![t.job].total = @ + 1], Append(tasks, row))
    <3>1. OnGrid(row, jobs[t.job].sheet)
      BY <1>15 DEF s
    <3> QED
      BY <1>1, <1>5, <1>13, <1>14, <2>2, <3>1, OneMore
  <2>4. Tables(jobs', tasks')
    BY <2>1, <2>3
  <2>5. Len(jobs') = Len(jobs)
    BY <2>1
  <2>6. tasks \in Seq(TaskRow(Len(jobs)))
    BY <1>1 DEF Tables
  <2>7. Len(tasks) <= Len(tasks') /\ \A k \in DOMAIN tasks : tasks'[k] = tasks[k]
    BY <1>2, <1>14, <2>1, <2>6
  <2> QED
    BY <2>4, <2>5, <2>7
<1> QED
  BY <1>16, <1>17

\* The decision on the walk keeps the invariant.
LEMMA DecideStep ==
  ASSUME Hypotheses, WalkInv, NEW w \in Workers, DecideBackward(w)
  PROVE  WalkInv'
<1> DEFINE t == Mine(w)
<1>1. /\ work[w].step = "stored" /\ work[w].step \in Waiting
      /\ UNCHANGED <<birth, bars, ledger, sealed, draft, cut, faults>>
  BY DEF DecideBackward, database, Waiting
<1>2. \/ SkipOlderChunks(t) /\ GoTo(w, "checking")
      \/ GoTo(w, "checking") /\ tasks' = tasks /\ jobs' = jobs
      \/ (\E x \in OlderWindows(t) : InsertFollowup(t, x)) /\ GoTo(w, "decided")
  BY DEF DecideBackward, queue
<1>3. Tables(jobs, tasks) /\ AtWork(work, tasks)
  BY DEF WalkInv
<1>4. AtWork(work', tasks)
  BY <1>1, <1>2, MovesOn
<1>5. /\ Tables(jobs', tasks') /\ Len(jobs') = Len(jobs)
      /\ Len(tasks) <= Len(tasks') /\ \A i \in DOMAIN tasks : tasks'[i].c = tasks[i].c
  <2>1. CASE SkipOlderChunks(t)
    <3>1. Tables(jobs', tasks') /\ jobs' = jobs
      BY <2>1, SkipKeeps DEF SkipOlderChunks
    <3>2. DOMAIN tasks' = DOMAIN tasks
      BY <2>1 DEF SkipOlderChunks
    <3>3. \A i \in DOMAIN tasks : tasks'[i].c = tasks[i].c
      <4> SUFFICES ASSUME NEW i \in DOMAIN tasks
                   PROVE  tasks'[i].c = tasks[i].c
        OBVIOUS
      <4>1. tasks[i] \in TaskRow(Len(jobs))
        BY <1>3, Lengths
      <4>2. tasks'[i] = tasks[i] \/ tasks'[i] = [tasks[i] EXCEPT !.state = "skipped"]
        BY <2>1 DEF SkipOlderChunks
      <4> QED
        BY <4>1, <4>2 DEF TaskRow
    <3>4. Len(tasks') = Len(tasks) /\ Len(tasks) \in Nat
      <4>1. /\ Len(tasks') \in Nat /\ DOMAIN tasks' = 1 .. Len(tasks')
            /\ Len(tasks) \in Nat /\ DOMAIN tasks = 1 .. Len(tasks)
        BY <1>3, <3>1, Lengths
      <4>2. \A a, b \in Nat : 1 .. a = 1 .. b => a = b
        <5> SUFFICES ASSUME NEW a \in Nat, NEW b \in Nat, 1 .. a = 1 .. b, a # b
                     PROVE  FALSE
          OBVIOUS
        <5>2. a \in 1 .. b => a <= b
          OBVIOUS
        <5>3. b \in 1 .. a => b <= a
          OBVIOUS
        <5>4. (a > 0 => a \in 1 .. a) /\ (b > 0 => b \in 1 .. b)
          OBVIOUS
        <5> QED
          BY <5>2, <5>3, <5>4
      <4> QED
        BY <3>2, <4>1, <4>2
    <3> QED
      BY <3>1, <3>3, <3>4
  <2>2. CASE tasks' = tasks /\ jobs' = jobs
    BY <2>2, <1>3, Lengths
  <2>3. CASE \E x \in OlderWindows(t) : InsertFollowup(t, x)
    <3>1. PICK x \in OlderWindows(t) : InsertFollowup(t, x)
      BY <2>3
    <3>2. /\ Tables(jobs', tasks') /\ Len(jobs') = Len(jobs)
          /\ Len(tasks) <= Len(tasks') /\ \A i \in DOMAIN tasks : tasks'[i] = tasks[i]
      BY <1>1, <3>1, InsertKeeps
    <3> QED
      BY <3>2
  <2> QED
    BY <1>2, <2>1, <2>2, <2>3
<1>6. /\ Len(tasks) \in Nat /\ DOMAIN tasks = 1 .. Len(tasks)
      /\ Len(tasks') \in Nat /\ DOMAIN tasks' = 1 .. Len(tasks')
      /\ DOMAIN jobs = 1 .. Len(jobs) /\ DOMAIN jobs' = 1 .. Len(jobs')
  BY <1>3, <1>5, Lengths
<1>7. AtWork(work', tasks')
  BY <1>4, <1>5, <1>6, WorkStays
<1>8. StoreShape' /\ LedgerHonest' /\ DraftShape'
  BY <1>1, StoreStays, DraftStays DEF WalkInv
<1>9. Bounds'
  <2>1. DOMAIN jobs' = DOMAIN jobs
    BY <1>5, <1>6
  <2> QED
    BY <1>1, <1>5, <2>1 DEF WalkInv, Bounds
<1> QED
  BY <1>5, <1>7, <1>8, <1>9 DEF WalkInv

\* Every step keeps the invariant.
LEMMA StepWalk ==
  ASSUME Hypotheses, WalkInv, [Next]_vars
  PROVE  WalkInv'
<1>1. CASE \E s \in Sheets : Plan(s)
  BY <1>1, PlanStep
<1>2. CASE Commit
  BY <1>2, CommitStep
<1>3. CASE \E j \in DOMAIN jobs : RetryFailed(j)
  BY <1>3, RetryStep
<1>4. CASE \E w \in Workers : Lease(w) \/ RequestFails(w) \/ PlanningFails(w)
  BY <1>4, LeaseStep, RequestFailsStep, CheckOrSealStep
<1>5. CASE \E w \in Workers : Handle(w)
  BY <1>5, HandleStep, DecideStep, CheckOrSealStep, AckStep DEF Handle
<1>6. CASE Crash
  BY <1>6, CrashStep
<1>7. CASE UNCHANGED vars
  <2>1. UNCHANGED <<birth, bars, ledger, sealed, jobs, tasks, draft, work, cut, faults>>
    BY <1>7 DEF vars, database, queue
  <2>2. StoreShape' /\ LedgerHonest' /\ DraftShape'
    BY <2>1, StoreStays, DraftStays DEF WalkInv
  <2>3. Bounds'
    BY <2>1 DEF WalkInv, Bounds
  <2> QED
    BY <2>1, <2>2, <2>3 DEF WalkInv
<1> QED
  BY <1>1, <1>2, <1>3, <1>4, <1>5, <1>6, <1>7 DEF Next

\* Rows on one grid that are not twins share no day and stay on their sheet.
LEMMA InvApart ==
  ASSUME Hypotheses, WalkInv
  PROVE  WalksApart
<1>0. WalkAssumption
  BY DEF Hypotheses
<1>1. Tables(jobs, tasks)
  BY DEF WalkInv
<1>2. \A i \in DOMAIN tasks :
        /\ tasks[i].job \in DOMAIN jobs /\ tasks[i] \in TaskRow(Len(jobs))
        /\ jobs[tasks[i].job].sheet \in Sheets /\ tasks[i].c \in Series
        /\ OnGrid(tasks[i], jobs[tasks[i].job].sheet)
  <2> SUFFICES ASSUME NEW i \in DOMAIN tasks
               PROVE  /\ tasks[i].job \in DOMAIN jobs /\ tasks[i] \in TaskRow(Len(jobs))
                      /\ jobs[tasks[i].job].sheet \in Sheets /\ tasks[i].c \in Series
                      /\ OnGrid(tasks[i], jobs[tasks[i].job].sheet)
    OBVIOUS
  <2>1. tasks[i] \in TaskRow(Len(jobs)) /\ tasks[i].job \in DOMAIN jobs
    BY <1>1, Lengths
  <2>2. jobs[tasks[i].job] \in JobRow
    BY <1>1, <2>1, Lengths
  <2> QED
    BY <1>1, <2>1, <2>2 DEF Tables, JobRow, TaskRow
<1>3. WalkIsDisjoint
  <2> SUFFICES ASSUME NEW i \in DOMAIN tasks, NEW k \in DOMAIN tasks, i # k,
                      tasks[i].job = tasks[k].job, tasks[i].c = tasks[k].c, tasks[i].r = tasks[k].r
               PROVE  tasks[i].to < tasks[k].from \/ tasks[k].to < tasks[i].from
    BY DEF WalkIsDisjoint
  <2> DEFINE s == jobs[tasks[i].job].sheet
             lo == Left(tasks[i].c, s)
             hi == WindowEnd(s)
             x == tasks[i]
             y == tasks[k]
  <2>1. lo \in Int /\ hi \in Int
    <3>1. s \in Sheets /\ tasks[i].c \in Series
      BY <1>2
    <3> HIDE DEF s
    <3>2. lo \in Days /\ hi \in Days
      BY <1>0, <3>1, LeftFacts, SheetFacts
    <3> HIDE DEF lo, hi
    <3> QED
      BY <3>2 DEF Days
  <2>2. PICK n \in Nat : IsPiece(x, lo, hi, n)
    BY <1>2 DEF OnGrid
  <2>3. PICK m \in Nat : IsPiece(y, lo, hi, m)
    BY <1>2 DEF OnGrid
  <2> HIDE DEF lo, hi, s
  <2>4. n # m
    <3> SUFFICES ASSUME n = m
                 PROVE  FALSE
      OBVIOUS
    <3>1. x.from = y.from /\ x.to = y.to
      BY <2>2, <2>3, SamePiece
    <3>2. SameWindow(tasks[i], tasks[k])
      BY <3>1 DEF SameWindow
    <3> QED
      BY <3>2, <1>1 DEF Tables
  <2> HIDE DEF x, y
  <2>5. CASE n < m
    <3>1. y.to < x.from
      BY <1>0, <2>1, <2>2, <2>3, <2>5, PiecesApart
    <3> QED
      BY <3>1 DEF x, y
  <2>6. CASE m < n
    <3>1. x.to < y.from
      BY <1>0, <2>1, <2>2, <2>3, <2>6, PiecesApart
    <3> QED
      BY <3>1 DEF x, y
  <2> QED
    BY <2>4, <2>5, <2>6
<1>4. WalkStaysOnSheet
  <2> SUFFICES ASSUME NEW i \in DOMAIN tasks
               PROVE  LET s == jobs[tasks[i].job].sheet
                      IN  /\ tasks[i].to <= WindowEnd(s) /\ tasks[i].from <= tasks[i].to
                          /\ tasks[i].from >= s.from
                          /\ tasks[i].c # Spot => tasks[i].from >= LifeFloor
    BY DEF WalkStaysOnSheet
  <2> DEFINE s == jobs[tasks[i].job].sheet
             x == tasks[i]
             lo == Left(x.c, s)
             hi == WindowEnd(s)
  <2>1. s \in Sheets /\ x.c \in Series
    BY <1>2
  <2>2. PICK n \in Nat : IsPiece(x, lo, hi, n)
    BY <1>2 DEF OnGrid
  <2>3. /\ lo \in Days /\ lo >= s.from /\ (x.c # Spot => lo >= LifeFloor)
        /\ hi \in Days /\ s.from \in Days \cup {NoDay} /\ LifeFloor \in Days
    BY <1>0, <2>1, LeftFacts, SheetFacts, LifeFloorFacts
  <2> HIDE DEF s, x, lo, hi
  <2>4. lo \in Int /\ hi \in Int /\ s.from \in Int /\ LifeFloor \in Int
    BY <2>3 DEF Days, NoDay
  <2>5. x.from \in Int /\ x.to \in Int /\ lo <= x.from /\ x.from <= x.to /\ x.to <= hi
    BY <1>0, <2>2, <2>4, PieceFacts
  <2>6. x.to <= hi /\ x.from <= x.to /\ x.from >= s.from /\ (x.c # Spot => x.from >= LifeFloor)
    BY <2>3, <2>4, <2>5
  <2> QED
    BY <2>6 DEF s, x, hi
<1> QED
  BY <1>3, <1>4 DEF WalksApart

\* The invariant holds all of LedgerSound.
LEMMA InvLedger ==
  ASSUME Hypotheses, WalkInv
  PROVE  LedgerSound
<1>1. Tables(jobs, tasks) /\ AtWork(work, tasks)
  BY DEF WalkInv
<1>2. /\ Len(jobs) \in Nat /\ DOMAIN jobs = 1 .. Len(jobs)
      /\ Len(tasks) \in Nat /\ DOMAIN tasks = 1 .. Len(tasks)
  BY <1>1, Lengths
<1>3. TotalsCountRows
  BY <1>1 DEF Tables, TotalsCountRows, RowsOf, TasksOf
<1>4. draft \subseteq [sheet : Sheets, chunks : SUBSET Chunk] /\ Cardinality(draft) <= 1
  <2>1. CASE draft = {}
    BY <2>1, FS_EmptySet
  <2>2. CASE \E p : draft = {p} /\ Priced(p)
    <3>1. PICK p : draft = {p} /\ Priced(p)
      BY <2>2
    <3>2. Cardinality({p}) = 1
      BY FS_Singleton
    <3> QED
      BY <3>1, <3>2 DEF Priced
  <2> QED
    BY <2>1, <2>2 DEF WalkInv, DraftShape
<1>5. /\ jobs \in Seq([sheet : Sheets, total : Nat, retried : BOOLEAN])
      /\ tasks \in Seq([job : DOMAIN jobs, c : Series, r : Resolutions, from : Days, to : Days,
                        state : States])
  BY <1>1, <1>2 DEF Tables, JobRow, TaskRow
<1>6. work \in [Workers -> [step : Steps, task : 0 .. Len(tasks)]]
  BY <1>1 DEF AtWork
<1>7. TypeOK
  BY <1>4, <1>5, <1>6 DEF WalkInv, StoreShape, LedgerRow, Bounds, TypeOK
<1> QED
  BY <1>3, <1>7 DEF WalkInv, LedgerSound

\* The rows of one job for one contract and resolution never share a day, and none
\* leaves the sheet it was priced for, however often a chunk is replayed, retried or
\* planned anew (WalksApart).
THEOREM WalksApartAlways ==
  ASSUME IsFiniteSet(Contracts), IsFiniteSet(Resolutions)
  PROVE  Spec => []WalksApart
<1>0. Hypotheses
  BY WalkAssumption DEF Hypotheses
<1>1. Init => WalkInv
  BY <1>0, InitWalk
<1>2. WalkInv /\ [Next]_vars => WalkInv'
  BY <1>0, StepWalk
<1>3. WalkInv => WalksApart
  BY <1>0, InvApart
<1> QED
  BY <1>1, <1>2, <1>3, PTL DEF Spec

\* A coverage row says exactly what is stored, no bar is stored outside every row, and a
\* job's total counts its rows (LedgerSound): over retries, kills between the commit and
\* the ack, overlapping jobs and concurrent walks.
THEOREM LedgerSoundAlways ==
  ASSUME IsFiniteSet(Contracts), IsFiniteSet(Resolutions)
  PROVE  Spec => []LedgerSound
<1>0. Hypotheses
  BY WalkAssumption DEF Hypotheses
<1>1. Init => WalkInv
  BY <1>0, InitWalk
<1>2. WalkInv /\ [Next]_vars => WalkInv'
  BY <1>0, StepWalk
<1>3. WalkInv => LedgerSound
  BY <1>0, InvLedger
<1> QED
  BY <1>1, <1>2, <1>3, PTL DEF Spec

-----------------------------------------------------------------------------
(* Induction and recursion over a finite set, a member taken away at a time. *)

\* A set of natural numbers that has a member has a least one.
LEMMA LeastExists ==
  ASSUME NEW S \in SUBSET Nat, S # {}
  PROVE  \E x \in S : \A y \in S : x <= y
<1> DEFINE R == OpToRel(<, Nat)
<1>1. IsWellFoundedOn(R, Nat)
  BY NatLessThanWellFounded
<1>2. \A x, y \in Nat : x < y => <<x, y>> \in R
  BY DEF OpToRel
<1> HIDE DEF R
<1>3. PICK x \in S : \A y \in S : ~(<<y, x>> \in R)
  BY <1>1, WFMin
<1>4. x \in Nat /\ \A y \in S : y \in Nat /\ ~(y < x)
  BY <1>2, <1>3
<1> QED
  BY <1>4

\* A bounded one has a greatest.
LEMMA GreatestExists ==
  ASSUME NEW n \in Nat, NEW S \in SUBSET (0 .. n), S # {}
  PROVE  \E x \in S : \A y \in S : x >= y
<1> DEFINE T == {n - x : x \in S}
<1>0. PICK z \in S : TRUE
  OBVIOUS
<1>1. T \subseteq Nat /\ n - z \in T
  BY <1>0
<1>2. PICK t \in T : \A u \in T : t <= u
  BY <1>1, LeastExists
<1>3. PICK x \in S : t = n - x
  BY <1>2
<1>4. \A y \in S : n - x <= n - y
  BY <1>2, <1>3
<1>5. x \in Nat /\ \A y \in S : y \in Nat
  OBVIOUS
<1> QED
  BY <1>4, <1>5

\* A choice of a member of each set.
Picks(pick, D) ==
  pick \in [(SUBSET D) \ {{}} -> D] /\ \A s \in (SUBSET D) \ {{}} : pick[s] \in s

\* What holds of nothing, and of a set when it holds of it without the chosen member.
Grows(Good, D, pick) ==
  {} \in Good /\ \A s \in (SUBSET D) \ {{}} : s \ {pick[s]} \in Good => s \in Good

\* It holds of every subset of a finite set.
LEMMA SetsBySteps ==
  ASSUME NEW D, IsFiniteSet(D), NEW pick, Picks(pick, D), NEW Good, Grows(Good, D, pick)
  PROVE  SUBSET D \subseteq Good
<1>0. /\ pick \in [(SUBSET D) \ {{}} -> D] /\ \A s \in (SUBSET D) \ {{}} : pick[s] \in s
      /\ {} \in Good /\ \A s \in (SUBSET D) \ {{}} : s \ {pick[s]} \in Good => s \in Good
  BY DEF Picks, Grows
<1> SUFFICES ASSUME NEW b \in SUBSET D, b \notin Good
             PROVE  FALSE
  OBVIOUS
<1> DEFINE K == {n \in Nat : \E s \in SUBSET D : s \notin Good /\ Cardinality(s) = n}
<1>1. \A s \in SUBSET D : IsFiniteSet(s) /\ Cardinality(s) \in Nat
  BY FS_Subset, FS_CardinalityType
<1>2. Cardinality(b) \in K
  BY <1>1
<1>3. PICK n \in K : \A m \in K : n <= m
  BY <1>2, LeastExists
<1>4. PICK s \in SUBSET D : s \notin Good /\ Cardinality(s) = n
  BY <1>3
<1>5. s # {}
  <2>1. {} \in Good
    BY <1>0
  <2> QED
    BY <1>4, <2>1
<1> DEFINE x == pick[s]
           t == s \ {x}
<1>6. x \in s /\ IsFiniteSet(s)
  BY <1>0, <1>1, <1>5
<1> HIDE DEF x
<1>7. Cardinality(t) = Cardinality(s) - 1
  BY <1>6, FS_RemoveElement
<1>8. t \in SUBSET D /\ Cardinality(t) \in Nat /\ n \in Nat
  BY <1>1
<1>9. Cardinality(t) \notin K
  <2>1. n = Cardinality(s) /\ (Cardinality(t) \in K => n <= Cardinality(t))
    BY <1>3, <1>4
  <2> DEFINE c == Cardinality(t)
             e == Cardinality(s)
  <2> HIDE DEF K, c, e, t
  <2>2. n = e /\ (c \in K => n <= c) /\ c = e - 1 /\ c \in Nat /\ n \in Nat
    BY <1>7, <1>8, <2>1 DEF c, e
  <2>3. c \notin K
    BY <2>2
  <2> QED
    BY <2>3 DEF c
<1>10. t \in Good
  BY <1>8, <1>9
<1>11. s \in Good
  BY <1>0, <1>5, <1>10 DEF x
<1> QED
  BY <1>4, <1>11

\* A function by recursion over the subsets of a finite set.
Unrolled(D, V, base, pick, op, f) ==
  /\ f \in [SUBSET D -> V]
  /\ \A s \in SUBSET D :
       f[s] = IF s = {} THEN base ELSE op[<<pick[s], f[s \ {pick[s]}]>>]

\* There is one.
LEMMA FoldExists ==
  ASSUME NEW D, IsFiniteSet(D), NEW V, NEW base \in V, NEW pick, Picks(pick, D),
         NEW op \in [D \X V -> V]
  PROVE  \E f : Unrolled(D, V, base, pick, op, f)
<1>0. pick \in [(SUBSET D) \ {{}} -> D] /\ \A s \in (SUBSET D) \ {{}} : pick[s] \in s
  BY DEF Picks
<1> DEFINE next(f, s) == IF s = {} THEN base ELSE op[<<pick[s], f[s \ {pick[s]}]>>]
           Upto(f, n) == \A s \in SUBSET D : Cardinality(s) <= n => f[s] = next(f, s)
           K == {n \in Nat : ~ \E f \in [SUBSET D -> V] : Upto(f, n)}
<1>1. \A s \in SUBSET D : IsFiniteSet(s) /\ Cardinality(s) \in Nat
  BY FS_Subset, FS_CardinalityType
<1>2. \A s \in SUBSET D : s = {} \/ Cardinality(s) > 0
  BY <1>1, FS_EmptySet
<1>3. ASSUME K # {} PROVE FALSE
  <2>1. PICK n \in K : \A m \in K : n <= m
    BY <1>3, LeastExists
  <2>2. n # 0
    <3> DEFINE f == [s \in SUBSET D |-> base]
    <3>1. f \in [SUBSET D -> V]
      OBVIOUS
    <3>2. \A s \in SUBSET D : Cardinality(s) <= 0 => s = {}
      BY <1>1, <1>2
    <3>3. Upto(f, 0)
      BY <3>2
    <3> HIDE DEF f, Upto
    <3>4. 0 \notin K
      BY <3>1, <3>3
    <3> HIDE DEF K
    <3> QED
      BY <3>4
  <2>3. n \in Nat /\ n - 1 \in Nat /\ n - 1 \notin K
    <3>1. n \in Nat
      OBVIOUS
    <3> HIDE DEF K
    <3> QED
      BY <2>1, <2>2, <3>1
  <2>4. PICK f \in [SUBSET D -> V] : Upto(f, n - 1)
    BY <2>3
  <2> DEFINE g == [s \in SUBSET D |-> next(f, s)]
  <2>5. g \in [SUBSET D -> V]
    BY <1>0, <2>4
  <2>6. ASSUME NEW s \in SUBSET D, Cardinality(s) <= n
        PROVE  g[s] = next(g, s)
    <3>1. CASE s = {}
      BY <3>1
    <3>2. CASE s # {}
      <4> DEFINE x == pick[s]
                 t == s \ {x}
      <4>1. x \in s /\ t \in SUBSET D
        BY <1>0, <3>2
      <4>2. Cardinality(t) = Cardinality(s) - 1
        <5> HIDE DEF x
        <5> QED
          BY <4>1, <1>1, FS_RemoveElement
      <4>3. Cardinality(t) <= n - 1
        BY <4>1, <4>2, <2>6, <2>3, <1>1
      <4>4. f[t] = next(f, t)
        BY <2>4, <4>1, <4>3
      <4>5. g[t] = f[t]
        BY <4>1, <4>4
      <4> QED
        BY <3>2, <4>5
    <3> QED
      BY <3>1, <3>2
  <2>7. Upto(g, n)
    BY <2>6
  <2> QED
    BY <2>1, <2>5, <2>7
<1>4. Cardinality(D) \in Nat
  BY FS_CardinalityType
<1>5. PICK f \in [SUBSET D -> V] : Upto(f, Cardinality(D))
  BY <1>3, <1>4
<1>6. \A s \in SUBSET D : Cardinality(s) <= Cardinality(D)
  BY FS_Subset
<1>7. Unrolled(D, V, base, pick, op, f)
  BY <1>5, <1>6 DEF Unrolled
<1> QED
  BY <1>7

-----------------------------------------------------------------------------
(* The interval arithmetic of the planner. *)

Window == [from : Days, to : Days]
Before(x, y) == x.from < y.from \/ (x.from = y.from /\ x.to <= y.to)

\* One of a set of windows comes first.
LEMMA FirstExists ==
  ASSUME WalkAssumption, NEW S \in SUBSET Window, S # {}
  PROVE  \E x \in S : \A y \in S : Before(x, y)
<1> DEFINE F == {x.from : x \in S}
<1>1. \A x \in S : x.from \in Nat /\ x.to \in Nat
  BY DEF Window, Days
<1>2. F \subseteq Nat /\ F # {}
  BY <1>1
<1>3. PICK m \in F : \A k \in F : m <= k
  BY <1>2, LeastExists
<1> DEFINE T == {x.to : x \in {z \in S : z.from = m}}
<1>4. PICK u \in S : u.from = m
  BY <1>3
<1>5. T \subseteq Nat /\ u.to \in T
  BY <1>1, <1>4
<1>6. PICK n \in T : \A k \in T : n <= k
  BY <1>5, LeastExists
<1>7. PICK x \in S : x.from = m /\ x.to = n
  BY <1>6
<1>8. \A y \in S : Before(x, y)
  <2> SUFFICES ASSUME NEW y \in S
               PROVE  Before(x, y)
    OBVIOUS
  <2>1. m <= y.from /\ m \in Nat /\ y.from \in Nat
    BY <1>1, <1>2, <1>3
  <2>2. y.from = m => n <= y.to
    BY <1>6
  <2> QED
    BY <1>7, <2>1, <2>2 DEF Before
<1> QED
  BY <1>8

\* The order of merge_ranges: every window, and none begins before one that precedes it.
LEMMA InOrderFacts ==
  ASSUME WalkAssumption, NEW R \in SUBSET Window, IsFiniteSet(R)
  PROVE  /\ InOrder(R) \in Seq(R)
         /\ \A x \in R : \E a \in DOMAIN InOrder(R) : InOrder(R)[a] = x
         /\ \A a, b \in DOMAIN InOrder(R) : a <= b => InOrder(R)[a].from <= InOrder(R)[b].from
<1> DEFINE pick == [S \in (SUBSET R) \ {{}} |-> CHOOSE x \in S :
                     \A y \in S : x.from < y.from \/ (x.from = y.from /\ x.to <= y.to)]
           V == Seq(R)
           op == [z \in R \X V |-> <<z[1]>> \o z[2]]
           rest[S \in SUBSET R] ==
             IF S = {} THEN <<>>
             ELSE LET x == CHOOSE x \in S :
                        \A y \in S : x.from < y.from \/ (x.from = y.from /\ x.to <= y.to)
                  IN  <<x>> \o rest[S \ {x}]
<1>1. InOrder(R) = rest[R]
  BY DEF InOrder
<1>2. \A S \in (SUBSET R) \ {{}} : pick[S] \in S /\ \A y \in S : Before(pick[S], y)
  <2> SUFFICES ASSUME NEW S \in SUBSET R, S # {}
               PROVE  pick[S] \in S /\ \A y \in S : Before(pick[S], y)
    OBVIOUS
  <2>1. \E x \in S : \A y \in S : x.from < y.from \/ (x.from = y.from /\ x.to <= y.to)
    BY FirstExists DEF Before
  <2> QED
    BY <2>1 DEF Before
<1>3. Picks(pick, R)
  BY <1>2 DEF Picks
<1>4. op \in [R \X V -> V]
  OBVIOUS
<1>5. \A S \in (SUBSET R) \ {{}} : pick[S] =
        CHOOSE x \in S : \A y \in S : x.from < y.from \/ (x.from = y.from /\ x.to <= y.to)
  OBVIOUS
<1>6. \A x \in R, v \in V : op[<<x, v>>] = <<x>> \o v
  OBVIOUS
<1>7. <<>> \in V
  OBVIOUS
<1> HIDE DEF pick, op
<1>8. PICK f : Unrolled(R, V, <<>>, pick, op, f)
  <2> HIDE DEF V
  <2> QED
    BY <1>3, <1>4, <1>7, FoldExists
<1>9. f = [S \in SUBSET R |->
             IF S = {} THEN <<>>
             ELSE LET x == CHOOSE x \in S :
                        \A y \in S : x.from < y.from \/ (x.from = y.from /\ x.to <= y.to)
                  IN  <<x>> \o f[S \ {x}]]
  <2>1. f \in [SUBSET R -> V]
        /\ \A s \in SUBSET R : f[s] = IF s = {} THEN <<>> ELSE op[<<pick[s], f[s \ {pick[s]}]>>]
    BY <1>8 DEF Unrolled
  <2> HIDE DEF V
  <2>2. \A s \in SUBSET R : s # {} => f[s] = <<pick[s]>> \o f[s \ {pick[s]}]
    <3> SUFFICES ASSUME NEW s \in SUBSET R, s # {}
                 PROVE  f[s] = <<pick[s]>> \o f[s \ {pick[s]}]
      OBVIOUS
    <3>1. pick[s] \in R
      BY <1>2
    <3>2. f[s \ {pick[s]}] \in V
      BY <2>1
    <3> HIDE DEF pick
    <3>3. f[s] = op[<<pick[s], f[s \ {pick[s]}]>>]
      BY <2>1
    <3> QED
      BY <1>6, <3>1, <3>2, <3>3
  <2> QED
    BY <2>1, <2>2, <1>5
<1>10. rest = [S \in SUBSET R |->
             IF S = {} THEN <<>>
             ELSE LET x == CHOOSE x \in S :
                        \A y \in S : x.from < y.from \/ (x.from = y.from /\ x.to <= y.to)
                  IN  <<x>> \o rest[S \ {x}]]
  BY <1>9
<1>11. /\ \A S \in SUBSET R : S # {} => rest[S] = <<pick[S]>> \o rest[S \ {pick[S]}]
       /\ rest[{}] = <<>>
  <2> DEFINE body(S) == IF S = {} THEN <<>>
             ELSE LET x == CHOOSE x \in S :
                        \A y \in S : x.from < y.from \/ (x.from = y.from /\ x.to <= y.to)
                  IN  <<x>> \o rest[S \ {x}]
  <2>1. rest = [S \in SUBSET R |-> body(S)]
    BY <1>10
  <2> HIDE DEF rest
  <2>2. \A S \in SUBSET R : rest[S] = body(S)
    BY <2>1
  <2>3. rest[{}] = <<>>
    BY <2>2
  <2>4. ASSUME NEW S \in SUBSET R, S # {}
        PROVE  rest[S] = <<pick[S]>> \o rest[S \ {pick[S]}]
    <3>1. S \in (SUBSET R) \ {{}}
      BY <2>4
    <3>2. body(S) = <<pick[S]>> \o rest[S \ {pick[S]}]
      BY <2>4, <3>1, <1>5
    <3> QED
      BY <2>2, <3>2
  <2> QED
    BY <2>3, <2>4
<1> HIDE DEF rest
<1> DEFINE Lined(q, S) ==
             /\ q \in Seq(S)
             /\ \A x \in S : \E a \in DOMAIN q : q[a] = x
             /\ \A a, b \in DOMAIN q : a <= b => q[a].from <= q[b].from
           Good == {S \in SUBSET R : Lined(rest[S], S)}
<1>12. {} \in Good
  <2>1. <<>> \in Seq({}) /\ DOMAIN <<>> = {}
    OBVIOUS
  <2>2. Lined(<<>>, {})
    BY <2>1
  <2> HIDE DEF Lined
  <2> QED
    BY <1>11, <2>2
<1>13. ASSUME NEW S \in (SUBSET R) \ {{}}, S \ {pick[S]} \in Good
       PROVE  S \in Good
  <2> DEFINE x == pick[S]
             T == S \ {x}
             q == rest[T]
             p == rest[S]
  <2>1. p = <<x>> \o q /\ Lined(q, T)
    BY <1>11, <1>13
  <2>2. x \in S /\ \A y \in S : Before(x, y)
    BY <1>2
  <2>3. \A y \in S : y.from \in Nat
    BY DEF Window, Days
  <2> HIDE DEF p, q, x
  <2>4. q \in Seq(S) /\ Len(q) \in Nat /\ DOMAIN q = 1 .. Len(q) /\ \A a \in 1 .. Len(q) : q[a] \in S
    BY <2>1
  <2>5. /\ p \in Seq(S) /\ DOMAIN p = 1 .. Len(q) + 1
        /\ p[1] = x /\ \A a \in 1 .. Len(q) : p[a + 1] = q[a]
    BY <2>1, <2>2, <2>4
  <2>6. \A a \in 1 .. Len(q) + 1 : a = 1 \/ (a - 1 \in 1 .. Len(q) /\ p[a] = q[a - 1])
    <3> SUFFICES ASSUME NEW a \in 1 .. Len(q) + 1, a # 1
                 PROVE  a - 1 \in 1 .. Len(q) /\ p[a] = q[a - 1]
      OBVIOUS
    <3>1. a - 1 \in 1 .. Len(q) /\ (a - 1) + 1 = a
      BY <2>4
    <3> QED
      BY <2>5, <3>1
  <2>7. \A y \in S : \E a \in DOMAIN p : p[a] = y
    <3> SUFFICES ASSUME NEW y \in S
                 PROVE  \E a \in DOMAIN p : p[a] = y
      OBVIOUS
    <3>1. CASE y = x
      BY <2>4, <2>5, <3>1
    <3>2. CASE y # x
      <4>1. PICK a \in DOMAIN q : q[a] = y
        BY <2>1, <3>2
      <4>2. a + 1 \in 1 .. Len(q) + 1 /\ p[a + 1] = y
        BY <2>4, <2>5, <4>1
      <4> QED
        BY <2>5, <4>2
    <3> QED
      BY <3>1, <3>2
  <2>8. \A a, b \in DOMAIN p : a <= b => p[a].from <= p[b].from
    <3> SUFFICES ASSUME NEW a \in 1 .. Len(q) + 1, NEW b \in 1 .. Len(q) + 1, a <= b
                 PROVE  p[a].from <= p[b].from
      BY <2>5
    <3>1. p[b] \in S
      BY <2>4, <2>5
    <3>2. CASE a = 1
      <4>1. Before(x, p[b]) /\ x.from \in Nat /\ p[b].from \in Nat
        BY <2>2, <2>3, <3>1
      <4> QED
        BY <2>5, <3>2, <4>1 DEF Before
    <3>3. CASE a # 1
      <4>1. /\ a - 1 \in 1 .. Len(q) /\ b - 1 \in 1 .. Len(q) /\ a - 1 <= b - 1
            /\ p[a] = q[a - 1] /\ p[b] = q[b - 1]
        <5>1. a - 1 \in 1 .. Len(q) /\ p[a] = q[a - 1]
          BY <2>6, <3>3
        <5>2. b # 1
          BY <3>3
        <5>3. b - 1 \in 1 .. Len(q) /\ p[b] = q[b - 1]
          BY <2>6, <5>2
        <5>4. a - 1 <= b - 1
          BY <2>4
        <5> QED
          BY <5>1, <5>3, <5>4
      <4> QED
        BY <2>1, <2>4, <4>1
    <3> QED
      BY <3>2, <3>3
  <2>9. Lined(p, S)
    BY <2>5, <2>7, <2>8
  <2> QED
    BY <2>9 DEF p
<1>14. SUBSET R \subseteq Good
  <2> HIDE DEF Good
  <2>1. Grows(Good, R, pick)
    BY <1>12, <1>13 DEF Grows
  <2> QED
    BY <1>3, <2>1, SetsBySteps
<1>15. Lined(rest[R], R)
  BY <1>14
<1> QED
  BY <1>1, <1>15

Within(d, x) == x.from <= d /\ d <= x.to

\* What merge_ranges has made of the first k windows: pieces that neither overlap nor
\* touch, over the same days; the last begins no later than the last window taken.
Folded(m, q, k) ==
  /\ m \in Seq(Window)
  /\ \A i \in 1 .. Len(m) : m[i].from <= m[i].to
  /\ \A i, j \in 1 .. Len(m) : i < j => m[i].to + 1 < m[j].from
  /\ \A d \in Days : (\E i \in 1 .. Len(m) : Within(d, m[i])) <=> (\E a \in 1 .. k : Within(d, q[a]))
  /\ IF k = 0 THEN m = <<>> ELSE Len(m) > 0 /\ m[Len(m)].from <= q[k].from

\* Windows with a day in each, in the order of their left edges.
Sorted(q) ==
  /\ q \in Seq(Window)
  /\ \A a \in 1 .. Len(q) : q[a].from <= q[a].to
  /\ \A a, b \in 1 .. Len(q) : a <= b => q[a].from <= q[b].from

\* One more window is taken in.
LEMMA ExtendFolded ==
  ASSUME NEW q, Sorted(q), NEW k \in Nat, k + 1 <= Len(q), NEW m, Folded(m, q, k)
  PROVE  Folded(Extend(m, q[k + 1]), q, k + 1)
<1> DEFINE x == q[k + 1]
           n == Len(m)
           e == Extend(m, x)
<1>1. /\ m \in Seq(Window) /\ n \in Nat /\ DOMAIN m = 1 .. n
      /\ \A i \in 1 .. n : m[i].from \in Days /\ m[i].to \in Days /\ m[i].from <= m[i].to
      /\ \A i, j \in 1 .. n : i < j => m[i].to + 1 < m[j].from
      /\ \A d \in Days : (\E i \in 1 .. n : Within(d, m[i])) <=> (\E a \in 1 .. k : Within(d, q[a]))
      /\ IF k = 0 THEN m = <<>> ELSE n > 0 /\ m[n].from <= q[k].from
  <2>1. \A i \in 1 .. n : m[i] \in Window
    BY DEF Folded
  <2>2. \A i \in 1 .. n : m[i].from \in Days /\ m[i].to \in Days
    BY <2>1 DEF Window
  <2> QED
    BY <2>2 DEF Folded
<1>2. /\ x \in Window /\ x.from \in Days /\ x.to \in Days /\ x.from <= x.to
      /\ k > 0 => q[k].from \in Days /\ q[k].from <= x.from
  <2>1. q \in Seq(Window) /\ Len(q) \in Nat
    BY DEF Sorted
  <2>2. k + 1 \in 1 .. Len(q) /\ (k > 0 => k \in 1 .. Len(q) /\ k <= k + 1)
    BY <2>1
  <2>3. x \in Window /\ (k > 0 => q[k] \in Window)
    BY <2>1, <2>2
  <2>4. x.from <= x.to /\ (k > 0 => q[k].from <= x.from)
    BY <2>2 DEF Sorted
  <2> HIDE DEF x
  <2> QED
    BY <2>3, <2>4 DEF Window
<1>4. \A d \in Days : (\E a \in 1 .. k + 1 : Within(d, q[a]))
                      <=> (\E a \in 1 .. k : Within(d, q[a])) \/ Within(d, x)
  <2>1. \A a \in Nat : a \in 1 .. k + 1 <=> a \in 1 .. k \/ a = k + 1
    OBVIOUS
  <2>2. \A a : a \in 1 .. k + 1 <=> a \in 1 .. k \/ a = k + 1
    BY <2>1
  <2> QED
    BY <2>2
<1>3. \A i \in 1 .. n : m[i].from \in Int /\ m[i].to \in Int /\ m[i].from <= m[i].to
  <2>1. \A d \in Days : d \in Int
    BY DEF Days
  <2> QED
    BY <1>1, <2>1
<1>5. x.from \in Int /\ x.to \in Int /\ (k > 0 => q[k].from \in Int)
  <2>1. \A d \in Days : d \in Int
    BY DEF Days
  <2> HIDE DEF x
  <2> QED
    BY <1>2, <2>1
<1> HIDE DEF x, n
<1>6. CASE m # <<>> /\ x.from <= Last(m).to + 1
  <2> DEFINE t == Max({m[n].to, x.to})
             l == [m[n] EXCEPT !.to = t]
  <2>1. n > 0 /\ n \in 1 .. n /\ Last(m) = m[n] /\ k > 0
    BY <1>1, <1>6 DEF Last, n
  <2>2. m[n].to \in Int /\ x.to \in Int
    BY <1>3, <1>5, <2>1
  <2>3. t = IF m[n].to >= x.to THEN m[n].to ELSE x.to
    BY <2>2, MaxOfTwo
  <2>4. t \in Days
    BY <1>1, <1>2, <2>1, <2>3
  <2>5. e = [m EXCEPT ![n] = l]
    <3> DEFINE high == Max({m[Len(m)].to, x.to})
    <3>1. e = [m EXCEPT ![Len(m)].to = high]
      BY <1>6 DEF Extend
    <3>2. high = t
      BY DEF n
    <3> HIDE DEF high, t, e
    <3> QED
      BY <3>1, <3>2 DEF n
  <2>6. l \in Window /\ l.from = m[n].from /\ l.to = t
    <3> HIDE DEF t
    <3>1. m[n] \in Window
      BY <1>1, <2>1
    <3> QED
      BY <2>4, <3>1 DEF Window
  <2> HIDE DEF t, l, e
  <2>7. /\ e \in Seq(Window) /\ Len(e) = n
        /\ \A i \in 1 .. n : e[i] = IF i = n THEN l ELSE m[i]
    BY <1>1, <2>1, <2>5, <2>6 DEF n
  <2>8. m[n].from <= x.from /\ x.from <= m[n].to + 1
    <3>1. m[n].from \in Int /\ x.from \in Int /\ q[k].from \in Int
      BY <1>3, <1>5, <2>1
    <3>2. m[n].from <= q[k].from
      BY <1>1, <2>1
    <3>3. q[k].from <= x.from
      BY <1>2, <2>1
    <3>4. x.from <= m[n].to + 1
      BY <1>6, <2>1
    <3> QED
      BY <3>1, <3>2, <3>3, <3>4
  <2>9. \A i \in 1 .. n : e[i].from = m[i].from
    BY <2>6, <2>7
  <2>10. \A i \in 1 .. n : e[i].from <= e[i].to
    <3> SUFFICES ASSUME NEW i \in 1 .. n
                 PROVE  e[i].from <= e[i].to
      OBVIOUS
    <3>1. m[i].from \in Int /\ m[i].to \in Int /\ x.to \in Int /\ m[i].from <= m[i].to
      BY <1>3, <1>5
    <3>2. e[i].from = m[i].from /\ e[i].to = IF i = n THEN t ELSE m[i].to
      BY <2>6, <2>7, <2>9
    <3>3. i = n => (t >= m[i].to /\ t \in Int)
      BY <2>2, <2>3
    <3> DEFINE a == m[i].from
               b == m[i].to
    <3>4. a \in Int /\ b \in Int /\ a <= b /\ (i = n => t >= b /\ t \in Int)
      BY <3>1, <3>3
    <3> HIDE DEF a, b
    <3>5. a <= IF i = n THEN t ELSE b
      <4>1. CASE i = n
        BY <3>4, <4>1
      <4>2. CASE i # n
        BY <3>4, <4>2
      <4> QED
        BY <4>1, <4>2
    <3> QED
      BY <3>2, <3>5 DEF a, b
  <2>11. \A i, j \in 1 .. n : i < j => e[i].to + 1 < e[j].from
    <3> SUFFICES ASSUME NEW i \in 1 .. n, NEW j \in 1 .. n, i < j
                 PROVE  e[i].to + 1 < e[j].from
      OBVIOUS
    <3>1. i # n /\ e[i] = m[i] /\ e[j].from = m[j].from
      BY <1>1, <2>7, <2>9
    <3>2. m[i].to + 1 < m[j].from
      BY <1>1
    <3> QED
      BY <3>1, <3>2
  <2>12. ASSUME NEW d \in Days
         PROVE  (\E i \in 1 .. n : Within(d, e[i])) <=> (\E a \in 1 .. k + 1 : Within(d, q[a]))
    <3>1. Within(d, l) <=> Within(d, m[n]) \/ Within(d, x)
      <4>1. m[n].from \in Int /\ m[n].to \in Int /\ x.from \in Int /\ x.to \in Int /\ d \in Int
        <5>1. d \in Int
          BY DEF Days
        <5> QED
          BY <1>3, <1>5, <2>1, <5>1
      <4> DEFINE a == m[n].from
                 b == m[n].to
                 f == x.from
                 g == x.to
      <4>2. /\ a \in Int /\ b \in Int /\ f \in Int /\ g \in Int /\ d \in Int
            /\ a <= f /\ f <= b + 1 /\ a <= b /\ f <= g
            /\ t = IF b >= g THEN b ELSE g
        BY <1>1, <1>2, <2>1, <2>3, <2>8, <4>1
      <4> HIDE DEF a, b, f, g
      <4>3. (a <= d /\ d <= t) <=> (a <= d /\ d <= b) \/ (f <= d /\ d <= g)
        <5>1. CASE b >= g
          BY <4>2, <5>1
        <5>2. CASE b < g
          BY <4>2, <5>2
        <5> QED
          BY <4>2, <5>1, <5>2
      <4> QED
        BY <4>3, <2>6 DEF Within, a, b, f, g
    <3>2. (\E i \in 1 .. n : Within(d, e[i])) <=> (\E i \in 1 .. n : Within(d, m[i])) \/ Within(d, x)
      BY <2>1, <2>7, <3>1
    <3> QED
      BY <1>1, <1>4, <3>2
  <2>13. Len(e) > 0 /\ e[Len(e)].from <= q[k + 1].from
    <3>1. e[n].from <= x.from
      BY <2>1, <2>8, <2>9
    <3> QED
      BY <2>1, <2>7, <3>1 DEF x
  <2>14. Folded(e, q, k + 1)
    BY <2>7, <2>10, <2>11, <2>12, <2>13 DEF Folded
  <2> QED
    BY <2>14 DEF e, x
<1>7. CASE ~(m # <<>> /\ x.from <= Last(m).to + 1)
  <2>1. e = Append(m, x)
    BY <1>7 DEF Extend
  <2> HIDE DEF e
  <2>2. /\ e \in Seq(Window) /\ Len(e) = n + 1
        /\ \A i \in 1 .. n : e[i] = m[i]
        /\ e[n + 1] = x
    BY <1>1, <1>2, <2>1 DEF n
  <2>3. \A i \in 1 .. n + 1 : i = n + 1 \/ i \in 1 .. n
    BY <1>1
  <2>4. \A i \in 1 .. n + 1 : e[i].from <= e[i].to
    BY <1>1, <1>2, <2>2, <2>3
  <2>5. n > 0 => m[n].to + 1 < x.from
    <3>1. n > 0 => m # <<>> /\ Last(m) = m[n] /\ n \in 1 .. n
      BY <1>1 DEF Last, n
    <3>2. n > 0 => m[n].to \in Int /\ x.from \in Int
      BY <1>3, <1>5, <3>1
    <3>3. n > 0 => ~(x.from <= m[n].to + 1)
      BY <1>7, <3>1
    <3> QED
      BY <3>2, <3>3
  <2>6. \A i, j \in 1 .. n + 1 : i < j => e[i].to + 1 < e[j].from
    <3> SUFFICES ASSUME NEW i \in 1 .. n + 1, NEW j \in 1 .. n + 1, i < j
                 PROVE  e[i].to + 1 < e[j].from
      OBVIOUS
    <3>1. i \in 1 .. n
      BY <1>1
    <3>2. CASE j \in 1 .. n
      BY <1>1, <2>2, <3>1, <3>2
    <3>3. CASE j = n + 1
      <4>1. n > 0 /\ n \in 1 .. n /\ i \in Nat /\ i <= n
        BY <1>1, <3>1
      <4>2. i < n => m[i].to + 1 < m[n].from
        BY <1>1, <3>1, <4>1
      <4>3. m[i].to \in Int /\ m[n].from \in Int /\ m[n].to \in Int /\ x.from \in Int
        BY <1>3, <1>5, <3>1, <4>1
      <4>4. m[n].from <= m[n].to
        BY <1>1, <4>1
      <4> DEFINE a == m[i].to
                 b == m[n].from
                 c == m[n].to
                 f == x.from
      <4>5. /\ a \in Int /\ b \in Int /\ c \in Int /\ f \in Int /\ b <= c /\ c + 1 < f
            /\ (i < n => a + 1 < b) /\ (i = n => a = c)
        BY <2>5, <4>1, <4>2, <4>3, <4>4
      <4> HIDE DEF a, b, c, f
      <4>6. a + 1 < f
        <5>1. i < n \/ i = n
          BY <1>1, <4>1
        <5>2. CASE i < n
          <6>1. a + 1 < b
            BY <4>5, <5>2
          <6> QED
            BY <4>5, <6>1
        <5>3. CASE i = n
          <6>1. a = c
            BY <4>5, <5>3
          <6> QED
            BY <4>5, <6>1
        <5> QED
          BY <5>1, <5>2, <5>3
      <4>7. m[i].to + 1 < x.from
        BY <4>6 DEF a, f
      <4> QED
        BY <2>2, <3>1, <3>3, <4>7
    <3> QED
      BY <2>3, <3>2, <3>3
  <2>7. ASSUME NEW d \in Days
        PROVE  (\E i \in 1 .. n + 1 : Within(d, e[i])) <=> (\E a \in 1 .. k + 1 : Within(d, q[a]))
    <3>1. n + 1 \in 1 .. n + 1 /\ \A i \in 1 .. n : i \in 1 .. n + 1
      BY <1>1
    <3>2. (\E i \in 1 .. n + 1 : Within(d, e[i])) <=> (\E i \in 1 .. n : Within(d, m[i])) \/ Within(d, x)
      BY <2>2, <2>3, <3>1
    <3> QED
      BY <1>1, <1>4, <3>2
  <2>8. Len(e) > 0 /\ e[Len(e)].from <= q[k + 1].from
    <3>1. x.from \in Int
      BY <1>2 DEF Days
    <3> QED
      BY <1>1, <2>2, <3>1 DEF x
  <2>9. Folded(e, q, k + 1)
    BY <2>2, <2>4, <2>6, <2>7, <2>8 DEF Folded
  <2> QED
    BY <2>9 DEF e, x
<1> QED
  BY <1>6, <1>7

\* Taking in a window gives windows.
LEMMA ExtendSeq ==
  ASSUME NEW v \in Seq(Window), NEW x \in Window
  PROVE  Extend(v, x) \in Seq(Window)
<1> DEFINE n == Len(v)
           e == Extend(v, x)
<1>1. CASE v # <<>> /\ x.from <= Last(v).to + 1
  <2> DEFINE t == Max({v[n].to, x.to})
             l == [v[n] EXCEPT !.to = t]
  <2>1. n \in Nat /\ n > 0 /\ n \in 1 .. n /\ v[n] \in Window
    BY <1>1
  <2>2. v[n].to \in Days /\ x.to \in Days /\ v[n].to \in Int /\ x.to \in Int
    BY <2>1 DEF Window, Days
  <2>3. t \in Days
    <3>1. t = IF v[n].to >= x.to THEN v[n].to ELSE x.to
      BY <2>2, MaxOfTwo
    <3> QED
      BY <2>2, <3>1
  <2>4. e = [v EXCEPT ![n] = l]
    <3>1. e = [v EXCEPT ![Len(v)].to = Max({@, x.to})]
      BY <1>1 DEF Extend
    <3> QED
      BY <3>1
  <2> HIDE DEF t, e
  <2>5. l \in Window
    BY <2>1, <2>3 DEF Window
  <2> HIDE DEF l
  <2>6. e \in Seq(Window)
    BY <2>1, <2>4, <2>5
  <2> QED
    BY <2>6 DEF e
<1>2. CASE ~(v # <<>> /\ x.from <= Last(v).to + 1)
  BY <1>2 DEF Extend
<1> QED
  BY <1>1, <1>2

\* Merging in order a sequence of windows.
LEMMA FoldFolded ==
  ASSUME WalkAssumption, NEW q, Sorted(q)
  PROVE  Folded(FoldLeft(Extend, <<>>, q), q, Len(q))
<1> DEFINE n == Len(q)
           D == DOMAIN q
           V == Seq(Window)
           pick == [S \in (SUBSET D) \ {{}} |-> Max(S)]
           op == [z \in D \X V |-> Extend(z[2], q[z[1]])]
           iter[s \in SUBSET D] ==
             IF s = {} THEN <<>> ELSE LET x == Max(s) IN Extend(iter[s \ {x}], q[x])
<1>1. FoldLeft(Extend, <<>>, q) = iter[D]
  BY DEF FoldLeft, MapThenFoldSet
<1>2. q \in V /\ n \in Nat /\ D = 1 .. n /\ \A a \in D : q[a] \in Window
  BY DEF Sorted
<1>3. IsFiniteSet(D)
  <2>1. 1 \in Int /\ n \in Int
    BY <1>2
  <2> HIDE DEF n, D, iter, op, pick, V
  <2>2. IsFiniteSet(1 .. n)
    BY <2>1, FS_Interval
  <2> QED
    BY <1>2, <2>2
<1>4. \A S \in (SUBSET D) \ {{}} : Max(S) \in S /\ \A y \in S : Max(S) >= y
  <2> SUFFICES ASSUME NEW S \in (SUBSET D) \ {{}}
               PROVE  Max(S) \in S /\ \A y \in S : Max(S) >= y
    OBVIOUS
  <2>1. S \subseteq 0 .. n /\ S # {}
    BY <1>2
  <2>2. \E x \in S : \A y \in S : x >= y
    BY <1>2, <2>1, GreatestExists
  <2> QED
    BY <2>2 DEF Max
<1>5. Picks(pick, D) /\ \A S \in (SUBSET D) \ {{}} : pick[S] = Max(S)
  BY <1>4 DEF Picks
<1>6. op \in [D \X V -> V]
  <2> SUFFICES ASSUME NEW a \in D, NEW v \in V
               PROVE  Extend(v, q[a]) \in V
    OBVIOUS
  <2> QED
    BY <1>2, ExtendSeq
<1>7. \A a \in D, v \in V : op[<<a, v>>] = Extend(v, q[a])
  OBVIOUS
<1>8. <<>> \in V
  OBVIOUS
<1> HIDE DEF pick, op, V, n
<1>9. PICK f : Unrolled(D, V, <<>>, pick, op, f)
  BY <1>3, <1>5, <1>6, <1>8, FoldExists
<1>10. f = [s \in SUBSET D |->
              IF s = {} THEN <<>> ELSE LET x == Max(s) IN Extend(f[s \ {x}], q[x])]
  <2>1. f \in [SUBSET D -> V]
        /\ \A s \in SUBSET D : f[s] = IF s = {} THEN <<>> ELSE op[<<pick[s], f[s \ {pick[s]}]>>]
    BY <1>9 DEF Unrolled
  <2>2. \A s \in SUBSET D : s # {} => f[s] = Extend(f[s \ {Max(s)}], q[Max(s)])
    <3> SUFFICES ASSUME NEW s \in SUBSET D, s # {}
                 PROVE  f[s] = Extend(f[s \ {Max(s)}], q[Max(s)])
      OBVIOUS
    <3>1. pick[s] = Max(s) /\ Max(s) \in D
      BY <1>4, <1>5
    <3>2. f[s \ {Max(s)}] \in V
      BY <2>1
    <3> QED
      BY <2>1, <3>1, <3>2, <1>7
  <2> QED
    BY <2>1, <2>2
<1>11. iter = [s \in SUBSET D |->
              IF s = {} THEN <<>> ELSE LET x == Max(s) IN Extend(iter[s \ {x}], q[x])]
  BY <1>10
<1>12. iter[{}] = <<>> /\ \A s \in SUBSET D : s # {} => iter[s] = Extend(iter[s \ {Max(s)}], q[Max(s)])
  <2> DEFINE body(s) == IF s = {} THEN <<>> ELSE LET x == Max(s) IN Extend(iter[s \ {x}], q[x])
  <2>1. iter = [s \in SUBSET D |-> body(s)]
    BY <1>11
  <2> HIDE DEF iter
  <2>2. \A s \in SUBSET D : iter[s] = body(s)
    BY <2>1
  <2> QED
    BY <2>2
<1> HIDE DEF iter
<1> DEFINE Bad == {k \in 0 .. n : ~Folded(iter[1 .. k], q, k)}
<1>13. ASSUME Bad # {} PROVE FALSE
  <2>1. PICK k \in Bad : \A j \in Bad : k <= j
    <3>1. Bad \in SUBSET Nat
      BY <1>2
    <3> HIDE DEF Bad
    <3> QED
      BY <1>13, <3>1, LeastExists
  <2>2. k \in 0 .. n /\ ~Folded(iter[1 .. k], q, k)
    OBVIOUS
  <2>3. k # 0
    <3>1. Folded(<<>>, q, 0)
      BY DEF Folded
    <3>2. 1 .. 0 = {}
      OBVIOUS
    <3> QED
      BY <1>12, <2>2, <3>1, <3>2
  <2>4. k - 1 \in 0 .. n /\ k - 1 \in Nat /\ k - 1 \notin Bad
    <3>1. k - 1 \in 0 .. n /\ k - 1 \in Nat /\ ~(k <= k - 1)
      BY <1>2, <2>2, <2>3
    <3> HIDE DEF Bad
    <3> QED
      BY <2>1, <3>1
  <2>5. Folded(iter[1 .. k - 1], q, k - 1)
    BY <2>4
  <2>6. Max(1 .. k) = k /\ (1 .. k) \ {k} = 1 .. k - 1 /\ 1 .. k \in SUBSET D /\ 1 .. k # {}
    <3>1. k \in 1 .. k /\ 1 .. k \in SUBSET D /\ k \in Nat
      BY <1>2, <2>2, <2>3
    <3>2. Max(1 .. k) \in 1 .. k /\ Max(1 .. k) >= k
      BY <1>4, <3>1
    <3>3. (1 .. k) \ {k} = 1 .. k - 1
      BY <3>1
    <3> QED
      BY <3>1, <3>2, <3>3
  <2>7. iter[1 .. k] = Extend(iter[1 .. k - 1], q[k])
    BY <1>12, <2>6
  <2>8. (k - 1) + 1 = k /\ k <= Len(q)
    BY <1>2, <2>2 DEF n
  <2>9. Folded(Extend(iter[1 .. k - 1], q[(k - 1) + 1]), q, (k - 1) + 1)
    BY <2>4, <2>5, <2>8, ExtendFolded
  <2> QED
    BY <2>2, <2>7, <2>8, <2>9
<1>14. Folded(iter[1 .. n], q, n)
  <2>1. n \in 0 .. n /\ n \notin Bad
    BY <1>2, <1>13
  <2> QED
    BY <2>1
<1> QED
  BY <1>1, <1>2, <1>14 DEF n

\* m lists, from the oldest, the stretches of days that the windows of R make up.
Merged(m, R) ==
  /\ m \in Seq(Window)
  /\ \A i \in 1 .. Len(m) : m[i].from <= m[i].to
  /\ \A i, j \in 1 .. Len(m) : i < j => m[i].to + 1 < m[j].from
  /\ \A d \in Days : (\E i \in 1 .. Len(m) : Within(d, m[i])) <=> (\E x \in R : Within(d, x))

Wide(R) == R \subseteq Window /\ IsFiniteSet(R) /\ \A x \in R : x.from <= x.to

\* merge_ranges gives them.
LEMMA MergeFacts ==
  ASSUME WalkAssumption, NEW R, Wide(R)
  PROVE  Merged(MergeRanges(R), R)
<1> DEFINE q == InOrder(R)
           m == MergeRanges(R)
<1>1. /\ q \in Seq(R)
      /\ \A x \in R : \E a \in DOMAIN q : q[a] = x
      /\ \A a, b \in DOMAIN q : a <= b => q[a].from <= q[b].from
  BY InOrderFacts DEF Wide
<1> HIDE DEF q
<1>2. DOMAIN q = 1 .. Len(q) /\ \A a \in 1 .. Len(q) : q[a] \in R
  BY <1>1
<1>3. Sorted(q)
  <2>1. q \in Seq(Window)
    BY <1>1 DEF Wide
  <2>2. \A a \in 1 .. Len(q) : q[a].from <= q[a].to
    BY <1>2 DEF Wide
  <2> QED
    BY <1>1, <1>2, <2>1, <2>2 DEF Sorted
<1>4. Folded(m, q, Len(q))
  <2>1. m = FoldLeft(Extend, <<>>, q)
    BY DEF MergeRanges, q
  <2> QED
    BY <1>3, <2>1, FoldFolded
<1> HIDE DEF m
<1>5. \A d \in Days : (\E a \in 1 .. Len(q) : Within(d, q[a])) <=> (\E x \in R : Within(d, x))
  BY <1>1, <1>2
<1>6. Merged(m, R)
  BY <1>4, <1>5 DEF Folded, Merged
<1> QED
  BY <1>6 DEF m

\* The smaller of two numbers.
LEMMA MinOfTwo ==
  ASSUME NEW a \in Int, NEW b \in Int
  PROVE  Min({a, b}) = IF a <= b THEN a ELSE b
<1> DEFINE m == IF a <= b THEN a ELSE b
<1>1. m \in {a, b} /\ \A y \in {a, b} : m <= y
  OBVIOUS
<1>2. \A x \in {a, b} : (\A y \in {a, b} : x <= y) => x = m
  OBVIOUS
<1> QED
  BY <1>1, <1>2 DEF Min

\* A day no window covers.
Open(d, R) == \A x \in R : ~Within(d, x)

\* Gaps lie in want, each has a day, no two touch, and they hold the open days of want.
Gaps(gaps, R, want) ==
  /\ \A g \in gaps : g.from \in Days /\ g.to \in Days /\ g.from <= g.to
  /\ \A d \in Days : (\E g \in gaps : Within(d, g)) <=> Within(d, want) /\ Open(d, R)
  /\ \A g, h \in gaps : g # h => g.to + 1 < h.from \/ h.to + 1 < g.from

\* missing_windows gives them.
LEMMA MissingFacts ==
  ASSUME WalkAssumption, NEW R, Wide(R), NEW want, want.from \in Days, want.to \in Days
  PROVE  Gaps(MissingWindows(R, want), R, want)
<1> DEFINE m == MergeRanges(R)
           n == Len(m)
           after(i) == IF i = 0 THEN want.from ELSE Max({want.from, m[i].to + 1})
           before(i) == IF i = n THEN want.to ELSE Min({want.to, m[i + 1].from - 1})
           J == {j \in 0 .. n : after(j) <= before(j)}
           gaps == {[from |-> after(i), to |-> before(i)] : i \in J}
<1>1. MissingWindows(R, want) = gaps
  BY DEF MissingWindows
<1>2. Merged(m, R)
  BY MergeFacts
<1> HIDE DEF m
<1>3. m \in Seq(Window) /\ n \in Nat
  BY <1>2 DEF Merged
<1>4. \A i \in 1 .. n : m[i].from \in Days /\ m[i].to \in Days
  <2>1. \A i \in 1 .. n : m[i] \in Window
    BY <1>3
  <2> QED
    BY <2>1 DEF Window
<1>5. \A d \in Days : d \in Int /\ d >= 1 /\ d <= LastDay /\ LastDay \in Int
  BY DEF Days, WalkAssumption
<1>6. /\ \A i \in 1 .. n : m[i].from <= m[i].to
      /\ \A i, j \in 1 .. n : i < j => m[i].to + 1 < m[j].from
      /\ \A d \in Days : (\E i \in 1 .. n : Within(d, m[i])) <=> (\E x \in R : Within(d, x))
  BY <1>2 DEF Merged
<1>7. \A i \in 1 .. n : m[i].from \in Int /\ m[i].to \in Int
  BY <1>4, <1>5
<1>8. want.from \in Int /\ want.to \in Int
  BY <1>5
<1>9. \A i \in 0 .. n :
        /\ after(i) \in Int /\ after(i) >= want.from
        /\ i > 0 => after(i) >= m[i].to + 1
        /\ after(i) = want.from \/ (i > 0 /\ after(i) = m[i].to + 1)
  <2> SUFFICES ASSUME NEW i \in 0 .. n
               PROVE  /\ after(i) \in Int /\ after(i) >= want.from
                      /\ i > 0 => after(i) >= m[i].to + 1
                      /\ after(i) = want.from \/ (i > 0 /\ after(i) = m[i].to + 1)
    OBVIOUS
  <2>1. CASE i = 0
    BY <1>8, <2>1
  <2>2. CASE i # 0
    <3>1. i \in 1 .. n /\ i > 0 /\ m[i].to + 1 \in Int
      BY <1>3, <1>7, <2>2
    <3> DEFINE a == want.from
               b == m[i].to + 1
    <3>2. after(i) = Max({a, b}) /\ a \in Int /\ b \in Int
      BY <1>8, <2>2, <3>1
    <3> HIDE DEF a, b, after
    <3>3. after(i) = IF a >= b THEN a ELSE b
      BY <3>2, MaxOfTwo
    <3>4. after(i) \in Int /\ after(i) >= a /\ after(i) >= b /\ (after(i) = a \/ after(i) = b)
      BY <3>2, <3>3
    <3> QED
      BY <3>1, <3>4 DEF a, b
  <2> QED
    BY <2>1, <2>2
<1>10. \A i \in 0 .. n :
         /\ before(i) \in Int /\ before(i) <= want.to
         /\ i < n => before(i) <= m[i + 1].from - 1
         /\ before(i) = want.to \/ (i < n /\ before(i) = m[i + 1].from - 1)
  <2> SUFFICES ASSUME NEW i \in 0 .. n
               PROVE  /\ before(i) \in Int /\ before(i) <= want.to
                      /\ i < n => before(i) <= m[i + 1].from - 1
                      /\ before(i) = want.to \/ (i < n /\ before(i) = m[i + 1].from - 1)
    OBVIOUS
  <2>1. CASE i = n
    BY <1>3, <1>8, <2>1
  <2>2. CASE i # n
    <3>1. i + 1 \in 1 .. n /\ i < n
      BY <1>3, <2>2
    <3>2. m[i + 1].from - 1 \in Int
      BY <1>7, <3>1
    <3> DEFINE a == want.to
               b == m[i + 1].from - 1
    <3>3. before(i) = Min({a, b}) /\ a \in Int /\ b \in Int
      BY <1>8, <2>2, <3>2
    <3> HIDE DEF a, b, before
    <3>4. before(i) = IF a <= b THEN a ELSE b
      BY <3>3, MinOfTwo
    <3>5. before(i) \in Int /\ before(i) <= a /\ before(i) <= b /\ (before(i) = a \/ before(i) = b)
      BY <3>3, <3>4
    <3> QED
      BY <3>1, <3>5 DEF a, b
  <2> QED
    BY <2>1, <2>2
<1> HIDE DEF after, before, n
<1>11. \A g \in gaps : g.from \in Days /\ g.to \in Days /\ g.from <= g.to
  <2> SUFFICES ASSUME NEW i \in 0 .. n, after(i) <= before(i)
               PROVE  after(i) \in Days /\ before(i) \in Days
    OBVIOUS
  <2>1. after(i) >= 1 /\ before(i) <= LastDay /\ after(i) \in Int /\ before(i) \in Int /\ LastDay \in Int
    BY <1>5, <1>8, <1>9, <1>10
  <2> QED
    BY <2>1 DEF Days
<1>12. ASSUME NEW i \in 0 .. n, NEW d \in Days, after(i) <= d, d <= before(i)
       PROVE  Within(d, want) /\ Open(d, R)
  <2>1. d \in Int /\ want.from <= d /\ d <= want.to
    BY <1>5, <1>8, <1>9, <1>10, <1>12
  <2>2. ASSUME NEW j \in 1 .. n, Within(d, m[j])
        PROVE  FALSE
    <3>1. m[j].from <= d /\ d <= m[j].to /\ m[j].from \in Int /\ m[j].to \in Int
          /\ after(i) \in Int /\ before(i) \in Int /\ i \in Nat /\ j \in Nat
      <4>1. m[j].from <= d /\ d <= m[j].to
        BY <2>2 DEF Within
      <4>2. after(i) \in Int /\ before(i) \in Int
        BY <1>9, <1>10
      <4> HIDE DEF n
      <4>3. m[j].from \in Int /\ m[j].to \in Int /\ i \in Nat /\ j \in Nat
        BY <1>3, <1>7
      <4> QED
        BY <4>1, <4>2, <4>3
    <3>2. CASE j <= i
      <4>1. i \in 1 .. n /\ i > 0
        BY <1>3, <3>1, <3>2
      <4>2. m[i].to + 1 <= d /\ m[i].to \in Int /\ m[i].from \in Int /\ m[i].from <= m[i].to
        BY <1>6, <1>7, <1>9, <1>12, <2>1, <3>1, <4>1
      <4>3. j = i \/ (j < i /\ m[j].to + 1 < m[i].from)
        BY <1>6, <3>1, <3>2, <4>1
      <4> QED
        BY <2>1, <3>1, <4>2, <4>3
    <3>3. CASE j > i
      <4>1. i + 1 \in 1 .. n /\ i < n
        <5>1. j <= n /\ i \in Nat /\ j \in Nat /\ n \in Nat
          BY <1>3, <3>1
        <5> HIDE DEF after, before
        <5> QED
          BY <3>3, <5>1
      <4>2. d <= m[i + 1].from - 1 /\ m[i + 1].to \in Int /\ m[i + 1].from \in Int
            /\ m[i + 1].from <= m[i + 1].to
        BY <1>6, <1>7, <1>10, <1>12, <2>1, <3>1, <4>1
      <4>3. j = i + 1 \/ (i + 1 < j /\ m[i + 1].to + 1 < m[j].from)
        BY <1>6, <3>1, <3>3, <4>1
      <4> QED
        BY <2>1, <3>1, <4>2, <4>3
    <3> QED
      BY <3>1, <3>2, <3>3
  <2>3. Open(d, R)
    BY <1>6, <2>2 DEF Open
  <2> QED
    BY <2>1, <2>3 DEF Within
<1>13. ASSUME NEW d \in Days, Within(d, want), Open(d, R)
       PROVE  \E i \in 0 .. n : after(i) <= d /\ d <= before(i)
  <2>1. d \in Int /\ want.from <= d /\ d <= want.to
    BY <1>5, <1>13 DEF Within
  <2>2. \A j \in 1 .. n : ~Within(d, m[j])
    BY <1>6, <1>13 DEF Open
  <2> DEFINE T == {j \in 0 .. n : j = 0 \/ m[j].to < d}
  <2>3. T \in SUBSET (0 .. n) /\ 0 \in T /\ n \in Nat
    BY <1>3 DEF n
  <2>4. PICK i \in T : \A j \in T : i >= j
    <3> HIDE DEF T
    <3> QED
      BY <2>3, GreatestExists
  <2>5. i \in 0 .. n /\ (i = 0 \/ m[i].to < d)
    OBVIOUS
  <2>6. after(i) <= d
    <3>1. i > 0 => m[i].to \in Int /\ m[i].to + 1 <= d
      <4>1. i > 0 => i \in 1 .. n
        BY <2>3, <2>5
      <4> QED
        BY <1>7, <2>1, <2>5, <4>1
    <3> QED
      BY <1>8, <1>9, <2>1, <2>5, <3>1
  <2>7. d <= before(i)
    <3>1. i < n => m[i + 1].from \in Int /\ d <= m[i + 1].from - 1
      <4> SUFFICES ASSUME i < n
                   PROVE  m[i + 1].from \in Int /\ d <= m[i + 1].from - 1
        OBVIOUS
      <4>1. i + 1 \in 1 .. n /\ i + 1 \in 0 .. n /\ ~(i >= i + 1) /\ i + 1 # 0
        BY <2>3, <2>5
      <4>2. i + 1 \notin T
        <5> HIDE DEF T
        <5> QED
          BY <2>4, <4>1
      <4>3. ~(m[i + 1].to < d)
        BY <4>1, <4>2
      <4>4. ~Within(d, m[i + 1]) /\ m[i + 1].from \in Int /\ m[i + 1].to \in Int
        BY <1>7, <2>2, <4>1
      <4> QED
        BY <2>1, <4>3, <4>4 DEF Within
    <3> QED
      BY <1>8, <1>10, <2>1, <2>5, <3>1
  <2> QED
    BY <2>5, <2>6, <2>7
<1>14. \A d \in Days : (\E g \in gaps : Within(d, g)) <=> Within(d, want) /\ Open(d, R)
  <2>1. ASSUME NEW d \in Days, NEW g \in gaps, Within(d, g)
        PROVE  Within(d, want) /\ Open(d, R)
    <3>1. PICK i \in 0 .. n : g = [from |-> after(i), to |-> before(i)]
      OBVIOUS
    <3>2. after(i) <= d /\ d <= before(i)
      BY <2>1, <3>1 DEF Within
    <3> QED
      BY <1>12, <3>2
  <2>2. ASSUME NEW d \in Days, Within(d, want), Open(d, R)
        PROVE  \E g \in gaps : Within(d, g)
    <3>1. PICK i \in 0 .. n : after(i) <= d /\ d <= before(i)
      BY <1>13, <2>2
    <3>2. after(i) <= before(i)
      BY <1>5, <1>9, <1>10, <3>1
    <3> DEFINE g == [from |-> after(i), to |-> before(i)]
    <3>3. g \in gaps
      BY <3>2
    <3>4. Within(d, g)
      BY <3>1 DEF Within
    <3> QED
      BY <3>3, <3>4
  <2> HIDE DEF gaps
  <2> QED
    BY <2>1, <2>2
<1>15. \A g, h \in gaps : g # h => g.to + 1 < h.from \/ h.to + 1 < g.from
  <2>1. ASSUME NEW i \in 0 .. n, NEW j \in 0 .. n, i < j
        PROVE  before(i) + 1 < after(j)
    <3>1. i \in Nat /\ j \in Nat /\ i + 1 \in 1 .. n /\ j \in 1 .. n /\ i < n /\ j > 0 /\ i + 1 <= j
      BY <1>3, <2>1 DEF n
    <3>2. before(i) <= m[i + 1].from - 1 /\ after(j) >= m[j].to + 1
          /\ before(i) \in Int /\ after(j) \in Int
      BY <1>9, <1>10, <3>1
    <3>3. j = i + 1 \/ m[i + 1].to + 1 < m[j].from
      BY <1>6, <3>1
    <3>4. /\ m[i + 1].from \in Int /\ m[i + 1].to \in Int /\ m[j].from \in Int /\ m[j].to \in Int
          /\ m[i + 1].from <= m[i + 1].to /\ m[j].from <= m[j].to
      BY <1>6, <1>7, <3>1
    <3>5. m[i + 1].from <= m[j].to
      BY <3>3, <3>4
    <3> QED
      BY <3>2, <3>4, <3>5
  <2> SUFFICES ASSUME NEW i \in 0 .. n, NEW j \in 0 .. n, i # j
               PROVE  before(i) + 1 < after(j) \/ before(j) + 1 < after(i)
    OBVIOUS
  <2>2. i < j \/ j < i
    OBVIOUS
  <2> QED
    BY <2>1, <2>2
<1> HIDE DEF gaps
<1> QED
  BY <1>1, <1>11, <1>14, <1>15 DEF Gaps

-----------------------------------------------------------------------------
(* What a walk has left behind it. *)

\* A day some row of the ledger covers.
Got(L, c, r, d) == \E x \in L : x.c = c /\ x.r = r /\ Within(d, x)
LifeOf(b, c) == {d \in Days \ Closed : c = Spot \/ d >= b[c]}

\* Of the sheet s: the days after the window x are held, those of x are, no day of the
\* life lies at or before its end.
Newer(L, x, s) == \A d \in Days : x.to < d /\ d <= WindowEnd(s) => Got(L, x.c, x.r, d)
Own(L, x) == \A d \in Days : Within(d, x) => Got(L, x.c, x.r, d)
Unborn(b, x, s) == \A d \in LifeOf(b, x.c) : WalkFloor(s) <= d => x.to < d

\* Of what lies before x, the life is held, or the walk goes on there, or it was lost.
Older(b, L, ts, ct, x, s) ==
  \/ <<x.job, x.c, x.r>> \in ct
  \/ \A d \in LifeOf(b, x.c) : WalkFloor(s) <= d /\ d < x.from => Got(L, x.c, x.r, d)
  \/ \E k \in DOMAIN ts : /\ ts[k].job = x.job /\ ts[k].c = x.c /\ ts[k].r = x.r
                          /\ ts[k].to < x.from

RowKnown(b, L, js, ts, ct, x) ==
  x.c # Spot =>
    /\ Newer(L, x, js[x.job].sheet)
    /\ x.state \in {"done", "empty"} => Own(L, x) /\ Older(b, L, ts, ct, x, js[x.job].sheet)
    /\ x.state = "skipped" => Unborn(b, x, js[x.job].sheet)

\* A worker past the commit has its row held; past the decision it knows what is older.
WorkKnown(b, L, js, ts, ct, e) ==
  (e.step \notin {"idle", "leased"} /\ ts[e.task].c # Spot) =>
    /\ Own(L, ts[e.task])
    /\ e.step # "stored" => Older(b, L, ts, ct, ts[e.task], js[ts[e.task].job].sheet)

DraftKnown(L, dr) == \A p \in dr : \A x \in p.chunks : x.c # Spot => Newer(L, x, p.sheet)
LedgerWide(L) == \A x \in L : x.from <= x.to

Hold(b, L, js, ts, ct, dr, wk) ==
  /\ LedgerWide(L) /\ DraftKnown(L, dr)
  /\ \A i \in DOMAIN ts : RowKnown(b, L, js, ts, ct, ts[i])
  /\ \A w \in Workers : WorkKnown(b, L, js, ts, ct, wk[w])

HoldInv == Hold(birth, ledger, jobs, tasks, cut, draft, work)

\* A cut of a window into requests leaves no day out.
LEMMA GridCovers ==
  ASSUME WalkAssumption, NEW lo \in Int, NEW hi \in Int, NEW d \in Int, lo <= d, d <= hi
  PROVE  \E j \in DOMAIN Grid(lo, hi, ChunkDays) : Within(d, Grid(lo, hi, ChunkDays)[j])
<1> DEFINE T == {n \in 0 .. hi - d : n * ChunkDays <= hi - d}
<1>1. ChunkDays \in Nat /\ ChunkDays > 0
  BY DEF WalkAssumption
<1>2. hi - d \in Nat /\ 0 \in T
  <2>1. 0 * ChunkDays = 0
    BY <1>1
  <2> QED
    BY <2>1
<1>3. PICK n \in T : \A k \in T : n >= k
  <2>1. T \in SUBSET (0 .. hi - d) /\ T # {}
    BY <1>2
  <2> HIDE DEF T
  <2> QED
    BY <1>2, <2>1, GreatestExists
<1>4. n \in Nat /\ n <= hi - d /\ n * ChunkDays <= hi - d
  OBVIOUS
<1>5. (n + 1) * ChunkDays > hi - d
  <2>1. CASE n + 1 \in 0 .. hi - d
    <3>1. n + 1 \notin T
      <4>1. ~(n >= n + 1)
        BY <1>4
      <4> HIDE DEF T
      <4> QED
        BY <1>3, <4>1
    <3>2. ~((n + 1) * ChunkDays <= hi - d) /\ (n + 1) * ChunkDays \in Int
      BY <1>1, <1>4, <2>1, <3>1
    <3> QED
      BY <1>2, <3>2
  <2>2. CASE n + 1 \notin 0 .. hi - d
    <3>1. n + 1 > hi - d
      BY <1>2, <1>4, <2>2
    <3>2. (n + 1) * ChunkDays >= n + 1
      <4>1. \A a \in Nat, c \in Nat : c > 0 => a * c >= a
        OBVIOUS
      <4> QED
        BY <1>1, <1>4, <4>1
    <3>3. (n + 1) * ChunkDays \in Int
      BY <1>1, <1>4
    <3> QED
      BY <1>2, <1>4, <3>1, <3>2, <3>3
  <2> QED
    BY <2>1, <2>2
<1>6. (n + 1) * ChunkDays = n * ChunkDays + ChunkDays
  BY <1>1, <1>4, Distribute
<1> DEFINE j == n + 1
           p == n * ChunkDays
           q == (n + 1) * ChunkDays
<1>7. /\ p \in Int /\ q \in Int /\ q = p + ChunkDays /\ p <= hi - d /\ q > hi - d
      /\ j - 1 = n /\ (j - 1) * ChunkDays = p
  BY <1>1, <1>4, <1>5, <1>6
<1> HIDE DEF p, q
<1>8. j \in 1 .. hi - lo + 1 /\ hi - p >= lo
  BY <1>4, <1>7
<1>9. j \in DOMAIN Grid(lo, hi, ChunkDays)
  BY <1>7, <1>8 DEF Grid
<1> DEFINE g == Grid(lo, hi, ChunkDays)[j]
<1>10. IsPiece(g, lo, hi, j - 1)
  BY <1>9, GridIsPieces
<1>11. g.to = hi - p /\ g.from = IF lo <= g.to + 1 - ChunkDays THEN g.to + 1 - ChunkDays ELSE lo
  <2> HIDE DEF g
  <2>1. /\ g.to = hi - (j - 1) * ChunkDays
        /\ g.from = IF lo <= g.to + 1 - ChunkDays THEN g.to + 1 - ChunkDays ELSE lo
    BY <1>10 DEF IsPiece
  <2> HIDE DEF j
  <2> QED
    BY <1>7, <2>1
<1> HIDE DEF g, j
<1>12. Within(d, g)
  BY <1>1, <1>7, <1>11 DEF Within
<1> QED
  BY <1>9, <1>12 DEF g

\* A day after a window of the cut lies in a newer one.
LEMMA GridOrder ==
  ASSUME WalkAssumption, NEW lo \in Int, NEW hi \in Int, NEW d \in Int,
         NEW i \in DOMAIN Grid(lo, hi, ChunkDays), NEW j \in DOMAIN Grid(lo, hi, ChunkDays),
         Within(d, Grid(lo, hi, ChunkDays)[j]), Grid(lo, hi, ChunkDays)[i].to < d
  PROVE  i \in Nat /\ j \in 1 .. i - 1
<1> DEFINE x == Grid(lo, hi, ChunkDays)[i]
           y == Grid(lo, hi, ChunkDays)[j]
<1>1. /\ i \in Nat \ {0} /\ IsPiece(x, lo, hi, i - 1)
      /\ j \in Nat \ {0} /\ IsPiece(y, lo, hi, j - 1)
  BY GridIsPieces
<1>2. Within(d, y) /\ x.to < d
  OBVIOUS
<1> HIDE DEF x, y
<1>3. i - 1 \in Nat /\ j - 1 \in Nat
  BY <1>1
<1>4. /\ x.from \in Int /\ x.to \in Int /\ x.from <= x.to
      /\ y.from \in Int /\ y.to \in Int
  BY <1>1, <1>3, PieceFacts
<1>5. d <= y.to
  BY <1>2 DEF Within
<1>6. CASE i - 1 < j - 1
  <2>1. y.to < x.from
    BY <1>1, <1>3, <1>6, PiecesApart
  <2> QED
    BY <1>2, <1>4, <1>5, <2>1
<1>7. CASE i - 1 = j - 1
  <2>1. x.to = y.to
    BY <1>1, <1>7, SamePiece
  <2> QED
    BY <1>2, <1>4, <1>5, <2>1
<1>8. CASE j - 1 < i - 1
  BY <1>1, <1>8
<1> QED
  BY <1>3, <1>6, <1>7, <1>8

\* The windows of a cut are numbered without a gap.
LEMMA GridDense ==
  ASSUME WalkAssumption, NEW lo \in Int, NEW hi \in Int, NEW j \in DOMAIN Grid(lo, hi, ChunkDays),
         NEW k \in 1 .. j
  PROVE  j \in Nat /\ k \in DOMAIN Grid(lo, hi, ChunkDays)
<1>1. j \in Nat \ {0}
  BY GridIsPieces
<1>2. j \in 1 .. hi - lo + 1 /\ hi - (j - 1) * ChunkDays >= lo
  BY DEF Grid
<1>3. ChunkDays \in Nat /\ k \in Nat /\ k >= 1 /\ k <= j /\ k \in 1 .. hi - lo + 1
  BY <1>1, <1>2 DEF WalkAssumption
<1> DEFINE p == (k - 1) * ChunkDays
           q == (j - 1) * ChunkDays
<1>4. p \in Nat /\ q \in Nat
  BY <1>1, <1>3
<1>5. p <= q
  <2>1. CASE k = j
    BY <1>4, <2>1
  <2>2. CASE k < j
    <3>1. k - 1 \in Nat /\ j - 1 \in Nat /\ k - 1 < j - 1
      BY <1>1, <1>3, <2>2
    <3>2. p + ChunkDays <= q
      BY <1>3, <3>1, Scaled
    <3> HIDE DEF p, q
    <3> QED
      BY <1>3, <1>4, <3>2
  <2> QED
    BY <1>1, <1>3, <2>1, <2>2
<1>6. hi - q >= lo
  BY <1>2
<1> HIDE DEF p, q
<1>7. hi - p >= lo
  BY <1>4, <1>5, <1>6
<1> QED
  BY <1>1, <1>3, <1>7 DEF Grid, p

\* The windows of the ledger's rows are what merge_ranges is made for.
LEMMA WindowsWide ==
  ASSUME WalkAssumption, NEW L, L \subseteq LedgerRow, LedgerWide(L)
  PROVE  Wide(Windows(L))
<1> DEFINE R == Windows(L)
           f == [x \in Window |-> <<x.from, x.to>>]
<1>1. R \subseteq Window /\ \A x \in R : x.from <= x.to
  <2> SUFFICES ASSUME NEW y \in L
               PROVE  [from |-> y.from, to |-> y.to] \in Window /\ y.from <= y.to
    BY DEF Windows
  <2>1. y \in LedgerRow
    OBVIOUS
  <2> QED
    BY <2>1 DEF LedgerRow, Window, LedgerWide
<1>2. IsFiniteSet(Days \X Days)
  <2>1. LastDay \in Int /\ 1 \in Int
    BY DEF WalkAssumption
  <2>2. IsFiniteSet(Days)
    BY <2>1, FS_Interval DEF Days
  <2> QED
    BY <2>2, FS_Product
<1>3. f \in [Window -> Days \X Days]
  BY DEF Window
<1>4. \A x, y \in Window : f[x] = f[y] => x = y
  <2> SUFFICES ASSUME NEW x \in Window, NEW y \in Window, f[x] = f[y]
               PROVE  x = y
    OBVIOUS
  <2>1. x.from = y.from /\ x.to = y.to
    OBVIOUS
  <2> QED
    BY <2>1 DEF Window
<1>5. IsFiniteSet(Window)
  <2>1. f \in Injection(Window, Days \X Days)
    BY <1>3, <1>4 DEF Injection, IsInjective
  <2> HIDE DEF f
  <2> QED
    BY <1>2, <2>1, FS_Injection
<1>6. IsFiniteSet(R)
  BY <1>1, <1>5, FS_Subset
<1> QED
  BY <1>1, <1>6 DEF Wide

\* No day covers a window that has nothing missing but one of the rows'.
LEMMA NothingMissing ==
  ASSUME WalkAssumption, NEW L, L \subseteq LedgerRow, LedgerWide(L),
         NEW want, want.from \in Days, want.to \in Days
  PROVE  MissingWindows(Windows(L), want) = {}
           <=> \A d \in Days : Within(d, want) => \E x \in L : Within(d, x)
<1> DEFINE R == Windows(L)
           gaps == MissingWindows(R, want)
<1>1. Gaps(gaps, R, want)
  BY WindowsWide, MissingFacts
<1>2. \A d : Open(d, R) <=> ~ \E x \in L : Within(d, x)
  <2> SUFFICES ASSUME NEW d
               PROVE  Open(d, R) <=> ~ \E x \in L : Within(d, x)
    OBVIOUS
  <2>1. \A x \in L : Within(d, [from |-> x.from, to |-> x.to]) <=> Within(d, x)
    BY DEF Within
  <2>2. \A x \in L : [from |-> x.from, to |-> x.to] \in R
    BY DEF Windows
  <2>3. \A z \in R : \E x \in L : z = [from |-> x.from, to |-> x.to]
    BY DEF Windows
  <2> HIDE DEF R
  <2>4. ASSUME Open(d, R) PROVE ~ \E x \in L : Within(d, x)
    BY <2>1, <2>2, <2>4 DEF Open
  <2>5. ASSUME ~ \E x \in L : Within(d, x) PROVE Open(d, R)
    <3> SUFFICES ASSUME NEW z \in R
                 PROVE  ~Within(d, z)
      BY DEF Open
    <3>1. PICK x \in L : z = [from |-> x.from, to |-> x.to]
      BY <2>3
    <3> QED
      BY <2>1, <2>5, <3>1
  <2> QED
    BY <2>4, <2>5
<1> HIDE DEF gaps, R
<1>3. \A g \in gaps : g.from \in Days /\ Within(g.from, g)
  <2> SUFFICES ASSUME NEW g \in gaps
               PROVE  g.from \in Days /\ Within(g.from, g)
    OBVIOUS
  <2>1. g.from \in Days /\ g.to \in Days /\ g.from <= g.to
    BY <1>1 DEF Gaps
  <2>2. g.from \in Int
    BY <2>1 DEF Days
  <2> QED
    BY <2>1, <2>2 DEF Within
<1>4. \A d \in Days : (\E g \in gaps : Within(d, g)) <=> Within(d, want) /\ Open(d, R)
  BY <1>1 DEF Gaps
<1>5. gaps = {} <=> \A d \in Days : Within(d, want) => ~Open(d, R)
  BY <1>3, <1>4
<1>6. gaps = {} <=> \A d \in Days : Within(d, want) => \E x \in L : Within(d, x)
  BY <1>2, <1>5
<1> QED
  BY <1>6 DEF gaps, R

\* The rows of a series the planner looks at, none of them for a forced sheet.
LEMMA RowsSeen ==
  ASSUME WalkAssumption, StoreShape, LedgerWide(ledger), NEW s, NEW c, NEW r
  PROVE  LET rows == IF s.force THEN {} ELSE Held(c, r)
         IN  /\ rows \subseteq LedgerRow /\ LedgerWide(rows)
             /\ \A x \in rows : x \in ledger /\ x.c = c /\ x.r = r
BY DEF StoreShape, LedgerWide, Held

\* What the planner asks for is the newest it does not hold: the days after it are held.
LEMMA EmitNewer ==
  ASSUME WalkAssumption, StoreShape, LedgerWide(ledger), NEW s \in Sheets, NEW c \in Contracts,
         NEW r \in s.res, NEW x \in EmitChunks(s, c, r)
  PROVE  Newer(ledger, x, s)
<1> DEFINE rows == IF s.force THEN {} ELSE Held(c, r)
           lo == WalkFloor(s)
           hi == WindowEnd(s)
           grid == Grid(lo, hi, ChunkDays)
           held(i) == MissingWindows(Windows(rows), grid[i]) = {}
<1>1. PICK i \in DOMAIN grid :
        /\ x = [c |-> c, r |-> r, from |-> grid[i].from, to |-> grid[i].to]
        /\ \A j \in 1 .. i - 1 : held(j)
  BY DEF EmitChunks
<1>2. rows \subseteq LedgerRow /\ LedgerWide(rows) /\ \A y \in rows : y \in ledger /\ y.c = c /\ y.r = r
  BY RowsSeen
<1>3. c \in Series /\ c # Spot
  BY DEF WalkAssumption, Series
<1>4. lo \in Days /\ hi \in Days
  <2>1. Left(c, s) = lo
    BY <1>3 DEF Left
  <2> QED
    BY <1>3, <2>1, LeftFacts, SheetFacts
<1>5. lo \in Int /\ hi \in Int /\ LastDay \in Nat
  BY <1>4 DEF Days, WalkAssumption
<1> HIDE DEF rows, lo, hi
<1> SUFFICES ASSUME NEW d \in Days, x.to < d, d <= hi
             PROVE  Got(ledger, x.c, x.r, d)
  BY DEF Newer, hi
<1>6. d \in Int /\ x.to = grid[i].to /\ x.c = c /\ x.r = r
  BY <1>1 DEF Days
<1>7. IsPiece(grid[i], lo, hi, i - 1) /\ i - 1 \in Nat
  <2>1. i \in Nat \ {0} /\ IsPiece(grid[i], lo, hi, i - 1)
    BY <1>1, <1>5, GridIsPieces
  <2> HIDE DEF grid
  <2> QED
    BY <2>1
<1>8. grid[i].to \in Int /\ grid[i].from \in Int /\ lo <= grid[i].from /\ grid[i].from <= grid[i].to
  BY <1>5, <1>7, PieceFacts
<1>9. lo <= d /\ grid[i].to < d
  BY <1>5, <1>6, <1>8
<1>10. PICK j \in DOMAIN grid : Within(d, grid[j])
  BY <1>5, <1>6, <1>9, GridCovers
<1>11. j \in 1 .. i - 1
  BY <1>5, <1>6, <1>9, <1>10, GridOrder
<1>12. held(j)
  BY <1>1, <1>11
<1>13. grid[j].from \in Days /\ grid[j].to \in Days
  <2>1. IsPiece(grid[j], lo, hi, j - 1) /\ j \in Nat \ {0}
    BY <1>5, <1>10, GridIsPieces
  <2>2. /\ grid[j].from \in Int /\ grid[j].to \in Int
        /\ lo <= grid[j].from /\ grid[j].from <= grid[j].to /\ grid[j].to <= hi
    <3>1. j - 1 \in Nat
      BY <2>1
    <3> QED
      BY <1>5, <2>1, <3>1, PieceFacts
  <2> HIDE DEF grid
  <2> QED
    BY <1>4, <1>5, <2>2 DEF Days
<1> HIDE DEF grid
<1>14. \E y \in rows : Within(d, y)
  BY <1>2, <1>10, <1>12, <1>13, NothingMissing
<1> QED
  BY <1>2, <1>6, <1>14 DEF Got

\* A row and the grid its job's sheet is cut into.
LEMMA RowOnGrid ==
  ASSUME WalkAssumption, NEW js, NEW ts, Tables(js, ts), NEW i \in DOMAIN ts, ts[i].c # Spot
  PROVE  /\ ts[i] \in TaskRow(Len(js)) /\ ts[i].job \in DOMAIN js /\ js[ts[i].job].sheet \in Sheets
         /\ WalkFloor(js[ts[i].job].sheet) \in Days /\ WindowEnd(js[ts[i].job].sheet) \in Days
         /\ \E n \in Nat : IsPiece(ts[i], WalkFloor(js[ts[i].job].sheet),
                                  WindowEnd(js[ts[i].job].sheet), n)
<1> DEFINE s == js[ts[i].job].sheet
<1>1. ts[i] \in TaskRow(Len(js)) /\ ts[i].job \in DOMAIN js
  BY Lengths
<1>2. js[ts[i].job] \in JobRow
  BY <1>1, Lengths
<1>3. s \in Sheets /\ ts[i].c \in Series
  BY <1>1, <1>2 DEF JobRow, TaskRow
<1>4. OnGrid(ts[i], s)
  BY DEF Tables
<1>5. Left(ts[i].c, s) = WalkFloor(s)
  BY DEF Left
<1> HIDE DEF s
<1>6. WalkFloor(s) \in Days /\ WindowEnd(s) \in Days
  BY <1>3, <1>5, LeftFacts, SheetFacts
<1>7. \E n \in Nat : IsPiece(ts[i], WalkFloor(s), WindowEnd(s), n)
  BY <1>4, <1>5 DEF OnGrid
<1> QED
  BY <1>1, <1>3, <1>6, <1>7 DEF s

\* No row asks for a window the wrong way round.
LEMMA RowWide ==
  ASSUME Hypotheses, WalkInv, NEW i \in DOMAIN tasks
  PROVE  /\ tasks[i].from \in Int /\ tasks[i].to \in Int /\ tasks[i].from <= tasks[i].to
<1> DEFINE t == tasks[i]
           s == jobs[t.job].sheet
<1>1. WalkAssumption /\ Tables(jobs, tasks)
  BY DEF Hypotheses, WalkInv
<1>2. t \in TaskRow(Len(jobs)) /\ t.job \in DOMAIN jobs /\ OnGrid(t, s)
  BY <1>1, Lengths DEF Tables
<1>3. jobs[t.job] \in JobRow
  BY <1>1, <1>2, Lengths
<1>4. s \in Sheets /\ t.c \in Series
  BY <1>2, <1>3 DEF JobRow, TaskRow
<1> HIDE DEF s, t
<1>5. Left(t.c, s) \in Int /\ WindowEnd(s) \in Int
  BY <1>1, <1>4, LeftFacts, SheetFacts DEF Days
<1>6. PICK n \in Nat : IsPiece(t, Left(t.c, s), WindowEnd(s), n)
  BY <1>2 DEF OnGrid
<1>7. t.from \in Int /\ t.to \in Int /\ t.from <= t.to
  BY <1>1, <1>5, <1>6, PieceFacts
<1> QED
  BY <1>7 DEF t

\* The older windows of a row that is not the oldest are as wide as a request may be.
LEMMA OlderWidth ==
  ASSUME WalkAssumption, NEW lo \in Int, NEW hi \in Int, NEW n \in Nat, NEW t,
         IsPiece(t, lo, hi, n), lo < t.from
  PROVE  t.to - t.from + 1 = ChunkDays
<1>1. ChunkDays \in Nat /\ t.from \in Int /\ t.to \in Int
  BY PieceFacts DEF WalkAssumption
<1>2. t.from = IF lo <= t.to + 1 - ChunkDays THEN t.to + 1 - ChunkDays ELSE lo
  BY DEF IsPiece
<1> QED
  BY <1>1, <1>2

\* One row of the ledger over a window covers its days.
LEMMA CoveredGot ==
  ASSUME NEW c, NEW r, NEW g, AlreadyCovered(c, r, g), StoreShape, NEW d \in Days, Within(d, g),
         g.from \in Int, g.to \in Int
  PROVE  Got(ledger, c, r, d)
<1>1. PICK x \in ledger : x.c = c /\ x.r = r /\ x.from <= g.from /\ x.to >= g.to
  BY DEF AlreadyCovered, Held
<1>2. x.from \in Int /\ x.to \in Int /\ d \in Int
  <2>1. x \in LedgerRow
    BY DEF StoreShape
  <2> QED
    BY <2>1 DEF LedgerRow, Days
<1>3. Within(d, x)
  BY <1>1, <1>2 DEF Within
<1> QED
  BY <1>1, <1>3 DEF Got

\* The next window of a walk is the newest the ledger has no row over: once the chunk it
\* goes on from is held, the days after it are.
LEMMA FollowUpNewer ==
  ASSUME WalkAssumption, StoreShape, Tables(jobs, tasks), NEW i \in DOMAIN tasks, tasks[i].c # Spot,
         Own(ledger, tasks[i]), Newer(ledger, tasks[i], jobs[tasks[i].job].sheet),
         NEW x \in OlderWindows(tasks[i]), NEW y, y.c = tasks[i].c, y.r = tasks[i].r,
         y.from = x.from, y.to = x.to
  PROVE  /\ Newer(ledger, y, jobs[tasks[i].job].sheet)
         /\ x.to < tasks[i].from
<1> DEFINE t == tasks[i]
           s == jobs[t.job].sheet
           lo == WalkFloor(s)
           hi == WindowEnd(s)
           hj == t.from - 1
           grid == Grid(lo, hj, t.to - t.from + 1)
<1>1. PICK k \in DOMAIN grid : x = grid[k] /\ \A j \in 1 .. k - 1 : AlreadyCovered(t.c, t.r, grid[j])
  BY DEF OlderWindows
<1>2. lo \in Days /\ hi \in Days /\ \E n \in Nat : IsPiece(t, lo, hi, n)
  BY RowOnGrid
<1>3. PICK n \in Nat : IsPiece(t, lo, hi, n)
  BY <1>2
<1>4. lo \in Int /\ hi \in Int /\ LastDay \in Nat
  BY <1>2 DEF Days, WalkAssumption
<1>5. t.from \in Int /\ t.to \in Int /\ lo <= t.from /\ t.from <= t.to /\ t.to <= hi
  <2> HIDE DEF t, lo, hi
  <2> QED
    BY <1>3, <1>4, PieceFacts
<1>6. Own(ledger, t) /\ Newer(ledger, t, s) /\ y.c = t.c /\ y.r = t.r /\ y.to = x.to
  OBVIOUS
<1> HIDE DEF t, s, lo, hi
<1>7. k \in 1 .. hj - lo + 1
  BY <1>1 DEF Grid
<1>8. hj \in Int /\ lo < t.from
  BY <1>4, <1>5, <1>7
<1>9. t.to - t.from + 1 = ChunkDays
  BY <1>3, <1>4, <1>8, OlderWidth
<1> DEFINE cells == Grid(lo, hj, ChunkDays)
<1>10. grid = cells
  BY <1>9
<1> HIDE DEF grid, hj
<1>11. IsPiece(x, lo, hj, k - 1) /\ k - 1 \in Nat
  BY <1>1, <1>4, <1>8, <1>10, GridIsPieces
<1>12. x.from \in Int /\ x.to \in Int /\ lo <= x.from /\ x.from <= x.to /\ x.to <= hj
  BY <1>4, <1>8, <1>11, PieceFacts
<1>13. x.to < t.from
  BY <1>5, <1>12 DEF hj
<1>14. ASSUME NEW d \in Days, x.to < d, d <= hi
       PROVE  Got(ledger, t.c, t.r, d)
  <2>0. d \in Int
    BY DEF Days
  <2>1. CASE t.to < d
    BY <1>6, <1>14, <2>1 DEF Newer, hi
  <2>2. CASE t.from <= d /\ d <= t.to
    BY <1>6, <2>2 DEF Own, Within
  <2>3. CASE d < t.from
    <3>1. lo <= d /\ d <= hj
      BY <1>4, <1>5, <1>8, <1>12, <1>14, <2>0, <2>3 DEF hj
    <3>2. PICK j \in DOMAIN cells : Within(d, cells[j])
      BY <1>4, <1>8, <2>0, <3>1, GridCovers
    <3>3. j \in 1 .. k - 1
      BY <1>1, <1>4, <1>8, <1>10, <1>14, <2>0, <3>2, GridOrder
    <3>4. AlreadyCovered(t.c, t.r, cells[j])
      BY <1>1, <1>10, <3>3
    <3>5. IsPiece(cells[j], lo, hj, j - 1) /\ j - 1 \in Nat
      BY <1>4, <1>8, GridIsPieces
    <3>6. cells[j].from \in Int /\ cells[j].to \in Int
      BY <1>4, <1>8, <3>5, PieceFacts
    <3> HIDE DEF cells
    <3> QED
      BY <3>2, <3>4, <3>6, CoveredGot
  <2> QED
    BY <1>5, <2>0, <2>1, <2>2, <2>3
<1>15. Newer(ledger, y, s)
  BY <1>6, <1>14 DEF Newer, hi
<1> QED
  BY <1>13, <1>15 DEF t, s

\* When there is no next window, everything older is held.
LEMMA NoneOlder ==
  ASSUME WalkAssumption, StoreShape, Tables(jobs, tasks), NEW i \in DOMAIN tasks, tasks[i].c # Spot,
         OlderWindows(tasks[i]) = {}, NEW d \in Days,
         WalkFloor(jobs[tasks[i].job].sheet) <= d, d < tasks[i].from
  PROVE  Got(ledger, tasks[i].c, tasks[i].r, d)
<1> DEFINE t == tasks[i]
           s == jobs[t.job].sheet
           lo == WalkFloor(s)
           hi == WindowEnd(s)
           hj == t.from - 1
           grid == Grid(lo, hj, t.to - t.from + 1)
<1>1. \A k \in DOMAIN grid :
        k <= MaxSteps /\ (\A j \in 1 .. k - 1 : AlreadyCovered(t.c, t.r, grid[j]))
          => AlreadyCovered(t.c, t.r, grid[k])
  <2> SUFFICES ASSUME NEW k \in DOMAIN grid, k <= MaxSteps, ~AlreadyCovered(t.c, t.r, grid[k]),
                      \A j \in 1 .. k - 1 : AlreadyCovered(t.c, t.r, grid[j])
               PROVE  FALSE
    OBVIOUS
  <2>1. grid[k] \in OlderWindows(t)
    BY DEF OlderWindows
  <2> QED
    BY <2>1
<1>2. lo \in Days /\ hi \in Days /\ \E n \in Nat : IsPiece(t, lo, hi, n)
  BY RowOnGrid
<1>3. PICK n \in Nat : IsPiece(t, lo, hi, n)
  BY <1>2
<1>4. lo \in Int /\ hi \in Int /\ LastDay \in Nat /\ d \in Int /\ 1 <= lo /\ hi <= LastDay
  BY <1>2 DEF Days, WalkAssumption
<1>5. t.from \in Int /\ t.to \in Int /\ lo <= t.from /\ t.from <= t.to /\ t.to <= hi
  <2> HIDE DEF t, lo, hi
  <2> QED
    BY <1>3, <1>4, PieceFacts
<1>6. lo <= d /\ d < t.from
  OBVIOUS
<1> HIDE DEF t, s, lo, hi
<1>7. hj \in Int /\ lo < t.from /\ d <= hj /\ hj < LastDay
  BY <1>4, <1>5, <1>6
<1>8. t.to - t.from + 1 = ChunkDays
  BY <1>3, <1>4, <1>7, OlderWidth
<1> DEFINE cells == Grid(lo, hj, ChunkDays)
<1>9. grid = cells
  BY <1>8
<1> HIDE DEF grid, hj
<1>10. \A k \in DOMAIN cells : k \in Nat \ {0} /\ k <= MaxSteps
  <2> SUFFICES ASSUME NEW k \in DOMAIN cells
               PROVE  k \in Nat \ {0} /\ k <= MaxSteps
    OBVIOUS
  <2>1. k \in 1 .. hj - lo + 1 /\ hj - (k - 1) * ChunkDays >= lo
    BY DEF Grid
  <2>2. MaxSteps \in Nat /\ ChunkDays \in Nat /\ MaxSteps * ChunkDays >= LastDay
    BY DEF WalkAssumption
  <2>3. k \in Nat \ {0} /\ k - 1 \in Nat
    BY <1>4, <1>7, <2>1
  <2> DEFINE p == (k - 1) * ChunkDays
             q == MaxSteps * ChunkDays
  <2>4. p \in Nat /\ q \in Nat
    BY <2>2, <2>3
  <2>5. hj - p >= lo /\ q >= LastDay
    BY <2>1, <2>2
  <2>6. ASSUME MaxSteps <= k - 1 PROVE q <= p
    <3>1. CASE MaxSteps = k - 1
      BY <2>4, <3>1
    <3>2. CASE MaxSteps < k - 1
      <4>1. q + ChunkDays <= p
        BY <2>2, <2>3, <3>2, Scaled
      <4> HIDE DEF p, q
      <4> QED
        BY <2>2, <2>4, <4>1
    <3> QED
      BY <2>2, <2>3, <2>6, <3>1, <3>2
  <2> HIDE DEF p, q
  <2>7. ~(q <= p)
    BY <1>4, <1>7, <2>4, <2>5
  <2> QED
    BY <2>2, <2>3, <2>6, <2>7
<1>11. PICK j \in DOMAIN cells : Within(d, cells[j])
  BY <1>4, <1>6, <1>7, GridCovers
<1>12. \A k \in 1 .. j : k \in DOMAIN cells
  BY <1>4, <1>7, <1>11, GridDense
<1> HIDE DEF cells
<1>13. \A k \in 1 .. j : AlreadyCovered(t.c, t.r, cells[k])
  <2> DEFINE Bad == {k \in 1 .. j : ~AlreadyCovered(t.c, t.r, cells[k])}
  <2>1. ASSUME Bad # {} PROVE FALSE
    <3>1. PICK k \in Bad : \A m \in Bad : k <= m
      <4>1. Bad \in SUBSET Nat
        OBVIOUS
      <4> HIDE DEF Bad
      <4> QED
        BY <2>1, <4>1, LeastExists
    <3>2. k \in 1 .. j /\ ~AlreadyCovered(t.c, t.r, cells[k]) /\ k \in Nat
      OBVIOUS
    <3>3. \A m \in 1 .. k - 1 : m \in 1 .. j /\ m \notin Bad
      <4> SUFFICES ASSUME NEW m \in 1 .. k - 1
                   PROVE  m \in 1 .. j /\ m \notin Bad
        OBVIOUS
      <4>1. m \in 1 .. j /\ ~(k <= m)
        BY <1>10, <1>11, <3>2
      <4> HIDE DEF Bad
      <4> QED
        BY <3>1, <4>1
    <3>4. \A m \in 1 .. k - 1 : AlreadyCovered(t.c, t.r, cells[m])
      BY <3>3
    <3> HIDE DEF Bad
    <3> QED
      BY <1>1, <1>9, <1>10, <1>12, <3>2, <3>4
  <2> QED
    BY <2>1
<1>14. j \in 1 .. j
  BY <1>10, <1>11
<1>15. cells[j].from \in Int /\ cells[j].to \in Int
  <2>1. IsPiece(cells[j], lo, hj, j - 1) /\ j - 1 \in Nat
    BY <1>4, <1>7, <1>11, GridIsPieces DEF cells
  <2> QED
    BY <1>4, <1>7, <2>1, PieceFacts
<1>16. Got(ledger, t.c, t.r, d)
  BY <1>11, <1>13, <1>14, <1>15, CoveredGot
<1> QED
  BY <1>16 DEF t

\* Time passes: what was held stays held, every row keeps its window and its sheet, and
\* what was lost stays lost.
After(L, js, ts, ct, K, ks, us, cu) ==
  /\ \A c, r, d : Got(L, c, r, d) => Got(K, c, r, d)
  /\ \A i \in DOMAIN ts : /\ i \in DOMAIN us /\ SameWindow(us[i], ts[i])
                          /\ ks[us[i].job].sheet = js[ts[i].job].sheet
  /\ ct \subseteq cu

\* What is known of the days after a window stays known.
LEMMA NewerStays ==
  ASSUME NEW L, NEW K, \A c, r, d : Got(L, c, r, d) => Got(K, c, r, d), NEW x, NEW y, NEW s,
         x.c = y.c, x.r = y.r, x.to = y.to, Newer(L, x, s)
  PROVE  Newer(K, y, s)
BY DEF Newer

\* So does what is known of its own days.
LEMMA OwnStays ==
  ASSUME NEW L, NEW K, \A c, r, d : Got(L, c, r, d) => Got(K, c, r, d), NEW x, NEW y,
         x.c = y.c, x.r = y.r, x.from = y.from, x.to = y.to, Own(L, x)
  PROVE  Own(K, y)
BY DEF Own, Within

\* And what is known of the days before it.
LEMMA OlderStays ==
  ASSUME NEW b, NEW L, NEW js, NEW ts, NEW ct, NEW K, NEW ks, NEW us, NEW cu,
         After(L, js, ts, ct, K, ks, us, cu), NEW x, NEW y, SameWindow(y, x), NEW s,
         Older(b, L, ts, ct, x, s)
  PROVE  Older(b, K, us, cu, y, s)
<1>1. y.job = x.job /\ y.c = x.c /\ y.r = x.r /\ y.from = x.from
  BY DEF SameWindow
<1>2. CASE <<x.job, x.c, x.r>> \in ct
  BY <1>1, <1>2 DEF After, Older
<1>3. CASE \A d \in LifeOf(b, x.c) : WalkFloor(s) <= d /\ d < x.from => Got(L, x.c, x.r, d)
  BY <1>1, <1>3 DEF After, Older
<1>4. CASE \E k \in DOMAIN ts : /\ ts[k].job = x.job /\ ts[k].c = x.c /\ ts[k].r = x.r
                                /\ ts[k].to < x.from
  <2>1. PICK k \in DOMAIN ts : /\ ts[k].job = x.job /\ ts[k].c = x.c /\ ts[k].r = x.r
                               /\ ts[k].to < x.from
    BY <1>4
  <2>2. k \in DOMAIN us /\ SameWindow(us[k], ts[k])
    BY DEF After
  <2>3. /\ us[k].job = y.job /\ us[k].c = y.c /\ us[k].r = y.r
        /\ us[k].to < y.from
    BY <1>1, <2>1, <2>2 DEF SameWindow
  <2> QED
    BY <2>2, <2>3 DEF Older
<1> QED
  BY <1>2, <1>3, <1>4 DEF Older

\* What is known of a row stays known while its state is what it was, or is no end that
\* says anything of what is held.
LEMMA RowStays ==
  ASSUME NEW b, NEW L, NEW js, NEW ts, NEW ct, NEW K, NEW ks, NEW us, NEW cu,
         After(L, js, ts, ct, K, ks, us, cu), NEW i \in DOMAIN ts,
         RowKnown(b, L, js, ts, ct, ts[i]),
         us[i].state = ts[i].state \/ us[i].state \notin {"done", "empty", "skipped"}
  PROVE  RowKnown(b, K, ks, us, cu, us[i])
<1> DEFINE x == ts[i]
           y == us[i]
           s == js[x.job].sheet
<1>1. i \in DOMAIN us /\ SameWindow(y, x) /\ ks[y.job].sheet = s
  BY DEF After
<1>2. \A c, r, d : Got(L, c, r, d) => Got(K, c, r, d)
  BY DEF After
<1>3. y.state = x.state \/ y.state \notin {"done", "empty", "skipped"}
  OBVIOUS
<1>4. x.c # Spot =>
        /\ Newer(L, x, s)
        /\ x.state \in {"done", "empty"} => Own(L, x) /\ Older(b, L, ts, ct, x, s)
        /\ x.state = "skipped" => Unborn(b, x, s)
  BY DEF RowKnown
<1> HIDE DEF x, y, s
<1>5. y.job = x.job /\ y.c = x.c /\ y.r = x.r /\ y.from = x.from /\ y.to = x.to
  BY <1>1 DEF SameWindow
<1> SUFFICES ASSUME y.c # Spot
             PROVE  /\ Newer(K, y, s)
                    /\ y.state \in {"done", "empty"} => Own(K, y) /\ Older(b, K, us, cu, y, s)
                    /\ y.state = "skipped" => Unborn(b, y, s)
  BY <1>1 DEF RowKnown, y
<1>6. Newer(K, y, s)
  BY <1>2, <1>4, <1>5, NewerStays
<1>7. ASSUME y.state \in {"done", "empty"} PROVE Own(K, y) /\ Older(b, K, us, cu, y, s)
  <2>1. Own(L, x) /\ Older(b, L, ts, ct, x, s)
    BY <1>3, <1>4, <1>5, <1>7
  <2>2. Own(K, y)
    BY <1>2, <1>5, <2>1, OwnStays
  <2>3. Older(b, K, us, cu, y, s)
    BY <1>1, <2>1, OlderStays
  <2> QED
    BY <2>2, <2>3
<1>8. ASSUME y.state = "skipped" PROVE Unborn(b, y, s)
  <2>1. Unborn(b, x, s)
    BY <1>3, <1>4, <1>5, <1>8
  <2> QED
    BY <1>5, <2>1 DEF Unborn
<1> QED
  BY <1>6, <1>7, <1>8

\* And what a worker knows of the row it is at.
LEMMA WorkerStays ==
  ASSUME NEW b, NEW L, NEW js, NEW ts, NEW ct, NEW K, NEW ks, NEW us, NEW cu,
         After(L, js, ts, ct, K, ks, us, cu), NEW e, e.step # "idle" => e.task \in DOMAIN ts,
         WorkKnown(b, L, js, ts, ct, e)
  PROVE  WorkKnown(b, K, ks, us, cu, e)
<1> SUFFICES ASSUME e.step \notin {"idle", "leased"}, us[e.task].c # Spot
             PROVE  /\ Own(K, us[e.task])
                    /\ e.step # "stored" =>
                         Older(b, K, us, cu, us[e.task], ks[us[e.task].job].sheet)
  BY DEF WorkKnown
<1> DEFINE x == ts[e.task]
           y == us[e.task]
           s == js[x.job].sheet
<1>1. SameWindow(y, x) /\ ks[y.job].sheet = s
  BY DEF After
<1>2. y.job = x.job /\ y.c = x.c /\ y.r = x.r /\ y.from = x.from /\ y.to = x.to
  BY <1>1 DEF SameWindow
<1>3. Own(L, x) /\ (e.step # "stored" => Older(b, L, ts, ct, x, s))
  BY <1>2 DEF WorkKnown
<1>4. \A c, r, d : Got(L, c, r, d) => Got(K, c, r, d)
  BY DEF After
<1> HIDE DEF x, y, s
<1>5. Own(K, y)
  BY <1>2, <1>3, <1>4, OwnStays
<1>6. ASSUME e.step # "stored" PROVE Older(b, K, us, cu, y, s)
  BY <1>1, <1>3, <1>6, OlderStays
<1> QED
  BY <1>1, <1>5, <1>6 DEF y

\* What is known of the walks stays known, as long as what is new is known as well.
LEMMA HoldAfter ==
  ASSUME NEW b, NEW L, NEW js, NEW ts, NEW ct, NEW dr, NEW wk,
         NEW K, NEW ks, NEW us, NEW cu, NEW ds, NEW wl,
         Hold(b, L, js, ts, ct, dr, wk), AtWork(wk, ts),
         After(L, js, ts, ct, K, ks, us, cu), LedgerWide(K), DraftKnown(K, ds),
         \A i \in DOMAIN us :
           \/ /\ i \in DOMAIN ts
              /\ us[i].state = ts[i].state \/ us[i].state \notin {"done", "empty", "skipped"}
           \/ RowKnown(b, K, ks, us, cu, us[i]),
         \A w \in Workers : \/ wl[w] = wk[w]
                            \/ wl[w].step \in {"idle", "leased"}
                            \/ WorkKnown(b, K, ks, us, cu, wl[w])
  PROVE  Hold(b, K, ks, us, cu, ds, wl)
<1>1. ASSUME NEW i \in DOMAIN us PROVE RowKnown(b, K, ks, us, cu, us[i])
  <2>1. CASE /\ i \in DOMAIN ts
             /\ us[i].state = ts[i].state \/ us[i].state \notin {"done", "empty", "skipped"}
    <3>1. RowKnown(b, L, js, ts, ct, ts[i])
      BY <2>1 DEF Hold
    <3> QED
      BY <2>1, <3>1, RowStays
  <2> QED
    BY <2>1
<1>2. ASSUME NEW w \in Workers PROVE WorkKnown(b, K, ks, us, cu, wl[w])
  <2>1. CASE wl[w] = wk[w]
    <3>1. WorkKnown(b, L, js, ts, ct, wk[w]) /\ (wk[w].step # "idle" => wk[w].task \in DOMAIN ts)
      BY DEF Hold, AtWork
    <3> QED
      BY <2>1, <3>1, WorkerStays
  <2>2. CASE wl[w].step \in {"idle", "leased"}
    BY <2>2 DEF WorkKnown
  <2> QED
    BY <2>1, <2>2
<1> QED
  BY <1>1, <1>2 DEF Hold

\* A chunk without a bar ends the walk: a request that wide spans an open day, and the
\* contract was not born by then.
LEMMA UnbornBelow ==
  ASSUME Hypotheses, WalkInv, NEW i \in DOMAIN tasks, tasks[i].c \in Contracts,
         Response(tasks[i]) = {}
  PROVE  Unborn(birth, tasks[i], jobs[tasks[i].job].sheet)
<1> DEFINE t == tasks[i]
           s == jobs[t.job].sheet
           lo == WalkFloor(s)
           hi == WindowEnd(s)
<1>1. t.c # Spot /\ WalkAssumption
  BY DEF Hypotheses, WalkAssumption
<1>2. Tables(jobs, tasks)
  BY DEF WalkInv
<1>3. lo \in Days /\ hi \in Days /\ \E n \in Nat : IsPiece(t, lo, hi, n)
  BY <1>1, <1>2, RowOnGrid
<1>4. PICK n \in Nat : IsPiece(t, lo, hi, n)
  BY <1>3
<1>5. lo \in Int /\ hi \in Int /\ LastDay \in Nat /\ 1 <= lo /\ hi <= LastDay
  BY <1>1, <1>3 DEF Days, WalkAssumption
<1>6. t.c \in Contracts /\ Response(t) = {}
  OBVIOUS
<1> HIDE DEF t, s, lo, hi
<1>7. t.from \in Int /\ t.to \in Int /\ lo <= t.from /\ t.from <= t.to /\ t.to <= hi
  BY <1>1, <1>4, <1>5, PieceFacts
<1>8. birth[t.c] \in Int
  <2>1. birth \in [Contracts -> Births] /\ Births \subseteq 1 .. LastDay + 1
    BY <1>1 DEF WalkInv, StoreShape, WalkAssumption
  <2>2. birth[t.c] \in 1 .. LastDay + 1
    BY <1>6, <2>1
  <2> QED
    BY <1>5, <2>2
<1>9. \A d \in LifeOf(birth, t.c) : d \in Days /\ d \in Int /\ d \notin t.from .. t.to /\ d >= birth[t.c]
  <2> SUFFICES ASSUME NEW d \in LifeOf(birth, t.c)
               PROVE  d \in Days /\ d \in Int /\ d \notin t.from .. t.to /\ d >= birth[t.c]
    OBVIOUS
  <2>1. d \in Days \ Closed /\ d >= birth[t.c]
    BY <1>1 DEF LifeOf
  <2>2. d \in Life(t.c)
    BY <2>1 DEF Life
  <2>3. d \notin t.from .. t.to
    BY <1>6, <2>2 DEF Response
  <2>4. d \in Int
    BY <2>1 DEF Days
  <2> QED
    BY <2>1, <2>3, <2>4
<1> SUFFICES ASSUME NEW d \in LifeOf(birth, t.c), lo <= d, d <= t.to
             PROVE  FALSE
  <2>1. \A d \in LifeOf(birth, t.c) : lo <= d => t.to < d
    BY <1>7, <1>9
  <2> QED
    BY <2>1 DEF Unborn, t, s, lo
<1>10. d \in Int /\ d < t.from /\ d >= birth[t.c]
  BY <1>7, <1>9
<1>11. t.to - t.from + 1 = ChunkDays
  BY <1>1, <1>4, <1>5, <1>7, <1>10, OlderWidth
<1>12. ChunkDays \in Nat /\ t.from \in Days /\ t.from + ChunkDays - 1 = t.to /\ t.to <= LastDay
  BY <1>1, <1>5, <1>7, <1>11 DEF Days, WalkAssumption
<1>13. ~(t.from .. t.to \subseteq Closed)
  BY <1>1, <1>12 DEF WalkAssumption
<1>14. PICK e \in t.from .. t.to : e \notin Closed
  BY <1>13
<1>15. e \in Days /\ e >= birth[t.c]
  BY <1>5, <1>7, <1>8, <1>10, <1>14 DEF Days
<1>16. e \in LifeOf(birth, t.c)
  BY <1>14, <1>15 DEF LifeOf
<1> QED
  BY <1>9, <1>14, <1>16

\* With every shut day known, a chunk whose first bar lies after its first open day holds
\* the birth: nothing of the life lies before it.
LEMMA LifeInside ==
  ASSUME Hypotheses, WalkInv, Closed = Holidays, NEW i \in DOMAIN tasks, tasks[i].c \in Contracts,
         Response(tasks[i]) # {}, LifeStartedInside(tasks[i]), NEW d \in LifeOf(birth, tasks[i].c),
         d < tasks[i].from
  PROVE  FALSE
<1> DEFINE t == tasks[i]
           open == {e \in t.from .. LastDay + 1 : e \notin Holidays}
<1>1. t.c \in Contracts /\ t.c # Spot /\ WalkAssumption /\ LastDay \in Nat
  BY DEF Hypotheses, WalkAssumption
<1>2. t.from \in Days /\ t.to \in Days
  <2>1. t \in TaskRow(Len(jobs))
    BY Lengths DEF WalkInv
  <2> QED
    BY <2>1 DEF TaskRow
<1>3. t.from \in Int /\ t.to \in Int /\ 1 <= t.from /\ t.from <= LastDay /\ t.to <= LastDay
  BY <1>1, <1>2 DEF Days
<1>4. Min(Response(t)) > Min(open)
  BY DEF LifeStartedInside, NextOpen
<1>5. Response(t) \in SUBSET Nat /\ Response(t) # {} /\ Response(t) \subseteq t.from .. t.to
  BY <1>3 DEF Response, Life, Days
<1>6. open \in SUBSET Nat /\ LastDay + 1 \in open
  BY <1>1, <1>3 DEF WalkAssumption, Days
<1>7. d \in LifeOf(birth, t.c) /\ d < t.from
  OBVIOUS
<1>8. \A e : e \in open => e \in t.from .. LastDay + 1 /\ e \notin Holidays
  OBVIOUS
<1>9. \A e \in t.from .. LastDay + 1 : e \notin Holidays => e \in open
  OBVIOUS
<1> HIDE DEF t, open
<1>10. Min(Response(t)) \in Response(t) /\ \A e \in Response(t) : Min(Response(t)) <= e
  <2>1. \E x \in Response(t) : \A y \in Response(t) : x <= y
    BY <1>5, LeastExists
  <2> QED
    BY <2>1 DEF Min
<1>11. Min(open) \in open /\ \A e \in open : Min(open) <= e
  <2>1. \E x \in open : \A y \in open : x <= y
    BY <1>6, LeastExists
  <2> QED
    BY <2>1 DEF Min
<1> DEFINE m == Min(Response(t))
           n == Min(open)
<1>12. m \in Int /\ n \in Int /\ n < m /\ t.from <= n /\ m <= t.to
  BY <1>3, <1>4, <1>5, <1>6, <1>8, <1>10, <1>11
<1>13. n \in open /\ \A e \in Response(t) : m <= e
  BY <1>10, <1>11
<1> HIDE DEF m, n
<1>14. n \in Days /\ n \notin Closed
  BY <1>1, <1>3, <1>8, <1>12, <1>13 DEF Days
<1>15. d >= birth[t.c] /\ d \in Int /\ birth[t.c] \in Int
  <2>1. birth \in [Contracts -> Births] /\ Births \subseteq 1 .. LastDay + 1
    BY <1>1 DEF WalkInv, StoreShape, WalkAssumption
  <2>2. d >= birth[t.c] /\ d \in Int
    BY <1>1, <1>7 DEF LifeOf, Days
  <2>3. birth[t.c] \in 1 .. LastDay + 1
    BY <1>1, <2>1
  <2> QED
    BY <1>1, <2>2, <2>3
<1>16. n >= birth[t.c]
  BY <1>3, <1>7, <1>12, <1>15
<1>17. n \in Response(t)
  BY <1>3, <1>12, <1>14, <1>16 DEF Response, Life
<1> QED
  BY <1>12, <1>13, <1>17

\* Nothing happened to what was there.
LEMMA AfterSame ==
  ASSUME NEW L, NEW js, NEW ts, NEW ct
  PROVE  After(L, js, ts, ct, L, js, ts, ct)
BY DEF After, SameWindow

\* Only what became of the rows changed.
LEMMA AfterStates ==
  ASSUME NEW L, NEW js, NEW ts, NEW ct, NEW us, DOMAIN us = DOMAIN ts,
         \A i \in DOMAIN ts : SameWindow(us[i], ts[i])
  PROVE  After(L, js, ts, ct, L, js, us, ct)
BY DEF After, SameWindow

\* A state written to one row.
LEMMA StateMoved ==
  ASSUME NEW js, NEW ts, Tables(js, ts), NEW i \in DOMAIN ts, NEW s,
         NEW us, us = [ts EXCEPT ![i].state = s]
  PROVE  /\ DOMAIN us = DOMAIN ts
         /\ \A k \in DOMAIN ts : /\ SameWindow(us[k], ts[k])
                                 /\ us[k].state = IF k = i THEN s ELSE ts[k].state
<1>1. DOMAIN us = DOMAIN ts
  OBVIOUS
<1> SUFFICES ASSUME NEW k \in DOMAIN ts
             PROVE  SameWindow(us[k], ts[k]) /\ us[k].state = IF k = i THEN s ELSE ts[k].state
  BY <1>1
<1>2. us[k] = IF k = i THEN [ts[k] EXCEPT !.state = s] ELSE ts[k]
  OBVIOUS
<1>3. ts[k] \in TaskRow(Len(js))
  BY Lengths
<1> HIDE DEF TaskRow
<1> QED
  BY <1>2, <1>3 DEF SameWindow, TaskRow

\* A row whose end says only what is known.
LEMMA RowTold ==
  ASSUME NEW b, NEW L, NEW js, NEW ts, NEW ct, NEW K, NEW ks, NEW us, NEW cu,
         After(L, js, ts, ct, K, ks, us, cu), NEW i \in DOMAIN ts,
         RowKnown(b, L, js, ts, ct, ts[i]),
         ts[i].c # Spot /\ us[i].state \in {"done", "empty"}
           => Own(L, ts[i]) /\ Older(b, L, ts, ct, ts[i], js[ts[i].job].sheet),
         ts[i].c # Spot /\ us[i].state = "skipped" => Unborn(b, ts[i], js[ts[i].job].sheet)
  PROVE  RowKnown(b, K, ks, us, cu, us[i])
<1> DEFINE x == ts[i]
           y == us[i]
           s == js[x.job].sheet
<1>1. i \in DOMAIN us /\ SameWindow(y, x) /\ ks[y.job].sheet = s
  BY DEF After
<1>2. \A c, r, d : Got(L, c, r, d) => Got(K, c, r, d)
  BY DEF After
<1>3. /\ x.c # Spot => Newer(L, x, s)
      /\ x.c # Spot /\ y.state \in {"done", "empty"} => Own(L, x) /\ Older(b, L, ts, ct, x, s)
      /\ x.c # Spot /\ y.state = "skipped" => Unborn(b, x, s)
  BY DEF RowKnown
<1> HIDE DEF x, y, s
<1>4. y.job = x.job /\ y.c = x.c /\ y.r = x.r /\ y.from = x.from /\ y.to = x.to
  BY <1>1 DEF SameWindow
<1> SUFFICES ASSUME y.c # Spot
             PROVE  /\ Newer(K, y, s)
                    /\ y.state \in {"done", "empty"} => Own(K, y) /\ Older(b, K, us, cu, y, s)
                    /\ y.state = "skipped" => Unborn(b, y, s)
  BY <1>1 DEF RowKnown, y
<1>5. Newer(K, y, s)
  BY <1>2, <1>3, <1>4, NewerStays
<1>6. ASSUME y.state \in {"done", "empty"} PROVE Own(K, y) /\ Older(b, K, us, cu, y, s)
  <2>1. Own(L, x) /\ Older(b, L, ts, ct, x, s)
    BY <1>3, <1>4, <1>6
  <2>2. Own(K, y)
    BY <1>2, <1>4, <2>1, OwnStays
  <2>3. Older(b, K, us, cu, y, s)
    BY <1>1, <2>1, OlderStays
  <2> QED
    BY <2>2, <2>3
<1>7. ASSUME y.state = "skipped" PROVE Unborn(b, y, s)
  <2>1. Unborn(b, x, s)
    BY <1>3, <1>4, <1>7
  <2> QED
    BY <1>4, <2>1 DEF Unborn
<1> QED
  BY <1>5, <1>6, <1>7

\* The rows us of the tables ts and of a commit: those that were there, and one for each
\* chunk of S, waiting, as the job n.
Joined(us, ts, n, S) ==
  /\ \A i \in DOMAIN ts : i \in DOMAIN us /\ us[i] = ts[i]
  /\ \A i \in DOMAIN us : i \notin DOMAIN ts => \E x \in S :
       us[i] = [job |-> n, c |-> x.c, r |-> x.r, from |-> x.from, to |-> x.to, state |-> "pending"]

\* Such are the tables after a commit.
LEMMA NewRows ==
  ASSUME NEW X, NEW ts \in Seq(X), NEW S, IsFiniteSet(S), NEW n
  PROVE  Joined(ts \o Rows(n, S), ts, n, S)
<1> DEFINE q == SetToSeq(S)
           m == Rows(n, S)
<1>1. q \in Seq(S)
  BY SetToSeqFacts
<1> HIDE DEF q
<1>2. m = [a \in DOMAIN q |-> [job |-> n, c |-> q[a].c, r |-> q[a].r, from |-> q[a].from,
                               to |-> q[a].to, state |-> "pending"]]
  BY DEF Rows, q
<1>3. Len(q) \in Nat /\ DOMAIN q = 1 .. Len(q) /\ \A a \in DOMAIN q : q[a] \in S
  BY <1>1
<1>4. DOMAIN m = 1 .. Len(q) /\ Len(m) = Len(q)
  BY <1>2, <1>3
<1>5. Len(ts) \in Nat /\ DOMAIN ts = 1 .. Len(ts)
  OBVIOUS
<1> HIDE DEF m
<1>6. /\ DOMAIN (ts \o m) = 1 .. Len(ts) + Len(m)
      /\ \A a \in 1 .. Len(ts) + Len(m) : (ts \o m)[a] = IF a <= Len(ts) THEN ts[a] ELSE m[a - Len(ts)]
  BY <1>3, <1>4, <1>5
<1>7. ASSUME NEW i \in DOMAIN ts PROVE i \in DOMAIN (ts \o m) /\ (ts \o m)[i] = ts[i]
  BY <1>3, <1>4, <1>5, <1>6
<1>8. ASSUME NEW i \in DOMAIN (ts \o m), i \notin DOMAIN ts
      PROVE  \E x \in S : (ts \o m)[i] =
               [job |-> n, c |-> x.c, r |-> x.r, from |-> x.from, to |-> x.to, state |-> "pending"]
  <2>1. i \in 1 .. Len(ts) + Len(m) /\ ~(i <= Len(ts)) /\ i - Len(ts) \in DOMAIN q
    BY <1>3, <1>4, <1>5, <1>6, <1>8
  <2>2. (ts \o m)[i] = m[i - Len(ts)]
    BY <1>6, <2>1
  <2>3. q[i - Len(ts)] \in S
    BY <1>3, <2>1
  <2> QED
    BY <1>2, <2>1, <2>2, <2>3
<1>9. Joined(ts \o m, ts, n, S)
  BY <1>7, <1>8 DEF Joined
<1> QED
  BY <1>9 DEF m

-----------------------------------------------------------------------------
(* Every step keeps it. *)

\* Initially there is nothing to know.
LEMMA InitHolds ==
  ASSUME Hypotheses, Init
  PROVE  HoldInv
<1>1. ledger = {} /\ tasks = <<>> /\ draft = {} /\ \A w \in Workers : work[w].step = "idle"
  BY DEF Init, Idle
<1>2. DOMAIN tasks = {}
  BY <1>1
<1> QED
  BY <1>1, <1>2 DEF HoldInv, Hold, LedgerWide, DraftKnown, WorkKnown

\* A plan asks for the newest chunk that is not held.
LEMMA PlanHolds ==
  ASSUME Hypotheses, WalkInv, HoldInv, NEW s \in Sheets, Plan(s)
  PROVE  HoldInv'
<1>1. /\ UNCHANGED <<birth, ledger, jobs, tasks, cut, work>>
      /\ draft' = {[sheet |-> s, chunks |-> PlanExpiry(s) \cup (IF s.spot THEN PlanSpot(s) ELSE {})]}
  BY DEF Plan, database, queue
<1>2. WalkAssumption /\ StoreShape /\ AtWork(work, tasks) /\ LedgerWide(ledger)
  BY DEF Hypotheses, WalkInv, HoldInv, Hold
<1>3. DraftKnown(ledger, draft')
  <2> SUFFICES ASSUME NEW x \in PlanExpiry(s) \cup (IF s.spot THEN PlanSpot(s) ELSE {}), x.c # Spot
               PROVE  Newer(ledger, x, s)
    BY <1>1 DEF DraftKnown
  <2>1. CASE x \in PlanExpiry(s)
    <3>1. PICK c \in Contracts, r \in s.res : x \in EmitChunks(s, c, r)
      BY <2>1 DEF PlanExpiry
    <3> QED
      BY <1>2, <3>1, EmitNewer
  <2>2. CASE x \in PlanSpot(s)
    <3>1. x.c = Spot
      BY <2>2 DEF PlanSpot
    <3> QED
      BY <3>1
  <2> QED
    BY <2>1, <2>2
<1>4. After(ledger, jobs, tasks, cut, ledger, jobs, tasks, cut)
  BY AfterSame
<1>5. Hold(birth, ledger, jobs, tasks, cut, draft', work)
  BY <1>2, <1>3, <1>4, HoldAfter DEF HoldInv
<1> QED
  BY <1>1, <1>5 DEF HoldInv

\* The rows of a commit are those that were priced: what was held then is held now.
LEMMA CommitHolds ==
  ASSUME Hypotheses, WalkInv, HoldInv, Commit
  PROVE  HoldInv'
<1>1. UNCHANGED <<birth, ledger, work, cut>> /\ draft' = {}
  BY DEF Commit, database
<1>2. PICK plan \in draft : IF plan.chunks = {} THEN UNCHANGED <<jobs, tasks>>
         ELSE /\ jobs' = Append(jobs, [sheet |-> plan.sheet, total |-> Cardinality(plan.chunks),
                                       retried |-> FALSE])
              /\ tasks' = tasks \o Rows(Len(jobs) + 1, plan.chunks)
  BY DEF Commit, queue
<1>3. Tables(jobs, tasks) /\ AtWork(work, tasks) /\ Priced(plan) /\ LedgerWide(ledger)
  BY <1>2 DEF WalkInv, DraftShape, HoldInv, Hold
<1>4. DraftKnown(ledger, {})
  BY DEF DraftKnown
<1>5. CASE plan.chunks = {}
  <2>1. UNCHANGED <<jobs, tasks>>
    BY <1>2, <1>5
  <2>2. After(ledger, jobs, tasks, cut, ledger, jobs, tasks, cut)
    BY AfterSame
  <2>3. Hold(birth, ledger, jobs, tasks, cut, {}, work)
    BY <1>3, <1>4, <2>2, HoldAfter DEF HoldInv
  <2> QED
    BY <1>1, <2>1, <2>3 DEF HoldInv
<1>6. CASE plan.chunks # {}
  <2> DEFINE S == plan.chunks
             s == plan.sheet
             ks == Append(jobs, [sheet |-> s, total |-> Cardinality(S), retried |-> FALSE])
             us == tasks \o Rows(Len(jobs) + 1, S)
  <2>1. jobs' = ks /\ tasks' = us
    BY <1>2, <1>6
  <2>2. s \in Sheets /\ S \subseteq Chunk /\ IsFiniteSet(S) /\ \A x \in S : OnGrid(x, s)
    <3>1. s \in Sheets /\ S \subseteq Chunk /\ \A x \in S : OnGrid(x, s)
      BY <1>3 DEF Priced
    <3> QED
      BY <3>1, ChunkFinite, FS_Subset
  <2>3. \A x \in S : x.c # Spot => Newer(ledger, x, s)
    BY <1>2 DEF HoldInv, Hold, DraftKnown
  <2> HIDE DEF S, s
  <2>4. /\ Len(jobs) \in Nat /\ DOMAIN jobs = 1 .. Len(jobs) /\ DOMAIN tasks = 1 .. Len(tasks)
        /\ Len(tasks) \in Nat
        /\ jobs \in Seq(JobRow) /\ tasks \in Seq(TaskRow(Len(jobs)))
        /\ \A i \in DOMAIN tasks : tasks[i].job \in DOMAIN jobs
    BY <1>3, Lengths DEF Tables
  <2>5. /\ \A j \in DOMAIN jobs : ks[j] = jobs[j]
        /\ ks[Len(jobs) + 1].sheet = s
    BY <2>4
  <2>6. Tables(ks, us) /\ Len(tasks) <= Len(us) /\ \A i \in DOMAIN tasks : us[i] = tasks[i]
    <3>1. \A j \in DOMAIN jobs : jobs[j].sheet = jobs[j].sheet /\ jobs[j].total = jobs[j].total
      OBVIOUS
    <3> QED
      BY <1>3, <2>2, <2>4, <3>1, MoreRows
  <2>7. Joined(us, tasks, Len(jobs) + 1, S)
    BY <2>2, <2>4, NewRows
  <2> HIDE DEF ks, us
  <2>8. DOMAIN us = 1 .. Len(us) /\ Len(us) \in Nat
    BY <2>6, Lengths
  <2>9. After(ledger, jobs, tasks, cut, ledger, ks, us, cut)
    <3>1. ASSUME NEW i \in DOMAIN tasks
          PROVE  i \in DOMAIN us /\ SameWindow(us[i], tasks[i])
                 /\ ks[us[i].job].sheet = jobs[tasks[i].job].sheet
      <4>1. i \in DOMAIN us /\ us[i] = tasks[i] /\ tasks[i].job \in DOMAIN jobs
        BY <2>4, <2>6, <2>8
      <4> QED
        BY <2>5, <4>1 DEF SameWindow
    <3> QED
      BY <3>1 DEF After
  <2>10. ASSUME NEW i \in DOMAIN us, i \notin DOMAIN tasks
         PROVE  RowKnown(birth, ledger, ks, us, cut, us[i])
    <3>1. PICK x \in S : us[i] = [job |-> Len(jobs) + 1, c |-> x.c, r |-> x.r, from |-> x.from,
                                  to |-> x.to, state |-> "pending"]
      BY <2>7, <2>10 DEF Joined
    <3> DEFINE y == us[i]
    <3>2. /\ y.job = Len(jobs) + 1 /\ y.c = x.c /\ y.r = x.r /\ y.to = x.to
          /\ y.state = "pending"
      BY <3>1
    <3> HIDE DEF y
    <3>3. ASSUME y.c # Spot PROVE Newer(ledger, y, s)
      <4>1. Newer(ledger, x, s)
        BY <2>3, <3>2, <3>3
      <4> QED
        BY <3>2, <4>1, NewerStays
    <3>4. RowKnown(birth, ledger, ks, us, cut, y)
      BY <2>5, <3>2, <3>3 DEF RowKnown
    <3> QED
      BY <3>4 DEF y
  <2>11. \A i \in DOMAIN us :
           \/ /\ i \in DOMAIN tasks
              /\ us[i].state = tasks[i].state \/ us[i].state \notin {"done", "empty", "skipped"}
           \/ RowKnown(birth, ledger, ks, us, cut, us[i])
    BY <2>6, <2>10
  <2>12. Hold(birth, ledger, ks, us, cut, {}, work)
    BY <1>3, <1>4, <2>9, <2>11, HoldAfter DEF HoldInv
  <2> QED
    BY <1>1, <2>1, <2>12 DEF HoldInv
<1> QED
  BY <1>5, <1>6

\* The rows of a retry are copies, on the same sheet, of rows of which the same is known.
LEMMA RetryHolds ==
  ASSUME Hypotheses, WalkInv, HoldInv, NEW j \in DOMAIN jobs, RetryFailed(j)
  PROVE  HoldInv'
<1> DEFINE failed == {i \in TasksOf(j) : tasks[i].state = "failed"}
           S == {[c |-> tasks[i].c, r |-> tasks[i].r, from |-> tasks[i].from,
                  to |-> tasks[i].to] : i \in failed}
           s == jobs[j].sheet
           ls == [jobs EXCEPT ![j].retried = TRUE]
           ks == Append(ls, [sheet |-> s, total |-> Cardinality(failed), retried |-> FALSE])
           us == tasks \o Rows(Len(jobs) + 1, S)
<1>1. UNCHANGED <<birth, ledger, draft, work, cut>>
  BY DEF RetryFailed, database
<1>2. jobs' = ks /\ tasks' = us
  BY DEF RetryFailed
<1>3. Tables(jobs, tasks) /\ AtWork(work, tasks) /\ LedgerWide(ledger) /\ DraftKnown(ledger, draft)
  BY DEF WalkInv, HoldInv, Hold
<1>4. /\ Len(jobs) \in Nat /\ DOMAIN jobs = 1 .. Len(jobs) /\ DOMAIN tasks = 1 .. Len(tasks)
      /\ Len(tasks) \in Nat
      /\ jobs \in Seq(JobRow) /\ tasks \in Seq(TaskRow(Len(jobs)))
      /\ \A i \in DOMAIN tasks : tasks[i].job \in DOMAIN jobs
      /\ \A i \in DOMAIN jobs : jobs[i] \in JobRow
  BY <1>3, Lengths DEF Tables
<1>5. \A x \in S : x.c # Spot => Newer(ledger, x, s)
  <2> SUFFICES ASSUME NEW i \in failed, tasks[i].c # Spot,
                      NEW x, x = [c |-> tasks[i].c, r |-> tasks[i].r, from |-> tasks[i].from,
                                  to |-> tasks[i].to]
               PROVE  Newer(ledger, x, s)
    OBVIOUS
  <2>1. i \in DOMAIN tasks /\ tasks[i].job = j
    BY DEF TasksOf
  <2>2. RowKnown(birth, ledger, jobs, tasks, cut, tasks[i])
    BY <2>1 DEF HoldInv, Hold
  <2>3. Newer(ledger, tasks[i], s)
    BY <2>1, <2>2 DEF RowKnown
  <2>4. tasks[i].c = x.c /\ tasks[i].r = x.r /\ tasks[i].to = x.to
    OBVIOUS
  <2> HIDE DEF s
  <2> QED
    BY <2>3, <2>4, NewerStays
<1>6. IsFiniteSet(S)
  <2>1. IsFiniteSet(DOMAIN tasks)
    BY <1>4, FS_Interval
  <2>2. IsFiniteSet(failed)
    <3>1. failed \subseteq DOMAIN tasks
      BY DEF TasksOf
    <3> QED
      BY <2>1, <3>1, FS_Subset
  <2> DEFINE f == [i \in failed |-> [c |-> tasks[i].c, r |-> tasks[i].r, from |-> tasks[i].from,
                                     to |-> tasks[i].to]]
  <2>3. f \in [failed -> S] /\ \A x \in S : \E i \in failed : f[i] = x
    OBVIOUS
  <2> HIDE DEF failed, S, f
  <2>4. f \in Surjection(failed, S)
    BY <2>3 DEF Surjection
  <2> QED
    BY <2>2, <2>4, FS_Surjection
<1>7. /\ Len(ls) = Len(jobs)
      /\ \A i \in DOMAIN jobs : ls[i].sheet = jobs[i].sheet
  <2>1. jobs \in Seq(JobRow) /\ jobs[j] \in JobRow
    BY <1>4
  <2> DEFINE one == [jobs[j] EXCEPT !.retried = TRUE]
  <2>2. one \in JobRow /\ one.sheet = jobs[j].sheet
    BY <2>1 DEF JobRow
  <2>3. ls = [jobs EXCEPT ![j] = one]
    OBVIOUS
  <2> HIDE DEF one, ls
  <2>4. Len(ls) = Len(jobs)
    <3> HIDE DEF JobRow
    <3> QED
      BY <2>1, <2>2, <2>3, <1>4
  <2>5. \A i \in DOMAIN jobs : ls[i] = IF i = j THEN one ELSE jobs[i]
    BY <2>3
  <2> QED
    BY <2>2, <2>4, <2>5
<1>8. /\ \A i \in DOMAIN jobs : ks[i].sheet = jobs[i].sheet
      /\ ks[Len(jobs) + 1].sheet = s
  <2> HIDE DEF ls, s, failed
  <2>1. \A i \in DOMAIN jobs : ks[i] = ls[i]
    BY <1>4, <1>7
  <2>2. ks[Len(jobs) + 1] = [sheet |-> s, total |-> Cardinality(failed), retried |-> FALSE]
    BY <1>4, <1>7
  <2> QED
    BY <1>7, <2>1, <2>2
<1> HIDE DEF S, s, ks, ls, failed
<1>9. Joined(us, tasks, Len(jobs) + 1, S)
  BY <1>4, <1>6, NewRows
<1> HIDE DEF us
<1>11. \A i \in DOMAIN tasks : i \in DOMAIN us /\ us[i] = tasks[i]
  BY <1>9 DEF Joined
<1>12. After(ledger, jobs, tasks, cut, ledger, ks, us, cut)
  <2>1. ASSUME NEW i \in DOMAIN tasks
        PROVE  i \in DOMAIN us /\ SameWindow(us[i], tasks[i])
               /\ ks[us[i].job].sheet = jobs[tasks[i].job].sheet
    <3>1. i \in DOMAIN us /\ us[i] = tasks[i] /\ tasks[i].job \in DOMAIN jobs
      BY <1>4, <1>11
    <3> QED
      BY <1>8, <3>1 DEF SameWindow
  <2> QED
    BY <2>1 DEF After
<1>13. ASSUME NEW i \in DOMAIN us, i \notin DOMAIN tasks
       PROVE  RowKnown(birth, ledger, ks, us, cut, us[i])
  <2>1. PICK x \in S : us[i] = [job |-> Len(jobs) + 1, c |-> x.c, r |-> x.r, from |-> x.from,
                                to |-> x.to, state |-> "pending"]
    BY <1>9, <1>13 DEF Joined
  <2> DEFINE y == us[i]
  <2>2. /\ y.job = Len(jobs) + 1 /\ y.c = x.c /\ y.r = x.r /\ y.to = x.to
        /\ y.state = "pending"
    BY <2>1
  <2> HIDE DEF y
  <2>3. ASSUME y.c # Spot PROVE Newer(ledger, y, s)
    <3>1. Newer(ledger, x, s)
      BY <1>5, <2>2, <2>3
    <3> QED
      BY <2>2, <3>1, NewerStays
  <2>4. RowKnown(birth, ledger, ks, us, cut, y)
    BY <1>8, <2>2, <2>3 DEF RowKnown
  <2> QED
    BY <2>4 DEF y
<1>14. \A i \in DOMAIN us :
         \/ /\ i \in DOMAIN tasks
            /\ us[i].state = tasks[i].state \/ us[i].state \notin {"done", "empty", "skipped"}
         \/ RowKnown(birth, ledger, ks, us, cut, us[i])
  BY <1>11, <1>13
<1>15. Hold(birth, ledger, ks, us, cut, draft, work)
  BY <1>3, <1>12, <1>14, HoldAfter DEF HoldInv
<1> QED
  BY <1>1, <1>2, <1>15 DEF HoldInv

\* Leasing a row and a request that fails say nothing of what is held.
LEMMA LeaseHolds ==
  ASSUME Hypotheses, WalkInv, HoldInv, NEW w \in Workers, Lease(w)
  PROVE  HoldInv'
<1>1. UNCHANGED <<birth, ledger, jobs, draft, cut>>
  BY DEF Lease, database
<1>2. PICK i \in DOMAIN tasks : /\ tasks' = [tasks EXCEPT ![i].state = "leased"]
                                /\ work' = [work EXCEPT ![w] = [step |-> "leased", task |-> i]]
  BY DEF Lease
<1>3. Tables(jobs, tasks) /\ AtWork(work, tasks) /\ LedgerWide(ledger) /\ DraftKnown(ledger, draft)
  BY DEF WalkInv, HoldInv, Hold
<1>4. /\ DOMAIN tasks' = DOMAIN tasks
      /\ \A k \in DOMAIN tasks : /\ SameWindow(tasks'[k], tasks[k])
                                 /\ tasks'[k].state = IF k = i THEN "leased" ELSE tasks[k].state
  BY <1>2, <1>3, StateMoved
<1>5. After(ledger, jobs, tasks, cut, ledger, jobs, tasks', cut)
  BY <1>4, AfterStates
<1>6. \A v \in Workers : work'[v] = work[v] \/ work'[v].step \in {"idle", "leased"}
  <2>1. work \in [Workers -> [step : Steps, task : 0 .. Len(tasks)]]
    BY <1>3 DEF AtWork
  <2> QED
    BY <1>2, <2>1
<1>7. Hold(birth, ledger, jobs, tasks', cut, draft, work')
  BY <1>3, <1>4, <1>5, <1>6, HoldAfter DEF HoldInv
<1> QED
  BY <1>1, <1>7 DEF HoldInv

\* The end of a row and of the worker's turn with it.
LEMMA FinishHolds ==
  ASSUME Hypotheses, WalkInv, HoldInv, NEW w \in Workers, work[w].step # "idle",
         NEW s \in {"failed", "done", "empty"}, Finish(w, s),
         s # "failed" => work[w].step = "decided",
         UNCHANGED <<birth, ledger, jobs, draft, cut>>
  PROVE  HoldInv'
<1> DEFINE i == work[w].task
<1>1. tasks' = [tasks EXCEPT ![i].state = s] /\ work' = [work EXCEPT ![w] = Idle]
  BY DEF Finish
<1>2. Tables(jobs, tasks) /\ AtWork(work, tasks) /\ LedgerWide(ledger) /\ DraftKnown(ledger, draft)
  BY DEF WalkInv, HoldInv, Hold
<1>3. i \in DOMAIN tasks
  BY MineFacts
<1>4. /\ WorkKnown(birth, ledger, jobs, tasks, cut, work[w])
      /\ RowKnown(birth, ledger, jobs, tasks, cut, tasks[i])
  BY <1>3 DEF HoldInv, Hold
<1>5. s # "failed" /\ tasks[i].c # Spot =>
        Own(ledger, tasks[i]) /\ Older(birth, ledger, tasks, cut, tasks[i], jobs[tasks[i].job].sheet)
  BY <1>4 DEF WorkKnown
<1> HIDE DEF i
<1>6. /\ DOMAIN tasks' = DOMAIN tasks
      /\ \A k \in DOMAIN tasks : /\ SameWindow(tasks'[k], tasks[k])
                                 /\ tasks'[k].state = IF k = i THEN s ELSE tasks[k].state
  BY <1>1, <1>2, <1>3, StateMoved
<1>7. After(ledger, jobs, tasks, cut, ledger, jobs, tasks', cut)
  BY <1>6, AfterStates
<1>8. \A v \in Workers : work'[v] = work[v] \/ work'[v].step \in {"idle", "leased"}
  <2>1. work \in [Workers -> [step : Steps, task : 0 .. Len(tasks)]]
    BY <1>2 DEF AtWork
  <2> QED
    BY <1>1, <2>1 DEF Idle
<1>9. s # "failed" => RowKnown(birth, ledger, jobs, tasks', cut, tasks'[i])
  <2>1. tasks'[i].state = s
    BY <1>3, <1>6
  <2> QED
    BY <1>3, <1>4, <1>5, <1>7, <2>1, RowTold
<1>10. \A k \in DOMAIN tasks' :
         \/ /\ k \in DOMAIN tasks
            /\ tasks'[k].state = tasks[k].state \/ tasks'[k].state \notin {"done", "empty", "skipped"}
         \/ RowKnown(birth, ledger, jobs, tasks', cut, tasks'[k])
  BY <1>6, <1>9
<1>11. Hold(birth, ledger, jobs, tasks', cut, draft, work')
  BY <1>2, <1>7, <1>8, <1>10, HoldAfter DEF HoldInv
<1> QED
  BY <1>11 DEF HoldInv

\* A kill returns the claims: no row says more than it did.
LEMMA CrashHolds ==
  ASSUME Hypotheses, WalkInv, HoldInv, Crash
  PROVE  HoldInv'
<1> DEFINE us == [i \in DOMAIN tasks |->
         IF tasks[i].state = "leased" THEN [tasks[i] EXCEPT !.state = "pending"] ELSE tasks[i]]
           wl == [w \in Workers |-> Idle]
<1>1. UNCHANGED <<birth, ledger, jobs, cut>> /\ draft' = {} /\ work' = wl /\ tasks' = us
  BY DEF Crash, database
<1>2. Tables(jobs, tasks) /\ AtWork(work, tasks) /\ LedgerWide(ledger) /\ DraftKnown(ledger, {})
  BY DEF WalkInv, HoldInv, Hold, DraftKnown
<1>3. \A k \in DOMAIN tasks : /\ SameWindow(us[k], tasks[k])
                              /\ us[k].state = tasks[k].state \/ us[k].state = "pending"
  <2> SUFFICES ASSUME NEW k \in DOMAIN tasks
               PROVE  /\ SameWindow(us[k], tasks[k])
                      /\ us[k].state = tasks[k].state \/ us[k].state = "pending"
    OBVIOUS
  <2>1. tasks[k] \in TaskRow(Len(jobs))
    BY <1>2, Lengths
  <2>2. us[k] = tasks[k] \/ us[k] = [tasks[k] EXCEPT !.state = "pending"]
    OBVIOUS
  <2> HIDE DEF us
  <2> QED
    BY <2>1, <2>2 DEF SameWindow, TaskRow
<1>4. DOMAIN us = DOMAIN tasks /\ \A w \in Workers : wl[w].step \in {"idle", "leased"}
  BY DEF Idle
<1> HIDE DEF us, wl
<1>5. After(ledger, jobs, tasks, cut, ledger, jobs, us, cut)
  BY <1>3, <1>4, AfterStates
<1>6. \A k \in DOMAIN us :
        \/ /\ k \in DOMAIN tasks
           /\ us[k].state = tasks[k].state \/ us[k].state \notin {"done", "empty", "skipped"}
        \/ RowKnown(birth, ledger, jobs, us, cut, us[k])
  BY <1>3, <1>4
<1>7. Hold(birth, ledger, jobs, us, cut, {}, wl)
  BY <1>2, <1>4, <1>5, <1>6, HoldAfter DEF HoldInv
<1> QED
  BY <1>1, <1>7 DEF HoldInv

\* A worker's step onwards that it may take with what it knows.
LEMMA GoHolds ==
  ASSUME HoldInv, WalkInv, NEW w \in Workers, work[w].step # "idle", NEW s, GoTo(w, s),
         NEW K, NEW ks, NEW us, NEW cu, After(ledger, jobs, tasks, cut, K, ks, us, cu),
         LedgerWide(K), DraftKnown(K, draft),
         \A i \in DOMAIN us :
           \/ /\ i \in DOMAIN tasks
              /\ us[i].state = tasks[i].state \/ us[i].state \notin {"done", "empty", "skipped"}
           \/ RowKnown(birth, K, ks, us, cu, us[i]),
         us[work[w].task].c # Spot =>
           /\ Own(K, us[work[w].task])
           /\ s # "stored" =>
                Older(birth, K, us, cu, us[work[w].task], ks[us[work[w].task].job].sheet)
  PROVE  Hold(birth, K, ks, us, cu, draft, work')
<1>1. AtWork(work, tasks)
  BY DEF WalkInv
<1>2. work \in [Workers -> [step : Steps, task : 0 .. Len(tasks)]] /\ work' = [work EXCEPT ![w].step = s]
  BY <1>1 DEF AtWork, GoTo
<1>3. work'[w].step = s /\ work'[w].task = work[w].task /\ \A v \in Workers : v # w => work'[v] = work[v]
  BY <1>2
<1>4. WorkKnown(birth, K, ks, us, cu, work'[w])
  BY <1>3 DEF WorkKnown
<1>5. \A v \in Workers : \/ work'[v] = work[v]
                         \/ work'[v].step \in {"idle", "leased"}
                         \/ WorkKnown(birth, K, ks, us, cu, work'[v])
  BY <1>3, <1>4
<1> QED
  BY <1>1, <1>5, HoldAfter DEF HoldInv

\* A stored chunk is held, and nothing that was held is lost.
LEMMA HandleHolds ==
  ASSUME Hypotheses, WalkInv, HoldInv, NEW w \in Workers, HandleCandleChunk(w) \/ HandleSpotChunk(w)
  PROVE  HoldInv'
<1> DEFINE t == Mine(w)
           i == work[w].task
           row == [c |-> t.c, r |-> t.r, from |-> t.from, to |-> t.to,
                   status |-> IF Response(t) = {} THEN "empty" ELSE "ok"]
<1>1. /\ work[w].step = "leased" /\ IngestCandles(w)
      /\ (t.c # Spot /\ GoTo(w, "stored")) \/ (t.c = Spot /\ GoTo(w, "decided"))
  BY DEF HandleCandleChunk, HandleSpotChunk
<1>2. /\ UNCHANGED <<birth, jobs, tasks, draft, cut>>
      /\ ledger' = {x \in ledger : <<x.c, x.r, x.from, x.to>> # <<t.c, t.r, t.from, t.to>>} \cup {row}
  BY <1>1 DEF IngestCandles, queue
<1>3. Tables(jobs, tasks) /\ AtWork(work, tasks) /\ LedgerWide(ledger) /\ DraftKnown(ledger, draft)
  BY DEF WalkInv, HoldInv, Hold
<1>4. i \in DOMAIN tasks /\ t = tasks[i]
  BY <1>1, MineFacts DEF Mine
<1>5. row.c = t.c /\ row.r = t.r /\ row.from = t.from /\ row.to = t.to
  OBVIOUS
<1>6. t.from <= t.to
  BY <1>4, RowWide
<1> HIDE DEF t, i, row
<1>7. LedgerWide(ledger')
  BY <1>2, <1>3, <1>5, <1>6 DEF LedgerWide
<1>8. \A c, r, d : Got(ledger, c, r, d) => Got(ledger', c, r, d)
  <2> SUFFICES ASSUME NEW c, NEW r, NEW d, Got(ledger, c, r, d)
               PROVE  Got(ledger', c, r, d)
    OBVIOUS
  <2>1. PICK x \in ledger : x.c = c /\ x.r = r /\ Within(d, x)
    BY DEF Got
  <2>2. CASE <<x.c, x.r, x.from, x.to>> # <<t.c, t.r, t.from, t.to>>
    <3>1. x \in ledger'
      BY <1>2, <2>2
    <3> QED
      BY <2>1, <3>1 DEF Got
  <2>3. CASE <<x.c, x.r, x.from, x.to>> = <<t.c, t.r, t.from, t.to>>
    <3>1. row \in ledger'
      BY <1>2
    <3>2. row.c = c /\ row.r = r /\ Within(d, row)
      BY <1>5, <2>1, <2>3 DEF Within
    <3> QED
      BY <3>1, <3>2 DEF Got
  <2> QED
    BY <2>2, <2>3
<1>9. DraftKnown(ledger', draft)
  <2> SUFFICES ASSUME NEW p \in draft, NEW x \in p.chunks, x.c # Spot
               PROVE  Newer(ledger', x, p.sheet)
    BY DEF DraftKnown
  <2>1. Newer(ledger, x, p.sheet)
    BY <1>3 DEF DraftKnown
  <2> QED
    BY <1>8, <2>1, NewerStays
<1>10. Own(ledger', tasks[i])
  <2>1. row \in ledger'
    BY <1>2
  <2> QED
    BY <1>4, <1>5, <2>1 DEF Own, Got, Within
<1>11. After(ledger, jobs, tasks, cut, ledger', jobs, tasks, cut)
  BY <1>8 DEF After, SameWindow
<1>12. PICK s \in {"stored", "decided"} : GoTo(w, s) /\ (tasks[i].c # Spot => s = "stored")
  BY <1>1, <1>4
<1>13. Hold(birth, ledger', jobs, tasks, cut, draft, work')
  <2>1. work[w].step # "idle"
    BY <1>1
  <2>2. \A k \in DOMAIN tasks : k \in DOMAIN tasks /\ tasks[k].state = tasks[k].state
    OBVIOUS
  <2>3. tasks[work[w].task].c # Spot => Own(ledger', tasks[work[w].task]) /\ ~(s # "stored")
    BY <1>10, <1>12 DEF i
  <2> QED
    BY <1>7, <1>9, <1>11, <1>12, <2>1, <2>2, <2>3, GoHolds
<1> QED
  BY <1>2, <1>13 DEF HoldInv

\* Checking, sealing and a planning step that fails: the last is remembered as a cut.
LEMMA CheckOrSealHolds ==
  ASSUME Hypotheses, WalkInv, HoldInv, NEW w \in Workers, CheckIdle(w) \/ Seal(w) \/ PlanningFails(w)
  PROVE  HoldInv'
<1> DEFINE i == work[w].task
           x == tasks[i]
           sh == jobs[x.job].sheet
<1>1. /\ work[w].step \in {"stored", "checking", "sealing"}
      /\ UNCHANGED <<birth, ledger, jobs, tasks, draft>>
  BY DEF CheckIdle, Seal, PlanningFails, database, queue
<1>2. Tables(jobs, tasks) /\ AtWork(work, tasks) /\ LedgerWide(ledger) /\ DraftKnown(ledger, draft)
  BY DEF WalkInv, HoldInv, Hold
<1>3. cut \subseteq cut' /\ (work[w].step = "stored" => <<x.job, x.c, x.r>> \in cut')
  BY DEF CheckIdle, Seal, PlanningFails, Mine
<1>4. WorkKnown(birth, ledger, jobs, tasks, cut, work[w])
  BY DEF HoldInv, Hold
<1>5. x.c # Spot => /\ Own(ledger, x)
                    /\ work[w].step # "stored" => Older(birth, ledger, tasks, cut, x, sh)
  BY <1>1, <1>4 DEF WorkKnown
<1>6. After(ledger, jobs, tasks, cut, ledger, jobs, tasks, cut')
  BY <1>3 DEF After, SameWindow
<1>7. PICK s : GoTo(w, s) /\ s # "stored"
  BY DEF CheckIdle, Seal, PlanningFails
<1>8. x.c # Spot => Own(ledger, x) /\ (s # "stored" => Older(birth, ledger, tasks, cut', x, sh))
  <2> HIDE DEF x, sh
  <2>1. CASE work[w].step = "stored"
    BY <1>3, <1>5, <2>1 DEF Older
  <2>2. CASE work[w].step # "stored"
    <3>1. SameWindow(x, x)
      BY DEF SameWindow
    <3> QED
      BY <1>5, <1>6, <2>2, <3>1, OlderStays
  <2> QED
    BY <2>1, <2>2
<1>9. Hold(birth, ledger, jobs, tasks, cut', draft, work')
  <2>1. work[w].step # "idle"
    BY <1>1
  <2>2. \A k \in DOMAIN tasks : k \in DOMAIN tasks /\ tasks[k].state = tasks[k].state
    OBVIOUS
  <2> QED
    BY <1>2, <1>6, <1>7, <1>8, <2>1, <2>2, GoHolds
<1> QED
  BY <1>1, <1>9 DEF HoldInv

\* What a worker that has stored a chunk of a contract knows.
LEMMA StoredFacts ==
  ASSUME Hypotheses, WalkInv, HoldInv, NEW w \in Workers, work[w].step = "stored"
  PROVE  /\ work[w].task \in DOMAIN tasks /\ Mine(w) = tasks[work[w].task]
         /\ tasks[work[w].task].c \in Contracts /\ tasks[work[w].task].c # Spot
         /\ Own(ledger, tasks[work[w].task])
         /\ Newer(ledger, tasks[work[w].task], jobs[tasks[work[w].task].job].sheet)
<1> DEFINE i == work[w].task
<1>1. i \in DOMAIN tasks /\ Mine(w) = tasks[i] /\ tasks[i].c \in Contracts
  BY MineFacts DEF Mine, Waiting
<1>2. tasks[i].c # Spot
  BY <1>1 DEF Hypotheses, WalkAssumption
<1>3. /\ WorkKnown(birth, ledger, jobs, tasks, cut, work[w])
      /\ RowKnown(birth, ledger, jobs, tasks, cut, tasks[i])
  BY <1>1 DEF HoldInv, Hold
<1> QED
  BY <1>1, <1>2, <1>3 DEF WorkKnown, RowKnown

\* A chunk without a bar: the rows it skips ask for days before the birth.
LEMMA SkipHolds ==
  ASSUME Hypotheses, WalkInv, HoldInv, NEW w \in Workers, work[w].step = "stored",
         Response(Mine(w)) = {}, SkipOlderChunks(Mine(w)), GoTo(w, "checking"),
         UNCHANGED <<birth, ledger, draft, cut>>
  PROVE  HoldInv'
<1> DEFINE i == work[w].task
           t == tasks[i]
           s == jobs[t.job].sheet
           us == [k \in DOMAIN tasks |->
                    IF /\ tasks[k].state = "pending" /\ tasks[k].job = t.job
                       /\ tasks[k].c = t.c /\ tasks[k].r = t.r /\ tasks[k].to < t.from
                      THEN [tasks[k] EXCEPT !.state = "skipped"] ELSE tasks[k]]
<1>1. /\ i \in DOMAIN tasks /\ Mine(w) = t /\ t.c \in Contracts /\ t.c # Spot
      /\ Own(ledger, t)
  BY StoredFacts
<1>2. tasks' = us /\ jobs' = jobs
  BY <1>1 DEF SkipOlderChunks
<1>3. Tables(jobs, tasks) /\ AtWork(work, tasks) /\ LedgerWide(ledger) /\ DraftKnown(ledger, draft)
  BY DEF WalkInv, HoldInv, Hold
<1>4. Unborn(birth, t, s)
  BY <1>1, UnbornBelow
<1>5. \A k \in DOMAIN tasks : /\ SameWindow(us[k], tasks[k])
                              /\ \/ us[k].state = tasks[k].state
                                 \/ /\ us[k].state = "skipped" /\ tasks[k].job = t.job
                                    /\ tasks[k].c = t.c /\ tasks[k].to < t.from
  <2> SUFFICES ASSUME NEW k \in DOMAIN tasks
               PROVE  /\ SameWindow(us[k], tasks[k])
                      /\ \/ us[k].state = tasks[k].state
                         \/ /\ us[k].state = "skipped" /\ tasks[k].job = t.job
                            /\ tasks[k].c = t.c /\ tasks[k].to < t.from
    OBVIOUS
  <2>1. tasks[k] \in TaskRow(Len(jobs))
    BY <1>3, Lengths
  <2>2. \/ us[k] = tasks[k]
        \/ /\ us[k] = [tasks[k] EXCEPT !.state = "skipped"]
           /\ tasks[k].job = t.job /\ tasks[k].c = t.c /\ tasks[k].to < t.from
    OBVIOUS
  <2> HIDE DEF us, t
  <2> QED
    BY <2>1, <2>2 DEF SameWindow, TaskRow
<1>6. DOMAIN us = DOMAIN tasks
  OBVIOUS
<1>7. \A k \in DOMAIN tasks : tasks[k].from \in Int /\ tasks[k].to \in Int
  BY <1>3, Lengths DEF TaskRow, Days
<1>7a. t.from <= t.to
  BY <1>1, RowWide
<1>8. \A d \in LifeOf(birth, t.c) : d \in Int
  BY DEF LifeOf, Days
<1> HIDE DEF us
<1>9. After(ledger, jobs, tasks, cut, ledger, jobs, us, cut)
  BY <1>5, <1>6, AfterStates
<1>10. ASSUME NEW k \in DOMAIN us, us[k].state # tasks[k].state
       PROVE  RowKnown(birth, ledger, jobs, us, cut, us[k])
  <2>1. /\ k \in DOMAIN tasks /\ us[k].state = "skipped" /\ tasks[k].job = t.job
        /\ tasks[k].c = t.c /\ tasks[k].to < t.from
    BY <1>5, <1>6, <1>10
  <2>2. RowKnown(birth, ledger, jobs, tasks, cut, tasks[k])
    BY <2>1 DEF HoldInv, Hold
  <2>3. Unborn(birth, tasks[k], jobs[tasks[k].job].sheet)
    <3>1. jobs[tasks[k].job].sheet = s
      BY <2>1
    <3>2. tasks[k].to \in Int /\ t.from \in Int /\ t.to \in Int
      BY <1>1, <1>7, <2>1
    <3> HIDE DEF s, t
    <3> QED
      BY <1>4, <1>7a, <1>8, <2>1, <3>1, <3>2 DEF Unborn
  <2> QED
    BY <1>9, <2>1, <2>2, <2>3, RowTold
<1>11. \A k \in DOMAIN us :
         \/ /\ k \in DOMAIN tasks
            /\ us[k].state = tasks[k].state \/ us[k].state \notin {"done", "empty", "skipped"}
         \/ RowKnown(birth, ledger, jobs, us, cut, us[k])
  BY <1>6, <1>10
<1>12. Older(birth, ledger, tasks, cut, t, s)
  <2>1. t.from \in Int /\ t.to \in Int
    BY <1>1, <1>7
  <2>2. \A d \in LifeOf(birth, t.c) : WalkFloor(s) <= d /\ d < t.from => Got(ledger, t.c, t.r, d)
    <3> HIDE DEF s, t
    <3> QED
      BY <1>4, <1>7a, <1>8, <2>1 DEF Unborn
  <2> QED
    BY <2>2 DEF Older
<1>13. SameWindow(us[i], t) /\ jobs[us[i].job].sheet = s
  BY <1>1, <1>5 DEF SameWindow
<1>14. Own(ledger, us[i]) /\ Older(birth, ledger, us, cut, us[i], s)
  <2> HIDE DEF t, s
  <2>1. Older(birth, ledger, us, cut, us[i], s)
    BY <1>9, <1>12, <1>13, OlderStays
  <2>2. us[i].c = t.c /\ us[i].r = t.r /\ us[i].from = t.from /\ us[i].to = t.to
    BY <1>13 DEF SameWindow
  <2>3. Own(ledger, us[i])
    BY <1>1, <2>2, OwnStays
  <2> QED
    BY <2>1, <2>3
<1>15. Hold(birth, ledger, jobs, us, cut, draft, work')
  <2>1. work[w].step # "idle"
    OBVIOUS
  <2>2. us[work[w].task].c # Spot =>
          /\ Own(ledger, us[work[w].task])
          /\ "checking" # "stored" => Older(birth, ledger, us, cut, us[work[w].task],
                                             jobs[us[work[w].task].job].sheet)
    BY <1>13, <1>14
  <2> QED
    BY <1>3, <1>9, <1>11, <2>1, <2>2, GoHolds
<1> QED
  BY <1>2, <1>15 DEF HoldInv

\* A chunk with the birth in it, or with nothing older to ask for.
LEMMA OverHolds ==
  ASSUME Hypotheses, WalkInv, HoldInv, Closed = Holidays, NEW w \in Workers, work[w].step = "stored",
         Response(Mine(w)) # {}, LifeStartedInside(Mine(w)) \/ OlderWindows(Mine(w)) = {},
         GoTo(w, "checking"), UNCHANGED <<birth, ledger, jobs, tasks, draft, cut>>
  PROVE  HoldInv'
<1> DEFINE i == work[w].task
           t == tasks[i]
           s == jobs[t.job].sheet
<1>1. /\ i \in DOMAIN tasks /\ Mine(w) = t /\ t.c \in Contracts /\ t.c # Spot
      /\ Own(ledger, t)
  BY StoredFacts
<1>2. /\ Tables(jobs, tasks) /\ AtWork(work, tasks) /\ LedgerWide(ledger) /\ DraftKnown(ledger, draft)
      /\ StoreShape /\ WalkAssumption
  BY DEF WalkInv, HoldInv, Hold, Hypotheses
<1>3. \A d \in LifeOf(birth, t.c) : WalkFloor(s) <= d /\ d < t.from => Got(ledger, t.c, t.r, d)
  <2>1. CASE LifeStartedInside(t)
    BY <1>1, <2>1, LifeInside
  <2>2. CASE OlderWindows(t) = {}
    <3>1. \A d \in LifeOf(birth, t.c) : d \in Days
      BY DEF LifeOf
    <3> QED
      BY <1>1, <1>2, <2>2, <3>1, NoneOlder
  <2> QED
    BY <1>1, <2>1, <2>2
<1>4. Older(birth, ledger, tasks, cut, t, s)
  BY <1>3 DEF Older
<1>5. After(ledger, jobs, tasks, cut, ledger, jobs, tasks, cut)
  BY AfterSame
<1>6. Hold(birth, ledger, jobs, tasks, cut, draft, work')
  <2>1. work[w].step # "idle"
    OBVIOUS
  <2>2. \A k \in DOMAIN tasks : k \in DOMAIN tasks /\ tasks[k].state = tasks[k].state
    OBVIOUS
  <2> QED
    BY <1>1, <1>2, <1>4, <1>5, <2>1, <2>2, GoHolds
<1> QED
  BY <1>6 DEF HoldInv

\* A chunk that is followed by an older one.
LEMMA FollowHolds ==
  ASSUME Hypotheses, WalkInv, HoldInv, NEW w \in Workers, work[w].step = "stored",
         NEW x \in OlderWindows(Mine(w)), InsertFollowup(Mine(w), x), GoTo(w, "decided"),
         UNCHANGED <<birth, ledger, draft, cut>>
  PROVE  HoldInv'
<1> DEFINE i == work[w].task
           t == tasks[i]
           s == jobs[t.job].sheet
           row == [job |-> t.job, c |-> t.c, r |-> t.r, from |-> x.from, to |-> x.to,
                   state |-> "pending"]
<1>1. /\ i \in DOMAIN tasks /\ Mine(w) = t /\ t.c \in Contracts /\ t.c # Spot
      /\ Own(ledger, t) /\ Newer(ledger, t, s)
  BY StoredFacts
<1>2. /\ Tables(jobs, tasks) /\ AtWork(work, tasks) /\ LedgerWide(ledger) /\ DraftKnown(ledger, draft)
      /\ StoreShape /\ WalkAssumption
  BY DEF WalkInv, HoldInv, Hold, Hypotheses
<1>3. /\ row.job = t.job /\ row.c = t.c /\ row.r = t.r /\ row.from = x.from /\ row.to = x.to
      /\ row.state = "pending"
  OBVIOUS
<1>4. Newer(ledger, row, s) /\ x.to < t.from
  BY <1>1, <1>2, <1>3, FollowUpNewer
<1>5. /\ Tables(jobs', tasks') /\ Len(jobs') = Len(jobs)
      /\ Len(tasks) <= Len(tasks') /\ \A k \in DOMAIN tasks : tasks'[k] = tasks[k]
  BY <1>1, InsertKeeps
<1>6. /\ DOMAIN jobs = 1 .. Len(jobs) /\ DOMAIN tasks = 1 .. Len(tasks) /\ Len(tasks) \in Nat
      /\ \A k \in DOMAIN tasks : tasks[k].job \in DOMAIN jobs /\ tasks[k] \in TaskRow(Len(jobs))
      /\ DOMAIN tasks' = 1 .. Len(tasks') /\ Len(tasks') \in Nat
      /\ \A j \in DOMAIN jobs : jobs[j] \in JobRow
  BY <1>2, <1>5, Lengths
<1>7. /\ \A j \in DOMAIN jobs : jobs'[j].sheet = jobs[j].sheet
      /\ \A k \in DOMAIN tasks' : k \in DOMAIN tasks \/ tasks'[k] = row
      /\ \E k \in DOMAIN tasks' : /\ tasks'[k].job = t.job /\ tasks'[k].c = t.c /\ tasks'[k].r = t.r
                                  /\ tasks'[k].to = x.to
  <2>1. CASE \E k \in DOMAIN tasks : [tasks[k] EXCEPT !.state = "pending"] = row
    <3>1. tasks' = tasks /\ jobs' = jobs
      BY <1>1, <2>1 DEF InsertFollowup, queue
    <3>2. PICK k \in DOMAIN tasks : [tasks[k] EXCEPT !.state = "pending"] = row
      BY <2>1
    <3>3. tasks[k] \in TaskRow(Len(jobs))
      BY <1>6, <3>2
    <3> HIDE DEF row, t, s
    <3>4. tasks[k].job = row.job /\ tasks[k].c = row.c /\ tasks[k].r = row.r /\ tasks[k].to = row.to
      BY <3>2, <3>3 DEF TaskRow
    <3> QED
      BY <1>3, <3>1, <3>2, <3>4
  <2>2. CASE ~ \E k \in DOMAIN tasks : [tasks[k] EXCEPT !.state = "pending"] = row
    <3>1. tasks' = Append(tasks, row) /\ jobs' = [jobs EXCEPT ![t.job].total = @ + 1]
      BY <1>1, <2>2 DEF InsertFollowup
    <3>2. tasks \in Seq(TaskRow(Len(jobs)))
      BY <1>2 DEF Tables
    <3>3. t.job \in DOMAIN jobs
      BY <1>1, <1>6
    <3> HIDE DEF row, t, s
    <3>4. /\ \A k \in DOMAIN tasks' : k \in DOMAIN tasks \/ tasks'[k] = row
          /\ Len(tasks) + 1 \in DOMAIN tasks' /\ tasks'[Len(tasks) + 1] = row
      BY <1>6, <3>1, <3>2
    <3>5. \A j \in DOMAIN jobs : jobs'[j].sheet = jobs[j].sheet
      <4> SUFFICES ASSUME NEW j \in DOMAIN jobs
                   PROVE  jobs'[j].sheet = jobs[j].sheet
        OBVIOUS
      <4>1. jobs'[j] = IF j = t.job THEN [jobs[j] EXCEPT !.total = @ + 1] ELSE jobs[j]
        BY <3>1
      <4>2. jobs[j] \in JobRow
        BY <1>6
      <4> QED
        BY <4>1, <4>2 DEF JobRow
    <3> QED
      BY <1>3, <3>4, <3>5
  <2> QED
    BY <2>1, <2>2
<1> HIDE DEF row
<1>8. After(ledger, jobs, tasks, cut, ledger, jobs', tasks', cut)
  <2>1. ASSUME NEW k \in DOMAIN tasks
        PROVE  k \in DOMAIN tasks' /\ SameWindow(tasks'[k], tasks[k])
               /\ jobs'[tasks'[k].job].sheet = jobs[tasks[k].job].sheet
    <3>1. k \in DOMAIN tasks' /\ tasks'[k] = tasks[k] /\ tasks[k].job \in DOMAIN jobs
      <4>1. k \in 1 .. Len(tasks) /\ tasks'[k] = tasks[k] /\ tasks[k].job \in DOMAIN jobs
        BY <1>5, <1>6
      <4>2. Len(tasks) \in Nat /\ Len(tasks') \in Nat /\ Len(tasks) <= Len(tasks')
        BY <1>5, <1>6
      <4>3. k \in 1 .. Len(tasks')
        <5> DEFINE p == Len(tasks)
                   q == Len(tasks')
        <5>1. k \in 1 .. p /\ p \in Nat /\ q \in Nat /\ p <= q
          BY <4>1, <4>2
        <5> HIDE DEF p, q
        <5>2. k \in 1 .. q
          BY <5>1
        <5> QED
          BY <5>2 DEF q
      <4> QED
        BY <1>6, <4>1, <4>3
    <3> QED
      BY <1>7, <3>1 DEF SameWindow
  <2> QED
    BY <2>1 DEF After
<1>9. t.job \in DOMAIN jobs /\ jobs'[t.job].sheet = s
  BY <1>1, <1>6, <1>7
<1>10. RowKnown(birth, ledger, jobs', tasks', cut, row)
  BY <1>3, <1>4, <1>9 DEF RowKnown
<1>11. \A k \in DOMAIN tasks' :
         \/ /\ k \in DOMAIN tasks
            /\ tasks'[k].state = tasks[k].state \/ tasks'[k].state \notin {"done", "empty", "skipped"}
         \/ RowKnown(birth, ledger, jobs', tasks', cut, tasks'[k])
  BY <1>5, <1>7, <1>10
<1>12. tasks'[i] = t
  <2>1. \A k \in DOMAIN tasks : tasks'[k] = tasks[k]
    BY <1>5, Zenon
  <2> QED
    BY <1>1, <2>1
<1>13. Older(birth, ledger, tasks', cut, t, s)
  BY <1>4, <1>7 DEF Older
<1>14. Hold(birth, ledger, jobs', tasks', cut, draft, work')
  <2>1. work[w].step # "idle"
    OBVIOUS
  <2>2. tasks'[work[w].task].c # Spot =>
          /\ Own(ledger, tasks'[work[w].task])
          /\ "decided" # "stored" => Older(birth, ledger, tasks', cut, tasks'[work[w].task],
                                            jobs'[tasks'[work[w].task].job].sheet)
    BY <1>1, <1>9, <1>12, <1>13
  <2> QED
    BY <1>2, <1>8, <1>11, <2>1, <2>2, GoHolds
<1> QED
  BY <1>14 DEF HoldInv

\* Every step keeps what is known of the walks.
LEMMA StepHolds ==
  ASSUME Hypotheses, Closed = Holidays, WalkInv, HoldInv, [Next]_vars
  PROVE  HoldInv'
<1>1. CASE \E s \in Sheets : Plan(s)
  BY <1>1, PlanHolds
<1>2. CASE Commit
  BY <1>2, CommitHolds
<1>3. CASE \E j \in DOMAIN jobs : RetryFailed(j)
  BY <1>3, RetryHolds
<1>4. CASE Crash
  BY <1>4, CrashHolds
<1>5. ASSUME NEW w \in Workers, Lease(w) \/ Handle(w) \/ RequestFails(w) \/ PlanningFails(w)
      PROVE  HoldInv'
  <2>1. CASE Lease(w)
    BY <2>1, LeaseHolds
  <2>2. CASE RequestFails(w)
    <3>1. /\ work[w].step # "idle" /\ Finish(w, "failed")
          /\ UNCHANGED <<birth, ledger, jobs, draft, cut>>
      BY <2>2 DEF RequestFails, database
    <3> QED
      BY <3>1, FinishHolds
  <2>3. CASE Ack(w)
    <3>1. /\ work[w].step = "decided"
          /\ UNCHANGED <<birth, ledger, jobs, draft, cut>>
      BY <2>3 DEF Ack, database
    <3>2. PICK s \in {"done", "empty"} : Finish(w, s)
      BY <2>3 DEF Ack
    <3> QED
      BY <3>1, <3>2, FinishHolds
  <2>4. CASE HandleCandleChunk(w) \/ HandleSpotChunk(w)
    BY <2>4, HandleHolds
  <2>5. CASE CheckIdle(w) \/ Seal(w) \/ PlanningFails(w)
    BY <2>5, CheckOrSealHolds
  <2>6. CASE DecideBackward(w)
    <3>1. work[w].step = "stored" /\ UNCHANGED <<birth, ledger, draft, cut>>
      BY <2>6 DEF DecideBackward, database
    <3>2. CASE Response(Mine(w)) = {} /\ SkipOlderChunks(Mine(w)) /\ GoTo(w, "checking")
      BY <3>1, <3>2, SkipHolds
    <3>3. CASE /\ Response(Mine(w)) # {} /\ (LifeStartedInside(Mine(w)) \/ OlderWindows(Mine(w)) = {})
               /\ GoTo(w, "checking") /\ UNCHANGED queue
      <4>1. UNCHANGED <<jobs, tasks>>
        BY <3>3 DEF queue
      <4> QED
        BY <3>1, <3>3, <4>1, OverHolds
    <3>4. CASE (\E x \in OlderWindows(Mine(w)) : InsertFollowup(Mine(w), x)) /\ GoTo(w, "decided")
      BY <3>1, <3>4, FollowHolds
    <3> QED
      BY <2>6, <3>2, <3>3, <3>4 DEF DecideBackward
  <2> QED
    BY <1>5, <2>1, <2>2, <2>3, <2>4, <2>5, <2>6 DEF Handle
<1>6. CASE UNCHANGED vars
  <2>1. UNCHANGED <<birth, ledger, jobs, tasks, cut, draft, work>>
    BY <1>6 DEF vars, database, queue
  <2> QED
    BY <2>1 DEF HoldInv
<1> QED
  BY <1>1, <1>2, <1>3, <1>4, <1>5, <1>6 DEF Next

-----------------------------------------------------------------------------
(* What follows from it. *)

\* No row of the ledger spans a window the wrong way round.
LEMMA StepWide ==
  ASSUME Hypotheses, WalkInv, LedgerWide(ledger), [Next]_vars
  PROVE  LedgerWide(ledger)'
<1>1. CASE \E w \in Workers : HandleCandleChunk(w) \/ HandleSpotChunk(w)
  <2>1. PICK w \in Workers : HandleCandleChunk(w) \/ HandleSpotChunk(w)
    BY <1>1
  <2> DEFINE t == Mine(w)
             row == [c |-> t.c, r |-> t.r, from |-> t.from, to |-> t.to,
                     status |-> IF Response(t) = {} THEN "empty" ELSE "ok"]
  <2>2. work[w].step = "leased" /\ IngestCandles(w)
    BY <2>1 DEF HandleCandleChunk, HandleSpotChunk
  <2>3. ledger' = {x \in ledger : <<x.c, x.r, x.from, x.to>> # <<t.c, t.r, t.from, t.to>>} \cup {row}
    BY <2>2 DEF IngestCandles
  <2>4. row.from <= row.to
    <3>1. work[w].task \in DOMAIN tasks
      BY <2>2, MineFacts
    <3> QED
      BY <3>1, RowWide DEF Mine
  <2> HIDE DEF t, row
  <2> QED
    BY <2>3, <2>4 DEF LedgerWide
<1>2. CASE ~ \E w \in Workers : HandleCandleChunk(w) \/ HandleSpotChunk(w)
  <2>1. ledger' = ledger
    BY <1>2 DEF Next, Plan, Commit, RetryFailed, Lease, Handle, DecideBackward, CheckIdle, Seal, Ack,
                RequestFails, PlanningFails, Crash, database, vars
  <2> QED
    BY <2>1 DEF LedgerWide
<1> QED
  BY <1>1, <1>2

\* A day the ledger covers is stored as often as it was traded, which is once at most.
LEMMA GotStored ==
  ASSUME LedgerHonest, StoreShape, NEW c, NEW r, NEW d \in Life(c), Got(ledger, c, r, d)
  PROVE  bars[<<c, r, d>>] = 1
<1>1. PICK x \in ledger : x.c = c /\ x.r = r /\ Within(d, x)
  BY DEF Got
<1>2. d \in Int /\ x.from \in Int /\ x.to \in Int
  BY DEF Life, Days, StoreShape, LedgerRow
<1>3. d \in x.from .. x.to
  BY <1>1, <1>2 DEF Within
<1> QED
  BY <1>1, <1>3 DEF LedgerHonest

\* The gaps are exactly the days no row covers.
LEMMA InvMissing ==
  ASSUME WalkAssumption, WalkInv, LedgerWide(ledger)
  PROVE  MissingIsExact
<1> SUFFICES ASSUME NEW c \in Series, NEW r \in Resolutions, NEW lo \in Days, NEW hi \in Days,
                    NEW gaps, gaps = MissingWindows(Windows(Held(c, r)), [from |-> lo, to |-> hi])
             PROVE  /\ UNION {x.from .. x.to : x \in gaps}
                         = {d \in lo .. hi : \A x \in Held(c, r) : d \notin x.from .. x.to}
                    /\ \A x, y \in gaps : x # y => x.to + 1 < y.from \/ y.to + 1 < x.from
  BY DEF MissingIsExact
<1> DEFINE H == Held(c, r)
           R == Windows(H)
           want == [from |-> lo, to |-> hi]
<1>1. H \subseteq LedgerRow /\ LedgerWide(H)
  BY DEF WalkInv, StoreShape, LedgerWide, Held
<1>2. want.from = lo /\ want.to = hi /\ gaps = MissingWindows(R, want)
  OBVIOUS
<1> HIDE DEF H, want
<1>3. Gaps(gaps, R, want)
  BY <1>1, <1>2, WindowsWide, MissingFacts
<1>4. \A d \in Days : Open(d, R) <=> \A x \in H : ~Within(d, x)
  <2>1. \A x \in H : [from |-> x.from, to |-> x.to] \in R
    BY DEF Windows
  <2>2. \A z \in R : \E x \in H : z = [from |-> x.from, to |-> x.to]
    BY DEF Windows
  <2>3. ASSUME NEW d, NEW x PROVE Within(d, [from |-> x.from, to |-> x.to]) <=> Within(d, x)
    BY DEF Within
  <2> HIDE DEF R
  <2> QED
    BY <2>1, <2>2, <2>3 DEF Open
<1> HIDE DEF R
<1>5. \A g \in gaps : g.from \in Int /\ g.to \in Int /\ g.from .. g.to \subseteq Days
  <2> SUFFICES ASSUME NEW g \in gaps
               PROVE  g.from \in Int /\ g.to \in Int /\ g.from .. g.to \subseteq Days
    OBVIOUS
  <2>1. g.from \in Days /\ g.to \in Days
    BY <1>3 DEF Gaps
  <2>2. LastDay \in Int
    BY DEF WalkAssumption
  <2> QED
    BY <2>1, <2>2 DEF Days
<1>6. lo .. hi \subseteq Days /\ lo \in Int /\ hi \in Int
  <2>1. LastDay \in Int
    BY DEF WalkAssumption
  <2> QED
    BY <2>1 DEF Days
<1>7. \A x \in H : x.from \in Int /\ x.to \in Int
  BY <1>1 DEF LedgerRow, Days
<1>8. \A d \in Days : d \in Int
  BY DEF Days
<1>9. ASSUME NEW d \in Days
      PROVE  (\E g \in gaps : d \in g.from .. g.to)
               <=> (d \in lo .. hi /\ \A x \in H : d \notin x.from .. x.to)
  <2>1. (\E g \in gaps : Within(d, g)) <=> Within(d, want) /\ Open(d, R)
    BY <1>3 DEF Gaps
  <2>2. \A g \in gaps : Within(d, g) <=> d \in g.from .. g.to
    BY <1>5, <1>8 DEF Within
  <2>3. \A x \in H : Within(d, x) <=> d \in x.from .. x.to
    BY <1>7, <1>8 DEF Within
  <2>4. Within(d, want) <=> d \in lo .. hi
    BY <1>2, <1>6, <1>8 DEF Within
  <2> QED
    BY <1>4, <2>1, <2>2, <2>3, <2>4
<1>10. UNION {x.from .. x.to : x \in gaps} = {d \in lo .. hi : \A x \in H : d \notin x.from .. x.to}
  <2>1. ASSUME NEW d, d \in UNION {x.from .. x.to : x \in gaps}
        PROVE  d \in {e \in lo .. hi : \A x \in H : e \notin x.from .. x.to}
    <3>1. PICK g \in gaps : d \in g.from .. g.to
      BY <2>1
    <3>2. d \in Days
      BY <1>5, <3>1
    <3> QED
      BY <1>9, <3>1, <3>2
  <2>2. ASSUME NEW d, d \in {e \in lo .. hi : \A x \in H : e \notin x.from .. x.to}
        PROVE  d \in UNION {x.from .. x.to : x \in gaps}
    <3>1. d \in Days /\ d \in lo .. hi /\ \A x \in H : d \notin x.from .. x.to
      BY <1>6, <2>2
    <3>2. PICK g \in gaps : d \in g.from .. g.to
      BY <1>9, <3>1
    <3> QED
      BY <3>2
  <2> QED
    BY <2>1, <2>2
<1>11. \A x, y \in gaps : x # y => x.to + 1 < y.from \/ y.to + 1 < x.from
  BY <1>3 DEF Gaps
<1> QED
  BY <1>10, <1>11 DEF H

\* A walk whose rows have all ended, none of them failed: the oldest of them knows that the
\* days before it are held, its own are, and the newer ones are.
LEMMA InvSettled ==
  ASSUME Hypotheses, WalkInv, HoldInv
  PROVE  SettledMeansHeld
<1> SUFFICES ASSUME NEW j \in DOMAIN jobs, NEW c \in Contracts, NEW r \in Resolutions,
                    Chain(j, c, r) # {}, <<j, c, r>> \notin cut,
                    \A i \in Chain(j, c, r) : tasks[i].state \in {"done", "empty", "skipped"},
                    NEW d \in WantedOf(j, c)
             PROVE  bars[<<c, r, d>>] = 1
  BY DEF SettledMeansHeld
<1> DEFINE S == Chain(j, c, r)
           s == jobs[j].sheet
           lefts == {tasks[i].from : i \in S}
<1>1. \A i \in S : /\ i \in DOMAIN tasks /\ tasks[i].job = j /\ tasks[i].c = c /\ tasks[i].r = r
                   /\ tasks[i].state \in {"done", "empty", "skipped"}
  BY DEF Chain, TasksOf
<1>2. \A k \in DOMAIN tasks : tasks[k].job = j /\ tasks[k].c = c /\ tasks[k].r = r => k \in S
  BY DEF Chain, TasksOf
<1>3. d \in Life(c) /\ WalkFloor(s) <= d /\ d <= WindowEnd(s) /\ d \in Days /\ d \in Int
  BY DEF WantedOf, Life, Days
<1>4. d \in LifeOf(birth, c)
  BY <1>3 DEF Life, LifeOf
<1>5. S # {} /\ <<j, c, r>> \notin cut /\ c # Spot
  BY DEF Hypotheses, WalkAssumption
<1> HIDE DEF S
<1>6. PICK i \in S : \A k \in S : tasks[i].from <= tasks[k].from
  <2>1. \A k \in DOMAIN tasks : tasks[k].from \in Days
    BY Lengths DEF WalkInv, TaskRow
  <2>2. \A e \in Days : e \in Nat
    BY DEF Days
  <2>3. lefts \in SUBSET Nat /\ lefts # {}
    BY <1>1, <1>5, <2>1, <2>2
  <2>4. \E m \in lefts : \A n \in lefts : m <= n
    <3> HIDE DEF lefts
    <3> QED
      BY <2>3, LeastExists
  <2> QED
    BY <2>4
<1> DEFINE t == tasks[i]
<1>7. /\ i \in DOMAIN tasks /\ t.job = j /\ t.c = c /\ t.r = r
      /\ t.state \in {"done", "empty", "skipped"}
  BY <1>1
<1>8. RowKnown(birth, ledger, jobs, tasks, cut, t)
  BY <1>7 DEF HoldInv, Hold
<1>9. /\ Newer(ledger, t, s)
      /\ t.state \in {"done", "empty"} => Own(ledger, t) /\ Older(birth, ledger, tasks, cut, t, s)
      /\ t.state = "skipped" => Unborn(birth, t, s)
  BY <1>5, <1>7, <1>8 DEF RowKnown
<1>10. t.from \in Int /\ t.to \in Int /\ t.from <= t.to
  BY <1>7, RowWide
<1>11. ~ \E k \in DOMAIN tasks : /\ tasks[k].job = t.job /\ tasks[k].c = t.c /\ tasks[k].r = t.r
                                 /\ tasks[k].to < t.from
  <2> SUFFICES ASSUME NEW k \in DOMAIN tasks,
                      tasks[k].job = t.job, tasks[k].c = t.c, tasks[k].r = t.r, tasks[k].to < t.from
               PROVE  FALSE
    OBVIOUS
  <2>1. k \in S /\ t.from <= tasks[k].from
    BY <1>2, <1>6, <1>7
  <2>2. tasks[k].from \in Int /\ tasks[k].to \in Int /\ tasks[k].from <= tasks[k].to
    BY RowWide
  <2> QED
    BY <1>10, <2>1, <2>2
<1> HIDE DEF t, s
<1>12. CASE t.to < d
  BY <1>3, <1>7, <1>9, <1>12, GotStored DEF Newer, WalkInv
<1>13. CASE ~(t.to < d)
  <2>1. t.state \in {"done", "empty"}
    <3>1. ~Unborn(birth, t, s)
      BY <1>3, <1>4, <1>7, <1>13 DEF Unborn
    <3> QED
      BY <1>7, <1>9, <3>1
  <2>2. CASE Within(d, t)
    <3>1. Got(ledger, c, r, d)
      BY <1>3, <1>7, <1>9, <2>1, <2>2 DEF Own
    <3> QED
      BY <1>3, <3>1, GotStored DEF WalkInv
  <2>3. CASE ~Within(d, t)
    <3>1. d < t.from
      BY <1>3, <1>10, <1>13, <2>3 DEF Within
    <3>2. <<t.job, t.c, t.r>> \notin cut
      BY <1>5, <1>7
    <3>3. \A e \in LifeOf(birth, t.c) : WalkFloor(s) <= e /\ e < t.from => Got(ledger, t.c, t.r, e)
      BY <1>9, <1>11, <2>1, <3>2 DEF Older
    <3>4. Got(ledger, c, r, d)
      BY <1>3, <1>4, <1>7, <3>1, <3>3
    <3> QED
      BY <1>3, <3>4, GotStored DEF WalkInv
  <2> QED
    BY <2>2, <2>3
<1> QED
  BY <1>12, <1>13

\* A window recorded empty lies in the windows of empty rows.
LEMMA EmptyRows ==
  ASSUME WalkAssumption, NEW L, L \subseteq LedgerRow, LedgerWide(L), NEW want, RecordedEmpty(L, want),
         want.from \in Days, want.to \in Days, NEW d \in Days, Within(d, want)
  PROVE  \E y \in L : y.status = "empty" /\ Within(d, y)
<1> DEFINE E == {y \in L : y.status = "empty"}
           R == Windows(E)
           m == MergeRanges(R)
<1>1. E \subseteq LedgerRow /\ LedgerWide(E)
  BY DEF LedgerWide
<1>2. PICK x \in Range(m) : x.from <= want.from /\ x.to >= want.to
  BY DEF RecordedEmpty
<1>3. \A z \in R : \E y \in E : z = [from |-> y.from, to |-> y.to]
  BY DEF Windows
<1>4. \A y \in E : y \in L /\ y.status = "empty"
  OBVIOUS
<1> HIDE DEF E
<1>5. Wide(R)
  BY <1>1, WindowsWide
<1> HIDE DEF R
<1>6. Merged(m, R)
  BY <1>5, MergeFacts
<1> HIDE DEF m
<1>7. m \in Seq(Window)
  BY <1>6 DEF Merged
<1>8. PICK a \in 1 .. Len(m) : x = m[a]
  BY <1>2, <1>7 DEF Range
<1>9. x.from \in Int /\ x.to \in Int
  <2>1. x \in Window
    BY <1>7, <1>8
  <2> QED
    BY <2>1 DEF Window, Days
<1>10. Within(d, x)
  <2>1. d \in Int /\ want.from \in Int /\ want.to \in Int
    BY DEF Days
  <2>2. x.from <= want.from /\ x.to >= want.to
    BY <1>2
  <2>3. want.from <= d /\ d <= want.to
    BY DEF Within
  <2>4. x.from <= d /\ d <= x.to
    <3> DEFINE f == x.from
               g == x.to
               h == want.from
               k == want.to
    <3>1. f \in Int /\ g \in Int /\ h \in Int /\ k \in Int /\ d \in Int
      BY <1>9, <2>1
    <3>2. f <= h /\ h <= d /\ d <= k /\ k <= g
      BY <2>2, <2>3
    <3> HIDE DEF f, g, h, k
    <3>3. f <= d /\ d <= g
      BY <3>1, <3>2
    <3> QED
      BY <3>3 DEF f, g
  <2> QED
    BY <2>4 DEF Within
<1>11. PICK z \in R : Within(d, z)
  BY <1>6, <1>8, <1>10 DEF Merged
<1>12. PICK y \in E : z = [from |-> y.from, to |-> y.to]
  BY <1>3, <1>11
<1>13. Within(d, y)
  BY <1>11, <1>12 DEF Within
<1> QED
  BY <1>4, <1>12, <1>13

\* A day of a life that is not stored is asked for again: the newest chunk not held lies at
\* that day or after it, and nothing from there on can be recorded empty.
LEMMA InvFinds ==
  ASSUME WalkAssumption, WalkInv, LedgerWide(ledger)
  PROVE  PlannerFindsHoles
<1> SUFFICES ASSUME NEW c \in Contracts \ sealed, NEW r \in Resolutions, NEW d \in Life(c),
                    d >= LifeFloor, bars[<<c, r, d>>] = 0,
                    NEW s, s = [from |-> NoDay, to |-> NoDay, res |-> {r}, spot |-> FALSE,
                                force |-> FALSE]
             PROVE  EmitChunks(s, c, r) # {}
  BY DEF PlannerFindsHoles
<1> DEFINE rows == IF s.force THEN {} ELSE Held(c, r)
           grid == Grid(WalkFloor(s), WindowEnd(s), ChunkDays)
           held(i) == MissingWindows(Windows(rows), grid[i]) = {}
           lo == LifeFloor
           hi == LastDay
           cells == Grid(lo, hi, ChunkDays)
<1>1. lo \in Days /\ lo \in Int /\ hi \in Int /\ hi \in Nat
  BY LifeFloorFacts DEF Days, WalkAssumption
<1>2. WindowEnd(s) = hi /\ WalkFloor(s) = lo
  <2>1. s.from = 0 /\ s.to = NoDay
    BY DEF NoDay
  <2>2. Max({lo, s.from}) = lo
    <3>1. lo >= 0
      BY <1>1 DEF Days
    <3> HIDE DEF lo
    <3> QED
      BY <1>1, <2>1, <3>1, MaxOfTwo
  <2> QED
    BY <2>1, <2>2 DEF WindowEnd, WalkFloor
<1>3. grid = cells
  BY <1>2
<1>4. rows = Held(c, r)
  OBVIOUS
<1>5. /\ rows \subseteq LedgerRow /\ LedgerWide(rows)
      /\ \A x \in rows : x \in ledger /\ x.c = c /\ x.r = r
  BY <1>4 DEF WalkInv, StoreShape, LedgerWide, Held
<1>6. d \in Days /\ d \in Int /\ lo <= d /\ d <= hi
  BY <1>1 DEF Life, Days
<1>7. ASSUME NEW i \in DOMAIN grid, ~held(i), \A j \in 1 .. i - 1 : held(j),
             \A j \in 1 .. i : ~RecordedEmpty(rows, grid[j])
      PROVE  EmitChunks(s, c, r) # {}
  <2> DEFINE good == {k \in DOMAIN grid :
                        /\ ~held(k) /\ \A j \in 1 .. k - 1 : held(j)
                        /\ \A j \in 1 .. k : ~RecordedEmpty(rows, grid[j])}
  <2>1. i \in good
    BY <1>7
  <2>2. EmitChunks(s, c, r) = {[c |-> c, r |-> r, from |-> grid[k].from, to |-> grid[k].to] : k \in good}
    BY DEF EmitChunks
  <2> HIDE DEF good, grid, rows
  <2> QED
    BY <2>1, <2>2
<1>8. c \in Contracts /\ c # Spot /\ d \in Life(c) /\ bars[<<c, r, d>>] = 0
  BY DEF WalkAssumption
<1>9. ~ \E x \in rows : Within(d, x)
  <2> SUFFICES ASSUME NEW x \in rows, Within(d, x)
               PROVE  FALSE
    OBVIOUS
  <2>1. Got(ledger, c, r, d)
    BY <1>5 DEF Got
  <2> QED
    BY <1>8, <2>1, GotStored DEF WalkInv
<1> HIDE DEF rows, lo, hi
<1>10. PICK n \in DOMAIN cells : Within(d, cells[n])
  BY <1>1, <1>6, GridCovers
<1>11. n \in Nat \ {0} /\ \A k \in 1 .. n : k \in DOMAIN cells
  BY <1>1, <1>10, GridDense, GridIsPieces
<1>12. \A k \in DOMAIN cells :
         /\ k \in Nat \ {0} /\ IsPiece(cells[k], lo, hi, k - 1)
         /\ cells[k].from \in Days /\ cells[k].to \in Days
         /\ cells[k].from \in Int /\ cells[k].to \in Int
  <2> SUFFICES ASSUME NEW k \in DOMAIN cells
               PROVE  /\ k \in Nat \ {0} /\ IsPiece(cells[k], lo, hi, k - 1)
                      /\ cells[k].from \in Days /\ cells[k].to \in Days
                      /\ cells[k].from \in Int /\ cells[k].to \in Int
    OBVIOUS
  <2>1. k \in Nat \ {0} /\ IsPiece(cells[k], lo, hi, k - 1)
    BY <1>1, GridIsPieces
  <2> HIDE DEF cells
  <2>2. k - 1 \in Nat
    BY <2>1
  <2>3. /\ cells[k].from \in Int /\ cells[k].to \in Int
        /\ lo <= cells[k].from /\ cells[k].from <= cells[k].to /\ cells[k].to <= hi
    BY <1>1, <2>1, <2>2, PieceFacts
  <2> QED
    BY <1>1, <2>1, <2>3 DEF Days, hi
<1>13. ~held(n)
  <2>1. MissingWindows(Windows(rows), cells[n]) # {}
    <3>1. cells[n].from \in Days /\ cells[n].to \in Days
      BY <1>10, <1>12
    <3> HIDE DEF cells
    <3> QED
      BY <1>5, <1>6, <1>9, <1>10, <3>1, NothingMissing
  <2> QED
    BY <1>3, <2>1
<1> HIDE DEF held, grid, cells
<1> DEFINE Bad == {k \in 1 .. n : ~held(k)}
<1>14. Bad \in SUBSET Nat /\ Bad # {}
  BY <1>11, <1>13
<1>15. \A k : k \in Bad => k \in 1 .. n /\ ~held(k)
  OBVIOUS
<1>16. \A k \in 1 .. n : k \notin Bad => held(k)
  OBVIOUS
<1> HIDE DEF Bad
<1>17. PICK i \in Bad : \A k \in Bad : i <= k
  BY <1>14, LeastExists
<1>18. i \in 1 .. n /\ ~held(i) /\ i \in Nat
  BY <1>14, <1>15, <1>17
<1>19. \A j \in 1 .. i - 1 : held(j)
  <2> SUFFICES ASSUME NEW j \in 1 .. i - 1
               PROVE  held(j)
    OBVIOUS
  <2>1. j \in 1 .. n /\ ~(i <= j)
    BY <1>11, <1>18
  <2> QED
    BY <1>16, <1>17, <2>1
<1>20. \A j \in 1 .. i : ~RecordedEmpty(rows, cells[j])
  <2> SUFFICES ASSUME NEW j \in 1 .. i, RecordedEmpty(rows, cells[j])
               PROVE  FALSE
    OBVIOUS
  <2>1. j \in 1 .. n /\ j \in Nat /\ j <= n
    BY <1>11, <1>18
  <2>2. j \in DOMAIN cells
    BY <1>11, <2>1
  <2>3. \A e \in Days : Within(e, cells[j]) => e \notin Life(c)
    <3> SUFFICES ASSUME NEW e \in Days, Within(e, cells[j]), e \in Life(c)
                 PROVE  FALSE
      OBVIOUS
    <3>1. PICK y \in rows : y.status = "empty" /\ Within(e, y)
      BY <1>5, <1>12, <2>2, EmptyRows
    <3>2. y \in ledger /\ y.c = c
      BY <1>5
    <3>3. Life(y.c) \cap (y.from .. y.to) = {}
      BY <3>1, <3>2 DEF WalkInv, LedgerHonest
    <3>4. e \in Int /\ y.from \in Int /\ y.to \in Int
      BY <1>5 DEF Days, LedgerRow
    <3> QED
      BY <3>1, <3>2, <3>3, <3>4 DEF Within
  <2>4. CASE j = n
    BY <1>6, <1>8, <1>10, <2>3, <2>4
  <2>5. CASE j # n
    <3> DEFINE g == cells[j]
    <3>1. /\ IsPiece(g, lo, hi, j - 1) /\ IsPiece(cells[n], lo, hi, n - 1)
          /\ g.from \in Days /\ g.to \in Days /\ g.from \in Int /\ g.to \in Int
          /\ cells[n].to \in Int
      BY <1>10, <1>12, <2>2
    <3>2. j - 1 \in Nat /\ n - 1 \in Nat /\ j - 1 < n - 1
      BY <1>11, <2>1, <2>2, <2>5, <1>12
    <3> HIDE DEF g
    <3>3. cells[n].to < g.from
      BY <1>1, <3>1, <3>2, PiecesApart
    <3>4. d < g.from /\ lo < g.from
      BY <1>1, <1>6, <1>10, <3>1, <3>3 DEF Within
    <3>5. g.to - g.from + 1 = ChunkDays
      BY <1>1, <3>1, <3>2, <3>4, OlderWidth
    <3>6. ChunkDays \in Nat /\ g.from + ChunkDays - 1 = g.to /\ g.to <= LastDay
      <4>1. ChunkDays \in Nat /\ LastDay \in Int
        BY DEF WalkAssumption
      <4> QED
        BY <3>1, <3>5, <4>1 DEF Days
    <3>7. ~(g.from .. g.to \subseteq Closed)
      BY <3>1, <3>6 DEF WalkAssumption
    <3>8. PICK e \in g.from .. g.to : e \notin Closed
      BY <3>7
    <3>9. e \in Days /\ e \in Int /\ Within(e, g) /\ d < e
      <4>1. LastDay \in Int
        BY DEF WalkAssumption
      <4> QED
        BY <1>6, <3>1, <3>4, <3>8, <4>1 DEF Within, Days
    <3>10. birth[c] \in Int /\ d >= birth[c]
      <4>1. birth \in [Contracts -> Births] /\ Births \subseteq 1 .. LastDay + 1 /\ LastDay \in Int
        BY DEF WalkInv, StoreShape, WalkAssumption
      <4>2. birth[c] \in 1 .. LastDay + 1
        BY <1>8, <4>1
      <4> QED
        BY <1>8, <4>1, <4>2 DEF Life
    <3>11. e \in Life(c)
      BY <1>6, <3>8, <3>9, <3>10 DEF Life
    <3> QED
      BY <2>3, <3>9, <3>11 DEF g
  <2> QED
    BY <2>4, <2>5
<1>21. i \in DOMAIN cells
  BY <1>11, <1>18
<1> QED
  BY <1>3, <1>7, <1>18, <1>19, <1>20, <1>21

\* What the planner asks for is right whatever the calendar knows: the gaps are exactly the
\* days no row covers, and a contract that misses a day is asked for again.
\* (pipeline/planner.py, _emit_chunks; db/queries/coverage.py, missing_windows.)
THEOREM PlanningExactAlways ==
  ASSUME IsFiniteSet(Contracts), IsFiniteSet(Resolutions)
  PROVE  Spec => [](PlannerFindsHoles /\ MissingIsExact)
<1>1. Hypotheses
  BY WalkAssumption DEF Hypotheses
<1>2. Init => WalkInv /\ LedgerWide(ledger)
  BY <1>1, InitWalk DEF Init, LedgerWide
<1>3. WalkInv /\ LedgerWide(ledger) /\ [Next]_vars => (WalkInv /\ LedgerWide(ledger))'
  BY <1>1, StepWalk, StepWide
<1>4. WalkInv /\ LedgerWide(ledger) => PlannerFindsHoles /\ MissingIsExact
  BY WalkAssumption, InvFinds, InvMissing
<1> QED
  BY <1>2, <1>3, <1>4, PTL DEF Spec

\* With every shut day known to the calendar, a walk that has settled has left nothing out
\* either.
\* (pipeline/handlers/candle_chunk.py, _decide_backward and _life_started_inside.)
THEOREM PlannerExactAlways ==
  ASSUME IsFiniteSet(Contracts), IsFiniteSet(Resolutions), Closed = Holidays
  PROVE  Spec => []PlannerExact
<1>1. Hypotheses
  BY WalkAssumption DEF Hypotheses
<1>2. Init => WalkInv /\ HoldInv
  BY <1>1, InitWalk, InitHolds
<1>3. WalkInv /\ HoldInv /\ [Next]_vars => (WalkInv /\ HoldInv)'
  BY <1>1, StepWalk, StepHolds
<1>4. WalkInv /\ HoldInv => PlannerExact
  <2> SUFFICES ASSUME WalkInv, HoldInv
               PROVE  PlannerExact
    OBVIOUS
  <2>1. LedgerWide(ledger)
    BY DEF HoldInv, Hold
  <2> QED
    BY <1>1, <2>1, WalkAssumption, InvFinds, InvMissing, InvSettled DEF PlannerExact
<1> QED
  BY <1>2, <1>3, <1>4, PTL DEF Spec

\* No step gives up what is held: a day some coverage row spans stays spanned, and a bar that
\* is stored stays stored.
NothingLost ==
  /\ \A c, r, d : Got(ledger, c, r, d) => Got(ledger, c, r, d)'
  /\ \A k \in Keys : bars[k] > 0 => bars'[k] > 0

\* The transaction of a chunk deletes its window and inserts the answer: every bar it deletes
\* is of a day of the life, and so in the answer again.
LEMMA IngestLosesNothing ==
  ASSUME Hypotheses, WalkInv, NEW w \in Workers, work[w].step = "leased", IngestCandles(w)
  PROVE  NothingLost
<1> DEFINE t == Mine(w)
           got == Response(t)
           row == [c |-> t.c, r |-> t.r, from |-> t.from, to |-> t.to,
                   status |-> IF got = {} THEN "empty" ELSE "ok"]
<1>1. /\ bars' = IF row \in ledger THEN bars ELSE Stored(t, got)
      /\ ledger' = {x \in ledger : <<x.c, x.r, x.from, x.to>> # <<t.c, t.r, t.from, t.to>>} \cup {row}
  BY DEF IngestCandles
<1>2. bars \in [Keys -> Nat] /\ LedgerHonest /\ ledger \subseteq LedgerRow
  BY DEF WalkInv, StoreShape, Keys
<1>3. row.c = t.c /\ row.r = t.r /\ row.from = t.from /\ row.to = t.to
  OBVIOUS
<1>4. t.from \in Int /\ t.to \in Int
  <2>1. work[w].task \in DOMAIN tasks
    BY MineFacts
  <2> QED
    BY <2>1, RowWide DEF Mine
<1>5. got = Life(t.c) \cap (t.from .. t.to)
  BY DEF Response
<1> HIDE DEF t, row, got
<1>6. ASSUME NEW c, NEW r, NEW d, Got(ledger, c, r, d)
      PROVE  Got(ledger', c, r, d)
  <2>1. PICK x \in ledger : x.c = c /\ x.r = r /\ Within(d, x)
    BY <1>6 DEF Got
  <2>2. CASE <<x.c, x.r, x.from, x.to>> # <<t.c, t.r, t.from, t.to>>
    <3>1. x \in ledger'
      BY <1>1, <2>2
    <3> QED
      BY <2>1, <3>1 DEF Got
  <2>3. CASE <<x.c, x.r, x.from, x.to>> = <<t.c, t.r, t.from, t.to>>
    <3>1. row \in ledger'
      BY <1>1
    <3>2. row.c = c /\ row.r = r /\ Within(d, row)
      BY <1>3, <2>1, <2>3 DEF Within
    <3> QED
      BY <3>1, <3>2 DEF Got
  <2> QED
    BY <2>2, <2>3
<1>7. ASSUME NEW k \in Keys, bars[k] > 0
      PROVE  bars'[k] > 0
  <2>1. CASE row \in ledger
    BY <1>1, <1>7, <2>1
  <2>2. CASE row \notin ledger
    <3>1. bars'[k] = IF k[1] = t.c /\ k[2] = t.r /\ k[3] \in WindowBounds(t.from, t.to)
                       THEN IF k[3] \in got THEN 1 ELSE 0
                       ELSE bars[k]
      BY <1>1, <1>2, <2>2 DEF Stored
    <3>2. ASSUME k[1] = t.c, k[3] \in WindowBounds(t.from, t.to)
          PROVE  k[3] \in got
      <4>1. PICK x \in ledger : x.c = k[1] /\ x.r = k[2] /\ k[3] \in x.from .. x.to
        BY <1>2, <1>7 DEF LedgerHonest, Held
      <4>2. k = <<x.c, x.r, k[3]>>
        BY <4>1 DEF Keys
      <4>3. bars[<<x.c, x.r, k[3]>>] = IF k[3] \in Life(x.c) THEN 1 ELSE 0
        BY <1>2, <4>1 DEF LedgerHonest
      <4>4. k[3] \in Life(x.c)
        BY <1>7, <4>2, <4>3
      <4>5. k[3] \in t.from .. t.to
        BY <1>4, <3>2 DEF WindowBounds, Days
      <4> QED
        BY <1>5, <3>2, <4>1, <4>4, <4>5
    <3> QED
      BY <1>7, <3>1, <3>2
  <2> QED
    BY <2>1, <2>2
<1> QED
  BY <1>6, <1>7 DEF NothingLost, Got

\* Whatever is downloaded again, retried or run twice, no step gives up a day that is covered
\* or a bar that is stored.
\* (db/writer.py, CandleChunkWrite.apply: the delete and the insert of one window.)
THEOREM NothingLostAlways ==
  ASSUME IsFiniteSet(Contracts), IsFiniteSet(Resolutions)
  PROVE  Spec => [][NothingLost]_vars
<1>0. Hypotheses
  BY WalkAssumption DEF Hypotheses
<1>1. Init => WalkInv
  BY <1>0, InitWalk
<1>2. WalkInv /\ [Next]_vars => WalkInv'
  BY <1>0, StepWalk
<1>3. WalkInv /\ [Next]_vars => [NothingLost]_vars
  <2> SUFFICES ASSUME WalkInv, Next
               PROVE  NothingLost
    OBVIOUS
  <2>1. CASE \E w \in Workers : HandleCandleChunk(w) \/ HandleSpotChunk(w)
    <3>1. PICK w \in Workers : work[w].step = "leased" /\ IngestCandles(w)
      BY <2>1 DEF HandleCandleChunk, HandleSpotChunk
    <3> QED
      BY <1>0, <3>1, IngestLosesNothing
  <2>2. CASE ~ \E w \in Workers : HandleCandleChunk(w) \/ HandleSpotChunk(w)
    <3>1. ledger' = ledger /\ bars' = bars
      BY <2>2 DEF Next, Plan, Commit, RetryFailed, Lease, Handle, DecideBackward, CheckIdle, Seal, Ack,
                  RequestFails, PlanningFails, Crash, database
    <3> QED
      BY <3>1 DEF NothingLost, Got
  <2> QED
    BY <2>1, <2>2
<1> QED
  BY <1>1, <1>2, <1>3, PTL DEF Spec
=============================================================================
