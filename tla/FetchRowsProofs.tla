--------------------------- MODULE FetchRowsProofs ---------------------------
(***************************************************************************)
(* Theorems about FetchRows for any number of result sets and rows, any    *)
(* sizes of the chunks, and any of the faults.                             *)
(***************************************************************************)
EXTENDS FetchRows, SequenceTheorems, WellFoundedInduction, TLAPS

USE MaxSetsAssumption, MaxRowsAssumption

RowId == (1..MaxSets) \X (1..MaxRows)
Cursor == [cols: BOOLEAN, rowset: 1..MaxSets, closed: BOOLEAN, set: 1..(MaxSets + 1),
           sent: 0..MaxRows, count: 0..MaxRows, pos: 0..MaxSets]

\* The driver has delivered no more rows than there are.
DriverOK(r) ==
  /\ r \in Cursor
  /\ r.set <= Len(sets) + 1
  /\ r.set <= Len(sets) => r.sent <= RowsOf(r.set)
  /\ r.set = Len(sets) + 1 => r.sent = 0

\* The cursor is inside its rowset or just past it, and only the last rowset of a result set is
\* not full.
CursorOK(r) ==
  /\ DriverOK(r)
  /\ r.pos <= r.count /\ r.count <= r.sent /\ r.count <= r.rowset
  /\ r.count # 0 /\ r.count < r.rowset => r.sent = RowsOf(r.set)

\* There is a row that get() can read.
OnRow(r) == r.pos < r.count

PrecedesOrIs(x, y) == Precedes(x, y) \/ x = y

-----------------------------------------------------------------------------
(* Facts about the operators *)

\* The result sets are a sequence.
LEMMA SetsType ==
  ASSUME NEW ss \in ResultSets
  PROVE  /\ ss \in Seq(NoColumns..MaxRows)
         /\ Len(ss) \in 1..MaxSets
         /\ \A j \in 1..Len(ss) : ss[j] \in NoColumns..MaxRows
<1>1. PICK k \in 1..MaxSets : ss \in [1..k -> NoColumns..MaxRows]
  BY DEF ResultSets
<1> QED
  BY <1>1 DEF NoColumns

\* RowsOf is a number of rows.
LEMMA RowsOfType ==
  ASSUME sets \in ResultSets, NEW j \in 1..Len(sets)
  PROVE  RowsOf(j) \in 0..MaxRows
BY SetsType DEF RowsOf, NoColumns

\* A nonempty set of numbers has a least element.
LEMMA LeastNumber ==
  ASSUME NEW S \in SUBSET Nat, S # {}
  PROVE  Min(S) \in S /\ \A y \in S : Min(S) <= y
<1>1. PICK x \in S : \A y \in S : ~(<<y, x>> \in OpToRel(<, Nat))
  BY WFMin, NatLessThanWellFounded
<1> DEFINE R == {p \in Nat \X Nat : p[1] < p[2]}
<1>a. OpToRel(<, Nat) = R
  BY Zenon DEF OpToRel
<1>b. \A y \in S : ~(<<y, x>> \in R)
  BY <1>1, <1>a, Zenon
<1>c. ASSUME NEW y \in S, ~(x <= y) PROVE FALSE
  <2>1. y \in Nat /\ x \in Nat /\ y < x
    BY <1>c
  <2>2. <<y, x>> \in R
    BY <2>1
  <2> QED
    BY <1>b, <2>2
<1>2. \A y \in S : x <= y
  BY <1>c
<1> QED
  BY <1>2 DEF Min

\* The rows are ordered.
LEMMA PrecedesOrder ==
  ASSUME NEW x \in Int \X Int, NEW y \in Int \X Int, NEW z \in Int \X Int
  PROVE  /\ ~Precedes(x, x)
         /\ Precedes(x, y) /\ Precedes(y, z) => Precedes(x, z)
         /\ Precedes(x, y) /\ PrecedesOrIs(y, z) => Precedes(x, z)
BY DEF Precedes, PrecedesOrIs

\* The first parameter row of the last batch, and how many rows it has.
LEMMA LastBatchType ==
  ASSUME NEW n \in Nat \ {0}, NEW b \in Nat \ {0}
  PROVE  /\ LastBatch(n, b) \in 1..n
         /\ LastSize(n, b) \in 1..n
         /\ b >= n => LastBatch(n, b) = 1
<1> DEFINE q == (n - 1) \div b
<1>1. q \in Nat /\ b * q <= n - 1
  OBVIOUS
<1>2. b >= n => q = 0
  <2> SUFFICES ASSUME b >= n, q >= 1 PROVE FALSE
    BY <1>1
  <2>1. b * q >= b
    BY <1>1
  <2> QED
    BY <1>1, <2>1
<1>3. q * b \in Nat /\ q * b <= n - 1 /\ (q = 0 => q * b = 0)
  BY <1>1
<1> QED
  BY <1>2, <1>3 DEF LastBatch, LastSize

-----------------------------------------------------------------------------
(* The cursor *)

\* fetch() leaves a good cursor, on the first row of a rowset if there is one.
LEMMA FetchCursor ==
  ASSUME sets \in ResultSets, NEW r, DriverOK(r)
  PROVE  /\ CursorOK(Fetch(r))
         /\ Fetch(r).set = r.set /\ Fetch(r).closed = r.closed /\ Fetch(r).cols = r.cols
         /\ HasRowset(r) => /\ OnRow(Fetch(r))
                            /\ CurrentRow(Fetch(r)) = <<r.set, r.sent + 1>>
         /\ ~HasRowset(r) => Fetch(r).sent = r.sent /\ Fetch(r).count = 0 /\ Fetch(r).pos = 0
<1>1. r \in Cursor /\ Len(sets) \in 1..MaxSets
  BY SetsType DEF DriverOK
<1>2. CASE HasRowset(r)
  <2> DEFINE left == RowsOf(r.set) - r.sent
             size == Less(r.rowset, left)
  <2>1. r.set \in 1..Len(sets) /\ RowsOf(r.set) \in 0..MaxRows
    BY <1>1, <1>2, RowsOfType DEF HasRowset, Cursor
  <2>2. left \in 1..MaxRows /\ r.sent + left = RowsOf(r.set)
    BY <1>1, <1>2, <2>1 DEF HasRowset, Cursor
  <2>3. size \in 1..left /\ size <= r.rowset /\ (size < r.rowset => size = left)
    BY <1>1, <2>2 DEF Less, Cursor
  <2>4. Fetch(r) = [r EXCEPT !.sent = r.sent + size, !.count = size, !.pos = 0]
    BY <1>1, <1>2 DEF Fetch, Cursor
  <2>5. r.sent + size \in 0..MaxRows /\ size \in 0..MaxRows /\ 0 \in 0..MaxSets
    BY <1>1, <2>1, <2>2, <2>3 DEF Cursor
  <2> HIDE DEF left, size
  <2>6. /\ Fetch(r) \in Cursor
        /\ Fetch(r).set = r.set /\ Fetch(r).closed = r.closed /\ Fetch(r).cols = r.cols
        /\ Fetch(r).rowset = r.rowset /\ Fetch(r).sent = r.sent + size
        /\ Fetch(r).count = size /\ Fetch(r).pos = 0
    BY <1>1, <2>4, <2>5 DEF Cursor
  <2>7. r.set \in Int /\ r.sent \in Int /\ size \in Int /\ r.rowset \in Int /\ left \in Int
    BY <1>1, <2>2, <2>3 DEF Cursor
  <2>8. CursorOK(Fetch(r))
    <3>1. 0 <= size /\ size <= r.sent + size /\ size <= r.rowset
      BY <1>1, <2>3, <2>7 DEF Cursor
    <3>2. r.set <= Len(sets) + 1 /\ r.set # Len(sets) + 1
      BY <1>1, <2>1
    <3>3. r.sent + size <= RowsOf(r.set) /\ (size < r.rowset => r.sent + size = RowsOf(r.set))
      BY <2>1, <2>2, <2>3, <2>7
    <3> QED
      BY <2>6, <3>1, <3>2, <3>3 DEF CursorOK, DriverOK
  <2> QED
    BY <1>2, <2>3, <2>6, <2>7, <2>8 DEF OnRow, CurrentRow
<1>3. CASE ~HasRowset(r)
  <2>1. Fetch(r) = [r EXCEPT !.count = 0, !.pos = 0]
    BY <1>3 DEF Fetch
  <2>2. /\ Fetch(r) \in Cursor
        /\ Fetch(r).set = r.set /\ Fetch(r).closed = r.closed /\ Fetch(r).cols = r.cols
        /\ Fetch(r).rowset = r.rowset /\ Fetch(r).sent = r.sent
        /\ Fetch(r).count = 0 /\ Fetch(r).pos = 0
    <3>1. 0 \in 0..MaxRows /\ 0 \in 0..MaxSets
      OBVIOUS
    <3> QED
      BY <1>1, <2>1, <3>1 DEF Cursor
  <2>3. r.set \in Int /\ r.sent \in Nat /\ r.rowset \in Nat
    BY <1>1 DEF Cursor
  <2> QED
    BY <1>1, <1>3, <2>2, <2>3 DEF CursorOK, DriverOK
<1> QED
  BY <1>2, <1>3

\* next() from a row, whether or not another one follows.
LEMMA NextCursor ==
  ASSUME sets \in ResultSets, NEW r, CursorOK(r), OnRow(r) \/ HasNext(r)
  PROVE  /\ CursorOK(Next(r))
         /\ HasNext(r) => OnRow(Next(r))
         /\ PrecedesOrIs(CurrentRow(r), CurrentRow(Next(r)))
<1>1. r \in Cursor /\ Len(sets) \in 1..MaxSets
  BY SetsType DEF CursorOK, DriverOK
<1>2. CASE InRowset(r)
  <2>1. Next(r) = [r EXCEPT !.pos = r.pos + 1] /\ r.pos < r.count
    BY <1>1, <1>2 DEF Next, OnRow, HasNext, Cursor
  <2>2. r.pos + 1 \in 0..MaxSets
    BY <1>1, <1>2 DEF InRowset, Cursor
  <2>3. /\ Next(r) \in Cursor
        /\ Next(r).set = r.set /\ Next(r).rowset = r.rowset /\ Next(r).sent = r.sent
        /\ Next(r).count = r.count /\ Next(r).pos = r.pos + 1
    BY <1>1, <2>1, <2>2 DEF Cursor
  <2>4. r.set \in Int /\ r.sent \in Int /\ r.rowset \in Int /\ r.count \in Int /\ r.pos \in Int
    BY <1>1 DEF Cursor
  <2>5. CursorOK(Next(r))
    BY <2>1, <2>3, <2>4 DEF CursorOK, DriverOK
  <2>6. HasNext(r) => OnRow(Next(r))
    BY <1>2, <2>3, <2>4 DEF HasNext, OnRow
  <2> QED
    BY <2>3, <2>4, <2>5, <2>6 DEF CurrentRow, PrecedesOrIs, Precedes
<1>3. CASE ~InRowset(r)
  <2>1. Next(r) = Fetch(r) /\ HasNext(r) = HasRowset(r)
    BY <1>3 DEF Next, HasNext
  <2>2. /\ r.set \in Int /\ r.sent \in Int /\ r.count \in Int /\ r.pos \in Int
        /\ r.pos <= r.count
    BY <1>1 DEF Cursor, CursorOK, DriverOK
  <2>3. PrecedesOrIs(CurrentRow(r), CurrentRow(Fetch(r)))
    <3>1. CASE HasRowset(r)
      BY <2>2, <3>1, FetchCursor DEF CurrentRow, CursorOK, PrecedesOrIs, Precedes
    <3>2. CASE ~HasRowset(r)
      BY <2>2, <3>2, FetchCursor DEF CurrentRow, CursorOK, PrecedesOrIs, Precedes
    <3> QED
      BY <3>1, <3>2
  <2> QED
    BY <2>1, <2>3, FetchCursor DEF CursorOK
<1> QED
  BY <1>2, <1>3

\* The later result sets do not depend on where in its rowset the cursor is.
LEMMA LaterSets ==
  ASSUME sets \in ResultSets, NEW r, CursorOK(r), Later(r) # {}
  PROVE  /\ Min(Later(r)) \in Later(r)
         /\ \A j \in Later(r) : Min(Later(r)) <= j
         /\ Min(Later(r)) \in (r.set + 1)..Len(sets) /\ ~r.closed /\ RowsOf(Min(Later(r))) > 0
<1>1. Later(r) \in SUBSET Nat
  BY SetsType DEF Later, CursorOK, DriverOK, Cursor
<1>2. Min(Later(r)) \in Later(r) /\ \A j \in Later(r) : Min(Later(r)) <= j
  BY <1>1, LeastNumber
<1> QED
  BY <1>2 DEF Later

\* nextResultSet(): on to the first later result set with rows, or past the last one.
LEMMA AdvanceSet ==
  ASSUME sets \in ResultSets, NEW r, CursorOK(r), ~HasNext(r)
  PROVE  /\ CursorOK(Advance(r))
         /\ Advance(r).closed = r.closed /\ Advance(r).cols = r.cols
         /\ Later(r) = {} => CurrentRow(Advance(r)) = <<Len(sets) + 1, 1>>
         /\ Later(r) # {} => /\ OnRow(Advance(r))
                            /\ CurrentRow(Advance(r)) = <<Min(Later(r)), 1>>
<1>1. r \in Cursor /\ Len(sets) \in 1..MaxSets
  BY SetsType DEF CursorOK, DriverOK
<1> DEFINE n == Next(r)
<1>2. /\ n \in Cursor /\ n.closed = r.closed /\ n.cols = r.cols
      /\ n.set = r.set /\ n.rowset = r.rowset
  <2>1. CASE InRowset(r)
    <3>1. r.pos + 1 \in 0..MaxSets
      BY <1>1, <2>1 DEF InRowset, Cursor
    <3>2. n = [r EXCEPT !.pos = r.pos + 1]
      BY <1>1, <2>1 DEF Next, Cursor
    <3> QED
      BY <1>1, <3>1, <3>2 DEF Cursor
  <2>2. CASE ~InRowset(r)
    <3>1. n = [r EXCEPT !.count = 0, !.pos = 0]
      BY <2>2 DEF Next, HasNext, Fetch
    <3>2. 0 \in 0..MaxRows /\ 0 \in 0..MaxSets
      OBVIOUS
    <3> QED
      BY <1>1, <3>1, <3>2 DEF Cursor
  <2> QED
    BY <2>1, <2>2
<1>3. Later(n) = Later(r) /\ Advance(r) = NextResultSet(n)
  BY <1>2 DEF Later, Advance
<1> HIDE DEF n
<1>4. 0 \in 0..MaxRows /\ 0 \in 0..MaxSets /\ Len(sets) + 1 \in 1..(MaxSets + 1)
  BY <1>1
<1>5. CASE Later(r) = {}
  <2>1. Advance(r) = [n EXCEPT !.set = Len(sets) + 1, !.sent = 0, !.count = 0, !.pos = 0]
    BY <1>3, <1>5 DEF NextResultSet
  <2>2. /\ Advance(r) \in Cursor
        /\ Advance(r).closed = r.closed /\ Advance(r).cols = r.cols
        /\ Advance(r).set = Len(sets) + 1 /\ Advance(r).sent = 0
        /\ Advance(r).count = 0 /\ Advance(r).pos = 0
    BY <1>2, <1>4, <2>1 DEF Cursor
  <2>3. 0 <= Advance(r).rowset /\ ~(Len(sets) + 1 <= Len(sets))
    BY <1>1, <2>2 DEF Cursor
  <2> QED
    BY <1>1, <1>5, <2>2, <2>3 DEF CursorOK, DriverOK, CurrentRow
<1>6. CASE Later(r) # {}
  <2> DEFINE m == Min(Later(r))
             q == [n EXCEPT !.set = m, !.sent = 0]
  <2>1. m \in (r.set + 1)..Len(sets) /\ ~r.closed /\ RowsOf(m) > 0
    BY <1>6, LaterSets
  <2>2. m \in 1..Len(sets) /\ m \in 1..(MaxSets + 1) /\ RowsOf(m) \in 0..MaxRows
    BY <1>1, <2>1, RowsOfType DEF Cursor
  <2>3. Advance(r) = Fetch(q)
    BY <1>3, <1>6 DEF NextResultSet
  <2> HIDE DEF m
  <2>4. q \in Cursor /\ q.closed = r.closed /\ q.cols = r.cols /\ q.set = m /\ q.sent = 0
    BY <1>2, <1>4, <2>2 DEF Cursor
  <2> HIDE DEF q
  <2>5. DriverOK(q) /\ HasRowset(q)
    BY <1>1, <2>1, <2>2, <2>4 DEF DriverOK, HasRowset
  <2> QED
    BY <1>6, <2>3, <2>4, <2>5, FetchCursor DEF m
<1> QED
  BY <1>5, <1>6

\* The step of the loop, next() and nextResultSet() together: it goes forward, finds a row
\* unless there is none, and leaves a row for good.
LEMMA AdvanceCursor ==
  ASSUME sets \in ResultSets, NEW r, CursorOK(r)
  PROVE  /\ CursorOK(Advance(r))
         /\ Advance(r).closed = r.closed /\ Advance(r).cols = r.cols
         /\ ~AtEnd(r) => OnRow(Advance(r))
         /\ AtEnd(r) => Advance(r).set = Len(sets) + 1
         /\ PrecedesOrIs(CurrentRow(r), CurrentRow(Advance(r)))
         /\ OnRow(r) => Precedes(CurrentRow(r), CurrentRow(Advance(r)))
<1>1. r \in Cursor /\ Len(sets) \in 1..MaxSets
  BY SetsType DEF CursorOK, DriverOK
<1>2. /\ r.set \in Int /\ r.sent \in Int /\ r.count \in Int /\ r.pos \in Int /\ r.rowset \in Int
      /\ r.pos <= r.count /\ r.count <= r.rowset /\ r.count <= r.sent
      /\ r.set <= Len(sets) + 1
  BY <1>1 DEF Cursor, CursorOK, DriverOK
<1>3. CASE HasNext(r) /\ InRowset(r)
  <2>1. Advance(r) = Next(r) /\ Next(r) = [r EXCEPT !.pos = r.pos + 1] /\ ~AtEnd(r)
    BY <1>3 DEF Advance, Next, AtEnd
  <2>2. /\ Next(r).set = r.set /\ Next(r).sent = r.sent /\ Next(r).count = r.count
        /\ Next(r).pos = r.pos + 1 /\ Next(r).closed = r.closed /\ Next(r).cols = r.cols
    BY <1>1, <2>1 DEF Cursor
  <2>3. CursorOK(Next(r)) /\ OnRow(Next(r))
    BY <1>3, NextCursor
  <2>4. Precedes(CurrentRow(r), CurrentRow(Next(r)))
    BY <1>2, <2>2 DEF CurrentRow, Precedes
  <2> QED
    BY <2>1, <2>2, <2>3, <2>4 DEF PrecedesOrIs
<1>4. CASE HasNext(r) /\ ~InRowset(r)
  <2>1. Advance(r) = Fetch(r) /\ HasRowset(r) /\ ~AtEnd(r)
    BY <1>4 DEF Advance, Next, AtEnd, HasNext
  <2>2. /\ CursorOK(Fetch(r)) /\ OnRow(Fetch(r)) /\ CurrentRow(Fetch(r)) = <<r.set, r.sent + 1>>
        /\ Fetch(r).closed = r.closed /\ Fetch(r).cols = r.cols
    BY <2>1, FetchCursor DEF CursorOK
  <2> QED
    BY <1>2, <2>1, <2>2 DEF CurrentRow, Precedes, PrecedesOrIs, OnRow
<1>5. CASE ~HasNext(r)
  <2>1. CASE Later(r) = {}
    <3>1. AtEnd(r) /\ CurrentRow(Advance(r)) = <<Len(sets) + 1, 1>>
      BY <1>5, <2>1, AdvanceSet DEF AtEnd
    <3>2. Advance(r).set = Len(sets) + 1
      BY <3>1 DEF CurrentRow
    <3>3. r.set = Len(sets) + 1 => r.sent = 0
      BY DEF CursorOK, DriverOK
    <3>4. r.set < Len(sets) + 1 \/ (r.set = Len(sets) + 1 /\ r.sent = 0 /\ r.count <= 0 /\ r.pos <= 0)
      BY <1>1, <1>2, <3>3
    <3>5. r.count >= 0 /\ r.pos >= 0
      BY <1>1 DEF Cursor
    <3>6. /\ PrecedesOrIs(CurrentRow(r), CurrentRow(Advance(r)))
          /\ OnRow(r) => Precedes(CurrentRow(r), CurrentRow(Advance(r)))
      BY <1>1, <1>2, <3>1, <3>4, <3>5 DEF CurrentRow, Precedes, PrecedesOrIs, OnRow
    <3> QED
      BY <1>5, <3>1, <3>2, <3>6, AdvanceSet
  <2>2. CASE Later(r) # {}
    <3>1. ~AtEnd(r) /\ CurrentRow(Advance(r)) = <<Min(Later(r)), 1>> /\ OnRow(Advance(r))
      BY <1>5, <2>2, AdvanceSet DEF AtEnd
    <3>2. r.set < Min(Later(r))
      BY <1>1, <1>2, <2>2, LaterSets
    <3> QED
      BY <1>5, <2>2, <3>1, <3>2, AdvanceSet DEF CurrentRow, Precedes, PrecedesOrIs
  <2> QED
    BY <2>1, <2>2
<1> QED
  BY <1>3, <1>4, <1>5

\* Where a result set has no row left, what precedes the next row is every row of the result sets
\* up to it.
LEMMA AdvanceSetRows ==
  ASSUME sets \in ResultSets, NEW r, CursorOK(r), ~HasNext(r), ~r.closed, NEW x \in AllRows
  PROVE  Precedes(x, CurrentRow(Advance(r))) <=> x[1] <= r.set
<1>1. r.set \in 1..(Len(sets) + 1) /\ Len(sets) \in 1..MaxSets
  BY SetsType DEF CursorOK, DriverOK, Cursor
<1>2. x[1] \in 1..Len(sets) /\ x[2] \in 1..MaxRows /\ x[2] <= RowsOf(x[1])
  BY DEF AllRows
<1>3. x[1] > r.set => x[1] \in Later(r)
  BY <1>1, <1>2, RowsOfType DEF Later
<1>4. CASE Later(r) = {}
  BY <1>1, <1>2, <1>3, <1>4, AdvanceSet DEF Precedes
<1>5. CASE Later(r) # {}
  <2>1. CurrentRow(Advance(r)) = <<Min(Later(r)), 1>>
    BY <1>5, AdvanceSet
  <2>2. Min(Later(r)) \in (r.set + 1)..Len(sets)
    BY <1>5, LaterSets
  <2>3. x[1] > r.set => Min(Later(r)) <= x[1]
    BY <1>3, <1>5, LaterSets
  <2> QED
    BY <1>1, <1>2, <2>1, <2>2, <2>3 DEF Precedes
<1> QED
  BY <1>4, <1>5

\* The step of the loop leaves the row it was on behind, and no other.
LEMMA AdvanceRows ==
  ASSUME sets \in ResultSets, NEW r, CursorOK(r), ~r.closed, NEW x \in AllRows
  PROVE  /\ OnRow(r) => (Precedes(x, CurrentRow(Advance(r)))
                           <=> Precedes(x, CurrentRow(r)) \/ x = CurrentRow(r))
         /\ r.count = 0 => (Precedes(x, CurrentRow(Advance(r))) <=> Precedes(x, CurrentRow(r)))
<1>1. r \in Cursor /\ Len(sets) \in 1..MaxSets
  BY SetsType DEF CursorOK, DriverOK
<1>2. /\ r.set \in Nat /\ r.sent \in Nat /\ r.count \in Nat /\ r.pos \in Nat /\ r.rowset \in Nat
      /\ r.pos <= r.count /\ r.count <= r.rowset /\ r.count <= r.sent
      /\ r.set <= Len(sets) + 1
  BY <1>1 DEF Cursor, CursorOK, DriverOK
<1>3. /\ x = <<x[1], x[2]>> /\ x[1] \in 1..Len(sets) /\ x[2] \in 1..MaxRows
      /\ x[2] <= RowsOf(x[1])
  BY DEF AllRows
<1>a. ASSUME NEW y, NEW a \in Int, NEW b \in Int, y = <<a, b>>
      PROVE  /\ x = y <=> x[1] = a /\ x[2] = b
             /\ Precedes(x, y) <=> x[1] < a \/ (x[1] = a /\ x[2] < b)
  BY <1>3, <1>a DEF Precedes
<1>b. CurrentRow(r) = <<r.set, r.sent - r.count + r.pos + 1>>
  BY DEF CurrentRow
<1>4. OnRow(r) /\ ~InRowset(r) => r.pos + 1 = r.count
  BY <1>2 DEF OnRow, InRowset
<1>5. CASE HasNext(r) /\ InRowset(r)
  <2>1. Advance(r) = [r EXCEPT !.pos = r.pos + 1] /\ r.count # 0
    BY <1>5 DEF Advance, Next, InRowset
  <2>2. Advance(r).set = r.set /\ Advance(r).sent = r.sent /\ Advance(r).count = r.count
        /\ Advance(r).pos = r.pos + 1
    BY <1>1, <2>1 DEF Cursor
  <2>3. CurrentRow(Advance(r)) = <<r.set, r.sent - r.count + (r.pos + 1) + 1>>
    BY <2>2 DEF CurrentRow
  <2> DEFINE n == r.sent - r.count + r.pos + 1
  <2>4. n \in Int /\ r.sent - r.count + (r.pos + 1) + 1 = n + 1
    BY <1>2
  <2> HIDE DEF n
  <2>5. /\ Precedes(x, CurrentRow(r)) <=> x[1] < r.set \/ (x[1] = r.set /\ x[2] < n)
        /\ x = CurrentRow(r) <=> x[1] = r.set /\ x[2] = n
        /\ Precedes(x, CurrentRow(Advance(r))) <=> x[1] < r.set \/ (x[1] = r.set /\ x[2] < n + 1)
    <3>1. CurrentRow(r) = <<r.set, n>> /\ CurrentRow(Advance(r)) = <<r.set, n + 1>>
      BY <1>b, <2>3, <2>4 DEF n
    <3>2. r.set \in Int /\ n + 1 \in Int
      BY <1>2, <2>4
    <3> QED
      BY <1>a, <2>4, <3>1, <3>2
  <2> QED
    BY <1>3, <2>1, <2>4, <2>5
<1>6. CASE HasNext(r) /\ ~InRowset(r)
  <2>1. Advance(r) = Fetch(r) /\ HasRowset(r)
    BY <1>6 DEF Advance, Next, HasNext
  <2>2. CurrentRow(Advance(r)) = <<r.set, r.sent + 1>>
    BY <2>1, FetchCursor DEF CursorOK
  <2>3. OnRow(r) => CurrentRow(r) = <<r.set, r.sent>>
    BY <1>b, <1>2, <1>4, <1>6
  <2>4. r.count = 0 => CurrentRow(r) = <<r.set, r.sent + 1>>
    BY <1>b, <1>2
  <2>5. /\ Precedes(x, <<r.set, r.sent>>) <=> x[1] < r.set \/ (x[1] = r.set /\ x[2] < r.sent)
        /\ x = <<r.set, r.sent>> <=> x[1] = r.set /\ x[2] = r.sent
        /\ Precedes(x, <<r.set, r.sent + 1>>)
             <=> x[1] < r.set \/ (x[1] = r.set /\ x[2] < r.sent + 1)
    <3>1. r.set \in Int /\ r.sent \in Int /\ r.sent + 1 \in Int
      BY <1>2
    <3> QED
      BY <1>a, <3>1
  <2>6. Precedes(x, <<r.set, r.sent + 1>>)
          <=> Precedes(x, <<r.set, r.sent>>) \/ x = <<r.set, r.sent>>
    BY <1>2, <1>3, <2>5
  <2> QED
    BY <2>2, <2>3, <2>4, <2>6
<1>7. CASE ~HasNext(r)
  <2>1. Precedes(x, CurrentRow(Advance(r))) <=> x[1] <= r.set
    BY <1>7, AdvanceSetRows
  <2>2. OnRow(r) => r.set \in 1..Len(sets) /\ r.pos + 1 = r.count /\ r.sent = RowsOf(r.set)
    <3> SUFFICES ASSUME OnRow(r)
                 PROVE  r.set \in 1..Len(sets) /\ r.pos + 1 = r.count /\ r.sent = RowsOf(r.set)
      OBVIOUS
    <3>1. r.set \in 1..Len(sets)
      BY <1>1, <1>2 DEF OnRow, CursorOK, DriverOK, Cursor
    <3>2. RowsOf(r.set) \in Nat /\ r.sent <= RowsOf(r.set)
      BY <1>1, <3>1, RowsOfType DEF CursorOK, DriverOK
    <3>3. CASE InRowset(r)
      BY <1>2, <1>7, <3>1, <3>3 DEF HasNext, InRowset, OnRow, CursorOK
    <3>4. CASE ~InRowset(r)
      BY <1>2, <1>4, <1>7, <3>1, <3>2, <3>4 DEF HasNext, HasRowset
    <3> QED
      BY <3>1, <3>3, <3>4
  <2>3. r.count = 0 => r.pos = 0 /\ (r.set \in 1..Len(sets) => r.sent = RowsOf(r.set))
    <3> SUFFICES ASSUME r.count = 0
                 PROVE  r.pos = 0 /\ (r.set \in 1..Len(sets) => r.sent = RowsOf(r.set))
      OBVIOUS
    <3>1. ~HasRowset(r)
      BY <1>7 DEF HasNext, InRowset
    <3> QED
      BY <1>1, <1>2, <3>1, RowsOfType DEF HasRowset, CursorOK, DriverOK
  <2>4. OnRow(r) => CurrentRow(r) = <<r.set, RowsOf(r.set)>> /\ RowsOf(r.set) \in Nat
    <3>1. OnRow(r) => r.sent - r.count + r.pos + 1 = r.sent
      BY <1>2, <2>2
    <3>2. OnRow(r) => RowsOf(r.set) \in Nat
      BY <2>2, RowsOfType
    <3> QED
      BY <1>b, <2>2, <3>1, <3>2
  <2>5. OnRow(r) => (x[1] <= r.set <=> Precedes(x, CurrentRow(r)) \/ x = CurrentRow(r))
    <3>1. ASSUME OnRow(r)
          PROVE  x[1] <= r.set <=> Precedes(x, CurrentRow(r)) \/ x = CurrentRow(r)
      <4>1. /\ Precedes(x, CurrentRow(r)) <=> x[1] < r.set \/ (x[1] = r.set /\ x[2] < RowsOf(r.set))
            /\ x = CurrentRow(r) <=> x[1] = r.set /\ x[2] = RowsOf(r.set)
        <5>1. r.set \in Int /\ RowsOf(r.set) \in Int
          BY <1>2, <2>4, <3>1
        <5> QED
          BY <1>a, <2>4, <3>1, <5>1
      <4> QED
        BY <1>2, <1>3, <2>4, <3>1, <4>1
    <3> QED
      BY <3>1
  <2>6. r.count = 0 => (x[1] <= r.set <=> Precedes(x, CurrentRow(r)))
    <3>1. CASE r.set \in 1..Len(sets)
      BY <1>2, <1>3, <2>3, <3>1 DEF Precedes, CurrentRow
    <3>2. CASE r.set = Len(sets) + 1
      BY <1>1, <1>2, <1>3, <3>2 DEF Precedes, CurrentRow
    <3> QED
      BY <1>1, <1>2, <3>1, <3>2 DEF Cursor
  <2> QED
    BY <2>1, <2>5, <2>6
<1> QED
  BY <1>5, <1>6, <1>7

-----------------------------------------------------------------------------
(* The frame of the fetch and the place of the cursor *)

USE IntMaxAssumption, ChunksAssumption, FirstRowsAssumption

\* The room of the data frame is n_max, or grows from FirstRows.
Room ==
  /\ ~busy => out = <<>> /\ frame = 0
  /\ busy /\ ~Unlimited => frame = nmax
  /\ busy /\ Unlimited => frame >= 1

\* Between two turns of the loop, and between two fetches, the cursor is on the row to be copied
\* next unless complete_ says that there is none.
Reading == ~complete /\ (rowsFetched > 0 \/ (busy /\ nmax # 0)) => OnRow(cur)

FrameInv == TypeOK /\ WritesFit /\ Room /\ CursorOK(cur) /\ Reading

\* Doubling an int gives twice its value or a negative number.
LEMMA DoubledInt ==
  ASSUME NEW n \in 1..IntMax
  PROVE  Doubled(n) \in Int /\ (Doubled(n) >= 0 => Doubled(n) = 2 * n /\ 2 * n <= IntMax)
<1>1. IntRange \in Nat /\ IntRange > 2 * n /\ IntRange > 0
  BY DEF IntRange
<1>2. (2 * n) % IntRange = 2 * n
  <2> DEFINE q == (2 * n) \div IntRange
  <2>1. q \in Nat /\ 2 * n = (IntRange * q) + ((2 * n) % IntRange) /\ (2 * n) % IntRange \in Nat
    BY <1>1
  <2>2. q = 0
    <3> SUFFICES ASSUME q >= 1 PROVE FALSE
      BY <2>1
    <3>1. IntRange * q >= IntRange
      BY <1>1, <2>1
    <3> QED
      BY <1>1, <2>1, <3>1
  <2> QED
    BY <1>1, <2>1, <2>2
<1> QED
  BY <1>1, <1>2 DEF Doubled, IntRange

\* The row get() reads is a row of the result.
LEMMA CurrentRowType ==
  ASSUME sets \in ResultSets, NEW r, CursorOK(r)
  PROVE  /\ CurrentRow(r) \in Int \X Int
         /\ OnRow(r) => CurrentRow(r) \in AllRows /\ CurrentRow(r) \in RowId
<1>1. r \in Cursor /\ Len(sets) \in 1..MaxSets
  BY SetsType DEF CursorOK, DriverOK
<1>2. /\ r.set \in Nat /\ r.sent \in Nat /\ r.count \in Nat /\ r.pos \in Nat
      /\ r.set >= 1 /\ r.set <= Len(sets) + 1
      /\ r.pos <= r.count /\ r.count <= r.sent
      /\ r.set = Len(sets) + 1 => r.sent = 0
  BY <1>1 DEF Cursor, CursorOK, DriverOK
<1> DEFINE n == r.sent - r.count + r.pos + 1
<1>3. CurrentRow(r) = <<r.set, n>> /\ r.set \in Int /\ n \in Int
  BY <1>2 DEF CurrentRow
<1>4. ASSUME OnRow(r)
      PROVE  r.set \in 1..Len(sets) /\ r.set \in 1..MaxSets /\ n \in 1..MaxRows /\ n <= RowsOf(r.set)
  <2>1. r.set \in 1..Len(sets)
    BY <1>1, <1>2, <1>4 DEF OnRow
  <2>2. RowsOf(r.set) \in 0..MaxRows /\ r.sent <= RowsOf(r.set)
    BY <2>1, RowsOfType DEF CursorOK, DriverOK
  <2> QED
    BY <1>1, <1>2, <1>4, <2>1, <2>2 DEF OnRow
<1> HIDE DEF n
<1> QED
  BY <1>3, <1>4 DEF AllRows, RowId

\* A step that leaves the result sets alone.
LEMMA SameSets ==
  ASSUME sets' = sets
  PROVE  (CursorOK(cur)' <=> CursorOK(cur')) /\ AllRows' = AllRows
BY DEF CursorOK, DriverOK, RowsOf, AllRows

\* The rows do not fit only when the data frame cannot be made larger.
LEMMA GrownFits ==
  ASSUME FrameInv, Copying
  PROVE  /\ Grown \in 0..IntMax /\ Len(out) + 1 <= Grown
         /\ Unlimited => Grown >= 1 /\ (Grown <= FirstRows \/ Grown <= 2 * Len(out))
         /\ ~Unlimited => Grown = frame
         /\ OnRow(cur)
<1>1. /\ busy /\ ~complete /\ ~Full /\ Grown >= 0
      /\ frame \in 0..IntMax /\ Len(out) \in Nat /\ Len(out) <= frame
      /\ nmax \in Int
  BY DEF FrameInv, TypeOK, WritesFit, Copying
<1>2. CASE Unlimited
  <2>1. frame >= 1 /\ (frame <= FirstRows \/ frame <= 2 * (Len(out) - 1)) /\ OnRow(cur)
    BY <1>1, <1>2 DEF FrameInv, WritesFit, Room, Reading, Unlimited
  <2>2. CASE NoRoom
    <3>1. Grown = Doubled(frame) /\ Len(out) = frame
      BY <1>1, <1>2, <2>2 DEF Grown, NoRoom
    <3>2. Grown = 2 * frame /\ 2 * frame <= IntMax
      BY <1>1, <2>1, <3>1, DoubledInt
    <3> QED
      BY <1>1, <1>2, <2>1, <3>1, <3>2
  <2>3. CASE ~NoRoom
    <3>1. Grown = frame /\ Len(out) < frame
      BY <1>1, <2>3 DEF Grown, NoRoom
    <3> QED
      BY <1>1, <1>2, <2>1, <3>1
  <2> QED
    BY <2>2, <2>3
<1>3. CASE ~Unlimited
  <2>1. frame = nmax /\ Grown = frame /\ Len(out) < frame
    BY <1>1, <1>3 DEF FrameInv, Room, Grown, Full, NoRoom
  <2>2. OnRow(cur)
    BY <1>1, <2>1 DEF FrameInv, Reading
  <2> QED
    BY <1>1, <1>3, <2>1, <2>2
<1> QED
  BY <1>2, <1>3

\* The result object of a new execution.
LEMMA NewCursor ==
  ASSUME NEW ss \in ResultSets, sets' = ss, NEW j \in 1..Len(ss), NEW size \in 1..MaxSets,
         cur' = NewResult(ss, j, size)
  PROVE  cur' \in Cursor /\ CursorOK(cur)'
<1>1. Len(ss) \in 1..MaxSets
  BY SetsType
<1>2. j \in 1..(MaxSets + 1) /\ 0 \in 0..MaxRows /\ 0 \in 0..MaxSets /\ (ss[j] # NoColumns) \in BOOLEAN
  BY <1>1
<1>3. /\ cur' \in Cursor /\ cur'.set = j /\ cur'.sent = 0 /\ cur'.count = 0 /\ cur'.pos = 0
      /\ cur'.rowset = size /\ cur'.closed = FALSE /\ cur'.cols = (ss[j] # NoColumns)
  BY <1>2 DEF NewResult, Cursor
<1>4. (RowsOf(j) \in Nat)'
  BY SetsType DEF RowsOf, NoColumns
<1> QED
  BY <1>1, <1>3, <1>4 DEF CursorOK, DriverOK

\* The values a dropped fetch and a failed call leave have their types.
LEMMA DroppedTypes ==
  /\ <<>> \in Seq((1..MaxSets) \X (1..MaxRows)) /\ 0 \in 0..IntMax /\ 0 \in Nat
  /\ \A t \in SUBSET Troubles : t \cup {"failed"} \in SUBSET Troubles
BY DEF Troubles

\* FrameInv holds after dbSendQuery().
LEMMA FrameInit == Init => FrameInv
<1> SUFFICES ASSUME Init PROVE FrameInv
  OBVIOUS
<1>1. sets \in ResultSets /\ Len(sets) \in 1..MaxSets /\ 1 \in 1..Len(sets) /\ RowsOf(1) \in Nat
  BY SetsType, RowsOfType DEF Init
<1>2. NewResult(sets, 1, 1) \in Cursor
  <2>1. /\ 1 \in 1..(MaxSets + 1) /\ 1 \in 1..MaxSets /\ 0 \in 0..MaxRows /\ 0 \in 0..MaxSets
        /\ (sets[1] # NoColumns) \in BOOLEAN
    OBVIOUS
  <2> QED
    BY <2>1 DEF NewResult, Cursor
<1>3. cur \in Cursor /\ cur.set = 1 /\ cur.sent = 0 /\ cur.count = 0 /\ cur.pos = 0 /\ cur.rowset = 1
  BY <1>2 DEF Init, NewResult, Cursor
<1>4. CursorOK(cur)
  BY <1>1, <1>3 DEF CursorOK, DriverOK
<1>5. TypeOK
  BY <1>3, DroppedTypes DEF Init, TypeOK, Cursor
<1> QED
  BY <1>4, <1>5 DEF Init, FrameInv, WritesFit, Room, Reading

\* Every step keeps FrameInv.
LEMMA FrameStep == FrameInv /\ [Steps]_vars => FrameInv'
<1> SUFFICES ASSUME FrameInv, [Steps]_vars PROVE FrameInv'
  OBVIOUS
<1>t. /\ TypeOK /\ WritesFit /\ Room /\ CursorOK(cur) /\ Reading
      /\ sets \in ResultSets /\ cur \in Cursor
  BY DEF FrameInv, TypeOK, Cursor
<1>a. CASE Bind
  <2>1. PICK ss \in ResultSets, b \in 1..MaxSets :
          /\ sets' = ss
          /\ cur' = NewResult(ss, LastBatch(Len(ss), b), LastSize(Len(ss), b))
          /\ trouble' = IF b < Len(ss) THEN {"split"} ELSE {}
    BY <1>a DEF Bind
  <2>2. Len(ss) \in 1..MaxSets /\ Len(ss) \in Nat \ {0} /\ b \in Nat \ {0}
    BY SetsType
  <2>3. LastBatch(Len(ss), b) \in 1..Len(ss) /\ LastSize(Len(ss), b) \in 1..MaxSets
    <3>1. LastBatch(Len(ss), b) \in 1..Len(ss) /\ LastSize(Len(ss), b) \in 1..Len(ss)
      BY <2>2, LastBatchType
    <3> QED
      BY <2>2, <3>1
  <2>4. cur' \in Cursor /\ CursorOK(cur)'
    BY <2>1, <2>3, NewCursor
  <2>5. TypeOK'
    <3>1. trouble' \in SUBSET Troubles
      BY <2>1 DEF Troubles
    <3> QED
      BY <1>a, <1>t, <2>1, <2>4, <3>1, DroppedTypes DEF TypeOK, Bind, Executed, Cursor
  <2> QED
    BY <1>a, <1>t, <2>4, <2>5 DEF FrameInv, WritesFit, Room, Reading, Bind, Executed, Unlimited
<1>b. CASE BindRejected
  <2>1. TypeOK'
    BY <1>b, <1>t DEF TypeOK, BindRejected, Troubles
  <2>2. CursorOK(cur)'
    BY <1>b, <1>t, SameSets DEF BindRejected
  <2> QED
    BY <1>b, <1>t, <2>1, <2>2 DEF FrameInv, WritesFit, Room, Reading, BindRejected, Unlimited
<1>c. CASE BindFailed
  <2>0. /\ sets' = sets /\ params' = params /\ bound' = bound /\ nmax' = nmax /\ busy' = busy
        /\ out' = out /\ frame' = frame /\ got' = got /\ ~busy
        /\ complete' = FALSE /\ rowsFetched' = 0 /\ trouble' = trouble \cup {"failed"}
    BY <1>c DEF BindFailed
  <2>1. cur' \in Cursor /\ CursorOK(cur')
    <3>1. CASE cur' = [cur EXCEPT !.closed = TRUE]
      <4>1. /\ cur' \in Cursor /\ cur'.set = cur.set /\ cur'.sent = cur.sent
            /\ cur'.count = cur.count /\ cur'.pos = cur.pos /\ cur'.rowset = cur.rowset
        BY <1>t, <3>1 DEF Cursor
      <4> QED
        BY <1>t, <4>1 DEF CursorOK, DriverOK
    <3>2. ASSUME NEW cols \in BOOLEAN,
                 cur' = [cur EXCEPT !.cols = cols, !.closed = TRUE, !.count = 0, !.pos = 0]
          PROVE  cur' \in Cursor /\ CursorOK(cur')
      <4>0. 0 \in 0..MaxRows /\ 0 \in 0..MaxSets
        OBVIOUS
      <4>1. /\ cur' \in Cursor /\ cur'.set = cur.set /\ cur'.sent = cur.sent
            /\ cur'.count = 0 /\ cur'.pos = 0 /\ cur'.rowset = cur.rowset
        BY <1>t, <3>2, <4>0 DEF Cursor
      <4>2. 0 <= cur.sent /\ 0 <= cur.rowset
        BY <1>t DEF Cursor
      <4> QED
        BY <1>t, <4>1, <4>2 DEF CursorOK, DriverOK
    <3> QED
      BY <1>c, <3>1, <3>2 DEF BindFailed
  <2>2. TypeOK'
    BY <1>t, <2>0, <2>1 DEF TypeOK, Cursor, Troubles
  <2> QED
    BY <1>t, <2>0, <2>1, <2>2, SameSets DEF FrameInv, WritesFit, Room, Reading, Unlimited
<1>d. CASE BindEmpty
  <2>1. TypeOK'
    BY <1>d, <1>t DEF TypeOK, BindEmpty, Troubles
  <2>2. CursorOK(cur)'
    BY <1>d, <1>t, SameSets DEF BindEmpty
  <2> QED
    BY <1>d, <1>t, <2>1, <2>2 DEF FrameInv, WritesFit, Room, Reading, BindEmpty, Unlimited
<1>e. CASE FetchBegin
  <2>1. PICK n \in Chunks :
          /\ nmax' = n
          /\ frame' = IF n < 0 THEN FirstRows ELSE n
          /\ IF rowsFetched = 0 /\ n # 0
             THEN complete' = AtEnd(cur) /\ cur' = Advance(cur)
             ELSE UNCHANGED <<complete, cur>>
    BY <1>e DEF FetchBegin
  <2>2. /\ ~busy /\ busy' = TRUE /\ out' = <<>> /\ sets' = sets /\ params' = params
        /\ bound' = bound /\ rowsFetched' = rowsFetched /\ got' = got /\ trouble' = trouble
    BY <1>e DEF FetchBegin
  <2>3. n \in Int /\ n <= IntMax
    OBVIOUS
  <2>4. frame' \in 0..IntMax /\ (n < 0 => frame' >= 1 /\ frame' <= FirstRows) /\ (n >= 0 => frame' = n)
    BY <2>1, <2>3
  <2>5. CursorOK(cur') /\ cur' \in Cursor
    BY <1>t, <2>1, AdvanceCursor DEF CursorOK, DriverOK
  <2>6. TypeOK'
    <3>1. complete' \in BOOLEAN
      BY <1>t, <2>1 DEF TypeOK, AtEnd
    <3>2. nmax' \in Chunks \cup {0}
      BY <2>1
    <3> QED
      BY <1>t, <2>2, <2>4, <2>5, <3>1, <3>2, DroppedTypes DEF TypeOK, Cursor
  <2>7. Reading'
    <3>1. CASE rowsFetched = 0 /\ n # 0
      <4>1. complete' = AtEnd(cur) /\ cur' = Advance(cur)
        BY <2>1, <3>1
      <4> QED
        BY <1>t, <4>1, AdvanceCursor DEF Reading, OnRow
    <3>2. CASE ~(rowsFetched = 0 /\ n # 0)
      <4>1. complete' = complete /\ cur' = cur
        BY <2>1, <3>2
      <4>2. rowsFetched \in Nat
        BY <1>t DEF TypeOK
      <4> QED
        BY <1>t, <2>1, <2>2, <3>2, <4>1, <4>2 DEF Reading, OnRow
    <3> QED
      BY <3>1, <3>2
  <2> QED
    BY <2>1, <2>2, <2>3, <2>4, <2>5, <2>6, <2>7, SameSets DEF FrameInv, WritesFit, Room, Unlimited
<1>f. CASE FetchTooLarge
  <2>1. TypeOK'
    BY <1>f, <1>t, DroppedTypes DEF TypeOK, FetchTooLarge, Dropped
  <2>2. CursorOK(cur)'
    BY <1>f, <1>t, SameSets DEF FetchTooLarge
  <2> QED
    BY <1>f, <1>t, <2>1, <2>2
       DEF FrameInv, WritesFit, Room, Reading, FetchTooLarge, Dropped, Unlimited
<1>g. CASE FetchRow
  <2>1. /\ Copying /\ frame' = Grown /\ out' = Append(out, CurrentRow(cur))
        /\ rowsFetched' = rowsFetched + 1 /\ complete' = AtEnd(cur) /\ cur' = Advance(cur)
        /\ sets' = sets /\ params' = params /\ bound' = bound /\ nmax' = nmax /\ busy' = busy
        /\ got' = got /\ trouble' = trouble
    BY <1>g DEF FetchRow
  <2>2. /\ Grown \in 0..IntMax /\ Len(out) + 1 <= Grown
        /\ Unlimited => Grown >= 1 /\ (Grown <= FirstRows \/ Grown <= 2 * Len(out))
        /\ ~Unlimited => Grown = frame
        /\ OnRow(cur)
    BY <2>1, GrownFits
  <2>3. CurrentRow(cur) \in RowId
    BY <1>t, <2>2, CurrentRowType
  <2>4. CursorOK(cur') /\ cur' \in Cursor
    BY <1>t, <2>1, AdvanceCursor DEF CursorOK, DriverOK
  <2>5. out \in Seq(RowId) /\ out' \in Seq(RowId) /\ Len(out') = Len(out) + 1 /\ Len(out) \in Nat
    BY <1>t, <2>1, <2>3 DEF TypeOK, RowId
  <2>6. TypeOK'
    BY <1>t, <2>1, <2>2, <2>4, <2>5 DEF TypeOK, Cursor, RowId, AtEnd
  <2>7. Reading'
    BY <1>t, <2>1, AdvanceCursor DEF Reading, OnRow
  <2>8. WritesFit'
    BY <2>1, <2>2, <2>5 DEF WritesFit, Unlimited
  <2>9. Room'
    BY <1>t, <2>1, <2>2 DEF Room, Unlimited, Copying
  <2> QED
    BY <2>1, <2>4, <2>6, <2>7, <2>8, <2>9, SameSets DEF FrameInv
<1>h. CASE FetchBroken
  <2>1. /\ Copying /\ rowsFetched' = rowsFetched + 1 /\ complete' = ~HasNext(cur)
        /\ cur' = Next(cur) /\ busy' = FALSE /\ out' = <<>> /\ frame' = 0
        /\ trouble' = trouble \cup {"failed"}
        /\ sets' = sets /\ params' = params /\ bound' = bound /\ nmax' = nmax /\ got' = got
    BY <1>h DEF FetchBroken, Dropped
  <2>2. CursorOK(cur') /\ cur' \in Cursor /\ (HasNext(cur) => OnRow(cur'))
    BY <1>t, <2>1, GrownFits, NextCursor DEF CursorOK, DriverOK
  <2>3. TypeOK'
    <3>1. complete' \in BOOLEAN /\ rowsFetched' \in Nat
      BY <1>t, <2>1 DEF TypeOK
    <3> QED
      BY <1>t, <2>1, <2>2, <3>1, DroppedTypes DEF TypeOK, Cursor
  <2> QED
    BY <2>1, <2>2, <2>3, SameSets DEF FrameInv, WritesFit, Room, Reading, OnRow
<1>i. CASE FetchError
  <2>1. TypeOK'
    BY <1>i, <1>t, DroppedTypes DEF TypeOK, FetchError, Dropped
  <2>2. CursorOK(cur)'
    BY <1>i, <1>t, SameSets DEF FetchError
  <2> QED
    BY <1>i, <1>t, <2>1, <2>2
       DEF FrameInv, WritesFit, Room, Reading, FetchError, Dropped, Unlimited, Copying
<1>j. CASE FetchMoveError
  <2>1. /\ cur' = [cur EXCEPT !.pos = 0] /\ busy' = FALSE /\ out' = <<>> /\ frame' = 0
        /\ trouble' \in SUBSET (trouble \cup {"failed", "rewound"})
        /\ sets' = sets /\ params' = params /\ bound' = bound /\ complete' = complete
        /\ rowsFetched' = rowsFetched /\ nmax' = nmax /\ got' = got
    BY <1>j DEF FetchMoveError, Dropped
  <2>2. 0 \in 0..MaxSets
    OBVIOUS
  <2>3. /\ cur' \in Cursor /\ cur'.set = cur.set /\ cur'.sent = cur.sent
        /\ cur'.count = cur.count /\ cur'.pos = 0 /\ cur'.rowset = cur.rowset
    BY <1>t, <2>1, <2>2 DEF Cursor
  <2>4. cur.pos \in Nat /\ cur.count \in Nat
    BY <1>t DEF Cursor
  <2>5. CursorOK(cur')
    BY <1>t, <2>3, <2>4 DEF CursorOK, DriverOK
  <2>6. Reading'
    BY <1>t, <2>1, <2>3, <2>4 DEF Reading, OnRow
  <2>7. TypeOK'
    <3>1. trouble' \in SUBSET Troubles
      BY <1>t, <2>1 DEF TypeOK, Troubles
    <3> QED
      BY <1>t, <2>1, <2>3, <3>1, DroppedTypes DEF TypeOK, Cursor
  <2> QED
    BY <2>1, <2>5, <2>6, <2>7, SameSets DEF FrameInv, WritesFit, Room
<1>k. CASE FetchReturn
  <2>1. TypeOK'
    <3>1. got' \in Seq((1..MaxSets) \X (1..MaxRows))
      BY <1>k, <1>t DEF TypeOK, FetchReturn
    <3> QED
      BY <1>k, <1>t, <3>1, DroppedTypes DEF TypeOK, FetchReturn, Dropped
  <2>2. CursorOK(cur)'
    BY <1>k, <1>t, SameSets DEF FetchReturn
  <2>3. Reading'
    BY <1>k, <1>t DEF Reading, FetchReturn, Dropped
  <2> QED
    BY <1>k, <2>1, <2>2, <2>3 DEF FrameInv, WritesFit, Room, FetchReturn, Dropped
<1>l. CASE UNCHANGED vars
  <2>1. TypeOK' /\ CursorOK(cur)'
    BY <1>l, <1>t, SameSets DEF TypeOK, vars
  <2> QED
    BY <1>l, <1>t, <2>1 DEF FrameInv, WritesFit, Room, Reading, vars, Unlimited
<1> QED
  BY <1>a, <1>b, <1>c, <1>d, <1>e, <1>f, <1>g, <1>h, <1>i, <1>j, <1>k, <1>l
     DEF Steps, FetchLoop, FetchNothing

\* result_to_dataframe() never writes past the vectors of its data frame, however the rows, the
\* result sets and the chunks fall and whatever fails, and the vectors are at most twice as long
\* as the rows they hold.
THEOREM FetchFrame == Spec => []FrameOK
<1>1. FrameInv => FrameOK
  BY DEF FrameInv, FrameOK
<1> QED
  BY <1>1, FrameInit, FrameStep, PTL DEF Spec

-----------------------------------------------------------------------------
(* The order of the rows *)

\* What R has received lies before the cursor.
Behind == \A i \in 1..Len(Delivered) : Precedes(Delivered[i], CurrentRow(cur))

InOrder == "rewound" \notin trouble => NoRowTwice /\ Behind

\* The row a cursor is on is a pair of numbers.
LEMMA CurrentRowInt ==
  ASSUME NEW r \in Cursor
  PROVE  CurrentRow(r) \in Int \X Int
BY DEF CurrentRow, Cursor

\* What has been delivered is a sequence of rows.
LEMMA DeliveredType ==
  ASSUME TypeOK
  PROVE  /\ got \in Seq(RowId) /\ out \in Seq(RowId)
         /\ Delivered \in Seq(RowId) /\ Len(Delivered) = Len(got) + Len(out)
         /\ Len(got) \in Nat /\ Len(out) \in Nat /\ Len(Delivered) \in Nat
         /\ \A i \in 1..Len(got) : Delivered[i] = got[i]
         /\ \A i \in 1..Len(Delivered) : Delivered[i] \in Int \X Int
<1>1. got \in Seq(RowId) /\ out \in Seq(RowId)
  BY DEF TypeOK, RowId
<1>2. Delivered \in Seq(RowId) /\ Len(Delivered) = Len(got) + Len(out)
  BY <1>1 DEF Delivered
<1>3. \A i \in 1..Len(Delivered) : Delivered[i] \in RowId
  BY <1>2
<1>4. \A i \in 1..Len(got) : Delivered[i] = got[i]
  BY <1>1 DEF Delivered
<1> QED
  BY <1>1, <1>2, <1>3, <1>4 DEF RowId

\* How the steps change what has been delivered: they keep it, add the row of the cursor to it,
\* or drop the rows of a fetch that fails.
LEMMA DeliveredNext ==
  ASSUME TypeOK, TypeOK', Room
  PROVE  /\ got' = got /\ out' = out => Delivered' = Delivered
         /\ got' = got /\ out' = <<>> => /\ Len(Delivered') = Len(got)
                                       /\ \A i \in 1..Len(got) : Delivered'[i] = Delivered[i]
         /\ got' = got /\ out' = <<>> /\ ~busy => Delivered' = Delivered
         /\ got' = got \o out /\ out' = <<>> => Delivered' = Delivered
         /\ got' = <<>> /\ out' = <<>> => Len(Delivered') = 0
         /\ got' = got /\ out' = Append(out, CurrentRow(cur)) /\ CurrentRow(cur) \in RowId =>
              /\ Len(Delivered') = Len(Delivered) + 1
              /\ \A i \in 1..Len(Delivered) : Delivered'[i] = Delivered[i]
              /\ Delivered'[Len(Delivered) + 1] = CurrentRow(cur)
<1>1. /\ got \in Seq(RowId) /\ out \in Seq(RowId) /\ Len(got) \in Nat /\ Len(out) \in Nat
      /\ Len(Delivered) = Len(got) + Len(out)
  BY DeliveredType
<1>2. got' = got /\ out' = <<>> => Delivered' = got
  BY <1>1 DEF Delivered
<1>3. got' = got /\ out' = <<>> /\ ~busy => Delivered' = Delivered
  BY <1>1 DEF Delivered, Room
<1>4. got' = got \o out /\ out' = <<>> => Delivered' = Delivered
  <2>1. got \o out \in Seq(RowId)
    BY <1>1
  <2>2. (got \o out) \o <<>> = got \o out
    BY <2>1
  <2> QED
    BY <2>2 DEF Delivered
<1>5. got' = <<>> /\ out' = <<>> => Len(Delivered') = 0
  BY DEF Delivered
<1>6. ASSUME got' = got, out' = Append(out, CurrentRow(cur)), CurrentRow(cur) \in RowId
      PROVE  /\ Len(Delivered') = Len(Delivered) + 1
             /\ \A i \in 1..Len(Delivered) : Delivered'[i] = Delivered[i]
             /\ Delivered'[Len(Delivered) + 1] = CurrentRow(cur)
  <2> DEFINE row == CurrentRow(cur)
  <2>1. Delivered' = got \o Append(out, row)
    BY <1>6 DEF Delivered
  <2>2. Append(out, row) \in Seq(RowId) /\ Len(Append(out, row)) = Len(out) + 1
    BY <1>1, <1>6
  <2>3. Len(Delivered') = Len(Delivered) + 1
    BY <1>1, <2>1, <2>2
  <2>4. Delivered'[Len(Delivered) + 1] = row
    BY <1>1, <1>6, <2>1, <2>2
  <2>5. ASSUME NEW i \in 1..Len(Delivered)
        PROVE  Delivered'[i] = Delivered[i]
    <3>1. CASE i <= Len(got)
      BY <1>1, <2>1, <2>2, <3>1 DEF Delivered
    <3>2. CASE i > Len(got)
      <4>1. Delivered'[i] = Append(out, row)[i - Len(got)]
        BY <1>1, <2>1, <2>2, <3>2
      <4>2. Delivered[i] = out[i - Len(got)] /\ i - Len(got) \in 1..Len(out)
        BY <1>1, <3>2 DEF Delivered
      <4> QED
        BY <1>1, <4>1, <4>2
    <3> QED
      BY <1>1, <3>1, <3>2
  <2> QED
    BY <2>3, <2>4, <2>5
<1>7. got' = got /\ out' = <<>> => Len(Delivered') = Len(got)
         /\ \A i \in 1..Len(got) : Delivered'[i] = Delivered[i]
  BY <1>2, DeliveredType
<1> QED
  BY <1>3, <1>4, <1>5, <1>6, <1>7 DEF Delivered

\* A step that delivers nothing new and does not move the cursor back keeps the order.
LEMMA OrderKept ==
  ASSUME TypeOK, TypeOK', InOrder, "rewound" \notin trouble' => "rewound" \notin trouble,
         Len(Delivered') <= Len(Delivered),
         \A i \in 1..Len(Delivered') : Delivered'[i] = Delivered[i],
         PrecedesOrIs(CurrentRow(cur), CurrentRow(cur'))
  PROVE  InOrder'
<1> SUFFICES ASSUME "rewound" \notin trouble' PROVE NoRowTwice' /\ Behind'
  BY DEF InOrder
<1>1. NoRowTwice /\ Behind /\ "rewound" \notin trouble
  BY DEF InOrder
<1>2. Len(Delivered) \in Nat /\ Len(Delivered') \in Nat
  BY DeliveredType
<1>3. cur \in Cursor /\ cur' \in Cursor
  BY DEF TypeOK, Cursor
<1>4. NoRowTwice'
  <2> SUFFICES ASSUME NEW i \in 1..Len(Delivered'), NEW j \in 1..Len(Delivered'), i < j
               PROVE  Precedes(Delivered'[i], Delivered'[j])
    BY DEF NoRowTwice, Precedes
  <2>1. i \in 1..Len(Delivered) /\ j \in 1..Len(Delivered)
    BY <1>2
  <2> QED
    BY <1>1, <2>1 DEF NoRowTwice
<1>5. Behind'
  <2> SUFFICES ASSUME NEW i \in 1..Len(Delivered')
               PROVE  Precedes(Delivered'[i], CurrentRow(cur'))
    BY DEF Behind, CurrentRow, Precedes
  <2>1. i \in 1..Len(Delivered)
    BY <1>2
  <2>2. Precedes(Delivered[i], CurrentRow(cur)) /\ Delivered[i] \in Int \X Int
    BY <1>1, <2>1, DeliveredType DEF Behind
  <2>3. CurrentRow(cur) \in Int \X Int /\ CurrentRow(cur') \in Int \X Int
    BY <1>3, CurrentRowInt
  <2>4. Precedes(Delivered[i], CurrentRow(cur'))
    BY <2>2, <2>3, PrecedesOrder
  <2> QED
    BY <2>4
<1> QED
  BY <1>4, <1>5

\* Every step keeps the rows in order.
LEMMA OrderStep == FrameInv /\ FrameInv' /\ InOrder /\ [Steps]_vars => InOrder'
<1> SUFFICES ASSUME FrameInv, FrameInv', InOrder, [Steps]_vars PROVE InOrder'
  OBVIOUS
<1>t. /\ TypeOK /\ TypeOK' /\ Room /\ Room' /\ CursorOK(cur)
      /\ sets \in ResultSets /\ cur \in Cursor
  BY DEF FrameInv, TypeOK, Cursor
<1>n. Len(got) \in Nat /\ Len(Delivered) \in Nat /\ Len(got) <= Len(Delivered)
  BY <1>t, DeliveredType
<1>a. CASE Bind
  <2>1. Len(Delivered') = 0
    BY <1>a, <1>t, DeliveredNext DEF Bind, Executed, Room
  <2> QED
    BY <2>1 DEF InOrder, NoRowTwice, Behind
<1>b. CASE BindRejected \/ BindEmpty
  <2>1. cur' = cur /\ got' = got /\ out' = out /\ trouble \subseteq trouble'
    BY <1>b DEF BindRejected, BindEmpty
  <2> QED
    BY <1>t, <1>n, <2>1, DeliveredNext, OrderKept DEF PrecedesOrIs
<1>c. CASE BindFailed
  <2>1. got' = got /\ out' = out /\ trouble \subseteq trouble'
    BY <1>c DEF BindFailed
  <2>2. PrecedesOrIs(CurrentRow(cur), CurrentRow(cur'))
    <3>1. CASE cur' = [cur EXCEPT !.closed = TRUE]
      <4>1. cur'.set = cur.set /\ cur'.sent = cur.sent /\ cur'.count = cur.count /\ cur'.pos = cur.pos
        BY <1>t, <3>1 DEF Cursor
      <4> QED
        BY <4>1 DEF CurrentRow, PrecedesOrIs
    <3>2. ASSUME NEW cols \in BOOLEAN,
                 cur' = [cur EXCEPT !.cols = cols, !.closed = TRUE, !.count = 0, !.pos = 0]
          PROVE  PrecedesOrIs(CurrentRow(cur), CurrentRow(cur'))
      <4>1. cur'.set = cur.set /\ cur'.sent = cur.sent /\ cur'.count = 0 /\ cur'.pos = 0
        BY <1>t, <3>2 DEF Cursor
      <4>2. /\ cur.sent \in Nat /\ cur.count \in Nat /\ cur.pos \in Nat /\ cur.set \in Nat
            /\ cur.pos <= cur.count
        BY <1>t DEF Cursor, CursorOK
      <4>3. \/ cur.sent - cur.count + cur.pos + 1 < cur.sent - 0 + 0 + 1
            \/ cur.sent - cur.count + cur.pos + 1 = cur.sent - 0 + 0 + 1
        BY <4>2
      <4> QED
        BY <4>1, <4>2, <4>3 DEF CurrentRow, PrecedesOrIs, Precedes
    <3> QED
      BY <1>c, <3>1, <3>2 DEF BindFailed
  <2> QED
    BY <1>t, <1>n, <2>1, <2>2, DeliveredNext, OrderKept
<1>e. CASE FetchBegin
  <2>1. ~busy /\ got' = got /\ out' = <<>> /\ trouble' = trouble /\ (cur' = cur \/ cur' = Advance(cur))
    BY <1>e DEF FetchBegin
  <2>2. PrecedesOrIs(CurrentRow(cur), CurrentRow(cur'))
    BY <1>t, <2>1, AdvanceCursor DEF PrecedesOrIs
  <2> QED
    BY <1>t, <1>n, <2>1, <2>2, DeliveredNext, OrderKept
<1>f. CASE FetchTooLarge \/ FetchError
  <2>1. cur' = cur /\ got' = got /\ out' = <<>> /\ trouble \subseteq trouble'
    BY <1>f DEF FetchTooLarge, FetchError, Dropped
  <2> QED
    BY <1>t, <1>n, <2>1, DeliveredNext, OrderKept DEF PrecedesOrIs
<1>g. CASE FetchRow
  <2>1. /\ Copying /\ out' = Append(out, CurrentRow(cur)) /\ cur' = Advance(cur)
        /\ got' = got /\ trouble' = trouble
    BY <1>g DEF FetchRow
  <2>2. OnRow(cur) /\ CurrentRow(cur) \in RowId
    BY <1>t, <2>1, GrownFits, CurrentRowType
  <2>3. Precedes(CurrentRow(cur), CurrentRow(cur'))
    BY <1>t, <2>1, <2>2, AdvanceCursor
  <2>4. /\ Len(Delivered') = Len(Delivered) + 1
        /\ \A i \in 1..Len(Delivered) : Delivered'[i] = Delivered[i]
        /\ Delivered'[Len(Delivered) + 1] = CurrentRow(cur)
    BY <1>t, <2>1, <2>2, DeliveredNext
  <2> SUFFICES ASSUME "rewound" \notin trouble' PROVE NoRowTwice' /\ Behind'
    BY DEF InOrder
  <2>5. NoRowTwice /\ Behind
    BY <2>1 DEF InOrder
  <2>6. NoRowTwice'
    <3> SUFFICES ASSUME NEW i \in 1..Len(Delivered'), NEW j \in 1..Len(Delivered'), i < j
                 PROVE  Precedes(Delivered'[i], Delivered'[j])
      BY DEF NoRowTwice, Precedes
    <3>1. i \in 1..Len(Delivered)
      BY <1>n, <2>4
    <3>2. CASE j \in 1..Len(Delivered)
      BY <2>1, <2>4, <2>5, <3>1, <3>2 DEF NoRowTwice
    <3>3. CASE j = Len(Delivered) + 1
      BY <2>4, <2>5, <3>1, <3>3 DEF Behind
    <3> QED
      BY <1>n, <2>4, <3>2, <3>3
  <2>7. Behind'
    <3> SUFFICES ASSUME NEW i \in 1..Len(Delivered')
                 PROVE  Precedes(Delivered'[i], CurrentRow(cur'))
      BY DEF Behind, CurrentRow, Precedes
    <3>1. CASE i \in 1..Len(Delivered)
      <4>1. Precedes(Delivered[i], CurrentRow(cur)) /\ Delivered[i] \in Int \X Int
        BY <1>t, <2>5, <3>1, DeliveredType DEF Behind
      <4>2. cur' \in Cursor
        BY <1>t DEF TypeOK, Cursor
      <4>3. CurrentRow(cur) \in Int \X Int /\ CurrentRow(cur') \in Int \X Int
        BY <1>t, <4>2, CurrentRowInt
      <4>4. Precedes(Delivered[i], CurrentRow(cur'))
        BY <2>3, <4>1, <4>3, PrecedesOrder
      <4> QED
        BY <2>4, <3>1, <4>4
    <3>2. CASE i = Len(Delivered) + 1
      BY <2>3, <2>4, <3>2
    <3> QED
      BY <1>n, <2>4, <3>1, <3>2
  <2> QED
    BY <2>6, <2>7
<1>h. CASE FetchBroken
  <2>1. Copying /\ cur' = Next(cur) /\ got' = got /\ out' = <<>> /\ trouble \subseteq trouble'
    BY <1>h DEF FetchBroken, Dropped
  <2>2. PrecedesOrIs(CurrentRow(cur), CurrentRow(cur'))
    BY <1>t, <2>1, GrownFits, NextCursor
  <2> QED
    BY <1>t, <1>n, <2>1, <2>2, DeliveredNext, OrderKept
<1>j. CASE FetchMoveError
  <2>1. /\ cur' = [cur EXCEPT !.pos = 0] /\ got' = got /\ out' = <<>>
        /\ trouble \subseteq trouble' /\ (cur.pos > 0 => "rewound" \in trouble')
    BY <1>j DEF FetchMoveError, Dropped
  <2>2. CASE cur.pos > 0
    BY <2>1, <2>2 DEF InOrder
  <2>3. CASE ~(cur.pos > 0)
    <3>1. cur.pos = 0
      BY <1>t, <2>3 DEF Cursor
    <3>2. CurrentRow(cur') = CurrentRow(cur)
      BY <1>t, <2>1, <3>1 DEF CurrentRow, Cursor
    <3> QED
      BY <1>t, <1>n, <2>1, <3>2, DeliveredNext, OrderKept DEF PrecedesOrIs
  <2> QED
    BY <2>2, <2>3
<1>k. CASE FetchReturn
  <2>1. cur' = cur /\ got' = got \o out /\ out' = <<>> /\ trouble' = trouble
    BY <1>k DEF FetchReturn, Dropped
  <2> QED
    BY <1>t, <1>n, <2>1, DeliveredNext, OrderKept DEF PrecedesOrIs
<1>l. CASE UNCHANGED vars
  <2>1. cur' = cur /\ got' = got /\ out' = out /\ trouble' = trouble
    BY <1>l DEF vars
  <2> QED
    BY <1>t, <1>n, <2>1, DeliveredNext, OrderKept DEF PrecedesOrIs
<1> QED
  BY <1>a, <1>b, <1>c, <1>e, <1>f, <1>g, <1>h, <1>j, <1>k, <1>l
     DEF Steps, FetchLoop, FetchNothing

\* Whatever fails, is interrupted or is rejected, the rows of an execution reach R in the
\* driver's order and none twice, unless a failed SQLFetchScroll started a rowset again.
THEOREM FetchOrder == Spec => []NoRowTwice
<1>1. Init => InOrder
  BY DEF Init, InOrder, NoRowTwice, Behind, Delivered
<1>2. InOrder => NoRowTwice
  BY DEF InOrder, NoRowTwice
<1> QED
  BY <1>1, <1>2, FrameInit, FrameStep, OrderStep, PTL DEF Spec

-----------------------------------------------------------------------------
(* The rows between the first and the cursor *)

\* Without trouble the cursor divides the rows into the delivered ones and the others.
Divides ==
  /\ \A i \in 1..Len(Delivered) : Delivered[i] \in AllRows
  /\ \A x \in AllRows : x \in DeliveredRows <=> Precedes(x, CurrentRow(cur))

Smooth ==
  trouble = {} =>
    /\ ~cur.closed
    /\ bound => (cur.cols <=> sets[1] # NoColumns)
    /\ rowsFetched = Len(Delivered)
    /\ complete => cur.set = Len(sets) + 1
    /\ rowsFetched = 0 /\ ~(busy /\ nmax # 0) => cur.count = 0
    /\ Divides

\* Every step keeps Smooth.
LEMMA SmoothStep == FrameInv /\ FrameInv' /\ Smooth /\ [Steps]_vars => Smooth'
<1> SUFFICES ASSUME FrameInv, FrameInv', Smooth, [Steps]_vars, trouble' = {} PROVE Smooth'
  BY DEF Smooth
<1>t. /\ TypeOK /\ TypeOK' /\ Room /\ CursorOK(cur)
      /\ sets \in ResultSets /\ cur \in Cursor
      /\ rowsFetched \in Nat /\ nmax \in Int /\ frame \in Nat
  BY DEF FrameInv, TypeOK, Cursor
<1>n. /\ Len(got) \in Nat /\ Len(out) \in Nat /\ Len(Delivered) \in Nat
      /\ Len(Delivered) = Len(got) + Len(out)
  BY <1>t, DeliveredType
<1>a. CASE Bind
  <2>1. PICK ss \in ResultSets, b \in 1..MaxSets :
          /\ sets' = ss
          /\ cur' = NewResult(ss, LastBatch(Len(ss), b), LastSize(Len(ss), b))
          /\ trouble' = IF b < Len(ss) THEN {"split"} ELSE {}
    BY <1>a DEF Bind
  <2>2. Len(ss) \in 1..MaxSets /\ Len(ss) \in Nat \ {0} /\ b \in Nat \ {0} /\ b >= Len(ss)
    BY <2>1, SetsType
  <2>3. LastBatch(Len(ss), b) = 1
    BY <2>2, LastBatchType
  <2>4. /\ cur'.set = 1 /\ cur'.sent = 0 /\ cur'.count = 0 /\ cur'.pos = 0
        /\ cur'.closed = FALSE /\ (cur'.cols <=> sets'[1] # NoColumns)
    BY <2>1, <2>3 DEF NewResult
  <2>5. Len(Delivered') = 0
    BY <1>a, <1>t, DeliveredNext DEF Bind, Executed, Room
  <2>6. Divides'
    <3>1. CurrentRow(cur') = <<1, 1>>
      BY <2>4 DEF CurrentRow
    <3>2. DeliveredRows' = {}
      BY <2>5 DEF DeliveredRows
    <3>3. (\A x \in AllRows : ~Precedes(x, CurrentRow(cur)))'
      BY <3>1 DEF AllRows, Precedes, CurrentRow
    <3> QED
      BY <2>5, <3>2, <3>3 DEF Divides
  <2>7. complete' = FALSE /\ rowsFetched' = 0
    BY <1>a DEF Bind, Executed
  <2> QED
    BY <2>4, <2>5, <2>6, <2>7 DEF Smooth
<1>e. CASE FetchBegin
  <2>1. PICK n \in Chunks :
          /\ nmax' = n
          /\ IF rowsFetched = 0 /\ n # 0
             THEN complete' = AtEnd(cur) /\ cur' = Advance(cur)
             ELSE UNCHANGED <<complete, cur>>
    BY <1>e DEF FetchBegin
  <2>2. /\ ~busy /\ busy' = TRUE /\ out' = <<>> /\ sets' = sets /\ bound' = bound
        /\ rowsFetched' = rowsFetched /\ got' = got /\ trouble' = trouble
    BY <1>e DEF FetchBegin
  <2>3. /\ ~cur.closed /\ (bound => (cur.cols <=> sets[1] # NoColumns))
        /\ rowsFetched = Len(Delivered) /\ (complete => cur.set = Len(sets) + 1)
        /\ (rowsFetched = 0 => cur.count = 0) /\ Divides
    BY <2>2 DEF Smooth
  <2>4. Delivered' = Delivered /\ DeliveredRows' = DeliveredRows /\ AllRows' = AllRows
    BY <1>t, <2>2, DeliveredNext, SameSets DEF DeliveredRows
  <2>5. CASE rowsFetched = 0 /\ n # 0
    <3>1. complete' = AtEnd(cur) /\ cur' = Advance(cur) /\ cur.count = 0
      BY <2>1, <2>3, <2>5
    <3>2. /\ cur'.closed = cur.closed /\ cur'.cols = cur.cols
          /\ complete' => cur'.set = Len(sets) + 1
      BY <1>t, <3>1, AdvanceCursor
    <3>3. \A x \in AllRows : x \in DeliveredRows <=> Precedes(x, CurrentRow(cur'))
      BY <1>t, <2>3, <3>1, AdvanceRows DEF Divides
    <3>4. Divides'
      BY <2>3, <2>4, <3>3 DEF Divides, CurrentRow, Precedes
    <3> QED
      BY <2>1, <2>2, <2>3, <2>4, <2>5, <3>2, <3>4 DEF Smooth
  <2>6. CASE ~(rowsFetched = 0 /\ n # 0)
    <3>1. complete' = complete /\ cur' = cur
      BY <2>1, <2>6
    <3>2. Divides'
      BY <2>3, <2>4, <3>1 DEF Divides, CurrentRow, Precedes
    <3> QED
      BY <2>1, <2>2, <2>3, <2>4, <2>6, <3>1, <3>2 DEF Smooth
  <2> QED
    BY <2>5, <2>6
<1>g. CASE FetchRow
  <2>1. /\ Copying /\ out' = Append(out, CurrentRow(cur)) /\ cur' = Advance(cur)
        /\ got' = got /\ trouble' = trouble /\ sets' = sets /\ bound' = bound
        /\ rowsFetched' = rowsFetched + 1 /\ complete' = AtEnd(cur)
    BY <1>g DEF FetchRow
  <2>2. OnRow(cur) /\ CurrentRow(cur) \in RowId /\ CurrentRow(cur) \in AllRows
    BY <1>t, <2>1, GrownFits, CurrentRowType
  <2>3. /\ ~cur.closed /\ (bound => (cur.cols <=> sets[1] # NoColumns))
        /\ rowsFetched = Len(Delivered) /\ Divides
    BY <2>1 DEF Smooth
  <2>4. /\ Len(Delivered') = Len(Delivered) + 1
        /\ \A i \in 1..Len(Delivered) : Delivered'[i] = Delivered[i]
        /\ Delivered'[Len(Delivered) + 1] = CurrentRow(cur)
    BY <1>t, <2>1, <2>2, DeliveredNext
  <2>5. 1..Len(Delivered') = (1..Len(Delivered)) \cup {Len(Delivered) + 1}
    BY <1>n, <2>4
  <2>6. DeliveredRows' = DeliveredRows \cup {CurrentRow(cur)}
    BY <2>4, <2>5 DEF DeliveredRows
  <2>7. /\ cur'.closed = cur.closed /\ cur'.cols = cur.cols
        /\ complete' => cur'.set = Len(sets) + 1
    BY <1>t, <2>1, AdvanceCursor
  <2>8. \A x \in AllRows : x \in DeliveredRows' <=> Precedes(x, CurrentRow(cur'))
    <3> SUFFICES ASSUME NEW x \in AllRows
                 PROVE  x \in DeliveredRows' <=> Precedes(x, CurrentRow(cur'))
      OBVIOUS
    <3>1. Precedes(x, CurrentRow(cur')) <=> Precedes(x, CurrentRow(cur)) \/ x = CurrentRow(cur)
      BY <1>t, <2>1, <2>2, <2>3, AdvanceRows
    <3>2. x \in DeliveredRows <=> Precedes(x, CurrentRow(cur))
      BY <2>3 DEF Divides
    <3> QED
      BY <2>6, <3>1, <3>2
  <2>9. Divides'
    <3>1. AllRows' = AllRows
      BY <2>1, SameSets
    <3>2. \A i \in 1..Len(Delivered') : Delivered'[i] \in AllRows
      BY <2>2, <2>3, <2>4, <2>5 DEF Divides
    <3> QED
      BY <2>8, <3>1, <3>2 DEF Divides, CurrentRow, Precedes
  <2> QED
    BY <1>n, <1>t, <2>1, <2>3, <2>4, <2>7, <2>9 DEF Smooth
<1>k. CASE FetchReturn
  <2>1. /\ busy /\ (complete \/ Full) /\ cur' = cur /\ got' = got \o out /\ out' = <<>>
        /\ trouble' = trouble /\ sets' = sets /\ bound' = bound /\ rowsFetched' = rowsFetched
        /\ complete' = complete /\ nmax' = nmax /\ busy' = FALSE
    BY <1>k DEF FetchReturn, Dropped
  <2>2. /\ ~cur.closed /\ (bound => (cur.cols <=> sets[1] # NoColumns))
        /\ rowsFetched = Len(Delivered) /\ (complete => cur.set = Len(sets) + 1) /\ Divides
        /\ (rowsFetched = 0 /\ nmax = 0 => cur.count = 0)
    BY <2>1 DEF Smooth
  <2>3. Delivered' = Delivered /\ DeliveredRows' = DeliveredRows /\ AllRows' = AllRows
    BY <1>t, <2>1, DeliveredNext, SameSets DEF DeliveredRows
  <2>4. Divides'
    BY <2>1, <2>2, <2>3 DEF Divides, CurrentRow, Precedes
  <2>5. ASSUME rowsFetched = 0 PROVE cur.count = 0
    <3>1. CASE complete
      BY <1>t, <2>2, <3>1 DEF CursorOK, DriverOK, Cursor
    <3>2. CASE ~complete
      <4>1. ~Unlimited /\ Len(out) >= frame /\ frame = nmax /\ Len(out) = 0
        BY <1>n, <1>t, <2>1, <2>2, <2>5, <3>2 DEF Full, NoRoom, Room
      <4>2. nmax = 0
        BY <1>t, <4>1 DEF Unlimited
      <4> QED
        BY <2>2, <2>5, <4>2
    <3> QED
      BY <3>1, <3>2
  <2> QED
    BY <2>1, <2>2, <2>3, <2>4, <2>5 DEF Smooth
<1>l. CASE UNCHANGED vars
  BY <1>l DEF vars, Smooth, Divides, Delivered, DeliveredRows, AllRows, RowsOf, CurrentRow, Precedes
<1>m. CASE BindRejected \/ BindFailed \/ BindEmpty \/ FetchTooLarge \/ FetchBroken \/ FetchError
           \/ FetchMoveError
  <2>1. "failed" \in trouble'
    BY <1>m DEF BindRejected, BindFailed, BindEmpty, FetchTooLarge, FetchBroken, FetchError,
                FetchMoveError
  <2> QED
    BY <2>1
<1> QED
  BY <1>a, <1>e, <1>g, <1>k, <1>l, <1>m DEF Steps, FetchLoop, FetchNothing

\* Smooth holds after dbSendQuery().
LEMMA SmoothInit == Init => Smooth
<1> SUFFICES ASSUME Init PROVE Smooth
  OBVIOUS
<1>1. /\ cur.set = 1 /\ cur.sent = 0 /\ cur.count = 0 /\ cur.pos = 0 /\ cur.closed = FALSE
      /\ bound => (cur.cols <=> sets[1] # NoColumns)
  BY DEF Init, NewResult
<1>2. Len(Delivered) = 0 /\ DeliveredRows = {}
  BY DEF Init, Delivered, DeliveredRows
<1>3. \A x \in AllRows : ~Precedes(x, CurrentRow(cur))
  BY <1>1 DEF AllRows, Precedes, CurrentRow
<1>4. Divides
  BY <1>2, <1>3 DEF Divides
<1> QED
  BY <1>1, <1>2, <1>4 DEF Init, Smooth

\* What Smooth says of the rows R has, and of dbHasCompleted() and dbGetRowCount().
LEMMA SmoothExact == FrameInv /\ Smooth => NoRowSkipped /\ CompleteIsExact
<1> SUFFICES ASSUME FrameInv, Smooth, trouble = {} PROVE NoRowSkipped /\ CompleteIsExact
  BY DEF NoRowSkipped, CompleteIsExact
<1>t. TypeOK /\ CursorOK(cur) /\ sets \in ResultSets /\ cur \in Cursor /\ rowsFetched \in Nat
  BY DEF FrameInv, TypeOK, Cursor
<1>1. /\ bound => (cur.cols <=> sets[1] # NoColumns)
      /\ rowsFetched = Len(Delivered) /\ (complete => cur.set = Len(sets) + 1) /\ Divides
  BY DEF Smooth
<1>2. DeliveredRows \subseteq AllRows
  BY <1>1 DEF Divides, DeliveredRows
<1>3. CurrentRow(cur) \in Int \X Int
  BY <1>t, CurrentRowInt
<1>4. ASSUME NEW x \in AllRows PROVE x \in Int \X Int
  BY SetsType, <1>t DEF AllRows
<1>5. NoRowSkipped
  <2> SUFFICES ASSUME NEW x \in AllRows, NEW y \in DeliveredRows, Precedes(x, y)
               PROVE  x \in DeliveredRows
    BY DEF NoRowSkipped
  <2>1. Precedes(y, CurrentRow(cur)) /\ x \in Int \X Int /\ y \in Int \X Int
    BY <1>1, <1>2, <1>4 DEF Divides
  <2>2. Precedes(x, CurrentRow(cur))
    BY <1>3, <2>1, PrecedesOrder
  <2> QED
    BY <1>1, <2>2 DEF Divides
<1>6. ASSUME bound, sets[1] # NoColumns, HasCompleted PROVE AllRows = DeliveredRows
  <2>1. cur.set = Len(sets) + 1
    BY <1>1, <1>6 DEF HasCompleted
  <2>2. \A x \in AllRows : Precedes(x, CurrentRow(cur))
    BY <1>t, <2>1, SetsType DEF AllRows, Precedes, CurrentRow
  <2> QED
    BY <1>1, <1>2, <2>2 DEF Divides
<1>7. ASSUME rowsFetched > 0, AllRows = DeliveredRows PROVE HasCompleted
  <2> SUFFICES ASSUME ~complete PROVE FALSE
    BY DEF HasCompleted
  <2>1. OnRow(cur)
    BY <1>7 DEF FrameInv, Reading
  <2>2. CurrentRow(cur) \in AllRows
    BY <1>t, <2>1, CurrentRowType
  <2>3. ~Precedes(CurrentRow(cur), CurrentRow(cur))
    BY <1>3, PrecedesOrder
  <2> QED
    BY <1>1, <1>7, <2>2, <2>3 DEF Divides
<1> QED
  BY <1>1, <1>5, <1>6, <1>7 DEF CompleteIsExact

\* Without trouble no row is skipped, however the fetches are cut into chunks, the rows into
\* rowsets, and whichever result sets are empty or have no columns.
THEOREM FetchNoGap == Spec => []NoRowSkipped
BY FrameInit, FrameStep, SmoothInit, SmoothStep, SmoothExact, PTL DEF Spec

\* Without trouble, that is without batches, failures and rejected calls, dbHasCompleted() and
\* dbGetRowCount() are exact, for a query whose first result set has columns.
THEOREM FetchComplete == Spec => []CompleteIsExact
BY FrameInit, FrameStep, SmoothInit, SmoothStep, SmoothExact, PTL DEF Spec
=============================================================================
