--------------------------- MODULE ReadCellsProofs ---------------------------
(***************************************************************************)
(* Theorems about ReadCells for any column lists, any sizes of rowsets,    *)
(* cells and buffers, and any of the faults.                               *)
(***************************************************************************)
EXTENDS ReadCells, TLAPS

RTypes == {"logical", "integer", "double", "string", "integer64", "date", "time", "datetime",
           "ustring", "raw"}
Values == [form : {"na", "value", "other"}, len : Int]

\* The loop is on a row of the rowset, and has copied the columns before the next one.
OnRow ==
  /\ copied \in Seq(Values) /\ Len(copied) = IF col = 0 THEN 0 ELSE col - 1
  /\ col >= 1 => pos < Len(cells)
  /\ phase = "ready" => col <= 1

Shape ==
  /\ TypeOK
  /\ cells \in Seq(Row(cols))
  /\ types \in Seq(RTypes)
  /\ OnRow

\* A column that is read with SQLGetData is behind the loop, unless the row is copied again.
Behind == rowset = 1 /\ "again" \notin trouble => \A c \in read : c < col

\* An indicator that is set tells of a NULL, for columns with a buffer, and for all of them
\* where the row of the rowset is the row of the driver's cursor and SQLGetData is new to it ...
NullsTrue ==
  \A p \in 0..(Len(cells) - 1), c \in 1..Len(cols) :
    /\ <<p, c>> \in nulls
    /\ c \in bound \/ (rowset = 1 /\ "again" \notin trouble)
    => cells[p + 1][c] = Null
\* ... and every NULL of a column with a buffer has its indicator set.
NullsKnown ==
  \A p \in 0..(Len(cells) - 1), c \in bound : cells[p + 1][c] = Null => <<p, c>> \in nulls

CellsInv == Shape /\ Behind /\ NullsTrue /\ NullsKnown /\ CellsWhole /\ TextWhole

\* In the loop the columns with a buffer come first, for a driver that needs it.
BoundFirst ==
  ~get_data_any_order /\ phase = "fetch" /\ "later" \notin trouble /\ "unbind" \notin trouble
    => \A c \in bound : c <= ncols => \A b \in 1..c : b \in bound

\* A row that is not yet copied has not been read.
Fresh == rowset = 1 /\ "again" \notin trouble /\ col <= 1 => ~unordered

OrderInv == BoundFirst /\ Fresh /\ GetDataInOrder

-----------------------------------------------------------------------------
(* Facts about the tables and the loop of SQLGetData *)

\* What a column is read as is one of its own C types' conversions.
LEMMA OwnReadable ==
  ASSUME NEW t \in SqlTypes, NEW m \in Mappings
  PROVE  Readable(RType(t, m), t)
<1>1. CASE t = "bigint"
  BY <1>1 DEF RType, Readable, CType, Mappings
<1>2. CASE t \in {"bit", "int", "double"}
  BY <1>2 DEF RType, Readable, CType
<1>3. CASE t \in {"date", "time", "timestamp", "tsoffset"}
  BY <1>3 DEF RType, Readable, CType
<1>4. CASE t \in {"char", "wchar", "longchar", "longwchar", "udt", "other"}
  BY <1>4 DEF RType, Readable, CType
<1>5. CASE t = "binary"
  BY <1>5 DEF RType, Readable, CType
<1> QED
  BY <1>1, <1>2, <1>3, <1>4, <1>5 DEF SqlTypes

\* The R types.
LEMMA RTypeType ==
  ASSUME NEW t \in SqlTypes, NEW m \in Mappings
  PROVE  RType(t, m) \in RTypes
BY DEF RType, RTypes, SqlTypes, Mappings

\* Every assign_ function writes what the class of its vector is taken for.
LEMMA Taken ==
  ASSUME NEW r \in RTypes
  PROVE  Assigned(r) = <<Vector(r), TakenFor(Class(r))>>
<1>1. CASE r \in {"integer", "logical", "double"}
  BY <1>1 DEF Assigned, Vector, TakenFor, Class
<1>2. CASE r \in {"integer64", "date", "datetime", "time"}
  BY <1>2 DEF Assigned, Vector, TakenFor, Class
<1>3. CASE r \in {"string", "ustring", "raw"}
  BY <1>3 DEF Assigned, Vector, TakenFor, Class
<1> QED
  BY <1>1, <1>2, <1>3 DEF RTypes

\* A value is whole when it is read as the column's own type; a BIGINT unless it is too long for
\* what it is mapped to.
LEMMA ConvertOwn ==
  ASSUME NEW t \in SqlTypes, NEW m \in Mappings, NEW n \in Nat,
         t = "bigint" => n <= Fitting[RType(t, m)]
  PROVE  Convert(RType(t, m), t, n) = Exact(n)
<1> DEFINE r == RType(t, m)
<1>1. r \in RTypes /\ Assigned(r) = <<Vector(r), TakenFor(Class(r))>>
  BY RTypeType, Taken
<1>2. Natural(r, t)
  BY DEF Natural
<1>3. Convert(r, t, n) = Exact(n)
  <2>1. CASE t = "bigint"
    <3>1. r = m
      BY <2>1 DEF RType
    <3>2. CASE m = "string"
      <4>1. n <= Fitting["string"]
        BY <2>1, <3>1, <3>2
      <4>2. Printed(t, n) = Exact(n)
        BY <2>1, <4>1 DEF Printed, CType, ColumnSize
      <4>3. r \in {"string", "ustring"} /\ t \in Printable /\ r \notin Mappings \ {"string"}
        BY <2>1, <3>1, <3>2 DEF Printable, Mappings
      <4> HIDE DEF r
      <4> QED
        BY <1>1, <2>1, <4>2, <4>3 DEF Convert
    <3>3. CASE m # "string"
      <4>1. FromBigint(r, n) = Exact(n)
        BY <2>1, <3>1 DEF FromBigint
      <4>2. r \in Mappings \ {"string"} /\ r \notin {"string", "ustring"}
        BY <3>1, <3>3 DEF Mappings
      <4> HIDE DEF r
      <4> QED
        BY <1>1, <2>1, <4>1, <4>2 DEF Convert
    <3> QED
      BY <3>2, <3>3
  <2>2. CASE t # "bigint"
    <3>1. ~(r \in {"string", "ustring"} /\ t \in Printable)
      BY <2>2 DEF RType, SqlTypes, Printable
    <3> HIDE DEF r
    <3> QED
      BY <1>1, <1>2, <2>2, <3>1 DEF Convert
  <2> QED
    BY <2>1, <2>2
<1> QED
  BY <1>3

\* A whole number, a date or a time that is read as text has all of its characters, as long as
\* the column size is said to be.
LEMMA ConvertText ==
  ASSUME NEW r \in {"string", "ustring"}, NEW t \in Printable \ {"double", "timestamp"},
         NEW n \in Lengths(t), t = "bigint" => n <= Fitting["string"]
  PROVE  Convert(r, t, n) = Exact(n)
<1>1. Assigned(r) = <<Vector(r), TakenFor(Class(r))>>
  BY Taken DEF RTypes
<1>2. Convert(r, t, n) = Printed(t, n)
  <2>1. r \notin Mappings \ {"string"} /\ ~(t # "bigint" /\ Natural(r, t))
    BY DEF Mappings, Natural, Printable, RType
  <2> QED
    BY <1>1, <2>1 DEF Convert
<1>3. CASE t = "bigint"
  BY <1>2, <1>3 DEF Printed, CType, ColumnSize
<1>4. CASE t \in {"bit", "int"}
  <2>1. n = 1
    BY <1>4 DEF Lengths
  <2> QED
    BY <1>2, <1>4, <2>1 DEF Printed, CType, ColumnSize
<1>5. CASE t \in {"date", "time"}
  BY <1>2, <1>5 DEF Printed, CType
<1> QED
  BY <1>3, <1>4, <1>5 DEF Printable

\* The pieces that SQLGetData brings make the whole value, unless pieces of bytes are lost.
LEMMA AssembledWhole ==
  ASSUME NEW r, NEW t \in SqlTypes, NEW n \in Nat,
         r = "raw" /\ noTotal => n <= Piece(t)
  PROVE  Assembled(r, t, n) = n
<1>1. Piece(t) \in Nat \ {0}
  BY BufferAssumption DEF Piece
<1>2. CASE n <= Piece(t)
  <2>1. FullCalls(t, n) = 0
    BY <1>2 DEF FullCalls
  <2> QED
    BY <1>1, <2>1 DEF Assembled
<1>3. CASE n > Piece(t)
  <2>1. (n - 1) \div Piece(t) \in Int
    BY <1>1
  <2>2. FullCalls(t, n) \in Int
    BY <1>1, <1>3, <2>1 DEF FullCalls
  <2> DEFINE x == FullCalls(t, n) * Piece(t)
  <2>3. x \in Int
    BY <1>1, <2>2
  <2>4. Assembled(r, t, n) = x + (n - x)
    BY <1>1, <1>3 DEF Assembled
  <2> HIDE DEF x
  <2> QED
    BY <2>3, <2>4
<1> QED
  BY <1>1, <1>2, <1>3

-----------------------------------------------------------------------------
(* Types *)

\* The columns of a layout.
LEMMA ColsType ==
  ASSUME NEW cs \in Layouts
  PROVE  /\ cs \in Seq(SqlTypes) /\ Len(cs) \in Nat
         /\ \A c \in 1..Len(cs) : cs[c] \in SqlTypes
BY LayoutsAssumption

\* The cells of a row.
LEMMA RowType ==
  ASSUME NEW cs \in Layouts, NEW f \in Row(cs), NEW c \in 1..Len(cs)
  PROVE  /\ f[c] \in Int /\ (f[c] # Null => f[c] \in Nat)
         /\ f[c] # Null => f[c] \in Lengths(cs[c])
<1>1. f[c] \in Lengths(cs[c]) \cup {Null}
  BY DEF Row
<1>2. Lengths(cs[c]) \subseteq Nat
  BY SizesAssumption, NumbersAssumption DEF Lengths
<1> QED
  BY <1>1, <1>2 DEF Null

\* The connection's settings.
LEMMA SettingsType ==
  ASSUME settings \in Settings
  PROVE  noTotal \in BOOLEAN /\ mapping \in Mappings
BY SettingsAssumption DEF settings

\* A converted value is a value.
LEMMA ConvertType ==
  ASSUME NEW r, NEW t, NEW n \in Int
  PROVE  Convert(r, t, n) \in Values
<1>1. Exact(n) \in Values /\ Spoilt(n) \in Values
  BY DEF Exact, Spoilt, Values
<1>2. ASSUME t \in Printable PROVE Printed(t, n) \in Values
  <2>1. CASE t \in {"bit", "int", "bigint"}
    <3>1. ColumnSize(t) \in Int /\ CType(t) = "sbigint"
      BY <2>1, LimitsAssumption DEF ColumnSize, CType, Mappings
    <3>2. Exact(ColumnSize(t)) \in Values
      BY <3>1 DEF Exact, Values
    <3>3. Printed(t, n) = Exact(IF n <= ColumnSize(t) THEN n ELSE ColumnSize(t))
      BY <2>1, <3>1 DEF Printed
    <3> QED
      BY <1>1, <3>2, <3>3
  <2>2. CASE t \in {"date", "time", "double", "timestamp"}
    BY <1>1, <2>2 DEF Printed, CType
  <2> QED
    BY <1>2, <2>1, <2>2 DEF Printable
<1>3. FromBigint(r, n) \in Values
  BY <1>1 DEF FromBigint
<1> QED
  BY <1>1, <1>2, <1>3 DEF Convert

\* The length of what SQLGetData has brought.
LEMMA AssembledType ==
  ASSUME NEW r, NEW t, NEW n \in Nat
  PROVE  Assembled(r, t, n) \in Int
<1>1. Piece(t) \in Nat \ {0}
  BY BufferAssumption DEF Piece
<1>2. (n - 1) \div Piece(t) \in Int
  BY <1>1
<1>3. FullCalls(t, n) \in Int
  BY <1>1, <1>2 DEF FullCalls
<1>4. FullCalls(t, n) * Piece(t) \in Int
  BY <1>1, <1>3
<1> QED
  BY <1>4 DEF Assembled

-----------------------------------------------------------------------------
(* The shape of the state *)

\* A new result object.
LEMMA StartShape ==
  ASSUME settings' \in Settings, NEW cs \in Layouts, NEW size \in 1..MaxRowset, Start(cs, size)
  PROVE  Shape'
<1> USE MaxRowsetAssumption DEF Start
<1>1. Len(cs) \in Nat
  BY ColsType
<1>2. AutoBind(cs) \subseteq 1..Len(cs)
  BY DEF AutoBind
<1>3. TypeOK'
  <2>1. /\ Len(cells') = 0 /\ Len(types') = 0
        /\ pos' \in 0..(MaxRowset - 1) /\ col' \in 0..(ncols' + 1)
    BY <1>1
  <2>2. \A p \in 1..Len(cells') : cells'[p] \in Row(cols)'
    BY <2>1
  <2>3. ncols' \in Nat /\ rowset' \in 1..MaxRowset /\ Len(cells') <= rowset'
    BY <1>1, <2>1
  <2>4. nulls' = {} /\ read' = {} /\ trouble' = {} /\ unordered' = FALSE /\ phase' = "ready" /\ cols' = cs
    OBVIOUS
  <2> QED
    BY <1>2, <2>1, <2>2, <2>3, <2>4 DEF TypeOK
<1>4. cells' \in Seq(Row(cols))' /\ types' \in Seq(RTypes) /\ OnRow'
  BY DEF OnRow
<1> QED
  BY <1>3, <1>4 DEF Shape

\* A new rowset, of the columns cs.
LEMMA FetchRowsetShape ==
  ASSUME Shape, NEW cs \in Layouts, NEW b \in SUBSET (1..Len(cs)), FetchRowset(cs, b),
         cols' = cs, bound' = b, phase' = phase, phase = "fetch", trouble' \subseteq Troubles,
         UNCHANGED <<settings, ncols, types, rowset>>
  PROVE  Shape'
<1>1. PICK k \in 1..rowset : \E rows \in [1..k -> Row(cs)], marks \in {{}, 1..Len(cs)} :
        /\ cells' = rows /\ nulls' = AfterMove(b, rows, marks)
  BY DEF FetchRowset
<1>2. PICK rows \in [1..k -> Row(cs)], marks \in {{}, 1..Len(cs)} :
        /\ cells' = rows /\ nulls' = AfterMove(b, rows, marks)
  BY <1>1
<1>3. pos' = 0 /\ col' = 1 /\ read' = {} /\ unordered' = FALSE /\ copied' = <<>>
  BY DEF FetchRowset
<1>4. rowset \in Nat /\ rowset >= 1 /\ rowset \in 1..MaxRowset /\ ncols \in Nat
  BY MaxRowsetAssumption DEF Shape, TypeOK
<1>5. cells' \in Seq(Row(cs)) /\ Len(cells') = k /\ k <= rowset
  BY <1>2, <1>4
<1>6. nulls' \subseteq (0..(rowset - 1)) \X (1..Len(cs))
  <2>1. nulls' \subseteq (0..(k - 1)) \X (b \cup marks)
    BY <1>2, <1>5 DEF AfterMove
  <2>2. 0..(k - 1) \subseteq 0..(rowset - 1)
    BY <1>4
  <2>3. b \cup marks \subseteq 1..Len(cs)
    BY <1>2, Zenon
  <2> QED
    BY <2>1, <2>2, <2>3
<1>7. TypeOK'
  <2>1. pos' \in 0..(MaxRowset - 1) /\ col' \in 0..(ncols' + 1)
    BY <1>3, <1>4, MaxRowsetAssumption
  <2>2. \A p \in 1..Len(cells') : cells'[p] \in Row(cs)
    BY <1>5
  <2> QED
    BY <1>3, <1>4, <1>5, <1>6, <2>1, <2>2 DEF Shape, TypeOK, settings, Row
<1>8. OnRow'
  BY <1>3, <1>4, <1>5 DEF OnRow
<1> QED
  BY <1>5, <1>7, <1>8 DEF Shape, Row

\* A cell is copied.
LEMMA CopyCellShape ==
  ASSUME Shape, AtCell, NEW v \in Values, CopyCell(v), read' \subseteq 1..Len(cols),
         nulls' \subseteq (0..(rowset - 1)) \X (1..Len(cols)), unordered' \in BOOLEAN
  PROVE  Shape'
<1> USE DEF CopyCell, AtCell
<1>1. col \in Nat /\ col >= 1 /\ col <= ncols /\ ncols \in Nat /\ phase = "fetch"
  BY DEF Shape, TypeOK
<1>2. copied \in Seq(Values) /\ Len(copied) = col - 1 /\ pos < Len(cells)
  BY <1>1 DEF Shape, OnRow
<1>3. copied' \in Seq(Values) /\ Len(copied') = col
  BY <1>1, <1>2
<1>4. OnRow'
  BY <1>1, <1>2, <1>3 DEF OnRow
<1>5. col' \in 0..(ncols' + 1)
  BY <1>1
<1>6. TypeOK'
  BY <1>5 DEF Shape, TypeOK, settings, Row
<1> QED
  BY <1>4, <1>6 DEF Shape, Row

\* A cell cannot be copied.
LEMMA CellThrowsShape ==
  ASSUME Shape, AtCell, CellThrows, read' \subseteq 1..Len(cols), unordered' \in BOOLEAN
  PROVE  Shape'
<1> USE DEF CellThrows, AtCell
<1>1. col \in Nat /\ col >= 1 /\ ncols \in Nat /\ ncols >= 1
  BY DEF Shape, TypeOK
<1>2. OnRow'
  BY <1>1 DEF OnRow, Shape
<1>3. col' \in 0..(ncols' + 1) /\ Len(types') = 0 /\ trouble' \subseteq Troubles
  BY <1>1 DEF Shape, TypeOK, Troubles
<1>4. TypeOK'
  BY <1>3 DEF Shape, TypeOK, settings, Row
<1> QED
  BY <1>2, <1>4 DEF Shape, Row

\* SQLGetData is called for a column of the row.
LEMMA CallGetDataShape ==
  ASSUME Shape, CallGetData
  PROVE  /\ AtCell /\ col \in 1..Len(cols) /\ col \notin bound
         /\ read' \subseteq 1..Len(cols) /\ unordered' \in BOOLEAN
BY DEF Shape, TypeOK, CallGetData

\* The state keeps its shape.
LEMMA ShapeStep ==
  ASSUME Shape, [Next]_vars
  PROVE  Shape'
<1> USE MaxRowsetAssumption
<1>c. cols \in Layouts /\ Len(cols) \in Nat /\ ncols \in Nat /\ rowset \in 1..MaxRowset
  BY ColsType DEF Shape, TypeOK
<1>n. AtCell /\ col <= Len(cols) => /\ col \in 1..Len(cols)
                                    /\ nulls \cup {<<pos, col>>} \subseteq (0..(rowset - 1)) \X (1..Len(cols))
  BY <1>c DEF Shape, TypeOK, AtCell, OnRow
<1>1. CASE Execute
  <2>1. settings' \in Settings
    BY <1>1 DEF Execute, Shape, TypeOK
  <2> QED
    BY <1>1, <2>1, StartShape DEF Execute
<1>2. CASE MoveInRowset
  <2> USE DEF MoveInRowset, RowDone
  <2>1. pos \in Nat /\ Len(cells) \in Nat /\ pos + 1 < Len(cells) /\ Len(cells) <= rowset /\ col > ncols
    BY <1>2, <1>c DEF Shape, TypeOK
  <2>2. pos' \in 0..(MaxRowset - 1) /\ col' \in 0..(ncols' + 1) /\ trouble' \subseteq Troubles
    BY <1>2, <1>c, <2>1 DEF Shape, TypeOK
  <2>3. TypeOK'
    BY <1>2, <2>2 DEF Shape, TypeOK, settings, Row
  <2>4. OnRow'
    BY <1>2, <2>1 DEF OnRow
  <2> QED
    BY <1>2, <2>3, <2>4 DEF Shape, Row
<1>3. CASE MoveRowset
  <2>1. bound \in SUBSET (1..Len(cols)) /\ trouble' \subseteq Troubles
    BY <1>3 DEF MoveRowset, Shape, TypeOK
  <2> QED
    BY <1>3, <1>c, <2>1, FetchRowsetShape DEF MoveRowset, RowDone
<1>4. CASE NextSet
  <2>1. PICK cs \in Layouts : cols' = cs /\ bound' = AutoBind(cs) /\ FetchRowset(cs, AutoBind(cs))
    BY <1>4 DEF NextSet
  <2>2. AutoBind(cs) \in SUBSET (1..Len(cs)) /\ trouble' \subseteq Troubles
    BY <1>4 DEF NextSet, AutoBind, Troubles
  <2> QED
    BY <1>4, <2>1, <2>2, FetchRowsetShape DEF NextSet, RowDone
<1>5. CASE FetchBegin
  <2> USE DEF FetchBegin
  <2>1. bound' \subseteq 1..Len(cols) /\ trouble' \subseteq Troubles
    BY <1>5 DEF Unbind, Shape, TypeOK, Troubles
  <2>2. types' \in Seq(RTypes) /\ Len(types') = ncols
    <3>1. \A c \in 1..ncols : cols[c] \in SqlTypes
      BY <1>5, <1>c, ColsType
    <3>2. mapping \in Mappings
      BY SettingsType DEF Shape, TypeOK
    <3>3. types' \in [1..ncols -> RTypes]
      BY <1>5, <3>1, <3>2, RTypeType
    <3> QED
      BY <1>c, <3>3
  <2>3. TypeOK'
    BY <1>5, <2>1, <2>2 DEF Shape, TypeOK, settings, Row
  <2>4. OnRow'
    BY <1>5 DEF OnRow, Shape
  <2> QED
    BY <1>5, <2>2, <2>3, <2>4 DEF Shape, Row
<1>6. CASE FetchTooFew
  <2> USE DEF FetchTooFew
  <2>1. bound' \subseteq 1..Len(cols)
    BY <1>6 DEF Unbind, Shape, TypeOK
  <2>2. TypeOK'
    BY <1>6, <2>1 DEF Shape, TypeOK, settings, Row
  <2>3. OnRow'
    BY <1>6 DEF OnRow, Shape
  <2> QED
    BY <1>6, <2>2, <2>3 DEF Shape, Row
<1>7. CASE FetchFull \/ FetchComplete
  <2> USE DEF FetchFull, FetchComplete
  <2>1. TypeOK'
    BY <1>7 DEF Shape, TypeOK, settings, Row
  <2>2. OnRow'
    BY <1>7 DEF OnRow, Shape
  <2>3. types' = <<>> /\ cells' = cells /\ cols' = cols
    BY <1>7, Zenon
  <2>4. types' \in Seq(RTypes) /\ cells' \in Seq(Row(cols'))
    BY <2>3 DEF Shape
  <2> QED
    BY <2>1, <2>2, <2>3, <2>4 DEF Shape, Row
<1>8. CASE CopyKnownNull
  <2>1. NA \in Values
    BY DEF NA, Values
  <2> QED
    BY <1>8, <2>1, CopyCellShape DEF CopyKnownNull, Shape, TypeOK
<1>9. CASE CopyBuffered
  <2> DEFINE n == Buffered(cols[col], cells[pos + 1][col])
  <2>1. col \in 1..Len(cols) /\ pos + 1 \in 1..Len(cells)
    BY <1>9, <1>c DEF CopyBuffered, Shape, TypeOK, OnRow, AtCell
  <2>2. cells[pos + 1] \in Row(cols)
    BY <2>1 DEF Shape
  <2>3. n \in Int
    BY <1>c, <2>1, <2>2, RowType, LimitsAssumption DEF Buffered
  <2>4. Convert(types[col], cols[col], n) \in Values
    BY <2>3, ConvertType
  <2> HIDE DEF n
  <2>5. AtCell /\ CopyCell(Convert(types[col], cols[col], n)) /\ UNCHANGED <<nulls, read, unordered>>
    BY <1>9 DEF CopyBuffered, n
  <2> QED
    BY <2>4, <2>5, CopyCellShape DEF Shape, TypeOK
<1>10. CASE CopyGetData
  <2>1. /\ AtCell /\ col \in 1..Len(cols) /\ read' \subseteq 1..Len(cols) /\ unordered' \in BOOLEAN
        /\ cells[1] \in Row(cols)
    <3>1. CallGetData
      BY <1>10 DEF CopyGetData
    <3>2. 1 \in 1..Len(cells)
      BY <3>1, CallGetDataShape, <1>c DEF AtCell, Shape, TypeOK, OnRow
    <3> QED
      BY <3>1, <3>2, CallGetDataShape DEF Shape
  <2>2. CASE cells[1][col] = Null
    <3>1. NA \in Values
      BY DEF NA, Values
    <3> QED
      BY <1>10, <1>n, <1>c, <2>1, <2>2, <3>1, CopyCellShape DEF CopyGetData
  <2>3. CASE cells[1][col] # Null
    <3> DEFINE n == Assembled(types[col], cols[col], cells[1][col])
    <3>1. cells[1][col] \in Nat
      BY <1>c, <2>1, <2>3, RowType
    <3>2. n \in Int
      BY <3>1, AssembledType
    <3>3. Convert(types[col], cols[col], n) \in Values
      BY <3>2, ConvertType
    <3>4. CopyCell(Convert(types[col], cols[col], n)) /\ nulls' = nulls
      BY <1>10, <2>3 DEF CopyGetData
    <3>5. nulls' \subseteq (0..(rowset - 1)) \X (1..Len(cols))
      BY <3>4 DEF Shape, TypeOK
    <3> HIDE DEF n
    <3> QED
      BY <2>1, <3>3, <3>4, <3>5, CopyCellShape
  <2> QED
    BY <2>2, <2>3
<1>11. CASE CopyAgain
  <2>1. AtCell /\ col \in 1..Len(cols) /\ read' \subseteq 1..Len(cols) /\ unordered' \in BOOLEAN
    BY <1>11, CallGetDataShape DEF CopyAgain
  <2>2. NA \in Values /\ Spoilt(0) \in Values
    BY DEF NA, Spoilt, Values
  <2>3. nulls' \subseteq (0..(rowset - 1)) \X (1..Len(cols))
    BY <1>11, <1>n, <1>c, <2>1 DEF CopyAgain, Shape, TypeOK
  <2> QED
    BY <1>11, <2>1, <2>2, <2>3, CopyCellShape DEF CopyAgain
<1>12. CASE GetDataFails
  BY <1>12, CallGetDataShape, CellThrowsShape DEF GetDataFails
<1>13. CASE CellFails
  BY <1>13, CellThrowsShape DEF CellFails, Shape, TypeOK
<1>14. CASE UNCHANGED vars
  <2>1. TypeOK'
    BY <1>14 DEF Shape, TypeOK, settings, Row, vars
  <2>2. OnRow'
    BY <1>14 DEF OnRow, Shape, vars
  <2> QED
    BY <1>14, <2>1, <2>2 DEF Shape, Row, vars
<1> QED
  BY <1>1, <1>2, <1>3, <1>4, <1>5, <1>6, <1>7, <1>8, <1>9, <1>10, <1>11, <1>12, <1>13, <1>14 DEF Next

-----------------------------------------------------------------------------
(* The indicators *)

\* Columns that SQLGetData has read are behind the loop.
LEMMA BehindStep ==
  ASSUME Shape, Behind, [Next]_vars
  PROVE  Behind'
<1>1. /\ col \in Nat /\ pos \in Nat /\ Len(cells) \in Nat /\ Len(cells) <= rowset
      /\ rowset \in Nat
  BY MaxRowsetAssumption DEF Shape, TypeOK
<1>2. CASE Execute \/ MoveRowset \/ NextSet
  <2>1. read' = {}
    BY <1>2 DEF Execute, Start, MoveRowset, NextSet, FetchRowset
  <2> QED
    BY <2>1 DEF Behind
<1>3. CASE MoveInRowset
  <2>1. rowset' # 1
    BY <1>1, <1>3 DEF MoveInRowset
  <2> QED
    BY <2>1 DEF Behind
<1>4. CASE FetchBegin
  BY <1>4 DEF FetchBegin, Behind
<1>5. CASE FetchTooFew \/ FetchFull \/ FetchComplete \/ UNCHANGED vars
  BY <1>5 DEF FetchTooFew, FetchFull, FetchComplete, vars, Behind
<1>6. CASE CopyKnownNull \/ CopyBuffered \/ CopyGetData \/ CopyAgain
  <2>1. /\ col' = col + 1 /\ rowset' = rowset /\ trouble' = trouble
        /\ read' \subseteq read \cup {col}
    BY <1>6 DEF CopyKnownNull, CopyBuffered, CopyGetData, CopyAgain, CopyCell, CallGetData
  <2>2. ASSUME rowset = 1, "again" \notin trouble, NEW c \in read'
        PROVE  c < col + 1
    <3>1. CASE c \in read
      <4>1. c < col /\ c \in Nat
        BY <2>2, <3>1 DEF Behind, Shape, TypeOK
      <4> QED
        BY <1>1, <4>1
    <3> QED
      BY <1>1, <2>1, <3>1
  <2> QED
    BY <2>1, <2>2 DEF Behind
<1>7. CASE GetDataFails \/ CellFails
  <2>1. "again" \in trouble'
    BY <1>7 DEF GetDataFails, CellFails, CellThrows
  <2> QED
    BY <2>1 DEF Behind
<1> QED
  BY <1>2, <1>3, <1>4, <1>5, <1>6, <1>7 DEF Next

\* The indicators of a new rowset.
LEMMA FetchRowsetNulls ==
  ASSUME Shape, NEW cs \in Layouts, NEW b \in SUBSET (1..Len(cs)), FetchRowset(cs, b),
         cols' = cs, bound' = b
  PROVE  NullsTrue' /\ NullsKnown'
<1>1. PICK k \in 1..rowset : \E rows \in [1..k -> Row(cs)], marks \in {{}, 1..Len(cs)} :
        /\ cells' = rows /\ nulls' = AfterMove(b, rows, marks)
  BY DEF FetchRowset
<1>2. PICK rows \in [1..k -> Row(cs)], marks \in {{}, 1..Len(cs)} :
        /\ cells' = rows /\ nulls' = AfterMove(b, rows, marks)
  BY <1>1
<1>3. \A p, c : <<p, c>> \in nulls' <=>
        /\ p \in 0..(Len(cells') - 1) /\ c \in b \cup marks
        /\ cells'[p + 1][c] = Null
  BY <1>2 DEF AfterMove
<1>4. NullsTrue'
  BY <1>3 DEF NullsTrue
<1>5. NullsKnown'
  BY <1>3 DEF NullsKnown
<1> QED
  BY <1>4, <1>5

\* The indicators stay true.
LEMMA NullsStep ==
  ASSUME Shape, Behind, NullsTrue, NullsKnown, [Next]_vars
  PROVE  NullsTrue' /\ NullsKnown'
<1>1. /\ col \in Nat /\ pos \in Nat /\ Len(cells) \in Nat /\ Len(cells) <= rowset
      /\ rowset \in Nat /\ cols \in Layouts /\ bound \in SUBSET (1..Len(cols))
  BY MaxRowsetAssumption DEF Shape, TypeOK
<1>2. CASE Execute
  <2>1. Len(cells') = 0
    BY <1>2 DEF Execute, Start
  <2> QED
    BY <2>1 DEF NullsTrue, NullsKnown
<1>3. CASE MoveRowset
  BY <1>1, <1>3, FetchRowsetNulls DEF MoveRowset
<1>4. CASE NextSet
  <2>1. PICK cs \in Layouts : cols' = cs /\ bound' = AutoBind(cs) /\ FetchRowset(cs, AutoBind(cs))
    BY <1>4 DEF NextSet
  <2>2. AutoBind(cs) \in SUBSET (1..Len(cs))
    BY DEF AutoBind
  <2> QED
    BY <2>1, <2>2, FetchRowsetNulls
<1>5. CASE MoveInRowset
  <2>1. rowset # 1 /\ UNCHANGED <<cells, cols, bound, rowset, nulls>>
    BY <1>1, <1>5 DEF MoveInRowset
  <2> QED
    BY <2>1 DEF NullsTrue, NullsKnown
<1>6. CASE FetchBegin \/ FetchTooFew \/ FetchFull \/ FetchComplete \/ UNCHANGED vars
  <2>1. /\ UNCHANGED <<cells, cols, rowset, nulls>>
        /\ bound' \subseteq bound
        /\ "again" \in trouble => "again" \in trouble'
    BY <1>6 DEF FetchBegin, FetchTooFew, FetchFull, FetchComplete, Unbind, vars
  <2> QED
    BY <2>1 DEF NullsTrue, NullsKnown
<1>7. CASE CopyKnownNull \/ CopyBuffered
  <2>1. UNCHANGED <<cells, cols, rowset, nulls, bound, trouble>>
    BY <1>7 DEF CopyKnownNull, CopyBuffered, CopyCell
  <2> QED
    BY <2>1 DEF NullsTrue, NullsKnown
<1>8. CASE GetDataFails \/ CellFails
  <2>1. UNCHANGED <<cells, cols, rowset, nulls, bound>> /\ "again" \in trouble'
    BY <1>8 DEF GetDataFails, CellFails, CellThrows
  <2> QED
    BY <2>1 DEF NullsTrue, NullsKnown
<1>9. CASE CopyGetData \/ CopyAgain
  <2>1. /\ UNCHANGED <<cells, cols, rowset, bound, trouble>>
        /\ nulls' = nulls \/ nulls' = nulls \cup {<<pos, col>>}
    BY <1>9 DEF CopyGetData, CopyAgain, CopyCell
  <2>2. AtCell /\ col \notin bound
    BY <1>9 DEF CopyGetData, CopyAgain, CallGetData
  <2>3. NullsKnown'
    BY <2>1 DEF NullsKnown
  <2>4. ASSUME rowset = 1, "again" \notin trouble, nulls' # nulls
        PROVE  pos = 0 /\ cells[1][col] = Null
    <3>1. col \notin read
      BY <1>1, <2>4 DEF Behind
    <3>2. pos < Len(cells)
      BY <2>2 DEF Shape, OnRow, AtCell, TypeOK
    <3> QED
      BY <1>1, <1>9, <2>4, <3>1, <3>2 DEF CopyGetData, CopyAgain
  <2>5. ASSUME NEW p \in 0..(Len(cells) - 1), NEW c \in 1..Len(cols),
               <<p, c>> \in nulls', c \in bound \/ (rowset = 1 /\ "again" \notin trouble)
        PROVE  cells[p + 1][c] = Null
    <3>1. CASE <<p, c>> \in nulls
      BY <2>5, <3>1 DEF NullsTrue
    <3>2. CASE <<p, c>> \notin nulls
      <4>1. p = pos /\ c = col /\ nulls' # nulls
        BY <2>1, <2>5, <3>2
      <4>2. p = 0 /\ cells[1][c] = Null
        BY <2>2, <2>4, <2>5, <4>1
      <4> QED
        BY <4>2
    <3> QED
      BY <3>1, <3>2
  <2>6. NullsTrue'
    BY <2>1, <2>5 DEF NullsTrue
  <2> QED
    BY <2>3, <2>6
<1> QED
  BY <1>2, <1>3, <1>4, <1>5, <1>6, <1>7, <1>8, <1>9 DEF Next

-----------------------------------------------------------------------------
(* The copied cells *)

\* What v must be as the copy of cell i: CellsWhole and TextWhole, cell by cell.
WholeAs(i, v) ==
  "again" \notin trouble /\ OwnType(i) /\ (rowset = 1 \/ i \in bound)
    => IF cells[pos + 1][i] = Null THEN v = NA
       ELSE Fits(i, cells[pos + 1][i]) => v = Exact(cells[pos + 1][i])

TextAs(i, v) ==
  /\ "again" \notin trouble /\ types[i] \in {"string", "ustring"}
  /\ i \in bound /\ cols[i] \in Printable \ {"double", "timestamp"} /\ cells[pos + 1][i] # Null
  => \/ cols[i] = "bigint" /\ cells[pos + 1][i] > Fitting["string"]
     \/ v = Exact(cells[pos + 1][i])

\* A row stays exact when one more cell of it is copied as it is.
LEMMA OneMoreCell ==
  ASSUME Shape, CellsWhole, TextWhole, AtCell, NEW v \in Values, CopyCell(v),
         WholeAs(col, v), TextAs(col, v)
  PROVE  CellsWhole' /\ TextWhole'
<1>1. UNCHANGED <<settings, phase, types, cols, bound, rowset, cells, pos, trouble>>
  BY DEF CopyCell
<1>2. copied \in Seq(Values) /\ Len(copied) = col - 1 /\ col \in Nat /\ col >= 1
  BY DEF Shape, OnRow, TypeOK, AtCell
<1>3. /\ Len(copied') = col /\ copied'[col] = v
      /\ \A i \in 1..Len(copied) : copied'[i] = copied[i]
  BY <1>2 DEF CopyCell
<1>4. \A i \in 1..Len(copied') : i = col \/ i \in 1..Len(copied)
  BY <1>2, <1>3
<1>m. UNCHANGED <<mapping, noTotal>>
  BY <1>1 DEF settings
<1>5. ASSUME NEW i \in 1..Len(copied')
      PROVE  (phase = "fetch" => WholeAs(i, copied'[i])) /\ (phase = "fetch" => TextAs(i, copied'[i]))
  <2>1. CASE i = col
    BY <1>3, <2>1
  <2>2. CASE i \in 1..Len(copied)
    <3>1. copied'[i] = copied[i]
      BY <1>3, <2>2
    <3>2. phase = "fetch" => WholeAs(i, copied[i])
      BY <2>2 DEF CellsWhole, WholeAs
    <3>3. phase = "fetch" => TextAs(i, copied[i])
      BY <2>2 DEF TextWhole, TextAs
    <3> QED
      BY <3>1, <3>2, <3>3
  <2> QED
    BY <1>4, <2>1, <2>2
<1>6. CellsWhole'
  BY <1>1, <1>m, <1>5 DEF CellsWhole, WholeAs, OwnType, Fits
<1>7. TextWhole'
  BY <1>1, <1>5 DEF TextWhole, TextAs
<1> QED
  BY <1>6, <1>7

\* Every copied cell is as the driver has it.
LEMMA WholeStep ==
  ASSUME CellsInv, [Next]_vars
  PROVE  CellsWhole' /\ TextWhole'
<1> USE DEF CellsInv
<1>1. CASE Execute \/ MoveInRowset \/ MoveRowset \/ NextSet \/ GetDataFails \/ CellFails
  <2>1. Len(copied') = 0
    BY <1>1 DEF Execute, Start, MoveInRowset, MoveRowset, NextSet, FetchRowset, GetDataFails,
                CellFails, CellThrows
  <2> QED
    BY <2>1 DEF CellsWhole, TextWhole
<1>2. CASE FetchBegin
  <2>1. Len(copied') = 0
    BY <1>2 DEF FetchBegin, Shape, OnRow, TypeOK
  <2> QED
    BY <2>1 DEF CellsWhole, TextWhole
<1>3. CASE FetchTooFew \/ FetchFull \/ FetchComplete
  <2>1. phase' # "fetch"
    BY <1>3 DEF FetchTooFew, FetchFull, FetchComplete
  <2> QED
    BY <2>1 DEF CellsWhole, TextWhole
<1>4. CASE UNCHANGED vars
  BY <1>4 DEF vars, CellsWhole, TextWhole, OwnType, Fits
<1>5. ASSUME AtCell, col \in 1..Len(cols)
      PROVE  /\ cols[col] \in SqlTypes /\ cells[pos + 1] \in Row(cols)
             /\ pos \in 0..(Len(cells) - 1)
             /\ mapping \in Mappings /\ noTotal \in BOOLEAN
             /\ cells[pos + 1][col] # Null => /\ cells[pos + 1][col] \in Nat
                                              /\ cells[pos + 1][col] \in Lengths(cols[col])
             /\ rowset = 1 => pos = 0
  <2>1. pos \in Nat /\ pos < Len(cells) /\ Len(cells) \in Nat /\ Len(cells) <= rowset
    BY <1>5 DEF Shape, OnRow, TypeOK, AtCell
  <2>2. cells[pos + 1] \in Row(cols) /\ cols \in Layouts
    BY <2>1 DEF Shape, TypeOK
  <2>3. cols[col] \in SqlTypes
    BY <1>5, <2>2, ColsType
  <2>4. cells[pos + 1][col] # Null => /\ cells[pos + 1][col] \in Nat
                                      /\ cells[pos + 1][col] \in Lengths(cols[col])
    BY <1>5, <2>2, RowType
  <2>5. mapping \in Mappings /\ noTotal \in BOOLEAN
    BY SettingsType DEF Shape, TypeOK
  <2> QED
    BY <2>1, <2>2, <2>3, <2>4, <2>5
<1>6. CASE CopyKnownNull
  <2>1. AtCell /\ col \in 1..Len(cols) /\ <<pos, col>> \in nulls /\ CopyCell(NA) /\ NA \in Values
    BY <1>6 DEF CopyKnownNull, AtCell, IsNull, Shape, TypeOK, NA, Values
  <2>2. "again" \notin trouble /\ (rowset = 1 \/ col \in bound) => cells[pos + 1][col] = Null
    BY <1>5, <2>1 DEF NullsTrue
  <2>3. WholeAs(col, NA) /\ TextAs(col, NA)
    BY <2>2 DEF WholeAs, TextAs
  <2> QED
    BY <2>1, <2>3, OneMoreCell
<1>7. CASE CopyBuffered
  <2> DEFINE n == cells[pos + 1][col]
             v == Convert(types[col], cols[col], Buffered(cols[col], n))
  <2>1. AtCell /\ col \in 1..Len(cols) /\ col \in bound /\ <<pos, col>> \notin nulls /\ CopyCell(v)
    BY <1>7 DEF CopyBuffered, AtCell, IsNull, Shape, TypeOK
  <2>2. n # Null
    BY <1>5, <2>1 DEF NullsKnown
  <2>3. n \in Nat /\ n \in Lengths(cols[col]) /\ cols[col] \in SqlTypes /\ mapping \in Mappings
    BY <1>5, <2>1, <2>2
  <2>4. v \in Values
    <3>1. Buffered(cols[col], n) \in Int
      BY <2>3, LimitsAssumption DEF Buffered
    <3> QED
      BY <3>1, ConvertType
  <2>5. WholeAs(col, v)
    <3>1. SUFFICES ASSUME OwnType(col), Fits(col, n) PROVE v = Exact(n)
      BY <2>2 DEF WholeAs
    <3>2. Buffered(cols[col], n) = n
      BY <2>1, <2>3, <3>1, LimitsAssumption DEF Buffered, Fits
    <3>3. types[col] = RType(cols[col], mapping)
      BY <3>1 DEF OwnType
    <3>4. cols[col] = "bigint" => n <= Fitting[types[col]]
      BY <3>1 DEF Fits
    <3> HIDE DEF n
    <3> QED
      BY <2>3, <3>2, <3>3, <3>4, ConvertOwn
  <2>6. TextAs(col, v)
    <3>1. SUFFICES ASSUME types[col] \in {"string", "ustring"},
                          cols[col] \in Printable \ {"double", "timestamp"},
                          ~(cols[col] = "bigint" /\ n > Fitting["string"])
                   PROVE  v = Exact(n)
      BY DEF TextAs
    <3>2. Buffered(cols[col], n) = n
      BY <3>1 DEF Buffered, Printable
    <3>3. cols[col] = "bigint" => n <= Fitting["string"]
      BY <2>3, <3>1, LimitsAssumption DEF Mappings
    <3> HIDE DEF n
    <3> QED
      BY <2>3, <3>1, <3>2, <3>3, ConvertText
  <2> HIDE DEF v
  <2> QED
    BY <2>1, <2>4, <2>5, <2>6, OneMoreCell
<1>8. CASE CopyGetData
  <2>1. AtCell /\ col \in 1..Len(cols) /\ col \notin bound
    BY <1>8, CallGetDataShape DEF CopyGetData
  <2>2. \A v : TextAs(col, v)
    BY <2>1 DEF TextAs
  <2>3. rowset = 1 => cells[pos + 1] = cells[1]
    BY <1>5, <2>1
  <2>4. CASE cells[1][col] = Null
    <3>1. CopyCell(NA) /\ NA \in Values
      BY <1>8, <2>4 DEF CopyGetData, NA, Values
    <3>2. WholeAs(col, NA)
      BY <2>1, <2>3, <2>4 DEF WholeAs
    <3> QED
      BY <2>1, <2>2, <3>1, <3>2, OneMoreCell
  <2>5. CASE cells[1][col] # Null
    <3> DEFINE n == cells[1][col]
               v == Convert(types[col], cols[col], Assembled(types[col], cols[col], n))
    <3>1. CopyCell(v)
      BY <1>8, <2>5 DEF CopyGetData
    <3>2. n \in Nat
      <4>1. cells[1] \in Row(cols) /\ cols \in Layouts
        BY <1>5, <2>1 DEF Shape, TypeOK
      <4> QED
        BY <2>1, <2>5, <4>1, RowType
    <3>3. v \in Values
      BY <3>2, AssembledType, ConvertType
    <3>4. WholeAs(col, v)
      <4>1. SUFFICES ASSUME OwnType(col), Fits(col, n) PROVE v = Exact(n)
        BY <2>1, <2>3, <2>5 DEF WholeAs
      <4>2. cols[col] \in SqlTypes /\ mapping \in Mappings
        BY <1>5, <2>1
      <4>3. types[col] = RType(cols[col], mapping)
        BY <4>1 DEF OwnType
      <4>4. types[col] = "raw" /\ noTotal => n <= Piece(cols[col])
        <5>1. types[col] = "raw" => cols[col] = "binary"
          BY <4>2, <4>3 DEF RType, SqlTypes, Mappings
        <5> QED
          BY <4>1, <5>1 DEF Fits, Piece, CType
      <4>5. cols[col] = "bigint" => n <= Fitting[types[col]]
        BY <4>1 DEF Fits
      <4> HIDE DEF n
      <4>6. Assembled(types[col], cols[col], n) = n
        BY <3>2, <4>2, <4>4, AssembledWhole
      <4> QED
        BY <3>2, <4>2, <4>3, <4>5, <4>6, ConvertOwn
    <3> HIDE DEF v
    <3> QED
      BY <2>1, <2>2, <3>1, <3>3, <3>4, OneMoreCell
  <2> QED
    BY <2>4, <2>5
<1>9. CASE CopyAgain
  <2>1. AtCell /\ col \in 1..Len(cols) /\ col \notin bound /\ col \in read /\ col \in Nat
    BY <1>9, CallGetDataShape DEF CopyAgain, Shape, TypeOK
  <2>2. ~(rowset = 1 /\ "again" \notin trouble)
    BY <2>1 DEF Behind
  <2>3. \A v : WholeAs(col, v) /\ TextAs(col, v)
    BY <2>1, <2>2 DEF WholeAs, TextAs
  <2>4. NA \in Values /\ Spoilt(0) \in Values
    BY DEF NA, Spoilt, Values
  <2> QED
    BY <1>9, <2>1, <2>3, <2>4, OneMoreCell DEF CopyAgain
<1> QED
  BY <1>1, <1>2, <1>3, <1>4, <1>6, <1>7, <1>8, <1>9 DEF Next

\* The initial states are those of a new result object.
LEMMA CellsInit ==
  ASSUME Init
  PROVE  CellsInv /\ OrderInv
<1>1. PICK s \in Settings : product = s[1] /\ noTotal = s[2] /\ mapping = s[3]
  BY DEF Init
<1>2. settings \in Settings
  <2>1. s = <<s[1], s[2], s[3]>>
    BY SettingsAssumption
  <2> QED
    BY <1>1, <2>1 DEF settings
<1>3. PICK cs \in Layouts, size \in 1..MaxRowset :
        /\ phase = "ready" /\ ncols = Len(cs) /\ types = <<>>
        /\ cols = cs /\ bound = AutoBind(cs) /\ rowset = size
        /\ cells = <<>> /\ pos = 0 /\ nulls = {} /\ col = 0
        /\ read = {} /\ unordered = FALSE /\ copied = <<>> /\ trouble = {}
  BY DEF Init
<1>4. Len(cs) \in Nat /\ AutoBind(cs) \subseteq 1..Len(cs)
  BY ColsType DEF AutoBind
<1>5. TypeOK
  <2>1. pos \in 0..(MaxRowset - 1) /\ col \in 0..(ncols + 1) /\ ncols \in Nat
    BY <1>3, <1>4, MaxRowsetAssumption
  <2>2. Len(cells) = 0 /\ Len(types) = 0 /\ Len(cells) <= rowset /\ rowset \in 1..MaxRowset
    BY <1>3, MaxRowsetAssumption
  <2>3. \A p \in 1..Len(cells) : cells[p] \in Row(cols)
    BY <2>2
  <2> QED
    BY <1>2, <1>3, <1>4, <2>1, <2>2, <2>3 DEF TypeOK
<1>6. Shape
  BY <1>3, <1>5 DEF Shape, OnRow
<1>7. Behind /\ NullsTrue /\ NullsKnown /\ CellsWhole /\ TextWhole
  BY <1>3 DEF Behind, NullsTrue, NullsKnown, CellsWhole, TextWhole
<1>8. OrderInv
  BY <1>3 DEF OrderInv, BoundFirst, Fresh, GetDataInOrder
<1> QED
  BY <1>6, <1>7, <1>8 DEF CellsInv

\* CellsInv is inductive.
LEMMA CellsStep ==
  ASSUME CellsInv, [Next]_vars
  PROVE  CellsInv'
BY ShapeStep, BehindStep, NullsStep, WholeStep DEF CellsInv

\* For any column lists, rowset sizes, lengths and buffers: what dbFetch returns is what the
\* driver has, in the rows and within the limits that CellsWhole and TextWhole name (a BIGINT
\* that its mapping can hold, a text of unknown type shorter than its buffer, and so on).
THEOREM CellsAreExact == Spec => []CellsExact
<1>1. CellsInv => CellsExact
  <2> SUFFICES ASSUME CellsInv PROVE OwnTypeReadable
    BY DEF CellsInv, CellsExact, Shape
  <2>1. ASSUME AtCell, OwnType(col) PROVE Readable(types[col], cols[col])
    <3>1. col \in 1..Len(cols) /\ cols \in Layouts /\ mapping \in Mappings
      BY <2>1, SettingsType, ColsType DEF CellsInv, Shape, TypeOK, AtCell, OwnType
    <3>2. cols[col] \in SqlTypes
      BY <3>1, ColsType
    <3> QED
      BY <2>1, <3>1, <3>2, OwnReadable DEF OwnType
  <2> QED
    BY <2>1 DEF OwnTypeReadable
<1> QED
  BY <1>1, CellsInit, CellsStep, PTL DEF Spec

-----------------------------------------------------------------------------
(* The order of SQLGetData *)

\* OrderInv is preserved.
LEMMA OrderStep ==
  ASSUME CellsInv, OrderInv, [Next]_vars
  PROVE  OrderInv'
<1> USE DEF OrderInv
<1>s. Shape /\ Behind
  BY DEF CellsInv
<1>t. /\ col \in Nat /\ pos \in Nat /\ Len(cells) \in Nat /\ Len(cells) <= rowset
      /\ rowset \in Nat /\ bound \subseteq 1..Len(cols) /\ ncols \in Nat /\ Len(cols) \in Nat
      /\ read \subseteq 1..Len(cols)
  BY <1>s, MaxRowsetAssumption, ColsType DEF Shape, TypeOK
<1>1. CASE Execute
  <2>1. phase' = "ready" /\ ~unordered'
    BY <1>1 DEF Execute, Start
  <2> QED
    BY <2>1 DEF BoundFirst, Fresh, GetDataInOrder
<1>2. CASE MoveInRowset
  <2>1. /\ rowset' # 1 /\ UNCHANGED <<product, phase, bound, ncols>>
        /\ {"later", "unbind"} \cap trouble = {"later", "unbind"} \cap trouble'
    BY <1>2, <1>t DEF MoveInRowset, settings
  <2>2. BoundFirst'
    BY <2>1 DEF BoundFirst, get_data_any_order
  <2> QED
    BY <2>1, <2>2 DEF Fresh, GetDataInOrder
<1>3. CASE MoveRowset
  <2>1. /\ ~unordered' /\ UNCHANGED <<product, phase, bound, ncols>>
        /\ {"later", "unbind"} \cap trouble = {"later", "unbind"} \cap trouble'
    BY <1>3 DEF MoveRowset, FetchRowset, settings
  <2>2. BoundFirst'
    BY <2>1 DEF BoundFirst, get_data_any_order
  <2> QED
    BY <2>1, <2>2 DEF Fresh, GetDataInOrder
<1>4. CASE NextSet
  <2>1. ~unordered' /\ "later" \in trouble'
    BY <1>4 DEF NextSet, FetchRowset
  <2> QED
    BY <2>1 DEF BoundFirst, Fresh, GetDataInOrder
<1>5. CASE FetchBegin
  <2>1. UNCHANGED <<product, ncols, cols, rowset, unordered, col>> /\ phase = "ready"
    BY <1>5 DEF FetchBegin, settings
  <2>2. PICK failing \in {0} \cup (IF "unbind" \in Faults THEN ToUnbind ELSE {}) :
          /\ bound' = Unbind(failing)
          /\ trouble' = (trouble \ {"later"}) \cup (IF failing = 0 THEN {} ELSE {"unbind"})
    BY <1>5 DEF FetchBegin
  <2>3. "again" \in trouble <=> "again" \in trouble'
    BY <2>2
  <2>4. col <= 1
    BY <1>s, <2>1 DEF Shape, OnRow
  <2>5. Fresh' /\ (rowset = 1 /\ "again" \notin trouble => ~unordered)
    BY <2>1, <2>3, <2>4 DEF Fresh
  <2>6. GetDataInOrder'
    BY <2>1, <2>3, <2>5 DEF GetDataInOrder
  <2>7. ASSUME ~get_data_any_order, "unbind" \notin trouble', NEW c \in bound', c <= ncols,
               NEW b \in 1..c
        PROVE  b \in bound'
    <3>1. failing = 0 /\ bound' = bound \ ToUnbind
      BY <2>2, <2>7 DEF Unbind
    <3>2. ToUnbind = {i \in bound : i <= ncols /\ \E j \in 1..i : j \notin bound}
      BY <2>7 DEF ToUnbind
    <3>3. c \in bound /\ \A j \in 1..c : j \in bound
      BY <2>7, <3>1, <3>2
    <3>4. b \in bound /\ \A j \in 1..b : j \in bound
      BY <1>t, <3>3
    <3> QED
      BY <3>1, <3>2, <3>4
  <2>8. BoundFirst'
    BY <2>1, <2>7 DEF BoundFirst, get_data_any_order
  <2> QED
    BY <2>5, <2>6, <2>8
<1>6. CASE FetchTooFew
  <2>1. /\ UNCHANGED <<cols, rowset, ncols, unordered, col, trouble>> /\ phase' = "ready"
        /\ ncols' # Len(cols')
    BY <1>6, <1>t DEF FetchTooFew
  <2> QED
    BY <2>1 DEF BoundFirst, Fresh, GetDataInOrder
<1>7. CASE FetchFull \/ FetchComplete
  <2>1. UNCHANGED <<product, cols, rowset, ncols, unordered, col, trouble>> /\ phase' # "fetch"
    BY <1>7 DEF FetchFull, FetchComplete, settings
  <2> QED
    BY <2>1 DEF BoundFirst, Fresh, GetDataInOrder, get_data_any_order
<1>8. CASE UNCHANGED vars
  BY <1>8 DEF vars, BoundFirst, Fresh, GetDataInOrder, get_data_any_order
<1>9. CASE GetDataFails \/ CellFails
  <2>1. "again" \in trouble' /\ phase' = "ready"
    BY <1>9 DEF GetDataFails, CellFails, CellThrows
  <2> QED
    BY <2>1 DEF BoundFirst, Fresh, GetDataInOrder
<1>10. CASE CopyKnownNull \/ CopyBuffered \/ CopyGetData \/ CopyAgain
  <2>1. /\ UNCHANGED <<product, phase, cols, rowset, ncols, bound, trouble>>
        /\ col' = col + 1 /\ AtCell
    <3>1. CASE CopyKnownNull
      BY <3>1 DEF CopyKnownNull, CopyCell, settings
    <3>2. CASE CopyBuffered
      BY <3>2 DEF CopyBuffered, CopyCell, settings
    <3>3. CASE CopyGetData
      BY <3>3 DEF CopyGetData, CopyCell, CallGetData, settings
    <3>4. CASE CopyAgain
      BY <3>4 DEF CopyAgain, CopyCell, CallGetData, settings
    <3> QED
      BY <1>10, <3>1, <3>2, <3>3, <3>4
  <2>2. BoundFirst'
    BY <2>1 DEF BoundFirst, get_data_any_order
  <2>3. Fresh'
    <3>1. col >= 1
      BY <2>1, <1>t DEF AtCell
    <3>2. ~(col' <= 1)
      BY <2>1, <1>t, <3>1
    <3> QED
      BY <3>2 DEF Fresh
  <2>o. GetDataInOrder' <=>
          (~get_data_any_order /\ rowset = 1 /\ ncols = Len(cols) /\ trouble = {} => ~unordered')
    <3>1. get_data_any_order' <=> get_data_any_order
      BY <2>1 DEF get_data_any_order
    <3>2. rowset' = rowset /\ ncols' = ncols /\ cols' = cols /\ trouble' = trouble
      BY <2>1
    <3> QED
      BY <3>1, <3>2, Zenon DEF GetDataInOrder
  <2>4. CASE unordered' = unordered
    BY <2>2, <2>3, <2>4, <2>o, Zenon DEF GetDataInOrder
  <2>5. CASE CallGetData
    <3>1. SUFFICES ASSUME ~get_data_any_order, rowset = 1, ncols = Len(cols), trouble = {}
                   PROVE  ~unordered'
      BY <2>2, <2>3, <2>o
    <3>2. ~unordered
      BY <3>1 DEF GetDataInOrder
    <3>3. \A c \in read : ~(c >= col)
      BY <1>s, <1>t, <3>1 DEF Behind
    <3>4. ASSUME NEW c \in bound, c >= col PROVE FALSE
      <4>1. \A b \in 1..c : b \in bound
        BY <1>t, <2>1, <3>1, <3>4 DEF BoundFirst, AtCell
      <4>2. col \in 1..c
        BY <1>t, <2>1, <3>4 DEF AtCell
      <4> QED
        BY <2>5, <4>1, <4>2 DEF CallGetData
    <3> QED
      BY <2>5, <3>2, <3>3, <3>4 DEF CallGetData
  <2>6. unordered' = unordered \/ CallGetData
    BY <1>10 DEF CopyKnownNull, CopyBuffered, CopyGetData, CopyAgain
  <2> QED
    BY <2>4, <2>5, <2>6
<1> QED
  BY <1>1, <1>2, <1>3, <1>4, <1>5, <1>6, <1>7, <1>8, <1>9, <1>10 DEF Next

\* A driver that needs it is asked for the long columns in their order and only behind the last
\* bound one, whatever the columns are.
THEOREM GetDataKeepsOrder == Spec => []GetDataInOrder
<1>1. OrderInv => GetDataInOrder
  BY DEF OrderInv
<1> QED
  BY <1>1, CellsInit, CellsStep, OrderStep, PTL DEF Spec
=============================================================================
