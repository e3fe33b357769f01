------------------------------ MODULE ReadCells ------------------------------
(***************************************************************************)
(* How dbFetch copies the cells of a row into R vectors.  nanodbc binds a  *)
(* buffer to every short column (auto_bind) and reads the long ones, and   *)
(* those the package has unbound, with SQLGetData; every column has a NULL *)
(* indicator per row of the rowset.  The R types come from column_types(). *)
(*                                                                         *)
(* A cell is its length, or Null: for text and bytes the length in bytes,  *)
(* for a BIGINT that of its decimal text, 1 for anything else.             *)
(* Which rows come when is the business of FetchRows: here a move finds    *)
(* any rows.                                                               *)
(***************************************************************************)
EXTENDS Integers, Sequences

CONSTANTS
  Settings,    \* the connections: see product, noTotal and mapping
  Layouts,     \* the column lists a result set may have
  MaxRowset,   \* bound: rows of a rowset
  Sizes,       \* bound: the lengths a cell may have
  Numbers,     \* bound: the lengths a BIGINT may have
  BufferSize,  \* of an SQLGetData buffer, 1024 in the code
  OtherSize,   \* of the buffer of a column of unknown type, 128 in the code
  Fitting,     \* Fitting[m]: the length up to which every BIGINT fits what m makes of it
  Faults       \* what can go wrong, see FaultKinds

(***************************************************************************)
(*  unbind   SQLBindCol fails when a column is unbound, which is a warning;*)
(*  getdata  SQLGetData fails.                                             *)
(***************************************************************************)
FaultKinds == {"unbind", "getdata"}

\* SQL types with the same treatment have one name; a CHAR or WCHAR column of size zero is
\* a long one.
SqlTypes == {"bit", "int", "bigint", "double", "date", "time", "timestamp", "tsoffset",
             "char", "wchar", "longchar", "longwchar", "binary", "udt", "other"}
Mappings == {"integer", "double", "string", "integer64"}
\* What a driver says of itself; it may refuse to.
Products == [dbms : {"Microsoft SQL Server", "other", "refused"},
             driver : {"msodbcsql", "other", "refused"}]

ASSUME LayoutsAssumption == Layouts \subseteq Seq(SqlTypes) /\ \A cs \in Layouts : cs # <<>>
ASSUME MaxRowsetAssumption == MaxRowset \in Nat \ {0}
ASSUME SettingsAssumption == Settings \subseteq Products \X BOOLEAN \X Mappings
ASSUME SizesAssumption == Sizes \subseteq Nat /\ 1 \in Sizes
ASSUME NumbersAssumption == Numbers \subseteq Nat \ {0} /\ 1 \in Numbers
ASSUME LimitsAssumption == OtherSize \in Nat \ {0} /\ Fitting \in [Mappings -> Nat \ {0}]
ASSUME BufferAssumption == BufferSize \in Nat \ {0, 1}
ASSUME FaultsAssumption == Faults \subseteq FaultKinds

Null == -1
Lengths(t) ==
  CASE t \in {"char", "wchar", "longchar", "longwchar", "binary", "udt", "other"} -> Sizes
    [] t = "bigint" -> Numbers
    [] OTHER -> {1}

VARIABLES
  product,   \* the answers to SQLGetInfo
  noTotal,   \* the driver answers SQL_NO_TOTAL while a long value goes on
  mapping,   \* get_bigint_mapping()
  phase,     \* between calls, in the loop of result_to_dataframe(), or complete_
  ncols,     \* num_columns_, of the first result set
  types,     \* the R types of the running dbFetch
  cols,      \* the columns of the result set: bound_columns_
  bound,     \* the columns with a buffer: bound_
  rowset,    \* rowset_size_
  cells,     \* the rows of the rowset
  pos,       \* rowset_position_
  nulls,     \* the <<position, column>> whose cbdata_ is SQL_NULL_DATA
  col,       \* the next column to copy, 0 before the first row
  read,      \* history: columns read with SQLGetData since the driver's cursor moved
  unordered, \* history: one of those calls was out of order
  copied,    \* history: the cells copied of the row
  trouble    \* history: see Troubles

vars == <<product, noTotal, mapping, phase, ncols, types, cols, bound, rowset, cells, pos,
          nulls, col, read, unordered, copied, trouble>>
settings == <<product, noTotal, mapping>>

(***************************************************************************)
(*  later    the result set was reached inside the running dbFetch;        *)
(*  unbind   a column of the result set could not be unbound;              *)
(*  again    the copying of the row has failed and starts again.           *)
(***************************************************************************)
Troubles == {"later", "unbind", "again"}

-----------------------------------------------------------------------------
(* The tables of the code. *)

\* auto_bind(): the C type of a column ...
CType(t) ==
  CASE t \in {"bit", "int", "bigint"} -> "sbigint"
    [] t \in {"double", "date", "time", "timestamp"} -> t
    [] t \in {"tsoffset", "binary", "udt"} -> "binary"
    [] t \in {"char", "longchar", "other"} -> "char"
    [] t \in {"wchar", "longwchar"} -> "wchar"

\* ... and whether it is left without a buffer.
Blob(t) == t \in {"longchar", "longwchar", "binary", "udt"}
AutoBind(cs) == {i \in 1..Len(cs) : ~Blob(cs[i])}

\* column_types()
RType(t, m) ==
  CASE t = "bit" -> "logical"
    [] t = "int" -> "integer"
    [] t = "bigint" -> m
    [] t \in {"double", "date", "time"} -> t
    [] t \in {"timestamp", "tsoffset"} -> "datetime"
    [] t \in {"wchar", "longwchar"} -> "ustring"
    [] t = "binary" -> "raw"
    [] OTHER -> "string"

\* get_ref_impl<T>(), T as the assign_ function of R type r asks for it: the C types that
\* do not end in type_incompatible_error.
Readable(r, t) ==
  CASE r \in {"logical", "integer", "double", "integer64"} -> CType(t) \in {"char", "double", "sbigint"}
    [] r \in {"string", "ustring"} -> TRUE
    [] r \in {"date", "datetime"} -> CType(t) \in {"date", "timestamp"} \/ t = "tsoffset"
    [] r = "time" -> CType(t) \in {"time", "timestamp"} \/ t = "tsoffset"
    [] r = "raw" -> CType(t) = "binary"

\* The R type is one the column's own SQL type gives; reading through another one (of an
\* earlier result set) makes something else of the value.
Natural(r, t) == \E m \in Mappings : r = RType(t, m)

-----------------------------------------------------------------------------
(* The values that reach R: [form, len]. *)

NA == [form |-> "na", len |-> 0]
Exact(n) == [form |-> "value", len |-> n]
Spoilt(n) == [form |-> "other", len |-> n]

\* The column size that the driver gives for a type of numbers.
ColumnSize(t) == CASE t = "bit" -> 1 [] t = "int" -> 10 [] t = "bigint" -> Fitting["string"]

\* get_ref_impl<string> of a column that is no text: whole numbers in column_size characters,
\* dates and times in full, a double rounded to its scale, and a timestamp with the offset
\* that the process has, not the value.
Printed(t, n) ==
  CASE CType(t) = "sbigint" -> Exact(IF n <= ColumnSize(t) THEN n ELSE ColumnSize(t))
    [] t \in {"date", "time"} -> Exact(n)
    [] t \in {"double", "timestamp"} -> Spoilt(n)

\* The cast of int64_t to the type that assign_integer() or assign_double() asks for: every
\* number of 9 characters fits an int, of 15 a double, and of 19 an int64_t that is not R's
\* NA.  Longer ones are counted as changed, although some of the next length still fit.
FromBigint(r, n) == IF n <= Fitting[r] THEN Exact(n) ELSE Spoilt(n)

Printable == {"bit", "int", "bigint", "date", "time", "double", "timestamp"}

\* The vector that create_dataframe() makes for a column of R type r ...
Vector(r) ==
  CASE r = "integer" -> "int"
    [] r \in {"integer64", "date", "datetime", "time", "double"} -> "real"
    [] r \in {"string", "ustring"} -> "character"
    [] r = "raw" -> "list"
    [] r = "logical" -> "lgl"

\* ... and the class that add_classes() gives it.
Class(r) ==
  CASE r = "integer64" -> "integer64"
    [] r = "date" -> "Date"
    [] r = "datetime" -> "POSIXct"
    [] r = "time" -> "hms"
    [] r = "raw" -> "blob"
    [] OTHER -> "none"

\* assign_*(): the vector it writes to, and what it writes there: an int64_t in the place of a
\* double, days, seconds since 1970, seconds of a day, or the value as it is.
Assigned(r) ==
  CASE r = "integer" -> <<"int", "value">>
    [] r = "logical" -> <<"lgl", "value">>
    [] r = "double" -> <<"real", "value">>
    [] r = "integer64" -> <<"real", "int64">>
    [] r = "date" -> <<"real", "days">>
    [] r = "datetime" -> <<"real", "seconds">>
    [] r = "time" -> <<"real", "seconds of a day">>
    [] r \in {"string", "ustring"} -> <<"character", "value">>
    [] r = "raw" -> <<"list", "value">>

\* What R takes the elements of a vector of that class for.
TakenFor(class) ==
  CASE class = "integer64" -> "int64"
    [] class = "Date" -> "days"
    [] class = "POSIXct" -> "seconds"
    [] class = "hms" -> "seconds of a day"
    [] class \in {"blob", "none"} -> "value"

\* A value of length n, of a column of type t, as R type r.
Convert(r, t, n) ==
  LET taken == Assigned(r) = <<Vector(r), TakenFor(Class(r))>> IN
  CASE ~taken -> Spoilt(n)
    [] taken /\ r \in {"string", "ustring"} /\ t \in Printable -> Printed(t, n)
    [] taken /\ r \in Mappings \ {"string"} /\ t = "bigint" -> FromBigint(r, n)
    [] taken /\ t # "bigint" /\ Natural(r, t) -> Exact(n)
    [] OTHER -> Spoilt(n)

\* What the driver puts in a column's buffer: all of the value, whose column size is known.
\* In a column of unknown type the terminating zero takes one of the OtherSize bytes.
Buffered(t, n) == IF t = "other" /\ n >= OtherSize THEN OtherSize - 1 ELSE n

\* The bytes one turn of the SQLGetData loop can take: text has a terminating zero.
Piece(t) == IF CType(t) = "binary" THEN BufferSize ELSE BufferSize - 1

\* The do-while loop of get_ref_impl<string> and <vector<uint8_t>>, for a value of length n: the
\* calls that find more than a buffer left append a buffer, the last one brings the rest.  For
\* bytes SQL_NO_TOTAL, which is negative, appends nothing.
FullCalls(t, n) == IF n <= Piece(t) THEN 0 ELSE (n - 1) \div Piece(t)
Assembled(r, t, n) ==
  (IF r = "raw" /\ noTotal THEN 0 ELSE FullCalls(t, n) * Piece(t))
  + (n - FullCalls(t, n) * Piece(t))

-----------------------------------------------------------------------------
(* Rows. *)

\* A result object: dbSendQuery or dbBind has executed the statement.
Start(cs, size) ==
  /\ phase' = "ready" /\ ncols' = Len(cs) /\ types' = <<>>
  /\ cols' = cs /\ bound' = AutoBind(cs) /\ rowset' = size
  /\ cells' = <<>> /\ pos' = 0 /\ nulls' = {} /\ col' = 0
  /\ read' = {} /\ unordered' = FALSE /\ copied' = <<>> /\ trouble' = {}

Init ==
  /\ \E s \in Settings : product = s[1] /\ noTotal = s[2] /\ mapping = s[3]
  /\ \E cs \in Layouts, size \in 1..MaxRowset :
       /\ phase = "ready" /\ ncols = Len(cs) /\ types = <<>>
       /\ cols = cs /\ bound = AutoBind(cs) /\ rowset = size
       /\ cells = <<>> /\ pos = 0 /\ nulls = {} /\ col = 0
       /\ read = {} /\ unordered = FALSE /\ copied = <<>> /\ trouble = {}

Execute ==
  /\ phase # "fetch"
  /\ \E cs \in Layouts, size \in 1..MaxRowset : Start(cs, size)
  /\ UNCHANGED settings

Row(cs) == {f \in [1..Len(cs) -> Sizes \cup Numbers \cup {Null}] :
              \A i \in 1..Len(cs) : f[i] \in Lengths(cs[i]) \cup {Null}}

\* Mutant: the indicators of the last rowset stay.
AfterMoveStale(b, rows, marks) ==
  {x \in nulls : x[1] < Len(rows) /\ x[2] \in DOMAIN rows[1] \ (b \cup marks)}
  \cup {x \in (0..(Len(rows) - 1)) \X (b \cup marks) : rows[x[1] + 1][x[2]] = Null}

\* The indicators after fetch(): before_move() has cleared them and the driver has set
\* those of the bound columns, and those of the other columns in marks as it likes.
AfterMove(b, rows, marks) ==
  {x \in (0..(Len(rows) - 1)) \X (b \cup marks) : rows[x[1] + 1][x[2]] = Null}

\* SQLFetchScroll finds rows of a result set with columns cs, bound in b.
FetchRowset(cs, b) ==
  \E k \in 1..rowset : \E rows \in [1..k -> Row(cs)], marks \in {{}, 1..Len(cs)} :
    /\ cells' = rows /\ pos' = 0 /\ col' = 1
    /\ nulls' = AfterMove(b, rows, marks)
    /\ read' = {} /\ unordered' = FALSE /\ copied' = <<>>

\* The loop is at the end of a row, or before the first one.
RowDone == phase = "fetch" /\ (col = 0 \/ col > ncols)

\* r.next() inside the rowset: the driver's cursor stays where it is.
MoveInRowset ==
  /\ RowDone /\ col # 0 /\ pos + 1 < Len(cells)
  /\ pos' = pos + 1 /\ col' = 1 /\ copied' = <<>> /\ trouble' = trouble \ {"again"}
  /\ UNCHANGED <<settings, phase, ncols, types, cols, bound, rowset, cells, nulls, read, unordered>>

\* r.next() with the next rowset; after a rowset that is not full there is none.
MoveRowset ==
  /\ RowDone /\ (cells = <<>> \/ pos + 1 >= rowset)
  /\ FetchRowset(cols, bound)
  /\ trouble' = trouble \ {"again"}
  /\ UNCHANGED <<settings, phase, ncols, types, cols, bound, rowset>>

\* nextResultSet(): next_result() binds the columns of the new set afresh.
NextSet ==
  /\ RowDone /\ pos + 1 >= Len(cells)
  /\ \E cs \in Layouts :
       /\ cols' = cs /\ bound' = AutoBind(cs)
       /\ FetchRowset(cs, AutoBind(cs))
  /\ trouble' = {"later"}
  /\ UNCHANGED <<settings, phase, ncols, types, rowset>>

-----------------------------------------------------------------------------
(* dbFetch *)

\* SQLGetData may be called for any column at any time: what drivers say of that is not to be
\* trusted, so it goes by their names.
get_data_any_order == product # [dbms |-> "Microsoft SQL Server", driver |-> "msodbcsql"]

\* unbind_if_needed(): from the first column without a buffer on, none keeps one.
ToUnbind ==
  IF get_data_any_order THEN {}
  ELSE {i \in bound : i <= ncols /\ \E j \in 1..i : j \notin bound}

\* Mutant: found_unbound is forgotten from one column to the next.
UnbindForgetful(failing) == bound

\* The columns left bound when SQLBindCol fails for column failing (0: for none).
Unbind(failing) == bound \ (IF failing = 0 THEN ToUnbind ELSE {i \in ToUnbind : i < failing})

\* The types of this call are those of the result set it starts in.
FetchBegin ==
  /\ phase = "ready" /\ ncols <= Len(cols)
  /\ \E failing \in {0} \cup (IF "unbind" \in Faults THEN ToUnbind ELSE {}) :
       /\ bound' = Unbind(failing)
       /\ trouble' = (trouble \ {"later"}) \cup (IF failing = 0 THEN {} ELSE {"unbind"})
  /\ types' = [i \in 1..ncols |-> RType(cols[i], mapping)]
  /\ phase' = "fetch"
  /\ UNCHANGED <<settings, ncols, cols, rowset, cells, pos, nulls, col, read, unordered, copied>>

\* A later result set with fewer columns: index_range_error, after the columns it has.
FetchTooFew ==
  /\ phase = "ready" /\ ncols > Len(cols)
  /\ bound' = Unbind(0)
  /\ UNCHANGED <<settings, phase, ncols, types, cols, rowset, cells, pos, nulls, col, read,
                 unordered, copied, trouble>>

\* n_max rows are copied, and the next row has already been moved to; or n_max is zero.
FetchFull ==
  /\ phase = "fetch" /\ col <= 1
  /\ phase' = "ready" /\ types' = <<>>
  /\ UNCHANGED <<settings, ncols, cols, bound, rowset, cells, pos, nulls, col, read, unordered,
                 copied, trouble>>

\* No rows and no result sets are left.
FetchComplete ==
  /\ RowDone /\ pos + 1 >= Len(cells)
  /\ phase' = "complete" /\ types' = <<>>
  /\ UNCHANGED <<settings, ncols, cols, bound, rowset, cells, pos, nulls, col, read, unordered,
                 copied, trouble>>

\* A conversion or SQLGetData throws: the next dbFetch starts the row again.
CellThrows ==
  /\ phase' = "ready" /\ types' = <<>> /\ col' = 1 /\ copied' = <<>>
  /\ trouble' = trouble \cup {"again"}
  /\ UNCHANGED <<settings, ncols, cols, bound, rowset, cells, pos, nulls>>

CopyCell(v) ==
  /\ copied' = Append(copied, v) /\ col' = col + 1
  /\ UNCHANGED <<settings, phase, ncols, types, cols, bound, rowset, cells, pos, trouble>>

AtCell == phase = "fetch" /\ col \in 1..ncols
IsNull == <<pos, col>> \in nulls

\* is_null() before get()
CopyKnownNull ==
  /\ AtCell /\ col <= Len(cols) /\ IsNull
  /\ CopyCell(NA)
  /\ UNCHANGED <<nulls, read, unordered>>

\* get() of a column that has a buffer
CopyBuffered ==
  /\ AtCell /\ col \in bound /\ ~IsNull /\ Readable(types[col], cols[col])
  /\ CopyCell(Convert(types[col], cols[col], Buffered(cols[col], cells[pos + 1][col])))
  /\ UNCHANGED <<nulls, read, unordered>>

\* A call of SQLGetData for column col.
CallGetData ==
  /\ AtCell /\ col \in (1..Len(cols)) \ bound /\ ~IsNull /\ Readable(types[col], cols[col])
  /\ read' = read \cup {col}
  /\ unordered' = (unordered \/ \E i \in read \cup bound : i >= col)

\* SQLGetData reads the row of the driver's cursor, the first one of the rowset; a NULL is
\* noted in the indicator, which is_null() after get() finds.
CopyGetData ==
  /\ CallGetData
  /\ col \notin read
  /\ IF cells[1][col] = Null
     THEN nulls' = nulls \cup {<<pos, col>>} /\ CopyCell(NA)
     ELSE /\ nulls' = nulls
          /\ CopyCell(Convert(types[col], cols[col],
                              Assembled(types[col], cols[col], cells[1][col])))

\* A value that has been read is gone: SQL_NO_DATA leaves the length unset, and what the
\* variable holds decides between NULL and whatever is in the buffer.
CopyAgain ==
  /\ CallGetData
  /\ col \in read
  /\ \/ nulls' = nulls \cup {<<pos, col>>} /\ CopyCell(NA)
     \/ nulls' = nulls /\ CopyCell(Spoilt(0))

GetDataFails ==
  /\ "getdata" \in Faults \/ rowset > 1 \/ col \in read
  /\ CallGetData
  /\ nulls' = nulls
  /\ CellThrows

\* index_range_error or type_incompatible_error
CellFails ==
  /\ AtCell
  /\ col <= Len(cols) => ~IsNull /\ ~Readable(types[col], cols[col])
  /\ CellThrows
  /\ UNCHANGED <<read, unordered>>

Next ==
  \/ Execute \/ MoveInRowset \/ MoveRowset \/ NextSet
  \/ FetchBegin \/ FetchTooFew \/ FetchFull \/ FetchComplete
  \/ CopyKnownNull \/ CopyBuffered \/ CopyGetData \/ CopyAgain \/ GetDataFails \/ CellFails

Spec == Init /\ [][Next]_vars

-----------------------------------------------------------------------------
(* Properties. *)

TypeOK ==
  /\ settings \in Settings
  /\ phase \in {"ready", "fetch", "complete"}
  /\ cols \in Layouts /\ ncols \in Nat
  /\ Len(types) \in {0, ncols}
  /\ bound \subseteq 1..Len(cols)
  /\ rowset \in 1..MaxRowset /\ Len(cells) <= rowset
  /\ \A p \in 1..Len(cells) : cells[p] \in Row(cols)
  /\ pos \in 0..(MaxRowset - 1)
  /\ nulls \subseteq (0..(rowset - 1)) \X (1..Len(cols))
  /\ col \in 0..(ncols + 1)
  /\ read \subseteq 1..Len(cols)
  /\ unordered \in BOOLEAN
  /\ trouble \subseteq Troubles

\* The type of this call is the column's own, for the copied column i.
OwnType(i) == i <= Len(cols) /\ types[i] = RType(cols[i], mapping)

\* The limits of the code, which the property leaves out: a BIGINT longer than what it is
\* mapped to holds is narrowed or cut, a text of unknown type is cut to its buffer without
\* the zero, bytes of several pieces lose all but the last under SQL_NO_TOTAL.
Fits(i, n) ==
  /\ cols[i] = "bigint" => n <= Fitting[types[i]]
  /\ cols[i] = "other" /\ i \in bound => n < OtherSize
  /\ cols[i] = "binary" /\ noTotal => n <= BufferSize

\* Every cell of a row reaches R as the driver has it, NULL as NA and a value whole, through
\* buffers, unbound buffers and pieces alike, and no NULL of an earlier row sticks: for rows
\* fetched one by one, or columns with a buffer; not after the row's copying has failed half
\* way, not through the types of another result set, and within the limits of the code.
CellsWhole ==
  \A i \in 1..Len(copied) :
    LET n == cells[pos + 1][i]
    IN  phase = "fetch" /\ "again" \notin trouble /\ OwnType(i) /\ (rowset = 1 \/ i \in bound)
          => IF n = Null THEN copied[i] = NA ELSE Fits(i, n) => copied[i] = Exact(n)

\* A dbFetch goes on into the next result set with the types of the first.  Where those are
\* text, a whole number, a date or a time of the later set reaches R as its complete text, up
\* to the very length that its column is said to have.
TextWhole ==
  \A i \in 1..Len(copied) :
    LET n == cells[pos + 1][i]
    IN  /\ phase = "fetch" /\ "again" \notin trouble /\ types[i] \in {"string", "ustring"}
        /\ i \in bound /\ cols[i] \in Printable \ {"double", "timestamp"} /\ n # Null
        => (cols[i] = "bigint" /\ n > Fitting["string"]) \/ copied[i] = Exact(n)

\* "This is done by unbinding any nanodbc buffer past the long column" (NEWS.md): for a
\* driver that needs it, SQLGetData is called in the order of the columns and only for
\* columns behind the last bound one, in every result set a dbFetch starts in that has as
\* many columns as the first one.
GetDataInOrder ==
  ~get_data_any_order /\ rowset = 1 /\ ncols = Len(cols) /\ trouble = {} => ~unordered

\* The tables of column_types(), auto_bind() and get_ref_impl() agree: a column read as its
\* own type never ends in type_incompatible_error.
OwnTypeReadable ==
  AtCell /\ OwnType(col) => Readable(types[col], cols[col])

\* What dbFetch returns is what the driver has: no column is refused as its own type, no cell is
\* cut, changed or taken for a NULL, and none is turned into less than its text.
CellsExact == TypeOK /\ OwnTypeReadable /\ CellsWhole /\ TextWhole
=============================================================================
