--------------------------- MODULE BindParameters ---------------------------
(***************************************************************************)
(* How dbBind() hands the columns of a list to the driver.  ODBC does not  *)
(* copy a parameter when it is bound: SQLBindParameter keeps two pointers, *)
(* to the values and to their lengths or NULLs, and SQLExecute reads       *)
(* through them.  The memory belongs to the R vectors, to the buffers of   *)
(* odbc_result, to the statement or to a table-valued parameter, and each  *)
(* of them is renewed or freed by calls of its own.                        *)
(*                                                                         *)
(* A value is the number of its row, Missing stands for NA and for NULL,   *)
(* and Garbage for anything the caller did not give.                       *)
(***************************************************************************)
EXTENDS Integers, Sequences, FiniteSets

CONSTANTS
  ParamTypes,  \* the parameter lists a query may have: sequences over SqlTypes
  TableCols,   \* number of columns of a table type
  Calls,       \* the dbBind() calls: records [x, batch_rows]
  MaxBinds     \* bound: dbBind() calls on one result

SqlTypes == {"plain", "table"}

(***************************************************************************)
(* R types that are bound alike have one name: direct is a logical, an     *)
(* integer or a double; buffered is a Date or a difftime stored as double; *)
(* datetime is a POSIXct stored as double; date_int and datetime_int are   *)
(* stored as integers; other has no column type.                           *)
(***************************************************************************)
VectorTypes == {"direct", "string", "raw", "buffered", "datetime", "date_int",
                "datetime_int", "other"}

Missing == 0
Garbage == -1

IsVector(v) == v.type \in VectorTypes /\ v.vals \in Seq(Nat)
IsList(s) == DOMAIN s = 1 .. Len(s) /\ Len(s) \in Nat
IsTable(v) ==
  /\ v.type = "dataframe" /\ IsList(v.cols) /\ Len(v.cols) > 0
  /\ \A c \in DOMAIN v.cols : IsVector(v.cols[c]) /\ Len(v.cols[c].vals) = Len(v.cols[1].vals)

ASSUME ParamTypesAssumption == ParamTypes \subseteq Seq(SqlTypes) /\ <<>> \notin ParamTypes
ASSUME TableColsAssumption == TableCols \in Nat
ASSUME MaxBindsAssumption == MaxBinds \in Nat
ASSUME CallsAssumption ==
  \A c \in Calls : /\ c.batch_rows \in Nat \ {0} /\ IsList(c.x)
                   /\ \A p \in DOMAIN c.x : IsVector(c.x[p]) \/ IsTable(c.x[p])

VARIABLES
  sqlTypes,   \* the parameters of the prepared query
  describes,  \* the driver supports SQLDescribeParam
  descr,      \* param_descr_data_ of the statement: what each parameter is taken for
  apd,        \* the driver's bindings, for parameters and columns of tables
  tvps,       \* tvp_data_: the parameters that own a table_valued_parameter
  open_tvp,   \* open_tvp_
  temporary,  \* the parameters whose last table is not the one in tvp_data_
  phase,      \* where bind_list() is
  call,       \* its arguments
  start,      \* rows of the earlier batches
  col,        \* the parameter bound next
  tcol,       \* the column of its data frame bound next
  got,        \* per parameter, the rows the driver has read
  binds,      \* number of calls so far
  error,      \* how the last call ended
  broken      \* a call has failed while its table was open

result == <<call, start, col, tcol>>
vars == <<sqlTypes, describes, descr, apd, tvps, open_tvp, temporary, phase, result, got,
          binds, error, broken>>

Params == DOMAIN sqlTypes
Places == Params \X (0 .. TableCols)  \* column 0 is the parameter itself

NoCall == [x |-> <<>>, batch_rows |-> 1]
Freed == [owner |-> <<"freed", 0>>, data |-> <<>>]
Unbound == [value |-> Freed, len |-> Freed]

(***************************************************************************)
(* Buffers and their owners.                                               *)
(***************************************************************************)

\* The driver's bindings once the memory of some owners is gone.
Free(a, owners) ==
  LET After(b) == IF b.owner \in owners THEN Freed ELSE b
  IN  [q \in DOMAIN a |-> [value |-> After(a[q].value), len |-> After(a[q].len)]]

All(kind) == {<<kind, p>> : p \in Params}

\* Whose memory the values of a parameter are in: the R vector itself, or a copy.
Holder(type, p) ==
  CASE type = "direct" -> <<"list", p>>
    [] type = "string" -> <<"string_data_", p>>
    [] type = "raw" -> <<"binary_data_", p>>
    [] OTHER -> <<"buffers_", p>>

\* The same for a column of a table: its text and its bytes are in the table_valued_parameter.
MutTvpImpl(p) == <<"table on the stack", p>>  \* mutant: a copy is not kept
TvpImpl(p) == <<IF p \in temporary THEN "table on the stack" ELSE "tvp_data_", p>>
TvpHolder(type, p) ==
  CASE type = "direct" -> <<"list", p>>
    [] type \in {"string", "raw"} -> TvpImpl(p)
    [] OTHER -> <<"tvp_buffers_", p>>

(***************************************************************************)
(* The values of a slice, and their flags in nulls_.                       *)
(***************************************************************************)
At(v, i) == IF i \in DOMAIN v.vals THEN v.vals[i] ELSE Garbage

\* An NA in an integer is not one in the double it is turned into.
Stored(v, from, n) ==
  [i \in 1 .. n |-> IF At(v, from + i) = Missing THEN Garbage ELSE At(v, from + i)]

\* bind_columns() goes on from an integer Date to the case of a double one, which overwrites
\* the flags with what it reads at double width: the NAs of neither are found, and beyond
\* half of the vector it reads what follows the vector.
NullFlags(v, from, n) ==
  CASE v.type = "datetime_int" -> {[i \in 1 .. n |-> FALSE]}
    [] v.type = "date_int" ->
         {f \in [1 .. n -> BOOLEAN] : \A i \in 1 .. n : 2 * (from + i) <= Len(v.vals) => ~f[i]}
    [] OTHER -> {[i \in 1 .. n |-> At(v, from + i) = Missing]}

\* bind_len_or_null_: SQL_NULL_DATA where flagged, a length elsewhere.
LenOrNull(nulls) == [i \in DOMAIN nulls |-> IF nulls[i] THEN Missing ELSE 1]

(***************************************************************************)
(* The driver: what it reads at a place for row i.  The length vector has  *)
(* eight entries or more, SQL_NULL_DATA unless set.                        *)
(***************************************************************************)
NullPointer == [owner |-> <<"null pointer", 0>>, data |-> <<>>]
Read(q, i) ==
  LET b == apd[q] IN
  CASE Freed \in {b.value, b.len} -> Garbage
    [] b.len # NullPointer /\ (i > Len(b.len.data) \/ b.len.data[i] = Missing) -> Missing
    [] OTHER -> IF i \in DOMAIN b.value.data THEN b.value.data[i] ELSE Garbage

TableBinding(p, rows) ==
  [value |-> [owner |-> <<"table type", p>>, data |-> <<rows>>],
   len |-> [owner |-> <<"bind_len_or_null_", p>>, data |-> <<1>>]]

IsTableBinding(p) == apd[<<p, 0>>].value.owner = <<"table type", p>>

\* A row of a parameter is a sequence of columns; a scalar has one column with one row.
RowRead(p, i) ==
  IF call.x[p].type # "dataframe" THEN << <<Read(<<p, 0>>, i)>> >>
  ELSE IF ~IsTableBinding(p) THEN <<>>
  ELSE [c \in 1 .. Len(call.x[p].cols) |->
          [j \in 1 .. apd[<<p, 0>>].value.data[1] |-> Read(<<p, c>>, j)]]

\* The same row as the caller gave it.
RowGiven(p, i) ==
  IF call.x[p].type # "dataframe" THEN << <<At(call.x[p], i)>> >>
  ELSE [c \in 1 .. Len(call.x[p].cols) |-> call.x[p].cols[c].vals]

(***************************************************************************)
(* The steps of bind_list().                                               *)
(***************************************************************************)
Rows(v) == IF v.type = "dataframe" THEN Len(v.cols[1].vals) ELSE Len(v.vals)

\* get_parameter_rows(): the length of the first parameter that is not a data frame.
ParameterRows(x) ==
  LET vectors == {p \in DOMAIN x : x[p].type # "dataframe"}
  IN  IF vectors = {} THEN 1
      ELSE Len(x[CHOOSE p \in vectors : \A q \in vectors : p <= q].vals)

MutBatchSize == call.batch_rows  \* mutant: the last batch is not cut
BatchSize ==
  LET left == ParameterRows(call.x) - start
  IN  IF call.batch_rows > left THEN left ELSE call.batch_rows

Init ==
  /\ sqlTypes \in ParamTypes
  /\ describes \in BOOLEAN
  /\ descr = [p \in Params |-> "unknown"]
  /\ apd = [q \in Places |-> Unbound]
  /\ tvps = {} /\ open_tvp = FALSE /\ temporary = {}
  /\ phase = "idle" /\ call = NoCall /\ start = 0 /\ col = 1 /\ tcol = 1
  /\ got = [p \in Params |-> <<>>]
  /\ binds = 0 /\ error = "none" /\ broken = FALSE

\* A call returns or throws: nothing protects the list any more.
Return(a, to, why) ==
  /\ apd' = Free(a, All("list"))
  /\ phase' = to
  /\ error' = why

\* odbc_result::describe_parameters(): dbAppendTable() says what the columns are.
DescribeParameters(ps) ==
  /\ phase = "idle" /\ binds = 0
  /\ descr' = [p \in Params |-> IF p \in ps THEN sqlTypes[p] ELSE descr[p]]
  /\ UNCHANGED <<sqlTypes, describes, apd, tvps, open_tvp, temporary, phase, result, got,
                 binds, error, broken>>

Unsupported(v) == v.type = "other"

BindCall(c) ==
  /\ phase \in {"idle", "bound"} /\ binds < MaxBinds
  /\ binds' = binds + 1
  /\ call' = c /\ start' = 0
  /\ got' = [p \in Params |-> <<>>]
  /\ IF \/ \E p \in DOMAIN c.x : Unsupported(c.x[p])
        \/ Len(c.x) # Len(sqlTypes)
     THEN phase' = "idle" /\ error' = "rejected"
     ELSE phase' = "batch" /\ error' = "none"
  /\ UNCHANGED <<sqlTypes, describes, descr, apd, tvps, open_tvp, temporary, col, tcol, broken>>

\* clear_buffers(), then the columns one by one.
BatchBegin ==
  /\ phase = "batch" /\ start < ParameterRows(call.x)
  /\ apd' = Free(apd, All("buffers_") \cup All("tvp_buffers_"))
  /\ col' = 1 /\ phase' = "column"
  /\ UNCHANGED <<sqlTypes, describes, descr, tvps, open_tvp, temporary, call, start, tcol, got,
                 binds, error, broken>>

BatchesDone ==
  /\ phase = "batch" /\ start >= ParameterRows(call.x)
  /\ Return(apd, "bound", "none")
  /\ UNCHANGED <<sqlTypes, describes, descr, tvps, open_tvp, temporary, result, got, binds, broken>>

AtVector == phase = "column" /\ col \in Params /\ call.x[col].type # "dataframe"
AtTable == phase = "column" /\ col \in Params /\ call.x[col].type = "dataframe"

\* parameter_type() of get_tz_bind_info(): asks the driver, and throws when it cannot say.
AsksType(v) == v.type \in {"datetime", "datetime_int"}
TypeUnknown(v) == AsksType(v) /\ descr[col] = "unknown" /\ ~describes

\* prepare_bind(): describes the parameter, as a VARCHAR(255) if the driver cannot, and renews
\* the length vector.  get_tz_bind_info() never lets an undescribed one come so far.
Described(p) ==
  [descr EXCEPT ![p] = IF @ # "unknown" THEN @ ELSE IF describes THEN sqlTypes[p] ELSE "varchar"]
Prepared(p, type) == Free(apd, {<<"bind_len_or_null_", p>>, Holder(type, p)} \ All("list"))

\* Only text is bound without a look at open_tvp_: with a table left open it may go to a
\* column of that table.
VectorPlaces == {<<col, 0>>} \cup IF open_tvp THEN {q \in Places : q[1] \in tvps /\ q[2] = col} ELSE {}

BindColumn ==
  LET v == call.x[col] IN
  /\ AtVector /\ ~TypeUnknown(v)
  /\ ~open_tvp \/ v.type = "string"
  /\ Described(col)[col] # "table"  \* the driver takes no vector for a table
  /\ descr' = Described(col)
  /\ \E nulls \in NullFlags(v, start, BatchSize), q \in VectorPlaces :
       apd' = [Prepared(col, v.type) EXCEPT ![q] =
                 [value |-> [owner |-> Holder(v.type, col), data |-> Stored(v, start, BatchSize)],
                  len |-> [owner |-> <<"bind_len_or_null_", col>>, data |-> LenOrNull(nulls)]]]
  /\ col' = col + 1
  /\ UNCHANGED <<sqlTypes, describes, tvps, open_tvp, temporary, phase, call, start, tcol, got,
                 binds, error, broken>>

\* SQLBindParameter fails, a table is still open, or the type of a POSIXct is not known.
BindColumnFails ==
  LET v == call.x[col] IN
  /\ AtVector
  /\ IF TypeUnknown(v)
     THEN /\ Return(apd, "idle", "describe")
          /\ UNCHANGED descr
     ELSE /\ Return(Prepared(col, v.type), "idle",
                    IF open_tvp /\ v.type # "string" THEN "open table" ELSE "driver")
          /\ descr' = Described(col)
  /\ UNCHANGED <<sqlTypes, describes, tvps, open_tvp, temporary, result, got, binds, broken>>

(***************************************************************************)
(* bind_df(): a table_valued_parameter on the stack, with a copy in        *)
(* tvp_data_ unless that has one for the parameter.                        *)
(***************************************************************************)
Refused ==
  \/ \E c \in DOMAIN call.x[col].cols : Unsupported(call.x[col].cols[c])
  \/ open_tvp
  \/ Described(col)[col] # "table"

OpenTvp ==
  /\ AtTable /\ ~Refused
  /\ descr' = Described(col)
  /\ apd' = [Prepared(col, "direct") EXCEPT ![<<col, 0>>] = TableBinding(col, Rows(call.x[col]))]
  /\ temporary' = temporary \cup (tvps \cap {col})
  /\ tvps' = tvps \cup {col}
  /\ open_tvp' = TRUE
  /\ tcol' = 1 /\ phase' = "table"
  /\ UNCHANGED <<sqlTypes, describes, call, start, col, got, binds, error, broken>>

\* Before the table is open nothing is left behind but the description.
OpenTvpRefused ==
  /\ AtTable /\ Refused
  /\ LET types == \E c \in DOMAIN call.x[col].cols : Unsupported(call.x[col].cols[c])
         early == types \/ open_tvp
     IN  /\ descr' = IF early THEN descr ELSE Described(col)
         /\ Return(IF early THEN apd ELSE Prepared(col, "direct"), "idle",
                   IF ~types /\ open_tvp THEN "open table" ELSE "driver")
  /\ UNCHANGED <<sqlTypes, describes, tvps, open_tvp, temporary, result, got, binds, broken>>

\* The table is destroyed when an exception leaves bind_df(), and closed then; the one in
\* tvp_data_ is kept and stays open.
TvpUnwinds ==
  /\ open_tvp' \in IF col \in temporary THEN {FALSE, TRUE} ELSE {TRUE}
  /\ broken' = TRUE
  /\ Return(Free(apd, All("table on the stack")), "idle", "driver")

\* open() fails after it has entered the table in tvp_data_.
OpenTvpFails ==
  /\ AtTable /\ ~Refused
  /\ descr' = Described(col)
  /\ temporary' = temporary \cup (tvps \cap {col})
  /\ tvps' = tvps \cup {col}
  /\ open_tvp' \in IF col \in temporary' THEN {FALSE, TRUE} ELSE {TRUE}
  /\ broken' = TRUE
  /\ Return(Prepared(col, "direct"), "idle", "driver")
  /\ UNCHANGED <<sqlTypes, describes, result, got, binds>>

\* SQLBindParameter counts the columns of the table in focus, or the parameters of the
\* statement when there is none, as for a table without rows.
Target(c) == IF Rows(call.x[col]) > 0 THEN <<col, c>> ELSE <<c, 0>>

\* The text of a one-row table is bound without a length vector.
TvpLengths(v, nulls) ==
  IF v.type = "string" /\ Rows(call.x[col]) <= 1 THEN NullPointer
  ELSE [owner |-> TvpImpl(col), data |-> LenOrNull(nulls)]

TvpColumn ==
  LET v == call.x[col].cols[tcol]
      n == Rows(call.x[col])
  IN
  /\ phase = "table" /\ tcol <= Len(call.x[col].cols) /\ tcol <= TableCols
  /\ \E nulls \in NullFlags(v, 0, n) :
       apd' = [q \in Places |->
                 IF q = Target(tcol)
                 THEN [value |-> [owner |-> TvpHolder(v.type, col), data |-> Stored(v, 0, n)],
                       len |-> TvpLengths(v, nulls)]
                 ELSE apd[q]]
  /\ tcol' = tcol + 1
  /\ UNCHANGED <<sqlTypes, describes, descr, tvps, open_tvp, temporary, phase, call, start, col,
                 got, binds, error, broken>>

\* A column the table type does not have, or one SQLBindParameter refuses.
TvpColumnFails ==
  /\ phase = "table" /\ tcol <= Len(call.x[col].cols)
  /\ TvpUnwinds
  /\ UNCHANGED <<sqlTypes, describes, descr, tvps, temporary, result, got, binds>>

\* Mutant: close() leaves the statement alone when there is no focus to reset.
MutTvpClose ==
  /\ phase = "table" /\ tcol > Len(call.x[col].cols)
  /\ open_tvp' = (Rows(call.x[col]) = 0)
  /\ apd' = Free(apd, All("table on the stack"))
  /\ col' = col + 1 /\ phase' = "column"
  /\ UNCHANGED <<sqlTypes, describes, descr, tvps, temporary, call, start, tcol, got, binds,
                 error, broken>>
TvpClose ==
  /\ phase = "table" /\ tcol > Len(call.x[col].cols)
  /\ open_tvp' = FALSE
  /\ apd' = Free(apd, All("table on the stack"))
  /\ col' = col + 1 /\ phase' = "column"
  /\ UNCHANGED <<sqlTypes, describes, descr, tvps, temporary, call, start, tcol, got, binds,
                 error, broken>>

\* The focus cannot be reset.
TvpCloseFails ==
  /\ phase = "table" /\ tcol > Len(call.x[col].cols) /\ Rows(call.x[col]) > 0
  /\ TvpUnwinds
  /\ UNCHANGED <<sqlTypes, describes, descr, tvps, temporary, result, got, binds>>

Execute ==
  /\ phase = "column" /\ col > Len(sqlTypes)
  /\ tvps = {} \/ BatchSize = 1
  /\ got' = [p \in Params |-> got[p] \o [i \in 1 .. BatchSize |-> RowRead(p, i)]]
  /\ start' = start + call.batch_rows
  /\ phase' = "batch"
  /\ UNCHANGED <<sqlTypes, describes, descr, apd, tvps, open_tvp, temporary, call, col, tcol,
                 binds, error, broken>>

ExecuteFails ==
  /\ phase = "column" /\ col > Len(sqlTypes)
  /\ Return(apd, "idle", "driver")
  /\ UNCHANGED <<sqlTypes, describes, descr, tvps, open_tvp, temporary, result, got, binds, broken>>

Next ==
  \/ \E ps \in SUBSET Params : DescribeParameters(ps)
  \/ \E c \in Calls : BindCall(c)
  \/ BatchBegin \/ BatchesDone
  \/ BindColumn \/ BindColumnFails
  \/ OpenTvp \/ OpenTvpRefused \/ OpenTvpFails
  \/ TvpColumn \/ TvpColumnFails \/ TvpClose \/ TvpCloseFails
  \/ Execute \/ ExecuteFails

Spec == Init /\ [][Next]_vars

-----------------------------------------------------------------------------
(* Properties *)

Kinds == {"freed", "null pointer", "list", "string_data_", "binary_data_", "buffers_",
          "tvp_buffers_", "tvp_data_", "table on the stack", "table type", "bind_len_or_null_"}
Buffers == [owner : Kinds \X (Params \cup {0}), data : Seq(Int)]

\* The variables have their types; in particular a data frame is only ever bound to a
\* parameter that is described as a table.
TypeOK ==
  /\ sqlTypes \in ParamTypes /\ describes \in BOOLEAN
  /\ descr \in [Params -> SqlTypes \cup {"unknown", "varchar"}]
  /\ \A q \in Places : apd[q].value \in Buffers /\ apd[q].len \in Buffers
  /\ tvps \subseteq {p \in Params : descr[p] = "table"}
  /\ temporary \subseteq tvps /\ {open_tvp, broken} \subseteq BOOLEAN
  /\ phase \in {"idle", "bound", "batch", "column", "table"}
  /\ call \in Calls \cup {NoCall} /\ start \in Nat
  /\ col \in 1 .. Len(sqlTypes) + 1 /\ tcol \in 1 .. TableCols + 1
  /\ DOMAIN got = Params
  /\ binds \in 0 .. MaxBinds
  /\ error \in {"none", "rejected", "driver", "describe", "open table"}

AboutToExecute == phase = "column" /\ col > Len(sqlTypes)
IntegerStored(v) == v.type \in {"date_int", "datetime_int"}
SoundVector(v) == ~(IntegerStored(v) /\ (v.type = "date_int" \/ \E i \in DOMAIN v.vals : v.vals[i] = Missing))
SoundTable(v) ==
  /\ \A c \in DOMAIN v.cols : SoundVector(v.cols[c])
  /\ Rows(v) > 0
  /\ Rows(v) = 1 => \A c \in DOMAIN v.cols : v.cols[c].type = "string" => v.cols[c].vals[1] # Missing

(***************************************************************************)
(* What the driver has read by then is the beginning of what the caller    *)
(* gave, value by value and NA as NULL, over all batches, and all of it    *)
(* when dbBind() returns: bind_list() never lets SQLExecute read through a *)
(* pointer of an earlier batch or call, or of another parameter.  The four *)
(* cases in which it does are left out: Dates stored as integers and NAs   *)
(* in date-times stored as integers, a data frame without rows, an NA in   *)
(* the text of a data frame with one row, and a second data frame for one  *)
(* parameter.                                                              *)
(***************************************************************************)
SoundCall ==
  /\ \A p \in DOMAIN call.x :
       IF call.x[p].type = "dataframe" THEN SoundTable(call.x[p]) ELSE SoundVector(call.x[p])
  /\ temporary = {}
RowsAsGiven ==
  SoundCall =>
    \A p \in Params :
      /\ \A i \in DOMAIN got[p] : got[p][i] = RowGiven(p, i)
      /\ phase = "bound" => Len(got[p]) = ParameterRows(call.x)

(***************************************************************************)
(* Whenever SQLExecute is called every binding of a parameter points to    *)
(* memory that still exists, whatever failed before: clear_buffers() and   *)
(* prepare_bind() free what the driver still points to, and the rest of    *)
(* the batch replaces those pointers.  Not so for a second data frame.     *)
(***************************************************************************)
ReadsLiveMemory ==
  AboutToExecute /\ temporary = {} =>
    \A p \in Params :
      \A c \in {0} \cup IF call.x[p].type = "dataframe" /\ Rows(call.x[p]) > 0
                        THEN DOMAIN call.x[p].cols ELSE {} :
        Freed \notin {apd[<<p, c>>].value, apd[<<p, c>>].len}

(***************************************************************************)
(* A statement can be bound again after a failure, unless the failure left *)
(* a table open: the statement then refuses every data frame for good.     *)
(***************************************************************************)
ReusableUnlessBroken ==
  /\ error = "open table" => broken
  /\ phase \in {"idle", "bound", "batch"} /\ ~broken => ~open_tvp

\* The driver is given no pointer to memory that is gone, and no data frame for a parameter that
\* is not a table.
BuffersSound == TypeOK /\ ReadsLiveMemory
=============================================================================
