-------------------------------- MODULE Catalog --------------------------------
(***************************************************************************)
(* The listings: the tables, columns, catalogs, schemas and table types of *)
(* a database, read row by row from a result set of the driver through     *)
(* nanodbc's accessors, and the drivers and data sources of the system,    *)
(* read from the driver manager.  A listing runs on the main thread; when  *)
(* a call of it fails, Diagnostics makes the error.                        *)
(*                                                                         *)
(* Columns are numbered as the code numbers them, from 0.  The value of    *)
(* column c in row r is <<r, c>>, a NULL is the absence of a value.        *)
(***************************************************************************)
EXTENDS Diagnostics, SequencesExt

\* A search argument: a null pointer, no character, the wildcard or a name.
Arguments == {"null", "", "%", "name"}

CONSTANTS
  MaxRows,    \* bound: rows of a listing
  Rows,       \* bound: its rows, see RowsAssumption
  Searches,   \* bound: the arguments of odbcConnectionTables, see SearchesAssumption
  LongSets,   \* the sets of columns that a driver may describe without a length
  Drivers     \* the drivers that may be installed, see DriversAssumption

ASSUME RowsAssumption == MaxRows \in Nat /\ Rows \subseteq [null: SUBSET (0..17), nullable: 0..2]
ASSUME SearchesAssumption ==
  Searches \subseteq [catalog: Arguments, schema: Arguments, table: Arguments, type: Arguments]
\* attrs are the strings of a driver's attributes, "bare" for one without '=';
\* closed: the returned length counts the NUL of the last; cut: they did not fit.
ASSUME DriversAssumption ==
  Drivers \subseteq [attrs: Seq({"pair", "bare"}), closed: BOOLEAN, cut: BOOLEAN]

VARIABLES
  kind,      \* the running listing, or "none"
  at,        \* its next call: "call", "bind", "next", "read", "enum", or "raising", "thrown", "done"
  asked,     \* its search arguments
  answer,    \* what the driver will return
  long,      \* the columns that have no buffer
  strict,    \* SQLGetData refuses a column before a bound one or before the last one read
  owners,    \* the objects that keep the handle alive
  row,       \* the row the result is on
  todo,      \* the accessors still to be called on it
  nulls,     \* the columns whose cbdata_ is SQL_NULL_DATA
  lastGet,   \* the last column SQLGetData has read of the row, -1 for none
  lists,     \* the vectors
  cause      \* why a listing threw: "none", "refused", "order", "null" or "format"
listVars == <<kind, at, asked, answer, long, strict, owners, row, todo, nulls, lastGet, lists, cause>>
vars == <<diagVars, listVars>>

--------------------------------------------------------------------------------
(* The result sets and their accessors *)

ColumnsOf(k) == IF k = "columns" THEN 0..17 ELSE 0..4

\* The accessors that a row is read with, in the order of the calls.
TablesAccessors == <<2, 3, 1, 4, 0>>
ColumnsAccessors == <<3, 2, 1, 0>> \o [j \in 1..13 |-> j + 3]
Accessors ==
  [tables |-> TablesAccessors, columns |-> ColumnsAccessors,
   catalogs |-> <<0>>, schemas |-> <<1>>, table_types |-> <<3>>]

\* catalog::tables: every accessor has a fallback.
TablesFallbacks == 0..4

\* Mutant: REMARKS is read like a column that is never NULL.
MutColumnsFallbacks == {0, 1, 8, 9, 12, 14, 15, 17}
\* catalog::columns: the accessors with a fallback.
ColumnsFallbacks == {0, 1, 8, 9, 11, 12, 14, 15, 17}

HasFallback(c) == c \in IF kind = "columns" THEN ColumnsFallbacks ELSE TablesFallbacks
Empty == <<0, 0>>

\* nullable is kept as a bool: SQL_NULLABLE_UNKNOWN counts as nullable.
Value(r, c) == IF kind = "columns" /\ c = 10 THEN answer[r].nullable # 0 ELSE <<r, c>>

\* A value that an accessor returned is put at the end of its vector.
Push(c, v) == lists' = [lists EXCEPT ![c] = Append(@, v)]

Search(catalog, schema, table, type) ==
  [catalog |-> catalog, schema |-> schema, table |-> table, type |-> type]
Everything == Search("null", "null", "null", "null")

\* The searches that make SQLTables enumerate the catalogs, the schemas or the types.
list_catalogs == Search("%", "", "", "")
list_schemas == Search("", "%", "", "")
list_table_types == Search("", "", "", "%")

\* SQLTables: an enumeration fills one column, every other search may fill them all.
Keys(s) ==
  {c \in {0, 1, 3} : s = CASE c = 0 -> Search("%", "", "", "")
                          [] c = 1 -> Search("", "%", "", "")
                          [] c = 3 -> Search("", "", "", "%")}
RowsFor(k, s) ==
  IF k # "columns" /\ Keys(s) # {}
  THEN {[null |-> ColumnsOf(k) \ Keys(s), nullable |-> 0]}
  ELSE {[r EXCEPT !.null = @ \cap ColumnsOf(k)] : r \in Rows}

Cleared ==
  /\ asked' = Everything /\ answer' = <<>> /\ long' = {} /\ strict' = FALSE
  /\ row' = 0 /\ todo' = <<>> /\ nulls' = {} /\ lastGet' = -1 /\ lists' = <<>>

\* An exception leaves the listing: its locals are destroyed, the handle with them.
Thrown(why) ==
  /\ at' = "thrown" /\ cause' = why /\ owners' = {} /\ Cleared
  /\ UNCHANGED <<diagVars, kind>>

\* A database_error first reads the records of the handle.
Raise(why) ==
  /\ Throw(FALSE, FALSE)
  /\ at' = "raising" /\ cause' = why /\ Cleared
  /\ UNCHANGED <<kind, owners>>
Refused == Raise("refused")

Init ==
  /\ DiagInit
  /\ kind = "none" /\ at = "done" /\ cause = "none"
  /\ asked = Everything /\ answer = <<>> /\ long = {} /\ strict = FALSE /\ owners = {}
  /\ row = 0 /\ todo = <<>> /\ nulls = {} /\ lastGet = -1 /\ lists = <<>>

Idle == kind = "none" /\ step = "none"

\* statement stmt(conn_): a refused SQLAllocHandle leaves no handle to ask for records.
Start(k, s) ==
  /\ Idle
  /\ kind' = k /\ at' = "call"
  /\ owners' = {"stmt"}
  /\ asked' = s
  /\ \E n \in 0..MaxRows : answer' \in [1..n -> RowsFor(k, s)]
  /\ long' \in {l \cap ColumnsOf(k) : l \in LongSets}
  /\ strict' \in BOOLEAN
  /\ lists' = [c \in Range(Accessors[k]) |-> <<>>]
  /\ row' = 0 /\ todo' = <<>> /\ nulls' = {} /\ lastGet' = -1 /\ cause' = "none"
  /\ UNCHANGED diagVars

ListTables == \E s \in Searches : Start("tables", s)
ListColumns == Start("columns", Everything)
ListCatalogs == Start("catalogs", list_catalogs)
ListSchemas == Start("schemas", list_schemas)
ListTableTypes == Start("table_types", list_table_types)

StartFails(k) ==
  /\ Idle /\ Throw(TRUE, FALSE)
  /\ kind' = k /\ at' = "raising" /\ cause' = "refused" /\ Cleared
  /\ UNCHANGED owners

\* SQLTables or SQLColumns.
Asked ==
  /\ at = "call"
  /\ \/ /\ at' = "bind"
        /\ UNCHANGED <<diagVars, kind, asked, answer, long, strict, owners, row, todo, nulls, lastGet, lists, cause>>
     \/ Refused
FindTables == kind # "columns" /\ Asked
FindColumns == kind = "columns" /\ Asked

\* find_tables() and find_columns() return with the result alone, the others go on.
Holders == IF kind \in {"tables", "columns"} THEN {"result"} ELSE {"stmt", "result"}

\* result find_result(stmt, 1): auto_bind describes the columns.
BindResult ==
  /\ at = "bind"
  /\ \/ /\ at' = "next" /\ owners' = Holders
        /\ UNCHANGED <<diagVars, kind, asked, answer, long, strict, row, todo, nulls, lastGet, lists, cause>>
     \/ Refused

\* Mutant: before_move() leaves the indicators of the columns without a buffer.
MutFetched(r) == (nulls \cap long) \cup (answer[r].null \ long)
\* before_move() clears the indicators, SQLFetchScroll writes those of the bound columns.
Fetched(r) == answer[r].null \ long

\* next(): the last row completes the listing.
NextRow ==
  /\ at = "next"
  /\ \/ /\ row < Len(answer)
        /\ row' = row + 1 /\ nulls' = Fetched(row + 1) /\ lastGet' = -1
        /\ todo' = Accessors[kind] /\ at' = "read"
        /\ UNCHANGED <<diagVars, kind, asked, answer, long, strict, owners, lists, cause>>
     \/ /\ row = Len(answer)
        /\ at' = "done" /\ owners' = {} /\ nulls' = {} /\ lastGet' = -1
        /\ UNCHANGED <<diagVars, kind, asked, answer, long, strict, row, todo, lists, cause>>
     \/ Refused

\* The accessor has returned; next() is called after the last one.
Advance ==
  /\ todo' = Tail(todo)
  /\ at' = IF Len(todo) = 1 THEN "next" ELSE "read"
  /\ UNCHANGED <<diagVars, kind, asked, answer, long, strict, owners, row, cause>>

\* get(column) and get(column, fallback) on a NULL that the indicator tells of.
ReadNull ==
  LET c == Head(todo) IN
  /\ at = "read" /\ c \in nulls
  /\ \/ HasFallback(c) /\ Push(c, Empty) /\ Advance /\ UNCHANGED <<nulls, lastGet>>
     \/ ~HasFallback(c) /\ Thrown("null")

ReadBound ==
  LET c == Head(todo) IN
  /\ at = "read" /\ c \notin nulls /\ c \notin long
  /\ Push(c, Value(row, c)) /\ Advance /\ UNCHANGED <<nulls, lastGet>>

\* A column without a buffer: SQLGetData tells that it is NULL only now, and a NULL is
\* read as an empty string whether or not there is a fallback.
InOrder(c) == c > lastGet /\ \A b \in ColumnsOf(kind) \ long : b < c
ReadLong ==
  LET c == Head(todo) IN
  /\ at = "read" /\ c \notin nulls /\ c \in long
  /\ \/ /\ strict => InOrder(c)
        /\ Push(c, IF c \in answer[row].null THEN Empty ELSE Value(row, c))
        /\ nulls' = IF c \in answer[row].null THEN nulls \cup {c} ELSE nulls
        /\ lastGet' = c
        /\ Advance
     \/ strict /\ ~InOrder(c) /\ Raise("order")

--------------------------------------------------------------------------------
(* list_drivers_() and list_data_sources_() *)

StartEnum(k) ==
  /\ Idle
  /\ kind' = k /\ at' = "enum" /\ owners' = {"env"}
  /\ \E n \in 0..MaxRows : answer' \in [1..n -> Drivers]
  /\ lists' = <<>> /\ row' = 0 /\ cause' = "none"
  /\ UNCHANGED <<diagVars, asked, long, strict, todo, nulls, lastGet>>

ListDrivers == StartEnum("drivers")
ListDataSources == StartEnum("data_sources")

\* The attributes that are followed by a NUL within the returned length.
Split(d) == IF d.closed \/ d.attrs = <<>> THEN d.attrs ELSE Front(d.attrs)

\* Mutant: a driver without attributes has no row.
MutDriverRows(k, d) == [j \in 1..Len(Split(d)) |-> <<k, j>>]
\* The rows of driver k: one for each attribute, and one for a driver without any.
DriverRows(k, d) ==
  IF Split(d) = <<>> THEN <<<<k, 0>>>> ELSE [j \in 1..Len(Split(d)) |-> <<k, j>>]

\* The answers that both treat alike: SQL_NO_DATA, SQL_SUCCESS_WITH_INFO, an error.
Ends ==
  \/ /\ row = Len(answer)
     /\ at' = "done" /\ owners' = {}
     /\ UNCHANGED <<diagVars, kind, asked, answer, long, strict, row, todo, nulls, lastGet, lists, cause>>
  \/ row < Len(answer) /\ answer[row + 1].cut /\ Raise("format")
  \/ Refused
Add(rows) ==
  /\ row' = row + 1 /\ lists' = lists \o rows
  /\ UNCHANGED <<diagVars, kind, at, asked, answer, long, strict, owners, todo, nulls, lastGet, cause>>

\* A string without '=' makes a value of negative length: std::length_error.
list_drivers ==
  /\ at = "enum" /\ kind = "drivers"
  /\ \/ Ends
     \/ LET d == answer[row + 1] IN
        /\ row < Len(answer) /\ ~d.cut
        /\ IF "bare" \in Range(Split(d)) THEN Thrown("format") ELSE Add(DriverRows(row + 1, d))

list_data_sources ==
  /\ at = "enum" /\ kind = "data_sources"
  /\ \/ Ends
     \/ row < Len(answer) /\ ~answer[row + 1].cut /\ Add(<<<<row + 1, 0>>>>)

--------------------------------------------------------------------------------
\* A query fails on the execution thread, or on the main thread.
QueryFails(thread) ==
  /\ Idle /\ Throw(FALSE, thread)
  /\ kind' = "query" /\ at' = "raising" /\ cause' = "refused" /\ owners' = {"stmt"} /\ Cleared

\* The call returns to R with its data frame or its error.
Return ==
  /\ kind # "none" /\ step \in {"none", "raised"} /\ at \in {"done", "thrown"}
  /\ kind' = "none" /\ at' = "done" /\ cause' = "none" /\ owners' = {} /\ Cleared
  /\ step' = "none" /\ records' = <<>> /\ result' = <<>> /\ shown' = Nothing
  /\ invalid' = FALSE /\ threaded' = FALSE /\ cleared' = FALSE
  /\ i' = 1 /\ size' = SQL_MAX_MESSAGE_LENGTH /\ holds' = 0 /\ sql_state' = Garbage

\* The error is made, and then the objects are destroyed on its way to R.
RecentError ==
  /\ DiagNext
  /\ at' = IF step' = "raised" THEN "thrown" ELSE at
  /\ owners' = IF step' = "raised" THEN {} ELSE owners
  /\ UNCHANGED <<kind, asked, answer, long, strict, row, todo, nulls, lastGet, lists, cause>>

Next ==
  \/ ListTables \/ ListColumns \/ ListCatalogs \/ ListSchemas \/ ListTableTypes
  \/ (\E k \in DOMAIN Accessors : StartFails(k))
  \/ FindTables \/ FindColumns \/ BindResult \/ NextRow \/ ReadNull \/ ReadBound \/ ReadLong
  \/ ListDrivers \/ ListDataSources \/ list_drivers \/ list_data_sources
  \/ \E thread \in BOOLEAN : QueryFails(thread)
  \/ RecentError \/ Return

Spec == Init /\ [][Next]_vars

--------------------------------------------------------------------------------
TypeOK ==
  /\ DiagTypeOK
  /\ kind \in {"none", "query", "drivers", "data_sources"} \cup DOMAIN Accessors
  /\ at \in {"call", "bind", "next", "read", "enum", "raising", "thrown", "done"}
  /\ asked \in Searches \cup {Everything, list_catalogs, list_schemas, list_table_types}
  /\ owners \subseteq {"stmt", "result", "env"}
  /\ row \in 0..Len(answer)
  /\ at = "read" <=> todo # <<>>
  /\ {nulls, long} \subseteq SUBSET (0..17)
  /\ lastGet \in -1..17
  /\ cause \in {"none", "refused", "order", "null", "format"}

\* What R should receive for row r and column c.
Expected(r, c) ==
  IF c \in answer[r].null THEN Empty ELSE Value(r, c)

\* A listing that completes has one value of every column for every row of the driver,
\* in the driver's order: the vectors of connection_sql_tables and connection_sql_columns
\* stay aligned, a NULL is the fallback, and no value is of another row, also where a
\* column has no buffer and its indicator is only known once SQLGetData has read it.
ListingExact ==
  (at = "done" /\ kind \in DOMAIN Accessors) =>
    \A c \in Range(Accessors[kind]) :
      lists[c] = [r \in 1..Len(answer) |-> Expected(r, c)]

\* odbcConnectionCatalogs, -Schemas and -TableTypes return what the driver enumerates:
\* every row has a name, none is of the pattern lookup that a comment in list_catalogs()
\* warns of.
NamesOnly ==
  (at = "done" /\ kind \in {"catalogs", "schemas", "table_types"}) =>
    \A c \in DOMAIN lists : Empty \notin Range(lists[c])

\* The statement of a listing lives while its rows are read, although find_tables() has
\* returned, and no handle outlives the listing, whichever way it ends.
HandleLivesAsLong == (owners = {}) <=> (at \in {"done", "thrown"} \/ invalid)

\* A completed odbcListDrivers or odbcListDataSources names every driver and data source,
\* in order, a driver without attributes included, and each of its attributes once; the
\* last one is lost where the driver manager's length stops before its NUL.
EveryDriverListed ==
  (at = "done" /\ kind \in {"drivers", "data_sources"}) =>
    /\ \A k \in 1..Len(answer) : \E n \in DOMAIN lists : lists[n][1] = k
    /\ \A n \in 1..(Len(lists) - 1) :
         \/ lists[n + 1][1] = lists[n][1] + 1
         \/ lists[n + 1] = <<lists[n][1], lists[n][2] + 1>>
    /\ kind = "drivers" =>
         \A k \in 1..Len(answer) : \A j \in 1..Len(answer[k].attrs) :
           (j < Len(answer[k].attrs) \/ answer[k].closed) => <<k, j>> \in Range(lists)

\* NULLs only where the accessors' comments say that a column might be NULL, long
\* columns only where a driver without SQL_GD_ANY_COLUMN can read them.
MightBeNull == IF kind = "columns" THEN {0, 1, 8, 9, 11, 12, 14, 15, 17} ELSE 0..4
Obedient ==
  IF kind \in DOMAIN Accessors
  THEN /\ \A r \in DOMAIN answer : answer[r].null \ long \subseteq MightBeNull
       /\ ~strict \/ long = {}
  ELSE \A k \in DOMAIN answer : ~answer[k].cut /\ "bare" \notin Range(answer[k].attrs)
Throws(why) == cause = "none" /\ cause' \in why
\* A listing of a driver that keeps to that throws only where a call is refused.
ObedientDriverListed == [][Throws({"order", "null", "format"}) => ~Obedient]_vars

\* A listing is complete, row by row and name by name, and is read from a statement that lives
\* exactly as long as it takes.
ListingsExact == TypeOK /\ ListingExact /\ NamesOnly /\ HandleLivesAsLong
================================================================================
