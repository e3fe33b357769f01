------------------------------ MODULE FetchRows ------------------------------
(***************************************************************************)
(* dbSendQuery / dbBind / dbFetch on one odbc_result: bind_list() executes *)
(* the statement batch by batch, result_to_dataframe() walks the rows of   *)
(* the result sets through nanodbc's rowset cursor, at most n_max rows a   *)
(* call, and looks one row ahead so that complete_ is known early.         *)
(*                                                                         *)
(* A result set is the number of its rows, or NoColumns for one that has   *)
(* no columns (the status a procedure call returns).  The driver returns   *)
(* one result set per parameter row, or several for one statement.         *)
(***************************************************************************)
EXTENDS Integers, Sequences, FiniteSetsExt

CONSTANTS
  MaxSets,         \* bound: result sets of an execution
  MaxRows,         \* bound: rows of a result set
  Chunks,          \* the n_max arguments of dbFetch, negative for all rows
  InterruptEvery,  \* rows between two interrupt checks, 16384 in the code
  FirstRows,       \* rows of a new data frame without n_max, 100 in the code
  IntMax,          \* the largest int, 2^31 - 1 in the code
  Faults           \* what can go wrong, see FaultKinds

(***************************************************************************)
(*  fetch      a conversion fails on a row, or SQLMoreResults does;        *)
(*  move       SQLFetchScroll fails;                                       *)
(*  interrupt  the user interrupts a fetch;                                *)
(*  reject     dbBind is called with the wrong number of parameters;       *)
(*  execute    SQLExecute fails on a batch;                                *)
(*  empty      dbBind is called with zero-length parameters;               *)
(*  batches    batch_rows is smaller than the number of parameter rows.    *)
(***************************************************************************)
FaultKinds == {"fetch", "move", "interrupt", "reject", "execute", "empty", "batches"}

NoColumns == -1

ASSUME MaxSetsAssumption == MaxSets \in Nat \ {0}
ASSUME MaxRowsAssumption == MaxRows \in Nat
ASSUME InterruptEveryAssumption == InterruptEvery \in Nat \ {0}
ASSUME IntMaxAssumption == IntMax \in Nat
ASSUME ChunksAssumption == Chunks \subseteq -(IntMax + 1)..IntMax
ASSUME FirstRowsAssumption == FirstRows \in 1..IntMax
ASSUME FaultsAssumption == Faults \subseteq FaultKinds

VARIABLES
  params,       \* the query has parameters: it waits for dbBind
  sets,         \* the result sets of every parameter row of the last execution
  bound,        \* bound_
  cur,          \* the nanodbc result r_: see TypeOK
  complete,     \* complete_
  rowsFetched,  \* rows_fetched_
  nmax,         \* n_max of the running dbFetch
  busy,         \* a dbFetch is in its loop
  out,          \* the rows the running dbFetch has copied
  frame,        \* n, the rows its data frame has room for
  got,          \* history: the rows R received since the last execution
  trouble       \* history: what happened since the last execution, see Troubles

vars == <<params, sets, bound, cur, complete, rowsFetched, nmax, busy, out, frame, got, trouble>>

(***************************************************************************)
(*  failed   a dbFetch or a dbBind threw, or a dbBind executed nothing;    *)
(*  split    dbBind sent its parameter rows in several batches;            *)
(*  rewound  SQLFetchScroll failed past the first row of a rowset.         *)
(***************************************************************************)
Troubles == {"failed", "split", "rewound"}

ResultSets == UNION {[1..k -> NoColumns..MaxRows] : k \in 1..MaxSets}

TypeOK ==
  /\ params \in BOOLEAN
  /\ sets \in ResultSets
  /\ bound \in BOOLEAN
  /\ cur \in [cols: BOOLEAN,                 \* num_columns_ # 0
              rowset: 1..MaxSets,            \* rowset_size_
              closed: BOOLEAN,               \* the driver's cursor has been closed
              set: 1..(MaxSets + 1),         \* the driver's result set, or none is left
              sent: 0..MaxRows,              \* rows of it the driver has delivered
              count: 0..MaxRows,             \* row_count_
              pos: 0..MaxSets]               \* rowset_position_
  /\ complete \in BOOLEAN
  /\ rowsFetched \in Nat
  /\ nmax \in Chunks \cup {0}
  /\ busy \in BOOLEAN
  /\ out \in Seq((1..MaxSets) \X (1..MaxRows))
  /\ frame \in 0..IntMax
  /\ got \in Seq((1..MaxSets) \X (1..MaxRows))
  /\ trouble \in SUBSET Troubles

-----------------------------------------------------------------------------
(* nanodbc::result *)

RowsOf(j) == IF sets[j] = NoColumns THEN 0 ELSE sets[j]
Less(a, b) == IF a < b THEN a ELSE b

\* A result object on result set j of ss whose rowset holds size rows.
NewResult(ss, j, size) ==
  [cols |-> ss[j] # NoColumns, rowset |-> size, closed |-> FALSE,
   set |-> j, sent |-> 0, count |-> 0, pos |-> 0]

\* fetch(0, SQL_FETCH_NEXT): the next rowset of the result set.
HasRowset(r) == ~r.closed /\ r.set <= Len(sets) /\ r.sent < RowsOf(r.set)

\* Mutant: SQL_FETCH_FIRST.
FetchFirst(r) ==
  IF HasRowset(r)
  THEN LET size == Less(r.rowset, RowsOf(r.set))
       IN  [r EXCEPT !.sent = size, !.count = size, !.pos = 0]
  ELSE [r EXCEPT !.count = 0, !.pos = 0]

Fetch(r) ==
  IF HasRowset(r)
  THEN LET size == Less(r.rowset, RowsOf(r.set) - r.sent)
       IN  [r EXCEPT !.sent = @ + size, !.count = size, !.pos = 0]
  ELSE [r EXCEPT !.count = 0, !.pos = 0]

\* next() stays in the rowset while it can.
InRowset(r) == r.count # 0 /\ r.pos + 1 < r.rowset
Next(r) == IF InRowset(r) THEN [r EXCEPT !.pos = @ + 1] ELSE Fetch(r)
HasNext(r) == IF InRowset(r) THEN r.pos + 1 < r.count ELSE HasRowset(r)

\* Mutant: only the next result set is looked at.
LaterNextOnly(r) == {j \in {r.set + 1} : ~r.closed /\ j <= Len(sets) /\ RowsOf(j) > 0}

\* nextResultSet(): next_result() until a result set has columns and a first row.
Later(r) == {j \in (r.set + 1)..Len(sets) : ~r.closed /\ RowsOf(j) > 0}
NextResultSet(r) ==
  IF Later(r) = {}
  THEN [r EXCEPT !.set = Len(sets) + 1, !.sent = 0, !.count = 0, !.pos = 0]
  ELSE Fetch([r EXCEPT !.set = Min(Later(r)), !.sent = 0])

\* next(), and nextResultSet() when the result set has no more rows.
Advance(r) == IF HasNext(r) THEN Next(r) ELSE NextResultSet(Next(r))
AtEnd(r) == ~HasNext(r) /\ Later(r) = {}

\* The row get() reads.
CurrentRow(r) == <<r.set, r.sent - r.count + r.pos + 1>>

-----------------------------------------------------------------------------
(* dbSendQuery, dbBind *)

Executed ==
  /\ complete' = FALSE /\ rowsFetched' = 0
  /\ got' = <<>>
  /\ UNCHANGED <<nmax, busy, out, frame>>

\* dbSendQuery(): a query without parameters has been executed, one with parameters waits
\* for dbBind.
Init ==
  /\ params \in BOOLEAN
  /\ sets \in ResultSets
  /\ bound = ~params
  /\ cur = IF params THEN [NewResult(sets, 1, 1) EXCEPT !.cols = FALSE]
                   ELSE NewResult(sets, 1, 1)
  /\ complete = FALSE /\ rowsFetched = 0
  /\ nmax = 0 /\ busy = FALSE /\ out = <<>> /\ frame = 0 /\ got = <<>> /\ trouble = {}

\* The first parameter row of the last batch of batch_rows rows.
LastBatch(n, batchRows) == ((n - 1) \div batchRows) * batchRows + 1

\* The size of the last batch.
LastSize(n, batchRows) == n + 1 - LastBatch(n, batchRows)

\* dbBind(): every batch is executed, r_ is the result of the last one.
Bind ==
  /\ ~busy /\ params
  /\ \E ss \in ResultSets, batchRows \in 1..MaxSets :
       /\ batchRows >= Len(ss) \/ "batches" \in Faults
       /\ sets' = ss
       /\ cur' = NewResult(ss, LastBatch(Len(ss), batchRows), LastSize(Len(ss), batchRows))
       /\ trouble' = IF batchRows < Len(ss) THEN {"split"} ELSE {}
  /\ bound' = TRUE
  /\ Executed
  /\ UNCHANGED params

\* dbBind() with the wrong number of parameters: bind_list() has already reset the
\* progress of the old result when it throws.
BindRejected ==
  /\ ~busy /\ "reject" \in Faults
  /\ complete' = FALSE /\ rowsFetched' = 0
  /\ trouble' = trouble \cup {"failed"}
  /\ UNCHANGED <<params, sets, bound, cur, nmax, busy, out, frame, got>>

\* dbBind() whose first batch fails: the driver has closed the cursor of the old result,
\* which r_ still is; when a later batch fails r_ is the closed result of the one before.
BindFailed ==
  /\ ~busy /\ params /\ "execute" \in Faults
  /\ \/ cur' = [cur EXCEPT !.closed = TRUE]
     \/ /\ "batches" \in Faults
        /\ \E cols \in BOOLEAN :
             cur' = [cur EXCEPT !.cols = cols, !.closed = TRUE, !.count = 0, !.pos = 0]
  /\ complete' = FALSE /\ rowsFetched' = 0
  /\ trouble' = trouble \cup {"failed"}
  /\ UNCHANGED <<params, sets, bound, nmax, busy, out, frame, got>>

\* dbBind() of zero parameter rows: nothing is executed, r_ stays what it was.
BindEmpty ==
  /\ ~busy /\ params /\ "empty" \in Faults
  /\ bound' = TRUE
  /\ complete' = FALSE /\ rowsFetched' = 0
  /\ trouble' = trouble \cup {"failed"}
  /\ UNCHANGED <<params, sets, cur, nmax, busy, out, frame, got>>

-----------------------------------------------------------------------------
(* dbFetch: result_to_dataframe() *)

\* Mutant: a fetch of zero rows moves to the first row.
FetchBeginMoves ==
  /\ ~busy /\ bound /\ cur.cols
  /\ \E n \in Chunks :
       /\ nmax' = n
       /\ frame' = IF n < 0 THEN FirstRows ELSE n
       /\ IF rowsFetched = 0
          THEN complete' = AtEnd(cur) /\ cur' = Advance(cur)
          ELSE UNCHANGED <<complete, cur>>
  /\ busy' = TRUE /\ out' = <<>>
  /\ UNCHANGED <<params, sets, bound, rowsFetched, got, trouble>>

\* The first fetch moves to the first row, unless it asks for none.
FetchBegin ==
  /\ ~busy /\ bound /\ cur.cols
  /\ \E n \in Chunks :
       /\ nmax' = n
       /\ frame' = IF n < 0 THEN FirstRows ELSE n
       /\ IF rowsFetched = 0 /\ n # 0
          THEN complete' = AtEnd(cur) /\ cur' = Advance(cur)
          ELSE UNCHANGED <<complete, cur>>
  /\ busy' = TRUE /\ out' = <<>>
  /\ UNCHANGED <<params, sets, bound, rowsFetched, got, trouble>>

\* A result without columns gives an empty data frame, one not yet bound an error.
FetchNothing ==
  /\ ~busy /\ (~bound \/ ~cur.cols)
  /\ UNCHANGED vars

Unlimited == nmax < 0
NoRoom == Len(out) >= frame
Full == ~Unlimited /\ NoRoom

\* n *= 2 on an int.
IntRange == 2 * (IntMax + 1)
Doubled(n) == LET w == (2 * n) % IntRange IN IF w > IntMax THEN w - IntRange ELSE w

\* Mutant: the data frame is enlarged one row late.
GrownLate == IF Unlimited /\ Len(out) > frame THEN Doubled(frame) ELSE frame

\* resize_dataframe() before a row that does not fit.
Grown == IF Unlimited /\ NoRoom THEN Doubled(frame) ELSE frame

Copying == busy /\ ~complete /\ ~Full /\ Grown >= 0
Dropped == busy' = FALSE /\ out' = <<>> /\ frame' = 0

\* The doubled size has overflowed: Rf_lengthgets() refuses it and the rows are lost.
FetchTooLarge ==
  /\ busy /\ ~complete /\ ~Full /\ Grown < 0
  /\ Dropped /\ trouble' = trouble \cup {"failed"}
  /\ UNCHANGED <<params, sets, bound, cur, complete, rowsFetched, nmax, got>>

\* One turn of the loop: copy the row, look for the next one.
FetchRow ==
  /\ Copying
  /\ frame' = Grown
  /\ out' = Append(out, CurrentRow(cur))
  /\ rowsFetched' = rowsFetched + 1
  /\ complete' = AtEnd(cur)
  /\ cur' = Advance(cur)
  /\ UNCHANGED <<params, sets, bound, nmax, busy, got, trouble>>

\* After next() the interrupt check throws, or nextResultSet() does: the rows copied so
\* far are lost.
FetchBroken ==
  /\ Copying
  /\ \/ "interrupt" \in Faults /\ (rowsFetched + 1) % InterruptEvery = 0
     \/ "fetch" \in Faults /\ ~HasNext(cur)
  /\ rowsFetched' = rowsFetched + 1
  /\ complete' = ~HasNext(cur)
  /\ cur' = Next(cur)
  /\ Dropped /\ trouble' = trouble \cup {"failed"}
  /\ UNCHANGED <<params, sets, bound, nmax, got>>

\* Reading fails, on a row or before the first one.
FetchError ==
  /\ "fetch" \in Faults
  /\ \/ Copying
     \/ ~busy /\ bound /\ cur.cols
  /\ Dropped /\ trouble' = trouble \cup {"failed"}
  /\ UNCHANGED <<params, sets, bound, cur, complete, rowsFetched, nmax, got>>

\* next() throws from fetch(), in the loop or on the way to the first row:
\* rowset_position_ is zero again and the old rowset still in the buffers.  Bound: one
\* rowset is started again per execution.
FetchMoveError ==
  /\ "move" \in Faults /\ ~InRowset(cur)
  /\ cur.pos > 0 => "rewound" \notin trouble
  /\ \/ Copying
     \/ ~busy /\ bound /\ cur.cols /\ rowsFetched = 0
  /\ cur' = [cur EXCEPT !.pos = 0]
  /\ Dropped
  /\ trouble' = trouble \cup {"failed"} \cup (IF cur.pos > 0 THEN {"rewound"} ELSE {})
  /\ UNCHANGED <<params, sets, bound, complete, rowsFetched, nmax, got>>

\* Mutant: a full data frame does not end the loop.
FetchReturnAtEnd ==
  /\ busy /\ complete
  /\ got' = got \o out
  /\ Dropped
  /\ UNCHANGED <<params, sets, bound, cur, complete, rowsFetched, nmax, trouble>>

\* All rows are read, or n_max of them.
FetchReturn ==
  /\ busy /\ (complete \/ Full)
  /\ got' = got \o out
  /\ Dropped
  /\ UNCHANGED <<params, sets, bound, cur, complete, rowsFetched, nmax, trouble>>

FetchLoop == FetchRow \/ FetchTooLarge \/ FetchBroken \/ FetchError \/ FetchMoveError \/ FetchReturn

\* complete()
HasCompleted == ~cur.cols \/ complete

Steps == Bind \/ BindRejected \/ BindFailed \/ BindEmpty \/ FetchBegin \/ FetchNothing \/ FetchLoop

Spec == Init /\ [][Steps]_vars

\* A fetch that has begun runs on the main thread until it returns or throws.
FairSpec == Spec /\ WF_vars(FetchLoop)

-----------------------------------------------------------------------------
(* Properties. *)

Precedes(x, y) == x[1] < y[1] \/ (x[1] = y[1] /\ x[2] < y[2])
AllRows == {x \in (1..Len(sets)) \X (1..MaxRows) : x[2] <= RowsOf(x[1])}
Delivered == got \o out
DeliveredRows == {Delivered[i] : i \in 1..Len(Delivered)}

\* Whatever fails, is interrupted or is rejected on the way, the rows one execution
\* delivers to R come in the driver's order and none comes twice, except
\* after SQLFetchScroll failed past the first row of a rowset, which starts it again.
NoRowTwice ==
  "rewound" \notin trouble =>
  \A i, j \in 1..Len(Delivered) : i < j => Precedes(Delivered[i], Delivered[j])

\* Without trouble no row is skipped, however the fetches are cut into chunks and the
\* rows into rowsets and result sets (empty ones and ones without columns included), and a
\* fetch of zero rows does not move the cursor.
NoRowSkipped ==
  trouble = {} => \A x \in AllRows :
              (\E y \in DeliveredRows : Precedes(x, y)) => x \in DeliveredRows

\* For a query whose first result set has columns, dbHasCompleted() is exact as soon as a
\* fetch has moved the cursor: it is TRUE when and only when every row has been delivered,
\* and dbGetRowCount() is their number.
CompleteIsExact ==
  bound /\ trouble = {} /\ sets[1] # NoColumns =>
    /\ rowsFetched = Len(Delivered)
    /\ HasCompleted => AllRows = DeliveredRows
    /\ rowsFetched > 0 /\ AllRows = DeliveredRows => HasCompleted

\* A fetch never writes past the vectors of its data frame, and one of all rows never makes
\* them larger than FirstRows or twice the rows it has copied, so that the doubled size
\* overflows only for a result of at least (IntMax + 1) / 2 rows.
WritesFit ==
  busy => /\ Len(out) <= frame
          /\ Unlimited => frame <= FirstRows \/ frame <= 2 * (Len(out) - 1)

\* Every dbFetch returns or throws.
FetchTerminates == busy ~> ~busy

\* The variables have their types and a fetch stays inside its data frame.
FrameOK == TypeOK /\ WritesFit
=============================================================================
