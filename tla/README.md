# TLA+ specifications of the odbc R package

These modules model the part of the package in which state, order and failure
matter: the C++ classes `odbc_connection` and `odbc_result` (`src/src`), the
nanodbc classes they use (`src/src/nanodbc`), and the DBI methods that drive
them (`src/R`). TLC checks the models on small instances; TLAPS proves the main
safety properties for every value of the constants. `PROJECT.json` maps each
definition to the lines it models.

    tlc -workers 2 -config lifecycle.cfg MCResultLifecycle
    tlapm StatementProofs.tla

## 1. Inventory

| Component | State | Operations | Interacts through |
|---|---|---|---|
| Result lifecycle, interruptible execution (`odbc_result.cpp`, `odbc_connection.cpp`, `utils.cpp`) | `current_result_` (a raw pointer), shared owners of the connection, `s_`, `bound_`, a future and an exception pointer | constructor, `execute()`, `run_interruptible()`, destructor, `fetch()` errors, `connection_release()` | two threads share the result and the connection; SQLCancel |
| Transactions, batched inserts (`nanodbc::transaction`, `bind_list`) | `transactions_`, `rollback_`, `committed_`, `t_`, the session's autocommit mode | dbBegin, dbCommit, dbRollback, dbAppendTable | nested transaction objects share the connection's count and mark |
| Binding and fetching (`bind_list`, `result_to_dataframe`, `result_impl`) | `complete_`, `rows_fetched_`, `r_`, the rowset position | dbBind, dbFetch, dbHasCompleted | the driver's cursor and result sets |
| Column buffers and conversions (`auto_bind`, `get_ref_impl`, `assign_*`) | bound buffers, NULL indicators, column types | unbind, read a cell | SQLGetData, which reads forward only on some drivers |
| Parameter buffers, table-valued parameters (`bind_*`, `table_valued_parameter`) | the buffers of a batch, the driver's bindings, `tvp_data_`, `open_tvp_` | dbBind, dbAppendTable, one batch after another | SQLExecute reads through pointers set earlier |
| Connection setup (`odbc_connection`, `connection_impl`) | environment and connection handle, attribute buffers | dbConnect, dbDisconnect | the driver reads the buffers when it connects |
| Text encoders (`Iconv.cpp`) | a conversion descriptor and a buffer | decode a value, a message, a name | one encoder for all results of a connection |
| Time zones (cctz) | the map of loaded zones, a table of transitions, two hints | look a zone up, local to absolute time and back | shared by all connections of the process |
| Catalog functions, diagnostics (`nanodbc::catalog`, `recent_error`) | a statement and its result; the records of a handle | list tables, columns, names, drivers, data sources; make an error | SQLGetDiagRec, while another thread may cancel |
| dbWriteTable (`dbi-table.R`) | none of its own | remove, create, append | a sequence of statements, one of them a transaction |
| Connection strings, data types, driver configuration, connection pane | none, or a lookup | pure functions and I/O | - |
| Rcpp glue | - | generated | - |

What is hard to test: an interrupt is noticed by a thread that acts on a
one-second-old answer while the query's thread moves on; SQLCancel and the
statements that undo a transaction can fail themselves, inside destructors;
the ends of rowsets, result sets, chunks and batches fall together or apart;
a flag, a pointer, a hint or a shift state left from an earlier step is read by a
later one; dates and times go wrong at the edges of units, years and offsets. The
list is under "hazards" in `PROJECT.json`, each at its line.

What makes each component correct:

* lifecycle: the raw pointer never dangles, no thread runs on a freed object,
  the connection lives exactly as long as it is used, every call returns,
  an interrupt ends a query;
* transactions: the count is exact, nothing takes effect before its commit,
  what is rolled back never does, the session is left as it was found;
* fetching: every row exactly once and in order, `dbHasCompleted` exact;
* cells: every cell as the driver has it, NULL as NA;
* parameters: the driver reads exactly the rows that were given, and no freed
  memory;
* connecting: an open connection is what was asked for, a failed login leaves
  nothing behind;
* texts: what is decoded depends on the text alone;
* time zones: every conversion is the one that the calendar, the zone's file and
  its rule define;
* catalog: every row and every driver once, aligned, and the driver's own words
  in every error.

## 2. Modules

### ResultLifecycle

One connection, any set `Results` of addresses at which `odbc_result` objects
are built. `m` is where the main thread is in `run_interruptible()`, `w` where
the thread of `execute()` is (for a connection without interruptible execution
the same steps run on the main thread, `m = "exec"`). `obj`, `stmt` and `bound`
are the life of a result, of its statement handle, and `bound_`; `uses` counts
the owners of the `shared_ptr` to the connection, `hdbc` says it is open.

R's calls are single actions (`Connect`, `Disconnect`, `NewResult`, `BindList`,
`FetchError`, `ClearResult`): nothing of the package runs beside them. A call
that builds a result is cut where the other thread can act: `ExecSet`,
`ExecMake`, `ExecOpen`, `ExecPrepare`, `ExecExecute`, `ExecRaise` on one side,
`MainTimeout`, `MainQuiet`, `MainInterrupt`, `MainTold`, `MainTellFails`, `MainCancel`, `MainClear`
and the three ways out (`MainReturn`, `MainCleanup`, `MainJoin`) on the other. Between the
interrupt and the cancel `raise_message()` calls R (`m = "tell"`), which returns
(`MainTold`) or leaves by an exception (`MainTellFails`): then `run_interruptible()` waits for
its thread and unwinds, with no cancel and no `cleanup_fn()`, and so does the constructor.
`CancelOutcomes` is `cancel_current_result()`: it returns, throws, or
dereferences a null or freed statement, which ends the process (`"crashed"`).

`Faults` is what the environment may do: SQLCancel fails (`cancel`), no handle
(`handle`) and no memory (`memory`). That a message leaves by an exception and that
the thread does not reach the driver within a second are no faults: both may always
happen. `hit` records that SQLCancel reached a driver call, `caught` that an interrupt was
seen, `lost` a result that was freed while current: its constructor left past `cleanup_fn()`, or
SQLCancel failed in `cleanup_fn()` itself.

### Transactions, AtomicWrites

`c` holds nanodbc's `transactions_` and `rollback_` and the driver's session
(autocommit, pending and durable writes). The constructor, `commit()` and the
destructor of `nanodbc::transaction` are operators on it; those that may be
refused give the set of states they may leave. `t` is `odbc_connection::t_`,
`ins` the transaction on `bind_list()`'s stack. A refused COMMIT leaves the
work pending or lost, as the driver likes; refusals in the destructor are
silent, as in the code. `AtomicWrites` is the abstract specification: what
dbBegin, dbCommit, dbRollback and an all-or-nothing dbAppendTable promise. It has a
variable for the writes of a running append (`append`, `appending`), which only
`AppendDone` moves to the open transaction or makes durable, all of them in one step, and
`AppendUndone` drops: an append that took effect batch by batch would be no behaviour of it.
`PromiseKept` instantiates it with `durable <- c.durable`,
`work <- c.pending \ insw`, `append <- insw`, `appending <- (ins # "none")` and
`open <- (t = "open")`.

### FetchRows

One result object: `Bind` and its three unlucky forms, and the loop of
`result_to_dataframe()`, one row a step. `cur` is nanodbc's cursor (the rowset,
`row_count_`, `rowset_position_`) together with how much the driver has
delivered; result sets are row counts, `NoColumns` for a procedure's status.
`got` and `out` are the rows R has, `frame` the size of the data frame, which
doubles in `Grown`; the largest `int` is `IntMax`, and a size beyond it makes
the allocation fail (`FetchTooLarge`). `trouble` records what the properties make
exceptions for.

### ReadCells

The cells of the rows FetchRows only counts. `CType`, `Blob`, `RType` and
`Readable` are the switch statements of `auto_bind()`, `column_types()` and
`get_ref_impl<T>()`; `Vector`, `Class` and `Assigned` those of
`create_dataframe()`, `add_classes()` and `assign_*()`; `Printed` is what
`get_ref_impl<string>` makes of numbers and dates; `Assembled` is what
the SQLGetData loop puts together in `FullCalls` whole buffers and a rest, whose reference
value is the length itself; `nulls` are the indicators
`cbdata_`. Columns can be unbound, cells are read from a buffer (`CopyBuffered`)
or with SQLGetData (`CopyGetData`), which reads the row of the driver's cursor,
also when nanodbc is at a later row of the rowset. A driver may or may not
write the indicators of columns without a buffer. After an error the row is
copied again, although what SQLGetData has read is gone (`CopyAgain`: the
length variable is then read uninitialised, hence a choice).

### BindParameters

One statement, bound again and again. `apd` is what the driver knows of each
parameter, or of a column of the table in focus: a pointer to values and one to
lengths, each as the owner of the memory and its contents. A pointer whose owner
frees its memory becomes `Freed`; `got` collects what SQLExecute reads. `BindCall`
checks the arguments, `BatchBegin` is `clear_buffers()`, `BindColumn` is one call
of `bind_columns()` with its description of the parameter, `OpenTvp`, `TvpColumn`
and `TvpClose` go through a data frame, `Execute` ends a batch, `BatchesDone` the
call; the `...Fails` and `...Refused` actions are the ways out in between.
Any call of the driver may fail, which leaves the statement as it is then.

### CivilTime, PosixSpec

CivilTime is the calendar of `civil_time_detail.h`: `n_sec`, `n_day` with its
shortcuts, `step`, `difference`, `align`, weekdays, and the days of a rule
(`TransOffset`). The state is one value with its unit and, in `ref`, the number
of units counted from 1970 by definition: the reference that every operation is
compared with. PosixSpec adds `ParsePosixSpec()`, a function of positions in a sequence
of tokens, against the grammar in the comments of `time_zone_posix.h`, written as
sets of meanings, and `ExtendTransitions()`'s decision that a rule is daylight time
all year.

### TimeZoneInfo

A loaded zone: the table of `Load()` with its sentinels, the transitions that a
rule adds, and the two hints. `BreakTime`, `MakeTime`, `NextTransition` and
`PrevTransition` are its operations; the first two are cut between the reading of the hint and
the storing of the new one, the other two use no hint. A day has few seconds and a cycle few years, so that the
400-year shift happens. `TypeAt` is the reference: the type that file and rule
define for an instant. `Write` is `bind_datetime()` with `as_timestamp()`, `ReadBack` is
`as_double()`: a POSIXct is a number of ticks (`Ticks` to a second), of which the column gets whole
seconds and, cut towards zero, units of 1/`factor` second, the parameter's scale. `from_time_t` is
the clock in between, which counts `Nano` units to a second in a word of `ClockWidth` values and
wraps. `GetTransitionType` leaves out the failure for an abbreviation that starts behind byte 255
(time_zone_info.cc:274): the zone would be UTC, as after any other failure of `Load`.

### ConnectionSetup, OpenConnection

ConnectionSetup is the constructor, one driver call a step, each of which may
fail, the destructor, and the map of zones that all connections share; `lost`
counts the handles nobody can free any more. A DATETIMEOFFSET goes through the
name of a fixed zone (`FixedOffsetToName`, `LoadTimeZone`), or, with an offset of zero, through the
connection's zone; `answer` is the cell just read, with that zone (`conn`) and whether its own
was loaded, and `noted` any one cell read before, so that any two are compared. OpenConnection extends it
with the two encoders of an open connection: `convert_text` is `Iconv::convert`
on a descriptor with a shift state and a character held back, as the converters
of ISO-2022-JP and CP1258 have them.

### Catalog, Diagnostics

Catalog has one action per call of the package (`ListTables`, ..., `ListDrivers`)
and cuts the listing where the driver answers: the search, the binding of the
result, each row, each accessor, whose `is_null` and `get` are `ReadNull`,
`ReadBound` and `ReadLong`. It extends Diagnostics, the loop of `recent_error()`, which every
refused call enters, and during which `ClearRecords` may come from the main thread.

### Composition

ConnectionSetup and OpenConnection, CivilTime and PosixSpec, and Diagnostics and Catalog are
composed: the second extends the state and the next-state relation of the first.
The other modules share operations, not variables: FetchRows and ReadCells model the
same loop, the first with rows and without cells, the second with cells and
with any rows; ResultLifecycle sees of both only that a fetch fails;
Transactions and BindParameters both run through the batches of `bind_list()`,
with writes and with buffers. No property needs two of these at once, so they
are checked apart.

## 3. Runs

| Run | Properties | Shows |
|---|---|---|
| lifecycle | LifecycleTypeOK, NoDanglingCurrent, NoOtherCrash, ThreadHasItsObject, ConnectionOutlivesStatements, ReturnsCurrent, NeverRevalidated, CallReturns | with every fault, interrupts at any moment and messages that return or throw: where a pointer dangles or a cancel crashes and nowhere else, the lives of threads, results and connection, and that every call returns |
| tx_faults | TypeOK, RefCountExact, NothingTakesEffectEarly | every request may be refused |
| tx_promise | AutocommitRestored, RolledBackStaysUndone, PromiseKept | with an obedient driver the code implements AtomicWrites, an append taking effect as a whole |
| fetch | FrameOK, NoRowTwice, NoRowSkipped, CompleteIsExact, FetchTerminates | rows, chunks, rowsets, result sets, growth, failures |
| cells | CellsExact, GetDataInOrder | every column type, buffers, pieces, indicators, texts |
| params | RowsAsGiven, BuffersSound, ReusableUnlessBroken | batches, NAs, data frames, failures and a second dbBind |
| civil | CivilExact, RulesExact, SpecsAsWritten, DifferenceExact | calendar arithmetic, zone rules and their parser |
| zones | LookupsExact, ConvertInOrder, WrittenReadsBack | local and absolute times with any hints; what is written reads back, cut to the scale |
| connect | SetupExact, FailedLoginsLoseNothing, OffsetsHonoured, EachTextItsOwn, SameCellSameInstant | connecting with every failure, offsets, texts |
| catalog | ListingsExact, ErrorExact, EveryDriverListed, ObedientDriverListed | listings and error messages |
| interrupt_crash | NeverCrashes, violated | without any fault: an interrupt between `set_current_result(this)` and the assignment of `s_` cancels a null statement |
| commit_then_rollback | RolledBackStaysUndone, violated | dbBegin, a write, a refused dbCommit and dbRollback, which turns autocommit on without a rollback: the write is committed |

Several invariants are conjunctions of named parts, with the module's type
invariant among them: `CellsExact` of `OwnTypeReadable`, `CellsWhole` and `TextWhole`,
`CivilExact` of `FieldsExact`, `OrderAsCounted` and `WeekdaysExact`, and so on; the parts
carry the comments.

### Bounds, and why they are enough

* `Results` has three addresses: one current, one superseded, one being built;
  a fourth would only repeat the second.
* `Batches = 2`, `MaxWrites = 4`: a write of the user, an append of two batches
  (so that one can fail after another) and a write after it. Nesting is at most
  two deep in the code. In commit_then_rollback `Batches = 0`: there is no append, so that the
  transaction is dbBegin's own.
* `MaxSets = 3`, `MaxRows = 2`, chunks of all, zero and two rows: a rowset of up
  to three rows ends inside, at and after a result set, an empty set or one
  without columns comes first, between and last, a chunk ends inside or at the
  end of a set. `InterruptEvery = 2` stands for 16384 so that interrupts happen.
  `FirstRows = 1` stands for 100 and `IntMax = 7` for 2^31 - 1, so that the data frame grows
  and overflows. One rowset is started again per execution after a failed SQLFetchScroll.
* `BufferSize = 2` stands for 1024 and `OtherSize = 2` for 128; cells of length 1 and 3 lie below and
  above each limit, a BIT has exactly its column's length, and 3 takes three pieces of text and
  two of bytes. BIGINTs have lengths 1 to 4 (`Numbers`), of which an integer holds 1, a double 2,
  text and integer64 3 (`Fitting`): one that fits and one that does not for every mapping. Layouts are
  every type alone, a long column before and after a bound one, and two long ones.
* Two parameters, up to three rows in batches of one, two and three, and two calls of dbBind: the
  last batch is shorter than the first, and each kind of binding follows each other.
* Calendar values start around leap days, ends of centuries and of the 400-year cycle, year
  zero and negative years; two operations follow each other, with offsets that reach
  every shortcut of `n_day`.
* Zones have up to three changes, a cycle of two years and days of four seconds;
  the instants asked about lie before, in and two cycles beyond the table. A second has three
  ticks, and a parameter one or two units to a second: a scale that drops the fraction, and one that
  cuts a part off it. The clock has 324 values, two to a second, so that instants at the end of the
  time line are beyond it, where it wraps.
* `MaxOpens = 2`: a connection after a failed or a closed one. Offsets of zero, of whole hours either
  way, of a half hour more, and of less than an hour. Texts of up to three
  bytes, two per connection: one that leaves something behind and one that would
  find it.
* Two rows of a listing, with NULLs and long columns anywhere; up to three
  diagnostic records, of lengths zero, short, beyond the first buffer and 32767, which is also the largest SQLSMALLINT (`ShortMax`).

Deadlock is not checked where the process may crash (lifecycle, interrupt_crash) or where the
bound on operations ends a behaviour (params, civil, zones, connect).

### Fairness

`FairSpec` of ResultLifecycle: both threads keep running and every driver call
returns, which a preemptive scheduler and a driver that answers give; nothing
is assumed of users, who may interrupt for ever or never. `FairSpec` of FetchRows: a
dbFetch that has begun runs on.

## 4. Proofs

Eight modules hold proofs, all checked by TLAPS to the last leaf: `StatementProofs` (about
ResultLifecycle and BindParameters), `TransactionsProofs`, `FetchRowsProofs`, `ReadCellsProofs`,
`ConnectionSetupProofs`, `CatalogProofs` (with Diagnostics), `CalendarProofs` (CivilTime and PosixSpec) and
`TimeZoneInfoProofs`. They hold for every value of the
constants that the ASSUMEs of the models allow: sizes are natural numbers, buffers have room for
something, sets of kinds hold kinds. What else is assumed is named below.
Each module follows the same plan: an inductive invariant that TLC checked on the run
first, one lemma per group of actions that preserve it, and theorems that read the property off.

StatementProofs, on the life of a result, rests on `ThreadInv`: `Shape` (types, and which `m` goes
with which `w`) and `Owner` (the object being built is the one the thread runs
on). It is preserved by every action and gives `ThreadSafety`. NoDanglingCurrent
is not inductive: a cleanup is only safe if the cancel inside it returns, and that
depends on the statement of the current result. `PointerInv` adds `Statements` (a live
result has an open handle, one being built has it from ExecOpen on) and
`Pointer` (what `current` may be at each point); with it `CancelIdle`, `CancelExisting` and
`CancelBuilding` say what a cancel can do, and `PointerSafety` and `CrashFreedom` follow, with every
fault. Neither says that the pointer never dangles or that no cancel crashes, for the code does both:
PointerSafety says that `current_result_` dangles at no result but a `lost` one, CrashFreedom that a cancel
meets a missing statement only there and at a result that has no statement, yet or for want of memory. `UseInv` adds `Flags` and
`Counted` (`uses` is the number of owners), with lemmas on cardinality for each
way a result is born or dies; it gives `TypeCorrect` and `ConnectionLifetime`
with every fault. `Registered` (a thread past `set_current_result` that was not
interrupted is current) gives `Registration`; `Revalidation` needs no more than
`ThreadInv`.

TransactionsProofs first states what a destructor leaves (`FinishLast`,
`FinishNested`, and what `Undo` and `Restore` settle). `TxInv` says the count
is exact, a session with a transaction is out of autocommit mode, the writes of an
open transaction are pending, and histories only hold past writes: it gives
`TypeCorrect`, `RefCount` and `NoEarlyEffect` with every fault. Two
strengthenings under assumptions on the driver give `Restored`
(SQL_AUTOCOMMIT_ON works) and `RollbackWorks` (SQLEndTran works), both also
with appends that fail inside dbBegin, and `KeepsPromise`, the refinement of AtomicWrites: initial states map to
initial states, and each action to one of AtomicWrites or a stutter. Its batches map to
`AppendBatch`, which nobody else sees, and the commit on `bind_list()`'s stack to `AppendDone`, whether it
is nested in dbBegin's or not.

FetchRowsProofs: `FrameInv` relates the row the loop is at to the rows copied and to the room
of the frame (`Room`, also where doubling passes `IntMax`), and the driver's cursor to the
rowset (`CursorOK`, `Reading`); it gives `FetchFrame`. NoRowTwice alone is not inductive, since nothing
in it says where the next row comes from: `Behind` adds that all delivered rows precede the cursor
(`FetchOrder`). `Smooth` says the rows so far are all rows before the cursor, which needs
to know how rowsets divide a result set (`Divides`); it gives `FetchNoGap` and `FetchComplete`.

ReadCellsProofs: `CellsInv` says, for every column of the row in hand, what its
indicator can be: true (`NullsTrue`), known to be unknown (`NullsKnown`), or behind the reader
(`Behind`); a cell copied by then is exact (`CellsWhole`, `TextWhole`), within the limits that `Fits` names. What SQLGetData puts together is
the whole value by arithmetic on `FullCalls`. `OrderInv` adds that bound columns come first
(`BoundFirst`) and that nothing of a row just moved to has been read (`Fresh`); without them GetDataInOrder
is not inductive, as it only speaks of the past.

StatementProofs, on parameters: `OpenOK` (only a failure inside a data frame leaves one open) gives
`StatementReusable`. `MemoryInv` says of each pointer that the driver has who owns its target and
that it is live from the time its parameter was bound in this batch (`LiveInv`); a pointer into a stack
frame never survives (`NoStack`). `RowsInv` adds what the memory holds: the batch's part of the column
(`Exact`, `TableExact`), so that what SQLExecute has read is a prefix of what was given
(`ReadSoFar`). The calls are assumed to be lists whose columns are equally long, which R code checks before.

ConnectionSetupProofs: `SetupInv` lists at each step of the constructor which handles are held
(`HandlesOK`), which request is on its way (`RequestOK`) and what a cell
says, the last one and any earlier one (`AnswerOK`: with the zone that the map still has for its offset, as
the map never forgets), and that a name in the map of zones stands for its offset (`ZonesOK`). From the two
follow `OffsetsAreHonoured` and, as equal offsets have one entry, `CellsAgree`. Offsets are
assumed to be those of a SQL_SS_TIMESTAMPOFFSET_STRUCT (14 hours, 59 minutes). `DecodingKeepsConnection` shows that
OpenConnection's steps are steps of ConnectionSetup or stutters, so that the theorems hold of both.
`TextInv` says that an encoder which has only seen tidy texts has no descriptor, or one in its
initial state, and gives `TextsTheirOwn`. What a tidy text leaves behind is an induction over
its bytes: `Induct` is derived from the well-foundedness of the natural numbers, and `Iterates` shows that the
recursive function of `Riconv` exists for a text of any length.

CatalogProofs: `DiagInv` (`Reading`: where the loop is in the records; `Pieces`: the message is the texts
of the records so far, each once) gives `ErrorsAreExact` although the records may be cleared
between the two calls: the texts then are not claimed, the code is (`CodeIsRecords`). `Stage` ties the owners of the statement to the stage of the listing;
`ListInv` adds that finished rows are the driver's (`Filled`), that the indicators
belong to the row being read (`Indicators`) and that names are the first column's (`Named`).
`EnumInv` follows the position in an attribute list (`Enumerated`). `ObedientIsListed` is an
action property: none of the steps that throw is possible with an obedient driver.

TimeZoneInfoProofs proves `AnswersExactly`, `ConvertsInOrder` and `ReadsBackWritten`. The inductive invariant
`Answers` says that both hints are places of the table and that every answer is the one for the right
place, however it was found: by the hint, by the search, or because the time lies outside the table. The
rest is about the table alone, and has three parts.

*Order.* `Rows`: times and local times rise, and each local time is its time and offset. `Repeats`: a table
that a rule extended ends in the year `last_year`, and one cycle before the end of that year the same offset
is in force, so that a time moved back by whole cycles meets what it left. Two answers that fit such a table
are in order (`MadeInOrder`), which is ConvertInOrder. `LoadRows` shows both of every table that
`Load` leaves. The part for extended tables is an induction over the years of `ExtendTransitions`
(`ExtendedTable`), on top of lemmas about a calendar that repeats (`YearStartCycle`, `YearOf`).

*What the table tells.* LookupsExact measures the answers by `TypeAt`, which knows the file and its rule but no
table. `Told` relates the two: between two transitions TypeAt is the type of the first, before them the default,
and past an extended table what it is a cycle earlier. `LoadTold` shows it of every table: of a fixed offset
(`FixedTold`), of a file without daylight rule (`PlainTold`) and of one that its rule extends (`RuledTold`). The last
rests on a numbering of the changes of a rule, two a year (`Change`): `RuledType` finds the latest
one before a time, in the file or after it, and `FileTable` says which of them the table holds.

*Exact answers.* With `Told` and `Regular`, a civil second has one time, or two, or none, as MakeTime says it
(`MakeExact`, `DescribesPrecisely`); NextTransition and PrevTransition report changes of TypeAt and pass none over
(`NextReal`, `PrevReal`); BreakTime gives the type in force (`BreakPlaces`), past the table through the cycle before.
`ReadsBackWritten` puts them together: a time is cut to its scale (`CutAfter`, `CutBefore`: before 1970 too),
broken down and made again, wherever the clock does not wrap (`FromTimeT`).

`SourcesAssumption` says what zones there are: fixed offsets of at most a day; files
whose times lie between the big bang and the last time; and, where a rule with daylight time goes on, at
least one transition, the last not more than a cycle before 1970 nor in the last three cycles of the
time line, and two different changes a year, which fall into the year on every clock of the zone.
`TablesAssumption` adds, through `Regular`, what exact answers need: no offset is larger than a day, and no year
shorter; the table ends two days before the last representable time, and an extended one after the first cycle from 1970 on;
a transition at the big bang changes nothing, as TimeZoneInfo reports none there; and the clock is past each
change before the next one, since with two changes closer than that a civil second happens three times, for which
`civil_lookup` has no kind. The zoneinfo database has all of these; the checks of `Load` enforce some of them only.
TLC evaluates both assumptions for the zones of the run.

CalendarProofs proves `CalendarExactly`, `DifferencesCount` and `RulesMeanDates`, for every date, number and year,
and `SpecsRead`, for every text of a rule. The
inductive invariant `CalendarInv` is small (the value is a date and time aligned to its unit, and `ref` is its
count); the work is in the operations. The reference counts days by a formula, the code by loops, so each loop is
shown to keep the sum of the first of its month (`First`) and the days to go. The loops are recursive functions:
that one is well defined, and ends where what its rounds preserve holds, is `LoopExists` and `LoopEnds`, by induction on what is
left to do (`Falls`). With the lengths of periods (`FourYears`, `HundredYears`, `Cycles`) that gives `SkipKeepsDay` for the
loops over years, `MonthsSkipped` for months, and with the shortcuts of `CycleStart` and the carries of
hours, minutes and seconds `SecondsCarried`: any six numbers stand for the date and time that the reference
names. `Stepped` (operator+), `LessCounts` (operator<), `Differs` (operator-) and `WeekdaysRight` follow from it and from
the order of dates (`DateOrder`). `MonthRules` and `JulianDays` are the dates of rules, `AllYear` the rule without standard time. Assumed
are the kinds of the constants only: dates to begin with are dates (`StartsAssumption`), numbers are integers
(`OffsetsAssumption`, `RawAssumption`). Years are unbounded, as in the model.

`SpecsRead` says that `ParsePosixSpec()` reads a text of tokens, however long, as the one meaning that the
grammar gives it, and refuses one without a meaning (`SpecsAsWritten`). Its invariant is `TextInv`: the rule is
what the parser makes of the text. The rest is about texts alone. The grammar speaks of the pieces of a text, the
parser of positions in it, so each form of the grammar is first stated by position (`PlainIs`, `OffsetIs`,
`DateIs`, `DateTimesAre`, `CutsAre`); then each function of the parser reads exactly the pieces of its form, in
both directions: a piece of the grammar, followed by what may follow it, is read to its end (`...Written`), and
what the function reads is such a piece (`...Read`, `OffsetTaken`). Where an abbreviation ends is the least
position of a stop (`FirstOf`, by the well-founded order of positions), and the number of its letters is well
defined by induction (`SumExists`, `LettersTyped`). `MeaningRead` and `ReadMeaning` put the pieces together.
Assumed is that a text is a sequence of tokens (`TextsAssumption`). The grammar of PosixSpec says more than the
comment in the code where the parser is greedy: a colon after an offset belongs to the offset until that has its
seconds (`EST5:EDT,...` is refused), and an abbreviation that begins with `<` ends at the first `>`.

Only model-checked: the liveness properties (`CallReturns`, `FetchTerminates`), because fairness
and ENABLED are out of the prover's reach. Every other property of a run that passes is a theorem.
What TimeZoneInfoProofs needs of the calendar it takes as an assumption (`CycleAssumption`: years of
any lengths, the same again after a cycle); `Cycles` in CalendarProofs shows it of the Gregorian one.

## 5. Observations without a run of their own

* A cancel that arrives when the query has just finished makes the
  constructor return a result that is not current (`ReturnsCurrent` therefore
  speaks of constructors that saw no interrupt).
* The execution thread builds its `odbc_error` with R's API (`ExecRaise`)
  while the main thread may use it.
* After SQLFetchScroll fails past the first row of a rowset, `next()` has
  already reset the position, and a repeated dbFetch delivers that rowset again (the
  `"rewound"` exception of `NoRowTwice`).
* A second result set reached inside one dbFetch is read without the unbinding
  that the first one had, and with the first one's column types; a set with more
  columns than the first keeps the buffers of the additional ones
  (the exceptions of `GetDataInOrder` and `CellsExact`).
* Byte values of more than one piece lose all but the last from a driver
  that answers SQL_NO_TOTAL; a BIGINT read as text is cut to the column's size, and one read as
  integer or double is narrowed, silently (nanodbc.cpp:4375); text of a column of unknown type is cut
  to 127 bytes, as the buffer of 128 holds its zero (`Fits` in ReadCells). A timestamp
  of a later result set that is read as text gets the offset of the process.

Exceptions that the properties of the lifecycle and the transactions make, each because
the code does otherwise (adding a fault named to a cfg shows it):

* `raise_message()` tells of an interrupt before `cancel_fn()` runs. If it leaves by an exception
  (`tryCatch(message = )`, another Ctrl-C), or `cancel_fn()` throws, or SQLCancel fails in `cleanup_fn()`,
  the constructor unwinds without `~odbc_result` and `current_result_` stays at freed memory, which the next
  dbSendQuery dereferences (`lost`, the exception of NoDanglingCurrent and NoOtherCrash).
* When `std::make_shared<statement>` has no memory, the cancel in `cleanup_fn()` meets a null
  statement (the other exception of NoOtherCrash).
* `cancel_fn` resets `current_result_` after its first cancel, also when that
  ended nothing; later interrupts of the same query do nothing (`MainCancelNothing`).
* With `"nested"` PromiseKept fails: a dbAppendTable that fails inside dbBegin only marks the
  connection; dbCommit commits its partial batches.
* With `batch_rows` smaller than the number of parameter rows only the last
  batch's rows can be fetched (`Bind` with `"batches"` in FetchRows).

Of parameters (the exceptions of `SoundCall` in BindParameters, and `temporary`, the parameters
to which a second data frame was bound):

* `date_int_t` falls through to `date_double_t` (odbc_result.cpp:119), so that Dates
  stored as integers are bound again as doubles, although NEWS.md:75 reports them fixed; their
  NAs, and those of integer date-times, are not NULL.
* The fallback for drivers without SQLDescribeParam does not reach date-times
  (odbc_result.cpp:1165), which ask for a description themselves.
* Of a data frame: the text of a single row with NA is sent as "NA", one without rows binds its
  columns over the statement's own parameters, a second one for the same
  parameter is bound through the first, and a failure inside one leaves the
  statement unable to take another.

Of connections, texts and times:

* No handle is freed when the second SQLAllocHandle of `allocate()` fails (it is outside the
  try block), and none when SQLDisconnect fails.
* A zone that cannot be loaded is UTC until the process ends, and those of half hours or of less than
  an hour have no file to be loaded from: a cell of +05:30 is read as UTC. A cell of +00:00 is read in
  the connection's zone (odbc_result.cpp:571). The warning of
  `as_double()`, "Falling back to the `timezone` connection argument" (odbc_result.cpp:601),
  is never given: cctz writes nothing to `std::clog`, and the cell is read as UTC.
* An encoder is never flushed or reset. With CP1258 the values "ba" and "cd" arrive as "b" and
  "ac", because the converter holds a letter back in case a mark follows; after
  a text that ends in another shift state, or that is invalid, the next one is
  decoded in that state (`Tidy` in OpenConnection).
* A POSIX rule that leaves out its dates, or ends one early, is accepted with the date
  unset (`Complete` in PosixSpec).
* A zoneinfo file that has a rule with daylight time but no transitions is extended from the big
  bang on, over one cycle, and then gets a transition in 2038 for the second half of the time line: in between
  the rule is not applied. `SourcesAssumption` leaves such a file out.
* Where the last cycle of an extended table lies before 1970, a time within one cycle of the end of the time line
  is given as MaxTime, since `k > MaxTime \div CycleSecs` comes first (TimeLocal); `Regular` leaves such a zone out.
* A written POSIXct in the later of a repeated hour reads back as the earlier; one before
  1970 with a fraction that its scale keeps gets a negative fraction, which a driver refuses (`ReadBack`).
  The fraction is cut, not rounded, to the scale: at scale 3, .123 may be sent as .122. A time before
  1677 or after 2262 wraps, as `system_clock` counts nanoseconds (`InClock`).
* Of a rule, RulesExact checks the dates of Jn and Mm.w.d and the rule for the whole year. A date of the form n is the
  day of the year already: that it is parsed as such is in SpecsAsWritten, its use has no check of its own.

Of listings and errors:

* A record whose text has 32767 characters makes the buffer length negative, and
  the message ends there; a record without text repeats the end of the one before;
  a handle without records gives an uninitialised state; the code is the last record's.
* An attribute without "=" or truncated attributes (SQL_SUCCESS_WITH_INFO) end the listing of
  drivers with an error, and the last attribute is lost where the length stops before its NUL.
* A NULL COLUMN_SIZE or BUFFER_LENGTH ends the listing of columns with an error.

## 6. Not modelled

Connection strings, data types and driver configuration have no state: they map
arguments, environment variables and files to strings. The connection pane is a user
interface. RcppExports is generated. Of cctz, the formatting and parsing of
times, the zones of the C library and the command-line tools are not used by
the package. `connection_info()` reports what SQLGetInfo answers. `primary_keys` and the
privileges of the catalog are not called. The space of the converted texts
(E2BIG) is not counted. dbWriteTable is R code that sends statements, none of
which promises anything about the others.

## 7. Plan

Done: all modules of section 2, and the proofs of section 4. Left:

1. Liveness of the other components: `connect()` with a timeout, the batches of an insert.
2. What dbWriteTable leaves behind when one of its statements fails (a hazard without a property).
