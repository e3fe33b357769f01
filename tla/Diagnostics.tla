------------------------------ MODULE Diagnostics ------------------------------
(***************************************************************************)
(* How a failed ODBC call becomes the text of an R error.  database_error  *)
(* asks the driver for the diagnostic records of a handle, each with two   *)
(* calls of SQLGetDiagRec: one for the length of its text, one for the     *)
(* text.  A record is the number of characters of its text; its state and  *)
(* its text are named by its position.                                     *)
(*                                                                         *)
(* The call may have failed on the execution thread, while the main thread *)
(* sends SQLCancel to the same statement, which clears its records.        *)
(***************************************************************************)
EXTENDS Integers, Sequences

CONSTANTS
  MaxRecords,   \* bound: diagnostic records of a failed call
  TextLengths,  \* bound: lengths of their texts
  ShortMax      \* the largest SQLSMALLINT, 2^15 - 1 in the code

SQL_MAX_MESSAGE_LENGTH == 512

ASSUME ShortMaxAssumption == ShortMax \in Nat /\ ShortMax >= SQL_MAX_MESSAGE_LENGTH
ASSUME RecordsAssumption == MaxRecords \in Nat /\ TextLengths \subseteq 0..ShortMax

VARIABLES
  records,   \* the diagnostic records of the handle
  invalid,   \* the handle is null
  threaded,  \* the call failed on the execution thread
  step,      \* recent_error(): none, "measure", "read", or the error is "raised"
  i,         \* the record asked for
  size,      \* sql_message.size()
  holds,     \* sql_message: the record whose text was last copied to it, 0 for none
  result,    \* the string built from it: a piece for each record
  sql_state, \* sql_state: the record it is from, 0 while it is uninitialized
  shown,     \* the error: its code and the pieces of its text
  cleared    \* history: SQLCancel has cleared the records
diagVars == <<records, invalid, threaded, step, i, size, holds, result, sql_state, shown, cleared>>

\* A number as a SQLSMALLINT, which wraps around.
Short(n) == ((n + (ShortMax + 1)) % (2 * (ShortMax + 1))) - (ShortMax + 1)

\* The code of an error whose state was never asked for, "00000", and of one whose
\* state was not written before it was read.
NoCode == -1
Garbage == 0

\* A piece of the text is a record's whole text, or what is left of it behind a NUL.
Piece(r, whole) == [from |-> r, whole |-> whole]
Nothing == [code |-> NoCode, text |-> <<>>]

RecordLists == UNION {[1..n -> TextLengths] : n \in 0..MaxRecords}

DiagTypeOK ==
  /\ records \in RecordLists
  /\ {invalid, threaded, cleared} \subseteq BOOLEAN
  /\ step \in {"none", "measure", "read", "raised"}
  /\ i \in 1..(MaxRecords + 1)
  /\ size \in 1..(ShortMax + 1)
  /\ holds \in 0..MaxRecords
  /\ result \in Seq([from: 0..MaxRecords, whole: BOOLEAN])
  /\ sql_state \in 0..MaxRecords
  /\ shown.code \in {NoCode} \cup 0..MaxRecords
  /\ shown.text \in Seq([from: 0..MaxRecords, whole: BOOLEAN])

DiagInit ==
  /\ records = <<>> /\ invalid = FALSE /\ threaded = FALSE /\ cleared = FALSE
  /\ step = "none" /\ i = 1 /\ size = SQL_MAX_MESSAGE_LENGTH /\ holds = 0
  /\ result = <<>> /\ sql_state = Garbage /\ shown = Nothing

\* NANODBC_THROW_DATABASE_ERROR: recent_error() begins on the handle of a failed call.
Throw(null, thread) ==
  /\ step = "none"
  /\ step' = "measure"
  /\ records' \in IF null THEN {<<>>} ELSE RecordLists
  /\ invalid' = null /\ threaded' = thread
  /\ i' = 1 /\ size' = SQL_MAX_MESSAGE_LENGTH /\ holds' = 0
  /\ result' = <<>> /\ sql_state' = Garbage /\ shown' = Nothing /\ cleared' = FALSE

\* The whole error: every NUL of it has become a space.
Complete ==
  /\ step' = "raised"
  /\ shown' = [code |-> sql_state, text |-> result]
  /\ UNCHANGED <<i, size, holds, result, sql_state>>

\* The early return: the state is not given, and what() ends at the first NUL, which
\* is at the end of the first piece.
GiveUp ==
  /\ step' = "raised"
  /\ shown' = [code |-> NoCode, text |-> IF result # <<>> /\ result[1].whole THEN <<result[1]>> ELSE <<>>]
  /\ UNCHANGED <<i, size, holds, result, sql_state>>

\* The first SQLGetDiagRec of a record: the length of its text.
Measure ==
  /\ step = "measure"
  /\ \/ /\ ~invalid /\ i <= Len(records)
        /\ sql_state' = i
        /\ size' = IF records[i] > 0 THEN records[i] + 1 ELSE size
        /\ step' = "read"
        /\ UNCHANGED <<i, holds, result, shown>>
     \/ ~invalid /\ i > Len(records) /\ Complete      \* SQL_NO_DATA
     \/ invalid /\ step' = "read" /\ UNCHANGED <<i, size, holds, result, sql_state, shown>>
  /\ UNCHANGED <<records, invalid, threaded, cleared>>

\* The second one: its text, into a buffer whose size is passed as a SQLSMALLINT.
Readable == ~invalid /\ i <= Len(records) /\ Short(size) >= 0

\* Mutant: the buffer keeps the size it was made with.
MutCopied == IF records[i] \in 1..(SQL_MAX_MESSAGE_LENGTH - 1) THEN Piece(i, TRUE) ELSE Piece(holds, FALSE)
\* What SQLGetDiagRec leaves in sql_message: without a text only a NUL is written, before
\* the rest of the text of an earlier record.
Copied == IF records[i] > 0 THEN Piece(i, TRUE) ELSE Piece(holds, FALSE)

ReadText ==
  /\ step = "read"
  /\ \/ /\ Readable
        /\ holds' = IF records[i] > 0 THEN i ELSE holds
        /\ result' = Append(result, Copied)
        /\ sql_state' = i
        /\ i' = i + 1
        /\ step' = "measure"
        /\ UNCHANGED <<size, shown>>
     \/ ~Readable /\ GiveUp
  /\ UNCHANGED <<records, invalid, threaded, cleared>>

\* The user interrupts: the main thread cancels the statement whose error is being read.
ClearRecords ==
  /\ threaded /\ step \in {"measure", "read"} /\ ~cleared
  /\ records' = <<>> /\ cleared' = TRUE
  /\ UNCHANGED <<invalid, threaded, step, i, size, holds, result, sql_state, shown>>

DiagNext == Measure \/ ReadText \/ ClearRecords

--------------------------------------------------------------------------------
\* An error that nothing disturbs has the text of every record that has one, in order,
\* whatever the lengths of the texts (SQLGetDiagRec is called with a buffer sized for
\* each record in turn); a text of ShortMax characters is the one that does not fit.
ErrorComplete ==
  (step = "raised" /\ ~invalid /\ ~cleared /\ \A k \in DOMAIN records : records[k] # ShortMax) =>
    LET whole == {n \in DOMAIN shown.text : shown.text[n].whole} IN
    /\ {shown.text[n].from : n \in whole} = {k \in DOMAIN records : records[k] > 0}
    /\ \A m, n \in whole : m < n => shown.text[m].from < shown.text[n].from

\* The code of an error is the state of one of its records, or none at all; only a
\* handle without any record gives the error a code that nobody wrote.
CodeIsRecords ==
  step = "raised" =>
    /\ (invalid => shown.code = NoCode)
    /\ (shown.code = Garbage => result = <<>>)
    /\ (shown.code > 0 => shown.code = Len(result))

\* An error says what the driver said: its text and its code are of the records there were.
ErrorExact == ErrorComplete /\ CodeIsRecords
================================================================================
