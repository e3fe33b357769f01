----------------------------- MODULE CatalogProofs -----------------------------
(***************************************************************************)
(* Theorems about Catalog and Diagnostics for any number of rows, drivers  *)
(* and diagnostic records, any texts, and any NULLs and long columns.      *)
(***************************************************************************)
EXTENDS Catalog, TLAPS

--------------------------------------------------------------------------------
(* The inductive invariants *)

\* Every record that was read has its piece, which is its text if it has one.
Pieces ==
  \A j \in 1..Len(result) :
    IF records[j] > 0 THEN result[j] = Piece(j, TRUE) ELSE ~result[j].whole

\* While the error is made: what is known of the records before the next one.
Reading ==
  /\ Len(result) = i - 1
  /\ sql_state = IF step = "read" /\ ~invalid THEN i ELSE i - 1
  /\ invalid => i = 1
  /\ ~cleared => /\ i <= Len(records) + 1
                 /\ step = "read" /\ ~invalid => i <= Len(records)
                 /\ Pieces
                 /\ (\A k \in DOMAIN records : records[k] # ShortMax) => size <= ShortMax

DiagInv ==
  /\ DiagTypeOK
  /\ cleared => records = <<>>
  /\ step \in {"measure", "read"} => Reading
  /\ ErrorExact

\* Where a call is: at which step its error is, and of what kind it can be.
Stage ==
  /\ kind = "none" => at = "done"
  /\ at \in {"call", "bind", "next", "read"} => kind \in DOMAIN Accessors
  /\ at = "enum" => kind \in {"drivers", "data_sources"}
  /\ kind = "query" => at \in {"raising", "thrown"}
  /\ step \in {"measure", "read"} <=> at = "raising"
  /\ step = "raised" => at = "thrown"
  /\ step = "none" => ~invalid

RowType == [null: SUBSET (0..17), nullable: 0..2]

\* The vector of column c when all is read, and the first n values of it.
Wanted(c) == [r \in 1..Len(answer) |-> Expected(r, c)]
FirstOf(f, n) == [r \in 1..n |-> f[r]]

Injective(s) == \A m, n \in 1..Len(s) : s[m] = s[n] => m = n

\* The rows before the current one are read; of the current one the columns that are not left.
Filled ==
  \A c \in Range(Accessors[kind]) :
    lists[c] = FirstOf(Wanted(c), IF c \in Range(todo) THEN row - 1 ELSE row)

\* The indicators of the columns that are left are those of the bound columns.
Indicators ==
  \A c \in Range(todo) : c \in nulls <=> c \in answer[row].null /\ c \notin long

\* An enumeration has a name in every row.
Named ==
  kind \in {"catalogs", "schemas", "table_types"} =>
    \A r \in 1..Len(answer), c \in Range(Accessors[kind]) : c \notin answer[r].null

ListInv ==
  kind \in DOMAIN Accessors /\ at \in {"call", "bind", "next", "read", "done"} =>
    /\ answer \in Seq(RowType)
    /\ DOMAIN lists = Range(Accessors[kind])
    /\ todo \in Seq(0..17) /\ Injective(todo) /\ Range(todo) \subseteq Range(Accessors[kind])
    /\ at \in {"call", "bind"} => row = 0
    /\ at = "read" => row >= 1 /\ Indicators
    /\ at = "done" => row = Len(answer)
    /\ Filled
    /\ Named

\* Every driver or data source that is enumerated so far is listed, the last one last.
Enumerated(l) ==
  /\ l \in Seq(Nat \X Nat)
  /\ l = <<>> <=> row = 0
  /\ l # <<>> => l[Len(l)][1] = row
  /\ \A k \in 1..row : \E n \in 1..Len(l) : l[n][1] = k
  /\ \A n \in 1..(Len(l) - 1) :
       l[n + 1][1] = l[n][1] + 1 \/ l[n + 1] = <<l[n][1], l[n][2] + 1>>
  /\ kind = "drivers" =>
       \A k \in 1..row : \A j \in 1..Len(answer[k].attrs) :
         (j < Len(answer[k].attrs) \/ answer[k].closed) => <<k, j>> \in Range(l)

EnumInv ==
  kind \in {"drivers", "data_sources"} /\ at \in {"enum", "done"} =>
    /\ answer \in Seq(Drivers)
    /\ at = "done" => row = Len(answer)
    /\ Enumerated(lists)

CatalogInv == DiagInv /\ TypeOK /\ HandleLivesAsLong /\ Stage /\ ListInv

--------------------------------------------------------------------------------
(* Diagnostics *)

USE ShortMaxAssumption DEF SQL_MAX_MESSAGE_LENGTH

PieceType == [from: 0..MaxRecords, whole: BOOLEAN]

\* A number below the modulus is its own remainder.
LEMMA OwnRemainder ==
  ASSUME NEW m \in Nat, NEW x \in Nat, x < m
  PROVE  x % m = x
OBVIOUS

\* A length that a SQLSMALLINT can hold is passed as it is.
LEMMA ShortOfSmall ==
  ASSUME NEW n \in 0..ShortMax
  PROVE  Short(n) = n
<1>1. /\ n + (ShortMax + 1) \in Nat /\ 2 * (ShortMax + 1) \in Nat
      /\ n + (ShortMax + 1) < 2 * (ShortMax + 1)
  OBVIOUS
<1>2. (n + (ShortMax + 1)) % (2 * (ShortMax + 1)) = n + (ShortMax + 1)
  BY <1>1, OwnRemainder
<1>3. Short(n) = (n + (ShortMax + 1)) - (ShortMax + 1)
  BY <1>2, Zenon DEF Short
<1> QED
  BY <1>3

\* The records of a handle.
LEMMA RecordsType ==
  ASSUME NEW rs \in RecordLists
  PROVE  /\ rs \in Seq(TextLengths) /\ Len(rs) \in 0..MaxRecords
         /\ \A k \in 1..Len(rs) : rs[k] \in 0..ShortMax
<1>1. PICK n \in 0..MaxRecords : rs \in [1..n -> TextLengths]
  BY DEF RecordLists
<1>2. n \in Nat
  BY <1>1
<1>3. rs \in Seq(TextLengths) /\ Len(rs) = n
  BY <1>1, <1>2
<1> QED
  BY <1>1, <1>3, RecordsAssumption

\* A handle may have no records.
LEMMA NoRecords == <<>> \in RecordLists
<1>1. <<>> \in [1..0 -> TextLengths]
  OBVIOUS
<1>2. 0 \in 0..MaxRecords
  BY RecordsAssumption
<1> QED
  BY <1>1, <1>2 DEF RecordLists

\* An error that is not yet made says nothing.
LEMMA NothingType ==
  /\ Nothing.code = -1 /\ Nothing.text \in Seq(PieceType)
  /\ <<>> \in Seq(PieceType) /\ MaxRecords \in Nat
BY RecordsAssumption DEF Nothing, NoCode

\* No error is being made.
LEMMA DiagReset ==
  ASSUME DiagInit
  PROVE  DiagInv
<1> USE DEF DiagInit
<1>n. /\ 1 \in 1..(MaxRecords + 1) /\ 512 \in 1..(ShortMax + 1) /\ 0 \in 0..MaxRecords
  BY NothingType
<1>1. DiagTypeOK
  BY <1>n, NoRecords, NothingType, Zenon DEF DiagTypeOK, PieceType, Garbage, NoCode, Nothing
<1>2. ErrorExact
  BY DEF ErrorExact, ErrorComplete, CodeIsRecords
<1> QED
  BY <1>1, <1>2 DEF DiagInv

\* recent_error() begins.
LEMMA ThrowStep ==
  ASSUME NEW null \in BOOLEAN, NEW thread \in BOOLEAN, Throw(null, thread)
  PROVE  DiagInv' /\ step' = "measure" /\ invalid' = null
<1> USE DEF Throw
<1>1. records' \in RecordLists
  BY NoRecords
<1>n. /\ 1 \in 1..(MaxRecords + 1) /\ 512 \in 1..(ShortMax + 1) /\ 0 \in 0..MaxRecords
  BY NothingType
<1>2. DiagTypeOK'
  <2>1. /\ invalid' \in BOOLEAN /\ threaded' \in BOOLEAN /\ cleared' \in BOOLEAN /\ step' = "measure"
        /\ i' = 1 /\ size' = 512 /\ holds' = 0 /\ result' = <<>> /\ sql_state' = 0 /\ shown' = Nothing
    BY DEF Garbage
  <2>2. shown'.code = -1 /\ shown'.text \in Seq(PieceType) /\ result' \in Seq(PieceType)
    BY <2>1, NothingType
  <2> QED
    BY <1>1, <1>n, <2>1, <2>2, Zenon DEF DiagTypeOK, PieceType, NoCode
<1>3. ErrorExact'
  BY DEF ErrorExact, ErrorComplete, CodeIsRecords
<1>4. Reading'
  <2>1. Len(records') \in Nat /\ Len(result') = 0
    BY <1>1, RecordsType
  <2> QED
    BY <2>1 DEF Reading, Pieces, Garbage
<1>5. cleared' = FALSE
  OBVIOUS
<1> QED
  BY <1>2, <1>3, <1>4, <1>5 DEF DiagInv

\* What SQLGetDiagRec leaves is a piece.
LEMMA CopiedType ==
  ASSUME DiagTypeOK, i <= Len(records)
  PROVE  Copied \in PieceType /\ (records[i] > 0 => Copied = Piece(i, TRUE))
         /\ (~(records[i] > 0) => ~Copied.whole)
<1>1. i \in 0..MaxRecords /\ holds \in 0..MaxRecords
  BY RecordsType, RecordsAssumption DEF DiagTypeOK
<1>2. Piece(i, TRUE) \in PieceType /\ Piece(holds, FALSE) \in PieceType /\ Piece(holds, FALSE).whole = FALSE
  BY <1>1 DEF Piece, PieceType
<1> QED
  BY <1>2 DEF Copied

\* The error keeps saying what the records are.
LEMMA DiagStep ==
  ASSUME DiagInv, DiagNext
  PROVE  DiagInv' /\ invalid' = invalid /\ step \in {"measure", "read"}
<1>t. /\ DiagTypeOK /\ (cleared => records = <<>>) /\ (step \in {"measure", "read"} => Reading)
      /\ records \in RecordLists /\ records \in Seq(TextLengths) /\ Len(records) \in 0..MaxRecords
      /\ i \in 1..(MaxRecords + 1) /\ result \in Seq(PieceType) /\ MaxRecords \in Nat
      /\ \A k \in 1..Len(records) : records[k] \in 0..ShortMax
  BY RecordsType, RecordsAssumption DEF DiagInv, DiagTypeOK, PieceType
<1>b. invalid \in BOOLEAN /\ cleared \in BOOLEAN /\ threaded \in BOOLEAN
  BY <1>t DEF DiagTypeOK
<1>1. CASE Measure
  <2> USE DEF Measure
  <2>1. /\ step = "measure" /\ Reading
        /\ UNCHANGED <<records, invalid, threaded, cleared, holds, result, i>>
    BY <1>1, <1>t DEF Complete
  <2>2. CASE ~invalid /\ i <= Len(records) /\ step' = "read"
    <3>1. /\ sql_state' = i /\ shown' = shown
          /\ size' = IF records[i] > 0 THEN records[i] + 1 ELSE size
      BY <1>1, <2>2 DEF Complete
    <3>2. size \in 1..(ShortMax + 1) /\ records[i] \in 0..ShortMax /\ i \in DOMAIN records
      BY <1>t, <2>2 DEF DiagTypeOK
    <3>3. size' \in 1..(ShortMax + 1) /\ i \in 0..MaxRecords
      BY <1>t, <2>2, <3>1, <3>2
    <3>4. DiagTypeOK'
      BY <1>t, <2>1, <2>2, <3>1, <3>3 DEF DiagTypeOK
    <3>5. (\A k \in DOMAIN records : records[k] # ShortMax) => records[i] # ShortMax
      BY <3>2
    <3>6. Reading'
      <4>1. ~cleared /\ (\A k \in DOMAIN records : records[k] # ShortMax) => size <= ShortMax
        BY <2>1 DEF Reading
      <4>2. ~cleared /\ (\A k \in DOMAIN records : records[k] # ShortMax) => size' <= ShortMax
        BY <3>1, <3>2, <3>5, <4>1
      <4>3. Pieces' <=> Pieces
        BY <2>1 DEF Pieces
      <4> QED
        BY <2>1, <2>2, <3>1, <4>2, <4>3 DEF Reading
    <3>7. ErrorExact'
      BY <2>2 DEF ErrorExact, ErrorComplete, CodeIsRecords
    <3> QED
      BY <1>t, <2>1, <3>4, <3>6, <3>7 DEF DiagInv
  <2>3. CASE ~invalid /\ i > Len(records) /\ Complete
    <3>1. /\ step' = "raised" /\ shown' = [code |-> sql_state, text |-> result]
          /\ UNCHANGED <<size, sql_state>>
      BY <2>3 DEF Complete
    <3>2. shown'.code = sql_state /\ shown'.text = result
      BY <3>1
    <3>3. DiagTypeOK'
      BY <1>t, <2>1, <3>1, <3>2 DEF DiagTypeOK, PieceType
    <3>4. sql_state = Len(result) /\ sql_state \in Nat /\ (~cleared => Len(result) = Len(records))
      BY <1>t, <2>1, <2>3 DEF Reading
    <3>5. ErrorComplete'
      <4>1. SUFFICES ASSUME ~cleared
                     PROVE  LET whole == {n \in DOMAIN result : result[n].whole} IN
                            /\ {result[n].from : n \in whole} = {k \in DOMAIN records : records[k] > 0}
                            /\ \A m, n \in whole : m < n => result[m].from < result[n].from
        BY <2>1, <3>2 DEF ErrorComplete
      <4>2. Pieces /\ DOMAIN result = 1..Len(result) /\ DOMAIN records = 1..Len(result)
        BY <1>t, <2>1, <3>4, <4>1 DEF Reading
      <4>3. \A n \in 1..Len(result) :
              /\ result[n].whole => records[n] > 0 /\ result[n].from = n
              /\ records[n] > 0 => result[n].whole
        BY <4>2 DEF Pieces, Piece
      <4>4. {n \in DOMAIN result : result[n].whole} = {k \in DOMAIN records : records[k] > 0}
        BY <4>2, <4>3
      <4> DEFINE whole == {n \in DOMAIN result : result[n].whole}
      <4>5. \A n \in whole : result[n].from = n
        BY <4>2, <4>3
      <4> QED
        BY <4>4, <4>5
    <3>6. CodeIsRecords'
      BY <2>1, <2>3, <3>2, <3>4 DEF CodeIsRecords, Garbage
    <3> QED
      BY <1>t, <2>1, <3>1, <3>3, <3>5, <3>6 DEF DiagInv, ErrorExact
  <2>4. CASE invalid /\ step' = "read"
    <3>1. UNCHANGED <<size, sql_state, shown>>
      BY <1>1, <2>4 DEF Complete
    <3>2. DiagTypeOK'
      BY <1>t, <2>1, <2>4, <3>1 DEF DiagTypeOK
    <3>3. Reading'
      <4>1. Pieces' <=> Pieces
        BY <2>1 DEF Pieces
      <4> QED
        BY <2>1, <2>4, <3>1, <4>1 DEF Reading
    <3>4. ErrorExact'
      BY <2>4 DEF ErrorExact, ErrorComplete, CodeIsRecords
    <3> QED
      BY <1>t, <2>1, <3>2, <3>3, <3>4 DEF DiagInv
  <2>5. \/ ~invalid /\ i <= Len(records) /\ step' = "read"
        \/ ~invalid /\ i > Len(records) /\ Complete
        \/ invalid /\ step' = "read"
    BY <1>1
  <2> QED
    BY <2>1, <2>2, <2>3, <2>4, <2>5
<1>2. CASE ReadText
  <2> USE DEF ReadText
  <2>1. step = "read" /\ Reading /\ UNCHANGED <<records, invalid, threaded, cleared, size>>
    BY <1>2, <1>t DEF GiveUp
  <2>2. CASE Readable
    <3>1. /\ holds' = IF records[i] > 0 THEN i ELSE holds
          /\ result' = Append(result, Copied)
          /\ sql_state' = i /\ i' = i + 1 /\ step' = "measure" /\ shown' = shown
      BY <1>2, <2>2 DEF GiveUp
    <3>2. ~invalid /\ i <= Len(records) /\ i \in 1..MaxRecords
      BY <1>t, <2>2 DEF Readable
    <3>3. /\ Copied \in PieceType /\ (records[i] > 0 => Copied = Piece(i, TRUE))
          /\ (~(records[i] > 0) => ~Copied.whole)
      BY <1>t, <3>2, CopiedType
    <3>4. /\ result' \in Seq(PieceType) /\ Len(result') = Len(result) + 1
          /\ \A j \in 1..Len(result) : result'[j] = result[j]
          /\ result'[Len(result) + 1] = Copied
      BY <1>t, <3>1, <3>3
    <3>5. Len(result) = i - 1 /\ Len(result') = i
      BY <1>t, <2>1, <3>4 DEF Reading
    <3>6. DiagTypeOK'
      <4>1. holds' \in 0..MaxRecords /\ i' \in 1..(MaxRecords + 1) /\ sql_state' \in 0..MaxRecords
        BY <1>t, <3>1, <3>2 DEF DiagTypeOK
      <4> QED
        BY <1>t, <2>1, <3>1, <3>4, <4>1 DEF DiagTypeOK, PieceType
    <3>7. ~cleared => Pieces'
      <4>1. SUFFICES ASSUME ~cleared, NEW j \in 1..Len(result')
                     PROVE  IF records[j] > 0 THEN result'[j] = Piece(j, TRUE) ELSE ~result'[j].whole
        BY <2>1 DEF Pieces
      <4>2. CASE j \in 1..Len(result)
        BY <2>1, <3>4, <4>1, <4>2 DEF Reading, Pieces
      <4>3. CASE j = i
        BY <3>3, <3>4, <3>5, <4>3
      <4>4. j \in 1..Len(result) \/ j = i
        BY <1>t, <3>5, <4>1
      <4> QED
        BY <4>2, <4>3, <4>4
    <3>8. Reading'
      BY <1>t, <2>1, <3>1, <3>2, <3>5, <3>7 DEF Reading
    <3>9. ErrorExact'
      BY <3>1 DEF ErrorExact, ErrorComplete, CodeIsRecords
    <3> QED
      BY <1>t, <2>1, <3>1, <3>6, <3>8, <3>9 DEF DiagInv
  <2>3. CASE ~Readable
    <3>1. GiveUp
      BY <1>2, <2>3
    <3>2. step' = "raised" /\ UNCHANGED <<i, holds, result, sql_state>>
      BY <3>1 DEF GiveUp
    <3>3. shown'.code = NoCode /\ shown'.text = IF result # <<>> /\ result[1].whole THEN <<result[1]>> ELSE <<>>
      BY <3>1 DEF GiveUp
    <3>4. shown'.text \in Seq(PieceType)
      <4>1. result # <<>> => result[1] \in PieceType
        BY <1>t
      <4> QED
        BY <3>3, <4>1
    <3>5. DiagTypeOK'
      BY <1>t, <2>1, <3>2, <3>3, <3>4 DEF DiagTypeOK, PieceType
    <3>6. CodeIsRecords'
      BY <3>3 DEF CodeIsRecords, NoCode, Garbage
    <3>7. ErrorComplete'
      <4>1. SUFFICES ASSUME ~invalid, ~cleared, \A k \in DOMAIN records : records[k] # ShortMax
                     PROVE  FALSE
        BY <2>1 DEF ErrorComplete
      <4>2. i <= Len(records) /\ size <= ShortMax
        BY <2>1, <4>1 DEF Reading
      <4>3. size \in 1..ShortMax
        BY <1>t, <4>2 DEF DiagTypeOK
      <4>4. Short(size) = size
        BY <4>3, ShortOfSmall
      <4> QED
        BY <2>3, <4>1, <4>2, <4>3, <4>4 DEF Readable
    <3> QED
      BY <1>t, <2>1, <3>2, <3>5, <3>6, <3>7 DEF DiagInv, ErrorExact
  <2> QED
    BY <2>1, <2>2, <2>3
<1>3. CASE ClearRecords
  <2>1. /\ step \in {"measure", "read"} /\ records' = <<>> /\ cleared' = TRUE /\ Reading
        /\ UNCHANGED <<invalid, threaded, step, i, size, holds, result, sql_state, shown>>
    BY <1>3, <1>t DEF ClearRecords
  <2>2. DiagTypeOK'
    BY <1>t, <2>1, NoRecords DEF DiagTypeOK
  <2>3. Reading'
    BY <2>1 DEF Reading
  <2>4. ErrorExact'
    BY <2>1 DEF ErrorExact, ErrorComplete, CodeIsRecords
  <2> QED
    BY <2>1, <2>2, <2>3, <2>4 DEF DiagInv
<1> QED
  BY <1>1, <1>2, <1>3 DEF DiagNext

--------------------------------------------------------------------------------
(* Sequences and accessors *)

\* The empty sequence is the one without elements.
LEMMA NoElements ==
  ASSUME NEW S, NEW s \in Seq(S)
  PROVE  s = <<>> <=> Len(s) = 0
OBVIOUS

\* The rest of a sequence without repetition.
LEMMA TailFacts ==
  ASSUME NEW S, NEW s \in Seq(S), s # <<>>, Injective(s)
  PROVE  /\ Head(s) \in S /\ Head(s) \in Range(s)
         /\ Tail(s) \in Seq(S) /\ Len(Tail(s)) = Len(s) - 1 /\ Injective(Tail(s))
         /\ \A x : x \in Range(Tail(s)) <=> x \in Range(s) /\ x # Head(s)
<1>1. Len(s) \in Nat /\ Len(s) >= 1 /\ Head(s) = s[1] /\ DOMAIN s = 1..Len(s)
  OBVIOUS
<1>2. /\ Tail(s) \in Seq(S) /\ Len(Tail(s)) = Len(s) - 1 /\ DOMAIN Tail(s) = 1..(Len(s) - 1)
      /\ \A n \in 1..(Len(s) - 1) : Tail(s)[n] = s[n + 1]
  BY <1>1
<1>3. Injective(Tail(s))
  <2>1. SUFFICES ASSUME NEW m \in 1..(Len(s) - 1), NEW n \in 1..(Len(s) - 1), s[m + 1] = s[n + 1]
                 PROVE  m = n
    BY <1>2 DEF Injective
  <2>2. m + 1 \in 1..Len(s) /\ n + 1 \in 1..Len(s)
    BY <1>1
  <2>3. m + 1 = n + 1
    BY <2>1, <2>2 DEF Injective
  <2> QED
    BY <1>1, <2>3
<1>4. ASSUME NEW x \in Range(Tail(s)) PROVE x \in Range(s) /\ x # Head(s)
  <2>1. PICK n \in 1..(Len(s) - 1) : x = s[n + 1]
    BY <1>2 DEF Range
  <2>2. n + 1 \in 1..Len(s) /\ 1 \in 1..Len(s) /\ n + 1 # 1
    BY <1>1
  <2> QED
    BY <1>1, <2>1, <2>2 DEF Range, Injective
<1>5. ASSUME NEW x \in Range(s), x # Head(s) PROVE x \in Range(Tail(s))
  <2>1. PICK n \in 1..Len(s) : x = s[n]
    BY <1>1 DEF Range
  <2>2. n # 1
    BY <1>1, <1>5, <2>1
  <2>3. n - 1 \in 1..(Len(s) - 1) /\ (n - 1) + 1 = n
    BY <1>1, <2>2
  <2>4. Tail(s)[n - 1] = x
    BY <1>2, <2>1, <2>3
  <2> QED
    BY <1>2, <2>3, <2>4 DEF Range
<1>6. Head(s) \in S /\ Head(s) \in Range(s)
  BY <1>1 DEF Range
<1> QED
  BY <1>2, <1>3, <1>4, <1>5, <1>6

\* One more of the first values.
LEMMA OneMore ==
  ASSUME NEW f, NEW n \in Nat
  PROVE  Append(FirstOf(f, n), f[n + 1]) = FirstOf(f, n + 1)
<1> DEFINE S == {f[r] : r \in 1..(n + 1)}
           s == [r \in 1..n |-> f[r]]
<1>1. \A r \in 1..n : r \in 1..(n + 1)
  OBVIOUS
<1>2. s \in [1..n -> S] /\ f[n + 1] \in S
  BY <1>1
<1>3. s \in Seq(S) /\ Len(s) = n
  BY <1>2
<1>4. /\ DOMAIN Append(s, f[n + 1]) = 1..(n + 1)
      /\ \A r \in 1..(n + 1) : Append(s, f[n + 1])[r] = IF r = n + 1 THEN f[n + 1] ELSE s[r]
  BY <1>2, <1>3
<1>5. Append(s, f[n + 1]) = [r \in 1..(n + 1) |-> Append(s, f[n + 1])[r]]
  BY <1>2, <1>3, <1>4
<1>6. \A r \in 1..(n + 1) : Append(s, f[n + 1])[r] = f[r]
  BY <1>4
<1> QED
  BY <1>5, <1>6 DEF FirstOf

\* None of them.
LEMMA FirstNone ==
  ASSUME NEW f
  PROVE  FirstOf(f, 0) = <<>>
BY DEF FirstOf

\* The accessors of every listing are distinct columns.
LEMMA AccessorsFacts ==
  /\ DOMAIN Accessors = {"tables", "columns", "catalogs", "schemas", "table_types"}
  /\ \A k \in DOMAIN Accessors :
       /\ Accessors[k] \in Seq(0..17) /\ Accessors[k] # <<>> /\ Injective(Accessors[k])
  /\ Accessors["catalogs"] = <<0>> /\ Accessors["schemas"] = <<1>> /\ Accessors["table_types"] = <<3>>
<1>1. /\ DOMAIN Accessors = {"tables", "columns", "catalogs", "schemas", "table_types"}
      /\ Accessors["tables"] = TablesAccessors /\ Accessors["columns"] = ColumnsAccessors
      /\ Accessors["catalogs"] = <<0>> /\ Accessors["schemas"] = <<1>> /\ Accessors["table_types"] = <<3>>
  BY DEF Accessors
<1>2. TablesAccessors \in Seq(0..17) /\ TablesAccessors # <<>> /\ Injective(TablesAccessors)
  BY DEF TablesAccessors, Injective
<1>3. \A c \in {0, 1, 3} : <<c>> \in Seq(0..17) /\ <<c>> # <<>> /\ Injective(<<c>>)
  BY DEF Injective
<1>4. ColumnsAccessors \in Seq(0..17) /\ ColumnsAccessors # <<>> /\ Injective(ColumnsAccessors)
  <2> DEFINE a == <<3, 2, 1, 0>>
             b == [j \in 1..13 |-> j + 3]
  <2>1. a \in Seq(0..17) /\ Len(a) = 4
    OBVIOUS
  <2>2. b \in Seq(0..17) /\ Len(b) = 13
    <3>1. b \in [1..13 -> 0..17]
      OBVIOUS
    <3> QED
      BY <3>1
  <2>3. /\ a \o b \in Seq(0..17) /\ Len(a \o b) = 17
        /\ \A n \in 1..17 : (a \o b)[n] = IF n <= 4 THEN a[n] ELSE b[n - 4]
    BY <2>1, <2>2
  <2>4. \A n \in 1..4 : a[n] = 4 - n
    OBVIOUS
  <2>5. \A n \in 5..17 : b[n - 4] = n - 1
    OBVIOUS
  <2>6. \A n \in 1..17 : (a \o b)[n] = IF n <= 4 THEN 4 - n ELSE n - 1
    BY <2>3, <2>4, <2>5
  <2>7. ColumnsAccessors = a \o b
    BY DEF ColumnsAccessors
  <2> HIDE DEF a, b
  <2>8. Injective(a \o b)
    <3>1. SUFFICES ASSUME NEW m \in 1..17, NEW n \in 1..17, (a \o b)[m] = (a \o b)[n]
                   PROVE  m = n
      BY <2>3, Zenon DEF Injective
    <3>2. (IF m <= 4 THEN 4 - m ELSE m - 1) = (IF n <= 4 THEN 4 - n ELSE n - 1)
      BY <2>6, <3>1
    <3> QED
      BY <3>2
  <2> QED
    BY <2>3, <2>7, <2>8
<1> QED
  BY <1>1, <1>2, <1>3, <1>4

\* The rows that SQLTables and SQLColumns return.
LEMMA RowsForType ==
  ASSUME NEW k, NEW s
  PROVE  RowsFor(k, s) \subseteq RowType
<1>1. ColumnsOf(k) \subseteq 0..17
  BY DEF ColumnsOf
<1>2. [null |-> ColumnsOf(k) \ Keys(s), nullable |-> 0] \in RowType
  BY <1>1 DEF RowType
<1>3. ASSUME NEW r \in Rows PROVE [r EXCEPT !.null = @ \cap ColumnsOf(k)] \in RowType
  BY <1>1, RowsAssumption DEF RowType
<1> QED
  BY <1>2, <1>3 DEF RowsFor

\* An enumeration is asked for in the one way that makes it one.
LEMMA KeysOf ==
  /\ \A r \in RowsFor("catalogs", list_catalogs) : 0 \notin r.null
  /\ \A r \in RowsFor("schemas", list_schemas) : 1 \notin r.null
  /\ \A r \in RowsFor("table_types", list_table_types) : 3 \notin r.null
<1>1. 0 \in Keys(list_catalogs) /\ 1 \in Keys(list_schemas) /\ 3 \in Keys(list_table_types)
  BY DEF Keys, list_catalogs, list_schemas, list_table_types
<1>2. ASSUME NEW k, k # "columns", NEW s, NEW c \in Keys(s), NEW r \in RowsFor(k, s)
      PROVE  c \notin r.null
  <2>1. r = [null |-> ColumnsOf(k) \ Keys(s), nullable |-> 0]
    BY <1>2 DEF RowsFor
  <2>2. r.null = ColumnsOf(k) \ Keys(s)
    BY <2>1
  <2> QED
    BY <2>2
<1> QED
  BY <1>1, <1>2

--------------------------------------------------------------------------------
(* The end of a call *)

Inv == CatalogInv /\ EnumInv

\* An error that nobody touches.
LEMMA DiagSame ==
  ASSUME DiagInv, UNCHANGED diagVars
  PROVE  DiagInv'
<1> USE DEF diagVars
<1>1. DiagTypeOK'
  BY DEF DiagInv, DiagTypeOK
<1>2. Reading' <=> Reading
  BY DEF Reading, Pieces
<1>3. ErrorExact'
  BY DEF DiagInv, ErrorExact, ErrorComplete, CodeIsRecords
<1> QED
  BY <1>1, <1>2, <1>3 DEF DiagInv

\* The locals of a call that is over.
LEMMA ClearedType ==
  ASSUME Cleared
  PROVE  /\ asked' = Everything /\ row' \in 0..Len(answer') /\ todo' = <<>>
         /\ {nulls', long'} \subseteq SUBSET (0..17) /\ lastGet' \in -1..17
BY DEF Cleared

\* A failed call of a listing, whose error is made next.
LEMMA RaiseStep ==
  ASSUME Inv, at \in {"call", "bind", "next", "read", "enum"},
         NEW why \in {"refused", "order", "format"}, Raise(why)
  PROVE  Inv'
<1> USE DEF Raise
<1>1. DiagInv' /\ step' = "measure" /\ invalid' = FALSE
  BY ThrowStep
<1>2. step = "none" /\ ~invalid
  BY DEF Throw, Inv, CatalogInv, Stage
<1>3. owners # {}
  BY <1>2 DEF Inv, CatalogInv, HandleLivesAsLong
<1>4. at' = "raising" /\ cause' = why /\ UNCHANGED <<kind, owners>>
  OBVIOUS
<1>5. TypeOK'
  BY <1>1, <1>4, ClearedType DEF TypeOK, DiagInv, Inv, CatalogInv
<1>6. HandleLivesAsLong'
  BY <1>1, <1>3, <1>4 DEF HandleLivesAsLong
<1>7. kind # "none"
  BY DEF Inv, CatalogInv, Stage
<1>8. Stage'
  BY <1>1, <1>4, <1>7 DEF Stage
<1>9. ListInv' /\ EnumInv'
  BY <1>4 DEF ListInv, EnumInv
<1> QED
  BY <1>1, <1>5, <1>6, <1>8, <1>9 DEF Inv, CatalogInv

\* An exception that is not of the driver.
LEMMA ThrownStep ==
  ASSUME Inv, at \in {"read", "enum"}, NEW why \in {"null", "format"}, Thrown(why)
  PROVE  Inv'
<1> USE DEF Thrown
<1>1. DiagInv'
  BY DiagSame DEF Inv, CatalogInv
<1>2. at' = "thrown" /\ cause' = why /\ owners' = {} /\ UNCHANGED <<kind, step, invalid>>
  BY DEF diagVars
<1>3. TypeOK'
  BY <1>1, <1>2, ClearedType DEF TypeOK, DiagInv, Inv, CatalogInv
<1>4. HandleLivesAsLong'
  BY <1>2 DEF HandleLivesAsLong
<1>5. Stage'
  BY <1>2 DEF Stage, Inv, CatalogInv
<1>6. ListInv' /\ EnumInv'
  BY <1>2 DEF ListInv, EnumInv
<1> QED
  BY <1>1, <1>3, <1>4, <1>5, <1>6 DEF Inv, CatalogInv

\* A call that has not begun fails.
LEMMA BeginFails ==
  ASSUME Inv, NEW null \in BOOLEAN, NEW thread \in BOOLEAN, Idle, Throw(null, thread), Cleared,
         kind' \in {"query"} \cup DOMAIN Accessors, at' = "raising", cause' = "refused",
         owners' = IF null THEN {} ELSE {"stmt"}
  PROVE  Inv'
<1>1. DiagInv' /\ step' = "measure" /\ invalid' = null
  BY ThrowStep
<1>2. TypeOK'
  BY <1>1, ClearedType DEF TypeOK, DiagInv
<1>3. HandleLivesAsLong'
  BY <1>1 DEF HandleLivesAsLong
<1>4. kind' # "none"
  BY AccessorsFacts
<1>5. Stage'
  BY <1>1, <1>4 DEF Stage
<1>6. ListInv' /\ EnumInv'
  BY DEF ListInv, EnumInv
<1> QED
  BY <1>1, <1>2, <1>3, <1>5, <1>6 DEF Inv, CatalogInv

\* The error is made.
LEMMA RecentErrorStep ==
  ASSUME Inv, RecentError
  PROVE  Inv'
<1>1. DiagInv' /\ invalid' = invalid /\ step \in {"measure", "read"}
  BY DiagStep DEF RecentError, Inv, CatalogInv
<1>2. at = "raising" /\ kind # "none"
  BY <1>1 DEF Inv, CatalogInv, Stage
<1>3. /\ UNCHANGED <<kind, asked, answer, long, strict, row, todo, nulls, lastGet, lists, cause>>
      /\ at' = IF step' = "raised" THEN "thrown" ELSE "raising"
      /\ owners' = IF step' = "raised" THEN {} ELSE owners
  BY <1>2 DEF RecentError
<1>4. step' \in {"measure", "read", "raised"}
  BY DEF RecentError, DiagNext, Measure, ReadText, ClearRecords, Complete, GiveUp
<1>5. TypeOK'
  BY <1>1, <1>2, <1>3 DEF TypeOK, DiagInv, Inv, CatalogInv
<1>6. HandleLivesAsLong'
  BY <1>1, <1>2, <1>3 DEF HandleLivesAsLong, Inv, CatalogInv
<1>7. Stage'
  BY <1>2, <1>3, <1>4 DEF Stage
<1>8. ListInv' /\ EnumInv'
  BY <1>3 DEF ListInv, EnumInv
<1> QED
  BY <1>1, <1>5, <1>6, <1>7, <1>8 DEF Inv, CatalogInv

\* The call is over.
LEMMA ReturnStep ==
  ASSUME Inv, Return
  PROVE  Inv'
<1> USE DEF Return
<1>1. DiagInv'
  <2>1. DiagInit'
    BY DEF DiagInit
  <2> QED
    BY <2>1, DiagReset, PTL
<1>2. TypeOK'
  BY <1>1, ClearedType DEF TypeOK, DiagInv
<1>3. HandleLivesAsLong' /\ Stage'
  BY AccessorsFacts DEF HandleLivesAsLong, Stage
<1>4. ListInv' /\ EnumInv'
  BY AccessorsFacts DEF ListInv, EnumInv
<1> QED
  BY <1>1, <1>2, <1>3, <1>4 DEF Inv, CatalogInv

--------------------------------------------------------------------------------
(* Listings *)

\* A listing of rows begins.
LEMMA StartStep ==
  ASSUME Inv, NEW k \in DOMAIN Accessors,
         NEW s \in Searches \cup {Everything, list_catalogs, list_schemas, list_table_types},
         Start(k, s),
         k \in {"catalogs", "schemas", "table_types"} =>
           \A r \in RowsFor(k, s), c \in Range(Accessors[k]) : c \notin r.null
  PROVE  Inv'
<1> USE DEF Start
<1>1. /\ kind' = k /\ at' = "call" /\ owners' = {"stmt"} /\ asked' = s /\ row' = 0 /\ todo' = <<>>
      /\ nulls' = {} /\ lastGet' = -1 /\ cause' = "none" /\ UNCHANGED diagVars
      /\ lists' = [c \in Range(Accessors[k]) |-> <<>>]
  OBVIOUS
<1>2. PICK n \in 0..MaxRows : answer' \in [1..n -> RowsFor(k, s)]
  OBVIOUS
<1>3. answer' \in Seq(RowsFor(k, s)) /\ Len(answer') = n /\ n \in Nat
  BY <1>2, RowsAssumption
<1>4. answer' \in Seq(RowType)
  BY <1>2, <1>3, RowsForType
<1>5. long' \subseteq 0..17
  BY DEF ColumnsOf
<1>6. DiagInv'
  BY <1>1, DiagSame DEF Inv, CatalogInv
<1>7. step' = "none" /\ invalid' = invalid /\ ~invalid
  BY DEF Idle, diagVars, Inv, CatalogInv, Stage
<1>8. TypeOK'
  <2>1. row' \in 0..Len(answer') /\ lastGet' \in -1..17
    BY <1>1, <1>3
  <2> QED
    BY <1>1, <1>5, <1>6, <2>1 DEF TypeOK, DiagInv
<1>9. HandleLivesAsLong'
  BY <1>1, <1>7 DEF HandleLivesAsLong
<1>10. k \notin {"none", "query", "drivers", "data_sources"}
  BY AccessorsFacts
<1>11. Stage'
  BY <1>1, <1>7, <1>10 DEF Stage
<1>12. ListInv'
  <2>1. Range(todo') = {} /\ todo' \in Seq(0..17) /\ Injective(todo')
    BY <1>1 DEF Range, Injective
  <2>2. Filled'
    <3>1. SUFFICES ASSUME NEW c \in Range(Accessors[k])
                   PROVE  lists'[c] = FirstOf(Wanted(c)', 0)
      BY <1>1, <2>1 DEF Filled
    <3> QED
      BY <1>1, FirstNone
  <2>3. Named'
    BY <1>1, <1>2, <1>3 DEF Named
  <2> QED
    BY <1>1, <1>4, <2>1, <2>2, <2>3 DEF ListInv
<1>13. EnumInv'
  BY <1>1, <1>10 DEF EnumInv
<1> QED
  BY <1>6, <1>8, <1>9, <1>11, <1>12, <1>13 DEF Inv, CatalogInv

\* What the columns will hold depends on the answer alone.
LEMMA WantedSame ==
  ASSUME UNCHANGED <<kind, answer>>
  PROVE  \A c : Wanted(c)' = Wanted(c)
BY DEF Wanted, Expected, Value

\* A call of a listing that succeeds and reads nothing.
LEMMA QuietStep ==
  ASSUME Inv, at \in {"call", "bind"}, at' = IF at = "call" THEN "bind" ELSE "next",
         owners' \in SUBSET {"stmt", "result", "env"}, owners' # {},
         UNCHANGED <<diagVars, kind, asked, answer, long, strict, row, todo, nulls, lastGet, lists, cause>>
  PROVE  Inv'
<1>1. DiagInv'
  BY DiagSame DEF Inv, CatalogInv
<1>2. UNCHANGED <<step, invalid>> /\ step \notin {"measure", "read", "raised"} /\ ~invalid
  BY DEF diagVars, Inv, CatalogInv, Stage, TypeOK, DiagTypeOK
<1>3. TypeOK'
  BY <1>1 DEF TypeOK, DiagInv, Inv, CatalogInv
<1>4. HandleLivesAsLong'
  BY <1>2 DEF HandleLivesAsLong
<1>5. kind \in DOMAIN Accessors
  BY DEF Inv, CatalogInv, Stage
<1>6. kind \notin {"none", "query", "drivers", "data_sources"}
  BY <1>5, AccessorsFacts
<1>7. Stage'
  BY <1>2, <1>5, <1>6 DEF Stage
<1>8. Filled' <=> Filled
  BY WantedSame DEF Filled
<1>9. ListInv'
  BY <1>5, <1>8 DEF ListInv, Named, Inv, CatalogInv
<1>10. EnumInv'
  BY <1>6 DEF EnumInv
<1> QED
  BY <1>1, <1>3, <1>4, <1>7, <1>9, <1>10 DEF Inv, CatalogInv

\* next() moves to a row, or is at the end.
LEMMA NextRowStep ==
  ASSUME Inv, NextRow
  PROVE  Inv'
<1>1. /\ at = "next" /\ kind \in DOMAIN Accessors /\ step \notin {"measure", "read", "raised"} /\ ~invalid
      /\ todo = <<>> /\ TypeOK /\ ListInv /\ DiagInv
  BY DEF NextRow, Inv, CatalogInv, Stage, TypeOK, DiagTypeOK
<1>2. kind \notin {"none", "query", "drivers", "data_sources"}
  BY <1>1, AccessorsFacts
<1>3. /\ answer \in Seq(RowType) /\ DOMAIN lists = Range(Accessors[kind]) /\ Filled /\ Named
      /\ row \in 0..Len(answer) /\ Len(answer) \in Nat
  BY <1>1 DEF ListInv, TypeOK
<1>4. \A c \in Range(Accessors[kind]) : lists[c] = FirstOf(Wanted(c), row)
  <2>1. Range(todo) = {}
    BY <1>1 DEF Range
  <2> QED
    BY <1>3, <2>1 DEF Filled
<1>5. ASSUME UNCHANGED <<kind, answer, lists>> PROVE Named' /\ \A c : Wanted(c)' = Wanted(c)
  BY <1>3, <1>5, WantedSame DEF Named
<1>6. CASE row < Len(answer) /\ at' = "read"
  <2>1. /\ row' = row + 1 /\ nulls' = Fetched(row + 1) /\ lastGet' = -1 /\ todo' = Accessors[kind]
        /\ UNCHANGED <<diagVars, kind, asked, answer, long, strict, owners, lists, cause>>
    BY <1>6 DEF NextRow, Refused, Raise
  <2>2. DiagInv' /\ UNCHANGED <<step, invalid>>
    BY <1>1, <2>1, DiagSame DEF diagVars
  <2>3. row' \in 0..Len(answer) /\ row + 1 \in 1..Len(answer) /\ row \in Nat /\ (row + 1) - 1 = row
    BY <1>3, <1>6, <2>1
  <2>4. answer[row + 1] \in RowType
    BY <1>3, <2>3
  <2>5. answer[row + 1].null \subseteq 0..17
    BY <2>4 DEF RowType
  <2>6. nulls' \subseteq 0..17 /\ lastGet' \in -1..17
    BY <2>1, <2>5 DEF Fetched
  <2>7. todo' \in Seq(0..17) /\ todo' # <<>> /\ Injective(todo')
    BY <1>1, <2>1, AccessorsFacts
  <2>8. TypeOK'
    BY <1>1, <1>6, <2>1, <2>2, <2>3, <2>6, <2>7 DEF TypeOK, DiagInv
  <2>9. HandleLivesAsLong'
    BY <1>1, <1>6, <2>1, <2>2 DEF HandleLivesAsLong, Inv, CatalogInv
  <2>10. Stage'
    BY <1>1, <1>2, <1>6, <2>1, <2>2 DEF Stage
  <2>11. Indicators'
    BY <2>1 DEF Indicators, Fetched
  <2>12. Filled'
    <3>1. SUFFICES ASSUME NEW c \in Range(Accessors[kind])
                   PROVE  lists[c] = FirstOf(Wanted(c), row)
      BY <1>5, <2>1, <2>3 DEF Filled
    <3> QED
      BY <1>4
  <2>13. row' >= 1 /\ Named'
    BY <1>5, <2>1, <2>3
  <2>14. ListInv'
    BY <1>3, <1>6, <2>1, <2>7, <2>11, <2>12, <2>13 DEF ListInv
  <2>15. EnumInv'
    BY <1>2, <2>1 DEF EnumInv
  <2> QED
    BY <2>2, <2>8, <2>9, <2>10, <2>14, <2>15 DEF Inv, CatalogInv
<1>7. CASE row = Len(answer) /\ at' = "done"
  <2>1. /\ owners' = {} /\ nulls' = {} /\ lastGet' = -1
        /\ UNCHANGED <<diagVars, kind, asked, answer, long, strict, row, todo, lists, cause>>
    BY <1>7 DEF NextRow, Refused, Raise
  <2>2. DiagInv' /\ UNCHANGED <<step, invalid>>
    BY <1>1, <2>1, DiagSame DEF diagVars
  <2>3. TypeOK'
    <3>1. nulls' \subseteq 0..17 /\ lastGet' \in -1..17
      BY <2>1
    <3> QED
      BY <1>1, <1>7, <2>1, <2>2, <3>1 DEF TypeOK, DiagInv
  <2>4. HandleLivesAsLong'
    BY <1>7, <2>1 DEF HandleLivesAsLong
  <2>5. Stage'
    BY <1>1, <1>2, <1>7, <2>1, <2>2 DEF Stage
  <2>6. Filled'
    BY <1>3, <1>5, <2>1 DEF Filled
  <2>7. ListInv'
    BY <1>1, <1>3, <1>5, <1>7, <2>1, <2>6 DEF ListInv
  <2>8. EnumInv'
    BY <1>2, <2>1 DEF EnumInv
  <2> QED
    BY <2>2, <2>3, <2>4, <2>5, <2>7, <2>8 DEF Inv, CatalogInv
<1>8. CASE Refused
  BY <1>1, <1>8, RaiseStep DEF Refused
<1> QED
  BY <1>6, <1>7, <1>8 DEF NextRow

\* An accessor returns what its column should hold.
LEMMA ReadStep ==
  ASSUME Inv, at = "read", Push(Head(todo), Expected(row, Head(todo))), Advance,
         nulls' \in {nulls, nulls \cup {Head(todo)}}, lastGet' \in {lastGet, Head(todo)}
  PROVE  Inv'
<1> DEFINE c == Head(todo)
<1>1. /\ kind \in DOMAIN Accessors /\ step \notin {"measure", "read", "raised"} /\ ~invalid
      /\ TypeOK /\ ListInv /\ DiagInv /\ todo # <<>>
  BY DEF Inv, CatalogInv, Stage, TypeOK, DiagTypeOK
<1>2. kind \notin {"none", "query", "drivers", "data_sources"}
  BY <1>1, AccessorsFacts
<1>3. /\ answer \in Seq(RowType) /\ DOMAIN lists = Range(Accessors[kind]) /\ Filled /\ Named
      /\ todo \in Seq(0..17) /\ Injective(todo) /\ Range(todo) \subseteq Range(Accessors[kind])
      /\ row \in 0..Len(answer) /\ Len(answer) \in Nat /\ row >= 1 /\ Indicators
  BY <1>1 DEF ListInv, TypeOK
<1>4. /\ c \in 0..17 /\ c \in Range(todo)
      /\ Tail(todo) \in Seq(0..17) /\ Len(Tail(todo)) = Len(todo) - 1 /\ Injective(Tail(todo))
      /\ \A x : x \in Range(Tail(todo)) <=> x \in Range(todo) /\ x # c
  BY <1>1, <1>3, TailFacts
<1>5. /\ todo' = Tail(todo) /\ at' = IF Len(todo) = 1 THEN "next" ELSE "read"
      /\ UNCHANGED <<diagVars, kind, asked, answer, long, strict, owners, row, cause>>
  BY DEF Advance
<1>6. lists' = [lists EXCEPT ![c] = Append(@, Expected(row, c))]
  BY DEF Push
<1>7. DiagInv' /\ UNCHANGED <<step, invalid>>
  BY <1>1, <1>5, DiagSame DEF diagVars
<1>8. at' = "read" <=> todo' # <<>>
  <2>1. Len(todo) \in Nat /\ Len(todo) >= 1
    BY <1>1, <1>3
  <2>2. todo' # <<>> <=> Len(todo') # 0
    BY <1>4, <1>5, NoElements
  <2>3. Len(todo') # 0 <=> Len(todo) # 1
    BY <1>4, <1>5, <2>1
  <2> QED
    BY <1>5, <2>2, <2>3
<1>9. TypeOK'
  <2>1. nulls' \subseteq 0..17 /\ lastGet' \in -1..17
    <3>1. nulls \subseteq 0..17 /\ lastGet \in -1..17
      BY <1>1 DEF TypeOK
    <3>2. nulls' \subseteq 0..17
      <4>1. nulls' = nulls \/ nulls' = nulls \cup {c}
        OBVIOUS
      <4> QED
        BY <3>1, <4>1, <1>4
    <3>3. lastGet' \in -1..17
      <4>1. lastGet' = lastGet \/ lastGet' = c
        OBVIOUS
      <4> QED
        BY <3>1, <4>1, <1>4
    <3> QED
      BY <3>2, <3>3
  <2> QED
    BY <1>1, <1>5, <1>7, <1>8, <2>1 DEF TypeOK, DiagInv
<1>10. at' \in {"next", "read"}
  BY <1>5
<1>11. HandleLivesAsLong'
  BY <1>1, <1>5, <1>7, <1>10 DEF HandleLivesAsLong, Inv, CatalogInv
<1>12. Stage'
  BY <1>1, <1>2, <1>5, <1>7, <1>10 DEF Stage
<1>13. Filled'
  <2>1. SUFFICES ASSUME NEW x \in Range(Accessors[kind])
                 PROVE  lists'[x] = FirstOf(Wanted(x), IF x \in Range(todo') THEN row - 1 ELSE row)
    BY <1>5, WantedSame DEF Filled
  <2>2. lists[x] = FirstOf(Wanted(x), IF x \in Range(todo) THEN row - 1 ELSE row)
    BY <1>3 DEF Filled
  <2>3. CASE x = c
    <3>1. lists[x] = FirstOf(Wanted(x), row - 1) /\ x \notin Range(todo')
      BY <1>4, <1>5, <2>2, <2>3
    <3>2. Wanted(x)[row] = Expected(row, x) /\ row - 1 \in Nat /\ (row - 1) + 1 = row
      BY <1>3 DEF Wanted
    <3>3. lists'[x] = Append(lists[x], Expected(row, x))
      BY <1>3, <1>6, <2>3
    <3>4. Append(FirstOf(Wanted(x), row - 1), Wanted(x)[(row - 1) + 1]) = FirstOf(Wanted(x), (row - 1) + 1)
      BY <3>2, OneMore
    <3> QED
      BY <3>1, <3>2, <3>3, <3>4
  <2>4. CASE x # c
    <3>1. lists'[x] = lists[x]
      BY <1>3, <1>6, <2>4
    <3>2. x \in Range(todo') <=> x \in Range(todo)
      BY <1>4, <1>5, <2>4
    <3> QED
      BY <2>2, <3>1, <3>2
  <2> QED
    BY <2>3, <2>4
<1>14. Indicators'
  <2>1. SUFFICES ASSUME NEW x \in Range(todo')
                 PROVE  x \in nulls' <=> x \in answer[row].null /\ x \notin long
    BY <1>5 DEF Indicators
  <2>2. x \in Range(todo) /\ x # c
    BY <1>4, <1>5, <2>1
  <2>3. x \in nulls' <=> x \in nulls
    BY <2>2
  <2> QED
    BY <1>3, <2>2, <2>3 DEF Indicators
<1>15. Range(todo') \subseteq Range(Accessors[kind]) /\ DOMAIN lists' = DOMAIN lists
  BY <1>3, <1>4, <1>5, <1>6
<1>16. Named'
  BY <1>3, <1>5 DEF Named
<1>17. ListInv'
  BY <1>3, <1>4, <1>5, <1>10, <1>13, <1>14, <1>15, <1>16 DEF ListInv
<1>18. EnumInv'
  BY <1>2, <1>5 DEF EnumInv
<1> QED
  BY <1>7, <1>9, <1>11, <1>12, <1>17, <1>18 DEF Inv, CatalogInv

\* What is known of the column that is read next.
LEMMA NextColumn ==
  ASSUME Inv, at = "read"
  PROVE  /\ Head(todo) \in Range(todo)
         /\ Head(todo) \in nulls <=> Head(todo) \in answer[row].null /\ Head(todo) \notin long
         /\ row \in DOMAIN answer /\ kind \in DOMAIN Accessors
<1>1. kind \in DOMAIN Accessors /\ todo # <<>> /\ ListInv /\ row \in 0..Len(answer)
  BY DEF Inv, CatalogInv, Stage, TypeOK
<1>2. todo \in Seq(0..17) /\ Injective(todo) /\ Indicators /\ row >= 1 /\ answer \in Seq(RowType)
  BY <1>1 DEF ListInv
<1>3. Head(todo) \in Range(todo)
  BY <1>1, <1>2, TailFacts
<1>4. row \in DOMAIN answer
  BY <1>1, <1>2
<1> QED
  BY <1>1, <1>2, <1>3, <1>4 DEF Indicators

\* A row is read.
LEMMA ReadRowStep ==
  ASSUME Inv, ReadNull \/ ReadBound \/ ReadLong
  PROVE  Inv'
<1> DEFINE c == Head(todo)
<1>1. at = "read" /\ (c \in nulls <=> c \in answer[row].null /\ c \notin long)
  BY NextColumn DEF ReadNull, ReadBound, ReadLong
<1>2. CASE ReadNull
  <2>1. CASE HasFallback(c) /\ Push(c, Empty) /\ Advance /\ UNCHANGED <<nulls, lastGet>>
    <3>1. Expected(row, c) = Empty
      BY <1>1, <1>2 DEF Expected, ReadNull
    <3> QED
      BY <1>1, <2>1, <3>1, ReadStep
  <2>2. CASE Thrown("null")
    BY <1>1, <2>2, ThrownStep
  <2> QED
    BY <1>2, <2>1, <2>2 DEF ReadNull
<1>3. CASE ReadBound
  <2>1. Expected(row, c) = Value(row, c)
    BY <1>1, <1>3 DEF Expected, ReadBound
  <2> QED
    BY <1>1, <1>3, <2>1, ReadStep DEF ReadBound
<1>4. CASE ReadLong
  <2>1. CASE Raise("order")
    BY <1>1, <2>1, RaiseStep
  <2>2. CASE ~Raise("order")
    <3>1. /\ Push(c, IF c \in answer[row].null THEN Empty ELSE Value(row, c)) /\ Advance
          /\ nulls' = IF c \in answer[row].null THEN nulls \cup {c} ELSE nulls
          /\ lastGet' = c
      BY <1>4, <2>2 DEF ReadLong
    <3>2. Expected(row, c) = IF c \in answer[row].null THEN Empty ELSE Value(row, c)
      BY DEF Expected
    <3> QED
      BY <1>1, <3>1, <3>2, ReadStep
  <2> QED
    BY <2>1, <2>2
<1> QED
  BY <1>2, <1>3, <1>4

--------------------------------------------------------------------------------
(* Drivers and data sources *)

\* The enumeration begins.
LEMMA StartEnumStep ==
  ASSUME Inv, NEW k \in {"drivers", "data_sources"}, StartEnum(k)
  PROVE  Inv'
<1> USE DEF StartEnum
<1>1. /\ kind' = k /\ at' = "enum" /\ owners' = {"env"} /\ lists' = <<>> /\ row' = 0 /\ cause' = "none"
      /\ UNCHANGED <<diagVars, asked, long, strict, todo, nulls, lastGet>>
  OBVIOUS
<1>2. step = "none" /\ at = "done" /\ ~invalid /\ TypeOK /\ DiagInv
  BY DEF Idle, Inv, CatalogInv, Stage
<1>3. DiagInv' /\ UNCHANGED <<step, invalid>>
  BY <1>1, <1>2, DiagSame DEF diagVars
<1>4. PICK n \in 0..MaxRows : answer' \in [1..n -> Drivers]
  OBVIOUS
<1>5. answer' \in Seq(Drivers) /\ Len(answer') = n /\ n \in Nat
  BY <1>4, RowsAssumption
<1>6. TypeOK'
  <2>1. row' \in 0..Len(answer')
    BY <1>1, <1>5
  <2> QED
    BY <1>1, <1>2, <1>3, <2>1 DEF TypeOK, DiagInv
<1>7. HandleLivesAsLong' /\ Stage'
  BY <1>1, <1>2, <1>3 DEF HandleLivesAsLong, Stage
<1>8. ListInv'
  BY <1>1, AccessorsFacts DEF ListInv
<1>9. Enumerated(lists)'
  <2>1. lists' \in Seq(Nat \X Nat) /\ Len(lists') = 0 /\ lists' = <<>> /\ row' = 0
    BY <1>1
  <2> QED
    BY <2>1 DEF Enumerated
<1>10. EnumInv'
  BY <1>1, <1>5, <1>9 DEF EnumInv
<1> QED
  BY <1>3, <1>6, <1>7, <1>8, <1>10 DEF Inv, CatalogInv

\* Two sequences, one after the other.
LEMMA Joined ==
  ASSUME NEW S, NEW s \in Seq(S), NEW t \in Seq(S)
  PROVE  /\ s \o t \in Seq(S) /\ Len(s \o t) = Len(s) + Len(t)
         /\ \A n \in 1..Len(s) : (s \o t)[n] = s[n]
         /\ \A n \in 1..Len(t) : (s \o t)[Len(s) + n] = t[n]
         /\ \A x : x \in Range(s) \/ x \in Range(t) => x \in Range(s \o t)
<1>1. Len(s) \in Nat /\ Len(t) \in Nat /\ DOMAIN s = 1..Len(s) /\ DOMAIN t = 1..Len(t)
  OBVIOUS
<1>2. /\ s \o t \in Seq(S) /\ Len(s \o t) = Len(s) + Len(t)
      /\ \A n \in 1..Len(s) : (s \o t)[n] = s[n]
      /\ \A n \in 1..Len(t) : (s \o t)[Len(s) + n] = t[n]
  BY <1>1
<1>3. DOMAIN (s \o t) = 1..(Len(s) + Len(t))
  BY <1>2
<1>4. ASSUME NEW x \in Range(s) PROVE x \in Range(s \o t)
  <2>1. PICK n \in 1..Len(s) : x = s[n]
    BY <1>1 DEF Range
  <2>2. n \in 1..(Len(s) + Len(t)) /\ (s \o t)[n] = x
    BY <1>1, <1>2, <2>1
  <2> QED
    BY <1>3, <2>2 DEF Range
<1>5. ASSUME NEW x \in Range(t) PROVE x \in Range(s \o t)
  <2>1. PICK n \in 1..Len(t) : x = t[n]
    BY <1>1 DEF Range
  <2>2. Len(s) + n \in 1..(Len(s) + Len(t)) /\ (s \o t)[Len(s) + n] = x
    BY <1>1, <1>2, <2>1
  <2> QED
    BY <1>3, <2>2 DEF Range
<1> QED
  BY <1>2, <1>4, <1>5

\* The rows of one driver or data source: all of it, its attributes in order.
RowsOf(rows) ==
  /\ rows \in Seq(Nat \X Nat) /\ rows # <<>>
  /\ \A n \in 1..Len(rows) : rows[n][1] = row + 1
  /\ \A n \in 1..(Len(rows) - 1) : rows[n + 1] = <<rows[n][1], rows[n][2] + 1>>
  /\ kind = "drivers" =>
       \A j \in 1..Len(answer[row + 1].attrs) :
         (j < Len(answer[row + 1].attrs) \/ answer[row + 1].closed) => <<row + 1, j>> \in Range(rows)

\* One more driver is enumerated.
LEMMA EnumeratedMore ==
  ASSUME Enumerated(lists), row \in Nat, NEW rows, RowsOf(rows),
         lists' = lists \o rows, row' = row + 1, UNCHANGED <<kind, answer>>
  PROVE  Enumerated(lists)'
<1>1. /\ lists \in Seq(Nat \X Nat) /\ rows \in Seq(Nat \X Nat) /\ rows # <<>>
      /\ Len(lists) \in Nat /\ Len(rows) \in Nat /\ Len(rows) >= 1
  BY DEF Enumerated, RowsOf
<1>2. /\ lists' \in Seq(Nat \X Nat) /\ Len(lists') = Len(lists) + Len(rows)
      /\ \A n \in 1..Len(lists) : lists'[n] = lists[n]
      /\ \A n \in 1..Len(rows) : lists'[Len(lists) + n] = rows[n]
      /\ \A x : x \in Range(lists) \/ x \in Range(rows) => x \in Range(lists')
  BY <1>1, Joined
<1>3. lists' # <<>> /\ row' # 0
  BY <1>1, <1>2, NoElements
<1>4. lists'[Len(lists')][1] = row'
  BY <1>1, <1>2 DEF RowsOf
<1>5. ASSUME NEW k \in 1..(row + 1) PROVE \E n \in 1..Len(lists') : lists'[n][1] = k
  <2>1. CASE k \in 1..row
    <3>1. PICK n \in 1..Len(lists) : lists[n][1] = k
      BY <2>1 DEF Enumerated
    <3>2. n \in 1..Len(lists') /\ lists'[n] = lists[n]
      BY <1>1, <1>2
    <3> QED
      BY <3>1, <3>2
  <2>2. CASE k = row + 1
    <3>1. Len(lists) + 1 \in 1..Len(lists') /\ lists'[Len(lists) + 1] = rows[1] /\ rows[1][1] = row + 1
      BY <1>1, <1>2 DEF RowsOf
    <3> QED
      BY <2>2, <3>1
  <2> QED
    BY <2>1, <2>2
<1>6. ASSUME NEW n \in 1..(Len(lists') - 1)
      PROVE  lists'[n + 1][1] = lists'[n][1] + 1 \/ lists'[n + 1] = <<lists'[n][1], lists'[n][2] + 1>>
  <2>n. n \in Nat /\ n >= 1 /\ n < Len(lists) + Len(rows)
    BY <1>1, <1>2, <1>6
  <2>1. CASE n < Len(lists)
    <3>a. n \in 1..(Len(lists) - 1) /\ n \in 1..Len(lists) /\ n + 1 \in 1..Len(lists)
      <4>1. ASSUME NEW m \in Nat, NEW j \in Nat, j >= 1, j < m
            PROVE  j \in 1..(m - 1) /\ j \in 1..m /\ j + 1 \in 1..m
        BY <4>1
      <4>2. Len(lists) \in Nat /\ n \in Nat /\ n >= 1 /\ n < Len(lists)
        BY <1>1, <2>n, <2>1
      <4> QED
        BY <4>1, <4>2, Zenon
    <3>1. lists'[n] = lists[n] /\ lists'[n + 1] = lists[n + 1] /\ n \in 1..(Len(lists) - 1)
      BY <1>2, <3>a
    <3> QED
      BY <3>1 DEF Enumerated
  <2>2. CASE n = Len(lists)
    <3>1. lists'[n] = lists[n] /\ lists'[n + 1] = rows[1] /\ rows[1][1] = row + 1
      BY <1>1, <1>2, <2>2 DEF RowsOf
    <3>2. lists # <<>>
      BY <1>1, <2>2, NoElements
    <3>3. lists[n][1] = row
      BY <2>2, <3>2 DEF Enumerated
    <3> QED
      BY <3>1, <3>3
  <2>3. CASE n > Len(lists)
    <3> DEFINE m == n - Len(lists)
    <3>1. /\ m \in 1..(Len(rows) - 1) /\ m \in 1..Len(rows) /\ m + 1 \in 1..Len(rows)
          /\ n = Len(lists) + m /\ n + 1 = Len(lists) + (m + 1)
      BY <1>1, <2>n, <2>3
    <3> HIDE DEF m
    <3>2. lists'[n] = rows[m] /\ lists'[n + 1] = rows[m + 1]
      BY <1>2, <3>1
    <3>3. rows[m + 1] = <<rows[m][1], rows[m][2] + 1>>
      BY <3>1 DEF RowsOf
    <3> QED
      BY <3>2, <3>3
  <2>4. n < Len(lists) \/ n = Len(lists) \/ n > Len(lists)
    BY <1>1, <2>n
  <2> QED
    BY <2>1, <2>2, <2>3, <2>4
<1>7. ASSUME kind = "drivers", NEW k \in 1..(row + 1), NEW j \in 1..Len(answer[k].attrs),
             j < Len(answer[k].attrs) \/ answer[k].closed
      PROVE  <<k, j>> \in Range(lists')
  <2>1. CASE k \in 1..row
    BY <1>2, <1>7, <2>1 DEF Enumerated
  <2>2. CASE k = row + 1
    BY <1>2, <1>7, <2>2 DEF RowsOf
  <2> QED
    BY <2>1, <2>2
<1> QED
  BY <1>2, <1>3, <1>4, <1>5, <1>6, <1>7 DEF Enumerated

\* The attributes that a driver's rows are made of.
LEMMA SplitFacts ==
  ASSUME NEW d \in Drivers
  PROVE  /\ Split(d) \in Seq({"pair", "bare"}) /\ d.attrs \in Seq({"pair", "bare"})
         /\ Len(Split(d)) <= Len(d.attrs)
         /\ \A j \in 1..Len(Split(d)) : Split(d)[j] = d.attrs[j]
         /\ \A j \in 1..Len(d.attrs) : j < Len(d.attrs) \/ d.closed => j \in 1..Len(Split(d))
<1>1. d.attrs \in Seq({"pair", "bare"}) /\ d.closed \in BOOLEAN /\ Len(d.attrs) \in Nat
  BY DriversAssumption
<1>2. CASE d.closed \/ d.attrs = <<>>
  <2>1. Split(d) = d.attrs
    BY <1>2 DEF Split
  <2> QED
    BY <1>1, <2>1
<1>3. CASE ~(d.closed \/ d.attrs = <<>>)
  <2>1. Split(d) = SubSeq(d.attrs, 1, Len(d.attrs) - 1) /\ Len(d.attrs) >= 1
    BY <1>1, <1>3 DEF Split, Front
  <2>2. /\ Split(d) \in Seq({"pair", "bare"}) /\ Len(Split(d)) = Len(d.attrs) - 1
        /\ \A j \in 1..(Len(d.attrs) - 1) : Split(d)[j] = d.attrs[j]
    BY <1>1, <2>1
  <2> QED
    BY <1>1, <1>3, <2>2
<1> QED
  BY <1>2, <1>3

\* The rows of a driver are all of it.
LEMMA DriverRowsOf ==
  ASSUME row \in Nat, answer[row + 1] \in Drivers
  PROVE  RowsOf(DriverRows(row + 1, answer[row + 1]))
<1> DEFINE d == answer[row + 1]
           rows == DriverRows(row + 1, d)
<1>1. /\ Split(d) \in Seq({"pair", "bare"}) /\ Len(Split(d)) \in Nat
      /\ \A j \in 1..Len(d.attrs) : j < Len(d.attrs) \/ d.closed => j \in 1..Len(Split(d))
  BY SplitFacts
<1>2. CASE Split(d) = <<>>
  <2>1. rows = <<<<row + 1, 0>>>>
    BY <1>2 DEF DriverRows
  <2> HIDE DEF rows
  <2>2. rows \in Seq(Nat \X Nat) /\ Len(rows) = 1 /\ rows[1][1] = row + 1 /\ rows # <<>>
    BY <2>1
  <2>3. \A j \in 1..Len(d.attrs) : ~(j < Len(d.attrs) \/ d.closed)
    BY <1>1, <1>2
  <2>4. \A n \in 1..Len(rows) : rows[n][1] = row + 1
    BY <2>2
  <2>5. \A n \in 1..(Len(rows) - 1) : FALSE
    BY <2>2
  <2>6. RowsOf(rows)
    BY <2>2, <2>3, <2>4, <2>5 DEF RowsOf
  <2> QED
    BY <2>6 DEF rows
<1>3. CASE Split(d) # <<>>
  <2> DEFINE m == Len(Split(d))
  <2>1. rows = [j \in 1..m |-> <<row + 1, j>>] /\ m \in Nat /\ m # 0
    BY <1>1, <1>3, NoElements DEF DriverRows
  <2>m. \A j \in 1..Len(d.attrs) : j < Len(d.attrs) \/ d.closed => j \in 1..m
    BY <1>1
  <2> HIDE DEF m, rows
  <2>2. rows \in [1..m -> Nat \X Nat]
    BY <2>1
  <2>a. rows \in Seq(Nat \X Nat) /\ Len(rows) = m /\ DOMAIN rows = 1..m
    BY <2>1, <2>2
  <2>3. rows \in Seq(Nat \X Nat) /\ Len(rows) = m /\ rows # <<>> /\ DOMAIN rows = 1..m
    BY <2>1, <2>a, NoElements
  <2>4. \A n \in 1..m : rows[n] = <<row + 1, n>> /\ rows[n][1] = row + 1 /\ rows[n][2] = n
    BY <2>1
  <2>5. \A n \in 1..(m - 1) : n \in 1..m /\ n + 1 \in 1..m
    BY <2>1
  <2>6. \A n \in 1..(m - 1) : rows[n + 1] = <<rows[n][1], rows[n][2] + 1>>
    BY <2>4, <2>5
  <2>7. \A j \in 1..m : <<row + 1, j>> \in Range(rows)
    BY <2>3, <2>4 DEF Range
  <2>8. RowsOf(rows)
    BY <2>m, <2>3, <2>4, <2>6, <2>7 DEF RowsOf
  <2> QED
    BY <2>8 DEF rows
<1> QED
  BY <1>2, <1>3

\* The enumeration goes on.
LEMMA EnumStep ==
  ASSUME Inv, list_drivers \/ list_data_sources
  PROVE  Inv'
<1>1. /\ at = "enum" /\ kind \in {"drivers", "data_sources"} /\ step \notin {"measure", "read", "raised"}
      /\ ~invalid /\ DiagInv /\ TypeOK /\ EnumInv
  BY DEF list_drivers, list_data_sources, Inv, CatalogInv, Stage, TypeOK, DiagTypeOK
<1>2. /\ answer \in Seq(Drivers) /\ Enumerated(lists) /\ row \in 0..Len(answer) /\ Len(answer) \in Nat
      /\ row \in Nat
  BY <1>1 DEF EnumInv, TypeOK
<1>k. kind \notin {"none", "query"} \cup DOMAIN Accessors
  BY <1>1, AccessorsFacts
<1>3. CASE Ends
  <2>1. CASE Refused \/ Raise("format")
    BY <1>1, <2>1, RaiseStep DEF Refused
  <2>2. CASE ~(Refused \/ Raise("format"))
    <3>1. /\ row = Len(answer) /\ at' = "done" /\ owners' = {}
          /\ UNCHANGED <<diagVars, kind, asked, answer, long, strict, row, todo, nulls, lastGet, lists, cause>>
      BY <1>3, <2>2 DEF Ends
    <3>2. DiagInv' /\ UNCHANGED <<step, invalid>>
      BY <1>1, <3>1, DiagSame DEF diagVars
    <3>3. TypeOK'
      BY <1>1, <3>1, <3>2 DEF TypeOK, DiagInv
    <3>4. HandleLivesAsLong' /\ Stage'
      BY <1>1, <1>k, <3>1, <3>2 DEF HandleLivesAsLong, Stage
    <3>5. ListInv'
      BY <1>k, <3>1 DEF ListInv
    <3>6. EnumInv'
      BY <1>2, <3>1 DEF EnumInv, Enumerated
    <3> QED
      BY <3>2, <3>3, <3>4, <3>5, <3>6 DEF Inv, CatalogInv
  <2> QED
    BY <2>1, <2>2
<1>4. ASSUME row < Len(answer), NEW rows, RowsOf(rows), Add(rows) PROVE Inv'
  <2>1. /\ row' = row + 1 /\ lists' = lists \o rows
        /\ UNCHANGED <<diagVars, kind, at, asked, answer, long, strict, owners, todo, nulls, lastGet, cause>>
    BY <1>4 DEF Add
  <2>2. DiagInv' /\ UNCHANGED <<step, invalid>>
    BY <1>1, <2>1, DiagSame DEF diagVars
  <2>3. row' \in 0..Len(answer')
    BY <1>2, <1>4, <2>1
  <2>4. TypeOK'
    BY <1>1, <2>1, <2>2, <2>3 DEF TypeOK, DiagInv
  <2>5. HandleLivesAsLong' /\ Stage'
    BY <2>1, <2>2 DEF HandleLivesAsLong, Stage, Inv, CatalogInv
  <2>6. ListInv'
    BY <1>k, <2>1 DEF ListInv
  <2>7. Enumerated(lists)'
    BY <1>2, <1>4, <2>1, EnumeratedMore
  <2>8. EnumInv'
    BY <1>1, <1>2, <2>1, <2>7 DEF EnumInv
  <2> QED
    BY <2>2, <2>4, <2>5, <2>6, <2>8 DEF Inv, CatalogInv
<1>5. ASSUME row < Len(answer) PROVE answer[row + 1] \in Drivers
  BY <1>2, <1>5
<1>6. CASE list_drivers
  <2>1. CASE Ends
    BY <1>3, <2>1
  <2>2. CASE row < Len(answer) /\ Thrown("format")
    BY <1>1, <2>2, ThrownStep
  <2>3. CASE row < Len(answer) /\ Add(DriverRows(row + 1, answer[row + 1]))
    BY <1>2, <1>4, <1>5, <2>3, DriverRowsOf
  <2> QED
    BY <1>6, <2>1, <2>2, <2>3 DEF list_drivers
<1>7. CASE list_data_sources
  <2>1. CASE Ends
    BY <1>3, <2>1
  <2>2. CASE row < Len(answer) /\ Add(<<<<row + 1, 0>>>>)
    <3> DEFINE rows == <<<<row + 1, 0>>>>
    <3>1. rows \in Seq(Nat \X Nat) /\ Len(rows) = 1 /\ rows[1][1] = row + 1 /\ rows # <<>>
      BY <1>2
    <3>2. kind # "drivers"
      BY <1>7 DEF list_data_sources
    <3>3. Add(rows)
      BY <2>2
    <3> HIDE DEF rows
    <3>4. RowsOf(rows)
      BY <3>1, <3>2 DEF RowsOf
    <3> QED
      BY <1>4, <2>2, <3>3, <3>4
  <2> QED
    BY <1>7, <2>1, <2>2 DEF list_data_sources
<1> QED
  BY <1>6, <1>7

--------------------------------------------------------------------------------
(* The theorems *)

\* The initial state: nothing is listed.
LEMMA InvInit ==
  ASSUME Init
  PROVE  Inv
<1> USE DEF Init
<1>1. DiagInv
  BY DiagReset
<1>2. TypeOK
  BY <1>1 DEF TypeOK, DiagInv
<1>3. HandleLivesAsLong /\ Stage
  BY AccessorsFacts DEF HandleLivesAsLong, Stage, DiagInit
<1>4. ListInv /\ EnumInv
  BY AccessorsFacts DEF ListInv, EnumInv
<1> QED
  BY <1>1, <1>2, <1>3, <1>4 DEF Inv, CatalogInv

\* The invariant is inductive.
LEMMA InvStep ==
  ASSUME Inv, [Next]_vars
  PROVE  Inv'
<1> USE AccessorsFacts
<1>r. /\ Range(Accessors["catalogs"]) = {0} /\ Range(Accessors["schemas"]) = {1}
      /\ Range(Accessors["table_types"]) = {3}
  BY DEF Range
<1>1. CASE ListTables
  BY <1>1, StartStep DEF ListTables
<1>2. CASE ListColumns
  BY <1>2, StartStep DEF ListColumns
<1>3. CASE ListCatalogs
  BY <1>3, <1>r, StartStep, KeysOf DEF ListCatalogs
<1>4. CASE ListSchemas
  BY <1>4, <1>r, StartStep, KeysOf DEF ListSchemas
<1>5. CASE ListTableTypes
  BY <1>5, <1>r, StartStep, KeysOf DEF ListTableTypes
<1>6. CASE \E k \in DOMAIN Accessors : StartFails(k)
  <2>1. owners = {}
    BY <1>6 DEF StartFails, Idle, Inv, CatalogInv, Stage, HandleLivesAsLong
  <2> QED
    BY <1>6, <2>1, BeginFails DEF StartFails
<1>7. CASE FindTables \/ FindColumns
  <2>1. at = "call" /\ Asked
    BY <1>7 DEF FindTables, FindColumns, Asked
  <2>2. owners # {} /\ owners \in SUBSET {"stmt", "result", "env"}
    BY <2>1 DEF Inv, CatalogInv, Stage, HandleLivesAsLong, TypeOK, DiagTypeOK
  <2>3. CASE Refused
    BY <2>1, <2>3, RaiseStep DEF Refused
  <2>4. CASE ~Refused
    BY <2>1, <2>2, <2>4, QuietStep DEF Asked
  <2> QED
    BY <2>3, <2>4
<1>8. CASE BindResult
  <2>1. at = "bind"
    BY <1>8 DEF BindResult
  <2>2. Holders # {} /\ Holders \in SUBSET {"stmt", "result", "env"}
    BY DEF Holders
  <2>3. CASE Refused
    BY <2>1, <2>3, RaiseStep DEF Refused
  <2>4. CASE ~Refused
    BY <1>8, <2>1, <2>2, <2>4, QuietStep DEF BindResult
  <2> QED
    BY <2>3, <2>4
<1>9. CASE NextRow
  BY <1>9, NextRowStep
<1>10. CASE ReadNull \/ ReadBound \/ ReadLong
  BY <1>10, ReadRowStep
<1>11. CASE ListDrivers \/ ListDataSources
  BY <1>11, StartEnumStep DEF ListDrivers, ListDataSources
<1>12. CASE list_drivers \/ list_data_sources
  BY <1>12, EnumStep
<1>13. CASE \E thread \in BOOLEAN : QueryFails(thread)
  BY <1>13, BeginFails DEF QueryFails
<1>14. CASE RecentError
  BY <1>14, RecentErrorStep
<1>15. CASE Return
  BY <1>15, ReturnStep
<1>16. CASE UNCHANGED vars
  <2>1. UNCHANGED diagVars /\ UNCHANGED listVars /\ UNCHANGED <<step, invalid>>
    BY <1>16 DEF vars, diagVars
  <2>2. DiagInv'
    BY <2>1, DiagSame DEF Inv, CatalogInv
  <2>3. TypeOK'
    BY <2>1, <2>2 DEF TypeOK, DiagInv, listVars, Inv, CatalogInv
  <2>4. HandleLivesAsLong' /\ Stage'
    BY <2>1 DEF HandleLivesAsLong, Stage, listVars, Inv, CatalogInv
  <2>5. (Filled' <=> Filled) /\ (Named' <=> Named) /\ (Indicators' <=> Indicators)
    BY <2>1, WantedSame DEF Filled, Named, Indicators, listVars
  <2>6. ListInv'
    BY <2>1, <2>5 DEF ListInv, listVars, Inv, CatalogInv
  <2>7. EnumInv'
    BY <2>1 DEF EnumInv, Enumerated, listVars, Inv
  <2> QED
    BY <2>2, <2>3, <2>4, <2>6, <2>7 DEF Inv, CatalogInv
<1> QED
  BY <1>1, <1>2, <1>3, <1>4, <1>5, <1>6, <1>7, <1>8, <1>9, <1>10, <1>11, <1>12, <1>13, <1>14,
     <1>15, <1>16 DEF Next

\* The invariant holds.
THEOREM ListingsInvariant == Spec => []Inv
BY InvInit, InvStep, PTL DEF Spec

\* Whatever the rows, the NULLs and the long columns: a completed listing has exactly the
\* driver's rows, an enumeration has only names, and the handle lives as long as it is read.
THEOREM ListingsAreExact == Spec => []ListingsExact
<1>1. Inv => ListingsExact
  <2>1. SUFFICES ASSUME Inv PROVE ListingExact /\ NamesOnly
    BY DEF ListingsExact, Inv, CatalogInv
  <2>2. ASSUME at = "done", kind \in DOMAIN Accessors, NEW c \in Range(Accessors[kind])
        PROVE  lists[c] = Wanted(c)
    <3>1. todo = <<>> /\ ListInv
      BY <2>1, <2>2 DEF Inv, CatalogInv, TypeOK
    <3>2. Range(todo) = {}
      BY <3>1 DEF Range
    <3>3. lists[c] = FirstOf(Wanted(c), Len(answer))
      BY <2>2, <3>1, <3>2 DEF ListInv, Filled
    <3> QED
      BY <3>3 DEF FirstOf, Wanted
  <2>3. ListingExact
    BY <2>2 DEF ListingExact, Wanted
  <2>4. ASSUME at = "done", kind \in {"catalogs", "schemas", "table_types"}, NEW c \in DOMAIN lists
        PROVE  Empty \notin Range(lists[c])
    <3>1. kind \in DOMAIN Accessors /\ kind # "columns"
      BY <2>4, AccessorsFacts
    <3>2. DOMAIN lists = Range(Accessors[kind]) /\ Named /\ Len(answer) \in Nat
      BY <2>1, <2>4, <3>1 DEF Inv, CatalogInv, ListInv
    <3>3. lists[c] = Wanted(c)
      BY <2>2, <2>4, <3>1, <3>2
    <3>4. ASSUME NEW r \in 1..Len(answer) PROVE Expected(r, c) # Empty
      <4>1. Expected(r, c) = <<r, c>>
        BY <2>4, <3>1, <3>2 DEF Expected, Value, Named
      <4> QED
        BY <3>2, <4>1 DEF Empty
    <3> QED
      BY <3>3, <3>4 DEF Range, Wanted
  <2>5. NamesOnly
    BY <2>4 DEF NamesOnly
  <2> QED
    BY <2>3, <2>5
<1> QED
  BY <1>1, ListingsInvariant, PTL

\* Whatever the records and the lengths of their texts: an error during which no cancel clears
\* the records has the texts of all of them, in order and each once, if none is of ShortMax
\* characters; and its code is of one of them, also when they are cleared in between.
THEOREM ErrorsAreExact == Spec => []ErrorExact
<1>1. Inv => ErrorExact
  BY DEF Inv, CatalogInv, DiagInv
<1> QED
  BY <1>1, ListingsInvariant, PTL

\* Every installed driver and data source is listed, in order, with its attributes, except the
\* last attribute of a list whose length stops before its NUL.
THEOREM DriversAreListed == Spec => []EveryDriverListed
<1>1. Inv => EveryDriverListed
  <2>1. SUFFICES ASSUME Inv, at = "done", kind \in {"drivers", "data_sources"}
                 PROVE  EveryDriverListed
    BY DEF EveryDriverListed
  <2>2. Enumerated(lists) /\ row = Len(answer)
    BY <2>1 DEF Inv, EnumInv
  <2>3. DOMAIN lists = 1..Len(lists)
    BY <2>2 DEF Enumerated
  <2> QED
    BY <2>2, <2>3 DEF Enumerated, EveryDriverListed
<1> QED
  BY <1>1, ListingsInvariant, PTL

\* A listing of a driver that keeps to what the accessors' comments say throws only where a call
\* is refused.
THEOREM ObedientIsListed == Spec => ObedientDriverListed
<1>1. ASSUME Inv, Next, Throws({"order", "null", "format"}) PROVE ~Obedient
  <2>1. cause = "none" /\ cause' \in {"order", "null", "format"}
    BY <1>1 DEF Throws
  <2>2. \/ ReadNull /\ Thrown("null")
        \/ ReadLong /\ Raise("order")
        \/ list_drivers \/ list_data_sources
    <3>1. ~Refused
      BY <2>1 DEF Refused, Raise
    <3>2. cause' # "none" /\ cause' # cause /\ cause' # "refused"
      BY <2>1
    <3> QED
      BY <1>1, <3>1, <3>2 DEF Next, ListTables, ListColumns, ListCatalogs, ListSchemas, ListTableTypes,
         Start, StartFails, FindTables, FindColumns, Asked, BindResult, NextRow, ReadNull, ReadBound,
         ReadLong, Advance, ListDrivers, ListDataSources, StartEnum, QueryFails, RecentError, Return
  <2>3. CASE ReadNull /\ Thrown("null")
    <3>1. at = "read" /\ Head(todo) \in nulls
      BY <2>3 DEF ReadNull
    <3>2. /\ Head(todo) \in answer[row].null \ long /\ row \in DOMAIN answer /\ kind \in DOMAIN Accessors
      BY <1>1, <3>1, NextColumn
    <3>3. ~HasFallback(Head(todo))
      BY <2>3 DEF ReadNull, Thrown, Advance
    <3>4. Head(todo) \notin MightBeNull
      <4>1. Head(todo) \in Range(todo) /\ Range(todo) \subseteq Range(Accessors[kind])
        BY <1>1, <3>1, <3>2, NextColumn DEF Inv, CatalogInv, ListInv
      <4> QED
        BY <3>3 DEF HasFallback, MightBeNull, ColumnsFallbacks, TablesFallbacks
    <3> QED
      BY <3>2, <3>4 DEF Obedient
  <2>4. CASE ReadLong /\ Raise("order")
    <3>1. at = "read" /\ Head(todo) \in long /\ strict
      <4>1. at = "read" /\ Head(todo) \in long
        BY <2>4 DEF ReadLong
      <4>2. strict
        BY <2>4 DEF ReadLong, Raise, Advance
      <4> QED
        BY <4>1, <4>2
    <3>2. kind \in DOMAIN Accessors
      BY <1>1, <3>1, NextColumn
    <3> QED
      BY <3>1, <3>2 DEF Obedient
  <2>5. CASE list_drivers \/ list_data_sources
    <3>1. kind \in {"drivers", "data_sources"} /\ at = "enum"
      BY <2>5 DEF list_drivers, list_data_sources
    <3>2. answer \in Seq(Drivers) /\ kind \notin DOMAIN Accessors /\ row \in 0..Len(answer)
      BY <1>1, <3>1, AccessorsFacts DEF Inv, CatalogInv, TypeOK, EnumInv
    <3>3. /\ row < Len(answer)
          /\ answer[row + 1].cut \/ "bare" \in Range(Split(answer[row + 1]))
      BY <2>1, <2>5 DEF list_drivers, list_data_sources, Ends, Add, Refused, Raise
    <3>4. row + 1 \in DOMAIN answer /\ answer[row + 1] \in Drivers
      BY <3>2, <3>3
    <3>5. "bare" \in Range(Split(answer[row + 1])) => "bare" \in Range(answer[row + 1].attrs)
      <4> DEFINE d == answer[row + 1]
      <4>1. /\ Split(d) \in Seq({"pair", "bare"}) /\ d.attrs \in Seq({"pair", "bare"})
            /\ Len(Split(d)) <= Len(d.attrs)
            /\ \A j \in 1..Len(Split(d)) : Split(d)[j] = d.attrs[j]
        BY <3>4, SplitFacts
      <4>2. SUFFICES ASSUME "bare" \in Range(Split(d)) PROVE "bare" \in Range(d.attrs)
        OBVIOUS
      <4>3. PICK j \in 1..Len(Split(d)) : Split(d)[j] = "bare"
        BY <4>1, <4>2 DEF Range
      <4>4. j \in DOMAIN d.attrs /\ d.attrs[j] = "bare"
        BY <4>1, <4>3
      <4> QED
        BY <4>4 DEF Range
    <3> QED
      BY <3>2, <3>3, <3>4, <3>5 DEF Obedient
  <2> QED
    BY <2>2, <2>3, <2>4, <2>5
<1>2. Inv /\ [Next]_vars => [Throws({"order", "null", "format"}) => ~Obedient]_vars
  BY <1>1
<1> QED
  BY <1>2, ListingsInvariant, PTL DEF Spec, ObedientDriverListed
================================================================================
