---------------------------- MODULE OpenConnection ----------------------------
(***************************************************************************)
(* The texts an open connection decodes.  A connection has one encoder for *)
(* the values and the error messages of all its results, and one for the   *)
(* names of their columns, each a conversion descriptor and a buffer.  The *)
(* descriptor is never reset and never flushed, and the buffer keeps what  *)
(* earlier texts have put there.                                           *)
(*                                                                         *)
(* A text is a sequence of bytes: a character, a base character, which a   *)
(* converter such as the one of CP1258 holds back in case a mark follows,  *)
(* the two shifts of a stateful encoding, an invalid byte, a zero.         *)
(***************************************************************************)
EXTENDS ConnectionSetup, SequencesExt

CONSTANTS
  Texts,      \* bound: the texts that the driver may hand out
  MaxTexts    \* bound: texts that one connection decodes

Bytes == {"char", "base", "out", "in", "bad", "nul"}
ASSUME TextsAssumption == Texts \subseteq Seq(Bytes)
ASSUME MaxTextsAssumption == MaxTexts \in Nat

VARIABLES
  cd,         \* cd_ of the two encoders: null, or the state of the descriptor
  buffer,     \* buffer_ of the two
  decoded,    \* history: the texts that each has decoded
  last        \* history: the last text, by which encoder, and what came of it
texts == <<cd, buffer, decoded, last>>

Encoders == {"output", "column_name"}
--------------------------------------------------------------------------------
(* The converter *)

\* The state of a descriptor: shifted out or not, and the character held back.
Fresh == [null |-> FALSE, shift |-> FALSE, held |-> <<>>]
Null == [Fresh EXCEPT !.null = TRUE]

\* A character of the output: the byte, and the shift in which it was read.
Char(b, shift) == <<b, shift>>

\* One byte, while all is well: a held character goes out before whatever follows it.
Feed(run, b) ==
  IF ~run.ok THEN run
  ELSE CASE b = "bad" -> [run EXCEPT !.ok = FALSE]
         [] b = "out" -> [run EXCEPT !.shift = TRUE]
         [] b = "in" -> [run EXCEPT !.shift = FALSE]
         [] b = "base" -> [run EXCEPT !.held = <<Char(b, run.shift)>>, !.out = @ \o run.held]
         [] OTHER -> [run EXCEPT !.held = <<>>, !.out = @ \o run.held \o <<Char(b, run.shift)>>]

\* Riconv(): it stops at an invalid byte, in the state it had there.
Riconv(d, text) ==
  LET run[i \in 0..Len(text)] ==
        IF i = 0 THEN [shift |-> d.shift, held |-> d.held, out |-> <<>>, ok |-> TRUE]
        ELSE Feed(run[i - 1], text[i])
  IN  run[Len(text)]

--------------------------------------------------------------------------------
(* Iconv *)

\* The descriptor of an encoder, null where there is nothing to convert.
Iconv(from) == IF from \in {"", "UTF-8"} THEN Null ELSE Fresh

\* convert(): the output overwrites the beginning of the buffer, and its length is returned.
convert_text(e, text) ==
  LET run == Riconv(cd[e], text) IN
  [ok |-> run.ok, n |-> Len(run.out),
   buffer |-> run.out \o SubSeq(buffer[e], Len(run.out) + 1, Len(buffer[e])),
   cd |-> [cd[e] EXCEPT !.shift = run.shift, !.held = run.held]]

\* Mutant: the text is taken to end where the buffer does.
MutTaken(b, n) == b
\* The part of the buffer that is this text.
Taken(b, n) == SubSeq(b, 1, n)

\* safeMakeChar(): a value ends before its first zero.
safeMakeChar(chars) ==
  LET ends == {i \in 1..Len(chars) : chars[i][1] = "nul"} IN
  SubSeq(chars, 1, IF ends = {} THEN Len(chars) ELSE Min(ends) - 1)

\* What a text is without an encoder: its bytes.
Plain(text) == [i \in 1..Len(text) |-> Char(text[i], FALSE)]

\* makeSEXP() and makeString(), for the one encoder and the other.
Made(e, chars) == IF e = "output" THEN safeMakeChar(chars) ELSE chars
Make_text(e, text) ==
  IF cd[e].null
  THEN /\ last' = [of |-> e, text |-> text, ok |-> TRUE, value |-> Made(e, Plain(text))]
       /\ UNCHANGED <<cd, buffer>>
  ELSE LET c == convert_text(e, text) IN
       /\ last' = [of |-> e, text |-> text, ok |-> c.ok,
                   value |-> IF c.ok THEN Made(e, Taken(c.buffer, c.n)) ELSE <<>>]
       /\ cd' = [cd EXCEPT ![e] = c.cd]
       /\ buffer' = [buffer EXCEPT ![e] = c.buffer]

\* assign_string(), or the message of an odbc_error.
ReadText(text) ==
  /\ at = "open" /\ Make_text("output", text)
  /\ decoded' = [decoded EXCEPT !["output"] = Append(@, text)]

\* A turn of the loop of column_names(); an invalid name is an R error, and ends it.
ReadName(text) ==
  /\ at = "open" /\ Make_text("column_name", text)
  /\ decoded' = [decoded EXCEPT !["column_name"] = Append(@, text)]

NoText == [of |-> "none"]

\* The encoders are made when odbc_connect is called, and go with the connection.
Setup ==
  /\ Next
  /\ cd' = IF at' \in {"none", "dealloc"} THEN [e \in Encoders |-> Null]
           ELSE IF at = "none" THEN [output |-> Iconv(request'.encoding),
                                     column_name |-> Iconv(request'.name_encoding)]
           ELSE cd
  /\ buffer' = IF at' = at THEN buffer ELSE [e \in Encoders |-> <<>>]
  /\ decoded' = IF at' = at THEN decoded ELSE [e \in Encoders |-> <<>>]
  /\ last' = IF at' = at THEN last ELSE NoText

OpenInit ==
  /\ Init
  /\ cd = [e \in Encoders |-> Null] /\ buffer = [e \in Encoders |-> <<>>]
  /\ decoded = [e \in Encoders |-> <<>>] /\ last = NoText

\* The bound: texts are read of a first connection that nothing has gone wrong with, before
\* its first timestamp, and then it is closed.
FewTexts ==
  /\ Len(decoded["output"]) + Len(decoded["column_name"]) < MaxTexts
  /\ opens = 1 /\ refused = {} /\ ~answer.read
ThenClosed == last # NoText => at' # at

OpenNext ==
  \/ Setup /\ ThenClosed
  \/ FewTexts /\ UNCHANGED vars /\ \E text \in Texts : ReadText(text) \/ ReadName(text)

OpenSpec == OpenInit /\ [][OpenNext]_<<vars, texts>>

--------------------------------------------------------------------------------
(* Properties *)

\* A text that leaves the descriptor as a new one: it ends shifted in, on no base character,
\* and has no invalid byte.
Tidy(text) ==
  /\ \A i \in 1..Len(text) : text[i] # "bad"
  /\ text = <<>> \/ Last(text) # "base"
  /\ \A i \in 1..Len(text) :
       /\ text[i] = "out" => \E k \in (i + 1)..Len(text) : text[k] = "in"
       /\ text[i] = "base" => \E k \in (i + 1)..Len(text) : text[k] \notin {"out", "in"}

\* The characters of a text by itself: the bytes that are no shifts, in their order, each read
\* in the shift that the last one before it left.
ShiftAt(text, i) ==
  \E j \in 1..(i - 1) : text[j] = "out" /\ \A k \in (j + 1)..(i - 1) : text[k] # "in"
Chars(text, n) == {i \in 1..n : text[i] \notin {"out", "in"}}
Place(text, k) == CHOOSE i \in Chars(text, Len(text)) : Cardinality(Chars(text, i)) = k
Shown(text) ==
  [k \in 1..Cardinality(Chars(text, Len(text))) |->
     Char(text[Place(text, k)], ShiftAt(text, Place(text, k)))]

\* What a text is decoded to depends on nothing but its own bytes, as long as the texts that its
\* encoder has decoded, itself among them, end where a new descriptor begins; an error message
\* or a name counts as a text, a text of the other encoder does not.
EachTextItsOwn ==
  last.of \in Encoders /\ (\A i \in 1..Len(decoded[last.of]) : Tidy(decoded[last.of][i])) =>
    /\ last.ok
    /\ last.value = Made(last.of, IF cd[last.of].null THEN Plain(last.text) ELSE Shown(last.text))
===============================================================================
