------------------------------- MODULE PosixSpec -------------------------------
(***************************************************************************)
(* The rule for the future at the end of a zoneinfo file, such as          *)
(* EST5EDT,M3.2.0,M11.1.0 (time_zone_posix.cc), and the question whether   *)
(* it means daylight time all year (AllYearDST of time_zone_info.cc), on   *)
(* the calendar of CivilTime.                                              *)
(*                                                                         *)
(* A text is a sequence of tokens [c, n]: a number n (c = "int"), a run of *)
(* n letters (c = "name"), or one of the characters that mean something.   *)
(* A parser takes a position and gives the one after what it has read, or  *)
(* NullPtr, with the value.                                                *)
(***************************************************************************)
EXTENDS CivilTime

CONSTANT Texts  \* bound: the rules a file may hold

Characters == {":", "+", "-", ",", "/", ".", "<", ">", "M", "J"}
Token == [c: {"int", "name"} \cup Characters, n: Nat]
ASSUME TextsAssumption == Texts \subseteq Seq(Token)

VARIABLES
  text,   \* future_spec_
  posix   \* the PosixTimeZone that ParsePosixSpec() has made of it
specVars == <<text, posix>>
allVars == <<vars, specVars>>

--------------------------------------------------------------------------------
(* The parser *)

NullPtr == 0
Read(at, val) == [at |-> at, val |-> val]
Fails == Read(NullPtr, 0)
At(t, p) == IF p > Len(t) THEN "end" ELSE t[p].c

ParseInt(t, p, lo, hi) ==
  IF At(t, p) = "int" /\ t[p].n \in lo..hi THEN Read(p + 1, t[p].n) ELSE Fails

Letters(s) == LET sum[k \in 0..Len(s)] ==
                    IF k = 0 THEN 0 ELSE sum[k - 1] + (IF s[k].c = "name" THEN s[k].n ELSE 1)
              IN  sum[Len(s)]
FirstFrom(t, p, stops) ==
  CHOOSE q \in p..Len(t) + 1 : At(t, q) \in stops /\ \A k \in p..q - 1 : At(t, k) \notin stops

\* Mutant: a number is part of the abbreviation.
MutAbbrEnds == {"-", "+", ",", "end"}

AbbrEnds == {"-", "+", ",", "int", "end"}

\* An abbreviation in angle brackets, or at least three other characters.
ParseAbbr(t, p) ==
  LET quoted == At(t, p) = "<"
      q == IF quoted THEN FirstFrom(t, p + 1, {">", "end"}) ELSE FirstFrom(t, p, AbbrEnds)
      abbr == SubSeq(t, IF quoted THEN p + 1 ELSE p, q - 1)
  IN  CASE quoted /\ At(t, q) = "end" -> Fails
        [] quoted /\ At(t, q) = ">" -> Read(q + 1, abbr)
        [] ~quoted /\ Letters(abbr) < 3 -> Fails
        [] OTHER -> Read(q, abbr)

\* The :mm or :ss after p, zero if there is none.
Part60(t, p) ==
  CASE p = NullPtr -> Fails
    [] p # NullPtr /\ At(t, p) = ":" -> ParseInt(t, p + 1, 0, 59)
    [] OTHER -> Read(p, 0)

ParseOffset(t, p, lo, hi, sign) ==
  LET signed == At(t, p) \in {"+", "-"}
      h == ParseInt(t, IF signed THEN p + 1 ELSE p, lo, hi)
      m == Part60(t, h.at)
      s == Part60(t, m.at)
  IN  IF p = NullPtr \/ s.at = NullPtr THEN Fails
      ELSE Read(s.at, (IF At(t, p) = "-" THEN -sign ELSE sign) * ((h.val * 60 + m.val) * 60 + s.val))

Date(fmt, day, month, week, weekday) ==
  [fmt |-> fmt, day |-> day, month |-> month, week |-> week, weekday |-> weekday]
\* The code leaves such a date as the memory was.
Unset == Date("unset", 0, 0, 0, 0)

\* The M form.  A month or week that no dot follows ends it without setting the date.
ParseMonth(t, p) ==
  LET month == ParseInt(t, p, 1, 12)
      week == ParseInt(t, month.at + 1, 1, 5)
      weekday == ParseInt(t, week.at + 1, 0, 6)
  IN  CASE month.at = NullPtr \/ At(t, month.at) # "." -> Read(month.at, Unset)
        [] month.at # NullPtr /\ At(t, month.at) = "." /\ (week.at = NullPtr \/ At(t, week.at) # ".") ->
             Read(week.at, Unset)
        [] OTHER -> Read(weekday.at, Date("M", 0, month.val, week.val, weekday.val))

ParseDate(t, p) ==
  LET day == IF At(t, p) = "J" THEN ParseInt(t, p + 1, 1, 365) ELSE ParseInt(t, p, 0, 365)
  IN  IF At(t, p) = "M" THEN ParseMonth(t, p + 1)
      ELSE Read(day.at, Date(IF At(t, p) = "J" THEN "J" ELSE "N", day.val, 0, 0, 0))

DefaultTime == 2 * 60 * 60

\* [date, time]; without a comma the date is left unset and nothing is read.
ParseDateTime(t, p) ==
  LET date == IF p # NullPtr /\ At(t, p) = "," THEN ParseDate(t, p + 1) ELSE Read(p, Unset)
      slash == date.at # NullPtr /\ At(t, date.at) = "/"
      time == IF slash THEN ParseOffset(t, date.at + 1, -167, 167, 1) ELSE Read(date.at, DefaultTime)
  IN  Read(time.at, [date |-> date.val, time |-> time.val])

Nothing == [date |-> Unset, time |-> 0]
TimeZone(std_abbr, std_offset, dst_abbr, dst_offset, dst_start, dst_end) ==
  [ok |-> TRUE, std_abbr |-> std_abbr, std_offset |-> std_offset, dst_abbr |-> dst_abbr,
   dst_offset |-> dst_offset, dst_start |-> dst_start, dst_end |-> dst_end]
NoZone == [TimeZone(<<>>, 0, <<>>, 0, Nothing, Nothing) EXCEPT !.ok = FALSE]

ParsePosixSpec(t) ==
  LET abbr == ParseAbbr(t, 1)
      std == ParseOffset(t, abbr.at, 0, 24, -1)
      dst == ParseAbbr(t, std.at)
      off == IF At(t, dst.at) # "," THEN ParseOffset(t, dst.at, 0, 24, -1)
             ELSE Read(dst.at, std.val + 60 * 60)
      start == ParseDateTime(t, off.at)
      end == ParseDateTime(t, start.at)
  IN  CASE At(t, 1) = ":" \/ abbr.at = NullPtr \/ std.at = NullPtr -> NoZone
        [] At(t, 1) # ":" /\ abbr.at # NullPtr /\ std.at # NullPtr /\ At(t, std.at) = "end" ->
             TimeZone(abbr.val, std.val, <<>>, 0, Nothing, Nothing)
        [] OTHER ->
             IF dst.at # NullPtr /\ off.at # NullPtr /\ end.at # NullPtr /\ At(t, end.at) = "end"
             THEN TimeZone(abbr.val, std.val, dst.val, off.val, start.val, end.val)
             ELSE NoZone

--------------------------------------------------------------------------------
(* The rule in a year *)

AllYearDST(z) ==
  /\ z.dst_start.date.fmt = "N" /\ z.dst_start.date.day = 0 /\ z.dst_start.time = 0
  /\ z.dst_end.date.fmt = "J" /\ z.dst_end.date.day = 365
  /\ z.dst_end.time + (z.std_offset - z.dst_offset) = 86400

Jan1(y) == ToPosixWeekday(get_weekday(fields(y, 1, 1, 0, 0, 0)))
TransOffset(y, pt) == TransDays(is_leap_year(y), Jan1(y), pt.date) * 86400 + pt.time

\* The seconds into year y, in UTC, at which daylight time starts and ends.
DstStarts(z, y) == TransOffset(y, z.dst_start) - z.std_offset
DstEnds(z, y) == TransOffset(y, z.dst_end) - z.dst_offset

\* Load() of a file whose last line is t.  Bound: the one operation of its behaviour.
ReadSpec(t) ==
  /\ tag = "year" /\ steps = 0
  /\ steps' = MaxSteps
  /\ text' = t
  /\ posix' = ParsePosixSpec(t)
  /\ UNCHANGED <<tag, f, ref>>

SpecInit == Init /\ text = <<>> /\ posix = NoZone
SpecNext == (Next /\ UNCHANGED specVars) \/ \E t \in Texts : ReadSpec(t)
RuleSpec == SpecInit /\ [][SpecNext]_allVars

--------------------------------------------------------------------------------
(***************************************************************************)
(* The grammar in the comments of time_zone_posix.cc, read as the pieces a *)
(* text can be cut into:                                                   *)
(*   spec = std offset [ dst [ offset ] , datetime , datetime ]            *)
(*   abbr = <.*?> | [^-+,\d]{3,}                                           *)
(*   offset = [+|-]hh[:mm[:ss]]                                            *)
(*   datetime = ( Jn | n | Mm.w.d ) [ / offset ]                           *)
(* An abbreviation that begins with < is of the first form.  None begins   *)
(* with a colon, which belongs to the offset before it, unless that has    *)
(* its seconds already.                                                    *)
(***************************************************************************)
Shape(s) == [i \in 1..Len(s) |-> s[i].c]
Piece(t, a, b) == SubSeq(t, a, b - 1)
Has(s, cs) == \E i \in 1..Len(s) : s[i].c \in cs
Comma(t, p) == At(t, p) = ","

Bracketed(s) == Len(s) >= 2 /\ s[1].c = "<" /\ s[Len(s)].c = ">" /\ ~Has(Piece(s, 2, Len(s)), {">"})
IsAbbr(s) ==
  Bracketed(s) \/ (Letters(s) >= 3 /\ s[1].c # "<" /\ ~Has(s, {"-", "+", ",", "int"}))
AbbrOf(s) == IF Bracketed(s) THEN Piece(s, 2, Len(s)) ELSE s

Signed(s) == s # <<>> /\ s[1].c \in {"+", "-"}
Digits(s) == IF Signed(s) THEN Tail(s) ELSE s
IsOffset(s, hours) ==
  LET d == Digits(s) IN
  /\ Shape(d) \in {<<"int">>, <<"int", ":", "int">>, <<"int", ":", "int", ":", "int">>}
  /\ d[1].n \in hours
  /\ \A i \in {3, 5} : i <= Len(d) => d[i].n \in 0..59
Seconds(s) ==
  LET d == Digits(s)
      part(i) == IF i <= Len(d) THEN d[i].n ELSE 0
  IN  (IF s[1].c = "-" THEN -1 ELSE 1) * (3600 * part(1) + 60 * part(3) + part(5))

IsDate(s) ==
  \/ Shape(s) = <<"J", "int">> /\ s[2].n \in 1..365
  \/ Shape(s) = <<"int">> /\ s[1].n \in 0..365
  \/ /\ Shape(s) = <<"M", "int", ".", "int", ".", "int">>
     /\ s[2].n \in 1..12 /\ s[4].n \in 1..5 /\ s[6].n \in 0..6
DateOf(s) ==
  CASE s[1].c = "J" -> Date("J", s[2].n, 0, 0, 0)
    [] s[1].c = "int" -> Date("N", s[1].n, 0, 0, 0)
    [] s[1].c = "M" -> Date("M", 0, s[2].n, s[4].n, s[6].n)

\* What , datetime means: at most one thing.
DateTimes(s) ==
  IF s = <<>> \/ s[1].c # "," THEN {}
  ELSE (IF IsDate(Tail(s)) THEN {[date |-> DateOf(Tail(s)), time |-> 7200]} ELSE {})
       \cup UNION { IF s[k].c = "/" /\ IsDate(Piece(s, 2, k)) /\ IsOffset(Piece(s, k + 1, Len(s) + 1), 0..167)
                    THEN {[date |-> DateOf(Piece(s, 2, k)), time |-> Seconds(Piece(s, k + 1, Len(s) + 1))]}
                    ELSE {} : k \in 2..Len(s) }

\* The cuts after the standard abbreviation and offset, and the meanings of t.
Cuts(t) ==
  {x \in (1..Len(t) + 1) \X (1..Len(t) + 1) :
     /\ x[1] <= x[2] /\ IsAbbr(Piece(t, 1, x[1])) /\ IsOffset(Piece(t, x[1], x[2]), 0..24)
     /\ At(t, 1) # ":"
     /\ At(t, x[2]) = ":" => Len(Digits(Piece(t, x[1], x[2]))) = 5}
DstMeanings(t, std) ==
  LET end == Len(t) + 1
      at == {x \in (1..end) \X (1..end) \X (1..end) :
               /\ x[1] <= x[2] /\ x[2] < x[3] /\ x[3] < end
               /\ Comma(t, x[2]) /\ Comma(t, x[3])
               /\ IsAbbr(Piece(t, 1, x[1]))
               /\ x[1] = x[2] \/ IsOffset(Piece(t, x[1], x[2]), 0..24)}
  IN  UNION {{[dst_abbr |-> AbbrOf(Piece(t, 1, x[1])), dst_start |-> s, dst_end |-> e,
               dst_offset |-> IF x[1] = x[2] THEN std + 3600 ELSE -Seconds(Piece(t, x[1], x[2]))] :
                 s \in DateTimes(Piece(t, x[2], x[3])), e \in DateTimes(Piece(t, x[3], end))} : x \in at}
Meanings(t) ==
  UNION { LET abbr == AbbrOf(Piece(t, 1, x[1]))
              std == -Seconds(Piece(t, x[1], x[2]))
              rest == Piece(t, x[2], Len(t) + 1)
          IN  IF rest = <<>> THEN {TimeZone(abbr, std, <<>>, 0, Nothing, Nothing)}
              ELSE {TimeZone(abbr, std, d.dst_abbr, d.dst_offset, d.dst_start, d.dst_end) :
                      d \in DstMeanings(rest, std)} : x \in Cuts(t) }

\* A rule has no daylight time at all, or the dates of it.
Standard(t) == \E x \in Cuts(t) : x[2] = Len(t) + 1
Complete(t, z) == Standard(t) \/ Unset \notin {z.dst_start.date, z.dst_end.date}

--------------------------------------------------------------------------------
(* What the rules promise *)

\* ParsePosixSpec() reads every text of its grammar as what the grammar says it means, and
\* refuses every other one, except those that leave out the dates of daylight time or end one
\* early: it accepts these with the date unset.
SpecsAsWritten ==
  IF posix.ok /\ Complete(text, posix) THEN Meanings(text) = {posix}
  ELSE Meanings(text) = {}

\* A rule that AllYearDST() takes for daylight time all year never goes back to standard time:
\* in every year, leap or not, it ends at the very second at which the next year's begins.
YearRound ==
  posix.ok /\ posix.dst_abbr # <<>> /\ AllYearDST(posix) =>
    /\ TransOffset(f.y, posix.dst_start) = 0
    /\ DstEnds(posix, f.y) = (IF Leap(f.y) THEN 366 ELSE 365) * 86400 + DstStarts(posix, f.y + 1)

\* The rule of a zone means the dates it says, in every year.
RulesExact == RuleDatesExact /\ YearRound
===============================================================================
