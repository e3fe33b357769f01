------------------------------- MODULE CivilTime -------------------------------
(***************************************************************************)
(* cctz::civil_time<T>, the calendar every DATE and TIMESTAMP goes through *)
(* (civil_time_detail.h).  A value is the six fields of a date and time,   *)
(* aligned to the unit T; the constructor normalises any numbers it gets,  *)
(* and +, -, the comparisons and the weekday functions work on the fields. *)
(*                                                                         *)
(* Beside the value the model counts units in the integer ref.  Index(u, f)*)
(* says what the count must be, from the leap year rule and the lengths of *)
(* the months alone.  Years are exact integers here, 64 bits in the code.  *)
(***************************************************************************)
EXTENDS Integers, Sequences

CONSTANTS
  Starts,     \* the date and times a behaviour begins with
  Offsets,    \* bound: the numbers added in one step, a function of the unit
  Raw,        \* bound: the arguments <<y, m, d, hh, mm, ss>> given to the constructor
  SecondDays, \* bound: days from 1970 up to which seconds and minutes are counted
  MaxSteps    \* bound: operations in a behaviour

Units == <<"second", "minute", "hour", "day", "month", "year">>
UnitSet == {Units[i] : i \in 1..6}

ASSUME OffsetsAssumption == Offsets \in [UnitSet -> SUBSET Int]
ASSUME BoundsAssumption == MaxSteps \in Nat /\ SecondDays \in Nat
ASSUME RawAssumption == Raw \subseteq Int \X Int \X Int \X Int \X Int \X Int

VARIABLES
  tag,    \* T, the unit the value is aligned to
  f,      \* the fields
  ref,    \* the same value as a count of units
  steps   \* operations so far
vars == <<tag, f, ref, steps>>

\* / and % of C++ round towards zero.
Quot(a, b) == IF a >= 0 THEN a \div b ELSE -((-a) \div b)
Rem(a, b) == a - b * Quot(a, b)
Bit(b) == IF b THEN 1 ELSE 0

--------------------------------------------------------------------------------
(* Normalisation *)

is_leap_year(y) == Rem(y, 4) = 0 /\ (Rem(y, 100) # 0 \/ Rem(y, 400) = 0)
year_index(y, m) ==
  LET yi == Rem(y + Bit(m > 2), 400) IN IF yi < 0 THEN yi + 400 ELSE yi
days_per_century(yi) == 36524 + Bit(yi = 0 \/ yi > 300)
days_per_4years(yi) == 1460 + Bit(yi = 0 \/ yi > 300 \/ Rem(yi - 1, 100) < 96)
days_per_year(y, m) == IF is_leap_year(y + Bit(m > 2)) THEN 366 ELSE 365
days_per_month(y, m) ==
  <<31, 28, 31, 30, 31, 30, 31, 31, 30, 31, 30, 31>>[m] + Bit(m = 2 /\ is_leap_year(y))

fields(y, m, d, hh, mm, ss) ==
  [y |-> y, m |-> m, d |-> d, hh |-> hh, mm |-> mm, ss |-> ss]

\* One of the loops of n_day: skip whole periods of stride years while more days than the
\* period has are left.  (The code keeps the year index yi beside ey; it is always that of ey.)
Skip(size(_), stride, start) ==
  LET loop[at \in Int \X Int] ==
        IF at[2] <= size(at[1]) THEN at
        ELSE loop[<<at[1] + stride, at[2] - size(at[1])>>]
  IN  loop[start]

SkipMonths(start) ==
  LET loop[at \in Int \X (1..12) \X Int] ==
        LET n == days_per_month(at[1], at[2]) IN
        IF at[3] <= n THEN at
        ELSE IF at[2] = 12 THEN loop[<<at[1] + 1, 1, at[3] - n>>]
        ELSE loop[<<at[1], at[2] + 1, at[3] - n>>]
  IN  loop[start]

\* Mutant: the shortcut for the previous year asks for the length of the wrong year.
MutCycleStart(ey0, m, d0, cd0) ==
  LET cd == Rem(cd0, 146097)
      d == Rem(d0, 146097) + cd + (IF cd < 0 THEN 146097 ELSE 0)
      ey == ey0 + 400 * Quot(cd0, 146097) - (IF cd < 0 THEN 400 ELSE 0) + 400 * Quot(d0, 146097)
  IN  CASE d > 146097 -> <<ey + 400, d - 146097>>
        [] d \in 1..146097 -> <<ey, d>>
        [] d \in -364..0 -> <<ey - 1, d + days_per_year(ey, m)>>
        [] OTHER -> <<ey - 400, d + 146097>>

\* The year and the days that n_day starts to count from: cd in whole 400-year cycles, then d.
CycleStart(ey0, m, d0, cd0) ==
  LET cd == Rem(cd0, 146097)
      d == Rem(d0, 146097) + cd + (IF cd < 0 THEN 146097 ELSE 0)
      ey == ey0 + 400 * Quot(cd0, 146097) - (IF cd < 0 THEN 400 ELSE 0) + 400 * Quot(d0, 146097)
  IN  CASE d > 146097 -> <<ey + 400, d - 146097>>
        [] d \in 1..146097 -> <<ey, d>>
        [] d \in -364..0 -> <<ey - 1, d + days_per_year(ey - 1, m)>>
        [] OTHER -> <<ey - 400, d + 146097>>

\* From a year and days after the first of month m to the date.
CountYears(m, at) ==
  IF at[2] <= 365 THEN at
  ELSE LET century(ey) == days_per_century(year_index(ey, m))
           four(ey) == days_per_4years(year_index(ey, m))
           one(ey) == days_per_year(ey, m)
       IN  Skip(one, 1, Skip(four, 4, Skip(century, 100, at)))

CountMonths(m, at) == IF at[2] > 28 THEN SkipMonths(<<at[1], m, at[2]>>) ELSE <<at[1], m, at[2]>>

\* The date found, in the years of y again: the counting is done on y % 400.
Dated(y, date, hh, mm, ss) ==
  fields(y + (date[1] - Rem(y, 400)), date[2], date[3], hh, mm, ss)

n_day(y, m, d, cd, hh, mm, ss) ==
  Dated(y, CountMonths(m, CountYears(m, CycleStart(Rem(y, 400), m, d, cd))), hh, mm, ss)

\* A month below 1 is in the year before.  (m = 12, which the code keeps as it is, comes out so.)
n_mon(y, m, d, cd, hh, mm, ss) ==
  LET r == Rem(m, 12) IN
  n_day(y + Quot(m, 12) - Bit(r <= 0), IF r <= 0 THEN r + 12 ELSE r, d, cd, hh, mm, ss)

\* hh and the day carry, mm and the hour carry, ss and the minute carry: a negative remainder
\* borrows one.
Carry(c, x, size) ==
  LET r == Rem(x, size) IN
  [carry |-> c + Quot(x, size) - Bit(r < 0), rest |-> IF r < 0 THEN r + size ELSE r]

n_hour(y, m, d, cd, hh, mm, ss) ==
  LET h == Carry(cd, hh, 24) IN n_mon(y, m, d, h.carry, h.rest, mm, ss)

n_min(y, m, d, hh, ch, mm, ss) ==
  LET k == Carry(ch, mm, 60) IN
  n_hour(y, m, d, Quot(hh, 24) + Quot(k.carry, 24), Rem(hh, 24) + Rem(k.carry, 24), k.rest, ss)

n_sec(y, m, d, hh, mm, ss) ==
  CASE ss \in 0..59 /\ mm \in 0..59 /\ hh \in 0..23 /\ d \in 1..28 /\ m \in 1..12 ->
         fields(y, m, d, hh, mm, ss)
    [] ss \in 0..59 /\ mm \in 0..59 /\ hh \in 0..23 /\ ~(d \in 1..28 /\ m \in 1..12) ->
         n_mon(y, m, d, 0, hh, mm, ss)
    [] ss \in 0..59 /\ mm \in 0..59 /\ hh \notin 0..23 ->
         n_hour(y, m, d, Quot(hh, 24), Rem(hh, 24), mm, ss)
    [] ss \in 0..59 /\ mm \notin 0..59 -> n_min(y, m, d, hh, Quot(mm, 60), Rem(mm, 60), ss)
    [] OTHER ->
         LET k == Carry(0, ss, 60) IN
         n_min(y, m, d, hh, Quot(mm, 60) + Quot(k.carry, 60), Rem(mm, 60) + Rem(k.carry, 60),
               k.rest)

--------------------------------------------------------------------------------
(* Arithmetic on normalised fields *)

step(u, g, n) ==
  CASE u = "second" -> n_sec(g.y, g.m, g.d, g.hh, g.mm + Quot(n, 60), g.ss + Rem(n, 60))
    [] u = "minute" -> n_min(g.y, g.m, g.d, g.hh + Quot(n, 60), 0, g.mm + Rem(n, 60), g.ss)
    [] u = "hour" -> n_hour(g.y, g.m, g.d + Quot(n, 24), 0, g.hh + Rem(n, 24), g.mm, g.ss)
    [] u = "day" -> n_day(g.y, g.m, g.d, n, g.hh, g.mm, g.ss)
    [] u = "month" -> n_mon(g.y + Quot(n, 12), g.m + Rem(n, 12), g.d, 0, g.hh, g.mm, g.ss)
    [] u = "year" -> [g EXCEPT !.y = @ + n]

\* Mutant: below zero the scale is given back with the wrong sign.
MutScaleAdd(v, k, a) == IF v < 0 THEN ((v + 1) * k + a) + k ELSE ((v - 1) * k + a) + k

scale_add(v, k, a) == IF v < 0 THEN ((v + 1) * k + a) - k ELSE ((v - 1) * k + a) + k

ymd_ord(y, m, d) ==
  LET eyear == IF m <= 2 THEN y - 1 ELSE y
      era == Quot(IF eyear >= 0 THEN eyear ELSE eyear - 399, 400)
      yoe == eyear - era * 400
      doy == Quot(153 * (m + (IF m > 2 THEN -3 ELSE 9)) + 2, 5) + d - 1
      doe == yoe * 365 + Quot(yoe, 4) - Quot(yoe, 100) + doy
  IN  era * 146097 + doe - 719468

day_difference(g, h) ==
  LET a == Rem(g.y, 400)
      b == Rem(h.y, 400)
      c4 == (g.y - a) - (h.y - b)
      delta == ymd_ord(a, g.m, g.d) - ymd_ord(b, h.m, h.d)
      twist == CASE c4 > 0 /\ delta < 0 -> 2
                 [] c4 < 0 /\ delta > 0 -> -2
                 [] OTHER -> 0
  IN  Quot(c4 - twist * 400, 400) * 146097 + delta + twist * 146097

difference(u, g, h) ==
  LET years == g.y - h.y
      days == day_difference(g, h)
      hours == scale_add(days, 24, g.hh - h.hh)
      minutes == scale_add(hours, 60, g.mm - h.mm)
  IN  CASE u = "year" -> years
        [] u = "month" -> scale_add(years, 12, g.m - h.m)
        [] u = "day" -> days
        [] u = "hour" -> hours
        [] u = "minute" -> minutes
        [] u = "second" -> scale_add(minutes, 60, g.ss - h.ss)

align(u, g) ==
  CASE u = "second" -> g
    [] u = "minute" -> [g EXCEPT !.ss = 0]
    [] u = "hour" -> [g EXCEPT !.ss = 0, !.mm = 0]
    [] u = "day" -> [g EXCEPT !.ss = 0, !.mm = 0, !.hh = 0]
    [] u = "month" -> [g EXCEPT !.ss = 0, !.mm = 0, !.hh = 0, !.d = 1]
    [] u = "year" -> [g EXCEPT !.ss = 0, !.mm = 0, !.hh = 0, !.d = 1, !.m = 1]

\* operator<, field by field.
Less(g, h) ==
  \/ g.y < h.y
  \/ g.y = h.y /\ g.m < h.m
  \/ g.y = h.y /\ g.m = h.m /\ g.d < h.d
  \/ g.y = h.y /\ g.m = h.m /\ g.d = h.d /\ g.hh < h.hh
  \/ g.y = h.y /\ g.m = h.m /\ g.d = h.d /\ g.hh = h.hh /\ g.mm < h.mm
  \/ g.y = h.y /\ g.m = h.m /\ g.d = h.d /\ g.hh = h.hh /\ g.mm = h.mm /\ g.ss < h.ss

\* weekday::monday is 0.
get_weekday(g) ==
  LET w0 == 2400 + Rem(g.y, 400) - Bit(g.m < 3)
      w1 == w0 + Quot(w0, 4) - Quot(w0, 100) + Quot(w0, 400)
      w2 == w1 + <<0, 3, 2, 5, 0, 3, 5, 1, 4, 6, 2, 4>>[g.m] + g.d
  IN  (Rem(w2, 7) + 6) % 7

\* The tables of the code repeat the week, so that j is the next place of wd after i.
next_weekday(g, wd) ==
  LET i == get_weekday(g)
      j == IF wd > i THEN wd ELSE wd + 7
  IN  step("day", g, j - i)
prev_weekday(g, wd) ==
  LET i == 6 - get_weekday(g)
      j == IF 6 - wd > i THEN 6 - wd ELSE 6 - wd + 7
  IN  step("day", g, -(j - i))

get_yearday(g) ==
  <<0, 31, 59, 90, 120, 151, 181, 212, 243, 273, 304, 334>>[g.m]
    + Bit(g.m > 2 /\ is_leap_year(g.y)) + g.d

--------------------------------------------------------------------------------
(***************************************************************************)
(* The dates of a time zone's rule (TransOffset of time_zone_info.cc):     *)
(* day n of a year without 29 February (J) or with it (N), or the w-th     *)
(* weekday wd, Sunday being 0, of month m, the fifth being the last (M).   *)
(***************************************************************************)
ToPosixWeekday(wd) == (wd + 1) % 7
MonthOffsets(leap) ==
  IF leap THEN <<0, 31, 60, 91, 121, 152, 182, 213, 244, 274, 305, 335, 366>>
  ELSE <<0, 31, 59, 90, 120, 151, 181, 212, 243, 273, 304, 334, 365>>

\* Mutant: 1 March of a leap year is taken for 29 February.
MutTransDays(leap, jan1, pt) ==
  LET last == pt.week = 5
      first == MonthOffsets(leap)[IF last THEN pt.month + 1 ELSE pt.month]
      weekday == Rem(jan1 + first, 7)
  IN  CASE pt.fmt = "J" -> IF ~leap \/ pt.day <= MonthOffsets(TRUE)[3] THEN pt.day - 1 ELSE pt.day
        [] pt.fmt = "N" -> pt.day
        [] pt.fmt = "M" /\ last -> first - (Rem(weekday + 7 - 1 - pt.weekday, 7) + 1)
        [] pt.fmt = "M" /\ ~last -> first + Rem(pt.weekday + 7 - weekday, 7) + (pt.week - 1) * 7

\* The days from 1 January to the transition.
TransDays(leap, jan1, pt) ==
  LET last == pt.week = 5
      first == MonthOffsets(leap)[IF last THEN pt.month + 1 ELSE pt.month]
      weekday == Rem(jan1 + first, 7)
  IN  CASE pt.fmt = "J" -> IF ~leap \/ pt.day < MonthOffsets(TRUE)[3] THEN pt.day - 1 ELSE pt.day
        [] pt.fmt = "N" -> pt.day
        [] pt.fmt = "M" /\ last -> first - (Rem(weekday + 7 - 1 - pt.weekday, 7) + 1)
        [] pt.fmt = "M" /\ ~last -> first + Rem(pt.weekday + 7 - weekday, 7) + (pt.week - 1) * 7

\* From a year's 1 January and leap flag to the next one's: the step of ExtendTransitions.
NextJan1(leap, jan1) == Rem(jan1 + (IF leap THEN 366 ELSE 365), 7)
NextLeap(leap, y) == ~leap /\ is_leap_year(y + 1)

--------------------------------------------------------------------------------
(* The reference: days and units counted from the calendar's rules *)

Leap(y) == (y % 4 = 0 /\ y % 100 # 0) \/ y % 400 = 0
MonthDays(y, m) ==
  CASE m = 2 -> IF Leap(y) THEN 29 ELSE 28
    [] m \in {4, 6, 9, 11} -> 30
    [] OTHER -> 31

DaysBeforeMonth(y, m) ==
  LET sum[k \in 1..12] == IF k = 1 THEN 0 ELSE sum[k - 1] + MonthDays(y, k - 1) IN sum[m]

\* The days from 1970-01-01; 719162 is the number before it since the year 1.
DayNumber(y, m, d) ==
  LET p == y - 1 IN
  365 * p + (p \div 4) - (p \div 100) + (p \div 400) + DaysBeforeMonth(y, m) + d - 1 - 719162

\* The date and time that any six numbers name: months carry into years, all else into days.
RawDay(r) == DayNumber(r[1] + ((r[2] - 1) \div 12), ((r[2] - 1) % 12) + 1, 1) + r[3] - 1
RawMinute(r) == r[4] * 60 + r[5] + (r[6] \div 60)
RawIndex(u, r) ==
  LET day == RawDay(r) + (RawMinute(r) \div 1440)
      minute == RawMinute(r) % 1440
  IN  CASE u = "day" -> day
        [] u = "hour" -> day * 24 + (minute \div 60)
        [] u = "minute" -> day * 1440 + minute
        [] u = "second" -> (day * 1440 + minute) * 60 + (r[6] % 60)

Index(u, g) ==
  CASE u = "year" -> g.y
    [] u = "month" -> g.y * 12 + g.m - 1
    [] OTHER -> RawIndex(u, <<g.y, g.m, g.d, g.hh, g.mm, g.ss>>)

Valid(g) ==
  /\ g.y \in Int /\ g.m \in 1..12 /\ g.d \in 1..MonthDays(g.y, g.m)
  /\ g.hh \in 0..23 /\ g.mm \in 0..59 /\ g.ss \in 0..59

ASSUME StartsAssumption ==
  \A g \in Starts : g \in [y : Int, m : Int, d : Int, hh : Int, mm : Int, ss : Int] /\ Valid(g)

--------------------------------------------------------------------------------
(* The operations *)

Init ==
  /\ tag \in UnitSet
  /\ \E g \in Starts : f = align(tag, g)
  /\ ref = Index(tag, f)
  /\ steps = 0

Operation == steps < MaxSteps /\ steps' = steps + 1
Counted(u, day) == u \in {"second", "minute"} => day \in -SecondDays..SecondDays

\* operator+ ; every result is aligned again by the designated constructor.
Plus(n) ==
  /\ Operation
  /\ f' = align(tag, step(tag, f, n))
  /\ ref' = ref + n
  /\ UNCHANGED tag

\* operator- negates n.
Minus(n) ==
  /\ Operation
  /\ f' = align(tag, step(tag, f, -n))
  /\ ref' = ref - n
  /\ UNCHANGED tag

\* civil_time(y, m, d, hh, mm, ss) of any numbers.
Construct(r) ==
  /\ Operation
  /\ tag \notin {"month", "year"}
  /\ Counted(tag, RawDay(r))
  /\ f' = align(tag, n_sec(r[1], r[2], r[3], r[4], r[5], r[6]))
  /\ ref' = RawIndex(tag, r)
  /\ UNCHANGED tag

\* civil_time<T>(civil_time<U>)
Convert(u) ==
  /\ Operation
  /\ u # tag
  /\ Counted(u, Index("day", f))
  /\ tag' = u
  /\ f' = align(u, f)
  /\ ref' = Index(u, f)

Next ==
  \/ \E n \in Offsets[tag] : Plus(n) \/ Minus(n)
  \/ \E r \in Raw : Construct(r)
  \/ \E u \in UnitSet : Convert(u)

Spec == Init /\ [][Next]_vars

--------------------------------------------------------------------------------
(* What the calendar promises *)

\* The kinds of the variables; a value is aligned to its unit.
TypeOK ==
  /\ tag \in UnitSet
  /\ ref \in Int
  /\ steps \in 0..MaxSteps
  /\ f = align(tag, f)

\* After any sequence of +, -, conversions and constructions from numbers out of range
\* (n_sec, n_day and their shortcuts), the fields are a date of the Gregorian calendar and the
\* very one that counting the units gives.
FieldsExact == Valid(f) /\ Index(tag, f) = ref

\* operator- of two values (difference, day_difference, scale_add) is the number of units
\* between them, whatever took the program from one to the other.
DifferenceExactAct == tag' = tag => difference(tag, f', f) = ref' - ref
DifferenceExact == [][DifferenceExactAct]_vars

\* operator< orders dates and times as their counts do, in every unit coarser than a second
\* too; exactly one of <, > and = holds.
OrderAsCounted ==
  \A g \in Starts :
    LET h == align(tag, g) IN
    /\ Less(f, h) <=> ref < Index(tag, h)
    /\ Less(h, f) <=> ref > Index(tag, h)

\* get_weekday, get_yearday, next_weekday and prev_weekday agree with the count of days
\* (1970-01-01 was a Thursday): the next Monday is the first one after today, up to a week away.
WeekdaysExact ==
  LET day == Index("day", f)
      today == align("day", f)
  IN  /\ get_weekday(f) = (day + 3) % 7
      /\ get_yearday(f) = day - DayNumber(f.y, 1, 1) + 1
      /\ \A wd \in 0..6 :
           LET next == Index("day", next_weekday(today, wd))
               prev == Index("day", prev_weekday(today, wd))
           IN  /\ next \in day + 1 .. day + 7 /\ (next + 3) % 7 = wd
               /\ prev \in day - 7 .. day - 1 /\ (prev + 3) % 7 = wd

\* The rule of a zone finds the date it means in every year (TransOffset): Jn the n-th day of a
\* common year, Mm.w.d the w-th such weekday of the month or the last one; and stepping from one
\* 1 January to the next keeps the weekday and the leap year right (ExtendTransitions).
RuleDatesExact ==
  LET y == f.y
      leap == is_leap_year(y)
      jan1 == ToPosixWeekday(get_weekday(fields(y, 1, 1, 0, 0, 0)))
      begin == DayNumber(y, 1, 1)
      at(pt) == begin + TransDays(leap, jan1, pt)
  IN  /\ NextLeap(leap, y) <=> Leap(y + 1)
      /\ NextJan1(leap, jan1) = (DayNumber(y + 1, 1, 1) + 4) % 7
      /\ \A m \in 1..12 :
           LET first == DayNumber(y, m, 1)
               last == DayNumber(y, m, MonthDays(y, m))
               before == DaysBeforeMonth(2001, m)
           IN  /\ \A d \in 1..MonthDays(2001, m) :
                    at([fmt |-> "J", day |-> before + d, week |-> 0]) = first + d - 1
               /\ \A wd \in 0..6, w \in 1..5 :
                    LET d == at([fmt |-> "M", month |-> m, week |-> w, weekday |-> wd])
                    IN  /\ (d + 4) % 7 = wd
                        /\ d \in IF w = 5 THEN last - 6 .. last ELSE first + 7 * w - 7 .. first + 7 * w - 1

\* Whatever calendar arithmetic the program does, the date it ends with is the right one: its
\* fields, its place among others, its weekday and its day of the year.
CivilExact == TypeOK /\ FieldsExact /\ OrderAsCounted /\ WeekdaysExact
===============================================================================
