------------------------------ MODULE TimeZoneInfo ------------------------------
(***************************************************************************)
(* cctz::TimeZoneInfo, which converts the timestamps of a connection       *)
(* between civil and absolute time (time_zone_info.cc).  Load() turns a    *)
(* zoneinfo file into a table of transitions and extends it, by the rule   *)
(* for the future, over one cycle of the calendar; BreakTime() and         *)
(* MakeTime() search the table from any thread.  The table never changes   *)
(* after Load(), but each function keeps a hint, the place of its last     *)
(* search, in an atomic that all threads share.                            *)
(*                                                                         *)
(* A civil second is counted from the start of year 0 (CivilTime shows     *)
(* that counting and the calendar's fields agree), so that civil times,    *)
(* like absolute ones, are integers.  The calendar is any one that repeats *)
(* after Cycle years; in the code that is 400.                             *)
(***************************************************************************)
EXTENDS Integers, Sequences

CONSTANTS
  Threads,    \* the threads that convert times
  Asks,       \* bound: the times each thread asks about
  Sources,    \* the zones: what FixedOffsetFromName and the zoneinfo files give
  Cycle,      \* years after which the calendar repeats, 400 in the code
  YearSecs,   \* seconds of each year of a cycle
  BigBang,    \* the "first half" sentinel, -(1 << 59)
  LateTime,   \* the "second half" sentinel, 2147483647
  Contemporary,  \* the redundant transitions of a fixed zone, 2015 to 2025
  MinTime, MaxTime,  \* the range of time_point<seconds>
  SecsPerDay, \* kSecsPerDay: no offset is as large
  MaxIndex,   \* the largest type index, 255
  Ticks,      \* parts of a second in which a POSIXct is counted: what a double can tell apart
  Factors,    \* the powers of ten, 10^0 to 10^7, of the scales that parameters have
  Nano,       \* parts of a second that system_clock counts, 10^9 with libstdc++
  ClockWidth  \* values of its counter, 2^64

ASSUME CycleAssumption == Cycle \in Nat \ {0} /\ YearSecs \in [0..Cycle - 1 -> Nat \ {0}]
ASSUME TimesAssumption ==
  /\ {BigBang, LateTime, MinTime, MaxTime} \subseteq Int
  /\ SecsPerDay \in Nat \ {0}
  /\ MinTime + 2 * SecsPerDay <= BigBang
  /\ BigBang < 0 /\ 0 < LateTime /\ LateTime < MaxTime
ASSUME AsksAssumption == Asks \in [Threads -> SUBSET (MinTime..MaxTime)]
ASSUME ScalesAssumption == Ticks \in Nat \ {0} /\ Factors \subseteq Nat \ {0}
ASSUME ClockAssumption == Nano \in Nat \ {0} /\ ClockWidth \in Nat \ {0}
ASSUME IndexAssumption == MaxIndex \in Nat
ASSUME ContemporaryAssumption ==
  /\ Contemporary \in Seq(BigBang + 1..MaxTime)
  /\ \A i \in 2..Len(Contemporary) : Contemporary[i - 1] < Contemporary[i]

VARIABLES
  source,  \* what the zone was loaded from
  zone,    \* the loaded table, see Load
  local_time_hint, time_local_hint,  \* the places found last by BreakTime and by MakeTime
  thread   \* what each thread is doing: idle, searching after a hint that did not help, or done
vars == <<source, zone, local_time_hint, time_local_hint, thread>>

--------------------------------------------------------------------------------
(* The calendar *)

YearsSecs[k \in 0..Cycle] == IF k = 0 THEN 0 ELSE YearsSecs[k - 1] + YearSecs[k - 1]
CycleSecs == YearsSecs[Cycle]
YearStart(y) == (y \div Cycle) * CycleSecs + YearsSecs[y % Cycle]
Year(cs) ==
  LET first == Cycle * (cs \div CycleSecs) IN
  CHOOSE y \in first..first + Cycle - 1 : YearStart(y) <= cs /\ cs < YearStart(y + 1)
YearShift(cs, cycles) == cs + cycles * CycleSecs

--------------------------------------------------------------------------------
(***************************************************************************)
(* Loading.  A source is [fixed |-> offset] or a file: the transition      *)
(* times, the types they switch to (by index, from 0), the types, and the  *)
(* rule for the future.  A rule is NoRule, BadRule (not a POSIX spec), or  *)
(* the standard type, the daylight type or NoDst, allyear, and the seconds *)
(* into each year of the cycle at which daylight time starts and ends.     *)
(* readable says whether the header and the lengths are in order.          *)
(***************************************************************************)
NoRule == [kind |-> "none"]
BadRule == [kind |-> "bad"]
Type(off, dst, abbr) == [off |-> off, dst |-> dst, abbr |-> abbr]
NoDst == Type(0, TRUE, "")
Failed == [ok |-> FALSE]

Types == [off : Int, dst : BOOLEAN, abbr : STRING]
Rules ==
  {NoRule, BadRule}
  \cup [kind : {"rule"}, std : Types, dst : Types, allyear : BOOLEAN,
        start : [0..Cycle - 1 -> Int], end : [0..Cycle - 1 -> Int]]
Dated(rule) == rule.kind = "rule" /\ rule.dst # NoDst /\ ~rule.allyear

\* The two changes of a rule lie in their year on every clock of the zone, and apart.
InYear(types, rule, k) ==
  /\ rule.start[k] - rule.std.off # rule.end[k] - rule.dst.off
  /\ \A x \in {types[i] : i \in 1..Len(types)} \cup {rule.std, rule.dst} :
       {rule.start[k] - rule.std.off + x.off, rule.end[k] - rule.dst.off + x.off}
         \subseteq 0..YearSecs[k] - 1

\* What the zones may be: zoneinfo files start at the big bang, and where a rule goes on they
\* end within a cycle of 1970 and well before the last representable time.
ASSUME SourcesAssumption ==
  \A src \in Sources :
    \/ src \in [fixed : -SecsPerDay..SecsPerDay]
    \/ /\ src \in [readable : BOOLEAN, times : Seq(Int), index : Seq(Nat), types : Seq(Types),
                   rule : Rules]
       /\ Len(src.index) = Len(src.times)
       /\ \A i \in 1..Len(src.times) : BigBang <= src.times[i] /\ src.times[i] <= MaxTime
       /\ Dated(src.rule) =>
            /\ src.times # <<>>
            /\ -CycleSecs <= src.times[Len(src.times)]
            /\ \A i \in 1..Len(src.times) : src.times[i] <= MaxTime - 3 * CycleSecs
            /\ \A k \in 0..Cycle - 1 : InYear(src.types, src.rule, k)

\* Find or make a type with these attributes.  Load also fails when the abbreviation of a new
\* type starts behind byte 255 of the abbreviations, which are not laid out here: to the
\* conversions it is the same as no room for the type.
GetTransitionType(types, tt) ==
  LET same == {i \in 1..Len(types) : types[i] = tt}
      new == [ok |-> Len(types) <= MaxIndex, types |-> Append(types, tt), index |-> Len(types)]
  IN  IF same = {} THEN new
      ELSE [ok |-> TRUE, types |-> types,
            index |-> (CHOOSE i \in same : \A j \in same : i <= j) - 1]

EquivTransitions(types, i, j) == i = j \/ types[i + 1] = types[j + 1]

\* The type before the first transition: type 0, unless it is daylight time and used.
DefaultType(raw) ==
  LET is_dst(i) == raw.types[i + 1].dst
      used == \E i \in 1..Len(raw.index) : raw.index[i] = 0
      down == {k \in 0..raw.index[1] : k = 0 \/ ~is_dst(k)}
      start == IF is_dst(0) THEN CHOOSE k \in down : \A l \in down : l <= k ELSE 0
      up == {k \in start..Len(raw.types) - 1 : ~is_dst(k)}
  IN  IF used /\ up # {} THEN CHOOSE k \in up : \A l \in up : k <= l ELSE 0

\* The checks of Load before it uses the data: header, order of the times, indexes, offsets.
DataOK(raw) ==
  /\ raw.readable
  /\ Len(raw.types) > 0
  /\ \A i \in 2..Len(raw.times) : raw.times[i - 1] < raw.times[i]
  /\ \A i \in 1..Len(raw.index) : raw.index[i] < Len(raw.types)
  /\ \A i \in 1..Len(raw.types) : raw.types[i].off \in -SecsPerDay + 1..SecsPerDay - 1

Trans(time, index) == [time |-> time, index |-> index]

\* The transitions of the file, with one in the first half of the time line.
FileTransitions(raw) ==
  LET file == [i \in 1..Len(raw.times) |-> Trans(raw.times[i], raw.index[i])] IN
  IF file = <<>> \/ file[1].time >= 0 THEN <<Trans(BigBang, DefaultType(raw))>> \o file ELSE file

\* The two transitions of the rule in year y, in order.
RulePair(rule, std_ti, dst_ti, y) ==
  LET dst == Trans(YearStart(y) + rule.start[y % Cycle] - rule.std.off, dst_ti)
      std == Trans(YearStart(y) + rule.end[y % Cycle] - rule.dst.off, std_ti)
  IN  IF dst.time < std.time THEN <<dst, std>> ELSE <<std, dst>>

\* What of a year's two transitions is appended: what comes after last_time.
After(pair, last_time) ==
  IF last_time >= pair[2].time THEN <<>>
  ELSE IF last_time < pair[1].time THEN pair ELSE <<pair[2]>>

\* The loop of ExtendTransitions, a pass for every year from first to limit.
ExtendYears(rule, std_ti, dst_ti, trans, first, limit) ==
  LET last_time == trans[Len(trans)].time
      upto[k \in 0..limit - first + 1] ==
        IF k = 0 THEN trans
        ELSE upto[k - 1] \o After(RulePair(rule, std_ti, dst_ti, first + k - 1), last_time)
  IN  upto[limit - first + 1]

\* The table so far, extended; last_year is the last year with transitions of its own.
ExtendTransitions(rule, types0, trans) ==
  LET std == GetTransitionType(types0, rule.std)
      dst == GetTransitionType(std.types, rule.dst)
      last == trans[Len(trans)]
      same(get) == [ok |-> get.ok /\ EquivTransitions(get.types, last.index, get.index),
                    types |-> get.types, trans |-> trans, extended |-> FALSE, last_year |-> 0]
      year == Year(last.time + types0[last.index + 1].off)
      limit == year + Cycle + 1
  IN  CASE rule.kind = "none" ->
             [ok |-> TRUE, types |-> types0, trans |-> trans, extended |-> FALSE, last_year |-> 0]
        [] rule.kind = "bad" -> Failed
        [] rule.kind = "rule" /\ ~std.ok -> Failed
        [] rule.kind = "rule" /\ std.ok /\ rule.dst = NoDst -> same(std)
        [] rule.kind = "rule" /\ std.ok /\ rule.dst # NoDst /\ ~dst.ok -> Failed
        [] rule.kind = "rule" /\ std.ok /\ rule.dst # NoDst /\ dst.ok /\ rule.allyear -> same(dst)
        [] OTHER ->
             [ok |-> TRUE, types |-> dst.types, extended |-> TRUE, last_year |-> limit,
              trans |-> ExtendYears(rule, std.index, dst.index, trans, year, limit)]

\* The local time of each transition, and the second before it under the type until then.
WithCivil(trans, types, default) ==
  [i \in 1..Len(trans) |->
     LET prev == IF i = 1 THEN default ELSE trans[i - 1].index IN
     [time |-> trans[i].time, index |-> trans[i].index,
      civil_sec |-> trans[i].time + types[trans[i].index + 1].off,
      prev_civil_sec |-> trans[i].time + types[prev + 1].off - 1]]

CivilOrder(trans) == \A i \in 2..Len(trans) : trans[i - 1].civil_sec < trans[i].civil_sec

LoadFile(raw) ==
  LET default == DefaultType(raw)
      e == ExtendTransitions(raw.rule, raw.types, FileTransitions(raw))
      last == e.trans[Len(e.trans)]
      whole == IF last.time < 0 THEN Append(e.trans, Trans(LateTime, last.index)) ELSE e.trans
      table == WithCivil(whole, e.types, default)
  IN  IF DataOK(raw) /\ e.ok /\ CivilOrder(table)
      THEN [ok |-> TRUE, trans |-> table, types |-> e.types, default |-> default,
            extended |-> e.extended, last_year |-> e.last_year]
      ELSE Failed

ResetToBuiltinUTC(offset) ==
  LET types == <<Type(offset, FALSE, "fixed")>>
      times == <<BigBang>> \o Contemporary
  IN  [ok |-> TRUE, types |-> types, default |-> 0, extended |-> FALSE, last_year |-> 0,
       trans |-> WithCivil([i \in 1..Len(times) |-> Trans(times[i], 0)], types, 0)]

\* What Load(name) leaves; a zone that cannot be loaded is UTC, and not ok.
Load(src) ==
  IF "fixed" \in DOMAIN src THEN ResetToBuiltinUTC(src.fixed)
  ELSE LET file == LoadFile(src) IN
       IF file.ok THEN file ELSE [ResetToBuiltinUTC(0) EXCEPT !.ok = FALSE]

\* What exact answers need besides: no offset is larger than a day or a year, the table ends two
\* days before the last representable time, its last cycle is after 1970, a transition at the big
\* bang changes nothing, and the clock is past each change before the next one comes, so that no
\* civil second happens three times.
Regular(table) ==
  LET n == Len(table.trans) IN
  /\ \A i \in 1..Len(table.types) : table.types[i].off \in -SecsPerDay..SecsPerDay
  /\ table.trans[n].time + 2 * SecsPerDay <= MaxTime
  /\ table.extended => CycleSecs <= table.trans[n].time
  /\ table.trans[1].time = BigBang =>
       table.types[table.trans[1].index + 1] = table.types[table.default + 1]
  /\ \A i \in 1..n - 1 :
       /\ table.trans[i].prev_civil_sec <= table.trans[i + 1].prev_civil_sec
       /\ table.trans[i].prev_civil_sec < table.trans[i + 1].civil_sec
ASSUME TablesAssumption ==
  /\ \A k \in 0..Cycle - 1 : SecsPerDay <= YearSecs[k]
  /\ \A src \in Sources : Regular(Load(src))

--------------------------------------------------------------------------------
(* Conversions *)

N == Len(zone.trans)
TypeOf(i) == zone.types[i + 1]
TimeAt(i) == zone.trans[i].time
CivilAt(i) == zone.trans[i].civil_sec

Broken(cs, tt) == [cs |-> cs, off |-> tt.off, dst |-> tt.dst, abbr |-> tt.abbr]
LocalTimeOfType(t, tt) == Broken(t + tt.off, tt)
LocalTime(t, tr) == Broken(tr.civil_sec + (t - tr.time), TypeOf(tr.index))

\* upper_bound: the number of transitions up to t, and so the 0-based place of the next one.
\* The transitions are sorted by both keys, "time" and "civil_sec".
UpperBound(key, t) == CHOOSE n \in 0..N : /\ \A i \in 1..n : zone.trans[i][key] <= t
                                          /\ n < N => t < zone.trans[n + 1][key]
\* Is the place that the hint names the one upper_bound would find?
HintHits(key, hint, t) ==
  0 < hint /\ hint < N /\ zone.trans[hint][key] <= t /\ t < zone.trans[hint + 1][key]

\* Past the table of an extended zone a time goes back whole cycles, and the answer forward.
BreakShift(t) ==
  IF t >= TimeAt(N) /\ zone.extended THEN (t - TimeAt(N)) \div CycleSecs + 1 ELSE 0
BreakSearches(t) == LET u == t - BreakShift(t) * CycleSecs IN TimeAt(1) <= u /\ u < TimeAt(N)
BreakAnswer(t, place) ==
  LET shift == BreakShift(t)
      u == t - shift * CycleSecs
      al == CASE u < TimeAt(1) -> LocalTimeOfType(u, TypeOf(zone.default))
              [] u >= TimeAt(N) -> LocalTime(u, zone.trans[N])
              [] OTHER -> LocalTime(u, zone.trans[place])
  IN  [al EXCEPT !.cs = YearShift(@, shift)]

Lookup(kind, pre, trans, post) == [kind |-> kind, pre |-> pre, trans |-> trans, post |-> post]
MakeUnique(t) == Lookup("unique", t, t, t)
\* Mutant: prev_civil_sec is taken for the local time at the transition.
MutMakeSkipped(tr, cs) ==
  Lookup("skipped", tr.time + (cs - tr.prev_civil_sec), tr.time, tr.time - (tr.civil_sec - cs))

MakeSkipped(tr, cs) ==
  Lookup("skipped", tr.time - 1 + (cs - tr.prev_civil_sec), tr.time, tr.time - (tr.civil_sec - cs))
MakeRepeated(tr, cs) ==
  Lookup("repeated", tr.time - 1 - (tr.prev_civil_sec - cs), tr.time, tr.time + (cs - tr.civil_sec))

\* MakeTime once the place, the number of transitions with civil_sec <= cs, is known.
MakePlaced(cs, place) ==
  LET here == zone.trans[place]
      next == zone.trans[place + 1]
  IN  CASE place = 0 /\ next.prev_civil_sec >= cs ->
             MakeUnique(IF cs < MinTime + TypeOf(zone.default).off THEN MinTime
                        ELSE cs - TypeOf(zone.default).off)
        [] place < N /\ next.prev_civil_sec < cs -> MakeSkipped(next, cs)
        [] place > 0 /\ ~(place < N /\ next.prev_civil_sec < cs) /\ cs <= here.prev_civil_sec ->
             MakeRepeated(here, cs)
        [] place = N /\ cs > here.prev_civil_sec /\ cs > MaxTime + TypeOf(here.index).off ->
             MakeUnique(MaxTime)
        [] OTHER -> MakeUnique(here.time + (cs - here.civil_sec))

\* A year past the last one of the table goes back whole cycles; TimeLocal moves the answer
\* forward, up to the largest time.
MakeShift(cs) ==
  IF /\ zone.extended /\ cs >= CivilAt(N) /\ cs > zone.trans[N].prev_civil_sec
     /\ Year(cs) > zone.last_year
  THEN (Year(cs) - zone.last_year - 1) \div Cycle + 1 ELSE 0
TimeLocal(cl, shift) ==
  LET forward(t) ==
        IF shift > MaxTime \div CycleSecs \/ t > MaxTime - shift * CycleSecs THEN MaxTime
        ELSE t + shift * CycleSecs
  IN  Lookup(cl.kind, forward(cl.pre), forward(cl.trans), forward(cl.post))
MakeSearches(cs) ==
  LET c == YearShift(cs, -MakeShift(cs)) IN CivilAt(1) <= c /\ c < CivilAt(N)
MakeAnswer(cs, place) ==
  LET shift == MakeShift(cs)
      c == YearShift(cs, -shift)
      known == CASE c < CivilAt(1) -> 0
                 [] c >= CivilAt(N) -> N
                 [] OTHER -> place
  IN  IF shift = 0 THEN MakePlaced(c, known) ELSE TimeLocal(MakePlaced(c, known), shift)

\* Mutant: always the offset before the change.
MutConvertTime(cl) == cl.pre

\* convert(civil_second, time_zone)
convert(cl) == IF cl.kind = "skipped" THEN cl.trans ELSE cl.pre

\* The transitions that are reported: no sentinel, and none that changes nothing.
FirstReal == IF TimeAt(1) <= BigBang THEN 2 ELSE 1
Reported(i) ==
  LET prev == IF i = FirstReal THEN zone.default ELSE zone.trans[i - 1].index IN
  ~EquivTransitions(zone.types, prev, zone.trans[i].index)
NoTransition == [found |-> FALSE]
TransitionAt(i) ==
  [found |-> TRUE, from |-> zone.trans[i].prev_civil_sec + 1, to |-> CivilAt(i)]
NextTransition(t) ==
  LET after == {i \in FirstReal..N : TimeAt(i) > t /\ Reported(i)} IN
  IF after = {} THEN NoTransition ELSE TransitionAt(CHOOSE i \in after : \A j \in after : i <= j)
PrevTransition(t) ==
  LET before == {i \in FirstReal..N : TimeAt(i) < t /\ Reported(i)} IN
  IF before = {} THEN NoTransition ELSE TransitionAt(CHOOSE i \in before : \A j \in before : j <= i)

--------------------------------------------------------------------------------
(* The threads.  Bound: each makes one call, and finds the hints the others' calls left. *)

Idle == [at |-> "idle"]
Done(op, time, answer) == [at |-> "done", op |-> op, time |-> time, answer |-> answer]
Searching(op, time) == [at |-> "searching", op |-> op, time |-> time]

Init ==
  /\ source \in Sources
  /\ zone = Load(source)
  /\ local_time_hint = 0
  /\ time_local_hint = 0
  /\ thread = [th \in Threads |-> Idle]

Goes(th, state) == thread' = [thread EXCEPT ![th] = state] /\ UNCHANGED <<source, zone>>
Hints == <<local_time_hint, time_local_hint>>

\* Bound: a thread that writes is alone.
Free(th) == thread[th] = Idle /\ \A o \in Threads : thread[o].at \notin {"written", "readback"}
Alone == \A o \in Threads : thread[o] = Idle

\* BreakTime up to the look at the hint.
AskBreak(th, t) ==
  LET u == t - BreakShift(t) * CycleSecs IN
  /\ Free(th)
  /\ IF BreakSearches(t) /\ ~HintHits("time", local_time_hint, u)
     THEN Goes(th, Searching("break", t))
     ELSE Goes(th, Done("break", t, BreakAnswer(t, local_time_hint)))
  /\ UNCHANGED Hints

\* The search, the store of the hint, and the answer.
SearchBreak(th) ==
  LET t == thread[th].time
      place == UpperBound("time", t - BreakShift(t) * CycleSecs)
  IN  /\ thread[th].at = "searching" /\ thread[th].op = "break"
      /\ local_time_hint' = place
      /\ Goes(th, Done("break", t, BreakAnswer(t, place)))
      /\ UNCHANGED time_local_hint

AskMake(th, cs) ==
  LET c == YearShift(cs, -MakeShift(cs)) IN
  /\ Free(th)
  /\ IF MakeSearches(cs) /\ ~HintHits("civil_sec", time_local_hint, c)
     THEN Goes(th, Searching("make", cs))
     ELSE Goes(th, Done("make", cs, MakeAnswer(cs, time_local_hint)))
  /\ UNCHANGED Hints

SearchMake(th) ==
  LET cs == thread[th].time
      place == UpperBound("civil_sec", YearShift(cs, -MakeShift(cs)))
  IN  /\ thread[th].at = "searching" /\ thread[th].op = "make"
      /\ time_local_hint' = place
      /\ Goes(th, Done("make", cs, MakeAnswer(cs, place)))
      /\ UNCHANGED local_time_hint

AskTransitions(th, t) ==
  /\ Free(th)
  /\ \/ Goes(th, Done("next", t, NextTransition(t)))
     \/ Goes(th, Done("prev", t, PrevTransition(t)))
  /\ UNCHANGED Hints

--------------------------------------------------------------------------------
(***************************************************************************)
(* A POSIXct written to a TIMESTAMP column and read back.  It is counted   *)
(* in ticks; the column holds whole seconds and, of the fraction, as many  *)
(* units of 1/factor seconds as the parameter's scale has.                 *)
(***************************************************************************)

\* modf() and the cast to int32_t round towards zero.
TowardsZero(a, d) == IF a >= 0 THEN a \div d ELSE -((-a) \div d)

\* Mutant: the fraction is rounded to the scale, and may become a whole second.
MutAsTimestamp(v, factor) ==
  LET sec == TowardsZero(v, Ticks) IN
  [sec |-> sec, fract |-> TowardsZero((v - Ticks * sec) * factor + Ticks \div 2, Ticks)]

\* The whole seconds, and the fraction, of the same sign, cut to the scale.
as_timestamp(v, factor) ==
  LET sec == TowardsZero(v, Ticks) IN
  [sec |-> sec, fract |-> TowardsZero((v - Ticks * sec) * factor, Ticks)]

\* from_time_t(), to the seconds that lookup() uses: system_clock counts nanoseconds, and a time
\* that is too far from 1970 overflows, which wraps.
InClock(sec) == -(ClockWidth \div 2) <= sec * Nano /\ sec * Nano < ClockWidth \div 2
from_time_t(sec) ==
  (((sec * Nano + ClockWidth \div 2) % ClockWidth) - ClockWidth \div 2) \div Nano

\* tz.lookup() of the whole seconds; the column holds the civil time and the fraction.
Write(th, v, factor) ==
  LET x == as_timestamp(v, factor)
      t == from_time_t(x.sec)
      place == IF BreakSearches(t) THEN UpperBound("time", t - BreakShift(t) * CycleSecs)
               ELSE local_time_hint
  IN  /\ Alone
      /\ local_time_hint' = place
      /\ Goes(th, [at |-> "written", time |-> v, factor |-> factor,
                   cs |-> BreakAnswer(t, place).cs, fract |-> x.fract])
      /\ UNCHANGED time_local_hint

\* as_double(): the driver has taken the value, which it does not with a fraction below zero.
ReadBack(th) ==
  LET w == thread[th]
      place == IF MakeSearches(w.cs)
               THEN UpperBound("civil_sec", YearShift(w.cs, -MakeShift(w.cs)))
               ELSE time_local_hint
  IN  /\ w.at = "written" /\ w.fract >= 0
      /\ time_local_hint' = place
      /\ Goes(th, [at |-> "readback", time |-> w.time, factor |-> w.factor,
                   answer |-> w.factor * convert(MakeAnswer(w.cs, place)) + w.fract])
      /\ UNCHANGED local_time_hint

Next ==
  \E th \in Threads :
    \/ \E t \in Asks[th] : AskBreak(th, t) \/ AskMake(th, t) \/ AskTransitions(th, t)
    \/ SearchBreak(th) \/ SearchMake(th)
    \/ \E t \in Asks[th], part \in 0..Ticks - 1, factor \in Factors :
         Write(th, Ticks * t + part, factor)
    \/ ReadBack(th)

Spec == Init /\ [][Next]_vars
--------------------------------------------------------------------------------
(***************************************************************************)
(* What the data says, read off the source for any time whatever: the last *)
(* transition of the file, or, after the file's last one, of the rule.     *)
(***************************************************************************)
LastOfFile == IF source.times = <<>> THEN BigBang ELSE source.times[Len(source.times)]
RuleTimes(t) ==
  IF ~Dated(source.rule) THEN {}
  ELSE UNION { { [time |-> YearStart(y) + source.rule.start[y % Cycle] - source.rule.std.off,
                  type |-> source.rule.dst],
                 [time |-> YearStart(y) + source.rule.end[y % Cycle] - source.rule.dst.off,
                  type |-> source.rule.std] } : y \in Year(t) - 2..Year(t) + 2 }

TypeAt(t) ==
  LET ruled == {tr \in RuleTimes(t) : LastOfFile < tr.time /\ tr.time <= t}
      filed == {i \in 1..Len(source.times) : source.times[i] <= t}
  IN  CASE "fixed" \in DOMAIN source -> Type(source.fixed, FALSE, "fixed")
        [] "fixed" \notin DOMAIN source /\ ~zone.ok -> Type(0, FALSE, "fixed")
        [] "fixed" \notin DOMAIN source /\ zone.ok /\ ruled # {} ->
             (CHOOSE tr \in ruled : \A u \in ruled : u.time <= tr.time).type
        [] "fixed" \notin DOMAIN source /\ zone.ok /\ ruled = {} /\ filed # {} ->
             source.types[source.index[CHOOSE i \in filed : \A j \in filed : j <= i] + 1]
        [] OTHER -> source.types[DefaultType(source) + 1]

\* The absolute times that show cs on the clock, and the change over which cs is skipped.
TimesShowing(cs) == {t \in cs - SecsPerDay..cs + SecsPerDay : t + TypeAt(t).off = cs}
Skips(t, cs) == t - 1 + TypeAt(t - 1).off < cs /\ cs < t + TypeAt(t).off
Capped(t) == IF t > MaxTime THEN MaxTime ELSE IF t < MinTime THEN MinTime ELSE t
Earliest(S) == CHOOSE t \in S : \A u \in S : t <= u
Latest(S) == CHOOSE t \in S : \A u \in S : u <= t

Answered(th, op) == thread[th].at = "done" /\ thread[th].op = op

--------------------------------------------------------------------------------
(* What the conversions promise *)

\* The kinds of the variables; a table has a place for every hint.
TypeOK ==
  /\ source \in Sources
  /\ zone.ok \in BOOLEAN
  /\ {local_time_hint, time_local_hint} \subseteq 0..N - 1
  /\ \A th \in Threads : thread[th].at \in {"idle", "searching", "done", "written", "readback"}

\* BreakTime gives the local time, offset and abbreviation that the file and its rule say for
\* that instant, in any year, whichever thread has left which hint (BreakTime, LocalTime,
\* ExtendTransitions, the 400-year shift).
BreakExact ==
  \A th \in Threads : Answered(th, "break") =>
    LET t == thread[th].time IN thread[th].answer = LocalTimeOfType(t, TypeAt(t))

\* MakeTime says of every civil second whether it happens once, never or twice, and when
\* (MakeUnique, MakeSkipped, MakeRepeated, TimeLocal): pre and post are the times under the
\* offset before and after the change at trans.
MakeExact ==
  \A th \in Threads : Answered(th, "make") =>
    LET cs == thread[th].time
        cl == thread[th].answer
        shown == TimesShowing(cs)
    IN  CASE cl.kind = "unique" -> shown # {} /\ Earliest(shown) = Latest(shown)
               /\ {cl.pre, cl.trans, cl.post} = {Capped(Earliest(shown))}
          [] cl.kind = "repeated" -> shown # {} /\ Earliest(shown) < Latest(shown)
               /\ cl.pre = Capped(Earliest(shown)) /\ cl.post = Capped(Latest(shown))
               /\ cl.pre <= cl.trans /\ cl.trans <= cl.post
          [] cl.kind = "skipped" -> shown = {}
               /\ \E t \in cs - SecsPerDay..cs + SecsPerDay :
                    /\ Skips(t, cs)
                    /\ cl.trans = Capped(t)
                    /\ cl.pre = Capped(cs - TypeAt(t - 1).off)
                    /\ cl.post = Capped(cs - TypeAt(t).off)

\* "if cs1 < cs2, then convert(cs1, tz) <= convert(cs2, tz)", between any two threads.
ConvertInOrder ==
  \A th, other \in Threads :
    Answered(th, "make") /\ Answered(other, "make") /\ thread[th].time < thread[other].time
      => convert(thread[th].answer) <= convert(thread[other].answer)

\* A POSIXct that is written to a TIMESTAMP column and read back through the connection's zone
\* is the same instant, cut towards zero to the units of the parameter's scale, on either side
\* of 1970 (as_timestamp, as_double).  Where the clock shows its civil time twice it is the
\* earlier of the two.  Not so for an instant that system_clock cannot count, before 1677 or
\* after 2262; and one before 1970 with a fraction that the scale does not cut off is refused.
WrittenReadsBack ==
  \A th \in Threads : thread[th].at = "readback" =>
    LET factor == thread[th].factor
        units == TowardsZero(thread[th].time * factor, Ticks)
        t == units \div factor
    IN  InClock(t) => thread[th].answer =
          factor * Earliest(TimesShowing(t + TypeAt(t).off)) + (units % factor)

\* NextTransition and PrevTransition report a real change of offset, daylight flag or
\* abbreviation and miss none between it and the time asked about.
TransitionsReal ==
  \A th \in Threads : Answered(th, "next") \/ Answered(th, "prev") =>
    LET t == thread[th].time
        a == thread[th].answer
        span == IF thread[th].op = "next" THEN t + 1..TimeAt(N) ELSE (BigBang + 1..t - 1) \cap (BigBang + 1..TimeAt(N))
        changes == {u \in span : TypeAt(u) # TypeAt(u - 1)}
        u == IF thread[th].op = "next" THEN Earliest(changes) ELSE Latest(changes)
    IN  IF changes = {} THEN ~a.found
        ELSE a = [found |-> TRUE, from |-> u + TypeAt(u - 1).off, to |-> u + TypeAt(u).off]

\* Every question a zone is asked, in either direction and in any order, is answered as its
\* file and its rule say, whatever hints earlier questions have left.
LookupsExact == TypeOK /\ BreakExact /\ MakeExact /\ TransitionsReal
===============================================================================
