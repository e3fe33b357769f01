----------------------------- MODULE MCTimeZoneInfo -----------------------------
(* A calendar of two years, zones with and without a rule, and files that Load refuses. *)
EXTENDS TimeZoneInfo, TLC

CONSTANTS caller, other

MCThreads == {caller, other}
MCYearSecs == (0 :> 12) @@ (1 :> 13)
MCAsks == (caller :> (-70..-58) \cup (-12..56) \cup (104..110)) @@ (other :> {-62, -4, 3, 6, 40, 80})
MCBigBang == -60
MCFactors == {1, 2}
MCMinTime == -70
MCContemporary == <<2, 14>>

Std == Type(1, FALSE, "S")
Dst == Type(2, TRUE, "D")
Lmt == Type(0, FALSE, "L")
Far == Type(-2, FALSE, "F")

File(times, index, types, rule) ==
  [readable |-> TRUE, times |-> times, index |-> index, types |-> types, rule |-> rule]

Rule(dst, start, end) ==
  [kind |-> "rule", std |-> Std, dst |-> dst, allyear |-> FALSE, start |-> start, end |-> end]
Northern == Rule(Dst, (0 :> 4) @@ (1 :> 5), (0 :> 9) @@ (1 :> 9))
Southern == Rule(Dst, (0 :> 9) @@ (1 :> 8), (0 :> 3) @@ (1 :> 4))
StdOnly == Rule(NoDst, (0 :> 0) @@ (1 :> 0), (0 :> 0) @@ (1 :> 0))
DstOnly == [Northern EXCEPT !.allyear = TRUE]

MCSources ==
  { [fixed |-> 0], [fixed |-> -3],
    File(<<>>, <<>>, <<Std>>, NoRule),
    File(<<>>, <<>>, <<Std>>, StdOnly),
    File(<<-9, 2>>, <<1, 2>>, <<Lmt, Std, Dst>>, Northern),
    File(<<-9, 2, 7>>, <<1, 2, 1>>, <<Lmt, Std, Dst>>, Southern),
    File(<<3>>, <<1>>, <<Lmt, Far>>, NoRule),
    File(<<-6>>, <<1>>, <<Far, Dst>>, NoRule),
    File(<<MCBigBang, -5, 1, 6, 6 + 5>>, <<0, 1, 2, 3, 0>>, <<Std, Dst, Std, Lmt>>, NoRule),
    File(<<-5, 1>>, <<0, 1>>, <<Dst, Std>>, DstOnly),
    File(<<-5, 8>>, <<1, 0>>, <<Dst, Std>>, DstOnly),
    File(<<4, 8>>, <<2, 1>>, <<Dst, Dst, Std>>, BadRule),
    File(<<4, 4>>, <<0, 1>>, <<Lmt, Std>>, NoRule),
    File(<<2, 4>>, <<1, 2>>, <<Lmt, Dst, Far>>, NoRule),
    File(<<2>>, <<0>>, <<Type(4, FALSE, "X")>>, NoRule),
    File(<<2>>, <<3>>, <<Lmt, Std, Dst>>, NoRule),
    [File(<<2>>, <<0>>, <<Lmt, Std, Dst>>, Northern) EXCEPT !.readable = FALSE] }
===============================================================================
