------------------------------ MODULE MCCivilTime ------------------------------
(* Dates around the ends of months, leap years, centuries and 400-year cycles. *)
EXTENDS PosixSpec

MCStarts ==
  { fields(1970, 1, 1, 0, 0, 0), fields(1969, 12, 31, 23, 59, 59), fields(2000, 2, 29, 12, 30, 1),
    fields(1999, 3, 1, 0, 0, 59), fields(2001, 1, 1, 23, 0, 0), fields(2024, 12, 31, 0, 59, 0) }

\* Seconds stay within 68 years of 1970 and minutes within 4000: TLC's integers have 32 bits.
MCOffsets ==
  [ second |-> {0, 1, 59, 86399, 100000000, -31622400},
    minute |-> {1, 1439, -1441, 50000000},
    hour |-> {1, 23, -25, 8784, 3506328, -8766000},
    day |-> {1, 28, 29, 31, 59, 364, 365, 366, 1461, 36524, 36525, 146096, 146097, 292195, -719528},
    month |-> {1, 11, 12, 13, -26, 4800},
    year |-> {1, 3, 4, 100, -400} ]

MCRaw ==
  { <<2001, m, d, h, n, 60>> : m \in {0, 2, 13}, d \in {0, 1, 30}, h \in {-1, 24}, n \in {0, 60} }
    \cup { <<1972, 12, 31, 23, 59, 3600>>, <<1972, -11, 29, 0, -1440, -1>>, <<2001, 15, -366, 0, 0, 59>>,
           <<1972, 2, 146098, -24, 0, 0>>, <<1900, 3, 0, 0, 0, 0>>, <<2100, 14, 29, 48, -60, 5>>,
           <<2000, 12, -30, 5, 59, 59>>, <<1996, 24, 366, 25, 61, 61>> }

Number(n) == [c |-> "int", n |-> n]
Name(n) == [c |-> "name", n |-> n]
Char(c) == [c |-> c, n |-> 1]
Month(m, w, d) == <<Char(","), Char("M"), Number(m), Char("."), Number(w), Char("."), Number(d)>>

\* EST5EDT,M3.2.0,M11.1.0   <+03>-3   CST6EDT5:30,J60,M10.5.6/-1   EST5EDT,0/0,J365/25
\* WWW+0:0:30<>,365,J1/26:0:1   WWW0<>0/0/0   AAA5:0:0:BBB,J1,J2
MCWritten ==
  { <<Name(3), Number(5), Name(3)>> \o Month(3, 2, 0) \o Month(11, 1, 0),
    <<Char("<"), Char("+"), Number(3), Char(">"), Char("-"), Number(3)>>,
    <<Name(3), Number(6), Name(4), Number(5), Char(":"), Number(30), Char(","), Char("J"), Number(60)>>
      \o Month(10, 5, 6) \o <<Char("/"), Char("-"), Number(1)>>,
    <<Name(3), Number(5), Name(3), Char(","), Number(0), Char("/"), Number(0), Char(","), Char("J"),
      Number(365), Char("/"), Number(25)>>,
    <<Name(3), Char("+"), Number(0), Char(":"), Number(0), Char(":"), Number(30), Char("<"), Char(">"),
      Char(","), Number(365), Char(","), Char("J"), Number(1), Char("/"), Number(26), Char(":"),
      Number(0), Char(":"), Number(1)>>,
    <<Name(3), Number(0), Char("<"), Char(">"), Number(0), Char("/"), Number(0), Char("/"), Number(0)>>,
    <<Name(3), Number(5), Char(":"), Number(0), Char(":"), Number(0), Char(":"), Name(3), Char(","),
      Char("J"), Number(1), Char(","), Char("J"), Number(2)>> }

\* Every one of them, cut short, with a token left out, or with one changed.
MCTokens == {Number(0), Number(24), Number(366), Name(2), Char(","), Char(":"), Char(".")}
MCTexts ==
  MCWritten \cup
  UNION {{SubSeq(t, 1, i - 1) \o SubSeq(t, i + 1, Len(t)), SubSeq(t, 1, i)}
           \cup {[t EXCEPT ![i] = k] : k \in MCTokens} : <<t, i>> \in {x \in MCWritten \X (1..20) : x[2] <= Len(x[1])}}
===============================================================================
