---------------------------- MODULE CalendarProofs ----------------------------
(***************************************************************************)
(* Theorems about CivilTime and PosixSpec for every date, year and number: *)
(* the calendar's arithmetic is counting, however far it goes, a rule      *)
(* means the dates it says, and its text is read as the grammar says.      *)
(*                                                                         *)
(* The loops of n_day are recursive functions.  That they are well defined *)
(* (LoopExists) and what they preserve (LoopEnds) is induction on what is  *)
(* left to count, which the well-founded order of the naturals gives; each *)
(* loop then keeps the sum of the first of its month and the days to go.   *)
(*                                                                         *)
(* Of the rules' texts: each form of the grammar is stated by positions,   *)
(* and each function of the parser reads exactly the pieces of its form.   *)
(***************************************************************************)
EXTENDS PosixSpec, SequenceTheorems, WellFoundedInduction, TLAPS

------------------------------------------------------------------------------
(* Loops: recursive functions that count down *)

\* The order of the natural numbers is well founded.
LEMMA OrderOfNat ==
  \E R : IsWellFoundedOn(R, Nat) /\ \A a, b \in Nat : <<a, b>> \in R <=> a < b
<1>1. IsWellFoundedOn(OpToRel(<, Nat), Nat)
  BY NatLessThanWellFounded
<1>2. \A a, b \in Nat : <<a, b>> \in OpToRel(<, Nat) <=> a < b
  BY DEF OpToRel
<1> QED
  BY <1>1, <1>2

\* Induction, as a statement about sets.
LEMMA Induct == \A S : 0 \in S /\ (\A n \in Nat : n \in S => n + 1 \in S) => Nat \subseteq S
<1> SUFFICES ASSUME NEW S, 0 \in S, \A n \in Nat : n \in S => n + 1 \in S, ~(Nat \subseteq S)
             PROVE  FALSE
  OBVIOUS
<1> DEFINE T == Nat \ S
<1>1. PICK R : IsWellFoundedOn(R, Nat) /\ \A a, b \in Nat : <<a, b>> \in R <=> a < b
  BY OrderOfNat
<1>2. PICK x \in T : \A y \in T : ~(<<y, x>> \in R)
  <2>1. IsWellFoundedOn(R, Nat) /\ T \subseteq Nat /\ T # {}
    BY <1>1
  <2> QED
    BY <2>1, WFMin, Zenon
<1>3. x \in Nat /\ x \notin S /\ x # 0 /\ x - 1 \in Nat
  BY <1>2
<1>4. x - 1 \in T
  BY <1>3
<1>5. <<x - 1, x>> \in R <=> x - 1 < x
  BY <1>1, <1>3
<1>6. x - 1 \notin T
  BY <1>2, <1>3, <1>5
<1> QED
  BY <1>4, <1>6

\* A loop over A that stops in Done, and goes on from a at next[a] otherwise; what is left
\* to do falls with every round.
Loop(F, A, Done, next) == F = [a \in A |-> IF a \in Done THEN a ELSE F[next[a]]]

\* What is left to do falls with every round, and is positive before each.
Falls(A, Done, next, left) ==
  /\ next \in [A -> A] /\ left \in [A -> Int]
  /\ \A a \in A \ Done : left[next[a]] < left[a] /\ 0 < left[a]

\* The loop as far as n.
Upto(h, A, Done, next, left, n) ==
  /\ DOMAIN h = {a \in A : left[a] <= n}
  /\ \A a \in DOMAIN h : h[a] = IF a \in Done THEN a ELSE h[next[a]]

\* Two loops that are defined so far agree as far as both go.
LEMMA UptoUnique ==
  ASSUME NEW A, NEW Done, NEW next, NEW left, Falls(A, Done, next, left)
  PROVE  \A n \in Nat, k \in Nat : \A h, g : Upto(h, A, Done, next, left, n) /\ Upto(g, A, Done, next, left, k) =>
           \A a \in A : left[a] <= n /\ left[a] <= k => h[a] = g[a]
<1> SUFFICES ASSUME NEW n \in Nat, NEW k \in Nat, NEW h, NEW g,
                    Upto(h, A, Done, next, left, n), Upto(g, A, Done, next, left, k)
             PROVE  \A a \in A : left[a] <= n /\ left[a] <= k => h[a] = g[a]
  OBVIOUS
<1> DEFINE Same(a) == left[a] <= n /\ left[a] <= k => h[a] = g[a]
           M == {j \in Nat : \A a \in A : left[a] <= j => Same(a)}
<1>1. \A a \in A : left[a] \in Int /\ next[a] \in A /\ (a \notin Done => left[next[a]] < left[a] /\ 0 < left[a])
  BY DEF Falls
<1>2. \A a \in A : left[a] <= n => h[a] = IF a \in Done THEN a ELSE h[next[a]]
  BY DEF Upto
<1>3. \A a \in A : left[a] <= k => g[a] = IF a \in Done THEN a ELSE g[next[a]]
  BY DEF Upto
<1>4. 0 \in M
  <2>1. ASSUME NEW a \in A, left[a] <= 0 PROVE a \in Done
    BY <1>1, <2>1
  <2> QED
    BY <1>2, <1>3, <2>1
<1>5. ASSUME NEW j \in Nat, j \in M PROVE j + 1 \in M
  <2>1. ASSUME NEW a \in A, left[a] <= j + 1, left[a] <= n, left[a] <= k PROVE h[a] = g[a]
    <3>1. CASE a \in Done
      BY <1>2, <1>3, <2>1, <3>1
    <3>2. CASE a \notin Done
      <4>1. next[a] \in A /\ left[next[a]] \in Int /\ left[a] \in Int /\ left[next[a]] < left[a]
        BY <1>1, <3>2
      <4>2. left[next[a]] <= j /\ left[next[a]] <= n /\ left[next[a]] <= k
        BY <2>1, <4>1
      <4>3. h[next[a]] = g[next[a]]
        BY <1>5, <4>1, <4>2
      <4> QED
        BY <1>2, <1>3, <2>1, <3>2, <4>3
    <3> QED
      BY <3>1, <3>2
  <2> QED
    BY <2>1
<1>6. Nat \subseteq M
  <2> HIDE DEF M
  <2> QED
    BY <1>4, <1>5, Induct
<1>7. ASSUME NEW a \in A, left[a] <= n, left[a] <= k PROVE h[a] = g[a]
  BY <1>6, <1>7
<1> QED
  BY <1>7

\* As far as any n the loop is defined.
LEMMA UptoExists ==
  ASSUME NEW A, NEW Done, NEW next, NEW left, Falls(A, Done, next, left)
  PROVE  \A n \in Nat : \E h : Upto(h, A, Done, next, left, n)
<1> DEFINE M == {n \in Nat : \E h : Upto(h, A, Done, next, left, n)}
<1>1. \A a \in A : left[a] \in Int /\ next[a] \in A /\ (a \notin Done => left[next[a]] < left[a] /\ 0 < left[a])
  BY DEF Falls
<1>2. 0 \in M
  <2> DEFINE h == [a \in {b \in A : left[b] <= 0} |-> a]
  <2>1. \A a \in A : left[a] <= 0 => a \in Done
    BY <1>1
  <2>2. Upto(h, A, Done, next, left, 0)
    BY <2>1 DEF Upto
  <2> QED
    BY <2>2
<1>3. ASSUME NEW n \in Nat, n \in M PROVE n + 1 \in M
  <2>1. PICK h : Upto(h, A, Done, next, left, n)
    BY <1>3
  <2> DEFINE D == {a \in A : left[a] <= n + 1}
             g == [a \in D |-> IF a \in Done THEN a ELSE h[next[a]]]
  <2>2. ASSUME NEW a \in D PROVE g[a] = IF a \in Done THEN a ELSE g[next[a]]
    <3>1. CASE a \in Done
      BY <3>1
    <3>2. CASE a \notin Done
      <4> DEFINE b == next[a]
      <4>1. b \in A /\ left[b] \in Int /\ left[a] \in Int /\ left[b] < left[a] /\ left[a] <= n + 1
        BY <1>1, <3>2
      <4>2. left[b] <= n /\ b \in D
        BY <4>1
      <4>3. h[b] = IF b \in Done THEN b ELSE h[next[b]]
        BY <2>1, <4>1, <4>2 DEF Upto
      <4>4. g[b] = h[b]
        BY <4>2, <4>3
      <4>5. g[a] = h[b]
        BY <3>2
      <4> QED
        BY <3>2, <4>4, <4>5
    <3> QED
      BY <3>1, <3>2
  <2>3. DOMAIN g = D
    OBVIOUS
  <2> HIDE DEF g
  <2>4. Upto(g, A, Done, next, left, n + 1)
    BY <2>2, <2>3 DEF Upto
  <2> QED
    BY <2>4
<1>4. Nat \subseteq M
  <2> HIDE DEF M
  <2> QED
    BY <1>2, <1>3, Induct
<1> QED
  BY <1>4

\* Such a loop is well defined.
LEMMA LoopExists ==
  ASSUME NEW A, NEW Done, NEW next, NEW left, Falls(A, Done, next, left)
  PROVE  \E F : Loop(F, A, Done, next)
<1> DEFINE n(a) == IF left[a] >= 0 THEN left[a] ELSE 0
           h(k) == CHOOSE e : Upto(e, A, Done, next, left, k)
           F == [a \in A |-> h(n(a))[a]]
<1>1. \A a \in A : left[a] \in Int /\ next[a] \in A /\ (a \notin Done => left[next[a]] < left[a] /\ 0 < left[a])
  BY DEF Falls
<1>2. \A k \in Nat : Upto(h(k), A, Done, next, left, k)
  BY UptoExists
<1> HIDE DEF h
<1>3. \A a \in A : n(a) \in Nat /\ left[a] <= n(a)
  BY <1>1
<1>4. ASSUME NEW a \in A PROVE F[a] = IF a \in Done THEN a ELSE F[next[a]]
  <2>1. n(a) \in Nat /\ left[a] <= n(a) /\ Upto(h(n(a)), A, Done, next, left, n(a))
    BY <1>2, <1>3
  <2>2. h(n(a))[a] = IF a \in Done THEN a ELSE h(n(a))[next[a]]
    BY <2>1 DEF Upto
  <2>3. CASE a \in Done
    BY <2>2, <2>3
  <2>4. CASE a \notin Done
    <3> DEFINE b == next[a]
    <3>1. b \in A /\ left[b] < left[a] /\ left[b] \in Int /\ left[a] \in Int
      BY <1>1, <2>4
    <3>2. n(b) \in Nat /\ left[b] <= n(b) /\ Upto(h(n(b)), A, Done, next, left, n(b))
      BY <1>2, <1>3, <3>1
    <3>3. left[b] <= n(a)
      BY <2>1, <3>1
    <3>4. h(n(b))[b] = h(n(a))[b]
      <4> DEFINE p == n(a)
                 q == n(b)
      <4>1. p \in Nat /\ q \in Nat /\ left[b] <= p /\ left[b] <= q
            /\ Upto(h(p), A, Done, next, left, p) /\ Upto(h(q), A, Done, next, left, q) /\ b \in A
        BY <2>1, <3>1, <3>2, <3>3
      <4> HIDE DEF p, q, n, b
      <4>2. h(q)[b] = h(p)[b]
        BY <4>1, UptoUnique
      <4> QED
        BY <4>2 DEF p, q
    <3>5. F[b] = h(n(b))[b] /\ F[a] = h(n(a))[a]
      BY <3>1
    <3> QED
      BY <2>2, <2>4, <3>4, <3>5
  <2> QED
    BY <2>3, <2>4
<1>5. DOMAIN F = A /\ F = [a \in A |-> F[a]]
  OBVIOUS
<1> HIDE DEF F
<1>6. Loop(F, A, Done, next)
  BY <1>4, <1>5 DEF Loop
<1> QED
  BY <1>6

\* What every round preserves, it leaves; and it ends in Done.
LEMMA LoopEnds ==
  ASSUME NEW A, NEW Done, NEW next, NEW left, Falls(A, Done, next, left),
         NEW F, Loop(F, A, Done, next),
         NEW P, P \subseteq A, \A a \in P \ Done : next[a] \in P
  PROVE  \A a \in P : F[a] \in P \cap Done
<1> DEFINE M == {n \in Nat : \A a \in P : left[a] <= n => F[a] \in P \cap Done}
<1>1. \A a \in P : left[a] \in Int /\ (a \notin Done => left[next[a]] < left[a] /\ 0 < left[a] /\ next[a] \in P /\ left[next[a]] \in Int)
  BY DEF Falls
<1>2. \A a \in P : F[a] = IF a \in Done THEN a ELSE F[next[a]]
  BY DEF Loop
<1>3. 0 \in M
  BY <1>1, <1>2
<1>4. ASSUME NEW n \in Nat, n \in M PROVE n + 1 \in M
  <2>1. ASSUME NEW a \in P, left[a] <= n + 1 PROVE F[a] \in P \cap Done
    <3>1. CASE a \in Done
      BY <1>2, <3>1
    <3>2. CASE a \notin Done
      <4>1. next[a] \in P /\ left[next[a]] <= n
        BY <1>1, <2>1, <3>2
      <4> QED
        BY <1>2, <1>4, <3>2, <4>1
    <3> QED
      BY <3>1, <3>2
  <2> QED
    BY <2>1
<1>5. Nat \subseteq M
  <2> HIDE DEF M
  <2> QED
    BY <1>3, <1>4, Induct
<1>6. ASSUME NEW a \in P PROVE F[a] \in P \cap Done
  <2>1. left[a] \in Int
    BY <1>1
  <2>2. PICK n \in Nat : left[a] <= n
    <3>1. CASE left[a] >= 0
      BY <2>1, <3>1
    <3>2. CASE left[a] < 0
      BY <2>1, <3>2
    <3> QED
      BY <2>1, <3>1, <3>2
  <2> QED
    BY <1>5, <2>2
<1> QED
  BY <1>6

------------------------------------------------------------------------------
(* Numbers of days *)

\* Quotient and remainder of C++ for a positive divisor.
LEMMA QuotRem ==
  ASSUME NEW a \in Int, NEW b \in Nat \ {0}
  PROVE  /\ Quot(a, b) \in Int /\ Rem(a, b) \in Int /\ a = b * Quot(a, b) + Rem(a, b)
         /\ (a >= 0 => Quot(a, b) = a \div b /\ Rem(a, b) \in 0..b - 1)
         /\ (a < 0 => Quot(a, b) = -((-a) \div b) /\ Rem(a, b) \in -(b - 1)..0)
<1>1. ASSUME NEW c \in Nat PROVE c \div b \in Int /\ c % b \in 0..b - 1 /\ c = b * (c \div b) + (c % b)
  BY <1>1
<1>2. CASE a >= 0
  <2> DEFINE q == a \div b
             r == a % b
  <2>1. q \in Int /\ r \in 0..b - 1 /\ a = b * q + r
    BY <1>1, <1>2
  <2>2. Quot(a, b) = q
    BY <1>2 DEF Quot
  <2>3. Rem(a, b) = a - b * q
    BY <2>2 DEF Rem
  <2> HIDE DEF q, r
  <2>4. b * q \in Int
    BY <2>1
  <2>5. a - b * q = r
    BY <2>1, <2>4
  <2> QED
    BY <1>2, <2>1, <2>2, <2>3, <2>5 DEF q
<1>3. CASE a < 0
  <2> DEFINE q == (-a) \div b
             r == (-a) % b
  <2>0. -a \in Nat
    BY <1>3
  <2>1. q \in Int /\ r \in 0..b - 1 /\ -a = b * q + r
    BY <1>1, <2>0
  <2>2. Quot(a, b) = -q
    BY <1>3 DEF Quot
  <2>3. Rem(a, b) = a - b * (-q)
    BY <2>2 DEF Rem
  <2> HIDE DEF q, r
  <2>4. b * q \in Int /\ b * (-q) = -(b * q)
    BY <2>1
  <2>5. Rem(a, b) = -r
    BY <2>1, <2>3, <2>4
  <2>6. a = b * (-q) + (-r)
    BY <2>1, <2>4
  <2> QED
    BY <1>3, <2>1, <2>2, <2>5, <2>6 DEF q
<1> QED
  BY <1>2, <1>3

\* The leap years up to year p.
Leaps(p) == (p \div 4) - (p \div 100) + (p \div 400)
\* The days of a common year before month m.
Before == <<0, 31, 59, 90, 120, 151, 181, 212, 243, 273, 304, 334>>

\* The count of leap years is an integer, for years below zero too.
LEMMA LeapsInt == \A p \in Int : Leaps(p) \in Int
BY DEF Leaps

\* A year is counted as a leap year if it is one.
LEMMA LeapsNext ==
  ASSUME NEW p \in Int
  PROVE  Leaps(p) = Leaps(p - 1) + (IF Leap(p) THEN 1 ELSE 0)
BY DEF Leaps, Leap

\* Every 400 years have 97 leap years.
LEMMA LeapsCycle ==
  ASSUME NEW p \in Int, NEW k \in Int
  PROVE  Leaps(p + 400 * k) = Leaps(p) + 97 * k
<1>1. (p + 400 * k) \div 4 = p \div 4 + 100 * k
  OBVIOUS
<1>2. (p + 400 * k) \div 100 = p \div 100 + 4 * k
  OBVIOUS
<1>3. (p + 400 * k) \div 400 = p \div 400 + k
  OBVIOUS
<1> QED
  BY <1>1, <1>2, <1>3 DEF Leaps

\* is_leap_year() says what the calendar says, before the year 0 too.
LEMMA LeapYear ==
  ASSUME NEW y \in Int
  PROVE  is_leap_year(y) <=> Leap(y)
<1>1. Rem(y, 4) = 0 <=> y % 4 = 0
  BY DEF Rem, Quot
<1>2. Rem(y, 100) = 0 <=> y % 100 = 0
  BY DEF Rem, Quot
<1>3. Rem(y, 400) = 0 <=> y % 400 = 0
  BY DEF Rem, Quot
<1> QED
  BY <1>1, <1>2, <1>3 DEF is_leap_year, Leap

\* The days before a month.
LEMMA DaysBefore ==
  ASSUME NEW y \in Int, NEW m \in 1..12
  PROVE  DaysBeforeMonth(y, m) = Before[m] + (IF m > 2 /\ Leap(y) THEN 1 ELSE 0)
<1> DEFINE body(h) == [k \in 1..12 |-> IF k = 1 THEN 0 ELSE h[k - 1] + MonthDays(y, k - 1)]
           g == [k \in 1..12 |-> Before[k] + (IF k > 2 /\ Leap(y) THEN 1 ELSE 0)]
           sum == CHOOSE h : h = body(h)
<1>1. \A k \in 2..12 : g[k] = g[k - 1] + MonthDays(y, k - 1)
  <2> SUFFICES ASSUME NEW k \in 2..12 PROVE g[k] = g[k - 1] + MonthDays(y, k - 1)
    OBVIOUS
  <2> k \in {2, 3, 4, 5, 6, 7, 8, 9, 10, 11, 12}
    OBVIOUS
  <2> QED
    BY DEF MonthDays, Before
<1>2. g[1] = 0
  BY DEF Before
<1>3. g = body(g)
  <2>1. ASSUME NEW k \in 1..12 PROVE g[k] = IF k = 1 THEN 0 ELSE g[k - 1] + MonthDays(y, k - 1)
    <3>1. k = 1 \/ k \in 2..12
      OBVIOUS
    <3> HIDE DEF g
    <3> QED
      BY <1>1, <1>2, <3>1
  <2> QED
    BY <2>1
<1>4. sum = body(sum)
  <2> HIDE DEF body, g
  <2> QED
    BY <1>3
<1>5. \A k \in 1..12 : sum[k] = IF k = 1 THEN 0 ELSE sum[k - 1] + MonthDays(y, k - 1)
  <2> HIDE DEF sum
  <2> QED
    BY <1>4
<1> HIDE DEF sum
<1>6. sum[1] = g[1]
  BY <1>2, <1>5
<1>7. \A k \in 2..12 : sum[k - 1] = g[k - 1] => sum[k] = g[k]
  <2> HIDE DEF g
  <2>1. \A k \in 2..12 : k \in 1..12 /\ k # 1
    OBVIOUS
  <2> QED
    BY <1>1, <1>5, <2>1
<1>8. \A k \in 1..12 : sum[k] = g[k]
  <2> HIDE DEF g
  <2>2. sum[2] = g[2]
    BY <1>6, <1>7
  <2>3. sum[3] = g[3]
    BY <2>2, <1>7
  <2>4. sum[4] = g[4]
    BY <2>3, <1>7
  <2>5. sum[5] = g[5]
    BY <2>4, <1>7
  <2>6. sum[6] = g[6]
    BY <2>5, <1>7
  <2>7. sum[7] = g[7]
    BY <2>6, <1>7
  <2>8. sum[8] = g[8]
    BY <2>7, <1>7
  <2>9. sum[9] = g[9]
    BY <2>8, <1>7
  <2>10. sum[10] = g[10]
    BY <2>9, <1>7
  <2>11. sum[11] = g[11]
    BY <2>10, <1>7
  <2>12. sum[12] = g[12]
    BY <2>11, <1>7
  <2> QED
    BY <1>6, <2>2, <2>3, <2>4, <2>5, <2>6, <2>7, <2>8, <2>9, <2>10, <2>11, <2>12
<1>9. DaysBeforeMonth(y, m) = sum[m]
  BY DEF DaysBeforeMonth, sum
<1> QED
  BY <1>8, <1>9

\* A year that ends with February: February of y + 1 is in it when m is after February.
Turn(y, m) == y + (IF m > 2 THEN 1 ELSE 0)

\* What separates the two counts of days: from the year 1, and from 1970.
Epoch == 719162 + 1

\* The number of a day from the parts of its sum.
DaySum(y, leaps, before, d) == 365 * (y - 1) + leaps + before + d - Epoch

\* The number of a day, from the leap years before its February.
LEMMA DayIs ==
  ASSUME NEW y \in Int, NEW m \in 1..12, NEW d \in Int
  PROVE  /\ DayNumber(y, m, d) = DaySum(y, Leaps(Turn(y, m) - 1), Before[m], d)
         /\ DayNumber(y, m, d) \in Int /\ Before[m] \in 0..334 /\ Turn(y, m) \in Int /\ Epoch \in Int
         /\ Leaps(Turn(y, m) - 1) \in Int
<1>1. DaysBeforeMonth(y, m) = Before[m] + (IF m > 2 /\ Leap(y) THEN 1 ELSE 0)
  BY DaysBefore
<1>2. Before[m] \in 0..334
  <2> m \in {1, 2, 3, 4, 5, 6, 7, 8, 9, 10, 11, 12}
    OBVIOUS
  <2> QED
    BY DEF Before
<1>3. Leaps(y) = Leaps(y - 1) + (IF Leap(y) THEN 1 ELSE 0) /\ Leaps(y) \in Int /\ Leaps(y - 1) \in Int
  BY LeapsNext, LeapsInt
<1>4. DayNumber(y, m, d) = 365 * (y - 1) + Leaps(y - 1) + DaysBeforeMonth(y, m) + d - Epoch
  <2>1. DaysBeforeMonth(y, m) \in Int
    BY <1>1, <1>2
  <2> QED
    BY <2>1, SMT DEF DayNumber, Leaps, Epoch
<1>4a. Epoch \in Int
  BY SMT DEF Epoch
<1>5. Leaps(Turn(y, m) - 1) = Leaps(y - 1) + (IF m > 2 /\ Leap(y) THEN 1 ELSE 0)
  <2>1. Turn(y, m) - 1 = IF m > 2 THEN y ELSE y - 1
    BY DEF Turn
  <2> QED
    BY <1>3, <2>1
<1>6. Turn(y, m) \in Int
  BY DEF Turn
<1>7. Leaps(Turn(y, m) - 1) \in Int
  BY <1>6, LeapsInt
<1> DEFINE l == Leaps(Turn(y, m) - 1)
           b == Before[m]
           n == DayNumber(y, m, d)
           k == Leaps(y - 1)
           c == DaysBeforeMonth(y, m)
<1>8. /\ l \in Int /\ b \in 0..334 /\ k \in Int /\ Epoch \in Int /\ c = b + (IF m > 2 /\ Leap(y) THEN 1 ELSE 0)
      /\ n = 365 * (y - 1) + k + c + d - Epoch /\ l = k + (IF m > 2 /\ Leap(y) THEN 1 ELSE 0)
  BY <1>1, <1>2, <1>3, <1>4, <1>4a, <1>5, <1>7
<1> HIDE DEF l, b, n, k, c
<1>9. n = DaySum(y, l, b, d) /\ n \in Int
  BY <1>8 DEF DaySum
<1> QED
  BY <1>4a, <1>6, <1>8, <1>9 DEF l, b, n

\* The first of a month.
First(y, m) == DayNumber(y, m, 1)

\* The first of a month, from the leap years before its February.
LEMMA FirstIs ==
  ASSUME NEW y \in Int, NEW m \in 1..12
  PROVE  /\ First(y, m) = DaySum(y, Leaps(Turn(y, m) - 1), Before[m], 1)
         /\ First(y, m) \in Int /\ Before[m] \in 0..334 /\ Turn(y, m) \in Int /\ Epoch \in Int
         /\ Leaps(Turn(y, m) - 1) \in Int
<1>1. PICK d \in Int : d = 1
  OBVIOUS
<1>2. /\ DayNumber(y, m, d) = DaySum(y, Leaps(Turn(y, m) - 1), Before[m], d)
      /\ DayNumber(y, m, d) \in Int /\ Before[m] \in 0..334 /\ Turn(y, m) \in Int /\ Epoch \in Int
      /\ Leaps(Turn(y, m) - 1) \in Int
  BY DayIs
<1> QED
  BY <1>1, <1>2, Zenon DEF First

\* A day of a month, from its first.
LEMMA FirstInt ==
  ASSUME NEW y \in Int, NEW m \in 1..12, NEW d \in Int
  PROVE  /\ First(y, m) \in Int /\ DayNumber(y, m, d) = First(y, m) + d - 1
         /\ DayNumber(y, m, d) \in Int
<1> DEFINE l == Leaps(Turn(y, m) - 1)
           b == Before[m]
<1>1. /\ DayNumber(y, m, d) = DaySum(y, l, b, d) /\ First(y, m) = DaySum(y, l, b, 1)
      /\ l \in Int /\ b \in 0..334 /\ Epoch \in Int
  <2>1. DayNumber(y, m, d) = DaySum(y, l, b, d)
    BY DayIs
  <2>2. First(y, m) = DaySum(y, l, b, 1) /\ l \in Int /\ b \in 0..334 /\ Epoch \in Int
    BY FirstIs
  <2> QED
    BY <2>1, <2>2
<1> HIDE DEF l, b
<1>2. b \in Int
  BY <1>1
<1> QED
  BY <1>1, <1>2 DEF DaySum

\* From a month to the same month k years on, by the leap years in between.
Later(n, k, leaps, before) == n + 365 * k + leaps - before
\* The first of the same month k years on: 365 days a year and the leap days in between.
LEMMA YearsOn ==
  ASSUME NEW y \in Int, NEW m \in 1..12, NEW k \in Int
  PROVE  LET z == Turn(y, m) IN
         /\ First(y + k, m) = Later(First(y, m), k, Leaps(z + k - 1), Leaps(z - 1))
         /\ Leaps(z + k - 1) \in Int /\ Leaps(z - 1) \in Int /\ z \in Int /\ First(y, m) \in Int
<1> DEFINE z == Turn(y, m)
           l == Leaps(z + k - 1)
           l0 == Leaps(z - 1)
           b == Before[m]
           x == y + k
<1>0. x \in Int
  OBVIOUS
<1>1. Turn(x, m) = z + k /\ z \in Int
  BY DEF Turn
<1> HIDE DEF x
<1>2. /\ First(y, m) = DaySum(y, l0, b, 1) /\ l0 \in Int /\ b \in 0..334 /\ Epoch \in Int
  BY FirstIs
<1>3. First(x, m) = DaySum(x, Leaps(Turn(x, m) - 1), b, 1) /\ Leaps(Turn(x, m) - 1) \in Int
  BY <1>0, FirstIs
<1>4. First(x, m) = DaySum(x, l, b, 1) /\ l \in Int
  BY <1>1, <1>3
<1>5. First(y, m) \in Int
  BY FirstInt
<1> HIDE DEF z, l, l0, b
<1>6. b \in Int
  BY <1>2
<1>7. First(x, m) = Later(First(y, m), k, l, l0)
  <2>1. DaySum(x, l, b, 1) = Later(DaySum(y, l0, b, 1), k, l, l0)
    BY <1>2, <1>4, <1>6 DEF DaySum, Later, x
  <2> QED
    BY <1>2, <1>4, <2>1
<1> QED
  BY <1>1, <1>2, <1>4, <1>5, <1>7 DEF x, z, l, l0

\* days_per_year is the length of the year from one month m to the next.
LEMMA YearLength ==
  ASSUME NEW y \in Int, NEW m \in 1..12
  PROVE  days_per_year(y, m) \in {365, 366} /\ First(y + 1, m) = First(y, m) + days_per_year(y, m)
<1> DEFINE z == Turn(y, m)
           k == 1
<1>0. k \in Int
  OBVIOUS
<1> HIDE DEF k
<1>1. z = y + Bit(m > 2) /\ z \in Int
  BY DEF Turn, Bit
<1>2. First(y + k, m) = Later(First(y, m), k, Leaps(z + k - 1), Leaps(z - 1))
      /\ Leaps(z + k - 1) \in Int /\ Leaps(z - 1) \in Int
  BY <1>0, YearsOn
<1>3. days_per_year(y, m) = IF Leap(z) THEN 366 ELSE 365
  <2> HIDE DEF z
  <2> QED
    BY <1>1, LeapYear DEF days_per_year
<1> HIDE DEF z
<1>4. z + 1 - 1 = z /\ Leaps(z) = Leaps(z - 1) + (IF Leap(z) THEN 1 ELSE 0)
  BY <1>1, LeapsNext
<1>5. First(y, m) \in Int
  BY FirstInt
<1>6. First(y + k, m) = First(y, m) + 365 * k + Leaps(z + k - 1) - Leaps(z - 1)
  BY <1>2 DEF Later
<1> QED
  BY <1>1, <1>2, <1>3, <1>4, <1>5, <1>6 DEF k

\* The index that n_day keeps is the year's place in its 400-year cycle.
LEMMA YearIndex ==
  ASSUME NEW y \in Int, NEW m \in 1..12
  PROVE  year_index(y, m) = Turn(y, m) % 400 /\ year_index(y, m) \in 0..399
<1>1. Turn(y, m) = y + Bit(m > 2) /\ Turn(y, m) \in Int
  BY DEF Turn, Bit
<1>2. \A z \in Int : (IF Rem(z, 400) < 0 THEN Rem(z, 400) + 400 ELSE Rem(z, 400)) = z % 400
  BY DEF Rem, Quot
<1>3. year_index(y, m) = IF Rem(Turn(y, m), 400) < 0 THEN Rem(Turn(y, m), 400) + 400 ELSE Rem(Turn(y, m), 400)
  BY <1>1 DEF year_index
<1>4. year_index(y, m) = Turn(y, m) % 400
  BY <1>1, <1>2, <1>3
<1> QED
  BY <1>1, <1>4

\* days_per_4years and days_per_century are the lengths of four and of a hundred years.
LEMMA FourYears ==
  ASSUME NEW y \in Int, NEW m \in 1..12
  PROVE  LET n == days_per_4years(year_index(y, m)) IN
         n \in {1460, 1461} /\ First(y + 4, m) = First(y, m) + n
<1> DEFINE z == Turn(y, m)
           r == z % 400
           q == z \div 400
           k == 4
<1>0. k \in Int
  OBVIOUS
<1> HIDE DEF k
<1>1. z \in Int
  BY DEF Turn
<1>2. First(y + k, m) = Later(First(y, m), k, Leaps(z + k - 1), Leaps(z - 1))
      /\ Leaps(z + k - 1) \in Int /\ Leaps(z - 1) \in Int
  BY <1>0, YearsOn
<1>3. year_index(y, m) = r
  BY YearIndex
<1> HIDE DEF z
<1>4. q \in Int /\ r \in 0..399 /\ z = r + 400 * q
  BY <1>1
<1> HIDE DEF r, q
<1> DEFINE u == r + 3
           v == r - 1
           w == z + k - 1
<1>5. u \in Int /\ v \in Int /\ w = u + 400 * q /\ z - 1 = v + 400 * q
  BY <1>4 DEF k
<1>8. Leaps(u) - Leaps(v) = IF r = 0 \/ r > 300 \/ (r - 1) % 100 < 96 THEN 1 ELSE 0
  BY <1>4 DEF Leaps
<1> HIDE DEF u, v, w
<1>6. Leaps(w) = Leaps(u) + 97 * q /\ Leaps(z - 1) = Leaps(v) + 97 * q
  BY <1>4, <1>5, LeapsCycle
<1>7. Leaps(u) \in Int /\ Leaps(v) \in Int
  BY <1>5, LeapsInt
<1>9. days_per_4years(r) = 1460 + (IF r = 0 \/ r > 300 \/ (r - 1) % 100 < 96 THEN 1 ELSE 0)
  <2>1. r # 0 => Rem(r - 1, 100) = (r - 1) % 100
    BY <1>4 DEF Rem, Quot
  <2> QED
    BY <2>1 DEF days_per_4years, Bit
<1>10. First(y, m) \in Int
  BY FirstInt
<1> DEFINE c == Leaps(u) - Leaps(v)
           n == First(y, m)
<1>11. First(y + k, m) = Later(n, k, Leaps(w), Leaps(z - 1)) /\ Leaps(w) \in Int /\ Leaps(z - 1) \in Int
  BY <1>2 DEF w
<1>12. Leaps(w) - Leaps(z - 1) = c /\ c \in Int
  BY <1>4, <1>6, <1>7
<1> HIDE DEF n
<1>13. First(y + k, m) = n + 365 * k + c
  BY <1>0, <1>10, <1>11, <1>12 DEF Later, n
<1> HIDE DEF c
<1>14. First(y + 4, m) = n + 1460 + c
  BY <1>10, <1>12, <1>13 DEF k, n
<1> QED
  BY <1>3, <1>8, <1>9, <1>10, <1>14 DEF c, n

\* A hundred years have the days that the loop over centuries takes off.
LEMMA HundredYears ==
  ASSUME NEW y \in Int, NEW m \in 1..12
  PROVE  LET n == days_per_century(year_index(y, m)) IN
         n \in {36524, 36525} /\ First(y + 100, m) = First(y, m) + n
<1> DEFINE z == Turn(y, m)
           r == z % 400
           q == z \div 400
           k == 100
<1>0. k \in Int
  OBVIOUS
<1> HIDE DEF k
<1>1. z \in Int
  BY DEF Turn
<1>2. First(y + k, m) = Later(First(y, m), k, Leaps(z + k - 1), Leaps(z - 1))
      /\ Leaps(z + k - 1) \in Int /\ Leaps(z - 1) \in Int
  BY <1>0, YearsOn
<1>3. year_index(y, m) = r
  BY YearIndex
<1> HIDE DEF z
<1>4. q \in Int /\ r \in 0..399 /\ z = r + 400 * q
  BY <1>1
<1> HIDE DEF r, q
<1> DEFINE u == r + 99
           v == r - 1
           w == z + k - 1
<1>5. u \in Int /\ v \in Int /\ w = u + 400 * q /\ z - 1 = v + 400 * q
  BY <1>4 DEF k
<1>8. Leaps(u) - Leaps(v) = 24 + (IF r = 0 \/ r > 300 THEN 1 ELSE 0)
  BY <1>4 DEF Leaps
<1> HIDE DEF u, v, w
<1>6. Leaps(w) = Leaps(u) + 97 * q /\ Leaps(z - 1) = Leaps(v) + 97 * q
  BY <1>4, <1>5, LeapsCycle
<1>7. Leaps(u) \in Int /\ Leaps(v) \in Int
  BY <1>5, LeapsInt
<1>9. days_per_century(r) = 36524 + (IF r = 0 \/ r > 300 THEN 1 ELSE 0)
  BY DEF days_per_century, Bit
<1>10. First(y, m) \in Int
  BY FirstInt
<1> DEFINE c == Leaps(u) - Leaps(v)
           n == First(y, m)
<1>11. First(y + k, m) = Later(n, k, Leaps(w), Leaps(z - 1)) /\ Leaps(w) \in Int /\ Leaps(z - 1) \in Int
  BY <1>2 DEF w
<1>12. Leaps(w) - Leaps(z - 1) = c /\ c \in Int
  BY <1>4, <1>6, <1>7
<1> HIDE DEF n
<1>13. First(y + k, m) = n + 365 * k + c
  BY <1>0, <1>10, <1>11, <1>12 DEF Later, n
<1> HIDE DEF c
<1>14. First(y + 100, m) = n + 36500 + c
  BY <1>10, <1>12, <1>13 DEF k, n
<1> QED
  BY <1>3, <1>8, <1>9, <1>10, <1>14 DEF c, n

\* The calendar repeats after 400 years.
LEMMA Cycles ==
  ASSUME NEW y \in Int, NEW m \in 1..12, NEW k \in Int
  PROVE  /\ First(y + 400 * k, m) = First(y, m) + 146097 * k
         /\ MonthDays(y + 400 * k, m) = MonthDays(y, m)
<1> DEFINE z == Turn(y, m)
           h == 400 * k
           v == z - 1
           n == First(y, m)
<1>0. h \in Int
  OBVIOUS
<1> HIDE DEF h
<1>1. /\ First(y + h, m) = Later(First(y, m), h, Leaps(z + h - 1), Leaps(z - 1))
      /\ Leaps(z + h - 1) \in Int /\ Leaps(z - 1) \in Int /\ z \in Int /\ First(y, m) \in Int
  BY <1>0, YearsOn
<1> HIDE DEF z
<1>2. v \in Int /\ z + h - 1 = v + 400 * k
  BY <1>1 DEF h
<1> HIDE DEF v
<1>3. Leaps(v + 400 * k) = Leaps(v) + 97 * k
  BY <1>2, LeapsCycle
<1> DEFINE a == Leaps(z + h - 1)
           b == Leaps(z - 1)
<1>4. a = b + 97 * k /\ a \in Int /\ b \in Int /\ n \in Int /\ First(y + h, m) = Later(n, h, a, b)
  BY <1>1, <1>2, <1>3 DEF v
<1> HIDE DEF a, b, n
<1>5. First(y + h, m) = n + 365 * h + 97 * k
  BY <1>0, <1>4 DEF Later
<1>6. First(y + 400 * k, m) = n + 146097 * k
  BY <1>4, <1>5, SMT DEF h
<1>7. (y + 400 * k) % 4 = y % 4 /\ (y + 400 * k) % 100 = y % 100 /\ (y + 400 * k) % 400 = y % 400
  OBVIOUS
<1>8. Leap(y + 400 * k) <=> Leap(y)
  BY <1>7 DEF Leap
<1>9. MonthDays(y + 400 * k, m) = MonthDays(y, m)
  BY <1>8, Zenon DEF MonthDays
<1> QED
  BY <1>6, <1>9, SMT DEF n

\* The length of a month, and that the next one follows it.
LEMMA MonthLength ==
  ASSUME NEW y \in Int, NEW m \in 1..12
  PROVE  /\ days_per_month(y, m) = MonthDays(y, m) /\ MonthDays(y, m) \in 28..31
         /\ m < 12 => First(y, m + 1) = First(y, m) + MonthDays(y, m)
         /\ First(y + 1, 1) = First(y, 12) + 31 /\ MonthDays(y, 12) = 31
<1>1. is_leap_year(y) <=> Leap(y)
  BY LeapYear
<1>2. m \in {1, 2, 3, 4, 5, 6, 7, 8, 9, 10, 11, 12}
  OBVIOUS
<1>3. days_per_month(y, m) = MonthDays(y, m) /\ MonthDays(y, m) \in 28..31
  BY <1>1, <1>2 DEF days_per_month, MonthDays, Bit
<1> DEFINE k == Leaps(y - 1)
           l == Leaps(y)
<1>4. l = k + (IF Leap(y) THEN 1 ELSE 0) /\ l \in Int /\ k \in Int
  BY LeapsNext, LeapsInt
\* The first of a month, from the first of the year.
<1>5. ASSUME NEW j \in 1..12
      PROVE  /\ First(y, j) = DaySum(y, k, Before[j] + (IF j > 2 /\ Leap(y) THEN 1 ELSE 0), 1)
             /\ Before[j] \in Int /\ Epoch \in Int
  <2>1. Leaps(Turn(y, j) - 1) = k + (IF j > 2 /\ Leap(y) THEN 1 ELSE 0)
    <3>1. Turn(y, j) - 1 = IF j > 2 THEN y ELSE y - 1
      BY DEF Turn
    <3> QED
      BY <1>4, <3>1
  <2> DEFINE n == Leaps(Turn(y, j) - 1)
             b == Before[j]
  <2>2. /\ First(y, j) = DaySum(y, n, b, 1) /\ n \in Int /\ b \in 0..334 /\ Epoch \in Int
    BY FirstIs
  <2> HIDE DEF n, b
  <2>3. b \in Int
    BY <2>2
  <2> HIDE DEF k, l
  <2>4. DaySum(y, n, b, 1) = DaySum(y, k, b + (IF j > 2 /\ Leap(y) THEN 1 ELSE 0), 1)
    BY <1>4, <2>1, <2>2, <2>3 DEF DaySum, n
  <2> QED
    BY <2>2, <2>3, <2>4 DEF b
<1> HIDE DEF k, l
<1>6. ASSUME m < 12 PROVE First(y, m + 1) = First(y, m) + MonthDays(y, m)
  <2> DEFINE j == m + 1
  <2>1. j \in 1..12
    BY <1>6
  <2>2. Before[j] - Before[m] + (IF m = 2 /\ Leap(y) THEN 1 ELSE 0) = MonthDays(y, m)
    BY <1>2, <1>6 DEF Before, MonthDays
  <2> HIDE DEF j
  <2> DEFINE a == Before[m]
             b == Before[j]
  <2>3. /\ First(y, j) = DaySum(y, k, b + (IF j > 2 /\ Leap(y) THEN 1 ELSE 0), 1)
        /\ First(y, m) = DaySum(y, k, a + (IF m > 2 /\ Leap(y) THEN 1 ELSE 0), 1)
        /\ a \in Int /\ b \in Int /\ Epoch \in Int
    BY <1>5, <2>1
  <2> HIDE DEF a, b
  <2>4. First(y, j) = First(y, m) + MonthDays(y, m)
    BY <1>3, <1>4, <2>2, <2>3 DEF DaySum, j, a, b
  <2> QED
    BY <2>4 DEF j
<1>7. First(y + 1, 1) = First(y, 12) + 31 /\ MonthDays(y, 12) = 31
  <2> DEFINE x == y + 1
             jan == 1
             dec == 12
  <2>1. x \in Int /\ jan \in 1..12 /\ dec \in 1..12 /\ Turn(x, jan) - 1 = y
    BY DEF Turn
  <2> HIDE DEF x, jan, dec
  <2>2. First(x, jan) = DaySum(x, Leaps(Turn(x, jan) - 1), Before[jan], 1) /\ Epoch \in Int
    BY <2>1, FirstIs
  <2>3. First(y, dec) = DaySum(y, k, Before[dec] + (IF dec > 2 /\ Leap(y) THEN 1 ELSE 0), 1)
    BY <1>5, <2>1
  <2>4. First(x, jan) = DaySum(x, l, Before[jan], 1)
    BY <2>1, <2>2 DEF l
  <2>5. Before[jan] = 0 /\ Before[dec] = 334
    BY DEF Before, jan, dec
  <2>6. First(x, jan) = First(y, dec) + 31
    BY <1>4, <2>2, <2>3, <2>4, <2>5 DEF DaySum, x, dec
  <2> QED
    BY <2>6 DEF x, jan, dec, MonthDays
<1> QED
  BY <1>3, <1>6, <1>7

------------------------------------------------------------------------------
(* The loops of n_day: the day stays the same *)

\* One of the loops over years: from <<year, days>>, as long as more days are left than the
\* period has.
SkipLoop(F, size, stride) ==
  F = [at \in Int \X Int |-> IF at[2] <= size[at[1]] THEN at ELSE F[<<at[1] + stride, at[2] - size[at[1]]>>]]

\* A loop over years is well defined, stays in what its rounds preserve and ends with a day of the period.
LEMMA SkipExists ==
  ASSUME NEW size \in [Int -> Nat \ {0}], NEW stride \in Int
  PROVE  /\ \E F : SkipLoop(F, size, stride)
         /\ \A F, P : SkipLoop(F, size, stride) /\ P \subseteq Int \X Int
                      /\ (\A at \in P : size[at[1]] < at[2] => <<at[1] + stride, at[2] - size[at[1]]>> \in P)
              => \A at \in P : F[at] \in P /\ F[at][2] <= size[F[at][1]]
<1> DEFINE A == Int \X Int
           Done == {at \in A : at[2] <= size[at[1]]}
           next == [at \in A |-> <<at[1] + stride, at[2] - size[at[1]]>>]
           left == [at \in A |-> at[2]]
<1>1. \A at \in A : at[1] \in Int /\ at[2] \in Int /\ size[at[1]] \in Nat \ {0}
  OBVIOUS
<1>2. next \in [A -> A] /\ left \in [A -> Int]
  BY <1>1
<1>3. ASSUME NEW at \in A \ Done PROVE left[next[at]] < left[at] /\ 0 < left[at]
  <2>1. at \in A /\ at[1] \in Int /\ at[2] \in Int /\ size[at[1]] \in Nat \ {0} /\ size[at[1]] < at[2]
    BY <1>1
  <2>2. next[at] = <<at[1] + stride, at[2] - size[at[1]]>>
    BY <2>1
  <2>3. next[at] \in A /\ next[at][2] = at[2] - size[at[1]]
    BY <2>1, <2>2
  <2>4. left[next[at]] = at[2] - size[at[1]] /\ left[at] = at[2]
    BY <2>1, <2>3
  <2> QED
    BY <2>1, <2>4
<1>4. Falls(A, Done, next, left)
  <2> HIDE DEF A, Done, next, left
  <2> QED
    BY <1>2, <1>3 DEF Falls
<1>5. \A F : Loop(F, A, Done, next) <=> SkipLoop(F, size, stride)
  <2> SUFFICES ASSUME NEW F PROVE Loop(F, A, Done, next) <=> SkipLoop(F, size, stride)
    OBVIOUS
  <2>1. [at \in A |-> IF at \in Done THEN at ELSE F[next[at]]]
          = [at \in A |-> IF at[2] <= size[at[1]] THEN at ELSE F[<<at[1] + stride, at[2] - size[at[1]]>>]]
    OBVIOUS
  <2> QED
    BY <2>1 DEF Loop, SkipLoop
<1>6. \E F : SkipLoop(F, size, stride)
  <2> HIDE DEF A, Done, next, left
  <2>1. \E F : Loop(F, A, Done, next)
    BY <1>4, LoopExists
  <2> QED
    BY <1>5, <2>1
<1>7. ASSUME NEW F, NEW P, SkipLoop(F, size, stride), P \subseteq A,
             \A at \in P : size[at[1]] < at[2] => <<at[1] + stride, at[2] - size[at[1]]>> \in P
      PROVE  \A at \in P : F[at] \in P /\ F[at][2] <= size[F[at][1]]
  <2>1. ASSUME NEW at \in P \ Done PROVE next[at] \in P
    <3>1. at \in A /\ at[2] \in Int /\ size[at[1]] \in Nat \ {0}
      BY <1>1, <1>7
    <3>2. size[at[1]] < at[2]
      BY <3>1
    <3>3. next[at] = <<at[1] + stride, at[2] - size[at[1]]>>
      BY <3>1
    <3> QED
      BY <1>7, <3>2, <3>3
  <2>2. Loop(F, A, Done, next)
    BY <1>5, <1>7
  <2>3. \A at \in P : F[at] \in P \cap Done
    <3> HIDE DEF A, Done, next, left
    <3> QED
      BY <1>4, <1>7, <2>1, <2>2, LoopEnds
  <2> QED
    BY <2>3
<1> QED
  BY <1>6, <1>7

\* Periods of stride years, from month m on, are as long as size says.
Periods(F, size, stride, m) ==
  /\ m \in 1..12 /\ size \in [Int -> Nat \ {0}] /\ stride \in Int
  /\ \A y \in Int : First(y + stride, m) = First(y, m) + size[y]
  /\ SkipLoop(F, size, stride)

\* Skipping periods changes neither the day nor that it is after the month's first.
LEMMA SkipKeepsDay ==
  ASSUME NEW F, NEW size, NEW stride, NEW m, Periods(F, size, stride, m),
         NEW at \in Int \X Int, at[2] >= 1
  PROVE  /\ F[at] \in Int \X Int /\ F[at][2] \in 1..size[F[at][1]]
         /\ First(F[at][1], m) + F[at][2] = First(at[1], m) + at[2]
<1>0. /\ m \in 1..12 /\ size \in [Int -> Nat \ {0}] /\ stride \in Int
      /\ \A y \in Int : First(y + stride, m) = First(y, m) + size[y]
      /\ SkipLoop(F, size, stride)
  BY DEF Periods
<1> DEFINE n == First(at[1], m) + at[2]
           P == {b \in Int \X Int : b[2] >= 1 /\ First(b[1], m) + b[2] = n}
<1>1. ASSUME NEW b \in P, size[b[1]] < b[2] PROVE <<b[1] + stride, b[2] - size[b[1]]>> \in P
  <2> DEFINE c == <<b[1] + stride, b[2] - size[b[1]]>>
             s == size[b[1]]
             y == b[1]
             d == b[2]
  <2>0. b \in Int \X Int /\ b[2] >= 1 /\ First(b[1], m) + b[2] = n
    OBVIOUS
  <2>0a. y \in Int /\ d \in Int /\ s \in Nat \ {0} /\ First(y, m) + d = n
    <3> HIDE DEF n
    <3> QED
      BY <1>0, <2>0
  <2>1. y \in Int /\ d \in Int /\ s \in Nat \ {0} /\ First(y, m) \in Int /\ First(y, m) + d = n /\ d - s \in Int
    <3> HIDE DEF n, y, d, s, P
    <3>1. y \in Int
      BY <2>0a
    <3>2. First(y, m) \in Int
      BY <1>0, <3>1, FirstIs
    <3>3. d - s \in Int
      BY <2>0a
    <3> QED
      BY <2>0a, <3>2, <3>3
  <2>2. First(y + stride, m) = First(y, m) + s
    BY <1>0, <2>1
  <2>3. c \in Int \X Int /\ c[1] = y + stride /\ c[2] = d - s
    BY <1>0, <2>1
  <2>4. s < d
    BY <1>1
  <2> HIDE DEF c, s, y, d, n
  <2>5. c[2] >= 1 /\ First(c[1], m) + c[2] = n
    BY <2>1, <2>2, <2>3, <2>4
  <2> QED
    BY <2>3, <2>5 DEF c, s, y, d
<1>2. at \in P /\ P \subseteq Int \X Int
  OBVIOUS
<1>3. F[at] \in P /\ F[at][2] <= size[F[at][1]]
  <2> HIDE DEF P
  <2> QED
    BY <1>0, <1>1, <1>2, SkipExists
<1> QED
  BY <1>3

\* The first loop of n_day, over centuries, does not change the day.
LEMMA SkipCenturies ==
  ASSUME NEW m \in 1..12, NEW at \in Int \X Int, at[2] >= 1
  PROVE  LET century(ey) == days_per_century(year_index(ey, m))
             to == Skip(century, 100, at)
         IN  /\ to \in Int \X Int /\ to[2] \in 1..century(to[1])
             /\ First(to[1], m) + to[2] = First(at[1], m) + at[2]
<1> DEFINE century(ey) == days_per_century(year_index(ey, m))
           size == [ey \in Int |-> century(ey)]
           stride == 100
           body(F) == [b \in Int \X Int |-> IF b[2] <= century(b[1]) THEN b ELSE F[<<b[1] + 100, b[2] - century(b[1])>>]]
           loop == CHOOSE F : F = body(F)
<1>1. \A y \in Int : century(y) \in Nat \ {0} /\ First(y + 100, m) = First(y, m) + century(y)
  BY HundredYears
<1> HIDE DEF century
<1>2. size \in [Int -> Nat \ {0}] /\ stride \in Int /\ \A y \in Int : size[y] = century(y)
  BY <1>1
<1>3. \A F : SkipLoop(F, size, stride) <=> F = body(F)
  <2> SUFFICES ASSUME NEW F PROVE SkipLoop(F, size, stride) <=> F = body(F)
    OBVIOUS
  <2>1. [b \in Int \X Int |-> IF b[2] <= size[b[1]] THEN b ELSE F[<<b[1] + stride, b[2] - size[b[1]]>>]] = body(F)
    BY <1>2
  <2> QED
    BY <2>1 DEF SkipLoop
<1>4. \A y \in Int : First(y + stride, m) = First(y, m) + size[y]
  BY <1>1, <1>2
<1> HIDE DEF size, stride
<1>5. \E F : F = body(F)
  <2>1. \E F : SkipLoop(F, size, stride)
    BY <1>2, SkipExists
  <2> HIDE DEF body
  <2> QED
    BY <1>3, <2>1
<1>6. loop = body(loop)
  <2> HIDE DEF body
  <2> QED
    BY <1>5
<1>7. SkipLoop(loop, size, stride)
  <2> HIDE DEF loop, body
  <2> QED
    BY <1>3, <1>6
<1> DEFINE to == loop[at]
<1>8. Skip(century, 100, at) = to
  BY DEF Skip
<1> HIDE DEF loop
<1>9. /\ to \in Int \X Int /\ to[2] \in 1..size[to[1]]
      /\ First(to[1], m) + to[2] = First(at[1], m) + at[2]
  <2>1. Periods(loop, size, stride, m)
    BY <1>2, <1>4, <1>7 DEF Periods
  <2> HIDE DEF loop, size, stride, body
  <2> QED
    BY <2>1, SkipKeepsDay
<1>10. to[1] \in Int
  BY <1>9
<1> HIDE DEF to
<1> QED
  BY <1>2, <1>8, <1>9, <1>10 DEF century

\* Nor does the second, over four years at a time.
LEMMA SkipFours ==
  ASSUME NEW m \in 1..12, NEW at \in Int \X Int, at[2] >= 1
  PROVE  LET four(ey) == days_per_4years(year_index(ey, m))
             to == Skip(four, 4, at)
         IN  /\ to \in Int \X Int /\ to[2] \in 1..four(to[1])
             /\ First(to[1], m) + to[2] = First(at[1], m) + at[2]
<1> DEFINE four(ey) == days_per_4years(year_index(ey, m))
           size == [ey \in Int |-> four(ey)]
           stride == 4
           body(F) == [b \in Int \X Int |-> IF b[2] <= four(b[1]) THEN b ELSE F[<<b[1] + 4, b[2] - four(b[1])>>]]
           loop == CHOOSE F : F = body(F)
<1>1. \A y \in Int : four(y) \in Nat \ {0} /\ First(y + 4, m) = First(y, m) + four(y)
  BY FourYears
<1> HIDE DEF four
<1>2. size \in [Int -> Nat \ {0}] /\ stride \in Int /\ \A y \in Int : size[y] = four(y)
  BY <1>1
<1>3. \A F : SkipLoop(F, size, stride) <=> F = body(F)
  <2> SUFFICES ASSUME NEW F PROVE SkipLoop(F, size, stride) <=> F = body(F)
    OBVIOUS
  <2>1. [b \in Int \X Int |-> IF b[2] <= size[b[1]] THEN b ELSE F[<<b[1] + stride, b[2] - size[b[1]]>>]] = body(F)
    BY <1>2
  <2> QED
    BY <2>1 DEF SkipLoop
<1>4. \A y \in Int : First(y + stride, m) = First(y, m) + size[y]
  BY <1>1, <1>2
<1> HIDE DEF size, stride
<1>5. \E F : F = body(F)
  <2>1. \E F : SkipLoop(F, size, stride)
    BY <1>2, SkipExists
  <2> HIDE DEF body
  <2> QED
    BY <1>3, <2>1
<1>6. loop = body(loop)
  <2> HIDE DEF body
  <2> QED
    BY <1>5
<1>7. SkipLoop(loop, size, stride)
  <2> HIDE DEF loop, body
  <2> QED
    BY <1>3, <1>6
<1> DEFINE to == loop[at]
<1>8. Skip(four, 4, at) = to
  BY DEF Skip
<1> HIDE DEF loop
<1>9. /\ to \in Int \X Int /\ to[2] \in 1..size[to[1]]
      /\ First(to[1], m) + to[2] = First(at[1], m) + at[2]
  <2>1. Periods(loop, size, stride, m)
    BY <1>2, <1>4, <1>7 DEF Periods
  <2> HIDE DEF loop, size, stride, body
  <2> QED
    BY <2>1, SkipKeepsDay
<1>10. to[1] \in Int
  BY <1>9
<1> HIDE DEF to
<1> QED
  BY <1>2, <1>8, <1>9, <1>10 DEF four

\* Nor does the third, over single years.
LEMMA SkipOnes ==
  ASSUME NEW m \in 1..12, NEW at \in Int \X Int, at[2] >= 1
  PROVE  LET one(ey) == days_per_year(ey, m)
             to == Skip(one, 1, at)
         IN  /\ to \in Int \X Int /\ to[2] \in 1..one(to[1])
             /\ First(to[1], m) + to[2] = First(at[1], m) + at[2]
<1> DEFINE one(ey) == days_per_year(ey, m)
           size == [ey \in Int |-> one(ey)]
           stride == 1
           body(F) == [b \in Int \X Int |-> IF b[2] <= one(b[1]) THEN b ELSE F[<<b[1] + 1, b[2] - one(b[1])>>]]
           loop == CHOOSE F : F = body(F)
<1>1. \A y \in Int : one(y) \in Nat \ {0} /\ First(y + 1, m) = First(y, m) + one(y)
  BY YearLength
<1> HIDE DEF one
<1>2. size \in [Int -> Nat \ {0}] /\ stride \in Int /\ \A y \in Int : size[y] = one(y)
  BY <1>1
<1>3. \A F : SkipLoop(F, size, stride) <=> F = body(F)
  <2> SUFFICES ASSUME NEW F PROVE SkipLoop(F, size, stride) <=> F = body(F)
    OBVIOUS
  <2>1. [b \in Int \X Int |-> IF b[2] <= size[b[1]] THEN b ELSE F[<<b[1] + stride, b[2] - size[b[1]]>>]] = body(F)
    BY <1>2
  <2> QED
    BY <2>1 DEF SkipLoop
<1>4. \A y \in Int : First(y + stride, m) = First(y, m) + size[y]
  BY <1>1, <1>2
<1> HIDE DEF size, stride
<1>5. \E F : F = body(F)
  <2>1. \E F : SkipLoop(F, size, stride)
    BY <1>2, SkipExists
  <2> HIDE DEF body
  <2> QED
    BY <1>3, <2>1
<1>6. loop = body(loop)
  <2> HIDE DEF body
  <2> QED
    BY <1>5
<1>7. SkipLoop(loop, size, stride)
  <2> HIDE DEF loop, body
  <2> QED
    BY <1>3, <1>6
<1> DEFINE to == loop[at]
<1>8. Skip(one, 1, at) = to
  BY DEF Skip
<1> HIDE DEF loop
<1>9. /\ to \in Int \X Int /\ to[2] \in 1..size[to[1]]
      /\ First(to[1], m) + to[2] = First(at[1], m) + at[2]
  <2>1. Periods(loop, size, stride, m)
    BY <1>2, <1>4, <1>7 DEF Periods
  <2> HIDE DEF loop, size, stride, body
  <2> QED
    BY <2>1, SkipKeepsDay
<1>10. to[1] \in Int
  BY <1>9
<1> HIDE DEF to
<1> QED
  BY <1>2, <1>8, <1>9, <1>10 DEF one

\* Counting whole years.
LEMMA YearsCounted ==
  ASSUME NEW m \in 1..12, NEW at \in Int \X Int, at[2] >= 1
  PROVE  LET to == CountYears(m, at) IN
         /\ to \in Int \X Int /\ to[2] >= 1
         /\ First(to[1], m) + to[2] = First(at[1], m) + at[2]
<1> DEFINE century(ey) == days_per_century(year_index(ey, m))
           four(ey) == days_per_4years(year_index(ey, m))
           one(ey) == days_per_year(ey, m)
           a == Skip(century, 100, at)
           b == Skip(four, 4, a)
           c == Skip(one, 1, b)
           to == CountYears(m, at)
<1>1. to = IF at[2] <= 365 THEN at ELSE c
  BY DEF CountYears
<1>2. a \in Int \X Int /\ a[2] \in 1..century(a[1]) /\ First(a[1], m) + a[2] = First(at[1], m) + at[2]
  <2>1. a \in Int \X Int
    BY SkipCenturies, ZenonT(60)
  <2>2. a[2] \in 1..century(a[1])
    BY SkipCenturies, ZenonT(60)
  <2>3. First(a[1], m) + a[2] = First(at[1], m) + at[2]
    BY SkipCenturies, ZenonT(60)
  <2> QED
    BY <2>1, <2>2, <2>3, Zenon
<1> HIDE DEF a
<1>3. a[2] >= 1
  BY <1>2
<1>4. b \in Int \X Int /\ b[2] \in 1..four(b[1]) /\ First(b[1], m) + b[2] = First(a[1], m) + a[2]
  BY <1>2, <1>3, SkipFours
<1> HIDE DEF b
<1>5. b[2] >= 1
  BY <1>4
<1>6. c \in Int \X Int /\ c[2] \in 1..one(c[1]) /\ First(c[1], m) + c[2] = First(b[1], m) + b[2]
  BY <1>4, <1>5, SkipOnes
<1> HIDE DEF c
<1>7. c[2] >= 1
  BY <1>6
<1> HIDE DEF to, century, four, one
<1>8. to \in Int \X Int /\ to[2] >= 1 /\ First(to[1], m) + to[2] = First(at[1], m) + at[2]
  BY <1>1, <1>2, <1>4, <1>6, <1>7
<1> QED
  BY <1>8 DEF to

\* One round of the loop over months goes on to the next one's first.
LEMMA NextMonth ==
  ASSUME NEW y \in Int, NEW m \in 1..12, NEW d \in Int, MonthDays(y, m) < d
  PROVE  LET to == IF m = 12 THEN <<y + 1, 1, d - days_per_month(y, m)>> ELSE <<y, m + 1, d - days_per_month(y, m)>> IN
         /\ to \in Int \X (1..12) \X Int /\ to[3] >= 1 /\ to[3] < d /\ 0 < d
         /\ First(to[1], to[2]) + to[3] = First(y, m) + d
<1> DEFINE n == days_per_month(y, m)
<1>1. n = MonthDays(y, m) /\ n \in 28..31 /\ (m < 12 => First(y, m + 1) = First(y, m) + n)
      /\ First(y + 1, 1) = First(y, 12) + 31 /\ MonthDays(y, 12) = 31
  BY MonthLength
<1>2. First(y, m) \in Int
  BY FirstIs
<1> HIDE DEF n
<1>3. CASE m = 12
  <2>1. n = 31
    BY <1>1, <1>3
  <2>2. First(y + 1, 1) = First(y, m) + n
    BY <1>1, <1>3, <2>1
  <2> DEFINE x == First(y, m)
             z == First(y + 1, 1)
  <2> HIDE DEF x, z
  <2>3. n \in Int /\ x \in Int /\ z = x + n /\ n < d
    BY <1>1, <1>2, <2>2 DEF x, z
  <2>4. z + (d - n) = x + d /\ d - n >= 1 /\ d - n < d /\ 0 < d
    BY <1>1, <2>3
  <2> DEFINE to == <<y + 1, 1, d - n>>
  <2>5. to \in Int \X (1..12) \X Int /\ to[1] = y + 1 /\ to[2] = 1 /\ to[3] = d - n
    BY <2>3
  <2> HIDE DEF to
  <2>6. /\ to \in Int \X (1..12) \X Int /\ to[3] >= 1 /\ to[3] < d /\ 0 < d
        /\ First(to[1], to[2]) + to[3] = First(y, m) + d
    BY <2>4, <2>5 DEF x, z
  <2> QED
    BY <1>3, <2>6 DEF to, n
<1>4. CASE m # 12
  <2>1. m + 1 \in 1..12 /\ First(y, m + 1) = First(y, m) + n
    BY <1>1, <1>4
  <2> DEFINE x == First(y, m)
             z == First(y, m + 1)
  <2> HIDE DEF x, z
  <2>3. n \in Int /\ x \in Int /\ z = x + n /\ n < d
    BY <1>1, <1>2, <2>1 DEF x, z
  <2>4. z + (d - n) = x + d /\ d - n >= 1 /\ d - n < d /\ 0 < d
    BY <1>1, <2>3
  <2> DEFINE to == <<y, m + 1, d - n>>
  <2>5. to \in Int \X (1..12) \X Int /\ to[1] = y /\ to[2] = m + 1 /\ to[3] = d - n
    BY <2>1, <2>3
  <2> HIDE DEF to
  <2>6. /\ to \in Int \X (1..12) \X Int /\ to[3] >= 1 /\ to[3] < d /\ 0 < d
        /\ First(to[1], to[2]) + to[3] = First(y, m) + d
    BY <2>4, <2>5 DEF x, z
  <2> QED
    BY <1>4, <2>6 DEF to, n
<1> QED
  BY <1>3, <1>4

\* The loop over months ends at the date.
LEMMA MonthsSkipped ==
  ASSUME NEW at \in Int \X (1..12) \X Int, at[3] >= 1
  PROVE  LET to == SkipMonths(at) IN
         /\ to \in Int \X (1..12) \X Int /\ to[3] \in 1..MonthDays(to[1], to[2])
         /\ First(to[1], to[2]) + to[3] = First(at[1], at[2]) + at[3]
<1> DEFINE A == Int \X (1..12) \X Int
           more(b) == IF b[2] = 12 THEN <<b[1] + 1, 1, b[3] - days_per_month(b[1], b[2])>>
                      ELSE <<b[1], b[2] + 1, b[3] - days_per_month(b[1], b[2])>>
           Done == {b \in A : b[3] <= days_per_month(b[1], b[2])}
           next == [b \in A |-> IF b \in Done THEN b ELSE more(b)]
           left == [b \in A |-> b[3]]
           body(F) == [b \in A |->
                         IF b[3] <= days_per_month(b[1], b[2]) THEN b
                         ELSE IF b[2] = 12 THEN F[<<b[1] + 1, 1, b[3] - days_per_month(b[1], b[2])>>]
                         ELSE F[<<b[1], b[2] + 1, b[3] - days_per_month(b[1], b[2])>>]]
           loop == CHOOSE F : F = body(F)
           n == First(at[1], at[2]) + at[3]
           P == {b \in A : b[3] >= 1 /\ First(b[1], b[2]) + b[3] = n}
<1>1. ASSUME NEW b \in A
      PROVE  b[1] \in Int /\ b[2] \in 1..12 /\ b[3] \in Int /\ days_per_month(b[1], b[2]) = MonthDays(b[1], b[2])
             /\ MonthDays(b[1], b[2]) \in 28..31
  <2>1. b[1] \in Int /\ b[2] \in 1..12 /\ b[3] \in Int
    OBVIOUS
  <2> QED
    BY <2>1, MonthLength
<1>2. ASSUME NEW b \in A, b \notin Done
      PROVE  more(b) \in A /\ more(b)[3] >= 1 /\ more(b)[3] < b[3] /\ 0 < b[3]
             /\ First(more(b)[1], more(b)[2]) + more(b)[3] = First(b[1], b[2]) + b[3]
  <2>1. b[1] \in Int /\ b[2] \in 1..12 /\ b[3] \in Int /\ MonthDays(b[1], b[2]) < b[3]
    BY <1>1, <1>2
  <2> DEFINE y == b[1]
             m == b[2]
             d == b[3]
  <2> HIDE DEF y, m, d, A, Done, n, P, body, loop, next, left
  <2>2. y \in Int /\ m \in 1..12 /\ d \in Int /\ MonthDays(y, m) < d
    BY <2>1 DEF y, m, d
  <2> DEFINE to == IF m = 12 THEN <<y + 1, 1, d - days_per_month(y, m)>> ELSE <<y, m + 1, d - days_per_month(y, m)>>
  <2>3. /\ to \in Int \X (1..12) \X Int /\ to[3] >= 1 /\ to[3] < d /\ 0 < d
        /\ First(to[1], to[2]) + to[3] = First(y, m) + d
    BY <2>2, NextMonth
  <2>4. more(b) = to
    BY DEF y, m, d
  <2> HIDE DEF more, to
  <2> QED
    BY <2>3, <2>4 DEF A, y, m, d
<1>3. \A b \in A : next[b] = IF b \in Done THEN b ELSE more(b)
  OBVIOUS
<1>4. \A b \in A : left[b] = b[3] /\ left[b] \in Int
  OBVIOUS
<1>5. Falls(A, Done, next, left)
  <2>1. next \in [A -> A]
    <3> HIDE DEF A, Done, more
    <3> QED
      BY <1>2
  <2>2. left \in [A -> Int]
    BY <1>4
  <2> HIDE DEF A, Done, next, left, more
  <2>3. ASSUME NEW b \in A \ Done PROVE left[next[b]] < left[b] /\ 0 < left[b]
    BY <1>2, <1>3, <1>4
  <2> QED
    BY <2>1, <2>2, <2>3 DEF Falls
<1>6. \A F : Loop(F, A, Done, next) <=> F = body(F)
  <2> SUFFICES ASSUME NEW F PROVE Loop(F, A, Done, next) <=> F = body(F)
    OBVIOUS
  <2>1. ASSUME NEW b \in A PROVE (IF b \in Done THEN b ELSE F[next[b]]) = body(F)[b]
    <3>1. CASE b \in Done
      BY <3>1
    <3>2. CASE b \notin Done
      <4>1. next[b] = more(b)
        BY <3>2
      <4>2. ~(b[3] <= days_per_month(b[1], b[2]))
        BY <3>2
      <4>3. body(F)[b] = F[more(b)]
        BY <4>2
      <4> HIDE DEF next, more, body, Done
      <4> QED
        BY <3>2, <4>1, <4>3
    <3> QED
      BY <3>1, <3>2
  <2>2. body(F) = [b \in A |-> body(F)[b]]
    OBVIOUS
  <2> HIDE DEF body, A, Done, next
  <2>3. [b \in A |-> IF b \in Done THEN b ELSE F[next[b]]] = body(F)
    BY <2>1, <2>2
  <2> QED
    BY <2>3 DEF Loop
<1>7. loop = body(loop)
  <2>1. \E F : F = body(F)
    <3> HIDE DEF A, Done, next, left, body
    <3> QED
      BY <1>5, <1>6, LoopExists
  <2> HIDE DEF body
  <2> QED
    BY <2>1
<1>8. Loop(loop, A, Done, next)
  <2> HIDE DEF loop, A, Done, next, body
  <2> QED
    BY <1>6, <1>7
<1>9. SkipMonths(at) = loop[at]
  BY DEF SkipMonths
<1>10. P \subseteq A /\ at \in P
  OBVIOUS
<1>11. ASSUME NEW b \in P \ Done PROVE next[b] \in P
  <2>1. b \in A /\ b \notin Done /\ First(b[1], b[2]) + b[3] = n
    OBVIOUS
  <2> HIDE DEF A, Done, next, more, n, body, loop, left
  <2>2. next[b] = more(b) /\ more(b) \in A /\ more(b)[3] >= 1 /\ First(more(b)[1], more(b)[2]) + more(b)[3] = n
    BY <1>2, <1>3, <2>1
  <2> QED
    BY <2>2
<1>12. loop[at] \in P \cap Done
  <2> HIDE DEF loop, P, A, Done, next, left, body
  <2> QED
    BY <1>5, <1>8, <1>10, <1>11, LoopEnds
<1> DEFINE to == loop[at]
<1>13. to \in A /\ to[3] >= 1 /\ First(to[1], to[2]) + to[3] = n /\ to[3] <= days_per_month(to[1], to[2])
  <2> HIDE DEF loop, n
  <2> QED
    BY <1>12
<1> HIDE DEF loop, Done, next, left, body
<1>14. to[3] \in 1..MonthDays(to[1], to[2])
  BY <1>1, <1>13
<1> HIDE DEF to
<1> QED
  BY <1>9, <1>13, <1>14 DEF to

\* Counting months, which is left out for the first 28 days, ends at the date.
LEMMA MonthsCounted ==
  ASSUME NEW m \in 1..12, NEW at \in Int \X Int, at[2] >= 1
  PROVE  LET to == CountMonths(m, at) IN
         /\ to \in Int \X (1..12) \X Int /\ to[3] \in 1..MonthDays(to[1], to[2])
         /\ First(to[1], to[2]) + to[3] = First(at[1], m) + at[2]
<1> DEFINE b == <<at[1], m, at[2]>>
           to == CountMonths(m, at)
<1>1. b \in Int \X (1..12) \X Int /\ b[1] = at[1] /\ b[2] = m /\ b[3] = at[2] /\ at[1] \in Int /\ at[2] \in Int
  OBVIOUS
<1>2. to = IF at[2] > 28 THEN SkipMonths(b) ELSE b
  BY DEF CountMonths
<1> HIDE DEF b, to
<1>3. CASE at[2] > 28
  <2>1. b[3] >= 1
    BY <1>1
  <2>2. /\ SkipMonths(b) \in Int \X (1..12) \X Int /\ SkipMonths(b)[3] \in 1..MonthDays(SkipMonths(b)[1], SkipMonths(b)[2])
        /\ First(SkipMonths(b)[1], SkipMonths(b)[2]) + SkipMonths(b)[3] = First(b[1], b[2]) + b[3]
    BY <1>1, <2>1, MonthsSkipped
  <2>3. to = SkipMonths(b)
    BY <1>2, <1>3
  <2>4. /\ to \in Int \X (1..12) \X Int /\ to[3] \in 1..MonthDays(to[1], to[2])
        /\ First(to[1], to[2]) + to[3] = First(at[1], m) + at[2]
    BY <1>1, <2>2, <2>3
  <2> QED
    BY <2>4 DEF to
<1>4. CASE ~(at[2] > 28)
  <2>1. to = b
    BY <1>2, <1>4
  <2>2. MonthDays(at[1], m) \in 28..31
    BY <1>1, MonthLength
  <2>3. at[2] \in 1..MonthDays(at[1], m)
    BY <1>1, <1>4, <2>2
  <2>4. /\ to \in Int \X (1..12) \X Int /\ to[3] \in 1..MonthDays(to[1], to[2])
        /\ First(to[1], to[2]) + to[3] = First(at[1], m) + at[2]
    BY <1>1, <2>1, <2>3
  <2> QED
    BY <2>4 DEF to
<1> QED
  BY <1>3, <1>4

\* Where counting starts: whole cycles and the shortcuts do not change the day.
LEMMA CycleStarted ==
  ASSUME NEW y \in Int, NEW m \in 1..12, NEW d \in Int, NEW cd \in Int
  PROVE  LET to == CycleStart(y, m, d, cd) IN
         /\ to \in Int \X Int /\ to[2] >= 1
         /\ First(to[1], m) + to[2] = First(y, m) + d + cd
<1> DEFINE N == 146097
           c == Rem(cd, N)
           p == Quot(cd, N)
           e == Rem(d, N)
           q == Quot(d, N)
           neg == IF c < 0 THEN 1 ELSE 0
           k == p - neg + q
           days == e + c + (IF c < 0 THEN N ELSE 0)
           ey == y + 400 * p - (IF c < 0 THEN 400 ELSE 0) + 400 * q
           year == y + 400 * k
           to == CycleStart(y, m, d, cd)
<1>1. to = CASE days > N -> <<ey + 400, days - N>>
             [] days \in 1..N -> <<ey, days>>
             [] days \in -364..0 -> <<ey - 1, days + days_per_year(ey - 1, m)>>
             [] OTHER -> <<ey - 400, days + N>>
  BY SMT DEF CycleStart
<1>2. N \in Nat \ {0} /\ N > 365
  BY SMT
<1>3. \A j \in Int : First(y + 400 * j, m) = First(y, m) + N * j
  <2>1. ASSUME NEW j \in Int PROVE First(y + 400 * j, m) = First(y, m) + N * j
    BY Cycles, SMT
  <2> QED
    BY <2>1, SMT
<1>4. \A j \in Int : N * j + N * 1 = N * (j + 1) /\ N * j - N * 1 = N * (j - 1)
  BY SMT
<1>5. \A j, i, l \in Int : N * (j - i + l) = N * j - N * i + N * l /\ N * j \in Int
  BY SMT
<1>6. N * 1 = N /\ N * 0 = 0
  BY SMT
<1> HIDE DEF N
<1>7. c \in Int /\ p \in Int /\ cd = N * p + c /\ c \in -(N - 1)..N - 1
  <2>1. /\ Quot(cd, N) \in Int /\ Rem(cd, N) \in Int /\ cd = N * Quot(cd, N) + Rem(cd, N)
        /\ (cd >= 0 => Rem(cd, N) \in 0..N - 1) /\ (cd < 0 => Rem(cd, N) \in -(N - 1)..0)
    BY <1>2, QuotRem
  <2> QED
    BY <1>2, <2>1
<1>8. e \in Int /\ q \in Int /\ d = N * q + e /\ e \in -(N - 1)..N - 1
  <2>1. /\ Quot(d, N) \in Int /\ Rem(d, N) \in Int /\ d = N * Quot(d, N) + Rem(d, N)
        /\ (d >= 0 => Rem(d, N) \in 0..N - 1) /\ (d < 0 => Rem(d, N) \in -(N - 1)..0)
    BY <1>2, QuotRem
  <2> QED
    BY <1>2, <2>1
<1> HIDE DEF c, p, e, q
<1>9. neg \in Int /\ k \in Int /\ ey = year /\ year \in Int
  BY <1>7, <1>8
<1>10. First(year, m) = First(y, m) + N * k /\ First(y, m) \in Int
  <2>1. k \in Int
    BY <1>9
  <2> HIDE DEF k
  <2>2. First(year, m) = First(y, m) + N * k
    BY <1>3, <2>1
  <2>3. First(y, m) \in Int
    BY FirstIs, ZenonT(60)
  <2> QED
    BY <2>2, <2>3
<1>11. days \in Int /\ days = e + c + N * neg /\ e + c + N * neg > -N
  BY <1>2, <1>6, <1>7, <1>8
<1>12. N * k = N * p - N * neg + N * q /\ N * p \in Int /\ N * neg \in Int /\ N * q \in Int
  <2>1. neg \in Int
    BY <1>9
  <2> HIDE DEF neg
  <2>2. p \in Int /\ q \in Int
    BY <1>7, <1>8
  <2>3. N * (p - neg + q) = N * p - N * neg + N * q
    BY <2>1, <2>2, SMT DEF N
  <2>4. N * p \in Int /\ N * neg \in Int /\ N * q \in Int
    BY <1>2, <2>1, <2>2
  <2> QED
    BY <2>3, <2>4
<1> DEFINE x == First(year, m)
           n == First(y, m)
<1>13. x \in Int /\ n \in Int /\ x + days = n + d + cd
  <2> HIDE DEF n
  <2>0. n \in Int /\ x = n + N * k
    BY <1>10 DEF n
  <2> HIDE DEF x, k, days, neg
  <2> DEFINE g == N * p
             h == N * q
             i == N * neg
             j == N * k
  <2>1. g \in Int /\ h \in Int /\ i \in Int /\ j = g - i + h /\ cd = g + c /\ d = h + e /\ days = e + c + i /\ x = n + j
    BY <1>7, <1>8, <1>11, <1>12, <2>0
  <2> HIDE DEF g, h, i, j
  <2> QED
    BY <1>7, <1>8, <2>0, <2>1
<1> HIDE DEF k, days, neg, ey, year
<1>14. to = CASE days > N -> <<year + 400, days - N>>
             [] days \in 1..N -> <<year, days>>
             [] days \in -364..0 -> <<year - 1, days + days_per_year(year - 1, m)>>
             [] OTHER -> <<year - 400, days + N>>
  BY <1>1, <1>9
<1> HIDE DEF to
<1>15. First(year + 400, m) = First(year, m) + N /\ First(year - 400, m) = First(year, m) - N
  <2>1. PICK one \in Int : one = 1
    OBVIOUS
  <2>2. PICK mone \in Int : mone = -1
    OBVIOUS
  <2>3. /\ First(year + 400 * one, m) = First(year, m) + 146097 * one
        /\ First(year + 400 * mone, m) = First(year, m) + 146097 * mone
    BY <1>9, Cycles, SMT
  <2>4. year + 400 * one = year + 400 /\ year + 400 * mone = year - 400
    BY <1>9, <2>1, <2>2
  <2>5. First(year, m) \in Int
    BY <1>13 DEF x
  <2>6. 146097 * one = N /\ 146097 * mone = -N
    BY <2>1, <2>2, SMT DEF N
  <2> QED
    BY <1>2, <2>3, <2>4, <2>5, <2>6
<1>16. days_per_year(year - 1, m) \in {365, 366} /\ First(year, m) = First(year - 1, m) + days_per_year(year - 1, m)
       /\ First(year - 1, m) \in Int
  <2> DEFINE z == year - 1
  <2>1. z \in Int /\ z + 1 = year
    BY <1>9
  <2> HIDE DEF z
  <2>2. days_per_year(z, m) \in {365, 366}
    BY <2>1, YearLength, SMTT(30)
  <2>3. First(z + 1, m) = First(z, m) + days_per_year(z, m)
    BY <2>1, YearLength, SMTT(30)
  <2>4. First(z, m) \in Int
    BY <2>1, FirstIs, ZenonT(60)
  <2> QED
    BY <2>1, <2>2, <2>3, <2>4 DEF z
<1> DEFINE to1 == to[1]
           to2 == to[2]
<1>17. CASE days > N
  <2>1. to = <<year + 400, days - N>>
    BY <1>2, <1>11, <1>14, <1>17
  <2> QED
    BY <1>2, <1>9, <1>11, <1>13, <1>15, <1>17, <2>1 DEF to
<1>18. CASE days \in 1..N
  <2>1. to = <<year, days>>
    BY <1>2, <1>14, <1>18
  <2> QED
    BY <1>9, <1>13, <1>18, <2>1 DEF to
<1>19. CASE days \in -364..0
  <2>1. to = <<year - 1, days + days_per_year(year - 1, m)>>
    BY <1>2, <1>14, <1>19
  <2> QED
    BY <1>9, <1>11, <1>13, <1>16, <1>19, <2>1 DEF to
<1>20. CASE days < -364
  <2>1. to = <<year - 400, days + N>>
    BY <1>2, <1>11, <1>14, <1>20
  <2> QED
    BY <1>2, <1>9, <1>11, <1>13, <1>15, <1>20, <2>1 DEF to
<1> QED
  BY <1>2, <1>11, <1>17, <1>18, <1>19, <1>20

\* The same two facts about a day, one at a time.
LEMMA FirstTyped == \A y \in Int, m \in 1..12 : First(y, m) \in Int
BY FirstIs

\* A day is so many days after the first of its month.
LEMMA DayFromFirst == \A y \in Int, m \in 1..12, d \in Int : DayNumber(y, m, d) = First(y, m) + d - 1
BY FirstInt

\* at, a year and days, is n days after what First counts from.
Reaches(at, m, n) == at \in Int \X Int /\ at[2] >= 1 /\ First(at[1], m) + at[2] = n

\* CycleStarted, in one word.
LEMMA CycleReaches ==
  \A y \in Int, m \in 1..12, d \in Int, cd \in Int : Reaches(CycleStart(y, m, d, cd), m, First(y, m) + d + cd)
<1> SUFFICES ASSUME NEW y \in Int, NEW m \in 1..12, NEW d \in Int, NEW cd \in Int
             PROVE  Reaches(CycleStart(y, m, d, cd), m, First(y, m) + d + cd)
  OBVIOUS
<1> QED
  BY CycleStarted DEF Reaches

------------------------------------------------------------------------------
(* Normalisation: any six numbers name a date and time *)

\* The fields of a date and time.
Fields == [y : Int, m : Int, d : Int, hh : Int, mm : Int, ss : Int]

\* A value of six fields that is a date and time.
DateTime(g) == g \in Fields /\ Valid(g)

\* g is the time hh:mm:ss of day number day.
Names(g, day, hh, mm, ss) ==
  DateTime(g) /\ DayNumber(g.y, g.m, g.d) = day /\ g.hh = hh /\ g.mm = mm /\ g.ss = ss

\* n_day names the day that is d - 1 and cd days after the first of month m.
LEMMA DayCounted ==
  ASSUME NEW y \in Int, NEW m \in 1..12, NEW d \in Int, NEW cd \in Int,
         NEW hh \in 0..23, NEW mm \in 0..59, NEW ss \in 0..59
  PROVE  Names(n_day(y, m, d, cd, hh, mm, ss), First(y, m) + d + cd - 1, hh, mm, ss)
<1> DEFINE e == Rem(y, 400)
           q == Quot(y, 400)
           a == CycleStart(e, m, d, cd)
           b == CountYears(m, a)
           c == CountMonths(m, b)
           g == n_day(y, m, d, cd, hh, mm, ss)
<1>1. e \in Int /\ q \in Int /\ y = 400 * q + e
  <2>1. PICK n \in Nat \ {0} : n = 400
    OBVIOUS
  <2>2. Quot(y, n) \in Int /\ Rem(y, n) \in Int /\ y = n * Quot(y, n) + Rem(y, n)
    BY QuotRem
  <2> QED
    BY <2>1, <2>2
<1>2. g = Dated(y, c, hh, mm, ss)
  BY DEF n_day
<1> HIDE DEF g
<1>3. g = [y |-> y + (c[1] - e), m |-> c[2], d |-> c[3], hh |-> hh, mm |-> mm, ss |-> ss]
  BY <1>2 DEF Dated, fields
<1> HIDE DEF e, q
<1>4. a \in Int \X Int /\ a[2] >= 1 /\ First(a[1], m) + a[2] = First(e, m) + d + cd
  <2>1. Reaches(a, m, First(e, m) + d + cd)
    BY <1>1, CycleReaches
  <2> HIDE DEF a
  <2> QED
    BY <2>1 DEF Reaches
<1> HIDE DEF a
<1>5. b \in Int \X Int /\ b[2] >= 1 /\ First(b[1], m) + b[2] = First(a[1], m) + a[2]
  BY <1>4, YearsCounted
<1> HIDE DEF b
<1>6. /\ c \in Int \X (1..12) \X Int /\ c[3] \in 1..MonthDays(c[1], c[2])
      /\ First(c[1], c[2]) + c[3] = First(b[1], m) + b[2]
  BY <1>5, MonthsCounted
<1> HIDE DEF c
<1> DEFINE y1 == c[1]
           m1 == c[2]
           d1 == c[3]
           z == y + (c[1] - e)
<1>7. y1 \in Int /\ m1 \in 1..12 /\ d1 \in Int /\ d1 \in 1..MonthDays(y1, m1)
      /\ First(y1, m1) + d1 = First(e, m) + d + cd
  BY <1>4, <1>5, <1>6
<1>8. z \in Int /\ z = y1 + 400 * q
  BY <1>1, <1>7
<1> HIDE DEF y1, m1, d1, z
<1>9. /\ First(y1 + 400 * q, m1) = First(y1, m1) + 146097 * q
      /\ MonthDays(y1 + 400 * q, m1) = MonthDays(y1, m1)
  BY <1>1, <1>7, Cycles, SMT
<1>10. First(e + 400 * q, m) = First(e, m) + 146097 * q
  BY <1>1, Cycles, SMT
<1>11. y = e + 400 * q
  BY <1>1
<1>12. /\ First(z, m1) \in Int /\ First(y1, m1) \in Int /\ First(e, m) \in Int /\ First(y, m) \in Int
       /\ DayNumber(z, m1, d1) = First(z, m1) + d1 - 1
  <2>0. z \in Int /\ y1 \in Int /\ e \in Int /\ m1 \in 1..12 /\ d1 \in Int
    BY <1>1, <1>7, <1>8
  <2>1. First(z, m1) \in Int
    BY <2>0, FirstTyped, Zenon
  <2>2. First(y1, m1) \in Int
    BY <2>0, FirstTyped, Zenon
  <2>3. First(e, m) \in Int
    BY <2>0, FirstTyped, Zenon
  <2>4. First(y, m) \in Int
    BY FirstTyped, Zenon
  <2>5. DayNumber(z, m1, d1) = First(z, m1) + d1 - 1
    BY <2>0, DayFromFirst, Zenon
  <2> QED
    BY <2>1, <2>2, <2>3, <2>4, <2>5, Zenon
<1>13. DayNumber(z, m1, d1) = First(y, m) + d + cd - 1
  <2> DEFINE N == 146097 * q
  <2>1. N \in Int
    BY <1>1, SMT
  <2>2. First(z, m1) = First(y1, m1) + N /\ First(y, m) = First(e, m) + N
    BY <1>8, <1>9, <1>10, <1>11, SMT
  <2> HIDE DEF N
  <2> QED
    BY <1>7, <1>12, <2>1, <2>2
<1>14. d1 \in 1..MonthDays(z, m1)
  <2>1. MonthDays(z, m1) = MonthDays(y1, m1)
    BY <1>8, <1>9
  <2> QED
    BY <1>7, <2>1
<1>15. g = [y |-> z, m |-> m1, d |-> d1, hh |-> hh, mm |-> mm, ss |-> ss]
  BY <1>3 DEF z, m1, d1
<1>16. g.y = z /\ g.m = m1 /\ g.d = d1 /\ g.hh = hh /\ g.mm = mm /\ g.ss = ss /\ g \in Fields
  BY <1>7, <1>8, <1>15 DEF Fields
<1>17. Valid(g)
  BY <1>7, <1>8, <1>14, <1>16 DEF Valid
<1>18. DayNumber(g.y, g.m, g.d) = First(y, m) + d + cd - 1
  BY <1>13, <1>16
<1> QED
  BY <1>16, <1>17, <1>18 DEF Names, DateTime, g

\* The first of the month that any two numbers name.
MonthStart(y, m) == First(y + ((m - 1) \div 12), ((m - 1) % 12) + 1)

\* It is the number of a day, and that of a month in 1..12 itself.
LEMMA MonthStartInt ==
  ASSUME NEW y \in Int, NEW m \in Int
  PROVE  MonthStart(y, m) \in Int /\ (m \in 1..12 => MonthStart(y, m) = First(y, m))
<1> DEFINE z == y + ((m - 1) \div 12)
           k == ((m - 1) % 12) + 1
<1>1. z \in Int /\ k \in 1..12 /\ (m \in 1..12 => z = y /\ k = m)
  OBVIOUS
<1> HIDE DEF z, k
<1>2. First(z, k) \in Int
  BY <1>1, FirstIs
<1> QED
  BY <1>1, <1>2 DEF MonthStart, z, k

\* n_mon carries months into years and counts days from there.
LEMMA MonthCarried ==
  ASSUME NEW y \in Int, NEW m \in Int, NEW d \in Int, NEW cd \in Int,
         NEW hh \in 0..23, NEW mm \in 0..59, NEW ss \in 0..59
  PROVE  Names(n_mon(y, m, d, cd, hh, mm, ss), MonthStart(y, m) + d + cd - 1, hh, mm, ss)
<1> DEFINE r == Rem(m, 12)
           z == y + Quot(m, 12) - Bit(r <= 0)
           k == IF r <= 0 THEN r + 12 ELSE r
<1>1. z = y + ((m - 1) \div 12) /\ k = ((m - 1) % 12) + 1 /\ z \in Int /\ k \in 1..12
  BY DEF Rem, Quot, Bit
<1>2. n_mon(y, m, d, cd, hh, mm, ss) = n_day(z, k, d, cd, hh, mm, ss)
  BY DEF n_mon
<1> HIDE DEF z, k
<1>3. Names(n_day(z, k, d, cd, hh, mm, ss), First(z, k) + d + cd - 1, hh, mm, ss)
  BY <1>1, DayCounted
<1>4. First(z, k) = MonthStart(y, m)
  BY <1>1 DEF MonthStart
<1> QED
  BY <1>2, <1>3, <1>4

\* A negative remainder borrows one: carry and rest are the quotient and remainder rounded down.
LEMMA Carries ==
  ASSUME NEW c \in Int, NEW x \in Int
  PROVE  /\ Carry(c, x, 24) = [carry |-> c + (x \div 24), rest |-> x % 24]
         /\ Carry(c, x, 60) = [carry |-> c + (x \div 60), rest |-> x % 60]
<1>1. ASSUME NEW n \in {24, 60} PROVE Carry(c, x, n) = [carry |-> c + (x \div n), rest |-> x % n]
  <2> DEFINE r == Rem(x, n)
             a == c + Quot(x, n) - Bit(r < 0)
             b == IF r < 0 THEN r + n ELSE r
  <2>1. CASE n = 24
    <3>1. a = c + (x \div 24) /\ b = x % 24
      BY <2>1 DEF Rem, Quot, Bit
    <3>2. Carry(c, x, n) = [carry |-> a, rest |-> b]
      BY DEF Carry
    <3> HIDE DEF a, b
    <3> QED
      BY <2>1, <3>1, <3>2
  <2>2. CASE n = 60
    <3>1. a = c + (x \div 60) /\ b = x % 60
      BY <2>2 DEF Rem, Quot, Bit
    <3>2. Carry(c, x, n) = [carry |-> a, rest |-> b]
      BY DEF Carry
    <3> HIDE DEF a, b
    <3> QED
      BY <2>2, <3>1, <3>2
  <2> QED
    BY <2>1, <2>2
<1> QED
  BY <1>1, Zenon

\* n_hour carries hours into days, also negative ones.
LEMMA HoursCarried ==
  ASSUME NEW y \in Int, NEW m \in Int, NEW d \in Int, NEW cd \in Int,
         NEW hh \in Int, NEW mm \in 0..59, NEW ss \in 0..59
  PROVE  Names(n_hour(y, m, d, cd, hh, mm, ss), MonthStart(y, m) + d - 1 + ((24 * cd + hh) \div 24), (24 * cd + hh) % 24, mm, ss)
<1> DEFINE c == cd + (hh \div 24)
           h == hh % 24
           s == MonthStart(y, m)
<1>1. n_hour(y, m, d, cd, hh, mm, ss) = n_mon(y, m, d, c, h, mm, ss)
  <2>1. Carry(cd, hh, 24) = [carry |-> c, rest |-> h]
    BY Carries
  <2> HIDE DEF c, h
  <2>2. Carry(cd, hh, 24).carry = c /\ Carry(cd, hh, 24).rest = h
    BY <2>1
  <2> QED
    BY <2>2 DEF n_hour
<1>2. c = (24 * cd + hh) \div 24 /\ h = (24 * cd + hh) % 24 /\ c \in Int /\ h \in 0..23
  OBVIOUS
<1> HIDE DEF c, h
<1>3. Names(n_mon(y, m, d, c, h, mm, ss), s + d + c - 1, h, mm, ss)
  BY <1>2, MonthCarried
<1>4. s \in Int
  BY MonthStartInt
<1> HIDE DEF s
<1>5. s + d + c - 1 = s + d - 1 + c
  BY <1>2, <1>4
<1>6. Names(n_hour(y, m, d, cd, hh, mm, ss), s + d - 1 + c, h, mm, ss)
  BY <1>1, <1>3, <1>5
<1> QED
  BY <1>2, <1>6 DEF s

\* n_min carries minutes into hours.
LEMMA MinutesCarried ==
  ASSUME NEW y \in Int, NEW m \in Int, NEW d \in Int,
         NEW hh \in Int, NEW ch \in Int, NEW mm \in Int, NEW ss \in 0..59
  PROVE  LET t == hh + ch + (mm \div 60) IN
         Names(n_min(y, m, d, hh, ch, mm, ss), MonthStart(y, m) + d - 1 + (t \div 24), t % 24, mm % 60, ss)
<1> DEFINE t == hh + ch + (mm \div 60)
           c == ch + (mm \div 60)
           n == mm % 60
           cd == Quot(hh, 24) + Quot(c, 24)
           h == Rem(hh, 24) + Rem(c, 24)
<1>1. n_min(y, m, d, hh, ch, mm, ss) = n_hour(y, m, d, cd, h, n, ss)
  <2>1. Carry(ch, mm, 60) = [carry |-> c, rest |-> n]
    BY Carries
  <2> HIDE DEF c, n
  <2>2. Carry(ch, mm, 60).carry = c /\ Carry(ch, mm, 60).rest = n
    BY <2>1
  <2> QED
    BY <2>2 DEF n_min
<1>2. c \in Int /\ n \in 0..59 /\ t = hh + c
  OBVIOUS
<1> HIDE DEF c, n
<1>3. \A x \in Int : Quot(x, 24) \in Int /\ Rem(x, 24) \in Int /\ x = 24 * Quot(x, 24) + Rem(x, 24)
  BY DEF Quot, Rem
<1>4. cd \in Int /\ h \in Int /\ 24 * cd + h = t
  <2> DEFINE a == Quot(hh, 24)
             b == Rem(hh, 24)
             e == Quot(c, 24)
             g == Rem(c, 24)
  <2>1. a \in Int /\ b \in Int /\ e \in Int /\ g \in Int /\ hh = 24 * a + b /\ c = 24 * e + g
    BY <1>2, <1>3
  <2> HIDE DEF a, b, e, g, t
  <2>2. a + e \in Int /\ b + g \in Int /\ 24 * (a + e) + (b + g) = t
    BY <1>2, <2>1
  <2> QED
    BY <2>2 DEF a, b, e, g
<1> HIDE DEF cd, h, t
<1>5. Names(n_hour(y, m, d, cd, h, n, ss), MonthStart(y, m) + d - 1 + ((24 * cd + h) \div 24), (24 * cd + h) % 24, n, ss)
  BY <1>2, <1>4, HoursCarried
<1>6. Names(n_min(y, m, d, hh, ch, mm, ss), MonthStart(y, m) + d - 1 + (t \div 24), t % 24, n, ss)
  BY <1>1, <1>4, <1>5
<1> QED
  BY <1>6 DEF t, n

\* Quotient and remainder by 60, and what they do in a sum.
LEMMA Sixty ==
  /\ \A x \in Int : Quot(x, 60) \in Int /\ Rem(x, 60) \in Int /\ x = 60 * Quot(x, 60) + Rem(x, 60)
  /\ \A x \in Int, q \in Int, r \in Int : x = 60 * q + r => x \div 60 = q + (r \div 60) /\ x % 60 = r % 60
<1>1. \A x \in Int : Quot(x, 60) \in Int /\ Rem(x, 60) \in Int /\ x = 60 * Quot(x, 60) + Rem(x, 60)
  BY DEF Quot, Rem
<1>2. \A x \in Int, q \in Int, r \in Int : x = 60 * q + r => x \div 60 = q + (r \div 60) /\ x % 60 = r % 60
  OBVIOUS
<1> QED
  BY <1>1, <1>2

\* The time of six numbers: minutes with the carry of the seconds, hours with theirs.
Minutes(mm, ss) == mm + (ss \div 60)
Hours(hh, mm, ss) == hh + (Minutes(mm, ss) \div 60)

\* g is the date and time that any six numbers stand for.
Stands(g, y, m, d, hh, mm, ss) ==
  Names(g, MonthStart(y, m) + d - 1 + (Hours(hh, mm, ss) \div 24), Hours(hh, mm, ss) % 24, Minutes(mm, ss) % 60, ss % 60)

\* n_sec, whichever of its five ways it goes, names what the six numbers stand for.
LEMMA SecondsCarried ==
  ASSUME NEW y \in Int, NEW m \in Int, NEW d \in Int, NEW hh \in Int, NEW mm \in Int, NEW ss \in Int
  PROVE  Stands(n_sec(y, m, d, hh, mm, ss), y, m, d, hh, mm, ss)
<1> DEFINE u == Minutes(mm, ss)
           v == Hours(hh, mm, ss)
           s == MonthStart(y, m)
           g == n_sec(y, m, d, hh, mm, ss)
           Inside == ss \in 0..59 /\ mm \in 0..59 /\ hh \in 0..23
<1>1. u = mm + (ss \div 60) /\ v = hh + (u \div 60) /\ u \in Int /\ v \in Int
  BY DEF Minutes, Hours
<1>2. s \in Int
  BY MonthStartInt
<1> HIDE DEF u, v, s
<1> SUFFICES Names(g, s + d - 1 + (v \div 24), v % 24, u % 60, ss % 60)
  BY DEF Stands, u, v, s
<1>3. CASE Inside /\ d \in 1..28 /\ m \in 1..12
  <2>1. g = fields(y, m, d, hh, mm, ss)
    BY <1>3 DEF n_sec
  <2>2. v \div 24 = 0 /\ v % 24 = hh /\ u % 60 = mm /\ ss % 60 = ss
    BY <1>1, <1>3
  <2>3. s = First(y, m) /\ MonthDays(y, m) \in 28..31
    BY <1>3, MonthStartInt, MonthLength DEF s
  <2>4. DayNumber(y, m, d) = s + d - 1
    BY <1>3, <2>3, DayFromFirst
  <2> HIDE DEF g
  <2>5. /\ g \in Fields /\ g.y = y /\ g.m = m /\ g.d = d /\ g.hh = hh /\ g.mm = mm /\ g.ss = ss
    BY <2>1 DEF fields, Fields
  <2>6. Valid(g)
    <3>1. d \in 1..MonthDays(y, m)
      BY <1>3, <2>3
    <3> QED
      BY <1>3, <2>5, <3>1 DEF Valid
  <2>7. DayNumber(g.y, g.m, g.d) = s + d - 1
    BY <2>4, <2>5
  <2>8. Names(g, s + d - 1, hh, mm, ss)
    BY <2>5, <2>6, <2>7 DEF Names, DateTime
  <2>9. s + d - 1 + (v \div 24) = s + d - 1
    BY <1>2, <2>2
  <2> QED
    BY <2>2, <2>8, <2>9
<1>4. CASE Inside /\ ~(d \in 1..28 /\ m \in 1..12)
  <2>1. g = n_mon(y, m, d, 0, hh, mm, ss)
    BY <1>4 DEF n_sec
  <2>2. v \div 24 = 0 /\ v % 24 = hh /\ u % 60 = mm /\ ss % 60 = ss
    BY <1>1, <1>4
  <2> HIDE DEF g
  <2>3. PICK zero \in Int : zero = 0
    OBVIOUS
  <2>4. Names(n_mon(y, m, d, zero, hh, mm, ss), s + d + zero - 1, hh, mm, ss)
    BY <1>4, MonthCarried DEF s
  <2>5. s + d + zero - 1 = s + d - 1 + (v \div 24)
    BY <1>2, <2>2, <2>3
  <2>6. g = n_mon(y, m, d, zero, hh, mm, ss)
    BY <2>1, <2>3
  <2> QED
    BY <2>2, <2>4, <2>5, <2>6
<1>5. CASE ss \in 0..59 /\ mm \in 0..59 /\ hh \notin 0..23
  <2> DEFINE q == Quot(hh, 24)
             r == Rem(hh, 24)
  <2>1. g = n_hour(y, m, d, q, r, mm, ss)
    BY <1>5 DEF n_sec
  <2>2. v = hh /\ u % 60 = mm /\ ss % 60 = ss
    BY <1>1, <1>5
  <2>3. q \in Int /\ r \in Int /\ 24 * q + r = hh
    BY DEF Quot, Rem
  <2> HIDE DEF g, q, r
  <2>4. Names(n_hour(y, m, d, q, r, mm, ss), s + d - 1 + ((24 * q + r) \div 24), (24 * q + r) % 24, mm, ss)
    BY <1>5, <2>3, HoursCarried DEF s
  <2> QED
    BY <2>1, <2>2, <2>3, <2>4
<1>6. CASE ss \in 0..59 /\ mm \notin 0..59
  <2> DEFINE q == Quot(mm, 60)
             r == Rem(mm, 60)
             t == hh + q + (r \div 60)
  <2>1. g = n_min(y, m, d, hh, q, r, ss)
    BY <1>6 DEF n_sec
  <2>2. u = mm /\ ss % 60 = ss
    BY <1>1, <1>6
  <2>3. q \in Int /\ r \in Int /\ mm = 60 * q + r
    BY Sixty
  <2> HIDE DEF g, q, r
  <2>4. mm \div 60 = q + (r \div 60) /\ mm % 60 = r % 60
    BY <2>3, Sixty
  <2>5. Names(n_min(y, m, d, hh, q, r, ss), s + d - 1 + (t \div 24), t % 24, r % 60, ss)
    BY <1>6, <2>3, MinutesCarried DEF s
  <2>6. t = v
    BY <1>1, <2>2, <2>3, <2>4
  <2> QED
    BY <2>1, <2>2, <2>4, <2>5, <2>6
<1>7. CASE ss \notin 0..59
  <2> DEFINE c == ss \div 60
             n == ss % 60
             q1 == Quot(mm, 60)
             r1 == Rem(mm, 60)
             q2 == Quot(c, 60)
             r2 == Rem(c, 60)
             q == q1 + q2
             r == r1 + r2
             t == hh + q + (r \div 60)
  <2>1. g = n_min(y, m, d, hh, q, r, n)
    <3>1. PICK zero \in Int : zero = 0
      OBVIOUS
    <3>2. Carry(zero, ss, 60) = [carry |-> zero + (ss \div 60), rest |-> ss % 60]
      BY Carries
    <3>3. Carry(0, ss, 60).carry = c /\ Carry(0, ss, 60).rest = n
      BY <3>1, <3>2
    <3>4. g = n_min(y, m, d, hh, Quot(mm, 60) + Quot(Carry(0, ss, 60).carry, 60),
                    Rem(mm, 60) + Rem(Carry(0, ss, 60).carry, 60), Carry(0, ss, 60).rest)
      BY <1>7 DEF n_sec
    <3> QED
      BY <3>3, <3>4
  <2>2. c \in Int /\ n \in 0..59 /\ u = mm + c
    BY <1>1
  <2> HIDE DEF c, n, g
  <2>3. q1 \in Int /\ r1 \in Int /\ mm = 60 * q1 + r1 /\ q2 \in Int /\ r2 \in Int /\ c = 60 * q2 + r2
    BY <2>2, Sixty
  <2> HIDE DEF q1, r1, q2, r2
  <2>4. q \in Int /\ r \in Int /\ u = 60 * q + r
    BY <2>2, <2>3
  <2> HIDE DEF q, r
  <2>5. u \div 60 = q + (r \div 60) /\ u % 60 = r % 60
    BY <1>1, <2>4, Sixty
  <2>6. Names(n_min(y, m, d, hh, q, r, n), s + d - 1 + (t \div 24), t % 24, r % 60, n)
    BY <2>2, <2>4, MinutesCarried DEF s
  <2>7. t = v
    BY <1>1, <2>4, <2>5
  <2> QED
    BY <2>1, <2>5, <2>6, <2>7 DEF n
<1> QED
  BY <1>3, <1>4, <1>5, <1>6, <1>7

\* A count of units, from the day and the time.
CountOf(u, day, hh, mm, ss) ==
  CASE u = "day" -> day
    [] u = "hour" -> day * 24 + hh
    [] u = "minute" -> day * 1440 + (hh * 60 + mm)
    [] u = "second" -> (day * 1440 + (hh * 60 + mm)) * 60 + ss

\* The units that a constructor takes all six numbers for.
Times == {"second", "minute", "hour", "day"}

\* The count of a date and time.
LEMMA CountNamed ==
  ASSUME NEW g, NEW day \in Int, NEW hh \in Int, NEW mm \in Int, NEW ss \in Int, Names(g, day, hh, mm, ss), NEW u \in Times
  PROVE  RawIndex(u, <<g.y, g.m, g.d, g.hh, g.mm, g.ss>>) = CountOf(u, day, hh, mm, ss) /\ CountOf(u, day, hh, mm, ss) \in Int
<1> DEFINE r == <<g.y, g.m, g.d, g.hh, g.mm, g.ss>>
           n == RawDay(r)
           t == RawMinute(r)
<1>1. /\ g.y \in Int /\ g.m \in 1..12 /\ g.d \in Int /\ hh \in 0..23 /\ mm \in 0..59 /\ ss \in 0..59
      /\ DayNumber(g.y, g.m, g.d) = day /\ g.hh = hh /\ g.mm = mm /\ g.ss = ss
  BY DEF Names, DateTime, Valid, Fields
<1>7a. RawIndex(u, r) = CASE u = "day" -> n + (t \div 1440)
                         [] u = "hour" -> (n + (t \div 1440)) * 24 + ((t % 1440) \div 60)
                         [] u = "minute" -> (n + (t \div 1440)) * 1440 + (t % 1440)
                         [] u = "second" -> ((n + (t \div 1440)) * 1440 + (t % 1440)) * 60 + (r[6] % 60)
  BY Zenon DEF RawIndex
<1>2. r[1] = g.y /\ r[2] = g.m /\ r[3] = g.d /\ r[4] = hh /\ r[5] = mm /\ r[6] = ss
  BY <1>1
<1> HIDE DEF r
<1>3. n = day
  <2>1. (g.m - 1) \div 12 = 0 /\ (g.m - 1) % 12 = g.m - 1
    BY <1>1
  <2>2. g.y + ((g.m - 1) \div 12) = g.y /\ ((g.m - 1) % 12) + 1 = g.m
    BY <1>1, <2>1
  <2>3. n = First(g.y, g.m) + g.d - 1
    BY <1>2, <2>2 DEF RawDay, First
  <2>4. DayNumber(g.y, g.m, g.d) = First(g.y, g.m) + g.d - 1
    BY <1>1, DayFromFirst
  <2> QED
    BY <1>1, <2>3, <2>4
<1>4. t = hh * 60 + mm /\ t \in 0..1439 /\ ss % 60 = ss
  BY <1>1, <1>2 DEF RawMinute
<1> HIDE DEF n, t
<1>5. t \div 1440 = 0 /\ t % 1440 = t /\ t \div 60 = hh
  BY <1>1, <1>4
<1>6. n + (t \div 1440) = day
  BY <1>3, <1>5
<1>7. RawIndex(u, r) = CASE u = "day" -> n + (t \div 1440)
                         [] u = "hour" -> (n + (t \div 1440)) * 24 + ((t % 1440) \div 60)
                         [] u = "minute" -> (n + (t \div 1440)) * 1440 + (t % 1440)
                         [] u = "second" -> ((n + (t \div 1440)) * 1440 + (t % 1440)) * 60 + (ss % 60)
  BY <1>2, <1>7a
<1>8. CASE u = "day"
  <2>1. RawIndex(u, r) = day
    BY <1>6, <1>7, <1>8
  <2> QED
    BY <1>8, <2>1 DEF CountOf, r
<1>9. CASE u = "hour"
  <2>1. RawIndex(u, r) = day * 24 + hh
    BY <1>5, <1>6, <1>7, <1>9
  <2> QED
    BY <1>9, <2>1 DEF CountOf, r
<1>10. CASE u = "minute"
  <2>1. RawIndex(u, r) = day * 1440 + (hh * 60 + mm)
    BY <1>4, <1>5, <1>6, <1>7, <1>10
  <2> QED
    BY <1>10, <2>1 DEF CountOf, r
<1>11. CASE u = "second"
  <2>1. RawIndex(u, r) = (day * 1440 + (hh * 60 + mm)) * 60 + ss
    BY <1>4, <1>5, <1>6, <1>7, <1>11
  <2> QED
    BY <1>11, <2>1 DEF CountOf, r
<1> QED
  BY <1>8, <1>9, <1>10, <1>11 DEF Times

\* Any six numbers.
Six == Int \X Int \X Int \X Int \X Int \X Int

\* The count that any six numbers name, from the carries.
LEMMA CountRaw ==
  ASSUME NEW r \in Six, NEW u \in Times
  PROVE  RawIndex(u, r) = CountOf(u, MonthStart(r[1], r[2]) + r[3] - 1 + (Hours(r[4], r[5], r[6]) \div 24),
                                  Hours(r[4], r[5], r[6]) % 24, Minutes(r[5], r[6]) % 60, r[6] % 60)
<1> DEFINE y == r[1]
           m == r[2]
           d == r[3]
           hh == r[4]
           mm == r[5]
           ss == r[6]
           a == Minutes(mm, ss)
           b == Hours(hh, mm, ss)
           n == RawDay(r)
           t == RawMinute(r)
           s == MonthStart(y, m)
<1>1. y \in Int /\ m \in Int /\ d \in Int /\ hh \in Int /\ mm \in Int /\ ss \in Int
  BY DEF Six
<1>2. n = s + d - 1
  BY DEF RawDay, MonthStart, First
<1>2a. s \in Int
  BY <1>1, MonthStartInt
<1>3. t = hh * 60 + mm + (ss \div 60)
  BY DEF RawMinute
<1>4. a = mm + (ss \div 60) /\ b = hh + (a \div 60)
  BY DEF Minutes, Hours
<1>5. RawIndex(u, r) = CASE u = "day" -> n + (t \div 1440)
                         [] u = "hour" -> (n + (t \div 1440)) * 24 + ((t % 1440) \div 60)
                         [] u = "minute" -> (n + (t \div 1440)) * 1440 + (t % 1440)
                         [] u = "second" -> ((n + (t \div 1440)) * 1440 + (t % 1440)) * 60 + (ss % 60)
  BY Zenon DEF RawIndex
<1> HIDE DEF n, t, s, a, b, y, m, d, hh, mm, ss
<1>6. t = 60 * hh + a /\ t \in Int /\ a \in Int /\ b \in Int
  BY <1>1, <1>3, <1>4
<1>7. t = 60 * b + (a % 60)
  BY <1>1, <1>4, <1>6
<1>8. t \div 1440 = b \div 24 /\ t % 1440 = (b % 24) * 60 + (a % 60) /\ (t % 1440) \div 60 = b % 24
  <2>1. PICK q \in Int, k \in 0..23 : b = 24 * q + k /\ q = b \div 24 /\ k = b % 24
    BY <1>6
  <2>2. PICK e \in 0..59 : e = a % 60
    BY <1>6
  <2>3. PICK x \in 0..1439 : x = 60 * k + e
    BY <2>1, <2>2
  <2>4. t = 1440 * q + x
    BY <1>7, <2>1, <2>2, <2>3
  <2>5. t \div 1440 = q /\ t % 1440 = x
    BY <1>6, <2>1, <2>3, <2>4
  <2>6. x \div 60 = k
    BY <2>1, <2>2, <2>3
  <2>7. (t % 1440) \div 60 = k /\ t % 1440 = k * 60 + e
    BY <2>1, <2>2, <2>3, <2>5, <2>6
  <2>8. t \div 1440 = b \div 24
    BY <2>1, <2>5
  <2>9. (t % 1440) \div 60 = b % 24
    BY <2>1, <2>7
  <2>10. t % 1440 = (b % 24) * 60 + (a % 60)
    <3> DEFINE w == t % 1440
               i == b % 24
               j == a % 60
    <3>1. w = k * 60 + e /\ k = i /\ e = j
      BY <2>1, <2>2, <2>7
    <3> HIDE DEF w, i, j
    <3> QED
      BY <3>1 DEF w, i, j
  <2> QED
    BY <2>8, <2>9, <2>10
<1>9. n + (t \div 1440) = s + d - 1 + (b \div 24)
  BY <1>2, <1>8
<1> DEFINE day == s + d - 1 + (b \div 24)
<1>10. CASE u = "day"
  <2>1. RawIndex(u, r) = day
    BY <1>5, <1>9, <1>10
  <2> QED
    BY <1>10, <2>1 DEF CountOf, s, a, b, y, m, d, hh, mm, ss
<1>11. CASE u = "hour"
  <2>1. RawIndex(u, r) = day * 24 + (b % 24)
    BY <1>5, <1>8, <1>9, <1>11
  <2> QED
    BY <1>11, <2>1 DEF CountOf, s, a, b, y, m, d, hh, mm, ss
<1>12. CASE u = "minute"
  <2>1. RawIndex(u, r) = day * 1440 + ((b % 24) * 60 + (a % 60))
    BY <1>5, <1>8, <1>9, <1>12
  <2> QED
    BY <1>12, <2>1 DEF CountOf, s, a, b, y, m, d, hh, mm, ss
<1>13. CASE u = "second"
  <2>1. RawIndex(u, r) = (day * 1440 + ((b % 24) * 60 + (a % 60))) * 60 + (ss % 60)
    BY <1>5, <1>8, <1>9, <1>13
  <2> QED
    BY <1>13, <2>1 DEF CountOf, s, a, b, y, m, d, hh, mm, ss
<1> QED
  BY <1>10, <1>11, <1>12, <1>13 DEF Times

------------------------------------------------------------------------------
(* Dates have the order of their numbers *)

\* The first of the k-th month, counted from January of the year 0.
MonthFirst(k) == First(k \div 12, (k % 12) + 1)

\* The place of a month among all months.
MonthOf(g) == 12 * g.y + g.m - 1

\* The next month begins when this one ends, over the turn of the year too.
LEMMA MonthAfter ==
  ASSUME NEW k \in Int
  PROVE  /\ MonthFirst(k) \in Int /\ MonthFirst(k + 1) \in Int
         /\ MonthFirst(k + 1) = MonthFirst(k) + MonthDays(k \div 12, (k % 12) + 1)
         /\ MonthDays(k \div 12, (k % 12) + 1) \in 28..31
<1> DEFINE y == k \div 12
           m == (k % 12) + 1
           z == (k + 1) \div 12
           l == ((k + 1) % 12) + 1
<1>1. y \in Int /\ m \in 1..12 /\ z \in Int /\ l \in 1..12
  OBVIOUS
<1>2. IF m = 12 THEN z = y + 1 /\ l = 1 ELSE z = y /\ l = m + 1
  OBVIOUS
<1> HIDE DEF y, m, z, l
<1>3. First(y, m) \in Int /\ First(z, l) \in Int
  BY <1>1, FirstTyped
<1>4. /\ MonthDays(y, m) \in 28..31 /\ (m < 12 => First(y, m + 1) = First(y, m) + MonthDays(y, m))
      /\ First(y + 1, 1) = First(y, 12) + 31 /\ MonthDays(y, 12) = 31
  BY <1>1, MonthLength
<1>5. First(z, l) = First(y, m) + MonthDays(y, m)
  <2>1. CASE m = 12
    BY <1>2, <1>4, <2>1
  <2>2. CASE m # 12
    BY <1>1, <1>2, <1>4, <2>2
  <2> QED
    BY <2>1, <2>2
<1> QED
  BY <1>3, <1>4, <1>5 DEF MonthFirst, y, m, z, l

\* Later months begin later, by four weeks each at least.
LEMMA MonthsApart ==
  ASSUME NEW k \in Int
  PROVE  \A j \in Nat : MonthFirst(k + j) >= MonthFirst(k) + 28 * j
<1> DEFINE S == {j \in Nat : MonthFirst(k + j) >= MonthFirst(k) + 28 * j}
<1>1. MonthFirst(k) \in Int
  BY MonthAfter
<1>2. 0 \in S
  <2>1. k + 0 = k
    OBVIOUS
  <2> QED
    BY <1>1, <2>1
<1>3. ASSUME NEW j \in Nat, j \in S PROVE j + 1 \in S
  <2> DEFINE i == k + j
             a == MonthFirst(i)
             b == MonthFirst(i + 1)
             n == MonthDays(i \div 12, (i % 12) + 1)
             c == MonthFirst(k)
  <2>1. i \in Int /\ a >= c + 28 * j
    BY <1>3
  <2> HIDE DEF i
  <2>2. a \in Int /\ b \in Int /\ b = a + n /\ n \in 28..31
    BY <2>1, MonthAfter
  <2> HIDE DEF a, b, n
  <2>3. c \in Int
    BY <1>1
  <2> HIDE DEF c
  <2>4. b >= c + 28 * (j + 1)
    BY <2>1, <2>2, <2>3
  <2>5. k + (j + 1) = i + 1
    BY DEF i
  <2> QED
    BY <2>4, <2>5 DEF b, c
<1>4. Nat \subseteq S
  <2> HIDE DEF S
  <2> QED
    BY <1>2, <1>3, Induct
<1> QED
  BY <1>4

\* The number of a date.
Day(g) == DayNumber(g.y, g.m, g.d)

\* A date lies in its month, which has its place among all months.
LEMMA DayInMonth ==
  ASSUME NEW g, DateTime(g)
  PROVE  /\ MonthOf(g) \in Int /\ MonthOf(g) \div 12 = g.y /\ (MonthOf(g) % 12) + 1 = g.m
         /\ g.y \in Int /\ g.m \in 1..12 /\ g.d \in Int /\ g.d \in 1..MonthDays(g.y, g.m) /\ MonthDays(g.y, g.m) \in 28..31
         /\ Day(g) \in Int /\ Day(g) = MonthFirst(MonthOf(g)) + g.d - 1
         /\ Day(g) = First(g.y, g.m) + g.d - 1 /\ First(g.y, g.m) \in Int
         /\ MonthFirst(MonthOf(g)) = First(g.y, g.m)
<1> DEFINE y == g.y
           m == g.m
           d == g.d
           k == MonthOf(g)
<1>1. y \in Int /\ m \in 1..12 /\ d \in Int /\ d \in 1..MonthDays(y, m) /\ k = 12 * y + m - 1
  BY DEF DateTime, Valid, Fields, MonthOf
<1> HIDE DEF y, m, d, k
<1>2. k \in Int /\ k \div 12 = y /\ (k % 12) + 1 = m
  BY <1>1
<1>3. First(y, m) \in Int /\ DayNumber(y, m, d) = First(y, m) + d - 1
  BY <1>1, FirstTyped, DayFromFirst
<1>4. MonthFirst(k) = First(y, m)
  BY <1>2 DEF MonthFirst
<1>5. MonthDays(y, m) \in 28..31
  BY <1>1, MonthLength
<1>6. DayNumber(y, m, d) \in Int
  <2> HIDE DEF First
  <2> QED
    BY <1>1, <1>3
<1> QED
  BY <1>1, <1>2, <1>3, <1>4, <1>5, <1>6 DEF Day, y, m, d, k

\* Days are numbered in the order of their dates.
LEMMA DateOrder ==
  ASSUME NEW g, NEW h, DateTime(g), DateTime(h)
  PROVE  /\ Day(g) \in Int /\ Day(h) \in Int
         /\ MonthOf(g) < MonthOf(h) => Day(g) < Day(h)
         /\ MonthOf(g) = MonthOf(h) => Day(g) - Day(h) = g.d - h.d /\ g.y = h.y /\ g.m = h.m
         /\ g.y < h.y => MonthOf(g) < MonthOf(h)
         /\ g.y = h.y /\ g.m < h.m => MonthOf(g) < MonthOf(h)
<1> DEFINE k == MonthOf(g)
           l == MonthOf(h)
           a == MonthFirst(k)
           b == MonthFirst(l)
           n == MonthDays(g.y, g.m)
<1>1. /\ k \in Int /\ k \div 12 = g.y /\ (k % 12) + 1 = g.m /\ g.y \in Int /\ g.m \in 1..12
      /\ g.d \in Int /\ g.d \in 1..n /\ n \in 28..31 /\ Day(g) = a + g.d - 1 /\ Day(g) \in Int
  BY DayInMonth
<1>2. /\ l \in Int /\ l \div 12 = h.y /\ (l % 12) + 1 = h.m /\ h.y \in Int /\ h.m \in 1..12
      /\ h.d \in Int /\ h.d >= 1 /\ Day(h) = b + h.d - 1 /\ Day(h) \in Int
  <2>1. h.d \in 1..MonthDays(h.y, h.m) /\ MonthDays(h.y, h.m) \in 28..31
    BY DayInMonth
  <2> QED
    BY <2>1, DayInMonth
<1>3. k = 12 * g.y + g.m - 1 /\ l = 12 * h.y + h.m - 1
  BY DEF MonthOf
<1> HIDE DEF k, l
<1>4. a \in Int /\ MonthFirst(k + 1) = a + n /\ b \in Int /\ MonthFirst(k + 1) \in Int
  <2>1. /\ MonthFirst(k) \in Int /\ MonthFirst(k + 1) = MonthFirst(k) + MonthDays(k \div 12, (k % 12) + 1) /\ MonthFirst(k + 1) \in Int
    BY <1>1, MonthAfter
  <2>2. MonthFirst(l) \in Int
    BY <1>2, MonthAfter
  <2> QED
    BY <1>1, <2>1, <2>2
<1>5. ASSUME k < l PROVE Day(g) < Day(h)
  <2> DEFINE i == k + 1
             j == l - (k + 1)
             c == MonthFirst(i)
  <2>1. i \in Int /\ j \in Nat /\ i + j = l
    BY <1>1, <1>2, <1>5
  <2>2. c = a + n /\ c \in Int
    BY <1>4
  <2> HIDE DEF i, j
  <2>3. MonthFirst(i + j) >= MonthFirst(i) + 28 * j
    BY <2>1, MonthsApart
  <2> HIDE DEF a, b, c, n
  <2>4. b >= c + 28 * j
    BY <2>1, <2>3 DEF b, c
  <2>5. b >= c
    BY <1>4, <2>1, <2>2, <2>4
  <2>6. g.d <= n /\ n \in Int
    BY <1>1
  <2> QED
    BY <1>1, <1>2, <1>4, <2>2, <2>5, <2>6
<1>6. ASSUME k = l PROVE Day(g) - Day(h) = g.d - h.d /\ g.y = h.y /\ g.m = h.m
  <2>1. a = b
    BY <1>6
  <2> HIDE DEF a, b, n
  <2> QED
    BY <1>1, <1>2, <1>4, <1>6, <2>1
<1>7. (g.y < h.y => k < l) /\ (g.y = h.y /\ g.m < h.m => k < l)
  BY <1>1, <1>2, <1>3
<1> QED
  BY <1>1, <1>2, <1>5, <1>6, <1>7 DEF k, l

\* The number of a day says which day it is.
LEMMA DayDecides ==
  ASSUME NEW g, NEW h, DateTime(g), DateTime(h), Day(g) = Day(h)
  PROVE  g.y = h.y /\ g.m = h.m /\ g.d = h.d
<1> DEFINE k == MonthOf(g)
           l == MonthOf(h)
<1>1. k \in Int /\ l \in Int /\ g.d \in Int /\ h.d \in Int /\ Day(g) \in Int /\ Day(h) \in Int
  BY DayInMonth
<1>2. (k < l => Day(g) < Day(h)) /\ (k = l => Day(g) - Day(h) = g.d - h.d /\ g.y = h.y /\ g.m = h.m)
  BY DateOrder
<1>3. l < k => Day(h) < Day(g)
  BY DateOrder
<1> HIDE DEF k, l
<1>4. k = l
  BY <1>1, <1>2, <1>3
<1> QED
  BY <1>1, <1>2, <1>4

------------------------------------------------------------------------------
(* Counts of units *)

\* The six units.
LEMMA UnitCases == UnitSet = {"second", "minute", "hour", "day", "month", "year"}
BY DEF UnitSet, Units

\* The count of a date and time, in any unit.
LEMMA IndexIs ==
  ASSUME NEW g, DateTime(g), NEW u \in UnitSet
  PROVE  /\ Index(u, g) \in Int
         /\ u \in Times => Index(u, g) = CountOf(u, Day(g), g.hh, g.mm, g.ss)
         /\ u = "month" => Index(u, g) = MonthOf(g)
         /\ u = "year" => Index(u, g) = g.y
<1>1. /\ g.y \in Int /\ g.m \in 1..12 /\ g.hh \in Int /\ g.mm \in Int /\ g.ss \in Int /\ Day(g) \in Int
  <2>1. g.hh \in Int /\ g.mm \in Int /\ g.ss \in Int
    BY DEF DateTime, Fields
  <2>2. g.y \in Int /\ g.m \in 1..12 /\ Day(g) \in Int
    BY DayInMonth
  <2> QED
    BY <2>1, <2>2
<1>2. Names(g, Day(g), g.hh, g.mm, g.ss)
  BY DEF Names, Day
<1>3. ASSUME u \in Times PROVE Index(u, g) = CountOf(u, Day(g), g.hh, g.mm, g.ss) /\ Index(u, g) \in Int
  <2> DEFINE c == CountOf(u, Day(g), g.hh, g.mm, g.ss)
  <2>1. RawIndex(u, <<g.y, g.m, g.d, g.hh, g.mm, g.ss>>) = c /\ c \in Int
    BY <1>1, <1>2, <1>3, CountNamed
  <2> HIDE DEF c
  <2>2. Index(u, g) = RawIndex(u, <<g.y, g.m, g.d, g.hh, g.mm, g.ss>>)
    BY <1>3 DEF Index, Times
  <2> QED
    BY <2>1, <2>2 DEF c
<1>4. ASSUME u = "month" PROVE Index(u, g) = MonthOf(g) /\ Index(u, g) \in Int
  <2>1. Index(u, g) = g.y * 12 + g.m - 1
    BY <1>4 DEF Index
  <2>2. MonthOf(g) = 12 * g.y + g.m - 1
    BY DEF MonthOf
  <2> DEFINE y == g.y
             m == g.m
  <2>3. y \in Int /\ m \in 1..12
    BY <1>1
  <2> HIDE DEF y, m
  <2>4. y * 12 + m - 1 = 12 * y + m - 1 /\ y * 12 + m - 1 \in Int
    BY <2>3
  <2> QED
    BY <2>1, <2>2, <2>4 DEF y, m
<1>5. ASSUME u = "year" PROVE Index(u, g) = g.y
  BY <1>5 DEF Index
<1>6. u \in Times \/ u = "month" \/ u = "year"
  BY UnitCases DEF Times
<1> QED
  BY <1>1, <1>3, <1>4, <1>5, <1>6

\* Alignment sets the finer fields to the beginning.
LEMMA AlignFields ==
  ASSUME NEW g, DateTime(g), NEW u \in UnitSet
  PROVE  LET h == align(u, g) IN
         /\ h \in Fields /\ h.y = g.y
         /\ h.m = IF u = "year" THEN 1 ELSE g.m
         /\ h.d = IF u \in {"year", "month"} THEN 1 ELSE g.d
         /\ h.hh = IF u \in {"year", "month", "day"} THEN 0 ELSE g.hh
         /\ h.mm = IF u \in {"year", "month", "day", "hour"} THEN 0 ELSE g.mm
         /\ h.ss = IF u \in {"year", "month", "day", "hour", "minute"} THEN 0 ELSE g.ss
<1> DEFINE h == align(u, g)
<1>1. /\ g \in Fields /\ Valid(g) /\ g.y \in Int /\ g.m \in 1..12 /\ g.m \in Int /\ g.d \in Int /\ g.d \in 1..MonthDays(g.y, g.m)
      /\ g.hh \in 0..23 /\ g.mm \in 0..59 /\ g.ss \in 0..59
  BY DEF DateTime, Valid, Fields
<1>3. /\ h \in Fields /\ h.y = g.y
      /\ h.m = IF u = "year" THEN 1 ELSE g.m
      /\ h.d = IF u \in {"year", "month"} THEN 1 ELSE g.d
      /\ h.hh = IF u \in {"year", "month", "day"} THEN 0 ELSE g.hh
      /\ h.mm = IF u \in {"year", "month", "day", "hour"} THEN 0 ELSE g.mm
      /\ h.ss = IF u \in {"year", "month", "day", "hour", "minute"} THEN 0 ELSE g.ss
  <2> DEFINE a == [g EXCEPT !.ss = 0]
             b == [a EXCEPT !.mm = 0]
             c == [b EXCEPT !.hh = 0]
             e == [c EXCEPT !.d = 1]
             k == [e EXCEPT !.m = 1]
  <2>1. a \in Fields /\ a.y = g.y /\ a.m = g.m /\ a.d = g.d /\ a.hh = g.hh /\ a.mm = g.mm /\ a.ss = 0
    BY <1>1 DEF Fields
  <2> HIDE DEF a
  <2>2. b \in Fields /\ b.y = g.y /\ b.m = g.m /\ b.d = g.d /\ b.hh = g.hh /\ b.mm = 0 /\ b.ss = 0
    BY <1>1, <2>1 DEF Fields
  <2> HIDE DEF b
  <2>3. c \in Fields /\ c.y = g.y /\ c.m = g.m /\ c.d = g.d /\ c.hh = 0 /\ c.mm = 0 /\ c.ss = 0
    BY <1>1, <2>2 DEF Fields
  <2> HIDE DEF c
  <2>4. e \in Fields /\ e.y = g.y /\ e.m = g.m /\ e.d = 1 /\ e.hh = 0 /\ e.mm = 0 /\ e.ss = 0
    BY <1>1, <2>3 DEF Fields
  <2> HIDE DEF e
  <2>5. k \in Fields /\ k.y = g.y /\ k.m = 1 /\ k.d = 1 /\ k.hh = 0 /\ k.mm = 0 /\ k.ss = 0
    BY <1>1, <2>4 DEF Fields
  <2> HIDE DEF k
  <2>6. CASE u = "second"
    <3>1. h = g
      BY <2>6 DEF align
    <3>2. h = g
      BY <3>1 DEF Fields
    <3> HIDE DEF h
    <3> QED
      BY <1>1, <2>1, <2>6, <3>2
  <2>7. CASE u = "minute"
    <3>1. h = [g EXCEPT !.ss = 0]
      BY <2>7 DEF align
    <3>2. h = a
      BY <3>1 DEF a
    <3> HIDE DEF h
    <3> QED
      BY <1>1, <2>1, <2>7, <3>2
  <2>8. CASE u = "hour"
    <3>1. h = [g EXCEPT !.ss = 0, !.mm = 0]
      BY <2>8 DEF align
    <3>2. h = b
      BY <3>1 DEF a, b
    <3> HIDE DEF h
    <3> QED
      BY <1>1, <2>2, <2>8, <3>2
  <2>9. CASE u = "day"
    <3>1. h = [g EXCEPT !.ss = 0, !.mm = 0, !.hh = 0]
      BY <2>9 DEF align
    <3>2. h = c
      BY <3>1 DEF a, b, c
    <3> HIDE DEF h
    <3> QED
      BY <1>1, <2>3, <2>9, <3>2
  <2>10. CASE u = "month"
    <3>1. h = [g EXCEPT !.ss = 0, !.mm = 0, !.hh = 0, !.d = 1]
      BY <2>10 DEF align
    <3>2. h = e
      BY <3>1 DEF a, b, c, e
    <3> HIDE DEF h
    <3> QED
      BY <1>1, <2>4, <2>10, <3>2
  <2>11. CASE u = "year"
    <3>1. h = [g EXCEPT !.ss = 0, !.mm = 0, !.hh = 0, !.d = 1, !.m = 1]
      BY <2>11 DEF align
    <3>2. h = k
      BY <3>1 DEF a, b, c, e, k
    <3> HIDE DEF h
    <3> QED
      BY <1>1, <2>5, <2>11, <3>2
  <2> QED
    BY UnitCases, <2>6, <2>7, <2>8, <2>9, <2>10, <2>11
<1> QED
  BY <1>3

\* An aligned value stays as it is, and alignment keeps the count.
LEMMA Aligns ==
  ASSUME NEW g, DateTime(g), NEW u \in UnitSet
  PROVE  LET h == align(u, g) IN
         /\ DateTime(h) /\ align(u, h) = h
         /\ Index(u, h) = Index(u, g)
<1> DEFINE h == align(u, g)
<1>1. /\ g \in Fields /\ Valid(g) /\ g.y \in Int /\ g.m \in 1..12 /\ g.m \in Int /\ g.d \in Int /\ g.d \in 1..MonthDays(g.y, g.m)
      /\ g.hh \in 0..23 /\ g.mm \in 0..59 /\ g.ss \in 0..59
  BY DEF DateTime, Valid, Fields
<1>2. MonthDays(g.y, g.m) \in 28..31 /\ MonthDays(g.y, 1) \in 28..31
  <2>1. PICK one \in 1..12 : one = 1
    OBVIOUS
  <2>2. MonthDays(g.y, g.m) \in 28..31 /\ MonthDays(g.y, one) \in 28..31
    BY <1>1, <2>1, MonthLength
  <2> QED
    BY <2>1, <2>2
<1>3. /\ h \in Fields /\ h.y = g.y
      /\ h.m = IF u = "year" THEN 1 ELSE g.m
      /\ h.d = IF u \in {"year", "month"} THEN 1 ELSE g.d
      /\ h.hh = IF u \in {"year", "month", "day"} THEN 0 ELSE g.hh
      /\ h.mm = IF u \in {"year", "month", "day", "hour"} THEN 0 ELSE g.mm
      /\ h.ss = IF u \in {"year", "month", "day", "hour", "minute"} THEN 0 ELSE g.ss
  BY AlignFields
<1>4. align(u, h) = h
  BY <1>3, UnitCases DEF align, Fields
<1> HIDE DEF h
<1>5. Valid(h)
  BY <1>1, <1>2, <1>3 DEF Valid
<1>6. DateTime(h)
  BY <1>3, <1>5 DEF DateTime
<1>7. Index(u, h) = Index(u, g)
  <2>1. /\ u \in Times => Index(u, g) = CountOf(u, Day(g), g.hh, g.mm, g.ss)
        /\ u = "month" => Index(u, g) = MonthOf(g)
        /\ u = "year" => Index(u, g) = g.y
    BY IndexIs
  <2>2. /\ u \in Times => Index(u, h) = CountOf(u, Day(h), h.hh, h.mm, h.ss)
        /\ u = "month" => Index(u, h) = MonthOf(h)
        /\ u = "year" => Index(u, h) = h.y
    BY <1>6, IndexIs
  <2>3. CASE u \in Times
    <3>1. Day(h) = Day(g)
      BY <1>3, <2>3 DEF Day, Times
    <3>2. CountOf(u, Day(g), h.hh, h.mm, h.ss) = CountOf(u, Day(g), g.hh, g.mm, g.ss)
      BY <1>3, <2>3 DEF CountOf, Times
    <3> QED
      BY <2>1, <2>2, <2>3, <3>1, <3>2
  <2>4. CASE u = "month"
    <3>1. MonthOf(h) = MonthOf(g)
      BY <1>3, <2>4 DEF MonthOf
    <3> QED
      BY <2>1, <2>2, <2>4, <3>1
  <2>5. CASE u = "year"
    BY <1>3, <2>1, <2>2, <2>5
  <2> QED
    BY <2>3, <2>4, <2>5, UnitCases DEF Times
<1> QED
  BY <1>4, <1>6, <1>7 DEF h

\* What six numbers name is a date and time with their count.
LEMMA StandsCount ==
  ASSUME NEW g, NEW r \in Six, NEW u \in Times, Stands(g, r[1], r[2], r[3], r[4], r[5], r[6])
  PROVE  DateTime(g) /\ Index(u, g) = RawIndex(u, r)
<1> DEFINE day == MonthStart(r[1], r[2]) + r[3] - 1 + (Hours(r[4], r[5], r[6]) \div 24)
           hh == Hours(r[4], r[5], r[6]) % 24
           mm == Minutes(r[5], r[6]) % 60
           ss == r[6] % 60
<1>1. Names(g, day, hh, mm, ss)
  BY DEF Stands
<1>2. RawIndex(u, r) = CountOf(u, day, hh, mm, ss)
  BY CountRaw
<1> HIDE DEF day, hh, mm, ss
<1>3. DateTime(g) /\ Day(g) = day /\ g.hh = hh /\ g.mm = mm /\ g.ss = ss
  BY <1>1 DEF Names, Day
<1>4. u \in UnitSet
  BY UnitCases DEF Times
<1>5. Index(u, g) = CountOf(u, Day(g), g.hh, g.mm, g.ss)
  BY <1>3, <1>4, IndexIs
<1> QED
  BY <1>2, <1>3, <1>5

\* The count of six numbers without its carries: they add up.
LEMMA RawCounts ==
  ASSUME NEW r \in Six
  PROVE  /\ RawDay(r) \in Int /\ RawDay(r) = MonthStart(r[1], r[2]) + r[3] - 1
         /\ RawIndex("second", r) = (RawDay(r) * 1440 + (r[4] * 60 + r[5])) * 60 + r[6]
<1> DEFINE n == RawDay(r)
           t == RawMinute(r)
           a == r[4]
           b == r[5]
           c == r[6]
           s == MonthStart(r[1], r[2])
<1>1. a \in Int /\ b \in Int /\ c \in Int /\ r[1] \in Int /\ r[2] \in Int /\ r[3] \in Int
  BY DEF Six
<1>2. n = s + r[3] - 1
  BY DEF RawDay, MonthStart, First
<1>3. s \in Int
  BY <1>1, MonthStartInt
<1>4. t = a * 60 + b + (c \div 60)
  BY DEF RawMinute
<1>5. RawIndex("second", r) = ((n + (t \div 1440)) * 1440 + (t % 1440)) * 60 + (c % 60)
  BY DEF RawIndex
<1> HIDE DEF n, t, a, b, c, s
<1>6. n \in Int /\ t \in Int
  BY <1>1, <1>2, <1>3, <1>4
<1>7. t = 1440 * (t \div 1440) + (t % 1440) /\ t \div 1440 \in Int /\ t % 1440 \in Int
  BY <1>6
<1>8. c = 60 * (c \div 60) + (c % 60) /\ c \div 60 \in Int /\ c % 60 \in Int
  BY <1>1
<1>9. ((n + (t \div 1440)) * 1440 + (t % 1440)) * 60 + (c % 60) = (n * 1440 + (a * 60 + b)) * 60 + c
  <2> DEFINE p == t \div 1440
             q == t % 1440
             e == c \div 60
             g == c % 60
  <2>1. p \in Int /\ q \in Int /\ e \in Int /\ g \in Int /\ t = 1440 * p + q /\ c = 60 * e + g /\ t = a * 60 + b + e
    BY <1>4, <1>7, <1>8
  <2> HIDE DEF p, q, e, g
  <2>2. ((n + p) * 1440 + q) * 60 + g = (n * 1440 + (a * 60 + b)) * 60 + c
    BY <1>1, <1>6, <2>1
  <2> QED
    BY <2>2 DEF p, q, e, g
<1> QED
  BY <1>2, <1>3, <1>5, <1>6, <1>9 DEF n, t, a, b, c, s

------------------------------------------------------------------------------
(* operator+ counts *)

\* What n minutes or hours more make of a date and time, before the carries.
Shifted(u, g, n) ==
  CASE u = "second" -> (Day(g) * 1440 + (g.hh * 60 + g.mm)) * 60 + g.ss + n
    [] u = "minute" -> Day(g) * 1440 + (g.hh * 60 + g.mm) + n
    [] u = "hour" -> Day(g) * 24 + g.hh + n
    [] u = "day" -> Day(g) + n

\* Counting the units and adding n is the same.
LEMMA TimeShifted ==
  ASSUME NEW g, DateTime(g), NEW n \in Int, NEW u \in Times
  PROVE  Shifted(u, g, n) = Index(u, g) + n
<1>1. Day(g) \in Int /\ g.hh \in Int /\ g.mm \in Int /\ g.ss \in Int
  BY DayInMonth DEF DateTime, Fields
<1>2. Index(u, g) = CountOf(u, Day(g), g.hh, g.mm, g.ss) /\ Index(u, g) \in Int
  BY IndexIs, UnitCases DEF Times
<1> DEFINE day == Day(g)
           hh == g.hh
           mm == g.mm
           ss == g.ss
<1>3. CASE u = "second"
  <2>1. Index(u, g) = (day * 1440 + (hh * 60 + mm)) * 60 + ss /\ Shifted(u, g, n) = (day * 1440 + (hh * 60 + mm)) * 60 + ss + n
    BY <1>2, <1>3 DEF CountOf, Shifted
  <2> QED
    BY <2>1
<1>4. CASE u = "minute"
  <2>1. Index(u, g) = day * 1440 + (hh * 60 + mm) /\ Shifted(u, g, n) = day * 1440 + (hh * 60 + mm) + n
    BY <1>2, <1>4 DEF CountOf, Shifted
  <2> QED
    BY <2>1
<1>5. CASE u = "hour"
  <2>1. Index(u, g) = day * 24 + hh /\ Shifted(u, g, n) = day * 24 + hh + n
    BY <1>2, <1>5 DEF CountOf, Shifted
  <2> QED
    BY <2>1
<1>6. CASE u = "day"
  <2>1. Index(u, g) = day /\ Shifted(u, g, n) = day + n
    BY <1>2, <1>6 DEF CountOf, Shifted
  <2> QED
    BY <2>1
<1> QED
  BY <1>3, <1>4, <1>5, <1>6 DEF Times

\* A step of n seconds is n seconds later.
LEMMA SecondsStepped ==
  ASSUME NEW g, DateTime(g), NEW n \in Int
  PROVE  DateTime(step("second", g, n)) /\ Index("second", step("second", g, n)) = Shifted("second", g, n)
<1> DEFINE h == step("second", g, n)
           q == Quot(n, 60)
           e == Rem(n, 60)
           r == <<g.y, g.m, g.d, g.hh, g.mm + q, g.ss + e>>
           u == "second"
<1>1. q \in Int /\ e \in Int /\ n = 60 * q + e
  BY Sixty
<1>2. /\ g.y \in Int /\ g.m \in Int /\ g.m \in 1..12 /\ g.d \in Int /\ g.hh \in Int /\ g.mm \in Int /\ g.ss \in Int /\ Day(g) \in Int
      /\ Day(g) = First(g.y, g.m) + g.d - 1 /\ First(g.y, g.m) \in Int
  BY DayInMonth DEF DateTime, Fields
<1>3. h = n_sec(g.y, g.m, g.d, g.hh, g.mm + q, g.ss + e)
  BY DEF step
<1> HIDE DEF h, q, e
<1> DEFINE mm == g.mm + q
           ss == g.ss + e
<1>4. mm \in Int /\ ss \in Int
  BY <1>1, <1>2
<1>5. r \in Six /\ r[1] = g.y /\ r[2] = g.m /\ r[3] = g.d /\ r[4] = g.hh /\ r[5] = mm /\ r[6] = ss
  BY <1>2, <1>4 DEF Six
<1>6. Stands(h, g.y, g.m, g.d, g.hh, mm, ss)
  <2> HIDE DEF mm, ss
  <2> QED
    BY <1>2, <1>3, <1>4, SecondsCarried DEF mm, ss
<1> HIDE DEF r
<1>7. Stands(h, r[1], r[2], r[3], r[4], r[5], r[6])
  BY <1>5, <1>6
<1>8. u \in Times
  BY DEF Times
<1> HIDE DEF u
<1>9. DateTime(h) /\ Index(u, h) = RawIndex(u, r)
  BY <1>5, <1>7, <1>8, StandsCount
<1>10. RawDay(r) = Day(g)
  <2>1. RawDay(r) = MonthStart(r[1], r[2]) + r[3] - 1
    BY <1>5, RawCounts
  <2>2. MonthStart(g.y, g.m) = First(g.y, g.m)
    BY <1>2, MonthStartInt
  <2> QED
    BY <1>2, <1>5, <2>1, <2>2
<1>11. RawIndex(u, r) = (Day(g) * 1440 + (g.hh * 60 + mm)) * 60 + ss
  <2>1. RawIndex(u, r) = (RawDay(r) * 1440 + (r[4] * 60 + r[5])) * 60 + r[6]
    BY <1>5, RawCounts DEF u
  <2> QED
    BY <1>5, <1>10, <2>1
<1>12. (Day(g) * 1440 + (g.hh * 60 + mm)) * 60 + ss = (Day(g) * 1440 + (g.hh * 60 + g.mm)) * 60 + g.ss + n
  <2> DEFINE a == Day(g)
             b == g.hh
             c == g.mm
             k == g.ss
  <2>1. a \in Int /\ b \in Int /\ c \in Int /\ k \in Int
    BY <1>2
  <2> HIDE DEF a, b, c, k
  <2>2. (a * 1440 + (b * 60 + (c + q))) * 60 + (k + e) = (a * 1440 + (b * 60 + c)) * 60 + k + n
    BY <1>1, <2>1
  <2> QED
    BY <2>2 DEF a, b, c, k
<1>13. Shifted(u, g, n) = (Day(g) * 1440 + (g.hh * 60 + g.mm)) * 60 + g.ss + n
  BY DEF Shifted, u
<1> QED
  BY <1>9, <1>11, <1>12, <1>13 DEF h, u

\* A step of n minutes.
LEMMA MinutesStepped ==
  ASSUME NEW g, DateTime(g), NEW n \in Int
  PROVE  DateTime(step("minute", g, n)) /\ Index("minute", step("minute", g, n)) = Shifted("minute", g, n)
<1> DEFINE h == step("minute", g, n)
           q == Quot(n, 60)
           e == Rem(n, 60)
           u == "minute"
           a == g.hh + q
           b == g.mm + e
           day == Day(g)
<1>1. q \in Int /\ e \in Int /\ n = 60 * q + e
  BY Sixty
<1>2. /\ g.y \in Int /\ g.m \in Int /\ g.m \in 1..12 /\ g.d \in Int /\ g.hh \in Int /\ g.mm \in Int /\ g.ss \in 0..59 /\ Day(g) \in Int
      /\ Day(g) = First(g.y, g.m) + g.d - 1 /\ First(g.y, g.m) \in Int
  BY DayInMonth DEF DateTime, Valid, Fields
<1>3. h = n_min(g.y, g.m, g.d, a, 0, b, g.ss)
  BY DEF step
<1>4. PICK zero \in Int : zero = 0
  OBVIOUS
<1> DEFINE t == a + zero + (b \div 60)
<1> HIDE DEF h, q, e
<1>5. a \in Int /\ b \in Int
  BY <1>1, <1>2
<1> HIDE DEF a, b
<1>6. Names(n_min(g.y, g.m, g.d, a, zero, b, g.ss), MonthStart(g.y, g.m) + g.d - 1 + (t \div 24), t % 24, b % 60, g.ss)
  BY <1>2, <1>4, <1>5, MinutesCarried
<1>7. MonthStart(g.y, g.m) = First(g.y, g.m)
  BY <1>2, MonthStartInt
<1>8. MonthStart(g.y, g.m) + g.d - 1 + (t \div 24) = day + (t \div 24)
  BY <1>2, <1>7
<1>9. Names(h, day + (t \div 24), t % 24, b % 60, g.ss)
  BY <1>3, <1>4, <1>6, <1>8
<1>10. DateTime(h) /\ Day(h) = day + (t \div 24) /\ h.hh = t % 24 /\ h.mm = b % 60 /\ h.ss = g.ss
  BY <1>9 DEF Names, Day
<1>11. u \in Times /\ u \in UnitSet
  BY UnitCases DEF Times
<1>12. Index(u, h) = CountOf(u, Day(h), h.hh, h.mm, h.ss)
  <2> HIDE DEF u
  <2> QED
    BY <1>10, <1>11, IndexIs
<1>13. Index(u, h) = (day + (t \div 24)) * 1440 + ((t % 24) * 60 + (b % 60))
  BY <1>10, <1>12 DEF CountOf
<1>14. (day + (t \div 24)) * 1440 + ((t % 24) * 60 + (b % 60)) = day * 1440 + (g.hh * 60 + g.mm) + n
  <2> DEFINE c == g.hh
             k == g.mm
             p == t \div 24
             x == t % 24
             v == b \div 60
             w == b % 60
  <2>1. c \in Int /\ k \in Int /\ a = c + q /\ b = k + e /\ day \in Int
    BY <1>2 DEF a, b
  <2>2. v \in Int /\ w \in Int /\ b = 60 * v + w
    BY <1>5
  <2>3. t = a + v /\ t \in Int
    BY <1>4, <1>5
  <2> HIDE DEF t
  <2>4. p \in Int /\ x \in Int /\ t = 24 * p + x
    BY <2>3
  <2> HIDE DEF c, k, p, x, v, w, day
  <2>5. (day + p) * 1440 + (x * 60 + w) = day * 1440 + (c * 60 + k) + n
    BY <1>1, <2>1, <2>2, <2>3, <2>4
  <2> QED
    BY <2>5 DEF c, k, p, x, w
<1>15. Shifted(u, g, n) = day * 1440 + (g.hh * 60 + g.mm) + n
  BY DEF Shifted
<1> QED
  BY <1>10, <1>13, <1>14, <1>15 DEF h

\* A step of n hours.
LEMMA HoursStepped ==
  ASSUME NEW g, DateTime(g), NEW n \in Int
  PROVE  DateTime(step("hour", g, n)) /\ Index("hour", step("hour", g, n)) = Shifted("hour", g, n)
<1> DEFINE h == step("hour", g, n)
           q == Quot(n, 24)
           e == Rem(n, 24)
           u == "hour"
           a == g.d + q
           b == g.hh + e
           day == Day(g)
<1>1. q \in Int /\ e \in Int /\ n = 24 * q + e
  BY DEF Quot, Rem
<1>2. /\ g.y \in Int /\ g.m \in Int /\ g.m \in 1..12 /\ g.d \in Int /\ g.hh \in Int /\ g.mm \in 0..59 /\ g.ss \in 0..59 /\ Day(g) \in Int
      /\ Day(g) = First(g.y, g.m) + g.d - 1 /\ First(g.y, g.m) \in Int
  BY DayInMonth DEF DateTime, Valid, Fields
<1>3. h = n_hour(g.y, g.m, a, 0, b, g.mm, g.ss)
  BY DEF step
<1>4. PICK zero \in Int : zero = 0
  OBVIOUS
<1> DEFINE t == 24 * zero + b
<1> HIDE DEF h, q, e
<1>5. a \in Int /\ b \in Int
  BY <1>1, <1>2
<1> HIDE DEF a, b
<1>6. Names(n_hour(g.y, g.m, a, zero, b, g.mm, g.ss), MonthStart(g.y, g.m) + a - 1 + (t \div 24), t % 24, g.mm, g.ss)
  BY <1>2, <1>4, <1>5, HoursCarried
<1>7. MonthStart(g.y, g.m) = First(g.y, g.m)
  BY <1>2, MonthStartInt
<1>8. MonthStart(g.y, g.m) + a - 1 + (t \div 24) = day + q + (t \div 24)
  BY <1>1, <1>2, <1>7 DEF a
<1>9. Names(h, day + q + (t \div 24), t % 24, g.mm, g.ss)
  BY <1>3, <1>4, <1>6, <1>8
<1>10. DateTime(h) /\ Day(h) = day + q + (t \div 24) /\ h.hh = t % 24 /\ h.mm = g.mm /\ h.ss = g.ss
  BY <1>9 DEF Names, Day
<1>11. u \in Times /\ u \in UnitSet
  BY UnitCases DEF Times
<1>12. Index(u, h) = CountOf(u, Day(h), h.hh, h.mm, h.ss)
  <2> HIDE DEF u
  <2> QED
    BY <1>10, <1>11, IndexIs
<1>13. Index(u, h) = (day + q + (t \div 24)) * 24 + (t % 24)
  BY <1>10, <1>12 DEF CountOf
<1>14. (day + q + (t \div 24)) * 24 + (t % 24) = day * 24 + g.hh + n
  <2> DEFINE c == g.hh
             p == t \div 24
             x == t % 24
  <2>1. c \in Int /\ b = c + e /\ day \in Int /\ t = b /\ t \in Int
    BY <1>2, <1>4, <1>5 DEF b
  <2> HIDE DEF t
  <2>2. p \in Int /\ x \in Int /\ t = 24 * p + x
    BY <2>1
  <2> HIDE DEF c, p, x, day
  <2>3. (day + q + p) * 24 + x = day * 24 + c + n
    BY <1>1, <2>1, <2>2
  <2> QED
    BY <2>3 DEF c, p, x
<1>15. Shifted(u, g, n) = day * 24 + g.hh + n
  BY DEF Shifted
<1> QED
  BY <1>10, <1>13, <1>14, <1>15 DEF h

\* A step of n days.
LEMMA DaysStepped ==
  ASSUME NEW g, DateTime(g), NEW n \in Int
  PROVE  DateTime(step("day", g, n)) /\ Index("day", step("day", g, n)) = Shifted("day", g, n)
<1> DEFINE h == step("day", g, n)
           u == "day"
           s == First(g.y, g.m)
<1>1. /\ g.y \in Int /\ g.m \in 1..12 /\ g.d \in Int /\ g.hh \in 0..23 /\ g.mm \in 0..59 /\ g.ss \in 0..59
      /\ Day(g) \in Int /\ Day(g) = s + g.d - 1 /\ s \in Int
  BY DayInMonth DEF DateTime, Valid, Fields
<1>2. h = n_day(g.y, g.m, g.d, n, g.hh, g.mm, g.ss)
  BY DEF step
<1> HIDE DEF h
<1>3. Names(h, s + g.d + n - 1, g.hh, g.mm, g.ss)
  BY <1>1, <1>2, DayCounted
<1>4. DateTime(h) /\ Day(h) = s + g.d + n - 1 /\ h.hh = g.hh /\ h.mm = g.mm /\ h.ss = g.ss
  BY <1>3 DEF Names, Day
<1>5. u \in Times /\ u \in UnitSet
  BY UnitCases DEF Times
<1>6. Index(u, h) = CountOf(u, Day(h), h.hh, h.mm, h.ss)
  <2> HIDE DEF u
  <2> QED
    BY <1>4, <1>5, IndexIs
<1>7. Index(u, h) = Day(h)
  BY <1>6 DEF CountOf
<1>8. Shifted(u, g, n) = Day(g) + n
  BY DEF Shifted
<1>9. s + g.d + n - 1 = Day(g) + n
  <2> HIDE DEF s
  <2> QED
    BY <1>1
<1> QED
  BY <1>4, <1>7, <1>8, <1>9 DEF h

\* A step of n months from the first of a month.
LEMMA MonthsStepped ==
  ASSUME NEW g, DateTime(g), g.d = 1, NEW n \in Int
  PROVE  DateTime(step("month", g, n)) /\ MonthOf(step("month", g, n)) = MonthOf(g) + n
<1> DEFINE h == step("month", g, n)
           q == Quot(n, 12)
           e == Rem(n, 12)
           y == g.y + q
           m == g.m + e
           z == y + ((m - 1) \div 12)
           k == ((m - 1) % 12) + 1
           first == [y |-> z, m |-> k, d |-> 1, hh |-> g.hh, mm |-> g.mm, ss |-> g.ss]
<1>1. q \in Int /\ e \in Int /\ n = 12 * q + e
  BY DEF Quot, Rem
<1>2. /\ g.y \in Int /\ g.m \in 1..12 /\ g.hh \in 0..23 /\ g.mm \in 0..59 /\ g.ss \in 0..59
  BY DEF DateTime, Valid, Fields
<1>3. h = n_mon(y, m, g.d, 0, g.hh, g.mm, g.ss)
  BY DEF step
<1> HIDE DEF h, q, e
<1>4. y \in Int /\ m \in Int
  BY <1>1, <1>2
<1>5. z \in Int /\ k \in 1..12 /\ 12 * z + k - 1 = 12 * y + m - 1
  <2> HIDE DEF y, m
  <2> QED
    BY <1>4
<1>6. 12 * y + m - 1 = 12 * g.y + g.m - 1 + n
  BY <1>1, <1>2
<1>7. First(z, k) \in Int /\ MonthStart(y, m) = First(z, k)
  <2>1. MonthStart(y, m) = First(z, k)
    BY DEF MonthStart
  <2> HIDE DEF z, k
  <2> QED
    BY <1>5, <2>1, FirstTyped
<1> HIDE DEF y, m
<1>8. PICK zero \in Int, one \in Int : zero = 0 /\ one = 1
  OBVIOUS
<1>9. Names(n_mon(y, m, one, zero, g.hh, g.mm, g.ss), MonthStart(y, m) + one + zero - 1, g.hh, g.mm, g.ss)
  BY <1>2, <1>4, <1>8, MonthCarried
<1> HIDE DEF z, k
<1>10. MonthStart(y, m) + one + zero - 1 = First(z, k)
  BY <1>7, <1>8
<1>11. h = n_mon(y, m, one, zero, g.hh, g.mm, g.ss)
  BY <1>3, <1>8
<1>12. DateTime(h) /\ Day(h) = First(z, k)
  BY <1>9, <1>10, <1>11 DEF Names, Day
<1>13. DateTime(first) /\ first.y = z /\ first.m = k /\ first.d = 1
  <2>1. /\ first.y = z /\ first.m = k /\ first.d = 1 /\ first.hh = g.hh /\ first.mm = g.mm /\ first.ss = g.ss
        /\ first \in Fields
    BY <1>2, <1>5 DEF Fields
  <2> HIDE DEF first
  <2>2. MonthDays(z, k) \in 28..31
    BY <1>5, MonthLength
  <2>3. 1 \in 1..MonthDays(z, k)
    BY <2>2
  <2> QED
    BY <1>2, <1>5, <2>1, <2>3 DEF DateTime, Valid
<1>14. Day(first) = First(z, k)
  BY <1>13 DEF Day, First
<1> HIDE DEF first
<1>15. h.y = z /\ h.m = k
  <2>1. h.y = first.y /\ h.m = first.m
    BY <1>12, <1>13, <1>14, DayDecides
  <2> QED
    BY <1>13, <2>1
<1>16. MonthOf(h) = 12 * z + k - 1 /\ MonthOf(g) = 12 * g.y + g.m - 1
  BY <1>15 DEF MonthOf
<1>17. MonthOf(h) = MonthOf(g) + n
  BY <1>5, <1>6, <1>16
<1> QED
  BY <1>12, <1>17 DEF h

\* A step of n years from 1 January.
LEMMA YearsStepped ==
  ASSUME NEW g, DateTime(g), g.d = 1, g.m = 1, NEW n \in Int
  PROVE  DateTime(step("year", g, n)) /\ step("year", g, n).y = g.y + n
<1> DEFINE h == step("year", g, n)
<1>1. g \in Fields /\ g.y \in Int /\ g.hh \in 0..23 /\ g.mm \in 0..59 /\ g.ss \in 0..59
  BY DEF DateTime, Valid, Fields
<1>2. h = [g EXCEPT !.y = @ + n]
  BY DEF step
<1> HIDE DEF h
<1>3. h \in Fields /\ h.y = g.y + n /\ h.m = 1 /\ h.d = 1 /\ h.hh = g.hh /\ h.mm = g.mm /\ h.ss = g.ss
  BY <1>1, <1>2 DEF Fields
<1>4. 1 \in 1..MonthDays(h.y, h.m)
  BY <1>3 DEF MonthDays
<1>5. Valid(h)
  <2>1. h.y \in Int /\ h.m \in 1..12 /\ h.d \in 1..MonthDays(h.y, h.m)
    BY <1>1, <1>3, <1>4
  <2> QED
    BY <1>1, <1>3, <2>1 DEF Valid
<1> QED
  BY <1>3, <1>5 DEF h, DateTime

\* operator+ adds n units to an aligned value.
LEMMA Stepped ==
  ASSUME NEW u \in UnitSet, NEW g, DateTime(g), align(u, g) = g, NEW n \in Int
  PROVE  DateTime(step(u, g, n)) /\ Index(u, step(u, g, n)) = Index(u, g) + n
<1> DEFINE h == step(u, g, n)
<1>1. /\ u = "year" => g.m = 1
      /\ u \in {"year", "month"} => g.d = 1
  <2>1. /\ align(u, g).m = IF u = "year" THEN 1 ELSE g.m
        /\ align(u, g).d = IF u \in {"year", "month"} THEN 1 ELSE g.d
    BY AlignFields
  <2> QED
    BY <2>1
<1>2. CASE u \in Times
  <2>1. DateTime(h) /\ Index(u, h) = Shifted(u, g, n)
    <3>1. u \in {"second", "minute", "hour", "day"}
      BY <1>2 DEF Times
    <3> QED
      BY <3>1, SecondsStepped, MinutesStepped, HoursStepped, DaysStepped
  <2>2. Shifted(u, g, n) = Index(u, g) + n
    BY <1>2, TimeShifted
  <2> QED
    BY <2>1, <2>2
<1>3. CASE u = "month"
  <2>1. DateTime(h) /\ MonthOf(h) = MonthOf(g) + n
    BY <1>1, <1>3, MonthsStepped
  <2> HIDE DEF h
  <2>2. Index(u, g) = MonthOf(g) /\ Index(u, h) = MonthOf(h)
    BY <1>3, <2>1, IndexIs
  <2> QED
    BY <2>1, <2>2 DEF h
<1>4. CASE u = "year"
  <2>1. DateTime(h) /\ h.y = g.y + n
    BY <1>1, <1>4, YearsStepped
  <2> HIDE DEF h
  <2>2. Index(u, g) = g.y /\ Index(u, h) = h.y
    BY <1>4, <2>1, IndexIs
  <2> QED
    BY <2>1, <2>2 DEF h
<1> QED
  BY <1>2, <1>3, <1>4, UnitCases DEF Times

------------------------------------------------------------------------------
(* operator< and the weekdays *)

\* The count grows with the first field that differs.
LEMMA LessAdds ==
  ASSUME NEW u \in UnitSet, NEW g, NEW h, DateTime(g), DateTime(h), align(u, g) = g, align(u, h) = h, Less(g, h)
  PROVE  Index(u, g) < Index(u, h)
<1> DEFINE a == Day(g)
           b == Day(h)
<1>1. /\ g.y \in Int /\ g.m \in 1..12 /\ g.d \in Int /\ g.hh \in 0..23 /\ g.mm \in 0..59 /\ g.ss \in 0..59 /\ a \in Int
      /\ h.y \in Int /\ h.m \in 1..12 /\ h.d \in Int /\ h.hh \in 0..23 /\ h.mm \in 0..59 /\ h.ss \in 0..59 /\ b \in Int
  BY DayInMonth DEF DateTime, Valid, Fields
<1>2. /\ g.m = IF u = "year" THEN 1 ELSE g.m
      /\ g.d = IF u \in {"year", "month"} THEN 1 ELSE g.d
      /\ g.hh = IF u \in {"year", "month", "day"} THEN 0 ELSE g.hh
      /\ g.mm = IF u \in {"year", "month", "day", "hour"} THEN 0 ELSE g.mm
      /\ g.ss = IF u \in {"year", "month", "day", "hour", "minute"} THEN 0 ELSE g.ss
  BY AlignFields
<1>3. /\ h.m = IF u = "year" THEN 1 ELSE h.m
      /\ h.d = IF u \in {"year", "month"} THEN 1 ELSE h.d
      /\ h.hh = IF u \in {"year", "month", "day"} THEN 0 ELSE h.hh
      /\ h.mm = IF u \in {"year", "month", "day", "hour"} THEN 0 ELSE h.mm
      /\ h.ss = IF u \in {"year", "month", "day", "hour", "minute"} THEN 0 ELSE h.ss
  BY AlignFields
<1>4. /\ u \in Times => Index(u, g) = CountOf(u, a, g.hh, g.mm, g.ss)
      /\ u = "month" => Index(u, g) = MonthOf(g)
      /\ u = "year" => Index(u, g) = g.y
  BY IndexIs
<1>5. /\ u \in Times => Index(u, h) = CountOf(u, b, h.hh, h.mm, h.ss)
      /\ u = "month" => Index(u, h) = MonthOf(h)
      /\ u = "year" => Index(u, h) = h.y
  BY IndexIs
<1>6. /\ MonthOf(g) < MonthOf(h) => a < b
      /\ MonthOf(g) = MonthOf(h) => a - b = g.d - h.d
      /\ g.y < h.y => MonthOf(g) < MonthOf(h)
      /\ g.y = h.y /\ g.m < h.m => MonthOf(g) < MonthOf(h)
      /\ g.y = h.y /\ g.m = h.m => MonthOf(g) = MonthOf(h)
  BY DateOrder DEF MonthOf
<1> HIDE DEF a, b
\* The time within the day, where the unit tells it.
<1>7. \/ g.y < h.y
      \/ g.y = h.y /\ g.m < h.m
      \/ g.y = h.y /\ g.m = h.m /\ g.d < h.d
      \/ g.y = h.y /\ g.m = h.m /\ g.d = h.d /\ g.hh < h.hh
      \/ g.y = h.y /\ g.m = h.m /\ g.d = h.d /\ g.hh = h.hh /\ g.mm < h.mm
      \/ g.y = h.y /\ g.m = h.m /\ g.d = h.d /\ g.hh = h.hh /\ g.mm = h.mm /\ g.ss < h.ss
  BY DEF Less
<1>8. a < b \/ a = b
  <2>1. g.d < h.d /\ a - b = g.d - h.d => a < b
    BY <1>1
  <2>2. g.d = h.d /\ a - b = g.d - h.d => a = b
    BY <1>1
  <2> QED
    BY <1>6, <1>7, <2>1, <2>2
<1>9. a = b => \/ g.hh < h.hh
               \/ g.hh = h.hh /\ g.mm < h.mm
               \/ g.hh = h.hh /\ g.mm = h.mm /\ g.ss < h.ss
  <2>1. a = b => ~(MonthOf(g) < MonthOf(h))
    BY <1>1, <1>6
  <2>2. a = b /\ g.d < h.d => ~(a - b = g.d - h.d)
    BY <1>1
  <2> QED
    BY <1>6, <1>7, <2>1, <2>2
<1>10. CASE u = "year"
  <2>1. g.y < h.y
    BY <1>1, <1>2, <1>3, <1>7, <1>10
  <2> QED
    BY <1>4, <1>5, <1>10, <2>1
<1>11. CASE u = "month"
  <2>1. g.y < h.y \/ (g.y = h.y /\ g.m < h.m)
    BY <1>1, <1>2, <1>3, <1>7, <1>11
  <2> QED
    BY <1>4, <1>5, <1>6, <1>11, <2>1
<1>12. CASE u = "day"
  <2>1. a < b
    BY <1>1, <1>2, <1>3, <1>8, <1>9, <1>12
  <2> QED
    BY <1>4, <1>5, <1>12, <2>1 DEF CountOf, Times
<1>13. CASE u = "hour"
  <2>1. a * 24 + g.hh < b * 24 + h.hh
    BY <1>1, <1>2, <1>3, <1>8, <1>9, <1>13
  <2> QED
    BY <1>4, <1>5, <1>13, <2>1 DEF CountOf, Times
<1>14. CASE u = "minute"
  <2>1. a * 1440 + (g.hh * 60 + g.mm) < b * 1440 + (h.hh * 60 + h.mm)
    <3> DEFINE c == g.hh
               e == g.mm
               k == h.hh
               l == h.mm
    <3>1. /\ a \in Int /\ b \in Int /\ c \in Int /\ e \in Int /\ k \in Int /\ l \in Int
          /\ 0 <= c /\ c <= 23 /\ 0 <= e /\ e <= 59 /\ 0 <= k /\ k <= 23 /\ 0 <= l /\ l <= 59
      BY <1>1
    <3>2. a < b \/ (a = b /\ c < k) \/ (a = b /\ c = k /\ e < l)
      <4>1. g.ss = 0 /\ h.ss = 0
        BY <1>2, <1>3, <1>14
      <4> QED
        BY <1>8, <1>9, <4>1
    <3> HIDE DEF c, e, k, l
    <3>3. a * 1440 + (c * 60 + e) < b * 1440 + (k * 60 + l)
      BY <3>1, <3>2
    <3> QED
      BY <3>3 DEF c, e, k, l
  <2> QED
    BY <1>4, <1>5, <1>14, <2>1 DEF CountOf, Times
<1>15. CASE u = "second"
  <2>1. (a * 1440 + (g.hh * 60 + g.mm)) * 60 + g.ss < (b * 1440 + (h.hh * 60 + h.mm)) * 60 + h.ss
    <3> DEFINE c == g.hh
               e == g.mm
               o == g.ss
               k == h.hh
               l == h.mm
               p == h.ss
    <3>1. /\ a \in Int /\ b \in Int /\ c \in Int /\ e \in Int /\ k \in Int /\ l \in Int /\ o \in Int /\ p \in Int
          /\ 0 <= c /\ c <= 23 /\ 0 <= e /\ e <= 59 /\ 0 <= k /\ k <= 23 /\ 0 <= l /\ l <= 59
          /\ 0 <= o /\ o <= 59 /\ 0 <= p /\ p <= 59
      BY <1>1
    <3>2. a < b \/ (a = b /\ c < k) \/ (a = b /\ c = k /\ e < l) \/ (a = b /\ c = k /\ e = l /\ o < p)
      BY <1>8, <1>9
    <3> HIDE DEF c, e, k, l, o, p
    <3>3. (a * 1440 + (c * 60 + e)) * 60 + o < (b * 1440 + (k * 60 + l)) * 60 + p
      BY <3>1, <3>2
    <3> QED
      BY <3>3 DEF c, e, k, l, o, p
  <2> QED
    BY <1>4, <1>5, <1>15, <2>1 DEF CountOf, Times
<1> QED
  BY <1>10, <1>11, <1>12, <1>13, <1>14, <1>15, UnitCases

\* operator< orders aligned values as their counts do.
LEMMA LessCounts ==
  ASSUME NEW u \in UnitSet, NEW g, NEW h, DateTime(g), DateTime(h), align(u, g) = g, align(u, h) = h
  PROVE  /\ Less(g, h) <=> Index(u, g) < Index(u, h)
         /\ Less(h, g) <=> Index(u, g) > Index(u, h)
<1>1. Index(u, g) \in Int /\ Index(u, h) \in Int
  BY IndexIs
<1>2. Less(g, h) => Index(u, g) < Index(u, h)
  BY LessAdds
<1>3. Less(h, g) => Index(u, h) < Index(u, g)
  BY LessAdds
<1>4. ~Less(g, h) /\ ~Less(h, g) => g = h
  <2>1. g \in Fields /\ h \in Fields
    BY DEF DateTime
  <2>2. ~Less(g, h) /\ ~Less(h, g) => g.y = h.y /\ g.m = h.m /\ g.d = h.d /\ g.hh = h.hh /\ g.mm = h.mm /\ g.ss = h.ss
    BY <2>1 DEF Less, Fields
  <2>3. g.y = h.y /\ g.m = h.m /\ g.d = h.d /\ g.hh = h.hh /\ g.mm = h.mm /\ g.ss = h.ss => g = h
    BY <2>1 DEF Fields
  <2> QED
    BY <2>2, <2>3
<1> QED
  BY <1>1, <1>2, <1>3, <1>4

\* Adding whole weeks keeps the day of the week.
LEMMA WholeWeeks == \A a \in Int, k \in Int : (a + 7 * k) % 7 = a % 7
OBVIOUS

\* get_weekday() is the day's place in the week: 1970-01-01, day 0, was a Thursday.
LEMMA WeekdayIs ==
  ASSUME NEW g, g.y \in Int, g.m \in 1..12, g.d \in Int, g.d >= 1
  PROVE  get_weekday(g) = (Day(g) + 3) % 7
<1> DEFINE y == g.y
           m == g.m
           d == g.d
           q == Quot(y, 400)
           v == Turn(y, m) - 1
           w0 == 2400 + Rem(y, 400) - Bit(m < 3)
           off == <<0, 3, 2, 5, 0, 3, 5, 1, 4, 6, 2, 4>>[m]
           w2 == w0 + Quot(w0, 4) - Quot(w0, 100) + Quot(w0, 400) + off + d
           b == IF m < 3 THEN 1 ELSE 0
           before == Before[m]
           c == <<0, 4, 8, 12, 17, 21, 25, 30, 34, 38, 43, 47>>[m]
           l == Leaps(v)
<1>0. y \in Int /\ m \in 1..12 /\ d \in Int /\ d >= 1
  OBVIOUS
<1>1. get_weekday(g) = (Rem(w2, 7) + 6) % 7
  BY DEF get_weekday
<1>2. /\ Day(g) = DaySum(y, l, before, d) /\ l \in Int /\ before \in 0..334 /\ Epoch \in Int /\ Epoch = 719163
      /\ Day(g) \in Int
  <2>1. /\ DayNumber(y, m, d) = DaySum(y, Leaps(Turn(y, m) - 1), Before[m], d) /\ DayNumber(y, m, d) \in Int
        /\ Before[m] \in 0..334 /\ Epoch \in Int /\ Leaps(Turn(y, m) - 1) \in Int
    <3> HIDE DEF y, m, d
    <3>1. DayNumber(y, m, d) = DaySum(y, Leaps(Turn(y, m) - 1), Before[m], d)
      BY <1>0, DayIs, ZenonT(60)
    <3>2. DayNumber(y, m, d) \in Int
      BY <1>0, DayIs, ZenonT(60)
    <3>3. Before[m] \in 0..334 /\ Epoch \in Int
      BY <1>0, FirstIs, ZenonT(60)
    <3>4. Leaps(Turn(y, m) - 1) \in Int
      BY <1>0, FirstIs, ZenonT(60)
    <3> QED
      BY <3>1, <3>2, <3>3, <3>4, Zenon
  <2>2. Epoch = 719163
    BY SMT DEF Epoch
  <2> QED
    BY <2>1, <2>2 DEF Day
<1> HIDE DEF y, m, d
<1>3. v = y - b /\ v \in Int /\ b \in 0..1 /\ b \in Int /\ Bit(m < 3) = b
  BY <1>0 DEF Turn, Bit
<1>4. q \in Int /\ Rem(y, 400) = y - 400 * q /\ Rem(y, 400) \in -399..399
  <2>1. PICK n \in Nat \ {0} : n = 400
    OBVIOUS
  <2>2. /\ Quot(y, n) \in Int /\ Rem(y, n) \in Int /\ y = n * Quot(y, n) + Rem(y, n)
        /\ (y >= 0 => Rem(y, n) \in 0..n - 1) /\ (y < 0 => Rem(y, n) \in -(n - 1)..0)
    BY <1>0, QuotRem
  <2> QED
    BY <1>0, <2>1, <2>2
<1> HIDE DEF q, v, b
<1> DEFINE k == 6 - q
<1>5. w0 = v + 400 * k /\ w0 \in Nat /\ k \in Int
  BY <1>0, <1>3, <1>4
<1>6. Quot(w0, 4) - Quot(w0, 100) + Quot(w0, 400) = Leaps(w0)
  <2> HIDE DEF w0
  <2> QED
    BY <1>5 DEF Quot, Leaps
<1> HIDE DEF w0, k
<1>7. Leaps(w0) = l + 97 * k /\ Leaps(w0) \in Int
  BY <1>3, <1>5, LeapsCycle, LeapsInt
<1>8. off \in 0..6 /\ c \in Int /\ before - off + b - 1 = 7 * c
  <2> m \in {1, 2, 3, 4, 5, 6, 7, 8, 9, 10, 11, 12}
    BY <1>0
  <2> QED
    BY DEF Before, b
<1> HIDE DEF off, before, l, c
<1>9. c \in Int /\ before - off + b - 1 = 7 * c
  BY <1>8
<1>10. before \in Int /\ off \in Int
  BY <1>2, <1>8
<1>11. w2 = w0 + Leaps(w0) + off + d
  <2> DEFINE e == Quot(w0, 4)
             i == Quot(w0, 100)
             o == Quot(w0, 400)
  <2>1. e \in Int /\ i \in Int /\ o \in Int /\ e - i + o = Leaps(w0)
    BY <1>5, <1>6 DEF Quot
  <2> HIDE DEF e, i, o
  <2>2. w0 + e - i + o + off + d = w0 + Leaps(w0) + off + d
    BY <1>0, <1>5, <1>7, <1>10, <2>1
  <2> QED
    BY <2>2 DEF e, i, o
<1> HIDE DEF w2
<1>12. w2 = v + 2400 - 400 * q + l + 582 - 97 * q + off + d /\ w2 \in Int
  BY <1>0, <1>2, <1>3, <1>4, <1>5, <1>7, <1>10, <1>11 DEF k
<1>13. w2 >= 0
  <2>1. Leaps(w0) >= 0
    BY <1>5 DEF Leaps
  <2> QED
    BY <1>0, <1>5, <1>7, <1>8, <1>11, <2>1
<1>14. (Rem(w2, 7) + 6) % 7 = (w2 + 6) % 7
  BY <1>12, <1>13 DEF Rem, Quot
<1> DEFINE s == 52 * y - 103216 + 71 * q + c
<1>15. Day(g) + 3 = (w2 + 6) + 7 * s /\ s \in Int
  <2>1. Day(g) = 365 * (y - 1) + l + before + d - 719163
    BY <1>2 DEF DaySum
  <2> QED
    BY <1>0, <1>2, <1>3, <1>4, <1>9, <1>10, <1>12, <2>1
<1> HIDE DEF s
<1> DEFINE x == w2 + 6
<1>16. x \in Int
  BY <1>12
<1> HIDE DEF x
<1>17. (x + 7 * s) % 7 = x % 7
  BY <1>15, <1>16, WholeWeeks
<1> QED
  BY <1>1, <1>14, <1>15, <1>17 DEF x, y, m, d

\* The first of a month, from the first of its year.
LEMMA FirstInYear ==
  ASSUME NEW y \in Int, NEW m \in 1..12
  PROVE  /\ First(y, m) = First(y, 1) + Before[m] + (IF m > 2 /\ Leap(y) THEN 1 ELSE 0)
         /\ First(y, 1) \in Int /\ First(y, m) \in Int /\ Before[m] \in 0..334
<1>1. PICK one \in 1..12 : one = 1
  OBVIOUS
<1>2. First(y, m) \in Int /\ First(y, one) \in Int
  BY FirstTyped
<1>3. Before[m] \in 0..334 /\ Before[one] = 0
  <2>1. Before[m] \in 0..334
    BY FirstIs
  <2> QED
    BY <1>1, <2>1 DEF Before
<1>4. /\ DaysBeforeMonth(y, m) = Before[m] + (IF m > 2 /\ Leap(y) THEN 1 ELSE 0)
      /\ DaysBeforeMonth(y, one) = Before[one] + (IF one > 2 /\ Leap(y) THEN 1 ELSE 0)
  BY DaysBefore
<1> DEFINE a == DaysBeforeMonth(y, m)
           b == DaysBeforeMonth(y, one)
           e == 365 * (y - 1) + ((y - 1) \div 4) - ((y - 1) \div 100) + ((y - 1) \div 400)
<1>5. First(y, m) = e + a + 1 - 1 - 719162 /\ First(y, one) = e + b + 1 - 1 - 719162
  BY SMT DEF First, DayNumber
<1>6. e \in Int
  OBVIOUS
<1>7. a \in Int /\ b = 0 /\ a = Before[m] + (IF m > 2 /\ Leap(y) THEN 1 ELSE 0)
  BY <1>1, <1>3, <1>4
<1> HIDE DEF a, b, e
<1>8. First(y, m) = First(y, one) + a
  BY <1>5, <1>6, <1>7, SMT
<1>9. First(y, m) = First(y, one) + Before[m] + (IF m > 2 /\ Leap(y) THEN 1 ELSE 0)
  BY <1>2, <1>3, <1>7, <1>8
<1> QED
  BY <1>1, <1>2, <1>3, <1>9

\* get_yearday() counts from 1 January.
LEMMA YeardayIs ==
  ASSUME NEW g, DateTime(g)
  PROVE  get_yearday(g) = Day(g) - First(g.y, 1) + 1
<1> DEFINE y == g.y
           m == g.m
           d == g.d
           one == First(y, 1)
           b == Before[m]
           l == IF m > 2 /\ Leap(y) THEN 1 ELSE 0
<1>1. y \in Int /\ m \in 1..12 /\ d \in Int /\ Day(g) = First(y, m) + d - 1
  BY DayInMonth
<1>2. get_yearday(g) = b + Bit(m > 2 /\ is_leap_year(y)) + d
  BY DEF get_yearday, Before
<1> HIDE DEF y, m, d
<1>3. Bit(m > 2 /\ is_leap_year(y)) = l
  BY <1>1, LeapYear DEF Bit
<1>4. First(y, m) = one + b + l /\ one \in Int /\ b \in 0..334 /\ l \in Int
  <2>1. First(y, m) = one + b + l
    BY <1>1, FirstInYear
  <2>2. one \in Int
    BY <1>1, FirstInYear
  <2>3. b \in 0..334
    BY <1>1, FirstInYear
  <2>4. l \in Int
    OBVIOUS
  <2> QED
    BY <2>1, <2>2, <2>3, <2>4
<1> HIDE DEF one, b, l
<1>5. Day(g) - one + 1 = b + l + d
  BY <1>1, <1>4
<1> QED
  BY <1>2, <1>3, <1>5 DEF y, one

\* The weekday functions agree with the count of days.
LEMMA WeekdaysRight ==
  ASSUME NEW g, DateTime(g)
  PROVE  LET day == Index("day", g)
             today == align("day", g)
         IN  /\ get_weekday(g) = (day + 3) % 7
             /\ get_yearday(g) = day - DayNumber(g.y, 1, 1) + 1
             /\ \A wd \in 0..6 :
                  LET next == Index("day", next_weekday(today, wd))
                      prev == Index("day", prev_weekday(today, wd))
                  IN  /\ next \in day + 1 .. day + 7 /\ (next + 3) % 7 = wd
                      /\ prev \in day - 7 .. day - 1 /\ (prev + 3) % 7 = wd
<1> DEFINE u == "day"
           day == Index(u, g)
           today == align(u, g)
           i == get_weekday(today)
<1>1. u \in UnitSet /\ u \in Times
  BY UnitCases DEF Times
<1>2. day = Day(g) /\ day \in Int
  <2>1. Index(u, g) = CountOf(u, Day(g), g.hh, g.mm, g.ss) /\ Index(u, g) \in Int
    <3> HIDE DEF u
    <3> QED
      BY <1>1, IndexIs
  <2> QED
    BY <2>1 DEF CountOf
<1>3. DateTime(today) /\ align(u, today) = today /\ Index(u, today) = day
  <2> HIDE DEF u
  <2> QED
    BY <1>1, Aligns
<1>4. /\ g.y \in Int /\ g.m \in 1..12 /\ g.d \in Int /\ g.d >= 1
  BY DayInMonth DEF DateTime, Valid
<1>5. get_weekday(g) = (day + 3) % 7
  BY <1>2, <1>4, WeekdayIs
<1>6. get_yearday(g) = day - DayNumber(g.y, 1, 1) + 1
  BY <1>2, YeardayIs DEF First
<1> HIDE DEF today, day
<1>7. i = (day + 3) % 7
  <2>1. Day(today) = day
    <3>1. Index(u, today) = CountOf(u, Day(today), today.hh, today.mm, today.ss)
      <4> HIDE DEF u
      <4> QED
        BY <1>1, <1>3, IndexIs
    <3> QED
      BY <1>3, <3>1 DEF CountOf
  <2>2. today.y \in Int /\ today.m \in 1..12 /\ today.d \in Int /\ today.d >= 1
    BY <1>3, DayInMonth DEF DateTime, Valid
  <2> QED
    BY <2>1, <2>2, WeekdayIs
<1>8. i \in 0..6
  BY <1>2, <1>7
<1> HIDE DEF i
<1>9. ASSUME NEW n \in Int PROVE Index(u, step(u, today, n)) = day + n
  <2> HIDE DEF u
  <2> QED
    BY <1>1, <1>3, Stepped
<1>10. ASSUME NEW wd \in 0..6
       PROVE  LET next == Index(u, next_weekday(today, wd)) IN next \in day + 1 .. day + 7 /\ (next + 3) % 7 = wd
  <2> DEFINE j == IF wd > i THEN wd ELSE wd + 7
             n == j - i
             next == Index(u, next_weekday(today, wd))
  <2>1. next_weekday(today, wd) = step(u, today, n)
    BY DEF next_weekday, i
  <2>2. n \in 1..7 /\ n \in Int /\ (i + n) % 7 = wd
    BY <1>8
  <2> HIDE DEF n, u
  <2>3. next = day + n
    BY <1>9, <2>1, <2>2
  <2> HIDE DEF next
  <2>4. (day + n + 3) % 7 = wd
    <3>1. i = (day + 3) % 7
      BY <1>7
    <3> QED
      BY <1>2, <2>2, <3>1
  <2> QED
    BY <1>2, <2>2, <2>3, <2>4 DEF next
<1>11. ASSUME NEW wd \in 0..6
       PROVE  LET prev == Index(u, prev_weekday(today, wd)) IN prev \in day - 7 .. day - 1 /\ (prev + 3) % 7 = wd
  <2> DEFINE k == 6 - i
             j == IF 6 - wd > k THEN 6 - wd ELSE 6 - wd + 7
             n == -(j - k)
             prev == Index(u, prev_weekday(today, wd))
  <2>1. prev_weekday(today, wd) = step(u, today, n)
    BY DEF prev_weekday, i
  <2>2. n \in -7..-1 /\ n \in Int /\ (i + n) % 7 = wd
    BY <1>8
  <2> HIDE DEF n, u
  <2>3. prev = day + n
    BY <1>9, <2>1, <2>2
  <2> HIDE DEF prev
  <2>4. (day + n + 3) % 7 = wd
    <3>1. i = (day + 3) % 7
      BY <1>7
    <3> QED
      BY <1>2, <2>2, <3>1
  <2> QED
    BY <1>2, <2>2, <2>3, <2>4 DEF prev
<1> QED
  BY <1>5, <1>6, <1>10, <1>11 DEF day, today

------------------------------------------------------------------------------
(* operator- counts *)

\* scale_add() is v * k + a, without an overflow on the way.
LEMMA ScaleAdds ==
  ASSUME NEW v \in Int, NEW a \in Int
  PROVE  scale_add(v, 12, a) = v * 12 + a /\ scale_add(v, 24, a) = v * 24 + a /\ scale_add(v, 60, a) = v * 60 + a
BY DEF scale_add

\* ymd_ord() is the number of a day, counted in eras of 400 years.
LEMMA OrdIsDay ==
  ASSUME NEW y \in Int, NEW m \in 1..12, NEW d \in Int
  PROVE  ymd_ord(y, m, d) = DayNumber(y, m, d)
<1> DEFINE v == IF m <= 2 THEN y - 1 ELSE y
           era == Quot(IF v >= 0 THEN v ELSE v - 399, 400)
           yoe == v - era * 400
           moy == m + (IF m > 2 THEN -3 ELSE 9)
           doy == Quot(153 * moy + 2, 5)
           q4 == Quot(yoe, 4)
           q100 == Quot(yoe, 100)
           l == Leaps(v)
           b == Before[m]
           j == IF m <= 2 THEN 1 ELSE 0
<1>1. ymd_ord(y, m, d) = era * 146097 + (yoe * 365 + q4 - q100 + (doy + d - 1)) - 719468
  BY SMT DEF ymd_ord
<1>2. v = y - j /\ v \in Int /\ j \in Int /\ v = Turn(y, m) - 1
  BY DEF Turn
<1>3. DayNumber(y, m, d) = 365 * (y - 1) + l + b + d - 719163 /\ l \in Int /\ b \in Int
  <2>1. DayNumber(y, m, d) = DaySum(y, l, b, d)
    <3>1. DayNumber(y, m, d) = DaySum(y, Leaps(Turn(y, m) - 1), Before[m], d)
      BY DayIs
    <3> QED
      BY <1>2, <3>1
  <2>2. b \in Int /\ l \in Int
    <3>1. b \in 0..334 /\ Leaps(Turn(y, m) - 1) \in Int
      BY FirstIs
    <3>2. b \in Int
      BY <3>1
    <3> QED
      BY <1>2, <3>1, <3>2
  <2> QED
    BY <2>1, <2>2, SMT DEF DaySum, Epoch
<1>5. doy \in Int /\ 365 * (j - 1) + b - 719163 = doy - 719469
  <2> m \in {1, 2, 3, 4, 5, 6, 7, 8, 9, 10, 11, 12}
    OBVIOUS
  <2>1. /\ 153 * moy + 2 >= 0 /\ doy = (153 * moy + 2) \div 5
    BY DEF Quot
  <2> QED
    BY <2>1, SMT DEF Before
<1> HIDE DEF v, doy, b, j
<1>6. era = v \div 400 /\ era \in Int /\ yoe \in 0..399
  <2>1. era = v \div 400
    BY <1>2 DEF Quot
  <2> HIDE DEF era
  <2> QED
    BY <1>2, <2>1
<1> HIDE DEF era
<1>7. q4 = yoe \div 4 /\ q100 = yoe \div 100 /\ q4 \in Int /\ q100 \in Int /\ yoe \div 400 = 0
  BY <1>6 DEF Quot
<1>8. l = q4 - q100 + 97 * era
  <2>1. v = yoe + 400 * era /\ yoe \in Int
    BY <1>2, <1>6
  <2> HIDE DEF yoe
  <2>2. Leaps(yoe + 400 * era) = Leaps(yoe) + 97 * era
    BY <1>6, <2>1, LeapsCycle
  <2>3. Leaps(yoe) = q4 - q100
    BY <1>7 DEF Leaps
  <2> QED
    BY <2>1, <2>2, <2>3
<1>9. v = yoe + 400 * era /\ yoe \in Int
  BY <1>2, <1>6
<1> HIDE DEF yoe, q4, q100, l
<1> QED
  BY <1>1, <1>2, <1>3, <1>5, <1>6, <1>7, <1>8, <1>9, SMT

\* The numbers of days repeat with the calendar.
LEMMA DayCycles ==
  ASSUME NEW y \in Int, NEW m \in 1..12, NEW d \in Int, NEW k \in Int
  PROVE  DayNumber(y + 400 * k, m, d) = DayNumber(y, m, d) + 146097 * k /\ DayNumber(y, m, d) \in Int
<1> DEFINE z == y + 400 * k
<1>1. First(z, m) = First(y, m) + 146097 * k
  BY Cycles, SMT
<1>2. z \in Int
  OBVIOUS
<1> HIDE DEF z
<1>3. DayNumber(z, m, d) = First(z, m) + d - 1 /\ DayNumber(y, m, d) = First(y, m) + d - 1
  BY <1>2, DayFromFirst
<1>4. First(z, m) \in Int /\ First(y, m) \in Int
  BY <1>2, FirstTyped
<1>5. DayNumber(z, m, d) = DayNumber(y, m, d) + 146097 * k /\ DayNumber(y, m, d) \in Int
  BY <1>1, <1>3, <1>4, SMT
<1> QED
  BY <1>5, SMT DEF z

\* day_difference() is the number of days between, however many cycles apart.
LEMMA DaysBetween ==
  ASSUME NEW g, NEW h, DateTime(g), DateTime(h)
  PROVE  day_difference(g, h) = Day(g) - Day(h)
<1> DEFINE a == Rem(g.y, 400)
           b == Rem(h.y, 400)
           p == Quot(g.y, 400)
           q == Quot(h.y, 400)
           c4 == (g.y - a) - (h.y - b)
           i == DayNumber(a, g.m, g.d)
           j == DayNumber(b, h.m, h.d)
           delta == ymd_ord(a, g.m, g.d) - ymd_ord(b, h.m, h.d)
           twist == CASE c4 > 0 /\ delta < 0 -> 2
                      [] c4 < 0 /\ delta > 0 -> -2
                      [] OTHER -> 0
           N == 146097
<1>1. /\ g.y \in Int /\ g.m \in 1..12 /\ g.d \in Int /\ h.y \in Int /\ h.m \in 1..12 /\ h.d \in Int
      /\ Day(g) \in Int /\ Day(h) \in Int
  BY DayInMonth
<1>2. \A y \in Int : Quot(y, 400) \in Int /\ Rem(y, 400) \in Int /\ y = 400 * Quot(y, 400) + Rem(y, 400)
  BY DEF Quot, Rem
<1>3. /\ a \in Int /\ p \in Int /\ g.y = a + 400 * p /\ b \in Int /\ q \in Int /\ h.y = b + 400 * q
  <2> DEFINE x == g.y
             y == h.y
  <2>1. x \in Int /\ y \in Int
    BY <1>1
  <2> HIDE DEF x, y
  <2>2. /\ Quot(x, 400) \in Int /\ Rem(x, 400) \in Int /\ x = 400 * Quot(x, 400) + Rem(x, 400)
        /\ Quot(y, 400) \in Int /\ Rem(y, 400) \in Int /\ y = 400 * Quot(y, 400) + Rem(y, 400)
    BY <1>2, <2>1
  <2>3. x = Rem(x, 400) + 400 * Quot(x, 400) /\ y = Rem(y, 400) + 400 * Quot(y, 400)
    BY <2>2
  <2> QED
    BY <2>2, <2>3 DEF x, y
<1>4. day_difference(g, h) = Quot(c4 - twist * 400, 400) * N + delta + twist * N
  BY SMT DEF day_difference
<1> HIDE DEF a, b, p, q
<1>6. Day(g) = i + 146097 * p /\ Day(h) = j + 146097 * q /\ i \in Int /\ j \in Int
  <2> DEFINE x == g.y
             y == h.y
             m == g.m
             n == h.m
             d == g.d
             e == h.d
  <2>1. x = a + 400 * p /\ y = b + 400 * q /\ m \in 1..12 /\ n \in 1..12 /\ d \in Int /\ e \in Int
    BY <1>1, <1>3
  <2> HIDE DEF x, y, m, n, d, e
  <2>2. DayNumber(a + 400 * p, m, d) = DayNumber(a, m, d) + 146097 * p /\ DayNumber(a, m, d) \in Int
    BY <1>3, <2>1, DayCycles, SMT
  <2>3. DayNumber(b + 400 * q, n, e) = DayNumber(b, n, e) + 146097 * q /\ DayNumber(b, n, e) \in Int
    BY <1>3, <2>1, DayCycles, SMT
  <2>4. DayNumber(x, m, d) = DayNumber(a, m, d) + 146097 * p /\ DayNumber(y, n, e) = DayNumber(b, n, e) + 146097 * q
    BY <2>1, <2>2, <2>3, SMT
  <2> QED
    BY <2>2, <2>3, <2>4, SMT DEF Day, x, y, m, n, d, e
<1>7. delta = i - j
  <2>1. ymd_ord(a, g.m, g.d) = i /\ ymd_ord(b, h.m, h.d) = j
    BY <1>1, <1>3, OrdIsDay
  <2> QED
    BY <2>1
<1>8. twist \in {-2, 0, 2}
  OBVIOUS
<1>9. c4 = 400 * (p - q)
  BY <1>1, <1>3
<1> HIDE DEF i, j, delta, twist, c4
<1> DEFINE k == p - q - twist
<1>10. Quot(c4 - twist * 400, 400) = k /\ k \in Int
  <2>1. k \in Int /\ c4 - twist * 400 = 400 * k
    BY <1>3, <1>8, <1>9
  <2> HIDE DEF k
  <2>2. Quot(400 * k, 400) = k
    BY <2>1 DEF Quot
  <2> QED
    BY <2>1, <2>2
<1>11. day_difference(g, h) = k * N + delta + twist * N
  <2> HIDE DEF k, N
  <2> QED
    BY <1>4, <1>10
<1>12. twist \in Int
  BY <1>8
<1> QED
  BY <1>3, <1>6, <1>7, <1>11, <1>12, SMT

\* operator- counts the units between two aligned values.
LEMMA Differs ==
  ASSUME NEW u \in UnitSet, NEW g, NEW h, DateTime(g), DateTime(h)
  PROVE  difference(u, g, h) = Index(u, g) - Index(u, h)
<1> DEFINE a == Day(g)
           b == Day(h)
           days == day_difference(g, h)
           hours == scale_add(days, 24, g.hh - h.hh)
           minutes == scale_add(hours, 60, g.mm - h.mm)
           seconds == scale_add(minutes, 60, g.ss - h.ss)
           months == scale_add(g.y - h.y, 12, g.m - h.m)
<1>1. /\ g.y \in Int /\ g.m \in Int /\ g.hh \in Int /\ g.mm \in Int /\ g.ss \in Int /\ a \in Int
      /\ h.y \in Int /\ h.m \in Int /\ h.hh \in Int /\ h.mm \in Int /\ h.ss \in Int /\ b \in Int
  BY DayInMonth DEF DateTime, Valid, Fields
<1>2. /\ u \in Times => Index(u, g) = CountOf(u, a, g.hh, g.mm, g.ss)
      /\ u = "month" => Index(u, g) = MonthOf(g)
      /\ u = "year" => Index(u, g) = g.y
  BY IndexIs
<1>3. /\ u \in Times => Index(u, h) = CountOf(u, b, h.hh, h.mm, h.ss)
      /\ u = "month" => Index(u, h) = MonthOf(h)
      /\ u = "year" => Index(u, h) = h.y
  BY IndexIs
<1>4. days = a - b
  BY DaysBetween
<1>5. /\ u = "year" => difference(u, g, h) = g.y - h.y
      /\ u = "month" => difference(u, g, h) = months
      /\ u = "day" => difference(u, g, h) = days
      /\ u = "hour" => difference(u, g, h) = hours
      /\ u = "minute" => difference(u, g, h) = minutes
      /\ u = "second" => difference(u, g, h) = seconds
  BY DEF difference
<1> DEFINE c == g.hh
           e == g.mm
           k == g.ss
           l == h.hh
           m == h.mm
           n == h.ss
<1>6. /\ c \in Int /\ e \in Int /\ k \in Int /\ l \in Int /\ m \in Int /\ n \in Int /\ days \in Int
  BY <1>1, <1>4
<1> HIDE DEF days, a, b
<1>7. hours = (a - b) * 24 + (c - l) /\ hours \in Int
  <2> DEFINE x == c - l
  <2>1. x \in Int
    BY <1>6
  <2> HIDE DEF x
  <2>2. scale_add(days, 24, x) = days * 24 + x
    BY <1>6, <2>1, ScaleAdds
  <2> QED
    BY <1>4, <1>6, <2>1, <2>2 DEF x
<1> HIDE DEF hours
<1>8. minutes = ((a - b) * 24 + (c - l)) * 60 + (e - m) /\ minutes \in Int
  <2> DEFINE x == e - m
  <2>1. x \in Int
    BY <1>6
  <2> HIDE DEF x
  <2>2. scale_add(hours, 60, x) = hours * 60 + x
    BY <1>7, <2>1, ScaleAdds
  <2> QED
    BY <1>7, <2>1, <2>2 DEF x
<1> HIDE DEF minutes
<1>9. seconds = (((a - b) * 24 + (c - l)) * 60 + (e - m)) * 60 + (k - n)
  <2> DEFINE x == k - n
  <2>1. x \in Int
    BY <1>6
  <2> HIDE DEF x
  <2>2. scale_add(minutes, 60, x) = minutes * 60 + x
    BY <1>8, <2>1, ScaleAdds
  <2> QED
    BY <1>8, <2>1, <2>2 DEF x
<1> HIDE DEF seconds
<1>10. months = (g.y - h.y) * 12 + (g.m - h.m)
  <2> DEFINE x == g.m - h.m
             v == g.y - h.y
  <2>1. x \in Int /\ v \in Int
    BY <1>1
  <2> HIDE DEF x, v
  <2>2. scale_add(v, 12, x) = v * 12 + x
    BY <2>1, ScaleAdds
  <2> QED
    BY <2>2 DEF x, v
<1> HIDE DEF months, c, e, k, l, m, n
<1>11. a \in Int /\ b \in Int
  BY <1>1 DEF a, b
<1>12. CASE u = "year"
  BY <1>2, <1>3, <1>5, <1>12
<1>13. CASE u = "month"
  <2>1. MonthOf(g) = 12 * g.y + g.m - 1 /\ MonthOf(h) = 12 * h.y + h.m - 1
    BY DEF MonthOf
  <2>2. (g.y - h.y) * 12 + (g.m - h.m) = (12 * g.y + g.m - 1) - (12 * h.y + h.m - 1)
    BY <1>1
  <2> QED
    BY <1>2, <1>3, <1>5, <1>10, <1>13, <2>1, <2>2
<1>14. CASE u = "day"
  <2>1. Index(u, g) = a /\ Index(u, h) = b
    BY <1>2, <1>3, <1>14 DEF CountOf, Times
  <2> QED
    BY <1>4, <1>5, <1>14, <2>1
<1>15. CASE u = "hour"
  <2>1. Index(u, g) = a * 24 + c /\ Index(u, h) = b * 24 + l
    BY <1>2, <1>3, <1>15 DEF CountOf, Times, c, l
  <2>2. (a - b) * 24 + (c - l) = (a * 24 + c) - (b * 24 + l)
    BY <1>6, <1>11
  <2> QED
    BY <1>5, <1>7, <1>15, <2>1, <2>2
<1>16. CASE u = "minute"
  <2>1. Index(u, g) = a * 1440 + (c * 60 + e) /\ Index(u, h) = b * 1440 + (l * 60 + m)
    BY <1>2, <1>3, <1>16 DEF CountOf, Times, c, l, e, m
  <2>2. ((a - b) * 24 + (c - l)) * 60 + (e - m) = (a * 1440 + (c * 60 + e)) - (b * 1440 + (l * 60 + m))
    BY <1>6, <1>11
  <2> QED
    BY <1>5, <1>8, <1>16, <2>1, <2>2
<1>17. CASE u = "second"
  <2>1. Index(u, g) = (a * 1440 + (c * 60 + e)) * 60 + k /\ Index(u, h) = (b * 1440 + (l * 60 + m)) * 60 + n
    BY <1>2, <1>3, <1>17 DEF CountOf, Times, c, l, e, m, k, n
  <2>2. (((a - b) * 24 + (c - l)) * 60 + (e - m)) * 60 + (k - n)
          = ((a * 1440 + (c * 60 + e)) * 60 + k) - ((b * 1440 + (l * 60 + m)) * 60 + n)
    BY <1>6, <1>11
  <2> QED
    BY <1>5, <1>9, <1>17, <2>1, <2>2
<1> QED
  BY <1>12, <1>13, <1>14, <1>15, <1>16, <1>17, UnitCases

------------------------------------------------------------------------------
(* The dates of a rule *)

\* The first of a year, and of the next.
LEMMA YearFirst ==
  ASSUME NEW y \in Int
  PROVE  First(y, 1) \in Int /\ First(y + 1, 1) = First(y, 1) + (IF Leap(y) THEN 366 ELSE 365)
<1>1. PICK one \in 1..12 : one = 1
  OBVIOUS
<1>2. days_per_year(y, one) \in {365, 366} /\ First(y + 1, one) = First(y, one) + days_per_year(y, one)
  BY YearLength
<1>3. First(y, one) \in Int
  BY FirstTyped
<1>4. days_per_year(y, one) = IF Leap(y) THEN 366 ELSE 365
  <2>1. y + Bit(one > 2) = y
    BY <1>1 DEF Bit
  <2>2. days_per_year(y, one) = IF is_leap_year(y) THEN 366 ELSE 365
    BY <2>1 DEF days_per_year
  <2> QED
    BY <2>2, LeapYear
<1> QED
  BY <1>1, <1>2, <1>3, <1>4

\* The months' beginnings in the table of the rules.
LEMMA OffsetsAre ==
  ASSUME NEW y \in Int, NEW m \in 1..12
  PROVE  /\ MonthOffsets(is_leap_year(y))[m] = First(y, m) - First(y, 1)
         /\ MonthOffsets(is_leap_year(y))[m + 1] = First(y, m) + MonthDays(y, m) - First(y, 1)
         /\ First(y, m) - First(y, 1) \in 0..335
         /\ MonthOffsets(TRUE)[3] = 60
<1> DEFINE leap == is_leap_year(y)
           b == Before[m]
           l == IF m > 2 /\ Leap(y) THEN 1 ELSE 0
           one == First(y, 1)
           x == First(y, m)
           n == MonthDays(y, m)
<1>1. leap <=> Leap(y)
  BY LeapYear
<1>2. x = one + b + l
  BY FirstInYear
<1>3. one \in Int /\ b \in 0..334
  <2>1. one \in Int
    BY FirstInYear
  <2>2. b \in 0..334
    BY FirstInYear
  <2> QED
    BY <2>1, <2>2
<1>4. l \in 0..1 /\ n \in 28..31
  BY MonthLength
<1> HIDE DEF leap
<1>5. MonthOffsets(leap)[m] = b + l /\ MonthOffsets(leap)[m + 1] = b + l + n
  <2> m \in {1, 2, 3, 4, 5, 6, 7, 8, 9, 10, 11, 12}
    OBVIOUS
  <2>1. CASE leap
    BY <1>1, <2>1 DEF MonthOffsets, Before, MonthDays
  <2>2. CASE ~leap
    BY <1>1, <2>2 DEF MonthOffsets, Before, MonthDays
  <2> QED
    BY <2>1, <2>2
<1>6. MonthOffsets(TRUE)[3] = 60
  BY DEF MonthOffsets
<1> HIDE DEF b, l, one, x, n
<1>7. x - one = b + l /\ x + n - one = b + l + n /\ x - one \in 0..335
  BY <1>2, <1>3, <1>4
<1> QED
  BY <1>5, <1>6, <1>7 DEF leap, one, x, n

\* The weekday of 1 January, Sunday being 0.
Jan1Of(y) == ToPosixWeekday(get_weekday(fields(y, 1, 1, 0, 0, 0)))
\* It is the place of the day in the week.
LEMMA Jan1Is ==
  ASSUME NEW y \in Int
  PROVE  Jan1Of(y) = (First(y, 1) + 4) % 7 /\ Jan1Of(y) \in 0..6
<1> DEFINE g == fields(y, 1, 1, 0, 0, 0)
           n == First(y, 1)
<1>1. g.y = y /\ g.m = 1 /\ g.d = 1
  BY DEF fields
<1>2. n \in Int
  BY YearFirst
<1> HIDE DEF g
<1>3. get_weekday(g) = (Day(g) + 3) % 7
  BY <1>1, WeekdayIs
<1>4. Day(g) = n
  BY <1>1 DEF Day, First
<1> HIDE DEF n
<1>5. (((n + 3) % 7) + 1) % 7 = (n + 4) % 7 /\ (n + 4) % 7 \in 0..6
  BY <1>2
<1>6. Jan1Of(y) = (((n + 3) % 7) + 1) % 7
  BY <1>3, <1>4 DEF Jan1Of, ToPosixWeekday, g
<1> QED
  BY <1>5, <1>6 DEF n

\* From one 1 January to the next, the leap flag and the weekday are carried on rightly.
LEMMA NextYear ==
  ASSUME NEW y \in Int
  PROVE  /\ NextLeap(is_leap_year(y), y) <=> Leap(y + 1)
         /\ NextJan1(is_leap_year(y), Jan1Of(y)) = (First(y + 1, 1) + 4) % 7
<1> DEFINE z == y + 1
           leap == is_leap_year(y)
           j == Jan1Of(y)
           a == First(y, 1)
           b == First(z, 1)
<1>1. z \in Int
  OBVIOUS
<1>2. leap <=> Leap(y)
  BY LeapYear
<1>3. Leap(z) => ~Leap(y)
  BY DEF Leap
<1>4. b = a + (IF Leap(y) THEN 366 ELSE 365) /\ a \in Int
  BY YearFirst
<1> HIDE DEF z
<1>5. is_leap_year(z) <=> Leap(z)
  BY <1>1, LeapYear
<1>6. NextLeap(leap, y) <=> ~leap /\ is_leap_year(z)
  BY DEF NextLeap, z
<1>7. j = (a + 4) % 7 /\ j \in 0..6
  BY Jan1Is
<1>8. NextJan1(leap, j) = Rem(j + (IF leap THEN 366 ELSE 365), 7)
  BY DEF NextJan1
<1> HIDE DEF leap, j, a, b
<1>9. Rem(j + 366, 7) = (a + 366 + 4) % 7 /\ Rem(j + 365, 7) = (a + 365 + 4) % 7
  BY <1>4, <1>7 DEF Rem, Quot
<1>10. NextJan1(leap, j) = (b + 4) % 7
  <2>1. CASE leap
    <3>1. b = a + 366
      BY <1>2, <1>4, <2>1
    <3> QED
      BY <1>8, <1>9, <2>1, <3>1
  <2>2. CASE ~leap
    <3>1. b = a + 365
      BY <1>2, <1>4, <2>2
    <3> QED
      BY <1>8, <1>9, <2>2, <3>1
  <2> QED
    BY <2>1, <2>2
<1> QED
  BY <1>2, <1>3, <1>5, <1>6, <1>10 DEF z, leap, j, b

\* The days of month m in a common year.
CommonDays(m) == 1..MonthDays(2001, m)

\* A rule of the form Jn means the same date in every year.
LEMMA JulianDays ==
  ASSUME NEW y \in Int, NEW m \in 1..12, NEW d \in CommonDays(m), NEW jan1
  PROVE  First(y, 1) + TransDays(is_leap_year(y), jan1, [fmt |-> "J", day |-> DaysBeforeMonth(2001, m) + d, week |-> 0])
           = First(y, m) + d - 1
<1> DEFINE n == DaysBeforeMonth(2001, m) + d
           pt == [fmt |-> "J", day |-> n, week |-> 0]
           b == Before[m]
           leap == is_leap_year(y)
           one == First(y, 1)
           l == IF m > 2 /\ Leap(y) THEN 1 ELSE 0
<1>1. PICK z \in Int : z = 2001
  OBVIOUS
<1>2. ~Leap(z)
  BY <1>1 DEF Leap
<1>3. DaysBeforeMonth(z, m) = b + (IF m > 2 /\ Leap(z) THEN 1 ELSE 0)
  BY DaysBefore
<1>4. b \in 0..334
  BY FirstInYear
<1>4a. d \in Int /\ 1 <= d /\ (m = 1 => d <= 31) /\ (m = 2 => d <= 28)
  <2>1. d \in 1..MonthDays(z, m) /\ MonthDays(z, m) \in 28..31
    <3>1. MonthDays(z, m) \in 28..31
      BY MonthLength
    <3> QED
      BY <1>1, <3>1 DEF CommonDays
  <2>2. m = 2 => MonthDays(z, m) = 28
    BY <1>2 DEF MonthDays
  <2> QED
    BY <2>1, <2>2
<1>5. n = b + d
  <2>1. DaysBeforeMonth(z, m) = b
    BY <1>2, <1>3, <1>4
  <2> QED
    BY <1>1, <2>1
<1>6. First(y, m) = one + b + l
  BY FirstInYear
<1>6a. one \in Int
  BY FirstInYear
<1>7. MonthOffsets(TRUE)[3] = 60
  BY DEF MonthOffsets
<1>8. TransDays(leap, jan1, pt) = IF ~leap \/ n < 60 THEN n - 1 ELSE n
  <2> HIDE DEF n, leap
  <2>0. pt.fmt = "J" /\ pt.day = n
    OBVIOUS
  <2> HIDE DEF pt
  <2>1. TransDays(leap, jan1, pt) = IF ~leap \/ n < MonthOffsets(TRUE)[3] THEN n - 1 ELSE n
    BY <2>0 DEF TransDays
  <2> QED
    BY <1>7, <2>1
<1>9. leap <=> Leap(y)
  BY LeapYear
<1>11. m > 2 => b >= 59
  <2> m \in {1, 2, 3, 4, 5, 6, 7, 8, 9, 10, 11, 12}
    OBVIOUS
  <2> QED
    BY DEF Before
<1> HIDE DEF n, b, leap, one, pt
<1>12. b \in Int /\ d \in Int
  BY <1>4, <1>4a
<1>12a. (m <= 2 => b + d < 60) /\ (m > 2 => b + d >= 60)
  <2>1. m = 1 => b = 0
    BY DEF Before, b
  <2>2. m = 2 => b = 31
    BY DEF Before, b
  <2>3. m = 1 \/ m = 2 \/ m > 2
    OBVIOUS
  <2> QED
    BY <1>4a, <1>11, <1>12, <2>1, <2>2, <2>3
<1>13. (IF ~leap \/ n < 60 THEN n - 1 ELSE n) = b + l + d - 1
  BY <1>5, <1>9, <1>12, <1>12a
<1>14. one + (b + l + d - 1) = First(y, m) + d - 1
  BY <1>6, <1>6a, <1>12
<1> QED
  BY <1>8, <1>13, <1>14 DEF leap, pt, n, one

\* The remainder of a number that is not negative is the place in the week.
LEMMA WeekRem == \A k \in Int : k >= 0 => Rem(k, 7) = k % 7 /\ Rem(k, 7) \in 0..6
  BY DEF Rem, Quot

\* d is the w-th weekday wd of a month that begins with day a and has n days, the fifth being
\* the last one.
Finds(d, a, n, wd, w) ==
  /\ (d + 4) % 7 = wd
  /\ d \in IF w = 5 THEN a + n - 7 .. a + n - 1 ELSE a + 7 * w - 7 .. a + 7 * w - 1

\* A rule of the form Mm.w.d means the w-th weekday d of month m, the fifth being the last.
LEMMA MonthRules ==
  ASSUME NEW y \in Int, NEW m \in 1..12, NEW wd \in 0..6, NEW w \in 1..5
  PROVE  Finds(First(y, 1) + TransDays(is_leap_year(y), Jan1Of(y), [fmt |-> "M", month |-> m, week |-> w, weekday |-> wd]),
               First(y, m), MonthDays(y, m), wd, w)
<1> DEFINE pt == [fmt |-> "M", month |-> m, week |-> w, weekday |-> wd]
           leap == is_leap_year(y)
           j == Jan1Of(y)
           a == First(y, m)
           n == MonthDays(y, m)
           one == First(y, 1)
           days == TransDays(leap, j, pt)
<1>1. /\ MonthOffsets(leap)[m] = a - one /\ MonthOffsets(leap)[m + 1] = a + n - one /\ a - one \in 0..335
  <2>1. MonthOffsets(leap)[m] = a - one
    BY OffsetsAre
  <2>2. MonthOffsets(leap)[m + 1] = a + n - one
    BY OffsetsAre
  <2>3. a - one \in 0..335
    BY OffsetsAre
  <2> QED
    BY <2>1, <2>2, <2>3
<1>2. j = (one + 4) % 7 /\ j \in 0..6
  BY Jan1Is
<1>3. one \in Int /\ a \in Int /\ n \in 28..31
  <2>1. one \in Int
    BY YearFirst
  <2>2. a \in Int
    BY FirstTyped
  <2>3. n \in 28..31
    BY MonthLength
  <2> QED
    BY <2>1, <2>2, <2>3
<1>4. pt.fmt = "M" /\ pt.month = m /\ pt.week = w /\ pt.weekday = wd
  OBVIOUS
<1> HIDE DEF leap, j, a, n, one, pt
<1>5. CASE w = 5
  <2> DEFINE g == a + n - one
             weekday == Rem(j + g, 7)
             x == Rem(weekday + 7 - 1 - wd, 7) + 1
  <2>1. days = g - x
    <3>1. days = MonthOffsets(leap)[m + 1] - (Rem(Rem(j + MonthOffsets(leap)[m + 1], 7) + 7 - 1 - wd, 7) + 1)
      BY <1>4, <1>5 DEF TransDays
    <3> QED
      BY <1>1, <3>1
  <2>2. g \in Int /\ g >= 0
    BY <1>1, <1>3
  <2>3. weekday = (a + n + 4) % 7 /\ weekday \in 0..6
    <3> HIDE DEF g
    <3>1. weekday = (j + g) % 7 /\ weekday \in 0..6
      <4>1. j + g \in Int /\ j + g >= 0
        BY <1>2, <2>2
      <4> QED
        BY <4>1, WeekRem
    <3>2. (j + g) % 7 = (one + 4 + g) % 7
      BY <1>2, <1>3, <2>2
    <3>3. one + 4 + g = a + n + 4
      BY <1>3 DEF g
    <3> QED
      BY <3>1, <3>2, <3>3
  <2> HIDE DEF g, weekday
  <2>4. x = ((weekday + 6 - wd) % 7) + 1 /\ x \in 1..7
    <3> DEFINE k == weekday + 7 - 1 - wd
    <3>1. k \in Int /\ k >= 0 /\ k = weekday + 6 - wd
      BY <2>3
    <3> HIDE DEF k
    <3>2. Rem(k, 7) = k % 7 /\ Rem(k, 7) \in 0..6
      BY <3>1, WeekRem
    <3>3. x = Rem(k, 7) + 1
      BY DEF k
    <3> HIDE DEF x
    <3> QED
      BY <3>1, <3>2, <3>3
  <2> HIDE DEF x
  <2>5. (a + n - x + 4) % 7 = wd
    BY <1>3, <2>3, <2>4
  <2> DEFINE d == a + n - x
  <2>5a. d \in Int /\ d = a + n - x
    BY <1>3, <2>4
  <2>5b. x \in 1..7
    BY <2>4
  <2> HIDE DEF d
  <2>6. Finds(d, a, n, wd, w)
    BY <1>3, <1>5, <2>5, <2>5a, <2>5b DEF Finds
  <2>7. one + days = d
    BY <1>3, <2>1, <2>2, <2>4, <2>5a DEF g
  <2> HIDE DEF days
  <2> QED
    BY <1>5, <2>6, <2>7 DEF days, leap, j, pt, one, a, n
<1>6. CASE w # 5
  <2> DEFINE g == a - one
             weekday == Rem(j + g, 7)
             x == Rem(wd + 7 - weekday, 7)
  <2>0. w \in 1..4
    BY <1>6
  <2>1. days = g + x + (w - 1) * 7
    <3>1. days = MonthOffsets(leap)[m] + Rem(wd + 7 - Rem(j + MonthOffsets(leap)[m], 7), 7) + (w - 1) * 7
      BY <1>4, <1>6 DEF TransDays
    <3> QED
      BY <1>1, <3>1
  <2>2. g \in Int /\ g >= 0
    BY <1>1, <1>3
  <2>3. weekday = (a + 4) % 7 /\ weekday \in 0..6
    <3> HIDE DEF g
    <3>1. weekday = (j + g) % 7 /\ weekday \in 0..6
      <4>1. j + g \in Int /\ j + g >= 0
        BY <1>2, <2>2
      <4> QED
        BY <4>1, WeekRem
    <3>2. (j + g) % 7 = (one + 4 + g) % 7
      BY <1>2, <1>3, <2>2
    <3>3. one + 4 + g = a + 4
      BY <1>3 DEF g
    <3> QED
      BY <3>1, <3>2, <3>3
  <2> HIDE DEF g, weekday
  <2>4. x = (wd + 7 - weekday) % 7 /\ x \in 0..6
    <3> DEFINE k == wd + 7 - weekday
    <3>1. k \in Int /\ k >= 0
      BY <2>3
    <3> HIDE DEF k
    <3>2. Rem(k, 7) = k % 7 /\ Rem(k, 7) \in 0..6
      BY <3>1, WeekRem
    <3> QED
      BY <3>2 DEF k
  <2> HIDE DEF x
  <2>5. (a + x + 4) % 7 = wd
    BY <1>3, <2>3, <2>4
  <2> DEFINE d == a + x + (w - 1) * 7
  <2>5a. d \in Int /\ d = a + x + (w - 1) * 7
    BY <1>3, <2>0, <2>4
  <2>5b. x \in 0..6
    BY <2>4
  <2> HIDE DEF d
  <2>6. Finds(d, a, n, wd, w)
    <3>1. (d + 4) % 7 = wd
      <4> DEFINE i == a + x + 4
                 k == w - 1
      <4>1. i \in Int /\ k \in Int
        BY <1>3, <2>0, <2>4
      <4>2. d + 4 = i + 7 * k
        BY <1>3, <2>0, <2>4, <2>5a
      <4>3. i % 7 = wd
        BY <2>5
      <4> HIDE DEF i, k
      <4>4. (i + 7 * k) % 7 = i % 7
        BY <4>1, WholeWeeks
      <4> QED
        BY <4>2, <4>3, <4>4
    <3>2. d \in a + 7 * w - 7 .. a + 7 * w - 1
      BY <1>3, <2>0, <2>5a, <2>5b
    <3> QED
      BY <1>6, <3>1, <3>2 DEF Finds
  <2>7. one + days = d
    BY <1>3, <2>0, <2>1, <2>2, <2>4, <2>5a DEF g
  <2> HIDE DEF days
  <2> QED
    BY <1>6, <2>6, <2>7 DEF days, leap, j, pt, one, a, n
<1> QED
  BY <1>5, <1>6

------------------------------------------------------------------------------
(* The numbers of a rule *)

\* The numbers that ParsePosixSpec() reads are integers.
LEMMA OffsetRead ==
  ASSUME NEW t, NEW p, NEW lo \in Int, NEW hi \in Int, NEW sign \in {1, -1}
  PROVE  ParseOffset(t, p, lo, hi, sign).val \in Int
<1>1. ASSUME NEW q, NEW a \in Int, NEW b \in Int PROVE ParseInt(t, q, a, b).val \in Int
  BY <1>1 DEF ParseInt, Fails, Read
<1>2. ASSUME NEW q PROVE Part60(t, q).val \in Int
  <2>1. \A k : ParseInt(t, k, 0, 59).val \in Int
    <3>1. PICK a \in Int, b \in Int : a = 0 /\ b = 59
      OBVIOUS
    <3>2. \A k : ParseInt(t, k, a, b).val \in Int
      BY <1>1
    <3> QED
      BY <3>1, <3>2
  <2> QED
    BY <2>1 DEF Part60, Fails, Read
<1> DEFINE signed == At(t, p) \in {"+", "-"}
           h == ParseInt(t, IF signed THEN p + 1 ELSE p, lo, hi)
           m == Part60(t, h.at)
           s == Part60(t, m.at)
           n == (h.val * 60 + m.val) * 60 + s.val
<1>3. h.val \in Int /\ m.val \in Int /\ s.val \in Int
  BY <1>1, <1>2
<1>4. ParseOffset(t, p, lo, hi, sign).val = IF p = NullPtr \/ s.at = NullPtr THEN 0 ELSE (IF At(t, p) = "-" THEN -sign ELSE sign) * n
  BY DEF ParseOffset, Fails, Read
<1>5. n \in Int
  <2> HIDE DEF h, m, s
  <2> QED
    BY <1>3
<1> HIDE DEF n, s
<1>6. (IF At(t, p) = "-" THEN -sign ELSE sign) \in {1, -1}
  OBVIOUS
<1> QED
  BY <1>4, <1>5, <1>6

\* The offsets and times of a rule are integers.
Timed(z) == z.std_offset \in Int /\ z.dst_offset \in Int /\ z.dst_start.time \in Int /\ z.dst_end.time \in Int

\* So are those of no rule at all.
LEMMA NoZoneTimed == Timed(NoZone)
<1> DEFINE all == TimeZone(<<>>, 0, <<>>, 0, Nothing, Nothing)
           none == [all EXCEPT !.ok = FALSE]
<1>1. all = [ok |-> TRUE, std_abbr |-> <<>>, std_offset |-> 0, dst_abbr |-> <<>>,
             dst_offset |-> 0, dst_start |-> Nothing, dst_end |-> Nothing]
  BY DEF TimeZone
<1>2. Nothing.time = 0
  BY DEF Nothing
<1> HIDE DEF Nothing
<1>3. Timed(all)
  BY <1>1, <1>2 DEF Timed
<1>4. /\ none.std_offset = all.std_offset /\ none.dst_offset = all.dst_offset
      /\ none.dst_start = all.dst_start /\ none.dst_end = all.dst_end
  <2> HIDE DEF all
  <2>1. DOMAIN all = {"ok", "std_abbr", "std_offset", "dst_abbr", "dst_offset", "dst_start", "dst_end"}
    BY <1>1
  <2> QED
    BY <2>1
<1>5. NoZone = none
  BY DEF NoZone
<1> HIDE DEF none, all
<1> QED
  BY <1>3, <1>4, <1>5 DEF Timed

\* And of every rule that is read, whole or cut short.
LEMMA RuleTimed == \A t : Timed(ParsePosixSpec(t))
<1> SUFFICES ASSUME NEW t PROVE Timed(ParsePosixSpec(t))
  OBVIOUS
<1>1. PICK zero \in Int, day \in Int, last \in Int, minus \in {1, -1}, plus \in {1, -1} :
        zero = 0 /\ day = 24 /\ last = 167 /\ minus = -1 /\ plus = 1
  OBVIOUS
<1>2. ASSUME NEW p PROVE ParseOffset(t, p, 0, 24, -1).val \in Int
  <2>1. ParseOffset(t, p, zero, day, minus).val \in Int
    BY OffsetRead
  <2> QED
    BY <1>1, <2>1
<1>3. ASSUME NEW p PROVE ParseOffset(t, p, -167, 167, 1).val \in Int
  <2>1. PICK first \in Int : first = -167
    OBVIOUS
  <2>2. ParseOffset(t, p, first, last, plus).val \in Int
    BY OffsetRead
  <2> QED
    BY <1>1, <2>1, <2>2
<1>4. ASSUME NEW p PROVE ParseDateTime(t, p).val.time \in Int
  <2> DEFINE date == IF p # NullPtr /\ At(t, p) = "," THEN ParseDate(t, p + 1) ELSE Read(p, Unset)
             slash == date.at # NullPtr /\ At(t, date.at) = "/"
             time == IF slash THEN ParseOffset(t, date.at + 1, -167, 167, 1) ELSE Read(date.at, DefaultTime)
  <2>1. Read(date.at, DefaultTime).val \in Int
    BY DEF Read, DefaultTime
  <2>2. time.val \in Int
    <3> HIDE DEF date
    <3> QED
      BY <1>3, <2>1
  <2>3. ParseDateTime(t, p) = Read(time.at, [date |-> date.val, time |-> time.val])
    BY DEF ParseDateTime
  <2> HIDE DEF time, date
  <2> QED
    BY <2>2, <2>3 DEF Read
<1> DEFINE abbr == ParseAbbr(t, 1)
           std == ParseOffset(t, abbr.at, 0, 24, -1)
           dst == ParseAbbr(t, std.at)
           off == IF At(t, dst.at) # "," THEN ParseOffset(t, dst.at, 0, 24, -1)
                  ELSE Read(dst.at, std.val + 60 * 60)
           start == ParseDateTime(t, off.at)
           end == ParseDateTime(t, start.at)
           z == ParsePosixSpec(t)
<1>5. \/ z = NoZone
      \/ z = TimeZone(abbr.val, std.val, <<>>, 0, Nothing, Nothing)
      \/ z = TimeZone(abbr.val, std.val, dst.val, off.val, start.val, end.val)
  BY Zenon DEF ParsePosixSpec
<1> HIDE DEF abbr, z
<1>6. std.val \in Int
  BY <1>2
<1> HIDE DEF std, dst
<1>7. off.val \in Int
  <2>1. Read(dst.at, std.val + 60 * 60).val \in Int
    BY <1>6 DEF Read
  <2> QED
    BY <1>2, <2>1
<1> HIDE DEF off
<1>8. start.val.time \in Int /\ end.val.time \in Int
  BY <1>4
<1> HIDE DEF start, end
<1>9. Nothing.time \in Int
  BY DEF Nothing
<1> HIDE DEF Nothing
<1>10. ASSUME NEW a, NEW b \in Int, NEW c, NEW d \in Int, NEW s, NEW e, s.time \in Int, e.time \in Int
       PROVE  Timed(TimeZone(a, b, c, d, s, e))
  BY <1>10 DEF Timed, TimeZone
<1>11. Timed(NoZone)
  BY NoZoneTimed
<1>12. CASE z = NoZone
  BY <1>11, <1>12 DEF z
<1>13. CASE z = TimeZone(abbr.val, std.val, <<>>, 0, Nothing, Nothing)
  <2>1. Timed(TimeZone(abbr.val, std.val, <<>>, zero, Nothing, Nothing))
    BY <1>6, <1>9, <1>10
  <2> QED
    BY <1>1, <1>13, <2>1 DEF z
<1>14. CASE z = TimeZone(abbr.val, std.val, dst.val, off.val, start.val, end.val)
  <2>1. Timed(TimeZone(abbr.val, std.val, dst.val, off.val, start.val, end.val))
    BY <1>6, <1>7, <1>8, <1>10
  <2> QED
    BY <1>14, <2>1 DEF z
<1> QED
  BY <1>5, <1>12, <1>13, <1>14

\* A rule that AllYearDST() accepts covers each year to its last second.
LEMMA AllYear ==
  ASSUME NEW y \in Int, NEW z, Timed(z), AllYearDST(z)
  PROVE  /\ TransOffset(y, z.dst_start) = 0
         /\ DstEnds(z, y) = (IF Leap(y) THEN 366 ELSE 365) * 86400 + DstStarts(z, y + 1)
<1>1. /\ z.dst_start.date.fmt = "N" /\ z.dst_start.date.day = 0 /\ z.dst_start.time = 0
      /\ z.dst_end.date.fmt = "J" /\ z.dst_end.date.day = 365
      /\ z.dst_end.time + (z.std_offset - z.dst_offset) = 86400
      /\ z.std_offset \in Int /\ z.dst_offset \in Int /\ z.dst_end.time \in Int
  BY DEF AllYearDST, Timed
<1>2. ASSUME NEW x PROVE TransOffset(x, z.dst_start) = 0
  <2>1. TransDays(is_leap_year(x), Jan1(x), z.dst_start.date) = 0
    BY <1>1 DEF TransDays
  <2> QED
    BY <1>1, <2>1 DEF TransOffset
<1>3. DstStarts(z, y + 1) = 0 - z.std_offset
  BY <1>2 DEF DstStarts
<1>4. MonthOffsets(TRUE)[3] = 60
  BY DEF MonthOffsets
<1>5. TransDays(is_leap_year(y), Jan1(y), z.dst_end.date) = IF Leap(y) THEN 365 ELSE 364
  <2>1. TransDays(is_leap_year(y), Jan1(y), z.dst_end.date)
          = IF ~is_leap_year(y) \/ z.dst_end.date.day < MonthOffsets(TRUE)[3] THEN z.dst_end.date.day - 1 ELSE z.dst_end.date.day
    BY <1>1 DEF TransDays
  <2>2. is_leap_year(y) <=> Leap(y)
    BY LeapYear
  <2>3. z.dst_end.date.day = 365
    BY <1>1
  <2> DEFINE days == TransDays(is_leap_year(y), Jan1(y), z.dst_end.date)
             day == z.dst_end.date.day
             leap == is_leap_year(y)
  <2>4. days = IF ~leap \/ day < 60 THEN day - 1 ELSE day
    BY <1>4, <2>1
  <2>5. day = 365 /\ (leap <=> Leap(y))
    BY <2>2, <2>3
  <2> HIDE DEF days, day, leap
  <2>6. days = IF Leap(y) THEN 365 ELSE 364
    <3>1. CASE leap
      BY <2>4, <2>5, <3>1
    <3>2. CASE ~leap
      BY <2>4, <2>5, <3>2
    <3> QED
      BY <3>1, <3>2
  <2> QED
    BY <2>6 DEF days
<1> DEFINE a == z.dst_end.time
           b == z.std_offset
           c == z.dst_offset
           k == IF Leap(y) THEN 365 ELSE 364
           days == TransDays(is_leap_year(y), Jan1(y), z.dst_end.date)
<1>6. DstEnds(z, y) = (days * 86400 + a) - c
  <2>1. DstEnds(z, y) = TransOffset(y, z.dst_end) - z.dst_offset
    BY DEF DstEnds
  <2>2. TransOffset(y, z.dst_end) = days * 86400 + a
    BY DEF TransOffset
  <2> QED
    BY <2>1, <2>2
<1>6a. days = k
  BY <1>5
<1>7. a \in Int /\ b \in Int /\ c \in Int /\ a + (b - c) = 86400 /\ k \in Int
  BY <1>1
<1> HIDE DEF a, c, days
<1>8. (k * 86400 + a) - c = (IF Leap(y) THEN 366 ELSE 365) * 86400 + (0 - b)
  <2> HIDE DEF b
  <2>1. CASE Leap(y)
    BY <1>7, <2>1
  <2>2. CASE ~Leap(y)
    BY <1>7, <2>2
  <2> QED
    BY <2>1, <2>2
<1> HIDE DEF k
<1>9. DstEnds(z, y) = (IF Leap(y) THEN 366 ELSE 365) * 86400 + DstStarts(z, y + 1)
  BY <1>3, <1>6, <1>6a, <1>8
<1> QED
  BY <1>2, <1>9

\* The dates of every rule, in any year.
LEMMA RuleDates ==
  ASSUME f.y \in Int
  PROVE  RuleDatesExact
<1> DEFINE y == f.y
           leap == is_leap_year(y)
           jan1 == ToPosixWeekday(get_weekday(fields(y, 1, 1, 0, 0, 0)))
           at(pt) == DayNumber(y, 1, 1) + TransDays(leap, jan1, pt)
<1>1. jan1 = Jan1Of(y) /\ DayNumber(y, 1, 1) = First(y, 1) /\ DayNumber(y + 1, 1, 1) = First(y + 1, 1)
  BY DEF Jan1Of, First
<1>2. (NextLeap(leap, y) <=> Leap(y + 1)) /\ NextJan1(leap, jan1) = (DayNumber(y + 1, 1, 1) + 4) % 7
  <2> HIDE DEF y
  <2>1. y \in Int
    BY DEF y
  <2>2. /\ NextLeap(is_leap_year(y), y) <=> Leap(y + 1)
        /\ NextJan1(is_leap_year(y), Jan1Of(y)) = (First(y + 1, 1) + 4) % 7
    BY <2>1, NextYear
  <2> QED
    BY <1>1, <2>2
<1> HIDE DEF jan1
<1>3. ASSUME NEW m \in 1..12, NEW d \in 1..MonthDays(2001, m)
      PROVE  at([fmt |-> "J", day |-> DaysBeforeMonth(2001, m) + d, week |-> 0]) = DayNumber(y, m, 1) + d - 1
  <2>0. d \in CommonDays(m)
    BY DEF CommonDays
  <2> DEFINE pt == [fmt |-> "J", day |-> DaysBeforeMonth(2001, m) + d, week |-> 0]
  <2>1. First(y, 1) + TransDays(leap, jan1, pt) = First(y, m) + d - 1
    BY <2>0, JulianDays
  <2> HIDE DEF pt
  <2>2. at(pt) = First(y, m) + d - 1
    BY <1>1, <2>1
  <2> QED
    BY <2>2 DEF pt, First
<1>4. ASSUME NEW m \in 1..12, NEW wd \in 0..6, NEW w \in 1..5
      PROVE  LET d == at([fmt |-> "M", month |-> m, week |-> w, weekday |-> wd])
                 first == DayNumber(y, m, 1)
                 last == DayNumber(y, m, MonthDays(y, m))
             IN  /\ (d + 4) % 7 = wd
                 /\ d \in IF w = 5 THEN last - 6 .. last ELSE first + 7 * w - 7 .. first + 7 * w - 1
  <2> DEFINE pt == [fmt |-> "M", month |-> m, week |-> w, weekday |-> wd]
             d == First(y, 1) + TransDays(leap, Jan1Of(y), pt)
             a == First(y, m)
             n == MonthDays(y, m)
  <2>0. y \in Int
    OBVIOUS
  <2>1. Finds(d, a, n, wd, w)
    <3> HIDE DEF y
    <3> QED
      BY <2>0, MonthRules DEF y
  <2>2. at(pt) = d
    BY <1>1
  <2>3. n \in 28..31 /\ a \in Int
    <3>1. n \in 28..31
      BY MonthLength
    <3>2. a \in Int
      BY FirstTyped
    <3> QED
      BY <3>1, <3>2
  <2>4. DayNumber(y, m, n) = a + n - 1
    <3>1. n \in Int
      BY <2>3
    <3> HIDE DEF n, y
    <3> QED
      BY <3>1, DayFromFirst DEF y
  <2>5. DayNumber(y, m, 1) = a
    BY DEF First
  <2> DEFINE last == DayNumber(y, m, n)
  <2>6. last = a + n - 1
    BY <2>4
  <2> HIDE DEF d, at, pt, n, a, last
  <2>7. last - 6 .. last = a + n - 7 .. a + n - 1
    BY <2>3, <2>6
  <2>8. (at(pt) + 4) % 7 = wd /\ at(pt) \in IF w = 5 THEN last - 6 .. last ELSE a + 7 * w - 7 .. a + 7 * w - 1
    BY <2>1, <2>2, <2>7 DEF Finds
  <2> QED
    BY <2>5, <2>8 DEF pt, last, n
<1> HIDE DEF at
<1> DEFINE julian(m) == \A d \in 1..MonthDays(2001, m) :
                          at([fmt |-> "J", day |-> DaysBeforeMonth(2001, m) + d, week |-> 0]) = DayNumber(y, m, 1) + d - 1
           nth(m) == \A wd \in 0..6, w \in 1..5 :
                       LET d == at([fmt |-> "M", month |-> m, week |-> w, weekday |-> wd])
                           first == DayNumber(y, m, 1)
                           last == DayNumber(y, m, MonthDays(y, m))
                       IN  /\ (d + 4) % 7 = wd
                           /\ d \in IF w = 5 THEN last - 6 .. last ELSE first + 7 * w - 7 .. first + 7 * w - 1
<1>5. ASSUME NEW m \in 1..12 PROVE julian(m)
  BY <1>3
<1>6. ASSUME NEW m \in 1..12 PROVE nth(m)
  <2> SUFFICES ASSUME NEW wd \in 0..6, NEW w \in 1..5
               PROVE  LET d == at([fmt |-> "M", month |-> m, week |-> w, weekday |-> wd])
                          first == DayNumber(y, m, 1)
                          last == DayNumber(y, m, MonthDays(y, m))
                      IN  /\ (d + 4) % 7 = wd
                          /\ d \in IF w = 5 THEN last - 6 .. last ELSE first + 7 * w - 7 .. first + 7 * w - 1
    OBVIOUS
  <2> QED
    BY <1>4
<1>7. \A m \in 1..12 : julian(m) /\ nth(m)
  <2> HIDE DEF julian, nth
  <2> QED
    BY <1>5, <1>6
<1> QED
  BY <1>2, <1>7, Zenon DEF RuleDatesExact, at, jan1

------------------------------------------------------------------------------
(* Texts of rules: the parser reads the pieces of the grammar *)

\* A piece of a text.
LEMMA PieceIs ==
  ASSUME NEW t \in Seq(Token), NEW p \in 1..Len(t) + 1, NEW q \in p..Len(t) + 1
  PROVE  /\ Piece(t, p, q) \in Seq(Token) /\ Len(Piece(t, p, q)) = q - p
         /\ \A i \in 1..q - p : Piece(t, p, q)[i] = t[p + i - 1]
<1>1. p \in Int /\ q - 1 \in Int
  OBVIOUS
<1>2. \A i \in p..q - 1 : t[i] \in Token
  <2> TAKE i \in p..q - 1
  <2>1. i \in 1..Len(t)
    BY SMT
  <2> QED
    BY <2>1, ElementOfSeq
<1> DEFINE r == q - 1
           u == SubSeq(t, p, r)
<1>3. r \in Int /\ \A i \in p..r : t[i] \in Token
  BY <1>1, <1>2
<1> HIDE DEF r
<1>4. u \in Seq(Token)
  BY <1>1, <1>3, SubSeqProperties
<1>5. Len(u) = IF p <= r THEN r - p + 1 ELSE 0
  BY <1>1, <1>3, SubSeqProperties
<1>6. \A i \in 1..r - p + 1 : u[i] = t[p + i - 1]
  BY <1>1, <1>3, SubSeqProperties
<1> HIDE DEF u
<1>7. Len(u) = q - p /\ r - p + 1 = q - p
  BY <1>1, <1>5 DEF r
<1>8. Piece(t, p, q) = u
  BY DEF Piece, u, r
<1> QED
  BY <1>4, <1>6, <1>7, <1>8

\* A piece of a piece.
LEMMA PiecePiece ==
  ASSUME NEW t \in Seq(Token), NEW p \in 1..Len(t) + 1, NEW q \in p..Len(t) + 1,
         NEW i \in 1..q - p + 1, NEW j \in i..q - p + 1
  PROVE  Piece(Piece(t, p, q), i, j) = Piece(t, p + i - 1, p + j - 1)
<1> DEFINE s == Piece(t, p, q)
           a == p + i - 1
           b == p + j - 1
           u == Piece(s, i, j)
           v == Piece(t, a, b)
<1>1. s \in Seq(Token) /\ Len(s) = q - p /\ \A k \in 1..q - p : s[k] = t[p + k - 1]
  BY PieceIs
<1>2. i \in 1..Len(s) + 1 /\ j \in i..Len(s) + 1 /\ a \in 1..Len(t) + 1 /\ b \in a..Len(t) + 1 /\ b - a = j - i
  BY <1>1
<1> HIDE DEF s, a, b
<1>3. u \in Seq(Token) /\ Len(u) = j - i /\ \A k \in 1..j - i : u[k] = s[i + k - 1]
  BY <1>1, <1>2, PieceIs
<1>4. v \in Seq(Token) /\ Len(v) = b - a /\ \A k \in 1..b - a : v[k] = t[a + k - 1]
  BY <1>2, PieceIs
<1> HIDE DEF u, v
<1>5. ASSUME NEW k \in 1..Len(u) PROVE u[k] = v[k]
  <2>1. k \in 1..j - i /\ k \in 1..b - a /\ i + k - 1 \in 1..q - p /\ p + (i + k - 1) - 1 = a + k - 1
    BY <1>2, <1>3, <1>5 DEF a
  <2>2. u[k] = s[i + k - 1]
    BY <1>3, <2>1
  <2>3. s[i + k - 1] = t[p + (i + k - 1) - 1]
    BY <1>1, <2>1
  <2>4. v[k] = t[a + k - 1]
    BY <1>4, <2>1
  <2> QED
    BY <2>1, <2>2, <2>3, <2>4
<1>6. Len(u) = Len(v)
  BY <1>2, <1>3, <1>4
<1>7. u = v
  BY <1>3, <1>4, <1>5, <1>6, SeqEqual
<1> QED
  BY <1>7 DEF u, v, s, a, b

\* A piece without its first token.
LEMMA PieceTail ==
  ASSUME NEW t \in Seq(Token), NEW p \in 1..Len(t), NEW q \in p + 1..Len(t) + 1
  PROVE  Piece(t, p, q) # <<>> /\ Tail(Piece(t, p, q)) = Piece(t, p + 1, q)
<1> DEFINE s == Piece(t, p, q)
<1>0. p \in 1..Len(t) + 1 /\ q \in p..Len(t) + 1
  OBVIOUS
<1>1. s \in Seq(Token) /\ Len(s) = q - p
  BY <1>0, PieceIs
<1>2. s # <<>>
  BY <1>1
<1>3. Tail(s) = SubSeq(s, 2, Len(s))
  BY <1>1, <1>2, TailIsSubSeq
<1>4. SubSeq(s, 2, Len(s)) = Piece(s, 2, q - p + 1)
  BY <1>1 DEF Piece
<1>5. Piece(s, 2, q - p + 1) = Piece(t, p + 2 - 1, p + (q - p + 1) - 1)
  <2>1. 2 \in 1..q - p + 1 /\ q - p + 1 \in 2..q - p + 1
    OBVIOUS
  <2> QED
    BY <1>0, <2>1, PiecePiece
<1>6. p + 2 - 1 = p + 1 /\ p + (q - p + 1) - 1 = q
  OBVIOUS
<1> QED
  BY <1>2, <1>3, <1>4, <1>5, <1>6

\* The kind of the token at a position, and "end" after the last.
LEMMA AtIs ==
  ASSUME NEW t \in Seq(Token), NEW p \in 1..Len(t) + 1
  PROVE  /\ At(t, p) = "end" <=> p = Len(t) + 1
         /\ p <= Len(t) => At(t, p) = t[p].c /\ t[p].n \in Nat /\ At(t, p) \in {"int", "name"} \cup Characters
<1>1. CASE p <= Len(t)
  <2>1. t[p] \in Token
    BY <1>1
  <2>2. t[p].c \in {"int", "name"} \cup Characters /\ t[p].n \in Nat
    BY <2>1 DEF Token
  <2>3. At(t, p) = t[p].c
    BY <1>1 DEF At
  <2>4. t[p].c # "end"
    BY <2>2 DEF Characters
  <2> QED
    BY <1>1, <2>2, <2>3, <2>4
<1>2. CASE p = Len(t) + 1
  BY <1>2 DEF At
<1> QED
  BY <1>1, <1>2

\* Of a set of numbers with a member, one is the first.
LEMMA FirstOf ==
  ASSUME NEW T, T \subseteq Nat, T # {}
  PROVE  \E x \in T : \A y \in T : x <= y
<1>1. PICK R : IsWellFoundedOn(R, Nat) /\ \A a, b \in Nat : <<a, b>> \in R <=> a < b
  BY OrderOfNat
<1>2. PICK x \in T : \A y \in T : ~(<<y, x>> \in R)
  <2>1. IsWellFoundedOn(R, Nat) /\ T \subseteq Nat /\ T # {}
    BY <1>1
  <2> QED
    BY <2>1, WFMin, Zenon
<1>3. ASSUME NEW y \in T PROVE x <= y
  <2>1. x \in Nat /\ y \in Nat
    BY <1>2, <1>3
  <2>2. ~(y < x)
    BY <1>1, <1>2, <1>3, <2>1
  <2> QED
    BY <2>1, <2>2
<1> QED
  BY <1>2, <1>3

\* q is the first position from p on at which one of stops is.
StopsAt(t, p, stops, q) ==
  q \in p..Len(t) + 1 /\ At(t, q) \in stops /\ \A k \in p..q - 1 : At(t, k) \notin stops

\* FirstFrom finds it, and there is no other.
LEMMA FirstFromIs ==
  ASSUME NEW t \in Seq(Token), NEW p \in 1..Len(t) + 1, NEW stops, "end" \in stops
  PROVE  /\ StopsAt(t, p, stops, FirstFrom(t, p, stops))
         /\ \A q : StopsAt(t, p, stops, q) => q = FirstFrom(t, p, stops)
<1> DEFINE T == {q \in p..Len(t) + 1 : At(t, q) \in stops}
<1>1. T \subseteq Nat
  OBVIOUS
<1>2. Len(t) + 1 \in T
  <2>1. At(t, Len(t) + 1) = "end"
    BY DEF At
  <2> QED
    BY <2>1
<1>3. PICK x \in T : \A y \in T : x <= y
  BY <1>1, <1>2, FirstOf
<1>4. StopsAt(t, p, stops, x)
  <2>1. x \in p..Len(t) + 1 /\ At(t, x) \in stops
    BY <1>3
  <2>2. ASSUME NEW k \in p..x - 1, At(t, k) \in stops PROVE FALSE
    <3>1. k \in p..Len(t) + 1 /\ ~(x <= k)
      BY <2>1
    <3> QED
      BY <1>3, <2>2, <3>1
  <2> QED
    BY <2>1, <2>2 DEF StopsAt
<1>5. StopsAt(t, p, stops, FirstFrom(t, p, stops))
  <2>1. FirstFrom(t, p, stops) = CHOOSE q \in p..Len(t) + 1 : StopsAt(t, p, stops, q)
    BY DEF FirstFrom, StopsAt
  <2>2. \E q \in p..Len(t) + 1 : StopsAt(t, p, stops, q)
    BY <1>4 DEF StopsAt
  <2> QED
    BY <2>1, <2>2
<1>6. ASSUME NEW q, NEW r, StopsAt(t, p, stops, q), StopsAt(t, p, stops, r) PROVE q = r
  <2>1. q \in Int /\ r \in Int
    BY <1>6 DEF StopsAt
  <2>2. ~(q < r)
    BY <1>6, <2>1 DEF StopsAt
  <2>3. ~(r < q)
    BY <1>6, <2>1 DEF StopsAt
  <2> QED
    BY <2>1, <2>2, <2>3
<1> QED
  BY <1>5, <1>6

\* No token has no letters.
LEMMA NoLetters == Letters(<<>>) = 0
<1> DEFINE D == 0..0
           body(F) == [k \in 0..Len(<<>>) |-> IF k = 0 THEN 0 ELSE F[k - 1] + (IF <<>>[k].c = "name" THEN <<>>[k].n ELSE 1)]
           sum == CHOOSE F : F = body(F)
           zero == [k \in 0..0 |-> 0]
<1>1. Letters(<<>>) = sum[Len(<<>>)]
  BY DEF Letters
<1>2. Len(<<>>) = 0 /\ \A k \in 0..0 : k = 0
  OBVIOUS
<1>3. \A F : body(F) = zero
  BY <1>2
<1> HIDE DEF body
<1>4. sum = body(sum)
  <2>1. zero = body(zero)
    BY <1>3
  <2> QED
    BY <2>1
<1>5. sum = zero
  BY <1>3, <1>4
<1> HIDE DEF sum
<1>6. sum[0] = 0
  BY <1>5
<1> QED
  BY <1>1, <1>2, <1>6

\* F adds up the first k of the weights w.
AddsUp(F, w, n) == F = [k \in 0..n |-> IF k = 0 THEN 0 ELSE F[k - 1] + w[k]]

\* There is a function that does.
LEMMA SumExists ==
  ASSUME NEW len \in Nat, NEW w \in [1..len -> Nat]
  PROVE  \E F : AddsUp(F, w, len)
<1> DEFINE S == {n \in Nat : n <= len => \E F \in [0..n -> Nat] : AddsUp(F, w, n)}
<1>1. 0 \in S
  <2> DEFINE F == [k \in 0..0 |-> 0]
  <2>1. F \in [0..0 -> Nat]
    OBVIOUS
  <2>2. AddsUp(F, w, 0)
    BY DEF AddsUp
  <2> QED
    BY <2>1, <2>2
<1>2. ASSUME NEW n \in Nat, n \in S, n + 1 <= len PROVE \E F \in [0..n + 1 -> Nat] : AddsUp(F, w, n + 1)
  <2>1. PICK F \in [0..n -> Nat] : AddsUp(F, w, n)
    BY <1>2
  <2> DEFINE G == [k \in 0..n + 1 |-> IF k = n + 1 THEN F[n] + w[n + 1] ELSE F[k]]
             H == [k \in 0..n + 1 |-> IF k = 0 THEN 0 ELSE G[k - 1] + w[k]]
  <2>2. F[n] \in Nat /\ w[n + 1] \in Nat
    BY <1>2, <2>1
  <2>3. G \in [0..n + 1 -> Nat]
    BY <2>1, <2>2
  <2>4. ASSUME NEW k \in 0..n + 1 PROVE G[k] = IF k = 0 THEN 0 ELSE G[k - 1] + w[k]
    <3>1. CASE k = n + 1
      BY <3>1
    <3>2. CASE k # n + 1
      <4>1. k \in 0..n
        BY <3>2
      <4>2. F[k] = IF k = 0 THEN 0 ELSE F[k - 1] + w[k]
        BY <2>1, <4>1 DEF AddsUp
      <4>3. G[k] = F[k]
        BY <3>2
      <4>4. k # 0 => G[k - 1] = F[k - 1]
        BY <4>1
      <4> QED
        BY <4>2, <4>3, <4>4
    <3> QED
      BY <3>1, <3>2
  <2> HIDE DEF G
  <2>5. G = H
    BY <2>3, <2>4
  <2>6. AddsUp(G, w, n + 1)
    BY <2>5, Zenon DEF AddsUp
  <2> QED
    BY <2>3, <2>6
<1>3. ASSUME NEW n \in Nat, n \in S PROVE n + 1 \in S
  <2>1. CASE n + 1 <= len
    <3>1. \E F \in [0..n + 1 -> Nat] : AddsUp(F, w, n + 1)
      BY <1>2, <1>3, <2>1
    <3> QED
      BY <3>1
  <2>2. CASE ~(n + 1 <= len)
    BY <2>2
  <2> QED
    BY <2>1, <2>2
<1> HIDE DEF S
<1>4. len \in S
  BY <1>1, <1>3, Induct
<1> QED
  BY <1>4 DEF S

\* The sums are natural numbers.
LEMMA SumTyped ==
  ASSUME NEW len \in Nat, NEW w \in [1..len -> Nat], NEW F, AddsUp(F, w, len)
  PROVE  F[len] \in Nat
<1> DEFINE S == {n \in Nat : n <= len => F[n] \in Nat}
<1>1. 0 \in S
  BY DEF AddsUp
<1>2. ASSUME NEW n \in Nat, n \in S, n + 1 <= len PROVE F[n + 1] \in Nat
  <2>1. F[n] \in Nat /\ w[n + 1] \in Nat
    BY <1>2
  <2>2. n + 1 \in 0..len /\ n + 1 # 0 /\ (n + 1) - 1 = n
    BY <1>2
  <2>3. F[n + 1] = F[(n + 1) - 1] + w[n + 1]
    BY <2>2 DEF AddsUp
  <2> QED
    BY <2>1, <2>2, <2>3
<1>3. \A n \in Nat : n \in S => n + 1 \in S
  BY <1>2
<1> HIDE DEF S
<1>4. len \in S
  BY <1>1, <1>3, Induct
<1> QED
  BY <1>4 DEF S

\* The letters of a text are a number.
LEMMA LettersTyped == ASSUME NEW s \in Seq(Token) PROVE Letters(s) \in Nat
<1> DEFINE len == Len(s)
           w == [k \in 1..len |-> IF s[k].c = "name" THEN s[k].n ELSE 1]
           body(F) == [k \in 0..Len(s) |-> IF k = 0 THEN 0 ELSE F[k - 1] + (IF s[k].c = "name" THEN s[k].n ELSE 1)]
           sum == CHOOSE F : F = body(F)
<1>1. Letters(s) = sum[len]
  BY DEF Letters
<1>2. len \in Nat /\ w \in [1..len -> Nat]
  <2>1. ASSUME NEW k \in 1..len PROVE s[k].n \in Nat
    <3>1. s[k] \in Token
      BY <2>1
    <3> QED
      BY <3>1 DEF Token
  <2> QED
    BY <2>1
<1>3. ASSUME NEW F PROVE AddsUp(F, w, len) <=> F = body(F)
  <2>1. body(F) = [k \in 0..len |-> IF k = 0 THEN 0 ELSE F[k - 1] + w[k]]
    OBVIOUS
  <2> QED
    BY <2>1 DEF AddsUp
<1> HIDE DEF w, len, body
<1>4. \E F : F = body(F)
  BY <1>2, <1>3, SumExists
<1>5. sum = body(sum)
  BY <1>4
<1> HIDE DEF sum
<1>6. AddsUp(sum, w, len)
  BY <1>3, <1>5
<1> QED
  BY <1>1, <1>2, <1>6, SumTyped

\* What a piece has, by position.
LEMMA PieceHas ==
  ASSUME NEW t \in Seq(Token), NEW p \in 1..Len(t) + 1, NEW q \in p..Len(t) + 1, NEW cs
  PROVE  Has(Piece(t, p, q), cs) <=> \E k \in p..q - 1 : At(t, k) \in cs
<1> DEFINE s == Piece(t, p, q)
<1>1. s \in Seq(Token) /\ Len(s) = q - p /\ \A i \in 1..q - p : s[i] = t[p + i - 1]
  BY PieceIs
<1> HIDE DEF s
<1>2. Has(s, cs) <=> \E i \in 1..q - p : s[i].c \in cs
  BY <1>1 DEF Has
<1>3. ASSUME NEW i \in 1..q - p, s[i].c \in cs PROVE \E k \in p..q - 1 : At(t, k) \in cs
  <2>1. p + i - 1 \in p..q - 1 /\ ~(p + i - 1 > Len(t))
    BY <1>3
  <2>2. At(t, p + i - 1) = s[i].c
    BY <1>1, <1>3, <2>1 DEF At
  <2> QED
    BY <1>3, <2>1, <2>2
<1>4. ASSUME NEW k \in p..q - 1, At(t, k) \in cs PROVE \E i \in 1..q - p : s[i].c \in cs
  <2>1. k - p + 1 \in 1..q - p /\ p + (k - p + 1) - 1 = k /\ ~(k > Len(t))
    BY <1>4
  <2>2. s[k - p + 1] = t[k]
    BY <1>1, <2>1
  <2>3. At(t, k) = t[k].c
    BY <2>1 DEF At
  <2> QED
    BY <1>4, <2>1, <2>2, <2>3
<1> QED
  BY <1>2, <1>3, <1>4 DEF s

\* A piece in brackets: its first token is <, its last is the first > after it.
LEMMA BracketedIs ==
  ASSUME NEW t \in Seq(Token), NEW p \in 1..Len(t) + 1, NEW q \in p..Len(t) + 1
  PROVE  /\ Bracketed(Piece(t, p, q)) <=>
              /\ p + 2 <= q /\ At(t, p) = "<" /\ At(t, q - 1) = ">"
              /\ \A k \in p + 1..q - 2 : At(t, k) # ">"
         /\ Bracketed(Piece(t, p, q)) => AbbrOf(Piece(t, p, q)) = Piece(t, p + 1, q - 1)
<1> DEFINE s == Piece(t, p, q)
<1>1. s \in Seq(Token) /\ Len(s) = q - p /\ \A i \in 1..q - p : s[i] = t[p + i - 1]
  BY PieceIs
<1>2. CASE q < p + 2
  BY <1>1, <1>2 DEF Bracketed
<1>3. CASE p + 2 <= q
  <2>1. p + 1 \in 1..Len(t) + 1 /\ q - 1 \in p + 1..Len(t) + 1 /\ p \in 1..Len(t) /\ q - 1 \in 1..Len(t)
    BY <1>3
  <2>2. Piece(s, 2, Len(s)) = Piece(t, p + 1, q - 1)
    <3>1. 2 \in 1..q - p + 1 /\ q - p \in 2..q - p + 1 /\ p + 2 - 1 = p + 1 /\ p + (q - p) - 1 = q - 1
      BY <1>3
    <3> QED
      BY <1>1, <3>1, PiecePiece
  <2>3. Has(Piece(t, p + 1, q - 1), {">"}) <=> \E k \in p + 1..(q - 1) - 1 : At(t, k) \in {">"}
    BY <2>1, PieceHas
  <2>4. s[1].c = At(t, p)
    <3>1. 1 \in 1..q - p /\ p + 1 - 1 = p
      BY <1>3
    <3> QED
      BY <1>1, <2>1, <3>1 DEF At
  <2>5. s[Len(s)].c = At(t, q - 1)
    <3>1. q - p \in 1..q - p /\ p + (q - p) - 1 = q - 1
      BY <1>3
    <3> QED
      BY <1>1, <2>1, <3>1 DEF At
  <2>6. (q - 1) - 1 = q - 2 /\ Len(s) >= 2
    BY <1>1, <1>3
  <2> HIDE DEF s
  <2>7. Bracketed(s) <=> s[1].c = "<" /\ s[Len(s)].c = ">" /\ ~Has(Piece(s, 2, Len(s)), {">"})
    BY <2>6 DEF Bracketed
  <2>8. Bracketed(s) => AbbrOf(s) = Piece(s, 2, Len(s))
    BY DEF AbbrOf
  <2>9. Has(Piece(s, 2, Len(s)), {">"}) <=> \E k \in p + 1..q - 2 : At(t, k) = ">"
    BY <2>2, <2>3, <2>6
  <2>10. Bracketed(s) <=> /\ p + 2 <= q /\ At(t, p) = "<" /\ At(t, q - 1) = ">"
                          /\ \A k \in p + 1..q - 2 : At(t, k) # ">"
    BY <1>3, <2>4, <2>5, <2>7, <2>9
  <2> QED
    BY <2>2, <2>8, <2>10 DEF s
<1> QED
  BY <1>2, <1>3

\* A piece without: its first token is not <, and none ends it.
Plain(t, p, q) ==
  /\ p < q /\ At(t, p) # "<" /\ Letters(Piece(t, p, q)) >= 3
  /\ \A k \in p..q - 1 : At(t, k) \notin AbbrEnds

\* An abbreviation is in brackets or plain, and a plain one is all of its piece.
LEMMA PlainIs ==
  ASSUME NEW t \in Seq(Token), NEW p \in 1..Len(t) + 1, NEW q \in p..Len(t) + 1
  PROVE  /\ IsAbbr(Piece(t, p, q)) <=> Bracketed(Piece(t, p, q)) \/ Plain(t, p, q)
         /\ Plain(t, p, q) => ~Bracketed(Piece(t, p, q)) /\ AbbrOf(Piece(t, p, q)) = Piece(t, p, q)
<1> DEFINE s == Piece(t, p, q)
<1>1. s \in Seq(Token) /\ Len(s) = q - p /\ \A i \in 1..q - p : s[i] = t[p + i - 1]
  BY PieceIs
<1>2. Has(s, {"-", "+", ",", "int"}) <=> \E k \in p..q - 1 : At(t, k) \in {"-", "+", ",", "int"}
  BY PieceHas
<1>3. \A k \in p..q - 1 : At(t, k) \notin AbbrEnds <=> At(t, k) \notin {"-", "+", ",", "int"}
  <2> TAKE k \in p..q - 1
  <2>1. k \in 1..Len(t) + 1 /\ k # Len(t) + 1
    OBVIOUS
  <2>2. At(t, k) # "end"
    BY <2>1, AtIs
  <2> QED
    BY <2>2 DEF AbbrEnds
<1>4. CASE p = q
  <2>1. s = <<>>
    BY <1>1, <1>4
  <2>2. Letters(s) = 0
    BY <2>1, NoLetters
  <2>3. ~Bracketed(s)
    BY <1>1, <1>4 DEF Bracketed
  <2>4. ~(Letters(s) >= 3)
    BY <2>2
  <2> QED
    BY <1>4, <2>3, <2>4 DEF IsAbbr, Plain
<1>5. CASE p < q
  <2>1. s[1].c = At(t, p)
    <3>1. 1 \in 1..q - p /\ p + 1 - 1 = p /\ ~(p > Len(t))
      BY <1>5
    <3> QED
      BY <1>1, <3>1 DEF At
  <2>2. Plain(t, p, q) <=> Letters(s) >= 3 /\ s[1].c # "<" /\ ~Has(s, {"-", "+", ",", "int"})
    <3>1. ~Has(s, {"-", "+", ",", "int"}) <=> \A k \in p..q - 1 : At(t, k) \notin AbbrEnds
      BY <1>2, <1>3
    <3> HIDE DEF s
    <3>2. Plain(t, p, q) <=> p < q /\ At(t, p) # "<" /\ Letters(s) >= 3 /\ \A k \in p..q - 1 : At(t, k) \notin AbbrEnds
      BY DEF Plain, s
    <3> QED
      BY <1>5, <2>1, <3>1, <3>2
  <2>3. Bracketed(s) => s[1].c = "<"
    BY DEF Bracketed
  <2> HIDE DEF s
  <2>4. IsAbbr(s) <=> Bracketed(s) \/ Plain(t, p, q)
    BY <2>2 DEF IsAbbr
  <2>5. Plain(t, p, q) => ~Bracketed(s)
    BY <2>2, <2>3
  <2>6. ~Bracketed(s) => AbbrOf(s) = s
    BY DEF AbbrOf
  <2> QED
    BY <2>4, <2>5, <2>6 DEF s
<1>6. p = q \/ p < q
  OBVIOUS
<1> QED
  BY <1>4, <1>5, <1>6

\* The parser reads an abbreviation of the grammar to its end, if what follows ends a plain one.
LEMMA AbbrWritten ==
  ASSUME NEW t \in Seq(Token), NEW p \in 1..Len(t) + 1, NEW q \in p..Len(t) + 1,
         IsAbbr(Piece(t, p, q)), At(t, q) \in AbbrEnds
  PROVE  ParseAbbr(t, p) = Read(q, AbbrOf(Piece(t, p, q))) /\ p < q
<1> DEFINE s == Piece(t, p, q)
<1>1. CASE Bracketed(s)
  <2>1. /\ p + 2 <= q /\ At(t, p) = "<" /\ At(t, q - 1) = ">"
        /\ \A k \in p + 1..q - 2 : At(t, k) # ">"
        /\ AbbrOf(s) = Piece(t, p + 1, q - 1)
    BY <1>1, BracketedIs
  <2>2. p + 1 \in 1..Len(t) + 1 /\ q - 1 \in p + 1..Len(t) + 1 /\ (q - 1) - 1 = q - 2 /\ (q - 1) + 1 = q
    BY <2>1
  <2>3. \A k \in p + 1..q - 2 : At(t, k) # "end"
    <3> TAKE k \in p + 1..q - 2
    <3>1. k \in 1..Len(t) + 1 /\ k # Len(t) + 1
      OBVIOUS
    <3> QED
      BY <3>1, AtIs
  <2>4. StopsAt(t, p + 1, {">", "end"}, q - 1)
    BY <2>1, <2>2, <2>3 DEF StopsAt
  <2>5. FirstFrom(t, p + 1, {">", "end"}) = q - 1
    BY <2>2, <2>4, FirstFromIs
  <2>6. ParseAbbr(t, p) = Read((q - 1) + 1, SubSeq(t, p + 1, (q - 1) - 1))
    BY <2>1, <2>5 DEF ParseAbbr
  <2>7. SubSeq(t, p + 1, (q - 1) - 1) = Piece(t, p + 1, q - 1)
    BY DEF Piece
  <2>8. ParseAbbr(t, p) = Read(q, Piece(t, p + 1, q - 1))
    BY <2>2, <2>6, <2>7
  <2> QED
    BY <2>1, <2>8
<1>2. CASE Plain(t, p, q)
  <2>1. p < q /\ At(t, p) # "<" /\ Letters(s) >= 3 /\ AbbrOf(s) = s
    BY <1>2, PlainIs DEF Plain
  <2>2. StopsAt(t, p, AbbrEnds, q)
    BY <1>2 DEF Plain, StopsAt
  <2>3. "end" \in AbbrEnds
    BY DEF AbbrEnds
  <2>4. FirstFrom(t, p, AbbrEnds) = q
    BY <2>2, <2>3, FirstFromIs
  <2>5. Letters(s) \in Nat
    BY PieceIs, LettersTyped
  <2>6. ~(Letters(SubSeq(t, p, q - 1)) < 3)
    BY <2>1, <2>5 DEF Piece
  <2>7. ParseAbbr(t, p) = Read(q, SubSeq(t, p, q - 1))
    BY <2>1, <2>4, <2>6 DEF ParseAbbr
  <2> QED
    BY <2>1, <2>7 DEF Piece
<1> QED
  BY <1>1, <1>2, PlainIs

\* What the parser takes for an abbreviation is one of the grammar.
LEMMA AbbrRead ==
  ASSUME NEW t \in Seq(Token), NEW p \in 1..Len(t) + 1, ParseAbbr(t, p).at # NullPtr
  PROVE  \E q \in p + 1..Len(t) + 1 : IsAbbr(Piece(t, p, q)) /\ ParseAbbr(t, p) = Read(q, AbbrOf(Piece(t, p, q)))
<1>0. Fails.at = NullPtr
  BY DEF Fails, Read
<1>1. CASE At(t, p) = "<"
  <2> DEFINE x == FirstFrom(t, p + 1, {">", "end"})
             q == x + 1
  <2>1. p \in 1..Len(t) /\ p + 1 \in 1..Len(t) + 1
    <3>1. p # Len(t) + 1
      BY <1>1, AtIs
    <3> QED
      BY <3>1
  <2>2. StopsAt(t, p + 1, {">", "end"}, x)
    BY <2>1, FirstFromIs
  <2> HIDE DEF x
  <2>3. At(t, x) # "end"
    <3>1. ASSUME At(t, x) = "end" PROVE FALSE
      <4>1. ParseAbbr(t, p) = Fails
        BY <1>1, <3>1 DEF ParseAbbr, x
      <4> QED
        BY <1>0, <4>1
    <3> QED
      BY <3>1
  <2>4. x \in p + 1..Len(t) + 1 /\ At(t, x) = ">" /\ \A k \in p + 1..x - 1 : At(t, k) # ">"
    BY <2>2, <2>3 DEF StopsAt
  <2>5. x # Len(t) + 1
    BY <2>3, <2>4, AtIs
  <2>6. q \in p + 1..Len(t) + 1 /\ q \in p..Len(t) + 1 /\ p + 2 <= q /\ q - 1 = x /\ q - 2 = x - 1
    BY <2>4, <2>5
  <2>7. ParseAbbr(t, p) = Read(q, SubSeq(t, p + 1, x - 1))
    BY <1>1, <2>3, <2>4 DEF ParseAbbr, x
  <2> HIDE DEF q
  <2>8. Bracketed(Piece(t, p, q)) /\ AbbrOf(Piece(t, p, q)) = Piece(t, p + 1, q - 1)
    BY <1>1, <2>4, <2>6, BracketedIs
  <2>9. IsAbbr(Piece(t, p, q)) /\ ParseAbbr(t, p) = Read(q, AbbrOf(Piece(t, p, q)))
    BY <2>6, <2>7, <2>8 DEF IsAbbr, Piece
  <2> QED
    BY <2>6, <2>9
<1>2. CASE At(t, p) # "<"
  <2> DEFINE q == FirstFrom(t, p, AbbrEnds)
  <2>1. StopsAt(t, p, AbbrEnds, q)
    <3>1. "end" \in AbbrEnds
      BY DEF AbbrEnds
    <3> QED
      BY <3>1, FirstFromIs
  <2> HIDE DEF q
  <2>2. q \in p..Len(t) + 1 /\ \A k \in p..q - 1 : At(t, k) \notin AbbrEnds
    BY <2>1 DEF StopsAt
  <2>3. ~(Letters(SubSeq(t, p, q - 1)) < 3)
    <3>1. ASSUME Letters(SubSeq(t, p, q - 1)) < 3 PROVE FALSE
      <4>1. ParseAbbr(t, p) = Fails
        BY <1>2, <3>1 DEF ParseAbbr, q
      <4> QED
        BY <1>0, <4>1
    <3> QED
      BY <3>1
  <2>4. ParseAbbr(t, p) = Read(q, Piece(t, p, q))
    <3>1. ParseAbbr(t, p) = Read(q, SubSeq(t, p, q - 1))
      BY <1>2, <2>3 DEF ParseAbbr, q
    <3> QED
      BY <3>1 DEF Piece
  <2>5. Letters(Piece(t, p, q)) \in Nat /\ Piece(t, p, q) \in Seq(Token) /\ Len(Piece(t, p, q)) = q - p
    BY <2>2, PieceIs, LettersTyped
  <2>6. Letters(Piece(t, p, q)) >= 3
    BY <2>3, <2>5 DEF Piece
  <2>7. p # q
    <3>1. ASSUME p = q PROVE FALSE
      <4>1. Piece(t, p, q) = <<>>
        BY <2>5, <3>1
      <4> QED
        BY <2>6, <4>1, NoLetters
    <3> QED
      BY <3>1
  <2>8. Plain(t, p, q)
    BY <1>2, <2>2, <2>6, <2>7 DEF Plain
  <2>9. IsAbbr(Piece(t, p, q)) /\ AbbrOf(Piece(t, p, q)) = Piece(t, p, q)
    BY <2>2, <2>8, PlainIs
  <2>10. q \in p + 1..Len(t) + 1
    BY <2>2, <2>7
  <2> QED
    BY <2>4, <2>9, <2>10
<1> QED
  BY <1>1, <1>2

\* A text has the shape w when its tokens are of w's kinds.
LEMMA ShapeIs ==
  ASSUME NEW s \in Seq(Token), NEW S, NEW w \in Seq(S)
  PROVE  Shape(s) = w <=> Len(s) = Len(w) /\ \A i \in 1..Len(w) : s[i].c = w[i]
<1>1. Len(s) \in Nat /\ Len(w) \in Nat
  OBVIOUS
<1>2. w = [i \in 1..Len(w) |-> w[i]]
  OBVIOUS
<1>3. ASSUME Shape(s) = w PROVE Len(s) = Len(w) /\ \A i \in 1..Len(w) : s[i].c = w[i]
  <2>1. DOMAIN w = 1..Len(w) /\ DOMAIN w = 1..Len(s)
    BY <1>3 DEF Shape
  <2>2. Len(s) = Len(w)
    BY <1>1, <2>1
  <2> QED
    BY <1>3, <2>2 DEF Shape
<1>4. ASSUME Len(s) = Len(w), \A i \in 1..Len(w) : s[i].c = w[i] PROVE Shape(s) = w
  BY <1>2, <1>4 DEF Shape
<1> QED
  BY <1>3, <1>4

\* The shapes of the grammar.
LEMMA ShapesAre ==
  ASSUME NEW s \in Seq(Token)
  PROVE  /\ Shape(s) = <<"int">> <=> Len(s) = 1 /\ s[1].c = "int"
         /\ Shape(s) = <<"J", "int">> <=> Len(s) = 2 /\ s[1].c = "J" /\ s[2].c = "int"
         /\ Shape(s) = <<"int", ":", "int">> <=> Len(s) = 3 /\ s[1].c = "int" /\ s[2].c = ":" /\ s[3].c = "int"
         /\ Shape(s) = <<"int", ":", "int", ":", "int">> <=>
              Len(s) = 5 /\ s[1].c = "int" /\ s[2].c = ":" /\ s[3].c = "int" /\ s[4].c = ":" /\ s[5].c = "int"
         /\ Shape(s) = <<"M", "int", ".", "int", ".", "int">> <=>
              /\ Len(s) = 6 /\ s[1].c = "M" /\ s[2].c = "int" /\ s[3].c = "." /\ s[4].c = "int"
              /\ s[5].c = "." /\ s[6].c = "int"
<1> DEFINE K == {"int", ":", "M", "J", "."}
<1>1. ASSUME NEW w \in Seq(K) PROVE Shape(s) = w <=> Len(s) = Len(w) /\ \A i \in 1..Len(w) : s[i].c = w[i]
  BY ShapeIs
<1>2. Shape(s) = <<"int">> <=> Len(s) = 1 /\ s[1].c = "int"
  <2> DEFINE w == <<"int">>
  <2>1. w \in Seq(K) /\ Len(w) = 1 /\ w[1] = "int" /\ 1..1 = {1}
    OBVIOUS
  <2> HIDE DEF w, K
  <2>2. Shape(s) = w <=> Len(s) = Len(w) /\ \A i \in 1..Len(w) : s[i].c = w[i]
    BY <1>1, <2>1
  <2>3. Shape(s) = w <=> Len(s) = 1 /\ s[1].c = "int"
    BY <2>1, <2>2
  <2> QED
    BY <2>3 DEF w
<1>3. Shape(s) = <<"J", "int">> <=> Len(s) = 2 /\ s[1].c = "J" /\ s[2].c = "int"
  <2> DEFINE w == <<"J", "int">>
  <2>1. w \in Seq(K) /\ Len(w) = 2 /\ w[1] = "J" /\ w[2] = "int" /\ 1..2 = {1, 2}
    OBVIOUS
  <2> HIDE DEF w, K
  <2>2. Shape(s) = w <=> Len(s) = Len(w) /\ \A i \in 1..Len(w) : s[i].c = w[i]
    BY <1>1, <2>1
  <2>3. Shape(s) = w <=> Len(s) = 2 /\ s[1].c = "J" /\ s[2].c = "int"
    BY <2>1, <2>2
  <2> QED
    BY <2>3 DEF w
<1>4. Shape(s) = <<"int", ":", "int">> <=> Len(s) = 3 /\ s[1].c = "int" /\ s[2].c = ":" /\ s[3].c = "int"
  <2> DEFINE w == <<"int", ":", "int">>
  <2>1. w \in Seq(K) /\ Len(w) = 3 /\ w[1] = "int" /\ w[2] = ":" /\ w[3] = "int" /\ 1..3 = {1, 2, 3}
    OBVIOUS
  <2> HIDE DEF w, K
  <2>2. Shape(s) = w <=> Len(s) = Len(w) /\ \A i \in 1..Len(w) : s[i].c = w[i]
    BY <1>1, <2>1
  <2>3. Shape(s) = w <=> Len(s) = 3 /\ s[1].c = "int" /\ s[2].c = ":" /\ s[3].c = "int"
    BY <2>1, <2>2
  <2> QED
    BY <2>3 DEF w
<1>5. Shape(s) = <<"int", ":", "int", ":", "int">> <=>
        Len(s) = 5 /\ s[1].c = "int" /\ s[2].c = ":" /\ s[3].c = "int" /\ s[4].c = ":" /\ s[5].c = "int"
  <2> DEFINE w == <<"int", ":", "int", ":", "int">>
  <2>1. /\ w \in Seq(K) /\ Len(w) = 5 /\ w[1] = "int" /\ w[2] = ":" /\ w[3] = "int" /\ w[4] = ":" /\ w[5] = "int"
        /\ 1..5 = {1, 2, 3, 4, 5}
    OBVIOUS
  <2> HIDE DEF w, K
  <2>2. Shape(s) = w <=> Len(s) = Len(w) /\ \A i \in 1..Len(w) : s[i].c = w[i]
    BY <1>1, <2>1
  <2>3. Shape(s) = w <=> Len(s) = 5 /\ s[1].c = "int" /\ s[2].c = ":" /\ s[3].c = "int" /\ s[4].c = ":" /\ s[5].c = "int"
    BY <2>1, <2>2
  <2> QED
    BY <2>3 DEF w
<1>6. Shape(s) = <<"M", "int", ".", "int", ".", "int">> <=>
        /\ Len(s) = 6 /\ s[1].c = "M" /\ s[2].c = "int" /\ s[3].c = "." /\ s[4].c = "int"
        /\ s[5].c = "." /\ s[6].c = "int"
  <2> DEFINE w == <<"M", "int", ".", "int", ".", "int">>
  <2>1. /\ w \in Seq(K) /\ Len(w) = 6 /\ w[1] = "M" /\ w[2] = "int" /\ w[3] = "." /\ w[4] = "int"
        /\ w[5] = "." /\ w[6] = "int" /\ 1..6 = {1, 2, 3, 4, 5, 6}
    OBVIOUS
  <2> HIDE DEF w, K
  <2>2. Shape(s) = w <=> Len(s) = Len(w) /\ \A i \in 1..Len(w) : s[i].c = w[i]
    BY <1>1, <2>1
  <2>3. Shape(s) = w <=> /\ Len(s) = 6 /\ s[1].c = "M" /\ s[2].c = "int" /\ s[3].c = "." /\ s[4].c = "int"
                         /\ s[5].c = "." /\ s[6].c = "int"
    BY <2>1, <2>2
  <2> QED
    BY <2>3 DEF w
<1> QED
  BY <1>2, <1>3, <1>4, <1>5, <1>6

\* A number up to hi is at k.
IntAt(t, k, hi) == At(t, k) = "int" /\ t[k].n \in 0..hi

\* hh, hh:mm or hh:mm:ss is from b to q.
PartsAt(t, b, q, hi) ==
  \/ q = b + 1 /\ IntAt(t, b, hi)
  \/ q = b + 3 /\ IntAt(t, b, hi) /\ At(t, b + 1) = ":" /\ IntAt(t, b + 2, 59)
  \/ /\ q = b + 5 /\ IntAt(t, b, hi) /\ At(t, b + 1) = ":" /\ IntAt(t, b + 2, 59)
     /\ At(t, b + 3) = ":" /\ IntAt(t, b + 4, 59)

\* Where the digits of an offset begin, and what they count.
Base(t, p) == IF At(t, p) \in {"+", "-"} THEN p + 1 ELSE p
Sum(t, b, q) ==
  3600 * t[b].n + 60 * (IF q >= b + 3 THEN t[b + 2].n ELSE 0) + (IF q >= b + 5 THEN t[b + 4].n ELSE 0)

\* A piece without sign, by position.
LEMMA PartsAre ==
  ASSUME NEW t \in Seq(Token), NEW b \in 1..Len(t) + 1, NEW q \in b..Len(t) + 1, NEW hi
  PROVE  LET d == Piece(t, b, q) IN
         ( /\ Shape(d) \in {<<"int">>, <<"int", ":", "int">>, <<"int", ":", "int", ":", "int">>}
           /\ d[1].n \in 0..hi
           /\ \A i \in {3, 5} : i <= Len(d) => d[i].n \in 0..59 ) <=> PartsAt(t, b, q, hi)
<1> DEFINE d == Piece(t, b, q)
<1>1. d \in Seq(Token) /\ Len(d) = q - b /\ \A i \in 1..q - b : d[i] = t[b + i - 1]
  BY PieceIs
<1> HIDE DEF d
<1>2. ASSUME NEW i \in 1..q - b PROVE d[i] = t[b + i - 1] /\ d[i].c = At(t, b + i - 1)
  <2>1. ~(b + i - 1 > Len(t))
    OBVIOUS
  <2> QED
    BY <1>1, <2>1 DEF At
<1>3. Shape(d) = <<"int">> /\ d[1].n \in 0..hi <=> q = b + 1 /\ IntAt(t, b, hi)
  <2>1. Shape(d) = <<"int">> <=> Len(d) = 1 /\ d[1].c = "int"
    BY <1>1, ShapesAre
  <2>2. q = b + 1 => d[1] = t[b] /\ d[1].c = At(t, b)
    <3> SUFFICES ASSUME q = b + 1 PROVE d[1] = t[b] /\ d[1].c = At(t, b)
      OBVIOUS
    <3>1. 1 \in 1..q - b /\ b + 1 - 1 = b
      OBVIOUS
    <3> QED
      BY <1>2, <3>1
  <2> QED
    BY <1>1, <2>1, <2>2 DEF IntAt
<1>4. Shape(d) = <<"int", ":", "int">> /\ d[1].n \in 0..hi /\ d[3].n \in 0..59
      <=> q = b + 3 /\ IntAt(t, b, hi) /\ At(t, b + 1) = ":" /\ IntAt(t, b + 2, 59)
  <2>1. Shape(d) = <<"int", ":", "int">> <=> Len(d) = 3 /\ d[1].c = "int" /\ d[2].c = ":" /\ d[3].c = "int"
    BY <1>1, ShapesAre
  <2>2. ASSUME q = b + 3
        PROVE  /\ d[1] = t[b] /\ d[1].c = At(t, b) /\ d[2].c = At(t, b + 1)
               /\ d[3] = t[b + 2] /\ d[3].c = At(t, b + 2)
    <3>1. /\ 1 \in 1..q - b /\ b + 1 - 1 = b /\ 2 \in 1..q - b /\ b + 2 - 1 = b + 1
          /\ 3 \in 1..q - b /\ b + 3 - 1 = b + 2
      BY <2>2
    <3> QED
      BY <1>2, <3>1
  <2>3. Len(d) = 3 <=> q = b + 3
    BY <1>1
  <2>4. CASE q = b + 3
    BY <2>1, <2>2, <2>3, <2>4 DEF IntAt
  <2>5. CASE q # b + 3
    BY <2>1, <2>3, <2>5
  <2> QED
    BY <2>4, <2>5
<1>5. Shape(d) = <<"int", ":", "int", ":", "int">> /\ d[1].n \in 0..hi /\ d[3].n \in 0..59 /\ d[5].n \in 0..59
      <=> /\ q = b + 5 /\ IntAt(t, b, hi) /\ At(t, b + 1) = ":" /\ IntAt(t, b + 2, 59)
          /\ At(t, b + 3) = ":" /\ IntAt(t, b + 4, 59)
  <2>1. Shape(d) = <<"int", ":", "int", ":", "int">> <=>
          Len(d) = 5 /\ d[1].c = "int" /\ d[2].c = ":" /\ d[3].c = "int" /\ d[4].c = ":" /\ d[5].c = "int"
    BY <1>1, ShapesAre
  <2>2. ASSUME q = b + 5
        PROVE  /\ d[1] = t[b] /\ d[1].c = At(t, b) /\ d[2].c = At(t, b + 1)
               /\ d[3] = t[b + 2] /\ d[3].c = At(t, b + 2) /\ d[4].c = At(t, b + 3)
               /\ d[5] = t[b + 4] /\ d[5].c = At(t, b + 4)
    <3>1. /\ 1 \in 1..q - b /\ b + 1 - 1 = b /\ 2 \in 1..q - b /\ b + 2 - 1 = b + 1
          /\ 3 \in 1..q - b /\ b + 3 - 1 = b + 2 /\ 4 \in 1..q - b /\ b + 4 - 1 = b + 3
          /\ 5 \in 1..q - b /\ b + 5 - 1 = b + 4
      BY <2>2
    <3> QED
      BY <1>2, <3>1
  <2>3. Len(d) = 5 <=> q = b + 5
    BY <1>1
  <2>4. CASE q = b + 5
    BY <2>1, <2>2, <2>3, <2>4 DEF IntAt
  <2>5. CASE q # b + 5
    BY <2>1, <2>3, <2>5
  <2> QED
    BY <2>4, <2>5
<1>6. /\ Shape(d) = <<"int">> => Len(d) = 1
      /\ Shape(d) = <<"int", ":", "int">> => Len(d) = 3
      /\ Shape(d) = <<"int", ":", "int", ":", "int">> => Len(d) = 5
  BY <1>1, ShapesAre
<1>7. PartsAt(t, b, q, hi) <=>
        \/ Shape(d) = <<"int">> /\ d[1].n \in 0..hi
        \/ Shape(d) = <<"int", ":", "int">> /\ d[1].n \in 0..hi /\ d[3].n \in 0..59
        \/ Shape(d) = <<"int", ":", "int", ":", "int">> /\ d[1].n \in 0..hi /\ d[3].n \in 0..59 /\ d[5].n \in 0..59
  BY <1>3, <1>4, <1>5, Zenon DEF PartsAt
<1>8. /\ Len(d) = 1 => ~(3 <= Len(d)) /\ ~(5 <= Len(d))
      /\ Len(d) = 3 => 3 <= Len(d) /\ ~(5 <= Len(d))
      /\ Len(d) = 5 => 3 <= Len(d) /\ 5 <= Len(d)
  BY <1>1, SMT
<1>9. (\A i \in {3, 5} : i <= Len(d) => d[i].n \in 0..59)
      <=> (3 <= Len(d) => d[3].n \in 0..59) /\ (5 <= Len(d) => d[5].n \in 0..59)
  OBVIOUS
<1> QED
  BY <1>6, <1>7, <1>8, <1>9, Zenon DEF d

\* An offset of the grammar, by position.
LEMMA OffsetIs ==
  ASSUME NEW t \in Seq(Token), NEW p \in 1..Len(t) + 1, NEW q \in p..Len(t) + 1, NEW hi
  PROVE  LET s == Piece(t, p, q)
             b == Base(t, p)
         IN  /\ IsOffset(s, 0..hi) <=> PartsAt(t, b, q, hi)
             /\ IsOffset(s, 0..hi) => /\ p < q /\ b \in p..q /\ Len(Digits(s)) = q - b
                                      /\ Seconds(s) = (IF At(t, p) = "-" THEN -1 ELSE 1) * Sum(t, b, q)
<1> DEFINE s == Piece(t, p, q)
           b == Base(t, p)
           d == Digits(s)
<1>1. s \in Seq(Token) /\ Len(s) = q - p /\ \A i \in 1..q - p : s[i] = t[p + i - 1]
  BY PieceIs
<1>2. b \in Int /\ b >= p
  BY DEF Base
<1>3. CASE p = q
  <2>1. s = <<>> /\ d = s
    BY <1>1, <1>3 DEF Digits, Signed
  <2>2. d \in Seq(Token) /\ Len(d) = 0
    BY <1>1, <1>3, <2>1
  <2> HIDE DEF d
  <2>3. Shape(d) \notin {<<"int">>, <<"int", ":", "int">>, <<"int", ":", "int", ":", "int">>}
    <3>1. /\ Shape(d) = <<"int">> => Len(d) = 1
          /\ Shape(d) = <<"int", ":", "int">> => Len(d) = 3
          /\ Shape(d) = <<"int", ":", "int", ":", "int">> => Len(d) = 5
      BY <2>2, ShapesAre, Zenon
    <3>2. Len(d) # 1 /\ Len(d) # 3 /\ Len(d) # 5
      BY <2>2
    <3> QED
      BY <3>1, <3>2, Zenon
  <2>4. ~IsOffset(s, 0..hi)
    BY <2>3 DEF IsOffset, d
  <2> HIDE DEF b
  <2>5. ~PartsAt(t, b, q, hi)
    BY <1>2, <1>3 DEF PartsAt
  <2> QED
    BY <2>4, <2>5 DEF b
<1>4. CASE p < q
  <2>1. s # <<>> /\ s[1] = t[p] /\ s[1].c = At(t, p)
    <3>1. 1 \in 1..q - p /\ p + 1 - 1 = p /\ ~(p > Len(t))
      BY <1>4
    <3>2. Len(s) # 0
      BY <1>1, <1>4
    <3>3. s # <<>>
      BY <3>2
    <3>4. s[1] = t[p]
      BY <1>1, <3>1
    <3> QED
      BY <3>1, <3>3, <3>4 DEF At
  <2>2. d = Piece(t, b, q) /\ b \in 1..Len(t) + 1 /\ b \in p..q
    <3>1. CASE At(t, p) \in {"+", "-"}
      <4>1. b = p + 1
        BY <3>1 DEF Base
      <4>2. d = Tail(s)
        BY <2>1, <3>1 DEF Digits, Signed
      <4>3. p \in 1..Len(t) /\ q \in p + 1..Len(t) + 1
        BY <1>4
      <4>4. Tail(s) = Piece(t, p + 1, q)
        BY <4>3, PieceTail
      <4> QED
        BY <4>1, <4>2, <4>3, <4>4
    <3>2. CASE At(t, p) \notin {"+", "-"}
      <4>1. b = p
        BY <3>2 DEF Base
      <4>2. d = s
        BY <2>1, <3>2 DEF Digits, Signed
      <4> QED
        BY <1>4, <4>1, <4>2
    <3> QED
      BY <3>1, <3>2
  <2>3. q \in b..Len(t) + 1
    BY <2>2
  <2> HIDE DEF b
  <2>4. ( /\ Shape(Piece(t, b, q)) \in {<<"int">>, <<"int", ":", "int">>, <<"int", ":", "int", ":", "int">>}
          /\ Piece(t, b, q)[1].n \in 0..hi
          /\ \A i \in {3, 5} : i <= Len(Piece(t, b, q)) => Piece(t, b, q)[i].n \in 0..59 ) <=> PartsAt(t, b, q, hi)
    BY <2>2, <2>3, PartsAre
  <2>5. IsOffset(s, 0..hi) <=> PartsAt(t, b, q, hi)
    BY <2>2, <2>4, Zenon DEF IsOffset
  <2>6. d \in Seq(Token) /\ Len(d) = q - b /\ \A i \in 1..q - b : d[i] = t[b + i - 1]
    <3>1. /\ Piece(t, b, q) \in Seq(Token) /\ Len(Piece(t, b, q)) = q - b
          /\ \A i \in 1..q - b : Piece(t, b, q)[i] = t[b + i - 1]
      BY <2>2, <2>3, PieceIs
    <3> HIDE DEF d
    <3> QED
      BY <2>2, <3>1, Zenon
  <2>7. ASSUME IsOffset(s, 0..hi) PROVE Seconds(s) = (IF At(t, p) = "-" THEN -1 ELSE 1) * Sum(t, b, q)
    <3> HIDE DEF d
    <3> DEFINE part(i) == IF i <= Len(d) THEN d[i].n ELSE 0
    <3>1. Seconds(s) = (IF s[1].c = "-" THEN -1 ELSE 1) * (3600 * part(1) + 60 * part(3) + part(5))
      BY DEF Seconds, d
    <3>2. q - b \in {1, 3, 5}
      BY <2>2, <2>5, <2>7 DEF PartsAt
    <3>3. part(1) = t[b].n
      <4>1. 1 \in 1..q - b /\ b + 1 - 1 = b /\ 1 <= Len(d)
        BY <2>2, <2>6, <3>2
      <4> QED
        BY <2>6, <4>1
    <3>4. part(3) = IF q >= b + 3 THEN t[b + 2].n ELSE 0
      <4>1. CASE q >= b + 3
        <5>1. 3 \in 1..q - b /\ b + 3 - 1 = b + 2 /\ 3 <= Len(d)
          BY <2>2, <2>6, <4>1
        <5> QED
          BY <2>6, <4>1, <5>1
      <4>2. CASE ~(q >= b + 3)
        <5>1. ~(3 <= Len(d))
          BY <2>2, <2>6, <4>2
        <5> QED
          BY <4>2, <5>1
      <4> QED
        BY <4>1, <4>2
    <3>5. part(5) = IF q >= b + 5 THEN t[b + 4].n ELSE 0
      <4>1. CASE q >= b + 5
        <5>1. 5 \in 1..q - b /\ b + 5 - 1 = b + 4 /\ 5 <= Len(d)
          BY <2>2, <2>6, <4>1
        <5> QED
          BY <2>6, <4>1, <5>1
      <4>2. CASE ~(q >= b + 5)
        <5>1. ~(5 <= Len(d))
          BY <2>2, <2>6, <4>2
        <5> QED
          BY <4>2, <5>1
      <4> QED
        BY <4>1, <4>2
    <3> HIDE DEF part
    <3>6. 3600 * part(1) + 60 * part(3) + part(5) = Sum(t, b, q)
      <4> DEFINE x == IF q >= b + 3 THEN t[b + 2].n ELSE 0
                 y == IF q >= b + 5 THEN t[b + 4].n ELSE 0
      <4>1. Sum(t, b, q) = 3600 * t[b].n + 60 * x + y
        BY DEF Sum
      <4>2. part(3) = x /\ part(5) = y
        BY <3>4, <3>5
      <4> HIDE DEF x, y
      <4> QED
        BY <3>3, <4>1, <4>2
    <3> QED
      BY <2>1, <3>1, <3>6
  <2> QED
    BY <1>4, <2>2, <2>5, <2>6, <2>7 DEF b
<1> QED
  BY <1>3, <1>4

\* ParseInt and Part60, by position.
LEMMA IntIs ==
  ASSUME NEW t \in Seq(Token), NEW p \in 1..Len(t) + 1, NEW lo \in Int, lo <= 0, NEW hi \in Nat
  PROVE  /\ IntAt(t, p, hi) => ParseInt(t, p, lo, hi) = Read(p + 1, t[p].n) /\ p <= Len(t)
         /\ ~IntAt(t, p, hi) => ParseInt(t, p, lo, hi) = Fails
<1>1. At(t, p) = "int" => p <= Len(t) /\ t[p].n \in Nat
  <2>1. ASSUME At(t, p) = "int" PROVE p <= Len(t)
    <3>1. p # Len(t) + 1
      BY <2>1, AtIs
    <3> QED
      BY <3>1
  <2> QED
    BY <2>1, AtIs
<1>2. At(t, p) = "int" => (t[p].n \in lo..hi <=> t[p].n \in 0..hi)
  BY <1>1
<1> QED
  BY <1>1, <1>2 DEF ParseInt, IntAt

\* Part60 by position: nothing without a colon, the number after it, or a failure.
LEMMA PartIs ==
  ASSUME NEW t \in Seq(Token), NEW p \in 1..Len(t) + 1
  PROVE  /\ At(t, p) # ":" => Part60(t, p) = Read(p, 0)
         /\ At(t, p) = ":" => p + 1 \in 1..Len(t) + 1
         /\ At(t, p) = ":" /\ IntAt(t, p + 1, 59) => Part60(t, p) = Read(p + 2, t[p + 1].n) /\ p + 2 \in 1..Len(t) + 1
         /\ At(t, p) = ":" /\ ~IntAt(t, p + 1, 59) => Part60(t, p) = Fails
<1>1. p # NullPtr
  BY DEF NullPtr
<1>2. At(t, p) # ":" => Part60(t, p) = Read(p, 0)
  BY <1>1 DEF Part60
<1>3. ASSUME At(t, p) = ":"
      PROVE  /\ p + 1 \in 1..Len(t) + 1
             /\ IntAt(t, p + 1, 59) => Part60(t, p) = Read(p + 2, t[p + 1].n) /\ p + 2 \in 1..Len(t) + 1
             /\ ~IntAt(t, p + 1, 59) => Part60(t, p) = Fails
  <2>1. p # Len(t) + 1
    BY <1>3, AtIs
  <2>2. p + 1 \in 1..Len(t) + 1
    BY <2>1
  <2>3. Part60(t, p) = ParseInt(t, p + 1, 0, 59)
    BY <1>1, <1>3 DEF Part60
  <2>4. /\ IntAt(t, p + 1, 59) => ParseInt(t, p + 1, 0, 59) = Read((p + 1) + 1, t[p + 1].n) /\ p + 1 <= Len(t)
        /\ ~IntAt(t, p + 1, 59) => ParseInt(t, p + 1, 0, 59) = Fails
    <3>1. 0 \in Int /\ 0 <= 0 /\ 59 \in Nat
      OBVIOUS
    <3> QED
      BY <2>2, <3>1, IntIs
  <2>5. (p + 1) + 1 = p + 2
    OBVIOUS
  <2> QED
    BY <2>2, <2>3, <2>4, <2>5
<1> QED
  BY <1>2, <1>3

\* After a failure Part60 fails.
LEMMA PartOfNothing == ASSUME NEW t PROVE Part60(t, NullPtr) = Fails /\ Fails.at = NullPtr
  BY DEF Part60, Fails, Read

\* Where an offset must end: a colon after it belongs to it, until it has its seconds.
EndsAt(t, b, q, hi) == PartsAt(t, b, q, hi) /\ (At(t, q) = ":" => q = b + 5)

\* The number it works out from the digits between b and q, with the sign before them.
Worked(t, p, b, q, sign) ==
  (IF At(t, p) = "-" THEN -sign ELSE sign)
    * ((t[b].n * 60 + (IF q >= b + 3 THEN t[b + 2].n ELSE 0)) * 60 + (IF q >= b + 5 THEN t[b + 4].n ELSE 0))

\* The parser reads an offset that ends so, and no other.
LEMMA OffsetExact ==
  ASSUME NEW t \in Seq(Token), NEW p \in 1..Len(t) + 1, NEW lo \in Int, lo <= 0, NEW hi \in Nat, NEW sign
  PROVE  LET b == Base(t, p)
             r == ParseOffset(t, p, lo, hi, sign)
         IN  \/ r = Fails /\ \A q \in p..Len(t) + 1 : ~EndsAt(t, b, q, hi)
             \/ \E q \in p + 1..Len(t) + 1 :
                  /\ EndsAt(t, b, q, hi)
                  /\ \A x \in p..Len(t) + 1 : EndsAt(t, b, x, hi) => x = q
                  /\ r = Read(q, Worked(t, p, b, q, sign))
<1> DEFINE b == Base(t, p)
           r == ParseOffset(t, p, lo, hi, sign)
           h == ParseInt(t, b, lo, hi)
           m == Part60(t, h.at)
           s == Part60(t, m.at)
           w == IF At(t, p) = "-" THEN -sign ELSE sign
<1>1. b \in 1..Len(t) + 1 /\ b >= p
  <2>1. At(t, p) \in {"+", "-"} => p # Len(t) + 1
    BY AtIs
  <2> QED
    BY <2>1 DEF Base
<1>2. r = IF s.at = NullPtr THEN Fails ELSE Read(s.at, w * ((h.val * 60 + m.val) * 60 + s.val))
  BY DEF ParseOffset, NullPtr, Base
<1> HIDE DEF b, r, w
<1>3. /\ IntAt(t, b, hi) => h = Read(b + 1, t[b].n) /\ b <= Len(t)
      /\ ~IntAt(t, b, hi) => h = Fails
  BY <1>1, IntIs
<1> HIDE DEF h
<1>4. \A x, v : Read(x, v).at = x /\ Read(x, v).val = v
  BY DEF Read
<1>5. CASE ~IntAt(t, b, hi)
  <2>1. h.at = NullPtr
    BY <1>3, <1>5, PartOfNothing
  <2>2. m = Fails
    BY <2>1, PartOfNothing
  <2>3. s = Fails
    BY <2>2, PartOfNothing
  <2>4. r = Fails
    BY <1>2, <2>3, PartOfNothing
  <2>5. \A q \in p..Len(t) + 1 : ~EndsAt(t, b, q, hi)
    BY <1>5 DEF EndsAt, PartsAt
  <2> QED
    BY <2>4, <2>5 DEF b, r
<1>6. CASE IntAt(t, b, hi) /\ At(t, b + 1) # ":"
  <2>1. b + 1 \in 1..Len(t) + 1 /\ h.at = b + 1 /\ h.val = t[b].n
    BY <1>1, <1>3, <1>4, <1>6
  <2>2. m = Read(b + 1, 0)
    BY <1>6, <2>1, PartIs
  <2>3. s = Read(b + 1, 0)
    BY <1>4, <1>6, <2>1, <2>2, PartIs
  <2>4. s.at # NullPtr /\ s.at = b + 1 /\ m.val = 0 /\ s.val = 0
    BY <1>1, <1>4, <2>2, <2>3 DEF NullPtr
  <2>5. r = Read(b + 1, w * ((t[b].n * 60 + 0) * 60 + 0))
    BY <1>2, <2>1, <2>4
  <2>6. EndsAt(t, b, b + 1, hi) /\ b + 1 \in p + 1..Len(t) + 1
    BY <1>1, <1>6, <2>1 DEF EndsAt, PartsAt
  <2>7. \A x \in p..Len(t) + 1 : EndsAt(t, b, x, hi) => x = b + 1
    BY <1>6 DEF EndsAt, PartsAt
  <2>8. ~(b + 1 >= b + 3) /\ ~(b + 1 >= b + 5)
    BY <1>1
  <2> DEFINE q == b + 1
  <2>9. r = Read(q, w * ((t[b].n * 60 + (IF q >= b + 3 THEN t[b + 2].n ELSE 0)) * 60
                           + (IF q >= b + 5 THEN t[b + 4].n ELSE 0)))
    BY <2>5, <2>8
  <2> HIDE DEF q
  <2>10. EndsAt(t, b, q, hi) /\ q \in p + 1..Len(t) + 1 /\ \A x \in p..Len(t) + 1 : EndsAt(t, b, x, hi) => x = q
    BY <2>6, <2>7 DEF q
  <2>11. r = Read(q, Worked(t, p, b, q, sign))
    BY <2>9, Zenon DEF Worked, w
  <2> QED
    BY <2>10, <2>11 DEF b, r
<1>7. CASE IntAt(t, b, hi) /\ At(t, b + 1) = ":" /\ ~IntAt(t, b + 2, 59)
  <2>1. b + 1 \in 1..Len(t) + 1 /\ h.at = b + 1 /\ (b + 1) + 1 = b + 2
    BY <1>1, <1>3, <1>4, <1>7
  <2>2. m = Fails
    BY <1>7, <2>1, PartIs
  <2>3. s = Fails
    BY <2>2, PartOfNothing
  <2>4. r = Fails
    BY <1>2, <2>3, PartOfNothing
  <2>5. \A q \in p..Len(t) + 1 : ~EndsAt(t, b, q, hi)
    BY <1>1, <1>7 DEF EndsAt, PartsAt
  <2> QED
    BY <2>4, <2>5 DEF b, r
<1>8. CASE IntAt(t, b, hi) /\ At(t, b + 1) = ":" /\ IntAt(t, b + 2, 59)
  <2>1. b + 1 \in 1..Len(t) + 1 /\ h.at = b + 1 /\ h.val = t[b].n /\ (b + 1) + 1 = b + 2 /\ (b + 1) + 2 = b + 3
    BY <1>1, <1>3, <1>4, <1>8
  <2>2. m = Read(b + 3, t[b + 2].n) /\ b + 3 \in 1..Len(t) + 1
    BY <1>8, <2>1, PartIs
  <2>3. m.at = b + 3 /\ m.val = t[b + 2].n /\ (b + 3) + 1 = b + 4 /\ (b + 3) + 2 = b + 5
    BY <1>1, <1>4, <2>2
  <2> HIDE DEF m
  <2>4. CASE At(t, b + 3) # ":"
    <3>1. s = Read(b + 3, 0)
      BY <2>2, <2>3, <2>4, PartIs
    <3>2. s.at # NullPtr /\ s.at = b + 3 /\ s.val = 0
      BY <1>1, <1>4, <3>1 DEF NullPtr
    <3>3. r = Read(b + 3, w * ((t[b].n * 60 + t[b + 2].n) * 60 + 0))
      BY <1>2, <2>1, <2>3, <3>2
    <3>4. EndsAt(t, b, b + 3, hi) /\ b + 3 \in p + 1..Len(t) + 1
      BY <1>1, <1>8, <2>2, <2>4 DEF EndsAt, PartsAt
    <3>5. \A x \in p..Len(t) + 1 : EndsAt(t, b, x, hi) => x = b + 3
      BY <1>1, <1>8, <2>4 DEF EndsAt, PartsAt
    <3>6. b + 3 >= b + 3 /\ ~(b + 3 >= b + 5)
      BY <1>1
    <3> DEFINE q == b + 3
    <3>7. r = Read(q, w * ((t[b].n * 60 + (IF q >= b + 3 THEN t[b + 2].n ELSE 0)) * 60
                             + (IF q >= b + 5 THEN t[b + 4].n ELSE 0)))
      BY <3>3, <3>6
    <3> HIDE DEF q
    <3>8. EndsAt(t, b, q, hi) /\ q \in p + 1..Len(t) + 1 /\ \A x \in p..Len(t) + 1 : EndsAt(t, b, x, hi) => x = q
      BY <3>4, <3>5 DEF q
    <3>9. r = Read(q, Worked(t, p, b, q, sign))
      BY <3>7, Zenon DEF Worked, w
    <3> QED
      BY <3>8, <3>9 DEF b, r
  <2>5. CASE At(t, b + 3) = ":" /\ ~IntAt(t, b + 4, 59)
    <3>1. s = Fails
      BY <2>2, <2>3, <2>5, PartIs
    <3>2. r = Fails
      BY <1>2, <3>1, PartOfNothing
    <3>3. \A q \in p..Len(t) + 1 : ~EndsAt(t, b, q, hi)
      BY <1>1, <1>8, <2>5 DEF EndsAt, PartsAt
    <3> QED
      BY <3>2, <3>3 DEF b, r
  <2>6. CASE At(t, b + 3) = ":" /\ IntAt(t, b + 4, 59)
    <3>1. s = Read(b + 5, t[b + 4].n) /\ b + 5 \in 1..Len(t) + 1
      BY <2>2, <2>3, <2>6, PartIs
    <3>2. s.at # NullPtr /\ s.at = b + 5 /\ s.val = t[b + 4].n
      BY <1>1, <1>4, <3>1 DEF NullPtr
    <3>3. r = Read(b + 5, w * ((t[b].n * 60 + t[b + 2].n) * 60 + t[b + 4].n))
      BY <1>2, <2>1, <2>3, <3>2
    <3>4. EndsAt(t, b, b + 5, hi) /\ b + 5 \in p + 1..Len(t) + 1
      BY <1>1, <1>8, <2>6, <3>1 DEF EndsAt, PartsAt
    <3>5. \A x \in p..Len(t) + 1 : EndsAt(t, b, x, hi) => x = b + 5
      BY <1>1, <1>8, <2>6 DEF EndsAt, PartsAt
    <3>6. b + 5 >= b + 3 /\ b + 5 >= b + 5
      BY <1>1
    <3> DEFINE q == b + 5
    <3>7. r = Read(q, w * ((t[b].n * 60 + (IF q >= b + 3 THEN t[b + 2].n ELSE 0)) * 60
                             + (IF q >= b + 5 THEN t[b + 4].n ELSE 0)))
      BY <3>3, <3>6
    <3> HIDE DEF q
    <3>8. EndsAt(t, b, q, hi) /\ q \in p + 1..Len(t) + 1 /\ \A x \in p..Len(t) + 1 : EndsAt(t, b, x, hi) => x = q
      BY <3>4, <3>5 DEF q
    <3>9. r = Read(q, Worked(t, p, b, q, sign))
      BY <3>7, Zenon DEF Worked, w
    <3> QED
      BY <3>8, <3>9 DEF b, r
  <2> QED
    BY <2>4, <2>5, <2>6
<1> QED
  BY <1>5, <1>6, <1>7, <1>8

\* The piece is an offset, and a colon after it is not its own.
OffsetPiece(t, p, q, hi) ==
  IsOffset(Piece(t, p, q), 0..hi) /\ (At(t, q) = ":" => Len(Digits(Piece(t, p, q))) = 5)

\* That is, the piece is an offset of the parser.
LEMMA OffsetPieceIs ==
  ASSUME NEW t \in Seq(Token), NEW p \in 1..Len(t) + 1, NEW q \in p..Len(t) + 1, NEW hi
  PROVE  OffsetPiece(t, p, q, hi) <=> EndsAt(t, Base(t, p), q, hi)
<1>1. /\ IsOffset(Piece(t, p, q), 0..hi) <=> PartsAt(t, Base(t, p), q, hi)
      /\ IsOffset(Piece(t, p, q), 0..hi) => Base(t, p) \in p..q /\ Len(Digits(Piece(t, p, q))) = q - Base(t, p)
  BY OffsetIs
<1>2. PICK b : b = Base(t, p)
  OBVIOUS
<1>3. b \in p..q => (q - b = 5 <=> q = b + 5)
  OBVIOUS
<1> QED
  BY <1>1, <1>2, <1>3, Zenon DEF OffsetPiece, EndsAt

\* What the digits of an offset and its sign say is the number that ParseOffset works out.
LEMMA OffsetCounts ==
  ASSUME NEW t \in Seq(Token), NEW p \in 1..Len(t) + 1, NEW q \in p..Len(t) + 1, NEW hi \in Nat, NEW sign \in {-1, 1},
         OffsetPiece(t, p, q, hi)
  PROVE  /\ Worked(t, p, Base(t, p), q, sign) = sign * Seconds(Piece(t, p, q))
         /\ Seconds(Piece(t, p, q)) \in Int
<1> DEFINE b == Base(t, p)
           h == t[b].n
           m == IF q >= b + 3 THEN t[b + 2].n ELSE 0
           s == IF q >= b + 5 THEN t[b + 4].n ELSE 0
<1>1. PartsAt(t, b, q, hi) /\ b \in p..q /\ Seconds(Piece(t, p, q)) = (IF At(t, p) = "-" THEN -1 ELSE 1) * Sum(t, b, q)
  BY OffsetIs DEF OffsetPiece
<1> HIDE DEF b
<1>2. h \in Int /\ m \in Int /\ s \in Int
  <2>1. b \in Int /\ q \in Int
    BY <1>1
  <2>2. /\ t[b].n \in 0..hi
        /\ q >= b + 3 => t[b + 2].n \in 0..59
        /\ q >= b + 5 => t[b + 4].n \in 0..59
    BY <1>1, <2>1 DEF PartsAt, IntAt
  <2>3. h \in Int
    BY <2>2
  <2>4. m \in Int
    <3>1. CASE q >= b + 3
      <4>1. t[b + 2].n \in 0..59
        BY <2>2, <3>1
      <4>2. t[b + 2].n \in Int
        <5>1. \A i \in 0..59 : i \in Int
          OBVIOUS
        <5> QED
          BY <4>1, <5>1, Zenon
      <4>3. m = t[b + 2].n
        BY <3>1
      <4> QED
        BY <4>2, <4>3
    <3>2. CASE ~(q >= b + 3)
      BY <3>2
    <3> QED
      BY <3>1, <3>2
  <2>5. s \in Int
    <3>1. CASE q >= b + 5
      <4>1. t[b + 4].n \in 0..59
        BY <2>2, <3>1
      <4>2. t[b + 4].n \in Int
        <5>1. \A i \in 0..59 : i \in Int
          OBVIOUS
        <5> QED
          BY <4>1, <5>1, Zenon
      <4>3. s = t[b + 4].n
        BY <3>1
      <4> QED
        BY <4>2, <4>3
    <3>2. CASE ~(q >= b + 5)
      BY <3>2
    <3> QED
      BY <3>1, <3>2
  <2> QED
    BY <2>3, <2>4, <2>5
<1>3. Sum(t, b, q) = 3600 * h + 60 * m + s
  BY DEF Sum
<1> HIDE DEF h, m, s
<1>4. ASSUME NEW x \in Int, NEW y \in Int, NEW z \in Int
      PROVE  /\ (x * 60 + y) * 60 + z = 3600 * x + 60 * y + z
             /\ 3600 * x + 60 * y + z \in Int
  BY SMT
<1>5. (h * 60 + m) * 60 + s = Sum(t, b, q) /\ Sum(t, b, q) \in Int
  BY <1>2, <1>3, <1>4
<1>6. PICK n \in Int : n = Sum(t, b, q)
  BY <1>5
<1>7. ASSUME NEW w \in {-1, 1} PROVE (-w) * n = w * ((-1) * n) /\ w * n = w * (1 * n)
  <2>1. w = -1 \/ w = 1
    OBVIOUS
  <2> QED
    BY <2>1
<1>8. (-sign) * n = sign * ((-1) * n) /\ sign * n = sign * (1 * n)
  BY <1>7
<1>9. (IF At(t, p) = "-" THEN -sign ELSE sign) * n = sign * ((IF At(t, p) = "-" THEN -1 ELSE 1) * n)
  <2>1. CASE At(t, p) = "-"
    BY <1>8, <2>1
  <2>2. CASE At(t, p) # "-"
    BY <1>8, <2>2
  <2> QED
    BY <2>1, <2>2
<1>10. (IF At(t, p) = "-" THEN -sign ELSE sign) * ((h * 60 + m) * 60 + s) = sign * Seconds(Piece(t, p, q))
  BY <1>1, <1>5, <1>6, <1>9, Zenon
<1>11. Seconds(Piece(t, p, q)) \in Int
  <2>1. Seconds(Piece(t, p, q)) = (IF At(t, p) = "-" THEN -1 ELSE 1) * n
    BY <1>1, <1>6
  <2> QED
    BY <2>1
<1> QED
  BY <1>10, <1>11, Zenon DEF Worked, b, h, m, s

\* The parser reads an offset of the grammar.
LEMMA OffsetWritten ==
  ASSUME NEW t \in Seq(Token), NEW p \in 1..Len(t) + 1, NEW q \in p..Len(t) + 1,
         NEW lo \in Int, lo <= 0, NEW hi \in Nat, NEW sign \in {-1, 1}, OffsetPiece(t, p, q, hi)
  PROVE  ParseOffset(t, p, lo, hi, sign) = Read(q, sign * Seconds(Piece(t, p, q))) /\ p < q
<1> DEFINE b == Base(t, p)
           r == ParseOffset(t, p, lo, hi, sign)
           v(z) == Worked(t, p, b, z, sign)
<1>1. EndsAt(t, b, q, hi)
  BY OffsetPieceIs
<1>2. \/ r = Fails /\ \A z \in p..Len(t) + 1 : ~EndsAt(t, b, z, hi)
      \/ \E z \in p + 1..Len(t) + 1 :
           /\ EndsAt(t, b, z, hi)
           /\ \A x \in p..Len(t) + 1 : EndsAt(t, b, x, hi) => x = z
           /\ r = Read(z, v(z))
  BY OffsetExact
<1>3. v(q) = sign * Seconds(Piece(t, p, q))
  BY OffsetCounts, Zenon
<1> HIDE DEF b, r, v
<1>4. PICK z \in p + 1..Len(t) + 1 : r = Read(z, v(z)) /\ q = z
  BY <1>1, <1>2
<1>5. p < q
  BY <1>4
<1> QED
  BY <1>3, <1>4, <1>5 DEF r

\* What the parser takes for an offset is one of the grammar, and no colon is left after it.
LEMMA OffsetTaken ==
  ASSUME NEW t \in Seq(Token), NEW p \in 1..Len(t) + 1, NEW lo \in Int, lo <= 0, NEW hi \in Nat, NEW sign \in {-1, 1},
         ParseOffset(t, p, lo, hi, sign).at # NullPtr
  PROVE  \E q \in p + 1..Len(t) + 1 :
           /\ OffsetPiece(t, p, q, hi)
           /\ ParseOffset(t, p, lo, hi, sign) = Read(q, sign * Seconds(Piece(t, p, q)))
<1> DEFINE b == Base(t, p)
           r == ParseOffset(t, p, lo, hi, sign)
           v(z) == Worked(t, p, b, z, sign)
<1>1. \/ r = Fails /\ \A z \in p..Len(t) + 1 : ~EndsAt(t, b, z, hi)
      \/ \E z \in p + 1..Len(t) + 1 :
           /\ EndsAt(t, b, z, hi)
           /\ \A x \in p..Len(t) + 1 : EndsAt(t, b, x, hi) => x = z
           /\ r = Read(z, v(z))
  BY OffsetExact
<1>2. r # Fails
  BY DEF Fails, Read
<1> HIDE DEF r
<1>3. PICK q \in p + 1..Len(t) + 1 : EndsAt(t, b, q, hi) /\ r = Read(q, v(q))
  BY <1>1, <1>2
<1>4. q \in p..Len(t) + 1
  BY <1>3
<1>5. OffsetPiece(t, p, q, hi)
  BY <1>3, <1>4, OffsetPieceIs
<1>6. v(q) = sign * Seconds(Piece(t, p, q))
  BY <1>4, <1>5, OffsetCounts, Zenon
<1> HIDE DEF v
<1>7. r = Read(q, sign * Seconds(Piece(t, p, q)))
  BY <1>3, <1>6
<1> QED
  BY <1>3, <1>5, <1>7 DEF r

\* A date, by position.
IntFrom(t, k, lo, hi) == At(t, k) = "int" /\ t[k].n \in lo..hi
DateAt(t, p, q) ==
  \/ q = p + 2 /\ At(t, p) = "J" /\ IntFrom(t, p + 1, 1, 365)
  \/ q = p + 1 /\ IntFrom(t, p, 0, 365)
  \/ /\ q = p + 6 /\ At(t, p) = "M" /\ IntFrom(t, p + 1, 1, 12) /\ At(t, p + 2) = "."
     /\ IntFrom(t, p + 3, 1, 5) /\ At(t, p + 4) = "." /\ IntFrom(t, p + 5, 0, 6)
DateFrom(t, p) ==
  CASE At(t, p) = "J" -> Date("J", t[p + 1].n, 0, 0, 0)
    [] At(t, p) = "int" -> Date("N", t[p].n, 0, 0, 0)
    [] At(t, p) = "M" -> Date("M", 0, t[p + 1].n, t[p + 3].n, t[p + 5].n)

\* A piece is a date when its positions are, and means what they say.
LEMMA DateIs ==
  ASSUME NEW t \in Seq(Token), NEW p \in 1..Len(t) + 1, NEW q \in p..Len(t) + 1
  PROVE  /\ IsDate(Piece(t, p, q)) <=> DateAt(t, p, q)
         /\ DateAt(t, p, q) => DateOf(Piece(t, p, q)) = DateFrom(t, p)
<1> DEFINE d == Piece(t, p, q)
<1>1. d \in Seq(Token) /\ Len(d) = q - p /\ \A i \in 1..q - p : d[i] = t[p + i - 1]
  BY PieceIs
<1> HIDE DEF d
<1>2. ASSUME NEW i \in 1..q - p PROVE d[i] = t[p + i - 1] /\ d[i].c = At(t, p + i - 1)
  <2>1. ~(p + i - 1 > Len(t))
    OBVIOUS
  <2> QED
    BY <1>1, <2>1 DEF At
<1>3. q = p + 1 => d[1] = t[p] /\ d[1].c = At(t, p)
  <2> SUFFICES ASSUME q = p + 1 PROVE d[1] = t[p] /\ d[1].c = At(t, p)
    OBVIOUS
  <2>1. 1 \in 1..q - p /\ p + 1 - 1 = p
    OBVIOUS
  <2> QED
    BY <1>2, <2>1
<1>4. q = p + 2 => d[1] = t[p] /\ d[1].c = At(t, p) /\ d[2] = t[p + 1] /\ d[2].c = At(t, p + 1)
  <2> SUFFICES ASSUME q = p + 2 PROVE d[1] = t[p] /\ d[1].c = At(t, p) /\ d[2] = t[p + 1] /\ d[2].c = At(t, p + 1)
    OBVIOUS
  <2>1. 1 \in 1..q - p /\ p + 1 - 1 = p /\ 2 \in 1..q - p /\ p + 2 - 1 = p + 1
    OBVIOUS
  <2> QED
    BY <1>2, <2>1
<1>5. q = p + 6 => /\ d[1] = t[p] /\ d[1].c = At(t, p) /\ d[2] = t[p + 1] /\ d[2].c = At(t, p + 1)
                   /\ d[3].c = At(t, p + 2) /\ d[4] = t[p + 3] /\ d[4].c = At(t, p + 3)
                   /\ d[5].c = At(t, p + 4) /\ d[6] = t[p + 5] /\ d[6].c = At(t, p + 5)
  <2> SUFFICES ASSUME q = p + 6
               PROVE  /\ d[1] = t[p] /\ d[1].c = At(t, p) /\ d[2] = t[p + 1] /\ d[2].c = At(t, p + 1)
                      /\ d[3].c = At(t, p + 2) /\ d[4] = t[p + 3] /\ d[4].c = At(t, p + 3)
                      /\ d[5].c = At(t, p + 4) /\ d[6] = t[p + 5] /\ d[6].c = At(t, p + 5)
    OBVIOUS
  <2>1. /\ 1 \in 1..q - p /\ p + 1 - 1 = p /\ 2 \in 1..q - p /\ p + 2 - 1 = p + 1
        /\ 3 \in 1..q - p /\ p + 3 - 1 = p + 2 /\ 4 \in 1..q - p /\ p + 4 - 1 = p + 3
        /\ 5 \in 1..q - p /\ p + 5 - 1 = p + 4 /\ 6 \in 1..q - p /\ p + 6 - 1 = p + 5
    OBVIOUS
  <2> QED
    BY <1>2, <2>1
<1>6. /\ Len(d) = 1 <=> q = p + 1
      /\ Len(d) = 2 <=> q = p + 2
      /\ Len(d) = 6 <=> q = p + 6
  BY <1>1
<1>7. Shape(d) = <<"int">> /\ d[1].n \in 0..365 <=> q = p + 1 /\ IntFrom(t, p, 0, 365)
  <2>1. Shape(d) = <<"int">> <=> Len(d) = 1 /\ d[1].c = "int"
    BY <1>1, ShapesAre
  <2>2. CASE q = p + 1
    BY <1>3, <1>6, <2>1, <2>2 DEF IntFrom
  <2>3. CASE q # p + 1
    BY <1>6, <2>1, <2>3
  <2> QED
    BY <2>2, <2>3
<1>8. Shape(d) = <<"J", "int">> /\ d[2].n \in 1..365 <=> q = p + 2 /\ At(t, p) = "J" /\ IntFrom(t, p + 1, 1, 365)
  <2>1. Shape(d) = <<"J", "int">> <=> Len(d) = 2 /\ d[1].c = "J" /\ d[2].c = "int"
    BY <1>1, ShapesAre
  <2>2. CASE q = p + 2
    BY <1>4, <1>6, <2>1, <2>2 DEF IntFrom
  <2>3. CASE q # p + 2
    BY <1>6, <2>1, <2>3
  <2> QED
    BY <2>2, <2>3
<1>9. Shape(d) = <<"M", "int", ".", "int", ".", "int">> /\ d[2].n \in 1..12 /\ d[4].n \in 1..5 /\ d[6].n \in 0..6
      <=> /\ q = p + 6 /\ At(t, p) = "M" /\ IntFrom(t, p + 1, 1, 12) /\ At(t, p + 2) = "."
          /\ IntFrom(t, p + 3, 1, 5) /\ At(t, p + 4) = "." /\ IntFrom(t, p + 5, 0, 6)
  <2>1. Shape(d) = <<"M", "int", ".", "int", ".", "int">> <=>
              /\ Len(d) = 6 /\ d[1].c = "M" /\ d[2].c = "int" /\ d[3].c = "." /\ d[4].c = "int"
              /\ d[5].c = "." /\ d[6].c = "int"
    BY <1>1, ShapesAre
  <2>2. CASE q = p + 6
    BY <1>5, <1>6, <2>1, <2>2 DEF IntFrom
  <2>3. CASE q # p + 6
    BY <1>6, <2>1, <2>3
  <2> QED
    BY <2>2, <2>3
<1>10. IsDate(d) <=> DateAt(t, p, q)
  BY <1>7, <1>8, <1>9, Zenon DEF IsDate, DateAt
<1>11. CASE q = p + 1 /\ IntFrom(t, p, 0, 365)
  <2>1. At(t, p) = "int" /\ d[1].c = "int" /\ d[1] = t[p]
    BY <1>3, <1>11 DEF IntFrom
  <2>2. DateOf(d) = DateFrom(t, p)
    BY <2>1 DEF DateOf, DateFrom
  <2> QED
    BY <1>10, <2>2 DEF d
<1>12. CASE q = p + 2 /\ At(t, p) = "J" /\ IntFrom(t, p + 1, 1, 365)
  <2>1. d[1].c = "J" /\ d[2] = t[p + 1]
    BY <1>4, <1>12
  <2>2. DateOf(d) = DateFrom(t, p)
    BY <1>12, <2>1 DEF DateOf, DateFrom
  <2> QED
    BY <1>10, <2>2 DEF d
<1>13. CASE /\ q = p + 6 /\ At(t, p) = "M" /\ IntFrom(t, p + 1, 1, 12) /\ At(t, p + 2) = "."
            /\ IntFrom(t, p + 3, 1, 5) /\ At(t, p + 4) = "." /\ IntFrom(t, p + 5, 0, 6)
  <2>1. d[1].c = "M" /\ d[2] = t[p + 1] /\ d[4] = t[p + 3] /\ d[6] = t[p + 5]
    BY <1>5, <1>13
  <2>2. DateOf(d) = DateFrom(t, p)
    BY <1>13, <2>1 DEF DateOf, DateFrom
  <2> QED
    BY <1>10, <2>2 DEF d
<1>14. CASE ~DateAt(t, p, q)
  BY <1>10, <1>14 DEF d
<1> QED
  BY <1>11, <1>12, <1>13, <1>14 DEF DateAt

\* ParseInt by position.
LEMMA IntFromIs ==
  ASSUME NEW t \in Seq(Token), NEW k \in Nat \ {0}, NEW lo, NEW hi
  PROVE  /\ IntFrom(t, k, lo, hi) => ParseInt(t, k, lo, hi) = Read(k + 1, t[k].n) /\ k + 1 \in 1..Len(t) + 1
         /\ ~IntFrom(t, k, lo, hi) => ParseInt(t, k, lo, hi) = Fails
<1>1. At(t, k) = "int" => k <= Len(t)
  BY DEF At
<1> QED
  BY <1>1 DEF IntFrom, ParseInt

\* What ParseInt takes is a number in the range, and it goes past it.
LEMMA IntTaken ==
  ASSUME NEW t \in Seq(Token), NEW k \in Nat \ {0}, NEW lo, NEW hi, NEW r,
         r = ParseInt(t, k, lo, hi), r.at # NullPtr
  PROVE  IntFrom(t, k, lo, hi) /\ r.at = k + 1 /\ k + 1 \in 1..Len(t) + 1
<1>1. Fails.at = NullPtr /\ Read(k + 1, t[k].n).at = k + 1
  BY DEF Fails, Read
<1>2. IntFrom(t, k, lo, hi)
  BY <1>1, IntFromIs
<1>3. r = Read(k + 1, t[k].n) /\ k + 1 \in 1..Len(t) + 1
  BY <1>2, IntFromIs
<1> QED
  BY <1>1, <1>2, <1>3

\* The parser reads a date of the grammar.
LEMMA DateWritten ==
  ASSUME NEW t \in Seq(Token), NEW p \in 1..Len(t) + 1, NEW q \in p..Len(t) + 1, IsDate(Piece(t, p, q))
  PROVE  ParseDate(t, p) = Read(q, DateOf(Piece(t, p, q))) /\ p < q /\ DateOf(Piece(t, p, q)) # Unset
<1>1. DateAt(t, p, q) /\ DateOf(Piece(t, p, q)) = DateFrom(t, p)
  BY DateIs
<1>2. \A x, v : Read(x, v).at = x /\ Read(x, v).val = v
  BY DEF Read
<1>3. \A g, a, b, c, e : Date(g, a, b, c, e).fmt = g
  BY DEF Date
<1>4. Unset.fmt = "unset"
  BY <1>3 DEF Unset
<1>5. CASE q = p + 2 /\ At(t, p) = "J" /\ IntFrom(t, p + 1, 1, 365)
  <2>1. ParseInt(t, p + 1, 1, 365) = Read((p + 1) + 1, t[p + 1].n)
    BY <1>5, IntFromIs
  <2>2. (p + 1) + 1 = q
    BY <1>5
  <2>3. ParseDate(t, p) = Read(q, Date("J", t[p + 1].n, 0, 0, 0))
    BY <1>2, <1>5, <2>1, <2>2 DEF ParseDate
  <2>4. DateFrom(t, p) = Date("J", t[p + 1].n, 0, 0, 0)
    BY <1>5 DEF DateFrom
  <2>5. DateFrom(t, p) # Unset
    BY <1>3, <1>4, <2>4
  <2> QED
    BY <1>1, <1>5, <2>3, <2>4, <2>5
<1>6. CASE q = p + 1 /\ IntFrom(t, p, 0, 365)
  <2>1. ParseInt(t, p, 0, 365) = Read(p + 1, t[p].n)
    BY <1>6, IntFromIs
  <2>2. At(t, p) = "int"
    BY <1>6 DEF IntFrom
  <2>3. ParseDate(t, p) = Read(q, Date("N", t[p].n, 0, 0, 0))
    BY <1>2, <1>6, <2>1, <2>2 DEF ParseDate
  <2>4. DateFrom(t, p) = Date("N", t[p].n, 0, 0, 0)
    BY <2>2 DEF DateFrom
  <2>5. DateFrom(t, p) # Unset
    BY <1>3, <1>4, <2>4
  <2> QED
    BY <1>1, <1>6, <2>3, <2>4, <2>5
<1>7. CASE /\ q = p + 6 /\ At(t, p) = "M" /\ IntFrom(t, p + 1, 1, 12) /\ At(t, p + 2) = "."
           /\ IntFrom(t, p + 3, 1, 5) /\ At(t, p + 4) = "." /\ IntFrom(t, p + 5, 0, 6)
  <2>1. ParseInt(t, p + 1, 1, 12) = Read(p + 2, t[p + 1].n)
    <3>1. (p + 1) + 1 = p + 2 /\ p + 1 \in Nat \ {0}
      OBVIOUS
    <3> QED
      BY <1>7, <3>1, IntFromIs
  <2>2. ParseInt(t, p + 3, 1, 5) = Read(p + 4, t[p + 3].n)
    <3>1. (p + 3) + 1 = p + 4 /\ p + 3 \in Nat \ {0}
      OBVIOUS
    <3> QED
      BY <1>7, <3>1, IntFromIs
  <2>3. ParseInt(t, p + 5, 0, 6) = Read(q, t[p + 5].n)
    <3>1. (p + 5) + 1 = q /\ p + 5 \in Nat \ {0}
      BY <1>7
    <3> QED
      BY <1>7, <3>1, IntFromIs
  <2>4. p + 2 # NullPtr /\ p + 4 # NullPtr /\ (p + 2) + 1 = p + 3 /\ (p + 4) + 1 = p + 5
    BY DEF NullPtr
  <2>5. ParseMonth(t, p + 1) = Read(q, Date("M", 0, t[p + 1].n, t[p + 3].n, t[p + 5].n))
    <3> DEFINE month == ParseInt(t, p + 1, 1, 12)
               week == ParseInt(t, month.at + 1, 1, 5)
               weekday == ParseInt(t, week.at + 1, 0, 6)
    <3>1. month.at = p + 2 /\ month.val = t[p + 1].n
      BY <1>2, <2>1
    <3>2. week = ParseInt(t, p + 3, 1, 5)
      BY <2>4, <3>1
    <3>3. week.at = p + 4 /\ week.val = t[p + 3].n
      BY <1>2, <2>2, <3>2
    <3>4. weekday = ParseInt(t, p + 5, 0, 6)
      BY <2>4, <3>3
    <3>5. weekday.at = q /\ weekday.val = t[p + 5].n
      BY <1>2, <2>3, <3>4
    <3>6. ~(month.at = NullPtr \/ At(t, month.at) # ".") /\ ~(week.at = NullPtr \/ At(t, week.at) # ".")
      BY <1>7, <2>4, <3>1, <3>3
    <3>7. ParseMonth(t, p + 1) = Read(weekday.at, Date("M", 0, month.val, week.val, weekday.val))
      BY <3>6 DEF ParseMonth
    <3> HIDE DEF month, week, weekday
    <3> QED
      BY <3>1, <3>3, <3>5, <3>7
  <2>6. ParseDate(t, p) = ParseMonth(t, p + 1)
    BY <1>7 DEF ParseDate
  <2>7. DateFrom(t, p) = Date("M", 0, t[p + 1].n, t[p + 3].n, t[p + 5].n)
    BY <1>7 DEF DateFrom
  <2>8. DateFrom(t, p) # Unset
    BY <1>3, <1>4, <2>7
  <2> QED
    BY <1>1, <1>7, <2>5, <2>6, <2>7, <2>8
<1> QED
  BY <1>1, <1>5, <1>6, <1>7 DEF DateAt

\* What the parser takes for a date is one of the grammar, or it sets none.
LEMMA DateRead ==
  ASSUME NEW t \in Seq(Token), NEW p \in 1..Len(t) + 1,
         ParseDate(t, p).at # NullPtr, ParseDate(t, p).val # Unset
  PROVE  \E q \in p + 1..Len(t) + 1 : IsDate(Piece(t, p, q)) /\ ParseDate(t, p) = Read(q, DateOf(Piece(t, p, q)))
<1>1. \A x, v : Read(x, v).at = x /\ Read(x, v).val = v
  BY DEF Read
<1>2. ASSUME NEW q \in p + 1..Len(t) + 1, DateAt(t, p, q)
      PROVE  \E z \in p + 1..Len(t) + 1 : IsDate(Piece(t, p, z)) /\ ParseDate(t, p) = Read(z, DateOf(Piece(t, p, z)))
  <2>1. q \in p..Len(t) + 1
    OBVIOUS
  <2>2. IsDate(Piece(t, p, q))
    BY <1>2, <2>1, DateIs
  <2>3. ParseDate(t, p) = Read(q, DateOf(Piece(t, p, q)))
    BY <2>1, <2>2, DateWritten
  <2> QED
    BY <2>2, <2>3
<1>3. CASE At(t, p) = "J"
  <2>1. ParseDate(t, p) = Read(ParseInt(t, p + 1, 1, 365).at, Date("J", ParseInt(t, p + 1, 1, 365).val, 0, 0, 0))
    BY <1>3 DEF ParseDate
  <2>2. ParseInt(t, p + 1, 1, 365).at # NullPtr
    BY <1>1, <2>1
  <2>3. IntFrom(t, p + 1, 1, 365) /\ (p + 1) + 1 \in 1..Len(t) + 1
    <3>1. p + 1 \in Nat \ {0}
      OBVIOUS
    <3> QED
      BY <2>2, <3>1, IntTaken
  <2>4. p + 2 \in p + 1..Len(t) + 1
    BY <2>3
  <2>5. DateAt(t, p, p + 2)
    BY <1>3, <2>3 DEF DateAt
  <2> QED
    BY <1>2, <2>4, <2>5
<1>4. CASE At(t, p) # "J" /\ At(t, p) # "M"
  <2>1. ParseDate(t, p) = Read(ParseInt(t, p, 0, 365).at, Date("N", ParseInt(t, p, 0, 365).val, 0, 0, 0))
    BY <1>4 DEF ParseDate
  <2>2. ParseInt(t, p, 0, 365).at # NullPtr
    BY <1>1, <2>1
  <2>3. IntFrom(t, p, 0, 365) /\ p + 1 \in 1..Len(t) + 1
    <3>1. p \in Nat \ {0}
      OBVIOUS
    <3> QED
      BY <2>2, <3>1, IntTaken
  <2>4. p + 1 \in p + 1..Len(t) + 1
    BY <2>3
  <2>5. DateAt(t, p, p + 1)
    BY <2>3 DEF DateAt
  <2> QED
    BY <1>2, <2>4, <2>5
<1>5. CASE At(t, p) = "M"
  <2> DEFINE month == ParseInt(t, p + 1, 1, 12)
             week == ParseInt(t, month.at + 1, 1, 5)
             weekday == ParseInt(t, week.at + 1, 0, 6)
  <2>1. ParseDate(t, p) = ParseMonth(t, p + 1)
    BY <1>5 DEF ParseDate
  <2>2. ~(month.at = NullPtr \/ At(t, month.at) # ".")
    <3>1. ASSUME month.at = NullPtr \/ At(t, month.at) # "." PROVE ParseMonth(t, p + 1) = Read(month.at, Unset)
      BY <3>1 DEF ParseMonth
    <3> QED
      BY <1>1, <2>1, <3>1
  <2>3. ~(week.at = NullPtr \/ At(t, week.at) # ".")
    <3>1. ASSUME week.at = NullPtr \/ At(t, week.at) # "." PROVE ParseMonth(t, p + 1) = Read(week.at, Unset)
      BY <2>2, <3>1 DEF ParseMonth
    <3> QED
      BY <1>1, <2>1, <3>1
  <2>4. ParseMonth(t, p + 1) = Read(weekday.at, Date("M", 0, month.val, week.val, weekday.val))
    BY <2>2, <2>3 DEF ParseMonth
  <2>5. weekday.at # NullPtr
    BY <1>1, <2>1, <2>4
  <2>6. IntFrom(t, p + 1, 1, 12) /\ month.at = p + 2
    <3>1. p + 1 \in Nat \ {0} /\ month.at # NullPtr
      BY <2>2
    <3>2. IntFrom(t, p + 1, 1, 12) /\ month.at = (p + 1) + 1
      BY <3>1, IntTaken
    <3> QED
      BY <3>2
  <2> HIDE DEF month
  <2>7. IntFrom(t, p + 3, 1, 5) /\ week.at = p + 4
    <3>1. week = ParseInt(t, p + 3, 1, 5)
      <4>1. month.at + 1 = p + 3
        BY <2>6
      <4> QED
        BY <4>1
    <3> HIDE DEF week
    <3>2. p + 3 \in Nat \ {0} /\ week.at # NullPtr
      BY <2>3
    <3>3. IntFrom(t, p + 3, 1, 5) /\ week.at = (p + 3) + 1
      BY <3>1, <3>2, IntTaken
    <3> QED
      BY <3>3
  <2> HIDE DEF week
  <2>8. IntFrom(t, p + 5, 0, 6) /\ p + 6 \in 1..Len(t) + 1
    <3>1. weekday = ParseInt(t, p + 5, 0, 6)
      <4>1. week.at + 1 = p + 5
        BY <2>7
      <4> QED
        BY <4>1
    <3> HIDE DEF weekday
    <3>2. p + 5 \in Nat \ {0} /\ weekday.at # NullPtr
      BY <2>5
    <3>3. IntFrom(t, p + 5, 0, 6) /\ (p + 5) + 1 \in 1..Len(t) + 1
      BY <3>1, <3>2, IntTaken
    <3> QED
      BY <3>3
  <2>9. DateAt(t, p, p + 6)
    BY <1>5, <2>2, <2>3, <2>6, <2>7, <2>8 DEF DateAt
  <2>10. p + 6 \in p + 1..Len(t) + 1
    BY <2>8
  <2> QED
    BY <1>2, <2>9, <2>10
<1> QED
  BY <1>3, <1>4, <1>5

\* What a date alone means, and one with a time.
Untimed(u, z) == IsDate(u) /\ z = [date |-> DateOf(u), time |-> 7200]
WithTime(u, v, z) == IsDate(u) /\ IsOffset(v, 0..167) /\ z = [date |-> DateOf(u), time |-> Seconds(v)]

\* The first meaning in DateTimes.
LEMMA UntimedIs ==
  ASSUME NEW u, NEW z
  PROVE  z \in (IF IsDate(u) THEN {[date |-> DateOf(u), time |-> 7200]} ELSE {}) <=> Untimed(u, z)
BY DEF Untimed

\* A date and time of the grammar, by position.
DateTimeAt(t, p, q, z) ==
  /\ p < q /\ Comma(t, p)
  /\ \/ Untimed(Piece(t, p + 1, q), z)
     \/ \E k \in p + 1..q - 1 : At(t, k) = "/" /\ WithTime(Piece(t, p + 1, k), Piece(t, k + 1, q), z)

\* The meanings of a piece are those by position.
LEMMA DateTimesAre ==
  ASSUME NEW t \in Seq(Token), NEW p \in 1..Len(t) + 1, NEW q \in p..Len(t) + 1, NEW z
  PROVE  z \in DateTimes(Piece(t, p, q)) <=> DateTimeAt(t, p, q, z)
<1> DEFINE s == Piece(t, p, q)
<1>1. s \in Seq(Token) /\ Len(s) = q - p /\ \A i \in 1..q - p : s[i] = t[p + i - 1]
  BY PieceIs
<1>2. CASE p = q
  <2>1. s = <<>>
    BY <1>1, <1>2
  <2> QED
    <3>1. DateTimes(s) = {}
      BY <2>1, Zenon DEF DateTimes
    <3>2. ~(p < q)
      BY <1>2
    <3> HIDE DEF s
    <3>3. z \notin DateTimes(s) /\ ~DateTimeAt(t, p, q, z)
      BY <3>1, <3>2, Zenon DEF DateTimeAt
    <3> QED
      BY <3>3 DEF s
<1>3. CASE p < q
  <2>1. s # <<>> /\ Tail(s) = Piece(t, p + 1, q)
    <3>1. p \in 1..Len(t) /\ q \in p + 1..Len(t) + 1
      BY <1>3
    <3> QED
      BY <3>1, PieceTail
  <2>2. ASSUME NEW i \in 1..q - p PROVE s[i].c = At(t, p + i - 1)
    <3>1. ~(p + i - 1 > Len(t))
      OBVIOUS
    <3> QED
      BY <1>1, <3>1 DEF At
  <2>3. s[1].c = At(t, p)
    <3>1. 1 \in 1..q - p /\ p + 1 - 1 = p
      BY <1>3
    <3> QED
      BY <2>2, <3>1
  <2>4. ASSUME NEW i \in 2..Len(s), NEW k, k = p + i - 1
        PROVE  /\ Piece(s, 2, i) = Piece(t, p + 1, k) /\ Piece(s, i + 1, Len(s) + 1) = Piece(t, k + 1, q)
               /\ s[i].c = At(t, k) /\ k \in p + 1..q - 1
    <3>1. /\ 2 \in 1..q - p + 1 /\ i \in 2..q - p + 1 /\ p + 2 - 1 = p + 1
          /\ i + 1 \in 1..q - p + 1 /\ q - p + 1 \in i + 1..q - p + 1 /\ p + (i + 1) - 1 = k + 1
          /\ p + (q - p + 1) - 1 = q /\ i \in 1..q - p /\ k \in p + 1..q - 1
      <4>1. Len(s) = q - p
        BY <1>1
      <4>2. i \in Int /\ 2 <= i /\ i <= q - p
        BY <4>1
      <4>3. p + i - 1 \in p + 1..q - 1 /\ p + (i + 1) - 1 = (p + i - 1) + 1
        BY <4>2
      <4> QED
        BY <2>4, <4>2, <4>3
    <3>2. Piece(s, 2, i) = Piece(t, p + 2 - 1, p + i - 1)
      BY <3>1, PiecePiece
    <3>3. Piece(s, i + 1, q - p + 1) = Piece(t, p + (i + 1) - 1, p + (q - p + 1) - 1)
      BY <3>1, PiecePiece
    <3>4. Len(s) + 1 = q - p + 1
      BY <1>1
    <3>5. s[i].c = At(t, p + i - 1)
      BY <2>2, <3>1
    <3> QED
      BY <2>4, <3>1, <3>2, <3>3, <3>4, <3>5
  <2> HIDE DEF s
  <2> DEFINE meant(i) == IF s[i].c = "/" /\ IsDate(Piece(s, 2, i)) /\ IsOffset(Piece(s, i + 1, Len(s) + 1), 0..167)
                         THEN {[date |-> DateOf(Piece(s, 2, i)), time |-> Seconds(Piece(s, i + 1, Len(s) + 1))]}
                         ELSE {}
             at(k) == At(t, k) = "/" /\ WithTime(Piece(t, p + 1, k), Piece(t, k + 1, q), z)
  <2>5. ASSUME NEW i \in 2..Len(s), NEW k, k = p + i - 1 PROVE (z \in meant(i) <=> at(k)) /\ k \in p + 1..q - 1
    BY <2>4, <2>5 DEF WithTime
  <2> HIDE DEF meant, at
  <2>6. (\E i \in 2..Len(s) : z \in meant(i)) <=> \E k \in p + 1..q - 1 : at(k)
    <3>1. ASSUME NEW i \in 2..Len(s), z \in meant(i) PROVE \E k \in p + 1..q - 1 : at(k)
      <4>1. PICK k : k = p + i - 1
        OBVIOUS
      <4>2. at(k) /\ k \in p + 1..q - 1
        BY <2>5, <3>1, <4>1
      <4> QED
        BY <4>2
    <3>2. ASSUME NEW k \in p + 1..q - 1, at(k) PROVE \E i \in 2..Len(s) : z \in meant(i)
      <4>1. PICK i : i = k - p + 1
        OBVIOUS
      <4>2. i \in 2..Len(s) /\ k = p + i - 1
        BY <1>1, <4>1
      <4>3. z \in meant(i)
        BY <2>5, <3>2, <4>2
      <4> QED
        BY <4>2, <4>3
    <3> QED
      BY <3>1, <3>2
  <2> DEFINE date == IF IsDate(Tail(s)) THEN {[date |-> DateOf(Tail(s)), time |-> 7200]} ELSE {}
             all == UNION {meant(i) : i \in 2..Len(s)}
  <2>7. DateTimes(s) = IF s = <<>> \/ s[1].c # "," THEN {} ELSE date \cup all
    BY DEF DateTimes, meant
  <2>8. z \in date <=> Untimed(Piece(t, p + 1, q), z)
    <3>1. z \in date <=> Untimed(Tail(s), z)
      BY UntimedIs
    <3> HIDE DEF date
    <3> QED
      BY <2>1, <3>1
  <2>9. z \in all <=> \E i \in 2..Len(s) : z \in meant(i)
    OBVIOUS
  <2> HIDE DEF date, all
  <2>10. z \in DateTimes(s) <=> Comma(t, p) /\ (z \in date \/ z \in all)
    BY <2>1, <2>3, <2>7, Zenon DEF Comma
  <2>11. z \in DateTimes(s)
         <=> Comma(t, p) /\ (Untimed(Piece(t, p + 1, q), z) \/ \E k \in p + 1..q - 1 : at(k))
    BY <2>6, <2>8, <2>9, <2>10
  <2>12. z \in DateTimes(s) <=> DateTimeAt(t, p, q, z)
    BY <1>3, <2>11 DEF DateTimeAt, at
  <2> QED
    BY <2>12 DEF s
<1> QED
  BY <1>2, <1>3

\* The steps of ParseDateTime.
LEMMA DateTimeSteps ==
  ASSUME NEW t, NEW p, p # NullPtr, Comma(t, p)
  PROVE  LET d == ParseDate(t, p + 1)
             o == ParseOffset(t, d.at + 1, -167, 167, 1)
         IN  /\ d.at # NullPtr /\ At(t, d.at) = "/" =>
                  ParseDateTime(t, p) = Read(o.at, [date |-> d.val, time |-> o.val])
             /\ ~(d.at # NullPtr /\ At(t, d.at) = "/") =>
                  ParseDateTime(t, p) = Read(d.at, [date |-> d.val, time |-> DefaultTime])
<1>1. \A x, v : Read(x, v).at = x /\ Read(x, v).val = v
  BY DEF Read
<1> QED
  BY <1>1, Zenon DEF ParseDateTime, Comma

\* A comma is none of the other tokens that end a piece.
LEMMA CommaIs ==
  ASSUME NEW t, NEW p
  PROVE  Comma(t, p) => At(t, p) # "end" /\ At(t, p) # "/" /\ At(t, p) # ":"
  BY Zenon DEF Comma

\* The time of a date without one: kDefaultTransitionTime is two hours.
LEMMA TwoHours == DefaultTime = 7200
  BY SMT DEF DefaultTime

\* The parser reads a date and time of the grammar.
LEMMA DateTimeWritten ==
  ASSUME NEW t \in Seq(Token), NEW p \in 1..Len(t) + 1, NEW q \in p..Len(t) + 1,
         NEW z \in DateTimes(Piece(t, p, q)), Comma(t, q) \/ At(t, q) = "end"
  PROVE  ParseDateTime(t, p) = Read(q, z) /\ p < q /\ Comma(t, p) /\ z.date # Unset
<1> DEFINE d == ParseDate(t, p + 1)
           o == ParseOffset(t, d.at + 1, -167, 167, 1)
<1>1. DateTimeAt(t, p, q, z)
  BY DateTimesAre
<1>2. p < q /\ Comma(t, p)
  BY <1>1 DEF DateTimeAt
<1>3. \A x, v : Read(x, v).at = x /\ Read(x, v).val = v
  BY DEF Read
<1>4. p + 1 \in 1..Len(t) + 1 /\ q \in p + 1..Len(t) + 1 /\ p # NullPtr /\ q # NullPtr
  <2>1. p + 1 \in 1..Len(t) + 1 /\ q \in p + 1..Len(t) + 1
    BY <1>2
  <2>2. p # 0 /\ q # 0
    OBVIOUS
  <2> QED
    BY <2>1, <2>2 DEF NullPtr
<1>5. /\ d.at # NullPtr /\ At(t, d.at) = "/" => ParseDateTime(t, p) = Read(o.at, [date |-> d.val, time |-> o.val])
      /\ ~(d.at # NullPtr /\ At(t, d.at) = "/") =>
           ParseDateTime(t, p) = Read(d.at, [date |-> d.val, time |-> DefaultTime])
  BY <1>2, <1>4, DateTimeSteps
<1>6. CASE Untimed(Piece(t, p + 1, q), z)
  <2>1. IsDate(Piece(t, p + 1, q)) /\ z = [date |-> DateOf(Piece(t, p + 1, q)), time |-> 7200]
    BY <1>6 DEF Untimed
  <2>2. d = Read(q, DateOf(Piece(t, p + 1, q))) /\ DateOf(Piece(t, p + 1, q)) # Unset
    <3>1. PICK b \in 1..Len(t) + 1 : b = p + 1
      BY <1>4
    <3>2. q \in b..Len(t) + 1 /\ IsDate(Piece(t, b, q))
      BY <1>4, <2>1, <3>1
    <3>3. ParseDate(t, b) = Read(q, DateOf(Piece(t, b, q))) /\ DateOf(Piece(t, b, q)) # Unset
      BY <3>2, DateWritten
    <3> QED
      BY <3>1, <3>3
  <2> HIDE DEF d, o
  <2>3. d.at = q /\ d.val = DateOf(Piece(t, p + 1, q))
    BY <1>3, <2>2
  <2>4. At(t, q) # "/"
    BY CommaIs
  <2>5. ParseDateTime(t, p) = Read(q, z)
    <3>1. ParseDateTime(t, p) = Read(d.at, [date |-> d.val, time |-> DefaultTime])
      BY <1>5, <2>3, <2>4
    <3> QED
      BY <2>1, <2>3, <3>1, TwoHours
  <2> QED
    BY <1>2, <2>1, <2>2, <2>5
<1>7. CASE \E k \in p + 1..q - 1 : At(t, k) = "/" /\ WithTime(Piece(t, p + 1, k), Piece(t, k + 1, q), z)
  <2>1. PICK k \in p + 1..q - 1 : At(t, k) = "/" /\ WithTime(Piece(t, p + 1, k), Piece(t, k + 1, q), z)
    BY <1>7
  <2>2. /\ IsDate(Piece(t, p + 1, k)) /\ IsOffset(Piece(t, k + 1, q), 0..167)
        /\ z = [date |-> DateOf(Piece(t, p + 1, k)), time |-> Seconds(Piece(t, k + 1, q))]
    BY <2>1 DEF WithTime
  <2>3. k \in p + 1..Len(t) + 1 /\ k + 1 \in 1..Len(t) + 1 /\ q \in k + 1..Len(t) + 1 /\ k # NullPtr
    <3>1. k \in p + 1..Len(t) + 1 /\ k + 1 \in 1..Len(t) + 1 /\ q \in k + 1..Len(t) + 1
      OBVIOUS
    <3>2. k # 0
      OBVIOUS
    <3> QED
      BY <3>1, <3>2 DEF NullPtr
  <2>4. d = Read(k, DateOf(Piece(t, p + 1, k))) /\ DateOf(Piece(t, p + 1, k)) # Unset
    BY <1>4, <2>2, <2>3, DateWritten
  <2>5. d.at = k /\ d.val = DateOf(Piece(t, p + 1, k))
    BY <1>3, <2>4
  <2>6. OffsetPiece(t, k + 1, q, 167)
    <3>1. At(t, q) # ":"
      BY CommaIs
    <3> QED
      BY <2>2, <3>1, Zenon DEF OffsetPiece
  <2>7. /\ ParseOffset(t, k + 1, -167, 167, 1) = Read(q, 1 * Seconds(Piece(t, k + 1, q)))
        /\ Seconds(Piece(t, k + 1, q)) \in Int
    <3>0. -167 \in Int /\ -167 <= 0 /\ 167 \in Nat /\ 1 \in {-1, 1}
      BY SMT
    <3>1. PICK lo \in Int, hi \in Nat, sign \in {-1, 1} : lo = -167 /\ hi = 167 /\ sign = 1 /\ lo <= 0
      BY <3>0, SMT
    <3>2. OffsetPiece(t, k + 1, q, hi)
      BY <2>6, <3>1
    <3>3. ParseOffset(t, k + 1, lo, hi, sign) = Read(q, sign * Seconds(Piece(t, k + 1, q)))
      BY <2>3, <3>1, <3>2, OffsetWritten
    <3>4. Seconds(Piece(t, k + 1, q)) \in Int
      BY <2>3, <3>2, OffsetCounts
    <3> QED
      BY <3>1, <3>3, <3>4
  <2>8. o = Read(q, Seconds(Piece(t, k + 1, q)))
    <3>1. 1 * Seconds(Piece(t, k + 1, q)) = Seconds(Piece(t, k + 1, q))
      <4>1. PICK n \in Int : n = Seconds(Piece(t, k + 1, q))
        BY <2>7
      <4>2. 1 * n = n
        OBVIOUS
      <4> QED
        BY <4>1, <4>2
    <3> HIDE DEF d
    <3> QED
      BY <2>5, <2>7, <3>1
  <2> HIDE DEF o, d
  <2>9. o.at = q /\ o.val = Seconds(Piece(t, k + 1, q))
    BY <1>3, <2>8
  <2>10. ParseDateTime(t, p) = Read(q, z)
    BY <1>5, <2>1, <2>2, <2>3, <2>5, <2>9
  <2> QED
    BY <1>2, <2>2, <2>4, <2>10
<1> QED
  BY <1>1, <1>6, <1>7 DEF DateTimeAt

\* What the parser takes for a date and time is one of the grammar, or it sets no date.
LEMMA DateTimeRead ==
  ASSUME NEW t \in Seq(Token), NEW p \in 1..Len(t) + 1,
         ParseDateTime(t, p).at # NullPtr, ParseDateTime(t, p).val.date # Unset
  PROVE  \E q \in p + 1..Len(t) + 1 :
           /\ Comma(t, p) /\ ParseDateTime(t, p).val \in DateTimes(Piece(t, p, q))
           /\ ParseDateTime(t, p).at = q
<1> DEFINE d == ParseDate(t, p + 1)
           o == ParseOffset(t, d.at + 1, -167, 167, 1)
           r == ParseDateTime(t, p)
<1>1. \A x, v : Read(x, v).at = x /\ Read(x, v).val = v
  BY DEF Read
<1>2. p # NullPtr /\ r.at # NullPtr /\ r.val.date # Unset
  BY DEF NullPtr
<1>3. Comma(t, p)
  <2>1. ASSUME ~Comma(t, p) PROVE FALSE
    <3> DEFINE date == Read(p, Unset)
               slash == date.at # NullPtr /\ At(t, date.at) = "/"
               time == IF slash THEN ParseOffset(t, date.at + 1, -167, 167, 1) ELSE Read(date.at, DefaultTime)
    <3>1. r = Read(time.at, [date |-> date.val, time |-> time.val])
      BY <2>1, Zenon DEF ParseDateTime, Comma
    <3>2. date.val = Unset
      BY <1>1
    <3> HIDE DEF date, time, r
    <3>3. r.val.date = Unset
      BY <1>1, <3>1, <3>2
    <3> QED
      BY <1>2, <3>3
  <2> QED
    BY <2>1
<1>4. p + 1 \in 1..Len(t) + 1
  <2>1. p # Len(t) + 1
    BY <1>3, AtIs, CommaIs
  <2> QED
    BY <2>1
<1>5. /\ d.at # NullPtr /\ At(t, d.at) = "/" => r = Read(o.at, [date |-> d.val, time |-> o.val])
      /\ ~(d.at # NullPtr /\ At(t, d.at) = "/") => r = Read(d.at, [date |-> d.val, time |-> DefaultTime])
  BY <1>2, <1>3, DateTimeSteps
<1> HIDE DEF r
<1>6. d.at # NullPtr /\ d.val # Unset
  <2> HIDE DEF d, o
  <2> QED
    BY <1>1, <1>2, <1>5
<1>7. PICK k \in p + 2..Len(t) + 1 : IsDate(Piece(t, p + 1, k)) /\ d = Read(k, DateOf(Piece(t, p + 1, k)))
  <2>1. \E k \in (p + 1) + 1..Len(t) + 1 : IsDate(Piece(t, p + 1, k)) /\ d = Read(k, DateOf(Piece(t, p + 1, k)))
    BY <1>4, <1>6, DateRead
  <2>2. (p + 1) + 1 = p + 2
    OBVIOUS
  <2> QED
    BY <2>1, <2>2
<1>8. d.at = k /\ d.val = DateOf(Piece(t, p + 1, k))
  BY <1>1, <1>7
<1>9. CASE At(t, k) # "/"
  <2> HIDE DEF d
  <2>1. r = Read(k, [date |-> DateOf(Piece(t, p + 1, k)), time |-> 7200])
    BY <1>5, <1>8, <1>9, TwoHours
  <2>2. r.at = k /\ r.val = [date |-> DateOf(Piece(t, p + 1, k)), time |-> 7200]
    BY <1>1, <2>1
  <2>3. Untimed(Piece(t, p + 1, k), r.val)
    BY <1>7, <2>2 DEF Untimed
  <2>4. p < k /\ k \in p..Len(t) + 1 /\ k \in p + 1..Len(t) + 1
    OBVIOUS
  <2>5. DateTimeAt(t, p, k, r.val)
    BY <1>3, <2>3, <2>4, Zenon DEF DateTimeAt
  <2>6. r.val \in DateTimes(Piece(t, p, k))
    BY <2>4, <2>5, DateTimesAre
  <2>7. \E q \in p + 1..Len(t) + 1 : Comma(t, p) /\ r.val \in DateTimes(Piece(t, p, q)) /\ r.at = q
    BY <1>3, <2>2, <2>4, <2>6
  <2> QED
    BY <2>7 DEF r
<1>10. CASE At(t, k) = "/"
  <2>1. k + 1 \in 1..Len(t) + 1
    <3>1. k # Len(t) + 1
      BY <1>10, AtIs
    <3> QED
      BY <3>1
  <2>2. o = ParseOffset(t, k + 1, -167, 167, 1)
    BY <1>8
  <2> HIDE DEF o, d
  <2>3. r = Read(o.at, [date |-> d.val, time |-> o.val])
    BY <1>5, <1>6, <1>8, <1>10
  <2>4. o.at # NullPtr
    BY <1>1, <1>2, <2>3
  <2>5. PICK q \in k + 2..Len(t) + 1 :
          /\ OffsetPiece(t, k + 1, q, 167) /\ o = Read(q, 1 * Seconds(Piece(t, k + 1, q)))
          /\ Seconds(Piece(t, k + 1, q)) \in Int
    <3>0. -167 \in Int /\ -167 <= 0 /\ 167 \in Nat /\ 1 \in {-1, 1}
      BY SMT
    <3>1. PICK lo \in Int, hi \in Nat, sign \in {-1, 1} : lo = -167 /\ hi = 167 /\ sign = 1 /\ lo <= 0
      BY <3>0, SMT
    <3>2. ParseOffset(t, k + 1, lo, hi, sign).at # NullPtr
      BY <2>2, <2>4, <3>1
    <3>3. PICK q \in (k + 1) + 1..Len(t) + 1 :
            OffsetPiece(t, k + 1, q, hi) /\ ParseOffset(t, k + 1, lo, hi, sign) = Read(q, sign * Seconds(Piece(t, k + 1, q)))
      BY <2>1, <3>1, <3>2, OffsetTaken
    <3>4. q \in k + 1..Len(t) + 1 /\ q \in k + 2..Len(t) + 1
      OBVIOUS
    <3>5. Seconds(Piece(t, k + 1, q)) \in Int
      BY <2>1, <3>3, <3>4, OffsetCounts
    <3>6. OffsetPiece(t, k + 1, q, 167) /\ o = Read(q, 1 * Seconds(Piece(t, k + 1, q)))
      BY <2>2, <3>1, <3>3
    <3> QED
      BY <3>4, <3>5, <3>6
  <2>6. o.at = q /\ o.val = Seconds(Piece(t, k + 1, q))
    <3>1. 1 * Seconds(Piece(t, k + 1, q)) = Seconds(Piece(t, k + 1, q))
      BY <2>5
    <3> QED
      BY <1>1, <2>5, <3>1
  <2>7. r.at = q /\ r.val = [date |-> DateOf(Piece(t, p + 1, k)), time |-> Seconds(Piece(t, k + 1, q))]
    BY <1>1, <1>8, <2>3, <2>6
  <2>8. WithTime(Piece(t, p + 1, k), Piece(t, k + 1, q), r.val)
    BY <1>7, <2>5, <2>7 DEF WithTime, OffsetPiece
  <2>9. p < q /\ q \in p..Len(t) + 1 /\ q \in p + 1..Len(t) + 1 /\ k \in p + 1..q - 1
    OBVIOUS
  <2>10. DateTimeAt(t, p, q, r.val)
    BY <1>3, <1>10, <2>8, <2>9, Zenon DEF DateTimeAt
  <2>11. r.val \in DateTimes(Piece(t, p, q))
    BY <2>9, <2>10, DateTimesAre
  <2>12. \E x \in p + 1..Len(t) + 1 : Comma(t, p) /\ r.val \in DateTimes(Piece(t, p, x)) /\ r.at = x
    BY <1>3, <2>7, <2>9, <2>11
  <2> QED
    BY <2>12 DEF r
<1> QED
  BY <1>9, <1>10

\* Daylight time of the grammar: its abbreviation from a to y1, its offset to y2, if it has one,
\* and the two dates to y3 and q.
DstFrom(abbr, none, off, std, b, e) ==
  [dst_abbr |-> AbbrOf(abbr), dst_start |-> b, dst_end |-> e, dst_offset |-> IF none THEN std + 3600 ELSE -Seconds(off)]
DstCut(t, a, y1, y2, y3, q, std, d) ==
  /\ y1 <= y2 /\ y2 < y3 /\ y3 < q /\ Comma(t, y2) /\ Comma(t, y3)
  /\ IsAbbr(Piece(t, a, y1)) /\ (y1 = y2 \/ IsOffset(Piece(t, y1, y2), 0..24))
  /\ \E b \in DateTimes(Piece(t, y2, y3)), e \in DateTimes(Piece(t, y3, q)) :
       d = DstFrom(Piece(t, a, y1), y1 = y2, Piece(t, y1, y2), std, b, e)

\* By positions in the rest, and in the whole text.
LEMMA DstMeaningsFrom ==
  ASSUME NEW s, NEW std, NEW d
  PROVE  d \in DstMeanings(s, std)
         <=> \E x1, x2, x3 \in 1..Len(s) + 1 : DstCut(s, 1, x1, x2, x3, Len(s) + 1, std, d)
<1> DEFINE end == Len(s) + 1
           ok(x) == /\ x[1] <= x[2] /\ x[2] < x[3] /\ x[3] < end
                    /\ Comma(s, x[2]) /\ Comma(s, x[3])
                    /\ IsAbbr(Piece(s, 1, x[1]))
                    /\ x[1] = x[2] \/ IsOffset(Piece(s, x[1], x[2]), 0..24)
           at == {x \in (1..end) \X (1..end) \X (1..end) : ok(x)}
           mean(x) == {DstFrom(Piece(s, 1, x[1]), x[1] = x[2], Piece(s, x[1], x[2]), std, b, e) :
                         b \in DateTimes(Piece(s, x[2], x[3])), e \in DateTimes(Piece(s, x[3], end))}
<1>1. DstMeanings(s, std) = UNION {mean(x) : x \in at}
  BY DEF DstMeanings, DstFrom
<1>2. ASSUME NEW x1 \in 1..end, NEW x2 \in 1..end, NEW x3 \in 1..end, NEW x, x = <<x1, x2, x3>>
      PROVE  ok(x) /\ d \in mean(x) <=> DstCut(s, 1, x1, x2, x3, end, std, d)
  <2>1. x[1] = x1 /\ x[2] = x2 /\ x[3] = x3
    BY <1>2
  <2>2. d \in mean(x) <=> \E b \in DateTimes(Piece(s, x2, x3)), e \in DateTimes(Piece(s, x3, end)) :
                            d = DstFrom(Piece(s, 1, x1), x1 = x2, Piece(s, x1, x2), std, b, e)
    BY <2>1
  <2>3. ok(x) <=> /\ x1 <= x2 /\ x2 < x3 /\ x3 < end /\ Comma(s, x2) /\ Comma(s, x3)
                  /\ IsAbbr(Piece(s, 1, x1)) /\ (x1 = x2 \/ IsOffset(Piece(s, x1, x2), 0..24))
    BY <2>1
  <2> QED
    BY <2>2, <2>3 DEF DstCut
<1>3. \A x : x \in at <=> \E x1, x2, x3 \in 1..end : x = <<x1, x2, x3>> /\ ok(x)
  <2> HIDE DEF ok
  <2> QED
    OBVIOUS
<1> HIDE DEF at, mean, ok, end
<1>4. d \in DstMeanings(s, std) <=> \E x \in at : d \in mean(x)
  BY <1>1
<1>5. ASSUME NEW x \in at, d \in mean(x)
      PROVE  \E x1, x2, x3 \in 1..end : DstCut(s, 1, x1, x2, x3, end, std, d)
  <2>1. PICK x1, x2, x3 \in 1..end : x = <<x1, x2, x3>> /\ ok(x)
    BY <1>3, Zenon
  <2>2. DstCut(s, 1, x1, x2, x3, end, std, d)
    BY <1>2, <1>5, <2>1
  <2> QED
    BY <2>2
<1>6. ASSUME NEW x1 \in 1..end, NEW x2 \in 1..end, NEW x3 \in 1..end, DstCut(s, 1, x1, x2, x3, end, std, d)
      PROVE  \E x \in at : d \in mean(x)
  <2>1. PICK x : x = <<x1, x2, x3>>
    OBVIOUS
  <2>2. ok(x) /\ d \in mean(x)
    BY <1>2, <1>6, <2>1
  <2>3. x \in at
    BY <1>3, <2>1, <2>2, Zenon
  <2> QED
    BY <2>2, <2>3
<1>7. d \in DstMeanings(s, std) <=> \E x1, x2, x3 \in 1..end : DstCut(s, 1, x1, x2, x3, end, std, d)
  BY <1>4, <1>5, <1>6, Zenon
<1> QED
  BY <1>7 DEF end

\* The meanings of daylight time are those of its cuts.
LEMMA DstMeaningsAre ==
  ASSUME NEW t \in Seq(Token), NEW a \in 1..Len(t) + 1, NEW std, NEW d
  PROVE  d \in DstMeanings(Piece(t, a, Len(t) + 1), std)
         <=> \E y1, y2, y3 \in a..Len(t) + 1 : DstCut(t, a, y1, y2, y3, Len(t) + 1, std, d)
<1> DEFINE q == Len(t) + 1
           s == Piece(t, a, q)
           end == Len(s) + 1
<1>0. q \in a..Len(t) + 1 /\ q \in Int
  OBVIOUS
<1>1. s \in Seq(Token) /\ Len(s) = q - a /\ (\A i \in 1..q - a : s[i] = t[a + i - 1]) /\ end = q - a + 1
  BY <1>0, PieceIs
<1>2. ASSUME NEW i \in 1..q - a + 1, NEW j \in i..q - a + 1 PROVE Piece(s, i, j) = Piece(t, a + i - 1, a + j - 1)
  BY <1>0, PiecePiece
<1> HIDE DEF s
<1>3. ASSUME NEW i \in 1..q - a PROVE Comma(s, i) <=> Comma(t, a + i - 1)
  <2>1. At(s, i) = At(t, a + i - 1)
    <3>1. ~(i > Len(s)) /\ ~(a + i - 1 > Len(t))
      BY <1>1
    <3> QED
      BY <1>1, <3>1 DEF At
  <2> QED
    BY <2>1, Zenon DEF Comma
<1> HIDE DEF q, end
<1>4. d \in DstMeanings(s, std) <=> \E x1, x2, x3 \in 1..end : DstCut(s, 1, x1, x2, x3, end, std, d)
  BY DstMeaningsFrom DEF end
<1>5. ASSUME NEW x1 \in 1..end, NEW x2 \in 1..end, NEW x3 \in 1..end, NEW y1 \in a..q, NEW y2 \in a..q, NEW y3 \in a..q,
             y1 = a + x1 - 1, y2 = a + x2 - 1, y3 = a + x3 - 1
      PROVE  DstCut(s, 1, x1, x2, x3, end, std, d) <=> DstCut(t, a, y1, y2, y3, q, std, d)
  <2>1. /\ x1 <= x2 <=> y1 <= y2
        /\ x2 < x3 <=> y2 < y3
        /\ x3 < end <=> y3 < q
        /\ x1 = x2 <=> y1 = y2
    <3>1. x1 \in Int /\ x2 \in Int /\ x3 \in Int /\ end \in Int /\ a \in Int
      BY <1>0, <1>1
    <3>2. x1 <= x2 <=> y1 <= y2
      BY <1>5, <3>1
    <3>3. x2 < x3 <=> y2 < y3
      BY <1>5, <3>1
    <3>4. x3 < end <=> y3 < q
      BY <1>0, <1>1, <1>5, <3>1
    <3>5. x1 = x2 <=> y1 = y2
      BY <1>5, <3>1
    <3> QED
      BY <3>2, <3>3, <3>4, <3>5, Zenon
  <2>2. CASE ~(x1 <= x2 /\ x2 < x3 /\ x3 < end)
    <3>1. ~(y1 <= y2 /\ y2 < y3 /\ y3 < q)
      BY <2>1, <2>2
    <3> QED
      BY <2>2, <3>1, Zenon DEF DstCut
  <2>3. CASE x1 <= x2 /\ x2 < x3 /\ x3 < end
    <3>1. /\ 1 \in 1..q - a + 1 /\ x1 \in 1..q - a + 1 /\ x2 \in x1..q - a + 1 /\ x3 \in x2..q - a + 1
          /\ x2 \in 1..q - a + 1 /\ x3 \in 1..q - a + 1 /\ end \in x3..q - a + 1
          /\ x2 \in 1..q - a /\ x3 \in 1..q - a /\ a + 1 - 1 = a /\ a + end - 1 = q
      BY <1>0, <1>1, <2>3
    <3>2. Piece(s, 1, x1) = Piece(t, a, y1)
      <4>1. Piece(s, 1, x1) = Piece(t, a + 1 - 1, a + x1 - 1)
        BY <1>2, <3>1
      <4> QED
        BY <1>5, <3>1, <4>1
    <3>3. Piece(s, x1, x2) = Piece(t, y1, y2)
      BY <1>2, <1>5, <3>1
    <3>4. Piece(s, x2, x3) = Piece(t, y2, y3)
      BY <1>2, <1>5, <3>1
    <3>5. Piece(s, x3, end) = Piece(t, y3, q)
      <4>1. Piece(s, x3, end) = Piece(t, a + x3 - 1, a + end - 1)
        BY <1>2, <3>1
      <4> QED
        BY <1>5, <3>1, <4>1
    <3>6. (Comma(s, x2) <=> Comma(t, y2)) /\ (Comma(s, x3) <=> Comma(t, y3))
      BY <1>3, <1>5, <3>1
    <3>7. y1 <= y2 /\ y2 < y3 /\ y3 < q
      BY <2>1, <2>3
    <3>8. (x1 = x2) = (y1 = y2)
      BY <2>1
    <3>9. DstCut(s, 1, x1, x2, x3, end, std, d) <=>
            /\ Comma(t, y2) /\ Comma(t, y3)
            /\ IsAbbr(Piece(t, a, y1)) /\ (y1 = y2 \/ IsOffset(Piece(t, y1, y2), 0..24))
            /\ \E b \in DateTimes(Piece(t, y2, y3)), e \in DateTimes(Piece(t, y3, q)) :
                 d = DstFrom(Piece(t, a, y1), y1 = y2, Piece(t, y1, y2), std, b, e)
      BY <2>1, <2>3, <3>2, <3>3, <3>4, <3>5, <3>6, <3>8 DEF DstCut
    <3> QED
      BY <3>7, <3>9, Zenon DEF DstCut
  <2> QED
    BY <2>2, <2>3
<1>6. ASSUME NEW x1 \in 1..end, NEW x2 \in 1..end, NEW x3 \in 1..end, DstCut(s, 1, x1, x2, x3, end, std, d)
      PROVE  \E y1, y2, y3 \in a..q : DstCut(t, a, y1, y2, y3, q, std, d)
  <2>1. PICK y1, y2, y3 \in a..q : y1 = a + x1 - 1 /\ y2 = a + x2 - 1 /\ y3 = a + x3 - 1
    <3>1. ASSUME NEW x \in 1..end PROVE a + x - 1 \in a..q
      BY <1>0, <1>1
    <3> QED
      BY <3>1
  <2> QED
    BY <1>5, <1>6, <2>1
<1>7. ASSUME NEW y1 \in a..q, NEW y2 \in a..q, NEW y3 \in a..q, DstCut(t, a, y1, y2, y3, q, std, d)
      PROVE  \E x1, x2, x3 \in 1..end : DstCut(s, 1, x1, x2, x3, end, std, d)
  <2>1. PICK x1, x2, x3 \in 1..end : y1 = a + x1 - 1 /\ y2 = a + x2 - 1 /\ y3 = a + x3 - 1
    <3>1. ASSUME NEW y \in a..q PROVE \E x \in 1..end : y = a + x - 1
      <4>1. y - a + 1 \in 1..end
        BY <1>0, <1>1
      <4>2. y = a + (y - a + 1) - 1
        BY <1>0
      <4> QED
        BY <4>1, <4>2
    <3> HIDE DEF end, q
    <3> QED
      BY <3>1
  <2> QED
    BY <1>5, <1>7, <2>1
<1>8. d \in DstMeanings(s, std) <=> \E y1, y2, y3 \in a..q : DstCut(t, a, y1, y2, y3, q, std, d)
  BY <1>4, <1>6, <1>7, Zenon
<1> QED
  BY <1>8 DEF s, q

\* The daylight offset: an hour, if a comma follows the abbreviation.
DstOffset(t, p, std) == IF ~Comma(t, p) THEN ParseOffset(t, p, 0, 24, -1) ELSE Read(p, std + 60 * 60)

\* The steps of ParsePosixSpec.
LEMMA SpecSteps ==
  ASSUME NEW t
  PROVE  LET abbr == ParseAbbr(t, 1)
             std == ParseOffset(t, abbr.at, 0, 24, -1)
             dst == ParseAbbr(t, std.at)
             off == DstOffset(t, dst.at, std.val)
             start == ParseDateTime(t, off.at)
             end == ParseDateTime(t, start.at)
             begun == At(t, 1) # ":" /\ abbr.at # NullPtr /\ std.at # NullPtr
             ended == dst.at # NullPtr /\ off.at # NullPtr /\ end.at # NullPtr /\ At(t, end.at) = "end"
         IN  /\ ~begun => ParsePosixSpec(t) = NoZone
             /\ begun /\ At(t, std.at) = "end" =>
                  ParsePosixSpec(t) = TimeZone(abbr.val, std.val, <<>>, 0, Nothing, Nothing)
             /\ begun /\ At(t, std.at) # "end" /\ ended =>
                  ParsePosixSpec(t) = TimeZone(abbr.val, std.val, dst.val, off.val, start.val, end.val)
             /\ begun /\ At(t, std.at) # "end" /\ ~ended => ParsePosixSpec(t) = NoZone
<1> DEFINE abbr == ParseAbbr(t, 1)
           std == ParseOffset(t, abbr.at, 0, 24, -1)
           dst == ParseAbbr(t, std.at)
           off == DstOffset(t, dst.at, std.val)
           start == ParseDateTime(t, off.at)
           end == ParseDateTime(t, start.at)
           ended == dst.at # NullPtr /\ off.at # NullPtr /\ end.at # NullPtr /\ At(t, end.at) = "end"
           all == TimeZone(abbr.val, std.val, dst.val, off.val, start.val, end.val)
           short == TimeZone(abbr.val, std.val, <<>>, 0, Nothing, Nothing)
<1>1. off = IF At(t, dst.at) # "," THEN ParseOffset(t, dst.at, 0, 24, -1) ELSE Read(dst.at, std.val + 60 * 60)
  BY Zenon DEF DstOffset, Comma
<1>2. ParsePosixSpec(t) =
        CASE At(t, 1) = ":" \/ abbr.at = NullPtr \/ std.at = NullPtr -> NoZone
          [] At(t, 1) # ":" /\ abbr.at # NullPtr /\ std.at # NullPtr /\ At(t, std.at) = "end" -> short
          [] OTHER -> IF ended THEN all ELSE NoZone
  BY <1>1, Zenon DEF ParsePosixSpec
<1> HIDE DEF abbr, std, dst, off, start, end, ended, all, short
<1> DEFINE begun == At(t, 1) # ":" /\ abbr.at # NullPtr /\ std.at # NullPtr
<1>3. ~begun => ParsePosixSpec(t) = NoZone
  BY <1>2
<1>4. begun /\ At(t, std.at) = "end" => ParsePosixSpec(t) = short
  BY <1>2
<1>5. begun /\ At(t, std.at) # "end" /\ ended => ParsePosixSpec(t) = all
  BY <1>2
<1>6. begun /\ At(t, std.at) # "end" /\ ~ended => ParsePosixSpec(t) = NoZone
  BY <1>2
<1> QED
  BY <1>3, <1>4, <1>5, <1>6, Zenon DEF abbr, std, dst, off, start, end, ended, all, short

\* What ends an abbreviation.
LEMMA EndsAre ==
  /\ "+" \in AbbrEnds /\ "-" \in AbbrEnds /\ "int" \in AbbrEnds
  /\ \A t, p : Comma(t, p) => At(t, p) \in AbbrEnds
BY Zenon DEF AbbrEnds, Comma

\* An offset ends the abbreviation before it.
LEMMA OffsetBegins ==
  ASSUME NEW t \in Seq(Token), NEW p \in 1..Len(t) + 1, NEW q \in p..Len(t) + 1, NEW hi, IsOffset(Piece(t, p, q), 0..hi)
  PROVE  At(t, p) \in AbbrEnds /\ p < q /\ ~Comma(t, p)
<1>1. PartsAt(t, Base(t, p), q, hi) /\ p < q
  BY OffsetIs
<1>2. At(t, p) \in {"+", "-", "int"}
  BY <1>1 DEF PartsAt, IntAt, Base
<1>3. ~Comma(t, p)
  BY <1>2, Zenon DEF Comma
<1> QED
  BY <1>1, <1>2, <1>3, EndsAre

\* The standard abbreviation and its offset, by position.
Cut(t, x1, x2) ==
  /\ x1 \in 1..Len(t) + 1 /\ x2 \in x1..Len(t) + 1
  /\ IsAbbr(Piece(t, 1, x1)) /\ OffsetPiece(t, x1, x2, 24) /\ At(t, 1) # ":"

\* The cuts of a text are those pieces.
LEMMA CutsAre ==
  ASSUME NEW t \in Seq(Token)
  PROVE  \A x : x \in Cuts(t) <=> x = <<x[1], x[2]>> /\ Cut(t, x[1], x[2])
<1> DEFINE D == (1..Len(t) + 1) \X (1..Len(t) + 1)
           fits(x) == /\ x[1] <= x[2] /\ IsAbbr(Piece(t, 1, x[1])) /\ IsOffset(Piece(t, x[1], x[2]), 0..24)
                      /\ At(t, 1) # ":"
                      /\ At(t, x[2]) = ":" => Len(Digits(Piece(t, x[1], x[2]))) = 5
<1>1. Cuts(t) = {x \in D : fits(x)}
  BY DEF Cuts
<1>2. ASSUME NEW x
      PROVE  x \in D /\ fits(x) <=> x = <<x[1], x[2]>> /\ Cut(t, x[1], x[2])
  <2>1. x \in D <=> x = <<x[1], x[2]>> /\ x[1] \in 1..Len(t) + 1 /\ x[2] \in 1..Len(t) + 1
    OBVIOUS
  <2>2. fits(x) <=> x[1] <= x[2] /\ IsAbbr(Piece(t, 1, x[1])) /\ OffsetPiece(t, x[1], x[2], 24) /\ At(t, 1) # ":"
    BY Zenon DEF OffsetPiece
  <2>3. ASSUME NEW x1, NEW x2
        PROVE  x1 \in 1..Len(t) + 1 /\ x2 \in 1..Len(t) + 1 /\ x1 <= x2
               <=> x1 \in 1..Len(t) + 1 /\ x2 \in x1..Len(t) + 1
    OBVIOUS
  <2>4. x[1] \in 1..Len(t) + 1 /\ x[2] \in 1..Len(t) + 1 /\ x[1] <= x[2]
        <=> x[1] \in 1..Len(t) + 1 /\ x[2] \in x[1]..Len(t) + 1
    BY <2>3
  <2> HIDE DEF D, fits
  <2> QED
    BY <2>1, <2>2, <2>4, Zenon DEF Cut
<1> HIDE DEF D, fits
<1> QED
  BY <1>1, <1>2

\* The parser reads them.
LEMMA CutWritten ==
  ASSUME NEW t \in Seq(Token), NEW x1, NEW x2, Cut(t, x1, x2)
  PROVE  /\ ParseAbbr(t, 1) = Read(x1, AbbrOf(Piece(t, 1, x1)))
         /\ ParseOffset(t, x1, 0, 24, -1) = Read(x2, -Seconds(Piece(t, x1, x2)))
         /\ x1 < x2 /\ x1 # NullPtr /\ x2 # NullPtr
<1>1. /\ x1 \in 1..Len(t) + 1 /\ x2 \in x1..Len(t) + 1
      /\ IsAbbr(Piece(t, 1, x1)) /\ OffsetPiece(t, x1, x2, 24) /\ IsOffset(Piece(t, x1, x2), 0..24)
  BY DEF Cut, OffsetPiece
<1>2. At(t, x1) \in AbbrEnds /\ x1 < x2
  BY <1>1, OffsetBegins
<1>3. ParseAbbr(t, 1) = Read(x1, AbbrOf(Piece(t, 1, x1)))
  <2>1. PICK p \in 1..Len(t) + 1 : p = 1
    OBVIOUS
  <2>2. x1 \in p..Len(t) + 1 /\ IsAbbr(Piece(t, p, x1))
    BY <1>1, <2>1
  <2> QED
    BY <1>2, <2>1, <2>2, AbbrWritten
<1>4. ParseOffset(t, x1, 0, 24, -1) = Read(x2, -Seconds(Piece(t, x1, x2)))
  <2>1. PICK lo \in Int, hi \in Nat, sign \in {-1, 1} : lo = 0 /\ hi = 24 /\ sign = -1 /\ lo <= 0
    OBVIOUS
  <2>2. OffsetPiece(t, x1, x2, hi)
    BY <1>1, <2>1
  <2>3. ParseOffset(t, x1, lo, hi, sign) = Read(x2, sign * Seconds(Piece(t, x1, x2)))
    BY <1>1, <2>1, <2>2, OffsetWritten
  <2>4. Seconds(Piece(t, x1, x2)) \in Int
    BY <1>1, <2>2, OffsetCounts
  <2>5. sign * Seconds(Piece(t, x1, x2)) = -Seconds(Piece(t, x1, x2))
    <3>1. PICK n \in Int : n = Seconds(Piece(t, x1, x2))
      BY <2>4
    <3>2. sign * n = -n
      BY <2>1
    <3> QED
      BY <3>1, <3>2
  <2> QED
    BY <2>1, <2>3, <2>5
<1>5. x1 # NullPtr /\ x2 # NullPtr
  <2>1. x1 # 0
    BY <1>1
  <2>2. x2 # 0
    BY <1>1
  <2> QED
    BY <2>1, <2>2 DEF NullPtr
<1> QED
  BY <1>2, <1>3, <1>4, <1>5

\* What the parser takes for them are such.
LEMMA CutRead ==
  ASSUME NEW t \in Seq(Token), At(t, 1) # ":", ParseAbbr(t, 1).at # NullPtr,
         ParseOffset(t, ParseAbbr(t, 1).at, 0, 24, -1).at # NullPtr
  PROVE  \E x1, x2 : Cut(t, x1, x2)
<1>1. \A x, v : Read(x, v).at = x /\ Read(x, v).val = v
  BY DEF Read
<1>2. PICK x1 \in 2..Len(t) + 1 : IsAbbr(Piece(t, 1, x1)) /\ ParseAbbr(t, 1) = Read(x1, AbbrOf(Piece(t, 1, x1)))
  <2>1. PICK p \in 1..Len(t) + 1 : p = 1
    OBVIOUS
  <2>2. ParseAbbr(t, p).at # NullPtr
    BY <2>1
  <2>3. PICK q \in p + 1..Len(t) + 1 : IsAbbr(Piece(t, p, q)) /\ ParseAbbr(t, p) = Read(q, AbbrOf(Piece(t, p, q)))
    BY <2>2, AbbrRead
  <2>4. q \in 2..Len(t) + 1
    BY <2>1
  <2> QED
    BY <2>1, <2>3, <2>4
<1>3. ParseAbbr(t, 1).at = x1
  BY <1>1, <1>2
<1>4. PICK x2 \in x1 + 1..Len(t) + 1 : OffsetPiece(t, x1, x2, 24)
  <2>1. PICK lo \in Int, hi \in Nat, sign \in {-1, 1} : lo = 0 /\ hi = 24 /\ sign = -1 /\ lo <= 0
    OBVIOUS
  <2>2. ParseOffset(t, x1, lo, hi, sign).at # NullPtr
    BY <1>3, <2>1
  <2>3. x1 \in 1..Len(t) + 1
    OBVIOUS
  <2> QED
    BY <2>1, <2>2, <2>3, OffsetTaken
<1>5. x1 \in 1..Len(t) + 1 /\ x2 \in x1..Len(t) + 1
  OBVIOUS
<1> QED
  BY <1>2, <1>4, <1>5 DEF Cut

\* The parser reads daylight time of the grammar.
LEMMA DstWritten ==
  ASSUME NEW t \in Seq(Token), NEW a \in 1..Len(t) + 1, NEW std, NEW d,
         NEW y1 \in a..Len(t) + 1, NEW y2 \in a..Len(t) + 1, NEW y3 \in a..Len(t) + 1,
         DstCut(t, a, y1, y2, y3, Len(t) + 1, std, d)
  PROVE  /\ ParseAbbr(t, a) = Read(y1, d.dst_abbr)
         /\ DstOffset(t, y1, std) = Read(y2, d.dst_offset)
         /\ ParseDateTime(t, y2) = Read(y3, d.dst_start)
         /\ ParseDateTime(t, y3) = Read(Len(t) + 1, d.dst_end)
         /\ d.dst_start.date # Unset /\ d.dst_end.date # Unset
<1> DEFINE q == Len(t) + 1
<1>0. q \in Int /\ q \in y3..Len(t) + 1
  OBVIOUS
<1> HIDE DEF q
<1>1. /\ y1 <= y2 /\ y2 < y3 /\ y3 < q /\ Comma(t, y2) /\ Comma(t, y3)
      /\ IsAbbr(Piece(t, a, y1)) /\ (y1 = y2 \/ IsOffset(Piece(t, y1, y2), 0..24))
  BY Zenon DEF DstCut, q
<1>2. PICK b \in DateTimes(Piece(t, y2, y3)), e \in DateTimes(Piece(t, y3, q)) :
        d = DstFrom(Piece(t, a, y1), y1 = y2, Piece(t, y1, y2), std, b, e)
  BY Zenon DEF DstCut, q
<1>3. /\ d.dst_abbr = AbbrOf(Piece(t, a, y1)) /\ d.dst_start = b /\ d.dst_end = e
      /\ d.dst_offset = IF y1 = y2 THEN std + 3600 ELSE -Seconds(Piece(t, y1, y2))
  BY <1>2 DEF DstFrom
<1>4. /\ y1 \in 1..Len(t) + 1 /\ y2 \in 1..Len(t) + 1 /\ y3 \in 1..Len(t) + 1
      /\ y2 \in y1..Len(t) + 1 /\ y3 \in y2..Len(t) + 1
  BY <1>1
<1>5. ASSUME y1 = y2
      PROVE  ParseAbbr(t, a) = Read(y1, d.dst_abbr) /\ DstOffset(t, y1, std) = Read(y2, d.dst_offset)
  <2>1. At(t, y1) \in AbbrEnds
    BY <1>1, <1>5, EndsAre
  <2>2. ParseAbbr(t, a) = Read(y1, d.dst_abbr)
    BY <1>1, <1>3, <2>1, AbbrWritten
  <2>3. DstOffset(t, y1, std) = Read(y1, std + 60 * 60)
    BY <1>1, <1>5, Zenon DEF DstOffset
  <2>4. 60 * 60 = 3600
    BY SMT
  <2>5. DstOffset(t, y1, std) = Read(y2, d.dst_offset)
    BY <1>3, <1>5, <2>3, <2>4
  <2> QED
    BY <2>2, <2>5
<1>6. ASSUME y1 # y2
      PROVE  ParseAbbr(t, a) = Read(y1, d.dst_abbr) /\ DstOffset(t, y1, std) = Read(y2, d.dst_offset)
  <2>1. IsOffset(Piece(t, y1, y2), 0..24)
    BY <1>1, <1>6
  <2>2. At(t, y1) \in AbbrEnds /\ ~Comma(t, y1)
    BY <1>4, <2>1, OffsetBegins
  <2>3. ParseAbbr(t, a) = Read(y1, d.dst_abbr)
    BY <1>1, <1>3, <2>2, AbbrWritten
  <2>4. OffsetPiece(t, y1, y2, 24)
    <3>1. At(t, y2) # ":"
      BY <1>1, CommaIs
    <3> QED
      BY <2>1, <3>1 DEF OffsetPiece
  <2>5. ParseOffset(t, y1, 0, 24, -1) = Read(y2, -Seconds(Piece(t, y1, y2)))
    <3>1. PICK lo \in Int, hi \in Nat, sign \in {-1, 1} : lo = 0 /\ hi = 24 /\ sign = -1 /\ lo <= 0
      OBVIOUS
    <3>2. OffsetPiece(t, y1, y2, hi)
      BY <2>4, <3>1
    <3>3. ParseOffset(t, y1, lo, hi, sign) = Read(y2, sign * Seconds(Piece(t, y1, y2)))
      BY <1>4, <3>1, <3>2, OffsetWritten
    <3>4. Seconds(Piece(t, y1, y2)) \in Int
      BY <1>4, <3>2, OffsetCounts
    <3>5. sign * Seconds(Piece(t, y1, y2)) = -Seconds(Piece(t, y1, y2))
      <4>1. PICK n \in Int : n = Seconds(Piece(t, y1, y2))
        BY <3>4
      <4>2. sign * n = -n
        BY <3>1
      <4> QED
        BY <4>1, <4>2
    <3> QED
      BY <3>1, <3>3, <3>5
  <2>6. DstOffset(t, y1, std) = Read(y2, d.dst_offset)
    BY <1>3, <1>6, <2>2, <2>5 DEF DstOffset
  <2> QED
    BY <2>3, <2>6
<1>7. ParseDateTime(t, y2) = Read(y3, b) /\ b.date # Unset
  BY <1>1, <1>4, DateTimeWritten
<1>8. ParseDateTime(t, y3) = Read(q, e) /\ e.date # Unset
  <2>1. At(t, q) = "end"
    BY DEF At, q
  <2> QED
    BY <1>0, <1>4, <2>1, DateTimeWritten
<1> QED
  BY <1>3, <1>5, <1>6, <1>7, <1>8 DEF q

\* What the parser takes for daylight time is such, if it sets the dates.
LEMMA DstRead ==
  ASSUME NEW t \in Seq(Token), NEW a \in 1..Len(t) + 1, NEW std,
         NEW dst, dst = ParseAbbr(t, a), NEW off, off = DstOffset(t, dst.at, std),
         NEW start, start = ParseDateTime(t, off.at), NEW end, end = ParseDateTime(t, start.at),
         dst.at # NullPtr, off.at # NullPtr, end.at # NullPtr, At(t, end.at) = "end",
         start.val.date # Unset, end.val.date # Unset
  PROVE  \E d : d \in DstMeanings(Piece(t, a, Len(t) + 1), std)
<1>1. \A x, v : Read(x, v).at = x /\ Read(x, v).val = v
  BY DEF Read
<1>2. PICK y1 \in a + 1..Len(t) + 1 : IsAbbr(Piece(t, a, y1)) /\ dst = Read(y1, AbbrOf(Piece(t, a, y1)))
  BY AbbrRead
<1>3. dst.at = y1 /\ off = DstOffset(t, y1, std) /\ y1 \in 1..Len(t) + 1
  BY <1>1, <1>2
<1>4. PICK y2 \in y1..Len(t) + 1 : off.at = y2 /\ (y1 = y2 \/ IsOffset(Piece(t, y1, y2), 0..24))
  <2>1. CASE Comma(t, y1)
    <3>1. off = Read(y1, std + 60 * 60)
      BY <1>3, <2>1, Zenon DEF DstOffset
    <3>2. off.at = y1 /\ y1 \in y1..Len(t) + 1
      BY <1>1, <3>1
    <3> QED
      BY <3>2
  <2>2. CASE ~Comma(t, y1)
    <3>1. off = ParseOffset(t, y1, 0, 24, -1)
      BY <1>3, <2>2, Zenon DEF DstOffset
    <3>2. PICK lo \in Int, hi \in Nat, sign \in {-1, 1} : lo = 0 /\ hi = 24 /\ sign = -1 /\ lo <= 0
      OBVIOUS
    <3>3. off = ParseOffset(t, y1, lo, hi, sign)
      BY <3>1, <3>2
    <3>4. PICK q \in y1 + 1..Len(t) + 1 : OffsetPiece(t, y1, q, hi) /\ off = Read(q, sign * Seconds(Piece(t, y1, q)))
      BY <1>3, <3>2, <3>3, OffsetTaken
    <3>5. off.at = q /\ q \in y1..Len(t) + 1 /\ IsOffset(Piece(t, y1, q), 0..24)
      BY <1>1, <3>2, <3>4 DEF OffsetPiece
    <3> QED
      BY <3>5
  <2> QED
    BY <2>1, <2>2
<1>5. y2 \in 1..Len(t) + 1 /\ start = ParseDateTime(t, y2)
  BY <1>4
<1>6. start.at # NullPtr
  <2>1. ASSUME start.at = NullPtr PROVE FALSE
    <3>1. ParseDateTime(t, NullPtr).at = NullPtr
      <4> DEFINE date == Read(NullPtr, Unset)
                 time == Read(date.at, DefaultTime)
      <4>1. date.at = NullPtr
        BY <1>1
      <4>2. ParseDateTime(t, NullPtr) = Read(time.at, [date |-> date.val, time |-> time.val])
        BY <4>1, Zenon DEF ParseDateTime
      <4>3. time.at = NullPtr
        BY <1>1, <4>1
      <4> HIDE DEF date, time
      <4> QED
        BY <1>1, <4>2, <4>3
    <3> QED
      BY <2>1, <3>1
  <2> QED
    BY <2>1
<1>7. PICK y3 \in y2 + 1..Len(t) + 1 :
        Comma(t, y2) /\ start.val \in DateTimes(Piece(t, y2, y3)) /\ start.at = y3
  BY <1>5, <1>6, DateTimeRead
<1>8. y3 \in 1..Len(t) + 1 /\ end = ParseDateTime(t, y3)
  BY <1>5, <1>7
<1>9. PICK q \in y3 + 1..Len(t) + 1 :
        Comma(t, y3) /\ end.val \in DateTimes(Piece(t, y3, q)) /\ end.at = q
  BY <1>8, DateTimeRead
<1>10. q = Len(t) + 1
  <2>1. q \in 1..Len(t) + 1 /\ At(t, q) = "end"
    BY <1>8, <1>9
  <2> QED
    BY <2>1, AtIs
<1>11. PICK d : d = DstFrom(Piece(t, a, y1), y1 = y2, Piece(t, y1, y2), std, start.val, end.val)
  OBVIOUS
<1>12. y1 <= y2 /\ y2 < y3 /\ y3 < q
  BY <1>4, <1>7, <1>9
<1>13. DstCut(t, a, y1, y2, y3, q, std, d)
  BY <1>2, <1>4, <1>7, <1>9, <1>11, <1>12, Zenon DEF DstCut
<1>14. y1 \in a..Len(t) + 1 /\ y2 \in a..Len(t) + 1 /\ y3 \in a..Len(t) + 1
  BY <1>2, <1>4, <1>7
<1>15. d \in DstMeanings(Piece(t, a, Len(t) + 1), std)
  BY <1>10, <1>13, <1>14, DstMeaningsAre
<1> QED
  BY <1>15

\* What a text cut there means.
MeansAt(t, x1, x2, z) ==
  LET abbr == AbbrOf(Piece(t, 1, x1))
      std == -Seconds(Piece(t, x1, x2))
  IN  \/ x2 = Len(t) + 1 /\ z = TimeZone(abbr, std, <<>>, 0, Nothing, Nothing)
      \/ /\ x2 # Len(t) + 1
         /\ \E d \in DstMeanings(Piece(t, x2, Len(t) + 1), std) :
              z = TimeZone(abbr, std, d.dst_abbr, d.dst_offset, d.dst_start, d.dst_end)

\* The meanings of a text are those of its cuts.
LEMMA MeaningsAre ==
  ASSUME NEW t \in Seq(Token), NEW z
  PROVE  z \in Meanings(t) <=> \E x1, x2 : Cut(t, x1, x2) /\ MeansAt(t, x1, x2, z)
<1> DEFINE rest(x2) == Piece(t, x2, Len(t) + 1)
           mean(x) == LET abbr == AbbrOf(Piece(t, 1, x[1]))
                          std == -Seconds(Piece(t, x[1], x[2]))
                      IN  IF rest(x[2]) = <<>> THEN {TimeZone(abbr, std, <<>>, 0, Nothing, Nothing)}
                          ELSE {TimeZone(abbr, std, d.dst_abbr, d.dst_offset, d.dst_start, d.dst_end) :
                                  d \in DstMeanings(rest(x[2]), std)}
<1>1. Meanings(t) = UNION {mean(x) : x \in Cuts(t)}
  BY Zenon DEF Meanings
<1>2. ASSUME NEW x, Cut(t, x[1], x[2]) PROVE z \in mean(x) <=> MeansAt(t, x[1], x[2], z)
  <2> DEFINE abbr == AbbrOf(Piece(t, 1, x[1]))
             std == -Seconds(Piece(t, x[1], x[2]))
             short == TimeZone(abbr, std, <<>>, 0, Nothing, Nothing)
             long(d) == TimeZone(abbr, std, d.dst_abbr, d.dst_offset, d.dst_start, d.dst_end)
             dsts == DstMeanings(rest(x[2]), std)
  <2>1. x[2] \in 1..Len(t) + 1
    BY <1>2 DEF Cut
  <2>2. rest(x[2]) = <<>> <=> x[2] = Len(t) + 1
    <3>1. Len(t) + 1 \in x[2]..Len(t) + 1
      BY <2>1
    <3>2. rest(x[2]) \in Seq(Token) /\ Len(rest(x[2])) = (Len(t) + 1) - x[2]
      BY <2>1, <3>1, PieceIs
    <3> HIDE DEF rest
    <3>3. rest(x[2]) = <<>> <=> Len(rest(x[2])) = 0
      BY <3>2
    <3> QED
      BY <2>1, <3>2, <3>3
  <2>3. mean(x) = IF rest(x[2]) = <<>> THEN {short} ELSE {long(d) : d \in dsts}
    BY Zenon
  <2>4. MeansAt(t, x[1], x[2], z) <=> \/ x[2] = Len(t) + 1 /\ z = short
                                      \/ x[2] # Len(t) + 1 /\ \E d \in dsts : z = long(d)
    BY Zenon DEF MeansAt
  <2> HIDE DEF mean, short, long, dsts, rest
  <2> QED
    BY <2>2, <2>3, <2>4
<1> HIDE DEF mean
<1>3. z \in Meanings(t) <=> \E x \in Cuts(t) : z \in mean(x)
  BY <1>1
<1>4. ASSUME NEW x \in Cuts(t), z \in mean(x) PROVE \E x1, x2 : Cut(t, x1, x2) /\ MeansAt(t, x1, x2, z)
  <2>1. Cut(t, x[1], x[2])
    BY CutsAre
  <2>2. MeansAt(t, x[1], x[2], z)
    BY <1>2, <1>4, <2>1
  <2> QED
    BY <2>1, <2>2, Zenon
<1>5. ASSUME NEW x1, NEW x2, Cut(t, x1, x2), MeansAt(t, x1, x2, z) PROVE \E x \in Cuts(t) : z \in mean(x)
  <2>1. PICK x : x = <<x1, x2>>
    OBVIOUS
  <2>2. x[1] = x1 /\ x[2] = x2
    BY <2>1
  <2>3. x \in Cuts(t)
    BY <1>5, <2>1, <2>2, CutsAre
  <2>4. z \in mean(x)
    BY <1>2, <1>5, <2>2
  <2> QED
    BY <2>3, <2>4
<1> QED
  BY <1>3, <1>4, <1>5, Zenon

\* What a text means, the parser makes of it, and it is complete.
LEMMA MeaningRead ==
  ASSUME NEW t \in Seq(Token), NEW z \in Meanings(t)
  PROVE  ParsePosixSpec(t) = z /\ z.ok /\ Complete(t, z)
<1> DEFINE abbr == ParseAbbr(t, 1)
           std == ParseOffset(t, abbr.at, 0, 24, -1)
           dst == ParseAbbr(t, std.at)
           off == DstOffset(t, dst.at, std.val)
           start == ParseDateTime(t, off.at)
           end == ParseDateTime(t, start.at)
<1>1. \A x, v : Read(x, v).at = x /\ Read(x, v).val = v
  BY DEF Read
<1>2. PICK x1, x2 : Cut(t, x1, x2) /\ MeansAt(t, x1, x2, z)
  BY MeaningsAre
<1>3. /\ abbr = Read(x1, AbbrOf(Piece(t, 1, x1)))
      /\ ParseOffset(t, x1, 0, 24, -1) = Read(x2, -Seconds(Piece(t, x1, x2)))
      /\ x1 # NullPtr /\ x2 # NullPtr
  BY <1>2, CutWritten
<1>4. /\ abbr.at = x1 /\ abbr.val = AbbrOf(Piece(t, 1, x1))
      /\ std.at = x2 /\ std.val = -Seconds(Piece(t, x1, x2))
  BY <1>1, <1>3
<1>5. At(t, 1) # ":" /\ x2 \in 1..Len(t) + 1
  BY <1>2 DEF Cut
<1>6. At(t, x2) = "end" <=> x2 = Len(t) + 1
  BY <1>5, AtIs
<1> DEFINE begun == At(t, 1) # ":" /\ abbr.at # NullPtr /\ std.at # NullPtr
           ended == dst.at # NullPtr /\ off.at # NullPtr /\ end.at # NullPtr /\ At(t, end.at) = "end"
<1>7. /\ begun /\ At(t, std.at) = "end" =>
           ParsePosixSpec(t) = TimeZone(abbr.val, std.val, <<>>, 0, Nothing, Nothing)
      /\ begun /\ At(t, std.at) # "end" /\ ended =>
           ParsePosixSpec(t) = TimeZone(abbr.val, std.val, dst.val, off.val, start.val, end.val)
  BY SpecSteps
<1> HIDE DEF abbr, std
<1>8. begun
  BY <1>3, <1>4, <1>5
<1>9. \A a, b, c, d, s, e : /\ TimeZone(a, b, c, d, s, e).ok
                            /\ TimeZone(a, b, c, d, s, e).dst_start = s /\ TimeZone(a, b, c, d, s, e).dst_end = e
  BY DEF TimeZone
<1>10. CASE x2 = Len(t) + 1
  <2>1. z = TimeZone(abbr.val, std.val, <<>>, 0, Nothing, Nothing)
    BY <1>2, <1>4, <1>10, Zenon DEF MeansAt
  <2>2. ParsePosixSpec(t) = z /\ z.ok
    BY <1>4, <1>6, <1>7, <1>8, <1>9, <1>10, <2>1
  <2>3. Standard(t)
    <3>1. PICK x : x = <<x1, x2>>
      OBVIOUS
    <3>2. x[1] = x1 /\ x[2] = x2
      BY <3>1
    <3>3. x \in Cuts(t)
      BY <1>2, <3>1, <3>2, CutsAre
    <3> QED
      BY <1>10, <3>2, <3>3 DEF Standard
  <2> QED
    BY <2>2, <2>3 DEF Complete
<1>11. CASE x2 # Len(t) + 1
  <2>1. PICK d \in DstMeanings(Piece(t, x2, Len(t) + 1), std.val) :
          z = TimeZone(abbr.val, std.val, d.dst_abbr, d.dst_offset, d.dst_start, d.dst_end)
    BY <1>2, <1>4, <1>11, Zenon DEF MeansAt
  <2>2. PICK y1, y2, y3 \in x2..Len(t) + 1 : DstCut(t, x2, y1, y2, y3, Len(t) + 1, std.val, d)
    BY <1>5, <2>1, DstMeaningsAre
  <2>3. /\ ParseAbbr(t, x2) = Read(y1, d.dst_abbr)
        /\ DstOffset(t, y1, std.val) = Read(y2, d.dst_offset)
        /\ ParseDateTime(t, y2) = Read(y3, d.dst_start)
        /\ ParseDateTime(t, y3) = Read(Len(t) + 1, d.dst_end)
        /\ d.dst_start.date # Unset /\ d.dst_end.date # Unset
    BY <1>5, <2>2, DstWritten
  <2>4. dst.at = y1 /\ dst.val = d.dst_abbr
    BY <1>1, <1>4, <2>3
  <2> HIDE DEF dst
  <2>5. off.at = y2 /\ off.val = d.dst_offset
    BY <1>1, <2>3, <2>4
  <2> HIDE DEF off
  <2>6. start.at = y3 /\ start.val = d.dst_start
    BY <1>1, <2>3, <2>5
  <2> HIDE DEF start
  <2>7. end.at = Len(t) + 1 /\ end.val = d.dst_end
    BY <1>1, <2>3, <2>6
  <2> HIDE DEF end
  <2>8. y1 # NullPtr /\ y2 # NullPtr /\ Len(t) + 1 # NullPtr
    <3>1. y1 # 0
      BY <1>5
    <3>2. y2 # 0
      BY <1>5
    <3>3. Len(t) + 1 # 0
      OBVIOUS
    <3> QED
      BY <3>1, <3>2, <3>3 DEF NullPtr
  <2>9. At(t, Len(t) + 1) = "end"
    BY DEF At
  <2>10. ended
    BY <2>4, <2>5, <2>7, <2>8, <2>9
  <2>11. ParsePosixSpec(t) = z
    BY <1>4, <1>6, <1>7, <1>8, <1>11, <2>1, <2>4, <2>5, <2>6, <2>7, <2>10
  <2>12. z.ok /\ z.dst_start = d.dst_start /\ z.dst_end = d.dst_end
    BY <1>9, <2>1
  <2>13. Complete(t, z)
    BY <2>3, <2>12 DEF Complete
  <2> QED
    BY <2>11, <2>12, <2>13
<1> QED
  BY <1>10, <1>11

\* What the parser makes of a text is what the text means, if it is complete.
LEMMA ReadMeaning ==
  ASSUME NEW t \in Seq(Token), ParsePosixSpec(t).ok, Complete(t, ParsePosixSpec(t))
  PROVE  ParsePosixSpec(t) \in Meanings(t)
<1> DEFINE abbr == ParseAbbr(t, 1)
           std == ParseOffset(t, abbr.at, 0, 24, -1)
           dst == ParseAbbr(t, std.at)
           off == DstOffset(t, dst.at, std.val)
           start == ParseDateTime(t, off.at)
           end == ParseDateTime(t, start.at)
           begun == At(t, 1) # ":" /\ abbr.at # NullPtr /\ std.at # NullPtr
           ended == dst.at # NullPtr /\ off.at # NullPtr /\ end.at # NullPtr /\ At(t, end.at) = "end"
           z == ParsePosixSpec(t)
<1>1. \A x, v : Read(x, v).at = x /\ Read(x, v).val = v
  BY DEF Read
<1>2. ~NoZone.ok
  BY DEF NoZone, TimeZone
<1>3. /\ ~begun => z = NoZone
      /\ begun /\ At(t, std.at) = "end" => z = TimeZone(abbr.val, std.val, <<>>, 0, Nothing, Nothing)
      /\ begun /\ At(t, std.at) # "end" /\ ended =>
           z = TimeZone(abbr.val, std.val, dst.val, off.val, start.val, end.val)
      /\ begun /\ At(t, std.at) # "end" /\ ~ended => z = NoZone
  BY SpecSteps
<1>4. z.ok /\ Complete(t, z)
  OBVIOUS
<1> HIDE DEF z
<1>5. begun
  <2> HIDE DEF begun
  <2> QED
    BY <1>2, <1>3, <1>4
<1>6. PICK x1, x2 : Cut(t, x1, x2)
  BY <1>5, CutRead
<1>7. /\ abbr = Read(x1, AbbrOf(Piece(t, 1, x1)))
      /\ ParseOffset(t, x1, 0, 24, -1) = Read(x2, -Seconds(Piece(t, x1, x2)))
  BY <1>6, CutWritten
<1>8. /\ abbr.at = x1 /\ abbr.val = AbbrOf(Piece(t, 1, x1))
      /\ std.at = x2 /\ std.val = -Seconds(Piece(t, x1, x2))
  BY <1>1, <1>7
<1>9. x2 \in 1..Len(t) + 1
  BY <1>6 DEF Cut
<1>10. At(t, x2) = "end" <=> x2 = Len(t) + 1
  BY <1>9, AtIs
<1>11. CASE x2 = Len(t) + 1
  <2>1. z = TimeZone(abbr.val, std.val, <<>>, 0, Nothing, Nothing)
    BY <1>3, <1>5, <1>8, <1>10, <1>11
  <2> HIDE DEF abbr, std
  <2>2. MeansAt(t, x1, x2, z)
    BY <1>8, <1>11, <2>1, Zenon DEF MeansAt
  <2>3. z \in Meanings(t)
    BY <1>6, <2>2, MeaningsAre
  <2> QED
    BY <2>3 DEF z
<1>12. CASE x2 # Len(t) + 1
  <2>1. At(t, std.at) # "end"
    BY <1>8, <1>10, <1>12
  <2>2. ended
    <3> HIDE DEF ended, begun
    <3> QED
      BY <1>2, <1>3, <1>4, <1>5, <2>1
  <2>3. z = TimeZone(abbr.val, std.val, dst.val, off.val, start.val, end.val)
    <3> HIDE DEF ended, begun
    <3> QED
      BY <1>3, <1>5, <2>1, <2>2
  <2>4. ~Standard(t)
    <3>1. ASSUME Standard(t) PROVE FALSE
      <4>1. PICK x \in Cuts(t) : x[2] = Len(t) + 1
        BY <3>1 DEF Standard
      <4>2. PICK u1, u2 : u1 = x[1] /\ u2 = x[2]
        OBVIOUS
      <4>3. Cut(t, u1, u2) /\ u2 = Len(t) + 1
        BY <4>1, <4>2, CutsAre
      <4>4. /\ abbr = Read(u1, AbbrOf(Piece(t, 1, u1)))
            /\ ParseOffset(t, u1, 0, 24, -1) = Read(u2, -Seconds(Piece(t, u1, u2)))
        BY <4>3, CutWritten
      <4>5. std.at = u2
        BY <1>1, <4>4
      <4> HIDE DEF std
      <4> QED
        BY <1>8, <1>12, <4>3, <4>5
    <3> QED
      BY <3>1
  <2>5. start.val.date # Unset /\ end.val.date # Unset
    <3> HIDE DEF abbr, std, dst, off, start, end
    <3>1. z.dst_start = start.val /\ z.dst_end = end.val
      BY <2>3 DEF TimeZone
    <3> QED
      BY <1>4, <2>4, <3>1 DEF Complete
  <2>6. PICK d : d \in DstMeanings(Piece(t, x2, Len(t) + 1), std.val)
    <3>1. dst = ParseAbbr(t, x2)
      BY <1>8
    <3>2. off = DstOffset(t, dst.at, std.val) /\ start = ParseDateTime(t, off.at) /\ end = ParseDateTime(t, start.at)
      OBVIOUS
    <3> HIDE DEF abbr, std, dst, off, start, end
    <3> QED
      BY <1>9, <2>2, <2>5, <3>1, <3>2, DstRead
  <2>7. PICK m : m = TimeZone(AbbrOf(Piece(t, 1, x1)), std.val, d.dst_abbr, d.dst_offset, d.dst_start, d.dst_end)
    OBVIOUS
  <2> HIDE DEF abbr, std, dst, off, start, end
  <2>8. MeansAt(t, x1, x2, m)
    BY <1>8, <1>12, <2>6, <2>7, Zenon DEF MeansAt
  <2>9. m \in Meanings(t)
    BY <1>6, <2>8, MeaningsAre
  <2>10. ParsePosixSpec(t) = m
    BY <2>9, MeaningRead
  <2> QED
    BY <2>9, <2>10
<1> QED
  BY <1>11, <1>12

\* SpecsAsWritten of any text.
LEMMA ReadAsWritten ==
  ASSUME NEW t \in Seq(Token)
  PROVE  IF ParsePosixSpec(t).ok /\ Complete(t, ParsePosixSpec(t)) THEN Meanings(t) = {ParsePosixSpec(t)}
         ELSE Meanings(t) = {}
<1>1. ASSUME NEW z \in Meanings(t)
      PROVE  z = ParsePosixSpec(t) /\ ParsePosixSpec(t).ok /\ Complete(t, ParsePosixSpec(t))
  <2>1. ParsePosixSpec(t) = z /\ z.ok /\ Complete(t, z)
    BY MeaningRead
  <2> QED
    BY <2>1
<1>2. ParsePosixSpec(t).ok /\ Complete(t, ParsePosixSpec(t)) => ParsePosixSpec(t) \in Meanings(t)
  BY ReadMeaning
<1> QED
  BY <1>1, <1>2

\* The rule read from no text is none.
LEMMA NoText == ParsePosixSpec(<<>>) = NoZone
<1> DEFINE t == <<>>
<1>1. t \in Seq(Token) /\ Len(t) = 0
  OBVIOUS
<1> HIDE DEF t
<1>2. ParseAbbr(t, 1).at = NullPtr
  <2>1. ASSUME ParseAbbr(t, 1).at # NullPtr PROVE FALSE
    <3>1. PICK p \in 1..Len(t) + 1 : p = 1
      BY <1>1
    <3>2. \E q \in p + 1..Len(t) + 1 : IsAbbr(Piece(t, p, q)) /\ ParseAbbr(t, p) = Read(q, AbbrOf(Piece(t, p, q)))
      BY <1>1, <2>1, <3>1, AbbrRead
    <3> QED
      BY <1>1, <3>1, <3>2
  <2> QED
    BY <2>1
<1>3. ParsePosixSpec(t) = NoZone
  BY <1>2, SpecSteps
<1> QED
  BY <1>3 DEF t

------------------------------------------------------------------------------
(* The theorems *)

\* The inductive invariant: the value is a date and time, aligned to its unit, and the count is
\* the value's; the rule's offsets and times are integers.
CalendarInv ==
  /\ tag \in UnitSet /\ DateTime(f) /\ align(tag, f) = f
  /\ ref = Index(tag, f)
  /\ steps \in 0..MaxSteps
  /\ Timed(posix)

\* Any date and time, aligned, keeps the invariant with its count.
LEMMA AlignedValue ==
  ASSUME NEW u \in UnitSet, NEW g, DateTime(g)
  PROVE  DateTime(align(u, g)) /\ align(u, align(u, g)) = align(u, g) /\ Index(u, align(u, g)) = Index(u, g)
  BY Aligns

\* The dates a behaviour begins with are dates.
LEMMA StartsAreDates ==
  ASSUME NEW g \in Starts
  PROVE  DateTime(g)
  BY StartsAssumption DEF DateTime, Fields

\* A behaviour begins with an aligned value and its count, and no rule.
LEMMA CalendarInit == SpecInit => CalendarInv
<1> SUFFICES ASSUME SpecInit PROVE CalendarInv
  OBVIOUS
<1>1. tag \in UnitSet /\ ref = Index(tag, f) /\ steps = 0 /\ posix = NoZone
  BY DEF SpecInit, Init
<1>2. PICK g \in Starts : f = align(tag, g)
  BY DEF SpecInit, Init
<1>3. DateTime(g)
  BY StartsAreDates
<1>4. DateTime(align(tag, g)) /\ align(tag, align(tag, g)) = align(tag, g)
  BY <1>1, <1>3, AlignedValue
<1>5. DateTime(f) /\ align(tag, f) = f
  BY <1>2, <1>4
<1>6. Timed(NoZone)
  BY NoZoneTimed
<1>7. steps \in 0..MaxSteps
  BY <1>1, BoundsAssumption
<1> QED
  BY <1>1, <1>5, <1>6, <1>7 DEF CalendarInv

\* operator+, operator-, the constructor and the conversions keep the count of the value.
LEMMA CalendarStep ==
  ASSUME CalendarInv, Next
  PROVE  /\ tag' \in UnitSet /\ DateTime(f') /\ align(tag', f') = f'
         /\ ref' = Index(tag', f')
         /\ steps' \in 0..MaxSteps
<1>1. /\ tag \in UnitSet /\ DateTime(f) /\ align(tag, f) = f
      /\ ref = Index(tag, f)
      /\ steps \in 0..MaxSteps
  BY DEF CalendarInv
<1>2. ASSUME Operation PROVE steps' \in 0..MaxSteps
  BY <1>1, <1>2, BoundsAssumption DEF Operation
<1>3. ASSUME NEW u \in UnitSet, NEW g, DateTime(g), tag' = u, f' = align(u, g), ref' = Index(u, g), steps' \in 0..MaxSteps
      PROVE  /\ tag' \in UnitSet /\ DateTime(f') /\ align(tag', f') = f'
             /\ ref' = Index(tag', f')
             /\ steps' \in 0..MaxSteps
  <2>1. DateTime(align(u, g)) /\ align(u, align(u, g)) = align(u, g) /\ Index(u, align(u, g)) = Index(u, g)
    BY <1>3, AlignedValue
  <2> QED
    BY <1>3, <2>1
<1>4. ASSUME NEW n \in Int, Operation, f' = align(tag, step(tag, f, n)), ref' = ref + n, tag' = tag
      PROVE  /\ tag' \in UnitSet /\ DateTime(f') /\ align(tag', f') = f'
             /\ ref' = Index(tag', f')
             /\ steps' \in 0..MaxSteps
  <2> DEFINE g == step(tag, f, n)
  <2>1. DateTime(g) /\ Index(tag, g) = Index(tag, f) + n
    BY <1>1, Stepped
  <2>2. DateTime(g) /\ tag' = tag /\ f' = align(tag, g) /\ ref' = Index(tag, g) /\ steps' \in 0..MaxSteps
    BY <1>1, <1>2, <1>4, <2>1
  <2> HIDE DEF g
  <2> QED
    BY <1>1, <1>3, <2>2
<1>5. ASSUME NEW n \in Offsets[tag] PROVE n \in Int
  BY <1>1, OffsetsAssumption
<1>6. CASE \E n \in Offsets[tag] : Plus(n) \/ Minus(n)
  <2>1. PICK n \in Offsets[tag] : Plus(n) \/ Minus(n)
    BY <1>6
  <2>2. n \in Int
    BY <1>5
  <2>3. CASE Plus(n)
    BY <1>4, <2>2, <2>3 DEF Plus
  <2>4. CASE Minus(n)
    <3>1. PICK k \in Int : k = -n
      BY <2>2
    <3>2. ref - n = ref + k
      <4>1. ref \in Int
        BY <1>1, IndexIs
      <4> QED
        BY <2>2, <3>1, <4>1
    <3>3. Operation /\ f' = align(tag, step(tag, f, k)) /\ ref' = ref + k /\ tag' = tag
      BY <2>4, <3>1, <3>2 DEF Minus
    <3> QED
      BY <1>4, <3>1, <3>3
  <2> QED
    BY <2>1, <2>3, <2>4
<1>7. CASE \E r \in Raw : Construct(r)
  <2>1. PICK r \in Raw : Construct(r)
    BY <1>7
  <2>2. r \in Six
    BY RawAssumption DEF Six
  <2> DEFINE g == n_sec(r[1], r[2], r[3], r[4], r[5], r[6])
  <2>3. Operation /\ tag \in Times /\ f' = align(tag, g) /\ ref' = RawIndex(tag, r) /\ tag' = tag
    BY <1>1, <2>1, UnitCases DEF Construct, Times
  <2>4. Stands(g, r[1], r[2], r[3], r[4], r[5], r[6])
    <3>1. r[1] \in Int /\ r[2] \in Int /\ r[3] \in Int /\ r[4] \in Int /\ r[5] \in Int /\ r[6] \in Int
      BY <2>2 DEF Six
    <3> QED
      BY <3>1, SecondsCarried
  <2> HIDE DEF g
  <2>5. DateTime(g) /\ Index(tag, g) = RawIndex(tag, r)
    BY <2>2, <2>3, <2>4, StandsCount
  <2>6. DateTime(g) /\ tag' = tag /\ f' = align(tag, g) /\ ref' = Index(tag, g) /\ steps' \in 0..MaxSteps
    BY <1>2, <2>3, <2>5
  <2> QED
    BY <1>1, <1>3, <2>6
<1>8. CASE \E u \in UnitSet : Convert(u)
  <2>1. PICK u \in UnitSet : Convert(u)
    BY <1>8
  <2>2. DateTime(f) /\ tag' = u /\ f' = align(u, f) /\ ref' = Index(u, f) /\ steps' \in 0..MaxSteps
    BY <1>1, <1>2, <2>1 DEF Convert
  <2> QED
    BY <1>3, <2>2
<1> QED
  BY <1>6, <1>7, <1>8 DEF Next

\* Every step of the program keeps the invariant; reading a rule leaves the value alone.
LEMMA CalendarNext == CalendarInv /\ [SpecNext]_allVars => CalendarInv'
<1> SUFFICES ASSUME CalendarInv, [SpecNext]_allVars PROVE CalendarInv'
  OBVIOUS
<1>1. CASE Next /\ UNCHANGED specVars
  <2>1. /\ tag' \in UnitSet /\ DateTime(f') /\ align(tag', f') = f'
        /\ ref' = Index(tag', f')
        /\ steps' \in 0..MaxSteps
    BY <1>1, CalendarStep
  <2>2. Timed(posix')
    BY <1>1 DEF CalendarInv, specVars
  <2> QED
    BY <2>1, <2>2 DEF CalendarInv
<1>2. CASE \E t \in Texts : ReadSpec(t)
  <2>1. PICK t \in Texts : ReadSpec(t)
    BY <1>2
  <2>2. Timed(ParsePosixSpec(t))
    BY RuleTimed
  <2>3. tag' = tag /\ f' = f /\ ref' = ref /\ steps' = MaxSteps /\ posix' = ParsePosixSpec(t)
    BY <2>1 DEF ReadSpec
  <2>4. MaxSteps \in 0..MaxSteps
    BY BoundsAssumption
  <2> QED
    BY <2>2, <2>3, <2>4 DEF CalendarInv
<1>3. CASE UNCHANGED allVars
  BY <1>3 DEF CalendarInv, allVars, vars, specVars
<1> QED
  BY <1>1, <1>2, <1>3 DEF SpecNext

\* The invariant holds in every state.
LEMMA CalendarAlways == RuleSpec => []CalendarInv
  BY CalendarInit, CalendarNext, PTL DEF RuleSpec

\* With the count right, so are the fields, the order, the weekday and the day of the year.
LEMMA CalendarRight == CalendarInv => CivilExact
<1> SUFFICES ASSUME CalendarInv PROVE CivilExact
  OBVIOUS
<1>1. /\ tag \in UnitSet /\ DateTime(f) /\ align(tag, f) = f
      /\ ref = Index(tag, f)
      /\ steps \in 0..MaxSteps
  BY DEF CalendarInv
<1>2. TypeOK
  <2>1. ref \in Int
    BY <1>1, IndexIs
  <2> QED
    BY <1>1, <2>1 DEF TypeOK
<1>3. FieldsExact
  BY <1>1 DEF FieldsExact, DateTime
<1>4. OrderAsCounted
  <2> SUFFICES ASSUME NEW g \in Starts
               PROVE  /\ Less(f, align(tag, g)) <=> ref < Index(tag, align(tag, g))
                      /\ Less(align(tag, g), f) <=> ref > Index(tag, align(tag, g))
    BY DEF OrderAsCounted
  <2> DEFINE h == align(tag, g)
  <2>1. DateTime(g)
    BY StartsAreDates
  <2>2. DateTime(h) /\ align(tag, h) = h
    BY <1>1, <2>1, AlignedValue
  <2> HIDE DEF h
  <2>3. /\ Less(f, h) <=> Index(tag, f) < Index(tag, h)
        /\ Less(h, f) <=> Index(tag, f) > Index(tag, h)
    BY <1>1, <2>2, LessCounts
  <2> QED
    BY <1>1, <2>3 DEF h
<1>5. WeekdaysExact
  BY <1>1, WeekdaysRight, Zenon DEF WeekdaysExact
<1> QED
  BY <1>2, <1>3, <1>4, <1>5 DEF CivilExact

\* Between two values of one unit lie as many units as their counts differ.
LEMMA CalendarDiffers == CalendarInv /\ CalendarInv' => DifferenceExactAct
<1> SUFFICES ASSUME CalendarInv, CalendarInv', tag' = tag PROVE difference(tag, f', f) = ref' - ref
  BY DEF DifferenceExactAct
<1>1. tag \in UnitSet /\ DateTime(f) /\ ref = Index(tag, f)
  BY DEF CalendarInv
<1>2. DateTime(f') /\ ref' = Index(tag, f')
  BY DEF CalendarInv
<1>3. PICK g, h : g = f' /\ h = f
  OBVIOUS
<1>4. DateTime(g) /\ DateTime(h)
  BY <1>1, <1>2, <1>3
<1>5. difference(tag, g, h) = Index(tag, g) - Index(tag, h)
  BY <1>1, <1>4, Differs
<1> QED
  BY <1>1, <1>2, <1>3, <1>5

\* A rule means the dates it says, and one for all the year joins with the next year's.
LEMMA CalendarRules == CalendarInv => RulesExact
<1> SUFFICES ASSUME CalendarInv PROVE RulesExact
  OBVIOUS
<1>1. f.y \in Int
  BY DEF CalendarInv, DateTime, Valid
<1>2. RuleDatesExact
  BY <1>1, RuleDates
<1>3. YearRound
  <2>1. Timed(posix)
    BY DEF CalendarInv
  <2>2. PICK y \in Int : y = f.y
    BY <1>1
  <2>3. ASSUME AllYearDST(posix)
        PROVE  /\ TransOffset(y, posix.dst_start) = 0
               /\ DstEnds(posix, y) = (IF Leap(y) THEN 366 ELSE 365) * 86400 + DstStarts(posix, y + 1)
    BY <2>1, <2>3, AllYear
  <2> QED
    BY <2>2, <2>3 DEF YearRound
<1> QED
  BY <1>2, <1>3 DEF RulesExact

\* The second inductive invariant: the text is made of tokens, and the rule is what the parser
\* makes of it.
TextInv == text \in Seq(Token) /\ posix = ParsePosixSpec(text)

\* It holds before a text is read, after one is, and no other step touches the two.
LEMMA TextAlways == RuleSpec => []TextInv
<1>1. SpecInit => TextInv
  <2> SUFFICES ASSUME SpecInit PROVE TextInv
    OBVIOUS
  <2>1. text = <<>> /\ posix = NoZone
    BY DEF SpecInit
  <2>2. <<>> \in Seq(Token)
    OBVIOUS
  <2>3. ParsePosixSpec(text) = NoZone
    BY <2>1, NoText
  <2> QED
    BY <2>1, <2>2, <2>3 DEF TextInv
<1>2. TextInv /\ [SpecNext]_allVars => TextInv'
  <2> SUFFICES ASSUME TextInv, [SpecNext]_allVars PROVE TextInv'
    OBVIOUS
  <2>1. CASE UNCHANGED specVars
    <3>1. text' = text /\ posix' = posix
      BY <2>1 DEF specVars
    <3> QED
      BY <3>1 DEF TextInv
  <2>2. ASSUME NEW t \in Texts, ReadSpec(t) PROVE TextInv'
    <3>1. text' = t /\ posix' = ParsePosixSpec(t)
      BY <2>2 DEF ReadSpec
    <3>2. t \in Seq(Token)
      BY TextsAssumption
    <3> QED
      BY <3>1, <3>2 DEF TextInv
  <2>3. UNCHANGED specVars \/ \E t \in Texts : ReadSpec(t)
    BY DEF SpecNext, allVars
  <2> QED
    BY <2>1, <2>2, <2>3
<1> QED
  BY <1>1, <1>2, PTL DEF RuleSpec

\* What is said of every text holds of the one that was read.
LEMMA TextRight == TextInv => SpecsAsWritten
<1> SUFFICES ASSUME TextInv PROVE SpecsAsWritten
  OBVIOUS
<1>1. PICK t \in Seq(Token) : t = text
  BY DEF TextInv
<1>2. posix = ParsePosixSpec(t)
  BY <1>1 DEF TextInv
<1>3. IF ParsePosixSpec(t).ok /\ Complete(t, ParsePosixSpec(t)) THEN Meanings(t) = {ParsePosixSpec(t)}
      ELSE Meanings(t) = {}
  BY ReadAsWritten
<1> QED
  BY <1>1, <1>2, <1>3 DEF SpecsAsWritten

\* CivilExact: after any +, -, conversion or construction from numbers out of range, the fields are the
\* date and time that counting units gives, in their place among others, with their weekday.
THEOREM CalendarExactly == RuleSpec => []CivilExact
  BY CalendarAlways, CalendarRight, PTL

\* DifferenceExact: operator- of two values is the number of units between them, whatever took the
\* program from one to the other.
THEOREM DifferencesCount == RuleSpec => DifferenceExact
  BY CalendarAlways, CalendarDiffers, PTL DEF DifferenceExact

\* RulesExact: in every year TransOffset() finds the dates that a rule of the forms Jn and Mm.w.d
\* means, and a rule that AllYearDST() accepts leaves no second of standard time.
THEOREM RulesMeanDates == RuleSpec => []RulesExact
  BY CalendarAlways, CalendarRules, PTL

\* SpecsAsWritten: whatever text a file holds, however long, ParsePosixSpec() gives the one meaning
\* that the grammar in its comments gives the text, and refuses a text without one, except those
\* that leave out the dates of daylight time or end one early.
THEOREM SpecsRead == RuleSpec => []SpecsAsWritten
  BY TextAlways, TextRight, PTL
===============================================================================
