------------------------- MODULE TimeZoneInfoProofs -------------------------
(***************************************************************************)
(* What a zone answers, for every zone, calendar and set of threads: each  *)
(* question as its file and its rule say (AnswersExactly), an earlier      *)
(* civil second never at a later time (ConvertsInOrder), and a POSIXct     *)
(* that is written is read back cut to its scale (ReadsBackWritten):       *)
(*                                                                         *)
(*   - the calendar repeats: YearStart rises, advances by CycleSecs after  *)
(*     Cycle years, and Year is its inverse;                               *)
(*   - a table with the facts Rows and Repeats answers in order, wherever  *)
(*     two civil seconds fall in it or past it (MadeInOrder);              *)
(*   - every table that Load leaves has these facts (LoadRows), by         *)
(*     induction over the loop of ExtendTransitions for an extended one;   *)
(*   - a table that tells what the file says (Told) answers exactly: a     *)
(*     time's type, a civil second's times, the next and previous change;  *)
(*   - every table that Load leaves tells it (LoadTold): a fixed offset, a *)
(*     plain table (PlainTold), and one extended by its rule (RuledTold),  *)
(*     whose changes are those of the rule and repeat after a cycle;       *)
(*   - whatever hints the threads leave each other, an answer is the one   *)
(*     for the right place of the table (Answers, the inductive invariant).*)
(*                                                                         *)
(* Induction is used in the form of a statement about sets (Induct).       *)
(***************************************************************************)
EXTENDS TimeZoneInfo, WellFoundedInduction, TLAPS

-----------------------------------------------------------------------------
(* Induction and arithmetic *)

\* The order of the natural numbers is well founded.
LEMMA OrderOfNat ==
  \E R : IsWellFoundedOn(R, Nat) /\ \A a, b \in Nat : <<a, b>> \in R <=> a < b
<1>1. IsWellFoundedOn(OpToRel(<, Nat), Nat)
  BY NatLessThanWellFounded
<1>2. \A a, b \in Nat : <<a, b>> \in OpToRel(<, Nat) <=> a < b
  BY DEF OpToRel
<1> QED
  BY <1>1, <1>2

\* Induction, as a statement about sets.
LEMMA Induct == \A S : 0 \in S /\ (\A n \in Nat : n \in S => n + 1 \in S) => Nat \subseteq S
<1> SUFFICES ASSUME NEW S, 0 \in S, \A n \in Nat : n \in S => n + 1 \in S, ~(Nat \subseteq S)
             PROVE  FALSE
  OBVIOUS
<1> DEFINE T == Nat \ S
<1>1. PICK R : IsWellFoundedOn(R, Nat) /\ \A a, b \in Nat : <<a, b>> \in R <=> a < b
  BY OrderOfNat
<1>2. PICK x \in T : \A y \in T : ~(<<y, x>> \in R)
  <2>1. IsWellFoundedOn(R, Nat) /\ T \subseteq Nat /\ T # {}
    BY <1>1
  <2> QED
    BY <2>1, WFMin, Zenon
<1>3. x \in Nat /\ x \notin S /\ x # 0 /\ x - 1 \in Nat
  BY <1>2
<1>4. x - 1 \in T
  BY <1>3
<1>5. <<x - 1, x>> \in R <=> x - 1 < x
  BY <1>1, <1>3
<1> QED
  BY <1>2, <1>3, <1>4, <1>5

\* A function can be defined by what it is at 0 and how it goes on from there.
Iterate(f, S, s0, n, g) ==
  f \in [0..n -> S] /\ f[0] = s0 /\ \A i \in 1..n : f[i] = g[<<f[i - 1], i>>]

\* Such a function exists, however far it goes.
LEMMA Iterates ==
  ASSUME NEW S, NEW s0 \in S, NEW n \in Nat, NEW g \in [S \X (1..n) -> S]
  PROVE  \E f : Iterate(f, S, s0, n, g)
<1> DEFINE Upto(m, f) == f \in [0..m -> S] /\ f[0] = s0 /\ \A i \in 1..m : f[i] = g[<<f[i - 1], i>>]
           M == {m \in Nat : m <= n => \E f : Upto(m, f)}
<1>1. 0 \in M
  <2>1. Upto(0, [i \in 0..0 |-> s0])
    OBVIOUS
  <2> QED
    BY <2>1
<1>2. ASSUME NEW m \in Nat, m \in M PROVE m + 1 \in M
  <2> SUFFICES ASSUME m + 1 <= n PROVE \E f : Upto(m + 1, f)
    OBVIOUS
  <2>1. PICK f : Upto(m, f)
    BY <1>2
  <2> DEFINE h == [i \in 0..m + 1 |-> IF i = m + 1 THEN g[<<f[m], m + 1>>] ELSE f[i]]
  <2>2. f[m] \in S /\ g[<<f[m], m + 1>>] \in S
    BY <2>1
  <2>3. h \in [0..m + 1 -> S] /\ h[0] = s0
    BY <2>1, <2>2
  <2>4. ASSUME NEW i \in 1..m + 1 PROVE h[i] = g[<<h[i - 1], i>>]
    <3>1. CASE i = m + 1
      <4>1. h[i] = g[<<f[m], m + 1>>] /\ h[i - 1] = f[m]
        BY <3>1
      <4> QED
        BY <3>1, <4>1
    <3>2. CASE i # m + 1
      <4>1. h[i] = f[i] /\ h[i - 1] = f[i - 1] /\ i \in 1..m
        BY <3>2
      <4> QED
        BY <4>1, <2>1
    <3> QED
      BY <3>1, <3>2
  <2> HIDE DEF h
  <2> QED
    BY <2>3, <2>4
<1>3. n \in M
  <2> HIDE DEF M
  <2> QED
    BY <1>1, <1>2, Induct
<1> QED
  BY <1>3 DEF Iterate


\* Division by a positive number, and that it is unique.
LEMMA Division ==
  ASSUME NEW a \in Int, NEW d \in Nat \ {0}
  PROVE  /\ a \div d \in Int /\ a % d \in 0..d - 1
         /\ a = d * (a \div d) + (a % d)
<1>1. a \div d \in Int /\ a % d \in Int
  OBVIOUS
<1>2. a = d * (a \div d) + (a % d)
  OBVIOUS
<1>3. 0 <= a % d /\ a % d < d
  OBVIOUS
<1> QED
  BY <1>1, <1>2, <1>3

\* A step up in a factor is a whole d up in the product.
LEMMA MulMono ==
  ASSUME NEW a \in Int, NEW b \in Int, NEW d \in Nat \ {0}, a < b
  PROVE  d * a + d <= d * b
<1>1. PICK e \in Nat : b = a + 1 + e
  <2>1. b - a - 1 \in Nat /\ b = a + 1 + (b - a - 1)
    OBVIOUS
  <2> QED
    BY <2>1
<1>2. d * b = d * a + d + d * e
  BY <1>1
<1>3. d * e \in Nat
  BY <1>1
<1> QED
  BY <1>2, <1>3

\* A quotient and a remainder below the divisor are the ones \div and % give.
LEMMA DivisionUnique ==
  ASSUME NEW q \in Int, NEW d \in Nat \ {0}, NEW r \in 0..d - 1
  PROVE  (d * q + r) \div d = q /\ (d * q + r) % d = r
<1> DEFINE a == d * q + r
           p == a \div d
           m == a % d
<1>1. a \in Int /\ p \in Int /\ m \in 0..d - 1 /\ d * q + r = d * p + m /\ d * q \in Int /\ d * p \in Int
  <2>1. a \in Int
    OBVIOUS
  <2> QED
    BY <2>1, Division
<1> HIDE DEF p, m
<1>2. ~(q < p)
  <2> SUFFICES ASSUME q < p PROVE FALSE
    OBVIOUS
  <2>1. d * q + d <= d * p
    BY <1>1, MulMono
  <2> QED
    BY <1>1, <2>1
<1>3. ~(p < q)
  <2> SUFFICES ASSUME p < q PROVE FALSE
    OBVIOUS
  <2>1. d * p + d <= d * q
    BY <1>1, MulMono
  <2> QED
    BY <1>1, <2>1
<1>4. p = q
  BY <1>1, <1>2, <1>3
<1>5. m = r
  BY <1>1, <1>4
<1> QED
  BY <1>4, <1>5 DEF p, m

\* A function that rises from each place to the next rises.
LEMMA Rising ==
  ASSUME NEW a \in Int, NEW b \in Int, NEW f, \A i \in a..b : f[i] \in Int,
         \A i \in a..b - 1 : f[i] < f[i + 1]
  PROVE  \A i, j \in a..b : i < j => f[i] < f[j]
<1> SUFFICES ASSUME NEW i \in a..b PROVE \A j \in a..b : i < j => f[i] < f[j]
  OBVIOUS
<1> DEFINE M == {n \in Nat : i + 1 + n <= b => f[i] < f[i + 1 + n]}
<1>1. 0 \in M
  <2>1. ASSUME i + 1 + 0 <= b PROVE f[i] < f[i + 1 + 0]
    <3>1. i \in a..b - 1 /\ i + 1 + 0 = i + 1
      BY <2>1
    <3> QED
      BY <3>1
  <2> QED
    BY <2>1
<1>2. ASSUME NEW n \in Nat, n \in M PROVE n + 1 \in M
  <2>1. ASSUME i + 1 + (n + 1) <= b PROVE f[i] < f[i + 1 + (n + 1)]
    <3>1. f[i] < f[i + 1 + n]
      BY <1>2, <2>1
    <3>2. i + 1 + n \in a..b - 1 /\ i + 1 + (n + 1) = (i + 1 + n) + 1 /\ (i + 1 + n) + 1 \in a..b
      BY <2>1
    <3>3. f[i + 1 + n] < f[(i + 1 + n) + 1]
      BY <3>2
    <3>4. f[i] \in Int /\ f[i + 1 + n] \in Int /\ f[(i + 1 + n) + 1] \in Int
      BY <3>2
    <3> QED
      BY <3>1, <3>2, <3>3, <3>4
  <2> QED
    BY <2>1
<1>3. \A n \in Nat : n \in M
  <2> HIDE DEF M
  <2> QED
    BY <1>1, <1>2, Induct
<1>4. ASSUME NEW j \in a..b, i < j PROVE f[i] < f[j]
  <2>1. j - i - 1 \in Nat /\ i + 1 + (j - i - 1) = j /\ j <= b
    BY <1>4
  <2>2. j - i - 1 \in M
    BY <2>1, <1>3
  <2> QED
    BY <2>1, <2>2
<1> QED
  BY <1>4

-----------------------------------------------------------------------------
(* The calendar *)

\* A cycle has years, and every year has seconds.
LEMMA CycleFacts == Cycle \in Nat \ {0} /\ \A k \in 0..Cycle - 1 : YearSecs[k] \in Nat \ {0}
BY CycleAssumption

\* The seconds of the first k years of a cycle are what the recursion says.
LEMMA YearsSecsRec ==
  /\ YearsSecs \in [0..Cycle -> Nat] /\ YearsSecs[0] = 0
  /\ \A k \in 0..Cycle - 1 : YearsSecs[k + 1] = YearsSecs[k] + YearSecs[k]
<1> DEFINE g == [x \in Nat \X (1..Cycle) |-> x[1] + YearSecs[x[2] - 1]]
           body(f) == [k \in 0..Cycle |-> IF k = 0 THEN 0 ELSE f[k - 1] + YearSecs[k - 1]]
<1>1. Cycle \in Nat /\ \A k \in 1..Cycle : YearSecs[k - 1] \in Nat
  BY CycleFacts
<1>2. g \in [Nat \X (1..Cycle) -> Nat]
  BY <1>1
<1>3. PICK f : Iterate(f, Nat, 0, Cycle, g)
  <2> HIDE DEF g
  <2> QED
    BY <1>1, <1>2, Iterates
<1>4. ASSUME NEW k \in 1..Cycle PROVE f[k] = f[k - 1] + YearSecs[k - 1]
  <2>1. <<f[k - 1], k>> \in Nat \X (1..Cycle)
    BY <1>1, <1>3 DEF Iterate
  <2>2. g[<<f[k - 1], k>>] = f[k - 1] + YearSecs[k - 1]
    BY <2>1
  <2> QED
    BY <1>3, <2>2 DEF Iterate
<1>5. f = body(f)
  BY <1>3, <1>4 DEF Iterate
<1>6. YearsSecs = CHOOSE h : h = body(h)
  BY DEF YearsSecs
<1>7. YearsSecs = body(YearsSecs)
  <2> HIDE DEF body
  <2> QED
    BY <1>5, <1>6, Zenon
<1>8. YearsSecs[0] = 0 /\ \A k \in 1..Cycle : YearsSecs[k] = YearsSecs[k - 1] + YearSecs[k - 1]
  BY <1>7, <1>1
<1>9. \A k \in 0..Cycle - 1 : YearsSecs[k + 1] = YearsSecs[k] + YearSecs[k]
  <2>1. ASSUME NEW k \in 0..Cycle - 1 PROVE YearsSecs[k + 1] = YearsSecs[k] + YearSecs[k]
    <3>1. k + 1 \in 1..Cycle /\ k + 1 - 1 = k
      BY <1>1
    <3> QED
      BY <1>8, <3>1
  <2> QED
    BY <2>1
<1>10. YearsSecs \in [0..Cycle -> Nat]
  <2> DEFINE M == {k \in Nat : k <= Cycle => YearsSecs[k] \in Nat}
  <2>1. 0 \in M
    BY <1>8
  <2>2. ASSUME NEW k \in Nat, k \in M PROVE k + 1 \in M
    <3>1. ASSUME k + 1 <= Cycle PROVE YearsSecs[k + 1] \in Nat
      <4>1. k \in 0..Cycle - 1 /\ YearsSecs[k] \in Nat /\ YearSecs[k] \in Nat
        BY <3>1, <2>2, CycleFacts
      <4> QED
        BY <4>1, <1>9
    <3> QED
      BY <3>1
  <2>3. \A k \in Nat : k \in M
    <3> HIDE DEF M
    <3> QED
      BY <2>1, <2>2, Induct
  <2>4. \A k \in 0..Cycle : YearsSecs[k] \in Nat
    BY <2>3, <1>1
  <2> QED
    BY <1>7, <2>4
<1> QED
  BY <1>8, <1>9, <1>10

\* Later years of a cycle start later.
LEMMA YearsRise ==
  /\ \A k \in 0..Cycle - 1 : YearsSecs[k] < YearsSecs[k + 1]
  /\ \A i, j \in 0..Cycle : i < j => YearsSecs[i] < YearsSecs[j]
  /\ CycleSecs \in Nat \ {0}
<1>1. \A k \in 0..Cycle - 1 : YearsSecs[k] < YearsSecs[k + 1]
  <2>1. ASSUME NEW k \in 0..Cycle - 1 PROVE YearsSecs[k] < YearsSecs[k + 1]
    <3>1. YearsSecs[k + 1] = YearsSecs[k] + YearSecs[k] /\ YearsSecs[k] \in Nat /\ YearSecs[k] \in Nat \ {0}
      BY YearsSecsRec, CycleFacts
    <3> QED
      BY <3>1
  <2> QED
    BY <2>1
<1>2. \A i, j \in 0..Cycle : i < j => YearsSecs[i] < YearsSecs[j]
  <2>1. \A i \in 0..Cycle : YearsSecs[i] \in Int
    BY YearsSecsRec
  <2> QED
    <3> DEFINE f == YearsSecs
    <3>1. 0 \in Int /\ Cycle \in Int /\ (\A i \in 0..Cycle : f[i] \in Int)
          /\ \A i \in 0..Cycle - 1 : f[i] < f[i + 1]
      BY <1>1, <2>1, CycleFacts
    <3>2. \A i, j \in 0..Cycle : i < j => f[i] < f[j]
      <4> HIDE DEF f
      <4> QED
        BY <3>1, Rising
    <3> QED
      BY <3>2
<1>3. YearsSecs[0] < YearsSecs[Cycle]
  BY <1>2, CycleFacts
<1> QED
  BY <1>1, <1>2, <1>3, YearsSecsRec, CycleFacts DEF CycleSecs

\* A year and its place in the cycle.
LEMMA YearStartAt ==
  ASSUME NEW q \in Int, NEW k \in 0..Cycle - 1
  PROVE  /\ Cycle * q + k \in Int /\ (Cycle * q + k) % Cycle = k
         /\ YearStart(Cycle * q + k) = q * CycleSecs + YearsSecs[k]
<1>1. Cycle * q + k \in Int
  BY CycleFacts
<1>2. (Cycle * q + k) \div Cycle = q /\ (Cycle * q + k) % Cycle = k
  BY DivisionUnique, CycleFacts
<1> QED
  BY <1>1, <1>2 DEF YearStart

\* A year starts where the year before it ends.
LEMMA YearStartNext ==
  ASSUME NEW y \in Int
  PROVE  /\ YearStart(y) \in Int /\ y % Cycle \in 0..Cycle - 1
         /\ YearSecs[y % Cycle] \in Nat \ {0}
         /\ YearStart(y + 1) = YearStart(y) + YearSecs[y % Cycle]
<1> DEFINE q == y \div Cycle
           k == y % Cycle
<1>1. q \in Int /\ k \in 0..Cycle - 1 /\ y = Cycle * q + k
  BY Division, CycleFacts
<1> HIDE DEF q, k
<1>2. YearStart(y) = q * CycleSecs + YearsSecs[k] /\ y % Cycle = k
  BY <1>1, YearStartAt
<1>3. q * CycleSecs \in Int /\ YearsSecs[k] \in Nat /\ YearSecs[k] \in Nat \ {0}
      /\ YearsSecs[k + 1] = YearsSecs[k] + YearSecs[k]
  BY <1>1, YearsRise, YearsSecsRec, CycleFacts
<1>4. YearStart(y + 1) = q * CycleSecs + YearsSecs[k + 1]
  <2>1. CASE k + 1 \in 0..Cycle - 1
    <3>1. y + 1 = Cycle * q + (k + 1)
      BY <1>1, CycleFacts
    <3> QED
      BY <1>1, <2>1, <3>1, YearStartAt
  <2>2. CASE k + 1 = Cycle
    <3>1. y + 1 = Cycle * (q + 1) + 0 /\ q + 1 \in Int /\ 0 \in 0..Cycle - 1
      BY <1>1, <2>2, CycleFacts
    <3>2. YearStart(y + 1) = (q + 1) * CycleSecs + YearsSecs[0]
      BY <3>1, YearStartAt
    <3>3. (q + 1) * CycleSecs = q * CycleSecs + CycleSecs
      BY <1>1, YearsRise
    <3>4. YearsSecs[0] = 0 /\ YearsSecs[k + 1] = CycleSecs /\ CycleSecs \in Int
      BY <2>2, YearsSecsRec, YearsRise DEF CycleSecs
    <3> QED
      BY <3>2, <3>3, <3>4, <1>3
  <2> QED
    BY <1>1, <2>1, <2>2, CycleFacts
<1> QED
  BY <1>1, <1>2, <1>3, <1>4

\* The calendar repeats: n cycles of years on, a year starts n cycles of seconds on.
LEMMA YearStartCycle ==
  ASSUME NEW y \in Int, NEW n \in Int
  PROVE  /\ YearStart(y + n * Cycle) = YearStart(y) + n * CycleSecs
         /\ (y + n * Cycle) % Cycle = y % Cycle
<1> DEFINE q == y \div Cycle
           k == y % Cycle
<1>1. q \in Int /\ k \in 0..Cycle - 1 /\ y = Cycle * q + k
  BY Division, CycleFacts
<1> HIDE DEF q, k
<1>2. YearStart(y) = q * CycleSecs + YearsSecs[k] /\ y % Cycle = k
  BY <1>1, YearStartAt
<1>3. y + n * Cycle = Cycle * (q + n) + k /\ q + n \in Int
  BY <1>1, CycleFacts
<1>4. YearStart(y + n * Cycle) = (q + n) * CycleSecs + YearsSecs[k] /\ (y + n * Cycle) % Cycle = k
  BY <1>1, <1>3, YearStartAt
<1>5. (q + n) * CycleSecs = q * CycleSecs + n * CycleSecs /\ YearsSecs[k] \in Nat
      /\ q * CycleSecs \in Int /\ n * CycleSecs \in Int
  <2>1. CycleSecs \in Int /\ YearsSecs[k] \in Nat
    BY <1>1, YearsRise, YearsSecsRec, CycleFacts
  <2> QED
    BY <1>1, <2>1
<1> QED
  BY <1>2, <1>4, <1>5

\* Later years start later.
LEMMA YearStartRises ==
  ASSUME NEW y \in Int, NEW z \in Int, y < z
  PROVE  YearStart(y) < YearStart(z)
<1> DEFINE f == [i \in Int |-> YearStart(i)]
<1>1. \A i \in y..z : f[i] \in Int
  BY YearStartNext
<1>2. \A i \in y..z - 1 : f[i] < f[i + 1]
  <2>1. ASSUME NEW i \in y..z - 1 PROVE f[i] < f[i + 1]
    <3>1. YearStart(i + 1) = YearStart(i) + YearSecs[i % Cycle] /\ YearSecs[i % Cycle] \in Nat \ {0}
          /\ YearStart(i) \in Int
      BY YearStartNext
    <3> QED
      BY <3>1
  <2> QED
    BY <2>1
<1>3. y \in y..z /\ z \in y..z
  OBVIOUS
<1>4. f[y] < f[z]
  <2> HIDE DEF f
  <2> QED
    BY <1>1, <1>2, <1>3, Rising
<1> QED
  BY <1>4

\* Among n numbers there is a place for x: all before it are at most x, and the next is greater.
LEMMA PlaceExists ==
  ASSUME NEW n \in Nat, NEW x \in Int, NEW f, \A i \in 1..n : f[i] \in Int
  PROVE  \E p \in 0..n : (\A i \in 1..p : f[i] <= x) /\ (p < n => x < f[p + 1])
<1> DEFINE Ok(m, p) == (\A i \in 1..p : f[i] <= x) /\ (p < m => x < f[p + 1])
           M == {m \in Nat : m <= n => \E p \in 0..m : Ok(m, p)}
<1>1. 0 \in M
  OBVIOUS
<1>2. ASSUME NEW m \in Nat, m \in M PROVE m + 1 \in M
  <2> SUFFICES ASSUME m + 1 <= n PROVE \E p \in 0..m + 1 : Ok(m + 1, p)
    OBVIOUS
  <2>1. PICK p \in 0..m : Ok(m, p)
    BY <1>2
  <2>2. f[m + 1] \in Int
    OBVIOUS
  <2>3. CASE p < m
    BY <2>1, <2>3
  <2>4. CASE p = m /\ f[m + 1] <= x
    <3>1. \A i \in 1..m + 1 : i \in 1..m \/ i = m + 1
      OBVIOUS
    <3>2. Ok(m + 1, m + 1)
      BY <2>1, <2>4, <3>1
    <3> QED
      BY <3>2
  <2>5. CASE p = m /\ x < f[m + 1]
    <3>1. Ok(m + 1, m) /\ m \in 0..m + 1
      BY <2>1, <2>5
    <3> QED
      BY <3>1
  <2> QED
    BY <2>2, <2>3, <2>4, <2>5
<1>3. n \in M
  <2> HIDE DEF M
  <2> QED
    BY <1>1, <1>2, Induct
<1> QED
  BY <1>3

\* Year(cs) is the year that cs falls in.
LEMMA YearOf ==
  ASSUME NEW cs \in Int
  PROVE  Year(cs) \in Int /\ YearStart(Year(cs)) <= cs /\ cs < YearStart(Year(cs) + 1)
<1> DEFINE q == cs \div CycleSecs
           r == cs % CycleSecs
           first == Cycle * q
<1>1. q \in Int /\ r \in 0..CycleSecs - 1 /\ cs = CycleSecs * q + r
  BY Division, YearsRise
<1> HIDE DEF q, r
<1>2. first \in Int /\ CycleSecs \in Nat \ {0} /\ CycleSecs * q \in Int /\ CycleSecs * q = q * CycleSecs
  BY <1>1, CycleFacts, YearsRise
<1>3. PICK k \in 0..Cycle - 1 : YearsSecs[k] <= r /\ r < YearsSecs[k + 1]
  <2> DEFINE f == YearsSecs
  <2>1. /\ Cycle \in Nat \ {0} /\ r \in Int /\ 0 <= r /\ r < f[Cycle] /\ f[0] = 0
        /\ \A i \in 0..Cycle : f[i] \in Nat
    BY <1>1, CycleFacts, YearsSecsRec, YearsRise DEF CycleSecs
  <2> HIDE DEF f
  <2>2. PICK p \in 0..Cycle : (\A i \in 1..p : f[i] <= r) /\ (p < Cycle => r < f[p + 1])
    <3>1. \A i \in 1..Cycle : f[i] \in Int
      BY <2>1
    <3> QED
      BY <2>1, <3>1, PlaceExists
  <2>3. p # Cycle
    <3> SUFFICES ASSUME p = Cycle PROVE FALSE
      OBVIOUS
    <3>1. f[Cycle] <= r
      BY <2>1, <2>2
    <3> QED
      BY <2>1, <3>1
  <2>4. f[p] <= r /\ r < f[p + 1] /\ p \in 0..Cycle - 1
    BY <2>1, <2>2, <2>3
  <2> QED
    BY <2>4 DEF f
<1> DEFINE y == first + k
<1>4. y \in first..first + Cycle - 1 /\ y \in Int
  BY <1>2, CycleFacts
<1>5. YearStart(y) = q * CycleSecs + YearsSecs[k] /\ y % Cycle = k
  BY <1>1, YearStartAt
<1>6. YearStart(y + 1) = YearStart(y) + YearSecs[k] /\ YearStart(y) \in Int
  BY <1>4, <1>5, YearStartNext
<1>7. YearsSecs[k + 1] = YearsSecs[k] + YearSecs[k] /\ YearsSecs[k] \in Nat /\ YearSecs[k] \in Nat
  BY YearsSecsRec, CycleFacts
<1>8. YearStart(y) <= cs /\ cs < YearStart(y + 1)
  BY <1>1, <1>2, <1>3, <1>5, <1>6, <1>7
<1>9. \E z \in first..first + Cycle - 1 : YearStart(z) <= cs /\ cs < YearStart(z + 1)
  <2> HIDE DEF y, first
  <2> QED
    BY <1>4, <1>8
<1>10. Year(cs) = CHOOSE z \in first..first + Cycle - 1 : YearStart(z) <= cs /\ cs < YearStart(z + 1)
  BY DEF Year, q
<1>11. Year(cs) \in first..first + Cycle - 1 /\ YearStart(Year(cs)) <= cs /\ cs < YearStart(Year(cs) + 1)
  <2> HIDE DEF first
  <2> QED
    BY <1>9, <1>10, Zenon
<1> QED
  BY <1>2, <1>11, CycleFacts

\* Year and YearStart order civil seconds and years alike.
LEMMA YearIs ==
  ASSUME NEW cs \in Int, NEW y \in Int
  PROVE  /\ (YearStart(y) <= cs <=> y <= Year(cs))
         /\ (cs < YearStart(y + 1) <=> Year(cs) <= y)
<1> DEFINE z == Year(cs)
<1>1. z \in Int /\ YearStart(z) <= cs /\ cs < YearStart(z + 1)
  BY YearOf
<1> HIDE DEF z
<1>2. YearStart(y) \in Int /\ YearStart(y + 1) \in Int /\ YearStart(z) \in Int /\ YearStart(z + 1) \in Int
  BY <1>1, YearStartNext
<1>3. \A a, b \in Int : a < b => YearStart(a) < YearStart(b)
  BY YearStartRises
<1>4. ASSUME NEW a \in Int, NEW b \in Int, a <= b
      PROVE  YearStart(a) <= YearStart(b)
  <2>1. YearStart(a) \in Int
    BY YearStartNext
  <2>2. CASE a = b
    BY <2>1, <2>2
  <2>3. CASE a < b
    <3>1. YearStart(a) < YearStart(b) /\ YearStart(b) \in Int
      BY <1>3, <2>3, YearStartNext
    <3> QED
      BY <2>1, <3>1
  <2> QED
    BY <1>4, <2>2, <2>3
<1>5. CASE y <= z
  <2>1. YearStart(y) <= YearStart(z)
    BY <1>1, <1>4, <1>5
  <2>2. CASE y = z
    BY <1>1, <1>2, <1>5, <2>2 DEF z
  <2>3. CASE y < z
    <3>1. YearStart(y + 1) <= YearStart(z)
      BY <1>1, <1>4, <2>3
    <3> QED
      BY <1>1, <1>2, <2>1, <2>3, <3>1 DEF z
  <2> QED
    BY <1>1, <1>5, <2>2, <2>3
<1>6. CASE z < y
  <2>1. YearStart(z + 1) <= YearStart(y) /\ YearStart(y) < YearStart(y + 1)
    BY <1>1, <1>3, <1>4, <1>6
  <2> QED
    BY <1>1, <1>2, <1>6, <2>1 DEF z
<1> QED
  BY <1>1, <1>5, <1>6

-----------------------------------------------------------------------------
(* A loaded table *)

\* The offset from the i-th transition on, and before the first.
Off(i) == TypeOf(IF i = 0 THEN zone.default ELSE zone.trans[i].index).off
PrevAt(i) == zone.trans[i].prev_civil_sec
PastTable == YearStart(zone.last_year + 1)

\* What conversions need of a table: times and local times rise, the local times are those of
\* the types, and every time is representable.
Rows ==
  /\ N \in Nat \ {0}
  /\ \A i \in 0..N : Off(i) \in Int
  /\ \A i \in 1..N : TimeAt(i) \in Int /\ CivilAt(i) = TimeAt(i) + Off(i)
                     /\ PrevAt(i) = TimeAt(i) + Off(i - 1) - 1
  /\ \A i \in 1..N - 1 : TimeAt(i) < TimeAt(i + 1) /\ CivilAt(i) < CivilAt(i + 1)
  /\ MinTime <= TimeAt(1) /\ MinTime <= CivilAt(1) - Off(0) /\ TimeAt(N) <= MaxTime

\* What they need of a table that a rule has extended: it ends before the year after last_year
\* begins, and one cycle before that year the same offset is in force.
Repeats ==
  zone.extended =>
    /\ zone.last_year \in Int
    /\ CivilAt(N) < PastTable /\ PrevAt(N) < PastTable
    /\ \E p \in 1..N :
         /\ Off(p) = Off(N)
         /\ CivilAt(p) <= PastTable - CycleSecs /\ PrevAt(p) < PastTable - CycleSecs
         /\ p < N => /\ PastTable - CycleSecs <= PrevAt(p + 1) + 1
                     /\ PastTable - CycleSecs <= CivilAt(p + 1)

\* p is the number of transitions whose local time is at most c.
At(c, p) ==
  p \in 0..N /\ (\A i \in 1..p : CivilAt(i) <= c) /\ (p < N => c < CivilAt(p + 1))

\* Times and civil times of the transitions both rise along the table.
LEMMA RowsRise ==
  ASSUME Rows
  PROVE  \A i, j \in 1..N : i < j => TimeAt(i) < TimeAt(j) /\ CivilAt(i) < CivilAt(j)
<1> DEFINE f == [i \in 1..N |-> TimeAt(i)]
           g == [i \in 1..N |-> CivilAt(i)]
<1>1. N \in Nat /\ \A i \in 1..N : TimeAt(i) \in Int /\ CivilAt(i) \in Int
  <2>1. N \in Nat /\ \A i \in 1..N : TimeAt(i) \in Int /\ CivilAt(i) = TimeAt(i) + Off(i) /\ Off(i) \in Int
    BY DEF Rows
  <2> QED
    BY <2>1
<1>2. \A i \in 1..N : f[i] \in Int /\ g[i] \in Int
  BY <1>1
<1>3. \A i \in 1..N - 1 : f[i] < f[i + 1] /\ g[i] < g[i + 1]
  <2>1. ASSUME NEW i \in 1..N - 1 PROVE f[i] < f[i + 1] /\ g[i] < g[i + 1]
    <3>1. i \in 1..N /\ i + 1 \in 1..N
      BY <1>1
    <3>2. TimeAt(i) < TimeAt(i + 1) /\ CivilAt(i) < CivilAt(i + 1)
      BY DEF Rows
    <3> QED
      BY <3>1, <3>2
  <2> QED
    BY <2>1
<1>4. \A i, j \in 1..N : i < j => f[i] < f[j]
  <2> HIDE DEF f, g
  <2>1. 1 \in Int /\ N \in Int /\ (\A i \in 1..N : f[i] \in Int) /\ (\A i \in 1..N - 1 : f[i] < f[i + 1])
    BY <1>1, <1>2, <1>3
  <2> QED
    BY <2>1, Rising
<1>5. \A i, j \in 1..N : i < j => g[i] < g[j]
  <2> HIDE DEF f, g
  <2>1. 1 \in Int /\ N \in Int /\ (\A i \in 1..N : g[i] \in Int) /\ (\A i \in 1..N - 1 : g[i] < g[i + 1])
    BY <1>1, <1>2, <1>3
  <2> QED
    BY <2>1, Rising
<1> QED
  BY <1>4, <1>5

\* What convert() makes of each case of MakeTime.
Skipped(c, p) == p < N /\ PrevAt(p + 1) < c
Repeated(c, p) == p > 0 /\ ~Skipped(c, p) /\ c <= PrevAt(p)

\* What convert() makes of MakePlaced at each kind of place.
LEMMA PlacedValue ==
  ASSUME Rows, NEW c \in Int, NEW p \in 0..N
  PROVE  LET v == convert(MakePlaced(c, p)) IN
         /\ Skipped(c, p) => v = TimeAt(p + 1)
         /\ Repeated(c, p) => v = c - Off(p - 1)
         /\ ~Skipped(c, p) /\ p = 0 => v = IF c < MinTime + Off(0) THEN MinTime ELSE c - Off(0)
         /\ ~Skipped(c, p) /\ ~Repeated(c, p) /\ p > 0 =>
              v = IF p = N /\ c > MaxTime + Off(N) THEN MaxTime ELSE c - Off(p)
<1>1. N \in Nat \ {0} /\ N >= 1 /\ p \in Int
  BY DEF Rows
<1>2. p < N => p + 1 \in 1..N /\ TimeAt(p + 1) \in Int /\ PrevAt(p + 1) \in Int
  <2>1. ASSUME p < N PROVE p + 1 \in 1..N /\ TimeAt(p + 1) \in Int /\ Off(p) \in Int
                           /\ PrevAt(p + 1) = TimeAt(p + 1) + Off(p) - 1
    <3>1. p + 1 \in 1..N /\ p + 1 - 1 = p
      BY <1>1, <2>1
    <3> QED
      BY <3>1 DEF Rows
  <2> QED
    BY <2>1
<1>3. p > 0 => /\ p \in 1..N /\ TimeAt(p) \in Int /\ Off(p) \in Int /\ Off(p - 1) \in Int
               /\ CivilAt(p) = TimeAt(p) + Off(p) /\ PrevAt(p) = TimeAt(p) + Off(p - 1) - 1
               /\ TypeOf(zone.trans[p].index).off = Off(p)
  <2>1. ASSUME p > 0 PROVE p \in 1..N /\ p - 1 \in 0..N
    BY <1>1, <2>1
  <2> QED
    BY <2>1 DEF Rows, Off
<1>4. TypeOf(zone.default).off = Off(0) /\ Off(0) \in Int
  BY <1>1 DEF Rows, Off
<1>5. CASE Skipped(c, p)
  <2>1. MakePlaced(c, p) = MakeSkipped(zone.trans[p + 1], c)
    BY <1>1, <1>2, <1>5 DEF MakePlaced, Skipped, PrevAt
  <2>2. convert(MakePlaced(c, p)) = TimeAt(p + 1)
    BY <2>1 DEF MakeSkipped, Lookup, convert, TimeAt
  <2> QED
    BY <1>1, <1>5, <2>2 DEF Repeated
<1>6. CASE ~Skipped(c, p) /\ p = 0
  <2>1. PrevAt(p + 1) >= c
    BY <1>1, <1>2, <1>6 DEF Skipped
  <2>2. MakePlaced(c, p)
          = MakeUnique(IF c < MinTime + TypeOf(zone.default).off THEN MinTime
                       ELSE c - TypeOf(zone.default).off)
    BY <1>1, <1>2, <1>6, <2>1 DEF MakePlaced, PrevAt
  <2>3. convert(MakePlaced(c, p)) = IF c < MinTime + Off(0) THEN MinTime ELSE c - Off(0)
    BY <1>4, <2>2 DEF MakeUnique, Lookup, convert
  <2> QED
    BY <1>1, <1>6, <2>3 DEF Repeated
<1>7. CASE Repeated(c, p)
  <2>1. p > 0 /\ ~(p < N /\ PrevAt(p + 1) < c) /\ c <= PrevAt(p)
    BY <1>7 DEF Repeated, Skipped
  <2>2. MakePlaced(c, p) = MakeRepeated(zone.trans[p], c)
    BY <1>1, <1>2, <1>3, <2>1 DEF MakePlaced, PrevAt
  <2>3. convert(MakePlaced(c, p)) = TimeAt(p) - 1 - (PrevAt(p) - c)
    BY <2>2 DEF MakeRepeated, Lookup, convert, TimeAt, PrevAt
  <2>4. convert(MakePlaced(c, p)) = c - Off(p - 1)
    BY <1>3, <2>1, <2>3
  <2> QED
    BY <1>1, <1>7, <2>1, <2>4 DEF Repeated
<1>8. CASE ~Skipped(c, p) /\ ~Repeated(c, p) /\ p > 0
  <2>1. p > 0 /\ ~(p < N /\ PrevAt(p + 1) < c) /\ c > PrevAt(p)
    BY <1>3, <1>8 DEF Repeated, Skipped
  <2>2. CASE p = N /\ c > MaxTime + Off(N)
    <3>1. MakePlaced(c, p) = MakeUnique(MaxTime)
      BY <1>1, <1>3, <2>1, <2>2 DEF MakePlaced, PrevAt
    <3>2. convert(MakePlaced(c, p)) = MaxTime
      BY <3>1 DEF MakeUnique, Lookup, convert
    <3> QED
      BY <1>1, <1>8, <2>2, <3>2
  <2>3. CASE ~(p = N /\ c > MaxTime + Off(N))
    <3>1. MakePlaced(c, p) = MakeUnique(TimeAt(p) + (c - CivilAt(p)))
      BY <1>1, <1>3, <2>1, <2>3 DEF MakePlaced, PrevAt, TimeAt, CivilAt
    <3>2. convert(MakePlaced(c, p)) = TimeAt(p) + (c - CivilAt(p))
      BY <3>1 DEF MakeUnique, Lookup, convert
    <3>3. convert(MakePlaced(c, p)) = c - Off(p)
      BY <1>3, <2>1, <3>2
    <3> QED
      BY <1>1, <1>8, <2>3, <3>3
  <2> QED
    BY <2>2, <2>3
<1> QED
  BY <1>1, <1>5, <1>6, <1>7, <1>8

\* The row at p and the next one, for a place p.
LEMMA RowsAt ==
  ASSUME Rows, NEW p \in 0..N
  PROVE  /\ N \in Nat \ {0} /\ Off(p) \in Int /\ {MinTime, MaxTime} \subseteq Int
         /\ p < N => /\ p + 1 \in 1..N /\ TimeAt(p + 1) \in Int /\ Off(p + 1) \in Int
                     /\ CivilAt(p + 1) = TimeAt(p + 1) + Off(p + 1)
                     /\ PrevAt(p + 1) = TimeAt(p + 1) + Off(p) - 1
                     /\ MinTime <= TimeAt(p + 1) /\ TimeAt(p + 1) <= MaxTime
<1>1. N \in Nat \ {0} /\ Off(p) \in Int /\ {MinTime, MaxTime} \subseteq Int
  BY TimesAssumption DEF Rows
<1>2. ASSUME p < N
      PROVE  /\ p + 1 \in 1..N /\ TimeAt(p + 1) \in Int /\ Off(p + 1) \in Int
             /\ CivilAt(p + 1) = TimeAt(p + 1) + Off(p + 1)
             /\ PrevAt(p + 1) = TimeAt(p + 1) + Off(p) - 1
             /\ MinTime <= TimeAt(p + 1) /\ TimeAt(p + 1) <= MaxTime
  <2>1. p + 1 \in 1..N /\ p + 1 - 1 = p /\ p + 1 \in 0..N /\ 1 \in 1..N /\ N \in 1..N
    BY <1>1, <1>2
  <2>2. TimeAt(p + 1) \in Int /\ TimeAt(1) \in Int /\ TimeAt(N) \in Int /\ Off(p + 1) \in Int
        /\ MinTime <= TimeAt(1) /\ TimeAt(N) <= MaxTime
    BY <2>1 DEF Rows
  <2>3. CivilAt(p + 1) = TimeAt(p + 1) + Off(p + 1) /\ PrevAt(p + 1) = TimeAt(p + 1) + Off(p) - 1
    BY <2>1 DEF Rows
  <2>4. TimeAt(1) <= TimeAt(p + 1)
    <3>1. CASE p + 1 = 1
      BY <2>2, <3>1
    <3>2. CASE 1 < p + 1
      BY <2>1, <2>2, <3>2, RowsRise
    <3> QED
      BY <2>1, <3>1, <3>2
  <2>5. TimeAt(p + 1) <= TimeAt(N)
    <3>1. CASE p + 1 = N
      BY <2>2, <3>1
    <3>2. CASE p + 1 < N
      BY <2>1, <2>2, <3>2, RowsRise
    <3> QED
      BY <2>1, <3>1, <3>2
  <2> QED
    BY <1>1, <2>1, <2>2, <2>3, <2>4, <2>5
<1> QED
  BY <1>1, <1>2

\* Where the time that convert() gives lies among the transitions next to its place.
LEMMA PlacedBounds ==
  ASSUME Rows, NEW c \in Int, NEW p, At(c, p)
  PROVE  LET v == convert(MakePlaced(c, p)) IN
         /\ v \in Int /\ MinTime <= v /\ v <= MaxTime
         /\ p < N => v <= TimeAt(p + 1)
         /\ p > 0 /\ ~Repeated(c, p) => TimeAt(p) <= v
         /\ Repeated(c, p) => v < TimeAt(p) /\ (p >= 2 => TimeAt(p - 1) < v)
<1> DEFINE v == convert(MakePlaced(c, p))
<1>1. /\ p \in 0..N /\ (p > 0 => CivilAt(p) <= c) /\ (p >= 2 => CivilAt(p - 1) < CivilAt(p))
      /\ MinTime <= CivilAt(1) - Off(0)
  <2>1. p \in 0..N /\ N \in Nat
    BY DEF At, Rows
  <2>2. p > 0 => p \in 1..p
    BY <2>1
  <2>3. p >= 2 => p - 1 \in 1..N - 1 /\ p - 1 + 1 = p
    BY <2>1
  <2> QED
    BY <2>1, <2>2, <2>3 DEF At, Rows
<1>2. /\ N \in Nat \ {0} /\ Off(p) \in Int /\ MinTime \in Int /\ MaxTime \in Int /\ MinTime <= MaxTime
      /\ p < N => /\ p + 1 \in 1..N /\ TimeAt(p + 1) \in Int
                  /\ CivilAt(p + 1) = TimeAt(p + 1) + Off(p + 1)
                  /\ PrevAt(p + 1) = TimeAt(p + 1) + Off(p) - 1
                  /\ MinTime <= TimeAt(p + 1) /\ TimeAt(p + 1) <= MaxTime
  BY <1>1, RowsAt, TimesAssumption
<1>3. p > 0 => /\ TimeAt(p) \in Int /\ Off(p - 1) \in Int
               /\ CivilAt(p) = TimeAt(p) + Off(p) /\ PrevAt(p) = TimeAt(p) + Off(p - 1) - 1
               /\ MinTime <= TimeAt(p) /\ TimeAt(p) <= MaxTime
  <2>1. ASSUME p > 0 PROVE p - 1 \in 0..N /\ p - 1 < N /\ p - 1 + 1 = p
    BY <1>1, <1>2, <2>1
  <2> QED
    BY <2>1, RowsAt
<1>4. p >= 2 => TimeAt(p - 1) \in Int /\ CivilAt(p - 1) = TimeAt(p - 1) + Off(p - 1)
  <2>1. ASSUME p >= 2 PROVE p - 1 \in 1..N
    BY <1>1, <1>2, <2>1
  <2> QED
    BY <2>1 DEF Rows
<1>5. CASE Skipped(c, p)
  <2>1. v = TimeAt(p + 1) /\ p < N /\ ~Repeated(c, p)
    BY <1>1, <1>5, PlacedValue DEF Skipped, Repeated
  <2>2. p > 0 => TimeAt(p) < TimeAt(p + 1)
    <3>1. p > 0 => p \in 1..N - 1
      BY <1>1, <1>2, <2>1
    <3> QED
      BY <3>1 DEF Rows
  <2> HIDE DEF v
  <2> QED
    BY <1>2, <1>3, <2>1, <2>2 DEF v
<1>6. CASE Repeated(c, p)
  <2>1. v = c - Off(p - 1) /\ p > 0 /\ c <= PrevAt(p) /\ ~Skipped(c, p)
    BY <1>1, <1>6, PlacedValue DEF Repeated
  <2>2. v \in Int /\ v < TimeAt(p)
    BY <1>3, <2>1
  <2>3. p >= 2 => TimeAt(p - 1) < v
    BY <1>1, <1>2, <1>3, <1>4, <2>1
  <2>4. MinTime <= v
    <3>1. CASE p = 1
      BY <1>1, <1>2, <1>3, <2>1, <3>1
    <3>2. CASE p >= 2
      <4>1. MinTime <= TimeAt(p - 1)
        <5>1. p - 2 \in 0..N /\ p - 2 < N /\ p - 2 + 1 = p - 1
          BY <1>1, <1>2, <3>2
        <5> QED
          BY <5>1, RowsAt
      <4> QED
        BY <1>2, <1>4, <2>2, <2>3, <3>2, <4>1
    <3> QED
      BY <1>1, <1>2, <2>1, <3>1, <3>2
  <2>5. p < N => v <= TimeAt(p + 1)
    <3>1. p < N => TimeAt(p) < TimeAt(p + 1)
      <4>1. p < N => p \in 1..N - 1
        BY <1>1, <1>2, <2>1
      <4> QED
        BY <4>1 DEF Rows
    <3> QED
      BY <1>2, <1>3, <2>1, <2>2, <3>1
  <2>6. v <= MaxTime
    BY <1>2, <1>3, <2>1, <2>2
  <2> HIDE DEF v
  <2> QED
    BY <1>6, <2>2, <2>3, <2>4, <2>5, <2>6 DEF v
<1>7. CASE ~Skipped(c, p) /\ p = 0
  <2>1. v = IF c < MinTime + Off(0) THEN MinTime ELSE c - Off(0)
    BY <1>1, <1>7, PlacedValue
  <2>2. p < N /\ c <= PrevAt(p + 1) /\ ~Repeated(c, p)
    BY <1>2, <1>7 DEF Skipped, Repeated
  <2> HIDE DEF v
  <2> QED
    BY <1>2, <1>7, <2>1, <2>2 DEF v
<1>8. CASE ~Skipped(c, p) /\ ~Repeated(c, p) /\ p > 0
  <2>1. v = IF p = N /\ c > MaxTime + Off(N) THEN MaxTime ELSE c - Off(p)
    BY <1>1, <1>8, PlacedValue
  <2>2. p < N => c <= PrevAt(p + 1)
    BY <1>2, <1>8 DEF Skipped
  <2>3. CASE p = N
    <3> HIDE DEF v
    <3> QED
      BY <1>1, <1>2, <1>3, <1>8, <2>1, <2>3 DEF v
  <2>4. CASE p < N
    <3>1. v = c - Off(p)
      BY <1>1, <1>2, <2>1, <2>4
    <3> HIDE DEF v
    <3> QED
      BY <1>1, <1>2, <1>3, <1>8, <2>2, <2>4, <3>1 DEF v
  <2> QED
    BY <1>1, <1>2, <2>3, <2>4
<1> QED
  BY <1>1, <1>5, <1>6, <1>7, <1>8

\* Of two civil seconds at their places, the earlier is not converted to a later time.
LEMMA PlacedOrder ==
  ASSUME Rows, NEW c \in Int, NEW d \in Int, c < d, NEW p, NEW q, At(c, p), At(d, q)
  PROVE  convert(MakePlaced(c, p)) <= convert(MakePlaced(d, q))
<1> DEFINE v == convert(MakePlaced(c, p))
           w == convert(MakePlaced(d, q))
<1>1. p \in 0..N /\ q \in 0..N /\ N \in Nat \ {0}
  BY DEF At, Rows
<1>2. /\ v \in Int /\ MinTime <= v /\ v <= MaxTime
      /\ p < N => v <= TimeAt(p + 1)
      /\ p > 0 /\ ~Repeated(c, p) => TimeAt(p) <= v
      /\ Repeated(c, p) => v < TimeAt(p)
  BY PlacedBounds
<1>3. /\ w \in Int /\ MinTime <= w /\ w <= MaxTime
      /\ q > 0 /\ ~Repeated(d, q) => TimeAt(q) <= w
      /\ Repeated(d, q) => w < TimeAt(q) /\ (q >= 2 => TimeAt(q - 1) < w)
  BY PlacedBounds
<1>4. MinTime \in Int /\ MaxTime \in Int /\ \A i \in 0..N : Off(i) \in Int
  BY TimesAssumption DEF Rows
<1>5. \A i \in 1..N : TimeAt(i) \in Int
  BY DEF Rows
<1>6. p <= q
  <2> SUFFICES ASSUME q < p PROVE FALSE
    BY <1>1
  <2>1. q + 1 \in 1..p /\ q < N /\ q + 1 \in 1..N
    BY <1>1
  <2>2. CivilAt(q + 1) <= c /\ d < CivilAt(q + 1)
    BY <2>1 DEF At
  <2>3. CivilAt(q + 1) \in Int
    BY <1>1, <2>1, RowsAt
  <2> QED
    BY <2>2, <2>3
<1>7. CASE p = q
  <2>1. p < N => PrevAt(p + 1) \in Int
    BY <1>1, RowsAt
  <2>2. p > 0 => PrevAt(p) \in Int
    <3>1. p > 0 => p - 1 \in 0..N /\ p - 1 < N /\ p - 1 + 1 = p
      BY <1>1
    <3> QED
      BY <3>1, RowsAt
  <2>3. CASE Skipped(d, q)
    <3>1. w = TimeAt(q + 1) /\ q < N
      BY <1>1, <2>3, PlacedValue DEF Skipped
    <3> QED
      BY <1>2, <1>7, <3>1
  <2>4. CASE ~Skipped(d, q)
    <3>1. ~Skipped(c, p)
      BY <1>7, <2>1, <2>4 DEF Skipped
    <3>2. CASE Repeated(c, p) /\ Repeated(d, q)
      <4>1. v = c - Off(p - 1) /\ w = d - Off(p - 1) /\ p > 0
        BY <1>1, <1>7, <3>2, PlacedValue DEF Repeated
      <4>2. p - 1 \in 0..N
        BY <1>1, <4>1
      <4> QED
        BY <1>4, <4>1, <4>2
    <3>3. CASE Repeated(c, p) /\ ~Repeated(d, q)
      <4>1. p > 0 /\ p \in 1..N
        BY <1>1, <3>3 DEF Repeated
      <4> QED
        BY <1>2, <1>3, <1>5, <1>7, <3>3, <4>1
    <3>4. CASE ~Repeated(c, p) /\ p > 0
      <4>1. ~Repeated(d, q)
        BY <1>7, <2>2, <3>1, <3>4, <2>4 DEF Repeated
      <4>2. v = IF p = N /\ c > MaxTime + Off(N) THEN MaxTime ELSE c - Off(p)
        BY <1>1, <3>1, <3>4, PlacedValue
      <4>3. w = IF p = N /\ d > MaxTime + Off(N) THEN MaxTime ELSE d - Off(p)
        BY <1>1, <1>7, <2>4, <3>4, <4>1, PlacedValue
      <4>4. Off(p) \in Int /\ Off(N) \in Int
        BY <1>1, <1>4
      <4> HIDE DEF v, w
      <4> QED
        BY <1>2, <1>3, <1>4, <4>2, <4>3, <4>4 DEF v, w
    <3>5. CASE p = 0
      <4>1. v = IF c < MinTime + Off(0) THEN MinTime ELSE c - Off(0)
        BY <1>1, <3>1, <3>5, PlacedValue
      <4>2. w = IF d < MinTime + Off(0) THEN MinTime ELSE d - Off(0)
        BY <1>1, <1>7, <2>4, <3>5, PlacedValue
      <4>3. Off(0) \in Int
        BY <1>1, <1>4
      <4> HIDE DEF v, w
      <4> QED
        BY <1>4, <4>1, <4>2, <4>3 DEF v, w
    <3> QED
      BY <1>1, <3>2, <3>3, <3>4, <3>5
  <2> QED
    BY <2>3, <2>4
<1>8. CASE p < q /\ ~Repeated(d, q)
  <2>1. p + 1 \in 1..N /\ q \in 1..N /\ p < N /\ q > 0
    BY <1>1, <1>8
  <2>2. TimeAt(p + 1) <= TimeAt(q)
    <3>1. CASE p + 1 = q
      BY <1>5, <2>1, <3>1
    <3>2. CASE p + 1 < q
      BY <1>5, <2>1, <3>2, RowsRise
    <3> QED
      BY <1>1, <1>8, <3>1, <3>2
  <2> QED
    BY <1>2, <1>3, <1>5, <1>8, <2>1, <2>2
<1>9. CASE p + 1 < q /\ Repeated(d, q)
  <2>1. p + 1 \in 1..N /\ q - 1 \in 1..N /\ p < N /\ q >= 2
    BY <1>1, <1>9
  <2>2. TimeAt(p + 1) <= TimeAt(q - 1)
    <3>1. CASE p + 1 = q - 1
      BY <1>5, <2>1, <3>1
    <3>2. CASE p + 1 < q - 1
      BY <1>5, <2>1, <3>2, RowsRise
    <3> QED
      BY <1>1, <1>9, <3>1, <3>2
  <2> QED
    BY <1>2, <1>3, <1>5, <1>9, <2>1, <2>2
<1>10. CASE p + 1 = q /\ Repeated(d, q)
  <2>1. w = d - Off(p) /\ d <= PrevAt(p + 1) /\ p < N /\ q - 1 = p
    BY <1>1, <1>10, PlacedValue DEF Repeated
  <2>2. PrevAt(p + 1) \in Int /\ Off(p) \in Int
    BY <1>1, <2>1, RowsAt
  <2>3. ~Skipped(c, p)
    BY <2>1, <2>2 DEF Skipped
  <2>4. CASE p = 0
    <3>1. v = IF c < MinTime + Off(0) THEN MinTime ELSE c - Off(0)
      BY <1>1, <2>3, <2>4, PlacedValue
    <3> HIDE DEF v, w
    <3> QED
      BY <1>3, <1>4, <2>1, <2>2, <2>4, <3>1 DEF v, w
  <2>5. CASE Repeated(c, p)
    <3>1. p > 0 /\ p \in 1..N /\ q >= 2
      BY <1>1, <1>10, <2>5 DEF Repeated
    <3> QED
      BY <1>2, <1>3, <1>5, <1>10, <2>1, <2>5, <3>1
  <2>6. CASE ~Repeated(c, p) /\ p > 0
    <3>1. v = c - Off(p)
      BY <1>1, <2>1, <2>3, <2>6, PlacedValue
    <3> QED
      BY <2>1, <2>2, <3>1
  <2> QED
    BY <1>1, <2>4, <2>5, <2>6
<1> QED
  BY <1>1, <1>6, <1>7, <1>8, <1>9, <1>10

-----------------------------------------------------------------------------
(* Past the table *)

\* The facts of Repeats in one place.
LEMMA PastFacts ==
  ASSUME Rows, Repeats, zone.extended
  PROVE  /\ zone.last_year \in Int /\ PastTable \in Int /\ CycleSecs \in Nat \ {0}
         /\ N \in Nat \ {0} /\ Off(N) \in Int
         /\ CivilAt(N) \in Int /\ PrevAt(N) \in Int /\ CivilAt(N) < PastTable /\ PrevAt(N) < PastTable
<1>1. zone.last_year \in Int /\ CivilAt(N) < PastTable /\ PrevAt(N) < PastTable
  BY DEF Repeats
<1>2. PastTable \in Int
  BY <1>1, YearStartNext DEF PastTable
<1>3. N \in Nat \ {0}
  BY DEF Rows
<1>4. N - 1 \in 0..N /\ N - 1 < N /\ N - 1 + 1 = N
  BY <1>3
<1>5. CivilAt(N) \in Int /\ PrevAt(N) \in Int /\ Off(N) \in Int
  BY <1>4, RowsAt
<1> QED
  BY <1>1, <1>2, <1>3, <1>5, YearsRise

\* Before the end of the table no conversion passes its last second.
LEMMA BeforeEnd ==
  ASSUME Rows, Repeats, zone.extended, NEW c \in Int, c < PastTable, NEW p, At(c, p)
  PROVE  convert(MakePlaced(c, p)) <= PastTable - 1 - Off(N)
<1> DEFINE e == PastTable - 1
           v == convert(MakePlaced(c, p))
           w == convert(MakePlaced(e, N))
<1>1. /\ e \in Int /\ c <= e /\ N \in Nat \ {0} /\ Off(N) \in Int /\ N \in 0..N
      /\ CivilAt(N) \in Int /\ PrevAt(N) \in Int /\ CivilAt(N) <= e /\ PrevAt(N) <= e
  BY PastFacts
<1>2. At(e, N)
  <2>1. ASSUME NEW i \in 1..N PROVE CivilAt(i) <= e
    <3>1. CASE i = N
      BY <1>1, <3>1
    <3>2. CASE i < N
      <4>1. CivilAt(i) < CivilAt(N)
        BY <1>1, <3>2, RowsRise
      <4>2. CivilAt(i) \in Int
        <5>1. i - 1 \in 0..N /\ i - 1 < N /\ i - 1 + 1 = i
          BY <1>1, <3>2
        <5> QED
          BY <5>1, RowsAt
      <4> QED
        BY <1>1, <4>1, <4>2
    <3> QED
      BY <1>1, <3>1, <3>2
  <2> QED
    BY <1>1, <2>1 DEF At
<1>3. w <= e - Off(N)
  <2>1. ~Skipped(e, N)
    BY <1>1 DEF Skipped
  <2>2. CASE Repeated(e, N)
    <3>1. w = e - Off(N - 1) /\ e <= PrevAt(N)
      BY <1>1, <2>2, PlacedValue DEF Repeated
    <3>2. w < TimeAt(N) /\ w \in Int
      BY <1>1, <1>2, <2>2, PlacedBounds
    <3>3. TimeAt(N) \in Int /\ CivilAt(N) = TimeAt(N) + Off(N)
      BY <1>1 DEF Rows
    <3> QED
      BY <1>1, <3>2, <3>3
  <2>3. CASE ~Repeated(e, N)
    <3>1. w = IF N = N /\ e > MaxTime + Off(N) THEN MaxTime ELSE e - Off(N)
      BY <1>1, <2>1, <2>3, PlacedValue
    <3>2. MaxTime \in Int
      BY TimesAssumption
    <3> HIDE DEF w, e
    <3> QED
      BY <1>1, <3>1, <3>2
  <2> QED
    BY <2>2, <2>3
<1>4. v \in Int /\ w \in Int
  BY <1>1, <1>2, PlacedBounds
<1>5. CASE c = e
  <2>1. p = N
    <3> SUFFICES ASSUME p # N PROVE FALSE
      OBVIOUS
    <3>1. p \in 0..N /\ p < N /\ c < CivilAt(p + 1) /\ p + 1 \in 1..N
      BY <1>1 DEF At
    <3>2. CivilAt(p + 1) <= e
      BY <1>2, <3>1 DEF At
    <3>3. CivilAt(p + 1) \in Int
      BY <3>1, RowsAt
    <3> QED
      BY <1>1, <1>5, <3>1, <3>2, <3>3
  <2> QED
    BY <1>3, <1>5, <2>1
<1>6. CASE c < e
  <2>1. v <= w
    BY <1>1, <1>2, <1>6, PlacedOrder
  <2> HIDE DEF v, w, e
  <2>2. v <= e - Off(N)
    BY <1>1, <1>3, <1>4, <2>1
  <2> QED
    BY <2>2 DEF e, v
<1> QED
  BY <1>1, <1>5, <1>6

\* From a cycle before its end on, no conversion is before that cycle begins.
LEMMA FromStart ==
  ASSUME Rows, Repeats, zone.extended, NEW c \in Int, PastTable - CycleSecs <= c, NEW p, At(c, p)
  PROVE  LET v == convert(MakePlaced(c, p)) IN
         v = MaxTime \/ PastTable - CycleSecs - Off(N) <= v
<1> DEFINE s == PastTable - CycleSecs
           v == convert(MakePlaced(c, p))
<1>1. /\ s \in Int /\ s <= c /\ N \in Nat \ {0} /\ Off(N) \in Int /\ p \in 0..N
      /\ MaxTime \in Int
  BY PastFacts, TimesAssumption DEF At
<1>2. PICK q \in 1..N :
         /\ Off(q) = Off(N)
         /\ CivilAt(q) <= s /\ PrevAt(q) < s
         /\ q < N => s <= PrevAt(q + 1) + 1 /\ s <= CivilAt(q + 1)
  BY DEF Repeats
<1>3. /\ TimeAt(q) \in Int /\ CivilAt(q) = TimeAt(q) + Off(q) /\ PrevAt(q) = TimeAt(q) + Off(q - 1) - 1
      /\ Off(q) \in Int /\ Off(q - 1) \in Int /\ CivilAt(q) \in Int /\ PrevAt(q) \in Int
  <2>1. q - 1 \in 0..N /\ q \in 0..N
    BY <1>1
  <2>2. TimeAt(q) \in Int /\ CivilAt(q) = TimeAt(q) + Off(q) /\ PrevAt(q) = TimeAt(q) + Off(q - 1) - 1
        /\ Off(q) \in Int /\ Off(q - 1) \in Int
    BY <2>1 DEF Rows
  <2> QED
    BY <2>2
<1> HIDE DEF s
<1>4. q <= p
  <2> SUFFICES ASSUME p < q PROVE FALSE
    BY <1>1
  <2>1. p + 1 \in 1..N /\ p < N
    BY <1>1
  <2>2. c < CivilAt(p + 1) /\ CivilAt(p + 1) \in Int
    BY <1>1, <2>1, RowsAt DEF At
  <2>3. CivilAt(p + 1) <= CivilAt(q)
    <3>1. CASE p + 1 = q
      BY <1>3, <3>1
    <3>2. CASE p + 1 < q
      BY <1>3, <2>1, <2>2, <3>2, RowsRise
    <3> QED
      BY <1>1, <3>1, <3>2
  <2> QED
    BY <1>1, <1>2, <1>3, <2>2, <2>3
<1>5. v \in Int /\ (p > 0 /\ ~Repeated(c, p) => TimeAt(p) <= v)
      /\ (Repeated(c, p) => (p >= 2 => TimeAt(p - 1) < v))
  BY PlacedBounds
<1>6. CASE p = q
  <2>1. ~Repeated(c, p)
    BY <1>1, <1>2, <1>3, <1>6 DEF Repeated
  <2>2. CASE Skipped(c, p)
    <3>1. v = TimeAt(p + 1) /\ p < N
      BY <1>1, <2>2, PlacedValue DEF Skipped
    <3>2. TimeAt(p + 1) \in Int /\ PrevAt(p + 1) = TimeAt(p + 1) + Off(p) - 1
      BY <1>1, <3>1, RowsAt
    <3>3. s <= PrevAt(p + 1) + 1
      BY <1>2, <1>6, <3>1
    <3>4. Off(p) = Off(N)
      BY <1>2, <1>6
    <3>5. s - Off(N) <= v
      BY <1>1, <3>1, <3>2, <3>3, <3>4
    <3> QED
      BY <3>5 DEF s
  <2>3. CASE ~Skipped(c, p)
    <3>1. v = IF p = N /\ c > MaxTime + Off(N) THEN MaxTime ELSE c - Off(p)
      BY <1>1, <1>6, <2>1, <2>3, PlacedValue
    <3>2. Off(p) = Off(N)
      BY <1>2, <1>6
    <3>3. v = MaxTime \/ s - Off(N) <= v
      <4> HIDE DEF v
      <4> QED
        BY <1>1, <3>1, <3>2
    <3> QED
      BY <3>3 DEF s
  <2> QED
    BY <2>2, <2>3
<1>7. CASE q < p
  <2>1. q < N /\ q + 1 \in 1..N /\ q \in 0..N /\ p \in 1..N
    BY <1>1, <1>7
  <2>2. TimeAt(q + 1) \in Int /\ PrevAt(q + 1) = TimeAt(q + 1) + Off(q) - 1 /\ s <= PrevAt(q + 1) + 1
    BY <1>2, <2>1, RowsAt
  <2>3. s - Off(N) <= TimeAt(q + 1)
    BY <1>1, <1>2, <1>3, <2>2
  <2>4. \A i \in 1..N : TimeAt(i) \in Int
    BY DEF Rows
  <2>5. CASE ~Repeated(c, p)
    <3>1. TimeAt(q + 1) <= TimeAt(p)
      <4>1. CASE q + 1 = p
        BY <2>2, <4>1
      <4>2. CASE q + 1 < p
        BY <2>1, <2>2, <2>4, <4>2, RowsRise
      <4> QED
        BY <1>1, <1>7, <4>1, <4>2
    <3>2. s - Off(N) <= v
      BY <1>1, <1>5, <2>1, <2>2, <2>3, <2>4, <2>5, <3>1
    <3> QED
      BY <3>2 DEF s
  <2>6. CASE Repeated(c, p) /\ q + 1 < p
    <3>1. TimeAt(q + 1) <= TimeAt(p - 1) /\ p - 1 \in 1..N /\ p >= 2
      <4>1. p - 1 \in 1..N /\ p >= 2
        BY <1>1, <2>1, <2>6
      <4>2. CASE q + 1 = p - 1
        BY <2>2, <4>1, <4>2
      <4>3. CASE q + 1 < p - 1
        BY <2>1, <2>2, <2>4, <4>1, <4>3, RowsRise
      <4> QED
        BY <1>1, <2>6, <4>1, <4>2, <4>3
    <3>2. s - Off(N) <= v
      BY <1>1, <1>5, <2>2, <2>3, <2>4, <2>6, <3>1
    <3> QED
      BY <3>2 DEF s
  <2>7. CASE Repeated(c, p) /\ q + 1 = p
    <3>1. v = c - Off(p - 1) /\ p - 1 = q
      BY <1>1, <2>1, <2>7, PlacedValue
    <3>2. s - Off(N) <= v
      BY <1>1, <1>2, <1>3, <3>1
    <3> QED
      BY <3>2 DEF s
  <2> QED
    BY <1>1, <1>7, <2>5, <2>6, <2>7
<1> QED
  BY <1>1, <1>4, <1>6, <1>7

\* How far a civil time is moved: not at all inside the table, and otherwise into its last cycle.
LEMMA ShiftOf ==
  ASSUME Rows, Repeats, NEW cs \in Int
  PROVE  LET k == MakeShift(cs) IN
         /\ k \in Nat
         /\ ~zone.extended => k = 0
         /\ zone.extended /\ k = 0 => cs < PastTable
         /\ zone.extended /\ k > 0 =>
              PastTable - CycleSecs <= cs - k * CycleSecs /\ cs - k * CycleSecs < PastTable
<1> DEFINE k == MakeShift(cs)
           y == Year(cs)
           ly == zone.last_year
<1>1. CASE ~zone.extended
  BY <1>1 DEF MakeShift
<1>2. CASE zone.extended /\ cs < PastTable
  <2>1. y \in Int /\ ly \in Int
    BY <1>2, YearOf, PastFacts
  <2>2. y <= ly
    BY <1>2, <2>1, YearIs DEF PastTable
  <2> HIDE DEF y, ly
  <2>3. ~(y > ly)
    BY <2>1, <2>2
  <2>4. k = 0
    BY <2>3 DEF MakeShift, y, ly
  <2> QED
    BY <1>2, <2>4
<1>3. CASE zone.extended /\ PastTable <= cs
  <2>1. y \in Int /\ ly \in Int /\ YearStart(y) <= cs /\ cs < YearStart(y + 1)
        /\ PastTable \in Int /\ CycleSecs \in Nat \ {0}
    BY <1>3, YearOf, PastFacts
  <2>2. ly + 1 <= y
    <3>1. ly + 1 \in Int /\ YearStart(ly + 1) <= cs
      BY <1>3, <2>1 DEF PastTable
    <3> QED
      BY <3>1, YearIs
  <2>3. cs >= CivilAt(N) /\ cs > PrevAt(N)
    BY <1>3, PastFacts
  <2>4. k = (y - ly - 1) \div Cycle + 1
    <3>1. Year(cs) > zone.last_year
      BY <2>1, <2>2
    <3> QED
      BY <1>3, <2>3, <3>1 DEF MakeShift, PrevAt
  <2> HIDE DEF y, k, ly
  <2> DEFINE m == y - ly - 1
             j == m \div Cycle
             r == m % Cycle
  <2>5. m \in Nat /\ j \in Int /\ r \in 0..Cycle - 1 /\ m = Cycle * j + r /\ Cycle \in Nat \ {0}
    BY <2>1, <2>2, Division, CycleFacts
  <2>6. k = j + 1
    BY <2>4
  <2> HIDE DEF j, r
  <2>7. j >= 0
    <3> SUFFICES ASSUME j < 0 PROVE FALSE
      BY <2>5
    <3>1. Cycle * j + Cycle <= Cycle * 0
      BY <2>5, MulMono
    <3>2. Cycle * j \in Int /\ Cycle * 0 = 0
      BY <2>5
    <3> QED
      BY <2>5, <3>1, <3>2
  <2>8. k \in Nat /\ k > 0
    BY <2>5, <2>6, <2>7
  <2>9. y + (-k) * Cycle = ly + 1 - Cycle + r
    <3>1. (-k) * Cycle = -(Cycle * j) - Cycle
      BY <2>5, <2>6
    <3>2. Cycle * j \in Int
      BY <2>5
    <3> QED
      BY <2>1, <2>5, <3>1, <3>2
  <2>10. YearStart(y + (-k) * Cycle) = YearStart(y) + (-k) * CycleSecs
    BY <2>1, <2>8, YearStartCycle
  <2>11. YearStart(y + 1 + (-k) * Cycle) = YearStart(y + 1) + (-k) * CycleSecs
    BY <2>1, <2>8, YearStartCycle
  <2>12. YearStart(ly + 1 + (-1) * Cycle) = PastTable + (-1) * CycleSecs
    BY <2>1, YearStartCycle DEF PastTable, ly
  <2>13. (-k) * CycleSecs = -(k * CycleSecs) /\ (-1) * CycleSecs = -CycleSecs
         /\ k * CycleSecs \in Int /\ (-1) * Cycle = -Cycle /\ (-k) * Cycle \in Int
    BY <2>1, <2>5, <2>8
  <2>14. YearStart(ly + 1 - Cycle) = PastTable - CycleSecs
    <3>1. ly + 1 + (-1) * Cycle = ly + 1 - Cycle /\ PastTable + (-1) * CycleSecs = PastTable - CycleSecs
      BY <2>1, <2>5, <2>13
    <3> QED
      BY <2>12, <3>1
  <2>15. YearStart(ly + 1 - Cycle) <= YearStart(y + (-k) * Cycle)
    <3> DEFINE a == ly + 1 - Cycle
               b == ly + 1 - Cycle + r
    <3>1. a \in Int /\ b \in Int /\ a <= b
      BY <2>1, <2>5
    <3> HIDE DEF a, b
    <3>2. YearStart(a) <= YearStart(b)
      <4>1. CASE a = b
        BY <3>1, <4>1, YearStartNext
      <4>2. CASE a < b
        BY <3>1, <4>2, YearStartNext, YearStartRises
      <4> QED
        BY <3>1, <4>1, <4>2
    <3> QED
      BY <2>9, <3>2 DEF a, b
  <2>16. YearStart(y + 1 + (-k) * Cycle) <= PastTable
    <3> DEFINE a == ly + 1 - Cycle + r + 1
               b == ly + 1
    <3>1. a \in Int /\ b \in Int /\ a <= b
      BY <2>1, <2>5
    <3>2. y + 1 + (-k) * Cycle = a
      BY <2>1, <2>9, <2>13, <2>5
    <3> HIDE DEF a, b
    <3>3. YearStart(a) <= YearStart(b)
      <4>1. CASE a = b
        BY <3>1, <4>1, YearStartNext
      <4>2. CASE a < b
        BY <3>1, <4>2, YearStartNext, YearStartRises
      <4> QED
        BY <3>1, <4>1, <4>2
    <3> QED
      BY <3>2, <3>3 DEF b, PastTable, ly
  <2>17. YearStart(y) \in Int /\ YearStart(y + 1) \in Int
    BY <2>1, YearStartNext
  <2>18. PastTable - CycleSecs <= cs - k * CycleSecs /\ cs - k * CycleSecs < PastTable
    BY <2>1, <2>10, <2>11, <2>13, <2>14, <2>15, <2>16, <2>17
  <2> QED
    BY <1>3, <2>8, <2>18 DEF k
<1>4. zone.extended => PastTable \in Int
  BY PastFacts
<1> QED
  BY <1>1, <1>2, <1>3, <1>4

-----------------------------------------------------------------------------
(* The answers of MakeTime *)

\* a is what MakeTime answers for cs at the right place, whatever way that was found.
MadeFor(cs, a) ==
  LET k == MakeShift(cs)
      c == cs - k * CycleSecs
  IN  \E p \in 0..N : /\ At(c, p)
                      /\ a = IF k = 0 THEN MakePlaced(c, p) ELSE TimeLocal(MakePlaced(c, p), k)

\* What TimeLocal does to a time.
Forward(t, k) ==
  IF k > MaxTime \div CycleSecs \/ t > MaxTime - k * CycleSecs THEN MaxTime ELSE t + k * CycleSecs

\* What convert() makes of an answer of MakeTime, shifted by whole cycles or not.
LEMMA MadeValue ==
  ASSUME Rows, Repeats, NEW cs \in Int, NEW a, MadeFor(cs, a)
  PROVE  \E p \in 0..N :
           LET k == MakeShift(cs)
               c == cs - k * CycleSecs
               v == convert(MakePlaced(c, p))
           IN  At(c, p) /\ convert(a) = IF k = 0 THEN v ELSE Forward(v, k)
<1> DEFINE k == MakeShift(cs)
           c == cs - k * CycleSecs
<1>1. PICK p \in 0..N : At(c, p) /\ a = IF k = 0 THEN MakePlaced(c, p) ELSE TimeLocal(MakePlaced(c, p), k)
  BY DEF MadeFor
<1> DEFINE m == MakePlaced(c, p)
<1> HIDE DEF c, k, m
<1>2. convert(TimeLocal(m, k)) = Forward(convert(m), k)
  <2>1. CASE m.kind = "skipped"
    BY <2>1 DEF convert, TimeLocal, Lookup, Forward
  <2>2. CASE m.kind # "skipped"
    BY <2>2 DEF convert, TimeLocal, Lookup, Forward
  <2> QED
    BY <2>1, <2>2
<1>3. convert(a) = IF k = 0 THEN convert(m) ELSE Forward(convert(m), k)
  BY <1>1, <1>2 DEF m
<1> QED
  BY <1>1, <1>3 DEF c, k, m

\* The later of two civil times is moved at least as far.
LEMMA ShiftRises ==
  ASSUME Rows, Repeats, NEW cs \in Int, NEW ds \in Int, cs < ds
  PROVE  MakeShift(cs) <= MakeShift(ds)
<1> DEFINE j == MakeShift(cs)
           k == MakeShift(ds)
<1>1. /\ j \in Nat /\ k \in Nat /\ (~zone.extended => j = 0)
      /\ zone.extended /\ k = 0 => ds < PastTable
      /\ zone.extended /\ j > 0 => PastTable - CycleSecs <= cs - j * CycleSecs
      /\ zone.extended /\ k > 0 => ds - k * CycleSecs < PastTable
  BY ShiftOf
<1> HIDE DEF j, k
<1>2. ~(k < j)
  <2> SUFFICES ASSUME k < j PROVE FALSE
    OBVIOUS
  <2>1. zone.extended
    BY <1>1
  <2>2. PastTable \in Int /\ CycleSecs \in Nat \ {0}
    BY <2>1, PastFacts
  <2>3. CycleSecs * k + CycleSecs <= CycleSecs * j
    BY <1>1, <2>2, MulMono
  <2>4. CycleSecs * k = k * CycleSecs /\ CycleSecs * j = j * CycleSecs
        /\ k * CycleSecs \in Int /\ j * CycleSecs \in Int
    BY <1>1, <2>2
  <2>5. j > 0 /\ PastTable - CycleSecs <= cs - j * CycleSecs
    BY <1>1, <2>1
  <2>6. CASE k = 0
    <3>1. k * CycleSecs = 0 /\ ds < PastTable
      BY <1>1, <2>1, <2>2, <2>6
    <3> QED
      BY <2>2, <2>3, <2>4, <2>5, <3>1
  <2>7. CASE k > 0
    <3>1. ds - k * CycleSecs < PastTable
      BY <1>1, <2>1, <2>7
    <3> QED
      BY <2>2, <2>3, <2>4, <2>5, <3>1
  <2> QED
    BY <1>1, <2>6, <2>7
<1> QED
  BY <1>1, <1>2 DEF j, k

\* Of two answers of MakeTime, that for the earlier civil second is not the later time.
LEMMA MadeInOrder ==
  ASSUME Rows, Repeats, NEW cs \in Int, NEW ds \in Int, cs < ds,
         NEW a, NEW b, MadeFor(cs, a), MadeFor(ds, b)
  PROVE  convert(a) <= convert(b)
<1> DEFINE j == MakeShift(cs)
           k == MakeShift(ds)
           c == cs - j * CycleSecs
           d == ds - k * CycleSecs
<1>1. PICK p \in 0..N :
        At(c, p) /\ convert(a) = IF j = 0 THEN convert(MakePlaced(c, p)) ELSE Forward(convert(MakePlaced(c, p)), j)
  BY MadeValue
<1>2. PICK q \in 0..N :
        At(d, q) /\ convert(b) = IF k = 0 THEN convert(MakePlaced(d, q)) ELSE Forward(convert(MakePlaced(d, q)), k)
  BY MadeValue
<1>3. /\ j \in Nat /\ k \in Nat /\ (~zone.extended => j = 0 /\ k = 0)
      /\ zone.extended /\ j = 0 => cs < PastTable
      /\ zone.extended /\ j > 0 => c < PastTable
      /\ zone.extended /\ k > 0 => PastTable - CycleSecs <= d
      /\ j <= k
  BY ShiftOf, ShiftRises
<1>4. CycleSecs \in Nat \ {0} /\ c \in Int /\ d \in Int
  <2>1. CycleSecs \in Nat \ {0}
    BY YearsRise
  <2> QED
    BY <1>3, <2>1
<1>5. j = 0 => c = cs
  BY <1>4
<1>6. k = 0 => d = ds
  BY <1>4
<1>7. j = k => c < d
  <2> SUFFICES ASSUME j = k PROVE c < d
    OBVIOUS
  <2>1. j * CycleSecs = k * CycleSecs /\ j * CycleSecs \in Int
    BY <1>3, <1>4
  <2> QED
    BY <2>1
<1> DEFINE v == convert(MakePlaced(c, p))
           w == convert(MakePlaced(d, q))
<1> HIDE DEF j, k, c, d
<1>8. v \in Int /\ w \in Int /\ v <= MaxTime /\ w <= MaxTime /\ MaxTime \in Int
  BY <1>1, <1>2, <1>4, PlacedBounds, TimesAssumption
<1>9. /\ convert(a) = IF j = 0 THEN v ELSE Forward(v, j)
      /\ convert(b) = IF k = 0 THEN w ELSE Forward(w, k)
  BY <1>1, <1>2
<1>10. j = k => v <= w
  BY <1>1, <1>2, <1>4, <1>7, PlacedOrder
<1>11. ASSUME j < k PROVE w = MaxTime \/ v + j * CycleSecs < w + k * CycleSecs
  <2>1. zone.extended /\ k > 0
    BY <1>3, <1>11
  <2>2. c < PastTable /\ PastTable - CycleSecs <= d
    BY <1>3, <1>5, <2>1
  <2>3. PastTable \in Int /\ Off(N) \in Int
    BY <2>1, PastFacts
  <2>4. v <= PastTable - 1 - Off(N)
    BY <1>1, <1>4, <2>1, <2>2, BeforeEnd
  <2>5. w = MaxTime \/ PastTable - CycleSecs - Off(N) <= w
    BY <1>2, <1>4, <2>1, <2>2, FromStart
  <2>6. CycleSecs * j + CycleSecs <= CycleSecs * k
    BY <1>3, <1>4, <1>11, MulMono
  <2>7. CycleSecs * k = k * CycleSecs /\ CycleSecs * j = j * CycleSecs
        /\ k * CycleSecs \in Int /\ j * CycleSecs \in Int
    BY <1>3, <1>4
  <2> HIDE DEF v, w
  <2> QED
    BY <1>4, <1>8, <2>3, <2>4, <2>5, <2>6, <2>7
<1> DEFINE x == MaxTime \div CycleSecs
           J == j * CycleSecs
           K == k * CycleSecs
<1>12. x \in Int /\ J \in Nat /\ K \in Nat /\ (j = k => J = K) /\ (k > 0 => K > 0) /\ (j = 0 => J = 0)
  BY <1>3, <1>4, <1>8
<1>13. /\ Forward(v, j) = IF j > x \/ v > MaxTime - J THEN MaxTime ELSE v + J
       /\ Forward(w, k) = IF k > x \/ w > MaxTime - K THEN MaxTime ELSE w + K
  BY DEF Forward
<1> HIDE DEF x, J, K, v, w
<1>14. CASE j = k
  BY <1>3, <1>8, <1>9, <1>10, <1>12, <1>13, <1>14
<1>15. CASE j < k
  <2>1. w = MaxTime \/ v + J < w + K
    BY <1>11, <1>15 DEF J, K
  <2>2. k > 0 /\ K > 0
    BY <1>3, <1>12, <1>15
  <2>3. Forward(w, k) = MaxTime \/ (k <= x /\ v + J < w + K /\ Forward(w, k) = w + K)
    BY <1>3, <1>8, <1>12, <1>13, <2>1, <2>2
  <2>4. Forward(v, j) <= MaxTime /\ (Forward(v, j) = MaxTime => j > x \/ v + J >= MaxTime)
        /\ (Forward(v, j) # MaxTime => Forward(v, j) = v + J)
    BY <1>3, <1>8, <1>12, <1>13
  <2>5. Forward(w, k) <= MaxTime /\ Forward(w, k) \in Int /\ Forward(v, j) \in Int
    BY <1>3, <1>8, <1>12, <1>13
  <2>6. convert(b) = Forward(w, k)
    BY <1>3, <1>9, <2>2
  <2>7. CASE j = 0
    BY <1>8, <1>9, <1>12, <2>3, <2>5, <2>6, <2>7
  <2>8. CASE j > 0
    <3>1. convert(a) = Forward(v, j)
      BY <1>9, <2>8, <1>3
    <3> QED
      BY <1>3, <1>8, <1>12, <1>15, <2>3, <2>4, <2>5, <2>6, <3>1
  <2> QED
    BY <1>3, <2>7, <2>8
<1> QED
  BY <1>3, <1>14, <1>15

-----------------------------------------------------------------------------
(* Loading *)

\* A set of natural numbers that is not empty has a least member.
LEMMA LeastOf ==
  ASSUME NEW S, S \subseteq Nat, S # {}
  PROVE  \E m \in S : \A k \in S : m <= k
<1>1. PICK R : IsWellFoundedOn(R, Nat) /\ \A a, b \in Nat : <<a, b>> \in R <=> a < b
  BY OrderOfNat
<1>2. PICK m \in S : \A y \in S : ~(<<y, m>> \in R)
  <2>1. IsWellFoundedOn(R, Nat) /\ S \subseteq Nat /\ S # {}
    BY <1>1
  <2> QED
    BY <2>1, WFMin, Zenon
<1>3. ASSUME NEW k \in S PROVE m <= k
  <2>1. ~(<<k, m>> \in R) /\ k \in Nat /\ m \in Nat
    BY <1>2, <1>3
  <2>2. ~(k < m)
    BY <1>1, <2>1
  <2> QED
    BY <2>1, <2>2
<1> QED
  BY <1>3

\* A bounded set of natural numbers that is not empty has a greatest member.
LEMMA GreatestOf ==
  ASSUME NEW n \in Nat, NEW S, S \subseteq 0..n, S # {}
  PROVE  \E m \in S : \A k \in S : k <= m
<1> DEFINE T == {l \in Nat : n - l \in S}
<1>1. T \subseteq Nat /\ T # {}
  <2>1. PICK k \in S : TRUE
    OBVIOUS
  <2>2. n - k \in Nat /\ n - (n - k) = k
    BY <2>1
  <2> QED
    BY <2>1, <2>2
<1>2. PICK l \in T : \A m \in T : l <= m
  BY <1>1, LeastOf
<1>3. ASSUME NEW k \in S PROVE k <= n - l
  <2>1. n - k \in Nat /\ n - (n - k) = k /\ k \in Nat
    BY <1>3
  <2>2. n - k \in T
    BY <2>1
  <2>3. l <= n - k /\ l \in Nat
    BY <1>2, <2>2
  <2> QED
    BY <2>1, <2>3
<1> QED
  BY <1>2, <1>3

\* A type that is found or made is the one asked for, and the others stay where they are.
LEMMA TypeMade ==
  ASSUME NEW types \in Seq(Types), NEW tt \in Types
  PROVE  LET g == GetTransitionType(types, tt) IN
         /\ g.types \in Seq(Types) /\ Len(types) <= Len(g.types)
         /\ \A i \in 1..Len(types) : g.types[i] = types[i]
         /\ \A i \in 1..Len(g.types) : i \in 1..Len(types) \/ g.types[i] = tt
         /\ g.index \in 0..Len(g.types) - 1 /\ g.types[g.index + 1] = tt
<1> DEFINE same == {i \in 1..Len(types) : types[i] = tt}
           g == GetTransitionType(types, tt)
<1>1. CASE same = {}
  <2>1. g = [ok |-> Len(types) <= MaxIndex, types |-> Append(types, tt), index |-> Len(types)]
    BY <1>1 DEF GetTransitionType
  <2>2. g.types = Append(types, tt) /\ g.index = Len(types)
    BY <2>1
  <2>3. /\ Append(types, tt) \in Seq(Types) /\ Len(Append(types, tt)) = Len(types) + 1
        /\ Append(types, tt)[Len(types) + 1] = tt
        /\ \A i \in 1..Len(types) : Append(types, tt)[i] = types[i]
    OBVIOUS
  <2>4. \A i \in 1..Len(types) + 1 : i \in 1..Len(types) \/ i = Len(types) + 1
    OBVIOUS
  <2> HIDE DEF g
  <2> QED
    BY <2>2, <2>3, <2>4 DEF g
<1>2. CASE same # {}
  <2> DEFINE i == CHOOSE i \in same : \A j \in same : i <= j
  <2>1. same \subseteq Nat
    OBVIOUS
  <2>2. \E m \in same : \A k \in same : m <= k
    <3> HIDE DEF same
    <3> QED
      BY <1>2, <2>1, LeastOf
  <2>3. i \in same
    BY <2>2
  <2>4. g = [ok |-> TRUE, types |-> types, index |-> i - 1]
    BY <1>2 DEF GetTransitionType
  <2>5. g.types = types /\ g.index = i - 1
    BY <2>4
  <2> HIDE DEF g, i
  <2>6. i \in 1..Len(types) /\ types[i] = tt /\ i - 1 + 1 = i
    BY <2>3
  <2> QED
    BY <2>5, <2>6 DEF g
<1> QED
  BY <1>1, <1>2

\* A zoneinfo file, as SourcesAssumption has it.
IsFile(raw) ==
  /\ raw \in [readable : BOOLEAN, times : Seq(Int), index : Seq(Nat), types : Seq(Types), rule : Rules]
  /\ Len(raw.index) = Len(raw.times)
  /\ \A i \in 1..Len(raw.times) : BigBang <= raw.times[i] /\ raw.times[i] <= MaxTime
  /\ Dated(raw.rule) =>
       /\ raw.times # <<>>
       /\ -CycleSecs <= raw.times[Len(raw.times)]
       /\ \A i \in 1..Len(raw.times) : raw.times[i] <= MaxTime - 3 * CycleSecs
       /\ \A k \in 0..Cycle - 1 : InYear(raw.types, raw.rule, k)

\* The default type is one of the file's.
LEMMA DefaultInRange ==
  ASSUME NEW raw, IsFile(raw), DataOK(raw)
  PROVE  DefaultType(raw) \in 0..Len(raw.types) - 1
<1> DEFINE is_dst(i) == raw.types[i + 1].dst
           used == \E i \in 1..Len(raw.index) : raw.index[i] = 0
           down == {k \in 0..raw.index[1] : k = 0 \/ ~is_dst(k)}
           start == IF is_dst(0) THEN CHOOSE k \in down : \A l \in down : l <= k ELSE 0
           up == {k \in start..Len(raw.types) - 1 : ~is_dst(k)}
<1>1. DefaultType(raw) = IF used /\ up # {} THEN CHOOSE k \in up : \A l \in up : k <= l ELSE 0
  BY DEF DefaultType
<1>2. Len(raw.types) \in Nat \ {0} /\ raw.index \in Seq(Nat)
  BY DEF IsFile, DataOK
<1>3. CASE ~(used /\ up # {})
  <2>1. DefaultType(raw) = 0
    BY <1>1, <1>3, Zenon
  <2> QED
    BY <1>2, <2>1
<1>4. CASE used /\ up # {}
  <2>1. start \in Nat
    <3>1. CASE ~is_dst(0)
      BY <3>1
    <3>2. CASE is_dst(0)
      <4>1. raw.index[1] \in Nat
        <5>1. 1 \in 1..Len(raw.index)
          BY <1>2, <1>4
        <5> QED
          BY <1>2, <5>1
      <4>2. down \subseteq 0..raw.index[1] /\ 0 \in down
        BY <4>1
      <4>3. \E m \in down : \A k \in down : k <= m
        <5> HIDE DEF down
        <5> QED
          BY <4>1, <4>2, GreatestOf
      <4>4. (CHOOSE k \in down : \A l \in down : l <= k) \in down
        <5> HIDE DEF down
        <5> QED
          BY <4>3
      <4>5. start \in down
        BY <3>2, <4>4
      <4> QED
        BY <4>1, <4>2, <4>5
    <3> QED
      BY <3>1, <3>2
  <2> HIDE DEF start
  <2>2. up \subseteq Nat /\ up \subseteq 0..Len(raw.types) - 1
    BY <1>2, <2>1
  <2> HIDE DEF up
  <2>3. \E m \in up : \A k \in up : m <= k
    BY <1>4, <2>2, LeastOf
  <2>4. (CHOOSE k \in up : \A l \in up : k <= l) \in up
    BY <2>3
  <2> QED
    BY <1>1, <1>4, <2>2, <2>4
<1> QED
  BY <1>3, <1>4

\* What the transitions of a table are before the local times are added: some, with rising
\* times, of known types.
Moments == [time : Int, index : Nat]
Ordered(trans, n) ==
  /\ trans \in Seq(Moments) /\ Len(trans) > 0
  /\ \A i \in 1..Len(trans) : trans[i].index < n
  /\ \A i \in 1..Len(trans) - 1 : trans[i].time < trans[i + 1].time

\* The transitions of a file are in order, from the big bang to the last representable time.
LEMMA FileOrdered ==
  ASSUME NEW raw, IsFile(raw), DataOK(raw)
  PROVE  LET trans == FileTransitions(raw) IN
         /\ Ordered(trans, Len(raw.types))
         /\ BigBang <= trans[1].time
         /\ \A i \in 1..Len(trans) : trans[i].time <= MaxTime
         /\ raw.times # <<>> => trans[Len(trans)].time = raw.times[Len(raw.times)]
<1> DEFINE file == [i \in 1..Len(raw.times) |-> Trans(raw.times[i], raw.index[i])]
           first == Trans(BigBang, DefaultType(raw))
           trans == FileTransitions(raw)
           n == Len(raw.times)
<1>1. /\ raw.times \in Seq(Int) /\ raw.index \in Seq(Nat) /\ n \in Nat /\ Len(raw.index) = n
      /\ \A i \in 1..n : BigBang <= raw.times[i] /\ raw.times[i] <= MaxTime
  BY DEF IsFile
<1>2. /\ \A i \in 2..n : raw.times[i - 1] < raw.times[i]
      /\ \A i \in 1..n : raw.index[i] < Len(raw.types)
      /\ Len(raw.types) > 0 /\ Len(raw.types) \in Nat
  <2>1. raw.types \in Seq(Types)
    BY DEF IsFile
  <2> QED
    BY <1>1, <2>1 DEF DataOK
<1>3. file \in Seq(Moments) /\ Len(file) = n /\ \A i \in 1..n : file[i] = Trans(raw.times[i], raw.index[i])
  <2>1. \A i \in 1..n : raw.times[i] \in Int /\ raw.index[i] \in Nat
    BY <1>1
  <2>2. \A i \in 1..n : file[i] \in Moments
    BY <2>1 DEF Trans, Moments
  <2>3. file \in [1..n -> Moments] /\ n \in Nat
    BY <1>1, <2>2
  <2>4. \A i \in 1..n : file[i] = Trans(raw.times[i], raw.index[i])
    OBVIOUS
  <2> HIDE DEF file, n
  <2> QED
    BY <2>3, <2>4
<1>4. \A i \in 1..n : /\ file[i].time = raw.times[i] /\ file[i].index = raw.index[i]
                      /\ file[i].time \in Int /\ file[i].index \in Nat
  <2>1. \A i \in 1..n : raw.times[i] \in Int /\ raw.index[i] \in Nat
    BY <1>1
  <2> QED
    BY <1>3, <2>1 DEF Trans
<1>5. first \in Moments /\ first.time = BigBang /\ first.index < Len(raw.types) /\ BigBang \in Int
      /\ BigBang < 0 /\ BigBang <= MaxTime /\ MaxTime \in Int
  <2>1. DefaultType(raw) \in 0..Len(raw.types) - 1
    BY DefaultInRange
  <2>2. DefaultType(raw) \in Nat /\ DefaultType(raw) < Len(raw.types)
    BY <1>2, <2>1
  <2>3. first.time = BigBang /\ first.index = DefaultType(raw)
    BY DEF Trans
  <2>4. BigBang \in Int /\ BigBang < 0 /\ BigBang <= MaxTime /\ MaxTime \in Int
    BY TimesAssumption
  <2>5. first \in Moments
    BY <2>2, <2>4 DEF Moments, Trans
  <2> QED
    BY <2>2, <2>3, <2>4, <2>5
<1>6. trans = IF file = <<>> \/ file[1].time >= 0 THEN <<first>> \o file ELSE file
  BY DEF FileTransitions
<1> HIDE DEF file, first, n, trans
<1>7. CASE file = <<>> \/ file[1].time >= 0
  <2>1. trans = <<first>> \o file
    BY <1>6, <1>7
  <2>2. <<first>> \in Seq(Moments) /\ Len(<<first>>) = 1 /\ <<first>>[1] = first
    BY <1>5
  <2>3. /\ trans \in Seq(Moments) /\ Len(trans) = n + 1 /\ trans[1] = first
        /\ \A i \in 2..n + 1 : trans[i] = file[i - 1]
    BY <1>1, <1>3, <2>1, <2>2
  <2>4. \A i \in 1..n + 1 : trans[i].index < Len(raw.types)
    <3>1. ASSUME NEW i \in 1..n + 1 PROVE trans[i].index < Len(raw.types)
      <4>1. CASE i = 1
        BY <1>5, <2>3, <4>1
      <4>2. CASE i # 1
        <5>1. i \in 2..n + 1 /\ i - 1 \in 1..n
          BY <1>1, <4>2
        <5> QED
          BY <1>2, <1>4, <2>3, <5>1
      <4> QED
        BY <4>1, <4>2
    <3> QED
      BY <3>1
  <2>5. \A i \in 1..n : trans[i].time < trans[i + 1].time
    <3>1. ASSUME NEW i \in 1..n PROVE trans[i].time < trans[i + 1].time
      <4>1. trans[i + 1] = file[i]
        <5>1. i + 1 \in 2..n + 1 /\ i + 1 - 1 = i
          BY <1>1
        <5> QED
          BY <2>3, <5>1
      <4>2. CASE i = 1
        <5>1. file # <<>> /\ 1 \in 1..n
          BY <1>1, <1>3, <4>2
        <5>2. file[1].time >= 0 /\ file[1].time \in Int
          BY <1>4, <1>7, <5>1
        <5> QED
          BY <1>5, <2>3, <4>1, <4>2, <5>2
      <4>3. CASE i # 1
        <5>1. i \in 2..n + 1 /\ i \in 2..n /\ i - 1 \in 1..n
          BY <1>1, <4>3
        <5>2. trans[i] = file[i - 1] /\ raw.times[i - 1] < raw.times[i]
          BY <1>2, <2>3, <5>1
        <5> QED
          BY <1>4, <4>1, <5>1, <5>2
      <4> QED
        BY <4>2, <4>3
    <3> QED
      BY <3>1
  <2>6. \A i \in 1..n + 1 : trans[i].time <= MaxTime
    <3>1. ASSUME NEW i \in 1..n + 1 PROVE trans[i].time <= MaxTime
      <4>1. CASE i = 1
        BY <1>5, <2>3, <4>1
      <4>2. CASE i # 1
        <5>1. i \in 2..n + 1 /\ i - 1 \in 1..n
          BY <1>1, <4>2
        <5> QED
          BY <1>1, <1>4, <2>3, <5>1
      <4> QED
        BY <4>1, <4>2
    <3> QED
      BY <3>1
  <2>7. raw.times # <<>> => trans[n + 1].time = raw.times[n]
    <3>1. raw.times # <<>> => n + 1 \in 2..n + 1 /\ n \in 1..n /\ n + 1 - 1 = n
      BY <1>1 DEF n
    <3> QED
      BY <1>4, <2>3, <3>1
  <2>8. Len(trans) > 0 /\ Len(trans) - 1 = n
    BY <1>1, <2>3
  <2>9. BigBang <= trans[1].time
    BY <1>5, <2>3
  <2> QED
    BY <2>3, <2>4, <2>5, <2>6, <2>7, <2>8, <2>9 DEF Ordered, n, trans
<1>8. CASE ~(file = <<>> \/ file[1].time >= 0)
  <2>1. trans = file /\ n > 0
    BY <1>1, <1>3, <1>6, <1>8
  <2>2. \A i \in 1..n - 1 : trans[i].time < trans[i + 1].time
    <3>1. ASSUME NEW i \in 1..n - 1 PROVE trans[i].time < trans[i + 1].time
      <4>1. i + 1 \in 2..n /\ i \in 1..n /\ i + 1 \in 1..n /\ i + 1 - 1 = i
        BY <1>1
      <4>2. raw.times[i] < raw.times[i + 1]
        BY <1>2, <4>1
      <4> QED
        BY <1>4, <2>1, <4>1, <4>2
    <3> QED
      BY <3>1
  <2>3. 1 \in 1..n /\ n \in 1..n
    BY <1>1, <2>1
  <2> QED
    BY <1>1, <1>2, <1>3, <1>4, <2>1, <2>2, <2>3 DEF Ordered, n, trans
<1> QED
  BY <1>7, <1>8

\* A table with local times is what the conversions need, if its ends are representable.
LEMMA TableRows ==
  ASSUME NEW S, \A t \in S : t.off \in Int,
         NEW trans, NEW types \in Seq(S), NEW default \in 0..Len(types) - 1,
         Ordered(trans, Len(types)),
         zone.trans = WithCivil(trans, types, default), zone.types = types, zone.default = default,
         CivilOrder(zone.trans),
         MinTime <= trans[1].time, trans[Len(trans)].time <= MaxTime,
         MinTime <= trans[1].time + types[trans[1].index + 1].off - types[default + 1].off
  PROVE  /\ Rows /\ N = Len(trans) /\ Off(0) = types[default + 1].off
         /\ \A i \in 1..N : TimeAt(i) = trans[i].time /\ Off(i) = types[trans[i].index + 1].off
<1> DEFINE n == Len(trans)
           off(i) == types[(IF i = 0 THEN default ELSE trans[i].index) + 1].off
           Row == [time : Int, index : Nat, civil_sec : Int, prev_civil_sec : Int]
<1>1. /\ trans \in Seq(Moments) /\ n \in Nat \ {0}
      /\ \A i \in 1..n : trans[i].index < Len(types)
      /\ \A i \in 1..n - 1 : trans[i].time < trans[i + 1].time
  <2>1. trans \in Seq(Moments) /\ n > 0
    BY DEF Ordered
  <2>2. n \in Nat
    BY <2>1
  <2> QED
    BY <2>1, <2>2 DEF Ordered
<1>2. \A i \in 1..n : trans[i] \in Moments /\ trans[i].time \in Int /\ trans[i].index \in Nat
  <2>1. \A i \in 1..n : trans[i] \in Moments
    BY <1>1
  <2> QED
    BY <2>1 DEF Moments
<1>3. \A i \in 0..n : off(i) \in Int
  <2>1. \A k \in 0..Len(types) - 1 : types[k + 1] \in S
    OBVIOUS
  <2>2. \A k \in 0..Len(types) - 1 : types[k + 1].off \in Int
    BY <2>1
  <2>3. ASSUME NEW i \in 0..n PROVE (IF i = 0 THEN default ELSE trans[i].index) \in 0..Len(types) - 1
    BY <1>1, <1>2
  <2> QED
    BY <2>2, <2>3
<1> HIDE DEF n
<1>4. \A i \in 1..n :
        /\ zone.trans[i] = [time |-> trans[i].time, index |-> trans[i].index,
                            civil_sec |-> trans[i].time + off(i),
                            prev_civil_sec |-> trans[i].time + off(i - 1) - 1]
  <2>1. ASSUME NEW i \in 1..n
        PROVE  zone.trans[i] = [time |-> trans[i].time, index |-> trans[i].index,
                            civil_sec |-> trans[i].time + off(i),
                            prev_civil_sec |-> trans[i].time + off(i - 1) - 1]
    <3>1. off(i) = types[trans[i].index + 1].off
      BY <1>1
    <3>2. off(i - 1) = types[(IF i = 1 THEN default ELSE trans[i - 1].index) + 1].off
      BY <1>1
    <3> QED
      BY <3>1, <3>2 DEF WithCivil, n
  <2> QED
    BY <2>1
<1> HIDE DEF off
<1>5. \A i \in 1..n : off(i - 1) \in Int /\ off(i) \in Int
  BY <1>1, <1>3
<1>6. zone.trans \in [1..n -> Row]
  <2>1. ASSUME NEW i \in 1..n PROVE zone.trans[i] \in Row
    <3> DEFINE t == trans[i].time
               x == trans[i].index
               a == off(i)
               b == off(i - 1)
    <3>1. t \in Int /\ x \in Nat /\ a \in Int /\ b \in Int
      BY <1>2, <1>5
    <3>2. zone.trans[i] = [time |-> t, index |-> x, civil_sec |-> t + a, prev_civil_sec |-> t + b - 1]
      BY <1>4
    <3> HIDE DEF t, x, a, b
    <3> QED
      BY <3>1, <3>2
  <2>2. DOMAIN zone.trans = 1..n
    BY DEF WithCivil, n
  <2>3. zone.trans = [i \in 1..n |-> zone.trans[i]]
    BY DEF WithCivil, n
  <2> QED
    BY <2>1, <2>3
<1>7. N = n
  BY <1>1, <1>6 DEF N
<1>8. \A i \in 1..n : /\ TimeAt(i) = trans[i].time /\ zone.trans[i].index = trans[i].index
                      /\ CivilAt(i) = trans[i].time + off(i)
                      /\ PrevAt(i) = trans[i].time + off(i - 1) - 1
  <2>1. ASSUME NEW i \in 1..n
        PROVE  /\ TimeAt(i) = trans[i].time /\ zone.trans[i].index = trans[i].index
               /\ CivilAt(i) = trans[i].time + off(i)
               /\ PrevAt(i) = trans[i].time + off(i - 1) - 1
    <3> DEFINE row == [time |-> trans[i].time, index |-> trans[i].index,
                       civil_sec |-> trans[i].time + off(i),
                       prev_civil_sec |-> trans[i].time + off(i - 1) - 1]
    <3>1. zone.trans[i] = row
      BY <1>4
    <3>2. row.time = trans[i].time /\ row.index = trans[i].index /\ row.civil_sec = trans[i].time + off(i)
          /\ row.prev_civil_sec = trans[i].time + off(i - 1) - 1
      OBVIOUS
    <3> HIDE DEF row
    <3> QED
      BY <3>1, <3>2 DEF TimeAt, CivilAt, PrevAt
  <2> QED
    BY <2>1
<1>9. \A i \in 0..n : Off(i) = off(i)
  <2>1. ASSUME NEW i \in 0..n PROVE Off(i) = off(i)
    <3>1. CASE i = 0
      BY <3>1 DEF Off, TypeOf, off
    <3>2. CASE i # 0
      <4>1. zone.trans[i].index = trans[i].index
        BY <1>1, <1>8, <3>2
      <4> QED
        BY <3>2, <4>1 DEF Off, TypeOf, off
    <3> QED
      BY <3>1, <3>2
  <2> QED
    BY <2>1
<1>10. \A i \in 1..n : /\ TimeAt(i) \in Int /\ CivilAt(i) = TimeAt(i) + Off(i)
                       /\ PrevAt(i) = TimeAt(i) + Off(i - 1) - 1
  <2>1. ASSUME NEW i \in 1..n
        PROVE  TimeAt(i) \in Int /\ CivilAt(i) = TimeAt(i) + Off(i) /\ PrevAt(i) = TimeAt(i) + Off(i - 1) - 1
    <3>1. i \in 0..n /\ i - 1 \in 0..n
      BY <1>1
    <3> QED
      BY <1>2, <1>8, <1>9, <3>1
  <2> QED
    BY <2>1
<1>11. \A i \in 1..n - 1 : TimeAt(i) < TimeAt(i + 1) /\ CivilAt(i) < CivilAt(i + 1)
  <2>1. ASSUME NEW i \in 1..n - 1 PROVE TimeAt(i) < TimeAt(i + 1) /\ CivilAt(i) < CivilAt(i + 1)
    <3>1. i \in 1..n /\ i + 1 \in 1..n /\ i + 1 \in 2..Len(zone.trans) /\ i + 1 - 1 = i
      BY <1>1, <1>7 DEF N
    <3>2. CivilAt(i) < CivilAt(i + 1)
      BY <3>1 DEF CivilOrder, CivilAt
    <3> QED
      BY <1>1, <1>8, <3>1, <3>2
  <2> QED
    BY <2>1
<1>12. 1 \in 1..n /\ n \in 1..n /\ 0 \in 0..n /\ 1 \in 0..n
  BY <1>1
<1>13. Off(0) = types[default + 1].off /\ Off(1) = types[trans[1].index + 1].off
  BY <1>9, <1>12 DEF off
<1>14. MinTime <= TimeAt(1) /\ TimeAt(n) <= MaxTime /\ MinTime <= CivilAt(1) - Off(0)
  <2>1. TimeAt(1) = trans[1].time /\ CivilAt(1) = trans[1].time + Off(1)
    BY <1>8, <1>9, <1>12
  <2>2. TimeAt(n) = trans[n].time
    BY <1>8, <1>12
  <2>3. trans[1].time \in Int /\ Off(0) \in Int /\ Off(1) \in Int
    BY <1>2, <1>3, <1>9, <1>12 DEF off
  <2>4. MinTime <= trans[1].time + Off(1) - Off(0)
    BY <1>13
  <2> QED
    BY <2>1, <2>2, <2>3, <2>4 DEF n
<1>15. \A i \in 0..n : Off(i) \in Int
  BY <1>3, <1>9 DEF off
<1>16. Rows
  BY <1>1, <1>7, <1>10, <1>11, <1>14, <1>15 DEF Rows
<1>17. \A i \in 1..n : Off(i) = types[trans[i].index + 1].off
  <2>1. ASSUME NEW i \in 1..n PROVE Off(i) = types[trans[i].index + 1].off
    <3>1. i \in 0..n /\ i # 0
      BY <1>1
    <3> QED
      BY <1>9, <3>1 DEF off
  <2> QED
    BY <2>1
<1> QED
  BY <1>7, <1>8, <1>13, <1>16, <1>17 DEF n

\* A zone of a fixed offset, and the zone that is left when a file cannot be used.
LEMMA FixedRows ==
  ASSUME NEW offset \in Int, zone.trans = ResetToBuiltinUTC(offset).trans,
         zone.types = ResetToBuiltinUTC(offset).types, zone.default = 0, zone.extended = FALSE
  PROVE  Rows /\ Repeats /\ TimeAt(1) = BigBang /\ \A i \in 1..N : zone.trans[i].index = 0
<1> DEFINE types == <<Type(offset, FALSE, "fixed")>>
           times == <<BigBang>> \o Contemporary
           trans == [i \in 1..Len(times) |-> Trans(times[i], 0)]
           n == Len(Contemporary)
<1>1. zone.types = types /\ zone.trans = WithCivil(trans, types, 0)
  BY DEF ResetToBuiltinUTC
<1> DEFINE ty == Type(offset, FALSE, "fixed")
<1>2. ty.off = offset
  BY DEF Type
<1> HIDE DEF ty
<1>3. types = <<ty>>
  BY DEF ty
<1> HIDE DEF types
<1>4. types \in Seq({ty}) /\ Len(types) = 1 /\ types[1] = ty /\ types[1].off = offset
  BY <1>2, <1>3
<1>5. /\ Contemporary \in Seq(BigBang + 1..MaxTime) /\ n \in Nat
      /\ \A i \in 2..n : Contemporary[i - 1] < Contemporary[i]
      /\ \A i \in 1..n : Contemporary[i] \in BigBang + 1..MaxTime
  <2>1. Contemporary \in Seq(BigBang + 1..MaxTime)
        /\ \A i \in 2..n : Contemporary[i - 1] < Contemporary[i]
    BY ContemporaryAssumption
  <2>2. n \in Nat /\ \A i \in 1..n : Contemporary[i] \in BigBang + 1..MaxTime
    <3> DEFINE T == BigBang + 1..MaxTime
    <3> HIDE DEF T
    <3>1. Contemporary \in Seq(T)
      BY <2>1 DEF T
    <3>2. n \in Nat /\ \A i \in 1..n : Contemporary[i] \in T
      BY <3>1
    <3> QED
      BY <3>2 DEF T
  <2> QED
    BY <2>1, <2>2
<1>6. BigBang \in Int /\ MaxTime \in Int /\ MinTime \in Int /\ MinTime <= BigBang /\ BigBang <= MaxTime
  BY TimesAssumption
<1>7. /\ times \in Seq(Int) /\ Len(times) = n + 1 /\ times[1] = BigBang
      /\ \A i \in 2..n + 1 : times[i] = Contemporary[i - 1]
  <2>1. <<BigBang>> \in Seq(Int) /\ Len(<<BigBang>>) = 1 /\ <<BigBang>>[1] = BigBang
    BY <1>6
  <2>2. Contemporary \in Seq(Int)
    <3>1. BigBang + 1..MaxTime \subseteq Int
      OBVIOUS
    <3> QED
      BY <1>5, <3>1
  <2> QED
    BY <1>5, <2>1, <2>2
<1> HIDE DEF times, n
<1>8. \A i \in 1..n : times[i] < times[i + 1] /\ times[i + 1] <= MaxTime
  <2>1. ASSUME NEW i \in 1..n PROVE times[i] < times[i + 1] /\ times[i + 1] <= MaxTime
    <3>1. i + 1 \in 2..n + 1 /\ i + 1 - 1 = i
      BY <1>5
    <3>2. times[i + 1] = Contemporary[i] /\ Contemporary[i] \in BigBang + 1..MaxTime
      <4>1. times[i + 1] = Contemporary[i + 1 - 1]
        BY <1>7, <3>1
      <4> QED
        BY <1>5, <3>1, <4>1
    <3>3. CASE i = 1
      BY <1>6, <1>7, <3>2, <3>3
    <3>4. CASE i # 1
      <4>1. i \in 2..n /\ i \in 2..n + 1
        BY <1>5, <3>4
      <4>2. times[i] = Contemporary[i - 1] /\ Contemporary[i - 1] < Contemporary[i]
        BY <1>5, <1>7, <4>1
      <4> QED
        BY <1>6, <3>2, <4>2
    <3> QED
      BY <3>3, <3>4
  <2> QED
    BY <2>1
<1>9. /\ trans \in Seq(Moments) /\ Len(trans) = n + 1
      /\ \A i \in 1..n + 1 : trans[i].time = times[i] /\ trans[i].index = 0
  <2>1. trans = [i \in 1..n + 1 |-> Trans(times[i], 0)]
    BY <1>7
  <2>2. \A i \in 1..n + 1 : times[i] \in Int
    BY <1>7
  <2>3. trans \in [1..n + 1 -> Moments] /\ n + 1 \in Nat
    BY <1>5, <2>1, <2>2 DEF Trans, Moments
  <2>4. \A i \in 1..n + 1 : trans[i] = Trans(times[i], 0)
    BY <2>1
  <2>5. ASSUME NEW i \in 1..n + 1 PROVE trans[i].time = times[i] /\ trans[i].index = 0
    <3>1. trans[i] = [time |-> times[i], index |-> 0]
      BY <2>4 DEF Trans
    <3> QED
      BY <3>1
  <2> HIDE DEF trans
  <2> QED
    BY <2>3, <2>5
<1> HIDE DEF trans
<1>10. Ordered(trans, Len(types))
  BY <1>4, <1>5, <1>8, <1>9 DEF Ordered
<1>11. CivilOrder(zone.trans)
  <2>1. ASSUME NEW i \in 1..n + 1
        PROVE  zone.trans[i].civil_sec = times[i] + offset
    <3>1. zone.trans[i].civil_sec = trans[i].time + types[trans[i].index + 1].off
      BY <1>1, <1>9 DEF WithCivil
    <3>2. trans[i].index + 1 = 1
      BY <1>9
    <3> QED
      BY <1>4, <1>9, <3>1, <3>2
  <2>2. Len(zone.trans) = n + 1
    <3>1. zone.trans = [i \in 1..n + 1 |-> zone.trans[i]] /\ n + 1 \in Nat
      BY <1>1, <1>5, <1>9 DEF WithCivil
    <3> QED
      BY <3>1
  <2>3. ASSUME NEW i \in 2..n + 1 PROVE zone.trans[i - 1].civil_sec < zone.trans[i].civil_sec
    <3>1. i - 1 \in 1..n + 1 /\ i \in 1..n + 1 /\ i - 1 \in 1..n /\ i - 1 + 1 = i
      BY <1>5
    <3>2. times[i - 1] < times[i] /\ times[i - 1] \in Int /\ times[i] \in Int
      BY <1>7, <1>8, <3>1
    <3> QED
      BY <2>1, <3>1, <3>2
  <2> QED
    BY <2>2, <2>3 DEF CivilOrder
<1>12. trans[1].time = BigBang /\ trans[1].index = 0 /\ trans[Len(trans)].time <= MaxTime
  <2>1. 1 \in 1..n + 1 /\ n + 1 \in 1..n + 1
    BY <1>5
  <2>2. times[n + 1] <= MaxTime
    <3>1. CASE n = 0
      BY <1>6, <1>7, <3>1
    <3>2. CASE n # 0
      <4>1. n \in 1..n
        BY <1>5, <3>2
      <4> QED
        BY <1>8, <4>1
    <3> QED
      BY <3>1, <3>2
  <2> QED
    BY <1>7, <1>9, <2>1, <2>2
<1>13. MinTime <= trans[1].time + types[trans[1].index + 1].off - types[0 + 1].off
  <2>1. trans[1].index + 1 = 1 /\ 0 + 1 = 1
    BY <1>12
  <2> QED
    BY <1>4, <1>6, <1>12, <2>1
<1>14. 0 \in 0..Len(types) - 1 /\ \A t \in {ty} : t.off \in Int
  BY <1>2, <1>4
<1>15. Rows /\ N = Len(trans) /\ \A i \in 1..N : TimeAt(i) = trans[i].time
  <2> DEFINE S == {ty}
             default == 0
  <2>1. /\ \A t \in S : t.off \in Int
        /\ types \in Seq(S) /\ default \in 0..Len(types) - 1
        /\ Ordered(trans, Len(types))
        /\ zone.trans = WithCivil(trans, types, default) /\ zone.types = types /\ zone.default = default
        /\ CivilOrder(zone.trans)
        /\ MinTime <= trans[1].time /\ trans[Len(trans)].time <= MaxTime
        /\ MinTime <= trans[1].time + types[trans[1].index + 1].off - types[default + 1].off
    BY <1>1, <1>4, <1>6, <1>10, <1>11, <1>12, <1>13, <1>14
  <2> HIDE DEF S, default
  <2>2. Rows /\ N = Len(trans) /\ \A i \in 1..N : TimeAt(i) = trans[i].time
    BY <2>1, TableRows
  <2> QED
    BY <2>2
<1>16. \A i \in 1..N : zone.trans[i].index = 0
  <2>1. ASSUME NEW i \in 1..n + 1 PROVE zone.trans[i].index = trans[i].index
    BY <1>1, <1>9 DEF WithCivil
  <2> QED
    BY <1>9, <1>15, <2>1
<1>17. TimeAt(1) = BigBang
  <2>1. 1 \in 1..N
    BY <1>5, <1>9, <1>15
  <2> QED
    BY <1>12, <1>15, <2>1
<1>18. Repeats
  BY DEF Repeats
<1> QED
  BY <1>15, <1>16, <1>17, <1>18

\* The clocks of a zone with a rule: the types of its file and those of its rule.
Clocks(raw) == {raw.types[i] : i \in 1..Len(raw.types)} \cup {raw.rule.std, raw.rule.dst}

\* What a file with a dated rule is known to hold.
LEMMA DatedFacts ==
  ASSUME NEW raw, IsFile(raw), Dated(raw.rule)
  PROVE  /\ raw.rule.kind = "rule" /\ raw.rule.dst # NoDst /\ ~raw.rule.allyear
         /\ raw.rule.std \in Types /\ raw.rule.dst \in Types
         /\ raw.rule.start \in [0..Cycle - 1 -> Int] /\ raw.rule.end \in [0..Cycle - 1 -> Int]
         /\ raw.types \in Seq(Types) /\ \A x \in Clocks(raw) : x \in Types /\ x.off \in Int
<1>1. raw.rule \in Rules /\ raw.rule.kind = "rule" /\ raw.types \in Seq(Types)
      /\ raw.rule.dst # NoDst /\ ~raw.rule.allyear
  BY DEF IsFile, Dated
<1>2. raw.rule # NoRule /\ raw.rule # BadRule
  BY <1>1 DEF NoRule, BadRule
<1>3. raw.rule \in [kind : {"rule"}, std : Types, dst : Types, allyear : BOOLEAN,
                    start : [0..Cycle - 1 -> Int], end : [0..Cycle - 1 -> Int]]
  BY <1>1, <1>2 DEF Rules
<1>4. raw.rule.std \in Types /\ raw.rule.dst \in Types
      /\ raw.rule.start \in [0..Cycle - 1 -> Int] /\ raw.rule.end \in [0..Cycle - 1 -> Int]
  BY <1>3
<1>5. \A x \in Clocks(raw) : x \in Types
  BY <1>1, <1>4 DEF Clocks
<1>6. \A x \in Types : x.off \in Int
  BY DEF Types
<1> QED
  BY <1>1, <1>4, <1>5, <1>6

\* The two changes of a year are in their year, on every clock, and in order.
LEMMA PairInYear ==
  ASSUME NEW raw, IsFile(raw), Dated(raw.rule), NEW s \in Nat, NEW d \in Nat, NEW y \in Int
  PROVE  LET pair == RulePair(raw.rule, s, d, y) IN
         /\ pair \in Seq(Moments) /\ Len(pair) = 2
         /\ pair[1] \in Moments /\ pair[2] \in Moments
         /\ pair[1].time \in Int /\ pair[2].time \in Int /\ pair[1].time < pair[2].time
         /\ pair[1].index \in {s, d} /\ pair[2].index \in {s, d}
         /\ \A x \in Clocks(raw), j \in {1, 2} :
              YearStart(y) <= pair[j].time + x.off /\ pair[j].time + x.off < YearStart(y + 1)
<1> DEFINE rule == raw.rule
           k == y % Cycle
           ys == YearStart(y)
           u == ys + rule.start[k] - rule.std.off
           w == ys + rule.end[k] - rule.dst.off
           dst == Trans(u, d)
           std == Trans(w, s)
           pair == RulePair(rule, s, d, y)
<1>1. /\ ys \in Int /\ k \in 0..Cycle - 1 /\ YearSecs[k] \in Nat \ {0}
      /\ YearStart(y + 1) = ys + YearSecs[k]
  BY YearStartNext
<1>2. rule.start[k] \in Int /\ rule.end[k] \in Int /\ rule.std.off \in Int /\ rule.dst.off \in Int
      /\ \A x \in Clocks(raw) : x.off \in Int
  <2>1. raw.rule.std \in Clocks(raw) /\ raw.rule.dst \in Clocks(raw)
    BY DEF Clocks
  <2> QED
    BY <1>1, <2>1, DatedFacts
<1>3. InYear(raw.types, rule, k)
  BY <1>1 DEF IsFile
<1>4. pair = IF dst.time < std.time THEN <<dst, std>> ELSE <<std, dst>>
  BY DEF RulePair
<1>5. u \in Int /\ w \in Int /\ u # w
  <2>1. rule.start[k] - rule.std.off # rule.end[k] - rule.dst.off
    BY <1>3 DEF InYear
  <2> HIDE DEF k, rule, ys
  <2> QED
    BY <1>1, <1>2, <2>1
<1>6. ASSUME NEW x \in Clocks(raw)
      PROVE  /\ ys <= u + x.off /\ u + x.off < YearStart(y + 1)
             /\ ys <= w + x.off /\ w + x.off < YearStart(y + 1)
  <2>1. rule.start[k] - rule.std.off + x.off \in 0..YearSecs[k] - 1
        /\ rule.end[k] - rule.dst.off + x.off \in 0..YearSecs[k] - 1
    BY <1>3, <1>6 DEF InYear, Clocks
  <2>2. x.off \in Int
    BY <1>2, <1>6
  <2> HIDE DEF k, rule, ys
  <2> QED
    BY <1>1, <1>2, <2>1, <2>2
<1> HIDE DEF u, w, ys, pair
<1>7. dst \in Moments /\ std \in Moments /\ dst.time = u /\ std.time = w /\ dst.index = d /\ std.index = s
  BY <1>5 DEF Moments, Trans
<1> HIDE DEF dst, std
<1>8. CASE dst.time < std.time
  <2>1. pair = <<dst, std>>
    BY <1>4, <1>8
  <2>2. pair \in Seq(Moments) /\ Len(pair) = 2 /\ pair[1] = dst /\ pair[2] = std
    BY <1>7, <2>1
  <2>3. \A x \in Clocks(raw), j \in {1, 2} :
              YearStart(y) <= pair[j].time + x.off /\ pair[j].time + x.off < YearStart(y + 1)
    BY <1>6, <1>7, <2>2 DEF ys
  <2> QED
    BY <1>5, <1>7, <1>8, <2>2, <2>3 DEF pair
<1>9. CASE ~(dst.time < std.time)
  <2>1. pair = <<std, dst>>
    BY <1>4, <1>9
  <2>2. pair \in Seq(Moments) /\ Len(pair) = 2 /\ pair[1] = std /\ pair[2] = dst
    BY <1>7, <2>1
  <2>3. \A x \in Clocks(raw), j \in {1, 2} :
              YearStart(y) <= pair[j].time + x.off /\ pair[j].time + x.off < YearStart(y + 1)
    BY <1>6, <1>7, <2>2 DEF ys
  <2>4. std.time < dst.time
    BY <1>5, <1>7, <1>9
  <2> QED
    BY <1>5, <1>7, <2>2, <2>3, <2>4 DEF pair
<1> QED
  BY <1>8, <1>9

\* They are the same ones a cycle later.
LEMMA PairRepeats ==
  ASSUME NEW raw, IsFile(raw), Dated(raw.rule), NEW s \in Nat, NEW d \in Nat, NEW y \in Int
  PROVE  RulePair(raw.rule, s, d, y + Cycle)[2].index = RulePair(raw.rule, s, d, y)[2].index
<1> DEFINE rule == raw.rule
           k == y % Cycle
           a == rule.start[k] - rule.std.off
           b == rule.end[k] - rule.dst.off
           U(z) == Trans(z + rule.start[k] - rule.std.off, d)
           W(z) == Trans(z + rule.end[k] - rule.dst.off, s)
           P(z) == IF U(z).time < W(z).time THEN <<U(z), W(z)>> ELSE <<W(z), U(z)>>
<1>1. YearStart(y + Cycle) = YearStart(y) + CycleSecs /\ (y + Cycle) % Cycle = k
  <2>1. 1 * Cycle = Cycle /\ 1 * CycleSecs = CycleSecs
    BY CycleFacts, YearsRise
  <2>2. YearStart(y + 1 * Cycle) = YearStart(y) + 1 * CycleSecs /\ (y + 1 * Cycle) % Cycle = k
    BY YearStartCycle
  <2> QED
    BY <2>1, <2>2
<1>2. YearStart(y) \in Int /\ YearStart(y + Cycle) \in Int /\ k \in 0..Cycle - 1
  <2>1. y + Cycle \in Int
    BY CycleFacts
  <2> QED
    BY <2>1, YearStartNext
<1>3. rule.start[k] \in Int /\ rule.end[k] \in Int /\ rule.std.off \in Int /\ rule.dst.off \in Int
  <2>1. raw.rule.std \in Clocks(raw) /\ raw.rule.dst \in Clocks(raw)
    BY DEF Clocks
  <2> QED
    BY <1>2, <2>1, DatedFacts
<1>4. RulePair(rule, s, d, y) = P(YearStart(y)) /\ RulePair(rule, s, d, y + Cycle) = P(YearStart(y + Cycle))
  BY <1>1 DEF RulePair
<1>5. ASSUME NEW z \in Int PROVE P(z)[2].index = IF a < b THEN s ELSE d
  <2>1. U(z).time = z + rule.start[k] - rule.std.off /\ U(z).index = d
    BY DEF Trans
  <2>2. W(z).time = z + rule.end[k] - rule.dst.off /\ W(z).index = s
    BY DEF Trans
  <2>3. U(z).time < W(z).time <=> a < b
    <3> HIDE DEF k, rule
    <3> QED
      BY <1>3, <2>1, <2>2
  <2> HIDE DEF U, W, a, b
  <2> QED
    BY <2>1, <2>2, <2>3
<1> HIDE DEF P, a, b
<1> QED
  BY <1>2, <1>4, <1>5

\* Two changes in order, of known types.
IsPair(q, n) ==
  /\ q \in Seq(Moments) /\ Len(q) = 2 /\ q[1] \in Moments /\ q[2] \in Moments
  /\ q[1].time \in Int /\ q[2].time \in Int /\ q[1].time < q[2].time
  /\ q[1].index < n /\ q[2].index < n

\* The two changes of a year are in order.
LEMMA PairOrdered ==
  ASSUME NEW raw, IsFile(raw), Dated(raw.rule), NEW n \in Nat, NEW s \in Nat, NEW d \in Nat,
         s < n, d < n, NEW y \in Int
  PROVE  IsPair(RulePair(raw.rule, s, d, y), n)
<1> DEFINE q == RulePair(raw.rule, s, d, y)
<1>1. /\ q \in Seq(Moments) /\ Len(q) = 2 /\ q[1] \in Moments /\ q[2] \in Moments
      /\ q[1].time \in Int /\ q[2].time \in Int /\ q[1].time < q[2].time
  BY PairInYear
<1>2. q[1].index \in {s, d} /\ q[2].index \in {s, d}
  BY PairInYear
<1> HIDE DEF q
<1>3. IsPair(q, n)
  BY <1>1, <1>2 DEF IsPair
<1> QED
  BY <1>3 DEF q

\* Transitions appended after the last one of a table.
LEMMA Appended ==
  ASSUME NEW n \in Nat, NEW T, Ordered(T, n), NEW A \in Seq(Moments), Len(A) > 0,
         \A i \in 1..Len(A) : A[i].index < n,
         \A i \in 1..Len(A) - 1 : A[i].time < A[i + 1].time,
         T[Len(T)].time < A[1].time
  PROVE  /\ Ordered(T \o A, n) /\ Len(T \o A) = Len(T) + Len(A)
         /\ \A i \in 1..Len(T) : (T \o A)[i] = T[i]
         /\ \A i \in 1..Len(A) : (T \o A)[Len(T) + i] = A[i]
<1> DEFINE U == T \o A
           l == Len(T)
           m == Len(A)
<1>1. T \in Seq(Moments) /\ l \in Nat /\ l > 0 /\ m \in Nat
  <2>1. T \in Seq(Moments) /\ l > 0
    BY DEF Ordered
  <2> QED
    BY <2>1
<1>2. /\ U \in Seq(Moments) /\ Len(U) = l + m
      /\ \A i \in 1..l : U[i] = T[i]
      /\ \A i \in l + 1..l + m : U[i] = A[i - l]
  BY <1>1
<1> HIDE DEF U
<1>3. \A i \in 1..m : U[l + i] = A[i]
  <2>1. ASSUME NEW i \in 1..m PROVE U[l + i] = A[i]
    <3>1. l + i \in l + 1..l + m /\ l + i - l = i
      BY <1>1
    <3> QED
      BY <1>2, <3>1
  <2> QED
    BY <2>1
<1>4. ASSUME NEW i \in 1..l + m PROVE U[i].index < n
  <2>1. CASE i \in 1..l
    BY <1>2, <2>1 DEF Ordered
  <2>2. CASE i \in l + 1..l + m
    <3>1. i - l \in 1..m
      BY <1>1, <2>2
    <3> QED
      BY <1>2, <2>2, <3>1
  <2> QED
    BY <1>1, <2>1, <2>2
<1>5. ASSUME NEW i \in 1..l + m - 1 PROVE U[i].time < U[i + 1].time
  <2>1. CASE i < l
    <3>1. i \in 1..l - 1 /\ i \in 1..l /\ i + 1 \in 1..l
      BY <1>1, <2>1
    <3>2. T[i].time < T[i + 1].time
      BY <3>1 DEF Ordered
    <3> QED
      BY <1>2, <3>1, <3>2
  <2>2. CASE i = l
    <3>1. i \in 1..l /\ i + 1 = l + 1 /\ 1 \in 1..m
      BY <1>1, <2>2
    <3>2. U[i] = T[l] /\ U[i + 1] = A[1]
      BY <1>2, <1>3, <2>2, <3>1
    <3> QED
      BY <3>2
  <2>3. CASE i > l
    <3>1. i \in l + 1..l + m /\ i + 1 \in l + 1..l + m /\ i - l \in 1..m - 1 /\ i + 1 - l = i - l + 1
      BY <1>1, <2>3
    <3>2. U[i] = A[i - l] /\ U[i + 1] = A[i - l + 1]
      BY <1>2, <3>1
    <3> QED
      BY <3>1, <3>2
  <2> QED
    BY <1>1, <2>1, <2>2, <2>3
<1>6. Len(U) > 0
  BY <1>1, <1>2
<1>7. Ordered(U, n)
  BY <1>2, <1>4, <1>5, <1>6 DEF Ordered
<1> QED
  BY <1>2, <1>3, <1>7 DEF U

\* p is the place of the second change of the first whole year, y + 1.
WholeYear(T, rule, s, d, y, p) ==
  /\ p \in 2..Len(T) - 1
  /\ T[p - 1] = RulePair(rule, s, d, y + 1)[1]
  /\ T[p] = RulePair(rule, s, d, y + 1)[2]
  /\ T[p + 1] = RulePair(rule, s, d, y + 2)[1]

\* The changes of a rule come year after year, and after the file from the year first on.
LEMMA PairsApart ==
  ASSUME NEW raw, IsFile(raw), Dated(raw.rule), NEW n \in Nat, NEW s \in Nat, NEW d \in Nat,
         s < n, d < n, NEW trans, Ordered(trans, n), NEW x \in Clocks(raw), NEW first \in Int,
         trans[Len(trans)].time + x.off < YearStart(first + 1)
  PROVE  LET pair(y) == RulePair(raw.rule, s, d, y)
             lt == trans[Len(trans)].time
         IN  /\ trans \in Seq(Moments) /\ Len(trans) \in Nat /\ Len(trans) > 0 /\ lt \in Int
             /\ \A y \in Int : IsPair(pair(y), n)
             /\ \A y \in Int : /\ pair(y)[2].time < pair(y + 1)[1].time
                               /\ y > first => lt < pair(y)[1].time /\ lt < pair(y)[2].time
<1> DEFINE rule == raw.rule
           pair(y) == RulePair(rule, s, d, y)
           lt == trans[Len(trans)].time
           S == Seq(Moments)
<1>2. trans \in S /\ Len(trans) \in Nat /\ Len(trans) > 0 /\ lt \in Int
  <2>1. trans \in Seq(Moments) /\ Len(trans) > 0
    BY DEF Ordered
  <2>2. Len(trans) \in 1..Len(trans)
    BY <2>1
  <2>3. trans[Len(trans)] \in Moments
    BY <2>1, <2>2
  <2> QED
    BY <2>1, <2>3 DEF Moments
<1>3. \A y \in Int : IsPair(pair(y), n)
  BY PairOrdered
<1>4. \A y \in Int : /\ pair(y)[2].time < pair(y + 1)[1].time
                     /\ y > first => lt < pair(y)[1].time /\ lt < pair(y)[2].time
  <2> SUFFICES ASSUME NEW y \in Int
               PROVE  /\ pair(y)[2].time < pair(y + 1)[1].time
                      /\ y > first => lt < pair(y)[1].time /\ lt < pair(y)[2].time
    OBVIOUS
  <2>1. y + 1 \in Int /\ x.off \in Int /\ YearStart(y) \in Int /\ YearStart(y + 1) \in Int
        /\ YearStart(first + 1) \in Int
    <3>1. y + 1 \in Int /\ first + 1 \in Int
      OBVIOUS
    <3>2. x.off \in Int
      BY DatedFacts
    <3> QED
      BY <3>1, <3>2, YearStartNext
  <2>2. pair(y)[2].time + x.off < YearStart(y + 1)
    BY PairInYear
  <2>3. YearStart(y + 1) <= pair(y + 1)[1].time + x.off
    BY <2>1, PairInYear
  <2>4. YearStart(y) <= pair(y)[1].time + x.off
    BY PairInYear
  <2>5. y > first => YearStart(first + 1) <= YearStart(y)
    <3>1. CASE y = first + 1
      BY <2>1, <3>1
    <3>2. CASE y > first + 1
      BY <2>1, <3>2, YearStartRises
    <3> QED
      BY <3>1, <3>2
  <2>6. pair(y)[1].time \in Int /\ pair(y)[2].time \in Int /\ pair(y + 1)[1].time \in Int
        /\ pair(y)[1].time < pair(y)[2].time
    BY <1>3, <2>1 DEF IsPair
  <2> HIDE DEF pair, lt
  <2>7. lt + x.off < YearStart(first + 1)
    BY DEF lt
  <2> DEFINE a == pair(y)[1].time
             b == pair(y)[2].time
             c == pair(y + 1)[1].time
  <2>8. b < c
    <3>1. b + x.off < YearStart(y + 1) /\ YearStart(y + 1) <= c + x.off /\ b \in Int /\ c \in Int
      BY <2>2, <2>3, <2>6
    <3> HIDE DEF b, c
    <3> QED
      BY <2>1, <3>1
  <2>9. ASSUME y > first PROVE lt < a /\ lt < b
    <3>1. YearStart(first + 1) <= YearStart(y) /\ YearStart(y) <= a + x.off /\ a < b /\ a \in Int /\ b \in Int
      BY <2>4, <2>5, <2>6, <2>9
    <3> HIDE DEF a, b
    <3> QED
      BY <1>2, <2>1, <2>7, <3>1
  <2> QED
    BY <2>8, <2>9
<1> QED
  BY <1>2, <1>3, <1>4

\* The passes of the loop of ExtendTransitions: f[k] is the table after k of them.
Passes(f, raw, s, d, trans, first) ==
  LET pair(y) == RulePair(raw.rule, s, d, y) IN
  /\ f \in [0..Cycle + 2 -> Seq(Moments)]
  /\ f[1] = trans \o After(pair(first), trans[Len(trans)].time)
  /\ \A k \in 1..Cycle + 1 : f[k + 1] = f[k] \o pair(first + k)
  /\ ExtendYears(raw.rule, s, d, trans, first, first + Cycle + 1) = f[Cycle + 2]

\* The loop of ExtendTransitions, unfolded.
LEMMA ExtendedSteps ==
  ASSUME NEW raw, IsFile(raw), Dated(raw.rule), NEW n \in Nat, NEW s \in Nat, NEW d \in Nat,
         s < n, d < n, NEW trans, Ordered(trans, n), NEW x \in Clocks(raw), NEW first \in Int,
         trans[Len(trans)].time + x.off < YearStart(first + 1)
  PROVE  \E f : Passes(f, raw, s, d, trans, first)
<1> DEFINE rule == raw.rule
           pair(y) == RulePair(rule, s, d, y)
           lt == trans[Len(trans)].time
           K == Cycle + 2
           limit == first + Cycle + 1
           S == Seq(Moments)
           More(i) == After(pair(first + i - 1), lt)
           body(f) == [k \in 0..limit - first + 1 |->
                         IF k = 0 THEN trans
                         ELSE f[k - 1] \o After(RulePair(rule, s, d, first + k - 1), lt)]
<1>1. Cycle \in Nat \ {0} /\ K \in Nat /\ limit - first + 1 = K /\ K >= 3 /\ limit \in Int
  BY CycleFacts
<1>2. trans \in S /\ Len(trans) \in Nat /\ Len(trans) > 0 /\ lt \in Int
  BY PairsApart
<1>3. \A y \in Int : IsPair(pair(y), n)
  BY PairsApart
<1>4. \A y \in Int : /\ pair(y)[2].time < pair(y + 1)[1].time
                     /\ y > first => lt < pair(y)[1].time /\ lt < pair(y)[2].time
  BY PairsApart
<1> HIDE DEF pair
<1>5. \A i \in 1..K : More(i) \in S
  <2>1. ASSUME NEW i \in 1..K PROVE More(i) \in S
    <3> DEFINE q == pair(first + i - 1)
    <3>1. q \in S /\ q[2] \in Moments
      <4>1. first + i - 1 \in Int
        BY <1>1
      <4> QED
        BY <1>3, <4>1 DEF IsPair
    <3> HIDE DEF q
    <3>2. <<>> \in S /\ <<q[2]>> \in S
      BY <3>1
    <3>3. More(i) = After(q, lt)
      BY DEF q
    <3> HIDE DEF More, S
    <3> QED
      BY <3>1, <3>2, <3>3 DEF After
  <2> QED
    BY <2>1
<1>6. \A k \in 1..K - 1 : More(k + 1) = pair(first + k)
  <2>1. ASSUME NEW k \in 1..K - 1 PROVE More(k + 1) = pair(first + k)
    <3> DEFINE y == first + k
    <3>1. y \in Int /\ y > first /\ first + (k + 1) - 1 = y
      BY <1>1
    <3> HIDE DEF y
    <3>2. lt < pair(y)[1].time /\ lt < pair(y)[2].time /\ pair(y)[1].time \in Int /\ pair(y)[2].time \in Int
      BY <1>3, <1>4, <3>1 DEF IsPair
    <3>3. After(pair(y), lt) = pair(y)
      BY <1>2, <3>2 DEF After
    <3> QED
      BY <3>1, <3>3 DEF y
  <2> QED
    BY <2>1
<1> HIDE DEF More
<1> DEFINE g == [t \in S \X (1..K) |-> t[1] \o More(t[2])]
<1>7. g \in [S \X (1..K) -> S]
  <2>1. ASSUME NEW a \in S, NEW i \in 1..K PROVE a \o More(i) \in S
    BY <1>5
  <2> HIDE DEF S, K
  <2> QED
    BY <2>1
<1>8. PICK f : Iterate(f, S, trans, K, g)
  <2> HIDE DEF g, S, K
  <2> QED
    BY <1>1, <1>2, <1>7, Iterates
<1>9. f \in [0..K -> S] /\ f[0] = trans
  BY <1>8 DEF Iterate
<1>9a. \A k \in 1..K : f[k] = f[k - 1] \o More(k)
  <2>2. ASSUME NEW k \in 1..K PROVE f[k] = f[k - 1] \o More(k)
    <3>1. k - 1 \in 0..K
      BY <1>1
    <3>2. <<f[k - 1], k>> \in S \X (1..K)
      BY <1>9, <3>1
    <3>3. g[<<f[k - 1], k>>] = f[k - 1] \o More(k)
      <4> HIDE DEF S, K
      <4> QED
        BY <3>2
    <3> QED
      BY <1>8, <3>3 DEF Iterate
  <2> QED
    BY <2>2
<1> HIDE DEF g
<1>9b. ASSUME NEW k \in Nat, k + 1 <= K PROVE f[k + 1] = f[k] \o More(k + 1)
  <2>1. PICK j \in 1..K : j = k + 1 /\ j - 1 = k
    BY <1>1, <1>9b
  <2>2. f[j] = f[j - 1] \o More(j)
    BY <1>9a
  <2> QED
    BY <2>1, <2>2
<1>10. ASSUME NEW h, h = body(h) PROVE h = f
  <2>1. h = [k \in 0..K |-> IF k = 0 THEN trans ELSE h[k - 1] \o More(k)]
    BY <1>1, <1>10 DEF More, pair
  <2>2. h[0] = trans /\ \A k \in 1..K : h[k] = h[k - 1] \o More(k)
    <3> HIDE DEF K
    <3>1. \A k \in 0..K : h[k] = IF k = 0 THEN trans ELSE h[k - 1] \o More(k)
      BY <2>1, Zenon
    <3>2. 0 \in 0..K /\ \A k \in 1..K : k \in 0..K /\ k # 0
      BY <1>1
    <3> QED
      BY <3>1, <3>2, Zenon
  <2> DEFINE M == {k \in Nat : k <= K => h[k] = f[k]}
  <2>3. 0 \in M
    BY <1>9, <2>2
  <2>4. ASSUME NEW k \in Nat, k \in M PROVE k + 1 \in M
    <3>1. ASSUME k + 1 <= K PROVE h[k + 1] = f[k + 1]
      <4>1. k + 1 \in 1..K /\ k + 1 - 1 = k /\ k <= K
        BY <1>1, <3>1
      <4>2. h[k + 1] = h[k] \o More(k + 1) /\ f[k + 1] = f[k] \o More(k + 1)
        <5>1. f[k + 1] = f[k] \o More(k + 1)
          BY <1>9b, <3>1
        <5>2. PICK j \in 1..K : j = k + 1 /\ j - 1 = k
          BY <4>1
        <5>3. h[j] = h[j - 1] \o More(j)
          BY <2>2
        <5> QED
          BY <5>1, <5>2, <5>3
      <4>3. h[k] = f[k]
        BY <2>4, <4>1
      <4> QED
        BY <4>2, <4>3
    <3> QED
      BY <3>1
  <2>5. \A k \in Nat : k \in M
    <3> HIDE DEF M
    <3> QED
      BY <2>3, <2>4, Induct
  <2>6. \A k \in 0..K : h[k] = f[k]
    BY <1>1, <2>5
  <2>7. h = [k \in 0..K |-> h[k]] /\ f = [k \in 0..K |-> f[k]]
    <3> HIDE DEF K
    <3> QED
      BY <1>9, <2>1
  <2> QED
    BY <2>6, <2>7
<1>11. f = body(f)
  <2>1. f = [k \in 0..K |-> IF k = 0 THEN trans ELSE f[k - 1] \o More(k)]
    <3>1. \A k \in 0..K : f[k] = IF k = 0 THEN trans ELSE f[k - 1] \o More(k)
      <4>1. \A k \in 0..K : k = 0 \/ k \in 1..K
        BY <1>1
      <4> HIDE DEF K
      <4> QED
        BY <1>9, <1>9a, <4>1
    <3>2. f = [k \in 0..K |-> f[k]]
      <4> HIDE DEF K, S
      <4> QED
        BY <1>9
    <3> HIDE DEF K
    <3> QED
      BY <3>1, <3>2
  <2> QED
    BY <1>1, <2>1 DEF More, pair
<1> DEFINE T == ExtendYears(rule, s, d, trans, first, limit)
<1>12. T = f[K]
  <2>1. T = (CHOOSE h : h = body(h))[limit - first + 1]
    BY DEF ExtendYears
  <2>2. (CHOOSE h : h = body(h)) = f
    <3> HIDE DEF body
    <3> QED
      BY <1>10, <1>11
  <2> QED
    BY <1>1, <2>1, <2>2
<1> HIDE DEF T, S
<1>13. f[1] = trans \o After(pair(first), lt)
  <2>1. 1 \in 1..K /\ 1 - 1 = 0 /\ first + 1 - 1 = first
    BY <1>1
  <2>2. f[1] = f[1 - 1] \o More(1)
    BY <1>9a, <2>1
  <2> QED
    BY <1>9, <2>1, <2>2 DEF More
<1>14. ASSUME NEW k \in 1..Cycle + 1 PROVE f[k + 1] = f[k] \o pair(first + k)
  <2>1. k \in Nat /\ k + 1 <= K /\ k \in 1..K - 1
    BY <1>1
  <2>2. f[k + 1] = f[k] \o More(k + 1)
    BY <1>9b, <2>1
  <2>3. More(k + 1) = pair(first + k)
    BY <1>6, <2>1
  <2> QED
    BY <2>2, <2>3
<1>15. Passes(f, raw, s, d, trans, first)
  BY <1>9, <1>12, <1>13, <1>14 DEF Passes, pair, T, S
<1> QED
  BY <1>15

\* What the loop of ExtendTransitions leaves: the table, and after it the changes of the rule.
\* The second change of the first whole year has the same type as the last one of all.
LEMMA ExtendedTable ==
  ASSUME NEW raw, IsFile(raw), Dated(raw.rule), NEW n \in Nat, NEW s \in Nat, NEW d \in Nat,
         s < n, d < n, NEW trans, Ordered(trans, n), NEW x \in Clocks(raw), NEW first \in Int,
         trans[Len(trans)].time + x.off < YearStart(first + 1)
  PROVE  LET T == ExtendYears(raw.rule, s, d, trans, first, first + Cycle + 1)
             pair(y) == RulePair(raw.rule, s, d, y)
         IN  /\ Ordered(T, n) /\ T[1] = trans[1] /\ Len(T) > 1
             /\ T[Len(T) - 1] = pair(first + Cycle + 1)[1] /\ T[Len(T)] = pair(first + Cycle + 1)[2]
             /\ \E p : WholeYear(T, raw.rule, s, d, first, p)
<1> DEFINE rule == raw.rule
           pair(y) == RulePair(rule, s, d, y)
           lt == trans[Len(trans)].time
           K == Cycle + 2
           limit == first + Cycle + 1
           S == Seq(Moments)
           T == ExtendYears(rule, s, d, trans, first, limit)
<1>1. Cycle \in Nat \ {0} /\ K \in Nat /\ K >= 3 /\ K - 1 = Cycle + 1
  BY CycleFacts
<1>2. trans \in S /\ Len(trans) \in Nat /\ Len(trans) > 0 /\ lt \in Int
  BY PairsApart
<1>3. \A y \in Int : IsPair(pair(y), n)
  BY PairsApart
<1>4. \A y \in Int : /\ pair(y)[2].time < pair(y + 1)[1].time
                     /\ y > first => lt < pair(y)[1].time /\ lt < pair(y)[2].time
  BY PairsApart
<1>5. PICK f : Passes(f, raw, s, d, trans, first)
  BY ExtendedSteps
<1>6. /\ f[1] = trans \o After(pair(first), lt)
      /\ \A k \in 1..K - 1 : f[k + 1] = f[k] \o pair(first + k)
  BY <1>1, <1>5 DEF Passes
<1>7. T = f[K]
  BY <1>5 DEF Passes
<1> HIDE DEF T, K, limit, lt, S, pair
<1> DEFINE Good(k, U) ==
             /\ Ordered(U, n) /\ U[1] = trans[1] /\ U[Len(U)].time < pair(first + k)[1].time
             /\ k >= 2 => /\ Len(U) > 1
                          /\ U[Len(U) - 1] = pair(first + k - 1)[1] /\ U[Len(U)] = pair(first + k - 1)[2]
                          /\ \E p \in 2..Len(U) : /\ U[p - 1] = pair(first + 1)[1]
                                                  /\ U[p] = pair(first + 1)[2]
                                                  /\ p < Len(U) => U[p + 1] = pair(first + 2)[1]
                                                  /\ k >= 3 => p < Len(U)
                                                  /\ k = 2 => p = Len(U)
<1>8. Good(1, f[1])
  <2> DEFINE q == pair(first)
             more == After(q, lt)
  <2>1. f[1] = trans \o more
    BY <1>6
  <2>2. /\ q \in S /\ Len(q) = 2 /\ q[1] \in Moments /\ q[2] \in Moments
        /\ q[1].time \in Int /\ q[2].time \in Int /\ q[1].time < q[2].time
        /\ q[1].index < n /\ q[2].index < n
    BY <1>3 DEF IsPair, S
  <2>3. q[2].time < pair(first + 1)[1].time /\ lt < pair(first + 1)[1].time
    BY <1>4
  <2> HIDE DEF q
  <2>4. more = After(q, lt)
    OBVIOUS
  <2> HIDE DEF more
  <2>5. 1 \in 1..Len(trans)
    BY <1>2
  <2>6. CASE lt >= q[2].time
    <3>1. more = <<>>
      BY <2>4, <2>6 DEF After
    <3>2. f[1] = trans
      BY <1>2, <2>1, <3>1 DEF S
    <3>3. f[1][Len(f[1])].time = lt
      BY <3>2 DEF lt
    <3> QED
      BY <2>3, <3>2, <3>3
  <2>7. CASE ~(lt >= q[2].time) /\ lt < q[1].time
    <3>1. more = q
      BY <2>4, <2>7 DEF After
    <3>2. /\ Ordered(trans \o q, n) /\ Len(trans \o q) = Len(trans) + Len(q)
          /\ \A i \in 1..Len(trans) : (trans \o q)[i] = trans[i]
          /\ \A i \in 1..Len(q) : (trans \o q)[Len(trans) + i] = q[i]
      <4>1. /\ q \in Seq(Moments) /\ Len(q) > 0 /\ trans[Len(trans)].time < q[1].time
            /\ \A i \in 1..Len(q) : q[i].index < n
            /\ \A i \in 1..Len(q) - 1 : q[i].time < q[i + 1].time
        BY <2>2, <2>7 DEF S, lt
      <4> QED
        BY <4>1, Appended
    <3>3. f[1][Len(f[1])] = q[2] /\ f[1][1] = trans[1]
      <4>1. 2 \in 1..Len(q)
        BY <2>2
      <4> QED
        BY <1>2, <2>1, <2>2, <2>5, <3>1, <3>2, <4>1
    <3>4. Ordered(f[1], n) /\ f[1][Len(f[1])].time < pair(first + 1)[1].time
      BY <2>1, <2>3, <3>1, <3>2, <3>3
    <3> QED
      BY <3>3, <3>4
  <2>8. CASE ~(lt >= q[2].time) /\ ~(lt < q[1].time)
    <3> DEFINE A == <<q[2]>>
    <3>1. more = A
      BY <2>4, <2>8 DEF After
    <3>2. A \in Seq(Moments) /\ Len(A) = 1 /\ A[1] = q[2]
      BY <2>2
    <3> HIDE DEF A
    <3>3. /\ Ordered(trans \o A, n) /\ Len(trans \o A) = Len(trans) + Len(A)
          /\ \A i \in 1..Len(trans) : (trans \o A)[i] = trans[i]
          /\ \A i \in 1..Len(A) : (trans \o A)[Len(trans) + i] = A[i]
      <4>1. trans[Len(trans)].time < A[1].time
        BY <1>2, <2>2, <2>8, <3>2 DEF lt
      <4>2. /\ A \in Seq(Moments) /\ Len(A) > 0 /\ trans[Len(trans)].time < A[1].time
            /\ \A i \in 1..Len(A) : A[i].index < n
            /\ \A i \in 1..Len(A) - 1 : A[i].time < A[i + 1].time
        BY <2>2, <3>2, <4>1
      <4> QED
        BY <4>2, Appended
    <3>4. f[1][Len(f[1])] = q[2] /\ f[1][1] = trans[1]
      <4>1. 1 \in 1..Len(A)
        BY <3>2
      <4> QED
        BY <1>2, <2>1, <2>5, <3>1, <3>2, <3>3, <4>1
    <3>5. Ordered(f[1], n) /\ f[1][Len(f[1])].time < pair(first + 1)[1].time
      BY <2>1, <2>3, <3>1, <3>3, <3>4
    <3> QED
      BY <3>4, <3>5
  <2> QED
    BY <2>6, <2>7, <2>8
<1>9. ASSUME NEW k \in 1..K - 1, Good(k, f[k]) PROVE Good(k + 1, f[k + 1])
  <2> DEFINE U == f[k]
             V == f[k + 1]
             q == pair(first + k)
             l == Len(U)
  <2>1. V = U \o q
    BY <1>6
  <2>2. /\ q \in S /\ Len(q) = 2 /\ q[1].time < q[2].time
        /\ q[1].index < n /\ q[2].index < n /\ q[2].time < pair(first + (k + 1))[1].time
    <3>1. first + k \in Int /\ first + k + 1 = first + (k + 1)
      BY <1>1
    <3>2. IsPair(q, n)
      BY <1>3, <3>1
    <3>3. q[2].time < pair(first + k + 1)[1].time
      BY <1>4, <3>1
    <3> QED
      BY <3>1, <3>2, <3>3 DEF IsPair, S
  <2>3. Ordered(U, n) /\ U[1] = trans[1] /\ U[Len(U)].time < q[1].time
    BY <1>9
  <2> DEFINE Old(p) == /\ U[p - 1] = pair(first + 1)[1]
                       /\ U[p] = pair(first + 1)[2]
                       /\ p < l => U[p + 1] = pair(first + 2)[1]
                       /\ k >= 3 => p < l
                       /\ k = 2 => p = l
  <2>4. k >= 2 => \E p \in 2..l : Old(p)
    BY <1>9
  <2> HIDE DEF U, V, q, Good, Old
  <2>5. U \in Seq(Moments) /\ l \in Nat /\ l > 0
    <3>1. U \in Seq(Moments) /\ l > 0
      BY <2>3 DEF Ordered
    <3> QED
      BY <3>1
  <2>6. /\ Ordered(V, n) /\ Len(V) = l + 2
        /\ \A i \in 1..l : V[i] = U[i]
        /\ V[l + 1] = q[1] /\ V[l + 2] = q[2]
    <3>1. /\ q \in Seq(Moments) /\ Len(q) > 0
          /\ \A i \in 1..Len(q) : q[i].index < n
          /\ \A i \in 1..Len(q) - 1 : q[i].time < q[i + 1].time
      BY <2>2 DEF S
    <3>2. /\ Ordered(U \o q, n) /\ Len(U \o q) = Len(U) + Len(q)
          /\ \A i \in 1..Len(U) : (U \o q)[i] = U[i]
          /\ \A i \in 1..Len(q) : (U \o q)[Len(U) + i] = q[i]
      BY <2>3, <3>1, Appended
    <3>3. 1 \in 1..Len(q) /\ 2 \in 1..Len(q)
      BY <2>2
    <3> QED
      BY <2>1, <2>2, <3>2, <3>3
  <2> HIDE DEF l
  <2>7. V[1] = trans[1] /\ V[Len(V)].time < pair(first + (k + 1))[1].time
    <3>1. 1 \in 1..l
      BY <2>5
    <3> QED
      BY <2>2, <2>3, <2>6, <3>1
  <2>8. Len(V) > 1 /\ Len(V) - 1 = l + 1 /\ V[Len(V) - 1] = q[1] /\ V[Len(V)] = q[2]
        /\ q = pair(first + (k + 1) - 1)
    <3>1. first + (k + 1) - 1 = first + k
      BY <1>1
    <3> QED
      BY <2>5, <2>6, <3>1 DEF q
  <2> DEFINE Mark(p) == /\ V[p - 1] = pair(first + 1)[1]
                        /\ V[p] = pair(first + 1)[2]
                        /\ p < Len(V) => V[p + 1] = pair(first + 2)[1]
                        /\ k + 1 >= 3 => p < Len(V)
                        /\ k + 1 = 2 => p = Len(V)
  <2>9. \E p \in 2..Len(V) : Mark(p)
    <3>1. CASE k = 1
      <4>1. q = pair(first + 1)
        BY <3>1 DEF q
      <4>2. l + 2 \in 2..Len(V) /\ l + 2 - 1 = l + 1 /\ l + 2 = Len(V)
        BY <2>5, <2>6
      <4>3. Mark(l + 2)
        BY <2>5, <2>6, <3>1, <4>1, <4>2
      <4> QED
        BY <4>2, <4>3
    <3>2. CASE k >= 2
      <4>0. PICK p \in 2..l : Old(p)
        BY <2>4, <3>2
      <4>1. /\ U[p - 1] = pair(first + 1)[1]
            /\ U[p] = pair(first + 1)[2]
            /\ p < l => U[p + 1] = pair(first + 2)[1]
            /\ k >= 3 => p < l
            /\ k = 2 => p = l
        BY <4>0 DEF Old
      <4>2. p - 1 \in 1..l /\ p \in 1..l /\ p \in 2..Len(V) /\ p < Len(V)
        BY <2>5, <2>6
      <4>3. V[p + 1] = pair(first + 2)[1]
        <5>1. CASE p < l
          <6>1. p + 1 \in 1..l
            BY <2>5, <5>1
          <6> QED
            BY <2>6, <4>1, <5>1, <6>1
        <5>2. CASE p = l
          <6>1. k = 2
            BY <1>1, <3>2, <4>1, <5>2
          <6> QED
            BY <2>6, <5>2, <6>1 DEF q
        <5> QED
          BY <2>5, <5>1, <5>2
      <4>4. Mark(p)
        BY <1>1, <2>6, <3>2, <4>1, <4>2, <4>3
      <4> QED
        BY <4>2, <4>4
    <3> QED
      BY <1>1, <3>1, <3>2
  <2>10. Good(k + 1, V)
    BY <2>6, <2>7, <2>8, <2>9 DEF Good
  <2> QED
    BY <2>10 DEF V
<1> HIDE DEF Good
<1>10. Good(K, f[K])
  <2> DEFINE M == {k \in Nat : k + 1 <= K => Good(k + 1, f[k + 1])}
  <2>1. 0 \in M
    BY <1>8
  <2>2. ASSUME NEW k \in Nat, k \in M PROVE k + 1 \in M
    <3>1. ASSUME k + 1 + 1 <= K PROVE Good(k + 1 + 1, f[k + 1 + 1])
      <4>1. k + 1 \in 1..K - 1 /\ k + 1 <= K
        BY <1>1, <3>1
      <4>2. Good(k + 1, f[k + 1])
        BY <2>2, <4>1
      <4> QED
        BY <1>9, <4>1, <4>2
    <3> QED
      BY <3>1
  <2>3. K - 1 \in M
    <3> HIDE DEF M
    <3>1. K - 1 \in Nat
      BY <1>1
    <3> QED
      BY <2>1, <2>2, <3>1, Induct
  <2>4. K - 1 + 1 = K /\ K - 1 \in Nat
    BY <1>1
  <2> QED
    BY <2>3, <2>4
<1>11. first + K - 1 = first + Cycle + 1 /\ K >= 2
  BY <1>1 DEF K
<1>12. /\ Ordered(T, n) /\ T[1] = trans[1] /\ Len(T) > 1
       /\ T[Len(T) - 1] = pair(first + Cycle + 1)[1] /\ T[Len(T)] = pair(first + Cycle + 1)[2]
  BY <1>7, <1>10, <1>11 DEF Good
<1>13. PICK p \in 2..Len(T) : /\ T[p - 1] = pair(first + 1)[1]
                              /\ T[p] = pair(first + 1)[2]
                              /\ p < Len(T) => T[p + 1] = pair(first + 2)[1]
                              /\ K >= 3 => p < Len(T)
  BY <1>7, <1>10, <1>11 DEF Good
<1>14. p \in 2..Len(T) - 1 /\ T[p + 1] = pair(first + 2)[1]
  <2>1. Len(T) \in Nat
    <3>1. T \in Seq(Moments)
      BY <1>12 DEF Ordered
    <3> QED
      BY <3>1
  <2> QED
    BY <1>1, <1>13, <2>1
<1>15. WholeYear(T, raw.rule, s, d, first, p)
  BY <1>13, <1>14 DEF WholeYear, pair
<1> QED
  BY <1>12, <1>15 DEF T, pair, limit

\* What ExtendTransitions returns: the table as it was, or extended by the rule.
LEMMA ExtendCases ==
  ASSUME NEW raw, IsFile(raw), NEW trans, ExtendTransitions(raw.rule, raw.types, trans).ok
  PROVE  LET e == ExtendTransitions(raw.rule, raw.types, trans)
             rule == raw.rule
             last == trans[Len(trans)]
             year == Year(last.time + raw.types[last.index + 1].off)
         IN  /\ e.types \in Seq(Types) /\ Len(raw.types) <= Len(e.types)
             /\ \A i \in 1..Len(raw.types) : e.types[i] = raw.types[i]
             /\ \/ e.trans = trans /\ e.extended = FALSE /\ ~Dated(rule)
                \/ /\ Dated(rule) /\ \A i \in 1..Len(e.types) : e.types[i] \in Clocks(raw)
                   /\ e.extended = TRUE /\ e.last_year = year + Cycle + 1
                   /\ \E s, d \in 0..Len(e.types) - 1 :
                        /\ e.types[s + 1] = rule.std /\ e.types[d + 1] = rule.dst
                        /\ e.trans = ExtendYears(rule, s, d, trans, year, year + Cycle + 1)
<1> DEFINE e == ExtendTransitions(raw.rule, raw.types, trans)
           rule == raw.rule
           std == GetTransitionType(raw.types, rule.std)
           dst == GetTransitionType(std.types, rule.dst)
           last == trans[Len(trans)]
           same(get) == [ok |-> get.ok /\ EquivTransitions(get.types, last.index, get.index),
                         types |-> get.types, trans |-> trans, extended |-> FALSE, last_year |-> 0]
           year == Year(last.time + raw.types[last.index + 1].off)
           limit == year + Cycle + 1
           none == [ok |-> TRUE, types |-> raw.types, trans |-> trans, extended |-> FALSE, last_year |-> 0]
           full == [ok |-> TRUE, types |-> dst.types, extended |-> TRUE, last_year |-> limit,
                    trans |-> ExtendYears(rule, std.index, dst.index, trans, year, limit)]
<1>1. e = CASE rule.kind = "none" -> none
        [] rule.kind = "bad" -> Failed
        [] rule.kind = "rule" /\ ~std.ok -> Failed
        [] rule.kind = "rule" /\ std.ok /\ rule.dst = NoDst -> same(std)
        [] rule.kind = "rule" /\ std.ok /\ rule.dst # NoDst /\ ~dst.ok -> Failed
        [] rule.kind = "rule" /\ std.ok /\ rule.dst # NoDst /\ dst.ok /\ rule.allyear -> same(dst)
        [] OTHER -> full
  BY DEF ExtendTransitions
<1>2. raw.types \in Seq(Types) /\ rule \in Rules
  BY DEF IsFile
<1>3. rule.kind \in {"none", "bad", "rule"}
      /\ (rule.kind = "rule" => rule.std \in Types /\ rule.dst \in Types)
  <2>1. CASE rule \in {NoRule, BadRule}
    BY <2>1 DEF NoRule, BadRule
  <2>2. CASE rule \in [kind : {"rule"}, std : Types, dst : Types, allyear : BOOLEAN,
                       start : [0..Cycle - 1 -> Int], end : [0..Cycle - 1 -> Int]]
    BY <2>2
  <2> QED
    BY <1>2, <2>1, <2>2 DEF Rules
<1>4. rule.kind = "rule" =>
        /\ std.types \in Seq(Types) /\ Len(raw.types) <= Len(std.types)
        /\ \A i \in 1..Len(raw.types) : std.types[i] = raw.types[i]
        /\ \A i \in 1..Len(std.types) : i \in 1..Len(raw.types) \/ std.types[i] = rule.std
        /\ std.index \in 0..Len(std.types) - 1 /\ std.types[std.index + 1] = rule.std
  <2>1. ASSUME rule.kind = "rule"
        PROVE  /\ std.types \in Seq(Types) /\ Len(raw.types) <= Len(std.types)
               /\ \A i \in 1..Len(raw.types) : std.types[i] = raw.types[i]
               /\ \A i \in 1..Len(std.types) : i \in 1..Len(raw.types) \/ std.types[i] = rule.std
               /\ std.index \in 0..Len(std.types) - 1 /\ std.types[std.index + 1] = rule.std
    <3>1. raw.types \in Seq(Types) /\ rule.std \in Types
      BY <1>2, <1>3, <2>1
    <3> HIDE DEF rule
    <3> QED
      BY <3>1, TypeMade
  <2> QED
    BY <2>1
<1>5. rule.kind = "rule" =>
        /\ dst.types \in Seq(Types) /\ Len(std.types) <= Len(dst.types)
        /\ \A i \in 1..Len(std.types) : dst.types[i] = std.types[i]
        /\ \A i \in 1..Len(dst.types) : i \in 1..Len(std.types) \/ dst.types[i] = rule.dst
        /\ dst.index \in 0..Len(dst.types) - 1 /\ dst.types[dst.index + 1] = rule.dst
  BY <1>3, <1>4, TypeMade
<1>5a. rule.kind = "rule" => \A i \in 1..Len(dst.types) : dst.types[i] \in Clocks(raw)
  <2>1. ASSUME rule.kind = "rule", NEW i \in 1..Len(dst.types) PROVE dst.types[i] \in Clocks(raw)
    <3>1. Clocks(raw) = {raw.types[j] : j \in 1..Len(raw.types)} \cup {rule.std, rule.dst}
      BY DEF Clocks
    <3> HIDE DEF rule, std, dst
    <3>2. dst.types[i] = rule.dst \/ (i \in 1..Len(std.types) /\ dst.types[i] = std.types[i])
      <4>1. /\ \A j \in 1..Len(std.types) : dst.types[j] = std.types[j]
            /\ \A j \in 1..Len(dst.types) : j \in 1..Len(std.types) \/ dst.types[j] = rule.dst
        BY <1>5, <2>1
      <4>2. i \in 1..Len(std.types) \/ dst.types[i] = rule.dst
        BY <4>1
      <4> QED
        BY <4>1, <4>2
    <3>3. i \in 1..Len(std.types) => (std.types[i] = rule.std \/ (i \in 1..Len(raw.types) /\ std.types[i] = raw.types[i]))
      BY <1>4, <2>1
    <3> QED
      BY <3>1, <3>2, <3>3
  <2> QED
    BY <2>1
<1>6. e.ok
  OBVIOUS
<1>7. Failed.ok = FALSE
  BY DEF Failed
<1>8. Dated(rule) <=> rule.kind = "rule" /\ rule.dst # NoDst /\ ~rule.allyear
  BY DEF Dated
<1> HIDE DEF e, rule, std, dst, last, same, year, limit, none, full
<1>9. \/ rule.kind = "none" /\ e = none
      \/ rule.kind = "rule" /\ rule.dst = NoDst /\ e = same(std)
      \/ rule.kind = "rule" /\ rule.allyear /\ e = same(dst)
      \/ rule.kind = "rule" /\ rule.dst # NoDst /\ ~rule.allyear /\ e = full
  BY <1>1, <1>3, <1>6, <1>7
<1>10. CASE rule.kind = "none" /\ e = none
  <2>1. e.types = raw.types /\ e.trans = trans /\ e.extended = FALSE /\ ~Dated(rule)
    BY <1>8, <1>10 DEF none
  <2>2. Len(raw.types) <= Len(raw.types)
    BY <1>2
  <2> QED
    BY <1>2, <2>1, <2>2 DEF e, rule
<1>11. CASE rule.kind = "rule" /\ rule.dst = NoDst /\ e = same(std)
  <2>1. e.types = std.types /\ e.trans = trans /\ e.extended = FALSE /\ ~Dated(rule)
    BY <1>8, <1>11 DEF same
  <2> QED
    BY <1>4, <1>11, <2>1 DEF e, rule
<1>12. rule.kind = "rule" =>
        /\ Len(raw.types) <= Len(dst.types)
        /\ \A i \in 1..Len(raw.types) : dst.types[i] = raw.types[i]
        /\ std.index \in 0..Len(dst.types) - 1 /\ dst.types[std.index + 1] = rule.std
  <2> SUFFICES ASSUME rule.kind = "rule"
               PROVE  /\ Len(raw.types) <= Len(dst.types)
                      /\ \A i \in 1..Len(raw.types) : dst.types[i] = raw.types[i]
                      /\ std.index \in 0..Len(dst.types) - 1 /\ dst.types[std.index + 1] = rule.std
    OBVIOUS
  <2>1. Len(raw.types) \in Nat /\ Len(std.types) \in Nat /\ Len(dst.types) \in Nat
        /\ Len(raw.types) <= Len(std.types) /\ Len(std.types) <= Len(dst.types)
    BY <1>2, <1>4, <1>5
  <2>2. ASSUME NEW i \in 1..Len(raw.types) PROVE dst.types[i] = raw.types[i]
    <3>1. i \in 1..Len(std.types)
      BY <2>1
    <3> QED
      BY <1>4, <1>5, <3>1
  <2>3. std.index + 1 \in 1..Len(std.types) /\ std.index \in 0..Len(dst.types) - 1
    BY <1>4, <2>1
  <2>4. dst.types[std.index + 1] = rule.std
    BY <1>4, <1>5, <2>3
  <2> QED
    BY <2>1, <2>2, <2>3, <2>4
<1>13. CASE rule.kind = "rule" /\ rule.allyear /\ e = same(dst)
  <2>1. e.types = dst.types /\ e.trans = trans /\ e.extended = FALSE /\ ~Dated(rule)
    BY <1>8, <1>13 DEF same
  <2> QED
    BY <1>5, <1>12, <1>13, <2>1 DEF e, rule
<1>14. CASE rule.kind = "rule" /\ rule.dst # NoDst /\ ~rule.allyear /\ e = full
  <2>1. e.types = dst.types /\ e.extended = TRUE /\ e.last_year = limit
        /\ e.trans = ExtendYears(rule, std.index, dst.index, trans, year, limit)
    BY <1>14 DEF full
  <2>2. Dated(rule)
    BY <1>8, <1>14
  <2>3. /\ dst.types \in Seq(Types) /\ Len(raw.types) <= Len(dst.types)
        /\ \A i \in 1..Len(raw.types) : dst.types[i] = raw.types[i]
        /\ std.index \in 0..Len(dst.types) - 1 /\ dst.types[std.index + 1] = rule.std
        /\ dst.index \in 0..Len(dst.types) - 1 /\ dst.types[dst.index + 1] = rule.dst
    BY <1>5, <1>12, <1>14
  <2>4. \E s, d \in 0..Len(e.types) - 1 :
           /\ e.types[s + 1] = rule.std /\ e.types[d + 1] = rule.dst
           /\ e.trans = ExtendYears(rule, s, d, trans, year, limit)
    BY <2>1, <2>3
  <2>5. e.types \in Seq(Types) /\ Len(raw.types) <= Len(e.types)
        /\ \A i \in 1..Len(raw.types) : e.types[i] = raw.types[i]
    BY <2>1, <2>3
  <2>6. \A i \in 1..Len(e.types) : e.types[i] \in Clocks(raw)
    BY <1>5a, <1>14, <2>1
  <2> QED
    BY <2>1, <2>2, <2>4, <2>5, <2>6 DEF e, rule, year, limit, last
<1> QED
  BY <1>9, <1>10, <1>11, <1>13, <1>14

\* The last of a rule's transitions is representable, and after 1970.
LEMMA ExtendedEnds ==
  ASSUME NEW lt \in Int, NEW u \in Int, NEW o \in Int, NEW year \in Int,
         YearStart(year) <= lt + o, lt + o < YearStart(year + 1),
         YearStart(year + Cycle + 1) <= u + o, u + o < YearStart(year + Cycle + 2)
  PROVE  lt + CycleSecs < u /\ u < lt + 3 * CycleSecs
<1>1. Cycle \in Nat \ {0} /\ CycleSecs \in Nat \ {0}
  BY CycleFacts, YearsRise
<1>2. YearStart(year + 1 + 1 * Cycle) = YearStart(year + 1) + 1 * CycleSecs
  BY YearStartCycle
<1>3. YearStart(year + 3 * Cycle) = YearStart(year) + 3 * CycleSecs
  BY YearStartCycle
<1>4. year + 1 + 1 * Cycle = year + Cycle + 1 /\ year + Cycle + 2 <= year + 3 * Cycle
      /\ year + Cycle + 2 \in Int /\ year + 3 * Cycle \in Int /\ 1 * CycleSecs = CycleSecs
  BY <1>1
<1>5. YearStart(year + Cycle + 2) <= YearStart(year + 3 * Cycle)
  <2> DEFINE a == year + Cycle + 2
             b == year + 3 * Cycle
  <2>1. a \in Int /\ b \in Int /\ a <= b
    BY <1>4
  <2> HIDE DEF a, b
  <2>2. YearStart(a) \in Int /\ YearStart(b) \in Int
    BY <2>1, YearStartNext
  <2>3. YearStart(a) <= YearStart(b)
    <3>1. CASE a = b
      BY <2>2, <3>1
    <3>2. CASE a < b
      BY <2>1, <2>2, <3>2, YearStartRises
    <3> QED
      BY <2>1, <3>1, <3>2
  <2> QED
    BY <2>3 DEF a, b
<1>6. YearStart(year) \in Int /\ YearStart(year + 1) \in Int /\ YearStart(year + Cycle + 2) \in Int
  <2>1. year + 1 \in Int
    OBVIOUS
  <2> QED
    BY <1>4, <2>1, YearStartNext
<1>7. YearStart(year + Cycle + 1) = YearStart(year + 1) + CycleSecs
  BY <1>2, <1>4
<1> QED
  BY <1>1, <1>3, <1>5, <1>6, <1>7

\* The table of a zone with a rule repeats.
LEMMA ExtendedRepeats ==
  ASSUME Rows, NEW raw, IsFile(raw), Dated(raw.rule), NEW s \in Nat, NEW d \in Nat,
         NEW T, NEW year \in Int, NEW p, Len(T) \in Nat, NEW types,
         N = Len(T), \A i \in 1..N : TimeAt(i) = T[i].time /\ Off(i) = types[T[i].index + 1].off,
         types[s + 1] = raw.rule.std, types[d + 1] = raw.rule.dst,
         zone.last_year = year + Cycle + 1,
         T[Len(T) - 1] = RulePair(raw.rule, s, d, year + Cycle + 1)[1],
         T[Len(T)] = RulePair(raw.rule, s, d, year + Cycle + 1)[2],
         WholeYear(T, raw.rule, s, d, year, p)
  PROVE  Repeats
<1> DEFINE pair(y) == RulePair(raw.rule, s, d, y)
<1>1. Cycle \in Nat \ {0} /\ CycleSecs \in Nat \ {0} /\ year + Cycle + 1 \in Int /\ year + 1 \in Int /\ year + 2 \in Int
      /\ year + Cycle + 1 + 1 = year + 2 + 1 * Cycle
  BY CycleFacts, YearsRise
<1>2. PastTable = YearStart(year + 2) + CycleSecs /\ PastTable = YearStart(year + Cycle + 1 + 1)
      /\ YearStart(year + 2) \in Int
  <2>1. YearStart(year + 2 + 1 * Cycle) = YearStart(year + 2) + 1 * CycleSecs
    <3>1. year + 2 \in Int
      BY <1>1
    <3> QED
      BY <3>1, YearStartCycle
  <2>2. 1 * CycleSecs = CycleSecs
    BY <1>1
  <2> QED
    BY <1>1, <2>1, <2>2, YearStartNext DEF PastTable
<1>3. N \in Nat /\ p \in 1..N /\ p - 1 \in 1..N /\ p + 1 \in 1..N /\ N \in 1..N /\ N - 1 \in 1..N
      /\ N - 1 + 1 = N /\ p < N
  <2>1. p \in 2..N - 1 /\ N \in Nat
    BY DEF WholeYear
  <2> QED
    BY <2>1
<1>4. \A i \in 1..N : TimeAt(i) \in Int /\ CivilAt(i) = TimeAt(i) + Off(i)
                     /\ PrevAt(i) = TimeAt(i) + Off(i - 1) - 1
  BY DEF Rows
<1>5. \A i \in 1..N : T[i].index \in {s, d} => \E x \in Clocks(raw) : Off(i) = x.off /\ x.off \in Int
  <2>1. raw.rule.std \in Clocks(raw) /\ raw.rule.dst \in Clocks(raw)
    BY DEF Clocks
  <2>2. \A x \in Clocks(raw) : x.off \in Int
    BY DatedFacts
  <2>3. ASSUME NEW i \in 1..N, T[i].index \in {s, d}
        PROVE  \E x \in Clocks(raw) : Off(i) = x.off /\ x.off \in Int
    <3>1. Off(i) = types[T[i].index + 1].off
      OBVIOUS
    <3>2. CASE T[i].index = s
      BY <2>1, <2>2, <3>1, <3>2
    <3>3. CASE T[i].index = d
      BY <2>1, <2>2, <3>1, <3>3
    <3> QED
      BY <2>3, <3>2, <3>3
  <2> QED
    BY <2>3
<1>6. ASSUME NEW y \in Int, NEW j \in {1, 2}
      PROVE  pair(y)[j].index \in {s, d}
  BY PairInYear
<1>7. ASSUME NEW y \in Int, NEW j \in {1, 2}, NEW i \in 1..N, NEW k \in 1..N,
             T[i] = pair(y)[j], T[k].index \in {s, d}
      PROVE  /\ Off(k) \in Int
             /\ YearStart(y) <= TimeAt(i) + Off(k) /\ TimeAt(i) + Off(k) < YearStart(y + 1)
  <2>1. PICK x \in Clocks(raw) : Off(k) = x.off /\ x.off \in Int
    BY <1>5, <1>7
  <2>2. YearStart(y) <= pair(y)[j].time + x.off /\ pair(y)[j].time + x.off < YearStart(y + 1)
    BY PairInYear
  <2>3. TimeAt(i) = pair(y)[j].time
    BY <1>7
  <2> HIDE DEF pair
  <2> QED
    BY <2>1, <2>2, <2>3
<1> HIDE DEF pair
<1>8. /\ T[N - 1] = pair(year + Cycle + 1)[1] /\ T[N] = pair(year + Cycle + 1)[2]
      /\ T[p - 1] = pair(year + 1)[1] /\ T[p] = pair(year + 1)[2] /\ T[p + 1] = pair(year + 2)[1]
  BY DEF pair, WholeYear
<1>9. /\ T[N - 1].index \in {s, d} /\ T[N].index \in {s, d}
      /\ T[p - 1].index \in {s, d} /\ T[p].index \in {s, d} /\ T[p + 1].index \in {s, d}
  BY <1>1, <1>6, <1>8
<1>10. CivilAt(N) < PastTable /\ PrevAt(N) < PastTable
  <2> DEFINE y == year + Cycle + 1
             l == N - 1
  <2>0. y \in Int /\ YearStart(y + 1) = PastTable /\ T[N] = pair(y)[2] /\ N \in 1..N /\ l \in 1..N
        /\ T[N].index \in {s, d} /\ T[l].index \in {s, d}
    BY <1>1, <1>2, <1>3, <1>8, <1>9
  <2> HIDE DEF y, l
  <2>1. TimeAt(N) + Off(N) < PastTable /\ Off(N) \in Int
    BY <2>0, <1>7
  <2>2. TimeAt(N) + Off(N - 1) < PastTable /\ Off(N - 1) \in Int
    <3>1. TimeAt(N) + Off(l) < PastTable /\ Off(l) \in Int
      BY <2>0, <1>7
    <3> QED
      BY <3>1 DEF l
  <2>3. TimeAt(N) \in Int /\ CivilAt(N) = TimeAt(N) + Off(N) /\ PrevAt(N) = TimeAt(N) + Off(N - 1) - 1
    BY <1>3, <1>4
  <2>4. PastTable \in Int
    <3>1. CycleSecs \in Int
      BY <1>1
    <3> QED
      BY <1>2, <3>1
  <2>5. CivilAt(N) < PastTable
    BY <2>1, <2>3
  <2>6. PrevAt(N) < PastTable
    BY <2>2, <2>3, <2>4
  <2> QED
    BY <2>5, <2>6
<1>11. Off(p) = Off(N)
  <2>1. T[p].index = T[N].index
    <3>1. pair(year + 1 + Cycle)[2].index = pair(year + 1)[2].index
      <4>1. year + 1 \in Int
        BY <1>1
      <4> QED
        BY <4>1, PairRepeats DEF pair
    <3>2. year + 1 + Cycle = year + Cycle + 1
      BY <1>1
    <3> QED
      BY <1>8, <3>1, <3>2
  <2> QED
    BY <1>3, <2>1
<1> DEFINE e == YearStart(year + 2)
<1>12. PastTable - CycleSecs = e /\ e \in Int /\ year + 1 + 1 = year + 2
  BY <1>1, <1>2
<1>13. CivilAt(p) <= e /\ PrevAt(p) < e
  <2> DEFINE y == year + 1
             l == p - 1
  <2>0. y \in Int /\ YearStart(y + 1) = e /\ T[p] = pair(y)[2] /\ p \in 1..N /\ l \in 1..N
        /\ T[p].index \in {s, d} /\ T[l].index \in {s, d}
    BY <1>1, <1>3, <1>8, <1>9, <1>12
  <2> HIDE DEF y, l, e
  <2>1. TimeAt(p) + Off(p) < e /\ Off(p) \in Int
    BY <2>0, <1>7
  <2>2. TimeAt(p) + Off(p - 1) < e /\ Off(p - 1) \in Int
    <3>1. TimeAt(p) + Off(l) < e /\ Off(l) \in Int
      BY <2>0, <1>7
    <3> QED
      BY <3>1 DEF l
  <2>3. TimeAt(p) \in Int /\ CivilAt(p) = TimeAt(p) + Off(p) /\ PrevAt(p) = TimeAt(p) + Off(p - 1) - 1
    BY <1>3, <1>4
  <2>4. e \in Int
    BY <1>12
  <2>5. CivilAt(p) <= e
    BY <2>1, <2>3, <2>4
  <2>6. PrevAt(p) < e
    BY <2>2, <2>3, <2>4
  <2> QED
    BY <2>5, <2>6
<1>14. e <= PrevAt(p + 1) + 1 /\ e <= CivilAt(p + 1)
  <2>1. e <= TimeAt(p + 1) + Off(p) /\ Off(p) \in Int
    BY <1>1, <1>3, <1>7, <1>8, <1>9
  <2>2. e <= TimeAt(p + 1) + Off(p + 1) /\ Off(p + 1) \in Int
    BY <1>1, <1>3, <1>7, <1>8, <1>9
  <2>3. /\ TimeAt(p + 1) \in Int /\ CivilAt(p + 1) = TimeAt(p + 1) + Off(p + 1)
        /\ PrevAt(p + 1) = TimeAt(p + 1) + Off(p) - 1
    <3>1. PICK l \in 1..N : l = p + 1 /\ l - 1 = p
      BY <1>3
    <3>2. TimeAt(l) \in Int /\ CivilAt(l) = TimeAt(l) + Off(l) /\ PrevAt(l) = TimeAt(l) + Off(l - 1) - 1
      BY <1>4
    <3> QED
      BY <3>1, <3>2
  <2> HIDE DEF e
  <2> QED
    BY <1>12, <2>1, <2>2, <2>3
<1> HIDE DEF e
<1>15. zone.last_year \in Int
  BY <1>1
<1> QED
  BY <1>3, <1>10, <1>11, <1>12, <1>13, <1>14, <1>15 DEF Repeats

\* What a file is loaded into.
LEMMA FileLoads ==
  ASSUME NEW raw, IsFile(raw), zone = LoadFile(raw), zone.ok
  PROVE  Rows /\ Repeats
<1> DEFINE default == DefaultType(raw)
           trans == FileTransitions(raw)
           e == ExtendTransitions(raw.rule, raw.types, trans)
           last == e.trans[Len(e.trans)]
           whole == IF last.time < 0 THEN Append(e.trans, Trans(LateTime, last.index)) ELSE e.trans
           table == WithCivil(whole, e.types, default)
           full == [ok |-> TRUE, trans |-> table, types |-> e.types, default |-> default,
                    extended |-> e.extended, last_year |-> e.last_year]
           n == Len(e.types)
<1>1. zone = IF DataOK(raw) /\ e.ok /\ CivilOrder(table) THEN full ELSE Failed
  BY DEF LoadFile
<1>2. DataOK(raw) /\ e.ok /\ CivilOrder(table) /\ zone = full
  <2>1. Failed.ok = FALSE
    BY DEF Failed
  <2> HIDE DEF full, e, table
  <2> QED
    BY <1>1, <2>1
<1>3. /\ zone.trans = table /\ zone.types = e.types /\ zone.default = default
      /\ zone.extended = e.extended /\ zone.last_year = e.last_year
  <2> HIDE DEF e, table, default
  <2> QED
    BY <1>2 DEF full
<1>4. /\ Ordered(trans, Len(raw.types))
      /\ BigBang <= trans[1].time
      /\ \A i \in 1..Len(trans) : trans[i].time <= MaxTime
      /\ raw.times # <<>> => trans[Len(trans)].time = raw.times[Len(raw.times)]
  BY <1>2, FileOrdered
<1> DEFINE lt == trans[Len(trans)].time
           x == raw.types[trans[Len(trans)].index + 1]
           year == Year(lt + x.off)
<1>5. /\ e.types \in Seq(Types) /\ Len(raw.types) <= n
      /\ \A i \in 1..Len(raw.types) : e.types[i] = raw.types[i]
      /\ \/ e.trans = trans /\ e.extended = FALSE
         \/ /\ Dated(raw.rule) /\ e.extended = TRUE /\ e.last_year = year + Cycle + 1
            /\ \E s, d \in 0..n - 1 :
                 /\ e.types[s + 1] = raw.rule.std /\ e.types[d + 1] = raw.rule.dst
                 /\ e.trans = ExtendYears(raw.rule, s, d, trans, year, year + Cycle + 1)
  <2>1. /\ e.types \in Seq(Types) /\ Len(raw.types) <= Len(e.types)
        /\ \A i \in 1..Len(raw.types) : e.types[i] = raw.types[i]
        /\ \/ e.trans = trans /\ e.extended = FALSE /\ ~Dated(raw.rule)
           \/ /\ Dated(raw.rule) /\ \A i \in 1..Len(e.types) : e.types[i] \in Clocks(raw)
              /\ e.extended = TRUE /\ e.last_year = year + Cycle + 1
              /\ \E s, d \in 0..Len(e.types) - 1 :
                   /\ e.types[s + 1] = raw.rule.std /\ e.types[d + 1] = raw.rule.dst
                   /\ e.trans = ExtendYears(raw.rule, s, d, trans, year, year + Cycle + 1)
    <3>1. ExtendTransitions(raw.rule, raw.types, trans).ok
      BY <1>2
    <3> HIDE DEF trans
    <3> QED
      BY <3>1, ExtendCases
  <2> HIDE DEF e, trans, year
  <2> QED
    BY <2>1 DEF n
<1>6. default \in 0..Len(raw.types) - 1 /\ raw.types \in Seq(Types)
  BY <1>2, DefaultInRange DEF IsFile
<1>7. \A i \in 1..Len(raw.types) : raw.types[i].off \in -SecsPerDay + 1..SecsPerDay - 1
  BY <1>2 DEF DataOK
<1> HIDE DEF e, trans, default, whole, table, last, n
<1>8. n \in Nat /\ Len(raw.types) \in Nat /\ default \in 0..n - 1 /\ default + 1 \in 1..Len(raw.types)
  <2>1. n \in Nat /\ Len(raw.types) \in Nat
    BY <1>5, <1>6 DEF n
  <2> QED
    BY <1>5, <1>6, <2>1
<1>9. /\ trans \in Seq(Moments) /\ Len(trans) \in Nat /\ Len(trans) > 0
      /\ \A i \in 1..Len(trans) : trans[i].time \in Int /\ trans[i].index \in Nat /\ trans[i].index < Len(raw.types)
  <2>1. trans \in Seq(Moments) /\ Len(trans) > 0 /\ \A i \in 1..Len(trans) : trans[i].index < Len(raw.types)
    BY <1>4 DEF Ordered
  <2>2. \A i \in 1..Len(trans) : trans[i] \in Moments
    BY <2>1
  <2> QED
    BY <2>1, <2>2 DEF Moments
<1>10. Ordered(trans, n)
  <2>1. \A i \in 1..Len(trans) : trans[i].index < n
    BY <1>5, <1>8, <1>9
  <2> QED
    BY <1>4, <2>1 DEF Ordered
<1>11. /\ {BigBang, LateTime, MinTime, MaxTime} \subseteq Int /\ SecsPerDay \in Nat
       /\ MinTime + 2 * SecsPerDay <= BigBang /\ 0 < LateTime /\ LateTime < MaxTime
  BY TimesAssumption
<1>12. \A t \in Types : t.off \in Int
  BY DEF Types
\* The table begins with the first transition of the file.
<1>13. ASSUME NEW T, Ordered(T, n), T[1] = trans[1], T[Len(T)].time <= MaxTime,
              zone.trans = WithCivil(T, e.types, default)
       PROVE  /\ Rows /\ N = Len(T)
              /\ \A i \in 1..N : TimeAt(i) = T[i].time /\ Off(i) = e.types[T[i].index + 1].off
  <2> DEFINE a == e.types[T[1].index + 1].off
             b == e.types[default + 1].off
             t == T[1].time
  <2>1. 1 \in 1..Len(trans)
    BY <1>9
  <2>2. trans[1].index + 1 \in 1..Len(raw.types)
    BY <1>8, <1>9, <2>1
  <2>3. a = raw.types[trans[1].index + 1].off /\ b = raw.types[default + 1].off
    BY <1>5, <1>8, <1>13, <2>2
  <2>4. a \in -SecsPerDay + 1..SecsPerDay - 1 /\ b \in -SecsPerDay + 1..SecsPerDay - 1
    BY <1>7, <1>8, <2>2, <2>3
  <2>5. t \in Int /\ BigBang <= t
    BY <1>4, <1>9, <1>13, <2>1
  <2>6. MinTime <= t /\ MinTime <= t + a - b
    <3> HIDE DEF a, b, t
    <3> QED
      BY <1>11, <2>4, <2>5
  <2>7. CivilOrder(zone.trans)
    BY <1>2, <1>3
  <2>8. /\ Ordered(T, Len(e.types)) /\ default \in 0..Len(e.types) - 1 /\ e.types \in Seq(Types)
        /\ zone.types = e.types /\ zone.default = default
        /\ MinTime <= T[1].time /\ T[Len(T)].time <= MaxTime
        /\ MinTime <= T[1].time + e.types[T[1].index + 1].off - e.types[default + 1].off
    BY <1>3, <1>5, <1>8, <1>13, <2>6 DEF n
  <2> HIDE DEF a, b, t
  <2> DEFINE types == e.types
             S == Types
  <2>9. /\ Ordered(T, Len(types)) /\ default \in 0..Len(types) - 1 /\ types \in Seq(S)
        /\ zone.types = types /\ zone.default = default /\ zone.trans = WithCivil(T, types, default)
        /\ CivilOrder(zone.trans) /\ (\A tt \in S : tt.off \in Int)
        /\ MinTime <= T[1].time /\ T[Len(T)].time <= MaxTime
        /\ MinTime <= T[1].time + types[T[1].index + 1].off - types[default + 1].off
    BY <1>12, <1>13, <2>7, <2>8
  <2> HIDE DEF types, S
  <2>10. /\ Rows /\ N = Len(T)
         /\ \A i \in 1..N : TimeAt(i) = T[i].time /\ Off(i) = types[T[i].index + 1].off
    BY <2>9, TableRows
  <2> QED
    BY <2>10 DEF types
<1>14. CASE e.trans = trans /\ e.extended = FALSE
  <2>1. CASE lt < 0
    <3> DEFINE A == <<Trans(LateTime, trans[Len(trans)].index)>>
               T == trans \o A
    <3>1. Len(trans) \in 1..Len(trans)
      BY <1>9
    <3>2. /\ Trans(LateTime, trans[Len(trans)].index) \in Moments
          /\ Trans(LateTime, trans[Len(trans)].index).time = LateTime
          /\ Trans(LateTime, trans[Len(trans)].index).index < n
      <4>1. trans[Len(trans)].index \in Nat /\ trans[Len(trans)].index < n
        BY <1>9, <1>10, <3>1 DEF Ordered
      <4> QED
        BY <1>11, <4>1 DEF Trans, Moments
    <3>3. /\ A \in Seq(Moments) /\ Len(A) = 1 /\ A[1] \in Moments /\ A[1].time = LateTime /\ A[1].index < n
          /\ A[1] = Trans(LateTime, trans[Len(trans)].index)
      BY <3>2
    <3>4. whole = Append(trans, Trans(LateTime, trans[Len(trans)].index))
      BY <1>14, <2>1 DEF whole, last
    <3>5. whole = T
      BY <1>9, <3>2, <3>4
    <3> HIDE DEF A
    <3>6. /\ Ordered(T, n) /\ Len(T) = Len(trans) + Len(A)
          /\ \A i \in 1..Len(trans) : T[i] = trans[i]
          /\ \A i \in 1..Len(A) : T[Len(trans) + i] = A[i]
      <4>1. /\ Len(A) > 0 /\ \A i \in 1..Len(A) : A[i].index < n
            /\ \A i \in 1..Len(A) - 1 : A[i].time < A[i + 1].time
        BY <3>3
      <4>2. trans[Len(trans)].time < A[1].time
        BY <1>9, <1>11, <2>1, <3>1, <3>3
      <4>3. n \in Nat /\ Ordered(trans, n) /\ A \in Seq(Moments)
        BY <1>8, <1>10, <3>3
      <4> QED
        BY <4>1, <4>2, <4>3, Appended
    <3>7. T[1] = trans[1] /\ T[Len(T)].time <= MaxTime
      <4>1. 1 \in 1..Len(trans) /\ 1 \in 1..Len(A)
        BY <1>9, <3>3
      <4>2. T[Len(T)] = A[1]
        BY <3>3, <3>6, <4>1
      <4> QED
        BY <1>11, <3>3, <3>6, <4>1, <4>2
    <3> HIDE DEF T
    <3>8. Rows
      BY <1>3, <1>13, <3>5, <3>6, <3>7 DEF table
    <3> QED
      BY <1>3, <1>14, <3>8 DEF Repeats
  <2>2. CASE ~(lt < 0)
    <3>1. whole = trans
      BY <1>14, <2>2 DEF whole, last
    <3>2. trans[Len(trans)].time <= MaxTime
      <4>1. Len(trans) \in 1..Len(trans)
        BY <1>9
      <4> QED
        BY <1>4, <4>1
    <3>3. Rows
      BY <1>3, <1>10, <1>13, <3>1, <3>2 DEF table
    <3> QED
      BY <1>3, <1>14, <3>3 DEF Repeats
  <2> QED
    BY <2>1, <2>2
<1>15. CASE /\ Dated(raw.rule) /\ e.extended = TRUE /\ e.last_year = year + Cycle + 1
            /\ \E s, d \in 0..n - 1 :
                 /\ e.types[s + 1] = raw.rule.std /\ e.types[d + 1] = raw.rule.dst
                 /\ e.trans = ExtendYears(raw.rule, s, d, trans, year, year + Cycle + 1)
  <2>1. PICK s \in 0..n - 1, d \in 0..n - 1 :
          /\ e.types[s + 1] = raw.rule.std /\ e.types[d + 1] = raw.rule.dst
          /\ e.trans = ExtendYears(raw.rule, s, d, trans, year, year + Cycle + 1)
    BY <1>15
  <2>2. s \in Nat /\ d \in Nat /\ s < n /\ d < n
    BY <1>8
  <2>3. /\ raw.times # <<>> /\ -CycleSecs <= raw.times[Len(raw.times)]
        /\ raw.times[Len(raw.times)] <= MaxTime - 3 * CycleSecs /\ CycleSecs \in Nat \ {0}
    <3>1. /\ raw.times \in Seq(Int) /\ raw.times # <<>> /\ -CycleSecs <= raw.times[Len(raw.times)]
          /\ \A i \in 1..Len(raw.times) : raw.times[i] <= MaxTime - 3 * CycleSecs
      BY <1>15 DEF IsFile
    <3>2. Len(raw.times) \in 1..Len(raw.times)
      BY <3>1
    <3> QED
      BY <3>1, <3>2, YearsRise
  <2>4. lt \in Int /\ -CycleSecs <= lt /\ lt <= MaxTime - 3 * CycleSecs
    <3>1. Len(trans) \in 1..Len(trans)
      BY <1>9
    <3> QED
      BY <1>4, <1>9, <2>3, <3>1
  <2>5. x \in Clocks(raw) /\ x.off \in Int
    <3>1. Len(trans) \in 1..Len(trans)
      BY <1>9
    <3>2. trans[Len(trans)].index + 1 \in 1..Len(raw.types)
      BY <1>8, <1>9, <3>1
    <3>3. x \in Clocks(raw)
      BY <3>2 DEF Clocks
    <3> QED
      BY <1>15, <3>3, DatedFacts
  <2> HIDE DEF x, lt
  <2>6. year \in Int /\ YearStart(year) <= lt + x.off /\ lt + x.off < YearStart(year + 1)
    BY <2>4, <2>5, YearOf
  <2> HIDE DEF year
  <2> DEFINE T == e.trans
             pair(y) == RulePair(raw.rule, s, d, y)
  <2>7. /\ Ordered(T, n) /\ T[1] = trans[1] /\ Len(T) > 1
        /\ T[Len(T) - 1] = pair(year + Cycle + 1)[1] /\ T[Len(T)] = pair(year + Cycle + 1)[2]
        /\ \E p : WholeYear(T, raw.rule, s, d, year, p)
    <3>1. trans[Len(trans)].time + x.off < YearStart(year + 1)
      BY <2>6 DEF lt
    <3> DEFINE U == ExtendYears(raw.rule, s, d, trans, year, year + Cycle + 1)
    <3>2. n \in Nat /\ Ordered(trans, n) /\ Dated(raw.rule) /\ x \in Clocks(raw) /\ year \in Int
      BY <1>8, <1>10, <1>15, <2>5, <2>6
    <3>3. /\ Ordered(U, n) /\ U[1] = trans[1] /\ Len(U) > 1
          /\ U[Len(U) - 1] = pair(year + Cycle + 1)[1] /\ U[Len(U)] = pair(year + Cycle + 1)[2]
      BY <2>2, <3>1, <3>2, ExtendedTable
    <3>4. \E p : WholeYear(U, raw.rule, s, d, year, p)
      BY <2>2, <3>1, <3>2, ExtendedTable
    <3>5. T = U
      BY <2>1
    <3> HIDE DEF T, U, pair
    <3> QED
      BY <3>3, <3>4, <3>5
  <2>8. year + Cycle + 1 \in Int /\ year + Cycle + 1 + 1 = year + Cycle + 2 /\ Cycle \in Nat \ {0}
    BY <2>6, CycleFacts
  <2> DEFINE u == pair(year + Cycle + 1)[2].time
  <2>9. u \in Int /\ YearStart(year + Cycle + 1) <= u + x.off /\ u + x.off < YearStart(year + Cycle + 2)
    <3> DEFINE y == year + Cycle + 1
    <3>1. y \in Int /\ y + 1 = year + Cycle + 2
      BY <2>8
    <3> HIDE DEF y
    <3>2. pair(y)[2].time \in Int
      BY <1>15, <2>2, <3>1, PairInYear
    <3>3. YearStart(y) <= pair(y)[2].time + x.off /\ pair(y)[2].time + x.off < YearStart(y + 1)
      BY <1>15, <2>2, <2>5, <3>1, PairInYear
    <3> QED
      BY <3>1, <3>2, <3>3 DEF y
  <2> HIDE DEF u, T, pair
  <2>10. lt + CycleSecs < u /\ u < lt + 3 * CycleSecs
    BY <2>4, <2>5, <2>6, <2>9, ExtendedEnds
  <2>11. T[Len(T)].time = u
    BY <2>7 DEF u
  <2>12. 0 <= u /\ u <= MaxTime
    <3>1. MaxTime \in Int /\ CycleSecs \in Int
      BY <1>11, <2>3
    <3> QED
      BY <2>4, <2>9, <2>10, <3>1
  <2>13. whole = T
    <3>1. ~(last.time < 0)
      BY <2>9, <2>11, <2>12 DEF last, T
    <3> QED
      BY <3>1 DEF whole, T
  <2>14. /\ Rows /\ N = Len(T)
         /\ \A i \in 1..N : TimeAt(i) = T[i].time /\ Off(i) = e.types[T[i].index + 1].off
    BY <1>3, <1>13, <2>7, <2>11, <2>12, <2>13 DEF table
  <2>15. PICK p : WholeYear(T, raw.rule, s, d, year, p)
    BY <2>7
  <2>16. Len(T) \in Nat
    <3>1. T \in Seq(Moments)
      BY <2>7 DEF Ordered
    <3> QED
      BY <3>1
  <2>17. zone.last_year = year + Cycle + 1
    BY <1>3, <1>15
  <2>18. Repeats
    <3>1. /\ T[Len(T) - 1] = RulePair(raw.rule, s, d, year + Cycle + 1)[1]
          /\ T[Len(T)] = RulePair(raw.rule, s, d, year + Cycle + 1)[2]
      BY <2>7 DEF pair
    <3> DEFINE types == e.types
    <3>2. /\ Rows /\ Dated(raw.rule) /\ N = Len(T) /\ Len(T) \in Nat
          /\ \A i \in 1..N : TimeAt(i) = T[i].time /\ Off(i) = types[T[i].index + 1].off
          /\ types[s + 1] = raw.rule.std /\ types[d + 1] = raw.rule.dst
      BY <1>15, <2>1, <2>14, <2>16
    <3> HIDE DEF types
    <3> QED
      BY <2>2, <2>6, <2>15, <2>17, <3>1, <3>2, ExtendedRepeats
  <2> QED
    BY <2>14, <2>18
<1> QED
  BY <1>5, <1>14, <1>15

\* Every zone that Load() leaves has such a table.
LEMMA LoadRows ==
  ASSUME source \in Sources, zone = Load(source)
  PROVE  Rows /\ Repeats
<1>1. CASE source \in [fixed : -SecsPerDay..SecsPerDay]
  <2>1. source.fixed \in Int /\ "fixed" \in DOMAIN source
    BY <1>1
  <2>2. zone = ResetToBuiltinUTC(source.fixed)
    BY <2>1 DEF Load
  <2>3. zone.default = 0 /\ zone.extended = FALSE
    BY <2>2 DEF ResetToBuiltinUTC
  <2> QED
    BY <2>1, <2>2, <2>3, FixedRows
<1>2. CASE IsFile(source)
  <2>1. "fixed" \notin DOMAIN source
    BY <1>2 DEF IsFile
  <2>2. zone = LET file == LoadFile(source) IN
               IF file.ok THEN file ELSE [ResetToBuiltinUTC(0) EXCEPT !.ok = FALSE]
    BY <2>1 DEF Load
  <2>3. CASE LoadFile(source).ok
    <3>1. zone = LoadFile(source)
      BY <2>2, <2>3
    <3> QED
      BY <1>2, <2>3, <3>1, FileLoads
  <2>4. CASE ~LoadFile(source).ok
    <3> DEFINE utc == ResetToBuiltinUTC(0)
    <3>1. zone = [utc EXCEPT !.ok = FALSE]
      BY <2>2, <2>4
    <3>2. utc.default = 0 /\ utc.extended = FALSE
      BY DEF ResetToBuiltinUTC
    <3> HIDE DEF utc
    <3>3. zone.trans = utc.trans /\ zone.types = utc.types /\ zone.default = utc.default
          /\ zone.extended = utc.extended
      BY <3>1
    <3>4. /\ zone.trans = ResetToBuiltinUTC(0).trans /\ zone.types = ResetToBuiltinUTC(0).types
          /\ zone.default = 0 /\ zone.extended = FALSE
      BY <3>2, <3>3 DEF utc
    <3>5. 0 \in Int
      OBVIOUS
    <3> QED
      BY <3>4, <3>5, FixedRows
  <2> QED
    BY <2>3, <2>4
<1> QED
  BY <1>1, <1>2, SourcesAssumption DEF IsFile

-----------------------------------------------------------------------------
(* What a table tells, and the answers that follow *)

\* The type from the i-th transition on, and before the first.
Typ(i) == TypeOf(IF i = 0 THEN zone.default ELSE zone.trans[i].index)
ZoneTypes == {zone.types[i] : i \in 1..Len(zone.types)}

\* p is the number of transitions up to t.
UpTo(t, p) == p \in 0..N /\ (\A i \in 1..p : TimeAt(i) <= t) /\ (p < N => t < TimeAt(p + 1))

\* What a table tells of its source: at every time up to the last transition the type in force
\* is the one the source says.  Without a rule that goes on for ever.  With one the types repeat
\* after a cycle, and the next change comes at some w after the end of the table: on every clock
\* of the zone the last transition is before the year PastTable starts, and w is not.
Told ==
  /\ BigBang <= TimeAt(1)
  /\ \A i \in 0..N : Typ(i) \in ZoneTypes
  /\ \A t \in Int : TypeAt(t) \in ZoneTypes
  /\ \A t \in Int, p \in 0..N : UpTo(t, p) /\ p < N => TypeAt(t) = Typ(p)
  /\ ~zone.extended => \A t \in Int : TimeAt(N) <= t => TypeAt(t) = Typ(N)
  /\ zone.extended =>
       /\ \A t \in Int : TimeAt(N) - CycleSecs <= t => TypeAt(t + CycleSecs) = TypeAt(t)
       /\ \A x \in ZoneTypes : TimeAt(N) + x.off < PastTable
       /\ \E w \in Int : /\ TimeAt(N) < w
                         /\ \A t \in Int : TimeAt(N) <= t /\ t < w => TypeAt(t) = Typ(N)
                         /\ \A x \in ZoneTypes : PastTable <= w + x.off

\* What the exactness of a conversion rests on.
Exactly == Rows /\ Repeats /\ Told /\ Regular(zone)

\* The rows of a regular table.
LEMMA RegularRows ==
  ASSUME Rows, Told, Regular(zone)
  PROVE  /\ N \in Nat \ {0} /\ SecsPerDay \in Nat \ {0} /\ {MinTime, MaxTime, BigBang} \subseteq Int
         /\ MinTime + 2 * SecsPerDay <= BigBang /\ BigBang < 0 /\ 0 < MaxTime
         /\ \A x \in ZoneTypes : x.off \in Int /\ -SecsPerDay <= x.off /\ x.off <= SecsPerDay
         /\ \A p \in 0..N : Off(p) \in Int /\ Typ(p).off = Off(p) /\ -SecsPerDay <= Off(p) /\ Off(p) <= SecsPerDay
         /\ \A i \in 1..N : /\ TimeAt(i) \in Int /\ CivilAt(i) \in Int /\ PrevAt(i) \in Int
                            /\ CivilAt(i) = TimeAt(i) + Off(i) /\ PrevAt(i) = TimeAt(i) + Off(i - 1) - 1
                            /\ BigBang <= TimeAt(i) /\ TimeAt(i) + 2 * SecsPerDay <= MaxTime
         /\ \A i \in 1..N - 1 : PrevAt(i) <= PrevAt(i + 1) /\ PrevAt(i) < CivilAt(i + 1)
         /\ zone.extended => CycleSecs <= TimeAt(N)
         /\ TimeAt(1) = BigBang => Typ(1) = Typ(0)
<1>1. N \in Nat \ {0} /\ SecsPerDay \in Nat \ {0} /\ {MinTime, MaxTime, BigBang} \subseteq Int
      /\ MinTime + 2 * SecsPerDay <= BigBang /\ BigBang < 0 /\ 0 < MaxTime
  <2>1. N \in Nat \ {0}
    BY DEF Rows
  <2>2. {BigBang, LateTime, MinTime, MaxTime} \subseteq Int /\ SecsPerDay \in Nat \ {0}
        /\ MinTime + 2 * SecsPerDay <= BigBang /\ BigBang < 0 /\ 0 < LateTime /\ LateTime < MaxTime
    BY TimesAssumption
  <2> QED
    BY <2>1, <2>2
<1>2. /\ \A i \in 1..Len(zone.types) : zone.types[i].off \in -SecsPerDay..SecsPerDay
      /\ TimeAt(N) + 2 * SecsPerDay <= MaxTime
      /\ zone.extended => CycleSecs <= TimeAt(N)
      /\ \A i \in 1..N - 1 : PrevAt(i) <= PrevAt(i + 1) /\ PrevAt(i) < CivilAt(i + 1)
  BY DEF Regular, N, TimeAt, PrevAt, CivilAt
<1>3. TimeAt(1) = BigBang => Typ(1) = Typ(0)
  BY DEF Regular, TimeAt, Typ, TypeOf
<1>4. \A x \in ZoneTypes : x.off \in Int /\ -SecsPerDay <= x.off /\ x.off <= SecsPerDay
  BY <1>1, <1>2 DEF ZoneTypes
<1>5. ASSUME NEW p \in 0..N PROVE Off(p) \in Int /\ Typ(p).off = Off(p) /\ -SecsPerDay <= Off(p) /\ Off(p) <= SecsPerDay
  <2>1. Typ(p).off = Off(p)
    BY DEF Typ, Off
  <2>2. Typ(p) \in ZoneTypes
    BY DEF Told
  <2> QED
    BY <1>4, <2>1, <2>2
<1>6. ASSUME NEW i \in 1..N
      PROVE  /\ TimeAt(i) \in Int /\ CivilAt(i) \in Int /\ PrevAt(i) \in Int
             /\ CivilAt(i) = TimeAt(i) + Off(i) /\ PrevAt(i) = TimeAt(i) + Off(i - 1) - 1
             /\ BigBang <= TimeAt(i) /\ TimeAt(i) + 2 * SecsPerDay <= MaxTime
  <2>1. TimeAt(i) \in Int /\ CivilAt(i) = TimeAt(i) + Off(i) /\ PrevAt(i) = TimeAt(i) + Off(i - 1) - 1
    BY DEF Rows
  <2>2. Off(i) \in Int /\ Off(i - 1) \in Int
    <3>1. i \in 0..N /\ i - 1 \in 0..N
      BY <1>1
    <3> QED
      BY <1>5, <3>1
  <2>3. 1 \in 1..N /\ N \in 1..N /\ (i = 1 \/ 1 < i) /\ (i = N \/ i < N)
    BY <1>1
  <2>4. TimeAt(1) \in Int /\ TimeAt(N) \in Int /\ BigBang <= TimeAt(1)
    BY <2>3 DEF Rows, Told
  <2>5. TimeAt(1) <= TimeAt(i) /\ TimeAt(i) <= TimeAt(N)
    BY <2>1, <2>3, <2>4, RowsRise
  <2>6. CivilAt(i) \in Int /\ PrevAt(i) \in Int
    BY <2>1, <2>2
  <2> QED
    BY <1>1, <1>2, <2>1, <2>4, <2>5, <2>6
<1> QED
  BY <1>1, <1>2, <1>3, <1>4, <1>5, <1>6

\* Every time has a place.
LEMMA Placed ==
  ASSUME Rows, NEW t \in Int
  PROVE  \E p \in 0..N : UpTo(t, p)
<1> DEFINE f == [i \in 1..N |-> TimeAt(i)]
<1>1. N \in Nat /\ \A i \in 1..N : f[i] \in Int /\ f[i] = TimeAt(i)
  BY DEF Rows
<1> HIDE DEF f
<1>2. PICK p \in 0..N : (\A i \in 1..p : f[i] <= t) /\ (p < N => t < f[p + 1])
  BY <1>1, PlaceExists
<1>3. \A i \in 1..p : i \in 1..N
  BY <1>1
<1>4. p < N => p + 1 \in 1..N
  BY <1>1
<1> QED
  BY <1>1, <1>2, <1>3, <1>4 DEF UpTo

\* A time between a transition and the next has its place there.
LEMMA PlacedAt ==
  ASSUME Rows, NEW t \in Int, NEW p \in 0..N, p > 0 => TimeAt(p) <= t, p < N => t < TimeAt(p + 1)
  PROVE  UpTo(t, p)
<1>1. N \in Nat /\ \A i \in 1..N : TimeAt(i) \in Int
  BY DEF Rows
<1>2. ASSUME NEW i \in 1..p PROVE TimeAt(i) <= t
  <2>1. i \in 1..N /\ p \in 1..N /\ (i = p \/ i < p) /\ p > 0
    BY <1>1
  <2>2. TimeAt(i) <= TimeAt(p) /\ TimeAt(i) \in Int /\ TimeAt(p) \in Int
    BY <1>1, <2>1, RowsRise
  <2> QED
    BY <2>1, <2>2
<1> QED
  BY <1>2 DEF UpTo

\* The type in force at a time is that of its place, unless the time is past an extended table:
\* then the clock is past it as well.
LEMMA InForce ==
  ASSUME Exactly, NEW t \in Int, NEW p \in 0..N, UpTo(t, p)
  PROVE  \/ TypeAt(t) = Typ(p)
         \/ zone.extended /\ p = N /\ PastTable <= t + TypeAt(t).off /\ PastTable <= t + Off(N)
<1>1. Rows /\ Repeats /\ Told /\ Regular(zone)
  BY DEF Exactly
<1>2. N \in Nat \ {0} /\ \A x \in ZoneTypes : x.off \in Int
  BY <1>1, RegularRows
<1>3. CASE p < N
  BY <1>1, <1>3 DEF Told
<1>4. CASE p = N
  <2>1. TimeAt(N) <= t
    BY <1>2, <1>4 DEF UpTo
  <2>2. CASE ~zone.extended
    BY <1>1, <1>4, <2>1, <2>2 DEF Told
  <2>3. CASE zone.extended
    <3>1. PICK w \in Int : /\ TimeAt(N) < w
                           /\ \A u \in Int : TimeAt(N) <= u /\ u < w => TypeAt(u) = Typ(N)
                           /\ \A x \in ZoneTypes : PastTable <= w + x.off
      BY <1>1, <2>3 DEF Told
    <3>2. CASE t < w
      BY <1>4, <2>1, <3>1, <3>2
    <3>3. CASE w <= t
      <4>1. TypeAt(t) \in ZoneTypes /\ Typ(N) \in ZoneTypes /\ Typ(N).off = Off(N)
        BY <1>1, <1>2 DEF Told, Typ, Off
      <4>2. PastTable <= w + TypeAt(t).off /\ PastTable <= w + Off(N) /\ TypeAt(t).off \in Int /\ Off(N) \in Int
        BY <1>2, <3>1, <4>1
      <4>3. PastTable \in Int
        BY <1>1, <2>3, PastFacts
      <4> QED
        BY <1>4, <2>3, <3>3, <4>2, <4>3
    <3> QED
      BY <3>2, <3>3
  <2> QED
    BY <2>2, <2>3
<1> QED
  BY <1>2, <1>3, <1>4

Shows(t, c) == t + TypeAt(t).off = c

\* When the clock shows c, whose place by local time is p: under the type at p, unless the next
\* change skips it, and under the type before, if the change at p repeats it.
LEMMA ShownAt ==
  ASSUME Exactly, NEW c \in Int, NEW p, At(c, p), zone.extended => c < PastTable, NEW t \in Int
  PROVE  Shows(t, c) <=> \/ t = c - Off(p) /\ (p < N => c <= PrevAt(p + 1))
                         \/ p > 0 /\ t = c - Off(p - 1) /\ c <= PrevAt(p)
<1>1. Rows /\ Repeats /\ Told /\ Regular(zone)
  BY DEF Exactly
<1>2. /\ N \in Nat \ {0}
      /\ \A q \in 0..N : Off(q) \in Int /\ Typ(q).off = Off(q)
      /\ \A i \in 1..N : /\ TimeAt(i) \in Int /\ CivilAt(i) \in Int /\ PrevAt(i) \in Int
                         /\ CivilAt(i) = TimeAt(i) + Off(i) /\ PrevAt(i) = TimeAt(i) + Off(i - 1) - 1
      /\ \A i \in 1..N - 1 : PrevAt(i) < CivilAt(i + 1)
  BY <1>1, RegularRows
<1>3. /\ p \in 0..N /\ (p > 0 => CivilAt(p) <= c) /\ (p < N => c < CivilAt(p + 1))
  <2>1. p \in 0..N /\ (\A i \in 1..p : CivilAt(i) <= c) /\ (p < N => c < CivilAt(p + 1))
    BY DEF At
  <2>2. p > 0 => p \in 1..p
    BY <2>1
  <2> QED
    BY <2>1, <2>2
<1>4. \A i, j \in 1..N : i <= j => CivilAt(i) <= CivilAt(j)
  <2>1. ASSUME NEW i \in 1..N, NEW j \in 1..N, i <= j PROVE CivilAt(i) <= CivilAt(j)
    <3>1. i = j \/ i < j
      BY <1>2, <2>1
    <3>2. CivilAt(i) \in Int /\ CivilAt(j) \in Int
      BY <1>2
    <3> QED
      BY <1>1, <3>1, <3>2, RowsRise
  <2> QED
    BY <2>1
<1>5. ASSUME NEW q \in 0..N, q < N
      PROVE  /\ q + 1 \in 1..N /\ TimeAt(q + 1) \in Int /\ PrevAt(q + 1) = TimeAt(q + 1) + Off(q) - 1
             /\ CivilAt(q + 1) \in Int
  <2>1. PICK i \in 1..N : i = q + 1 /\ i - 1 = q
    BY <1>2, <1>5
  <2>2. TimeAt(i) \in Int /\ PrevAt(i) = TimeAt(i) + Off(i - 1) - 1 /\ CivilAt(i) \in Int
    BY <1>2
  <2> QED
    BY <2>1, <2>2
<1>6. ASSUME Shows(t, c)
      PROVE  \/ t = c - Off(p) /\ (p < N => c <= PrevAt(p + 1))
             \/ p > 0 /\ t = c - Off(p - 1) /\ c <= PrevAt(p)
  <2>1. PICK q \in 0..N : UpTo(t, q)
    BY <1>1, Placed
  <2>2. TypeAt(t) = Typ(q)
    <3>1. t + TypeAt(t).off = c
      BY <1>6 DEF Shows
    <3>2. ~(zone.extended /\ PastTable <= t + TypeAt(t).off)
      <4>1. zone.extended => PastTable \in Int
        BY <1>1, PastFacts
      <4> QED
        BY <3>1, <4>1
    <3> QED
      BY <2>1, <3>2, InForce
  <2>3. c = t + Off(q) /\ Off(q) \in Int
    BY <1>2, <1>6, <2>2 DEF Shows
  <2>4. q > 0 => TimeAt(q) <= t
    <3>1. q > 0 => q \in 1..q
      OBVIOUS
    <3> QED
      BY <2>1, <3>1 DEF UpTo
  <2>5. q < N => t < TimeAt(q + 1)
    BY <2>1 DEF UpTo
  <2>6. q > 0 => CivilAt(q) <= c
    <3>1. ASSUME q > 0 PROVE CivilAt(q) <= c
      <4>1. q \in 1..N
        BY <1>2, <3>1
      <4>2. TimeAt(q) \in Int /\ CivilAt(q) = TimeAt(q) + Off(q)
        BY <1>2, <4>1
      <4> QED
        BY <2>3, <2>4, <3>1, <4>2
    <3> QED
      BY <3>1
  <2>7. q < N => c <= PrevAt(q + 1)
    <3>1. ASSUME q < N PROVE c <= PrevAt(q + 1)
      <4>1. TimeAt(q + 1) \in Int /\ PrevAt(q + 1) = TimeAt(q + 1) + Off(q) - 1
        BY <1>5, <3>1
      <4> QED
        BY <2>3, <2>5, <3>1, <4>1
    <3> QED
      BY <3>1
  <2>8. ~(q > p)
    <3> SUFFICES ASSUME q > p PROVE FALSE
      OBVIOUS
    <3>1. q \in 1..N /\ p + 1 \in 1..N /\ p + 1 <= q /\ p < N
      BY <1>2, <1>3
    <3>2. CivilAt(p + 1) <= CivilAt(q) /\ CivilAt(p + 1) \in Int /\ CivilAt(q) \in Int
      BY <1>2, <1>4, <3>1
    <3> QED
      BY <1>3, <2>6, <3>1, <3>2
  <2>9. ~(q + 2 <= p)
    <3> SUFFICES ASSUME q + 2 <= p PROVE FALSE
      OBVIOUS
    <3>1. q + 1 \in 1..N - 1 /\ q + 1 \in 1..N /\ q + 2 \in 1..N /\ p \in 1..N /\ q + 1 + 1 = q + 2 /\ q < N /\ p > 0
      BY <1>2, <1>3
    <3>2. PrevAt(q + 1) < CivilAt(q + 2)
      BY <1>2, <3>1
    <3>3. CivilAt(q + 2) <= CivilAt(p) /\ CivilAt(q + 2) \in Int /\ CivilAt(p) \in Int /\ PrevAt(q + 1) \in Int
      BY <1>2, <1>4, <3>1
    <3> QED
      BY <1>3, <2>7, <3>1, <3>2, <3>3
  <2>10. q = p \/ (p > 0 /\ q = p - 1)
    BY <1>2, <1>3, <2>8, <2>9
  <2>11. CASE q = p
    BY <2>3, <2>7, <2>11
  <2>12. CASE p > 0 /\ q = p - 1
    <3>1. q < N /\ q + 1 = p
      BY <1>2, <1>3, <2>12
    <3> QED
      BY <2>3, <2>7, <2>12, <3>1
  <2> QED
    BY <2>10, <2>11, <2>12
<1>7. ASSUME t = c - Off(p), p < N => c <= PrevAt(p + 1) PROVE Shows(t, c)
  <2>1. Off(p) \in Int /\ c = t + Off(p)
    BY <1>2, <1>3, <1>7
  <2>2. p > 0 => TimeAt(p) <= t
    <3>1. ASSUME p > 0 PROVE TimeAt(p) <= t
      <4>1. p \in 1..N
        BY <1>2, <1>3, <3>1
      <4>2. TimeAt(p) \in Int /\ CivilAt(p) = TimeAt(p) + Off(p)
        BY <1>2, <4>1
      <4> QED
        BY <1>3, <2>1, <3>1, <4>2
    <3> QED
      BY <3>1
  <2>3. p < N => t < TimeAt(p + 1)
    <3>1. ASSUME p < N PROVE t < TimeAt(p + 1)
      <4>1. TimeAt(p + 1) \in Int /\ PrevAt(p + 1) = TimeAt(p + 1) + Off(p) - 1
        BY <1>3, <1>5, <3>1
      <4> QED
        BY <1>7, <2>1, <3>1, <4>1
    <3> QED
      BY <3>1
  <2>4. UpTo(t, p)
    BY <1>1, <1>3, <2>2, <2>3, PlacedAt
  <2>5. ~(zone.extended /\ p = N /\ PastTable <= t + Off(N))
    <3>1. zone.extended => PastTable \in Int
      BY <1>1, PastFacts
    <3> QED
      BY <2>1, <3>1
  <2>6. TypeAt(t) = Typ(p)
    BY <1>3, <2>4, <2>5, InForce
  <2> QED
    BY <1>2, <1>3, <2>1, <2>6 DEF Shows
<1>8. ASSUME p > 0, t = c - Off(p - 1), c <= PrevAt(p) PROVE Shows(t, c)
  <2> DEFINE q == p - 1
  <2>1. q \in 0..N /\ q < N /\ q + 1 = p /\ p \in 1..N
    BY <1>2, <1>3, <1>8
  <2>2. Off(q) \in Int /\ c = t + Off(q)
    BY <1>2, <1>8, <2>1
  <2>3. PrevAt(p) = TimeAt(p) + Off(q) - 1 /\ TimeAt(p) \in Int
    BY <1>2, <2>1
  <2> HIDE DEF q
  <2>4. t < TimeAt(q + 1)
    BY <1>8, <2>1, <2>2, <2>3
  <2>5. q > 0 => TimeAt(q) <= t
    <3>1. ASSUME q > 0 PROVE TimeAt(q) <= t
      <4>1. q \in 1..N /\ q <= p
        BY <1>2, <2>1, <3>1
      <4>2. TimeAt(q) \in Int /\ CivilAt(q) = TimeAt(q) + Off(q) /\ CivilAt(p) \in Int /\ CivilAt(q) <= CivilAt(p)
        BY <1>2, <1>4, <2>1, <4>1
      <4> QED
        BY <1>3, <1>8, <2>2, <4>2
    <3> QED
      BY <3>1
  <2>6. UpTo(t, q)
    BY <1>1, <2>1, <2>4, <2>5, PlacedAt
  <2>7. TypeAt(t) = Typ(q)
    BY <1>1, <2>1, <2>6 DEF Told
  <2> QED
    BY <1>2, <2>1, <2>2, <2>7 DEF Shows
<1> QED
  BY <1>6, <1>7, <1>8

\* cl says of c what the clock does: shows it once at e; at e and at l, with a change at m; or
\* never, as the change at t skips it.
Once(c, cl, e) ==
  /\ \A t \in Int : Shows(t, c) <=> t = e
  /\ cl.pre = Capped(e) /\ cl.trans = Capped(e) /\ cl.post = Capped(e)
Twice(c, cl, e, m, l) ==
  /\ e < l /\ e <= m /\ m <= l /\ MinTime <= e
  /\ \A t \in Int : Shows(t, c) <=> t = e \/ t = l
  /\ cl.pre = Capped(e) /\ cl.trans = Capped(m) /\ cl.post = Capped(l)
Never(c, cl, t) ==
  /\ \A u \in Int : ~Shows(u, c)
  /\ Skips(t, c)
  /\ cl.pre = Capped(c - TypeAt(t - 1).off) /\ cl.trans = Capped(t) /\ cl.post = Capped(c - TypeAt(t).off)
Describes(c, cl) ==
  \/ cl.kind = "unique" /\ \E e \in Int : Once(c, cl, e)
  \/ cl.kind = "repeated" /\ \E e, m, l \in Int : Twice(c, cl, e, m, l)
  \/ cl.kind = "skipped" /\ \E t \in Int : Never(c, cl, t)

\* What MakeTime answers at a place.
LEMMA PlacedIs ==
  ASSUME Rows, NEW c \in Int, NEW p \in 0..N
  PROVE  LET a == MakePlaced(c, p) IN
         /\ Skipped(c, p) =>
              a = Lookup("skipped", c - Off(p), TimeAt(p + 1), c - Off(p + 1))
         /\ Repeated(c, p) =>
              a = Lookup("repeated", c - Off(p - 1), TimeAt(p), c - Off(p))
         /\ ~Skipped(c, p) /\ p = 0 =>
              a = MakeUnique(IF c < MinTime + Off(0) THEN MinTime ELSE c - Off(0))
         /\ ~Skipped(c, p) /\ ~Repeated(c, p) /\ p > 0 =>
              a = MakeUnique(IF p = N /\ c > MaxTime + Off(N) THEN MaxTime ELSE c - Off(p))
<1>1. N \in Nat \ {0} /\ N >= 1 /\ p \in Int
  BY DEF Rows
<1>2. p < N => /\ p + 1 \in 1..N /\ TimeAt(p + 1) \in Int /\ Off(p) \in Int /\ Off(p + 1) \in Int
               /\ CivilAt(p + 1) = TimeAt(p + 1) + Off(p + 1)
               /\ PrevAt(p + 1) = TimeAt(p + 1) + Off(p) - 1
  BY RowsAt
<1>3. p > 0 => /\ p \in 1..N /\ TimeAt(p) \in Int /\ Off(p) \in Int /\ Off(p - 1) \in Int
               /\ CivilAt(p) = TimeAt(p) + Off(p) /\ PrevAt(p) = TimeAt(p) + Off(p - 1) - 1
               /\ TypeOf(zone.trans[p].index).off = Off(p)
  <2>1. ASSUME p > 0 PROVE p \in 1..N /\ p - 1 \in 0..N
    BY <1>1, <2>1
  <2> QED
    BY <2>1 DEF Rows, Off
<1>4. TypeOf(zone.default).off = Off(0) /\ Off(0) \in Int
  BY <1>1 DEF Rows, Off
<1>5. CASE Skipped(c, p)
  <2>1. p < N /\ MakePlaced(c, p) = MakeSkipped(zone.trans[p + 1], c)
    BY <1>1, <1>2, <1>5 DEF MakePlaced, Skipped, PrevAt
  <2>2. MakeSkipped(zone.trans[p + 1], c)
          = Lookup("skipped", TimeAt(p + 1) - 1 + (c - PrevAt(p + 1)), TimeAt(p + 1),
                   TimeAt(p + 1) - (CivilAt(p + 1) - c))
    BY DEF MakeSkipped, TimeAt, PrevAt, CivilAt
  <2>3. TimeAt(p + 1) - 1 + (c - PrevAt(p + 1)) = c - Off(p) /\ TimeAt(p + 1) - (CivilAt(p + 1) - c) = c - Off(p + 1)
    BY <1>2, <2>1
  <2> QED
    BY <1>5, <2>1, <2>2, <2>3 DEF Repeated
<1>6. CASE ~Skipped(c, p) /\ p = 0
  <2>1. PrevAt(p + 1) >= c
    BY <1>1, <1>2, <1>6 DEF Skipped
  <2>2. MakePlaced(c, p)
          = MakeUnique(IF c < MinTime + TypeOf(zone.default).off THEN MinTime
                       ELSE c - TypeOf(zone.default).off)
    BY <1>1, <1>2, <1>6, <2>1 DEF MakePlaced, PrevAt
  <2> QED
    BY <1>4, <1>6, <2>2 DEF Repeated
<1>7. CASE Repeated(c, p)
  <2>1. p > 0 /\ ~(p < N /\ PrevAt(p + 1) < c) /\ c <= PrevAt(p)
    BY <1>7 DEF Repeated, Skipped
  <2>2. MakePlaced(c, p) = MakeRepeated(zone.trans[p], c)
    BY <1>1, <1>2, <1>3, <2>1 DEF MakePlaced, PrevAt
  <2>3. MakeRepeated(zone.trans[p], c)
          = Lookup("repeated", TimeAt(p) - 1 - (PrevAt(p) - c), TimeAt(p), TimeAt(p) + (c - CivilAt(p)))
    BY DEF MakeRepeated, TimeAt, PrevAt, CivilAt
  <2>4. TimeAt(p) - 1 - (PrevAt(p) - c) = c - Off(p - 1) /\ TimeAt(p) + (c - CivilAt(p)) = c - Off(p)
    BY <1>3, <2>1
  <2> QED
    BY <1>1, <1>7, <2>1, <2>2, <2>3, <2>4 DEF Repeated
<1>8. CASE ~Skipped(c, p) /\ ~Repeated(c, p) /\ p > 0
  <2>1. p > 0 /\ ~(p < N /\ PrevAt(p + 1) < c) /\ c > PrevAt(p)
    BY <1>3, <1>8 DEF Repeated, Skipped
  <2>2. CASE p = N /\ c > MaxTime + Off(N)
    <3>1. MakePlaced(c, p) = MakeUnique(MaxTime)
      BY <1>1, <1>3, <2>1, <2>2 DEF MakePlaced, PrevAt
    <3> QED
      BY <1>1, <1>8, <2>2, <3>1
  <2>3. CASE ~(p = N /\ c > MaxTime + Off(N))
    <3>1. MakePlaced(c, p) = MakeUnique(TimeAt(p) + (c - CivilAt(p)))
      BY <1>1, <1>3, <2>1, <2>3 DEF MakePlaced, PrevAt, TimeAt, CivilAt
    <3>2. TimeAt(p) + (c - CivilAt(p)) = c - Off(p)
      BY <1>3, <2>1
    <3> QED
      BY <1>1, <1>8, <2>3, <3>1, <3>2
  <2> QED
    BY <2>2, <2>3
<1> QED
  BY <1>1, <1>5, <1>6, <1>7, <1>8

\* MakeTime describes a civil second within the table exactly.
LEMMA PlacedExact ==
  ASSUME Exactly, NEW c \in Int, NEW p, At(c, p), zone.extended => c < PastTable
  PROVE  Describes(c, MakePlaced(c, p))
<1> DEFINE a == MakePlaced(c, p)
           D == SecsPerDay
<1>1. Rows /\ Repeats /\ Told /\ Regular(zone)
  BY DEF Exactly
<1>2. /\ N \in Nat \ {0} /\ D \in Nat /\ MinTime \in Int /\ MaxTime \in Int /\ BigBang \in Int
      /\ MinTime + 2 * D <= BigBang
      /\ \A q \in 0..N : Off(q) \in Int /\ Typ(q).off = Off(q) /\ -D <= Off(q) /\ Off(q) <= D
      /\ \A i \in 1..N : /\ TimeAt(i) \in Int /\ CivilAt(i) \in Int /\ PrevAt(i) \in Int
                         /\ CivilAt(i) = TimeAt(i) + Off(i) /\ PrevAt(i) = TimeAt(i) + Off(i - 1) - 1
                         /\ BigBang <= TimeAt(i) /\ TimeAt(i) + 2 * D <= MaxTime
      /\ \A i \in 1..N - 1 : PrevAt(i) <= PrevAt(i + 1)
  BY <1>1, RegularRows
<1> HIDE DEF D
<1>3. /\ p \in 0..N /\ (p > 0 => CivilAt(p) <= c) /\ (p < N => c < CivilAt(p + 1))
  <2>1. p \in 0..N /\ (\A i \in 1..p : CivilAt(i) <= c) /\ (p < N => c < CivilAt(p + 1))
    BY DEF At
  <2>2. p > 0 => p \in 1..p
    BY <2>1
  <2> QED
    BY <2>1, <2>2
<1>4. /\ Skipped(c, p) => a = Lookup("skipped", c - Off(p), TimeAt(p + 1), c - Off(p + 1))
      /\ Repeated(c, p) => a = Lookup("repeated", c - Off(p - 1), TimeAt(p), c - Off(p))
      /\ ~Skipped(c, p) /\ p = 0 => a = MakeUnique(IF c < MinTime + Off(0) THEN MinTime ELSE c - Off(0))
      /\ ~Skipped(c, p) /\ ~Repeated(c, p) /\ p > 0 =>
           a = MakeUnique(IF p = N /\ c > MaxTime + Off(N) THEN MaxTime ELSE c - Off(p))
  BY <1>1, <1>3, PlacedIs
<1> HIDE DEF a
<1>5. \A t \in Int : Shows(t, c) <=> \/ t = c - Off(p) /\ (p < N => c <= PrevAt(p + 1))
                                     \/ p > 0 /\ t = c - Off(p - 1) /\ c <= PrevAt(p)
  BY ShownAt
<1>6. p < N => /\ p + 1 \in 1..N /\ TimeAt(p + 1) \in Int /\ Off(p + 1) \in Int /\ Off(p) \in Int
               /\ CivilAt(p + 1) = TimeAt(p + 1) + Off(p + 1)
               /\ PrevAt(p + 1) = TimeAt(p + 1) + Off(p) - 1 /\ PrevAt(p + 1) \in Int
               /\ BigBang <= TimeAt(p + 1) /\ TimeAt(p + 1) + 2 * D <= MaxTime
               /\ -D <= Off(p + 1) /\ Off(p + 1) <= D /\ -D <= Off(p) /\ Off(p) <= D
  <2>1. ASSUME p < N
        PROVE  /\ p + 1 \in 1..N /\ TimeAt(p + 1) \in Int /\ Off(p + 1) \in Int /\ Off(p) \in Int
               /\ CivilAt(p + 1) = TimeAt(p + 1) + Off(p + 1)
               /\ PrevAt(p + 1) = TimeAt(p + 1) + Off(p) - 1 /\ PrevAt(p + 1) \in Int
               /\ BigBang <= TimeAt(p + 1) /\ TimeAt(p + 1) + 2 * D <= MaxTime
               /\ -D <= Off(p + 1) /\ Off(p + 1) <= D /\ -D <= Off(p) /\ Off(p) <= D
    <3>1. PICK i \in 1..N : i = p + 1 /\ i - 1 = p /\ i \in 0..N
      BY <1>2, <1>3, <2>1
    <3>2. /\ TimeAt(i) \in Int /\ CivilAt(i) = TimeAt(i) + Off(i) /\ PrevAt(i) = TimeAt(i) + Off(i - 1) - 1
          /\ PrevAt(i) \in Int /\ BigBang <= TimeAt(i) /\ TimeAt(i) + 2 * D <= MaxTime
          /\ Off(i) \in Int /\ -D <= Off(i) /\ Off(i) <= D
      BY <1>2, <3>1
    <3>3. Off(p) \in Int /\ -D <= Off(p) /\ Off(p) <= D
      BY <1>2, <1>3
    <3> QED
      BY <3>1, <3>2, <3>3
  <2> QED
    BY <2>1
<1>7. p > 0 => /\ p \in 1..N /\ TimeAt(p) \in Int /\ Off(p) \in Int /\ Off(p - 1) \in Int
               /\ CivilAt(p) = TimeAt(p) + Off(p) /\ PrevAt(p) = TimeAt(p) + Off(p - 1) - 1
               /\ BigBang <= TimeAt(p) /\ TimeAt(p) + 2 * D <= MaxTime
               /\ -D <= Off(p) /\ Off(p) <= D /\ -D <= Off(p - 1) /\ Off(p - 1) <= D
  <2>1. ASSUME p > 0 PROVE p \in 1..N /\ p \in 0..N /\ p - 1 \in 0..N
    BY <1>2, <1>3, <2>1
  <2> QED
    BY <1>2, <2>1
<1>8. CASE Skipped(c, p)
  <2> DEFINE t == TimeAt(p + 1)
  <2>1. p < N /\ PrevAt(p + 1) < c /\ c < CivilAt(p + 1)
    BY <1>3, <1>8 DEF Skipped
  <2>2. ASSUME NEW u \in Int PROVE ~Shows(u, c)
    <3>1. ~(c <= PrevAt(p + 1))
      BY <1>6, <2>1
    <3>2. ~(p > 0 /\ c <= PrevAt(p))
      <4> SUFFICES ASSUME p > 0, c <= PrevAt(p) PROVE FALSE
        OBVIOUS
      <4>1. p \in 1..N - 1 /\ p \in 1..N
        BY <1>2, <1>3, <2>1
      <4>2. PrevAt(p) <= PrevAt(p + 1) /\ PrevAt(p) \in Int
        BY <1>2, <4>1
      <4> QED
        BY <1>6, <2>1, <4>2
    <3> QED
      BY <1>5, <2>1, <3>1, <3>2
  <2>3. TypeAt(t) = Typ(p + 1)
    <3> DEFINE q == p + 1
    <3>1. q \in 0..N /\ q \in 1..N /\ q > 0 /\ t \in Int /\ t = TimeAt(q)
      BY <1>2, <1>3, <1>6, <2>1
    <3>2. q < N => t < TimeAt(q + 1)
      <4>1. ASSUME q < N PROVE TimeAt(q) < TimeAt(q + 1)
        <5>1. q + 1 \in 1..N /\ q < q + 1
          BY <1>2, <3>1, <4>1
        <5> QED
          BY <1>1, <3>1, <5>1, RowsRise
      <4> QED
        BY <3>1, <4>1
    <3> HIDE DEF q, t
    <3>3. UpTo(t, q)
      <4>1. TimeAt(q) <= t
        BY <3>1
      <4> QED
        BY <1>1, <3>1, <3>2, <4>1, PlacedAt
    <3>4. ~(zone.extended /\ q = N /\ PastTable <= t + Off(N))
      <4> SUFFICES ASSUME zone.extended, q = N, PastTable <= t + Off(N) PROVE FALSE
        OBVIOUS
      <4>1. CivilAt(N) < PastTable /\ CivilAt(N) \in Int /\ PastTable \in Int
        BY <1>1, PastFacts
      <4>2. CivilAt(N) = t + Off(N)
        BY <1>2, <3>1
      <4> QED
        BY <4>1, <4>2
    <3> QED
      BY <3>1, <3>3, <3>4, InForce DEF q
  <2>4. TypeAt(t - 1) = Typ(p)
    <3>1. t \in Int /\ t - 1 \in Int /\ t - 1 < TimeAt(p + 1)
      BY <1>6, <2>1
    <3>2. p > 0 => TimeAt(p) <= t - 1
      <4>1. ASSUME p > 0 PROVE TimeAt(p) <= t - 1
        <5>1. p \in 1..N /\ p + 1 \in 1..N /\ p < p + 1
          BY <1>2, <1>3, <2>1, <4>1
        <5>2. TimeAt(p) < TimeAt(p + 1) /\ TimeAt(p) \in Int
          BY <1>1, <1>2, <5>1, RowsRise
        <5> QED
          BY <1>6, <2>1, <5>2
      <4> QED
        BY <4>1
    <3> DEFINE s == t - 1
    <3>3. s \in Int /\ s < TimeAt(p + 1) /\ (p > 0 => TimeAt(p) <= s)
      BY <3>1, <3>2
    <3> HIDE DEF s
    <3>4. UpTo(s, p)
      BY <1>1, <1>3, <3>3, PlacedAt
    <3>5. TypeAt(s) = Typ(p)
      BY <1>1, <1>3, <2>1, <3>3, <3>4 DEF Told
    <3> QED
      BY <3>5 DEF s
  <2>5. TypeAt(t).off = Off(p + 1) /\ TypeAt(t - 1).off = Off(p)
    <3>1. p + 1 \in 0..N
      BY <1>2, <1>3, <2>1
    <3> QED
      BY <1>2, <1>3, <2>3, <2>4, <3>1
  <2>6. t \in Int /\ Off(p) \in Int /\ Off(p + 1) \in Int
    BY <1>6, <2>1
  <2>7. Skips(t, c)
    <3>1. t - 1 + Off(p) < c /\ c < t + Off(p + 1)
      BY <1>6, <2>1
    <3> HIDE DEF t
    <3> QED
      BY <2>5, <3>1 DEF Skips
  <2>8. a.kind = "skipped" /\ a.pre = c - Off(p) /\ a.trans = t /\ a.post = c - Off(p + 1)
    BY <1>4, <1>8 DEF Lookup
  <2>9. Capped(c - Off(p)) = c - Off(p) /\ Capped(t) = t /\ Capped(c - Off(p + 1)) = c - Off(p + 1)
    <3> DEFINE x == c - Off(p)
               y == c - Off(p + 1)
    <3>1. /\ x \in Int /\ MinTime <= x /\ x <= MaxTime
          /\ y \in Int /\ MinTime <= y /\ y <= MaxTime
          /\ MinTime <= t /\ t <= MaxTime
      BY <1>2, <1>6, <2>1
    <3> HIDE DEF x, y, t
    <3>2. Capped(x) = x /\ Capped(y) = y /\ Capped(t) = t
      BY <1>2, <2>6, <3>1 DEF Capped
    <3> QED
      BY <3>2 DEF x, y
  <2> HIDE DEF t
  <2>10. Never(c, a, t)
    BY <2>2, <2>5, <2>7, <2>8, <2>9 DEF Never
  <2> QED
    BY <2>6, <2>8, <2>10 DEF Describes, a
<1>9. CASE Repeated(c, p)
  <2> DEFINE e == c - Off(p - 1)
             l == c - Off(p)
             m == TimeAt(p)
  <2>1. p > 0 /\ c <= PrevAt(p) /\ CivilAt(p) <= c /\ (p < N => c <= PrevAt(p + 1))
    BY <1>3, <1>6, <1>9 DEF Repeated, Skipped
  <2>2. /\ e \in Int /\ l \in Int /\ m \in Int /\ e < m /\ m <= l
        /\ MinTime <= e /\ l <= MaxTime
    BY <1>2, <1>7, <2>1
  <2>3. \A t \in Int : Shows(t, c) <=> t = e \/ t = l
    BY <1>5, <2>1
  <2>4. a.kind = "repeated" /\ a.pre = e /\ a.trans = m /\ a.post = l
    BY <1>4, <1>9 DEF Lookup
  <2> HIDE DEF e, l, m
  <2>5. Capped(e) = e /\ Capped(m) = m /\ Capped(l) = l
    BY <1>2, <2>2 DEF Capped
  <2>6. Twice(c, a, e, m, l)
    BY <2>2, <2>3, <2>4, <2>5 DEF Twice
  <2> QED
    BY <2>2, <2>4, <2>6 DEF Describes, a
<1>10. CASE ~Skipped(c, p) /\ p = 0
  <2> DEFINE e == c - Off(0)
             v == IF c < MinTime + Off(0) THEN MinTime ELSE c - Off(0)
  <2>1. p < N /\ c <= PrevAt(p + 1)
    BY <1>2, <1>6, <1>10 DEF Skipped
  <2>2. e \in Int /\ e <= MaxTime /\ Off(0) \in Int
    BY <1>2, <1>6, <1>10, <2>1
  <2>3. \A t \in Int : Shows(t, c) <=> t = e
    BY <1>5, <1>10, <2>1
  <2>4. a.kind = "unique" /\ a.pre = v /\ a.trans = v /\ a.post = v
    BY <1>4, <1>10 DEF MakeUnique, Lookup
  <2>5. v = Capped(e)
    BY <1>2, <2>2 DEF Capped
  <2> HIDE DEF e, v
  <2>6. Once(c, a, e)
    BY <2>3, <2>4, <2>5 DEF Once
  <2> QED
    BY <2>2, <2>4, <2>6 DEF Describes, a
<1>11. CASE ~Skipped(c, p) /\ ~Repeated(c, p) /\ p > 0
  <2> DEFINE e == c - Off(p)
             v == IF p = N /\ c > MaxTime + Off(N) THEN MaxTime ELSE c - Off(p)
  <2>1. (p < N => c <= PrevAt(p + 1)) /\ ~(c <= PrevAt(p)) /\ CivilAt(p) <= c
    BY <1>3, <1>6, <1>11 DEF Skipped, Repeated
  <2>2. e \in Int /\ MinTime <= e /\ (p < N => e <= MaxTime)
    BY <1>2, <1>6, <1>7, <1>11, <2>1
  <2>3. \A t \in Int : Shows(t, c) <=> t = e
    BY <1>5, <2>1
  <2>4. a.kind = "unique" /\ a.pre = v /\ a.trans = v /\ a.post = v
    BY <1>4, <1>11 DEF MakeUnique, Lookup
  <2>5. v = Capped(e)
    <3>1. Off(p) \in Int /\ (p = N \/ p < N)
      BY <1>2, <1>3
    <3> QED
      BY <1>2, <2>2, <3>1 DEF Capped
  <2> HIDE DEF e, v
  <2>6. Once(c, a, e)
    BY <2>3, <2>4, <2>5 DEF Once
  <2> QED
    BY <2>2, <2>4, <2>6 DEF Describes, a
<1> QED
  BY <1>3, <1>8, <1>9, <1>10, <1>11

\* The types go on repeating after any number of cycles.
LEMMA TypesRepeat ==
  ASSUME Exactly, zone.extended, NEW t \in Int, TimeAt(N) - CycleSecs <= t, NEW k \in Nat
  PROVE  TypeAt(t + k * CycleSecs) = TypeAt(t)
<1>1. Rows /\ Repeats /\ Told
  BY DEF Exactly
<1>2. CycleSecs \in Nat \ {0} /\ TimeAt(N) \in Int
  <2>1. N \in 1..N
    BY <1>1 DEF Rows
  <2> QED
    BY <1>1, <2>1, YearsRise DEF Rows
<1> DEFINE M == {n \in Nat : TypeAt(t + n * CycleSecs) = TypeAt(t)}
<1>3. 0 \in M
  <2>1. t + 0 * CycleSecs = t
    BY <1>2
  <2> QED
    BY <2>1
<1>4. ASSUME NEW n \in Nat, n \in M PROVE n + 1 \in M
  <2> DEFINE u == t + n * CycleSecs
  <2>1. n * CycleSecs \in Nat /\ (n + 1) * CycleSecs = n * CycleSecs + CycleSecs
    BY <1>2
  <2>2. u \in Int /\ TimeAt(N) - CycleSecs <= u /\ t + (n + 1) * CycleSecs = u + CycleSecs
    BY <1>2, <2>1
  <2>3. TypeAt(u) = TypeAt(t)
    BY <1>4
  <2> HIDE DEF u
  <2>4. TypeAt(u + CycleSecs) = TypeAt(u)
    BY <1>1, <2>2 DEF Told
  <2> QED
    BY <2>2, <2>3, <2>4
<1> HIDE DEF M
<1>5. k \in M
  BY <1>3, <1>4, Induct
<1> QED
  BY <1>5 DEF M

\* From a cycle before the end of the table on, the clock shows the same in every cycle.
LEMMA ShowsRepeat ==
  ASSUME Exactly, zone.extended, NEW c \in Int, PastTable - CycleSecs <= c, NEW k \in Nat,
         NEW x \in ZoneTypes
  PROVE  /\ c - x.off \in Int /\ TimeAt(N) - CycleSecs < c - x.off
         /\ \A t \in Int : Shows(t + k * CycleSecs, c + k * CycleSecs) <=> Shows(t, c)
<1>1. Rows /\ Repeats /\ Told /\ Regular(zone)
  BY DEF Exactly
<1>2. CycleSecs \in Nat \ {0} /\ TimeAt(N) \in Int /\ PastTable \in Int
  <2>1. N \in 1..N
    BY <1>1 DEF Rows
  <2> QED
    BY <1>1, <2>1, YearsRise, PastFacts DEF Rows
<1>3. ASSUME NEW y \in ZoneTypes PROVE c - y.off \in Int /\ TimeAt(N) - CycleSecs < c - y.off
  <2>1. y.off \in Int
    BY <1>1, RegularRows
  <2>2. TimeAt(N) + y.off < PastTable
    BY <1>1 DEF Told
  <2> QED
    BY <1>2, <2>1, <2>2
<1>4. ASSUME NEW t \in Int PROVE Shows(t + k * CycleSecs, c + k * CycleSecs) <=> Shows(t, c)
  <2> DEFINE s == k * CycleSecs
             y == TypeAt(t)
             z == TypeAt(t + s)
  <2>1. s \in Int
    BY <1>2
  <2>2. y \in ZoneTypes /\ z \in ZoneTypes
    <3>1. t + s \in Int
      BY <2>1
    <3> HIDE DEF s
    <3> QED
      BY <1>1, <3>1 DEF Told
  <2>3. y.off \in Int /\ z.off \in Int
    BY <1>1, <2>2, RegularRows
  <2>4. TimeAt(N) - CycleSecs <= t => z = y
    BY TypesRepeat
  <2>5. TimeAt(N) - CycleSecs < c - y.off /\ TimeAt(N) - CycleSecs < c - z.off
    BY <1>3, <2>2
  <2> HIDE DEF s, y, z
  <2>6. t + s + z.off = c + s <=> t + y.off = c
    <3>1. CASE TimeAt(N) - CycleSecs <= t
      BY <2>1, <2>3, <2>4, <3>1
    <3>2. CASE t < TimeAt(N) - CycleSecs
      BY <1>2, <2>1, <2>3, <2>5, <3>2
    <3> QED
      BY <1>2, <3>1, <3>2
  <2> QED
    BY <2>6 DEF Shows, s, y, z
<1> QED
  BY <1>3, <1>4

\* TimeLocal moves a time after 1970 forward, up to the largest.
LEMMA Forwarded ==
  ASSUME NEW x \in Int, 0 <= x, NEW k \in Nat \ {0}
  PROVE  Forward(Capped(x), k) = Capped(x + k * CycleSecs)
<1> DEFINE s == k * CycleSecs
           q == MaxTime \div CycleSecs
<1>1. CycleSecs \in Nat \ {0} /\ MaxTime \in Int /\ MinTime \in Int /\ MinTime < 0 /\ 0 < MaxTime
  BY YearsRise, TimesAssumption
<1>2. q \in Int /\ MaxTime = CycleSecs * q + (MaxTime % CycleSecs) /\ MaxTime % CycleSecs \in 0..CycleSecs - 1
  BY <1>1, Division
<1>3. s \in Nat /\ s > 0 /\ s = CycleSecs * k
  BY <1>1
<1>4. k > q => s > MaxTime
  <2> SUFFICES ASSUME k > q PROVE s > MaxTime
    OBVIOUS
  <2> HIDE DEF q
  <2>1. CycleSecs * q + CycleSecs <= CycleSecs * k /\ CycleSecs * q \in Int
    BY <1>1, <1>2, MulMono
  <2> HIDE DEF s
  <2> QED
    BY <1>1, <1>2, <1>3, <2>1
<1>5. Forward(Capped(x), k) = IF k > q \/ Capped(x) > MaxTime - s THEN MaxTime ELSE Capped(x) + s
  BY DEF Forward
<1> HIDE DEF s, q
<1>6. Capped(x) = IF x > MaxTime THEN MaxTime ELSE x
  BY <1>1 DEF Capped
<1>7. Capped(x + s) = IF x + s > MaxTime THEN MaxTime ELSE x + s
  BY <1>1, <1>3 DEF Capped
<1>8. Forward(Capped(x), k) = Capped(x + s)
  BY <1>1, <1>3, <1>4, <1>5, <1>6, <1>7
<1> QED
  BY <1>8 DEF s

\* An answer from the last cycle of the table, moved forward, is exact as well.
LEMMA ShiftedExact ==
  ASSUME Exactly, zone.extended, NEW c \in Int, PastTable - CycleSecs <= c, NEW k \in Nat \ {0},
         NEW cl, Describes(c, cl)
  PROVE  Describes(c + k * CycleSecs, TimeLocal(cl, k))
<1> DEFINE s == k * CycleSecs
           d == c + s
           f == TimeLocal(cl, k)
<1>1. Rows /\ Repeats /\ Told /\ Regular(zone)
  BY DEF Exactly
<1>2. CycleSecs \in Nat \ {0} /\ TimeAt(N) \in Int /\ PastTable \in Int /\ CycleSecs <= TimeAt(N)
      /\ MinTime \in Int
  <2>1. N \in 1..N
    BY <1>1 DEF Rows
  <2> QED
    BY <1>1, <2>1, YearsRise, PastFacts, RegularRows DEF Rows
<1>3. s \in Nat /\ d \in Int
  BY <1>2
<1>4. \A x \in ZoneTypes : c - x.off \in Int /\ TimeAt(N) - CycleSecs < c - x.off /\ x.off \in Int
  <2>1. \A x \in ZoneTypes : x.off \in Int
    BY <1>1, RegularRows
  <2> QED
    BY <2>1, ShowsRepeat
<1>5. \A t \in Int : TypeAt(t) \in ZoneTypes
  BY <1>1 DEF Told
<1>6. \A t \in Int : Shows(t + s, d) <=> Shows(t, c)
  <2>1. \E x : x \in ZoneTypes
    <3>1. 0 \in Int
      OBVIOUS
    <3> QED
      BY <1>5, <3>1
  <2> QED
    BY <2>1, ShowsRepeat
<1>7. f.kind = cl.kind /\ f.pre = Forward(cl.pre, k) /\ f.trans = Forward(cl.trans, k) /\ f.post = Forward(cl.post, k)
  BY DEF TimeLocal, Lookup, Forward
<1>8. \A x \in Int : 0 <= x => Forward(Capped(x), k) = Capped(x + s)
  BY Forwarded
<1>9. ASSUME NEW t \in Int, Shows(t, c) PROVE 0 <= t
  <2>1. TypeAt(t) \in ZoneTypes /\ t + TypeAt(t).off = c
    BY <1>5, <1>9 DEF Shows
  <2>2. TimeAt(N) - CycleSecs < c - TypeAt(t).off /\ TypeAt(t).off \in Int
    BY <1>4, <2>1
  <2> QED
    BY <1>2, <2>1, <2>2
<1>10. ASSUME NEW t \in Int PROVE Shows(t, d) <=> Shows(t - s, c)
  <2> DEFINE u == t - s
  <2>1. u \in Int /\ u + s = t
    BY <1>3
  <2> HIDE DEF u, s
  <2>2. Shows(u + s, d) <=> Shows(u, c)
    BY <1>6, <2>1
  <2> QED
    BY <2>1, <2>2 DEF u
<1> HIDE DEF s, d, f
<1>11. CASE cl.kind = "unique" /\ \E e \in Int : Once(c, cl, e)
  <2>1. PICK e \in Int : Once(c, cl, e)
    BY <1>11
  <2>2. (\A t \in Int : Shows(t, c) <=> t = e) /\ cl.pre = Capped(e) /\ cl.trans = Capped(e) /\ cl.post = Capped(e)
    BY <2>1 DEF Once
  <2>3. 0 <= e /\ e + s \in Int
    BY <1>3, <1>9, <2>2
  <2>4. ASSUME NEW t \in Int PROVE Shows(t, d) <=> t = e + s
    <3>1. t - s \in Int /\ (t - s = e <=> t = e + s)
      BY <1>3
    <3> QED
      BY <1>10, <2>2, <3>1
  <2>5. Once(d, f, e + s)
    BY <1>7, <1>8, <2>2, <2>3, <2>4 DEF Once
  <2> QED
    BY <1>7, <1>11, <2>3, <2>5 DEF Describes, d, f, s
<1>12. CASE cl.kind = "repeated" /\ \E e, m, l \in Int : Twice(c, cl, e, m, l)
  <2>1. PICK e \in Int, m \in Int, l \in Int : Twice(c, cl, e, m, l)
    BY <1>12
  <2>2. /\ e < l /\ e <= m /\ m <= l /\ MinTime <= e
        /\ \A t \in Int : Shows(t, c) <=> t = e \/ t = l
        /\ cl.pre = Capped(e) /\ cl.trans = Capped(m) /\ cl.post = Capped(l)
    BY <2>1 DEF Twice
  <2>3. 0 <= e /\ 0 <= m /\ 0 <= l /\ e + s \in Int /\ m + s \in Int /\ l + s \in Int
    BY <1>3, <1>9, <2>2
  <2>4. ASSUME NEW t \in Int PROVE Shows(t, d) <=> t = e + s \/ t = l + s
    <3>1. t - s \in Int /\ (t - s = e <=> t = e + s) /\ (t - s = l <=> t = l + s)
      BY <1>3
    <3> QED
      BY <1>10, <2>2, <3>1
  <2>5. e + s < l + s /\ e + s <= m + s /\ m + s <= l + s /\ MinTime <= e + s
    BY <1>2, <1>3, <2>2
  <2>6. Twice(d, f, e + s, m + s, l + s)
    BY <1>7, <1>8, <2>2, <2>3, <2>4, <2>5 DEF Twice
  <2> QED
    BY <1>7, <1>12, <2>3, <2>6 DEF Describes, d, f, s
<1>13. CASE cl.kind = "skipped" /\ \E t \in Int : Never(c, cl, t)
  <2>1. PICK t \in Int : Never(c, cl, t)
    BY <1>13
  <2> DEFINE a == TypeAt(t - 1)
             b == TypeAt(t)
  <2>2. /\ \A u \in Int : ~Shows(u, c)
        /\ t - 1 + a.off < c /\ c < t + b.off
        /\ cl.pre = Capped(c - a.off) /\ cl.trans = Capped(t) /\ cl.post = Capped(c - b.off)
    BY <2>1 DEF Never, Skips
  <2>3. a \in ZoneTypes /\ b \in ZoneTypes
    <3>1. t - 1 \in Int
      OBVIOUS
    <3> QED
      BY <1>5, <3>1
  <2>4. /\ a.off \in Int /\ b.off \in Int /\ c - a.off \in Int /\ c - b.off \in Int
        /\ TimeAt(N) - CycleSecs < c - a.off /\ TimeAt(N) - CycleSecs < c - b.off
    BY <1>4, <2>3
  <2>5. TypeAt(t + s) = b /\ TypeAt(t - 1 + s) = a
    <3> DEFINE r == t - 1
    <3>1. r \in Int /\ TimeAt(N) - CycleSecs <= t /\ TimeAt(N) - CycleSecs <= r
      <4> HIDE DEF a, b
      <4> QED
        BY <1>2, <2>2, <2>4
    <3> HIDE DEF r
    <3>2. TypeAt(t + s) = TypeAt(t) /\ TypeAt(r + s) = TypeAt(r)
      BY <3>1, TypesRepeat DEF s
    <3> QED
      BY <3>2 DEF r
  <2> HIDE DEF a, b
  <2> DEFINE v == t + s
  <2>6. v \in Int /\ v - 1 = t - 1 + s /\ TypeAt(v) = b /\ TypeAt(v - 1) = a
    <3>1. v \in Int /\ v - 1 = t - 1 + s
      BY <1>3
    <3> QED
      BY <2>5, <3>1
  <2>7. 0 <= t /\ 0 <= c - a.off /\ 0 <= c - b.off
    BY <1>2, <2>2, <2>4
  <2>8. \A u \in Int : ~Shows(u, d)
    <3>1. \A u \in Int : u - s \in Int
      BY <1>3
    <3> QED
      BY <1>10, <2>2, <3>1
  <2>9. d = c + s
    BY DEF d
  <2>10. Skips(v, d)
    <3>1. v - 1 + a.off < d /\ d < v + b.off
      BY <1>3, <2>2, <2>4, <2>9
    <3> HIDE DEF v
    <3> QED
      BY <2>6, <3>1 DEF Skips
  <2>11. c - a.off + s = d - a.off /\ c - b.off + s = d - b.off
    BY <1>3, <2>4, <2>9
  <2>12. /\ f.pre = Capped(d - a.off) /\ f.trans = Capped(v) /\ f.post = Capped(d - b.off)
    BY <1>7, <1>8, <2>2, <2>4, <2>7, <2>11
  <2> HIDE DEF v
  <2>13. Never(d, f, v)
    BY <2>6, <2>8, <2>10, <2>12 DEF Never
  <2> QED
    BY <1>7, <1>13, <2>6, <2>13 DEF Describes, d, f, s
<1> QED
  BY <1>11, <1>12, <1>13 DEF Describes

\* Every answer of MakeTime describes the civil second it was asked about.
LEMMA MadeExact ==
  ASSUME Exactly, NEW cs \in Int, NEW a, MadeFor(cs, a)
  PROVE  Describes(cs, a)
<1> DEFINE k == MakeShift(cs)
           c == cs - k * CycleSecs
<1>1. Rows /\ Repeats
  BY DEF Exactly
<1>2. PICK p \in 0..N : At(c, p) /\ a = IF k = 0 THEN MakePlaced(c, p) ELSE TimeLocal(MakePlaced(c, p), k)
  BY DEF MadeFor
<1>3. /\ k \in Nat /\ (~zone.extended => k = 0)
      /\ zone.extended /\ k = 0 => cs < PastTable
      /\ zone.extended /\ k > 0 => PastTable - CycleSecs <= c /\ c < PastTable
  BY <1>1, ShiftOf
<1> HIDE DEF k
<1>4. CycleSecs \in Nat \ {0} /\ k * CycleSecs \in Int
  BY <1>3, YearsRise
<1>5. c \in Int /\ c + k * CycleSecs = cs /\ (k = 0 => c = cs)
  BY <1>3, <1>4
<1> HIDE DEF c
<1>6. zone.extended => c < PastTable
  BY <1>3, <1>5
<1>7. Describes(c, MakePlaced(c, p))
  BY <1>2, <1>5, <1>6, PlacedExact
<1>8. CASE k = 0
  BY <1>2, <1>5, <1>7, <1>8
<1>9. CASE k # 0
  <2>1. zone.extended /\ PastTable - CycleSecs <= c /\ k \in Nat \ {0}
    BY <1>3, <1>9
  <2> DEFINE cl == MakePlaced(c, p)
  <2>2. Describes(c, cl)
    BY <1>7
  <2> HIDE DEF cl
  <2>3. Describes(c + k * CycleSecs, TimeLocal(cl, k))
    BY <1>5, <2>1, <2>2, ShiftedExact
  <2> QED
    BY <1>2, <1>5, <1>9, <2>3 DEF cl
<1> QED
  BY <1>8, <1>9

\* The times that the properties search are all there are.
LEMMA ShowingIs ==
  ASSUME Exactly, NEW c \in Int
  PROVE  \A t : t \in TimesShowing(c) <=> t \in Int /\ Shows(t, c)
<1>1. Rows /\ Told /\ Regular(zone)
  BY DEF Exactly
<1>2. SecsPerDay \in Nat /\ \A x \in ZoneTypes : x.off \in Int /\ -SecsPerDay <= x.off /\ x.off <= SecsPerDay
  BY <1>1, RegularRows
<1>3. ASSUME NEW t \in Int, Shows(t, c) PROVE t \in c - SecsPerDay..c + SecsPerDay
  <2>1. TypeAt(t) \in ZoneTypes
    BY <1>1 DEF Told
  <2>2. TypeAt(t).off \in Int /\ -SecsPerDay <= TypeAt(t).off /\ TypeAt(t).off <= SecsPerDay
    BY <1>2, <2>1
  <2>3. t + TypeAt(t).off = c
    BY <1>3 DEF Shows
  <2> QED
    BY <1>2, <2>2, <2>3
<1>4. \A t \in c - SecsPerDay..c + SecsPerDay : t \in Int
  BY <1>2
<1> QED
  BY <1>3, <1>4 DEF TimesShowing, Shows

\* The part of MakeExact about one answer.
Precise(cs, cl) ==
  LET shown == TimesShowing(cs)
  IN  CASE cl.kind = "unique" -> shown # {} /\ Earliest(shown) = Latest(shown)
             /\ {cl.pre, cl.trans, cl.post} = {Capped(Earliest(shown))}
        [] cl.kind = "repeated" -> shown # {} /\ Earliest(shown) < Latest(shown)
             /\ cl.pre = Capped(Earliest(shown)) /\ cl.post = Capped(Latest(shown))
             /\ cl.pre <= cl.trans /\ cl.trans <= cl.post
        [] cl.kind = "skipped" -> shown = {}
             /\ \E t \in cs - SecsPerDay..cs + SecsPerDay :
                  /\ Skips(t, cs)
                  /\ cl.trans = Capped(t)
                  /\ cl.pre = Capped(cs - TypeAt(t - 1).off)
                  /\ cl.post = Capped(cs - TypeAt(t).off)

\* An answer that describes a civil second by its times is the one MakeExact asks for, and
\* convert() of it is the earliest time whose clock shows that civil second.
LEMMA DescribesPrecisely ==
  ASSUME Exactly, NEW cs \in Int, NEW cl, Describes(cs, cl)
  PROVE  /\ Precise(cs, cl)
         /\ \A t \in TimesShowing(cs) : MinTime <= t /\ t <= MaxTime => convert(cl) = Earliest(TimesShowing(cs))
<1> DEFINE S == TimesShowing(cs)
<1>1. Rows /\ Told /\ Regular(zone)
  BY DEF Exactly
<1>2. /\ SecsPerDay \in Nat /\ MinTime \in Int /\ MaxTime \in Int
      /\ \A x \in ZoneTypes : x.off \in Int /\ -SecsPerDay <= x.off /\ x.off <= SecsPerDay
  BY <1>1, RegularRows
<1>3. \A t : t \in S <=> t \in Int /\ Shows(t, cs)
  BY ShowingIs
<1> HIDE DEF S
<1>4. CASE cl.kind = "unique" /\ \E e \in Int : Once(cs, cl, e)
  <2>1. PICK e \in Int : Once(cs, cl, e)
    BY <1>4
  <2>2. (\A t \in Int : Shows(t, cs) <=> t = e) /\ cl.pre = Capped(e) /\ cl.trans = Capped(e) /\ cl.post = Capped(e)
    BY <2>1 DEF Once
  <2>3. S = {e}
    BY <1>3, <2>2
  <2>4. Earliest(S) = e /\ Latest(S) = e
    BY <2>3 DEF Earliest, Latest
  <2>5. Precise(cs, cl)
    BY <1>4, <2>2, <2>3, <2>4 DEF Precise, S
  <2>6. ASSUME MinTime <= e, e <= MaxTime PROVE convert(cl) = e
    <3>1. Capped(e) = e
      BY <1>2, <2>6 DEF Capped
    <3> QED
      BY <1>4, <2>2, <3>1 DEF convert
  <2> QED
    BY <2>3, <2>4, <2>5, <2>6 DEF S
<1>5. CASE cl.kind = "repeated" /\ \E e, m, l \in Int : Twice(cs, cl, e, m, l)
  <2>1. PICK e \in Int, m \in Int, l \in Int : Twice(cs, cl, e, m, l)
    BY <1>5
  <2>2. /\ e < l /\ e <= m /\ m <= l /\ MinTime <= e
        /\ \A t \in Int : Shows(t, cs) <=> t = e \/ t = l
        /\ cl.pre = Capped(e) /\ cl.trans = Capped(m) /\ cl.post = Capped(l)
    BY <2>1 DEF Twice
  <2>3. S = {e, l}
    BY <1>3, <2>2
  <2>4. Earliest(S) = e
    <3>1. e \in S /\ \A u \in S : e <= u
      BY <2>2, <2>3
    <3>2. \A t \in S : (\A u \in S : t <= u) => t = e
      BY <2>2, <2>3
    <3> QED
      BY <3>1, <3>2 DEF Earliest
  <2>5. Latest(S) = l
    <3>1. l \in S /\ \A u \in S : u <= l
      BY <2>2, <2>3
    <3>2. \A t \in S : (\A u \in S : u <= t) => t = l
      BY <2>2, <2>3
    <3> QED
      BY <3>1, <3>2 DEF Latest
  <2>6. Capped(e) <= Capped(m) /\ Capped(m) <= Capped(l)
    BY <1>2, <2>2 DEF Capped
  <2>7. Precise(cs, cl)
    BY <1>5, <2>2, <2>3, <2>4, <2>5, <2>6 DEF Precise, S
  <2>8. ASSUME NEW t \in S, t <= MaxTime PROVE convert(cl) = e
    <3>1. e <= MaxTime
      BY <1>2, <2>2, <2>3, <2>8
    <3>2. Capped(e) = e
      BY <1>2, <2>2, <3>1 DEF Capped
    <3> QED
      BY <1>5, <2>2, <3>2 DEF convert
  <2> QED
    BY <2>4, <2>7, <2>8 DEF S
<1>6. CASE cl.kind = "skipped" /\ \E t \in Int : Never(cs, cl, t)
  <2>1. PICK t \in Int : Never(cs, cl, t)
    BY <1>6
  <2>2. /\ \A u \in Int : ~Shows(u, cs)
        /\ Skips(t, cs) /\ cl.pre = Capped(cs - TypeAt(t - 1).off) /\ cl.trans = Capped(t)
        /\ cl.post = Capped(cs - TypeAt(t).off)
    BY <2>1 DEF Never
  <2>3. S = {}
    BY <1>3, <2>2
  <2>4. t \in cs - SecsPerDay..cs + SecsPerDay
    <3> DEFINE a == TypeAt(t - 1)
               b == TypeAt(t)
    <3>1. t - 1 + a.off < cs /\ cs < t + b.off
      BY <2>2 DEF Skips
    <3>2. a \in ZoneTypes /\ b \in ZoneTypes
      <4>1. t - 1 \in Int
        OBVIOUS
      <4> QED
        BY <1>1, <4>1 DEF Told
    <3> HIDE DEF a, b
    <3>3. /\ a.off \in Int /\ -SecsPerDay <= a.off /\ a.off <= SecsPerDay
          /\ b.off \in Int /\ -SecsPerDay <= b.off /\ b.off <= SecsPerDay
      BY <1>2, <3>2
    <3> QED
      BY <1>2, <3>1, <3>3
  <2>5. Precise(cs, cl)
    <3>1. \E u \in cs - SecsPerDay..cs + SecsPerDay :
                  /\ Skips(u, cs)
                  /\ cl.trans = Capped(u)
                  /\ cl.pre = Capped(cs - TypeAt(u - 1).off)
                  /\ cl.post = Capped(cs - TypeAt(u).off)
      BY <2>2, <2>4
    <3> QED
      BY <1>6, <2>3, <3>1 DEF Precise, S
  <2> QED
    BY <2>3, <2>5 DEF S
<1> QED
  BY <1>4, <1>5, <1>6 DEF Describes

\* BreakTime with the right place gives the local time that the source says.
LEMMA BreaksExactly ==
  ASSUME Exactly, NEW t \in Int, NEW place,
         BreakSearches(t) => place \in 0..N /\ UpTo(t - BreakShift(t) * CycleSecs, place)
  PROVE  BreakAnswer(t, place) = LocalTimeOfType(t, TypeAt(t))
<1> DEFINE k == BreakShift(t)
           u == t - k * CycleSecs
           q == (t - TimeAt(N)) \div CycleSecs
<1>1. Rows /\ Repeats /\ Told /\ Regular(zone)
  BY DEF Exactly
<1>2. /\ N \in Nat \ {0} /\ CycleSecs \in Nat \ {0} /\ 1 \in 1..N /\ N \in 1..N
      /\ \A p \in 0..N : Off(p) \in Int /\ Typ(p).off = Off(p)
      /\ \A i \in 1..N : TimeAt(i) \in Int /\ CivilAt(i) = TimeAt(i) + Off(i)
  <2>1. N \in Nat \ {0}
    BY <1>1, RegularRows
  <2>2. 1 \in 1..N /\ N \in 1..N
    BY <2>1
  <2> QED
    BY <1>1, <2>1, <2>2, RegularRows, YearsRise
<1>3. TimeAt(1) \in Int /\ TimeAt(N) \in Int
  BY <1>2
<1>4. k = IF t >= TimeAt(N) /\ zone.extended THEN q + 1 ELSE 0
  BY DEF BreakShift
<1>5. LET r == (t - TimeAt(N)) % CycleSecs IN
      q \in Int /\ r \in 0..CycleSecs - 1 /\ t - TimeAt(N) = CycleSecs * q + r
  <2>1. t - TimeAt(N) \in Int
    BY <1>3
  <2> QED
    BY <1>2, <2>1, Division
<1> HIDE DEF k, q
\* The time is moved into the last cycle of the table, where the same type is in force.
<1>6. /\ k \in Nat /\ u \in Int /\ u + k * CycleSecs = t /\ k * CycleSecs \in Int
      /\ ~(t >= TimeAt(N) /\ zone.extended) => u = t
      /\ t >= TimeAt(N) /\ zone.extended => TimeAt(N) - CycleSecs <= u /\ u < TimeAt(N)
  <2>1. CASE ~(t >= TimeAt(N) /\ zone.extended)
    <3>1. k = 0 /\ k * CycleSecs = 0
      BY <1>2, <1>4, <2>1
    <3> QED
      BY <2>1, <3>1
  <2>2. CASE t >= TimeAt(N) /\ zone.extended
    <3>1. PICK r \in 0..CycleSecs - 1 : t - TimeAt(N) = CycleSecs * q + r
      BY <1>5
    <3>2. CycleSecs * q \in Int /\ k = q + 1 /\ k * CycleSecs = CycleSecs * q + CycleSecs
      BY <1>2, <1>4, <1>5, <2>2
    <3>3. q >= 0
      <4> SUFFICES ASSUME q < 0 PROVE FALSE
        BY <1>5
      <4>1. CycleSecs * q + CycleSecs <= CycleSecs * 0 /\ CycleSecs * 0 = 0
        BY <1>2, <1>5, MulMono
      <4> QED
        BY <1>2, <1>3, <2>2, <3>1, <3>2, <4>1
    <3>4. k \in Nat
      BY <1>5, <3>2, <3>3
    <3>5. k * CycleSecs \in Int
      BY <1>2, <3>4
    <3> QED
      BY <1>2, <1>3, <2>2, <3>1, <3>2, <3>4, <3>5
  <2> QED
    BY <2>1, <2>2
<1>7. TypeAt(t) = TypeAt(u)
  <2>1. CASE ~(t >= TimeAt(N) /\ zone.extended)
    BY <1>6, <2>1
  <2>2. CASE t >= TimeAt(N) /\ zone.extended
    <3> HIDE DEF u
    <3>1. TypeAt(u + k * CycleSecs) = TypeAt(u)
      BY <1>6, <2>2, TypesRepeat
    <3> QED
      BY <1>6, <3>1
  <2> QED
    BY <2>1, <2>2
<1> DEFINE al == CASE u < TimeAt(1) -> LocalTimeOfType(u, TypeOf(zone.default))
                   [] u >= TimeAt(N) -> LocalTime(u, zone.trans[N])
                   [] OTHER -> LocalTime(u, zone.trans[place])
<1>8. BreakAnswer(t, place) = [al EXCEPT !.cs = YearShift(@, k)]
  BY DEF BreakAnswer, k
<1>9. TimeAt(1) <= u /\ u < TimeAt(N) => place \in 0..N /\ UpTo(u, place)
  BY DEF BreakSearches, k
<1> HIDE DEF u
<1>10. TimeAt(1) <= TimeAt(N)
  BY <1>2, <1>3, <1>1, RowsRise
\* The answer is that of the row of the time's place.
<1>11. ASSUME NEW p \in 1..N, UpTo(u, p), TypeAt(u) = Typ(p)
       PROVE  LocalTime(u, zone.trans[p]) = Broken(u + TypeAt(u).off, TypeAt(u))
  <2>1. p \in 0..N /\ TypeOf(zone.trans[p].index) = Typ(p)
    BY <1>2 DEF Typ
  <2>2. LocalTime(u, zone.trans[p]) = Broken(CivilAt(p) + (u - TimeAt(p)), Typ(p))
    BY <2>1 DEF LocalTime, CivilAt, TimeAt
  <2>3. CivilAt(p) + (u - TimeAt(p)) = u + Off(p) /\ Typ(p).off = Off(p)
    BY <1>2, <1>6, <2>1
  <2> QED
    BY <1>11, <2>2, <2>3
<1>12. al = Broken(u + TypeAt(u).off, TypeAt(u))
  <2>1. CASE u < TimeAt(1)
    <3>1. al = LocalTimeOfType(u, TypeOf(zone.default))
      BY <1>3, <1>6, <1>10, <2>1
    <3>2. 0 \in 0..N /\ 0 < N /\ UpTo(u, 0)
      BY <1>2, <2>1 DEF UpTo
    <3>3. TypeAt(u) = Typ(0)
      BY <1>1, <1>6, <3>2 DEF Told
    <3>4. Typ(0) = TypeOf(zone.default)
      BY DEF Typ
    <3> QED
      BY <3>1, <3>3, <3>4 DEF LocalTimeOfType
  <2>2. CASE u >= TimeAt(N)
    <3>1. al = LocalTime(u, zone.trans[N])
      BY <1>3, <1>6, <1>10, <2>2
    <3>2. UpTo(u, N)
      <4>1. N \in 0..N /\ ~(N < N) /\ TimeAt(N) <= u
        BY <1>2, <1>3, <1>6, <2>2
      <4> QED
        BY <1>1, <1>6, <4>1, PlacedAt
    <3>3. TypeAt(u) = Typ(N)
      <4>1. ~zone.extended
        BY <1>3, <1>6, <2>2
      <4>2. TimeAt(N) <= u
        BY <1>3, <1>6, <2>2
      <4> QED
        BY <1>1, <1>6, <4>1, <4>2 DEF Told
    <3> QED
      BY <1>2, <1>11, <3>1, <3>2, <3>3
  <2>3. CASE TimeAt(1) <= u /\ u < TimeAt(N)
    <3>1. al = LocalTime(u, zone.trans[place])
      BY <1>3, <1>6, <2>3
    <3>2. place \in 0..N /\ UpTo(u, place)
      BY <1>9, <2>3
    <3>3. place # 0 /\ place # N
      <4>1. place = 0 => u < TimeAt(1)
        BY <1>2, <3>2 DEF UpTo
      <4>2. place = N => TimeAt(N) <= u
        BY <1>2, <3>2 DEF UpTo
      <4> QED
        BY <1>3, <1>6, <2>3, <4>1, <4>2
    <3>4. place \in 1..N /\ place < N
      BY <1>2, <3>2, <3>3
    <3>5. TypeAt(u) = Typ(place)
      BY <1>1, <1>6, <3>2, <3>4 DEF Told
    <3> QED
      BY <1>11, <3>1, <3>2, <3>4, <3>5
  <2> QED
    BY <1>3, <1>6, <2>1, <2>2, <2>3
<1> HIDE DEF al
<1> DEFINE ty == TypeAt(u)
<1>13. ty.off \in Int
  <2>1. ty \in ZoneTypes
    BY <1>1, <1>6 DEF Told
  <2> QED
    BY <1>1, <2>1, RegularRows
<1> HIDE DEF ty
<1>14. [al EXCEPT !.cs = YearShift(@, k)] = Broken(u + ty.off + k * CycleSecs, ty)
  <2>1. al = [cs |-> u + ty.off, off |-> ty.off, dst |-> ty.dst, abbr |-> ty.abbr]
    BY <1>12 DEF Broken, ty
  <2>2. YearShift(al.cs, k) = u + ty.off + k * CycleSecs
    BY <2>1 DEF YearShift
  <2> QED
    BY <2>1, <2>2 DEF Broken
<1>15. u + ty.off + k * CycleSecs = t + ty.off
  BY <1>6, <1>13
<1> QED
  BY <1>7, <1>8, <1>14, <1>15 DEF LocalTimeOfType, ty

\* The types on both sides of a transition, and that nothing changes elsewhere up to the last.
LEMMA AtTransition ==
  ASSUME Exactly, NEW i \in 1..N
  PROVE  TypeAt(TimeAt(i)) = Typ(i) /\ TypeAt(TimeAt(i) - 1) = Typ(i - 1)
<1> DEFINE t == TimeAt(i)
           s == TimeAt(i) - 1
           q == i - 1
<1>1. Rows /\ Repeats /\ Told /\ Regular(zone)
  BY DEF Exactly
<1>2. /\ N \in Nat \ {0} /\ \A j \in 1..N : TimeAt(j) \in Int /\ CivilAt(j) = TimeAt(j) + Off(j)
  BY <1>1, RegularRows
<1>3. i \in 0..N /\ q \in 0..N /\ q < N /\ q + 1 = i /\ t \in Int /\ s \in Int /\ s < t /\ t = TimeAt(q + 1)
  BY <1>2
<1> HIDE DEF q
<1>4. UpTo(t, i)
  <2>1. i < N => t < TimeAt(i + 1)
    <3>1. ASSUME i < N PROVE t < TimeAt(i + 1)
      <4>1. i + 1 \in 1..N /\ i < i + 1
        BY <1>2, <3>1
      <4> QED
        BY <1>1, <4>1, RowsRise
    <3> QED
      BY <3>1
  <2>2. TimeAt(i) <= t
    BY <1>3
  <2> QED
    BY <1>1, <1>3, <2>1, <2>2, PlacedAt
<1>5. UpTo(s, q)
  <2>1. q > 0 => TimeAt(q) <= s
    <3>1. ASSUME q > 0 PROVE TimeAt(q) <= s
      <4>1. q \in 1..N /\ q < i
        BY <1>3, <3>1
      <4>2. TimeAt(q) < TimeAt(i) /\ TimeAt(q) \in Int
        BY <1>1, <1>2, <4>1, RowsRise
      <4> QED
        BY <1>3, <4>2
    <3> QED
      BY <3>1
  <2>2. s < TimeAt(q + 1)
    BY <1>3
  <2> HIDE DEF s
  <2> QED
    BY <1>1, <1>3, <2>1, <2>2, PlacedAt
<1>6. ~(zone.extended /\ i = N /\ PastTable <= t + Off(N))
  <2> SUFFICES ASSUME zone.extended, i = N, PastTable <= t + Off(N) PROVE FALSE
    OBVIOUS
  <2>1. CivilAt(N) < PastTable /\ CivilAt(N) \in Int /\ PastTable \in Int
    BY <1>1, PastFacts
  <2>2. CivilAt(N) = t + Off(N)
    BY <1>2
  <2> QED
    BY <2>1, <2>2
<1> HIDE DEF t, s
<1>7. TypeAt(t) = Typ(i)
  BY <1>3, <1>4, <1>6, InForce
<1>8. TypeAt(s) = Typ(q)
  BY <1>1, <1>3, <1>5 DEF Told
<1> QED
  BY <1>7, <1>8 DEF t, s, q

\* The clock changes, up to the end of the table, at the transitions that change type.
LEMMA ChangesAre ==
  ASSUME Exactly, NEW u \in Int, u <= TimeAt(N)
  PROVE  TypeAt(u) # TypeAt(u - 1) <=> \E i \in 1..N : u = TimeAt(i) /\ Typ(i) # Typ(i - 1)
<1>1. Rows /\ Repeats /\ Told /\ Regular(zone)
  BY DEF Exactly
<1>2. /\ N \in Nat \ {0} /\ \A j \in 1..N : TimeAt(j) \in Int
  BY <1>1, RegularRows
<1>3. ASSUME NEW i \in 1..N, u = TimeAt(i), Typ(i) # Typ(i - 1) PROVE TypeAt(u) # TypeAt(u - 1)
  BY <1>3, AtTransition
<1>4. ASSUME TypeAt(u) # TypeAt(u - 1) PROVE \E i \in 1..N : u = TimeAt(i) /\ Typ(i) # Typ(i - 1)
  <2>1. PICK p \in 0..N : UpTo(u, p)
    BY <1>1, Placed
  <2>2. p > 0 => p \in 1..N /\ TimeAt(p) <= u
    <3>1. p > 0 => p \in 1..p /\ p \in 1..N
      BY <1>2
    <3> QED
      BY <2>1, <3>1 DEF UpTo
  <2>3. CASE p > 0 /\ u = TimeAt(p)
    <3>1. p \in 1..N
      BY <2>2, <2>3
    <3>2. Typ(p) # Typ(p - 1)
      BY <1>4, <2>3, <3>1, AtTransition
    <3> QED
      BY <2>3, <3>1, <3>2
  <2>4. CASE ~(p > 0 /\ u = TimeAt(p))
    <3> DEFINE s == u - 1
    <3>1. p < N
      <4> SUFFICES ASSUME p = N PROVE FALSE
        BY <1>2
      <4>1. p > 0 /\ TimeAt(N) <= u /\ TimeAt(N) \in Int
        BY <1>2, <2>2
      <4> QED
        BY <2>4, <4>1
    <3>2. u < TimeAt(p + 1) /\ p + 1 \in 1..N
      BY <1>2, <2>1, <3>1 DEF UpTo
    <3>3. s \in Int /\ (p > 0 => TimeAt(p) <= s) /\ s < TimeAt(p + 1)
      BY <1>2, <2>2, <2>4, <3>2
    <3> HIDE DEF s
    <3>4. UpTo(s, p)
      BY <1>1, <3>3, PlacedAt
    <3>5. TypeAt(u) = Typ(p) /\ TypeAt(s) = Typ(p)
      BY <1>1, <2>1, <3>1, <3>3, <3>4 DEF Told
    <3> QED
      BY <1>4, <3>5 DEF s
  <2> QED
    BY <2>3, <2>4
<1> QED
  BY <1>3, <1>4

\* What is reported: the transitions after the big bang that change the type.
LEMMA ReportedIs ==
  ASSUME Exactly
  PROVE  /\ FirstReal \in {1, 2}
         /\ \A i \in 1..N : /\ i \in FirstReal..N \/ Typ(i) = Typ(i - 1)
                            /\ i \in FirstReal..N => BigBang < TimeAt(i) /\ (Reported(i) <=> Typ(i) # Typ(i - 1))
<1>1. Rows /\ Repeats /\ Told /\ Regular(zone)
  BY DEF Exactly
<1>2. /\ N \in Nat \ {0} /\ BigBang \in Int /\ 1 \in 1..N
      /\ \A j \in 1..N : TimeAt(j) \in Int /\ BigBang <= TimeAt(j)
      /\ TimeAt(1) = BigBang => Typ(1) = Typ(0)
  <2>1. /\ N \in Nat \ {0} /\ BigBang \in Int
        /\ \A j \in 1..N : TimeAt(j) \in Int /\ BigBang <= TimeAt(j)
        /\ TimeAt(1) = BigBang => Typ(1) = Typ(0)
    BY <1>1, RegularRows
  <2> QED
    BY <2>1
<1>3. \/ FirstReal = 2 /\ TimeAt(1) = BigBang
      \/ FirstReal = 1 /\ BigBang < TimeAt(1)
  BY <1>2 DEF FirstReal
<1>4. ASSUME NEW i \in 1..N PROVE Typ(i) = zone.types[zone.trans[i].index + 1]
  BY DEF Typ, TypeOf
<1>5. Typ(0) = zone.types[zone.default + 1]
  BY DEF Typ, TypeOf
<1>6. ASSUME NEW i \in 1..N
      PROVE  /\ i \in FirstReal..N \/ Typ(i) = Typ(i - 1)
             /\ i \in FirstReal..N => BigBang < TimeAt(i) /\ (Reported(i) <=> Typ(i) # Typ(i - 1))
  <2>1. CASE i \notin FirstReal..N
    <3>1. i = 1 /\ i - 1 = 0 /\ TimeAt(1) = BigBang
      BY <1>2, <1>3, <2>1
    <3> QED
      BY <1>2, <2>1, <3>1
  <2>2. CASE i \in FirstReal..N
    <3> DEFINE prev == IF i = FirstReal THEN zone.default ELSE zone.trans[i - 1].index
               at == zone.trans[i].index
    <3>1. Reported(i) <=> ~(prev = at \/ zone.types[prev + 1] = zone.types[at + 1])
      BY DEF Reported, EquivTransitions
    <3>2. zone.types[prev + 1] = Typ(i - 1)
      <4>1. CASE i = FirstReal /\ FirstReal = 1
        <5>1. i - 1 = 0
          BY <4>1
        <5> QED
          BY <1>5, <4>1, <5>1
      <4>2. CASE i = FirstReal /\ FirstReal = 2
        <5>1. i - 1 = 1 /\ Typ(1) = Typ(0)
          BY <1>2, <1>3, <4>2
        <5> QED
          BY <1>5, <4>2, <5>1
      <4>3. CASE i # FirstReal
        <5> DEFINE q == i - 1
        <5>1. q \in 1..N
          BY <1>2, <1>3, <2>2, <4>3
        <5>2. Typ(q) = zone.types[zone.trans[q].index + 1]
          BY <1>4, <5>1
        <5> QED
          BY <4>3, <5>2
      <4> QED
        BY <1>3, <4>1, <4>2, <4>3
    <3>3. zone.types[at + 1] = Typ(i)
      BY <1>4
    <3> HIDE DEF prev, at
    <3>4. Reported(i) <=> Typ(i) # Typ(i - 1)
      BY <3>1, <3>2, <3>3
    <3>5. BigBang < TimeAt(i)
      <4>1. CASE i = 1
        BY <1>2, <1>3, <2>2, <4>1
      <4>2. CASE 1 < i
        <5>1. TimeAt(1) < TimeAt(i)
          BY <1>1, <1>2, <4>2, RowsRise
        <5> QED
          BY <1>2, <5>1
      <4> QED
        BY <4>1, <4>2
    <3> QED
      BY <2>2, <3>4, <3>5
  <2> QED
    BY <2>1, <2>2
<1> QED
  BY <1>3, <1>6

\* The part of TransitionsReal about one answer.
RealChange(op, t, a) ==
  LET span == IF op = "next" THEN t + 1..TimeAt(N) ELSE (BigBang + 1..t - 1) \cap (BigBang + 1..TimeAt(N))
      changes == {u \in span : TypeAt(u) # TypeAt(u - 1)}
      u == IF op = "next" THEN Earliest(changes) ELSE Latest(changes)
  IN  IF changes = {} THEN ~a.found
      ELSE a = [found |-> TRUE, from |-> u + TypeAt(u - 1).off, to |-> u + TypeAt(u).off]

\* A transition is reported with the clock before it and the clock after it.
LEMMA ReportsChange ==
  ASSUME Exactly, NEW i \in 1..N
  PROVE  LET u == TimeAt(i) IN
         TransitionAt(i) = [found |-> TRUE, from |-> u + TypeAt(u - 1).off, to |-> u + TypeAt(u).off]
<1>1. Rows /\ Repeats /\ Told /\ Regular(zone)
  BY DEF Exactly
<1>2. i \in 0..N /\ i - 1 \in 0..N
  BY <1>1 DEF Rows
<1>3. /\ TimeAt(i) \in Int /\ CivilAt(i) = TimeAt(i) + Off(i) /\ PrevAt(i) = TimeAt(i) + Off(i - 1) - 1
      /\ Off(i) \in Int /\ Off(i - 1) \in Int /\ Typ(i).off = Off(i) /\ Typ(i - 1).off = Off(i - 1)
  BY <1>1, <1>2, RegularRows
<1>4. TypeAt(TimeAt(i)) = Typ(i) /\ TypeAt(TimeAt(i) - 1) = Typ(i - 1)
  BY AtTransition
<1>5. PrevAt(i) + 1 = TimeAt(i) + Off(i - 1)
  BY <1>3
<1>6. TransitionAt(i) = [found |-> TRUE, from |-> PrevAt(i) + 1, to |-> CivilAt(i)]
  BY DEF TransitionAt, PrevAt
<1> QED
  BY <1>3, <1>4, <1>5, <1>6

\* NextTransition reports the next change of the clock, or none when there is none.
LEMMA NextReal ==
  ASSUME Exactly, NEW t \in Int
  PROVE  RealChange("next", t, NextTransition(t))
<1> DEFINE after == {i \in FirstReal..N : TimeAt(i) > t /\ Reported(i)}
           changes == {u \in t + 1..TimeAt(N) : TypeAt(u) # TypeAt(u - 1)}
           first == CHOOSE i \in after : \A j \in after : i <= j
<1>1. Rows /\ Repeats /\ Told /\ Regular(zone)
  BY DEF Exactly
<1>2. N \in Nat \ {0} /\ N \in 1..N /\ \A j \in 1..N : TimeAt(j) \in Int
  <2>1. N \in Nat \ {0} /\ \A j \in 1..N : TimeAt(j) \in Int
    BY <1>1, RegularRows
  <2> QED
    BY <2>1
<1>3. /\ FirstReal \in {1, 2}
      /\ \A i \in 1..N : /\ i \in FirstReal..N \/ Typ(i) = Typ(i - 1)
                         /\ i \in FirstReal..N => (Reported(i) <=> Typ(i) # Typ(i - 1))
  BY ReportedIs
<1>4. ASSUME NEW i \in after PROVE i \in 1..N /\ TimeAt(i) \in changes
  <2>1. i \in 1..N /\ TimeAt(i) > t /\ Typ(i) # Typ(i - 1)
    BY <1>2, <1>3
  <2>2. TimeAt(i) \in Int /\ TimeAt(N) \in Int /\ TimeAt(i) <= TimeAt(N)
    <3>1. i = N \/ i < N
      BY <1>2, <2>1
    <3> QED
      BY <1>1, <1>2, <2>1, <3>1, RowsRise
  <2>3. TypeAt(TimeAt(i)) # TypeAt(TimeAt(i) - 1)
    BY <2>1, AtTransition
  <2> QED
    BY <2>1, <2>2, <2>3
<1>5. ASSUME NEW u \in changes PROVE \E i \in after : u = TimeAt(i)
  <2>1. u \in Int /\ t < u /\ u <= TimeAt(N) /\ TypeAt(u) # TypeAt(u - 1)
    BY <1>2
  <2>2. PICK i \in 1..N : u = TimeAt(i) /\ Typ(i) # Typ(i - 1)
    BY <2>1, ChangesAre
  <2>3. i \in FirstReal..N /\ Reported(i)
    BY <1>3, <2>2
  <2> QED
    BY <2>1, <2>2, <2>3
<1>6. CASE after = {}
  <2>1. changes = {}
    BY <1>5, <1>6
  <2>2. NextTransition(t) = NoTransition
    BY <1>6 DEF NextTransition
  <2> HIDE DEF changes
  <2>3. IF changes = {} THEN ~NextTransition(t).found ELSE FALSE
    BY <2>1, <2>2 DEF NoTransition
  <2> QED
    BY <2>1, <2>3 DEF RealChange, changes
<1>7. CASE after # {}
  <2>1. after \subseteq Nat
    BY <1>2, <1>4
  <2>2. \E i \in after : \A j \in after : i <= j
    <3> HIDE DEF after
    <3> QED
      BY <1>7, <2>1, LeastOf
  <2>3. first \in after /\ \A j \in after : first <= j
    <3> HIDE DEF after
    <3> QED
      BY <2>2
  <2>4. NextTransition(t) = TransitionAt(first)
    BY <1>7 DEF NextTransition
  <2> DEFINE e == TimeAt(first)
  <2>5. first \in 1..N /\ e \in changes
    BY <1>4, <2>3
  <2>6. ASSUME NEW u \in changes PROVE e <= u
    <3>1. PICK i \in after : u = TimeAt(i)
      BY <1>5, <2>6
    <3>2. i \in 1..N /\ (first = i \/ first < i)
      BY <1>4, <2>3, <2>5, <3>1
    <3>3. TimeAt(first) \in Int /\ TimeAt(i) \in Int
      BY <1>2, <2>5, <3>2
    <3> HIDE DEF first
    <3>4. TimeAt(first) <= TimeAt(i)
      <4>1. CASE first = i
        BY <3>3, <4>1
      <4>2. CASE first < i
        <5>1. TimeAt(first) < TimeAt(i)
          BY <1>1, <2>5, <3>2, <4>2, RowsRise
        <5> QED
          BY <3>3, <5>1
      <4> QED
        BY <3>2, <4>1, <4>2
    <3> QED
      BY <3>1, <3>4
  <2>7. \A u \in changes : u \in Int
    BY <1>2
  <2> HIDE DEF changes, e
  <2>8. Earliest(changes) = e
    <3>1. \A u \in changes : (\A w \in changes : u <= w) => u = e
      BY <2>5, <2>6, <2>7
    <3> QED
      BY <2>5, <2>6, <3>1 DEF Earliest
  <2> HIDE DEF first
  <2>9. TransitionAt(first) = [found |-> TRUE, from |-> e + TypeAt(e - 1).off, to |-> e + TypeAt(e).off]
    BY <2>5, ReportsChange DEF e
  <2> DEFINE a == NextTransition(t)
  <2>10. changes # {}
    BY <2>5
  <2>11. a = [found |-> TRUE, from |-> e + TypeAt(e - 1).off, to |-> e + TypeAt(e).off]
    BY <2>4, <2>9
  <2> HIDE DEF a
  <2> QED
    BY <2>8, <2>10, <2>11 DEF RealChange, changes, a
<1> QED
  BY <1>6, <1>7

\* PrevTransition reports the last change before, or none when there is none.
LEMMA PrevReal ==
  ASSUME Exactly, NEW t \in Int
  PROVE  RealChange("prev", t, PrevTransition(t))
<1> DEFINE before == {i \in FirstReal..N : TimeAt(i) < t /\ Reported(i)}
           changes == {u \in (BigBang + 1..t - 1) \cap (BigBang + 1..TimeAt(N)) : TypeAt(u) # TypeAt(u - 1)}
           last == CHOOSE i \in before : \A j \in before : j <= i
<1>1. Rows /\ Repeats /\ Told /\ Regular(zone)
  BY DEF Exactly
<1>2. N \in Nat \ {0} /\ N \in 1..N /\ BigBang \in Int /\ \A j \in 1..N : TimeAt(j) \in Int
  <2>1. N \in Nat \ {0} /\ BigBang \in Int /\ \A j \in 1..N : TimeAt(j) \in Int
    BY <1>1, RegularRows
  <2> QED
    BY <2>1
<1>3. /\ FirstReal \in {1, 2}
      /\ \A i \in 1..N : /\ i \in FirstReal..N \/ Typ(i) = Typ(i - 1)
                         /\ i \in FirstReal..N => BigBang < TimeAt(i) /\ (Reported(i) <=> Typ(i) # Typ(i - 1))
  BY ReportedIs
<1>4. ASSUME NEW i \in before PROVE i \in 1..N /\ TimeAt(i) \in changes
  <2>1. i \in 1..N /\ i \in FirstReal..N /\ TimeAt(i) < t /\ Reported(i)
    BY <1>2, <1>3
  <2>2. BigBang < TimeAt(i) /\ Typ(i) # Typ(i - 1)
    BY <1>3, <2>1
  <2>3. TimeAt(i) \in Int /\ TimeAt(N) \in Int /\ TimeAt(i) <= TimeAt(N)
    <3>1. i = N \/ i < N
      BY <1>2, <2>1
    <3> QED
      BY <1>1, <1>2, <2>1, <3>1, RowsRise
  <2>4. TypeAt(TimeAt(i)) # TypeAt(TimeAt(i) - 1)
    BY <2>1, <2>2, AtTransition
  <2>5. TimeAt(i) \in BigBang + 1..t - 1 /\ TimeAt(i) \in BigBang + 1..TimeAt(N)
    BY <1>2, <2>1, <2>2, <2>3
  <2> QED
    BY <2>1, <2>4, <2>5
<1>5. ASSUME NEW u \in changes PROVE \E i \in before : u = TimeAt(i)
  <2>1. u \in Int /\ u < t /\ u <= TimeAt(N) /\ TypeAt(u) # TypeAt(u - 1)
    BY <1>2
  <2>2. PICK i \in 1..N : u = TimeAt(i) /\ Typ(i) # Typ(i - 1)
    BY <2>1, ChangesAre
  <2>3. i \in FirstReal..N /\ Reported(i)
    BY <1>3, <2>2
  <2> QED
    BY <2>1, <2>2, <2>3
<1>6. CASE before = {}
  <2>1. changes = {}
    BY <1>5, <1>6
  <2>2. PrevTransition(t) = NoTransition
    BY <1>6 DEF PrevTransition
  <2> HIDE DEF changes
  <2>3. IF changes = {} THEN ~PrevTransition(t).found ELSE FALSE
    BY <2>1, <2>2 DEF NoTransition
  <2> QED
    BY <2>1, <2>3 DEF RealChange, changes
<1>7. CASE before # {}
  <2>1. before \subseteq 0..N
    BY <1>2, <1>4
  <2>2. \E i \in before : \A j \in before : j <= i
    <3> HIDE DEF before
    <3> QED
      BY <1>2, <1>7, <2>1, GreatestOf
  <2>3. last \in before /\ \A j \in before : j <= last
    <3> HIDE DEF before
    <3> QED
      BY <2>2
  <2>4. PrevTransition(t) = TransitionAt(last)
    BY <1>7 DEF PrevTransition
  <2> DEFINE e == TimeAt(last)
  <2>5. last \in 1..N /\ e \in changes
    BY <1>4, <2>3
  <2>6. ASSUME NEW u \in changes PROVE u <= e
    <3>1. PICK i \in before : u = TimeAt(i)
      BY <1>5, <2>6
    <3>2. i \in 1..N /\ (last = i \/ i < last)
      BY <1>4, <2>3, <2>5, <3>1
    <3>3. TimeAt(last) \in Int /\ TimeAt(i) \in Int
      BY <1>2, <2>5, <3>2
    <3> HIDE DEF last
    <3>4. TimeAt(i) <= TimeAt(last)
      <4>1. CASE last = i
        BY <3>3, <4>1
      <4>2. CASE i < last
        <5>1. TimeAt(i) < TimeAt(last)
          BY <1>1, <2>5, <3>2, <4>2, RowsRise
        <5> QED
          BY <3>3, <5>1
      <4> QED
        BY <3>2, <4>1, <4>2
    <3> QED
      BY <3>1, <3>4
  <2>7. \A u \in changes : u \in Int
    BY <1>2
  <2> HIDE DEF changes, e
  <2>8. Latest(changes) = e
    <3>1. \A u \in changes : (\A w \in changes : w <= u) => u = e
      BY <2>5, <2>6, <2>7
    <3> QED
      BY <2>5, <2>6, <3>1 DEF Latest
  <2> HIDE DEF last
  <2>9. TransitionAt(last) = [found |-> TRUE, from |-> e + TypeAt(e - 1).off, to |-> e + TypeAt(e).off]
    BY <2>5, ReportsChange DEF e
  <2> DEFINE a == PrevTransition(t)
  <2>10. changes # {}
    BY <2>5
  <2>11. a = [found |-> TRUE, from |-> e + TypeAt(e - 1).off, to |-> e + TypeAt(e).off]
    BY <2>4, <2>9
  <2> HIDE DEF a
  <2> QED
    BY <2>8, <2>10, <2>11 DEF RealChange, changes, a
<1> QED
  BY <1>6, <1>7

-----------------------------------------------------------------------------
(* What the file and its rule say *)

\* The changes of a rule, numbered through: two in every year, 2 * y and 2 * y + 1.
Change(rule, s, d, m) == RulePair(rule, s, d, m \div 2)[(m % 2) + 1]

\* A number is twice its half and what is left.
LEMMA Halves ==
  ASSUME NEW m \in Int
  PROVE  m \div 2 \in Int /\ m % 2 \in {0, 1} /\ m = 2 * (m \div 2) + (m % 2)
OBVIOUS

\* The changes of a rule, two by two, are the pairs of the years.
LEMMA ChangeOf ==
  ASSUME NEW rule, NEW s, NEW d, NEW y \in Int
  PROVE  /\ Change(rule, s, d, 2 * y) = RulePair(rule, s, d, y)[1]
         /\ Change(rule, s, d, 2 * y + 1) = RulePair(rule, s, d, y)[2]
<1>1. /\ (2 * y) \div 2 = y /\ (2 * y) % 2 = 0
      /\ (2 * y + 1) \div 2 = y /\ (2 * y + 1) % 2 = 1
  OBVIOUS
<1> QED
  BY <1>1 DEF Change

\* A change is in its year on every clock.
LEMMA ChangeInYear ==
  ASSUME NEW raw, IsFile(raw), Dated(raw.rule), NEW s \in Nat, NEW d \in Nat, NEW m \in Int
  PROVE  LET c == Change(raw.rule, s, d, m)
             y == m \div 2
         IN  /\ c \in Moments /\ c.time \in Int /\ c.index \in {s, d}
             /\ \A x \in Clocks(raw) : YearStart(y) <= c.time + x.off /\ c.time + x.off < YearStart(y + 1)
<1> DEFINE y == m \div 2
           j == (m % 2) + 1
           pair == RulePair(raw.rule, s, d, y)
           c == Change(raw.rule, s, d, m)
<1>1. y \in Int /\ m % 2 \in {0, 1}
  BY Halves
<1>2. j \in {1, 2}
  BY <1>1
<1> HIDE DEF y
<1>3. /\ pair[1] \in Moments /\ pair[2] \in Moments
      /\ pair[1].time \in Int /\ pair[2].time \in Int
      /\ pair[1].index \in {s, d} /\ pair[2].index \in {s, d}
  BY <1>1, PairInYear
<1>4. \A x \in Clocks(raw), k \in {1, 2} :
              YearStart(y) <= pair[k].time + x.off /\ pair[k].time + x.off < YearStart(y + 1)
  BY <1>1, PairInYear
<1>5. c = pair[j]
  BY DEF Change, y
<1> HIDE DEF pair, j, c
<1>6. /\ c \in Moments /\ c.time \in Int /\ c.index \in {s, d}
  BY <1>2, <1>3, <1>5
<1>7. \A x \in Clocks(raw) : YearStart(y) <= c.time + x.off /\ c.time + x.off < YearStart(y + 1)
  BY <1>2, <1>4, <1>5
<1> QED
  BY <1>6, <1>7 DEF c, y

\* The changes rise.
LEMMA ChangesRise ==
  ASSUME NEW raw, IsFile(raw), Dated(raw.rule), NEW s \in Nat, NEW d \in Nat,
         NEW m \in Int, NEW k \in Int, m < k
  PROVE  Change(raw.rule, s, d, m).time < Change(raw.rule, s, d, k).time
<1> DEFINE y == m \div 2
           z == k \div 2
           x == raw.rule.std
           u == Change(raw.rule, s, d, m).time
           w == Change(raw.rule, s, d, k).time
<1>1. y \in Int /\ z \in Int /\ m % 2 \in {0, 1} /\ k % 2 \in {0, 1} /\ m = 2 * y + (m % 2) /\ k = 2 * z + (k % 2)
  BY Halves
<1>2. x \in Clocks(raw) /\ x.off \in Int
  <2>1. x \in Clocks(raw)
    BY DEF Clocks
  <2> QED
    BY <2>1, DatedFacts
<1>3. u \in Int /\ w \in Int /\ u + x.off < YearStart(y + 1) /\ YearStart(z) <= w + x.off
  BY <1>2, ChangeInYear
<1>4. CASE y < z
  <2>1. y + 1 \in Int /\ (y + 1 = z \/ y + 1 < z)
    BY <1>1, <1>4
  <2> HIDE DEF y, z, u, w, x
  <2>2. YearStart(y + 1) \in Int /\ YearStart(z) \in Int
    BY <1>1, <2>1, YearStartNext
  <2>3. YearStart(y + 1) <= YearStart(z)
    BY <1>1, <2>1, <2>2, YearStartRises
  <2>4. u < w
    BY <1>2, <1>3, <2>2, <2>3
  <2> QED
    BY <2>4 DEF u, w
<1>5. CASE ~(y < z)
  <2>1. y = z /\ m = 2 * y /\ k = 2 * y + 1
    BY <1>1, <1>5
  <2> DEFINE pair == RulePair(raw.rule, s, d, y)
  <2> HIDE DEF y
  <2>2. pair[1].time < pair[2].time
    BY <1>1, PairInYear
  <2>3. Change(raw.rule, s, d, m) = pair[1] /\ Change(raw.rule, s, d, k) = pair[2]
    BY <1>1, <2>1, ChangeOf
  <2> HIDE DEF pair
  <2> QED
    BY <2>2, <2>3
<1> QED
  BY <1>4, <1>5

\* A cycle later they are the same.
LEMMA ChangeCycles ==
  ASSUME NEW raw, IsFile(raw), Dated(raw.rule), NEW s \in Nat, NEW d \in Nat, NEW m \in Int
  PROVE  LET c == Change(raw.rule, s, d, m)
             e == Change(raw.rule, s, d, m + 2 * Cycle)
         IN  e.time = c.time + CycleSecs /\ e.index = c.index
<1> DEFINE rule == raw.rule
           y == m \div 2
           h == m % 2
           k == y % Cycle
           U(z) == Trans(z + rule.start[k] - rule.std.off, d)
           W(z) == Trans(z + rule.end[k] - rule.dst.off, s)
           P(z) == IF U(z).time < W(z).time THEN <<U(z), W(z)>> ELSE <<W(z), U(z)>>
<1>0. Cycle \in Nat \ {0} /\ CycleSecs \in Nat \ {0} /\ y \in Int /\ h \in {0, 1} /\ m = 2 * y + h
  BY CycleFacts, YearsRise, Halves
<1> HIDE DEF y, h
<1>1. YearStart(y + Cycle) = YearStart(y) + CycleSecs /\ (y + Cycle) % Cycle = k
  <2>1. 1 * Cycle = Cycle /\ 1 * CycleSecs = CycleSecs
    BY CycleFacts, YearsRise
  <2>2. YearStart(y + 1 * Cycle) = YearStart(y) + 1 * CycleSecs /\ (y + 1 * Cycle) % Cycle = k
    <3>1. y \in Int /\ 1 \in Int
      BY <1>0
    <3> QED
      BY <3>1, YearStartCycle
  <2> QED
    BY <2>1, <2>2
<1>2. YearStart(y) \in Int /\ YearStart(y + Cycle) \in Int /\ k \in 0..Cycle - 1 /\ y + Cycle \in Int
  <2>1. y + Cycle \in Int
    BY <1>0, CycleFacts
  <2> QED
    BY <1>0, <2>1, YearStartNext
<1>3. rule.start[k] \in Int /\ rule.end[k] \in Int /\ rule.std.off \in Int /\ rule.dst.off \in Int
  <2>1. raw.rule.std \in Clocks(raw) /\ raw.rule.dst \in Clocks(raw)
    BY DEF Clocks
  <2> QED
    BY <1>2, <2>1, DatedFacts
<1>4. RulePair(rule, s, d, y) = P(YearStart(y)) /\ RulePair(rule, s, d, y + Cycle) = P(YearStart(y + Cycle))
  BY <1>1 DEF RulePair
<1> DEFINE a == rule.start[k] - rule.std.off
           b == rule.end[k] - rule.dst.off
<1>5. ASSUME NEW z \in Int
      PROVE  /\ P(z)[1].time = z + (IF a < b THEN a ELSE b) /\ P(z)[1].index = IF a < b THEN d ELSE s
             /\ P(z)[2].time = z + (IF a < b THEN b ELSE a) /\ P(z)[2].index = IF a < b THEN s ELSE d
  <2>1. U(z).time = z + rule.start[k] - rule.std.off /\ U(z).index = d
    BY DEF Trans
  <2>2. W(z).time = z + rule.end[k] - rule.dst.off /\ W(z).index = s
    BY DEF Trans
  <2>3. (U(z).time < W(z).time <=> a < b) /\ U(z).time = z + a /\ W(z).time = z + b
    <3> HIDE DEF k, rule
    <3> QED
      BY <1>3, <2>1, <2>2
  <2> HIDE DEF U, W, a, b
  <2> QED
    BY <2>1, <2>2, <2>3
<1>6. a \in Int /\ b \in Int
  BY <1>3
<1> HIDE DEF P, a, b
<1>7. /\ m = 2 * y => Change(rule, s, d, m) = P(YearStart(y))[1]
      /\ m = 2 * y + 1 => Change(rule, s, d, m) = P(YearStart(y))[2]
  BY <1>0, <1>4, ChangeOf
<1>8. /\ m = 2 * y => Change(rule, s, d, m + 2 * Cycle) = P(YearStart(y + Cycle))[1]
      /\ m = 2 * y + 1 => Change(rule, s, d, m + 2 * Cycle) = P(YearStart(y + Cycle))[2]
  <2>1. 2 * y + 2 * Cycle = 2 * (y + Cycle) /\ 2 * y + 1 + 2 * Cycle = 2 * (y + Cycle) + 1
    BY <1>0
  <2>2. Change(rule, s, d, 2 * (y + Cycle)) = P(YearStart(y + Cycle))[1]
        /\ Change(rule, s, d, 2 * (y + Cycle) + 1) = P(YearStart(y + Cycle))[2]
    BY <1>2, <1>4, ChangeOf
  <2> QED
    BY <2>1, <2>2
<1> DEFINE z == YearStart(y)
           v == YearStart(y + Cycle)
<1>9. z \in Int /\ v \in Int /\ v = z + CycleSecs /\ CycleSecs \in Int
  BY <1>0, <1>1, <1>2
<1> HIDE DEF z, v
<1>10. CASE h = 0
  <2>1. Change(rule, s, d, m) = P(z)[1] /\ Change(rule, s, d, m + 2 * Cycle) = P(v)[1]
    BY <1>0, <1>7, <1>8, <1>10 DEF z, v
  <2>2. P(v)[1].time = P(z)[1].time + CycleSecs /\ P(v)[1].index = P(z)[1].index
    BY <1>5, <1>6, <1>9
  <2> QED
    BY <2>1, <2>2
<1>11. CASE h = 1
  <2>1. Change(rule, s, d, m) = P(z)[2] /\ Change(rule, s, d, m + 2 * Cycle) = P(v)[2]
    BY <1>0, <1>7, <1>8, <1>11 DEF z, v
  <2>2. P(v)[2].time = P(z)[2].time + CycleSecs /\ P(v)[2].index = P(z)[2].index
    BY <1>5, <1>6, <1>9
  <2> QED
    BY <2>1, <2>2
<1> QED
  BY <1>0, <1>10, <1>11

\* Every time is after one change and before the next.
LEMMA ChangeBefore ==
  ASSUME NEW raw, IsFile(raw), Dated(raw.rule), NEW s \in Nat, NEW d \in Nat, NEW t \in Int
  PROVE  \E m \in Int : /\ Change(raw.rule, s, d, m).time <= t
                        /\ t < Change(raw.rule, s, d, m + 1).time
<1> DEFINE o == raw.rule.std.off
           y == Year(t + o)
           C(m) == Change(raw.rule, s, d, m).time
<1>1. raw.rule.std \in Clocks(raw) /\ o \in Int
  <2>1. raw.rule.std \in Clocks(raw)
    BY DEF Clocks
  <2> QED
    BY <2>1, DatedFacts
<1>2. y \in Int /\ YearStart(y) <= t + o /\ t + o < YearStart(y + 1)
  BY <1>1, YearOf
<1> HIDE DEF y
<1>3. \A m \in Int : /\ C(m) \in Int /\ YearStart(m \div 2) <= C(m) + o
                     /\ C(m) + o < YearStart(m \div 2 + 1)
  BY <1>1, ChangeInYear
<1> HIDE DEF C, o
<1>4. /\ 2 * y - 1 \in Int /\ 2 * y \in Int /\ 2 * y + 1 \in Int /\ 2 * y + 2 \in Int
      /\ (2 * y - 1) \div 2 + 1 = y /\ (2 * y + 2) \div 2 = y + 1
      /\ 2 * y - 1 + 1 = 2 * y /\ 2 * y + 1 + 1 = 2 * y + 2
  BY <1>2
<1>5. C(2 * y - 1) <= t /\ t < C(2 * y + 2)
  <2>1. C(2 * y - 1) \in Int /\ C(2 * y - 1) + o < YearStart(y)
    BY <1>3, <1>4
  <2>2. C(2 * y + 2) \in Int /\ YearStart(y + 1) <= C(2 * y + 2) + o
    BY <1>3, <1>4
  <2>3. YearStart(y) \in Int /\ YearStart(y + 1) \in Int
    <3>1. y + 1 \in Int
      BY <1>2
    <3> QED
      BY <1>2, <3>1, YearStartNext
  <2> DEFINE a == C(2 * y - 1)
             b == C(2 * y + 2)
             p == YearStart(y)
             q == YearStart(y + 1)
  <2>4. a \in Int /\ b \in Int /\ p \in Int /\ q \in Int /\ a + o < p /\ q <= b + o /\ p <= t + o /\ t + o < q
    BY <1>2, <2>1, <2>2, <2>3
  <2> HIDE DEF a, b, p, q
  <2>5. a <= t /\ t < b
    BY <1>1, <2>4
  <2> QED
    BY <2>5 DEF a, b
<1>6. \E m \in Int : C(m) <= t /\ t < C(m + 1)
  <2>1. C(2 * y) \in Int /\ C(2 * y + 1) \in Int
    BY <1>3, <1>4
  <2>2. CASE t < C(2 * y)
    BY <1>4, <1>5, <2>2
  <2>3. CASE ~(t < C(2 * y)) /\ t < C(2 * y + 1)
    BY <1>4, <2>1, <2>3
  <2>4. CASE ~(t < C(2 * y + 1))
    BY <1>4, <1>5, <2>1, <2>4
  <2> QED
    BY <2>2, <2>3, <2>4
<1> QED
  BY <1>6 DEF C

\* It is a change of a year near that of the time.
LEMMA ChangeNear ==
  ASSUME NEW raw, IsFile(raw), Dated(raw.rule), NEW s \in Nat, NEW d \in Nat, NEW t \in Int, NEW m \in Int,
         -SecsPerDay <= raw.rule.std.off, raw.rule.std.off <= SecsPerDay,
         Change(raw.rule, s, d, m).time <= t, t < Change(raw.rule, s, d, m + 1).time
  PROVE  m \div 2 \in Year(t) - 2..Year(t) + 2
<1> DEFINE o == raw.rule.std.off
           y == m \div 2
           z == (m + 1) \div 2
           a == Change(raw.rule, s, d, m).time
           b == Change(raw.rule, s, d, m + 1).time
           v == Year(t)
<1>1. raw.rule.std \in Clocks(raw) /\ o \in Int /\ SecsPerDay \in Nat
  <2>1. raw.rule.std \in Clocks(raw)
    BY DEF Clocks
  <2>2. SecsPerDay \in Nat
    BY TimesAssumption
  <2> QED
    BY <2>1, <2>2, DatedFacts
<1>2. y \in Int /\ z \in Int /\ z <= y + 1
  OBVIOUS
<1>3. a \in Int /\ YearStart(y) <= a + o
  BY <1>1, ChangeInYear
<1>4. b \in Int /\ b + o < YearStart(z + 1)
  <2>1. m + 1 \in Int
    OBVIOUS
  <2> QED
    BY <1>1, <2>1, ChangeInYear
<1>5. v \in Int /\ YearStart(v) <= t /\ t < YearStart(v + 1)
  BY YearOf
<1>6. ASSUME NEW q \in Int PROVE YearStart(q) \in Int /\ YearStart(q) + SecsPerDay <= YearStart(q + 1)
  <2>1. /\ YearStart(q) \in Int /\ q % Cycle \in 0..Cycle - 1
        /\ YearSecs[q % Cycle] \in Nat \ {0} /\ YearStart(q + 1) = YearStart(q) + YearSecs[q % Cycle]
    BY YearStartNext
  <2>2. SecsPerDay <= YearSecs[q % Cycle]
    BY <2>1, TablesAssumption
  <2> QED
    BY <1>1, <2>1, <2>2
<1>7. a <= t /\ t < b /\ -SecsPerDay <= o /\ o <= SecsPerDay
  OBVIOUS
<1> HIDE DEF a, b, o, y, z, v
<1>8. \A p, q \in Int : p <= q => YearStart(p) <= YearStart(q)
  <2>1. ASSUME NEW p \in Int, NEW q \in Int, p <= q PROVE YearStart(p) <= YearStart(q)
    <3>1. CASE p = q
      BY <1>6, <3>1
    <3>2. CASE p < q
      BY <1>6, <3>2, YearStartRises
    <3> QED
      BY <2>1, <3>1, <3>2
  <2> QED
    BY <2>1
<1>9. /\ v + 1 \in Int /\ v + 2 \in Int /\ v + 1 + 1 = v + 2 /\ v - 1 \in Int /\ v - 1 + 1 = v
      /\ z + 1 \in Int /\ y + 2 \in Int
  BY <1>2, <1>5
<1>10. YearStart(y) < YearStart(v + 2)
  <2>1. YearStart(v + 1) \in Int /\ YearStart(v + 1) + SecsPerDay <= YearStart(v + 2)
    BY <1>6, <1>9
  <2>2. YearStart(v + 2) \in Int /\ YearStart(y) \in Int
    BY <1>2, <1>6, <1>9
  <2> QED
    BY <1>1, <1>3, <1>5, <1>7, <2>1, <2>2
<1>11. YearStart(v - 1) < YearStart(y + 2)
  <2>1. YearStart(v - 1) \in Int /\ YearStart(v - 1) + SecsPerDay <= YearStart(v) /\ YearStart(v) \in Int
    BY <1>5, <1>6, <1>9
  <2>2. YearStart(z + 1) <= YearStart(y + 2) /\ YearStart(z + 1) \in Int /\ YearStart(y + 2) \in Int
    <3>1. z + 1 <= y + 2
      BY <1>2
    <3>2. YearStart(z + 1) \in Int /\ YearStart(y + 2) \in Int
      BY <1>6, <1>9
    <3> QED
      BY <1>8, <1>9, <3>1, <3>2
  <2> QED
    BY <1>1, <1>4, <1>5, <1>7, <2>1, <2>2
<1>12. y < v + 2 /\ v - 1 < y + 2
  <2>1. ~(v + 2 <= y)
    <3>1. YearStart(v + 2) \in Int /\ YearStart(y) \in Int
      BY <1>2, <1>6, <1>9
    <3> QED
      BY <1>2, <1>8, <1>9, <1>10, <3>1
  <2>2. ~(y + 2 <= v - 1)
    <3>1. YearStart(v - 1) \in Int /\ YearStart(y + 2) \in Int
      BY <1>6, <1>9
    <3> QED
      BY <1>8, <1>9, <1>11, <3>1
  <2> QED
    BY <1>2, <1>5, <2>1, <2>2
<1> QED
  BY <1>2, <1>5, <1>12 DEF y, v

\* The type that the file alone gives at t.
Filed(raw, t) ==
  LET filed == {i \in 1..Len(raw.times) : raw.times[i] <= t} IN
  raw.types[(IF filed = {} THEN DefaultType(raw)
             ELSE raw.index[CHOOSE i \in filed : \A j \in filed : j <= i]) + 1]

\* The changes that the rule of the source has near t, numbered.
LEMMA RuleTimesAre ==
  ASSUME IsFile(source), Dated(source.rule), NEW s \in Nat, NEW d \in Nat, NEW types,
         types[s + 1] = source.rule.std, types[d + 1] = source.rule.dst, NEW t \in Int
  PROVE  LET C(m) == Change(source.rule, s, d, m)
             rec(m) == [time |-> C(m).time, type |-> types[C(m).index + 1]]
         IN  /\ \A tr \in RuleTimes(t) : \E m \in Int : tr = rec(m)
             /\ \A m \in Int : m \div 2 \in Year(t) - 2..Year(t) + 2 => rec(m) \in RuleTimes(t)
<1> DEFINE rule == source.rule
           C(m) == Change(rule, s, d, m)
           rec(m) == [time |-> C(m).time, type |-> types[C(m).index + 1]]
           a(y) == [time |-> YearStart(y) + rule.start[y % Cycle] - rule.std.off, type |-> rule.dst]
           b(y) == [time |-> YearStart(y) + rule.end[y % Cycle] - rule.dst.off, type |-> rule.std]
           near == Year(t) - 2..Year(t) + 2
<1>1. RuleTimes(t) = UNION { {a(y), b(y)} : y \in near }
  BY DEF RuleTimes
<1>2. ASSUME NEW y \in Int
      PROVE  \/ a(y) = rec(2 * y) /\ b(y) = rec(2 * y + 1)
             \/ b(y) = rec(2 * y) /\ a(y) = rec(2 * y + 1)
  <2> DEFINE dst == Trans(YearStart(y) + rule.start[y % Cycle] - rule.std.off, d)
             std == Trans(YearStart(y) + rule.end[y % Cycle] - rule.dst.off, s)
  <2>1. RulePair(rule, s, d, y) = IF dst.time < std.time THEN <<dst, std>> ELSE <<std, dst>>
    BY DEF RulePair
  <2>2. C(2 * y) = RulePair(rule, s, d, y)[1] /\ C(2 * y + 1) = RulePair(rule, s, d, y)[2]
    BY ChangeOf
  <2>3. /\ a(y) = [time |-> dst.time, type |-> types[dst.index + 1]]
        /\ b(y) = [time |-> std.time, type |-> types[std.index + 1]]
    BY DEF Trans
  <2> HIDE DEF a, b, dst, std, C, rule
  <2>4. CASE dst.time < std.time
    <3>1. C(2 * y) = dst /\ C(2 * y + 1) = std
      BY <2>1, <2>2, <2>4
    <3> QED
      BY <2>3, <3>1
  <2>5. CASE ~(dst.time < std.time)
    <3>1. C(2 * y) = std /\ C(2 * y + 1) = dst
      BY <2>1, <2>2, <2>5
    <3> QED
      BY <2>3, <3>1
  <2> QED
    BY <2>4, <2>5
<1>3. \A y \in near : y \in Int
  BY YearOf
<1> HIDE DEF a, b, rec, near
<1>4. ASSUME NEW tr \in RuleTimes(t) PROVE \E m \in Int : tr = rec(m)
  <2>1. PICK y \in near : tr \in {a(y), b(y)}
    BY <1>1, <1>4
  <2>2. y \in Int
    BY <1>3, <2>1
  <2>3. 2 * y \in Int /\ 2 * y + 1 \in Int
    BY <2>2
  <2>4. tr = rec(2 * y) \/ tr = rec(2 * y + 1)
    BY <1>2, <2>1, <2>2
  <2> QED
    BY <2>3, <2>4
<1>5. ASSUME NEW m \in Int, m \div 2 \in near PROVE rec(m) \in RuleTimes(t)
  <2> DEFINE y == m \div 2
  <2>1. y \in Int /\ (m = 2 * y \/ m = 2 * y + 1)
    BY Halves
  <2>2. y \in near
    BY <1>5
  <2> HIDE DEF y
  <2>3. rec(m) = a(y) \/ rec(m) = b(y)
    BY <1>2, <2>1
  <2> QED
    BY <1>1, <2>2, <2>3
<1> QED
  BY <1>4, <1>5 DEF rec, near

\* The m-th change is the last up to t.
Between(rule, s, d, m, t) == Change(rule, s, d, m).time <= t /\ t < Change(rule, s, d, m + 1).time

\* The type at t: that of the last change of the rule, if that is after the file, or the file's.
LEMMA RuledType ==
  ASSUME IsFile(source), zone.ok = TRUE, Dated(source.rule), NEW s \in Nat, NEW d \in Nat,
         zone.types[s + 1] = source.rule.std, zone.types[d + 1] = source.rule.dst,
         source.rule.std.off \in -SecsPerDay..SecsPerDay,
         LastOfFile \in Int, NEW t \in Int, NEW m \in Int, Between(source.rule, s, d, m, t)
  PROVE  TypeAt(t) = IF LastOfFile < Change(source.rule, s, d, m).time
                     THEN zone.types[Change(source.rule, s, d, m).index + 1] ELSE Filed(source, t)
<1> DEFINE types == zone.types
           C(k) == Change(source.rule, s, d, k)
           rec(k) == [time |-> C(k).time, type |-> types[C(k).index + 1]]
           ruled == {tr \in RuleTimes(t) : LastOfFile < tr.time /\ tr.time <= t}
           filed == {i \in 1..Len(source.times) : source.times[i] <= t}
<1>0. /\ types[s + 1] = source.rule.std /\ types[d + 1] = source.rule.dst
      /\ -SecsPerDay <= source.rule.std.off /\ source.rule.std.off <= SecsPerDay
      /\ Change(source.rule, s, d, m).time <= t /\ t < Change(source.rule, s, d, m + 1).time
  BY TimesAssumption DEF Between
<1> HIDE DEF types
<1>1. /\ \A tr \in RuleTimes(t) : \E k \in Int : tr = rec(k)
      /\ \A k \in Int : k \div 2 \in Year(t) - 2..Year(t) + 2 => rec(k) \in RuleTimes(t)
  BY <1>0, RuleTimesAre
<1>2. m \div 2 \in Year(t) - 2..Year(t) + 2
  BY <1>0, ChangeNear
<1>3. rec(m) \in RuleTimes(t)
  BY <1>1, <1>2
<1>4. /\ \A k \in Int : C(k).time \in Int
      /\ \A k, l \in Int : k < l => C(k).time < C(l).time
  <2>1. \A k \in Int : C(k).time \in Int
    BY ChangeInYear
  <2>2. \A k, l \in Int : k < l => C(k).time < C(l).time
    BY ChangesRise
  <2> QED
    BY <2>1, <2>2
<1>5. \A k : rec(k).time = C(k).time /\ rec(k).type = types[C(k).index + 1]
  OBVIOUS
<1>6. C(m).time <= t /\ t < C(m + 1).time
  BY <1>0
<1>7. TypeAt(t) = IF ruled # {} THEN (CHOOSE tr \in ruled : \A u \in ruled : u.time <= tr.time).type
                  ELSE Filed(source, t)
  <2>1. "fixed" \notin DOMAIN source
    BY DEF IsFile
  <2>2. TypeAt(t) =
          CASE "fixed" \in DOMAIN source -> Type(source.fixed, FALSE, "fixed")
            [] "fixed" \notin DOMAIN source /\ ~zone.ok -> Type(0, FALSE, "fixed")
            [] "fixed" \notin DOMAIN source /\ zone.ok /\ ruled # {} ->
                 (CHOOSE tr \in ruled : \A u \in ruled : u.time <= tr.time).type
            [] "fixed" \notin DOMAIN source /\ zone.ok /\ ruled = {} /\ filed # {} ->
                 source.types[source.index[CHOOSE i \in filed : \A j \in filed : j <= i] + 1]
            [] OTHER -> source.types[DefaultType(source) + 1]
    BY DEF TypeAt
  <2>3. Filed(source, t) = source.types[(IF filed = {} THEN DefaultType(source)
                             ELSE source.index[CHOOSE i \in filed : \A j \in filed : j <= i]) + 1]
    BY DEF Filed
  <2> HIDE DEF ruled, filed
  <2>4. CASE ruled # {}
    BY <2>1, <2>2, <2>4
  <2>5. CASE ruled = {} /\ filed # {}
    BY <2>1, <2>2, <2>3, <2>5
  <2>6. CASE ruled = {} /\ filed = {}
    BY <2>1, <2>2, <2>3, <2>6
  <2> QED
    BY <2>4, <2>5, <2>6
<1> HIDE DEF rec, C
<1>8. ASSUME NEW tr \in ruled
      PROVE  \E k \in Int : tr = rec(k) /\ C(k).time <= C(m).time /\ (C(k).time = C(m).time => k = m)
  <2>1. PICK k \in Int : tr = rec(k)
    BY <1>1
  <2>2. C(k).time <= t
    BY <1>5, <2>1
  <2>3. m + 1 \in Int /\ C(k).time \in Int /\ C(m).time \in Int /\ C(m + 1).time \in Int
    BY <1>4
  <2>4. ~(m < k)
    <3>1. ASSUME m < k PROVE FALSE
      <4>1. k = m + 1 \/ m + 1 < k
        BY <3>1
      <4>2. C(m + 1).time <= C(k).time
        BY <1>4, <2>3, <4>1
      <4> QED
        BY <1>6, <2>2, <2>3, <4>2
    <3> QED
      BY <3>1
  <2>5. k = m \/ k < m
    BY <2>4
  <2>6. C(k).time <= C(m).time /\ (C(k).time = C(m).time => k = m)
    <3>1. CASE k = m
      BY <2>3, <3>1
    <3>2. CASE k < m
      <4>1. C(k).time < C(m).time
        BY <1>4, <3>2
      <4> QED
        BY <2>3, <4>1
    <3> QED
      BY <2>5, <3>1, <3>2
  <2> QED
    BY <2>1, <2>6
<1>9. CASE LastOfFile < C(m).time
  <2>1. rec(m) \in ruled
    BY <1>3, <1>5, <1>6, <1>9
  <2> DEFINE Top(tr) == \A u \in ruled : u.time <= tr.time
  <2>2. Top(rec(m))
    <3>1. ASSUME NEW u \in ruled PROVE u.time <= rec(m).time
      BY <1>5, <1>8
    <3> QED
      BY <3>1
  <2>3. ASSUME NEW tr \in ruled, Top(tr) PROVE tr = rec(m)
    <3>1. PICK k \in Int : tr = rec(k) /\ C(k).time <= C(m).time /\ (C(k).time = C(m).time => k = m)
      BY <1>8
    <3>2. rec(m).time <= tr.time
      BY <2>1, <2>3
    <3>3. C(m).time <= C(k).time /\ C(m).time \in Int /\ C(k).time \in Int
      BY <1>4, <1>5, <3>1, <3>2
    <3> QED
      BY <3>1, <3>3
  <2> HIDE DEF ruled
  <2>4. (CHOOSE tr \in ruled : Top(tr)) = rec(m)
    <3> HIDE DEF Top
    <3> QED
      BY <2>1, <2>2, <2>3
  <2>5. TypeAt(t) = rec(m).type
    BY <1>7, <2>1, <2>4
  <2> QED
    BY <1>5, <1>9, <2>5 DEF C, types
<1>10. CASE ~(LastOfFile < C(m).time)
  <2>1. ASSUME NEW tr \in ruled PROVE FALSE
    <3>1. PICK k \in Int : tr = rec(k) /\ C(k).time <= C(m).time
      BY <1>8
    <3>2. LastOfFile < C(k).time /\ C(k).time \in Int /\ C(m).time \in Int
      BY <1>4, <1>5, <3>1
    <3> QED
      BY <1>10, <3>1, <3>2
  <2>2. ruled = {}
    BY <2>1
  <2> HIDE DEF ruled
  <2> QED
    BY <1>7, <1>10, <2>2 DEF C
<1> QED
  BY <1>9, <1>10

\* Without a dated rule, the type at t is the file's.
LEMMA UnruledType ==
  ASSUME IsFile(source), zone.ok = TRUE, ~Dated(source.rule), NEW t \in Int
  PROVE  TypeAt(t) = Filed(source, t)
<1> DEFINE ruled == {tr \in RuleTimes(t) : LastOfFile < tr.time /\ tr.time <= t}
           filed == {i \in 1..Len(source.times) : source.times[i] <= t}
<1>1. "fixed" \notin DOMAIN source
  BY DEF IsFile
<1>2. TypeAt(t) =
        CASE "fixed" \in DOMAIN source -> Type(source.fixed, FALSE, "fixed")
          [] "fixed" \notin DOMAIN source /\ ~zone.ok -> Type(0, FALSE, "fixed")
          [] "fixed" \notin DOMAIN source /\ zone.ok /\ ruled # {} ->
               (CHOOSE tr \in ruled : \A u \in ruled : u.time <= tr.time).type
          [] "fixed" \notin DOMAIN source /\ zone.ok /\ ruled = {} /\ filed # {} ->
               source.types[source.index[CHOOSE i \in filed : \A j \in filed : j <= i] + 1]
          [] OTHER -> source.types[DefaultType(source) + 1]
  BY DEF TypeAt
<1>3. Filed(source, t) = source.types[(IF filed = {} THEN DefaultType(source)
                           ELSE source.index[CHOOSE i \in filed : \A j \in filed : j <= i]) + 1]
  BY DEF Filed
<1>4. ruled = {}
  BY DEF RuleTimes
<1> HIDE DEF ruled, filed
<1>5. CASE filed # {}
  BY <1>1, <1>2, <1>3, <1>4, <1>5
<1>6. CASE filed = {}
  BY <1>1, <1>2, <1>3, <1>4, <1>6
<1> QED
  BY <1>5, <1>6

\* Where the transitions of a file are among those of the table: h places on, after h sentinels.
FileAt(raw, trans, h) ==
  /\ h \in {0, 1} /\ Len(trans) = Len(raw.times) + h
  /\ \A i \in 1..Len(raw.times) : trans[i + h].time = raw.times[i] /\ trans[i + h].index = raw.index[i]
  /\ h = 1 => trans[1].time = BigBang /\ trans[1].index = DefaultType(raw)

\* The table begins with the transitions of the file, after the sentinel if there is one.
LEMMA FileParts ==
  ASSUME NEW raw, IsFile(raw), DataOK(raw)
  PROVE  \E h : FileAt(raw, FileTransitions(raw), h)
<1> DEFINE file == [i \in 1..Len(raw.times) |-> Trans(raw.times[i], raw.index[i])]
           first == Trans(BigBang, DefaultType(raw))
           trans == FileTransitions(raw)
           n == Len(raw.times)
<1>1. raw.times \in Seq(Int) /\ n \in Nat
  BY DEF IsFile
<1>2. \A i \in 1..n : file[i].time = raw.times[i] /\ file[i].index = raw.index[i]
  <2>1. \A i \in 1..n : file[i] = Trans(raw.times[i], raw.index[i])
    OBVIOUS
  <2> QED
    BY <2>1 DEF Trans
<1>3. trans = IF file = <<>> \/ file[1].time >= 0 THEN <<first>> \o file ELSE file
  BY DEF FileTransitions
<1>4. first.time = BigBang /\ first.index = DefaultType(raw)
  BY DEF Trans
<1> DEFINE S == {file[i] : i \in 1..n} \cup {first}
<1>5. file \in Seq(S) /\ Len(file) = n
  <2>1. file \in [1..n -> S]
    OBVIOUS
  <2> HIDE DEF file, n, S
  <2> QED
    BY <1>1, <2>1
<1>6. <<first>> \in Seq(S) /\ Len(<<first>>) = 1 /\ <<first>>[1] = first
  <2>1. first \in S
    OBVIOUS
  <2> HIDE DEF first, S
  <2> QED
    BY <2>1
<1> HIDE DEF file, first, n, trans, S
<1>7. CASE file = <<>> \/ file[1].time >= 0
  <2>1. trans = <<first>> \o file
    BY <1>3, <1>7
  <2>2. /\ Len(trans) = n + 1 /\ trans[1] = first
        /\ \A i \in 2..n + 1 : trans[i] = file[i - 1]
    BY <1>1, <1>5, <1>6, <2>1
  <2>3. ASSUME NEW i \in 1..n PROVE trans[i + 1] = file[i]
    <3>1. i + 1 \in 2..n + 1 /\ i + 1 - 1 = i
      BY <1>1
    <3>2. trans[i + 1] = file[i + 1 - 1]
      BY <2>2, <3>1
    <3> QED
      BY <3>1, <3>2
  <2>4. FileAt(raw, trans, 1)
    BY <1>2, <1>4, <2>2, <2>3 DEF FileAt, n
  <2> QED
    BY <2>4 DEF trans
<1>8. CASE ~(file = <<>> \/ file[1].time >= 0)
  <2>1. trans = file
    BY <1>3, <1>8
  <2>2. Len(trans) = n + 0 /\ \A i \in 1..n : i + 0 = i
    BY <1>1, <1>5, <2>1
  <2>3. FileAt(raw, trans, 0)
    BY <1>2, <2>1, <2>2 DEF FileAt, n
  <2> QED
    BY <2>3 DEF trans
<1> QED
  BY <1>7, <1>8

\* The type the file gives at t is that of the place of t among the transitions.
LEMMA FiledAt ==
  ASSUME NEW raw, IsFile(raw), DataOK(raw), NEW trans, trans = FileTransitions(raw),
         NEW t \in Int, NEW q \in 0..Len(trans),
         q > 0 => trans[q].time <= t, q < Len(trans) => t < trans[q + 1].time
  PROVE  Filed(raw, t) = raw.types[(IF q = 0 THEN DefaultType(raw) ELSE trans[q].index) + 1]
<1> DEFINE n == Len(raw.times)
           filed == {i \in 1..n : raw.times[i] <= t}
<1>1. PICK h : FileAt(raw, trans, h)
  BY FileParts
<1>2. /\ h \in {0, 1} /\ Len(trans) = n + h
      /\ \A i \in 1..n : trans[i + h].time = raw.times[i] /\ trans[i + h].index = raw.index[i]
      /\ h = 1 => trans[1].time = BigBang /\ trans[1].index = DefaultType(raw)
  BY <1>1 DEF FileAt
<1>3. n \in Nat /\ (\A i \in 1..n : raw.times[i] \in Int /\ BigBang <= raw.times[i]) /\ BigBang \in Int
  <2>1. raw.times \in Seq(Int) /\ \A i \in 1..n : BigBang <= raw.times[i]
    BY DEF IsFile
  <2> QED
    BY <2>1, TimesAssumption
<1>4. \A i, j \in 1..n : i < j => raw.times[i] < raw.times[j]
  <2> DEFINE f == raw.times
  <2>1. \A i \in 2..n : f[i - 1] < f[i]
    BY DEF DataOK
  <2>2. ASSUME NEW i \in 1..n - 1 PROVE f[i] < f[i + 1]
    <3>1. PICK j \in 2..n : j = i + 1 /\ j - 1 = i
      BY <1>3
    <3>2. f[j - 1] < f[j]
      BY <2>1
    <3> QED
      BY <3>1, <3>2
  <2> HIDE DEF f
  <2>3. 1 \in Int /\ n \in Int /\ (\A i \in 1..n : f[i] \in Int) /\ (\A i \in 1..n - 1 : f[i] < f[i + 1])
    BY <1>3, <2>2 DEF f
  <2>4. \A i, j \in 1..n : i < j => f[i] < f[j]
    <3> HIDE DEF n
    <3> QED
      BY <2>3, Rising
  <2> QED
    BY <2>4 DEF f
<1>5. Filed(raw, t) = raw.types[(IF filed = {} THEN DefaultType(raw)
                         ELSE raw.index[CHOOSE i \in filed : \A j \in filed : j <= i]) + 1]
  BY DEF Filed
<1>6. CASE q <= h
  <2>1. ASSUME NEW i \in 1..n PROVE ~(raw.times[i] <= t)
    <3>1. CASE q < h
      <4>1. q = 0 /\ h = 1 /\ q < Len(trans) /\ q + 1 = 1
        BY <1>2, <1>3, <3>1
      <4>2. t < BigBang
        BY <1>2, <4>1
      <4> QED
        BY <1>3, <4>2
    <3>2. CASE q = h
      <4>1. 1 \in 1..n /\ q < Len(trans) /\ q + 1 = 1 + h /\ (i = 1 \/ 1 < i)
        BY <1>2, <1>3, <3>2
      <4>2. t < raw.times[1]
        BY <1>2, <4>1
      <4>3. raw.times[1] <= raw.times[i]
        BY <1>3, <1>4, <4>1
      <4> QED
        BY <1>3, <4>1, <4>2, <4>3
    <3> QED
      BY <1>2, <1>6, <3>1, <3>2
  <2>2. filed = {}
    BY <2>1
  <2>3. q = 0 \/ trans[q].index = DefaultType(raw)
    BY <1>2, <1>6
  <2> HIDE DEF filed
  <2> QED
    BY <1>5, <2>2, <2>3
<1>7. CASE h < q
  <2> DEFINE k == q - h
  <2>1. k \in 1..n /\ k + h = q /\ q > 0
    BY <1>2, <1>3, <1>7
  <2> HIDE DEF k
  <2>2. raw.times[k] <= t /\ trans[q].index = raw.index[k]
    BY <1>2, <2>1
  <2>3. ASSUME NEW i \in 1..n, k < i PROVE ~(raw.times[i] <= t)
    <3>1. k + 1 \in 1..n /\ k + 1 + h = q + 1 /\ q < Len(trans) /\ (i = k + 1 \/ k + 1 < i)
      BY <1>2, <1>3, <2>1, <2>3
    <3>2. t < raw.times[k + 1]
      BY <1>2, <3>1
    <3>3. raw.times[k + 1] <= raw.times[i]
      BY <1>3, <1>4, <3>1
    <3> QED
      BY <1>3, <3>1, <3>2, <3>3
  <2>4. k \in filed /\ \A j \in filed : j <= k
    <3>1. ASSUME NEW j \in filed PROVE j <= k
      <4>1. j \in 1..n /\ raw.times[j] <= t
        OBVIOUS
      <4> QED
        BY <1>3, <2>1, <2>3, <4>1
    <3> QED
      BY <2>1, <2>2, <3>1
  <2>5. \A i \in filed : i \in Int
    BY <1>3
  <2> HIDE DEF filed
  <2>6. (CHOOSE i \in filed : \A j \in filed : j <= i) = k
    <3>1. \A i \in filed : (\A j \in filed : j <= i) => i = k
      BY <2>4, <2>5
    <3> QED
      BY <2>4, <3>1
  <2>7. filed # {}
    BY <2>4
  <2> DEFINE c == CHOOSE i \in filed : \A j \in filed : j <= i
  <2>8. c = k
    BY <2>6
  <2>9. Filed(raw, t) = raw.types[(IF filed = {} THEN DefaultType(raw) ELSE raw.index[c]) + 1]
    BY <1>5
  <2> HIDE DEF c
  <2>10. Filed(raw, t) = raw.types[raw.index[k] + 1]
    BY <2>7, <2>8, <2>9
  <2>11. q # 0
    BY <2>1
  <2> QED
    BY <2>2, <2>10, <2>11
<1> QED
  BY <1>2, <1>6, <1>7

\* A table with the changes of the rule after its own transitions, from the one after the m-th
\* to the last one before year y.
ExtendedBy(T, rule, s, d, trans, m, y) ==
  /\ m \in Int /\ Len(trans) <= Len(T) /\ m + (Len(T) - Len(trans)) = 2 * y - 1
  /\ \A i \in 1..Len(trans) : T[i] = trans[i]
  /\ \A i \in 1..Len(T) - Len(trans) : T[Len(trans) + i] = Change(rule, s, d, m + i)

\* A year more.
LEMMA ExtendedYear ==
  ASSUME NEW raw, IsFile(raw), Dated(raw.rule), NEW n \in Nat, NEW s \in Nat, NEW d \in Nat,
         s < n, d < n, NEW trans, Ordered(trans, n), NEW y \in Int, NEW m, NEW U,
         Ordered(U, n), ExtendedBy(U, raw.rule, s, d, trans, m, y),
         U[Len(U)].time < Change(raw.rule, s, d, 2 * y).time
  PROVE  LET V == U \o RulePair(raw.rule, s, d, y) IN
         /\ Ordered(V, n) /\ ExtendedBy(V, raw.rule, s, d, trans, m, y + 1)
         /\ V[Len(V)].time < Change(raw.rule, s, d, 2 * (y + 1)).time
<1> DEFINE q == RulePair(raw.rule, s, d, y)
           C(k) == Change(raw.rule, s, d, k)
           V == U \o q
           l == Len(trans)
           w == Len(U)
<1>1. /\ q \in Seq(Moments) /\ Len(q) = 2 /\ q[1].time < q[2].time
      /\ q[1].index < n /\ q[2].index < n
  BY PairOrdered DEF IsPair
<1>2. q[1] = C(2 * y) /\ q[2] = C(2 * y + 1) /\ C(2 * y + 1).time < C(2 * (y + 1)).time
  <2>1. 2 * y + 1 \in Int /\ 2 * (y + 1) \in Int /\ 2 * y + 1 < 2 * (y + 1)
    OBVIOUS
  <2> QED
    BY <2>1, ChangeOf, ChangesRise
<1> HIDE DEF q, C
<1>3. U[w].time < q[1].time
  BY <1>2 DEF C
<1>4. w \in Nat /\ l \in Nat /\ w > 0
  <2>1. U \in Seq(Moments) /\ trans \in Seq(Moments) /\ w > 0
    BY DEF Ordered
  <2> QED
    BY <2>1
<1>5. /\ Ordered(V, n) /\ Len(V) = w + 2
      /\ \A i \in 1..w : V[i] = U[i]
      /\ V[w + 1] = q[1] /\ V[w + 2] = q[2]
  <2>1. /\ Len(q) > 0 /\ \A i \in 1..Len(q) : q[i].index < n
        /\ \A i \in 1..Len(q) - 1 : q[i].time < q[i + 1].time
    BY <1>1
  <2>2. /\ Ordered(V, n) /\ Len(V) = Len(U) + Len(q)
        /\ \A i \in 1..Len(U) : V[i] = U[i]
        /\ \A i \in 1..Len(q) : V[Len(U) + i] = q[i]
    <3>1. /\ q \in Seq(Moments) /\ Len(q) > 0 /\ U[Len(U)].time < q[1].time
          /\ \A i \in 1..Len(q) : q[i].index < n
          /\ \A i \in 1..Len(q) - 1 : q[i].time < q[i + 1].time
      BY <1>1, <1>3, <2>1
    <3> QED
      BY <3>1, Appended
  <2>3. 1 \in 1..Len(q) /\ 2 \in 1..Len(q)
    BY <1>1
  <2> QED
    BY <1>1, <2>2, <2>3
<1>6. /\ m \in Int /\ l <= w /\ m + (w - l) = 2 * y - 1
      /\ \A i \in 1..l : U[i] = trans[i]
      /\ \A i \in 1..w - l : U[l + i] = C(m + i)
  BY DEF ExtendedBy, C
<1> HIDE DEF V, w, l
<1>7. l <= Len(V) /\ m + (Len(V) - l) = 2 * (y + 1) - 1 /\ Len(V) - l = w - l + 2
  BY <1>4, <1>5, <1>6
<1>8. ASSUME NEW i \in 1..l PROVE V[i] = trans[i]
  <2>1. i \in 1..w
    BY <1>4, <1>6
  <2> QED
    BY <1>5, <1>6, <2>1
<1>9. ASSUME NEW i \in 1..Len(V) - l PROVE V[l + i] = C(m + i)
  <2>1. CASE i \in 1..w - l
    <3>1. l + i \in 1..w
      BY <1>4, <1>6, <2>1
    <3> QED
      BY <1>5, <1>6, <2>1, <3>1
  <2>2. CASE i = w - l + 1
    <3>1. l + i = w + 1 /\ m + i = 2 * y
      BY <1>4, <1>6, <2>2
    <3> QED
      BY <1>2, <1>5, <3>1
  <2>3. CASE i = w - l + 2
    <3>1. l + i = w + 2 /\ m + i = 2 * y + 1
      BY <1>4, <1>6, <2>3
    <3> QED
      BY <1>2, <1>5, <3>1
  <2>4. w - l \in Nat /\ i \in 1..w - l + 2
    BY <1>4, <1>6, <1>7
  <2>5. i \in 1..w - l \/ i = w - l + 1 \/ i = w - l + 2
    BY <2>4
  <2> QED
    BY <2>1, <2>2, <2>3, <2>5
<1>10. V[Len(V)].time < C(2 * (y + 1)).time
  BY <1>2, <1>5
<1>11. ExtendedBy(V, raw.rule, s, d, trans, m, y + 1)
  BY <1>6, <1>7, <1>8, <1>9 DEF ExtendedBy, C, l
<1> QED
  BY <1>5, <1>10, <1>11 DEF V, q, C

\* The first pass: the year of the last transition of the file, without the changes before it.
LEMMA ExtendedFirst ==
  ASSUME NEW raw, IsFile(raw), Dated(raw.rule), NEW n \in Nat, NEW s \in Nat, NEW d \in Nat,
         s < n, d < n, NEW trans, Ordered(trans, n), NEW x \in Clocks(raw), NEW first \in Int,
         YearStart(first) <= trans[Len(trans)].time + x.off,
         trans[Len(trans)].time + x.off < YearStart(first + 1)
  PROVE  LET lt == trans[Len(trans)].time
             V == trans \o After(RulePair(raw.rule, s, d, first), lt)
             C(k) == Change(raw.rule, s, d, k)
         IN  \E m \in Int :
               /\ Ordered(V, n) /\ ExtendedBy(V, raw.rule, s, d, trans, m, first + 1)
               /\ V[Len(V)].time < C(2 * (first + 1)).time
               /\ C(m).time <= lt /\ lt < C(m + 1).time
<1> DEFINE lt == trans[Len(trans)].time
           l == Len(trans)
           q == RulePair(raw.rule, s, d, first)
           C(k) == Change(raw.rule, s, d, k)
           A == After(q, lt)
           V == trans \o A
           Good(m) == /\ Ordered(V, n) /\ ExtendedBy(V, raw.rule, s, d, trans, m, first + 1)
                      /\ V[Len(V)].time < C(2 * (first + 1)).time
                      /\ C(m).time <= lt /\ lt < C(m + 1).time
<1>1. /\ q \in Seq(Moments) /\ Len(q) = 2 /\ q[1].time < q[2].time /\ q[2] \in Moments
      /\ q[1].time \in Int /\ q[2].time \in Int /\ q[1].index < n /\ q[2].index < n
  <2>1. IsPair(q, n)
    BY PairOrdered
  <2> HIDE DEF q
  <2> QED
    BY <2>1 DEF IsPair
<1>2. q[1] = C(2 * first) /\ q[2] = C(2 * first + 1)
  BY ChangeOf
<1>3. trans \in Seq(Moments) /\ l \in Nat /\ l > 0 /\ lt \in Int
  <2>1. trans \in Seq(Moments) /\ l > 0
    BY DEF Ordered
  <2>2. l \in 1..l
    BY <2>1
  <2>3. trans[l] \in Moments
    BY <2>1, <2>2
  <2> QED
    BY <2>1, <2>3 DEF Moments
<1>4. /\ 2 * first - 1 \in Int /\ 2 * (first + 1) \in Int /\ (2 * first - 1) \div 2 + 1 = first
      /\ (2 * (first + 1)) \div 2 = first + 1 /\ 2 * first + 1 < 2 * (first + 1)
      /\ 2 * first - 1 + 1 = 2 * first /\ 2 * first + 1 + 1 = 2 * (first + 1)
      /\ 2 * first \in Int /\ 2 * first + 1 \in Int /\ first + 1 \in Int
      /\ (2 * first - 1) \div 2 \in Int
  OBVIOUS
<1>5. x.off \in Int /\ YearStart(first) \in Int /\ YearStart(first + 1) \in Int
  BY <1>4, DatedFacts, YearStartNext
<1>6. C(2 * first - 1).time < lt /\ lt < C(2 * (first + 1)).time
  <2> DEFINE a == C(2 * first - 1).time
             b == C(2 * (first + 1)).time
  <2>1. a \in Int /\ a + x.off < YearStart(first)
    <3> DEFINE k == 2 * first - 1
    <3>1. k \in Int /\ k \div 2 + 1 = first
      BY <1>4
    <3> HIDE DEF k
    <3>2. C(k).time \in Int /\ C(k).time + x.off < YearStart(k \div 2 + 1)
      BY <3>1, ChangeInYear
    <3> QED
      BY <3>1, <3>2 DEF k
  <2>2. b \in Int /\ YearStart(first + 1) <= b + x.off
    <3> DEFINE k == 2 * (first + 1)
    <3>1. k \in Int /\ k \div 2 = first + 1
      BY <1>4
    <3> HIDE DEF k
    <3>2. C(k).time \in Int /\ YearStart(k \div 2) <= C(k).time + x.off
      BY <3>1, ChangeInYear
    <3> QED
      BY <3>1, <3>2 DEF k
  <2>3. YearStart(first) <= lt + x.off /\ lt + x.off < YearStart(first + 1)
    OBVIOUS
  <2> HIDE DEF a, b, lt
  <2>4. a < lt /\ lt < b
    BY <1>3, <1>5, <2>1, <2>2, <2>3
  <2> QED
    BY <2>4 DEF a, b
<1>7. C(2 * first + 1).time < C(2 * (first + 1)).time
  BY <1>4, ChangesRise
<1>8. C(2 * first - 1).time \in Int
  BY <1>4, ChangeInYear
<1> HIDE DEF q, C, lt
\* The pass in terms of what it appends.
<1>9. ASSUME NEW m \in Int, NEW B, A = B, B \in Seq(Moments), Len(B) \in Nat, Len(B) > 0,
             \A i \in 1..Len(B) : B[i].index < n /\ B[i] = C(m + i),
             \A i \in 1..Len(B) - 1 : B[i].time < B[i + 1].time,
             lt < B[1].time, B[Len(B)] = q[2], m + Len(B) = 2 * first + 1
      PROVE  /\ Ordered(V, n) /\ ExtendedBy(V, raw.rule, s, d, trans, m, first + 1)
             /\ V[Len(V)].time < C(2 * (first + 1)).time
  <2>1. trans[Len(trans)].time < B[1].time /\ \A i \in 1..Len(B) : B[i].index < n
    BY <1>9 DEF lt
  <2>2. /\ Ordered(trans \o B, n) /\ Len(trans \o B) = l + Len(B)
        /\ \A i \in 1..l : (trans \o B)[i] = trans[i]
        /\ \A i \in 1..Len(B) : (trans \o B)[l + i] = B[i]
    <3>1. /\ B \in Seq(Moments) /\ Len(B) > 0 /\ trans[Len(trans)].time < B[1].time
          /\ \A i \in 1..Len(B) : B[i].index < n
          /\ \A i \in 1..Len(B) - 1 : B[i].time < B[i + 1].time
      BY <1>9, <2>1
    <3>2. /\ Ordered(trans \o B, n) /\ Len(trans \o B) = Len(trans) + Len(B)
          /\ \A i \in 1..Len(trans) : (trans \o B)[i] = trans[i]
          /\ \A i \in 1..Len(B) : (trans \o B)[Len(trans) + i] = B[i]
      <4>1. n \in Nat /\ Ordered(trans, n)
        OBVIOUS
      <4> HIDE DEF A, V, l, Good
      <4> QED
        BY <3>1, <4>1, Appended, SMTT(60)
    <3> QED
      BY <3>2
  <2>3. V = trans \o B
    BY <1>9
  <2> HIDE DEF V, l
  <2>4. /\ Ordered(V, n) /\ Len(V) = l + Len(B) /\ Len(V) - l = Len(B) /\ l <= Len(V)
        /\ m + (Len(V) - l) = 2 * (first + 1) - 1
    <3>1. Ordered(V, n) /\ Len(V) = l + Len(B)
      BY <2>2, <2>3
    <3>2. m \in Int /\ Len(B) \in Nat /\ m + Len(B) = 2 * first + 1
      BY <1>9
    <3>3. Len(V) - l = Len(B) /\ l <= Len(V)
      BY <1>3, <3>1, <3>2
    <3> QED
      BY <3>1, <3>2, <3>3
  <2>5. \A i \in 1..Len(V) - l : V[l + i] = C(m + i)
    BY <1>9, <2>2, <2>3, <2>4
  <2>6. ExtendedBy(V, raw.rule, s, d, trans, m, first + 1)
    BY <2>2, <2>3, <2>4, <2>5 DEF ExtendedBy, C, l
  <2>7. V[Len(V)].time < C(2 * (first + 1)).time
    <3>1. Len(B) \in 1..Len(B)
      BY <1>9
    <3>2. V[Len(V)] = q[2]
      BY <1>9, <2>2, <2>3, <2>4, <3>1
    <3> QED
      BY <1>2, <1>7, <3>2
  <2> QED
    BY <2>4, <2>6, <2>7
<1>10. CASE lt >= q[2].time
  <2> DEFINE m == 2 * first + 1
  <2>1. A = <<>>
    BY <1>10 DEF After
  <2>2. V = trans
    BY <1>3, <2>1
  <2> HIDE DEF A, V
  <2>3. m \in Int /\ l <= l /\ m + (l - l) = 2 * (first + 1) - 1 /\ m + 1 = 2 * (first + 1)
        /\ 1..l - l = {}
    BY <1>3
  <2>4. ExtendedBy(V, raw.rule, s, d, trans, m, first + 1)
    BY <2>2, <2>3 DEF ExtendedBy
  <2>5. C(m).time <= lt /\ lt < C(m + 1).time
    BY <1>1, <1>2, <1>3, <1>6, <1>10, <2>3
  <2>6. V[Len(V)].time < C(2 * (first + 1)).time
    BY <1>6, <2>2 DEF lt
  <2>7. Good(m)
    BY <2>2, <2>4, <2>5, <2>6
  <2> QED
    BY <2>3, <2>7 DEF V, A, C, q, lt
<1>11. CASE ~(lt >= q[2].time) /\ lt < q[1].time
  <2> DEFINE m == 2 * first - 1
  <2>1. A = q
    BY <1>11 DEF After
  <2>2. m \in Int /\ m + 1 = 2 * first /\ m + 2 = 2 * first + 1
    BY <1>4
  <2> HIDE DEF m, A, V
  <2>3. /\ q \in Seq(Moments) /\ Len(q) \in Nat /\ Len(q) > 0
        /\ (\A i \in 1..Len(q) : q[i].index < n /\ q[i] = C(m + i))
        /\ (\A i \in 1..Len(q) - 1 : q[i].time < q[i + 1].time)
        /\ q[Len(q)] = q[2] /\ m + Len(q) = 2 * first + 1
    <3>1. \A i \in 1..Len(q) : i = 1 \/ i = 2
      BY <1>1
    <3>2. q[1] = C(m + 1) /\ q[2] = C(m + 2)
      BY <1>2, <2>2
    <3>3. \A i \in 1..Len(q) : q[i].index < n /\ q[i] = C(m + i)
      BY <1>1, <3>1, <3>2
    <3>4. \A i \in 1..Len(q) - 1 : q[i].time < q[i + 1].time
      BY <1>1
    <3> QED
      BY <1>1, <2>2, <3>3, <3>4
  <2>4. /\ Ordered(V, n) /\ ExtendedBy(V, raw.rule, s, d, trans, m, first + 1)
        /\ V[Len(V)].time < C(2 * (first + 1)).time
    BY <1>9, <1>11, <2>1, <2>2, <2>3
  <2>5. C(m).time <= lt /\ lt < C(m + 1).time
    <3>1. C(m).time < lt /\ C(m).time \in Int
      BY <1>6, <1>8 DEF m
    <3>2. lt < C(m + 1).time
      BY <1>2, <1>11, <2>2
    <3> QED
      BY <1>3, <3>1, <3>2
  <2>6. Good(m)
    BY <2>4, <2>5
  <2> QED
    BY <2>2, <2>6 DEF V, A, C, q, lt
<1>12. CASE ~(lt >= q[2].time) /\ ~(lt < q[1].time)
  <2> DEFINE m == 2 * first
             B == <<q[2]>>
  <2>1. A = B
    BY <1>12 DEF After
  <2>2. m \in Int /\ m + 1 = 2 * first + 1
    BY <1>4
  <2>3. B \in Seq(Moments) /\ Len(B) = 1 /\ B[1] = q[2]
    BY <1>1
  <2> HIDE DEF m, A, B, V
  <2>4. /\ B \in Seq(Moments) /\ Len(B) \in Nat /\ Len(B) > 0
        /\ (\A i \in 1..Len(B) : B[i].index < n /\ B[i] = C(m + i))
        /\ (\A i \in 1..Len(B) - 1 : B[i].time < B[i + 1].time)
        /\ B[Len(B)] = q[2] /\ m + Len(B) = 2 * first + 1 /\ lt < B[1].time
    <3>1. \A i \in 1..Len(B) : i = 1
      BY <2>3
    <3>2. B[1].index < n /\ B[1] = C(m + 1)
      BY <1>1, <1>2, <2>2, <2>3
    <3>3. \A i \in 1..Len(B) : B[i].index < n /\ B[i] = C(m + i)
      BY <3>1, <3>2
    <3>4. \A i \in 1..Len(B) - 1 : B[i].time < B[i + 1].time
      BY <2>3
    <3>5. lt < B[1].time
      BY <1>1, <1>3, <1>12, <2>3
    <3> QED
      BY <2>2, <2>3, <3>3, <3>4, <3>5
  <2>5. /\ Ordered(V, n) /\ ExtendedBy(V, raw.rule, s, d, trans, m, first + 1)
        /\ V[Len(V)].time < C(2 * (first + 1)).time
    BY <1>9, <2>1, <2>2, <2>4
  <2>6. C(m).time <= lt /\ lt < C(m + 1).time
    <3>1. C(m) = q[1] /\ C(m + 1) = q[2]
      BY <1>2, <2>2 DEF m
    <3> QED
      BY <1>1, <1>3, <1>12, <3>1
  <2>7. Good(m)
    BY <2>5, <2>6
  <2> QED
    BY <2>2, <2>7 DEF V, A, C, q, lt
<1> QED
  BY <1>10, <1>11, <1>12

\* What the loop of ExtendTransitions leaves: the table, and after it the changes of the rule.
LEMMA ExtendedChanges ==
  ASSUME NEW raw, IsFile(raw), Dated(raw.rule), NEW n \in Nat, NEW s \in Nat, NEW d \in Nat,
         s < n, d < n, NEW trans, Ordered(trans, n), NEW x \in Clocks(raw), NEW first \in Int,
         YearStart(first) <= trans[Len(trans)].time + x.off,
         trans[Len(trans)].time + x.off < YearStart(first + 1)
  PROVE  LET lt == trans[Len(trans)].time
             T == ExtendYears(raw.rule, s, d, trans, first, first + Cycle + 1)
             C(k) == Change(raw.rule, s, d, k)
         IN  \E m \in Int :
               /\ Ordered(T, n) /\ ExtendedBy(T, raw.rule, s, d, trans, m, first + Cycle + 2)
               /\ C(m).time <= lt /\ lt < C(m + 1).time
<1> DEFINE lt == trans[Len(trans)].time
           T == ExtendYears(raw.rule, s, d, trans, first, first + Cycle + 1)
           C(k) == Change(raw.rule, s, d, k)
           pair(y) == RulePair(raw.rule, s, d, y)
<1>1. PICK f : Passes(f, raw, s, d, trans, first)
  BY ExtendedSteps
<1>2. /\ f[1] = trans \o After(pair(first), lt)
      /\ \A k \in 1..Cycle + 1 : f[k + 1] = f[k] \o pair(first + k)
      /\ T = f[Cycle + 2]
  BY <1>1 DEF Passes
<1> HIDE DEF T
<1>3. PICK m \in Int : /\ Ordered(f[1], n) /\ ExtendedBy(f[1], raw.rule, s, d, trans, m, first + 1)
                       /\ f[1][Len(f[1])].time < C(2 * (first + 1)).time
                       /\ C(m).time <= lt /\ lt < C(m + 1).time
  <2> DEFINE V == trans \o After(pair(first), lt)
  <2>1. \E m \in Int :
               /\ Ordered(V, n) /\ ExtendedBy(V, raw.rule, s, d, trans, m, first + 1)
               /\ V[Len(V)].time < C(2 * (first + 1)).time
               /\ C(m).time <= lt /\ lt < C(m + 1).time
    BY ExtendedFirst
  <2>2. f[1] = V
    BY <1>2
  <2> HIDE DEF V, C, lt
  <2> QED
    BY <2>1, <2>2
<1> DEFINE Good(U, y) == /\ Ordered(U, n) /\ ExtendedBy(U, raw.rule, s, d, trans, m, y)
                         /\ U[Len(U)].time < C(2 * y).time
<1>4. ASSUME NEW U, NEW y \in Int, Good(U, y) PROVE Good(U \o pair(y), y + 1)
  BY <1>4, ExtendedYear
<1>5. Good(f[1], first + 1)
  BY <1>3
<1> HIDE DEF Good, pair
<1> DEFINE M == {k \in Nat : k <= Cycle + 1 => Good(f[k + 1], first + (k + 1))}
<1>6. Cycle \in Nat
  BY CycleFacts
<1>7. 0 \in M
  BY <1>5
<1>8. ASSUME NEW k \in Nat, k \in M PROVE k + 1 \in M
  <2>1. ASSUME k + 1 <= Cycle + 1 PROVE Good(f[k + 1 + 1], first + (k + 1 + 1))
    <3>1. k + 1 \in 1..Cycle + 1 /\ k <= Cycle + 1 /\ first + (k + 1) \in Int
          /\ first + (k + 1) + 1 = first + (k + 1 + 1)
      BY <1>6, <2>1
    <3>2. Good(f[k + 1], first + (k + 1))
      BY <1>8, <3>1
    <3>3. f[k + 1 + 1] = f[k + 1] \o pair(first + (k + 1))
      BY <1>2, <3>1
    <3>4. Good(f[k + 1] \o pair(first + (k + 1)), first + (k + 1) + 1)
      BY <1>4, <3>1, <3>2
    <3> QED
      BY <3>1, <3>3, <3>4
  <2> QED
    BY <2>1
<1>9. Cycle + 1 \in M
  <2>1. Cycle + 1 \in Nat
    BY <1>6
  <2> HIDE DEF M
  <2> QED
    BY <1>7, <1>8, <2>1, Induct
<1>10. Good(T, first + Cycle + 2)
  <2>1. Cycle + 1 + 1 = Cycle + 2 /\ first + (Cycle + 1 + 1) = first + Cycle + 2 /\ Cycle + 1 <= Cycle + 1
    BY <1>6
  <2>2. Good(f[Cycle + 1 + 1], first + (Cycle + 1 + 1))
    BY <1>9, <2>1
  <2> QED
    BY <1>2, <2>1, <2>2
<1>11. Ordered(T, n) /\ ExtendedBy(T, raw.rule, s, d, trans, m, first + Cycle + 2)
  BY <1>10 DEF Good
<1> QED
  BY <1>3, <1>11 DEF T

\* What WithCivil keeps of the transitions.
LEMMA CivilKeeps ==
  ASSUME NEW T, Len(T) \in Nat, NEW types, NEW default, zone.trans = WithCivil(T, types, default)
  PROVE  N = Len(T) /\ \A i \in 1..N : TimeAt(i) = T[i].time /\ zone.trans[i].index = T[i].index
<1> DEFINE n == Len(T)
           row(i) == [time |-> T[i].time, index |-> T[i].index,
                      civil_sec |-> T[i].time + types[T[i].index + 1].off,
                      prev_civil_sec |->
                        T[i].time + types[(IF i = 1 THEN default ELSE T[i - 1].index) + 1].off - 1]
<1>1. zone.trans = [i \in 1..n |-> row(i)]
  BY DEF WithCivil
<1>2. \A i : row(i).time = T[i].time /\ row(i).index = T[i].index
  OBVIOUS
<1> HIDE DEF row, n
<1>3. n \in Nat
  BY DEF n
<1>4. N = n
  <2> DEFINE S == {row(i) : i \in 1..n}
  <2>1. zone.trans \in [1..n -> S]
    BY <1>1
  <2> HIDE DEF S
  <2>2. Len(zone.trans) = n
    BY <1>3, <2>1
  <2> QED
    BY <2>2 DEF N
<1>5. \A i \in 1..n : zone.trans[i] = row(i)
  BY <1>1
<1> QED
  BY <1>2, <1>4, <1>5 DEF TimeAt, n

\* A table without changes of a rule: the transitions of the file, and perhaps a sentinel.
Plain(raw, trans) ==
  /\ ~Dated(raw.rule) /\ zone.extended = FALSE
  /\ N \in Nat /\ Len(trans) <= N
  /\ \A i \in 1..Len(trans) : TimeAt(i) = trans[i].time /\ zone.trans[i].index = trans[i].index
  /\ \A i \in Len(trans)..N : zone.trans[i].index = trans[Len(trans)].index

\* A table with the changes of the rule, of types s and d, from the one after the m-th.
Ruled(raw, trans, s, d, m) ==
  /\ Dated(raw.rule) /\ zone.extended = TRUE
  /\ s \in Nat /\ d \in Nat /\ s < Len(zone.types) /\ d < Len(zone.types)
  /\ zone.types[s + 1] = raw.rule.std /\ zone.types[d + 1] = raw.rule.dst
  /\ \A i \in 1..Len(zone.types) : zone.types[i] \in Clocks(raw)
  /\ zone.last_year \in Int
  /\ N \in Nat /\ Len(trans) < N /\ m \in Int /\ m + (N - Len(trans)) = 2 * zone.last_year + 1
  /\ \A i \in 1..Len(trans) : TimeAt(i) = trans[i].time /\ zone.trans[i].index = trans[i].index
  /\ \A i \in 1..N - Len(trans) :
       /\ TimeAt(Len(trans) + i) = Change(raw.rule, s, d, m + i).time
       /\ zone.trans[Len(trans) + i].index = Change(raw.rule, s, d, m + i).index
  /\ Change(raw.rule, s, d, m).time <= trans[Len(trans)].time
  /\ trans[Len(trans)].time < Change(raw.rule, s, d, m + 1).time
  /\ \E x \in Clocks(raw) : trans[Len(trans)].time + x.off < YearStart(zone.last_year - Cycle)

\* A file that loads is a plain table, or one that its rule extends.
LEMMA FileTable ==
  ASSUME NEW raw, IsFile(raw), zone = LoadFile(raw), zone.ok
  PROVE  /\ zone.ok = TRUE /\ DataOK(raw) /\ zone.default = DefaultType(raw)
         /\ zone.types \in Seq(Types) /\ Len(raw.types) <= Len(zone.types)
         /\ \A i \in 1..Len(raw.types) : zone.types[i] = raw.types[i]
         /\ \/ Plain(raw, FileTransitions(raw))
            \/ \E s, d, m : Ruled(raw, FileTransitions(raw), s, d, m)
<1> DEFINE default == DefaultType(raw)
           trans == FileTransitions(raw)
           e == ExtendTransitions(raw.rule, raw.types, trans)
           last == e.trans[Len(e.trans)]
           whole == IF last.time < 0 THEN Append(e.trans, Trans(LateTime, last.index)) ELSE e.trans
           table == WithCivil(whole, e.types, default)
           full == [ok |-> TRUE, trans |-> table, types |-> e.types, default |-> default,
                    extended |-> e.extended, last_year |-> e.last_year]
           n == Len(e.types)
           lt == trans[Len(trans)].time
           x == raw.types[trans[Len(trans)].index + 1]
           year == Year(lt + x.off)
           l == Len(trans)
<1>1. zone = IF DataOK(raw) /\ e.ok /\ CivilOrder(table) THEN full ELSE Failed
  BY DEF LoadFile
<1>2. DataOK(raw) /\ e.ok /\ CivilOrder(table) /\ zone = full
  <2>1. Failed.ok = FALSE
    BY DEF Failed
  <2> HIDE DEF full, e, table
  <2> QED
    BY <1>1, <2>1
<1>3. /\ zone.trans = table /\ zone.types = e.types /\ zone.default = default /\ zone.ok = TRUE
      /\ zone.extended = e.extended /\ zone.last_year = e.last_year
  <2> HIDE DEF e, table, default
  <2> QED
    BY <1>2 DEF full
<1>4. Ordered(trans, Len(raw.types)) /\ (raw.times # <<>> => lt = raw.times[Len(raw.times)])
  BY <1>2, FileOrdered
<1>5. /\ e.types \in Seq(Types) /\ Len(raw.types) <= n
      /\ \A i \in 1..Len(raw.types) : e.types[i] = raw.types[i]
      /\ \/ e.trans = trans /\ e.extended = FALSE /\ ~Dated(raw.rule)
         \/ /\ Dated(raw.rule) /\ \A i \in 1..n : e.types[i] \in Clocks(raw)
            /\ e.extended = TRUE /\ e.last_year = year + Cycle + 1
            /\ \E s, d \in 0..n - 1 :
                 /\ e.types[s + 1] = raw.rule.std /\ e.types[d + 1] = raw.rule.dst
                 /\ e.trans = ExtendYears(raw.rule, s, d, trans, year, year + Cycle + 1)
  BY <1>2, ExtendCases
<1>6. /\ trans \in Seq(Moments) /\ l \in Nat /\ l > 0 /\ l \in 1..l
      /\ lt \in Int /\ trans[l].index \in Nat /\ trans[l].index < Len(raw.types)
  <2>1. trans \in Seq(Moments) /\ l > 0 /\ \A i \in 1..l : trans[i].index < Len(raw.types)
    BY <1>4 DEF Ordered
  <2>2. l \in Nat /\ l \in 1..l
    BY <2>1
  <2>3. trans[l] \in Moments
    BY <2>1, <2>2
  <2> QED
    BY <2>1, <2>2, <2>3 DEF Moments
<1>7. raw.types \in Seq(Types) /\ Len(raw.types) \in Nat /\ n \in Nat
  <2>1. raw.types \in Seq(Types)
    BY DEF IsFile
  <2> QED
    BY <1>5, <2>1
<1> HIDE DEF e, trans, default, whole, table, last, n, full
<1>8. CASE e.trans = trans /\ e.extended = FALSE /\ ~Dated(raw.rule)
  <2>1. /\ whole \in Seq(Moments \cup {Trans(LateTime, last.index)})
        /\ Len(whole) \in Nat /\ l <= Len(whole) /\ Len(whole) <= l + 1
        /\ (\A i \in 1..l : whole[i] = trans[i])
        /\ Len(whole) = l + 1 => whole[l + 1] = Trans(LateTime, trans[l].index)
    <3> DEFINE S == Moments \cup {Trans(LateTime, last.index)}
               c == Trans(LateTime, last.index)
    <3>1. last = trans[l] /\ trans \in Seq(S) /\ c \in S
      BY <1>6, <1>8 DEF last
    <3>2. whole = IF last.time < 0 THEN Append(trans, c) ELSE trans
      BY <1>8 DEF whole
    <3> HIDE DEF S, l
    <3>3. /\ Append(trans, c) \in Seq(S) /\ Len(Append(trans, c)) = Len(trans) + 1
          /\ \A i \in 1..Len(trans) : Append(trans, c)[i] = trans[i]
          /\ Append(trans, c)[Len(trans) + 1] = c
      BY <3>1
    <3>4. c = Trans(LateTime, trans[l].index)
      BY <3>1
    <3> HIDE DEF c
    <3>5. l = Len(trans) /\ l \in Nat
      BY <1>6 DEF l
    <3>6. CASE last.time < 0
      BY <3>2, <3>3, <3>4, <3>5, <3>6 DEF S
    <3>7. CASE ~(last.time < 0)
      <4>1. whole = trans
        BY <3>2, <3>7
      <4> QED
        BY <3>1, <3>5, <4>1 DEF S
    <3> QED
      BY <3>6, <3>7 DEF S, c
  <2>2. /\ N = Len(whole)
        /\ \A i \in 1..N : TimeAt(i) = whole[i].time /\ zone.trans[i].index = whole[i].index
    BY <1>3, <2>1, CivilKeeps DEF table
  <2> HIDE DEF l
  <2>3. N \in Nat /\ l <= N
    BY <2>1, <2>2
  <2>4. ASSUME NEW i \in 1..l PROVE TimeAt(i) = trans[i].time /\ zone.trans[i].index = trans[i].index
    <3>1. i \in 1..N
      BY <1>6, <2>3
    <3> QED
      BY <2>1, <2>2, <3>1
  <2>5. ASSUME NEW i \in l..N PROVE zone.trans[i].index = trans[l].index
    <3>1. i \in 1..N /\ (i = l \/ (i = l + 1 /\ Len(whole) = l + 1))
      BY <1>6, <2>1, <2>2
    <3>2. Trans(LateTime, trans[l].index).index = trans[l].index
      BY DEF Trans
    <3>3. CASE i = l
      BY <1>6, <2>4, <3>3
    <3>4. CASE i = l + 1 /\ Len(whole) = l + 1
      BY <2>1, <2>2, <3>1, <3>2, <3>4
    <3> QED
      BY <3>1, <3>3, <3>4
  <2>6. Plain(raw, trans)
    BY <1>3, <1>8, <2>3, <2>4, <2>5 DEF Plain, l
  <2> QED
    BY <1>2, <1>3, <1>5, <2>6 DEF trans, n, default
<1>9. CASE /\ Dated(raw.rule) /\ \A i \in 1..n : e.types[i] \in Clocks(raw)
           /\ e.extended = TRUE /\ e.last_year = year + Cycle + 1
           /\ \E s, d \in 0..n - 1 :
                /\ e.types[s + 1] = raw.rule.std /\ e.types[d + 1] = raw.rule.dst
                /\ e.trans = ExtendYears(raw.rule, s, d, trans, year, year + Cycle + 1)
  <2>1. PICK s \in 0..n - 1, d \in 0..n - 1 :
          /\ e.types[s + 1] = raw.rule.std /\ e.types[d + 1] = raw.rule.dst
          /\ e.trans = ExtendYears(raw.rule, s, d, trans, year, year + Cycle + 1)
    BY <1>9
  <2>2. s \in Nat /\ d \in Nat /\ s < n /\ d < n
    BY <1>7
  <2>3. x \in Clocks(raw) /\ x.off \in Int
    <3>1. trans[l].index + 1 \in 1..Len(raw.types)
      BY <1>6, <1>7
    <3>2. x \in Clocks(raw)
      BY <3>1 DEF Clocks, l
    <3> QED
      BY <1>9, <3>2, DatedFacts
  <2>4. -CycleSecs <= lt /\ CycleSecs \in Nat \ {0} /\ Cycle \in Nat \ {0}
    <3>1. raw.times # <<>> /\ -CycleSecs <= raw.times[Len(raw.times)]
      BY <1>9 DEF IsFile
    <3> QED
      BY <1>4, <3>1, YearsRise, CycleFacts
  <2> HIDE DEF x, lt
  <2>5. year \in Int /\ YearStart(year) <= lt + x.off /\ lt + x.off < YearStart(year + 1)
    <3> DEFINE cs == lt + x.off
    <3>1. cs \in Int /\ year = Year(cs)
      BY <1>6, <2>3 DEF lt
    <3> HIDE DEF cs, year
    <3>2. year \in Int /\ YearStart(year) <= cs /\ cs < YearStart(year + 1)
      BY <3>1, YearOf
    <3> QED
      BY <3>2 DEF cs
  <2> HIDE DEF year
  <2> DEFINE T == ExtendYears(raw.rule, s, d, trans, year, year + Cycle + 1)
             C(k) == Change(raw.rule, s, d, k)
  <2>6. Ordered(trans, n)
    <3>1. \A i \in 1..l : trans[i].index < n
      <4>1. ASSUME NEW i \in 1..l PROVE trans[i].index < n
        <5>1. trans[i].index < Len(raw.types) /\ trans[i] \in Moments
          BY <1>4, <1>6 DEF Ordered
        <5>2. trans[i].index \in Nat
          BY <5>1 DEF Moments
        <5> QED
          BY <1>5, <1>7, <5>1, <5>2
      <4> QED
        BY <4>1
    <3> QED
      BY <1>4, <3>1 DEF Ordered, l
  <2>7. PICK m \in Int : /\ Ordered(T, n) /\ ExtendedBy(T, raw.rule, s, d, trans, m, year + Cycle + 2)
                         /\ C(m).time <= lt /\ lt < C(m + 1).time
    <3>1. YearStart(year) <= trans[Len(trans)].time + x.off /\ trans[Len(trans)].time + x.off < YearStart(year + 1)
      BY <2>5 DEF lt
    <3>2. n \in Nat /\ Dated(raw.rule) /\ year \in Int /\ x \in Clocks(raw)
      BY <1>7, <1>9, <2>3, <2>5
    <3> HIDE DEF T
    <3>3. \E m \in Int : /\ Ordered(T, n) /\ ExtendedBy(T, raw.rule, s, d, trans, m, year + Cycle + 2)
                         /\ C(m).time <= trans[Len(trans)].time /\ trans[Len(trans)].time < C(m + 1).time
      BY <2>2, <2>6, <3>1, <3>2, ExtendedChanges DEF T
    <3> QED
      BY <3>3 DEF lt
  <2>8. e.trans = T /\ e.types[s + 1] = raw.rule.std /\ e.types[d + 1] = raw.rule.dst
    BY <2>1
  <2> DEFINE ly == year + Cycle + 1
             p == Len(T) - l
  <2>9. /\ ly \in Int /\ year + Cycle + 2 = ly + 1 /\ 2 * (ly + 1) - 1 = 2 * ly + 1 /\ ly - Cycle = year + 1
        /\ (2 * ly + 1) \div 2 = ly /\ 2 * ly + 1 \in Int /\ ly + 1 = year + Cycle + 2
    BY <2>4, <2>5
  <2> HIDE DEF T, C
  <2>10. /\ l <= Len(T) /\ m + p = 2 * ly + 1 /\ Len(T) \in Nat /\ T \in Seq(Moments)
         /\ \A i \in 1..l : T[i] = trans[i]
         /\ \A i \in 1..p : T[l + i] = C(m + i)
    <3>1. T \in Seq(Moments)
      BY <2>7 DEF Ordered
    <3>2. Len(T) \in Nat
      BY <3>1
    <3>3. /\ Len(trans) <= Len(T) /\ m + (Len(T) - Len(trans)) = 2 * (year + Cycle + 2) - 1
          /\ \A i \in 1..Len(trans) : T[i] = trans[i]
          /\ \A i \in 1..Len(T) - Len(trans) : T[Len(trans) + i] = C(m + i)
      BY <2>7 DEF ExtendedBy, C
    <3>4. 2 * (year + Cycle + 2) - 1 = 2 * ly + 1
      BY <2>9
    <3> HIDE DEF ly
    <3> QED
      BY <3>1, <3>2, <3>3, <3>4
  <2>11. C(2 * ly + 1).time \in Int /\ lt < C(2 * ly + 1).time /\ 0 <= C(2 * ly + 1).time
    <3> DEFINE k == 2 * ly + 1
               u == C(k).time
    <3>1. k \in Int /\ k \div 2 = ly
      BY <2>9
    <3> HIDE DEF k
    <3>2. u \in Int /\ YearStart(ly) <= u + x.off /\ u + x.off < YearStart(ly + 1)
      <4>1. Dated(raw.rule)
        BY <1>9
      <4>2. /\ C(k).time \in Int
            /\ YearStart(k \div 2) <= C(k).time + x.off /\ C(k).time + x.off < YearStart(k \div 2 + 1)
        BY <2>2, <2>3, <3>1, <4>1, ChangeInYear DEF C
      <4> QED
        BY <3>1, <4>2
    <3> HIDE DEF u
    <3>3. lt + CycleSecs < u
      <4>1. YearStart(year + Cycle + 1) <= u + x.off /\ u + x.off < YearStart(year + Cycle + 2)
        BY <2>9, <3>2
      <4>2. lt \in Int /\ u \in Int /\ x.off \in Int /\ year \in Int
        BY <1>6, <2>3, <2>5, <3>2
      <4> QED
        BY <2>5, <4>1, <4>2, ExtendedEnds
    <3>4. lt < u /\ 0 <= u
      BY <1>6, <2>4, <3>2, <3>3
    <3> QED
      BY <3>2, <3>4 DEF u, k
  <2> HIDE DEF ly
  <2>12. p \in Nat \ {0}
    <3>1. p \in Nat
      BY <1>6, <2>10
    <3>2. p # 0
      <4>1. ASSUME p = 0 PROVE FALSE
        <5>1. m = 2 * ly + 1
          BY <2>9, <2>10, <4>1
        <5>2. C(2 * ly + 1).time <= lt
          BY <2>7, <5>1
        <5> QED
          BY <1>6, <2>11, <5>2
      <4> QED
        BY <4>1
    <3> QED
      BY <3>1, <3>2
  <2>13. T[Len(T)] = C(2 * ly + 1)
    <3>1. p \in 1..p /\ l + p = Len(T)
      BY <1>6, <2>10, <2>12
    <3> HIDE DEF p, l
    <3> QED
      BY <2>10, <3>1
  <2>14. whole = T
    <3>1. last = C(2 * ly + 1)
      BY <2>8, <2>13 DEF last
    <3>2. ~(last.time < 0)
      BY <2>11, <3>1
    <3> QED
      BY <2>8, <3>2 DEF whole
  <2>15. /\ N = Len(T)
         /\ \A i \in 1..N : TimeAt(i) = T[i].time /\ zone.trans[i].index = T[i].index
    BY <1>3, <2>10, <2>14, CivilKeeps DEF table
  <2> HIDE DEF l
  <2>16. /\ N \in Nat /\ l < N /\ N - l = p
    BY <1>6, <2>10, <2>12, <2>15
  <2> HIDE DEF p
  <2>17. ASSUME NEW i \in 1..l PROVE TimeAt(i) = trans[i].time /\ zone.trans[i].index = trans[i].index
    <3>1. i \in 1..N
      BY <1>6, <2>16
    <3> QED
      BY <2>10, <2>15, <3>1
  <2>18. ASSUME NEW i \in 1..p PROVE TimeAt(l + i) = C(m + i).time /\ zone.trans[l + i].index = C(m + i).index
    <3>1. l + i \in 1..N
      BY <1>6, <2>12, <2>16
    <3> QED
      BY <2>10, <2>15, <3>1
  <2>19. /\ zone.last_year = ly /\ zone.extended = TRUE /\ zone.types = e.types /\ n = Len(zone.types)
    BY <1>3, <1>9 DEF ly, n
  <2>20. \E c \in Clocks(raw) : lt + c.off < YearStart(ly - Cycle)
    BY <2>3, <2>5, <2>9
  <2>21. Ruled(raw, trans, s, d, m)
    <3>1. /\ Dated(raw.rule) /\ zone.extended = TRUE
          /\ s \in Nat /\ d \in Nat /\ s < Len(zone.types) /\ d < Len(zone.types)
          /\ zone.types[s + 1] = raw.rule.std /\ zone.types[d + 1] = raw.rule.dst
          /\ \A i \in 1..Len(zone.types) : zone.types[i] \in Clocks(raw)
      BY <1>9, <2>2, <2>8, <2>19
    <3>2. /\ zone.last_year \in Int
          /\ N \in Nat /\ Len(trans) < N /\ m \in Int /\ m + (N - Len(trans)) = 2 * zone.last_year + 1
      BY <2>9, <2>10, <2>16, <2>19 DEF l
    <3>3. /\ \A i \in 1..Len(trans) : TimeAt(i) = trans[i].time /\ zone.trans[i].index = trans[i].index
          /\ \A i \in 1..N - Len(trans) :
               /\ TimeAt(Len(trans) + i) = Change(raw.rule, s, d, m + i).time
               /\ zone.trans[Len(trans) + i].index = Change(raw.rule, s, d, m + i).index
      BY <2>16, <2>17, <2>18 DEF l, C
    <3>4. /\ Change(raw.rule, s, d, m).time <= trans[Len(trans)].time
          /\ trans[Len(trans)].time < Change(raw.rule, s, d, m + 1).time
          /\ \E c \in Clocks(raw) : trans[Len(trans)].time + c.off < YearStart(zone.last_year - Cycle)
      BY <2>7, <2>19, <2>20 DEF lt, C
    <3> QED
      BY <3>1, <3>2, <3>3, <3>4 DEF Ruled
  <2> QED
    BY <1>2, <1>3, <1>5, <2>21 DEF trans, n, default
<1> QED
  BY <1>5, <1>8, <1>9

\* The type of the file's q-th transition, or the default, is one of the table.
LEMMA FileTypes ==
  ASSUME NEW raw, IsFile(raw), DataOK(raw), Len(raw.types) <= Len(zone.types),
         zone.types \in Seq(Types), \A i \in 1..Len(raw.types) : zone.types[i] = raw.types[i],
         NEW trans, trans = FileTransitions(raw), NEW q \in 0..Len(trans)
  PROVE  LET k == IF q = 0 THEN DefaultType(raw) ELSE trans[q].index IN
         zone.types[k + 1] \in ZoneTypes /\ zone.types[k + 1] = raw.types[k + 1]
<1> DEFINE k == IF q = 0 THEN DefaultType(raw) ELSE trans[q].index
<1>1. raw.types \in Seq(Types) /\ Len(raw.types) \in Nat /\ Len(zone.types) \in Nat
  BY DEF IsFile
<1>2. Ordered(trans, Len(raw.types))
  BY FileOrdered
<1>3. k \in Nat /\ k < Len(raw.types)
  <2>1. CASE q = 0
    <3>1. DefaultType(raw) \in 0..Len(raw.types) - 1
      BY DefaultInRange
    <3> QED
      BY <1>1, <2>1, <3>1
  <2>2. CASE q # 0
    <3>1. trans \in Seq(Moments) /\ q \in 1..Len(trans)
      BY <1>2, <2>2 DEF Ordered
    <3>2. trans[q] \in Moments /\ trans[q].index < Len(raw.types)
      BY <1>2, <3>1 DEF Ordered
    <3> QED
      BY <2>2, <3>2 DEF Moments
  <2> QED
    BY <2>1, <2>2
<1> HIDE DEF k
<1>4. k + 1 \in 1..Len(raw.types) /\ k + 1 \in 1..Len(zone.types)
  BY <1>1, <1>3
<1>5. zone.types[k + 1] \in ZoneTypes /\ zone.types[k + 1] = raw.types[k + 1]
  BY <1>4 DEF ZoneTypes
<1> QED
  BY <1>5 DEF k

\* The same for the source.
LEMMA FiledHere ==
  ASSUME IsFile(source), DataOK(source), NEW t \in Int, NEW q \in 0..Len(FileTransitions(source)),
         q > 0 => FileTransitions(source)[q].time <= t,
         q < Len(FileTransitions(source)) => t < FileTransitions(source)[q + 1].time
  PROVE  Filed(source, t) =
           source.types[(IF q = 0 THEN DefaultType(source) ELSE FileTransitions(source)[q].index) + 1]
<1> DEFINE trans == FileTransitions(source)
<1>1. /\ IsFile(source) /\ DataOK(source) /\ trans = FileTransitions(source)
      /\ t \in Int /\ q \in 0..Len(trans)
      /\ (q > 0 => trans[q].time <= t) /\ (q < Len(trans) => t < trans[q + 1].time)
  OBVIOUS
<1> HIDE DEF trans
<1>2. Filed(source, t) = source.types[(IF q = 0 THEN DefaultType(source) ELSE trans[q].index) + 1]
  BY <1>1, FiledAt
<1> QED
  BY <1>2 DEF trans

\* A table without a rule tells what the file says.
LEMMA PlainTold ==
  ASSUME IsFile(source), zone.ok = TRUE, DataOK(source), zone.default = DefaultType(source),
         zone.types \in Seq(Types), Len(source.types) <= Len(zone.types),
         \A i \in 1..Len(source.types) : zone.types[i] = source.types[i],
         Plain(source, FileTransitions(source)), Rows
  PROVE  Told
<1> DEFINE trans == FileTransitions(source)
           l == Len(trans)
<1>1. /\ trans \in Seq(Moments) /\ l \in Nat /\ l > 0 /\ BigBang <= trans[1].time
  <2>1. Ordered(trans, Len(source.types)) /\ BigBang <= trans[1].time
    BY FileOrdered
  <2>2. trans \in Seq(Moments) /\ l > 0
    BY <2>1 DEF Ordered
  <2> QED
    BY <2>1, <2>2
<1>2. /\ ~Dated(source.rule) /\ zone.extended = FALSE
      /\ N \in Nat /\ l <= N
      /\ \A i \in 1..l : TimeAt(i) = trans[i].time /\ zone.trans[i].index = trans[i].index
      /\ \A i \in l..N : zone.trans[i].index = trans[l].index
  BY DEF Plain
<1>3. \A q \in 0..l :
        LET k == IF q = 0 THEN DefaultType(source) ELSE trans[q].index IN
        zone.types[k + 1] \in ZoneTypes /\ zone.types[k + 1] = source.types[k + 1]
  BY FileTypes
<1>4. \A i \in 1..N : TimeAt(i) \in Int
  BY DEF Rows
<1>5. BigBang <= TimeAt(1)
  BY <1>1, <1>2
<1> HIDE DEF l
\* The place in the file of a place in the table.
<1>6. ASSUME NEW p \in 0..N
      PROVE  \E q \in 0..l : /\ q <= p /\ (p <= l => q = p) /\ (p > l => q = l)
                             /\ Typ(p) = zone.types[(IF q = 0 THEN DefaultType(source) ELSE trans[q].index) + 1]
  <2>1. CASE p = 0
    BY <1>1, <2>1 DEF Typ, TypeOf
  <2>2. CASE p \in 1..l
    <3>1. p # 0 /\ p \in 0..l /\ p <= p /\ ~(p > l)
      BY <1>1, <2>2
    <3>2. Typ(p) = zone.types[trans[p].index + 1]
      BY <1>2, <2>2, <3>1 DEF Typ, TypeOf
    <3> QED
      BY <3>1, <3>2
  <2>3. CASE p > l
    <3>1. p # 0 /\ l # 0 /\ p \in l..N /\ l \in 0..l /\ l <= p /\ ~(p <= l)
      BY <1>1, <1>2, <2>3
    <3>2. Typ(p) = zone.types[trans[l].index + 1]
      BY <1>2, <3>1 DEF Typ, TypeOf
    <3> QED
      BY <3>1, <3>2
  <2> QED
    BY <1>1, <1>2, <2>1, <2>2, <2>3
<1>7. ASSUME NEW t \in Int, NEW p \in 0..N, UpTo(t, p) PROVE TypeAt(t) = Typ(p)
  <2>1. PICK q \in 0..l : /\ q <= p /\ (p <= l => q = p) /\ (p > l => q = l)
                          /\ Typ(p) = zone.types[(IF q = 0 THEN DefaultType(source) ELSE trans[q].index) + 1]
    BY <1>6
  <2>2. (\A i \in 1..p : TimeAt(i) <= t) /\ (p < N => t < TimeAt(p + 1))
    BY <1>7 DEF UpTo
  <2>3. q > 0 => trans[q].time <= t
    <3>1. q > 0 => q \in 1..p /\ q \in 1..l
      BY <1>1, <1>2, <2>1
    <3> QED
      BY <1>2, <2>2, <3>1
  <2>4. q < l => t < trans[q + 1].time
    <3>1. q < l => q = p /\ p < N /\ p + 1 \in 1..l
      BY <1>1, <1>2, <2>1
    <3> QED
      BY <1>2, <2>2, <3>1
  <2>5. Filed(source, t) = source.types[(IF q = 0 THEN DefaultType(source) ELSE trans[q].index) + 1]
    <3>1. /\ q \in 0..Len(FileTransitions(source)) /\ (q > 0 => FileTransitions(source)[q].time <= t)
          /\ (q < Len(FileTransitions(source)) => t < FileTransitions(source)[q + 1].time)
      BY <2>3, <2>4 DEF l
    <3> QED
      BY <3>1, FiledHere
  <2>6. TypeAt(t) = Filed(source, t)
    BY <1>2, UnruledType
  <2> HIDE DEF trans
  <2> QED
    BY <1>3, <2>1, <2>5, <2>6
<1>8. \A i \in 0..N : Typ(i) \in ZoneTypes
  <2>1. ASSUME NEW i \in 0..N PROVE Typ(i) \in ZoneTypes
    <3>1. PICK q \in 0..l : Typ(i) = zone.types[(IF q = 0 THEN DefaultType(source) ELSE trans[q].index) + 1]
      BY <1>6
    <3> HIDE DEF trans
    <3> QED
      BY <1>3, <3>1
  <2> QED
    BY <2>1
<1> HIDE DEF trans
<1>9. \A t \in Int : TypeAt(t) \in ZoneTypes
  <2>1. ASSUME NEW t \in Int PROVE TypeAt(t) \in ZoneTypes
    <3>1. PICK p \in 0..N : UpTo(t, p)
      BY Placed
    <3> QED
      BY <1>7, <1>8, <3>1
  <2> QED
    BY <2>1
<1>10. \A t \in Int : TimeAt(N) <= t => TypeAt(t) = Typ(N)
  <2>1. ASSUME NEW t \in Int, TimeAt(N) <= t PROVE TypeAt(t) = Typ(N)
    <3>1. N \in 0..N /\ ~(N < N)
      BY <1>2
    <3>2. UpTo(t, N)
      BY <2>1, <3>1, PlacedAt
    <3> QED
      BY <1>7, <3>1, <3>2
  <2> QED
    BY <2>1
<1> QED
  BY <1>2, <1>5, <1>7, <1>8, <1>9, <1>10 DEF Told

\* The types that the rule puts in force.
RuleGives(s, d) ==
  \A t, k \in Int : Between(source.rule, s, d, k, t) =>
    TypeAt(t) = IF LastOfFile < Change(source.rule, s, d, k).time
                THEN zone.types[Change(source.rule, s, d, k).index + 1] ELSE Filed(source, t)
RuleSides(s, d) ==
  /\ IsFile(source) /\ zone.ok = TRUE /\ Dated(source.rule) /\ s \in Nat /\ d \in Nat
  /\ zone.types[s + 1] = source.rule.std /\ zone.types[d + 1] = source.rule.dst
  /\ source.rule.std.off \in -SecsPerDay..SecsPerDay /\ LastOfFile \in Int

\* RuledType, for all the changes of the rule at once.
LEMMA RuleGivesTypes ==
  ASSUME NEW s, NEW d, RuleSides(s, d)
  PROVE  RuleGives(s, d)
<1>1. ASSUME NEW t \in Int, NEW k \in Int, Between(source.rule, s, d, k, t)
      PROVE  TypeAt(t) = IF LastOfFile < Change(source.rule, s, d, k).time
                         THEN zone.types[Change(source.rule, s, d, k).index + 1] ELSE Filed(source, t)
  <2>1. /\ IsFile(source) /\ zone.ok = TRUE /\ Dated(source.rule) /\ s \in Nat /\ d \in Nat
        /\ zone.types[s + 1] = source.rule.std /\ zone.types[d + 1] = source.rule.dst
        /\ source.rule.std.off \in -SecsPerDay..SecsPerDay /\ LastOfFile \in Int
        /\ t \in Int /\ k \in Int /\ Between(source.rule, s, d, k, t)
    BY <1>1 DEF RuleSides
  <2> QED
    BY <2>1, RuledType
<1> QED
  BY <1>1 DEF RuleGives

\* A table extended by a rule tells what the file and the rule say.
LEMMA RuledTold ==
  ASSUME IsFile(source), zone.ok = TRUE, DataOK(source), zone.default = DefaultType(source),
         zone.types \in Seq(Types), Len(source.types) <= Len(zone.types),
         \A i \in 1..Len(source.types) : zone.types[i] = source.types[i],
         NEW s, NEW d, NEW m, Ruled(source, FileTransitions(source), s, d, m), Rows, Regular(zone)
  PROVE  Told
<1> DEFINE trans == FileTransitions(source)
           l == Len(trans)
           lt == trans[Len(trans)].time
           C(k) == Change(source.rule, s, d, k)
           e == 2 * zone.last_year + 1
<1>1. /\ Dated(source.rule) /\ zone.extended = TRUE
      /\ s \in Nat /\ d \in Nat /\ s < Len(zone.types) /\ d < Len(zone.types)
      /\ zone.types[s + 1] = source.rule.std /\ zone.types[d + 1] = source.rule.dst
      /\ \A i \in 1..Len(zone.types) : zone.types[i] \in Clocks(source)
  BY DEF Ruled
<1>2. /\ zone.last_year \in Int
      /\ N \in Nat /\ l < N /\ m \in Int /\ m + (N - l) = e
      /\ \A i \in 1..l : TimeAt(i) = trans[i].time /\ zone.trans[i].index = trans[i].index
      /\ \A i \in 1..N - l :
           TimeAt(l + i) = C(m + i).time /\ zone.trans[l + i].index = C(m + i).index
  BY DEF Ruled
<1>3. /\ C(m).time <= lt /\ lt < C(m + 1).time
      /\ \E x \in Clocks(source) : lt + x.off < YearStart(zone.last_year - Cycle)
  BY DEF Ruled
<1>4. /\ trans \in Seq(Moments) /\ l \in Nat /\ l > 0 /\ BigBang <= trans[1].time
      /\ lt \in Int /\ lt = LastOfFile /\ \A i \in 1..l - 1 : trans[i].time < trans[i + 1].time
  <2>1. Ordered(trans, Len(source.types)) /\ BigBang <= trans[1].time
        /\ (source.times # <<>> => lt = source.times[Len(source.times)])
    BY FileOrdered
  <2>2. trans \in Seq(Moments) /\ l > 0 /\ \A i \in 1..l - 1 : trans[i].time < trans[i + 1].time
    BY <2>1 DEF Ordered
  <2>3. l \in Nat /\ l \in 1..l
    BY <2>2
  <2>4. trans[l] \in Moments
    BY <2>2, <2>3
  <2>5. lt \in Int
    BY <2>4 DEF Moments
  <2>6. source.times # <<>>
    BY <1>1 DEF IsFile
  <2>7. lt = LastOfFile
    BY <2>1, <2>6 DEF LastOfFile
  <2> HIDE DEF trans
  <2> QED
    BY <2>1, <2>2, <2>3, <2>5, <2>7
<1>5. \A q \in 0..l :
        LET k == IF q = 0 THEN DefaultType(source) ELSE trans[q].index IN
        zone.types[k + 1] \in ZoneTypes /\ zone.types[k + 1] = source.types[k + 1]
  BY FileTypes
<1>6. ZoneTypes \subseteq Clocks(source) /\ source.rule.std \in ZoneTypes /\ source.rule.dst \in ZoneTypes
  <2>1. s + 1 \in 1..Len(zone.types) /\ d + 1 \in 1..Len(zone.types)
    BY <1>1
  <2>2. zone.types[s + 1] \in ZoneTypes /\ zone.types[d + 1] \in ZoneTypes
    BY <2>1 DEF ZoneTypes
  <2>3. ZoneTypes \subseteq Clocks(source)
    BY <1>1 DEF ZoneTypes
  <2> QED
    BY <1>1, <2>2, <2>3
<1>7. source.rule.std.off \in -SecsPerDay..SecsPerDay
  <2>1. s + 1 \in 1..Len(zone.types)
    BY <1>1
  <2>2. zone.types[s + 1].off \in -SecsPerDay..SecsPerDay
    BY <2>1 DEF Regular
  <2>3. source.rule.std.off \in -SecsPerDay..SecsPerDay /\ SecsPerDay \in Nat
    BY <1>1, <2>2, TimesAssumption
  <2> QED
    BY <2>3
<1>8. /\ \A k \in Int : C(k).time \in Int /\ zone.types[C(k).index + 1] \in ZoneTypes
      /\ \A j, k \in Int : j < k => C(j).time < C(k).time
  <2>1. ASSUME NEW k \in Int PROVE C(k).time \in Int /\ zone.types[C(k).index + 1] \in ZoneTypes
    <3>1. C(k).time \in Int /\ C(k).index \in {s, d}
      BY <1>1, ChangeInYear
    <3> HIDE DEF C
    <3> QED
      BY <1>1, <1>6, <3>1
  <2>2. \A j, k \in Int : j < k => C(j).time < C(k).time
    BY <1>1, ChangesRise
  <2> QED
    BY <2>1, <2>2
<1>9. ASSUME NEW k \in Int, NEW x \in Clocks(source)
      PROVE  x.off \in Int /\ YearStart(k \div 2) <= C(k).time + x.off /\ C(k).time + x.off < YearStart(k \div 2 + 1)
  BY <1>1, ChangeInYear, DatedFacts
<1>10. ASSUME NEW t \in Int, NEW k \in Int, C(k).time <= t, t < C(k + 1).time
       PROVE  TypeAt(t) = IF lt < C(k).time THEN zone.types[C(k).index + 1] ELSE Filed(source, t)
  <2>1. RuleSides(s, d)
    BY <1>1, <1>4, <1>7 DEF RuleSides
  <2>2. RuleGives(s, d)
    BY <2>1, RuleGivesTypes
  <2>3. Between(source.rule, s, d, k, t)
    BY <1>10 DEF Between
  <2>4. TypeAt(t) = IF LastOfFile < C(k).time THEN zone.types[C(k).index + 1] ELSE Filed(source, t)
    BY <2>2, <2>3 DEF RuleGives
  <2> QED
    BY <1>4, <2>4
<1>11. \A t \in Int : \E k \in Int : C(k).time <= t /\ t < C(k + 1).time
  BY <1>1, ChangeBefore
<1>12. ASSUME NEW k \in Int
       PROVE  C(k + 2 * Cycle).time = C(k).time + CycleSecs /\ C(k + 2 * Cycle).index = C(k).index
  BY <1>1, ChangeCycles
<1> HIDE DEF C, lt, l
<1>13. \A t \in Int, q \in 0..l :
         (q > 0 => trans[q].time <= t) /\ (q < l => t < trans[q + 1].time)
         => Filed(source, t) = zone.types[(IF q = 0 THEN DefaultType(source) ELSE trans[q].index) + 1]
  <2>1. ASSUME NEW t \in Int, NEW q \in 0..l, q > 0 => trans[q].time <= t, q < l => t < trans[q + 1].time
        PROVE  Filed(source, t) = zone.types[(IF q = 0 THEN DefaultType(source) ELSE trans[q].index) + 1]
    <3>2. Filed(source, t) = source.types[(IF q = 0 THEN DefaultType(source) ELSE trans[q].index) + 1]
      <4>1. /\ q \in 0..Len(FileTransitions(source)) /\ (q > 0 => FileTransitions(source)[q].time <= t)
            /\ (q < Len(FileTransitions(source)) => t < FileTransitions(source)[q + 1].time)
        BY <2>1 DEF l
      <4> QED
        BY <4>1, FiledHere
    <3> HIDE DEF trans
    <3> QED
      BY <1>5, <3>2
  <2> QED
    BY <2>1
<1> HIDE DEF trans
\* After a change past the file, the changes alone count.
<1>14. ASSUME NEW k \in Int, lt < C(k).time, NEW t \in Int, C(k).time <= t
       PROVE  \E j \in Int : /\ k <= j /\ C(j).time <= t /\ t < C(j + 1).time
                             /\ TypeAt(t) = zone.types[C(j).index + 1]
  <2>1. PICK j \in Int : C(j).time <= t /\ t < C(j + 1).time
    BY <1>11
  <2>2. j + 1 \in Int /\ C(j + 1).time \in Int /\ C(k).time \in Int /\ C(j).time \in Int
    BY <1>8
  <2>3. ~(j < k)
    <3>1. ASSUME j < k PROVE FALSE
      <4>1. j + 1 = k \/ j + 1 < k
        BY <3>1
      <4>2. C(j + 1).time <= C(k).time
        BY <1>8, <2>2, <4>1
      <4> QED
        BY <1>14, <2>1, <2>2, <4>2
    <3> QED
      BY <3>1
  <2>4. k <= j /\ (k = j \/ k < j)
    BY <2>3
  <2>5. C(k).time <= C(j).time
    BY <1>8, <2>2, <2>4
  <2>6. lt < C(j).time
    BY <1>4, <1>14, <2>2, <2>5
  <2>7. TypeAt(t) = zone.types[C(j).index + 1]
    BY <1>10, <2>1, <2>6
  <2> QED
    BY <2>1, <2>4, <2>7
<1>15. e \in Int /\ m + 1 \in Int /\ m + 1 <= e /\ e - 2 * Cycle \in Int /\ e + 1 \in Int
       /\ e \div 2 = zone.last_year /\ (e + 1) \div 2 = zone.last_year + 1
       /\ (e - 2 * Cycle) \div 2 = zone.last_year - Cycle /\ e - 2 * Cycle + 2 * Cycle = e
       /\ e - 2 * Cycle <= e /\ zone.last_year - Cycle \in Int /\ zone.last_year + 1 \in Int
  <2>1. Cycle \in Nat /\ zone.last_year \in Int
    BY <1>2, CycleFacts
  <2>2. e - 2 * Cycle = 2 * (zone.last_year - Cycle) + 1 /\ e + 1 = 2 * (zone.last_year + 1)
        /\ zone.last_year - Cycle \in Int
    BY <2>1
  <2>3. \A y \in Int : (2 * y + 1) \div 2 = y /\ (2 * y) \div 2 = y
    OBVIOUS
  <2>4. e \div 2 = zone.last_year
    BY <2>1, <2>3
  <2>5. (e + 1) \div 2 = zone.last_year + 1
    <3> DEFINE y == zone.last_year + 1
    <3>1. y \in Int /\ e + 1 = 2 * y
      BY <2>1
    <3> HIDE DEF y, e
    <3>2. (e + 1) \div 2 = y
      BY <2>3, <3>1
    <3> QED
      BY <3>2 DEF y
  <2>6. (e - 2 * Cycle) \div 2 = zone.last_year - Cycle
    <3> DEFINE y == zone.last_year - Cycle
    <3>1. y \in Int /\ e - 2 * Cycle = 2 * y + 1
      BY <2>1
    <3> HIDE DEF y, e
    <3>2. (e - 2 * Cycle) \div 2 = y
      BY <2>3, <3>1
    <3> QED
      BY <3>2 DEF y
  <2>7. /\ e \in Int /\ m + 1 \in Int /\ m + 1 <= e
    BY <1>2, <1>4, <2>1
  <2>8. e - 2 * Cycle \in Int /\ e + 1 \in Int /\ e - 2 * Cycle + 2 * Cycle = e /\ e - 2 * Cycle <= e
        /\ zone.last_year - Cycle \in Int /\ zone.last_year + 1 \in Int
    <3> HIDE DEF e
    <3> QED
      BY <2>1, <2>7
  <2> HIDE DEF e
  <2> QED
    BY <2>4, <2>5, <2>6, <2>7, <2>8
<1>16. TimeAt(N) = C(e).time /\ zone.trans[N].index = C(e).index
  <2> DEFINE i == N - l
  <2>1. i \in 1..N - l /\ l + i = N /\ m + i = e
    BY <1>2, <1>4
  <2> HIDE DEF i, e
  <2> QED
    BY <1>2, <2>1
<1> HIDE DEF e
<1>17. lt < C(e - 2 * Cycle).time /\ C(e - 2 * Cycle).time = C(e).time - CycleSecs /\ lt < C(e).time
       /\ C(e).time \in Int /\ CycleSecs \in Nat
  <2> DEFINE k == e - 2 * Cycle
             u == C(k).time
             y == YearStart(zone.last_year - Cycle)
  <2>1. k \in Int /\ k \div 2 = zone.last_year - Cycle /\ k + 2 * Cycle = e
    BY <1>15
  <2> HIDE DEF k
  <2>2. PICK x \in Clocks(source) : lt + x.off < y
    BY <1>3
  <2>3. x.off \in Int /\ y <= u + x.off
    BY <1>9, <2>1
  <2>4. y \in Int /\ u \in Int
    BY <1>8, <1>15, <2>1, YearStartNext
  <2> HIDE DEF y
  <2>5. lt < u
    <3> HIDE DEF u
    <3> QED
      BY <1>4, <2>2, <2>3, <2>4
  <2>6. C(e).time = u + CycleSecs /\ CycleSecs \in Nat /\ C(e).time \in Int
    BY <1>8, <1>12, <1>15, <2>1, YearsRise
  <2>7. u = C(e).time - CycleSecs /\ lt < C(e).time
    <3> HIDE DEF u
    <3> QED
      BY <1>4, <2>4, <2>5, <2>6
  <2> QED
    BY <2>5, <2>6, <2>7 DEF u, k
<1>18. Typ(N) = zone.types[C(e).index + 1]
  <2>1. N # 0
    BY <1>2, <1>4
  <2> QED
    BY <1>16, <2>1 DEF Typ, TypeOf
<1>19. BigBang <= TimeAt(1)
  BY <1>2, <1>4
\* A place of the table, in the file or after it.
<1>20. ASSUME NEW p \in 0..l
       PROVE  Typ(p) = zone.types[(IF p = 0 THEN DefaultType(source) ELSE trans[p].index) + 1]
  BY <1>2, <1>4 DEF Typ, TypeOf
<1>21. ASSUME NEW p \in l + 1..N
       PROVE  Typ(p) = zone.types[C(m + (p - l)).index + 1] /\ TimeAt(p) = C(m + (p - l)).time
              /\ m + (p - l) \in Int
  <2> DEFINE i == p - l
  <2>1. i \in 1..N - l /\ l + i = p /\ m + i \in Int /\ p # 0
    BY <1>2, <1>4
  <2> HIDE DEF i
  <2>2. TimeAt(p) = C(m + i).time /\ zone.trans[p].index = C(m + i).index
    BY <1>2, <2>1
  <2>3. Typ(p) = zone.types[C(m + i).index + 1]
    BY <2>1, <2>2 DEF Typ, TypeOf
  <2> QED
    BY <2>1, <2>2, <2>3 DEF i
<1>22. \A i \in 0..N : Typ(i) \in ZoneTypes
  <2>1. ASSUME NEW i \in 0..N PROVE Typ(i) \in ZoneTypes
    <3>1. CASE i \in 0..l
      BY <1>5, <1>20, <3>1
    <3>2. CASE i \in l + 1..N
      BY <1>8, <1>21, <3>2
    <3> QED
      BY <1>2, <1>4, <3>1, <3>2
  <2> QED
    BY <2>1
<1>23. \A i, j \in 1..N : i < j => TimeAt(i) < TimeAt(j)
  BY RowsRise
<1>24. TimeAt(l) = lt /\ TimeAt(l + 1) = C(m + 1).time /\ \A i \in 1..N : TimeAt(i) \in Int
  <2>1. l \in 1..l /\ l + 1 \in l + 1..N /\ m + (l + 1 - l) = m + 1
    BY <1>2, <1>4
  <2>2. TimeAt(l) = trans[l].time /\ trans[l].time = lt
    BY <1>2, <2>1 DEF lt, l
  <2>3. TimeAt(l + 1) = C(m + (l + 1 - l)).time
    BY <1>21, <2>1
  <2>4. \A i \in 1..N : TimeAt(i) \in Int
    BY DEF Rows
  <2> QED
    BY <2>1, <2>2, <2>3, <2>4
<1>25. ASSUME NEW t \in Int, NEW p \in 0..N, UpTo(t, p), p < N PROVE TypeAt(t) = Typ(p)
  <2>1. (\A i \in 1..p : TimeAt(i) <= t) /\ t < TimeAt(p + 1)
    BY <1>25 DEF UpTo
  <2>2. CASE p < l
    <3>1. PICK k \in Int : C(k).time <= t /\ t < C(k + 1).time
      BY <1>11
    <3>2. p + 1 \in 1..l /\ p + 1 \in 1..N /\ l \in 1..N /\ (p + 1 = l \/ p + 1 < l) /\ p \in 0..l
      BY <1>2, <1>4, <2>2
    <3>3. TimeAt(p + 1) <= lt
      BY <1>23, <1>24, <3>2
    <3>4. ~(lt < C(k).time)
      <4>1. TimeAt(p + 1) \in Int /\ C(k).time \in Int
        BY <1>8, <1>24, <3>2
      <4> QED
        BY <1>4, <2>1, <3>1, <3>3, <4>1
    <3>5. TypeAt(t) = Filed(source, t)
      BY <1>10, <3>1, <3>4
    <3>6. (p > 0 => trans[p].time <= t) /\ t < trans[p + 1].time
      <4>1. p > 0 => p \in 1..p /\ p \in 1..l
        BY <3>2
      <4> QED
        BY <1>2, <2>1, <3>2, <4>1
    <3>7. Filed(source, t) = zone.types[(IF p = 0 THEN DefaultType(source) ELSE trans[p].index) + 1]
      BY <1>13, <3>2, <3>6
    <3> QED
      BY <1>20, <3>2, <3>5, <3>7
  <2>3. CASE p = l
    <3>1. l \in 1..p /\ l \in 1..l /\ l \in 0..l /\ l > 0 /\ ~(l < l) /\ l \in 1..N
      BY <1>2, <1>4, <2>3
    <3>2. lt <= t /\ t < C(m + 1).time
      BY <1>24, <2>1, <2>3, <3>1
    <3>3. C(m).time <= t /\ C(m).time \in Int /\ m \in Int
      BY <1>2, <1>3, <1>4, <1>8, <3>2
    <3>4. ~(lt < C(m).time)
      BY <1>3, <1>4, <3>3
    <3>5. TypeAt(t) = Filed(source, t)
      BY <1>10, <3>2, <3>3, <3>4
    <3>6. trans[l].time <= t
      BY <1>2, <1>24, <3>1, <3>2
    <3>7. Filed(source, t) = zone.types[(IF l = 0 THEN DefaultType(source) ELSE trans[l].index) + 1]
      BY <1>13, <3>1, <3>6
    <3>8. Typ(l) = zone.types[(IF l = 0 THEN DefaultType(source) ELSE trans[l].index) + 1]
      BY <1>20, <3>1
    <3> QED
      BY <2>3, <3>5, <3>7, <3>8
  <2>4. CASE p > l
    <3> DEFINE k == m + (p - l)
    <3>1. p \in l + 1..N /\ p + 1 \in l + 1..N /\ m + (p + 1 - l) = k + 1 /\ k \in Int /\ p \in 1..p
          /\ (m + 1 = k \/ m + 1 < k)
      BY <1>2, <1>4, <1>25, <2>4
    <3>2. Typ(p) = zone.types[C(k).index + 1] /\ TimeAt(p) = C(k).time
      BY <1>21, <3>1
    <3>3. TimeAt(p + 1) = C(k + 1).time
      <4> DEFINE r == p + 1
      <4>1. r \in l + 1..N /\ m + (r - l) = k + 1
        BY <1>2, <1>4, <3>1
      <4> HIDE DEF r, k
      <4>2. TimeAt(r) = C(m + (r - l)).time
        BY <1>21, <4>1
      <4> QED
        BY <4>1, <4>2 DEF r
    <3> HIDE DEF k
    <3>5. C(k).time <= t /\ t < C(k + 1).time
      BY <2>1, <3>1, <3>2, <3>3
    <3>6. lt < C(k).time
      <4>1. C(m + 1).time <= C(k).time /\ C(m + 1).time \in Int /\ C(k).time \in Int
        BY <1>8, <1>15, <3>1
      <4> QED
        BY <1>3, <1>4, <4>1
    <3>7. TypeAt(t) = zone.types[C(k).index + 1]
      BY <1>10, <3>1, <3>5, <3>6
    <3> QED
      BY <3>2, <3>7
  <2> QED
    BY <1>2, <1>4, <2>2, <2>3, <2>4
\* From the last transition on.
<1>26. ASSUME NEW t \in Int, TimeAt(N) <= t
       PROVE  /\ TypeAt(t) \in ZoneTypes
              /\ t < C(e + 1).time => TypeAt(t) = Typ(N)
  <2>1. PICK j \in Int : /\ e <= j /\ C(j).time <= t /\ t < C(j + 1).time
                         /\ TypeAt(t) = zone.types[C(j).index + 1]
    <3>1. e \in Int /\ lt < C(e).time /\ C(e).time <= t
      BY <1>15, <1>16, <1>17, <1>26
    <3> QED
      BY <1>14, <3>1
  <2>2. TypeAt(t) \in ZoneTypes
    BY <1>8, <2>1
  <2>3. ASSUME t < C(e + 1).time PROVE TypeAt(t) = Typ(N)
    <3>1. C(j).time \in Int /\ C(e + 1).time \in Int /\ e + 1 \in Int /\ e \in Int
      BY <1>8, <1>15
    <3>2. ~(e < j)
      <4>1. ASSUME e < j PROVE FALSE
        <5>1. e + 1 = j \/ e + 1 < j
          BY <3>1, <4>1
        <5>2. C(e + 1).time <= C(j).time
          BY <1>8, <3>1, <5>1
        <5> QED
          BY <2>1, <2>3, <3>1, <5>2
      <4> QED
        BY <4>1
    <3>3. j = e
      BY <2>1, <3>1, <3>2
    <3> QED
      BY <1>18, <2>1, <3>3
  <2> QED
    BY <2>2, <2>3
<1>27. \A t \in Int : TypeAt(t) \in ZoneTypes
  <2>1. ASSUME NEW t \in Int PROVE TypeAt(t) \in ZoneTypes
    <3>1. PICK p \in 0..N : UpTo(t, p)
      BY Placed
    <3>2. CASE p < N
      BY <1>22, <1>25, <3>1, <3>2
    <3>3. CASE p = N
      <4>1. N \in 1..p
        BY <1>2, <1>4, <3>3
      <4>2. TimeAt(N) <= t
        BY <3>1, <4>1 DEF UpTo
      <4> QED
        BY <1>26, <4>2
    <3> QED
      BY <1>2, <3>2, <3>3
  <2> QED
    BY <2>1
<1>28. \A t \in Int : TimeAt(N) - CycleSecs <= t => TypeAt(t + CycleSecs) = TypeAt(t)
  <2>1. ASSUME NEW t \in Int, TimeAt(N) - CycleSecs <= t PROVE TypeAt(t + CycleSecs) = TypeAt(t)
    <3> DEFINE k == e - 2 * Cycle
    <3>1. k \in Int /\ lt < C(k).time /\ C(k).time <= t
      BY <1>15, <1>16, <1>17, <2>1
    <3> HIDE DEF k
    <3>2. PICK j \in Int : /\ k <= j /\ C(j).time <= t /\ t < C(j + 1).time
                           /\ TypeAt(t) = zone.types[C(j).index + 1]
      BY <1>14, <3>1
    <3> DEFINE i == j + 2 * Cycle
               v == t + CycleSecs
    <3>3. i \in Int /\ i + 1 = j + 1 + 2 * Cycle /\ j + 1 \in Int /\ v \in Int /\ CycleSecs \in Nat
      <4>1. Cycle \in Nat /\ CycleSecs \in Nat
        BY <1>17, CycleFacts
      <4> QED
        BY <4>1
    <3>4. C(i).time = C(j).time + CycleSecs /\ C(i).index = C(j).index
      BY <1>12
    <3>5. C(i + 1).time = C(j + 1).time + CycleSecs
      BY <1>12, <3>3
    <3>6. C(j).time \in Int /\ C(j + 1).time \in Int /\ C(k).time \in Int /\ (k = j \/ k < j)
      BY <1>8, <3>1, <3>2, <3>3
    <3>7. C(i).time <= v /\ v < C(i + 1).time
      <4> HIDE DEF i
      <4> QED
        BY <3>2, <3>3, <3>4, <3>5, <3>6
    <3>8. lt < C(i).time
      <4>1. C(k).time <= C(j).time
        BY <1>8, <3>1, <3>6
      <4> HIDE DEF i
      <4> QED
        BY <1>4, <3>1, <3>3, <3>4, <3>6, <4>1
    <3>9. TypeAt(v) = zone.types[C(i).index + 1]
      <4> HIDE DEF i, v
      <4> QED
        BY <1>10, <3>3, <3>7, <3>8
    <3> QED
      BY <3>2, <3>4, <3>9
  <2> QED
    BY <2>1
<1>29. \A x \in ZoneTypes : TimeAt(N) + x.off < PastTable /\ PastTable <= C(e + 1).time + x.off
  <2>1. ASSUME NEW x \in ZoneTypes
        PROVE  TimeAt(N) + x.off < PastTable /\ PastTable <= C(e + 1).time + x.off
    <3>1. x \in Clocks(source) /\ e \in Int /\ e + 1 \in Int
      BY <1>6, <1>15
    <3>2. C(e).time + x.off < YearStart(e \div 2 + 1) /\ YearStart((e + 1) \div 2) <= C(e + 1).time + x.off
      BY <1>9, <3>1
    <3> QED
      BY <1>15, <1>16, <3>2 DEF PastTable
  <2> QED
    BY <2>1
<1>30. C(e + 1).time \in Int /\ TimeAt(N) < C(e + 1).time
  <2>1. e \in Int /\ e + 1 \in Int /\ e < e + 1
    BY <1>15
  <2> QED
    BY <1>8, <1>16, <2>1
<1>31. \E w \in Int : /\ TimeAt(N) < w
                      /\ \A t \in Int : TimeAt(N) <= t /\ t < w => TypeAt(t) = Typ(N)
                      /\ \A x \in ZoneTypes : PastTable <= w + x.off
  BY <1>26, <1>29, <1>30
<1> QED
  BY <1>1, <1>19, <1>22, <1>25, <1>27, <1>28, <1>29, <1>31 DEF Told

\* The table of a zone with a fixed offset tells its one type.
LEMMA FixedTold ==
  ASSUME NEW offset \in Int, zone.trans = ResetToBuiltinUTC(offset).trans,
         zone.types = ResetToBuiltinUTC(offset).types, zone.default = 0, zone.extended = FALSE,
         \A t \in Int : TypeAt(t) = Type(offset, FALSE, "fixed")
  PROVE  Told
<1> DEFINE ty == Type(offset, FALSE, "fixed")
<1>1. zone.types = <<ty>> /\ \A t \in Int : TypeAt(t) = ty
  BY DEF ResetToBuiltinUTC
<1> HIDE DEF ty
<1>2. Len(zone.types) = 1 /\ zone.types[1] = ty
  BY <1>1
<1>3. ty \in ZoneTypes
  BY <1>2 DEF ZoneTypes
<1>4. TimeAt(1) = BigBang /\ BigBang \in Int /\ N \in Nat /\ \A i \in 1..N : zone.trans[i].index = 0
  BY FixedRows, TimesAssumption DEF Rows
<1>5. ASSUME NEW i \in 0..N PROVE Typ(i) = ty
  <2>1. (IF i = 0 THEN zone.default ELSE zone.trans[i].index) = 0
    BY <1>4
  <2>2. Typ(i) = zone.types[0 + 1]
    BY <2>1 DEF Typ, TypeOf
  <2> QED
    BY <1>2, <2>2
<1>6. N \in 0..N
  BY <1>4
<1> QED
  BY <1>1, <1>3, <1>4, <1>5, <1>6 DEF Told

\* Every table that is loaded tells what its source says.
LEMMA LoadTold ==
  ASSUME source \in Sources, zone = Load(source)
  PROVE  Exactly
<1>1. Rows /\ Repeats
  BY LoadRows
<1>2. Regular(zone)
  BY TablesAssumption
<1>3. CASE source \in [fixed : -SecsPerDay..SecsPerDay]
  <2>1. source.fixed \in Int /\ "fixed" \in DOMAIN source
    BY <1>3
  <2>2. zone = ResetToBuiltinUTC(source.fixed)
    BY <2>1 DEF Load
  <2>3. zone.default = 0 /\ zone.extended = FALSE
    BY <2>2 DEF ResetToBuiltinUTC
  <2>4. \A t \in Int : TypeAt(t) = Type(source.fixed, FALSE, "fixed")
    BY <2>1 DEF TypeAt
  <2>5. Told
    BY <2>1, <2>2, <2>3, <2>4, FixedTold
  <2> QED
    BY <1>1, <1>2, <2>5 DEF Exactly
<1>4. CASE IsFile(source)
  <2>1. "fixed" \notin DOMAIN source
    BY <1>4 DEF IsFile
  <2>2. zone = LET file == LoadFile(source) IN
               IF file.ok THEN file ELSE [ResetToBuiltinUTC(0) EXCEPT !.ok = FALSE]
    BY <2>1 DEF Load
  <2>3. CASE LoadFile(source).ok
    <3>1. zone = LoadFile(source)
      BY <2>2, <2>3
    <3>2. /\ zone.ok = TRUE /\ DataOK(source) /\ zone.default = DefaultType(source)
          /\ zone.types \in Seq(Types) /\ Len(source.types) <= Len(zone.types)
          /\ \A i \in 1..Len(source.types) : zone.types[i] = source.types[i]
          /\ \/ Plain(source, FileTransitions(source))
             \/ \E s, d, m : Ruled(source, FileTransitions(source), s, d, m)
      BY <1>4, <2>3, <3>1, FileTable
    <3>3. CASE Plain(source, FileTransitions(source))
      <4>1. Told
        BY <1>1, <1>4, <3>2, <3>3, PlainTold
      <4> QED
        BY <1>1, <1>2, <4>1 DEF Exactly
    <3>4. CASE \E s, d, m : Ruled(source, FileTransitions(source), s, d, m)
      <4>1. PICK s, d, m : Ruled(source, FileTransitions(source), s, d, m)
        BY <3>4
      <4>2. Told
        BY <1>1, <1>2, <1>4, <3>2, <4>1, RuledTold
      <4> QED
        BY <1>1, <1>2, <4>2 DEF Exactly
    <3> QED
      BY <3>2, <3>3, <3>4
  <2>4. CASE ~LoadFile(source).ok
    <3> DEFINE utc == ResetToBuiltinUTC(0)
    <3>1. zone = [utc EXCEPT !.ok = FALSE]
      BY <2>2, <2>4
    <3>2. utc.default = 0 /\ utc.extended = FALSE
          /\ DOMAIN utc = {"ok", "trans", "types", "default", "extended", "last_year"}
      BY DEF ResetToBuiltinUTC
    <3> HIDE DEF utc
    <3>3. zone.trans = utc.trans /\ zone.types = utc.types /\ zone.default = utc.default
          /\ zone.extended = utc.extended /\ zone.ok = FALSE
      BY <3>1, <3>2
    <3>4. /\ zone.trans = ResetToBuiltinUTC(0).trans /\ zone.types = ResetToBuiltinUTC(0).types
          /\ zone.default = 0 /\ zone.extended = FALSE
      BY <3>2, <3>3 DEF utc
    <3>5. \A t \in Int : TypeAt(t) = Type(0, FALSE, "fixed")
      BY <2>1, <3>3 DEF TypeAt
    <3>6. 0 \in Int
      OBVIOUS
    <3>7. Told
      BY <3>4, <3>5, <3>6, FixedTold
    <3> QED
      BY <1>1, <1>2, <3>7 DEF Exactly
  <2> QED
    BY <2>3, <2>4
<1> QED
  BY <1>3, <1>4, SourcesAssumption DEF IsFile

-----------------------------------------------------------------------------
(* The threads *)

\* upper_bound finds a place, by either key.
LEMMA Searched ==
  ASSUME N \in Nat, NEW key, NEW t \in Int, \A i \in 1..N : zone.trans[i][key] \in Int
  PROVE  LET n == UpperBound(key, t) IN
         /\ n \in 0..N /\ (\A i \in 1..n : zone.trans[i][key] <= t)
         /\ n < N => t < zone.trans[n + 1][key]
<1> DEFINE f == [i \in 1..N |-> zone.trans[i][key]]
<1>1. \A i \in 1..N : f[i] \in Int /\ f[i] = zone.trans[i][key]
  OBVIOUS
<1> HIDE DEF f
<1>2. PICK p \in 0..N : (\A i \in 1..p : f[i] <= t) /\ (p < N => t < f[p + 1])
  BY <1>1, PlaceExists
<1>3. (\A i \in 1..p : zone.trans[i][key] <= t) /\ (p < N => t < zone.trans[p + 1][key])
  <2>1. \A i \in 1..p : i \in 1..N
    OBVIOUS
  <2>2. p < N => p + 1 \in 1..N
    OBVIOUS
  <2> QED
    BY <1>1, <1>2, <2>1, <2>2
<1> QED
  BY <1>3 DEF UpperBound

\* What MakeTime answers is made for the time asked about, when the place it takes is right.
LEMMA MakeAnswers ==
  ASSUME Rows, Repeats, NEW cs \in Int, NEW place,
         MakeSearches(cs) => At(YearShift(cs, -MakeShift(cs)), place)
  PROVE  MadeFor(cs, MakeAnswer(cs, place))
<1> DEFINE k == MakeShift(cs)
           c == cs - k * CycleSecs
<1>1. k \in Nat /\ CycleSecs \in Nat \ {0} /\ N \in Nat \ {0} /\ \A i \in 1..N : CivilAt(i) \in Int
  <2>1. CycleSecs \in Nat \ {0}
    BY YearsRise
  <2>2. k \in Nat
    BY ShiftOf
  <2>3. N \in Nat \ {0} /\ \A i \in 1..N : TimeAt(i) \in Int /\ CivilAt(i) = TimeAt(i) + Off(i) /\ Off(i) \in Int
    BY DEF Rows
  <2> HIDE DEF k
  <2> QED
    BY <2>1, <2>2, <2>3
<1>2. YearShift(cs, -k) = c /\ c \in Int
  <2> HIDE DEF k
  <2>1. k * CycleSecs \in Int /\ (-k) * CycleSecs = -(k * CycleSecs)
    BY <1>1
  <2> QED
    BY <2>1 DEF YearShift
<1> DEFINE known == CASE c < CivilAt(1) -> 0 [] c >= CivilAt(N) -> N [] OTHER -> place
<1>3. MakeAnswer(cs, place) = IF k = 0 THEN MakePlaced(c, known) ELSE TimeLocal(MakePlaced(c, known), k)
  BY <1>2 DEF MakeAnswer
<1>4. MakeSearches(cs) <=> CivilAt(1) <= c /\ c < CivilAt(N)
  BY <1>2 DEF MakeSearches
<1>5. 1 \in 1..N /\ N \in 1..N /\ CivilAt(1) \in Int /\ CivilAt(N) \in Int
  BY <1>1
<1>6. At(c, known)
  <2>1. CivilAt(1) <= CivilAt(N)
    BY <1>1, <1>5, RowsRise
  <2>2. CivilAt(1) <= c /\ c < CivilAt(N) => At(c, place)
    BY <1>2, <1>4
  <2> HIDE DEF c
  <2>3. CASE c < CivilAt(1)
    <3>1. known = 0
      BY <1>2, <1>5, <2>1, <2>3
    <3> QED
      BY <1>1, <2>3, <3>1 DEF At
  <2>4. CASE c >= CivilAt(N)
    <3>1. known = N
      BY <1>2, <1>5, <2>1, <2>4
    <3>2. ASSUME NEW i \in 1..N PROVE CivilAt(i) <= c
      <4>1. i = N \/ i < N
        BY <1>1
      <4>2. CivilAt(i) <= CivilAt(N)
        BY <1>1, <1>5, <4>1, RowsRise
      <4> QED
        BY <1>1, <1>2, <1>5, <2>4, <4>2
    <3> HIDE DEF known
    <3> QED
      BY <1>1, <3>1, <3>2 DEF At
  <2>5. CASE CivilAt(1) <= c /\ c < CivilAt(N)
    <3>1. known = place
      BY <1>2, <1>5, <2>5
    <3> QED
      BY <2>2, <2>5, <3>1
  <2> QED
    BY <1>2, <1>5, <2>3, <2>4, <2>5
<1> HIDE DEF known, c, k
<1>7. known \in 0..N
  BY <1>6 DEF At
<1> QED
  BY <1>3, <1>6, <1>7 DEF MadeFor, c, k

\* The place a search by civil time finds, and the one that a hint that hits names, are right.
LEMMA MakePlaces ==
  ASSUME Rows, Repeats, NEW cs \in Int
  PROVE  LET c == YearShift(cs, -MakeShift(cs)) IN
         /\ At(c, UpperBound("civil_sec", c)) /\ UpperBound("civil_sec", c) \in 0..N
         /\ \A hint \in 0..N : HintHits("civil_sec", hint, c) => At(c, hint)
<1> DEFINE c == YearShift(cs, -MakeShift(cs))
<1>1. c \in Int
  <2>1. MakeShift(cs) \in Nat /\ CycleSecs \in Nat \ {0}
    BY ShiftOf, YearsRise
  <2> QED
    BY <2>1 DEF YearShift
<1>2. N \in Nat \ {0} /\ \A i \in 1..N : zone.trans[i]["civil_sec"] \in Int /\ CivilAt(i) = zone.trans[i]["civil_sec"]
  <2>1. N \in Nat \ {0} /\ \A i \in 1..N : TimeAt(i) \in Int /\ CivilAt(i) = TimeAt(i) + Off(i) /\ Off(i) \in Int
    BY DEF Rows
  <2>2. \A i \in 1..N : CivilAt(i) = zone.trans[i]["civil_sec"]
    BY DEF CivilAt
  <2> QED
    BY <2>1, <2>2
<1> DEFINE n == UpperBound("civil_sec", c)
<1> HIDE DEF c
<1>3. /\ n \in 0..N /\ (\A i \in 1..n : zone.trans[i]["civil_sec"] <= c)
      /\ n < N => c < zone.trans[n + 1]["civil_sec"]
  BY <1>1, <1>2, Searched
<1> HIDE DEF n
<1>4. At(c, n)
  <2>1. \A i \in 1..n : i \in 1..N
    BY <1>2, <1>3
  <2>2. n < N => n + 1 \in 1..N
    BY <1>2, <1>3
  <2> QED
    BY <1>2, <1>3, <2>1, <2>2 DEF At
<1>5. ASSUME NEW hint \in 0..N, HintHits("civil_sec", hint, c) PROVE At(c, hint)
  <2>1. hint \in 1..N /\ hint + 1 \in 1..N
    BY <1>2, <1>5 DEF HintHits
  <2>2. CivilAt(hint) <= c /\ c < CivilAt(hint + 1)
    BY <1>2, <1>5, <2>1 DEF HintHits
  <2>3. ASSUME NEW i \in 1..hint PROVE CivilAt(i) <= c
    <3>1. i \in 1..N /\ (i = hint \/ i < hint)
      BY <1>2, <2>1
    <3>2. CivilAt(i) <= CivilAt(hint) /\ CivilAt(i) \in Int /\ CivilAt(hint) \in Int
      BY <1>2, <2>1, <3>1, RowsRise
    <3> QED
      BY <1>1, <2>2, <3>2
  <2> QED
    BY <2>2, <2>3 DEF At
<1> QED
  BY <1>3, <1>4, <1>5 DEF c, n

\* The cycles that BreakTime goes back.
LEMMA BreakShifted ==
  ASSUME Rows, NEW t \in Int
  PROVE  t - BreakShift(t) * CycleSecs \in Int
<1>1. CycleSecs \in Nat \ {0} /\ TimeAt(N) \in Int
  <2>1. N \in 1..N
    BY DEF Rows
  <2> QED
    BY <2>1, YearsRise DEF Rows
<1> DEFINE k == BreakShift(t)
           q == (t - TimeAt(N)) \div CycleSecs
<1>2. t - TimeAt(N) \in Int
  BY <1>1
<1>3. q \in Int
  BY <1>1, <1>2, Division
<1>4. k = IF t >= TimeAt(N) /\ zone.extended THEN q + 1 ELSE 0
  BY DEF BreakShift
<1> HIDE DEF q, k
<1>5. k \in Int
  BY <1>3, <1>4
<1>6. k * CycleSecs \in Int
  BY <1>1, <1>5
<1>7. t - k * CycleSecs \in Int
  BY <1>6
<1> QED
  BY <1>7 DEF k

\* The place a search by time finds, and the one that a hint that hits names, are right.
LEMMA BreakPlaces ==
  ASSUME Rows, NEW t \in Int, BreakSearches(t)
  PROVE  LET u == t - BreakShift(t) * CycleSecs IN
         /\ UpperBound("time", u) \in 0..N - 1 /\ UpTo(u, UpperBound("time", u))
         /\ \A hint \in 0..N - 1 : HintHits("time", hint, u) => UpTo(u, hint)
<1> DEFINE u == t - BreakShift(t) * CycleSecs
           n == UpperBound("time", u)
<1>1. u \in Int
  BY BreakShifted
<1>2. TimeAt(1) <= u /\ u < TimeAt(N)
  BY DEF BreakSearches
<1> HIDE DEF u
<1>3. N \in Nat \ {0} /\ \A i \in 1..N : TimeAt(i) \in Int /\ TimeAt(i) = zone.trans[i]["time"]
  BY DEF Rows, TimeAt
<1>4. n \in 0..N /\ (\A i \in 1..n : zone.trans[i]["time"] <= u) /\ (n < N => u < zone.trans[n + 1]["time"])
  BY <1>1, <1>3, Searched
<1> HIDE DEF n
<1>5. UpTo(u, n)
  <2>1. (\A i \in 1..n : i \in 1..N) /\ (n < N => n + 1 \in 1..N)
    BY <1>3, <1>4
  <2> QED
    BY <1>3, <1>4, <2>1 DEF UpTo
<1>6. n # N
  <2>1. ASSUME n = N PROVE FALSE
    <3>1. N \in 1..n /\ N \in 1..N
      BY <1>3, <2>1
    <3>2. TimeAt(N) <= u /\ TimeAt(N) \in Int
      BY <1>3, <1>5, <3>1 DEF UpTo
    <3> QED
      BY <1>1, <1>2, <3>2
  <2> QED
    BY <2>1
<1>7. n \in 0..N - 1
  BY <1>3, <1>4, <1>6
<1>8. ASSUME NEW hint \in 0..N - 1, HintHits("time", hint, u) PROVE UpTo(u, hint)
  <2>1. hint \in 1..N /\ hint + 1 \in 1..N /\ hint \in 0..N
    BY <1>3, <1>8 DEF HintHits
  <2>2. TimeAt(hint) <= u /\ u < TimeAt(hint + 1)
    BY <1>3, <1>8, <2>1 DEF HintHits
  <2> QED
    BY <1>1, <2>1, <2>2, PlacedAt
<1> QED
  BY <1>5, <1>7, <1>8 DEF n, u

\* A search by civil time does not find the end of the table.
LEMMA MakeInside ==
  ASSUME Rows, Repeats, NEW cs \in Int, MakeSearches(cs)
  PROVE  UpperBound("civil_sec", YearShift(cs, -MakeShift(cs))) \in 0..N - 1
<1> DEFINE c == YearShift(cs, -MakeShift(cs))
           n == UpperBound("civil_sec", c)
<1>1. At(c, n) /\ n \in 0..N
  BY MakePlaces
<1>2. c < CivilAt(N)
  BY DEF MakeSearches
<1>3. c \in Int
  <2>1. MakeShift(cs) \in Nat /\ CycleSecs \in Nat \ {0}
    BY ShiftOf, YearsRise
  <2> QED
    BY <2>1 DEF YearShift
<1> HIDE DEF c, n
<1>4. N \in Nat \ {0} /\ CivilAt(N) \in Int
  <2>1. N \in 1..N /\ N \in 0..N /\ N \in Nat \ {0}
    BY DEF Rows
  <2>2. TimeAt(N) \in Int /\ CivilAt(N) = TimeAt(N) + Off(N) /\ Off(N) \in Int
    BY <2>1 DEF Rows
  <2> QED
    BY <2>1, <2>2
<1>5. n # N
  <2>1. ASSUME n = N PROVE FALSE
    <3>1. N \in 1..n
      BY <1>4, <2>1
    <3>2. CivilAt(N) <= c
      BY <1>1, <3>1 DEF At
    <3> QED
      BY <1>2, <1>3, <1>4, <3>2
  <2> QED
    BY <2>1
<1>6. n \in 0..N - 1
  BY <1>1, <1>4, <1>5
<1> QED
  BY <1>6 DEF n, c

\* The seconds and the units of a value cut to the scale, for a value from 1970 on ...
LEMMA CutAfter ==
  ASSUME NEW v \in Nat, NEW factor \in Nat \ {0}
  PROVE  LET x == as_timestamp(v, factor)
             units == TowardsZero(v * factor, Ticks)
         IN  x.sec = v \div Ticks /\ units \div factor = x.sec /\ units % factor = x.fract
<1>t. Ticks \in Nat \ {0}
  BY ScalesAssumption
<1> DEFINE q == v \div Ticks
           r == v % Ticks
           rf == r * factor
           qf == q * factor
           u == rf \div Ticks
           e == rf % Ticks
<1>1. q \in Int /\ r \in 0..Ticks - 1 /\ v = Ticks * q + r
  BY <1>t, Division
<1>2. as_timestamp(v, factor).sec = q /\ as_timestamp(v, factor).fract = TowardsZero((v - Ticks * q) * factor, Ticks)
  BY DEF as_timestamp, TowardsZero
<1> HIDE DEF q, r
<1>3. v - Ticks * q = r
  BY <1>t, <1>1
<1>4. rf \in Nat /\ qf \in Int
  BY <1>t, <1>1
<1>5. v * factor = Ticks * qf + rf
  BY <1>t, <1>1
<1>6. v * factor \in Nat
  OBVIOUS
<1> HIDE DEF rf
<1>i. rf \in Int
  BY <1>4
<1>7. u \in Int /\ e \in 0..Ticks - 1 /\ rf = Ticks * u + e
  BY <1>t, <1>i, Division
<1>8. as_timestamp(v, factor).fract = u
  BY <1>2, <1>3, <1>4 DEF TowardsZero, rf
<1> HIDE DEF u, e, qf
<1>9. v * factor = Ticks * (qf + u) + e
  BY <1>t, <1>4, <1>5, <1>7
<1>10. TowardsZero(v * factor, Ticks) = qf + u
  <2>1. (Ticks * (qf + u) + e) \div Ticks = qf + u
    BY <1>t, <1>4, <1>7, DivisionUnique
  <2> QED
    BY <1>6, <1>9, <2>1 DEF TowardsZero
<1>11. u \in 0..factor - 1
  <2>1. Ticks * u \in Int /\ Ticks * factor \in Int /\ Ticks * u <= rf
    BY <1>t, <1>7
  <2>2. ~(factor <= u)
    <3> SUFFICES ASSUME factor - 1 < u PROVE FALSE
      BY <1>7
    <3>1. Ticks * (factor - 1) + Ticks <= Ticks * u
      BY <1>t, <1>7, MulMono
    <3>2. Ticks * (factor - 1) + Ticks = Ticks * factor
      BY <1>t
    <3>3. factor * r + factor <= factor * Ticks
      BY <1>t, <1>1, MulMono
    <3>4. rf = factor * r /\ factor * r \in Int /\ factor * Ticks = Ticks * factor
      BY <1>t, <1>1 DEF rf
    <3> QED
      BY <1>t, <2>1, <3>1, <3>2, <3>3, <3>4
  <2>3. ~(u < 0)
    <3> SUFFICES ASSUME u < 0 PROVE FALSE
      OBVIOUS
    <3>1. Ticks * u + Ticks <= Ticks * 0
      BY <1>t, <1>7, MulMono
    <3> QED
      BY <1>t, <1>4, <1>7, <2>1, <3>1
  <2> QED
    BY <1>7, <2>2, <2>3
<1>12. (qf + u) \div factor = q /\ (qf + u) % factor = u
  <2>1. (factor * q + u) \div factor = q /\ (factor * q + u) % factor = u
    BY <1>1, <1>11, DivisionUnique
  <2>2. qf = factor * q
    BY <1>1 DEF qf
  <2> QED
    BY <2>1, <2>2
<1> QED
  BY <1>2, <1>8, <1>10, <1>12 DEF q

\* ... and for one before 1970, whose fraction is cut off altogether or negative.
LEMMA CutBefore ==
  ASSUME NEW v \in Int, v < 0, NEW factor \in Nat \ {0}
  PROVE  LET x == as_timestamp(v, factor)
             units == TowardsZero(v * factor, Ticks)
         IN  /\ x.sec = -((-v) \div Ticks)
             /\ x.fract >= 0 => units \div factor = x.sec /\ units % factor = x.fract
<1>t. Ticks \in Nat \ {0}
  BY ScalesAssumption
<1> DEFINE a == (-v) \div Ticks
           b == (-v) % Ticks
           bf == b * factor
           af == a * factor
           u == bf \div Ticks
           e == bf % Ticks
<1>1. a \in Int /\ b \in 0..Ticks - 1 /\ -v = Ticks * a + b
  BY <1>t, Division
<1>2. as_timestamp(v, factor).sec = -a
      /\ as_timestamp(v, factor).fract = TowardsZero((v - Ticks * (-a)) * factor, Ticks)
  BY DEF as_timestamp, TowardsZero
<1> HIDE DEF a, b
<1>3. v - Ticks * (-a) = -b
  BY <1>t, <1>1
<1>4. bf \in Nat /\ af \in Int /\ (-b) * factor = -bf
  BY <1>t, <1>1
<1>5. -(v * factor) = Ticks * af + bf /\ v * factor \in Int
  BY <1>t, <1>1
<1>6. v * factor < 0
  <2>1. factor * v + factor <= factor * 0
    BY MulMono
  <2>2. factor * v = v * factor /\ v * factor \in Int /\ factor * 0 = 0
    OBVIOUS
  <2> QED
    BY <2>1, <2>2
<1> HIDE DEF bf
<1>i. bf \in Int
  BY <1>4
<1>7. u \in Int /\ e \in 0..Ticks - 1 /\ bf = Ticks * u + e
  BY <1>t, <1>i, Division
<1>8. as_timestamp(v, factor).fract = TowardsZero(-bf, Ticks)
  BY <1>2, <1>3, <1>4
<1> HIDE DEF af, u, e
<1>9. ASSUME as_timestamp(v, factor).fract >= 0
      PROVE  u = 0 /\ as_timestamp(v, factor).fract = 0
  <2>1. CASE bf = 0
    <3>1. TowardsZero(-bf, Ticks) = 0 /\ u = 0
      BY <1>t, <2>1 DEF TowardsZero, u
    <3> QED
      BY <1>8, <3>1
  <2>2. CASE bf # 0
    <3>1. -bf < 0 /\ -(-bf) = bf
      BY <1>4, <2>2
    <3>2. TowardsZero(-bf, Ticks) = -u
      BY <1>4, <3>1 DEF TowardsZero, u
    <3>3. u <= 0
      BY <1>7, <1>8, <1>9, <3>2
    <3>4. ~(u < 0)
      <4> SUFFICES ASSUME u < 0 PROVE FALSE
        OBVIOUS
      <4>1. Ticks * u + Ticks <= Ticks * 0 /\ Ticks * 0 = 0 /\ Ticks * u \in Int
        BY <1>t, <1>7, MulMono
      <4> QED
        BY <1>t, <1>4, <1>7, <4>1
    <3> QED
      BY <1>7, <1>8, <3>2, <3>3, <3>4
  <2> QED
    BY <2>1, <2>2
<1>10. ASSUME as_timestamp(v, factor).fract >= 0
       PROVE  TowardsZero(v * factor, Ticks) = -af
  <2>1. u = 0 /\ bf = e
    BY <1>t, <1>7, <1>9, <1>10
  <2>2. -(v * factor) = Ticks * af + e
    BY <1>5, <2>1
  <2>3. (Ticks * af + e) \div Ticks = af
    BY <1>t, <1>4, <1>7, DivisionUnique
  <2>4. ~(v * factor >= 0)
    BY <1>5, <1>6
  <2> QED
    BY <2>2, <2>3, <2>4 DEF TowardsZero
<1>11. (-af) \div factor = -a /\ (-af) % factor = 0
  <2>1. (factor * (-a) + 0) \div factor = -a /\ (factor * (-a) + 0) % factor = 0
    BY <1>1, DivisionUnique
  <2>2. -af = factor * (-a) + 0
    BY <1>1 DEF af
  <2> QED
    BY <2>1, <2>2
<1> QED
  BY <1>2, <1>9, <1>10, <1>11 DEF a

\* What the column gets of a value: the whole seconds, in the range that a zone converts, and
\* what the scale leaves of the fraction.
LEMMA Timestamp ==
  ASSUME NEW v \in Int, NEW factor \in Nat \ {0},
         MinTime <= v \div Ticks, v \div Ticks <= MaxTime
  PROVE  LET x == as_timestamp(v, factor)
             units == TowardsZero(v * factor, Ticks)
         IN  /\ x.sec \in Int /\ MinTime <= x.sec /\ x.sec <= MaxTime
             /\ x.fract >= 0 => units \div factor = x.sec /\ units % factor = x.fract
<1>t. Ticks \in Nat \ {0}
  BY ScalesAssumption
<1>m. MinTime \in Int /\ MaxTime \in Int /\ 0 < MaxTime
  BY TimesAssumption
<1>1. CASE v >= 0
  <2>1. v \in Nat /\ v \div Ticks \in Int
    BY <1>t, <1>1, Division
  <2> QED
    BY <2>1, CutAfter
<1>2. CASE v < 0
  <2> DEFINE q == v \div Ticks
             a == (-v) \div Ticks
  <2>1. q \in Int /\ v = Ticks * q + (v % Ticks) /\ v % Ticks \in 0..Ticks - 1
    BY <1>t, Division
  <2>2. a \in Int /\ -v = Ticks * a + ((-v) % Ticks) /\ (-v) % Ticks \in 0..Ticks - 1
    BY <1>t, Division
  <2> HIDE DEF q, a
  <2>3. q <= -a
    <3> SUFFICES ASSUME -a < q PROVE FALSE
      BY <2>1, <2>2
    <3>1. Ticks * (-a) + Ticks <= Ticks * q
      BY <1>t, <2>1, <2>2, MulMono
    <3> DEFINE tq == Ticks * q
               ta == Ticks * a
    <3>2. Ticks * (-a) = -ta /\ ta \in Int /\ tq \in Int
      BY <1>t, <2>1, <2>2
    <3>3. v >= tq /\ -v >= ta /\ -ta + Ticks <= tq
      BY <1>t, <2>1, <2>2, <3>1, <3>2
    <3> HIDE DEF tq, ta
    <3> QED
      BY <1>t, <3>2, <3>3
  <2>4. -a <= 0
    <3> SUFFICES ASSUME a < 0 PROVE FALSE
      BY <2>2
    <3>1. Ticks * a + Ticks <= Ticks * 0 /\ Ticks * 0 = 0 /\ Ticks * a \in Int
      BY <1>t, <2>2, MulMono
    <3> QED
      BY <1>t, <1>2, <2>2, <3>1
  <2>5. MinTime <= -a /\ -a <= MaxTime
    BY <1>m, <2>1, <2>2, <2>3, <2>4 DEF q
  <2> QED
    BY <1>2, <2>2, <2>5, CutBefore DEF a
<1> QED
  BY <1>1, <1>2

\* A time that system_clock can count is the one it counts, and any time becomes some other.
LEMMA FromTimeT ==
  ASSUME NEW sec \in Int
  PROVE  from_time_t(sec) \in Int /\ (InClock(sec) => from_time_t(sec) = sec)
<1>c. Nano \in Nat \ {0} /\ ClockWidth \in Nat \ {0}
  BY ClockAssumption
<1> DEFINE ns == sec * Nano
           half == ClockWidth \div 2
           m == (ns + half) % ClockWidth
<1>1. ns \in Int /\ half \in Int /\ half + half <= ClockWidth /\ half >= 0
  <2>1. ClockWidth = 2 * half + (ClockWidth % 2) /\ ClockWidth % 2 \in 0..1 /\ half \in Int
    BY <1>c, Division
  <2> HIDE DEF half
  <2> QED
    BY <1>c, <2>1
<1>2. from_time_t(sec) = (m - half) \div Nano
  BY DEF from_time_t
<1>3. InClock(sec) <=> -half <= ns /\ ns < half
  BY DEF InClock
<1> HIDE DEF half
<1>4. m \in Int
  BY <1>c, <1>1, Division
<1>5. ASSUME InClock(sec) PROVE m - half = ns
  <2>1. ns + half \in 0..ClockWidth - 1
    BY <1>c, <1>1, <1>3, <1>5
  <2> HIDE DEF ns
  <2>2. (ClockWidth * 0 + (ns + half)) % ClockWidth = ns + half
    BY <1>c, <2>1, DivisionUnique
  <2>3. ClockWidth * 0 + (ns + half) = ns + half
    BY <1>c, <1>1
  <2> QED
    BY <1>1, <2>2, <2>3
<1>6. (m - half) \div Nano \in Int
  <2> HIDE DEF m
  <2> QED
    BY <1>c, <1>1, <1>4, Division
<1>7. ns \div Nano = sec
  <2>1. (Nano * sec + 0) \div Nano = sec
    BY <1>c, DivisionUnique
  <2>2. Nano * sec + 0 = ns
    BY <1>c
  <2> QED
    BY <2>1, <2>2
<1> HIDE DEF m, ns
<1> QED
  BY <1>2, <1>5, <1>6, <1>7

\* A POSIXct cut to the units of the parameter: what the column holds of it, and what it is read
\* back as.
Units(v, factor) == TowardsZero(v * factor, Ticks)
LocalOf(t) == t + TypeAt(t).off
Column(v, factor, cs, fract) ==
  LET t == Units(v, factor) \div factor IN
  /\ cs \in Int
  /\ InClock(t) /\ fract >= 0 =>
       /\ t \in Int /\ MinTime <= t /\ t <= MaxTime
       /\ cs = LocalOf(t) /\ fract = Units(v, factor) % factor
ReadsAs(v, factor, a) ==
  LET t == Units(v, factor) \div factor IN
  InClock(t) => a = factor * Earliest(TimesShowing(LocalOf(t))) + (Units(v, factor) % factor)

\* No offset is larger than a day.
LEMMA OffsetAt ==
  ASSUME Exactly, NEW t \in Int
  PROVE  TypeAt(t).off \in Int /\ -SecsPerDay <= TypeAt(t).off /\ TypeAt(t).off <= SecsPerDay
         /\ SecsPerDay \in Nat
<1>1. Rows /\ Told /\ Regular(zone)
  BY DEF Exactly
<1>2. TypeAt(t) \in ZoneTypes
  BY <1>1 DEF Told
<1> QED
  BY <1>1, <1>2, RegularRows

\* What a thread holds: what it searches for, or an answer that says what the source says.
Holds(s) ==
  /\ s.at \in {"idle", "searching", "done", "written", "readback"}
  /\ s.at = "searching" /\ s.op = "break" => s.time \in Int /\ BreakSearches(s.time)
  /\ s.at = "searching" /\ s.op = "make" => s.time \in Int /\ MakeSearches(s.time)
  /\ s.at = "done" /\ s.op = "break" => s.answer = LocalTimeOfType(s.time, TypeAt(s.time))
  /\ s.at = "done" /\ s.op = "make" => s.time \in Int /\ MadeFor(s.time, s.answer)
  /\ s.at = "done" /\ s.op = "next" => RealChange("next", s.time, s.answer)
  /\ s.at = "done" /\ s.op = "prev" => RealChange("prev", s.time, s.answer)
  /\ s.at = "written" => s.factor \in Nat \ {0} /\ Column(s.time, s.factor, s.cs, s.fract)
  /\ s.at = "readback" => ReadsAs(s.time, s.factor, s.answer)
Answers ==
  /\ source \in Sources /\ zone = Load(source)
  /\ local_time_hint \in 0..N - 1 /\ time_local_hint \in 0..N - 1
  /\ DOMAIN thread = Threads
  /\ \A th \in Threads : Holds(thread[th])

\* While the zone stays, so does what its source says.
LEMMA SameZone ==
  ASSUME source' = source, zone' = zone
  PROVE  \A s : Holds(s)' <=> Holds(s)
<1>1. \A t : TypeAt(t)' = TypeAt(t)
  BY DEF TypeAt, RuleTimes, LastOfFile
<1>2. \A cs : TimesShowing(cs)' = TimesShowing(cs)
  BY <1>1 DEF TimesShowing
<1>3. \A v : LocalOf(v)' = LocalOf(v)
  BY <1>1 DEF LocalOf
<1>4. \A v, f, cs, fract : Column(v, f, cs, fract)' <=> Column(v, f, cs, fract)
  BY <1>3 DEF Column
<1>5. \A v, f, a : ReadsAs(v, f, a)' <=> ReadsAs(v, f, a)
  BY <1>2, <1>3 DEF ReadsAs
<1>6. \A op, t, a : RealChange(op, t, a)' <=> RealChange(op, t, a)
  <2> SUFFICES ASSUME NEW op, NEW t, NEW a PROVE RealChange(op, t, a)' <=> RealChange(op, t, a)
    OBVIOUS
  <2> DEFINE span == IF op = "next" THEN t + 1..TimeAt(N)
                     ELSE (BigBang + 1..t - 1) \cap (BigBang + 1..TimeAt(N))
             changes == {u \in span : TypeAt(u) # TypeAt(u - 1)}
             u == IF op = "next" THEN Earliest(changes) ELSE Latest(changes)
             from == u + TypeAt(u - 1).off
             to == u + TypeAt(u).off
  <2>1. TimeAt(N)' = TimeAt(N)
    BY DEF TimeAt, N
  <2>2. span' = span
    BY <2>1
  <2>3. changes' = changes
    <3> HIDE DEF span
    <3> QED
      BY <1>1, <2>2
  <2>4. u' = u
    <3> HIDE DEF changes
    <3> QED
      BY <2>3
  <2>5. from' = from /\ to' = to
    <3> HIDE DEF u
    <3> QED
      BY <1>1, <2>4
  <2>6. RealChange(op, t, a) <=> IF changes = {} THEN ~a.found ELSE a = [found |-> TRUE, from |-> from, to |-> to]
    BY DEF RealChange
  <2>7. RealChange(op, t, a)' <=> IF changes' = {} THEN ~a.found ELSE a = [found |-> TRUE, from |-> from', to |-> to']
    BY DEF RealChange
  <2> HIDE DEF changes, from, to
  <2> QED
    BY <2>3, <2>5, <2>6, <2>7
<1>7. \A t, a : MadeFor(t, a)' <=> MadeFor(t, a)
  BY DEF MadeFor, At, N, CivilAt, PrevAt, TimeAt, TypeOf, MakeShift, MakePlaced
<1>8. \A t : (BreakSearches(t)' <=> BreakSearches(t)) /\ (MakeSearches(t)' <=> MakeSearches(t))
  BY DEF BreakSearches, BreakShift, MakeSearches, MakeShift, N, TimeAt, CivilAt
<1> QED
  BY <1>1, <1>4, <1>5, <1>6, <1>7, <1>8 DEF Holds

\* One thread moves on; the zone stays.
LEMMA MovesOn ==
  ASSUME Answers, NEW th \in Threads, NEW s, Goes(th, s), Holds(s),
         local_time_hint' \in 0..N - 1, time_local_hint' \in 0..N - 1
  PROVE  Answers'
<1>1. source' = source /\ zone' = zone /\ thread' = [thread EXCEPT ![th] = s]
  BY DEF Goes
<1>2. /\ source \in Sources /\ zone = Load(source)
      /\ DOMAIN thread = Threads /\ \A o \in Threads : Holds(thread[o])
  BY DEF Answers
<1>3. source' \in Sources /\ zone' = Load(source') /\ DOMAIN thread' = Threads
  BY <1>1, <1>2
<1>4. N' = N
  BY <1>1 DEF N
<1>5. ASSUME NEW o \in Threads PROVE Holds(thread[o])'
  <2>1. Holds(thread'[o])
    <3>1. thread'[o] = IF o = th THEN s ELSE thread[o]
      BY <1>1, <1>2
    <3> QED
      BY <1>2, <3>1
  <2>2. \A r : Holds(r)' <=> Holds(r)
    BY <1>1, SameZone
  <2> QED
    BY <2>1, <2>2
<1> QED
  BY <1>3, <1>4, <1>5 DEF Answers

\* The invariant holds of a loaded zone that nobody has asked anything.
LEMMA AnswersInit == Init => Answers
<1> SUFFICES ASSUME Init PROVE Answers
  OBVIOUS
<1>1. source \in Sources /\ zone = Load(source) /\ thread = [th \in Threads |-> Idle]
      /\ local_time_hint = 0 /\ time_local_hint = 0
  BY DEF Init
<1>2. N \in Nat \ {0}
  BY <1>1, LoadRows DEF Rows
<1>3. Holds(Idle)
  BY DEF Holds, Idle
<1>4. 0 \in 0..N - 1
  BY <1>2
<1> QED
  BY <1>1, <1>3, <1>4 DEF Answers

\* Every step of every thread keeps the invariant, the loading of another zone included.
LEMMA AnswersNext == Answers /\ [Next]_vars => Answers'
<1> SUFFICES ASSUME Answers, [Next]_vars PROVE Answers'
  OBVIOUS
<1>1. /\ local_time_hint \in 0..N - 1 /\ time_local_hint \in 0..N - 1
      /\ \A th \in Threads : Holds(thread[th])
  BY DEF Answers
<1>2. Exactly /\ Rows /\ Repeats
  <2>1. source \in Sources /\ zone = Load(source)
    BY DEF Answers
  <2> QED
    BY <2>1, LoadTold, LoadRows
<1>3. ASSUME NEW th \in Threads, NEW t \in Asks[th]
      PROVE  t \in Int /\ MinTime <= t /\ t <= MaxTime /\ MinTime \in Int /\ MaxTime \in Int
  <2>1. Asks[th] \subseteq MinTime..MaxTime
    BY AsksAssumption
  <2> QED
    BY <2>1, TimesAssumption
<1>4. \A i \in 0..N - 1 : i \in 0..N
  BY <1>2 DEF Rows
<1>5. ASSUME NEW th \in Threads, NEW t \in Asks[th], AskBreak(th, t) PROVE Answers'
  <2> DEFINE u == t - BreakShift(t) * CycleSecs
             a == BreakAnswer(t, local_time_hint)
             d == Done("break", t, a)
             s == Searching("break", t)
  <2>1. t \in Int
    BY <1>3, <1>5
  <2>2. local_time_hint' = local_time_hint /\ time_local_hint' = time_local_hint
    BY <1>5 DEF AskBreak, Hints
  <2>3. CASE BreakSearches(t) /\ ~HintHits("time", local_time_hint, u)
    <3>1. Goes(th, s)
      BY <1>5, <2>3 DEF AskBreak
    <3>2. Holds(s)
      BY <2>1, <2>3 DEF Holds, Searching
    <3> HIDE DEF s
    <3> QED
      BY <1>1, <2>2, <3>1, <3>2, MovesOn
  <2>4. CASE ~(BreakSearches(t) /\ ~HintHits("time", local_time_hint, u))
    <3>1. Goes(th, d)
      BY <1>5, <2>4 DEF AskBreak
    <3>2. BreakSearches(t) => local_time_hint \in 0..N /\ UpTo(u, local_time_hint)
      BY <1>1, <1>2, <1>4, <2>1, <2>4, BreakPlaces
    <3>3. a = LocalTimeOfType(t, TypeAt(t))
      BY <1>2, <2>1, <3>2, BreaksExactly
    <3> HIDE DEF a
    <3>4. Holds(d)
      BY <3>3 DEF Holds, Done
    <3> HIDE DEF d
    <3> QED
      BY <1>1, <2>2, <3>1, <3>4, MovesOn
  <2> QED
    BY <2>3, <2>4
<1>6. ASSUME NEW th \in Threads, NEW t \in Asks[th], AskTransitions(th, t) PROVE Answers'
  <2> DEFINE b == NextTransition(t)
             c == PrevTransition(t)
             d == Done("next", t, b)
             e == Done("prev", t, c)
  <2>1. Goes(th, d) \/ Goes(th, e)
    BY <1>6 DEF AskTransitions
  <2>2. RealChange("next", t, b) /\ RealChange("prev", t, c)
    BY <1>2, <1>3, <1>6, NextReal, PrevReal
  <2>3. local_time_hint' = local_time_hint /\ time_local_hint' = time_local_hint
    BY <1>6 DEF AskTransitions, Hints
  <2> HIDE DEF b, c
  <2>4. Holds(d) /\ Holds(e)
    BY <2>2 DEF Holds, Done
  <2> HIDE DEF d, e
  <2> QED
    BY <1>1, <2>1, <2>3, <2>4, MovesOn
<1>7. ASSUME NEW th \in Threads, NEW t \in Asks[th], AskMake(th, t) PROVE Answers'
  <2> DEFINE c == YearShift(t, -MakeShift(t))
             a == MakeAnswer(t, time_local_hint)
             d == Done("make", t, a)
             s == Searching("make", t)
  <2>1. t \in Int
    BY <1>3, <1>7
  <2>2. local_time_hint' = local_time_hint /\ time_local_hint' = time_local_hint
    BY <1>7 DEF AskMake, Hints
  <2>3. CASE MakeSearches(t) /\ ~HintHits("civil_sec", time_local_hint, c)
    <3>1. Goes(th, s)
      BY <1>7, <2>3 DEF AskMake
    <3>2. Holds(s)
      BY <2>1, <2>3 DEF Holds, Searching
    <3> HIDE DEF s
    <3> QED
      BY <1>1, <2>2, <3>1, <3>2, MovesOn
  <2>4. CASE ~(MakeSearches(t) /\ ~HintHits("civil_sec", time_local_hint, c))
    <3>1. Goes(th, d)
      BY <1>7, <2>4 DEF AskMake
    <3>2. MakeSearches(t) => At(c, time_local_hint)
      BY <1>1, <1>2, <1>4, <2>1, <2>4, MakePlaces
    <3>3. MadeFor(t, a)
      BY <1>2, <2>1, <3>2, MakeAnswers
    <3> HIDE DEF a
    <3>4. Holds(d)
      BY <2>1, <3>3 DEF Holds, Done
    <3> HIDE DEF d
    <3> QED
      BY <1>1, <2>2, <3>1, <3>4, MovesOn
  <2> QED
    BY <2>3, <2>4
<1>8. ASSUME NEW th \in Threads, SearchBreak(th) PROVE Answers'
  <2> DEFINE t == thread[th].time
             u == t - BreakShift(t) * CycleSecs
             place == UpperBound("time", u)
             a == BreakAnswer(t, place)
             d == Done("break", t, a)
  <2>1. Goes(th, d) /\ local_time_hint' = place /\ time_local_hint' = time_local_hint
    BY <1>8 DEF SearchBreak
  <2>2. t \in Int /\ BreakSearches(t)
    BY <1>1, <1>8 DEF SearchBreak, Holds
  <2> HIDE DEF t
  <2>3. place \in 0..N - 1 /\ UpTo(u, place)
    BY <1>2, <2>2, BreakPlaces
  <2> HIDE DEF place
  <2>4. a = LocalTimeOfType(t, TypeAt(t))
    BY <1>2, <1>4, <2>2, <2>3, BreaksExactly
  <2> HIDE DEF a
  <2>5. Holds(d)
    BY <2>4 DEF Holds, Done
  <2> HIDE DEF d
  <2> QED
    BY <1>1, <2>1, <2>3, <2>5, MovesOn
<1>9. ASSUME NEW th \in Threads, SearchMake(th) PROVE Answers'
  <2> DEFINE t == thread[th].time
             c == YearShift(t, -MakeShift(t))
             place == UpperBound("civil_sec", c)
             a == MakeAnswer(t, place)
             d == Done("make", t, a)
  <2>1. Goes(th, d) /\ time_local_hint' = place /\ local_time_hint' = local_time_hint
    BY <1>9 DEF SearchMake
  <2>2. t \in Int /\ MakeSearches(t)
    BY <1>1, <1>9 DEF SearchMake, Holds
  <2> HIDE DEF t
  <2>3. place \in 0..N - 1
    BY <1>2, <2>2, MakeInside
  <2>4. At(c, place)
    BY <1>2, <2>2, MakePlaces
  <2> HIDE DEF place
  <2>5. MadeFor(t, a)
    BY <1>2, <2>2, <2>4, MakeAnswers
  <2> HIDE DEF a
  <2>6. Holds(d)
    BY <2>2, <2>5 DEF Holds, Done
  <2> HIDE DEF d
  <2> QED
    BY <1>1, <2>1, <2>3, <2>6, MovesOn
<1>10. ASSUME NEW th \in Threads, NEW t \in Asks[th], NEW part \in 0..Ticks - 1,
              NEW factor \in Factors, Write(th, Ticks * t + part, factor)
       PROVE  Answers'
  <2> DEFINE v == Ticks * t + part
             x == as_timestamp(v, factor).sec
             fract == as_timestamp(v, factor).fract
             y == from_time_t(x)
             u == y - BreakShift(y) * CycleSecs
             place == IF BreakSearches(y) THEN UpperBound("time", u) ELSE local_time_hint
             cs == BreakAnswer(y, place).cs
             w == [at |-> "written", time |-> v, factor |-> factor, cs |-> cs, fract |-> fract]
  <2>t. Ticks \in Nat \ {0} /\ factor \in Nat \ {0}
    BY ScalesAssumption
  <2>1. v \in Int /\ v \div Ticks = t
    BY <1>3, <2>t, DivisionUnique
  <2>2. Goes(th, w) /\ local_time_hint' = place /\ time_local_hint' = time_local_hint
    BY <1>10 DEF Write
  <2>4. MinTime <= v \div Ticks /\ v \div Ticks <= MaxTime
    <3> HIDE DEF v
    <3> QED
      BY <1>3, <1>10, <2>1
  <2>3. /\ x \in Int /\ MinTime <= x /\ x <= MaxTime
        /\ fract >= 0 => Units(v, factor) \div factor = x /\ Units(v, factor) % factor = fract
    <3> HIDE DEF v
    <3> QED
      BY <2>t, <2>1, <2>4, Timestamp DEF Units
  <2> HIDE DEF x, fract, v
  <2>y. y \in Int /\ (InClock(x) => y = x)
    BY <2>3, FromTimeT
  <2> HIDE DEF y
  <2>5. place \in 0..N - 1 /\ (BreakSearches(y) => place \in 0..N /\ UpTo(u, place))
    <3>1. CASE BreakSearches(y)
      BY <1>2, <1>4, <2>y, <3>1, BreakPlaces
    <3>2. CASE ~BreakSearches(y)
      BY <1>1, <3>2
    <3> QED
      BY <3>1, <3>2
  <2> HIDE DEF place
  <2>6. BreakAnswer(y, place) = LocalTimeOfType(y, TypeAt(y))
    BY <1>2, <2>y, <2>5, BreaksExactly
  <2>7. cs = y + TypeAt(y).off
    BY <2>6 DEF LocalTimeOfType, Broken
  <2>o. TypeAt(y).off \in Int
    BY <1>2, <2>y, OffsetAt
  <2> HIDE DEF cs
  <2>8. Column(v, factor, cs, fract)
    <3> DEFINE z == Units(v, factor) \div factor
    <3>1. cs \in Int
      BY <2>y, <2>7, <2>o
    <3>2. ASSUME InClock(z), fract >= 0
          PROVE  /\ z \in Int /\ MinTime <= z /\ z <= MaxTime
                 /\ cs = LocalOf(z) /\ fract = Units(v, factor) % factor
      <4>1. z = x /\ Units(v, factor) % factor = fract
        BY <2>3, <3>2
      <4>2. y = x
        BY <2>y, <3>2, <4>1
      <4> HIDE DEF z
      <4> QED
        BY <2>3, <2>7, <4>1, <4>2 DEF LocalOf
    <3> HIDE DEF z
    <3> QED
      BY <3>1, <3>2 DEF Column, z
  <2>9. Holds(w)
    BY <2>t, <2>8 DEF Holds
  <2> HIDE DEF w
  <2> QED
    BY <1>1, <2>2, <2>5, <2>9, MovesOn
<1>11. ASSUME NEW th \in Threads, ReadBack(th) PROVE Answers'
  <2> DEFINE v == thread[th].time
             cs == thread[th].cs
             fract == thread[th].fract
             factor == thread[th].factor
             t == Units(v, factor) \div factor
             place == IF MakeSearches(cs) THEN UpperBound("civil_sec", YearShift(cs, -MakeShift(cs)))
                      ELSE time_local_hint
             a == MakeAnswer(cs, place)
             w == [at |-> "readback", time |-> v, factor |-> factor, answer |-> factor * convert(a) + fract]
  <2>1. Goes(th, w) /\ time_local_hint' = place /\ local_time_hint' = local_time_hint
    BY <1>11 DEF ReadBack
  <2>2. Column(v, factor, cs, fract) /\ fract >= 0
    BY <1>1, <1>11 DEF ReadBack, Holds
  <2>3. /\ cs \in Int
        /\ InClock(t) => /\ t \in Int /\ MinTime <= t /\ t <= MaxTime
                         /\ cs = LocalOf(t) /\ fract = Units(v, factor) % factor
    BY <2>2 DEF Column
  <2> HIDE DEF v, cs, fract, factor, t
  <2>4. ASSUME InClock(t) PROVE t \in TimesShowing(cs)
    <3>1. t \in Int /\ cs = t + TypeAt(t).off
      BY <2>3, <2>4 DEF LocalOf
    <3>2. TypeAt(t).off \in Int /\ -SecsPerDay <= TypeAt(t).off /\ TypeAt(t).off <= SecsPerDay
          /\ SecsPerDay \in Nat
      BY <1>2, <3>1, OffsetAt
    <3> DEFINE off == TypeAt(t).off
    <3> HIDE DEF off
    <3>3. t \in cs - SecsPerDay..cs + SecsPerDay
      <4>1. cs = t + off /\ off \in Int /\ -SecsPerDay <= off /\ off <= SecsPerDay /\ SecsPerDay \in Nat
        BY <3>1, <3>2 DEF off
      <4> QED
        BY <3>1, <4>1
    <3> QED
      BY <3>1, <3>3 DEF TimesShowing
  <2>5. place \in 0..N - 1 /\ (MakeSearches(cs) => At(YearShift(cs, -MakeShift(cs)), place))
    <3>1. CASE MakeSearches(cs)
      BY <1>2, <2>3, <3>1, MakeInside, MakePlaces
    <3>2. CASE ~MakeSearches(cs)
      BY <1>1, <3>2
    <3> QED
      BY <3>1, <3>2
  <2> HIDE DEF place
  <2>6. MadeFor(cs, a)
    BY <1>2, <2>3, <2>5, MakeAnswers
  <2> HIDE DEF a
  <2>7. Describes(cs, a)
    BY <1>2, <2>3, <2>6, MadeExact
  <2>8. ASSUME InClock(t) PROVE convert(a) = Earliest(TimesShowing(cs))
    BY <1>2, <2>3, <2>4, <2>7, <2>8, DescribesPrecisely
  <2>9. ReadsAs(v, factor, factor * convert(a) + fract)
    BY <2>3, <2>8 DEF ReadsAs, t
  <2>10. Holds(w)
    BY <2>9 DEF Holds
  <2> HIDE DEF w
  <2> QED
    BY <1>1, <2>1, <2>5, <2>10, MovesOn
<1>12. CASE UNCHANGED vars
  <2>1. source' = source /\ zone' = zone /\ thread' = thread
        /\ local_time_hint' = local_time_hint /\ time_local_hint' = time_local_hint
    BY <1>12 DEF vars
  <2>2. \A r : Holds(r)' <=> Holds(r)
    BY <2>1, SameZone
  <2>3. N' = N
    BY <2>1 DEF N
  <2>4. \A th \in Threads : Holds(thread[th])'
    BY <1>1, <2>1, <2>2
  <2>5. source' \in Sources /\ zone' = Load(source') /\ DOMAIN thread' = Threads
    BY <2>1 DEF Answers
  <2> QED
    BY <1>1, <2>1, <2>3, <2>4, <2>5 DEF Answers
<1> QED
  BY <1>5, <1>6, <1>7, <1>8, <1>9, <1>10, <1>11, <1>12 DEF Next

\* The inductive invariant: every answer a thread holds is the one for the table, whatever
\* hints the searches have left.
LEMMA AnswersAlways == Spec => []Answers
BY AnswersInit, AnswersNext, PTL DEF Spec

\* A table says whether its file could be loaded.
LEMMA LoadSays ==
  ASSUME source \in Sources, zone = Load(source)
  PROVE  zone.ok \in BOOLEAN
<1>1. CASE "fixed" \in DOMAIN source
  <2>1. zone = ResetToBuiltinUTC(source.fixed)
    BY <1>1 DEF Load
  <2> QED
    BY <2>1 DEF ResetToBuiltinUTC
<1>2. CASE "fixed" \notin DOMAIN source
  <2>1. zone = LET file == LoadFile(source) IN
               IF file.ok THEN file ELSE [ResetToBuiltinUTC(0) EXCEPT !.ok = FALSE]
    BY <1>2 DEF Load
  <2>2. CASE LoadFile(source).ok
    <3>1. IsFile(source)
      BY <1>2, SourcesAssumption DEF IsFile
    <3> QED
      BY <2>1, <2>2, <3>1, FileTable
  <2>3. CASE ~LoadFile(source).ok
    <3> DEFINE utc == ResetToBuiltinUTC(0)
    <3>1. zone = [utc EXCEPT !.ok = FALSE]
      BY <2>1, <2>3
    <3>2. "ok" \in DOMAIN utc
      BY DEF ResetToBuiltinUTC
    <3> HIDE DEF utc
    <3> QED
      BY <3>1, <3>2
  <2> QED
    BY <2>2, <2>3
<1> QED
  BY <1>1, <1>2

\* Whatever zone is loaded, whatever hints the threads leave each other, and however their
\* calls interleave: BreakTime gives the clock of the type in force, MakeTime the unique,
\* skipped or repeated reading of a civil second, at both ends of the table and in the cycles
\* past it too, and NextTransition and PrevTransition the change next to a time, all as the
\* file and its rule say, not as the table that Load has built says.
THEOREM AnswersExactly == Spec => []LookupsExact
<1>1. Answers => LookupsExact
  <2> SUFFICES ASSUME Answers PROVE LookupsExact
    OBVIOUS
  <2>1. /\ source \in Sources /\ zone = Load(source)
        /\ local_time_hint \in 0..N - 1 /\ time_local_hint \in 0..N - 1
        /\ \A th \in Threads : Holds(thread[th])
    BY DEF Answers
  <2>2. Exactly
    BY <2>1, LoadTold
  <2>3. TypeOK
    <3>1. zone.ok \in BOOLEAN
      BY <2>1, LoadSays
    <3>2. ASSUME NEW s, Holds(s)
          PROVE  s.at \in {"idle", "searching", "done", "written", "readback"}
      BY <3>2, Zenon DEF Holds
    <3>3. ASSUME NEW th \in Threads
          PROVE  thread[th].at \in {"idle", "searching", "done", "written", "readback"}
      <4>1. Holds(thread[th])
        BY <2>1
      <4> QED
        BY <3>2, <4>1, Zenon
    <3> QED
      BY <2>1, <3>1, <3>3 DEF TypeOK
  <2>4. BreakExact
    BY <2>1 DEF BreakExact, Answered, Holds
  <2>5. MakeExact
    <3>1. ASSUME NEW th \in Threads, Answered(th, "make")
          PROVE  Precise(thread[th].time, thread[th].answer)
      <4> DEFINE cs == thread[th].time
                 cl == thread[th].answer
      <4>1. cs \in Int /\ MadeFor(cs, cl)
        BY <2>1, <3>1 DEF Answered, Holds
      <4> HIDE DEF cs, cl
      <4>2. Describes(cs, cl)
        BY <2>2, <4>1, MadeExact
      <4>3. Precise(cs, cl)
        BY <2>2, <4>1, <4>2, DescribesPrecisely
      <4> QED
        BY <4>3 DEF cs, cl
    <3> QED
      BY <3>1 DEF MakeExact, Precise
  <2>6. TransitionsReal
    <3>1. ASSUME NEW th \in Threads, Answered(th, "next") \/ Answered(th, "prev")
          PROVE  RealChange(thread[th].op, thread[th].time, thread[th].answer)
      BY <2>1, <3>1 DEF Answered, Holds
    <3> QED
      BY <3>1 DEF TransitionsReal, RealChange
  <2> QED
    BY <2>3, <2>4, <2>5, <2>6 DEF LookupsExact
<1> QED
  BY <1>1, AnswersAlways, PTL

\* A POSIXct bound to a parameter and fetched again is the same instant cut to the scale of the
\* parameter, before and after 1970, or the earlier one of a repeated civil second: for every
\* zone, scale and clock, and every instant that the clock can count (as_timestamp, as_double).
THEOREM ReadsBackWritten == Spec => []WrittenReadsBack
<1>1. Answers => WrittenReadsBack
  <2> SUFFICES ASSUME Answers, NEW th \in Threads, thread[th].at = "readback"
               PROVE  LET factor == thread[th].factor
                          units == TowardsZero(thread[th].time * factor, Ticks)
                          t == units \div factor
                      IN  InClock(t) => thread[th].answer =
                            factor * Earliest(TimesShowing(t + TypeAt(t).off)) + (units % factor)
    BY DEF WrittenReadsBack
  <2>1. ReadsAs(thread[th].time, thread[th].factor, thread[th].answer)
    BY DEF Answers, Holds
  <2> QED
    BY <2>1 DEF ReadsAs, LocalOf, Units
<1> QED
  BY <1>1, AnswersAlways, PTL

\* Whatever zone is loaded, whatever hints the threads leave each other, and however their
\* calls interleave, convert() of an earlier civil second is never a later time: over skipped
\* and repeated hours, at both ends of the table and of the time line, and across the years
\* that MakeTime moves back by whole cycles.
THEOREM ConvertsInOrder == Spec => []ConvertInOrder
<1>1. Answers => ConvertInOrder
  <2> SUFFICES ASSUME Answers, NEW th \in Threads, NEW other \in Threads,
                      Answered(th, "make"), Answered(other, "make"),
                      thread[th].time < thread[other].time
               PROVE  convert(thread[th].answer) <= convert(thread[other].answer)
    BY DEF ConvertInOrder
  <2>1. Holds(thread[th]) /\ Holds(thread[other]) /\ Rows /\ Repeats
    BY LoadRows DEF Answers
  <2>2. /\ thread[th].time \in Int /\ MadeFor(thread[th].time, thread[th].answer)
        /\ thread[other].time \in Int /\ MadeFor(thread[other].time, thread[other].answer)
    BY <2>1 DEF Holds, Answered
  <2> QED
    BY <2>1, <2>2, MadeInOrder
<1> QED
  BY <1>1, AnswersAlways, PTL
=============================================================================
