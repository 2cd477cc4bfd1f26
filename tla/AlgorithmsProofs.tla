--------------------------- MODULE AlgorithmsProofs --------------------------
(***************************************************************************)
(* Proofs about Numbers: what the conversions of times and numbers promise *)
(* holds for every number of units, however fine the unit is.  A floating  *)
(* point number is an exact multiple of 1/Unit here.                       *)
(*                                                                         *)
(* Proofs about Xdr: any sequence of items is read back, for any number of *)
(* values that a byte has.                                                 *)
(*                                                                         *)
(* Proofs about Syslogger: what a logger has sent is what its history      *)
(* says, for any texts and any size of its buffer.                         *)
(*                                                                         *)
(* Proofs about Text, Containers and Http: a text is cut where its         *)
(* separators are, whichever function cuts it; a capped_vector is a stack  *)
(* and the algorithms on ranges do the same for all iterators; a URL and   *)
(* the headers of a response and a request are read as they were written.  *)
(*                                                                         *)
(* The loops over bytes and characters need induction over the natural     *)
(* numbers; the theorems of the library about it take an operator, here a  *)
(* set or a function stands for it.                                        *)
(***************************************************************************)
EXTENDS Algorithms, FiniteSetTheorems, SequenceTheorems, WellFoundedInduction, TLAPS

\* Division by a positive number, rounding down, and its remainder.
LEMMA Division ==
  ASSUME NEW n \in Int, NEW d \in Int, d > 0
  PROVE  /\ n \div d \in Int /\ n % d \in Int
         /\ n - d * (n \div d) = n % d
         /\ 0 <= n % d /\ n % d < d
         /\ d * (n \div d) <= n /\ n < d * (n \div d) + d
<1>1. n - d * (n \div d) = n % d
  OBVIOUS
<1>2. 0 <= n % d /\ n % d < d
  OBVIOUS
<1>3. n \div d \in Int /\ n % d \in Int
  OBVIOUS
<1>4. d * (n \div d) <= n /\ n < d * (n \div d) + d
  OBVIOUS
<1>5. QED
  BY <1>1, <1>2, <1>3, <1>4

\* Rounding is off by half at most.
LEMMA RoundUpNear ==
  ASSUME NEW n \in Int, NEW d \in Int, d > 0
  PROVE  /\ RoundUp(n, d) \in Int
         /\ 2 * (d * RoundUp(n, d)) <= 2 * n + d
         /\ 2 * n - d < 2 * (d * RoundUp(n, d))
<1> DEFINE q == RoundUp(n, d)
<1>1. 2 * n + d \in Int /\ 2 * d \in Int /\ 2 * d > 0
  OBVIOUS
<1>2. q = (2 * n + d) \div (2 * d)
  BY DEF RoundUp
<1>3. q \in Int /\ (2 * d) * q <= 2 * n + d /\ 2 * n + d < (2 * d) * q + 2 * d
  BY <1>1, <1>2, Division
<1> HIDE DEF q
<1>4. (2 * d) * q = 2 * (d * q) /\ d * q \in Int
  BY <1>3
<1>5. 2 * (d * q) <= 2 * n + d /\ 2 * n - d < 2 * (d * q)
  BY <1>3, <1>4
<1>6. QED
  BY <1>3, <1>5 DEF q

\* A product with a positive number tells the sign of the other factor.
LEMMA Sign ==
  ASSUME NEW d \in Int, NEW q \in Int, d > 0, -d < d * q
  PROVE  q >= 0
<1> SUFFICES ASSUME q <= -1 PROVE FALSE
  OBVIOUS
<1>1. d * (q + 1) <= 0
  OBVIOUS
<1>2. d * (q + 1) = d * q + d
  OBVIOUS
<1>3. d * q \in Int
  OBVIOUS
<1>4. QED
  BY <1>1, <1>2, <1>3

\* A common positive factor keeps an order.
LEMMA Smaller ==
  ASSUME NEW d \in Int, NEW q \in Int, NEW p \in Int, d > 0, d * q < d * p
  PROVE  q < p
<1> SUFFICES ASSUME p <= q PROVE FALSE
  OBVIOUS
<1>1. d * (q - p) >= 0
  OBVIOUS
<1>2. d * (q - p) = d * q - d * p
  OBVIOUS
<1>3. d * q \in Int /\ d * p \in Int
  OBVIOUS
<1>4. QED
  BY <1>1, <1>2, <1>3

\* A number that is not negative is not rounded to a negative one.
LEMMA RoundNat ==
  ASSUME NEW n \in Nat, NEW d \in Int, d > 0
  PROVE  /\ Round(n, d) = RoundUp(n, d)
         /\ Round(n, d) \in Nat
         /\ 2 * (d * Round(n, d)) <= 2 * n + d
         /\ 2 * n - d < 2 * (d * Round(n, d))
<1> DEFINE q == RoundUp(n, d)
<1>1. Round(n, d) = q
  BY DEF Round
<1>2. q \in Int /\ 2 * (d * q) <= 2 * n + d /\ 2 * n - d < 2 * (d * q)
  BY RoundUpNear
<1> HIDE DEF q
<1>3. d * q \in Int
  BY <1>2
<1>4. -d < d * q
  BY <1>2, <1>3
<1>5. q >= 0
  BY <1>2, <1>4, Sign
<1>6. QED
  BY <1>1, <1>2, <1>5 DEF q

\* to_fractional() for every time that is not negative and every number of
\* parts: the part it returns is less than a second.
THEOREM FractionIsRight ==
  ASSUME NEW n \in Nat, NEW m \in Nat \ {0}
  PROVE  FractionRight(n, m)
<1> DEFINE r == RoundUp(n * m, Unit)
           s == r \div m
           f == r % m
<1>1. Unit \in Int /\ Unit > 0
  BY UnitAssumption
<1>2. n * m \in Int
  OBVIOUS
<1>3. /\ r \in Int
      /\ 2 * (Unit * r) <= 2 * (n * m) + Unit
      /\ 2 * (n * m) - Unit < 2 * (Unit * r)
  BY <1>1, <1>2, RoundUpNear
<1> HIDE DEF r
<1>4. s \in Int /\ f \in Int /\ r - m * s = f /\ 0 <= f /\ f < m
  BY <1>3, Division
<1> HIDE DEF s, f
<1>5. s * m + f = r
  BY <1>3, <1>4
<1>6. Unit * r \in Int
  BY <1>1, <1>3
<1>7. 2 * Unit * r = 2 * (Unit * r) /\ 2 * n * m = 2 * (n * m)
  BY <1>1, <1>3
<1>8. Near(2 * Unit * (s * m + f), 2 * n * m, Unit)
  BY <1>1, <1>2, <1>3, <1>5, <1>6, <1>7 DEF Near
<1>9. ToFractional(n, m) = [s |-> s, f |-> f]
  BY DEF ToFractional, r, s, f
<1>10. QED
  BY <1>4, <1>8, <1>9 DEF FractionRight

\* The hours and minutes of any time that is not negative: 60 minutes are
\* carried over, and what is shown is half a part off at most.
LEMMA HoursMinutesRight ==
  ASSUME NEW n \in Nat, NEW parts \in {1, 10}, NEW skip \in BOOLEAN
  PROVE  ClockRight(n, HoursMinutes(n, parts, skip), parts)
<1> DEFINE h0 == n \div (3600 * Unit)
           rest == n - h0 * 3600 * Unit
           m0 == Round(rest * parts, 60 * Unit)
           carry == m0 >= 60 * parts
           h == IF carry THEN h0 + 1 ELSE h0
           t == [h |-> IF h = 0 /\ skip THEN -1 ELSE h, m |-> IF carry THEN 0 ELSE m0]
           hour == IF t.h = -1 THEN 0 ELSE t.h
<1>1. Unit \in Int /\ Unit > 0
  BY UnitAssumption
<1>2. /\ h0 \in Int
      /\ (3600 * Unit) * h0 <= n /\ n < (3600 * Unit) * h0 + 3600 * Unit
  BY <1>1, Division
<1> HIDE DEF h0
<1>3. (3600 * Unit) * h0 = 3600 * (Unit * h0) /\ h0 * 3600 * Unit = 3600 * (Unit * h0)
      /\ Unit * h0 \in Int
  BY <1>1, <1>2
<1>4. rest \in Nat /\ rest < 3600 * Unit /\ n = rest + 3600 * (Unit * h0)
  BY <1>1, <1>2, <1>3
<1>5. h0 >= 0
  <2>1. -Unit < Unit * h0
    BY <1>1, <1>2, <1>3
  <2>2. QED
    BY <1>1, <1>2, <2>1, Sign
<1> HIDE DEF rest
<1>6. rest * parts \in Nat /\ 60 * Unit \in Int /\ 60 * Unit > 0
  BY <1>1, <1>4
<1>7. /\ m0 \in Nat
      /\ 2 * ((60 * Unit) * m0) <= 2 * (rest * parts) + 60 * Unit
      /\ 2 * (rest * parts) - 60 * Unit < 2 * ((60 * Unit) * m0)
  BY <1>6, RoundNat
<1> HIDE DEF m0
<1>8. (60 * Unit) * m0 = 60 * (Unit * m0) /\ Unit * m0 \in Int
  BY <1>1, <1>7
<1>9. m0 < 60 * parts + 1
  <2>1. Unit * m0 < Unit * (60 * parts + 1)
    <3>1. Unit * (60 * parts + 1) = 60 * parts * Unit + Unit
      BY <1>1
    <3>2. rest * parts < 3600 * Unit * parts
      BY <1>1, <1>4
    <3>3. QED
      BY <1>1, <1>4, <1>7, <1>8, <3>1, <3>2
  <2>2. QED
    BY <1>1, <1>7, <2>1, Smaller
<1>10. hour = h
  BY <1>2, <1>5
<1>11. parts * Unit * 3600 * hour + Unit * 60 * t.m
         = 3600 * parts * (Unit * h0) + 60 * (Unit * m0)
  <2>1. CASE carry
    <3>1. m0 = 60 * parts
      BY <1>7, <1>9, <2>1
    <3>2. hour = h0 + 1 /\ t.m = 0
      BY <1>10, <2>1
    <3>3. Unit * m0 = 60 * parts * Unit
      BY <1>1, <3>1
    <3>4. Unit * (h0 + 1) = Unit * h0 + Unit
      BY <1>1, <1>2
    <3>5. parts * Unit * 3600 * (h0 + 1) = 3600 * parts * (Unit * (h0 + 1))
      BY <1>1, <1>2
    <3>6. QED
      BY <1>1, <1>3, <3>2, <3>3, <3>4, <3>5
  <2>2. CASE ~carry
    <3>1. hour = h0 /\ t.m = m0
      BY <1>10, <2>2
    <3>2. parts * Unit * 3600 * h0 = 3600 * parts * (Unit * h0)
          /\ Unit * 60 * m0 = 60 * (Unit * m0)
      BY <1>1, <1>2, <1>7
    <3>3. QED
      BY <3>1, <3>2
  <2>3. QED
    BY <2>1, <2>2
<1>12. parts * n = parts * rest + 3600 * parts * (Unit * h0)
  BY <1>3, <1>4
<1>13. Near(3600 * parts * (Unit * h0) + 60 * (Unit * m0), parts * n, Unit * 30)
  BY <1>1, <1>3, <1>4, <1>7, <1>8, <1>12 DEF Near
<1>14. 0 <= t.m /\ t.m < 60 * parts
  BY <1>7
<1>15. HoursMinutes(n, parts, skip) = t
  BY DEF HoursMinutes, h0, rest, m0
<1> HIDE DEF t
<1>16. QED
  BY <1>11, <1>13, <1>14, <1>15 DEF ClockRight

\* format_time_hh_mm() and format_time_hh_mmt().
THEOREM ClockIsRight ==
  ASSUME NEW n \in Nat, NEW skip \in BOOLEAN
  PROVE  /\ ClockRight(n, FormatTimeHhMm(n, skip), 1)
         /\ ClockRight(n, FormatTimeHhMmt(n, skip), 10)
BY HoursMinutesRight DEF FormatTimeHhMm, FormatTimeHhMmt

\* day_number(): a time is in the day it names.
THEOREM DayIsRight ==
  ASSUME NEW n \in Int
  PROVE  DayRight(n)
<1> DEFINE u == 86400 * Unit
           q == n \div u
<1>1. u \in Int /\ u > 0
  BY UnitAssumption
<1> HIDE DEF u
<1>2. q \in Int /\ u * q <= n /\ n < u * q + u
  BY <1>1, Division
<1> HIDE DEF q
<1>3. u * q = q * u /\ u * q + u = (q + 1) * u
  BY <1>1, <1>2
<1>4. DayNumber(n) = q
  BY DEF DayNumber, q, u
<1>5. QED
  BY <1>2, <1>3, <1>4 DEF DayRight, u

\* An integer is rounded to itself, on either side of zero.
LEMMA RoundExact ==
  ASSUME NEW k \in Int, NEW d \in Int, d > 0
  PROVE  Round(d * k, d) = k
<1>1. ASSUME NEW j \in Int PROVE RoundUp(d * j, d) = j
  <2> DEFINE q == RoundUp(d * j, d)
             p == d * j
  <2>1. p \in Int
    BY <1>1
  <2>2. q \in Int /\ 2 * (d * q) <= 2 * p + d /\ 2 * p - d < 2 * (d * q)
    BY <2>1, RoundUpNear
  <2> HIDE DEF q
  <2>3. d * q < d * (j + 1) /\ d * (j - 1) < d * q
    <3>1. d * (j + 1) = p + d /\ d * (j - 1) = p - d /\ d * q \in Int
      BY <1>1, <2>2
    <3> HIDE DEF p
    <3>2. QED
      BY <2>1, <2>2, <3>1
  <2>4. q < j + 1 /\ j - 1 < q
    <3>1. j + 1 \in Int /\ j - 1 \in Int
      BY <1>1
    <3>2. QED
      BY <2>2, <2>3, <3>1, Smaller
  <2>5. q = j
    BY <1>1, <2>2, <2>4
  <2>6. QED
    BY <2>5 DEF q
<1>2. CASE d * k >= 0
  BY <1>1, <1>2 DEF Round
<1>3. CASE ~(d * k >= 0)
  <2>1. -(d * k) = d * (-k) /\ -k \in Int
    OBVIOUS
  <2>2. Round(d * k, d) = -RoundUp(d * (-k), d)
    BY <1>3, <2>1 DEF Round
  <2>3. RoundUp(d * (-k), d) = -k
    BY <1>1, <2>1
  <2>4. QED
    BY <2>2, <2>3
<1>4. QED
  BY <1>2, <1>3

\* What check_long() accepts, round_to_integer() returns, for any bounds.
THEOREM IntegerIsRight ==
  ASSUME NEW n \in Int, NEW lo \in Int, NEW hi \in Int
  PROVE  IntegerRight(n, lo, hi)
<1> SUFFICES ASSUME lo * Unit <= n, n <= hi * Unit, n % Unit = 0
             PROVE  lo <= Round(n, Unit) /\ Round(n, Unit) <= hi
  BY DEF IntegerRight, CheckLong, RoundToInteger
<1> DEFINE k == n \div Unit
<1>1. Unit \in Int /\ Unit > 0
  BY UnitAssumption
<1>2. k \in Int /\ n - Unit * k = 0
  BY <1>1, Division
<1> HIDE DEF k
<1>3. n = Unit * k
  BY <1>1, <1>2
<1>4. Round(n, Unit) = k
  BY <1>1, <1>2, <1>3, RoundExact
<1>5. lo * Unit = Unit * lo /\ hi * Unit = Unit * hi
  BY <1>1
<1>6. Unit * lo <= Unit * k /\ Unit * k <= Unit * hi
  BY <1>3, <1>5
<1>7. ~(k < lo)
  <2> SUFFICES ASSUME k < lo PROVE FALSE
    OBVIOUS
  <2>1. Unit * (lo - k) > 0
    BY <1>1, <1>2
  <2>2. Unit * (lo - k) = Unit * lo - Unit * k /\ Unit * lo \in Int /\ Unit * k \in Int
    BY <1>1, <1>2
  <2>3. QED
    BY <1>6, <2>1, <2>2
<1>8. ~(hi < k)
  <2> SUFFICES ASSUME hi < k PROVE FALSE
    OBVIOUS
  <2>1. Unit * (k - hi) > 0
    BY <1>1, <1>2
  <2>2. Unit * (k - hi) = Unit * k - Unit * hi /\ Unit * hi \in Int /\ Unit * k \in Int
    BY <1>1, <1>2
  <2>3. QED
    BY <1>6, <2>1, <2>2
<1>9. QED
  BY <1>2, <1>4, <1>7, <1>8

-----------------------------------------------------------------------------
(* The rate_estimator *)

RateTypeOK(T) ==
  /\ rate \in [last : T \cup {NaN}, dts : Seq(Int)]
  /\ times \in Seq(T \cup {NaN})

\* The event of the last place is the latest one.
LatestIsLast ==
  \A j \in 1..Len(times) :
    Counts(times, j) /\ Place(times, j) = Place(times, Len(times)) => times[j] = rate.last

NoEvents == rate.last = NaN => Place(times, Len(times)) = 0

RateInv(T) == RateTypeOK(T) /\ RateRight /\ LatestIsLast /\ NoEvents

\* Places are numbers that grow with the events, by one at an event.
LEMMA Places ==
  ASSUME NEW s, NEW k \in Nat
  PROVE  /\ Place(s, k) \in Nat
         /\ Place(s, k + 1) = Place(s, k) + (IF Counts(s, k + 1) THEN 1 ELSE 0)
         /\ Place(s, 0) = 0
<1> DEFINE E(i) == {j \in 1..i : Counts(s, j)}
<1>1. \A i \in Nat : IsFiniteSet(E(i))
  <2>1. \A i \in Nat : IsFiniteSet(1..i)
    BY FS_Interval
  <2>2. QED
    BY <2>1, FS_Subset
<1>2. k + 1 \notin E(k) /\ IsFiniteSet(E(k))
  BY <1>1
<1>6. Place(s, 0) = 0
  <2>1. E(0) = {}
    OBVIOUS
  <2>2. QED
    BY <2>1, FS_EmptySet DEF Place
<1>3. Cardinality(E(k)) \in Nat
  BY <1>2, FS_CardinalityType
<1>4. CASE Counts(s, k + 1)
  <2>1. E(k + 1) = E(k) \cup {k + 1}
    BY <1>4
  <2>2. Cardinality(E(k) \cup {k + 1}) = Cardinality(E(k)) + 1
    BY <1>2, FS_AddElement
  <2>3. Cardinality(E(k + 1)) = Cardinality(E(k)) + 1
    BY <2>1, <2>2
  <2>4. QED
    BY <1>3, <1>4, <2>3, <1>6 DEF Place
<1>5. CASE ~Counts(s, k + 1)
  <2>1. E(k + 1) = E(k)
    BY <1>5
  <2>2. QED
    BY <1>3, <1>5, <2>1, <1>6 DEF Place
<1>7. QED
  BY <1>4, <1>5

\* Places grow with the events; the first event has place 1.
LEMMA PlacesGrow ==
  ASSUME NEW s, NEW n \in Nat, NEW k \in 1..n
  PROVE  /\ Place(s, k) \in Nat /\ Place(s, n) \in Nat /\ Place(s, k) <= Place(s, n)
         /\ Counts(s, k) => Place(s, k) >= 1
<1> DEFINE E(i) == {j \in 1..i : Counts(s, j)}
<1>1. IsFiniteSet(E(n)) /\ IsFiniteSet(E(k))
  <2>1. IsFiniteSet(1..n) /\ IsFiniteSet(1..k)
    BY FS_Interval
  <2>2. QED
    BY <2>1, FS_Subset
<1>2. E(k) \subseteq E(n)
  OBVIOUS
<1>3. Cardinality(E(k)) <= Cardinality(E(n))
  BY <1>1, <1>2, FS_Subset
<1>4. /\ Cardinality(E(k)) \in Nat /\ Cardinality(E(n)) \in Nat
      /\ Cardinality(E(k)) = 0 <=> E(k) = {}
  BY <1>1, FS_CardinalityType, FS_EmptySet
<1>5. Counts(s, k) => k \in E(k)
  OBVIOUS
<1> HIDE DEF E
<1>6. Counts(s, k) => Cardinality(E(k)) >= 1
  BY <1>4, <1>5
<1>7. QED
  BY <1>3, <1>4, <1>6 DEF Place, E

\* An update leaves the events before it and their places, and is an event
\* itself if it is as late as all of them.
LEMMA UpdateCounts ==
  ASSUME NEW T, T \subseteq Nat, RateInv(T), NEW now \in T \cup {NaN}, Updated(now),
         NEW n \in Nat, n = Len(times)
  PROVE  /\ Len(times') = n + 1 /\ times' \in Seq(T \cup {NaN})
         /\ \A k \in 1..n : times'[k] = times[k]
         /\ times'[n + 1] = now
         /\ \A k \in 1..n : (Counts(times', k) <=> Counts(times, k)) /\ Place(times', k) = Place(times, k)
         /\ Counts(times', n + 1) <=> now # NaN /\ (rate.last # NaN => rate.last <= now)
         /\ Place(times', n + 1) = Place(times, n) + (IF Counts(times', n + 1) THEN 1 ELSE 0)
<1>1. times' = Append(times, now) /\ times \in Seq(T \cup {NaN})
  BY DEF Updated, RateInv, RateTypeOK
<1>2. /\ Len(times') = n + 1 /\ times' \in Seq(T \cup {NaN})
      /\ \A k \in 1..n : times'[k] = times[k]
      /\ times'[n + 1] = now
  BY <1>1
<1>3. \A k \in 1..n : Counts(times', k) <=> Counts(times, k)
  BY <1>2 DEF Counts
<1>4. \A k \in 0..n : Place(times', k) = Place(times, k)
  <2> SUFFICES ASSUME NEW k \in 0..n PROVE Place(times', k) = Place(times, k)
    OBVIOUS
  <2>1. {j \in 1..k : Counts(times', j)} = {j \in 1..k : Counts(times, j)}
    BY <1>3
  <2>2. QED
    BY <2>1 DEF Place
<1>5. /\ \A j \in 1..n : times[j] \in Int /\ times[j] <= rate.last
      /\ rate.last = NaN \/ \E j \in 1..n : rate.last = times[j]
      /\ rate.last \in T \cup {NaN}
  <2>1. \A j \in 1..n : times[j] \in T \cup {NaN}
    BY <1>1
  <2>2. rate.last \in T \cup {NaN}
    BY DEF RateInv, RateTypeOK
  <2>3. /\ \A j \in 1..n : times[j] <= rate.last
        /\ rate.last = NaN \/ \E j \in 1..n : rate.last = times[j]
    BY DEF RateInv, RateRight
  <2>4. \A x \in T \cup {NaN} : x \in Int
    BY DEF NaN
  <2>5. QED
    BY <2>1, <2>2, <2>3, <2>4
<1>6. Counts(times', n + 1) <=> now # NaN /\ (rate.last # NaN => rate.last <= now)
  <2>1. Counts(times', n + 1) <=> now # NaN /\ \A j \in 1..n : times[j] <= now
    BY <1>2 DEF Counts
  <2>2. (\A j \in 1..n : times[j] <= now) <=> (rate.last # NaN => rate.last <= now)
    BY <1>5 DEF NaN
  <2>3. QED
    BY <2>1, <2>2
<1>7. Place(times', n + 1) = Place(times', n) + (IF Counts(times', n + 1) THEN 1 ELSE 0)
  BY Places
<1>8. QED
  BY <1>2, <1>3, <1>4, <1>6, <1>7

\* NaN comes before every time.
LEMMA TimesAreNumbers ==
  ASSUME NEW T, T \subseteq Nat, NEW x \in T \cup {NaN}
  PROVE  /\ x \in Int /\ NaN \in Int /\ NaN <= x /\ NaN < 0
         /\ x # NaN => x \in Nat
<1>1. CASE x \in T
  BY <1>1 DEF NaN
<1>2. CASE x = NaN
  BY <1>2 DEF NaN
<1>3. QED
  BY <1>1, <1>2

\* What update() does by cases; the estimator stays in its type.
LEMMA UpdateType ==
  ASSUME NEW T, T \subseteq Nat, NEW e \in [last : T \cup {NaN}, dts : Seq(Int)],
         NEW now \in T \cup {NaN}
  PROVE  /\ RateUpdate(e, now) \in [last : T \cup {NaN}, dts : Seq(Int)]
         /\ now = NaN \/ (e.last # NaN /\ now < e.last) => RateUpdate(e, now) = e
         /\ now # NaN /\ e.last = NaN =>
              RateUpdate(e, now).last = now /\ RateUpdate(e, now).dts = e.dts
         /\ now # NaN /\ e.last # NaN /\ e.last <= now =>
              /\ RateUpdate(e, now).last = now
              /\ RateUpdate(e, now).dts = Append(e.dts, now - e.last)
<1>1. \A x \in T \cup {NaN} : x \in Int
  BY DEF NaN
<1>2. e.last \in T \cup {NaN} /\ e.dts \in Seq(Int) /\ now \in Int /\ e.last \in Int
  BY <1>1
<1>3. CASE now = NaN
  BY <1>3 DEF RateUpdate
<1>4. CASE now # NaN /\ e.last # NaN /\ now < e.last
  BY <1>2, <1>4 DEF RateUpdate
<1>5. CASE now # NaN /\ e.last = NaN
  <2>1. RateUpdate(e, now) = [e EXCEPT !.last = now]
    BY <1>5 DEF RateUpdate
  <2>2. QED
    BY <1>2, <1>5, <2>1
<1>6. CASE now # NaN /\ e.last # NaN /\ e.last <= now
  <2>1. RateUpdate(e, now) = [last |-> now, dts |-> Append(e.dts, now - e.last)]
    BY <1>2, <1>6 DEF RateUpdate
  <2>2. Append(e.dts, now - e.last) \in Seq(Int)
    BY <1>2
  <2>3. QED
    BY <1>2, <1>6, <2>1, <2>2
<1>7. QED
  BY <1>2, <1>3, <1>4, <1>5, <1>6

\* estimate() of a copy is of one interval more.
LEMMA EstimateGrows ==
  ASSUME NEW T, T \subseteq Nat, NEW e \in [last : T \cup {NaN}, dts : Seq(Int)],
         e.last # NaN
  PROVE  Len(Estimate(e, e.last)) = Len(e.dts) + 1
<1>1. e.last \in T \cup {NaN} /\ e.dts \in Seq(Int)
  OBVIOUS
<1>2. e.last \in Int
  BY <1>1, TimesAreNumbers
<1>3. e.last <= e.last /\ e.last - e.last \in Int
  BY <1>2
<1>4. RateUpdate(e, e.last).dts = Append(e.dts, e.last - e.last)
  BY <1>1, <1>3, UpdateType
<1>5. QED
  BY <1>1, <1>3, <1>4 DEF Estimate

\* The inductive step: an update that is no event changes nothing, an event
\* gets the next place and its interval.
LEMMA RateStep ==
  ASSUME NEW T, T \subseteq Nat, RateInv(T), NEW now \in T \cup {NaN}, Updated(now)
  PROVE  RateInv(T)'
<1> DEFINE n == Len(times)
<1>1. /\ n \in Nat
      /\ rate \in [last : T \cup {NaN}, dts : Seq(Int)]
  BY DEF RateInv, RateTypeOK
<1>2. PICK m \in Nat : m = n
  BY <1>1
<1>3. /\ Len(times') = m + 1 /\ times' \in Seq(T \cup {NaN})
      /\ \A k \in 1..m : times'[k] = times[k]
      /\ times'[m + 1] = now
      /\ \A k \in 1..m : Counts(times', k) <=> Counts(times, k)
      /\ \A k \in 1..m : Place(times', k) = Place(times, k)
      /\ Counts(times', m + 1) <=> now # NaN /\ (rate.last # NaN => rate.last <= now)
      /\ Place(times', m + 1) =
           Place(times, m) + (IF Counts(times', m + 1) THEN 1 ELSE 0)
  BY <1>2, UpdateCounts
<1>4. /\ \A k \in 1..m : Place(times, k) \in Nat
      /\ \A k \in 1..m : Place(times, k) <= Place(times, m)
      /\ \A k \in 1..m : Counts(times, k) => Place(times, k) >= 1
      /\ Place(times, m) \in Nat
  BY PlacesGrow, Places
<1>5. /\ rate.last = NaN \/ \E k \in 1..m : rate.last = times[k]
      /\ \A k \in 1..m : times[k] <= rate.last
      /\ Len(rate.dts) = IF rate.last = NaN THEN 0 ELSE Place(times, m) - 1
      /\ \A j, k \in 1..m :
           Counts(times, j) /\ Counts(times, k) /\ Place(times, k) = Place(times, j) + 1
             => rate.dts[Place(times, j)] = times[k] - times[j]
      /\ \A j \in 1..m :
           Counts(times, j) /\ Place(times, j) = Place(times, m) => times[j] = rate.last
      /\ rate.last = NaN => Place(times, m) = 0
  BY <1>2 DEF RateInv, RateRight, LatestIsLast, NoEvents
<1>6. /\ rate' = RateUpdate(rate, now)
      /\ rate' \in [last : T \cup {NaN}, dts : Seq(Int)]
      /\ now = NaN \/ (rate.last # NaN /\ now < rate.last) => rate' = rate
      /\ now # NaN /\ rate.last = NaN => rate'.last = now /\ rate'.dts = rate.dts
      /\ now # NaN /\ rate.last # NaN /\ rate.last <= now =>
           rate'.last = now /\ rate'.dts = Append(rate.dts, now - rate.last)
  <2>1. rate' = RateUpdate(rate, now)
    BY DEF Updated
  <2> DEFINE e == rate
  <2>2. e \in [last : T \cup {NaN}, dts : Seq(Int)]
    BY <1>1
  <2> HIDE DEF e
  <2>3. /\ RateUpdate(e, now) \in [last : T \cup {NaN}, dts : Seq(Int)]
        /\ now = NaN \/ (e.last # NaN /\ now < e.last) => RateUpdate(e, now) = e
        /\ now # NaN /\ e.last = NaN =>
             RateUpdate(e, now).last = now /\ RateUpdate(e, now).dts = e.dts
        /\ now # NaN /\ e.last # NaN /\ e.last <= now =>
             /\ RateUpdate(e, now).last = now
             /\ RateUpdate(e, now).dts = Append(e.dts, now - e.last)
    BY <2>2, UpdateType
  <2>4. QED
    BY <2>1, <2>3 DEF e
<1> HIDE DEF n
<1>7. /\ rate.last \in T \cup {NaN} /\ rate.last \in Int /\ now \in Int
      /\ rate.dts \in Seq(Int) /\ Len(rate.dts) \in Nat
      /\ \A k \in 1..m : times[k] \in T \cup {NaN}
      /\ NaN \in Int /\ NaN < 0 /\ (now # NaN => now \in Nat)
      /\ rate.last # NaN => rate.last \in Nat
  <2>1. times \in Seq(T \cup {NaN}) /\ Len(times) = m
    BY <1>2 DEF RateInv, RateTypeOK, n
  <2>2. \A k \in 1..m : times[k] \in T \cup {NaN}
    BY <2>1
  <2>3. rate.last \in T \cup {NaN} /\ rate.dts \in Seq(Int) /\ Len(rate.dts) \in Nat
    BY <1>1
  <2>4. /\ rate.last \in Int /\ now \in Int /\ NaN \in Int /\ NaN < 0
        /\ (now # NaN => now \in Nat) /\ (rate.last # NaN => rate.last \in Nat)
    BY <2>3, TimesAreNumbers
  <2>5. QED
    BY <2>2, <2>3, <2>4
<1>8. /\ rate' \in [last : T \cup {NaN}, dts : Seq(Int)]
      /\ rate'.last # NaN => Len(Estimate(rate', rate'.last)) = Len(rate'.dts) + 1
  <2>1. rate' \in [last : T \cup {NaN}, dts : Seq(Int)]
    BY <1>6
  <2>2. QED
    BY <2>1, EstimateGrows
<1>9. RateTypeOK(T)'
  BY <1>3, <1>8 DEF RateTypeOK
<1>10. SUFFICES
         /\ rate'.last = NaN \/ \E k \in 1..m + 1 : rate'.last = times'[k]
         /\ \A k \in 1..m + 1 : times'[k] <= rate'.last
         /\ Len(rate'.dts) = IF rate'.last = NaN THEN 0 ELSE Place(times', m + 1) - 1
         /\ \A j, k \in 1..m + 1 :
              Counts(times', j) /\ Counts(times', k) /\ Place(times', k) = Place(times', j) + 1
                => rate'.dts[Place(times', j)] = times'[k] - times'[j]
         /\ \A j \in 1..m + 1 :
              Counts(times', j) /\ Place(times', j) = Place(times', m + 1)
                => times'[j] = rate'.last
         /\ rate'.last = NaN => Place(times', m + 1) = 0
  BY <1>3, <1>8, <1>9 DEF RateInv, RateRight, LatestIsLast, NoEvents
<1>11. \A k \in 1..m + 1 : k \in 1..m \/ k = m + 1
  OBVIOUS
<1>12. CASE now = NaN \/ (rate.last # NaN /\ now < rate.last)
  <2>1. rate' = rate
    BY <1>6, <1>12
  <2>2. ~Counts(times', m + 1) /\ Place(times', m + 1) = Place(times, m)
    BY <1>3, <1>4, <1>7, <1>12
  <2>3. now <= rate.last
    BY <1>7, <1>12, TimesAreNumbers
  <2>4. \A k \in 1..m + 1 : times'[k] <= rate.last
    BY <1>3, <1>5, <1>11, <2>3
  <2>5. \A j \in 1..m + 1 : Counts(times', j) => j \in 1..m
    BY <1>11, <2>2
  <2>6. rate.last = NaN \/ \E k \in 1..m + 1 : rate.last = times'[k]
    BY <1>3, <1>5
  <2>7. \A j, k \in 1..m + 1 :
          Counts(times', j) /\ Counts(times', k) /\ Place(times', k) = Place(times', j) + 1
            => rate.dts[Place(times', j)] = times'[k] - times'[j]
    BY <1>3, <1>5, <2>5
  <2>8. \A j \in 1..m + 1 :
          Counts(times', j) /\ Place(times', j) = Place(times', m + 1)
            => times'[j] = rate.last
    BY <1>3, <1>5, <2>2, <2>5
  <2>9. QED
    BY <1>5, <2>1, <2>2, <2>4, <2>6, <2>7, <2>8
<1>13. CASE now # NaN /\ rate.last = NaN
  <2>1. rate'.last = now /\ rate'.dts = rate.dts
    BY <1>6, <1>13
  <2>2. Counts(times', m + 1) /\ Place(times', m + 1) = 1
    BY <1>3, <1>5, <1>13
  <2>3. \A k \in 1..m : times[k] <= now
    <3>1. \A k \in 1..m : times[k] \in Int
      BY <1>7, TimesAreNumbers
    <3>2. QED
      BY <1>5, <1>7, <1>13, <3>1
  <2>4. \A k \in 1..m + 1 : times'[k] <= now
    BY <1>3, <1>7, <1>11, <2>3
  <2>5. \A j \in 1..m + 1 : Counts(times', j) => j = m + 1
    <3> SUFFICES ASSUME NEW j \in 1..m, Counts(times, j) PROVE FALSE
      BY <1>3, <1>11
    <3>1. Place(times, j) >= 1 /\ Place(times, j) <= 0 /\ Place(times, j) \in Nat
      BY <1>4, <1>5, <1>13
    <3>2. QED
      BY <3>1
  <2>6. \E k \in 1..m + 1 : now = times'[k]
    BY <1>3
  <2>7. \A j, k \in 1..m + 1 :
          Counts(times', j) /\ Counts(times', k) => Place(times', k) # Place(times', j) + 1
    BY <2>2, <2>5
  <2>8. Len(rate.dts) = 0
    BY <1>5, <1>13
  <2>9. QED
    BY <1>3, <1>13, <2>1, <2>2, <2>4, <2>5, <2>6, <2>7, <2>8
<1>14. CASE now # NaN /\ rate.last # NaN /\ rate.last <= now
  <2> DEFINE p == Place(times, m)
  <2>1. rate'.last = now /\ rate'.dts = Append(rate.dts, now - rate.last)
    BY <1>6, <1>14
  <2>2. Counts(times', m + 1) /\ Place(times', m + 1) = p + 1 /\ p \in Nat
    BY <1>3, <1>4, <1>14
  <2>3. Len(rate.dts) = p - 1 /\ p >= 1
    BY <1>5, <1>7, <1>14, <2>2
  <2>4. /\ Len(rate'.dts) = p /\ rate'.dts[p] = now - rate.last
        /\ \A i \in 1..p - 1 : rate'.dts[i] = rate.dts[i]
    BY <1>7, <2>1, <2>2, <2>3
  <2>5. \A k \in 1..m : times[k] <= now
    <3>1. \A k \in 1..m : times[k] \in Int
      BY <1>7, TimesAreNumbers
    <3>2. QED
      BY <1>5, <1>7, <1>14, <3>1
  <2>6. \A k \in 1..m + 1 : times'[k] <= now
    BY <1>3, <1>7, <1>11, <2>5
  <2>7. \E k \in 1..m + 1 : now = times'[k]
    BY <1>3
  <2>8. \A j, k \in 1..m + 1 :
          Counts(times', j) /\ Counts(times', k) /\ Place(times', k) = Place(times', j) + 1
            => rate'.dts[Place(times', j)] = times'[k] - times'[j]
    <3> SUFFICES ASSUME NEW j \in 1..m + 1, NEW k \in 1..m + 1,
                        Counts(times', j), Counts(times', k),
                        Place(times', k) = Place(times', j) + 1
                 PROVE  rate'.dts[Place(times', j)] = times'[k] - times'[j]
      OBVIOUS
    <3>1. \A i \in 1..m : Place(times', i) \in Nat /\ Place(times', i) <= p
      BY <1>3, <1>4
    <3>2. j \in 1..m
      BY <1>11, <2>2, <3>1
    <3>3. CASE k \in 1..m
      <4>1. Counts(times, j) /\ Counts(times, k) /\ Place(times, k) = Place(times, j) + 1
        BY <1>3, <3>2, <3>3
      <4>2. rate.dts[Place(times, j)] = times[k] - times[j]
        BY <1>5, <3>2, <3>3, <4>1
      <4>3. Place(times, j) \in 1..p - 1
        BY <1>4, <2>2, <3>2, <3>3, <4>1
      <4>4. QED
        BY <1>3, <2>4, <3>2, <3>3, <4>2, <4>3
    <3>4. CASE k = m + 1
      <4>1. Place(times, j) = p /\ Counts(times, j)
        BY <1>3, <2>2, <3>1, <3>2, <3>4
      <4>2. times[j] = rate.last
        BY <1>5, <3>2, <4>1
      <4>3. QED
        BY <1>3, <2>4, <3>2, <3>4, <4>1, <4>2
    <3>5. QED
      BY <1>11, <3>3, <3>4
  <2>9. \A j \in 1..m + 1 :
          Counts(times', j) /\ Place(times', j) = Place(times', m + 1) => times'[j] = now
    <3>1. \A j \in 1..m : Place(times', j) # p + 1
      BY <1>3, <1>4, <2>2
    <3>2. QED
      BY <1>3, <1>11, <2>2, <3>1
  <2> HIDE DEF p
  <2>10. rate'.last # NaN /\ Place(times', m + 1) - 1 = p
    BY <1>14, <2>1, <2>2
  <2>11. Len(rate'.dts) = IF rate'.last = NaN THEN 0 ELSE Place(times', m + 1) - 1
    BY <2>4, <2>10
  <2>12. QED
    BY <2>1, <2>6, <2>7, <2>8, <2>9, <2>10, <2>11
<1>15. QED
  BY <1>7, <1>12, <1>13, <1>14

\* The constructor establishes the invariant.
LEMMA RateStart ==
  ASSUME NEW T, RateInit
  PROVE  RateInv(T)
<1>1. rate = [last |-> NaN, dts |-> <<>>] /\ times = <<>>
  BY DEF RateInit, NewEstimator
<1>2. RateTypeOK(T)
  BY <1>1 DEF RateTypeOK
<1>3. Len(times) = 0 /\ Len(rate.dts) = 0 /\ rate.last = NaN
  BY <1>1
<1>4. Place(times, 0) = 0
  BY Places
<1>5. QED
  BY <1>2, <1>3, <1>4 DEF RateInv, RateRight, LatestIsLast, NoEvents

\* An update, or none, keeps the invariant.
LEMMA RateInductive ==
  ASSUME NEW T, T \subseteq Nat, RateInv(T), [RateNext(T)]_<<rate, times>>
  PROVE  RateInv(T)'
<1>1. CASE RateNext(T)
  BY <1>1, RateStep DEF RateNext
<1>2. CASE UNCHANGED <<rate, times>>
  BY <1>2 DEF RateInv, RateTypeOK, RateRight, LatestIsLast, NoEvents, Estimate
<1>3. QED
  BY <1>1, <1>2

\* The formats and the conversions are right for every time, and the interval
\* between two events is averaged once, whatever times come late or are missing
\* (rate_estimator::update() and estimate()).
THEOREM TimesAreRight ==
  ASSUME NEW T, T \subseteq Nat
  PROVE  RateSpec(T) => []TimesRight
<1>1. RateInit => RateInv(T)
  BY RateStart
<1>2. RateInv(T) /\ [RateNext(T)]_<<rate, times>> => RateInv(T)'
  BY RateInductive
<1>3. RateInv(T) => TimesRight
  <2> SUFFICES ASSUME RateInv(T), times # <<>>, times[Len(times)] # NaN
               PROVE  FormatsRight(times[Len(times)])
    BY DEF TimesRight, RateInv
  <2> DEFINE n == times[Len(times)]
  <2>1. n \in Nat
    <3>1. times \in Seq(T \cup {NaN})
      BY DEF RateInv, RateTypeOK
    <3>2. n \in T \cup {NaN}
      BY <3>1, EmptySeq
    <3>3. QED
      BY <3>2
  <2> HIDE DEF n
  <2>2. \A m \in {1, 3, 10} : FractionRight(n, m)
    BY <2>1, FractionIsRight
  <2>3. \A skip \in BOOLEAN : /\ ClockRight(n, FormatTimeHhMm(n, skip), 1)
                              /\ ClockRight(n, FormatTimeHhMmt(n, skip), 10)
    BY <2>1, ClockIsRight
  <2>4. DayRight(n) /\ IntegerRight(n, 0, 9999)
    BY <2>1, DayIsRight, IntegerIsRight
  <2>5. QED
    BY <2>2, <2>3, <2>4 DEF FormatsRight, n
<1>4. QED
  BY <1>1, <1>2, <1>3, PTL DEF RateSpec

-----------------------------------------------------------------------------
(* Induction and recursion *)

\* Every set of natural numbers that is not empty has a least element.
LEMMA LeastNatural ==
  ASSUME NEW T, T \subseteq Nat, T # {}
  PROVE  \E x \in T : \A y \in T : x <= y
<1> DEFINE R == OpToRel(<, Nat)
<1>1. IsWellFoundedOn(R, Nat)
  BY NatLessThanWellFounded
<1>2. \A y, z \in Nat : y < z => <<y, z>> \in R
  BY DEF OpToRel
<1> HIDE DEF R
<1>3. PICK x \in T : \A y \in T : ~ (<<y, x>> \in R)
  BY <1>1, WFMin
<1>4. \A y \in T : y \in Nat /\ x \in Nat /\ ~ (y < x)
  BY <1>2, <1>3
<1>5. \A y \in T : x <= y
  BY <1>4
<1>6. QED
  BY <1>3, <1>5

\* Induction over the natural numbers, for a set.
LEMMA SetInduction ==
  ASSUME NEW S, 0 \in S, \A n \in Nat : n \in S => n + 1 \in S
  PROVE  Nat \subseteq S
<1> SUFFICES ASSUME NEW m \in Nat, m \notin S PROVE FALSE
  OBVIOUS
<1> DEFINE T == {n \in Nat : n \notin S}
<1>1. T \subseteq Nat /\ T # {}
  OBVIOUS
<1> HIDE DEF T
<1>2. PICK x \in T : \A y \in T : x <= y
  BY <1>1, LeastNatural
<1>3. x \in Nat /\ x \notin S
  BY DEF T
<1>4. x # 0 /\ x - 1 \in Nat /\ x - 1 < x /\ (x - 1) + 1 = x
  BY <1>3
<1>5. x - 1 \notin S
  BY <1>3, <1>4
<1>6. x - 1 \in T
  BY <1>4, <1>5 DEF T
<1>7. QED
  BY <1>2, <1>3, <1>4, <1>6

\* Steps that stay in V, and a function that follows them from base on.
StepsIn(V, step) == \A n \in Nat : \A v \in V : step[n][v] \in V
Follows(f, V, base, step) ==
  f \in [Nat -> V] /\ f[0] = base /\ \A n \in Nat : f[n + 1] = step[n][f[n]]

\* Recursion over the natural numbers, for a step that is a function.
LEMMA Recursion ==
  ASSUME NEW V, NEW base \in V, NEW step, StepsIn(V, step)
  PROVE  \E f : Follows(f, V, base, step)
<1>0. \A n \in Nat : \A v \in V : step[n][v] \in V
  BY DEF StepsIn
<1> DEFINE Starts(n, f) == f \in [0..n -> V] /\ f[0] = base
             /\ \A k \in 0..n : k # n => f[k + 1] = step[k][f[k]]
           S == {n \in Nat : \E f : Starts(n, f)}
<1>1. \A n \in Nat : n \in S => n + 1 \in S
  <2>1. ASSUME NEW n \in Nat, NEW f, Starts(n, f) PROVE \E g : Starts(n + 1, g)
    <3> DEFINE g == [k \in 0..n + 1 |-> IF k = n + 1 THEN step[n][f[n]] ELSE f[k]]
    <3>1. step[n][f[n]] \in V
      BY <1>0, <2>1
    <3>2. g \in [0..n + 1 -> V] /\ g[0] = base
      BY <2>1, <3>1
    <3>3. \A k \in 0..n + 1 : k # n + 1 => g[k + 1] = step[k][g[k]]
      BY <2>1
    <3> HIDE DEF g
    <3>4. QED
      BY <3>2, <3>3
  <2> HIDE DEF Starts
  <2>2. QED
    BY <2>1
<1>2. 0 \in S
  <2> DEFINE f == [k \in 0..0 |-> base]
  <2>1. Starts(0, f)
    OBVIOUS
  <2>2. QED
    BY <2>1
<1>3. Nat \subseteq S
  <2> HIDE DEF S
  <2>1. QED
    BY <1>1, <1>2, SetInduction
\* Two of them agree.
<1>4. ASSUME NEW m \in Nat, NEW n \in Nat, NEW f, NEW g, Starts(m, f), Starts(n, g)
      PROVE  \A k \in Nat : k <= m /\ k <= n => f[k] = g[k]
  <2> DEFINE A == {k \in Nat : k <= m /\ k <= n => f[k] = g[k]}
  <2>1. 0 \in A
    BY <1>4
  <2>2. \A k \in Nat : k \in A => k + 1 \in A
    BY <1>4
  <2> HIDE DEF A
  <2>3. Nat \subseteq A
    BY <2>1, <2>2, SetInduction
  <2>4. QED
    BY <2>3 DEF A
<1>5. \A n \in Nat : \E f : Starts(n, f)
  BY <1>3
<1> DEFINE F(n) == CHOOSE f : Starts(n, f)
           h == [n \in Nat |-> F(n)[n]]
<1> HIDE DEF Starts, S
<1>6. \A n \in Nat : Starts(n, F(n))
  BY <1>5
<1>7. h \in [Nat -> V]
  <2>1. ASSUME NEW n \in Nat PROVE F(n)[n] \in V
    <3>1. F(n) \in [0..n -> V]
      BY <1>6 DEF Starts
    <3> HIDE DEF F
    <3>2. QED
      BY <3>1
  <2>2. QED
    BY <2>1
<1>8. h[0] = base
  BY <1>6 DEF Starts
<1>9. ASSUME NEW n \in Nat PROVE h[n + 1] = step[n][h[n]]
  <2> DEFINE f == F(n)
             g == F(n + 1)
  <2>1. Starts(n, f) /\ Starts(n + 1, g)
    BY <1>6
  <2>2. h[n] = f[n] /\ h[n + 1] = g[n + 1]
    OBVIOUS
  <2> HIDE DEF f, g, h
  <2>3. f[n] = g[n]
    BY <1>4, <2>1
  <2>4. g[n + 1] = step[n][g[n]]
    BY <2>1 DEF Starts
  <2>5. QED
    BY <2>2, <2>3, <2>4
<1>10. QED
  BY <1>7, <1>8, <1>9 DEF Follows

-----------------------------------------------------------------------------
(* The encoding of xdr.h *)

\* The bounds of Division have one solution.
LEMMA DivisionUnique ==
  ASSUME NEW n \in Int, NEW d \in Int, NEW r \in Int, d > 0, d * r <= n, n < d * r + d
  PROVE  n \div d = r /\ n % d = n - d * r
<1> DEFINE q == n \div d
<1>1. q \in Int /\ n - d * q = n % d /\ d * q <= n /\ n < d * q + d
  BY Division
<1> HIDE DEF q
<1>2. d * (q + 1) = d * q + d /\ d * (r + 1) = d * r + d /\ d * q \in Int /\ d * r \in Int
  BY <1>1
<1>3. d * q < d * (r + 1) /\ d * r < d * (q + 1)
  BY <1>1, <1>2
<1>4. q < r + 1 /\ r < q + 1
  BY <1>1, <1>3, Smaller
<1>5. q = r
  BY <1>1, <1>4
<1>6. QED
  BY <1>1, <1>5 DEF q

\* Division by a product divides twice.
LEMMA DivisionTwice ==
  ASSUME NEW n \in Nat, NEW w \in Nat \ {0}, NEW b \in Nat \ {0}
  PROVE  /\ n \div w \in Nat
         /\ n \div (b * w) \in Nat
         /\ (n \div w) % b \in 0..b - 1
         /\ b * (n \div (b * w)) + ((n \div w) % b) = n \div w
<1> DEFINE q == n \div w
           p == q \div b
           m == q % b
<1>1. q \in Int /\ w * q <= n /\ n < w * q + w
  BY Division
<1> HIDE DEF q
<1>2. p \in Int /\ q - b * p = m /\ b * p <= q /\ q < b * p + b /\ m \in 0..b - 1
  BY <1>1, Division
<1> HIDE DEF p, m
<1>3. q >= 0 /\ p >= 0
  <2>1. -w < w * q
    BY <1>1
  <2>2. q >= 0
    BY <1>1, <2>1, Sign
  <2>3. b * p \in Int
    BY <1>2
  <2>5. -b < b * p
    BY <1>1, <1>2, <2>2, <2>3
  <2>4. QED
    BY <1>2, <2>2, <2>5, Sign
<1>4. n \div (b * w) = p
  <2> DEFINE c == b * p
             d == b * w
  <2>1. c \in Int /\ d \in Int /\ d > 0
    BY <1>2
  <2>2. d * p = w * c /\ d = w * b
    BY <1>2
  <2>3. c <= q /\ q + 1 <= c + b
    BY <1>1, <1>2
  <2> HIDE DEF c
  <2>4. w * c <= w * q /\ w * (q + 1) <= w * (c + b)
    <3>1. w * (q - c) >= 0 /\ w * (c + b - q - 1) >= 0
      BY <1>1, <2>1, <2>3
    <3>2. /\ w * (q - c) = w * q - w * c
          /\ w * (c + b - q - 1) = w * (c + b) - w * (q + 1)
          /\ w * q \in Int /\ w * c \in Int /\ w * (c + b) \in Int /\ w * (q + 1) \in Int
      BY <1>1, <2>1
    <3>3. QED
      BY <3>1, <3>2
  <2>5. w * (q + 1) = w * q + w /\ w * (c + b) = w * c + w * b
        /\ w * q \in Int /\ w * c \in Int /\ w * b \in Int
    BY <1>1, <2>1
  <2>6. w * c <= n /\ n < w * c + w * b
    BY <1>1, <2>4, <2>5
  <2> HIDE DEF d
  <2>7. d * p <= n /\ n < d * p + d
    BY <2>2, <2>6
  <2>8. n \div d = p
    BY <1>2, <2>1, <2>7, DivisionUnique
  <2>9. QED
    BY <2>8 DEF d
<1>5. b * p + m = q
  BY <1>1, <1>2
<1>6. /\ q \in Nat /\ n \div (b * w) \in Nat /\ m \in 0..b - 1
      /\ b * (n \div (b * w)) + m = q
  BY <1>1, <1>2, <1>3, <1>4, <1>5
<1>7. QED
  BY <1>6 DEF m, q

\* The weights of the bytes are powers of ByteBase.
LEMMA Weights ==
  /\ Weight[0] = 1
  /\ \A k \in Nat : Weight[k] \in Nat \ {0} /\ Weight[k + 1] = ByteBase * Weight[k]
<1> DEFINE V == Nat \ {0}
           base == 1
           step == [n \in Nat |-> [w \in V |-> ByteBase * w]]
           Body(f) == [k \in Nat |-> IF k = 0 THEN 1 ELSE ByteBase * f[k - 1]]
<1>1. base \in V /\ StepsIn(V, step)
  BY ByteBaseAssumption DEF StepsIn
<1>2. \A n \in Nat : \A w \in V : step[n][w] = ByteBase * w
  OBVIOUS
<1> HIDE DEF step, V, base
<1>3. PICK f : Follows(f, V, base, step)
  BY <1>1, Recursion
<1>4. f[0] = 1 /\ \A n \in Nat : f[n] \in V /\ f[n + 1] = ByteBase * f[n]
  BY <1>2, <1>3 DEF base, Follows
<1>5. \A k \in Nat : f[k] = IF k = 0 THEN 1 ELSE ByteBase * f[k - 1]
  <2> SUFFICES ASSUME NEW k \in Nat, k # 0 PROVE f[k] = ByteBase * f[k - 1]
    BY <1>4
  <2>1. k - 1 \in Nat /\ (k - 1) + 1 = k
    OBVIOUS
  <2>2. QED
    BY <1>4, <2>1
<1>6. f = Body(f)
  <2>1. f \in [Nat -> V] /\ Body(f) = [k \in Nat |-> f[k]]
    BY <1>3, <1>5 DEF Follows
  <2>2. QED
    BY <2>1
<1>7. Weight = CHOOSE g : g = Body(g)
  BY DEF Weight
<1>8. Weight = Body(Weight)
  <2> HIDE DEF Body
  <2>1. QED
    BY <1>6, <1>7
<1>9. Weight[0] = 1 /\ \A k \in Nat : Weight[k + 1] = ByteBase * Weight[k]
  <2>1. \A k \in Nat : Weight[k] = IF k = 0 THEN 1 ELSE ByteBase * Weight[k - 1]
    BY <1>8
  <2> HIDE DEF Body
  <2>2. ASSUME NEW k \in Nat PROVE Weight[k + 1] = ByteBase * Weight[k]
    <3>1. k + 1 \in Nat /\ k + 1 # 0 /\ (k + 1) - 1 = k
      OBVIOUS
    <3>2. QED
      BY <2>1, <3>1
  <2>3. QED
    BY <2>1, <2>2
<1>10. Nat \subseteq {k \in Nat : Weight[k] \in Nat \ {0}}
  <2> DEFINE A == {k \in Nat : Weight[k] \in Nat \ {0}}
  <2>1. 0 \in A
    BY <1>9
  <2>2. \A n \in Nat : n \in A => n + 1 \in A
    <3> SUFFICES ASSUME NEW n \in Nat, Weight[n] \in Nat \ {0}
                 PROVE  ByteBase * Weight[n] \in Nat \ {0}
      BY <1>9
    <3> DEFINE w == Weight[n]
    <3> HIDE DEF w
    <3>1. w \in Nat \ {0} => ByteBase * w \in Nat \ {0}
      BY ByteBaseAssumption
    <3>2. QED
      BY <3>1 DEF w
  <2> HIDE DEF A
  <2>3. Nat \subseteq A
    BY <2>1, <2>2, SetInduction
  <2>4. QED
    BY <2>3 DEF A
<1>11. QED
  BY <1>9, <1>10

\* u is what is shifted together from its bytes, the highest first.
LEMMA ShiftedIs ==
  ASSUME NEW b, NEW pos, NEW size \in Nat, NEW u \in Nat, u < Weight[size],
         \A k \in 1..size : b[pos + k] = (u \div Weight[size - k]) % ByteBase
  PROVE  Shifted(b, pos, size) = u
<1> DEFINE Body(g) == [k \in 0..size |-> IF k = 0 THEN 0 ELSE ByteBase * g[k - 1] + b[pos + k]]
           part == [k \in 0..size |-> u \div Weight[size - k]]
           us == CHOOSE g : g = Body(g)
<1>1. \A k \in 0..size : size - k \in Nat /\ Weight[size - k] \in Nat \ {0}
  BY Weights
<1>2. part[0] = 0
  <2> DEFINE w == Weight[size]
  <2>1. w \in Nat \ {0} /\ u < w
    BY Weights
  <2> HIDE DEF w
  <2>2. u \div w = 0
    BY <2>1, DivisionUnique
  <2>3. QED
    BY <2>2 DEF w
<1>3. ASSUME NEW k \in 1..size
      PROVE  ByteBase * part[k - 1] + b[pos + k] = part[k]
  <2> DEFINE w == Weight[size - k]
  <2>1. size - k \in Nat /\ k \in 0..size /\ k - 1 \in 0..size /\ size - (k - 1) = (size - k) + 1
    OBVIOUS
  <2>2. w \in Nat \ {0} /\ Weight[size - (k - 1)] = ByteBase * w
    BY <2>1, Weights
  <2>3. part[k] = u \div w /\ part[k - 1] = u \div (ByteBase * w)
    BY <2>1, <2>2
  <2>4. b[pos + k] = (u \div w) % ByteBase
    OBVIOUS
  <2> HIDE DEF w
  <2>5. ByteBase * (u \div (ByteBase * w)) + ((u \div w) % ByteBase) = u \div w
    BY <2>2, ByteBaseAssumption, DivisionTwice
  <2> HIDE DEF part
  <2>6. QED
    BY <2>3, <2>4, <2>5
<1>4. part = Body(part)
  <2>1. \A k \in 0..size : part[k] = IF k = 0 THEN 0 ELSE ByteBase * part[k - 1] + b[pos + k]
    <3> SUFFICES ASSUME NEW k \in 0..size, k # 0
                 PROVE  part[k] = ByteBase * part[k - 1] + b[pos + k]
      BY <1>2
    <3>1. k \in 1..size
      OBVIOUS
    <3> HIDE DEF part
    <3>2. QED
      BY <1>3, <3>1
  <2>2. Body(part) = [k \in 0..size |-> part[k]]
    BY <2>1
  <2>3. QED
    BY <2>2
<1>5. us = Body(us)
  <2> HIDE DEF Body
  <2>1. QED
    BY <1>4
<1>6. \A k \in 0..size : us[k] = IF k = 0 THEN 0 ELSE ByteBase * us[k - 1] + b[pos + k]
  <2> HIDE DEF us
  <2>1. QED
    BY <1>5
<1> HIDE DEF us, part, Body
<1>7. Nat \subseteq {k \in Nat : k <= size => us[k] = part[k]}
  <2> DEFINE A == {k \in Nat : k <= size => us[k] = part[k]}
  <2>1. 0 \in A
    BY <1>2, <1>6
  <2>2. ASSUME NEW n \in Nat, n \in A, n + 1 <= size PROVE us[n + 1] = part[n + 1]
    <3>1. n + 1 \in 1..size /\ n + 1 \in 0..size /\ n + 1 # 0 /\ (n + 1) - 1 = n
      BY <2>2
    <3>2. us[n] = part[n]
      BY <2>2
    <3>3. us[n + 1] = ByteBase * us[n] + b[pos + (n + 1)]
      BY <1>6, <3>1
    <3>4. part[n + 1] = ByteBase * part[n] + b[pos + (n + 1)]
      BY <1>3, <3>1
    <3>5. QED
      BY <3>2, <3>3, <3>4
  <2>3. \A n \in Nat : n \in A => n + 1 \in A
    BY <2>2
  <2> HIDE DEF A
  <2>4. Nat \subseteq A
    BY <2>1, <2>3, SetInduction
  <2>5. QED
    BY <2>4 DEF A
<1>8. us[size] = part[size]
  BY <1>7
<1>9. part[size] = u
  <2>1. size \in 0..size /\ size - size = 0 /\ Weight[0] = 1 /\ u \div 1 = u
    BY Weights
  <2>2. QED
    BY <2>1 DEF part
<1>10. QED
  BY <1>8, <1>9 DEF Shifted, us, Body

\* write() and read_integer() of any integer that is in the range of its type.
LEMMA IntegersRead ==
  ASSUME NEW b, NEW pos \in Nat, NEW signed \in BOOLEAN, NEW size \in Nat,
         NEW v \in SmallestInteger(signed, size) .. LargestInteger(signed, size),
         \A k \in 1..size : b[pos + k] = WriteInteger(v, size)[k]
  PROVE  ReadInteger(b, pos, signed, size) = [val |-> v, pos |-> pos + size]
<1> DEFINE w == Weight[size]
           u == v % w
           half == w \div 2
<1>1. w \in Nat \ {0}
  BY Weights
<1> HIDE DEF w
<1>2. half \in Nat /\ 2 * half <= w /\ w < 2 * half + 2
  BY <1>1
<1> HIDE DEF half
<1>3. /\ signed => -half <= v /\ v <= half - 1
      /\ ~signed => 0 <= v /\ v <= w - 1
      /\ v \in Int
  <2>1. CASE signed
    BY <1>1, <1>2, <2>1 DEF SmallestInteger, LargestInteger, w, half
  <2>2. CASE ~signed
    BY <1>1, <1>2, <2>2 DEF SmallestInteger, LargestInteger, w
  <2>3. QED
    BY <2>1, <2>2
<1>4. u \in Nat /\ u < w
  BY <1>1, <1>3, Division
<1>5. u = IF v < 0 THEN v + w ELSE v
  <2>1. CASE v < 0
    <3>1. w * (-1) <= v /\ v < w * (-1) + w /\ w * (-1) = -w
      BY <1>1, <1>2, <1>3, <2>1
    <3>2. v % w = v - w * (-1)
      BY <1>1, <1>3, <3>1, DivisionUnique
    <3>3. QED
      BY <1>1, <1>3, <2>1, <3>1, <3>2
  <2>2. CASE ~(v < 0)
    <3>1. w * 0 <= v /\ v < w * 0 + w /\ w * 0 = 0
      BY <1>1, <1>2, <1>3, <2>2
    <3>2. v % w = v - w * 0
      BY <1>1, <1>3, <3>1, DivisionUnique
    <3>3. QED
      BY <1>1, <1>3, <2>2, <3>1, <3>2
  <2>3. QED
    BY <2>1, <2>2
<1> HIDE DEF u
<1>6. Shifted(b, pos, size) = u
  <2>1. \A k \in 1..size : b[pos + k] = (u \div Weight[size - k]) % ByteBase
    BY DEF WriteInteger, u, w
  <2>2. u < Weight[size]
    BY <1>4 DEF w
  <2>3. QED
    BY <1>4, <2>1, <2>2, ShiftedIs
<1>7. LargestInteger(signed, size) = IF signed THEN half - 1 ELSE w - 1
  BY DEF LargestInteger, half, w
<1>8. (IF u > LargestInteger(signed, size) THEN u - w ELSE u) = v
  <2>1. CASE signed
    BY <1>1, <1>2, <1>3, <1>5, <1>7, <2>1
  <2>2. CASE ~signed
    BY <1>1, <1>3, <1>5, <1>7, <2>2
  <2>3. QED
    BY <2>1, <2>2
<1>9. QED
  BY <1>6, <1>8 DEF ReadInteger, w

\* What the writer has put at place pos of b is read back from there.
IsAt(b, pos, bytes) ==
  /\ pos + Len(bytes) <= Len(b)
  /\ \A k \in 1..Len(bytes) : b[pos + k] = bytes[k]

\* A string of characters is read back.
LEMMA CharactersRead ==
  ASSUME NEW b \in Seq(Int), NEW pos \in Nat, NEW s \in Seq(Int), pos + Len(s) <= Len(b),
         \A k \in 1..Len(s) : b[pos + k] = s[k]
  PROVE  SubSeq(b, pos + 1, pos + Len(s)) = s
<1> DEFINE n == Len(s)
           m == pos + 1
           l == pos + n
<1>1. n \in Nat /\ Len(b) \in Nat /\ m \in 1..Len(b) + 1 /\ l \in m - 1..Len(b)
  OBVIOUS
<1>2. /\ SubSeq(b, m, l) \in Seq(Int)
      /\ Len(SubSeq(b, m, l)) = l - m + 1
      /\ \A i \in 1..l - m + 1 : SubSeq(b, m, l)[i] = b[m + i - 1]
  <2> HIDE DEF m, l
  <2>1. QED
    BY <1>1, SubSeqProperties
<1>3. l - m + 1 = n /\ \A i \in 1..n : m + i - 1 = pos + i
  <2> HIDE DEF n
  <2>1. l - m + 1 = n
    BY <1>1
  <2>2. \A i \in 1..n : m + i - 1 = pos + i
    BY <1>1
  <2>3. QED
    BY <2>1, <2>2
<1> HIDE DEF m, l
<1>4. \A i \in 1..n : SubSeq(b, m, l)[i] = s[i]
  BY <1>2, <1>3
<1>5. SubSeq(b, m, l) = s
  BY <1>2, <1>3, <1>4, SeqEqual
<1>6. QED
  BY <1>5 DEF m, l

\* What an item promises of its encoding and of the reader's answer.
ItemRight(x) ==
  /\ x.bytes \in Seq(Int)
  /\ \A b \in Seq(Int) : \A pos \in Nat :
       IsAt(b, pos, x.bytes) => ReadFrom(b, pos, x) = [val |-> x.val, pos |-> pos + Len(x.bytes)]
  /\ (x.kind = "integer" => x.size # 2) => Len(x.bytes) % 4 = 0

\* write() and read_integer().
LEMMA IntegerItemRight ==
  ASSUME NEW signed \in BOOLEAN, NEW size \in Sizes,
         NEW v \in SmallestInteger(signed, size)..LargestInteger(signed, size)
  PROVE  ItemRight(IntegerItem(signed, size, v))
<1> DEFINE x == IntegerItem(signed, size, v)
           bytes == WriteInteger(v, size)
<1>1. /\ x.kind = "integer" /\ x.signed = signed /\ x.size = size /\ x.val = v
      /\ x.bytes = bytes
  BY DEF IntegerItem
<1> HIDE DEF x
<1>2. size \in Nat /\ (size # 2 => size % 4 = 0)
  BY DEF Sizes
<1>3. v \in Int
  OBVIOUS
<1>4. \A k \in 1..size : ((v % Weight[size]) \div Weight[size - k]) % ByteBase \in Int
  <2> SUFFICES ASSUME NEW k \in 1..size
               PROVE  ((v % Weight[size]) \div Weight[size - k]) % ByteBase \in Int
    OBVIOUS
  <2> DEFINE w == Weight[size]
             d == Weight[size - k]
             u == v % w
             q == u \div d
  <2>1. size - k \in Nat
    BY <1>2
  <2>2. w \in Int /\ w > 0 /\ d \in Int /\ d > 0
    BY <1>2, <2>1, Weights
  <2> HIDE DEF w, d
  <2>3. u \in Int
    BY <1>3, <2>2, Division
  <2> HIDE DEF u
  <2>4. q \in Int
    BY <2>2, <2>3, Division
  <2> HIDE DEF q
  <2>5. q % ByteBase \in Int
    BY <2>4, Division, ByteBaseAssumption
  <2>6. QED
    BY <2>5 DEF q, u, w, d
<1>5. bytes \in [1..size -> Int]
  BY <1>4 DEF WriteInteger
<1>6. bytes \in Seq(Int) /\ Len(bytes) = size
  <2> HIDE DEF bytes
  <2>1. QED
    BY <1>2, <1>5
<1>7. ASSUME NEW b \in Seq(Int), NEW pos \in Nat, IsAt(b, pos, bytes)
      PROVE  ReadFrom(b, pos, x) = [val |-> v, pos |-> pos + size]
  <2>1. \A k \in 1..size : b[pos + k] = WriteInteger(v, size)[k]
    BY <1>6, <1>7 DEF IsAt
  <2>2. ReadInteger(b, pos, signed, size) = [val |-> v, pos |-> pos + size]
    <3> HIDE DEF bytes
    <3>1. size \in Nat
      BY <1>2
    <3>2. QED
      BY <2>1, <3>1, IntegersRead, ZenonT(60)
  <2>3. QED
    BY <1>1, <2>2 DEF ReadFrom
<1> HIDE DEF bytes
<1>8. QED
  BY <1>1, <1>2, <1>6, <1>7 DEF ItemRight, x

\* write_raw() and read_raw().
LEMMA RawItemRight ==
  ASSUME NEW mem \in Seq(Bytes), Len(mem) \in {4, 8}
  PROVE  ItemRight(RawItem(mem))
<1> DEFINE x == RawItem(mem)
<1>1. mem \in Seq(Int) /\ Len(mem) % 4 = 0
  <2>1. Bytes \subseteq Int
    BY ByteBaseAssumption DEF Bytes
  <2>2. mem \in Seq(Int)
    BY <2>1, SeqMonotonic
  <2>3. 4 % 4 = 0 /\ 8 % 4 = 0
    OBVIOUS
  <2>4. Len(mem) % 4 = 0
    BY <2>3
  <2>5. QED
    BY <2>2, <2>4
<1>2. /\ x.kind = "raw" /\ x.size = Len(mem) /\ x.val = mem /\ x.bytes = mem
  BY DEF RawItem, WriteRaw
<1> HIDE DEF x
<1>3. ASSUME NEW b \in Seq(Int), NEW pos \in Nat, IsAt(b, pos, mem)
      PROVE  ReadFrom(b, pos, x) = [val |-> mem, pos |-> pos + Len(mem)]
  <2>1. SubSeq(b, pos + 1, pos + Len(mem)) = mem
    BY <1>1, <1>3, CharactersRead DEF IsAt
  <2>2. QED
    BY <1>2, <2>1 DEF ReadFrom, ReadRaw
<1>4. QED
  BY <1>1, <1>2, <1>3 DEF ItemRight, x

\* write() of a string and read_string(): the padding is skipped.
LEMMA StringItemRight ==
  ASSUME NEW s \in Seq(Bytes)
  PROVE  ItemRight(StringItem(s))
<1> DEFINE x == StringItem(s)
           n == Len(s)
           pad == Pad(Padsize(n))
           bytes == WriteString(s)
<1>1. s \in Seq(Int) /\ n \in Nat
  BY ByteBaseAssumption DEF Bytes
<1>2. /\ x.kind = "string" /\ x.size = n /\ x.val = s /\ x.bytes = bytes
  BY DEF StringItem
<1> HIDE DEF x
<1> HIDE DEF n
<1>3. Padsize(n) \in Nat /\ (n + Padsize(n)) % 4 = 0
  <2>1. n % 4 = 0 => Padsize(n) = 0
    BY DEF Padsize
  <2>2. n % 4 # 0 => Padsize(n) = 4 - (n % 4)
    BY DEF Padsize
  <2>3. n % 4 \in 0..3
    BY <1>1
  <2>4. n % 4 # 0 => (n + (4 - (n % 4))) % 4 = 0
    BY <1>1
  <2>5. QED
    BY <1>1, <2>1, <2>2, <2>3, <2>4
<1>4. pad \in Seq(Int) /\ Len(pad) = Padsize(n)
  BY <1>3 DEF Pad
<1> HIDE DEF pad
<1>5. bytes = s \o pad
  BY DEF WriteString, pad, n
<1> HIDE DEF bytes
<1>6. /\ bytes \in Seq(Int) /\ Len(bytes) = n + Padsize(n)
      /\ \A k \in 1..n : bytes[k] = s[k]
  <2>1. Len(s) = n
    BY DEF n
  <2>2. bytes \in Seq(Int) /\ Len(bytes) = n + Padsize(n)
    BY <1>1, <1>4, <1>5, <2>1, ConcatProperties
  <2>3. \A k \in 1..n : bytes[k] = s[k]
    BY <1>1, <1>3, <1>4, <1>5, <2>1
  <2>4. QED
    BY <2>2, <2>3
<1>7. ASSUME NEW b \in Seq(Int), NEW pos \in Nat, IsAt(b, pos, bytes)
      PROVE  ReadFrom(b, pos, x) = [val |-> s, pos |-> pos + Len(bytes)]
  <2>1. Len(b) \in Nat /\ n <= Len(bytes) /\ Len(bytes) \in Nat
    BY <1>1, <1>3, <1>6
  <2>2. pos + n <= Len(b)
    BY <1>1, <1>7, <2>1 DEF IsAt
  <2>3. \A k \in 1..n : b[pos + k] = s[k]
    <3> SUFFICES ASSUME NEW k \in 1..n PROVE b[pos + k] = s[k]
      OBVIOUS
    <3>1. k \in 1..Len(bytes)
      BY <1>1, <2>1
    <3>2. b[pos + k] = bytes[k]
      BY <1>7, <3>1 DEF IsAt
    <3>3. QED
      BY <1>6, <3>2
  <2>4. SubSeq(b, pos + 1, pos + n) = s
    BY <1>1, <2>2, <2>3, CharactersRead DEF n
  <2>5. pos + n + Padsize(n) = pos + Len(bytes)
    BY <1>1, <1>3, <1>6
  <2>6. QED
    BY <1>2, <2>4, <2>5 DEF ReadFrom, ReadString
<1>8. QED
  BY <1>2, <1>3, <1>6, <1>7 DEF ItemRight, x

\* Every item is read back from where it was written.
LEMMA ItemsRight ==
  ASSUME NEW x, IsItem(x)
  PROVE  ItemRight(x)
<1>1. CASE \E signed \in BOOLEAN : \E size \in Sizes :
             \E v \in SmallestInteger(signed, size)..LargestInteger(signed, size) :
               x = IntegerItem(signed, size, v)
  BY <1>1, IntegerItemRight, Zenon
<1>2. CASE \E mem \in Seq(Bytes) : Len(mem) \in {4, 8} /\ x = RawItem(mem)
  BY <1>2, RawItemRight, Zenon
<1>3. CASE \E s \in Seq(Bytes) : x = StringItem(s)
  BY <1>3, StringItemRight, Zenon
<1>4. QED
  BY <1>1, <1>2, <1>3, Zenon DEF IsItem

\* starts[k] is where the item after the first k starts, or the writer is.
StartsRight(starts, its, b) ==
  /\ starts \in [0..Len(its) -> Nat]
  /\ starts[0] = 0 /\ starts[Len(its)] = Len(b)
  /\ \A k \in 1..Len(its) : starts[k] = starts[k - 1] + Len(its[k].bytes)
  /\ \A k \in 1..Len(its) : IsAt(b, starts[k - 1], its[k].bytes)

Aligned(its, b) ==
  (\A k \in 1..Len(its) : its[k].kind = "integer" => its[k].size # 2) => Len(b) % 4 = 0

\* The invariant: the reader is at the start of an item of the writer.
XdrInv(I) ==
  /\ items \in Seq(I) /\ out \in Seq(Int) /\ got \in Seq({x.val : x \in I})
  /\ Len(got) <= Len(items)
  /\ \A k \in 1..Len(got) : got[k] = items[k].val
  /\ \E starts : StartsRight(starts, items, out) /\ taken = starts[Len(got)]
  /\ Aligned(items, out)

\* An item that is appended leaves those before it where they are.
LEMMA StartsGrow ==
  ASSUME NEW I, \A y \in I : IsItem(y), NEW its \in Seq(I), NEW b \in Seq(Int), NEW starts,
         StartsRight(starts, its, b), NEW x \in I
  PROVE  \E longer : /\ StartsRight(longer, Append(its, x), b \o x.bytes)
                     /\ \A k \in 0..Len(its) : longer[k] = starts[k]
<1> DEFINE n == Len(its)
           c == b \o x.bytes
           t == Append(its, x)
           longer == [k \in 0..n + 1 |-> IF k = n + 1 THEN Len(c) ELSE starts[k]]
<1>1. /\ n \in Nat /\ Len(b) \in Nat /\ x.bytes \in Seq(Int) /\ Len(x.bytes) \in Nat
  <2>1. x.bytes \in Seq(Int)
    BY ItemsRight DEF ItemRight
  <2>2. QED
    BY <2>1
<1>2. /\ Len(c) = Len(b) + Len(x.bytes)
      /\ \A i \in 1..Len(b) : c[i] = b[i]
      /\ \A i \in 1..Len(x.bytes) : c[Len(b) + i] = x.bytes[i]
  <2> DEFINE e == x.bytes
  <2>1. e \in Seq(Int) /\ Len(e) \in Nat
    BY <1>1
  <2> HIDE DEF e
  <2>2. Len(b \o e) = Len(b) + Len(e)
        /\ \A i \in 1..Len(b) + Len(e) : (b \o e)[i] = IF i <= Len(b) THEN b[i] ELSE e[i - Len(b)]
    BY <2>1, ConcatProperties
  <2>3. \A i \in 1..Len(b) : (b \o e)[i] = b[i]
    BY <1>1, <2>1, <2>2
  <2>4. \A i \in 1..Len(e) : (b \o e)[Len(b) + i] = e[i]
    BY <1>1, <2>1, <2>2
  <2>5. QED
    BY <2>2, <2>3, <2>4 DEF e
<1> HIDE DEF c
<1>3. /\ Len(t) = n + 1 /\ t[n + 1] = x
      /\ \A k \in 1..n : t[k] = its[k]
  OBVIOUS
<1> HIDE DEF t, n
<1>4. /\ starts \in [0..n -> Nat] /\ starts[0] = 0 /\ starts[n] = Len(b)
      /\ \A k \in 1..n : starts[k] = starts[k - 1] + Len(its[k].bytes)
      /\ \A k \in 1..n : IsAt(b, starts[k - 1], its[k].bytes)
  BY DEF StartsRight, n
<1>5. /\ longer \in [0..n + 1 -> Nat] /\ longer[n + 1] = Len(c)
      /\ \A k \in 0..n : longer[k] = starts[k]
  <2>1. Len(c) \in Nat
    BY <1>1, <1>2
  <2>2. \A k \in 0..n + 1 : (IF k = n + 1 THEN Len(c) ELSE starts[k]) \in Nat
    BY <1>1, <1>4, <2>1
  <2>3. QED
    BY <1>1, <2>2
<1> HIDE DEF longer
<1>6. \A k \in 1..n + 1 : k \in 1..n \/ k = n + 1
  BY <1>1
<1>7. ASSUME NEW k \in 1..n + 1 PROVE longer[k] = longer[k - 1] + Len(t[k].bytes)
  <2>1. CASE k \in 1..n
    <3>1. k \in 0..n /\ k - 1 \in 0..n
      BY <1>1, <2>1
    <3>2. QED
      BY <1>3, <1>4, <1>5, <2>1, <3>1
  <2>2. CASE k = n + 1
    <3>1. k - 1 = n /\ n \in 0..n
      BY <1>1, <2>2
    <3>2. QED
      BY <1>2, <1>3, <1>4, <1>5, <2>2, <3>1
  <2>3. QED
    BY <1>6, <2>1, <2>2
<1>8. ASSUME NEW k \in 1..n + 1 PROVE IsAt(c, longer[k - 1], t[k].bytes)
  <2>1. CASE k \in 1..n
    <3>1. k - 1 \in 0..n
      BY <1>1, <2>1
    <3> DEFINE p == starts[k - 1]
               e == its[k].bytes
    <3>2. IsAt(b, p, e) /\ p \in Nat /\ longer[k - 1] = p /\ t[k].bytes = e
      BY <1>3, <1>4, <1>5, <2>1, <3>1
    <3>3. e \in Seq(Int)
      <4>1. its[k] \in I
        BY <2>1 DEF n
      <4>2. QED
        BY <4>1, ItemsRight DEF ItemRight
    <3> HIDE DEF p, e
    <3>4. Len(e) \in Nat
      BY <3>3
    <3>5. p + Len(e) <= Len(b) /\ \A i \in 1..Len(e) : b[p + i] = e[i]
      BY <3>2 DEF IsAt
    <3>6. p + Len(e) <= Len(c)
      BY <1>1, <1>2, <3>2, <3>4, <3>5
    <3>7. \A i \in 1..Len(e) : c[p + i] = e[i]
      <4>1. \A i \in 1..Len(e) : p + i \in 1..Len(b)
        BY <1>1, <3>2, <3>4, <3>5
      <4>2. QED
        BY <1>2, <3>5, <4>1
    <3>8. QED
      BY <3>2, <3>6, <3>7 DEF IsAt
  <2>2. CASE k = n + 1
    <3>1. longer[k - 1] = Len(b) /\ t[k] = x
      <4>1. k - 1 = n /\ n \in 0..n
        BY <1>1, <2>2
      <4>2. QED
        BY <1>3, <1>4, <1>5, <2>2, <4>1
    <3>2. Len(b) + Len(x.bytes) <= Len(c)
      BY <1>1, <1>2
    <3>3. QED
      BY <1>2, <3>1, <3>2 DEF IsAt
  <2>3. QED
    BY <1>6, <2>1, <2>2
<1>9. longer[0] = 0
  BY <1>1, <1>4, <1>5
<1>10. StartsRight(longer, t, c)
  BY <1>3, <1>5, <1>7, <1>8, <1>9 DEF StartsRight
<1>11. QED
  BY <1>5, <1>10 DEF t, c, n

\* Nothing is written yet.
LEMMA XdrStart ==
  ASSUME NEW I, XdrInit
  PROVE  XdrInv(I)
<1> DEFINE starts == [k \in 0..0 |-> 0]
<1>1. items = <<>> /\ out = <<>> /\ taken = 0 /\ got = <<>>
  BY DEF XdrInit
<1>2. /\ items \in Seq(I) /\ out \in Seq(Int) /\ got \in Seq({y.val : y \in I})
      /\ Len(items) = 0 /\ Len(out) = 0 /\ Len(got) = 0
  BY <1>1
<1>3. StartsRight(starts, items, out) /\ taken = starts[Len(got)]
  BY <1>1, <1>2 DEF StartsRight
<1>4. Aligned(items, out)
  <2>1. 0 % 4 = 0
    OBVIOUS
  <2>2. QED
    BY <1>2, <2>1 DEF Aligned
<1>5. QED
  BY <1>2, <1>3, <1>4 DEF XdrInv

\* A write appends an item and leaves the reader where it is.
LEMMA WrittenStep ==
  ASSUME NEW I, \A y \in I : IsItem(y), XdrInv(I), NEW x \in I, Written(x)
  PROVE  XdrInv(I)'
<1> DEFINE n == Len(items)
           g == Len(got)
<1>1. /\ items' = Append(items, x) /\ out' = out \o x.bytes
      /\ taken' = taken /\ got' = got
  BY DEF Written
<1>2. /\ items \in Seq(I) /\ out \in Seq(Int) /\ g \in Nat /\ g <= n /\ n \in Nat
      /\ got \in Seq({y.val : y \in I})
      /\ \A k \in 1..g : got[k] = items[k].val
  BY DEF XdrInv
<1>3. PICK starts : StartsRight(starts, items, out) /\ taken = starts[g]
  BY DEF XdrInv
<1>4. ItemRight(x)
  BY ItemsRight
<1>5. x.bytes \in Seq(Int) /\ ((x.kind = "integer" => x.size # 2) => Len(x.bytes) % 4 = 0)
  BY <1>4 DEF ItemRight
<1>6. /\ items' \in Seq(I) /\ Len(items') = n + 1 /\ items'[n + 1] = x
      /\ \A k \in 1..n : items'[k] = items[k]
  BY <1>1, <1>2
<1>7. out' \in Seq(Int) /\ Len(out') = Len(out) + Len(x.bytes)
  <2> DEFINE b == out
             e == x.bytes
  <2>1. b \in Seq(Int) /\ e \in Seq(Int)
    BY <1>2, <1>5
  <2> HIDE DEF b, e
  <2>2. b \o e \in Seq(Int) /\ Len(b \o e) = Len(b) + Len(e)
    BY <2>1, ConcatProperties
  <2>3. QED
    BY <1>1, <2>2 DEF b, e
<1>8. \E longer : StartsRight(longer, items', out') /\ taken' = longer[g]
  <2> DEFINE its == items
             b == out
  <2>1. its \in Seq(I) /\ b \in Seq(Int) /\ StartsRight(starts, its, b)
    BY <1>2, <1>3
  <2> HIDE DEF its, b
  <2>2. PICK longer : /\ StartsRight(longer, Append(its, x), b \o x.bytes)
                      /\ \A k \in 0..Len(its) : longer[k] = starts[k]
    BY <2>1, StartsGrow
  <2>3. g \in 0..Len(its)
    BY <1>2 DEF its
  <2>4. QED
    BY <1>1, <1>3, <2>2, <2>3 DEF its, b
<1>9. Aligned(items', out')
  <2> SUFFICES ASSUME \A k \in 1..n + 1 : items'[k].kind = "integer" => items'[k].size # 2
               PROVE  (Len(out) + Len(x.bytes)) % 4 = 0
    BY <1>6, <1>7 DEF Aligned
  <2>1. \A k \in 1..n : k \in 1..n + 1
    BY <1>2
  <2>2. \A k \in 1..n : items[k].kind = "integer" => items[k].size # 2
    BY <1>6, <2>1
  <2>3. Len(out) % 4 = 0
    BY <2>2 DEF XdrInv, Aligned
  <2>4. Len(x.bytes) % 4 = 0
    <3>1. n + 1 \in 1..n + 1
      BY <1>2
    <3>2. QED
      BY <1>5, <1>6, <3>1
  <2> DEFINE p == Len(out)
             q == Len(x.bytes)
  <2>5. p \in Nat /\ q \in Nat
    BY <1>2, <1>5
  <2> HIDE DEF p, q
  <2>6. p % 4 = 0 /\ q % 4 = 0 => (p + q) % 4 = 0
    BY <2>5
  <2>7. QED
    BY <2>3, <2>4, <2>6 DEF p, q
<1>10. g \in Nat /\ g <= n + 1 /\ \A k \in 1..g : got[k] = items'[k].val
  <2>1. \A k \in 1..g : k \in 1..n
    BY <1>2
  <2>2. QED
    BY <1>2, <1>6, <2>1
<1> HIDE DEF n
<1>11. /\ got' \in Seq({y.val : y \in I}) /\ Len(got') <= Len(items')
       /\ \A k \in 1..Len(got') : got'[k] = items'[k].val
       /\ \E longer : StartsRight(longer, items', out') /\ taken' = longer[Len(got')]
  BY <1>1, <1>2, <1>6, <1>8, <1>10
<1>12. QED
  BY <1>6, <1>7, <1>9, <1>11 DEF XdrInv

\* The reader gets the item it is at and goes to the next one.
LEMMA ReadStep ==
  ASSUME NEW I, \A y \in I : IsItem(y), XdrInv(I), ReadNext
  PROVE  XdrInv(I)'
<1> DEFINE n == Len(items)
           g == Len(got)
           x == items[g + 1]
           b == out
           pos == taken
<1>1. /\ g < n /\ items' = items /\ out' = out
      /\ got' = Append(got, ReadFrom(b, pos, x).val) /\ taken' = ReadFrom(b, pos, x).pos
  BY DEF ReadNext
<1>2. /\ items \in Seq(I) /\ b \in Seq(Int) /\ g \in Nat /\ n \in Nat
      /\ \A k \in 1..g : got[k] = items[k].val
      /\ Aligned(items, out)
  BY DEF XdrInv
<1>3. PICK starts : StartsRight(starts, items, out) /\ pos = starts[g]
  BY DEF XdrInv
<1>4. g + 1 \in 1..n /\ g \in 0..n /\ (g + 1) - 1 = g /\ x \in I
  BY <1>1, <1>2
<1>5. ItemRight(x)
  <2> HIDE DEF x
  <2>1. QED
    BY <1>4, ItemsRight
<1>6. pos \in Nat /\ IsAt(b, pos, x.bytes) /\ starts[g + 1] = pos + Len(x.bytes)
  BY <1>3, <1>4 DEF StartsRight
<1> HIDE DEF x, b, pos
<1>7. ReadFrom(b, pos, x) = [val |-> x.val, pos |-> pos + Len(x.bytes)]
  BY <1>2, <1>5, <1>6 DEF ItemRight
<1>8. got' = Append(got, x.val) /\ taken' = starts[g + 1]
  BY <1>1, <1>6, <1>7
<1>9. got \in Seq({y.val : y \in I}) /\ x.val \in {y.val : y \in I}
  <2>1. x \in I
    BY <1>4 DEF x
  <2>2. QED
    BY <2>1 DEF XdrInv
<1>10. got' \in Seq({y.val : y \in I})
  BY <1>8, <1>9
<1>11. Len(got') = g + 1 /\ got'[g + 1] = x.val /\ \A k \in 1..g : got'[k] = got[k]
  BY <1>2, <1>8, <1>9
<1>12. \A k \in 1..g + 1 : got'[k] = items[k].val
  <2>1. \A k \in 1..g + 1 : k \in 1..g \/ k = g + 1
    BY <1>2
  <2>2. QED
    BY <1>2, <1>11, <2>1 DEF x
<1>13. QED
  BY <1>1, <1>2, <1>3, <1>4, <1>8, <1>11, <1>12, <1>10 DEF XdrInv, b

\* A write, a read, or neither, keeps the invariant.
LEMMA XdrInductive ==
  ASSUME NEW I, \A y \in I : IsItem(y), XdrInv(I), [XdrNext(I)]_<<items, out, taken, got>>
  PROVE  XdrInv(I)'
<1>1. CASE \E x \in I : Written(x)
  BY <1>1, WrittenStep
<1>2. CASE ReadNext
  BY <1>2, ReadStep
<1>3. CASE UNCHANGED <<items, out, taken, got>>
  BY <1>3 DEF XdrInv
<1>4. QED
  BY <1>1, <1>2, <1>3 DEF XdrNext

\* What is written with xdr.h is read back item by item, for any number of items
\* in any mix of types, however far the reader is behind the writer; one that
\* has read everything is where the writer is.
THEOREM XdrIsRight ==
  ASSUME NEW I, \A x \in I : IsItem(x)
  PROVE  XdrSpec(I) => []XdrRoundTrip
<1>1. XdrInit => XdrInv(I)
  BY XdrStart
<1>2. XdrInv(I) /\ [XdrNext(I)]_<<items, out, taken, got>> => XdrInv(I)'
  BY XdrInductive
<1>3. XdrInv(I) => XdrRoundTrip
  BY DEF XdrInv, XdrRoundTrip, StartsRight, Aligned
<1>4. QED
  BY <1>1, <1>2, <1>3, PTL DEF XdrSpec

-----------------------------------------------------------------------------
(* Sequences of sequences, one after the other *)

\* f adds up the elements of s.
AddsUp(f, V, s) == /\ f \in [Nat -> Seq(V)] /\ f[0] = <<>>
                   /\ \A i \in 1..Len(s) : f[i] = f[i - 1] \o s[i]

LEMMA FlatFollows ==
  ASSUME NEW V, NEW s \in Seq(Seq(V))
  PROVE  \E f : AddsUp(f, V, s) /\ FlattenSeq(s) = f[Len(s)]
<1> DEFINE N == Len(s)
           T == Seq(V)
           Turn(n, v) == IF n + 1 <= N THEN v \o s[n + 1] ELSE v
           step == [n \in Nat |-> [v \in T |-> Turn(n, v)]]
<1>1. N \in Nat /\ \A i \in 1..N : s[i] \in T
  BY ElementOfSeq, LenProperties
<1>2. <<>> \in T
  OBVIOUS
<1>3. \A n \in Nat : n + 1 <= N => n + 1 \in 1..N
  BY <1>1
<1>4. \A n \in Nat : \A v \in T : Turn(n, v) \in T
  BY <1>1, <1>3, ConcatProperties
<1>5. StepsIn(T, step)
  BY <1>4 DEF StepsIn
<1>6. \E f : Follows(f, T, <<>>, step)
  <2> HIDE DEF step, T
  <2>1. QED
    BY <1>2, <1>5, Recursion
<1>7. PICK f : Follows(f, T, <<>>, step)
  BY <1>6
<1>8. f \in [Nat -> T] /\ f[0] = <<>> /\ \A n \in Nat : f[n + 1] = Turn(n, f[n])
  BY <1>7 DEF Follows
<1>9. ASSUME NEW i \in 1..N PROVE f[i] = f[i - 1] \o s[i]
  <2>1. i - 1 \in Nat /\ (i - 1) + 1 = i /\ i <= N
    BY <1>1
  <2>2. f[(i - 1) + 1] = Turn(i - 1, f[i - 1])
    BY <1>8, <2>1
  <2>3. QED
    BY <2>1, <2>2
<1>10. AddsUp(f, V, s)
  BY <1>8, <1>9 DEF AddsUp
<1>13. 1 <= N => f[1] = s[1]
  <2> SUFFICES ASSUME 1 <= N PROVE f[1] = s[1]
    OBVIOUS
  <2>1. 1 \in 1..N /\ 1 - 1 = 0
    BY <1>1
  <2>2. f[1] = f[1 - 1] \o s[1] /\ s[1] \in Seq(V)
    BY <1>1, <1>9, <2>1
  <2>3. f[1] = <<>> \o s[1]
    BY <1>8, <2>1, <2>2
  <2>4. QED
    BY <2>2, <2>3, ConcatEmptySeq
<1>11. FlattenSeq(s) = f[N]
  <2>1. CASE N = 0
    <3>1. s = <<>>
      BY <2>1, EmptySeq
    <3>2. QED
      BY <1>8, <2>1, <3>1 DEF FlattenSeq
  <2>2. CASE N # 0
    <3> DEFINE Body(u) == [i \in 1..N |-> IF i = 1 THEN s[i] ELSE u[i - 1] \o s[i]]
               C == CHOOSE u : u = Body(u)
               g == [i \in 1..N |-> f[i]]
    <3>1. g = Body(g)
      <4>1. f[1] = s[1]
        BY <1>1, <1>13, <2>2
      <4>2. \A i \in 1..N : i # 1 => i - 1 \in 1..N
        BY <1>1
      <4>3. \A i \in 1..N : i # 1 => g[i] = g[i - 1] \o s[i]
        BY <1>9, <4>2
      <4>4. \A i \in 1..N : g[i] = IF i = 1 THEN s[i] ELSE g[i - 1] \o s[i]
        BY <4>1, <4>3
      <4>5. QED
        BY <4>4
    <3>2. FlattenSeq(s) = C[N]
      BY <2>2 DEF FlattenSeq
    <3>3. C = Body(C)
      <4> HIDE DEF Body, g
      <4>1. QED
        BY <3>1
    <3> DEFINE S == {n \in Nat : n \in 1..N => C[n] = f[n]}
    <3>4. 0 \in S
      OBVIOUS
    <3>5. ASSUME NEW n \in Nat, n \in S PROVE n + 1 \in S
      <4> SUFFICES ASSUME n + 1 \in 1..N PROVE C[n + 1] = f[n + 1]
        OBVIOUS
      <4>1. C[n + 1] = IF n + 1 = 1 THEN s[n + 1] ELSE C[(n + 1) - 1] \o s[n + 1]
        <5> HIDE DEF C
        <5>1. QED
          BY <3>3
      <4> HIDE DEF C, Body
      <4>2. f[n + 1] = f[n] \o s[n + 1]
        <5>1. n + 1 <= N
          BY <1>1
        <5>2. f[n + 1] = Turn(n, f[n])
          BY <1>8
        <5>3. QED
          BY <5>1, <5>2
      <4>3. CASE n = 0
        BY <1>1, <1>13, <4>1, <4>3
      <4>4. CASE n # 0
        <5>1. n \in 1..N /\ n + 1 # 1 /\ (n + 1) - 1 = n
          BY <1>1, <4>4
        <5>2. C[n] = f[n]
          BY <3>5, <5>1
        <5>3. C[n + 1] = C[n] \o s[n + 1]
          BY <4>1, <5>1
        <5>4. QED
          BY <4>2, <5>2, <5>3
      <4>5. QED
        BY <4>3, <4>4
    <3> HIDE DEF S, C
    <3>6. Nat \subseteq S
      BY <3>4, <3>5, SetInduction
    <3>7. N \in 1..N /\ N \in S
      BY <1>1, <2>2, <3>6
    <3>8. QED
      BY <3>2, <3>7 DEF S
  <2>3. QED
    BY <2>1, <2>2
<1>12. QED
  BY <1>10, <1>11

LEMMA FlatAppend ==
  ASSUME NEW V, NEW s \in Seq(Seq(V)), NEW x \in Seq(V)
  PROVE  FlattenSeq(s) \in Seq(V) /\ FlattenSeq(Append(s, x)) = FlattenSeq(s) \o x
<1> DEFINE t == Append(s, x)
<1>1. /\ t \in Seq(Seq(V)) /\ Len(t) = Len(s) + 1 /\ Len(s) \in Nat /\ t[Len(s) + 1] = x
      /\ \A i \in 1..Len(s) : t[i] = s[i]
  BY AppendProperties, LenProperties
<1> HIDE DEF t
<1>2. PICK f : AddsUp(f, V, s) /\ FlattenSeq(s) = f[Len(s)]
  BY FlatFollows
<1>3. PICK g : AddsUp(g, V, t) /\ FlattenSeq(t) = g[Len(t)]
  BY <1>1, FlatFollows
<1> DEFINE S == {n \in Nat : n <= Len(s) => g[n] = f[n]}
<1>4. 0 \in S
  BY <1>2, <1>3 DEF AddsUp
<1>5. ASSUME NEW n \in Nat, n \in S PROVE n + 1 \in S
  <2> SUFFICES ASSUME n + 1 <= Len(s) PROVE g[n + 1] = f[n + 1]
    OBVIOUS
  <2>1. n + 1 \in 1..Len(s) /\ n + 1 \in 1..Len(t) /\ (n + 1) - 1 = n
    BY <1>1
  <2>2. f[n + 1] = f[n] \o s[n + 1] /\ g[n + 1] = g[n] \o t[n + 1]
    BY <1>2, <1>3, <2>1 DEF AddsUp
  <2>3. f[n] = g[n] /\ t[n + 1] = s[n + 1]
    BY <1>1, <1>5, <2>1
  <2>4. QED
    BY <2>2, <2>3
<1> HIDE DEF S
<1>6. Nat \subseteq S
  BY <1>4, <1>5, SetInduction
<1>7. g[Len(s)] = f[Len(s)]
  <2>1. Len(s) \in S /\ Len(s) <= Len(s)
    BY <1>1, <1>6
  <2>2. QED
    BY <2>1 DEF S
<1>8. g[Len(s) + 1] = g[Len(s)] \o x
  <2>1. Len(s) + 1 \in 1..Len(t) /\ (Len(s) + 1) - 1 = Len(s)
    BY <1>1
  <2>2. QED
    BY <1>1, <1>3, <2>1 DEF AddsUp
<1>9. FlattenSeq(s) \in Seq(V)
  BY <1>1, <1>2 DEF AddsUp
<1>10. QED
  BY <1>1, <1>2, <1>3, <1>7, <1>8, <1>9 DEF t

LEMMA FlatEmpty == FlattenSeq(<<>>) = <<>>
  BY EmptySeq DEF FlattenSeq

-----------------------------------------------------------------------------
(* The syslogger *)

\* Entries are let through or not one by one.
LEMMA AllowedGrows ==
  ASSUME NEW V, NEW es \in Seq(V), NEW e \in V, NEW level
  PROVE  /\ Allowed(<<>>, level) = <<>>
         /\ Allowed(es, level) \in Seq(V)
         /\ Allowed(Append(es, e), level)
              = Allowed(es, level) \o (IF e.prio <= level THEN <<e>> ELSE <<>>)
<1> DEFINE Part(x) == IF x.prio <= level THEN <<x>> ELSE <<>>
           Parts(s) == [i \in DOMAIN s |-> Part(s[i])]
<1>1. \A x \in V : Part(x) \in Seq(V)
  OBVIOUS
<1>2. \A s \in Seq(V) : Parts(s) \in Seq(Seq(V)) /\ Len(Parts(s)) = Len(s)
  <2> SUFFICES ASSUME NEW s \in Seq(V)
               PROVE  Parts(s) \in Seq(Seq(V)) /\ Len(Parts(s)) = Len(s)
    OBVIOUS
  <2>1. DOMAIN s = 1..Len(s) /\ Len(s) \in Nat /\ \A i \in 1..Len(s) : s[i] \in V
    BY ElementOfSeq, LenProperties
  <2> HIDE DEF Part
  <2>2. \A i \in 1..Len(s) : Part(s[i]) \in Seq(V)
    BY <1>1, <2>1
  <2>3. QED
    BY <2>1, <2>2
<1> HIDE DEF Part
<1>3. Append(es, e) \in Seq(V) /\ Parts(Append(es, e)) = Append(Parts(es), Part(e))
  <2>1. /\ Append(es, e) \in Seq(V) /\ Len(Append(es, e)) = Len(es) + 1 /\ Len(es) \in Nat
        /\ Append(es, e)[Len(es) + 1] = e /\ \A i \in 1..Len(es) : Append(es, e)[i] = es[i]
        /\ DOMAIN es = 1..Len(es) /\ DOMAIN Append(es, e) = 1..Len(es) + 1
    BY AppendProperties, LenProperties
  <2> DEFINE s == Append(es, e)
  <2> HIDE DEF s
  <2>2. Parts(s) = [i \in 1..Len(es) + 1 |-> Part(s[i])] /\ Parts(es) = [i \in 1..Len(es) |-> Part(es[i])]
    BY <2>1 DEF s
  <2>3. Append(Parts(es), Part(e))
          = [i \in 1..Len(es) + 1 |-> IF i = Len(es) + 1 THEN Part(e) ELSE Part(es[i])]
    BY <2>1, <2>2
  <2>4. \A i \in 1..Len(es) + 1 : Part(s[i]) = IF i = Len(es) + 1 THEN Part(e) ELSE Part(es[i])
    BY <2>1 DEF s
  <2>5. QED
    BY <2>1, <2>2, <2>3, <2>4 DEF s
<1>4. Parts(es) \in Seq(Seq(V)) /\ Part(e) \in Seq(V)
  BY <1>1, <1>2
<1> DEFINE p == Parts(es)
<1> HIDE DEF p
<1>5. FlattenSeq(p) \in Seq(V) /\ FlattenSeq(Append(p, Part(e))) = FlattenSeq(p) \o Part(e)
  BY <1>4, FlatAppend DEF p
<1>6. Allowed(es, level) = FlattenSeq(p) /\ Allowed(Append(es, e), level) = FlattenSeq(Append(p, Part(e)))
  BY <1>3 DEF Allowed, p, Part
<1>7. Allowed(<<>>, level) = <<>>
  <2>1. [i \in DOMAIN <<>> |-> IF <<>>[i].prio <= level THEN <<<<>>[i]>> ELSE <<>>] = <<>>
    OBVIOUS
  <2>2. QED
    BY <2>1, FlatEmpty DEF Allowed
<1>8. QED
  BY <1>5, <1>6, <1>7 DEF Part

\* How the number of full buffers grows.
LEMMA BufferStep ==
  ASSUME NEW n \in Nat \ {0}, NEW j \in Nat
  PROVE  LET q == j \div n IN
         /\ q \in Nat /\ n * q \in Nat /\ n * q <= j /\ j < n * q + n
         /\ n * (q + 1) = n * q + n
         /\ j + 1 < n * q + n => (j + 1) \div n = q
         /\ j + 1 >= n * q + n => j + 1 = n * q + n /\ (j + 1) \div n = q + 1
<1> DEFINE q == j \div n
<1>1. q \in Int /\ n * q <= j /\ j < n * q + n
  BY Division
<1> HIDE DEF q
<1>2. n * (q + 1) = n * q + n /\ n * q \in Int
  BY <1>1
<1>3. q \in Nat
  <2>1. n * q > - n /\ n * (q + 1) > 0
    BY <1>1, <1>2
  <2>2. n * (0 - 1) = - n /\ 0 - 1 \in Int
    OBVIOUS
  <2>3. n * (0 - 1) < n * q
    BY <2>1, <2>2
  <2>4. 0 - 1 < q
    BY <1>1, <2>2, <2>3, Smaller
  <2>5. QED
    BY <1>1, <2>4
<1>4. n * q \in Nat
  BY <1>3
<1>5. ASSUME j + 1 < n * q + n PROVE (j + 1) \div n = q
  <2>1. n * q <= j + 1 /\ j + 1 \in Int
    BY <1>1
  <2>2. QED
    BY <1>1, <1>5, <2>1, DivisionUnique
<1>6. ASSUME j + 1 >= n * q + n PROVE j + 1 = n * q + n /\ (j + 1) \div n = q + 1
  <2>1. j + 1 = n * q + n
    BY <1>1, <1>2, <1>6
  <2>2. n * (q + 1) <= j + 1 /\ j + 1 < n * (q + 1) + n /\ j + 1 \in Int /\ q + 1 \in Int
    BY <1>1, <1>2, <2>1
  <2> DEFINE m == j + 1
             r == q + 1
  <2> HIDE DEF m, r
  <2>3. m \in Int /\ r \in Int /\ n \in Int /\ n > 0 /\ n * r <= m /\ m < n * r + n
    BY <2>2 DEF m, r
  <2>4. m \div n = r
    BY <2>3, DivisionUnique
  <2>5. QED
    BY <2>1, <2>4 DEF m, r
<1>7. QED
  BY <1>1, <1>2, <1>3, <1>4, <1>5, <1>6 DEF q

Entry(C) == [prio : Int, text : {Chop(s) : s \in Seq(C)}]
EchoEntry(C) == [stamp : Seq(Int), prio : Int, text : {Chop(s) : s \in Seq(C)}]
Loggers(C) == [buf : Seq(C), minlevel_syslog : Int, minlevel_echo : Int, currlevel : Int,
               echo : BOOLEAN, clock : Int, syslog : Seq(Entry(C)), echoed : Seq(EchoEntry(C))]

\* The first q entries of u that fill a buffer.
Full(u, p, q) ==
  [i \in 1..q |-> [prio |-> IF i = 1 THEN p ELSE DefaultPrio,
                   text |-> Chop(SubSeq(u, BufferSize * (i - 1) + 1, BufferSize * i))]]

\* k has the settings of l, and the entries es have been sent to it with them.
Echoes(l, es) ==
  IF l.echo THEN Allowed(Stamped(es, Stamp(l)), l.minlevel_echo) ELSE <<>>
Sent(l, k, es) ==
  /\ k.minlevel_syslog = l.minlevel_syslog /\ k.minlevel_echo = l.minlevel_echo
  /\ k.echo = l.echo /\ k.clock = l.clock
  /\ k.syslog = l.syslog \o Allowed(es, l.minlevel_syslog)
  /\ k.echoed = l.echoed \o Echoes(l, es)

\* The entries of the echo, one more at a time.
LEMMA StampedIs ==
  ASSUME NEW C, NEW es \in Seq(Entry(C)), NEW e \in Entry(C), NEW s \in Seq(Int)
  PROVE  /\ Stamped(es, s) \in Seq(EchoEntry(C))
         /\ Stamped(<<>>, s) = <<>>
         /\ [stamp |-> s, prio |-> e.prio, text |-> e.text] \in EchoEntry(C)
         /\ Stamped(Append(es, e), s)
              = Append(Stamped(es, s), [stamp |-> s, prio |-> e.prio, text |-> e.text])
<1> DEFINE X(x) == [stamp |-> s, prio |-> x.prio, text |-> x.text]
           W == EchoEntry(C)
           V == Entry(C)
<1>1. \A x \in V : X(x) \in W
  BY DEF Entry, EchoEntry
<1>2. \A t : Stamped(t, s) = [i \in DOMAIN t |-> X(t[i])]
  BY DEF Stamped
<1> HIDE DEF X, W, V
<1>3. es \in Seq(V) /\ e \in V
  BY DEF V
<1>4. /\ Append(es, e) \in Seq(V) /\ Len(Append(es, e)) = Len(es) + 1 /\ Len(es) \in Nat
      /\ Append(es, e)[Len(es) + 1] = e /\ \A i \in 1..Len(es) : Append(es, e)[i] = es[i]
      /\ DOMAIN es = 1..Len(es) /\ DOMAIN Append(es, e) = 1..Len(es) + 1
  BY <1>3, AppendProperties, LenProperties
<1>5. \A i \in 1..Len(es) : es[i] \in V
  BY <1>3, ElementOfSeq
<1>6. Stamped(es, s) = [i \in 1..Len(es) |-> X(es[i])]
  BY <1>2, <1>4
<1>7. Stamped(es, s) \in Seq(W) /\ Len(Stamped(es, s)) = Len(es)
  BY <1>1, <1>4, <1>5, <1>6
<1>8. Stamped(Append(es, e), s) = [i \in 1..Len(es) + 1 |-> X(Append(es, e)[i])]
  BY <1>2, <1>4
<1>9. Append(Stamped(es, s), X(e)) = [i \in 1..Len(es) + 1 |-> IF i = Len(es) + 1 THEN X(e) ELSE X(es[i])]
  BY <1>4, <1>6, <1>7
<1>10. \A i \in 1..Len(es) + 1 : X(Append(es, e)[i]) = IF i = Len(es) + 1 THEN X(e) ELSE X(es[i])
  BY <1>4
<1>11. Stamped(Append(es, e), s) = Append(Stamped(es, s), X(e))
  BY <1>4, <1>8, <1>9, <1>10
<1>12. Stamped(<<>>, s) = <<>>
  BY <1>2
<1>13. QED
  BY <1>1, <1>3, <1>7, <1>11, <1>12 DEF X, W, V

\* An entry is echoed if there is an echo and the level allows it.
LEMMA EchoesGrow ==
  ASSUME NEW C, NEW l \in Loggers(C), NEW es \in Seq(Entry(C)), NEW e \in Entry(C)
  PROVE  /\ Stamp(l) \in Seq(Int)
         /\ Echoes(l, <<>>) = <<>>
         /\ Echoes(l, es) \in Seq(EchoEntry(C))
         /\ [stamp |-> Stamp(l), prio |-> e.prio, text |-> e.text] \in EchoEntry(C)
         /\ Echoes(l, Append(es, e))
              = Echoes(l, es) \o (IF l.echo /\ e.prio <= l.minlevel_echo
                                  THEN <<[stamp |-> Stamp(l), prio |-> e.prio, text |-> e.text]>>
                                  ELSE <<>>)
<1> DEFINE s == Stamp(l)
           x == [stamp |-> s, prio |-> e.prio, text |-> e.text]
           W == EchoEntry(C)
<1>1. s \in Seq(Int)
  BY DEF Stamp, Loggers
<1> HIDE DEF s
<1>2. /\ Stamped(es, s) \in Seq(W) /\ Stamped(<<>>, s) = <<>> /\ x \in W
      /\ Stamped(Append(es, e), s) = Append(Stamped(es, s), x)
  BY <1>1, StampedIs
<1>3. x.prio = e.prio
  OBVIOUS
<1> HIDE DEF x, W
<1>4. /\ Allowed(<<>>, l.minlevel_echo) = <<>>
      /\ Allowed(Stamped(es, s), l.minlevel_echo) \in Seq(W)
      /\ Allowed(Append(Stamped(es, s), x), l.minlevel_echo)
           = Allowed(Stamped(es, s), l.minlevel_echo)
               \o (IF x.prio <= l.minlevel_echo THEN <<x>> ELSE <<>>)
  BY <1>2, AllowedGrows
<1>5. CASE l.echo
  BY <1>1, <1>2, <1>3, <1>4, <1>5 DEF Echoes, s, x, W
<1>6. CASE ~l.echo
  <2>1. Echoes(l, es) = <<>> /\ Echoes(l, <<>>) = <<>> /\ Echoes(l, Append(es, e)) = <<>>
    BY <1>6 DEF Echoes
  <2>2. QED
    BY <1>1, <1>2, <1>6, <2>1, ConcatEmptySeq, EmptySeq DEF s, x, W
<1>7. QED
  BY <1>5, <1>6

\* What a flush does.
LEMMA FlushSends ==
  ASSUME NEW C, NEW l \in Loggers(C), NEW k \in Loggers(C), NEW es \in Seq(Entry(C)),
         Sent(l, k, es), k.buf # <<>>
  PROVE  LET f == FlushLog(k)
             e == [prio |-> k.currlevel, text |-> Chop(k.buf)]
         IN /\ f \in Loggers(C) /\ e \in Entry(C) /\ f.buf = <<>> /\ f.currlevel = DefaultPrio
            /\ Sent(l, f, Append(es, e))
<1> DEFINE f == FlushLog(k)
           e == [prio |-> k.currlevel, text |-> Chop(k.buf)]
           x == [stamp |-> Stamp(k), prio |-> e.prio, text |-> e.text]
           W == EchoEntry(C)
           V == Entry(C)
           a == Allowed(es, l.minlevel_syslog)
           b == Echoes(l, es)
<1>1. e \in V /\ e.prio = k.currlevel
  BY DEF Loggers, Entry
<1>2. f = [k EXCEPT
            !.buf = <<>>,
            !.syslog = IF k.currlevel <= k.minlevel_syslog THEN Append(@, e) ELSE @,
            !.echoed = IF k.echo /\ k.currlevel <= k.minlevel_echo THEN Append(@, x) ELSE @,
            !.currlevel = DefaultPrio]
  BY DEF FlushLog
<1>3. /\ k.minlevel_syslog = l.minlevel_syslog /\ k.minlevel_echo = l.minlevel_echo
      /\ k.echo = l.echo /\ k.clock = l.clock /\ Stamp(k) = Stamp(l)
      /\ k.syslog = l.syslog \o a /\ k.echoed = l.echoed \o b
  BY DEF Sent, Stamp
<1>4. /\ a \in Seq(V)
      /\ Allowed(Append(es, e), l.minlevel_syslog)
           = a \o (IF e.prio <= l.minlevel_syslog THEN <<e>> ELSE <<>>)
  <2> HIDE DEF e
  <2>1. QED
    BY <1>1, AllowedGrows DEF V
<1>5. /\ b \in Seq(W) /\ x \in W
      /\ Echoes(l, Append(es, e))
           = b \o (IF l.echo /\ e.prio <= l.minlevel_echo THEN <<x>> ELSE <<>>)
  <2> HIDE DEF e
  <2>1. QED
    BY <1>1, <1>3, EchoesGrow DEF V, W
<1>6. /\ k.syslog \in Seq(V) /\ k.echoed \in Seq(W) /\ l.syslog \in Seq(V) /\ l.echoed \in Seq(W)
      /\ k.buf \in Seq(C) /\ k.minlevel_syslog \in Int /\ k.minlevel_echo \in Int
      /\ k.echo \in BOOLEAN /\ k.clock \in Int /\ k.currlevel \in Int
  BY DEF Loggers, V, W
<1>7. DefaultPrio \in Int /\ <<>> \in Seq(C)
  BY DEF DefaultPrio
<1> HIDE DEF e, x, W, V, a, b, f
<1>8. f \in Loggers(C)
  <2>1. /\ (IF k.currlevel <= k.minlevel_syslog THEN Append(k.syslog, e) ELSE k.syslog) \in Seq(V)
        /\ (IF k.echo /\ k.currlevel <= k.minlevel_echo THEN Append(k.echoed, x) ELSE k.echoed) \in Seq(W)
    BY <1>1, <1>5, <1>6
  <2>2. QED
    BY <1>2, <1>6, <1>7, <2>1 DEF Loggers, V, W
<1>9. /\ f.buf = <<>> /\ f.currlevel = DefaultPrio
      /\ f.minlevel_syslog = l.minlevel_syslog /\ f.minlevel_echo = l.minlevel_echo
      /\ f.echo = l.echo /\ f.clock = l.clock
  BY <1>2, <1>3 DEF Loggers
<1>10. f.syslog = l.syslog \o Allowed(Append(es, e), l.minlevel_syslog)
  <2>1. f.syslog = IF e.prio <= l.minlevel_syslog THEN Append(k.syslog, e) ELSE k.syslog
    BY <1>1, <1>2, <1>3 DEF Loggers
  <2> DEFINE r == l.syslog
  <2>2. r \in Seq(V) /\ a \in Seq(V) /\ e \in V
    BY <1>1, <1>4, <1>6
  <2> HIDE DEF r
  <2> DEFINE o == <<e>>
  <2>3. o \in Seq(V) /\ a \o <<>> = a
    BY <2>2, ConcatEmptySeq
  <2>5. Append(r \o a, e) = (r \o a) \o o
    BY <2>2, ConcatProperties, AppendIsConcat
  <2> HIDE DEF o
  <2>6. (r \o a) \o o = r \o (a \o o)
    BY <2>2, <2>3, ConcatAssociative
  <2>7. QED
    BY <1>3, <1>4, <2>1, <2>3, <2>5, <2>6 DEF r, o
<1>11. f.echoed = l.echoed \o Echoes(l, Append(es, e))
  <2>1. f.echoed = IF l.echo /\ e.prio <= l.minlevel_echo THEN Append(k.echoed, x) ELSE k.echoed
    BY <1>1, <1>2, <1>3 DEF Loggers
  <2> DEFINE r == l.echoed
  <2>2. r \in Seq(W) /\ b \in Seq(W) /\ x \in W
    BY <1>5, <1>6
  <2> HIDE DEF r
  <2> DEFINE o == <<x>>
  <2>3. o \in Seq(W) /\ b \o <<>> = b
    BY <2>2, ConcatEmptySeq
  <2>5. Append(r \o b, x) = (r \o b) \o o
    BY <2>2, ConcatProperties, AppendIsConcat
  <2> HIDE DEF o
  <2>6. (r \o b) \o o = r \o (b \o o)
    BY <2>2, <2>3, ConcatAssociative
  <2>7. QED
    BY <1>3, <1>5, <2>1, <2>3, <2>5, <2>6 DEF r, o
<1>12. Sent(l, f, Append(es, e))
  BY <1>9, <1>10, <1>11 DEF Sent
<1>13. QED
  BY <1>1, <1>8, <1>9, <1>12 DEF f, e, V

\* A part of a text is made one longer.
LEMMA SubSeqGrows ==
  ASSUME NEW C, NEW u \in Seq(C), NEW a \in Nat, NEW j \in Nat, 1 <= a, a <= j + 1, j + 1 <= Len(u)
  PROVE  /\ SubSeq(u, a, j) \in Seq(C) /\ Len(SubSeq(u, a, j)) = j + 1 - a
         /\ SubSeq(u, a, j + 1) \in Seq(C) /\ SubSeq(u, a, j + 1) # <<>>
         /\ u[j + 1] \in C
         /\ Append(SubSeq(u, a, j), u[j + 1]) = SubSeq(u, a, j + 1)
<1>1. Len(u) \in Nat /\ j + 1 \in 1..Len(u) /\ \A i \in 1..Len(u) : u[i] \in C
  BY ElementOfSeq, LenProperties
<1>2. /\ SubSeq(u, a, j) = [i \in 1..j + 1 - a |-> u[i + a - 1]]
      /\ SubSeq(u, a, j + 1) = [i \in 1..j + 2 - a |-> u[i + a - 1]]
  OBVIOUS
<1>3. j + 1 - a \in Nat /\ j + 2 - a \in Nat /\ \A i \in 1..j + 2 - a : i + a - 1 \in 1..Len(u)
  BY <1>1
<1> DEFINE s == SubSeq(u, a, j)
           t == SubSeq(u, a, j + 1)
<1> HIDE DEF s, t
<1>4. s \in Seq(C) /\ Len(s) = j + 1 - a
  BY <1>1, <1>2, <1>3 DEF s
<1>5. t \in Seq(C) /\ Len(t) = j + 2 - a
  BY <1>1, <1>2, <1>3 DEF t
<1>6. u[j + 1] \in C
  BY <1>1
<1>7. Append(s, u[j + 1]) = [i \in 1..(j + 1 - a) + 1 |-> IF i = (j + 1 - a) + 1 THEN u[j + 1] ELSE s[i]]
  BY <1>4
<1>8. (j + 1 - a) + 1 = j + 2 - a /\ \A i \in 1..j + 2 - a : i = j + 2 - a \/ i \in 1..j + 1 - a
  BY <1>3
<1>9. \A i \in 1..j + 1 - a : s[i] = u[i + a - 1]
  BY <1>2 DEF s
<1>10. \A i \in 1..j + 2 - a : t[i] = IF i = j + 2 - a THEN u[j + 1] ELSE s[i]
  <2>1. \A i \in 1..j + 2 - a : t[i] = u[i + a - 1]
    BY <1>2 DEF t
  <2>2. \A i \in 1..j + 2 - a : i = j + 2 - a => i + a - 1 = j + 1
    OBVIOUS
  <2>3. QED
    BY <1>8, <1>9, <2>1, <2>2
<1>11. Append(s, u[j + 1]) = t
  <2>1. t = [i \in 1..j + 2 - a |-> t[i]]
    BY <1>2 DEF t
  <2>2. QED
    BY <1>7, <1>8, <1>10, <2>1
<1>12. t # <<>>
  BY <1>3, <1>5
<1>13. QED
  BY <1>4, <1>5, <1>6, <1>11, <1>12 DEF s, t

\* One more buffer is filled.
LEMMA FullGrows ==
  ASSUME NEW C, NEW u \in Seq(C), NEW p \in Int, NEW q \in Nat, BufferSize * q <= Len(u)
  PROVE  /\ Full(u, p, 0) = <<>>
         /\ Full(u, p, q) \in Seq(Entry(C))
         /\ Full(u, p, q + 1)
              = Append(Full(u, p, q),
                       [prio |-> IF q = 0 THEN p ELSE DefaultPrio,
                        text |-> Chop(SubSeq(u, BufferSize * q + 1, BufferSize * (q + 1)))])
<1> DEFINE n == BufferSize
           Piece(i) == SubSeq(u, n * (i - 1) + 1, n * i)
           E(i) == [prio |-> IF i = 1 THEN p ELSE DefaultPrio, text |-> Chop(Piece(i))]
<1>1. n \in Nat \ {0} /\ Len(u) \in Nat
  BY BufferSizeAssumption, LenProperties
<1> HIDE DEF n
<1>2. ASSUME NEW i \in 1..q PROVE Piece(i) \in Seq(C)
  <2> DEFINE a == n * (i - 1)
             b == n * i
             c == n * q
  <2>1. a \in Nat /\ b = a + n /\ c \in Nat /\ b <= c
    <3>1. i - 1 \in Nat /\ n \in Nat /\ i \in Int /\ q \in Int /\ i <= q
      BY <1>1
    <3>2. a \in Nat /\ b = a + n /\ c \in Nat /\ b \in Int
      BY <1>1, <3>1
    <3> HIDE DEF a, b, c
    <3>3. ~ (c < b)
      <4> SUFFICES ASSUME n * q < n * i PROVE FALSE
        BY DEF b, c
      <4>1. q < i
        BY <1>1, <3>1, Smaller
      <4>2. QED
        BY <3>1, <4>1
    <3>4. QED
      BY <3>2, <3>3
  <2> HIDE DEF a, b, c
  <2>2. b <= Len(u) /\ b - 1 \in Nat /\ (b - 1) + 1 = b /\ a + 1 \in Nat /\ 1 <= a + 1 /\ a + 1 <= b
    BY <1>1, <2>1 DEF n, c
  <2> DEFINE j == b - 1
             e == a + 1
  <2>3. j \in Nat /\ j + 1 = b /\ e \in Nat /\ 1 <= e /\ e <= j + 1 /\ j + 1 <= Len(u)
    BY <2>2
  <2> HIDE DEF j, e
  <2>4. SubSeq(u, e, j + 1) \in Seq(C)
    BY <2>3, SubSeqGrows
  <2>5. QED
    BY <2>3, <2>4 DEF e, a, b
<1>3. \A i \in 1..q : E(i) \in Entry(C)
  <2> HIDE DEF Piece
  <2>1. DefaultPrio \in Int
    BY DEF DefaultPrio
  <2>2. QED
    BY <1>2, <2>1 DEF Entry
<1>4. \A m \in Nat : Full(u, p, m) = [i \in 1..m |-> E(i)]
  BY DEF Full, n
<1>5. E(q + 1) = [prio |-> IF q = 0 THEN p ELSE DefaultPrio,
                  text |-> Chop(SubSeq(u, n * q + 1, n * (q + 1)))]
  <2>1. (q + 1) - 1 = q /\ (q + 1 = 1 <=> q = 0)
    OBVIOUS
  <2>2. QED
    BY <2>1
<1> HIDE DEF E
<1>6. Full(u, p, q) \in Seq(Entry(C)) /\ Len(Full(u, p, q)) = q
  BY <1>3, <1>4
<1>7. Full(u, p, 0) = <<>>
  BY <1>4
<1>8. Full(u, p, q + 1) = Append(Full(u, p, q), E(q + 1))
  <2>1. Append(Full(u, p, q), E(q + 1))
          = [i \in 1..q + 1 |-> IF i = q + 1 THEN E(q + 1) ELSE Full(u, p, q)[i]]
    BY <1>6
  <2>2. \A i \in 1..q + 1 : E(i) = IF i = q + 1 THEN E(q + 1) ELSE Full(u, p, q)[i]
    BY <1>4
  <2>3. q + 1 \in Nat
    OBVIOUS
  <2>4. QED
    BY <1>4, <2>1, <2>2, <2>3
<1>9. QED
  BY <1>5, <1>6, <1>7, <1>8 DEF n

-----------------------------------------------------------------------------
\* The first j characters of u have been written to l.
Wrote(C, l, k, u, j) ==
  LET q == j \div BufferSize
  IN /\ k \in Loggers(C)
     /\ k.buf = SubSeq(u, BufferSize * q + 1, j)
     /\ k.currlevel = IF q = 0 THEN l.currlevel ELSE DefaultPrio
     /\ Sent(l, k, Full(u, l.currlevel, q))

\* One more character is written (ostreambuf::overflow() if it fills the buffer).
LEMMA PutStep ==
  ASSUME NEW C, NEW l \in Loggers(C), NEW k, NEW u \in Seq(C), NEW j \in Nat,
         j + 1 <= Len(u), Wrote(C, l, k, u, j)
  PROVE  Wrote(C, l, PutLog(k, u[j + 1]), u, j + 1)
<1> DEFINE n == BufferSize
           q == j \div n
           a == n * q
           c == u[j + 1]
           h == [k EXCEPT !.buf = Append(@, c)]
           p == l.currlevel
<1>1. n \in Nat \ {0} /\ p \in Int
  BY BufferSizeAssumption DEF Loggers
<1>2. /\ q \in Nat /\ a \in Nat /\ a <= j /\ j < a + n /\ n * (q + 1) = a + n
      /\ j + 1 < a + n => (j + 1) \div n = q
      /\ j + 1 >= a + n => j + 1 = a + n /\ (j + 1) \div n = q + 1
  <2> HIDE DEF n
  <2>1. QED
    BY <1>1, BufferStep
<1>3. /\ k \in Loggers(C) /\ k.buf = SubSeq(u, a + 1, j)
      /\ k.currlevel = (IF q = 0 THEN p ELSE DefaultPrio)
      /\ Sent(l, k, Full(u, p, q))
  BY DEF Wrote
<1> HIDE DEF n, q, a
<1>4. /\ Len(k.buf) = j - a /\ c \in C
      /\ Append(k.buf, c) = SubSeq(u, a + 1, j + 1)
      /\ SubSeq(u, a + 1, j + 1) \in Seq(C) /\ SubSeq(u, a + 1, j + 1) # <<>>
  <2> DEFINE e == a + 1
  <2>1. e \in Nat /\ 1 <= e /\ e <= j + 1
    BY <1>2
  <2> HIDE DEF e
  <2>2. /\ Len(SubSeq(u, e, j)) = j + 1 - e /\ u[j + 1] \in C
        /\ Append(SubSeq(u, e, j), u[j + 1]) = SubSeq(u, e, j + 1)
        /\ SubSeq(u, e, j + 1) \in Seq(C) /\ SubSeq(u, e, j + 1) # <<>>
    BY <2>1, SubSeqGrows
  <2>3. j + 1 - e = j - a
    BY <1>2 DEF e
  <2>4. QED
    BY <1>3, <2>2, <2>3 DEF e
<1>5. /\ h \in Loggers(C) /\ h.buf = SubSeq(u, a + 1, j + 1) /\ h.currlevel = k.currlevel
      /\ h.minlevel_syslog = k.minlevel_syslog /\ h.minlevel_echo = k.minlevel_echo
      /\ h.echo = k.echo /\ h.clock = k.clock /\ h.syslog = k.syslog /\ h.echoed = k.echoed
  <2> HIDE DEF c
  <2>1. QED
    BY <1>3, <1>4 DEF Loggers
<1>6. PutLog(k, c) = IF j - a < n - 1 THEN h ELSE FlushLog(h)
  BY <1>4 DEF PutLog, n
<1> HIDE DEF h, c, p
<1>7. Sent(l, h, Full(u, p, q))
  BY <1>3, <1>5 DEF Sent
<1>8. CASE j - a < n - 1
  <2>1. j + 1 < a + n
    BY <1>1, <1>2, <1>8
  <2>2. (j + 1) \div n = q /\ PutLog(k, c) = h
    BY <1>2, <1>6, <1>8, <2>1
  <2>3. QED
    BY <1>3, <1>5, <1>7, <2>2 DEF Wrote, n, a, p, c
<1>9. CASE ~(j - a < n - 1)
  <2> DEFINE e == [prio |-> h.currlevel, text |-> Chop(h.buf)]
             f == FlushLog(h)
  <2>1. j + 1 = a + n /\ (j + 1) \div n = q + 1 /\ PutLog(k, c) = f
    BY <1>1, <1>2, <1>6, <1>9
  <2>2. /\ Full(u, p, q) \in Seq(Entry(C))
        /\ Full(u, p, q + 1) = Append(Full(u, p, q), e)
    <3>1. a <= Len(u) /\ SubSeq(u, a + 1, j + 1) = SubSeq(u, n * q + 1, n * (q + 1))
      <4>1. Len(u) \in Nat
        BY LenProperties
      <4>2. a <= Len(u)
        BY <1>2, <4>1
      <4>3. j + 1 = n * (q + 1)
        BY <1>2, <2>1
      <4>4. QED
        BY <4>2, <4>3 DEF a
    <3>2. /\ Full(u, p, q) \in Seq(Entry(C))
          /\ Full(u, p, q + 1)
              = Append(Full(u, p, q),
                       [prio |-> IF q = 0 THEN p ELSE DefaultPrio,
                        text |-> Chop(SubSeq(u, n * q + 1, n * (q + 1)))])
      BY <1>1, <1>2, <3>1, FullGrows DEF n, a
    <3>3. e = [prio |-> IF q = 0 THEN p ELSE DefaultPrio,
               text |-> Chop(SubSeq(u, n * q + 1, n * (q + 1)))]
      BY <1>3, <1>5, <3>1
    <3>4. QED
      BY <3>2, <3>3
  <2>3. /\ f \in Loggers(C) /\ f.buf = <<>> /\ f.currlevel = DefaultPrio
        /\ Sent(l, f, Append(Full(u, p, q), e))
    <3>1. h.buf # <<>>
      BY <1>4, <1>5
    <3>2. QED
      BY <1>5, <1>7, <2>2, <3>1, FlushSends
  <2> HIDE DEF e, f
  <2>4. SubSeq(u, n * (q + 1) + 1, j + 1) = <<>> /\ q + 1 # 0
    <3>1. n * (q + 1) = j + 1
      BY <1>2, <2>1
    <3>2. SubSeq(u, (j + 1) + 1, j + 1) = <<>>
      OBVIOUS
    <3>3. QED
      BY <1>2, <3>1, <3>2
  <2>5. QED
    BY <2>1, <2>2, <2>3, <2>4 DEF Wrote, n, c, p
<1>10. QED
  BY <1>8, <1>9

\* Before anything is written.
LEMMA SentNothing ==
  ASSUME NEW C, NEW l \in Loggers(C)
  PROVE  Sent(l, l, <<>>)
<1>1. Allowed(<<>>, l.minlevel_syslog) = <<>> /\ Echoes(l, <<>>) = <<>>
  <2> DEFINE s == SubSeq(l.buf, 1, 0)
             e == [prio |-> 0, text |-> Chop(s)]
  <2>1. s \in Seq(C)
    BY DEF Loggers
  <2> HIDE DEF s
  <2>2. e \in Entry(C) /\ <<>> \in Seq(Entry(C))
    BY <2>1 DEF Entry
  <2> HIDE DEF e
  <2>3. QED
    BY <2>2, AllowedGrows, EchoesGrow
<1>2. l.syslog \o <<>> = l.syslog /\ l.echoed \o <<>> = l.echoed
  BY ConcatEmptySeq DEF Loggers
<1>3. QED
  BY <1>1, <1>2 DEF Sent

\* A logger stays one.
LEMMA PutType ==
  ASSUME NEW C, NEW k \in Loggers(C), NEW c \in C
  PROVE  PutLog(k, c) \in Loggers(C)
<1> DEFINE h == [k EXCEPT !.buf = Append(@, c)]
<1>1. h \in Loggers(C) /\ h.buf # <<>>
  <2>1. k.buf \in Seq(C)
    BY DEF Loggers
  <2>2. Append(k.buf, c) \in Seq(C) /\ Append(k.buf, c) # <<>>
    BY <2>1, AppendProperties
  <2>3. QED
    BY <2>2 DEF Loggers
<1>2. PutLog(k, c) = h \/ PutLog(k, c) = FlushLog(h)
  BY DEF PutLog
<1> HIDE DEF h
<1>3. Sent(h, h, <<>>) /\ <<>> \in Seq(Entry(C))
  BY <1>1, SentNothing
<1>4. FlushLog(h) \in Loggers(C)
  BY <1>1, <1>3, FlushSends
<1>5. QED
  BY <1>1, <1>2, <1>4

\* A text is written character by character.
LEMMA WriteLogIs ==
  ASSUME NEW C, NEW l \in Loggers(C), l.buf = <<>>, NEW str \in Seq(C), NEW u \in Seq(C),
         Len(str) <= Len(u), \A i \in 1..Len(str) : str[i] = u[i]
  PROVE  Wrote(C, l, WriteLog(l, str), u, Len(str))
<1> DEFINE N == Len(str)
           T == Loggers(C)
           Turn(n, v) == IF n + 1 <= N THEN PutLog(v, str[n + 1]) ELSE v
           step == [n \in Nat |-> [v \in T |-> Turn(n, v)]]
<1>1. N \in Nat /\ \A i \in 1..N : str[i] \in C
  BY ElementOfSeq, LenProperties
<1>2. \A n \in Nat : \A v \in T : Turn(n, v) \in T
  <2> SUFFICES ASSUME NEW n \in Nat, NEW v \in T PROVE Turn(n, v) \in T
    OBVIOUS
  <2>1. CASE n + 1 <= N
    <3>1. str[n + 1] \in C
      BY <1>1, <2>1
    <3>2. QED
      BY <2>1, <3>1, PutType
  <2>2. CASE ~(n + 1 <= N)
    BY <2>2
  <2>3. QED
    BY <2>1, <2>2
<1>3. StepsIn(T, step)
  <2> HIDE DEF Turn, T
  <2>1. QED
    BY <1>2 DEF StepsIn
<1>4. PICK f : Follows(f, T, l, step)
  <2> HIDE DEF step
  <2>1. \E f : Follows(f, T, l, step)
    BY <1>3, Recursion
  <2>2. QED
    BY <2>1
<1>5. f \in [Nat -> T] /\ f[0] = l /\ \A n \in Nat : f[n + 1] = Turn(n, f[n])
  <2> HIDE DEF Turn, T
  <2>1. QED
    BY <1>4 DEF Follows
<1> DEFINE Body(w) == [k \in 0..N |-> IF k = 0 THEN l ELSE PutLog(w[k - 1], str[k])]
           W == CHOOSE w : w = Body(w)
           g == [k \in 0..N |-> f[k]]
<1>6. g = Body(g)
  <2>1. \A k \in 0..N : k # 0 => k - 1 \in 0..N /\ k - 1 \in Nat /\ (k - 1) + 1 = k /\ k <= N
    BY <1>1
  <2>2. \A k \in 0..N : k # 0 => f[k] = PutLog(f[k - 1], str[k])
    <3> SUFFICES ASSUME NEW k \in 0..N, k # 0 PROVE f[k] = PutLog(f[k - 1], str[k])
      OBVIOUS
    <3>1. f[(k - 1) + 1] = Turn(k - 1, f[k - 1])
      BY <1>5, <2>1
    <3>2. QED
      BY <2>1, <3>1
  <2>3. \A k \in 0..N : g[k] = IF k = 0 THEN l ELSE PutLog(g[k - 1], str[k])
    BY <1>5, <2>1, <2>2
  <2>4. QED
    BY <2>3
<1>7. WriteLog(l, str) = W[N]
  BY DEF WriteLog
<1>8. W = Body(W)
  <2> HIDE DEF Body, g
  <2>1. QED
    BY <1>6
<1> DEFINE S == {n \in Nat : n <= N => Wrote(C, l, W[n], u, n)}
<1>9. 0 \in S
  <2>1. W[0] = l
    <3> HIDE DEF W
    <3>1. QED
      BY <1>1, <1>8
  <2>2. 0 \div BufferSize = 0 /\ SubSeq(u, BufferSize * 0 + 1, 0) = <<>>
    <3>1. BufferSize \in Nat \ {0}
      BY BufferSizeAssumption
    <3>2. BufferSize * 0 + 1 = 1 /\ 0 \div BufferSize = 0
      BY <3>1
    <3>3. SubSeq(u, 1, 0) = <<>>
      OBVIOUS
    <3>4. QED
      BY <3>2, <3>3
  <2>3. Full(u, l.currlevel, 0) = <<>>
    BY DEF Full
  <2> HIDE DEF W
  <2>4. QED
    BY <2>1, <2>2, <2>3, SentNothing DEF Wrote
<1>10. ASSUME NEW n \in Nat, n \in S PROVE n + 1 \in S
  <2> SUFFICES ASSUME n + 1 <= N PROVE Wrote(C, l, W[n + 1], u, n + 1)
    OBVIOUS
  <2>1. n + 1 \in 1..N /\ n + 1 \in 0..N /\ n + 1 # 0 /\ (n + 1) - 1 = n /\ n <= N
    BY <1>1
  <2>2. Wrote(C, l, W[n], u, n)
    BY <1>10, <2>1
  <2> HIDE DEF W
  <2>3. W[n + 1] = PutLog(W[n], str[n + 1])
    BY <1>8, <2>1
  <2>4. str[n + 1] = u[n + 1] /\ n + 1 <= Len(u)
    <3>1. Len(u) \in Nat
      BY LenProperties
    <3>2. QED
      BY <1>1, <2>1, <3>1
  <2> DEFINE k == W[n]
  <2> HIDE DEF k, N
  <2>5. Wrote(C, l, PutLog(k, u[n + 1]), u, n + 1)
    BY <2>2, <2>4, PutStep DEF k
  <2>6. QED
    BY <2>3, <2>4, <2>5 DEF k
<1> HIDE DEF S, W
<1>11. Nat \subseteq S
  BY <1>9, <1>10, SetInduction
<1>12. N \in S
  BY <1>1, <1>11
<1>13. QED
  BY <1>7, <1>1, <1>12 DEF S

\* The smaller one of two numbers.
LEMMA MinOfTwo ==
  ASSUME NEW a \in Int, NEW b \in Int
  PROVE  Min({a, b}) = IF a <= b THEN a ELSE b
<1> DEFINE m == IF a <= b THEN a ELSE b
<1>1. m \in {a, b} /\ \A y \in {a, b} : m <= y
  OBVIOUS
<1>2. \A x \in {a, b} : (\A y \in {a, b} : x <= y) => x = m
  OBVIOUS
<1> HIDE DEF m
<1>3. Min({a, b}) = m
  BY <1>1, <1>2 DEF Min
<1>4. QED
  BY <1>3 DEF m

\* A line is one entry, or as many as it fills buffers.
LEMMA EntriesAre ==
  ASSUME NEW C, NEW str \in Seq(C), "\n" \in C, NEW p \in Int
  PROVE  LET u == Append(str, "\n")
             q == Len(u) \div BufferSize
         IN /\ BufferSize * q = Len(u) => Entries(str, p) = Full(u, p, q)
            /\ BufferSize * q # Len(u) =>
                 Entries(str, p)
                   = Append(Full(u, p, q),
                            [prio |-> IF q = 0 THEN p ELSE DefaultPrio,
                             text |-> Chop(SubSeq(u, BufferSize * q + 1, Len(u)))])
<1> DEFINE u == Append(str, "\n")
           n == BufferSize
           N == Len(u)
           q == N \div n
           m == (N + n - 1) \div n
           P(i) == [prio |-> IF i = 1 THEN p ELSE DefaultPrio,
                    text |-> Chop(SubSeq(u, n * (i - 1) + 1, n * i))]
           last == [prio |-> IF q = 0 THEN p ELSE DefaultPrio,
                    text |-> Chop(SubSeq(u, n * q + 1, N))]
           E(i) == [prio |-> IF i = 1 THEN p ELSE DefaultPrio,
                    text |-> Chop(SubSeq(u, n * (i - 1) + 1, Min({n * i, N})))]
<1>1. n \in Nat \ {0} /\ u \in Seq(C) /\ N \in Nat
  BY BufferSizeAssumption, AppendProperties, LenProperties
<1>2. Entries(str, p) = [i \in 1..m |-> E(i)]
  BY DEF Entries
<1>3. \A k \in Nat : Full(u, p, k) = [i \in 1..k |-> P(i)]
  BY DEF Full
<1> HIDE DEF n, u
<1>4. q \in Nat /\ n * q \in Nat /\ n * q <= N /\ N < n * q + n /\ n * (q + 1) = n * q + n
  <2> HIDE DEF N
  <2>1. QED
    BY <1>1, BufferStep
<1> HIDE DEF N, q
<1>5. ASSUME NEW i \in 1..q PROVE E(i) = P(i)
  <2> DEFINE b == n * i
  <2>1. b \in Int /\ n \in Int /\ n > 0 /\ i \in Int /\ q \in Int /\ i <= q
    BY <1>1, <1>4
  <2>2. ~ (n * q < n * i)
    <3> SUFFICES ASSUME n * q < n * i PROVE FALSE
      OBVIOUS
    <3>1. q < i
      BY <2>1, Smaller
    <3>2. QED
      BY <2>1, <3>1
  <2> HIDE DEF b
  <2>3. b <= N
    BY <1>1, <1>4, <2>1, <2>2 DEF b
  <2>4. Min({b, N}) = b
    BY <1>1, <2>1, <2>3, MinOfTwo
  <2>5. QED
    BY <2>4 DEF b
<1>6. CASE n * q = N
  <2>1. m = q
    <3> DEFINE w == N + n - 1
    <3>1. w \in Int /\ n * q <= w /\ w < n * q + n /\ q \in Int /\ n \in Int /\ n > 0
      BY <1>1, <1>4, <1>6
    <3> HIDE DEF w
    <3>2. w \div n = q
      BY <3>1, DivisionUnique
    <3>3. QED
      BY <3>2 DEF w
  <2> HIDE DEF m, E, P
  <2>2. Entries(str, p) = Full(u, p, q)
    BY <1>2, <1>3, <1>4, <1>5, <2>1
  <2>3. QED
    BY <1>6, <2>2 DEF n, u, N, q
<1>7. CASE n * q # N
  <2>1. m = q + 1
    <3> DEFINE w == N + n - 1
               r == q + 1
    <3>1. w \in Int /\ n * r <= w /\ w < n * r + n /\ r \in Int /\ n \in Int /\ n > 0
      BY <1>1, <1>4, <1>7
    <3> HIDE DEF w, r
    <3>2. w \div n = r
      BY <3>1, DivisionUnique
    <3>3. QED
      BY <3>2 DEF w, r
  <2>2. E(q + 1) = last
    <3> DEFINE b == n * (q + 1)
    <3>1. b \in Int /\ N <= b
      BY <1>1, <1>4
    <3> HIDE DEF b
    <3>2. Min({b, N}) = N
      BY <1>1, <3>1, MinOfTwo
    <3>3. (q + 1) - 1 = q /\ (q + 1 = 1 <=> q = 0)
      BY <1>4
    <3>4. QED
      BY <3>2, <3>3 DEF b
  <2> HIDE DEF m, E, P, last
  <2>3. Append(Full(u, p, q), last) = [i \in 1..q + 1 |-> IF i = q + 1 THEN last ELSE P(i)]
    <3> DEFINE t == Full(u, p, q)
    <3>1. t \in Seq(Entry(C)) /\ t = [i \in 1..q |-> P(i)]
      BY <1>1, <1>3, <1>4, FullGrows DEF n, N
    <3> HIDE DEF t
    <3>2. Len(t) = q /\ \A i \in 1..q : t[i] = P(i)
      BY <1>4, <3>1
    <3>3. Append(t, last) = [i \in 1..Len(t) + 1 |-> IF i = Len(t) + 1 THEN last ELSE t[i]]
      BY <1>4, <3>1, <3>2
    <3>4. QED
      BY <1>4, <3>2, <3>3 DEF t
  <2>4. \A i \in 1..q + 1 : E(i) = IF i = q + 1 THEN last ELSE P(i)
    BY <1>4, <1>5, <2>2
  <2>5. Entries(str, p) = Append(Full(u, p, q), last)
    BY <1>2, <2>1, <2>3, <2>4
  <2>6. QED
    BY <1>7, <2>5 DEF n, u, N, q, last
<1>8. QED
  BY <1>6, <1>7

\* A line that is logged leads to its entries, with the settings of the logger.
LineDone(C, l, str) ==
  LET k == LogLine(l, str)
  IN /\ k \in Loggers(C) /\ k.buf = <<>> /\ k.currlevel = DefaultPrio
     /\ Entries(str, l.currlevel) \in Seq(Entry(C))
     /\ Sent(l, k, Entries(str, l.currlevel))

LEMMA LineLogged ==
  ASSUME NEW C, NEW l \in Loggers(C), l.buf = <<>>, NEW str \in Seq(C), "\n" \in C
  PROVE  LineDone(C, l, str)
<1> DEFINE u == Append(str, "\n")
           n == BufferSize
           N == Len(u)
           q == N \div n
           p == l.currlevel
           k == PutLog(WriteLog(l, str), "\n")
           es == Entries(str, p)
           full == Full(u, p, q)
<1>1. /\ n \in Nat \ {0} /\ u \in Seq(C) /\ N \in Nat /\ p \in Int
      /\ Len(str) \in Nat /\ N = Len(str) + 1 /\ u[Len(str) + 1] = "\n"
      /\ \A i \in 1..Len(str) : str[i] = u[i]
  BY BufferSizeAssumption, AppendProperties, LenProperties DEF Loggers
<1>2. LogLine(l, str) = FlushLog(k)
  BY DEF LogLine
<1>3. /\ n * q = N => es = full
      /\ n * q # N => es = Append(full, [prio |-> IF q = 0 THEN p ELSE DefaultPrio,
                                         text |-> Chop(SubSeq(u, n * q + 1, N))])
  BY <1>1, EntriesAre
<1> HIDE DEF u, p
<1>4. Wrote(C, l, k, u, N)
  <2> DEFINE w == WriteLog(l, str)
             j == Len(str)
  <2>1. Wrote(C, l, w, u, j)
    <3>1. Len(str) <= Len(u)
      BY <1>1
    <3>2. QED
      BY <1>1, <3>1, WriteLogIs
  <2> HIDE DEF w
  <2>2. Wrote(C, l, PutLog(w, u[j + 1]), u, j + 1)
    <3>1. j \in Nat /\ j + 1 <= Len(u)
      BY <1>1
    <3> HIDE DEF j
    <3>2. QED
      BY <1>1, <2>1, <3>1, PutStep
  <2>3. QED
    BY <1>1, <2>2 DEF w
<1> HIDE DEF k, n, es
<1>5. q \in Nat /\ n * q \in Nat /\ n * q <= N /\ N < n * q + n
  <2> HIDE DEF N
  <2>1. QED
    BY <1>1, BufferStep
<1>6. /\ k \in Loggers(C) /\ k.buf = SubSeq(u, n * q + 1, N)
      /\ k.currlevel = (IF q = 0 THEN p ELSE DefaultPrio)
      /\ Sent(l, k, full)
  BY <1>4 DEF Wrote, n, p
<1>7. full \in Seq(Entry(C))
  <2> HIDE DEF q, N
  <2>1. QED
    BY <1>1, <1>5, FullGrows DEF n, N
<1> HIDE DEF q, full
<1>8. CASE n * q = N
  <2>1. k.buf = <<>>
    <3>1. SubSeq(u, N + 1, N) = <<>>
      <4> HIDE DEF N
      <4>1. QED
        BY <1>1
    <3>2. QED
      BY <1>6, <1>8, <3>1
  <2>2. FlushLog(k) = k
    BY <2>1 DEF FlushLog
  <2>3. q # 0
    BY <1>1, <1>8
  <2>4. QED
    BY <1>2, <1>3, <1>6, <1>7, <1>8, <2>1, <2>2, <2>3 DEF es, p, LineDone
<1>9. CASE n * q # N
  <2> DEFINE e == [prio |-> k.currlevel, text |-> Chop(k.buf)]
             f == FlushLog(k)
  <2>1. k.buf # <<>>
    <3> DEFINE a == n * q + 1
               j == N - 1
    <3>1. a \in Nat /\ j \in Nat /\ 1 <= a /\ a <= j + 1 /\ j + 1 <= N /\ j + 1 = N
      BY <1>1, <1>5, <1>9
    <3> HIDE DEF a, j
    <3>2. SubSeq(u, a, j + 1) # <<>>
      BY <1>1, <3>1, SubSeqGrows
    <3>3. QED
      BY <1>6, <3>1, <3>2 DEF a
  <2>2. /\ f \in Loggers(C) /\ e \in Entry(C) /\ f.buf = <<>> /\ f.currlevel = DefaultPrio
        /\ Sent(l, f, Append(full, e))
    BY <1>6, <1>7, <2>1, FlushSends
  <2>3. es = Append(full, e)
    BY <1>3, <1>6, <1>9
  <2> HIDE DEF e, f
  <2>4. es \in Seq(Entry(C))
    BY <1>7, <2>2, <2>3, AppendProperties
  <2>5. QED
    BY <1>2, <2>2, <2>3, <2>4 DEF es, p, f, LineDone
<1>10. QED
  BY <1>8, <1>9

\* The last one of some places.
LEMMA MaxOfSome ==
  ASSUME NEW m \in Nat, NEW S, S \subseteq 1..m, S # {}
  PROVE  /\ Max(S) \in S /\ \A y \in S : y <= Max(S)
         /\ m \in S => Max(S) = m
<1> DEFINE T == {m - x : x \in S}
<1>1. T \subseteq Nat /\ T # {}
  OBVIOUS
<1>2. PICK z \in T : \A y \in T : z <= y
  <2> HIDE DEF T
  <2>1. QED
    BY <1>1, LeastNatural
<1>3. PICK x \in S : z = m - x
  BY <1>2
<1>4. x \in 1..m /\ \A y \in S : x >= y
  <2> SUFFICES ASSUME NEW y \in S PROVE x >= y
    BY <1>3
  <2>1. z <= m - y /\ x \in 1..m /\ y \in 1..m
    BY <1>2, <1>3
  <2>2. QED
    BY <1>3, <2>1
<1>5. Max(S) \in S /\ \A y \in S : Max(S) >= y
  BY <1>3, <1>4 DEF Max
<1>6. \A y \in S : y \in 1..m /\ Max(S) \in 1..m
  BY <1>5
<1> DEFINE c == Max(S)
<1> HIDE DEF c
<1>7. c \in S /\ c \in 1..m /\ \A y \in S : y <= c
  BY <1>5, <1>6 DEF c
<1>8. m \in S => c = m
  BY <1>7
<1>9. QED
  BY <1>7, <1>8 DEF c

-----------------------------------------------------------------------------
\* What one more event changes.
LEMMA BeforeGrows ==
  ASSUME NEW W, NEW h \in Seq(W), NEW e \in W
  PROVE  LET g == Append(h, e)
             n == Len(h)
         IN /\ n \in Nat /\ g \in Seq(W) /\ Len(g) = n + 1
            /\ g[n + 1] = e /\ \A i \in 1..n : g[i] = h[i]
            /\ \A kinds :
                 /\ \A k \in 1..n + 1 : Before(g, k, kinds) = Before(h, k, kinds)
                 /\ e.kind \notin kinds => Before(g, n + 2, kinds) = Before(h, n + 1, kinds)
                 /\ e.kind \in kinds => Before(g, n + 2, kinds) = Before(h, n + 1, kinds) \cup {n + 1}
<1> DEFINE g == Append(h, e)
           n == Len(h)
<1>1. n \in Nat /\ g \in Seq(W) /\ Len(g) = n + 1 /\ g[n + 1] = e /\ \A i \in 1..n : g[i] = h[i]
  BY AppendProperties, LenProperties
<1> HIDE DEF g, n
<1>2. ASSUME NEW kinds
      PROVE  /\ \A k \in 1..n + 1 : Before(g, k, kinds) = Before(h, k, kinds)
             /\ e.kind \notin kinds => Before(g, n + 2, kinds) = Before(h, n + 1, kinds)
             /\ e.kind \in kinds => Before(g, n + 2, kinds) = Before(h, n + 1, kinds) \cup {n + 1}
  <2>1. \A k \in 1..n + 1 : Before(g, k, kinds) = Before(h, k, kinds)
    BY <1>1 DEF Before
  <2>2. Before(g, n + 2, kinds) = {j \in 1..n + 1 : g[j].kind \in kinds}
    <3>1. (n + 2) - 1 = n + 1
      BY <1>1
    <3>2. QED
      BY <3>1 DEF Before
  <2>3. Before(h, n + 1, kinds) = {j \in 1..n : h[j].kind \in kinds}
    <3>1. (n + 1) - 1 = n
      BY <1>1
    <3>2. QED
      BY <3>1 DEF Before
  <2>4. \A j : j \in 1..n + 1 <=> j \in 1..n \/ j = n + 1
    BY <1>1
  <2>5. e.kind \notin kinds => Before(g, n + 2, kinds) = Before(h, n + 1, kinds)
    BY <1>1, <2>2, <2>3, <2>4
  <2>6. e.kind \in kinds => Before(g, n + 2, kinds) = Before(h, n + 1, kinds) \cup {n + 1}
    BY <1>1, <2>2, <2>3, <2>4
  <2>7. QED
    BY <2>1, <2>5, <2>6
<1>3. QED
  BY <1>1, <1>2 DEF g, n

\* The minimum levels of the events there were stay, and what is set counts.
LEMMA LevelGrows ==
  ASSUME NEW W, NEW h \in Seq(W), NEW e \in W, NEW which
  PROVE  LET g == Append(h, e)
             n == Len(h)
         IN /\ \A k \in 1..n + 1 : MinLevel(g, k, which) = MinLevel(h, k, which)
            /\ e.kind = "min" /\ which \in e.which => MinLevel(g, n + 2, which) = e.prio
            /\ e.kind = "enter" /\ which = "SYSLOG" => MinLevel(g, n + 2, which) = Emerg
            /\ e.kind = "leave" /\ which = "SYSLOG" => MinLevel(g, n + 2, which) = DefaultPrio
            /\ \/ e.kind \notin {"min", "enter", "leave"}
               \/ e.kind = "min" /\ which \notin e.which
               \/ e.kind \in {"enter", "leave"} /\ which # "SYSLOG"
               => MinLevel(g, n + 2, which) = MinLevel(h, n + 1, which)
<1> DEFINE g == Append(h, e)
           n == Len(h)
           Sets(s, k) == {j \in Before(s, k, {"min"}) : which \in s[j].which}
                         \cup (IF which = "SYSLOG" THEN Before(s, k, {"enter", "leave"}) ELSE {})
           Of(x) == CASE x.kind = "min"   -> x.prio
                      [] x.kind = "enter" -> Emerg
                      [] x.kind = "leave" -> DefaultPrio
<1>1. \A s, k : MinLevel(s, k, which) = IF Sets(s, k) = {} THEN DefaultPrio ELSE Of(s[Max(Sets(s, k))])
  BY DEF MinLevel
<1>2. \A kinds :
        /\ \A k \in 1..n + 1 : Before(g, k, kinds) = Before(h, k, kinds)
        /\ e.kind \notin kinds => Before(g, n + 2, kinds) = Before(h, n + 1, kinds)
        /\ e.kind \in kinds => Before(g, n + 2, kinds) = Before(h, n + 1, kinds) \cup {n + 1}
  BY BeforeGrows
<1>3. n \in Nat /\ g[n + 1] = e /\ \A i \in 1..n : g[i] = h[i]
  BY BeforeGrows
<1> HIDE DEF g, n
<1>4. \A s : \A k \in Nat : \A kinds : Before(s, k, kinds) \subseteq 1..k - 1
  BY DEF Before
<1>5. \A s : \A k \in Nat : Sets(s, k) \subseteq 1..k - 1
  BY <1>4
<1>6. ASSUME NEW k \in 1..n + 1 PROVE Sets(g, k) = Sets(h, k)
  <2>1. Before(h, k, {"min"}) \subseteq 1..n
    <3>1. k \in Nat /\ 1..k - 1 \subseteq 1..n
      BY <1>3
    <3>2. QED
      BY <1>4, <3>1
  <2>2. /\ Before(g, k, {"min"}) = Before(h, k, {"min"})
        /\ Before(g, k, {"enter", "leave"}) = Before(h, k, {"enter", "leave"})
    BY <1>2
  <2>3. {j \in Before(g, k, {"min"}) : which \in g[j].which}
          = {j \in Before(h, k, {"min"}) : which \in h[j].which}
    BY <1>3, <2>1, <2>2
  <2>4. QED
    BY <2>2, <2>3
<1>7. ASSUME NEW k \in 1..n + 1, Sets(h, k) # {}
      PROVE  Max(Sets(h, k)) \in 1..n
  <2>1. k - 1 \in Nat /\ k \in Nat /\ 1..k - 1 \subseteq 1..n
    BY <1>3
  <2> DEFINE S == Sets(h, k)
             m == k - 1
  <2>2. S \subseteq 1..m /\ S # {}
    BY <1>5, <1>7, <2>1
  <2> HIDE DEF S, m
  <2>3. m \in Nat
    BY <2>1 DEF m
  <2>4. Max(S) \in S
    BY <2>2, <2>3, MaxOfSome
  <2>5. QED
    BY <2>1, <2>2, <2>4 DEF S, m
<1>8. ASSUME NEW k \in 1..n + 1 PROVE MinLevel(g, k, which) = MinLevel(h, k, which)
  <2> HIDE DEF Sets, Of
  <2>1. Sets(h, k) # {} => g[Max(Sets(h, k))] = h[Max(Sets(h, k))]
    BY <1>3, <1>7
  <2>2. QED
    BY <1>1, <1>6, <2>1
<1> DEFINE sets == \/ e.kind = "min" /\ which \in e.which
                   \/ e.kind \in {"enter", "leave"} /\ which = "SYSLOG"
<1>9. ASSUME ~sets PROVE MinLevel(g, n + 2, which) = MinLevel(h, n + 1, which)
  <2>1. n + 1 \in 1..n + 1 /\ n + 1 \in Nat /\ (n + 1) - 1 = n
    BY <1>3
  <2>2. Before(h, n + 1, {"min"}) \subseteq 1..n
    BY <1>4, <2>1
  <2>3. {j \in Before(g, n + 2, {"min"}) : which \in g[j].which}
          = {j \in Before(h, n + 1, {"min"}) : which \in h[j].which}
    <3>1. CASE e.kind # "min"
      <4>1. Before(g, n + 2, {"min"}) = Before(h, n + 1, {"min"})
        BY <1>2, <3>1
      <4>2. QED
        BY <1>3, <2>2, <4>1
    <3>2. CASE e.kind = "min"
      <4>1. Before(g, n + 2, {"min"}) = Before(h, n + 1, {"min"}) \cup {n + 1}
        BY <1>2, <3>2
      <4>2. which \notin g[n + 1].which
        BY <1>3, <1>9, <3>2
      <4>3. QED
        BY <1>3, <2>2, <4>1, <4>2
    <3>3. QED
      BY <3>1, <3>2
  <2>4. which = "SYSLOG" => Before(g, n + 2, {"enter", "leave"}) = Before(h, n + 1, {"enter", "leave"})
    BY <1>2, <1>9
  <2>5. Sets(g, n + 2) = Sets(h, n + 1)
    BY <2>3, <2>4
  <2> HIDE DEF Sets, Of
  <2>6. Sets(h, n + 1) # {} => g[Max(Sets(h, n + 1))] = h[Max(Sets(h, n + 1))]
    BY <1>3, <1>7, <2>1
  <2>7. QED
    BY <1>1, <2>5, <2>6
<1>10. ASSUME sets PROVE MinLevel(g, n + 2, which) = Of(e)
  <2>1. n + 1 \in Nat /\ n + 2 \in Nat /\ (n + 2) - 1 = n + 1
    BY <1>3
  <2>2. n + 1 \in Sets(g, n + 2)
    <3>1. CASE e.kind = "min" /\ which \in e.which
      BY <1>2, <1>3, <3>1
    <3>2. CASE e.kind \in {"enter", "leave"} /\ which = "SYSLOG"
      BY <1>2, <3>2
    <3>3. QED
      BY <1>10, <3>1, <3>2
  <2> DEFINE S == Sets(g, n + 2)
             m == n + 1
  <2>3. S \subseteq 1..m /\ m \in S /\ m \in Nat
    BY <1>5, <2>1, <2>2
  <2> HIDE DEF S, m
  <2>4. Max(S) = m /\ S # {}
    BY <2>3, MaxOfSome
  <2> HIDE DEF Of, Sets
  <2>5. QED
    BY <1>1, <1>3, <2>4 DEF S, m
<1>11. QED
  BY <1>8, <1>9, <1>10 DEF g, n

\* So do the echo and its clock.
LEMMA EchoGrows ==
  ASSUME NEW W, NEW h \in Seq(W), NEW e \in W, h # <<>>, h[1].kind = "new"
  PROVE  LET g == Append(h, e)
             n == Len(h)
         IN /\ \A k \in 2..n + 1 : /\ Echoing(g, k) = Echoing(h, k)
                                   /\ StampAt(g, k) = StampAt(h, k)
            /\ e.kind = "enter" => /\ Echoing(g, n + 2) = TRUE
                                   /\ StampAt(g, n + 2) = IF e.time < 0 THEN <<>> ELSE <<e.time>>
            /\ e.kind = "leave" => Echoing(g, n + 2) = FALSE
            /\ e.kind \notin {"new", "enter", "leave"} => Echoing(g, n + 2) = Echoing(h, n + 1)
            /\ e.kind \notin {"new", "enter"} => StampAt(g, n + 2) = StampAt(h, n + 1)
<1> DEFINE g == Append(h, e)
           n == Len(h)
           EE == {"new", "enter", "leave"}
           SS == {"new", "enter"}
           Echo(x) == x.kind = "enter" \/ (x.kind = "new" /\ x.echo)
           Time(x) == IF x.time < 0 THEN <<>> ELSE <<x.time>>
<1>1. /\ \A s, k : Echoing(s, k) = Echo(s[Max(Before(s, k, EE))])
      /\ \A s, k : StampAt(s, k) = Time(s[Max(Before(s, k, SS))])
  BY DEF Echoing, StampAt
<1>2. \A kinds :
        /\ \A k \in 1..n + 1 : Before(g, k, kinds) = Before(h, k, kinds)
        /\ e.kind \notin kinds => Before(g, n + 2, kinds) = Before(h, n + 1, kinds)
        /\ e.kind \in kinds => Before(g, n + 2, kinds) = Before(h, n + 1, kinds) \cup {n + 1}
  BY BeforeGrows
<1>3. n \in Nat /\ g[n + 1] = e /\ \A i \in 1..n : g[i] = h[i]
  BY BeforeGrows
<1>4. n >= 1
  BY EmptySeq, LenProperties
<1> HIDE DEF g, n
<1>5. ASSUME NEW k \in 2..n + 1, NEW kinds, "new" \in kinds
      PROVE  Max(Before(h, k, kinds)) \in 1..n
  <2> DEFINE S == Before(h, k, kinds)
             m == k - 1
  <2>1. S \subseteq 1..m /\ S # {} /\ m \in Nat /\ m <= n
    BY <1>3, <1>4, <1>5 DEF Before
  <2> HIDE DEF S, m
  <2>2. Max(S) \in S
    BY <2>1, MaxOfSome
  <2>3. QED
    BY <1>3, <2>1, <2>2 DEF S
<1>6. "new" \in EE /\ "new" \in SS
  OBVIOUS
<1> HIDE DEF EE, SS, Echo, Time
<1>7. ASSUME NEW k \in 2..n + 1
      PROVE  Echoing(g, k) = Echoing(h, k) /\ StampAt(g, k) = StampAt(h, k)
  <2>1. k \in 1..n + 1
    BY <1>3
  <2>2. /\ Before(g, k, EE) = Before(h, k, EE) /\ Before(g, k, SS) = Before(h, k, SS)
        /\ g[Max(Before(h, k, EE))] = h[Max(Before(h, k, EE))]
        /\ g[Max(Before(h, k, SS))] = h[Max(Before(h, k, SS))]
    BY <1>2, <1>3, <1>5, <1>6, <2>1
  <2>3. QED
    BY <1>1, <2>2
<1>8. n + 1 \in 2..n + 1
  BY <1>3, <1>4
<1>9. ASSUME e.kind \notin EE PROVE Echoing(g, n + 2) = Echoing(h, n + 1)
  <2>1. /\ Before(g, n + 2, EE) = Before(h, n + 1, EE)
        /\ g[Max(Before(h, n + 1, EE))] = h[Max(Before(h, n + 1, EE))]
    BY <1>2, <1>3, <1>5, <1>6, <1>8, <1>9
  <2>2. QED
    BY <1>1, <2>1
<1>10. ASSUME e.kind \notin SS PROVE StampAt(g, n + 2) = StampAt(h, n + 1)
  <2>1. /\ Before(g, n + 2, SS) = Before(h, n + 1, SS)
        /\ g[Max(Before(h, n + 1, SS))] = h[Max(Before(h, n + 1, SS))]
    BY <1>2, <1>3, <1>5, <1>6, <1>8, <1>10
  <2>2. QED
    BY <1>1, <2>1
<1>11. ASSUME NEW kinds, e.kind \in kinds PROVE g[Max(Before(g, n + 2, kinds))] = e
  <2> DEFINE S == Before(g, n + 2, kinds)
             m == n + 1
  <2>1. S \subseteq 1..m /\ m \in S /\ m \in Nat
    <3>1. Before(h, n + 1, kinds) \subseteq 1..n + 1
      BY <1>3 DEF Before
    <3>2. S = Before(h, n + 1, kinds) \cup {n + 1}
      BY <1>2, <1>11
    <3>3. QED
      BY <1>3, <3>1, <3>2
  <2> HIDE DEF S, m
  <2>2. Max(S) = m
    BY <2>1, MaxOfSome
  <2>3. QED
    BY <1>3, <2>2 DEF S, m
<1>12. e.kind \in EE => Echoing(g, n + 2) = Echo(e)
  BY <1>1, <1>11
<1>13. e.kind \in SS => StampAt(g, n + 2) = Time(e)
  BY <1>1, <1>11
<1>14. e.kind = "enter" => Echo(e) = TRUE /\ e.kind \in EE /\ e.kind \in SS
  BY DEF Echo, EE, SS
<1>15. e.kind = "leave" => Echo(e) = FALSE /\ e.kind \in EE
  BY DEF Echo, EE
<1>16. QED
  BY <1>7, <1>9, <1>10, <1>12, <1>13, <1>14, <1>15 DEF g, n, EE, SS, Time

Events(C) == [kind : {"new"}, echo : BOOLEAN, time : Int]
             \cup [kind : {"line"}, prio : Int, text : Seq(C)]
             \cup [kind : {"min"}, prio : Int, which : SUBSET {"SYSLOG", "ECHO"}]
             \cup [kind : {"enter"}, time : Int]
             \cup [kind : {"leave"}]

\* Between two events a logger has the settings that its history says, and what
\* it has sent is what the history says.
Settings(l, h) ==
  LET k == Len(h) + 1
  IN /\ l.minlevel_syslog = MinLevel(h, k, "SYSLOG") /\ l.minlevel_echo = MinLevel(h, k, "ECHO")
     /\ l.echo = Echoing(h, k) /\ Stamp(l) = StampAt(h, k)
LogInv(C) ==
  /\ log \in Loggers(C) /\ events \in Seq(Events(C))
  /\ events # <<>> /\ events[1].kind = "new"
  /\ log.buf = <<>> /\ log.currlevel = DefaultPrio
  /\ Settings(log, events)
  /\ \A k \in 1..Len(events) : /\ SyslogOf(events, k) \in Seq(Entry(C))
                               /\ EchoOf(events, k) \in Seq(EchoEntry(C))
  /\ log.syslog = FlattenSeq([k \in DOMAIN events |-> SyslogOf(events, k)])
  /\ log.echoed = FlattenSeq([k \in DOMAIN events |-> EchoOf(events, k)])

\* What earlier events have sent does not change.
LEMMA SentGrows ==
  ASSUME NEW C, NEW h \in Seq(Events(C)), NEW e \in Events(C), h # <<>>, h[1].kind = "new"
  PROVE  LET g == Append(h, e)
         IN \A k \in 1..Len(h) : SyslogOf(g, k) = SyslogOf(h, k) /\ EchoOf(g, k) = EchoOf(h, k)
<1> DEFINE g == Append(h, e)
           n == Len(h)
           W == Events(C)
<1>1. n \in Nat /\ \A i \in 1..n : g[i] = h[i]
  BY AppendProperties, LenProperties
<1>2. \A k \in 1..n + 1 : /\ MinLevel(g, k, "SYSLOG") = MinLevel(h, k, "SYSLOG")
                          /\ MinLevel(g, k, "ECHO") = MinLevel(h, k, "ECHO")
  <2> HIDE DEF W
  <2>1. h \in Seq(W) /\ e \in W
    BY DEF W
  <2>2. ASSUME NEW which PROVE \A k \in 1..n + 1 : MinLevel(g, k, which) = MinLevel(h, k, which)
    BY <2>1, LevelGrows
  <2>3. QED
    BY <2>2
<1>3. \A k \in 2..n + 1 : Echoing(g, k) = Echoing(h, k) /\ StampAt(g, k) = StampAt(h, k)
  <2> HIDE DEF W
  <2>1. h \in Seq(W) /\ e \in W
    BY DEF W
  <2>2. QED
    BY <2>1, EchoGrows
<1> HIDE DEF g, n
<1>4. SUFFICES ASSUME NEW k \in 1..n
               PROVE  SyslogOf(g, k) = SyslogOf(h, k) /\ EchoOf(g, k) = EchoOf(h, k)
  BY DEF g, n
<1>5. g[k] = h[k] /\ k \in 1..n + 1
  BY <1>1
<1>6. SyslogOf(g, k) = SyslogOf(h, k)
  BY <1>2, <1>5 DEF SyslogOf
<1>7. CASE k = 1
  <2>1. h[k].kind # "line"
    BY <1>7
  <2>2. QED
    BY <1>5, <1>6, <2>1 DEF EchoOf
<1>8. CASE k # 1
  <2>1. k \in 2..n + 1
    BY <1>1, <1>8
  <2>2. QED
    BY <1>2, <1>3, <1>5, <2>1, <1>6 DEF EchoOf
<1>9. QED
  BY <1>6, <1>7, <1>8

LEMMA FlatOf ==
  ASSUME NEW V, NEW n \in Nat, NEW f, \A k \in 1..n + 1 : f[k] \in Seq(V)
  PROVE  FlattenSeq([k \in 1..n + 1 |-> f[k]]) = FlattenSeq([k \in 1..n |-> f[k]]) \o f[n + 1]
<1> DEFINE s == [k \in 1..n |-> f[k]]
           t == [k \in 1..n + 1 |-> f[k]]
           T == Seq(V)
<1>1. \A k \in 1..n : f[k] \in T
  OBVIOUS
<1>2. f[n + 1] \in T
  OBVIOUS
<1> HIDE DEF T
<1>3. s \in Seq(T) /\ Len(s) = n
  BY <1>1
<1>4. t = Append(s, f[n + 1])
  <2>1. Append(s, f[n + 1]) = [k \in 1..n + 1 |-> IF k = n + 1 THEN f[n + 1] ELSE s[k]]
    BY <1>3
  <2>2. \A k \in 1..n + 1 : f[k] = IF k = n + 1 THEN f[n + 1] ELSE s[k]
    OBVIOUS
  <2>3. QED
    BY <2>1, <2>2
<1> DEFINE x == f[n + 1]
<1> HIDE DEF s, t, x
<1>5. s \in Seq(Seq(V)) /\ x \in Seq(V)
  BY <1>2, <1>3 DEF T, x
<1>6. FlattenSeq(Append(s, x)) = FlattenSeq(s) \o x
  BY <1>5, FlatAppend
<1>7. QED
  BY <1>4, <1>6 DEF s, t, x

\* An event is right if the logger then has the settings that the history says,
\* and has sent what the history says of this event.
LEMMA DidStep ==
  ASSUME NEW C, LogInv(C), NEW e \in Events(C), NEW l \in Loggers(C), Did(e, l),
         l.buf = <<>>, l.currlevel = DefaultPrio, Settings(l, Append(events, e)),
         NEW a \in Seq(Entry(C)), NEW b \in Seq(EchoEntry(C)),
         a = SyslogOf(Append(events, e), Len(events) + 1),
         b = EchoOf(Append(events, e), Len(events) + 1),
         l.syslog = log.syslog \o a, l.echoed = log.echoed \o b
  PROVE  LogInv(C)'
<1> DEFINE h == events
           g == Append(h, e)
           n == Len(h)
           F == [k \in 1..n + 1 |-> SyslogOf(g, k)]
           G == [k \in 1..n + 1 |-> EchoOf(g, k)]
<1>1. log' = l /\ events' = g
  BY DEF Did
<1>2. /\ h \in Seq(Events(C)) /\ h # <<>> /\ h[1].kind = "new"
      /\ \A k \in 1..n : SyslogOf(h, k) \in Seq(Entry(C)) /\ EchoOf(h, k) \in Seq(EchoEntry(C))
      /\ log.syslog = FlattenSeq([k \in 1..n |-> SyslogOf(h, k)])
      /\ log.echoed = FlattenSeq([k \in 1..n |-> EchoOf(h, k)])
  BY LenProperties DEF LogInv
<1>3. /\ n \in Nat /\ n >= 1 /\ g \in Seq(Events(C)) /\ Len(g) = n + 1 /\ g[1] = h[1] /\ g # <<>>
      /\ DOMAIN g = 1..n + 1
  <2> DEFINE W == Events(C)
  <2> HIDE DEF W
  <2>1. h \in Seq(W) /\ e \in W /\ h # <<>>
    BY <1>2 DEF W
  <2>2. n \in Nat /\ n >= 1 /\ g \in Seq(W) /\ Len(g) = n + 1 /\ DOMAIN g = 1..n + 1
    BY <2>1, EmptySeq, AppendProperties, LenProperties
  <2>3. g[1] = h[1]
    BY <2>1, <2>2, AppendProperties
  <2>4. g # <<>>
    <3> HIDE DEF g, n
    <3>1. QED
      BY <2>2
  <2>5. QED
    BY <2>2, <2>3, <2>4 DEF W
<1>4. \A k \in 1..n : SyslogOf(g, k) = SyslogOf(h, k) /\ EchoOf(g, k) = EchoOf(h, k)
  BY <1>2, SentGrows
<1> HIDE DEF g, n, h
<1>5. \A k \in 1..n + 1 : k \in 1..n \/ k = n + 1
  BY <1>3
<1>6. a = SyslogOf(g, n + 1) /\ b = EchoOf(g, n + 1)
  BY DEF g, n, h
<1>7. \A k \in 1..n + 1 : F[k] \in Seq(Entry(C)) /\ G[k] \in Seq(EchoEntry(C))
  BY <1>2, <1>4, <1>5, <1>6
<1>8. l.syslog = FlattenSeq([k \in 1..n + 1 |-> SyslogOf(g, k)])
  <2>1. [k \in 1..n + 1 |-> F[k]] = [k \in 1..n + 1 |-> SyslogOf(g, k)]
    OBVIOUS
  <2>2. [k \in 1..n |-> F[k]] = [k \in 1..n |-> SyslogOf(h, k)]
    BY <1>3, <1>4
  <2>3. F[n + 1] = a
    BY <1>3, <1>6
  <2> HIDE DEF F
  <2>4. FlattenSeq([k \in 1..n + 1 |-> F[k]]) = FlattenSeq([k \in 1..n |-> F[k]]) \o F[n + 1]
    BY <1>3, <1>7, FlatOf
  <2>5. QED
    BY <1>2, <2>1, <2>2, <2>3, <2>4
<1>9. l.echoed = FlattenSeq([k \in 1..n + 1 |-> EchoOf(g, k)])
  <2>1. [k \in 1..n + 1 |-> G[k]] = [k \in 1..n + 1 |-> EchoOf(g, k)]
    OBVIOUS
  <2>2. [k \in 1..n |-> G[k]] = [k \in 1..n |-> EchoOf(h, k)]
    BY <1>3, <1>4
  <2>3. G[n + 1] = b
    BY <1>3, <1>6
  <2> HIDE DEF G
  <2>4. FlattenSeq([k \in 1..n + 1 |-> G[k]]) = FlattenSeq([k \in 1..n |-> G[k]]) \o G[n + 1]
    BY <1>3, <1>7, FlatOf
  <2>5. QED
    BY <1>2, <2>1, <2>2, <2>3, <2>4
<1>10. \A k \in 1..n + 1 : SyslogOf(g, k) \in Seq(Entry(C)) /\ EchoOf(g, k) \in Seq(EchoEntry(C))
  BY <1>7
<1>11. Settings(l, g)
  BY DEF g, h
<1> HIDE DEF F, G
<1>12. QED
  BY <1>1, <1>2, <1>3, <1>8, <1>9, <1>10, <1>11 DEF LogInv

\* A line, by a logger that only has its priority.
LEMMA LineStep ==
  ASSUME NEW C, "\n" \in C, LogInv(C), NEW p \in Int, NEW t \in Seq(C), NEW k,
         k = [log EXCEPT !.currlevel = p],
         Did([kind |-> "line", prio |-> p, text |-> t], LogLine(k, t))
  PROVE  LogInv(C)'
<1> DEFINE e == [kind |-> "line", prio |-> p, text |-> t]
           l == LogLine(k, t)
           g == Append(events, e)
           n == Len(events)
           es == Entries(t, p)
           a == Allowed(es, k.minlevel_syslog)
           b == Echoes(k, es)
<1>1. e \in Events(C) /\ e.kind = "line" /\ e.prio = p /\ e.text = t
  BY DEF Events
<1>2. /\ k \in Loggers(C) /\ k.buf = <<>> /\ k.currlevel = p
      /\ k.minlevel_syslog = log.minlevel_syslog /\ k.minlevel_echo = log.minlevel_echo
      /\ k.echo = log.echo /\ k.clock = log.clock /\ k.syslog = log.syslog /\ k.echoed = log.echoed
  BY DEF LogInv, Loggers
<1>3. /\ l \in Loggers(C) /\ l.buf = <<>> /\ l.currlevel = DefaultPrio
      /\ es \in Seq(Entry(C)) /\ Sent(k, l, es)
  <2>1. LineDone(C, k, t)
    BY <1>2, LineLogged
  <2>2. QED
    BY <1>2, <2>1, Zenon DEF LineDone
<1>4. Stamp(k) = Stamp(log) /\ Stamp(l) = Stamp(log)
  BY <1>2, <1>3 DEF Stamp, Sent
<1>5. a \in Seq(Entry(C)) /\ b \in Seq(EchoEntry(C))
  <2> DEFINE x == [prio |-> p, text |-> Chop(t)]
  <2>1. x \in Entry(C)
    BY DEF Entry
  <2> HIDE DEF x, es
  <2>2. QED
    BY <1>2, <1>3, <2>1, AllowedGrows, EchoesGrow
<1> HIDE DEF e, l
<1>6. /\ events \in Seq(Events(C)) /\ events # <<>> /\ events[1].kind = "new" /\ n \in Nat
      /\ Settings(log, events)
  BY LenProperties DEF LogInv
<1>7. /\ g[n + 1] = e /\ Len(g) = n + 1
  BY <1>1, <1>6, AppendProperties
<1>8. /\ MinLevel(g, n + 1, "SYSLOG") = log.minlevel_syslog /\ MinLevel(g, n + 1, "ECHO") = log.minlevel_echo
      /\ MinLevel(g, n + 2, "SYSLOG") = log.minlevel_syslog /\ MinLevel(g, n + 2, "ECHO") = log.minlevel_echo
  <2> DEFINE W == Events(C)
             h == events
  <2> HIDE DEF W, h
  <2>1. h \in Seq(W) /\ e \in W
    BY <1>1, <1>6 DEF W, h
  <2>2. ASSUME NEW which
        PROVE  /\ \A j \in 1..Len(h) + 1 : MinLevel(Append(h, e), j, which) = MinLevel(h, j, which)
               /\ MinLevel(Append(h, e), Len(h) + 2, which) = MinLevel(h, Len(h) + 1, which)
    <3>1. e.kind \notin {"min", "enter", "leave"}
      BY <1>1
    <3> HIDE DEF g, es, a, b
    <3>2. QED
      BY <2>1, <3>1, LevelGrows
  <2>3. n + 1 \in 1..n + 1
    BY <1>6
  <2>4. QED
    BY <1>6, <2>2, <2>3 DEF Settings, h
<1>9. /\ Echoing(g, n + 1) = log.echo /\ Echoing(g, n + 2) = log.echo
      /\ StampAt(g, n + 1) = Stamp(log) /\ StampAt(g, n + 2) = Stamp(log)
  <2> DEFINE W == Events(C)
             h == events
  <2> HIDE DEF W, h
  <2>1. h \in Seq(W) /\ e \in W /\ h # <<>> /\ h[1].kind = "new"
    BY <1>1, <1>6 DEF W, h
  <2>2. /\ \A j \in 2..Len(h) + 1 : /\ Echoing(Append(h, e), j) = Echoing(h, j)
                                    /\ StampAt(Append(h, e), j) = StampAt(h, j)
        /\ Echoing(Append(h, e), Len(h) + 2) = Echoing(h, Len(h) + 1)
        /\ StampAt(Append(h, e), Len(h) + 2) = StampAt(h, Len(h) + 1)
    BY <1>1, <2>1, EchoGrows
  <2>3. n + 1 \in 2..n + 1
    BY <1>6, EmptySeq
  <2>4. QED
    BY <1>6, <2>2, <2>3 DEF Settings, h
<1>10. Settings(l, g)
  <2>1. (n + 1) + 1 = n + 2
    BY <1>6
  <2> HIDE DEF g, n
  <2>2. QED
    BY <1>2, <1>3, <1>4, <1>7, <1>8, <1>9, <2>1 DEF Settings, Sent
<1>11. a = SyslogOf(g, n + 1)
  BY <1>1, <1>2, <1>7, <1>8 DEF SyslogOf
<1>12. b = EchoOf(g, n + 1)
  BY <1>1, <1>2, <1>4, <1>7, <1>8, <1>9 DEF EchoOf, Echoes
<1>13. l.syslog = log.syslog \o a /\ l.echoed = log.echoed \o b
  BY <1>2, <1>3 DEF Sent
<1>14. Did(e, l)
  BY DEF e, l
<1> HIDE DEF a, b
<1>15. QED
  BY <1>1, <1>3, <1>5, <1>10, <1>11, <1>12, <1>13, <1>14, DidStep

\* The other events send nothing.
LEMMA SettingStep ==
  ASSUME NEW C, LogInv(C), NEW e \in Events(C), e.kind # "line", NEW l \in Loggers(C), Did(e, l),
         l.buf = log.buf, l.currlevel = log.currlevel, l.syslog = log.syslog, l.echoed = log.echoed,
         Settings(l, Append(events, e))
  PROVE  LogInv(C)'
<1> DEFINE g == Append(events, e)
           n == Len(events)
<1>1. g[n + 1] = e
  BY AppendProperties DEF LogInv
<1>2. SyslogOf(g, n + 1) = <<>> /\ EchoOf(g, n + 1) = <<>>
  BY <1>1 DEF SyslogOf, EchoOf
<1>3. l.buf = <<>> /\ l.currlevel = DefaultPrio
  BY DEF LogInv
<1>4. l.syslog = log.syslog \o <<>> /\ l.echoed = log.echoed \o <<>>
  <2>1. log.syslog \in Seq(Entry(C)) /\ log.echoed \in Seq(EchoEntry(C))
    BY DEF LogInv, Loggers
  <2>2. QED
    BY <2>1, ConcatEmptySeq
<1>5. <<>> \in Seq(Entry(C)) /\ <<>> \in Seq(EchoEntry(C))
  OBVIOUS
<1>6. QED
  BY <1>2, <1>3, <1>4, <1>5, DidStep

\* The settings at the end of a history that has one more event.
LEMMA SettingsGrow ==
  ASSUME NEW C, LogInv(C), NEW e \in Events(C)
  PROVE  LET g == Append(events, e)
             k == Len(g) + 1
         IN /\ \A which \in {"SYSLOG", "ECHO"} :
                 LET now == IF which = "SYSLOG" THEN log.minlevel_syslog ELSE log.minlevel_echo
                 IN /\ e.kind = "min" /\ which \in e.which => MinLevel(g, k, which) = e.prio
                    /\ e.kind = "min" /\ which \notin e.which => MinLevel(g, k, which) = now
            /\ e.kind = "min" => Echoing(g, k) = log.echo /\ StampAt(g, k) = Stamp(log)
            /\ e.kind \in {"enter", "leave"} => MinLevel(g, k, "ECHO") = log.minlevel_echo
            /\ e.kind = "enter" => /\ MinLevel(g, k, "SYSLOG") = Emerg /\ Echoing(g, k) = TRUE
                                   /\ StampAt(g, k) = IF e.time < 0 THEN <<>> ELSE <<e.time>>
            /\ e.kind = "leave" => /\ MinLevel(g, k, "SYSLOG") = DefaultPrio /\ Echoing(g, k) = FALSE
                                   /\ StampAt(g, k) = Stamp(log)
<1> DEFINE h == events
           g == Append(h, e)
           n == Len(h)
           W == Events(C)
<1>1. h \in Seq(W) /\ e \in W /\ h # <<>> /\ h[1].kind = "new" /\ Settings(log, h)
  BY DEF LogInv
<1> HIDE DEF W, h
<1>2. n \in Nat /\ Len(g) + 1 = n + 2
  BY <1>1, AppendProperties, LenProperties
<1>3. /\ log.minlevel_syslog = MinLevel(h, n + 1, "SYSLOG") /\ log.minlevel_echo = MinLevel(h, n + 1, "ECHO")
      /\ log.echo = Echoing(h, n + 1) /\ Stamp(log) = StampAt(h, n + 1)
  BY <1>1 DEF Settings
<1>4. ASSUME NEW which
      PROVE  /\ e.kind = "min" /\ which \in e.which => MinLevel(g, n + 2, which) = e.prio
             /\ e.kind = "enter" /\ which = "SYSLOG" => MinLevel(g, n + 2, which) = Emerg
             /\ e.kind = "leave" /\ which = "SYSLOG" => MinLevel(g, n + 2, which) = DefaultPrio
             /\ e.kind = "min" /\ which \notin e.which
                  => MinLevel(g, n + 2, which) = MinLevel(h, n + 1, which)
             /\ e.kind \in {"enter", "leave"} /\ which # "SYSLOG"
                  => MinLevel(g, n + 2, which) = MinLevel(h, n + 1, which)
  BY <1>1, LevelGrows
<1>5. /\ e.kind = "enter" => /\ Echoing(g, n + 2) = TRUE
                             /\ StampAt(g, n + 2) = IF e.time < 0 THEN <<>> ELSE <<e.time>>
      /\ e.kind = "leave" => Echoing(g, n + 2) = FALSE
      /\ e.kind \notin {"new", "enter", "leave"} => Echoing(g, n + 2) = Echoing(h, n + 1)
      /\ e.kind = "min" \/ e.kind = "leave" => StampAt(g, n + 2) = StampAt(h, n + 1)
  <2>1. /\ e.kind = "enter" => Echoing(g, n + 2) = TRUE
        /\ e.kind = "leave" => Echoing(g, n + 2) = FALSE
    BY <1>1, EchoGrows
  <2>2. e.kind = "enter" => StampAt(g, n + 2) = IF e.time < 0 THEN <<>> ELSE <<e.time>>
    BY <1>1, EchoGrows
  <2>3. e.kind \notin {"new", "enter", "leave"} => Echoing(g, n + 2) = Echoing(h, n + 1)
    BY <1>1, EchoGrows
  <2>4. e.kind = "min" \/ e.kind = "leave" => StampAt(g, n + 2) = StampAt(h, n + 1)
    <3>1. CASE e.kind = "min"
      BY <1>1, <3>1, EchoGrows
    <3>2. CASE e.kind = "leave"
      BY <1>1, <3>2, EchoGrows
    <3>3. QED
      BY <3>1, <3>2
  <2>5. QED
    BY <2>1, <2>2, <2>3, <2>4
<1> HIDE DEF g, n
<1>6. \A which \in {"SYSLOG", "ECHO"} :
        LET now == IF which = "SYSLOG" THEN log.minlevel_syslog ELSE log.minlevel_echo
        IN /\ e.kind = "min" /\ which \in e.which => MinLevel(g, n + 2, which) = e.prio
           /\ e.kind = "min" /\ which \notin e.which => MinLevel(g, n + 2, which) = now
  BY <1>3, <1>4
<1>7. e.kind \in {"enter", "leave"} => MinLevel(g, n + 2, "ECHO") = log.minlevel_echo
  BY <1>3, <1>4
<1>8. /\ e.kind = "enter" => MinLevel(g, n + 2, "SYSLOG") = Emerg
      /\ e.kind = "leave" => MinLevel(g, n + 2, "SYSLOG") = DefaultPrio
  BY <1>4
<1>9. /\ e.kind = "min" => Echoing(g, n + 2) = log.echo /\ StampAt(g, n + 2) = Stamp(log)
      /\ e.kind = "leave" => StampAt(g, n + 2) = Stamp(log)
  BY <1>3, <1>5
<1>10. QED
  BY <1>2, <1>5, <1>6, <1>7, <1>8, <1>9 DEF g, h, n

\* setminprio(), and the sentry.
LEMMA MinlevelStep ==
  ASSUME NEW C, LogInv(C), NEW p \in Int, NEW which \in SUBSET {"SYSLOG", "ECHO"},
         Did([kind |-> "min", prio |-> p, which |-> which], SetMinlevel(log, p, which))
  PROVE  LogInv(C)'
<1> DEFINE e == [kind |-> "min", prio |-> p, which |-> which]
           l == SetMinlevel(log, p, which)
<1>1. e \in Events(C) /\ e.kind = "min" /\ e.prio = p /\ e.which = which
  BY DEF Events
<1>2. log \in Loggers(C)
  BY DEF LogInv
<1>3. /\ l \in Loggers(C) /\ l.buf = log.buf /\ l.currlevel = log.currlevel
      /\ l.syslog = log.syslog /\ l.echoed = log.echoed /\ l.echo = log.echo /\ l.clock = log.clock
      /\ l.minlevel_syslog = IF "SYSLOG" \in which THEN p ELSE log.minlevel_syslog
      /\ l.minlevel_echo = IF "ECHO" \in which THEN p ELSE log.minlevel_echo
  BY <1>2 DEF SetMinlevel, Loggers
<1>4. Stamp(l) = Stamp(log)
  BY <1>3 DEF Stamp
<1>5. Did(e, l)
  OBVIOUS
<1> HIDE DEF e, l
<1>6. Settings(l, Append(events, e))
  BY <1>1, <1>3, <1>4, SettingsGrow DEF Settings
<1>7. e.kind # "line"
  BY <1>1
<1>8. QED
  BY <1>1, <1>3, <1>5, <1>6, <1>7, SettingStep

LEMMA EntersStep ==
  ASSUME NEW C, LogInv(C), NEW t \in Int, Did([kind |-> "enter", time |-> t], SentryEnters(log, t))
  PROVE  LogInv(C)'
<1> DEFINE e == [kind |-> "enter", time |-> t]
           l == SentryEnters(log, t)
<1>1. e \in Events(C) /\ e.kind = "enter" /\ e.time = t
  BY DEF Events
<1>2. log \in Loggers(C)
  BY DEF LogInv
<1>3. /\ l \in Loggers(C) /\ l.buf = log.buf /\ l.currlevel = log.currlevel
      /\ l.syslog = log.syslog /\ l.echoed = log.echoed /\ l.echo = TRUE /\ l.clock = t
      /\ l.minlevel_syslog = Emerg /\ l.minlevel_echo = log.minlevel_echo
  <2> DEFINE k == SetEchoClock(SetEchoStream(log, TRUE), t)
  <2>1. k = [log EXCEPT !.echo = TRUE, !.clock = t]
    BY <1>2 DEF SetEchoClock, SetEchoStream, Loggers
  <2>2. l = [k EXCEPT !.minlevel_syslog = Emerg]
    <3>1. k \in Loggers(C)
      BY <1>2, <2>1 DEF Loggers
    <3> HIDE DEF k
    <3>2. SetMinlevel(k, Emerg, {"SYSLOG"}) = [k EXCEPT !.minlevel_syslog = Emerg]
      BY <3>1 DEF SetMinlevel, Loggers
    <3>3. QED
      BY <3>2 DEF SentryEnters, k
  <2> HIDE DEF k, l
  <2>3. /\ k \in Loggers(C) /\ k.buf = log.buf /\ k.currlevel = log.currlevel
        /\ k.syslog = log.syslog /\ k.echoed = log.echoed /\ k.echo = TRUE /\ k.clock = t
        /\ k.minlevel_echo = log.minlevel_echo
    BY <1>2, <2>1 DEF Loggers
  <2>4. QED
    BY <2>2, <2>3 DEF Emerg, Loggers
<1>4. Stamp(l) = IF e.time < 0 THEN <<>> ELSE <<e.time>>
  BY <1>1, <1>3 DEF Stamp
<1>5. Did(e, l)
  OBVIOUS
<1> HIDE DEF e, l
<1>6. Settings(l, Append(events, e))
  BY <1>1, <1>3, <1>4, SettingsGrow DEF Settings
<1>7. e.kind # "line"
  BY <1>1
<1>8. QED
  BY <1>1, <1>3, <1>5, <1>6, <1>7, SettingStep

LEMMA LeavesStep ==
  ASSUME NEW C, LogInv(C), Leaves
  PROVE  LogInv(C)'
<1> DEFINE e == [kind |-> "leave"]
           l == SentryLeaves(log)
<1>1. e \in Events(C) /\ e.kind = "leave"
  BY DEF Events
<1>2. log \in Loggers(C)
  BY DEF LogInv
<1>3. /\ l \in Loggers(C) /\ l.buf = log.buf /\ l.currlevel = log.currlevel
      /\ l.syslog = log.syslog /\ l.echoed = log.echoed /\ l.echo = FALSE /\ l.clock = log.clock
      /\ l.minlevel_syslog = DefaultPrio /\ l.minlevel_echo = log.minlevel_echo
  <2> DEFINE k == SetEchoStream(log, FALSE)
  <2>1. k = [log EXCEPT !.echo = FALSE]
    BY DEF SetEchoStream
  <2>2. l = [k EXCEPT !.minlevel_syslog = DefaultPrio]
    <3>1. k \in Loggers(C)
      BY <1>2, <2>1 DEF Loggers
    <3> HIDE DEF k
    <3>2. SetMinlevel(k, DefaultPrio, {"SYSLOG"}) = [k EXCEPT !.minlevel_syslog = DefaultPrio]
      BY <3>1 DEF SetMinlevel, Loggers
    <3>3. QED
      BY <3>2 DEF SentryLeaves, k
  <2> HIDE DEF k, l
  <2>3. /\ k \in Loggers(C) /\ k.buf = log.buf /\ k.currlevel = log.currlevel
        /\ k.syslog = log.syslog /\ k.echoed = log.echoed /\ k.echo = FALSE /\ k.clock = log.clock
        /\ k.minlevel_echo = log.minlevel_echo
    BY <1>2, <2>1 DEF Loggers
  <2>4. /\ l \in Loggers(C) /\ l.buf = k.buf /\ l.currlevel = k.currlevel
        /\ l.syslog = k.syslog /\ l.echoed = k.echoed /\ l.clock = k.clock
        /\ l.minlevel_syslog = DefaultPrio /\ l.minlevel_echo = k.minlevel_echo
    <3>1. DefaultPrio \in Int
      BY DEF DefaultPrio
    <3>2. QED
      BY <2>2, <2>3, <3>1 DEF Loggers
  <2>5. l.echo = k.echo
    BY <2>2, <2>3 DEF Loggers
  <2>6. QED
    BY <2>3, <2>4, <2>5
<1>4. Stamp(l) = Stamp(log)
  BY <1>3 DEF Stamp
<1>5. Did(e, l)
  BY DEF Leaves
<1> HIDE DEF e, l
<1>6. Settings(l, Append(events, e))
  BY <1>1, <1>3, <1>4, SettingsGrow DEF Settings
<1>7. e.kind # "line"
  BY <1>1
<1>8. QED
  BY <1>1, <1>3, <1>5, <1>6, <1>7, SettingStep

\* What may be logged and set.
Used(C) == {"\n", ":", " "} \subseteq C
Inputs(C, texts, errors, prios, clocks) ==
  /\ Used(C)
  /\ texts \subseteq Seq(C) /\ \A e \in errors : e[1] \in Seq(C) /\ e[2] \in Seq(C)
  /\ prios \subseteq 0..7 /\ clocks \subseteq Int

\* The invariant holds at the start and after every event.
LEMMA LogStart ==
  ASSUME NEW C, NEW clocks, clocks \subseteq Int, LogInit(clocks)
  PROVE  LogInv(C)
<1>1. PICK echo \in BOOLEAN, time \in clocks :
        log = NewLogger(echo, time) /\ events = <<[kind |-> "new", echo |-> echo, time |-> time]>>
  BY DEF LogInit
<1> DEFINE e == [kind |-> "new", echo |-> echo, time |-> time]
<1>2. time \in Int /\ e \in Events(C) /\ e.kind = "new" /\ e.echo = echo /\ e.time = time
  BY DEF Events
<1> HIDE DEF e
<1>3. /\ events = <<e>> /\ events \in Seq(Events(C)) /\ events # <<>> /\ events[1] = e
      /\ Len(events) = 1 /\ DOMAIN events = 1..1
  BY <1>1, <1>2 DEF e
<1>4. /\ log \in Loggers(C) /\ log.buf = <<>> /\ log.currlevel = DefaultPrio
      /\ log.minlevel_syslog = DefaultPrio /\ log.minlevel_echo = DefaultPrio
      /\ log.echo = echo /\ log.clock = time /\ log.syslog = <<>> /\ log.echoed = <<>>
  BY <1>1, <1>2 DEF NewLogger, Loggers, DefaultPrio
<1>5. \A kinds : Before(events, 2, kinds) = {j \in {1} : e.kind \in kinds}
  BY <1>3 DEF Before
<1>6. Before(events, 2, {"min"}) = {} /\ Before(events, 2, {"enter", "leave"}) = {}
  BY <1>2, <1>5
<1>7. Before(events, 2, {"new", "enter", "leave"}) = {1} /\ Before(events, 2, {"new", "enter"}) = {1}
  BY <1>2, <1>5
<1>8. Max({1}) = 1
  BY DEF Max
<1>9. Settings(log, events)
  <2>1. MinLevel(events, 2, "SYSLOG") = DefaultPrio /\ MinLevel(events, 2, "ECHO") = DefaultPrio
    BY <1>6 DEF MinLevel
  <2>2. Echoing(events, 2) = echo
    BY <1>2, <1>3, <1>7, <1>8 DEF Echoing
  <2>3. StampAt(events, 2) = Stamp(log)
    <3>1. events[Max(Before(events, 2, {"new", "enter"}))].time = time
      BY <1>2, <1>3, <1>7, <1>8
    <3>2. StampAt(events, 2) = IF time < 0 THEN <<>> ELSE <<time>>
      BY <3>1 DEF StampAt
    <3>3. Stamp(log) = IF time >= 0 THEN <<time>> ELSE <<>>
      BY <1>4 DEF Stamp
    <3>4. QED
      BY <1>2, <3>2, <3>3
  <2>4. QED
    BY <1>3, <1>4, <2>1, <2>2, <2>3 DEF Settings
<1>10. SyslogOf(events, 1) = <<>> /\ EchoOf(events, 1) = <<>>
  BY <1>2, <1>3 DEF SyslogOf, EchoOf
<1>11. /\ [k \in DOMAIN events |-> SyslogOf(events, k)] = <<<<>>>>
       /\ [k \in DOMAIN events |-> EchoOf(events, k)] = <<<<>>>>
  <2>1. \A k \in 1..1 : k = 1
    OBVIOUS
  <2>2. QED
    BY <1>3, <1>10, <2>1
<1>12. FlattenSeq(<<<<>>>>) = <<>>
  <2>1. Append(<<>>, <<>>) = <<<<>>>> /\ <<>> \in Seq(Seq(C)) /\ <<>> \in Seq(C)
    OBVIOUS
  <2>2. FlattenSeq(Append(<<>>, <<>>)) = FlattenSeq(<<>>) \o <<>>
    BY <2>1, FlatAppend
  <2>3. QED
    BY <2>1, <2>2, FlatEmpty
<1>13. /\ log.syslog = FlattenSeq([k \in DOMAIN events |-> SyslogOf(events, k)])
       /\ log.echoed = FlattenSeq([k \in DOMAIN events |-> EchoOf(events, k)])
  BY <1>4, <1>11, <1>12
<1>14. \A k \in 1..Len(events) : /\ SyslogOf(events, k) \in Seq(Entry(C))
                                /\ EchoOf(events, k) \in Seq(EchoEntry(C))
  <2>1. \A k \in 1..Len(events) : k = 1
    BY <1>3
  <2>2. QED
    BY <1>10, <2>1, EmptySeq
<1>15. QED
  BY <1>2, <1>3, <1>4, <1>9, <1>13, <1>14 DEF LogInv

LEMMA LogInductive ==
  ASSUME NEW C, NEW texts, NEW errors, NEW prios, NEW clocks,
         Inputs(C, texts, errors, prios, clocks), LogInv(C),
         [LogNext(texts, errors, prios, clocks)]_<<log, events>>
  PROVE  LogInv(C)'
<1>1. "\n" \in C /\ ":" \in C /\ " " \in C
  BY DEF Inputs, Used
<1>2. \A p \in prios : p \in Int
  BY DEF Inputs
<1>3. log = [log EXCEPT !.currlevel = DefaultPrio]
  BY DEF LogInv, Loggers
<1>4. ASSUME NEW p \in Int, NEW t \in Seq(C),
             Did([kind |-> "line", prio |-> p, text |-> t], LogLine(SetPriority(log, p), t))
      PROVE  LogInv(C)'
  <2> DEFINE k == SetPriority(log, p)
  <2>1. k = [log EXCEPT !.currlevel = p]
    BY DEF SetPriority
  <2> HIDE DEF k
  <2>2. Did([kind |-> "line", prio |-> p, text |-> t], LogLine(k, t))
    BY <1>4 DEF k
  <2>3. QED
    BY <1>1, <2>1, <2>2, LineStep
<1>5. CASE LogsLine(texts, prios)
  <2>1. PICK t \in texts :
          \/ Did([kind |-> "line", prio |-> DefaultPrio, text |-> t], LogLine(log, t))
          \/ \E p \in prios : Did([kind |-> "line", prio |-> p, text |-> t],
                                  LogLine(SetPriority(log, p), t))
    BY <1>5 DEF LogsLine
  <2>2. t \in Seq(C) /\ DefaultPrio \in Int
    BY DEF Inputs, DefaultPrio
  <2>3. CASE Did([kind |-> "line", prio |-> DefaultPrio, text |-> t], LogLine(log, t))
    BY <1>1, <1>3, <2>2, <2>3, LineStep
  <2>4. CASE \E p \in prios : Did([kind |-> "line", prio |-> p, text |-> t],
                                  LogLine(SetPriority(log, p), t))
    BY <1>2, <1>4, <2>2, <2>4
  <2>5. QED
    BY <2>1, <2>3, <2>4
<1>6. CASE LogsError(errors)
  <2>1. PICK e \in errors :
          Did([kind |-> "line", prio |-> Err, text |-> e[1] \o <<":", " ">> \o e[2]],
              LogError(log, e[1], e[2]))
    BY <1>6 DEF LogsError
  <2> DEFINE t == e[1] \o <<":", " ">> \o e[2]
  <2>2. t \in Seq(C)
    <3>1. e[1] \in Seq(C) /\ e[2] \in Seq(C)
      BY DEF Inputs
    <3>2. <<":", " ">> \in Seq(C)
      <4>1. \A x, y \in C : <<x, y>> \in Seq(C)
        OBVIOUS
      <4>2. QED
        BY <1>1, <4>1, Zenon
    <3>3. QED
      BY <3>1, <3>2, ConcatProperties
  <2>3. Did([kind |-> "line", prio |-> Err, text |-> t], LogLine(SetPriority(log, Err), t))
    BY <2>1 DEF LogError
  <2> HIDE DEF t
  <2>4. Err \in Int
    BY DEF Err
  <2>5. QED
    BY <1>4, <2>2, <2>3, <2>4
<1>7. CASE SetsMinlevel(prios)
  <2>1. PICK p \in prios, which \in SUBSET {"SYSLOG", "ECHO"} \ {{}} :
          Did([kind |-> "min", prio |-> p, which |-> which], SetMinlevel(log, p, which))
    BY <1>7 DEF SetsMinlevel
  <2>2. QED
    BY <1>2, <2>1, MinlevelStep
<1>8. CASE Enters(clocks)
  <2>1. PICK t \in clocks : Did([kind |-> "enter", time |-> t], SentryEnters(log, t))
    BY <1>8 DEF Enters
  <2>2. t \in Int
    BY DEF Inputs
  <2>3. QED
    BY <2>1, <2>2, EntersStep
<1>9. CASE Leaves
  BY <1>9, LeavesStep
<1>10. CASE UNCHANGED <<log, events>>
  BY <1>10 DEF LogInv
<1>11. QED
  BY <1>5, <1>6, <1>7, <1>8, <1>9, <1>10 DEF LogNext

\* The names of the priorities are different.
LEMMA NamesRight == \A p \in 0..7 : PrioFromString(PrioToString(p)) = <<p>>
<1> SUFFICES ASSUME NEW p \in 0..7 PROVE PrioFromString(PrioToString(p)) = <<p>>
  OBVIOUS
<1> DEFINE I(s) == {i \in 1..Len(PrioNames) : PrioNames[i] = s}
<1>1. Len(PrioNames) = 8
  BY DEF PrioNames
<1>2. \A i, j \in 1..8 : PrioNames[i] = PrioNames[j] => i = j
  BY DEF PrioNames
<1>3. p + 1 \in 1..8 /\ (p + 1) - 1 = p /\ p + 1 # 0
  OBVIOUS
<1>4. PrioToString(p) = PrioNames[p + 1]
  BY DEF PrioToString
<1>5. I(PrioNames[p + 1]) = {p + 1}
  BY <1>1, <1>2, <1>3
<1>6. Min({p + 1}) = p + 1
  BY DEF Min
<1>7. ASSUME NEW s, I(s) # {}, Min(I(s)) # 0 PROVE PrioFromString(s) = <<Min(I(s)) - 1>>
  BY <1>7 DEF PrioFromString, SelectInSeq
<1> HIDE DEF I
<1>8. I(PrioNames[p + 1]) # {} /\ Min(I(PrioNames[p + 1])) = p + 1
  BY <1>5, <1>6
<1>9. QED
  BY <1>3, <1>4, <1>7, <1>8

\* log_oneoff() logs a line with a logger of its own.
LEMMA OneoffRight ==
  ASSUME NEW C, "\n" \in C, NEW p \in Int, NEW t \in Seq(C)
  PROVE  LogOneoff(p, t).syslog = Allowed(Entries(t, p), DefaultPrio)
<1> DEFINE l == SetPriority(NewLogger(FALSE, 0), p)
           k == LogLine(l, t)
           es == Entries(t, p)
<1>1. /\ l \in Loggers(C) /\ l.buf = <<>> /\ l.currlevel = p /\ l.syslog = <<>>
      /\ l.minlevel_syslog = DefaultPrio
  <2> DEFINE m == NewLogger(FALSE, 0)
  <2>1. /\ m \in Loggers(C) /\ m.buf = <<>> /\ m.syslog = <<>> /\ m.minlevel_syslog = DefaultPrio
    BY DEF NewLogger, Loggers, DefaultPrio
  <2> HIDE DEF m
  <2>2. l = [m EXCEPT !.currlevel = p]
    BY DEF SetPriority, m
  <2>3. QED
    BY <2>1, <2>2 DEF Loggers
<1> HIDE DEF l
<1>2. k \in Loggers(C) /\ k.buf = <<>> /\ es \in Seq(Entry(C)) /\ Sent(l, k, es)
  <2>1. LineDone(C, l, t)
    BY <1>1, LineLogged
  <2>2. QED
    BY <1>1, <2>1, Zenon DEF LineDone
<1>3. LogOneoff(p, t) = FlushLog(k)
  BY DEF LogOneoff, l
<1> HIDE DEF k
<1>4. FlushLog(k) = k
  BY <1>2 DEF FlushLog
<1>5. k.syslog = <<>> \o Allowed(es, DefaultPrio)
  BY <1>1, <1>2 DEF Sent
<1>6. Allowed(es, DefaultPrio) \in Seq(Entry(C))
  <2> DEFINE e == [prio |-> p, text |-> Chop(t)]
  <2>1. e \in Entry(C)
    BY DEF Entry
  <2> HIDE DEF e, es
  <2>2. QED
    BY <1>2, <2>1, AllowedGrows
<1> HIDE DEF es
<1>7. QED
  BY <1>3, <1>4, <1>5, <1>6, ConcatEmptySeq DEF es

\* Whatever was logged and set, each line is logged once at each destination
\* that lets it through (syslog_writer::write(), ostreambuf::overflow()), in
\* pieces of the size of the buffer, for any texts and any buffer.
THEOREM LogIsRight ==
  ASSUME NEW C, NEW texts, NEW errors, NEW prios, NEW clocks,
         Inputs(C, texts, errors, prios, clocks)
  PROVE  LogSpec(texts, errors, prios, clocks) => []LogRight
<1>1. LogInit(clocks) => LogInv(C)
  BY LogStart DEF Inputs
<1>2. LogInv(C) /\ [LogNext(texts, errors, prios, clocks)]_<<log, events>> => LogInv(C)'
  BY LogInductive
<1>3. LogInv(C) => LogRight
  <2> SUFFICES ASSUME LogInv(C) PROVE LogRight
    OBVIOUS
  <2> DEFINE e == events[Len(events)]
  <2>1. e \in Events(C)
    BY EmptySeq DEF LogInv
  <2>2. e.kind = "line" => e.prio \in Int /\ e.text \in Seq(C)
    BY <2>1 DEF Events
  <2>3. e.kind = "line" => LogOneoff(e.prio, e.text).syslog = Allowed(Entries(e.text, e.prio), DefaultPrio)
    BY <2>2, OneoffRight DEF Inputs, Used
  <2>4. Stamp(log) = StampAt(events, Len(events) + 1)
    BY DEF LogInv, Settings
  <2>5. QED
    BY <2>3, <2>4, NamesRight DEF LogInv, LogRight
<1>4. QED
  BY <1>1, <1>2, <1>3, PTL DEF LogSpec

-----------------------------------------------------------------------------
(* Loops and places *)

\* G computes the value of a place from the values of the places of a lower
\* rank: then there are values for all of them.
Computes(G, D, V, r) ==
  \A p \in D : \A v, w \in [D -> V] :
    /\ G[p][v] \in V
    /\ (\A q \in D : r[q] < r[p] => v[q] = w[q]) => G[p][v] = G[p][w]

LEMMA Solved ==
  ASSUME NEW D, NEW V, V # {}, NEW r \in [D -> Nat], NEW M \in Nat, \A p \in D : r[p] < M,
         NEW G, Computes(G, D, V, r)
  PROVE  \E f \in [D -> V] : \A p \in D : f[p] = G[p][f]
<1> DEFINE Below(f, n) == \A p \in D : r[p] < n => f[p] = G[p][f]
           S == {n \in Nat : \E f \in [D -> V] : Below(f, n)}
<1>1. 0 \in S
  <2>1. PICK x \in V : TRUE
    OBVIOUS
  <2> DEFINE f == [p \in D |-> x]
  <2>2. f \in [D -> V] /\ Below(f, 0)
    BY <2>1
  <2>3. QED
    BY <2>2
<1>2. ASSUME NEW n \in Nat, n \in S PROVE n + 1 \in S
  <2>1. PICK f \in [D -> V] : Below(f, n)
    BY <1>2
  <2> DEFINE g == [p \in D |-> IF r[p] = n THEN G[p][f] ELSE f[p]]
  <2>2. g \in [D -> V]
    BY <2>1 DEF Computes
  <2>3. \A p \in D : r[p] < n => g[p] = f[p]
    OBVIOUS
  <2>4. ASSUME NEW p \in D, r[p] < n + 1 PROVE g[p] = G[p][g]
    <3> HIDE DEF g
    <3>1. \A q \in D : r[q] < r[p] => f[q] = g[q]
      BY <2>3, <2>4
    <3>2. G[p][f] = G[p][g]
      BY <2>1, <2>2, <3>1 DEF Computes
    <3>3. r[p] = n => g[p] = G[p][f]
      BY DEF g
    <3>4. r[p] < n => g[p] = G[p][f]
      BY <2>1, <2>3
    <3>5. QED
      BY <2>4, <3>2, <3>3, <3>4
  <2> HIDE DEF g
  <2>5. Below(g, n + 1)
    BY <2>4
  <2> HIDE DEF Below
  <2>6. QED
    BY <2>2, <2>5
<1>3. M \in S
  <2> HIDE DEF S
  <2>1. QED
    BY <1>1, <1>2, SetInduction
<1>4. QED
  BY <1>3

\* The least place of a set, or one past the end.
FirstPlace(n, I) == LET f == IF I # {} THEN Min(I) ELSE 0 IN IF f = 0 THEN n + 1 ELSE f

LEMMA FirstIs ==
  ASSUME NEW n \in Nat, NEW k \in Nat, 1 <= k, k <= n + 1, NEW I, I \subseteq k..n
  PROVE  /\ FirstPlace(n, I) \in k..n + 1
         /\ \A i \in I : FirstPlace(n, I) <= i
         /\ FirstPlace(n, I) <= n => FirstPlace(n, I) \in I
<1>1. CASE I = {}
  BY <1>1 DEF FirstPlace
<1>2. CASE I # {}
  <2>1. I \subseteq Nat
    OBVIOUS
  <2>2. \E x \in I : \A y \in I : x <= y
    BY <1>2, <2>1, LeastNatural
  <2>3. Min(I) \in I /\ \A y \in I : Min(I) <= y
    BY <2>2 DEF Min
  <2> DEFINE m == Min(I)
  <2> HIDE DEF m
  <2>4. m \in k..n /\ m # 0
    <3>1. m \in I
      BY <2>3 DEF m
    <3>2. QED
      BY <3>1
  <2>5. FirstPlace(n, I) = Min(I)
    BY <1>2, <2>4 DEF FirstPlace, m
  <2>6. QED
    BY <2>3, <2>4, <2>5 DEF m
<1>3. QED
  BY <1>1, <1>2

\* There is only one such place.
LEMMA FirstIsOnly ==
  ASSUME NEW n \in Nat, NEW k \in Nat, 1 <= k, k <= n + 1, NEW I, I \subseteq k..n,
         NEW x \in k..n + 1, x <= n => x \in I, \A i \in I : x <= i
  PROVE  FirstPlace(n, I) = x
<1> DEFINE f == FirstPlace(n, I)
<1>1. f \in k..n + 1 /\ (\A i \in I : f <= i) /\ (f <= n => f \in I)
  BY FirstIs
<1> HIDE DEF f
<1>2. f <= n => x <= f
  BY <1>1
<1>3. x <= n => f <= x
  BY <1>1
<1>4. f = x
  BY <1>1, <1>2, <1>3
<1>5. QED
  BY <1>4 DEF f

-----------------------------------------------------------------------------
(* Sets of numbers in ascending order *)

Enumerates(c, S) ==
  /\ c \in Seq(Int)
  /\ \A i \in 1..Len(c) : c[i] \in S
  /\ \A x \in S : \E i \in 1..Len(c) : c[i] = x
  /\ \A i, j \in 1..Len(c) : i < j => c[i] < c[j]

LEMMA EnumerationExists ==
  ASSUME NEW S, NEW n \in Nat, S \subseteq 0..n
  PROVE  \E c : Enumerates(c, S)
<1> DEFINE Part(m) == {x \in S : x < m}
           T == {m \in Nat : \E c : Enumerates(c, Part(m))}
<1>0. \A x \in S : x \in Nat /\ x < n + 1
  OBVIOUS
<1>1. 0 \in T
  <2>1. Part(0) = {}
    <3>1. \A x \in S : ~ (x < 0)
      BY <1>0
    <3>2. QED
      BY <3>1
  <2>2. Enumerates(<<>>, {})
    BY DEF Enumerates
  <2>3. QED
    BY <2>1, <2>2
<1>2. ASSUME NEW m \in Nat, m \in T PROVE m + 1 \in T
  <2>1. PICK c : Enumerates(c, Part(m))
    BY <1>2
  <2>2. c \in Seq(Int) /\ Len(c) \in Nat /\ \A i \in 1..Len(c) : c[i] \in Int
    BY <2>1, ElementOfSeq, LenProperties DEF Enumerates
  <2>3. CASE m \notin S
    <3>1. \A x \in S : x < m + 1 <=> x < m
      BY <1>0, <2>3
    <3>2. Part(m + 1) = Part(m)
      BY <3>1
    <3> HIDE DEF Part
    <3>3. QED
      BY <2>1, <3>2
  <2>4. CASE m \in S
    <3> DEFINE d == Append(c, m)
               N == Len(c)
    <3>1. /\ d \in Seq(Int) /\ Len(d) = N + 1 /\ d[N + 1] = m
          /\ \A i \in 1..N : d[i] = c[i]
      BY <2>2, AppendProperties
    <3>2. \A x \in Part(m + 1) : x = m \/ x \in Part(m)
      OBVIOUS
    <3>3. \A x \in Part(m) : x \in Part(m + 1) /\ x < m
      OBVIOUS
    <3>4. m \in Part(m + 1)
      BY <2>4
    <3> HIDE DEF d, Part
    <3>5. \A i \in 1..N + 1 : i = N + 1 \/ i \in 1..N
      BY <2>2
    <3>6. \A i \in 1..N + 1 : d[i] \in Part(m + 1)
      BY <2>1, <3>1, <3>3, <3>4, <3>5 DEF Enumerates
    <3>7. \A x \in Part(m + 1) : \E i \in 1..N + 1 : d[i] = x
      <4> SUFFICES ASSUME NEW x \in Part(m + 1) PROVE \E i \in 1..N + 1 : d[i] = x
        OBVIOUS
      <4>1. CASE x = m
        BY <2>2, <3>1, <4>1
      <4>2. CASE x \in Part(m)
        <5>1. PICK i \in 1..N : c[i] = x
          BY <2>1, <4>2 DEF Enumerates
        <5>2. i \in 1..N + 1 /\ d[i] = x
          BY <2>2, <3>1, <5>1
        <5>3. QED
          BY <5>2
      <4>3. QED
        BY <3>2, <4>1, <4>2
    <3>8. \A i, j \in 1..N + 1 : i < j => d[i] < d[j]
      <4> SUFFICES ASSUME NEW i \in 1..N + 1, NEW j \in 1..N + 1, i < j PROVE d[i] < d[j]
        OBVIOUS
      <4>1. i \in 1..N /\ d[i] = c[i] /\ c[i] < m
        <5>1. i \in 1..N
          BY <2>2
        <5>2. QED
          BY <2>1, <3>1, <3>3, <5>1 DEF Enumerates
      <4>2. CASE j = N + 1
        BY <3>1, <4>1, <4>2
      <4>3. CASE j \in 1..N
        BY <2>1, <3>1, <4>1, <4>3 DEF Enumerates
      <4>4. QED
        BY <3>5, <4>2, <4>3
    <3>9. Enumerates(d, Part(m + 1))
      BY <3>1, <3>6, <3>7, <3>8 DEF Enumerates
    <3>10. QED
      BY <3>9
  <2>5. QED
    BY <2>3, <2>4
<1>3. n + 1 \in T
  <2> HIDE DEF T
  <2>1. QED
    BY <1>1, <1>2, SetInduction
<1>4. Part(n + 1) = S
  BY <1>0
<1>5. QED
  BY <1>3, <1>4

\* Nth() delivers them in this order.
LEMMA EnumerationIs ==
  ASSUME NEW c, NEW S, Enumerates(c, S)
  PROVE  /\ IsFiniteSet(S) /\ Cardinality(S) = Len(c)
         /\ \A i \in 1..Len(c) : Nth(S, i) = c[i]
<1> DEFINE N == Len(c)
           First(k) == {c[j] : j \in 1..k}
           Lower(x) == {j \in S : j < x}
<1>1. c \in Seq(Int) /\ N \in Nat /\ \A i \in 1..N : c[i] \in Int
  BY ElementOfSeq, LenProperties DEF Enumerates
<1>2. ASSUME NEW k \in 0..N PROVE IsFiniteSet(First(k)) /\ Cardinality(First(k)) = k
  <2> DEFINE f == [j \in 1..k |-> c[j]]
  <2>1. k \in Nat /\ 1..k \subseteq 1..N
    BY <1>1
  <2>2. \A i, j \in 1..k : c[i] = c[j] => i = j
    <3> SUFFICES ASSUME NEW i \in 1..k, NEW j \in 1..k, i # j PROVE c[i] # c[j]
      OBVIOUS
    <3>1. i \in 1..N /\ j \in 1..N /\ i \in Int /\ j \in Int
      BY <2>1
    <3>2. i < j \/ j < i
      BY <3>1
    <3>3. c[i] < c[j] \/ c[j] < c[i]
      BY <3>1, <3>2 DEF Enumerates
    <3>4. QED
      BY <1>1, <3>1, <3>3
  <2>3. f \in Bijection(1..k, First(k))
    <3>1. f \in [1..k -> First(k)]
      OBVIOUS
    <3>2. \A i, j \in 1..k : f[i] = f[j] => i = j
      BY <2>2
    <3>3. \A x \in First(k) : \E i \in 1..k : f[i] = x
      OBVIOUS
    <3> HIDE DEF f, First
    <3>4. QED
      BY <3>1, <3>2, <3>3, Zenon DEF Bijection, Injection, Surjection, IsInjective
  <2>4. ExistsBijection(1..k, First(k))
    BY <2>3 DEF ExistsBijection
  <2>5. IsFiniteSet(1..k) /\ Cardinality(1..k) = k
    BY <2>1, FS_Interval
  <2> HIDE DEF First
  <2>6. QED
    BY <2>4, <2>5, FS_Bijection
<1>3. First(N) = S
  BY DEF Enumerates
<1>4. ASSUME NEW i \in 1..N PROVE Lower(c[i]) = First(i - 1)
  <2>1. ASSUME NEW x \in Lower(c[i]) PROVE x \in First(i - 1)
    <3>1. PICK j \in 1..N : c[j] = x
      BY <2>1 DEF Enumerates
    <3>2. c[j] < c[i] /\ c[i] \in Int /\ c[j] \in Int
      BY <1>1, <2>1, <3>1
    <3>3. ~ (i < j) /\ i # j
      BY <1>4, <3>2 DEF Enumerates
    <3>4. j \in 1..i - 1
      BY <1>1, <3>3
    <3>5. QED
      BY <3>1, <3>4
  <2>2. ASSUME NEW x \in First(i - 1) PROVE x \in Lower(c[i])
    <3>1. PICK j \in 1..i - 1 : c[j] = x
      BY <2>2
    <3>2. j \in 1..N /\ j < i
      BY <1>1
    <3>3. QED
      BY <3>1, <3>2 DEF Enumerates
  <2>3. QED
    BY <2>1, <2>2
<1> HIDE DEF First
<1>5. ASSUME NEW i \in 1..N PROVE Cardinality(Lower(c[i])) = i - 1
  <2>1. i - 1 \in 0..N
    BY <1>1
  <2>2. QED
    BY <1>2, <1>4, <2>1
<1>6. ASSUME NEW i \in 1..N PROVE Nth(S, i) = c[i]
  <2>1. c[i] \in S /\ Cardinality(Lower(c[i])) = i - 1
    BY <1>5 DEF Enumerates
  <2>2. ASSUME NEW x \in S, Cardinality(Lower(x)) = i - 1 PROVE x = c[i]
    <3>1. PICK j \in 1..N : c[j] = x
      BY DEF Enumerates
    <3>2. Cardinality(Lower(c[j])) = j - 1
      BY <1>5
    <3>3. j - 1 = i - 1
      BY <2>2, <3>1, <3>2
    <3>4. j = i
      BY <3>3
    <3>5. QED
      BY <3>1, <3>4
  <2>3. Nth(S, i) = CHOOSE x \in S : Cardinality(Lower(x)) = i - 1
    BY DEF Nth
  <2> HIDE DEF Lower
  <2>4. QED
    BY <2>1, <2>2, <2>3
<1>7. N \in 0..N
  BY <1>1
<1>8. QED
  BY <1>2, <1>3, <1>6, <1>7

-----------------------------------------------------------------------------
(* Texts cut at separators (boost::algorithm::split(), util::split()) *)

\* c are the places at which SplitAny() cuts, and both ends.
CutsOf(c, t, seps) ==
  /\ c \in Seq(Int) /\ Len(c) >= 2 /\ c[1] = 0 /\ c[Len(c)] = Len(t) + 1
  /\ \A i, j \in 1..Len(c) : i < j => c[i] < c[j]
  /\ \A i \in 2..Len(c) - 1 : t[c[i]] \in seps
  /\ \A i \in 1..Len(c) - 1 : \A k \in c[i] + 1..c[i + 1] - 1 : t[k] \notin seps

PartAt(t, c, i) == SubSeq(t, c[i] + 1, c[i + 1] - 1)
Cuts(t, seps) == {0, Len(t) + 1} \cup {k \in DOMAIN t : t[k] \in seps}

\* Where they are.
LEMMA CutPlaces ==
  ASSUME NEW C, NEW t \in Seq(C), NEW seps, NEW c, CutsOf(c, t, seps)
  PROVE  /\ Len(c) \in Nat /\ Len(t) \in Nat
         /\ \A i \in 1..Len(c) : c[i] \in 0..Len(t) + 1
         /\ \A i \in 2..Len(c) - 1 : c[i] \in 1..Len(t)
         /\ \A i \in 1..Len(c) - 1 : c[i] < c[i + 1] /\ c[i] \in 0..Len(t) /\ c[i + 1] \in 1..Len(t) + 1
<1>1. c \in Seq(Int) /\ Len(c) \in Nat /\ Len(t) \in Nat /\ \A i \in 1..Len(c) : c[i] \in Int
  BY ElementOfSeq, LenProperties DEF CutsOf
<1>2. 1 \in 1..Len(c) /\ Len(c) \in 1..Len(c)
  BY <1>1 DEF CutsOf
<1> DEFINE n == Len(t)
           N == Len(c)
<1>3. \A i \in 1..N : /\ c[i] \in 0..n + 1
                      /\ i # 1 => c[i] > 0
                      /\ i # N => c[i] < n + 1
  <2> SUFFICES ASSUME NEW i \in 1..N PROVE /\ c[i] \in 0..n + 1
                                           /\ i # 1 => c[i] > 0
                                           /\ i # N => c[i] < n + 1
    OBVIOUS
  <2>1. i # 1 => c[1] < c[i]
    BY <1>1, <1>2 DEF CutsOf
  <2>2. i # Len(c) => c[i] < c[Len(c)]
    BY <1>1, <1>2 DEF CutsOf
  <2>3. c[1] = 0 /\ c[Len(c)] = Len(t) + 1
    BY DEF CutsOf
  <2>4. c[i] \in Int
    BY <1>1
  <2>5. QED
    BY <1>1, <2>1, <2>2, <2>3, <2>4
<1>4. ASSUME NEW i \in 1..Len(c) - 1
      PROVE  /\ i \in 1..Len(c) /\ i + 1 \in 1..Len(c) /\ i < i + 1 /\ i # Len(c) /\ i + 1 # 1
             /\ c[i] < c[i + 1]
  <2>1. i \in 1..Len(c) /\ i + 1 \in 1..Len(c) /\ i < i + 1 /\ i # Len(c) /\ i + 1 # 1
    BY <1>1
  <2>2. QED
    BY <2>1 DEF CutsOf
<1>5. \A i \in 2..Len(c) - 1 : i \in 1..Len(c) /\ i # 1 /\ i # Len(c)
  BY <1>1
<1>6. ASSUME NEW i \in 2..Len(c) - 1 PROVE c[i] \in 1..Len(t)
  <2>1. c[i] \in 0..n + 1 /\ c[i] > 0 /\ c[i] < n + 1
    BY <1>3, <1>5
  <2>2. QED
    BY <1>1, <2>1
<1>7. ASSUME NEW i \in 1..Len(c) - 1 PROVE c[i] \in 0..Len(t) /\ c[i + 1] \in 1..Len(t) + 1
  <2>1. i \in 1..N /\ i + 1 \in 1..N /\ i # N /\ i + 1 # 1
    BY <1>4
  <2>2. c[i] \in 0..n + 1 /\ c[i] < n + 1
    BY <1>3, <2>1
  <2>3. c[i + 1] \in 0..n + 1 /\ c[i + 1] > 0
    BY <1>3, <2>1
  <2>4. QED
    BY <1>1, <2>2, <2>3
<1>8. \A i \in 1..Len(c) : c[i] \in 0..Len(t) + 1
  BY <1>3
<1>9. \A i \in 1..Len(c) - 1 : c[i] < c[i + 1]
  BY <1>4
<1> QED
  BY <1>1, <1>6, <1>7, <1>8, <1>9

LEMMA CutsEnumerate ==
  ASSUME NEW C, NEW t \in Seq(C), NEW seps, NEW c
  PROVE  CutsOf(c, t, seps) <=> Enumerates(c, Cuts(t, seps))
<1> DEFINE S == Cuts(t, seps)
           n == Len(t)
<1>0. n \in Nat /\ DOMAIN t = 1..n
  BY LenProperties
<1>1. S = {0, n + 1} \cup {k \in 1..n : t[k] \in seps}
  BY <1>0 DEF Cuts
<1> HIDE DEF S
<1>2. ASSUME CutsOf(c, t, seps) PROVE Enumerates(c, S)
  <2> DEFINE N == Len(c)
  <2>1. /\ N \in Nat /\ N >= 2 /\ c[1] = 0 /\ c[N] = n + 1 /\ c \in Seq(Int)
        /\ \A i \in 1..N : c[i] \in 0..n + 1
    BY <1>2, CutPlaces DEF CutsOf
  <2>2. ASSUME NEW i \in 1..N PROVE c[i] \in S
    <3>1. CASE i = 1
      BY <1>1, <2>1, <3>1
    <3>2. CASE i = N
      BY <1>1, <2>1, <3>2
    <3>3. CASE i # 1 /\ i # N
      <4>1. i \in 2..N - 1
        BY <2>1, <3>3
      <4>2. c[i] \in 1..n
        BY <1>2, <4>1, CutPlaces
      <4>3. t[c[i]] \in seps
        BY <1>2, <4>1 DEF CutsOf
      <4>4. QED
        BY <1>1, <4>2, <4>3
    <3>4. QED
      BY <3>1, <3>2, <3>3
  <2>3. ASSUME NEW x \in S, \A i \in 1..N : c[i] # x PROVE FALSE
    <3> DEFINE T == {i \in 1..N : c[i] < x}
    <3>1. x # 0 /\ x # n + 1 /\ x \in 1..n /\ t[x] \in seps
      <4>1. 1 \in 1..N /\ N \in 1..N
        BY <2>1
      <4>2. x # 0 /\ x # n + 1
        BY <2>1, <2>3, <4>1
      <4>3. QED
        BY <1>1, <2>3, <4>2
    <3>2. 1 \in T /\ T \subseteq 1..N
      BY <2>1, <3>1
    <3>3. Max(T) \in T /\ \A y \in T : y <= Max(T)
      <4> HIDE DEF T
      <4>1. T # {}
        BY <3>2
      <4>2. QED
        BY <2>1, <3>2, <4>1, MaxOfSome
    <3> DEFINE k == Max(T)
    <3> HIDE DEF k
    <3>4. k \in 1..N /\ c[k] < x /\ \A y \in T : y <= k
      BY <3>3 DEF k
    <3>5. k # N
      BY <1>0, <2>1, <3>1, <3>4
    <3>6. k \in 1..N - 1 /\ k + 1 \in 1..N /\ ~ (k + 1 <= k)
      BY <2>1, <3>4, <3>5
    <3>7. ~ (c[k + 1] < x)
      BY <3>4, <3>6
    <3>8. c[k + 1] # x /\ c[k + 1] \in 0..n + 1 /\ c[k] \in 0..n + 1
      BY <2>1, <2>3, <3>4, <3>6
    <3>9. x \in c[k] + 1..c[k + 1] - 1
      BY <1>0, <3>1, <3>4, <3>7, <3>8
    <3>10. t[x] \notin seps
      BY <1>2, <3>6, <3>9 DEF CutsOf
    <3>11. QED
      BY <3>1, <3>10
  <2>4. QED
    BY <1>2, <2>1, <2>2, <2>3 DEF Enumerates, CutsOf
<1>3. ASSUME Enumerates(c, S) PROVE CutsOf(c, t, seps)
  <2> DEFINE N == Len(c)
  <2>1. c \in Seq(Int) /\ N \in Nat /\ \A i \in 1..N : c[i] \in Int /\ c[i] \in S
    BY <1>3, ElementOfSeq, LenProperties DEF Enumerates
  <2>2. \A i \in 1..N : c[i] \in 0..n + 1
    BY <1>0, <1>1, <2>1
  <2>3. 0 \in S /\ n + 1 \in S
    BY <1>1
  <2>4. PICK a \in 1..N : c[a] = 0
    BY <1>3, <2>3 DEF Enumerates
  <2>5. PICK b \in 1..N : c[b] = n + 1
    BY <1>3, <2>3 DEF Enumerates
  <2>6. 1 \in 1..N /\ N \in 1..N /\ a \in Int /\ b \in Int
    BY <2>1, <2>4, <2>5
  <2>7. a = 1
    <3>1. 1 < a => c[1] < c[a]
      BY <1>3, <2>4, <2>6 DEF Enumerates
    <3>2. c[1] \in 0..n + 1
      BY <2>2, <2>6
    <3>3. QED
      BY <1>0, <2>4, <2>6, <3>1, <3>2
  <2>8. b = N
    <3>1. b < N => c[b] < c[N]
      BY <1>3, <2>5, <2>6 DEF Enumerates
    <3>2. c[N] \in 0..n + 1
      BY <2>2, <2>6
    <3>3. QED
      BY <1>0, <2>1, <2>5, <2>6, <3>1, <3>2
  <2>9. N >= 2
    BY <1>0, <2>1, <2>4, <2>5, <2>7, <2>8
  <2>10. ASSUME NEW i \in 2..N - 1 PROVE t[c[i]] \in seps
    <3>1. i \in 1..N /\ 1 < i /\ i < N
      BY <2>1
    <3>2. c[1] < c[i] /\ c[i] < c[N] /\ c[i] \in S
      BY <1>3, <2>1, <2>6, <3>1 DEF Enumerates
    <3>3. c[i] # 0 /\ c[i] # n + 1
      BY <1>0, <2>4, <2>5, <2>7, <2>8, <3>2
    <3>4. QED
      BY <1>1, <3>2, <3>3
  <2>11. ASSUME NEW i \in 1..N - 1, NEW k \in c[i] + 1..c[i + 1] - 1, t[k] \in seps PROVE FALSE
    <3>1. i \in 1..N /\ i + 1 \in 1..N /\ i \in Int
      BY <2>1
    <3>2. c[i] \in 0..n + 1 /\ c[i + 1] \in 0..n + 1
      BY <2>2, <3>1
    <3>3. k \in 1..n /\ c[i] < k /\ k < c[i + 1]
      BY <1>0, <3>2
    <3>4. k \in S
      BY <1>1, <2>11, <3>3
    <3>5. PICK j \in 1..N : c[j] = k
      BY <1>3, <3>4 DEF Enumerates
    <3>6. j <= i \/ i + 1 <= j
      BY <3>1
    <3>7. j < i => c[j] < c[i]
      BY <1>3, <3>1 DEF Enumerates
    <3>8. i + 1 < j => c[i + 1] < c[j]
      BY <1>3, <3>1 DEF Enumerates
    <3>9. QED
      BY <3>1, <3>2, <3>3, <3>5, <3>6, <3>7, <3>8
  <2>12. \A i, j \in 1..N : i < j => c[i] < c[j]
    BY <1>3 DEF Enumerates
  <2>13. QED
    BY <2>1, <2>4, <2>5, <2>7, <2>8, <2>9, <2>10, <2>11, <2>12 DEF CutsOf
<1>4. QED
  BY <1>2, <1>3 DEF S

\* A text is cut there, and nowhere else.
LEMMA SplitAnyIs ==
  ASSUME NEW C, NEW t \in Seq(C), NEW seps, NEW c, CutsOf(c, t, seps)
  PROVE  /\ SplitAny(t, seps) = [i \in 1..Len(c) - 1 |-> PartAt(t, c, i)]
         /\ SplitAny(t, seps) \in Seq(Seq(C)) /\ Len(SplitAny(t, seps)) = Len(c) - 1
         /\ \A i \in 1..Len(c) - 1 : PartAt(t, c, i) \in Seq(C)
         /\ \A i \in 1..Len(c) - 1 : Len(PartAt(t, c, i)) = c[i + 1] - c[i] - 1
         /\ \A i \in 1..Len(c) - 1 : \A k \in 1..c[i + 1] - c[i] - 1 : PartAt(t, c, i)[k] = t[c[i] + k]
<1> DEFINE S == Cuts(t, seps)
           N == Len(c)
<1>1. Enumerates(c, S)
  BY CutsEnumerate
<1>2. Cardinality(S) = N /\ \A i \in 1..N : Nth(S, i) = c[i]
  BY <1>1, EnumerationIs
<1>3. N \in Nat /\ \A i \in 1..N - 1 : i \in 1..N /\ i + 1 \in 1..N
  <2>1. N \in Nat
    BY CutPlaces
  <2>2. QED
    BY <2>1
<1>4. SplitAny(t, seps) = [i \in 1..Cardinality(S) - 1 |-> SubSeq(t, Nth(S, i) + 1, Nth(S, i + 1) - 1)]
  BY DEF SplitAny, Cuts
<1>5. SplitAny(t, seps) = [i \in 1..N - 1 |-> PartAt(t, c, i)]
  <2> HIDE DEF S
  <2>1. \A i \in 1..N - 1 : SubSeq(t, Nth(S, i) + 1, Nth(S, i + 1) - 1) = PartAt(t, c, i)
    BY <1>2, <1>3 DEF PartAt
  <2>2. QED
    BY <1>2, <1>4, <2>1
<1>6. ASSUME NEW i \in 1..N - 1
      PROVE  /\ PartAt(t, c, i) \in Seq(C) /\ Len(PartAt(t, c, i)) = c[i + 1] - c[i] - 1
             /\ \A k \in 1..c[i + 1] - c[i] - 1 : PartAt(t, c, i)[k] = t[c[i] + k]
  <2> DEFINE a == c[i] + 1
             b == c[i + 1] - 1
  <2>1. a \in Int /\ b \in Int /\ a <= b + 1 /\ 1 <= a /\ b <= Len(t) /\ Len(t) \in Nat
        /\ c[i] \in Int /\ c[i + 1] \in Int
    BY CutPlaces
  <2>2. \A k \in a..b : t[k] \in C
    <3> HIDE DEF a, b
    <3>1. \A k \in a..b : k \in 1..Len(t)
      BY <2>1
    <3>2. QED
      BY <3>1, ElementOfSeq
  <2> DEFINE p == SubSeq(t, a, b)
  <2>3. /\ p \in Seq(C) /\ Len(p) = (IF a <= b THEN b - a + 1 ELSE 0)
        /\ \A k \in 1..b - a + 1 : p[k] = t[a + k - 1]
    <3> HIDE DEF a, b
    <3>1. QED
      BY <2>1, <2>2, SubSeqProperties
  <2>4. PartAt(t, c, i) = p
    BY DEF PartAt
  <2> HIDE DEF p
  <2>5. Len(p) = c[i + 1] - c[i] - 1
    BY <2>1, <2>3
  <2>6. ASSUME NEW k \in 1..c[i + 1] - c[i] - 1 PROVE k \in 1..b - a + 1 /\ a + k - 1 = c[i] + k
    <3>1. k \in Int /\ 1 <= k /\ k <= c[i + 1] - c[i] - 1
      BY <2>1
    <3>2. b - a + 1 = c[i + 1] - c[i] - 1 /\ a + k - 1 = c[i] + k
      <4>1. \A x, y \in Int : (y - 1) - (x + 1) + 1 = y - x - 1 /\ (x + 1) + k - 1 = x + k
        BY <3>1
      <4>2. QED
        BY <2>1, <4>1
    <3>3. QED
      BY <2>1, <3>1, <3>2
  <2>7. QED
    BY <2>3, <2>4, <2>5, <2>6
<1>7. SplitAny(t, seps) \in Seq(Seq(C)) /\ Len(SplitAny(t, seps)) = N - 1
  <2> DEFINE T == Seq(C)
             f == [i \in 1..N - 1 |-> PartAt(t, c, i)]
  <2>1. N - 1 \in Nat
    BY <1>3 DEF CutsOf
  <2>2. \A i \in 1..N - 1 : PartAt(t, c, i) \in T
    BY <1>6
  <2> HIDE DEF T
  <2>3. f \in Seq(T) /\ Len(f) = N - 1
    BY <2>1, <2>2
  <2>4. QED
    BY <1>5, <2>3 DEF T
<1>8. QED
  BY <1>5, <1>6, <1>7

LEMMA CutsExist ==
  ASSUME NEW C, NEW t \in Seq(C), NEW seps
  PROVE  \E c : CutsOf(c, t, seps)
<1>1. Len(t) \in Nat /\ DOMAIN t = 1..Len(t)
  BY LenProperties
<1>2. Cuts(t, seps) \subseteq 0..Len(t) + 1 /\ Len(t) + 1 \in Nat
  BY <1>1 DEF Cuts
<1>3. PICK c : Enumerates(c, Cuts(t, seps))
  BY <1>2, EnumerationExists
<1>4. QED
  BY <1>3, CutsEnumerate

-----------------------------------------------------------------------------
(* The loop over getline() *)

\* What getline() takes at place p.
LEMMA GetlineIs ==
  ASSUME NEW C, NEW t \in Seq(C), NEW p \in 0..Len(t) + 1, NEW m \in Nat \ {0}
  PROVE  LET g == Getline(t, p, m)
         IN /\ g.s \in Seq(C) /\ g.ok \in BOOLEAN
            /\ g.ok => g.pos \in 0..Len(t) + 1 /\ p < g.pos
<1> DEFINE n == Len(t)
           I == {i \in p + 1..n : t[i] = "\n"}
           stop == FirstPlace(n, I)
           g == Getline(t, p, m)
<1>1. n \in Nat /\ p \in Nat /\ p <= n + 1 /\ \A i \in 1..n : t[i] \in C
  BY LenProperties, ElementOfSeq
<1>2. stop = FirstFrom(t, p + 1, LAMBDA c : c = "\n")
  BY DEF FirstFrom, SelectInSubSeq, FirstPlace
<1>3. stop \in Nat /\ stop <= n + 1 /\ (p <= n => p < stop) /\ (p = n + 1 => stop = n + 1)
  <2>1. CASE p <= n
    <3>1. stop \in p + 1..n + 1
      <4>1. I \subseteq p + 1..n /\ p + 1 \in Nat /\ 1 <= p + 1 /\ p + 1 <= n + 1
        BY <1>1, <2>1
      <4> HIDE DEF I
      <4>2. QED
        BY <1>1, <4>1, FirstIs
    <3> HIDE DEF stop
    <3>2. QED
      BY <1>1, <3>1
  <2>2. CASE p = n + 1
    <3>1. I = {}
      BY <1>1, <2>2
    <3> HIDE DEF I
    <3>2. stop = n + 1
      BY <3>1 DEF FirstPlace
    <3> HIDE DEF stop
    <3>3. QED
      BY <1>1, <2>2, <3>2
  <2>3. QED
    BY <1>1, <2>1, <2>2
<1>4. g = IF stop > p + m THEN [s |-> SubSeq(t, p + 1, p + m), pos |-> p + m, ok |-> TRUE]
          ELSE [s |-> SubSeq(t, p + 1, stop - 1), pos |-> stop, ok |-> stop <= n]
  BY <1>2 DEF Getline
<1> HIDE DEF stop, g
<1>5. \A b \in Int : b <= n => SubSeq(t, p + 1, b) \in Seq(C)
  <2> SUFFICES ASSUME NEW b \in Int, b <= n PROVE SubSeq(t, p + 1, b) \in Seq(C)
    OBVIOUS
  <2>1. \A i \in p + 1..b : i \in 1..n
    BY <1>1
  <2>2. \A i \in p + 1..b : t[i] \in C
    BY <1>1, <2>1
  <2>3. p + 1 \in Int
    BY <1>1
  <2>4. QED
    BY <2>2, <2>3, SubSeqProperties
<1>6. CASE stop > p + m
  <2>1. g.s = SubSeq(t, p + 1, p + m) /\ g.pos = p + m /\ g.ok = TRUE
    BY <1>4, <1>6
  <2>2. p + m <= n /\ p + m \in Int /\ p < p + m
    BY <1>1, <1>3, <1>6
  <2>3. g.ok \in BOOLEAN
    BY <2>1
  <2>4. SubSeq(t, p + 1, p + m) \in Seq(C)
    BY <1>5, <2>2
  <2>5. p + m \in 0..n + 1
    BY <1>1, <2>2
  <2>6. QED
    BY <2>1, <2>2, <2>3, <2>4, <2>5 DEF g
<1>7. CASE ~ (stop > p + m)
  <2>1. g.s = SubSeq(t, p + 1, stop - 1) /\ g.pos = stop /\ g.ok = (stop <= n)
    BY <1>4, <1>7
  <2>2. stop - 1 <= n /\ stop - 1 \in Int
    BY <1>1, <1>3
  <2>3. SubSeq(t, p + 1, stop - 1) \in Seq(C)
    BY <1>5, <2>2
  <2>4. stop <= n => p < stop
    <3>1. p <= n \/ p = n + 1
      BY <1>1
    <3>2. QED
      BY <1>1, <1>3, <3>1
  <2>5. stop \in 0..n + 1
    BY <1>1, <1>3
  <2>6. g.ok \in BOOLEAN /\ (g.ok => stop <= n)
    <3>1. (stop <= n) \in BOOLEAN
      OBVIOUS
    <3>2. QED
      BY <2>1, <3>1
  <2>7. g.ok => p < stop
    BY <2>4, <2>6
  <2>8. QED
    BY <2>1, <2>3, <2>5, <2>6, <2>7 DEF g
<1>8. QED
  BY <1>6, <1>7

\* The lines that the loop sees from p on are the values of a function.
LinesAt(L, t, m, p) ==
  L[p] = LET g == Getline(t, p, m) IN IF g.ok THEN <<g.s>> \o L[g.pos] ELSE <<>>

LoopOf(L, C, t, m) ==
  /\ L \in [0..Len(t) + 1 -> Seq(Seq(C))]
  /\ \A p \in 0..Len(t) + 1 : LinesAt(L, t, m, p) /\ LinesFrom(t, p, m) = L[p]

LEMMA LinesSolved ==
  ASSUME NEW C, NEW t \in Seq(C), NEW m \in Nat \ {0}
  PROVE  \E L : LoopOf(L, C, t, m)
<1> DEFINE n == Len(t)
           D == 0..n + 1
           T == Seq(C)
           V == Seq(T)
           Body(p, v) == IF Getline(t, p, m).ok
                         THEN <<Getline(t, p, m).s>> \o v[Getline(t, p, m).pos] ELSE <<>>
           G == [p \in D |-> [v \in [D -> V] |-> Body(p, v)]]
           r == [p \in D |-> n + 1 - p]
<1>1. n \in Nat
  BY LenProperties
<1>2. r \in [D -> Nat] /\ n + 2 \in Nat /\ \A p \in D : r[p] < n + 2
  BY <1>1
<1>3. V # {} /\ <<>> \in V
  <2> HIDE DEF T
  <2>1. QED
    BY EmptySeq
<1>4. ASSUME NEW p \in D, NEW v \in [D -> V], NEW w \in [D -> V]
      PROVE  /\ Body(p, v) \in V
             /\ (\A q \in D : n + 1 - q < n + 1 - p => v[q] = w[q]) => Body(p, v) = Body(p, w)
  <2> DEFINE g == Getline(t, p, m)
  <2>1. g.s \in T /\ g.ok \in BOOLEAN /\ (g.ok => g.pos \in D /\ p < g.pos)
    BY GetlineIs
  <2> HIDE DEF g, D
  <2>2. g.ok => v[g.pos] \in V
    BY <2>1
  <2>3. g.ok => <<g.s>> \o v[g.pos] \in V
    <3> DEFINE x == g.s
               y == v[g.pos]
    <3> HIDE DEF x, y, T
    <3>1. x \in T
      BY <2>1 DEF x
    <3>2. <<x>> \in Seq(T)
      BY <3>1
    <3>3. g.ok => y \in Seq(T)
      BY <2>2 DEF y
    <3>4. g.ok => <<x>> \o y \in Seq(T)
      BY <3>2, <3>3, ConcatProperties
    <3>5. QED
      BY <3>4 DEF x, y
  <2>4. g.ok /\ (\A q \in D : n + 1 - q < n + 1 - p => v[q] = w[q]) => v[g.pos] = w[g.pos]
    <3>1. g.ok => g.pos \in D /\ n + 1 - g.pos < n + 1 - p
      BY <1>1, <2>1 DEF D
    <3>2. QED
      BY <3>1
  <2>5. QED
    BY <1>3, <2>3, <2>4 DEF g
<1>5. Computes(G, D, V, r)
  <2> SUFFICES ASSUME NEW p \in D, NEW v \in [D -> V], NEW w \in [D -> V]
               PROVE  /\ G[p][v] \in V
                      /\ (\A q \in D : r[q] < r[p] => v[q] = w[q]) => G[p][v] = G[p][w]
    BY DEF Computes
  <2>1. G[p][v] = Body(p, v) /\ G[p][w] = Body(p, w)
    BY DEF G
  <2>2. \A q \in D : r[q] = n + 1 - q
    OBVIOUS
  <2> HIDE DEF G, V, Body, D, r
  <2>3. QED
    BY <1>4, <2>1, <2>2
<1>6. PICK f \in [D -> V] : \A p \in D : f[p] = G[p][f]
  <2> HIDE DEF G, D, V, r
  <2>1. QED
    BY <1>2, <1>3, <1>5, Solved
<1>7. \A p \in D : f[p] = Body(p, f)
  <2>1. \A p \in D : G[p][f] = Body(p, f)
    BY DEF G
  <2>2. QED
    BY <1>6, <2>1
<1> DEFINE All(h) == h = [p \in D |-> Body(p, h)]
           L == CHOOSE h : All(h)
<1>8. All(f)
  <2> HIDE DEF Body, D, V
  <2>1. f = [p \in D |-> f[p]]
    OBVIOUS
  <2>2. QED
    BY <1>7, <2>1
<1>9. All(L)
  <2> HIDE DEF All
  <2>1. QED
    BY <1>8
<1>10. \A p : LinesFrom(t, p, m) = L[p]
  BY DEF LinesFrom
<1>11. \A p \in D : L[p] = Body(p, L)
  <2> HIDE DEF Body, L, D
  <2>1. QED
    BY <1>9
<1> HIDE DEF L
\* Only one function does this.
<1> DEFINE S == {k \in Nat : \A p \in D : n + 1 - p < k => L[p] = f[p]}
<1>12. 0 \in S
  BY <1>1
<1>13. ASSUME NEW k \in Nat, k \in S PROVE k + 1 \in S
  <2> SUFFICES ASSUME NEW p \in D, n + 1 - p < k + 1 PROVE L[p] = f[p]
    BY DEF S
  <2> DEFINE g == Getline(t, p, m)
  <2>1. g.ok => g.pos \in D /\ p < g.pos
    BY GetlineIs
  <2>2. L[p] = Body(p, L) /\ f[p] = Body(p, f)
    BY <1>7, <1>11
  <2>3. \A q \in D : n + 1 - q < k => L[q] = f[q]
    BY <1>13
  <2> HIDE DEF g
  <2>4. g.ok => n + 1 - g.pos < k
    BY <1>1, <2>1
  <2> HIDE DEF D
  <2>5. g.ok => L[g.pos] = f[g.pos]
    BY <2>1, <2>3, <2>4
  <2>6. QED
    BY <2>2, <2>5 DEF g
<1>14. Nat \subseteq S
  <2> HIDE DEF S
  <2>1. QED
    BY <1>12, <1>13, SetInduction
<1>15. \A p \in D : L[p] = f[p]
  <2>1. n + 2 \in S
    BY <1>1, <1>14
  <2>2. \A p \in D : n + 1 - p < n + 2
    BY <1>1
  <2> HIDE DEF D
  <2>3. QED
    BY <2>1, <2>2 DEF S
<1>16. \A p \in D : LinesAt(f, t, m, p)
  BY <1>7 DEF LinesAt
<1>17. \A p \in D : LinesFrom(t, p, m) = f[p]
  BY <1>10, <1>15
<1>18. LoopOf(f, C, t, m)
  BY <1>16, <1>17 DEF LoopOf
<1>19. QED
  BY <1>18

\* Between two cuts, the next cut is the next separator.
PartEnd(t, j, sep) == FirstFrom(t, j, LAMBDA d : d = sep)

LEMMA StopInLine ==
  ASSUME NEW C, NEW t \in Seq(C), NEW sep, NEW c, CutsOf(c, t, {sep}),
         NEW k \in 1..Len(c) - 1, NEW j \in Nat, c[k] < j, j <= c[k + 1]
  PROVE  PartEnd(t, j, sep) = c[k + 1]
<1> DEFINE n == Len(t)
           I == {i \in j..n : t[i] = sep}
           x == c[k + 1]
<1>1. /\ n \in Nat /\ Len(c) \in Nat /\ c[k] \in 0..n /\ x \in 1..n + 1
      /\ k + 1 \in 2..Len(c)
  <2>1. n \in Nat /\ Len(c) \in Nat /\ c[k] \in 0..n /\ x \in 1..n + 1
    BY CutPlaces
  <2>2. QED
    BY <2>1
<1>2. x <= n => t[x] = sep
  <2>1. CASE k + 1 = Len(c)
    <3>1. c[k + 1] = n + 1
      BY <2>1 DEF CutsOf
    <3>2. QED
      BY <1>1, <3>1
  <2>2. CASE k + 1 # Len(c)
    <3>1. k + 1 \in 2..Len(c) - 1
      BY <1>1, <2>2
    <3>2. t[c[k + 1]] \in {sep}
      BY <3>1 DEF CutsOf
    <3>3. QED
      BY <3>2
  <2>3. QED
    BY <2>1, <2>2
<1>3. \A i \in c[k] + 1..x - 1 : t[i] # sep
  BY DEF CutsOf
<1> HIDE DEF x
<1>4. \A i \in I : x <= i
  <2> SUFFICES ASSUME NEW i \in I, i < x PROVE FALSE
    BY <1>1
  <2>1. i \in c[k] + 1..x - 1
    BY <1>1
  <2>2. QED
    BY <1>3, <2>1
<1>5. x \in j..n + 1 /\ (x <= n => x \in I)
  BY <1>1, <1>2 DEF x
<1>6. I \subseteq j..n
  OBVIOUS
<1>7. FirstPlace(n, I) = x
  <2> HIDE DEF I
  <2>1. 1 <= j /\ j <= n + 1
    BY <1>1 DEF x
  <2>2. QED
    BY <1>1, <1>4, <1>5, <1>6, <2>1, FirstIsOnly
<1>8. FirstPlace(n, I) = PartEnd(t, j, sep)
  BY DEF PartEnd, FirstFrom, SelectInSubSeq, FirstPlace
<1>9. QED
  BY <1>7, <1>8 DEF x

\* getline() between two cuts.
LEMMA GetlineInLine ==
  ASSUME NEW C, NEW t \in Seq(C), NEW m \in Nat \ {0}, NEW c, CutsOf(c, t, {"\n"}),
         NEW k \in 1..Len(c) - 1, NEW p \in Nat, c[k] <= p, p < c[k + 1]
  PROVE  Getline(t, p, m) =
           IF c[k + 1] > p + m
           THEN [s |-> SubSeq(t, p + 1, p + m), pos |-> p + m, ok |-> TRUE]
           ELSE [s |-> SubSeq(t, p + 1, c[k + 1] - 1), pos |-> c[k + 1], ok |-> c[k + 1] <= Len(t)]
<1>1. PartEnd(t, p + 1, "\n") = c[k + 1]
  <2> DEFINE j == p + 1
  <2>1. j \in Nat /\ c[k] < j /\ j <= c[k + 1]
    BY CutPlaces
  <2> HIDE DEF j
  <2>2. PartEnd(t, j, "\n") = c[k + 1]
    BY <2>1, StopInLine
  <2>3. QED
    BY <2>2 DEF j
<1>2. QED
  BY <1>1 DEF Getline, PartEnd

\* The places of the pieces in a line.
LEMMA PiecesAre ==
  ASSUME NEW C, NEW line \in Seq(C), NEW m \in Nat \ {0}, NEW k \in Int, NEW K \in Int
  PROVE  LET q == Len(line) \div m
             P == Pieces(line, m, k < K)
         IN /\ q \in Nat /\ m * q <= Len(line) /\ Len(line) < m * q + m
            /\ P \in Seq(Seq(C)) /\ Len(P) = q + (IF k < K THEN 1 ELSE 0)
            /\ \A j \in Nat : j < q => j + 1 \in 1..Len(P)
                                       /\ P[j + 1] = SubSeq(line, m * j + 1, m * j + m)
            /\ k < K => P[q + 1] = SubSeq(line, m * q + 1, Len(line))
<1> DEFINE n == Len(line)
           q == n \div m
           N == q + (IF k < K THEN 1 ELSE 0)
           T == Seq(C)
           Piece(i) == SubSeq(line, (i - 1) * m + 1, Min({i * m, n}))
           P == Pieces(line, m, k < K)
<1>1. n \in Nat /\ \A i \in 1..n : line[i] \in C
  BY LenProperties, ElementOfSeq
<1>2. q \in Int /\ m * q <= n /\ n < m * q + m
  BY <1>1, Division
<1> HIDE DEF q
<1>3. q \in Nat
  <2>1. ASSUME q < 0 PROVE FALSE
    <3>1. m * q + m <= 0
      <4>1. q + 1 <= 0 /\ m * q + m = m * (q + 1)
        BY <1>2, <2>1
      <4>2. \A a, b \in Int : a > 0 /\ b <= 0 => a * b <= 0
        OBVIOUS
      <4>3. QED
        BY <1>2, <4>1, <4>2
    <3>2. QED
      BY <1>1, <1>2, <3>1
  <2>2. QED
    BY <1>2, <2>1
<1>4. N \in Nat
  BY <1>3
<1>5. P = [i \in 1..N |-> Piece(i)]
  BY DEF Pieces, q
<1>6. ASSUME NEW i \in 1..N PROVE Piece(i) \in T
  <2> DEFINE b == Min({i * m, n})
  <2>1. i * m \in Int /\ (i - 1) * m + 1 \in Int /\ (i - 1) * m + 1 >= 1
    <3>1. i - 1 \in Nat
      BY <1>4
    <3>2. (i - 1) * m \in Nat /\ i * m \in Int
      BY <1>4, <3>1
    <3>3. QED
      BY <3>2
  <2>2. b \in Int /\ b <= n
    BY <1>1, <2>1, MinOfTwo
  <2> HIDE DEF b
  <2>3. \A h \in (i - 1) * m + 1..b : line[h] \in C
    <3>1. \A h \in (i - 1) * m + 1..b : h \in 1..n
      BY <1>1, <2>1, <2>2
    <3>2. QED
      BY <1>1, <3>1
  <2>4. SubSeq(line, (i - 1) * m + 1, b) \in Seq(C)
    BY <2>1, <2>2, <2>3, SubSeqProperties
  <2>5. QED
    BY <2>4 DEF b
<1>7. P \in Seq(T) /\ Len(P) = N
  <2> HIDE DEF T, Piece, P, N
  <2>1. QED
    BY <1>4, <1>5, <1>6
<1>8. ASSUME NEW j \in Nat, j < q
      PROVE  j + 1 \in 1..N /\ P[j + 1] = SubSeq(line, m * j + 1, m * j + m)
  <2>1. j + 1 \in 1..N
    BY <1>3, <1>8
  <2>2. (j + 1) * m = m * j + m /\ ((j + 1) - 1) * m = m * j /\ m * j + m \in Int
    OBVIOUS
  <2>3. m * j + m <= m * q
    <3>1. j + 1 <= q /\ m * j + m = m * (j + 1)
      BY <1>3, <1>8
    <3>2. \A a, b, d \in Int : d > 0 /\ a <= b => d * a <= d * b
      OBVIOUS
    <3>3. QED
      BY <1>3, <3>1, <3>2
  <2>4. m * j + m <= n
    <3>1. m * q \in Int
      BY <1>2
    <3>2. QED
      BY <1>1, <1>2, <2>2, <2>3, <3>1
  <2>5. Min({(j + 1) * m, n}) = m * j + m
    BY <1>1, <2>2, <2>4, MinOfTwo
  <2>6. P[j + 1] = Piece(j + 1)
    BY <1>5, <2>1
  <2>7. QED
    BY <2>1, <2>2, <2>5, <2>6
<1>9. ASSUME k < K PROVE P[q + 1] = SubSeq(line, m * q + 1, n)
  <2>1. q + 1 \in 1..N
    BY <1>3, <1>9
  <2>2. (q + 1) * m = m * q + m /\ ((q + 1) - 1) * m = m * q /\ m * q \in Int
    BY <1>2
  <2>3. Min({(q + 1) * m, n}) = n
    BY <1>1, <1>2, <2>2, MinOfTwo
  <2>4. P[q + 1] = Piece(q + 1)
    BY <1>5, <2>1
  <2>5. QED
    BY <2>2, <2>3, <2>4
<1>10. QED
  <2> HIDE DEF P
  <2>1. QED
    BY <1>2, <1>3, <1>7, <1>8, <1>9 DEF q, P

LEMMA FlatType ==
  ASSUME NEW V, NEW s \in Seq(Seq(V))
  PROVE  FlattenSeq(s) \in Seq(V)
<1>1. <<>> \in Seq(V)
  OBVIOUS
<1>2. QED
  BY <1>1, FlatAppend

\* A part of a part of a text.
LEMMA PartOfPart ==
  ASSUME NEW C, NEW t \in Seq(C), NEW l \in Seq(C), NEW u \in Nat,
         \A i \in 1..Len(l) : l[i] = t[u + i],
         NEW d \in Int, 1 <= d, NEW b \in Int, b <= Len(l), NEW e, NEW f, e = u + d, f = u + b
  PROVE  SubSeq(l, d, b) = SubSeq(t, e, f)
<1> DEFINE a == d - 1
           y == SubSeq(l, a + 1, b)
           p == u + a
           z == SubSeq(t, p + 1, u + b)
           w == Len(l)
<1>1. w \in Nat /\ p \in Nat /\ p = u + a /\ a \in Nat
  BY LenProperties
<1>0. a + 1 = d /\ p + 1 = e /\ u + b = f
  OBVIOUS
<1> HIDE DEF a, p, w
<1>2. \A i \in a + 1..b : i \in 1..w
  BY <1>1 DEF w
<1>3. \A i \in 1..w : l[i] = t[u + i] /\ l[i] \in C
  BY ElementOfSeq DEF w
<1>4. \A i \in p + 1..u + b : i - u \in a + 1..b /\ u + (i - u) = i
  BY <1>1
<1>5. \A i \in a + 1..b : l[i] \in C
  BY <1>2, <1>3
<1>6. \A i \in p + 1..u + b : t[i] \in C
  <2> SUFFICES ASSUME NEW i \in p + 1..u + b PROVE t[i] \in C
    OBVIOUS
  <2>1. i - u \in 1..w /\ u + (i - u) = i
    BY <1>2, <1>4
  <2>2. l[i - u] = t[u + (i - u)] /\ l[i - u] \in C
    BY <1>3, <2>1
  <2>3. QED
    BY <2>1, <2>2
<1>7. /\ y \in Seq(C) /\ Len(y) = (IF a + 1 <= b THEN b - (a + 1) + 1 ELSE 0)
      /\ \A i \in 1..b - (a + 1) + 1 : y[i] = l[(a + 1) + i - 1]
  <2>1. a + 1 \in Int
    BY <1>1
  <2>2. QED
    BY <1>5, <2>1, SubSeqProperties
<1>8. /\ z \in Seq(C) /\ Len(z) = (IF p + 1 <= u + b THEN u + b - (p + 1) + 1 ELSE 0)
      /\ \A i \in 1..u + b - (p + 1) + 1 : z[i] = t[(p + 1) + i - 1]
  <2>1. p + 1 \in Int /\ u + b \in Int
    BY <1>1
  <2>2. QED
    BY <1>6, <2>1, SubSeqProperties
<1> HIDE DEF y, z
<1>9. Len(y) = Len(z) /\ Len(y) \in Nat /\ (a + 1 <= b => Len(y) = b - a) /\ (~ (a + 1 <= b) => Len(y) = 0)
  BY <1>1, <1>7, <1>8
<1>10. ASSUME NEW i \in 1..Len(y) PROVE y[i] = z[i]
  <2>1. a + 1 <= b /\ i \in 1..b - a
    BY <1>9
  <2>2. /\ i \in 1..b - (a + 1) + 1 /\ i \in 1..u + b - (p + 1) + 1
        /\ (a + 1) + i - 1 = a + i /\ (p + 1) + i - 1 = u + (a + i) /\ a + i \in a + 1..b
    BY <1>1, <2>1
  <2>3. y[i] = l[a + i] /\ z[i] = t[u + (a + i)]
    BY <1>7, <1>8, <2>2
  <2>4. a + i \in 1..w
    BY <1>2, <2>2
  <2>5. QED
    BY <1>3, <2>3, <2>4
<1>11. y = z
  BY <1>7, <1>8, <1>9, <1>10, SeqEqual
<1>12. QED
  BY <1>0, <1>11 DEF y, z

\* Products with a positive number.
LEMMA TimesGrows ==
  ASSUME NEW m \in Nat \ {0}, NEW i \in Int, NEW j \in Int
  PROVE  /\ m * i \in Int /\ m * (i + 1) = m * i + m
         /\ i <= j => m * i <= m * j
<1>1. m * i \in Int /\ m * (i + 1) = m * i + m
  OBVIOUS
<1>2. i <= j => m * i <= m * j
  OBVIOUS
<1>3. QED
  BY <1>1, <1>2

\* The j-th piece of a line is what getline() takes where it begins, and behind
\* the last one it takes nothing.
PieceAt(c, k, m, j) == c[k] + m * j
Taken(t, m, c, k, j, p) ==
  LET g == Getline(t, p, m)
      P == Pieces(PartAt(t, c, k), m, k < Len(c) - 1)
  IN \/ /\ c[k + 1] > p + m /\ g.ok /\ g.pos = p + m
        /\ j + 1 \in 1..Len(P) /\ g.s = P[j + 1]
     \/ /\ k < Len(c) - 1 /\ g.ok /\ g.pos = c[k + 1]
        /\ Len(P) = j + 1 /\ g.s = P[j + 1]
     \/ /\ k = Len(c) - 1 /\ ~ g.ok /\ Len(P) = j

LEMMA PieceTaken ==
  ASSUME NEW C, NEW t \in Seq(C), NEW m \in Nat \ {0}, NEW c, CutsOf(c, t, {"\n"}),
         NEW k \in 1..Len(c) - 1, NEW j \in Nat, NEW p \in Nat, p = PieceAt(c, k, m, j), p < c[k + 1]
  PROVE  Taken(t, m, c, k, j, p)
<1> DEFINE n == Len(t)
           K == Len(c) - 1
           x == c[k + 1]
           u == c[k]
           a == m * j
           l == PartAt(t, c, k)
           w == Len(l)
           r == w \div m
           g == Getline(t, p, m)
           P == Pieces(l, m, k < K)
<1>1. n \in Nat /\ K \in Nat /\ k \in 1..K /\ u \in 0..n /\ x \in 1..n + 1 /\ (k = K => x = n + 1)
      /\ (k < K => x \in 1..n)
  <2>1. n \in Nat /\ Len(c) \in Nat /\ Len(c) >= 2
    BY CutPlaces DEF CutsOf
  <2>2. u \in 0..n /\ x \in 1..n + 1
    BY CutPlaces
  <2>3. k = K => x = n + 1
    <3>1. k = K => k + 1 = Len(c)
      BY <2>1
    <3>2. QED
      BY <3>1 DEF CutsOf
  <2>4. k < K => x \in 1..n
    <3>1. k < K => k + 1 \in 2..Len(c) - 1
      BY <2>1
    <3>2. QED
      BY <3>1, CutPlaces
  <2>5. K \in Nat
    BY <2>1
  <2>6. QED
    BY <2>1, <2>2, <2>3, <2>4, <2>5
<1>2. l \in Seq(C) /\ w = x - u - 1 /\ \A i \in 1..x - u - 1 : l[i] = t[u + i]
  BY SplitAnyIs
<1>3. a \in Nat /\ p = u + a /\ p < x
  BY TimesGrows DEF PieceAt
<1>4. g = IF x > p + m
          THEN [s |-> SubSeq(t, p + 1, p + m), pos |-> p + m, ok |-> TRUE]
          ELSE [s |-> SubSeq(t, p + 1, x - 1), pos |-> x, ok |-> x <= n]
  <2>1. c[k] <= p
    BY <1>1, <1>3
  <2>2. QED
    BY <1>3, <2>1, GetlineInLine
<1> HIDE DEF K, l
<1>5. /\ r \in Nat /\ m * r <= w /\ w < m * r + m
      /\ P \in Seq(Seq(C)) /\ Len(P) = r + (IF k < K THEN 1 ELSE 0)
      /\ \A i \in Nat : i < r => i + 1 \in 1..Len(P) /\ P[i + 1] = SubSeq(l, m * i + 1, m * i + m)
      /\ k < K => P[r + 1] = SubSeq(l, m * r + 1, w)
  <2>1. k \in Int /\ K \in Int
    BY <1>1
  <2>2. LET q == Len(l) \div m
            Q == Pieces(l, m, k < K)
        IN /\ q \in Nat /\ m * q <= Len(l) /\ Len(l) < m * q + m
           /\ Q \in Seq(Seq(C)) /\ Len(Q) = q + (IF k < K THEN 1 ELSE 0)
           /\ \A i \in Nat : i < q => i + 1 \in 1..Len(Q)
                                      /\ Q[i + 1] = SubSeq(l, m * i + 1, m * i + m)
           /\ k < K => Q[q + 1] = SubSeq(l, m * q + 1, Len(l))
    BY <1>2, <2>1, PiecesAre
  <2>3. QED
    BY <2>2
<1> HIDE DEF r, w, u, x, a, n, P, g
<1>6. w \in Nat /\ u \in Nat /\ u + w = x - 1
  BY <1>1, <1>2, LenProperties DEF w
<1>7. \A b \in Int : b <= w => SubSeq(l, a + 1, b) = SubSeq(t, p + 1, u + b)
  <2> SUFFICES ASSUME NEW b \in Int, b <= w PROVE SubSeq(l, a + 1, b) = SubSeq(t, p + 1, u + b)
    OBVIOUS
  <2>1. \A i \in 1..Len(l) : l[i] = t[u + i]
    BY <1>2 DEF w
  <2>2. SubSeq(l, a + 1, b) = SubSeq(t, u + a + 1, u + b)
    <3> DEFINE d == a + 1
               e == u + a + 1
               f == u + b
    <3>1. l \in Seq(C) /\ u \in Nat /\ d \in Int /\ 1 <= d /\ b <= Len(l)
      BY <1>2, <1>3, <1>6 DEF w
    <3>2. e = u + d /\ f = u + b
      BY <1>3, <1>6
    <3> HIDE DEF d, e, f
    <3>3. SubSeq(l, d, b) = SubSeq(t, e, f)
      BY <2>1, <3>1, <3>2, PartOfPart
    <3>4. QED
      BY <3>3 DEF d, e, f
  <2>3. u + a + 1 = p + 1
    BY <1>3
  <2>4. QED
    BY <2>2, <2>3
<1>8. CASE x > p + m
  <2>1. g.ok /\ g.pos = p + m /\ g.s = SubSeq(t, p + 1, p + m)
    BY <1>4, <1>8
  <2>2. a + m <= w /\ u + (a + m) = p + m /\ a + m \in Int
    BY <1>1, <1>3, <1>6, <1>8
  <2>3. j < r
    <3> SUFFICES ASSUME r <= j PROVE FALSE
      BY <1>5
    <3>1. m * r <= a /\ m * r \in Int
      BY <1>5, TimesGrows DEF a
    <3>2. QED
      BY <1>3, <1>5, <1>6, <2>2, <3>1
  <2>4. j + 1 \in 1..Len(P) /\ P[j + 1] = SubSeq(l, a + 1, a + m)
    BY <1>5, <2>3 DEF a
  <2>5. SubSeq(l, a + 1, a + m) = SubSeq(t, p + 1, p + m)
    <3>1. SubSeq(l, a + 1, a + m) = SubSeq(t, p + 1, u + (a + m))
      BY <1>7, <2>2
    <3>2. QED
      BY <2>2, <3>1
  <2>6. P[j + 1] = g.s
    BY <2>1, <2>4, <2>5
  <2>7. QED
    BY <1>5, <1>8, <2>1, <2>4, <2>6 DEF Taken, g, P, x, l, K
<1>9. CASE ~ (x > p + m)
  <2>1. j = r
    <3>1. a <= w /\ w < a + m /\ w \in Int
      BY <1>1, <1>3, <1>6, <1>9
    <3>2. w \div m = j
      BY <3>1, DivisionUnique DEF a
    <3>3. QED
      BY <3>2 DEF r
  <2>2. CASE k < K
    <3>1. x <= n
      BY <1>1, <2>2 DEF n
    <3>2. g.ok /\ g.pos = x /\ g.s = SubSeq(t, p + 1, x - 1)
      BY <1>4, <1>9, <3>1
    <3>3. Len(P) = j + 1 /\ P[j + 1] = SubSeq(l, a + 1, w)
      BY <1>5, <2>1, <2>2 DEF a
    <3>4. SubSeq(l, a + 1, w) = SubSeq(t, p + 1, u + w)
      <4>1. w \in Int /\ w <= w
        BY <1>6
      <4>2. QED
        BY <1>7, <4>1
    <3>5. P[j + 1] = g.s
      BY <1>6, <3>2, <3>3, <3>4
    <3>6. QED
      BY <1>5, <2>2, <3>2, <3>3, <3>5 DEF Taken, g, P, x, l, K
  <2>3. CASE ~ (k < K)
    <3>1. k = K /\ x = n + 1 /\ n \in Nat
      BY <1>1, <2>3
    <3>2. ~ (x <= n)
      BY <3>1
    <3>3. ~ g.ok
      BY <1>4, <1>9, <3>2
    <3>4. Len(P) = j
      BY <1>5, <2>1, <2>3
    <3>5. QED
      BY <1>5, <3>1, <3>3, <3>4 DEF Taken, g, P, l, K
  <2>4. QED
    BY <2>2, <2>3
<1>10. QED
  BY <1>8, <1>9

\* The pieces up to the j-th of P behind those of X, and then R.
Behind(X, P, j, R) == X \o (SubSeq(P, 1, j) \o R)

LEMMA JoinsOne ==
  ASSUME NEW T, NEW a \in Seq(T), NEW x \in T, NEW R \in Seq(T)
  PROVE  Append(a, x) \o R = a \o (<<x>> \o R)
<1>1. <<x>> \in Seq(T) /\ Append(a, x) = a \o <<x>>
  BY AppendIsConcat
<1> DEFINE y == <<x>>
<1>2. y \in Seq(T)
  BY <1>1
<1> HIDE DEF y
<1>3. (a \o y) \o R = a \o (y \o R)
  BY <1>2, ConcatAssociative
<1>4. QED
  BY <1>1, <1>3 DEF y

LEMMA BehindGrows ==
  ASSUME NEW T, NEW X \in Seq(T), NEW P \in Seq(T), NEW j \in Nat, j + 1 <= Len(P), NEW R \in Seq(T),
         NEW x, x = P[j + 1], NEW i, i = j + 1
  PROVE  Behind(X, P, j, <<x>> \o R) = Behind(X, P, i, R)
<1> DEFINE a == SubSeq(P, 1, j)
           b == SubSeq(P, 1, i)
<1>1. a \in Seq(T) /\ x \in T
  BY SubSeqGrows
<1>2. Append(a, x) = b
  BY SubSeqGrows
<1> HIDE DEF a, b
<1>3. Append(a, x) \o R = a \o (<<x>> \o R)
  BY <1>1, JoinsOne
<1>4. QED
  BY <1>2, <1>3 DEF Behind, a, b

LEMMA BehindNone ==
  ASSUME NEW T, NEW X \in Seq(T), NEW P \in Seq(T), NEW R \in Seq(T), NEW j, j = 0
  PROVE  Behind(X, P, j, R) = X \o R
<1> DEFINE b == SubSeq(P, 1, j)
           e == <<>>
<1>1. b = e
  OBVIOUS
<1>2. e \o R = R
  BY ConcatEmptySeq
<1> HIDE DEF b, e
<1>3. X \o (b \o R) = X \o R
  BY <1>1, <1>2
<1>4. QED
  BY <1>3 DEF Behind, b

IsJoin(Y, X, P) == Y = X \o P
IsAll(P, j) == Len(P) = j

LEMMA BehindAll ==
  ASSUME NEW T, NEW X \in Seq(T), NEW P \in Seq(T), NEW R \in Seq(T),
         NEW j, IsAll(P, j), NEW Y, IsJoin(Y, X, P)
  PROVE  Behind(X, P, j, R) = Y \o R
<1> DEFINE a == SubSeq(P, 1, j)
<1>1. j = Len(P) /\ P = [k \in 1..j |-> P[k]]
  BY LenProperties DEF IsAll
<1>2. a = P
  <2>1. a = [k \in 1..j |-> P[k]]
    BY <1>1
  <2>2. QED
    BY <1>1, <2>1
<1> HIDE DEF a
<1>3. (X \o P) \o R = X \o (P \o R)
  BY ConcatAssociative
<1>4. X \o (a \o R) = Y \o R
  BY <1>2, <1>3 DEF IsJoin
<1>5. QED
  BY <1>4 DEF Behind, a

\* What the loop sees from within the k-th line on completes what it has seen.
LEMMA LinesFollow ==
  ASSUME NEW C, NEW t \in Seq(C), NEW m \in Nat \ {0}, NEW c, CutsOf(c, t, {"\n"})
  PROVE  LinesFrom(t, 0, m)
           = FlattenSeq([k \in 1..Len(c) - 1 |-> Pieces(PartAt(t, c, k), m, k < Len(c) - 1)])
<1> DEFINE n == Len(t)
           K == Len(c) - 1
           T == Seq(C)
           D == 0..n + 1
           P == [k \in 1..K |-> Pieces(PartAt(t, c, k), m, k < K)]
           F(k) == FlattenSeq([i \in 1..k |-> P[i]])
<1>1. PICK L \in [D -> Seq(T)] : \A p \in D : LinesAt(L, t, m, p) /\ LinesFrom(t, p, m) = L[p]
  <2>1. PICK L : LoopOf(L, C, t, m)
    BY LinesSolved
  <2>2. QED
    BY <2>1 DEF LoopOf
<1>2. /\ n \in Nat /\ K \in Nat /\ K >= 1 /\ c[1] = 0
      /\ \A k \in 1..K : c[k] \in 0..n /\ c[k + 1] \in 1..n + 1 /\ c[k] < c[k + 1]
  <2>1. Len(c) \in Nat /\ Len(c) >= 2 /\ c[1] = 0 /\ n \in Nat
    BY CutPlaces DEF CutsOf
  <2>2. \A k \in 1..K : c[k] \in 0..n /\ c[k + 1] \in 1..n + 1 /\ c[k] < c[k + 1]
    BY CutPlaces
  <2>3. QED
    BY <2>1, <2>2
<1>3. ASSUME NEW k \in 1..K PROVE P[k] \in Seq(T)
  <2>1. PartAt(t, c, k) \in Seq(C) /\ k \in Int /\ K \in Int
    BY <1>2, SplitAnyIs
  <2>2. Pieces(PartAt(t, c, k), m, k < K) \in Seq(Seq(C))
    BY <2>1, PiecesAre
  <2>3. QED
    BY <2>2
<1>4. ASSUME NEW k \in 1..K, NEW j \in Nat, NEW p \in Nat, p = PieceAt(c, k, m, j), p < c[k + 1]
      PROVE  \/ /\ c[k + 1] > p + m /\ j + 1 \in 1..Len(P[k]) /\ p + m \in D
                /\ L[p] = <<P[k][j + 1]>> \o L[p + m]
             \/ /\ k < K /\ Len(P[k]) = j + 1
                /\ L[p] = <<P[k][j + 1]>> \o L[c[k + 1]]
             \/ k = K /\ L[p] = <<>> /\ Len(P[k]) = j
  <2>1. p \in D /\ c[k + 1] \in 1..n + 1
    BY <1>2, <1>4
  <2> DEFINE g == Getline(t, p, m)
  <2>2. L[p] = IF g.ok THEN <<g.s>> \o L[g.pos] ELSE <<>>
    BY <1>1, <2>1 DEF LinesAt
  <2>3. P[k] = Pieces(PartAt(t, c, k), m, k < Len(c) - 1)
    OBVIOUS
  <2>4. Taken(t, m, c, k, j, p)
    BY <1>4, PieceTaken
  <2> DEFINE Q == P[k]
  <2> HIDE DEF P, Q
  <2>5. \/ /\ c[k + 1] > p + m /\ g.ok /\ g.pos = p + m
           /\ j + 1 \in 1..Len(Q) /\ g.s = Q[j + 1]
        \/ /\ k < K /\ g.ok /\ g.pos = c[k + 1]
           /\ Len(Q) = j + 1 /\ g.s = Q[j + 1]
        \/ /\ k = K /\ ~ g.ok /\ Len(Q) = j
    BY <2>3, <2>4 DEF Q, Taken
  <2> HIDE DEF g
  <2>6. c[k + 1] > p + m => p + m \in D
    BY <1>2, <1>4
  <2> HIDE DEF D, K
  <2>7. QED
    BY <2>2, <2>5, <2>6 DEF Q
<1> HIDE DEF P
<1>5. /\ F(0) = <<>> /\ \A k \in 0..K : F(k) \in Seq(T)
      /\ \A k \in 1..K : F(k) = F(k - 1) \o P[k]
  <2>1. F(0) = <<>>
    <3>1. [i \in 1..0 |-> P[i]] = <<>>
      OBVIOUS
    <3>2. QED
      BY <3>1, FlatEmpty
  <2>2. ASSUME NEW k \in 0..K PROVE F(k) \in Seq(T)
    <3> DEFINE s == [i \in 1..k |-> P[i]]
               S == Seq(T)
    <3>1. \A i \in 1..k : P[i] \in S
      BY <1>2, <1>3
    <3> HIDE DEF S
    <3>2. s \in Seq(S)
      BY <1>2, <3>1
    <3> HIDE DEF s, T
    <3>3. s \in Seq(Seq(T))
      BY <3>2 DEF S
    <3>4. FlattenSeq(s) \in Seq(T)
      BY <3>3, FlatType
    <3>5. QED
      BY <3>4 DEF s
  <2>3. ASSUME NEW k \in 1..K PROVE F(k) = F(k - 1) \o P[k]
    <3> DEFINE h == k - 1
    <3>1. h \in Nat /\ h + 1 = k
      BY <1>2
    <3> HIDE DEF h
    <3>2. \A i \in 1..h + 1 : P[i] \in Seq(T)
      BY <1>2, <1>3, <3>1
    <3> HIDE DEF T
    <3>3. FlattenSeq([i \in 1..h + 1 |-> P[i]]) = FlattenSeq([i \in 1..h |-> P[i]]) \o P[h + 1]
      BY <3>1, <3>2, FlatOf
    <3>4. QED
      BY <3>1, <3>3 DEF h
  <2>4. QED
    BY <2>1, <2>2, <2>3
<1> HIDE DEF F
<1> DEFINE Right(d) == \A k \in 1..K : \A j \in Nat : \A p \in Nat :
                         p = PieceAt(c, k, m, j) /\ p < c[k + 1] /\ n - p < d
                           => F(K) = Behind(F(k - 1), P[k], j, L[p])
           S == {d \in Nat : Right(d)}
<1>6. 0 \in S
  <2> SUFFICES ASSUME NEW k \in 1..K, NEW j \in Nat, NEW p \in Nat,
                      p = PieceAt(c, k, m, j), p < c[k + 1], n - p < 0
               PROVE  FALSE
    OBVIOUS
  <2>1. c[k + 1] \in 1..n + 1 /\ n \in Nat
    BY <1>2
  <2>2. QED
    BY <2>1
<1>7. ASSUME NEW d \in Nat, d \in S PROVE d + 1 \in S
  <2> SUFFICES ASSUME NEW k \in 1..K, NEW j \in Nat, NEW p \in Nat,
                      p = PieceAt(c, k, m, j), p < c[k + 1], n - p < d + 1
               PROVE  F(K) = Behind(F(k - 1), P[k], j, L[p])
    OBVIOUS
  <2>0. Right(d)
    BY <1>7
  <2> DEFINE X == F(k - 1)
             Q == P[k]
  <2>1. X \in Seq(T) /\ Q \in Seq(T) /\ F(k) = X \o Q
    <3>1. k - 1 \in 0..K
      BY <1>2
    <3> HIDE DEF K, T, D, n, S
    <3>2. F(k - 1) \in Seq(T) /\ P[k] \in Seq(T) /\ F(k) = F(k - 1) \o P[k]
      BY <1>3, <1>5, <3>1
    <3>3. QED
      BY <3>2
  <2>2. \A q \in D : L[q] \in Seq(T)
    BY <1>1
  <2> HIDE DEF Right, S, T, D, n, X, Q
  <2>3. CASE /\ c[k + 1] > p + m /\ j + 1 \in 1..Len(P[k]) /\ p + m \in D
             /\ L[p] = <<P[k][j + 1]>> \o L[p + m]
    <3> DEFINE q == p + m
               i == j + 1
               x == P[k][j + 1]
               R == L[q]
    <3>1. q \in Nat /\ i \in Nat /\ q < c[k + 1] /\ n - q < d
      <4>1. n \in Nat /\ c[k + 1] > q
        BY <1>2, <2>3
      <4>2. q \in Nat /\ i \in Nat /\ n - q < d
        BY <4>1
      <4>3. q < c[k + 1]
        BY <4>1
      <4>4. QED
        BY <4>2, <4>3
    <3>2. q = PieceAt(c, k, m, i)
      <4>1. m * (j + 1) = m * j + m /\ m * j \in Int
        BY TimesGrows
      <4>2. c[k] \in Int
        BY <1>2
      <4>3. QED
        BY <4>1, <4>2 DEF PieceAt
    <3> HIDE DEF q, i
    <3>3. F(K) = Behind(X, Q, i, L[q])
      BY <2>0, <3>1, <3>2 DEF Right, X, Q
    <3>4. R \in Seq(T) /\ L[p] = <<x>> \o R
      BY <2>2, <2>3 DEF q
    <3>5. x = Q[j + 1] /\ i = j + 1 /\ j + 1 <= Len(Q)
      BY <2>3 DEF i, Q
    <3> HIDE DEF x, R
    <3>6. Behind(X, Q, j, <<x>> \o R) = Behind(X, Q, i, R)
      BY <2>1, <3>4, <3>5, BehindGrows
    <3>7. QED
      BY <3>3, <3>4, <3>6 DEF R, X, Q
  <2>4. CASE /\ k < K /\ Len(P[k]) = j + 1
             /\ L[p] = <<P[k][j + 1]>> \o L[c[k + 1]]
    <3> DEFINE q == c[k + 1]
               h == k + 1
               i == j + 1
               x == P[k][j + 1]
               R == L[q]
    <3>1. h \in 1..K /\ q \in D /\ q \in Nat /\ q = c[h] /\ q < c[h + 1] /\ n - q < d
      <4>1. k + 1 \in 1..K
        BY <1>2, <2>4
      <4>2. c[k + 1] \in 0..n /\ c[k + 1] < c[k + 1 + 1] /\ c[k + 1] \in 1..n + 1
        BY <1>2, <4>1
      <4>3. q \in D /\ q \in Nat /\ n \in Nat
        BY <1>2, <4>2 DEF D
      <4>5. n - q < d
        <5> HIDE DEF q
        <5>1. p < q
          BY DEF q
        <5>2. QED
          BY <4>3, <5>1
      <4>4. QED
        BY <4>1, <4>2, <4>3, <4>5
    <3>2. q = PieceAt(c, h, m, 0)
      <4>1. q \in Int /\ m * 0 = 0
        BY <3>1
      <4>2. QED
        BY <3>1, <4>1 DEF PieceAt
    <3>3. h - 1 = k /\ P[h] \in Seq(T) /\ F(k) \in Seq(T)
      BY <1>2, <1>3, <1>5, <3>1
    <3> HIDE DEF q, h
    <3>4. F(K) = Behind(F(h - 1), P[h], 0, L[q])
      BY <2>0, <3>1, <3>2 DEF Right
    <3>5. R \in Seq(T) /\ L[p] = <<x>> \o R
      BY <2>2, <2>4, <3>1 DEF q
    <3>6. x = Q[j + 1] /\ i = j + 1 /\ j + 1 <= Len(Q) /\ i = Len(Q)
      BY <2>4 DEF Q
    <3> DEFINE Y == F(k)
               Z == P[h]
    <3>7. F(K) = Behind(Y, Z, 0, R) /\ Y \in Seq(T) /\ Z \in Seq(T) /\ Y = X \o Q
      BY <2>1, <3>3, <3>4
    <3> HIDE DEF x, R, i, Y, Z
    <3>8. Behind(X, Q, j, <<x>> \o R) = Behind(X, Q, i, R)
      BY <2>1, <3>5, <3>6, BehindGrows
    <3>9. Behind(X, Q, i, R) = Y \o R
      <4>1. X \in Seq(T) /\ Q \in Seq(T) /\ R \in Seq(T)
        BY <2>1, <3>5
      <4>2. IsAll(Q, i)
        BY <3>6 DEF IsAll
      <4>3. IsJoin(Y, X, Q)
        BY <3>7 DEF IsJoin
      <4>4. QED
        BY <4>1, <4>2, <4>3, BehindAll
    <3>10. Behind(Y, Z, 0, R) = Y \o R
      BY <3>5, <3>7, BehindNone
    <3>11. F(K) = Behind(X, Q, j, L[p])
      BY <3>5, <3>7, <3>8, <3>9, <3>10
    <3>12. QED
      BY <3>11 DEF X, Q
  <2>5. CASE k = K /\ L[p] = <<>> /\ Len(P[k]) = j
    <3>1. Len(Q) = j
      BY <2>5 DEF Q
    <3>2. Behind(X, Q, j, <<>>) = X \o Q
      <4> DEFINE R == L[p]
      <4>1. X \in Seq(T) /\ Q \in Seq(T) /\ R \in Seq(T)
        BY <2>1, <2>5, EmptySeq
      <4>2. IsAll(Q, j)
        BY <3>1 DEF IsAll
      <4> HIDE DEF R
      <4> DEFINE Y == X \o Q
      <4>3. IsJoin(Y, X, Q)
        BY DEF IsJoin
      <4>4. Y \in Seq(T)
        BY <4>1, ConcatProperties
      <4> HIDE DEF Y
      <4>5. Y \o <<>> = Y
        BY <4>4, ConcatEmptySeq
      <4>6. R = <<>>
        BY <2>5 DEF R
      <4>7. Behind(X, Q, j, R) = Y \o R
        BY <4>1, <4>2, <4>3, BehindAll
      <4>8. QED
        BY <4>5, <4>6, <4>7 DEF Y
    <3>3. QED
      BY <2>1, <2>5, <3>2 DEF X, Q
  <2>6. QED
    BY <1>4, <2>3, <2>4, <2>5
<1>8. n + 1 \in S
  <2> HIDE DEF S
  <2>1. QED
    BY <1>2, <1>6, <1>7, SetInduction
<1>9. F(K) = Behind(F(0), P[1], 0, L[0])
  <2>1. 1 \in 1..K /\ c[1] < c[1 + 1] /\ 0 = PieceAt(c, 1, m, 0) /\ n - 0 < n + 1
    BY <1>2 DEF PieceAt
  <2>2. \A k \in 1..K : \A j \in Nat : \A p \in Nat :
          p = PieceAt(c, k, m, j) /\ p < c[k + 1] /\ n - p < n + 1 => F(K) = Behind(F(k - 1), P[k], j, L[p])
    BY <1>8
  <2>3. 0 < c[1 + 1]
    BY <1>2, <2>1
  <2>4. F(K) = Behind(F(1 - 1), P[1], 0, L[0])
    BY <2>1, <2>2, <2>3
  <2>5. QED
    BY <2>4
<1>10. F(K) = L[0]
  <2> DEFINE X == F(0)
             Q == P[1]
             R == L[0]
  <2>1. 0 \in D /\ 0 \in 0..K /\ 1 \in 1..K
    BY <1>2
  <2>2. X \in Seq(T) /\ Q \in Seq(T) /\ R \in Seq(T) /\ X = <<>>
    BY <1>1, <1>3, <1>5, <2>1
  <2> HIDE DEF X, Q, R, T
  <2>4. Behind(X, Q, 0, R) = X \o R
    BY <2>2, BehindNone
  <2>5. X \o R = R
    BY <2>2, ConcatEmptySeq
  <2>6. QED
    BY <1>9, <2>4, <2>5 DEF X, Q, R
<1>11. LinesFrom(t, 0, m) = L[0]
  BY <1>1, <1>2
<1>12. F(K) = FlattenSeq([k \in 1..K |-> Pieces(PartAt(t, c, k), m, k < K)])
  <2>1. [i \in 1..K |-> P[i]] = [k \in 1..K |-> Pieces(PartAt(t, c, k), m, k < K)]
    BY DEF P
  <2>2. QED
    BY <2>1 DEF F
<1>13. QED
  BY <1>10, <1>11, <1>12

IsCut(s, t, c) == s = [i \in 1..Len(c) - 1 |-> PartAt(t, c, i)] /\ Len(s) = Len(c) - 1

LEMMA CutIs ==
  ASSUME NEW C, NEW t \in Seq(C), NEW seps, NEW c, CutsOf(c, t, seps)
  PROVE  IsCut(SplitAny(t, seps), t, c)
BY SplitAnyIs DEF IsCut

-----------------------------------------------------------------------------
\* What is typed is a text.
TextTyped == /\ unit = "text" => text \in Seq(Characters)
             /\ unit = "url" => text \in Seq(UrlSymbols)

LEMMA TypedStep ==
  ASSUME TextTyped, [Next]_vars
  PROVE  TextTyped'
<1>1. CASE Type
  <2>1. PICK c \in IF unit = "url" THEN UrlSymbols ELSE Characters : text' = Append(text, c)
    BY <1>1 DEF Type
  <2>2. unit' = unit
    BY <1>1 DEF Type
  <2>3. unit = "text" => c \in Characters /\ text \in Seq(Characters)
    BY DEF TextTyped
  <2>4. unit = "url" => c \in UrlSymbols /\ text \in Seq(UrlSymbols)
    BY DEF TextTyped
  <2>5. unit = "text" => Append(text, c) \in Seq(Characters)
    BY <2>3, AppendProperties
  <2>6. unit = "url" => Append(text, c) \in Seq(UrlSymbols)
    BY <2>4, AppendProperties
  <2>7. QED
    BY <2>1, <2>2, <2>5, <2>6 DEF TextTyped
<1>2. CASE UNCHANGED <<unit, text>>
  BY <1>2 DEF TextTyped
<1>3. ~ Type => UNCHANGED <<unit, text>>
  BY DEF Next, Push, Pop, Write, Read, Update, Log, vars
<1>4. QED
  BY <1>1, <1>2, <1>3

LEMMA TypedAlways == Spec => []TextTyped
<1>1. Init => TextTyped
  <2>1. \A S : <<>> \in Seq(S)
    BY EmptySeq
  <2>2. QED
    BY <2>1 DEF Init, TextTyped
<1>2. TextTyped /\ [Next]_vars => TextTyped'
  BY TypedStep
<1>3. QED
  BY <1>1, <1>2, PTL DEF Spec

\* A loop over getline() sees each line, in pieces of maxsize characters and a
\* shorter last one, and of a last line that does not end the full pieces only
\* (getline()), for every text.
THEOREM LinesAreCut == Spec => []LinesCut
<1>1. TextTyped => LinesCut
  <2> SUFFICES ASSUME TextTyped, unit = "text", NEW m \in 1..3
               PROVE  LinesFrom(text, 0, m)
                        = FlattenSeq([k \in DOMAIN SplitAny(text, {"\n"}) |->
                            Pieces(SplitAny(text, {"\n"})[k], m, k < Len(SplitAny(text, {"\n"})))])
    BY DEF LinesCut
  <2> DEFINE C == Characters
             s == SplitAny(text, {"\n"})
  <2>1. text \in Seq(C) /\ m \in Nat \ {0}
    BY DEF TextTyped
  <2>2. PICK c : CutsOf(c, text, {"\n"})
    BY <2>1, CutsExist
  <2> DEFINE K == Len(c) - 1
  <2>3. s = [k \in 1..K |-> PartAt(text, c, k)] /\ Len(s) = K
    <3>1. IsCut(s, text, c)
      BY <2>1, <2>2, CutIs
    <3> HIDE DEF s
    <3>2. QED
      BY <3>1 DEF IsCut
  <2>4. LinesFrom(text, 0, m) = FlattenSeq([k \in 1..K |-> Pieces(PartAt(text, c, k), m, k < K)])
    BY <2>1, <2>2, LinesFollow
  <2> HIDE DEF s, K
  <2>5. [k \in DOMAIN s |-> Pieces(s[k], m, k < Len(s))] = [k \in 1..K |-> Pieces(PartAt(text, c, k), m, k < K)]
    BY <2>3
  <2>6. QED
    BY <2>4, <2>5 DEF s
<1>2. QED
  BY <1>1, TypedAlways, PTL

-----------------------------------------------------------------------------
(* split() *)

\* Functions that agree at a place when they do at those of lower rank.
Determined(D, r, f, g) ==
  \A p \in D : (\A q \in D : r[q] < r[p] => f[q] = g[q]) => f[p] = g[p]

LEMMA Agree ==
  ASSUME NEW D, NEW r \in [D -> Nat], NEW f, NEW g, Determined(D, r, f, g)
  PROVE  \A p \in D : f[p] = g[p]
<1> DEFINE S == {k \in Nat : \A p \in D : r[p] < k => f[p] = g[p]}
<1>1. 0 \in S
  OBVIOUS
<1>2. ASSUME NEW k \in Nat, k \in S PROVE k + 1 \in S
  <2> SUFFICES ASSUME NEW p \in D, r[p] < k + 1 PROVE f[p] = g[p]
    BY DEF S
  <2>1. \A q \in D : r[q] < r[p] => f[q] = g[q]
    BY <1>2
  <2>2. QED
    BY <2>1 DEF Determined
<1>3. Nat \subseteq S
  <2> HIDE DEF S
  <2>1. QED
    BY <1>1, <1>2, SetInduction
<1> SUFFICES ASSUME NEW p \in D PROVE f[p] = g[p]
  OBVIOUS
<1>4. r[p] + 1 \in Nat /\ r[p] < r[p] + 1
  OBVIOUS
<1>5. r[p] + 1 \in S
  BY <1>3, <1>4
<1>6. QED
  BY <1>4, <1>5

\* The end of the part that begins at j.
LEMMA PartEnds ==
  ASSUME NEW C, NEW t \in Seq(C), NEW sep, NEW j \in 1..Len(t) + 1
  PROVE  /\ PartEnd(t, j, sep) \in j..Len(t) + 1
         /\ SubSeq(t, j, PartEnd(t, j, sep) - 1) \in Seq(C)
<1> DEFINE n == Len(t)
           I == {i \in j..n : t[i] = sep}
           e == PartEnd(t, j, sep)
<1>1. n \in Nat /\ j \in Nat /\ 1 <= j /\ j <= n + 1 /\ \A i \in 1..n : t[i] \in C
  BY LenProperties, ElementOfSeq
<1>2. e = FirstPlace(n, I)
  BY DEF FirstFrom, SelectInSubSeq, FirstPlace, PartEnd
<1>3. I \subseteq j..n
  OBVIOUS
<1> HIDE DEF I, e
<1>4. e \in j..n + 1
  BY <1>1, <1>2, <1>3, FirstIs
<1>5. \A i \in j..e - 1 : t[i] \in C
  <2>1. \A i \in j..e - 1 : i \in 1..n
    BY <1>1, <1>4
  <2>2. QED
    BY <1>1, <2>1
<1>6. e - 1 \in Int /\ j \in Int
  BY <1>1, <1>4
<1>7. SubSeq(t, j, e - 1) \in Seq(C)
  <2> DEFINE b == e - 1
  <2>1. \A i \in j..b : t[i] \in C
    BY <1>5
  <2>2. b \in Int /\ j \in Int
    BY <1>6
  <2> HIDE DEF b
  <2>3. SubSeq(t, j, b) \in Seq(C)
    BY <2>1, <2>2, SubSeqProperties
  <2>4. QED
    BY <2>3 DEF b
<1>8. QED
  BY <1>4, <1>7 DEF e

PartsFrom(h, t, j, sep) ==
  <<SubSeq(t, j, PartEnd(t, j, sep) - 1)>>
    \o (IF PartEnd(t, j, sep) > Len(t) THEN <<>> ELSE h[PartEnd(t, j, sep) + 1])

SplitsTo(h, C, t, sep) ==
  /\ h \in [1..Len(t) + 1 -> Seq(Seq(C))]
  /\ \A j \in 1..Len(t) + 1 : h[j] = PartsFrom(h, t, j, sep) /\ SplitFrom(t, j, sep) = h[j]

LEMMA SplitSolved ==
  ASSUME NEW C, NEW t \in Seq(C), NEW sep
  PROVE  \E h : SplitsTo(h, C, t, sep)
<1> DEFINE n == Len(t)
           D == 1..n + 1
           T == Seq(C)
           V == Seq(T)
           E(j) == PartEnd(t, j, sep)
           r == [j \in D |-> n + 1 - j]
           Body(j, h) == PartsFrom(h, t, j, sep)
           G == [j \in D |-> [v \in [D -> V] |-> Body(j, v)]]
<1>1. n \in Nat
  BY LenProperties
<1>2. r \in [D -> Nat] /\ n + 1 \in Nat /\ \A j \in D : r[j] < n + 1
  BY <1>1
<1>3. <<>> \in V
  <2> HIDE DEF T
  <2>1. QED
    BY EmptySeq
<1>4. \A j \in D : /\ SubSeq(t, j, E(j) - 1) \in T
                   /\ ~ (E(j) > n) => E(j) + 1 \in D /\ n + 1 - (E(j) + 1) < n + 1 - j
  <2> SUFFICES ASSUME NEW j \in D
               PROVE  /\ SubSeq(t, j, E(j) - 1) \in T
                      /\ ~ (E(j) > n) => E(j) + 1 \in D /\ n + 1 - (E(j) + 1) < n + 1 - j
    OBVIOUS
  <2>1. E(j) \in j..n + 1 /\ SubSeq(t, j, E(j) - 1) \in T
    BY PartEnds
  <2> HIDE DEF T, E
  <2>2. QED
    BY <1>1, <2>1
<1>5. ASSUME NEW j \in D, NEW h, NEW g, \A q \in D : n + 1 - q < n + 1 - j => h[q] = g[q]
      PROVE  Body(j, h) = Body(j, g)
  <2>1. ~ (E(j) > n) => h[E(j) + 1] = g[E(j) + 1]
    <3> HIDE DEF E, D
    <3>1. QED
      BY <1>4, <1>5
  <2>2. QED
    BY <2>1 DEF PartsFrom
<1>6. ASSUME NEW j \in D, NEW v \in [D -> V] PROVE Body(j, v) \in V
  <2> DEFINE x == SubSeq(t, j, E(j) - 1)
             y == IF E(j) > n THEN <<>> ELSE v[E(j) + 1]
  <2>1. x \in T
    BY <1>4
  <2>2. y \in V
    <3> HIDE DEF V, E, D
    <3>1. QED
      BY <1>3, <1>4
  <2>3. Body(j, v) = <<x>> \o y
    BY DEF PartsFrom
  <2> HIDE DEF x, y, T, Body
  <2>4. <<x>> \in Seq(T) /\ y \in Seq(T)
    BY <2>1, <2>2
  <2> DEFINE z == <<x>>
  <2> HIDE DEF z
  <2>5. z \in Seq(T) /\ y \in Seq(T)
    BY <2>4 DEF z
  <2>6. z \o y \in Seq(T)
    BY <2>5, ConcatProperties
  <2>7. QED
    BY <2>3, <2>6 DEF z
<1>7. Computes(G, D, V, r)
  <2> SUFFICES ASSUME NEW p \in D, NEW v \in [D -> V], NEW w \in [D -> V]
               PROVE  /\ G[p][v] \in V
                      /\ (\A q \in D : r[q] < r[p] => v[q] = w[q]) => G[p][v] = G[p][w]
    BY DEF Computes
  <2>1. G[p][v] = Body(p, v) /\ G[p][w] = Body(p, w)
    BY DEF G
  <2>2. \A q \in D : r[q] = n + 1 - q
    OBVIOUS
  <2> HIDE DEF G, V, Body, D, r
  <2>3. QED
    BY <1>5, <1>6, <2>1, <2>2
<1>8. PICK f \in [D -> V] : \A p \in D : f[p] = G[p][f]
  <2> HIDE DEF G, D, V, r
  <2>1. V # {}
    BY <1>3
  <2>2. QED
    BY <1>2, <1>7, <2>1, Solved
<1>9. \A p \in D : f[p] = Body(p, f)
  <2>1. \A p \in D : G[p][f] = Body(p, f)
    BY DEF G
  <2>2. QED
    BY <1>8, <2>1
<1> DEFINE All(h) == h = [p \in D |-> Body(p, h)]
           L == CHOOSE h : All(h)
<1>10. All(f)
  <2> HIDE DEF Body, D, V
  <2>1. f = [p \in D |-> f[p]]
    OBVIOUS
  <2>2. QED
    BY <1>9, <2>1
<1>11. All(L)
  <2> HIDE DEF All
  <2>1. QED
    BY <1>10
<1>12. \A p : SplitFrom(t, p, sep) = L[p]
  BY DEF SplitFrom, PartsFrom, PartEnd
<1>13. \A p \in D : L[p] = Body(p, L)
  <2> HIDE DEF Body, L, D
  <2>1. QED
    BY <1>11
<1>14. \A p \in D : L[p] = f[p]
  <2>1. \A p \in D : (\A q \in D : r[q] < r[p] => L[q] = f[q]) => L[p] = f[p]
    <3> SUFFICES ASSUME NEW p \in D, \A q \in D : r[q] < r[p] => L[q] = f[q] PROVE L[p] = f[p]
      OBVIOUS
    <3>1. \A q \in D : n + 1 - q < n + 1 - p => L[q] = f[q]
      OBVIOUS
    <3> HIDE DEF L, Body, D, r
    <3>2. Body(p, L) = Body(p, f)
      BY <1>5, <3>1
    <3>3. QED
      BY <1>9, <1>13, <3>2
  <2>2. Determined(D, r, L, f)
    BY <2>1 DEF Determined
  <2> HIDE DEF L, D, r
  <2>3. QED
    BY <1>2, <2>2, Agree
<1>15. SplitsTo(f, C, t, sep)
  <2> HIDE DEF L
  <2>1. QED
    BY <1>9, <1>12, <1>14 DEF SplitsTo
<1>16. QED
  BY <1>15

\* The elements from a place on.
LEMMA FromOn ==
  ASSUME NEW T, NEW s \in Seq(T), NEW K, K = Len(s), NEW k \in 1..K
  PROVE  /\ SubSeq(s, k, K) = <<s[k]>> \o SubSeq(s, k + 1, K)
         /\ SubSeq(s, 1, K) = s
         /\ SubSeq(s, K, K) = <<s[K]>> \o <<>>
<1>1. K \in Nat /\ k \in Nat /\ 1 <= k /\ k <= K /\ \A i \in 1..K : s[i] \in T
  BY LenProperties, ElementOfSeq
<1>2. ASSUME NEW j \in 1..K PROVE SubSeq(s, j, j) = <<s[j]>>
  <2>1. j \in Int /\ \A i \in j..j : i = j
    BY <1>1
  <2>2. SubSeq(s, j, j) = [i \in 1..j - j + 1 |-> s[j + i - 1]]
    OBVIOUS
  <2>3. j - j + 1 = 1 /\ \A i \in 1..1 : j + i - 1 = j
    BY <2>1
  <2>4. [i \in 1..1 |-> s[j + i - 1]] = [i \in 1..1 |-> s[j]]
    BY <2>3
  <2>5. <<s[j]>> = [i \in 1..1 |-> s[j]]
    OBVIOUS
  <2>6. QED
    BY <2>2, <2>3, <2>4, <2>5
<1>3. SubSeq(s, k, k) \o SubSeq(s, k + 1, K) = SubSeq(s, k, K)
  <2>1. k \in 1..Len(s) + 1 /\ k \in k - 1..Len(s) /\ K \in k..Len(s)
    BY <1>1
  <2>2. QED
    BY <2>1, ConcatAdjacentSubSeq
<1>4. SubSeq(s, 1, K) = s
  <2>1. SubSeq(s, 1, K) = [i \in 1..K |-> s[i]]
    BY <1>1
  <2>2. s = [i \in 1..K |-> s[i]]
    BY <1>1
  <2>3. QED
    BY <2>1, <2>2
<1>5. <<s[K]>> \o <<>> = <<s[K]>>
  <2>1. <<s[K]>> \in Seq(T)
    BY <1>1
  <2> DEFINE y == <<s[K]>>
  <2> HIDE DEF y
  <2>2. y \in Seq(T)
    BY <2>1 DEF y
  <2>3. y \o <<>> = y
    BY <2>2, ConcatEmptySeq
  <2>4. QED
    BY <2>3 DEF y
<1>6. K \in 1..K
  BY <1>1
<1>7. QED
  BY <1>2, <1>3, <1>4, <1>5, <1>6

\* util::split() cuts where boost's split() does.
LEMMA SplitIs ==
  ASSUME NEW C, NEW t \in Seq(C), NEW sep
  PROVE  Split(t, sep) = SplitAny(t, {sep})
<1> DEFINE n == Len(t)
           T == Seq(C)
           s == SplitAny(t, {sep})
<1>1. PICK c : CutsOf(c, t, {sep})
  BY CutsExist
<1> DEFINE K == Len(c) - 1
<1>2. /\ n \in Nat /\ K \in Nat /\ K >= 1 /\ c[1] = 0 /\ c[K + 1] = n + 1
      /\ \A k \in 1..K : c[k] \in 0..n /\ c[k + 1] \in 1..n + 1 /\ c[k] < c[k + 1]
      /\ \A k \in 1..K : k # K => k + 1 \in 1..K
  <2>1. Len(c) \in Nat /\ Len(c) >= 2 /\ c[1] = 0 /\ n \in Nat /\ c[Len(c)] = n + 1
    BY <1>1, CutPlaces DEF CutsOf
  <2>2. \A k \in 1..K : c[k] \in 0..n /\ c[k + 1] \in 1..n + 1 /\ c[k] < c[k + 1]
    BY <1>1, CutPlaces
  <2>3. Len(c) = K + 1 /\ K \in Nat /\ K >= 1
    BY <2>1
  <2> HIDE DEF K, n
  <2>4. c[K + 1] = n + 1
    BY <2>1, <2>3
  <2>5. \A k \in 1..K : k # K => k + 1 \in 1..K
    BY <2>3
  <2>6. QED
    BY <2>1, <2>2, <2>3, <2>4, <2>5
<1>3. s \in Seq(T) /\ Len(s) = K /\ \A k \in 1..K : s[k] = PartAt(t, c, k)
  <2>1. s \in Seq(Seq(C))
    BY <1>1, SplitAnyIs
  <2>2. IsCut(s, t, c)
    BY <1>1, CutIs
  <2> HIDE DEF s
  <2>3. QED
    BY <2>1, <2>2 DEF IsCut
<1>4. PICK h : SplitsTo(h, C, t, sep)
  BY SplitSolved
<1> HIDE DEF s
<1>5. ASSUME NEW k \in 1..K
      PROVE  /\ c[k] + 1 \in 1..n + 1 /\ PartEnd(t, c[k] + 1, sep) = c[k + 1]
             /\ h[c[k] + 1] = <<s[k]>> \o (IF k = K THEN <<>> ELSE h[c[k + 1] + 1])
  <2> DEFINE j == c[k] + 1
  <2>1. j \in Nat /\ c[k] < j /\ j <= c[k + 1] /\ j \in 1..n + 1
    BY <1>2
  <2> HIDE DEF j
  <2>2. PartEnd(t, j, sep) = c[k + 1]
    <3>1. k \in 1..Len(c) - 1
      OBVIOUS
    <3>2. QED
      BY <1>1, <2>1, <3>1, StopInLine
  <2>3. h[j] = PartsFrom(h, t, j, sep)
    BY <1>4, <2>1 DEF SplitsTo
  <2>4. s[k] = SubSeq(t, j, c[k + 1] - 1)
    BY <1>3 DEF PartAt, j
  <2>5. c[k + 1] > n <=> k = K
    <3>1. k = K => c[k + 1] = n + 1
      BY <1>2
    <3>2. k # K => c[k + 1] \in 0..n
      BY <1>2
    <3>3. QED
      BY <1>2, <3>1, <3>2
  <2>6. h[j] = <<s[k]>> \o (IF k = K THEN <<>> ELSE h[c[k + 1] + 1])
    BY <2>2, <2>3, <2>4, <2>5 DEF PartsFrom
  <2>7. QED
    BY <2>1, <2>2, <2>6 DEF j
<1> DEFINE S == {d \in Nat : \A k \in 1..K : K - k < d => h[c[k] + 1] = SubSeq(s, k, K)}
<1>6. 0 \in S
  BY <1>2
<1>7. ASSUME NEW d \in Nat, d \in S PROVE d + 1 \in S
  <2> SUFFICES ASSUME NEW k \in 1..K, K - k < d + 1 PROVE h[c[k] + 1] = SubSeq(s, k, K)
    OBVIOUS
  <2>0. K = Len(s)
    BY <1>3
  <2> HIDE DEF K
  <2>1. CASE k = K
    <3>1. h[c[k] + 1] = <<s[k]>> \o <<>>
      BY <1>5, <2>1
    <3>2. SubSeq(s, K, K) = <<s[K]>> \o <<>>
      BY <1>3, <2>0, FromOn
    <3>3. QED
      BY <2>1, <3>1, <3>2
  <2>2. CASE k # K
    <3>1. k + 1 \in 1..K /\ K - (k + 1) < d
      BY <1>2, <2>2
    <3>2. h[c[k + 1] + 1] = SubSeq(s, k + 1, K)
      BY <1>7, <3>1
    <3>3. h[c[k] + 1] = <<s[k]>> \o SubSeq(s, k + 1, K)
      BY <1>5, <2>2, <3>2
    <3>4. SubSeq(s, k, K) = <<s[k]>> \o SubSeq(s, k + 1, K)
      BY <1>3, <2>0, FromOn
    <3>5. QED
      BY <3>3, <3>4
  <2>3. QED
    BY <2>1, <2>2
<1>8. K \in S
  <2> HIDE DEF S
  <2>1. QED
    BY <1>2, <1>6, <1>7, SetInduction
<1>9. h[1] = SubSeq(s, 1, K)
  <2>1. 1 \in 1..K /\ K - 1 < K /\ c[1] + 1 = 1
    BY <1>2
  <2>2. h[c[1] + 1] = SubSeq(s, 1, K)
    BY <1>8, <2>1
  <2>3. QED
    BY <2>1, <2>2
<1>10. SubSeq(s, 1, K) = s
  <2>1. 1 \in 1..K /\ K = Len(s)
    BY <1>2, <1>3
  <2> HIDE DEF K
  <2>2. QED
    BY <1>3, <2>1, FromOn
<1>11. Split(t, sep) = h[1]
  <2>1. 1 \in 1..n + 1
    BY <1>2
  <2>2. QED
    BY <1>4, <2>1 DEF SplitsTo, Split
<1>12. QED
  BY <1>9, <1>10, <1>11 DEF s

\* There are two parts if there is one separator.
LEMMA PairIs ==
  ASSUME NEW C, NEW t \in Seq(C), NEW sep
  PROVE  SplitPair(t, {sep}) # Thrown <=> Cardinality({k \in DOMAIN t : t[k] = sep}) = 1
<1> DEFINE n == Len(t)
           S == {k \in DOMAIN t : t[k] \in {sep}}
           v == SplitAny(t, {sep})
<1>1. n \in Nat /\ DOMAIN t = 1..n
  BY LenProperties
<1>2. IsFiniteSet(S) /\ Cardinality(S) \in Nat
  <2>1. IsFiniteSet(1..n)
    BY <1>1, FS_Interval
  <2>2. S \subseteq 1..n
    BY <1>1
  <2> HIDE DEF S
  <2>3. IsFiniteSet(S)
    BY <2>1, <2>2, FS_Subset
  <2>4. QED
    BY <2>3, FS_CardinalityType
<1>3. Cardinality(Cuts(t, {sep})) = Cardinality(S) + 2
  <2>1. 0 \notin S /\ n + 1 \notin S \cup {0}
    BY <1>1
  <2>2. Cuts(t, {sep}) = (S \cup {0}) \cup {n + 1}
    BY DEF Cuts
  <2> DEFINE U == S \cup {0}
  <2> HIDE DEF S
  <2>3. IsFiniteSet(U) /\ Cardinality(U) = Cardinality(S) + 1
    BY <1>2, <2>1, FS_AddElement
  <2> HIDE DEF U
  <2>4. Cardinality(U \cup {n + 1}) = Cardinality(U) + 1
    <3>1. n + 1 \notin U
      BY <2>1 DEF U
    <3>2. QED
      BY <2>3, <3>1, FS_AddElement
  <2>5. Cuts(t, {sep}) = U \cup {n + 1}
    BY <2>2 DEF U
  <2>6. Cardinality(Cuts(t, {sep})) = (Cardinality(S) + 1) + 1
    BY <2>3, <2>4, <2>5
  <2>7. QED
    BY <1>2, <2>6
<1>4. Len(v) = Cardinality(Cuts(t, {sep})) - 1
  <2>1. PICK c : CutsOf(c, t, {sep})
    BY CutsExist
  <2>2. Len(v) = Len(c) - 1
    BY <2>1, SplitAnyIs
  <2>3. Enumerates(c, Cuts(t, {sep}))
    BY <2>1, CutsEnumerate
  <2>4. Cardinality(Cuts(t, {sep})) = Len(c)
    BY <2>3, EnumerationIs
  <2>5. QED
    BY <2>2, <2>4
<1> HIDE DEF v
<1>5. Len(v) = 2 <=> Cardinality(S) = 1
  BY <1>2, <1>3, <1>4
<1>6. SplitPair(t, {sep}) = IF Len(v) = 2 THEN <<v>> ELSE <<>>
  BY DEF SplitPair, Thrown, v
<1>7. <<v>> # <<>>
  OBVIOUS
<1>8. {k \in DOMAIN t : t[k] = sep} = S
  OBVIOUS
<1> HIDE DEF S
<1>9. QED
  BY <1>5, <1>6, <1>7, <1>8 DEF Thrown

-----------------------------------------------------------------------------
(* Beginnings and ends of texts *)

LEMMA BeginsWith ==
  ASSUME NEW C, NEW t \in Seq(C), NEW k \in Nat, k <= Len(t)
  PROVE  /\ SubSeq(t, 1, k) \in Seq(C) /\ Len(SubSeq(t, 1, k)) = k
         /\ \A i \in 1..k : SubSeq(t, 1, k)[i] = t[i]
         /\ IsPrefix(SubSeq(t, 1, k), t)
<1> DEFINE s == SubSeq(t, 1, k)
<1>1. Len(t) \in Nat /\ \A i \in 1..k : t[i] \in C
  BY LenProperties, ElementOfSeq
<1>2. s = [i \in 1..k |-> t[i]]
  OBVIOUS
<1> HIDE DEF s
<1>3. s \in Seq(C) /\ Len(s) = k /\ \A i \in 1..k : s[i] = t[i]
  BY <1>1, <1>2
<1>4. SubSeq(s, 1, k) = s
  BY <1>2, <1>3
<1>5. IsPrefix(s, t)
  BY <1>3, <1>4 DEF IsPrefix, s
<1>6. QED
  BY <1>3, <1>5 DEF s

LEMMA EndsWith ==
  ASSUME NEW C, NEW t \in Seq(C), NEW k \in Nat, 1 <= k, k <= Len(t) + 1
  PROVE  /\ From(t, k) \in Seq(C) /\ Len(From(t, k)) = Len(t) + 1 - k
         /\ \A i \in 1..Len(t) + 1 - k : From(t, k)[i] = t[k + i - 1]
         /\ IsSuffix(From(t, k), t)
<1> DEFINE s == From(t, k)
           n == Len(t)
           m == n + 1 - k
<1>1. n \in Nat /\ m \in Nat /\ \A i \in 1..m : k + i - 1 \in 1..n
  BY LenProperties
<1>2. \A i \in 1..m : t[k + i - 1] \in C
  BY <1>1, ElementOfSeq
<1>3. s = [i \in 1..m |-> t[k + i - 1]]
  <2>1. s = [i \in 1..n - k + 1 |-> t[k + i - 1]]
    BY DEF From
  <2>2. n - k + 1 = m
    BY <1>1
  <2>3. QED
    BY <2>1, <2>2
<1> HIDE DEF s, n, m
<1>4. s \in Seq(C) /\ Len(s) = m /\ \A i \in 1..m : s[i] = t[k + i - 1]
  BY <1>1, <1>2, <1>3
<1> DEFINE p == Reverse(s)
           q == Reverse(t)
<1>5. p = [i \in 1..m |-> s[(m - i) + 1]] /\ q = [i \in 1..n |-> t[(n - i) + 1]]
  BY <1>4 DEF Reverse, n
<1>6. Len(p) = m /\ Len(q) = n /\ m <= n
  BY <1>1, <1>5 DEF m, n
<1>7. \A i \in 1..m : p[i] = q[i]
  <2> SUFFICES ASSUME NEW i \in 1..m PROVE p[i] = q[i]
    OBVIOUS
  <2>1. (m - i) + 1 \in 1..m /\ k + ((m - i) + 1) - 1 = (n - i) + 1 /\ i \in 1..n
    BY <1>1, <1>6 DEF m
  <2>2. p[i] = t[(n - i) + 1]
    BY <1>4, <1>5, <2>1
  <2>3. q[i] = t[(n - i) + 1]
    BY <1>5, <2>1
  <2>4. QED
    BY <2>2, <2>3
<1> HIDE DEF p, q
<1>8. SubSeq(p, 1, m) = SubSeq(q, 1, m)
  <2>1. SubSeq(p, 1, m) = [i \in 1..m |-> p[i]] /\ SubSeq(q, 1, m) = [i \in 1..m |-> q[i]]
    BY <1>1
  <2>2. QED
    BY <1>7, <2>1
<1>9. IsSuffix(s, t)
  BY <1>6, <1>8 DEF IsSuffix, IsPrefix, p, q
<1>10. QED
  BY <1>4, <1>9 DEF s, m, n

-----------------------------------------------------------------------------
(* chop() and split_colon_blank() *)

LastPlace(I) == IF I # {} THEN Max(I) ELSE 0

LEMMA LastIs ==
  ASSUME NEW n \in Nat, NEW I, I \subseteq 1..n
  PROVE  /\ LastPlace(I) \in 0..n
         /\ \A i \in I : i <= LastPlace(I)
         /\ LastPlace(I) # 0 => LastPlace(I) \in I
<1>1. CASE I = {}
  BY <1>1 DEF LastPlace
<1>2. CASE I # {}
  <2>1. Max(I) \in I /\ \A y \in I : y <= Max(I)
    BY <1>2, MaxOfSome
  <2>2. LastPlace(I) = Max(I)
    BY <1>2 DEF LastPlace
  <2> DEFINE m == Max(I)
  <2> HIDE DEF m
  <2>3. LastPlace(I) = m /\ m \in I /\ \A y \in I : y <= m
    BY <2>1, <2>2 DEF m
  <2>4. m \in 0..n
    BY <2>3
  <2>5. QED
    BY <2>3, <2>4
<1>3. QED
  BY <1>1, <1>2

LEMMA ChopIs ==
  ASSUME NEW C, NEW t \in Seq(C)
  PROVE  /\ IsPrefix(Chop(t), t) /\ Chop(t) \in Seq(C)
         /\ Chop(t) # <<>> => Last(Chop(t)) \notin Blanks
         /\ Blank(From(t, Len(Chop(t)) + 1))
<1> DEFINE B == {" ", "\t", "\n", "\r"}
           n == Len(t)
           I == {i \in 1..n : t[i] \notin B}
           k == LastPlace(I)
           s == Chop(t)
<1>1. s = SubSeq(t, 1, k)
  BY DEF Chop, SelectLastInSeq, LastPlace
<1>2. B = Blanks
  BY Zenon DEF Blanks
<1> HIDE DEF B
<1>3. n \in Nat /\ I \subseteq 1..n
  BY LenProperties
<1>4. \A i \in 1..n : i \in I <=> t[i] \notin B
  OBVIOUS
<1> HIDE DEF I
<1>5. k \in 0..n /\ (\A i \in I : i <= k) /\ (k # 0 => k \in I)
  BY <1>3, LastIs
<1> HIDE DEF k, s
<1>6. s \in Seq(C) /\ Len(s) = k /\ (\A i \in 1..k : s[i] = t[i]) /\ IsPrefix(s, t)
  <2>1. k \in Nat /\ k <= Len(t)
    BY <1>3, <1>5
  <2>2. QED
    BY <1>1, <2>1, BeginsWith
<1>7. s # <<>> => Last(s) \notin B
  <2> SUFFICES ASSUME s # <<>> PROVE Last(s) \notin B
    OBVIOUS
  <2>1. k # 0
    <3>1. s \in Seq(C) /\ Len(s) = k
      BY <1>6
    <3>2. QED
      BY <3>1, EmptySeq
  <2>2. k \in I /\ k \in 1..n /\ k \in 1..k
    BY <1>3, <1>5, <2>1
  <2>3. s[k] = t[k] /\ t[k] \notin B
    BY <1>4, <1>6, <2>2
  <2>4. Last(s) = s[k]
    BY <1>6 DEF Last
  <2>5. QED
    BY <2>3, <2>4
<1>8. Blank(From(t, k + 1))
  <2> DEFINE h == k + 1
  <2>1. h \in Nat /\ 1 <= h /\ h <= Len(t) + 1
    BY <1>3, <1>5
  <2>2. From(t, h) \in Seq(C) /\ Len(From(t, h)) = Len(t) + 1 - h
        /\ \A i \in 1..Len(t) + 1 - h : From(t, h)[i] = t[h + i - 1]
    <3> HIDE DEF h
    <3>1. QED
      BY <2>1, EndsWith
  <2> DEFINE r == From(t, h)
  <2> HIDE DEF r
  <2>3. DOMAIN r = 1..n - k /\ \A i \in 1..n - k : r[i] = t[k + i]
    <3>1. Len(t) + 1 - h = n - k /\ \A i \in 1..n - k : h + i - 1 = k + i
      BY <1>3, <1>5
    <3>2. DOMAIN r = 1..Len(r)
      BY <2>2, LenProperties DEF r
    <3>3. QED
      BY <2>2, <3>1, <3>2 DEF r
  <2>4. \A i \in 1..n - k : k + i \in 1..n /\ ~ (k + i <= k)
    BY <1>3, <1>5
  <2>5. \A i \in 1..n - k : t[k + i] \in B
    BY <1>4, <1>5, <2>4
  <2>6. QED
    BY <1>2, <2>3, <2>5 DEF Blank, r
<1>9. QED
  BY <1>2, <1>6, <1>7, <1>8 DEF s

\* A text cut at its first colon: a is before it, b is what follows the blanks B.
CutAtColon(t, colon, B, a, b) ==
  /\ ~ Contains(a, colon) /\ IsPrefix(a \o <<colon>>, t)
  /\ IsSuffix(b, t) /\ (b # <<>> => b[1] \notin B)
  /\ \A k \in Len(a) + 2..Len(t) - Len(b) : t[k] \in B

LEMMA ColonAt ==
  ASSUME NEW C, NEW t \in Seq(C), NEW colon, NEW B,
         NEW x \in 1..Len(t), t[x] = colon, \A i \in 1..x - 1 : t[i] # colon,
         NEW y \in x + 1..Len(t) + 1, y <= Len(t) => t[y] \notin B, \A i \in x + 1..y - 1 : t[i] \in B
  PROVE  CutAtColon(t, colon, B, SubSeq(t, 1, x - 1), From(t, y))
<1> DEFINE n == Len(t)
           a == SubSeq(t, 1, x - 1)
           b == From(t, y)
<1>1. n \in Nat /\ \A i \in 1..n : t[i] \in C
  BY LenProperties, ElementOfSeq
<1>2. x \in 1..n /\ x \in Nat /\ t[x] = colon /\ y \in x + 1..n + 1 /\ y \in Nat
  BY <1>1
<1>4. a \in Seq(C) /\ Len(a) = x - 1 /\ \A i \in 1..x - 1 : a[i] = t[i]
  <2> DEFINE h == x - 1
  <2>1. h \in Nat /\ h <= Len(t)
    BY <1>1, <1>2
  <2> HIDE DEF h
  <2>2. SubSeq(t, 1, h) \in Seq(C) /\ Len(SubSeq(t, 1, h)) = h
        /\ \A i \in 1..h : SubSeq(t, 1, h)[i] = t[i]
    BY <2>1, BeginsWith
  <2>3. QED
    BY <2>2 DEF h
<1>5. b \in Seq(C) /\ Len(b) = n + 1 - y /\ (\A i \in 1..n + 1 - y : b[i] = t[y + i - 1])
      /\ IsSuffix(b, t)
  <2>1. y \in Nat /\ 1 <= y /\ y <= Len(t) + 1
    BY <1>1, <1>2
  <2>2. /\ From(t, y) \in Seq(C) /\ Len(From(t, y)) = Len(t) + 1 - y
        /\ \A i \in 1..Len(t) + 1 - y : From(t, y)[i] = t[y + i - 1]
        /\ IsSuffix(From(t, y), t)
    BY <2>1, EndsWith
  <2>3. QED
    BY <2>2
<1>6. ~ Contains(a, colon)
  <2> SUFFICES ASSUME NEW i \in 1..x - 1, a[i] = colon PROVE FALSE
    BY <1>4 DEF Contains
  <2>1. t[i] = colon
    BY <1>4
  <2>2. QED
    BY <2>1
<1>7. IsPrefix(a \o <<colon>>, t)
  <2> DEFINE h == x - 1
  <2>1. h \in Nat /\ h + 1 = x /\ 1 \in Nat /\ 1 <= h + 1 /\ h + 1 <= Len(t)
    BY <1>1, <1>2
  <2> HIDE DEF h
  <2>2. Append(SubSeq(t, 1, h), t[h + 1]) = SubSeq(t, 1, h + 1) /\ SubSeq(t, 1, h) \in Seq(C)
    BY <2>1, SubSeqGrows
  <2>3. a = SubSeq(t, 1, h)
    BY DEF h
  <2>4. t[h + 1] = colon /\ colon \in C
    BY <1>1, <1>2, <2>1
  <2> HIDE DEF a
  <2>5. Append(a, colon) = SubSeq(t, 1, x)
    BY <2>1, <2>2, <2>3, <2>4
  <2>6. Append(a, colon) = a \o <<colon>>
    BY <2>2, <2>3, <2>4, AppendIsConcat
  <2>7. IsPrefix(SubSeq(t, 1, x), t)
    <3>1. x \in Nat /\ x <= Len(t)
      BY <1>1, <1>2
    <3>2. QED
      BY <3>1, BeginsWith
  <2>8. QED
    BY <2>5, <2>6, <2>7 DEF a
<1> HIDE DEF a, b
<1>8. b # <<>> => b[1] \notin B
  <2> SUFFICES ASSUME b # <<>> PROVE b[1] \notin B
    OBVIOUS
  <2>1. Len(b) # 0
    BY <1>5, EmptySeq
  <2>2. y <= n /\ 1 \in 1..n + 1 - y /\ y + 1 - 1 = y
    BY <1>1, <1>2, <1>5, <2>1
  <2>3. b[1] = t[y]
    BY <1>5, <2>2
  <2>4. QED
    BY <2>2, <2>3
<1>9. \A k \in Len(a) + 2..Len(t) - Len(b) : t[k] \in B
  <2>1. Len(a) + 2 = x + 1 /\ Len(t) - Len(b) = y - 1
    BY <1>1, <1>2, <1>4, <1>5
  <2>2. QED
    BY <2>1
<1>10. QED
  BY <1>5, <1>6, <1>7, <1>8, <1>9 DEF CutAtColon, a, b

LEMMA ColonBlankIs ==
  ASSUME NEW C, NEW t \in Seq(C)
  PROVE  /\ SplitColonBlank(t) = Thrown <=> ~ Contains(t, ":")
         /\ SplitColonBlank(t) # Thrown =>
              CutAtColon(t, ":", {" ", "\t"}, SplitColonBlank(t)[1][1], SplitColonBlank(t)[1][2])
<1> DEFINE n == Len(t)
           B == {" ", "\t"}
           I == {i \in 1..n : t[i] = ":"}
           x == FirstPlace(n, I)
           J == {i \in x + 1..n : t[i] \notin B}
           y == FirstPlace(n, J)
           a == SubSeq(t, 1, x - 1)
           b == From(t, y)
           hh == SplitColonBlank(t)
<1>1. hh = IF x > n THEN Thrown ELSE << <<a, b>> >>
  BY DEF SplitColonBlank, FirstFrom, SelectInSubSeq, FirstPlace
<1> HIDE DEF hh, B
<1>2. n \in Nat
  BY LenProperties
<1>3. x \in 1..n + 1 /\ (\A i \in I : x <= i) /\ (x <= n => x \in I)
  <2> DEFINE k == 1
  <2>1. k \in Nat /\ 1 <= k /\ k <= n + 1 /\ I \subseteq k..n
    BY <1>2
  <2> HIDE DEF I, k
  <2>2. FirstPlace(n, I) \in k..n + 1 /\ (\A i \in I : FirstPlace(n, I) <= i)
        /\ (FirstPlace(n, I) <= n => FirstPlace(n, I) \in I)
    BY <1>2, <2>1, FirstIs
  <2>3. QED
    BY <2>2 DEF k
<1>4. x > n <=> ~ Contains(t, ":")
  <2>1. Contains(t, ":") <=> \E i \in 1..n : i \in I
    BY Zenon DEF Contains
  <2>2. I \subseteq 1..n
    OBVIOUS
  <2> HIDE DEF I, x
  <2>3. QED
    BY <1>2, <1>3, <2>1, <2>2
<1>5. CASE x > n
  <2>1. hh = Thrown
    BY <1>1, <1>5
  <2>2. QED
    BY <1>4, <1>5, <2>1 DEF hh
<1>6. CASE ~ (x > n)
  <2>1. hh = << <<a, b>> >>
    BY <1>1, <1>6
  <2>2. hh[1][1] = a /\ hh[1][2] = b /\ hh # Thrown
    <3> HIDE DEF a, b
    <3>1. QED
      BY <2>1 DEF Thrown
  <2>3. \A i \in 1..n : i \in I <=> t[i] = ":"
    OBVIOUS
  <2>4. \A i \in x + 1..n : i \in J <=> t[i] \notin B
    OBVIOUS
  <2>5. x \in 1..n /\ x \in I
    <3> HIDE DEF x
    <3>1. QED
      BY <1>2, <1>3, <1>6
  <2>6. y \in x + 1..n + 1 /\ (\A i \in J : y <= i) /\ (y <= n => y \in J)
    <3> DEFINE k == x + 1
    <3> HIDE DEF x
    <3>1. k \in Nat /\ 1 <= k /\ k <= n + 1 /\ J \subseteq k..n
      BY <1>2, <2>5
    <3> HIDE DEF J, k
    <3>2. FirstPlace(n, J) \in k..n + 1 /\ (\A i \in J : FirstPlace(n, J) <= i)
          /\ (FirstPlace(n, J) <= n => FirstPlace(n, J) \in J)
      BY <1>2, <3>1, FirstIs
    <3>3. QED
      BY <3>2 DEF k
  <2> HIDE DEF x, I, J
  <2>7. t[x] = ":" /\ \A i \in 1..x - 1 : t[i] # ":"
    <3>1. \A i \in 1..x - 1 : i \in 1..n /\ ~ (x <= i)
      BY <1>2, <2>5
    <3>2. QED
      BY <1>3, <2>3, <2>5, <3>1
  <2> HIDE DEF y
  <2>8. (y <= n => t[y] \notin B) /\ \A i \in x + 1..y - 1 : t[i] \in B
    <3>1. \A i \in x + 1..y - 1 : i \in x + 1..n /\ ~ (y <= i)
      BY <1>2, <2>5, <2>6
    <3>2. y <= n => y \in x + 1..n
      BY <1>2, <2>5, <2>6
    <3>3. QED
      BY <2>4, <2>6, <3>1, <3>2
  <2>9. CutAtColon(t, ":", B, a, b)
    BY <2>5, <2>6, <2>7, <2>8, ColonAt
  <2>10. QED
    BY <1>4, <1>6, <2>2, <2>9 DEF B, hh
<1>7. QED
  BY <1>5, <1>6 DEF hh

-----------------------------------------------------------------------------
(* Texts character by character *)

\* Induction over the texts, for a set.
LEMMA TextInduction ==
  ASSUME NEW C, NEW S, <<>> \in S,
         \A s \in Seq(C) : s \in S => \A x \in C : Append(s, x) \in S
  PROVE  Seq(C) \subseteq S
<1> DEFINE N == {n \in Nat : \A s \in Seq(C) : Len(s) = n => s \in S}
<1>1. 0 \in N
  BY EmptySeq
<1>2. ASSUME NEW n \in Nat, n \in N PROVE n + 1 \in N
  <2> SUFFICES ASSUME NEW s \in Seq(C), Len(s) = n + 1 PROVE s \in S
    OBVIOUS
  <2> DEFINE q == SubSeq(s, 1, n)
             x == s[n + 1]
  <2>1. n \in Nat /\ 1 <= n + 1 /\ n + 1 <= Len(s)
    OBVIOUS
  <2>2. Append(q, x) = SubSeq(s, 1, n + 1) /\ q \in Seq(C) /\ x \in C
    BY <2>1, SubSeqGrows
  <2>3. Len(q) = n
    BY <2>1, BeginsWith
  <2>4. SubSeq(s, 1, n + 1) = s
    <3> DEFINE K == n + 1
    <3>1. K = Len(s) /\ 1 \in 1..K
      OBVIOUS
    <3> HIDE DEF K
    <3>2. SubSeq(s, 1, K) = s
      BY <3>1, FromOn
    <3>3. QED
      BY <3>2 DEF K
  <2> HIDE DEF q, x
  <2>5. q \in S
    BY <1>2, <2>2, <2>3
  <2>6. Append(q, x) \in S
    BY <2>2, <2>5
  <2>7. QED
    BY <2>2, <2>4, <2>6
<1>3. Nat \subseteq N
  <2> HIDE DEF N
  <2>1. QED
    BY <1>1, <1>2, SetInduction
<1>4. QED
  BY <1>3, LenProperties

\* What is kept of a text.
LEMMA KeptGrows ==
  ASSUME NEW C, NEW s \in Seq(C), NEW x \in C, NEW S
  PROVE  /\ Kept(s, S) \in Seq(C)
         /\ Kept(Append(s, x), S) = IF x \in S THEN Append(Kept(s, S), x) ELSE Kept(s, S)
<1> DEFINE n == Len(s)
           u == Append(s, x)
           One(y) == IF y \in S THEN <<y>> ELSE <<>>
           f == [k \in 1..n + 1 |-> One(u[k])]
           a == [k \in 1..n |-> f[k]]
           b == [k \in 1..n + 1 |-> f[k]]
           y == One(x)
<1>1. n \in Nat /\ DOMAIN s = 1..n /\ \A k \in 1..n : s[k] \in C
  BY LenProperties, ElementOfSeq
<1>2. u \in Seq(C) /\ DOMAIN u = 1..n + 1 /\ u[n + 1] = x /\ \A k \in 1..n : u[k] = s[k]
  <2>1. u \in Seq(C) /\ Len(u) = n + 1 /\ u[n + 1] = x /\ \A k \in 1..n : u[k] = s[k]
    BY <1>1, AppendProperties
  <2> HIDE DEF u
  <2>2. QED
    BY <2>1, LenProperties
<1>3. \A k \in 1..n + 1 : u[k] \in C
  <2> HIDE DEF u
  <2>1. \A k \in 1..n + 1 : k = n + 1 \/ k \in 1..n
    BY <1>1
  <2>2. QED
    BY <1>1, <1>2, <2>1
<1>4. \A z \in C : One(z) \in Seq(C)
  OBVIOUS
<1> HIDE DEF u, One
<1>5. \A k \in 1..n + 1 : f[k] = One(u[k]) /\ f[k] \in Seq(C)
  BY <1>3, <1>4
<1>6. f[n + 1] = y
  BY <1>1, <1>2, <1>5
<1>7. Kept(s, S) = FlattenSeq(a)
  <2>1. a = [k \in DOMAIN s |-> IF s[k] \in S THEN <<s[k]>> ELSE <<>>]
    BY <1>1, <1>2 DEF One
  <2>2. QED
    BY <2>1 DEF Kept
<1>8. Kept(u, S) = FlattenSeq(b)
  <2>1. b = [k \in DOMAIN u |-> IF u[k] \in S THEN <<u[k]>> ELSE <<>>]
    BY <1>1, <1>2 DEF One
  <2>2. QED
    BY <2>1 DEF Kept
<1> HIDE DEF f
<1>9. FlattenSeq(b) = FlattenSeq(a) \o f[n + 1]
  BY <1>1, <1>5, FlatOf
<1>10. FlattenSeq(a) \in Seq(C)
  <2> DEFINE T == Seq(C)
  <2>1. \A k \in 1..n : f[k] \in T
    BY <1>1, <1>5
  <2> HIDE DEF T
  <2>2. a \in Seq(T)
    BY <1>1, <2>1
  <2> HIDE DEF a
  <2>3. a \in Seq(Seq(C))
    BY <2>2 DEF T
  <2>4. QED
    BY <2>3, FlatType
<1> DEFINE q == FlattenSeq(a)
<1> HIDE DEF a, b, q
<1>11. q \in Seq(C) /\ Kept(u, S) = q \o y /\ Kept(s, S) = q
  BY <1>6, <1>7, <1>8, <1>9, <1>10 DEF q
<1>12. CASE x \in S
  <2>1. y = <<x>>
    BY <1>12 DEF One
  <2>2. Append(q, x) = q \o <<x>>
    BY <1>11, AppendIsConcat
  <2>3. QED
    BY <1>11, <1>12, <2>1, <2>2 DEF u
<1>13. CASE x \notin S
  <2>1. y = <<>>
    BY <1>13 DEF One
  <2>2. q \o <<>> = q
    BY <1>11, ConcatEmptySeq
  <2>3. QED
    BY <1>11, <1>13, <2>1, <2>2 DEF u
<1>14. QED
  BY <1>12, <1>13

LEMMA KeptNothing == \A S : Kept(<<>>, S) = <<>>
<1> SUFFICES ASSUME NEW S PROVE Kept(<<>>, S) = <<>>
  OBVIOUS
<1> DEFINE e == <<>>
           g == [k \in DOMAIN e |-> IF e[k] \in S THEN <<e[k]>> ELSE <<>>]
<1>1. g = <<>>
  OBVIOUS
<1>2. Kept(e, S) = FlattenSeq(g)
  BY DEF Kept
<1>3. QED
  BY <1>1, <1>2, FlatEmpty

Mapped(f, s) == [k \in DOMAIN s |-> f[s[k]]]

\* What one more character does to what is kept of a text and to what it is
\* mapped to.
KeepsMore(C, s, x, S) ==
  /\ Kept(s, S) \in Seq(C)
  /\ Kept(Append(s, x), S) = IF x \in S THEN Append(Kept(s, S), x) ELSE Kept(s, S)
MapsMore(C, f, s, x) ==
  /\ Mapped(f, s) \in Seq(C)
  /\ Mapped(f, Append(s, x)) = Append(Mapped(f, s), f[x])

LEMMA KeptMore ==
  \A C, S : \A s \in Seq(C) : \A x \in C : KeepsMore(C, s, x, S)
<1> SUFFICES ASSUME NEW C, NEW S, NEW s \in Seq(C), NEW x \in C PROVE KeepsMore(C, s, x, S)
  OBVIOUS
<1>1. QED
  BY KeptGrows DEF KeepsMore

LEMMA MappedGrows ==
  ASSUME NEW C, NEW f \in [C -> C], NEW s \in Seq(C), NEW x \in C
  PROVE  /\ Mapped(f, s) \in Seq(C)
         /\ Mapped(f, Append(s, x)) = Append(Mapped(f, s), f[x])
<1> DEFINE n == Len(s)
           u == Append(s, x)
           p == Mapped(f, s)
           q == Mapped(f, u)
<1>1. n \in Nat /\ DOMAIN s = 1..n /\ \A k \in 1..n : s[k] \in C
  BY LenProperties, ElementOfSeq
<1>2. DOMAIN u = 1..n + 1 /\ u[n + 1] = x /\ \A k \in 1..n : u[k] = s[k]
  <2>1. u \in Seq(C) /\ Len(u) = n + 1 /\ u[n + 1] = x /\ \A k \in 1..n : u[k] = s[k]
    BY <1>1, AppendProperties
  <2> HIDE DEF u
  <2>2. QED
    BY <2>1, LenProperties
<1> HIDE DEF u
<1>3. p = [k \in 1..n |-> f[s[k]]] /\ q = [k \in 1..n + 1 |-> f[u[k]]]
  BY <1>1, <1>2 DEF Mapped
<1>4. \A k \in 1..n : f[s[k]] \in C
  BY <1>1
<1> HIDE DEF p, q
<1>5. p \in Seq(C) /\ Len(p) = n
  BY <1>1, <1>3, <1>4
<1>6. Append(p, f[x]) = [k \in 1..n + 1 |-> IF k = n + 1 THEN f[x] ELSE p[k]]
  BY <1>5
<1>7. \A k \in 1..n + 1 : k = n + 1 \/ k \in 1..n
  BY <1>1
<1>8. \A k \in 1..n + 1 : f[u[k]] = IF k = n + 1 THEN f[x] ELSE p[k]
  BY <1>2, <1>3, <1>7
<1>9. q = Append(p, f[x])
  BY <1>3, <1>6, <1>8
<1>10. QED
  BY <1>5, <1>9 DEF p, q, u

LEMMA MappedMore ==
  \A C : \A f \in [C -> C], s \in Seq(C), x \in C : MapsMore(C, f, s, x)
<1> SUFFICES ASSUME NEW C, NEW f \in [C -> C], NEW s \in Seq(C), NEW x \in C
             PROVE  MapsMore(C, f, s, x)
  OBVIOUS
<1>1. QED
  BY MappedGrows DEF MapsMore

LEMMA MappedNothing == \A f : Mapped(f, <<>>) = <<>>
BY DEF Mapped

\* To map and to keep, and to keep before and after.
LEMMA KeepsTheSame ==
  ASSUME NEW C, NEW f \in [C -> C], NEW g \in [C -> C], NEW S, NEW S2, NEW S3,
         \A x \in C : /\ f[x] \in S <=> x \in S2 /\ g[x] \in S3
                      /\ f[x] \in S => f[x] = g[x]
  PROVE  \A s \in Seq(C) : Kept(Mapped(f, s), S) = Kept(Mapped(g, Kept(s, S2)), S3)
<1> DEFINE N == {s \in Seq(C) : Kept(Mapped(f, s), S) = Kept(Mapped(g, Kept(s, S2)), S3)}
<1>1. <<>> \in N
  <2> DEFINE e == <<>>
  <2>1. e \in Seq(C) /\ Mapped(f, e) = e /\ Mapped(g, e) = e /\ Kept(e, S) = e /\ Kept(e, S2) = e
        /\ Kept(e, S3) = e
    BY EmptySeq, MappedNothing, KeptNothing
  <2> HIDE DEF e
  <2>2. e \in N
    BY <2>1
  <2>3. QED
    BY <2>2 DEF e
<1>2. ASSUME NEW s \in Seq(C), s \in N, NEW x \in C PROVE Append(s, x) \in N
  <2> DEFINE u == Append(s, x)
             p == Mapped(f, s)
             k == Kept(s, S2)
             q == Mapped(g, k)
             y == f[x]
             z == g[x]
  <2>1. u \in Seq(C)
    BY AppendProperties
  <2>2. p \in Seq(C) /\ Mapped(f, u) = Append(p, y)
    <3>1. MapsMore(C, f, s, x)
      BY MappedMore
    <3>2. QED
      BY <3>1 DEF MapsMore
  <2>3. k \in Seq(C) /\ Kept(u, S2) = IF x \in S2 THEN Append(k, x) ELSE k
    <3>1. KeepsMore(C, s, x, S2)
      BY KeptMore
    <3>2. QED
      BY <3>1 DEF KeepsMore
  <2>4. Kept(p, S) = Kept(q, S3)
    BY <1>2
  <2>5. y \in C /\ z \in C /\ (y \in S <=> x \in S2 /\ z \in S3) /\ (y \in S => y = z)
    OBVIOUS
  <2> HIDE DEF u, p, k, y
  <2>a. k \in Seq(C)
    BY <2>3
  <2>6. q \in Seq(C) /\ Mapped(g, Append(k, x)) = Append(q, z)
    <3>1. MapsMore(C, g, k, x)
      BY <2>a, MappedMore
    <3>2. QED
      BY <3>1 DEF MapsMore
  <2> HIDE DEF q, z
  <2>7. Kept(Append(p, y), S) = IF y \in S THEN Append(Kept(p, S), y) ELSE Kept(p, S)
    <3>1. KeepsMore(C, p, y, S)
      BY <2>2, <2>5, KeptMore
    <3>2. QED
      BY <3>1 DEF KeepsMore
  <2>8. Kept(Append(q, z), S3) = IF z \in S3 THEN Append(Kept(q, S3), z) ELSE Kept(q, S3)
    <3>1. KeepsMore(C, q, z, S3)
      BY <2>5, <2>6, KeptMore
    <3>2. QED
      BY <3>1 DEF KeepsMore
  <2>9. Mapped(g, Kept(u, S2)) = IF x \in S2 THEN Append(q, z) ELSE q
    BY <2>3, <2>6 DEF q
  <2>10. Kept(Mapped(f, u), S) = Kept(Mapped(g, Kept(u, S2)), S3)
    BY <2>2, <2>4, <2>5, <2>7, <2>8, <2>9
  <2>11. QED
    BY <2>1, <2>10 DEF u
<1>3. Seq(C) \subseteq N
  <2> HIDE DEF N
  <2>1. QED
    BY <1>1, <1>2, TextInduction
<1>4. QED
  BY <1>3

\* What is mapped once more.
LEMMA MapsTheSame ==
  ASSUME NEW C, NEW g \in [C -> C], NEW h \in [C -> C], NEW S,
         \A x \in C : x \in S => g[x] \in S /\ h[g[x]] = h[x]
  PROVE  \A s \in Seq(C) : Mapped(h, Kept(Mapped(g, Kept(s, S)), S)) = Mapped(h, Kept(s, S))
<1> DEFINE N == {s \in Seq(C) : Mapped(h, Kept(Mapped(g, Kept(s, S)), S)) = Mapped(h, Kept(s, S))}
<1>1. <<>> \in N
  <2> DEFINE e == <<>>
  <2>1. e \in Seq(C) /\ Mapped(h, e) = e /\ Mapped(g, e) = e /\ Kept(e, S) = e
    BY EmptySeq, MappedNothing, KeptNothing
  <2> HIDE DEF e
  <2>2. e \in N
    BY <2>1
  <2>3. QED
    BY <2>2 DEF e
<1>2. ASSUME NEW s \in Seq(C), s \in N, NEW x \in C PROVE Append(s, x) \in N
  <2> DEFINE u == Append(s, x)
             k == Kept(s, S)
             q == Mapped(g, k)
             l == Kept(q, S)
             z == g[x]
  <2>1. u \in Seq(C)
    BY AppendProperties
  <2>3. k \in Seq(C) /\ Kept(u, S) = IF x \in S THEN Append(k, x) ELSE k
    <3>1. KeepsMore(C, s, x, S)
      BY KeptMore
    <3>2. QED
      BY <3>1 DEF KeepsMore
  <2>4. Mapped(h, l) = Mapped(h, k)
    BY <1>2
  <2>5. z \in C /\ (x \in S => z \in S /\ h[z] = h[x])
    OBVIOUS
  <2> HIDE DEF u, k
  <2>a. k \in Seq(C)
    BY <2>3
  <2>6. q \in Seq(C) /\ Mapped(g, Append(k, x)) = Append(q, z)
    <3>1. MapsMore(C, g, k, x)
      BY <2>a, MappedMore
    <3>2. QED
      BY <3>1 DEF MapsMore
  <2> HIDE DEF q, z
  <2>7. l \in Seq(C) /\ Kept(Append(q, z), S) = IF z \in S THEN Append(l, z) ELSE l
    <3>1. KeepsMore(C, q, z, S)
      BY <2>5, <2>6, KeptMore
    <3>2. QED
      BY <3>1 DEF KeepsMore, l
  <2> HIDE DEF l
  <2>8. Mapped(h, Append(l, z)) = Append(Mapped(h, l), h[z])
    <3>1. MapsMore(C, h, l, z)
      BY <2>5, <2>7, MappedMore
    <3>2. QED
      BY <3>1 DEF MapsMore
  <2>9. Mapped(h, Append(k, x)) = Append(Mapped(h, k), h[x])
    <3>1. MapsMore(C, h, k, x)
      BY <2>a, MappedMore
    <3>2. QED
      BY <3>1 DEF MapsMore
  <2>10. Mapped(g, k) = q /\ Kept(q, S) = l
    BY DEF q, l
  <2>11. CASE x \in S
    <3>1. Kept(u, S) = Append(k, x)
      BY <2>3, <2>11
    <3>2. Kept(Mapped(g, Kept(u, S)), S) = Append(l, z)
      BY <2>5, <2>6, <2>7, <2>11, <3>1
    <3>3. Mapped(h, Kept(Mapped(g, Kept(u, S)), S)) = Mapped(h, Kept(u, S))
      BY <2>4, <2>5, <2>8, <2>9, <2>11, <3>1, <3>2
    <3>4. QED
      BY <2>1, <3>3 DEF u
  <2>12. CASE x \notin S
    <3>1. Kept(u, S) = k
      BY <2>3, <2>12
    <3>2. Mapped(h, Kept(Mapped(g, Kept(u, S)), S)) = Mapped(h, Kept(u, S))
      BY <2>4, <2>10, <3>1
    <3>3. QED
      BY <2>1, <3>2 DEF u
  <2>13. QED
    BY <2>11, <2>12
<1>3. Seq(C) \subseteq N
  <2> HIDE DEF N
  <2>1. QED
    BY <1>1, <1>2, TextInduction
<1>4. QED
  BY <1>3

\* The characters of CharactersAssumption, and the conversions as functions.
Alphabet == {"a", "A", "u", "U", "1", ",", ":", " ", "\t", "\r", "\n"}
Upper == [x \in Alphabet |-> ToUpper(x)]
WidelyUpper == [x \in Alphabet |-> WideUpper(x)]
WidelyLower == [x \in Alphabet |-> WideLower(x)]
Taking(extra) == {"a", "A", "u", "U", "1"} \cup extra

LEMMA Conversions ==
  /\ Upper \in [Alphabet -> Alphabet]
  /\ WidelyUpper \in [Alphabet -> Alphabet]
  /\ WidelyLower \in [Alphabet -> Alphabet]
<1>1. \A x \in Alphabet : ToUpper(x) \in Alphabet
  BY Zenon DEF Alphabet, ToUpper
<1>2. \A x \in Alphabet : WideUpper(x) \in Alphabet
  BY Zenon DEF Alphabet, WideUpper
<1>3. \A x \in Alphabet : WideLower(x) \in Alphabet
  BY Zenon DEF Alphabet, WideLower
<1>4. QED
  BY <1>1, <1>2, <1>3 DEF Upper, WidelyUpper, WidelyLower

LEMMA CanonicalMaps ==
  ASSUME NEW t \in Seq(Alphabet), NEW extra
  PROVE  Canonical(t, extra) = Kept(Mapped(Upper, t), {"a", "A", "1"} \cup extra)
<1>1. \A k \in DOMAIN t : t[k] \in Alphabet
  BY LenProperties, ElementOfSeq
<1>2. [k \in DOMAIN t |-> ToUpper(t[k])] = [k \in DOMAIN t |-> Upper[t[k]]]
  BY <1>1 DEF Upper
<1>3. QED
  BY <1>2 DEF Canonical, Mapped

LEMMA Utf8Maps ==
  ASSUME NEW t \in Seq(Alphabet), NEW extra
  PROVE  /\ Utf8Canonical(t, extra, 1) = Mapped(WidelyUpper, Kept(t, Taking(extra)))
         /\ Utf8Canonical(t, extra, -1) = Mapped(WidelyLower, Kept(t, Taking(extra)))
<1> DEFINE k == Kept(t, Taking(extra))
<1>1. k \in Seq(Alphabet)
  <2>1. "a" \in Alphabet
    BY Zenon DEF Alphabet
  <2>2. KeepsMore(Alphabet, t, "a", Taking(extra))
    BY <2>1, KeptMore
  <2>3. QED
    BY <2>2 DEF KeepsMore
<1>2. /\ Utf8Canonical(t, extra, 1) = [i \in DOMAIN k |-> WideUpper(k[i])]
      /\ Utf8Canonical(t, extra, -1) = [i \in DOMAIN k |-> WideLower(k[i])]
  BY DEF Utf8Canonical, Taking
<1> HIDE DEF k
<1>3. \A i \in DOMAIN k : k[i] \in Alphabet
  BY <1>1, LenProperties, ElementOfSeq
<1>4. /\ [i \in DOMAIN k |-> WideUpper(k[i])] = [i \in DOMAIN k |-> WidelyUpper[k[i]]]
      /\ [i \in DOMAIN k |-> WideLower(k[i])] = [i \in DOMAIN k |-> WidelyLower[k[i]]]
  BY <1>3 DEF WidelyUpper, WidelyLower
<1>5. QED
  BY <1>2, <1>4 DEF Mapped, k

\* Both ways to the canonical form in capitals.
LEMMA CanonicalIs ==
  ASSUME NEW t \in Seq(Alphabet)
  PROVE  Canonical(t, {",", ":"}) = Kept(Utf8Canonical(t, {",", ":"}, 1), {"A", "1"} \cup {",", ":"})
<1> DEFINE C == Alphabet
           E == {",", ":"}
           S == {"a", "A", "1"} \cup E
           S2 == Taking(E)
           S3 == {"A", "1"} \cup E
<1>1. \A x \in C : /\ Upper[x] = ToUpper(x) /\ WidelyUpper[x] = WideUpper(x)
  BY DEF Upper, WidelyUpper
<1>2. \A x \in C : /\ ToUpper(x) \in S <=> x \in S2 /\ WideUpper(x) \in S3
                   /\ ToUpper(x) \in S => ToUpper(x) = WideUpper(x)
  BY DEF Alphabet, ToUpper, WideUpper, Taking
<1>3. Upper \in [C -> C] /\ WidelyUpper \in [C -> C]
  BY Conversions
<1>4. Canonical(t, E) = Kept(Mapped(Upper, t), S)
  BY CanonicalMaps
<1>5. Utf8Canonical(t, E, 1) = Mapped(WidelyUpper, Kept(t, S2))
  BY Utf8Maps
<1> DEFINE f == Upper
           g == WidelyUpper
<1>6. \A x \in C : /\ f[x] \in S <=> x \in S2 /\ g[x] \in S3
                   /\ f[x] \in S => f[x] = g[x]
  <2> HIDE DEF S, S2, S3, C
  <2>1. \A x \in C : f[x] = ToUpper(x) /\ g[x] = WideUpper(x)
    BY <1>1
  <2> HIDE DEF f, g
  <2>2. QED
    BY <1>2, <2>1
<1>7. t \in Seq(C) /\ f \in [C -> C] /\ g \in [C -> C]
  BY <1>3
<1> HIDE DEF f, g, S, S2, S3, C
<1>8. Kept(Mapped(f, t), S) = Kept(Mapped(g, Kept(t, S2)), S3)
  BY <1>6, <1>7, KeepsTheSame
<1>9. QED
  BY <1>4, <1>5, <1>8 DEF f, g, S3

\* To small letters, directly or by way of the capitals.
LEMMA LowerIs ==
  ASSUME NEW t \in Seq(Alphabet)
  PROVE  Utf8Canonical(Utf8Canonical(t, {",", ":"}, 1), {",", ":"}, -1) = Utf8Canonical(t, {",", ":"}, -1)
<1> DEFINE C == Alphabet
           E == {",", ":"}
           S == Taking(E)
           u == Utf8Canonical(t, E, 1)
           g == WidelyUpper
           h == WidelyLower
<1>1. \A x \in C : WideUpper(x) \in C /\ WideLower(x) \in C
  BY DEF Alphabet, WideUpper, WideLower
<1>2. \A x \in C : x \in S => WideUpper(x) \in S /\ WideLower(WideUpper(x)) = WideLower(x)
  BY DEF Alphabet, WideUpper, WideLower, Taking
<1>3. \A x \in C : x \in S => g[x] \in S /\ h[g[x]] = h[x]
  BY <1>1, <1>2 DEF WidelyUpper, WidelyLower
<1>4. g \in [C -> C] /\ h \in [C -> C]
  BY Conversions
<1>5. u = Mapped(g, Kept(t, S)) /\ Utf8Canonical(t, E, -1) = Mapped(h, Kept(t, S))
  BY Utf8Maps
<1>6. u \in Seq(C)
  <2> DEFINE a == "a"
             k == Kept(t, S)
  <2>1. a \in C
    BY Zenon DEF Alphabet
  <2> HIDE DEF a, C, S, g
  <2>2. KeepsMore(C, t, a, S)
    BY <2>1, KeptMore DEF C
  <2>3. k \in Seq(C)
    BY <2>2 DEF KeepsMore
  <2> HIDE DEF k
  <2>4. MapsMore(C, g, k, a)
    BY <1>4, <2>1, <2>3, MappedMore
  <2>5. QED
    BY <1>5, <2>4 DEF MapsMore, k
<1> HIDE DEF u
<1>7. Utf8Canonical(u, E, -1) = Mapped(h, Kept(u, S))
  BY <1>6, Utf8Maps
<1>8. Mapped(h, Kept(Mapped(g, Kept(t, S)), S)) = Mapped(h, Kept(t, S))
  <2>1. t \in Seq(C)
    OBVIOUS
  <2> HIDE DEF C, S, g, h
  <2>2. QED
    BY <1>3, <1>4, <2>1, MapsTheSame
<1>9. QED
  BY <1>5, <1>7, <1>8 DEF u

\* Without a conversion what is no blank is kept.
LEMMA KeptOnly ==
  ASSUME NEW t, NEW S, NEW T, \A k \in DOMAIN t : t[k] \in S <=> t[k] \in T
  PROVE  Kept(t, S) = Kept(t, T)
<1>1. [k \in DOMAIN t |-> IF t[k] \in S THEN <<t[k]>> ELSE <<>>]
        = [k \in DOMAIN t |-> IF t[k] \in T THEN <<t[k]>> ELSE <<>>]
  OBVIOUS
<1>2. QED
  BY <1>1 DEF Kept

LEMMA NothingConverted ==
  ASSUME NEW t \in Seq(Characters)
  PROVE  Utf8Canonical(t, {",", ":"}, 0) = Kept(t, Characters \ Blanks)
<1> DEFINE E == {",", ":"}
           S == Taking(E)
           T == Characters \ Blanks
           k == Kept(t, S)
<1>1. \A x \in Characters : x \in S <=> x \in T
  BY CharactersAssumption DEF Taking, Blanks
<1>2. \A i \in DOMAIN t : t[i] \in Characters
  BY LenProperties, ElementOfSeq
<1> HIDE DEF S, T
<1>3. \A i \in DOMAIN t : t[i] \in S <=> t[i] \in T
  BY <1>1, <1>2
<1>4. Kept(t, S) = Kept(t, T)
  BY <1>3, KeptOnly
<1>5. Utf8Canonical(t, E, 0) = [i \in DOMAIN k |-> k[i]]
  BY DEF Utf8Canonical, Taking, S
<1>6. \A x \in Seq(Characters) : x = [i \in DOMAIN x |-> x[i]]
  BY LenProperties
<1>7. k \in Seq(Characters)
  <2>1. CASE Characters = {}
    <3>1. DOMAIN t = {} /\ DOMAIN t = 1..Len(t) /\ Len(t) \in Nat
      BY <1>2, <2>1, LenProperties
    <3> DEFINE e == <<>>
    <3>2. t = e
      BY <3>1, EmptySeq
    <3> HIDE DEF e
    <3>3. k = e
      BY <3>2, KeptNothing DEF e
    <3>4. QED
      BY <3>3, EmptySeq DEF e
  <2>2. CASE Characters # {}
    <3>1. PICK x : x \in Characters
      BY <2>2
    <3>2. KeepsMore(Characters, t, x, S)
      BY <3>1, KeptMore
    <3>3. QED
      BY <3>2 DEF KeepsMore
  <2>3. QED
    BY <2>1, <2>2
<1>8. QED
  <2> HIDE DEF k
  <2>1. k = [i \in DOMAIN k |-> k[i]]
    BY <1>6, <1>7
  <2>2. QED
    BY <1>4, <1>5, <2>1 DEF k, T

\* What PartsRight says of a text.
SplitOfText(t) ==
  /\ Split(t, ",") = SplitAny(t, {","})
  /\ SplitPair(t, {","}) # Thrown <=> Cardinality({k \in DOMAIN t : t[k] = ","}) = 1
HeaderOfText(t) ==
  /\ SplitColonBlank(t) = Thrown <=> ~ Contains(t, ":")
  /\ SplitColonBlank(t) # Thrown =>
       CutAtColon(t, ":", {" ", "\t"}, SplitColonBlank(t)[1][1], SplitColonBlank(t)[1][2])
ChopOfText(t) ==
  /\ IsPrefix(Chop(t), t) /\ (Chop(t) # <<>> => Last(Chop(t)) \notin Blanks)
  /\ Blank(From(t, Len(Chop(t)) + 1))
CanonicalOfText(t) ==
  LET E == {",", ":"}
      upper == Utf8Canonical(t, E, 1)
  IN /\ Canonical(t, E) = Kept(upper, {"A", "1"} \cup E)
     /\ Utf8Canonical(upper, E, -1) = Utf8Canonical(t, E, -1)
     /\ Utf8Canonical(t, E, 0) = Kept(t, Characters \ Blanks)

LEMMA TextParts ==
  ASSUME NEW t \in Seq(Characters)
  PROVE  SplitOfText(t) /\ HeaderOfText(t) /\ ChopOfText(t) /\ CanonicalOfText(t)
<1>1. SplitOfText(t)
  BY SplitIs, PairIs DEF SplitOfText
<1>2. HeaderOfText(t)
  BY ColonBlankIs DEF HeaderOfText
<1>3. ChopOfText(t)
  BY ChopIs DEF ChopOfText
<1>4. t \in Seq(Alphabet)
  <2>1. DOMAIN t = 1..Len(t) /\ Len(t) \in Nat /\ \A k \in 1..Len(t) : t[k] \in Characters
    BY LenProperties, ElementOfSeq
  <2>2. Characters \subseteq Alphabet
    BY CharactersAssumption DEF Alphabet
  <2>3. QED
    BY <2>2
<1>5. CanonicalOfText(t)
  BY <1>4, CanonicalIs, LowerIs, NothingConverted DEF CanonicalOfText
<1>6. QED
  BY <1>1, <1>2, <1>3, <1>5

\* split() finds the parts between the commas and split_pair() two of them if
\* there is one comma; split_colon_blank() loses a colon and blanks only,
\* chop() white space only, and the ways to a canonical form lead to the same
\* one (util.h, util.cpp), for every text of the characters they tell apart.
THEOREM PartsAreRight == Spec => []PartsRight
<1>1. TextTyped => PartsRight
  <2> SUFFICES ASSUME TextTyped, unit = "text" PROVE PartsRight
    BY DEF PartsRight
  <2>1. SplitOfText(text) /\ HeaderOfText(text) /\ ChopOfText(text) /\ CanonicalOfText(text)
    BY TextParts DEF TextTyped
  <2>2. SplitOfText(text) /\ ChopOfText(text)
    BY <2>1
  <2>3. CanonicalOfText(text)
    BY <2>1
  <2> DEFINE hh == SplitColonBlank(text)
             first == hh[1][1]
             second == hh[1][2]
  <2>4. /\ hh = Thrown <=> ~Contains(text, ":")
        /\ hh # Thrown =>
             /\ ~Contains(first, ":") /\ IsPrefix(first \o <<":">>, text)
             /\ IsSuffix(second, text) /\ (second # <<>> => second[1] \notin {" ", "\t"})
             /\ \A k \in Len(first) + 2..Len(text) - Len(second) : text[k] \in {" ", "\t"}
    BY Zenon, <2>1 DEF HeaderOfText, CutAtColon
  <2>5. QED
    BY Zenon, <2>2, <2>3, <2>4 DEF PartsRight, SplitOfText, ChopOfText, CanonicalOfText
<1>2. QED
  BY <1>1, TypedAlways, PTL

-----------------------------------------------------------------------------
(* capped_vector *)

\* The vector holds what was pushed and not popped.
Holds(c, s) ==
  /\ c = [size |-> Len(s), v |-> c.v] /\ c.v \in [0..Capacity - 1 -> Int]
  /\ s \in Seq(Elements) /\ Len(s) <= Capacity
  /\ \A k \in 1..Len(s) : c.v[k - 1] = s[k]
StackHeld == unit = "vector" => Holds(cv, stack)

LEMMA HeldAtFirst == Holds(NewCapped(Capacity, 0), <<>>)
BY VectorAssumption DEF Holds, NewCapped

LEMMA HeldPushed ==
  ASSUME NEW c, NEW s, Holds(c, s), NEW x \in Elements, ~ CappedFull(c)
  PROVE  Holds(PushBack(c, x), Append(s, x))
<1> DEFINE n == Len(s)
           u == Append(s, x)
           d == PushBack(c, x)
           w == c.v
           y == [w EXCEPT ![n] = x]
<1>1. /\ s \in Seq(Elements) /\ n \in Nat /\ n <= Capacity /\ Capacity \in Nat /\ x \in Int
      /\ w \in [0..Capacity - 1 -> Int] /\ \A k \in 1..n : w[k - 1] = s[k]
  BY VectorAssumption, LenProperties DEF Holds
<1>2. c.size = n
  BY DEF Holds
<1>3. n < Capacity
  <2>1. DOMAIN c.v = 0..Capacity - 1
    BY <1>1
  <2>2. Cardinality(0..Capacity - 1) = Capacity
    <3> DEFINE a == 0
               b == Capacity - 1
    <3>1. a \in Int /\ b \in Int /\ b - a + 1 = Capacity /\ (a > b => Capacity = 0)
      BY <1>1
    <3> HIDE DEF a, b
    <3>2. Cardinality(a..b) = IF a > b THEN 0 ELSE b - a + 1
      BY <3>1, FS_Interval
    <3>3. QED
      BY <3>1, <3>2 DEF a, b
  <2>3. ~ (n >= Capacity)
    BY <1>2, <2>1, <2>2 DEF CappedFull
  <2>4. QED
    BY <1>1, <2>3
<1>4. u \in Seq(Elements) /\ Len(u) = n + 1 /\ u[n + 1] = x /\ \A k \in 1..n : u[k] = s[k]
  BY <1>1, AppendProperties
<1>5. d = [size |-> n + 1, v |-> y]
  BY <1>2 DEF PushBack
<1>6. y \in [0..Capacity - 1 -> Int] /\ y[n] = x /\ \A k \in 1..n : y[k - 1] = w[k - 1]
  <2> HIDE DEF w
  <2>1. QED
    BY <1>1, <1>3
<1> HIDE DEF u, d, y, w
<1>7. \A k \in 1..n + 1 : y[k - 1] = u[k]
  <2>1. \A k \in 1..n + 1 : (k = n + 1 /\ k - 1 = n) \/ k \in 1..n
    BY <1>1
  <2>2. QED
    BY <1>1, <1>4, <1>6, <2>1
<1>8. d.v = y /\ d.size = n + 1
  BY <1>5
<1>9. QED
  BY <1>1, <1>3, <1>4, <1>5, <1>6, <1>7, <1>8 DEF Holds, u, d

LEMMA HeldPopped ==
  ASSUME NEW c, NEW s, Holds(c, s), ~ CappedEmpty(c)
  PROVE  Holds(PopBack(c), Front(s))
<1> DEFINE n == Len(s)
           u == Front(s)
           d == PopBack(c)
           w == c.v
<1>1. /\ s \in Seq(Elements) /\ n \in Nat /\ n <= Capacity
      /\ w \in [0..Capacity - 1 -> Int] /\ \A k \in 1..n : w[k - 1] = s[k]
  BY LenProperties DEF Holds
<1>2. c = [size |-> n, v |-> w] /\ n # 0
  BY DEF Holds, CappedEmpty
<1>3. d = [size |-> n - 1, v |-> w]
  BY <1>2 DEF PopBack
<1>4. u \in Seq(Elements) /\ Len(u) = n - 1 /\ \A k \in 1..n - 1 : u[k] = s[k]
  <2> DEFINE m == n - 1
  <2>1. m \in Nat /\ m <= Len(s) /\ u = SubSeq(s, 1, m)
    BY <1>1, <1>2 DEF Front
  <2> HIDE DEF m
  <2>2. SubSeq(s, 1, m) \in Seq(Elements) /\ Len(SubSeq(s, 1, m)) = m /\ \A k \in 1..m : SubSeq(s, 1, m)[k] = s[k]
    BY <1>1, <2>1, BeginsWith
  <2>3. QED
    BY <2>1, <2>2 DEF m
<1>5. d.v = w
  BY <1>3
<1> HIDE DEF u, d, w
<1>6. \A k \in 1..n - 1 : w[k - 1] = u[k]
  BY <1>1, <1>4
<1>7. /\ d = [size |-> Len(u), v |-> d.v] /\ d.v \in [0..Capacity - 1 -> Int]
      /\ u \in Seq(Elements) /\ Len(u) <= Capacity
      /\ \A k \in 1..Len(u) : d.v[k - 1] = u[k]
  <2>1. n - 1 <= Capacity
    BY <1>1, VectorAssumption
  <2>2. d = [size |-> Len(u), v |-> d.v] /\ d.v \in [0..Capacity - 1 -> Int]
    BY <1>1, <1>3, <1>4, <1>5
  <2>3. \A k \in 1..Len(u) : d.v[k - 1] = u[k]
    BY <1>4, <1>5, <1>6
  <2>4. QED
    BY <1>4, <2>1, <2>2, <2>3
<1>8. Holds(d, u)
  BY <1>7 DEF Holds
<1>9. QED
  BY <1>8 DEF u, d

LEMMA HeldAlways == Spec => []StackHeld
<1>1. Init => StackHeld
  BY HeldAtFirst DEF Init, StackHeld
<1>2. StackHeld /\ [Next]_vars => StackHeld'
  <2> SUFFICES ASSUME StackHeld, [Next]_vars, unit' = "vector" PROVE Holds(cv', stack')
    BY DEF StackHeld
  <2>1. CASE Push
    <3>1. Holds(cv, stack) /\ ~ CappedFull(cv)
      BY <2>1 DEF Push, StackHeld
    <3>2. PICK x \in Elements : cv' = PushBack(cv, x) /\ stack' = Append(stack, x)
      BY <2>1 DEF Push
    <3>3. QED
      BY <3>1, <3>2, HeldPushed
  <2>2. CASE Pop
    <3>1. Holds(cv, stack) /\ ~ CappedEmpty(cv) /\ cv' = PopBack(cv) /\ stack' = Front(stack)
      BY <2>2 DEF Pop, StackHeld
    <3>2. QED
      BY <3>1, HeldPopped
  <2>3. CASE UNCHANGED <<unit, cv, stack>>
    BY <2>3 DEF StackHeld
  <2>4. QED
    BY <2>1, <2>2, <2>3 DEF Next, Type, Write, Read, Update, Log, vars
<1>3. QED
  BY <1>1, <1>2, PTL DEF Spec

-----------------------------------------------------------------------------
(* safe_advance() and distance_at_least() *)

\* Step by step one gets where the arithmetic leads.
LEMMA AdvanceSame ==
  ASSUME NEW n \in Nat, NEW i \in 0..n, NEW d \in Nat
  PROVE  SafeAdvanceForward(i, n, d) = IF n - i > d THEN i + d ELSE n
<1> DEFINE D == 0..d
           Body(h, j) == IF j = 0 THEN i ELSE IF h[j - 1] = n THEN n ELSE h[j - 1] + 1
           All(h) == h = [j \in D |-> Body(h, j)]
           L == CHOOSE h : All(h)
           At(j) == IF n - i > j THEN i + j ELSE n
           E == [j \in D |-> At(j)]
<1>1. SafeAdvanceForward(i, n, d) = L[d]
  BY DEF SafeAdvanceForward
<1>2. \A j \in D : At(j) = IF j = 0 THEN i ELSE IF At(j - 1) = n THEN n ELSE At(j - 1) + 1
  OBVIOUS
<1>3. \A j \in D : j # 0 => j - 1 \in D
  OBVIOUS
<1>4. \A j \in D : Body(E, j) = At(j)
  <2> SUFFICES ASSUME NEW j \in D PROVE Body(E, j) = At(j)
    OBVIOUS
  <2>1. j # 0 => E[j - 1] = At(j - 1)
    <3> HIDE DEF At, D
    <3>1. QED
      BY <1>3
  <2> HIDE DEF E, At
  <2>2. QED
    BY <1>2, <2>1
<1>5. All(E)
  <2> HIDE DEF Body, At
  <2>1. QED
    BY <1>4
<1>6. All(L)
  <2> HIDE DEF All, E
  <2>1. QED
    BY <1>5
<1>7. \A j \in D : L[j] = Body(L, j)
  <2> HIDE DEF Body, L
  <2>1. QED
    BY <1>6
<1> DEFINE S == {j \in Nat : j \in D => L[j] = At(j)}
<1> HIDE DEF L, E
<1>8. 0 \in S
  BY <1>7
<1>9. ASSUME NEW j \in Nat, j \in S PROVE j + 1 \in S
  <2> SUFFICES ASSUME j + 1 \in D PROVE L[j + 1] = At(j + 1)
    OBVIOUS
  <2> DEFINE m == j + 1
  <2>1. m \in D /\ m - 1 = j /\ m # 0 /\ j \in D
    OBVIOUS
  <2>2. L[j] = At(j)
    BY <1>9, <2>1
  <2> HIDE DEF m, At, D
  <2>3. L[m] = IF L[j] = n THEN n ELSE L[j] + 1
    BY <1>7, <2>1
  <2>4. At(m) = IF At(j) = n THEN n ELSE At(j) + 1
    BY <1>2, <2>1
  <2>5. L[m] = At(m)
    BY <2>2, <2>3, <2>4
  <2>6. QED
    BY <2>5 DEF m
<1>10. Nat \subseteq S
  <2> HIDE DEF S
  <2>1. QED
    BY <1>8, <1>9, SetInduction
<1>11. L[d] = At(d)
  BY <1>10
<1>12. QED
  BY <1>1, <1>11

LEMMA RangesRight ==
  ASSUME NEW n \in Nat, NEW i \in 0..n, NEW d \in 1..n + 1
  PROVE  /\ SafeAdvanceRandom(i, n, d) = SafeAdvanceForward(i, n, d)
         /\ DistanceAtLeastRandom(i, n, d) <=> DistanceAtLeastInput(i, n, d)
         /\ NextIsEnd(i, n) <=> i # n /\ SafeAdvanceForward(i, n, 1) = n
<1>1. SafeAdvanceForward(i, n, d) = IF n - i > d THEN i + d ELSE n
  BY AdvanceSame
<1>2. SafeAdvanceForward(i, n, 1) = IF n - i > 1 THEN i + 1 ELSE n
  <2> DEFINE o == 1
  <2>1. o \in Nat
    OBVIOUS
  <2> HIDE DEF o
  <2>2. SafeAdvanceForward(i, n, o) = IF n - i > o THEN i + o ELSE n
    BY <2>1, AdvanceSame
  <2>3. QED
    BY <2>2 DEF o
<1>3. DistanceAtLeastRandom(i, n, d) <=> DistanceAtLeastInput(i, n, d)
  <2>1. n - i >= d => n - i \in 1..n - i
    OBVIOUS
  <2>2. QED
    BY <2>1 DEF DistanceAtLeastRandom, DistanceAtLeastInput
<1>4. NextIsEnd(i, n) <=> i # n /\ SafeAdvanceForward(i, n, 1) = n
  BY <1>2 DEF NextIsEnd
<1>5. QED
  BY <1>1, <1>3, <1>4 DEF SafeAdvanceRandom

-----------------------------------------------------------------------------
(* check_strictly_ascending() *)

LEMMA DivisionOnly ==
  ASSUME NEW x \in Int, NEW d \in Int, d > 0, NEW q \in Int, NEW r \in Int, 0 <= r, r < d, x = d * q + r
  PROVE  x % d = r
<1> DEFINE p == x \div d
           s == x % d
<1>1. p \in Int /\ s \in Int /\ x - d * p = s /\ 0 <= s /\ s < d
  BY Division
<1> HIDE DEF p, s
<1>2. p + 1 \in Int /\ q + 1 \in Int /\ d * (p + 1) = d * p + d /\ d * (q + 1) = d * q + d
      /\ d * p \in Int /\ d * q \in Int
  BY <1>1
<1>3. d * p < d * (q + 1) /\ d * q < d * (p + 1)
  BY <1>1, <1>2
<1>4. p < q + 1 /\ q < p + 1
  BY <1>1, <1>2, <1>3, Smaller
<1>5. p = q
  BY <1>1, <1>4
<1>6. QED
  BY <1>1, <1>2, <1>5 DEF s

\* The places of a stride.
LEMMA Strides ==
  ASSUME NEW x \in Nat, NEW d \in Nat \ {0}
  PROVE  /\ x % d = 0 /\ x # 0 => x >= d /\ (x - d) % d = 0
         /\ x >= d /\ (x - d) % d = 0 => x % d = 0
         /\ 0 % d = 0
         /\ (x + 1) % d = 1 % d <=> x % d = 0
<1> DEFINE q == x \div d
           r == x % d
<1>1. q \in Int /\ r \in Int /\ x - d * q = r /\ 0 <= r /\ r < d /\ d \in Int /\ d > 0
  BY Division
<1>2. 0 % d = 0
  <2> DEFINE z == 0
  <2>1. z \in Int /\ z = d * z + z /\ 0 <= z /\ z < d
    BY <1>1
  <2> HIDE DEF z
  <2>2. z % d = z
    BY <1>1, <2>1, DivisionOnly
  <2>3. QED
    BY <2>2 DEF z
<1> DEFINE y == x - d
           p == y \div d
           s == y % d
           m == q - 1
           o == p + 1
           z == 0
<1>3. p \in Int /\ s \in Int /\ y \in Int /\ y - d * p = s
  <2>1. y \in Int
    BY <1>1
  <2> HIDE DEF y
  <2>2. QED
    BY <1>1, <2>1, Division
<1> HIDE DEF q, r, p, s
<1>4. d * m = d * q - d /\ d * o = d * p + d /\ d * q \in Int /\ d * p \in Int /\ m \in Int /\ o \in Int
  BY <1>1, <1>3
<1>5. r = 0 /\ x # 0 => x >= d /\ y % d = 0
  <2> SUFFICES ASSUME r = 0, x # 0 PROVE x >= d /\ y % d = 0
    OBVIOUS
  <2>1. d * z = 0
    BY <1>1
  <2>2. d * z < d * q /\ z \in Int
    BY <1>1, <1>4, <2>1
  <2>3. z < q
    <3> HIDE DEF z
    <3>1. QED
      BY <1>1, <2>2, Smaller
  <2>4. d * 1 <= d * q
    <3>1. z + 1 <= q
      BY <1>1, <2>3
    <3> DEFINE e == 1
    <3>2. e \in Int /\ e <= q /\ d \in Nat \ {0}
      BY <1>1, <3>1
    <3> HIDE DEF e
    <3>3. d * e <= d * q
      BY <1>1, <3>2, TimesGrows
    <3>4. QED
      BY <3>3 DEF e
  <2>5. x >= d
    BY <1>1, <1>4, <2>4
  <2>6. y = d * m + z /\ 0 <= z /\ z < d /\ z \in Int
    BY <1>1, <1>4
  <2>7. y % d = z
    <3> HIDE DEF y, m, z
    <3>1. QED
      BY <1>1, <1>3, <1>4, <2>6, DivisionOnly
  <2>8. QED
    BY <2>5, <2>7
<1>6. s = 0 => x % d = 0
  <2> SUFFICES ASSUME s = 0 PROVE x % d = 0
    OBVIOUS
  <2>1. x = d * o + z /\ 0 <= z /\ z < d /\ z \in Int /\ x \in Int
    BY <1>1, <1>3, <1>4
  <2>2. x % d = z
    <3> HIDE DEF o, z
    <3>1. QED
      BY <1>1, <1>4, <2>1, DivisionOnly
  <2>3. QED
    BY <2>2
<1>7. (x + 1) % d = 1 % d <=> r = 0
  <2> DEFINE w == x + 1
             e == 1
             t == r + 1
  <2>1. CASE d = 1
    <3> DEFINE f == x + 1
    <3>1. w = d * f + z /\ e = d * e + z /\ z < d /\ 0 <= z /\ z \in Int /\ w \in Int /\ e \in Int /\ f \in Int
      BY <1>1, <2>1
    <3>2. r = 0
      BY <1>1, <2>1
    <3> HIDE DEF w, e, f, z
    <3>3. w % d = z
      BY <1>1, <3>1, DivisionOnly
    <3>4. e % d = z
      BY <1>1, <3>1, DivisionOnly
    <3>5. QED
      BY <3>2, <3>3, <3>4 DEF w, e
  <2>2. CASE d # 1 /\ t < d
    <3>1. w = d * q + t /\ e = d * z + e /\ 0 <= t /\ t < d /\ 0 <= e /\ e < d /\ w \in Int /\ e \in Int /\ z \in Int /\ t \in Int
      BY <1>1, <1>4, <2>2
    <3>2. t = e <=> r = 0
      BY <1>1
    <3> HIDE DEF w, e, t, z
    <3>3. w % d = t
      BY <1>1, <3>1, DivisionOnly
    <3>4. e % d = e
      BY <1>1, <3>1, DivisionOnly
    <3>5. QED
      BY <3>2, <3>3, <3>4 DEF w, e
  <2>3. CASE d # 1 /\ t = d
    <3> DEFINE f == q + 1
    <3>1. d * f = d * q + d /\ f \in Int
      BY <1>1
    <3>2. w = d * f + z /\ e = d * z + e /\ 0 <= z /\ z < d /\ 0 <= e /\ e < d /\ w \in Int /\ e \in Int /\ z \in Int /\ e # z
      BY <1>1, <1>4, <2>3, <3>1
    <3>3. r # 0
      BY <1>1, <2>3
    <3> HIDE DEF w, e, t, z, f
    <3>4. w % d = z
      BY <1>1, <3>1, <3>2, DivisionOnly
    <3>5. e % d = e
      BY <1>1, <3>2, DivisionOnly
    <3>6. QED
      BY <3>2, <3>3, <3>4, <3>5 DEF w, e
  <2>4. QED
    BY <1>1, <2>1, <2>2, <2>3
<1>8. QED
  BY <1>2, <1>5, <1>6, <1>7 DEF r, s

\* From place i on, the elements ascend in strides of d.
OnStride(i, k, d) == k > i /\ (k - 1 - i) % d = 0
Rises(s, d, i) == \A k \in 1..Len(s) - d : OnStride(i, k, d) => s[k] < s[k + d]

LEMMA RisesNext ==
  ASSUME NEW s, NEW n \in Nat, n = Len(s), NEW d \in Nat \ {0}, NEW i \in 0..n, NEW j,
         j = SafeAdvanceRandom(i, n, d)
  PROVE  Rises(s, d, i) <=> (i = n \/ j = n \/ (s[i + 1] < s[j + 1] /\ Rises(s, d, j)))
<1>1. CASE n - i > d
  <2>1. j = i + d /\ j \in 0..n /\ i + 1 \in 1..n - d /\ i # n /\ j # n /\ i + 1 + d = j + 1
    BY <1>1 DEF SafeAdvanceRandom
  <2>2. \A k \in 1..n - d : OnStride(i, k, d) <=> k = i + 1 \/ OnStride(j, k, d)
    <3> SUFFICES ASSUME NEW k \in 1..n - d
                 PROVE  OnStride(i, k, d) <=> k = i + 1 \/ OnStride(j, k, d)
      OBVIOUS
    <3> DEFINE x == k - 1 - i
               y == k - 1 - j
    <3>1. k > i => x \in Nat
      OBVIOUS
    <3>2. y = x - d /\ x \in Int /\ (k = i + 1 <=> x = 0) /\ (k > i <=> x >= 0) /\ (k > j <=> x >= d)
      BY <2>1
    <3> HIDE DEF x
    <3>3. x \in Nat => /\ x % d = 0 /\ x # 0 => x >= d /\ (x - d) % d = 0
                       /\ x >= d /\ (x - d) % d = 0 => x % d = 0
                       /\ 0 % d = 0
      BY Strides
    <3>4. OnStride(i, k, d) <=> k > i /\ x % d = 0
      BY DEF OnStride, x
    <3>5. OnStride(j, k, d) <=> k > j /\ (x - d) % d = 0
      BY <3>2 DEF OnStride
    <3>6. x >= d => x >= 0
      BY <3>2
    <3>7. k = i + 1 => k > i
      OBVIOUS
    <3>8. QED
      BY <3>1, <3>2, <3>3, <3>4, <3>5, <3>6, <3>7
  <2>3. Rises(s, d, i) <=> \A k \in 1..n - d : OnStride(i, k, d) => s[k] < s[k + d]
    BY DEF Rises
  <2>4. Rises(s, d, j) <=> \A k \in 1..n - d : OnStride(j, k, d) => s[k] < s[k + d]
    BY DEF Rises
  <2> DEFINE m == i + 1
             Less(k) == s[k] < s[k + d]
  <2>5. Less(m) <=> s[i + 1] < s[j + 1]
    BY <2>1
  <2>6. m \in 1..n - d /\ \A k \in 1..n - d : OnStride(i, k, d) <=> k = m \/ OnStride(j, k, d)
    BY <2>1, <2>2
  <2>7. /\ Rises(s, d, i) <=> \A k \in 1..n - d : OnStride(i, k, d) => Less(k)
        /\ Rises(s, d, j) <=> \A k \in 1..n - d : OnStride(j, k, d) => Less(k)
    BY <2>3, <2>4
  <2> HIDE DEF Less, m
  <2>8. Rises(s, d, i) <=> Less(m) /\ Rises(s, d, j)
    BY <2>6, <2>7, Zenon
  <2>9. QED
    BY <2>1, <2>5, <2>8
<1>2. CASE ~ (n - i > d)
  <2>1. j = n
    BY <1>2 DEF SafeAdvanceRandom
  <2>2. \A k \in 1..n - d : ~ (k > i)
    BY <1>2
  <2>3. Rises(s, d, i)
    BY <2>2 DEF Rises, OnStride
  <2>4. QED
    BY <2>1, <2>3
<1>3. QED
  BY <1>1, <1>2

LEMMA AscendingIs ==
  ASSUME NEW s, NEW n \in Nat, n = Len(s), NEW d \in Nat \ {0}
  PROVE  CheckStrictlyAscending(s, d) <=> Rises(s, d, 0)
<1> DEFINE D == 0..n
           J(i) == SafeAdvanceRandom(i, n, d)
           Body(h, i) == i = n \/ J(i) = n \/ (s[i + 1] < s[J(i) + 1] /\ h[J(i)])
           All(h) == h = [i \in D |-> Body(h, i)]
           L == CHOOSE h : All(h)
           R(i) == Rises(s, d, i)
           E == [i \in D |-> R(i)]
<1>1. CheckStrictlyAscending(s, d) <=> L[0]
  BY DEF CheckStrictlyAscending
<1>2. \A i \in D : R(i) <=> (i = n \/ J(i) = n \/ (s[i + 1] < s[J(i) + 1] /\ R(J(i))))
  <2> HIDE DEF D
  <2> SUFFICES ASSUME NEW i \in D
               PROVE  R(i) <=> (i = n \/ J(i) = n \/ (s[i + 1] < s[J(i) + 1] /\ R(J(i))))
    OBVIOUS
  <2> DEFINE j == J(i)
  <2>1. i \in 0..n /\ j = SafeAdvanceRandom(i, n, d)
    BY DEF D
  <2> HIDE DEF j
  <2>2. Rises(s, d, i) <=> (i = n \/ j = n \/ (s[i + 1] < s[j + 1] /\ Rises(s, d, j)))
    BY <2>1, RisesNext
  <2>3. QED
    BY <2>2 DEF j
<1>3. \A i \in D : i # n /\ J(i) # n => J(i) \in D /\ n - J(i) < n - i
  BY DEF SafeAdvanceRandom
<1> HIDE DEF D, J, R
<1>4. \A i \in D : Body(E, i) <=> R(i)
  <2> SUFFICES ASSUME NEW i \in D PROVE Body(E, i) <=> R(i)
    OBVIOUS
  <2>1. i # n /\ J(i) # n => (E[J(i)] <=> R(J(i)))
    BY <1>3, Zenon
  <2> HIDE DEF E
  <2>2. QED
    BY <1>2, <2>1, Zenon
<1>5. All(E)
  <2>1. \A i \in D : Body(E, i) = R(i)
    <3> SUFFICES ASSUME NEW i \in D PROVE Body(E, i) = R(i)
      OBVIOUS
    <3>1. R(i) \in BOOLEAN
      BY Zenon DEF R, Rises
    <3>2. Body(E, i) \in BOOLEAN
      <4> HIDE DEF E
      <4>1. QED
        BY Zenon
    <3>3. Body(E, i) <=> R(i)
      BY <1>4
    <3> HIDE DEF Body
    <3>4. QED
      BY <3>1, <3>2, <3>3, Zenon
  <2>2. E = [i \in D |-> R(i)]
    OBVIOUS
  <2> HIDE DEF Body, E
  <2>3. QED
    BY <2>1, <2>2, Zenon
<1>6. All(L)
  <2> HIDE DEF All, E
  <2>1. QED
    BY <1>5
<1>7. \A i \in D : L[i] <=> Body(L, i)
  <2> HIDE DEF Body, L
  <2>1. QED
    BY <1>6, Zenon
<1> DEFINE S == {m \in Nat : \A i \in D : n - i < m => (L[i] <=> R(i))}
<1> HIDE DEF L, E
<1>8. 0 \in S
  BY DEF D
<1>9. ASSUME NEW m \in Nat, m \in S PROVE m + 1 \in S
  <2> SUFFICES ASSUME NEW i \in D, n - i < m + 1 PROVE L[i] <=> R(i)
    OBVIOUS
  <2>1. i # n /\ J(i) # n => J(i) \in D /\ n - J(i) < m
    <3>1. i \in 0..n
      BY DEF D
    <3>2. i # n /\ J(i) # n => J(i) \in D /\ J(i) \in 0..n /\ n - J(i) < n - i
      BY <1>3 DEF D
    <3>3. QED
      BY <3>1, <3>2
  <2>2. i # n /\ J(i) # n => (L[J(i)] <=> R(J(i)))
    BY <1>9, <2>1
  <2>3. QED
    BY <1>2, <1>7, <2>2, Zenon
<1>10. Nat \subseteq S
  <2> HIDE DEF S
  <2>1. QED
    BY <1>8, <1>9, SetInduction
<1>11. L[0] <=> R(0)
  <2>1. 0 \in D /\ n + 1 \in Nat /\ n - 0 < n + 1
    BY DEF D
  <2>2. QED
    BY <1>10, <2>1
<1>12. QED
  BY <1>1, <1>11 DEF R

LEMMA AscendingRight ==
  ASSUME NEW s, NEW n \in Nat, n = Len(s), NEW d \in Nat \ {0}
  PROVE  CheckStrictlyAscending(s, d) <=>
           \A k \in {j \in 1..n - d : j % d = 1 % d} : s[k] < s[k + d]
<1>1. \A k \in 1..n - d : OnStride(0, k, d) <=> k % d = 1 % d
  <2> SUFFICES ASSUME NEW k \in 1..n - d PROVE OnStride(0, k, d) <=> k % d = 1 % d
    OBVIOUS
  <2> DEFINE x == k - 1
  <2>1. x \in Nat /\ x + 1 = k /\ k > 0 /\ k - 1 - 0 = x
    OBVIOUS
  <2>2. OnStride(0, k, d) <=> x % d = 0
    BY <2>1 DEF OnStride
  <2> HIDE DEF x
  <2>3. (x + 1) % d = 1 % d <=> x % d = 0
    BY <2>1, Strides
  <2>4. QED
    BY <2>1, <2>2, <2>3
<1>2. Rises(s, d, 0) <=> \A k \in 1..n - d : OnStride(0, k, d) => s[k] < s[k + d]
  BY DEF Rises
<1>3. CheckStrictlyAscending(s, d) <=> Rises(s, d, 0)
  BY AscendingIs
<1> DEFINE Less(k) == s[k] < s[k + d]
           I(j) == j % d = 1 % d
<1> HIDE DEF Less, I
<1>4. QED
  BY <1>1, <1>2, <1>3, Zenon DEF Less, I

-----------------------------------------------------------------------------
(* erase_if() *)

\* One element is taken out of the middle.
TakesOut(a, x, b) ==
  LET u == a \o (<<x>> \o b)
  IN /\ u[Len(a) + 1] = x
     /\ RemoveAt(u, Len(a) + 1) = a \o b
     /\ u = Append(a, x) \o b

LEMMA TakenOut ==
  ASSUME NEW C, NEW a \in Seq(C), NEW b \in Seq(C), NEW x \in C
  PROVE  TakesOut(a, x, b)
<1> DEFINE o == <<x>>
           m == o \o b
           u == a \o m
           n == Len(a)
           l == Len(b)
<1>1. o \in Seq(C) /\ Len(o) = 1 /\ o[1] = x
  OBVIOUS
<1>2. n \in Nat /\ l \in Nat
  BY LenProperties
<1> HIDE DEF o
<1>3. m \in Seq(C) /\ Len(m) = l + 1 /\ \A i \in 1..l + 1 : m[i] = IF i <= 1 THEN x ELSE b[i - 1]
  <2>1. m \in Seq(C) /\ Len(m) = Len(o) + Len(b)
        /\ \A i \in 1..Len(o) + Len(b) : m[i] = IF i <= Len(o) THEN o[i] ELSE b[i - Len(o)]
    BY <1>1, ConcatProperties
  <2> HIDE DEF m
  <2>2. \A i \in 1..l + 1 : i <= 1 => i = 1
    OBVIOUS
  <2>3. QED
    BY <1>1, <1>2, <2>1, <2>2
<1> HIDE DEF m
<1>4. u \in Seq(C) /\ Len(u) = n + l + 1 /\ \A i \in 1..n + l + 1 : u[i] = IF i <= n THEN a[i] ELSE m[i - n]
  <2>1. u \in Seq(C) /\ Len(u) = Len(a) + Len(m)
        /\ \A i \in 1..Len(a) + Len(m) : u[i] = IF i <= Len(a) THEN a[i] ELSE m[i - Len(a)]
    BY <1>3, ConcatProperties
  <2> HIDE DEF u
  <2>2. Len(a) + Len(m) = n + l + 1
    BY <1>2, <1>3
  <2>3. QED
    BY <2>1, <2>2
<1> HIDE DEF u
<1>5. u[n + 1] = x
  <2> DEFINE i == n + 1
  <2>1. i \in 1..n + l + 1 /\ ~ (i <= n) /\ i - n = 1 /\ 1 \in 1..l + 1
    BY <1>2
  <2>2. u[i] = m[1]
    BY <1>4, <2>1
  <2>3. QED
    BY <1>3, <2>1, <2>2
<1>6. SubSeq(u, 1, n) = a
  <2>1. \A i \in 1..n : i \in 1..n + l + 1 /\ i <= n
    BY <1>2
  <2>2. \A i \in 1..n : u[i] = a[i] /\ a[i] \in C
    BY <1>4, <2>1, ElementOfSeq
  <2> DEFINE s == SubSeq(u, 1, n)
  <2>3. n <= Len(u)
    BY <1>2, <1>4
  <2>4. s \in Seq(C) /\ Len(s) = n /\ \A i \in 1..n : s[i] = u[i]
    BY <1>2, <1>4, <2>3, BeginsWith
  <2> HIDE DEF s
  <2>5. s = a
    BY <2>2, <2>4, SeqEqual
  <2>6. QED
    BY <2>5 DEF s
<1>7. SubSeq(u, n + 2, n + l + 1) = b
  <2> DEFINE p == n + 2
             q == n + l + 1
             s == SubSeq(u, p, q)
  <2>1. p \in Int /\ q \in Int /\ q - p + 1 = l /\ (p <= q => q - p + 1 = l) /\ (~ (p <= q) => l = 0)
    BY <1>2
  <2>2. \A i \in p..q : i \in 1..n + l + 1
    BY <1>2
  <2>3. \A i \in p..q : u[i] \in C
    BY <1>4, <2>2, ElementOfSeq
  <2>4. \A i \in 1..l : p + i - 1 \in 1..n + l + 1 /\ ~ (p + i - 1 <= n) /\ p + i - 1 - n = i + 1
                        /\ i + 1 \in 1..l + 1 /\ ~ (i + 1 <= 1) /\ i + 1 - 1 = i
    BY <1>2
  <2>5. \A i \in 1..l : u[p + i - 1] = m[i + 1]
    BY <1>4, <2>4
  <2>6. \A i \in 1..l : m[i + 1] = b[i]
    BY <1>3, <2>4
  <2> HIDE DEF p, q
  <2>7. s \in Seq(C) /\ Len(s) = (IF p <= q THEN q - p + 1 ELSE 0)
        /\ \A i \in 1..q - p + 1 : s[i] = u[p + i - 1]
    BY <2>1, <2>3, SubSeqProperties
  <2> HIDE DEF s
  <2>8. Len(s) = l /\ \A i \in 1..l : s[i] = u[p + i - 1]
    BY <2>1, <2>7
  <2>9. \A i \in 1..l : s[i] = b[i]
    BY <2>5, <2>6, <2>8
  <2>10. s = b
    BY <2>7, <2>8, <2>9, SeqEqual
  <2>11. QED
    BY <2>10 DEF s, p, q
<1>8. RemoveAt(u, n + 1) = a \o b
  <2> DEFINE p == n + 1
  <2>1. p - 1 = n /\ p + 1 = n + 2
    BY <1>2
  <2> HIDE DEF p
  <2>2. RemoveAt(u, p) = SubSeq(u, 1, p - 1) \o SubSeq(u, p + 1, Len(u))
    BY DEF RemoveAt
  <2>3. RemoveAt(u, p) = a \o b
    BY <1>4, <1>6, <1>7, <2>1, <2>2
  <2>4. QED
    BY <2>3 DEF p
<1>9. u = Append(a, x) \o b
  <2>1. Append(a, x) = a \o o
    BY AppendIsConcat DEF o
  <2>2. (a \o o) \o b = a \o (o \o b)
    BY <1>1, ConcatAssociative
  <2>3. QED
    BY <2>1, <2>2 DEF u, m
<1>10. QED
  BY <1>5, <1>8, <1>9 DEF u, m, o, TakesOut

\* The loop of erase_if() after k turns.
Erased(s, Q, k) ==
  [s |-> Kept(SubSeq(s, 1, k), Q) \o SubSeq(s, k + 1, Len(s)), i |-> Len(Kept(SubSeq(s, 1, k), Q))]
EraseTurn(r, P) ==
  IF r.s[r.i + 1] \in P THEN [r EXCEPT !.s = RemoveAt(@, r.i + 1)] ELSE [r EXCEPT !.i = @ + 1]

LEMMA TurnOf ==
  ASSUME NEW u, NEW k, NEW P
  PROVE  EraseTurn([s |-> u, i |-> k], P) =
           IF u[k + 1] \in P THEN [s |-> RemoveAt(u, k + 1), i |-> k] ELSE [s |-> u, i |-> k + 1]
<1> DEFINE r == [s |-> u, i |-> k]
<1>1. r.s = u /\ r.i = k
  OBVIOUS
<1>2. \A x : [r EXCEPT !.s = x] = [s |-> x, i |-> k] /\ [r EXCEPT !.i = x] = [s |-> u, i |-> x]
  OBVIOUS
<1> HIDE DEF r
<1>3. EraseTurn(r, P) = IF u[k + 1] \in P THEN [r EXCEPT !.s = RemoveAt(u, k + 1)]
                        ELSE [r EXCEPT !.i = k + 1]
  BY <1>1, Zenon DEF EraseTurn
<1>4. QED
  BY <1>2, <1>3 DEF r

LEMMA TurnErases ==
  ASSUME NEW C, NEW P, NEW s \in Seq(C), NEW j \in Nat, j + 1 <= Len(s)
  PROVE  EraseTurn(Erased(s, C \ P, j), P) = Erased(s, C \ P, j + 1)
<1> DEFINE Q == C \ P
           n == Len(s)
           h == SubSeq(s, 1, j)
           a == Kept(h, Q)
           b == SubSeq(s, j + 2, n)
           x == s[j + 1]
           u == a \o (<<x>> \o b)
<1>1. n \in Nat /\ j + 1 \in 1..n
  BY LenProperties
<1>2. h \in Seq(C) /\ x \in C /\ SubSeq(s, 1, j + 1) = Append(h, x)
  <2>1. 1 \in Nat /\ 1 <= 1 /\ 1 <= j + 1
    OBVIOUS
  <2>2. QED
    BY <2>1, SubSeqGrows
<1>3. SubSeq(s, j + 1, n) = <<x>> \o b
  <2> DEFINE k == j + 1
             K == n
  <2>1. K = Len(s) /\ k \in 1..K /\ k + 1 = j + 2
    BY <1>1
  <2> HIDE DEF k, K
  <2>2. SubSeq(s, k, K) = <<s[k]>> \o SubSeq(s, k + 1, K)
    BY <2>1, FromOn
  <2>3. QED
    BY <2>1, <2>2 DEF k, K
<1>4. b \in Seq(C)
  <2> DEFINE k == j + 2
  <2>1. k \in Nat /\ 1 <= k /\ k <= Len(s) + 1
    BY <1>1
  <2> HIDE DEF k
  <2>2. From(s, k) \in Seq(C)
    BY <2>1, EndsWith
  <2>3. QED
    BY <2>2 DEF From, k
<1> HIDE DEF h, b, x, Q
<1>5. a \in Seq(C) /\ Kept(Append(h, x), Q) = IF x \in Q THEN Append(a, x) ELSE a
  <2>1. KeepsMore(C, h, x, Q)
    BY <1>2, KeptMore
  <2>2. QED
    BY <2>1 DEF KeepsMore
<1> HIDE DEF a
<1>6. u[Len(a) + 1] = x /\ RemoveAt(u, Len(a) + 1) = a \o b /\ u = Append(a, x) \o b
  <2>1. TakesOut(a, x, b)
    BY <1>2, <1>4, <1>5, TakenOut
  <2>2. QED
    BY <2>1 DEF TakesOut
<1> HIDE DEF u
<1>7. Erased(s, Q, j) = [s |-> u, i |-> Len(a)]
  BY <1>3 DEF Erased, u, a, h
<1>8. Erased(s, Q, j + 1) = [s |-> Kept(Append(h, x), Q) \o b, i |-> Len(Kept(Append(h, x), Q))]
  <2>1. j + 1 + 1 = j + 2
    OBVIOUS
  <2>2. QED
    BY <1>2, <2>1 DEF Erased, b
<1> DEFINE r == [s |-> u, i |-> Len(a)]
<1>9. r.s = u /\ r.i = Len(a)
  OBVIOUS
<1>10. EraseTurn(r, P) = IF x \in P THEN [s |-> a \o b, i |-> Len(a)] ELSE [s |-> u, i |-> Len(a) + 1]
  <2>1. EraseTurn(r, P) = IF u[Len(a) + 1] \in P THEN [s |-> RemoveAt(u, Len(a) + 1), i |-> Len(a)]
                          ELSE [s |-> u, i |-> Len(a) + 1]
    BY TurnOf
  <2>2. QED
    BY <1>6, <2>1
<1> HIDE DEF r
<1>11. CASE x \in P
  <2>1. x \notin Q
    BY <1>11 DEF Q
  <2>2. Kept(Append(h, x), Q) = a
    BY <1>5, <2>1
  <2>3. QED
    BY <1>7, <1>8, <1>10, <1>11, <2>2 DEF r, Q
<1>12. CASE x \notin P
  <2>1. x \in Q
    BY <1>2, <1>12 DEF Q
  <2>2. Kept(Append(h, x), Q) = Append(a, x)
    BY <1>5, <2>1
  <2>3. Len(Append(a, x)) = Len(a) + 1
    BY <1>2, <1>5, AppendProperties
  <2>4. QED
    BY <1>6, <1>7, <1>8, <1>10, <1>12, <2>2, <2>3 DEF r, Q
<1>13. QED
  BY <1>11, <1>12

LEMMA EraseIs ==
  ASSUME NEW C, NEW P, NEW s \in Seq(C)
  PROVE  EraseIf(s, P) = Kept(s, C \ P)
<1> DEFINE n == Len(s)
           Q == C \ P
           D == 0..n
           Body(h, k) == IF k = 0 THEN [s |-> s, i |-> 0] ELSE EraseTurn(h[k - 1], P)
           All(h) == h = [k \in D |-> Body(h, k)]
           L == CHOOSE h : All(h)
           At(k) == Erased(s, Q, k)
           E == [k \in D |-> At(k)]
<1>1. EraseIf(s, P) = L[n].s
  BY DEF EraseIf, EraseTurn
<1>2. n \in Nat
  BY LenProperties
<1>3. At(0) = [s |-> s, i |-> 0]
  <2> DEFINE z == 0
             o == 1
             e == <<>>
  <2>1. SubSeq(s, 1, 0) = <<>>
    <3>1. o \in Int /\ z \in Int /\ z < o
      OBVIOUS
    <3> HIDE DEF o, z
    <3>2. SubSeq(s, o, z) = <<>>
      BY <3>1, SubSeqEmpty
    <3>3. QED
      BY <3>2 DEF o, z
  <2>2. SubSeq(s, 1, n) = s /\ z + 1 = 1
    BY SubSeqFull
  <2>3. Kept(<<>>, Q) = <<>>
    BY KeptNothing
  <2>4. <<>> \o s = s
    BY ConcatEmptySeq
  <2>5. Len(e) = z
    OBVIOUS
  <2>6. SubSeq(s, 1, z) = e /\ SubSeq(s, z + 1, n) = s /\ Kept(e, Q) = e /\ e \o s = s
    BY <2>1, <2>2, <2>3, <2>4
  <2> HIDE DEF z, e, n, Q
  <2>7. Erased(s, Q, z) = [s |-> s, i |-> z]
    BY <2>5, <2>6 DEF Erased, n
  <2>8. QED
    BY <2>7 DEF z
<1>4. \A k \in D : k # 0 => k - 1 \in D /\ At(k) = EraseTurn(At(k - 1), P)
  <2> SUFFICES ASSUME NEW k \in D, k # 0
               PROVE  k - 1 \in D /\ At(k) = EraseTurn(At(k - 1), P)
    OBVIOUS
  <2> DEFINE j == k - 1
  <2>1. j \in Nat /\ j + 1 <= Len(s) /\ j + 1 = k /\ k - 1 \in D
    BY <1>2
  <2> HIDE DEF j
  <2>2. EraseTurn(Erased(s, C \ P, j), P) = Erased(s, C \ P, j + 1)
    BY <2>1, TurnErases
  <2>3. QED
    BY <2>1, <2>2 DEF j
<1> HIDE DEF At
<1>5. \A k \in D : Body(E, k) = At(k)
  <2> SUFFICES ASSUME NEW k \in D PROVE Body(E, k) = At(k)
    OBVIOUS
  <2>1. k # 0 => E[k - 1] = At(k - 1)
    BY <1>4
  <2> HIDE DEF E
  <2>2. QED
    BY <1>3, <1>4, <2>1
<1>6. All(E)
  <2> HIDE DEF Body
  <2>1. QED
    BY <1>5
<1>7. All(L)
  <2> HIDE DEF All, E
  <2>1. QED
    BY <1>6
<1>8. \A k \in D : L[k] = Body(L, k)
  <2> HIDE DEF Body, L
  <2>1. QED
    BY <1>7
<1> HIDE DEF L, E
<1> DEFINE S == {k \in Nat : k \in D => L[k] = At(k)}
<1>9. 0 \in S
  BY <1>2, <1>3, <1>8
<1>10. ASSUME NEW k \in Nat, k \in S PROVE k + 1 \in S
  <2> SUFFICES ASSUME k + 1 \in D PROVE L[k + 1] = At(k + 1)
    OBVIOUS
  <2> DEFINE m == k + 1
  <2>1. m \in D /\ m - 1 = k /\ m # 0 /\ k \in D
    BY <1>2
  <2> HIDE DEF m, D
  <2>2. L[k] = At(k)
    BY <1>10, <2>1
  <2>3. L[m] = EraseTurn(L[k], P) /\ At(m) = EraseTurn(At(k), P)
    BY <1>4, <1>8, <2>1
  <2>4. QED
    BY <2>2, <2>3 DEF m
<1>11. Nat \subseteq S
  <2> HIDE DEF S
  <2>1. QED
    BY <1>9, <1>10, SetInduction
<1>12. L[n] = At(n)
  BY <1>2, <1>11
<1>13. At(n).s = Kept(s, Q) \o <<>>
  <2>1. SubSeq(s, 1, n) = s
    BY SubSeqFull
  <2>2. SubSeq(s, n + 1, n) = <<>>
    <3> DEFINE m == n + 1
    <3>1. m \in Int /\ n \in Int /\ n < m
      BY <1>2
    <3> HIDE DEF m, n
    <3>2. SubSeq(s, m, n) = <<>>
      BY <3>1, SubSeqEmpty
    <3>3. QED
      BY <3>2 DEF m
  <2>3. QED
    BY <2>1, <2>2 DEF At, Erased
<1>14. Kept(s, Q) \o <<>> = Kept(s, Q)
  <2>1. CASE C = {}
    <3>1. s = <<>>
      <4>1. DOMAIN s = 1..n /\ \A k \in 1..n : s[k] \in C
        BY LenProperties, ElementOfSeq
      <4>2. n = 0
        BY <1>2, <2>1, <4>1
      <4>3. QED
        BY <4>2, EmptySeq
    <3>2. Kept(s, Q) = <<>>
      BY <3>1, KeptNothing
    <3>3. QED
      BY <3>2
  <2>2. CASE C # {}
    <3>1. PICK x : x \in C
      BY <2>2
    <3>2. KeepsMore(C, s, x, Q)
      BY <3>1, KeptMore
    <3>3. Kept(s, Q) \in Seq(C)
      BY <3>2 DEF KeepsMore
    <3>4. QED
      BY <3>3, ConcatEmptySeq
  <2>3. QED
    BY <2>1, <2>2
<1>15. QED
  BY <1>1, <1>12, <1>13, <1>14

\* What is kept of a text if all of it is, and when nothing is kept.
LEMMA KeptAll ==
  ASSUME NEW C
  PROVE  \A s \in Seq(C) : Kept(s, C) = s
<1> DEFINE N == {s \in Seq(C) : Kept(s, C) = s}
<1>1. <<>> \in N
  BY EmptySeq, KeptNothing
<1>2. ASSUME NEW s \in Seq(C), s \in N, NEW x \in C PROVE Append(s, x) \in N
  <2> DEFINE u == Append(s, x)
  <2>1. u \in Seq(C)
    BY AppendProperties
  <2>2. KeepsMore(C, s, x, C)
    BY KeptMore
  <2>3. Kept(u, C) = Append(Kept(s, C), x)
    BY <2>2 DEF KeepsMore
  <2>4. Kept(s, C) = s
    BY <1>2
  <2>5. QED
    BY <2>1, <2>3, <2>4
<1>3. Seq(C) \subseteq N
  <2> HIDE DEF N
  <2>1. QED
    BY <1>1, <1>2, TextInduction
<1>4. QED
  BY <1>3

LEMMA KeptNone ==
  ASSUME NEW C, NEW S
  PROVE  \A s \in Seq(C) : Kept(s, S) = <<>> <=> \A k \in 1..Len(s) : s[k] \notin S
<1> DEFINE N == {s \in Seq(C) : Kept(s, S) = <<>> <=> \A k \in 1..Len(s) : s[k] \notin S}
<1>1. <<>> \in N
  BY EmptySeq, KeptNothing
<1>2. ASSUME NEW s \in Seq(C), s \in N, NEW x \in C PROVE Append(s, x) \in N
  <2> DEFINE u == Append(s, x)
             n == Len(s)
             a == Kept(s, S)
  <2>1. u \in Seq(C) /\ Len(u) = n + 1 /\ n \in Nat /\ u[n + 1] = x /\ \A k \in 1..n : u[k] = s[k]
    BY AppendProperties, LenProperties
  <2>2. a \in Seq(C) /\ Kept(u, S) = IF x \in S THEN Append(a, x) ELSE a
    <3>1. KeepsMore(C, s, x, S)
      BY KeptMore
    <3>2. QED
      BY <3>1 DEF KeepsMore
  <2>3. a = <<>> <=> \A k \in 1..n : s[k] \notin S
    BY <1>2
  <2> HIDE DEF u, a
  <2>4. Append(a, x) # <<>>
    BY <2>2, AppendProperties
  <2>5. \A k \in 1..n + 1 : k = n + 1 \/ k \in 1..n
    BY <2>1
  <2>6. n + 1 \in 1..n + 1 /\ \A k \in 1..n : k \in 1..n + 1
    BY <2>1
  <2>7. (\A k \in 1..n + 1 : u[k] \notin S) <=> x \notin S /\ \A k \in 1..n : s[k] \notin S
    BY <2>1, <2>5, <2>6
  <2>8. Kept(u, S) = <<>> <=> \A k \in 1..Len(u) : u[k] \notin S
    BY <2>1, <2>2, <2>3, <2>4, <2>7
  <2>9. QED
    BY <2>1, <2>8 DEF u
<1>3. Seq(C) \subseteq N
  <2> HIDE DEF N
  <2>1. QED
    BY <1>1, <1>2, TextInduction
<1>4. QED
  BY <1>3

-----------------------------------------------------------------------------
(* all_equal(), flatten() *)

LEMMA AllEqualIs ==
  ASSUME NEW C, NEW s \in Seq(C), NEW x
  PROVE  AllEqual(s, x) <=> \A k \in 1..Len(s) : s[k] = x
<1> DEFINE n == Len(s)
           I == {i \in 1..n : s[i] # x}
<1>1. AllEqual(s, x) <=> (IF I # {} THEN Min(I) ELSE 0) = 0
  BY DEF AllEqual, SelectInSeq
<1>2. n \in Nat /\ I \subseteq 1..n
  BY LenProperties
<1>3. CASE I = {}
  BY <1>1, <1>3
<1>4. CASE I # {}
  <2> HIDE DEF I
  <2>1. I \subseteq Nat
    BY <1>2
  <2>2. \E y \in I : \A z \in I : y <= z
    BY <1>4, <2>1, LeastNatural
  <2>3. Min(I) \in I
    BY <2>2 DEF Min
  <2> DEFINE m == Min(I)
  <2> HIDE DEF m
  <2>4. m \in 1..n /\ m \in I
    BY <1>2, <2>3 DEF m
  <2>5. m # 0
    BY <1>2, <2>4
  <2>6. ~ AllEqual(s, x)
    BY <1>1, <1>4, <2>5 DEF m
  <2>7. s[m] # x
    BY <2>4 DEF I
  <2>8. QED
    BY <2>4, <2>6, <2>7
<1>5. QED
  BY <1>3, <1>4

LEMMA FlattenIs ==
  ASSUME NEW C, NEW s \in Seq(C)
  PROVE  Flatten([k \in 1..Len(s) |-> <<s[k]>>]) = s
<1>1. DOMAIN s = 1..Len(s) /\ \A k \in 1..Len(s) : s[k] \in C
  BY LenProperties, ElementOfSeq
<1>2. [k \in 1..Len(s) |-> <<s[k]>>] = [k \in DOMAIN s |-> IF s[k] \in C THEN <<s[k]>> ELSE <<>>]
  BY <1>1
<1>3. Flatten([k \in 1..Len(s) |-> <<s[k]>>]) = Kept(s, C)
  BY <1>2 DEF Flatten, Kept
<1>4. QED
  BY <1>3, KeptAll

-----------------------------------------------------------------------------
(* write_sequence() *)

\* m elements a, each with a separator s.
Repeats(X, a, s, m) == Len(X) = 2 * m /\ \A k \in 1..m : X[2 * k - 1] = a /\ X[2 * k] = s
Repeated(a, s, m) == FlattenSeq([k \in 1..m |-> <<a, s>>])

LEMMA RepeatedIs ==
  ASSUME NEW C, NEW a \in C, NEW s \in C, NEW m \in Nat
  PROVE  Repeated(a, s, m) \in Seq(C) /\ Repeats(Repeated(a, s, m), a, s, m)
<1> DEFINE X(k) == Repeated(a, s, k)
           S == {k \in Nat : X(k) \in Seq(C) /\ Repeats(X(k), a, s, k)}
<1>1. 0 \in S
  <2>1. [k \in 1..0 |-> <<a, s>>] = <<>>
    OBVIOUS
  <2>2. X(0) = <<>>
    BY <2>1, FlatEmpty DEF Repeated
  <2> DEFINE e == <<>>
  <2>3. e \in Seq(C) /\ Len(e) = 2 * 0 /\ \A k \in 1..0 : e[2 * k - 1] = a /\ e[2 * k] = s
    OBVIOUS
  <2> HIDE DEF e
  <2>4. Repeats(e, a, s, 0)
    BY <2>3 DEF Repeats
  <2>5. X(0) = e
    BY <2>2 DEF e
  <2> HIDE DEF X
  <2>6. QED
    BY <2>3, <2>4, <2>5
<1>2. ASSUME NEW k \in Nat, k \in S PROVE k + 1 \in S
  <2> DEFINE y == <<a, s>>
             f == [i \in 1..k + 1 |-> y]
             x == X(k)
             z == X(k + 1)
             l == 2 * k
  <2>1. y \in Seq(C) /\ Len(y) = 2 /\ y[1] = a /\ y[2] = s
    OBVIOUS
  <2>2. z = x \o y
    <3> HIDE DEF y
    <3>1. \A i \in 1..k + 1 : f[i] \in Seq(C)
      BY <2>1
    <3>2. f[k + 1] = y /\ [i \in 1..k |-> f[i]] = [i \in 1..k |-> y] /\ [i \in 1..k + 1 |-> f[i]] = f
      OBVIOUS
    <3>3. x = FlattenSeq([i \in 1..k |-> y]) /\ z = FlattenSeq(f)
      BY DEF Repeated, y
    <3> HIDE DEF f
    <3>4. FlattenSeq([i \in 1..k + 1 |-> f[i]]) = FlattenSeq([i \in 1..k |-> f[i]]) \o f[k + 1]
      BY <3>1, FlatOf
    <3>5. QED
      BY <3>2, <3>3, <3>4
  <2>3. x \in Seq(C) /\ Len(x) = l /\ l \in Nat /\ \A i \in 1..k : x[2 * i - 1] = a /\ x[2 * i] = s
    BY <1>2 DEF Repeats
  <2> HIDE DEF y, x, z, l
  <2>4. x \o y \in Seq(C) /\ Len(x \o y) = l + 2
        /\ \A i \in 1..l + 2 : (x \o y)[i] = IF i <= l THEN x[i] ELSE y[i - l]
    <3>1. x \o y \in Seq(C) /\ Len(x \o y) = Len(x) + Len(y)
          /\ \A i \in 1..Len(x) + Len(y) : (x \o y)[i] = IF i <= Len(x) THEN x[i] ELSE y[i - Len(x)]
      BY <2>1, <2>3, ConcatProperties
    <3>2. Len(x) = l /\ Len(y) = 2
      BY <2>1, <2>3
    <3>3. QED
      BY <3>1, <3>2
  <2>5. z \in Seq(C) /\ Len(z) = l + 2 /\ \A i \in 1..l + 2 : z[i] = IF i <= l THEN x[i] ELSE y[i - l]
    BY <2>2, <2>4
  <2>6. \A i \in 1..k : 2 * i - 1 \in 1..l + 2 /\ 2 * i - 1 <= l /\ 2 * i \in 1..l + 2 /\ 2 * i <= l
    BY DEF l
  <2>7. \A i \in 1..k : z[2 * i - 1] = a /\ z[2 * i] = s
    BY <2>3, <2>5, <2>6
  <2>8. z[2 * (k + 1) - 1] = a /\ z[2 * (k + 1)] = s
    <3> DEFINE p == 2 * (k + 1) - 1
               q == 2 * (k + 1)
    <3>1. p \in 1..l + 2 /\ ~ (p <= l) /\ p - l = 1 /\ q \in 1..l + 2 /\ ~ (q <= l) /\ q - l = 2
      BY DEF l
    <3> HIDE DEF p, q
    <3>2. z[p] = a /\ z[q] = s
      BY <2>1, <2>5, <3>1
    <3>3. QED
      BY <3>2 DEF p, q
  <2>9. \A i \in 1..k + 1 : i = k + 1 \/ i \in 1..k
    OBVIOUS
  <2>10. l + 2 = 2 * (k + 1)
    BY DEF l
  <2>11. \A i \in 1..k + 1 : z[2 * i - 1] = a /\ z[2 * i] = s
    BY <2>7, <2>8, <2>9
  <2>12. Repeats(z, a, s, k + 1)
    BY <2>5, <2>10, <2>11 DEF Repeats
  <2>13. QED
    BY <2>5, <2>12 DEF z
<1>3. Nat \subseteq S
  <2> HIDE DEF S
  <2>1. QED
    BY <1>1, <1>2, SetInduction
<1>4. QED
  BY <1>3

\* n elements a with separators s between them, from b to e.
Joined(a, s, b, e, m) == (<<b>> \o (Repeated(a, s, m) \o <<a>>)) \o <<e>>
JoinedAs(w, a, s, b, e, m) ==
  /\ Len(w) = 2 * m + 3 /\ w[1] = b /\ w[2 * m + 2] = a /\ w[2 * m + 3] = e
  /\ \A k \in 1..m : w[2 * k] = a /\ w[2 * k + 1] = s

LEMMA JoinedIs ==
  ASSUME NEW C, NEW a \in C, NEW s \in C, NEW b \in C, NEW e \in C, NEW m \in Nat
  PROVE  /\ Joined(a, s, b, e, m) \in Seq(C)
         /\ JoinedAs(Joined(a, s, b, e, m), a, s, b, e, m)
<1> DEFINE x == Repeated(a, s, m)
           y == <<a>>
           g == <<b>>
           h == <<e>>
           p == x \o y
           q == g \o p
           w == q \o h
           l == 2 * m
<1>1. x \in Seq(C) /\ Len(x) = l /\ l \in Nat /\ \A k \in 1..m : x[2 * k - 1] = a /\ x[2 * k] = s
  BY RepeatedIs DEF Repeats
<1>2. /\ y \in Seq(C) /\ Len(y) = 1 /\ y[1] = a
      /\ g \in Seq(C) /\ Len(g) = 1 /\ g[1] = b
      /\ h \in Seq(C) /\ Len(h) = 1 /\ h[1] = e
  OBVIOUS
<1> HIDE DEF x, y, g, h
<1>3. p \in Seq(C) /\ Len(p) = l + 1 /\ \A i \in 1..l + 1 : p[i] = IF i <= l THEN x[i] ELSE y[i - l]
  <2>1. p \in Seq(C) /\ Len(p) = Len(x) + Len(y)
        /\ \A i \in 1..Len(x) + Len(y) : p[i] = IF i <= Len(x) THEN x[i] ELSE y[i - Len(x)]
    BY <1>1, <1>2, ConcatProperties
  <2> HIDE DEF p, l
  <2>2. QED
    BY <1>1, <1>2, <2>1
<1> HIDE DEF p
<1>4. q \in Seq(C) /\ Len(q) = l + 2 /\ \A i \in 1..l + 2 : q[i] = IF i <= 1 THEN g[i] ELSE p[i - 1]
  <2>1. q \in Seq(C) /\ Len(q) = Len(g) + Len(p)
        /\ \A i \in 1..Len(g) + Len(p) : q[i] = IF i <= Len(g) THEN g[i] ELSE p[i - Len(g)]
    BY <1>2, <1>3, ConcatProperties
  <2>2. Len(g) + Len(p) = l + 2 /\ Len(g) = 1
    BY <1>1, <1>2, <1>3
  <2> HIDE DEF q, l
  <2>3. QED
    BY <2>1, <2>2
<1> HIDE DEF q
<1>5. w \in Seq(C) /\ Len(w) = l + 3 /\ \A i \in 1..l + 3 : w[i] = IF i <= l + 2 THEN q[i] ELSE h[i - (l + 2)]
  <2>1. w \in Seq(C) /\ Len(w) = Len(q) + Len(h)
        /\ \A i \in 1..Len(q) + Len(h) : w[i] = IF i <= Len(q) THEN q[i] ELSE h[i - Len(q)]
    BY <1>2, <1>4, ConcatProperties
  <2>2. Len(q) + Len(h) = l + 3 /\ Len(q) = l + 2
    BY <1>1, <1>2, <1>4
  <2> HIDE DEF w, l
  <2>3. QED
    BY <2>1, <2>2
<1> HIDE DEF w
<1>6. w[1] = b
  <2>1. 1 \in 1..l + 3 /\ 1 <= l + 2 /\ 1 \in 1..l + 2 /\ 1 <= 1
    BY <1>1
  <2> HIDE DEF l
  <2>2. QED
    BY <1>2, <1>4, <1>5, <2>1
<1>7. w[l + 3] = e
  <2> DEFINE i == l + 3
  <2>1. i \in 1..l + 3 /\ ~ (i <= l + 2) /\ i - (l + 2) = 1
    BY <1>1
  <2> HIDE DEF l, i
  <2>2. w[i] = h[1]
    BY <1>5, <2>1
  <2>3. QED
    BY <1>2, <2>2 DEF i
<1>8. \A i \in 2..l + 2 : w[i] = p[i - 1]
  <2>1. \A i \in 2..l + 2 : i \in 1..l + 3 /\ i <= l + 2 /\ i \in 1..l + 2 /\ ~ (i <= 1)
    BY <1>1
  <2> HIDE DEF l
  <2>2. QED
    BY <1>4, <1>5, <2>1
<1>9. w[l + 2] = a
  <2> DEFINE i == l + 2
             j == l + 1
  <2>1. i \in 2..l + 2 /\ i - 1 = j /\ j \in 1..l + 1 /\ ~ (j <= l) /\ j - l = 1
    BY <1>1
  <2> HIDE DEF l, i, j
  <2>2. w[i] = p[j] /\ p[j] = y[1]
    BY <1>3, <1>8, <2>1
  <2>3. QED
    BY <1>2, <2>2 DEF i
<1>10. \A k \in 1..m : w[2 * k] = a /\ w[2 * k + 1] = s
  <2> SUFFICES ASSUME NEW k \in 1..m PROVE w[2 * k] = a /\ w[2 * k + 1] = s
    OBVIOUS
  <2> DEFINE i == 2 * k
             j == 2 * k + 1
             d == 2 * k - 1
  <2>1. i \in 2..l + 2 /\ j \in 2..l + 2 /\ i - 1 = d /\ j - 1 = i
        /\ d \in 1..l + 1 /\ d <= l /\ i \in 1..l + 1 /\ i <= l
    OBVIOUS
  <2>2. x[d] = a /\ x[i] = s
    BY <1>1
  <2> HIDE DEF l, i, j, d
  <2>3. w[i] = x[d] /\ w[j] = x[i]
    BY <1>3, <1>8, <2>1
  <2>4. QED
    BY <2>2, <2>3 DEF i, j
<1>11. JoinedAs(w, a, s, b, e, m)
  BY <1>5, <1>6, <1>7, <1>9, <1>10 DEF JoinedAs
<1>12. w = Joined(a, s, b, e, m)
  BY DEF Joined, w, q, p, x, y, g, h
<1>13. QED
  BY <1>5, <1>11, <1>12

\* As many parts as there were elements.
LEMMA JoinedParts ==
  ASSUME NEW C, NEW w \in Seq(C), NEW a, NEW s, NEW b, NEW e, a # s, b # s, e # s,
         NEW m \in Nat, JoinedAs(w, a, s, b, e, m)
  PROVE  Len(SplitAny(w, {s})) = m + 1
<1> DEFINE l == 2 * m + 4
           N == m + 2
           At(j) == IF j = 1 THEN 0 ELSE IF j = N THEN l ELSE 2 * j - 1
           c == [j \in 1..N |-> At(j)]
<1>1. Len(w) + 1 = l
  BY DEF JoinedAs
<1>2. c \in Seq(Int) /\ Len(c) = N
  <2>1. \A j \in 1..N : At(j) \in Int
    OBVIOUS
  <2> HIDE DEF At
  <2>2. QED
    BY <2>1
<1>3. N \in Nat /\ N >= 2 /\ \A j \in 1..N : c[j] = At(j)
  OBVIOUS
<1>4. \A j \in 2..N - 1 : At(j) = 2 * (j - 1) + 1 /\ j - 1 \in 1..m
  OBVIOUS
<1>5. \A i, j \in 1..N : i < j => At(i) < At(j)
  OBVIOUS
<1>6. At(1) = 0 /\ At(N) = l
  OBVIOUS
<1>7. \A i \in 1..N - 1 : \A k \in At(i) + 1..At(i + 1) - 1 :
        \/ k = 1 \/ k = 2 * m + 2 \/ k = 2 * m + 3
        \/ \E r \in 1..m : k = 2 * r
  <2> SUFFICES ASSUME NEW i \in 1..N - 1, NEW k \in At(i) + 1..At(i + 1) - 1
               PROVE  \/ k = 1 \/ k = 2 * m + 2 \/ k = 2 * m + 3
                      \/ \E r \in 1..m : k = 2 * r
    OBVIOUS
  <2>1. CASE i = 1 /\ m = 0
    BY <2>1
  <2>2. CASE i = 1 /\ m # 0
    <3>1. k = 1 \/ k = 2 * 1
      BY <2>2
    <3>2. 1 \in 1..m
      BY <2>2
    <3>3. QED
      BY <3>1, <3>2
  <2>3. CASE i # 1 /\ i = N - 1
    BY <2>3
  <2>4. CASE i # 1 /\ i # N - 1
    <3>1. k = 2 * i /\ i \in 1..m
      BY <2>4
    <3>2. QED
      BY <3>1
  <2>5. QED
    BY <2>1, <2>2, <2>3, <2>4
<1>8. \A k \in 1..m : w[2 * k] = a /\ w[2 * k + 1] = s
  BY DEF JoinedAs
<1>9. w[1] = b /\ w[2 * m + 2] = a /\ w[2 * m + 3] = e
  BY DEF JoinedAs
<1> HIDE DEF At
<1>10. \A i \in 2..N - 1 : w[At(i)] = s
  BY <1>4, <1>8
<1>11. \A i \in 1..N - 1 : \A k \in At(i) + 1..At(i + 1) - 1 : w[k] # s
  BY <1>7, <1>8, <1>9
<1>12. \A i \in 1..N - 1 : i \in 1..N /\ i + 1 \in 1..N
  BY <1>3
<1>13. \A i \in 2..N - 1 : i \in 1..N
  BY <1>3
<1>14. 1 \in 1..N /\ N \in 1..N
  BY <1>3
<1> HIDE DEF c, N
<1>15. CutsOf(c, w, {s})
  <2>1. c[1] = 0 /\ c[Len(c)] = Len(w) + 1
    BY <1>1, <1>2, <1>3, <1>6, <1>14
  <2>2. \A i, j \in 1..N : i < j => c[i] < c[j]
    BY <1>3, <1>5
  <2>3. \A i \in 2..N - 1 : w[c[i]] \in {s}
    BY <1>3, <1>10, <1>13
  <2>4. \A i \in 1..N - 1 : \A k \in c[i] + 1..c[i + 1] - 1 : w[k] \notin {s}
    BY <1>3, <1>11, <1>12
  <2>5. QED
    BY <1>2, <1>3, <2>1, <2>2, <2>3, <2>4 DEF CutsOf
<1>16. IsCut(SplitAny(w, {s}), w, c)
  BY <1>15, CutIs
<1>17. Len(SplitAny(w, {s})) = N - 1
  BY <1>2, <1>16 DEF IsCut
<1>18. QED
  BY <1>17 DEF N

\* write_sequence() of n elements.
LEMMA WrittenIs ==
  ASSUME NEW n \in Nat, n > 0
  PROVE  Len(SplitAny(WriteSequence([k \in 1..n |-> "a"], "{", ","), {","})) = n
<1> DEFINE v == [k \in 1..n |-> "a"]
           a == "a"
           s == ","
           b == "{"
           e == "}"
           C == {a, s, b, e}
           m == n - 1
           y == <<a, s>>
           z == <<a>>
           w == WriteSequence(v, b, s)
           f == [k \in 1..m + 1 |-> IF k < n THEN y ELSE z]
<1>1. m \in Nat /\ m + 1 = n
  OBVIOUS
<1>2. DOMAIN v = 1..n /\ Len(v) = n /\ \A k \in 1..n : v[k] = a
  OBVIOUS
<1>3. [k \in DOMAIN v |-> IF k < Len(v) THEN <<v[k], s>> ELSE <<v[k]>>] = f
  <2> HIDE DEF v
  <2>1. QED
    BY <1>1, <1>2
<1>4. b # ""
  OBVIOUS
<1>5. w = (<<b>> \o FlattenSeq(f)) \o <<e>>
  <2>1. Closing(b) = <<e>>
    BY DEF Closing
  <2> HIDE DEF f, v, b, s
  <2>2. QED
    BY <1>3, <1>4, <2>1 DEF WriteSequence
<1>6. FlattenSeq(f) = Repeated(a, s, m) \o z
  <2>1. y \in Seq(C) /\ z \in Seq(C)
    OBVIOUS
  <2> HIDE DEF C, y, z
  <2>2. \A k \in 1..m + 1 : f[k] \in Seq(C)
    BY <2>1
  <2>3. f[m + 1] = z /\ [k \in 1..m + 1 |-> f[k]] = f
    BY <1>1
  <2>4. \A k \in 1..m : k \in 1..m + 1 /\ k < n
    BY <1>1
  <2>5. [k \in 1..m |-> f[k]] = [k \in 1..m |-> y]
    BY <2>4
  <2> HIDE DEF f, m
  <2>6. FlattenSeq([k \in 1..m + 1 |-> f[k]]) = FlattenSeq([k \in 1..m |-> f[k]]) \o f[m + 1]
    BY <1>1, <2>2, FlatOf
  <2>7. QED
    BY <2>3, <2>5, <2>6 DEF Repeated, y
<1>7. w = Joined(a, s, b, e, m)
  BY <1>5, <1>6 DEF Joined
<1>8. a # s /\ b # s /\ e # s /\ a \in C /\ s \in C /\ b \in C /\ e \in C
  OBVIOUS
<1> HIDE DEF w, a, s, b, e, C, m
<1>9. w \in Seq(C) /\ JoinedAs(w, a, s, b, e, m)
  BY <1>1, <1>7, <1>8, JoinedIs
<1>10. Len(SplitAny(w, {s})) = m + 1
  BY <1>1, <1>8, <1>9, JoinedParts
<1>11. Len(SplitAny(w, {s})) = n
  BY <1>1, <1>10
<1>12. QED
  BY <1>11 DEF w, v, a, s, b

\* What ContainersRight says of the vector and of the algorithms on its elements.
VectorOf(c, s) ==
  /\ c.size = Len(s) /\ Len(s) <= Capacity
  /\ \A k \in 1..Len(s) : RvectorInRange(s, k - 1) /\ CappedAt(c, k - 1) = s[k]
  /\ Len(s) > 0 => CappedFront(c) = s[1]
RangesOf(s) ==
  \A i \in 0..Len(s), d \in 1..Len(s) + 1 :
    /\ SafeAdvanceRandom(i, Len(s), d) = SafeAdvanceForward(i, Len(s), d)
    /\ DistanceAtLeastRandom(i, Len(s), d) <=> DistanceAtLeastInput(i, Len(s), d)
    /\ NextIsEnd(i, Len(s)) <=> i # Len(s) /\ SafeAdvanceForward(i, Len(s), 1) = Len(s)
    /\ CheckStrictlyAscending(s, d) <=>
         \A k \in {j \in 1..Len(s) - d : j % d = 1 % d} : s[k] < s[k + d]
ErasesOf(s) ==
  /\ \A P \in SUBSET Elements : EraseIf(s, P) = Kept(s, Elements \ P)
  /\ \A x \in Elements : AllEqual(s, x) <=> EraseIf(s, {x}) = <<>>
JoinsOf(s) ==
  /\ LET w == WriteSequence([k \in 1..Len(s) |-> "a"], "{", ",")
     IN Len(s) > 0 => Len(SplitAny(w, {","})) = Len(s)
  /\ Flatten([k \in 1..Len(s) |-> <<s[k]>>]) = s

LEMMA VectorHeld ==
  ASSUME NEW c, NEW s, Holds(c, s)
  PROVE  VectorOf(c, s)
<1> DEFINE n == Len(s)
<1>1. n \in Nat /\ c.size = n /\ n <= Capacity /\ \A k \in 1..n : c.v[k - 1] = s[k]
  BY LenProperties DEF Holds
<1>2. \A k \in 1..n : RvectorInRange(s, k - 1) /\ CappedAt(c, k - 1) = s[k]
  BY <1>1 DEF RvectorInRange, CappedAt
<1>3. n > 0 => CappedFront(c) = s[1]
  <2> SUFFICES ASSUME n > 0 PROVE CappedFront(c) = s[1]
    OBVIOUS
  <2> DEFINE k == 1
  <2>1. k \in 1..n /\ k - 1 = 0
    BY <1>1
  <2> HIDE DEF k
  <2>2. c.v[k - 1] = s[k]
    BY <1>1, <2>1
  <2>3. c.v[0] = s[1]
    BY <2>1, <2>2 DEF k
  <2>4. QED
    BY <2>3 DEF CappedFront
<1>4. QED
  BY <1>1, <1>2, <1>3 DEF VectorOf

LEMMA ElementsRight ==
  ASSUME NEW s \in Seq(Elements)
  PROVE  RangesOf(s) /\ ErasesOf(s) /\ JoinsOf(s)
<1> DEFINE n == Len(s)
           C == Elements
<1>1. n \in Nat /\ \A k \in 1..n : s[k] \in C
  BY LenProperties, ElementOfSeq
<1>2. RangesOf(s)
  <2> HIDE DEF n
  <2> SUFFICES ASSUME NEW i \in 0..n, NEW d \in 1..n + 1
               PROVE  /\ SafeAdvanceRandom(i, n, d) = SafeAdvanceForward(i, n, d)
                      /\ DistanceAtLeastRandom(i, n, d) <=> DistanceAtLeastInput(i, n, d)
                      /\ NextIsEnd(i, n) <=> i # n /\ SafeAdvanceForward(i, n, 1) = n
                      /\ CheckStrictlyAscending(s, d) <=>
                           \A k \in {j \in 1..n - d : j % d = 1 % d} : s[k] < s[k + d]
    BY Zenon DEF RangesOf, n
  <2>1. d \in Nat \ {0}
    BY <1>1
  <2>2. n = Len(s)
    BY DEF n
  <2>3. CheckStrictlyAscending(s, d) <=>
          \A k \in {j \in 1..n - d : j % d = 1 % d} : s[k] < s[k + d]
    BY <1>1, <2>1, <2>2, AscendingRight
  <2>4. QED
    BY <1>1, <2>3, RangesRight
<1>3. ErasesOf(s)
  <2>1. \A P \in SUBSET C : EraseIf(s, P) = Kept(s, C \ P)
    BY EraseIs
  <2>2. ASSUME NEW x \in C PROVE AllEqual(s, x) <=> EraseIf(s, {x}) = <<>>
    <3> DEFINE S == C \ {x}
    <3>1. EraseIf(s, {x}) = Kept(s, S)
      BY <2>1
    <3>2. Kept(s, S) = <<>> <=> \A k \in 1..n : s[k] \notin S
      <4> HIDE DEF S
      <4>1. QED
        BY KeptNone
    <3>3. AllEqual(s, x) <=> \A k \in 1..n : s[k] = x
      BY AllEqualIs
    <3>4. (\A k \in 1..n : s[k] \notin S) <=> \A k \in 1..n : s[k] = x
      BY <1>1
    <3>5. QED
      BY <3>1, <3>2, <3>3, <3>4
  <2>3. QED
    BY <2>1, <2>2 DEF ErasesOf
<1>4. JoinsOf(s)
  <2>1. Flatten([k \in 1..n |-> <<s[k]>>]) = s
    BY FlattenIs
  <2>2. n > 0 => Len(SplitAny(WriteSequence([k \in 1..n |-> "a"], "{", ","), {","})) = n
    <3> HIDE DEF n
    <3>1. QED
      BY <1>1, WrittenIs
  <2>3. QED
    BY <2>1, <2>2, Zenon DEF JoinsOf
<1>5. QED
  BY <1>2, <1>3, <1>4

\* A capped_vector is a stack of at most its capacity, and the algorithms on
\* ranges do the same for every kind of iterator, at the ends and with strides
\* longer than the range (container-util.h), for every capacity and elements.
THEOREM ContainersAreRight == Spec => []ContainersRight
<1>1. StackHeld => ContainersRight
  <2> SUFFICES ASSUME StackHeld, unit = "vector" PROVE ContainersRight
    BY DEF ContainersRight
  <2>1. Holds(cv, stack)
    BY DEF StackHeld
  <2>2. VectorOf(cv, stack)
    BY <2>1, VectorHeld
  <2>3. stack \in Seq(Elements)
    BY <2>1 DEF Holds
  <2>4. RangesOf(stack) /\ ErasesOf(stack) /\ JoinsOf(stack)
    BY <2>3, ElementsRight
  <2>5. QED
    BY Zenon, <2>2, <2>4 DEF ContainersRight, VectorOf, RangesOf, ErasesOf, JoinsOf
<1>2. QED
  BY <1>1, HeldAlways, PTL

-----------------------------------------------------------------------------
(* The URLs of wget() *)

\* A part of a text, place by place.
LEMMA PartHolds ==
  ASSUME NEW C, NEW u \in Seq(C), NEW n \in Nat, n = Len(u), NEW a \in Int, NEW b \in Int, 1 <= a, b <= n
  PROVE  /\ SubSeq(u, a, b) # <<>> <=> a <= b
         /\ a <= b => SubSeq(u, a, b)[1] = u[a]
         /\ \A x : Contains(SubSeq(u, a, b), x) <=> \E k \in a..b : u[k] = x
<1> DEFINE s == SubSeq(u, a, b)
           l == IF a <= b THEN b - a + 1 ELSE 0
<1>1. \A k \in a..b : k \in 1..n
  OBVIOUS
<1>2. \A k \in a..b : u[k] \in C
  BY <1>1, ElementOfSeq
<1>3. s \in Seq(C) /\ Len(s) = l /\ \A i \in 1..b - a + 1 : s[i] = u[a + i - 1]
  BY <1>2, SubSeqProperties
<1> HIDE DEF s
<1>4. \A i \in 1..l : a + i - 1 \in a..b /\ i \in 1..b - a + 1
  OBVIOUS
<1>5. \A k \in a..b : k - a + 1 \in 1..l /\ a + (k - a + 1) - 1 = k /\ k - a + 1 \in 1..b - a + 1
  OBVIOUS
<1>6. s # <<>> <=> a <= b
  <2>1. s = <<>> <=> Len(s) = 0
    BY <1>3, EmptySeq
  <2>2. l = 0 <=> ~ (a <= b)
    OBVIOUS
  <2> HIDE DEF l
  <2>3. QED
    BY <1>3, <2>1, <2>2
<1>7. a <= b => s[1] = u[a]
  <2> SUFFICES ASSUME a <= b PROVE s[1] = u[a]
    OBVIOUS
  <2> DEFINE i == 1
  <2>1. i \in 1..b - a + 1 /\ a + i - 1 = a
    OBVIOUS
  <2> HIDE DEF i
  <2>2. s[i] = u[a]
    BY <1>3, <2>1
  <2>3. QED
    BY <2>2 DEF i
<1>8. ASSUME NEW x PROVE Contains(s, x) <=> \E k \in a..b : u[k] = x
  <2>1. Contains(s, x) <=> \E i \in 1..Len(s) : s[i] = x
    BY DEF Contains
  <2> HIDE DEF l
  <2>2. ASSUME NEW i \in 1..l, s[i] = x PROVE \E k \in a..b : u[k] = x
    BY <1>3, <1>4, <2>2
  <2>3. ASSUME NEW k \in a..b, u[k] = x PROVE \E i \in 1..l : s[i] = x
    <3> DEFINE i == k - a + 1
    <3>1. i \in 1..l /\ i \in 1..b - a + 1 /\ a + i - 1 = k
      BY <1>5
    <3> HIDE DEF i
    <3>2. s[i] = x
      BY <1>3, <2>3, <3>1
    <3>3. QED
      BY <3>1, <3>2
  <2>4. QED
    BY <1>3, <2>1, <2>2, <2>3
<1>9. QED
  BY <1>6, <1>7, <1>8 DEF s

\* The first slash from place 2 on, or one past the end, and the first colon
\* before it, or the slash.
UrlPlaces(u, n, sl, co) ==
  /\ sl \in 2..n + 1 /\ (sl <= n => u[sl] = "/") /\ \A k \in 2..sl - 1 : u[k] # "/"
  /\ co \in 2..sl /\ (co < sl => u[co] = ":") /\ \A k \in 2..co - 1 : u[k] # ":"
ReadAt(u, n, sl, co) ==
  IF sl = 2 \/ sl > n \/ co = sl - 1 \/ co = 2 THEN Thrown
  ELSE <<[host |-> SubSeq(u, 2, co - 1),
          port |-> IF co = sl THEN <<"80">> ELSE SubSeq(u, co + 1, sl - 1),
          path |-> SubSeq(u, sl, n)]>>

\* The first place of a symbol in a text.
FirstOf(t, x) == FirstFrom(t, 1, LAMBDA c : c = x)
LEMMA FirstOfIs ==
  ASSUME NEW C, NEW t \in Seq(C), NEW x
  PROVE  /\ FirstOf(t, x) \in 1..Len(t) + 1
         /\ FirstOf(t, x) <= Len(t) => t[FirstOf(t, x)] = x
         /\ \A k \in 1..FirstOf(t, x) - 1 : t[k] # x
<1> DEFINE n == Len(t)
           I == {i \in 1..n : t[i] = x}
           p == FirstPlace(n, I)
<1>1. FirstOf(t, x) = p
  BY DEF FirstOf, FirstFrom, SelectInSubSeq, FirstPlace
<1>2. n \in Nat
  BY LenProperties
<1>3. p \in 1..n + 1 /\ (\A i \in I : p <= i) /\ (p <= n => p \in I)
  <2> DEFINE k == 1
  <2>1. k \in Nat /\ 1 <= k /\ k <= n + 1 /\ I \subseteq k..n
    BY <1>2
  <2> HIDE DEF I, k
  <2>2. FirstPlace(n, I) \in k..n + 1 /\ (\A i \in I : FirstPlace(n, I) <= i)
        /\ (FirstPlace(n, I) <= n => FirstPlace(n, I) \in I)
    BY <1>2, <2>1, FirstIs
  <2>3. QED
    BY <2>2 DEF k
<1>4. \A i \in 1..n : i \in I <=> t[i] = x
  OBVIOUS
<1> HIDE DEF p, I
<1>5. \A k \in 1..p - 1 : k \in 1..n /\ ~ (p <= k)
  BY <1>2, <1>3
<1>6. \A k \in 1..p - 1 : t[k] # x
  BY <1>3, <1>4, <1>5
<1>7. p <= n => p \in 1..n
  BY <1>2, <1>3
<1>8. p <= n => t[p] = x
  BY <1>3, <1>4, <1>7
<1>9. QED
  BY <1>1, <1>3, <1>6, <1>8

LEMMA ParseReads ==
  ASSUME NEW C, NEW u \in Seq(C), u # <<>>, u[1] = "http://"
  PROVE  \E sl, co : UrlPlaces(u, Len(u), sl, co) /\ ParseUrl(u) = ReadAt(u, Len(u), sl, co)
<1> DEFINE n == Len(u)
           t == Tail(u)
           m == n - 1
           s == FirstOf(t, "/")
           e == s - 1
           h == SubSeq(t, 1, e)
           c == FirstOf(h, ":")
           sl == s + 1
           co == c + 1
<1>1. n \in Nat /\ n >= 1 /\ m \in Nat
  BY LenProperties, EmptySeq
<1>2. t \in Seq(C) /\ Len(t) = m /\ \A i \in 1..m : t[i] = u[i + 1]
  BY HeadTailProperties
<1>3. s \in 1..m + 1 /\ (s <= m => t[s] = "/") /\ \A k \in 1..e : t[k] # "/"
  <2> HIDE DEF t
  <2>1. QED
    BY <1>2, FirstOfIs
<1> HIDE DEF t, s
<1>4. e \in Nat /\ e <= m /\ e + 1 = s
  BY <1>1, <1>3
<1> HIDE DEF e
<1>5. h \in Seq(C) /\ Len(h) = e /\ \A i \in 1..e : h[i] = t[i]
  BY <1>2, <1>4, BeginsWith
<1> HIDE DEF h
<1>6. c \in 1..e + 1 /\ (c <= e => h[c] = ":") /\ \A k \in 1..c - 1 : h[k] # ":"
  BY <1>5, FirstOfIs
<1> HIDE DEF c
<1>7. ParseUrl(u) = IF s = 1 \/ s > m \/ c = e \/ c = 1 THEN Thrown
                    ELSE <<[host |-> SubSeq(h, 1, c - 1),
                            port |-> IF c > e THEN <<"80">> ELSE From(h, c + 1),
                            path |-> From(t, s)]>>
  <2>1. s = FirstFrom(t, 1, LAMBDA x : x = "/") /\ c = FirstFrom(h, 1, LAMBDA x : x = ":")
        /\ t = Tail(u) /\ h = SubSeq(t, 1, s - 1)
    BY DEF s, c, h, t, e, FirstOf
  <2>2. ParseUrl(u) = IF u = <<>> \/ u[1] # "http://" \/ s = 1 \/ s > Len(t) \/ c = Len(h) \/ c = 1
                      THEN Thrown
                      ELSE <<[host |-> SubSeq(h, 1, c - 1),
                              port |-> IF c > Len(h) THEN <<"80">> ELSE From(h, c + 1),
                              path |-> From(t, s)]>>
    BY Zenon DEF ParseUrl, s, c, h, t, e, FirstOf
  <2>3. QED
    BY <1>2, <1>5, <2>2
<1>8. \A i \in 1..e : h[i] = u[i + 1]
  <2>1. \A i \in 1..e : i \in 1..m
    BY <1>1, <1>4
  <2>2. QED
    BY <1>2, <1>5, <2>1
<1>9. UrlPlaces(u, n, sl, co)
  <2>1. sl \in 2..n + 1 /\ (sl <= n => s <= m /\ s \in 1..m) /\ co \in 2..sl /\ (co < sl => c <= e /\ c \in 1..e)
    BY <1>1, <1>3, <1>4, <1>6
  <2>2. \A k \in 2..sl - 1 : k - 1 \in 1..e /\ k - 1 \in 1..m /\ (k - 1) + 1 = k
    BY <1>1, <1>3, <1>4
  <2>3. \A k \in 2..co - 1 : k - 1 \in 1..c - 1 /\ k - 1 \in 1..e /\ (k - 1) + 1 = k
    BY <1>1, <1>4, <1>6
  <2>4. \A k \in 2..sl - 1 : t[k - 1] # "/" /\ t[k - 1] = u[k]
    <3>1. \A i \in 1..e : t[i] # "/"
      BY <1>3
    <3>2. QED
      BY <1>2, <2>2, <3>1
  <2>5. \A k \in 2..co - 1 : h[k - 1] # ":" /\ h[k - 1] = u[k]
    BY <1>6, <1>8, <2>3
  <2>6. sl <= n => u[sl] = "/"
    BY <1>2, <1>3, <2>1
  <2>7. co < sl => u[co] = ":"
    BY <1>6, <1>8, <2>1
  <2>8. QED
    BY <2>1, <2>4, <2>5, <2>6, <2>7 DEF UrlPlaces
<1>10. SubSeq(h, 1, c - 1) = SubSeq(u, 2, co - 1)
  <2> DEFINE o == 1
             b == c - 1
             f == co - 1
             g == 2
  <2>1. o \in Nat /\ o \in Int /\ 1 <= o /\ b \in Int /\ b <= Len(h) /\ g = o + o /\ f = o + b
    BY <1>4, <1>5, <1>6
  <2>2. \A i \in 1..Len(h) : h[i] = u[o + i]
    BY <1>5, <1>8
  <2> HIDE DEF o, b, f, g
  <2>3. SubSeq(h, o, b) = SubSeq(u, g, f)
    BY <1>5, <2>1, <2>2, PartOfPart
  <2>4. QED
    BY <2>3 DEF o, b, f, g
<1>11. From(h, c + 1) = SubSeq(u, co + 1, sl - 1)
  <2> DEFINE o == 1
             a == c + 1
             f == sl - 1
             g == co + 1
  <2>1. o \in Nat /\ a \in Int /\ 1 <= a /\ e \in Int /\ e <= Len(h) /\ g = o + a /\ f = o + e
    BY <1>3, <1>4, <1>5, <1>6
  <2>2. \A i \in 1..Len(h) : h[i] = u[o + i]
    BY <1>5, <1>8
  <2> HIDE DEF o, a, f, g
  <2>3. SubSeq(h, a, e) = SubSeq(u, g, f)
    BY <1>5, <2>1, <2>2, PartOfPart
  <2>4. QED
    BY <1>5, <2>3 DEF From, a, f, g
<1>12. From(t, s) = SubSeq(u, sl, n)
  <2> DEFINE o == 1
  <2>1. o \in Nat /\ s \in Int /\ 1 <= s /\ m \in Int /\ m <= Len(t) /\ sl = o + s /\ n = o + m
    BY <1>1, <1>2, <1>3
  <2>2. \A i \in 1..Len(t) : t[i] = u[o + i]
    BY <1>2
  <2> HIDE DEF o, m, sl, n
  <2>3. SubSeq(t, s, m) = SubSeq(u, sl, n)
    BY <1>2, <2>1, <2>2, PartOfPart
  <2>4. QED
    BY <1>2, <2>3 DEF From
<1>13. (s = 1 <=> sl = 2) /\ (s > m <=> sl > n) /\ (c = e <=> co = sl - 1) /\ (c = 1 <=> co = 2)
       /\ (c > e <=> co = sl)
  BY <1>1, <1>3, <1>4, <1>6
<1>14. ParseUrl(u) = ReadAt(u, n, sl, co)
  <2> HIDE DEF sl, co, n, m
  <2>1. QED
    BY <1>7, <1>10, <1>11, <1>12, <1>13 DEF ReadAt
<1>15. QED
  BY <1>9, <1>14

\* The two ways to read a URL: without and with a port, and when they apply.
Plain(u, n, i) == [host |-> SubSeq(u, 2, i), port |-> <<"80">>, path |-> SubSeq(u, i + 1, n)]
Ported(u, n, i, j) ==
  [host |-> SubSeq(u, 2, i - 1), port |-> SubSeq(u, i + 1, j), path |-> SubSeq(u, j + 1, n)]
HostAt(u, b) == 2 <= b /\ \A k \in 2..b : u[k] # ":" /\ u[k] # "/"
PathAt(u, n, b) == b <= n /\ u[b] = "/"

LEMMA HostIs ==
  ASSUME NEW C, NEW u \in Seq(C), NEW n \in Nat, n = Len(u), NEW b \in Int, b <= n
  PROVE  LET s == SubSeq(u, 2, b)
         IN s # <<>> /\ ~ Contains(s, ":") /\ ~ Contains(s, "/") <=> HostAt(u, b)
<1> DEFINE o == 2
           s == SubSeq(u, o, b)
           x == ":"
           y == "/"
<1>1. o \in Int /\ 1 <= o
  OBVIOUS
<1> HIDE DEF o, x, y
<1>2. (s # <<>> <=> o <= b) /\ \A z : Contains(s, z) <=> \E k \in o..b : u[k] = z
  BY <1>1, PartHolds
<1> HIDE DEF s
<1>3. s # <<>> /\ ~ Contains(s, x) /\ ~ Contains(s, y)
        <=> o <= b /\ \A k \in o..b : u[k] # x /\ u[k] # y
  BY <1>2
<1>4. QED
  BY <1>3 DEF HostAt, s, o, x, y

LEMMA PathIs ==
  ASSUME NEW C, NEW u \in Seq(C), NEW n \in Nat, n = Len(u), NEW b \in Int, 1 <= b
  PROVE  LET s == SubSeq(u, b, n)
         IN s # <<>> /\ s[1] = "/" <=> PathAt(u, n, b)
<1> DEFINE s == SubSeq(u, b, n)
<1> DEFINE m == n
<1>1. m \in Int /\ m <= n
  OBVIOUS
<1>2. (s # <<>> <=> b <= n) /\ (b <= n => s[1] = u[b])
  <2> HIDE DEF m, s
  <2>1. (SubSeq(u, b, m) # <<>> <=> b <= m) /\ (b <= m => SubSeq(u, b, m)[1] = u[b])
    BY <1>1, PartHolds
  <2>2. QED
    BY <2>1 DEF m, s
<1> HIDE DEF s
<1>3. s # <<>> /\ s[1] = "/" <=> PathAt(u, n, b)
  BY <1>2 DEF PathAt
<1>4. QED
  BY <1>3 DEF s

LEMMA PortIs ==
  ASSUME NEW C, NEW u \in Seq(C), NEW n \in Nat, n = Len(u), NEW a \in Int, 1 <= a, NEW b \in Int, b <= n
  PROVE  LET s == SubSeq(u, a, b)
         IN s # <<>> /\ ~ Contains(s, "/") <=> a <= b /\ \A k \in a..b : u[k] # "/"
<1> DEFINE s == SubSeq(u, a, b)
           y == "/"
<1> HIDE DEF y
<1>2. (s # <<>> <=> a <= b) /\ \A z : Contains(s, z) <=> \E k \in a..b : u[k] = z
  BY PartHolds
<1> HIDE DEF s
<1>3. s # <<>> /\ ~ Contains(s, y) <=> a <= b /\ \A k \in a..b : u[k] # y
  BY <1>2
<1>4. QED
  BY <1>3 DEF s, y

\* They apply at one place only.
LEMMA PlainOnly ==
  ASSUME NEW u, NEW n \in Nat, NEW sl, NEW co, UrlPlaces(u, n, sl, co), NEW i \in 1..n
  PROVE  HostAt(u, i) /\ PathAt(u, n, i + 1) <=> i = sl - 1 /\ 3 <= sl /\ sl <= n /\ co = sl
<1>1. /\ sl \in 2..n + 1 /\ (sl <= n => u[sl] = "/") /\ \A k \in 2..sl - 1 : u[k] # "/"
      /\ co \in 2..sl /\ (co < sl => u[co] = ":") /\ \A k \in 2..co - 1 : u[k] # ":"
  BY DEF UrlPlaces
<1>2. ASSUME HostAt(u, i), PathAt(u, n, i + 1) PROVE i = sl - 1 /\ 3 <= sl /\ sl <= n /\ co = sl
  <2>1. 2 <= i /\ (\A k \in 2..i : u[k] # ":" /\ u[k] # "/") /\ i + 1 <= n /\ u[i + 1] = "/"
    BY <1>2 DEF HostAt, PathAt
  <2>2. ~ (sl <= i)
    BY <1>1, <2>1
  <2>3. ~ (i + 1 < sl)
    <3>1. i + 1 < sl => i + 1 \in 2..sl - 1
      BY <1>1, <2>1
    <3>2. QED
      BY <1>1, <2>1, <3>1
  <2>4. i = sl - 1
    BY <1>1, <2>2, <2>3
  <2>5. co < sl => co \in 2..i
    BY <1>1, <2>4
  <2>6. ~ (co < sl)
    BY <1>1, <2>1, <2>5
  <2>7. QED
    BY <1>1, <2>1, <2>4, <2>6
<1>3. ASSUME i = sl - 1, 3 <= sl, sl <= n, co = sl PROVE HostAt(u, i) /\ PathAt(u, n, i + 1)
  <2>1. i + 1 = sl /\ 2 <= i
    BY <1>1, <1>3
  <2>2. \A k \in 2..i : k \in 2..sl - 1 /\ k \in 2..co - 1
    BY <1>1, <1>3
  <2>3. QED
    BY <1>1, <1>3, <2>1, <2>2 DEF HostAt, PathAt
<1>4. QED
  BY <1>2, <1>3

PortAt(u, i, j) == i + 1 <= j /\ \A k \in i + 1..j : u[k] # "/"
PortedAt(u, n, i, j) == u[i] = ":" /\ HostAt(u, i - 1) /\ PortAt(u, i, j) /\ PathAt(u, n, j + 1)

LEMMA PortedOnly ==
  ASSUME NEW u, NEW n \in Nat, NEW sl, NEW co, UrlPlaces(u, n, sl, co), NEW i \in 1..n, NEW j \in 1..n
  PROVE  PortedAt(u, n, i, j) <=>
           i = co /\ j = sl - 1 /\ 3 <= co /\ co + 2 <= sl /\ sl <= n
<1>1. /\ sl \in 2..n + 1 /\ (sl <= n => u[sl] = "/") /\ \A k \in 2..sl - 1 : u[k] # "/"
      /\ co \in 2..sl /\ (co < sl => u[co] = ":") /\ \A k \in 2..co - 1 : u[k] # ":"
  BY DEF UrlPlaces
<1>2. ASSUME PortedAt(u, n, i, j)
      PROVE  i = co /\ j = sl - 1 /\ 3 <= co /\ co + 2 <= sl /\ sl <= n
  <2>1. /\ u[i] = ":" /\ 2 <= i - 1 /\ \A k \in 2..i - 1 : u[k] # ":" /\ u[k] # "/"
        /\ i + 1 <= j /\ (\A k \in i + 1..j : u[k] # "/") /\ j + 1 <= n /\ u[j + 1] = "/"
    BY <1>2 DEF PortedAt, HostAt, PortAt, PathAt
  <2>2. \A k \in 2..j : k \in 2..i - 1 \/ k = i \/ k \in i + 1..j
    OBVIOUS
  <2>3. u[i] # "/"
    BY <2>1
  <2>4. \A k \in 2..j : u[k] # "/"
    BY <2>1, <2>2, <2>3
  <2>5. ~ (sl <= j)
    <3>1. sl <= j => sl \in 2..j /\ sl <= n
      BY <1>1
    <3>2. QED
      BY <1>1, <2>4, <3>1
  <2>6. ~ (j + 1 < sl)
    <3>1. j + 1 < sl => j + 1 \in 2..sl - 1
      BY <1>1, <2>1
    <3>2. QED
      BY <1>1, <2>1, <3>1
  <2>7. j = sl - 1
    BY <1>1, <2>5, <2>6
  <2>8. ~ (co < i)
    <3>1. co < i => co \in 2..i - 1 /\ co < sl
      BY <1>1, <2>1, <2>7
    <3>2. QED
      BY <1>1, <2>1, <3>1
  <2>9. ~ (i < co)
    <3>1. i < co => i \in 2..co - 1
      BY <1>1, <2>1
    <3>2. QED
      BY <1>1, <2>1, <3>1
  <2>10. QED
    BY <1>1, <2>1, <2>7, <2>8, <2>9
<1>3. ASSUME i = co, j = sl - 1, 3 <= co, co + 2 <= sl, sl <= n
      PROVE  PortedAt(u, n, i, j)
  <2>1. i < sl /\ j + 1 = sl /\ 2 <= i - 1 /\ i + 1 <= j /\ sl <= n
    BY <1>1, <1>3
  <2>2. \A k \in 2..i - 1 : k \in 2..sl - 1 /\ k \in 2..co - 1
    BY <1>1, <1>3
  <2>3. \A k \in i + 1..j : k \in 2..sl - 1
    BY <1>1, <1>3
  <2>4. u[i] = ":" /\ u[j + 1] = "/"
    BY <1>1, <1>3, <2>1
  <2>5. HostAt(u, i - 1)
    BY <1>1, <2>1, <2>2 DEF HostAt
  <2>6. PortAt(u, i, j)
    BY <1>1, <2>1, <2>3 DEF PortAt
  <2>7. PathAt(u, n, j + 1)
    BY <2>1, <2>4 DEF PathAt
  <2>8. QED
    BY <2>4, <2>5, <2>6, <2>7 DEF PortedAt
<1>4. QED
  BY <1>2, <1>3

\* What UrlRight says of a text: the readings it quantifies over.
HostOf(s) == s # <<>> /\ ~Contains(s, ":") /\ ~Contains(s, "/")
PortOf(s) == s # <<>> /\ ~Contains(s, "/")
PathOf(s) == s # <<>> /\ s[1] = "/"
PlainReadings(u) ==
  {r \in {[host |-> SubSeq(u, 2, i), port |-> <<"80">>, path |-> From(u, i + 1)] : i \in DOMAIN u}
     : HostOf(r.host) /\ PathOf(r.path)}
PortedReadings(u) ==
  {r \in {[host |-> SubSeq(u, 2, p[1] - 1), port |-> SubSeq(u, p[1] + 1, p[2]), path |-> From(u, p[2] + 1)] :
            p \in {k \in DOMAIN u : u[k] = ":"} \X DOMAIN u}
     : HostOf(r.host) /\ PortOf(r.port) /\ PathOf(r.path)}

LEMMA PlainIs ==
  ASSUME NEW C, NEW u \in Seq(C), NEW n \in Nat, n = Len(u), NEW sl, NEW co, UrlPlaces(u, n, sl, co)
  PROVE  PlainReadings(u) = IF 3 <= sl /\ sl <= n /\ co = sl THEN {Plain(u, n, sl - 1)} ELSE {}
<1> DEFINE Ok(r) == HostOf(r.host) /\ PathOf(r.path)
           R(i) == Plain(u, n, i)
<1>1. DOMAIN u = 1..n /\ sl \in 2..n + 1
  BY LenProperties DEF UrlPlaces
<1>2. \A i \in 1..n : R(i) = [host |-> SubSeq(u, 2, i), port |-> <<"80">>, path |-> From(u, i + 1)]
  BY DEF Plain, From
<1>3. PlainReadings(u) = {r \in {R(i) : i \in 1..n} : Ok(r)}
  <2>1. {R(i) : i \in 1..n}
          = {[host |-> SubSeq(u, 2, i), port |-> <<"80">>, path |-> From(u, i + 1)] : i \in DOMAIN u}
    <3> HIDE DEF R
    <3>1. QED
      BY <1>1, <1>2
  <2> HIDE DEF R
  <2>2. QED
    BY <2>1 DEF PlainReadings
<1>4. \A i \in 1..n : Ok(R(i)) <=> i = sl - 1 /\ 3 <= sl /\ sl <= n /\ co = sl
  <2> SUFFICES ASSUME NEW i \in 1..n PROVE Ok(R(i)) <=> i = sl - 1 /\ 3 <= sl /\ sl <= n /\ co = sl
    OBVIOUS
  <2>1. R(i).host = SubSeq(u, 2, i) /\ R(i).path = SubSeq(u, i + 1, n)
    BY DEF Plain
  <2> HIDE DEF R
  <2>2. HostOf(SubSeq(u, 2, i)) <=> HostAt(u, i)
    BY HostIs DEF HostOf
  <2>3. PathOf(SubSeq(u, i + 1, n)) <=> PathAt(u, n, i + 1)
    <3> DEFINE b == i + 1
    <3>1. b \in Int /\ 1 <= b
      OBVIOUS
    <3> HIDE DEF b
    <3>2. PathOf(SubSeq(u, b, n)) <=> PathAt(u, n, b)
      BY <3>1, PathIs DEF PathOf
    <3>3. QED
      BY <3>2 DEF b
  <2>4. Ok(R(i)) <=> HostAt(u, i) /\ PathAt(u, n, i + 1)
    BY <2>1, <2>2, <2>3
  <2> HIDE DEF Ok
  <2>5. HostAt(u, i) /\ PathAt(u, n, i + 1) <=> i = sl - 1 /\ 3 <= sl /\ sl <= n /\ co = sl
    BY PlainOnly
  <2>6. QED
    BY <2>4, <2>5
<1>5. 3 <= sl /\ sl <= n => sl - 1 \in 1..n
  BY <1>1
<1> HIDE DEF Ok
<1>6. CASE 3 <= sl /\ sl <= n /\ co = sl
  <2> DEFINE x == sl - 1
             Q == {R(i) : i \in 1..n}
  <2>1. x \in 1..n /\ \A i \in 1..n : Ok(R(i)) <=> i = x
    BY <1>4, <1>5, <1>6
  <2> HIDE DEF x, R
  <2>2. {r \in Q : Ok(r)} = {R(x)}
    <3>1. \A r \in Q : Ok(r) => r = R(x)
      BY <2>1
    <3>2. R(x) \in Q /\ Ok(R(x))
      BY <2>1
    <3> HIDE DEF Q
    <3>3. QED
      BY <3>1, <3>2
  <2>3. QED
    BY <1>3, <1>6, <2>2 DEF x, R
<1>7. CASE ~ (3 <= sl /\ sl <= n /\ co = sl)
  <2> DEFINE Q == {R(i) : i \in 1..n}
  <2>1. \A i \in 1..n : ~ Ok(R(i))
    BY <1>4, <1>7
  <2> HIDE DEF R
  <2>2. \A r \in Q : ~ Ok(r)
    BY <2>1
  <2> HIDE DEF Q
  <2>3. {r \in Q : Ok(r)} = {}
    BY <2>2
  <2>4. QED
    BY <1>3, <1>7, <2>3 DEF Q, R
<1>8. QED
  BY <1>6, <1>7

LEMMA PortedIs ==
  ASSUME NEW C, NEW u \in Seq(C), NEW n \in Nat, n = Len(u), NEW sl, NEW co, UrlPlaces(u, n, sl, co)
  PROVE  PortedReadings(u) = IF 3 <= co /\ co + 2 <= sl /\ sl <= n THEN {Ported(u, n, co, sl - 1)} ELSE {}
<1> DEFINE Ok(r) == HostOf(r.host) /\ PortOf(r.port) /\ PathOf(r.path)
           R(i, j) == Ported(u, n, i, j)
           K == {k \in 1..n : u[k] = ":"}
           Q == {[host |-> SubSeq(u, 2, p[1] - 1), port |-> SubSeq(u, p[1] + 1, p[2]),
                  path |-> From(u, p[2] + 1)] :
                   p \in {k \in DOMAIN u : u[k] = ":"} \X DOMAIN u}
           Good == 3 <= co /\ co + 2 <= sl /\ sl <= n
<1>1. DOMAIN u = 1..n /\ sl \in 2..n + 1 /\ co \in 2..sl
  BY LenProperties DEF UrlPlaces
<1>2. \A i, j \in 1..n : R(i, j) = [host |-> SubSeq(u, 2, i - 1), port |-> SubSeq(u, i + 1, j),
                                   path |-> From(u, j + 1)]
  BY DEF Ported, From
<1>3. PortedReadings(u) = {r \in Q : Ok(r)}
  BY DEF PortedReadings
<1>4. \A i, j \in 1..n : u[i] = ":" /\ Ok(R(i, j)) <=> i = co /\ j = sl - 1 /\ Good
  <2> SUFFICES ASSUME NEW i \in 1..n, NEW j \in 1..n
               PROVE  u[i] = ":" /\ Ok(R(i, j)) <=> i = co /\ j = sl - 1 /\ Good
    OBVIOUS
  <2>1. R(i, j).host = SubSeq(u, 2, i - 1) /\ R(i, j).port = SubSeq(u, i + 1, j)
        /\ R(i, j).path = SubSeq(u, j + 1, n)
    BY DEF Ported
  <2> HIDE DEF R
  <2> DEFINE a == i - 1
             d == i + 1
             b == j + 1
  <2>2. a \in Int /\ a <= n /\ d \in Int /\ 1 <= d /\ j \in Int /\ j <= n /\ b \in Int /\ 1 <= b
    OBVIOUS
  <2> HIDE DEF a, b, d
  <2>3. HostOf(SubSeq(u, 2, a)) <=> HostAt(u, a)
    BY <2>2, HostIs DEF HostOf
  <2>4. PathOf(SubSeq(u, b, n)) <=> PathAt(u, n, b)
    BY <2>2, PathIs DEF PathOf
  <2>5. PortOf(SubSeq(u, d, j)) <=> d <= j /\ \A k \in d..j : u[k] # "/"
    BY <2>2, PortIs DEF PortOf
  <2>6. PortOf(SubSeq(u, i + 1, j)) <=> PortAt(u, i, j)
    BY <2>5 DEF PortAt, d
  <2>7. u[i] = ":" /\ Ok(R(i, j)) <=> PortedAt(u, n, i, j)
    BY <2>1, <2>3, <2>4, <2>6 DEF PortedAt, a, b
  <2> HIDE DEF Ok
  <2>8. PortedAt(u, n, i, j) <=> i = co /\ j = sl - 1 /\ 3 <= co /\ co + 2 <= sl /\ sl <= n
    BY PortedOnly
  <2>9. QED
    BY <2>7, <2>8
<1>5. Good => sl - 1 \in 1..n /\ co \in 1..n
  BY <1>1
<1> HIDE DEF Ok
<1> DEFINE A == {k \in DOMAIN u : u[k] = ":"} \X DOMAIN u
           S(p) == [host |-> SubSeq(u, 2, p[1] - 1), port |-> SubSeq(u, p[1] + 1, p[2]),
                    path |-> From(u, p[2] + 1)]
<1>a. \A p \in A : p[1] \in K /\ p[1] \in 1..n /\ p[2] \in 1..n /\ S(p) = R(p[1], p[2])
  <2> SUFFICES ASSUME NEW p \in A
               PROVE  p[1] \in K /\ p[1] \in 1..n /\ p[2] \in 1..n /\ S(p) = R(p[1], p[2])
    OBVIOUS
  <2>1. p[1] \in K /\ p[1] \in 1..n /\ p[2] \in 1..n
    BY <1>1
  <2> HIDE DEF A, R, K
  <2>2. QED
    BY <1>2, <2>1
<1>b. \A i \in K, j \in 1..n : <<i, j>> \in A /\ i \in 1..n
  BY <1>1
<1>6. \A r \in Q : \E i \in K, j \in 1..n : r = R(i, j)
  <2> SUFFICES ASSUME NEW r \in Q PROVE \E i \in K, j \in 1..n : r = R(i, j)
    OBVIOUS
  <2>1. PICK p \in A : r = S(p)
    OBVIOUS
  <2> HIDE DEF A, R, K, S, Q
  <2>2. QED
    BY <1>a, <2>1
<1>7. \A i \in K, j \in 1..n : R(i, j) \in Q
  <2> SUFFICES ASSUME NEW i \in K, NEW j \in 1..n PROVE R(i, j) \in Q
    BY Zenon
  <2> DEFINE p == <<i, j>>
  <2>1. p \in A /\ p[1] = i /\ p[2] = j
    BY <1>b
  <2>2. \A q \in A : S(q) \in Q
    OBVIOUS
  <2> HIDE DEF A, R, K, S, Q, p
  <2>3. S(p) = R(i, j)
    BY <1>a, <2>1
  <2>4. QED
    BY <2>1, <2>2, <2>3
<1> HIDE DEF Q, R
<1>8. CASE Good
  <2> DEFINE x == sl - 1
             y == co
  <2>1. x \in 1..n /\ y \in 1..n /\ \A i, j \in 1..n : u[i] = ":" /\ Ok(R(i, j)) <=> i = y /\ j = x
    <3> HIDE DEF Good
    <3>1. QED
      BY <1>4, <1>5, <1>8
  <2> HIDE DEF x, y
  <2>2. u[y] = ":" /\ Ok(R(y, x))
    BY <2>1
  <2>3. R(y, x) \in Q
    BY <1>7, <2>1, <2>2
  <2>4. \A r \in Q : Ok(r) => r = R(y, x)
    <3> SUFFICES ASSUME NEW r \in Q, Ok(r) PROVE r = R(y, x)
      OBVIOUS
    <3>1. PICK i \in K, j \in 1..n : r = R(i, j)
      BY <1>6
    <3>2. i \in 1..n /\ u[i] = ":" /\ Ok(R(i, j))
      BY <3>1
    <3>3. i = y /\ j = x
      BY <2>1, <3>2
    <3>4. QED
      BY <3>1, <3>3
  <2>5. {r \in Q : Ok(r)} = {R(y, x)}
    BY <2>2, <2>3, <2>4
  <2>6. QED
    BY <1>3, <1>8, <2>5 DEF x, y, R
<1>9. CASE ~ Good
  <2>1. \A i, j \in 1..n : ~ (u[i] = ":" /\ Ok(R(i, j)))
    <3> HIDE DEF Good
    <3>1. QED
      BY <1>4, <1>9
  <2>2. \A r \in Q : ~ Ok(r)
    <3> SUFFICES ASSUME NEW r \in Q, Ok(r) PROVE FALSE
      OBVIOUS
    <3>1. PICK i \in K, j \in 1..n : r = R(i, j)
      BY <1>6
    <3>2. i \in 1..n /\ u[i] = ":" /\ Ok(R(i, j))
      BY <3>1
    <3>3. QED
      BY <2>1, <3>2
  <2>3. {r \in Q : Ok(r)} = {}
    BY <2>2
  <2>4. QED
    BY <1>3, <1>9, <2>3
<1>10. QED
  BY <1>8, <1>9

\* A URL is read in the one way there is.
LEMMA UrlReads ==
  ASSUME NEW C, NEW u \in Seq(C)
  PROVE  LET Readings == PlainReadings(u) \cup PortedReadings(u)
         IN {ParseUrl(u)} = IF u # <<>> /\ u[1] = "http://" /\ Readings # {}
                            THEN {<<r>> : r \in Readings} ELSE {Thrown}
<1> DEFINE n == Len(u)
           Readings == PlainReadings(u) \cup PortedReadings(u)
<1>1. CASE ~ (u # <<>> /\ u[1] = "http://")
  <2>1. ParseUrl(u) = Thrown
    BY <1>1, Zenon DEF ParseUrl
  <2>2. QED
    BY <1>1, <2>1
<1>2. CASE u # <<>> /\ u[1] = "http://"
  <2>1. PICK sl, co : UrlPlaces(u, n, sl, co) /\ ParseUrl(u) = ReadAt(u, n, sl, co)
    BY <1>2, ParseReads
  <2>2. n \in Nat /\ n = Len(u)
    BY LenProperties
  <2>3. sl \in 2..n + 1 /\ co \in 2..sl
    BY <2>1 DEF UrlPlaces
  <2>4. PlainReadings(u) = IF 3 <= sl /\ sl <= n /\ co = sl THEN {Plain(u, n, sl - 1)} ELSE {}
    <3> HIDE DEF n
    <3>1. QED
      BY <2>1, <2>2, PlainIs
  <2>5. PortedReadings(u) = IF 3 <= co /\ co + 2 <= sl /\ sl <= n THEN {Ported(u, n, co, sl - 1)} ELSE {}
    <3> HIDE DEF n
    <3>1. QED
      BY <2>1, <2>2, PortedIs
  <2>6. sl - 1 + 1 = sl
    BY <2>3
  <2> HIDE DEF n
  <2>7. CASE sl = 2 \/ sl > n \/ co = sl - 1 \/ co = 2
    <3>1. ParseUrl(u) = Thrown
      BY <2>1, <2>7 DEF ReadAt
    <3>2. ~ (3 <= sl /\ sl <= n /\ co = sl) /\ ~ (3 <= co /\ co + 2 <= sl /\ sl <= n)
      BY <2>2, <2>3, <2>7
    <3>3. Readings = {}
      BY <2>4, <2>5, <3>2
    <3>4. QED
      BY <3>1, <3>3
  <2>8. CASE ~ (sl = 2 \/ sl > n \/ co = sl - 1 \/ co = 2)
    <3>1. 3 <= sl /\ sl <= n /\ (co = sl \/ (co # sl /\ 3 <= co /\ co + 2 <= sl)) /\ ~ (sl + 2 <= sl)
      BY <2>2, <2>3, <2>8
    <3>2. CASE co = sl
      <4> DEFINE r == Plain(u, n, sl - 1)
      <4>1. ParseUrl(u) = <<r>>
        <5>1. r = [host |-> SubSeq(u, 2, sl - 1), port |-> <<"80">>, path |-> SubSeq(u, sl, n)]
          BY <2>6 DEF Plain
        <5> HIDE DEF r
        <5>2. QED
          BY <2>1, <2>8, <3>2, <5>1 DEF ReadAt
      <4>2. PlainReadings(u) = {r} /\ PortedReadings(u) = {}
        BY <2>3, <2>4, <2>5, <3>1, <3>2
      <4> HIDE DEF r
      <4>3. Readings = {r}
        BY <4>2
      <4>4. {<<x>> : x \in Readings} = {<<r>>} /\ Readings # {}
        <5> HIDE DEF Readings
        <5>1. QED
          BY <4>3
      <4>5. QED
        BY <1>2, <4>1, <4>4
    <3>3. CASE co # sl
      <4> DEFINE r == Ported(u, n, co, sl - 1)
      <4>1. ParseUrl(u) = <<r>>
        <5>1. r = [host |-> SubSeq(u, 2, co - 1), port |-> SubSeq(u, co + 1, sl - 1), path |-> SubSeq(u, sl, n)]
          BY <2>6 DEF Ported
        <5> HIDE DEF r
        <5>2. QED
          BY <2>1, <2>8, <3>3, <5>1 DEF ReadAt
      <4>2. PortedReadings(u) = {r} /\ PlainReadings(u) = {}
        BY <2>3, <2>4, <2>5, <3>1, <3>3
      <4> HIDE DEF r
      <4>3. Readings = {r}
        BY <4>2
      <4>4. {<<x>> : x \in Readings} = {<<r>>} /\ Readings # {}
        <5> HIDE DEF Readings
        <5>1. QED
          BY <4>3
      <4>5. QED
        BY <1>2, <4>1, <4>4
    <3>4. QED
      BY <3>2, <3>3
  <2>9. QED
    BY <2>7, <2>8
<1>3. QED
  BY <1>1, <1>2

LEMMA UrlIsRight == TextTyped => UrlRight
<1> SUFFICES ASSUME TextTyped, unit = "url" PROVE UrlRight
  BY DEF UrlRight
<1>1. text \in Seq(UrlSymbols)
  BY DEF TextTyped
<1> DEFINE Readings == PlainReadings(text) \cup PortedReadings(text)
<1>2. {ParseUrl(text)} = IF text # <<>> /\ text[1] = "http://" /\ Readings # {}
                         THEN {<<r>> : r \in Readings} ELSE {Thrown}
  BY <1>1, UrlReads
<1>3. QED
  BY <1>2, SMTT(30) DEF UrlRight, PlainReadings, PortedReadings, HostOf, PortOf, PathOf

-----------------------------------------------------------------------------
(* wget1() and its server *)

\* The parts of what is put together.
LEMMA ConcatParts ==
  ASSUME NEW C, NEW h \in Seq(C), NEW l \in Seq(C)
  PROVE  /\ h \o l \in Seq(C) /\ Len(h \o l) = Len(h) + Len(l)
         /\ \A k \in 1..Len(h) : (h \o l)[k] = h[k]
         /\ SubSeq(h \o l, 1, Len(h)) = h
         /\ From(h \o l, Len(h) + 1) = l
<1> DEFINE u == h \o l
           n == Len(h)
           m == Len(l)
<1>1. n \in Nat /\ m \in Nat
  BY LenProperties
<1>2. u \in Seq(C) /\ Len(u) = n + m /\ \A i \in 1..n + m : u[i] = IF i <= n THEN h[i] ELSE l[i - n]
  BY ConcatProperties
<1> HIDE DEF u
<1>3. \A k \in 1..n : u[k] = h[k]
  <2>1. \A k \in 1..n : k \in 1..n + m /\ k <= n
    BY <1>1
  <2>2. QED
    BY <1>2, <2>1
<1>4. SubSeq(u, 1, n) = h
  <2> DEFINE s == SubSeq(u, 1, n)
  <2>1. n <= Len(u)
    BY <1>1, <1>2
  <2>2. s \in Seq(C) /\ Len(s) = n /\ \A i \in 1..n : s[i] = u[i]
    BY <1>1, <1>2, <2>1, BeginsWith
  <2> HIDE DEF s
  <2>3. s = h
    BY <1>3, <2>2, SeqEqual
  <2>4. QED
    BY <2>3 DEF s
<1>5. From(u, n + 1) = l
  <2> DEFINE k == n + 1
             s == From(u, k)
  <2>1. k \in Nat /\ 1 <= k /\ k <= Len(u) + 1 /\ Len(u) + 1 - k = m
    BY <1>1, <1>2
  <2>2. \A i \in 1..m : k + i - 1 \in 1..n + m /\ ~ (k + i - 1 <= n) /\ k + i - 1 - n = i
    BY <1>1
  <2>3. \A i \in 1..m : u[k + i - 1] = l[i]
    BY <1>2, <2>2
  <2> HIDE DEF k
  <2>4. s \in Seq(C) /\ Len(s) = Len(u) + 1 - k /\ \A i \in 1..Len(u) + 1 - k : s[i] = u[k + i - 1]
    BY <1>2, <2>1, EndsWith
  <2> HIDE DEF s
  <2>5. Len(s) = m /\ \A i \in 1..m : s[i] = l[i]
    BY <2>1, <2>3, <2>4
  <2>6. s = l
    BY <2>4, <2>5, SeqEqual
  <2>7. QED
    BY <2>6 DEF s, k
<1>6. QED
  BY <1>2, <1>3, <1>4, <1>5 DEF u

\* What follows the headers is the body.
LEMMA BodyAfter ==
  ASSUME NEW V, NEW h \in Seq(V), NEW l \in Seq(V), NEW n \in Nat, n = Len(h), n >= 1,
         Blank(h[n]), \A k \in 1..n - 1 : ~ Blank(h[k])
  PROVE  WgetBody(h \o l) = l
<1> DEFINE u == h \o l
           I == {i \in 1..Len(u) : Blank(u[i])}
           b == IF I # {} THEN Min(I) ELSE 0
<1>1. Len(u) = n + Len(l) /\ (\A k \in 1..n : u[k] = h[k]) /\ From(u, n + 1) = l
  BY ConcatParts
<1>2. WgetBody(u) = IF b = 0 THEN <<>> ELSE From(u, b + 1)
  BY DEF WgetBody, SelectInSeq
<1>3. Len(l) \in Nat
  BY LenProperties
<1> HIDE DEF u
<1>4. n \in I /\ \A i \in I : i \in Nat /\ ~ (i < n)
  <2>1. n \in 1..Len(u) /\ n \in 1..n
    BY <1>1, <1>3
  <2>2. n \in I
    BY <1>1, <2>1
  <2>3. \A i \in 1..n - 1 : i \in 1..n /\ i \notin I
    BY <1>1
  <2>4. \A i \in I : i \in 1..Len(u)
    OBVIOUS
  <2> HIDE DEF I
  <2>5. \A i \in I : i < n => i \in 1..n - 1
    BY <2>4
  <2>6. QED
    BY <2>2, <2>3, <2>4, <2>5
<1> HIDE DEF I
<1>5. Min(I) = n
  <2>1. \E y \in I : \A z \in I : y <= z
    BY <1>4
  <2>2. Min(I) \in I /\ \A z \in I : Min(I) <= z
    BY <2>1 DEF Min
  <2> DEFINE m == Min(I)
  <2> HIDE DEF m
  <2>3. m \in I /\ \A z \in I : m <= z
    BY <2>2 DEF m
  <2>4. m = n
    BY <1>4, <2>3
  <2>5. QED
    BY <2>4 DEF m
<1>6. b = n
  BY <1>4, <1>5
<1>7. QED
  BY <1>1, <1>2, <1>6 DEF u

\* A line that begins with a word is not blank.
LEMMA WordFirst ==
  ASSUME NEW C, NEW p \in Seq(C), NEW q \in Seq(C), Len(p) >= 1, p[1] \notin Blanks
  PROVE  ~ Blank(p \o q) /\ (p \o q)[1] = p[1] /\ p \o q \in Seq(C) /\ Len(p \o q) >= 1
<1> DEFINE u == p \o q
<1>1. u \in Seq(C) /\ Len(u) = Len(p) + Len(q) /\ \A k \in 1..Len(p) : u[k] = p[k]
  BY ConcatParts
<1>2. Len(p) \in Nat /\ Len(q) \in Nat /\ DOMAIN u = 1..Len(u)
  BY <1>1, LenProperties
<1> HIDE DEF u
<1>3. 1 \in DOMAIN u /\ 1 \in 1..Len(p) /\ Len(u) >= 1
  BY <1>1, <1>2
<1>4. u[1] = p[1]
  BY <1>1, <1>3
<1>5. ~ Blank(u)
  BY <1>3, <1>4 DEF Blank
<1>6. QED
  BY <1>1, <1>3, <1>4, <1>5 DEF u

LEMMA HeaderNotBlank ==
  ASSUME NEW name, name \notin Blanks, NEW x
  PROVE  ~ Blank(Header(name, <<x>>))
<1> DEFINE c == ":"
           b == " "
           r == "\r"
           C == {name, c, b, r, x}
           p == <<name, c, b>>
           q == <<x>>
           e == <<r>>
<1> HIDE DEF c, b, r
<1>1. p \in Seq(C) /\ Len(p) >= 1 /\ p[1] = name /\ q \in Seq(C) /\ e \in Seq(C)
  OBVIOUS
<1>2. Header(name, q) = (p \o q) \o e
  BY Zenon DEF Header, c, b, r
<1> HIDE DEF p, q, e, C
<1>3. ~ Blank(p \o q) /\ (p \o q)[1] = p[1] /\ p \o q \in Seq(C) /\ Len(p \o q) >= 1
  BY <1>1, WordFirst
<1> DEFINE w == p \o q
<1> HIDE DEF w
<1>4. w \in Seq(C) /\ Len(w) >= 1 /\ w[1] \notin Blanks
  BY <1>1, <1>3 DEF w
<1>5. ~ Blank(w \o e)
  BY <1>1, <1>4, WordFirst
<1>6. QED
  BY <1>2, <1>5 DEF w, q

LEMMA SixLines ==
  ASSUME NEW a, NEW b, NEW c, NEW d, NEW e, NEW f
  PROVE  /\ (<<a>> \o <<b, c, d>>) \o <<e, f>> = <<a, b, c, d, e, f>>
         /\ (<<a>> \o <<b, c, d>>) \o <<e>> = <<a, b, c, d, e>>
<1> DEFINE C == {a, b, c, d, e, f}
           p == <<a>>
           q == <<b, c, d>>
           x == p \o q
<1>1. p \in Seq(C) /\ Len(p) = 1 /\ p[1] = a /\ q \in Seq(C) /\ Len(q) = 3
      /\ q[1] = b /\ q[2] = c /\ q[3] = d
  OBVIOUS
<1>2. a \in C /\ b \in C /\ c \in C /\ d \in C /\ e \in C /\ f \in C
  OBVIOUS
<1> HIDE DEF p, q, C
<1>3. x \in Seq(C) /\ Len(x) = 4 /\ x[1] = a /\ x[2] = b /\ x[3] = c /\ x[4] = d
  <2>1. x \in Seq(C) /\ Len(x) = Len(p) + Len(q)
        /\ \A i \in 1..Len(p) + Len(q) : x[i] = IF i <= Len(p) THEN p[i] ELSE q[i - Len(p)]
    BY <1>1, ConcatProperties
  <2> HIDE DEF x
  <2>2. Len(x) = 4 /\ \A i \in 1..4 : x[i] = IF i <= 1 THEN p[i] ELSE q[i - 1]
    BY <1>1, <2>1
  <2>3. QED
    BY <1>1, <2>1, <2>2
<1> HIDE DEF x
<1>4. x \o <<e, f>> = <<a, b, c, d, e, f>>
  <2> DEFINE r == <<e, f>>
             y == x \o r
             t == <<a, b, c, d, e, f>>
  <2>1. r \in Seq(C) /\ Len(r) = 2 /\ r[1] = e /\ r[2] = f /\ t \in Seq(C) /\ Len(t) = 6
        /\ t[1] = a /\ t[2] = b /\ t[3] = c /\ t[4] = d /\ t[5] = e /\ t[6] = f
    BY <1>2
  <2> HIDE DEF r, t
  <2>2. y \in Seq(C) /\ Len(y) = Len(x) + Len(r)
        /\ \A i \in 1..Len(x) + Len(r) : y[i] = IF i <= Len(x) THEN x[i] ELSE r[i - Len(x)]
    BY <1>3, <2>1, ConcatProperties
  <2> HIDE DEF y
  <2>3. Len(y) = 6 /\ \A i \in 1..6 : y[i] = IF i <= 4 THEN x[i] ELSE r[i - 4]
    BY <1>3, <2>1, <2>2
  <2>4. y[1] = a /\ y[2] = b /\ y[3] = c /\ y[4] = d /\ y[5] = e /\ y[6] = f
    BY <1>3, <2>1, <2>3
  <2>5. \A i \in 1..6 : i = 1 \/ i = 2 \/ i = 3 \/ i = 4 \/ i = 5 \/ i = 6
    OBVIOUS
  <2>6. \A i \in 1..6 : y[i] = t[i]
    BY <2>1, <2>4, <2>5
  <2>7. y = t
    BY <2>1, <2>2, <2>3, <2>6, SeqEqual
  <2>8. QED
    BY <2>7 DEF y, r, t
<1>5. x \o <<e>> = <<a, b, c, d, e>>
  <2> DEFINE r == <<e>>
             y == x \o r
             t == <<a, b, c, d, e>>
  <2>1. r \in Seq(C) /\ Len(r) = 1 /\ r[1] = e /\ t \in Seq(C) /\ Len(t) = 5
        /\ t[1] = a /\ t[2] = b /\ t[3] = c /\ t[4] = d /\ t[5] = e
    BY <1>2
  <2> HIDE DEF r, t
  <2>2. y \in Seq(C) /\ Len(y) = Len(x) + Len(r)
        /\ \A i \in 1..Len(x) + Len(r) : y[i] = IF i <= Len(x) THEN x[i] ELSE r[i - Len(x)]
    BY <1>3, <2>1, ConcatProperties
  <2> HIDE DEF y
  <2>3. Len(y) = 5 /\ \A i \in 1..5 : y[i] = IF i <= 4 THEN x[i] ELSE r[i - 4]
    BY <1>3, <2>1, <2>2
  <2>4. y[1] = a /\ y[2] = b /\ y[3] = c /\ y[4] = d /\ y[5] = e
    BY <1>3, <2>1, <2>3
  <2>5. \A i \in 1..5 : i = 1 \/ i = 2 \/ i = 3 \/ i = 4 \/ i = 5
    OBVIOUS
  <2>6. \A i \in 1..5 : y[i] = t[i]
    BY <2>1, <2>4, <2>5
  <2>7. y = t
    BY <2>1, <2>2, <2>3, <2>6, SeqEqual
  <2>8. QED
    BY <2>7 DEF y, r, t
<1>6. QED
  BY <1>4, <1>5, Zenon DEF x, p, q

LEMMA BlankEnd == Blank(<<"\r">>)
<1> DEFINE r == "\r"
<1>1. r \in Blanks
  BY Zenon DEF Blanks
<1> HIDE DEF r
<1>2. Blank(<<r>>)
  BY <1>1 DEF Blank
<1>3. QED
  BY <1>2 DEF r

LEMMA NoBlanks ==
  /\ "HTTP" \notin Blanks /\ "Date" \notin Blanks /\ "Server" \notin Blanks
  /\ "Connection" \notin Blanks /\ "Content-Type" \notin Blanks
BY DEF Blanks

LEMMA BodyOfSix ==
  ASSUME NEW a, NEW b, NEW c, NEW d, NEW e, NEW f, NEW T, NEW lines \in Seq(T),
         ~ Blank(a), ~ Blank(b), ~ Blank(c), ~ Blank(d), ~ Blank(e), Blank(f)
  PROVE  WgetBody(<<a, b, c, d, e, f>> \o lines) = lines
<1> DEFINE V == {a, b, c, d, e, f} \cup T
           h == <<a, b, c, d, e, f>>
           n == 6
<1>1. h \in Seq(V) /\ Len(h) = n /\ h[1] = a /\ h[2] = b /\ h[3] = c /\ h[4] = d /\ h[5] = e /\ h[6] = f
  OBVIOUS
<1>2. T \subseteq V
  OBVIOUS
<1> HIDE DEF V, h
<1>3. lines \in Seq(V)
  <2>1. DOMAIN lines = 1..Len(lines) /\ Len(lines) \in Nat /\ \A k \in 1..Len(lines) : lines[k] \in T
    BY LenProperties, ElementOfSeq
  <2>2. QED
    BY <1>2, <2>1
<1>4. \A k \in 1..n - 1 : k = 1 \/ k = 2 \/ k = 3 \/ k = 4 \/ k = 5
  OBVIOUS
<1>5. n \in Nat /\ n = Len(h) /\ n >= 1 /\ Blank(h[n]) /\ \A k \in 1..n - 1 : ~ Blank(h[k])
  BY <1>1, <1>4
<1> HIDE DEF n
<1>6. WgetBody(h \o lines) = lines
  BY <1>1, <1>3, <1>5, BodyAfter
<1>7. QED
  BY <1>6 DEF h

LEMMA BodyOfFive ==
  ASSUME NEW a, NEW b, NEW c, NEW d, NEW e, NEW T, NEW lines \in Seq(T),
         ~ Blank(a), ~ Blank(b), ~ Blank(c), ~ Blank(d), Blank(e)
  PROVE  WgetBody(<<a, b, c, d, e>> \o lines) = lines
<1> DEFINE V == {a, b, c, d, e} \cup T
           h == <<a, b, c, d, e>>
           n == 5
<1>1. h \in Seq(V) /\ Len(h) = n /\ h[1] = a /\ h[2] = b /\ h[3] = c /\ h[4] = d /\ h[5] = e
  OBVIOUS
<1>2. T \subseteq V
  OBVIOUS
<1> HIDE DEF V, h
<1>3. lines \in Seq(V)
  <2>1. DOMAIN lines = 1..Len(lines) /\ Len(lines) \in Nat /\ \A k \in 1..Len(lines) : lines[k] \in T
    BY LenProperties, ElementOfSeq
  <2>2. QED
    BY <1>2, <2>1
<1>4. \A k \in 1..n - 1 : k = 1 \/ k = 2 \/ k = 3 \/ k = 4
  OBVIOUS
<1>5. n \in Nat /\ n = Len(h) /\ n >= 1 /\ Blank(h[n]) /\ \A k \in 1..n - 1 : ~ Blank(h[k])
  BY <1>1, <1>4
<1> HIDE DEF n
<1>6. WgetBody(h \o lines) = lines
  BY <1>1, <1>3, <1>5, BodyAfter
<1>7. QED
  BY <1>6 DEF h

\* A client gets what follows the headers of a server.
LEMMA BodiesAre ==
  ASSUME NEW T, NEW lines \in Seq(T)
  PROVE  /\ WgetBody(Header200(<<"text">>) \o lines) = lines
         /\ WgetBody(Header404(<<"a">>) \o lines) = lines
<1> DEFINE http == "HTTP"
           v == <<http, "/", "1.1", " ", "200", "\r">>
           date == Header("Date", <<"now">>)
           server == Header("Server", <<"KISS">>)
           close == Header("Connection", <<"close">>)
           type == Header("Content-Type", <<"text">>)
           blank == <<"\r">>
           p == <<http, "/", "1.1", " ", "404", " ">>
           w == p \o <<"a">> \o blank
<1>1. http \notin Blanks
  BY NoBlanks
<1>2. ~ Blank(date) /\ ~ Blank(server) /\ ~ Blank(close) /\ ~ Blank(type)
  <2> HIDE DEF date, server, close, type
  <2>1. ~ Blank(date)
    BY NoBlanks, HeaderNotBlank DEF date
  <2>2. ~ Blank(server)
    BY NoBlanks, HeaderNotBlank DEF server
  <2>3. ~ Blank(close)
    BY NoBlanks, HeaderNotBlank DEF close
  <2>4. ~ Blank(type)
    BY NoBlanks, HeaderNotBlank DEF type
  <2>5. QED
    BY <2>1, <2>2, <2>3, <2>4
<1>3. Blank(blank)
  BY BlankEnd
<1>4. ~ Blank(v) /\ ~ Blank(w)
  <2> DEFINE s == "/"
             o == "1.1"
             b == " "
             q == "200"
             r == "\r"
             g == "404"
             a == "a"
             C == {http, s, o, b, q, r, g, a}
  <2> HIDE DEF http, s, o, b, q, r, g, a
  <2> DEFINE x == <<http, s, o, b, q, r>>
             y == <<http, s, o, b, g, b>>
             z == <<a>>
             e == <<r>>
  <2>1. DOMAIN x = 1..6 /\ x[1] = http /\ 1 \in 1..6
    OBVIOUS
  <2>2. y \in Seq(C) /\ Len(y) >= 1 /\ y[1] = http /\ z \in Seq(C) /\ e \in Seq(C)
    OBVIOUS
  <2> HIDE DEF x, y, z, e, C
  <2>3. ~ Blank(x)
    BY <1>1, <2>1 DEF Blank
  <2>4. (y \o z)[1] = y[1] /\ y \o z \in Seq(C) /\ Len(y \o z) >= 1
    BY <1>1, <2>2, WordFirst
  <2> DEFINE t == y \o z
  <2>5. t \in Seq(C) /\ Len(t) >= 1 /\ t[1] \notin Blanks
    BY <1>1, <2>2, <2>4
  <2> HIDE DEF t
  <2>6. ~ Blank(t \o e)
    BY <2>2, <2>5, WordFirst
  <2>7. QED
    BY <2>3, <2>6 DEF x, y, z, e, t, http, s, o, b, q, r, g, a
<1> HIDE DEF v, date, server, close, type, blank, w
<1>5. Header200(<<"text">>) = (<<v>> \o <<date, server, close>>) \o <<type, blank>>
  BY Zenon DEF Header200, CommonHeaders, v, date, server, close, type, blank, http
<1>6. Header404(<<"a">>) = (<<w>> \o <<date, server, close>>) \o <<blank>>
  BY Zenon DEF Header404, CommonHeaders, date, server, close, blank, w, p, http
<1>7. Header200(<<"text">>) = <<v, date, server, close, type, blank>>
  BY <1>5, SixLines
<1>8. Header404(<<"a">>) = <<w, date, server, close, blank>>
  BY <1>6, SixLines
<1>9. WgetBody(<<v, date, server, close, type, blank>> \o lines) = lines
  BY <1>2, <1>3, <1>4, BodyOfSix
<1>10. WgetBody(<<w, date, server, close, blank>> \o lines) = lines
  BY <1>2, <1>3, <1>4, BodyOfFive
<1>11. QED
  BY <1>7, <1>8, <1>9, <1>10

-----------------------------------------------------------------------------
(* A request of wget1(), read by parse_get_request() *)

\* A line without its last character.
LEMMA FrontIs ==
  ASSUME NEW C, NEW x \in Seq(C), NEW c \in C
  PROVE  Front(x \o <<c>>) = x
<1> DEFINE e == <<c>>
           u == x \o e
<1>1. e \in Seq(C) /\ Len(e) = 1 /\ Len(x) \in Nat
  BY LenProperties
<1> HIDE DEF e
<1>2. Len(u) = Len(x) + Len(e) /\ SubSeq(u, 1, Len(x)) = x
  BY <1>1, ConcatParts
<1> HIDE DEF u
<1>3. Len(u) - 1 = Len(x)
  BY <1>1, <1>2
<1>4. Front(u) = x
  BY <1>2, <1>3 DEF Front
<1>5. QED
  BY <1>4 DEF u, e

\* A header that wget1() writes is cut into its name and its value.
CutOff(t, colon, B) ==
  LET x == FirstPlace(Len(t), {i \in 1..Len(t) : t[i] = colon})
      y == FirstPlace(Len(t), {i \in x + 1..Len(t) : t[i] \notin B})
  IN IF x > Len(t) THEN Thrown ELSE << <<SubSeq(t, 1, x - 1), From(t, y)>> >>

LEMMA CutOffIs ==
  ASSUME NEW t
  PROVE  SplitColonBlank(t) = CutOff(t, ":", {" ", "\t"})
BY DEF SplitColonBlank, FirstFrom, SelectInSubSeq, FirstPlace, CutOff

LEMMA HeaderCut ==
  ASSUME NEW C, NEW name \in C, NEW colon \in C, NEW blank \in C, NEW v \in Seq(C), Len(v) >= 1,
         name # colon, NEW B, colon \notin B, blank \in B, v[1] \notin B
  PROVE  CutOff(<<name, colon, blank>> \o v, colon, B) = << << <<name>>, v >> >>
<1> DEFINE p == <<name, colon, blank>>
           t == p \o v
           n == Len(t)
           I == {i \in 1..n : t[i] = colon}
           x == FirstPlace(n, I)
           J == {i \in x + 1..n : t[i] \notin B}
           y == FirstPlace(n, J)
           a == SubSeq(t, 1, x - 1)
           b == From(t, y)
           hh == CutOff(t, colon, B)
<1>1. hh = IF x > n THEN Thrown ELSE << <<a, b>> >>
  BY DEF CutOff
<1>3. p \in Seq(C) /\ Len(p) = 3 /\ p[1] = name /\ p[2] = colon /\ p[3] = blank
  OBVIOUS
<1> HIDE DEF hh, p
<1>5. t \in Seq(C) /\ n = Len(p) + Len(v) /\ (\A k \in 1..Len(p) : t[k] = p[k])
      /\ SubSeq(t, 1, Len(p)) = p /\ From(t, Len(p) + 1) = v
  BY <1>3, ConcatParts
<1>6. n = 3 + Len(v) /\ Len(v) \in Nat /\ n \in Nat /\ t[1] = name /\ t[2] = colon /\ t[3] = blank /\ From(t, 4) = v
  BY <1>3, <1>5, LenProperties
<1>7. t[4] = v[1]
  <2>1. \A i \in 1..Len(p) + Len(v) : t[i] = IF i <= Len(p) THEN p[i] ELSE v[i - Len(p)]
    BY <1>3, ConcatProperties
  <2> HIDE DEF t
  <2>2. QED
    BY <1>3, <1>6, <2>1
<1> HIDE DEF t, n
<1>8. x = 2
  <2> DEFINE k == 1
             z == 2
  <2>1. k \in Nat /\ 1 <= k /\ k <= n + 1 /\ I \subseteq k..n /\ z \in k..n + 1 /\ z \in I
    BY <1>6
  <2>2. \A i \in I : z <= i
    BY <1>6
  <2> HIDE DEF I, k, z
  <2>3. FirstPlace(n, I) = z
    BY <1>6, <2>1, <2>2, FirstIsOnly
  <2>4. QED
    BY <2>3 DEF z
<1> HIDE DEF x
<1>9. y = 4
  <2> DEFINE k == 3
             z == 4
  <2>1. J = {i \in k..n : t[i] \notin B}
    BY <1>8
  <2> HIDE DEF J
  <2>2. k \in Nat /\ 1 <= k /\ k <= n + 1 /\ J \subseteq k..n /\ z \in k..n + 1 /\ z \in J
    BY <1>6, <1>7, <2>1
  <2>3. \A i \in J : z <= i
    BY <1>6, <2>1
  <2> HIDE DEF k, z
  <2>4. FirstPlace(n, J) = z
    BY <1>6, <2>2, <2>3, FirstIsOnly
  <2>5. QED
    BY <2>4 DEF z
<1>10. a = <<name>> /\ b = v
  <2>1. b = v
    BY <1>6, <1>9
  <2>2. a = SubSeq(t, 1, 1)
    BY <1>8
  <2> DEFINE k == 1
             s == SubSeq(t, 1, k)
             q == <<name>>
  <2>3. k \in Nat /\ k <= Len(t)
    BY <1>6 DEF n
  <2> HIDE DEF k
  <2>4. s \in Seq(C) /\ Len(s) = k /\ \A i \in 1..k : s[i] = t[i]
    BY <1>5, <2>3, BeginsWith
  <2> HIDE DEF s
  <2>5. q \in Seq(C) /\ Len(q) = 1 /\ q[1] = name
    OBVIOUS
  <2>6. Len(s) = 1 /\ s[1] = name
    BY <1>6, <2>4 DEF k
  <2> HIDE DEF q
  <2>7. s = q
    BY <2>4, <2>5, <2>6, SeqEqual
  <2>8. QED
    BY <2>1, <2>2, <2>7 DEF s, k, q
<1> HIDE DEF a, b, y
<1>11. hh = << <<a, b>> >>
  BY <1>1, <1>6, <1>8
<1>12. QED
  BY <1>10, <1>11 DEF hh, t, p

\* The only character of a part, and the three of one.
LEMMA OneIs ==
  ASSUME NEW C, NEW q \in Seq(C), Len(q) = 1, NEW a \in C, q[1] = a
  PROVE  q = <<a>>
<1> DEFINE z == <<a>>
<1>1. z \in Seq(C) /\ Len(z) = 1 /\ z[1] = a
  OBVIOUS
<1> HIDE DEF z
<1>2. \A i \in 1..Len(q) : q[i] = z[i]
  BY <1>1
<1>3. q = z
  BY <1>1, <1>2, SeqEqual
<1>4. QED
  BY <1>3 DEF z

LEMMA ThreeAre ==
  ASSUME NEW C, NEW q \in Seq(C), Len(q) = 3, NEW a \in C, NEW b \in C, NEW c \in C,
         q[1] = a, q[2] = b, q[3] = c
  PROVE  q = <<a, b, c>>
<1> DEFINE z == <<a, b, c>>
<1>1. z \in Seq(C) /\ Len(z) = 3 /\ z[1] = a /\ z[2] = b /\ z[3] = c
  OBVIOUS
<1> HIDE DEF z
<1>2. \A i \in 1..Len(q) : i = 1 \/ i = 2 \/ i = 3
  OBVIOUS
<1>3. \A i \in 1..Len(q) : q[i] = z[i]
  BY <1>1, <1>2
<1>4. q = z
  BY <1>1, <1>3, SeqEqual
<1>5. QED
  BY <1>4 DEF z

\* The part between two cuts.
PartIs(q, C, t, x, n) == q \in Seq(C) /\ Len(q) = n /\ \A k \in 1..n : q[k] = t[x + k]

LEMMA PartBetween ==
  ASSUME NEW C, NEW t \in Seq(C), NEW seps, NEW c, CutsOf(c, t, seps), NEW i \in 1..Len(c) - 1,
         NEW x, x = c[i], NEW n, n = c[i + 1] - c[i] - 1
  PROVE  PartIs(PartAt(t, c, i), C, t, x, n)
<1>1. PartAt(t, c, i) \in Seq(C)
  BY SplitAnyIs
<1>2. Len(PartAt(t, c, i)) = n
  BY SplitAnyIs
<1>3. \A k \in 1..c[i + 1] - c[i] - 1 : PartAt(t, c, i)[k] = t[c[i] + k]
  BY SplitAnyIs
<1>4. QED
  BY <1>1, <1>2, <1>3 DEF PartIs

\* A version, and the first line of a request.
LEMMA VersionSplit ==
  ASSUME NEW C, NEW h \in C, NEW s \in C, NEW o \in C, NEW seps, s \in seps, h \notin seps, o \notin seps
  PROVE  LET v == SplitAny(<<h, s, o>>, seps)
         IN Len(v) = 2 /\ v[1] = <<h>> /\ v[2] = <<o>>
<1> DEFINE t == <<h, s, o>>
           c == <<0, 2, 4>>
           v == SplitAny(t, seps)
<1>1. t \in Seq(C) /\ Len(t) = 3 /\ t[1] = h /\ t[2] = s /\ t[3] = o
  OBVIOUS
<1>2. c \in Seq(Int) /\ Len(c) = 3 /\ c[1] = 0 /\ c[2] = 2 /\ c[3] = 4
  OBVIOUS
<1> HIDE DEF t, c, v
<1>3. CutsOf(c, t, seps)
  <2>1. \A i, j \in 1..Len(c) : i < j => c[i] < c[j]
    <3>1. \A i \in 1..Len(c) : i = 1 \/ i = 2 \/ i = 3
      BY <1>2
    <3>2. QED
      BY <1>2, <3>1
  <2>2. \A i \in 2..Len(c) - 1 : t[c[i]] \in seps
    <3>1. \A i \in 2..Len(c) - 1 : i = 2
      BY <1>2
    <3>2. QED
      BY <1>1, <1>2, <3>1
  <2>3. \A i \in 1..Len(c) - 1 : \A k \in c[i] + 1..c[i + 1] - 1 : t[k] \notin seps
    <3>1. \A i \in 1..Len(c) - 1 : i = 1 \/ i = 2
      BY <1>2
    <3>2. \A k \in c[1] + 1..c[1 + 1] - 1 : k = 1
      BY <1>2
    <3>3. \A k \in c[2] + 1..c[2 + 1] - 1 : k = 3
      BY <1>2
    <3>4. QED
      BY <1>1, <3>1, <3>2, <3>3
  <2>4. QED
    BY <1>1, <1>2, <2>1, <2>2, <2>3 DEF CutsOf
<1>4. v = [i \in 1..Len(c) - 1 |-> PartAt(t, c, i)]
  BY <1>1, <1>3, SplitAnyIs DEF v
<1>5. PartAt(t, c, 1) \in Seq(C) /\ Len(PartAt(t, c, 1)) = 1
      /\ PartAt(t, c, 1)[1] = h
  <2> DEFINE i == 1
             x == 0
             n == 1
             q == PartAt(t, c, i)
  <2>1. i \in 1..Len(c) - 1 /\ x = c[i] /\ n = c[i + 1] - c[i] - 1
    BY <1>2
  <2> HIDE DEF i, x, n
  <2>2. PartIs(q, C, t, x, n)
    BY <1>1, <1>3, <2>1, PartBetween
  <2> HIDE DEF q
  <2>3. q \in Seq(C) /\ Len(q) = 1 /\ q[1] = h
    BY <1>1, <2>2 DEF PartIs, x, n
  <2>4. QED
    BY <2>3 DEF q, i
<1>6. PartAt(t, c, 2) \in Seq(C) /\ Len(PartAt(t, c, 2)) = 1
      /\ PartAt(t, c, 2)[1] = o
  <2> DEFINE i == 2
             x == 2
             n == 1
             q == PartAt(t, c, i)
  <2>1. i \in 1..Len(c) - 1 /\ x = c[i] /\ n = c[i + 1] - c[i] - 1
    BY <1>2
  <2> HIDE DEF i, x, n
  <2>2. PartIs(q, C, t, x, n)
    BY <1>1, <1>3, <2>1, PartBetween
  <2> HIDE DEF q
  <2>3. q \in Seq(C) /\ Len(q) = 1 /\ q[1] = o
    BY <1>1, <2>2 DEF PartIs, x, n
  <2>4. QED
    BY <2>3 DEF q, i
<1>7. PartAt(t, c, 1) = <<h>> /\ PartAt(t, c, 2) = <<o>>
  BY <1>5, <1>6, OneIs
<1>8. Len(v) = 2 /\ v[1] = PartAt(t, c, 1) /\ v[2] = PartAt(t, c, 2)
  BY <1>2, <1>4
<1>9. QED
  BY <1>7, <1>8 DEF v, t

ThreeWords(C, g, b, p, h, s, o, seps) ==
  LET v == SplitAny(<<g, b, p, b, h, s, o>>, seps)
  IN v \in Seq(Seq(C)) /\ Len(v) = 3 /\ v[1] = <<g>> /\ v[2] = <<p>> /\ v[3] = <<h, s, o>>

LEMMA RequestSplit ==
  ASSUME NEW C, NEW g \in C, NEW b \in C, NEW p \in C, NEW h \in C, NEW s \in C, NEW o \in C,
         NEW seps, b \in seps, g \notin seps, p \notin seps, h \notin seps, s \notin seps, o \notin seps
  PROVE  ThreeWords(C, g, b, p, h, s, o, seps)
<1> DEFINE t == <<g, b, p, b, h, s, o>>
           c == <<0, 2, 4, 8>>
           v == SplitAny(t, seps)
<1>1. t \in Seq(C) /\ Len(t) = 7 /\ t[1] = g /\ t[2] = b /\ t[3] = p /\ t[4] = b /\ t[5] = h
      /\ t[6] = s /\ t[7] = o
  OBVIOUS
<1>2. c \in Seq(Int) /\ Len(c) = 4 /\ c[1] = 0 /\ c[2] = 2 /\ c[3] = 4 /\ c[4] = 8
  OBVIOUS
<1> HIDE DEF t, c, v
<1>3. CutsOf(c, t, seps)
  <2>1. \A i, j \in 1..Len(c) : i < j => c[i] < c[j]
    <3>1. \A i \in 1..Len(c) : i = 1 \/ i = 2 \/ i = 3 \/ i = 4
      BY <1>2
    <3>2. QED
      BY <1>2, <3>1
  <2>2. \A i \in 2..Len(c) - 1 : t[c[i]] \in seps
    <3>1. \A i \in 2..Len(c) - 1 : i = 2 \/ i = 3
      BY <1>2
    <3>2. QED
      BY <1>1, <1>2, <3>1
  <2>3. \A i \in 1..Len(c) - 1 : \A k \in c[i] + 1..c[i + 1] - 1 : t[k] \notin seps
    <3>1. \A i \in 1..Len(c) - 1 : i = 1 \/ i = 2 \/ i = 3
      BY <1>2
    <3>2. \A k \in c[1] + 1..c[1 + 1] - 1 : k = 1
      BY <1>2
    <3>3. \A k \in c[2] + 1..c[2 + 1] - 1 : k = 3
      BY <1>2
    <3>4. \A k \in c[3] + 1..c[3 + 1] - 1 : k = 5 \/ k = 6 \/ k = 7
      BY <1>2
    <3>5. QED
      BY <1>1, <3>1, <3>2, <3>3, <3>4
  <2>4. QED
    BY <1>1, <1>2, <2>1, <2>2, <2>3 DEF CutsOf
<1>4. v = [i \in 1..Len(c) - 1 |-> PartAt(t, c, i)] /\ v \in Seq(Seq(C))
  <2>1. t \in Seq(C)
    BY <1>1
  <2>2. SplitAny(t, seps) = [i \in 1..Len(c) - 1 |-> PartAt(t, c, i)]
    BY <1>3, <2>1, SplitAnyIs
  <2>3. SplitAny(t, seps) \in Seq(Seq(C))
    BY <1>3, <2>1, SplitAnyIs
  <2>4. QED
    BY <2>2, <2>3, Zenon DEF v
<1>5. PartAt(t, c, 1) \in Seq(C) /\ Len(PartAt(t, c, 1)) = 1
      /\ PartAt(t, c, 1)[1] = g
  <2> DEFINE i == 1
             x == 0
             n == 1
             q == PartAt(t, c, i)
  <2>1. i \in 1..Len(c) - 1 /\ x = c[i] /\ n = c[i + 1] - c[i] - 1
    BY <1>2
  <2> HIDE DEF i, x, n
  <2>2. PartIs(q, C, t, x, n)
    BY <1>1, <1>3, <2>1, PartBetween
  <2> HIDE DEF q
  <2>3. q \in Seq(C) /\ Len(q) = 1 /\ q[1] = g
    BY <1>1, <2>2 DEF PartIs, x, n
  <2>4. QED
    BY <2>3 DEF q, i
<1>6. PartAt(t, c, 2) \in Seq(C) /\ Len(PartAt(t, c, 2)) = 1
      /\ PartAt(t, c, 2)[1] = p
  <2> DEFINE i == 2
             x == 2
             n == 1
             q == PartAt(t, c, i)
  <2>1. i \in 1..Len(c) - 1 /\ x = c[i] /\ n = c[i + 1] - c[i] - 1
    BY <1>2
  <2> HIDE DEF i, x, n
  <2>2. PartIs(q, C, t, x, n)
    BY <1>1, <1>3, <2>1, PartBetween
  <2> HIDE DEF q
  <2>3. q \in Seq(C) /\ Len(q) = 1 /\ q[1] = p
    BY <1>1, <2>2 DEF PartIs, x, n
  <2>4. QED
    BY <2>3 DEF q, i
<1>7. PartAt(t, c, 3) \in Seq(C) /\ Len(PartAt(t, c, 3)) = 3
      /\ PartAt(t, c, 3)[1] = h /\ PartAt(t, c, 3)[2] = s /\ PartAt(t, c, 3)[3] = o
  <2> DEFINE i == 3
             x == 4
             n == 3
             q == PartAt(t, c, i)
  <2>1. i \in 1..Len(c) - 1 /\ x = c[i] /\ n = c[i + 1] - c[i] - 1
    BY <1>2
  <2> HIDE DEF i, x, n
  <2>2. PartIs(q, C, t, x, n)
    BY <1>1, <1>3, <2>1, PartBetween
  <2> HIDE DEF q
  <2>3. q \in Seq(C) /\ Len(q) = 3 /\ q[1] = h /\ q[2] = s /\ q[3] = o
    BY <1>1, <2>2 DEF PartIs, x, n
  <2>4. QED
    BY <2>3 DEF q, i
<1>8. PartAt(t, c, 1) = <<g>> /\ PartAt(t, c, 2) = <<p>>
  BY <1>5, <1>6, OneIs
<1>9. PartAt(t, c, 3) = <<h, s, o>>
  BY <1>7, ThreeAre
<1>10. Len(v) = 3 /\ v[1] = PartAt(t, c, 1) /\ v[2] = PartAt(t, c, 2) /\ v[3] = PartAt(t, c, 3)
  BY <1>2, <1>4
<1>11. QED
  BY <1>4, <1>8, <1>9, <1>10, Zenon DEF v, t, ThreeWords

\* None of three words is empty.
LEMMA WordsAre ==
  ASSUME NEW C, NEW line, NEW w \in Seq(Seq(C)), w = SplitAny(line, Blanks),
         \A k \in 1..Len(w) : w[k] # <<>>
  PROVE  Words(line) = w
<1> DEFINE f == [k \in DOMAIN w |-> IF w[k] = <<>> THEN <<>> ELSE <<w[k]>>]
           g == [k \in 1..Len(w) |-> <<w[k]>>]
<1>1. DOMAIN w = 1..Len(w)
  BY LenProperties
<1>2. f = g
  BY <1>1
<1>3. FlattenSeq(g) = w
  BY FlattenIs DEF Flatten
<1> HIDE DEF g
<1>4. Words(line) = FlattenSeq(f)
  BY Zenon DEF Words
<1>5. QED
  BY <1>2, <1>3, <1>4

\* What one header does to what is known of a request, and three of them.
HeaderTurn(x, hh) ==
  IF x = Thrown \/ hh = Thrown THEN Thrown ELSE <<WithHeader(x[1], hh[1][1], hh[1][2])>>

LEMMA TurnIs ==
  ASSUME NEW r, NEW name, NEW v
  PROVE  HeaderTurn(<<r>>, << <<name, v>> >>) = <<WithHeader(r, name, v)>>
<1> DEFINE x == <<r>>
           hh == << <<name, v>> >>
<1>1. x # Thrown /\ x[1] = r
  BY DEF Thrown
<1>2. hh # Thrown /\ hh[1][1] = name /\ hh[1][2] = v
  BY DEF Thrown
<1> HIDE DEF x, hh
<1>3. HeaderTurn(x, hh) = <<WithHeader(r, name, v)>>
  BY <1>1, <1>2 DEF HeaderTurn
<1>4. QED
  BY <1>3 DEF x, hh

LEMMA HeadersAre ==
  ASSUME NEW V, NEW N \in Seq(V), Len(N) >= 4,
         N[1] # <<>>, N[2] # <<>>, N[3] # <<>>, N[4] = <<>>,
         NEW f, NEW u, NEW g, NEW v, NEW h, NEW w,
         SplitColonBlank(N[1]) = << <<f, u>> >>, SplitColonBlank(N[2]) = << <<g, v>> >>,
         SplitColonBlank(N[3]) = << <<h, w>> >>, NEW r
  PROVE  HeadersOf(N, r) = <<WithHeader(WithHeader(WithHeader(r, f, u), g, v), h, w)>>
<1> DEFINE n == Len(N)
           I == {i \in 1..n : N[i] = <<>>}
           stop == FirstPlace(n, I)
           D == 0..stop - 1
           Cut(k) == SplitColonBlank(N[k])
           Body(a, k) == IF k = 0 THEN <<r>> ELSE HeaderTurn(a[k - 1], Cut(k))
           All(a) == a = [k \in D |-> Body(a, k)]
           L == CHOOSE a : All(a)
           r1 == WithHeader(r, f, u)
           r2 == WithHeader(r1, g, v)
           r3 == WithHeader(r2, h, w)
           At(k) == IF k = 0 THEN <<r>> ELSE IF k = 1 THEN <<r1>> ELSE IF k = 2 THEN <<r2>> ELSE <<r3>>
           E == [k \in D |-> At(k)]
<1>1. HeadersOf(N, r) = L[stop - 1]
  BY DEF HeadersOf, FirstFrom, SelectInSubSeq, FirstPlace, Trim, HeaderTurn
<1>2. n \in Nat
  BY LenProperties
<1>3. stop = 4
  <2> DEFINE k == 1
             z == 4
  <2>1. k \in Nat /\ 1 <= k /\ k <= n + 1 /\ I \subseteq k..n /\ z \in k..n + 1 /\ z \in I
    BY <1>2
  <2>2. \A i \in I : z <= i
    <3>1. \A i \in 1..n : i = 1 \/ i = 2 \/ i = 3 \/ 4 <= i
      BY <1>2
    <3>2. QED
      BY <3>1
  <2> HIDE DEF I, k, z, n
  <2>3. FirstPlace(n, I) = z
    BY <1>2, <2>1, <2>2, FirstIsOnly
  <2>4. QED
    BY <2>3 DEF z
<1> HIDE DEF stop
<1>4. D = 0..3
  BY <1>3
<1>5. \A k \in D : k = 0 \/ k = 1 \/ k = 2 \/ k = 3
  BY <1>4
<1>6. Cut(1) = << <<f, u>> >> /\ Cut(2) = << <<g, v>> >> /\ Cut(3) = << <<h, w>> >>
  OBVIOUS
<1>7. HeaderTurn(At(0), Cut(1)) = At(1) /\ HeaderTurn(At(1), Cut(2)) = At(2) /\ HeaderTurn(At(2), Cut(3)) = At(3)
  <2>1. At(0) = <<r>> /\ At(1) = <<r1>> /\ At(2) = <<r2>> /\ At(3) = <<r3>>
    <3> HIDE DEF r1, r2, r3
    <3>1. QED
      OBVIOUS
  <2> HIDE DEF At, Cut
  <2>2. HeaderTurn(<<r>>, Cut(1)) = <<r1>>
    BY <1>6, TurnIs
  <2> HIDE DEF r1
  <2>3. HeaderTurn(<<r1>>, Cut(2)) = <<r2>>
    BY <1>6, TurnIs
  <2> HIDE DEF r2
  <2>4. HeaderTurn(<<r2>>, Cut(3)) = <<r3>>
    BY <1>6, TurnIs
  <2>5. QED
    BY <2>1, <2>2, <2>3, <2>4
<1>8. At(0) = <<r>>
  OBVIOUS
<1>9. At(3) = <<r3>>
  <2> HIDE DEF r1, r2, r3
  <2>1. QED
    OBVIOUS
<1> HIDE DEF At, Cut, D
<1>10. \A k \in D : Body(E, k) = At(k)
  <2> SUFFICES ASSUME NEW k \in D PROVE Body(E, k) = At(k)
    OBVIOUS
  <2>1. k # 0 => E[k - 1] = At(k - 1)
    BY <1>4, <1>5
  <2> HIDE DEF E
  <2>2. CASE k = 0
    BY <1>8, <2>2
  <2>3. CASE k # 0
    <3>1. Body(E, k) = HeaderTurn(At(k - 1), Cut(k))
      BY <2>1, <2>3
    <3>2. HeaderTurn(At(k - 1), Cut(k)) = At(k)
      BY <1>5, <1>7, <2>3
    <3>3. QED
      BY <3>1, <3>2
  <2>4. QED
    BY <2>2, <2>3
<1>11. All(E)
  <2> HIDE DEF Body
  <2>1. QED
    BY <1>10
<1>12. All(L)
  <2> HIDE DEF All, E
  <2>1. QED
    BY <1>11
<1>13. \A k \in D : L[k] = Body(L, k)
  <2> HIDE DEF Body, L
  <2>1. QED
    BY <1>12
<1> HIDE DEF L, E
<1>14. L[0] = At(0)
  <2> DEFINE z == 0
  <2>1. z \in D /\ z = 0
    BY <1>4
  <2> HIDE DEF z
  <2>2. L[z] = Body(L, z)
    BY <1>13, <2>1
  <2>3. L[z] = <<r>>
    BY <2>1, <2>2
  <2>4. QED
    BY <1>8, <2>1, <2>3
<1>15. L[1] = At(1)
  <2>1. 1 \in D /\ 1 - 1 = 0 /\ 1 # 0
    BY <1>4
  <2>2. L[1] = HeaderTurn(L[0], Cut(1))
    BY <1>13, <2>1
  <2>3. QED
    BY <1>7, <1>14, <2>2
<1>16. L[2] = At(2)
  <2>1. 2 \in D /\ 2 - 1 = 1 /\ 2 # 0
    BY <1>4
  <2>2. L[2] = HeaderTurn(L[1], Cut(2))
    BY <1>13, <2>1
  <2>3. QED
    BY <1>7, <1>15, <2>2
<1>17. L[3] = At(3)
  <2>1. 3 \in D /\ 3 - 1 = 2 /\ 3 # 0
    BY <1>4
  <2>2. L[3] = HeaderTurn(L[2], Cut(3))
    BY <1>13, <2>1
  <2>3. QED
    BY <1>7, <1>16, <2>2
<1>18. HeadersOf(N, r) = <<r3>>
  BY <1>1, <1>3, <1>9, <1>17
<1>19. QED
  BY <1>18

\* A fourth header without a colon makes the reading fail, whatever follows.
LEMMA HeadersFail ==
  ASSUME NEW V, NEW N \in Seq(V), Len(N) >= 4,
         N[1] # <<>>, N[2] # <<>>, N[3] # <<>>, N[4] # <<>>,
         SplitColonBlank(N[4]) = Thrown, NEW r
  PROVE  HeadersOf(N, r) = Thrown
<1> DEFINE n == Len(N)
           I == {i \in 1..n : N[i] = <<>>}
           stop == FirstPlace(n, I)
           D == 0..stop - 1
           Cut(k) == SplitColonBlank(N[k])
           Body(a, k) == IF k = 0 THEN <<r>> ELSE HeaderTurn(a[k - 1], Cut(k))
           All(a) == a = [k \in D |-> Body(a, k)]
           L == CHOOSE a : All(a)
           t1 == HeaderTurn(<<r>>, Cut(1))
           t2 == HeaderTurn(t1, Cut(2))
           t3 == HeaderTurn(t2, Cut(3))
           At(k) == IF k = 0 THEN <<r>> ELSE IF k = 1 THEN t1 ELSE IF k = 2 THEN t2
                    ELSE IF k = 3 THEN t3 ELSE Thrown
           E == [k \in D |-> At(k)]
<1>1. HeadersOf(N, r) = L[stop - 1]
  BY DEF HeadersOf, FirstFrom, SelectInSubSeq, FirstPlace, Trim, HeaderTurn
<1>2. n \in Nat
  BY LenProperties
<1>3. stop \in 5..n + 1
  <2> DEFINE k == 5
  <2>1. k \in Nat /\ 1 <= k /\ k <= n + 1 /\ I \subseteq k..n
    <3>1. \A i \in 1..n : i = 1 \/ i = 2 \/ i = 3 \/ i = 4 \/ 5 <= i
      BY <1>2
    <3>2. QED
      BY <1>2, <3>1
  <2> HIDE DEF I, k, n
  <2>2. FirstPlace(n, I) \in k..n + 1
    BY <1>2, <2>1, FirstIs
  <2>3. QED
    BY <2>2 DEF k
<1> HIDE DEF stop
<1>4. stop \in Nat /\ stop >= 5
  BY <1>2, <1>3
<1>5. Cut(4) = Thrown
  OBVIOUS
<1> HIDE DEF n, Cut
\* A failure stays one.
<1>6. \A x : HeaderTurn(x, Thrown) = Thrown /\ HeaderTurn(Thrown, x) = Thrown
  <2> DEFINE e == Thrown
  <2> HIDE DEF e
  <2>1. \A x : HeaderTurn(x, e) = e /\ HeaderTurn(e, x) = e
    BY Zenon DEF HeaderTurn, e
  <2>2. QED
    BY <2>1, Zenon DEF e
<1> HIDE DEF t1, t2, t3
<1>7. /\ At(0) = <<r>> /\ At(1) = HeaderTurn(At(0), Cut(1)) /\ At(2) = HeaderTurn(At(1), Cut(2))
      /\ At(3) = HeaderTurn(At(2), Cut(3))
  <2>1. At(0) = <<r>> /\ At(1) = t1 /\ At(2) = t2 /\ At(3) = t3
    OBVIOUS
  <2> HIDE DEF At
  <2>2. QED
    BY <2>1 DEF t1, t2, t3
<1>8. \A k \in Nat : k >= 4 => At(k) = Thrown
  <2> DEFINE e == Thrown
  <2> HIDE DEF e
  <2>1. \A k \in Nat : k >= 4 => At(k) = e
    BY DEF e
  <2>2. QED
    BY <2>1 DEF e
<1> HIDE DEF At
<1>9. \A k \in D : k \in Nat /\ (k # 0 => k - 1 \in D)
  BY <1>4
<1>10. \A k \in D : k # 0 => HeaderTurn(At(k - 1), Cut(k)) = At(k)
  <2> SUFFICES ASSUME NEW k \in D, k # 0 PROVE HeaderTurn(At(k - 1), Cut(k)) = At(k)
    OBVIOUS
  <2>1. k \in Nat /\ (k = 1 \/ k = 2 \/ k = 3 \/ k = 4 \/ k >= 5)
    BY <1>9
  <2> HIDE DEF D
  <2>2. CASE k = 1 \/ k = 2 \/ k = 3
    BY <1>7, <2>2
  <2>3. CASE k = 4
    BY <1>5, <1>6, <1>8, <2>1, <2>3
  <2>4. CASE k >= 5
    <3>1. k - 1 \in Nat /\ k - 1 >= 4 /\ k >= 4
      BY <2>1, <2>4
    <3>2. At(k - 1) = Thrown /\ At(k) = Thrown
      BY <1>8, <2>1, <3>1
    <3>3. QED
      BY <1>6, <3>2
  <2>5. QED
    BY <2>1, <2>2, <2>3, <2>4
<1>11. 4 \in D /\ stop - 1 \in D /\ stop - 1 >= 4
  BY <1>4
<1> HIDE DEF D
<1>12. \A k \in D : Body(E, k) = At(k)
  <2> SUFFICES ASSUME NEW k \in D PROVE Body(E, k) = At(k)
    OBVIOUS
  <2>1. k # 0 => E[k - 1] = At(k - 1)
    BY <1>9
  <2> HIDE DEF E
  <2>2. CASE k = 0
    BY <1>7, <2>2
  <2>3. CASE k # 0
    <3>1. Body(E, k) = HeaderTurn(At(k - 1), Cut(k))
      BY <2>1, <2>3
    <3>2. HeaderTurn(At(k - 1), Cut(k)) = At(k)
      BY <1>10, <2>3
    <3>3. QED
      BY <3>1, <3>2
  <2>4. QED
    BY <2>2, <2>3
<1>13. All(E)
  <2> HIDE DEF Body
  <2>1. QED
    BY <1>12
<1>14. All(L)
  <2> HIDE DEF All, E
  <2>1. QED
    BY <1>13
<1>15. \A k \in D : L[k] = Body(L, k)
  <2> HIDE DEF Body, L
  <2>1. QED
    BY <1>14
<1> HIDE DEF L, E
<1>16. \A k \in D : k # 0 => L[k] = HeaderTurn(L[k - 1], Cut(k))
  BY <1>15
<1> DEFINE S == {m \in Nat : m + 4 \in D => L[m + 4] = Thrown}
<1>17. 0 \in S
  <2> DEFINE q == 4
  <2>1. q \in D /\ q # 0
    BY <1>11
  <2>2. Cut(q) = Thrown
    BY <1>5
  <2> HIDE DEF q
  <2>3. L[q] = Thrown
    BY <1>6, <1>16, <2>1, <2>2
  <2>4. 0 \in Nat /\ 0 + 4 = q
    BY DEF q
  <2>5. QED
    BY <2>3, <2>4
<1>18. \A m \in Nat : m \in S => m + 1 \in S
  <2> SUFFICES ASSUME NEW m \in Nat, m \in S, (m + 1) + 4 \in D
               PROVE  L[(m + 1) + 4] = Thrown
    OBVIOUS
  <2> DEFINE q == (m + 1) + 4
  <2>1. q # 0 /\ q - 1 = m + 4 /\ q \in D
    OBVIOUS
  <2> HIDE DEF q
  <2>2. L[q - 1] = Thrown
    BY <1>9, <2>1
  <2>3. L[q] = Thrown
    BY <1>6, <1>16, <2>1, <2>2
  <2>4. QED
    BY <2>3 DEF q
<1> HIDE DEF S
<1>19. Nat \subseteq S
  BY <1>17, <1>18, SetInduction
<1>20. L[stop - 1] = Thrown
  <2> DEFINE m == stop - 5
  <2>1. m \in Nat /\ m + 4 = stop - 1
    BY <1>4
  <2> HIDE DEF m
  <2>2. m \in S
    BY <1>19, <2>1
  <2>3. QED
    BY <1>11, <2>1, <2>2 DEF S
<1>21. QED
  BY <1>1, <1>20

\* The lines of a request without their "\r".
LEMMA FirstLine ==
  ASSUME NEW a, NEW b, NEW c, NEW d, NEW e, NEW f, NEW g, NEW r
  PROVE  Front(<<a, b>> \o <<c>> \o <<d, e, f, g, r>>) = <<a, b, c, d, e, f, g>>
<1> DEFINE C == {a, b, c, d, e, f, g, r}
           p == <<a, b>>
           q == <<c>>
           x == p \o q
           y == <<d, e, f, g, r>>
           z == <<a, b, c, d, e, f, g>>
           w == <<r>>
           u == x \o y
           v == z \o w
<1>1. p \in Seq(C) /\ Len(p) = 2 /\ p[1] = a /\ p[2] = b /\ q \in Seq(C) /\ Len(q) = 1 /\ q[1] = c
  OBVIOUS
<1>2. y \in Seq(C) /\ Len(y) = 5 /\ y[1] = d /\ y[2] = e /\ y[3] = f /\ y[4] = g /\ y[5] = r
  OBVIOUS
<1>3. z \in Seq(C) /\ Len(z) = 7 /\ z[1] = a /\ z[2] = b /\ z[3] = c /\ z[4] = d /\ z[5] = e /\ z[6] = f
      /\ z[7] = g
  OBVIOUS
<1>4. w \in Seq(C) /\ Len(w) = 1 /\ w[1] = r /\ r \in C
  OBVIOUS
<1> HIDE DEF C, p, q, y, z, w
<1>5. x \in Seq(C) /\ Len(x) = 3 /\ x[1] = a /\ x[2] = b /\ x[3] = c
  <2>1. x \in Seq(C) /\ Len(x) = Len(p) + Len(q)
        /\ \A i \in 1..Len(p) + Len(q) : x[i] = IF i <= Len(p) THEN p[i] ELSE q[i - Len(p)]
    BY <1>1, ConcatProperties
  <2> HIDE DEF x
  <2>2. QED
    BY <1>1, <2>1
<1> HIDE DEF x
<1>6. u \in Seq(C) /\ Len(u) = 8 /\ u[1] = a /\ u[2] = b /\ u[3] = c /\ u[4] = d /\ u[5] = e /\ u[6] = f
      /\ u[7] = g /\ u[8] = r
  <2>1. u \in Seq(C) /\ Len(u) = Len(x) + Len(y)
        /\ \A i \in 1..Len(x) + Len(y) : u[i] = IF i <= Len(x) THEN x[i] ELSE y[i - Len(x)]
    BY <1>2, <1>5, ConcatProperties
  <2> HIDE DEF u
  <2>2. Len(u) = 8 /\ \A i \in 1..8 : u[i] = IF i <= 3 THEN x[i] ELSE y[i - 3]
    BY <1>2, <1>5, <2>1
  <2>3. QED
    BY <1>2, <1>5, <2>1, <2>2
<1>7. v \in Seq(C) /\ Len(v) = 8 /\ v[1] = a /\ v[2] = b /\ v[3] = c /\ v[4] = d /\ v[5] = e /\ v[6] = f
      /\ v[7] = g /\ v[8] = r
  <2>1. v \in Seq(C) /\ Len(v) = Len(z) + Len(w)
        /\ \A i \in 1..Len(z) + Len(w) : v[i] = IF i <= Len(z) THEN z[i] ELSE w[i - Len(z)]
    BY <1>3, <1>4, ConcatProperties
  <2> HIDE DEF v
  <2>2. Len(v) = 8 /\ \A i \in 1..8 : v[i] = IF i <= 7 THEN z[i] ELSE w[i - 7]
    BY <1>3, <1>4, <2>1
  <2>3. QED
    BY <1>3, <1>4, <2>1, <2>2
<1> HIDE DEF u, v
<1>8. u = v
  <2>1. \A i \in 1..8 : i = 1 \/ i = 2 \/ i = 3 \/ i = 4 \/ i = 5 \/ i = 6 \/ i = 7 \/ i = 8
    OBVIOUS
  <2>2. \A i \in 1..Len(u) : u[i] = v[i]
    BY <1>6, <1>7, <2>1
  <2>3. QED
    BY <1>6, <1>7, <2>2, SeqEqual
<1>9. Front(v) = z
  BY <1>3, <1>4, FrontIs DEF v, w
<1>10. Front(u) = z
  BY <1>8, <1>9
<1>11. QED
  BY <1>10 DEF u, x, p, q, y, z

EndGone(name, colon, blank, r, v) ==
  Front(<<name, colon, blank>> \o v \o <<r>>) = <<name, colon, blank>> \o v

LEMMA HeaderFront ==
  ASSUME NEW C, NEW name \in C, NEW colon \in C, NEW blank \in C, NEW r \in C, NEW v \in Seq(C)
  PROVE  EndGone(name, colon, blank, r, v)
<1> DEFINE p == <<name, colon, blank>>
           x == p \o v
<1>1. p \in Seq(C)
  OBVIOUS
<1> HIDE DEF p
<1>2. x \in Seq(C)
  BY <1>1, ConcatProperties
<1> HIDE DEF x
<1>3. Front(x \o <<r>>) = x
  BY <1>2, FrontIs
<1>4. QED
  BY <1>3, Zenon DEF x, p, EndGone

LEMMA EmptyFront ==
  ASSUME NEW r
  PROVE  Front(<<r>>) = <<>>
<1> DEFINE x == <<r>>
           o == 1
           z == 0
<1>1. Len(x) - 1 = z /\ o \in Int /\ z \in Int /\ z < o
  OBVIOUS
<1> HIDE DEF x, o, z
<1>2. SubSeq(x, o, z) = <<>>
  BY <1>1, SubSeqEmpty
<1>3. Front(x) = SubSeq(x, o, z)
  BY <1>1 DEF Front, o
<1>4. QED
  BY <1>2, <1>3 DEF x

LEMMA ThreeJoined ==
  ASSUME NEW a, NEW b, NEW c
  PROVE  <<a>> \o <<b>> \o <<c>> = <<a, b, c>>
<1> DEFINE C == {a, b, c}
           p == <<a>>
           q == <<b>>
           r == <<c>>
           x == p \o q
           y == x \o r
<1>1. p \in Seq(C) /\ Len(p) = 1 /\ p[1] = a /\ q \in Seq(C) /\ Len(q) = 1 /\ q[1] = b
      /\ r \in Seq(C) /\ Len(r) = 1 /\ r[1] = c /\ a \in C /\ b \in C /\ c \in C
  OBVIOUS
<1> HIDE DEF C, p, q, r
<1>2. x \in Seq(C) /\ Len(x) = 2 /\ x[1] = a /\ x[2] = b
  <2>1. x \in Seq(C) /\ Len(x) = Len(p) + Len(q)
        /\ \A i \in 1..Len(p) + Len(q) : x[i] = IF i <= Len(p) THEN p[i] ELSE q[i - Len(p)]
    BY <1>1, ConcatProperties
  <2> HIDE DEF x
  <2>2. QED
    BY <1>1, <2>1
<1> HIDE DEF x
<1>3. y \in Seq(C) /\ Len(y) = 3 /\ y[1] = a /\ y[2] = b /\ y[3] = c
  <2>1. y \in Seq(C) /\ Len(y) = Len(x) + Len(r)
        /\ \A i \in 1..Len(x) + Len(r) : y[i] = IF i <= Len(x) THEN x[i] ELSE r[i - Len(x)]
    BY <1>1, <1>2, ConcatProperties
  <2> HIDE DEF y
  <2>2. QED
    BY <1>1, <1>2, <2>1
<1> HIDE DEF y
<1>4. y = <<a, b, c>>
  BY <1>1, <1>3, ThreeAre
<1>5. QED
  BY <1>4 DEF y, x, p, q, r

GetLine == <<"GET", " ", "/", " ", "HTTP", "/", "1.0">>
FromLine == <<"From", ":", " ">> \o <<"ano@nymous.com">>
HostLine == <<"Host", ":", " ">> \o <<"a", ":", "80">>
AgentLine == <<"User-Agent", ":", " ">> \o <<"KISS">>
SmallUrl == [host |-> <<"a">>, port |-> <<"80">>, path |-> <<"/">>]

\* They are what wget1() writes.
LEMMA HeaderLine ==
  ASSUME NEW name, NEW v, NEW T, v \in Seq(T)
  PROVE  Front(Header(name, v)) = <<name, ":", " ">> \o v
<1> DEFINE colon == ":"
           blank == " "
           r == "\r"
           C == {name, colon, blank, r} \cup T
<1> HIDE DEF colon, blank, r
<1>1. name \in C /\ colon \in C /\ blank \in C /\ r \in C /\ T \subseteq C
  OBVIOUS
<1> HIDE DEF C
<1>2. v \in Seq(C)
  <2>1. DOMAIN v = 1..Len(v) /\ Len(v) \in Nat /\ \A k \in 1..Len(v) : v[k] \in T
    BY LenProperties, ElementOfSeq
  <2>2. QED
    BY <1>1, <2>1
<1>3. EndGone(name, colon, blank, r, v)
  BY <1>1, <1>2, HeaderFront
<1>4. QED
  BY <1>3, Zenon DEF EndGone, Header, colon, blank, r

LEMMA RequestLinesAre ==
  LET request == RequestLines(SmallUrl)
  IN /\ DOMAIN request = 1..5
     /\ Front(request[1]) = GetLine /\ Front(request[2]) = FromLine /\ Front(request[3]) = HostLine
     /\ Front(request[4]) = AgentLine /\ Front(request[5]) = <<>>
<1> DEFINE get == "GET"
           b == " "
           s == "/"
           http == "HTTP"
           o == "1.0"
           r == "\r"
           q1 == <<get, b>> \o <<s>> \o <<b, http, s, o, r>>
           q2 == Header("From", <<"ano@nymous.com">>)
           q3 == Header("Host", <<"a">> \o <<":">> \o <<"80">>)
           q4 == Header("User-Agent", <<"KISS">>)
           q5 == <<r>>
           request == RequestLines(SmallUrl)
<1> HIDE DEF get, b, s, http, o, r
<1>1. request = <<q1, q2, q3, q4, q5>>
  <2>1. SmallUrl.host = <<"a">> /\ SmallUrl.port = <<"80">> /\ SmallUrl.path = <<"/">>
    BY DEF SmallUrl
  <2> DEFINE u == SmallUrl
  <2> HIDE DEF u
  <2>2. u.host = <<"a">> /\ u.port = <<"80">> /\ u.path = <<"/">>
    BY <2>1, Zenon DEF u
  <2>3. RequestLines(u) = <<q1, q2, q3, q4, q5>>
    BY <2>2, Zenon DEF RequestLines, get, b, s, http, o, r
  <2>4. QED
    BY <2>3 DEF u
<1>2. Front(q1) = <<get, b, s, b, http, s, o>>
  BY FirstLine
<1>3. GetLine = <<get, b, s, b, http, s, o>>
  BY Zenon DEF GetLine, get, b, s, http, o
<1>4. Front(q2) = FromLine
  <2> DEFINE n == "From"
             a == "ano@nymous.com"
             v == <<a>>
             T == {a}
  <2> HIDE DEF n, a
  <2>1. v \in Seq(T)
    OBVIOUS
  <2> HIDE DEF v, T
  <2>2. Front(Header(n, v)) = <<n, ":", " ">> \o v
    BY <2>1, HeaderLine
  <2>3. QED
    BY <2>2, Zenon DEF FromLine, n, a, v
<1>5. Front(q4) = AgentLine
  <2> DEFINE n == "User-Agent"
             a == "KISS"
             v == <<a>>
             T == {a}
  <2> HIDE DEF n, a
  <2>1. v \in Seq(T)
    OBVIOUS
  <2> HIDE DEF v, T
  <2>2. Front(Header(n, v)) = <<n, ":", " ">> \o v
    BY <2>1, HeaderLine
  <2>3. QED
    BY <2>2, Zenon DEF AgentLine, n, a, v
<1>6. Front(q3) = HostLine
  <2> DEFINE n == "Host"
             a == "a"
             c == ":"
             d == "80"
             v == <<a, c, d>>
             T == {a, c, d}
  <2> HIDE DEF n, a, c, d
  <2>1. v \in Seq(T)
    OBVIOUS
  <2>2. <<a>> \o <<c>> \o <<d>> = v
    BY ThreeJoined
  <2> HIDE DEF v, T
  <2>3. Front(Header(n, v)) = <<n, ":", " ">> \o v
    BY <2>1, HeaderLine
  <2>4. q3 = Header(n, v)
    BY <2>2, Zenon DEF n, a, c, d
  <2>5. HostLine = <<n, ":", " ">> \o v
    BY Zenon DEF HostLine, n, a, c, d, v
  <2>6. QED
    BY <2>3, <2>4, <2>5, Zenon
<1>7. Front(q5) = <<>>
  BY EmptyFront
<1> HIDE DEF q1, q2, q3, q4, q5, request
<1>8. DOMAIN request = 1..5 /\ request[1] = q1 /\ request[2] = q2 /\ request[3] = q3
      /\ request[4] = q4 /\ request[5] = q5
  BY <1>1
<1>9. QED
  BY <1>2, <1>3, <1>4, <1>5, <1>6, <1>7, <1>8, Zenon DEF request

\* They are read again.
Named(name) == name # ":"
Valued(x) == x \notin {" ", "\t"}
ReadAs(name, v) ==
  /\ SplitColonBlank(<<name, ":", " ">> \o v) = << << <<name>>, v >> >>
  /\ <<name, ":", " ">> \o v # <<>>

LEMMA HeaderReads ==
  ASSUME NEW name, NEW v, NEW T, v \in Seq(T), Len(v) >= 1, Named(name), Valued(v[1])
  PROVE  ReadAs(name, v)
<1> DEFINE colon == ":"
           blank == " "
           B == {" ", "\t"}
           C == {name, colon, blank} \cup T
           t == <<name, colon, blank>> \o v
<1>1. colon \notin B /\ blank \in B /\ name # colon /\ v[1] \notin B
  BY Zenon DEF Named, Valued
<1>2. SplitColonBlank(t) = CutOff(t, colon, B)
  <2> HIDE DEF t
  <2>1. SplitColonBlank(t) = CutOff(t, ":", {" ", "\t"})
    BY CutOffIs
  <2>2. QED
    BY <2>1, Zenon
<1> HIDE DEF colon, blank, B
<1>3. name \in C /\ colon \in C /\ blank \in C /\ T \subseteq C
  OBVIOUS
<1> HIDE DEF C
<1>4. v \in Seq(C)
  <2>1. DOMAIN v = 1..Len(v) /\ Len(v) \in Nat /\ \A k \in 1..Len(v) : v[k] \in T
    BY LenProperties, ElementOfSeq
  <2>2. QED
    BY <1>3, <2>1
<1>5. CutOff(t, colon, B) = << << <<name>>, v >> >>
  BY <1>1, <1>3, <1>4, HeaderCut
<1>6. t # <<>>
  <2> DEFINE p == <<name, colon, blank>>
  <2>1. p \in Seq(C) /\ Len(p) = 3
    BY <1>3
  <2> HIDE DEF p
  <2>2. Len(p \o v) = Len(p) + Len(v)
    BY <1>4, <2>1, ConcatParts
  <2>3. Len(v) \in Nat
    BY <1>4, LenProperties
  <2> DEFINE u == p \o v
  <2> HIDE DEF u
  <2>4. Len(u) # 0
    BY <2>1, <2>2, <2>3 DEF u
  <2>5. u # <<>>
    BY <2>4
  <2>6. QED
    BY <2>5 DEF u, p
<1> HIDE DEF t
<1>7. SplitColonBlank(t) = << << <<name>>, v >> >>
  BY <1>2, <1>5
<1>8. QED
  BY <1>6, <1>7, Zenon DEF ReadAs, t, colon, blank

LEMMA LinesRead ==
  /\ SplitColonBlank(FromLine) = << << <<"From">>, <<"ano@nymous.com">> >> >> /\ FromLine # <<>>
  /\ SplitColonBlank(HostLine) = << << <<"Host">>, <<"a", ":", "80">> >> >> /\ HostLine # <<>>
  /\ SplitColonBlank(AgentLine) = << << <<"User-Agent">>, <<"KISS">> >> >> /\ AgentLine # <<>>
<1> DEFINE f == "From"
           h == "Host"
           g == "User-Agent"
           x == "ano@nymous.com"
           a == "a"
           c == ":"
           d == "80"
           k == "KISS"
           T == {x, a, c, d, k}
           vx == <<x>>
           va == <<a, c, d>>
           vk == <<k>>
<1>1. Named(f) /\ Named(h) /\ Named(g) /\ Valued(x) /\ Valued(a) /\ Valued(k)
  BY Zenon DEF Named, Valued
<1> HIDE DEF f, h, g, x, a, c, d, k
<1>2. vx \in Seq(T) /\ Len(vx) >= 1 /\ vx[1] = x
  OBVIOUS
<1>3. va \in Seq(T) /\ Len(va) >= 1 /\ va[1] = a
  OBVIOUS
<1>4. vk \in Seq(T) /\ Len(vk) >= 1 /\ vk[1] = k
  OBVIOUS
<1> HIDE DEF vx, va, vk, T
<1>5. ReadAs(f, vx)
  BY <1>1, <1>2, HeaderReads
<1>6. ReadAs(h, va)
  BY <1>1, <1>3, HeaderReads
<1>7. ReadAs(g, vk)
  BY <1>1, <1>4, HeaderReads
<1>8. QED
  BY <1>5, <1>6, <1>7, Zenon DEF ReadAs, FromLine, HostLine, AgentLine, f, h, g, x, a, c, d, k, vx, va, vk

\* What the headers say.
Says(a, b, c, d, e, name, v) ==
  WithHeader([version |-> a, host |-> b, abs_path |-> c, user_agent |-> d, accept |-> e], name, v)
    = [version |-> a, host |-> IF name = <<"Host">> THEN v ELSE b, abs_path |-> c,
       user_agent |-> IF name = <<"User-Agent">> THEN v ELSE d,
       accept |-> IF name = <<"Accept">> THEN v ELSE e]

LEMMA WithHeaderIs ==
  ASSUME NEW a, NEW b, NEW c, NEW d, NEW e, NEW name, NEW v
  PROVE  Says(a, b, c, d, e, name, v)
<1> DEFINE h == <<"Host">>
           g == <<"User-Agent">>
           k == <<"Accept">>
           r == [version |-> a, host |-> b, abs_path |-> c, user_agent |-> d, accept |-> e]
<1>0. r.host = b /\ r.user_agent = d /\ r.accept = e
  OBVIOUS
<1> HIDE DEF h, g, k
<1>1. [r EXCEPT !.user_agent = IF name = g THEN v ELSE @,
                !.host       = IF name = h THEN v ELSE @,
                !.accept     = IF name = k THEN v ELSE @]
        = [version |-> a, host |-> IF name = h THEN v ELSE b, abs_path |-> c,
           user_agent |-> IF name = g THEN v ELSE d, accept |-> IF name = k THEN v ELSE e]
  <2> DEFINE x == IF name = g THEN v ELSE d
             y == IF name = h THEN v ELSE b
             z == IF name = k THEN v ELSE e
  <2>1. (IF name = g THEN v ELSE r.user_agent) = x /\ (IF name = h THEN v ELSE r.host) = y
        /\ (IF name = k THEN v ELSE r.accept) = z
    BY <1>0, Zenon
  <2> HIDE DEF x, y, z
  <2>2. [r EXCEPT !.user_agent = x, !.host = y, !.accept = z]
          = [version |-> a, host |-> y, abs_path |-> c, user_agent |-> x, accept |-> z]
    <3> DEFINE r1 == [version |-> a, host |-> b, abs_path |-> c, user_agent |-> x, accept |-> e]
               r2 == [version |-> a, host |-> y, abs_path |-> c, user_agent |-> x, accept |-> e]
               r3 == [version |-> a, host |-> y, abs_path |-> c, user_agent |-> x, accept |-> z]
    <3>1. [r EXCEPT !.user_agent = x] = r1
      OBVIOUS
    <3>2. [r1 EXCEPT !.host = y] = r2
      OBVIOUS
    <3>3. [r2 EXCEPT !.accept = z] = r3
      OBVIOUS
    <3> HIDE DEF r, r1, r2, r3
    <3>4. [r EXCEPT !.user_agent = x, !.host = y, !.accept = z]
            = [[[r EXCEPT !.user_agent = x] EXCEPT !.host = y] EXCEPT !.accept = z]
      OBVIOUS
    <3>5. QED
      BY <3>1, <3>2, <3>3, <3>4, Zenon DEF r3
  <2> HIDE DEF r
  <2>3. QED
    BY <2>1, <2>2, Zenon DEF x, y, z
<1> HIDE DEF r
<1>2. WithHeader(r, name, v) =
        [r EXCEPT !.user_agent = IF name = g THEN v ELSE @,
                  !.host       = IF name = h THEN v ELSE @,
                  !.accept     = IF name = k THEN v ELSE @]
  BY Zenon DEF WithHeader, h, g, k
<1>3. WithHeader(r, name, v) =
        [version |-> a, host |-> IF name = h THEN v ELSE b, abs_path |-> c,
         user_agent |-> IF name = g THEN v ELSE d, accept |-> IF name = k THEN v ELSE e]
  BY <1>1, <1>2
<1>4. QED
  BY <1>3, Zenon DEF h, g, k, r, Says

LEMMA NamesDiffer ==
  LET f == <<"From">>
      h == <<"Host">>
      g == <<"User-Agent">>
      k == <<"Accept">>
  IN f # h /\ f # g /\ f # k /\ h # g /\ h # k /\ g # k
<1> DEFINE f == "From"
           h == "Host"
           g == "User-Agent"
           k == "Accept"
<1>1. f # h /\ f # g /\ f # k /\ h # g /\ h # k /\ g # k
  BY Zenon
<1> HIDE DEF f, h, g, k
<1>2. <<f>> # <<h>> /\ <<f>> # <<g>> /\ <<f>> # <<k>> /\ <<h>> # <<g>> /\ <<h>> # <<k>> /\ <<g>> # <<k>>
  BY <1>1
<1>3. QED
  BY <1>2, Zenon DEF f, h, g, k

AllSay(o, s, e, x, a, k) ==
  WithHeader(WithHeader(WithHeader(
    [version |-> o, host |-> e, abs_path |-> s, user_agent |-> e, accept |-> e],
    <<"From">>, x), <<"Host">>, a), <<"User-Agent">>, k)
    = [version |-> o, host |-> a, abs_path |-> s, user_agent |-> k, accept |-> e]

LEMMA HeadersSay ==
  ASSUME NEW o, NEW s, NEW e, NEW x, NEW a, NEW k
  PROVE  AllSay(o, s, e, x, a, k)
<1> DEFINE f == <<"From">>
           h == <<"Host">>
           g == <<"User-Agent">>
           p == <<"Accept">>
           W(r, n, v) == WithHeader(r, n, v)
           R(b, d) == [version |-> o, host |-> b, abs_path |-> s, user_agent |-> d, accept |-> e]
<1>1. f # h /\ f # g /\ f # p /\ h # g /\ h # p /\ g # p
  BY NamesDiffer, Zenon
<1>2. \A b, d, n, v :
        W(R(b, d), n, v) = [version |-> o, host |-> IF n = h THEN v ELSE b, abs_path |-> s,
                            user_agent |-> IF n = g THEN v ELSE d, accept |-> IF n = p THEN v ELSE e]
  <2> SUFFICES ASSUME NEW b, NEW d, NEW n, NEW v
               PROVE  W(R(b, d), n, v)
                        = [version |-> o, host |-> IF n = h THEN v ELSE b, abs_path |-> s,
                           user_agent |-> IF n = g THEN v ELSE d, accept |-> IF n = p THEN v ELSE e]
    OBVIOUS
  <2>1. Says(o, b, s, d, e, n, v)
    BY WithHeaderIs
  <2>2. QED
    BY <2>1, Zenon DEF Says
<1> HIDE DEF f, h, g, p, W
<1>3. \A b, d, v : W(R(b, d), f, v) = R(b, d) /\ W(R(b, d), h, v) = R(v, d) /\ W(R(b, d), g, v) = R(b, v)
  BY <1>1, <1>2
<1> HIDE DEF R
<1>4. W(W(W(R(e, e), f, x), h, a), g, k) = R(a, k)
  BY <1>3
<1>5. QED
  BY <1>4, Zenon DEF W, R, f, h, g, AllSay

SmallRequest == [version |-> <<"1.0">>, host |-> <<"a", ":", "80">>, abs_path |-> <<"/">>,
                 user_agent |-> <<"KISS">>, accept |-> <<>>]

\* The words of the first line.
LEMMA GetWords ==
  /\ Len(Words(GetLine)) = 3 /\ Words(GetLine)[1] = <<"GET">> /\ Words(GetLine)[2] = <<"/">>
  /\ Words(GetLine)[3] = <<"HTTP", "/", "1.0">>
<1> DEFINE g == "GET"
           b == " "
           s == "/"
           h == "HTTP"
           o == "1.0"
           C == {g, b, s, h, o}
           t == <<g, b, s, b, h, s, o>>
           w == SplitAny(t, Blanks)
<1>1. b \in Blanks /\ g \notin Blanks /\ s \notin Blanks /\ h \notin Blanks /\ o \notin Blanks
  BY Zenon DEF Blanks
<1> HIDE DEF g, b, s, h, o
<1>2. g \in C /\ b \in C /\ s \in C /\ h \in C /\ o \in C
  OBVIOUS
<1> HIDE DEF C
<1>3. w \in Seq(Seq(C)) /\ Len(w) = 3 /\ w[1] = <<g>> /\ w[2] = <<s>> /\ w[3] = <<h, s, o>>
  <2> DEFINE S == Blanks
  <2> HIDE DEF S
  <2>1. b \in S /\ g \notin S /\ s \notin S /\ h \notin S /\ o \notin S
    BY <1>1 DEF S
  <2>2. ThreeWords(C, g, b, s, h, s, o, S)
    BY <1>2, <2>1, RequestSplit
  <2>3. QED
    BY <2>2, Zenon DEF ThreeWords, S, w, t
<1>4. w[1] # <<>> /\ w[2] # <<>> /\ w[3] # <<>>
  <2> HIDE DEF w
  <2>1. <<g>> # <<>> /\ <<s>> # <<>> /\ <<h, s, o>> # <<>>
    OBVIOUS
  <2>2. QED
    BY <1>3, <2>1
<1>5. \A k \in 1..Len(w) : w[k] # <<>>
  <2> HIDE DEF w
  <2>1. \A k \in 1..3 : k = 1 \/ k = 2 \/ k = 3
    OBVIOUS
  <2>2. QED
    BY <1>3, <1>4, <2>1
<1>6. Words(t) = w
  <2> DEFINE u == w
  <2>1. u = SplitAny(t, Blanks) /\ u \in Seq(Seq(C)) /\ \A k \in 1..Len(u) : u[k] # <<>>
    BY <1>3, <1>5
  <2> HIDE DEF u, t
  <2>2. Words(t) = u
    BY <2>1, WordsAre
  <2>3. QED
    BY <2>2 DEF u
<1> HIDE DEF w
<1>7. Len(Words(t)) = 3 /\ Words(t)[1] = <<g>> /\ Words(t)[2] = <<s>> /\ Words(t)[3] = <<h, s, o>>
  BY <1>3, <1>6
<1>8. QED
  BY <1>7, Zenon DEF GetLine, t, g, b, s, h, o

LEMMA GetVersion ==
  LET v == SplitAny(<<"HTTP", "/", "1.0">>, {"/"})
  IN Len(v) = 2 /\ v[1] = <<"HTTP">> /\ v[2] = <<"1.0">>
<1> DEFINE h == "HTTP"
           s == "/"
           o == "1.0"
           C == {h, s, o}
           S == {s}
           v == SplitAny(<<h, s, o>>, S)
<1>1. h \notin S /\ s \in S /\ o \notin S
  BY Zenon
<1> HIDE DEF h, s, o, S
<1>2. h \in C /\ s \in C /\ o \in C
  OBVIOUS
<1> HIDE DEF C
<1>3. Len(v) = 2 /\ v[1] = <<h>> /\ v[2] = <<o>>
  BY <1>1, <1>2, VersionSplit
<1>4. QED
  BY <1>3, Zenon DEF v, S, h, s, o

\* The request, whatever follows it.
LEMMA RequestParsed ==
  ASSUME NEW V, NEW M \in Seq(V), Len(M) >= 5,
         M[1] = GetLine, M[2] = FromLine, M[3] = HostLine, M[4] = AgentLine, M[5] = <<>>
  PROVE  ParseGetRequest(M) = <<SmallRequest>>
<1> DEFINE N == Tail(M)
           w == Words(GetLine)
           ver == SplitAny(w[3], {"/"})
           e == <<>>
           r0 == [version |-> ver[2], host |-> e, abs_path |-> w[2], user_agent |-> e, accept |-> e]
<1>1. Len(w) = 3 /\ w[1] = <<"GET">> /\ w[2] = <<"/">> /\ w[3] = <<"HTTP", "/", "1.0">>
  BY GetWords, Zenon
<1>2. Len(ver) = 2 /\ ver[1] = <<"HTTP">> /\ ver[2] = <<"1.0">>
  BY <1>1, GetVersion, Zenon
<1>3. ParseGetRequest(M) = HeadersOf(N, r0)
  <2> DEFINE get == <<"GET">>
             http == <<"HTTP">>
             x == HeadersOf(N, r0)
  <2> HIDE DEF get, http
  <2>1. ~ (Len(w) < 3 \/ w[1] # get) /\ ~ (Len(ver) # 2 \/ ver[1] # http)
    <3>1. w[1] = get /\ ver[1] = http
      BY <1>1, <1>2, Zenon DEF get, http
    <3> HIDE DEF w, ver
    <3>2. Len(w) = 3 /\ Len(ver) = 2
      BY <1>1, <1>2
    <3>3. QED
      BY <3>1, <3>2
  <2>2. ParseGetRequest(M) = IF Len(w) < 3 \/ w[1] # get THEN Thrown
                             ELSE IF Len(ver) # 2 \/ ver[1] # http THEN Thrown ELSE x
    BY Zenon DEF ParseGetRequest, Trim, get, http
  <2>3. QED
    BY <2>1, <2>2, Zenon
<1>4. N \in Seq(V) /\ Len(N) = Len(M) - 1 /\ \A i \in 1..Len(N) : N[i] = M[i + 1]
  <2>1. M # <<>>
    <3>1. Len(M) # 0
      OBVIOUS
    <3>2. QED
      BY <3>1
  <2>2. QED
    BY <2>1, HeadTailProperties
<1> HIDE DEF N, w, ver, r0
<1>5. Len(N) >= 4 /\ N[1] = FromLine /\ N[2] = HostLine /\ N[3] = AgentLine /\ N[4] = <<>>
  <2>1. Len(M) \in Nat
    BY LenProperties
  <2>2. Len(N) >= 4 /\ 1 \in 1..Len(N) /\ 2 \in 1..Len(N) /\ 3 \in 1..Len(N) /\ 4 \in 1..Len(N)
    BY <1>4, <2>1
  <2>3. N[1] = M[1 + 1] /\ N[2] = M[2 + 1] /\ N[3] = M[3 + 1] /\ N[4] = M[4 + 1]
    BY <1>4, <2>2
  <2>4. QED
    BY <2>2, <2>3
<1> DEFINE f == <<"From">>
           x == <<"ano@nymous.com">>
           h == <<"Host">>
           a == <<"a", ":", "80">>
           g == <<"User-Agent">>
           k == <<"KISS">>
<1>6. /\ SplitColonBlank(FromLine) = << <<f, x>> >> /\ FromLine # <<>>
      /\ SplitColonBlank(HostLine) = << <<h, a>> >> /\ HostLine # <<>>
      /\ SplitColonBlank(AgentLine) = << <<g, k>> >> /\ AgentLine # <<>>
  BY LinesRead, Zenon
<1> HIDE DEF f, x, h, a, g, k
<1>7. HeadersOf(N, r0) = <<WithHeader(WithHeader(WithHeader(r0, f, x), h, a), g, k)>>
  <2>1. /\ SplitColonBlank(N[1]) = << <<f, x>> >> /\ N[1] # <<>>
        /\ SplitColonBlank(N[2]) = << <<h, a>> >> /\ N[2] # <<>>
        /\ SplitColonBlank(N[3]) = << <<g, k>> >> /\ N[3] # <<>>
    BY <1>5, <1>6, Zenon
  <2>2. QED
    BY <1>4, <1>5, <2>1, HeadersAre
<1>8. WithHeader(WithHeader(WithHeader(r0, f, x), h, a), g, k) = SmallRequest
  <2> DEFINE o == <<"1.0">>
             s == <<"/">>
  <2>1. r0 = [version |-> o, host |-> e, abs_path |-> s, user_agent |-> e, accept |-> e]
    BY <1>1, <1>2, Zenon DEF r0
  <2>2. AllSay(o, s, e, x, a, k)
    BY HeadersSay
  <2>3. QED
    BY <2>1, <2>2, Zenon DEF AllSay, SmallRequest, f, h, g, a, k
<1>9. QED
  BY <1>3, <1>7, <1>8

LEMMA RequestIs ==
  ASSUME NEW T, NEW lines \in Seq(T)
  PROVE  LET request == RequestLines(SmallUrl)
         IN ParseGetRequest([k \in DOMAIN request |-> Front(request[k])] \o lines) = <<SmallRequest>>
<1> DEFINE request == RequestLines(SmallUrl)
           R == [k \in DOMAIN request |-> Front(request[k])]
           e == <<>>
           V == {GetLine, FromLine, HostLine, AgentLine, e} \cup T
           M == R \o lines
<1>1. /\ DOMAIN request = 1..5
      /\ Front(request[1]) = GetLine /\ Front(request[2]) = FromLine /\ Front(request[3]) = HostLine
      /\ Front(request[4]) = AgentLine /\ Front(request[5]) = e
  BY RequestLinesAre, Zenon
<1>2. T \subseteq V /\ GetLine \in V /\ FromLine \in V /\ HostLine \in V /\ AgentLine \in V /\ e \in V
  BY Zenon
<1> HIDE DEF request, V, e
<1>3. \A k \in 1..5 : k = 1 \/ k = 2 \/ k = 3 \/ k = 4 \/ k = 5
  OBVIOUS
<1>4. R = [k \in 1..5 |-> Front(request[k])] /\ \A k \in 1..5 : Front(request[k]) \in V
  BY <1>1, <1>2, <1>3
<1>5. R \in Seq(V) /\ Len(R) = 5 /\ R[1] = GetLine /\ R[2] = FromLine /\ R[3] = HostLine
      /\ R[4] = AgentLine /\ R[5] = e
  BY <1>1, <1>4
<1> HIDE DEF R
<1>6. lines \in Seq(V)
  <2>1. DOMAIN lines = 1..Len(lines) /\ Len(lines) \in Nat /\ \A k \in 1..Len(lines) : lines[k] \in T
    BY LenProperties, ElementOfSeq
  <2>2. QED
    BY <1>2, <2>1
<1>7. M \in Seq(V) /\ Len(M) = Len(R) + Len(lines) /\ \A k \in 1..Len(R) : M[k] = R[k]
  BY <1>5, <1>6, ConcatParts
<1> HIDE DEF M
<1>8. Len(M) >= 5 /\ M[1] = GetLine /\ M[2] = FromLine /\ M[3] = HostLine /\ M[4] = AgentLine
      /\ M[5] = <<>>
  <2>1. Len(lines) \in Nat
    BY LenProperties
  <2>2. QED
    BY <1>5, <1>7, <2>1 DEF e
<1>9. ParseGetRequest(M) = <<SmallRequest>>
  BY <1>7, <1>8, RequestParsed
<1>10. QED
  BY <1>9, Zenon DEF M, R, request

\* A header is not empty.
LEMMA HeaderFilled ==
  ASSUME NEW name, NEW T, NEW v \in Seq(T)
  PROVE  Header(name, v) # <<>>
<1> DEFINE c == ":"
           b == " "
           r == "\r"
           C == {name, c, b, r} \cup T
           p == <<name, c, b>>
           e == <<r>>
           x == p \o v
           y == x \o e
<1>1. Header(name, v) = y
  BY Zenon DEF Header
<1> HIDE DEF c, b, r
<1>2. p \in Seq(C) /\ Len(p) = 3 /\ e \in Seq(C) /\ Len(e) = 1
  OBVIOUS
<1>3. T \subseteq C
  OBVIOUS
<1> HIDE DEF C, p, e
<1>4. v \in Seq(C) /\ Len(v) \in Nat
  <2>1. DOMAIN v = 1..Len(v) /\ Len(v) \in Nat /\ \A k \in 1..Len(v) : v[k] \in T
    BY LenProperties, ElementOfSeq
  <2>2. QED
    BY <1>3, <2>1
<1>5. x \in Seq(C) /\ Len(x) = Len(p) + Len(v)
  BY <1>2, <1>4, ConcatProperties
<1> HIDE DEF x
<1>6. Len(y) = Len(x) + Len(e)
  BY <1>2, <1>5, ConcatProperties
<1> HIDE DEF y
<1>7. Len(y) # 0
  BY <1>2, <1>4, <1>5, <1>6
<1>8. y # <<>>
  BY <1>7
<1>9. QED
  BY <1>1, <1>8

\* The line that ends the request of wget1() is none of the headers.
LEMMA EndNoHeader == SplitColonBlank(<<"\r">>) = Thrown /\ <<"\r">> # <<>>
<1> DEFINE colon == ":"
           r == "\r"
           t == <<r>>
           B == {" ", "\t"}
           o == 1
           x == FirstPlace(Len(t), {i \in 1..Len(t) : t[i] = colon})
<1>1. r # colon
  BY Zenon
<1>2. SplitColonBlank(<<"\r">>) = CutOff(t, colon, B)
  BY CutOffIs, Zenon
<1> HIDE DEF colon, r, B
<1>3. Len(t) = 1 /\ t[1] = r /\ t # <<>>
  OBVIOUS
<1> HIDE DEF t
<1>4. {i \in 1..Len(t) : t[i] = colon} = {}
  BY <1>1, <1>3
<1>5. x = Len(t) + 1
  BY <1>4 DEF FirstPlace
<1>6. x > Len(t)
  BY <1>3, <1>5
<1>7. CutOff(t, colon, B) = Thrown
  <2> HIDE DEF x
  <2>1. CutOff(t, colon, B) = IF x > Len(t) THEN Thrown
                              ELSE << <<SubSeq(t, 1, x - 1),
                                        From(t, FirstPlace(Len(t), {i \in x + 1..Len(t) : t[i] \notin B}))>> >>
    BY DEF CutOff, x
  <2>2. QED
    BY <1>6, <2>1
<1>8. QED
  BY <1>2, <1>3, <1>7, Zenon DEF t, r

\* As it is sent, with "\r" at the end of each line, the request is not
\* understood, whatever its first line is taken for.
LEMMA RequestFails ==
  ASSUME NEW T, NEW lines \in Seq(T)
  PROVE  ParseGetRequest(RequestLines(SmallUrl) \o lines) = Thrown
<1> DEFINE f == Header("From", <<"ano@nymous.com">>)
           h == Header("Host", SmallUrl.host \o <<":">> \o SmallUrl.port)
           g == Header("User-Agent", <<"KISS">>)
           get == <<"GET", " ">> \o SmallUrl.path \o <<" ", "HTTP", "/", "1.0", "\r">>
           e == <<"\r">>
           request == RequestLines(SmallUrl)
           V == {get, f, h, g, e} \cup T
           M == request \o lines
           N == Tail(M)
<1>1. request = <<get, f, h, g, e>>
  BY Zenon DEF RequestLines
<1>2. f # <<>> /\ h # <<>> /\ g # <<>>
  <2> DEFINE x == "ano@nymous.com"
             a == "a"
             c == ":"
             d == "80"
             k == "KISS"
             T1 == {x, a, c, d, k}
             vx == <<x>>
             va == <<a, c, d>>
             vk == <<k>>
  <2>1. SmallUrl.host = <<a>> /\ SmallUrl.port = <<d>>
    BY DEF SmallUrl
  <2>2. f = Header("From", vx) /\ g = Header("User-Agent", vk)
    BY Zenon
  <2>3. h = Header("Host", <<a>> \o <<c>> \o <<d>>)
    BY <2>1, Zenon
  <2> HIDE DEF f, h, g, x, a, c, d, k
  <2>4. <<a>> \o <<c>> \o <<d>> = va
    BY ThreeJoined
  <2>5. vx \in Seq(T1) /\ va \in Seq(T1) /\ vk \in Seq(T1)
    OBVIOUS
  <2> HIDE DEF vx, va, vk, T1
  <2>6. \A name : Header(name, vx) # <<>> /\ Header(name, va) # <<>> /\ Header(name, vk) # <<>>
    BY <2>5, HeaderFilled
  <2>7. QED
    BY <2>2, <2>3, <2>4, <2>6, Zenon
<1>3. SplitColonBlank(e) = Thrown /\ e # <<>>
  BY EndNoHeader, Zenon
<1> HIDE DEF f, h, g, get, e, request
<1>4. get \in V /\ f \in V /\ h \in V /\ g \in V /\ e \in V /\ T \subseteq V
  OBVIOUS
<1> HIDE DEF V
<1>5. request \in Seq(V) /\ Len(request) = 5 /\ request[2] = f /\ request[3] = h
      /\ request[4] = g /\ request[5] = e
  BY <1>1, <1>4
<1>6. lines \in Seq(V)
  <2>1. DOMAIN lines = 1..Len(lines) /\ Len(lines) \in Nat /\ \A k \in 1..Len(lines) : lines[k] \in T
    BY LenProperties, ElementOfSeq
  <2>2. QED
    BY <1>4, <2>1
<1>7. M \in Seq(V) /\ Len(M) = Len(request) + Len(lines)
      /\ \A k \in 1..Len(request) : M[k] = request[k]
  BY <1>5, <1>6, ConcatParts
<1> HIDE DEF M
<1>8. Len(M) \in Nat /\ Len(M) >= 5 /\ M[2] = f /\ M[3] = h /\ M[4] = g /\ M[5] = e
  <2>1. Len(lines) \in Nat
    BY LenProperties
  <2>2. QED
    BY <1>5, <1>7, <2>1
<1>9. N \in Seq(V) /\ Len(N) = Len(M) - 1 /\ \A i \in 1..Len(N) : N[i] = M[i + 1]
  <2>1. M # <<>>
    <3>1. Len(M) # 0
      BY <1>8
    <3>2. QED
      BY <3>1
  <2>2. QED
    BY <1>7, <2>1, HeadTailProperties
<1> HIDE DEF N
<1>10. Len(N) >= 4 /\ N[1] = f /\ N[2] = h /\ N[3] = g /\ N[4] = e
  <2>1. Len(N) >= 4 /\ 1 \in 1..Len(N) /\ 2 \in 1..Len(N) /\ 3 \in 1..Len(N) /\ 4 \in 1..Len(N)
    BY <1>8, <1>9
  <2>2. N[1] = M[1 + 1] /\ N[2] = M[2 + 1] /\ N[3] = M[3 + 1] /\ N[4] = M[4 + 1]
    BY <1>9, <2>1
  <2>3. QED
    BY <1>8, <2>1, <2>2
<1>11. \A r : HeadersOf(N, r) = Thrown
  <2>1. N[1] # <<>> /\ N[2] # <<>> /\ N[3] # <<>> /\ N[4] # <<>> /\ SplitColonBlank(N[4]) = Thrown
    BY <1>2, <1>3, <1>10, Zenon
  <2> SUFFICES ASSUME NEW r PROVE HeadersOf(N, r) = Thrown
    OBVIOUS
  <2>2. QED
    BY <1>9, <1>10, <2>1, HeadersFail
<1>12. ParseGetRequest(M) = Thrown
  BY <1>11, Zenon DEF ParseGetRequest, N
<1>13. QED
  BY <1>12, Zenon DEF M, request

\* A client finds the body of a response; a server understands a request with
\* plain line ends and throws at the same one as wget1() sends it (wget1(),
\* header_200(), header_404(), parse_get_request()).
LEMMA BodyIsRight == TextTyped => BodyRight
<1> SUFFICES ASSUME TextTyped, unit = "text" PROVE BodyRight
  BY DEF BodyRight
<1> DEFINE lines == SplitAny(text, {"\n"})
<1>1. text \in Seq(Characters)
  BY DEF TextTyped
<1>2. PICK c : CutsOf(c, text, {"\n"})
  BY <1>1, CutsExist
<1>3. lines \in Seq(Seq(Characters))
  BY <1>1, <1>2, SplitAnyIs
<1> HIDE DEF lines
<1>4. WgetBody(Header200(<<"text">>) \o lines) = lines /\ WgetBody(Header404(<<"a">>) \o lines) = lines
  BY <1>3, BodiesAre
<1> DEFINE request == RequestLines(SmallUrl)
<1>5. ParseGetRequest([k \in DOMAIN request |-> Front(request[k])] \o lines) = <<SmallRequest>>
  BY <1>3, RequestIs
<1>6. ParseGetRequest(request \o lines) = Thrown
  BY <1>3, RequestFails
<1>7. QED
  BY <1>4, <1>5, <1>6, Zenon DEF BodyRight, lines, SmallUrl, SmallRequest

\* Whatever is typed, a URL is accepted exactly if it can be read in some way
\* and is read in that way, the body of a response is what follows its
\* headers, a request with plain line ends is understood up to its empty line,
\* and the one that wget1() sends, with "\r", makes parse_get_request() throw
\* (wget(), wget1(), header_200(), header_404(), parse_get_request()).
THEOREM HttpIsRight == Spec => []HttpRight
<1>1. TextTyped => HttpRight
  BY UrlIsRight, BodyIsRight DEF HttpRight
<1>2. QED
  BY <1>1, TypedAlways, PTL
==============================================================================
