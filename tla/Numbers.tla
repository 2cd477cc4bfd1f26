------------------------------- MODULE Numbers -------------------------------
(***************************************************************************)
(* Numbers and times: src/util.cpp (check_long, format_time_hh_mm,         *)
(* format_time_hh_mmt), include/nanonet/util.h (to_fractional, day_number),*)
(* include/nanonet/math-util.h and src/math-util.cpp (round_to_integer,    *)
(* rate_estimator).  A double is an exact multiple of 1/Unit.              *)
(***************************************************************************)
EXTENDS Integers, Sequences, FiniteSets

CONSTANT Unit   \* the doubles are the numbers n/Unit
ASSUME UnitAssumption == Unit \in Nat \ {0}

VARIABLES
  rate,    \* a rate_estimator
  times    \* the times it was updated with (history)

\* std::floor(x + .5), and std::round(), which rounds halves away from zero.
RoundUp(n, d) == (2 * n + d) \div (2 * d)
Round(n, d) == IF n >= 0 THEN RoundUp(n, d) ELSE -RoundUp(-n, d)

\* check_long(): whether x = n/Unit is an integer between lo and hi.
CheckLong(n, lo, hi) == /\ lo * Unit <= n /\ n <= hi * Unit
                        /\ n % Unit = 0

\* round_to_integer() to a type from lo to hi: whether it returns.
RoundToInteger(n, lo, hi) == lo <= Round(n, Unit) /\ Round(n, Unit) <= hi

\* to_fractional(): seconds s and f of m parts of n/Unit seconds.
ToFractional(n, m) == LET r == RoundUp(n * m, Unit)
                      IN [s |-> r \div m, f |-> r % m]

DayNumber(n) == n \div (86400 * Unit)

\* The hours and minutes, or tenths of minutes, written for n/Unit seconds;
\* the hour is left out (-1) if it is zero and skip_hour is set.
\* Mutation: 60 minutes are not carried over.
HoursMinutes_NoCarry(n, parts, skip_hour) ==
  LET h == n \div (3600 * Unit)
  IN [h |-> IF h = 0 /\ skip_hour THEN -1 ELSE h,
      m |-> Round((n - h * 3600 * Unit) * parts, 60 * Unit)]

HoursMinutes(n, parts, skip_hour) ==
  LET h0 == n \div (3600 * Unit)
      m0 == Round((n - h0 * 3600 * Unit) * parts, 60 * Unit)
      carry == m0 >= 60 * parts
      h == IF carry THEN h0 + 1 ELSE h0
  IN [h |-> IF h = 0 /\ skip_hour THEN -1 ELSE h, m |-> IF carry THEN 0 ELSE m0]
FormatTimeHhMm(n, skip_hour) == HoursMinutes(n, 1, skip_hour)
FormatTimeHhMmt(n, skip_hour) == HoursMinutes(n, 10, skip_hour)

-----------------------------------------------------------------------------
\* A rate_estimator: the last accepted time (NaN before the first one) and
\* the intervals it has averaged.  An update with NaN or back in time is
\* ignored.
NaN == -1
NewEstimator == [last |-> NaN, dts |-> <<>>]

RateUpdate(e, now) ==
  CASE now = NaN                    -> e
    [] e.last # NaN /\ now < e.last -> e
    [] e.last = NaN                 -> [e EXCEPT !.last = now]
    [] OTHER -> [last |-> now, dts |-> Append(e.dts, now - e.last)]

\* estimate( now ): of a copy that is updated.
Estimate(e, now) == RateUpdate(e, now).dts

\* The estimator from its construction on, updated with times of T and NaN.
RateInit == rate = NewEstimator /\ times = <<>>
Updated(now) == rate' = RateUpdate(rate, now) /\ times' = Append(times, now)
RateNext(T) == \E now \in T \cup {NaN} : Updated(now)
RateSpec(T) == RateInit /\ [][RateNext(T)]_<<rate, times>>

-----------------------------------------------------------------------------
\* What the formats promise of n/Unit, each for every n the code accepts.
Near(x, y, half) == x - y <= half /\ y - x <= half

\* A part is less than a second, and what is shown is half a part off at most.
FractionRight(n, m) ==
  LET r == ToFractional(n, m)
  IN 0 <= r.f /\ r.f < m /\ Near(2 * Unit * (r.s * m + r.f), 2 * n * m, Unit)

\* The same of the time t shown for it, with minutes in so many parts.
ClockRight(n, t, parts) ==
  LET hour == IF t.h = -1 THEN 0 ELSE t.h
  IN /\ 0 <= t.m /\ t.m < 60 * parts
     /\ Near(parts * Unit * 3600 * hour + Unit * 60 * t.m, parts * n, Unit * 30)

\* A time is within its day, and a number that is accepted as an integer
\* between lo and hi is rounded to such a one.
DayRight(n) == /\ DayNumber(n) * (86400 * Unit) <= n
               /\ n < (DayNumber(n) + 1) * (86400 * Unit)
IntegerRight(n, lo, hi) == CheckLong(n, lo, hi) => RoundToInteger(n, lo, hi)

\* A time of s counts if none before it is later, and is the event of that place.
Counts(s, k) == s[k] # NaN /\ \A j \in 1..k - 1 : s[j] <= s[k]
Place(s, k) == Cardinality({j \in 1..k : Counts(s, j)})

\* The estimator has the latest time, and what it has averaged is the time from
\* each event to the next one.
RateRight ==
  /\ rate.last = NaN \/ \E k \in 1..Len(times) : rate.last = times[k]
  /\ \A k \in 1..Len(times) : times[k] <= rate.last
  /\ Len(rate.dts) = IF rate.last = NaN THEN 0 ELSE Place(times, Len(times)) - 1
  /\ \A j, k \in 1..Len(times) :
       Counts(times, j) /\ Counts(times, k) /\ Place(times, k) = Place(times, j) + 1
         => rate.dts[Place(times, j)] = times[k] - times[j]
  /\ rate.last # NaN => Len(Estimate(rate, rate.last)) = Len(rate.dts) + 1

\* What the formats and conversions make of n/Unit.
FormatsRight(n) ==
  /\ \A m \in {1, 3, 10} : FractionRight(n, m)
  /\ \A skip \in BOOLEAN : /\ ClockRight(n, FormatTimeHhMm(n, skip), 1)
                           /\ ClockRight(n, FormatTimeHhMmt(n, skip), 10)
  /\ DayRight(n)
  /\ IntegerRight(n, 0, 9999)

\* Times are cut into full units and a part of the next one: rounding never
\* shows 60 minutes or a full second as a part, and is off by half a part at
\* most.  The rate is estimated from the times between one event and the next,
\* whatever times come late or are missing.
TimesRight ==
  times # <<>> =>
    /\ RateRight
    /\ times[Len(times)] # NaN => FormatsRight(times[Len(times)])
=============================================================================
