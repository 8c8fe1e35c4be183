------------------------------- MODULE Temporal -------------------------------
(***************************************************************************)
(* internal/value/classic_temporal.go: the compact temporal types.  A date *)
(* is [y, m, d], a clock time [h, mi, s], and a value of a type is the     *)
(* record of the parts its text has; the text itself is left out.  The     *)
(* calendar is Julian up to 1582-10-04 and Gregorian from 1582-10-15 on.   *)
(***************************************************************************)
EXTENDS Integers, Sequences, FiniteSets, SequencesExt

DaysByMonth == <<31, 29, 31, 30, 31, 30, 31, 31, 30, 31, 30, 31>>
LastYear == 9999
(* 10 000 000 in the code: TLC's integers have 32 bits.                    *)
FractionsPerSecond == 10
SecondsPerDay == 86400
MinutesPerDay == 1440

(* Mutant: the Gregorian rule at all times.                                *)
Mut_AlwaysGregorian(y) == y % 4 = 0 /\ (y % 100 # 0 \/ y % 400 = 0)
IsLeapYear(y) ==
  IF y < 1582 THEN y % 4 = 0 ELSE y % 4 = 0 /\ (y % 100 # 0 \/ y % 400 = 0)
DaysInMonth(y, m) ==
  CASE m = 2 -> IF IsLeapYear(y) THEN 29 ELSE 28
    [] y = 1582 /\ m = 10 -> 21
    [] OTHER -> DaysByMonth[m]

InGap(d) == d.y = 1582 /\ d.m = 10 /\ d.d \in 5..14
ValidDate(d) ==
  /\ d.y \in 1..LastYear /\ d.m \in 1..12 /\ ~InGap(d)
  /\ d.d \in 1..(IF d.m = 2 THEN DaysInMonth(d.y, 2) ELSE DaysByMonth[d.m])
ValidClock(c, endOfDay) ==
  /\ c.h \in 0..(IF endOfDay THEN 24 ELSE 23) /\ c.mi \in 0..59 /\ c.s \in 0..59
  /\ c.h = 24 => c.mi = 0 /\ c.s = 0

(* daysInPreviousYears: Julian centuries up to 1600, less the ten days that*)
(* were skipped, then Gregorian cycles.                                    *)
DaysInPreviousYears(y) ==
  LET previous == y - 1
      julian == IF previous > 1600 THEN 1600 ELSE previous
      rest == julian % 100
      days == (julian \div 100) * 36525 + (rest \div 4) * 1461 + (rest % 4) * 365
              - (IF y > 1582 THEN 10 ELSE 0)
      after == previous - 1600
      cycle == after % 400
      century == cycle % 100
  IN  IF previous <= 1600 THEN days
      ELSE days + (after \div 400) * 146097 + (cycle \div 100) * 36524
                + (century \div 4) * 1461 + (century % 4) * 365

DaysBefore(y, m) == FoldLeft(LAMBDA n, k : n + DaysInMonth(y, k), 0, [k \in 1..(m - 1) |-> k])
DateOrdinal(d) ==
  DaysInPreviousYears(d.y) + DaysBefore(d.y, d.m)
    + (IF d.y = 1582 /\ d.m = 10 /\ d.d >= 15 THEN d.d - 10 ELSE d.d) - 1

(* The binary searches of dateFromOrdinal and weekFromOrdinal.             *)
RECURSIVE YearSearch(_, _, _)
YearSearch(ordinal, lower, upper) ==
  IF lower > upper THEN upper
  ELSE LET candidate == (lower + upper) \div 2
       IN  IF DaysInPreviousYears(candidate) <= ordinal
           THEN YearSearch(ordinal, candidate + 1, upper) ELSE YearSearch(ordinal, lower, candidate - 1)
RECURSIVE MonthSearch(_, _, _)
MonthSearch(y, m, remaining) ==
  IF m <= 12 /\ remaining >= DaysInMonth(y, m)
  THEN MonthSearch(y, m + 1, remaining - DaysInMonth(y, m)) ELSE [m |-> m, d |-> remaining + 1]
(* Mutant: the days of October 1582 are numbered as if none were skipped.  *)
Mut_GapForgotten(ordinal) ==
  LET y == YearSearch(ordinal, 1, LastYear)
      at == MonthSearch(y, 1, ordinal - DaysInPreviousYears(y))
  IN  [y |-> y, m |-> at.m, d |-> at.d]
DateAt(y, at) == [y |-> y, m |-> at.m, d |-> IF y = 1582 /\ at.m = 10 /\ at.d > 4 THEN at.d + 10 ELSE at.d]
DateInYear(y, ordinal) == DateAt(y, MonthSearch(y, 1, ordinal - DaysInPreviousYears(y)))
DateFromOrdinal(ordinal) == DateInYear(YearSearch(ordinal, 1, LastYear), ordinal)

(* Mutant: a leap year that starts on a Wednesday is not a long year.      *)
Mut_ThursdayOnly(y) == (5 + DaysInPreviousYears(y)) % 7 = 3
HasWeek53(y) ==
  LET first == (5 + DaysInPreviousYears(y)) % 7
  IN  first = 3 \/ (first = 2 /\ IsLeapYear(y))
YearsWithWeek53 == {y \in 1..LastYear : HasWeek53(y)}
PriorWeek53Count(y) == Cardinality({l \in YearsWithWeek53 : l < y})
ValidWeek(v) ==
  v.w \in 1..53 /\ IF v.y = 0 THEN v.w = 53 ELSE v.y \in 1..LastYear /\ (v.w = 53 => v.y \in YearsWithWeek53)
WeekOrdinal(v) ==
  LET long == PriorWeek53Count(v.y) IN IF v.y = 0 THEN 0 ELSE long * 53 + (v.y - 1 - long) * 52 + v.w
RECURSIVE WeekSearch(_, _, _)
WeekSearch(ordinal, lower, upper) ==
  IF lower >= upper THEN lower
  ELSE LET y == (lower + upper) \div 2
       IN  IF ordinal <= y * 52 + PriorWeek53Count(y + 1)
           THEN WeekSearch(ordinal, lower, y) ELSE WeekSearch(ordinal, y + 1, upper)
WeekInYear(y, ordinal) == [y |-> y, w |-> ordinal - ((y - 1) * 52 + PriorWeek53Count(y))]
WeekFromOrdinal(ordinal) ==
  IF ordinal = 0 THEN [y |-> 0, w |-> 53] ELSE WeekInYear(WeekSearch(ordinal, 1, LastYear), ordinal)

-----------------------------------------------------------------------------
(* The largest raw value of a type that fits TLC's integers, 0 otherwise.  *)
MaximumRaw(exid) ==
  CASE exid = "d" -> 3652061 [] exid = "7" -> 521725 [] exid = "x" -> 119988
    [] exid = "t" -> 86401 [] exid = "i" -> 1441 [] exid = "c" -> 366 [] OTHER -> 0
InRange(exid, raw) == raw >= 0 /\ (MaximumRaw(exid) > 0 => raw <= MaximumRaw(exid))

Seconds(c) == c.h * 3600 + c.mi * 60 + c.s
Clock(seconds) == [h |-> seconds \div 3600, mi |-> (seconds % 3600) \div 60, s |-> seconds % 60]
YearDay(m, d) == d + FoldLeft(LAMBDA n, k : n + DaysByMonth[k], 0, [k \in 1..(m - 1) |-> k])
RECURSIVE YearDaySearch(_, _)
YearDaySearch(m, remaining) ==
  IF remaining >= DaysByMonth[m] THEN YearDaySearch(m + 1, remaining - DaysByMonth[m])
  ELSE [m |-> m, d |-> remaining + 1]

ValidTemporal(exid, v) ==
  CASE exid \in {"p", "n", "w"} -> ValidDate(v.date) /\ ValidClock(v.clock, FALSE)
    [] exid = "d" -> ValidDate(v)
    [] exid = "7" -> ValidWeek(v)
    [] exid = "x" -> v.y \in 1..LastYear /\ v.m \in 1..12
    [] exid \in {"t", "i"} -> ValidClock(v, TRUE)
    [] exid = "c" -> v.m \in 1..12 /\ v.d \in 1..DaysByMonth[v.m]
Raw(exid, v) ==
  CASE exid = "p" -> (DateOrdinal(v.date) * SecondsPerDay + Seconds(v.clock)) * FractionsPerSecond + v.f + 1
    [] exid = "n" -> DateOrdinal(v.date) * SecondsPerDay + Seconds(v.clock) + 1
    [] exid = "w" -> DateOrdinal(v.date) * MinutesPerDay + v.clock.h * 60 + v.clock.mi + 1
    [] exid = "d" -> DateOrdinal(v) + 1
    [] exid = "7" -> WeekOrdinal(v) + 1
    [] exid = "x" -> (v.y - 1) * 12 + v.m
    [] exid = "t" -> Seconds(v) + 1
    [] exid = "i" -> v.h * 60 + v.mi + 1
    [] exid = "c" -> YearDay(v.m, v.d)

(* EncodeClassicTemporal, DecodeClassicTemporal.  "" is the initial value. *)
EncodeClassicTemporal(exid, v) ==
  IF v = <<>> THEN [ok |-> TRUE, raw |-> 0]
  ELSE IF ValidTemporal(exid, v[1]) /\ InRange(exid, Raw(exid, v[1]))
       THEN [ok |-> TRUE, raw |-> Raw(exid, v[1])] ELSE [ok |-> FALSE]
DecodeClassicTemporal(exid, raw) ==
  LET o == raw - 1
      perDay == SecondsPerDay * FractionsPerSecond
      v == CASE exid = "p" -> [date |-> DateFromOrdinal(o \div perDay),
                               clock |-> Clock((o % perDay) \div FractionsPerSecond), f |-> o % FractionsPerSecond]
             [] exid = "n" -> [date |-> DateFromOrdinal(o \div SecondsPerDay), clock |-> Clock(o % SecondsPerDay)]
             [] exid = "w" -> [date |-> DateFromOrdinal(o \div MinutesPerDay), clock |-> Clock((o % MinutesPerDay) * 60)]
             [] exid = "d" -> DateFromOrdinal(o)
             [] exid = "7" -> WeekFromOrdinal(o)
             [] exid = "x" -> [y |-> (o \div 12) + 1, m |-> (o % 12) + 1]
             [] exid = "t" -> Clock(o)
             [] exid = "i" -> Clock(o * 60)
             [] exid = "c" -> YearDaySearch(1, o)
  IN  IF ~InRange(exid, raw) THEN [ok |-> FALSE]
      ELSE [ok |-> TRUE, value |-> IF raw = 0 THEN <<>> ELSE <<v>>]

-----------------------------------------------------------------------------
(* Every value that EncodeClassicTemporal accepts comes back from          *)
(* DecodeClassicTemporal, across leap years, the gap of 1582, week 53 and  *)
(* midnight.                                                               *)
TemporalRoundTrip(exid, v, r) ==
  DecodeClassicTemporal(exid, r.raw) = [ok |-> TRUE, value |-> v]

(* The day after, from the calendar alone.                                 *)
NextDay(d) ==
  LET length == IF d.m = 2 THEN (IF d.y % 4 # 0 \/ (d.y > 1582 /\ d.y % 100 = 0 /\ d.y % 400 # 0) THEN 28 ELSE 29)
                ELSE DaysByMonth[d.m]
  IN  CASE d = [y |-> 1582, m |-> 10, d |-> 4] -> [d EXCEPT !.d = 15]
        [] d # [y |-> 1582, m |-> 10, d |-> 4] /\ d.d < length -> [d EXCEPT !.d = @ + 1]
        [] d.d = length /\ d.m < 12 -> [d EXCEPT !.m = @ + 1, !.d = 1]
        [] d.d = length /\ d.m = 12 -> [y |-> d.y + 1, m |-> 1, d |-> 1]

(* A date and the date after it have raw values one apart: a day is never  *)
(* skipped nor counted twice, whatever the century; and the largest raw    *)
(* value is that of the last day.                                          *)
DaysAreConsecutive(d, r) ==
  LET next == NextDay(d)
  IN  IF next.y > LastYear THEN r.raw = MaximumRaw("d")
      ELSE EncodeClassicTemporal("d", <<next>>) = [ok |-> TRUE, raw |-> r.raw + 1]

(* The same for the weeks: after week 52 comes week 53 in a long year and  *)
(* week 1 otherwise, and a long year is one with 53 Thursdays.             *)
WeeksAreConsecutive(v, r) ==
  LET thursdays == {o \in DaysInPreviousYears(v.y)..(DaysInPreviousYears(v.y + 1) - 1) : (o + 5) % 7 = 3}
      last == IF Cardinality(thursdays) = 53 THEN 53 ELSE 52
      next == IF v.w < last THEN [v EXCEPT !.w = @ + 1] ELSE [y |-> v.y + 1, w |-> 1]
  IN  CASE v.y = 0 -> TRUE
        [] v.y > 0 /\ next.y > LastYear -> r.raw = MaximumRaw("7")
        [] v.y > 0 /\ next.y <= LastYear ->
             v.w <= last /\ EncodeClassicTemporal("7", <<next>>) = [ok |-> TRUE, raw |-> r.raw + 1]
=============================================================================
