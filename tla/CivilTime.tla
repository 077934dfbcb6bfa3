----------------------------- MODULE CivilTime -----------------------------
(***************************************************************************)
(* Civil dates as day numbers, and wall times as instants of a time zone   *)
(* (packages/calendar/src/civil.ts and timezone.ts).                       *)
(*                                                                         *)
(* A date is [year, month, day]; day number 0 is 1970-01-01.  A wall time  *)
(* is counted from the same origin in TICKS, PerDay of them to a day: the  *)
(* "pseudo UTC" reading of civil.ts.  A zone is what its Intl formatter    *)
(* answers: the sequence of its changes, [at, offset], ascending by the    *)
(* instant `at` from which `offset` applies.                               *)
(***************************************************************************)
EXTENDS Integers, Sequences

CONSTANT PerDay         \* Ticks in a day (MS_PER_DAY)

IsLeapYear(year) == (year % 4 = 0 /\ year % 100 # 0) \/ year % 400 = 0

DaysInMonth(year, month) ==
    IF month = 2 THEN IF IsLeapYear(year) THEN 29 ELSE 28
                 ELSE IF month \in {4, 6, 9, 11} THEN 30 ELSE 31

\* January and February belong to the March-based year before.
MarchYear(year, month) == IF month <= 2 THEN year - 1 ELSE year

ToDayNumber(year, month, day) ==
    LET y == MarchYear(year, month)
        era == y \div 400
        yearOfEra == y - era * 400
        shifted == IF month > 2 THEN month - 3 ELSE month + 9
        dayOfYear == (153 * shifted + 2) \div 5 + day - 1
        dayOfEra == yearOfEra * 365 + yearOfEra \div 4 - yearOfEra \div 100
                      + dayOfYear
    IN era * 146097 + dayOfEra - 719468

\* Where a day of the 400-year era falls: the year, and the day of that year.
YearOfEra(dayOfEra) ==
    (dayOfEra - dayOfEra \div 1460 + dayOfEra \div 36524 - dayOfEra \div 146096) \div 365

DateOfYear(year, dayOfYear) ==
    LET shifted == (5 * dayOfYear + 2) \div 153
        month == IF shifted < 10 THEN shifted + 3 ELSE shifted - 9
    IN [ year |-> IF month <= 2 THEN year + 1 ELSE year,
         month |-> month,
         day |-> dayOfYear - (153 * shifted + 2) \div 5 + 1 ]

DateOfEra(era, dayOfEra, yearOfEra) ==
    DateOfYear(yearOfEra + era * 400,
               dayOfEra - (365 * yearOfEra + yearOfEra \div 4 - yearOfEra \div 100))

FromDayNumber(dayNumber) ==
    LET z == dayNumber + 719468
        era == z \div 146097
        dayOfEra == z - era * 146097
    IN DateOfEra(era, dayOfEra, YearOfEra(dayOfEra))

\* 0 is Sunday; 1970-01-01 was a Thursday.
DayOfWeek(dayNumber) == (dayNumber + 4) % 7

--------------------------------------------------------------------------
\* The offset a zone is at, and the wall time an instant reads as.
OffsetAt(instant, zone) ==
    LET past == { i \in DOMAIN zone : zone[i].at <= instant }
    IN zone[CHOOSE i \in past : \A j \in past : j <= i].offset

InstantToCivil(instant, zone) == instant + OffsetAt(instant, zone)

Resolved(wall, offset, kind) == [instant |-> wall - offset, kind |-> kind]

\* The bug of sampling at the wall time itself.
SampledAtOnce(wall, zone) ==
    [before |-> OffsetAt(wall, zone), after |-> OffsetAt(wall, zone)]

\* The two offsets that could apply: the zone's a day before and a day after.
Sampled(wall, zone) ==
    [before |-> OffsetAt(wall - PerDay, zone), after |-> OffsetAt(wall + PerDay, zone)]

\* A repeated hour takes its first reading, a skipped one is pushed forward
\* by the length of the gap ("compatible").
ResolvedBetween(wall, zone, before, after) ==
    LET beforeMatches == InstantToCivil(wall - before, zone) = wall
        afterMatches == InstantToCivil(wall - after, zone) = wall
    IN IF before = after THEN Resolved(wall, before, "unique")
       ELSE IF beforeMatches /\ afterMatches
            THEN Resolved(wall, IF before > after THEN before ELSE after, "overlap")
       ELSE IF beforeMatches THEN Resolved(wall, before, "unique")
       ELSE IF afterMatches THEN Resolved(wall, after, "unique")
       ELSE Resolved(wall, before, "gap")

ResolveCivil(wall, zone) ==
    LET sample == Sampled(wall, zone)
    IN ResolvedBetween(wall, zone, sample.before, sample.after)
=============================================================================
