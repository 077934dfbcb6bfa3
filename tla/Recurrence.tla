----------------------------- MODULE Recurrence ----------------------------
(***************************************************************************)
(* The recurrence engine (packages/calendar/src/rrule.ts, expand.ts,       *)
(* occurrences.ts): what a series shows in a window.                       *)
(*                                                                         *)
(* The engine walks the periods of the rule (days, weeks, months, years)   *)
(* from a period it SEEKS to, expands each into candidate days, and stops  *)
(* at the window's end, at COUNT, at UNTIL or at the limit.  What it must  *)
(* compute is stated below it in the terms of RFC 5545: which days match,  *)
(* one by one, with no period walk.                                        *)
(*                                                                         *)
(* An occurrence is named by its day number: every one of a series is at   *)
(* DTSTART's wall time.  `by day' entries are [ordinal, weekday], ordinal  *)
(* 0 standing for none; COUNT 0 stands for its absence.  UNTIL is a date,  *)
(* an instant of UTC, or absent: [kind, at].                               *)
(***************************************************************************)
EXTENDS CivilTime, FiniteSets

CONSTANTS
    Rules,          \* The rules tried
    Starts,         \* DTSTART days
    StartTick,      \* The tick of the day every occurrence starts at
    Spans,          \* Ticks from the start to the end of the master, on the wall
    StartZone, EndZone,
    Windows,        \* What is asked: [from, to] in days, the limit, the match
    MaxPeriods      \* MAX_EXPANSION_PERIODS

VARIABLES
    series,     \* The rule, DTSTART, span, dates of a series
    window,     \* [from, to, limit, overlaps]: what the caller asks
    shown       \* What expandSeries answered, or a null before it did

vars == <<series, window, shown>>

Unasked == [days |-> {}, truncated |-> FALSE, end |-> 0, asked |-> FALSE]

--------------------------------------------------------------------------
(* rrule.ts *)

\* The combinations parseRRule refuses rather than show wrong dates.
Supported(rule) ==
    /\ ~(rule.count # 0 /\ rule.until.kind # "none")
    /\ rule.byMonthDay # {} => rule.freq \notin {"WEEKLY", "DAILY"}
    /\ (\E b \in rule.byDay : b.ordinal # 0) => rule.freq \notin {"WEEKLY", "DAILY"}
    /\ rule.bySetPos # {} => rule.byMonth # {} \/ rule.byMonthDay # {} \/ rule.byDay # {}

\* An UNTIL that is a date has the whole of that day inside, in the series'
\* own zone; one in UTC is its instant.
UntilInstant(rule) ==
    IF rule.until.kind = "utc" THEN rule.until.at
    ELSE ResolveCivil((rule.until.at + 1) * PerDay - 1, StartZone).instant

--------------------------------------------------------------------------
(* expand.ts *)

StartOfWeek(day, wkst) == day - ((DayOfWeek(day) - wkst) % 7)

\* Months are counted from year 0, January = 0.
MonthIndex(day) == LET d == FromDayNumber(day) IN d.year * 12 + d.month - 1
FirstOfMonth(m) == ToDayNumber(m \div 12, (m % 12) + 1, 1)
LengthOfMonth(m) == DaysInMonth(m \div 12, (m % 12) + 1)

\* BYMONTHDAY entries inside a month; the ones that do not exist drop out.
MonthDayNumbers(m, byMonthDay) ==
    LET length == LengthOfMonth(m)
        resolved == { IF v > 0 THEN v ELSE length + v + 1 : v \in byMonthDay }
    IN { FirstOfMonth(m) + d - 1 : d \in { r \in resolved : r >= 1 /\ r <= length } }

\* Every day of the weekday in a span, and the one an ordinal picks: counted
\* from the front, or from the back when it is negative.
WeekdayMatches(first, length, weekday) ==
    { d \in first..(first + length - 1) : DayOfWeek(d) = weekday }

Picked(days, position) ==
    { d \in days : position \in { Cardinality({ e \in days : e <= d }),
                                - Cardinality({ e \in days : e >= d }) } }

ExpandByDay(first, length, byDay) ==
    UNION { LET matches == WeekdayMatches(first, length, b.weekday)
            IN IF b.ordinal = 0 THEN matches ELSE Picked(matches, b.ordinal)
            : b \in byDay }

\* BYDAY as a limit: the weekday alone, and no limit where there is no BYDAY.
KeepMatchingWeekday(days, byDay) ==
    IF byDay = {} THEN days
    ELSE { d \in days : \E b \in byDay : DayOfWeek(d) = b.weekday }

ApplySetPos(days, bySetPos) ==
    IF bySetPos = {} THEN days
    ELSE UNION { Picked(days, p) : p \in bySetPos }

\* One month of a MONTHLY or a YEARLY rule.
DaysOfMonth(rule, m, dtstart) ==
    IF rule.byMonthDay # {}
    THEN KeepMatchingWeekday(MonthDayNumbers(m, rule.byMonthDay), rule.byDay)
    ELSE IF rule.byDay # {}
    THEN ExpandByDay(FirstOfMonth(m), LengthOfMonth(m), rule.byDay)
    ELSE MonthDayNumbers(m, {FromDayNumber(dtstart).day})

\* BYDAY alone spans the year; BYMONTHDAY without BYMONTH, every month.
YearlyDays(rule, year, dtstart) ==
    IF rule.byDay # {} /\ rule.byMonth = {} /\ rule.byMonthDay = {}
    THEN ExpandByDay(ToDayNumber(year, 1, 1), IF IsLeapYear(year) THEN 366 ELSE 365,
                     rule.byDay)
    ELSE LET months == IF rule.byMonth # {} THEN rule.byMonth
                       ELSE IF rule.byMonthDay # {} THEN 1..12
                       ELSE {FromDayNumber(dtstart).month}
         IN UNION { DaysOfMonth(rule, year * 12 + month - 1, dtstart) : month \in months }

PeriodAnchorDay(rule, dtstart, index) ==
    LET step == index * rule.interval
    IN CASE rule.freq = "DAILY" -> dtstart + step
         [] rule.freq = "WEEKLY" -> StartOfWeek(dtstart, rule.wkst) + step * 7
         [] rule.freq = "MONTHLY" -> FirstOfMonth(MonthIndex(dtstart) + step)
         [] rule.freq = "YEARLY" -> ToDayNumber(FromDayNumber(dtstart).year + step, 1, 1)

\* What the parts below the frequency expand one period to.
CandidateDays(rule, dtstart, anchor) ==
    CASE rule.freq = "DAILY" -> KeepMatchingWeekday({anchor}, rule.byDay)
      [] rule.freq = "WEEKLY" ->
           LET week == anchor..(anchor + 6)
           IN IF rule.byDay # {} THEN KeepMatchingWeekday(week, rule.byDay)
              ELSE { d \in week : DayOfWeek(d) = DayOfWeek(dtstart) }
      [] rule.freq = "MONTHLY" -> DaysOfMonth(rule, MonthIndex(anchor), dtstart)
      [] rule.freq = "YEARLY" -> YearlyDays(rule, FromDayNumber(anchor).year, dtstart)

\* BYMONTH as a limit; in a YEARLY rule it has expanded already.
KeepMonths(rule, days) ==
    IF rule.byMonth = {} \/ rule.freq = "YEARLY" THEN days
    ELSE { d \in days : FromDayNumber(d).month \in rule.byMonth }

PeriodDays(rule, dtstart, index) ==
    LET candidates == CandidateDays(rule, dtstart, PeriodAnchorDay(rule, dtstart, index))
    IN ApplySetPos(KeepMonths(rule, candidates), rule.bySetPos)

\* Whole periods between DTSTART and a day.
PeriodsUntil(rule, dtstart, day) ==
    LET years == FromDayNumber(day).year - FromDayNumber(dtstart).year
    IN CASE rule.freq = "DAILY" -> (day - dtstart) \div rule.interval
         [] rule.freq = "WEEKLY" ->
              (StartOfWeek(day, rule.wkst) - StartOfWeek(dtstart, rule.wkst))
                \div (7 * rule.interval)
         [] rule.freq = "MONTHLY" -> (MonthIndex(day) - MonthIndex(dtstart)) \div rule.interval
         [] rule.freq = "YEARLY" -> years \div rule.interval

\* COUNT is positional, so a rule that has one is walked from DTSTART; any
\* other seeks, one period of slack before the window.
SeekPeriodIndex(rule, dtstart, from) ==
    IF rule.count # 0 THEN 0
    ELSE LET periods == PeriodsUntil(rule, dtstart, from) - 1
         IN IF periods > 0 THEN periods ELSE 0

\* The first n of a set of days.
FirstOf(days, n) == { d \in days : Cardinality({ e \in days : e < d }) < n }

Instant(day) == ResolveCivil(day * PerDay + StartTick, StartZone).instant
DayIn(zone, instant) == InstantToCivil(instant, zone) \div PerDay

\* The days of one period the walk may still emit: from DTSTART on, up to
\* UNTIL, as many as COUNT leaves.
Allowed(rule, fresh, emitted) ==
    LET inTime == { d \in fresh : rule.until.kind # "none" =>
                                    Instant(d) <= UntilInstant(rule) }
    IN IF rule.count = 0 THEN inTime ELSE FirstOf(inTime, rule.count - emitted)

\* Start and end keep their distance on the wall, each in its own zone.
EndInstant(s, day) ==
    ResolveCivil(day * PerDay + StartTick + s.span, EndZone).instant

\* What a window takes: starts in it, or, when it asks for overlaps, anything in it.
MatchesWindow(s, w, day) ==
    /\ Instant(day) <= w.to
    /\ Instant(day) >= w.from \/ (w.overlaps /\ EndInstant(s, day) >= w.from)

\* The walk from a period on, and what it does with the days of one: it stops
\* at the limit, or where UNTIL or COUNT left some of them out.
RECURSIVE Walk(_, _, _, _, _, _)
RECURSIVE WalkOn(_, _, _, _, _, _, _)
Walk(s, w, seek, index, emitted, days) ==
    LET anchor == PeriodAnchorDay(s.rule, s.dtstart, index)
        fresh == { d \in PeriodDays(s.rule, s.dtstart, index) : d >= s.dtstart }
    IN IF index - seek >= MaxPeriods THEN [days |-> days, truncated |-> TRUE]
       ELSE IF anchor > DayIn(StartZone, w.to + PerDay)
            THEN [days |-> days, truncated |-> FALSE]
       ELSE WalkOn(s, w, seek, index, emitted, days,
                   [fresh |-> fresh, allowed |-> Allowed(s.rule, fresh, emitted)])

WalkOn(s, w, seek, index, emitted, days, period) ==
    LET found == days \cup { d \in period.allowed : MatchesWindow(s, w, d) }
    IN IF Cardinality(found) > w.limit
       THEN [days |-> FirstOf(found, w.limit), truncated |-> TRUE]
       ELSE IF period.allowed # period.fresh THEN [days |-> found, truncated |-> FALSE]
       ELSE Walk(s, w, seek, index + 1, emitted + Cardinality(period.allowed), found)

ExpandRRule(s, w, seekBack) ==
    LET seek == SeekPeriodIndex(s.rule, s.dtstart, DayIn(StartZone, w.from) - seekBack)
    IN Walk(s, w, seek, seek, 0, {})

--------------------------------------------------------------------------
(* occurrences.ts *)

SpanDays(s) == (StartTick + s.span) \div PerDay

\* OVERLAP_SEEK_SLACK_DAYS: the ends are in another zone than the starts.
OverlapSeekSlack == 2

\* The bug of seeking by the starts when the ends are asked for.
SeekBackToStarts(s, w) == 0

\* The end may be on an earlier day than the start, where zones are far apart.
SeekBack(s, w) ==
    IF w.overlaps THEN (IF SpanDays(s) > 0 THEN SpanDays(s) ELSE 0) + OverlapSeekSlack ELSE 0

\* The rule's days and the added ones, without the removed and the edited.
Shown(s, w, expanded) ==
    LET added == { d \in s.rdates : MatchesWindow(s, w, d) }
        kept == (expanded.days \cup added) \ (s.exdates \cup s.overridden)
    IN [ days |-> FirstOf(kept, w.limit),
         truncated |-> expanded.truncated \/ Cardinality(kept) > w.limit ]

ExpandSeries(s, w) == Shown(s, w, ExpandRRule(s, w, SeekBack(s, w)))

SpanInstants(s) == EndInstant(s, s.dtstart) - Instant(s.dtstart)

\* UNTIL_FALLBACK_SLACK_MS: two hours, in ticks.
UntilSlack == PerDay \div 12

\* Where the rule ends; 0 stands for null, a rule that does not.  A COUNT
\* rule that runs out of periods before it runs out of occurrences has no
\* end either.
LastEnd(s, expanded) ==
    IF expanded.truncated \/ expanded.days = {} THEN 0
    ELSE EndInstant(s, CHOOSE d \in expanded.days : \A e \in expanded.days : e <= d)

RuleEnd(s) ==
    LET everything == [from |-> Instant(s.dtstart), to |-> Instant(s.dtstart) + 40000 * PerDay,
                       limit |-> s.rule.count, overlaps |-> FALSE]
    IN IF s.rule.until.kind # "none" THEN UntilInstant(s.rule) + SpanInstants(s) + UntilSlack
       ELSE IF s.rule.count = 0 THEN 0
       ELSE LastEnd(s, ExpandRRule(s, everything, 0))

\* series_end_at: no later than no end at all.
LatestOf(ends) == CHOOSE e \in ends : \A f \in ends : f <= e

EndOver(dates, end) == IF end = 0 THEN 0 ELSE LatestOf(dates \cup {end})

SeriesEnd(s) == EndOver({ EndInstant(s, d) : d \in s.rdates }, RuleEnd(s))

--------------------------------------------------------------------------
(* What it must compute *)

\* The period of the rule a day is in, counted from DTSTART's.
PeriodOf(rule, dtstart, day) ==
    CASE rule.freq = "DAILY" -> day - dtstart
      [] rule.freq = "WEEKLY" -> (StartOfWeek(day, rule.wkst) - StartOfWeek(dtstart, rule.wkst)) \div 7
      [] rule.freq = "MONTHLY" -> MonthIndex(day) - MonthIndex(dtstart)
      [] rule.freq = "YEARLY" -> FromDayNumber(day).year - FromDayNumber(dtstart).year

\* The rank of a day among the days of its weekday in its month, or its year,
\* from the front and from the back.
HasOrdinal(day, ordinal, first, length) ==
    IF ordinal > 0 THEN (day - first) \div 7 + 1 = ordinal
                   ELSE (first + length - 1 - day) \div 7 + 1 = -ordinal

MatchesByDay(rule, day) ==
    \E b \in rule.byDay :
       /\ DayOfWeek(day) = b.weekday
       /\ \/ b.ordinal = 0
          \/ rule.byMonthDay # {}
          \/ LET date == FromDayNumber(day)
                 yearly == rule.freq = "YEARLY" /\ rule.byMonth = {}
             IN IF yearly
                THEN HasOrdinal(day, b.ordinal, ToDayNumber(date.year, 1, 1),
                                IF IsLeapYear(date.year) THEN 366 ELSE 365)
                ELSE HasOrdinal(day, b.ordinal, day - date.day + 1,
                                DaysInMonth(date.year, date.month))

\* A day the rule's parts allow, in RFC 5545's terms: the parts it has, and
\* DTSTART's own for the ones it does not.
Fits(rule, dtstart, day) ==
    LET date == FromDayNumber(day)
        origin == FromDayNumber(dtstart)
        free == rule.byDay = {} /\ rule.byMonthDay = {}
    IN /\ PeriodOf(rule, dtstart, day) % rule.interval = 0
       /\ rule.byMonth # {} => date.month \in rule.byMonth
       /\ rule.byMonthDay # {} =>
            {date.day, date.day - DaysInMonth(date.year, date.month) - 1} \cap rule.byMonthDay # {}
       /\ rule.byDay # {} => MatchesByDay(rule, day)
       /\ free => CASE rule.freq = "DAILY" -> TRUE
                    [] rule.freq = "WEEKLY" -> DayOfWeek(day) = DayOfWeek(dtstart)
                    [] rule.freq = "MONTHLY" -> date.day = origin.day
                    [] rule.freq = "YEARLY" ->
                         /\ date.day = origin.day
                         /\ rule.byMonth = {} => date.month = origin.month

\* The days of a rule up to a day, BYSETPOS, COUNT and UNTIL included.
RuleDays(rule, dtstart, last) ==
    LET around == IF rule.bySetPos = {} THEN 0
                  ELSE [DAILY |-> 0, WEEKLY |-> 6, MONTHLY |-> 30, YEARLY |-> 365][rule.freq]
        fitting == { d \in (dtstart - around)..(last + around) : Fits(rule, dtstart, d) }
        peers(d) == LET period == PeriodOf(rule, dtstart, d)
                    IN { e \in fitting : /\ e - d \in (-around)..around
                                         /\ PeriodOf(rule, dtstart, e) = period }
        places(d) == LET all == peers(d)
                     IN { Cardinality({ e \in all : e <= d }),
                          - Cardinality({ e \in all : e >= d }) }
        placed == IF rule.bySetPos = {} THEN fitting
                  ELSE { d \in fitting : d >= dtstart /\ places(d) \cap rule.bySetPos # {} }
        timely == { d \in placed : /\ d >= dtstart
                                   /\ rule.until.kind = "date" => d <= rule.until.at
                                   /\ rule.until.kind = "utc" => Instant(d) <= rule.until.at }
    IN { d \in IF rule.count = 0 THEN timely ELSE FirstOf(timely, rule.count) : d <= last }

\* What the series shows in a window.
Truth(s, w) ==
    LET all == RuleDays(s.rule, s.dtstart, w.to \div PerDay + 2) \cup s.rdates
    IN { d \in all \ (s.exdates \cup s.overridden) : MatchesWindow(s, w, d) }

--------------------------------------------------------------------------
Dates(dtstart) == { dtstart, dtstart + 31 }

Init ==
    /\ series \in [ rule : Rules, dtstart : Starts, span : Spans,
                    rdates : {{}}, exdates : {{}}, overridden : {{}} ]
    /\ Supported(series.rule)
    /\ window = [from |-> 0, to |-> 0, limit |-> 0, overlaps |-> FALSE]
    /\ shown = Unasked

\* Dates are added, removed or edited before the window is asked.
Date(kind, day) ==
    /\ ~shown.asked
    /\ series.rdates \cup series.exdates \cup series.overridden = {}
    /\ series' = [series EXCEPT ![kind] = {day}]
    /\ UNCHANGED <<window, shown>>

Answered(answer, end) ==
    [days |-> answer.days, truncated |-> answer.truncated, end |-> end, asked |-> TRUE]

Ask(w) ==
    /\ ~shown.asked
    /\ window' = [w EXCEPT !.from = @ * PerDay, !.to = @ * PerDay]
    /\ shown' = Answered(ExpandSeries(series, window'), SeriesEnd(series))
    /\ UNCHANGED series

Next ==
    \/ \E kind \in {"rdates", "exdates", "overridden"}, day \in Dates(series.dtstart) :
          Date(kind, day)
    \/ \E w \in Windows : Ask(w)

Spec == Init /\ [][Next]_vars

--------------------------------------------------------------------------
TypeOK ==
    /\ series.dtstart \in Starts /\ series.span \in Spans /\ series.rule \in Rules
    /\ shown.truncated \in BOOLEAN /\ shown.end \in Int
    /\ \A d \in shown.days : d >= series.dtstart

\* Seeking loses nothing and invents nothing: an answer that is not cut
\* short shows every day of the series that falls in the window and no
\* other, whatever the rule, the zone's changes and the span.
WindowIsTrue ==
    shown.asked /\ ~shown.truncated => shown.days = Truth(series, window)

\* An answer cut short is the beginning of the truth: the days it leaves out
\* are later than the ones it shows -- unless dates were removed, which is
\* done after the cut.
CutIsABeginning ==
    shown.asked /\ shown.truncated =>
      /\ shown.days \subseteq Truth(series, window)
      /\ series.exdates \cup series.overridden = {} =>
           \A d \in shown.days : \A e \in Truth(series, window) \ shown.days : d < e

\* series_end_at, by which the range query finds a series at all, is no
\* earlier than the end of any occurrence in the window.
EndCoversShown ==
    shown.asked /\ shown.end # 0 =>
      \A d \in shown.days : EndInstant(series, d) <= shown.end
=============================================================================
