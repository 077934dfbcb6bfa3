----------------------------- MODULE WallTimes -----------------------------
(***************************************************************************)
(* The conversions of CivilTime asked for real: a date to and from its day *)
(* number, and the wall time a user typed to the instant that is stored    *)
(* (packages/calendar/src/civil.ts, timezone.ts, derive.ts; deriveTimes of *)
(* apps/web/src/server/actions/calendar.ts, which refuses an event whose   *)
(* ends come out in the wrong order).                                      *)
(***************************************************************************)
EXTENDS CivilTime, FiniteSets

CONSTANTS
    ZonePairs,      \* The zones of the two ends, [start, end]
    Walls,          \* The wall times tried
    Lengths         \* How long after the start the end is, on the wall

VARIABLES
    typed,      \* [wall, length, zone]: what was submitted
    derived     \* What deriveTimes made of it

vars == <<typed, derived>>

Underived == [start |-> 0, end |-> 0, verdict |-> "none"]

--------------------------------------------------------------------------
Init ==
    /\ typed \in [wall : Walls, length : Lengths, zone : ZonePairs]
    /\ derived = Underived

\* Both ends are resolved on their own, and compared as instants.
Derived(start, end, startZone, endZone) ==
    LET first == ResolveCivil(start, startZone).instant
        last == ResolveCivil(end, endZone).instant
    IN [ start |-> first, end |-> last,
         verdict |-> IF last < first THEN "refused" ELSE "stored" ]

DeriveTimes ==
    /\ derived = Underived
    /\ derived' = Derived(typed.wall, typed.wall + typed.length,
                          typed.zone.start, typed.zone.end)
    /\ UNCHANGED typed

Next == DeriveTimes

Spec == Init /\ [][Next]_vars

--------------------------------------------------------------------------
Day == typed.wall \div PerDay
Date == FromDayNumber(Day)

TypeOK ==
    /\ derived.verdict \in {"none", "refused", "stored"}
    /\ Date.month \in 1..12 /\ Date.day \in 1..DaysInMonth(Date.year, Date.month)

\* The day-number arithmetic, in its March-based years and 400-year eras, is
\* the Gregorian calendar: it inverts, and the next day is the next date.
DatesFollow ==
    LET next == FromDayNumber(Day + 1)
    IN /\ ToDayNumber(Date.year, Date.month, Date.day) = Day
       /\ \/ next = [Date EXCEPT !.day = @ + 1]
          \/ /\ Date.day = DaysInMonth(Date.year, Date.month)
             /\ next.day = 1
             /\ \/ next.month = Date.month + 1 /\ next.year = Date.year
                \/ Date.month = 12 /\ next.month = 1 /\ next.year = Date.year + 1

\* The instants whose reading in the zone is a wall time.
Readings(wall, zone) ==
    { i \in (wall - 2 * PerDay)..(wall + 2 * PerDay) : InstantToCivil(i, zone) = wall }

\* The instant stored for a wall time is one that reads as it -- the first
\* one when the clocks repeat it -- and, when the clocks skip it, one that
\* reads later by exactly what they skipped.
ReadsAsTyped ==
    LET zone == typed.zone.start
        readings == Readings(typed.wall, zone)
    IN derived # Underived =>
         IF readings # {}
         THEN derived.start \in readings /\ \A i \in readings : derived.start <= i
         ELSE LET skip == InstantToCivil(derived.start, zone) - typed.wall
              IN /\ skip > 0
                 /\ OffsetAt(derived.start, zone) - OffsetAt(derived.start - 1 - skip, zone) = skip

\* No stored event ends before it starts, however the two zones shift.
EndsInOrder == derived.verdict = "stored" => derived.start <= derived.end

--------------------------------------------------------------------------
(* What the conversions ask of their inputs, and what stays true of them.  *)

\* What the two samples of resolveCivil rely on: an offset is less than a day,
\* changes are more than two days apart, and the zone is known from two days
\* before every wall time that is asked for.
IsZone(zone) ==
    /\ zone \in Seq([at : Int, offset : (1 - PerDay)..(PerDay - 1)]) /\ zone # <<>>
    /\ \A i, j \in DOMAIN zone : i < j => zone[i].at + 2 * PerDay < zone[j].at
    /\ \A w \in Walls : zone[1].at <= w - 2 * PerDay

Bounds ==
    /\ PerDay \in Nat \ {0} /\ Walls \subseteq Int /\ Lengths \subseteq Nat
    /\ \A z \in ZonePairs : IsZone(z.start) /\ IsZone(z.end)

TimesInv ==
    /\ typed \in [wall : Walls, length : Lengths, zone : ZonePairs]
    /\ derived \in {Underived, Derived(typed.wall, typed.wall + typed.length,
                                       typed.zone.start, typed.zone.end)}
=============================================================================
