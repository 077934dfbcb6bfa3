----------------------------- MODULE MonthView -----------------------------
(***************************************************************************)
(* Laying a month out (apps/web/src/lib/calendar/grid.ts and               *)
(* components/calendar/month-grid.tsx): the cells, the window the grid     *)
(* asks the server for, and the lanes its bars are drawn in.               *)
(*                                                                         *)
(* A timed event is placed where its instants fall for the viewer, an      *)
(* all-day one on the dates it was written for, whatever the zones: the    *)
(* window, which is in instants, must still reach both.                    *)
(***************************************************************************)
EXTENDS CivilTime, FiniteSets, Functions

CONSTANTS
    Months,         \* [year, month, weekStart] tried
    Viewers,        \* The viewer's offset, in ticks
    Events,         \* What may be in the calendar: [allDay, start, length, offset],
                    \* the start on the wall, in ticks from the month's first day
    MaxEvents       \* Bound: events in the calendar

VARIABLES
    view,       \* [year, month, weekStart, viewer]
    events,     \* The events of the calendar, numbered by their ids
    lanes       \* week -> event -> lane, once the month is laid out

vars == <<view, events, lanes>>

Unplaced == <<>>

--------------------------------------------------------------------------
FirstOfMonth == ToDayNumber(view.year, view.month, 1)

\* The cells: whole weeks, from the week the month opens in.
Leading == (DayOfWeek(FirstOfMonth) - view.weekStart) % 7
Weeks == (Leading + DaysInMonth(view.year, view.month) + 6) \div 7
GridFirst == FirstOfMonth - Leading
GridLast == GridFirst + 7 * Weeks - 1
WeekOf(w) == (GridFirst + 7 * (w - 1))..(GridFirst + 7 * w - 1)

SlackBeforeNone == 0

\* A day of slack before, and one after the last day.
SlackBefore == 1
WindowFrom == (GridFirst - SlackBefore) * PerDay - view.viewer
WindowTo == (GridLast + 2) * PerDay - view.viewer

\* The instants of an event, and whether range's overlap test returns it.
StartWall(e) == FirstOfMonth * PerDay + e.start
StartAt(e) == StartWall(e) - e.offset
EndAt(e) == StartAt(e) + e.length
Returned(e) == StartAt(e) <= WindowTo /\ EndAt(e) > WindowFrom

\* The dates an event covers.  Its end is exclusive.
FirstDate(e) == IF e.allDay THEN StartWall(e) \div PerDay
                            ELSE (StartAt(e) + view.viewer) \div PerDay

LastDate(e) ==
    LET ends == IF e.allDay THEN StartWall(e) + e.length ELSE EndAt(e) + view.viewer
        last == IF ends % PerDay = 0 THEN ends \div PerDay - 1 ELSE ends \div PerDay
    IN IF last < FirstDate(e) THEN FirstDate(e) ELSE last

Dates(e) == FirstDate(e)..LastDate(e)

\* Drawn before: earlier, then longer, then by id.
Before(i, j) ==
    LET e == events[i]  f == events[j]
    IN \/ FirstDate(e) < FirstDate(f)
       \/ FirstDate(e) = FirstDate(f) /\ LastDate(e) > LastDate(f)
       \/ FirstDate(e) = FirstDate(f) /\ LastDate(e) = LastDate(f) /\ i < j

Shown(w) == { i \in DOMAIN events : Returned(events[i]) /\ Dates(events[i]) \cap WeekOf(w) # {} }

\* Whether two bars meet in a week.
Meet(i, j, w) == Dates(events[i]) \cap Dates(events[j]) \cap WeekOf(w) # {}

\* The first lane none of these is.
FirstFree(taken) ==
    CHOOSE n \in 0..Cardinality(taken) : n \notin taken /\ \A m \in 0..(n - 1) : m \in taken

\* The bars drawn before one of a week that are on its way.
InTheWay(i, w) == { k \in Shown(w) : Before(k, i) /\ Meet(k, i, w) }

\* The first lane no bar drawn before takes anywhere on the way.
LaneOf(w) ==
    LET lane[i \in Shown(w)] == FirstFree({ lane[j] : j \in InTheWay(i, w) })
    IN lane

--------------------------------------------------------------------------
Init ==
    /\ view \in { [year |-> m.year, month |-> m.month, weekStart |-> m.weekStart, viewer |-> v]
                  : m \in Months, v \in Viewers }
    /\ events = <<>> /\ lanes = Unplaced

Add(e) ==
    /\ lanes = Unplaced /\ Len(events) < MaxEvents
    /\ events' = Append(events, e)
    /\ UNCHANGED <<view, lanes>>

Place ==
    /\ lanes = Unplaced /\ events # <<>>
    /\ lanes' = [w \in 1..Weeks |-> LaneOf(w)]
    /\ UNCHANGED <<view, events>>

Next == (\E e \in Events : Add(e)) \/ Place

Spec == Init /\ [][Next]_vars

--------------------------------------------------------------------------
Placed(w) == IF lanes = Unplaced THEN {} ELSE DOMAIN lanes[w]

TypeOK ==
    /\ Len(events) <= MaxEvents
    /\ Weeks \in 4..6
    /\ GridFirst <= FirstOfMonth /\ FirstOfMonth + 27 <= GridLast

\* The window reaches whatever the grid would draw: an event that covers a
\* cell is returned, in whatever zone it was written and is viewed.
WindowReachesTheGrid ==
    \A i \in DOMAIN events :
      Dates(events[i]) \cap (GridFirst..GridLast) # {} => Returned(events[i])

\* Every bar is drawn in every week it covers, and no two bars of one lane
\* cover a day together.
BarsAreApart ==
    lanes # Unplaced =>
      \A w \in 1..Weeks :
        /\ \A i \in DOMAIN events : Dates(events[i]) \cap WeekOf(w) # {} => i \in Placed(w)
        /\ \A i, j \in Placed(w) :
             i # j /\ lanes[w][i] = lanes[w][j]
               => Dates(events[i]) \cap Dates(events[j]) \cap WeekOf(w) = {}

--------------------------------------------------------------------------
(* What a month view may be asked to lay out, and what stays true of it.   *)

\* No clock is a day away from UTC.
Offset == (1 - PerDay)..(PerDay - 1)

Bounds ==
    /\ PerDay \in Nat \ {0} /\ MaxEvents \in Nat
    /\ Months \subseteq [year : Int, month : 1..12, weekStart : 0..6]
    /\ Viewers \subseteq Offset
    /\ Events \subseteq [allDay : BOOLEAN, start : Int, length : Nat, offset : Offset]
    \* calendar_events_all_day_midnight: whole days, and the end is after the start.
    /\ \A e \in Events :
         e.allDay => e.start % PerDay = 0 /\ e.length % PerDay = 0 /\ e.length > 0

View == [year : Int, month : 1..12, weekStart : 0..6, viewer : Offset]

\* Once the month is laid out the calendar it was laid out for stays.
MonthInv ==
    /\ view \in View /\ events \in Seq(Events) /\ Len(events) <= MaxEvents
    /\ lanes = Unplaced \/ lanes = [w \in 1..Weeks |-> LaneOf(w)]
=============================================================================
