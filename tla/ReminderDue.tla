----------------------------- MODULE ReminderDue -----------------------------
(***************************************************************************)
(* How one sweep finds out what is due: three routes of queries that run   *)
(* side by side, each against whatever the calendar holds at that moment,  *)
(* with no transaction around them (packages/jobs/src/reminders/run.ts,    *)
(* runSweep and its three branches), while users move, skip and delete     *)
(* occurrences (apps/web/src/server/actions/calendar.ts).                  *)
(*                                                                         *)
(* One reminder hangs off every one-off event and every series, and fires  *)
(* when an occurrence starts.  An occurrence is named by its event and its *)
(* slot: the instant the rule puts it at, whatever an override makes of it. *)
(***************************************************************************)
EXTENDS Integers, FiniteSets, FiniteSetsExt

CONSTANTS
  OneOff,       \* non-recurring events
  Series,       \* recurring masters
  Slot,         \* instants a rule generates
  Instant,      \* instants an event can start at
  Grace,        \* GRACE_MINUTES
  Cap,          \* MAX_DELIVERIES_PER_SWEEP
  MaxNow,       \* bound: the last instant of the clock
  MaxEdits,     \* bound: edits of the calendar
  MaxPassed,    \* bound: how far passed counts
  None          \* no start: deleted, or no override

\* What the constants are meant to be.
ConstantsAssumption ==
  /\ Instant \subseteq Nat /\ Slot \subseteq Instant
  /\ {Grace, Cap, MaxNow, MaxEdits, MaxPassed} \subseteq Nat
  /\ None \notin Instant /\ OneOff \cap Series = {}

Query == {"oneOff", "override", "master", "dates", "overridden"}

\* What a route reports: an occurrence, and the instant it is said to start at.
Occurrence == [event : OneOff \union Series, slot : Slot \union {None}, start : Instant]

VARIABLES
  now,          \* Postgres's clock
  startOf,      \* startOf[e]: where a one-off event is, None once deleted
  live,         \* live[s]: the master of s has no deleted_at
  exdates,      \* exdates[s]: slots with an EXDATE row
  override,     \* override[s][t]: start of the override row of slot t, or None
  claimed,      \* <<event, start>> pairs in the delivery ledger
  at,           \* the clock value the sweep runs with, None between sweeps
  todo,         \* queries of the sweep that have not answered
  found,        \* found[q]: what query q answered
  \* History.
  edits,
  stable,       \* occurrences live, as they are, since the sweep began
  seen,         \* occurrences live at some instant of the sweep
  passed        \* passed[o]: sweeps that ended with o due and unclaimed

calendar == <<startOf, live, exdates, override>>
vars == <<now, calendar, claimed, at, todo, found, edits, stable, seen, passed>>

-------------------------------------------------------------------------------
Starting(e, t, i) == [event |-> e, slot |-> t, start |-> i]

OneOffRows == {Starting(e, None, startOf[e]) : e \in {x \in OneOff : startOf[x] # None}}

\* The override rows of live series; deleting a master deletes its overrides.
OverrideRows ==
  {Starting(p[1], p[2], override[p[1]][p[2]]) :
     p \in {x \in Series \X Slot : live[x[1]] /\ override[x[1]][x[2]] # None}}

RuleSlots ==
  {Starting(p[1], p[2], p[2]) :
     p \in {x \in Series \X Slot :
              live[x[1]] /\ override[x[1]][x[2]] = None /\ x[2] \notin exdates[x[1]]}}

\* What the calendar shows a reader who sees it all at one instant.
OnTheCalendar == OneOffRows \union OverrideRows \union RuleSlots

InWindow(o, t) == t - Grace < o.start /\ o.start <= t

Init ==
  /\ now = 0
  /\ startOf \in [OneOff -> Instant]
  /\ live = [s \in Series |-> TRUE]
  /\ exdates = [s \in Series |-> {}]
  /\ override = [s \in Series |-> [t \in Slot |-> None]]
  /\ claimed = {} /\ at = None /\ todo = {}
  /\ found = [q \in Query |-> {}]
  /\ edits = 0 /\ stable = {} /\ seen = {}
  /\ passed = [e \in OneOff \union Series |-> 0]

-------------------------------------------------------------------------------
\* Edits of the calendar, each one committed transaction.

\* Slot t of event e has been edited.
Edited(e, t) ==
  /\ edits < MaxEdits /\ edits' = edits + 1
  /\ stable' = {o \in stable \cap OnTheCalendar' : ~(o.event = e /\ o.slot = t)}
  /\ seen' = IF at = None THEN seen ELSE seen \union OnTheCalendar'
  /\ UNCHANGED <<now, claimed, at, todo, found, passed>>

\* updateWholeEvent, softDeleteEvent on a one-off event.
MoveOneOff(e, i) ==
  /\ startOf[e] # None /\ i # startOf[e]
  /\ startOf' = [startOf EXCEPT ![e] = i]
  /\ UNCHANGED <<live, exdates, override>>
  /\ Edited(e, None)

\* updateOccurrence: upsert the override row of a slot the rule still has.
MoveOccurrence(s, t, i) ==
  /\ live[s] /\ t \notin exdates[s] /\ override[s][t] # i
  /\ override' = [override EXCEPT ![s][t] = i]
  /\ UNCHANGED <<startOf, live, exdates>>
  /\ Edited(s, t)

\* skipOccurrence: insert the EXDATE, delete the override row.
SkipOccurrence(s, t) ==
  /\ live[s] /\ t \notin exdates[s]
  /\ exdates' = [exdates EXCEPT ![s] = @ \union {t}]
  /\ override' = [override EXCEPT ![s][t] = None]
  /\ UNCHANGED <<startOf, live>>
  /\ Edited(s, t)

\* softDeleteEvent on a master: it and its overrides get their deleted_at.
DeleteSeries(s) ==
  /\ live[s]
  /\ live' = [live EXCEPT ![s] = FALSE]
  /\ UNCHANGED <<startOf, exdates, override>>
  /\ Edited(s, None)

Tick ==
  /\ now < MaxNow /\ at = None
  /\ now' = now + 1
  /\ UNCHANGED <<calendar, claimed, at, todo, found, edits, stable, seen, passed>>

-------------------------------------------------------------------------------
\* The sweep.

BeginSweep ==
  /\ at = None
  /\ at' = now
  /\ todo' = Query
  /\ found' = [q \in Query |-> {}]
  /\ stable' = OnTheCalendar /\ seen' = OnTheCalendar
  /\ UNCHANGED <<now, calendar, claimed, edits, passed>>

\* LIMIT without ORDER BY: any Cap of the rows when there are more.
Limited(rows) == kSubset(Min({Cap, Cardinality(rows)}), rows)

Answered(q, answer) ==
  /\ found' = [found EXCEPT ![q] = answer]
  /\ todo' = todo \ {q}
  /\ UNCHANGED <<now, calendar, claimed, at, edits, stable, seen, passed>>

\* Branch A: rrule IS NULL AND deleted_at IS NULL, firing in the window.
ConcreteDue ==
  /\ "oneOff" \in todo
  /\ \E answer \in Limited({o \in OneOffRows : InWindow(o, at)}) :
       Answered("oneOff", answer)

\* Variation: the join is on the override's own id, which has no reminder.
OverrideJoinedById == "override" \in todo /\ Answered("override", {})

\* Branch B: live override rows, joined to the reminder of their parent.
OverrideDue ==
  /\ "override" \in todo
  /\ \E answer \in Limited({o \in OverrideRows : InWindow(o, at)}) :
       Answered("override", answer)

\* Branch C, first query: live masters, limited before any occurrence is known.
RecurringMasters ==
  /\ "master" \in todo
  /\ \E answer \in Limited({s \in Series : live[s]}) : Answered("master", answer)

\* Branch C, second and third queries, together, once the masters are known:
\* their EXDATE rows, and the slots that have an override row (deleted or not).
RecurrenceDates ==
  /\ "dates" \in todo /\ "master" \notin todo
  /\ Answered("dates", {p \in found["master"] \X Slot : p[2] \in exdates[p[1]]})

OverriddenSlots ==
  /\ "overridden" \in todo /\ "master" \notin todo
  /\ Answered("overridden", {p \in found["master"] \X Slot : override[p[1]][p[2]] # None})

\* dueOccurrences: the rule's slots, minus EXDATEs and overridden ones.
Expanded ==
  {o \in {Starting(p[1], p[2], p[2]) :
            p \in (found["master"] \X Slot) \ (found["dates"] \union found["overridden"])} :
     InWindow(o, at)}

Found == found["oneOff"] \union found["override"] \union Expanded

\* The three batches one after the other, cut after Cap: a batch is reached only
\* when the ones before it fit.
Batches ==
  ({1} \X found["oneOff"]) \union ({2} \X found["override"]) \union ({3} \X Expanded)

Sliced ==
  {due \in Limited(Batches) :
     \A x \in due, y \in Batches : y[1] < x[1] => y \in due}

Row(o) == <<o.event, o.start>>

\* All queries have answered: claim and dispatch what is due, one after another.
ClaimAll ==
  /\ at # None /\ todo = {}
  /\ \E due \in Sliced : claimed' = claimed \union {Row(x[2]) : x \in due}
  /\ passed' = [e \in DOMAIN passed |->
                  IF \E o \in stable : o.event = e /\ InWindow(o, at) /\ Row(o) \notin claimed'
                  THEN Min({passed[e] + 1, MaxPassed}) ELSE passed[e]]
  /\ at' = None /\ found' = [q \in Query |-> {}]
  /\ stable' = {} /\ seen' = {}
  /\ UNCHANGED <<now, calendar, todo, edits>>

Read == ConcreteDue \/ OverrideDue \/ RecurringMasters \/ RecurrenceDates \/ OverriddenSlots

Edit ==
  \/ \E e \in OneOff : \E i \in Instant \union {None} : MoveOneOff(e, i)
  \/ \E s \in Series, t \in Slot : \/ \E i \in Instant : MoveOccurrence(s, t, i)
                                   \/ SkipOccurrence(s, t)
  \/ \E s \in Series : DeleteSeries(s)

Next == Tick \/ Edit \/ BeginSweep \/ Read \/ ClaimAll

Spec == Init /\ [][Next]_vars

-------------------------------------------------------------------------------
\* Properties

AllRead == at # None /\ todo = {}

\* Types of the variables that are not plain counters.
TypeOK ==
  /\ startOf \in [OneOff -> Instant \union {None}]
  /\ live \in [Series -> BOOLEAN]
  /\ exdates \in [Series -> SUBSET Slot]
  /\ override \in [Series -> [Slot -> Instant \union {None}]]
  /\ at \in 0..MaxNow \union {None}
  /\ todo \subseteq Query
  /\ stable \union seen \subseteq Occurrence

\* An occurrence that is due when the sweep starts, and that nobody touches while
\* the three routes are read, is found by one of them, whatever else is edited
\* meanwhile (fewer than Cap of everything: BacklogDrains is about more).
UntouchedIsFound ==
  AllRead /\ Cardinality(OneOff) + Cardinality(Series) * Cardinality(Slot) <= Cap
    => \A o \in stable : InWindow(o, at) => o \in Found

\* When nothing is edited during the reads, the routes together find exactly the
\* due occurrences, each by one route: the suppression of overridden slots by
\* branch C meets the concrete rows of branch B without overlap or gap.
QuietReadIsExact ==
  AllRead /\ stable = seen
    /\ Cardinality(OneOff) + Cardinality(Series) * Cardinality(Slot) <= Cap
    => /\ Found = {o \in OnTheCalendar : InWindow(o, at)}
       /\ found["override"] \cap Expanded = {}

\* Branch C takes from the expansion "the occurrences B already owns"
\* (run.ts:36), so one meeting is found once.
OncePerMeeting ==
  AllRead => \A o, p \in Found :
    o.slot # None /\ o.slot = p.slot /\ o.event = p.event => o = p

\* A worker that was down for less than the grace window "catches up on the next
\* tick" (sweep.ts:16): a backlog of n occurrences drains at Cap per sweep.
BacklogDrains ==
  \A e \in DOMAIN passed :
    passed[e] * Cap < Cardinality(OneOff) + Cardinality(Series) * Cardinality(Slot)
-------------------------------------------------------------------------------
(* What holds of any number of events, series, slots and edits.                *)

\* What the theorems ask of the constants.
Bounds ==
  /\ ConstantsAssumption /\ None \notin Nat
  /\ IsFiniteSet(OneOff) /\ IsFiniteSet(Series) /\ IsFiniteSet(Slot)

RoutesAreTyped ==
  /\ now \in 0 .. MaxNow /\ DOMAIN found = Query /\ found["master"] \subseteq Series
  /\ DOMAIN passed = OneOff \union Series

\* A sweep sees the calendar it began with, less what was touched, or more.
SweepIsBracketed ==
  /\ at = None => todo = {}
  /\ at # None => stable \subseteq OnTheCalendar \cap seen /\ OnTheCalendar \subseteq seen
  /\ "master" \in todo => {"dates", "overridden"} \subseteq todo

\* No query of a sweep has more rows than it may return.
FitsTheCap == Cardinality(OneOff) + Cardinality(Series) * Cardinality(Slot) <= Cap

\* What nobody has touched has been found by its route, once that route has answered.
UntouchedIsRead ==
  FitsTheCap /\ at # None =>
    /\ "oneOff" \notin todo =>
         \A o \in stable \cap OneOffRows : InWindow(o, at) => o \in found["oneOff"]
    /\ "override" \notin todo =>
         \A o \in stable \cap OverrideRows : InWindow(o, at) => o \in found["override"]
    /\ "master" \notin todo => \A o \in stable \cap RuleSlots : o.event \in found["master"]
    /\ "dates" \notin todo =>
         \A o \in stable \cap RuleSlots : <<o.event, o.slot>> \notin found["dates"]
    /\ "overridden" \notin todo =>
         \A o \in stable \cap RuleSlots : <<o.event, o.slot>> \notin found["overridden"]

\* While nothing the sweep could see is touched, a route finds what is there only.
QuietIsTrue ==
  at # None /\ stable = seen =>
    /\ "oneOff" \notin todo => found["oneOff"] \subseteq {o \in OneOffRows : InWindow(o, at)}
    /\ "override" \notin todo =>
         found["override"] \subseteq {o \in OverrideRows : InWindow(o, at)}
    /\ "master" \notin todo =>
         \A s \in found["master"] : live[s] \/ \A t \in Slot : t \in exdates[s]
    /\ "dates" \notin todo =>
         \A s \in found["master"], t \in Slot : t \in exdates[s] => <<s, t>> \in found["dates"]
    /\ "overridden" \notin todo =>
         \A s \in found["master"], t \in Slot :
           override[s][t] # None => <<s, t>> \in found["overridden"]

SweepInv ==
  TypeOK /\ RoutesAreTyped /\ SweepIsBracketed /\ UntouchedIsRead /\ QuietIsTrue
===============================================================================
