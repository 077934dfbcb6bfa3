---------------------------- MODULE MCCalendarApp ----------------------------
(* The components of the calendar application around the series writes, each *)
(* checked on an instance of its own: a behaviour of this module is a behaviour*)
(* of one of them, chosen at the start.  They share no state here: a name two*)
(* components have in common stands for the one's that was chosen.           *)
EXTENDS Integers, FiniteSets, Sequences, TLAPS, FiniteSetTheorems, FunctionTheorems,
        WellFoundedInduction

CONSTANTS
  None,
  Invitee, Hour, First, MaxSaves, MaxAnswers, MaxDrops,   \* of Guests
  Save,                                                 \* of Guests and Calendars
  Calendar, Org,                                        \* of Calendars
  User, Owner, Address, MaxMoves,                       \* of CalendarAccess
  Attendee, Tab, Grace, CookieLife, MaxNow,             \* of RsvpLinks
  Title, Rule, LastSlot, MaxSends,                      \* of EventComposer
  PerDay, MaxSpan, MaxOffset, MaxGuests,                \* of EventRows
  GridMonths, GridViewers, GridEvents, MaxGridEvents, GridDay,   \* of MonthView
  TimeZones, WallReadings, WallLengths, WallTicks       \* of WallTimes

VARIABLES
  which,   \* the component this behaviour is a behaviour of
  event, rows, saves, answers, drops, answer, skipped,  \* of more than one
  calls, checking, mails, held, clock, raced,
  cal, orgs, cleared, refusedOrg,
  email, verified, page, moves, proved, answered,
  now, ends, links, jar, tab, reaskAt, cancelled, meant,
  series, edited, cache, composer, requests, sent, month,
  overrides, guests, reminders, asked,
  view, events, lanes,
  typed, derived

\* What only one component has.
guestVars == <<calls, checking, mails, held, clock, raced>>
calendarVars == <<cal, orgs, cleared, refusedOrg>>
accessVars == <<email, verified, page, moves, proved, answered>>
linkVars == <<now, ends, links, jar, tab, reaskAt, cancelled, meant>>
composerVars == <<series, edited, cache, composer, requests, sent, month>>
rowVars == <<overrides, guests, reminders, asked>>
gridVars == <<view, events, lanes>>
timeVars == <<typed, derived>>

vars == <<which, event, rows, saves, answers, drops, answer, skipped, guestVars, calendarVars,
          accessVars, linkVars, composerVars, rowVars, gridVars, timeVars>>

\* The months painted in the run: a February that starts the week, one of 29 days, and
\* one whose first week is mostly another month's.
FewMonths ==
  {[year |-> 2024, month |-> 2, weekStart |-> 1], [year |-> 2023, month |-> 10, weekStart |-> 0],
   [year |-> 2026, month |-> 2, weekStart |-> 0]}

\* Viewers at both ends of the world's offsets.
FewViewers == {-11, 0, 14}

\* Events by their first hour in the month, length and zone: a day at the far edge of each
\* zone, days across the month's ends, an hour before and over midnight, a long stay.
GridEvent(allDay, start, length, offset) ==
  [allDay |-> allDay, start |-> start, length |-> length, offset |-> offset]
FewEvents ==
  {GridEvent(TRUE, 0, 24, 14), GridEvent(TRUE, -144, 24, 14), GridEvent(TRUE, -24, 72, -11),
   GridEvent(TRUE, 31 * 24, 48, -11), GridEvent(FALSE, 24, 3, 0), GridEvent(FALSE, 22, 8, 0),
   GridEvent(FALSE, 140, 200, -5), GridEvent(TRUE, 34 * 24, 24, -12),
   GridEvent(FALSE, 40 * 24 - 2, 2, 0)}

\* UTC, New York's summer, Lord Howe's half hour, and the day Apia left out.
UTC == << [at |-> -100000000, offset |-> 0] >>
NewYork == << [at |-> -100000000, offset |-> -10], [at |-> 100, offset |-> -8],
              [at |-> 400, offset |-> -10] >>
LordHowe == << [at |-> -100000000, offset |-> 21], [at |-> 100, offset |-> 22],
               [at |-> 400, offset |-> 21] >>
Apia == << [at |-> -100000000, offset |-> -20], [at |-> 200, offset |-> 28] >>

\* The zones of an event's ends.
FewZones ==
  {[start |-> UTC, end |-> UTC], [start |-> NewYork, end |-> NewYork],
   [start |-> NewYork, end |-> UTC], [start |-> LordHowe, end |-> LordHowe],
   [start |-> Apia, end |-> NewYork]}

\* Half-hour readings around every change of these, and at the ends of time.
FewReadings ==
  (60..160) \cup (170..240) \cup (370..450)
  \cup { d * 48 : d \in (-25568..-25500) \cup (-720000..-719400)
                        \cup (10940..11060) \cup (47480..47560) }

\* The guests of an event, overlapping saves, answers and dropped enqueues.
G == INSTANCE Guests WITH Guest <- Invitee, Slot <- Hour

\* The calendars of one owner, personal and in organizations, saved at once.
C == INSTANCE Calendars

\* Accounts over shared addresses, some of which move house.
A == INSTANCE CalendarAccess

\* Guests without an account and the tabs of one browser.
L == INSTANCE RsvpLinks

\* A series, what its composer shows and the requests it sends.
E == INSTANCE EventComposer WITH Unset <- None

\* One event as it is submitted, saved, answered and deleted.
R == INSTANCE EventRows

\* A month, as a viewer sees the events of a calendar in it.
V == INSTANCE MonthView WITH
  Months <- GridMonths, Viewers <- GridViewers, Events <- GridEvents,
  MaxEvents <- MaxGridEvents, PerDay <- GridDay

\* Times of the wall as a user types them, and the dates under them.
W == INSTANCE WallTimes WITH
  ZonePairs <- TimeZones, Walls <- WallReadings, Lengths <- WallLengths, PerDay <- WallTicks

\* What the components ask of the constants.
ASSUME ConstantsAssumption ==
  /\ G!Bounds /\ C!Bounds /\ A!Bounds /\ L!Bounds /\ E!Bounds /\ R!Bounds
  /\ V!Bounds /\ W!Bounds

\* The variables a component does not have stay as they began.
NoGuests == calls = 0 /\ checking = 0 /\ mails = 0 /\ held = 0 /\ clock = 0 /\ raced = 0
NoCalendars == cal = 0 /\ orgs = 0 /\ cleared = 0 /\ refusedOrg = 0
NoAccess == email = 0 /\ verified = 0 /\ page = 0 /\ moves = 0 /\ proved = 0 /\ answered = 0
NoLinks == /\ now = 0 /\ ends = 0 /\ links = 0 /\ jar = 0 /\ tab = 0
           /\ reaskAt = 0 /\ cancelled = 0 /\ meant = 0
NoComposer == /\ series = 0 /\ edited = 0 /\ cache = 0 /\ composer = 0
              /\ requests = 0 /\ sent = 0 /\ month = 0
NoRows == overrides = 0 /\ guests = 0 /\ reminders = 0 /\ asked = 0
NoGrid == view = 0 /\ events = 0 /\ lanes = 0
NoTimes == typed = 0 /\ derived = 0

Init ==
  \/ /\ which = "Guests" /\ G!Init
     /\ NoCalendars /\ NoAccess /\ NoLinks /\ NoComposer /\ NoRows /\ NoGrid /\ NoTimes
     /\ answer = 0 /\ skipped = 0
  \/ /\ which = "Calendars" /\ C!Init
     /\ NoGuests /\ NoAccess /\ NoLinks /\ NoComposer /\ NoRows /\ NoGrid /\ NoTimes /\ event = 0
     /\ rows = 0 /\ answers = 0 /\ drops = 0 /\ answer = 0 /\ skipped = 0
  \/ /\ which = "CalendarAccess" /\ A!Init
     /\ NoGuests /\ NoCalendars /\ NoLinks /\ NoComposer /\ NoRows /\ NoGrid /\ NoTimes
     /\ saves = 0 /\ answers = 0 /\ drops = 0 /\ answer = 0 /\ skipped = 0
  \/ /\ which = "RsvpLinks" /\ L!Init
     /\ NoGuests /\ NoCalendars /\ NoAccess /\ NoComposer /\ NoRows /\ NoGrid /\ NoTimes
     /\ event = 0 /\ rows = 0 /\ saves = 0 /\ answers = 0 /\ drops = 0 /\ skipped = 0
  \/ /\ which = "EventComposer" /\ E!Init
     /\ NoGuests /\ NoCalendars /\ NoAccess /\ NoLinks /\ NoRows /\ NoGrid /\ NoTimes /\ event = 0
     /\ rows = 0 /\ saves = 0 /\ answer = 0
  \/ /\ which = "EventRows" /\ R!Init
     /\ NoGuests /\ NoCalendars /\ NoAccess /\ NoLinks /\ NoComposer /\ NoGrid /\ NoTimes
     /\ rows = 0 /\ saves = 0 /\ answers = 0 /\ drops = 0
  \/ /\ which = "MonthView" /\ V!Init
     /\ NoGuests /\ NoCalendars /\ NoAccess /\ NoLinks /\ NoComposer /\ NoRows /\ NoTimes
     /\ event = 0 /\ rows = 0 /\ saves = 0 /\ answers = 0 /\ drops = 0 /\ answer = 0
     /\ skipped = 0
  \/ /\ which = "WallTimes" /\ W!Init
     /\ NoGuests /\ NoCalendars /\ NoAccess /\ NoLinks /\ NoComposer /\ NoRows /\ NoGrid
     /\ event = 0 /\ rows = 0 /\ saves = 0 /\ answers = 0 /\ drops = 0 /\ answer = 0
     /\ skipped = 0

Next ==
  \/ /\ which = "Guests" /\ G!Next
     /\ UNCHANGED <<which, answer, skipped, calendarVars, accessVars, linkVars,
                    composerVars, rowVars, gridVars, timeVars>>
  \/ /\ which = "Calendars" /\ C!Next
     /\ UNCHANGED <<which, event, rows, answers, drops, answer, skipped, guestVars,
                    accessVars, linkVars, composerVars, rowVars, gridVars, timeVars>>
  \/ /\ which = "CalendarAccess" /\ A!Next
     /\ UNCHANGED <<which, saves, answers, drops, answer, skipped, guestVars, calendarVars,
                    linkVars, composerVars, rowVars, gridVars, timeVars>>
  \/ /\ which = "RsvpLinks" /\ L!Next
     /\ UNCHANGED <<which, event, rows, saves, answers, drops, skipped, guestVars,
                    calendarVars, accessVars, composerVars, rowVars, gridVars, timeVars>>
  \/ /\ which = "EventComposer" /\ E!Next
     /\ UNCHANGED <<which, event, rows, saves, answer, guestVars, calendarVars, accessVars,
                    linkVars, rowVars, gridVars, timeVars>>
  \/ /\ which = "EventRows" /\ R!Next
     /\ UNCHANGED <<which, rows, saves, answers, drops, guestVars, calendarVars,
                    accessVars, linkVars, composerVars, gridVars, timeVars>>
  \/ /\ which = "MonthView" /\ V!Next
     /\ UNCHANGED <<which, event, rows, saves, answers, drops, answer, skipped, guestVars,
                    calendarVars, accessVars, linkVars, composerVars, rowVars, timeVars>>
  \/ /\ which = "WallTimes" /\ W!Next
     /\ UNCHANGED <<which, event, rows, saves, answers, drops, answer, skipped, guestVars,
                    calendarVars, accessVars, linkVars, composerVars, rowVars, gridVars>>

Spec == Init /\ [][Next]_vars

------------------------------------------------------------------------------

\* A user's calendars always have exactly the primary one the index allows, and whom an
\* attendee row lets in is settled by proof of its address: no claim without a verified
\* address, none lost by moving house, and what is listed for a person they can answer.
CalendarsHold ==
  /\ which = "Calendars" =>
       /\ C!TypeOK
       /\ C!OnePrimaryKept
  /\ which = "CalendarAccess" =>
       /\ A!TypeOK
       /\ A!StampsAreProved
       /\ A!AnsweredStaysMine
       /\ A!ListedCanAnswer

\* An answer is stale exactly when the event moved after it was given, and once all mails
\* are in every guest's calendar holds the event where it is, or its cancellation.  An RSVP
\* link answers for the guest it names, in whatever tab and after whatever other link of the
\* same browser, and the link of a series still running keeps working.
GuestsHold ==
  /\ which = "Guests" =>
       /\ G!TypeOK
       /\ G!StaleIsKnown
       /\ G!CalendarsAgree
  /\ which = "RsvpLinks" =>
       /\ L!TypeOK
       /\ L!AnswerIsForTheNamed
       /\ L!OpenSeriesStaysAnswerable

\* A save never rewrites what it keeps: the answer of a guest still listed, the delivery
\* ledger of a reminder still listed, and, when it is about one occurrence, the series.
SavesSpareWhatTheyKeep ==
  [][/\ which = "Guests" =>
          /\ G!AnswersSurviveSavesStep
     /\ which = "EventRows" =>
          /\ R!OneMeansOneStep
          /\ R!KeptRowsKeepTheirPastStep]_vars

\* What the composer sends is well formed, and warned about whenever it would drop edited
\* occurrences of a series whose rule and start are those the composer compared with; what
\* the action accepts no table constraint refuses.
RequestsHold ==
  /\ which = "EventComposer" =>
       /\ E!TypeOK
       /\ E!RequestsAreWellFormed
       /\ E!WarnedFromTheFirst
  /\ which = "EventRows" =>
       /\ R!TypeOK
       /\ R!ChecksAreNeverFirst
       /\ R!FailuresAreKnown
       /\ R!SavedAsSubmitted

\* The month asked for covers the grid that is painted, for viewers at every offset, and
\* no two bars of one lane meet.
MonthHolds ==
  which = "MonthView" =>
    /\ V!TypeOK
    /\ V!WindowReachesTheGrid
    /\ V!BarsAreApart

\* A day number and a date are each other's, before 1970 and across leap years; a wall
\* reading resolved to an instant reads as it was typed wherever the zone has that reading,
\* and an event whose ends are in order in their zones ends no earlier than it starts.
WallTimesHold ==
  which = "WallTimes" =>
    /\ W!TypeOK
    /\ W!DatesFollow
    /\ W!ReadsAsTyped
    /\ W!EndsInOrder

------------------------------------------------------------------------------
\* The components count with the FiniteSets this module has.
LEMMA SameCounting ==
  ASSUME NEW S
  PROVE  /\ G!IsFiniteSet(S) <=> IsFiniteSet(S)
         /\ G!Cardinality(S) = Cardinality(S) /\ C!Cardinality(S) = Cardinality(S)
         /\ R!Cardinality(S) = Cardinality(S)
<1>1. G!IsFiniteSet(S) <=> IsFiniteSet(S)
  BY DEF G!IsFiniteSet, IsFiniteSet
<1>2. G!Cardinality(S) = Cardinality(S)
  BY DEF G!Cardinality, Cardinality
<1>3. C!Cardinality(S) = Cardinality(S)
  BY DEF C!Cardinality, Cardinality
<1>4. R!Cardinality(S) = Cardinality(S)
  BY DEF R!Cardinality, Cardinality
<1> QED BY <1>1, <1>2, <1>3, <1>4

\* The calendars of one owner (Calendars), saved at once.

\* What a commit writes, when the row of an update is still there: the saved
\* row in its workspace and, if it is primary, every other one demoted.
LEMMA CommitWrites ==
  ASSUME C!Bounds, C!CalendarsInv, NEW s \in Save, C!Commit(s)
  PROVE  /\ saves[s] \in C!Demoting /\ saves[s].cal \in Calendar
         /\ C!Home(s) \in orgs \cup {None}
         /\ saves[s].demoted # {} => C!Home(s) = saves[s].org /\ saves[s].primary
         /\ cal[saves[s].cal] # None => cal[saves[s].cal].org = C!Home(s)
         /\ cal' \in [Calendar -> [org : C!Workspace, primary : BOOLEAN] \cup {None}]
         /\ cal'[saves[s].cal] = [org |-> C!Home(s), primary |-> saves[s].primary]
         /\ \A c \in saves[s].demoted :
              cal[c] # None /\ cal'[c] = [org |-> C!Home(s), primary |-> FALSE]
         /\ \A c \in Calendar : c \notin saves[s].demoted \cup {saves[s].cal} => cal'[c] = cal[c]
<1> USE DEF C!CalendarsInv, C!Bounds
<1>1. saves[s] \in C!Demoting /\ saves[s].at = "demoted"
  BY DEF C!Commit, C!SavesAreTyped, C!Idle, C!Request, C!Demoting
<1>2. saves[s].cal \in Calendar /\ saves[s].demoted \subseteq Calendar
      /\ saves[s].op \in {"create", "update"} /\ saves[s].primary \in BOOLEAN
      /\ saves[s].org \in C!Workspace
  BY <1>1 DEF C!Demoting
<1>3. \A d \in saves[s].demoted :
        saves[s].primary /\ d \in C!Live /\ cal[d].org = saves[s].org /\ cal[d].primary
        /\ d # saves[s].cal
  BY <1>1 DEF C!DemotedAreHeld, C!PrimaryOf
<1>4. \A c \in C!Live : cal[c] \in [org : C!Workspace, primary : BOOLEAN]
  BY DEF C!Live, C!TypeOK
<1>5. CASE saves[s].op = "create"
  <2>1. cal[saves[s].cal] = None
    BY <1>1, <1>5 DEF C!CreatesAreAlone, C!Busy
  <2>2. C!Home(s) = saves[s].org /\ C!Home(s) \in orgs \cup {None}
    BY <1>5 DEF C!Home, C!Commit
  <2>3. C!Home(s) \in C!Workspace
    BY <2>2 DEF C!TypeOK, C!Workspace
  <2>4. saves[s].cal \notin C!Live
    BY <2>1 DEF C!Live
  <2>5. cal' = C!Written(s)
    BY DEF C!Commit
  <2>6. cal'[saves[s].cal] = [org |-> C!Home(s), primary |-> saves[s].primary]
    BY <1>2, <2>5 DEF C!Written
  <2>7. \A c \in saves[s].demoted :
          cal[c] # None /\ cal'[c] = [org |-> C!Home(s), primary |-> FALSE]
    BY <1>2, <1>3, <1>4, <2>2, <2>5 DEF C!Written, C!Live
  <2>8. \A c \in Calendar : c \notin saves[s].demoted \cup {saves[s].cal} => cal'[c] = cal[c]
    BY <2>5 DEF C!Written
  <2>9. cal' \in [Calendar -> [org : C!Workspace, primary : BOOLEAN] \cup {None}]
    <3>1. \A c \in Calendar : cal'[c] \in [org : C!Workspace, primary : BOOLEAN] \cup {None}
      <4>1. cal'[saves[s].cal] \in [org : C!Workspace, primary : BOOLEAN]
        BY <1>2, <2>3, <2>6
      <4>2. \A c \in saves[s].demoted : cal'[c] \in [org : C!Workspace, primary : BOOLEAN]
        <5>1. [org |-> C!Home(s), primary |-> FALSE] \in [org : C!Workspace, primary : BOOLEAN]
          BY <2>3
        <5> QED BY <2>7, <5>1, Zenon
      <4> QED BY <2>8, <4>1, <4>2 DEF C!TypeOK
    <3> QED BY <2>5, <3>1 DEF C!Written
  <2> QED BY <1>1, <1>2, <1>3, <2>1, <2>2, <2>6, <2>7, <2>8, <2>9
<1>6. CASE saves[s].op = "update"
  <2>1. saves[s].cal \in C!Live /\ C!Home(s) = cal[saves[s].cal].org
    BY <1>6 DEF C!Commit, C!Home
  <2>2. C!Home(s) \in orgs \cup {None} /\ C!Home(s) \in C!Workspace
    BY <2>1, <1>4 DEF C!HomesExist
  <2>3. saves[s].demoted # {} => C!Home(s) = saves[s].org
    <3>1. ASSUME NEW d \in saves[s].demoted PROVE saves[s].org \in orgs \cup {None}
      BY <1>3 DEF C!HomesExist
    <3>2. C!Home(s) = saves[s].org \/ saves[s].org \notin orgs \cup {None}
      BY <1>1, <1>6, <2>1 DEF C!UpdatesKnowTheirHome, C!Busy
    <3> QED BY <3>1, <3>2
  <2>4. cal' = C!Written(s)
    BY DEF C!Commit
  <2>5. cal'[saves[s].cal] = [org |-> C!Home(s), primary |-> saves[s].primary]
    BY <1>2, <2>4 DEF C!Written
  <2>6. \A c \in saves[s].demoted :
          cal[c] # None /\ cal'[c] = [org |-> C!Home(s), primary |-> FALSE]
    BY <1>2, <1>3, <1>4, <2>3, <2>4 DEF C!Written, C!Live
  <2>7. \A c \in Calendar : c \notin saves[s].demoted \cup {saves[s].cal} => cal'[c] = cal[c]
    BY <2>4 DEF C!Written
  <2>8. cal' \in [Calendar -> [org : C!Workspace, primary : BOOLEAN] \cup {None}]
    <3>1. [org |-> C!Home(s), primary |-> saves[s].primary]
             \in [org : C!Workspace, primary : BOOLEAN]
      BY <1>2, <2>2
    <3>2. [org |-> C!Home(s), primary |-> FALSE] \in [org : C!Workspace, primary : BOOLEAN]
      BY <2>2
    <3>3. \A c \in Calendar : cal'[c] \in [org : C!Workspace, primary : BOOLEAN] \cup {None}
      BY <2>5, <2>6, <2>7, <3>1, <3>2, Zenon DEF C!TypeOK
    <3> QED BY <2>4, <3>3 DEF C!Written
  <2> QED BY <1>1, <1>2, <1>3, <2>1, <2>2, <2>3, <2>5, <2>6, <2>7, <2>8
<1> QED BY <1>2, <1>5, <1>6

\* No save and no demotion waits on what a commit writes.
LEMMA CommitSpares ==
  ASSUME C!Bounds, C!CalendarsInv, NEW s \in Save, C!Commit(s), NEW t \in Save, t # s
  PROVE  /\ saves'[t] = saves[t]
         /\ saves[t].at = "demoted" => \A d \in saves[t].demoted : cal'[d] = cal[d]
<1> USE DEF C!CalendarsInv
<1>1. saves'[t] = saves[t]
  BY DEF C!Commit, C!SavesAreTyped
<1>2. ASSUME saves[t].at = "demoted", NEW d \in saves[t].demoted PROVE cal'[d] = cal[d]
  <2>1. d # saves[s].cal
    BY <1>2 DEF C!Commit, C!Locked
  <2>2. d \notin saves[s].demoted
    BY <1>2 DEF C!Commit, C!DemotedAreHeld
  <2>3. d \in Calendar
    BY <1>2 DEF C!DemotedAreHeld, C!PrimaryOf, C!Live
  <2> QED BY <2>1, <2>2, <2>3, CommitWrites
<1> QED BY <1>1, <1>2

LEMMA CommitStep ==
  ASSUME C!Bounds, C!CalendarsInv, NEW s \in Save, C!Commit(s) PROVE C!CalendarsInv'
<1> USE DEF C!CalendarsInv
<1> DEFINE row == saves[s].cal
<1>a. PICK home \in C!Workspace : home = C!Home(s)
  <2>1. C!Home(s) \in C!Workspace
    BY CommitWrites DEF C!TypeOK, C!Workspace
  <2> QED BY <2>1
<1>0. /\ saves[s] \in C!Demoting /\ row \in Calendar /\ home \in orgs \cup {None}
      /\ saves[s].demoted # {} => home = saves[s].org /\ saves[s].primary
      /\ cal[row] # None => cal[row].org = home
      /\ cal' \in [Calendar -> [org : C!Workspace, primary : BOOLEAN] \cup {None}]
      /\ cal'[row] = [org |-> home, primary |-> saves[s].primary]
      /\ \A c \in saves[s].demoted :
           cal[c] # None /\ cal'[c] = [org |-> home, primary |-> FALSE]
      /\ \A c \in Calendar : c \notin saves[s].demoted \cup {row} => cal'[c] = cal[c]
  BY <1>a, CommitWrites
<1>1. saves' = [saves EXCEPT ![s] = C!Idle] /\ orgs' = orgs /\ refusedOrg' = refusedOrg
      /\ saves[s].at = "demoted"
  BY DEF C!Commit
<1>2. \A c \in saves[s].demoted : c \in Calendar /\ c # row /\ cal[c].org = saves[s].org
        /\ cal[c].primary
  BY <1>0, <1>1 DEF C!DemotedAreHeld, C!PrimaryOf, C!Live
<1>3. C!TypeOK' /\ C!SavesAreTyped'
  <2>2. cleared' \subseteq C!Workspace
    BY <1>a DEF C!Commit, C!TypeOK
  <2>3. C!SavesAreTyped' /\ \A t \in Save : saves'[t].at \in {"idle", "begun", "demoted"}
    BY <1>1 DEF C!SavesAreTyped, C!Idle, C!Request, C!Demoting, C!TypeOK, C!Workspace
  <2> QED BY <1>0, <1>1, <2>2, <2>3 DEF C!TypeOK, C!Workspace
<1>4. \A c \in C!Live' : cal'[c].org = home \/ (c \in C!Live /\ cal'[c] = cal[c])
  BY <1>0 DEF C!Live
<1>5. C!HomesExist'
  BY <1>0, <1>1, <1>4 DEF C!HomesExist
<1>6. \A ws \in C!Workspace : ws # home => C!PrimaryOf(ws)' = C!PrimaryOf(ws)
  <2> SUFFICES ASSUME NEW ws \in C!Workspace, ws # home, NEW c \in Calendar
               PROVE  c \in C!PrimaryOf(ws)' <=> c \in C!PrimaryOf(ws)
    BY DEF C!PrimaryOf, C!Live
  <2>1. CASE c = row
    BY <1>0, <2>1 DEF C!PrimaryOf, C!Live, C!Bounds
  <2>2. CASE c \in saves[s].demoted
    BY <1>0, <1>2, <2>2 DEF C!PrimaryOf, C!Live, C!Bounds
  <2>3. CASE c \notin saves[s].demoted \cup {row}
    BY <1>0, <2>3 DEF C!PrimaryOf, C!Live
  <2> QED BY <2>1, <2>2, <2>3
<1>7. saves[s].primary => C!PrimaryOf(home)' = {row}
  <2> SUFFICES ASSUME saves[s].primary, NEW c \in Calendar
               PROVE  c \in C!PrimaryOf(home)' <=> c = row
    BY <1>0 DEF C!PrimaryOf, C!Live
  <2>1. CASE c = row
    <3>1. cal'[row] # None
      <4>1. cal'[row] \in [org : C!Workspace, primary : BOOLEAN]
        <5>1. saves[s].primary \in BOOLEAN
          BY <1>0 DEF C!Demoting
        <5>2. cal'[row] = [org |-> home, primary |-> saves[s].primary]
          BY <1>0
        <5> QED BY <5>1, <5>2
      <4> QED BY <4>1 DEF C!Bounds
    <3> QED BY <1>0, <2>1, <3>1 DEF C!PrimaryOf, C!Live
  <2>2. CASE c \in saves[s].demoted
    BY <1>0, <1>2, <2>2 DEF C!PrimaryOf, C!Live
  <2>3. CASE c \notin saves[s].demoted \cup {row}
    <3>1. c \notin C!PrimaryOf(home)
      BY <1>a, <2>3 DEF C!Commit, C!Clash
    <3> QED BY <1>0, <2>3, <3>1 DEF C!PrimaryOf, C!Live
  <2> QED BY <2>1, <2>2, <2>3
<1>8. ~saves[s].primary => C!PrimaryOf(home)' = C!PrimaryOf(home) \ {row}
  <2> SUFFICES ASSUME ~saves[s].primary, NEW c \in Calendar
               PROVE  c \in C!PrimaryOf(home)' <=> c \in C!PrimaryOf(home) /\ c # row
    BY <1>0 DEF C!PrimaryOf, C!Live
  <2>1. saves[s].demoted = {}
    BY <1>0
  <2> QED BY <1>0, <2>1 DEF C!PrimaryOf, C!Live
<1>9. C!AtMostOnePrimary'
  BY <1>6, <1>7, <1>8 DEF C!AtMostOnePrimary, C!Workspace
<1>10. \A c \in Calendar : cal[c] = None /\ c # row => cal'[c] = None
  BY <1>0
<1>11. \A t \in Save : t # s => saves'[t] = saves[t]
         /\ (saves[t].at = "demoted" => \A d \in saves[t].demoted : cal'[d] = cal[d])
  BY CommitSpares
<1>12. saves'[s] = C!Idle /\ ~C!Busy(s)'
  BY <1>1 DEF C!Busy, C!Idle, C!SavesAreTyped
<1>13. \A t \in Save : C!Busy(t) /\ t # s => saves[t] \in C!Request("begun") \cup C!Demoting
  BY DEF C!Busy, C!SavesAreTyped, C!Idle
<1>14. \A t \in Save : C!Busy(t) => saves[t].cal \in Calendar
  BY DEF C!Busy, C!SavesAreTyped, C!Idle, C!Request, C!Demoting
<1>15. C!CreatesAreAlone'
  <2> SUFFICES ASSUME NEW t \in Save, C!Busy(t)', (saves[t].op)' = "create"
               PROVE  /\ cal'[saves'[t].cal] = None
                      /\ \A r \in Save : C!Busy(r)' /\ saves'[r].cal = saves'[t].cal => r = t
    BY DEF C!CreatesAreAlone
  <2>1. t # s /\ C!Busy(t) /\ saves'[t] = saves[t] /\ saves[t].cal # row
    BY <1>1, <1>11, <1>12 DEF C!Busy, C!CreatesAreAlone
  <2> QED BY <1>10, <1>11, <1>12, <1>14, <2>1 DEF C!Busy, C!CreatesAreAlone
<1>16. C!UpdatesKnowTheirHome'
  <2> SUFFICES ASSUME NEW t \in Save, C!Busy(t)', (saves[t].op)' = "update",
                      saves'[t].cal \in C!Live'
               PROVE  cal'[saves'[t].cal].org = saves'[t].org
                      \/ saves'[t].org \notin orgs' \cup {None}
    BY DEF C!UpdatesKnowTheirHome
  <2>1. t # s /\ C!Busy(t) /\ saves'[t] = saves[t]
    BY <1>11, <1>12 DEF C!Busy
  <2>2. saves[t].cal \in C!Live
    <3>1. CASE saves[t].cal = row
      <4>1. saves[s].op # "create"
        BY <1>1, <2>1, <3>1 DEF C!CreatesAreAlone, C!Busy
      <4> QED BY <1>0, <1>1, <3>1, <4>1 DEF C!Commit, C!Demoting
    <3>2. CASE saves[t].cal # row
      BY <1>10, <1>14, <2>1, <3>2 DEF C!Live
    <3> QED BY <3>1, <3>2
  <2>3. cal'[saves[t].cal].org = cal[saves[t].cal].org
    BY <1>0, <1>2, <2>2 DEF C!Live
  <2> QED BY <1>1, <2>1, <2>2, <2>3 DEF C!UpdatesKnowTheirHome
<1>17. C!DemotedAreHeld'
  <2> SUFFICES ASSUME NEW t \in Save, saves'[t].at = "demoted", NEW d \in saves'[t].demoted
               PROVE  /\ saves'[t].primary /\ d \in C!PrimaryOf(saves[t].org)'
                      /\ d # saves'[t].cal
                      /\ \A r \in Save : saves'[r].at = "demoted" /\ d \in saves'[r].demoted
                                           => r = t
    BY DEF C!DemotedAreHeld
  <2>1. t # s /\ saves'[t] = saves[t] /\ cal'[d] = cal[d]
    BY <1>11, <1>12 DEF C!Idle
  <2>2. d \in C!PrimaryOf(saves[t].org) /\ saves[t].primary /\ d # saves[t].cal
    BY <2>1 DEF C!DemotedAreHeld
  <2>3. d \in C!PrimaryOf(saves[t].org)'
    BY <2>1, <2>2 DEF C!PrimaryOf, C!Live
  <2> QED BY <1>11, <1>12, <2>1, <2>2, <2>3 DEF C!DemotedAreHeld, C!Idle
<1>18. C!PrimariesKept'
  <2> SUFFICES ASSUME NEW ws \in (orgs \cup {None}) \ cleared'
               PROVE  \E c \in Calendar : C!PrimaryOf(ws)' = {c}
    BY <1>1 DEF C!PrimariesKept
  <2>0. ws \in C!Workspace
    BY DEF C!TypeOK, C!Workspace
  <2>1. CASE ws # home
    <3>1. ws \notin cleared
      BY <1>a, <2>1 DEF C!Commit
    <3> QED BY <1>6, <2>0, <2>1, <3>1 DEF C!PrimariesKept
  <2>2. CASE ws = home /\ saves[s].primary
    BY <1>0, <1>7, <2>2
  <2>3. CASE ws = home /\ ~saves[s].primary
    <3>1. row \notin C!PrimaryOf(home) /\ ws \notin cleared
      BY <1>a, <2>3 DEF C!Commit
    <3>2. C!PrimaryOf(home)' = C!PrimaryOf(home)
      BY <1>8, <2>3, <3>1
    <3> QED BY <2>3, <3>1, <3>2 DEF C!PrimariesKept
  <2> QED BY <2>1, <2>2, <2>3
<1> QED BY <1>3, <1>5, <1>9, <1>15, <1>16, <1>17, <1>18

\* A form begins its save: it writes nothing yet.
LEMMA BeginStep ==
  ASSUME C!Bounds, C!CalendarsInv, NEW s \in Save, NEW c \in Calendar, NEW primary \in BOOLEAN,
         C!BeginUpdate(s, c, primary) \/ \E ws \in C!Workspace : C!BeginCreate(s, c, ws, primary)
  PROVE  C!CalendarsInv'
<1> USE DEF C!CalendarsInv
<1>1. PICK op \in {"create", "update"}, ws \in C!Workspace :
        /\ saves' = [saves EXCEPT ![s] =
             [at |-> "begun", op |-> op, cal |-> c, org |-> ws, primary |-> primary]]
        /\ op = "create" =>
             cal[c] = None /\ ~\E t \in Save : saves[t].at # "idle" /\ saves[t].cal = c
        /\ op = "update" => c \in C!Live /\ cal[c].org = ws
  <2>1. CASE C!BeginUpdate(s, c, primary)
    <3>1. cal[c].org \in C!Workspace
      BY <2>1 DEF C!BeginUpdate, C!Live, C!TypeOK
    <3> QED BY <2>1, <3>1 DEF C!BeginUpdate
  <2>2. CASE \E ws \in C!Workspace : C!BeginCreate(s, c, ws, primary)
    BY <2>2 DEF C!BeginCreate
  <2> QED BY <2>1, <2>2
<1>2. UNCHANGED <<cal, orgs, cleared, refusedOrg>> /\ saves[s] = C!Idle
  BY DEF C!BeginUpdate, C!BeginCreate
<1>3. C!Live' = C!Live /\ \A ws2 \in C!Workspace : C!PrimaryOf(ws2)' = C!PrimaryOf(ws2)
  BY <1>2 DEF C!Live, C!PrimaryOf
<1>4. /\ saves'[s] = [at |-> "begun", op |-> op, cal |-> c, org |-> ws, primary |-> primary]
      /\ \A t \in Save : t # s => saves'[t] = saves[t]
      /\ saves[s].at = "idle"
  BY <1>1, <1>2 DEF C!SavesAreTyped, C!Idle
<1>5. C!TypeOK' /\ C!SavesAreTyped'
  BY <1>1, <1>2, <1>4 DEF C!TypeOK, C!SavesAreTyped, C!Request, C!Demoting, C!Workspace, C!Idle
<1>6. C!HomesExist' /\ C!AtMostOnePrimary' /\ C!PrimariesKept'
  <2>1. orgs' \cup {None} \subseteq C!Workspace
    BY <1>2 DEF C!TypeOK, C!Workspace
  <2> QED BY <1>2, <1>3, <2>1 DEF C!HomesExist, C!AtMostOnePrimary, C!PrimariesKept, C!Workspace
<1>7. C!CreatesAreAlone'
  BY <1>1, <1>2, <1>4 DEF C!CreatesAreAlone, C!Busy, C!Live
<1>8. C!UpdatesKnowTheirHome'
  BY <1>1, <1>2, <1>3, <1>4 DEF C!UpdatesKnowTheirHome, C!Busy
<1>9. C!DemotedAreHeld'
  BY <1>2, <1>4 DEF C!DemotedAreHeld, C!PrimaryOf, C!Live
<1> QED BY <1>5, <1>6, <1>7, <1>8, <1>9

LEMMA DemoteStep ==
  ASSUME C!Bounds, C!CalendarsInv, NEW s \in Save, C!Demote(s) PROVE C!CalendarsInv'
<1> USE DEF C!CalendarsInv
<1> DEFINE others == IF saves[s].primary THEN C!PrimaryOf(saves[s].org) \ {saves[s].cal} ELSE {}
<1>1. UNCHANGED <<cal, orgs, cleared, refusedOrg>> /\ saves[s].at = "begun"
      /\ ~\E c \in others : C!Locked(c)
  BY DEF C!Demote
<1>2. saves[s] \in C!Request("begun")
  BY <1>1 DEF C!SavesAreTyped, C!Idle, C!Demoting
<1>3. /\ saves'[s] = [at |-> "demoted", op |-> saves[s].op, cal |-> saves[s].cal,
                      org |-> saves[s].org, primary |-> saves[s].primary, demoted |-> others]
      /\ \A t \in Save : t # s => saves'[t] = saves[t]
      /\ saves' \in [Save -> {C!Idle} \cup C!Request("begun") \cup C!Demoting]
  <2>1. others \subseteq Calendar
    BY DEF C!PrimaryOf, C!Live
  <2> QED BY <1>1, <1>2, <2>1 DEF C!Demote, C!SavesAreTyped, C!Request, C!Demoting
<1>4. C!Live' = C!Live /\ \A ws \in C!Workspace : C!PrimaryOf(ws)' = C!PrimaryOf(ws)
  BY <1>1 DEF C!Live, C!PrimaryOf
<1>5. C!TypeOK' /\ C!SavesAreTyped'
  BY <1>1, <1>3 DEF C!TypeOK, C!SavesAreTyped, C!Request, C!Demoting, C!Workspace, C!Idle
<1>6. C!HomesExist' /\ C!AtMostOnePrimary' /\ C!PrimariesKept'
  <2>1. orgs' \cup {None} \subseteq C!Workspace
    BY <1>1 DEF C!TypeOK, C!Workspace
  <2> QED BY <1>1, <1>4, <2>1 DEF C!HomesExist, C!AtMostOnePrimary, C!PrimariesKept, C!Workspace
<1>7. \A t \in Save : (C!Busy(t)' <=> C!Busy(t)) /\ saves'[t].op = saves[t].op
        /\ saves'[t].cal = saves[t].cal /\ saves'[t].org = saves[t].org
  BY <1>1, <1>3 DEF C!Busy
<1>8. C!CreatesAreAlone' /\ C!UpdatesKnowTheirHome'
  BY <1>1, <1>4, <1>7 DEF C!CreatesAreAlone, C!UpdatesKnowTheirHome
<1>9. C!DemotedAreHeld'
  <2> SUFFICES ASSUME NEW t \in Save, saves'[t].at = "demoted", NEW d \in saves'[t].demoted
               PROVE  /\ saves'[t].primary /\ d \in C!PrimaryOf(saves[t].org)
                      /\ d # saves[t].cal
                      /\ \A r \in Save : saves'[r].at = "demoted" /\ d \in saves'[r].demoted
                                           => r = t
    BY <1>1, <1>7 DEF C!DemotedAreHeld, C!PrimaryOf, C!Live
  <2>1. CASE t = s
    BY <1>1, <1>3, <2>1 DEF C!Locked
  <2>2. CASE t # s
    <3>1. saves'[t] = saves[t]
      BY <1>3, <2>2
    <3>2. C!Locked(d)
      BY <3>1 DEF C!Locked
    <3> QED BY <1>1, <1>3, <3>1, <3>2 DEF C!DemotedAreHeld
  <2> QED BY <2>1, <2>2
<1> QED BY <1>5, <1>6, <1>8, <1>9

LEMMA RefuseStep ==
  ASSUME C!Bounds, C!CalendarsInv, NEW s \in Save, C!Refuse(s) PROVE C!CalendarsInv'
<1> USE DEF C!CalendarsInv
<1>1. UNCHANGED <<cal, orgs, cleared, refusedOrg>>
      /\ saves'[s] = C!Idle /\ \A t \in Save : t # s => saves'[t] = saves[t]
  BY DEF C!Refuse, C!SavesAreTyped
<1>2. C!Live' = C!Live /\ \A ws \in C!Workspace : C!PrimaryOf(ws)' = C!PrimaryOf(ws)
  BY <1>1 DEF C!Live, C!PrimaryOf
<1>3. C!TypeOK' /\ C!SavesAreTyped'
  BY <1>1 DEF C!Refuse, C!TypeOK, C!SavesAreTyped, C!Request, C!Demoting, C!Workspace, C!Idle
<1>4. C!HomesExist' /\ C!AtMostOnePrimary' /\ C!PrimariesKept'
  <2>1. orgs' \cup {None} \subseteq C!Workspace
    BY <1>1 DEF C!TypeOK, C!Workspace
  <2> QED BY <1>1, <1>2, <2>1 DEF C!HomesExist, C!AtMostOnePrimary, C!PrimariesKept, C!Workspace
<1>5. \A t \in Save : C!Busy(t)' => t # s /\ C!Busy(t) /\ saves'[t] = saves[t]
  BY <1>1 DEF C!Busy, C!Idle
<1>6. C!CreatesAreAlone' /\ C!UpdatesKnowTheirHome'
  BY <1>1, <1>2, <1>5 DEF C!CreatesAreAlone, C!UpdatesKnowTheirHome
<1>7. C!DemotedAreHeld'
  BY <1>1 DEF C!DemotedAreHeld, C!PrimaryOf, C!Live, C!Idle
<1> QED BY <1>3, <1>4, <1>6, <1>7

LEMMA DeleteCalendarStep ==
  ASSUME C!Bounds, C!CalendarsInv, NEW c \in Calendar, C!Delete(c) PROVE C!CalendarsInv'
<1> USE DEF C!CalendarsInv
<1>1. /\ UNCHANGED <<saves, orgs, refusedOrg>> /\ c \in C!Live /\ ~C!Locked(c)
      /\ cal'[c] = None /\ \A d \in Calendar : d # c => cal'[d] = cal[d]
      /\ cleared' = IF cal[c].primary THEN cleared \cup {cal[c].org} ELSE cleared
  BY DEF C!Delete, C!TypeOK
<1>2. cal[c] \in [org : C!Workspace, primary : BOOLEAN]
  BY <1>1 DEF C!Live, C!TypeOK
<1>3. C!Live' = C!Live \ {c} /\ \A ws \in C!Workspace : C!PrimaryOf(ws)' = C!PrimaryOf(ws) \ {c}
  BY <1>1 DEF C!Live, C!PrimaryOf
<1>4. C!TypeOK' /\ C!SavesAreTyped'
  BY <1>1, <1>2 DEF C!Delete, C!TypeOK, C!SavesAreTyped, C!Request, C!Demoting, C!Workspace
<1>5. C!HomesExist' /\ C!AtMostOnePrimary'
  BY <1>1, <1>3 DEF C!HomesExist, C!AtMostOnePrimary, C!Workspace, C!Live
<1>6. \A t \in Save : C!Busy(t) => saves[t].cal \in Calendar
  BY DEF C!Busy, C!SavesAreTyped, C!Idle, C!Request, C!Demoting
<1>7. C!CreatesAreAlone' /\ C!UpdatesKnowTheirHome'
  BY <1>1, <1>3, <1>6 DEF C!CreatesAreAlone, C!UpdatesKnowTheirHome, C!Busy, C!Live
<1>8. C!DemotedAreHeld'
  <2>1. \A t \in Save : saves[t].at = "demoted" =>
          saves[t] \in C!Demoting /\ \A d \in saves[t].demoted : d # c
    BY <1>1 DEF C!Locked, C!SavesAreTyped, C!Idle, C!Request, C!Demoting
  <2> QED BY <1>1, <2>1 DEF C!DemotedAreHeld, C!PrimaryOf, C!Live
<1>9. C!PrimariesKept'
  <2> SUFFICES ASSUME NEW ws \in (orgs \cup {None}) \ cleared'
               PROVE  \E d \in Calendar : C!PrimaryOf(ws)' = {d}
    BY <1>1 DEF C!PrimariesKept
  <2>1. ws \in C!Workspace
    BY DEF C!TypeOK, C!Workspace
  <2>2. c \notin C!PrimaryOf(ws) /\ ws \notin cleared
    BY <1>1 DEF C!PrimaryOf
  <2>3. C!PrimaryOf(ws)' = C!PrimaryOf(ws)
    BY <1>3, <2>1, <2>2
  <2> QED BY <2>2, <2>3 DEF C!PrimariesKept
<1> QED BY <1>4, <1>5, <1>7, <1>8, <1>9

\* ON DELETE SET NULL moves the calendars of an organization to the personal
\* workspace, where the index allows no second primary.
LEMMA DeleteOrgStep ==
  ASSUME C!Bounds, C!CalendarsInv, NEW o \in Org, C!DeleteOrg(o) PROVE C!CalendarsInv'
<1> USE DEF C!CalendarsInv
<1>1. CASE C!PrimaryOf(o) # {} /\ C!PrimaryOf(None) # {}
  <2>1. UNCHANGED <<cal, orgs, cleared, saves>> /\ refusedOrg' = TRUE
    BY <1>1 DEF C!DeleteOrg
  <2>2. C!Live' = C!Live /\ \A ws \in C!Workspace : C!PrimaryOf(ws)' = C!PrimaryOf(ws)
    BY <2>1 DEF C!Live, C!PrimaryOf
  <2>3. orgs' \cup {None} \subseteq C!Workspace
    BY <2>1 DEF C!TypeOK, C!Workspace
  <2> QED BY <2>1, <2>2, <2>3 DEF C!TypeOK, C!SavesAreTyped, C!Request, C!Demoting, C!Workspace,
             C!HomesExist, C!AtMostOnePrimary, C!CreatesAreAlone, C!UpdatesKnowTheirHome,
             C!DemotedAreHeld, C!PrimariesKept, C!Busy, C!PrimaryOf, C!Live
<1>2. CASE ~(C!PrimaryOf(o) # {} /\ C!PrimaryOf(None) # {})
  <2>1. /\ UNCHANGED <<saves, refusedOrg>> /\ orgs' = orgs \ {o} /\ o \in orgs
        /\ cal' = [c \in Calendar |-> IF c \in C!Orphans(o) THEN [cal[c] EXCEPT !.org = None]
                                      ELSE cal[c]]
        /\ cleared' = (cleared \cup {o}) \ (IF C!PrimaryOf(o) # {} THEN {None} ELSE {})
        /\ ~\E c \in C!Orphans(o) : C!Locked(c)
    BY <1>2 DEF C!DeleteOrg
  <2>2. \A c \in C!Live : cal[c] \in [org : C!Workspace, primary : BOOLEAN] /\ c \in Calendar
    BY DEF C!Live, C!TypeOK
  <2>3. /\ \A c \in C!Orphans(o) : c \in C!Live /\ cal'[c] = [cal[c] EXCEPT !.org = None]
        /\ \A c \in Calendar \ C!Orphans(o) : cal'[c] = cal[c]
    BY <2>1, <2>2 DEF C!Orphans
  <2>4. cal' \in [Calendar -> [org : C!Workspace, primary : BOOLEAN] \cup {None}]
    <3>1. ASSUME NEW c \in Calendar
          PROVE  cal'[c] \in [org : C!Workspace, primary : BOOLEAN] \cup {None}
      <4>1. CASE c \in C!Orphans(o)
        <5>1. cal[c] \in [org : C!Workspace, primary : BOOLEAN] /\ None \in C!Workspace
          BY <2>2, <2>3, <4>1 DEF C!Workspace
        <5> QED BY <2>3, <4>1, <5>1
      <4>2. CASE c \notin C!Orphans(o)
        BY <2>3, <4>2 DEF C!TypeOK
      <4> QED BY <4>1, <4>2
    <3> QED BY <2>1, <3>1
  <2>5. \A c \in C!Orphans(o) : cal'[c] # None
    <3> SUFFICES ASSUME NEW c \in C!Orphans(o) PROVE cal'[c] # None
      OBVIOUS
    <3>1. cal[c] \in [org : C!Workspace, primary : BOOLEAN] /\ None \in C!Workspace
      BY <2>2, <2>3 DEF C!Workspace
    <3>2. cal'[c] \in [org : C!Workspace, primary : BOOLEAN]
      BY <2>3, <3>1
    <3> QED BY <3>2 DEF C!Bounds
  <2>6. C!Live' = C!Live
    BY <2>3, <2>5 DEF C!Live, C!Orphans
  <2>7. o # None /\ o \in C!Workspace /\ None \in C!Workspace
    BY DEF C!Bounds, C!Workspace
  <2>8. /\ \A ws \in C!Workspace \ {o, None} : C!PrimaryOf(ws)' = C!PrimaryOf(ws)
        /\ C!PrimaryOf(None)' = C!PrimaryOf(None) \cup C!PrimaryOf(o)
        /\ C!PrimaryOf(o)' = {}
    <3>a. \A c \in C!Orphans(o) : c \in C!Live /\ cal[c].org = o /\ cal'[c].org = None
                               /\ cal'[c].primary = cal[c].primary
      <4> SUFFICES ASSUME NEW c \in C!Orphans(o)
                   PROVE  c \in C!Live /\ cal[c].org = o /\ cal'[c].org = None
                          /\ cal'[c].primary = cal[c].primary
        OBVIOUS
      <4>1. cal[c] \in [org : C!Workspace, primary : BOOLEAN]
            /\ cal'[c] = [cal[c] EXCEPT !.org = None]
        BY <2>2, <2>3
      <4>2. c \in C!Live /\ cal[c].org = o
        BY DEF C!Orphans
      <4> QED BY <4>1, <4>2
    <3>b. \A c \in C!Live \ C!Orphans(o) : cal'[c] = cal[c] /\ cal[c].org # o
      BY <2>2, <2>3 DEF C!Orphans
    <3>1. \A c \in C!Live, ws \in C!Workspace \ {o, None} :
            c \in C!PrimaryOf(ws)' <=> c \in C!PrimaryOf(ws)
      BY <2>6, <3>a, <3>b DEF C!PrimaryOf
    <3>2. \A c \in C!Live :
            /\ c \in C!PrimaryOf(None)' <=> c \in C!PrimaryOf(None) \cup C!PrimaryOf(o)
            /\ c \notin C!PrimaryOf(o)'
      BY <2>6, <2>7, <3>a, <3>b DEF C!PrimaryOf
    <3>3. \A ws \in C!Workspace :
            C!PrimaryOf(ws) \subseteq C!Live /\ C!PrimaryOf(ws)' \subseteq C!Live
      BY <2>6 DEF C!PrimaryOf
    <3> QED BY <2>7, <3>1, <3>2, <3>3
  <2>9. C!TypeOK' /\ C!SavesAreTyped'
    BY <2>1, <2>4, <2>7 DEF C!TypeOK, C!SavesAreTyped, C!Request, C!Demoting, C!Workspace
  <2>10. C!HomesExist'
    BY <2>1, <2>2, <2>3, <2>6 DEF C!HomesExist, C!Orphans
  <2>11. C!AtMostOnePrimary'
    BY <1>2, <2>7, <2>8 DEF C!AtMostOnePrimary, C!Workspace
  <2>12. C!CreatesAreAlone'
    <3>1. \A t \in Save : C!Busy(t) => saves[t].cal \in Calendar
      BY DEF C!Busy, C!SavesAreTyped, C!Idle, C!Request, C!Demoting
    <3> QED BY <2>1, <2>6, <3>1 DEF C!CreatesAreAlone, C!Busy, C!Live
  <2>13. C!UpdatesKnowTheirHome'
    <3> SUFFICES ASSUME NEW t \in Save, C!Busy(t), saves[t].op = "update", saves[t].cal \in C!Live
                 PROVE  cal'[saves[t].cal].org = saves[t].org
                        \/ saves[t].org \notin (orgs \ {o}) \cup {None}
      BY <2>1, <2>6 DEF C!UpdatesKnowTheirHome, C!Busy
    <3>1. CASE saves[t].cal \in C!Orphans(o)
      BY <2>3, <2>7, <3>1, <2>1 DEF C!UpdatesKnowTheirHome, C!Orphans
    <3>2. CASE saves[t].cal \notin C!Orphans(o)
      BY <2>2, <2>3, <3>2 DEF C!UpdatesKnowTheirHome
    <3> QED BY <3>1, <3>2
  <2>14. C!DemotedAreHeld'
    <3> SUFFICES ASSUME NEW t \in Save, saves[t].at = "demoted", NEW d \in saves[t].demoted
                 PROVE  d \in C!PrimaryOf(saves[t].org)'
      BY <2>1 DEF C!DemotedAreHeld
    <3>1. d \in C!PrimaryOf(saves[t].org) /\ d \notin C!Orphans(o)
      BY <2>1 DEF C!DemotedAreHeld, C!Locked
    <3> QED BY <2>1, <2>3, <2>6, <3>1 DEF C!PrimaryOf, C!Live
  <2>15. C!PrimariesKept'
    <3> SUFFICES ASSUME NEW ws \in ((orgs \ {o}) \cup {None}) \ cleared'
                 PROVE  \E c \in Calendar : C!PrimaryOf(ws)' = {c}
      BY <2>1 DEF C!PrimariesKept
    <3>0. ws \in C!Workspace /\ ws # o
      BY <2>7 DEF C!TypeOK, C!Workspace
    <3>1. CASE ws # None
      BY <2>1, <2>8, <3>0, <3>1 DEF C!PrimariesKept
    <3>2. CASE ws = None /\ C!PrimaryOf(o) # {}
      <4>1. PICK c \in C!PrimaryOf(o) : TRUE
        BY <3>2
      <4>2. C!PrimaryOf(o) = {c} /\ c \in Calendar
        BY <2>7, <4>1 DEF C!AtMostOnePrimary, C!PrimaryOf, C!Live
      <4> QED BY <1>2, <2>8, <3>2, <4>2
    <3>3. CASE ws = None /\ C!PrimaryOf(o) = {}
      BY <2>1, <2>8, <3>3 DEF C!PrimariesKept
    <3> QED BY <3>1, <3>2, <3>3
  <2> QED BY <2>9, <2>10, <2>11, <2>12, <2>13, <2>14, <2>15
<1> QED BY <1>1, <1>2

LEMMA CalendarsStep == ASSUME C!Bounds PROVE C!CalendarsInv /\ [C!Next]_C!vars => C!CalendarsInv'
<1> SUFFICES ASSUME C!CalendarsInv, [C!Next]_C!vars PROVE C!CalendarsInv'
  OBVIOUS
<1>1. CASE UNCHANGED C!vars
  <2>1. C!Live' = C!Live
    BY <1>1 DEF C!vars, C!Live
  <2> QED BY <1>1, <2>1 DEF C!vars, C!CalendarsInv, C!TypeOK, C!SavesAreTyped, C!Request,
             C!Demoting, C!Workspace, C!HomesExist, C!AtMostOnePrimary, C!CreatesAreAlone,
             C!UpdatesKnowTheirHome, C!DemotedAreHeld, C!PrimariesKept, C!Busy, C!PrimaryOf, C!Live
<1> QED BY <1>1, BeginStep, DemoteStep, CommitStep, RefuseStep, DeleteCalendarStep, DeleteOrgStep
           DEF C!Next

THEOREM PrimaryAlwaysKept == ASSUME C!Bounds PROVE C!Spec => [](C!TypeOK /\ C!OnePrimaryKept)
<1>1. C!Init => C!CalendarsInv
  <2> SUFFICES ASSUME C!Init PROVE C!CalendarsInv
    OBVIOUS
  <2>1. C!Live = {} /\ \A s \in Save : saves[s] = C!Idle
    BY DEF C!Init, C!Live
  <2>2. \A ws \in C!Workspace : C!PrimaryOf(ws) = {}
    BY <2>1 DEF C!PrimaryOf
  <2> QED BY <2>1, <2>2 DEF C!Init, C!CalendarsInv, C!TypeOK, C!SavesAreTyped, C!HomesExist,
             C!AtMostOnePrimary, C!CreatesAreAlone, C!UpdatesKnowTheirHome, C!DemotedAreHeld,
             C!PrimariesKept, C!Busy, C!Idle, C!Workspace
<1>2. C!CalendarsInv => C!TypeOK /\ C!OnePrimaryKept
  <2> SUFFICES ASSUME C!CalendarsInv, NEW ws \in (orgs \cup {None}) \ cleared
               PROVE  C!Cardinality(C!PrimaryOf(ws)) = 1
    BY DEF C!CalendarsInv, C!OnePrimaryKept
  <2>1. PICK c \in Calendar : C!PrimaryOf(ws) = {c}
    BY DEF C!CalendarsInv, C!PrimariesKept
  <2> QED BY <2>1, FS_Singleton, SameCounting
<1> QED BY <1>1, <1>2, CalendarsStep, PTL DEF C!Spec

------------------------------------------------------------------------------
\* Whom an attendee row lets in (CalendarAccess).

\* Signing up and proving an address take nobody's row and nobody's answer.
LEMMA AccountSteps ==
  ASSUME A!Bounds, A!AccessInv, NEW u \in User,
         A!Verify(u) \/ \E a \in Address : A!SignUp(u, a) \/ A!ChangeEmail(u, a)
  PROVE  A!AccessInv'
<1> USE DEF A!AccessInv, A!AccessIsTyped, A!Bounds
<1>1. rows' = rows /\ page' = page /\ event' = event
  BY DEF A!Verify, A!SignUp, A!ChangeEmail
<1>2. /\ proved \subseteq proved'
      /\ answered' \in [User \X Address -> A!Status \cup {None}]
      /\ \A x \in User \X Address : answered'[x] \in {answered[x], None}
  BY DEF A!Verify, A!SignUp, A!ChangeEmail, A!Contested, A!Proven
<1> DEFINE Accounts == /\ email' \in [User -> Address \cup {None}]
                       /\ verified' \subseteq A!Account' /\ A!Account \subseteq A!Account'
                       /\ proved' \subseteq User \X Address /\ A!VerifiedIsProved'
<1>3. Accounts
  <2>1. CASE A!Verify(u)
    <3>1. email' = email /\ verified' = verified \cup {u} /\ email[u] \in Address
          /\ u \in A!Account
      BY <2>1 DEF A!Verify, A!Account
    <3>2. proved' = proved \cup {<<u, email[u]>>}
      BY <2>1 DEF A!Verify, A!Proven
    <3> QED BY <3>1, <3>2 DEF A!Account, A!TypeOK, A!VerifiedIsProved
  <2>2. ASSUME NEW a \in Address, A!SignUp(u, a) PROVE Accounts
    <3>1. email' = [email EXCEPT ![u] = a] /\ verified' = verified /\ proved' = proved
          /\ email[u] = None
      BY <2>2 DEF A!SignUp
    <3> QED BY <3>1 DEF A!Account, A!TypeOK, A!VerifiedIsProved
  <2>3. ASSUME NEW a \in Address, A!ChangeEmail(u, a) PROVE Accounts
    <3>1. email' = [email EXCEPT ![u] = a] /\ verified' = verified /\ u \in A!Account
          /\ (u \in verified => proved' = proved \cup {<<u, a>>})
          /\ (u \notin verified => proved' = proved)
      BY <2>3 DEF A!ChangeEmail, A!Proven
    <3> QED BY <3>1 DEF A!Account, A!TypeOK, A!VerifiedIsProved
  <2> QED BY <2>1, <2>2, <2>3
<1>4. A!StampsAreProved'
  BY <1>1, <1>2 DEF A!StampsAreProved, A!Guests
<1>5. A!AnswersAreStamped'
  BY <1>1, <1>2 DEF A!AnswersAreStamped
<1>6. A!TypeOK'
  BY <1>1, <1>3 DEF A!TypeOK, A!Guests
<1> QED BY <1>1, <1>2, <1>3, <1>4, <1>5, <1>6

LEMMA DeleteAccountStep ==
  ASSUME A!Bounds, A!AccessInv, NEW u \in User, A!DeleteAccount(u) PROVE A!AccessInv'
<1> USE DEF A!AccessInv, A!AccessIsTyped, A!Bounds
<1>1. /\ email' = [email EXCEPT ![u] = None] /\ verified' = verified \ {u}
      /\ page' = [page EXCEPT ![u] = None] /\ proved' = {x \in proved : x[1] # u}
      /\ event' = event
      /\ rows' = [a \in Address |-> IF a \in A!Guests /\ rows[a].user = u
                                    THEN [rows[a] EXCEPT !.user = None] ELSE rows[a]]
      /\ answered' = [x \in User \X Address |-> IF x[1] = u THEN None ELSE answered[x]]
  BY DEF A!DeleteAccount
<1>2. A!Account' = A!Account \ {u}
  BY <1>1 DEF A!Account
<1>3. \A a \in A!Guests : rows[a] \in A!Row
  BY DEF A!Guests
<1>4. \A a \in Address :
        \/ a \in A!Guests /\ rows[a].user = u /\ rows'[a] = [rows[a] EXCEPT !.user = None]
        \/ ~(a \in A!Guests /\ rows[a].user = u) /\ rows'[a] = rows[a]
  BY <1>1
<1>5. ASSUME NEW a \in Address, a \in A!Guests, rows[a].user = u
      PROVE  rows'[a] \in A!Row /\ rows'[a].user = None /\ rows'[a].status = rows[a].status
  <2>1. rows'[a] = [rows[a] EXCEPT !.user = None] /\ rows[a] \in A!Row
    BY <1>3, <1>4, <1>5
  <2> QED BY <2>1 DEF A!Row
<1>6. rows' \in [Address -> A!Row \cup {None}]
  <2>1. \A a \in Address : rows'[a] \in A!Row \cup {None}
    BY <1>4, <1>5
  <2> QED BY <1>1, <2>1
<1>7. A!Guests' = A!Guests
  <2>1. None \notin A!Row
    BY DEF A!Row
  <2>2. \A a \in Address : a \in A!Guests' <=> a \in A!Guests
    BY <1>4, <1>5, <2>1 DEF A!Guests
  <2> QED BY <2>2 DEF A!Guests
<1>8. A!StampsAreProved'
  <2>1. \A a \in A!Guests : rows'[a].user # None => rows'[a] = rows[a] /\ rows[a].user # u
    BY <1>4, <1>5 DEF A!Guests
  <2>2. \A x \in User \X Address : answered'[x] # None => x[1] # u /\ answered'[x] = answered[x]
    BY <1>1
  <2> QED BY <1>1, <1>7, <2>1, <2>2, ZenonT(60) DEF A!StampsAreProved
<1>9. A!AnswersAreStamped'
  <2> SUFFICES ASSUME NEW v \in User, NEW a \in Address, answered'[<<v, a>>] # None
               PROVE  rows'[a] # None /\ rows'[a].user = v /\ rows'[a].status = answered'[<<v, a>>]
    BY DEF A!AnswersAreStamped
  <2>1. v # u /\ answered'[<<v, a>>] = answered[<<v, a>>]
    BY <1>1
  <2>2. rows[a] # None /\ rows[a].user = v /\ rows[a].status = answered[<<v, a>>]
    BY <2>1 DEF A!AnswersAreStamped
  <2>3. rows'[a] = rows[a]
    BY <1>4, <2>1, <2>2
  <2> QED BY <2>1, <2>2, <2>3
<1>10. A!VerifiedIsProved'
  BY <1>1 DEF A!VerifiedIsProved, A!TypeOK, A!Account
<1>11. A!TypeOK'
  <2>1. \A a \in A!Guests' : rows'[a].user \in A!Account' \cup {None}
                           /\ rows'[a].status \in A!Status \cup {"needs-action"}
    BY <1>2, <1>4, <1>5, <1>7 DEF A!TypeOK, A!Guests
  <2> QED BY <1>1, <1>2, <2>1 DEF A!TypeOK
<1>12. answered' \in [User \X Address -> A!Status \cup {None}]
  BY <1>1
<1> QED BY <1>1, <1>6, <1>8, <1>9, <1>10, <1>11, <1>12

\* Whoever an invitation is resolved to has proved its address.
LEMMA ResolvedIsProved ==
  ASSUME A!AccessInv, NEW a \in Address
  PROVE  \/ A!Resolved(a) = None
         \/ A!Resolved(a) \in verified /\ A!Resolved(a) \in User /\ <<A!Resolved(a), a>> \in proved
<1>1. CASE \E u \in verified : email[u] = a
  <2>1. A!Resolved(a) \in verified /\ email[A!Resolved(a)] = a
    BY <1>1 DEF A!Resolved
  <2> QED BY <2>1 DEF A!AccessInv, A!AccessIsTyped, A!VerifiedIsProved, A!TypeOK, A!Account
<1>2. CASE ~\E u \in verified : email[u] = a
  <2>1. A!Resolved(a) = None
    BY <1>2, Zenon DEF A!Resolved
  <2> QED BY <2>1
<1> QED BY <1>1, <1>2

LEMMA InviteStep ==
  ASSUME A!Bounds, A!AccessInv, NEW a \in Address, A!Invite(a) PROVE A!AccessInv'
<1> USE DEF A!AccessInv, A!AccessIsTyped, A!Bounds
<1> DEFINE row == [user |-> A!Resolved(a), status |-> "needs-action"]
<1>1. /\ UNCHANGED <<email, verified, event, page, moves, proved, answered>>
      /\ rows[a] = None /\ rows' = [rows EXCEPT ![a] = row]
  BY DEF A!Invite, A!Guests
<1>2. row \in A!Row /\ row.user = A!Resolved(a) /\ row.status = "needs-action"
      /\ A!Resolved(a) \in A!Account \cup {None}
  BY ResolvedIsProved DEF A!Row, A!TypeOK
<1>3. rows' \in [Address -> A!Row \cup {None}] /\ rows'[a] = row
      /\ \A b \in Address : b # a => rows'[b] = rows[b]
  BY <1>1, <1>2
<1>4. A!Account' = A!Account
  BY <1>1 DEF A!Account
<1>5. A!StampsAreProved'
  BY <1>1, <1>2, <1>3, ResolvedIsProved DEF A!StampsAreProved, A!Guests
<1>6. A!AnswersAreStamped'
  BY <1>1, <1>3 DEF A!AnswersAreStamped
<1>7. A!TypeOK'
  BY <1>1, <1>2, <1>3, <1>4 DEF A!TypeOK, A!Guests
<1>8. A!VerifiedIsProved'
  BY <1>1 DEF A!VerifiedIsProved
<1> QED BY <1>1, <1>3, <1>5, <1>6, <1>7, <1>8

LEMMA RemoveStep ==
  ASSUME A!Bounds, A!AccessInv, NEW a \in Address, A!Remove(a) PROVE A!AccessInv'
<1> USE DEF A!AccessInv, A!AccessIsTyped, A!Bounds
<1>1. /\ UNCHANGED <<email, verified, event, page, moves, proved>>
      /\ rows' = [rows EXCEPT ![a] = None]
      /\ answered' = [x \in User \X Address |-> IF x[2] = a THEN None ELSE answered[x]]
  BY DEF A!Remove
<1>2. A!Account' = A!Account /\ A!Guests' = A!Guests \ {a}
      /\ \A b \in Address : b # a => rows'[b] = rows[b]
  BY <1>1 DEF A!Account, A!Guests
<1>3. A!StampsAreProved'
  BY <1>1, <1>2 DEF A!StampsAreProved, A!Guests
<1>4. A!AnswersAreStamped'
  <2> SUFFICES ASSUME NEW v \in User, NEW b \in Address, answered'[<<v, b>>] # None
               PROVE  rows'[b] # None /\ rows'[b].user = v /\ rows'[b].status = answered'[<<v, b>>]
    BY DEF A!AnswersAreStamped
  <2>1. b # a /\ answered'[<<v, b>>] = answered[<<v, b>>]
    BY <1>1
  <2> QED BY <1>2, <2>1 DEF A!AnswersAreStamped
<1>5. A!TypeOK' /\ A!VerifiedIsProved'
  BY <1>1, <1>2 DEF A!TypeOK, A!Guests, A!VerifiedIsProved
<1>6. /\ rows' \in [Address -> A!Row \cup {None}]
      /\ answered' \in [User \X Address -> A!Status \cup {None}]
  BY <1>1
<1> QED BY <1>1, <1>3, <1>4, <1>5, <1>6

\* The pages and the deletion of the event leave rows, accounts and answers.
LEMMA PageSteps ==
  ASSUME A!Bounds, A!AccessInv,
         \/ A!Delete
         \/ \E u \in User :
              A!Open(u) \/ A!Close(u) \/ \E status \in A!Status : A!Answer(u, status)
  PROVE  A!AccessInv'
<1> USE DEF A!AccessInv, A!AccessIsTyped, A!Bounds
<1> DEFINE Page == [mine : A!Status \cup {"needs-action", None}, pending : A!Status \cup {None}]
<1>1. UNCHANGED <<email, verified, rows, moves, proved, answered>>
      /\ event' \in {event, "deleted"}
  BY DEF A!Delete, A!Open, A!Close, A!Answer
<1>2. A!Account' = A!Account /\ A!Guests' = A!Guests
  BY <1>1 DEF A!Account, A!Guests
<1> DEFINE Pages == page' \in [User -> {None} \cup Page]
<1>3. Pages
  <2>1. CASE A!Delete
    BY <2>1 DEF A!Delete
  <2>2. ASSUME NEW u \in User, A!Open(u) PROVE Pages
    <3>1. PICK mine \in {rows[a].status : a \in A!Mine(u)}
                          \cup (IF A!Mine(u) = {} THEN {None} ELSE {}) :
            page' = [page EXCEPT ![u] = [mine |-> mine, pending |-> None]]
      BY <2>2 DEF A!Open
    <3>2. mine \in A!Status \cup {"needs-action", None}
      BY DEF A!Mine, A!TypeOK
    <3>3. [mine |-> mine, pending |-> None] \in Page
      BY <3>2
    <3> QED BY <3>1, <3>3
  <2>3. ASSUME NEW u \in User, A!Close(u) PROVE Pages
    BY <2>3 DEF A!Close
  <2>4. ASSUME NEW u \in User, NEW status \in A!Status, A!Answer(u, status) PROVE Pages
    <3>1. page[u] \in Page /\ page' = [page EXCEPT ![u].pending = status]
      BY <2>4 DEF A!Answer
    <3>2. [page[u] EXCEPT !.pending = status] \in Page
      BY <3>1
    <3> QED BY <3>1, <3>2
  <2> QED BY <2>1, <2>2, <2>3, <2>4
<1>4. \A u \in User : page'[u] # None => page'[u].pending \in A!Status \cup {None}
  BY <1>3
<1>5. A!TypeOK'
  BY <1>1, <1>2, <1>4 DEF A!TypeOK
<1>6. A!VerifiedIsProved' /\ A!StampsAreProved' /\ A!AnswersAreStamped'
  BY <1>1, <1>2 DEF A!VerifiedIsProved, A!StampsAreProved, A!AnswersAreStamped
<1> QED BY <1>1, <1>3, <1>5, <1>6

\* An answer stamps the rows it finds, each by the claim or the stamp of the
\* one who gives it, and overrides what others had answered there.
LEMMA RecordClaimStep ==
  ASSUME A!Bounds, A!AccessInv, NEW u \in User, A!Record(u) PROVE A!AccessInv'
<1> USE DEF A!AccessInv, A!AccessIsTyped, A!Bounds
<1>a. PICK status \in A!Status : status = page[u].pending
  BY DEF A!Record
<1>b. PICK hit \in SUBSET Address : hit = A!Matched(u)
  BY DEF A!Matched, A!Guests
<1>1. /\ UNCHANGED <<email, verified, event, moves, proved>>
      /\ rows' = [a \in Address |-> IF a \in hit THEN [user |-> u, status |-> status] ELSE rows[a]]
      /\ page' = [page EXCEPT ![u] = [mine |-> IF hit = {} THEN @.mine ELSE status,
                                      pending |-> None]]
      /\ answered' = [x \in User \X Address |->
           IF x[2] \in hit THEN (IF x[1] = u THEN status ELSE None) ELSE answered[x]]
      /\ page[u] # None
  BY <1>a, <1>b DEF A!Record, A!Stamped
<1>2. \A a \in hit : a \in A!Guests /\ <<u, a>> \in proved /\ u \in A!Account
  <2> SUFFICES ASSUME NEW a \in hit PROVE a \in A!Guests /\ <<u, a>> \in proved /\ u \in A!Account
    OBVIOUS
  <2>1. a \in A!Guests /\ (rows[a].user = u \/ A!Proves(u, a))
    BY <1>b DEF A!Matched
  <2>2. CASE rows[a].user = u
    BY <2>1, <2>2 DEF A!StampsAreProved, A!TypeOK
  <2>3. CASE A!Proves(u, a)
    BY <2>1, <2>3 DEF A!Proves, A!VerifiedIsProved, A!TypeOK
  <2> QED BY <2>1, <2>2, <2>3
<1>3. A!Account' = A!Account
  BY <1>1 DEF A!Account
<1>4. ASSUME NEW a \in Address
      PROVE  /\ a \in hit => rows'[a] \in A!Row /\ rows'[a].user = u /\ rows'[a].status = status
             /\ a \notin hit => rows'[a] = rows[a]
  BY <1>1 DEF A!Row
<1>5. rows' \in [Address -> A!Row \cup {None}]
  <2>1. \A a \in Address : rows'[a] \in A!Row \cup {None}
    BY <1>4
  <2> QED BY <1>1, <2>1
<1>6. A!Guests' = A!Guests
  <2>1. None \notin A!Row
    BY DEF A!Row
  <2>2. \A a \in Address : a \in A!Guests' <=> a \in A!Guests
    BY <1>2, <1>4, <2>1 DEF A!Guests
  <2> QED BY <2>2 DEF A!Guests
<1>7. answered' \in [User \X Address -> A!Status \cup {None}]
  BY <1>1
<1>8. A!StampsAreProved'
  <2>1. \A a \in A!Guests : rows'[a].user # None => <<rows'[a].user, a>> \in proved
    BY <1>2, <1>4 DEF A!StampsAreProved, A!Guests
  <2>2. ASSUME NEW v \in User, NEW a \in Address, answered'[<<v, a>>] # None
        PROVE  <<v, a>> \in proved
    BY <1>1, <1>2, <2>2 DEF A!StampsAreProved
  <2>3. ASSUME NEW x \in User \X Address, answered'[x] # None PROVE x \in proved
    <3>1. PICK v \in User, a \in Address : x = <<v, a>>
      OBVIOUS
    <3> QED BY <2>2, <2>3, <3>1
  <2> QED BY <1>1, <1>6, <2>1, <2>3 DEF A!StampsAreProved
<1>9. A!AnswersAreStamped'
  <2> SUFFICES ASSUME NEW v \in User, NEW a \in Address, answered'[<<v, a>>] # None
               PROVE  rows'[a] # None /\ rows'[a].user = v /\ rows'[a].status = answered'[<<v, a>>]
    BY DEF A!AnswersAreStamped
  <2>1. CASE a \in hit
    <3>1. v = u /\ answered'[<<v, a>>] = status
      BY <1>1, <2>1
    <3>2. rows'[a] # None
      BY <1>4, <2>1 DEF A!Row
    <3> QED BY <1>4, <2>1, <3>1, <3>2
  <2>2. CASE a \notin hit
    BY <1>1, <1>4, <2>2 DEF A!AnswersAreStamped
  <2> QED BY <2>1, <2>2
<1>10. page' \in [User -> {None} \cup [mine : A!Status \cup {"needs-action", None},
                                      pending : A!Status \cup {None}]]
  <2>1. [mine |-> IF hit = {} THEN page[u].mine ELSE status, pending |-> None]
          \in [mine : A!Status \cup {"needs-action", None}, pending : A!Status \cup {None}]
    <3>1. page[u] \in [mine : A!Status \cup {"needs-action", None}, pending : A!Status \cup {None}]
      BY <1>1
    <3> QED BY <3>1
  <2> QED BY <1>1, <2>1
<1>11. A!TypeOK'
  <2>1. \A a \in A!Guests : rows'[a].user \in A!Account \cup {None}
                          /\ rows'[a].status \in A!Status \cup {"needs-action"}
    BY <1>2, <1>4 DEF A!TypeOK, A!Guests
  <2>2. \A v \in User : page'[v] # None => page'[v].pending \in A!Status \cup {None}
    BY <1>10
  <2> QED BY <1>1, <1>3, <1>6, <2>1, <2>2 DEF A!TypeOK
<1>12. A!VerifiedIsProved'
  BY <1>1 DEF A!VerifiedIsProved
<1> QED BY <1>1, <1>5, <1>7, <1>8, <1>9, <1>10, <1>11, <1>12

LEMMA AccessStep == ASSUME A!Bounds PROVE A!AccessInv /\ [A!Next]_A!vars => A!AccessInv'
<1> SUFFICES ASSUME A!AccessInv, [A!Next]_A!vars PROVE A!AccessInv'
  OBVIOUS
<1>1. CASE UNCHANGED A!vars
  BY <1>1 DEF A!vars, A!AccessInv, A!AccessIsTyped, A!TypeOK, A!Account, A!Guests,
     A!VerifiedIsProved, A!StampsAreProved, A!AnswersAreStamped
<1> QED BY <1>1, AccountSteps, DeleteAccountStep, InviteStep, RemoveStep, PageSteps, RecordClaimStep
           DEF A!Next

THEOREM InvitationsBelong ==
  ASSUME A!Bounds
  PROVE  A!Spec => [](A!TypeOK /\ A!StampsAreProved /\ A!AnsweredStaysMine /\ A!ListedCanAnswer)
<1>1. A!Init => A!AccessInv
  <2> SUFFICES ASSUME A!Init PROVE A!AccessInv
    OBVIOUS
  <2>1. A!Guests = {} /\ A!Account = {}
    BY DEF A!Init, A!Guests, A!Account
  <2> QED BY <2>1 DEF A!Init, A!AccessInv, A!AccessIsTyped, A!TypeOK, A!VerifiedIsProved,
             A!StampsAreProved, A!AnswersAreStamped
<1>2. A!AccessInv => A!TypeOK /\ A!StampsAreProved
  BY DEF A!AccessInv, A!AccessIsTyped
<1>3. A!AccessInv => A!AnsweredStaysMine
  BY DEF A!AccessInv, A!AnswersAreStamped, A!AnsweredStaysMine, A!Account, A!Mine, A!Guests
<1>4. A!ListedCanAnswer
  BY DEF A!ListedCanAnswer, A!Responds, A!Listed, A!Mine, A!Proves
<1> QED BY <1>1, <1>2, <1>3, <1>4, AccessStep, PTL DEF A!Spec

------------------------------------------------------------------------------
\* The RSVP links and the tabs of one browser (RsvpLinks).

\* Whomever a cookie answers for is the guest it is named after.
LEMMA BearerIsNamed ==
  ASSUME L!Bounds, L!LinksInv, NEW h \in Attendee \cup {None}
  PROVE  L!Bearer(h) = None \/ (L!Bearer(h) = h /\ h \in Attendee)
<1>1. CASE L!Cookie(h) = None
  BY <1>1 DEF L!Bearer
<1>2. CASE L!Cookie(h) # None
  <2>1. h \in Attendee /\ jar[h] # None /\ L!Cookie(h) = jar[h].link
    BY <1>2 DEF L!Cookie
  <2>2. jar[h].link.for = h
    BY <2>1 DEF L!LinksInv, L!CookiesKeepTheirName
  <2> QED BY <1>2, <2>1, <2>2 DEF L!Bearer, L!Verify
<1> QED BY <1>1, <1>2

\* An answer is recorded for the guest the page names.
LEMMA AnswerStep ==
  ASSUME L!Bounds, L!LinksInv, NEW t \in Tab, NEW r \in L!Response,
         L!Respond(t, r) \/ L!RespondAsDeleted(t, r)
  PROVE  L!LinksInv'
<1> USE DEF L!LinksInv, L!Bounds
<1>a. PICK g \in Attendee \cup {None} : g = L!Bearer(tab[t].handle)
  <2>1. tab[t].at = "form"
    BY DEF L!Respond, L!RespondAsDeleted
  <2>2. tab[t].handle \in Attendee
    BY <2>1 DEF L!LinksAreTyped, L!TabsAreTyped, L!Blank
  <2> QED BY <2>2, BearerIsNamed
<1>1. /\ UNCHANGED <<now, ends, links, jar, reaskAt>>
      /\ tab[t].at = "form" /\ cancelled' \in {cancelled, cancelled \cup {g}}
      /\ \/ g = None /\ UNCHANGED <<answer, tab, meant, cancelled>>
         \/ g # None /\ UNCHANGED <<answer, tab, meant, cancelled>>
         \/ /\ g # None /\ answer' = [answer EXCEPT ![g] = [status |-> r, at |-> now]]
            /\ meant' = [meant EXCEPT ![tab[t].for] = r]
            /\ tab' \in {tab, [tab EXCEPT ![t].highlighted = r]}
  BY <1>a DEF L!Respond, L!RespondAsDeleted
<1>2. /\ tab[t] \in [at : {"form"}, handle : Attendee, for : Attendee,
                    highlighted : L!Response \cup {None}]
      /\ tab[t].for = tab[t].handle
  BY <1>1 DEF L!LinksAreTyped, L!TabsAreTyped, L!Blank, L!FormsNameTheirHandle
<1>3. g # None => g = tab[t].for /\ g \in Attendee
  BY <1>a, <1>2, BearerIsNamed
<1>4. cancelled' \subseteq Attendee
  BY <1>1, <1>3 DEF L!LinksAreTyped, L!TypeOK
<1>5. CASE UNCHANGED <<answer, tab, meant>>
  BY <1>1, <1>4, <1>5 DEF L!LinksAreTyped, L!TypeOK, L!TabsAreTyped, L!LinksExpireWithTheirSeries,
     L!Expiry, L!CookiesKeepTheirName, L!FormsNameTheirHandle, L!AnswerIsForTheNamed
<1>6. CASE /\ g # None /\ answer' = [answer EXCEPT ![g] = [status |-> r, at |-> now]]
           /\ meant' = [meant EXCEPT ![tab[t].for] = r]
           /\ tab' \in {tab, [tab EXCEPT ![t].highlighted = r]}
  <2>1. [status |-> r, at |-> now] \in [status : L!Response, at : Nat]
    BY DEF L!LinksAreTyped, L!TypeOK
  <2>2. answer' \in [Attendee -> {None} \cup [status : L!Response, at : Nat]]
        /\ answer'[g] = [status |-> r, at |-> now] /\ answer'[g] # None
        /\ \A a \in Attendee : a # g => answer'[a] = answer[a]
    BY <1>3, <1>6, <2>1 DEF L!LinksAreTyped
  <2>3. meant' \in [Attendee -> {None} \cup L!Response] /\ meant'[g] = r
        /\ \A a \in Attendee : a # g => meant'[a] = meant[a]
    BY <1>3, <1>6 DEF L!LinksAreTyped
  <2>4. L!TabsAreTyped' /\ L!FormsNameTheirHandle'
    <3>1. PICK form : form = [tab[t] EXCEPT !.highlighted = r]
      OBVIOUS
    <3>2. form \in [at : {"form"}, handle : Attendee, for : Attendee,
                   highlighted : L!Response \cup {None}]
          /\ form.for = form.handle
      BY <1>2, <3>1
    <3>3. tab' = tab \/ tab' = [tab EXCEPT ![t] = form]
      BY <1>6, <3>1
    <3>4. CASE tab' = [tab EXCEPT ![t] = form]
      BY <3>2, <3>4 DEF L!LinksAreTyped, L!TabsAreTyped, L!FormsNameTheirHandle
    <3> QED BY <3>3, <3>4 DEF L!LinksAreTyped, L!TabsAreTyped, L!FormsNameTheirHandle
  <2>5. L!AnswerIsForTheNamed'
    BY <2>2, <2>3 DEF L!AnswerIsForTheNamed
  <2>6. L!TypeOK'
    BY <1>1, <1>4, <2>2, <2>4 DEF L!LinksAreTyped, L!TypeOK, L!TabsAreTyped, L!Blank
  <2> QED BY <1>1, <2>2, <2>3, <2>4, <2>5, <2>6 DEF L!LinksAreTyped, L!LinksExpireWithTheirSeries,
             L!Expiry, L!CookiesKeepTheirName
<1> QED BY <1>1, <1>5, <1>6

LEMMA FollowStep ==
  ASSUME L!Bounds, L!LinksInv, NEW t \in Tab, NEW l \in links, L!Follow(t, l) PROVE L!LinksInv'
<1> USE DEF L!LinksInv, L!Bounds
<1>1. l \in [for : Attendee, expires : Nat] /\ L!Verify(l) \in {None, l.for}
  BY DEF L!LinksAreTyped, L!Verify
<1>2. /\ UNCHANGED <<now, ends, links, answer, reaskAt, cancelled, meant>>
      /\ jar' \in {jar, [jar EXCEPT ![l.for] = [link |-> l, until |-> now + CookieLife]]}
      /\ tab' = [tab EXCEPT ![t] = [at |-> "arrived", handle |-> L!Verify(l)]]
  BY DEF L!Follow, L!Kept
<1>3. [link |-> l, until |-> now + CookieLife] \in
        [link : [for : Attendee, expires : Nat], until : Nat]
  BY <1>1 DEF L!LinksAreTyped, L!TypeOK
<1>4. jar' \in [Attendee -> {None} \cup [link : [for : Attendee, expires : Nat], until : Nat]]
      /\ L!CookiesKeepTheirName'
  BY <1>1, <1>2, <1>3 DEF L!LinksAreTyped, L!CookiesKeepTheirName
<1>5. /\ L!TabsAreTyped' /\ L!FormsNameTheirHandle'
      /\ \A u \in Tab : tab'[u].at \in {"blank", "arrived", "invalid", "form"}
  BY <1>1, <1>2 DEF L!LinksAreTyped, L!TabsAreTyped, L!TypeOK, L!FormsNameTheirHandle
<1> QED BY <1>2, <1>4, <1>5 DEF L!LinksAreTyped, L!TypeOK, L!LinksExpireWithTheirSeries, L!Expiry,
           L!AnswerIsForTheNamed

LEMMA LoadStep ==
  ASSUME L!Bounds, L!LinksInv, NEW t \in Tab, NEW throttled \in BOOLEAN, L!Load(t, throttled)
  PROVE  L!LinksInv'
<1> USE DEF L!LinksInv, L!Bounds
<1>1. /\ UNCHANGED <<now, ends, links, jar, answer, reaskAt, cancelled, meant>>
      /\ tab[t].at = "arrived"
  BY DEF L!Load
<1>2. tab[t].handle \in Attendee \cup {None}
  BY <1>1 DEF L!LinksAreTyped, L!TabsAreTyped, L!Blank
<1>3. \/ tab' = [tab EXCEPT ![t] = [at |-> "invalid"]]
      \/ \E h \in Attendee, s \in L!Response \cup {None} :
           tab' = [tab EXCEPT ![t] = [at |-> "form", handle |-> h, for |-> h, highlighted |-> s]]
  <2> DEFINE g == L!Bearer(tab[t].handle)
             shown == IF answer[g] = None \/ L!IsStale(g) THEN None ELSE answer[g].status
  <2>1. CASE g = None \/ g \in cancelled \/ throttled
    BY <2>1 DEF L!Load
  <2>2. CASE ~(g = None \/ g \in cancelled \/ throttled)
    <3>1. g = tab[t].handle /\ g \in Attendee
      BY <1>2, <2>2, BearerIsNamed
    <3>2. shown \in L!Response \cup {None}
      BY <3>1 DEF L!LinksAreTyped
    <3>3. tab' = [tab EXCEPT ![t] = [at |-> "form", handle |-> tab[t].handle, for |-> g,
                                     highlighted |-> shown]]
      BY <2>2 DEF L!Load
    <3> QED BY <3>1, <3>2, <3>3
  <2> QED BY <2>1, <2>2
<1>4. /\ L!TabsAreTyped' /\ L!FormsNameTheirHandle'
      /\ \A u \in Tab : tab'[u].at \in {"blank", "arrived", "invalid", "form"}
  BY <1>3 DEF L!LinksAreTyped, L!TabsAreTyped, L!TypeOK, L!FormsNameTheirHandle
<1> QED BY <1>1, <1>4 DEF L!LinksAreTyped, L!TypeOK, L!LinksExpireWithTheirSeries, L!Expiry,
           L!CookiesKeepTheirName, L!AnswerIsForTheNamed

LEMMA MailStep ==
  ASSUME L!Bounds, L!LinksInv, NEW a \in Attendee, L!Mail(a) PROVE L!LinksInv'
<1> USE DEF L!LinksInv, L!Bounds
<1>1. /\ UNCHANGED <<now, ends, jar, tab, answer, reaskAt, cancelled, meant>>
      /\ links' = links \cup {[for |-> a, expires |-> L!Expiry(a)]}
  BY DEF L!Mail
<1>2. L!Expiry(a) \in Nat
  BY DEF L!Expiry, L!LinksAreTyped
<1>3. \A b \in Attendee : L!Expiry(b)' = L!Expiry(b)
  BY <1>1 DEF L!Expiry
<1>4. links' \subseteq [for : Attendee, expires : Nat]
  BY <1>1, <1>2 DEF L!LinksAreTyped
<1>5. \A l \in links' : l.expires = L!Expiry(l.for)
  BY <1>1 DEF L!LinksExpireWithTheirSeries
<1>6. L!LinksExpireWithTheirSeries'
  BY <1>3, <1>4, <1>5 DEF L!LinksExpireWithTheirSeries
<1> QED BY <1>1, <1>4, <1>6 DEF L!LinksAreTyped, L!TypeOK, L!TabsAreTyped, L!CookiesKeepTheirName,
           L!FormsNameTheirHandle, L!AnswerIsForTheNamed

LEMMA LinksStep == ASSUME L!Bounds PROVE L!LinksInv /\ [L!Next]_L!vars => L!LinksInv'
<1> SUFFICES ASSUME L!LinksInv, [L!Next]_L!vars PROVE L!LinksInv'
  OBVIOUS
<1>1. ASSUME UNCHANGED <<ends, links, jar, tab, answer, meant>>,
             now' \in 1 .. MaxNow, cancelled' \subseteq Attendee
      PROVE  L!LinksInv'
  BY <1>1 DEF L!LinksInv, L!LinksAreTyped, L!TypeOK, L!TabsAreTyped, L!LinksExpireWithTheirSeries,
     L!Expiry, L!CookiesKeepTheirName, L!FormsNameTheirHandle, L!AnswerIsForTheNamed
<1>2. now \in 1 .. MaxNow /\ cancelled \subseteq Attendee
  BY DEF L!LinksInv, L!LinksAreTyped, L!TypeOK
<1>3. ASSUME NEW a \in Attendee, L!Reask(a) \/ L!Cancel(a) PROVE L!LinksInv'
  BY <1>1, <1>2, <1>3 DEF L!Reask, L!Cancel
<1>4. ASSUME NEW t \in Tab, L!Close(t) PROVE L!LinksInv'
  <2>1. tab' = [tab EXCEPT ![t] = L!Blank]
        /\ UNCHANGED <<now, ends, links, jar, answer, reaskAt, cancelled, meant>>
    BY <1>4 DEF L!Close
  <2>2. L!TabsAreTyped' /\ L!FormsNameTheirHandle'
        /\ \A u \in Tab : tab'[u].at \in {"blank", "arrived", "invalid", "form"}
    BY <2>1 DEF L!LinksInv, L!LinksAreTyped, L!TabsAreTyped, L!TypeOK, L!FormsNameTheirHandle,
       L!Blank
  <2> QED BY <2>1, <2>2 DEF L!LinksInv, L!LinksAreTyped, L!TypeOK, L!LinksExpireWithTheirSeries,
             L!Expiry, L!CookiesKeepTheirName, L!AnswerIsForTheNamed
<1>5. CASE L!Tick
  <2>1. now' \in 1 .. MaxNow
    BY <1>2, <1>5 DEF L!Tick, L!Bounds
  <2> QED BY <1>1, <1>2, <1>5, <2>1 DEF L!Tick
<1>6. CASE UNCHANGED L!vars
  BY <1>1, <1>2, <1>6 DEF L!vars
<1> QED BY <1>3, <1>4, <1>5, <1>6, MailStep, FollowStep, LoadStep, AnswerStep DEF L!Next

THEOREM LinksAnswerForTheNamed ==
  ASSUME L!Bounds
  PROVE  L!Spec => [](L!TypeOK /\ L!AnswerIsForTheNamed /\ L!OpenSeriesStaysAnswerable)
<1>1. L!Init => L!LinksInv
  <2> SUFFICES ASSUME L!Bounds, L!Init PROVE L!LinksInv
    OBVIOUS
  <2>1. now \in 1 .. MaxNow
    BY DEF L!Bounds, L!Init
  <2> QED BY <2>1 DEF L!Init, L!LinksInv, L!LinksAreTyped, L!TypeOK, L!TabsAreTyped,
             L!LinksExpireWithTheirSeries, L!CookiesKeepTheirName, L!FormsNameTheirHandle,
             L!AnswerIsForTheNamed, L!Blank
<1>2. L!LinksInv => L!TypeOK /\ L!AnswerIsForTheNamed /\ L!OpenSeriesStaysAnswerable
  BY DEF L!LinksInv, L!LinksAreTyped, L!LinksExpireWithTheirSeries, L!OpenSeriesStaysAnswerable,
     L!Verify, L!Expiry
<1> QED BY <1>1, <1>2, LinksStep, PTL DEF L!Spec

------------------------------------------------------------------------------
\* The guests of an event, their answers and their mails (Guests).

\* A save begins: it is stamped, and reads the event as it is.
LEMMA BeginSaveStep ==
  ASSUME G!Bounds, G!GuestsInv, NEW s \in Save, NEW slot \in Hour, NEW title \in 0 .. 1,
         NEW busy \in 0 .. 1, NEW listed \in SUBSET Invitee,
         G!BeginSave(s, slot, title, busy, listed)
  PROVE  G!GuestsInv'
<1> USE DEF G!GuestsInv, G!GuestsAreTyped, G!Bounds
<1> DEFINE call == [at |-> "read", now |-> clock, before |-> event,
                    after |-> [slot |-> slot, title |-> title, busy |-> busy],
                    guests |-> listed]
<1>1. /\ calls[s] = G!Idle /\ saves < MaxSaves /\ ~event.deleted
      /\ calls' = [calls EXCEPT ![s] = call] /\ clock' = clock + 1 /\ saves' = saves + 1
      /\ raced' = (raced \/ ~G!Settled)
      /\ UNCHANGED <<event, rows, checking, mails, held, answers, drops>>
  BY DEF G!BeginSave
<1>2. call \in G!ReadCall
  BY DEF G!ReadCall
<1>3. calls' \in [Save -> {G!Idle} \cup G!ReadCall \cup G!EmitCall \cup G!CancelCall]
      /\ calls'[s] = call /\ \A t \in Save : t # s => calls'[t] = calls[t]
  BY <1>1, <1>2
<1>4. G!GuestsAreTyped'
  BY <1>1, <1>3 DEF G!Event
<1>5. G!Reading' = G!Reading \cup {s} /\ s \notin G!Reading /\ G!Invited' = G!Invited
  BY <1>1, <1>3 DEF G!Reading, G!Idle, G!Invited
<1>6. G!BumpsAreSaves'
  <2>1. IsFiniteSet(G!Reading') /\ Cardinality(G!Reading') = Cardinality(G!Reading) + 1
        /\ Cardinality(G!Reading) \in Nat
    BY <1>5, FS_AddElement, FS_CardinalityType, SameCounting DEF G!BumpsAreSaves
  <2> QED BY <1>1, <2>1, SameCounting DEF G!BumpsAreSaves, G!Event
<1>7. G!StampsArePast'
  <2>1. \A g \in G!Invited : rows[g].respondedAt \in Nat
    BY DEF G!Invited, G!Row
  <2>2. \A t \in G!Reading : calls[t].now \in Nat
    BY DEF G!Reading, G!Idle, G!ReadCall, G!EmitCall, G!CancelCall
  <2>3. event.reaskAt \in Nat
    BY DEF G!Event
  <2>4. \A t \in G!Reading' : calls'[t].now < clock'
    BY <1>1, <1>3, <1>5, <2>2 DEF G!StampsArePast
  <2> QED BY <1>1, <1>5, <2>1, <2>3, <2>4 DEF G!StampsArePast
<1>8. G!SavesAreAlone'
  <2> SUFFICES ASSUME ~raced' PROVE G!SavesAreAlone'
    BY DEF G!SavesAreAlone
  <2>1. ~raced /\ \A t \in Save : calls[t] = G!Idle
    BY <1>1 DEF G!Settled
  <2>2. \A t \in Save : t # s => calls'[t] = G!Idle
    BY <1>3, <2>1
  <2> QED BY <1>1, <1>3, <1>5, <2>1, <2>2 DEF G!SavesAreAlone, G!StampsArePast, G!Idle
<1>9. G!StaleIsKnown' /\ G!SequencesAgree'
  BY <1>1, <1>5 DEF G!StaleIsKnown, G!SequencesAgree
<1>10. G!NobodyIsForgotten'
  <2>1. \A g \in Invitee : G!Informed(g)' = G!Informed(g)
    BY <1>1 DEF G!Informed
  <2>2. \A g \in Invitee : G!Owed(g) => G!Owed(g)'
    BY <1>1, <1>3 DEF G!Owed, G!Idle
  <2> QED BY <1>1, <1>5, <2>1, <2>2 DEF G!NobodyIsForgotten, G!Invited
<1> QED BY <1>4, <1>6, <1>7, <1>8, <1>9, <1>10

\* The save commits: the event as submitted, who stays on the list as he was.
LEMMA CommitSaveStep ==
  ASSUME G!Bounds, G!GuestsInv, NEW s \in Save, G!CommitSave(s) PROVE G!GuestsInv'
<1> USE DEF G!GuestsInv, G!GuestsAreTyped, G!Bounds
<1>a. PICK c \in G!ReadCall : c = calls[s]
  <2>1. calls[s].at = "read"
    BY DEF G!CommitSave
  <2> QED BY <2>1 DEF G!Idle, G!EmitCall, G!CancelCall
<1>b. PICK resends \in BOOLEAN : resends = G!Resends(c.before, c.after)
  BY DEF G!Resends, G!Reasks
<1>e. PICK bumps \in BOOLEAN : bumps = G!Bumps(c.before, c.after) /\ (resends => bumps)
  BY <1>b DEF G!Bumps, G!Resends, G!Reasks
<1>c. PICK reasks \in BOOLEAN : reasks = G!Reasks(c.before, c.after)
  BY DEF G!Reasks
<1>d. PICK emit : emit = [at |-> "emit", resends |-> resends, invited |-> c.guests \ G!Invited,
                          dropped |-> G!Invited \ c.guests]
  OBVIOUS
<1>1. /\ event' = [event EXCEPT !.slot = c.after.slot, !.title = c.after.title,
                     !.busy = c.after.busy,
                     !.sequence = IF bumps THEN @ + 1 ELSE @,
                     !.told = IF resends THEN event.sequence + 1 ELSE @,
                     !.reaskAt = IF reasks THEN c.now ELSE @]
      /\ rows' = [g \in Invitee |-> IF g \notin c.guests THEN None
                                  ELSE IF rows[g] = None THEN G!NeedsAction ELSE rows[g]]
      /\ calls' = [calls EXCEPT ![s] = emit]
      /\ UNCHANGED <<checking, mails, held, clock, saves, answers, drops, raced>>
  BY <1>a, <1>b, <1>c, <1>d, <1>e DEF G!CommitSave, G!DiffGuests, G!Stamp
<1>2. /\ c.at = "read" /\ c.now \in Nat /\ c.before \in G!Event /\ c.guests \subseteq Invitee
      /\ c.after.slot \in Hour /\ c.after.title \in 0 .. 1 /\ c.after.busy \in 0 .. 1
  BY DEF G!ReadCall
<1>3. emit \in G!EmitCall /\ emit.at = "emit" /\ emit.resends = resends
      /\ emit.invited = c.guests \ G!Invited
  BY <1>2, <1>d DEF G!EmitCall, G!Invited
<1>4. calls' \in [Save -> {G!Idle} \cup G!ReadCall \cup G!EmitCall \cup G!CancelCall]
      /\ calls'[s] = emit /\ \A t \in Save : t # s => calls'[t] = calls[t]
  BY <1>1, <1>3
<1>5. /\ event' \in G!Event /\ event'.slot = c.after.slot /\ event'.deleted = event.deleted
      /\ event'.sequence = (IF bumps THEN event.sequence + 1 ELSE event.sequence)
      /\ event'.told = (IF resends THEN event.sequence + 1 ELSE event.told)
      /\ event.told \in Nat
      /\ event'.reaskAt = (IF reasks THEN c.now ELSE event.reaskAt)
      /\ event.sequence \in Nat /\ event.reaskAt \in Nat
      /\ event'.sequence \in Nat /\ event'.reaskAt \in Nat
  <2>1. \A n, k, r \in Nat : [event EXCEPT !.slot = c.after.slot, !.title = c.after.title,
                                !.busy = c.after.busy, !.sequence = n, !.told = k,
                                !.reaskAt = r] \in G!Event
    BY <1>2 DEF G!Event
  <2>2. event.sequence \in Nat /\ event.reaskAt \in Nat /\ event.told \in Nat
    BY DEF G!Event
  <2>3. (IF bumps THEN event.sequence + 1 ELSE event.sequence) \in Nat
        /\ (IF resends THEN event.sequence + 1 ELSE event.told) \in Nat
        /\ (IF reasks THEN c.now ELSE event.reaskAt) \in Nat
    BY <1>2, <2>2
  <2>4. PICK n, k, r \in Nat :
          /\ n = (IF bumps THEN event.sequence + 1 ELSE event.sequence)
          /\ k = (IF resends THEN event.sequence + 1 ELSE event.told)
          /\ r = (IF reasks THEN c.now ELSE event.reaskAt)
    BY <2>3
  <2>5. event' = [event EXCEPT !.slot = c.after.slot, !.title = c.after.title,
                               !.busy = c.after.busy, !.sequence = n, !.told = k, !.reaskAt = r]
    BY <1>1, <2>4
  <2>6. event' \in G!Event
    BY <2>1, <2>5
  <2>7. event'.slot = c.after.slot /\ event'.deleted = event.deleted
        /\ event'.sequence = n /\ event'.told = k /\ event'.reaskAt = r
    BY <2>5 DEF G!Event
  <2> QED BY <2>2, <2>4, <2>6, <2>7
<1>6. \A g \in Invitee :
        \/ rows'[g] = None
        \/ g \in c.guests \ G!Invited /\ rows'[g] = G!NeedsAction
        \/ g \in c.guests \cap G!Invited /\ rows'[g] = rows[g]
  BY <1>1 DEF G!Invited
<1>7. /\ G!NeedsAction \in G!Row
      /\ G!NeedsAction.status = "needs-action" /\ G!NeedsAction.respondedAt = 0
  BY DEF G!NeedsAction, G!Row
<1>8. rows' \in [Invitee -> {None} \cup G!Row]
  BY <1>1, <1>7
<1>9. G!GuestsAreTyped'
  BY <1>1, <1>4, <1>5, <1>8
<1>10. s \in G!Reading /\ G!Reading' = G!Reading \ {s}
  BY <1>a, <1>2, <1>3, <1>4 DEF G!Reading
<1>11. G!BumpsAreSaves'
  <2>1. /\ IsFiniteSet(G!Reading') /\ Cardinality(G!Reading') = Cardinality(G!Reading) - 1
        /\ Cardinality(G!Reading) \in Nat
    BY <1>10, FS_RemoveElement, FS_CardinalityType, SameCounting DEF G!BumpsAreSaves
  <2> QED BY <1>1, <1>5, <1>e, <2>1, SameCounting DEF G!BumpsAreSaves
<1>12. G!StampsArePast'
  <2>1. \A g \in G!Invited' : rows'[g].respondedAt < clock
    BY <1>6, <1>7 DEF G!Invited, G!StampsArePast
  <2>2. \A t \in G!Reading' : calls'[t].now < clock
    BY <1>4, <1>10 DEF G!StampsArePast, G!Reading
  <2>3. event'.reaskAt < clock
    BY <1>a, <1>5, <1>10 DEF G!StampsArePast
  <2> QED BY <1>1, <2>1, <2>2, <2>3 DEF G!StampsArePast
<1>13. ASSUME ~raced
       PROVE  /\ c.before = event /\ ~event.deleted
              /\ \A g \in G!Invited : rows[g].respondedAt < c.now
              /\ \A t \in Save : t # s => calls[t] = G!Idle
  <2>1. calls[s] # G!Idle
    BY <1>a, <1>2 DEF G!Idle
  <2> QED BY <1>a, <1>2, <1>13, <2>1 DEF G!SavesAreAlone
<1>14. G!SavesAreAlone'
  <2> SUFFICES ASSUME ~raced' PROVE G!SavesAreAlone'
    BY DEF G!SavesAreAlone
  <2>1. \A t \in Save : t # s => calls'[t] = G!Idle
    BY <1>1, <1>4, <1>13
  <2> QED BY <1>1, <1>3, <1>4, <1>5, <1>13, <2>1 DEF G!SavesAreAlone, G!Idle
<1>15. G!StaleIsKnown'
  <2> SUFFICES ASSUME ~raced, NEW g \in G!Invited'
               PROVE  /\ (rows'[g].respondedAt = 0) = (rows'[g].status = "needs-action")
                      /\ rows'[g].status # "needs-action" /\ rows'[g].to # event'.slot
                           => rows'[g].respondedAt < event'.reaskAt
    BY <1>1 DEF G!StaleIsKnown
  <2>1. CASE rows'[g] = G!NeedsAction
    BY <1>7, <2>1
  <2>2. CASE g \in G!Invited /\ rows'[g] = rows[g]
    <3>1. reasks <=> event.slot # event'.slot
      BY <1>c, <1>5, <1>13 DEF G!Reasks
    <3> QED BY <1>5, <1>13, <2>2, <3>1 DEF G!StaleIsKnown
  <2> QED BY <1>6, <2>1, <2>2 DEF G!Invited
<1>16. ASSUME ~raced PROVE (event'.slot = event.slot /\ event'.told = event.told) \/ resends
  <2>1. ~resends => event.slot = c.after.slot
    BY <1>b, <1>13, <1>16 DEF G!Resends, G!Reasks
  <2> QED BY <1>5, <2>1
<1>17. G!SequencesAgree'
  <2> SUFFICES ASSUME ~raced PROVE G!SequencesAgree'
    BY <1>1 DEF G!SequencesAgree
  <2>1. event.sequence <= event'.sequence /\ (resends => event.sequence < event'.told)
    BY <1>5
  <2>2. \A m \in mails : m.sequence \in Nat
    BY DEF G!Mail
  <2>3. \A g \in Invitee : held[g] # None => held[g].sequence \in Nat
    BY DEF G!Entry
  <2>4. ASSUME NEW g \in Invitee, held[g] # None
        PROVE  /\ held[g].sequence <= event'.sequence
               /\ held[g].sequence >= event'.told =>
                    held[g].slot = event'.slot /\ held[g].cancelled = event'.deleted
    <3>1. /\ held[g].sequence <= event.sequence /\ held[g].sequence \in Nat
          /\ held[g].sequence >= event.told =>
               held[g].slot = event.slot /\ held[g].cancelled = event.deleted
      BY <2>3, <2>4 DEF G!SequencesAgree
    <3> QED BY <1>5, <1>16, <2>1, <3>1
  <2>5. ASSUME NEW m \in mails, m.kind # "removed"
        PROVE  /\ m.sequence <= event'.sequence
               /\ m.sequence >= event'.told =>
                    m.slot = event'.slot /\ (m.kind = "cancelled") = event'.deleted
    <3>1. /\ m.sequence <= event.sequence /\ m.sequence \in Nat
          /\ m.sequence >= event.told =>
               m.slot = event.slot /\ (m.kind = "cancelled") = event.deleted
      BY <2>2, <2>5 DEF G!SequencesAgree
    <3> QED BY <1>5, <1>16, <2>1, <3>1
  <2> QED BY <1>1, <2>4, <2>5 DEF G!SequencesAgree
<1>18. G!NobodyIsForgotten'
  <2> SUFFICES ASSUME ~raced, drops = 0, NEW g \in Invitee, g \in G!Invited'
               PROVE  G!Informed(g)' \/ G!Owed(g)'
    BY <1>1 DEF G!NobodyIsForgotten, G!Invited
  <2>1. CASE resends \/ g \in c.guests \ G!Invited
    BY <1>3, <1>4, <2>1 DEF G!Owed
  <2>2. CASE ~resends /\ g \in G!Invited
    <3>1. ~G!Owed(g)
      BY <1>a, <1>2, <1>13 DEF G!Owed, G!Idle
    <3>2. G!Informed(g)
      BY <2>2, <3>1 DEF G!NobodyIsForgotten
    <3> QED BY <1>1, <1>5, <2>2, <3>2 DEF G!Informed
  <2> QED BY <1>6, <2>1, <2>2 DEF G!Invited
<1> QED BY <1>9, <1>11, <1>12, <1>14, <1>15, <1>17, <1>18

\* What a save or a cancellation posts says what the event says.
LEMMA PostStep ==
  ASSUME G!Bounds, G!GuestsInv, NEW s \in Save, calls[s].at \in {"emit", "cancel"},
         NEW owed \in SUBSET G!Mail, IsFiniteSet(owed), G!Post(owed),
         \A m \in owed : /\ m.sequence = event.sequence /\ m.slot = event.slot
                         /\ m.kind = "cancelled" <=> calls[s].at = "cancel",
         \A g \in G!Invited :
           (calls[s].at = "emit" /\ (g \in calls[s].invited \/ calls[s].resends))
             \/ (calls[s].at = "cancel" /\ g \in calls[s].guests)
           => \E m \in owed : m.to = g /\ m.kind # "removed",
         calls' = [calls EXCEPT ![s] = G!Idle],
         UNCHANGED <<event, rows, checking, held, clock, saves, answers, raced>>
  PROVE  G!GuestsInv'
<1> USE DEF G!GuestsInv, G!GuestsAreTyped, G!Bounds
<1>1. PICK lost \in SUBSET owed :
        /\ drops + Cardinality(lost) <= MaxDrops /\ drops' = drops + Cardinality(lost)
        /\ mails' = mails \cup (owed \ lost)
  BY SameCounting DEF G!Post
<1>2. IsFiniteSet(lost) /\ Cardinality(lost) \in Nat
  BY FS_Subset, FS_CardinalityType
<1>3. calls'[s] = G!Idle /\ \A t \in Save : t # s => calls'[t] = calls[t]
  OBVIOUS
<1>4. G!GuestsAreTyped'
  <2>1. drops' \in 0 .. MaxDrops
    BY <1>1, <1>2
  <2>2. mails' \subseteq G!Mail
    BY <1>1
  <2> QED BY <2>1, <2>2
<1>5. G!Reading' = G!Reading /\ G!Invited' = G!Invited
  BY <1>3 DEF G!Reading, G!Idle, G!Invited
<1>6. G!BumpsAreSaves'
  BY <1>5 DEF G!BumpsAreSaves
<1>7. G!StampsArePast'
  BY <1>3, <1>5 DEF G!StampsArePast, G!Reading, G!Idle
<1>8. G!SavesAreAlone'
  BY <1>3, <1>5 DEF G!SavesAreAlone, G!Idle
<1>9. G!StaleIsKnown'
  BY <1>5 DEF G!StaleIsKnown
<1>10. G!SequencesAgree'
  <2> SUFFICES ASSUME ~raced PROVE G!SequencesAgree'
    BY DEF G!SequencesAgree
  <2>1. event.deleted <=> calls[s].at = "cancel"
    BY DEF G!SavesAreAlone
  <2>2. event.sequence \in Nat /\ event.deleted \in BOOLEAN
    BY DEF G!Event
  <2>3. \A m \in mails' : m.kind # "removed" =>
          /\ m.sequence <= event.sequence
          /\ m.sequence >= event.told =>
               m.slot = event.slot /\ (m.kind = "cancelled") = event.deleted
    BY <1>1, <2>1, <2>2 DEF G!SequencesAgree
  <2> QED BY <2>3 DEF G!SequencesAgree
<1>11. G!NobodyIsForgotten'
  <2> SUFFICES ASSUME ~raced, drops' = 0, NEW g \in Invitee, g \in G!Invited
               PROVE  G!Informed(g)' \/ G!Owed(g)'
    BY <1>5 DEF G!NobodyIsForgotten, G!Invited
  <2>1. drops = 0 /\ lost = {}
    BY <1>1, <1>2, FS_EmptySet
  <2>2. mails' = mails \cup owed
    BY <1>1, <2>1
  <2>3. CASE G!Informed(g)
    BY <2>2, <2>3 DEF G!Informed
  <2>4. CASE G!Owed(g)
    <3>1. PICK t \in Save : \/ calls[t].at = "emit" /\ (g \in calls[t].invited \/ calls[t].resends)
                            \/ calls[t].at = "cancel" /\ g \in calls[t].guests
      BY <2>4 DEF G!Owed
    <3>2. CASE t # s
      BY <1>3, <3>1, <3>2 DEF G!Owed
    <3>3. CASE t = s
      <4>1. PICK m \in owed : m.to = g /\ m.kind # "removed"
        BY <3>1, <3>3
      <4>2. m \in mails' /\ m.sequence >= event'.told
        BY <2>2 DEF G!BumpsAreSaves, G!Event
      <4> QED BY <4>1, <4>2 DEF G!Informed
    <3> QED BY <3>2, <3>3
  <2> QED BY <2>1, <2>3, <2>4 DEF G!NobodyIsForgotten
<1> QED BY <1>4, <1>6, <1>7, <1>8, <1>9, <1>10, <1>11

\* One mail for each of some guests is finitely many mails.
LEMMA MailsAreFinite ==
  ASSUME G!Bounds, G!GuestsInv, NEW to \in SUBSET Invitee,
         NEW kind \in {"invite", "update", "removed", "cancelled"}
  PROVE  /\ {G!Series(g, kind) : g \in to} \subseteq G!Mail
         /\ IsFiniteSet({G!Series(g, kind) : g \in to})
<1> DEFINE posted == {G!Series(g, kind) : g \in to}
           mailTo == [g \in to |-> G!Series(g, kind)]
<1>1. posted \subseteq G!Mail
  BY DEF G!Series, G!Mail, G!GuestsInv, G!GuestsAreTyped, G!Event
<1>2. IsFiniteSet(to)
  BY FS_Subset, SameCounting DEF G!Bounds
<1>3. mailTo \in Surjection(to, posted)
  BY DEF Surjection
<1> HIDE DEF posted, mailTo
<1>4. IsFiniteSet(posted)
  BY <1>2, <1>3, FS_Surjection
<1> QED BY <1>1, <1>4 DEF posted

LEMMA EmitSaveStep ==
  ASSUME G!Bounds, G!GuestsInv, NEW s \in Save, G!EmitSave(s) PROVE G!GuestsInv'
<1> USE DEF G!GuestsInv, G!GuestsAreTyped, G!Bounds
<1>1. calls[s].at = "emit" /\ calls[s] \in G!EmitCall
  BY DEF G!EmitSave, G!Idle, G!ReadCall, G!CancelCall
<1>a. PICK c \in G!EmitCall : c = calls[s]
  BY <1>1
<1> DEFINE invites == {G!Series(g, "invite") : g \in c.invited}
           notices == {G!Series(g, "removed") : g \in c.dropped}
           updates == {G!Series(g, "update") :
                         g \in IF c.resends THEN G!Invited \ c.invited ELSE {}}
<1>2. c.invited \subseteq Invitee /\ c.dropped \subseteq Invitee /\ G!Invited \subseteq Invitee
  BY DEF G!EmitCall, G!Invited
<1>3. /\ invites \subseteq G!Mail /\ notices \subseteq G!Mail /\ updates \subseteq G!Mail
      /\ IsFiniteSet(invites) /\ IsFiniteSet(notices) /\ IsFiniteSet(updates)
  BY <1>2, MailsAreFinite
<1>4. PICK owed \in SUBSET G!Mail : owed = G!OwedAfterSave(calls[s])
  BY <1>a, <1>3 DEF G!OwedAfterSave
<1>5. owed = invites \cup notices \cup updates
  BY <1>a, <1>4 DEF G!OwedAfterSave
<1>6. IsFiniteSet(owed)
  BY <1>3, <1>5, FS_Union
<1>7. \A m \in owed : /\ m.sequence = event.sequence /\ m.slot = event.slot
                      /\ m.kind # "cancelled"
  BY <1>5 DEF G!Series
<1>8. ASSUME NEW g \in G!Invited, g \in c.invited \/ c.resends
      PROVE  \E m \in owed : m.to = g /\ m.kind # "removed"
  <2>1. G!Series(g, "invite") \in owed \/ G!Series(g, "update") \in owed
    BY <1>5, <1>8
  <2> QED BY <2>1 DEF G!Series
<1>9. G!Post(owed) /\ calls' = [calls EXCEPT ![s] = G!Idle]
      /\ UNCHANGED <<event, rows, checking, held, clock, saves, answers, raced>>
  BY <1>4 DEF G!EmitSave
<1> HIDE DEF invites, notices, updates, G!GuestsInv, G!GuestsAreTyped
<1> QED BY <1>1, <1>a, <1>6, <1>7, <1>8, <1>9, PostStep

LEMMA EmitCancelStep ==
  ASSUME G!Bounds, G!GuestsInv, NEW s \in Save, G!EmitCancel(s) PROVE G!GuestsInv'
<1>1. calls[s].at = "cancel" /\ calls[s].guests \in SUBSET Invitee
  BY DEF G!EmitCancel, G!GuestsInv, G!GuestsAreTyped, G!Idle, G!ReadCall, G!EmitCall, G!CancelCall
<1>a. PICK to \in SUBSET Invitee : to = calls[s].guests
  BY <1>1
<1>2. PICK owed \in SUBSET G!Mail : owed = {G!Series(g, "cancelled") : g \in to}
  BY MailsAreFinite
<1>3. IsFiniteSet(owed)
  BY <1>2, MailsAreFinite
<1>4. \A m \in owed : m.sequence = event.sequence /\ m.slot = event.slot /\ m.kind = "cancelled"
  <2> SUFFICES ASSUME NEW m \in owed
               PROVE  m.sequence = event.sequence /\ m.slot = event.slot /\ m.kind = "cancelled"
    OBVIOUS
  <2>1. PICK g \in to : m = G!Series(g, "cancelled")
    BY <1>2
  <2> QED BY <2>1 DEF G!Series
<1>5. \A g \in to : \E m \in owed : m.to = g /\ m.kind # "removed"
  <2> SUFFICES ASSUME NEW g \in to
               PROVE  \E m \in owed : m.to = g /\ m.kind # "removed"
    OBVIOUS
  <2>1. G!Series(g, "cancelled") \in owed
    BY <1>2
  <2> QED BY <2>1 DEF G!Series
<1>6. G!Post(owed) /\ calls' = [calls EXCEPT ![s] = G!Idle]
      /\ UNCHANGED <<event, rows, checking, held, clock, saves, answers, raced>>
  BY <1>2, <1>a DEF G!EmitCancel
<1> QED BY <1>1, <1>a, <1>3, <1>4, <1>5, <1>6, PostStep

\* The event is deleted, and everyone on its list is owed the cancellation.
LEMMA DeleteEventStep ==
  ASSUME G!Bounds, G!GuestsInv, NEW s \in Save, G!Delete(s) PROVE G!GuestsInv'
<1> USE DEF G!GuestsInv, G!GuestsAreTyped, G!Bounds
<1> DEFINE call == [at |-> "cancel", guests |-> G!Invited]
<1>1. /\ calls[s] = G!Idle /\ saves < MaxSaves /\ ~event.deleted
      /\ event' = [event EXCEPT !.deleted = TRUE, !.sequence = @ + 1, !.told = event.sequence + 1]
      /\ calls' = [calls EXCEPT ![s] = call]
      /\ saves' = saves + 1 /\ raced' = (raced \/ ~G!Settled)
      /\ UNCHANGED <<rows, checking, mails, held, clock, answers, drops>>
  BY DEF G!Delete
<1>2. call \in G!CancelCall /\ G!Invited' = G!Invited
  BY <1>1 DEF G!CancelCall, G!Invited
<1>3. calls' \in [Save -> {G!Idle} \cup G!ReadCall \cup G!EmitCall \cup G!CancelCall]
      /\ calls'[s] = call /\ \A t \in Save : t # s => calls'[t] = calls[t]
  BY <1>1, <1>2
<1>4. /\ event' \in G!Event /\ event'.deleted = TRUE /\ event'.slot = event.slot
      /\ event'.sequence = event.sequence + 1 /\ event'.reaskAt = event.reaskAt
      /\ event'.told = event.sequence + 1 /\ event.sequence \in Nat
  <2>1. \A n \in Nat : [event EXCEPT !.deleted = TRUE, !.sequence = n, !.told = n] \in G!Event
    BY DEF G!Event
  <2>2. event.sequence \in Nat /\ event.sequence + 1 \in Nat
    BY DEF G!Event
  <2>a. PICK n \in Nat : n = event.sequence + 1
    BY <2>2
  <2>b. event' = [event EXCEPT !.deleted = TRUE, !.sequence = n, !.told = n]
    BY <1>1, <2>a
  <2>3. event' \in G!Event
    BY <2>1, <2>b
  <2>4. event'.deleted = TRUE /\ event'.sequence = event.sequence + 1
        /\ event'.told = event.sequence + 1
        /\ event'.slot = event.slot /\ event'.reaskAt = event.reaskAt
    BY <2>a, <2>b DEF G!Event
  <2> QED BY <2>2, <2>3, <2>4
<1>5. G!GuestsAreTyped'
  BY <1>1, <1>3, <1>4
<1>6. G!Reading' = G!Reading
  BY <1>1, <1>3 DEF G!Reading, G!Idle
<1>7. G!BumpsAreSaves'
  <2>1. Cardinality(G!Reading) \in Nat
    BY FS_CardinalityType, SameCounting DEF G!BumpsAreSaves
  <2> QED BY <1>1, <1>4, <1>6, <2>1, SameCounting DEF G!BumpsAreSaves
<1>8. G!StampsArePast'
  BY <1>1, <1>2, <1>3, <1>4, <1>6 DEF G!StampsArePast, G!Reading
<1>9. G!SavesAreAlone'
  <2> SUFFICES ASSUME ~raced' PROVE G!SavesAreAlone'
    BY DEF G!SavesAreAlone
  <2>1. \A t \in Save : t # s => calls'[t] = G!Idle
    BY <1>1, <1>3 DEF G!Settled
  <2> QED BY <1>3, <1>4, <2>1 DEF G!SavesAreAlone, G!Idle
<1>10. G!StaleIsKnown'
  BY <1>1, <1>2, <1>4 DEF G!StaleIsKnown
<1>11. G!SequencesAgree'
  <2>1. \A m \in mails : m.sequence \in Nat
    BY DEF G!Mail
  <2>2. \A g \in Invitee : held[g] # None => held[g].sequence \in Nat
    BY DEF G!Entry
  <2> SUFFICES ASSUME ~raced PROVE G!SequencesAgree'
    BY <1>1 DEF G!SequencesAgree
  <2>3. \A m \in mails : m.kind # "removed" => m.sequence < event'.told
    BY <1>4, <2>1 DEF G!SequencesAgree
  <2>4. \A g \in Invitee : held[g] # None => held[g].sequence < event'.told
    BY <1>4, <2>2 DEF G!SequencesAgree
  <2>5. \A m, n \in Nat : m < n => m <= n /\ ~(m >= n)
    OBVIOUS
  <2>6. event'.sequence \in Nat /\ event'.told = event'.sequence
    BY <1>4
  <2>7. \A m \in mails : m.kind # "removed" =>
          m.sequence <= event'.sequence /\ ~(m.sequence >= event'.told)
    BY <2>1, <2>3, <2>5, <2>6
  <2>8. \A g \in Invitee : held[g] # None =>
          held[g].sequence <= event'.sequence /\ ~(held[g].sequence >= event'.told)
    BY <2>2, <2>4, <2>5, <2>6
  <2> QED BY <1>1, <2>7, <2>8, Zenon DEF G!SequencesAgree
<1>12. G!NobodyIsForgotten'
  BY <1>2, <1>3 DEF G!NobodyIsForgotten, G!Owed
<1> QED BY <1>5, <1>7, <1>8, <1>9, <1>10, <1>11, <1>12

\* A mail is applied or ignored: the calendar never goes back.
LEMMA ReceiveStep ==
  ASSUME G!Bounds, G!GuestsInv, NEW m \in mails, G!Receive(m) PROVE G!GuestsInv'
<1> USE DEF G!GuestsInv, G!GuestsAreTyped, G!Bounds
<1>1. /\ mails' = mails \ {m} /\ held' = [held EXCEPT ![m.to] = G!Apply(m.to, m)]
      /\ UNCHANGED <<event, rows, calls, checking, clock, saves, answers, drops, raced>>
  BY DEF G!Receive
<1>2. m.to \in Invitee /\ m.sequence \in Nat /\ m.slot \in Hour
  BY DEF G!Mail
<1>a. PICK entry : entry = [sequence |-> m.sequence, slot |-> m.slot,
                            cancelled |-> m.kind = "cancelled"]
  OBVIOUS
<1>3. entry \in G!Entry /\ entry # None /\ entry.sequence = m.sequence /\ entry.slot = m.slot
      /\ entry.cancelled = (m.kind = "cancelled")
  <2>1. (m.kind = "cancelled") \in BOOLEAN
    OBVIOUS
  <2>2. entry \in G!Entry
    BY <1>2, <1>a, <2>1 DEF G!Entry
  <2> QED BY <1>a, <2>2 DEF G!Entry
<1>4. \/ /\ held' = held
         /\ m.kind = "removed" \/ (held[m.to] # None /\ m.sequence <= held[m.to].sequence)
      \/ /\ held' = [held EXCEPT ![m.to] = entry] /\ m.kind # "removed"
         /\ held[m.to] = None \/ ~(m.sequence <= held[m.to].sequence)
  BY <1>1, <1>2, <1>a DEF G!Apply
<1>5. G!GuestsAreTyped' /\ G!Invited' = G!Invited /\ G!Reading' = G!Reading
  BY <1>1, <1>2, <1>3, <1>4 DEF G!Invited, G!Reading
<1>6. G!BumpsAreSaves' /\ G!StampsArePast' /\ G!SavesAreAlone' /\ G!StaleIsKnown'
  BY <1>1, <1>5 DEF G!BumpsAreSaves, G!StampsArePast, G!SavesAreAlone, G!StaleIsKnown, G!Reading
<1>7. G!SequencesAgree'
  <2> SUFFICES ASSUME ~raced PROVE G!SequencesAgree'
    BY <1>1 DEF G!SequencesAgree
  <2>1. m.kind # "removed" =>
          /\ m.sequence <= event.sequence
          /\ m.sequence >= event.told =>
               m.slot = event.slot /\ (m.kind = "cancelled") = event.deleted
    BY DEF G!SequencesAgree
  <2>2. \A g \in Invitee : held'[g] # None =>
         /\ held'[g].sequence <= event.sequence
         /\ held'[g].sequence >= event.told =>
              held'[g].slot = event.slot /\ held'[g].cancelled = event.deleted
    BY <1>2, <1>3, <1>4, <2>1 DEF G!SequencesAgree
  <2> QED BY <1>1, <2>2 DEF G!SequencesAgree
<1>8. G!NobodyIsForgotten'
  <2> SUFFICES ASSUME ~raced, drops = 0, NEW g \in Invitee, g \in G!Invited
               PROVE  G!Informed(g)' \/ G!Owed(g)'
    BY <1>1, <1>5 DEF G!NobodyIsForgotten, G!Invited
  <2>0. event.told \in Nat /\ \A h \in Invitee : held[h] # None => held[h].sequence \in Nat
    BY DEF G!Event, G!Entry
  <2>1. CASE G!Owed(g)
    BY <1>1, <2>1 DEF G!Owed
  <2>2. CASE held[g] # None /\ held[g].sequence >= event.told
    <3>1. held'[g] # None /\ held'[g].sequence >= event.told
      BY <1>2, <1>3, <1>4, <2>0, <2>2
    <3> QED BY <1>1, <3>1 DEF G!Informed
  <2>3. ASSUME NEW n \in mails, n.to = g, n.kind # "removed", n.sequence >= event.told
        PROVE  G!Informed(g)'
    <3>1. CASE n # m
      BY <1>1, <2>3, <3>1 DEF G!Informed
    <3>2. CASE n = m /\ held' = held
      <4>1. held[g] # None /\ held[g].sequence >= event.told
        BY <1>2, <1>4, <2>0, <2>3, <3>2, <1>3
      <4> QED BY <1>1, <3>2, <4>1 DEF G!Informed
    <3>3. CASE n = m /\ held' = [held EXCEPT ![m.to] = entry]
      BY <1>1, <1>2, <1>3, <2>3, <3>3 DEF G!Informed
    <3> QED BY <1>4, <3>1, <3>2, <3>3
  <2> QED BY <2>1, <2>2, <2>3 DEF G!NobodyIsForgotten, G!Informed
<1> QED BY <1>5, <1>6, <1>7, <1>8

\* An answer is stamped with now() and is to the event as it stands.
LEMMA RecordAnswerStep ==
  ASSUME G!Bounds, G!GuestsInv, NEW g \in Invitee, g \in G!Invited, NEW status \in G!Status,
         G!Record(g, status), checking' \subseteq checking,
         UNCHANGED <<event, calls, mails, held, saves, drops>>
  PROVE  G!GuestsInv'
<1> USE DEF G!GuestsInv, G!GuestsAreTyped, G!Bounds
<1>a. PICK row : row = [status |-> status, respondedAt |-> clock, to |-> event.slot]
  OBVIOUS
<1>1. /\ rows' = [rows EXCEPT ![g] = row] /\ clock' = clock + 1 /\ answers' = answers + 1
      /\ raced' = (raced \/ \E s \in Save : calls[s].at = "read")
  BY <1>a DEF G!Record, G!Answered
<1>2. /\ row \in G!Row /\ row # None /\ row.status # "needs-action" /\ row.respondedAt = clock
      /\ row.to = event.slot
  <2>1. event.slot \in Hour
    BY DEF G!Event
  <2>2. row \in G!Row
    BY <1>a, <2>1 DEF G!Row
  <2> QED BY <1>a, <2>2 DEF G!Row, G!Status
<1>3. rows'[g] = row /\ \A h \in Invitee : h # g => rows'[h] = rows[h]
  BY <1>1
<1>4. G!GuestsAreTyped'
  BY <1>1, <1>2
<1>5. G!Invited' = G!Invited /\ G!Reading' = G!Reading
  BY <1>2, <1>3 DEF G!Invited, G!Reading
<1>6. G!BumpsAreSaves'
  BY <1>5 DEF G!BumpsAreSaves
<1>7. G!StampsArePast'
  <2>1. \A h \in G!Invited : rows[h].respondedAt \in Nat
    BY DEF G!Invited, G!Row
  <2>2. \A t \in G!Reading : calls[t].now \in Nat
    BY DEF G!Reading, G!Idle, G!ReadCall, G!EmitCall, G!CancelCall
  <2>3. event.reaskAt \in Nat
    BY DEF G!Event
  <2>4. \A h \in G!Invited : rows'[h].respondedAt < clock'
    BY <1>1, <1>2, <1>3, <2>1 DEF G!StampsArePast, G!Invited
  <2> QED BY <1>1, <1>5, <2>2, <2>3, <2>4 DEF G!StampsArePast
<1>8. G!SavesAreAlone'
  <2> SUFFICES ASSUME ~raced' PROVE G!SavesAreAlone'
    BY DEF G!SavesAreAlone
  <2>1. ~raced /\ \A t \in Save : calls[t].at # "read"
    BY <1>1
  <2> QED BY <2>1 DEF G!SavesAreAlone
<1>9. G!StaleIsKnown'
  <2> SUFFICES ASSUME ~raced, NEW h \in G!Invited
               PROVE  /\ (rows'[h].respondedAt = 0) = (rows'[h].status = "needs-action")
                      /\ rows'[h].status # "needs-action" /\ rows'[h].to # event.slot
                           => rows'[h].respondedAt < event.reaskAt
    BY <1>1, <1>5 DEF G!StaleIsKnown
  <2>1. CASE h = g
    BY <1>2, <1>3, <2>1
  <2>2. CASE h # g
    BY <1>3, <2>2 DEF G!StaleIsKnown, G!Invited
  <2> QED BY <2>1, <2>2
<1>10. G!SequencesAgree'
  BY <1>1 DEF G!SequencesAgree
<1>11. G!NobodyIsForgotten'
  <2>1. \A h \in Invitee : (G!Informed(h)' <=> G!Informed(h)) /\ (G!Owed(h)' <=> G!Owed(h))
    BY DEF G!Informed, G!Owed
  <2> QED BY <1>1, <1>5, <2>1 DEF G!NobodyIsForgotten, G!Invited
<1> QED BY <1>4, <1>6, <1>7, <1>8, <1>9, <1>10, <1>11

LEMMA GuestsStep == ASSUME G!Bounds PROVE G!GuestsInv /\ [G!Next]_G!vars => G!GuestsInv'
<1> SUFFICES ASSUME G!GuestsInv, [G!Next]_G!vars PROVE G!GuestsInv'
  OBVIOUS
<1>1. ASSUME checking' \subseteq Invitee,
             UNCHANGED <<event, rows, calls, mails, held, clock, saves, answers, drops, raced>>
      PROVE  G!GuestsInv'
  BY <1>1 DEF G!GuestsInv, G!GuestsAreTyped, G!BumpsAreSaves, G!Reading, G!StampsArePast, G!Invited,
     G!SavesAreAlone, G!StaleIsKnown, G!SequencesAgree, G!NobodyIsForgotten, G!Informed, G!Owed
<1>2. checking \subseteq Invitee
  BY DEF G!GuestsInv, G!GuestsAreTyped
<1>3. ASSUME NEW g \in Invitee, G!CheckAccess(g) PROVE G!GuestsInv'
  BY <1>1, <1>2, <1>3 DEF G!CheckAccess
<1>4. ASSUME NEW g \in Invitee, NEW status \in G!Status,
             G!AnswerByToken(g, status) \/ G!AnswerBySession(g, status)
      PROVE  G!GuestsInv'
  <2>1. CASE G!AnswerByToken(g, status)
    BY <2>1, RecordAnswerStep DEF G!AnswerByToken
  <2>2. CASE G!AnswerBySession(g, status) /\ g \in G!Invited
    BY <2>2, RecordAnswerStep DEF G!AnswerBySession
  <2>3. CASE G!AnswerBySession(g, status) /\ g \notin G!Invited
    BY <1>1, <1>2, <2>3 DEF G!AnswerBySession
  <2> QED BY <1>4, <2>1, <2>2, <2>3
<1>5. CASE UNCHANGED G!vars
  BY <1>1, <1>2, <1>5 DEF G!vars
<1> QED BY <1>3, <1>4, <1>5, BeginSaveStep, CommitSaveStep, EmitSaveStep, DeleteEventStep,
           EmitCancelStep, ReceiveStep DEF G!Next

THEOREM GuestsAreKept ==
  ASSUME G!Bounds PROVE G!Spec => [](G!TypeOK /\ G!StaleIsKnown /\ G!CalendarsAgree)
<1>1. G!Init => G!GuestsInv
  <2> SUFFICES ASSUME G!Bounds, G!Init PROVE G!GuestsInv
    OBVIOUS
  <2>1. G!Invited = {} /\ G!Reading = {}
    BY DEF G!Init, G!Invited, G!Reading, G!Idle
  <2>2. event \in G!Event /\ event.sequence = 0 /\ event.reaskAt = 0 /\ event.told = 0
    BY DEF G!Init, G!Bounds, G!Event
  <2>3. G!GuestsAreTyped
    <3>1. rows \in [Invitee -> {None} \cup G!Row] /\ held \in [Invitee -> {None} \cup G!Entry]
          /\ calls \in [Save -> {G!Idle} \cup G!ReadCall \cup G!EmitCall \cup G!CancelCall]
      BY DEF G!Init
    <3>2. 0 \in 0 .. MaxSaves /\ 0 \in 0 .. MaxDrops /\ 1 \in Nat \ {0}
      BY DEF G!Bounds
    <3> QED BY <2>2, <3>1, <3>2 DEF G!Init, G!GuestsAreTyped
  <2>4. G!BumpsAreSaves
    BY <2>1, <2>2, FS_EmptySet, SameCounting DEF G!Init, G!BumpsAreSaves
  <2>5. G!StampsArePast /\ G!StaleIsKnown /\ G!NobodyIsForgotten
    BY <2>1, <2>2 DEF G!Init, G!StampsArePast, G!StaleIsKnown, G!NobodyIsForgotten
  <2>6. G!SavesAreAlone /\ G!SequencesAgree
    BY DEF G!Init, G!SavesAreAlone, G!SequencesAgree, G!Idle
  <2> QED BY <2>3, <2>4, <2>5, <2>6 DEF G!GuestsInv
<1>2. ASSUME G!Bounds, G!GuestsInv PROVE G!TypeOK
  <2>1. event.sequence \in 0 .. MaxSaves /\ event.reaskAt \in 0 .. clock
        /\ event.told \in 0 .. MaxSaves
    <3>1. Cardinality(G!Reading) \in Nat
      BY <1>2, FS_CardinalityType, SameCounting DEF G!GuestsInv, G!BumpsAreSaves
    <3> QED BY <1>2, <3>1, SameCounting
            DEF G!Bounds, G!GuestsInv, G!GuestsAreTyped, G!BumpsAreSaves, G!StampsArePast, G!Event
  <2>2. event \in [slot : Hour, title : 0 .. 1, busy : 0 .. 1, sequence : 0 .. MaxSaves,
                   reaskAt : 0 .. clock, deleted : BOOLEAN, told : 0 .. MaxSaves]
    BY <1>2, <2>1 DEF G!GuestsInv, G!GuestsAreTyped, G!Event
  <2> QED BY <1>2, <2>2 DEF G!GuestsInv, G!GuestsAreTyped, G!TypeOK, G!Invited, G!Row, G!Mail
<1>3. ASSUME G!Bounds, G!GuestsInv PROVE G!CalendarsAgree
  <2> SUFFICES ASSUME G!Settled, mails = {}, drops = 0, ~raced, NEW g \in Invitee, g \in G!Invited
               PROVE  held[g] # None /\ held[g].slot = event.slot
                      /\ held[g].cancelled = event.deleted
    BY DEF G!CalendarsAgree, G!Invited
  <2>1. ~G!Owed(g)
    BY DEF G!Owed, G!Settled, G!Idle
  <2>2. held[g] # None /\ held[g].sequence >= event.told
    BY <1>3, <2>1 DEF G!GuestsInv, G!NobodyIsForgotten, G!Informed
  <2> QED BY <1>3, <2>2 DEF G!GuestsInv, G!SequencesAgree
<1>4. G!GuestsInv => G!StaleIsKnown
  BY DEF G!GuestsInv
<1> QED BY <1>1, <1>2, <1>3, <1>4, GuestsStep, PTL DEF G!Spec

------------------------------------------------------------------------------
\* The composer of an occurrence (EventComposer).

\* A dialog on an occurrence, whatever the cache has of it.
LEMMA DialogIsTyped ==
  ASSUME NEW s \in E!Slot, NEW start \in E!Slot, NEW detail \in {E!Nothing} \cup E!Detailed
  PROVE  /\ E!Dialog(s, start, detail) \in E!Loading \cup E!Opened
         /\ E!Dialog(s, start, detail).of = s
         /\ E!Dialog(s, start, detail).mode \in {"open", "asking"} => detail \in E!Detailed
<1>1. CASE detail = E!Nothing
  <2>1. E!Dialog(s, start, detail) =
          [mode |-> "loading", of |-> s, start |-> start, seed |-> None, draft |-> None,
           intent |-> None]
    BY <1>1 DEF E!Dialog, E!Closed
  <2> QED BY <2>1 DEF E!Loading
<1>2. CASE detail # E!Nothing
  <2>1. detail \in E!Detailed
    BY <1>2
  <2>2. E!Seed(start, detail) \in E!Form
    BY <2>1 DEF E!Seed, E!Form, E!Detailed
  <2>3. E!Dialog(s, start, detail) =
          [mode |-> "open", of |-> s, start |-> start, seed |-> E!Seed(start, detail),
           draft |-> E!Seed(start, detail), intent |-> None]
    BY <1>2 DEF E!Dialog
  <2> QED BY <2>1, <2>2, <2>3 DEF E!Opened
<1> QED BY <1>1, <1>2

\* A step of the dialog that sends nothing.
LEMMA DialogStep ==
  ASSUME E!Bounds, E!ComposerInv,
         UNCHANGED <<series, edited, skipped, month, requests, sent, drops>>,
         cache' \in [E!Slot -> {E!Nothing} \cup E!Detailed],
         composer' \in {E!Closed} \cup E!Loading \cup E!Opened \cup E!Asking,
         composer'.mode \in {"open", "asking"} => cache'[composer'.of] \in E!Detailed
  PROVE  E!ComposerInv'
BY DEF E!ComposerInv, E!ComposerIsTyped, E!ShownWithItsDetail, E!WarnedAsShown,
       E!WarnedFromTheFirst

\* What is fetched is a detail, or that there is none.
LEMMA DetailIsTyped ==
  ASSUME E!ComposerInv, NEW s \in E!Slot PROVE E!Detail(s) \in {E!Nothing} \cup E!Detailed
BY DEF E!ComposerInv, E!ComposerIsTyped, E!Detail, E!Detailed, E!Override

\* The month is painted again.
LEMMA RepaintStep == ASSUME E!Bounds, E!ComposerInv, E!Repaint PROVE E!ComposerInv'
<1>1. E!Chips \in [E!Slot -> E!Slot \cup {None}]
  <2>1. \A s \in E!Slot : E!ShownAt(s) \in E!Slot \cup {None}
    BY DEF E!ShownAt, E!ComposerInv, E!ComposerIsTyped, E!Override
  <2> QED BY <2>1 DEF E!Chips
<1>2. UNCHANGED <<series, edited, skipped, cache, composer, requests, sent, drops>>
      /\ month' = E!Chips
  BY DEF E!Repaint, E!tables
<1> QED BY <1>1, <1>2 DEF E!ComposerInv, E!ComposerIsTyped, E!ShownWithItsDetail,
                         E!WarnedAsShown, E!WarnedFromTheFirst

\* A chip is clicked, a detail arrives, a field is changed, the scope question
\* is opened and cancelled, the dialog is closed, an answer arrives.
LEMMA OpenStep == ASSUME E!Bounds, E!ComposerInv, NEW s \in E!Slot, E!Open(s) PROVE E!ComposerInv'
<1>1. UNCHANGED <<series, edited, skipped, month, cache, requests, sent, drops>>
      /\ composer' = E!Dialog(s, month[s], cache[s])
  BY DEF E!Open, E!tables
<1>2. month[s] \in E!Slot /\ cache[s] \in {E!Nothing} \cup E!Detailed
      /\ cache \in [E!Slot -> {E!Nothing} \cup E!Detailed]
  BY DEF E!Open, E!ComposerInv, E!ComposerIsTyped
<1>3. /\ composer' \in E!Loading \cup E!Opened /\ composer'.of = s
      /\ composer'.mode \in {"open", "asking"} => cache[s] \in E!Detailed
  BY <1>1, <1>2, DialogIsTyped
<1> QED BY <1>1, <1>2, <1>3, DialogStep

LEMMA ArriveStep ==
  ASSUME E!Bounds, E!ComposerInv, NEW s \in E!Slot, E!Arrive(s) PROVE E!ComposerInv'
<1> DEFINE dialog == E!Dialog(s, composer.start, E!Detail(s))
<1>1. /\ UNCHANGED <<series, edited, skipped, month, requests, sent, drops>>
      /\ cache' = [cache EXCEPT ![s] = E!Detail(s)] /\ composer.of = s
      /\ composer' \in {composer, dialog}
      /\ composer' = composer => E!Detail(s) # E!Nothing \/ composer = dialog
  BY DEF E!Arrive, E!tables
<1>2. cache \in [E!Slot -> {E!Nothing} \cup E!Detailed]
      /\ composer \in {E!Closed} \cup E!Loading \cup E!Opened \cup E!Asking
  BY DEF E!ComposerInv, E!ComposerIsTyped
<1>3. /\ cache' \in [E!Slot -> {E!Nothing} \cup E!Detailed] /\ cache'[s] = E!Detail(s)
      /\ E!Detail(s) \in {E!Nothing} \cup E!Detailed
  BY <1>1, <1>2, DetailIsTyped
<1>4. composer.start \in E!Slot
  BY <1>2 DEF E!Arrive, E!Closed, E!Loading, E!Opened, E!Asking
<1>5. /\ dialog \in E!Loading \cup E!Opened /\ dialog.of = s
      /\ dialog.mode \in {"open", "asking"} => E!Detail(s) \in E!Detailed
  BY <1>3, <1>4, DialogIsTyped
<1> QED BY <1>1, <1>2, <1>3, <1>5, DialogStep

LEMMA DraftStep ==
  ASSUME E!Bounds, E!ComposerInv, NEW field, NEW value, E!Draft(field, value),
         \/ field = "start" /\ value \in E!Slot
         \/ field = "title" /\ value \in Title
         \/ field = "rule" /\ value \in E!Rrule
  PROVE  E!ComposerInv'
<1> USE DEF E!ComposerInv, E!ComposerIsTyped
<1>1. UNCHANGED <<series, edited, skipped, month, cache, requests, sent, drops>>
      /\ composer.mode = "open" /\ composer' = [composer EXCEPT !.draft[field] = value]
  BY DEF E!Draft, E!tables
<1>2. composer \in E!Opened /\ cache[composer.of] \in E!Detailed
  BY <1>1 DEF E!Closed, E!Loading, E!Asking, E!ShownWithItsDetail
<1>a. PICK draft : draft = [composer.draft EXCEPT ![field] = value]
  OBVIOUS
<1>3. draft \in E!Form
  <2>1. composer.draft \in E!Form
    BY <1>2 DEF E!Opened
  <2> QED BY <1>a, <2>1 DEF E!Form
<1>4. composer' = [composer EXCEPT !.draft = draft]
  BY <1>1, <1>a
<1>5. composer' \in E!Opened /\ composer'.of = composer.of
  BY <1>2, <1>3, <1>4 DEF E!Opened
<1> QED BY <1>1, <1>2, <1>5, DialogStep

LEMMA AskStep ==
  ASSUME E!Bounds, E!ComposerInv,
         E!CancelScope \/ \E intent \in {"edit", "delete"} : E!Submit(intent)
  PROVE  E!ComposerInv'
<1> USE DEF E!ComposerInv, E!ComposerIsTyped
<1>1. UNCHANGED <<series, edited, skipped, month, cache, requests, sent, drops>>
  BY DEF E!CancelScope, E!Submit, E!tables
<1>2. composer \in E!Opened \cup E!Asking /\ cache[composer.of] \in E!Detailed
  BY DEF E!CancelScope, E!Submit, E!Closed, E!Loading, E!ShownWithItsDetail
<1>3. composer' \in E!Opened \cup E!Asking /\ composer'.of = composer.of
  <2>1. CASE E!CancelScope
    BY <1>2, <2>1 DEF E!CancelScope, E!Opened, E!Asking
  <2>2. ASSUME NEW intent \in {"edit", "delete"}, E!Submit(intent)
        PROVE  composer' \in E!Opened \cup E!Asking /\ composer'.of = composer.of
    BY <1>2, <2>2 DEF E!Submit, E!Opened, E!Asking
  <2> QED BY <2>1, <2>2
<1> QED BY <1>1, <1>2, <1>3, DialogStep

LEMMA CloseStep ==
  ASSUME E!Bounds, E!ComposerInv, E!Close \/ \E id \in answers : E!Done(id) PROVE E!ComposerInv'
<1>1. composer' = E!Closed
      /\ UNCHANGED <<series, edited, skipped, month, cache, requests, sent, drops>>
  BY DEF E!Close, E!Done, E!tables
<1>2. E!Closed.mode = "closed" /\ cache \in [E!Slot -> {E!Nothing} \cup E!Detailed]
  BY DEF E!Closed, E!ComposerInv, E!ComposerIsTyped
<1> QED BY <1>1, <1>2, DialogStep

\* A request is sent: the form as it is, its warning, what that compared it with.
LEMMA ChooseStep ==
  ASSUME E!Bounds, E!ComposerInv, NEW scope \in E!Scopes, E!ChooseScope(scope) PROVE E!ComposerInv'
<1> USE DEF E!ComposerInv, E!ComposerIsTyped
<1>a. PICK values : values = E!Values(scope)
  OBVIOUS
<1>b. PICK warned \in BOOLEAN : warned = E!Warned(scope)
  BY DEF E!Warned
<1>c. PICK r : r = [id |-> sent, intent |-> composer.intent, scope |-> scope,
                    occurrence |-> composer.of, values |-> values, warned |-> warned,
                    start |-> composer.start, rule |-> cache[composer.of].rule]
  OBVIOUS
<1>1. /\ requests' = requests \cup {r} /\ sent' = sent + 1 /\ sent < MaxSends
      /\ composer.mode = "asking"
      /\ composer' = [composer EXCEPT !.mode = "open", !.intent = None]
      /\ UNCHANGED <<series, edited, skipped, month, cache, drops>>
  BY <1>a, <1>b, <1>c DEF E!ChooseScope, E!tables
<1>2. composer \in E!Asking /\ cache[composer.of] \in E!Detailed
  BY <1>1 DEF E!Closed, E!Loading, E!Opened, E!ShownWithItsDetail
<1>3. /\ composer.of \in E!Slot /\ composer.start \in E!Slot /\ composer.draft \in E!Form
      /\ composer.intent \in {"edit", "delete"} /\ cache[composer.of].rule \in E!Rrule
  BY <1>2 DEF E!Asking, E!Detailed
<1>4. /\ composer.intent = "delete" => values = None
      /\ composer.intent = "edit" =>
           /\ values \in [title : Title, rule : E!Rrule \cup {None}, start : E!Slot]
           /\ scope = "this" => values.rule = None
           /\ scope # "this" => values = composer.draft /\ values.rule \in E!Rrule
  <2>1. composer.intent = "edit" /\ scope # "this" =>
          values = [composer.draft EXCEPT !.rule = composer.draft.rule]
    BY <1>a DEF E!Values
  <2>2. composer.draft = [composer.draft EXCEPT !.rule = composer.draft.rule]
    BY <1>3 DEF E!Form
  <2>3. composer.intent = "edit" /\ scope = "this" =>
          values = [composer.draft EXCEPT !.rule = None]
    BY <1>a DEF E!Values
  <2>4. composer.intent = "delete" => values = None
    BY <1>a DEF E!Values
  <2> QED BY <1>3, <2>1, <2>2, <2>3, <2>4 DEF E!Form
<1>5. composer.intent = "edit" /\ scope = "all" =>
        (warned <=> values.rule # cache[composer.of].rule \/ values.start # composer.start)
  BY <1>b, <1>4 DEF E!Warned, E!MovesTheSeries
<1>6. r \in E!Request
  BY <1>c, <1>3, <1>4 DEF E!Request
<1>7. composer' \in E!Opened /\ composer'.of = composer.of
  BY <1>1, <1>2 DEF E!Asking, E!Opened
<1>8. E!ComposerIsTyped'
  BY <1>1, <1>6, <1>7 DEF E!Bounds
<1>9. E!ShownWithItsDetail'
  BY <1>1, <1>2, <1>7 DEF E!ShownWithItsDetail
<1>10. E!WarnedAsShown'
  <2>1. /\ r.intent = "edit" => E!HasValues(r)
        /\ r.intent = "edit" /\ r.scope = "all" =>
             (r.warned <=> r.values.rule # r.rule \/ r.values.start # r.start)
    <3>1. /\ r.intent = composer.intent /\ r.scope = scope /\ r.values = values
          /\ r.warned = warned /\ r.start = composer.start /\ r.rule = cache[composer.of].rule
      BY <1>c
    <3>2. r.intent = "edit" => E!HasValues(r)
      BY <1>4, <3>1 DEF E!HasValues
    <3>3. r.intent = "edit" /\ r.scope = "all" =>
            (r.warned <=> r.values.rule # r.rule \/ r.values.start # r.start)
      BY <1>5, <3>1
    <3> QED BY <3>2, <3>3
  <2>2. \A q \in requests' : q \in requests \/ q = r
    BY <1>1
  <2>3. ASSUME NEW q \in requests
        PROVE  /\ q.intent = "edit" => E!HasValues(q)
               /\ q.intent = "edit" /\ q.scope = "all" =>
                    (q.warned <=> q.values.rule # q.rule \/ q.values.start # q.start)
    BY DEF E!WarnedAsShown
  <2>4. ASSUME NEW q \in requests'
        PROVE  /\ q.intent = "edit" => E!HasValues(q)
               /\ q.intent = "edit" /\ q.scope = "all" =>
                    (q.warned <=> q.values.rule # q.rule \/ q.values.start # q.start)
    BY <2>1, <2>2, <2>3
  <2> QED BY <2>4 DEF E!WarnedAsShown, E!HasValues
<1>11. E!WarnedFromTheFirst'
  BY <1>1 DEF E!WarnedFromTheFirst
<1> QED BY <1>8, <1>9, <1>10, <1>11

\* A request is handled: what it writes to the tables keeps their types.
LEMMA HandledStep ==
  ASSUME E!Bounds, E!ComposerInv, NEW r \in requests, requests' = requests \ {r},
         UNCHANGED <<month, cache, composer, sent>>,
         series' \in [start : E!Slot, rule : E!Rrule, title : Title, live : BOOLEAN],
         edited' \in [E!Slot -> {None} \cup E!Override],
         skipped' \subseteq E!Slot, E!WarnedFromTheFirst'
  PROVE  E!ComposerInv'
BY DEF E!ComposerInv, E!ComposerIsTyped, E!ShownWithItsDetail, E!WarnedAsShown, E!HasValues

\* The step of the server that a request is in.
LEMMA ServerStep ==
  ASSUME E!Bounds, E!ComposerInv, NEW r \in requests,
         E!Refuse(r) \/ E!UpdateWhole(r) \/ E!UpdateOne(r) \/ E!CutAt(r) \/ E!Delete(r)
           \/ E!Skip(r)
  PROVE  E!ComposerInv'
<1> USE DEF E!ComposerInv, E!ComposerIsTyped
<1>1. r \in E!Request /\ r.occurrence \in E!Slot
  BY DEF E!Request
<1>2. requests' = requests \ {r} /\ UNCHANGED <<month, cache, composer, sent>>
  BY DEF E!Refuse, E!UpdateWhole, E!UpdateOne, E!CutAt, E!Delete, E!Skip, E!Handled
<1>3. r.intent = "edit" =>
        /\ r.values \in [title : Title, rule : E!Rrule \cup {None}, start : E!Slot]
        /\ r.scope # "this" => r.values.rule \in E!Rrule
  BY DEF E!WarnedAsShown, E!HasValues
<1>4. CASE E!UpdateWhole(r)
  <2>1. r.intent = "edit" /\ r.scope # "this"
    BY <1>4 DEF E!UpdateWhole, E!Whole
  <2>2. series' \in [start : E!Slot, rule : E!Rrule, title : Title, live : BOOLEAN]
    BY <1>3, <1>4, <2>1 DEF E!UpdateWhole
  <2>3. edited' \in [E!Slot -> {None} \cup E!Override] /\ skipped' \subseteq E!Slot
    BY <1>4 DEF E!UpdateWhole
  <2>4. E!WarnedFromTheFirst'
    <3>1. PICK d : d = [warned |-> r.warned, scope |-> r.scope,
                        current |-> r.rule = series.rule, first |-> r.start = series.start]
      OBVIOUS
    <3>2. drops' = drops \/ (E!IdentityChanged(r) /\ drops' = drops \cup {d})
      BY <1>4, <3>1 DEF E!UpdateWhole
    <3>3. E!IdentityChanged(r) /\ d.first /\ d.current /\ d.scope = "all" => d.warned
      BY <2>1, <3>1 DEF E!IdentityChanged, E!WarnedAsShown
    <3> QED BY <3>2, <3>3 DEF E!WarnedFromTheFirst
  <2> QED BY <1>2, <2>2, <2>3, <2>4, HandledStep
<1>5. CASE E!CutAt(r)
  <2>1. r.scope = "thisAndFollowing" /\ ~(r.occurrence <= series.start)
    BY <1>5 DEF E!CutAt, E!Whole
  <2>2. r.occurrence \in 1..(LastSlot + 1)
    BY <1>1, <2>1 DEF E!Slot, E!Bounds
  <2>3. [series.rule EXCEPT !.until = r.occurrence] \in E!Rrule
    BY <2>2 DEF E!Rrule
  <2>4. series' = [series EXCEPT !.rule = [series.rule EXCEPT !.until = r.occurrence]]
    BY <1>5 DEF E!CutAt
  <2>5. series' \in [start : E!Slot, rule : E!Rrule, title : Title, live : BOOLEAN]
    BY <2>3, <2>4
  <2>6. edited' \in [E!Slot -> {None} \cup E!Override] /\ skipped' \subseteq E!Slot
        /\ drops' = drops
    BY <1>5 DEF E!CutAt
  <2> QED BY <1>2, <2>5, <2>6, HandledStep DEF E!WarnedFromTheFirst
<1>6. CASE E!UpdateOne(r)
  <2>1. [start |-> r.values.start, title |-> r.values.title] \in E!Override
    BY <1>3, <1>6 DEF E!UpdateOne, E!Override
  <2>2. edited' \in [E!Slot -> {None} \cup E!Override]
        /\ UNCHANGED <<series, skipped, drops>>
    BY <1>1, <1>6, <2>1 DEF E!UpdateOne
  <2> QED BY <1>2, <2>2, HandledStep DEF E!WarnedFromTheFirst
<1>7. CASE E!Refuse(r) \/ E!Delete(r) \/ E!Skip(r)
  <2>1. series' \in [start : E!Slot, rule : E!Rrule, title : Title, live : BOOLEAN]
    BY <1>7 DEF E!Refuse, E!Delete, E!Skip, E!tables
  <2>2. edited' \in [E!Slot -> {None} \cup E!Override] /\ skipped' \subseteq E!Slot
        /\ drops' = drops
    BY <1>1, <1>7 DEF E!Refuse, E!Delete, E!Skip, E!tables
  <2> QED BY <1>2, <2>1, <2>2, HandledStep DEF E!WarnedFromTheFirst
<1> QED BY <1>4, <1>5, <1>6, <1>7

LEMMA ComposerStep == ASSUME E!Bounds PROVE E!ComposerInv /\ [E!Next]_E!vars => E!ComposerInv'
<1> SUFFICES ASSUME E!ComposerInv, [E!Next]_E!vars PROVE E!ComposerInv'
  OBVIOUS
<1>1. CASE UNCHANGED E!vars
  BY <1>1 DEF E!vars, E!tables, E!ComposerInv, E!ComposerIsTyped, E!ShownWithItsDetail,
     E!WarnedAsShown, E!WarnedFromTheFirst
<1>2. ASSUME NEW s \in E!Slot, E!Draft("start", s) PROVE E!ComposerInv'
  BY <1>2, DraftStep
<1>3. ASSUME NEW title \in Title, E!Draft("title", title) PROVE E!ComposerInv'
  BY <1>3, DraftStep
<1>4. ASSUME NEW rule \in E!Rrule, E!Draft("rule", rule) PROVE E!ComposerInv'
  BY <1>4, DraftStep
<1> QED BY <1>1, <1>2, <1>3, <1>4, OpenStep, ArriveStep, RepaintStep, AskStep, CloseStep,
           ChooseStep, ServerStep DEF E!Next

\* What the composer sends of an occurrence the schema takes; and from a chip at the series'
\* start, compared with the rule the series has when the edit lands, no edit of all of the
\* series drops edits or skips it did not warn of (event-composer.tsx: movesTheSeries), for
\* any occurrences, titles, rules and number of requests.
THEOREM WarningsAreRight ==
  ASSUME E!Bounds PROVE E!Spec => [](E!TypeOK /\ E!RequestsAreWellFormed /\ E!WarnedFromTheFirst)
<1>1. E!Init => E!ComposerInv
  <2> SUFFICES ASSUME E!Bounds, E!Init PROVE E!ComposerInv
    OBVIOUS
  <2>1. 0 \in E!Slot /\ LastSlot + 1 \in 1..(LastSlot + 1) /\ 0 \in 0..MaxSends
    BY DEF E!Bounds, E!Slot
  <2>2. composer = E!Closed /\ E!Closed.mode = "closed"
    BY DEF E!Init, E!Closed
  <2>3. /\ series \in [start : E!Slot, rule : E!Rrule, title : Title, live : BOOLEAN]
        /\ edited \in [E!Slot -> {None} \cup E!Override] /\ skipped \subseteq E!Slot
    BY <2>1 DEF E!Init, E!Rrule, E!Override
  <2>4. month \in [E!Slot -> E!Slot \cup {None}]
    BY <2>3 DEF E!Init, E!Chips, E!ShownAt, E!Generated, E!Override
  <2>5. E!ComposerIsTyped
    BY <2>1, <2>2, <2>3, <2>4 DEF E!Init, E!ComposerIsTyped
  <2> QED BY <2>2, <2>5 DEF E!Init, E!ComposerInv, E!ShownWithItsDetail, E!WarnedAsShown,
             E!WarnedFromTheFirst
<1>2. E!ComposerInv => E!TypeOK /\ E!RequestsAreWellFormed /\ E!WarnedFromTheFirst
  <2> SUFFICES ASSUME E!ComposerInv PROVE E!TypeOK /\ E!RequestsAreWellFormed
    BY DEF E!ComposerInv
  <2>1. composer.mode \in {"closed", "loading", "open", "asking"}
    BY DEF E!ComposerInv, E!ComposerIsTyped, E!Closed, E!Loading, E!Opened, E!Asking
  <2>2. E!TypeOK
    BY <2>1 DEF E!ComposerInv, E!ComposerIsTyped, E!TypeOK, E!Override
  <2>3. E!RequestsAreWellFormed
    BY DEF E!ComposerInv, E!ComposerIsTyped, E!RequestsAreWellFormed, E!WarnedAsShown,
           E!HasValues, E!Request
  <2> QED BY <2>2, <2>3
<1> QED BY <1>1, <1>2, ComposerStep, PTL DEF E!Spec

------------------------------------------------------------------------------
\* What a submitted event writes (EventRows).

\* What a request is made of, by what it tries.
LEMMA TimesAreTyped ==
  ASSUME NEW r \in R!TimeRequests
  PROVE  /\ r.op \in {"create", "update"} /\ r.startWall \in Int /\ r.endWall \in Int
         /\ r.startTzid \in R!Zones /\ r.endTzid \in R!Zones
         /\ r.scope = None /\ r.recurrenceId = None
         /\ r.attendees = <<>> /\ r.reminders = <<>> /\ r.rrule = "none"
<1>1. R!Readings \subseteq Int
  BY DEF R!Readings, R!Unreal
<1>2. 2 \in Int /\ {1, 2} \subseteq Int /\ "UTC" \in R!Zones /\ {"UTC", "unknown"} \subseteq R!Zones
      /\ {"UTC", "west"} \subseteq R!Zones
  BY DEF R!Zones
<1>3. PICK o \in {"create", "update"}, d \in BOOLEAN, s \in Int, z \in R!Zones, e \in Int,
           y \in R!Zones : r = R!Timed(o, d, s, z, e, y)
  BY <1>1, <1>2 DEF R!TimeRequests
<1> QED BY <1>3 DEF R!Timed

LEMMA RulesAreTyped ==
  ASSUME NEW r \in R!RuleRequests
  PROVE  /\ r.op \in {"update", "delete"} /\ r.startWall = 1 /\ r.endWall = 2
         /\ r.startTzid = "UTC" /\ r.endTzid = "UTC"
         /\ r.recurrenceId \in {None, 1, 2, R!Unreal} /\ r.scope \in {None, "this", "all"}
         /\ r.attendees = <<>> /\ r.reminders = <<>>
<1>1. PICK o \in {"update", "delete"}, q \in {"none", "daily", "unreadable", "shapeless"},
           s \in {None, "this", "all"}, i \in {None, 1, 2, R!Unreal} : r = R!Ruled(o, q, s, i)
  BY DEF R!RuleRequests
<1> QED BY <1>1 DEF R!Ruled

LEMMA ListsAreTyped ==
  ASSUME NEW r \in R!ListRequests, MaxOffset \in Nat
  PROVE  /\ r.op \in {"create", "update"} /\ r.startWall = 1 /\ r.endWall = 2
         /\ r.startTzid = "UTC" /\ r.endTzid = "UTC"
         /\ r.scope = None /\ r.recurrenceId = None
         /\ r.attendees \in Seq({"ann", "bob", "ANN"}) /\ r.reminders \in Seq(Int)
<1>1. /\ <<>> \in Seq({"ann", "bob", "ANN"}) /\ <<"ann">> \in Seq({"ann", "bob", "ANN"})
      /\ <<"bob", "ANN">> \in Seq({"ann", "bob", "ANN"})
      /\ <<"ann", "ANN">> \in Seq({"ann", "bob", "ANN"})
      /\ <<"ann", "bob", "ann">> \in Seq({"ann", "bob", "ANN"})
  OBVIOUS
<1>2. /\ <<>> \in Seq(Int) /\ <<MaxOffset + 1>> \in Seq(Int) /\ <<MaxOffset>> \in Seq(Int)
      /\ <<0 - MaxOffset, MaxOffset>> \in Seq(Int) /\ <<MaxOffset, MaxOffset>> \in Seq(Int)
      /\ <<0 - MaxOffset - 1>> \in Seq(Int)
  OBVIOUS
<1>3. PICK o \in {"create", "update"}, q \in {"none", "daily"}, g \in Seq({"ann", "bob", "ANN"}),
           m \in Seq(Int) : r = R!Listed(o, q, g, m)
  <2> DEFINE some == { R!Listed(o, q, g, <<>>) :
                         o \in {"create", "update"}, q \in {"none", "daily"},
                         g \in {<<>>, <<"ann">>, <<"bob", "ANN">>, <<"ann", "ANN">>,
                                <<"ann", "bob", "ann">>} }
             rest == { R!Listed(o, "none", g, m) :
                         o \in {"create", "update"}, g \in {<<>>, <<"ann">>},
                         m \in {<<MaxOffset + 1>>, <<MaxOffset>>, <<0 - MaxOffset, MaxOffset>>,
                                <<MaxOffset, MaxOffset>>, <<0 - MaxOffset - 1>>} }
  <2>1. r \in some \/ r \in rest
    BY DEF R!ListRequests
  <2>2. CASE r \in some
    <3>1. PICK o \in {"create", "update"}, q \in {"none", "daily"},
               g \in {<<>>, <<"ann">>, <<"bob", "ANN">>, <<"ann", "ANN">>,
                      <<"ann", "bob", "ann">>} : r = R!Listed(o, q, g, <<>>)
      BY <2>2
    <3>2. g \in Seq({"ann", "bob", "ANN"})
      BY <1>1
    <3> QED BY <1>2, <3>1, <3>2
  <2>3. CASE r \in rest
    <3>1. PICK o \in {"create", "update"}, g \in {<<>>, <<"ann">>},
               m \in {<<MaxOffset + 1>>, <<MaxOffset>>, <<0 - MaxOffset, MaxOffset>>,
                      <<MaxOffset, MaxOffset>>, <<0 - MaxOffset - 1>>} :
            r = R!Listed(o, "none", g, m)
      BY <2>3
    <3>2. g \in Seq({"ann", "bob", "ANN"}) /\ m \in Seq(Int)
      BY <1>1, <1>2
    <3> QED BY <3>1, <3>2
  <2> QED BY <2>1, <2>2, <2>3
<1> QED BY <1>3 DEF R!Listed

LEMMA RequestsAreTyped ==
  ASSUME NEW r \in R!Requests, R!Bounds
  PROVE  /\ r.op \in {"create", "update", "delete"} /\ r.startWall \in Int /\ r.endWall \in Int
         /\ R!StartAt(r) \in Int /\ R!EndAt(r) \in Int
         /\ r.recurrenceId \in {None, 1, 2, R!Unreal} /\ r.scope \in {None, "this", "all"}
         /\ r.attendees \in Seq({"ann", "bob", "ANN"}) /\ r.reminders \in Seq(Int)
         /\ r.op = "create" => r.scope = None /\ r.recurrenceId = None
<1>1. <<>> \in Seq({"ann", "bob", "ANN"}) /\ <<>> \in Seq(Int)
  OBVIOUS
<1>2. /\ r.op \in {"create", "update", "delete"} /\ r.startWall \in Int /\ r.endWall \in Int
      /\ r.recurrenceId \in {None, 1, 2, R!Unreal} /\ r.scope \in {None, "this", "all"}
      /\ r.attendees \in Seq({"ann", "bob", "ANN"}) /\ r.reminders \in Seq(Int)
      /\ r.op = "create" => r.scope = None /\ r.recurrenceId = None
  <2>1. CASE r \in R!TimeRequests
    BY <1>1, <2>1, TimesAreTyped
  <2>2. CASE r \in R!RuleRequests
    <3>1. r.op \in {"update", "delete"} /\ r.startWall = 1 /\ r.endWall = 2
          /\ r.attendees = <<>> /\ r.reminders = <<>>
      BY <2>2, RulesAreTyped
    <3>2. r.recurrenceId \in {None, 1, 2, R!Unreal} /\ r.scope \in {None, "this", "all"}
      BY <2>2, RulesAreTyped
    <3> QED BY <1>1, <3>1, <3>2
  <2>3. CASE r \in R!ListRequests
    BY <2>3, ListsAreTyped DEF R!Bounds
  <2> QED BY <2>1, <2>2, <2>3 DEF R!Requests
<1> QED BY <1>2 DEF R!StartAt, R!EndAt, R!Behind

\* The addresses as the schema hands them on.
LEMMA ParsedList ==
  ASSUME NEW g \in Seq({"ann", "bob", "ANN"})
  PROVE  /\ R!Parsed(g) \in Seq({"ann", "bob"}) /\ Len(R!Parsed(g)) = Len(g)
         /\ R!Range(R!Parsed(g)) \subseteq {"ann", "bob"}
<1>1. \A i \in DOMAIN g : R!Lower(g[i]) \in {"ann", "bob"}
  BY DEF R!Lower
<1>2. DOMAIN g = 1..Len(g) /\ Len(g) \in Nat
  OBVIOUS
<1>3. R!Parsed(g) = [i \in 1..Len(g) |-> R!Lower(g[i])]
  BY <1>2 DEF R!Parsed
<1>4. R!Parsed(g) \in [1..Len(g) -> {"ann", "bob"}]
  BY <1>1, <1>2, <1>3
<1>5. R!Parsed(g) \in Seq({"ann", "bob"}) /\ Len(R!Parsed(g)) = Len(g)
  BY <1>2, <1>4
<1> QED BY <1>4, <1>5 DEF R!Range

\* A list of which some element comes twice has fewer elements than places.
LEMMA RepeatsAreCounted ==
  ASSUME NEW T, NEW list \in Seq(T), NEW i \in DOMAIN list, NEW j \in DOMAIN list,
         i # j, list[i] = list[j]
  PROVE  Cardinality(R!Range(list)) < Len(list)
<1>1. PICK n \in Nat : n = Len(list) /\ DOMAIN list = 1..n
  OBVIOUS
<1>2. IsFiniteSet(1..n) /\ Cardinality(1..n) = n
  <2>1. 1 \in Int /\ n \in Int /\ ~(1 > n /\ n # 0) /\ n - 1 + 1 = n
    OBVIOUS
  <2>2. IsFiniteSet(1..n) /\ Cardinality(1..n) = IF 1 > n THEN 0 ELSE n - 1 + 1
    BY <2>1, FS_Interval
  <2> QED BY <2>1, <2>2
<1>3. list \in Surjection(1..n, R!Range(list))
  BY <1>1 DEF Surjection, R!Range
<1>4. list \notin Injection(1..n, R!Range(list))
  BY <1>1 DEF Injection, IsInjective
<1>5. /\ IsFiniteSet(R!Range(list))
      /\ Cardinality(R!Range(list)) <= n /\ Cardinality(R!Range(list)) # n
  BY <1>2, <1>3, <1>4, FS_Surjection
<1> QED BY <1>1, <1>5, FS_CardinalityType

\* What a list inserts twice over comes twice in it.
LEMMA TwiceIsARepeat ==
  ASSUME NEW g \in Seq({"ann", "bob", "ANN"}), ~R!OncePerEvent(R!AllSent(R!Parsed(g)))
  PROVE  R!Repeats(g)
<1>1. PICK list \in Seq({"ann", "bob"}) : list = R!Parsed(g) /\ Len(list) = Len(g)
  BY ParsedList
<1>2. PICK i \in DOMAIN list : R!Cardinality({ j \in 1..i : list[j] = list[i] }) # 1
  <2> DEFINE times(i) == R!Cardinality({ j \in 1..i : list[j] = list[i] })
  <2>1. PICK p \in R!AllSent(list) : p[2] # 1
    BY <1>1 DEF R!OncePerEvent
  <2>2. R!AllSent(list) = { <<list[i], times(i)>> : i \in DOMAIN list }
    BY DEF R!AllSent
  <2> HIDE DEF times
  <2>3. PICK i \in DOMAIN list : p = <<list[i], times(i)>>
    BY <2>1, <2>2
  <2>4. times(i) # 1
    BY <2>1, <2>3
  <2> QED BY <2>4 DEF times
<1>3. DOMAIN list = 1..Len(list) /\ Len(list) \in Nat
  OBVIOUS
<1>4. PICK j \in 1..i : j # i /\ list[j] = list[i]
  <2>1. CASE \A j \in 1..i : list[j] = list[i] => j = i
    <3>1. { j \in 1..i : list[j] = list[i] } = {i}
      BY <1>3, <2>1
    <3> QED BY <1>2, <3>1, FS_Singleton, SameCounting
  <2> QED BY <2>1
<1>5. j \in DOMAIN list
  BY <1>3
<1> QED BY <1>1, <1>4, <1>5, RepeatsAreCounted, SameCounting DEF R!Repeats

\* The schemas and deriveTimes leave nothing for the CHECK constraints to refuse.
LEMMA ChecksPass ==
  ASSUME R!Bounds, NEW r \in R!Requests, R!allDayMidnightIssues(r) = {}, R!deriveTimes(r) = {}
  PROVE  R!EventChecks(R!Row(r))
<1>1. R!StartAt(r) \in Int /\ R!EndAt(r) \in Int /\ MaxSpan \in Int
  BY RequestsAreTyped DEF R!Bounds
<1>2. ~(R!EndAt(r) < R!StartAt(r) \/ R!EndAt(r) - R!StartAt(r) > MaxSpan)
  BY DEF R!deriveTimes, R!Naming
<1>3. r.allDay => R!Midnight(r.startWall) /\ R!Midnight(r.endWall)
  BY DEF R!allDayMidnightIssues, R!Naming
<1>4. /\ R!Row(r).startAt = R!StartAt(r) /\ R!Row(r).endAt = R!EndAt(r)
      /\ R!Row(r).allDay = r.allDay
      /\ R!Row(r).startWall = r.startWall /\ R!Row(r).endWall = r.endWall
  BY DEF R!Row
<1>5. R!EndAt(r) >= R!StartAt(r) /\ R!EndAt(r) - R!StartAt(r) <= MaxSpan
  BY <1>1, <1>2
<1> QED BY <1>3, <1>4, <1>5 DEF R!EventChecks

LEMMA RemindersPass ==
  ASSUME R!Bounds, NEW r \in R!Requests, R!FieldIssues(r) = {} PROVE R!ReminderChecks(r.reminders)
<1>1. r.reminders \in Seq(Int) /\ MaxOffset \in Int
  BY RequestsAreTyped DEF R!Bounds
<1>2. \A i \in DOMAIN r.reminders : ~(r.reminders[i] < -MaxOffset \/ r.reminders[i] > MaxOffset)
  BY DEF R!FieldIssues, R!Naming
<1>3. \A i \in DOMAIN r.reminders : r.reminders[i] \in Int
  BY <1>1
<1>4. \A i \in DOMAIN r.reminders : r.reminders[i] >= -MaxOffset /\ r.reminders[i] <= MaxOffset
  BY <1>1, <1>2, <1>3
<1> QED BY <1>4 DEF R!ReminderChecks

\* A request that changes no row.
LEMMA ToldStep ==
  ASSUME R!Bounds, R!RowsInv, NEW r \in R!Requests, NEW said \in {"refused", "failed", "threw"},
         R!Told(r, said),
         \/ said = "refused"
         \/ r.op = "create" /\ R!Repeats(r.attendees)
         \/ r.recurrenceId = R!Unreal
  PROVE  R!RowsInv'
<1>1. /\ asked'.reminders = r.reminders /\ asked'.op = r.op /\ asked'.attendees = r.attendees
      /\ asked'.recurrenceId = r.recurrenceId /\ answer' = said
      /\ UNCHANGED <<event, overrides, skipped, guests, reminders>>
  BY DEF R!Told, R!Asked
<1>2. R!TypeOK' /\ asked'.attendees \in Seq({"ann", "bob", "ANN"}) /\ asked'.reminders \in Seq(Int)
  BY <1>1, RequestsAreTyped DEF R!RowsInv, R!TypeOK
<1>3. R!OneRowEach' /\ R!OverridesRepeat' /\ R!ListsAsSubmitted' /\ R!ChecksAreNeverFirst'
  BY <1>1 DEF R!RowsInv, R!OneRowEach, R!OverridesRepeat, R!ListsAsSubmitted, R!ChecksAreNeverFirst
<1>4. R!FailuresAreKnown'
  BY <1>1 DEF R!FailuresAreKnown
<1> QED BY <1>2, <1>3, <1>4 DEF R!RowsInv

\* What the two diffs leave: the submitted lists, a row each.
LEMMA GuestsAfter ==
  ASSUME R!TypeOK, R!OneRowEach, NEW list, R!Range(list) \subseteq {"ann", "bob"},
         NEW after, after = R!KeptGuests(list) \cup R!NewGuests(list)
  PROVE  /\ after \subseteq [email : {"ann", "bob"}, answered : BOOLEAN]
         /\ { g.email : g \in after } = R!Range(list)
         /\ \A g, h \in after : g.email = h.email => g = h
         /\ \A g \in guests : g.email \in R!Range(list) => g \in after
<1>1. PICK S : S = R!Range(list) /\ S \subseteq {"ann", "bob"}
  OBVIOUS
<1>2. PICK K : K = S \ { g.email : g \in guests }
  OBVIOUS
<1>3. /\ \A p \in R!AddedGuests(list) : p[1] \in K
      /\ \A a \in K : <<a, 1>> \in R!AddedGuests(list) /\ <<a, 1>>[1] = a
  BY <1>1, <1>2 DEF R!AddedGuests
<1>4. \A g \in after : (g \in guests /\ g.email \in S)
                       \/ (g.email \in K /\ g = [email |-> g.email, answered |-> FALSE])
  BY <1>1, <1>3 DEF R!KeptGuests, R!NewGuests, R!Guest
<1>5. \A a \in K : a \in S /\ [email |-> a, answered |-> FALSE] \in after
                   /\ \A g \in guests : g.email # a
  BY <1>2, <1>3 DEF R!NewGuests, R!Guest
<1>6. \A g \in guests : g.email \in S => g \in after
  BY <1>1 DEF R!KeptGuests
<1>7. after \subseteq [email : {"ann", "bob"}, answered : BOOLEAN]
  <2>1. \A a \in {"ann", "bob"} :
          [email |-> a, answered |-> FALSE] \in [email : {"ann", "bob"}, answered : BOOLEAN]
    OBVIOUS
  <2>2. \A g \in after :
          \/ g \in guests
          \/ g.email \in {"ann", "bob"} /\ g = [email |-> g.email, answered |-> FALSE]
    BY <1>1, <1>4, <1>5
  <2> QED BY <2>1, <2>2 DEF R!TypeOK
<1>8. \A a \in S : \E g \in after : g.email = a
  <2> SUFFICES ASSUME NEW a \in S PROVE \E g \in after : g.email = a
    OBVIOUS
  <2>1. CASE a \in K
    BY <1>5, <2>1
  <2>2. CASE a \notin K
    BY <1>2, <1>6, <2>2
  <2> QED BY <2>1, <2>2
<1>9. \A g \in after : g.email \in S
  BY <1>4, <1>5
<1>10. \A g, h \in after : g.email = h.email => g = h
  BY <1>4, <1>5 DEF R!OneRowEach
<1> QED BY <1>1, <1>6, <1>7, <1>8, <1>9, <1>10

LEMMA RemindersAfter ==
  ASSUME NEW before, before \subseteq [key : Int, delivered : BOOLEAN],
         \A m, n \in before : m.key = n.key => m = n,
         NEW list, R!Range(list) \subseteq Int
  PROVE  LET after == R!applyReminders(before, list)
         IN /\ after \subseteq [key : Int, delivered : BOOLEAN]
            /\ { m.key : m \in after } = R!Range(list)
            /\ \A m, n \in after : m.key = n.key => m = n
            /\ \A m \in before : m.key \in R!Range(list) => m \in after
<1>1. PICK S : S = R!Range(list) /\ S \subseteq Int
  OBVIOUS
<1>2. PICK after : after = R!applyReminders(before, list)
  OBVIOUS
<1>3. PICK K : K = S \ { m.key : m \in before }
  OBVIOUS
<1>4. after = { m \in before : m.key \in S } \cup { [key |-> k, delivered |-> FALSE] : k \in K }
  BY <1>1, <1>2, <1>3 DEF R!applyReminders
<1>5. \A m \in after : (m \in before /\ m.key \in S)
                       \/ (m.key \in K /\ m = [key |-> m.key, delivered |-> FALSE])
  BY <1>4
<1>6. \A k \in K : k \in S /\ [key |-> k, delivered |-> FALSE] \in after
                   /\ \A m \in before : m.key # k
  BY <1>3, <1>4
<1>7. \A m \in before : m.key \in S => m \in after
  BY <1>4
<1>8. after \subseteq [key : Int, delivered : BOOLEAN]
  <2>1. \A k \in Int : [key |-> k, delivered |-> FALSE] \in [key : Int, delivered : BOOLEAN]
    OBVIOUS
  <2>2. \A m \in after : m \in before \/ (m.key \in Int /\ m = [key |-> m.key, delivered |-> FALSE])
    BY <1>1, <1>5, <1>6
  <2> QED BY <2>1, <2>2
<1>9. \A k \in S : \E m \in after : m.key = k
  <2> SUFFICES ASSUME NEW k \in S PROVE \E m \in after : m.key = k
    OBVIOUS
  <2>1. CASE k \in K
    BY <1>6, <2>1
  <2>2. CASE k \notin K
    BY <1>3, <1>7, <2>2
  <2> QED BY <2>1, <2>2
<1>10. \A m \in after : m.key \in S
  BY <1>5, <1>6
<1>11. \A m, n \in after : m.key = n.key => m = n
  BY <1>5, <1>6
<1> QED BY <1>1, <1>2, <1>7, <1>8, <1>9, <1>10, <1>11

LEMMA ListsRange ==
  ASSUME R!Bounds, NEW r \in R!Requests
  PROVE  /\ R!Range(R!Parsed(r.attendees)) \subseteq {"ann", "bob"}
         /\ R!Range(r.reminders) \subseteq Int
<1>1. r.attendees \in Seq({"ann", "bob", "ANN"}) /\ r.reminders \in Seq(Int)
  BY RequestsAreTyped
<1> QED BY <1>1, ParsedList DEF R!Range

\* An accepted save of the whole event.
LEMMA SavedStep ==
  ASSUME R!Bounds, R!RowsInv, NEW r \in R!Requests, asked' = R!Asked(r), answer' = "done",
         event' = R!Row(r),
         guests' \subseteq [email : {"ann", "bob"}, answered : BOOLEAN],
         { g.email : g \in guests' } = R!Range(R!Parsed(r.attendees)),
         \A g, h \in guests' : g.email = h.email => g = h,
         reminders' \subseteq [key : Int, delivered : BOOLEAN],
         { m.key : m \in reminders' } = R!Range(r.reminders),
         \A m, n \in reminders' : m.key = n.key => m = n,
         overrides' \subseteq Nat, skipped' \subseteq Nat,
         overrides' # {} => r.rrule = "daily"
  PROVE  R!RowsInv'
<1>1. asked'.reminders = r.reminders /\ asked'.attendees = r.attendees
  BY DEF R!Asked
<1>2. R!TypeOK' /\ asked'.attendees \in Seq({"ann", "bob", "ANN"}) /\ asked'.reminders \in Seq(Int)
  BY <1>1, RequestsAreTyped DEF R!TypeOK
<1>3. R!OneRowEach'
  BY DEF R!OneRowEach
<1>4. R!ListsAsSubmitted'
  BY <1>1 DEF R!ListsAsSubmitted
<1>5. R!OverridesRepeat'
  <2>1. event'.repeats = (r.rrule = "daily")
    BY DEF R!Row
  <2> QED BY <2>1 DEF R!OverridesRepeat
<1>6. R!ChecksAreNeverFirst' /\ R!FailuresAreKnown'
  BY DEF R!ChecksAreNeverFirst, R!FailuresAreKnown
<1> QED BY <1>2, <1>3, <1>4, <1>5, <1>6 DEF R!RowsInv

LEMMA CreateStep ==
  ASSUME R!Bounds, R!RowsInv, NEW r \in R!Creates, R!CreateEvent(r) PROVE R!RowsInv'
<1>1. r \in R!Requests /\ r.op = "create"
  BY DEF R!Creates
<1>2. PICK list : list = R!Parsed(r.attendees)
  OBVIOUS
<1>3. PICK said : said = R!mapWriteError(R!EventChecks(R!Row(r)) /\ R!ReminderChecks(r.reminders),
                                       R!OncePerEvent(R!Inserted(list)))
  OBVIOUS
<1>4. PICK issues :
        issues = R!createEventSchema(r) \cup R!deriveTimes(r) \cup R!parseSubmittedRule(r)
  OBVIOUS
<1>5. \/ R!Refused(r, issues)
      \/ issues = {} /\ said # "done" /\ R!Told(r, said)
      \/ /\ issues = {} /\ said = "done"
         /\ event' = R!Row(r)
         /\ guests' = { R!Guest(a) : a \in R!Range(list) }
         /\ reminders' = R!applyReminders({}, r.reminders)
         /\ overrides' = {} /\ skipped' = {}
         /\ asked' = R!Asked(r) /\ answer' = "done"
  BY <1>2, <1>3, <1>4 DEF R!CreateEvent
<1>6. CASE R!Refused(r, issues)
  BY <1>1, <1>6, ToldStep DEF R!Refused
<1>7. CASE issues = {} /\ said # "done" /\ R!Told(r, said)
  <2>1. R!deriveTimes(r) = {} /\ R!allDayMidnightIssues(r) = {} /\ R!FieldIssues(r) = {}
    BY <1>4, <1>7 DEF R!createEventSchema
  <2>2. R!EventChecks(R!Row(r)) /\ R!ReminderChecks(r.reminders)
    BY <1>1, <2>1, ChecksPass, RemindersPass
  <2>3. said = "failed" /\ ~R!OncePerEvent(R!AllSent(R!Parsed(r.attendees)))
    BY <1>2, <1>3, <1>7, <2>2 DEF R!mapWriteError, R!Inserted
  <2>4. R!Repeats(r.attendees)
    BY <1>1, <2>3, RequestsAreTyped, TwiceIsARepeat
  <2> QED BY <1>1, <1>7, <2>3, <2>4, ToldStep
<1>8. CASE /\ event' = R!Row(r)
           /\ guests' = { R!Guest(a) : a \in R!Range(list) }
           /\ reminders' = R!applyReminders({}, r.reminders)
           /\ overrides' = {} /\ skipped' = {}
           /\ asked' = R!Asked(r) /\ answer' = "done"
  <2>1. R!Range(list) \subseteq {"ann", "bob"} /\ R!Range(r.reminders) \subseteq Int
    BY <1>1, <1>2, ListsRange
  <2>2. PICK S : S = R!Range(list) /\ S \subseteq {"ann", "bob"}
    BY <2>1
  <2>3. guests' = { [email |-> a, answered |-> FALSE] : a \in S }
    BY <1>8, <2>2 DEF R!Guest
  <2>4. /\ guests' \subseteq [email : {"ann", "bob"}, answered : BOOLEAN]
        /\ { g.email : g \in guests' } = S
        /\ \A g, h \in guests' : g.email = h.email => g = h
    <3>1. \A g \in guests' : g.email \in S /\ g = [email |-> g.email, answered |-> FALSE]
      BY <2>3
    <3>2. \A a \in S : [email |-> a, answered |-> FALSE] \in guests'
      BY <2>3
    <3>3. \A a \in {"ann", "bob"} :
            [email |-> a, answered |-> FALSE] \in [email : {"ann", "bob"}, answered : BOOLEAN]
      OBVIOUS
    <3>4. \A a \in S : \E g \in guests' : g.email = a
      BY <3>2
    <3>5. guests' \subseteq [email : {"ann", "bob"}, answered : BOOLEAN]
      BY <2>2, <3>1, <3>3
    <3>6. \A g, h \in guests' : g.email = h.email => g = h
      BY <3>1
    <3>7. { g.email : g \in guests' } = S
      BY <3>1, <3>4
    <3> QED BY <3>5, <3>6, <3>7
  <2>5. /\ reminders' \subseteq [key : Int, delivered : BOOLEAN]
        /\ { m.key : m \in reminders' } = R!Range(r.reminders)
        /\ \A m, n \in reminders' : m.key = n.key => m = n
    <3>1. {} \subseteq [key : Int, delivered : BOOLEAN]
          /\ \A m, n \in {} : m.key = n.key => m = n
      OBVIOUS
    <3> QED BY <1>8, <2>1, <3>1, RemindersAfter
  <2> QED BY <1>1, <1>2, <1>8, <2>2, <2>4, <2>5, SavedStep
<1> QED BY <1>5, <1>6, <1>7, <1>8

LEMMA UpdateWholeStep ==
  ASSUME R!Bounds, R!RowsInv, NEW r \in R!Requests, event # None,
         R!updateEventSchema(r) = {}, R!deriveTimes(r) = {}, R!UpdateWholeEvent(r)
  PROVE  /\ R!RowsInv'
         /\ \A g \in guests : g \in guests' \/ g.email \notin R!Range(R!Parsed(asked'.attendees))
                              \/ UNCHANGED guests
         /\ \A m \in reminders : m \in reminders' \/ m.key \notin R!Range(asked'.reminders)
                                 \/ UNCHANGED reminders
<1>1. PICK list : list = R!Parsed(r.attendees)
  OBVIOUS
<1>2. R!EventChecks(R!Row(r)) /\ R!ReminderChecks(r.reminders)
  <2>1. R!allDayMidnightIssues(r) = {} /\ R!FieldIssues(r) = {}
    BY DEF R!updateEventSchema
  <2> QED BY <2>1, ChecksPass, RemindersPass
<1>3. R!OncePerEvent(R!AddedGuests(list))
  BY DEF R!OncePerEvent, R!AddedGuests
<1>4. \/ R!Refused(r, R!parseSubmittedRule(r))
      \/ /\ event' = R!Row(r)
         /\ overrides' = IF event.repeats /\ R!IdentityChanged(r) THEN {} ELSE overrides
         /\ skipped' = IF event.repeats /\ R!IdentityChanged(r) THEN {} ELSE skipped
         /\ guests' = R!KeptGuests(list) \cup R!NewGuests(list)
         /\ reminders' = R!applyReminders(reminders, r.reminders)
         /\ asked' = R!Asked(r) /\ answer' = "done"
  BY <1>1, <1>2, <1>3 DEF R!UpdateWholeEvent, R!mapWriteError
<1>5. CASE R!Refused(r, R!parseSubmittedRule(r))
  <2>1. R!Told(r, "refused")
    BY <1>5 DEF R!Refused
  <2> QED BY <2>1, ToldStep DEF R!Told
<1>6. CASE /\ event' = R!Row(r)
           /\ overrides' = IF event.repeats /\ R!IdentityChanged(r) THEN {} ELSE overrides
           /\ skipped' = IF event.repeats /\ R!IdentityChanged(r) THEN {} ELSE skipped
           /\ guests' = R!KeptGuests(list) \cup R!NewGuests(list)
           /\ reminders' = R!applyReminders(reminders, r.reminders)
           /\ asked' = R!Asked(r) /\ answer' = "done"
  <2>1. R!Range(list) \subseteq {"ann", "bob"} /\ R!Range(r.reminders) \subseteq Int
    BY <1>1, ListsRange
  <2>2. R!TypeOK /\ R!OneRowEach /\ R!OverridesRepeat
    BY DEF R!RowsInv
  <2>3. /\ guests' \subseteq [email : {"ann", "bob"}, answered : BOOLEAN]
        /\ { g.email : g \in guests' } = R!Range(list)
        /\ \A g, h \in guests' : g.email = h.email => g = h
        /\ \A g \in guests : g.email \in R!Range(list) => g \in guests'
    BY <1>6, <2>1, <2>2, GuestsAfter
  <2>4. /\ reminders' \subseteq [key : Int, delivered : BOOLEAN]
        /\ { m.key : m \in reminders' } = R!Range(r.reminders)
        /\ \A m, n \in reminders' : m.key = n.key => m = n
        /\ \A m \in reminders : m.key \in R!Range(r.reminders) => m \in reminders'
    <3>1. reminders \subseteq [key : Int, delivered : BOOLEAN]
          /\ \A m, n \in reminders : m.key = n.key => m = n
      BY <2>2 DEF R!TypeOK, R!OneRowEach
    <3> QED BY <1>6, <2>1, <3>1, RemindersAfter
  <2>5. overrides' # {} => r.rrule = "daily"
    BY <1>6, <2>2 DEF R!OverridesRepeat, R!IdentityChanged
  <2>6. overrides' \subseteq Nat /\ skipped' \subseteq Nat
    BY <1>6, <2>2 DEF R!TypeOK
  <2>7. asked'.attendees = r.attendees /\ asked'.reminders = r.reminders
    BY <1>6 DEF R!Asked
  <2>8. R!RowsInv'
    BY <1>1, <1>6, <2>3, <2>4, <2>5, <2>6, SavedStep
  <2> QED BY <1>1, <2>3, <2>4, <2>7, <2>8
<1> QED BY <1>4, <1>5, <1>6

\* A save or a delete of one occurrence leaves everything of the event but its modifiers.
LEMMA OccurrenceStep ==
  ASSUME R!Bounds, R!RowsInv, NEW r \in R!Requests, asked' = R!Asked(r), answer' = "done",
         r.scope = "this" \/ r.op = "delete", event.repeats,
         UNCHANGED <<event, guests, reminders>>,
         overrides' \subseteq Nat, skipped' \subseteq Nat
  PROVE  R!RowsInv'
<1>1. /\ asked'.reminders = r.reminders /\ asked'.attendees = r.attendees
      /\ asked'.scope = r.scope /\ asked'.op = r.op
  BY DEF R!Asked
<1>2. R!TypeOK' /\ asked'.attendees \in Seq({"ann", "bob", "ANN"}) /\ asked'.reminders \in Seq(Int)
  BY <1>1, RequestsAreTyped DEF R!RowsInv, R!TypeOK
<1>3. R!OneRowEach' /\ R!OverridesRepeat'
  BY DEF R!RowsInv, R!OneRowEach, R!OverridesRepeat
<1>4. R!ListsAsSubmitted' /\ R!ChecksAreNeverFirst' /\ R!FailuresAreKnown'
  BY <1>1 DEF R!ListsAsSubmitted, R!ChecksAreNeverFirst, R!FailuresAreKnown
<1> QED BY <1>2, <1>3, <1>4 DEF R!RowsInv

LEMMA UpdateStep ==
  ASSUME R!Bounds, R!RowsInv, NEW r \in R!Updates, R!UpdateEvent(r)
  PROVE  R!RowsInv' /\ R!OneMeansOneStep /\ R!KeptRowsKeepTheirPastStep
<1>1. r \in R!Requests /\ r.op = "update"
  BY DEF R!Updates
<1>2. PICK issues : issues = R!updateEventSchema(r) \cup R!deriveTimes(r)
  OBVIOUS
<1>3. \A said : R!Told(r, said) => R!OneMeansOneStep /\ R!KeptRowsKeepTheirPastStep
  BY DEF R!Told, R!OneMeansOneStep, R!KeptRowsKeepTheirPastStep
<1>4. ASSUME R!Told(r, "refused")
      PROVE  R!RowsInv' /\ R!OneMeansOneStep /\ R!KeptRowsKeepTheirPastStep
  BY <1>1, <1>3, <1>4, ToldStep
<1>5. CASE issues = {} /\ R!OneOccurrence(r) /\ event.repeats /\ R!UpdateOccurrence(r)
  <2>1. r.scope = "this" /\ r.recurrenceId \in {1, 2, R!Unreal}
    BY <1>1, <1>5, RequestsAreTyped DEF R!OneOccurrence
  <2>2. R!EventChecks(R!Row(r)) /\ R!OverrideChecks(r.recurrenceId)
    <3>1. R!allDayMidnightIssues(r) = {} /\ R!deriveTimes(r) = {}
      BY <1>2, <1>5 DEF R!updateEventSchema
    <3> QED BY <1>1, <1>5, <3>1, ChecksPass DEF R!OverrideChecks, R!OneOccurrence
  <2>3. \/ r.recurrenceId = R!Unreal /\ R!Told(r, "threw")
        \/ R!Told(r, "refused")
        \/ /\ r.recurrenceId # R!Unreal
           /\ overrides' = overrides \cup {r.recurrenceId}
           /\ asked' = R!Asked(r) /\ answer' = "done"
           /\ UNCHANGED <<event, skipped, guests, reminders>>
    BY <1>5, <2>2 DEF R!UpdateOccurrence, R!mapWriteError
  <2>4. CASE r.recurrenceId = R!Unreal /\ R!Told(r, "threw")
    BY <1>1, <1>3, <2>4, ToldStep
  <2>5. CASE /\ r.recurrenceId # R!Unreal
             /\ overrides' = overrides \cup {r.recurrenceId}
             /\ asked' = R!Asked(r) /\ answer' = "done"
             /\ UNCHANGED <<event, skipped, guests, reminders>>
    <3>a. r.recurrenceId \in Nat
      BY <2>1, <2>5
    <3>1. overrides' \subseteq Nat /\ skipped' \subseteq Nat
      BY <2>5, <3>a DEF R!RowsInv, R!TypeOK
    <3>2. R!RowsInv'
      BY <1>1, <1>5, <2>1, <2>5, <3>1, OccurrenceStep
    <3>3. R!OneMeansOneStep /\ R!KeptRowsKeepTheirPastStep
      BY <2>5 DEF R!OneMeansOneStep, R!KeptRowsKeepTheirPastStep
    <3> QED BY <3>2, <3>3
  <2> QED BY <1>4, <2>3, <2>4, <2>5
<1>6. CASE issues = {} /\ ~R!OneOccurrence(r) /\ R!UpdateWholeEvent(r)
  <2>1. R!updateEventSchema(r) = {} /\ R!deriveTimes(r) = {} /\ event # None
    BY <1>2, <1>6 DEF R!UpdateEvent
  <2>2. /\ R!RowsInv'
        /\ \A g \in guests : g \in guests' \/ g.email \notin R!Range(R!Parsed(asked'.attendees))
                             \/ UNCHANGED guests
        /\ \A m \in reminders : m \in reminders' \/ m.key \notin R!Range(asked'.reminders)
                                \/ UNCHANGED reminders
    BY <1>1, <1>6, <2>1, UpdateWholeStep
  <2>3. R!KeptRowsKeepTheirPastStep
    BY <2>2 DEF R!KeptRowsKeepTheirPastStep
  <2>4. asked'.scope = r.scope
    BY <1>6 DEF R!UpdateWholeEvent, R!Refused, R!Told, R!Asked
  <2>5. r.scope # "this"
    <3>1. R!scopePairIssues(r) = {}
      BY <2>1 DEF R!updateEventSchema
    <3> QED BY <1>6, <3>1 DEF R!scopePairIssues, R!Naming, R!OneOccurrence, R!Bounds
  <2> QED BY <2>2, <2>3, <2>4, <2>5 DEF R!OneMeansOneStep
<1> QED BY <1>2, <1>4, <1>5, <1>6 DEF R!UpdateEvent, R!Refused

LEMMA DeleteStep ==
  ASSUME R!Bounds, R!RowsInv, NEW r \in R!Deletes, R!DeleteEvent(r)
  PROVE  R!RowsInv' /\ R!OneMeansOneStep /\ R!KeptRowsKeepTheirPastStep
<1>1. r \in R!Requests /\ r.op = "delete" /\ event # None
  BY DEF R!Deletes, R!DeleteEvent
<1>2. \A said : R!Told(r, said) => R!OneMeansOneStep /\ R!KeptRowsKeepTheirPastStep
  BY DEF R!Told, R!OneMeansOneStep, R!KeptRowsKeepTheirPastStep
<1>3. CASE R!Told(r, "refused") \/ (r.recurrenceId = R!Unreal /\ R!Told(r, "failed"))
  BY <1>1, <1>2, <1>3, ToldStep
<1>4. CASE /\ R!OneOccurrence(r) /\ event.repeats /\ r.recurrenceId # R!Unreal
           /\ skipped' = skipped \cup {r.recurrenceId}
           /\ overrides' = overrides \ {r.recurrenceId}
           /\ asked' = R!Asked(r) /\ answer' = "done"
           /\ UNCHANGED <<event, guests, reminders>>
  <2>1. r.recurrenceId \in {1, 2}
    BY <1>1, <1>4, RequestsAreTyped DEF R!OneOccurrence
  <2>a. r.recurrenceId \in Nat
    BY <2>1
  <2>2. overrides' \subseteq Nat /\ skipped' \subseteq Nat
    BY <1>4, <2>a DEF R!RowsInv, R!TypeOK
  <2>3. R!RowsInv'
    BY <1>1, <1>4, <2>2, OccurrenceStep
  <2> QED BY <1>4, <2>3 DEF R!OneMeansOneStep, R!KeptRowsKeepTheirPastStep
<1>5. CASE /\ R!deleteEventSchema(r) = {} /\ ~R!OneOccurrence(r)
           /\ event' = None
           /\ overrides' = {} /\ skipped' = {} /\ guests' = {} /\ reminders' = {}
           /\ asked' = R!Asked(r) /\ answer' = "done"
  <2>1. /\ asked'.reminders = r.reminders /\ asked'.attendees = r.attendees
        /\ asked'.scope = r.scope /\ asked'.op = "delete"
    BY <1>1, <1>5 DEF R!Asked
  <2>2. r.scope # "this"
    BY <1>5 DEF R!deleteEventSchema, R!scopePairIssues, R!Naming, R!OneOccurrence, R!Bounds
  <2>3. /\ R!TypeOK' /\ asked'.attendees \in Seq({"ann", "bob", "ANN"})
        /\ asked'.reminders \in Seq(Int)
    BY <1>1, <1>5, <2>1, RequestsAreTyped DEF R!TypeOK
  <2>4. R!OneRowEach' /\ R!OverridesRepeat'
    BY <1>5 DEF R!OneRowEach, R!OverridesRepeat
  <2>5. R!ListsAsSubmitted' /\ R!ChecksAreNeverFirst' /\ R!FailuresAreKnown'
    BY <1>5, <2>1 DEF R!ListsAsSubmitted, R!ChecksAreNeverFirst, R!FailuresAreKnown
  <2>6. R!RowsInv'
    BY <2>3, <2>4, <2>5 DEF R!RowsInv
  <2> QED BY <1>5, <2>1, <2>2, <2>6 DEF R!OneMeansOneStep, R!KeptRowsKeepTheirPastStep
<1> QED BY <1>3, <1>4, <1>5 DEF R!DeleteEvent, R!Refused

\* An answer and a delivery change one row and not its key.
LEMMA AnswersStep ==
  ASSUME R!RowsInv, R!Answers PROVE R!RowsInv' /\ R!OneMeansOneStep /\ R!KeptRowsKeepTheirPastStep
<1>1. PICK g \in guests :
        /\ ~g.answered
        /\ guests' = (guests \ {g}) \cup {[g EXCEPT !.answered = TRUE]}
        /\ UNCHANGED <<event, overrides, skipped, reminders, asked, answer>>
  BY DEF R!Answers
<1>2. R!TypeOK /\ R!OneRowEach
  BY DEF R!RowsInv
<1>3. g \in [email : {"ann", "bob"}, answered : BOOLEAN]
  BY <1>2 DEF R!TypeOK
<1>a. PICK h : h = [g EXCEPT !.answered = TRUE]
  OBVIOUS
<1>4. h \in [email : {"ann", "bob"}, answered : BOOLEAN] /\ h.email = g.email
  BY <1>3, <1>a
<1>5. guests' = (guests \ {g}) \cup {h}
  BY <1>1, <1>a
<1>6. R!TypeOK'
  BY <1>1, <1>2, <1>5 DEF R!TypeOK
<1>7. { a.email : a \in guests' } = { a.email : a \in guests }
  BY <1>4, <1>5
<1>8. R!OneRowEach'
  BY <1>1, <1>2, <1>4, <1>5 DEF R!OneRowEach
<1>9. R!RowsInv'
  <2>1. R!OverridesRepeat' /\ R!ChecksAreNeverFirst' /\ R!FailuresAreKnown'
    BY <1>1 DEF R!RowsInv, R!OverridesRepeat, R!ChecksAreNeverFirst, R!FailuresAreKnown
  <2>2. R!ListsAsSubmitted'
    BY <1>1, <1>7 DEF R!RowsInv, R!ListsAsSubmitted
  <2> QED BY <1>1, <1>6, <1>8, <2>1, <2>2 DEF R!RowsInv
<1>10. R!OneMeansOneStep
  BY <1>1, <1>7 DEF R!OneMeansOneStep
<1>11. R!KeptRowsKeepTheirPastStep
  BY <1>1, <1>5 DEF R!KeptRowsKeepTheirPastStep
<1> QED BY <1>9, <1>10, <1>11

LEMMA DeliversStep ==
  ASSUME R!RowsInv, R!Delivers PROVE R!RowsInv' /\ R!OneMeansOneStep /\ R!KeptRowsKeepTheirPastStep
<1>1. PICK m \in reminders :
        /\ ~m.delivered
        /\ reminders' = (reminders \ {m}) \cup {[m EXCEPT !.delivered = TRUE]}
        /\ UNCHANGED <<event, overrides, skipped, guests, asked, answer>>
  BY DEF R!Delivers
<1>2. R!TypeOK /\ R!OneRowEach
  BY DEF R!RowsInv
<1>3. m \in [key : Int, delivered : BOOLEAN]
  BY <1>2 DEF R!TypeOK
<1>a. PICK n : n = [m EXCEPT !.delivered = TRUE]
  OBVIOUS
<1>4. n \in [key : Int, delivered : BOOLEAN] /\ n.key = m.key
  BY <1>3, <1>a
<1>5. reminders' = (reminders \ {m}) \cup {n}
  BY <1>1, <1>a
<1>6. R!TypeOK'
  BY <1>1, <1>2, <1>5 DEF R!TypeOK
<1>7. { a.key : a \in reminders' } = { a.key : a \in reminders }
  BY <1>4, <1>5
<1>8. R!OneRowEach'
  BY <1>1, <1>2, <1>4, <1>5 DEF R!OneRowEach
<1>9. R!RowsInv'
  <2>1. R!OverridesRepeat' /\ R!ChecksAreNeverFirst' /\ R!FailuresAreKnown'
    BY <1>1 DEF R!RowsInv, R!OverridesRepeat, R!ChecksAreNeverFirst, R!FailuresAreKnown
  <2>2. R!ListsAsSubmitted'
    BY <1>1, <1>7 DEF R!RowsInv, R!ListsAsSubmitted
  <2> QED BY <1>1, <1>6, <1>8, <2>1, <2>2 DEF R!RowsInv
<1>10. R!OneMeansOneStep
  BY <1>1, <1>7 DEF R!OneMeansOneStep
<1>11. R!KeptRowsKeepTheirPastStep
  BY <1>1, <1>5 DEF R!KeptRowsKeepTheirPastStep
<1> QED BY <1>9, <1>10, <1>11

LEMMA RowsStep ==
  ASSUME R!Bounds
  PROVE  R!RowsInv /\ [R!Next]_R!vars
           => R!RowsInv' /\ [R!OneMeansOneStep /\ R!KeptRowsKeepTheirPastStep]_R!vars
<1> SUFFICES ASSUME R!RowsInv, [R!Next]_R!vars
             PROVE  R!RowsInv' /\ [R!OneMeansOneStep /\ R!KeptRowsKeepTheirPastStep]_R!vars
  OBVIOUS
<1>1. CASE UNCHANGED R!vars
  BY <1>1 DEF R!vars, R!RowsInv, R!TypeOK, R!OneRowEach, R!ListsAsSubmitted, R!OverridesRepeat,
     R!ChecksAreNeverFirst, R!FailuresAreKnown
<1>2. ASSUME NEW r \in R!Creates, R!CreateEvent(r)
      PROVE  R!RowsInv' /\ R!OneMeansOneStep /\ R!KeptRowsKeepTheirPastStep
  <2>1. R!RowsInv'
    BY <1>2, CreateStep
  <2>2. asked'.scope # "this"
    <3>1. r.scope = None /\ asked' = R!Asked(r)
      BY <1>2, RequestsAreTyped DEF R!Creates, R!CreateEvent, R!Refused, R!Told
    <3> QED BY <3>1 DEF R!Asked, R!Bounds
  <2>3. event = None
    BY <1>2 DEF R!CreateEvent
  <2> QED BY <2>1, <2>2, <2>3 DEF R!OneMeansOneStep, R!KeptRowsKeepTheirPastStep
<1> QED BY <1>1, <1>2, UpdateStep, DeleteStep, AnswersStep, DeliversStep DEF R!Next

\* The rows of a list, one to a key, are as many as the keys.
LEMMA CountedByKey ==
  ASSUME NEW T, NEW K, NEW f \in Bijection(T, K), IsFiniteSet(K)
  PROVE  Cardinality(T) = Cardinality(K)
<1>1. ExistsBijection(T, K)
  BY DEF ExistsBijection
<1>2. ExistsBijection(K, T)
  BY <1>1, Fun_ExistsBijSymmetric
<1> QED BY <1>2, FS_Bijection

LEMMA ListsAreFinite == ASSUME NEW T, NEW s \in Seq(T) PROVE IsFiniteSet(R!Range(s))
<1>1. PICK n \in Nat : n = Len(s) /\ DOMAIN s = 1..n
  OBVIOUS
<1>2. IsFiniteSet(1..n)
  BY FS_Interval
<1>3. s \in Surjection(1..n, R!Range(s))
  BY <1>1 DEF Surjection, R!Range
<1> QED BY <1>2, <1>3, FS_Surjection

\* An accepted save holds each of its guests and reminders once.
LEMMA RowsAreSaved == ASSUME R!RowsInv PROVE R!SavedAsSubmitted
<1> SUFFICES ASSUME answer = "done", asked.op \in {"create", "update"}, asked.scope # "this"
             PROVE  /\ { g.email : g \in guests } = R!Range(R!Parsed(asked.attendees))
                    /\ R!Cardinality(guests)
                         = R!Cardinality(R!Range(R!Parsed(asked.attendees)))
                    /\ { m.key : m \in reminders } = R!Range(asked.reminders)
                    /\ R!Cardinality(reminders) = R!Cardinality(R!Range(asked.reminders))
                    /\ ~event.repeats => overrides = {}
  BY DEF R!SavedAsSubmitted
<1>1. /\ { g.email : g \in guests } = R!Range(R!Parsed(asked.attendees))
      /\ { m.key : m \in reminders } = R!Range(asked.reminders)
  BY DEF R!RowsInv, R!ListsAsSubmitted
<1>2. /\ R!OneRowEach /\ asked.reminders \in Seq(Int)
      /\ R!Parsed(asked.attendees) \in Seq({"ann", "bob"})
  BY ParsedList DEF R!RowsInv
<1>3. PICK K, M : K = R!Range(R!Parsed(asked.attendees)) /\ M = R!Range(asked.reminders)
                  /\ IsFiniteSet(K) /\ IsFiniteSet(M)
  BY <1>2, ListsAreFinite
<1>4. [g \in guests |-> g.email] \in Bijection(guests, K)
  BY <1>1, <1>2, <1>3 DEF R!OneRowEach, Bijection, Injection, Surjection, IsInjective
<1>5. [m \in reminders |-> m.key] \in Bijection(reminders, M)
  BY <1>1, <1>2, <1>3 DEF R!OneRowEach, Bijection, Injection, Surjection, IsInjective
<1>6. /\ R!Cardinality(guests) = R!Cardinality(K)
      /\ R!Cardinality(reminders) = R!Cardinality(M)
  BY <1>3, <1>4, <1>5, CountedByKey, SameCounting
<1>7. ~event.repeats => overrides = {}
  BY DEF R!RowsInv, R!OverridesRepeat
<1> QED BY <1>1, <1>3, <1>6, <1>7

LEMMA RowsBegin == R!Init => R!RowsInv
<1> SUFFICES ASSUME R!Init PROVE R!RowsInv
  OBVIOUS
<1>1. asked.attendees = <<>> /\ asked.reminders = <<>>
  BY DEF R!Init, R!Asked, R!Timed
<1>2. <<>> \in Seq({"ann", "bob", "ANN"}) /\ <<>> \in Seq(Int)
  OBVIOUS
<1> QED BY <1>1, <1>2 DEF R!Init, R!RowsInv, R!TypeOK, R!OneRowEach, R!ListsAsSubmitted,
           R!OverridesRepeat, R!ChecksAreNeverFirst, R!FailuresAreKnown

\* Whatever is submitted, to a create, an update or a delete, no CHECK constraint is the
\* first to object (mapWriteError), what fails is known, and what is accepted is what was
\* list, each address and reminder once (diffAttendees, applyReminders).
THEOREM SavesAreAsSubmitted ==
  ASSUME R!Bounds
  PROVE  R!Spec => [](R!TypeOK /\ R!ChecksAreNeverFirst /\ R!FailuresAreKnown /\ R!SavedAsSubmitted)
<1>1. R!Init => R!RowsInv
  BY RowsBegin
<1>2. R!RowsInv => R!TypeOK /\ R!ChecksAreNeverFirst /\ R!FailuresAreKnown /\ R!SavedAsSubmitted
  BY RowsAreSaved DEF R!RowsInv
<1>3. R!RowsInv /\ [R!Next]_R!vars => R!RowsInv'
  BY RowsStep
<1> QED BY <1>1, <1>2, <1>3, PTL DEF R!Spec

\* A save about one occurrence leaves the series, and any save leaves the answers and the
\* delivery ledgers of the rows it keeps (applyAttendees, applyReminders).
THEOREM SavesKeepThePast == ASSUME R!Bounds PROVE R!Spec => R!OneMeansOne /\ R!KeptRowsKeepTheirPast
<1>1. R!Init => R!RowsInv
  BY RowsBegin
<1>2. R!RowsInv /\ [R!Next]_R!vars
        => R!RowsInv' /\ [R!OneMeansOneStep]_R!vars /\ [R!KeptRowsKeepTheirPastStep]_R!vars
  BY RowsStep
<1> QED BY <1>1, <1>2, PTL DEF R!Spec, R!OneMeansOne, R!KeptRowsKeepTheirPast

------------------------------------------------------------------------------
(* The month (MonthView).                                                    *)

\* The month counts lanes with the FiniteSets this module has.
LEMMA SameCountingOfBars == ASSUME NEW S PROVE V!Cardinality(S) = Cardinality(S)
  BY DEF V!Cardinality, Cardinality

\* Counting in ticks keeps the order of counting in days.
LEMMA ScalesUp ==
  ASSUME NEW n \in Nat, NEW a \in Int, NEW b \in Int, a <= b
  PROVE  a * n <= b * n
<1>1. b - a \in Nat
  OBVIOUS
<1>2. (b - a) * n \in Nat
  BY <1>1
<1>3. (b - a) * n = b * n - a * n
  OBVIOUS
<1>4. a * n \in Int /\ b * n \in Int
  OBVIOUS
<1> QED BY <1>2, <1>3, <1>4

\* A day of the wall clock (MS_PER_DAY) holds the ticks from its own midnight on.
LEMMA Divides ==
  ASSUME NEW n \in Nat \ {0}, NEW a \in Int
  PROVE  /\ a \div n \in Int /\ (a \div n) * n <= a /\ a < ((a \div n) + 1) * n
         /\ a % n = a - (a \div n) * n
<1>1. a \div n \in Int
  OBVIOUS
<1>2. (a \div n) * n <= a
  OBVIOUS
<1>3. a < ((a \div n) + 1) * n
  OBVIOUS
<1>4. a % n = a - (a \div n) * n
  OBVIOUS
<1> QED BY <1>1, <1>2, <1>3, <1>4

\* The cells are four to six whole weeks around the month (buildMonthGrid).
LEMMA GridIsWhole ==
  ASSUME V!Bounds, V!MonthInv
  PROVE  /\ view.viewer \in V!Offset /\ V!FirstOfMonth \in Int
         /\ V!Weeks \in 4 .. 6 /\ V!GridFirst \in Int /\ V!GridLast \in Int
         /\ V!GridFirst <= V!FirstOfMonth /\ V!FirstOfMonth + 27 <= V!GridLast
         /\ V!GridLast = V!GridFirst + 7 * V!Weeks - 1
<1>1. view.year \in Int /\ view.month \in 1 .. 12 /\ view.weekStart \in 0 .. 6
      /\ view.viewer \in V!Offset
  BY DEF V!MonthInv, V!View
<1>2. V!FirstOfMonth \in Int
  <2>1. V!MarchYear(view.year, view.month) \in Int
    BY <1>1 DEF V!MarchYear
  <2>2. (V!MarchYear(view.year, view.month) \div 400) \in Int
    BY <2>1
  <2> QED BY <1>1, <2>1, <2>2 DEF V!FirstOfMonth, V!ToDayNumber
<1>3. V!Leading \in 0 .. 6
  BY <1>1, <1>2 DEF V!Leading, V!DayOfWeek
<1>4. V!DaysInMonth(view.year, view.month) \in 28 .. 31
  BY DEF V!DaysInMonth
<1>5. V!Weeks \in 4 .. 6 /\ V!Leading + 28 <= 7 * V!Weeks
  BY <1>3, <1>4 DEF V!Weeks
<1> QED BY <1>1, <1>2, <1>3, <1>5 DEF V!GridFirst, V!GridLast

\* An event covers dates, the last no earlier than the first (eventSpan).
LEMMA Placement ==
  ASSUME V!Bounds, V!MonthInv, NEW i \in DOMAIN events
  PROVE  /\ events[i] \in GridEvents /\ V!StartWall(events[i]) \in Int
         /\ V!StartAt(events[i]) \in Int /\ V!EndAt(events[i]) \in Int
         /\ V!FirstDate(events[i]) \in Int /\ V!LastDate(events[i]) \in Int
         /\ V!FirstDate(events[i]) <= V!LastDate(events[i])
<1> DEFINE e == events[i]
<1>1. e \in GridEvents
  BY DEF V!MonthInv
<1>2. e.start \in Int /\ e.length \in Nat /\ e.offset \in Int /\ GridDay \in Nat \ {0}
      /\ view.viewer \in Int
  BY <1>1, GridIsWhole DEF V!Bounds, V!Offset
<1> HIDE DEF e
<1>3. V!FirstOfMonth * GridDay \in Int
  BY <1>2, GridIsWhole
<1>4. V!StartWall(e) \in Int
  BY <1>2, <1>3 DEF V!StartWall
<1>5. V!StartAt(e) \in Int /\ V!EndAt(e) \in Int
  BY <1>2, <1>4 DEF V!StartAt, V!EndAt
<1>6. V!FirstDate(e) \in Int
  <2>1. \A x \in Int : x \div GridDay \in Int
    BY <1>2
  <2>2. V!StartAt(e) + view.viewer \in Int
    BY <1>2, <1>5
  <2> QED BY <1>4, <2>1, <2>2 DEF V!FirstDate
<1>7. V!LastDate(e) \in Int /\ V!FirstDate(e) <= V!LastDate(e)
  <2>1. V!StartWall(e) + e.length \in Int /\ V!EndAt(e) + view.viewer \in Int
    BY <1>2, <1>4, <1>5
  <2>2. \A a \in Int : a \div GridDay \in Int
    BY <1>2
  <2> QED BY <1>6, <2>1, <2>2 DEF V!LastDate
<1> QED BY <1>1, <1>4, <1>5, <1>6, <1>7 DEF e

\* What covers a cell overlaps the window asked for (monthGridWindowMs): a timed event by the
\* viewer's own clock, an all-day one because two clocks are less than two days apart.
LEMMA CellsAreAsked ==
  ASSUME V!Bounds, V!MonthInv, NEW i \in DOMAIN events,
         V!Dates(events[i]) \cap (V!GridFirst .. V!GridLast) # {}
  PROVE  V!Returned(events[i])
<1> DEFINE e == events[i]
<1>1. e \in GridEvents /\ V!StartWall(e) \in Int /\ V!StartAt(e) \in Int /\ V!EndAt(e) \in Int
      /\ V!FirstDate(e) \in Int /\ V!LastDate(e) \in Int
  BY Placement
<1>2. V!FirstDate(e) <= V!GridLast /\ V!GridFirst <= V!LastDate(e)
  BY <1>1, GridIsWhole DEF V!Dates
<1>3. /\ e.start \in Int /\ e.length \in Nat /\ GridDay \in Nat \ {0}
      /\ e.offset \in Int /\ - GridDay < e.offset /\ e.offset < GridDay
      /\ view.viewer \in Int /\ - GridDay < view.viewer /\ view.viewer < GridDay
      /\ e.allDay \in BOOLEAN
  BY <1>1, GridIsWhole DEF V!Bounds, V!Offset
<1>4. e.allDay => e.start % GridDay = 0 /\ e.length % GridDay = 0 /\ e.length > 0
  BY <1>1 DEF V!Bounds
<1>5. V!GridFirst \in Int /\ V!GridLast \in Int /\ V!FirstOfMonth \in Int
  BY GridIsWhole
<1> SUFFICES V!Returned(e)
  OBVIOUS
<1> HIDE DEF e
<1>6. /\ V!GridFirst * GridDay \in Int /\ V!GridLast * GridDay \in Int
      /\ (V!GridLast + 1) * GridDay = V!GridLast * GridDay + GridDay
      /\ (V!GridLast + 2) * GridDay = V!GridLast * GridDay + 2 * GridDay
      /\ (V!GridFirst - 1) * GridDay = V!GridFirst * GridDay - GridDay
      /\ (V!GridFirst + 1) * GridDay = V!GridFirst * GridDay + GridDay
  BY <1>3, <1>5
<1>7. /\ V!WindowFrom = V!GridFirst * GridDay - GridDay - view.viewer
      /\ V!WindowTo = V!GridLast * GridDay + 2 * GridDay - view.viewer
  BY <1>3, <1>5, <1>6 DEF V!WindowFrom, V!WindowTo, V!SlackBefore
<1>8. CASE e.allDay
  <2>1. PICK k \in Int : e.start = k * GridDay
    <3>1. /\ (e.start \div GridDay) \in Int
          /\ e.start % GridDay = e.start - (e.start \div GridDay) * GridDay
      BY <1>3, Divides
    <3>2. (e.start \div GridDay) * GridDay \in Int
      BY <1>3, <3>1
    <3>3. e.start = (e.start \div GridDay) * GridDay
      BY <1>3, <1>4, <1>8, <3>1, <3>2
    <3> QED BY <3>1, <3>3
  <2>2. PICK m \in Int : e.length = m * GridDay
    <3>1. /\ (e.length \div GridDay) \in Int
          /\ e.length % GridDay = e.length - (e.length \div GridDay) * GridDay
      <4>1. e.length \in Int
        BY <1>3
      <4> QED BY <1>3, <4>1, Divides
    <3>2. (e.length \div GridDay) * GridDay \in Int
      BY <1>3, <3>1
    <3>3. e.length = (e.length \div GridDay) * GridDay
      BY <1>3, <1>4, <1>8, <3>1, <3>2
    <3> QED BY <3>1, <3>3
  <2>3. V!StartWall(e) = (V!FirstOfMonth + k) * GridDay
    BY <1>3, <1>5, <2>1 DEF V!StartWall
  <2>4. V!StartWall(e) + e.length = (V!FirstOfMonth + k + m) * GridDay
    BY <1>3, <1>5, <2>2, <2>3
  <2>5. \A a \in Int : (a * GridDay) \div GridDay = a /\ (a * GridDay) % GridDay = 0
    <3> SUFFICES ASSUME NEW a \in Int
                 PROVE  (a * GridDay) \div GridDay = a /\ (a * GridDay) % GridDay = 0
      OBVIOUS
    <3> DEFINE q == (a * GridDay) \div GridDay
    <3>1. q \in Int /\ q * GridDay <= a * GridDay /\ a * GridDay < (q + 1) * GridDay
          /\ (a * GridDay) % GridDay = a * GridDay - q * GridDay
      <4>1. a * GridDay \in Int
        BY <1>3
      <4> QED BY <1>3, <4>1, Divides
    <3> HIDE DEF q
    <3>2. ~(a < q)
      <4>1. a < q => (a + 1) * GridDay <= q * GridDay
        BY <1>3, <3>1, ScalesUp
      <4>2. (a + 1) * GridDay = a * GridDay + GridDay /\ a * GridDay \in Int /\ q * GridDay \in Int
        BY <1>3, <3>1
      <4> QED BY <1>3, <3>1, <4>1, <4>2
    <3>3. ~(q < a)
      <4>1. q < a => (q + 1) * GridDay <= a * GridDay
        BY <1>3, <3>1, ScalesUp
      <4>2. (q + 1) * GridDay \in Int /\ a * GridDay \in Int
        BY <1>3, <3>1
      <4> QED BY <3>1, <4>1, <4>2
    <3>4. q = a
      BY <3>1, <3>2, <3>3
    <3>5. a * GridDay - q * GridDay = 0
      BY <1>3, <3>4
    <3> QED BY <3>1, <3>4, <3>5 DEF q
  <2>6. V!FirstDate(e) = V!FirstOfMonth + k
    BY <1>5, <1>8, <2>1, <2>3, <2>5 DEF V!FirstDate
  <2>7. (V!FirstOfMonth + k) * GridDay <= V!GridLast * GridDay
    BY <1>2, <1>3, <1>5, <2>1, <2>6, ScalesUp
  <2>8. V!StartAt(e) <= V!WindowTo
    BY <1>1, <1>3, <1>6, <1>7, <2>3, <2>7 DEF V!StartAt
  <2>9. 1 <= m
    <3>1. m <= 0 => m * GridDay <= 0 * GridDay
      BY <1>3, <2>2, ScalesUp
    <3> QED BY <1>3, <1>4, <1>8, <2>2, <3>1
  <2>10. V!LastDate(e) = V!FirstOfMonth + k + m - 1
    BY <1>5, <1>8, <2>1, <2>2, <2>4, <2>5, <2>6, <2>9 DEF V!LastDate
  <2>11. (V!GridFirst + 1) * GridDay <= (V!FirstOfMonth + k + m) * GridDay
    BY <1>2, <1>3, <1>5, <2>1, <2>2, <2>10, ScalesUp
  <2>12. V!EndAt(e) > V!WindowFrom
    BY <1>1, <1>3, <1>6, <1>7, <2>4, <2>11 DEF V!StartAt, V!EndAt
  <2> QED BY <2>8, <2>12 DEF V!Returned
<1>9. CASE ~e.allDay
  <2> DEFINE a == V!StartAt(e) + view.viewer
             b == V!EndAt(e) + view.viewer
  <2>1. a \in Int /\ b \in Int /\ a <= b
    BY <1>1, <1>3 DEF V!EndAt
  <2>2. /\ a \div GridDay \in Int /\ (a \div GridDay) * GridDay <= a
        /\ a < ((a \div GridDay) + 1) * GridDay
    BY <1>3, <2>1, Divides
  <2>3. /\ b \div GridDay \in Int /\ (b \div GridDay) * GridDay <= b
    BY <1>3, <2>1, Divides
  <2>4. V!FirstDate(e) = a \div GridDay
    BY <1>9 DEF V!FirstDate
  <2>5. V!LastDate(e) <= b \div GridDay \/ V!LastDate(e) = a \div GridDay
    BY <1>9, <2>3, <2>4 DEF V!LastDate
  <2>6. a < (V!GridLast + 1) * GridDay
    <3>1. ((a \div GridDay) + 1) * GridDay <= (V!GridLast + 1) * GridDay
      BY <1>2, <1>3, <1>5, <2>2, <2>4, ScalesUp
    <3>2. ((a \div GridDay) + 1) * GridDay \in Int
      BY <1>3, <2>2
    <3> HIDE DEF a, b
    <3> QED BY <1>3, <1>6, <2>1, <2>2, <3>1, <3>2
  <2>7. V!GridFirst * GridDay <= b
    <3>1. CASE V!LastDate(e) <= b \div GridDay
      <4>1. V!GridFirst * GridDay <= (b \div GridDay) * GridDay
        BY <1>1, <1>2, <1>3, <1>5, <2>3, <3>1, ScalesUp
      <4>2. (b \div GridDay) * GridDay \in Int
        BY <1>3, <2>3
      <4> HIDE DEF a, b
      <4> QED BY <1>6, <2>1, <2>3, <4>1, <4>2
    <3>2. CASE V!LastDate(e) = a \div GridDay
      <4>1. V!GridFirst * GridDay <= (a \div GridDay) * GridDay
        BY <1>1, <1>2, <1>3, <1>5, <2>2, <3>2, ScalesUp
      <4>2. (a \div GridDay) * GridDay \in Int
        BY <1>3, <2>2
      <4> HIDE DEF a, b
      <4> QED BY <1>6, <2>1, <2>2, <4>1, <4>2
    <3> QED BY <2>5, <3>1, <3>2
  <2>8. V!StartAt(e) <= V!WindowTo
    BY <1>1, <1>3, <1>6, <1>7, <2>6
  <2>9. V!EndAt(e) > V!WindowFrom
    BY <1>1, <1>3, <1>6, <1>7, <2>7
  <2> QED BY <2>8, <2>9 DEF V!Returned
<1> QED BY <1>3, <1>8, <1>9

\* A set of naturals has a least element.
LEMMA Least ==
  ASSUME NEW T \in SUBSET Nat, T # {}
  PROVE  \E x \in T : \A y \in T : x <= y
<1>1. PICK x \in T : \A y \in T : ~(<<y, x>> \in OpToRel(<, Nat))
  BY NatLessThanWellFounded, WFMin
<1>2. \A y \in T : ~(y < x)
  BY <1>1 DEF OpToRel
<1>3. \A y \in T : x <= y
  BY <1>2
<1> QED BY <1>3

\* The loop for a free lane (isLaneTaken) ends: finitely many bars take finitely many lanes.
LEMMA FreeLane ==
  ASSUME NEW T, IsFiniteSet(T)
  PROVE  \E n \in 0 .. Cardinality(T) : n \notin T /\ \A m \in 0 .. (n - 1) : m \in T
<1>1. Cardinality(T) \in Nat
  BY FS_CardinalityType
<1> DEFINE F == {n \in 0 .. Cardinality(T) : n \notin T}
<1>2. F # {}
  <2> SUFFICES ASSUME 0 .. Cardinality(T) \subseteq T PROVE FALSE
    OBVIOUS
  <2>1. Cardinality(0 .. Cardinality(T)) = Cardinality(T) + 1
    BY <1>1, FS_Interval
  <2>2. Cardinality(0 .. Cardinality(T)) <= Cardinality(T)
    BY FS_Subset
  <2> QED BY <1>1, <2>1, <2>2
<1>3. F \in SUBSET Nat
  BY <1>1
<1>4. PICK n \in F : \A m \in F : n <= m
  <2> HIDE DEF F
  <2> QED BY <1>2, <1>3, Least
<1>5. ASSUME NEW m \in 0 .. (n - 1) PROVE m \in T
  <2>1. m \in 0 .. Cardinality(T) /\ ~(n <= m)
    BY <1>1, <1>4
  <2> QED BY <1>4, <2>1
<1> QED BY <1>4, <1>5

\* The bars of S have their lanes, each the first its predecessors leave.
LanesGiven(lane, w, S) ==
  lane = [i \in S |-> V!FirstFree({lane[j] : j \in V!InTheWay(i, w)})]

\* The bars of a week drawn before one, how many they are, and the first k of the week.
DrawnBefore(i, w) == {j \in V!Shown(w) : V!Before(j, i)}
RankOf(i, w) == Cardinality(DrawnBefore(i, w))
FirstDrawn(k, w) == {i \in V!Shown(w) : RankOf(i, w) < k}

\* Bars are drawn in one order (placeEventsOnMonthGrid's sort): earlier, longer, by id.
LEMMA BeforeOrders ==
  ASSUME V!Bounds, V!MonthInv
  PROVE  /\ \A i \in DOMAIN events : ~V!Before(i, i)
         /\ \A i, j, k \in DOMAIN events : V!Before(i, j) /\ V!Before(j, k) => V!Before(i, k)
         /\ \A i, j \in DOMAIN events : i # j => V!Before(i, j) \/ V!Before(j, i)
<1>1. DOMAIN events \subseteq Int
  BY DEF V!MonthInv
<1>2. \A i \in DOMAIN events : V!FirstDate(events[i]) \in Int /\ V!LastDate(events[i]) \in Int
  BY Placement
<1>3. \A i \in DOMAIN events : ~V!Before(i, i)
  BY <1>1, <1>2 DEF V!Before
<1>4. \A i, j, k \in DOMAIN events : V!Before(i, j) /\ V!Before(j, k) => V!Before(i, k)
  BY <1>1, <1>2 DEF V!Before
<1>5. \A i, j \in DOMAIN events : i # j => V!Before(i, j) \/ V!Before(j, i)
  BY <1>1, <1>2 DEF V!Before
<1> QED BY <1>3, <1>4, <1>5

\* The bars of a week are events of the calendar (placeEventsOnMonthGrid).
LEMMA ShownAreFinite ==
  ASSUME V!Bounds, V!MonthInv, NEW w
  PROVE  V!Shown(w) \subseteq DOMAIN events /\ IsFiniteSet(V!Shown(w))
<1>1. V!Shown(w) \subseteq DOMAIN events
  BY DEF V!Shown
<1>2. DOMAIN events = 1 .. Len(events) /\ Len(events) \in Nat
  BY DEF V!MonthInv
<1>3. IsFiniteSet(DOMAIN events)
  BY <1>2, FS_Interval
<1> QED BY <1>1, <1>3, FS_Subset

\* A bar has more bars before it than any of those has (placeEventsOnMonthGrid's sort).
LEMMA RanksRise ==
  ASSUME V!Bounds, V!MonthInv, NEW w, NEW i \in V!Shown(w)
  PROVE  /\ RankOf(i, w) \in Nat /\ RankOf(i, w) <= Cardinality(V!Shown(w))
         /\ \A j \in V!Shown(w) : V!Before(j, i) => RankOf(j, w) < RankOf(i, w)
<1>1. IsFiniteSet(DrawnBefore(i, w)) /\ RankOf(i, w) \in Nat
      /\ RankOf(i, w) <= Cardinality(V!Shown(w))
  <2>1. DrawnBefore(i, w) \subseteq V!Shown(w)
    BY DEF DrawnBefore
  <2> QED BY <2>1, ShownAreFinite, FS_Subset, FS_CardinalityType DEF RankOf
<1>2. ASSUME NEW j \in V!Shown(w), V!Before(j, i) PROVE RankOf(j, w) < RankOf(i, w)
  <2>1. DrawnBefore(j, w) \subseteq DrawnBefore(i, w)
    BY <1>2, BeforeOrders, ShownAreFinite DEF DrawnBefore
  <2>2. j \in DrawnBefore(i, w) /\ j \notin DrawnBefore(j, w)
    BY <1>2, BeforeOrders, ShownAreFinite DEF DrawnBefore
  <2>3. IsFiniteSet(DrawnBefore(j, w)) /\ RankOf(j, w) \in Nat /\ RankOf(j, w) <= RankOf(i, w)
        /\ RankOf(j, w) # RankOf(i, w)
    BY <1>1, <2>1, <2>2, FS_Subset, FS_CardinalityType DEF RankOf
  <2> QED BY <1>1, <2>3
<1> QED BY <1>1, <1>2

\* Lanes given to the first bars of a week extend to the next one (placeEventsOnMonthGrid).
LEMMA LanesGrow ==
  ASSUME V!Bounds, V!MonthInv, NEW w, NEW k \in Nat, NEW g, LanesGiven(g, w, FirstDrawn(k, w))
  PROVE  \E h : LanesGiven(h, w, FirstDrawn(k + 1, w))
<1> DEFINE F == FirstDrawn(k, w)
           S == FirstDrawn(k + 1, w)
           h == [i \in S |-> V!FirstFree({g[j] : j \in V!InTheWay(i, w)})]
<1>1. ASSUME NEW i \in S PROVE V!InTheWay(i, w) \subseteq F
  <2>1. i \in V!Shown(w) /\ RankOf(i, w) < k + 1
    BY DEF FirstDrawn
  <2>2. ASSUME NEW j \in V!InTheWay(i, w) PROVE j \in F
    <3>1. j \in V!Shown(w) /\ V!Before(j, i)
      BY DEF V!InTheWay
    <3>2. RankOf(j, w) \in Nat /\ RankOf(i, w) \in Nat /\ RankOf(j, w) < RankOf(i, w)
      BY <2>1, <3>1, RanksRise
    <3> QED BY <2>1, <3>1, <3>2 DEF FirstDrawn
  <2> QED BY <2>2
<1>2. F \subseteq S
  BY RanksRise DEF FirstDrawn
<1>3. \A i \in F : h[i] = g[i]
  <2>1. \A i \in F : g[i] = V!FirstFree({g[j] : j \in V!InTheWay(i, w)})
    BY DEF LanesGiven
  <2>2. \A i \in S : h[i] = V!FirstFree({g[j] : j \in V!InTheWay(i, w)})
    OBVIOUS
  <2> HIDE DEF h, F, S
  <2> QED BY <1>2, <2>1, <2>2
<1>4. \A i \in S : {h[j] : j \in V!InTheWay(i, w)} = {g[j] : j \in V!InTheWay(i, w)}
  <2> HIDE DEF h, F, S
  <2> QED BY <1>1, <1>3
<1>5. h = [i \in S |-> V!FirstFree({h[j] : j \in V!InTheWay(i, w)})]
  <2>1. h = [i \in S |-> V!FirstFree({g[j] : j \in V!InTheWay(i, w)})]
    OBVIOUS
  <2> HIDE DEF h, F, S
  <2> QED BY <1>4, <2>1
<1> HIDE DEF h
<1> QED BY <1>5 DEF LanesGiven

\* Every bar of a week is given a lane, the first its predecessors leave (placeEventsOnMonthGrid).
LEMMA LanesAreDefined ==
  ASSUME V!Bounds, V!MonthInv, NEW w
  PROVE  LanesGiven(V!LaneOf(w), w, V!Shown(w))
<1> DEFINE Undrawn == {k \in Nat : ~ \E g : LanesGiven(g, w, FirstDrawn(k, w))}
<1>1. Undrawn = {}
  <2> SUFFICES ASSUME Undrawn # {} PROVE FALSE
    OBVIOUS
  <2>1. PICK k \in Undrawn : \A m \in Undrawn : k <= m
    <3>1. Undrawn \in SUBSET Nat
      OBVIOUS
    <3> HIDE DEF Undrawn
    <3> QED BY <3>1, Least
  <2>2. k # 0
    <3> SUFFICES \E g : LanesGiven(g, w, FirstDrawn(0, w))
      OBVIOUS
    <3>1. FirstDrawn(0, w) = {}
      BY RanksRise DEF FirstDrawn
    <3>2. PICK g : g = [i \in {} |-> 0]
      OBVIOUS
    <3>3. g = [i \in {} |-> V!FirstFree({g[j] : j \in V!InTheWay(i, w)})]
      BY <3>2
    <3> QED BY <3>1, <3>3 DEF LanesGiven
  <2>3. k - 1 \in Nat /\ k - 1 \notin Undrawn
    BY <2>1, <2>2
  <2>4. PICK g : LanesGiven(g, w, FirstDrawn(k - 1, w))
    BY <2>3
  <2>5. \E h : LanesGiven(h, w, FirstDrawn((k - 1) + 1, w))
    BY <2>3, <2>4, LanesGrow
  <2>6. (k - 1) + 1 = k
    BY <2>1
  <2> QED BY <2>1, <2>5, <2>6
<1>2. PICK g : LanesGiven(g, w, V!Shown(w))
  <2>1. Cardinality(V!Shown(w)) + 1 \in Nat
    BY ShownAreFinite, FS_CardinalityType
  <2>2. FirstDrawn(Cardinality(V!Shown(w)) + 1, w) = V!Shown(w)
    BY <2>1, RanksRise, ShownAreFinite, FS_CardinalityType DEF FirstDrawn
  <2> QED BY <1>1, <2>1, <2>2
<1>3. V!LaneOf(w) = CHOOSE lane : LanesGiven(lane, w, V!Shown(w))
  BY DEF V!LaneOf, LanesGiven, V!FirstFree, V!InTheWay
<1> QED BY <1>2, <1>3

\* A bar's lane is no lane of a bar drawn before it on its way (isLaneTaken).
LEMMA AskedApart ==
  ASSUME V!Bounds, V!MonthInv, NEW w, NEW i \in V!Shown(w), NEW j \in V!InTheWay(i, w)
  PROVE  V!LaneOf(w)[i] # V!LaneOf(w)[j]
<1> DEFINE lane == V!LaneOf(w)
           Taken == {lane[k] : k \in V!InTheWay(i, w)}
<1>1. lane[i] = V!FirstFree(Taken)
  BY LanesAreDefined DEF LanesGiven
<1>2. IsFiniteSet(Taken)
  <2>1. IsFiniteSet(V!InTheWay(i, w))
    <3>1. V!InTheWay(i, w) \subseteq V!Shown(w)
      BY DEF V!InTheWay
    <3> QED BY <3>1, ShownAreFinite, FS_Subset
  <2> DEFINE lanesAsked == [k \in V!InTheWay(i, w) |-> lane[k]]
  <2>2. lanesAsked \in Surjection(V!InTheWay(i, w), Taken)
    BY DEF Surjection
  <2> QED BY <2>1, <2>2, FS_Surjection
<1>3. lane[j] \in Taken
  OBVIOUS
<1> HIDE DEF Taken
<1>4. V!FirstFree(Taken) \notin Taken
  <2>1. V!Cardinality(Taken) = Cardinality(Taken)
    BY SameCountingOfBars
  <2> QED BY <1>2, <2>1, FreeLane DEF V!FirstFree
<1> QED BY <1>1, <1>3, <1>4

\* Two bars that meet in a week are in two lanes, whichever was drawn first (isLaneTaken).
LEMMA LanesApart ==
  ASSUME V!Bounds, V!MonthInv, NEW w, NEW i \in V!Shown(w), NEW j \in V!Shown(w), i # j,
         V!Meet(i, j, w)
  PROVE  V!LaneOf(w)[i] # V!LaneOf(w)[j]
<1>1. V!Meet(j, i, w)
  BY DEF V!Meet
<1>2. V!Before(i, j) \/ V!Before(j, i)
  BY BeforeOrders, ShownAreFinite
<1>3. i \in V!InTheWay(j, w) \/ j \in V!InTheWay(i, w)
  BY <1>1, <1>2 DEF V!InTheWay
<1> QED BY <1>3, AskedApart

\* What is laid out is whole, asked for and apart (buildMonthGrid, placeEventsOnMonthGrid).
LEMMA MonthIsPainted ==
  ASSUME V!Bounds, V!MonthInv
  PROVE  V!TypeOK /\ V!WindowReachesTheGrid /\ V!BarsAreApart
<1>1. V!TypeOK
  BY GridIsWhole DEF V!TypeOK, V!MonthInv
<1>2. V!WindowReachesTheGrid
  BY CellsAreAsked DEF V!WindowReachesTheGrid
<1>3. ASSUME NEW w \in 1 .. V!Weeks, lanes # V!Unplaced
      PROVE  lanes[w] = V!LaneOf(w) /\ V!Placed(w) = V!Shown(w)
  <2>1. lanes[w] = V!LaneOf(w)
    BY <1>3 DEF V!MonthInv
  <2>2. DOMAIN V!LaneOf(w) = V!Shown(w)
    BY LanesAreDefined DEF LanesGiven
  <2> QED BY <1>3, <2>1, <2>2 DEF V!Placed
<1>4. ASSUME NEW w \in 1 .. V!Weeks, NEW i \in DOMAIN events,
             V!Dates(events[i]) \cap V!WeekOf(w) # {}
      PROVE  i \in V!Shown(w)
  <2>1. V!WeekOf(w) \subseteq V!GridFirst .. V!GridLast
    BY GridIsWhole DEF V!WeekOf
  <2>2. V!Dates(events[i]) \cap (V!GridFirst .. V!GridLast) # {}
    BY <1>4, <2>1
  <2> QED BY <1>4, <2>2, CellsAreAsked DEF V!Shown
<1>5. V!BarsAreApart
  <2> SUFFICES ASSUME lanes # V!Unplaced, NEW w \in 1 .. V!Weeks
               PROVE  /\ \A i \in DOMAIN events :
                           V!Dates(events[i]) \cap V!WeekOf(w) # {} => i \in V!Placed(w)
                      /\ \A i, j \in V!Placed(w) :
                           i # j /\ lanes[w][i] = lanes[w][j]
                             => V!Dates(events[i]) \cap V!Dates(events[j]) \cap V!WeekOf(w) = {}
    BY DEF V!BarsAreApart
  <2>1. lanes[w] = V!LaneOf(w) /\ V!Placed(w) = V!Shown(w)
    BY <1>3
  <2>2. \A i \in DOMAIN events : V!Dates(events[i]) \cap V!WeekOf(w) # {} => i \in V!Placed(w)
    BY <1>4, <2>1
  <2>3. ASSUME NEW i \in V!Placed(w), NEW j \in V!Placed(w), i # j, lanes[w][i] = lanes[w][j]
        PROVE  V!Dates(events[i]) \cap V!Dates(events[j]) \cap V!WeekOf(w) = {}
    <3>1. ~V!Meet(i, j, w)
      BY <2>1, <2>3, LanesApart
    <3> QED BY <3>1 DEF V!Meet
  <2> QED BY <2>2, <2>3
<1> QED BY <1>1, <1>2, <1>5

\* A month opens with nothing laid out (MonthGrid).
LEMMA MonthBegins == ASSUME V!Bounds, V!Init PROVE V!MonthInv
<1>1. view \in V!View
  BY DEF V!Init, V!Bounds, V!View
<1>2. events \in Seq(GridEvents) /\ Len(events) <= MaxGridEvents /\ lanes = V!Unplaced
  BY DEF V!Init, V!Bounds
<1> QED BY <1>1, <1>2 DEF V!MonthInv

\* Events come in and the month is laid out (MonthGrid): the lanes stay those of the events.
LEMMA MonthStep == ASSUME V!Bounds PROVE V!MonthInv /\ [V!Next]_V!vars => V!MonthInv'
<1> SUFFICES ASSUME V!MonthInv, [V!Next]_V!vars PROVE V!MonthInv'
  OBVIOUS
<1>1. ASSUME NEW e \in GridEvents, V!Add(e) PROVE V!MonthInv'
  <2>1. events' \in Seq(GridEvents) /\ Len(events') = Len(events) + 1 /\ Len(events) \in Nat
    BY <1>1 DEF V!Add, V!MonthInv
  <2>2. Len(events') <= MaxGridEvents
    BY <1>1, <2>1 DEF V!Add, V!Bounds
  <2> QED BY <1>1, <2>1, <2>2 DEF V!Add, V!MonthInv
<1>2. CASE V!Place
  <2>1. UNCHANGED <<view, events>>
    BY <1>2 DEF V!Place
  <2>2. lanes' = [w \in 1 .. V!Weeks |-> V!LaneOf(w)]
    BY <1>2 DEF V!Place
  <2>3. V!Weeks' = V!Weeks
    BY <2>1 DEF V!Weeks, V!Leading, V!FirstOfMonth
  <2>4. \A w : V!LaneOf(w)' = V!LaneOf(w)
    BY <2>1 DEF V!LaneOf, V!InTheWay, V!Shown, V!Before, V!Meet, V!Returned, V!Dates, V!WeekOf,
        V!GridFirst, V!GridLast, V!Leading,
                V!FirstOfMonth, V!Weeks, V!WindowFrom, V!WindowTo, V!StartWall, V!StartAt,
                V!EndAt, V!FirstDate, V!LastDate
  <2>5. lanes' = [w \in 1 .. V!Weeks' |-> V!LaneOf(w)']
    BY <2>2, <2>3, <2>4
  <2> QED BY <2>1, <2>5 DEF V!MonthInv
<1>3. CASE UNCHANGED V!vars
  <2>1. UNCHANGED <<view, events, lanes>>
    BY <1>3 DEF V!vars
  <2>2. V!Weeks' = V!Weeks
    BY <2>1 DEF V!Weeks, V!Leading, V!FirstOfMonth
  <2>3. \A w : V!LaneOf(w)' = V!LaneOf(w)
    BY <2>1 DEF V!LaneOf, V!InTheWay, V!Shown, V!Before, V!Meet, V!Returned, V!Dates, V!WeekOf,
        V!GridFirst, V!GridLast, V!Leading,
                V!FirstOfMonth, V!Weeks, V!WindowFrom, V!WindowTo, V!StartWall, V!StartAt,
                V!EndAt, V!FirstDate, V!LastDate
  <2>4. lanes # V!Unplaced => lanes' = [w \in 1 .. V!Weeks' |-> V!LaneOf(w)']
    BY <2>1, <2>2, <2>3 DEF V!MonthInv
  <2> QED BY <2>1, <2>4 DEF V!MonthInv
<1> QED BY <1>1, <1>2, <1>3 DEF V!Next

\* For any month, first day of the week, viewer and events, on clocks less than a day from UTC,
\* the grid (lib/calendar/grid.ts) is whole weeks, the window asked for reaches every event
\* that covers a cell, and no two bars of a week are in one lane on one day.
THEOREM MonthIsLaidOut ==
  ASSUME V!Bounds PROVE V!Spec => [](V!TypeOK /\ V!WindowReachesTheGrid /\ V!BarsAreApart)
<1>1. V!Init => V!MonthInv
  BY MonthBegins
<1>2. V!MonthInv /\ [V!Next]_V!vars => V!MonthInv'
  BY MonthStep
<1>3. V!MonthInv => V!TypeOK /\ V!WindowReachesTheGrid /\ V!BarsAreApart
  BY MonthIsPainted
<1> QED BY <1>1, <1>2, <1>3, PTL DEF V!Spec

------------------------------------------------------------------------------
(* The dates and wall times (WallTimes, CivilTime).                          *)

\* The first day of a year of the era.
YearStart(y) == y * 365 + y \div 4 - y \div 100

\* The formula for the year of the era (fromDayNumber) finds the year a day lies in.
LEMMA YearsOfTheEra ==
  ASSUME NEW d \in Nat, d <= 146096
  PROVE  /\ W!YearOfEra(d) \in Nat /\ W!YearOfEra(d) <= 399 /\ YearStart(W!YearOfEra(d)) <= d
         /\ d < YearStart(W!YearOfEra(d) + 1) \/ d = 146096
<1> DEFINE a == d \div 1460
           b == d \div 36524
           c == d \div 146096
           y == W!YearOfEra(d)
           q == y \div 4
           h == y \div 100
           qq == (y + 1) \div 4
           hh == (y + 1) \div 100
<1>1. /\ a \in Int /\ b \in Int /\ c \in Int
      /\ 1460 * a <= d /\ d < 1460 * a + 1460
      /\ 36524 * b <= d /\ d < 36524 * b + 36524
      /\ 146096 * c <= d /\ d < 146096 * c + 146096
  OBVIOUS
<1>2. y \in Int /\ 365 * y <= d - a + b - c /\ d - a + b - c < 365 * y + 365
  <2>1. d - a + b - c \in Int
    BY <1>1
  <2>2. y = (d - a + b - c) \div 365
    BY DEF W!YearOfEra
  <2> HIDE DEF a, b, c, y
  <2> QED BY <2>1, <2>2
<1> HIDE DEF a, b, c, y
<1>3. /\ q \in Int /\ h \in Int /\ qq \in Int /\ hh \in Int
      /\ 4 * q <= y /\ y < 4 * q + 4 /\ 100 * h <= y /\ y < 100 * h + 100
      /\ 4 * qq <= y + 1 /\ y + 1 < 4 * qq + 4 /\ 100 * hh <= y + 1 /\ y + 1 < 100 * hh + 100
  BY <1>2
<1>4. YearStart(y) = y * 365 + q - h /\ YearStart(y + 1) = (y + 1) * 365 + qq - hh
  BY DEF YearStart
<1> HIDE DEF q, h, qq, hh
<1>5. y \in Nat /\ y <= 399
  BY <1>1, <1>2, SMTT(60)
<1>6. YearStart(y) <= d
  BY <1>1, <1>2, <1>3, <1>4, <1>5, SMTT(60)
<1>7. d < YearStart(y + 1) \/ d = 146096
  BY <1>1, <1>2, <1>3, <1>4, <1>5, SMTT(60)
<1> QED BY <1>5, <1>6, <1>7 DEF y

\* Years of the era begin in order (toDayNumber).
LEMMA YearsAreApart ==
  ASSUME NEW a \in Nat, a <= 399, NEW b \in Nat, b <= 400, a < b
  PROVE  YearStart(a + 1) <= YearStart(b)
  BY SMTT(60) DEF YearStart

\* How long a year of the era is; the last has the leap day of its 400 years.
YearLength(y) == IF y = 399 THEN 366 ELSE YearStart(y + 1) - YearStart(y)

\* A year counted from March is long when it ends in a leap February (isLeapYear).
LEMMA LeapYears ==
  ASSUME NEW e \in Int, NEW y \in Nat, y <= 399
  PROVE  YearLength(y) = IF W!IsLeapYear(y + e * 400 + 1) THEN 366 ELSE 365
  BY SMTT(60) DEF YearStart, YearLength, W!IsLeapYear

\* The months of a year counted from March, and where each begins.
MonthStart(m) == (153 * m + 2) \div 5

\* The formula for the month of the year (fromDayNumber) finds the month a day lies in.
LEMMA DaysOfTheMonths ==
  ASSUME NEW t \in Nat, t <= 365
  PROVE  LET m == (5 * t + 2) \div 153
         IN  /\ m \in 0 .. 11 /\ MonthStart(m) \in Int /\ MonthStart(m) <= t
             /\ m < 11 => t < MonthStart(m + 1)
  BY SMTT(60) DEF MonthStart

\* And no other month would do (fromDayNumber).
LEMMA MonthsAreApart ==
  ASSUME NEW t \in Nat, t <= 365, NEW m \in 0 .. 11, MonthStart(m) <= t,
         m < 11 => t < MonthStart(m + 1)
  PROVE  m = (5 * t + 2) \div 153
  BY SMTT(60) DEF MonthStart

\* The month of the calendar, and the year it is written in.
Named(m) == IF m < 10 THEN m + 3 ELSE m - 9
YearOf(y, m) == IF m < 10 THEN y ELSE y + 1

\* Months counted from March last as long as the calendar has them (daysInMonth).
LEMMA MonthLengths ==
  ASSUME NEW e \in Int, NEW y \in Nat, y <= 399, NEW m \in 0 .. 11
  PROVE  W!DaysInMonth(YearOf(y + e * 400, m), Named(m))
           = (IF m = 11 THEN YearLength(y) ELSE MonthStart(m + 1)) - MonthStart(m)
<1>1. CASE m = 11
  <2>1. W!DaysInMonth(YearOf(y + e * 400, m), Named(m))
          = IF W!IsLeapYear(y + e * 400 + 1) THEN 29 ELSE 28
    BY <1>1 DEF W!DaysInMonth, YearOf, Named
  <2>2. MonthStart(m) = 337
    BY <1>1 DEF MonthStart
  <2> QED BY <1>1, <2>1, <2>2, LeapYears
<1>2. CASE m # 11
  <2>1. m \in 0 .. 10
    BY <1>2
  <2> QED BY <1>2, <2>1 DEF W!DaysInMonth, Named, MonthStart
<1> QED BY <1>1, <1>2

\* A day number is of day t of year y of era e, as the code splits it.
Splits(n, e, y, t) ==
  /\ e \in Int /\ y \in Nat /\ y <= 399 /\ t \in 0 .. (YearLength(y) - 1)
  /\ n = e * 146097 + YearStart(y) + t - 719468

\* A year has 365 or 366 days (toDayNumber).
LEMMA YearLengths ==
  ASSUME NEW y \in Nat, y <= 399
  PROVE  YearLength(y) \in {365, 366} /\ YearStart(y) \in Nat
<1>1. YearLength(y) \in {365, 366}
  <2>1. \E e \in Int : YearLength(y) = IF W!IsLeapYear(y + e * 400 + 1) THEN 366 ELSE 365
    <3>1. 0 \in Int
      OBVIOUS
    <3>2. \A e \in Int : YearLength(y) = IF W!IsLeapYear(y + e * 400 + 1) THEN 366 ELSE 365
      BY LeapYears
    <3> QED BY <3>1, <3>2
  <2> QED BY <2>1
<1>2. YearStart(y) \in Nat
  BY DEF YearStart
<1> QED BY <1>1, <1>2

\* What fromDayNumber takes a day apart into, and makes its date of.
LEMMA DateOfSplit ==
  ASSUME NEW n \in Int
  PROVE  \E e, y, t : Splits(n, e, y, t) /\ W!FromDayNumber(n) = W!DateOfYear(y + e * 400, t)
<1> DEFINE z == n + 719468
           e == z \div 146097
           d == z - e * 146097
           y == W!YearOfEra(d)
           t == d - (365 * y + y \div 4 - y \div 100)
<1>1. z \in Int /\ e \in Int /\ d \in Nat /\ d <= 146096
  OBVIOUS
<1>2. W!FromDayNumber(n) = W!DateOfYear(y + e * 400, t)
  BY DEF W!FromDayNumber, W!DateOfEra
<1> HIDE DEF e, y, d
<1>3. /\ y \in Nat /\ y <= 399 /\ YearStart(y) <= d
      /\ d < YearStart(y + 1) \/ d = 146096
  BY <1>1, YearsOfTheEra DEF y
<1>4. t = d - YearStart(y)
  BY <1>3 DEF YearStart
<1> HIDE DEF t
<1>5. d < YearStart(y) + YearLength(y)
  <2>1. CASE y = 399
    <3>1. YearStart(399) = 145731
      BY DEF YearStart
    <3> QED BY <1>1, <2>1, <3>1 DEF YearLength
  <2>2. CASE y # 399
    <3>1. YearStart(y + 1) \in Int /\ YearStart(y) \in Int
      BY <1>3 DEF YearStart
    <3>2. y + 1 \in Nat /\ y + 1 <= 399
      BY <1>3, <2>2
    <3>3. YearStart(y + 1) <= 145731
      BY <3>2 DEF YearStart
    <3>4. d # 146096
      <4>1. SUFFICES ASSUME d = 146096 PROVE FALSE
        OBVIOUS
      <4>2. W!YearOfEra(146096) = 399
        BY DEF W!YearOfEra
      <4> QED BY <2>2, <4>1, <4>2 DEF y
    <3> QED BY <1>3, <2>2, <3>1, <3>4 DEF YearLength
  <2> QED BY <2>1, <2>2
<1>6. YearLength(y) \in Int /\ YearStart(y) \in Int
  BY <1>3, YearLengths
<1>7. t \in 0 .. (YearLength(y) - 1)
  BY <1>1, <1>3, <1>4, <1>5, <1>6
<1>8. n = e * 146097 + YearStart(y) + t - 719468
  BY <1>1, <1>4, <1>6 DEF d
<1>9. Splits(n, e, y, t)
  BY <1>1, <1>3, <1>7, <1>8 DEF Splits
<1> QED BY <1>2, <1>9

\* A day comes apart in one way only (fromDayNumber).
LEMMA SplitOfDate ==
  ASSUME NEW n \in Int, NEW e, NEW y, NEW t, Splits(n, e, y, t)
  PROVE  W!FromDayNumber(n) = W!DateOfYear(y + e * 400, t)
<1>1. PICK f, x, s : Splits(n, f, x, s) /\ W!FromDayNumber(n) = W!DateOfYear(x + f * 400, s)
  BY DateOfSplit
<1>2. /\ e \in Int /\ f \in Int /\ x \in Nat /\ x <= 399 /\ y \in Nat /\ y <= 399
      /\ s \in Int /\ t \in Int /\ 0 <= s /\ 0 <= t
      /\ s < YearLength(x) /\ t < YearLength(y)
      /\ YearStart(x) \in Nat /\ YearStart(y) \in Nat
      /\ YearLength(x) \in Int /\ YearLength(y) \in Int
  BY <1>1, YearLengths DEF Splits
<1>3. \A a \in Nat : a <= 399 => YearStart(a) + YearLength(a) <= 146097
  BY SMTT(60) DEF YearStart, YearLength
<1>4. \A a, b \in Nat : a < b /\ b <= 399 => YearStart(a) + YearLength(a) <= YearStart(b)
  <2> SUFFICES ASSUME NEW a \in Nat, a <= 399, NEW b \in Nat, b <= 399, a < b
               PROVE  YearStart(a) + YearLength(a) <= YearStart(b)
    OBVIOUS
  <2>1. YearStart(a + 1) <= YearStart(b)
    BY YearsAreApart
  <2>2. YearStart(a) + YearLength(a) = YearStart(a + 1)
    BY DEF YearLength, YearStart
  <2> QED BY <2>1, <2>2
<1>5. e * 146097 + YearStart(y) + t = f * 146097 + YearStart(x) + s
  BY <1>1, <1>2 DEF Splits
<1>6. YearStart(x) + s < 146097 /\ YearStart(y) + t < 146097
  BY <1>2, <1>3
<1>7. e = f /\ YearStart(y) + t = YearStart(x) + s
  BY <1>2, <1>5, <1>6
<1>8. x = y
  <2>1. ~(x < y)
    BY <1>2, <1>4, <1>7
  <2>2. ~(y < x)
    BY <1>2, <1>4, <1>7
  <2> QED BY <1>2, <2>1, <2>2
<1>9. s = t
  BY <1>2, <1>7, <1>8
<1> QED BY <1>1, <1>7, <1>8, <1>9

\* The date of a day of a year (fromDayNumber), by its month.
LEMMA DateOfDay ==
  ASSUME NEW y \in Int, NEW t \in Nat, t <= 365
  PROVE  LET m == (5 * t + 2) \div 153
         IN  W!DateOfYear(y, t) = [year |-> YearOf(y, m), month |-> Named(m),
                                 day |-> t - MonthStart(m) + 1]
<1> DEFINE m == (5 * t + 2) \div 153
<1>1. m \in 0 .. 11
  BY DaysOfTheMonths
<1>2. W!DateOfYear(y, t) = [year |-> IF Named(m) <= 2 THEN y + 1 ELSE y, month |-> Named(m),
                          day |-> t - MonthStart(m) + 1]
  BY DEF W!DateOfYear, Named, MonthStart
<1>3. (IF Named(m) <= 2 THEN y + 1 ELSE y) = YearOf(y, m)
  BY <1>1 DEF Named, YearOf
<1> HIDE DEF m
<1> QED BY <1>2, <1>3 DEF m

\* Every day number has a date of the calendar, whose number it is, and the next day the next
\* date (fromDayNumber, toDayNumber): leap days, ends of years and of eras, before 1970 too.
LEMMA DatesAreGregorian ==
  ASSUME NEW n \in Int
  PROVE  LET date == W!FromDayNumber(n)
             next == W!FromDayNumber(n + 1)
         IN  /\ date.month \in 1 .. 12 /\ date.day \in 1 .. W!DaysInMonth(date.year, date.month)
             /\ W!ToDayNumber(date.year, date.month, date.day) = n
             /\ \/ next = [date EXCEPT !.day = @ + 1]
                \/ /\ date.day = W!DaysInMonth(date.year, date.month)
                   /\ next.day = 1
                   /\ \/ next.month = date.month + 1 /\ next.year = date.year
                      \/ date.month = 12 /\ next.month = 1 /\ next.year = date.year + 1
<1> DEFINE date == W!FromDayNumber(n)
           next == W!FromDayNumber(n + 1)
<1>1. PICK e, y, t : Splits(n, e, y, t) /\ date = W!DateOfYear(y + e * 400, t)
  BY DateOfSplit
<1>2. /\ e \in Int /\ y \in Nat /\ y <= 399 /\ t \in 0 .. (YearLength(y) - 1) /\ y + e * 400 \in Int
      /\ n = e * 146097 + YearStart(y) + t - 719468
  BY <1>1 DEF Splits
<1>3. YearLength(y) \in {365, 366} /\ YearStart(y) \in Nat /\ t \in Nat /\ t <= 365
  BY <1>2, YearLengths
<1> DEFINE m == (5 * t + 2) \div 153
           c == y + e * 400
<1>4. m \in 0 .. 11 /\ MonthStart(m) \in Int /\ MonthStart(m) <= t
        /\ (m < 11 => t < MonthStart(m + 1))
  BY <1>3, DaysOfTheMonths
<1>5. date = [year |-> YearOf(c, m), month |-> Named(m), day |-> t - MonthStart(m) + 1]
  <2> HIDE DEF date, next
  <2>1. c \in Int
    BY <1>2
  <2>2. W!DateOfYear(c, t) = [year |-> YearOf(c, m), month |-> Named(m),
          day |-> t - MonthStart(m) + 1]
    <3> HIDE DEF c
    <3> QED BY <1>3, <2>1, DateOfDay
  <2>3. date = W!DateOfYear(c, t)
    BY <1>1
  <2> QED BY <2>2, <2>3
<1>c. c \in Int
  BY <1>2
<1> HIDE DEF m, c, date, next
<1>6. W!DaysInMonth(date.year, date.month)
        = (IF m = 11 THEN YearLength(y) ELSE MonthStart(m + 1)) - MonthStart(m)
  <2>1. W!DaysInMonth(YearOf(y + e * 400, m), Named(m))
          = (IF m = 11 THEN YearLength(y) ELSE MonthStart(m + 1)) - MonthStart(m)
    BY <1>2, <1>4, MonthLengths
  <2>2. date.year = YearOf(y + e * 400, m) /\ date.month = Named(m)
    BY <1>5 DEF c
  <2> QED BY <2>1, <2>2
<1>7. MonthStart(m + 1) \in Int
  BY <1>4 DEF MonthStart
<1>8. date.month \in 1 .. 12 /\ date.day \in 1 .. W!DaysInMonth(date.year, date.month)
  <2>1. Named(m) \in 1 .. 12
    BY <1>4 DEF Named
  <2>2. t - MonthStart(m) + 1 \in 1 .. W!DaysInMonth(date.year, date.month)
    BY <1>2, <1>3, <1>4, <1>6, <1>7
  <2> QED BY <1>5, <2>1, <2>2
<1>9. W!ToDayNumber(date.year, date.month, date.day) = n
  <2>1. c \in Int /\ W!MarchYear(date.year, date.month) = c
    BY <1>2, <1>4, <1>5 DEF W!MarchYear, Named, YearOf, c
  <2>2. c \div 400 = e /\ c - (c \div 400) * 400 = y
    BY <1>2 DEF c
  <2>3. (IF date.month > 2 THEN date.month - 3 ELSE date.month + 9) = m
    BY <1>4, <1>5 DEF Named
  <2>4. (153 * m + 2) \div 5 + date.day - 1 = t
    BY <1>3, <1>4, <1>5 DEF MonthStart
  <2>5. y * 365 + y \div 4 - y \div 100 + t = YearStart(y) + t
    BY DEF YearStart
  <2>6. W!ToDayNumber(date.year, date.month, date.day)
          = e * 146097 + (y * 365 + y \div 4 - y \div 100 + t) - 719468
    <3>1. W!ToDayNumber(date.year, date.month, date.day)
            = (c \div 400) * 146097
              + ((c - (c \div 400) * 400) * 365 + (c - (c \div 400) * 400) \div 4
                   - (c - (c \div 400) * 400) \div 100
                   + ((153 * (IF date.month > 2 THEN date.month - 3 ELSE date.month + 9) + 2) \div 5
                      + date.day - 1))
              - 719468
      BY <2>1 DEF W!ToDayNumber
    <3> QED BY <2>2, <2>3, <2>4, <3>1
  <2> QED BY <1>2, <1>3, <2>5, <2>6
<1>10. \/ next = [date EXCEPT !.day = @ + 1]
       \/ /\ date.day = W!DaysInMonth(date.year, date.month)
          /\ next.day = 1
          /\ \/ next.month = date.month + 1 /\ next.year = date.year
             \/ date.month = 12 /\ next.month = 1 /\ next.year = date.year + 1
  <2>1. CASE t + 1 < YearLength(y)
    <3>1. Splits(n + 1, e, y, t + 1) /\ t + 1 \in Nat /\ t + 1 <= 365
      BY <1>2, <1>3, <2>1 DEF Splits
    <3>2. next = W!DateOfYear(c, t + 1)
      BY <3>1, SplitOfDate DEF c, next
    <3>3. CASE m < 11 => t + 1 < MonthStart(m + 1)
      <4>1. m = (5 * (t + 1) + 2) \div 153
        BY <1>3, <1>4, <3>1, <3>3, MonthsAreApart
      <4>2. next = [year |-> YearOf(c, m), month |-> Named(m), day |-> (t + 1) - MonthStart(m) + 1]
        BY <1>c, <3>1, <3>2, <4>1, DateOfDay
      <4>3. (t + 1) - MonthStart(m) + 1 = (t - MonthStart(m) + 1) + 1
        BY <1>3, <1>4
      <4> QED BY <1>5, <4>2, <4>3
    <3>4. CASE m < 11 /\ ~(t + 1 < MonthStart(m + 1))
      <4>1. t + 1 = MonthStart(m + 1)
        BY <1>3, <1>4, <1>7, <3>4
      <4>2. m + 1 \in 0 .. 11 /\ (m + 1 < 11 => t + 1 < MonthStart((m + 1) + 1))
        BY <1>4, <3>4, <4>1 DEF MonthStart
      <4>3. m + 1 = (5 * (t + 1) + 2) \div 153
        BY <3>1, <4>1, <4>2, <1>7, MonthsAreApart
      <4>4. next = [year |-> YearOf(c, m + 1), month |-> Named(m + 1),
                    day |-> (t + 1) - MonthStart(m + 1) + 1]
        <5> DEFINE k == (5 * (t + 1) + 2) \div 153
        <5>1. W!DateOfYear(c, t + 1) = [year |-> YearOf(c, k), month |-> Named(k),
                                      day |-> (t + 1) - MonthStart(k) + 1]
          BY <1>c, <3>1, DateOfDay
        <5>2. k = m + 1
          BY <4>3
        <5> HIDE DEF k
        <5> QED BY <3>2, <5>1, <5>2
      <4>5. next.day = 1
        BY <1>3, <1>7, <4>1, <4>4
      <4>6. date.day = W!DaysInMonth(date.year, date.month)
        BY <1>3, <1>4, <1>5, <1>6, <3>4, <4>1
      <4>7. \/ next.month = date.month + 1 /\ next.year = date.year
            \/ date.month = 12 /\ next.month = 1 /\ next.year = date.year + 1
        BY <1>2, <1>4, <1>5, <3>4, <4>4 DEF Named, YearOf, c
      <4> QED BY <4>5, <4>6, <4>7
    <3> QED BY <1>4, <3>3, <3>4
  <2>2. CASE t + 1 = YearLength(y)
    <3>1. m = 11
      <4>1. t >= 364
        BY <1>3, <2>2
      <4> QED BY <1>3, <1>4, <4>1 DEF m
    <3>2. date.day = W!DaysInMonth(date.year, date.month) /\ date.month = 2 /\ date.year = c + 1
      BY <1>2, <1>3, <1>4, <1>5, <1>6, <2>2, <3>1 DEF Named, YearOf, c
    <3>3. \E f, x : Splits(n + 1, f, x, 0) /\ x + f * 400 = c + 1
      <4>1. CASE y = 399
        <5>1. YearStart(399) = 145731 /\ YearStart(0) = 0 /\ YearLength(399) = 366
          BY DEF YearStart, YearLength
        <5>2. Splits(n + 1, e + 1, 0, 0)
          BY <1>2, <1>3, <2>2, <4>1, <5>1, YearLengths DEF Splits
        <5>3. 0 + (e + 1) * 400 = c + 1
          BY <1>2, <4>1 DEF c
        <5> QED BY <5>2, <5>3
      <4>2. CASE y # 399
        <5>1. y + 1 \in Nat /\ y + 1 <= 399 /\ YearStart(y + 1) = YearStart(y) + YearLength(y)
          BY <1>2, <4>2 DEF YearLength, YearStart
        <5>2. Splits(n + 1, e, y + 1, 0)
          BY <1>2, <1>3, <2>2, <5>1, YearLengths DEF Splits
        <5>3. (y + 1) + e * 400 = c + 1
          BY <1>2 DEF c
        <5> QED BY <5>2, <5>3
      <4> QED BY <4>1, <4>2
    <3>4. next = W!DateOfYear(c + 1, 0)
      BY <1>2, <3>3, SplitOfDate DEF next
    <3>5. next = [year |-> c + 1, month |-> 3, day |-> 1]
      BY <1>2, <3>4 DEF W!DateOfYear, c
    <3> QED BY <3>2, <3>5
  <2> QED BY <1>2, <1>3, <2>1, <2>2
<1> QED BY <1>8, <1>9, <1>10 DEF date, next

\* A set of places of a sequence has a last one.
LEMMA GreatestOne ==
  ASSUME NEW n \in Nat, NEW S \in SUBSET (1 .. n), S # {}
  PROVE  \E x \in S : \A y \in S : y <= x
<1> DEFINE T == {n - x : x \in S}
<1>1. T \in SUBSET Nat /\ T # {}
  <2>1. \A x \in S : n - x \in Nat
    OBVIOUS
  <2> QED BY <2>1
<1>2. PICK t \in T : \A y \in T : t <= y
  <2> HIDE DEF T
  <2> QED BY <1>1, Least
<1>3. PICK g \in S : t = n - g
  OBVIOUS
<1>4. \A x \in S : t <= n - x
  BY <1>2
<1> QED BY <1>3, <1>4

\* The change in force at an instant.
InForce(k, i, zone) ==
  /\ k \in DOMAIN zone /\ zone[k].at <= i
  /\ \A j \in DOMAIN zone : zone[j].at <= i => j <= k

\* A zone is a sequence of instants and offsets less than a day (timezone.ts).
LEMMA ZonesAreTyped ==
  ASSUME W!Bounds, NEW zone, W!IsZone(zone)
  PROVE  /\ Len(zone) \in Nat /\ DOMAIN zone = 1 .. Len(zone) /\ 1 \in DOMAIN zone
         /\ \A k \in DOMAIN zone : /\ zone[k].at \in Int /\ zone[k].offset \in Int
                                   /\ - WallTicks < zone[k].offset /\ zone[k].offset < WallTicks
<1>1. zone \in Seq([at : Int, offset : (1 - WallTicks) .. (WallTicks - 1)]) /\ zone # <<>>
  BY DEF W!IsZone
<1>2. Len(zone) \in Nat /\ DOMAIN zone = 1 .. Len(zone) /\ Len(zone) # 0
  BY <1>1
<1>3. 1 \in DOMAIN zone
  BY <1>2
<1>4. \A k \in DOMAIN zone : zone[k] \in [at : Int, offset : (1 - WallTicks) .. (WallTicks - 1)]
  <2> DEFINE S == [at : Int, offset : (1 - WallTicks) .. (WallTicks - 1)]
  <2>1. zone \in Seq(S)
    BY <1>1
  <2> HIDE DEF S
  <2>2. \A k \in DOMAIN zone : zone[k] \in S
    BY <2>1
  <2> QED BY <2>2 DEF S
<1>5. WallTicks \in Int
  BY DEF W!Bounds
<1> QED BY <1>2, <1>3, <1>4, <1>5

\* One change is in force at an instant, and gives the offset (offsetAt).
LEMMA OneInForce ==
  ASSUME W!Bounds, NEW zone, W!IsZone(zone), NEW i \in Int, zone[1].at <= i
  PROVE  /\ \E k : InForce(k, i, zone)
         /\ \A k : InForce(k, i, zone) => W!OffsetAt(i, zone) = zone[k].offset
<1> DEFINE past == {k \in DOMAIN zone : zone[k].at <= i}
<1>1. Len(zone) \in Nat /\ past \in SUBSET (1 .. Len(zone)) /\ past # {}
  BY ZonesAreTyped
<1>2. PICK g \in past : \A j \in past : j <= g
  <2> HIDE DEF past
  <2> QED BY <1>1, GreatestOne
<1>3. InForce(g, i, zone)
  BY <1>2 DEF InForce
<1>4. ASSUME NEW k, InForce(k, i, zone) PROVE W!OffsetAt(i, zone) = zone[k].offset
  <2>1. k \in past /\ \A j \in past : j <= k
    BY <1>4 DEF InForce
  <2>2. W!OffsetAt(i, zone) = zone[CHOOSE h \in past : \A j \in past : j <= h].offset
    BY DEF W!OffsetAt
  <2>3. \A h \in past : (\A j \in past : j <= h) => h = k
    <3> SUFFICES ASSUME NEW h \in past, \A j \in past : j <= h PROVE h = k
      OBVIOUS
    <3>1. h \in Int /\ k \in Int
      BY <1>1, <2>1
    <3>2. h <= k /\ k <= h
      BY <2>1
    <3> QED BY <3>1, <3>2
  <2> HIDE DEF past
  <2>4. (CHOOSE h \in past : \A j \in past : j <= h) = k
    BY <2>1, <2>3
  <2> QED BY <2>2, <2>4
<1> QED BY <1>3, <1>4

\* Around a wall time a zone has one change at most, at c, from offset b to a.
Around(w, zone, b, a, c) ==
  /\ b \in Int /\ a \in Int /\ c \in Int
  /\ - WallTicks < b /\ b < WallTicks /\ - WallTicks < a /\ a < WallTicks
  /\ w - WallTicks < c /\ c <= w + WallTicks
  /\ \A i \in Int : c - 2 * WallTicks <= i /\ i < c => W!OffsetAt(i, zone) = b
  /\ \A i \in Int : c <= i /\ i <= c + 2 * WallTicks => W!OffsetAt(i, zone) = a
  /\ W!Sampled(w, zone) = [before |-> b, after |-> a]

\* Around a wall time a zone stays at one offset, b.
Still(w, zone, b) ==
  /\ b \in Int /\ - WallTicks < b /\ b < WallTicks
  /\ \A i \in Int : w - WallTicks <= i /\ i <= w + WallTicks => W!OffsetAt(i, zone) = b
  /\ W!Sampled(w, zone) = [before |-> b, after |-> b]

\* The samples of resolveCivil, a day on either side of the wall time, have one change at most
\* between them, and are the offsets on its sides.
LEMMA OneChangeAtMost ==
  ASSUME W!Bounds, NEW zone, W!IsZone(zone), NEW w \in Int, zone[1].at <= w - WallTicks
  PROVE  (\E b : Still(w, zone, b)) \/ (\E b, a, c : Around(w, zone, b, a, c))
<1>1. WallTicks \in Nat \ {0} /\ w - WallTicks \in Int /\ w + WallTicks \in Int
        /\ zone[1].at \in Int
  BY ZonesAreTyped DEF W!Bounds
<1>2. PICK k : InForce(k, w - WallTicks, zone)
  BY <1>1, OneInForce
<1>3. zone[1].at <= w + WallTicks
  BY <1>1
<1>4. PICK l : InForce(l, w + WallTicks, zone)
  BY <1>1, <1>3, OneInForce
<1>5. /\ k \in DOMAIN zone /\ l \in DOMAIN zone /\ k \in Int /\ l \in Int
      /\ zone[k].at \in Int /\ zone[l].at \in Int
      /\ zone[k].offset \in Int /\ - WallTicks < zone[k].offset /\ zone[k].offset < WallTicks
      /\ zone[l].offset \in Int /\ - WallTicks < zone[l].offset /\ zone[l].offset < WallTicks
      /\ zone[k].at <= w - WallTicks /\ zone[l].at <= w + WallTicks
  BY <1>2, <1>4, ZonesAreTyped DEF InForce
<1>6. k <= l
  BY <1>1, <1>4, <1>5 DEF InForce
<1>7. \A i, j \in DOMAIN zone : i < j => zone[i].at + 2 * WallTicks < zone[j].at
  BY DEF W!IsZone
<1>8. DOMAIN zone \subseteq Int /\ \A j \in DOMAIN zone : zone[j].at \in Int
  BY ZonesAreTyped
<1>9. W!Sampled(w, zone) = [before |-> zone[k].offset, after |-> zone[l].offset]
  BY <1>1, <1>2, <1>3, <1>4, OneInForce DEF W!Sampled
<1>10. CASE k = l
  <2>1. ASSUME NEW i \in Int, w - WallTicks <= i, i <= w + WallTicks
                 PROVE W!OffsetAt(i, zone) = zone[k].offset
    <3>1. InForce(k, i, zone)
      <4>1. \A j \in DOMAIN zone : zone[j].at <= i => zone[j].at <= w + WallTicks
        BY <1>1, <1>8, <2>1
      <4>2. zone[k].at <= i
        BY <1>1, <1>5, <2>1
      <4> QED BY <1>4, <1>5, <1>10, <4>1, <4>2 DEF InForce
    <3>2. zone[1].at <= i
      BY <1>1, <2>1
    <3> QED BY <3>1, <3>2, OneInForce
  <2>2. Still(w, zone, zone[k].offset)
    BY <1>5, <1>9, <1>10, <2>1 DEF Still
  <2> QED BY <2>2
<1>11. CASE k < l
  <2> DEFINE c == zone[l].at
  <2>1. w - WallTicks < c
    BY <1>1, <1>2, <1>5, <1>11 DEF InForce
  <2>2. l = k + 1
    <3> SUFFICES ASSUME k + 1 < l PROVE FALSE
      BY <1>5, <1>11
    <3>1. k + 1 \in DOMAIN zone
      BY <1>5, <1>11, ZonesAreTyped
    <3>2. zone[k + 1].at + 2 * WallTicks < zone[l].at /\ zone[k + 1].at \in Int
      BY <1>5, <1>7, <1>8, <3>1
    <3>3. w - WallTicks < zone[k + 1].at
      <4>1. ~(k + 1 <= k)
        BY <1>5
      <4> QED BY <1>1, <1>2, <3>1, <3>2, <4>1 DEF InForce
    <3> QED BY <1>1, <1>5, <3>2, <3>3
  <2>3. ASSUME NEW i \in Int, c - 2 * WallTicks <= i, i < c
                 PROVE W!OffsetAt(i, zone) = zone[k].offset
    <3>1. zone[k].at + 2 * WallTicks < c
      BY <1>5, <1>7, <1>11
    <3>2. zone[k].at <= i
      BY <1>1, <1>5, <2>3, <3>1
    <3>3. ASSUME NEW j \in DOMAIN zone, zone[j].at <= i PROVE j <= k
      <4> SUFFICES ASSUME ~(j <= k) PROVE FALSE
        OBVIOUS
      <4>1. l <= j
        BY <1>5, <1>8, <2>2
      <4>2. l < j => zone[l].at + 2 * WallTicks < zone[j].at
        BY <1>5, <1>7
      <4>3. zone[l].at <= zone[j].at
        BY <1>1, <1>5, <1>8, <4>1, <4>2
      <4> QED BY <1>5, <1>8, <2>3, <3>3, <4>3
    <3>4. InForce(k, i, zone)
      BY <1>5, <3>2, <3>3 DEF InForce
    <3>5. zone[1].at <= i
      <4>1. 1 \in DOMAIN zone /\ (k = 1 \/ 1 < k)
        BY <1>5, ZonesAreTyped
      <4>2. k = 1 \/ zone[1].at + 2 * WallTicks < zone[k].at
        BY <1>5, <1>7, <4>1
      <4> QED BY <1>1, <1>5, <3>2, <4>2
    <3> QED BY <3>4, <3>5, OneInForce
  <2>4. ASSUME NEW i \in Int, c <= i, i <= c + 2 * WallTicks
                 PROVE W!OffsetAt(i, zone) = zone[l].offset
    <3>1. ASSUME NEW j \in DOMAIN zone, zone[j].at <= i PROVE j <= l
      <4> SUFFICES ASSUME l < j PROVE FALSE
        BY <1>5, <1>8
      <4>1. zone[l].at + 2 * WallTicks < zone[j].at
        BY <1>5, <1>7
      <4> QED BY <1>1, <1>5, <1>8, <2>4, <3>1, <4>1
    <3>2. InForce(l, i, zone)
      BY <1>5, <2>4, <3>1 DEF InForce
    <3>3. zone[1].at <= i
      BY <1>1, <1>5, <2>1, <2>4
    <3> QED BY <3>2, <3>3, OneInForce
  <2>5. Around(w, zone, zone[k].offset, zone[l].offset, c)
    BY <1>5, <1>9, <2>1, <2>3, <2>4 DEF Around
  <2> QED BY <2>5
<1> QED BY <1>5, <1>6, <1>10, <1>11

\* What is stored for a wall time, as ReadsAsTyped asks of it.
Reads(w, zone) ==
  LET start == W!ResolveCivil(w, zone).instant
      readings == W!Readings(w, zone)
  IN  IF readings # {}
      THEN start \in readings /\ \A i \in readings : start <= i
      ELSE LET skip == W!InstantToCivil(start, zone) - w
           IN  skip > 0 /\ W!OffsetAt(start, zone) - W!OffsetAt(start - 1 - skip, zone) = skip

\* An instant that reads as a wall time is less than a day from it (instantToCivil).
LEMMA ReadingsAreNear ==
  ASSUME W!Bounds, NEW zone, W!IsZone(zone), NEW w \in Int, zone[1].at <= w - 2 * WallTicks,
         NEW i \in W!Readings(w, zone)
  PROVE  /\ i \in Int /\ w - WallTicks < i /\ i < w + WallTicks
         /\ i + W!OffsetAt(i, zone) = w
<1>1. WallTicks \in Nat \ {0} /\ zone[1].at \in Int
  BY ZonesAreTyped DEF W!Bounds
<1>2. i \in Int /\ w - 2 * WallTicks <= i /\ i + W!OffsetAt(i, zone) = w
  BY <1>1 DEF W!Readings, W!InstantToCivil
<1>3. zone[1].at <= i
  BY <1>1, <1>2
<1>4. PICK k : InForce(k, i, zone)
  BY <1>2, <1>3, OneInForce
<1>5. W!OffsetAt(i, zone) = zone[k].offset
  BY <1>2, <1>3, <1>4, OneInForce
<1>6. zone[k].offset \in Int /\ - WallTicks < zone[k].offset /\ zone[k].offset < WallTicks
  BY <1>4, ZonesAreTyped DEF InForce
<1> QED BY <1>1, <1>2, <1>5, <1>6

\* And an instant that near, reading as the wall time, is one of its readings.
LEMMA ReadsOff ==
  ASSUME W!Bounds, NEW zone, NEW w \in Int, NEW i \in Int, w - WallTicks < i, i < w + WallTicks,
         i + W!OffsetAt(i, zone) = w
  PROVE  i \in W!Readings(w, zone)
<1>1. WallTicks \in Nat \ {0}
  BY DEF W!Bounds
<1>2. i \in (w - 2 * WallTicks) .. (w + 2 * WallTicks)
  BY <1>1
<1> QED BY <1>2 DEF W!Readings, W!InstantToCivil

\* Away from any change there is one reading, and resolveCivil gives it.
LEMMA ReadWhereStill ==
  ASSUME W!Bounds, NEW zone, W!IsZone(zone), NEW w \in Int, zone[1].at <= w - 2 * WallTicks,
         NEW b, Still(w, zone, b)
  PROVE  W!ResolveCivil(w, zone).instant \in Int /\ Reads(w, zone)
<1>1. /\ WallTicks \in Nat \ {0} /\ b \in Int /\ - WallTicks < b /\ b < WallTicks
      /\ \A i \in Int : w - WallTicks <= i /\ i <= w + WallTicks => W!OffsetAt(i, zone) = b
  BY DEF W!Bounds, Still
<1>2. W!ResolveCivil(w, zone).instant = w - b
  BY DEF W!ResolveCivil, W!ResolvedBetween, W!Resolved, Still
<1>3. w - b \in Int /\ w - WallTicks < w - b /\ w - b < w + WallTicks
  BY <1>1
<1>4. W!OffsetAt(w - b, zone) = b
  BY <1>1, <1>3
<1>5. w - b \in W!Readings(w, zone)
  <2>1. (w - b) + W!OffsetAt(w - b, zone) = w
    BY <1>1, <1>4
  <2> QED BY <1>3, <2>1, ReadsOff
<1>6. ASSUME NEW i \in W!Readings(w, zone) PROVE w - b <= i
  <2>1. i \in Int /\ w - WallTicks < i /\ i < w + WallTicks /\ i + W!OffsetAt(i, zone) = w
    BY ReadingsAreNear
  <2>2. W!OffsetAt(i, zone) = b
    BY <1>1, <2>1
  <2> QED BY <1>1, <2>1, <2>2
<1> QED BY <1>2, <1>3, <1>5, <1>6 DEF Reads

\* At a change resolveCivil gives the reading on its side of it, the first of two, and where
\* the change skipped the wall time the instant pushed forward by what was skipped.
LEMMA ReadAroundAChange ==
  ASSUME W!Bounds, NEW zone, W!IsZone(zone), NEW w \in Int, zone[1].at <= w - 2 * WallTicks,
         NEW b, NEW a, NEW c, Around(w, zone, b, a, c)
  PROVE  W!ResolveCivil(w, zone).instant \in Int /\ Reads(w, zone)
<1>1. /\ WallTicks \in Nat \ {0} /\ b \in Int /\ a \in Int /\ c \in Int
      /\ - WallTicks < b /\ b < WallTicks /\ - WallTicks < a /\ a < WallTicks
      /\ w - WallTicks < c /\ c <= w + WallTicks
      /\ \A i \in Int : c - 2 * WallTicks <= i /\ i < c => W!OffsetAt(i, zone) = b
      /\ \A i \in Int : c <= i /\ i <= c + 2 * WallTicks => W!OffsetAt(i, zone) = a
  BY DEF W!Bounds, Around
<1>2. \A i \in Int : w - WallTicks < i /\ i < w + WallTicks
        => W!OffsetAt(i, zone) = IF i < c THEN b ELSE a
  BY <1>1
<1>3. /\ w - b \in Int /\ w - WallTicks < w - b /\ w - b < w + WallTicks
      /\ w - a \in Int /\ w - WallTicks < w - a /\ w - a < w + WallTicks
  BY <1>1
<1>4. \A i \in W!Readings(w, zone) :
        i \in Int /\ ((i = w - b /\ i < c) \/ (i = w - a /\ c <= i))
  <2> SUFFICES ASSUME NEW i \in W!Readings(w, zone)
               PROVE  i \in Int /\ ((i = w - b /\ i < c) \/ (i = w - a /\ c <= i))
    OBVIOUS
  <2>1. i \in Int /\ w - WallTicks < i /\ i < w + WallTicks /\ i + W!OffsetAt(i, zone) = w
    BY ReadingsAreNear
  <2>2. W!OffsetAt(i, zone) = IF i < c THEN b ELSE a
    BY <1>2, <2>1
  <2> QED BY <1>1, <2>1, <2>2
<1>5. w - b < c => w - b \in W!Readings(w, zone)
  <2> SUFFICES ASSUME w - b < c PROVE w - b \in W!Readings(w, zone)
    OBVIOUS
  <2>1. (w - b) + W!OffsetAt(w - b, zone) = w
    BY <1>1, <1>2, <1>3
  <2> QED BY <1>3, <2>1, ReadsOff
<1>6. c <= w - a => w - a \in W!Readings(w, zone)
  <2> SUFFICES ASSUME c <= w - a PROVE w - a \in W!Readings(w, zone)
    OBVIOUS
  <2>1. (w - a) + W!OffsetAt(w - a, zone) = w
    BY <1>1, <1>2, <1>3
  <2> QED BY <1>3, <2>1, ReadsOff
<1>7. W!InstantToCivil(w - b, zone) = w <=> w - b < c \/ a = b
  BY <1>1, <1>2, <1>3 DEF W!InstantToCivil
<1>8. W!InstantToCivil(w - a, zone) = w <=> c <= w - a \/ a = b
  BY <1>1, <1>2, <1>3 DEF W!InstantToCivil
<1>9. W!ResolveCivil(w, zone).instant =
        IF a = b THEN w - b
        ELSE IF w - b < c /\ c <= w - a THEN w - (IF b > a THEN b ELSE a)
        ELSE IF w - b < c THEN w - b
        ELSE IF c <= w - a THEN w - a
        ELSE w - b
  <2>1. W!ResolveCivil(w, zone) = W!ResolvedBetween(w, zone, b, a)
    BY DEF W!ResolveCivil, Around
  <2> QED BY <1>7, <1>8, <2>1 DEF W!ResolvedBetween, W!Resolved
<1>10. W!ResolveCivil(w, zone).instant \in Int
  BY <1>1, <1>9
<1>11. CASE W!Readings(w, zone) # {}
  <2>1. w - b < c \/ c <= w - a
    BY <1>4, <1>11
  <2>2. W!ResolveCivil(w, zone).instant \in W!Readings(w, zone)
    BY <1>1, <1>5, <1>6, <1>9, <2>1
  <2>3. \A i \in W!Readings(w, zone) : W!ResolveCivil(w, zone).instant <= i
    <3> SUFFICES ASSUME NEW i \in W!Readings(w, zone) PROVE W!ResolveCivil(w, zone).instant <= i
      OBVIOUS
    <3>1. i \in Int /\ ((i = w - b /\ i < c) \/ (i = w - a /\ c <= i))
      BY <1>4
    <3> QED BY <1>1, <1>9, <3>1
  <2> QED BY <1>10, <1>11, <2>2, <2>3 DEF Reads
<1>12. CASE W!Readings(w, zone) = {}
  <2>1. c <= w - b /\ w - a < c
    BY <1>1, <1>3, <1>5, <1>6, <1>12
  <2>2. W!ResolveCivil(w, zone).instant = w - b
    BY <1>1, <1>9, <2>1
  <2>3. W!OffsetAt(w - b, zone) = a
    BY <1>1, <1>2, <1>3, <2>1
  <2>4. W!InstantToCivil(w - b, zone) - w = a - b /\ a - b > 0
    BY <1>1, <2>1, <2>3 DEF W!InstantToCivil
  <2>5. (w - b) - 1 - (a - b) = w - a - 1
    BY <1>1
  <2>6. W!OffsetAt(w - a - 1, zone) = b
    <3>1. w - a - 1 \in Int /\ c - 2 * WallTicks <= w - a - 1 /\ w - a - 1 < c
      BY <1>1, <2>1
    <3> QED BY <1>1, <3>1
  <2> QED BY <1>10, <1>12, <2>2, <2>3, <2>4, <2>5, <2>6 DEF Reads
<1> QED BY <1>10, <1>11, <1>12

\* Whatever the wall time, resolveCivil answers as it promises.
LEMMA WallsAreRead ==
  ASSUME W!Bounds, NEW zone, W!IsZone(zone), NEW w \in Int, zone[1].at <= w - 2 * WallTicks
  PROVE  W!ResolveCivil(w, zone).instant \in Int /\ Reads(w, zone)
<1>1. zone[1].at <= w - WallTicks
  <2>1. WallTicks \in Nat
    BY DEF W!Bounds
  <2>2. zone[1].at \in Int
    BY ZonesAreTyped
  <2> QED BY <2>1, <2>2
<1>2. CASE \E b : Still(w, zone, b)
  BY <1>2, ReadWhereStill
<1>3. CASE \E b, a, c : Around(w, zone, b, a, c)
  BY <1>3, ReadAroundAChange
<1> QED BY <1>1, <1>2, <1>3, OneChangeAtMost

\* What deriveTimes computed is right of the dates, the readings and the ends' order.
LEMMA TimesAreRight ==
  ASSUME W!Bounds, W!TimesInv
  PROVE  W!TypeOK /\ W!DatesFollow /\ W!ReadsAsTyped /\ W!EndsInOrder
<1>1. /\ typed.wall \in WallReadings /\ typed.length \in Nat /\ typed.zone \in TimeZones
      /\ typed.wall \in Int /\ WallTicks \in Nat \ {0}
      /\ W!IsZone(typed.zone.start) /\ W!IsZone(typed.zone.end)
  BY DEF W!TimesInv, W!Bounds
<1>2. W!Day \in Int
  BY <1>1 DEF W!Day
<1>3. W!TypeOK /\ W!DatesFollow
  <2>1. derived.verdict \in {"none", "refused", "stored"}
    BY DEF W!TimesInv, W!Underived, W!Derived
  <2>2. /\ W!Date.month \in 1 .. 12 /\ W!Date.day \in 1 .. W!DaysInMonth(W!Date.year, W!Date.month)
    BY <1>2, DatesAreGregorian DEF W!Date
  <2>3. W!DatesFollow
    BY <1>2, DatesAreGregorian DEF W!Date, W!DatesFollow
  <2> QED BY <2>1, <2>2, <2>3 DEF W!TypeOK
<1>4. /\ W!ResolveCivil(typed.wall, typed.zone.start).instant \in Int
      /\ Reads(typed.wall, typed.zone.start)
  <2>1. typed.zone.start[1].at <= typed.wall - 2 * WallTicks
    BY <1>1 DEF W!IsZone
  <2> QED BY <1>1, <2>1, WallsAreRead
<1>5. W!ResolveCivil(typed.wall + typed.length, typed.zone.end).instant \in Int
  <2>1. typed.zone.end[1].at <= typed.wall - 2 * WallTicks /\ typed.zone.end[1].at \in Int
    BY <1>1, ZonesAreTyped DEF W!IsZone
  <2>2. typed.wall + typed.length \in Int
        /\ typed.zone.end[1].at <= (typed.wall + typed.length) - 2 * WallTicks
    BY <1>1, <2>1
  <2> QED BY <1>1, <2>2, WallsAreRead
<1>6. W!ReadsAsTyped
  BY <1>4 DEF W!TimesInv, W!ReadsAsTyped, Reads, W!Derived, W!Underived
<1>7. W!EndsInOrder
  <2>1. CASE derived = W!Underived
    BY <2>1 DEF W!Underived, W!EndsInOrder
  <2>2. CASE derived # W!Underived
    <3>1. derived = W!Derived(typed.wall, typed.wall + typed.length, typed.zone.start,
            typed.zone.end)
      BY <2>2 DEF W!TimesInv
    <3>2. /\ derived.start = W!ResolveCivil(typed.wall, typed.zone.start).instant
          /\ derived.end = W!ResolveCivil(typed.wall + typed.length, typed.zone.end).instant
          /\ derived.verdict = IF derived.end < derived.start THEN "refused" ELSE "stored"
      BY <3>1 DEF W!Derived
    <3> QED BY <1>4, <1>5, <3>2 DEF W!EndsInOrder
  <2> QED BY <2>1, <2>2
<1> QED BY <1>3, <1>6, <1>7

\* For any zones whose changes are over two days apart and whose offsets are under a day, and
\* any wall times and lengths: days and dates (civil.ts) are each other's, what is stored for a
\* wall time (timezone.ts) reads as it was typed wherever the zone has that reading, the first
\* of two and later by what was skipped of none, and no stored event ends before it starts.
THEOREM TimesAreTrue ==
  ASSUME W!Bounds PROVE W!Spec => [](W!TypeOK /\ W!DatesFollow /\ W!ReadsAsTyped /\ W!EndsInOrder)
<1>1. W!Init => W!TimesInv
  BY DEF W!Init, W!TimesInv
<1>2. W!TimesInv /\ [W!Next]_W!vars => W!TimesInv'
  BY DEF W!TimesInv, W!Next, W!DeriveTimes, W!vars
<1>3. W!TimesInv => W!TypeOK /\ W!DatesFollow /\ W!ReadsAsTyped /\ W!EndsInOrder
  BY TimesAreRight
<1> QED BY <1>1, <1>2, <1>3, PTL DEF W!Spec

------------------------------------------------------------------------------
\* What holds of each component holds of its behaviours here.

\* A behaviour that begins as the calendars' goes on as theirs.
LEMMA CalendarsRun == Spec => [](which # "Calendars") \/ (C!Spec /\ [](which = "Calendars"))
<1>1. Init => which # "Calendars" \/ (which = "Calendars" /\ C!Init)
  BY DEF Init
<1>2. which # "Calendars" /\ [Next]_vars => (which # "Calendars")'
  BY DEF Next, vars
<1>3. which = "Calendars" /\ [Next]_vars => (which = "Calendars")' /\ [C!Next]_C!vars
  BY DEF Next, vars, C!vars, calendarVars
<1> QED BY <1>1, <1>2, <1>3, PTL DEF Spec, C!Spec

\* A behaviour that begins as the attendees' goes on as theirs.
LEMMA AccessRuns == Spec => [](which # "CalendarAccess") \/ (A!Spec /\ [](which = "CalendarAccess"))
<1>1. Init => which # "CalendarAccess" \/ (which = "CalendarAccess" /\ A!Init)
  BY DEF Init
<1>2. which # "CalendarAccess" /\ [Next]_vars => (which # "CalendarAccess")'
  BY DEF Next, vars
<1>3. which = "CalendarAccess" /\ [Next]_vars => (which = "CalendarAccess")' /\ [A!Next]_A!vars
  BY DEF Next, vars, A!vars, accessVars
<1> QED BY <1>1, <1>2, <1>3, PTL DEF Spec, A!Spec

\* A behaviour that begins as the guests' goes on as theirs.
LEMMA GuestsRun == Spec => [](which # "Guests") \/ (G!Spec /\ [](which = "Guests"))
<1>1. Init => which # "Guests" \/ (which = "Guests" /\ G!Init)
  BY DEF Init
<1>2. which # "Guests" /\ [Next]_vars => (which # "Guests")'
  BY DEF Next, vars
<1>3. which = "Guests" /\ [Next]_vars => (which = "Guests")' /\ [G!Next]_G!vars
  BY DEF Next, vars, G!vars, guestVars
<1> QED BY <1>1, <1>2, <1>3, PTL DEF Spec, G!Spec

\* A behaviour that begins as the links' goes on as theirs.
LEMMA LinksRun == Spec => [](which # "RsvpLinks") \/ (L!Spec /\ [](which = "RsvpLinks"))
<1>1. Init => which # "RsvpLinks" \/ (which = "RsvpLinks" /\ L!Init)
  BY DEF Init
<1>2. which # "RsvpLinks" /\ [Next]_vars => (which # "RsvpLinks")'
  BY DEF Next, vars
<1>3. which = "RsvpLinks" /\ [Next]_vars => (which = "RsvpLinks")' /\ [L!Next]_L!vars
  BY DEF Next, vars, L!vars, linkVars
<1> QED BY <1>1, <1>2, <1>3, PTL DEF Spec, L!Spec

\* A behaviour that begins as the composer's goes on as its.
LEMMA ComposerRuns == Spec => [](which # "EventComposer") \/ (E!Spec /\ [](which = "EventComposer"))
<1>1. Init => which # "EventComposer" \/ (which = "EventComposer" /\ E!Init)
  BY DEF Init
<1>2. which # "EventComposer" /\ [Next]_vars => (which # "EventComposer")'
  BY DEF Next, vars
<1>3. which = "EventComposer" /\ [Next]_vars => (which = "EventComposer")' /\ [E!Next]_E!vars
  BY DEF Next, vars, E!vars, E!tables, composerVars
<1> QED BY <1>1, <1>2, <1>3, PTL DEF Spec, E!Spec

\* A behaviour that begins as the rows' goes on as theirs.
LEMMA RowsRun == Spec => [](which # "EventRows") \/ (R!Spec /\ [](which = "EventRows"))
<1>1. Init => which # "EventRows" \/ (which = "EventRows" /\ R!Init)
  BY DEF Init
<1>2. which # "EventRows" /\ [Next]_vars => (which # "EventRows")'
  BY DEF Next, vars
<1>3. which = "EventRows" /\ [Next]_vars => (which = "EventRows")' /\ [R!Next]_R!vars
  BY DEF Next, vars, R!vars, rowVars
<1> QED BY <1>1, <1>2, <1>3, PTL DEF Spec, R!Spec

\* A behaviour that begins as the month's goes on as its.
LEMMA MonthRuns == Spec => [](which # "MonthView") \/ (V!Spec /\ [](which = "MonthView"))
<1>1. Init => which # "MonthView" \/ (which = "MonthView" /\ V!Init)
  BY DEF Init
<1>2. which # "MonthView" /\ [Next]_vars => (which # "MonthView")'
  BY DEF Next, vars
<1>3. which = "MonthView" /\ [Next]_vars
        => (which = "MonthView")' /\ [V!Next]_V!vars
  BY DEF Next, vars, V!vars, gridVars
<1> QED BY <1>1, <1>2, <1>3, PTL DEF Spec, V!Spec

\* A behaviour that begins as the wall times' goes on as theirs.
LEMMA TimesRun == Spec => [](which # "WallTimes") \/ (W!Spec /\ [](which = "WallTimes"))
<1>1. Init => which # "WallTimes" \/ (which = "WallTimes" /\ W!Init)
  BY DEF Init
<1>2. which # "WallTimes" /\ [Next]_vars => (which # "WallTimes")'
  BY DEF Next, vars
<1>3. which = "WallTimes" /\ [Next]_vars => (which = "WallTimes")' /\ [W!Next]_W!vars
  BY DEF Next, vars, W!vars, timeVars
<1> QED BY <1>1, <1>2, <1>3, PTL DEF Spec, W!Spec

\* The calendars of an owner (server/actions/calendars.ts) always have their one primary, and
\* the attendee rows (server/actions/calendar.ts, packages/auth) let in those who proved the
\* address, for any number of calendars, organizations, saves at once, users and addresses.
THEOREM CalendarsAlwaysHold == Spec => []CalendarsHold
<1>1. C!TypeOK /\ C!OnePrimaryKept /\ which = "Calendars" => CalendarsHold
  BY DEF CalendarsHold
<1>2. A!TypeOK /\ A!StampsAreProved /\ A!AnsweredStaysMine /\ A!ListedCanAnswer
      /\ which = "CalendarAccess" => CalendarsHold
  BY DEF CalendarsHold
<1>3. which # "Calendars" /\ which # "CalendarAccess" => CalendarsHold
  BY DEF CalendarsHold
<1> QED BY <1>1, <1>2, <1>3, CalendarsRun, AccessRuns, PrimaryAlwaysKept, InvitationsBelong,
           ConstantsAssumption, PTL

\* The answers and mails of an event's guests (server/actions/calendar.ts) and the links of
\* guests without an account (lib/rsvp-token.ts), for any number of guests, slots, saves,
\* answers and dropped mails, and of attendees and tabs.
THEOREM GuestsAlwaysHold == Spec => []GuestsHold
<1>1. G!TypeOK /\ G!StaleIsKnown /\ G!CalendarsAgree /\ which = "Guests" => GuestsHold
  BY DEF GuestsHold
<1>2. L!TypeOK /\ L!AnswerIsForTheNamed /\ L!OpenSeriesStaysAnswerable /\ which = "RsvpLinks"
      => GuestsHold
  BY DEF GuestsHold
<1>3. which # "Guests" /\ which # "RsvpLinks" => GuestsHold
  BY DEF GuestsHold
<1> QED BY <1>1, <1>2, <1>3, GuestsRun, LinksRun, GuestsAreKept, LinksAnswerForTheNamed,
           ConstantsAssumption, PTL

\* What the composer sends (event-composer.tsx) is well formed, and what it sends of a whole
\* series from a chip at the series' start is warned of as long as the rule it compares with is
\* the series' (from any other chip it need not be: EventComposer!NoSilentDrop); and what the
\* actions make of a submitted event (server/actions/calendar.ts) reaches no constraint first
\* and is saved as it was sent: for any number of occurrences, titles, rules and requests, and
\* any limits on spans, offsets and guests.
THEOREM RequestsAlwaysHold == Spec => []RequestsHold
<1>1. E!TypeOK /\ E!RequestsAreWellFormed /\ E!WarnedFromTheFirst /\ which = "EventComposer"
      => RequestsHold
  BY DEF RequestsHold
<1>2. R!TypeOK /\ R!ChecksAreNeverFirst /\ R!FailuresAreKnown /\ R!SavedAsSubmitted
      /\ which = "EventRows" => RequestsHold
  BY DEF RequestsHold
<1>3. which # "EventComposer" /\ which # "EventRows" => RequestsHold
  BY DEF RequestsHold
<1> QED BY <1>1, <1>2, <1>3, ComposerRuns, RowsRun, WarningsAreRight, SavesAreAsSubmitted,
           ConstantsAssumption, PTL

\* A month in the run (lib/calendar/grid.ts): for any months, viewers and events, the events
\* that cover a cell are asked for, and no two bars are in one lane on one day.
THEOREM MonthsAlwaysHold == Spec => []MonthHolds
<1>1. V!TypeOK /\ V!WindowReachesTheGrid /\ V!BarsAreApart
      /\ which = "MonthView" => MonthHolds
  BY DEF MonthHolds
<1>2. which # "MonthView" => MonthHolds
  BY DEF MonthHolds
<1> QED BY <1>1, <1>2, MonthRuns, MonthIsLaidOut, ConstantsAssumption, PTL

\* The dates and times of an event in the run (packages/calendar/src/civil.ts, timezone.ts):
\* for any such zones, wall times and lengths, they are what was typed.
THEOREM WallTimesAlwaysHold == Spec => []WallTimesHold
<1>1. W!TypeOK /\ W!DatesFollow /\ W!ReadsAsTyped /\ W!EndsInOrder /\ which = "WallTimes"
      => WallTimesHold
  BY DEF WallTimesHold
<1>2. which # "WallTimes" => WallTimesHold
  BY DEF WallTimesHold
<1> QED BY <1>1, <1>2, TimesRun, TimesAreTrue, ConstantsAssumption, PTL

\* No step of the guests changes a row that was there but to record its answer.
LEMMA RowsChangeByAnswers == G!Next => G!AnswersSurviveSavesStep
<1> SUFFICES ASSUME G!Next, NEW g \in Invitee, rows[g] # None, rows'[g] # None, rows'[g] # rows[g]
             PROVE  answers' = answers + 1
  BY DEF G!AnswersSurviveSavesStep
<1>1. \A list : G!DiffGuests(list)[g] \in {None, rows[g]}
  BY DEF G!DiffGuests
<1>2. ASSUME NEW s \in Save, G!CommitSave(s) PROVE answers' = answers + 1
  BY <1>1, <1>2 DEF G!CommitSave
<1>3. ASSUME NEW s \in Save, NEW slot \in Hour, NEW title \in 0 .. 1, NEW busy \in 0 .. 1,
             NEW list \in SUBSET Invitee, G!BeginSave(s, slot, title, busy, list)
      PROVE answers' = answers + 1
  BY <1>3 DEF G!BeginSave
<1>4. ASSUME NEW s \in Save, G!EmitSave(s) \/ G!Delete(s) \/ G!EmitCancel(s)
      PROVE answers' = answers + 1
  BY <1>4 DEF G!EmitSave, G!Delete, G!EmitCancel
<1>5. ASSUME NEW m \in mails, G!Receive(m) PROVE answers' = answers + 1
  BY <1>5 DEF G!Receive
<1>6. ASSUME NEW h \in Invitee, G!CheckAccess(h) PROVE answers' = answers + 1
  BY <1>6 DEF G!CheckAccess
<1>7. ASSUME NEW h \in Invitee, NEW status \in G!Status,
             G!AnswerByToken(h, status) \/ G!AnswerBySession(h, status)
      PROVE answers' = answers + 1
  BY <1>7 DEF G!AnswerByToken, G!AnswerBySession, G!Record
<1> QED BY <1>2, <1>3, <1>4, <1>5, <1>6, <1>7 DEF G!Next

\* No save rewrites the answer or the delivery it keeps (applyAttendees, applyReminders), and
\* one about a single occurrence leaves the series, whatever else is under way.
THEOREM SavesAlwaysSpare == Spec => SavesSpareWhatTheyKeep
<1> DEFINE Inv == which = "EventRows" => R!RowsInv
           Spares == /\ which = "Guests" =>
                          /\ G!AnswersSurviveSavesStep
                     /\ which = "EventRows" =>
                          /\ R!OneMeansOneStep
                          /\ R!KeptRowsKeepTheirPastStep
<1>1. Init => Inv
  BY RowsBegin DEF Init
<1>2. Inv /\ [Next]_vars => Inv'
  <2> SUFFICES ASSUME Inv, [Next]_vars, which' = "EventRows" PROVE R!RowsInv'
    OBVIOUS
  <2>1. which = "EventRows" /\ [R!Next]_R!vars
    BY DEF Next, vars, R!vars, rowVars
  <2> QED BY <2>1, RowsStep, ConstantsAssumption
<1>3. Inv /\ [Next]_vars => [Spares]_vars
  <2> SUFFICES ASSUME Inv, Next PROVE Spares
    OBVIOUS
  <2>1. CASE which = "Guests"
    <3>1. G!Next
      BY <2>1 DEF Next
    <3> QED BY <2>1, <3>1, RowsChangeByAnswers
  <2>2. CASE which = "EventRows"
    <3>1. R!Next /\ R!RowsInv
      BY <2>2 DEF Next
    <3>2. [R!OneMeansOneStep /\ R!KeptRowsKeepTheirPastStep]_R!vars
      BY <3>1, RowsStep, ConstantsAssumption
    <3>3. UNCHANGED R!vars => R!OneMeansOneStep /\ R!KeptRowsKeepTheirPastStep
      BY DEF R!vars, R!OneMeansOneStep, R!KeptRowsKeepTheirPastStep
    <3> QED BY <2>2, <3>2, <3>3
  <2> QED BY <2>1, <2>2
<1> QED BY <1>1, <1>2, <1>3, PTL DEF Spec, SavesSpareWhatTheyKeep
==============================================================================
