------------------------------ MODULE EventRows ------------------------------
(* What a submitted event meets on its way to the tables: the schemas of        *)
(* packages/validators/src/calendar.ts, the checks createEvent, updateEvent and *)
(* deleteEvent make on what the schemas let through, and the CHECK and UNIQUE   *)
(* constraints of packages/db that must never be the first to object.           *)
(* The split and the cut of a series are in CalendarSeries; who is told, in     *)
(* Guests.                                                                      *)
EXTENDS Integers, Sequences, FiniteSets, Functions

CONSTANTS
  PerDay,      \* readings in a day; reading w is midnight when w % PerDay = 0
  MaxSpan,     \* the longest event the tables take (366 days)
  MaxOffset,   \* the furthest reminder the tables take (366 days)
  MaxGuests,   \* MAX_ATTENDEES
  None

VARIABLES
  event,       \* the stored master row, None before a create and after a delete
  overrides,   \* recurrence ids of its override rows, each with the row's rule
  skipped,     \* its EXDATE rows
  guests,      \* its attendee rows: address and whether they answered
  reminders,   \* its reminder rows: key and whether one was already delivered
  asked,       \* the last request
  answer       \* what the action returned for it

vars == <<event, overrides, skipped, guests, reminders, asked, answer>>

(* ------------------------------ the requests ------------------------------ *)

Unreal == -1     \* February 30: it has the shape of a reading and is no date
Lower(spelling) == IF spelling \in {"ANN", "ann"} THEN "ann" ELSE spelling
Behind(zone) == IF zone = "west" THEN 1 ELSE 0

Readings == 0..(MaxSpan + 2) \cup {Unreal}
Zones == {"UTC", "west", "unknown"}

\* a form by what is tried: its times, its rule and scope, or its lists
Timed(o, d, s, z, e, y) ==
  [op |-> o, allDay |-> d, startWall |-> s, startTzid |-> z, endWall |-> e, endTzid |-> y,
   rrule |-> "none", scope |-> None, recurrenceId |-> None, attendees |-> <<>>, reminders |-> <<>>]
Ruled(o, r, s, i) ==
  [op |-> o, allDay |-> FALSE, startWall |-> 1, startTzid |-> "UTC", endWall |-> 2, endTzid |-> "UTC",
   rrule |-> r, scope |-> s, recurrenceId |-> i, attendees |-> <<>>, reminders |-> <<>>]
Listed(o, r, g, m) ==
  [op |-> o, allDay |-> FALSE, startWall |-> 1, startTzid |-> "UTC", endWall |-> 2, endTzid |-> "UTC",
   rrule |-> r, scope |-> None, recurrenceId |-> None, attendees |-> g, reminders |-> m]

TimeRequests ==
  { Timed("create", d, s, z, e, y) :
      d \in BOOLEAN, s \in Readings, z \in Zones, e \in Readings, y \in {"UTC", "unknown"} }
  \cup
  { Timed("update", d, s, z, 2, "UTC") : d \in BOOLEAN, s \in {1, 2}, z \in {"UTC", "west"} }
RuleRequests ==
  { Ruled(o, r, s, i) :
      o \in {"update", "delete"}, r \in {"none", "daily", "unreadable", "shapeless"},
      s \in {None, "this", "all"}, i \in {None, 1, 2, Unreal} }
ListRequests ==
  { Listed(o, r, g, <<>>) :
      o \in {"create", "update"}, r \in {"none", "daily"},
      g \in {<<>>, <<"ann">>, <<"bob", "ANN">>, <<"ann", "ANN">>, <<"ann", "bob", "ann">>} }
  \cup
  { Listed(o, "none", g, m) :
      o \in {"create", "update"}, g \in {<<>>, <<"ann">>},
      m \in {<<MaxOffset + 1>>, <<MaxOffset>>, <<0 - MaxOffset, MaxOffset>>,
             <<MaxOffset, MaxOffset>>, <<0 - MaxOffset - 1>>} }
Requests == TimeRequests \cup RuleRequests \cup ListRequests
Creates == { r \in Requests : r.op = "create" }
Updates == { r \in Requests : r.op = "update" }
Deletes == { r \in Requests : r.op = "delete" }

\* what the properties need to know of a request
Asked(r) ==
  [op |-> r.op, scope |-> r.scope, recurrenceId |-> r.recurrenceId,
   attendees |-> r.attendees, reminders |-> r.reminders]

(* ------------------------------- the schemas ------------------------------ *)

Midnight(wall) == wall % PerDay = 0
Naming(field, wrong) == IF wrong THEN {field} ELSE {}

\* eventFields: the shapes, the limits on the two lists
FieldIssues(r) ==
  Naming("rrule", r.rrule = "shapeless")
  \cup Naming("attendees", Len(r.attendees) > MaxGuests)
  \cup Naming("reminders", \E i \in DOMAIN r.reminders :
                             r.reminders[i] < -MaxOffset \/ r.reminders[i] > MaxOffset)

allDayMidnightIssues(r) ==
  Naming("startWall", r.allDay /\ ~Midnight(r.startWall))
  \cup Naming("endWall", r.allDay /\ ~Midnight(r.endWall))

scopePairIssues(r) ==
  Naming("recurrenceId", r.scope # None /\ r.recurrenceId = None)
  \cup Naming("scope", r.scope = None /\ r.recurrenceId # None)

\* an override may not itself recur
OverrideIssues(r) == Naming("rrule", r.scope = "this" /\ r.rrule # "none")

createEventSchema(r) == FieldIssues(r) \cup allDayMidnightIssues(r)
updateEventSchema(r) ==
  FieldIssues(r) \cup allDayMidnightIssues(r) \cup scopePairIssues(r) \cup OverrideIssues(r)
deleteEventSchema(r) == scopePairIssues(r)

\* the addresses as the schema hands them on, in the order they were sent
Parsed(attendees) == [i \in DOMAIN attendees |-> Lower(attendees[i])]

(* --------------------------- the action's checks -------------------------- *)

StartAt(r) == r.startWall + Behind(r.startTzid)
EndAt(r) == r.endWall + Behind(r.endTzid)

deriveTimes(r) ==
  LET unread == Naming("startTzid", r.startTzid = "unknown")
                \cup Naming("endTzid", r.endTzid = "unknown")
                \cup Naming("startWall", r.startWall = Unreal)
                \cup Naming("endWall", r.endWall = Unreal)
  IN IF unread # {} THEN unread
     ELSE Naming("endWall", EndAt(r) < StartAt(r) \/ EndAt(r) - StartAt(r) > MaxSpan)

parseSubmittedRule(r) == Naming("rrule", r.rrule = "unreadable")

\* the row a save writes: what was submitted and the instants derived from it
Row(r) ==
  [allDay |-> r.allDay, startWall |-> r.startWall, startTzid |-> r.startTzid,
   endWall |-> r.endWall, endTzid |-> r.endTzid, startAt |-> StartAt(r), endAt |-> EndAt(r),
   repeats |-> r.rrule = "daily"]

\* a daily rule produces every reading a whole number of days after the start
Occurs(row, wall) == wall >= row.startWall /\ (wall - row.startWall) % PerDay = 0

(* ------------------------------ the two diffs ----------------------------- *)

\* diffAttendees: an address sent twice is added once, one already there is left alone
AddedGuests(sent) == { <<a, 1>> : a \in Range(sent) \ { g.email : g \in guests } }
\* createEvent hands the parsed list to addAttendees as it is
AllSent(sent) == { <<sent[i], Cardinality({ j \in 1..i : sent[j] = sent[i] })>> : i \in DOMAIN sent }
KeptGuests(sent) == { g \in guests : g.email \in Range(sent) }
Guest(address) == [email |-> address, answered |-> FALSE]
NewGuests(sent) == { Guest(p[1]) : p \in AddedGuests(sent) }

\* near miss: the reminders re-inserted on every save
applyRemindersAnew(before, sent) == { [key |-> k, delivered |-> FALSE] : k \in Range(sent) }
\* diffReminders: the same, by the reminder's key
applyReminders(before, sent) ==
  { m \in before : m.key \in Range(sent) }
  \cup { [key |-> k, delivered |-> FALSE] : k \in Range(sent) \ { m.key : m \in before } }

(* ------------------------------ the constraints --------------------------- *)

EventChecks(row) ==
  /\ row.endAt >= row.startAt                                  \* end_not_before_start
  /\ row.endAt - row.startAt <= MaxSpan                        \* span_bounded
  /\ row.allDay => Midnight(row.startWall) /\ Midnight(row.endWall)
OverrideChecks(i) == i # None                                  \* recurrence_pair
ReminderChecks(sent) ==
  \A i \in DOMAIN sent : sent[i] >= -MaxOffset /\ sent[i] <= MaxOffset
OncePerEvent(inserted) ==                                      \* event_id_email_key
  \A p \in inserted : p[2] = 1

(* -------------------------------- the steps ------------------------------- *)

Init ==
  /\ event = None /\ overrides = {} /\ skipped = {} /\ guests = {} /\ reminders = {}
  /\ asked = Asked(Timed("create", FALSE, 1, "UTC", 2, "UTC")) /\ answer = "none"

\* nothing of a refused or rolled back write stays
Told(r, said) ==
  /\ asked' = Asked(r) /\ answer' = said
  /\ UNCHANGED <<event, overrides, skipped, guests, reminders>>

\* mapWriteError: a CHECK violation gets one sentence, a duplicate key the fallback
mapWriteError(checks, unique) == IF ~checks THEN "invalid" ELSE IF ~unique THEN "failed" ELSE "done"

Refused(r, issues) == issues # {} /\ Told(r, "refused")

Inserted(sent) == AllSent(sent)

CreateEvent(r) ==
  LET issues == createEventSchema(r) \cup deriveTimes(r) \cup parseSubmittedRule(r)
      sent == Parsed(r.attendees)
      said == mapWriteError(EventChecks(Row(r)) /\ ReminderChecks(r.reminders),
                            OncePerEvent(Inserted(sent)))
  IN /\ event = None
     /\ \/ Refused(r, issues)
        \/ issues = {} /\ said # "done" /\ Told(r, said)
        \/ /\ issues = {} /\ said = "done"
           /\ event' = Row(r)
           /\ guests' = { Guest(a) : a \in Range(sent) }
           /\ reminders' = applyReminders({}, r.reminders)
           /\ overrides' = {} /\ skipped' = {}
           /\ asked' = Asked(r) /\ answer' = "done"

\* scope this against a master: one override row, inserted or rewritten
UpdateOccurrence(r) ==
  LET i == r.recurrenceId
      said == mapWriteError(EventChecks(Row(r)) /\ OverrideChecks(i), TRUE)
  IN \/ i = Unreal /\ Told(r, "threw")      \* parseLocalDateTime, outside the try
     \/ /\ i # Unreal
        /\ i \in skipped \/ ~Occurs(event, i)
        /\ Told(r, "refused")
     \/ /\ i # Unreal /\ i \notin skipped /\ Occurs(event, i)
        /\ said # "done" /\ Told(r, said)
     \/ /\ i # Unreal /\ i \notin skipped /\ Occurs(event, i)
        /\ said = "done"
        /\ overrides' = overrides \cup {i}
        /\ asked' = Asked(r) /\ answer' = "done"
        /\ UNCHANGED <<event, skipped, guests, reminders>>

\* whether the edit renames the occurrences the modifiers are written in terms of
IdentityChanged(r) ==
  \/ (r.rrule = "daily") # event.repeats
  \/ r.startWall # event.startWall \/ r.startTzid # event.startTzid \/ r.endTzid # event.endTzid

UpdateWholeEvent(r) ==
  LET sent == Parsed(r.attendees)
      drop == event.repeats /\ IdentityChanged(r)
      said == mapWriteError(EventChecks(Row(r)) /\ ReminderChecks(r.reminders),
                            OncePerEvent(AddedGuests(sent)))
  IN \/ Refused(r, parseSubmittedRule(r))
     \/ parseSubmittedRule(r) = {} /\ said # "done" /\ Told(r, said)
     \/ /\ parseSubmittedRule(r) = {} /\ said = "done"
        /\ event' = Row(r)
        /\ overrides' = IF drop THEN {} ELSE overrides
        /\ skipped' = IF drop THEN {} ELSE skipped
        /\ guests' = KeptGuests(sent) \cup NewGuests(sent)
        /\ reminders' = applyReminders(reminders, r.reminders)
        /\ asked' = Asked(r) /\ answer' = "done"

OneOccurrence(r) == r.scope = "this" /\ r.recurrenceId # None

UpdateEvent(r) ==
  LET issues == updateEventSchema(r) \cup deriveTimes(r)
  IN /\ event # None
     /\ \/ Refused(r, issues)
        \/ issues = {} /\ OneOccurrence(r) /\ ~event.repeats /\ Told(r, "refused")
        \/ issues = {} /\ OneOccurrence(r) /\ event.repeats /\ UpdateOccurrence(r)
        \/ issues = {} /\ ~OneOccurrence(r) /\ UpdateWholeEvent(r)

DeleteEvent(r) ==
  LET issues == deleteEventSchema(r)
  IN /\ event # None
     /\ \/ Refused(r, issues)
        \/ issues = {} /\ OneOccurrence(r) /\ ~event.repeats /\ Told(r, "refused")
        \/ /\ issues = {} /\ OneOccurrence(r) /\ event.repeats
           /\ r.recurrenceId = Unreal       \* the date column refuses the insert
           /\ Told(r, "failed")
        \/ /\ issues = {} /\ OneOccurrence(r) /\ event.repeats
           /\ r.recurrenceId # Unreal
           /\ skipped' = skipped \cup {r.recurrenceId}
           /\ overrides' = overrides \ {r.recurrenceId}
           /\ asked' = Asked(r) /\ answer' = "done"
           /\ UNCHANGED <<event, guests, reminders>>
        \/ /\ issues = {} /\ ~OneOccurrence(r)
           /\ event' = None
           /\ overrides' = {} /\ skipped' = {} /\ guests' = {} /\ reminders' = {}
           /\ asked' = Asked(r) /\ answer' = "done"

\* a guest answers; the sweeper delivers a reminder
Answers ==
  \E g \in guests :
    /\ ~g.answered
    /\ guests' = (guests \ {g}) \cup {[g EXCEPT !.answered = TRUE]}
    /\ UNCHANGED <<event, overrides, skipped, reminders, asked, answer>>
Delivers ==
  \E m \in reminders :
    /\ ~m.delivered
    /\ reminders' = (reminders \ {m}) \cup {[m EXCEPT !.delivered = TRUE]}
    /\ UNCHANGED <<event, overrides, skipped, guests, asked, answer>>

Next ==
  \/ \E r \in Creates : CreateEvent(r)
  \/ \E r \in Updates : UpdateEvent(r)
  \/ \E r \in Deletes : DeleteEvent(r)
  \/ Answers
  \/ Delivers

Spec == Init /\ [][Next]_vars

-------------------------------------------------------------------------------

TypeOK ==
  /\ overrides \subseteq Nat /\ skipped \subseteq Nat
  /\ guests \subseteq [email : {"ann", "bob"}, answered : BOOLEAN]
  /\ reminders \subseteq [key : Int, delivered : BOOLEAN]
  /\ answer \in {"none", "done", "refused", "invalid", "failed", "threw"}

\* No request reaches a CHECK constraint: the schemas and deriveTimes refuse, under a
\* field the form can mark, everything the tables would refuse with a bare SQLSTATE
\* 23514 (mapWriteError calls such a violation "a guard the app should have caught").
ChecksAreNeverFirst == answer # "invalid"

\* What does reach the database and fails there, or throws on the way, is known: a guest
\* list with one address twice on a create, which has no diff before it, and an
\* occurrence named by a reading that is no date.
Repeats(list) == Cardinality(Range(Parsed(list))) < Len(list)
FailuresAreKnown ==
  answer \in {"failed", "threw"} =>
    \/ asked.op = "create" /\ Repeats(asked.attendees)
    \/ asked.recurrenceId = Unreal

\* After a save that was accepted, the lists are the ones submitted, each address and
\* each reminder once, and no override survives of a series that no longer repeats.
SavedAsSubmitted ==
  answer = "done" /\ asked.op \in {"create", "update"} /\ asked.scope # "this" =>
    /\ { g.email : g \in guests } = Range(Parsed(asked.attendees))
    /\ Cardinality(guests) = Cardinality(Range(Parsed(asked.attendees)))
    /\ { m.key : m \in reminders } = Range(asked.reminders)
    /\ Cardinality(reminders) = Cardinality(Range(asked.reminders))
    /\ ~event.repeats => overrides = {}

\* A request about one occurrence never touches the series: neither a save nor a delete
\* scoped to this occurrence changes the master, its guests or its reminders.
OneMeansOneStep ==
  asked'.scope = "this" =>
    /\ event' = event
    /\ { g.email : g \in guests' } = { g.email : g \in guests }
    /\ { m.key : m \in reminders' } = { m.key : m \in reminders }
OneMeansOne == [][OneMeansOneStep]_vars

\* An accepted save leaves alone the answer of every guest it still lists and the
\* delivery ledger of every reminder it still lists.
KeptRowsKeepTheirPastStep ==
  event # None /\ event' # None =>
    /\ \A g \in guests : g.answered =>
         g \in guests' \/ g.email \notin Range(Parsed(asked'.attendees))
    /\ \A m \in reminders : m.delivered =>
         m \in reminders' \/ m.key \notin Range(asked'.reminders)
KeptRowsKeepTheirPast == [][KeptRowsKeepTheirPastStep]_vars

(* ------------------- what the invariants are kept by --------------------- *)

Bounds == MaxSpan \in Nat /\ MaxOffset \in Nat /\ None # "this"

\* A row per address and a row per reminder key (event_id_email_key).
OneRowEach ==
  /\ \A g, h \in guests : g.email = h.email => g = h
  /\ \A m, n \in reminders : m.key = n.key => m = n

\* The lists are the last accepted ones.
ListsAsSubmitted ==
  answer = "done" /\ asked.op \in {"create", "update"} /\ asked.scope # "this" =>
    /\ { g.email : g \in guests } = Range(Parsed(asked.attendees))
    /\ { m.key : m \in reminders } = Range(asked.reminders)

\* Only a series has edited occurrences.
OverridesRepeat ==
  /\ event # None => event.repeats \in BOOLEAN
  /\ overrides # {} => event.repeats

RowsInv ==
  /\ TypeOK /\ asked.attendees \in Seq({"ann", "bob", "ANN"}) /\ asked.reminders \in Seq(Int)
  /\ OneRowEach /\ ListsAsSubmitted /\ OverridesRepeat
  /\ ChecksAreNeverFirst /\ FailuresAreKnown

===============================================================================
