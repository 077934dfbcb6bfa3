------------------------------- MODULE Guests -------------------------------
(***************************************************************************)
(* One event and the people invited to it: the organizer's saves and       *)
(* deletion (updateWholeEvent and softDeleteEvent of actions/calendar.ts,  *)
(* lib/calendar/significant-change.ts, lib/calendar-attendees.ts), the     *)
(* guests' answers (respondToEvent, calendar-rsvp.ts) and the e-mails that *)
(* keep the guests' own calendars in step (server/calendar/invitations.ts).*)
(* A save reads the old row before it locks it; PostgreSQL's now() is the  *)
(* start of the transaction; e-mails are read from the row after the       *)
(* commit and delivered in any order.                                      *)
(***************************************************************************)
EXTENDS Naturals, FiniteSets

CONSTANTS
  Guest,
  Save,         \* saves and deletions that may run at once
  Slot,         \* the times the event may be moved to
  First,        \* where it was created
  None,
  MaxSaves,     \* bound: saves and deletions in a behaviour
  MaxAnswers,   \* bound: answers
  MaxDrops      \* bound: enqueues that fail

VARIABLES
  event,        \* [slot, title, busy, sequence, reaskAt, deleted] and, as history, the
                \* sequence the guests were last told of
  rows,         \* Guest -> None or [status, respondedAt, to]: to is the slot answered
  calls,        \* Save -> a save between its first read and its last e-mail
  checking,     \* guests whose session answer passed its access check
  mails,        \* the e-mails under way
  held,         \* Guest -> None or the [sequence, slot, cancelled] their calendar holds
  clock, saves, answers, drops,
  raced         \* history: two saves, or a save and an answer, overlapped

vars == <<event, rows, calls, checking, mails, held, clock, saves, answers, drops, raced>>

Idle == [at |-> "idle"]
Invited == {g \in Guest : rows[g] # None}
NeedsAction == [status |-> "needs-action", respondedAt |-> 0, to |-> None]
Settled == \A s \in Save : calls[s] = Idle

Init ==
  /\ event = [slot |-> First, title |-> 0, busy |-> 0, sequence |-> 0, reaskAt |-> 0,
              deleted |-> FALSE, told |-> 0]
  /\ rows = [g \in Guest |-> None]
  /\ calls = [s \in Save |-> Idle] /\ checking = {} /\ mails = {}
  /\ held = [g \in Guest |-> None]
  /\ clock = 1 /\ saves = 0 /\ answers = 0 /\ drops = 0 /\ raced = FALSE

-----------------------------------------------------------------------------
(* classifyEventChange: the highest level of the fields that differ.       *)

Reasks(before, after) == before.slot # after.slot
Resends(before, after) == Reasks(before, after) \/ before.title # after.title
\* A free/busy marker is in the .ics, and no e-mail is sent of it.
Bumps(before, after) == Resends(before, after) \/ before.busy # after.busy

\* The transaction begins and reads the old row: now() and `before` are fixed.
BeginSave(s, slot, title, busy, guests) ==
  /\ calls[s] = Idle /\ saves < MaxSaves /\ ~event.deleted
  /\ calls' = [calls EXCEPT ![s] = [at |-> "read", now |-> clock, before |-> event,
       after |-> [slot |-> slot, title |-> title, busy |-> busy], guests |-> guests]]
  /\ clock' = clock + 1 /\ saves' = saves + 1
  /\ raced' = (raced \/ ~Settled)
  /\ UNCHANGED <<event, rows, checking, mails, held, answers, drops>>

\* diffAttendees: who stays is left alone.
DiffGuests(guests) ==
  [g \in Guest |-> IF g \notin guests THEN None
                   ELSE IF rows[g] = None THEN NeedsAction ELSE rows[g]]

\* Variation: the stamp comes from the process, whose clock runs behind.
StampOfProcess(c) == c.now - 1

\* now() of the transaction, the clock the answers are stamped with.
Stamp(c) == c.now

\* The row, its guests and its stamp commit; what is owed is known.
CommitSave(s) ==
  /\ calls[s].at = "read"
  /\ LET c == calls[s]  resends == Resends(c.before, c.after) IN
       /\ event' = [event EXCEPT !.slot = c.after.slot, !.title = c.after.title,
            !.busy = c.after.busy,
            !.sequence = IF Bumps(c.before, c.after) THEN @ + 1 ELSE @,
            !.told = IF resends THEN event.sequence + 1 ELSE @,
            !.reaskAt = IF Reasks(c.before, c.after) THEN Stamp(c) ELSE @]
       /\ rows' = DiffGuests(c.guests)
       /\ calls' = [calls EXCEPT ![s] = [at |-> "emit", resends |-> resends,
            invited |-> c.guests \ Invited, dropped |-> Invited \ c.guests]]
  /\ UNCHANGED <<checking, mails, held, clock, saves, answers, drops, raced>>

\* loadSeriesForEmail: the row as it is now; a cancellation says so.
Series(g, kind) == [to |-> g, kind |-> kind, sequence |-> event.sequence, slot |-> event.slot]

\* emitSeriesEmails: an invitation to who is new, a notice without attachment
\* to who is out, an update to the others when the attachment changed.
OwedAfterSave(c) ==
  {Series(g, "invite") : g \in c.invited} \cup {Series(g, "removed") : g \in c.dropped}
  \cup {Series(g, "update") : g \in IF c.resends THEN Invited \ c.invited ELSE {}}

\* enqueue: a failure is logged and the e-mail is never sent.
Post(owed) ==
  \E lost \in SUBSET owed :
    /\ drops + Cardinality(lost) <= MaxDrops
    /\ drops' = drops + Cardinality(lost)
    /\ mails' = mails \cup (owed \ lost)

EmitSave(s) ==
  /\ calls[s].at = "emit" /\ Post(OwedAfterSave(calls[s]))
  /\ calls' = [calls EXCEPT ![s] = Idle]
  /\ UNCHANGED <<event, rows, checking, held, clock, saves, answers, raced>>

\* softDeleteEvent: stamped and bumped, the guest list kept and read.
Delete(s) ==
  /\ calls[s] = Idle /\ saves < MaxSaves /\ ~event.deleted
  /\ event' = [event EXCEPT !.deleted = TRUE, !.sequence = @ + 1, !.told = event.sequence + 1]
  /\ calls' = [calls EXCEPT ![s] = [at |-> "cancel", guests |-> Invited]]
  /\ saves' = saves + 1 /\ raced' = (raced \/ ~Settled)
  /\ UNCHANGED <<rows, checking, mails, held, clock, answers, drops>>

EmitCancel(s) ==
  /\ calls[s].at = "cancel"
  /\ Post({Series(g, "cancelled") : g \in calls[s].guests})
  /\ calls' = [calls EXCEPT ![s] = Idle]
  /\ UNCHANGED <<event, rows, checking, held, clock, saves, answers, raced>>

-----------------------------------------------------------------------------
(* The guests.                                                             *)

\* Applying an attachment: a client ignores one whose sequence has not risen.
Apply(g, m) ==
  IF m.kind = "removed" \/ (held[g] # None /\ m.sequence <= held[g].sequence) THEN held[g]
  ELSE [sequence |-> m.sequence, slot |-> m.slot, cancelled |-> m.kind = "cancelled"]

\* The job is done, in any order.  A retried one applies as once.
Receive(m) ==
  /\ m \in mails /\ mails' = mails \ {m}
  /\ held' = [held EXCEPT ![m.to] = Apply(m.to, m)]
  /\ UNCHANGED <<event, rows, calls, checking, clock, saves, answers, drops, raced>>

Answered(status) == [status |-> status, respondedAt |-> clock, to |-> event.slot]

\* The answer's transaction: it may run inside a save's.
Record(g, status) ==
  /\ rows' = [rows EXCEPT ![g] = Answered(status)]
  /\ clock' = clock + 1 /\ answers' = answers + 1
  /\ raced' = (raced \/ \E s \in Save : calls[s].at = "read")

\* respondByToken: the event is alive in the UPDATE itself.
AnswerByToken(g, status) ==
  /\ answers < MaxAnswers /\ g \in Invited /\ ~event.deleted
  /\ Record(g, status)
  /\ UNCHANGED <<event, calls, checking, mails, held, saves, drops>>

\* respondToEvent: getEventAccess first, the update later and without looking
\* at the event again.
CheckAccess(g) ==
  /\ answers < MaxAnswers /\ g \in Invited /\ ~event.deleted /\ g \notin checking
  /\ checking' = checking \cup {g}
  /\ UNCHANGED <<event, rows, calls, mails, held, clock, saves, answers, drops, raced>>

AnswerBySession(g, status) ==
  /\ g \in checking /\ checking' = checking \ {g}
  /\ IF g \in Invited THEN Record(g, status) ELSE UNCHANGED <<rows, clock, answers, raced>>
  /\ UNCHANGED <<event, calls, mails, held, saves, drops>>

Status == {"accepted", "declined"}

Next ==
  \/ \E s \in Save :
       \/ \E slot \in Slot, title, busy \in 0 .. 1, guests \in SUBSET Guest :
            BeginSave(s, slot, title, busy, guests)
       \/ CommitSave(s) \/ EmitSave(s) \/ Delete(s) \/ EmitCancel(s)
  \/ \E m \in mails : Receive(m)
  \/ \E g \in Guest :
       \/ CheckAccess(g)
       \/ \E status \in Status : AnswerByToken(g, status) \/ AnswerBySession(g, status)

Spec == Init /\ [][Next]_vars

-----------------------------------------------------------------------------
TypeOK ==
  /\ event \in [slot : Slot, title : 0 .. 1, busy : 0 .. 1, sequence : 0 .. MaxSaves,
                reaskAt : 0 .. clock, deleted : BOOLEAN, told : 0 .. MaxSaves]
  /\ \A g \in Invited : rows[g].status \in Status \cup {"needs-action"}
  /\ \A m \in mails : m.kind \in {"invite", "update", "removed", "cancelled"}
  /\ checking \subseteq Guest /\ drops \in 0 .. MaxDrops

\* calendar_event_attendees_responded_pair, and staleness by derivation: a
\* response given to a time the event no longer has reads as stale, so that
\* no guest counts as coming to a meeting that moved under them.  Not claimed
\* when the answer's transaction ran inside the save's.
StaleIsKnown ==
  ~raced => \A g \in Invited :
    /\ (rows[g].respondedAt = 0) = (rows[g].status = "needs-action")
    /\ rows[g].status # "needs-action" /\ rows[g].to # event.slot
         => rows[g].respondedAt < event.reaskAt

\* Moving an event and re-submitting its list never touches the answer of a
\* guest who stays on it.
AnswersSurviveSavesStep ==
  \A g \in Guest : rows[g] # None /\ rows'[g] # None /\ rows'[g] # rows[g]
    => answers' = answers + 1
AnswersSurviveSaves == [][AnswersSurviveSavesStep]_vars

\* When all e-mails are in, the calendar of every guest holds the event where
\* it is, or its cancellation: whatever the order they came in, and although
\* some changes raise the sequence without an e-mail.  Not claimed after an
\* enqueue was dropped or two saves overlapped.
CalendarsAgree ==
  Settled /\ mails = {} /\ drops = 0 /\ ~raced =>
    \A g \in Invited : /\ held[g] # None
                       /\ held[g].slot = event.slot
                       /\ held[g].cancelled = event.deleted

\* The same for every interleaving of two saves: each e-mail describes the row
\* after its own commit.
CalendarsAlwaysAgree ==
  Settled /\ mails = {} /\ drops = 0 =>
    \A g \in Invited : held[g] # None /\ held[g].slot = event.slot

\* A soft delete landing between a check and a write would otherwise record an
\* answer to a cancelled meeting (calendar-rsvp.ts).
NoAnswerToCancelled ==
  [][event.deleted => answers' = answers]_vars

-----------------------------------------------------------------------------
(* What StaleIsKnown and CalendarsAgree rest on.                             *)

\* What the proof asks of the constants.
Bounds ==
  /\ IsFiniteSet(Guest) /\ First \in Slot
  /\ MaxSaves \in Nat /\ MaxAnswers \in Nat /\ MaxDrops \in Nat
  /\ None \notin [status : Status \cup {"needs-action"}, respondedAt : Nat, to : Slot \cup {None}]
  /\ None \notin [sequence : Nat, slot : Slot, cancelled : BOOLEAN]

Event == [slot : Slot, title : 0 .. 1, busy : 0 .. 1, sequence : Nat, reaskAt : Nat,
          deleted : BOOLEAN, told : Nat]
Row == [status : Status \cup {"needs-action"}, respondedAt : Nat, to : Slot \cup {None}]
Entry == [sequence : Nat, slot : Slot, cancelled : BOOLEAN]
Mail == [to : Guest, kind : {"invite", "update", "removed", "cancelled"}, sequence : Nat,
         slot : Slot]
ReadCall == [at : {"read"}, now : Nat, before : Event, after : [slot : Slot, title : 0 .. 1, busy : 0 .. 1],
             guests : SUBSET Guest]
EmitCall == [at : {"emit"}, resends : BOOLEAN, invited : SUBSET Guest, dropped : SUBSET Guest]
CancelCall == [at : {"cancel"}, guests : SUBSET Guest]

GuestsAreTyped ==
  /\ event \in Event /\ rows \in [Guest -> {None} \cup Row]
  /\ calls \in [Save -> {Idle} \cup ReadCall \cup EmitCall \cup CancelCall]
  /\ mails \subseteq Mail /\ held \in [Guest -> {None} \cup Entry]
  /\ clock \in Nat \ {0} /\ saves \in 0 .. MaxSaves /\ answers \in Nat
  /\ drops \in 0 .. MaxDrops /\ raced \in BOOLEAN /\ checking \subseteq Guest

Reading == {s \in Save : calls[s].at = "read"}

\* Every bump of the sequence was a save's, and none of those still to come is
\* counted yet.
BumpsAreSaves == 
  /\ IsFiniteSet(Reading) /\ event.sequence + Cardinality(Reading) <= saves
  /\ event.told <= event.sequence

\* now() is handed out once: no stamp is of the future.
StampsArePast ==
  /\ event.reaskAt < clock
  /\ \A g \in Invited : rows[g].respondedAt < clock
  /\ \A s \in Reading : calls[s].now < clock

\* As long as nothing has overlapped, one save runs at a time, what it read is
\* the event as it is, and no answer is younger than its now().
SavesAreAlone ==
  ~raced =>
    /\ \A s, t \in Save : calls[s] # Idle /\ calls[t] # Idle => s = t
    /\ \A s \in Save :
         /\ calls[s].at = "read" =>
              calls[s].before = event /\ \A g \in Invited : rows[g].respondedAt < calls[s].now
         /\ calls[s].at \in {"read", "emit"} => ~event.deleted
         /\ calls[s].at = "cancel" => event.deleted

\* Since the guests were last told, every mail and every calendar says the same.
SequencesAgree ==
  ~raced =>
    /\ \A g \in Guest : held[g] # None =>
         /\ held[g].sequence <= event.sequence
         /\ held[g].sequence >= event.told =>
              held[g].slot = event.slot /\ held[g].cancelled = event.deleted
    /\ \A m \in mails : m.kind # "removed" =>
         /\ m.sequence <= event.sequence
         /\ m.sequence >= event.told =>
              m.slot = event.slot /\ (m.kind = "cancelled") = event.deleted

Informed(g) ==
  \/ held[g] # None /\ held[g].sequence >= event.told
  \/ \E m \in mails : m.to = g /\ m.kind # "removed" /\ m.sequence >= event.told

Owed(g) ==
  \E s \in Save : \/ calls[s].at = "emit" /\ (g \in calls[s].invited \/ calls[s].resends)
                  \/ calls[s].at = "cancel" /\ g \in calls[s].guests

\* Whoever is invited has the event in a version they were last told of, or mail
\* of it on the way or about to be written.
NobodyIsForgotten == ~raced /\ drops = 0 => \A g \in Invited : Informed(g) \/ Owed(g)

GuestsInv ==
  /\ GuestsAreTyped /\ BumpsAreSaves /\ StampsArePast /\ SavesAreAlone /\ StaleIsKnown
  /\ SequencesAgree /\ NobodyIsForgotten
=============================================================================
