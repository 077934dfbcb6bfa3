---------------------------- MODULE CalendarSeries ----------------------------
(***************************************************************************)
(* The writes a user can make to a repeating event, and what they leave in *)
(* calendar_events and calendar_recurrence_dates                           *)
(* (apps/web/src/server/actions/calendar.ts).                              *)
(*                                                                         *)
(* Every write reads its target first, most then read the series' extra    *)
(* and skipped dates, and only then open a transaction that writes what    *)
(* follows from those reads: nothing is locked, re-read or compared when   *)
(* it commits, but for the few columns named below.  A transaction is one  *)
(* step here.                                                              *)
(*                                                                         *)
(* A slot is the civil start of an occurrence (`recurrence_id`,            *)
(* `date_wall`), on a line on which a rule steps by Stride, so that slots  *)
(* between two occurrences exist.  A rule says how far it goes.            *)
(***************************************************************************)
EXTENDS Integers, FiniteSets, FiniteSetsExt

CONSTANTS
  Actor,       \* concurrent requests
  Sid,         \* event masters, each its own uid
  Horizon,     \* bound: the last slot
  Rules,       \* rules a user submits
  Starts,      \* start slots a user submits
  Ops,         \* kinds of writes users make
  EarlyDates,  \* users name dates before a series starts
  MovedSplits, \* users change the rule or the time in a split
  MaxAsks,     \* bound: requests
  Nothing      \* no request, no rule

\* The scopes of an edit and of a deletion, and the kinds of date.
Scopes == {"all", "this", "split", "skip", "truncate", "delete", "exdate", "rdate"}

Slot == 0 .. Horizon
Stride == 2
Unbounded == 4 * (Horizon + 1)   \* series_end_at IS NULL

ASSUME ConstantsAssumption ==
  /\ Horizon \in Nat /\ MaxAsks \in Nat
  /\ Rules \subseteq [kind : {"open", "until", "count"}, at : Nat] \union {Nothing}
  /\ Nothing \notin [kind : {"open", "until", "count"}, at : Nat]
  /\ Nothing \notin [op : Scopes, sid : Sid, slot : Slot]
  /\ \A r \in Rules : r # Nothing /\ r.kind = "count" => r.at > 0
  /\ Starts \subseteq Slot
  /\ EarlyDates \in BOOLEAN /\ MovedSplits \in BOOLEAN

VARIABLES
  masters,    \* masters[s]: the calendar_events row of a master
  overrides,  \* the rows with a recurrence_parent_id
  dates,      \* calendar_recurrence_dates
  req,        \* req[a]: what a's request asks and has read, or Nothing
  \* History.
  asks,       \* requests made
  did         \* the write that was just done, or Nothing

vars == <<masters, overrides, dates, req, asks, did>>

Rule == [kind : {"open", "until", "count"}, at : Nat] \union {Nothing}

Master == [state : {"none", "live", "deleted"}, first : Slot, rule : Rule,
           end : Nat, seq : Nat]

Override == [parent : Sid, uid : Sid, slot : Slot, live : BOOLEAN]

Date == [sid : Sid, kind : {"exdate", "rdate"}, slot : Slot]

-------------------------------------------------------------------------------
(* packages/calendar: what a rule generates and when a series is over.     *)

RuleSlots(first, rule) ==
  IF rule = Nothing THEN {first}
  ELSE {s \in Slot : /\ s >= first
                     /\ (s - first) % Stride = 0
                     /\ rule.kind = "until" => s <= rule.at
                     /\ rule.kind = "count" => (s - first) \div Stride < rule.at}

RuleEnd(first, rule) ==
  IF rule.kind = "until" THEN rule.at ELSE first + Stride * (rule.at - 1)

\* Variation: the end of the rule alone.
SeriesEndOfRule(first, rule, rdates) ==
  IF rule = Nothing \/ rule.kind = "open" THEN Unbounded ELSE RuleEnd(first, rule)

\* `seriesColumns`: the series_end_at of a rule and its added dates.
SeriesEnd(first, rule, rdates) ==
  IF rule = Nothing THEN Unbounded
  ELSE IF rule.kind = "open" THEN Unbounded
  ELSE Max({RuleEnd(first, rule)} \union rdates)

DatesOf(s, ds) == {d \in ds : d.sid = s}
OfKind(kind, ds) == {d.slot : d \in {x \in ds : x.kind = kind}}

Before(m, c) == Cardinality({s \in RuleSlots(m.first, m.rule) : s < c})

\* `planSeriesCut`
CutRefused(m, c) ==
  /\ m.rule # Nothing
  /\ \/ m.rule.kind = "until" /\ c > m.rule.at
     \/ m.rule.kind = "count" /\ Before(m, c) >= m.rule.at

BoundedRule(m, c) ==
  IF m.rule.kind = "count" THEN [kind |-> "count", at |-> Before(m, c)]
  ELSE [kind |-> "until", at |-> c - 1]

\* Variation: the submitted rule always wins.
RemainderAsSubmitted(m, submitted, c) == submitted

\* A COUNT the user left alone is re-based, or the halves would overrun it.
RemainderRule(m, submitted, c) ==
  IF submitted.kind = "count" /\ submitted = m.rule
  THEN [submitted EXCEPT !.at = @ - Before(m, c)]
  ELSE submitted

\* `checkOccurrenceMembership`: EXDATE first, then RDATE, then the rule.
IsOccurrence(m, c, ds) ==
  /\ c \notin OfKind("exdate", ds)
  /\ c \in OfKind("rdate", ds) \union RuleSlots(m.first, m.rule)

-------------------------------------------------------------------------------
(* The range query of server/trpc/routers/calendar.ts, for a window no     *)
(* wider than one slot.                                                    *)

Overridden(s) == {o.slot : o \in {x \in overrides : x.parent = s}}

\* What expanding a master yields, had the query not left it out.
Generated(s) ==
  RuleSlots(masters[s].first, masters[s].rule)
    \union OfKind("rdate", DatesOf(s, dates))

\* Branch B drops masters that end before the window or start after it;
\* a master without a rule is a concrete row, found by branch A.
Virtual(s) ==
  IF masters[s].state # "live" THEN {}
  ELSE IF masters[s].rule = Nothing THEN {masters[s].first}
  ELSE {c \in Generated(s) \ OfKind("exdate", DatesOf(s, dates)) :
          /\ c \notin Overridden(s)
          /\ masters[s].first <= c /\ c <= masters[s].end}

\* Branch A asks nothing of an override's master.
Edited(s) == {o.slot : o \in {x \in overrides : x.parent = s /\ x.live}}

Skipped(s) ==
  IF masters[s].state # "live" THEN {}
  ELSE {c \in OfKind("exdate", DatesOf(s, dates)) : c >= masters[s].first}

-------------------------------------------------------------------------------
NewMaster(first, rule, end) ==
  [state |-> "live", first |-> first, rule |-> rule, end |-> end, seq |-> 0]

NoMaster == [NewMaster(0, Nothing, 0) EXCEPT !.state = "none"]

Init ==
  /\ \E s \in Sid, first \in Starts, rule \in Rules :
       masters = [x \in Sid |-> IF x = s THEN NewMaster(first, rule, SeriesEnd(first, rule, {}))
                                ELSE NoMaster]
  /\ overrides = {} /\ dates = {}
  /\ req = [a \in Actor |-> Nothing]
  /\ asks = 0 /\ did = Nothing

-------------------------------------------------------------------------------
(* A request: the scope, the occurrence it names, and the start and rule   *)
(* of the form, which are those of the target unless the user changes them. *)

Asked(op, s, c, first, rule) ==
  [op |-> op, sid |-> s, slot |-> c, first |-> first, rule |-> rule,
   target |-> [first |-> masters[s].first, rule |-> masters[s].rule],
   read |-> FALSE, dates |-> {}]

InputsFor(s) ==
  LET m == masters[s]
      named == {c \in Slot : EarlyDates \/ c >= m.first}
      moved == {first \in Starts : MovedSplits}
  IN
  {Asked(op, s, c, m.first, m.rule) :
     op \in {"this", "skip", "truncate", "exdate", "rdate"}, c \in named}
  \union {Asked("delete", s, m.first, m.first, m.rule)}
  \union {Asked("all", s, m.first, first, rule) : first \in Starts, rule \in Rules}
  \union {Asked("split", s, c, c, m.rule) : c \in RuleSlots(m.first, m.rule)}
  \union {Asked("split", s, c, first, rule) : c \in named, first \in moved, rule \in Rules}

Free == {s \in Sid : masters[s].state = "none"}
Pending(op) == {a \in Actor : req[a] # Nothing /\ req[a].op = op}

\* `updateEvent`, `deleteEvent`, `setRecurrenceDate`: the target is read,
\* and must not be deleted.
Ask(a) ==
  /\ req[a] = Nothing /\ asks < MaxAsks
  /\ \E s \in Sid : \E r \in InputsFor(s) :
       /\ masters[s].state = "live"
       /\ r.op \in Ops
       /\ r.op = "split" => Cardinality(Pending("split")) < Cardinality(Free)
       /\ req' = [req EXCEPT ![a] = r]
  /\ asks' = asks + 1 /\ did' = Nothing
  /\ UNCHANGED <<masters, overrides, dates>>

\* A cut with no occurrence before it is a write to the whole series.
WholeCut(r) == Before(r.target, r.slot) = 0

UpdatesWhole(r) == r.op = "all" \/ (r.op = "split" /\ WholeCut(r))
Deletes(r) == r.op = "delete" \/ (r.op = "truncate" /\ WholeCut(r))

\* Which writes `loadRecurrenceDates` before their transaction.
NeedsDates(r) ==
  /\ r.target.rule # Nothing
  /\ r.op \in {"all", "this", "split", "truncate"} /\ ~Deletes(r)

\* The early returns; all but a "this" edit's come before the dates are read.
RefusedUnread(r) ==
  \/ r.op \notin {"all", "delete"} /\ r.target.rule = Nothing   \* `rejectUnrepeated`
  \/ r.op = "split" /\ r.rule = Nothing
  \/ r.op \in {"split", "truncate"} /\ CutRefused(r.target, r.slot)

Refused(r) ==
  \/ RefusedUnread(r)
  \/ r.op = "this" /\ r.read /\ ~IsOccurrence(r.target, r.slot, r.dates)

Refuse(a) ==
  /\ req[a] # Nothing /\ Refused(req[a])
  /\ req' = [req EXCEPT ![a] = Nothing]
  /\ UNCHANGED <<masters, overrides, dates, asks, did>>

\* `loadRecurrenceDates`
ReadDates(a) ==
  /\ req[a] # Nothing /\ ~RefusedUnread(req[a])
  /\ NeedsDates(req[a]) /\ ~req[a].read
  /\ req' = [req EXCEPT ![a].read = TRUE, ![a].dates = DatesOf(req[a].sid, dates)]
  /\ UNCHANGED <<masters, overrides, dates, asks, did>>

\* a's transaction commits: r is what it was asked and had read.
Committing(a, r) ==
  /\ r # Nothing /\ ~Refused(r)
  /\ NeedsDates(r) => r.read
  /\ req' = [req EXCEPT ![a] = Nothing]
  /\ did' = [op |-> r.op, sid |-> r.sid, slot |-> r.slot]
  /\ UNCHANGED asks

-------------------------------------------------------------------------------
(* The transactions.  `sequence + 1` is computed by the UPDATE, from the   *)
(* row it finds; every other column is what the request worked out.        *)

Bumped(m) == [m EXCEPT !.seq = @ + 1]

\* `updateWholeEvent`: the identity of the occurrences is compared with the
\* target as read, the change a guest would see with the row as it is now.
UpdateWholeEvent(a) ==
  LET r == req[a]
      identityChanged == r.rule # r.target.rule \/ r.first # r.target.first
      dropModifiers == identityChanged /\ r.target.rule # Nothing
      end == SeriesEnd(r.first, r.rule,
                       IF dropModifiers THEN {} ELSE OfKind("rdate", r.dates))
      before == masters[r.sid]
      bumps == r.rule # before.rule \/ r.first # before.first
      after == [before EXCEPT !.first = r.first, !.rule = r.rule, !.end = end]
  IN
  /\ Committing(a, r) /\ UpdatesWhole(r)
  /\ masters' = [masters EXCEPT ![r.sid] = IF bumps THEN Bumped(after) ELSE after]
  /\ overrides' = IF dropModifiers THEN {o \in overrides : o.parent # r.sid} ELSE overrides
  /\ dates' = IF dropModifiers THEN {d \in dates : d.sid # r.sid} ELSE dates

\* `updateOccurrence`: INSERT ... ON CONFLICT (calendar_id, uid, recurrence_id)
\* DO UPDATE SET deleted_at = NULL; the parent of a row found is left alone.
UpdateOccurrence(a) ==
  LET r == req[a]
      found == {o \in overrides : o.uid = r.sid /\ o.slot = r.slot}
      row == [parent |-> r.sid, uid |-> r.sid, slot |-> r.slot, live |-> TRUE]
  IN
  /\ Committing(a, r) /\ r.op = "this"
  /\ overrides' = IF found = {} THEN overrides \union {row}
                  ELSE (overrides \ found) \union {[o EXCEPT !.live = TRUE] : o \in found}
  /\ masters' = [masters EXCEPT ![r.sid] = Bumped(@)]
  /\ UNCHANGED dates

\* Variation: the rows a split re-parents keep their uid.
SplitKeepingUids(a) ==
  LET r == req[a]
      bounded == BoundedRule(r.target, r.slot)
      second == RemainderRule(r.target, r.rule, r.slot)
  IN
  /\ Committing(a, r) /\ r.op = "split" /\ ~WholeCut(r)
  /\ \E new \in Free :
       /\ masters' = [masters EXCEPT
            ![r.sid] = Bumped([@ EXCEPT !.rule = bounded]),
            ![new] = NewMaster(r.first, second, Unbounded)]
       /\ overrides' = {IF o.parent = r.sid /\ o.slot >= r.slot
                        THEN [o EXCEPT !.parent = new] ELSE o : o \in overrides}
       /\ UNCHANGED dates

\* `splitSeries`
SplitSeries(a) ==
  LET r == req[a]
      rdates == OfKind("rdate", r.dates)
      kept == {c \in rdates : c < r.slot}
      bounded == BoundedRule(r.target, r.slot)
      second == RemainderRule(r.target, r.rule, r.slot)
  IN
  /\ Committing(a, r) /\ r.op = "split" /\ ~WholeCut(r)
  /\ \E new \in Free :
       /\ masters' = [masters EXCEPT
            ![r.sid] = Bumped([@ EXCEPT !.rule = bounded,
                                        !.end = SeriesEnd(r.target.first, bounded, kept)]),
            ![new] = NewMaster(r.first, second, SeriesEnd(r.first, second, rdates \ kept))]
       /\ overrides' =
            {IF o.parent = r.sid /\ o.slot >= r.slot
             THEN [o EXCEPT !.parent = new, !.uid = new] ELSE o : o \in overrides}
       /\ dates' =
            {IF d.sid = r.sid /\ d.slot >= r.slot
             THEN [d EXCEPT !.sid = new] ELSE d : d \in dates}

\* Variation: the master alone is deleted.
SoftDeleteMaster(a) ==
  LET r == req[a] IN
  /\ Committing(a, r) /\ Deletes(r)
  /\ masters' = [masters EXCEPT ![r.sid] = Bumped([@ EXCEPT !.state = "deleted"])]
  /\ UNCHANGED <<overrides, dates>>

\* `softDeleteEvent`: the overrides too, if the target read was a series.
SoftDeleteEvent(a) ==
  LET r == req[a] IN
  /\ Committing(a, r) /\ Deletes(r)
  /\ masters' = [masters EXCEPT ![r.sid] = Bumped([@ EXCEPT !.state = "deleted"])]
  /\ overrides' =
       {IF r.target.rule # Nothing /\ o.parent = r.sid THEN [o EXCEPT !.live = FALSE] ELSE o :
          o \in overrides}
  /\ UNCHANGED dates

\* Variation: the skip is recorded under a kind no reader knows.
SkipUnderUnknownKind(a) ==
  LET r == req[a] IN
  /\ Committing(a, r) /\ r.op = "skip"
  /\ dates' = dates \union {[sid |-> r.sid, kind |-> "skip", slot |-> r.slot]}
  /\ masters' = [masters EXCEPT ![r.sid] = Bumped(@)]
  /\ UNCHANGED overrides

\* Variation: a skip does not raise SEQUENCE.
SkipUnannounced(a) ==
  LET r == req[a] IN
  /\ Committing(a, r) /\ r.op = "skip"
  /\ dates' = dates \union {[sid |-> r.sid, kind |-> "exdate", slot |-> r.slot]}
  /\ overrides' = {o \in overrides : ~(o.parent = r.sid /\ o.slot = r.slot)}
  /\ UNCHANGED masters

\* `skipOccurrence`
SkipOccurrence(a) ==
  LET r == req[a] IN
  /\ Committing(a, r) /\ r.op = "skip"
  /\ dates' = dates \union {[sid |-> r.sid, kind |-> "exdate", slot |-> r.slot]}
  /\ overrides' = {o \in overrides : ~(o.parent = r.sid /\ o.slot = r.slot)}
  /\ masters' = [masters EXCEPT ![r.sid] = Bumped(@)]

\* Variation: the rows past the cut stay.
TruncateRuleOnly(a) ==
  LET r == req[a]
      bounded == BoundedRule(r.target, r.slot)
  IN
  /\ Committing(a, r) /\ r.op = "truncate" /\ ~WholeCut(r)
  /\ masters' = [masters EXCEPT
       ![r.sid] = Bumped([@ EXCEPT !.rule = bounded,
                                   !.end = SeriesEnd(r.target.first, bounded, {})])]
  /\ UNCHANGED <<overrides, dates>>

\* Variation: the new bound does not raise SEQUENCE.
TruncateUnannounced(a) ==
  LET r == req[a] IN
  /\ Committing(a, r) /\ r.op = "truncate" /\ ~WholeCut(r)
  /\ masters' = [masters EXCEPT
       ![r.sid] = [@ EXCEPT !.rule = BoundedRule(r.target, r.slot)]]
  /\ overrides' = {o \in overrides : ~(o.parent = r.sid /\ o.slot >= r.slot)}
  /\ dates' = {d \in dates : ~(d.sid = r.sid /\ d.slot >= r.slot)}

\* `truncateSeries`
TruncateSeries(a) ==
  LET r == req[a]
      bounded == BoundedRule(r.target, r.slot)
      kept == {c \in OfKind("rdate", r.dates) : c < r.slot}
  IN
  /\ Committing(a, r) /\ r.op = "truncate" /\ ~WholeCut(r)
  /\ masters' = [masters EXCEPT
       ![r.sid] = Bumped([@ EXCEPT !.rule = bounded,
                                   !.end = SeriesEnd(r.target.first, bounded, kept)])]
  /\ overrides' = {o \in overrides : ~(o.parent = r.sid /\ o.slot >= r.slot)}
  /\ dates' = {d \in dates : ~(d.sid = r.sid /\ d.slot >= r.slot)}

\* `setRecurrenceDate`: an added date reads the dates again, in the
\* transaction, and writes both the rule and series_end_at.
SetRecurrenceDate(a) ==
  LET r == req[a]
      s == r.sid
      end == SeriesEnd(r.target.first, r.target.rule, OfKind("rdate", DatesOf(s, dates')))
  IN
  /\ Committing(a, r) /\ r.op \in {"exdate", "rdate"}
  /\ dates' = dates \union {[sid |-> s, kind |-> r.op, slot |-> r.slot]}
  /\ masters' = [masters EXCEPT
       ![s] = IF r.op = "exdate" THEN Bumped(@)
              ELSE Bumped([@ EXCEPT !.rule = r.target.rule, !.end = end])]
  /\ UNCHANGED overrides

\* `createEvent`
CreateEvent ==
  /\ asks < MaxAsks /\ "all" \in Ops
  /\ Cardinality(Pending("split")) < Cardinality(Free)
  /\ \E s \in Free, first \in Starts, rule \in Rules :
       /\ masters' = [masters EXCEPT ![s] = NewMaster(first, rule, SeriesEnd(first, rule, {}))]
       /\ did' = [op |-> "all", sid |-> s, slot |-> first]
  /\ asks' = asks + 1
  /\ UNCHANGED <<overrides, dates, req>>

Next ==
  \/ CreateEvent
  \/ \E a \in Actor :
       \/ Ask(a) \/ Refuse(a) \/ ReadDates(a)
       \/ UpdateWholeEvent(a) \/ UpdateOccurrence(a) \/ SplitSeries(a)
       \/ SoftDeleteEvent(a) \/ SkipOccurrence(a) \/ TruncateSeries(a)
       \/ SetRecurrenceDate(a)

Spec == Init /\ [][Next]_vars

-------------------------------------------------------------------------------
(* Properties.                                                             *)

Requests ==
  [op : Scopes, sid : Sid, slot : Slot, first : Slot, rule : Rule,
   target : [first : Slot, rule : Rule], read : BOOLEAN, dates : SUBSET Date]

\* Every table and every request in flight holds values of its columns, and a
\* rule with a COUNT counts at least one occurrence: the parser refuses COUNT=0,
\* so that a row a split or a cut wrote with it could never be read again.
TypeOK ==
  /\ masters \in [Sid -> Master]
  /\ \A s \in Sid :
       LET rule == masters[s].rule IN rule # Nothing /\ rule.kind = "count" => rule.at > 0
  /\ overrides \subseteq Override
  /\ dates \subseteq Date
  /\ \A a \in Actor : req[a] # Nothing => req[a] \in Requests
  /\ asks \in 0 .. MaxAsks

\* An override carries its master's uid, and a series has at most one override
\* of an occurrence: what lets the upsert of updateOccurrence find the row, and
\* what a split keeps true by rewriting the uid of the rows it re-parents.
OverridesCarryTheirUid ==
  \A o \in overrides :
    /\ o.uid = o.parent /\ masters[o.parent].state # "none"
    /\ \A p \in overrides : p.uid = o.uid /\ p.slot = o.slot => p = o

\* No occurrence the rule of s generates or an RDATE adds lies past series_end_at.
EndCoversOf(s) ==
  masters[s].state = "live" /\ masters[s].rule # Nothing =>
    \A c \in Generated(s) : c <= masters[s].end

\* series_end_at never under-estimates, or the range query would leave the
\* series out (seriesColumns, seriesEndInstantMs).
EndCovers == \A s \in Sid : EndCoversOf(s)

\* Once an added date is in, series_end_at covers it and every other date of the
\* series, whatever has raced it, but for a move of the start itself: that is
\* what setRecurrenceDate reads the dates back inside its transaction for.
AddedDateIsCovered ==
  [][\A a \in Actor, s \in Sid :
       /\ SetRecurrenceDate(a)
       /\ req[a].op = "rdate" /\ req[a].sid = s
       /\ req[a].target.first = masters[s].first
       => EndCoversOf(s)']_vars

\* No override is shown whose series is deleted, and none is deleted whose
\* series is shown: the two states updateOccurrence and the suppression query
\* rely on never meeting.
OverridesFollowTheirMaster ==
  \A o \in overrides : o.live <=> masters[o.parent].state = "live"

\* An edited occurrence is an occurrence: its series generates its slot, or an
\* RDATE adds it, and no EXDATE removes it.
NoPhantom ==
  \A o \in overrides : o.live =>
    /\ masters[o.parent].rule # Nothing
    /\ IsOccurrence(masters[o.parent], o.slot, DatesOf(o.parent, dates))

\* What a guest's client renders of series s.
Ics(s) ==
  <<masters[s].state, masters[s].first, masters[s].rule, DatesOf(s, dates),
    {o \in overrides : o.parent = s}>>

\* A write that changes what the .ics of a series says raises its SEQUENCE, or
\* the clients of its guests would ignore the change.
SequenceRises ==
  [][\A s \in Sid :
       masters[s].state # "none" /\ Ics(s)' # Ics(s) => masters'[s].seq > masters[s].seq]_vars

\* The same of every write that is not to the whole series, however writes race.
ScopedSequenceRises ==
  [][~(\E a \in Actor : UpdateWholeEvent(a)) =>
       \A s \in Sid :
         masters[s].state # "none" /\ Ics(s)' # Ics(s) => masters'[s].seq > masters[s].seq]_vars

\* Both, of writes that race.
RacesSpareTheSeries == ScopedSequenceRises /\ AddedDateIsCovered

\* Adding or skipping a date leaves the rule of the series as it is.
DatesKeepTheRule ==
  [][\A s \in Sid :
       did' # did /\ did' # Nothing /\ did'.op \in {"exdate", "rdate"}
         => masters'[s].rule = masters[s].rule]_vars

\* An occurrence that has an EXDATE is not shown, edited or not.
SkippedIsHidden ==
  \A s \in Sid : Skipped(s) \cap (Virtual(s) \union Edited(s)) = {}

\* One write at a time, each does to the grid exactly what its scope says.
Intent == INSTANCE SeriesIntent WITH
  plain <- [s \in Sid |-> Virtual(s)],
  moved <- [s \in Sid |-> Edited(s)],
  skipped <- [s \in Sid |-> Skipped(s)]

DoesWhatItSays == Intent!Spec
================================================================================
