--------------------------- MODULE EventComposer ---------------------------
(***************************************************************************)
(* Editing an occurrence of a repeating event from the month view          *)
(* (apps/web/src/components/calendar/calendar-workspace.tsx,               *)
(* event-composer.tsx, edit-scope-dialog.tsx; the scoped writes of         *)
(* server/actions/calendar.ts behind them).                                *)
(*                                                                         *)
(* The series is a line of slots, an occurrence is named by its slot; one  *)
(* that was edited shows where it was moved to.  The composer is seeded    *)
(* once, when it mounts: its text and rule from the cached detail of the   *)
(* occurrence, its start from the chip that was clicked.  What its draft   *)
(* is compared with to warn is only half of that: the chip's start, but    *)
(* the rule the cache holds by then.  The cache answers at once with       *)
(* whatever it has, stale or not, and fetches behind it.  What the server  *)
(* does with each scope in detail, and under races, is CalendarSeries;     *)
(* here it is one step.                                                    *)
(***************************************************************************)
EXTENDS Integers, FiniteSets

CONSTANTS
    LastSlot,       \* Slots 0..LastSlot
    Title, Rule,    \* What a user may type
    Unset,          \* No value: a null scope, occurrence, rule or draft
    MaxSends        \* Bound: requests sent

VARIABLES
    series,     \* [start, rule, title, live]: the master row
    edited,     \* slot -> its override row, [start, title], or Unset
    skipped,    \* Slots with an EXDATE
    month,      \* slot -> where the month view shows it, or Unset: the range query
    cache,      \* slot -> [title, rule] or Nothing: the byId query per occurrence
    composer,   \* [mode, of, start, seed, draft, intent]: the dialog
    requests,   \* What was sent and not yet handled
    answers,    \* Handled requests whose answer has not arrived
    sent,       \* Requests sent so far
    drops       \* HISTORY: the writes that dropped edits, how they were warned of

tables == <<series, edited, skipped>>
vars == <<tables, month, cache, composer, requests, answers, sent, drops>>

Slot == 0..LastSlot
Nothing == [title |-> Unset, rule |-> Unset]
Closed == [ mode |-> "closed", of |-> Unset, start |-> Unset, seed |-> Unset, draft |-> Unset,
            intent |-> Unset ]
Scopes == {"this", "thisAndFollowing", "all"}

\* A rule as the master's column has it, its bound included; which days it
\* repeats on is left out, every slot below the bound is one of its.
Rrule == [freq : Rule, until : 1..(LastSlot + 1)]

Generated == { s \in Slot : s >= series.start /\ s < series.rule.until }

\* The chips of the month: an override at its own start, and what the rule
\* generates at its slot unless it is skipped.
ShownAt(s) ==
    IF ~series.live THEN Unset
    ELSE IF edited[s] # Unset THEN edited[s].start
    ELSE IF s \in Generated \ skipped THEN s ELSE Unset
Chips == [s \in Slot |-> ShownAt(s)]

\* The detail byId answers for an occurrence: the text of its override, if it
\* has one, and in any case the rule of the series.
Detail(s) ==
    IF ~series.live THEN Nothing
    ELSE [ title |-> IF edited[s] # Unset THEN edited[s].title ELSE series.title,
           rule |-> series.rule ]

\* What a composer on a chip at this start is seeded with.
Seed(start, detail) == [title |-> detail.title, rule |-> detail.rule, start |-> start]

\* The dialog on an occurrence: a skeleton until there is a detail.
Dialog(s, start, detail) ==
    IF detail = Nothing
    THEN [Closed EXCEPT !.mode = "loading", !.of = s, !.start = start]
    ELSE [ mode |-> "open", of |-> s, start |-> start, seed |-> Seed(start, detail),
           draft |-> Seed(start, detail), intent |-> Unset ]

--------------------------------------------------------------------------
Init ==
    /\ \E title \in Title, rule \in Rule :
         series = [ start |-> 0, rule |-> [freq |-> rule, until |-> LastSlot + 1],
                    title |-> title, live |-> TRUE ]
    /\ skipped \in SUBSET Slot
    /\ edited \in [Slot -> {Unset} \cup [start : Slot, title : Title]]
    /\ \A s \in skipped : edited[s] = Unset
    /\ month = Chips
    /\ cache = [s \in Slot |-> Nothing]
    /\ composer = Closed
    /\ requests = {} /\ answers = {} /\ sent = 0
    /\ drops = {}

\* The month view fetches its range again.
Repaint ==
    /\ month # Chips
    /\ month' = Chips
    /\ UNCHANGED <<tables, cache, composer, requests, answers, sent, drops>>

\* A chip is clicked.  What the cache holds is shown at once, however old.
Open(s) ==
    /\ composer = Closed /\ month[s] # Unset
    /\ composer' = Dialog(s, month[s], cache[s])
    /\ UNCHANGED <<tables, month, cache, requests, answers, sent, drops>>

\* A detail arrives.  It seeds a composer that waits, one that is open keeps
\* what it was seeded with; the detail of a series that is gone takes it away.
Arrive(s) ==
    /\ composer.mode # "closed" /\ composer.of = s /\ cache[s] # Detail(s)
    /\ cache' = [cache EXCEPT ![s] = Detail(s)]
    /\ composer' = IF composer.mode = "loading" \/ Detail(s) = Nothing
                   THEN Dialog(s, composer.start, Detail(s)) ELSE composer
    /\ UNCHANGED <<tables, month, requests, answers, sent, drops>>

\* Bound: one field is changed per visit.
Draft(field, value) ==
    /\ composer.mode = "open" /\ composer.draft = composer.seed
    /\ composer' = [composer EXCEPT !.draft[field] = value]
    /\ UNCHANGED <<tables, month, cache, requests, answers, sent, drops>>

\* Saving or deleting an occurrence asks for a scope first.
Submit(intent) ==
    /\ composer.mode = "open"
    /\ composer' = [composer EXCEPT !.mode = "asking", !.intent = intent]
    /\ UNCHANGED <<tables, month, cache, requests, answers, sent, drops>>

CancelScope ==
    /\ composer.mode = "asking"
    /\ composer' = [composer EXCEPT !.mode = "open", !.intent = Unset]
    /\ UNCHANGED <<tables, month, cache, requests, answers, sent, drops>>

\* Variation: the draft compared with all it was seeded with.
MovesFromItsSeed == composer.draft.rule # composer.seed.rule
                    \/ composer.draft.start # composer.seed.start

\* Whether the draft changes what names the occurrences: compared with the
\* rule as the cache has it now, and with the start the chip had.
MovesTheSeries == composer.draft.rule # cache[composer.of].rule
                  \/ composer.draft.start # composer.start

Warned(scope) == composer.intent = "edit" /\ scope = "all" /\ MovesTheSeries

\* The values of a request: a single occurrence has no rule of its own, and
\* a deletion no values.
Values(scope) ==
    IF composer.intent = "delete" THEN Unset
    ELSE [composer.draft EXCEPT !.rule = IF scope = "this" THEN Unset ELSE @]

ChooseScope(scope) ==
    /\ composer.mode = "asking" /\ sent < MaxSends
    /\ requests' = requests \cup
         {[ id |-> sent, intent |-> composer.intent, scope |-> scope, occurrence |-> composer.of,
            values |-> Values(scope), warned |-> Warned(scope),
            start |-> composer.start, rule |-> cache[composer.of].rule ]}
    /\ sent' = sent + 1
    /\ composer' = [composer EXCEPT !.mode = "open", !.intent = Unset]
    /\ UNCHANGED <<tables, month, cache, answers, drops>>

Close ==
    /\ composer.mode \in {"loading", "open"}
    /\ composer' = Closed
    /\ UNCHANGED <<tables, month, cache, requests, answers, sent, drops>>

--------------------------------------------------------------------------
(* The server. *)

Handled(r) ==
    /\ requests' = requests \ {r} /\ answers' = answers \cup {r.id}
    /\ UNCHANGED <<month, cache, composer, sent>>

\* Every scope that reaches the master's first occurrence is the whole event.
Whole(r) == r.scope = "all" \/ (r.scope = "thisAndFollowing" /\ r.occurrence <= series.start)

\* An edit of one occurrence asks whether it is one, a cut only whether it is
\* within the rule's bound, a skip or a write of the whole event neither.
Refused(r) ==
    \/ ~series.live
    \/ r.intent = "edit" /\ r.scope = "this" /\ r.occurrence \notin Generated \ skipped
    \/ r.scope = "thisAndFollowing" /\ r.occurrence >= series.rule.until

\* A refused write leaves the composer open, with a toast.
Refuse(r) ==
    /\ Refused(r)
    /\ requests' = requests \ {r}
    /\ UNCHANGED <<tables, month, cache, composer, answers, sent, drops>>

IdentityChanged(r) == r.values.start # series.start \/ r.values.rule # series.rule

HasEdits == skipped # {} \/ \E s \in Slot : edited[s] # Unset

UpdateWhole(r) ==
    /\ r.intent = "edit" /\ ~Refused(r) /\ Whole(r)
    /\ series' = [series EXCEPT !.title = r.values.title, !.rule = r.values.rule,
                                !.start = r.values.start]
    /\ edited' = IF IdentityChanged(r) THEN [s \in Slot |-> Unset] ELSE edited
    /\ skipped' = IF IdentityChanged(r) THEN {} ELSE skipped
    /\ drops' = IF IdentityChanged(r) /\ HasEdits
                THEN drops \cup {[ warned |-> r.warned, scope |-> r.scope,
                                   current |-> r.rule = series.rule,
                                   first |-> r.start = series.start ]}
                ELSE drops
    /\ Handled(r)

UpdateOne(r) ==
    /\ r.intent = "edit" /\ ~Refused(r) /\ r.scope = "this"
    /\ edited' = [edited EXCEPT ![r.occurrence] = [ start |-> r.values.start,
                                                    title |-> r.values.title ]]
    /\ Handled(r)
    /\ UNCHANGED <<series, skipped, drops>>

\* A split or a cut from an occurrence on: the rule is bounded, the tail is
\* another series.
CutAt(r) ==
    /\ r.scope = "thisAndFollowing" /\ ~Refused(r) /\ ~Whole(r)
    /\ series' = [series EXCEPT !.rule.until = r.occurrence]
    /\ edited' = [s \in Slot |-> IF s < r.occurrence THEN edited[s] ELSE Unset]
    /\ skipped' = { s \in skipped : s < r.occurrence }
    /\ Handled(r)
    /\ UNCHANGED drops

Delete(r) ==
    /\ r.intent = "delete" /\ ~Refused(r) /\ Whole(r)
    /\ series' = [series EXCEPT !.live = FALSE]
    /\ Handled(r)
    /\ UNCHANGED <<edited, skipped, drops>>

Skip(r) ==
    /\ r.intent = "delete" /\ ~Refused(r) /\ r.scope = "this"
    /\ skipped' = skipped \cup {r.occurrence}
    /\ edited' = [edited EXCEPT ![r.occurrence] = Unset]
    /\ Handled(r)
    /\ UNCHANGED <<series, drops>>

\* The answer closes the dialog, whatever occurrence it is of by now.  What it
\* marks stale is fetched again when it is next on screen (Arrive, Repaint),
\* and shown as it is until then.
Done(id) ==
    /\ id \in answers
    /\ answers' = answers \ {id}
    /\ composer' = Closed
    /\ UNCHANGED <<tables, month, cache, requests, sent, drops>>

Next ==
    \/ \E s \in Slot : Open(s) \/ Arrive(s) \/ Draft("start", s)
    \/ \E title \in Title : Draft("title", title)
    \/ \E rule \in Rrule : Draft("rule", rule)
    \/ \E intent \in {"edit", "delete"} : Submit(intent)
    \/ \E scope \in Scopes : ChooseScope(scope)
    \/ CancelScope \/ Close \/ Repaint
    \/ \E r \in requests :
         Refuse(r) \/ UpdateWhole(r) \/ UpdateOne(r) \/ CutAt(r) \/ Delete(r) \/ Skip(r)
    \/ \E id \in answers : Done(id)

Spec == Init /\ [][Next]_vars

--------------------------------------------------------------------------
TypeOK ==
    /\ series.start \in Slot /\ series.rule \in Rrule
    /\ edited \in [Slot -> {Unset} \cup [start : Slot, title : Title]] /\ skipped \subseteq Slot
    /\ month \in [Slot -> Slot \cup {Unset}]
    /\ composer.mode \in {"closed", "loading", "open", "asking"}
    /\ sent \in 0..MaxSends

\* updateEventSchema never refuses what the composer sends of an occurrence:
\* a scope goes with an occurrence, and a single one with no rule.
RequestsAreWellFormed ==
    \A r \in requests :
      /\ r.scope \in Scopes /\ r.occurrence \in Slot
      /\ r.intent = "edit" /\ r.scope = "this" => r.values.rule = Unset

\* What event-composer.tsx:168-179 compares with is enough as long as it is
\* true: from a chip at the start of the series, with the rule the series still
\* has when the edit lands, no edit of all of it drops edits and skips
\* unannounced, whatever else is sent, answered and fetched in between.
WarnedFromTheFirst == \A d \in drops : d.first /\ d.current /\ d.scope = "all" => d.warned

\* calendar.ts:1135-1137, of the edits and skips an edit of the whole event
\* drops: "the composer confirms it explicitly before submitting, because a
\* silent drop is data loss".
NoSilentDrop == \A d \in drops : d.warned

--------------------------------------------------------------------------
(* What is behind it: how the composer, the cache and the requests belong   *)
(* together.                                                                *)

Bounds == LastSlot \in Nat /\ MaxSends \in Nat

Form == [title : Title, rule : Rrule, start : Slot]

Detailed == [title : Title, rule : Rrule]

Override == [start : Slot, title : Title]

Loading == [ mode : {"loading"}, of : Slot, start : Slot, seed : {Unset}, draft : {Unset},
             intent : {Unset} ]
Opened == [ mode : {"open"}, of : Slot, start : Slot, seed : Form, draft : Form,
            intent : {Unset} ]
Asking == [ mode : {"asking"}, of : Slot, start : Slot, seed : Form, draft : Form,
            intent : {"edit", "delete"} ]

Request ==
    [ id : Nat, intent : {"edit", "delete"}, scope : Scopes, occurrence : Slot,
      values : {Unset} \cup [title : Title, rule : Rrule \cup {Unset}, start : Slot],
      warned : BOOLEAN,
      start : Slot, rule : Rrule ]

ComposerIsTyped ==
    /\ series \in [start : Slot, rule : Rrule, title : Title, live : BOOLEAN]
    /\ edited \in [Slot -> {Unset} \cup Override] /\ skipped \subseteq Slot
    /\ month \in [Slot -> Slot \cup {Unset}]
    /\ cache \in [Slot -> {Nothing} \cup Detailed]
    /\ composer \in {Closed} \cup Loading \cup Opened \cup Asking
    /\ requests \subseteq Request
    /\ sent \in 0..MaxSends

\* A composer that shows a form has a detail to compare it with.
ShownWithItsDetail ==
    composer.mode \in {"open", "asking"} => cache[composer.of] \in Detailed

\* An edit has values, with a rule unless it is about one occurrence.
HasValues(r) ==
    /\ r.values \in [title : Title, rule : Rrule \cup {Unset}, start : Slot]
    /\ IF r.scope = "this" THEN r.values.rule = Unset ELSE r.values.rule \in Rrule

\* A request carries the warning that was shown for it.
WarnedAsShown ==
    \A r \in requests :
      /\ r.intent = "edit" => HasValues(r)
      /\ r.intent = "edit" /\ r.scope = "all" =>
           (r.warned <=> r.values.rule # r.rule \/ r.values.start # r.start)

ComposerInv ==
    ComposerIsTyped /\ ShownWithItsDetail /\ WarnedAsShown /\ WarnedFromTheFirst
=============================================================================
