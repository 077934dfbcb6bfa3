---------------------------- MODULE MCAlgorithms -----------------------------
(* The calendar engine's functions over bounded inputs: a behaviour of this  *)
(* module computes one of them, chosen at the start, and p1, p2, p3 stand for*)
(* the variables of the one chosen.                                          *)
EXTENDS Integers, Sequences, FiniteSets

VARIABLES
  which,   \* the component this behaviour is a behaviour of
  p1, p2, p3

vars == <<which, p1, p2, p3>>

\* UTC.
UTC == << [at |-> -100000000, offset |-> 0] >>

\* A zone that changes twice in 2024, and one half a day away.
ParisZone == << [at |-> -100000000, offset |-> 2], [at |-> 19813 * 48 + 2, offset |-> 4],
                [at |-> 20023 * 48 + 2, offset |-> 2] >>
FarZone == << [at |-> -100000000, offset |-> -20] >>

\* Until 7 May 2024, until the occurrence of that day in UTC, and until just before it.
NoUntil == [kind |-> "none", at |-> 0]
Untils == {NoUntil, [kind |-> "date", at |-> 19850], [kind |-> "utc", at |-> 19850 * 48 + 1],
           [kind |-> "utc", at |-> 19850 * 48]}

\* Every rule of at most two parts beside its frequency.
AllRules ==
  [freq : {"DAILY", "WEEKLY", "MONTHLY", "YEARLY"}, interval : {1, 2}, count : {0, 4},
   until : Untils, wkst : {0, 1}, byMonth : {{}, {2, 6}}, byMonthDay : {{}, {31}, {13, -1}},
   byDay : {{}, {[ordinal |-> 0, weekday |-> 2], [ordinal |-> 0, weekday |-> 0]},
            {[ordinal |-> -1, weekday |-> 5]}},
   bySetPos : {{}, {-1}}]
PartsOf(r) ==
  Cardinality({ i \in 1..8 :
    << r.byMonth # {}, r.byMonthDay # {}, r.byDay # {}, r.bySetPos # {},
       r.interval # 1, r.count # 0, r.until # NoUntil, r.wkst # 1 >>[i] })

\* What a rule's text may hold: parts the reader knows, with good and bad values, and two
\* it does not know.
Part(n, v) == [name |-> n, value |-> v]
Date(y, m, d) == [kind |-> "date", year |-> y, month |-> m, day |-> d]
Utc(y, m, d, h) == [kind |-> "utc", year |-> y, month |-> m, day |-> d, hour |-> h]
WrittenParts ==
  {Part("FREQ", "DAILY"), Part("FREQ", "WEEKLY"), Part("FREQ", "MONTHLY"), Part("FREQ", "HOURLY"),
   Part("INTERVAL", 1), Part("INTERVAL", 2), Part("INTERVAL", 0), Part("COUNT", 3),
   Part("COUNT", 1001),
   Part("UNTIL", Date(2028, 2, 29)), Part("UNTIL", Date(2027, 2, 29)),
   Part("UNTIL", Utc(2028, 2, 29, 13)), Part("UNTIL", Utc(1969, 12, 31, 23)),
   Part("UNTIL", Utc(2028, 3, 1, 24)), Part("WKST", 0), Part("BYMONTH", {2}),
   Part("BYMONTHDAY", {31}), Part("BYMONTHDAY", {0}), Part("BYDAY", {<<0, 1>>}),
   Part("BYDAY", {<<1, 1>>}), Part("BYSETPOS", {-1}), Part("BYHOUR", {3})}

Engine == INSTANCE Recurrence WITH
  PerDay <- 48, Rules <- {}, Starts <- {}, StartTick <- 0, Spans <- {}, StartZone <- UTC,
  EndZone <- UTC, Windows <- {}, MaxPeriods <- 0, series <- p1, window <- p2, shown <- p3
ShownRules ==
  { r \in AllRules : /\ PartsOf(r) <= 2
                     /\ r.wkst = 0 => r.freq = "WEEKLY" /\ r.interval = 2
                     /\ r.freq = "DAILY" => r.bySetPos = {}
                     /\ Engine!Supported(r) }
ShownWindows ==
  {[from |-> 19700, to |-> 19784, limit |-> 100, overlaps |-> FALSE],
   [from |-> 19811, to |-> 19832, limit |-> 3, overlaps |-> TRUE],
   [from |-> 19840, to |-> 19900, limit |-> 50, overlaps |-> TRUE]}

\* Rules of up to two parts from 29 February 2024 and 31 December 2023, at 02:30, which
\* the change of 31 March skips, in three windows; an end two days on, and one whose wall
\* time is on the day before the start's, ten hours west.
Recurrence == INSTANCE Recurrence WITH
  Rules <- ShownRules, Starts <- {19782, 19722}, StartTick <- 5, Spans <- {100, -20},
  StartZone <- ParisZone, EndZone <- FarZone, Windows <- ShownWindows, MaxPeriods <- 40,
  PerDay <- 48, series <- p1, window <- p2, shown <- p3

\* Texts of up to three parts.
RuleText == INSTANCE RuleText WITH
  Parts <- WrittenParts, MaxParts <- 3, text <- p1, read <- p2

\* Texts of up to four characters of every kind, lines of five octets.
IcsText == INSTANCE IcsText WITH
  MaxLength <- 4, MaxOctets <- 5, typed <- p1, place <- p2, lines <- p3

\* The variables a component does not have stay as they began.
Init ==
  \/ which = "Recurrence" /\ Recurrence!Init
  \/ which = "RuleText" /\ RuleText!Init /\ p3 = 0
  \/ which = "IcsText" /\ IcsText!Init

Next ==
  \/ which = "Recurrence" /\ Recurrence!Next /\ UNCHANGED <<which>>
  \/ which = "RuleText" /\ RuleText!Next /\ UNCHANGED <<which, p3>>
  \/ which = "IcsText" /\ IcsText!Next /\ UNCHANGED <<which>>

Spec == Init /\ [][Next]_vars

------------------------------------------------------------------------------

\* Seeking into a series loses nothing and invents nothing, an answer cut short is a
\* beginning, and series_end_at covers whatever is shown.
RecurrenceHolds ==
  which = "Recurrence" =>
    /\ Recurrence!TypeOK
    /\ Recurrence!WindowIsTrue
    /\ Recurrence!CutIsABeginning
    /\ Recurrence!EndCoversShown

\* An accepted rule has every part that was written and survives being written back, and an
\* .ics line holds at most its octets and unfolds and reads as what was typed.
TextsHold ==
  /\ which = "RuleText" =>
       /\ RuleText!TypeOK
       /\ RuleText!NothingIsDropped
       /\ RuleText!RewritingKeeps
  /\ which = "IcsText" =>
       /\ IcsText!TypeOK
       /\ IcsText!ReadsBack
       /\ IcsText!LinesFit
==============================================================================
