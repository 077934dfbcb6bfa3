------------------------------ MODULE RuleText ------------------------------
(***************************************************************************)
(* Reading and writing a recurrence rule (parseRRule and formatRRule of    *)
(* packages/calendar/src/rrule.ts).                                        *)
(*                                                                         *)
(* The text is a sequence of NAME=VALUE parts, already split.  A rule that *)
(* is cut or split is parsed, changed and written back, so what the reader *)
(* drops the series loses for good: what it cannot honour it must refuse.  *)
(***************************************************************************)
EXTENDS Integers, Sequences, FiniteSets, Functions

HoursPerDay == 24       \* The time of an UNTIL is told to the hour

LOCAL INSTANCE CivilTime WITH PerDay <- HoursPerDay

CONSTANTS
    Parts,      \* The parts a text is made of: [name, value]
    MaxParts    \* Bound: parts in a text

VARIABLES
    text,       \* The parts written so far
    read        \* What parseRRule made of them: [ok, rule], or a null before

vars == <<text, read>>

Unread == [ok |-> FALSE, rule |-> <<>>, done |-> FALSE]
Refused == [ok |-> FALSE, rule |-> <<>>, done |-> TRUE]

--------------------------------------------------------------------------
\* The order formatRRule writes the parts in.
KnownParts == << "FREQ", "INTERVAL", "COUNT", "UNTIL", "WKST",
                 "BYMONTH", "BYMONTHDAY", "BYDAY", "BYSETPOS" >>

Frequencies == {"DAILY", "WEEKLY", "MONTHLY", "YEARLY"}

MaxRecurrenceCount == 1000

Names(t) == { t[i].name : i \in DOMAIN t }
ValueOf(t, name) == (CHOOSE p \in Range(t) : p.name = name).value

\* A value the reader of that part accepts.  A weekday is 0 for Sunday;
\* a BYDAY entry is <<ordinal, weekday>>, with 0 for no ordinal.
ValidValue(name, value) ==
    CASE name = "FREQ" -> value \in Frequencies
      [] name = "INTERVAL" -> value >= 1
      [] name = "COUNT" -> value \in 1..MaxRecurrenceCount
      [] name = "UNTIL" -> /\ value.month \in 1..12
                          /\ value.day \in 1..DaysInMonth(value.year, value.month)
                          /\ value.kind = "utc" => value.hour \in 0..23
      [] name = "WKST" -> value \in 0..6
      [] name = "BYMONTH" -> value \subseteq 1..12
      [] name = "BYMONTHDAY" -> value \subseteq (-31..31) \ {0}
      [] name = "BYDAY" -> \A b \in value : b[2] \in 0..6
      [] name = "BYSETPOS" -> value \subseteq (-366..366) \ {0}
      [] OTHER -> TRUE

\* What the rule keeps of a value: the instant of an UNTIL in UTC, anything else as it is.
Kept(name, value) ==
    IF name = "UNTIL" /\ value.kind = "utc"
    THEN [kind |-> "utc",
          at |-> ToDayNumber(value.year, value.month, value.day) * HoursPerDay + value.hour]
    ELSE value

\* And what it is written as.
Shown(name, value) ==
    IF name = "UNTIL" /\ value.kind = "utc"
    THEN LET date == FromDayNumber(value.at \div HoursPerDay)
         IN [kind |-> "utc", year |-> date.year, month |-> date.month, day |-> date.day,
             hour |-> value.at % HoursPerDay]
    ELSE value

\* The reader's bug of letting an unsupported part pass.
Known(t) == Names(t) \subseteq Range(KnownParts)

\* What cannot be honoured together.
Combines(t) ==
    LET has(name) == name \in Names(t)
        freq == ValueOf(t, "FREQ")
    IN /\ ~(has("COUNT") /\ has("UNTIL"))
       /\ has("BYMONTHDAY") => freq \notin {"WEEKLY", "DAILY"}
       /\ has("BYDAY") => \/ freq \notin {"WEEKLY", "DAILY"}
                          \/ \A b \in ValueOf(t, "BYDAY") : b[1] = 0
       /\ has("BYSETPOS") => has("BYMONTH") \/ has("BYMONTHDAY") \/ has("BYDAY")

Default == [INTERVAL |-> 1, WKST |-> 1]

\* Later parts of one name are not merged: a repeated name is refused.
Parse(t) ==
    IF /\ t # <<>> /\ Known(t) /\ "FREQ" \in Names(t)
       /\ Cardinality(Names(t)) = Len(t)
       /\ \A p \in Range(t) : ValidValue(p.name, p.value)
       /\ Combines(t)
    THEN [ ok |-> TRUE, done |-> TRUE,
           rule |-> [ name \in (Names(t) \cup DOMAIN Default) \cap Range(KnownParts) |->
                        IF name \in Names(t) THEN Kept(name, ValueOf(t, name))
                                             ELSE Default[name] ] ]
    ELSE Refused

\* A default is not written.
Written(rule) ==
    { name \in DOMAIN rule : name \in DOMAIN Default => rule[name] # Default[name] }

Format(rule) ==
    LET written(name) == name \in Written(rule)
        names == SelectSeq(KnownParts, written)
    IN [ i \in DOMAIN names |-> [name |-> names[i], value |-> Shown(names[i], rule[names[i]])] ]

--------------------------------------------------------------------------
Init == text = <<>> /\ read = Unread

Write(part) ==
    /\ ~read.done /\ Len(text) < MaxParts
    /\ text' = Append(text, part)
    /\ UNCHANGED read

Read ==
    /\ ~read.done
    /\ read' = Parse(text)
    /\ UNCHANGED text

\* A cut or a split: the rule is written back and read again.
Rewrite ==
    /\ read.ok
    /\ text' = Format(read.rule)
    /\ read' = Parse(text')

Next == (\E part \in Parts : Write(part)) \/ Read \/ Rewrite

Spec == Init /\ [][Next]_vars

--------------------------------------------------------------------------
TypeOK == read.ok => read.done /\ DOMAIN read.rule \subseteq Range(KnownParts)

\* What is read is all of what was written: an accepted text has no part the
\* rule does not have, so nothing that would change the dates is dropped.
NothingIsDropped ==
    read.ok => \A p \in Range(text) :
                  /\ p.name \in DOMAIN read.rule
                  /\ Shown(p.name, read.rule[p.name]) = p.value

\* Writing a rule back and reading it changes nothing, so that the second
\* half of a split repeats as the whole did.
RewritingKeeps == read.ok => Parse(Format(read.rule)) = read
=============================================================================
