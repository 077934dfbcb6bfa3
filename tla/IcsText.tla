------------------------------ MODULE IcsText ------------------------------
(***************************************************************************)
(* Writing an event as iCalendar text (packages/calendar/src/ics.ts), and  *)
(* the calendar client that reads it back.                                 *)
(*                                                                         *)
(* A text is a sequence of code units, told apart by what the writer does  *)
(* to them: the ones TEXT escapes, the line ends, a control the format     *)
(* forbids, a tab, what quotes or delimits a parameter, a letter, and the  *)
(* two halves of a character of four octets.                               *)
(***************************************************************************)
EXTENDS Integers, Sequences, FiniteSets, SequencesExt

CONSTANTS
    MaxLength,      \* Bound: characters the user types
    MaxOctets       \* MAX_OCTETS, the fold width

VARIABLES
    typed,      \* The characters the user typed
    place,      \* Where it goes: a property's value or a parameter's
    lines       \* The content lines, folded; <<>> before they are written

vars == <<typed, place, lines>>

Controls == {"CTL", "CR", "LF"}
Escaped == {"\\", ";", ","}
Chars == Controls \cup Escaped \cup {"TAB", "quote", ":", "^", "a", "wide"}

\* The string of what was typed: a wide character is a surrogate pair.
Units(c) == IF c = "wide" THEN << "high", "low" >> ELSE <<c>>
StringOf(t) == FlattenSeq([ i \in DOMAIN t |-> Units(t[i]) ])

\* Its code points, each with its units.
CodePoints(t) ==
    FoldLeft(LAMBDA acc, u : IF u = "low" THEN Front(acc) \o << Append(Last(acc), u) >>
                                          ELSE Append(acc, <<u>>), <<>>, t)

\* Half of a pair's four octets, or the one of another unit.
Octets(u) == IF u \in {"high", "low"} THEN 2 ELSE 1

--------------------------------------------------------------------------
StripControls(t) == LET plain(c) == c \notin Controls IN SelectSeq(t, plain)

\* CR LF and a lone CR are line ends like LF.
LineEnds(t) ==
    [ i \in DOMAIN t |->
        IF t[i] # "CR" THEN t[i]
        ELSE IF i < Len(t) /\ t[i + 1] = "LF" THEN "dropped" ELSE "LF" ]

Normalised(t) == LET kept(c) == c # "dropped" IN SelectSeq(LineEnds(t), kept)

EscapeChar(c) == IF c \in Escaped THEN <<"\\", c>>
                 ELSE IF c = "LF" THEN <<"\\", "n">> ELSE <<c>>

EscapeText(t) ==
    LET escaped == Normalised(t)
    IN StripControls(FlattenSeq([ i \in DOMAIN escaped |-> EscapeChar(escaped[i]) ]))

CaretChar(c) == CASE c = "^" -> <<"^", "^">> [] c = "quote" -> <<"^", "q">>
                  [] c = "LF" -> <<"^", "n">> [] OTHER -> <<c>>

\* A parameter is quoted when it needs to be.
QuoteParamValue(t) ==
    LET coded == Normalised(t)
        encoded == StripControls(FlattenSeq([ i \in DOMAIN coded |-> CaretChar(coded[i]) ]))
    IN IF Range(t) \cap {"quote", "CR", "LF", ";", ",", ":", "^"} = {}
       THEN StripControls(t)
       ELSE <<"quote">> \o encoded \o <<"quote">>

Width(t) == FoldSeq(LAMBDA c, n : n + Octets(c), 0, t)

\* The bug of forgetting the space.
BudgetOfFirst(chunks) == MaxOctets

\* A continuation opens with a space, which counts.
Budget(chunks) == IF Len(chunks) = 1 THEN MaxOctets ELSE MaxOctets - 1

\* Chunks of whole characters, each within its budget.
FoldChar(c, chunks) ==
    LET last == chunks[Len(chunks)]
    IN IF Width(last) + Width(c) > Budget(chunks)
       THEN Append(chunks, c)
       ELSE [chunks EXCEPT ![Len(chunks)] = last \o c]

FoldLine(t) ==
    LET chunks == FoldLeft(LAMBDA acc, c : FoldChar(c, acc), << <<>> >>, CodePoints(t))
    IN [ i \in DOMAIN chunks |-> IF i = 1 THEN chunks[i] ELSE <<" ">> \o chunks[i] ]

--------------------------------------------------------------------------
Init == typed = <<>> /\ lines = <<>> /\ place \in {"value", "parameter"}

Type(c) ==
    /\ lines = <<>> /\ Len(typed) < MaxLength
    /\ typed' = Append(typed, c)
    /\ UNCHANGED <<place, lines>>

Serialize ==
    /\ lines = <<>>
    /\ LET string == StringOf(typed)
       IN lines' = FoldLine(IF place = "value" THEN EscapeText(string) ELSE QuoteParamValue(string))
    /\ UNCHANGED <<typed, place>>

Next == (\E c \in Chars : Type(c)) \/ Serialize

Spec == Init /\ [][Next]_vars

--------------------------------------------------------------------------
(* What the reader does: unfold, then undo the escapes. *)

Unfold(ls) == FlattenSeq([ i \in DOMAIN ls |-> IF i = 1 THEN ls[i] ELSE Tail(ls[i]) ])

\* The escape character, and what a pair of it and another stands for.
Unpair(mark, c) == IF c = "n" THEN "LF" ELSE IF c = "q" /\ mark = "^" THEN "quote" ELSE c

UnescapeStep(mark, acc, c) ==
    IF acc.open THEN [open |-> FALSE, out |-> Append(acc.out, Unpair(mark, c))]
    ELSE IF c = mark THEN [acc EXCEPT !.open = TRUE]
    ELSE [acc EXCEPT !.out = Append(@, c)]

Unescape(mark, t) ==
    FoldLeft(LAMBDA acc, c : UnescapeStep(mark, acc, c), [open |-> FALSE, out |-> <<>>], t)

\* A parameter is what its quotes enclose, or what comes before a delimiter.
Parameter(t) ==
    LET quoted == t # <<>> /\ t[1] = "quote"
        ends == IF quoted THEN { i \in 2..Len(t) : t[i] = "quote" }
                          ELSE { i \in DOMAIN t : t[i] \in {";", ",", ":", "quote"} }
    IN SubSeq(t, IF quoted THEN 2 ELSE 1, Min(ends \cup {Len(t) + 1}) - 1)

Parsed == IF place = "value" THEN Unescape("\\", Unfold(lines))
                             ELSE Unescape("^", Parameter(Unfold(lines)))

\* What is meant by what was typed: the line ends made one, other controls gone.
Meant == LET kept(c) == c # "CTL" IN SelectSeq(Normalised(StringOf(typed)), kept)

TypeOK == Range(typed) \subseteq Chars /\ Len(lines) <= 1 + 3 * MaxLength

\* The reader gets back the text that was typed: nothing it holds ends a content
\* line, an escape, or a parameter before its end, where the reader stops at an
\* inner quote, and unquoted at a semicolon, a comma or a colon.
ReadsBack ==
    lines # <<>> =>
      /\ Parsed.out = Meant /\ ~Parsed.open
      /\ \A i \in DOMAIN lines : Range(lines[i]) \cap Controls = {}

\* No line is longer than the format allows, the space of a continuation
\* included, and no surrogate pair is split between two.
LinesFit ==
    \A i \in DOMAIN lines :
      /\ Width(lines[i]) <= MaxOctets
      /\ lines[i] # <<>> => Last(lines[i]) # "high"
=============================================================================
