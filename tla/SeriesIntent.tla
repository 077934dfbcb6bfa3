----------------------------- MODULE SeriesIntent -----------------------------
(***************************************************************************)
(* What the scoped writes of a repeating event promise the person making   *)
(* them, in terms of what the grid then shows: a "this" edit moves one     *)
(* occurrence, a skip removes one, a cut removes a tail, a split hands the *)
(* tail to another series and loses nothing, a deletion removes all.       *)
(* The comments above updateEvent, splitSeries, deleteEvent and            *)
(* setRecurrenceDate in apps/web/src/server/actions/calendar.ts.           *)
(***************************************************************************)
EXTENDS Integers

CONSTANTS Sid, Slot, Nothing

VARIABLES
  plain,    \* plain[s]: slots s shows as its rule or an added date puts them
  moved,    \* moved[s]: slots s shows as edited occurrences
  skipped,  \* skipped[s]: slots of s the user has skipped
  did       \* the write that was just done, or Nothing

vars == <<plain, moved, skipped, did>>

Init ==
  /\ plain \in [Sid -> SUBSET Slot]
  /\ moved = [s \in Sid |-> {}]
  /\ skipped = [s \in Sid |-> {}]
  /\ did = Nothing

Below(S, c) == {t \in S : t < c}
From(S, c) == {t \in S : t >= c}

\* Set what series s shows and skips.
Shows(s, p, m, k) ==
  /\ plain' = [plain EXCEPT ![s] = p]
  /\ moved' = [moved EXCEPT ![s] = m]
  /\ skipped' = [skipped EXCEPT ![s] = k]

Same == UNCHANGED <<plain, moved, skipped>>

\* "all", or a new event: either the series is as it was, or its occurrences
\* are new ones, none of them edited or skipped.
Define(s) ==
  /\ did'.op = "all"
  /\ \/ Same
     \/ /\ plain' \in [Sid -> SUBSET Slot]
        /\ Shows(s, plain'[s], {}, {})

MoveOne(s, c) ==
  /\ did'.op = "this" /\ c \in plain[s] \union moved[s]
  /\ Shows(s, plain[s] \ {c}, moved[s] \union {c}, skipped[s])

SkipOne(s, c) ==
  /\ did'.op \in {"skip", "exdate"}
  /\ Shows(s, plain[s] \ {c}, moved[s] \ {c}, skipped[s] \union {c})

\* A date once skipped stays skipped: EXDATE wins over RDATE.
AddOne(s, c) ==
  /\ did'.op = "rdate"
  /\ Shows(s, (plain[s] \union {c}) \ (moved[s] \union skipped[s]), moved[s], skipped[s])

Truncate(s, c) ==
  /\ did'.op = "truncate"
  /\ Shows(s, Below(plain[s], c), Below(moved[s], c), Below(skipped[s], c))

\* The tail goes to n, a series that showed nothing; a split with nothing
\* before it is an edit of the whole series, here one that changes nothing.
Split(s, n, c) ==
  /\ did'.op = "split"
  /\ \/ Below(plain[s], c) = {} /\ Same
     \/ /\ n # s /\ plain[n] = {} /\ moved[n] = {}
        /\ plain' = [plain EXCEPT ![s] = Below(@, c), ![n] = From(plain[s], c)]
        /\ moved' = [moved EXCEPT ![s] = Below(@, c), ![n] = From(moved[s], c)]
        /\ skipped' = [skipped EXCEPT ![s] = Below(@, c), ![n] = From(skipped[s], c)]

Delete(s) == did'.op = "delete" /\ Shows(s, {}, {}, {})

Write(s, c) ==
  \/ Define(s) \/ MoveOne(s, c) \/ SkipOne(s, c) \/ AddOne(s, c)
  \/ Truncate(s, c) \/ Delete(s)
  \/ \E n \in Sid : Split(s, n, c)

Forget == did' = Nothing /\ Same

Next ==
  \/ did' # Nothing /\ Write(did'.sid, did'.slot)
  \/ Forget

Spec == Init /\ [][Next]_vars
================================================================================
