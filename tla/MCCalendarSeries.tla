--------------------------- MODULE MCCalendarSeries ---------------------------
EXTENDS CalendarSeries, TLC

Open == [kind |-> "open", at |-> 0]
Count3 == [kind |-> "count", at |-> 3]
Until3 == [kind |-> "until", at |-> 3]
Count2 == [kind |-> "count", at |-> 2]

RaceRules == {Open, Count2, Nothing}
AllRules == {Open, Until3, Count2, Count3, Nothing}
EndingRules == {Until3, Count2}

SidSymmetry == Permutations(Sid)
Symmetry == Permutations(Sid) \union Permutations(Actor)
================================================================================
