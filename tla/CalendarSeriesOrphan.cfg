SPECIFICATION Spec
SYMMETRY Symmetry
CONSTANTS
  Actor = {a1, a2}
  Sid = {s1, s2}
  Horizon = 5
  Rules <- EndingRules
  Starts = {0, 1}
  Ops = {"this", "delete"}
  EarlyDates = FALSE
  MovedSplits = FALSE
  MaxAsks = 2
  Nothing = Nothing
INVARIANT OverridesFollowTheirMaster
CHECK_DEADLOCK FALSE
