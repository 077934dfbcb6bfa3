SPECIFICATION Spec
SYMMETRY Symmetry
CONSTANTS
  Actor = {a1, a2}
  Sid = {s1, s2}
  Horizon = 3
  Rules <- RaceRules
  Starts = {0, 1}
  Ops = {"all", "this", "split", "skip", "truncate", "delete", "exdate", "rdate"}
  EarlyDates = TRUE
  MovedSplits = FALSE
  MaxAsks = 3
  Nothing = Nothing
INVARIANT OverridesCarryTheirUid
PROPERTY RacesSpareTheSeries
CHECK_DEADLOCK FALSE
