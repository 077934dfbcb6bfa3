SPECIFICATION Spec
SYMMETRY SidSymmetry
CONSTANTS
  Actor = {a1}
  Sid = {s1, s2}
  Horizon = 4
  Rules <- AllRules
  Starts = {0, 1}
  Ops = {"all", "this", "split", "skip", "truncate", "delete", "rdate"}
  EarlyDates = FALSE
  MovedSplits = FALSE
  MaxAsks = 3
  Nothing = Nothing
INVARIANTS TypeOK EndCovers OverridesFollowTheirMaster NoPhantom
PROPERTIES SequenceRises DoesWhatItSays
CHECK_DEADLOCK FALSE
