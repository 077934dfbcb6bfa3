SPECIFICATION Spec
INVARIANTS
  RecurrenceHolds
  TextsHold
CHECK_DEADLOCK FALSE
