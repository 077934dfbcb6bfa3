SPECIFICATION Spec
CONSTANTS
  OneOff = {e1}
  Series = {s1}
  Slot = {1, 2}
  Instant = {1, 2, 3}
  Grace = 2
  Cap = 3
  MaxNow = 3
  MaxEdits = 2
  MaxPassed = 3
  None = None
INVARIANT OncePerMeeting
