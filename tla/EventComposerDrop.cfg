SPECIFICATION Spec
CONSTANTS
  LastSlot = 1
  Title = {a}
  Rule = {r1}
  Unset = Unset
  MaxSends = 2
INVARIANT NoSilentDrop
CHECK_DEADLOCK FALSE
