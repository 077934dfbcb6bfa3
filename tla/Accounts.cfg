SPECIFICATION Spec
CONSTANTS
  None = None
  Address = {a, b, c}
  First = a
  Browser = {t1, t2}
  MaxLinks = 6
  MaxFaults = 1
  User = {u, v}
  Root = u
  MaxTokens = 4
  MaxHops = 4
  Org = {o1, o2}
  MaxSwitches = 4
  Person = {u, v}
  MaxMembers = 2
  MaxInvites = 2
  MaxCalls = 2
  File = {f1, f2, f3}
  Row = {f1}
  Post = {f2}
  Team = {o1}
  MaxExports = 2
  Tab = {t1, t2}
  MaxMade = 3
  MaxReloads = 1
  MaxSessions = 3
  MaxKeys = 2
  Name = {a, b}
INVARIANTS
  EmailHolds
  AccessHolds
  PagesHold
  FilesHold
  CardsHold
CHECK_DEADLOCK FALSE
