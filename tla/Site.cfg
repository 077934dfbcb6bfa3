SPECIFICATION Spec
CONSTANTS
  None = None
  Payer = {u, o}
  Sub = {s1, s2}
  Handler = {h}
  MaxEvents = 3
  MaxFaults = 1
  Post = {x}
  Author = {u, m}
  Org = {o}
  Call = {c1, c2}
  Title = {t}
  Manager = m
  MaxOutages = 1
  MaxVersion = 2
  Entry = {x, y}
  Mutation = {c1, c2}
  Draft = t
  MaxRows = 3
  PageSize = 1
  MaxDrops = 1
  MaxMarks = 1
  Mailbox = {x, y}
  Case = {u, o}
  Lower = o
  Notice = {s1, s2}
  Key = {x, y}
  Limit = 2
  Window = 2
  PruneEvery = 1
  MaxNow = 4
  MaxAsks = 3
  OneOff = {x}
  Series = {s1}
  Slot = {1, 2}
  Instant = {1, 2, 3}
  Grace = 2
  Cap = 3
  MaxClock = 3
  MaxEdits = 2
  MaxPassed = 1
  Doc = {x, y}
  MaxRuns = 3
  MaxAdopts = 1
  Database = {x, y}
  Main = x
  Scratch = y
  Table = {t, m}
  Console = {c1, c2}
  MaxStamp = 2
  MaxWrites = 1
  MaxKills = 1
INVARIANTS
  BillingHolds
  PostsHold
  CachesHold
  DeliveryHolds
  DueIsExact
  ToolsRest
PROPERTIES
  ToolsSpare
CHECK_DEADLOCK FALSE
