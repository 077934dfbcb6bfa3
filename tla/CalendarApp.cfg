SPECIFICATION Spec
CONSTANTS
  None = None
  Invitee = {u}
  Hour = {a, b}
  First = a
  MaxSaves = 2
  MaxAnswers = 2
  MaxDrops = 1
  Save = {s1, s2}
  Calendar = {c1, c2, c3}
  Org = {o}
  User = {u, v, w}
  Owner = w
  Address = {a, b}
  MaxMoves = 1
  Attendee = {u, v}
  Tab = {t1, t2}
  Grace = 1
  CookieLife = 0
  MaxNow = 2
  Title = {a}
  Rule = {r1}
  LastSlot = 1
  MaxSends = 2
  PerDay = 2
  MaxSpan = 2
  MaxOffset = 1
  MaxGuests = 2
  GridMonths <- FewMonths
  GridViewers <- FewViewers
  GridEvents <- FewEvents
  MaxGridEvents = 3
  GridDay = 24
  TimeZones <- FewZones
  WallReadings <- FewReadings
  WallLengths = {0, 1, 5}
  WallTicks = 48
INVARIANTS
  CalendarsHold
  GuestsHold
  RequestsHold
  MonthHolds
  WallTimesHold
PROPERTIES
  SavesSpareWhatTheyKeep
CHECK_DEADLOCK FALSE
