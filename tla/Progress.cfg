SPECIFICATION ProgressSpec
CONSTANTS
  Stream = {n1, n2, n3}
  Conn = {c1, c2, c3, c4}
  MaxFaults = 3
  NoConn = NoConn
  Worker = {w1, w2}
  Job = {j1}
  Sub = {s1, s2}
  RetryLimit = 2
  MaxCrashes = 2
  NoJob = NoJob
  Reminder = {r1}
  Fire = {1}
  Grace = 2
  Retention = 3
  Cap = 2
  SweepLife = 1
  MaxNow = 3
  MaxSweepFaults = 2
  NoKey = NoKey
INVARIANTS
  BusHolds
  QueueHolds
PROPERTIES
  KeepsListening
  QueueKeepsPromise
  WorkGetsDone
CHECK_DEADLOCK FALSE
