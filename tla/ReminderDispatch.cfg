SPECIFICATION Spec
SYMMETRY WorkerSymmetry
CONSTANTS
  Worker = {w1, w2}
  Reminder = {r1}
  Fire = {1, 2}
  Grace = 2
  Retention = 3
  Cap = 2
  SweepLife = 1
  MaxNow = 5
  MaxFaults = 2
  NoKey = NoKey
INVARIANTS TypeOK DispatchOnce OneHolder NoSilentLoss SweepCovers
PROPERTY KeepsPromise
