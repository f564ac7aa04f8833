SPECIFICATION Spec
CONSTANTS
  Jobs = {j1, j2, j3, j4, j5}
  Cameras = {c1, c2}
  Eligible = {c1, c2}
  Procs = {p1, p2}
  None = None
  Times <- MCTimes
  HOUR = 2
  RETENTION = 4
  LIMIT = 2
  FAIR_HEADROOM = 1
  MAX_RECORDS = 5
SYMMETRY MCSymmetry
INVARIANTS RollingLimit ReplayWindow JournalReadable JournalNeverFull HeadroomHeld
PROPERTY ImplementsPermits
