SPECIFICATION FairSpec
CONSTANTS
  deep = deep
  summary = summary
  caption = caption
  caption2 = caption2
  local = local
  index = index
  Jobs = {caption, caption2, index}
  Op <- MCOp
  Fps = {f1}
  Consumers = {k1,k2}
  Modes = {"unmetered", "one_use", "disabled"}
  CALLBACKS = FALSE
  LANE = 1
  MAX_QUEUE = 2
  MAX_JOBS = 2
  MaxInflight = 1
  MaxAttempts = 1
  MaxFaults = 1
  None = None
INVARIANTS LedgerBound PaidAtMostOnce MaintenanceExcludesWork
PROPERTY AcceptedJobEnds
