SPECIFICATION Spec
CONSTANTS
  deep = deep
  summary = summary
  caption = caption
  caption2 = caption2
  local = local
  index = index
  Jobs = {deep, caption}
  Op <- MCOp
  Fps = {f1}
  Consumers = {k1}
  Modes = {"unmetered"}
  CALLBACKS = TRUE
  LANE = 1
  MAX_QUEUE = 2
  MAX_JOBS = 2
  MaxInflight = 1
  MaxAttempts = 2
  MaxFaults = 0
  None = None
INVARIANT DueRecordsLeave
