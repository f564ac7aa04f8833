SPECIFICATION Spec
CONSTANTS
  deep = deep
  summary = summary
  caption = caption
  caption2 = caption2
  local = local
  index = index
  Jobs = {deep, summary}
  Op <- MCOp
  Fps = {f1, f2}
  Consumers = {k1}
  Modes = {"metered", "one_use"}
  CALLBACKS = TRUE
  LANE = 1
  MAX_QUEUE = 1
  MAX_JOBS = 2
  MaxInflight = 2
  MaxAttempts = 2
  MaxFaults = 1
  None = None
SYMMETRY MCSymmetry
INVARIANTS  ExecutedHasGuard OneInputPerIdentity CallbackAtMostOnce OutcomeTellsCallback RolloverNeverStuck PaidAtMostOnce
PROPERTY NoReplayUndecided
