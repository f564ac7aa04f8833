SPECIFICATION Spec
CONSTANTS
  k1 = k1
  k2 = k2
  w1 = w1
  w2 = w2
  w3 = w3
  t1 = t1
  t2 = t2
  Consumers <- MCConsumers
  Work <- MCWork
  Owner <- MCOwner
  Writers = {m1, m2}
  Inodes = {i1, i2}
  Transactions <- MCTransactions
  Idle = Idle
  Torn = Torn
  None = None
SYMMETRY MCSymmetry
INVARIANTS UnresolvedBlocksWork NoEffectDuringWork EffectUnderIntent
PROPERTY IntentSurvives
