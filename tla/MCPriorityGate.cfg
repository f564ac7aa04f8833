SPECIFICATION Spec
CONSTANTS
  u1 = u1
  u2 = u2
  c1 = c1
  c2 = c2
  Tasks <- MCTasks
  Prio <- MCPrio
  CAPACITY = 2
  MaxEntries = 3
INVARIANTS SlotsAccounted NoIdleSlot
PROPERTIES ServedInOrder UrgentServed
