SPECIFICATION Spec
CONSTANTS
  NSlots = 3
  Kinds = {k1, k2}
  Args = {a1, a2}
  Free = Free
INVARIANTS
  ArgsIntact
  KindsIntact
PROPERTIES
  EventuallyRun
  ImplementsQueue
