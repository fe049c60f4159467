\* The threads of one service share its adapter: no faults are needed.
SPECIFICATION Spec
CONSTANTS
  Worker = {"a1", "a2", "b1"}
  Instance = {"a", "b"}
  InstanceOf <- SharedAdapter
  NoLock = NoLock
  Faults = {}
  RetryCheckin = FALSE
  MaxRestarts = 0
INVARIANTS MutualExclusion
