\* Two threads on one adapter and another service, no faults.
SPECIFICATION FairSpec
CONSTANTS
  Worker = {"a1", "a2", "b1"}
  Instance = {"a", "b"}
  InstanceOf <- SharedAdapter
  NoLock = NoLock
  Faults = {}
  RetryCheckin = TRUE
  MaxRestarts = 0
INVARIANTS LockHasHolder
PROPERTIES LockEventuallyFreed
