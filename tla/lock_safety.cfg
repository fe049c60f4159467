\* Three services with an adapter each, every kind of fault.
SPECIFICATION Spec
CONSTANTS
  Worker = {"a", "b", "c"}
  Instance = {"a", "b", "c"}
  InstanceOf <- OwnAdapter
  NoLock = NoLock
  Faults = {"request", "reply", "crash"}
  RetryCheckin = FALSE
  MaxRestarts = 1
INVARIANTS TypeOK MutualExclusion HoldersOwnLock
PROPERTIES OnlyHolderReleases ImplementsExclusiveLock
