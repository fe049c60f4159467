\* An adapter each, but checkin is called again after it raised.
SPECIFICATION Spec
CONSTANTS
  Worker = {"a", "b"}
  Instance = {"a", "b"}
  InstanceOf <- OwnAdapter
  NoLock = NoLock
  Faults = {"request", "reply"}
  RetryCheckin = TRUE
  MaxRestarts = 0
PROPERTIES OnlyHolderReleases
