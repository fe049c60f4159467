\* Two threads that only add; requests fail and answers get lost.
SPECIFICATION FairSpec
CONSTANTS
  Thread = {t1, t2}
  Segment = {"a", "b", "c", "f"}
  Path <- ArchiveTree
  Folder <- FolderIds
  File <- FileIds
  Root = f1
  NoItem = NoItem
  Operations <- ArchiveCalls
  MaxRetries = 1
  SettleRetries = 2
  MaxLag = 0
  Faults = {"transient", "reply"}
  f1 = f1 f2 = f2 f3 = f3 f4 = f4 f5 = f5 f6 = f6 f7 = f7 f8 = f8
  d1 = d1 d2 = d2 d3 = d3 d4 = d4 d5 = d5 d6 = d6 d7 = d7
INVARIANTS KnownFoldersArePresent OnlyThrottlingFails
PROPERTIES EnsureDelivers CallsReturn
