\* One thread, every operation; requests fail and the path index lags, but no
\* answer is lost.
SPECIFICATION Spec
CONSTANTS
  Thread = {t1}
  Segment = {"a", "b", "c", "f"}
  Path <- Tree
  Folder <- FolderIds
  File <- FileIds
  Root = f1
  NoItem = NoItem
  Operations <- AllCalls
  MaxRetries = 1
  SettleRetries = 3
  MaxLag = 2
  Faults = {"transient"}
  f1 = f1 f2 = f2 f3 = f3 f4 = f4 f5 = f5 f6 = f6 f7 = f7 f8 = f8
  d1 = d1 d2 = d2 d3 = d3 d4 = d4 d5 = d5 d6 = d6 d7 = d7
INVARIANTS TypeOK KnownFoldersArePresent
PROPERTIES EnsureDelivers MoveDelivers MoveNotFoundIsGenuine
