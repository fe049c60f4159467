\* Two writers that write, upload and update one file; every kind of fault.
SPECIFICATION FairUpdateSpec
CONSTANTS
  Writer = {w1, w2}
  Sizes = {1, 3, 5, 6}
  SingleLimit <- Limits
  ChunkSize <- Chunks
  NoFile = NoFile
  Stale = Stale
  MaxRetries = 1
  Faults = {"throttled", "connection", "reply"}
INVARIANTS TypeOK UpdateTypeOK FilesAreWhole ChunksAreFull
PROPERTIES WriteDelivers RefusedWriteStoredNothing WritesReturn GraphLosesNoUpdate ConflictIsGenuine UpdatesReturn ImplementsSharedFile
