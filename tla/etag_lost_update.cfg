\* Small writes without a fault are enough.
SPECIFICATION UpdateSpec
CONSTANTS
  Writer = {w1, w2}
  Sizes = {0, 1}
  SingleLimit <- Limits
  ChunkSize <- Chunks
  NoFile = NoFile
  Stale = Stale
  MaxRetries = 0
  Faults = {}
PROPERTY NoUpdateIsLost
