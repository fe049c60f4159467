\* Two threads; folders are renamed and moved, requests fail.
SPECIFICATION Spec
CONSTANTS
  Thread = {t1, t2}
  Name <- Names
  Path <- Paths
  Library <- Libraries
  NoLibrary = "nolibrary"
  Drive = {"d1", "d2", "d3"}
  NoDrive = "nodrive"
  DriveOf <- DriveMap
  Routes <- RouteTable
  Defaults = {"default", "nolibrary"}
  StripPrefix <- Prefix
  Pins <- PinTable
  Item <- Items
  RootOf <- Roots
  NoItem = NoItem
  Parent <- Parents
  Named <- NameTable
  Movable <- MovableItems
  Destinations <- MoveTo
  NewName = {"new"}
  Faults = {"transient"}
  Slash = "/"
  Blank = " "
  Segment <- Segments3
  Depth = 3
  Spelled <- SpelledNames
  r1 = r1 r2 = r2 r3 = r3 old = old report = report x = x home = home y = y z = z
INVARIANTS TypeOK PinsComplete ParentsBySegment RoutesBySegment AnchorsBySegment
PROPERTIES PinnedItemsReached ListRoundTrips
