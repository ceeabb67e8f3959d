SPECIFICATION Spec
CONSTANTS
  feed = feed
  reel = reel
  instagram = instagram
  facebook = facebook
  None = None
  Cycles = {c1, c2}
  Articles = {a1, a2}
  Surfaces <- SurfaceOrder
  Column <- ColumnOf
  Recording = {feed, instagram}
  Fetched = {instagram}
  Cap <- CapOf
  MaxPerDay = 2
  MinInterval = 1
  Day = 2
  PendingHang = 1
  CycleHang = 2
  MaxNow = 3
  MaxAbandoned = 1
  MaxDisturbances = 1
SYMMETRY Symmetry
CHECK_DEADLOCK FALSE
INVARIANTS UploadsKept PaceHolds PostsInv PostRecorded
PROPERTIES PublishedStays
