SPECIFICATION FairJobSpec
CONSTANTS
  Names = {n1}
  Dispatches = {d1, d2}
  Workers = {w1}
  MaxStalled = 1
  MaxWire = 2
  MaxCrashes = 1
  NoOne = NoOne
INVARIANTS QueueInv
PROPERTIES DispatchKept NoDeadSingleton
