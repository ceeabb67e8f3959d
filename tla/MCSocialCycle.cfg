SPECIFICATION FairSpec
CONSTANTS
  a1 = a1
  a2 = a2
  e1 = e1
  Cycles = {c1, c2}
  Procs = {worker, web}
  Platforms <- InstagramOnly
  Crons = {worker}
  Instagram = "instagram"
  Articles = {a1, a2}
  Events = {e1}
  EventsOf <- OneEvent2
  None = None
  HangAge = 1
  MinInterval = 1
  MaxTime = 4
  MaxDisturbances = 1
CHECK_DEADLOCK FALSE
INVARIANTS SingleFlight HeartbeatHonest DuplicatesExplained
PROPERTIES NeverSilent PickedOnce
