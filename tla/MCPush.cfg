SPECIFICATION Spec
CONSTANTS
  d1 = d1
  d2 = d2
  d3 = d3
  u1 = u1
  u2 = u2
  a1 = a1
  n1 = n1
  Devices = {d1, d2, d3}
  Articles = {a1}
  Alerts = {n1}
  Users = {u1, u2}
  Owner <- MCOwner
  Follows <- MCFollows
  Slice = 1
  MaxFailures = 2
  Window = 2
  MaxFaults = 1
  Casts <- MCCasts
  None = None
PROPERTIES SentOnce DisabledJustified AlertTried DeadDropped
