SPECIFICATION Spec
CONSTANTS
  Subs = {s1}
  Runs = {r1, r2}
  After <- MCAfter
  Before <- MCBefore
  OnePerDay = 1
  Day = 2
  Fires <- MCFires
  MaxAsks = 3
  MaxFaults = 1
  None = None
INVARIANTS MailInv
PROPERTIES MailedOnce ReaderServed
