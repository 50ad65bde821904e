\* Two requests and the scan, one published token version after the first, one failed try.
SPECIFICATION Spec
CONSTANTS
  r1 = r1
  r2 = r2
  Requests = {r1, r2}
  Scanner = Scanner
  MaxVersion = 2
  MaxTries = 1
  None = None
PROPERTY RejectionsStick
CHECK_DEADLOCK FALSE
