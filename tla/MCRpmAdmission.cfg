\* A window of two ticks and limits of one and two; three admissions of two routes.
SPECIFICATION MCSpec
CONSTANTS
  f1 = f1
  n1 = n1
  r1 = r1
  r2 = r2
  None = None
  Requests = {f1, n1}
  FixedRequests = {f1}
  Limits = {1, 2}
  Routes = {r1, r2}
  Configs <- AllChanges
  Window = 2
  MaxTime = 2
  MaxReservations = 3
  MaxIncarnations = 3
INVARIANTS
  RollingWindow
  InFlightExact
  OnlyCurrentRouteStarts
PROPERTIES
  FixedSlotsKept
  StartedKeepsSlot
CHECK_DEADLOCK FALSE
