\* Two publications at a time, two writes, a forced shutdown and a crash; one or two rows
\* in every table; one form per kind; three records and a page of three rows.
SPECIFICATION MCSpec
CONSTANTS
  p1 = p1
  e1 = e1
  c1 = c1
  c2 = c2
  a1 = a1
  a2 = a2
  k1 = k1
  u1 = u1
  u2 = u2
  s1 = s1
  s2 = s2
  m1 = m1
  m2 = m2
  Direct = Direct
  Global = Global
  All = All
  a = a
  b = b
  None = None
  Publishers = {a, b}
  MaxRevision = 2
  MaxCrashes = 1
INVARIANTS
  ErrorsLeaveNoTrace
  ReplyComesLast
  WokenSeeTheNews
  StoreAgrees
  NoHoles
PROPERTIES
  ImplementsHistory
  NoLostUpdate
CHECK_DEADLOCK FALSE
