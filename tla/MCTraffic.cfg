\* A stream of two events; a conversation of two turns and three items or one turn and four; answers of five
\* chunks; six bytes of events; bodies of three fields, tried twice.
SPECIFICATION MCSpec
CONSTANTS
  MaxEvents = 2
  MaxBytes = 2
  ResponseIds = {"a", "b"}
  None = None
INVARIANTS
  SettledOnce
  MeaningIsKept
CHECK_DEADLOCK FALSE
