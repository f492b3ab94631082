SPECIFICATION Spec
CONSTANTS
  Fields = {"name", "unit"}
  Edits = {"name", "used"}
  TheirEdits = {"unit", "gone"}
  Values = {"a", "b"}
  MaxOps = 2
  MaxOthers = 1
  MaxTrouble = 1
  MaxEvents = 3
  Null = Null
INVARIANTS TypeOK CreatedOnce EditsAreKept
PROPERTIES QueueDrains ViewConverges
CHECK_DEADLOCK FALSE
