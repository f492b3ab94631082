SPECIFICATION Spec
CONSTANTS
  Reqs = {1, 2, 3}
  Users = {1, 2}
  Tokens = {t1}
  Items = {i1}
  Hours = {0, 1, 2}
  Dates = {0, 1}
  FirstDates = {1}
  Clocks <- SomeClocks
  MaxDuring = 1
  Updates <- SomeUpdates
  FirstPrefs <- SomePrefs
  MaxRuns = 1
  MaxTrouble = 1
  MaxChanges = 1
  None = None
INVARIANTS TypeOK RunTellsExactlyTheDue AckedChangesStay CalmRunsThrough
CHECK_DEADLOCK FALSE
