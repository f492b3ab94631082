SPECIFICATION Spec
CONSTANTS
  Reqs = {1}
  Users = {1, 2}
  Tokens = {t1}
  Items = {i1}
  Hours = {0, 1, 2}
  Dates = {0, 1}
  FirstDates = {1}
  Clocks <- SomeClocks
  MaxDuring = 1
  Updates <- SomeUpdates
  FirstPrefs <- SomePrefs
  MaxRuns = 1
  MaxTrouble = 0
  MaxChanges = 0
  None = None
INVARIANT DefaultsRemind
CHECK_DEADLOCK FALSE
