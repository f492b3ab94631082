SPECIFICATION Spec
CONSTANTS
  Reqs = {1, 2, 3}
  Users = {u1, u2, u3}
  Callers = {u1, u2}
  Households = {h1, h2, h3}
  Starts <- SomeStarts
  MaxTrouble = 1
  None = None
  u1 = u1
  u2 = u2
  u3 = u3
  h1 = h1
INVARIANTS TypeOK AckedChangesStay CalmHouseholds
CHECK_DEADLOCK FALSE
