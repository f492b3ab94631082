SPECIFICATION Spec
CONSTANTS
  None = None
  Reqs = {r1, r2}
  Ops = {"update", "status"}
  Users = {u1}
  Items = {i1}
  Keys = {k1, k2}
  Contents = {c1, c2}
  Statuses = {"active", "used"}
  Versions = {1}
  Seeded = {i1}
  Reservable = {}
  MaxInFlight = 2
  MaxFail = 0
CHECK_DEADLOCK FALSE
INVARIANTS NoLostUpdate
