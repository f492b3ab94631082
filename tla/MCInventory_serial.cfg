SPECIFICATION Spec
CONSTANTS
  None = None
  Reqs = {r1, r2, r3}
  Ops = {"create", "update", "status", "delete", "undo"}
  Users = {u1, u2}
  Items = {i1, i2}
  Keys = {k1, k2, k3}
  Contents = {c1, c2}
  Statuses = {"active", "used"}
  Versions = {1, 2}
  Seeded = {i1}
  Reservable = {}
  MaxInFlight = 1
  MaxFail = 0
CHECK_DEADLOCK FALSE
SYMMETRY Symmetric
PROPERTIES VersionsGrow ImplementsAtomicInventory
