SPECIFICATION FairSpec
CONSTANTS
  None = None
  Reqs = {r1, r2}
  Ops = {"create", "update", "status", "delete", "undo"}
  Users = {u1}
  Items = {i1}
  Keys = {k1, k2}
  Contents = {c1, c2}
  Statuses = {"active", "used"}
  Versions = {1}
  Seeded = {i1}
  Reservable = {i1}
  MaxInFlight = 2
  MaxFail = 1
CHECK_DEADLOCK FALSE
INVARIANTS AckedIsLogged RefusedHasNoEffect PublishedIsLogged EventsReportCommittedStates RetryAfterAckIsReplayed Inv
PROPERTIES ChangeReachesMembers
