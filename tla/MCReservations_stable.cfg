SPECIFICATION Spec
CONSTANTS
  Reqs = {r1,r2,r3}
  Users = {u1,u2}
  Keys = {k1,k2}
  Items = {i1,i2}
  Names = {flour}
  Units = {"g","kg","ml"}
  Quantities = {1,2}
  MaxWrites = 0
  MaxFail = 0
  None = None
  r1 = r1
  r2 = r2
  r3 = r3
  u1 = u1
  u2 = u2
  k1 = k1
  k2 = k2
  i1 = i1
  i2 = i2
  flour = flour
  NameOf <- OneName
  Rank <- ByExpiry
  BaseUnit <- Base
  Factor <- Factors
  Menus <- GramMenus
SYMMETRY Interchangeable
INVARIANT ListIsExact
INVARIANT ExpiringFirst
INVARIANT AckedPlanKept
CHECK_DEADLOCK FALSE
