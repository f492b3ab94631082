SPECIFICATION Spec
CONSTANTS
  Reqs = {r1,r2}
  Users = {u1}
  Keys = {k1,k2}
  Items = {i1,i2}
  Names = {flour}
  Units = {"g"}
  Quantities = {1,2}
  MaxWrites = 2
  MaxFail = 1
  None = None
  r1 = r1
  r2 = r2
  u1 = u1
  k1 = k1
  k2 = k2
  i1 = i1
  i2 = i2
  flour = flour
  NameOf <- OneName
  Rank <- ByExpiry
  BaseUnit <- Base
  Factor <- Factors
  Menus <- TwoMenus
SYMMETRY Interchangeable
INVARIANT ReservedWithinMost
INVARIANT Inv
CHECK_DEADLOCK FALSE
