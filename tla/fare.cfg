SPECIFICATION Spec
CONSTANTS
  u1 = u1
  u2 = u2
  c1 = c1
  c2 = c2
  v1 = v1
  v2 = v2
  Users = {u1, u2}
  Calls = {c1, c2}
  Previews = {v1, v2}
  Packages = {"van", "luxury"}
  Routes <- TwoRoutes
  NoRoute = noroute
  None = none
  Limit = 1
  MaxFaults = 1
SYMMETRY FareSymmetry
INVARIANTS
  RefusedWasSuperseded
PROPERTIES
  KeepsOffer
CHECK_DEADLOCK FALSE
