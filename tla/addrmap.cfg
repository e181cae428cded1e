SPECIFICATION Spec
CONSTANTS
  k1 = k1
  k2 = k2
  k3 = k3
  k4 = k4
  k5 = k5
  Keys = {k1, k2, k3, k4, k5}
  Home <- Homes
  InitCap = 4
  MaxCap = 8
  Empty = Empty
  Deleted = Deleted
INVARIANTS
  TypeOK
  ProbesEnd
PROPERTIES
  IndexSpec
