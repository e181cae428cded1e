SPECIFICATION HooksSpec
CONSTANTS
  NModules = 3
  LastIn <- MCLast
  AcceptSets <- MCAcceptSets
  Intervals = {0, 2, 3}
  Reinstalls = FALSE
  MaxSteps = 9
  MaxSets = 4
INVARIANTS
  OncePerStep
  SampledInTime
CHECK_DEADLOCK FALSE
