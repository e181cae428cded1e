SPECIFICATION HooksSpec
CONSTANTS
  NModules = 3
  LastIn <- MCLast
  AcceptSets <- MCAcceptSets
  Intervals = {0, 2, 3}
  Reinstalls = TRUE
  MaxSteps = 9
  MaxSets = 4
INVARIANT
  OncePerStep
CHECK_DEADLOCK FALSE
