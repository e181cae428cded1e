SPECIFICATION Spec
CONSTANTS
  Procs = {p1, p2}
  FirstFiles <- MCUpgrade
  MaxCalls = 2
  Reqs = {1, 2, 3, 4}
  NumBlocks = 8
  Prompt <- MCPrompt
  FullLen <- MCFullLen
  Versions = {1, 2, 3, 4}
  Installs = {2, 3}
PROPERTY
  OriginalKept
CHECK_DEADLOCK FALSE
