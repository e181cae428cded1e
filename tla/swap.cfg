SPECIFICATION FairSpec
CONSTANTS
  Procs = {p1, p2}
  FirstFiles <- MCFirst
  MaxCalls = 2
  Reqs = {1, 2, 3, 4}
  NumBlocks = 8
  Prompt <- MCPrompt
  FullLen <- MCFullLen
  Versions = {1, 2, 3, 4}
  Installs = {2, 3}
INVARIANTS
  TypeOK
PROPERTIES
  OriginalKept
  ColdestIsVictim
  AllFinish
CHECK_DEADLOCK FALSE
