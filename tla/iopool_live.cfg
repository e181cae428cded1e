SPECIFICATION FairSpec
CONSTANTS
  w1 = w1
  w2 = w2
  c1 = c1
  c2 = c2
  c3 = c3
  p1 = p1
  p2 = p2
  p3 = p3
  Workers = {w1, w2}
  Callers = {c1, c2}
  Places = {p1, p2}
  PlacesOf <- OneForEach
  QueueCap = 1
  MaxTasks = 3
  FlushBetween = TRUE
  LateCallers = FALSE
  NoTask = NoTask
PROPERTIES
  TasksComplete
  CallsReturn
  DestroyReturns
