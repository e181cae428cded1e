SPECIFICATION FairSpec
CONSTANTS
  w1 = w1
  w2 = w2
  c1 = c1
  c2 = c2
  c3 = c3
  p1 = p1
  p2 = p2
  p3 = p3
  Workers = {w1}
  Callers = {c1, c2, c3}
  Places = {p1, p2, p3}
  PlacesOf <- OneForEach
  QueueCap = 1
  MaxTasks = 3
  FlushBetween = TRUE
  LateCallers = TRUE
  NoTask = NoTask
CHECK_DEADLOCK FALSE
PROPERTIES
  CallsReturn
