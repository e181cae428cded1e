SPECIFICATION Spec
CONSTANTS
  w1 = w1
  w2 = w2
  c1 = c1
  c2 = c2
  c3 = c3
  p1 = p1
  p2 = p2
  p3 = p3
  Workers = {w1, w2}
  Callers = {c1, c2}
  Places = {p1, p2, p3}
  PlacesOf <- TwoAndOne
  QueueCap = 2
  MaxTasks = 4
  FlushBetween = TRUE
  LateCallers = TRUE
  NoTask = NoTask
INVARIANTS
  TypeOK
  ExactlyOnce
PROPERTIES
  FlushIsBarrier
  ReadsLatest
