CONSTANTS
  j1 = j1
  j2 = j2
  j3 = j3
  a = a
  b = b
  q = q
  r = r
  n1 = n1
  n2 = n2
  p1 = p1
  p2 = p2
  k = k
  Jobs = {j1, j2}
  Slugs = {a, b}
  Queues = {q, r}
  Nodes = {n1, n2}
  Pollers = {p1, p2}
  Home <- TwoHomes
  Slug <- SlugOf
  Queue <- QueueOf
  Prio <- PrioOf
  MaxAttempts <- MaxOf
  UniqueKey <- Keyed
  NoKey = NoKey
  Defined = {a, b}
  ImageSlug = a
  SlugCap <- CapA
  QueueCap <- NoCap
  MaxConcurrent = 2
  Backend = "postgres"
  Faults = {"timeout", "stop", "db"}
SPECIFICATION Spec
INVARIANTS OneExecutionPerAttempt
CHECK_DEADLOCK FALSE
