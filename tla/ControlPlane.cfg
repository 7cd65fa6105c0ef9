CONSTANTS
  Daemons = {a, b}
  Nobody = Nobody
  MayCrash = TRUE
  SessionBus = TRUE
  Clients = {c1}
  Retries = 3
SPECIFICATION CFairSpec
\* Clients are invoked once; with all of them through, a daemon may idle.
CHECK_DEADLOCK FALSE
INVARIANTS
  FailureMeansNotDone
PROPERTIES
  EveryClientEnds
  WrittenIsDone
