CONSTANTS
  Monitors = {m1, m2}
  NoMonitor = NoMonitor
  Desktops = {d1, d2, NoDesktop}
  NoDesktop = NoDesktop
  SourceIds = {s1, s2, s3}
  NoSource = NoSource
  FadeSteps = 1
  MaxEndings = 0
  MaxInFlight = 3
  MaxInputs = 5
SPECIFICATION DXSpec
SYMMETRY Symmetry
\* The daemon waits for inputs, and they are bounded.
CHECK_DEADLOCK FALSE
INVARIANTS
  GlueConsistent
  FollowsThePointer
  UpToDateWhenDrained
PROPERTIES
  KeepsContract
  KeepsPromise
