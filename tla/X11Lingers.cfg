CONSTANTS
  Monitors = {m1}
  NoMonitor = NoMonitor
  Desktops = {d1, d2, NoDesktop}
  NoDesktop = NoDesktop
  SourceIds = {s1, s2, s3}
  NoSource = NoSource
  FadeSteps = 1
  MaxEndings = 0
  MaxInFlight = 3
  MaxInputs = 3
SPECIFICATION DXSpec
CHECK_DEADLOCK FALSE
INVARIANTS
  NeverLingers
