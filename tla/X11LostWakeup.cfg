CONSTANTS
  Monitors = {m1}
  NoMonitor = NoMonitor
  Desktops = {d1}
  NoDesktop = d1
  SourceIds = {s1, s2}
  NoSource = NoSource
  FadeSteps = 1
  MaxEndings = 0
  MaxInFlight = 3
  MaxInputs = 3
SPECIFICATION DXFairSpec
CHECK_DEADLOCK FALSE
PROPERTIES
  EveryEventDispatched
