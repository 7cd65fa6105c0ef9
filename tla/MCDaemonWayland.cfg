CONSTANTS
  Monitors = {m1, m2}
  NoMonitor = NoMonitor
  Desktops = {d1}
  SourceIds = {s1, s2, s3}
  NoSource = NoSource
  FadeSteps = 2
  MaxEndings = 0
  MaxInFlight = 3
  MaxInputs = 7
SPECIFICATION DWSpec
SYMMETRY SourceSymmetry
\* The daemon waits for inputs, and they are bounded.
CHECK_DEADLOCK FALSE
INVARIANTS
  UpToDate
  ShownAtThePointer
PROPERTIES
  KeepsContract
