CONSTANTS
  Monitors = {m1, m2}
  NoMonitor = NoMonitor
  Desktops = {d1, d2}
  SourceIds = {s1, s2, s3}
  NoSource = NoSource
  FadeSteps = 2
  MaxEndings = 2
SPECIFICATION FairSpec
INVARIANTS
  TypeOK
  CellsOwnTheirSources
  TimersMatchPointer
  NeverStuckTranslucent
  EscGrabbedIffVisible
  OnCurrentWorkspace
PROPERTIES
  KeepsPromise
  ComesToRest
  StopEndsDaemon
