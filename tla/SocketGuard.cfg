CONSTANTS
  Daemons = {a, b, c}
  Nobody = Nobody
  MayCrash = TRUE
  SessionBus = TRUE
SPECIFICATION FairSpec
INVARIANTS
  SingleInstance
PROPERTIES
  HookRemovesOwn
  StartAloneSucceeds
  StopReleases
  RestartComesBack
