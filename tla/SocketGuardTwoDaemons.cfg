CONSTANTS
  Daemons = {a, b, c}
  Nobody = Nobody
  MayCrash = FALSE
  SessionBus = TRUE
SPECIFICATION Spec
INVARIANTS
  NeverTwoDaemons
