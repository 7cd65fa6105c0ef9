CONSTANTS
  Positions = {p1, p2}
  NoPosition = NoPosition
  Corner = Corner
  Checks = 3
  MaxDrops = 1
  MaxRequests = 5
  MaxShows = 3
SPECIFICATION FairSpec
\* Shows are bounded.
CHECK_DEADLOCK FALSE
INVARIANTS
  EndsInPlace
PROPERTIES
  StaysInPlace
  ComesToPlace
