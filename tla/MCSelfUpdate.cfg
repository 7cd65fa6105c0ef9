CONSTANTS
  Workers = {w1, w2}
  MaxVersion = 2
  FaultSets <- SmallFaultSets
SPECIFICATION FairSpec
INVARIANTS
  OneUpdate
  InstallIntact
  DisabledOnlyWhileUpdating
PROPERTIES
  NeverDowngrades
  UpdateTakesEffect
