CONSTANTS
  Layouts <- SmallLayouts
  Points <- SmallPoints
  Sizes <- SmallSizes
  UpOffset = 2
  StripHeight = 1
  Reserved = 2
SPECIFICATION Spec
INVARIANTS
  OnItsMonitor
PROPERTIES
  TriggersItsMonitor
