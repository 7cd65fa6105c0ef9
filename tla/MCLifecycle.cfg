CONSTANTS
  Scripts = {s1, s2}
  Paths = {local, cargo}
  Main = local
  None = none
  MaxMishaps = 1
  MaxRemovals = 1
SPECIFICATION Spec
SYMMETRY Symmetry
CONSTRAINT Apart
INVARIANTS
  TypeOK
  Serialized
  LoginFindsBinary
  Recoverable
