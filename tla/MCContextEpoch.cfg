SPECIFICATION Spec
CONSTANTS
  a = a
  b = b
  Sources = {a, b}
  Removable = {a}
  Values = {v, w}
  None = None
  Unavailable = Unavailable
  Unsaid = Unsaid
  MaxSeq = 3
SYMMETRY Symmetry
INVARIANTS EpochExact RequestCurrent
PROPERTIES AdmittedKept
