CONSTANTS
  Calls = {c1, c2, c3}
  None = None
  Wild = Wild
SPECIFICATION Spec
SYMMETRY Symmetry
INVARIANTS
  UndisturbedAlone
  ReleasedAlone
CHECK_DEADLOCK FALSE
