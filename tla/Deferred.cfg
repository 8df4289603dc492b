SPECIFICATION Spec
CONSTANTS
  Deferreds = {d1, d2, d3}
  Fn = {f1, f2}
  MaxDeeds = 5
  Off = Off
INVARIANTS
  CallsFit
  AllAreCalled
PROPERTIES
  IsPromise
CHECK_DEADLOCK FALSE
SYMMETRY Symmetry
