SPECIFICATION Spec
CONSTANTS
  Depth <- MCDepth
  Types = {"click", "focusin", "keyup"}
  Fn = {f, g}
  Spaced = {g}
  MaxDeeds <- MCMaxDeeds
  WithPublic = {1}
  Off = Off
INVARIANTS
  DataFits
  CallsFit
PROPERTIES
  AllBoundAreCalled
CHECK_DEADLOCK FALSE
