SPECIFICATION FairSpec
CONSTANTS
  MaxRequests <- MCMaxRequests
  Kinds <- SomeKinds
  Made <- SomeMade
  Off = Off
INVARIANTS
  AnswersFit
  CountersFit
  JsonpFits
  ConversionsFit
PROPERTIES
  EndsInTime
CHECK_DEADLOCK FALSE
