SPECIFICATION FairSpec
CONSTANTS
  Elements = {e1}
  MaxAnims <- MCMaxAnims
  MaxLength <- MCMaxLength
  MaxStops <- MCMaxStops
  Prog = Prog
  Off = Off
INVARIANTS
  TimersFit
  QueueFits
PROPERTIES
  PromiseKept
  ClockStops
CHECK_DEADLOCK FALSE
