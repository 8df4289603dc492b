SPECIFICATION FairOrbitSpec
CONSTANTS
  MaxSlides = 4
  Turn <- ShortTurn
  Clock = {c1, c2}
  Nothing = Nothing
INVARIANTS
  OneSlideOneClock
PROPERTIES
  PressesSeenOrLeft
  NeverStuck
