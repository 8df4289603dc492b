SPECIFICATION FairServiceSpec
CONSTANTS
  Thread = {t1, t2, t3}
  Peer = {c1}
  MaxStacks = 5
INVARIANTS
  ServesWhenQuiet
  KeepsTrack
PROPERTIES
  RequestsEnd
