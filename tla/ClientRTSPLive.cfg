SPECIFICATION FairSpec
CONSTANTS
  Media = {m1}
  Stream = {video, audio}
  StreamsOf <- VideoOnly
  MaxPlays = 2
  MaxStrays = 1
  NULL = NULL
  video = video
  audio = audio
PROPERTIES
  RequestsInOrder
  PlaysEnd
  PlayMediaReturns
CHECK_DEADLOCK FALSE
