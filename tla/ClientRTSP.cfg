SPECIFICATION Spec
CONSTANTS
  Media = {m1, m2}
  Stream = {video, audio}
  StreamsOf <- SoundOfOne
  MaxPlays = 2
  MaxStrays = 0
  NULL = NULL
  video = video
  audio = audio
INVARIANTS
  HandshakeFits
  OwnResponsesFit
  SuccessIsComplete
CHECK_DEADLOCK FALSE
