SPECIFICATION FairSpec
CONSTANTS
  Client = {c1}
  Media = {m1, m2}
  Title = {t1}
  Stream = {video, audio}
  IdPeriod = 2
  MaxSessions = 2
  TitleOf <- SameTitle
  StreamsOf <- SoundOfOne
  NULL = NULL
  t1 = t1
  video = video
  audio = audio
INVARIANTS
  SessionsFit
PROPERTIES
  AnswersFitTheRegistry
  RequestsAreAnswered
CHECK_DEADLOCK FALSE
