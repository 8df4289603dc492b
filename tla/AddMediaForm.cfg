SPECIFICATION Spec
CONSTANTS
  Forms <- SomeForms
  Format <- AllFormats
  FirstFormat = "H264_Video_Audio"
  Typed <- SomeTexts
  None = None
INVARIANTS
  ShownFits
  ReportedFieldsTellTheTruth
  AnswersAreAwaited
  SentFits
CHECK_DEADLOCK FALSE
