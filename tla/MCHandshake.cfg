SPECIFICATION FairSpec
CONSTANTS
  Verify = TRUE
  EnableAudio = TRUE
  Accepts <- TakesAll
  LateAnswers = FALSE
  OtherSenders = 1
  MaxAttempts = 2
  MaxFaults = 2
  MissedPongs = 2
INVARIANTS AnswersThisOffer
PROPERTIES LossNoticed
