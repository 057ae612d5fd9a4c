SPECIFICATION FairSpec
CONSTANTS
  Messages <- MCMessages
  SpanLen = 1
  Pipelines = FALSE
  TimesOut = TRUE
INVARIANTS
  TypeOK
  AnswersMatch
  NoFrameLost
PROPERTIES
  EveryRequestAnswered
CHECK_DEADLOCK FALSE
