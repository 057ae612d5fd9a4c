SPECIFICATION Spec
CONSTANTS
  Messages <- TwoGets
  SpanLen = 1
  Pipelines = TRUE
  TimesOut = FALSE
INVARIANT AnswersMatch
CHECK_DEADLOCK FALSE
