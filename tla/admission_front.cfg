SPECIFICATION FairSpec
CONSTANTS
  x1 = x1  x2 = x2  w1 = w1
  Reviews = {x1, x2}
  Workers = {w1}
  Samples <- Reviewed
  FilterLabel <- Filter
  FailedLabel <- Failure
  FalseValues <- Spellings
  IgnorePatterns <- Configured
  SystemPatterns <- BuiltIn
  Budget <- Once
INVARIANTS TypeOK OnlyStealableOffered FallbackOnlyOnFailure ReadyIsSetUp
PROPERTIES EveryReviewAnswered StealerListens
CHECK_DEADLOCK FALSE
