SPECIFICATION FairSpec
CONSTANTS
  MaxGoals = 3
  MaxSessions = 2
INVARIANT FeedbackForUndecided
PROPERTIES KeepsPromise Answered
