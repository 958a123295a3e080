\* A reply that arrives after the wallet has become active.
SPECIFICATION FairSpec
CONSTANTS
  f1 = f1
  f2 = f2
  Forms = {f1}
  MaxAttempts = 1
  Deployed = FALSE
  LostReplies = FALSE
PROPERTY CreatedThenSent
CHECK_DEADLOCK FALSE
