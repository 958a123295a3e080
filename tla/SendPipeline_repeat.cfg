SPECIFICATION FairSpec
CONSTANTS
  f1 = f1
  f2 = f2
  Forms = {f1, f2}
  MaxAttempts = 2
  Deployed = FALSE
  LostReplies = FALSE
INVARIANTS
  TypeOK
  DoneMeansPaid
  PaidOnce
PROPERTIES
  WaitEnds
CHECK_DEADLOCK FALSE
