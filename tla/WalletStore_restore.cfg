\* A wallet is created, exported, deleted and imported from its file.
SPECIFICATION Spec
CONSTANTS
  f1 = f1
  f2 = f2
  w1 = w1
  w2 = w2
  Forms = {f1}
  Words = {w1}
  ZeroBytes = {TRUE, FALSE}
  MaxKeys = 2
  MaxRestarts = 0
INVARIANT ListedOpens
CHECK_DEADLOCK FALSE
