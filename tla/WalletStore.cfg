\* Two forms, two wallets, and a restart at any moment.
SPECIFICATION Spec
CONSTANTS
  f1 = f1
  f2 = f2
  w1 = w1
  w2 = w2
  Forms = {f1, f2}
  Words = {w1, w2}
  ZeroBytes = {FALSE}
  MaxKeys = 3
  MaxRestarts = 1
SYMMETRY StoreSymmetry
INVARIANTS TypeOK ListedHasKey
PROPERTIES DeletionRemoves
CHECK_DEADLOCK FALSE
