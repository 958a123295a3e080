\* A form besides the refresh, a lagging server, outages and one restart.
SPECIFICATION FairSpec
CONSTANTS
  Forms = {"form"}
  KeyBlocks = {1, 2, 4}
  InitBlock = 2
  Bundled <- BundledState
  MaxBlock = 5
  MaxRestarts = 1
  SavesFail = FALSE
  Patient = TRUE
INVARIANTS TypeOK KeyIsNewest
PROPERTIES IsRegister ReadsForward RefreshEnds WalletCatchesUp
CHECK_DEADLOCK FALSE
