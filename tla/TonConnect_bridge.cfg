\* Two requests, and a bridge that works or fails.
SPECIFICATION FairSpec
CONSTANTS
  r1 = r1
  r2 = r2
  Requests = {r1, r2}
  MaxLost <- MCMaxLost
INVARIANTS TypeOK ListedMeansConnected TerminatedMeansGone
PROPERTIES KeepsProtocol DisconnectTakesEffect
CHECK_DEADLOCK FALSE
