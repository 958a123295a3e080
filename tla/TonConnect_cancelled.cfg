\* Cancel while the wallet's state is being fetched.
SPECIFICATION Spec
CONSTANTS
  r1 = r1
  r2 = r2
  Requests = {}
  MaxLost <- MCMaxLost
PROPERTY DeclinedStays
CHECK_DEADLOCK FALSE
