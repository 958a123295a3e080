\* One viewer, no failing query: is every new transaction shown?
SPECIFICATION FairSpec
CONSTANTS
  p1 = p1
  Panels = {p1}
  Background = {}
  PageSize = 3
  History = 2
  MaxTx = 4
  MaxBurst = 3
  QueriesFail = FALSE
PROPERTY AddedInRealTime
