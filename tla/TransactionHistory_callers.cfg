\* One panel, the load button and the support panel on one wallet.
SPECIFICATION FairSpec
CONSTANTS
  p1 = p1
  Panels = {p1}
  Background = {"button", "support"}
  PageSize = 2
  History = 2
  MaxTx = 4
  MaxBurst = 2
  QueriesFail = TRUE
INVARIANTS TypeOK WalletListOrdered NoHoles RequestsInv PanelListOrdered PanelShowsWalletTransactions
PROPERTIES OnlyGrows PanelMatchesWallet RequestsEnd WalletCatchesUp
