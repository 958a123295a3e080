------------------------ MODULE TransactionHistory ------------------------
(***************************************************************************)
(* The transaction history of one TON wallet: how Wallet.GetTransactions   *)
(* (Complex.Wallets/Wallets/Wallet.cs) fetches pages from the lite server  *)
(* and merges them into the wallet's list, and how every TransactionPanel  *)
(* (Complex.Wallets/Components/TransactionPanel.cs) that shows the wallet  *)
(* asks for pages and applies the results.                                 *)
(*                                                                         *)
(* A transaction is its position in the account's chain of transactions    *)
(* (TonTransaction.CompareTo orders by logical time), so 1 is the oldest   *)
(* one, and 0 stands for the null reference.  A page is a run of           *)
(* consecutive positions, written down from its newest to its oldest.      *)
(*                                                                         *)
(* Threads.  The adapter's SingleThread refreshes the wallet and raises    *)
(* the events; the UI thread scrolls, opens panels and ends updates; pool  *)
(* threads (Application.Run) execute the requests; the answers are handled *)
(* one after the other on the SingleThread "GetTransactionsQuery".         *)
(***************************************************************************)
EXTENDS Integers, Sequences, TLC

CONSTANTS
  Panels,      \* the transaction panels that may show the wallet
  Background,  \* the other callers of GetTransactions: "button", "support"
  PageSize,    \* the count argument of every call (16 in the code)
  History,     \* transactions of the account before the program starts
  MaxTx,       \* bound: transactions the account ever has
  MaxBurst,    \* transactions that arrive between two merged refreshes
  QueriesFail  \* whether the lite server fails transaction queries

ASSUME ConstantsAssumption ==
  /\ PageSize \in Nat \ {0}
  /\ History \in Nat \ {0}
  /\ MaxTx \in Nat /\ History <= MaxTx
  /\ MaxBurst \in Nat
  /\ QueriesFail \in BOOLEAN
  /\ Background \subseteq {"button", "support"}
  /\ Panels \cap {"button", "support"} = {}

Null == 0
Threads == {"ui", "adapter"}

\* One slot for each thread of a panel that can have started a request, and
\* one for each other caller.
Slots == (Panels \X Threads) \cup (Background \X {"caller"})
Callers == Background \X {"caller"}

VARIABLES
  \* The account and the wallet
  chain,              \* transactions in the newest block the client knows
  lastTransactionId,  \* TonUnknownWallet.lastTransactionId
  connected,          \* Adapter.IsConnected
  refreshing,         \* the adapter thread is between EndUpdate and wallet.Update
  transactions,       \* Wallet.transactions, newest first
  \* The panels
  open,               \* the panel has been created (OnCreated has run)
  list,               \* TransactionPanel.transactions
  allTransactionLoaded,
  \* Requests in progress
  fetch

walletVars == <<chain, lastTransactionId, connected, refreshing, transactions>>
panelVars == <<open, list, allTransactionLoaded>>
vars == <<walletVars, panelVars, fetch>>

Positions == 1..MaxTx

-----------------------------------------------------------------------------
(* Sequences of transactions *)

Min2(a, b) == IF a <= b THEN a ELSE b
Max2(a, b) == IF a >= b THEN a ELSE b

\* The transactions hi, hi - 1, ..., lo.
Down(hi, lo) == [i \in 1..Max2(hi - lo + 1, 0) |-> hi - i + 1]

FirstOf(s) == IF s = << >> THEN Null ELSE s[1]
LastOf(s) == IF s = << >> THEN Null ELSE s[Len(s)]

StrictlyDescending(s) == \A i, j \in DOMAIN s : i < j => s[i] > s[j]

RangeOf(s) == {s[i] : i \in DOMAIN s}

\* QuickSort.GetIndex on the descending list.
GetIndex(s, t) == CHOOSE i \in DOMAIN s : s[i] = t

\* Mutants of AddAndSort: a refresh replaces the list; older pages are handed
\* to the caller without being stored.
ReplaceOnRefresh(s, ts) == IF ts # << >> /\ ts[1] > FirstOf(s) THEN ts ELSE s \o ts
StoreNewestOnly(s, ts) == IF ts # << >> /\ ts[1] > FirstOf(s) THEN ts \o s ELSE s

SortDescending(s) == SortSeq(s, LAMBDA a, b : a > b)

\* Transactions.Add(ts) and the Sort that follows it, on a descending list.
AddAndSort(s, ts) ==
  CASE s = << >> \/ ts = << >> -> s \o ts
    [] s # << >> /\ ts # << >> /\ ts[Len(ts)] > s[1] -> ts \o s
    [] s # << >> /\ ts # << >> /\ ts[1] < s[Len(s)] -> s \o ts
    [] OTHER -> SortDescending(s \o ts)

-----------------------------------------------------------------------------
(* Requests *)

Idle == [pc |-> "idle", last |-> Null, lt |-> 0]
Checked(last) == [pc |-> "checked", last |-> last, lt |-> 0]
Queued(last) == [pc |-> "queued", last |-> last, lt |-> 0]
Sent(last, lt) == [pc |-> "sent", last |-> last, lt |-> lt]
Done(last) == [pc |-> "done", last |-> last, lt |-> 0]

\* listView.Updating: BeginUpdate has been called more often than EndUpdate.
Updating(p) == \E th \in Threads : fetch[<<p, th>>].pc \in {"queued", "sent", "done"}

\* WalletState.None: no account state has been stored in the wallet yet.
StateNone(lastId) == lastId = 0

\* The guard of TransactionPanel.GetTransactions.
MayFetch(p, loaded, conn) == ~loaded /\ ~Updating(p) /\ conn

\* The panels in P run GetTransactions(null) on the adapter's thread, when the
\* flags allTransactionLoaded are loaded: those that may fetch queue a request,
\* the others drop the call.  A wallet without state counts as fully loaded.
LoadedAfter(P, loaded, lastId) ==
  [p \in Panels |-> loaded[p] \/ (p \in P /\ StateNone(lastId))]

QueueNewest(P, loaded, lastId, conn) ==
  [s \in Slots |->
     IF s[2] = "adapter" /\ s[1] \in P
        /\ MayFetch(s[1], LoadedAfter(P, loaded, lastId)[s[1]], conn)
     THEN Queued(Null) ELSE fetch[s]]

-----------------------------------------------------------------------------
(* The lite server and the merge in Wallet.GetTransactions *)

\* Mutant of OldestOfPage: a short history is not taken into account.
OldestOfFullPage(lt) == lt - PageSize + 1

\* Oldest position of the page the server answers for the position lt: at
\* most PageSize transactions, the one at lt included.
OldestOfPage(lt) == Max2(lt - PageSize + 1, 1)

\* Mutants of NewestOf: the page is not filtered; the comparison with the
\* wallet's first transaction is off by one.
NewestUnfiltered(lt, s) == Down(lt, OldestOfPage(lt))
NewestOffByOne(lt, s) == Down(lt, Max2(OldestOfPage(lt), FirstOf(s) + 2))

\* last = null: the transactions of the page newer than the wallet's first.
NewestOf(lt, s) == Down(lt, Max2(OldestOfPage(lt), FirstOf(s) + 1))

\* last # null: the transactions of the page older than the wallet's last.
OlderOf(lt, s) ==
  Down(IF s = << >> THEN lt ELSE Min2(lt, LastOf(s) - 1), OldestOfPage(lt))

\* The transactions the callback of GetTransactionsCore keeps.
Fresh(last, lt, s) == IF last = Null THEN NewestOf(lt, s) ELSE OlderOf(lt, s)

\* The list already goes on below last: the page is served from it.
Cached(last) ==
  /\ transactions # << >>
  /\ last # Null
  /\ last # LastOf(transactions)
  /\ GetIndex(transactions, last) < Len(transactions)

CachedPage(last) ==
  LET index == GetIndex(transactions, last)
  IN  SubSeq(transactions, index + 1, Min2(index + PageSize, Len(transactions)))

\* Mutant of Insert: the comparison with the panel's first is off by one.
InsertOffByOne(s, ts) ==
  SubSeq(ts, 1, Min2(Len(ts), Max2(ts[1] - FirstOf(s) - 1, 0))) \o s

\* InsertTransactions: the transactions of ts before the first one that is
\* not newer than the panel's first go to the front.  (ts is not empty, and
\* consecutive: it is the part of a page that the merge kept.)
Insert(s, ts) ==
  SubSeq(ts, 1, Min2(Len(ts), Max2(ts[1] - FirstOf(s), 0))) \o s

\* Mutant of Applied: a refresh is appended like an older page.
AppliedAtEnd(s, last, ts) == s \o ts

\* The panel's part of the callback, for a non-null array.
Applied(s, last, ts) ==
  CASE ts = << >> -> s
    [] ts # << >> /\ last = Null /\ s # << >> -> Insert(s, ts)
    [] OTHER -> s \o ts

\* The panel that made the request applies the array and leaves the request to
\* the EndUpdate it posts to the UI thread; the other callers ignore it.
Deliver(s, ts) ==
  /\ list' = IF s \in Callers THEN list
             ELSE [list EXCEPT ![s[1]] = Applied(@, fetch[s].last, ts)]
  /\ fetch' = [fetch EXCEPT ![s] = IF s \in Callers THEN Idle ELSE Done(@.last)]

-----------------------------------------------------------------------------
(* The account and the adapter's thread *)

Init ==
  /\ chain = History
  /\ lastTransactionId \in {0, History}
  /\ connected = FALSE
  /\ refreshing = FALSE
  /\ transactions = << >>
  /\ open = [p \in Panels |-> FALSE]
  /\ list = [p \in Panels |-> << >>]
  /\ allTransactionLoaded = [p \in Panels |-> FALSE]
  /\ fetch = [s \in Slots |-> Idle]

OpenPanels == {p \in Panels : open[p]}

\* A transaction of the account is executed.  The environment executes at most
\* MaxBurst of them ahead of the wallet's list (of History, while it is empty).
Execute ==
  /\ chain < MaxTx
  /\ chain < MaxBurst + (IF transactions = << >> THEN History ELSE FirstOf(transactions))
  /\ chain' = chain + 1
  /\ UNCHANGED <<lastTransactionId, connected, refreshing, transactions, panelVars, fetch>>

\* Every open panel calls GetTransactions(null) on the adapter's thread.
NewestRequested(P, loaded, lastId, conn) ==
  /\ allTransactionLoaded' = LoadedAfter(P, loaded, lastId)
  /\ fetch' = QueueNewest(P, loaded, lastId, conn)

\* TonAdapter.OnRefresh finds the client connected and raises Connected.
Connect ==
  /\ ~connected /\ ~refreshing
  /\ connected' = TRUE
  /\ NewestRequested(OpenPanels, allTransactionLoaded, lastTransactionId, connected')
  /\ UNCHANGED <<chain, lastTransactionId, refreshing, transactions, open, list>>

\* TonAdapter.Client_Disconnected: the panels' OnConnectionChanged does nothing.
Disconnect ==
  /\ connected
  /\ connected' = FALSE
  /\ UNCHANGED <<chain, lastTransactionId, refreshing, transactions, panelVars, fetch>>

\* Adapter.Refresh ends: EndUpdated makes the empty panels ask for the newest
\* page, and RefreshAdapter goes on to update the wallets.
RefreshAdapter ==
  /\ connected /\ ~refreshing
  /\ refreshing' = TRUE
  /\ NewestRequested({p \in OpenPanels : ~allTransactionLoaded[p] /\ list[p] = << >>},
                     allTransactionLoaded, lastTransactionId, connected)
  /\ UNCHANGED <<chain, lastTransactionId, connected, transactions, open, list>>

\* The support panel's W_Changed asks for the newest page of the wallet.
SupportRequested(f) ==
  [s \in Slots |-> IF s[1] = "support" /\ f[s].pc = "idle" THEN Queued(Null) ELSE f[s]]

\* Mutant of StateDiffers: only the first account state is taken over.
FirstStateOnly == lastTransactionId = 0

\* The condition of TonUnknownWallet.Update.  (It compares the balances, too, but an
\* account's balance changes with a transaction only.)
StateDiffers == lastTransactionId # chain

\* Wallet.Update with the account state: when it brings a new transaction it
\* raises Changed, and every panel runs OnWalletChanged.
WalletUpdate ==
  /\ refreshing
  /\ refreshing' = FALSE
  /\ IF connected /\ StateDiffers
       THEN LET loaded == [p \in Panels |-> allTransactionLoaded[p] /\ ~open[p]] IN
            /\ lastTransactionId' = chain
            /\ allTransactionLoaded' = LoadedAfter(OpenPanels, loaded, chain)
            /\ fetch' = SupportRequested(QueueNewest(OpenPanels, loaded, chain, connected))
       ELSE UNCHANGED <<lastTransactionId, allTransactionLoaded, fetch>>
  /\ UNCHANGED <<chain, connected, transactions, open, list>>

\* Wallet.Update without an account state (the query failed): nothing changes.
WalletUpdateFails ==
  /\ refreshing
  /\ refreshing' = FALSE
  /\ UNCHANGED <<chain, lastTransactionId, connected, transactions, panelVars, fetch>>

-----------------------------------------------------------------------------
(* The UI thread *)

\* TransactionPanel.OnCreated: the panel copies the wallet's list or, when it
\* is empty, asks for the newest page.
OpenPanel(p) ==
  /\ ~open[p]
  /\ open' = [open EXCEPT ![p] = TRUE]
  /\ list' = [list EXCEPT ![p] = transactions]
  /\ IF transactions = << >> /\ connected
       THEN /\ allTransactionLoaded' = [allTransactionLoaded EXCEPT
                                         ![p] = @ \/ StateNone(lastTransactionId)]
            /\ fetch' = IF MayFetch(p, allTransactionLoaded'[p], connected)
                        THEN [fetch EXCEPT ![<<p, "ui">>] = Queued(Null)] ELSE fetch
       ELSE UNCHANGED <<allTransactionLoaded, fetch>>
  /\ UNCHANGED walletVars

\* Mutant of Scroll: the page is asked for from the wallet's last transaction.
ScrollFromWallet(p) ==
  /\ open[p]
  /\ fetch[<<p, "ui">>].pc = "idle"
  /\ allTransactionLoaded' = [allTransactionLoaded EXCEPT ![p] = @ \/ StateNone(lastTransactionId)]
  /\ fetch' = IF MayFetch(p, allTransactionLoaded'[p], connected)
              THEN [fetch EXCEPT ![<<p, "ui">>] = Checked(LastOf(transactions))] ELSE fetch
  /\ UNCHANGED <<walletVars, open, list>>

\* OnVScroll at the end of the list: the guard of GetTransactions(last), read
\* by the UI thread while the adapter's thread may be evaluating it too.
Scroll(p) ==
  /\ open[p]
  /\ fetch[<<p, "ui">>].pc = "idle"
  /\ allTransactionLoaded' = [allTransactionLoaded EXCEPT ![p] = @ \/ StateNone(lastTransactionId)]
  /\ fetch' = IF MayFetch(p, allTransactionLoaded'[p], connected)
              THEN [fetch EXCEPT ![<<p, "ui">>] = Checked(LastOf(list[p]))] ELSE fetch
  /\ UNCHANGED <<walletVars, open, list>>

\* ... and the BeginUpdate and Application.Run that follow it.
BeginUpdate(p) ==
  /\ fetch[<<p, "ui">>].pc = "checked"
  /\ fetch' = [fetch EXCEPT ![<<p, "ui">>] = Queued(@.last)]
  /\ UNCHANGED <<walletVars, panelVars>>

\* Mutant of EndUpdate: the update ends only when there is something to show.
EndUpdateIfShown(s) ==
  /\ fetch[s].pc = "done"
  /\ list[s[1]] # << >>
  /\ fetch' = [fetch EXCEPT ![s] = Idle]
  /\ UNCHANGED <<walletVars, panelVars>>

\* The EndUpdate posted by the callback.
EndUpdate(s) ==
  /\ fetch[s].pc = "done"
  /\ fetch' = [fetch EXCEPT ![s] = Idle]
  /\ UNCHANGED <<walletVars, panelVars>>

\* WalletPanel's load button: GetTransactions(Transactions.Last) for nobody.
\* (Without an account state there is no hash to send, and the call throws
\* before anything is queued.)
LoadButton ==
  /\ "button" \in Background
  /\ ~StateNone(lastTransactionId)
  /\ fetch[<<"button", "caller">>].pc = "idle"
  /\ fetch' = [fetch EXCEPT ![<<"button", "caller">>] = Queued(LastOf(transactions))]
  /\ UNCHANGED <<walletVars, panelVars>>

-----------------------------------------------------------------------------
(* Wallet.GetTransactions *)

\* Called on a pool thread: a page the list already holds is returned at once.
ServeCached(s) ==
  /\ fetch[s].pc = "queued"
  /\ Cached(fetch[s].last)
  /\ Deliver(s, CachedPage(fetch[s].last))
  /\ UNCHANGED <<walletVars, open, allTransactionLoaded>>

\* Otherwise GetTransactionsCore sends a query from last, or from the wallet's
\* last transaction.
SendQuery(s) ==
  /\ fetch[s].pc = "queued"
  /\ ~Cached(fetch[s].last)
  /\ fetch' = [fetch EXCEPT ![s] =
                 Sent(@.last, IF @.last = Null THEN lastTransactionId ELSE @.last)]
  /\ UNCHANGED <<walletVars, panelVars>>

\* The answer: merge into the wallet's list under its lock, then the callback.
Answer(s) ==
  /\ fetch[s].pc = "sent"
  /\ LET ts == Fresh(fetch[s].last, fetch[s].lt, transactions) IN
     /\ transactions' = AddAndSort(transactions, ts)
     /\ Deliver(s, ts)
  /\ UNCHANGED <<chain, lastTransactionId, connected, refreshing, open, allTransactionLoaded>>

\* The query fails: the callback gets no array, so the panel takes the history
\* for completely loaded.
QueryFails(s) ==
  /\ QueriesFail
  /\ fetch[s].pc = "sent"
  /\ allTransactionLoaded' = IF s \in Callers THEN allTransactionLoaded
                             ELSE [allTransactionLoaded EXCEPT ![s[1]] = TRUE]
  /\ fetch' = [fetch EXCEPT ![s] = IF s \in Callers THEN Idle ELSE Done(@.last)]
  /\ UNCHANGED <<walletVars, open, list>>

-----------------------------------------------------------------------------
(* Specification *)

Next ==
  \/ Execute
  \/ Connect
  \/ Disconnect
  \/ RefreshAdapter
  \/ WalletUpdate
  \/ WalletUpdateFails
  \/ LoadButton
  \/ \E p \in Panels : OpenPanel(p) \/ Scroll(p) \/ BeginUpdate(p)
  \/ \E s \in Slots : ServeCached(s) \/ SendQuery(s) \/ Answer(s) \/ QueryFails(s) \/ EndUpdate(s)

Spec == Init /\ [][Next]_vars

\* The pool and the UI thread run what is posted to them, and every query is
\* answered, at the latest by its timeout.
RequestFairness ==
  \A s \in Slots :
    WF_vars(ServeCached(s) \/ SendQuery(s) \/ Answer(s) \/ QueryFails(s) \/ EndUpdate(s))

\* Controller's timer refreshes the adapter for as long as the program runs,
\* and the server answers some of its account state queries.
RefreshFairness ==
  /\ WF_vars(RefreshAdapter)
  /\ WF_vars(Connect)
  /\ SF_vars(WalletUpdate)

FairSpec ==
  /\ Spec
  /\ RequestFairness
  /\ RefreshFairness
  /\ \A p \in Panels : WF_vars(BeginUpdate(p))

-----------------------------------------------------------------------------
(* Properties *)

FetchType ==
  [pc : {"idle", "checked", "queued", "sent", "done"},
   last : Positions \cup {Null}, lt : Positions \cup {0}]

\* Every variable has its type.
TypeOK ==
  /\ chain \in Positions
  /\ lastTransactionId \in 0..chain
  /\ connected \in BOOLEAN
  /\ refreshing \in BOOLEAN
  /\ transactions \in Seq(Positions)
  /\ open \in [Panels -> BOOLEAN]
  /\ list \in [Panels -> Seq(Positions)]
  /\ allTransactionLoaded \in [Panels -> BOOLEAN]
  /\ fetch \in [Slots -> FetchType]

\* Wallet.GetTransactions keeps the wallet's list newest first and without
\* duplicates, whatever order overlapping pages are answered in.
WalletListOrdered == StrictlyDescending(transactions)

\* What a panel shows is newest first and without duplicates, although
\* AddTransactions and InsertTransactions never sort, pages come from the
\* server and from the wallet's list, and the UI thread and the adapter's
\* thread can both have passed the guard of GetTransactions.
PanelListOrdered == \A p \in Panels : StrictlyDescending(list[p])

\* A panel shows only transactions of the wallet's list, and that list holds
\* only transactions that the account state has announced.
PanelShowsWalletTransactions ==
  /\ \A p \in Panels : RangeOf(list[p]) \subseteq RangeOf(transactions)
  /\ RangeOf(transactions) \subseteq 1..lastTransactionId

\* Where the requests in progress stand: a closed panel has none, only the UI
\* thread pages down, and it does so from the last transaction the panel
\* shows; a query is sent from a position the account state has announced.
RequestsInv ==
  /\ \A p \in Panels :
       /\ ~open[p] => list[p] = << >> /\ \A th \in Threads : fetch[<<p, th>>] = Idle
       /\ fetch[<<p, "adapter">>].last = Null
       /\ fetch[<<p, "ui">>].pc \in {"checked", "queued", "sent"}
            /\ fetch[<<p, "ui">>].last # Null
            => list[p] # << >> /\ LastOf(list[p]) = fetch[<<p, "ui">>].last
  /\ \A s \in Slots :
       /\ fetch[s].pc \in {"checked", "queued", "sent"} => lastTransactionId >= 1
       /\ fetch[s].pc = "sent" => fetch[s].lt \in 1..lastTransactionId
       /\ fetch[s].pc = "sent" /\ fetch[s].last # Null => fetch[s].lt = fetch[s].last
  /\ \A s \in Callers :
       fetch[s].pc \in {"queued", "sent"} /\ fetch[s].last # Null
         => fetch[s].last \in RangeOf(transactions)

\* When no more than a page of transactions arrives between two merged
\* refreshes, paging up and down at the same time leaves no hole in the
\* wallet's list.
NoHoles ==
  \A i \in 1..(Len(transactions) - 1) : transactions[i] = transactions[i + 1] + 1

\* A panel that shows exactly the wallet's list goes on to do so, whatever page
\* its two threads ask for and in whatever order the answers come; only what
\* another caller merges can separate the two.
PanelMatchesWallet ==
  [][\A p \in Panels :
       /\ open[p] /\ list[p] = transactions
       /\ \A s \in Slots : s[1] # p => fetch'[s] = fetch[s]
       => list'[p] = transactions']_vars

\* Merged transactions stay: the wallet's list and every open panel only grow,
\* at their two ends.
OnlyGrows ==
  [][/\ RangeOf(transactions) \subseteq RangeOf(transactions')
     /\ \A p \in Panels : RangeOf(list[p]) \subseteq RangeOf(list'[p])]_vars

\* Every request of a panel that passed the guard ends: listView.Updating, which
\* blocks all further requests of the panel, is always released.
RequestsEnd ==
  \A s \in Panels \X Threads : fetch[s].pc # "idle" ~> fetch[s].pc = "idle"

\* When the adapter stays connected the wallet learns of the newest transaction.
WalletCatchesUp == <>[]connected => <>[](lastTransactionId = chain)

\* "Transactions are added in real time": once the adapter stays connected, an
\* open panel shows every transaction executed since the program started.
AddedInRealTime ==
  <>[]connected =>
    \A p \in Panels : \A t \in (History + 1)..MaxTx :
      open[p] /\ chain >= t ~> t \in RangeOf(list[p])

=============================================================================
