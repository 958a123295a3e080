# Top-Wallets in TLA+

Top-Wallets is a desktop wallet for the TON network: a C# program on a closed
user-interface framework (`Libs/`), with a native client (`tonlib/comx`,
`tonlib_win/tonlib.cpp`) on top of the vendored TON library. It has no tests.
What is hard in it is what tests would hardly reach: the user-interface thread,
one thread per adapter, a pool and the native actor's thread share the wallet
objects, and every decision waits for answers of servers that come late, in
another order or not at all. This directory models that part.

## The system

| Component | State | Operations | Interacts through |
|---|---|---|---|
| Transaction history (`Wallet.cs`, `TransactionPanel.cs`, `TonUnknownWallet.cs`) | the wallet's list of transactions, the last transaction id of the account state; per panel the shown list, `allTransactionLoaded`, `listView.Updating` | refresh of the state, `GetTransactions` of a newest or an older page, scrolling, opening a panel | events `Changed`, `ConnectionChanged`; answers on the adapter's and the client's threads |
| Lite client (`LiteClient.cs`, `comx/LiteClient.*`, `TonAdapter.cs`) | `connected` of the actor, `isConnected` of the adapter, the raw client, the lock `sync`, the events `e` and `connectedEvent` | `Start`, `Connect`, `Send`, `SendAsync`, `Last`, `OnRefresh` | the actor's mailbox; callbacks on the actor's thread |
| Sending (`SendController.cs`, `TonWallet.cs`, `tonlib.cpp`, `utils.h`) | the form's panel and `msgHash`, `WaitTransactions`, the wallet's state | send, sign, repeat, close; create the wallet; find the transaction | `Created`, `TransactionComplete`, replies of the server |
| TonConnect (`Connection.cs`, `TonConnectForm.cs`, `TonMultiSendForm.cs`) | event source, the wallet's connections, the form that answers a request | connect, decline, send, answer, disconnect | a bridge server; a queue per connection |
| Block synchronisation (`LiteClientActor::last`, `LastBlockStorage.cpp`, `TonAdapter.Init`) | the last block and the last key block, their file, the block each account query names | start, synchronise by a chain of proofs, read an account, save, restart | the adapter's refresh and the forms share one actor; the file outlives the program |
| Keys and wallets (`CreateWalletForm*.cs`, `DeleteWalletController.cs`, `KeyStorage.cpp`, `WalletsData.cs`) | key files, exported files, the list of wallets and its saved copy, the form's key and panels | create, import by words or from a file, export, delete, save, load | the form's thread, timers, the framework's settings |
| Tokens (`TokenWallet.cs`, `Jetton*`, `Nft*`, their forms) | per wallet `WaitTransactions`, per form the counted events and its panel | send, transfer, mint, burn, change owner or content, deploy; find and hand on transactions | the owner's events are raised again by its tokens |
| Cells, texts, dictionaries (`CellBuilder.cs`, `Slice.cs`, `SerializeDict.cs`) | none | encode, decode | calls from the token contracts |
| Controller, adapters, settings | adapters, wallets, explorers | refresh timer, wallet lookup, save | events |
| Algorithms (fees, addresses, balances) | none | compute | calls |
| Market data, HTTP clients, panels, shell | values that are shown | fetch, draw | events |

`PROJECT.json` lists all of them with their sources, and the hazards at their lines.

What makes the modelled components correct:

* history: the list is ordered, without duplicates and without holes, whatever
  the order of the answers; what a panel shows belongs to it; requests end; the
  wallet learns of every transaction;
* lite client: a synchronous query returns its own result; no thread waits for
  ever; after an outage both flags tell the truth again;
* block synchronisation: nobody is given a state older than one given before, also
  over restarts and whichever server answers; the client can always go on from the
  block it has stored;
* sending: a form reports success only for its own executed message; a repeat
  after a truthful error never pays twice; a form stops waiting once the wallet's
  history shows its transaction;
* tokens: a form says "completed" only when the transactions it is about are
  executed, although it learns of them from wallets that other forms use as well;
* wallets and keys: a listed wallet has its key file, whatever forms have been
  opened, closed and cleaned up after it; a deletion takes the wallet off the list;
  a restored wallet can sign;
* TonConnect: each request of a dApp gets at most one answer, a declined one is never
  paid nor a paid one declined, and one is paid again only after the replies to all its
  earlier payments were lost; a connection that was ended leaves the wallet's list, and one
  that is listed is alive;
* cells: a dictionary written by the program is the one that the contract's library
  reads; a text is read as it was entered.

## Modules

| Module | Content |
|---|---|
| `TransactionHistory` | one wallet, its panels and background callers |
| `LiteClient` | threads, adapter, actor, connection |
| `BlockRegister` | what the client promises of the blocks it reads at (abstract) |
| `LastBlock` | the actor's last block, its file, refresh and readers |
| `SendPipeline` | forms, wallet activation, messages, chain |
| `TokenForms` | the forms of a wallet and its tokens, and what they wait for |
| `WalletStore` | key files, the wallets' list, the forms that make and delete them |
| `RequestProtocol` | what a dApp is promised about each request (abstract) |
| `TonConnect` | one connection, its queue and its forms |
| `SerializeDict` | operators: the program's dictionary serializer and the library's dictionary |
| `CellText` | operators: texts in chains of cells |
| `Cells` | what the token forms write into cells and read again, composed of the two |
| `..._proofs` | the theorems about the module of that name |
| `MC...` | the modules for TLC, with the symmetric constants |

The composition of components is by shared variables inside one module: `LastBlock`
composes the actor, the storage, the refresh and the wallet; `TokenForms` the forms, three wallets
and the chain; `SendPipeline` the forms, the wallet, the refresh and the chain;
`WalletStore` the forms, the key storage and the settings. Each leaves out what another
module is about, and says so.

### TransactionHistory

A transaction is its position in the account's chain (its logical time). The
chain only grows. `lastTransactionId` is what `TonUnknownWallet.Update` last
stored, `transactions` is `Wallet.transactions`, `list[p]` what panel `p` shows.

A request is a slot `<<panel, thread>>`: the user-interface thread (scrolling,
opening) and the adapter's thread (`OnWalletChanged`, `OnConnectionChanged`) can
both have passed the test `!listView.Updating` (`TransactionPanel.cs:138`) before
either calls `BeginUpdate`. `Scroll` is therefore the test and `BeginUpdate` the
call; on the adapter's thread the two are one step for each panel. The load button
and the support panel are background callers that ask the wallet for pages without
showing them. `ServeCached` is the early return of `Wallet.GetTransactions` with
transactions the list already has, `SendQuery` and `Answer` the query and the merge
of its answer, `QueryFails` its error (a null array). The fallback to HTTP in
`TonUnknownWallet.GetTransactionsCore` needs an answer and an error at once
(line 142), which no caller produces, and is not modelled.

`MaxBurst` bounds the transactions executed between two refreshes. With
`MaxBurst <= PageSize` (16 in the code) one newest page always reaches the list,
which is what `NoHoles` needs.

### LiteClient

`Threads` are the adapter's thread, the one that asks for the server's time, and
`Users` (forms). The actor handles one message of its mailbox at a time;
`native` and `raising` are the points at which it is inside `createClient` or
inside a C# handler. `link` is the raw client's connection, `old` that of the
client it replaced, whose callback names the same actor. `online` says whether any
server can be reached; the ping loop of `createClient` does not end before.

Two facts come from the vendored client: results of queries return through the
actor's mailbox, so they are delivered only while the actor is idle, and the
hang-up of a replaced client is queued on the same scheduler before the traffic of
its successor. A query in flight when a connection stops is not answered; it ends
with its timeout.

### LastBlock and BlockRegister

A block of the masterchain is its sequence number. A server answers `getBlockProof`
with a chain that leads from the client's newest key block (`from`) to its own newest
block, or, when that is far, to a key block on the way; `last()` then asks again. `Proof` is
the handler: it advances `state`, saves it, and ends or goes on. `IsKeyLink` is what
`BlockProofChain::validate` finds as the newest key block of the chain. A proof that
cannot be had (the server is behind, does not answer, or is away) makes the adapter
choose another server. That proofs are genuine is the library's cryptography, and
taken for granted.

Choosing a server is `client.Connect()`, which waits until the actor takes the
`createClient` it posted (`CreateClient`, whose `conn_closed` sets `connectedEvent`) and
not until the client is connected. `createClient` pings servers until one
answers (`LiteClient.cpp:133`); `pinging` says that the actor is in this loop, where it
handles nothing else: no proof, no account, no further `createClient`. A refresh
that finds no connection calls `Connect` before `Last` (`Check` is what comes between
them) and again after a failure. The second call posts a `createClient` that
the actor takes only when the first is through, so in an outage that lasts the adapter's
thread stays in `connectedEvent.WaitOne` (`LiteClient.cs:150`). `RefreshEnds` therefore
promises that a refresh ends or that the actor pings for ever.

`GetAccountState` names the last block of then; `AccountState::create` compares the
answer with the last block of now (`Accepts`), so an answer that was overtaken is an
error. `given` is the block of the last state anybody was given, `wallet` that of the
state the wallet shows. `StartCopy` and `EndCopy` are the writing of the bundled state
by `TonAdapter.Init`, which is not atomic; a program stopped between them leaves a torn
file, with which the constructor starts at the configured block (`ZeroState`).
`SaveState` replaces the file atomically. `Restart` may come at any moment.

`BlockRegister` says the same in five lines: a register that only moves forward, that
reads return, and that a restart finds where it was left (`Lossy`: where it last
reached the disk). `IsRegister` is the refinement.

### SendPipeline

A job `<<f, n>>` is the `n`-th attempt of the form `f` and the message it signs;
its steps are decrypting the key, creating the wallet if it is not active, signing
with the sequence number of the last known block, sending, and the reply. The chain
executes a message only with the contract's current sequence number; others expire.
`Update` is the refresh: the client's last block and the wallet's state advance
together, because `OnRefresh` calls `Last` and updates the wallets on one thread.
It raises `Created` when it finds the wallet active.

The newest page, in which `UpdateWaitTransactions` looks for the hashes the forms wait
for, comes from the wallet's panel. `updating` is its `listView.Updating` and how far the
request has got. A change of the wallet asks for the newest page (`NewestRequested`), and so does
a new connection (`Connected`); scrolling asks for an older one (`Scroll`, `OlderPage`). A
request made while the list is updating is dropped (`TransactionPanel.cs:138`), and nothing
repeats it. `QueryNewest` fixes the page when the query is made, at the last transaction
that the wallet knows then; the query may fail (`QueryFails`). So the panel may never be
told of a transaction. What `WaitEnds` promises is that a form does not go on waiting
when the wallet's list of transactions shows its message: a page that is merged is
compared first. When the list does not show it is the business of
`TransactionHistory`.

A repeat signs a new message. `PaidOnce` is about the case that an error means the
message was not taken (`LostReplies = FALSE`): a reply that is lost after the server
took the message is answered by the program with "repeat", and the sequence number of
the contract alone decides then; nothing in the repository promises more. The reply to
the deploying message may be lost in the same way.

### TokenForms

A form has one of eight kinds and one message, which causes the chain of transactions
`Chain(kind)`: for example a transfer of jettons executes in the owner, in its
`JettonWallet`, and in the owner again when the excess comes back. A value waited for
is `<<form, "hash">>` or `<<form, "qid">>`; `waits[w]` is the `WaitTransactions` of the
wallet `w`, `events` the `TransactionComplete` calls posted to the pool. `Awaited` is what
the reply's handler adds, which differs from form to form (some add nothing once they
are closed), `Found` what `UpdateWaitTransactions` compares: the owner hashes and query
ids, a token query ids only. `OnOwnerTransactionComplete` raises the owner's events as the
token's (`Hears`) and takes the hash off the token's own list (`Forgotten`).

There are two sorts of forms. Some compare the value with their own (`Ends`); the others
count events (`Counts`, `Enough`): four, or three when the other token is not in the
owner's list. Counting forms count whatever their wallets raise, also for other forms, so
they may say "completed" too early, or pass their number and wait for ever;
`Undisturbed` says that this did not happen, and what the program guarantees then is
`CountedInFull` and `WaitEnds`. `viewed` are the wallets whose panel was opened: only
those ask for their transactions (`WalletsContent.cs:187`), so a form waits for ever for a token
that the user has not looked at. A panel asks (`Ask`) when it is opened and when its wallet
changes, unless it drops the request; `page` is fixed then, and the query may fail.
`shown` are the values that the wallet's list of transactions shows. `WaitEnds` promises that
a form does not go on waiting once the lists of its wallets show all that it waits
for (`Ending`). The numbers are the code's: a burning form does not
wait for the excess, a form that changes the content ends with the owner's transaction.

Not in the module, and seen while it was written: the handlers of `ChangeOwnerForm` and
`ChangeContentForm` use a waiting panel that does not exist before the first send
(`ChangeOwnerForm.cs:36`), so an event heard before it is an exception in the pool's
thread; a transaction that was aborted counts as executed.

### WalletStore

An address stands for its secret words. A key file is named after a secret drawn anew
at each save, so files are numbered; `made[n]` says which words the key `n` has, whether its
password holds a zero byte and whether the file was encrypted with the password cut off
there. `wallets[w]` is the key of the listed wallet of `w`, `saved` the list as the framework has
saved it, which it does when it likes. `step[f]` and `job[f]` are the panel and the
work in progress of the form `f`, which goes on when the form is closed. The panels that
ask for the passwords of an exported file are created once and keep the file they were
created with (`captured`). `CloseCheck` erases the form's key; `Done` ends the form
without it. `DeleteWalletController` erases the key, ignores an error, and removes the
wallet from the list with a timer.

`UniqueCollection.Add` and `Remove` belong to the closed framework: both readings of
what they do with an address that is in the list are allowed. What is saved after the
last restart is never read and is left out.

### TonConnect

One `Connection` from the moment its form is shown. `queue` is its `SingleThread`:
the messages that `Send(message, handler)` posts are sent to the bridge one after the
other, each followed by its handler; a handler of the connect form starts a timer
(`due`). `Disconnect` alone sends on its caller's thread: `disconnecting` holds the
threads (the queue's, the user interface's, the pool's, the event source's) that have
passed its test of `IsConnected` and are inside `Http.Post`. `source` is the event
source, `listed` membership in `wallet.Connections`, `subscribed` whether the wallet's
panel has attached its handlers, which it does when the connection is added.

`panel[r]` and `job[r]` are the `TonMultiSendForm` of the request `r`: what it shows,
and its password check or its `SendMessages`, which goes on when the form is closed.
`paid[r]` counts the messages the server has taken, `told[r]` is what the dApp has
heard. `SendFails` is any error of `SendMessages`: the server did not take the message,
or it did and the reply is lost, for example by the timeout of the query. The form
cannot tell, shows "repeat" and pays again (`TonMultiSendForm.cs:131`). `lost[r]` counts
the lost replies, at most `MaxLost[r]`. Closing the panels for the fees, the transactions and the password runs
`Cancel`, closing the others only `CloseCheck`.

Outside the repository, and modelled by how the code uses it: `SingleThread.Remove`
(may lose what is queued), `Disposable.Dispose` (sets its flag first and runs
`OnDisposed` once), the `EventSource` (may lose the bridge and find it again; it
delivers a message once, in order) and the dApp. `reliable`, chosen at the start,
says whether posts succeed and the event source stays up. The dApp sends `disconnect` at most once: a bound.

`RequestProtocol` is the abstract specification: per request `new`, `asked`,
`declined`, `paid`, `unsure`, `confirmed`, `rejected`. A paid request whose reply was lost is
`unsure`, and only from there it is paid again. It cannot be declined any more: the
panel that shows an error closes without an answer. The refinement mapping `Status` computes it
from what the dApp was told, what was paid and what the form shows.

### Cells, SerializeDict and CellText

`Serialize` is the serializer that `NftController.BatchMint` calls: it splits the keys
top-down at their common prefixes and picks for each label the shortest of three forms. The
reference is the TON library's `dict_set` with its own choice of the form; `lookup` is
how the contract reads. A cell is its bits, its references and its item. `Converted` pads
the indexes to keys.

`WriteEdge`, `lookup` and `dict_set` call themselves in the code; here each is a recursive
function of the bits that keys still have, and `Edge`, `Find` and `Set` are one turn of it.
Their domains say what the code takes for granted: a dictionary (`Dicts`) has at least
one key, because a part that is empty is never descended into, and a cell (`Labelled`) has a label
that can be read, where the library throws otherwise.

In `CellText` a text is the sequence of its characters' widths in UTF-8, and a cell the bytes
it holds. `Store` is the native builder, which stores nothing when the bytes do
not fit, and whose result `CellBuilder.Store` does not look at. Jettons write a format byte
before the text, items do not, an item of a batch has one cell. `Cells` composes the two:
`Add` is a turn of `BatchMint`'s loop, `Write` and `Read` a token's content; a batch and a text
do not touch, so they are explored apart. `Survives` says which texts come back:

* a description (or name, or image) of a jetton when it is shorter than a cell. With 127
  bytes or more the root has no room for the format byte and the text, and the native
  builder stores none of these 127 bytes (`CellBuilder.cs:137`), while the form reports success;
* an item's content of any length that has no character across the end of a cell
  (`Slice.cs:54` decodes each cell by itself);
* the content of an item of a batch of at most one cell; of a longer one nothing is stored.

`TextReadsBack` checks that exactly these texts are read as they were entered.

## Runs

| Run | Question | Bounds |
|---|---|---|
| `history_callers` | is the wallet's list ordered, without holes, only growing; is what the panel shows an ordered part of it; do requests end and does the wallet catch up, with four requests at once? | one panel with its two threads, two background callers, pages of 2, 2 old and up to 4 transactions: pages overlap, are requested twice and are answered in both orders |
| `history_dropped_refresh` | is a new transaction always shown? No (finding) | one panel, no failing query |
| `client_reconnects` | does `Send` return its own result, do threads return, do the flags recover? | the adapter's two threads and a form's, two messages in the mailbox, fairness |
| `block_restarts` | is the client a `BlockRegister`, do refreshes end, does the wallet catch up? | key blocks 1, 2 and 4 of up to 5, a server that lags, outages of any length, one restart, a form beside the refresh |
| `send_repeat` | does success mean paid, is nothing paid twice, does the wait end? | two forms, two attempts each, a wallet to create, replies in any order, pages that are dropped, outdated or fail |
| `send_created_early` | is the message sent once the wallet is created? No (finding) | one form, one attempt, replies in any order |
| `token_forms` | do forms end with the transactions they are about, and not wait for what the lists show? | one form of any of the eight kinds while another one gives the minter a new owner, with and without each token; pages that are dropped, outdated or fail |
| `store_restart` | does every listed wallet have its key, and is a deleted one gone? | two forms, two sets of words, three key files, a restart at any moment |
| `store_restore` | does a wallet restored from its file sign? No (finding) | one form, two key files |
| `connect_bridge` | do the forms implement `RequestProtocol`, does ending a connection take effect, is a listed one alive and a terminated one gone? | two requests, one lost reply for the first of them, a bridge that works and one that fails, fairness |
| `connect_cancelled` | does a declined connection stay declined? No (finding) | no request |
| `cells` | are the cells of a batch the library's, is every item found, and which texts are read as they were entered? | keys of five bits, up to three items, every order; cells of three bytes, texts of up to eight, characters of one to four |

The bounds are enough for what the hazards are about. Two requests of one panel and
two of others make every order of overlapping answers; a page of two
transactions has a first, a last and an overlap. A second attempt is a repeat, and
a third adds no new kind of state. Two requests of one dApp have two forms that
share the queue, and no step of one request depends on a third. Blocks 0 to 5 with
three key blocks hold a configured block, a bundled one that is older, a proof that stops at a key block, a block
that is no key block, and blocks made while a query is out. With three key files a
form makes one that is listed and another that it cleans up, while a second form imports
the same words. A second form that gives the minter a new owner raises events in the
owner and the minter, and the tokens hand on the owner's: every form hears events that
are not its own. One lost reply makes a request be paid again, while the other request has
truthful replies only. Keys of five bits have labels of every form at the
root and below a fork and lengths of labels that need one to three bits; more items
are a matter of the proofs. A cell of three bytes has room before, at and after each
multiple of its size, and is shorter than the longest character.

The interesting parameters: `QueriesFail` lets any query end with an error.
`LostReplies` lets the server take a message whose query then fails. `SavesFail` lets
the state file not be written: `BlockRegister` is then `Lossy`, and the proofs hold for both
values. `MaxLost` bounds the lost replies of each request, and `KeepsProtocol` is proved for
any bound. `ZeroBytes` are the choices for a password: `store_restart` has passwords
without a zero byte, and `store_restore` shows what the others lead to. `MaxMail` and
`Patient` bound the mailbox and the refreshes of `client_reconnects` (`Patient` those of
`block_restarts`, too); that `Send` returns its own
result is proved for any mailbox and any number of threads.

Some of the properties have a premise. `WaitEnds` of `SendPipeline` speaks of a message
whose block the client has yet to see when the reply comes: the hash enters
`WaitTransactions` only with the reply (`SendController.cs:109`), and when the
transaction was fetched before, the form waits for ever. `send_created_early` shows the same
fault at the subscription to `Created`. Both `WaitEnds` end in "or the list never shows
it": the panel may drop the request for the page, as `history_dropped_refresh` shows, or the
query may fail, and then nothing ends the wait but a later change. That of `TokenForms` leaves out
forms that counted another form's events, and says of a token that was never viewed only
what its empty list gives. `TerminatedMeansGone` speaks of a bridge that works: when
a post throws inside `Disconnect`, the form shows "Connection terminated" and the
connection stays in the list, where it cannot be ended again because it is disposed
(`Connection.cs:198`).

`PanelMatchesWallet` says that a panel which shows the wallet's list keeps doing so
until another caller merges a page: with one viewer, the panel is the list.
Two panels of one wallet are not among the runs: that each shows an ordered part of
the wallet's list is proved for any number of them. They may show different parts,
because `Wallet.GetTransactions` gives each caller only what its own answer added.

## Fairness

* Requests and queries: the queue of an adapter and the pool serve what is posted,
  and every query ends with an answer, an error or a timeout (`Query.cs`,
  `adnl-ext-client`), so these steps are weakly fair.
* Refresh: the adapter is refreshed by a timer (`Controller.RefreshAdapter`), so a
  refresh is always tried again. That one succeeds infinitely often while the
  adapter stays connected is strong fairness of the successful refresh.
* Lite client: the actor handles its mailbox, connections are tried again by
  `alarm`, and `lock(sync)` is handed to each waiter in turn (strong fairness of
  taking it). Liveness is stated under `<>[]online`. `Patient` says that the
  refresh, every ten seconds, leaves a handshake its time: if every handshake took
  longer, every refresh would replace the client before it is ready.
* Sending: nothing forces the user to send, to repeat or to close, or the chain to
  execute a message (it may expire); the steps of the program, the refresh and the
  block that deploys the wallet are weakly fair. A request of the panel goes on until
  `EndUpdate`; its query ends with an answer or an error, whichever.
* Block synchronisation: the program starts, the timer refreshes, every query ends
  with an answer or its timeout, servers synchronise, and a ping is answered once servers
  stay online (`PingAnswered` is weakly fair, and needs `online`). Nothing is assumed of the
  network's outages or of the user; `Patient` is as above; `WalletCatchesUp` is stated for a network that comes to rest.
* Token forms: the pool runs what is posted, and the query of an open panel ends, with an
  answer or an error. The user, the server and the chain may stop at any point.
* TonConnect: the queue, the pool, the timers and the event source's thread run what
  is posted to them, each a thread of its own. Nothing is assumed of the user or the
  dApp.

## Findings

* `history_dropped_refresh`: `GetTransactions(null)` of `OnWalletChanged` is
  dropped while the panel's list is updating and nothing repeats it; the
  repository's `README.md:6` says transactions are added in real time.
* `send_created_early`: the handler subscribes to `Created` with the reply to the
  deploying message; when the wallet was found active before, the coins are never
  sent and the form waits for ever.
* `connect_cancelled`: cancelling while `Connection.Connect` waits for `GetStateInit`
  tells the dApp that the user declined; the handler of `GetStateInit` then still sends
  `ConnectEventSuccess`.
* `store_restore`: importing an exported wallet takes its password of 64 random bytes for a
  zero-terminated string (`tonlib.cpp:169`); for about 22% of the wallets, those with a zero byte, the
  restored key is encrypted with a shorter password than the one it is opened
  with, and the listed wallet never signs.

## Proofs

All proofs are checked by TLAPS for every value of the constants, from the
`ASSUME`s of the modules only (natural page size and history, and so on).

* `WalletOrdered`, `PanelOrdered`, `PanelsFollowWallet`, `RequestsHold`, `TypeCorrect`
  (`TransactionHistory_proofs`). The order of the wallet's list needs only that an
  answer is filtered against the list and sorted after. A panel never sorts: it
  inserts newer transactions in front and appends older ones at the end. That is
  right because every request of a panel starts at the end of what it showed and
  because what it shows is part of the wallet's list, which in turn contains only
  announced transactions; `RequestsInv` relates each request to both lists, and the
  three invariants are proved together. `AddAndSort` rests on lemmas about merging
  two descending sequences with `SortSeq`, stated for its definition.
* `ListsOnlyGrow`, `PanelMatches`, `NoHolesHolds` (same module) follow from that
  invariant. A page kept by the merge is a run above the wallet's first transaction or
  below its last, so the panel's insert or append and the wallet's add and sort come to
  the same list (`AppliedIsMerged`), and nothing is lost. `NoHolesHolds` assumes
  `MaxBurst <= PageSize`: by `NoGap` the first transaction is at most a burst behind the
  chain, so a refresh reaches down to it, and an older page begins right below the last.
* `SendOwnResultHolds`, `TypeCorrect` (`LiteClient_proofs`). One event `e` serves all threads. The
  invariant says that only the holder of `sync` has a query outstanding
  (`HoldsLock`, `InsideSend`), that the event is set only when that query is
  complete (`OwnEvent`, `OwnResult`), and that a query's message in the mailbox is a
  posted query, each there once (`MailOk`).
* `RegisterImplemented`, `KeyIsNewestHolds`, `ReadsForwardHolds`, `TypeCorrect` (`LastBlock_proofs`): for any
  key blocks, servers, restarts and failing writes, the last assuming `~SavesFail`. The
  key block is the newest before the last block, or the client is at its zero state
  (`KeyIsNewest`), which a chain of proofs preserves because it starts at that key block
  (`RunInv`); without failing writes the file has the client's block and every block
  that a reader was given (`StoredInv`).
* `DoneMeansPaidHolds`, `PaidOnceHolds`, `TypeCorrect` (`SendPipeline_proofs`): for any
  number of forms and attempts, `PaidOnce` assuming `~LostReplies`. At most the last attempt of a
  form is under way (`OneUnderWay`), an attempt has begun before it does anything (`Begun`), a
  message in the server's hands has been taken by a job that waits for its reply or
  was accepted (`Taken`), the form's panel agrees with its job (`PanelAgrees`), what the
  client finds was executed (`KnownExecuted`), and an error means not taken (`Truthful`).
* `DoneMeansExecutedHolds`, `CountedInFullHolds`, `WaitsSharedHolds`, `TypeCorrect`
  (`TokenForms_proofs`): for any set of forms and kinds. What is waited for, fetched, posted and
  counted is traced to its origin (`WaitsOrigin`, `PagesOrigin`, `EventsOrigin`, `HeardOrigin`): an event stands for
  an executed transaction that shows its value. An undisturbed form has counted at
  most one event for each such transaction, so the number of events bounds from below
  how much of the chain is executed; the argument is by cardinality.
* `ListedHasKeyHolds`, `DeletionRemovesHolds`, `TypeCorrect` (`WalletStore_proofs`): for any
  number of forms, words, keys and restarts. `Private` says that a key which a form still
  holds is there, and neither listed, saved, being deleted nor another form's, so
  that a form's clean-up harms nobody; `Fields` which of its fields a form has at each panel;
  `OwnKeys` that a listed key is one of the wallet's own words; `Victim` that only
  keys are deleted which the user has confirmed.
* `ProtocolKept` (`TonConnect_proofs`): `Spec` implies `RequestProtocol`'s
  specification under the mapping `Status`, for any set of requests and any number of lost
  replies. The invariant says that each payment but the one whose job is taken or ended
  had its reply lost, and that a form that can still cancel has neither a job nor a payment
  (`PaidByJob`), that the answers the dApp has are those the
  form could give (`ToldAgrees`), that a request has at most one answer in the queue,
  none if the dApp has one, and that it fits the form and the job (`QueueAgrees`), and
  that a request in the dApp's inbox is there once and has no form yet
  (`InboxAgrees`). Every step then moves one request's status along the protocol or
  leaves all of them (`Kept`).
* `ListedMeansConnectedHolds`, `TerminatedMeansGoneHolds`, `TypeCorrect` (same module), for a
  reliable bridge. `Life` says that nothing has happened to the connection while it can
  still be asked for (`EarlyClean`, `CheckedOnce`), that one declined on the first panel
  never opens its event source (`DeclinedIdle`), that a disposed or terminated one whose
  source is open is about to be closed (`DisposedEnds`, `TerminatedEnds`), and that the
  dApp was told of one that is listed or about to be (`ToldConnected`).
* `SerializerIsNative`, `EveryItemFound` (`Cells_proofs`): for keys of any length and batches of any
  size, built in any order. The invariant `BatchInv` says that the library's dictionary of the
  items so far is the tree that the serializer would write of them. That one more item preserves
  it is `SetInEdge`, by induction over the bits below an edge: the
  item's key leaves the old label inside (`WithInside`: a new fork, the
  old edge with the rest of its label, a leaf) or follows it (`WithFurther`: the branch by the next bit).
  Both need that the two programs pick the same form of every label (`SameLabels`), although
  one compares the lengths of the three forms and the other tests two inequalities. The
  library reads back what was written (`LabelRead`), hence finds each item (`LookupInEdge`).
* `TextRoundTrip`, `TextReads` (same module): for cells of any size and texts of any length. `BytesLayout`
  says where each character's bytes are, `StoreBufferIs` which of them each cell gets, `ReadClean`
  what is read of cells that end where a character ends, and `ReadTorn` that a torn
  character makes what is read differ from what was entered.

The induction that `Cells_proofs` needs is a fact about sets: a set that has every number below
which it has all of them is `Nat` (`StrongInduction`, from the library's theorem that `<` is
well-founded). That a recursive function satisfies its equation is proved the same way,
once for each (`Power2Is`, `WriteEdgeIs`, `TreesIs`, `LookupIs`, `DictSetIs`), and so is what `FlattenSeq` computes
(`FlattenJoins`).

Every safety invariant and every action property of the passing runs is proved. Only
model-checked is what says "eventually" (`RequestsEnd`, `WalletCatchesUp`, `ThreadsReturn`,
`Reconnects`, `WaitEnds`, `DisconnectTakesEffect`, `RefreshEnds`): liveness under fairness and
`ENABLED` are out of the prover's reach.

## Not modelled

* Shutting down (`LiteClient.Stop`), and the library's ping loop beyond what `LiteClient` says.
* Whether the contract executes both messages when a reply is lost and the user repeats: the
  sequence number and the amounts decide, and `PaidOnce` is about truthful replies.
* Key files that nobody uses any more (a form closed while its key is being saved leaves one).
* The contents of transactions, amounts, fees, balances, addresses; the virtual machine and
  the proofs' cryptography.
* Forms to several recipients (`MultiSend`, `JettonMultiSendForm`, `SupportForm`) and the collections'
  own forms, which wait as the modelled ones do.
* Drawing, market data, the closed framework (its queues, events, collections and timers are
  modelled by how the code uses them) and the vendored library beyond the external
  client's connection and the dictionary.
* `Contracts/JettonController.cs` and `Contracts/NftController.cs`, older copies that the project
  file does not compile; the modules follow `Contracts/Jetton/` and `Contracts/Nft/`.

## Plan

1. The forms to several recipients, and the controller with its adapters (one wallet
   object per address, timers).
2. Operators for the fees, balances and addresses, each against a reference
   definition over bounded inputs.
