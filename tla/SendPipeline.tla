--------------------------- MODULE SendPipeline ---------------------------
(***************************************************************************)
(* Sending coins from one TON wallet: the form's SendController            *)
(* (Complex.Wallets/Forms/SendController.cs), TonWallet.SendMessages with  *)
(* the activation of a new wallet (Complex.Ton/TonWallet.cs), the native   *)
(* LiteClientSendMessage (tonlib_win/tonlib.cpp, tonlib/comx/utils.h) and  *)
(* the search for the transaction in TonWallet.UpdateWaitTransactions.     *)
(*                                                                         *)
(* A job <<f, n>> is the n-th call of SendAmmount by the form f, together  *)
(* with the one message it signs; the message's hash is the job.  The      *)
(* wallet's contract executes a message only with its current sequence     *)
(* number.  Amounts, addresses and fees are left out.                      *)
(*                                                                         *)
(* The wallet's panel asks for pages (TransactionPanel.GetTransactions);   *)
(* of its list only what bears on a waiting form is kept: whether it is    *)
(* updating, when it drops every request, and what a page of the newest    *)
(* transactions brought.  Such a page goes from the last transaction that  *)
(* the wallet knows when it asks, and holds all transactions of the forms. *)
(***************************************************************************)
EXTENDS Naturals, FiniteSets

CONSTANTS
  Forms,       \* send forms opened on the wallet
  MaxAttempts, \* bound: calls of SendAmmount by one form
  Deployed,    \* the wallet's contract exists from the start
  LostReplies  \* a query may time out although the server took the message

ASSUME ConstantsAssumption ==
  /\ MaxAttempts \in Nat \ {0}
  /\ {Deployed, LostReplies} \subseteq BOOLEAN

Jobs == Forms \X (1..MaxAttempts)
NoJob == <<>>

VARIABLES
  \* The forms
  form,              \* the panel the form shows
  attempts,          \* calls of SendAmmount so far
  msgHash,           \* SendController.msgHash
  \* Sending, one step list per job
  job,
  \* The wallet object and the client
  active,            \* wallet.State = Active
  waitTransactions,  \* Wallet.WaitTransactions
  knownSeqno,        \* the contract's state in the last block the client knows
  knownTx,           \* the transactions in it
  completed,         \* TransactionComplete events posted to the pool
  \* The wallet's list and its panel
  updating,          \* listView.Updating, and how far its request is
  page,              \* what the answer to a query of the newest page has
  transactions,      \* Wallet.transactions
  \* The chain
  seqno,             \* sequence number of the contract
  exists,            \* the contract is deployed
  deploying,         \* the message that deploys it is pending
  signed,            \* the sequence number each message was signed with
  fate               \* what became of each message

formVars == <<form, attempts, msgHash>>
listVars == <<updating, page, transactions>>
walletVars == <<active, waitTransactions, knownSeqno, knownTx, completed, listVars>>
chainVars == <<seqno, exists, deploying, signed, fate>>
vars == <<formVars, job, walletVars, chainVars>>

Init ==
  /\ form = [f \in Forms |-> "main"]
  /\ attempts = [f \in Forms |-> 0]
  /\ msgHash = [f \in Forms |-> NoJob]
  /\ job = [j \in Jobs |-> "none"]
  /\ active = Deployed
  /\ waitTransactions = {}
  /\ knownSeqno = 0
  /\ knownTx = {}
  /\ completed = {}
  /\ updating = "no"
  /\ page = {}
  /\ transactions = {}
  /\ seqno = 0
  /\ exists = Deployed
  /\ deploying = FALSE
  /\ signed = [j \in Jobs |-> 0]
  /\ fate = [j \in Jobs |-> "none"]

Executed == {j \in Jobs : fate[j] = "executed"}
Open(f) == form[f] # "closed"

-----------------------------------------------------------------------------
(* The form *)

\* Send: the checks pass and the recipient and the fees are known.  (A check that
\* fails shows an error and leads back to the main panel.)
Send(f) ==
  /\ form[f] = "main"
  /\ form' = [form EXCEPT ![f] = "info"]
  /\ UNCHANGED <<attempts, msgHash, job, walletVars, chainVars>>

\* SendAmmount: shows the waiting panel and calls wallet.SendAmount, whose
\* Decrypt is posted to the adapter's thread.
SendAmmount(f) ==
  /\ attempts[f] < MaxAttempts
  /\ attempts' = [attempts EXCEPT ![f] = @ + 1]
  /\ form' = [form EXCEPT ![f] = "waiting"]
  /\ job' = [job EXCEPT ![<<f, attempts[f] + 1>>] = "decrypt"]
  /\ UNCHANGED <<msgHash, walletVars, chainVars>>

\* Sign: the password is correct.
Sign(f) == form[f] = "info" /\ SendAmmount(f)

\* The error panel's button.
Repeat(f) == form[f] = "error" /\ SendAmmount(f)

Close(f) ==
  /\ Open(f)
  /\ form' = [form EXCEPT ![f] = "closed"]
  /\ UNCHANGED <<attempts, msgHash, job, walletVars, chainVars>>

\* The result handler of SendAmmount, for an error.
ShowError(j) == form' = [form EXCEPT ![j[1]] = IF Open(j[1]) THEN "error" ELSE @]

\* Wallet_TransactionComplete.
TransactionComplete(j) ==
  /\ j \in completed
  /\ completed' = completed \ {j}
  /\ form' = [f \in Forms |-> IF Open(f) /\ msgHash[f] = j THEN "done" ELSE form[f]]
  /\ UNCHANGED <<attempts, msgHash, job, active, waitTransactions, knownSeqno, knownTx, listVars, chainVars>>

-----------------------------------------------------------------------------
(* TonWallet.SendMessages and the native client *)

\* The password is decrypted: a wallet that is not active is created first.
Decrypted(j) ==
  /\ job[j] = "decrypt"
  /\ job' = [job EXCEPT ![j] = IF active THEN "send" ELSE "create"]
  /\ UNCHANGED <<formVars, walletVars, chainVars>>

\* LiteClientCreateWallet: the server takes the deploying message, or not.  The
\* reply is an error in the second case, and when it is lost.
CreateWallet(j) ==
  /\ job[j] = "create"
  /\ \/ /\ \/ job' = [job EXCEPT ![j] = "created"]
           \/ LostReplies /\ job' = [job EXCEPT ![j] = "createFailed"]
        /\ deploying' = ~exists
     \/ /\ job' = [job EXCEPT ![j] = "createFailed"]
        /\ UNCHANGED deploying
  /\ UNCHANGED <<formVars, walletVars, seqno, exists, signed, fate>>

\* The reply: the job goes on when the wallet raises Created.
Subscribe(j) ==
  /\ job[j] = "created"
  /\ job' = [job EXCEPT ![j] = "subscribed"]
  /\ UNCHANGED <<formVars, walletVars, chainVars>>

\* Mutant of CreateWalletFails: the handler is subscribed after an error, too.
CreateWalletFailsSubscribed(j) ==
  /\ job[j] = "createFailed"
  /\ job' = [job EXCEPT ![j] = "subscribed"]
  /\ ShowError(j)
  /\ UNCHANGED <<attempts, msgHash, walletVars, chainVars>>

CreateWalletFails(j) ==
  /\ job[j] = "createFailed"
  /\ job' = [job EXCEPT ![j] = "ended"]
  /\ ShowError(j)
  /\ UNCHANGED <<attempts, msgHash, walletVars, chainVars>>

\* getSendMessageRaw: the message is signed with the sequence number of the
\* account state in the last known block, and posted.
SignMessage(j) ==
  /\ job[j] = "send"
  /\ job' = [job EXCEPT ![j] = "posted"]
  /\ signed' = [signed EXCEPT ![j] = knownSeqno]
  /\ UNCHANGED <<formVars, walletVars, seqno, exists, deploying, fate>>

\* The account state cannot be had, or the key cannot be loaded.
SignFails(j) ==
  /\ job[j] = "send"
  /\ job' = [job EXCEPT ![j] = "refused"]
  /\ UNCHANGED <<formVars, walletVars, chainVars>>

\* The server takes the message, or refuses it.
ServerTakes(j) ==
  /\ job[j] = "posted"
  /\ \/ /\ job' = [job EXCEPT ![j] = "taken"]
        /\ fate' = [fate EXCEPT ![j] = "pending"]
     \/ /\ job' = [job EXCEPT ![j] = "refused"]
        /\ UNCHANGED fate
  /\ UNCHANGED <<formVars, walletVars, seqno, exists, deploying, signed>>

\* Mutant of Accepted: the two assignments are swapped, so the hash of the
\* attempt before is waited for.
AcceptedSwapped(j) ==
  /\ job[j] = "taken"
  /\ job' = [job EXCEPT ![j] = "ended"]
  /\ IF Open(j[1])
       THEN /\ waitTransactions' = waitTransactions \cup {msgHash[j[1]]}
            /\ msgHash' = [msgHash EXCEPT ![j[1]] = j]
       ELSE UNCHANGED <<msgHash, waitTransactions>>
  /\ UNCHANGED <<form, attempts, active, knownSeqno, knownTx, completed, listVars, chainVars>>

\* The result handler of SendAmmount, for the message's hash.
Accepted(j) ==
  /\ job[j] = "taken"
  /\ job' = [job EXCEPT ![j] = "ended"]
  /\ IF Open(j[1])
       THEN /\ msgHash' = [msgHash EXCEPT ![j[1]] = j]
            /\ waitTransactions' = waitTransactions \cup {j}
       ELSE UNCHANGED <<msgHash, waitTransactions>>
  /\ UNCHANGED <<form, attempts, active, knownSeqno, knownTx, completed, listVars, chainVars>>

\* ... and for an error: the server's, or the timeout of ten seconds.
Failed(j) ==
  /\ job[j] = "refused" \/ (LostReplies /\ job[j] = "taken")
  /\ job' = [job EXCEPT ![j] = "ended"]
  /\ ShowError(j)
  /\ UNCHANGED <<attempts, msgHash, walletVars, chainVars>>

-----------------------------------------------------------------------------
(* The chain *)

Deploy ==
  /\ deploying
  /\ deploying' = FALSE
  /\ exists' = TRUE
  /\ UNCHANGED <<formVars, job, walletVars, seqno, signed, fate>>

\* The contract accepts its current sequence number only.
Execute(j) ==
  /\ exists /\ fate[j] = "pending" /\ signed[j] = seqno
  /\ fate' = [fate EXCEPT ![j] = "executed"]
  /\ seqno' = seqno + 1
  /\ UNCHANGED <<formVars, job, walletVars, exists, deploying, signed>>

\* valid_until has passed.
Expire(j) ==
  /\ fate[j] = "pending"
  /\ fate' = [fate EXCEPT ![j] = "expired"]
  /\ UNCHANGED <<formVars, job, walletVars, seqno, exists, deploying, signed>>

-----------------------------------------------------------------------------
(* The refresh and the wallet's panel *)

\* GetTransactions(null) of the panel: dropped while its list is updating, or
\* when the adapter has lost its connection.
NewestRequested == updating' = updating \/ (updating = "no" /\ updating' = "queued")

\* TonUnknownWallet.Update: a wallet found active for the first time raises
\* Created, which posts the message of every subscribed job; the panel's
\* OnWalletChanged asks for the newest page.
Update ==
  /\ knownTx # Executed \/ active # exists
  /\ knownSeqno' = seqno
  /\ knownTx' = Executed
  /\ active' = exists
  /\ NewestRequested
  /\ job' = [j \in Jobs |-> IF exists /\ ~active /\ job[j] = "subscribed" THEN "send" ELSE job[j]]
  /\ UNCHANGED <<formVars, waitTransactions, completed, page, transactions, chainVars>>

\* The adapter is connected: the panel's OnConnectionChanged asks, too.
Connected ==
  /\ updating = "no"
  /\ updating' = "queued"
  /\ UNCHANGED <<formVars, job, active, waitTransactions, knownSeqno, knownTx, completed, page,
                 transactions, chainVars>>

\* The user scrolls to the end of the list: an older page is asked for.
Scroll ==
  /\ updating = "no"
  /\ updating' = "older"
  /\ UNCHANGED <<formVars, job, active, waitTransactions, knownSeqno, knownTx, completed, page,
                 transactions, chainVars>>

\* Its answer holds nothing that a form could wait for.
OlderPage ==
  /\ updating = "older"
  /\ updating' = "done"
  /\ UNCHANGED <<formVars, job, active, waitTransactions, knownSeqno, knownTx, completed, page,
                 transactions, chainVars>>

\* Wallet.GetTransactions(null) on a pool thread: the query names the last
\* transaction that the wallet knows by now.
QueryNewest ==
  /\ updating = "queued"
  /\ updating' = "sent"
  /\ page' = knownTx
  /\ UNCHANGED <<formVars, job, active, waitTransactions, knownSeqno, knownTx, completed, transactions, chainVars>>

\* Mutants of Matching: any transaction completes a waiting message; only the
\* newest transaction of the page is compared.
MatchingAny == IF page = {} THEN {} ELSE waitTransactions
MatchingNewest ==
  {j \in waitTransactions \cap page : \A k \in page : signed[k] <= signed[j]}

\* The waiting messages that the page's transactions answer to.
Matching == waitTransactions \cap page

\* The answer: UpdateWaitTransactions compares the page with the waiting hashes,
\* and the wallet merges it.
UpdateWaitTransactions ==
  /\ updating = "sent"
  /\ updating' = "done"
  /\ waitTransactions' = waitTransactions \ Matching
  /\ completed' = completed \cup Matching
  /\ transactions' = transactions \cup page
  /\ page' = {}
  /\ UNCHANGED <<formVars, job, active, knownSeqno, knownTx, chainVars>>

\* ... or an error; nothing asks again.
QueryFails ==
  /\ updating = "sent"
  /\ updating' = "done"
  /\ page' = {}
  /\ UNCHANGED <<formVars, job, active, waitTransactions, knownSeqno, knownTx, completed, transactions, chainVars>>

\* listView.EndUpdate, which the callback posts to the UI thread.
EndUpdate ==
  /\ updating = "done"
  /\ updating' = "no"
  /\ UNCHANGED <<formVars, job, active, waitTransactions, knownSeqno, knownTx, completed, page,
                 transactions, chainVars>>

-----------------------------------------------------------------------------
(* Specification *)

Step(j) ==
  \/ Decrypted(j) \/ CreateWallet(j) \/ Subscribe(j) \/ CreateWalletFails(j)
  \/ SignMessage(j) \/ SignFails(j) \/ ServerTakes(j) \/ Accepted(j) \/ Failed(j)

Page == OlderPage \/ QueryNewest \/ UpdateWaitTransactions \/ QueryFails \/ EndUpdate

Next ==
  \/ \E f \in Forms : Send(f) \/ Sign(f) \/ Repeat(f) \/ Close(f)
  \/ \E j \in Jobs : Step(j) \/ TransactionComplete(j)
  \/ Deploy
  \/ \E j \in Jobs : Execute(j) \/ Expire(j)
  \/ Update \/ Connected \/ Scroll
  \/ Page

Spec == Init /\ [][Next]_vars

\* The threads run what is posted to them, the adapter is refreshed for as long
\* as the program runs, and the queries of its panel end, with an answer or not.
FairSpec ==
  /\ Spec
  /\ \A j \in Jobs : WF_vars(Step(j)) /\ WF_vars(TransactionComplete(j))
  /\ WF_vars(Update) /\ WF_vars(Page) /\ WF_vars(Deploy)

-----------------------------------------------------------------------------
(* Properties *)

\* Every variable has its type.
TypeOK ==
  /\ form \in [Forms -> {"main", "info", "waiting", "error", "done", "closed"}]
  /\ attempts \in [Forms -> 0..MaxAttempts]
  /\ msgHash \in [Forms -> Jobs \cup {NoJob}]
  /\ job \in [Jobs -> {"none", "decrypt", "create", "created", "createFailed", "subscribed",
                       "send", "posted", "taken", "refused", "ended"}]
  /\ active \in BOOLEAN
  /\ updating \in {"no", "older", "queued", "sent", "done"}
  /\ waitTransactions \subseteq Jobs /\ knownTx \subseteq Jobs /\ completed \subseteq Jobs
  /\ page \subseteq Jobs /\ transactions \subseteq Jobs
  /\ knownSeqno \in Nat /\ seqno \in Nat
  /\ exists \in BOOLEAN /\ deploying \in BOOLEAN
  /\ signed \in [Jobs -> Nat]
  /\ fate \in [Jobs -> {"none", "pending", "executed", "expired"}]

\* A form says that the coins were sent only when the message of its last
\* attempt was executed.
DoneMeansPaid ==
  \A f \in Forms : form[f] = "done" => <<f, attempts[f]>> \in Executed

\* While errors are truthful (no reply is lost), repeating after errors never
\* pays twice, not even when the wallet is created on the way.
PaidOnce == \A f \in Forms : Cardinality({j \in Executed : j[1] = f}) <= 1

\* "Please wait a few seconds for your transaction to be processed": a form
\* that waits for a message whose transaction the client has yet to see does not
\* go on waiting once the wallet's history shows it, whatever else the wallet
\* sends meanwhile and whichever pages are dropped, outdated or fail.  (Whether
\* the history comes to show it is TransactionHistory's concern.)
WaitEnds ==
  \A j \in Jobs :
    j \in waitTransactions /\ j \in Executed \ knownTx /\ msgHash[j[1]] = j
      ~> form[j[1]] # "waiting" \/ [](j \notin transactions)

\* The same promise for a wallet that sending creates first: once the contract
\* exists, a form that is still open gets on to send its message.
CreatedThenSent ==
  \A j \in Jobs :
    exists /\ job[j] \in {"created", "subscribed"} ~> job[j] = "ended" \/ ~Open(j[1])

=============================================================================
