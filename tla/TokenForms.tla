----------------------------- MODULE TokenForms -----------------------------
(***************************************************************************)
(* The forms of a wallet and its tokens, and how they learn that their     *)
(* transactions are complete.  A TonWallet ("owner") has a JettonMinter    *)
(* ("minter") and a JettonWallet ("jetton"); each has a list of values it  *)
(* waits for (Wallet.WaitTransactions) and an event TransactionComplete.   *)
(* The reply to a form's message adds the message's hash and its query id  *)
(* to the lists; the newest page of a wallet's transactions, if its panel  *)
(* asks for one and gets it, is compared with its list; what is found is   *)
(* posted as an event; the tokens hand on the owner's events; each form    *)
(* decides from the events it hears when its waiting panel says            *)
(* "continue".                                                             *)
(*                                                                         *)
(* A message is named by its form: <<f, "hash">> and <<f, "qid">> are the  *)
(* values waited for, and a page is the set of values that its             *)
(* transactions show.  Left out: what SendPipeline models (sequence        *)
(* numbers, the creation of the owner, a reply that is lost) and what      *)
(* TransactionHistory models (older pages, the merge of a page).           *)
(***************************************************************************)
EXTENDS Naturals, Sequences, FiniteSets

CONSTANTS
  Forms,   \* forms that are opened
  KindsOf  \* what each of them may be

Kinds == {"send", "transfer", "mint", "burn", "changeOwner", "changeContent", "create", "nft"}

ASSUME ConstantsAssumption == KindsOf \in [Forms -> SUBSET Kinds]

Wallets == {"owner", "minter", "jetton"}
Values == Forms \X {"hash", "qid"}
Events == Wallets \X Values

VARIABLES
  \* The wallets
  kind,    \* the kind of each form
  present, \* the tokens that are in the owner's list
  viewed,  \* wallets whose panel with the transactions has been opened
  asking,  \* wallets whose panel has asked for the newest page
  page,    \* what the answer to each of them has
  shown,   \* the values that the transactions of each wallet's list show
  waits,   \* Wallet.WaitTransactions
  events,  \* TransactionComplete events posted to the pool
  \* The forms
  panel,   \* what the form shows
  heard,   \* transactionsInfos: the events that a counting form has counted
  msg,     \* the progress of its message
  \* The chain
  done     \* how many transactions of its chain are executed

listVars == <<asking, page, shown>>
walletVars == <<kind, present, viewed, listVars, waits, events>>
formVars == <<panel, heard, msg>>
vars == <<walletVars, formVars, done>>

Tx(w, values) == [at |-> w, values |-> values]

\* The transactions that a message causes, in the wallets that the program
\* knows, with the value each shows: the owner's with the message's hash, the
\* others with the query id of a message that comes in or goes out.
Chain(k) ==
  CASE k \in {"send", "nft"} -> <<Tx("owner", {"hash"})>>
    [] k = "transfer" -> <<Tx("owner", {"hash", "qid"}), Tx("jetton", {"qid"}), Tx("owner", {"qid"})>>
    [] k = "mint" -> <<Tx("owner", {"hash"}), Tx("minter", {"qid"}), Tx("jetton", {"qid"}), Tx("owner", {"qid"})>>
    [] k = "burn" -> <<Tx("owner", {"hash", "qid"}), Tx("jetton", {"qid"}), Tx("minter", {"qid"}), Tx("owner", {"qid"})>>
    [] k \in {"changeOwner", "changeContent"} -> <<Tx("owner", {"hash", "qid"}), Tx("minter", {"qid"})>>
    [] k = "create" -> <<Tx("owner", {"hash"}), Tx("owner", {"qid"})>>

Init ==
  /\ kind \in {k \in [Forms -> Kinds] : \A f \in Forms : k[f] \in KindsOf[f]}
  /\ present \in SUBSET {"minter", "jetton"}
  /\ viewed = {}
  /\ asking = {}
  /\ page = [w \in Wallets |-> {}]
  /\ shown = [w \in Wallets |-> {}]
  /\ waits = [w \in Wallets |-> {}]
  /\ events = {}
  /\ panel = [f \in Forms |-> "unopened"]
  /\ heard = [f \in Forms |-> {}]
  /\ msg = [f \in Forms |-> "none"]
  /\ done = [f \in Forms |-> 0]

\* The wallet that a form is opened on.
Subject(k) ==
  CASE k \in {"send", "create", "nft"} -> "owner"
    [] k \in {"transfer", "burn"} -> "jetton"
    [] k \in {"mint", "changeOwner", "changeContent"} -> "minter"

Counting == {"mint", "burn", "create", "nft"}

Shown(f) == panel[f] \notin {"unopened", "closed"}

-----------------------------------------------------------------------------
(* The forms *)

\* The constructor: the form subscribes to its wallets.
Open(f) ==
  /\ panel[f] = "unopened" /\ Subject(kind[f]) \in present \cup {"owner"}
  /\ panel' = [panel EXCEPT ![f] = "open"]
  /\ UNCHANGED <<walletVars, heard, msg, done>>

\* The passcode is correct, or the error panel's "repeat": the waiting panel is
\* shown and the message is posted.
Send(f) ==
  /\ panel[f] \in {"open", "error"}
  /\ panel' = [panel EXCEPT ![f] = "wait"]
  /\ msg' = [msg EXCEPT ![f] = "posted"]
  /\ UNCHANGED <<walletVars, heard, done>>

Close(f) ==
  /\ Shown(f)
  /\ panel' = [panel EXCEPT ![f] = "closed"]
  /\ heard' = [heard EXCEPT ![f] = {}]
  /\ UNCHANGED <<walletVars, msg, done>>

\* The values that the reply to the form's message adds to the wallets' lists.
\* What a JettonWallet waits for, its owner waits for, too.
Awaited(f) ==
  LET hash == <<f, "hash">>
      qid == <<f, "qid">>
      InJetton(values) == {"jetton", "owner"} \X values
      IfPresent(w) == (present \cap {w}) \X {qid}
  IN CASE kind[f] = "send" -> IF Shown(f) THEN {<<"owner", hash>>} ELSE {}
       [] kind[f] = "transfer" -> InJetton({qid} \cup IF Shown(f) THEN {hash} ELSE {})
       [] kind[f] = "mint" -> {<<"minter", qid>>, <<"owner", qid>>, <<"owner", hash>>} \cup IfPresent("jetton")
       [] kind[f] = "burn" -> InJetton({qid, hash}) \cup IfPresent("minter")
       [] kind[f] \in {"changeOwner", "changeContent"} -> {<<"minter", qid>>, <<"owner", hash>>}
       [] kind[f] = "create" -> {<<"owner", qid>>, <<"owner", hash>>}
       [] kind[f] = "nft" -> {<<"owner", hash>>}

\* The handler of the reply, for the message's hash.
Reply(f) ==
  /\ msg[f] = "accepted"
  /\ msg' = [msg EXCEPT ![f] = "replied"]
  /\ waits' = [w \in Wallets |-> waits[w] \cup {v \in Values : <<w, v>> \in Awaited(f)}]
  /\ UNCHANGED <<kind, present, viewed, listVars, events, panel, heard, done>>

\* ... and for an error.
ReplyFails(f) ==
  /\ msg[f] = "posted"
  /\ msg' = [msg EXCEPT ![f] = "none"]
  /\ panel' = [panel EXCEPT ![f] = IF Shown(f) THEN "error" ELSE @]
  /\ UNCHANGED <<walletVars, heard, done>>

-----------------------------------------------------------------------------
(* The chain *)

\* The server takes the message.
Accept(f) ==
  /\ msg[f] = "posted"
  /\ msg' = [msg EXCEPT ![f] = "accepted"]
  /\ UNCHANGED <<walletVars, panel, heard, done>>

\* The transaction number n of the form's chain shows the value v in the wallet w.
Shows(w, f, v, n) == Chain(kind[f])[n].at = w /\ v \in Chain(kind[f])[n].values

\* A transaction that is executed in w shows the value v.
Executed(w, v) == \E n \in 1..done[v[1]] : Shows(w, v[1], v[2], n)

\* GetTransactions(null) of a wallet's panel.  The page goes from the last
\* transaction that is known when the query is made.
Ask(w) ==
  /\ asking' = asking \cup {w}
  /\ page' = [page EXCEPT ![w] = {v \in Values : Executed(w, v)'}]

\* The next transaction of the message's chain, and the wallet's Changed.  (A
\* chain may end early.)  Its panel may have asked before and not made the query
\* yet; it drops the request when the query is made, or its list is updating with
\* an older page.
Execute(f) ==
  /\ msg[f] \in {"accepted", "replied"} /\ done[f] < Len(Chain(kind[f]))
  /\ done' = [done EXCEPT ![f] = @ + 1]
  /\ UNCHANGED <<kind, present, viewed, shown, waits, events, formVars>>
  /\ \/ \E w \in viewed : Chain(kind[f])[done'[f]].at = w /\ Ask(w)
     \/ UNCHANGED <<asking, page>>

-----------------------------------------------------------------------------
(* The wallets *)

\* Mutant of View: the panel of a token that was removed from the list.
ViewRemoved(w) ==
  /\ w \in Wallets \ viewed
  /\ viewed' = viewed \cup {w}
  /\ UNCHANGED <<kind, present, listVars, waits, events, formVars, done>>

\* The panel with a wallet's transactions is made when it is first shown; it
\* asks for the newest page when the wallet has no transactions yet.
View(w) ==
  /\ w \in (present \cup {"owner"}) \ viewed
  /\ viewed' = viewed \cup {w}
  /\ UNCHANGED <<kind, present, shown, waits, events, formVars, done>>
  /\ Ask(w) \/ UNCHANGED <<asking, page>>

\* Mutant of Found: the owner compares hashes only.
FoundHashes(w) ==
  {v \in waits[w] \cap page[w] : v[2] = IF w = "owner" THEN "hash" ELSE "qid"}

\* The values waited for that the page has.  A token compares query ids only.
Found(w) == {v \in waits[w] \cap page[w] : w = "owner" \/ v[2] = "qid"}

Answered(w) ==
  /\ w \in asking
  /\ asking' = asking \ {w}
  /\ page' = [page EXCEPT ![w] = {}]
  /\ UNCHANGED <<kind, present, viewed, formVars, done>>

\* The answer: UpdateWaitTransactions, and the list of the wallet takes the page.
UpdateWaitTransactions(w) ==
  /\ Answered(w)
  /\ shown' = [shown EXCEPT ![w] = @ \cup page[w]]
  /\ waits' = [waits EXCEPT ![w] = @ \ Found(w)]
  /\ events' = events \cup ({w} \X Found(w))

\* ... or an error; nothing asks again.
QueryFails(w) ==
  /\ Answered(w)
  /\ UNCHANGED <<shown, waits, events>>

\* The tokens raise the owner's events as their own, with the owner as sender.
\* The minting form takes from the JettonWallet, and the burning form from the
\* JettonMinter, only the wallet's own.
Hears(f, w) ==
  CASE kind[f] \in {"send", "create", "nft"} -> w = "owner"
    [] kind[f] = "transfer" -> w \in {"owner", "jetton"}
    [] kind[f] \in {"changeOwner", "changeContent"} -> w \in {"owner", "minter"}
    [] kind[f] \in {"mint", "burn"} -> TRUE

\* The forms of CreateJettonController and CreateNftController count from the
\* reply on, the others from the moment they are opened.
Counts(f, w) ==
  /\ Shown(f) /\ kind[f] \in Counting /\ Hears(f, w)
  /\ kind[f] \in {"create", "nft"} => msg[f] = "replied"

\* Mutant of Enough: three events are always enough.
EnoughThree(f) ==
  CASE kind[f] \in {"mint", "burn"} -> {3, 4}
    [] kind[f] = "create" -> {2}
    [] kind[f] = "nft" -> {1}

\* The number of events that end the waiting.
Enough(f) ==
  CASE kind[f] = "mint" -> IF "jetton" \in present THEN {4} ELSE {3, 4}
    [] kind[f] = "burn" -> IF "minter" \in present THEN {4} ELSE {3, 4}
    [] kind[f] = "create" -> {2}
    [] kind[f] = "nft" -> {1}

\* Mutant of Ends: the value is not compared with the form's own.
EndsAny(f, v) == v[2] = IF kind[f] = "changeOwner" THEN "qid" ELSE "hash"

\* The value that ends the waiting of a form that does not count.
Ends(f, v) == v = <<f, IF kind[f] = "changeOwner" THEN "qid" ELSE "hash">>

\* Mutant of Forgotten: OnTransactionComplete only hands the event on.
ForgottenNone(w, v) == {}

\* What the JettonWallet takes off its list: a hash that its owner has found.
Forgotten(w, v) == IF w = "owner" /\ v[2] = "hash" THEN {v} ELSE {}

\* The handlers of TransactionComplete.  A form that waits ends; for one that
\* shows another panel the buttons of the waiting panel change, if it has been
\* made, but "repeat" sets them again.
TransactionComplete(w, v) ==
  /\ <<w, v>> \in events
  /\ events' = events \ {<<w, v>>}
  /\ waits' = [waits EXCEPT !["jetton"] = @ \ Forgotten(w, v)]
  /\ heard' = [f \in Forms |-> IF Counts(f, w) THEN heard[f] \cup {<<w, v>>} ELSE heard[f]]
  /\ panel' = [f \in Forms |->
       IF panel[f] = "wait"
          /\ \/ kind[f] \notin Counting /\ Hears(f, w) /\ Ends(f, v)
             \/ Counts(f, w) /\ Cardinality(heard'[f]) \in Enough(f)
         THEN "done" ELSE panel[f]]
  /\ UNCHANGED <<kind, present, viewed, listVars, msg, done>>

-----------------------------------------------------------------------------
(* Specification *)

Next ==
  \/ \E f \in Forms :
       Open(f) \/ Send(f) \/ Close(f) \/ Reply(f) \/ ReplyFails(f) \/ Accept(f) \/ Execute(f)
  \/ \E w \in Wallets : View(w) \/ UpdateWaitTransactions(w) \/ QueryFails(w)
  \/ \E w \in Wallets, v \in Values : TransactionComplete(w, v)

Spec == Init /\ [][Next]_vars

\* The pool runs what is posted to it; a panel's queries end, with an answer or not.
FairSpec ==
  /\ Spec
  /\ \A w \in Wallets : WF_vars(UpdateWaitTransactions(w) \/ QueryFails(w))
  /\ \A w \in Wallets, v \in Values : WF_vars(TransactionComplete(w, v))

-----------------------------------------------------------------------------
(* Properties *)

\* Every variable has its type, and a token that is not in the list is not viewed.
TypeOK ==
  /\ kind \in [Forms -> Kinds]
  /\ present \subseteq {"minter", "jetton"}
  /\ viewed \subseteq present \cup {"owner"} /\ asking \subseteq viewed
  /\ page \in [Wallets -> SUBSET Values] /\ shown \in [Wallets -> SUBSET Values]
  /\ waits \in [Wallets -> SUBSET Values]
  /\ events \subseteq Events
  /\ panel \in [Forms -> {"unopened", "open", "wait", "error", "done", "closed"}]
  /\ heard \in [Forms -> SUBSET Events]
  /\ msg \in [Forms -> {"none", "posted", "accepted", "replied"}]
  /\ done \in [Forms -> Nat]
  /\ \A f \in Forms : done[f] <= Len(Chain(kind[f]))

\* A form that looks for its own hash or query id says "completed" only when the
\* transaction is executed that the form is about: the owner's, and for a new
\* owner the minter's, whatever other forms of the same wallets wait for.
DoneMeansExecuted ==
  \A f \in Forms : panel[f] = "done" /\ kind[f] \notin Counting =>
    done[f] >= (IF kind[f] = "changeOwner" THEN 2 ELSE 1)

\* The form has heard of transactions of its own message only.
Undisturbed(f) == \A e \in heard[f] : e[2][1] = f

\* How many transactions must be executed for the events that a counting form
\* waits for: a burning form does not wait for the excess that comes back.
Needed(f) ==
  CASE kind[f] = "burn" -> IF "minter" \in present THEN 3 ELSE 2
    [] OTHER -> Len(Chain(kind[f]))

\* A form that counts (4 events, 3 without the other token's wallet) ends with
\* the last transaction it is about, when no other form disturbs it.
CountedInFull ==
  \A f \in Forms :
    panel[f] = "done" /\ kind[f] \in Counting /\ Undisturbed(f) => done[f] >= Needed(f)

\* A JettonWallet and its owner agree on the hashes they wait for: what the
\* owner has found, the JettonWallet forgets with the event.
WaitsShared ==
  \A v \in waits["jetton"] : v[2] = "hash" => v \in waits["owner"] \/ <<"owner", v>> \in events

\* What the form waits for: the value that ends it, or all that it counts.  A
\* token finds query ids only.
Ending(f) ==
  {e \in Awaited(f) : /\ e[1] = "owner" \/ e[2][2] = "qid"
                      /\ kind[f] \in Counting \/ Ends(f, e[2])}

\* "Please wait a few seconds for your transaction to be processed": a form
\* whose message is answered before it is executed does not go on waiting once
\* the lists of its wallets show all that it waits for, unless it counted another
\* form's events, whichever panels are opened and whichever pages are dropped,
\* outdated or fail.
WaitEnds ==
  \A f \in Forms :
    panel[f] = "wait" /\ msg[f] = "replied" /\ done[f] = 0
    ~> \/ panel[f] # "wait" \/ ~Undisturbed(f)
       \/ [](\E e \in Ending(f) : e[2] \notin shown[e[1]])

=============================================================================
