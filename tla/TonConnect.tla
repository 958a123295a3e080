---------------------------- MODULE TonConnect ----------------------------
(***************************************************************************)
(* One TonConnect connection between a wallet and a dApp: the Connection   *)
(* with its event source and its queue of messages to the bridge           *)
(* (Complex.Ton/TonConnect/Connection.cs), the form that opens it          *)
(* (TonConnectForm.cs), the form that ends it (TonConnectionForm.cs), the  *)
(* wallet panel that lists it (TonWalletMainPanel.cs) and the form that    *)
(* answers a request for a transaction (TonMultiSendForm.cs).              *)
(*                                                                         *)
(* A message is what it says and whom it is about; keys, signatures,       *)
(* amounts and fees are left out.  SendMessages is modelled in             *)
(* SendPipeline: here the server takes the message and the reply arrives   *)
(* or is lost, or the server does not take it.                             *)
(***************************************************************************)
EXTENDS Naturals, Sequences

CONSTANTS
  Requests, \* the transactions the dApp asks for
  MaxLost   \* bound: replies that are lost for each of them

ASSUME ConstantsAssumption ==
  /\ {"connection", "disconnect"} \cap Requests = {}
  /\ MaxLost \in [Requests -> Nat]

VARIABLES
  \* TonConnectForm
  connectForm,   \* the panel it shows
  checking,      \* CheckPassword has been called and has not returned
  stateInit,     \* GetStateInit has been called and has not returned
  due,           \* results that wait for their Timer.Delay
  \* Connection
  source,        \* eventSource: none, or whether it IsConnected
  queue,         \* messages posted to the connection's SingleThread
  disposed,      \* the connection was disposed
  disconnecting, \* threads inside Disconnect, past the test of IsConnected
  \* The wallet and its panel
  listed,        \* wallet.Connections contains the connection
  subscribed,    \* Connections_Added has subscribed to its events
  terminateForm, \* the panel TonConnectionForm shows
  disposing,     \* its Util.Run has not run yet
  \* TonMultiSendForm, one per request
  panel,         \* the panel it shows, or what became of the request
  job,           \* its password check or its SendMessages
  paid,          \* messages the server has taken for the request
  lost,          \* how many of its replies were lost
  \* The bridge and the dApp
  event,         \* the last connection event the wallet has sent
  inbox,         \* what the dApp has sent and the wallet has not received
  left,          \* the dApp has sent its disconnect
  told,          \* the answers the dApp has got to each request
  reliable       \* the bridge takes every post and keeps the event source open

connectVars == <<connectForm, checking, stateInit, due>>
connectionVars == <<source, disposed, disconnecting>>
walletVars == <<listed, subscribed, terminateForm, disposing>>
requestVars == <<panel, job, paid, lost>>
dAppVars == <<event, inbox, left, told>>
changing == <<connectVars, connectionVars, queue, walletVars, requestVars, dAppVars>>
vars == <<changing, reliable>>

Init ==
  /\ connectForm = "main"
  /\ checking = FALSE
  /\ stateInit = FALSE
  /\ due = {}
  /\ source = "none"
  /\ queue = << >>
  /\ disposed = FALSE
  /\ disconnecting = {}
  /\ listed = FALSE
  /\ subscribed = FALSE
  /\ terminateForm = "none"
  /\ disposing = FALSE
  /\ panel = [r \in Requests |-> "new"]
  /\ job = [r \in Requests |-> "none"]
  /\ paid = [r \in Requests |-> 0]
  /\ lost = [r \in Requests |-> 0]
  /\ event = "none"
  /\ inbox = << >>
  /\ left = FALSE
  /\ told = [r \in Requests |-> << >>]
  /\ reliable \in BOOLEAN

\* The wallet's messages about the connection, and its answers to a request.
Message(what) == [what |-> what, about |-> "connection"]
AnswerTo(r, what) == [what |-> what, about |-> r]

Answers == {"invalid", "declined", "confirmed"}
Messages ==
  {Message(what) : what \in {"success", "declined", "cancelled"}}
    \cup {AnswerTo(r, what) : r \in Requests \cup {"disconnect"}, what \in Answers}

\* Send(message, handler) posts the message to the connection's SingleThread.
Enqueue(m) == queue' = Append(queue, m)

\* A callback may set the panel of a form that has been closed.
ConnectFormShows(p) == connectForm' = IF connectForm = "closed" THEN "closed" ELSE p
FormShows(r, p) == panel' = [panel EXCEPT ![r] = IF @ = "closed" THEN "closed" ELSE p]

\* SingleThread.Remove: what is still queued may be lost.
Removed(q) == {q, << >>}

\* Dispose on the thread th; q is what is queued.  A connection that is not
\* IsConnected is left in the wallet's list.
Dispose(th, q) ==
  \/ /\ disposed
     /\ queue' = q
     /\ UNCHANGED <<disposed, disconnecting>>
  \/ /\ ~disposed /\ source = "up"
     /\ disposed' = TRUE
     /\ disconnecting' = disconnecting \cup {th}
     /\ queue' = q
  \/ /\ ~disposed /\ source # "up"
     /\ disposed' = TRUE
     /\ queue' \in Removed(q)
     /\ UNCHANGED disconnecting

-----------------------------------------------------------------------------
(* TonConnectForm *)

\* The form shows another panel, nothing else.
TurnConnectForm(from, to) ==
  /\ connectForm \in from
  /\ connectForm' = to
  /\ UNCHANGED <<checking, stateInit, due, connectionVars, queue, walletVars, requestVars, dAppVars>>

Setpasscode == TurnConnectForm({"main", "wrong"}, "password")

\* Closing a panel that does not cancel.
CloseConnectForm ==
  TurnConnectForm({"password", "checking", "wrong", "declining", "rejected", "error", "done"}, "closed")

CheckPassword ==
  /\ connectForm = "password"
  /\ connectForm' = "checking"
  /\ checking' = TRUE
  /\ UNCHANGED <<stateInit, due, connectionVars, queue, walletVars, requestVars, dAppVars>>

\* The password is correct: Connection.Connect opens the event source and asks
\* for the wallet's state.  The form may have been closed.
Connect ==
  /\ checking
  /\ checking' = FALSE
  /\ ConnectFormShows("connecting")
  /\ source' \in IF reliable THEN {"up"} ELSE {"up", "down"}
  /\ stateInit' = TRUE
  /\ UNCHANGED <<due, disposed, disconnecting, queue, walletVars, requestVars, dAppVars>>

WrongPassword ==
  /\ checking
  /\ checking' = FALSE
  /\ ConnectFormShows("wrong")
  /\ UNCHANGED <<stateInit, due, connectionVars, queue, walletVars, requestVars, dAppVars>>

\* GetStateInit returns: ConnectEventSuccess is posted to the queue.
StateInitReceived ==
  /\ stateInit
  /\ stateInit' = FALSE
  /\ Enqueue(Message("success"))
  /\ UNCHANGED <<connectForm, checking, due, connectionVars, walletVars, requestVars, dAppVars>>

StateInitFails ==
  /\ stateInit
  /\ stateInit' = FALSE
  /\ due' = due \cup {"failed"}
  /\ UNCHANGED <<connectForm, checking, connectionVars, queue, walletVars, requestVars, dAppVars>>

\* The form posts the message that the user declined.
PostDecline(from, to, what) ==
  /\ connectForm \in from
  /\ connectForm' = to
  /\ Enqueue(Message(what))
  /\ UNCHANGED <<checking, stateInit, due, connectionVars, walletVars, requestVars, dAppVars>>

\* The button of the main panel.
Decline == PostDecline({"main"}, "declining", "declined")

\* Closing the main panel, or the one that waits for Connect.
CancelConnect == PostDecline({"main", "connecting"}, "closed", "cancelled")

\* Mutant of Connected: lists the connection without asking whether it is still
\* connected.
ConnectedUnchecked ==
  /\ "success" \in due
  /\ due' = due \ {"success"}
  /\ ConnectFormShows("done")
  /\ listed' = TRUE
  /\ subscribed' = TRUE
  /\ UNCHANGED <<checking, stateInit, connectionVars, queue, terminateForm, disposing, requestVars, dAppVars>>

\* The delayed result of Connect: ConnectEventSuccess was sent.
Connected ==
  /\ "success" \in due
  /\ due' = due \ {"success"}
  /\ ConnectFormShows(IF source = "up" THEN "done" ELSE "error")
  /\ listed' = (listed \/ source = "up")
  /\ subscribed' = (subscribed \/ source = "up")
  /\ UNCHANGED <<checking, stateInit, connectionVars, queue, terminateForm, disposing, requestVars, dAppVars>>

\* The delayed result of Connect: an error.  The event source stays open.
ConnectFailed ==
  /\ "failed" \in due
  /\ due' = due \ {"failed"}
  /\ ConnectFormShows("error")
  /\ UNCHANGED <<checking, stateInit, connectionVars, queue, walletVars, requestVars, dAppVars>>

\* The delayed result of Decline, with or without an error.
Declined(d) ==
  /\ d \in due
  /\ due' = due \ {d}
  /\ ConnectFormShows(IF d = "declined" THEN "rejected" ELSE "error")
  /\ Dispose("ui", queue)
  /\ UNCHANGED <<checking, stateInit, source, walletVars, requestVars, dAppVars>>

-----------------------------------------------------------------------------
(* The connection's queue: one message after the other is posted to the bridge *)

\* The message m is the next one; a handler that disposes the connection keeps
\* the queue's thread until Disconnect has returned.
IsNext(m) == queue # << >> /\ Head(queue) = m /\ "queue" \notin disconnecting

\* ConnectEventSuccess or ConnectEventError: the handler's timer starts.
ConnectEventPosted(what) ==
  /\ IsNext(Message(what))
  /\ queue' = Tail(queue)
  /\ event' = what
  /\ due' = due \cup {what}
  /\ UNCHANGED <<connectForm, checking, stateInit, connectionVars, walletVars, requestVars, inbox, left, told>>

\* The handler of Cancel's Decline disposes the connection.
CancelPosted ==
  /\ IsNext(Message("cancelled"))
  /\ event' = "declined"
  /\ Dispose("queue", Tail(queue))
  /\ UNCHANGED <<connectVars, source, walletVars, requestVars, inbox, left, told>>

\* An answer to a request, or to the dApp's disconnect.
AnswerPosted(r, what) ==
  /\ IsNext(AnswerTo(r, what))
  /\ queue' = Tail(queue)
  /\ told' = [t \in Requests |-> IF t = r THEN Append(told[t], what) ELSE told[t]]
  /\ UNCHANGED <<connectVars, connectionVars, walletVars, requestVars, event, inbox, left>>

\* Mutant of PostFails: every handler goes on as though the message had arrived.
PostFailureIgnored(m) ==
  /\ ~reliable
  /\ IsNext(m)
  /\ due' = due \cup {m.what}
  /\ queue' = Tail(queue)
  /\ UNCHANGED <<connectForm, checking, stateInit, connectionVars, walletVars, requestVars, dAppVars>>

\* Http.Post throws, or the bridge answers with an error: the handler gets it.
\* Answers to requests have no handler.
PostFails(m) ==
  /\ ~reliable
  /\ IsNext(m)
  /\ due' = due \cup (IF m = Message("success") THEN {"failed"}
                     ELSE IF m = Message("declined") THEN {"notDeclined"} ELSE {})
  /\ IF m = Message("cancelled")
       THEN Dispose("queue", Tail(queue))
       ELSE queue' = Tail(queue) /\ UNCHANGED <<disposed, disconnecting>>
  /\ UNCHANGED <<connectForm, checking, stateInit, source, walletVars, requestVars, dAppVars>>

-----------------------------------------------------------------------------
(* Disconnect *)

\* Mutant of DisconnectPosted: only the dApp's disconnect takes the connection off
\* the list.
DisconnectPostedListed(th) ==
  /\ th \in disconnecting
  /\ disconnecting' = disconnecting \ {th}
  /\ event' = "disconnect"
  /\ source' = "none"
  /\ listed' = (listed /\ th # "source")
  /\ disposed' = (disposed \/ subscribed)
  /\ queue' \in IF disposed' THEN Removed(queue) ELSE {queue}
  /\ UNCHANGED <<connectVars, subscribed, terminateForm, disposing, requestVars, inbox, left, told>>

\* DisconnectEvent is posted on the caller's own thread; then the event source
\* is disposed and the connection leaves the wallet's list.  Disconnected makes
\* the panel dispose the connection.
DisconnectPosted(th) ==
  /\ th \in disconnecting
  /\ disconnecting' = disconnecting \ {th}
  /\ event' = "disconnect"
  /\ source' = "none"
  /\ listed' = FALSE
  /\ disposed' = (disposed \/ subscribed)
  /\ queue' \in IF disposed' THEN Removed(queue) ELSE {queue}
  /\ UNCHANGED <<connectVars, subscribed, terminateForm, disposing, requestVars, inbox, left, told>>

\* Http.Post throws: the rest of Disconnect is skipped.  On the event source's
\* thread the dApp's request is answered with the error.
DisconnectFails(th) ==
  /\ ~reliable
  /\ th \in disconnecting
  /\ disconnecting' = disconnecting \ {th}
  /\ IF th = "source" THEN Enqueue(AnswerTo("disconnect", "invalid")) ELSE UNCHANGED queue
  /\ UNCHANGED <<connectVars, source, disposed, walletVars, requestVars, dAppVars>>

\* TonConnectionForm.Disconnect: Dispose is left to the pool.
UserDisconnects ==
  /\ listed /\ terminateForm = "none"
  /\ terminateForm' = "wait"
  /\ disposing' = TRUE
  /\ UNCHANGED <<connectVars, connectionVars, queue, listed, subscribed, requestVars, dAppVars>>

PoolDisposes ==
  /\ disposing
  /\ disposing' = FALSE
  /\ Dispose("pool", queue)
  /\ UNCHANGED <<connectVars, source, listed, subscribed, terminateForm, requestVars, dAppVars>>

\* Its timer shows "Connection terminated".
Terminated ==
  /\ terminateForm = "wait"
  /\ terminateForm' = "terminated"
  /\ UNCHANGED <<connectVars, connectionVars, queue, listed, subscribed, disposing, requestVars, dAppVars>>

-----------------------------------------------------------------------------
(* The event source and the dApp *)

SourceFails ==
  /\ ~reliable
  /\ source = "up"
  /\ source' = "down"
  /\ ConnectFormShows("error")
  /\ UNCHANGED <<checking, stateInit, due, disposed, disconnecting, queue, walletVars, requestVars, dAppVars>>

SourceRecovers ==
  /\ source = "down"
  /\ source' = "up"
  /\ UNCHANGED <<connectVars, disposed, disconnecting, queue, walletVars, requestVars, dAppVars>>

DAppRequests(r) ==
  /\ event = "success"
  /\ panel[r] = "new"
  /\ panel' = [panel EXCEPT ![r] = "inbox"]
  /\ inbox' = Append(inbox, r)
  /\ UNCHANGED <<connectVars, connectionVars, queue, walletVars, job, paid, lost, event, left, told>>

\* Once: a bound of the model.
DAppDisconnects ==
  /\ event = "success" /\ ~left
  /\ left' = TRUE
  /\ inbox' = Append(inbox, "disconnect")
  /\ UNCHANGED <<connectVars, connectionVars, queue, walletVars, requestVars, event, told>>

\* EventSource_Message: its thread takes the next message of the dApp.
Receive(m) ==
  /\ source = "up" /\ "source" \notin disconnecting
  /\ inbox # << >> /\ Head(inbox) = m
  /\ inbox' = Tail(inbox)

\* A request without messages, too late or for another network.
ReceiveInvalid(r) ==
  /\ Receive(r)
  /\ panel' = [panel EXCEPT ![r] = "invalid"]
  /\ Enqueue(AnswerTo(r, "invalid"))
  /\ UNCHANGED <<connectVars, connectionVars, walletVars, job, paid, lost, event, left, told>>

\* SendTransactions: the panel opens a form.  Before the connection is listed
\* nobody has subscribed, and the request is dropped.
ReceiveRequest(r) ==
  /\ Receive(r)
  /\ panel' = [panel EXCEPT ![r] = IF subscribed THEN "calc" ELSE "dropped"]
  /\ UNCHANGED <<connectVars, connectionVars, queue, walletVars, job, paid, lost, event, left, told>>

\* Mutant of ReceiveDisconnect: only a listed connection is ended.
ReceiveDisconnectIfListed ==
  /\ Receive("disconnect")
  /\ disconnecting' = IF listed THEN disconnecting \cup {"source"} ELSE disconnecting
  /\ UNCHANGED <<connectVars, source, disposed, queue, walletVars, requestVars, event, left, told>>

ReceiveDisconnect ==
  /\ Receive("disconnect")
  /\ disconnecting' = disconnecting \cup {"source"}
  /\ UNCHANGED <<connectVars, source, disposed, queue, walletVars, requestVars, event, left, told>>

-----------------------------------------------------------------------------
(* TonMultiSendForm *)

\* The form shows another panel, nothing else.
Turn(r, from, to) ==
  /\ panel[r] \in from
  /\ FormShows(r, to)
  /\ UNCHANGED <<connectVars, connectionVars, queue, walletVars, job, paid, lost, dAppVars>>

\* The fees and the recipients' states are known.
FeesKnown(r) == Turn(r, {"calc"}, "main")

SetPasscode(r) == Turn(r, {"main", "wrong"}, "password")

\* The password panel's button that leads back.
Back(r) == Turn(r, {"password"}, "main")

\* The password check or SendMessages goes on, and what the form shows then.
Goes(r, from, to, p) ==
  /\ job[r] = from
  /\ job' = [job EXCEPT ![r] = to]
  /\ FormShows(r, p)
  /\ UNCHANGED <<connectVars, connectionVars, queue, walletVars, paid, dAppVars>>

Work(r, from, to, p) == Goes(r, from, to, p) /\ UNCHANGED lost

CheckPasscode(r) == panel[r] = "password" /\ Work(r, "none", "checking", "checking")

WrongPasscode(r) == Work(r, "checking", "none", "wrong")

\* Send: after the password check, also when the form was closed meanwhile, and
\* from the error panel.
Send(r) ==
  \/ Work(r, "checking", "sending", "waiting")
  \/ panel[r] = "error" /\ Work(r, "none", "sending", "waiting")

ServerTakes(r) ==
  /\ job[r] = "sending"
  /\ job' = [job EXCEPT ![r] = "taken"]
  /\ paid' = [paid EXCEPT ![r] = @ + 1]
  /\ UNCHANGED <<connectVars, connectionVars, queue, walletVars, panel, lost, dAppVars>>

\* The handler of SendMessages: ConfirmSendTransaction.
Sent(r) ==
  /\ job[r] = "taken"
  /\ job' = [job EXCEPT ![r] = "ended"]
  /\ Enqueue(AnswerTo(r, "confirmed"))
  /\ UNCHANGED <<connectVars, connectionVars, walletVars, panel, paid, lost, dAppVars>>

\* The handler of SendMessages: an error, with the button that repeats Send.  The
\* server has not taken the message, or it has and its reply is lost.
SendFails(r) ==
  \/ Work(r, "sending", "none", "error")
  \/ /\ lost[r] < MaxLost[r]
     /\ lost' = [lost EXCEPT ![r] = @ + 1]
     /\ Goes(r, "taken", "none", "error")

TransactionComplete(r) == job[r] = "ended" /\ Turn(r, {"waiting"}, "done")

\* Closes the form and declines the request.
DeclineFrom(r, panels) ==
  /\ panel[r] \in panels
  /\ FormShows(r, "closed")
  /\ Enqueue(AnswerTo(r, "declined"))
  /\ UNCHANGED <<connectVars, connectionVars, walletVars, job, paid, lost, dAppVars>>

\* Mutant of Cancel: the panel shown during the password check declines, too.
CancelWhileChecking(r) == DeclineFrom(r, {"calc", "main", "password", "checking"})

Cancel(r) == DeclineFrom(r, {"calc", "main", "password"})

\* Closing any other panel answers nothing.
CloseCheck(r) == Turn(r, {"checking", "wrong", "waiting", "error", "done"}, "closed")

-----------------------------------------------------------------------------
(* Specification *)

ConnectForm ==
  \/ Setpasscode \/ CheckPassword \/ Connect \/ WrongPassword
  \/ StateInitReceived \/ StateInitFails
  \/ Decline \/ CancelConnect \/ CloseConnectForm
  \/ Connected \/ ConnectFailed \/ Declined("declined") \/ Declined("notDeclined")

Queue ==
  \/ ConnectEventPosted("success") \/ ConnectEventPosted("declined") \/ CancelPosted
  \/ \E r \in Requests \cup {"disconnect"}, what \in Answers : AnswerPosted(r, what)
  \/ \E m \in Messages : PostFails(m)

Disposers == {"queue", "ui", "pool", "source"}

Disconnection ==
  \/ \E th \in Disposers : DisconnectPosted(th) \/ DisconnectFails(th)
  \/ UserDisconnects \/ PoolDisposes \/ Terminated

Source ==
  \/ SourceFails \/ SourceRecovers \/ DAppDisconnects \/ ReceiveDisconnect
  \/ \E r \in Requests : DAppRequests(r) \/ ReceiveInvalid(r) \/ ReceiveRequest(r)

SendForm(r) ==
  \/ FeesKnown(r) \/ SetPasscode(r) \/ Back(r) \/ CheckPasscode(r) \/ WrongPasscode(r)
  \/ Send(r) \/ ServerTakes(r) \/ Sent(r) \/ SendFails(r) \/ TransactionComplete(r)
  \/ Cancel(r) \/ CloseCheck(r)

Next ==
  /\ ConnectForm \/ Queue \/ Disconnection \/ Source \/ \E r \in Requests : SendForm(r)
  /\ UNCHANGED reliable

Spec == Init /\ [][Next]_vars

\* The queue, the pool, the timers and the event source's thread run what is
\* posted to them.  Nothing is assumed of the user or of the dApp.
FairSpec ==
  /\ Spec
  /\ WF_changing(Queue) /\ WF_changing(PoolDisposes)
  /\ WF_changing(StateInitReceived \/ StateInitFails)
  /\ WF_changing(Connected) /\ WF_changing(ConnectFailed)
  /\ WF_changing(Declined("declined")) /\ WF_changing(Declined("notDeclined"))
  /\ \A th \in Disposers : WF_changing(DisconnectPosted(th) \/ DisconnectFails(th))
  /\ WF_changing(ReceiveDisconnect)
  /\ WF_changing(\E r \in Requests : ReceiveInvalid(r) \/ ReceiveRequest(r))

-----------------------------------------------------------------------------
(* Properties *)

\* Every variable has its type.
TypeOK ==
  /\ connectForm \in {"main", "password", "checking", "wrong", "connecting", "declining",
                      "rejected", "error", "done", "closed"}
  /\ {checking, stateInit, disposed, listed, subscribed, disposing, left, reliable} \subseteq BOOLEAN
  /\ due \subseteq {"success", "failed", "declined", "notDeclined"}
  /\ source \in {"none", "up", "down"}
  /\ queue \in Seq(Messages)
  /\ disconnecting \subseteq Disposers
  /\ terminateForm \in {"none", "wait", "terminated"}
  /\ panel \in [Requests -> {"new", "inbox", "invalid", "dropped", "calc", "main", "password",
                             "checking", "wrong", "waiting", "error", "done", "closed"}]
  /\ job \in [Requests -> {"none", "checking", "sending", "taken", "ended"}]
  /\ paid \in [Requests -> Nat] /\ lost \in [Requests -> Nat]
  /\ event \in {"none", "success", "declined", "disconnect"}
  /\ inbox \in Seq(Requests \cup {"disconnect"})
  /\ told \in [Requests -> Seq(Answers)]

\* What became of a request, as the dApp, the chain and the form see it.
Status(r) ==
  CASE told[r] = << >> /\ paid[r] = 0 /\ panel[r] \in {"new", "inbox", "invalid", "dropped"} -> "new"
    [] told[r] = << >> /\ paid[r] = 0 /\ panel[r] \notin {"new", "inbox", "invalid", "dropped"} -> "asked"
    [] told[r] = << >> /\ paid[r] = lost[r] + 1 -> "paid"
    [] told[r] = << >> /\ paid[r] = lost[r] /\ paid[r] # 0 -> "unsure"
    [] told[r] = <<"confirmed">> /\ paid[r] = lost[r] + 1 -> "confirmed"
    [] told[r] = <<"declined">> /\ paid[r] = 0 -> "declined"
    [] told[r] = <<"invalid">> /\ paid[r] = 0 -> "rejected"
    [] OTHER -> "broken"

Protocol == INSTANCE RequestProtocol WITH status <- [r \in Requests |-> Status(r)]

\* The forms and the queue keep the promise of RequestProtocol: whatever the user
\* closes and whenever results arrive, a request gets at most one answer, a
\* declined one is never paid, only a paid one is confirmed, and one is paid again
\* only when the reply to every earlier message was lost.
KeepsProtocol == Protocol!Spec

\* Nothing is under way between the connection's threads.
AtRest == queue = << >> /\ due = {} /\ disconnecting = {} /\ ~disposing /\ ~stateInit /\ ~checking

\* At rest, a connection in the wallet's list is alive, unless the bridge has failed:
\* its event source is open, it is not disposed, and connecting is the last thing
\* the dApp was told.
ListedMeansConnected ==
  reliable /\ AtRest /\ listed => source = "up" /\ ~disposed /\ event = "success"

\* With a reliable bridge, a connection that the user or the dApp ends leaves the
\* wallet's list for good, also when the dApp ends it before the form has listed it.
DisconnectTakesEffect == reliable /\ (disposing \/ left) ~> [](~listed)

\* "User declined the connection": once the dApp was told that the user declined
\* or ended the connection, it is not told that the wallet has connected.
DeclinedStays == [][(event = "declined" \/ event = "disconnect") => event' # "success"]_event

\* "Connection terminated", which a timer says whatever became of Dispose: at rest,
\* with a reliable bridge, a connection that the user was told to be terminated is
\* not in the wallet's list.
TerminatedMeansGone == reliable /\ AtRest /\ terminateForm = "terminated" => ~listed
=============================================================================
