---------------------------- MODULE LiteClient ----------------------------
(***************************************************************************)
(* The connection to the lite servers, across three layers: the native     *)
(* actor LiteClientActor (tonlib/comx/LiteClient.h, .cpp), its managed     *)
(* wrapper LiteClient (Complex.TonLib/LiteClient.cs) with its synchronous  *)
(* Send, and TonAdapter.OnRefresh (Complex.Ton/TonAdapter.cs), which keeps *)
(* the connection alive.                                                   *)
(*                                                                         *)
(* Threads.  The actor's scheduler thread takes one message of its mailbox *)
(* after the other and runs the managed callbacks; "adapter" is the        *)
(* SingleThread of the adapter, "time" the one that Client_Connected posts *)
(* GetServerTime to, and Users are pool threads that call Send.  Every     *)
(* Send holds lock(sync) until its own query has a result.                 *)
(***************************************************************************)
EXTENDS Naturals, Sequences

CONSTANTS
  Users,    \* other threads that send synchronous queries
  MaxMail,  \* bound: the network posts no event to a mailbox this long
  Patient   \* whether refreshes leave a handshake the time to finish

ASSUME ConstantsAssumption ==
  /\ MaxMail \in Nat \ {0}
  /\ Patient \in BOOLEAN
  /\ Users \cap {"adapter", "time", "create", "ready", "closed", "none"} = {}

Threads == {"adapter", "time"} \cup Users

VARIABLES
  \* LiteClientActor
  handle,          \* the native client exists
  mailbox,         \* messages to the actor; a thread stands for its query
  native,          \* "idle", or "create": inside createClient, after conn_closed
  raising,         \* inside connectionHandler(0), before the Disconnected event
  connected,       \* LiteClientActor::connected
  \* AdnlExtClient (raw_client)
  link,            \* the connection of raw_client
  old,             \* that of the client it replaced, until its hangup
  online,          \* from now on the servers are reachable and answer
  \* LiteClient.cs
  sync,            \* holder of lock(sync), or "none"
  e,               \* the event of Send
  connectedEvent,  \* the event of Start and Connect
  query,           \* each thread's query
  pc,              \* each thread's position
  \* TonAdapter
  isConnected,
  timeDue          \* GetServerTime is posted

actorVars == <<handle, mailbox, native, raising, connected>>
netVars == <<link, old, online>>
clientVars == <<sync, e, connectedEvent, query, pc>>
adapterVars == <<isConnected, timeDue>>
vars == <<actorVars, netVars, clientVars, adapterVars>>

Init ==
  /\ handle = FALSE
  /\ mailbox = << >>
  /\ native = "idle"
  /\ raising = FALSE
  /\ connected = FALSE
  /\ link = "none"
  /\ old = "none"
  /\ online = FALSE
  /\ sync = "none"
  /\ e = FALSE
  /\ connectedEvent = FALSE
  /\ query = [t \in Threads |-> "none"]
  /\ pc = [t \in Threads |-> "idle"]
  /\ isConnected = FALSE
  /\ timeDue = FALSE

-----------------------------------------------------------------------------
(* The actor's thread *)

Take(m) ==
  /\ native = "idle" /\ ~raising
  /\ mailbox # << >> /\ Head(mailbox) = m
  /\ mailbox' = Tail(mailbox)

\* Mutant of ConnReady: Client_Connected asks for the server's time itself, so
\* the actor's thread waits for an answer that only it can deliver.
ConnReadyInline ==
  /\ Take("ready")
  /\ connected' = TRUE
  /\ connectedEvent' = TRUE
  /\ native' = "blocked"
  /\ UNCHANGED <<handle, raising, netVars, sync, e, query, pc, adapterVars>>

\* conn_ready: connectionHandler(1) sets the event, and Client_Connected posts
\* GetServerTime.
ConnReady ==
  /\ Take("ready")
  /\ IF connected
       THEN UNCHANGED <<connected, connectedEvent, timeDue>>
       ELSE /\ connected' = TRUE
            /\ connectedEvent' = TRUE
            /\ timeDue' = TRUE
  /\ UNCHANGED <<handle, native, raising, netVars, sync, e, query, pc, isConnected>>

\* conn_closed: connectionHandler(0) or (-1) sets the event; the first goes on
\* to raise Disconnected.
ConnClosed(next) ==
  /\ connected' = FALSE
  /\ connectedEvent' = TRUE
  /\ raising' = connected
  /\ native' = next

TakeClosed ==
  /\ Take("closed")
  /\ ConnClosed("idle")
  /\ UNCHANGED <<handle, netVars, sync, e, query, pc, adapterVars>>

\* createClient, up to its conn_closed.
TakeCreate ==
  /\ Take("create")
  /\ ConnClosed("create")
  /\ UNCHANGED <<handle, netVars, sync, e, query, pc, adapterVars>>

\* Client_Disconnected.
RaiseDisconnected ==
  /\ raising
  /\ raising' = FALSE
  /\ isConnected' = FALSE
  /\ UNCHANGED <<handle, mailbox, native, connected, netVars, clientVars, timeDue>>

\* The queries that raw_client has sent will end with an error.
Cancel == query' = [t \in Threads |-> IF query[t] = "sent" THEN "lost" ELSE query[t]]

\* The rest of createClient: once a server answers the ping, a new raw_client
\* takes the place of the old one, whose queries are cancelled.
CreateRawClient ==
  /\ native = "create" /\ ~raising
  /\ native' = "idle"
  /\ old' = IF link \in {"connecting", "up"} THEN link ELSE "none"
  /\ link' = "connecting"
  /\ Cancel
  /\ UNCHANGED <<handle, mailbox, raising, connected, online, sync, e, connectedEvent, pc, adapterVars>>

\* send_raw_query: without a connection the query is kept until its timeout.
TakeQuery(t) ==
  /\ Take(t)
  /\ query' = [query EXCEPT ![t] = IF link \in {"none", "down"} THEN "lost" ELSE "sent"]
  /\ UNCHANGED <<handle, native, raising, connected, netVars, sync, e, connectedEvent, pc, adapterVars>>

-----------------------------------------------------------------------------
(* The network and raw_client *)

MailboxFree == Len(mailbox) < MaxMail

ComeOnline ==
  /\ ~online
  /\ online' = TRUE
  /\ UNCHANGED <<actorVars, link, old, clientVars, adapterVars>>

\* The handshake with the server is done: on_ready.  (The hangup of the replaced
\* client is queued on the same scheduler thread, before any of this traffic.)
LinkUp ==
  /\ link = "connecting" /\ old = "none" /\ MailboxFree
  /\ link' = "up"
  /\ mailbox' = Append(mailbox, "ready")
  /\ UNCHANGED <<handle, native, raising, connected, old, online, clientVars, adapterVars>>

\* The connection closes: on_stop_ready, and the queries are cancelled.
LinkFails ==
  /\ ~online
  /\ link \in {"connecting", "up"} /\ MailboxFree
  /\ link' = "down"
  /\ mailbox' = Append(mailbox, "closed")
  /\ Cancel
  /\ UNCHANGED <<handle, native, raising, connected, old, online, sync, e, connectedEvent, pc, adapterVars>>

\* AdnlExtClientImpl::alarm opens the connection again.
Relink ==
  /\ link = "down"
  /\ link' = "connecting"
  /\ UNCHANGED <<actorVars, old, online, clientVars, adapterVars>>

\* The replaced client, whose callbacks name the same actor, still reports.
OldReports ==
  /\ old # "none" /\ MailboxFree
  /\ \/ old = "connecting" /\ old' = "up" /\ mailbox' = Append(mailbox, "ready")
     \/ ~online /\ old' = "none" /\ mailbox' = Append(mailbox, "closed")
  /\ UNCHANGED <<handle, native, raising, connected, link, online, clientVars, adapterVars>>

OldHangup ==
  /\ old # "none"
  /\ old' = "none"
  /\ UNCHANGED <<actorVars, link, online, clientVars, adapterVars>>

\* A result returns through the actor to Query.OnResult: Send's handler sets e.
Complete(t, result) ==
  /\ native = "idle" /\ ~raising
  /\ query' = [query EXCEPT ![t] = result]
  /\ e' = TRUE

QueryAnswered(t) ==
  /\ query[t] = "sent" /\ link = "up"
  /\ Complete(t, "ok")
  /\ UNCHANGED <<actorVars, netVars, sync, connectedEvent, pc, adapterVars>>

\* An error of the server, a cancelled query, or the timeout of ten seconds.
QueryFails(t) ==
  /\ \/ query[t] = "sent" /\ ~online
     \/ query[t] = "lost"
  /\ Complete(t, "error")
  /\ UNCHANGED <<actorVars, netVars, sync, connectedEvent, pc, adapterVars>>

-----------------------------------------------------------------------------
(* LiteClient.Send *)

\* Mutant of Lock: lock(sync) is missing.
LockNotAwaited(t) ==
  /\ pc[t] = "lock"
  /\ sync' = t
  /\ e' = FALSE
  /\ query' = [query EXCEPT ![t] = "posted"]
  /\ mailbox' = Append(mailbox, t)
  /\ pc' = [pc EXCEPT ![t] = "wait"]
  /\ UNCHANGED <<handle, native, raising, connected, netVars, connectedEvent, adapterVars>>

\* lock(sync), e.Reset, SendAsync.
Lock(t) ==
  /\ pc[t] = "lock" /\ sync = "none"
  /\ IF handle
       THEN /\ sync' = t
            /\ e' = FALSE
            /\ query' = [query EXCEPT ![t] = "posted"]
            /\ mailbox' = Append(mailbox, t)
            /\ pc' = [pc EXCEPT ![t] = "wait"]
       ELSE /\ pc' = [pc EXCEPT ![t] = "idle"]
            /\ UNCHANGED <<sync, e, query, mailbox>>
  /\ UNCHANGED <<handle, native, raising, connected, netVars, connectedEvent, adapterVars>>

\* e.WaitOne returns: the thread reads query.Handle.
WaitOne(t) ==
  /\ pc[t] = "wait" /\ e
  /\ pc' = [pc EXCEPT ![t] = "returned"]
  /\ UNCHANGED <<actorVars, netVars, sync, e, connectedEvent, query, adapterVars>>

\* Send returns to a caller other than OnRefresh.
SendReturns(t) ==
  /\ t # "adapter" /\ pc[t] = "returned"
  /\ sync' = "none"
  /\ pc' = [pc EXCEPT ![t] = "idle"]
  /\ query' = [query EXCEPT ![t] = "none"]
  /\ UNCHANGED <<actorVars, netVars, e, connectedEvent, adapterVars>>

UserSends(t) ==
  /\ pc[t] = "idle"
  /\ pc' = [pc EXCEPT ![t] = "lock"]
  /\ UNCHANGED <<actorVars, netVars, sync, e, connectedEvent, query, adapterVars>>

\* TonAdapter.GetServerTime on its SingleThread.
GetServerTime ==
  /\ timeDue /\ pc["time"] = "idle"
  /\ timeDue' = FALSE
  /\ pc' = [pc EXCEPT !["time"] = "lock"]
  /\ UNCHANGED <<actorVars, netVars, sync, e, connectedEvent, query, isConnected>>

-----------------------------------------------------------------------------
(* TonAdapter.OnRefresh *)

Goto(p) == pc' = [pc EXCEPT !["adapter"] = p]
At(p) == pc["adapter"] = p

\* The handshake in progress, if any, is over and reported.
Settled ==
  /\ \A i \in 1..Len(mailbox) : mailbox[i] \in Threads
  /\ native = "idle" /\ ~raising /\ link # "connecting" /\ old = "none"

\* The timer posts a refresh.
BeginRefresh ==
  /\ At("idle")
  /\ ~Patient \/ Settled
  /\ Goto(IF handle THEN "check" ELSE "start")
  /\ UNCHANGED <<actorVars, netVars, sync, e, connectedEvent, query, adapterVars>>

\* LiteClient.Start: LiteClientCreate posts the first createClient.
Start ==
  /\ At("start") /\ sync = "none"
  /\ sync' = "adapter"
  /\ handle' = TRUE
  /\ connectedEvent' = FALSE
  /\ mailbox' = Append(mailbox, "create")
  /\ Goto("startWait")
  /\ UNCHANGED <<native, raising, connected, netVars, e, query, adapterVars>>

Started ==
  /\ At("startWait") /\ connectedEvent
  /\ sync' = "none"
  /\ Goto("check")
  /\ UNCHANGED <<actorVars, netVars, e, connectedEvent, query, adapterVars>>

\* LiteClient.Connect: reset the event, post createClient, wait.
Connect(p) ==
  /\ connectedEvent' = FALSE
  /\ mailbox' = Append(mailbox, "create")
  /\ Goto(p)
  /\ UNCHANGED <<handle, native, raising, connected, netVars, sync, e, query, adapterVars>>

CheckConnected ==
  /\ At("check")
  /\ \/ ~connected /\ Connect("connectWait")
     \/ /\ connected
        /\ Goto("last")
        /\ UNCHANGED <<actorVars, netVars, sync, e, connectedEvent, query, adapterVars>>

ConnectDone ==
  /\ connectedEvent
  /\ \/ At("connectWait") /\ Goto("last")
     \/ At("reconnectWait") /\ Goto("idle")
  /\ UNCHANGED <<actorVars, netVars, sync, e, connectedEvent, query, adapterVars>>

\* client.IsConnected && client.Last()
Last ==
  /\ At("last")
  /\ Goto(IF connected THEN "lock" ELSE "reconnect")
  /\ UNCHANGED <<actorVars, netVars, sync, e, connectedEvent, query, adapterVars>>

\* Mutant of LastReturns: the branches of OnRefresh are swapped.
LastInverted ==
  /\ At("returned")
  /\ sync' = "none"
  /\ query' = [query EXCEPT !["adapter"] = "none"]
  /\ Goto(IF query["adapter"] = "error" THEN "mark" ELSE "reconnect")
  /\ UNCHANGED <<actorVars, netVars, e, connectedEvent, adapterVars>>

\* Last is Send(query) >= 0: everything but an error counts as success.
LastReturns ==
  /\ At("returned")
  /\ sync' = "none"
  /\ query' = [query EXCEPT !["adapter"] = "none"]
  /\ Goto(IF query["adapter"] = "error" THEN "reconnect" ELSE "mark")
  /\ UNCHANGED <<actorVars, netVars, e, connectedEvent, adapterVars>>

Reconnect == At("reconnect") /\ Connect("reconnectWait")

\* The refresh succeeded: raise Connected unless the flag is set.
MarkConnected ==
  /\ At("mark")
  /\ isConnected' = TRUE
  /\ Goto("idle")
  /\ UNCHANGED <<actorVars, netVars, sync, e, connectedEvent, query, timeDue>>

-----------------------------------------------------------------------------
(* Specification *)

Actor ==
  \/ ConnReady \/ TakeClosed \/ TakeCreate \/ RaiseDisconnected
  \/ \E t \in Threads : TakeQuery(t)

Refresh ==
  \/ Started \/ CheckConnected \/ ConnectDone \/ Last \/ LastReturns
  \/ Reconnect \/ MarkConnected

Next ==
  \/ Actor \/ CreateRawClient
  \/ ComeOnline \/ LinkUp \/ LinkFails \/ Relink \/ OldReports \/ OldHangup
  \/ \E t \in Threads : QueryAnswered(t) \/ QueryFails(t)
  \/ \E t \in Threads : Lock(t) \/ WaitOne(t) \/ SendReturns(t)
  \/ \E t \in Users : UserSends(t)
  \/ GetServerTime
  \/ BeginRefresh \/ Start \/ Refresh

Spec == Init /\ [][Next]_vars

\* Every thread runs; the lock is handed to each waiter in turn; queries are
\* answered or time out, handshakes succeed or fail, and a lost connection is
\* opened again.  The ping loop of createClient ends once a server is reachable.
FairSpec ==
  /\ Spec
  /\ WF_vars(Actor)
  /\ WF_vars(online /\ CreateRawClient)
  /\ WF_vars(Refresh) /\ WF_vars(BeginRefresh) /\ SF_vars(Start)
  /\ WF_vars(GetServerTime)
  /\ WF_vars(LinkUp \/ LinkFails) /\ WF_vars(Relink) /\ WF_vars(OldHangup)
  /\ \A t \in Threads :
       /\ WF_vars(QueryAnswered(t) \/ QueryFails(t))
       /\ SF_vars(Lock(t))
       /\ WF_vars(WaitOne(t))
       /\ WF_vars(SendReturns(t))

-----------------------------------------------------------------------------
(* Properties *)

\* Every variable has its type.
TypeOK ==
  /\ handle \in BOOLEAN /\ raising \in BOOLEAN /\ connected \in BOOLEAN
  /\ mailbox \in Seq({"create", "ready", "closed"} \cup Threads)
  /\ native \in {"idle", "create"}
  /\ link \in {"none", "connecting", "up", "down"}
  /\ old \in {"none", "connecting", "up"}
  /\ online \in BOOLEAN
  /\ sync \in Threads \cup {"none"}
  /\ e \in BOOLEAN /\ connectedEvent \in BOOLEAN
  /\ query \in [Threads -> {"none", "posted", "sent", "lost", "ok", "error"}]
  /\ pc \in [Threads -> {"idle", "lock", "wait", "returned", "start", "startWait",
                         "check", "connectWait", "last", "reconnect", "reconnectWait", "mark"}]
  /\ isConnected \in BOOLEAN /\ timeDue \in BOOLEAN

\* One event serves all synchronous queries, and a query without a result reads
\* as success: a thread that returns from Send has the result of its own query.
SendOwnResult == \A t \in Threads : pc[t] = "returned" => query[t] \in {"ok", "error"}

\* Once a server is reachable no refresh hangs, and no Send: the event of
\* Connect is set whatever state the actor is in, and no callback on the actor's
\* thread waits for that thread.
ThreadsReturn == <>[]online => \A t \in Threads : []<>(pc[t] = "idle")

\* Whatever stale events, cancelled queries and half-open clients the outage has
\* left, once the servers stay reachable and refreshes leave a handshake its
\* time, the actor and the adapter end up connected.
Reconnects == <>[]online => <>[](connected /\ isConnected)

=============================================================================
