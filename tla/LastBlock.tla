----------------------------- MODULE LastBlock -----------------------------
(***************************************************************************)
(* The block that the client reads accounts at: LiteClientActor::last and  *)
(* getAccountState (tonlib/comx/LiteClient.cpp), the file that keeps the   *)
(* block from one run of the program to the next (LastBlockStorage.cpp,    *)
(* and TonAdapter.Init, which writes the first one), and the adapter's     *)
(* refresh, which synchronises the block and then updates the wallet.      *)
(*                                                                         *)
(* A block of the masterchain is its sequence number, and 0 is the zero    *)
(* state.  A proof is where it leads to; that it is genuine is checked by  *)
(* cryptography and taken for granted here, and so is the account's state: *)
(* the state at block b is b.                                              *)
(*                                                                         *)
(* Of the connection, whose detail LiteClient has, only createClient is    *)
(* kept: it pings servers until one answers, and the actor handles nothing *)
(* meanwhile, the next createClient included.                              *)
(***************************************************************************)
EXTENDS Integers

CONSTANTS
  Forms,       \* the forms that read accounts besides the refresh
  KeyBlocks,   \* the key blocks
  InitBlock,   \* init_block of the configuration, or 0
  Bundled,     \* the state the program brings along
  MaxBlock,    \* bound: the newest block there ever is
  MaxRestarts, \* bound: restarts of the program
  SavesFail,   \* whether writing the file may fail
  Patient      \* whether refreshes leave a connection the time to come up

\* k is the newest key block that is not after b; the zero state counts as one.
IsNewestKey(k, b) ==
  /\ k \in KeyBlocks \cup {0} /\ k <= b
  /\ \A c \in KeyBlocks : c <= b => c <= k

State == [last : Nat, key : Nat]

ASSUME ConstantsAssumption ==
  /\ KeyBlocks \subseteq Nat \ {0}
  /\ InitBlock \in KeyBlocks \cup {0}
  /\ Bundled \in State /\ IsNewestKey(Bundled.key, Bundled.last)
  /\ MaxBlock \in Nat /\ MaxRestarts \in Nat
  /\ InitBlock <= MaxBlock /\ Bundled.last <= MaxBlock
  /\ SavesFail \in BOOLEAN /\ Patient \in BOOLEAN
  /\ "wallet" \notin Forms

Readers == Forms \cup {"wallet"}
None == -1

VARIABLES
  \* The network
  head,     \* the newest block
  server,   \* the newest block that the connected server has
  online,   \* the server answers
  \* The program
  phase,    \* "off", "copying" while Init writes the first file, "on"
  restarts,
  file,     \* ton_<name>.state: missing, torn, or a state
  state,    \* LiteClientActor::state
  pinging,  \* the actor is inside createClient's loop
  adapter,  \* what the adapter's refresh does
  from,     \* the key block that its getBlockProof starts from
  query,    \* the block that each reader's getAccountState names, or None
  given,    \* the block of the last account state that any reader was given
  wallet    \* the block of the state that the wallet shows

netVars == <<head, server, online>>
vars == <<netVars, phase, restarts, file, state, pinging, adapter, from, query, given, wallet>>

Missing == [status |-> "missing", state |-> [last |-> 0, key |-> 0]]
Torn == [status |-> "torn", state |-> [last |-> 0, key |-> 0]]
Saved(s) == [status |-> "valid", state |-> s]

Idle == [r \in Readers |-> None]

Init ==
  /\ head \in 0..MaxBlock /\ Bundled.last <= head /\ InitBlock <= head
  /\ server = head
  /\ online = TRUE
  /\ phase = "off"
  /\ restarts = 0
  /\ file = Missing
  /\ state = [last |-> 0, key |-> 0]
  /\ pinging = FALSE
  /\ adapter = "idle"
  /\ from = 0
  /\ query = Idle
  /\ given = 0
  /\ wallet = 0

-----------------------------------------------------------------------------
(* The program starts and ends *)

\* TonAdapter.Init writes the bundled state; the write is not atomic.
StartCopy ==
  /\ phase = "off" /\ file = Missing
  /\ phase' = "copying"
  /\ file' = Torn
  /\ UNCHANGED <<netVars, restarts, state, pinging, adapter, from, query, given, wallet>>

EndCopy ==
  /\ phase = "copying"
  /\ phase' = "off"
  /\ file' = Saved(Bundled)
  /\ UNCHANGED <<netVars, restarts, state, pinging, adapter, from, query, given, wallet>>

\* Mutant of ZeroState: the last block is left unset.
ZeroStateUnset == [last |-> None, key |-> InitBlock]

\* The state the client starts from when the file fails its checksum.
ZeroState == [last |-> 0, key |-> InitBlock]

\* Mutant of SaveState: only a new key block is worth saving.
SaveNewKey(s) == file' = IF s.key = file.state.key THEN file ELSE Saved(s)

\* save_state replaces the file atomically; an error is ignored.
SaveState(s) == file' \in {Saved(s)} \cup (IF SavesFail THEN {file} ELSE {})

\* The first refresh starts the client: the constructor of LiteClientActor, and
\* the first createClient.
Create ==
  /\ phase = "off" /\ file # Missing
  /\ phase' = "on"
  /\ IF file.status = "valid"
       THEN state' = file.state /\ UNCHANGED file
       ELSE state' = ZeroState /\ SaveState(ZeroState)
  /\ pinging' = TRUE
  /\ adapter' = "start"
  /\ UNCHANGED <<netVars, restarts, from, query, given, wallet>>

\* The program exits or crashes.
Restart ==
  /\ restarts < MaxRestarts
  /\ restarts' = restarts + 1
  /\ phase' = "off"
  /\ state' = [last |-> 0, key |-> 0]
  /\ pinging' = FALSE
  /\ adapter' = "idle"
  /\ from' = 0
  /\ query' = Idle
  /\ UNCHANGED <<netVars, file, given, wallet>>

-----------------------------------------------------------------------------
(* TonAdapter.OnRefresh *)

\* client.Last(): a proof from the newest known key block is asked for.
Last ==
  /\ ~pinging
  /\ adapter' = "last"
  /\ from' = state.key

\* client.Connect() is called, in the state that tells where.
Connect(at) == adapter' = at /\ UNCHANGED from

\* A refresh of the timer, or the first one once the client is started: without
\* a connection, Connect comes before Last.
Refresh ==
  /\ phase = "on"
  /\ \/ adapter = "start"
     \/ adapter = "idle" /\ (Patient => ~(pinging /\ online))
  /\ \/ Last
     \/ (~online \/ ~Patient \/ adapter = "start") /\ Connect("connect")
  /\ UNCHANGED <<netVars, phase, restarts, file, state, pinging, query, given, wallet>>

\* The actor takes the createClient that Connect posted and waits for: conn_closed
\* lets Connect return, and the loop of pings begins.
CreateClient ==
  /\ adapter \in {"connect", "reconnect"} /\ ~pinging
  /\ pinging' = TRUE
  /\ adapter' = IF adapter = "connect" THEN "check" ELSE "idle"
  /\ UNCHANGED <<netVars, phase, restarts, file, state, from, query, given, wallet>>

\* client.IsConnected && client.Last(), after the first Connect.
Check ==
  /\ adapter = "check"
  /\ Last \/ Connect("reconnect")
  /\ UNCHANGED <<netVars, phase, restarts, file, state, pinging, query, given, wallet>>

\* A server answers the ping, and the client is connected to it.
PingAnswered ==
  /\ pinging /\ online
  /\ pinging' = FALSE
  /\ server' \in 0..head
  /\ UNCHANGED <<head, online, phase, restarts, file, state, adapter, from, query, given, wallet>>

\* The newest key block among the links of a chain, or 0 when none is one
\* (BlockProofChain::validate).
IsKeyLink(k, to) ==
  \/ IsNewestKey(k, to) /\ k > from
  \/ k = 0 /\ \A c \in KeyBlocks : c <= to => c <= from

\* Mutant of Advanced: the key block is left behind.
AdvancedNotKey(to, k) == [last |-> IF state.last < to THEN to ELSE state.last, key |-> state.key]

\* The state after a chain to the block "to" with the newest key link k.
Advanced(to, k) ==
  [last |-> IF state.last < to THEN to ELSE state.last,
   key |-> IF state.key < k THEN k ELSE state.key]

\* The handler of getBlockProof; complete says that the chain leads to the
\* server's newest block.
Proof(to, k, complete) ==
  /\ adapter = "last" /\ online /\ from <= server
  /\ \/ complete /\ to = server
     \/ ~complete /\ to \in KeyBlocks /\ from < to /\ to < server
  /\ IsKeyLink(k, to)
  /\ state' = Advanced(to, k)
  /\ SaveState(state')
  /\ adapter' = IF complete THEN "update" ELSE "last"
  /\ from' = IF complete THEN 0 ELSE state'.key
  /\ UNCHANGED <<netVars, phase, restarts, pinging, query, given, wallet>>

\* Mutant of ProofFails: the proof is asked for again.
ProofAskedAgain ==
  /\ adapter = "last" /\ ~(online /\ from <= server)
  /\ from' = state.key
  /\ UNCHANGED <<netVars, phase, restarts, file, state, pinging, adapter, query, given, wallet>>

\* An error or a timeout: Last returns FALSE, and client.Connect() is to choose
\* another server.
ProofFails ==
  /\ adapter = "last" /\ ~(online /\ from <= server)
  /\ adapter' = "reconnect"
  /\ from' = 0
  /\ UNCHANGED <<netVars, phase, restarts, file, state, pinging, query, given, wallet>>

-----------------------------------------------------------------------------
(* LiteClientActor::getAccountState *)

\* The query names the last block; the server is to wait until it has it.
GetAccountState(r) ==
  /\ phase = "on" /\ ~pinging /\ query[r] = None
  /\ r = "wallet" => adapter = "update"
  /\ query' = [query EXCEPT ![r] = state.last]
  /\ UNCHANGED <<netVars, phase, restarts, file, state, pinging, adapter, from, given, wallet>>

\* A reader has its result, which comes through the actor; the refresh is over
\* when it was the wallet.
EndQuery(r) ==
  /\ ~pinging /\ query[r] # None
  /\ query' = [query EXCEPT ![r] = None]
  /\ adapter' = IF r = "wallet" THEN "idle" ELSE adapter
  /\ UNCHANGED <<netVars, phase, restarts, file, state, pinging, from>>

\* Mutants of Accepts: the answer is compared with the block that the query named;
\* with the last key block.
AcceptsNamed(b) == b \in Nat
AcceptsKey(b) == b = state.key

\* AccountState::create compares the answer's block with the client's last
\* block of now.
Accepts(b) == b = state.last

\* The answer is handed on; the wallet's is applied by TonUnknownWallet.Update.
Answer(r) ==
  /\ online /\ query[r] <= server
  /\ Accepts(query[r])
  /\ given' = query[r]
  /\ wallet' = IF r = "wallet" THEN query[r] ELSE wallet
  /\ EndQuery(r)

\* The block is another one by now, the server gave no answer in time, or the
\* client that asked was replaced, which a refresh never does to its own query.
AnswerFails(r) ==
  /\ ~(online /\ query[r] <= server) \/ ~Accepts(query[r]) \/ r # "wallet"
  /\ EndQuery(r)
  /\ UNCHANGED <<given, wallet>>

-----------------------------------------------------------------------------
(* The network *)

NewBlock ==
  /\ head < MaxBlock
  /\ head' = head + 1
  /\ UNCHANGED <<server, online, phase, restarts, file, state, pinging, adapter, from, query, given, wallet>>

ServerSyncs ==
  /\ server < head
  /\ server' = head
  /\ UNCHANGED <<head, online, phase, restarts, file, state, pinging, adapter, from, query, given, wallet>>

Outage ==
  /\ online' = ~online
  /\ UNCHANGED <<head, server, phase, restarts, file, state, pinging, adapter, from, query, given, wallet>>

-----------------------------------------------------------------------------
(* Specification *)

Sync ==
  \/ Refresh \/ CreateClient \/ Check \/ ProofFails
  \/ \E to \in 0..MaxBlock, k \in KeyBlocks \cup {0}, complete \in BOOLEAN : Proof(to, k, complete)

Next ==
  \/ StartCopy \/ EndCopy \/ Create \/ Restart
  \/ Sync \/ PingAnswered
  \/ \E r \in Readers : GetAccountState(r) \/ Answer(r) \/ AnswerFails(r)
  \/ NewBlock \/ ServerSyncs \/ Outage

Spec == Init /\ [][Next]_vars

\* The program starts, its timer refreshes the adapter, and every query ends
\* with an answer or its timeout.  Of the network only that servers synchronise,
\* and that a ping is answered once servers stay online.
FairSpec ==
  /\ Spec
  /\ WF_vars(StartCopy) /\ WF_vars(EndCopy) /\ WF_vars(Create)
  /\ WF_vars(Sync) /\ WF_vars(PingAnswered)
  /\ WF_vars(GetAccountState("wallet"))
  /\ \A r \in Readers : WF_vars(Answer(r) \/ AnswerFails(r))
  /\ WF_vars(ServerSyncs)

-----------------------------------------------------------------------------
(* Properties *)

\* Every variable has its type.
TypeOK ==
  /\ head \in Nat /\ server \in Nat /\ server <= head
  /\ online \in BOOLEAN
  /\ phase \in {"off", "copying", "on"}
  /\ restarts \in Nat
  /\ file \in [status : {"missing", "torn", "valid"}, state : State]
  /\ state \in State
  /\ pinging \in BOOLEAN
  /\ adapter \in {"idle", "start", "connect", "check", "last", "reconnect", "update"}
  /\ from \in Nat
  /\ query \in [Readers -> Nat \cup {None}]
  /\ given \in Nat /\ wallet \in Nat

\* Whatever servers the client was connected to and wherever it was stopped, it
\* goes on from the newest key block that is not after its last block, so every
\* chain it asks for can be proved.  Without a file it has no last block yet.
SyncsFromNewestKey(s) == IsNewestKey(s.key, s.last) \/ s = ZeroState
KeyIsNewest ==
  /\ phase = "on" => SyncsFromNewestKey(state)
  /\ file.status = "valid" => SyncsFromNewestKey(file.state)

\* The block of the file, as Create reads it.
Stored == IF file.status = "valid" THEN file.state.last ELSE 0

Register ==
  INSTANCE BlockRegister WITH
    Lossy <- SavesFail,
    block <- IF phase = "on" THEN state.last ELSE Stored,
    durable <- Stored,
    read <- given

\* The client, over all its runs, is a BlockRegister: an account is read at the
\* client's last block or not at all, however late answers come, that block
\* never moves back whichever server answers, and a restart continues from it.
IsRegister == Register!Spec

\* No form and no wallet is given a state older than one that was given before,
\* by this run of the program or by one before it.
ReadsForward == [][given <= given']_given

\* Whatever the network does, a refresh comes to its end, or the program is
\* stopped; only while no server ever answers a ping again does it stay in
\* connectedEvent.WaitOne.
RefreshEnds == adapter # "idle" ~> adapter = "idle" \/ []pinging

\* When the network comes to rest, the wallet shows the account at its head.
WalletCatchesUp == <>[](online /\ server = head) => <>[](wallet = head)
=============================================================================
