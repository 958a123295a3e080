-------------------------- MODULE LastBlock_proofs --------------------------
(* Theorems about LastBlock, for every number of forms, every chain and any *)
(* behaviour of the servers.                                                *)
EXTENDS LastBlock, TLAPS

-----------------------------------------------------------------------------
(* Lemmas on the client's state *)

LEMMA StatesTyped ==
  /\ ZeroState \in State
  /\ Bundled \in State
  /\ Bundled.last \in Nat
  BY ConstantsAssumption DEF ZeroState, State

LEMMA AdvancedTyped ==
  ASSUME state \in State, NEW to \in Nat, NEW k \in Nat
  PROVE  /\ Advanced(to, k) \in State
         /\ Advanced(to, k).last >= state.last
         /\ Advanced(to, k).key \in Nat
  BY DEF Advanced, State

\* A chain from the newest key block leads to a state that has it, too.
LEMMA AdvancedNewest ==
  ASSUME state \in State, from = state.key, SyncsFromNewestKey(state),
         NEW to \in Nat, from <= to, NEW k \in KeyBlocks \cup {0}, IsKeyLink(k, to)
  PROVE  SyncsFromNewestKey(Advanced(to, k))
<1> DEFINE a == Advanced(to, k)
<1>t. /\ k \in Nat /\ state.last \in Nat /\ state.key \in Nat /\ KeyBlocks \subseteq Nat \ {0}
      /\ InitBlock \in KeyBlocks \cup {0}
  BY ConstantsAssumption DEF State
<1>a. a.last = (IF state.last < to THEN to ELSE state.last) /\ a.key = (IF state.key < k THEN k ELSE state.key)
  BY DEF Advanced
<1>b. (IsNewestKey(k, to) /\ k > state.key) \/ (k = 0 /\ \A c \in KeyBlocks : c <= to => c <= state.key)
  BY DEF IsKeyLink
<1> HIDE DEF a
<1>1. CASE IsNewestKey(state.key, state.last)
  <2>1. state.key \in KeyBlocks \cup {0} /\ state.key <= state.last
        /\ \A c \in KeyBlocks : c <= state.last => c <= state.key
    BY <1>1 DEF IsNewestKey
  <2>2. a.key \in KeyBlocks \cup {0}
    BY <1>a, <2>1
  <2>3. a.key <= a.last
    BY <1>t, <1>a, <1>b, <2>1 DEF IsNewestKey
  <2>4. \A c \in KeyBlocks : c <= a.last => c <= a.key
    BY <1>t, <1>a, <1>b, <2>1 DEF IsNewestKey
  <2> QED BY <2>2, <2>3, <2>4 DEF SyncsFromNewestKey, IsNewestKey, a
<1>2. CASE state = ZeroState
  <2>1. state.last = 0 /\ state.key = InitBlock
    BY <1>2 DEF ZeroState
  <2>2. a.key \in KeyBlocks \cup {0}
    BY <1>t, <1>a, <2>1
  <2>3. a.key <= a.last
    BY <1>t, <1>a, <1>b, <2>1 DEF IsNewestKey
  <2>4. \A c \in KeyBlocks : c <= a.last => c <= a.key
    BY <1>t, <1>a, <1>b, <2>1 DEF IsNewestKey
  <2> QED BY <2>2, <2>3, <2>4 DEF SyncsFromNewestKey, IsNewestKey, a
<1> QED BY <1>1, <1>2 DEF SyncsFromNewestKey

-----------------------------------------------------------------------------
(* The inductive invariant *)

\* Nothing is under way while the program is off, and the chain that is asked
\* for starts from the key block of the state.
RunInv ==
  /\ phase # "on" => adapter = "idle" /\ ~pinging /\ \A r \in Readers : query[r] = None
  /\ phase = "copying" => file = Torn
  /\ adapter = "last" => from = state.key

\* When no save fails, the file has the client's block, and every block that a
\* reader was given.
StoredInv ==
  SavesFail \/ (given <= Stored /\ (phase = "on" => Stored = state.last))

IInv == TypeOK /\ KeyIsNewest /\ RunInv /\ StoredInv

LEMMA SavedFields ==
  ASSUME NEW s \in State
  PROVE  /\ Saved(s) \in [status : {"missing", "torn", "valid"}, state : State]
         /\ Saved(s).status = "valid"
         /\ Saved(s).state = s
  BY DEF Saved

LEMMA UnreadableFields ==
  /\ Torn \in [status : {"missing", "torn", "valid"}, state : State] /\ Torn.status = "torn"
  /\ Missing \in [status : {"missing", "torn", "valid"}, state : State] /\ Missing.status = "missing"
  BY DEF Torn, Missing, State

LEMMA InitIInv == Init => IInv
<1> SUFFICES ASSUME Init PROVE IInv OBVIOUS
<1>1. TypeOK
  <2>1. head \in Nat /\ server \in Nat /\ server <= head
    BY ConstantsAssumption DEF Init
  <2>2. file \in [status : {"missing", "torn", "valid"}, state : State]
    BY UnreadableFields DEF Init
  <2>3. state \in State
    BY DEF Init, State
  <2>4. query \in [Readers -> Nat \cup {None}]
    BY DEF Init, Idle
  <2> QED BY <2>1, <2>2, <2>3, <2>4 DEF Init, TypeOK
<1>2. KeyIsNewest
  BY UnreadableFields DEF Init, KeyIsNewest
<1>3. RunInv
  BY DEF Init, RunInv, Idle
<1>4. StoredInv
  BY UnreadableFields DEF Init, StoredInv, Stored
<1> QED BY <1>1, <1>2, <1>3, <1>4 DEF IInv

LEMMA StepIInv == IInv /\ [Next]_vars => IInv'
<1> SUFFICES ASSUME IInv, [Next]_vars PROVE IInv' OBVIOUS
<1> USE DEF IInv
<1>0. CASE UNCHANGED vars
  BY <1>0 DEF vars, netVars, TypeOK, KeyIsNewest, RunInv, StoredInv, Stored
<1>1. CASE StartCopy
  <2>1. phase' = "copying" /\ file' = Torn /\ phase = "off" /\ file = Missing
    BY <1>1 DEF StartCopy
  <2>2. UNCHANGED <<netVars, restarts, state, pinging, adapter, from, query, given, wallet>>
    BY <1>1 DEF StartCopy
  <2>3. TypeOK'
    BY <2>1, <2>2, UnreadableFields DEF TypeOK, netVars
  <2>4. KeyIsNewest'
    BY <2>1, <2>2, UnreadableFields DEF KeyIsNewest
  <2>5. RunInv'
    BY <2>1, <2>2 DEF RunInv
  <2>6. StoredInv'
    BY <2>1, <2>2, UnreadableFields DEF StoredInv, Stored
  <2> QED BY <2>3, <2>4, <2>5, <2>6
<1>2. CASE EndCopy
  <2>1. phase' = "off" /\ file' = Saved(Bundled) /\ phase = "copying" /\ file = Torn
    BY <1>2 DEF EndCopy, RunInv
  <2>2. UNCHANGED <<netVars, restarts, state, pinging, adapter, from, query, given, wallet>>
    BY <1>2 DEF EndCopy
  <2>a. Saved(Bundled) \in [status : {"missing", "torn", "valid"}, state : State]
        /\ Saved(Bundled).status = "valid" /\ Saved(Bundled).state = Bundled
    BY StatesTyped, SavedFields
  <2>3. TypeOK'
    BY <2>1, <2>2, <2>a DEF TypeOK, netVars
  <2>4. KeyIsNewest'
    BY <2>1, <2>2, <2>a, ConstantsAssumption DEF KeyIsNewest, SyncsFromNewestKey
  <2>5. RunInv'
    BY <2>1, <2>2 DEF RunInv
  <2>6. StoredInv'
    BY <2>1, <2>2, <2>a, StatesTyped, UnreadableFields DEF StoredInv, Stored, TypeOK
  <2> QED BY <2>3, <2>4, <2>5, <2>6
<1>3. CASE Create
  <2>1. phase' = "on" /\ phase = "off"
    BY <1>3 DEF Create
  <2>2. UNCHANGED <<netVars, restarts, from, query, given, wallet>> /\ pinging' = TRUE /\ adapter' = "start"
    BY <1>3 DEF Create
  <2>a. Saved(ZeroState) \in [status : {"missing", "torn", "valid"}, state : State]
        /\ Saved(ZeroState).status = "valid" /\ Saved(ZeroState).state = ZeroState
        /\ ZeroState.last = 0
    BY StatesTyped, SavedFields DEF ZeroState
  <2>b. CASE file.status = "valid"
    <3>1. state' = file.state /\ file' = file
      BY <2>b, <1>3 DEF Create
    <3>3. TypeOK'
      BY <2>1, <2>2, <3>1 DEF TypeOK, netVars
    <3>4. KeyIsNewest'
      BY <2>1, <2>b, <3>1 DEF KeyIsNewest
    <3>5. RunInv'
      BY <2>1, <2>2 DEF RunInv
    <3>6. StoredInv'
      BY <2>1, <2>2, <2>b, <3>1 DEF StoredInv, Stored
    <3> QED BY <3>3, <3>4, <3>5, <3>6
  <2>c. CASE file.status # "valid"
    <3>1. state' = ZeroState
      BY <2>c, <1>3 DEF Create
    <3>2. file' = Saved(ZeroState) \/ (SavesFail /\ file' = file)
      BY <2>c, <1>3 DEF Create, SaveState
    <3>3. TypeOK'
      BY <2>1, <2>2, <2>a, <3>1, <3>2, StatesTyped DEF TypeOK, netVars
    <3>4. KeyIsNewest'
      BY <2>1, <2>a, <2>c, <3>1, <3>2 DEF KeyIsNewest, SyncsFromNewestKey
    <3>5. RunInv'
      BY <2>1, <2>2 DEF RunInv
    <3>6. StoredInv'
      BY <2>1, <2>2, <2>a, <2>c, <3>1, <3>2 DEF StoredInv, Stored
    <3> QED BY <3>3, <3>4, <3>5, <3>6
  <2> QED BY <2>b, <2>c
<1>4. CASE Restart
  <2>1. phase' = "off" /\ pinging' = FALSE /\ adapter' = "idle" /\ from' = 0 /\ query' = Idle
        /\ state' = [last |-> 0, key |-> 0] /\ restarts' = restarts + 1
    BY <1>4 DEF Restart
  <2>2. UNCHANGED <<netVars, file, given, wallet>>
    BY <1>4 DEF Restart
  <2>a. state' \in State /\ query' \in [Readers -> Nat \cup {None}]
    BY <2>1 DEF State, Idle
  <2>b. restarts' \in Nat /\ from' \in Nat
    BY <2>1 DEF TypeOK
  <2>d. pinging' \in BOOLEAN
    BY <2>1
  <2>c. phase' \in {"off", "copying", "on"}
        /\ adapter' \in {"idle", "start", "connect", "check", "last", "reconnect", "update"}
    BY <2>1
  <2>3. TypeOK'
    BY <2>2, <2>a, <2>b, <2>c, <2>d DEF TypeOK, netVars
  <2>4. KeyIsNewest'
    BY <2>1, <2>2 DEF KeyIsNewest
  <2>5. RunInv'
    BY <2>1, <2>2 DEF RunInv, Idle
  <2>6. StoredInv'
    BY <2>1, <2>2 DEF StoredInv, Stored
  <2> QED BY <2>3, <2>4, <2>5, <2>6
<1>5. CASE Refresh \/ CreateClient \/ Check \/ PingAnswered \/ ProofFails
  <2>1. phase = "on"
    BY <1>5 DEF Refresh, CreateClient, Check, PingAnswered, ProofFails, RunInv, TypeOK
  <2>2. UNCHANGED <<head, online, phase, restarts, file, state, query, given, wallet>>
    BY <1>5 DEF Refresh, CreateClient, Check, PingAnswered, ProofFails, netVars
  <2>3. pinging' \in BOOLEAN /\ server' \in {server} \cup 0..head
    BY <1>5 DEF Refresh, CreateClient, Check, PingAnswered, ProofFails, netVars, TypeOK
  <2>4. /\ adapter' \in {"idle", "start", "connect", "check", "last", "reconnect", "update"}
        /\ from' \in {0, from, state.key}
        /\ adapter' = "last" => from' = state.key
    BY <1>5 DEF Refresh, Check, Last, Connect, CreateClient, PingAnswered, ProofFails, TypeOK, RunInv
  <2>5. TypeOK'
    BY <2>2, <2>3, <2>4 DEF TypeOK, State
  <2>6. KeyIsNewest'
    BY <2>2 DEF KeyIsNewest
  <2>7. RunInv'
    BY <2>1, <2>2, <2>4 DEF RunInv
  <2>8. StoredInv'
    BY <2>2 DEF StoredInv, Stored
  <2> QED BY <2>5, <2>6, <2>7, <2>8
<1>7. CASE \E to \in 0..MaxBlock, k \in KeyBlocks \cup {0}, complete \in BOOLEAN : Proof(to, k, complete)
  <2> PICK to \in 0..MaxBlock, k \in KeyBlocks \cup {0}, complete \in BOOLEAN : Proof(to, k, complete)
    BY <1>7
  <2> DEFINE a == Advanced(to, k)
  <2>t. to \in Nat /\ k \in Nat /\ state \in State /\ from \in Nat /\ server \in Nat
    BY ConstantsAssumption DEF TypeOK
  <2>1. adapter = "last" /\ from <= server /\ IsKeyLink(k, to) /\ state' = a
    BY DEF Proof
  <2>2. UNCHANGED <<netVars, phase, restarts, pinging, query, given, wallet>>
    BY DEF Proof
  <2>3. adapter' \in {"update", "last"} /\ (adapter' = "last" => from' = state'.key) /\ from' \in {0, state'.key}
    BY DEF Proof
  <2>4. phase = "on" /\ from = state.key
    BY <2>1 DEF RunInv, TypeOK
  <2>5. from <= to
    BY <2>1, <2>t DEF Proof
  <2>6. a \in State /\ a.last >= state.last /\ a.key \in Nat
    BY <2>t, AdvancedTyped
  <2>7. SyncsFromNewestKey(state)
    BY <2>4 DEF KeyIsNewest
  <2>8. SyncsFromNewestKey(a)
    BY <2>1, <2>4, <2>5, <2>7, <2>t, AdvancedNewest
  <2> HIDE DEF a
  <2>9. file' = Saved(a) \/ (SavesFail /\ file' = file)
    BY <2>1 DEF Proof, SaveState
  <2>a. Saved(a) \in [status : {"missing", "torn", "valid"}, state : State]
        /\ Saved(a).status = "valid" /\ Saved(a).state = a
    BY <2>6, SavedFields
  <2>b. TypeOK'
    BY <2>1, <2>2, <2>3, <2>6, <2>9, <2>a DEF TypeOK, netVars
  <2>c. KeyIsNewest'
    BY <2>1, <2>2, <2>8, <2>9, <2>a DEF KeyIsNewest
  <2>d. RunInv'
    BY <2>2, <2>3, <2>4 DEF RunInv
  <2>e. StoredInv'
    BY <2>1, <2>2, <2>4, <2>6, <2>9, <2>a, <2>t DEF StoredInv, Stored, TypeOK, State
  <2> QED BY <2>b, <2>c, <2>d, <2>e
<1>8. ASSUME NEW r \in Readers, GetAccountState(r) PROVE IInv'
  <2>1. phase = "on" /\ query' = [query EXCEPT ![r] = state.last]
    BY <1>8 DEF GetAccountState
  <2>2. UNCHANGED <<netVars, phase, restarts, file, state, pinging, adapter, from, given, wallet>>
    BY <1>8 DEF GetAccountState
  <2>3. TypeOK'
    BY <2>1, <2>2 DEF TypeOK, netVars, State
  <2>4. KeyIsNewest'
    BY <2>2 DEF KeyIsNewest
  <2>5. RunInv'
    BY <2>1, <2>2 DEF RunInv
  <2>6. StoredInv'
    BY <2>2 DEF StoredInv, Stored
  <2> QED BY <2>3, <2>4, <2>5, <2>6
<1>9. ASSUME NEW r \in Readers, Answer(r) \/ AnswerFails(r) PROVE IInv'
  <2>1. query[r] # None /\ query' = [query EXCEPT ![r] = None] /\ ~pinging
        /\ (adapter' = adapter \/ adapter' = "idle")
    BY <1>9 DEF Answer, AnswerFails, EndQuery
  <2>2. UNCHANGED <<netVars, phase, restarts, file, state, pinging, from>>
    BY <1>9 DEF Answer, AnswerFails, EndQuery
  <2>3. phase = "on" /\ query[r] \in Nat
    BY <2>1 DEF RunInv, TypeOK
  <2>4. (given' = state.last \/ given' = given) /\ wallet' \in {query[r], wallet}
    BY <1>9 DEF Answer, AnswerFails, Accepts
  <2>5. TypeOK'
    BY <2>1, <2>2, <2>3, <2>4 DEF TypeOK, netVars, State
  <2>6. KeyIsNewest'
    BY <2>2 DEF KeyIsNewest
  <2>7. RunInv'
    BY <2>1, <2>2, <2>3 DEF RunInv
  <2>8. StoredInv'
    BY <2>2, <2>3, <2>4 DEF StoredInv, Stored, TypeOK, State
  <2> QED BY <2>5, <2>6, <2>7, <2>8
<1>10. CASE NewBlock \/ ServerSyncs \/ Outage
  <2>1. head' \in {head, head + 1} /\ server' \in {server, head'} /\ online' \in BOOLEAN
    BY <1>10 DEF NewBlock, ServerSyncs, Outage, TypeOK
  <2>2. UNCHANGED <<phase, restarts, file, state, pinging, adapter, from, query, given, wallet>>
    BY <1>10 DEF NewBlock, ServerSyncs, Outage
  <2>3. TypeOK'
    BY <2>1, <2>2 DEF TypeOK
  <2>4. KeyIsNewest'
    BY <2>2 DEF KeyIsNewest
  <2>5. RunInv'
    BY <2>2 DEF RunInv
  <2>6. StoredInv'
    BY <2>2 DEF StoredInv, Stored
  <2> QED BY <2>3, <2>4, <2>5, <2>6
<1> QED
  BY <1>0, <1>1, <1>2, <1>3, <1>4, <1>5, <1>7, <1>8, <1>9, <1>10 DEF Next, Sync

\* The inductive invariant holds in every reachable state.
THEOREM Invariance == Spec => []IInv
  BY InitIInv, StepIInv, PTL DEF Spec

\* Every variable has its type (tonlib/comx/LiteClient.cpp: state; the file of
\* LastBlockStorage; TonAdapter's refresh).
THEOREM TypeCorrect == Spec => []TypeOK
<1>1. IInv => TypeOK
  BY DEF IInv
<1> QED BY Invariance, <1>1, PTL

\* LiteClientActor::last goes on from the newest key block that is not after its
\* last block, in memory and in the file, for any servers and any restarts.
THEOREM KeyIsNewestHolds == Spec => []KeyIsNewest
<1>1. IInv => KeyIsNewest
  BY DEF IInv
<1> QED BY Invariance, <1>1, PTL

-----------------------------------------------------------------------------
(* The refinement *)

LEMMA RegisterInit == Init => Register!Init
  BY UnreadableFields DEF Init, Register!Init, Stored

LEMMA RegisterStep == IInv /\ [Next]_vars => [Register!Next]_(Register!vars)
<1> SUFFICES ASSUME IInv, [Next]_vars PROVE [Register!Next]_(Register!vars) OBVIOUS
<1> DEFINE block == IF phase = "on" THEN state.last ELSE Stored
<1>t. state.last \in Nat /\ Stored \in Nat /\ SavesFail \in BOOLEAN
  BY ConstantsAssumption DEF IInv, TypeOK, State, Stored
<1>s. ASSUME UNCHANGED <<phase, file, state, given>> PROVE [Register!Next]_(Register!vars)
  BY <1>s DEF Register!vars, Stored
<1>0. CASE UNCHANGED vars
  BY <1>0, <1>s DEF vars
<1>1. CASE StartCopy
  BY <1>1, UnreadableFields DEF StartCopy, Register!vars, Stored
<1>2. CASE EndCopy
  <2>1. phase = "copying" /\ phase' = "off" /\ file = Torn /\ file' = Saved(Bundled) /\ given' = given
    BY <1>2 DEF EndCopy, IInv, RunInv
  <2>2. Stored = 0 /\ Stored' = Bundled.last /\ Bundled.last \in Nat
    BY <2>1, UnreadableFields, StatesTyped, SavedFields DEF Stored
  <2>3. Register!Write
    BY <2>1, <2>2 DEF Register!Write
  <2> QED BY <2>3 DEF Register!Next
<1>3. CASE Create
  <2>1. phase = "off" /\ phase' = "on" /\ given' = given
    BY <1>3 DEF Create
  <2>2. CASE file.status = "valid"
    <3>1. state' = file.state /\ file' = file
      BY <1>3, <2>2 DEF Create
    <3> QED BY <2>1, <2>2, <3>1 DEF Register!vars, Stored
  <2>3. CASE file.status # "valid"
    <3>1. state' = ZeroState /\ (file' = Saved(ZeroState) \/ file' = file)
      BY <1>3, <2>3 DEF Create, SaveState
    <3>2. Saved(ZeroState).status = "valid" /\ Saved(ZeroState).state = ZeroState
      BY StatesTyped, SavedFields
    <3>3. state'.last = 0 /\ Stored = 0 /\ Stored' = 0
      BY <2>3, <3>1, <3>2 DEF Stored, ZeroState
    <3> QED BY <2>1, <3>3 DEF Register!vars
  <2> QED BY <2>2, <2>3
<1>4. CASE Restart
  <2>1. phase' = "off" /\ file' = file /\ given' = given
    BY <1>4 DEF Restart
  <2>2. Register!Restart
    BY <2>1 DEF Register!Restart, Stored
  <2> QED BY <2>2 DEF Register!Next
<1>5. CASE Refresh \/ CreateClient \/ Check
  BY <1>5, <1>s DEF Refresh, CreateClient, Check
<1>6. CASE PingAnswered \/ ProofFails
  BY <1>6, <1>s DEF PingAnswered, ProofFails
<1>7. CASE \E to \in 0..MaxBlock, k \in KeyBlocks \cup {0}, complete \in BOOLEAN : Proof(to, k, complete)
  <2> PICK to \in 0..MaxBlock, k \in KeyBlocks \cup {0}, complete \in BOOLEAN : Proof(to, k, complete)
    BY <1>7
  <2>t. to \in Nat /\ k \in Nat /\ state \in State
    BY ConstantsAssumption DEF IInv, TypeOK
  <2>1. Advanced(to, k) \in State /\ Advanced(to, k).last >= state.last
    BY <2>t, AdvancedTyped
  <2>2. state' = Advanced(to, k) /\ (file' = Saved(state') \/ (SavesFail /\ file' = file))
    BY DEF Proof, SaveState
  <2>3. phase = "on" /\ phase' = "on" /\ given' = given
    BY DEF Proof, IInv, RunInv, TypeOK
  <2>4. state'.last \in Nat /\ state'.last >= state.last
    BY <2>1, <2>2 DEF State
  <2>5. Stored' = state'.last \/ (SavesFail /\ Stored' = Stored)
    BY <2>1, <2>2, SavedFields DEF Stored
  <2>6. Register!Write
    BY <2>3, <2>4, <2>5 DEF Register!Write
  <2> QED BY <2>6 DEF Register!Next
<1>8. ASSUME NEW r \in Readers, GetAccountState(r) PROVE [Register!Next]_(Register!vars)
  BY <1>8, <1>s DEF GetAccountState
<1>9. ASSUME NEW r \in Readers, Answer(r) PROVE [Register!Next]_(Register!vars)
  <2>1. UNCHANGED <<phase, file, state>> /\ given' = state.last /\ query[r] # None
    BY <1>9 DEF Answer, EndQuery, Accepts
  <2>2. phase = "on"
    BY <2>1 DEF IInv, RunInv
  <2>3. Register!Read
    BY <2>1, <2>2 DEF Register!Read, Stored
  <2> QED BY <2>3 DEF Register!Next
<1>10. ASSUME NEW r \in Readers, AnswerFails(r) PROVE [Register!Next]_(Register!vars)
  BY <1>10, <1>s DEF AnswerFails, EndQuery
<1>11. CASE NewBlock \/ ServerSyncs \/ Outage
  BY <1>11, <1>s DEF NewBlock, ServerSyncs, Outage
<1> QED
  BY <1>0, <1>1, <1>2, <1>3, <1>4, <1>5, <1>6, <1>7, <1>8, <1>9, <1>10, <1>11 DEF Next, Sync

\* The client, over all its runs, is a BlockRegister: getAccountState reads at the
\* last block or not at all, last() only moves it forward, and the constructor
\* finds what save_state wrote.
THEOREM RegisterImplemented == Spec => IsRegister
  BY Invariance, RegisterInit, RegisterStep, PTL DEF Spec, IsRegister, Register!Spec

\* When save_state's writes succeed, no reader is given an account state older
\* than one that any reader was given before, in this run or an earlier one.
THEOREM ReadsForwardHolds == ASSUME ~SavesFail PROVE Spec => ReadsForward
<1>1. IInv /\ [Next]_vars => [given <= given']_given
  <2> SUFFICES ASSUME IInv, [Next]_vars, given' # given PROVE given <= given'
    OBVIOUS
  <2>1. PICK r \in Readers : Answer(r)
    BY DEF Next, Sync, vars, StartCopy, EndCopy, Create, Restart, Refresh, CreateClient, Check, PingAnswered,
         ProofFails, Proof,
         GetAccountState, AnswerFails, NewBlock, ServerSyncs, Outage
  <2>2. given' = state.last /\ phase = "on"
    BY <2>1 DEF Answer, EndQuery, Accepts, IInv, RunInv
  <2>3. given <= Stored /\ Stored = state.last
    BY <2>2 DEF IInv, StoredInv
  <2> QED BY <2>2, <2>3
<1> QED BY Invariance, <1>1, PTL DEF Spec, ReadsForward
=============================================================================
