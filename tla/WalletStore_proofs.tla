------------------------- MODULE WalletStore_proofs -------------------------
(***************************************************************************)
(* No form takes the key of a listed wallet away, and a deletion takes the *)
(* wallet off the list, for any number of forms, wallets, keys and         *)
(* restarts.                                                               *)
(***************************************************************************)
EXTENDS WalletStore, TLAPS

Panels == {"closed", "main", "wait", "words", "ready", "done", "error", "info",
           "passwords", "doneFile"}
Jobs == {"none", "create", "import", "checkCreated", "checkImported", "wallet", "file"}

\* What the panel and the job of a form tell of its fields.
Fields(f) ==
  /\ job[f] # "none" => step[f] \in {"wait", "closed"}
  /\ step[f] = "closed" => keyData[f] = 0
  /\ wallet[f] # 0 <=> step[f] \in {"done", "doneFile"}
  /\ step[f] = "done" => wallet[f] = keyData[f]
  /\ step[f] = "doneFile" => wallet[f] # keyData[f]
  /\ step[f] \in {"words", "ready"} => keyData[f] # 0
  /\ job[f] \in {"checkCreated", "checkImported", "wallet"} /\ step[f] # "closed" => keyData[f] # 0
  /\ step[f] = "info" => shown[f] # NoFile
  /\ step[f] = "passwords" => shown[f] # NoFile /\ captured[f] # NoFile
  /\ job[f] = "file" /\ step[f] # "closed" => captured[f] # NoFile /\ shown[f] # NoFile

\* The keys that the form f has made and nobody has listed yet.
Holds(f, k) == k # 0 /\ (keyData[f] = k \/ wallet[f] = k)

\* A key is held by one form, and is in no list, while its file exists.
Private(f) ==
  \A k \in 1..Len(made) :
    Holds(f, k) =>
      /\ k \in disk /\ k \notin erased
      /\ \A w \in Words : wallets[w] # k /\ saved[w] # k
      /\ \A g \in Forms : Holds(g, k) => g = f

\* A list has a key of the address's own words.
OwnKeys(list) == \A w \in Words : list[w] # 0 => made[list[w]].words = w

\* The deletion is of a key in "erased".
Victim ==
  /\ victim \in {0} \cup erased
  /\ victim = 0 <=> deleting = "idle"

\* The inductive invariant.
IInv ==
  /\ TypeOK
  /\ \A f \in Forms : Fields(f) /\ Private(f)
  /\ OwnKeys(wallets) /\ OwnKeys(saved)
  /\ Victim
  /\ ListedHasKey

-----------------------------------------------------------------------------
(* Helpers *)

\* A key that is saved gets the next number and a file.
LEMMA KeySaved ==
  ASSUME TypeOK, NEW k \in Key, SaveKey(k)
  PROVE  /\ made' \in Seq(Key) /\ Len(made') = Len(made) + 1 /\ Len(made) \in Nat
         /\ \A i \in 1..Len(made) : made'[i] = made[i]
         /\ made'[Len(made) + 1] = k
         /\ disk' = disk \cup {Len(made) + 1}
BY DEF TypeOK, SaveKey

\* What a form shows next, when only its panels and jobs change.
LEMMA PanelsOnly ==
  ASSUME IInv, UNCHANGED <<keyVars, listVars, deleteVars, keyData, wallet>>,
         files' \subseteq File,
         step' \in [Forms -> Panels], job' \in [Forms -> Jobs],
         shown' \in [Forms -> File \cup {NoFile}], captured' \in [Forms -> File \cup {NoFile}],
         \A f \in Forms : Fields(f)'
  PROVE  IInv'
<1>1. /\ made' = made /\ disk' = disk /\ wallets' = wallets /\ saved' = saved /\ restarts' = restarts
      /\ deleting' = deleting /\ victim' = victim /\ erased' = erased
      /\ keyData' = keyData /\ wallet' = wallet
  BY DEF keyVars, listVars, deleteVars
<1>2. TypeOK'
  BY <1>1 DEF IInv, TypeOK, Panels, Jobs
<1>3. \A f \in Forms : Private(f)'
  BY <1>1 DEF IInv, Private, Holds
<1>4. OwnKeys(wallets)' /\ OwnKeys(saved)' /\ Victim' /\ ListedHasKey'
  BY <1>1 DEF IInv, OwnKeys, Victim, ListedHasKey
<1> QED BY <1>2, <1>3, <1>4 DEF IInv

\* Panels and jobs of a form whose key, wallet and files do not change.
LEMMA PanelTurned ==
  ASSUME IInv, NEW f \in Forms, NEW p \in Panels, NEW j \in Jobs,
         step' = [step EXCEPT ![f] = p], job' = [job EXCEPT ![f] = j],
         UNCHANGED <<keyVars, files, listVars, deleteVars, keyData, wallet>>,
         shown' \in [Forms -> File \cup {NoFile}], captured' \in [Forms -> File \cup {NoFile}],
         \A g \in Forms \ {f} : shown'[g] = shown[g] /\ captured'[g] = captured[g],
         Fields(f)'
  PROVE  IInv'
<1>1. keyData' = keyData /\ wallet' = wallet /\ files' = files
  OBVIOUS
<1>2. step' \in [Forms -> Panels] /\ job' \in [Forms -> Jobs] /\ files' \subseteq File
  BY <1>1 DEF IInv, TypeOK, Panels, Jobs
<1>3. \A g \in Forms \ {f} : step'[g] = step[g] /\ job'[g] = job[g]
  BY DEF IInv, TypeOK
<1>4. ASSUME NEW g \in Forms, g # f PROVE Fields(g)'
  BY <1>1, <1>3, <1>4 DEF IInv, Fields
<1> QED BY <1>2, <1>4, PanelsOnly

\* A key is added that only the form f may hold.
LEMMA KeyAdded ==
  ASSUME IInv, NEW f \in Forms, NEW k \in Key, SaveKey(k),
         UNCHANGED <<files, listVars, fileVars, deleteVars>>,
         step' \in [Forms -> Panels], job' \in [Forms -> Jobs],
         keyData' \in [Forms -> 0..Len(made) + 1], wallet' \in [Forms -> 0..Len(made) + 1],
         \A g \in Forms, i \in Nat : Holds(g, i)' => Holds(g, i) \/ (g = f /\ i = Len(made) + 1),
         \A g \in Forms : Fields(g)'
  PROVE  IInv'
<1>1. /\ wallets' = wallets /\ saved' = saved /\ restarts' = restarts /\ files' = files
      /\ deleting' = deleting /\ victim' = victim /\ erased' = erased
      /\ shown' = shown /\ captured' = captured
  BY DEF listVars, deleteVars, fileVars
<1>2. /\ made' \in Seq(Key) /\ Len(made') = Len(made) + 1 /\ Len(made) \in Nat
      /\ \A i \in 1..Len(made) : made'[i] = made[i]
      /\ disk' = disk \cup {Len(made) + 1}
  BY KeySaved DEF IInv
<1>3. TypeOK'
  <2>1. TypeOK
    BY DEF IInv
  <2>2. disk' \subseteq 1..Len(made') /\ erased' \subseteq 1..Len(made') /\ victim' \in 0..Len(made')
    <3>1. disk \subseteq 1..Len(made) /\ erased \subseteq 1..Len(made) /\ victim \in 0..Len(made)
      BY <2>1 DEF TypeOK
    <3>2. 1..Len(made') = 1..Len(made) \cup {Len(made) + 1} /\ 0..Len(made) \subseteq 0..Len(made')
      BY <1>2
    <3> QED BY <3>1, <3>2, <1>1, <1>2
  <2>3. wallets' \in [Words -> 0..Len(made')] /\ saved' \in [Words -> 0..Len(made')]
    BY <2>1, <1>1, <1>2 DEF TypeOK
  <2>4. keyData' \in [Forms -> 0..Len(made')] /\ wallet' \in [Forms -> 0..Len(made')]
    BY <1>2
  <2> QED BY <2>1, <2>2, <2>3, <2>4, <1>1, <1>2 DEF TypeOK, Panels, Jobs
<1>4. ASSUME NEW g \in Forms PROVE Private(g)'
  <2> SUFFICES ASSUME NEW i \in 1..Len(made'), Holds(g, i)'
               PROVE  /\ i \in disk' /\ i \notin erased'
                      /\ \A w \in Words : wallets'[w] # i /\ saved'[w] # i
                      /\ \A h \in Forms : Holds(h, i)' => h = g
    BY DEF Private
  <2>1. Holds(g, i) \/ (g = f /\ i = Len(made) + 1)
    BY <1>2
  <2>2. \A h \in Forms : Holds(h, i) => i \in 1..Len(made)
    BY <1>2 DEF IInv, TypeOK, Holds
  <2>3. CASE i = Len(made) + 1
    <3>1. ~Holds(g, i) /\ \A h \in Forms : Holds(h, i)' => h = f
      BY <2>2, <2>3, <1>2
    <3>2. i \notin erased /\ \A w \in Words : wallets[w] # i /\ saved[w] # i
      BY <1>2, <2>3 DEF IInv, TypeOK
    <3> QED BY <3>1, <3>2, <2>1, <2>3, <1>1, <1>2
  <2>4. CASE i # Len(made) + 1
    <3>1. Holds(g, i) /\ i \in 1..Len(made)
      BY <2>1, <2>2, <2>4
    <3>2. \A h \in Forms : Holds(h, i)' => Holds(h, i)
      BY <2>4, <1>2
    <3>3. Private(g)
      BY DEF IInv
    <3> QED BY <3>1, <3>2, <3>3, <1>1, <1>2 DEF Private
  <2> QED BY <2>3, <2>4
<1>5. OwnKeys(wallets)' /\ OwnKeys(saved)'
  <2>1. \A w \in Words : wallets[w] \in 0..Len(made) /\ saved[w] \in 0..Len(made)
    BY DEF IInv, TypeOK
  <2>2. OwnKeys(wallets) /\ OwnKeys(saved)
    BY DEF IInv
  <2>3. \A i \in 0..Len(made) : i # 0 => made'[i].words = made[i].words
    BY <1>2
  <2> QED BY <2>1, <2>2, <2>3, <1>1 DEF OwnKeys
<1>6. Victim' /\ ListedHasKey'
  BY <1>1, <1>2 DEF IInv, Victim, ListedHasKey
<1> QED BY <1>3, <1>4, <1>5, <1>6 DEF IInv

\* A form closes, and with it the key files "gone" that no list has.
LEMMA FormClosed ==
  ASSUME IInv, NEW f \in Forms, Dispose(f), NEW gone \in {{}, {keyData[f]}},
         disk' = disk \ gone,
         UNCHANGED <<made, files, saved, restarts, deleteVars>>,
         job[f] = "none" \/ wallet[f] = 0,
         \/ wallets' = wallets
         \/ wallet[f] # 0 /\ wallet[f] \notin gone
            /\ wallets' = [wallets EXCEPT ![made[wallet[f]].words] = wallet[f]]
  PROVE  IInv'
<1>1. /\ saved' = saved /\ restarts' = restarts /\ files' = files /\ made' = made
      /\ deleting' = deleting /\ victim' = victim /\ erased' = erased /\ job' = job
  BY DEF deleteVars, Dispose
<1>2. /\ step' = [step EXCEPT ![f] = "closed"] /\ keyData' = [keyData EXCEPT ![f] = 0]
      /\ shown' = [shown EXCEPT ![f] = NoFile] /\ captured' = [captured EXCEPT ![f] = NoFile]
      /\ wallet' = [wallet EXCEPT ![f] = 0]
  BY DEF Dispose
<1>3. /\ Len(made) \in Nat /\ keyData[f] \in 0..Len(made) /\ wallet[f] \in 0..Len(made)
      /\ \A i \in 1..Len(made) : made[i].words \in Words
  <2>1. \A i \in 1..Len(made) : made[i] \in Key
    BY DEF IInv, TypeOK
  <2> QED BY <2>1 DEF IInv, TypeOK, Key
<1>4. wallets' \in [Words -> 0..Len(made)]
  BY <1>3 DEF IInv, TypeOK
<1>5. \A w \in Words : wallets'[w] # wallets[w] =>
         /\ wallet[f] \in 1..Len(made) /\ wallets'[w] = wallet[f] /\ wallet[f] \notin gone
         /\ w = made[wallet[f]].words
  BY <1>3 DEF IInv, TypeOK
<1>6. TypeOK'
  <2>1. TypeOK
    BY DEF IInv
  <2>2. disk' \subseteq 1..Len(made')
    BY <2>1, <1>1 DEF TypeOK
  <2>3. /\ step' \in [Forms -> Panels]
        /\ keyData' \in [Forms -> 0..Len(made)] /\ wallet' \in [Forms -> 0..Len(made)]
    BY <2>1, <1>2, <1>3 DEF TypeOK, Panels
  <2>4. shown' \in [Forms -> File \cup {NoFile}] /\ captured' \in [Forms -> File \cup {NoFile}]
    BY <2>1, <1>2 DEF TypeOK
  <2> QED BY <2>1, <2>2, <2>3, <2>4, <1>1, <1>4 DEF TypeOK, Panels
<1>7. ASSUME NEW g \in Forms PROVE Fields(g)'
  <2>1. CASE g = f
    BY <1>1, <1>2, <2>1 DEF IInv, Fields, TypeOK
  <2>2. CASE g # f
    <3>1. /\ step'[g] = step[g] /\ job'[g] = job[g] /\ keyData'[g] = keyData[g]
          /\ wallet'[g] = wallet[g] /\ shown'[g] = shown[g] /\ captured'[g] = captured[g]
      BY <1>1, <1>2, <2>2 DEF IInv, TypeOK
    <3> QED BY <3>1 DEF IInv, Fields
  <2> QED BY <2>1, <2>2
<1>8. \A g \in Forms, i \in 1..Len(made) : Holds(g, i)' => Holds(g, i) /\ g # f
  BY <1>2, <1>3 DEF Holds, IInv, TypeOK
<1>9. Holds(f, wallet[f]) \/ wallet[f] = 0
  BY DEF Holds
<1>10. Holds(f, keyData[f]) \/ keyData[f] = 0
  BY DEF Holds
<1>11. ASSUME NEW g \in Forms PROVE Private(g)'
  <2> SUFFICES ASSUME NEW i \in 1..Len(made), Holds(g, i)'
               PROVE  /\ i \in disk' /\ i \notin erased'
                      /\ \A w \in Words : wallets'[w] # i /\ saved'[w] # i
                      /\ \A h \in Forms : Holds(h, i)' => h = g
    BY <1>1 DEF Private
  <2>1. Holds(g, i) /\ g # f /\ Private(g)
    BY <1>8 DEF IInv
  <2>2. /\ i \in disk /\ i \notin erased
        /\ \A w \in Words : wallets[w] # i /\ saved[w] # i
        /\ \A h \in Forms : Holds(h, i) => h = g
    BY <2>1 DEF Private
  <2>3. wallet[f] # i /\ keyData[f] # i
    BY <2>1, <2>2, <1>3 DEF Holds
  <2> QED BY <2>2, <2>3, <1>1, <1>5, <1>8
<1>12. OwnKeys(wallets)' /\ OwnKeys(saved)'
  BY <1>1, <1>5 DEF IInv, OwnKeys
<1>13. \A w \in Words : /\ wallets[w] = 0 \/ wallets[w] \notin gone
                        /\ saved[w] = 0 \/ saved[w] \notin gone
  <2>1. keyData[f] # 0 => \A w \in Words : wallets[w] # keyData[f] /\ saved[w] # keyData[f]
    BY <1>3, <1>10 DEF IInv, Private
  <2> QED BY <2>1
<1>14. wallet[f] = 0 \/ wallet[f] \in disk
  BY <1>3, <1>9 DEF IInv, Private
<1>15. ASSUME NEW w \in Words
       PROVE  /\ \/ wallets'[w] \in {0} \cup disk'
                 \/ wallets'[w] = victim'
                 \/ restarts' > 0 /\ wallets'[w] \in erased'
              /\ saved'[w] \in {0} \cup disk' \cup erased'
  <2>1. /\ wallets[w] = 0 \/ wallets[w] \notin gone
        /\ saved[w] = 0 \/ saved[w] \notin gone
    BY <1>13
  <2>2. CASE wallets'[w] = wallets[w]
    BY <1>1, <2>1, <2>2 DEF IInv, ListedHasKey
  <2>3. CASE wallets'[w] # wallets[w]
    BY <1>1, <1>5, <1>14, <2>1, <2>3 DEF IInv, ListedHasKey
  <2> QED BY <2>2, <2>3
<1>16. Victim' /\ ListedHasKey'
  BY <1>1, <1>15 DEF IInv, Victim, ListedHasKey
<1> QED BY <1>6, <1>7, <1>11, <1>12, <1>16 DEF IInv
-----------------------------------------------------------------------------
(* The actions *)

\* The first state satisfies the invariant.
LEMMA InitIInv == Init => IInv
<1> SUFFICES ASSUME Init PROVE IInv
  OBVIOUS
<1>1. made = << >> /\ Len(made) = 0 /\ made \in Seq(Key)
  BY DEF Init
<1>2. TypeOK
  BY <1>1 DEF Init, TypeOK, Closed, Nothing, NoFiles
<1>3. \A f \in Forms : Fields(f)
  BY DEF Init, Fields, Closed, Nothing
<1>4. \A f \in Forms : Private(f)
  BY <1>1 DEF Private
<1>5. OwnKeys(wallets) /\ OwnKeys(saved) /\ Victim /\ ListedHasKey
  BY DEF Init, OwnKeys, Victim, ListedHasKey
<1> QED BY <1>2, <1>3, <1>4, <1>5 DEF IInv

\* Steps between panels that start or end a job.
LEMMA TurnStep ==
  ASSUME IInv, NEW f \in Forms,
         NEW from, NEW to \in Panels, Turn(f, from, to),
         <<from, to>> \in {<<"words", "ready">>, <<"words", "main">>, <<"info", "main">>,
                          <<"passwords", "info">>}
  PROVE  IInv'
<1>1. step[f] = from /\ step' = [step EXCEPT ![f] = to] /\ job' = job
      /\ UNCHANGED <<keyVars, files, listVars, deleteVars, keyData, wallet>>
      /\ shown' = shown /\ captured' = captured
  BY DEF Turn, fileVars
<1>2. job[f] \in Jobs /\ job' = [job EXCEPT ![f] = job[f]]
  BY <1>1 DEF IInv, TypeOK, Jobs
<1>3. shown' \in [Forms -> File \cup {NoFile}] /\ captured' \in [Forms -> File \cup {NoFile}]
  BY <1>1 DEF IInv, TypeOK
<1>4. step'[f] = to
  BY <1>1 DEF IInv, TypeOK
<1>5. Fields(f)'
  BY <1>1, <1>4 DEF IInv, Fields
<1> QED BY <1>1, <1>2, <1>3, <1>5, PanelTurned

LEMMA WaitsStep ==
  ASSUME IInv, NEW f \in Forms, NEW what, Waits(f, what),
         \/ step[f] = "main" /\ what \in {"create", "import"}
         \/ step[f] = "ready" /\ what = "wallet"
         \/ step[f] = "passwords" /\ what = "file"
  PROVE  IInv'
<1>1. step' = [step EXCEPT ![f] = "wait"] /\ job' = [job EXCEPT ![f] = what]
      /\ UNCHANGED <<keyVars, files, listVars, deleteVars, keyData, wallet>>
      /\ shown' = shown /\ captured' = captured
  BY DEF Waits, fileVars
<1>2. shown' \in [Forms -> File \cup {NoFile}] /\ captured' \in [Forms -> File \cup {NoFile}]
  BY <1>1 DEF IInv, TypeOK
<1>3. step'[f] = "wait" /\ job'[f] = what
  BY <1>1 DEF IInv, TypeOK
<1>4. Fields(f)'
  BY <1>1, <1>3 DEF IInv, Fields
<1>5. "wait" \in Panels /\ what \in Jobs
  BY DEF Panels, Jobs
<1> QED BY <1>1, <1>2, <1>4, <1>5, PanelTurned

\* Opening the form, and what its timer and its failures show.
LEMMA ShowStep ==
  ASSUME IInv, NEW f \in Forms, Open(f) \/ GetKeyDataFails(f) \/ CheckListed(f)
  PROVE  IInv'
<1>1. PICK p \in Panels :
        /\ step' = [step EXCEPT ![f] = p] /\ job' = [job EXCEPT ![f] = "none"]
        /\ step[f] = "closed" => p \in {"closed", "main"}
        /\ p \in {"closed", "main", "error", "words", "ready"}
        /\ p = "closed" => step[f] = "closed"
        /\ p \in {"words", "ready"} => job[f] \in {"checkCreated", "checkImported"}
  <2>1. CASE Open(f)
    <3>1. job' = [job EXCEPT ![f] = "none"]
      BY <2>1 DEF Open, IInv, TypeOK
    <3> QED BY <2>1, <3>1 DEF Open, Panels
  <2>2. CASE GetKeyDataFails(f)
    BY <2>2 DEF GetKeyDataFails, Shows, Panels
  <2>3. CASE CheckListed(f)
    <3>1. CASE step[f] = "closed"
      <4>1. step' = [step EXCEPT ![f] = "closed"]
        BY <2>3, <3>1 DEF CheckListed, IInv, TypeOK
      <4> QED BY <2>3, <3>1, <4>1 DEF CheckListed, Panels
    <3>2. CASE step[f] # "closed"
      BY <2>3, <3>2 DEF CheckListed, Shows, Panels
    <3> QED BY <3>1, <3>2
  <2> QED BY <2>1, <2>2, <2>3
<1>2. UNCHANGED <<keyVars, files, listVars, deleteVars, keyData, wallet>>
      /\ shown' = shown /\ captured' = captured
  BY DEF Open, GetKeyDataFails, CheckListed, fileVars
<1>3. shown' \in [Forms -> File \cup {NoFile}] /\ captured' \in [Forms -> File \cup {NoFile}]
  BY <1>2 DEF IInv, TypeOK
<1>4. step'[f] = p /\ job'[f] = "none" /\ keyData' = keyData /\ wallet' = wallet
  BY <1>1, <1>2 DEF IInv, TypeOK
<1>5. job[f] # "none" => step[f] \in {"wait", "closed"}
  BY DEF IInv, Fields
<1>6. step[f] \in {"wait", "closed"}
  BY <1>5 DEF Open, GetKeyDataFails, CheckListed
<1>7. Fields(f)'
  BY <1>1, <1>4, <1>6 DEF IInv, Fields
<1>8. "none" \in Jobs
  BY DEF Jobs
<1> QED BY <1>1, <1>2, <1>3, <1>7, <1>8, PanelTurned

\* Choosing a file and asking for its passwords.
LEMMA FileStep ==
  ASSUME IInv, NEW f \in Forms,
         (\E x \in files : ImportWalletFromFile(f, x)) \/ EnterWalletPassword(f)
  PROVE  IInv'
<1>1. PICK p \in {"info", "passwords"} :
        /\ step' = [step EXCEPT ![f] = p] /\ job' = job
        /\ UNCHANGED <<keyVars, files, listVars, deleteVars, keyData, wallet>>
        /\ shown' \in [Forms -> File \cup {NoFile}] /\ captured' \in [Forms -> File \cup {NoFile}]
        /\ \A g \in Forms \ {f} : shown'[g] = shown[g] /\ captured'[g] = captured[g]
        /\ shown'[f] # NoFile /\ (p = "passwords" => captured'[f] # NoFile)
        /\ step[f] \in {"main", "info"}
  <2>1. CASE \E x \in files : ImportWalletFromFile(f, x)
    <3>1. PICK x \in files : ImportWalletFromFile(f, x)
      BY <2>1
    <3>2. x \in File /\ x # NoFile
      <4>1. x \in File
        BY DEF IInv, TypeOK
      <4>2. x.zero \in BOOLEAN /\ "zero" \in DOMAIN x /\ "zero" \notin DOMAIN NoFile
        BY <4>1 DEF File, NoFile
      <4> QED BY <4>1, <4>2
    <3> QED BY <3>1, <3>2 DEF ImportWalletFromFile, IInv, TypeOK
  <2>2. CASE EnterWalletPassword(f)
    <3>1. shown[f] # NoFile
      BY <2>2 DEF EnterWalletPassword, IInv, Fields
    <3> QED BY <2>2, <3>1 DEF EnterWalletPassword, IInv, TypeOK
  <2> QED BY <2>1, <2>2
<1>2. job[f] \in Jobs /\ job' = [job EXCEPT ![f] = job[f]] /\ p \in Panels
  BY <1>1 DEF IInv, TypeOK, Jobs, Panels
<1>3. step'[f] = p /\ job[f] = "none" /\ wallet[f] = 0
  BY <1>1 DEF IInv, TypeOK, Fields
<1>4. keyData' = keyData /\ wallet' = wallet
  BY <1>1
<1>5. Fields(f)'
  BY <1>1, <1>3, <1>4 DEF Fields
<1> QED BY <1>1, <1>2, <1>5, PanelTurned
\* A key is made; the form takes it unless it was closed or its address failed.
LEMMA GetKeyDataStep ==
  ASSUME IInv, NEW f \in Forms, NEW w \in Words, NEW ok \in BOOLEAN, GetKeyData(f, w, ok)
  PROVE  IInv'
<1>1. PICK z \in ZeroBytes : SaveKey([words |-> w, zero |-> z, cut |-> FALSE])
  BY DEF GetKeyData
<1>2. [words |-> w, zero |-> z, cut |-> FALSE] \in Key
  BY ConstantsAssumption DEF Key
<1>3. /\ UNCHANGED <<files, listVars, fileVars, deleteVars>> /\ wallet' = wallet
      /\ shown' = shown /\ captured' = captured
      /\ job[f] \in {"create", "import"} /\ step[f] \in {"wait", "closed"}
  BY DEF GetKeyData, fileVars, IInv, Fields
<1>4. Len(made) \in Nat /\ wallet' \in [Forms -> 0..Len(made) + 1] /\ keyData \in [Forms -> 0..Len(made) + 1]
  BY <1>3 DEF IInv, TypeOK
<1>5. PICK p \in Panels, j \in Jobs :
        /\ step' = [step EXCEPT ![f] = p] /\ job' = [job EXCEPT ![f] = j]
        /\ \/ /\ p = "wait" /\ j \in {"checkCreated", "checkImported"}
              /\ keyData' = [keyData EXCEPT ![f] = Len(made) + 1]
           \/ /\ p = IF step[f] = "closed" THEN "closed" ELSE "main"
              /\ j = "none" /\ keyData' = keyData
  <2>1. CASE ok /\ step[f] # "closed"
    <3>1. step' = [step EXCEPT ![f] = "wait"]
      BY <2>1, <1>3 DEF GetKeyData, IInv, TypeOK
    <3>2. job' = [job EXCEPT ![f] = Check(job[f])] /\ keyData' = [keyData EXCEPT ![f] = Len(made) + 1]
      BY <2>1 DEF GetKeyData
    <3>3. Check(job[f]) \in {"checkCreated", "checkImported"}
      BY DEF Check
    <3> QED BY <3>1, <3>2, <3>3 DEF Panels, Jobs
  <2>2. CASE ~(ok /\ step[f] # "closed")
    <3>1. job' = [job EXCEPT ![f] = "none"] /\ keyData' = keyData
          /\ step' = [step EXCEPT ![f] = IF step[f] = "closed" THEN "closed" ELSE "main"]
      BY <2>2 DEF GetKeyData, Shows
    <3> QED BY <3>1 DEF Panels, Jobs
  <2> QED BY <2>1, <2>2
<1>6. /\ step' \in [Forms -> Panels] /\ job' \in [Forms -> Jobs]
      /\ keyData' \in [Forms -> 0..Len(made) + 1]
  BY <1>4, <1>5 DEF IInv, TypeOK, Panels, Jobs
<1>7. \A g \in Forms : keyData'[g] = keyData[g] \/ (g = f /\ keyData'[g] = Len(made) + 1)
  BY <1>4, <1>5
<1>8. \A g \in Forms, i \in Nat : Holds(g, i)' => Holds(g, i) \/ (g = f /\ i = Len(made) + 1)
  BY <1>3, <1>7 DEF Holds
<1>9. ASSUME NEW g \in Forms PROVE Fields(g)'
  <2>1. CASE g = f
    <3>1. step'[f] = p /\ job'[f] = j
      BY <1>5 DEF IInv, TypeOK
    <3>2. keyData'[f] = Len(made) + 1 \/ keyData'[f] = keyData[f]
      BY <1>7
    <3>3. wallet[f] = 0 /\ (step[f] = "closed" => keyData[f] = 0)
      BY <1>3 DEF IInv, Fields
    <3>4. p = "wait" => keyData'[f] = Len(made) + 1
      BY <1>4, <1>5
    <3> QED BY <2>1, <3>1, <3>2, <3>3, <3>4, <1>3, <1>4, <1>5 DEF Fields
  <2>2. CASE g # f
    <3>1. step'[g] = step[g] /\ job'[g] = job[g] /\ keyData'[g] = keyData[g]
      BY <2>2, <1>5, <1>7 DEF IInv, TypeOK
    <3> QED BY <3>1, <1>3 DEF IInv, Fields
  <2> QED BY <2>1, <2>2
<1> QED BY <1>1, <1>2, <1>3, <1>4, <1>6, <1>8, <1>9, KeyAdded

\* A key is made of a file; the form that is still there shows its wallet.
LEMMA ImportDataStep ==
  ASSUME IInv, NEW f \in Forms, ImportData(f)
  PROVE  IInv'
<1>1. /\ UNCHANGED <<files, listVars, fileVars, deleteVars>> /\ keyData' = keyData
      /\ shown' = shown /\ captured' = captured /\ files' = files
      /\ job[f] = "file" /\ step[f] \in {"wait", "closed"}
      /\ job' = [job EXCEPT ![f] = "none"]
  BY DEF ImportData, fileVars, IInv, Fields
<1>2. /\ Len(made) \in Nat /\ wallet \in [Forms -> 0..Len(made) + 1]
      /\ keyData' \in [Forms -> 0..Len(made) + 1] /\ keyData[f] \in 0..Len(made)
      /\ job' \in [Forms -> Jobs]
  BY <1>1 DEF IInv, TypeOK, Jobs
<1>3. wallet[f] = 0 /\ (step[f] = "closed" => keyData[f] = 0)
      /\ (step[f] # "closed" => captured[f] # NoFile /\ shown[f] # NoFile)
  BY <1>1 DEF IInv, Fields
<1>4. \A x \in File : [words |-> x.words, zero |-> x.zero, cut |-> x.zero] \in Key
  BY DEF File, Key
<1>5. ASSUME NEW k \in Key, SaveKey(k), NEW p \in Panels, step' = [step EXCEPT ![f] = p],
             \/ p = "doneFile" /\ wallet' = [wallet EXCEPT ![f] = Len(made) + 1]
             \/ p = "closed" /\ step[f] = "closed" /\ wallet' = wallet
      PROVE  IInv'
  <2>1. step' \in [Forms -> Panels] /\ wallet' \in [Forms -> 0..Len(made) + 1]
    <3>1. step' \in [Forms -> Panels]
      BY <1>5 DEF IInv, TypeOK, Panels
    <3>2. Len(made) + 1 \in 0..Len(made) + 1
      BY <1>2
    <3> QED BY <3>1, <3>2, <1>2, <1>5
  <2>2. \A g \in Forms : wallet'[g] = wallet[g] \/ (g = f /\ wallet'[g] = Len(made) + 1)
    BY <1>2, <1>5
  <2>3. \A g \in Forms, i \in Nat : Holds(g, i)' => Holds(g, i) \/ (g = f /\ i = Len(made) + 1)
    BY <1>1, <2>2 DEF Holds
  <2>4. ASSUME NEW g \in Forms PROVE Fields(g)'
    <3>1. CASE g = f
      <4>1. step'[f] = p /\ job'[f] = "none"
        BY <1>1, <1>5 DEF IInv, TypeOK
      <4>2. p = "doneFile" => wallet'[f] = Len(made) + 1
        BY <1>2, <1>5
      <4>3. p = "closed" => wallet'[f] = 0 /\ keyData[f] = 0
        BY <1>3, <1>5
      <4> QED BY <3>1, <4>1, <4>2, <4>3, <1>1, <1>2, <1>5 DEF Fields
    <3>2. CASE g # f
      <4>1. step'[g] = step[g] /\ job'[g] = job[g] /\ wallet'[g] = wallet[g]
        BY <3>2, <1>1, <1>5, <2>2 DEF IInv, TypeOK
      <4> QED BY <4>1, <1>1 DEF IInv, Fields
    <3> QED BY <3>1, <3>2
  <2> QED BY <1>1, <1>2, <1>5, <2>1, <2>3, <2>4, KeyAdded
<1>6. CASE /\ step[f] # "closed"
           /\ SaveKey([words |-> captured[f].words, zero |-> captured[f].zero, cut |-> captured[f].zero])
           /\ wallet' = [wallet EXCEPT ![f] = Len(made) + 1]
           /\ Shows(f, "doneFile")
  <2>1. captured[f] \in File
    BY <1>3, <1>6 DEF IInv, TypeOK
  <2>2. step' = [step EXCEPT ![f] = "doneFile"] /\ "doneFile" \in Panels
    BY <1>6 DEF Shows, Panels
  <2> QED BY <1>4, <1>5, <1>6, <2>1, <2>2
<1>7. CASE /\ step[f] = "closed"
           /\ \E x \in files : SaveKey([words |-> x.words, zero |-> x.zero, cut |-> x.zero])
           /\ UNCHANGED <<step, wallet>>
  <2>1. PICK x \in files : SaveKey([words |-> x.words, zero |-> x.zero, cut |-> x.zero])
    BY <1>7
  <2>2. x \in File
    BY DEF IInv, TypeOK
  <2>3. step' = [step EXCEPT ![f] = "closed"] /\ "closed" \in Panels /\ wallet' = wallet
    BY <1>7 DEF IInv, TypeOK, Panels
  <2> QED BY <1>4, <1>5, <1>7, <2>1, <2>2, <2>3
<1>8. CASE Shows(f, "passwords") /\ UNCHANGED <<keyVars, wallet>>
  <2> DEFINE p == IF step[f] = "closed" THEN "closed" ELSE "passwords"
  <2>1. step' = [step EXCEPT ![f] = p] /\ p \in Panels /\ "none" \in Jobs
    BY <1>8 DEF Shows, Panels, Jobs
  <2>2. step'[f] = p /\ job'[f] = "none"
    BY <1>1, <2>1 DEF IInv, TypeOK
  <2>3. wallet' = wallet /\ UNCHANGED <<keyVars, files, listVars, deleteVars, keyData, wallet>>
    BY <1>1, <1>8
  <2>4. shown' \in [Forms -> File \cup {NoFile}] /\ captured' \in [Forms -> File \cup {NoFile}]
    BY <1>1 DEF IInv, TypeOK
  <2>5. Fields(f)'
    BY <1>1, <1>3, <2>2, <2>3 DEF Fields
  <2> QED BY <1>1, <2>1, <2>3, <2>4, <2>5, PanelTurned
<1> QED BY <1>6, <1>7, <1>8 DEF ImportData

\* The state of the key's account is there, and the form shows the wallet.
LEMMA GetWalletStep ==
  ASSUME IInv, NEW f \in Forms, GetWallet(f)
  PROVE  IInv'
<1>1. /\ UNCHANGED <<keyVars, files, listVars, deleteVars>> /\ UNCHANGED fileVars
      /\ keyData' = keyData /\ shown' = shown /\ captured' = captured
      /\ made' = made /\ disk' = disk /\ files' = files
      /\ wallets' = wallets /\ saved' = saved /\ restarts' = restarts
      /\ deleting' = deleting /\ victim' = victim /\ erased' = erased
      /\ job[f] = "wallet" /\ job' = [job EXCEPT ![f] = "none"]
  BY DEF GetWallet, fileVars, keyVars, listVars, deleteVars
<1>2. step[f] \in {"wait", "closed"} /\ wallet[f] = 0 /\ (step[f] # "closed" <=> keyData[f] # 0)
  BY <1>1 DEF IInv, Fields
<1>3. PICK p \in {"done", "error", "closed"} :
        /\ step' = [step EXCEPT ![f] = p]
        /\ p = "closed" <=> step[f] = "closed"
        /\ \/ wallet' = [wallet EXCEPT ![f] = keyData[f]] /\ p # "error"
           \/ wallet' = wallet /\ p # "done"
  BY DEF GetWallet, Shows
<1>4. /\ step'[f] = p /\ job'[f] = "none"
      /\ wallet'[f] = IF p = "done" THEN keyData[f] ELSE 0
      /\ \A g \in Forms \ {f} : step'[g] = step[g] /\ job'[g] = job[g] /\ wallet'[g] = wallet[g]
  BY <1>1, <1>2, <1>3 DEF IInv, TypeOK
<1>5. step' \in [Forms -> Panels] /\ job' \in [Forms -> Jobs] /\ wallet' \in [Forms -> 0..Len(made)]
  BY <1>1, <1>3 DEF IInv, TypeOK, Panels, Jobs
<1>6. TypeOK'
  BY <1>1, <1>5 DEF IInv, TypeOK, Panels, Jobs
<1>7. \A g \in Forms, i \in Nat : Holds(g, i)' => Holds(g, i)
  BY <1>1, <1>4 DEF Holds
<1>8. ASSUME NEW g \in Forms PROVE Private(g)'
  <2>1. \A h \in Forms : Private(h)
    BY DEF IInv
  <2> QED BY <1>1, <1>7, <2>1 DEF Private
<1>9. ASSUME NEW g \in Forms PROVE Fields(g)'
  <2>1. CASE g = f
    BY <2>1, <1>1, <1>2, <1>3, <1>4 DEF Fields
  <2>2. CASE g # f
    BY <2>2, <1>1, <1>4 DEF IInv, Fields
  <2> QED BY <2>1, <2>2
<1>10. OwnKeys(wallets)' /\ OwnKeys(saved)' /\ Victim' /\ ListedHasKey'
  BY <1>1 DEF IInv, OwnKeys, Victim, ListedHasKey
<1> QED BY <1>6, <1>8, <1>9, <1>10 DEF IInv
\* Every way out of the form.
LEMMA CloseStep ==
  ASSUME IInv, NEW f \in Forms, Done(f) \/ DoneFile(f) \/ CloseCheck(f)
  PROVE  IInv'
<1>1. CASE CloseCheck(f)
  <2>1. wallets' = wallets /\ UNCHANGED <<made, files, saved, restarts, deleteVars>>
        /\ Dispose(f) /\ disk' = disk \ {keyData[f]}
    BY <1>1 DEF CloseCheck, listVars
  <2>2. ASSUME job[f] # "none" PROVE wallet[f] = 0
    BY <2>2 DEF IInv, Fields
  <2>3. {keyData[f]} \in {{}, {keyData[f]}}
    OBVIOUS
  <2> QED BY <2>1, <2>2, <2>3, FormClosed
<1>2. CASE Done(f)
  <2>1. UNCHANGED <<made, files, saved, restarts, deleteVars>>
        /\ Dispose(f) /\ disk' = disk \ {} /\ Add(wallet[f])
    BY <1>2 DEF Done, keyVars
  <2>2. wallet[f] # 0 /\ job[f] = "none"
    BY <1>2 DEF Done, IInv, Fields
  <2>3. {} \in {{}, {keyData[f]}} /\ wallet[f] \notin {}
    OBVIOUS
  <2>4. wallets' = wallets \/ wallets' = [wallets EXCEPT ![made[wallet[f]].words] = wallet[f]]
    BY <2>1 DEF Add
  <2> QED BY <2>1, <2>2, <2>3, <2>4, FormClosed
<1>3. CASE DoneFile(f)
  <2>1. UNCHANGED <<made, files, saved, restarts, deleteVars>>
        /\ Dispose(f) /\ disk' = disk \ {keyData[f]} /\ Add(wallet[f])
    BY <1>3 DEF DoneFile
  <2>2. wallet[f] # 0 /\ job[f] = "none" /\ wallet[f] # keyData[f]
    BY <1>3 DEF DoneFile, IInv, Fields
  <2>3. {keyData[f]} \in {{}, {keyData[f]}} /\ wallet[f] \notin {keyData[f]}
    BY <2>2
  <2>4. wallets' = wallets \/ wallets' = [wallets EXCEPT ![made[wallet[f]].words] = wallet[f]]
    BY <2>1 DEF Add
  <2> QED BY <2>1, <2>2, <2>3, <2>4, FormClosed
<1> QED BY <1>1, <1>2, <1>3

\* The lists, the deletion and the files change, the forms do not.
LEMMA ListsChanged ==
  ASSUME IInv, UNCHANGED <<made, formVars>>, files' \subseteq File,
         disk' \subseteq disk, disk \subseteq disk' \cup erased, restarts' \in Nat,
         wallets' \in [Words -> 0..Len(made)], saved' \in [Words -> 0..Len(made)],
         OwnKeys(wallets)', OwnKeys(saved)', erased \subseteq erased', Victim',
         deleting' \in {"idle", "posted", "erased", "failed"}, erased' \subseteq 1..Len(made),
         \A w \in Words : wallets'[w] \in {0, wallets[w], saved[w]} /\ saved'[w] \in {wallets[w], saved[w]},
         \A k \in erased' \ erased : \E w \in Words : wallets[w] = k,
         ListedHasKey'
  PROVE  IInv'
<1>1. /\ made' = made /\ step' = step /\ job' = job /\ keyData' = keyData /\ wallet' = wallet
      /\ shown' = shown /\ captured' = captured
  BY DEF formVars, fileVars
<1>2. TypeOK'
  <2>1. TypeOK
    BY DEF IInv
  <2>2. victim' \in 0..Len(made) /\ disk' \subseteq 1..Len(made)
    <3>1. Len(made) \in Nat
      BY <2>1 DEF TypeOK
    <3> QED BY <2>1, <3>1 DEF TypeOK, Victim
  <2> QED BY <1>1, <2>1, <2>2 DEF TypeOK
<1>3. \A f \in Forms : Fields(f)'
  BY <1>1 DEF IInv, Fields
<1>4. ASSUME NEW f \in Forms PROVE Private(f)'
  <2> SUFFICES ASSUME NEW k \in 1..Len(made), Holds(f, k)
               PROVE  /\ k \in disk' /\ k \notin erased'
                      /\ \A w \in Words : wallets'[w] # k /\ saved'[w] # k
                      /\ \A g \in Forms : Holds(g, k) => g = f
    BY <1>1 DEF Private, Holds
  <2>1. /\ k \in disk /\ k \notin erased
        /\ \A w \in Words : wallets[w] # k /\ saved[w] # k
        /\ \A g \in Forms : Holds(g, k) => g = f
    BY DEF IInv, Private
  <2>2. k # 0
    BY DEF Holds
  <2> QED BY <2>1, <2>2
<1> QED BY <1>2, <1>3, <1>4 DEF IInv

\* A wallet is exported, deleted, taken off the list, or the list is saved.
LEMMA ListStep ==
  ASSUME IInv,
         \/ \E w \in Words : ExportData(w)
         \/ \E w \in Words : DeleteWallet(w)
         \/ DeleteKey \/ Remove \/ Save
  PROVE  IInv'
<1>0. /\ Len(made) \in Nat /\ \A i \in 1..Len(made) : made[i] \in Key
      /\ disk \subseteq 1..Len(made) /\ files \subseteq File /\ restarts \in Nat
      /\ wallets \in [Words -> 0..Len(made)] /\ saved \in [Words -> 0..Len(made)]
      /\ victim \in 0..Len(made) /\ erased \subseteq 1..Len(made)
      /\ deleting \in {"idle", "posted", "erased", "failed"}
      /\ OwnKeys(wallets) /\ OwnKeys(saved) /\ Victim /\ ListedHasKey
  BY DEF IInv, TypeOK
<1>1. ASSUME NEW w \in Words, ExportData(w) PROVE IInv'
  <2>1. /\ made' = made /\ disk' = disk /\ wallets' = wallets /\ saved' = saved /\ restarts' = restarts
        /\ deleting' = deleting /\ victim' = victim /\ erased' = erased
        /\ UNCHANGED <<made, formVars>>
        /\ files' = files \cup {[words |-> w, zero |-> made[wallets[w]].zero]}
        /\ wallets[w] \in disk
    BY <1>1 DEF ExportData, Opens, keyVars, listVars, deleteVars
  <2>2. [words |-> w, zero |-> made[wallets[w]].zero] \in File
    BY <1>0, <2>1 DEF Key, File
  <2>3. OwnKeys(wallets)' /\ OwnKeys(saved)' /\ Victim' /\ ListedHasKey'
    BY <1>0, <2>1 DEF OwnKeys, Victim, ListedHasKey
  <2> QED BY <1>0, <2>1, <2>2, <2>3, ListsChanged
<1>2. ASSUME NEW w \in Words, DeleteWallet(w) PROVE IInv'
  <2>1. /\ made' = made /\ disk' = disk /\ wallets' = wallets /\ saved' = saved /\ restarts' = restarts
        /\ files' = files /\ deleting' = "posted" /\ victim' = wallets[w] /\ wallets[w] # 0
        /\ deleting = "idle" /\ erased' = erased \cup {wallets[w]}
        /\ UNCHANGED <<made, formVars>>
    BY <1>2 DEF DeleteWallet, keyVars, listVars
  <2>2. OwnKeys(wallets)' /\ OwnKeys(saved)' /\ Victim'
    BY <1>0, <2>1 DEF OwnKeys, Victim
  <2>3. ListedHasKey'
    BY <1>0, <2>1 DEF Victim, ListedHasKey
  <2>4. erased' \subseteq 1..Len(made) /\ \A k \in erased' \ erased : \E u \in Words : wallets[u] = k
    <3>1. wallets[w] \in 1..Len(made)
      BY <1>0, <2>1
    <3> QED BY <1>0, <2>1, <3>1
  <2>5. disk' \subseteq disk /\ disk \subseteq disk' \cup erased /\ restarts' \in Nat /\ erased \subseteq erased'
    BY <1>0, <2>1
  <2>6. \A u \in Words : wallets'[u] \in {0, wallets[u], saved[u]} /\ saved'[u] \in {wallets[u], saved[u]}
    BY <2>1
  <2> QED BY <1>0, <2>1, <2>2, <2>3, <2>4, <2>5, <2>6, ListsChanged
<1>3. ASSUME DeleteKey PROVE IInv'
  <2>1. /\ made' = made /\ wallets' = wallets /\ saved' = saved /\ restarts' = restarts
        /\ files' = files /\ victim' = victim /\ erased' = erased
        /\ disk' \in {disk, disk \ {victim}} /\ deleting = "posted" /\ deleting' \in {"erased", "failed"}
        /\ UNCHANGED <<made, formVars>>
    BY <1>3 DEF DeleteKey, listVars
  <2>2. OwnKeys(wallets)' /\ OwnKeys(saved)' /\ Victim'
    BY <1>0, <2>1 DEF OwnKeys, Victim
  <2>3. victim \in erased
    BY <1>0, <2>1 DEF Victim
  <2>4. ListedHasKey'
    BY <1>0, <2>1, <2>3 DEF ListedHasKey
  <2> QED BY <1>0, <2>1, <2>2, <2>3, <2>4, ListsChanged
<1>4. ASSUME Remove PROVE IInv'
  <2>1. /\ made' = made /\ disk' = disk /\ saved' = saved /\ restarts' = restarts
        /\ files' = files /\ victim' = 0 /\ erased' = erased /\ deleting' = "idle"
        /\ UNCHANGED <<made, formVars>>
        /\ \/ wallets' = [wallets EXCEPT ![made[victim].words] = 0]
           \/ wallets[made[victim].words] # victim /\ wallets' = wallets
        /\ deleting \in {"erased", "failed"}
    BY <1>4 DEF Remove, keyVars
  <2>2. victim \in 1..Len(made) /\ made[victim].words \in Words
    BY <1>0, <2>1 DEF Victim, Key
  <2>3. wallets' \in [Words -> 0..Len(made)] /\ \A w \in Words : wallets'[w] \in {0, wallets[w]}
    BY <1>0, <2>1, <2>2
  <2>4. ASSUME NEW w \in Words PROVE wallets'[w] # victim
    <3>1. wallets[w] = victim => w = made[victim].words
      BY <1>0, <2>2 DEF OwnKeys
    <3>2. victim # 0
      BY <2>2
    <3> QED BY <1>0, <2>1, <2>2, <3>1, <3>2
  <2>5. OwnKeys(wallets)' /\ OwnKeys(saved)' /\ Victim'
    BY <1>0, <2>1, <2>3 DEF OwnKeys, Victim
  <2>6. ListedHasKey'
    BY <1>0, <2>1, <2>3, <2>4 DEF ListedHasKey
  <2> QED BY <1>0, <2>1, <2>3, <2>5, <2>6, ListsChanged
<1>5. ASSUME Save PROVE IInv'
  <2>1. /\ made' = made /\ disk' = disk /\ wallets' = wallets /\ saved' = wallets /\ restarts' = restarts
        /\ files' = files /\ victim' = victim /\ erased' = erased /\ deleting' = deleting
        /\ UNCHANGED <<made, formVars>>
    BY <1>5 DEF Save, keyVars, deleteVars
  <2>2. OwnKeys(wallets)' /\ OwnKeys(saved)' /\ Victim'
    BY <1>0, <2>1 DEF OwnKeys, Victim
  <2>3. ListedHasKey'
    BY <1>0, <2>1 DEF Victim, ListedHasKey
  <2> QED BY <1>0, <2>1, <2>2, <2>3, ListsChanged
<1> QED BY <1>1, <1>2, <1>3, <1>4, <1>5

\* A restart forgets the forms and the deletion, and loads the saved list.
LEMMA RestartStep ==
  ASSUME IInv, Restart
  PROVE  IInv'
<1>1. /\ made' = made /\ disk' = disk /\ files' = files /\ saved' = saved /\ erased' = erased
      /\ wallets' = saved /\ restarts' = restarts + 1
      /\ step' = Closed /\ job' = [f \in Forms |-> "none"]
      /\ keyData' = Nothing /\ shown' = NoFiles /\ captured' = NoFiles /\ wallet' = Nothing
      /\ deleting' = "idle" /\ victim' = 0
  BY DEF Restart, keyVars
<1>2. TypeOK'
  BY <1>1 DEF IInv, TypeOK, Closed, Nothing, NoFiles
<1>3. \A f \in Forms : Fields(f)'
  BY <1>1 DEF Fields, Closed, Nothing
<1>4. \A f \in Forms : Private(f)'
  BY <1>1 DEF Private, Holds, Nothing
<1>5. OwnKeys(wallets)' /\ OwnKeys(saved)' /\ Victim'
  BY <1>1 DEF IInv, OwnKeys, Victim
<1>6. ListedHasKey'
  BY <1>1 DEF IInv, TypeOK, ListedHasKey
<1> QED BY <1>2, <1>3, <1>4, <1>5, <1>6 DEF IInv

-----------------------------------------------------------------------------
(* Theorems *)

\* Every step keeps the invariant.
LEMMA NextIInv == IInv /\ [Next]_vars => IInv'
<1> SUFFICES ASSUME IInv, [Next]_vars PROVE IInv'
  OBVIOUS
<1>1. ASSUME NEW f \in Forms, CreateWalletForm(f) PROVE IInv'
  <2>1. CASE Open(f) \/ GetKeyDataFails(f) \/ CheckListed(f)
    BY <2>1, ShowStep
  <2>2. CASE Done(f) \/ DoneFile(f) \/ CloseCheck(f)
    BY <2>2, CloseStep
  <2>3. CASE CreateWallet(f) \/ ImportWallet(f) \/ SetPasscode(f) \/ EnterExportDataPassword(f)
    BY <2>3, WaitsStep DEF CreateWallet, ImportWallet, SetPasscode, EnterExportDataPassword
  <2>4. CASE DoneWords(f) \/ GoBack(f) \/ LeaveFiles(f) \/ LeavePasswords(f)
    BY <2>4, TurnStep DEF DoneWords, GoBack, LeaveFiles, LeavePasswords, Panels
  <2>5. CASE \E w \in Words, ok \in BOOLEAN : GetKeyData(f, w, ok)
    BY <2>5, GetKeyDataStep
  <2>6. CASE (\E x \in files : ImportWalletFromFile(f, x)) \/ EnterWalletPassword(f)
    BY <2>6, FileStep
  <2>7. CASE GetWallet(f)
    BY <2>7, GetWalletStep
  <2>8. CASE ImportData(f)
    BY <2>8, ImportDataStep
  <2> QED BY <1>1, <2>1, <2>2, <2>3, <2>4, <2>5, <2>6, <2>7, <2>8 DEF CreateWalletForm
<1>2. CASE (\E w \in Words : ExportData(w) \/ DeleteWallet(w)) \/ DeleteKey \/ Remove \/ Save
  BY <1>2, ListStep
<1>3. CASE Restart
  BY <1>3, RestartStep
<1>4. CASE UNCHANGED vars
  <2>1. /\ UNCHANGED <<keyVars, listVars, deleteVars, keyData, wallet>>
        /\ files' = files /\ step' = step /\ job' = job /\ shown' = shown /\ captured' = captured
        /\ keyData' = keyData /\ wallet' = wallet
    BY <1>4 DEF vars, formVars, fileVars
  <2>2. \A f \in Forms : Fields(f)'
    BY <2>1 DEF IInv, Fields
  <2> QED BY <2>1, <2>2, PanelsOnly DEF IInv, TypeOK, Panels, Jobs
<1> QED BY <1>1, <1>2, <1>3, <1>4 DEF Next

\* The invariant holds in every behaviour.
LEMMA Invariant == Spec => []IInv
BY InitIInv, NextIInv, PTL DEF Spec

\* Forms, keys, lists and the deletion keep their types.
THEOREM TypeCorrect == Spec => []TypeOK
<1>1. IInv => TypeOK
  BY DEF IInv
<1> QED BY <1>1, Invariant, PTL

\* No form that is closed, cleaned up or done, and no restart, leaves a listed
\* wallet without its key file (CloseCheck, DoneWalletPanel, WalletsData).
THEOREM ListedHasKeyHolds == Spec => []ListedHasKey
<1>1. IInv => ListedHasKey
  BY DEF IInv
<1> QED BY <1>1, Invariant, PTL

\* DeleteWalletController's deletion takes its wallet off the list, whatever the
\* forms list meanwhile and whatever becomes of the key file.
THEOREM DeletionRemovesHolds == Spec => DeletionRemoves
<1>1. IInv /\ [Next]_vars
        => (victim # 0 /\ victim' = 0 /\ restarts' = restarts => \A w \in Words : wallets'[w] # victim)
  <2> SUFFICES ASSUME IInv, [Next]_vars, victim # 0, victim' = 0, restarts' = restarts
               PROVE  \A w \in Words : wallets'[w] # victim
    OBVIOUS
  <2>0. /\ Len(made) \in Nat /\ \A i \in 1..Len(made) : made[i] \in Key
        /\ wallets \in [Words -> 0..Len(made)] /\ victim \in 1..Len(made)
        /\ OwnKeys(wallets) /\ restarts \in Nat
    BY DEF IInv, TypeOK
  <2>1. CASE Remove
    <3>1. \/ wallets' = [wallets EXCEPT ![made[victim].words] = 0]
          \/ wallets[made[victim].words] # victim /\ wallets' = wallets
      BY <2>1 DEF Remove
    <3>2. made[victim].words \in Words
      BY <2>0 DEF Key
    <3> QED BY <2>0, <3>1, <3>2 DEF OwnKeys
  <2>2. CASE Restart
    BY <2>0, <2>2 DEF Restart
  <2>3. CASE UNCHANGED victim
    BY <2>3
  <2>4. CASE \E f \in Forms : CreateWalletForm(f)
    BY <2>3, <2>4 DEF CreateWalletForm, deleteVars, Open, CloseCheck, CreateWallet, ImportWallet,
       Waits, GetKeyData, GetKeyDataFails, CheckListed, DoneWords, GoBack, Turn, SetPasscode, GetWallet,
       Done, ImportWalletFromFile, LeaveFiles, EnterWalletPassword, LeavePasswords,
       EnterExportDataPassword, ImportData, DoneFile
  <2>5. CASE \E w \in Words : DeleteWallet(w)
    BY <2>0, <2>5 DEF DeleteWallet, IInv, Victim
  <2>6. CASE (\E w \in Words : ExportData(w)) \/ DeleteKey \/ Save \/ UNCHANGED vars
    BY <2>3, <2>6 DEF ExportData, DeleteKey, Save, vars, deleteVars
  <2> QED BY <2>1, <2>2, <2>4, <2>5, <2>6 DEF Next
<1> QED BY <1>1, Invariant, PTL DEF Spec, DeletionRemoves
=============================================================================
