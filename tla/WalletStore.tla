---------------------------- MODULE WalletStore ----------------------------
(***************************************************************************)
(* The wallets of the program's list and the key files that they sign      *)
(* with: CreateWalletForm (create, import by words, import from a file),   *)
(* DeleteWalletController, TonWallet.ExportData, ImportData and Delete     *)
(* over the native KeyStorage, and WalletsData, which the program saves    *)
(* and loads again.                                                        *)
(*                                                                         *)
(* An address stands for the secret words it comes from.  A key file is    *)
(* named after a secret that is drawn anew whenever a key is saved, so     *)
(* files are numbered in the order they are written; the number stands for *)
(* that secret, too.  A wallet is listed together with its children.       *)
(***************************************************************************)
EXTENDS Naturals, Sequences

CONSTANTS
  Forms,       \* the CreateWalletForms that may be open at once
  Words,       \* secret words
  ZeroBytes,   \* whether a random password may hold a zero byte
  MaxKeys,     \* bound: key files ever written
  MaxRestarts  \* bound: restarts of the program

ASSUME ConstantsAssumption ==
  /\ ZeroBytes \in {{FALSE}, {TRUE}, BOOLEAN}
  /\ MaxKeys \in Nat /\ MaxRestarts \in Nat

\* A key: its words; whether the password that protects it holds a zero byte;
\* whether the file is encrypted with that password cut off there.
Key == [words : Words, zero : BOOLEAN, cut : BOOLEAN]

\* An exported file: the wallet and its export data.
File == [words : Words, zero : BOOLEAN]
NoFile == [words |-> "none"]

VARIABLES
  made,      \* the keys that were ever saved, by number
  disk,      \* the key files that exist
  files,     \* the exported files
  wallets,   \* WalletsData.Wallets: the key of each listed wallet, or 0
  saved,     \* WalletsData as last saved
  restarts,
  \* CreateWalletForm
  step,      \* what the form shows
  job,       \* its work on a SingleThread and the Timer.Delay after it
  keyData,   \* keyData, or 0
  shown,     \* the file that walletInfoPanel shows
  captured,  \* the file in the handlers of walletPasswordPanel and exportPasswordPanel
  wallet,    \* the key of the wallet that its DoneWalletPanel shows, or 0
  \* DeleteWalletController
  deleting,  \* "idle", "posted", "erased", "failed"
  victim,    \* the key of the wallet it deletes, or 0
  erased     \* the keys whose deletion the user has confirmed

keyVars == <<made, disk>>
listVars == <<wallets, saved, restarts>>
fileVars == <<shown, captured>>
formVars == <<step, job, keyData, fileVars, wallet>>
deleteVars == <<deleting, victim, erased>>
vars == <<keyVars, files, listVars, formVars, deleteVars>>

Closed == [f \in Forms |-> "closed"]
Nothing == [f \in Forms |-> 0]
NoFiles == [f \in Forms |-> NoFile]

Init ==
  /\ made = << >> /\ disk = {}
  /\ files = {}
  /\ wallets = [w \in Words |-> 0]
  /\ saved = wallets
  /\ restarts = 0
  /\ step = Closed
  /\ job = [f \in Forms |-> "none"]
  /\ keyData = Nothing
  /\ shown = NoFiles /\ captured = NoFiles
  /\ wallet = Nothing
  /\ deleting = "idle" /\ victim = 0 /\ erased = {}

-----------------------------------------------------------------------------
(* CreateWalletForm *)

\* A panel is not seen any more once the form is closed.
Shows(f, panel) == step' = [step EXCEPT ![f] = IF @ = "closed" THEN @ ELSE panel]

\* Mutant of SaveKey: the file gets the name of the key before.
SaveKeyOldName(k) ==
  /\ Len(made) < MaxKeys
  /\ made' = Append(made, k)
  /\ disk' = disk \cup {Len(made)}

\* KeyStorage::save_key under a fresh secret.
SaveKey(k) ==
  /\ Len(made) < MaxKeys
  /\ made' = Append(made, k)
  /\ disk' = disk \cup {Len(made) + 1}

Open(f) ==
  /\ step[f] = "closed" /\ job[f] = "none"
  /\ step' = [step EXCEPT ![f] = "main"]
  /\ UNCHANGED <<keyVars, files, listVars, job, keyData, fileVars, wallet, deleteVars>>

\* The form waits for the job it has started.
Waits(f, what) ==
  /\ step' = [step EXCEPT ![f] = "wait"]
  /\ job' = [job EXCEPT ![f] = what]
  /\ UNCHANGED <<keyVars, files, listVars, keyData, fileVars, wallet, deleteVars>>

CreateWallet(f) == step[f] = "main" /\ Waits(f, "create")

ImportWallet(f) == step[f] = "main" /\ Waits(f, "import")

\* What follows GetKeyData on the form's SingleThread.
Check(kind) == IF kind = "create" THEN "checkCreated" ELSE "checkImported"

\* Words that no key and no exported file has had before.
Unused(w) == (\A i \in 1..Len(made) : made[i].words # w) /\ \A x \in files : x.words # w

\* GetKeyData: the key is saved, then its address is computed; ok says that this
\* succeeds, too.  keyData takes the place of an earlier key.
GetKeyData(f, w, ok) ==
  /\ job[f] \in {"create", "import"}
  /\ job[f] = "create" => Unused(w)
  /\ \E z \in ZeroBytes : SaveKey([words |-> w, zero |-> z, cut |-> FALSE])
  /\ IF ok /\ step[f] # "closed"
       THEN /\ keyData' = [keyData EXCEPT ![f] = Len(made) + 1]
            /\ job' = [job EXCEPT ![f] = Check(@)]
            /\ UNCHANGED step
       ELSE job' = [job EXCEPT ![f] = "none"] /\ Shows(f, "main") /\ UNCHANGED keyData
  /\ UNCHANGED <<files, listVars, fileVars, wallet, deleteVars>>

\* Invalid words, or a key that cannot be saved.
GetKeyDataFails(f) ==
  /\ job[f] \in {"create", "import"}
  /\ job' = [job EXCEPT ![f] = "none"]
  /\ Shows(f, "main")
  /\ UNCHANGED <<keyVars, files, listVars, keyData, fileVars, wallet, deleteVars>>

\* The timer: a wallet that is listed already is an error that cannot be left.
CheckListed(f) ==
  /\ job[f] \in {"checkCreated", "checkImported"}
  /\ job' = [job EXCEPT ![f] = "none"]
  /\ IF step[f] = "closed" THEN UNCHANGED step
     ELSE Shows(f, IF wallets[made[keyData[f]].words] # 0 THEN "error"
                   ELSE IF job[f] = "checkCreated" THEN "words" ELSE "ready")
  /\ UNCHANGED <<keyVars, files, listVars, keyData, fileVars, wallet, deleteVars>>

\* The form shows another panel, nothing else.
Turn(f, from, to) ==
  /\ step[f] = from
  /\ step' = [step EXCEPT ![f] = to]
  /\ UNCHANGED <<keyVars, files, listVars, job, keyData, fileVars, wallet, deleteVars>>

\* The created words are written down or skipped.
DoneWords(f) == Turn(f, "words", "ready")

\* createWordsPanel leads back to the main panel.
GoBack(f) == Turn(f, "words", "main")

\* The passcode is entered: TonAdapter.GetWallet asks for the account's state.
SetPasscode(f) == step[f] = "ready" /\ Waits(f, "wallet")

GetWallet(f) ==
  /\ job[f] = "wallet"
  /\ job' = [job EXCEPT ![f] = "none"]
  /\ \/ Shows(f, "done") /\ wallet' = [wallet EXCEPT ![f] = keyData[f]]
     \/ Shows(f, "error") /\ UNCHANGED wallet
  /\ UNCHANGED <<keyVars, files, listVars, keyData, fileVars, deleteVars>>

\* UniqueCollection.Add is not in the repository: a wallet with the address of a
\* listed one is taken to replace it or to be ignored.
Add(k) ==
  \/ wallets' = [wallets EXCEPT ![made[k].words] = k]
  \/ wallets[made[k].words] # 0 /\ UNCHANGED wallets

\* The form is gone with its fields.
Dispose(f) ==
  /\ step' = [step EXCEPT ![f] = "closed"]
  /\ keyData' = [keyData EXCEPT ![f] = 0]
  /\ shown' = [shown EXCEPT ![f] = NoFile]
  /\ captured' = [captured EXCEPT ![f] = NoFile]
  /\ wallet' = [wallet EXCEPT ![f] = 0]
  /\ UNCHANGED job

\* Mutant of Done: the form ends in CloseCheck as ImportWalletFromFile does.
DoneCloseCheck(f) ==
  /\ step[f] = "done"
  /\ Add(wallet[f])
  /\ disk' = disk \ {keyData[f]}
  /\ Dispose(f)
  /\ UNCHANGED <<made, files, saved, restarts, deleteVars>>

\* DoneWalletPanel's button: the wallet is listed and the form closes, without
\* CloseCheck.
Done(f) ==
  /\ step[f] = "done"
  /\ Add(wallet[f])
  /\ Dispose(f)
  /\ UNCHANGED <<keyVars, files, saved, restarts, deleteVars>>

\* CloseCheck deletes the form's key.
CloseCheck(f) ==
  /\ step[f] # "closed"
  /\ disk' = disk \ {keyData[f]}
  /\ Dispose(f)
  /\ UNCHANGED <<made, files, listVars, deleteVars>>

-----------------------------------------------------------------------------
(* CreateWalletForm.ImportFromFile *)

\* A file of a wallet that is not listed; another one may be chosen later.
ImportWalletFromFile(f, x) ==
  /\ step[f] \in {"main", "info"}
  /\ x \in files /\ wallets[x.words] = 0
  /\ step' = [step EXCEPT ![f] = "info"]
  /\ shown' = [shown EXCEPT ![f] = x]
  /\ UNCHANGED <<keyVars, files, listVars, job, keyData, captured, wallet, deleteVars>>

LeaveFiles(f) == Turn(f, "info", "main")

\* The password panels are made once, with handlers that keep the file of then.
EnterWalletPassword(f) ==
  /\ step[f] = "info"
  /\ step' = [step EXCEPT ![f] = "passwords"]
  /\ captured' = [captured EXCEPT ![f] = IF @ = NoFile THEN shown[f] ELSE @]
  /\ UNCHANGED <<keyVars, files, listVars, job, keyData, shown, wallet, deleteVars>>

LeavePasswords(f) == Turn(f, "passwords", "info")

\* Both passwords are entered; the wallet's own is checked first.
EnterExportDataPassword(f) == step[f] = "passwords" /\ Waits(f, "file")

\* TonWallet.ImportData: the native code takes the wallet's password for a
\* zero-terminated string.
ImportData(f) ==
  /\ job[f] = "file"
  /\ job' = [job EXCEPT ![f] = "none"]
  /\ \/ /\ step[f] # "closed"
        /\ SaveKey([words |-> captured[f].words, zero |-> captured[f].zero, cut |-> captured[f].zero])
        /\ wallet' = [wallet EXCEPT ![f] = Len(made) + 1]
        /\ Shows(f, "doneFile")
     \/ /\ step[f] = "closed"
        /\ \E x \in files : SaveKey([words |-> x.words, zero |-> x.zero, cut |-> x.zero])
        /\ UNCHANGED <<step, wallet>>
     \/ Shows(f, "passwords") /\ UNCHANGED <<keyVars, wallet>>
  /\ UNCHANGED <<files, listVars, keyData, fileVars, deleteVars>>

\* The wallet is listed; CloseCheck deletes the key that the form has made before.
DoneFile(f) ==
  /\ step[f] = "doneFile"
  /\ Add(wallet[f])
  /\ disk' = disk \ {keyData[f]}
  /\ Dispose(f)
  /\ UNCHANGED <<made, files, saved, restarts, deleteVars>>

-----------------------------------------------------------------------------
(* Export and deletion *)

\* The wallet w can sign: its file is there and opens with its password.
Opens(w) == wallets[w] \in disk /\ ~made[wallets[w]].cut

ExportData(w) ==
  /\ Opens(w)
  /\ files' = files \cup {[words |-> w, zero |-> made[wallets[w]].zero]}
  /\ UNCHANGED <<keyVars, listVars, formVars, deleteVars>>

\* The passcode is checked and the deletion confirmed, in a modal form.
DeleteWallet(w) ==
  /\ deleting = "idle" /\ wallets[w] # 0
  /\ deleting' = "posted"
  /\ victim' = wallets[w]
  /\ erased' = erased \cup {victim'}
  /\ UNCHANGED <<keyVars, files, listVars, formVars>>

\* TonWallet.Delete on the adapter's thread.
DeleteKey ==
  /\ deleting = "posted"
  /\ \/ victim \in disk /\ disk' = disk \ {victim} /\ deleting' = "erased"
     \/ UNCHANGED disk /\ deleting' = "failed"
  /\ UNCHANGED <<made, files, listVars, formVars, victim, erased>>

\* Mutant of Remove: a key that could not be erased ends the deletion.
RemoveErased ==
  /\ deleting \in {"erased", "failed"}
  /\ wallets' = IF deleting = "erased"
                  THEN [wallets EXCEPT ![made[victim].words] = 0] ELSE wallets
  /\ deleting' = "idle"
  /\ victim' = 0
  /\ UNCHANGED <<keyVars, files, saved, restarts, formVars, erased>>

\* The timer removes the wallet whatever became of its key.  One that has taken
\* its place in the list may be removed or not (UniqueCollection.Remove).
Remove ==
  /\ deleting \in {"erased", "failed"}
  /\ \/ wallets' = [wallets EXCEPT ![made[victim].words] = 0]
     \/ wallets[made[victim].words] # victim /\ UNCHANGED wallets
  /\ deleting' = "idle"
  /\ victim' = 0
  /\ UNCHANGED <<keyVars, files, saved, restarts, formVars, erased>>

-----------------------------------------------------------------------------
(* The program's data *)

\* The framework saves WalletsData, when it likes and at the latest on exit.  What
\* is saved after the last restart is left out with MaxRestarts.
Save ==
  /\ restarts < MaxRestarts
  /\ saved' = wallets
  /\ UNCHANGED <<keyVars, files, wallets, restarts, formVars, deleteVars>>

\* The program exits or crashes, and loads what was saved.
Restart ==
  /\ restarts < MaxRestarts
  /\ restarts' = restarts + 1
  /\ wallets' = saved
  /\ step' = Closed
  /\ job' = [f \in Forms |-> "none"]
  /\ keyData' = Nothing
  /\ shown' = NoFiles /\ captured' = NoFiles
  /\ wallet' = Nothing
  /\ deleting' = "idle" /\ victim' = 0
  /\ UNCHANGED <<keyVars, files, saved, erased>>

-----------------------------------------------------------------------------
(* Specification *)

CreateWalletForm(f) ==
  \/ Open(f) \/ CloseCheck(f)
  \/ CreateWallet(f) \/ ImportWallet(f)
  \/ \E w \in Words, ok \in BOOLEAN : GetKeyData(f, w, ok)
  \/ GetKeyDataFails(f) \/ CheckListed(f)
  \/ DoneWords(f) \/ GoBack(f) \/ SetPasscode(f) \/ GetWallet(f) \/ Done(f)
  \/ \E x \in files : ImportWalletFromFile(f, x)
  \/ LeaveFiles(f) \/ EnterWalletPassword(f) \/ LeavePasswords(f)
  \/ EnterExportDataPassword(f) \/ ImportData(f) \/ DoneFile(f)

Next ==
  \/ \E f \in Forms : CreateWalletForm(f)
  \/ \E w \in Words : ExportData(w) \/ DeleteWallet(w)
  \/ DeleteKey \/ Remove
  \/ Save \/ Restart

Spec == Init /\ [][Next]_vars

-----------------------------------------------------------------------------
(* Properties *)

\* Every variable has its type.
TypeOK ==
  /\ made \in Seq(Key) /\ disk \subseteq 1..Len(made)
  /\ files \subseteq File
  /\ wallets \in [Words -> 0..Len(made)] /\ saved \in [Words -> 0..Len(made)]
  /\ restarts \in Nat
  /\ step \in [Forms -> {"closed", "main", "wait", "words", "ready", "done", "error",
                         "info", "passwords", "doneFile"}]
  /\ job \in [Forms -> {"none", "create", "import", "checkCreated", "checkImported",
                        "wallet", "file"}]
  /\ keyData \in [Forms -> 0..Len(made)] /\ wallet \in [Forms -> 0..Len(made)]
  /\ shown \in [Forms -> File \cup {NoFile}] /\ captured \in [Forms -> File \cup {NoFile}]
  /\ deleting \in {"idle", "posted", "erased", "failed"}
  /\ victim \in 0..Len(made) /\ erased \subseteq 1..Len(made)

\* The key file of a listed wallet is there, whatever the forms have made, closed
\* and cleaned up.  It is missing only while the wallet is being deleted, or after
\* a restart that has undone its removal from the list; the list that a restart
\* loads needs no other key either.
ListedHasKey ==
  \A w \in Words :
    /\ \/ wallets[w] \in {0} \cup disk
       \/ wallets[w] = victim
       \/ restarts > 0 /\ wallets[w] \in erased
    /\ saved[w] \in {0} \cup disk \cup erased

\* A deletion that is over has taken the wallet off the list, also one whose key
\* could not be erased or was gone already; only a restart ends it otherwise.
DeletionRemoves ==
  [][victim # 0 /\ victim' = 0 /\ restarts' = restarts => \A w \in Words : wallets'[w] # victim]_vars

\* "To restore the wallet, you can write down secret words or export to a file":
\* a listed wallet whose key file is there can sign with it.
ListedOpens == \A w \in Words : wallets[w] \in disk => Opens(w)
=============================================================================
