------------------------- MODULE SendPipeline_proofs -------------------------
(***************************************************************************)
(* Theorems about SendPipeline, for any number of forms and attempts.      *)
(* Only the last attempt of a form can be under way; a form offers Repeat  *)
(* only when its last attempt is over and has no hash, and, as long as     *)
(* errors are truthful, has no message that could still be executed.       *)
(***************************************************************************)
EXTENDS SendPipeline, TLAPS, FiniteSetTheorems

Last(f) == <<f, attempts[f]>>

UnderWay == {"decrypt", "create", "created", "createFailed", "subscribed", "send", "posted", "taken", "refused"}

\* An attempt that is not the last one has not begun or is over.
OneUnderWay == \A j \in Jobs : job[j] \in UnderWay => j = Last(j[1]) /\ msgHash[j[1]] = NoJob

\* A job that has not begun is not an attempt yet.
Begun == \A j \in Jobs : j[2] > attempts[j[1]] => job[j] = "none" /\ fate[j] = "none"

\* Only messages that the server has taken have a fate.
Taken == \A j \in Jobs : fate[j] # "none" => job[j] \in {"taken", "ended"}

\* What the panel says about the attempts.
PanelAgrees ==
  \A f \in Forms :
    /\ form[f] \in {"main", "info"} => attempts[f] = 0
    /\ form[f] = "error" => msgHash[f] = NoJob /\ \A j \in Jobs : j[1] = f => job[j] \notin UnderWay
    /\ msgHash[f] # NoJob => attempts[f] >= 1 /\ msgHash[f] = Last(f)

\* Only transactions that are executed are known, are in a page and are found.
KnownExecuted == knownTx \subseteq Executed /\ page \subseteq Executed /\ completed \subseteq Executed

\* While errors are truthful, a message can be executed only if its attempt is
\* the form's last and the form does not show an error.
Truthful ==
  ~LostReplies => \A j \in Jobs :
    fate[j] # "none" =>
      j = Last(j[1]) /\ form[j[1]] # "error"

IInv ==
  /\ TypeOK
  /\ OneUnderWay
  /\ Begun
  /\ Taken
  /\ PanelAgrees
  /\ KnownExecuted
  /\ Truthful
  /\ DoneMeansPaid

-----------------------------------------------------------------------------

LEMMA JobFacts ==
  ASSUME NEW j \in Jobs
  PROVE  /\ j[1] \in Forms /\ j[2] \in 1..MaxAttempts /\ j = <<j[1], j[2]>>
         /\ j # NoJob
<1>1. PICK f \in Forms, n \in 1..MaxAttempts : j = <<f, n>>
  BY DEF Jobs
<1>2. <<f, n>> # << >>
  OBVIOUS
<1> QED
  BY <1>1, <1>2 DEF NoJob

LEMMA InitIInv == Init => IInv
<1> SUFFICES ASSUME Init PROVE IInv
  OBVIOUS
<1>1. TypeOK
  <2>1. attempts \in [Forms -> 0..MaxAttempts]
    BY ConstantsAssumption DEF Init
  <2>2. Deployed \in BOOLEAN
    BY ConstantsAssumption
  <2>3. msgHash \in [Forms -> Jobs \cup {NoJob}]
    BY DEF Init
  <2> QED
    BY <2>1, <2>2, <2>3 DEF Init, TypeOK
<1>2. OneUnderWay /\ Begun /\ Taken
  BY DEF Init, OneUnderWay, Begun, Taken, UnderWay
<1>3. PanelAgrees
  BY DEF Init, PanelAgrees
<1>4. KnownExecuted /\ Truthful /\ DoneMeansPaid
  BY DEF Init, KnownExecuted, Truthful, DoneMeansPaid
<1> QED
  BY <1>1, <1>2, <1>3, <1>4 DEF IInv

\* What an attempt under way says.
LEMMA UnderWayFacts ==
  ASSUME IInv, NEW j \in Jobs, job[j] \in UnderWay
  PROVE  /\ attempts[j[1]] = j[2] /\ attempts[j[1]] >= 1 /\ j = Last(j[1])
         /\ msgHash[j[1]] = NoJob /\ form[j[1]] \notin {"error", "main", "info"}
         /\ \A k \in Jobs : k[1] = j[1] /\ k # j => job[k] \notin UnderWay
         /\ job[j] # "taken" => fate[j] = "none"
<1>1. j = Last(j[1]) /\ msgHash[j[1]] = NoJob
  BY DEF IInv, OneUnderWay
<1>2. attempts[j[1]] = j[2] /\ attempts[j[1]] >= 1
  BY <1>1, JobFacts DEF Last
<1>3. form[j[1]] \notin {"error", "main", "info"}
  BY <1>2, JobFacts DEF IInv, PanelAgrees
<1>4. \A k \in Jobs : k[1] = j[1] /\ k # j => job[k] \notin UnderWay
  BY <1>1 DEF IInv, OneUnderWay
<1>5. job[j] # "taken" => fate[j] = "none"
  BY DEF IInv, Taken, UnderWay
<1> QED
  BY <1>1, <1>2, <1>3, <1>4, <1>5

\* A step that only moves one attempt on, and may give its message to the server.
LEMMA JobStep ==
  ASSUME IInv, TypeOK', NEW j \in Jobs, NEW s \in UnderWay,
         job[j] \in UnderWay \ {"taken"},
         job' = [job EXCEPT ![j] = s],
         UNCHANGED <<formVars, waitTransactions, knownTx, page, completed>>,
         fate' = fate \/ (s = "taken" /\ fate' = [fate EXCEPT ![j] = "pending"])
  PROVE  IInv'
<1>0. TypeOK
  BY DEF IInv
<1>u. UNCHANGED <<form, attempts, msgHash>>
  BY DEF formVars
<1>j. \A k \in Jobs : job'[k] = IF k = j THEN s ELSE job[k]
  BY <1>0 DEF TypeOK
<1>f. \A k \in Jobs : k # j => fate'[k] = fate[k]
  BY <1>0 DEF TypeOK
<1>g. fate'[j] = fate[j] \/ (s = "taken" /\ fate'[j] = "pending")
  BY <1>0 DEF TypeOK
<1>h. /\ attempts[j[1]] = j[2] /\ attempts[j[1]] >= 1 /\ j = Last(j[1])
      /\ msgHash[j[1]] = NoJob /\ form[j[1]] \notin {"error", "main", "info"}
      /\ fate[j] = "none"
  BY UnderWayFacts
<1>1. OneUnderWay'
  BY <1>j, <1>h, <1>u DEF IInv, OneUnderWay, Last
<1>2. Begun'
  <2> SUFFICES ASSUME NEW k \in Jobs, k[2] > attempts[k[1]] PROVE job'[k] = "none" /\ fate'[k] = "none"
    BY <1>u DEF Begun
  <2>1. k # j
    BY <1>h, JobFacts
  <2> QED
    BY <2>1, <1>j, <1>f DEF IInv, Begun
<1>3. Taken'
  BY <1>j, <1>f, <1>g, <1>h DEF IInv, Taken
<1>4. PanelAgrees'
  BY <1>j, <1>h, <1>u DEF IInv, PanelAgrees, Last
<1>5. KnownExecuted'
  <2>1. Executed \subseteq Executed'
    BY <1>f, <1>h DEF Executed
  <2> QED
    BY <2>1 DEF IInv, KnownExecuted
<1>6. Truthful'
  BY <1>f, <1>g, <1>h, <1>u DEF IInv, Truthful, Last
<1>7. DoneMeansPaid'
  <2>1. Executed \subseteq Executed'
    BY <1>f, <1>h DEF Executed
  <2> QED
    BY <2>1, <1>u DEF IInv, DoneMeansPaid
<1> QED
  BY <1>1, <1>2, <1>3, <1>4, <1>5, <1>6, <1>7 DEF IInv

\* An attempt that ends with an error.
LEMMA EndStep ==
  ASSUME IInv, TypeOK', NEW j \in Jobs,
         job[j] \in UnderWay, job[j] = "taken" => LostReplies,
         job' = [job EXCEPT ![j] = "ended"], ShowError(j),
         UNCHANGED <<attempts, msgHash, walletVars, chainVars>>
  PROVE  IInv'
<1>0. TypeOK
  BY DEF IInv
<1>u. UNCHANGED <<attempts, msgHash, knownTx, page, completed, fate>>
  BY DEF walletVars, listVars, chainVars
<1>j. \A k \in Jobs : job'[k] = IF k = j THEN "ended" ELSE job[k]
  BY <1>0 DEF TypeOK
<1>p. \A f \in Forms : form'[f] = IF f = j[1] /\ Open(f) THEN "error" ELSE form[f]
  BY <1>0 DEF ShowError, TypeOK, Open
<1>h. /\ attempts[j[1]] = j[2] /\ attempts[j[1]] >= 1 /\ j = Last(j[1])
      /\ msgHash[j[1]] = NoJob
      /\ \A k \in Jobs : k[1] = j[1] /\ k # j => job[k] \notin UnderWay
      /\ job[j] # "taken" => fate[j] = "none"
  BY UnderWayFacts
<1>1. OneUnderWay'
  BY <1>j, <1>u DEF IInv, OneUnderWay, Last, UnderWay
<1>2. Begun'
  <2> SUFFICES ASSUME NEW k \in Jobs, k[2] > attempts[k[1]] PROVE job'[k] = "none" /\ fate[k] = "none"
    BY <1>u DEF Begun
  <2>1. k # j
    BY <1>h, JobFacts
  <2> QED
    BY <2>1, <1>j DEF IInv, Begun
<1>3. Taken'
  BY <1>j, <1>u DEF IInv, Taken
<1>4. PanelAgrees'
  <2> SUFFICES ASSUME NEW f \in Forms
               PROVE  /\ form'[f] \in {"main", "info"} => attempts[f] = 0
                      /\ form'[f] = "error" => msgHash[f] = NoJob /\ \A k \in Jobs : k[1] = f => job'[k] \notin UnderWay
                      /\ msgHash[f] # NoJob => attempts[f] >= 1 /\ msgHash[f] = Last(f)
    BY <1>u DEF PanelAgrees, Last
  <2>1. "ended" \notin UnderWay
    BY DEF UnderWay
  <2> QED
    BY <2>1, <1>j, <1>p, <1>h DEF IInv, PanelAgrees
<1>5. KnownExecuted'
  BY <1>u DEF IInv, KnownExecuted, Executed
<1>6. Truthful'
  <2> SUFFICES ASSUME ~LostReplies, NEW k \in Jobs, fate[k] # "none"
               PROVE  k = Last(k[1]) /\ form'[k[1]] # "error"
    BY <1>u DEF Truthful, Last
  <2>1. k = Last(k[1]) /\ form[k[1]] # "error"
    BY DEF IInv, Truthful
  <2>2. k[1] # j[1]
    BY <2>1, <1>h
  <2> QED
    BY <2>1, <2>2, <1>p, JobFacts
<1>7. DoneMeansPaid'
  BY <1>p, <1>u DEF IInv, DoneMeansPaid, Executed
<1> QED
  BY <1>1, <1>2, <1>3, <1>4, <1>5, <1>6, <1>7 DEF IInv

\* A new attempt.
LEMMA SendAmmountStep ==
  ASSUME IInv, NEW f \in Forms, form[f] \in {"info", "error"}, SendAmmount(f)
  PROVE  IInv'
<1>0. TypeOK
  BY DEF IInv
<1> DEFINE j == <<f, attempts[f] + 1>>
<1>u. UNCHANGED <<msgHash, active, waitTransactions, knownSeqno, knownTx, completed, listVars, seqno, exists, deploying, signed, fate>>
  BY DEF SendAmmount, walletVars, listVars, chainVars
<1>a. attempts[f] \in 0..MaxAttempts /\ attempts[f] < MaxAttempts /\ attempts' = [attempts EXCEPT ![f] = @ + 1]
  BY <1>0 DEF SendAmmount, TypeOK
<1>b. j \in Jobs /\ j[1] = f /\ j[2] = attempts[f] + 1
  BY <1>a, ConstantsAssumption DEF Jobs
<1>t. job' = [job EXCEPT ![j] = "decrypt"] /\ form' = [form EXCEPT ![f] = "waiting"]
  BY DEF SendAmmount
<1>1. TypeOK'
  <2>1. attempts' \in [Forms -> 0..MaxAttempts]
    BY <1>0, <1>a, ConstantsAssumption DEF TypeOK
  <2>2. job' \in [Jobs -> {"none", "decrypt", "create", "created", "createFailed", "subscribed",
                           "send", "posted", "taken", "refused", "ended"}]
    BY <1>0, <1>b, <1>t DEF TypeOK
  <2>3. form' \in [Forms -> {"main", "info", "waiting", "error", "done", "closed"}]
    BY <1>0, <1>t DEF TypeOK
  <2> QED
    BY <1>0, <1>u, <2>1, <2>2, <2>3 DEF listVars, TypeOK
<1>j. \A k \in Jobs : job'[k] = IF k = j THEN "decrypt" ELSE job[k]
  BY <1>0, <1>b, <1>t DEF TypeOK
<1>p. \A g \in Forms : form'[g] = IF g = f THEN "waiting" ELSE form[g]
  BY <1>0, <1>t DEF TypeOK
<1>n. \A g \in Forms : attempts'[g] = IF g = f THEN attempts[f] + 1 ELSE attempts[g]
  BY <1>0, <1>a DEF TypeOK
<1>i. \A k \in Jobs : k[1] = f => job[k] \notin UnderWay
  <2>a. CASE form[f] = "error"
    BY <2>a DEF IInv, PanelAgrees
  <2>b. CASE form[f] = "info"
    <3>1. attempts[f] = 0
      BY <2>b DEF IInv, PanelAgrees
    <3> QED
      BY <3>1, JobFacts DEF IInv, Begun, UnderWay
  <2> QED
    BY <2>a, <2>b
<1>m. msgHash[f] = NoJob
  <2>a. CASE form[f] = "error"
    BY <2>a DEF IInv, PanelAgrees
  <2>b. CASE form[f] = "info"
    BY <2>b DEF IInv, PanelAgrees
  <2> QED
    BY <2>a, <2>b
<1>d. job[j] = "none" /\ fate[j] = "none"
  BY <1>a, <1>b DEF IInv, Begun
<1>2. OneUnderWay'
  <2> SUFFICES ASSUME NEW k \in Jobs, job'[k] \in UnderWay
               PROVE  k = <<k[1], attempts'[k[1]]>> /\ msgHash[k[1]] = NoJob
    BY <1>u DEF OneUnderWay, Last
  <2>a. CASE k = j
    BY <2>a, <1>b, <1>n, <1>m
  <2>b. CASE k # j
    <3>1. job[k] \in UnderWay /\ k[1] # f
      BY <2>b, <1>j, <1>i
    <3> QED
      BY <3>1, <1>n, JobFacts DEF IInv, OneUnderWay, Last
  <2> QED
    BY <2>a, <2>b
<1>3. Begun'
  <2> SUFFICES ASSUME NEW k \in Jobs, k[2] > attempts'[k[1]] PROVE job'[k] = "none" /\ fate[k] = "none"
    BY <1>u DEF Begun
  <2>1. k # j /\ k[2] > attempts[k[1]]
    BY <1>a, <1>b, <1>n, JobFacts
  <2> QED
    BY <2>1, <1>j DEF IInv, Begun
<1>4. Taken'
  BY <1>d, <1>j, <1>u DEF IInv, Taken
<1>5. PanelAgrees'
  <2> SUFFICES ASSUME NEW g \in Forms
               PROVE  /\ form'[g] \in {"main", "info"} => attempts'[g] = 0
                      /\ form'[g] = "error" => msgHash[g] = NoJob /\ \A k \in Jobs : k[1] = g => job'[k] \notin UnderWay
                      /\ msgHash[g] # NoJob => attempts'[g] >= 1 /\ msgHash[g] = <<g, attempts'[g]>>
    BY <1>u DEF PanelAgrees, Last
  <2>a. CASE g = f
    BY <2>a, <1>p, <1>m
  <2>b. CASE g # f
    BY <2>b, <1>b, <1>j, <1>p, <1>n DEF IInv, PanelAgrees, Last
  <2> QED
    BY <2>a, <2>b
<1>6. KnownExecuted'
  BY <1>u DEF IInv, KnownExecuted, Executed, listVars
<1>7. Truthful'
  <2> SUFFICES ASSUME ~LostReplies, NEW k \in Jobs, fate[k] # "none"
               PROVE  k = <<k[1], attempts'[k[1]]>> /\ form'[k[1]] # "error"
    BY <1>u DEF Truthful, Last
  <2>1. k = Last(k[1]) /\ form[k[1]] # "error"
    BY DEF IInv, Truthful
  <2>2. k[1] # f
    <3>1. ASSUME form[f] = "info", k[1] = f PROVE FALSE
      <4>1. attempts[f] = 0
        BY <3>1 DEF IInv, PanelAgrees
      <4> QED
        BY <4>1, <3>1, JobFacts DEF IInv, Begun
    <3> QED
      BY <2>1, <3>1
  <2> QED
    BY <2>1, <2>2, <1>n, <1>p, JobFacts DEF Last
<1>8. DoneMeansPaid'
  <2> SUFFICES ASSUME NEW g \in Forms, form'[g] = "done" PROVE <<g, attempts'[g]>> \in Executed
    BY <1>u DEF DoneMeansPaid, Executed
  <2>1. g # f
    BY <1>p
  <2> QED
    BY <2>1, <1>n, <1>p DEF IInv, DoneMeansPaid
<1> QED
  BY <1>1, <1>2, <1>3, <1>4, <1>5, <1>6, <1>7, <1>8 DEF IInv

\* The reply with the hash.
LEMMA AcceptedStep ==
  ASSUME IInv, NEW j \in Jobs, Accepted(j)
  PROVE  IInv'
<1>0. TypeOK
  BY DEF IInv
<1>u. UNCHANGED <<form, attempts, active, knownSeqno, knownTx, completed, listVars, seqno, exists, deploying, signed, fate>>
  BY DEF Accepted, chainVars
<1>t. job[j] = "taken" /\ job' = [job EXCEPT ![j] = "ended"]
  BY DEF Accepted
<1>m. msgHash' = msgHash \/ msgHash' = [msgHash EXCEPT ![j[1]] = j]
  BY DEF Accepted
<1>w. waitTransactions' = waitTransactions \/ waitTransactions' = waitTransactions \cup {j}
  BY DEF Accepted
<1>1. TypeOK'
  <2>1. msgHash' \in [Forms -> Jobs \cup {NoJob}]
    BY <1>0, <1>m DEF TypeOK
  <2>2. job' \in [Jobs -> {"none", "decrypt", "create", "created", "createFailed", "subscribed",
                           "send", "posted", "taken", "refused", "ended"}]
    BY <1>0, <1>t DEF TypeOK
  <2>3. waitTransactions' \subseteq Jobs
    BY <1>0, <1>w DEF TypeOK
  <2> QED
    BY <1>0, <1>u, <2>1, <2>2, <2>3 DEF listVars, TypeOK
<1>j. \A k \in Jobs : job'[k] = IF k = j THEN "ended" ELSE job[k]
  BY <1>0, <1>t DEF TypeOK
<1>h. /\ attempts[j[1]] = j[2] /\ attempts[j[1]] >= 1 /\ j = Last(j[1])
      /\ form[j[1]] \notin {"error", "main", "info"}
      /\ \A k \in Jobs : k[1] = j[1] /\ k # j => job[k] \notin UnderWay
  BY <1>t, UnderWayFacts DEF UnderWay
<1>n. \A f \in Forms : f # j[1] => msgHash'[f] = msgHash[f]
  BY <1>0, <1>m DEF TypeOK
<1>o. msgHash'[j[1]] = msgHash[j[1]] \/ msgHash'[j[1]] = j
  BY <1>0, <1>m, JobFacts DEF TypeOK
<1>2. OneUnderWay'
  <2> SUFFICES ASSUME NEW k \in Jobs, job'[k] \in UnderWay
               PROVE  k = Last(k[1]) /\ msgHash'[k[1]] = NoJob
    BY <1>u DEF OneUnderWay, Last
  <2>1. k # j /\ job[k] \in UnderWay
    BY <1>j DEF UnderWay
  <2>2. k[1] # j[1]
    BY <2>1, <1>h
  <2> QED
    BY <2>1, <2>2, <1>n, JobFacts DEF IInv, OneUnderWay
<1>3. Begun'
  <2> SUFFICES ASSUME NEW k \in Jobs, k[2] > attempts[k[1]] PROVE job'[k] = "none" /\ fate[k] = "none"
    BY <1>u DEF Begun
  <2>1. k # j
    BY <1>h, JobFacts
  <2> QED
    BY <2>1, <1>j DEF IInv, Begun
<1>4. Taken'
  BY <1>j, <1>u DEF IInv, Taken
<1>5. PanelAgrees'
  <2> SUFFICES ASSUME NEW f \in Forms
               PROVE  /\ form[f] \in {"main", "info"} => attempts[f] = 0
                      /\ form[f] = "error" => msgHash'[f] = NoJob /\ \A k \in Jobs : k[1] = f => job'[k] \notin UnderWay
                      /\ msgHash'[f] # NoJob => attempts[f] >= 1 /\ msgHash'[f] = Last(f)
    BY <1>u DEF PanelAgrees, Last
  <2>1. "ended" \notin UnderWay
    BY DEF UnderWay
  <2>a. CASE f = j[1]
    BY <2>a, <1>h, <1>o DEF IInv, PanelAgrees
  <2>b. CASE f # j[1]
    BY <2>1, <2>b, <1>n, <1>j DEF IInv, PanelAgrees
  <2> QED
    BY <2>a, <2>b
<1>6. KnownExecuted'
  BY <1>u DEF IInv, KnownExecuted, Executed, listVars
<1>7. Truthful'
  BY <1>u DEF IInv, Truthful, Last
<1>8. DoneMeansPaid'
  BY <1>u DEF IInv, DoneMeansPaid, Executed
<1> QED
  BY <1>1, <1>2, <1>3, <1>4, <1>5, <1>6, <1>7, <1>8 DEF IInv

\* A step of the user, or of TransactionComplete, that leaves the attempts alone.
LEMMA PanelStep ==
  ASSUME IInv, TypeOK',
         UNCHANGED <<attempts, msgHash, job, waitTransactions, knownTx, page, chainVars>>,
         completed' \subseteq completed,
         \A f \in Forms :
           \/ form'[f] = form[f]
           \/ (form'[f] = "info" /\ form[f] = "main")
           \/ form'[f] = "closed"
           \/ (form'[f] = "done" /\ msgHash[f] \in completed)
  PROVE  IInv'
<1>0. TypeOK
  BY DEF IInv
<1>u. UNCHANGED <<attempts, msgHash, job, knownTx, fate>>
  BY DEF chainVars
<1>1. OneUnderWay' /\ Begun' /\ Taken'
  BY <1>u DEF IInv, OneUnderWay, Begun, Taken, Last
<1>2. PanelAgrees'
  BY <1>u DEF IInv, PanelAgrees, Last
<1>3. KnownExecuted'
  BY <1>u DEF IInv, KnownExecuted, Executed
<1>4. Truthful'
  BY <1>u, JobFacts DEF IInv, Truthful, Last
<1>5. DoneMeansPaid'
  <2> SUFFICES ASSUME NEW f \in Forms, form'[f] = "done" PROVE Last(f) \in Executed
    BY <1>u DEF DoneMeansPaid, Executed, Last
  <2>a. CASE form[f] = "done"
    BY <2>a DEF IInv, DoneMeansPaid, Last
  <2>b. CASE msgHash[f] \in completed
    <3>1. msgHash[f] \in Executed
      BY <2>b DEF IInv, KnownExecuted
    <3>2. msgHash[f] # NoJob
      BY <3>1, JobFacts DEF Executed
    <3> QED
      BY <3>1, <3>2 DEF IInv, PanelAgrees
  <2> QED
    BY <2>a, <2>b
<1> QED
  BY <1>1, <1>2, <1>3, <1>4, <1>5 DEF IInv

\* A step of the chain or of the refresh.
LEMMA OutsideStep ==
  ASSUME IInv, TypeOK',
         UNCHANGED formVars,
         \A j \in Jobs : job'[j] = job[j] \/ (job[j] = "subscribed" /\ job'[j] = "send"),
         \A j \in Jobs : fate'[j] = fate[j] \/ (fate[j] = "pending" /\ fate'[j] \in {"executed", "expired"}),
         knownTx' \subseteq knownTx \cup Executed,
         page' \subseteq page \cup knownTx,
         completed' \subseteq completed \cup page
  PROVE  IInv'
<1>0. TypeOK
  BY DEF IInv
<1>u. UNCHANGED <<form, attempts, msgHash>>
  BY DEF formVars
<1>j. \A j \in Jobs : (job'[j] \in UnderWay <=> job[j] \in UnderWay) /\ (job'[j] \in {"none", "taken", "ended"} <=> job[j] \in {"none", "taken", "ended"})
                      /\ (job'[j] = "none" <=> job[j] = "none")
  BY DEF UnderWay
<1>e. Executed \subseteq Executed'
  BY DEF Executed
<1>1. OneUnderWay'
  BY <1>j, <1>u DEF IInv, OneUnderWay, Last
<1>2. Begun'
  BY <1>j, <1>u DEF IInv, Begun
<1>3. Taken'
  BY <1>j DEF IInv, Taken
<1>4. PanelAgrees'
  BY <1>j, <1>u DEF IInv, PanelAgrees, Last
<1>5. KnownExecuted'
  BY <1>e DEF IInv, KnownExecuted
<1>6. Truthful'
  BY <1>u DEF IInv, Truthful, Last
<1>7. DoneMeansPaid'
  BY <1>e, <1>u DEF IInv, DoneMeansPaid
<1> QED
  BY <1>1, <1>2, <1>3, <1>4, <1>5, <1>6, <1>7 DEF IInv

LEMMA StepIInv ==
  ASSUME IInv, NEW j \in Jobs, Step(j)
  PROVE  IInv'
<1>0. TypeOK
  BY DEF IInv
<1>1. CASE Decrypted(j)
  <2>1. PICK s \in {"send", "create"} : job' = [job EXCEPT ![j] = s]
    BY <1>1 DEF Decrypted
  <2>2. TypeOK'
    BY <1>0, <1>1, <2>1 DEF Decrypted, formVars, walletVars, listVars, chainVars, TypeOK
  <2> QED
    BY <2>1, <2>2, <1>1, JobStep DEF Decrypted, walletVars, listVars, chainVars, UnderWay
<1>2. CASE CreateWallet(j)
  <2>1. PICK s \in {"created", "createFailed"} : job' = [job EXCEPT ![j] = s]
    BY <1>2 DEF CreateWallet
  <2>2. deploying' \in BOOLEAN
    BY <1>0, <1>2 DEF CreateWallet, TypeOK
  <2>3. TypeOK'
    BY <1>0, <1>2, <2>1, <2>2 DEF CreateWallet, formVars, walletVars, listVars, TypeOK
  <2> QED
    BY <2>1, <2>3, <1>2, JobStep DEF CreateWallet, walletVars, listVars, UnderWay
<1>3. CASE Subscribe(j)
  <2>1. TypeOK'
    BY <1>0, <1>3 DEF Subscribe, formVars, walletVars, listVars, chainVars, TypeOK
  <2> QED
    BY <2>1, <1>3, JobStep DEF Subscribe, walletVars, listVars, chainVars, UnderWay
<1>4. CASE CreateWalletFails(j)
  <2>1. TypeOK'
    BY <1>0, <1>4 DEF CreateWalletFails, ShowError, walletVars, listVars, chainVars, TypeOK
  <2> QED
    BY <2>1, <1>4, EndStep DEF CreateWalletFails, UnderWay
<1>5. CASE SignMessage(j)
  <2>1. TypeOK'
    BY <1>0, <1>5 DEF SignMessage, formVars, walletVars, listVars, TypeOK
  <2> QED
    BY <2>1, <1>5, JobStep DEF SignMessage, walletVars, listVars, UnderWay
<1>6. CASE SignFails(j)
  <2>1. TypeOK'
    BY <1>0, <1>6 DEF SignFails, formVars, walletVars, listVars, chainVars, TypeOK
  <2> QED
    BY <2>1, <1>6, JobStep DEF SignFails, walletVars, listVars, chainVars, UnderWay
<1>7. CASE ServerTakes(j)
  <2>1. TypeOK'
    BY <1>0, <1>7 DEF ServerTakes, formVars, walletVars, listVars, TypeOK
  <2> QED
    BY <2>1, <1>7, JobStep DEF ServerTakes, walletVars, listVars, UnderWay
<1>8. CASE Accepted(j)
  BY <1>8, AcceptedStep
<1>9. CASE Failed(j)
  <2>1. TypeOK'
    BY <1>0, <1>9 DEF Failed, ShowError, walletVars, listVars, chainVars, TypeOK
  <2> QED
    BY <2>1, <1>9, EndStep DEF Failed, UnderWay
<1> QED
  BY <1>1, <1>2, <1>3, <1>4, <1>5, <1>6, <1>7, <1>8, <1>9 DEF Step

LEMMA NextIInv == IInv /\ [Next]_vars => IInv'
<1> SUFFICES ASSUME IInv, [Next]_vars PROVE IInv'
  OBVIOUS
<1>0. TypeOK
  BY DEF IInv
<1>1. ASSUME NEW f \in Forms, Send(f) PROVE IInv'
  <2>1. TypeOK'
    BY <1>0, <1>1 DEF Send, walletVars, listVars, chainVars, TypeOK
  <2>2. \A g \in Forms : form'[g] = form[g] \/ (form'[g] = "info" /\ form[g] = "main")
    BY <1>0, <1>1 DEF Send, TypeOK
  <2> QED
    BY <2>1, <2>2, <1>1, PanelStep DEF Send, walletVars, listVars
<1>2. ASSUME NEW f \in Forms, Sign(f) \/ Repeat(f) PROVE IInv'
  BY <1>2, SendAmmountStep DEF Sign, Repeat
<1>3. ASSUME NEW f \in Forms, Close(f) PROVE IInv'
  <2>1. TypeOK'
    BY <1>0, <1>3 DEF Close, walletVars, listVars, chainVars, TypeOK
  <2>2. \A g \in Forms : form'[g] = form[g] \/ form'[g] = "closed"
    BY <1>0, <1>3 DEF Close, TypeOK
  <2> QED
    BY <2>1, <2>2, <1>3, PanelStep DEF Close, walletVars, listVars
<1>4. ASSUME NEW j \in Jobs, TransactionComplete(j) PROVE IInv'
  <2>1. \A g \in Forms : form'[g] = form[g] \/ (form'[g] = "done" /\ msgHash[g] \in completed)
    BY <1>0, <1>4 DEF TransactionComplete, TypeOK
  <2>2. TypeOK'
    BY <1>0, <1>4 DEF TransactionComplete, listVars, chainVars, TypeOK
  <2> QED
    BY <2>1, <2>2, <1>4, PanelStep DEF TransactionComplete, listVars
<1>5. CASE Deploy
  <2>1. TypeOK'
    BY <1>0, <1>5 DEF Deploy, formVars, walletVars, listVars, TypeOK
  <2> QED
    BY <2>1, <1>5, OutsideStep DEF Deploy, walletVars, listVars
<1>6. ASSUME NEW j \in Jobs, Execute(j) PROVE IInv'
  <2>1. seqno' \in Nat /\ fate' \in [Jobs -> {"none", "pending", "executed", "expired"}]
    BY <1>0, <1>6 DEF Execute, TypeOK
  <2>2. TypeOK'
    BY <1>0, <1>6, <2>1 DEF Execute, formVars, walletVars, listVars, TypeOK
  <2>3. \A k \in Jobs : fate'[k] = fate[k] \/ (fate[k] = "pending" /\ fate'[k] \in {"executed", "expired"})
    BY <1>0, <1>6 DEF Execute, TypeOK
  <2> QED
    BY <2>2, <2>3, <1>6, OutsideStep DEF Execute, walletVars, listVars
<1>7. ASSUME NEW j \in Jobs, Expire(j) PROVE IInv'
  <2>1. TypeOK'
    BY <1>0, <1>7 DEF Expire, formVars, walletVars, listVars, TypeOK
  <2>2. \A k \in Jobs : fate'[k] = fate[k] \/ (fate[k] = "pending" /\ fate'[k] \in {"executed", "expired"})
    BY <1>0, <1>7 DEF Expire, TypeOK
  <2> QED
    BY <2>1, <2>2, <1>7, OutsideStep DEF Expire, walletVars, listVars
<1>8. CASE Update
  <2>1. \A j \in Jobs : job'[j] = job[j] \/ (job[j] = "subscribed" /\ job'[j] = "send")
    BY <1>8 DEF Update
  <2>2. job' \in [Jobs -> {"none", "decrypt", "create", "created", "createFailed", "subscribed",
                           "send", "posted", "taken", "refused", "ended"}]
    BY <1>0, <1>8 DEF Update, TypeOK
  <2>3. Executed \subseteq Jobs
    BY DEF Executed
  <2>4. TypeOK'
    BY <1>0, <1>8, <2>2, <2>3 DEF Update, NewestRequested, formVars, chainVars, TypeOK
  <2> QED
    BY <2>1, <2>4, <1>8, OutsideStep DEF Update, chainVars
<1>9. CASE Page
  <2>1. TypeOK'
    <3>1. page' \subseteq Jobs /\ transactions' \subseteq Jobs /\ waitTransactions' \subseteq Jobs /\ completed' \subseteq Jobs
      BY <1>0, <1>9 DEF Page, OlderPage, QueryNewest, UpdateWaitTransactions, Matching, QueryFails, EndUpdate, TypeOK
    <3>2. updating' \in {"no", "older", "queued", "sent", "done"}
      BY <1>9 DEF Page, OlderPage, QueryNewest, UpdateWaitTransactions, QueryFails, EndUpdate
    <3>3. UNCHANGED <<formVars, job, active, knownSeqno, knownTx, chainVars>>
      BY <1>9 DEF Page, OlderPage, QueryNewest, UpdateWaitTransactions, QueryFails, EndUpdate
    <3> QED
      BY <1>0, <3>1, <3>2, <3>3 DEF formVars, chainVars, TypeOK
  <2>2. UNCHANGED <<formVars, job, knownTx, chainVars>>
    BY <1>9 DEF Page, OlderPage, QueryNewest, UpdateWaitTransactions, QueryFails, EndUpdate
  <2>3. completed' \subseteq completed \cup page
    BY <1>9 DEF Page, OlderPage, QueryNewest, UpdateWaitTransactions, Matching, QueryFails, EndUpdate
  <2>4. page' \subseteq page \cup knownTx
    BY <1>9 DEF Page, OlderPage, QueryNewest, UpdateWaitTransactions, QueryFails, EndUpdate
  <2> QED
    BY <2>1, <2>2, <2>3, <2>4, OutsideStep DEF chainVars
<1>11. CASE Connected \/ Scroll
  <2>1. updating' \in {"queued", "older"}
    BY <1>11 DEF Connected, Scroll, NewestRequested
  <2>2. UNCHANGED <<formVars, job, active, waitTransactions, knownSeqno, knownTx, completed, page, transactions, chainVars>>
    BY <1>11 DEF Connected, Scroll
  <2>3. TypeOK'
    BY <1>0, <2>1, <2>2 DEF formVars, chainVars, TypeOK
  <2> QED
    BY <2>2, <2>3, OutsideStep DEF chainVars
<1>10. CASE UNCHANGED vars
  <2>1. TypeOK'
    BY <1>0, <1>10 DEF vars, formVars, walletVars, listVars, chainVars, TypeOK
  <2> QED
    BY <2>1, <1>10, OutsideStep DEF vars, formVars, walletVars, listVars, chainVars
<1> QED
  BY <1>1, <1>2, <1>3, <1>4, <1>5, <1>6, <1>7, <1>8, <1>9, <1>10, <1>11, StepIInv DEF Next

THEOREM Invariance == Spec => []IInv
<1>1. Init => IInv
  BY InitIInv
<1>2. IInv /\ [Next]_vars => IInv'
  BY NextIInv
<1> QED
  BY <1>1, <1>2, PTL DEF Spec

\* Every variable has its type.
THEOREM TypeCorrect == Spec => []TypeOK
<1>1. IInv => TypeOK
  BY DEF IInv
<1> QED
  BY <1>1, Invariance, PTL

\* A form says that the coins were sent only when the message of its last attempt
\* was executed (SendController.Wallet_TransactionComplete), also when errors lie.
THEOREM DoneMeansPaidHolds == Spec => []DoneMeansPaid
<1>1. IInv => DoneMeansPaid
  BY DEF IInv
<1> QED
  BY <1>1, Invariance, PTL

\* While errors are truthful, repeating never pays twice, whatever the number of
\* attempts (SendController.SendAmmount, TonWallet.SendMessages).
THEOREM PaidOnceHolds == ASSUME ~LostReplies PROVE Spec => []PaidOnce
<1>1. IInv => PaidOnce
  <2> SUFFICES ASSUME IInv, NEW f \in Forms
               PROVE  Cardinality({j \in Executed : j[1] = f}) <= 1
    BY DEF PaidOnce
  <2> DEFINE S == {j \in Executed : j[1] = f}
  <2>1. S \subseteq {Last(f)}
    BY DEF IInv, Truthful, Executed
  <2>2. S = {} \/ S = {Last(f)}
    BY <2>1
  <2>a. CASE S = {}
    <3>1. Cardinality(S) = 0
      BY <2>a, FS_EmptySet
    <3> QED
      BY <3>1
  <2>b. CASE S = {Last(f)}
    <3>1. Cardinality({Last(f)}) = 1
      BY FS_Singleton
    <3> HIDE DEF S
    <3>2. Cardinality(S) = 1
      BY <3>1, <2>b
    <3>3. Cardinality(S) <= 1
      BY <3>2
    <3> QED
      BY <3>3 DEF S
  <2> QED
    BY <2>2, <2>a, <2>b
<1> QED
  BY <1>1, Invariance, PTL

=============================================================================
