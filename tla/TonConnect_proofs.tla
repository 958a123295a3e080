------------------------- MODULE TonConnect_proofs -------------------------
(***************************************************************************)
(* The forms, the queue and the bridge keep RequestProtocol, for any set   *)
(* of requests and any failure of the bridge.                              *)
(***************************************************************************)
EXTENDS TonConnect, TLAPS

Panels == {"new", "inbox", "invalid", "dropped", "calc", "main", "password",
           "checking", "wrong", "waiting", "error", "done", "closed"}
Unasked == {"new", "inbox", "invalid", "dropped"}
Jobs == {"none", "checking", "sending", "taken", "ended"}

Typed ==
  /\ panel \in [Requests -> Panels]
  /\ job \in [Requests -> Jobs]
  /\ paid \in [Requests -> Nat]
  /\ lost \in [Requests -> Nat]
  /\ told \in [Requests -> {<< >>, <<"invalid">>, <<"declined">>, <<"confirmed">>}]
  /\ queue \in Seq(Messages)
  /\ inbox \in Seq(Requests \cup {"disconnect"})

\* The message that the form knows to be taken is the only one whose reply was not
\* lost; only a form works on a request, and replies are lost after the password check.
PaidByJob(r) ==
  /\ paid[r] = lost[r] + IF job[r] \in {"taken", "ended"} THEN 1 ELSE 0
  /\ panel[r] \in Unasked \cup {"calc", "main", "password", "wrong"} \/ job[r] = "checking" => lost[r] = 0
  /\ panel[r] \in Unasked \cup {"calc", "main", "password", "wrong", "error"} => job[r] = "none"

\* What the dApp was told agrees with the form.
ToldAgrees(r) ==
  /\ told[r] = <<"invalid">> => panel[r] = "invalid"
  /\ told[r] = <<"declined">> => panel[r] = "closed" /\ job[r] = "none" /\ lost[r] = 0
  /\ told[r] = <<"confirmed">> => job[r] = "ended"

\* So does an answer in the queue, and it is the first.
Agrees(m) ==
  m.about \in Requests =>
    /\ told[m.about] = << >>
    /\ m.what = "invalid" => panel[m.about] = "invalid"
    /\ m.what = "declined" => panel[m.about] = "closed" /\ job[m.about] = "none" /\ lost[m.about] = 0
    /\ m.what = "confirmed" => job[m.about] = "ended"

QueueAgrees ==
  /\ \A i \in 1..Len(queue) : Agrees(queue[i])
  /\ \A i, j \in 1..Len(queue) :
       queue[i].about \in Requests /\ queue[i].about = queue[j].about => i = j

\* The dApp sends each request once.
InboxAgrees ==
  /\ \A i \in 1..Len(inbox) : inbox[i] \in Requests => panel[inbox[i]] = "inbox"
  /\ \A i, j \in 1..Len(inbox) : inbox[i] \in Requests /\ inbox[i] = inbox[j] => i = j

IInv ==
  /\ Typed
  /\ \A r \in Requests : PaidByJob(r) /\ ToldAgrees(r)
  /\ QueueAgrees
  /\ InboxAgrees

-----------------------------------------------------------------------------
(* The queue *)

\* Messages about the connection are not about a request.
LEMMA MessageFacts ==
  /\ \A w \in {"success", "declined", "cancelled"} :
       Message(w) \in Messages /\ Message(w).about \notin Requests
  /\ \A w \in Answers :
       AnswerTo("disconnect", w) \in Messages /\ AnswerTo("disconnect", w).about \notin Requests
  /\ \A r \in Requests, w \in Answers :
       AnswerTo(r, w) \in Messages /\ AnswerTo(r, w).about = r /\ AnswerTo(r, w).what = w
  /\ \A m \in Messages : m.about \in Requests => m.what \in Answers
<1>1. \A w \in {"success", "declined", "cancelled"} :
        Message(w) \in Messages /\ Message(w).about \notin Requests
  BY ConstantsAssumption DEF Message, Messages
<1>2. \A w \in Answers :
        AnswerTo("disconnect", w) \in Messages /\ AnswerTo("disconnect", w).about \notin Requests
  BY ConstantsAssumption DEF AnswerTo, Messages
<1>3. \A r \in Requests, w \in Answers :
        AnswerTo(r, w) \in Messages /\ AnswerTo(r, w).about = r /\ AnswerTo(r, w).what = w
  BY DEF AnswerTo, Messages
<1>4. \A m \in Messages : m.about \in Requests => m.what \in Answers
  BY ConstantsAssumption DEF Message, AnswerTo, Messages
<1> QED BY <1>1, <1>2, <1>3, <1>4

\* What the connection, its form and its disconnection may do to the queue.
QueueStep ==
  \/ queue' = queue
  \/ queue' = << >>
  \/ queue # << >> /\ queue' = Tail(queue)
  \/ \E m \in Messages : m.about \notin Requests /\ queue' = Append(queue, m)

\* The entries of the queue after such a step are entries of before, or new ones
\* that are not about a request.
LEMMA QueueEntries ==
  ASSUME queue \in Seq(Messages), QueueStep
  PROVE  /\ queue' \in Seq(Messages)
         /\ \E d \in {0, 1} : \A i \in 1..Len(queue') :
              queue'[i].about \in Requests => i + d \in 1..Len(queue) /\ queue'[i] = queue[i + d]
<1>1. CASE queue' = queue
  BY <1>1
<1>2. CASE queue' = << >>
  BY <1>2
<1>3. CASE queue # << >> /\ queue' = Tail(queue)
  BY <1>3
<1>4. CASE \E m \in Messages : m.about \notin Requests /\ queue' = Append(queue, m)
  BY <1>4
<1> QED BY <1>1, <1>2, <1>3, <1>4 DEF QueueStep

\* Such a step keeps QueueAgrees when the forms and the dApp do nothing.
LEMMA QueueStepAgrees ==
  ASSUME queue \in Seq(Messages), QueueAgrees, QueueStep,
         UNCHANGED <<panel, job, lost, told>>
  PROVE  queue' \in Seq(Messages) /\ QueueAgrees'
<1>1. PICK d \in {0, 1} : \A i \in 1..Len(queue') :
        queue'[i].about \in Requests => i + d \in 1..Len(queue) /\ queue'[i] = queue[i + d]
  BY QueueEntries
<1>2. queue' \in Seq(Messages)
  BY QueueEntries
<1>3. (\A i \in 1..Len(queue) : Agrees(queue[i]))'
  BY <1>1 DEF QueueAgrees, Agrees
<1>4. \A i, j \in 1..Len(queue') :
        queue'[i].about \in Requests /\ queue'[i].about = queue'[j].about => i = j
  BY <1>1, <1>2 DEF QueueAgrees
<1> QED BY <1>2, <1>3, <1>4 DEF QueueAgrees

\* A step of the connection that touches neither forms nor requests.
ConnectionStep == QueueStep /\ UNCHANGED <<panel, job, paid, lost, told, inbox>>

LEMMA ConnectionStepInv ==
  ASSUME IInv, ConnectionStep
  PROVE  IInv' /\ \A r \in Requests : Status(r)' = Status(r)
<1>1. queue' \in Seq(Messages) /\ QueueAgrees'
  BY QueueStepAgrees DEF IInv, Typed, ConnectionStep
<1>2. Typed'
  BY <1>1 DEF IInv, Typed, ConnectionStep
<1>3. \A r \in Requests : PaidByJob(r)' /\ ToldAgrees(r)'
  BY DEF IInv, ConnectionStep, PaidByJob, ToldAgrees
<1>4. InboxAgrees'
  BY DEF IInv, ConnectionStep, InboxAgrees
<1>5. \A r \in Requests : Status(r)' = Status(r)
  BY DEF ConnectionStep, Status
<1> QED BY <1>1, <1>2, <1>3, <1>4, <1>5 DEF IInv

-----------------------------------------------------------------------------
(* The steps of the connection *)

LEMMA DisposeStep ==
  ASSUME NEW th, NEW q, Dispose(th, q)
  PROVE  queue' = q \/ queue' = << >>
BY DEF Dispose, Removed

LEMMA ConnectFormStep ==
  ASSUME ConnectForm
  PROVE  ConnectionStep
<1> USE DEF ConnectionStep, requestVars, dAppVars
<1>1. CASE Setpasscode \/ CloseConnectForm \/ CheckPassword \/ Connect \/ WrongPassword
           \/ StateInitFails \/ Connected \/ ConnectFailed
  BY <1>1 DEF Setpasscode, CloseConnectForm, TurnConnectForm, CheckPassword, Connect,
              WrongPassword, StateInitFails, Connected, ConnectFailed, QueueStep
<1>2. CASE StateInitReceived
  BY <1>2, MessageFacts DEF StateInitReceived, Enqueue, QueueStep
<1>3. CASE Decline \/ CancelConnect
  <2>1. PICK w \in {"declined", "cancelled"} :
          Enqueue(Message(w)) /\ UNCHANGED <<requestVars, dAppVars>>
    BY <1>3 DEF Decline, CancelConnect, PostDecline
  <2> QED BY <2>1, MessageFacts DEF Enqueue, QueueStep
<1>4. CASE Declined("declined") \/ Declined("notDeclined")
  <2>1. Dispose("ui", queue) /\ UNCHANGED <<requestVars, dAppVars>>
    BY <1>4 DEF Declined
  <2> QED BY <2>1, DisposeStep DEF QueueStep
<1> QED BY <1>1, <1>2, <1>3, <1>4 DEF ConnectForm

LEMMA DisconnectionStep ==
  ASSUME Disconnection
  PROVE  ConnectionStep
<1> USE DEF ConnectionStep, requestVars, dAppVars
<1>1. CASE UserDisconnects \/ Terminated
  BY <1>1 DEF UserDisconnects, Terminated, QueueStep
<1>2. CASE PoolDisposes
  <2>1. Dispose("pool", queue) /\ UNCHANGED <<requestVars, dAppVars>>
    BY <1>2 DEF PoolDisposes
  <2> QED BY <2>1, DisposeStep DEF QueueStep
<1>3. ASSUME NEW th \in Disposers, DisconnectPosted(th)
      PROVE  ConnectionStep
  <2>1. queue' \in Removed(queue) \cup {queue}
    BY <1>3 DEF DisconnectPosted
  <2> QED BY <1>3, <2>1 DEF DisconnectPosted, Removed, QueueStep
<1>4. ASSUME NEW th \in Disposers, DisconnectFails(th)
      PROVE  ConnectionStep
  BY <1>4, MessageFacts DEF DisconnectFails, Enqueue, QueueStep, Answers
<1> QED BY <1>1, <1>2, <1>3, <1>4 DEF Disconnection

\* The steps of the queue that are not an answer to a request.
LEMMA QueueThreadStep ==
  ASSUME \/ ConnectEventPosted("success") \/ ConnectEventPosted("declined") \/ CancelPosted
         \/ \E what \in Answers : AnswerPosted("disconnect", what)
         \/ \E m \in Messages : PostFails(m),
         IInv
  PROVE  ConnectionStep
<1> USE DEF ConnectionStep, requestVars, dAppVars
<1>1. CASE ConnectEventPosted("success") \/ ConnectEventPosted("declined")
  BY <1>1 DEF ConnectEventPosted, IsNext, QueueStep
<1>2. CASE CancelPosted
  <2>1. queue # << >> /\ Dispose("queue", Tail(queue)) /\ UNCHANGED <<requestVars, inbox, told>>
    BY <1>2 DEF CancelPosted, IsNext
  <2> QED BY <2>1, DisposeStep DEF QueueStep
<1>3. ASSUME NEW what \in Answers, AnswerPosted("disconnect", what)
      PROVE  ConnectionStep
  <2>1. told' = told
    <3>1. \A t \in Requests : t # "disconnect"
      BY ConstantsAssumption
    <3> QED BY <1>3, <3>1 DEF AnswerPosted, IInv, Typed
  <2> QED BY <1>3, <2>1 DEF AnswerPosted, IsNext, QueueStep
<1>4. ASSUME NEW m \in Messages, PostFails(m)
      PROVE  ConnectionStep
  <2>1. queue # << >> /\ UNCHANGED <<requestVars, dAppVars>>
    BY <1>4 DEF PostFails, IsNext
  <2>2. Dispose("queue", Tail(queue)) \/ queue' = Tail(queue)
    BY <1>4 DEF PostFails
  <2> QED BY <2>1, <2>2, DisposeStep DEF QueueStep
<1> QED BY <1>1, <1>2, <1>3, <1>4

-----------------------------------------------------------------------------
(* The steps that concern a request *)

\* What happens to the other requests' entries.
OthersSame(r) ==
  \A q \in Requests \ {r} :
    panel'[q] = panel[q] /\ job'[q] = job[q] /\ paid'[q] = paid[q] /\ lost'[q] = lost[q] /\ told'[q] = told[q]

LEMMA StatusMove ==
  ASSUME NEW r \in Requests, OthersSame(r)
  PROVE  \A q \in Requests \ {r} : Status(q)' = Status(q)
BY DEF OthersSame, Status

LEMMA MoveOne ==
  ASSUME NEW r \in Requests, NEW from, NEW to, Status(r) = from, Status(r)' = to,
         \A q \in Requests \ {r} : Status(q)' = Status(q)
  PROVE  Protocol!Move(r, from, to)
BY DEF Protocol!Move

\* What a step must do: keep the invariant, and look like a step of the protocol.
Kept == IInv' /\ (Protocol!Next \/ \A r \in Requests : Status(r)' = Status(r))

LEMMA AnswerPostedStep ==
  ASSUME IInv, NEW r \in Requests, NEW what \in Answers, AnswerPosted(r, what)
  PROVE  Kept
<1>1. /\ queue \in Seq(Messages) /\ queue # << >> /\ queue' = Tail(queue)
      /\ queue[1].about = r /\ queue[1].what = what
  BY MessageFacts DEF AnswerPosted, IsNext, IInv, Typed
<1>2. UNCHANGED <<panel, job, paid, lost, inbox>>
  BY DEF AnswerPosted, requestVars
<1>3. told[r] = << >> /\ Agrees(queue[1])
  BY <1>1 DEF IInv, QueueAgrees, Agrees
<1>4. told'[r] = <<what>> /\ \A q \in Requests \ {r} : told'[q] = told[q]
  BY <1>3 DEF AnswerPosted, IInv, Typed
<1>5. told' \in [Requests -> {<< >>, <<"invalid">>, <<"declined">>, <<"confirmed">>}]
  <2>1. DOMAIN told' = Requests /\ told' = [t \in Requests |-> told'[t]]
    BY DEF AnswerPosted
  <2>2. \A t \in Requests : told'[t] \in {<< >>, <<"invalid">>, <<"declined">>, <<"confirmed">>}
    BY <1>4 DEF IInv, Typed, Answers
  <2> QED BY <2>1, <2>2
<1>6. Typed'
  BY <1>1, <1>2, <1>5 DEF IInv, Typed
<1>7. \A q \in Requests : PaidByJob(q)'
  BY <1>2 DEF IInv, PaidByJob
<1>8. \A q \in Requests : ToldAgrees(q)'
  <2>1. ToldAgrees(r)'
    BY <1>1, <1>2, <1>3, <1>4 DEF Agrees, ToldAgrees, Answers
  <2>2. \A q \in Requests \ {r} : ToldAgrees(q)'
    BY <1>2, <1>4 DEF IInv, ToldAgrees
  <2> QED BY <2>1, <2>2
<1>9. QueueAgrees'
  <2>1. \A i \in 1..Len(queue') : i + 1 \in 1..Len(queue) /\ queue'[i] = queue[i + 1]
    BY <1>1
  <2>2. \A i \in 1..Len(queue') : queue'[i].about # r
    BY <1>1, <2>1 DEF IInv, QueueAgrees
  <2>3. (\A i \in 1..Len(queue) : Agrees(queue[i]))'
    BY <1>2, <1>4, <2>1, <2>2 DEF IInv, QueueAgrees, Agrees
  <2>4. \A i, j \in 1..Len(queue') :
          queue'[i].about \in Requests /\ queue'[i].about = queue'[j].about => i = j
    BY <1>1, <2>1 DEF IInv, QueueAgrees
  <2> QED BY <2>3, <2>4 DEF QueueAgrees
<1>10. InboxAgrees'
  BY <1>2 DEF IInv, InboxAgrees
<1>11. IInv'
  BY <1>6, <1>7, <1>8, <1>9, <1>10 DEF IInv
<1>12. \A q \in Requests \ {r} : Status(q)' = Status(q)
  BY <1>2, <1>4, StatusMove DEF OthersSame
<1>13. PaidByJob(r) /\ PaidByJob(r)' /\ paid[r] \in Nat /\ lost[r] \in Nat
  BY <1>7 DEF IInv, Typed
<1>14. CASE what = "invalid"
  <2>1. panel[r] = "invalid" /\ panel'[r] = "invalid" /\ paid[r] = 0 /\ paid'[r] = 0
    BY <1>14, <1>1, <1>2, <1>3, <1>13 DEF Agrees, PaidByJob, Unasked
  <2>2. Status(r) = "new" /\ Status(r)' = "rejected"
    BY <1>14, <1>2, <1>3, <1>4, <1>13, <2>1 DEF Status
  <2> QED BY <1>11, <1>12, <2>2, MoveOne DEF Kept, Protocol!Next, Protocol!Reject
<1>15. CASE what = "declined"
  <2>1. panel[r] = "closed" /\ paid[r] = 0 /\ paid'[r] = 0
    BY <1>15, <1>1, <1>2, <1>3, <1>13 DEF Agrees, PaidByJob
  <2>2. Status(r) = "asked" /\ Status(r)' = "declined"
    BY <1>15, <1>2, <1>3, <1>4, <1>13, <2>1 DEF Status
  <2> QED BY <1>11, <1>12, <2>2, MoveOne DEF Kept, Protocol!Next, Protocol!Decline
<1>16. CASE what = "confirmed"
  <2>1. Status(r) = "paid" /\ Status(r)' = "confirmed"
    BY <1>16, <1>1, <1>2, <1>3, <1>4, <1>13 DEF Agrees, PaidByJob, Unasked, Status
  <2> QED BY <1>11, <1>12, <2>1, MoveOne DEF Kept, Protocol!Next, Protocol!Confirm
<1> QED BY <1>14, <1>15, <1>16 DEF Answers

\* Nothing was answered to the request.
Unanswered(r) == told[r] = << >> /\ \A i \in 1..Len(queue) : queue[i].about # r

LEMMA StillUnanswered ==
  ASSUME IInv, NEW r \in Requests, job[r] # "ended", panel[r] # "invalid",
         panel[r] # "closed" \/ job[r] # "none"
  PROVE  Unanswered(r)
<1>1. told[r] = << >>
  BY DEF IInv, Typed, ToldAgrees
<1>2. ASSUME NEW i \in 1..Len(queue), queue[i].about = r
      PROVE  FALSE
  <2>1. queue[i] \in Messages
    BY DEF IInv, Typed
  <2>2. queue[i].what \in Answers
    BY <1>2, <2>1, MessageFacts
  <2>3. Agrees(queue[i])
    BY DEF IInv, QueueAgrees
  <2> QED BY <1>2, <2>2, <2>3 DEF Agrees, Answers
<1> QED BY <1>1, <1>2 DEF Unanswered

\* A form's step: it shows the panel p, its job becomes j, and k replies are lost.
FormStep(r, p, j, n, k) ==
  /\ panel' = [panel EXCEPT ![r] = p]
  /\ job' = [job EXCEPT ![r] = j]
  /\ paid' = [paid EXCEPT ![r] = n]
  /\ lost' = [lost EXCEPT ![r] = k]
  /\ told' = told

Fits(w, p, j, k) ==
  \/ w = "invalid" /\ p = "invalid"
  \/ w = "declined" /\ p = "closed" /\ j = "none" /\ k = 0
  \/ w = "confirmed" /\ j = "ended"

LEMMA FormStepInv ==
  ASSUME IInv, NEW r \in Requests, NEW p \in Panels, NEW j \in Jobs, NEW n \in Nat, NEW k \in Nat,
         FormStep(r, p, j, n, k),
         n = k + IF j \in {"taken", "ended"} THEN 1 ELSE 0,
         p \in Unasked \cup {"calc", "main", "password", "wrong"} \/ j = "checking" => k = 0,
         p \in Unasked \cup {"calc", "main", "password", "wrong", "error"} => j = "none",
         \/ Unanswered(r) /\ queue' = queue
         \/ Unanswered(r) /\ \E w \in Answers : Fits(w, p, j, k) /\ queue' = Append(queue, AnswerTo(r, w))
         \/ job[r] = "ended" /\ j = "ended" /\ queue' = queue,
         inbox' \in Seq(Requests \cup {"disconnect"}), InboxAgrees'
  PROVE  IInv' /\ OthersSame(r)
<1>1. /\ panel' \in [Requests -> Panels] /\ job' \in [Requests -> Jobs] /\ paid' \in [Requests -> Nat]
      /\ lost' \in [Requests -> Nat]
      /\ panel'[r] = p /\ job'[r] = j /\ paid'[r] = n /\ lost'[r] = k
  BY DEF IInv, Typed, FormStep
<1>2. OthersSame(r)
  BY DEF IInv, Typed, FormStep, OthersSame
<1>3. queue \in Seq(Messages) /\ queue' \in Seq(Messages)
  <2>1. queue \in Seq(Messages)
    BY DEF IInv, Typed
  <2>2. \A w \in Answers : AnswerTo(r, w) \in Messages
    BY MessageFacts
  <2> QED BY <2>1, <2>2
<1>4. Typed'
  BY <1>1, <1>3 DEF IInv, Typed, FormStep
<1>5. \A q \in Requests : PaidByJob(q)'
  <2>1. PaidByJob(r)'
    BY <1>1 DEF PaidByJob
  <2>2. \A q \in Requests \ {r} : PaidByJob(q)'
    BY <1>2 DEF IInv, PaidByJob, OthersSame
  <2> QED BY <2>1, <2>2
<1>6. \A q \in Requests : ToldAgrees(q)'
  <2>1. ToldAgrees(r)'
    <3>1. CASE Unanswered(r)
      BY <3>1 DEF Unanswered, ToldAgrees, FormStep
    <3>2. CASE job[r] = "ended" /\ j = "ended"
      <4>1. ToldAgrees(r) /\ PaidByJob(r)
        BY DEF IInv
      <4> QED BY <3>2, <4>1, <1>1 DEF ToldAgrees, PaidByJob, FormStep, Unasked
    <3> QED BY <3>1, <3>2
  <2>2. \A q \in Requests \ {r} : ToldAgrees(q)'
    BY <1>2 DEF IInv, ToldAgrees, OthersSame
  <2> QED BY <2>1, <2>2
<1>7. QueueAgrees'
  <2>1. ASSUME NEW i \in 1..Len(queue), queue'[i] = queue[i]
        PROVE  Agrees(queue[i])'
    <3>1. Agrees(queue[i]) /\ queue[i] \in Messages
      BY DEF IInv, QueueAgrees, Typed
    <3>2. CASE queue[i].about # r
      BY <2>1, <3>1, <3>2, <1>2 DEF Agrees, OthersSame
    <3>3. CASE queue[i].about = r
      <4>1. job[r] = "ended" /\ j = "ended"
        BY <3>3 DEF Unanswered
      <4>2. PaidByJob(r)
        BY DEF IInv
      <4> QED BY <2>1, <3>1, <3>3, <4>1, <4>2, <1>1 DEF Agrees, PaidByJob, FormStep, Unasked
    <3> QED BY <3>2, <3>3
  <2>2. CASE queue' = queue
    <3>1. (\A i \in 1..Len(queue) : Agrees(queue[i]))'
      BY <2>1, <2>2
    <3>2. \A i, m \in 1..Len(queue') :
            queue'[i].about \in Requests /\ queue'[i].about = queue'[m].about => i = m
      BY <2>2 DEF IInv, QueueAgrees
    <3> QED BY <3>1, <3>2 DEF QueueAgrees
  <2>3. CASE Unanswered(r) /\ \E w \in Answers : Fits(w, p, j, k) /\ queue' = Append(queue, AnswerTo(r, w))
    <3>1. PICK w \in Answers : Fits(w, p, j, k) /\ queue' = Append(queue, AnswerTo(r, w))
      BY <2>3
    <3>2. /\ Len(queue') = Len(queue) + 1
          /\ queue'[Len(queue) + 1] = AnswerTo(r, w)
          /\ \A i \in 1..Len(queue) : queue'[i] = queue[i]
      BY <1>3, <3>1
    <3>3. AnswerTo(r, w).about = r /\ AnswerTo(r, w).what = w
      BY MessageFacts
    <3>4. Agrees(queue[Len(queue)])'
      BY <1>1, <1>3, <2>3, <3>1, <3>2, <3>3 DEF Agrees, Fits, Unanswered, FormStep
    <3>5. (\A i \in 1..Len(queue) : Agrees(queue[i]))'
      <4>1. ASSUME NEW i \in 1..Len(queue') PROVE Agrees(queue[i])'
        <5>1. CASE i \in 1..Len(queue)
          BY <5>1, <2>1, <3>2
        <5>2. CASE i = Len(queue')
          BY <5>2, <3>4
        <5> QED BY <1>3, <5>1, <5>2, <3>2
      <4> QED BY <4>1
    <3>6. \A i, m \in 1..Len(queue') :
            queue'[i].about \in Requests /\ queue'[i].about = queue'[m].about => i = m
      BY <1>3, <2>3, <3>2, <3>3 DEF IInv, QueueAgrees, Unanswered
    <3> QED BY <3>5, <3>6 DEF QueueAgrees
  <2> QED BY <2>2, <2>3
<1> QED BY <1>2, <1>4, <1>5, <1>6, <1>7 DEF IInv

\* The dApp's requests and the event source.
LEMMA SourceStep ==
  ASSUME IInv, Source
  PROVE  Kept
<1> USE DEF requestVars, dAppVars
<1>1. CASE SourceFails \/ SourceRecovers
  <2>1. ConnectionStep
    BY <1>1 DEF SourceFails, SourceRecovers, ConnectionStep, QueueStep
  <2> QED BY <2>1, ConnectionStepInv DEF Kept
<1>2. CASE DAppDisconnects \/ ReceiveDisconnect
  <2>1. UNCHANGED <<panel, job, paid, lost, told, queue>>
    BY <1>2 DEF DAppDisconnects, ReceiveDisconnect
  <2>2. inbox \in Seq(Requests \cup {"disconnect"})
    BY DEF IInv, Typed
  <2>3. \/ inbox' = Append(inbox, "disconnect")
        \/ inbox # << >> /\ inbox' = Tail(inbox)
    BY <1>2 DEF DAppDisconnects, ReceiveDisconnect, Receive
  <2>4. "disconnect" \notin Requests
    BY ConstantsAssumption
  <2>5. inbox' \in Seq(Requests \cup {"disconnect"}) /\ InboxAgrees'
    <3>1. CASE inbox' = Append(inbox, "disconnect")
      <4>1. /\ inbox' \in Seq(Requests \cup {"disconnect"})
            /\ \A i \in 1..Len(inbox') :
                 inbox'[i] \in Requests => i \in 1..Len(inbox) /\ inbox'[i] = inbox[i]
        BY <3>1, <2>2, <2>4
      <4> QED BY <4>1, <2>1 DEF IInv, InboxAgrees
    <3>2. CASE inbox # << >> /\ inbox' = Tail(inbox)
      <4>1. /\ inbox' \in Seq(Requests \cup {"disconnect"})
            /\ \A i \in 1..Len(inbox') : i + 1 \in 1..Len(inbox) /\ inbox'[i] = inbox[i + 1]
        BY <3>2, <2>2
      <4>2. InboxAgrees /\ panel' = panel
        BY <2>1 DEF IInv
      <4>3. \A i \in 1..Len(inbox') : inbox'[i] \in Requests => panel'[inbox'[i]] = "inbox"
        BY <4>1, <4>2 DEF InboxAgrees
      <4>4. \A i, j \in 1..Len(inbox') : inbox'[i] \in Requests /\ inbox'[i] = inbox'[j] => i = j
        BY <4>1, <4>2, <2>2 DEF InboxAgrees
      <4> QED BY <4>1, <4>3, <4>4 DEF InboxAgrees
    <3> QED BY <2>3, <3>1, <3>2
  <2>6. Typed' /\ QueueAgrees' /\ \A r \in Requests : PaidByJob(r)' /\ ToldAgrees(r)'
    BY <2>1, <2>5 DEF IInv, Typed, QueueAgrees, Agrees, PaidByJob, ToldAgrees
  <2>7. \A r \in Requests : Status(r)' = Status(r)
    BY <2>1 DEF Status
  <2> QED BY <2>5, <2>6, <2>7 DEF Kept, IInv
<1>3. ASSUME NEW r \in Requests, DAppRequests(r)
      PROVE  Kept
  <2>1. panel[r] = "new" /\ panel' = [panel EXCEPT ![r] = "inbox"] /\ UNCHANGED <<job, paid, lost, told, queue>>
    BY <1>3 DEF DAppRequests
  <2>2. job[r] = "none" /\ paid[r] = 0 /\ lost[r] = 0
    BY <2>1 DEF IInv, PaidByJob, Unasked
  <2>3. Unanswered(r)
    BY <2>1, <2>2, StillUnanswered
  <2>4. FormStep(r, "inbox", "none", 0, 0)
    BY <2>1, <2>2 DEF FormStep, IInv, Typed
  <2>5. inbox \in Seq(Requests \cup {"disconnect"}) /\ inbox' = Append(inbox, r)
    BY <1>3 DEF DAppRequests, IInv, Typed
  <2>6. inbox' \in Seq(Requests \cup {"disconnect"}) /\ InboxAgrees'
    BY <2>1, <2>5 DEF IInv, InboxAgrees, Typed
  <2>7. IInv' /\ OthersSame(r)
    BY <2>1, <2>3, <2>4, <2>6, FormStepInv DEF Panels, Jobs
  <2>8. Status(r)' = Status(r)
    BY <2>1, <2>2, <2>3 DEF Status, Unanswered, IInv, Typed
  <2> QED BY <2>7, <2>8, StatusMove DEF Kept
<1>4. ASSUME NEW r \in Requests, ReceiveInvalid(r) \/ ReceiveRequest(r)
      PROVE  Kept
  <2>1. /\ inbox \in Seq(Requests \cup {"disconnect"})
        /\ inbox # << >> /\ inbox[1] = r /\ inbox' = Tail(inbox)
    BY <1>4 DEF ReceiveInvalid, ReceiveRequest, Receive, IInv, Typed
  <2>2. panel[r] = "inbox" /\ job[r] = "none" /\ paid[r] = 0 /\ lost[r] = 0
    BY <2>1 DEF IInv, InboxAgrees, PaidByJob, Unasked
  <2>3. Unanswered(r)
    BY <2>2, StillUnanswered
  <2>4. PICK p \in {"invalid", "dropped", "calc"} :
          /\ panel' = [panel EXCEPT ![r] = p] /\ UNCHANGED <<job, paid, lost, told>>
          /\ \/ queue' = queue /\ p # "invalid"
             \/ queue' = Append(queue, AnswerTo(r, "invalid")) /\ p = "invalid"
    BY <1>4 DEF ReceiveInvalid, ReceiveRequest, Enqueue
  <2>5. FormStep(r, p, "none", 0, 0)
    BY <2>2, <2>4 DEF FormStep, IInv, Typed
  <2>6. inbox' \in Seq(Requests \cup {"disconnect"}) /\ InboxAgrees'
    <3>1. /\ inbox' \in Seq(Requests \cup {"disconnect"})
          /\ \A i \in 1..Len(inbox') : i + 1 \in 1..Len(inbox) /\ inbox'[i] = inbox[i + 1]
      BY <2>1
    <3>2. \A i \in 1..Len(inbox') : inbox'[i] # r
      BY <2>1, <3>1 DEF IInv, InboxAgrees
    <3>3. \A q \in Requests \ {r} : panel'[q] = panel[q]
      BY <2>4 DEF IInv, Typed
    <3>4. \A i \in 1..Len(inbox') : inbox'[i] \in Requests => panel'[inbox'[i]] = "inbox"
      BY <3>1, <3>2, <3>3 DEF IInv, InboxAgrees
    <3>5. \A i, k \in 1..Len(inbox') : inbox'[i] \in Requests /\ inbox'[i] = inbox'[k] => i = k
      BY <2>1, <3>1 DEF IInv, InboxAgrees
    <3> QED BY <3>1, <3>4, <3>5 DEF InboxAgrees
  <2>7. \/ queue' = queue
        \/ \E w \in Answers : Fits(w, p, "none", 0) /\ queue' = Append(queue, AnswerTo(r, w))
    BY <2>4 DEF Fits, Answers
  <2>8. IInv' /\ OthersSame(r)
    BY <2>3, <2>5, <2>6, <2>7, FormStepInv DEF Panels, Jobs
  <2>9. \A q \in Requests \ {r} : Status(q)' = Status(q)
    BY <2>8, StatusMove
  <2>10. CASE p = "calc"
    <3>1. Status(r) = "new" /\ Status(r)' = "asked"
      BY <2>2, <2>3, <2>4, <2>10 DEF Status, Unanswered, IInv, Typed
    <3> QED BY <2>8, <2>9, <3>1, MoveOne DEF Kept, Protocol!Next, Protocol!Ask
  <2>11. CASE p # "calc"
    <3>1. Status(r)' = Status(r)
      BY <2>2, <2>3, <2>4, <2>11 DEF Status, Unanswered, IInv, Typed
    <3> QED BY <2>8, <2>9, <3>1 DEF Kept
  <2> QED BY <2>10, <2>11
<1> QED BY <1>1, <1>2, <1>3, <1>4 DEF Source

\* The forms that answer requests.
LEMMA SendFormStep ==
  ASSUME IInv, NEW r \in Requests, SendForm(r)
  PROVE  Kept
<1> USE DEF requestVars, dAppVars, Panels, Jobs
<1>0. /\ panel[r] \in Panels /\ job[r] \in Jobs /\ PaidByJob(r)
      /\ inbox' = inbox /\ told' = told
  BY DEF IInv, Typed, SendForm, FeesKnown, SetPasscode, Back, TransactionComplete, CloseCheck, Turn,
         CheckPasscode, WrongPasscode, Send, SendFails, Work, Goes, ServerTakes, Sent, Cancel, DeclineFrom
\* A form keeps requests that are still in the inbox as they are.
<1>1. ASSUME NEW p \in Panels, panel' = [panel EXCEPT ![r] = p], panel[r] # "inbox"
      PROVE  inbox' \in Seq(Requests \cup {"disconnect"}) /\ InboxAgrees'
  <2>1. \A q \in Requests \ {r} : panel'[q] = panel[q]
    BY <1>1 DEF IInv, Typed
  <2>2. \A i \in 1..Len(inbox) : inbox[i] # r
    BY <1>1 DEF IInv, InboxAgrees
  <2> QED BY <1>0, <2>1, <2>2 DEF IInv, InboxAgrees, Typed
\* A step that pays nothing and asks nothing new leaves the status.
<1>2. ASSUME NEW p \in Panels \ Unasked, panel'[r] = p, paid'[r] = paid[r], lost'[r] = lost[r],
             panel[r] \notin Unasked
      PROVE  Status(r)' = Status(r)
  BY <1>0, <1>2 DEF Status, Unasked
<1>3. ASSUME NEW p \in Panels \ Unasked, NEW j \in Jobs, NEW n \in Nat, NEW k \in Nat,
             FormStep(r, p, j, n, k),
             IInv' /\ OthersSame(r), panel[r] \notin Unasked, n = paid[r], k = lost[r]
      PROVE  Kept
  <2>1. panel'[r] = p /\ paid'[r] = paid[r] /\ lost'[r] = lost[r]
    BY <1>3 DEF FormStep, IInv, Typed
  <2>2. Status(r)' = Status(r)
    BY <1>2, <1>3, <2>1
  <2> QED BY <1>3, <2>2, StatusMove DEF Kept
<1>4. CASE FeesKnown(r) \/ SetPasscode(r) \/ Back(r)
  <2>1. PICK p \in {"main", "password"} :
          /\ panel[r] \in {"calc", "main", "password", "wrong"}
          /\ panel' = [panel EXCEPT ![r] = p] /\ UNCHANGED <<job, paid, lost, queue>>
    BY <1>4 DEF FeesKnown, SetPasscode, Back, Turn, FormShows
  <2>2. job[r] = "none" /\ paid[r] = 0 /\ lost[r] = 0
    BY <1>0, <2>1 DEF PaidByJob
  <2>3. Unanswered(r)
    BY <2>1, <2>2, StillUnanswered
  <2>4. FormStep(r, p, "none", 0, 0)
    BY <1>0, <2>1, <2>2 DEF FormStep, IInv, Typed
  <2>5. IInv' /\ OthersSame(r)
    <3>1. inbox' \in Seq(Requests \cup {"disconnect"}) /\ InboxAgrees'
      BY <1>1, <2>1
    <3> QED BY <2>1, <2>3, <2>4, <3>1, FormStepInv
  <2> QED BY <1>3, <2>1, <2>2, <2>4, <2>5 DEF Unasked
<1>5. CASE CheckPasscode(r) \/ WrongPasscode(r) \/ Send(r) \/ Work(r, "sending", "none", "error")
  <2>1. PICK p \in {"checking", "wrong", "waiting", "error", "closed"}, j \in {"none", "checking", "sending"} :
          /\ panel[r] \in {"password", "error"} \/ job[r] \in {"checking", "sending"}
          /\ p \in {"wrong", "error"} => j = "none"
          /\ p = "wrong" => job[r] = "checking"
          /\ j = "checking" => panel[r] = "password"
          /\ panel' = [panel EXCEPT ![r] = p] /\ job' = [job EXCEPT ![r] = j]
          /\ UNCHANGED <<paid, lost, queue>>
    <3>1. CASE CheckPasscode(r)
      BY <1>0, <3>1 DEF CheckPasscode, Work, Goes, FormShows
    <3>2. CASE WrongPasscode(r)
      BY <1>0, <3>2 DEF WrongPasscode, Work, Goes, FormShows
    <3>3. CASE Send(r)
      BY <1>0, <3>3 DEF Send, Work, Goes, FormShows
    <3>4. CASE Work(r, "sending", "none", "error")
      BY <1>0, <3>4 DEF Work, Goes, FormShows
    <3> QED BY <1>5, <3>1, <3>2, <3>3, <3>4
  <2>2. job[r] \in {"none", "checking", "sending"} /\ paid[r] = lost[r] /\ panel[r] \notin Unasked
    BY <1>0, <2>1 DEF PaidByJob, Unasked, IInv, Typed
  <2>3. Unanswered(r)
    BY <2>1, <2>2, StillUnanswered DEF Unasked
  <2>4. FormStep(r, p, j, paid[r], lost[r]) /\ lost[r] \in Nat
    BY <1>0, <2>1, <2>2 DEF FormStep, IInv, Typed
  <2>5. inbox' \in Seq(Requests \cup {"disconnect"}) /\ InboxAgrees'
    <3>1. panel[r] # "inbox"
      BY <2>2 DEF Unasked
    <3> QED BY <1>1, <2>1, <3>1
  <2>6. /\ p \in Panels /\ j \in Jobs /\ queue' = queue /\ paid[r] \in Nat
        /\ paid[r] = lost[r] + IF j \in {"taken", "ended"} THEN 1 ELSE 0
    BY <2>1, <2>2, <2>4
  <2>7. /\ p \in Unasked \cup {"calc", "main", "password", "wrong", "error"} => j = "none"
        /\ p \in Unasked \cup {"calc", "main", "password", "wrong"} \/ j = "checking" => lost[r] = 0
    BY <1>0, <2>1 DEF Unasked, PaidByJob
  <2>8. IInv' /\ OthersSame(r)
    BY <2>3, <2>4, <2>5, <2>6, <2>7, FormStepInv
  <2> QED BY <1>3, <2>1, <2>2, <2>4, <2>6, <2>8 DEF Unasked
<1>6. CASE ServerTakes(r)
  <2>1. job[r] = "sending" /\ UNCHANGED <<panel, lost, queue>>
        /\ job' = [job EXCEPT ![r] = "taken"] /\ paid' = [paid EXCEPT ![r] = @ + 1]
    BY <1>6 DEF ServerTakes
  <2>2. /\ paid[r] = lost[r] /\ lost[r] \in Nat
        /\ panel[r] \notin Unasked \cup {"calc", "main", "password", "wrong", "error"}
    BY <1>0, <2>1 DEF PaidByJob, IInv, Typed
  <2>3. Unanswered(r)
    BY <2>1, <2>2, StillUnanswered DEF Unasked
  <2>4. FormStep(r, panel[r], "taken", lost[r] + 1, lost[r])
    BY <1>0, <2>1, <2>2 DEF FormStep, IInv, Typed
  <2>5. inbox' \in Seq(Requests \cup {"disconnect"}) /\ InboxAgrees'
    BY <1>0, <1>1, <2>2, <2>4 DEF Unasked, FormStep
  <2>6. IInv' /\ OthersSame(r)
    BY <1>0, <2>1, <2>2, <2>3, <2>4, <2>5, FormStepInv
  <2>7. Status(r) = (IF lost[r] = 0 THEN "asked" ELSE "unsure") /\ Status(r)' = "paid"
    BY <1>0, <2>1, <2>2, <2>3 DEF Status, Unanswered, Unasked, IInv, Typed
  <2> QED BY <2>6, <2>7, StatusMove, MoveOne DEF Kept, Protocol!Next, Protocol!Pay, Protocol!PayAgain
<1>7. CASE Sent(r)
  <2>1. job[r] = "taken" /\ UNCHANGED <<panel, paid, lost>>
        /\ job' = [job EXCEPT ![r] = "ended"] /\ queue' = Append(queue, AnswerTo(r, "confirmed"))
    BY <1>7 DEF Sent, Enqueue
  <2>2. /\ paid[r] = lost[r] + 1 /\ lost[r] \in Nat
        /\ panel[r] \notin Unasked \cup {"calc", "main", "password", "wrong", "error"}
    BY <1>0, <2>1 DEF PaidByJob, IInv, Typed
  <2>3. Unanswered(r)
    BY <2>1, <2>2, StillUnanswered DEF Unasked
  <2>4. FormStep(r, panel[r], "ended", lost[r] + 1, lost[r])
    BY <1>0, <2>1, <2>2 DEF FormStep, IInv, Typed
  <2>5. \E w \in Answers : Fits(w, panel[r], "ended", lost[r]) /\ queue' = Append(queue, AnswerTo(r, w))
    BY <2>1 DEF Fits, Answers
  <2>6. inbox' \in Seq(Requests \cup {"disconnect"}) /\ InboxAgrees'
    BY <1>0, <1>1, <2>2, <2>4 DEF Unasked, FormStep
  <2>7. panel[r] \in Panels \ Unasked /\ "ended" \in Jobs /\ lost[r] + 1 \in Nat
    BY <1>0, <2>2
  <2>8. IInv' /\ OthersSame(r)
    BY <2>2, <2>3, <2>4, <2>5, <2>6, <2>7, FormStepInv
  <2> QED BY <1>0, <1>3, <2>2, <2>4, <2>7, <2>8
<1>10. CASE lost' = [lost EXCEPT ![r] = @ + 1] /\ Goes(r, "taken", "none", "error")
  <2>1. PICK p \in {"error", "closed"} :
          /\ job[r] = "taken" /\ UNCHANGED <<paid, queue>> /\ lost' = [lost EXCEPT ![r] = @ + 1]
          /\ panel' = [panel EXCEPT ![r] = p] /\ job' = [job EXCEPT ![r] = "none"]
    BY <1>0, <1>10 DEF Goes, FormShows
  <2>2. /\ paid[r] = lost[r] + 1 /\ lost[r] \in Nat
        /\ panel[r] \notin Unasked \cup {"calc", "main", "password", "wrong", "error"}
    BY <1>0, <2>1 DEF PaidByJob, IInv, Typed
  <2>3. Unanswered(r)
    BY <2>1, <2>2, StillUnanswered DEF Unasked
  <2>4. FormStep(r, p, "none", lost[r] + 1, lost[r] + 1)
    BY <1>0, <2>1, <2>2 DEF FormStep, IInv, Typed
  <2>5. inbox' \in Seq(Requests \cup {"disconnect"}) /\ InboxAgrees'
    <3>1. panel[r] # "inbox"
      BY <2>2 DEF Unasked
    <3> QED BY <1>1, <2>1, <3>1
  <2>6. p \notin Unasked \cup {"calc", "main", "password", "wrong"}
    BY DEF Unasked
  <2>7. IInv' /\ OthersSame(r)
    BY <2>1, <2>2, <2>3, <2>4, <2>5, <2>6, FormStepInv
  <2>8. Status(r) = "paid" /\ Status(r)' = "unsure"
    <3>1. /\ told[r] = << >> /\ told'[r] = << >> /\ paid[r] # 0 /\ paid'[r] = paid[r]
          /\ lost'[r] = lost[r] + 1
      BY <1>0, <2>1, <2>2, <2>3 DEF Unanswered, IInv, Typed
    <3> QED BY <3>1, <2>2 DEF Status
  <2> QED BY <2>7, <2>8, StatusMove, MoveOne DEF Kept, Protocol!Next, Protocol!Lose
<1>8. CASE Cancel(r)
  <2>1. panel[r] \in {"calc", "main", "password"} /\ UNCHANGED <<job, paid, lost>>
        /\ panel' = [panel EXCEPT ![r] = "closed"] /\ queue' = Append(queue, AnswerTo(r, "declined"))
    BY <1>8 DEF Cancel, DeclineFrom, FormShows, Enqueue
  <2>2. job[r] = "none" /\ paid[r] = 0 /\ lost[r] = 0
    BY <1>0, <2>1 DEF PaidByJob
  <2>3. Unanswered(r)
    BY <2>1, <2>2, StillUnanswered
  <2>4. FormStep(r, "closed", "none", 0, 0)
    BY <1>0, <2>1, <2>2 DEF FormStep, IInv, Typed
  <2>5. \E w \in Answers : Fits(w, "closed", "none", 0) /\ queue' = Append(queue, AnswerTo(r, w))
    BY <2>1 DEF Fits, Answers
  <2>6. inbox' \in Seq(Requests \cup {"disconnect"}) /\ InboxAgrees'
    BY <1>1, <2>1
  <2>7. IInv' /\ OthersSame(r)
    BY <2>3, <2>4, <2>5, <2>6, FormStepInv
  <2> QED BY <1>3, <2>1, <2>2, <2>4, <2>7 DEF Unasked
<1>9. CASE TransactionComplete(r) \/ CloseCheck(r)
  <2>1. PICK p \in {"done", "closed"} :
          /\ panel[r] \in {"checking", "wrong", "waiting", "error", "done"}
          /\ panel' = [panel EXCEPT ![r] = p] /\ UNCHANGED <<job, paid, lost, queue>>
    BY <1>9 DEF TransactionComplete, CloseCheck, Turn, FormShows
  <2>2. job[r] = "ended" \/ Unanswered(r)
    BY <2>1, StillUnanswered
  <2>3. FormStep(r, p, job[r], paid[r], lost[r])
    BY <1>0, <2>1 DEF FormStep, IInv, Typed
  <2>4. inbox' \in Seq(Requests \cup {"disconnect"}) /\ InboxAgrees'
    BY <1>1, <2>1
  <2>5. /\ paid[r] \in Nat /\ lost[r] \in Nat
        /\ paid[r] = lost[r] + IF job[r] \in {"taken", "ended"} THEN 1 ELSE 0
        /\ job[r] = "checking" => lost[r] = 0
    BY <1>0 DEF PaidByJob, IInv, Typed
  <2>6. IInv' /\ OthersSame(r)
    BY <1>0, <2>1, <2>2, <2>3, <2>4, <2>5, FormStepInv DEF Unasked
  <2> QED BY <1>0, <1>3, <2>1, <2>3, <2>5, <2>6 DEF Unasked
<1> QED BY <1>4, <1>5, <1>6, <1>7, <1>8, <1>9, <1>10 DEF SendForm, SendFails

-----------------------------------------------------------------------------
(* The theorem *)

LEMMA NextKept ==
  ASSUME IInv, Next
  PROVE  Kept
<1>1. CASE ConnectForm
  BY <1>1, ConnectFormStep, ConnectionStepInv DEF Kept
<1>2. CASE Disconnection
  BY <1>2, DisconnectionStep, ConnectionStepInv DEF Kept
<1>3. CASE Queue
  <2>1. ASSUME NEW r \in Requests, NEW what \in Answers, AnswerPosted(r, what) PROVE Kept
    BY <2>1, AnswerPostedStep
  <2>2. CASE \/ ConnectEventPosted("success") \/ ConnectEventPosted("declined") \/ CancelPosted
             \/ \E what \in Answers : AnswerPosted("disconnect", what)
             \/ \E m \in Messages : PostFails(m)
    BY <2>2, QueueThreadStep, ConnectionStepInv DEF Kept
  <2> QED BY <1>3, <2>1, <2>2 DEF Queue
<1>4. CASE Source
  BY <1>4, SourceStep
<1>5. ASSUME NEW r \in Requests, SendForm(r) PROVE Kept
  BY <1>5, SendFormStep
<1> QED BY <1>1, <1>2, <1>3, <1>4, <1>5 DEF Next

LEMMA InitInv == Init => IInv
BY DEF Init, IInv, Typed, Panels, Jobs, PaidByJob, ToldAgrees, QueueAgrees, InboxAgrees

\* For any set of requests and any behaviour of the user, the dApp and the bridge:
\* the connection with its forms (TonMultiSendForm's Cancel, CloseCheck and Send,
\* Connection's queue) implements RequestProtocol.
THEOREM ProtocolKept == Spec => KeepsProtocol
<1>1. Init => IInv /\ Protocol!Init
  <2> SUFFICES ASSUME Init PROVE IInv /\ Protocol!Init
    OBVIOUS
  <2>1. IInv
    BY InitInv
  <2>2. Protocol!Init
    BY DEF Init, Protocol!Init, Status
  <2> QED BY <2>1, <2>2
<1>2. IInv /\ [Next]_vars => IInv' /\ [Protocol!Next]_([r \in Requests |-> Status(r)])
  <2> SUFFICES ASSUME IInv, [Next]_vars
               PROVE  IInv' /\ [Protocol!Next]_([r \in Requests |-> Status(r)])
    OBVIOUS
  <2>1. CASE Next
    BY <2>1, NextKept DEF Kept
  <2>2. CASE UNCHANGED vars
    <3>1. ConnectionStep
      BY <2>2 DEF vars, changing, requestVars, dAppVars, ConnectionStep, QueueStep
    <3> QED BY <3>1, ConnectionStepInv
  <2> QED BY <2>1, <2>2
<1> QED BY <1>1, <1>2, PTL DEF Spec, KeepsProtocol, Protocol!Spec

-----------------------------------------------------------------------------
(* The types *)

\* The types of the variables that the argument above does not mention.
RestTyped ==
  /\ connectForm \in {"main", "password", "checking", "wrong", "connecting", "declining",
                      "rejected", "error", "done", "closed"}
  /\ checking \in BOOLEAN /\ stateInit \in BOOLEAN /\ disposed \in BOOLEAN
  /\ listed \in BOOLEAN /\ subscribed \in BOOLEAN /\ disposing \in BOOLEAN
  /\ left \in BOOLEAN /\ reliable \in BOOLEAN
  /\ due \subseteq {"success", "failed", "declined", "notDeclined"}
  /\ source \in {"none", "up", "down"}
  /\ disconnecting \subseteq Disposers
  /\ terminateForm \in {"none", "wait", "terminated"}
  /\ event \in {"none", "success", "declined", "disconnect"}

LEMMA DisposeTyped ==
  ASSUME disposed \in BOOLEAN, disconnecting \subseteq Disposers,
         NEW th \in Disposers, NEW q, Dispose(th, q)
  PROVE  disposed' \in BOOLEAN /\ disconnecting' \subseteq Disposers
BY DEF Dispose

LEMMA RestStep ==
  ASSUME RestTyped, Next
  PROVE  RestTyped'
<1> USE DEF RestTyped, connectVars, connectionVars, walletVars, requestVars, dAppVars
<1>0. reliable' = reliable /\ {"queue", "ui", "pool", "source"} \subseteq Disposers
  BY DEF Next, Disposers
<1>1. CASE ConnectForm
  <2>1. CASE Setpasscode \/ CloseConnectForm \/ CheckPassword \/ Connect \/ WrongPassword
    <3>1. CASE Setpasscode
      BY <1>0, <3>1 DEF Setpasscode, TurnConnectForm
    <3>2. CASE CloseConnectForm
      BY <1>0, <3>2 DEF CloseConnectForm, TurnConnectForm
    <3>3. CASE CheckPassword
      BY <1>0, <3>3 DEF CheckPassword
    <3>4. CASE Connect
      BY <1>0, <3>4 DEF Connect, ConnectFormShows
    <3>5. CASE WrongPassword
      <4>1. checking' \in BOOLEAN /\ connectForm' \in {"closed", "wrong"}
        BY <3>5, Zenon DEF WrongPassword, ConnectFormShows
      <4>2. UNCHANGED <<stateInit, due, connectionVars, walletVars, event, left>>
        BY <3>5, Zenon DEF WrongPassword
      <4> QED BY <1>0, <4>1, <4>2
    <3> QED BY <2>1, <3>1, <3>2, <3>3, <3>4, <3>5
  <2>2. CASE StateInitReceived \/ StateInitFails \/ Decline \/ CancelConnect
    <3>1. CASE StateInitReceived
      <4>1. stateInit' \in BOOLEAN
        BY <3>1, Zenon DEF StateInitReceived
      <4>2. UNCHANGED <<connectForm, checking, due, connectionVars, walletVars, event, left>>
        BY <3>1, Zenon DEF StateInitReceived
      <4> QED BY <1>0, <4>1, <4>2
    <3>2. CASE StateInitFails
      <4>1. stateInit' \in BOOLEAN
        BY <3>2, Zenon DEF StateInitFails
      <4>2. /\ due' = due \cup {"failed"}
            /\ UNCHANGED <<connectForm, checking, connectionVars, walletVars, event, left>>
        BY <3>2, Zenon DEF StateInitFails
      <4> QED BY <1>0, <4>1, <4>2
    <3>3. CASE Decline
      BY <1>0, <3>3 DEF Decline, PostDecline
    <3>4. CASE CancelConnect
      BY <1>0, <3>4 DEF CancelConnect, PostDecline
    <3> QED BY <2>2, <3>1, <3>2, <3>3, <3>4
  <2>3. CASE Connected
    <3>1. listed' \in BOOLEAN /\ subscribed' \in BOOLEAN
      BY <2>3, Zenon DEF Connected
    <3> QED BY <1>0, <2>3, <3>1 DEF Connected, ConnectFormShows
  <2>4. CASE ConnectFailed
    BY <1>0, <2>4 DEF ConnectFailed, ConnectFormShows
  <2>5. ASSUME NEW d \in {"declined", "notDeclined"}, Declined(d) PROVE RestTyped'
    <3>1. disposed' \in BOOLEAN /\ disconnecting' \subseteq Disposers
      BY <1>0, <2>5, DisposeTyped DEF Declined
    <3> QED BY <1>0, <2>5, <3>1 DEF Declined, ConnectFormShows
  <2> QED BY <1>1, <2>1, <2>2, <2>3, <2>4, <2>5 DEF ConnectForm
<1>2. CASE Queue
  <2>1. ASSUME NEW what \in {"success", "declined"}, ConnectEventPosted(what)
        PROVE  RestTyped'
    BY <1>0, <2>1 DEF ConnectEventPosted
  <2>2. CASE CancelPosted
    <3>1. disposed' \in BOOLEAN /\ disconnecting' \subseteq Disposers
      BY <1>0, <2>2, DisposeTyped DEF CancelPosted
    <3> QED BY <1>0, <2>2, <3>1 DEF CancelPosted
  <2>3. ASSUME NEW r, NEW what, AnswerPosted(r, what) PROVE RestTyped'
    BY <1>0, <2>3 DEF AnswerPosted
  <2>4. ASSUME NEW m, PostFails(m) PROVE RestTyped'
    <3>1. disposed' \in BOOLEAN /\ disconnecting' \subseteq Disposers
      BY <1>0, <2>4, DisposeTyped DEF PostFails
    <3>2. due' \subseteq {"success", "failed", "declined", "notDeclined"}
      BY <2>4 DEF PostFails
    <3> QED BY <1>0, <2>4, <3>1, <3>2 DEF PostFails
  <2> QED BY <1>2, <2>1, <2>2, <2>3, <2>4 DEF Queue
<1>3. CASE Disconnection
  <2>1. ASSUME NEW th \in Disposers, DisconnectPosted(th) PROVE RestTyped'
    <3>1. disposed' \in BOOLEAN
      BY <2>1, Zenon DEF DisconnectPosted
    <3> QED BY <1>0, <2>1, <3>1 DEF DisconnectPosted
  <2>2. ASSUME NEW th \in Disposers, DisconnectFails(th) PROVE RestTyped'
    BY <1>0, <2>2 DEF DisconnectFails
  <2>3. CASE UserDisconnects \/ Terminated
    <3>1. CASE UserDisconnects
      BY <1>0, <3>1 DEF UserDisconnects
    <3>2. CASE Terminated
      BY <1>0, <3>2 DEF Terminated
    <3> QED BY <2>3, <3>1, <3>2
  <2>4. CASE PoolDisposes
    <3>1. disposed' \in BOOLEAN /\ disconnecting' \subseteq Disposers
      BY <1>0, <2>4, DisposeTyped DEF PoolDisposes
    <3>2. disposing' \in BOOLEAN
          /\ UNCHANGED <<connectVars, source, listed, subscribed, terminateForm, event, left>>
      BY <2>4, Zenon DEF PoolDisposes
    <3> QED BY <1>0, <3>1, <3>2
  <2> QED BY <1>3, <2>1, <2>2, <2>3, <2>4 DEF Disconnection
<1>4. CASE Source
  <2>1. CASE SourceFails \/ SourceRecovers \/ DAppDisconnects
    <3>1. CASE SourceFails
      BY <1>0, <3>1 DEF SourceFails, ConnectFormShows
    <3>2. CASE SourceRecovers
      BY <1>0, <3>2 DEF SourceRecovers
    <3>3. CASE DAppDisconnects
      BY <1>0, <3>3 DEF DAppDisconnects
    <3> QED BY <2>1, <3>1, <3>2, <3>3
  <2>2. CASE ReceiveDisconnect
    BY <1>0, <2>2 DEF ReceiveDisconnect
  <2>3. ASSUME NEW r, DAppRequests(r) \/ ReceiveInvalid(r) \/ ReceiveRequest(r)
        PROVE  RestTyped'
    <3>1. UNCHANGED <<connectVars, connectionVars, walletVars, event, left>>
      BY <2>3, Zenon DEF DAppRequests, ReceiveInvalid, ReceiveRequest
    <3> QED BY <1>0, <3>1
  <2> QED BY <1>4, <2>1, <2>2, <2>3 DEF Source
<1>5. ASSUME NEW r \in Requests, SendForm(r) PROVE RestTyped'
  <2>1. UNCHANGED <<connectVars, connectionVars, walletVars, event, left>>
    <3>1. CASE FeesKnown(r) \/ SetPasscode(r) \/ Back(r) \/ TransactionComplete(r) \/ CloseCheck(r)
      BY <3>1, Zenon DEF FeesKnown, SetPasscode, Back, TransactionComplete, CloseCheck, Turn, dAppVars
    <3>2. CASE CheckPasscode(r) \/ WrongPasscode(r) \/ Send(r) \/ SendFails(r)
      BY <3>2 DEF CheckPasscode, WrongPasscode, Send, SendFails, Work, Goes
    <3>3. CASE ServerTakes(r) \/ Sent(r)
      BY <3>3 DEF ServerTakes, Sent
    <3>4. CASE Cancel(r)
      BY <3>4 DEF Cancel, DeclineFrom
    <3> QED BY <1>5, <3>1, <3>2, <3>3, <3>4 DEF SendForm
  <2> QED BY <1>0, <2>1
<1> QED BY <1>1, <1>2, <1>3, <1>4, <1>5 DEF Next

\* Every variable of the forms, the connection and the dApp keeps its type.
THEOREM TypeCorrect == Spec => []TypeOK
<1>1. Init => IInv /\ RestTyped
  BY InitInv DEF Init, RestTyped, Disposers
<1>2. IInv /\ RestTyped /\ [Next]_vars => (IInv /\ RestTyped)'
  <2> SUFFICES ASSUME IInv, RestTyped, [Next]_vars PROVE (IInv /\ RestTyped)'
    OBVIOUS
  <2>1. CASE Next
    BY <2>1, NextKept, RestStep DEF Kept
  <2>2. CASE UNCHANGED vars
    <3>1. ConnectionStep
      BY <2>2 DEF vars, changing, requestVars, dAppVars, ConnectionStep, QueueStep
    <3>2. RestTyped'
      BY <2>2 DEF vars, changing, connectVars, connectionVars, walletVars, dAppVars, RestTyped
    <3> QED BY <3>1, <3>2, ConnectionStepInv
  <2> QED BY <2>1, <2>2
<1>3. IInv /\ RestTyped => TypeOK
  <2> SUFFICES ASSUME IInv, RestTyped PROVE TypeOK
    OBVIOUS
  <2>1. told \in [Requests -> Seq(Answers)]
    <3>1. {<< >>, <<"invalid">>, <<"declined">>, <<"confirmed">>} \subseteq Seq(Answers)
      BY DEF Answers
    <3> QED BY <3>1 DEF IInv, Typed
  <2> QED BY <2>1 DEF IInv, Typed, Panels, Jobs, RestTyped, TypeOK
<1> QED BY <1>1, <1>2, <1>3, PTL DEF Spec

-----------------------------------------------------------------------------
(* The life of the connection, while the bridge is reliable *)

\* The connection has not been asked for yet, and still may be.
Early == checking \/ connectForm \in {"main", "password", "checking", "wrong"}

\* A message about the connection is in the queue.
Pending(what) == \E i \in 1..Len(queue) : queue[i] = Message(what)

\* Until then nothing has happened to the connection.
EarlyClean ==
  Early => /\ source = "none" /\ ~disposed /\ ~listed /\ due = {} /\ ~stateInit
           /\ ~disposing /\ disconnecting = {} /\ terminateForm = "none"
           /\ ~Pending("success") /\ ~Pending("declined") /\ ~Pending("cancelled")

\* The password is being checked only behind the panel that says so.
CheckedOnce == connectForm \in {"main", "password", "wrong", "connecting"} => ~checking

\* Declined on the first panel: the event source has not been opened.
DeclinedIdle ==
  Pending("declined") \/ "declined" \in due \/ "notDeclined" \in due => source = "none"

ListedUp == source # "down" /\ (listed => source = "up")

\* A connection that was disposed, or that the user ends, is about to be closed.
DisposedEnds == source = "up" /\ disposed => disconnecting # {}

TerminatedEnds == source = "up" /\ terminateForm # "none" => disposing \/ disconnecting # {}

\* The dApp was told of a connection that is listed or about to be.
ToldConnected ==
  source = "up" /\ disconnecting = {} /\ (listed \/ "success" \in due) => event = "success"

Life ==
  /\ EarlyClean
  /\ CheckedOnce
  /\ DeclinedIdle
  /\ ListedUp
  /\ DisposedEnds
  /\ TerminatedEnds
  /\ ToldConnected

\* Messages leave the queue: nothing becomes pending.
LEMMA PendingRemoved ==
  ASSUME queue \in Seq(Messages),
         \/ queue' \in {queue, << >>}
         \/ queue # << >> /\ queue' \in {Tail(queue), << >>},
         NEW what, Pending(what)'
  PROVE  Pending(what)
BY DEF Pending

\* A message is posted: only what it says becomes pending.
LEMMA PendingPosted ==
  ASSUME queue \in Seq(Messages), NEW m \in Messages, queue' = Append(queue, m),
         NEW what, Pending(what)'
  PROVE  Pending(what) \/ m = Message(what)
BY DEF Pending

\* Answers to requests say nothing about the connection.
LEMMA AnswersDiffer ==
  /\ \A r \in Requests \cup {"disconnect"} : \A a, w : AnswerTo(r, a) # Message(w)
  /\ \A v, w : Message(v) = Message(w) => v = w
BY ConstantsAssumption DEF AnswerTo, Message

\* The forms of the requests and the dApp leave the connection alone.
LEMMA LifeStays ==
  ASSUME Life, UNCHANGED <<connectVars, connectionVars, walletVars, event>>,
         \A what : Pending(what)' => Pending(what)
  PROVE  Life'
<1> USE DEF connectVars, connectionVars, walletVars
<1>1. EarlyClean' /\ CheckedOnce'
  BY Zenon DEF Life, EarlyClean, Early, CheckedOnce
<1>2. DeclinedIdle' /\ ListedUp' /\ DisposedEnds'
  BY Zenon DEF Life, DeclinedIdle, ListedUp, DisposedEnds
<1>3. TerminatedEnds' /\ ToldConnected'
  BY Zenon DEF Life, TerminatedEnds, ToldConnected
<1> QED BY <1>1, <1>2, <1>3 DEF Life

\* Dispose closes a connection that is up, now or when its thread goes on.
LEMMA DisposeLife ==
  ASSUME NEW th, NEW q, Dispose(th, q)
  PROVE  /\ source = "up" => disconnecting' # {} \/ (disposed /\ UNCHANGED disconnecting)
         /\ disconnecting # {} => disconnecting' # {}
         /\ source # "up" => UNCHANGED disconnecting
         /\ queue' = q \/ queue' = << >>
BY DEF Dispose, Removed

LEMMA ConnectFormLife ==
  ASSUME Life, reliable, queue \in Seq(Messages), ConnectForm
  PROVE  Life'
<1> USE DEF Life, EarlyClean, Early, CheckedOnce, DeclinedIdle, ListedUp, DisposedEnds,
            TerminatedEnds, ToldConnected, connectionVars, walletVars, requestVars, dAppVars
<1>0. /\ \A w : queue' = queue /\ Pending(w)' => Pending(w)
      /\ \A v \in {"success", "declined", "cancelled"} : \A w :
           queue' = Append(queue, Message(v)) /\ Pending(w)' => Pending(w) \/ v = w
  <2>1. ASSUME NEW w, queue' = queue, Pending(w)' PROVE Pending(w)
    BY <2>1 DEF Pending
  <2>2. ASSUME NEW v \in {"success", "declined", "cancelled"}, NEW w,
               queue' = Append(queue, Message(v)), Pending(w)'
        PROVE  Pending(w) \/ v = w
    <3>1. Message(v) \in Messages
      BY MessageFacts
    <3>2. Pending(w) \/ Message(v) = Message(w)
      BY <2>2, <3>1, PendingPosted
    <3> QED BY <3>2, AnswersDiffer
  <2> QED BY <2>1, <2>2
<1>1. CASE Setpasscode
  BY <1>0, <1>1 DEF Setpasscode, TurnConnectForm
<1>2. CASE CloseConnectForm
  BY <1>0, <1>2 DEF CloseConnectForm, TurnConnectForm
<1>3. CASE CheckPassword
  BY <1>0, <1>3 DEF CheckPassword
<1>4. CASE Connect
  BY <1>0, <1>4 DEF Connect, ConnectFormShows
<1>5. CASE WrongPassword
  BY <1>0, <1>5 DEF WrongPassword, ConnectFormShows
<1>6. CASE StateInitReceived
  BY <1>0, <1>6 DEF StateInitReceived, Enqueue
<1>7. CASE StateInitFails
  BY <1>0, <1>7 DEF StateInitFails
<1>8. CASE Decline
  BY <1>0, <1>8 DEF Decline, PostDecline, Enqueue
<1>9. CASE CancelConnect
  BY <1>0, <1>9 DEF CancelConnect, PostDecline, Enqueue
<1>10. CASE Connected
  BY <1>0, <1>10 DEF Connected, ConnectFormShows
<1>11. CASE ConnectFailed
  BY <1>0, <1>11 DEF ConnectFailed, ConnectFormShows
<1>12. ASSUME NEW d \in {"declined", "notDeclined"}, Declined(d)
       PROVE  Life'
  <2>1. Dispose("ui", queue)
    BY <1>12 DEF Declined
  <2>2. queue' = queue \/ queue' = << >>
    BY <2>1, DisposeLife
  <2>3. ASSUME NEW w, Pending(w)' PROVE Pending(w)
    BY <2>2, <2>3 DEF Pending
  <2> QED BY <1>12, <2>1, <2>3, DisposeLife DEF Declined, ConnectFormShows
<1> QED
  BY <1>1, <1>2, <1>3, <1>4, <1>5, <1>6, <1>7, <1>8, <1>9, <1>10, <1>11, <1>12
  DEF ConnectForm

LEMMA QueueLife ==
  ASSUME Life, reliable, queue \in Seq(Messages), Queue
  PROVE  Life'
<1> USE DEF Life, EarlyClean, Early, CheckedOnce, DeclinedIdle, ListedUp, DisposedEnds,
            TerminatedEnds, ToldConnected, connectVars, connectionVars, walletVars
<1>1. ASSUME NEW m, IsNext(Message(m))
      PROVE  Pending(m)
  BY <1>1 DEF IsNext, Pending
<1>2. ASSUME queue # << >>, queue' = Tail(queue) \/ queue' = << >>
      PROVE  \A w : Pending(w)' => Pending(w)
  BY <1>2, PendingRemoved
<1>3. CASE ConnectEventPosted("success")
  <2>1. Pending("success") /\ \A w : Pending(w)' => Pending(w)
    BY <1>1, <1>2, <1>3 DEF ConnectEventPosted, IsNext
  <2> QED BY <1>3, <2>1 DEF ConnectEventPosted
<1>4. CASE ConnectEventPosted("declined")
  <2>1. Pending("declined") /\ \A w : Pending(w)' => Pending(w)
    BY <1>1, <1>2, <1>4 DEF ConnectEventPosted, IsNext
  <2> QED BY <1>4, <2>1 DEF ConnectEventPosted
<1>5. CASE CancelPosted
  <2>1. Pending("cancelled") /\ Dispose("queue", Tail(queue)) /\ queue # << >>
    BY <1>1, <1>5 DEF CancelPosted, IsNext
  <2>2. \A w : Pending(w)' => Pending(w)
    BY <1>2, <2>1, DisposeLife
  <2> QED BY <1>5, <2>1, <2>2, DisposeLife DEF CancelPosted
<1>6. ASSUME NEW r, NEW a, AnswerPosted(r, a)
      PROVE  Life'
  <2>1. UNCHANGED <<connectVars, connectionVars, walletVars, event>>
    BY <1>6, Zenon DEF AnswerPosted
  <2>2. \A w : Pending(w)' => Pending(w)
    BY <1>2, <1>6 DEF AnswerPosted, IsNext
  <2> QED BY <2>1, <2>2, LifeStays
<1>7. \A m : ~PostFails(m)
  BY DEF PostFails
<1> QED BY <1>3, <1>4, <1>5, <1>6, <1>7 DEF Queue

LEMMA DisconnectionLife ==
  ASSUME Life, reliable, queue \in Seq(Messages), Disconnection
  PROVE  Life'
<1> USE DEF Life, EarlyClean, Early, CheckedOnce, DeclinedIdle, ListedUp, DisposedEnds,
            TerminatedEnds, ToldConnected, connectVars, connectionVars, walletVars, dAppVars
<1>1. ASSUME queue' = queue \/ queue' = << >>
      PROVE  \A w : Pending(w)' => Pending(w)
  BY <1>1 DEF Pending
<1>2. ASSUME NEW th, DisconnectPosted(th)
      PROVE  Life'
  <2>1. \A w : Pending(w)' => Pending(w)
    BY <1>1, <1>2 DEF DisconnectPosted, Removed
  <2> QED BY <1>2, <2>1 DEF DisconnectPosted
<1>3. \A th : ~DisconnectFails(th)
  BY DEF DisconnectFails
<1>4. CASE UserDisconnects
  BY <1>1, <1>4 DEF UserDisconnects
<1>5. CASE PoolDisposes
  <2>1. Dispose("pool", queue)
    BY <1>5 DEF PoolDisposes
  <2>2. \A w : Pending(w)' => Pending(w)
    BY <1>1, <2>1, DisposeLife
  <2> QED BY <1>5, <2>1, <2>2, DisposeLife DEF PoolDisposes
<1>6. CASE Terminated
  BY <1>1, <1>6 DEF Terminated
<1> QED BY <1>2, <1>3, <1>4, <1>5, <1>6 DEF Disconnection

LEMMA SourceLife ==
  ASSUME Life, reliable, queue \in Seq(Messages), Source
  PROVE  Life'
<1> USE DEF dAppVars
<1>1. ASSUME NEW m \in Messages, queue' = queue \/ queue' = Append(queue, m),
             \A w : m # Message(w)
      PROVE  \A w : Pending(w)' => Pending(w)
  <2>1. CASE queue' = queue
    BY <2>1 DEF Pending
  <2>2. CASE queue' = Append(queue, m)
    BY <1>1, <2>2, PendingPosted
  <2> QED BY <1>1, <2>1, <2>2
<1>2. ASSUME NEW r \in Requests
      PROVE  AnswerTo(r, "invalid") \in Messages /\ \A w : AnswerTo(r, "invalid") # Message(w)
  <2>1. "invalid" \in Answers
    BY DEF Answers
  <2> QED BY <2>1, MessageFacts, AnswersDiffer
<1>3. ~SourceFails /\ ~SourceRecovers
  BY DEF SourceFails, SourceRecovers, Life, ListedUp
<1>4. CASE DAppDisconnects
  <2>1. \A w : Pending(w)' => Pending(w)
    BY <1>4 DEF DAppDisconnects, Pending
  <2>2. UNCHANGED <<connectVars, connectionVars, walletVars, event>>
    BY <1>4, Zenon DEF DAppDisconnects
  <2> QED BY <2>1, <2>2, LifeStays
<1>5. CASE ReceiveDisconnect
  <2>1. \A w : Pending(w)' => Pending(w)
    BY <1>5 DEF ReceiveDisconnect, Pending
  <2> QED
    BY <1>5, <2>1
    DEF ReceiveDisconnect, Receive, Life, EarlyClean, Early, CheckedOnce, DeclinedIdle, ListedUp,
        DisposedEnds, TerminatedEnds, ToldConnected, connectVars, walletVars
<1>6. ASSUME NEW r \in Requests, DAppRequests(r) \/ ReceiveInvalid(r) \/ ReceiveRequest(r)
      PROVE  Life'
  <2>1. UNCHANGED <<connectVars, connectionVars, walletVars, event>>
    BY <1>6, Zenon DEF DAppRequests, ReceiveInvalid, ReceiveRequest
  <2>2. queue' = queue \/ queue' = Append(queue, AnswerTo(r, "invalid"))
    BY <1>6, Zenon DEF DAppRequests, ReceiveInvalid, ReceiveRequest, Enqueue
  <2> QED BY <1>1, <1>2, <2>1, <2>2, LifeStays
<1> QED BY <1>3, <1>4, <1>5, <1>6 DEF Source

LEMMA SendFormLife ==
  ASSUME Life, queue \in Seq(Messages), NEW r \in Requests, SendForm(r)
  PROVE  Life'
<1> USE DEF dAppVars
<1>1. /\ UNCHANGED <<connectVars, connectionVars, walletVars, event>>
      /\ queue' = queue \/ \E a \in {"confirmed", "declined"} : queue' = Append(queue, AnswerTo(r, a))
  <2>1. CASE FeesKnown(r) \/ SetPasscode(r) \/ Back(r) \/ TransactionComplete(r) \/ CloseCheck(r)
    BY <2>1, Zenon DEF FeesKnown, SetPasscode, Back, TransactionComplete, CloseCheck, Turn
  <2>2. CASE CheckPasscode(r) \/ WrongPasscode(r) \/ Send(r) \/ SendFails(r)
    BY <2>2, Zenon DEF CheckPasscode, WrongPasscode, Send, SendFails, Work, Goes
  <2>3. CASE ServerTakes(r) \/ Sent(r)
    BY <2>3 DEF ServerTakes, Sent, Enqueue
  <2>4. CASE Cancel(r)
    BY <2>4 DEF Cancel, DeclineFrom, Enqueue
  <2> QED BY <2>1, <2>2, <2>3, <2>4 DEF SendForm
<1>2. CASE queue' = queue
  <2>1. \A w : Pending(w)' => Pending(w)
    BY <1>2 DEF Pending
  <2> QED BY <1>1, <2>1, LifeStays
<1>3. ASSUME NEW a \in {"confirmed", "declined"}, queue' = Append(queue, AnswerTo(r, a))
      PROVE  Life'
  <2>1. AnswerTo(r, a) \in Messages /\ \A w : AnswerTo(r, a) # Message(w)
    BY MessageFacts, AnswersDiffer DEF Answers
  <2>2. \A w : Pending(w)' => Pending(w)
    BY <1>3, <2>1, PendingPosted
  <2> QED BY <1>1, <2>2, LifeStays
<1> QED BY <1>1, <1>2, <1>3

\* The inductive invariant of the connection.
LEMMA LifeInvariance == Spec => [](IInv /\ (reliable => Life))
<1>1. Init => IInv /\ (reliable => Life)
  BY InitInv DEF Init, Life, EarlyClean, Early, CheckedOnce, DeclinedIdle, ListedUp, DisposedEnds,
                 TerminatedEnds, ToldConnected, Pending
<1>2. IInv /\ (reliable => Life) /\ [Next]_vars => (IInv /\ (reliable => Life))'
  <2> SUFFICES ASSUME IInv, reliable => Life, [Next]_vars
               PROVE  (IInv /\ (reliable => Life))'
    OBVIOUS
  <2>1. CASE Next
    <3>1. IInv' /\ reliable' = reliable /\ queue \in Seq(Messages)
      BY <2>1, NextKept DEF Kept, Next, IInv, Typed
    <3>2. reliable => Life'
      BY <2>1, <3>1, ConnectFormLife, QueueLife, DisconnectionLife, SourceLife, SendFormLife
      DEF Next
    <3> QED BY <3>1, <3>2
  <2>2. CASE UNCHANGED vars
    <3>1. UNCHANGED <<connectVars, connectionVars, walletVars, requestVars, dAppVars, queue, reliable>>
      BY <2>2 DEF vars, changing
    <3>2. ConnectionStep
      BY <3>1 DEF requestVars, dAppVars, ConnectionStep, QueueStep
    <3>3. \A w : Pending(w)' => Pending(w)
      BY <3>1 DEF Pending
    <3>4. Life => Life'
      BY <3>1, <3>3, LifeStays DEF dAppVars
    <3> QED BY <3>1, <3>2, <3>4, ConnectionStepInv
  <2> QED BY <2>1, <2>2
<1> QED BY <1>1, <1>2, PTL DEF Spec

\* With a reliable bridge and nothing under way, a listed connection is alive: its
\* event source is open, it is not disposed and the dApp was told of it
\* (TonConnectForm's late "Connected" against Dispose and Disconnect).
THEOREM ListedMeansConnectedHolds == Spec => []ListedMeansConnected
<1>1. (reliable => Life) => ListedMeansConnected
  BY DEF Life, ListedUp, DisposedEnds, ToldConnected, ListedMeansConnected, AtRest
<1> QED BY <1>1, LifeInvariance, PTL

\* And one that TonConnectionForm reported as terminated is not listed.
THEOREM TerminatedMeansGoneHolds == Spec => []TerminatedMeansGone
<1>1. (reliable => Life) => TerminatedMeansGone
  BY DEF Life, ListedUp, TerminatedEnds, TerminatedMeansGone, AtRest
<1> QED BY <1>1, LifeInvariance, PTL

=============================================================================
