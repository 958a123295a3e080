------------------------- MODULE LiteClient_proofs -------------------------
(***************************************************************************)
(* Every synchronous query of LiteClient.cs returns its own result, for    *)
(* any number of threads and a mailbox of any length.                      *)
(***************************************************************************)
EXTENDS LiteClient, TLAPS

Mail == {"create", "ready", "closed"} \cup Threads
Queries == {"none", "posted", "sent", "lost", "ok", "error"}
Places == {"idle", "lock", "wait", "returned", "start", "startWait", "check",
           "connectWait", "last", "reconnect", "reconnectWait", "mark"}

\* The types the argument needs.
Typed ==
  /\ mailbox \in Seq(Mail)
  /\ query \in [Threads -> Queries]
  /\ pc \in [Threads -> Places]

\* Only posted queries are in the mailbox s, each of them once.
MailOk(s, q) ==
  /\ \A i \in 1..Len(s) : s[i] \in Threads => q[s[i]] = "posted"
  /\ \A i, j \in 1..Len(s) : s[i] \in Threads /\ s[i] = s[j] => i = j

\* Whoever waits in Send or has just woken up holds the lock.
HoldsLock(t) == pc[t] \in {"wait", "returned"} => sync = t

\* A query exists only while its thread is inside Send.
InsideSend(t) == query[t] # "none" => pc[t] \in {"wait", "returned"}

\* The event is set for the waiting thread's own query.
OwnEvent(t) == pc[t] = "wait" /\ e => query[t] \in {"ok", "error"}

OwnResult(t) == pc[t] = "returned" => query[t] \in {"ok", "error"}

\* The inductive invariant.
IInv ==
  /\ Typed
  /\ MailOk(mailbox, query)
  /\ \A t \in Threads : HoldsLock(t) /\ InsideSend(t) /\ OwnEvent(t) /\ OwnResult(t)
  /\ pc["adapter"] = "startWait" => sync = "adapter"

-----------------------------------------------------------------------------
(* The mailbox *)

\* An event of the connection is posted.
LEMMA MailAppend ==
  ASSUME NEW s \in Seq(Mail), NEW q, MailOk(s, q), NEW m \in Mail, m \notin Threads
  PROVE  Append(s, m) \in Seq(Mail) /\ MailOk(Append(s, m), q)
BY DEF MailOk

\* A query is posted whose thread has none in the mailbox.
LEMMA MailPost ==
  ASSUME NEW s \in Seq(Mail), NEW q \in [Threads -> Queries], MailOk(s, q),
         NEW t \in Threads, q[t] # "posted"
  PROVE  Append(s, t) \in Seq(Mail) /\ MailOk(Append(s, t), [q EXCEPT ![t] = "posted"])
<1> DEFINE r == [q EXCEPT ![t] = "posted"]
           a == Append(s, t)
<1>1. /\ a \in Seq(Mail) /\ Len(a) = Len(s) + 1 /\ Len(s) \in Nat
      /\ a[Len(s) + 1] = t
      /\ \A i \in 1..Len(s) : a[i] = s[i]
  BY DEF Mail
<1>2. r[t] = "posted" /\ \A u \in Threads : u # t => r[u] = q[u]
  OBVIOUS
<1>3. \A i \in 1..Len(s) : s[i] # t
  BY DEF MailOk
<1> HIDE DEF a, r
<1>4. ASSUME NEW i \in 1..Len(a), a[i] \in Threads
      PROVE  r[a[i]] = "posted"
  BY <1>1, <1>2, <1>4 DEF MailOk
<1>5. ASSUME NEW i \in 1..Len(a), NEW j \in 1..Len(a), a[i] \in Threads, a[i] = a[j]
      PROVE  i = j
  BY <1>1, <1>3, <1>5 DEF MailOk
<1>6. MailOk(a, r)
  BY <1>4, <1>5 DEF MailOk
<1> QED BY <1>1, <1>6 DEF a, r

\* A message is taken; it occurs nowhere else if it is a query.
LEMMA MailTail ==
  ASSUME NEW s \in Seq(Mail), NEW q, MailOk(s, q), s # << >>
  PROVE  /\ Tail(s) \in Seq(Mail)
         /\ MailOk(Tail(s), q)
         /\ Head(s) \in Threads =>
              /\ q[Head(s)] = "posted"
              /\ \A i \in 1..Len(Tail(s)) : Tail(s)[i] # Head(s)
<1>1. /\ Tail(s) \in Seq(Mail) /\ Len(s) \in Nat /\ Len(s) >= 1
      /\ Len(Tail(s)) = Len(s) - 1
      /\ Head(s) = s[1]
      /\ \A i \in 1..Len(Tail(s)) : Tail(s)[i] = s[i + 1]
  OBVIOUS
<1>2. \A i \in 1..Len(Tail(s)) : i + 1 \in 1..Len(s) /\ i + 1 # 1
  BY <1>1
<1>3. 1 \in 1..Len(s)
  BY <1>1
<1>4. ASSUME NEW i \in 1..Len(Tail(s)), NEW j \in 1..Len(Tail(s)),
             Tail(s)[i] \in Threads, Tail(s)[i] = Tail(s)[j]
      PROVE  i = j
  <2>1. i + 1 = j + 1
    BY <1>1, <1>2, <1>4 DEF MailOk
  <2> QED BY <2>1
<1>5. ASSUME NEW i \in 1..Len(Tail(s)), Tail(s)[i] \in Threads
      PROVE  q[Tail(s)[i]] = "posted"
  BY <1>1, <1>2, <1>5 DEF MailOk
<1>6. MailOk(Tail(s), q)
  BY <1>4, <1>5 DEF MailOk
<1> QED BY <1>1, <1>2, <1>3, <1>6 DEF MailOk

\* What happens to queries that are not in the mailbox does not matter to it.
LEMMA MailOther ==
  ASSUME NEW s \in Seq(Mail), NEW q, MailOk(s, q), NEW r,
         \A i \in 1..Len(s) : s[i] \in Threads /\ q[s[i]] = "posted" => r[s[i]] = "posted"
  PROVE  MailOk(s, r)
BY DEF MailOk

-----------------------------------------------------------------------------
(* Kinds of steps *)

\* Only the mailbox changes.
LEMMA MailStep ==
  ASSUME IInv, mailbox' \in Seq(Mail), MailOk(mailbox', query),
         query' = query, pc' = pc, sync' = sync, e' = e
  PROVE  IInv'
BY DEF IInv, Typed, HoldsLock, InsideSend, OwnEvent, OwnResult, MailOk

\* The queries of a client that is gone are cancelled.
LEMMA CancelStep ==
  ASSUME IInv, Cancel, mailbox' \in Seq(Mail), MailOk(mailbox', query),
         pc' = pc, sync' = sync, e' = e
  PROVE  IInv'
<1>1. /\ query' \in [Threads -> Queries]
      /\ \A t \in Threads :
           /\ query[t] = "posted" => query'[t] = "posted"
           /\ query[t] \in {"ok", "error"} => query'[t] = query[t]
           /\ query'[t] # "none" => query[t] # "none"
  BY DEF Cancel, IInv, Typed, Queries
<1>2. MailOk(mailbox', query')
  BY <1>1, MailOther
<1>3. \A t \in Threads : HoldsLock(t)' /\ InsideSend(t)' /\ OwnEvent(t)' /\ OwnResult(t)'
  BY <1>1 DEF IInv, HoldsLock, InsideSend, OwnEvent, OwnResult
<1> QED BY <1>1, <1>2, <1>3 DEF IInv, Typed

\* A thread moves outside Send.
LEMMA MoveStep ==
  ASSUME IInv, mailbox' \in Seq(Mail), MailOk(mailbox', query),
         NEW t \in Threads, NEW p \in Places, pc' = [pc EXCEPT ![t] = p],
         p \notin {"wait", "returned", "startWait"}, pc[t] \notin {"wait", "returned"},
         query' = query, sync' = sync, e' = e
  PROVE  IInv'
<1>1. pc' \in [Threads -> Places]
  BY DEF IInv, Typed
<1>2. \A u \in Threads : pc'[u] = IF u = t THEN p ELSE pc[u]
  BY DEF IInv, Typed
<1>3. \A u \in Threads : HoldsLock(u)' /\ InsideSend(u)' /\ OwnEvent(u)' /\ OwnResult(u)'
  BY <1>2 DEF IInv, HoldsLock, InsideSend, OwnEvent, OwnResult
<1>4. (pc["adapter"] = "startWait" => sync = "adapter")'
  BY <1>2 DEF IInv, Threads
<1>5. MailOk(mailbox', query')
  OBVIOUS
<1> QED BY <1>1, <1>3, <1>4, <1>5 DEF IInv, Typed

\* A thread leaves Send, or Start, and with it the lock.
LEMMA LeaveStep ==
  ASSUME IInv, mailbox' = mailbox, NEW t \in Threads, NEW p \in Places,
         sync = t, pc[t] \in {"returned", "startWait"}, sync' = "none",
         pc' = [pc EXCEPT ![t] = p], p \notin {"wait", "returned", "startWait"},
         query' = [query EXCEPT ![t] = "none"], query[t] # "posted", e' = e
  PROVE  IInv'
<1>1. pc' \in [Threads -> Places] /\ query' \in [Threads -> Queries]
  BY DEF IInv, Typed, Queries
<1>2. \A u \in Threads : /\ pc'[u] = IF u = t THEN p ELSE pc[u]
                         /\ query'[u] = IF u = t THEN "none" ELSE query[u]
  BY DEF IInv, Typed
<1>3. \A u \in Threads : u # t => pc[u] \notin {"wait", "returned"}
  BY DEF IInv, HoldsLock
<1>4. \A u \in Threads : HoldsLock(u)' /\ InsideSend(u)' /\ OwnEvent(u)' /\ OwnResult(u)'
  BY <1>2, <1>3 DEF IInv, HoldsLock, InsideSend, OwnEvent, OwnResult
<1>5. pc'["adapter"] # "startWait"
  BY <1>2 DEF IInv, Threads
<1>6. MailOk(mailbox', query')
  <2>1. mailbox \in Seq(Mail) /\ MailOk(mailbox, query)
    BY DEF IInv, Typed
  <2>2. \A u \in Threads : query[u] = "posted" => query'[u] = "posted"
    BY <1>2
  <2> QED BY <2>1, <2>2 DEF MailOk
<1> QED BY <1>1, <1>4, <1>5, <1>6 DEF IInv, Typed

\* A result arrives for a query that was sent.
LEMMA ResultStep ==
  ASSUME IInv, mailbox' = mailbox, NEW t \in Threads, query[t] \in {"sent", "lost"},
         NEW r \in {"ok", "error"}, query' = [query EXCEPT ![t] = r],
         pc' = pc, sync' = sync
  PROVE  IInv'
<1>1. query' \in [Threads -> Queries]
  BY DEF IInv, Typed, Queries
<1>2. \A u \in Threads : query'[u] = IF u = t THEN r ELSE query[u]
  BY DEF IInv, Typed
<1>3. pc[t] \in {"wait", "returned"} /\ sync = t
  BY DEF IInv, InsideSend, HoldsLock
<1>4. \A u \in Threads : u # t => pc[u] \notin {"wait", "returned"}
  BY <1>3 DEF IInv, HoldsLock
<1>5. \A u \in Threads : HoldsLock(u)' /\ InsideSend(u)' /\ OwnEvent(u)' /\ OwnResult(u)'
  BY <1>2, <1>3, <1>4 DEF IInv, HoldsLock, InsideSend, OwnEvent, OwnResult
<1>6. MailOk(mailbox', query')
  <2>1. mailbox \in Seq(Mail) /\ MailOk(mailbox, query)
    BY DEF IInv, Typed
  <2>2. \A u \in Threads : query[u] = "posted" => query'[u] = "posted"
    BY <1>2
  <2> QED BY <2>1, <2>2 DEF MailOk
<1> QED BY <1>1, <1>5, <1>6 DEF IInv, Typed

-----------------------------------------------------------------------------
(* The invariant *)

\* It holds before the client is started.
LEMMA InitInv == Init => IInv
<1> SUFFICES ASSUME Init PROVE IInv
  OBVIOUS
<1>1. mailbox = << >> /\ query = [t \in Threads |-> "none"] /\ pc = [t \in Threads |-> "idle"]
  BY DEF Init
<1>2. \A t \in Threads : query[t] = "none" /\ pc[t] = "idle"
  BY <1>1
<1>3. Typed
  BY <1>1 DEF Typed, Queries, Places
<1>4. MailOk(mailbox, query)
  BY <1>1 DEF MailOk
<1>5. pc["adapter"] = "idle"
  BY <1>1 DEF Threads
<1> QED BY <1>2, <1>3, <1>4, <1>5 DEF IInv, HoldsLock, InsideSend, OwnEvent, OwnResult

\* The events of the connection are no threads.
LEMMA EventsNoThreads ==
  /\ {"create", "ready", "closed"} \subseteq Mail
  /\ {"create", "ready", "closed"} \cap Threads = {}
  /\ "none" \notin Threads
BY ConstantsAssumption DEF Mail, Threads

\* The actor takes a message that is no query, or one is posted to it.
LEMMA TakePost ==
  ASSUME IInv
  PROVE  /\ MailOk(mailbox, query)
         /\ mailbox \in Seq(Mail)
         /\ \A m : Take(m) => mailbox' \in Seq(Mail) /\ MailOk(mailbox', query)
         /\ \A m \in {"create", "ready", "closed"} :
              Append(mailbox, m) \in Seq(Mail) /\ MailOk(Append(mailbox, m), query)
<1>1. mailbox \in Seq(Mail) /\ MailOk(mailbox, query)
  BY DEF IInv, Typed
<1>2. ASSUME NEW m, Take(m)
      PROVE  mailbox' \in Seq(Mail) /\ MailOk(mailbox', query)
  <2>1. mailbox # << >> /\ mailbox' = Tail(mailbox)
    BY <1>2 DEF Take
  <2> QED BY <1>1, <2>1, MailTail
<1>3. ASSUME NEW m \in {"create", "ready", "closed"}
      PROVE  Append(mailbox, m) \in Seq(Mail) /\ MailOk(Append(mailbox, m), query)
  <2>1. m \in Mail /\ m \notin Threads
    BY EventsNoThreads
  <2> QED BY <1>1, <2>1, MailAppend
<1> QED BY <1>1, <1>2, <1>3

\* The actor takes the query of the thread t.
LEMMA TakeQueryInv ==
  ASSUME IInv, NEW t \in Threads, TakeQuery(t)
  PROVE  IInv'
<1>1. /\ mailbox # << >> /\ Head(mailbox) = t /\ mailbox' = Tail(mailbox)
      /\ pc' = pc /\ sync' = sync /\ e' = e
  BY DEF TakeQuery, Take
<1>2. PICK r \in {"sent", "lost"} : query' = [query EXCEPT ![t] = r]
  BY DEF TakeQuery
<1>3. mailbox \in Seq(Mail) /\ MailOk(mailbox, query) /\ query \in [Threads -> Queries]
  BY DEF IInv, Typed
<1>4. /\ mailbox' \in Seq(Mail) /\ MailOk(mailbox', query) /\ query[t] = "posted"
      /\ \A i \in 1..Len(mailbox') : mailbox'[i] # t
  BY <1>1, <1>3, MailTail
<1>5. query' \in [Threads -> Queries] /\ \A u \in Threads : query'[u] = IF u = t THEN r ELSE query[u]
  BY <1>2, <1>3 DEF Queries
<1>6. MailOk(mailbox', query')
  BY <1>4, <1>5, MailOther
<1>7. pc[t] = "wait" /\ (e => FALSE) /\ sync = t
  BY <1>4 DEF IInv, InsideSend, HoldsLock, OwnEvent, OwnResult
<1>8. \A u \in Threads : u # t => pc[u] \notin {"wait", "returned"}
  BY <1>7 DEF IInv, HoldsLock
<1>9. \A u \in Threads : HoldsLock(u)' /\ InsideSend(u)' /\ OwnEvent(u)' /\ OwnResult(u)'
  BY <1>1, <1>5, <1>7, <1>8 DEF IInv, HoldsLock, InsideSend, OwnEvent, OwnResult
<1> QED BY <1>1, <1>4, <1>5, <1>6, <1>9 DEF IInv, Typed

\* Lock: the thread posts its query under the lock, or Send returns at once.
LEMMA LockInv ==
  ASSUME IInv, NEW t \in Threads, Lock(t)
  PROVE  IInv'
<1>1. pc[t] = "lock" /\ sync = "none"
  BY DEF Lock
<1>2. CASE handle
  <2>1. /\ sync' = t
        /\ query' = [query EXCEPT ![t] = "posted"]
        /\ mailbox' = Append(mailbox, t)
        /\ pc' = [pc EXCEPT ![t] = "wait"]
    BY <1>2, Zenon DEF Lock
  <2>2. e' = FALSE
    BY <1>2, Zenon DEF Lock
  <2>3. \A u \in Threads : pc[u] \notin {"wait", "returned"} /\ query[u] = "none"
    BY <1>1, EventsNoThreads DEF IInv, HoldsLock, InsideSend
  <2>4. mailbox' \in Seq(Mail) /\ MailOk(mailbox', query')
    <3>1. /\ mailbox \in Seq(Mail) /\ MailOk(mailbox, query)
          /\ query \in [Threads -> Queries] /\ query[t] # "posted"
      BY <2>3 DEF IInv, Typed
    <3> QED BY <2>1, <3>1, MailPost
  <2>5. query' \in [Threads -> Queries] /\ pc' \in [Threads -> Places]
    BY <2>1 DEF IInv, Typed, Queries, Places
  <2>6. \A u \in Threads : /\ pc'[u] = IF u = t THEN "wait" ELSE pc[u]
                           /\ query'[u] = IF u = t THEN "posted" ELSE query[u]
    BY <2>1 DEF IInv, Typed
  <2>7. \A u \in Threads : OwnEvent(u)'
    BY <2>2 DEF OwnEvent
  <2>8. \A u \in Threads : HoldsLock(u)' /\ InsideSend(u)' /\ OwnResult(u)'
    BY <2>1, <2>3, <2>6 DEF HoldsLock, InsideSend, OwnResult
  <2>9. (pc["adapter"] = "startWait" => sync = "adapter")'
    BY <1>1, <2>6, EventsNoThreads DEF IInv, Threads
  <2> QED BY <2>4, <2>5, <2>7, <2>8, <2>9 DEF IInv, Typed
<1>3. CASE ~handle
  <2>1. /\ pc' = [pc EXCEPT ![t] = "idle"] /\ mailbox' = mailbox
        /\ query' = query /\ sync' = sync /\ e' = e
    BY <1>3, Zenon DEF Lock
  <2>2. mailbox' \in Seq(Mail) /\ MailOk(mailbox', query)
    BY <2>1 DEF IInv, Typed
  <2> QED BY <1>1, <2>1, <2>2, MoveStep DEF Places
<1> QED BY <1>2, <1>3

\* WaitOne: the event was set for this thread's query.
LEMMA WaitOneInv ==
  ASSUME IInv, NEW t \in Threads, WaitOne(t)
  PROVE  IInv'
<1>1. /\ pc[t] = "wait" /\ pc' = [pc EXCEPT ![t] = "returned"]
      /\ mailbox' = mailbox /\ query' = query /\ sync' = sync /\ e' = e
  BY DEF WaitOne, actorVars
<1>2. e
  BY DEF WaitOne
<1>3. query[t] \in {"ok", "error"} /\ sync = t
  BY <1>1, <1>2 DEF IInv, OwnEvent, HoldsLock
<1>4. pc' \in [Threads -> Places] /\ \A u \in Threads : pc'[u] = IF u = t THEN "returned" ELSE pc[u]
  BY <1>1 DEF IInv, Typed, Places
<1>5. \A u \in Threads : HoldsLock(u)' /\ InsideSend(u)' /\ OwnEvent(u)' /\ OwnResult(u)'
  BY <1>1, <1>3, <1>4 DEF IInv, HoldsLock, InsideSend, OwnEvent, OwnResult
<1>6. (pc["adapter"] = "startWait" => sync = "adapter")'
  BY <1>1, <1>4 DEF IInv, Threads
<1> QED BY <1>1, <1>4, <1>5, <1>6 DEF IInv, Typed

\* Start: the adapter takes the lock, too.
LEMMA StartInv ==
  ASSUME IInv, Start
  PROVE  IInv'
<1>1. /\ pc["adapter"] = "start" /\ sync = "none" /\ sync' = "adapter"
      /\ mailbox' = Append(mailbox, "create")
      /\ pc' = [pc EXCEPT !["adapter"] = "startWait"]
      /\ query' = query /\ e' = e
  BY DEF Start, At, Goto
<1>2. mailbox' \in Seq(Mail) /\ MailOk(mailbox', query')
  BY <1>1, TakePost
<1>3. \A u \in Threads : pc[u] \notin {"wait", "returned"} /\ query[u] = "none"
  BY <1>1, EventsNoThreads DEF IInv, HoldsLock, InsideSend
<1>4. /\ pc' \in [Threads -> Places]
      /\ \A u \in Threads : pc'[u] = IF u = "adapter" THEN "startWait" ELSE pc[u]
  BY <1>1 DEF IInv, Typed, Places
<1>5. \A u \in Threads : HoldsLock(u)' /\ InsideSend(u)' /\ OwnEvent(u)' /\ OwnResult(u)'
  BY <1>1, <1>3, <1>4 DEF HoldsLock, InsideSend, OwnEvent, OwnResult
<1> QED BY <1>1, <1>2, <1>4, <1>5 DEF IInv, Typed

\* Started: the adapter, which has no query, gives the lock back.
LEMMA StartedInv ==
  ASSUME IInv, Started
  PROVE  IInv'
<1>1. /\ pc["adapter"] = "startWait" /\ sync' = "none"
      /\ pc' = [pc EXCEPT !["adapter"] = "check"]
      /\ mailbox' = mailbox /\ query' = query /\ e' = e
  BY DEF Started, At, Goto, actorVars
<1>2. "adapter" \in Threads /\ sync = "adapter" /\ query["adapter"] = "none"
  BY <1>1 DEF IInv, InsideSend, Threads
<1>3. query' = [query EXCEPT !["adapter"] = "none"]
  BY <1>1, <1>2 DEF IInv, Typed
<1> QED BY <1>1, <1>2, <1>3, LeaveStep DEF Places

\* Every step keeps the invariant.
LEMMA NextInv ==
  ASSUME IInv, [Next]_vars
  PROVE  IInv'
<1> USE DEF actorVars, netVars, clientVars, adapterVars
<1>1. MailOk(mailbox, query) /\ mailbox \in Seq(Mail)
  BY TakePost
<1>2. "adapter" \in Threads /\ "time" \in Threads /\ Users \subseteq Threads
  BY DEF Threads
<1>3. CASE UNCHANGED vars
  BY <1>1, <1>3, MailStep DEF vars
<1>4. CASE ConnReady
  <2>1. Take("ready") /\ query' = query /\ pc' = pc /\ sync' = sync /\ e' = e
    BY <1>4, Zenon DEF ConnReady
  <2> QED BY <2>1, TakePost, MailStep
<1>5. CASE TakeClosed
  <2>1. Take("closed") /\ query' = query /\ pc' = pc /\ sync' = sync /\ e' = e
    BY <1>5, Zenon DEF TakeClosed
  <2> QED BY <2>1, TakePost, MailStep
<1>6. CASE TakeCreate
  <2>1. Take("create") /\ query' = query /\ pc' = pc /\ sync' = sync /\ e' = e
    BY <1>6, Zenon DEF TakeCreate
  <2> QED BY <2>1, TakePost, MailStep
<1>7. CASE RaiseDisconnected \/ ComeOnline \/ Relink \/ OldHangup
  <2>1. mailbox' = mailbox /\ query' = query /\ pc' = pc /\ sync' = sync /\ e' = e
    BY <1>7, Zenon DEF RaiseDisconnected, ComeOnline, Relink, OldHangup
  <2> QED BY <1>1, <2>1, MailStep
<1>8. CASE \E t \in Threads : TakeQuery(t)
  BY <1>8, TakeQueryInv
<1>9. CASE CreateRawClient
  <2>1. mailbox' = mailbox /\ Cancel /\ pc' = pc /\ sync' = sync /\ e' = e
    BY <1>9, Zenon DEF CreateRawClient
  <2> QED BY <1>1, <2>1, CancelStep
<1>10. CASE LinkUp
  <2>1. mailbox' = Append(mailbox, "ready") /\ query' = query /\ pc' = pc /\ sync' = sync /\ e' = e
    BY <1>10, Zenon DEF LinkUp
  <2> QED BY <2>1, TakePost, MailStep
<1>11. CASE LinkFails
  <2>1. mailbox' = Append(mailbox, "closed") /\ Cancel /\ pc' = pc /\ sync' = sync /\ e' = e
    BY <1>11, Zenon DEF LinkFails
  <2> QED BY <2>1, TakePost, CancelStep
<1>12. CASE OldReports
  <2>1. PICK m \in {"ready", "closed"} : mailbox' = Append(mailbox, m)
    BY <1>12, Zenon DEF OldReports
  <2>2. query' = query /\ pc' = pc /\ sync' = sync /\ e' = e
    BY <1>12, Zenon DEF OldReports
  <2> QED BY <2>1, <2>2, TakePost, MailStep
<1>13. ASSUME NEW t \in Threads, QueryAnswered(t) \/ QueryFails(t)
       PROVE  IInv'
  <2>1. PICK r \in {"ok", "error"} : query' = [query EXCEPT ![t] = r]
    BY <1>13, Zenon DEF QueryAnswered, QueryFails, Complete
  <2>2. query[t] \in {"sent", "lost"}
    BY <1>13, Zenon DEF QueryAnswered, QueryFails
  <2>3. mailbox' = mailbox /\ pc' = pc /\ sync' = sync
    BY <1>13, Zenon DEF QueryAnswered, QueryFails
  <2> QED BY <2>1, <2>2, <2>3, ResultStep
<1>14. CASE \E t \in Threads : Lock(t)
  BY <1>14, LockInv
<1>15. CASE \E t \in Threads : WaitOne(t)
  BY <1>15, WaitOneInv
<1>16. ASSUME NEW t \in Threads, SendReturns(t)
       PROVE  IInv'
  <2>1. /\ pc[t] = "returned" /\ sync' = "none" /\ mailbox' = mailbox /\ e' = e
        /\ pc' = [pc EXCEPT ![t] = "idle"]
        /\ query' = [query EXCEPT ![t] = "none"]
    BY <1>16, Zenon DEF SendReturns
  <2>2. sync = t /\ query[t] # "posted"
    BY <2>1 DEF IInv, HoldsLock, OwnResult
  <2> QED BY <2>1, <2>2, LeaveStep DEF Places
<1>17. CASE LastReturns
  <2>1. /\ pc["adapter"] = "returned" /\ sync' = "none" /\ mailbox' = mailbox /\ e' = e
        /\ query' = [query EXCEPT !["adapter"] = "none"]
    BY <1>17, Zenon DEF LastReturns, At
  <2>2. PICK p \in {"reconnect", "mark"} : pc' = [pc EXCEPT !["adapter"] = p]
    BY <1>17, Zenon DEF LastReturns, Goto
  <2>3. sync = "adapter" /\ query["adapter"] # "posted"
    BY <1>2, <2>1 DEF IInv, HoldsLock, OwnResult
  <2> QED BY <1>2, <2>1, <2>2, <2>3, LeaveStep DEF Places
<1>18. ASSUME NEW t \in Users, UserSends(t)
       PROVE  IInv'
  <2>1. /\ pc[t] = "idle" /\ pc' = [pc EXCEPT ![t] = "lock"] /\ mailbox' = mailbox
        /\ query' = query /\ sync' = sync /\ e' = e
    BY <1>18, Zenon DEF UserSends
  <2> QED BY <1>1, <1>2, <2>1, MoveStep DEF Places
<1>19. CASE GetServerTime
  <2>1. /\ pc["time"] = "idle" /\ pc' = [pc EXCEPT !["time"] = "lock"] /\ mailbox' = mailbox
        /\ query' = query /\ sync' = sync /\ e' = e
    BY <1>19, Zenon DEF GetServerTime
  <2> QED BY <1>1, <1>2, <2>1, MoveStep DEF Places
<1>20. CASE Start
  BY <1>20, StartInv
<1>21. CASE Started
  BY <1>21, StartedInv
<1>22. CASE BeginRefresh \/ Last \/ ConnectDone \/ MarkConnected
  <2>1. pc["adapter"] \in {"idle", "last", "connectWait", "reconnectWait", "mark"}
    BY <1>22, Zenon DEF BeginRefresh, Last, ConnectDone, MarkConnected, At
  <2>2. PICK p \in {"check", "start", "lock", "reconnect", "last", "idle"} :
          pc' = [pc EXCEPT !["adapter"] = p]
    BY <1>22, Zenon DEF BeginRefresh, Last, ConnectDone, MarkConnected, Goto
  <2>3. mailbox' = mailbox /\ query' = query /\ sync' = sync /\ e' = e
    BY <1>22, Zenon DEF BeginRefresh, Last, ConnectDone, MarkConnected
  <2> QED BY <1>1, <1>2, <2>1, <2>2, <2>3, MoveStep DEF Places
<1>23. CASE CheckConnected \/ Reconnect
  <2>1. pc["adapter"] \in {"check", "reconnect"}
    BY <1>23, Zenon DEF CheckConnected, Reconnect, At
  <2>2. PICK p \in {"connectWait", "reconnectWait", "last"} : pc' = [pc EXCEPT !["adapter"] = p]
    BY <1>23, Zenon DEF CheckConnected, Reconnect, Connect, Goto
  <2>3. query' = query /\ sync' = sync /\ e' = e
    BY <1>23, Zenon DEF CheckConnected, Reconnect, Connect
  <2>4. mailbox' = mailbox \/ mailbox' = Append(mailbox, "create")
    BY <1>23, Zenon DEF CheckConnected, Reconnect, Connect
  <2>5. mailbox' \in Seq(Mail) /\ MailOk(mailbox', query)
    BY <1>1, <2>4, TakePost
  <2> QED BY <1>2, <2>1, <2>2, <2>3, <2>5, MoveStep DEF Places
<1> QED
  BY <1>3, <1>4, <1>5, <1>6, <1>7, <1>8, <1>9, <1>10, <1>11, <1>12, <1>13, <1>14, <1>15,
     <1>16, <1>17, <1>18, <1>19, <1>20, <1>21, <1>22, <1>23, Zenon
     DEF Next, Actor, Refresh

-----------------------------------------------------------------------------
(* The theorem *)

\* Whatever the network does and however many threads call LiteClient.Send at
\* once, a thread that returns from it has the result of its own query: the one
\* event, the one lock and the actor's mailbox never hand it another's.
THEOREM SendOwnResultHolds == Spec => []SendOwnResult
<1>1. Init => IInv
  BY InitInv
<1>2. IInv /\ [Next]_vars => IInv'
  BY NextInv
<1>3. IInv => SendOwnResult
  BY DEF IInv, OwnResult, SendOwnResult
<1> QED BY <1>1, <1>2, <1>3, PTL DEF Spec

-----------------------------------------------------------------------------
(* The types *)

\* The types of the variables that the argument above does not mention.
RestTyped ==
  /\ handle \in BOOLEAN /\ raising \in BOOLEAN /\ connected \in BOOLEAN
  /\ native \in {"idle", "create"}
  /\ link \in {"none", "connecting", "up", "down"}
  /\ old \in {"none", "connecting", "up"}
  /\ online \in BOOLEAN
  /\ sync \in Threads \cup {"none"}
  /\ e \in BOOLEAN /\ connectedEvent \in BOOLEAN
  /\ isConnected \in BOOLEAN /\ timeDue \in BOOLEAN

LEMMA RestStep ==
  ASSUME RestTyped, [Next]_vars
  PROVE  RestTyped'
<1> USE DEF RestTyped, actorVars, netVars, clientVars, adapterVars
<1>1. "adapter" \in Threads /\ Users \subseteq Threads
  BY DEF Threads
<1>2. CASE UNCHANGED vars
  BY <1>2 DEF vars
<1>3. CASE Actor
  <2>1. CASE ConnReady
    BY <2>1 DEF ConnReady, Take
  <2>2. CASE TakeClosed \/ TakeCreate
    BY <2>2 DEF TakeClosed, TakeCreate, ConnClosed, Take
  <2>3. CASE RaiseDisconnected
    BY <2>3 DEF RaiseDisconnected
  <2>4. ASSUME NEW t \in Threads, TakeQuery(t) PROVE RestTyped'
    BY <2>4 DEF TakeQuery, Take
  <2> QED BY <1>3, <2>1, <2>2, <2>3, <2>4 DEF Actor
<1>4. CASE CreateRawClient
  BY <1>4 DEF CreateRawClient
<1>5. CASE ComeOnline \/ LinkUp \/ LinkFails \/ Relink \/ OldReports \/ OldHangup
  BY <1>5 DEF ComeOnline, LinkUp, LinkFails, Relink, OldReports, OldHangup
<1>6. ASSUME NEW t \in Threads, QueryAnswered(t) \/ QueryFails(t) PROVE RestTyped'
  BY <1>6 DEF QueryAnswered, QueryFails, Complete
<1>7. ASSUME NEW t \in Threads, Lock(t) \/ WaitOne(t) \/ SendReturns(t) PROVE RestTyped'
  <2>1. CASE Lock(t)
    BY <2>1 DEF Lock
  <2>2. CASE WaitOne(t)
    BY <2>2 DEF WaitOne
  <2>3. CASE SendReturns(t)
    BY <2>3 DEF SendReturns
  <2> QED BY <1>7, <2>1, <2>2, <2>3
<1>8. CASE GetServerTime \/ \E t \in Users : UserSends(t)
  <2>1. CASE GetServerTime
    BY <2>1 DEF GetServerTime
  <2>2. ASSUME NEW t \in Users, UserSends(t) PROVE RestTyped'
    BY <2>2 DEF UserSends
  <2> QED BY <1>8, <2>1, <2>2
<1>9. CASE BeginRefresh \/ Start
  BY <1>1, <1>9 DEF BeginRefresh, Start
<1>10. CASE Refresh
  <2>1. CASE Started \/ ConnectDone \/ Last \/ LastReturns
    BY <2>1 DEF Started, ConnectDone, Last, LastReturns
  <2>2. CASE CheckConnected \/ Reconnect
    BY <2>2 DEF CheckConnected, Reconnect, Connect
  <2>3. CASE MarkConnected
    BY <2>3 DEF MarkConnected
  <2> QED BY <1>10, <2>1, <2>2, <2>3 DEF Refresh
<1> QED
  BY <1>2, <1>3, <1>4, <1>5, <1>6, <1>7, <1>8, <1>9, <1>10, Zenon DEF Next

\* Every variable of the actor, the network and the threads keeps its type.
THEOREM TypeCorrect == Spec => []TypeOK
<1>1. Init => IInv /\ RestTyped
  BY InitInv DEF Init, RestTyped
<1>2. IInv /\ RestTyped /\ [Next]_vars => (IInv /\ RestTyped)'
  BY NextInv, RestStep
<1>3. IInv /\ RestTyped => TypeOK
  BY DEF IInv, Typed, RestTyped, TypeOK, Mail, Queries, Places
<1> QED BY <1>1, <1>2, <1>3, PTL DEF Spec

=============================================================================
