--------------------- MODULE TransactionHistory_proofs ---------------------
(***************************************************************************)
(* Proofs about TransactionHistory, for any number of panels, any page     *)
(* size and any history.                                                   *)
(***************************************************************************)
EXTENDS TransactionHistory, SequenceTheorems, TLAPS

-----------------------------------------------------------------------------
(* Sequences of transactions *)

\* A descending run: its length, its elements, its order.
LEMMA DownFacts ==
  ASSUME NEW hi \in Int, NEW lo \in Nat \ {0}, hi <= MaxTx
  PROVE  /\ Down(hi, lo) \in Seq(Positions)
         /\ Len(Down(hi, lo)) = Max2(hi - lo + 1, 0)
         /\ \A i \in 1..Len(Down(hi, lo)) :
              Down(hi, lo)[i] = hi - i + 1 /\ Down(hi, lo)[i] \in lo..hi
         /\ StrictlyDescending(Down(hi, lo))
<1> USE ConstantsAssumption
<1> DEFINE n == Max2(hi - lo + 1, 0)
           d == [i \in 1..n |-> hi - i + 1]
<1>1. n \in Nat
  BY DEF Max2
<1>2. \A i \in 1..n : hi - i + 1 \in lo..hi /\ hi - i + 1 \in Positions
  BY DEF Max2, Positions
<1>3. d \in Seq(Positions) /\ Len(d) = n
  <2>1. d \in [1..n -> Positions]
    BY <1>2
  <2> QED BY <1>1, <2>1
<1>4. Down(hi, lo) = d
  BY DEF Down
<1>5. DOMAIN d = 1..n
  OBVIOUS
<1>6. StrictlyDescending(d)
  BY <1>1, <1>5 DEF StrictlyDescending
<1> HIDE DEF n, d
<1> QED
  <2>1. \A i \in 1..n : d[i] = hi - i + 1
    BY DEF d
  <2> QED BY <1>2, <1>3, <1>4, <1>6, <2>1 DEF n

\* Two descending lists, the first above the second, make a descending list.
LEMMA ConcatDescending ==
  ASSUME NEW s \in Seq(Int), NEW t \in Seq(Int),
         StrictlyDescending(s), StrictlyDescending(t),
         \A i \in DOMAIN s, j \in DOMAIN t : s[i] > t[j]
  PROVE  StrictlyDescending(s \o t)
<1> SUFFICES ASSUME NEW i \in DOMAIN (s \o t), NEW j \in DOMAIN (s \o t), i < j
             PROVE  (s \o t)[i] > (s \o t)[j]
  BY DEF StrictlyDescending
<1>1. /\ s \o t \in Seq(Int)
      /\ DOMAIN (s \o t) = 1..(Len(s) + Len(t))
      /\ Len(s) \in Nat /\ Len(t) \in Nat
      /\ DOMAIN s = 1..Len(s) /\ DOMAIN t = 1..Len(t)
  OBVIOUS
<1>2. CASE j <= Len(s)
  BY <1>1, <1>2 DEF StrictlyDescending
<1>3. CASE i > Len(s)
  <2>1. (s \o t)[i] = t[i - Len(s)] /\ (s \o t)[j] = t[j - Len(s)]
    BY <1>1, <1>3
  <2> QED BY <1>1, <1>3, <2>1 DEF StrictlyDescending
<1>4. CASE i <= Len(s) /\ j > Len(s)
  <2>1. (s \o t)[i] = s[i] /\ (s \o t)[j] = t[j - Len(s)]
    BY <1>1, <1>4
  <2>2. i \in DOMAIN s /\ j - Len(s) \in DOMAIN t
    BY <1>1, <1>4
  <2> QED BY <2>1, <2>2
<1> QED BY <1>1, <1>2, <1>3, <1>4

\* The elements of a concatenation.
LEMMA ConcatRange ==
  ASSUME NEW S, NEW s \in Seq(S), NEW t \in Seq(S)
  PROVE  RangeOf(s \o t) = RangeOf(s) \cup RangeOf(t)
<1>1. ASSUME NEW i \in DOMAIN (s \o t)
      PROVE  (s \o t)[i] \in RangeOf(s) \cup RangeOf(t)
  BY DEF RangeOf
<1>2. ASSUME NEW i \in DOMAIN s
      PROVE  s[i] \in RangeOf(s \o t)
  <2>1. i \in DOMAIN (s \o t) /\ (s \o t)[i] = s[i]
    OBVIOUS
  <2> QED BY <2>1 DEF RangeOf
<1>3. ASSUME NEW i \in DOMAIN t
      PROVE  t[i] \in RangeOf(s \o t)
  <2>1. i + Len(s) \in DOMAIN (s \o t) /\ (s \o t)[i + Len(s)] = t[i]
    OBVIOUS
  <2> QED BY <2>1 DEF RangeOf
<1> QED BY <1>1, <1>2, <1>3 DEF RangeOf

\* The first and the last element of a descending list bound the others.
LEMMA FirstLastFacts ==
  ASSUME NEW s \in Seq(Positions), StrictlyDescending(s), s # << >>
  PROVE  /\ 1 \in DOMAIN s /\ Len(s) \in DOMAIN s
         /\ FirstOf(s) = s[1] /\ LastOf(s) = s[Len(s)]
         /\ FirstOf(s) \in Positions /\ LastOf(s) \in Positions
         /\ FirstOf(s) \in RangeOf(s) /\ LastOf(s) \in RangeOf(s)
         /\ \A i \in DOMAIN s : s[i] \in Positions /\ FirstOf(s) >= s[i] /\ s[i] >= LastOf(s)
<1>1. /\ 1 \in DOMAIN s /\ Len(s) \in DOMAIN s
      /\ FirstOf(s) = s[1] /\ LastOf(s) = s[Len(s)]
      /\ \A i \in DOMAIN s : s[i] \in Positions
  BY DEF FirstOf, LastOf
<1>2. \A i \in DOMAIN s : s[1] >= s[i] /\ s[i] >= s[Len(s)]
  <2> SUFFICES ASSUME NEW i \in DOMAIN s
               PROVE  s[1] >= s[i] /\ s[i] >= s[Len(s)]
    OBVIOUS
  <2>1. s[1] \in Int /\ s[i] \in Int /\ s[Len(s)] \in Int
    BY <1>1, ConstantsAssumption DEF Positions
  <2>2. i = 1 \/ 1 < i
    OBVIOUS
  <2>3. i = Len(s) \/ i < Len(s)
    OBVIOUS
  <2> QED BY <1>1, <2>1, <2>2, <2>3 DEF StrictlyDescending
<1> QED BY <1>1, <1>2 DEF RangeOf

\* What the callback of GetTransactionsCore keeps of a page.
LEMMA FreshFacts ==
  ASSUME NEW s \in Seq(Positions), StrictlyDescending(s),
         NEW lt \in Positions, NEW last \in Positions \cup {Null}
  PROVE  LET ts == Fresh(last, lt, s) IN
         /\ ts \in Seq(Positions)
         /\ StrictlyDescending(ts)
         /\ \A i \in DOMAIN ts :
              /\ ts[i] \in 1..lt
              /\ ts[i] = ts[1] - i + 1
              /\ last = Null => ts[i] > FirstOf(s)
              /\ last # Null /\ s # << >> => ts[i] < LastOf(s)
<1> USE ConstantsAssumption
<1>1. OldestOfPage(lt) \in Nat \ {0}
  BY DEF OldestOfPage, Max2, Positions
<1>2. /\ s = << >> => FirstOf(s) = 0
      /\ FirstOf(s) \in Nat
      /\ s # << >> => LastOf(s) \in Positions
  BY FirstLastFacts DEF FirstOf, Positions, Null
<1>3. CASE last = Null
  <2> DEFINE lo == Max2(OldestOfPage(lt), FirstOf(s) + 1)
  <2>1. lo \in Nat \ {0} /\ lo >= FirstOf(s) + 1
    BY <1>1, <1>2 DEF Max2
  <2>2. Fresh(last, lt, s) = Down(lt, lo)
    BY <1>3 DEF Fresh, NewestOf
  <2> HIDE DEF lo
  <2>3. lt \in Int /\ lt <= MaxTx
    BY DEF Positions
  <2>4. /\ Down(lt, lo) \in Seq(Positions)
        /\ StrictlyDescending(Down(lt, lo))
        /\ \A i \in 1..Len(Down(lt, lo)) :
             Down(lt, lo)[i] = lt - i + 1 /\ Down(lt, lo)[i] \in lo..lt
    BY <2>1, <2>3, DownFacts
  <2>5. DOMAIN Down(lt, lo) = 1..Len(Down(lt, lo)) /\ Len(Down(lt, lo)) \in Nat
    BY <2>4
  <2> QED BY <1>2, <1>3, <2>1, <2>2, <2>3, <2>4, <2>5
<1>4. CASE last # Null
  <2> DEFINE hi == IF s = << >> THEN lt ELSE Min2(lt, LastOf(s) - 1)
             lo == OldestOfPage(lt)
  <2>1. /\ hi \in Int /\ hi <= MaxTx /\ hi <= lt
        /\ s # << >> => hi < LastOf(s)
    BY <1>2 DEF Min2, Positions
  <2>2. Fresh(last, lt, s) = Down(hi, lo)
    BY <1>4 DEF Fresh, OlderOf
  <2>3. lo \in Nat \ {0}
    BY <1>1
  <2> HIDE DEF hi, lo
  <2>4. /\ Down(hi, lo) \in Seq(Positions)
        /\ StrictlyDescending(Down(hi, lo))
        /\ \A i \in 1..Len(Down(hi, lo)) :
             Down(hi, lo)[i] = hi - i + 1 /\ Down(hi, lo)[i] \in lo..hi
    BY <2>1, <2>3, DownFacts
  <2>5. DOMAIN Down(hi, lo) = 1..Len(Down(hi, lo)) /\ Len(Down(hi, lo)) \in Nat
    BY <2>4
  <2>6. lt \in Int
    BY DEF Positions
  <2>7. s # << >> => LastOf(s) \in Int
    BY <1>2 DEF Positions
  <2> QED BY <1>4, <2>1, <2>2, <2>3, <2>4, <2>5, <2>6, <2>7
<1> QED BY <1>3, <1>4

\* A page whose transactions are all newer, or all older, than the list's.
LEMMA AddAndSortFacts ==
  ASSUME NEW s \in Seq(Positions), StrictlyDescending(s),
         NEW ts \in Seq(Positions), StrictlyDescending(ts),
         \/ \A i \in DOMAIN ts : ts[i] > FirstOf(s)
         \/ s # << >> /\ \A i \in DOMAIN ts : ts[i] < LastOf(s)
  PROVE  /\ AddAndSort(s, ts) \in Seq(Positions)
         /\ StrictlyDescending(AddAndSort(s, ts))
         /\ RangeOf(AddAndSort(s, ts)) = RangeOf(s) \cup RangeOf(ts)
<1> USE ConstantsAssumption
<1>0. Positions \subseteq Int /\ s \in Seq(Int) /\ ts \in Seq(Int)
  BY DEF Positions
<1>1. CASE s = << >> \/ ts = << >>
  <2>1. AddAndSort(s, ts) = s \o ts
    BY <1>1 DEF AddAndSort
  <2>2. s \o ts = s \/ s \o ts = ts
    BY <1>1
  <2>3. s \o ts \in Seq(Positions) /\ StrictlyDescending(s \o ts)
    BY <2>2
  <2>4. RangeOf(s \o ts) = RangeOf(s) \cup RangeOf(ts)
    BY ConcatRange
  <2> QED BY <2>1, <2>3, <2>4
<1>2. CASE s # << >> /\ ts # << >>
  <2>1. /\ 1 \in DOMAIN ts /\ Len(ts) \in DOMAIN ts
        /\ \A i \in DOMAIN ts : ts[i] \in Int
        /\ \A i \in DOMAIN s : s[i] \in Int /\ s[1] >= s[i] /\ s[i] >= s[Len(s)]
        /\ FirstOf(s) = s[1] /\ LastOf(s) = s[Len(s)]
        /\ 1 \in DOMAIN s /\ Len(s) \in DOMAIN s
    BY <1>0, <1>2, FirstLastFacts
  <2>2. CASE \A i \in DOMAIN ts : ts[i] > FirstOf(s)
    <3>1. AddAndSort(s, ts) = ts \o s
      BY <1>2, <2>1, <2>2 DEF AddAndSort
    <3>2. \A i \in DOMAIN ts, j \in DOMAIN s : ts[i] > s[j]
      BY <2>1, <2>2
    <3>3. StrictlyDescending(ts \o s)
      BY <1>0, <3>2, ConcatDescending
    <3> QED BY <3>1, <3>3, ConcatRange
  <2>3. CASE ~(\A i \in DOMAIN ts : ts[i] > FirstOf(s)) /\ \A i \in DOMAIN ts : ts[i] < LastOf(s)
    <3>1. AddAndSort(s, ts) = s \o ts
      BY <1>2, <2>1, <2>3 DEF AddAndSort
    <3>2. \A i \in DOMAIN s, j \in DOMAIN ts : s[i] > ts[j]
      BY <2>1, <2>3
    <3>3. StrictlyDescending(s \o ts)
      BY <1>0, <3>2, ConcatDescending
    <3> QED BY <3>1, <3>3, ConcatRange
  <2> QED BY <2>2, <2>3
<1> QED BY <1>1, <1>2

\* What the panel's callback does with an array of transactions: those of a
\* refresh are newer than its list, those of an older page older.
LEMMA AppliedFacts ==
  ASSUME NEW l \in Seq(Positions), StrictlyDescending(l),
         NEW ts \in Seq(Positions), StrictlyDescending(ts),
         NEW last,
         last = Null => \A i \in DOMAIN ts : ts[i] = ts[1] - i + 1,
         last # Null => \A i \in DOMAIN l, j \in DOMAIN ts : l[i] > ts[j]
  PROVE  /\ Applied(l, last, ts) \in Seq(Positions)
         /\ StrictlyDescending(Applied(l, last, ts))
         /\ RangeOf(Applied(l, last, ts)) \subseteq RangeOf(l) \cup RangeOf(ts)
         /\ RangeOf(l) \subseteq RangeOf(Applied(l, last, ts))
         /\ last = Null /\ l # << >> =>
              Applied(l, last, ts) # << >> /\ LastOf(Applied(l, last, ts)) = LastOf(l)
<1> USE ConstantsAssumption
<1>0. Positions \subseteq Int /\ l \in Seq(Int) /\ ts \in Seq(Int)
  BY DEF Positions
<1>1. CASE ts = << >>
  <2>1. Applied(l, last, ts) = l
    BY <1>1 DEF Applied
  <2> QED BY <2>1
<1>2. CASE ts # << >> /\ last = Null /\ l # << >>
  <2> DEFINE k == Min2(Len(ts), Max2(ts[1] - FirstOf(l), 0))
             new == SubSeq(ts, 1, k)
  <2>1. Applied(l, last, ts) = new \o l
    BY <1>2 DEF Applied, Insert
  <2>2. /\ FirstOf(l) = l[1] /\ FirstOf(l) \in Int
        /\ \A j \in DOMAIN l : l[j] \in Int /\ FirstOf(l) >= l[j]
    BY <1>0, <1>2, FirstLastFacts
  <2>3. ts[1] \in Int /\ Len(ts) \in Nat
    BY <1>0, <1>2
  <2>4. k \in 0..Len(ts) /\ (k > 0 => k <= ts[1] - FirstOf(l))
    BY <2>2, <2>3 DEF Min2, Max2
  <2> HIDE DEF k
  <2>5. /\ new \in Seq(Positions) /\ Len(new) = k /\ DOMAIN new = 1..k
        /\ \A i \in 1..k : new[i] = ts[i] /\ i \in DOMAIN ts
    BY <2>3, <2>4
  <2> HIDE DEF new
  <2>6. \A i \in DOMAIN new, j \in DOMAIN l : new[i] > l[j]
    <3> SUFFICES ASSUME NEW i \in DOMAIN new, NEW j \in DOMAIN l
                 PROVE  new[i] > l[j]
      OBVIOUS
    <3>1. new[i] = ts[1] - i + 1 /\ i \in 1..k
      BY <1>2, <2>5
    <3> QED BY <2>2, <2>3, <2>4, <3>1
  <2>7. StrictlyDescending(new)
    BY <2>4, <2>5 DEF StrictlyDescending
  <2>8. new \in Seq(Int)
    BY <1>0, <2>5
  <2>9. StrictlyDescending(new \o l)
    BY <1>0, <2>6, <2>7, <2>8, ConcatDescending
  <2>10. RangeOf(new \o l) = RangeOf(new) \cup RangeOf(l)
    BY <2>5, ConcatRange
  <2>11. RangeOf(new) \subseteq RangeOf(ts)
    BY <2>5 DEF RangeOf
  <2>12. new \o l \in Seq(Positions)
    BY <2>5
  <2>13. new \o l # << >> /\ LastOf(new \o l) = LastOf(l)
    <3>1. /\ Len(l) \in Nat /\ Len(l) > 0
          /\ Len(new \o l) = k + Len(l) /\ k \in Nat
      BY <1>2, <2>4, <2>5
    <3>2. (new \o l)[k + Len(l)] = l[Len(l)]
      BY <2>5, <3>1
    <3> QED BY <1>2, <3>1, <3>2 DEF LastOf
  <2> QED BY <2>1, <2>9, <2>10, <2>11, <2>12, <2>13
<1>3. CASE ts # << >> /\ ~(last = Null /\ l # << >>)
  <2>1. Applied(l, last, ts) = l \o ts
    BY <1>3 DEF Applied
  <2>2. \A i \in DOMAIN l, j \in DOMAIN ts : l[i] > ts[j]
    BY <1>3
  <2>3. StrictlyDescending(l \o ts)
    BY <1>0, <2>2, ConcatDescending
  <2>4. RangeOf(l \o ts) = RangeOf(l) \cup RangeOf(ts)
    BY ConcatRange
  <2>5. l \o ts \in Seq(Positions)
    OBVIOUS
  <2> QED BY <1>3, <2>1, <2>3, <2>4, <2>5
<1> QED BY <1>1, <1>2, <1>3

-----------------------------------------------------------------------------
(* The inductive invariant *)

\* The strengthening: order and contents of both kinds of lists need each
\* other, and they need to know from where the requests in progress page.
IInv ==
  /\ TypeOK
  /\ WalletListOrdered
  /\ PanelListOrdered
  /\ PanelShowsWalletTransactions
  /\ RequestsInv

\* The slots of a panel are two, and are not those of the other callers.
LEMMA SlotFacts ==
  /\ \A p \in Panels : \A th \in Threads : <<p, th>> \in Slots /\ <<p, th>> \notin Callers
  /\ \A s \in Slots : s \in Callers \/ \E p \in Panels, th \in Threads : s = <<p, th>>
  /\ Callers \subseteq Slots
<1>1. "ui" # "caller" /\ "adapter" # "caller"
  OBVIOUS
<1> QED BY <1>1 DEF Slots, Callers, Threads

\* The program starts with empty lists and no request.
LEMMA InitInv == Init => IInv
<1> SUFFICES ASSUME Init PROVE IInv
  OBVIOUS
<1> USE ConstantsAssumption DEF Init
<1>1. TypeOK
  <2>1. Idle \in FetchType
    BY DEF Idle, FetchType, Null
  <2>2. lastTransactionId \in 0..chain
    OBVIOUS
  <2>3. chain \in Positions
    BY DEF Positions
  <2>4. fetch \in [Slots -> FetchType]
    BY <2>1
  <2>5. open \in [Panels -> BOOLEAN] /\ allTransactionLoaded \in [Panels -> BOOLEAN]
    BY Zenon
  <2>6. transactions \in Seq(Positions) /\ list \in [Panels -> Seq(Positions)]
    OBVIOUS
  <2>7. connected \in BOOLEAN /\ refreshing \in BOOLEAN
    BY Zenon
  <2> QED BY <2>2, <2>3, <2>4, <2>5, <2>6, <2>7, Zenon DEF TypeOK
<1>2. WalletListOrdered /\ PanelListOrdered
  BY DEF WalletListOrdered, PanelListOrdered, StrictlyDescending
<1>3. PanelShowsWalletTransactions
  BY DEF PanelShowsWalletTransactions, RangeOf
<1>4. RequestsInv
  <2>1. Idle.pc = "idle" /\ Idle.last = Null
    BY DEF Idle
  <2> QED BY <2>1, SlotFacts DEF RequestsInv, Threads
<1> QED BY <1>1, <1>2, <1>3, <1>4 DEF IInv

\* A request that ends with an array of transactions, from the wallet's list
\* or from the server.
LEMMA DeliverInv ==
  ASSUME IInv, NEW s \in Slots, fetch[s].pc \in {"queued", "sent"},
         NEW ts \in Seq(Positions), StrictlyDescending(ts),
         RangeOf(transactions) \cup RangeOf(ts) \subseteq RangeOf(transactions'),
         fetch[s].last = Null => \A i \in DOMAIN ts : ts[i] = ts[1] - i + 1,
         fetch[s].last # Null /\ s \notin Callers =>
           \A i \in DOMAIN list[s[1]], j \in DOMAIN ts : list[s[1]][i] > ts[j],
         Deliver(s, ts), open' = open, lastTransactionId' = lastTransactionId
  PROVE  /\ list' \in [Panels -> Seq(Positions)]
         /\ fetch' \in [Slots -> FetchType]
         /\ PanelListOrdered'
         /\ \A p \in Panels : RangeOf(list'[p]) \subseteq RangeOf(transactions')
         /\ RequestsInv'
<1> USE DEF IInv
<1>1. /\ fetch \in [Slots -> FetchType] /\ list \in [Panels -> Seq(Positions)]
      /\ fetch[s] \in FetchType
  BY DEF TypeOK
<1>2. Idle \in FetchType /\ Done(fetch[s].last) \in FetchType
  BY <1>1 DEF Idle, Done, FetchType, Null
<1>3. fetch' \in [Slots -> FetchType]
  BY <1>1, <1>2 DEF Deliver
<1>4. \A r \in Slots : r # s => fetch'[r] = fetch[r]
  BY <1>1 DEF Deliver
<1>5. fetch'[s].pc \in {"idle", "done"} /\ (s \notin Callers => fetch'[s].last = fetch[s].last)
  BY <1>1 DEF Deliver, Idle, Done
<1>6. CASE s \in Callers
  <2>1. list' = list
    BY <1>6 DEF Deliver
  <2>2. PanelListOrdered'
    BY <2>1 DEF PanelListOrdered
  <2>3. \A p \in Panels : RangeOf(list'[p]) \subseteq RangeOf(transactions')
    BY <2>1 DEF PanelShowsWalletTransactions
  <2>4. \A p \in Panels, th \in Threads : fetch'[<<p, th>>] = fetch[<<p, th>>]
    BY <1>4, <1>6, SlotFacts
  <2>5. RequestsInv'
    BY <1>4, <1>5, <2>1, <2>4, SlotFacts DEF RequestsInv, Threads
  <2> QED BY <1>1, <1>3, <2>1, <2>2, <2>3, <2>5
<1>7. CASE s \notin Callers
  <2> PICK p \in Panels, th \in Threads : s = <<p, th>>
    BY <1>7, SlotFacts
  <2> DEFINE last == fetch[s].last
             new == Applied(list[p], last, ts)
  <2>1. list' = [list EXCEPT ![p] = new]
    BY <1>7 DEF Deliver
  <2>2. list[p] \in Seq(Positions) /\ StrictlyDescending(list[p])
    BY <1>1 DEF PanelListOrdered
  <2>3. last # Null => \A i \in DOMAIN list[p], j \in DOMAIN ts : list[p][i] > ts[j]
    BY <1>7
  <2>4. /\ new \in Seq(Positions)
        /\ StrictlyDescending(new)
        /\ RangeOf(new) \subseteq RangeOf(list[p]) \cup RangeOf(ts)
        /\ last = Null /\ list[p] # << >> => new # << >> /\ LastOf(new) = LastOf(list[p])
    BY <2>2, <2>3, AppliedFacts
  <2> HIDE DEF last, new
  <2>5. list' \in [Panels -> Seq(Positions)]
    BY <1>1, <2>1, <2>4
  <2>6. \A q \in Panels : list'[q] = IF q = p THEN new ELSE list[q]
    BY <1>1, <2>1
  <2>7. PanelListOrdered'
    BY <2>4, <2>6 DEF PanelListOrdered
  <2>8. \A q \in Panels : RangeOf(list'[q]) \subseteq RangeOf(transactions')
    BY <2>4, <2>6 DEF PanelShowsWalletTransactions
  <2>9. RequestsInv'
    <3>1. ASSUME NEW q \in Panels
          PROVE  /\ ~open'[q] => list'[q] = << >> /\ \A t \in Threads : fetch'[<<q, t>>] = Idle
                 /\ fetch'[<<q, "adapter">>].last = Null
      <4>1. fetch[s] # Idle
        BY DEF Idle
      <4>2. open[p]
        BY <4>1, SlotFacts DEF RequestsInv
      <4>3. q # p => \A t \in Threads : fetch'[<<q, t>>] = fetch[<<q, t>>]
        BY <1>4, SlotFacts
      <4>4. fetch[<<q, "adapter">>].last = Null
        BY DEF RequestsInv
      <4>5. fetch'[<<q, "adapter">>].last = fetch[<<q, "adapter">>].last
        BY <1>4, <1>5, <1>7, SlotFacts DEF Threads
      <4> QED BY <2>6, <4>2, <4>3, <4>4, <4>5 DEF RequestsInv
    <3>2. ASSUME NEW q \in Panels,
                 fetch'[<<q, "ui">>].pc \in {"checked", "queued", "sent"},
                 fetch'[<<q, "ui">>].last # Null
          PROVE  list'[q] # << >> /\ LastOf(list'[q]) = fetch'[<<q, "ui">>].last
      <4>1. <<q, "ui">> \in Slots
        BY SlotFacts DEF Threads
      <4>2. <<q, "ui">> # s /\ fetch'[<<q, "ui">>] = fetch[<<q, "ui">>]
        BY <1>4, <1>5, <3>2, <4>1
      <4>3. list[q] # << >> /\ LastOf(list[q]) = fetch[<<q, "ui">>].last
        BY <3>2, <4>2 DEF RequestsInv
      <4>4. CASE q # p
        BY <2>6, <4>2, <4>3, <4>4
      <4>5. CASE q = p
        <5>1. th = "adapter"
          BY <4>2, <4>5 DEF Threads
        <5>2. last = Null
          BY <5>1 DEF RequestsInv, last
        <5> QED BY <2>4, <2>6, <4>2, <4>3, <4>5, <5>2
      <4> QED BY <4>4, <4>5
    <3>3. \A r \in Slots :
            /\ fetch'[r].pc \in {"checked", "queued", "sent"} => lastTransactionId' >= 1
            /\ fetch'[r].pc = "sent" => fetch'[r].lt \in 1..lastTransactionId'
            /\ fetch'[r].pc = "sent" /\ fetch'[r].last # Null => fetch'[r].lt = fetch'[r].last
      BY <1>4, <1>5 DEF RequestsInv
    <3>4. \A r \in Callers :
            fetch'[r].pc \in {"queued", "sent"} /\ fetch'[r].last # Null
              => fetch'[r].last \in RangeOf(transactions')
      BY <1>4, <1>7, SlotFacts DEF RequestsInv
    <3> QED BY <3>1, <3>2, <3>3, <3>4 DEF RequestsInv
  <2> QED BY <1>3, <2>5, <2>7, <2>8, <2>9
<1> QED BY <1>6, <1>7

\* The panels that call GetTransactions(null): each slot stays as it is, or is
\* an adapter slot of one of them that queues a request, for a wallet that has
\* a state.
LEMMA QueueNewestFacts ==
  ASSUME fetch \in [Slots -> FetchType], NEW P \in SUBSET Panels,
         NEW loaded, NEW lastId \in Nat, NEW conn
  PROVE  /\ LoadedAfter(P, loaded, lastId) \in [Panels -> BOOLEAN]
         /\ QueueNewest(P, loaded, lastId, conn) \in [Slots -> FetchType]
         /\ \A s \in Slots :
              \/ QueueNewest(P, loaded, lastId, conn)[s] = fetch[s]
              \/ /\ QueueNewest(P, loaded, lastId, conn)[s] = Queued(Null)
                 /\ s[2] = "adapter" /\ s[1] \in P
                 /\ lastId >= 1
<1>1. LoadedAfter(P, loaded, lastId) \in [Panels -> BOOLEAN]
  BY Zenon DEF LoadedAfter, StateNone
<1>2. Queued(Null) \in FetchType
  BY DEF Queued, FetchType, Null
<1>3. QueueNewest(P, loaded, lastId, conn) \in [Slots -> FetchType]
  BY <1>2 DEF QueueNewest
<1>4. ASSUME NEW s \in Slots, s[2] = "adapter", s[1] \in P,
             MayFetch(s[1], LoadedAfter(P, loaded, lastId)[s[1]], conn)
      PROVE  lastId >= 1
  <2>1. ~LoadedAfter(P, loaded, lastId)[s[1]]
    BY <1>4 DEF MayFetch
  <2>2. ~StateNone(lastId)
    BY <1>4, <2>1, Zenon DEF LoadedAfter
  <2> QED BY <2>2 DEF StateNone
<1> QED BY <1>1, <1>3, <1>4 DEF QueueNewest

\* Queueing requests for the newest page keeps the requests' invariant.
LEMMA QueueInv ==
  ASSUME TypeOK, RequestsInv, lastTransactionId' \in Nat,
         lastTransactionId' >= lastTransactionId,
         open' = open, list' = list, transactions' = transactions,
         \A s \in Slots :
           \/ fetch'[s] = fetch[s]
           \/ /\ fetch'[s] = Queued(Null)
              /\ s \in Callers \/ (s[2] = "adapter" /\ s[1] \in OpenPanels)
              /\ lastTransactionId' >= 1
  PROVE  RequestsInv'
<1>1. lastTransactionId \in Nat
  BY DEF TypeOK, Positions
<1>2. Queued(Null).last = Null /\ Queued(Null).pc = "queued"
  BY DEF Queued
<1>3. \A p \in Panels : fetch'[<<p, "ui">>] = fetch[<<p, "ui">>]
  BY SlotFacts DEF Threads
<1>4. \A p \in Panels : open[p] \/ fetch'[<<p, "adapter">>] = fetch[<<p, "adapter">>]
  BY SlotFacts DEF Threads, OpenPanels
<1>5. \A p \in Panels : fetch'[<<p, "adapter">>].last = Null
  BY <1>2, SlotFacts DEF Threads, RequestsInv
<1>6. \A p \in Panels : ~open[p] =>
        list[p] = << >> /\ \A th \in Threads : fetch'[<<p, th>>] = Idle
  BY <1>3, <1>4 DEF RequestsInv, Threads
<1>7. \A s \in Slots :
        /\ fetch'[s].pc \in {"checked", "queued", "sent"} => lastTransactionId' >= 1
        /\ fetch'[s].pc = "sent" => fetch'[s].lt \in 1..lastTransactionId'
        /\ fetch'[s].pc = "sent" /\ fetch'[s].last # Null => fetch'[s].lt = fetch'[s].last
  <2> SUFFICES ASSUME NEW s \in Slots
               PROVE  /\ fetch'[s].pc \in {"checked", "queued", "sent"} => lastTransactionId' >= 1
                      /\ fetch'[s].pc = "sent" => fetch'[s].lt \in 1..lastTransactionId'
                      /\ fetch'[s].pc = "sent" /\ fetch'[s].last # Null => fetch'[s].lt = fetch'[s].last
    OBVIOUS
  <2>1. CASE fetch'[s] = fetch[s]
    BY <1>1, <2>1 DEF RequestsInv
  <2>2. CASE fetch'[s] = Queued(Null) /\ lastTransactionId' >= 1
    BY <1>2, <2>2
  <2> QED BY <2>1, <2>2
<1>8. \A s \in Callers :
        fetch'[s].pc \in {"queued", "sent"} /\ fetch'[s].last # Null
          => fetch'[s].last \in RangeOf(transactions)
  BY <1>2, SlotFacts DEF RequestsInv
<1> QED BY <1>3, <1>5, <1>6, <1>7, <1>8 DEF RequestsInv

\* One request moves on and the lists stay: what the new record must satisfy.
LEMMA SlotInv ==
  ASSUME IInv, NEW s \in Slots, NEW r \in FetchType, fetch' = [fetch EXCEPT ![s] = r],
         open' = open, list' = list, transactions' = transactions,
         lastTransactionId' = lastTransactionId,
         s \notin Callers => open[s[1]],
         s[2] = "adapter" => r.last = Null,
         r.pc \in {"checked", "queued", "sent"} => lastTransactionId >= 1,
         r.pc = "sent" => r.lt \in 1..lastTransactionId,
         r.pc = "sent" /\ r.last # Null => r.lt = r.last,
         r.pc \in {"checked", "queued", "sent"} /\ r.last # Null =>
           IF s \in Callers THEN r.last \in RangeOf(transactions)
           ELSE list[s[1]] # << >> /\ LastOf(list[s[1]]) = r.last
  PROVE  fetch' \in [Slots -> FetchType] /\ RequestsInv'
<1> USE DEF IInv
<1>1. fetch \in [Slots -> FetchType]
  BY DEF TypeOK
<1>2. fetch' \in [Slots -> FetchType]
  BY <1>1
<1>3. fetch'[s] = r /\ \A q \in Slots : q # s => fetch'[q] = fetch[q]
  BY <1>1
<1>4. ASSUME NEW p \in Panels
      PROVE  /\ ~open'[p] => list'[p] = << >> /\ \A th \in Threads : fetch'[<<p, th>>] = Idle
             /\ fetch'[<<p, "adapter">>].last = Null
             /\ fetch'[<<p, "ui">>].pc \in {"checked", "queued", "sent"}
                  /\ fetch'[<<p, "ui">>].last # Null
                  => list'[p] # << >> /\ LastOf(list'[p]) = fetch'[<<p, "ui">>].last
  <2>1. ASSUME ~open[p]
        PROVE  list[p] = << >> /\ \A th \in Threads : fetch'[<<p, th>>] = Idle
    <3>1. \A th \in Threads : <<p, th>> # s
      BY <2>1, SlotFacts
    <3> QED BY <1>3, <2>1, <3>1, SlotFacts DEF RequestsInv
  <2>2. fetch'[<<p, "adapter">>].last = Null
    <3>1. CASE <<p, "adapter">> = s
      BY <1>3, <3>1
    <3>2. CASE <<p, "adapter">> # s
      BY <1>3, <3>2, SlotFacts DEF RequestsInv, Threads
    <3> QED BY <3>1, <3>2
  <2>3. ASSUME fetch'[<<p, "ui">>].pc \in {"checked", "queued", "sent"},
               fetch'[<<p, "ui">>].last # Null
        PROVE  list[p] # << >> /\ LastOf(list[p]) = fetch'[<<p, "ui">>].last
    <3>0. <<p, "ui">> \in Slots /\ <<p, "ui">> \notin Callers
      BY SlotFacts DEF Threads
    <3>1. CASE <<p, "ui">> = s
      BY <1>3, <2>3, <3>0, <3>1
    <3>2. CASE <<p, "ui">> # s
      BY <1>3, <2>3, <3>0, <3>2 DEF RequestsInv
    <3> QED BY <3>1, <3>2
  <2> QED BY <2>1, <2>2, <2>3
<1>5. \A q \in Slots :
        /\ fetch'[q].pc \in {"checked", "queued", "sent"} => lastTransactionId' >= 1
        /\ fetch'[q].pc = "sent" => fetch'[q].lt \in 1..lastTransactionId'
        /\ fetch'[q].pc = "sent" /\ fetch'[q].last # Null => fetch'[q].lt = fetch'[q].last
  BY <1>3 DEF RequestsInv
<1>6. \A q \in Callers :
        fetch'[q].pc \in {"queued", "sent"} /\ fetch'[q].last # Null
          => fetch'[q].last \in RangeOf(transactions')
  BY <1>3, SlotFacts DEF RequestsInv
<1> QED BY <1>2, <1>4, <1>5, <1>6 DEF RequestsInv

\* A request in progress belongs to an open panel.
LEMMA BusyIsOpen ==
  ASSUME IInv, NEW s \in Slots, s \notin Callers, fetch[s].pc # "idle"
  PROVE  /\ s[1] \in Panels /\ open[s[1]]
         /\ s = <<s[1], "ui">> \/ s = <<s[1], "adapter">>
<1> PICK p \in Panels, th \in Threads : s = <<p, th>>
  BY SlotFacts
<1>1. fetch[s] # Idle
  BY DEF Idle
<1> QED BY <1>1 DEF IInv, RequestsInv, Threads

\* When the two lists stay and the newest transaction known does not decrease,
\* so do their orders and their contents.
LEMMA ListsStay ==
  ASSUME IInv, list' = list, transactions' = transactions,
         lastTransactionId' \in Nat, lastTransactionId' >= lastTransactionId
  PROVE  WalletListOrdered' /\ PanelListOrdered' /\ PanelShowsWalletTransactions'
<1>1. WalletListOrdered' /\ PanelListOrdered'
  BY DEF IInv, WalletListOrdered, PanelListOrdered
<1>2. 1..lastTransactionId \subseteq 1..lastTransactionId'
  BY ConstantsAssumption DEF IInv, TypeOK, Positions
<1> QED BY <1>1, <1>2 DEF IInv, PanelShowsWalletTransactions

\* A page from the wallet's list is asked for below a transaction of that list; if
\* a panel asks, it is the panel's last.
LEMMA CachedLast ==
  ASSUME IInv, NEW s \in Slots, fetch[s].pc = "queued", Cached(fetch[s].last)
  PROVE  /\ fetch[s].last # Null
         /\ s \notin Callers =>
              /\ s[1] \in Panels
              /\ \A i \in DOMAIN list[s[1]] :
                   list[s[1]][i] \in Positions /\ list[s[1]][i] >= fetch[s].last
         /\ fetch[s].last \in RangeOf(transactions)
<1> DEFINE last == fetch[s].last
<1>1. TypeOK /\ PanelListOrdered /\ PanelShowsWalletTransactions /\ RequestsInv
  BY DEF IInv
<1>2. /\ last # Null
      /\ s \notin Callers => /\ s[1] \in Panels /\ s = <<s[1], "ui">>
                            /\ list[s[1]] # << >> /\ LastOf(list[s[1]]) = last
  <2>1. last # Null
    BY DEF Cached
  <2>2. s \notin Callers => s[1] \in Panels /\ (s = <<s[1], "ui">> \/ s = <<s[1], "adapter">>)
    BY BusyIsOpen
  <2> QED BY <1>1, <2>1, <2>2 DEF RequestsInv
<1>3. s \notin Callers =>
        /\ \A i \in DOMAIN list[s[1]] : list[s[1]][i] \in Positions /\ list[s[1]][i] >= last
        /\ last \in RangeOf(list[s[1]])
  <2> HAVE s \notin Callers
  <2>1. list[s[1]] \in Seq(Positions) /\ StrictlyDescending(list[s[1]])
    BY <1>1, <1>2 DEF TypeOK, PanelListOrdered
  <2> QED BY <1>2, <2>1, FirstLastFacts
<1>4. last \in RangeOf(transactions)
  BY <1>1, <1>2, <1>3 DEF RequestsInv, PanelShowsWalletTransactions
<1> QED BY <1>2, <1>3, <1>4

\* Every step keeps the invariant.
LEMMA NextInv == IInv /\ [Next]_vars => IInv'
<1> SUFFICES ASSUME IInv, [Next]_vars PROVE IInv'
  OBVIOUS
<1> USE ConstantsAssumption
<1>0. /\ TypeOK /\ WalletListOrdered /\ PanelListOrdered
      /\ PanelShowsWalletTransactions /\ RequestsInv
  BY DEF IInv
<1>a. /\ lastTransactionId \in Nat /\ chain \in Nat /\ chain <= MaxTx
      /\ lastTransactionId <= chain
  BY <1>0 DEF TypeOK, Positions
<1>b. OpenPanels \in SUBSET Panels
  BY DEF OpenPanels
<1>c. fetch \in [Slots -> FetchType]
  BY <1>0 DEF TypeOK
<1>1. CASE Execute
  <2> USE <1>1 DEF Execute
  <2>1. TypeOK'
    <3>1. chain' \in Positions /\ lastTransactionId' \in 0..chain'
      BY <1>a DEF Positions
    <3> QED BY <1>0, <3>1 DEF TypeOK, panelVars
  <2>2. RequestsInv'
    BY <1>0, <1>a, QueueInv DEF panelVars
  <2> QED BY <1>a, <2>1, <2>2, ListsStay DEF IInv, panelVars
<1>2. CASE Connect
  <2>0. /\ allTransactionLoaded' = LoadedAfter(OpenPanels, allTransactionLoaded, lastTransactionId)
        /\ fetch' = QueueNewest(OpenPanels, allTransactionLoaded, lastTransactionId, connected')
        /\ connected' \in BOOLEAN
        /\ UNCHANGED <<chain, lastTransactionId, refreshing, transactions, open, list>>
    BY <1>2, Zenon DEF Connect, NewestRequested
  <2>1. /\ allTransactionLoaded' \in [Panels -> BOOLEAN]
        /\ fetch' \in [Slots -> FetchType]
        /\ \A s \in Slots :
             \/ fetch'[s] = fetch[s]
             \/ fetch'[s] = Queued(Null) /\ s[2] = "adapter" /\ s[1] \in OpenPanels
                /\ lastTransactionId >= 1
    BY <1>a, <1>b, <1>c, <2>0, QueueNewestFacts
  <2>2. TypeOK'
    BY <1>0, <2>0, <2>1 DEF TypeOK
  <2>3. RequestsInv'
    BY <1>0, <1>a, <2>0, <2>1, QueueInv
  <2> QED BY <1>a, <2>0, <2>2, <2>3, ListsStay DEF IInv
<1>3. CASE Disconnect
  <2> USE <1>3 DEF Disconnect, panelVars
  <2>1. TypeOK'
    BY <1>0 DEF TypeOK
  <2>2. RequestsInv'
    BY <1>0, <1>a, QueueInv
  <2> QED BY <1>a, <2>1, <2>2, ListsStay DEF IInv
<1>4. CASE RefreshAdapter
  <2> DEFINE P == {p \in OpenPanels : ~allTransactionLoaded[p] /\ list[p] = << >>}
  <2>0. /\ allTransactionLoaded' = LoadedAfter(P, allTransactionLoaded, lastTransactionId)
        /\ fetch' = QueueNewest(P, allTransactionLoaded, lastTransactionId, connected)
        /\ refreshing' \in BOOLEAN
        /\ UNCHANGED <<chain, lastTransactionId, connected, transactions, open, list>>
    BY <1>4, Zenon DEF RefreshAdapter, NewestRequested
  <2>1. P \in SUBSET Panels /\ P \subseteq OpenPanels
    BY <1>b
  <2> HIDE DEF P
  <2>2. /\ allTransactionLoaded' \in [Panels -> BOOLEAN]
        /\ fetch' \in [Slots -> FetchType]
        /\ \A s \in Slots :
             \/ fetch'[s] = fetch[s]
             \/ fetch'[s] = Queued(Null) /\ s[2] = "adapter" /\ s[1] \in P
                /\ lastTransactionId >= 1
    BY <1>a, <1>c, <2>0, <2>1, QueueNewestFacts
  <2>3. TypeOK'
    BY <1>0, <2>0, <2>2 DEF TypeOK
  <2>4. RequestsInv'
    BY <1>0, <1>a, <2>0, <2>1, <2>2, QueueInv
  <2> QED BY <1>a, <2>0, <2>3, <2>4, ListsStay DEF IInv
<1>5. CASE WalletUpdate
  <2>1. CASE connected /\ StateDiffers
    <3> DEFINE loaded == [p \in Panels |-> allTransactionLoaded[p] /\ ~open[p]]
               q == QueueNewest(OpenPanels, loaded, chain, connected)
    <3>1. /\ lastTransactionId' = chain
          /\ allTransactionLoaded' = LoadedAfter(OpenPanels, loaded, chain)
          /\ fetch' = SupportRequested(q)
          /\ refreshing' = FALSE
          /\ UNCHANGED <<chain, connected, transactions, open, list>>
      BY <1>5, <2>1 DEF WalletUpdate
    <3> HIDE DEF loaded
    <3>2. /\ LoadedAfter(OpenPanels, loaded, chain) \in [Panels -> BOOLEAN]
          /\ q \in [Slots -> FetchType]
          /\ \A s \in Slots :
               \/ q[s] = fetch[s]
               \/ q[s] = Queued(Null) /\ s[2] = "adapter" /\ s[1] \in OpenPanels
                  /\ chain >= 1
      <4> DEFINE r == QueueNewest(OpenPanels, loaded, chain, connected)
      <4>1. LoadedAfter(OpenPanels, loaded, chain) \in [Panels -> BOOLEAN]
        BY <1>a, <1>b, <1>c, QueueNewestFacts
      <4>2. r \in [Slots -> FetchType]
        BY <1>a, <1>b, <1>c, QueueNewestFacts
      <4>3. \A s \in Slots :
              \/ r[s] = fetch[s]
              \/ r[s] = Queued(Null) /\ s[2] = "adapter" /\ s[1] \in OpenPanels
                 /\ chain >= 1
        BY <1>a, <1>b, <1>c, QueueNewestFacts
      <4> HIDE DEF r
      <4>4. q = r
        BY DEF q, r
      <4> QED BY <4>1, <4>2, <4>3, <4>4
    <3>3. allTransactionLoaded' \in [Panels -> BOOLEAN]
      BY <3>1, <3>2
    <3> HIDE DEF q
    <3>4. chain >= 1
      BY <1>0 DEF TypeOK, Positions
    <3>5. Queued(Null) \in FetchType
      BY DEF Queued, FetchType, Null
    <3>6. fetch' \in [Slots -> FetchType]
      BY <3>1, <3>2, <3>5 DEF SupportRequested
    <3>7. \A s \in Slots : s[1] = "support" => s \in Callers
      BY DEF Slots, Callers
    <3>8. \A s \in Slots :
            \/ fetch'[s] = fetch[s]
            \/ fetch'[s] = Queued(Null) /\ (s \in Callers \/ (s[2] = "adapter" /\ s[1] \in OpenPanels))
      BY <3>1, <3>2, <3>7 DEF SupportRequested
    <3>9. TypeOK'
      <4>1. lastTransactionId' \in 0..chain'
        BY <1>a, <3>1
      <4> QED BY <1>0, <3>1, <3>3, <3>6, <4>1 DEF TypeOK
    <3>10. RequestsInv'
      BY <1>0, <1>a, <3>1, <3>4, <3>8, QueueInv
    <3> QED BY <1>a, <3>1, <3>9, <3>10, ListsStay DEF IInv
  <2>2. CASE ~(connected /\ StateDiffers)
    <3>1. /\ refreshing' = FALSE
          /\ UNCHANGED <<chain, connected, transactions, open, list, lastTransactionId,
                         allTransactionLoaded, fetch>>
      BY <1>5, <2>2 DEF WalletUpdate
    <3>2. TypeOK'
      BY <1>0, <3>1 DEF TypeOK
    <3>3. RequestsInv'
      BY <1>0, <1>a, <3>1, QueueInv
    <3> QED BY <1>a, <3>1, <3>2, <3>3, ListsStay DEF IInv
  <2> QED BY <2>1, <2>2
<1>6. CASE WalletUpdateFails
  <2> USE <1>6 DEF WalletUpdateFails, panelVars
  <2>1. TypeOK'
    BY <1>0 DEF TypeOK
  <2>2. RequestsInv'
    BY <1>0, <1>a, QueueInv
  <2> QED BY <1>a, <2>1, <2>2, ListsStay DEF IInv
<1>7. CASE LoadButton
  <2> USE <1>7 DEF LoadButton, walletVars, panelVars
  <2> DEFINE s == <<"button", "caller">>
             r == Queued(LastOf(transactions))
  <2>1. s \in Slots /\ s \in Callers /\ s[2] # "adapter"
    BY DEF Slots, Callers
  <2>2. fetch' = [fetch EXCEPT ![s] = r]
    OBVIOUS
  <2>3. transactions \in Seq(Positions)
    BY <1>0 DEF TypeOK
  <2>4. \/ LastOf(transactions) = Null
        \/ LastOf(transactions) \in Positions /\ LastOf(transactions) \in RangeOf(transactions)
    BY <1>0, <2>3, FirstLastFacts DEF WalletListOrdered, LastOf
  <2>5. /\ r \in FetchType /\ r.pc = "queued" /\ r.last = LastOf(transactions)
    BY <2>4 DEF Queued, FetchType, Null
  <2>6. lastTransactionId >= 1
    BY <1>a DEF StateNone
  <2> HIDE DEF s, r
  <2>7. fetch' \in [Slots -> FetchType] /\ RequestsInv'
    BY <2>1, <2>2, <2>4, <2>5, <2>6, SlotInv
  <2>8. TypeOK'
    BY <1>0, <2>7 DEF TypeOK
  <2> QED BY <1>a, <2>7, <2>8, ListsStay DEF IInv
<1>8. ASSUME NEW p \in Panels, OpenPanel(p)
      PROVE  IInv'
  <2>0. <<p, "ui">> \in Slots /\ <<p, "adapter">> \in Slots
    BY SlotFacts DEF Threads
  <2>1. /\ ~open[p]
        /\ open' = [open EXCEPT ![p] = TRUE]
        /\ list' = [list EXCEPT ![p] = transactions]
        /\ UNCHANGED walletVars
    BY <1>8 DEF OpenPanel
  <2>2. /\ allTransactionLoaded' \in [Panels -> BOOLEAN]
        /\ open' \in [Panels -> BOOLEAN]
    <3>1. open \in [Panels -> BOOLEAN] /\ allTransactionLoaded \in [Panels -> BOOLEAN]
      BY <1>0 DEF TypeOK
    <3>2. open' \in [Panels -> BOOLEAN]
      BY <2>1, <3>1
    <3>3. allTransactionLoaded' \in [Panels -> BOOLEAN]
      <4>1. (allTransactionLoaded[p] \/ StateNone(lastTransactionId)) \in BOOLEAN
        BY Zenon
      <4> QED BY <1>8, <3>1, <4>1 DEF OpenPanel
    <3> QED BY <3>2, <3>3
  <2>3. \/ fetch' = fetch
        \/ fetch' = [fetch EXCEPT ![<<p, "ui">>] = Queued(Null)] /\ lastTransactionId >= 1
    <3>1. CASE transactions = << >> /\ connected
      <4>1. allTransactionLoaded' = [allTransactionLoaded EXCEPT ![p] = @ \/ StateNone(lastTransactionId)]
        BY <1>8, <3>1 DEF OpenPanel
      <4>2. fetch' = IF MayFetch(p, allTransactionLoaded'[p], connected)
                     THEN [fetch EXCEPT ![<<p, "ui">>] = Queued(Null)] ELSE fetch
        BY <1>8, <3>1 DEF OpenPanel
      <4>3. MayFetch(p, allTransactionLoaded'[p], connected) => ~StateNone(lastTransactionId)
        <5>1. allTransactionLoaded \in [Panels -> BOOLEAN]
          BY <1>0 DEF TypeOK
        <5> QED BY <4>1, <5>1, Zenon DEF MayFetch
      <4>4. ~StateNone(lastTransactionId) => lastTransactionId >= 1
        BY <1>a DEF StateNone
      <4> QED BY <4>2, <4>3, <4>4
    <3>2. CASE ~(transactions = << >> /\ connected)
      BY <1>8, <3>2 DEF OpenPanel
    <3> QED BY <3>1, <3>2
  <2>4. /\ Queued(Null) \in FetchType
        /\ Queued(Null).pc = "queued" /\ Queued(Null).last = Null
    BY DEF Queued, FetchType, Null
  <2>5. fetch' \in [Slots -> FetchType]
    BY <1>c, <2>3, <2>4
  <2>6. \A s \in Slots :
          \/ fetch'[s] = fetch[s]
          \/ s = <<p, "ui">> /\ fetch'[s] = Queued(Null) /\ lastTransactionId >= 1
    <3> TAKE s \in Slots
    <3>1. CASE fetch' = fetch
      BY <3>1, Zenon
    <3>2. CASE fetch' = [fetch EXCEPT ![<<p, "ui">>] = Queued(Null)] /\ lastTransactionId >= 1
      <4>1. s = <<p, "ui">> => fetch'[s] = Queued(Null)
        BY <1>c, <2>0, <3>2
      <4>2. s # <<p, "ui">> => fetch'[s] = fetch[s]
        BY <1>c, <2>0, <3>2
      <4> QED BY <3>2, <4>1, <4>2, Zenon
    <3> QED BY <2>3, <3>1, <3>2, Zenon
  <2>7. transactions \in Seq(Positions) /\ list \in [Panels -> Seq(Positions)]
    BY <1>0 DEF TypeOK
  <2>8. TypeOK'
    BY <1>0, <2>1, <2>2, <2>5, <2>7 DEF TypeOK, walletVars
  <2>9. \A q \in Panels : list'[q] = IF q = p THEN transactions ELSE list[q]
    BY <2>1, <2>7
  <2>10. WalletListOrdered' /\ PanelListOrdered' /\ PanelShowsWalletTransactions'
    BY <1>0, <2>1, <2>9 DEF WalletListOrdered, PanelListOrdered,
         PanelShowsWalletTransactions, walletVars
  <2>11. RequestsInv'
    <3>1. open \in [Panels -> BOOLEAN]
      BY <1>0 DEF TypeOK
    <3>2. fetch[<<p, "ui">>] = Idle /\ Idle.pc = "idle"
      BY <1>0, <2>1 DEF RequestsInv, Threads, Idle
    <3>3. ASSUME NEW q \in Panels
          PROVE  /\ ~open'[q] => list'[q] = << >> /\ \A th \in Threads : fetch'[<<q, th>>] = Idle
                 /\ fetch'[<<q, "adapter">>].last = Null
                 /\ fetch'[<<q, "ui">>].pc \in {"checked", "queued", "sent"}
                      /\ fetch'[<<q, "ui">>].last # Null
                      => list'[q] # << >> /\ LastOf(list'[q]) = fetch'[<<q, "ui">>].last
      <4>0. <<q, "ui">> \in Slots /\ <<q, "adapter">> \in Slots
        BY SlotFacts DEF Threads
      <4>1. fetch'[<<q, "adapter">>] = fetch[<<q, "adapter">>]
        BY <2>6, <4>0
      <4>2. CASE q = p
        <5>1. open'[q]
          BY <2>1, <3>1, <4>2
        <5>2. \/ fetch'[<<q, "ui">>].pc = "idle"
              \/ fetch'[<<q, "ui">>].last = Null
          BY <2>4, <2>6, <3>2, <4>0, <4>2
        <5> QED BY <1>0, <4>1, <5>1, <5>2 DEF RequestsInv
      <4>3. CASE q # p
        <5>1. fetch'[<<q, "ui">>] = fetch[<<q, "ui">>] /\ list'[q] = list[q] /\ open'[q] = open[q]
          BY <2>1, <2>6, <2>9, <3>1, <4>0, <4>3
        <5> QED BY <1>0, <4>1, <5>1 DEF RequestsInv, Threads
      <4> QED BY <4>2, <4>3
    <3>4. \A s \in Slots :
            /\ fetch'[s].pc \in {"checked", "queued", "sent"} => lastTransactionId' >= 1
            /\ fetch'[s].pc = "sent" => fetch'[s].lt \in 1..lastTransactionId'
            /\ fetch'[s].pc = "sent" /\ fetch'[s].last # Null => fetch'[s].lt = fetch'[s].last
      BY <1>0, <2>1, <2>4, <2>6 DEF RequestsInv, walletVars
    <3>5. \A s \in Callers : fetch'[s] = fetch[s]
      BY <2>6, SlotFacts DEF Threads
    <3> QED BY <1>0, <2>1, <3>3, <3>4, <3>5 DEF RequestsInv, walletVars
  <2> QED BY <2>8, <2>10, <2>11 DEF IInv
<1>9. ASSUME NEW p \in Panels, Scroll(p)
      PROVE  IInv'
  <2>0. <<p, "ui">> \in Slots /\ <<p, "ui">> \notin Callers
    BY SlotFacts DEF Threads
  <2>1. /\ open[p]
        /\ allTransactionLoaded' = [allTransactionLoaded EXCEPT ![p] = @ \/ StateNone(lastTransactionId)]
        /\ fetch' = IF MayFetch(p, allTransactionLoaded'[p], connected)
                    THEN [fetch EXCEPT ![<<p, "ui">>] = Checked(LastOf(list[p]))] ELSE fetch
        /\ UNCHANGED <<walletVars, open, list>>
    BY <1>9 DEF Scroll
  <2>2. allTransactionLoaded \in [Panels -> BOOLEAN]
    BY <1>0 DEF TypeOK
  <2>3. allTransactionLoaded' \in [Panels -> BOOLEAN]
    <3>1. (allTransactionLoaded[p] \/ StateNone(lastTransactionId)) \in BOOLEAN
      BY Zenon
    <3> QED BY <2>1, <2>2, <3>1
  <2>4. MayFetch(p, allTransactionLoaded'[p], connected) => lastTransactionId >= 1
    <3>1. MayFetch(p, allTransactionLoaded'[p], connected) => ~StateNone(lastTransactionId)
      BY <2>1, <2>2, Zenon DEF MayFetch
    <3> QED BY <1>a, <3>1 DEF StateNone
  <2>5. fetch' \in [Slots -> FetchType] /\ RequestsInv'
    <3>0. UNCHANGED <<open, list, transactions, lastTransactionId>>
      BY <2>1 DEF walletVars
    <3>1. CASE fetch' = fetch
      BY <1>0, <1>a, <1>c, <3>0, <3>1, QueueInv
    <3>2. CASE fetch' = [fetch EXCEPT ![<<p, "ui">>] = Checked(LastOf(list[p]))] /\ lastTransactionId >= 1
      <4> DEFINE s == <<p, "ui">>
                 r == Checked(LastOf(list[p]))
      <4>1. list[p] \in Seq(Positions) /\ StrictlyDescending(list[p])
        BY <1>0 DEF TypeOK, PanelListOrdered
      <4>2. \/ LastOf(list[p]) = Null
            \/ LastOf(list[p]) \in Positions /\ list[p] # << >>
        BY <4>1, FirstLastFacts DEF LastOf
      <4>3. r \in FetchType /\ r.pc = "checked" /\ r.last = LastOf(list[p])
        BY <4>2 DEF Checked, FetchType, Null
      <4>4. s \in Slots /\ s \notin Callers /\ s[1] = p /\ s[2] # "adapter"
        BY <2>0
      <4>5. fetch' = [fetch EXCEPT ![s] = r]
        BY <3>2
      <4> HIDE DEF s, r
      <4>6. r.last # Null => list[p] # << >>
        BY <4>2, <4>3
      <4> QED BY <2>1, <3>2, <4>3, <4>4, <4>5, <4>6, SlotInv DEF walletVars
    <3> QED BY <2>1, <2>4, <3>1, <3>2, Zenon
  <2>6. TypeOK'
    BY <1>0, <2>1, <2>3, <2>5 DEF TypeOK, walletVars
  <2> QED BY <1>a, <2>1, <2>5, <2>6, ListsStay DEF IInv, walletVars
<1>10. ASSUME NEW p \in Panels, BeginUpdate(p)
       PROVE  IInv'
  <2> DEFINE s == <<p, "ui">>
             r == Queued(fetch[s].last)
  <2>1. s \in Slots /\ s \notin Callers /\ s[1] = p /\ s[2] # "adapter"
    BY SlotFacts DEF Threads
  <2>2. /\ fetch[s].pc = "checked" /\ fetch' = [fetch EXCEPT ![s] = r]
        /\ UNCHANGED <<walletVars, panelVars>>
    BY <1>10 DEF BeginUpdate
  <2>3. r \in FetchType /\ r.pc = "queued" /\ r.last = fetch[s].last
    BY <1>c, <2>1 DEF Queued, FetchType
  <2>4. /\ open[p] /\ lastTransactionId >= 1
        /\ fetch[s].last # Null => list[p] # << >> /\ LastOf(list[p]) = fetch[s].last
    <3>1. open[s[1]]
      BY <2>1, <2>2, BusyIsOpen
    <3> QED BY <1>0, <2>1, <2>2, <3>1 DEF RequestsInv
  <2> HIDE DEF s, r
  <2>5. fetch' \in [Slots -> FetchType] /\ RequestsInv'
    BY <2>1, <2>2, <2>3, <2>4, SlotInv DEF walletVars, panelVars
  <2>6. TypeOK'
    BY <1>0, <2>2, <2>5 DEF TypeOK, walletVars, panelVars
  <2> QED BY <1>a, <2>2, <2>5, <2>6, ListsStay DEF IInv, walletVars, panelVars
<1>11. ASSUME NEW s \in Slots, ServeCached(s)
       PROVE  IInv'
  <2> DEFINE last == fetch[s].last
             index == GetIndex(transactions, last)
             n == Min2(index + PageSize, Len(transactions))
             ts == CachedPage(last)
  <2>1. /\ fetch[s].pc = "queued" /\ Cached(last) /\ Deliver(s, ts)
        /\ UNCHANGED <<walletVars, open, allTransactionLoaded>>
    BY <1>11 DEF ServeCached
  <2>2. transactions \in Seq(Positions) /\ StrictlyDescending(transactions)
    BY <1>0 DEF TypeOK, WalletListOrdered
  <2>3. /\ last # Null
        /\ s \notin Callers =>
             /\ s[1] \in Panels
             /\ \A i \in DOMAIN list[s[1]] : list[s[1]][i] \in Positions /\ list[s[1]][i] >= last
        /\ last \in RangeOf(transactions)
    BY <2>1, CachedLast
  <2>4. index \in DOMAIN transactions /\ transactions[index] = last
    BY <2>3 DEF RangeOf, GetIndex
  <2>5. n \in Nat /\ n <= Len(transactions) /\ index \in Nat /\ index + 1 >= 1
    BY <2>2, <2>4 DEF Min2
  <2>6. ts = SubSeq(transactions, index + 1, n)
    BY DEF CachedPage
  <2> HIDE DEF last, index, n, ts
  <2>7. /\ ts \in Seq(Positions)
        /\ \A i \in DOMAIN ts : i + index \in DOMAIN transactions /\ ts[i] = transactions[i + index]
                              /\ i \in Nat /\ i >= 1
    BY <2>2, <2>5, <2>6
  <2>8. StrictlyDescending(ts)
    BY <2>2, <2>5, <2>7 DEF StrictlyDescending
  <2>9. RangeOf(ts) \subseteq RangeOf(transactions)
    BY <2>7 DEF RangeOf
  <2>10. \A j \in DOMAIN ts : ts[j] < last /\ ts[j] \in Int
    <3> TAKE j \in DOMAIN ts
    <3>1. index < j + index /\ j + index \in DOMAIN transactions
      BY <2>5, <2>7
    <3>2. transactions[index] > transactions[j + index]
      BY <2>2, <2>4, <3>1 DEF StrictlyDescending
    <3>3. ts[j] \in Positions /\ last \in Positions
      BY <2>2, <2>4, <2>7
    <3> QED BY <2>4, <2>7, <3>2, <3>3 DEF Positions
  <2>11. s \notin Callers => \A i \in DOMAIN list[s[1]], j \in DOMAIN ts : list[s[1]][i] > ts[j]
    <3>1. last \in Int
      BY <2>2, <2>4 DEF Positions
    <3> QED BY <2>3, <2>10, <3>1 DEF Positions
  <2>12. UNCHANGED <<transactions, open, lastTransactionId>>
    BY <2>1 DEF walletVars
  <2>13. /\ list' \in [Panels -> Seq(Positions)]
         /\ fetch' \in [Slots -> FetchType]
         /\ PanelListOrdered'
         /\ \A p \in Panels : RangeOf(list'[p]) \subseteq RangeOf(transactions')
         /\ RequestsInv'
    BY <2>1, <2>3, <2>7, <2>8, <2>9, <2>11, <2>12, DeliverInv DEF last
  <2>14. TypeOK'
    BY <1>0, <2>1, <2>13 DEF TypeOK, walletVars
  <2>15. WalletListOrdered' /\ PanelShowsWalletTransactions'
    BY <1>0, <2>12, <2>13 DEF WalletListOrdered, PanelShowsWalletTransactions
  <2> QED BY <2>13, <2>14, <2>15 DEF IInv
<1>12. ASSUME NEW s \in Slots, SendQuery(s)
       PROVE  IInv'
  <2> DEFINE last == fetch[s].last
             r == Sent(last, IF last = Null THEN lastTransactionId ELSE last)
  <2>1. /\ fetch[s].pc = "queued" /\ fetch' = [fetch EXCEPT ![s] = r]
        /\ UNCHANGED <<walletVars, panelVars>>
    BY <1>12 DEF SendQuery
  <2>2. /\ lastTransactionId >= 1
        /\ s[2] = "adapter" => last = Null
        /\ s \notin Callers => open[s[1]]
        /\ last # Null => IF s \in Callers THEN last \in RangeOf(transactions)
                          ELSE list[s[1]] # << >> /\ LastOf(list[s[1]]) = last
    <3>1. CASE s \in Callers
      <4>1. s[2] # "adapter"
        BY <3>1 DEF Callers
      <4> QED BY <1>0, <2>1, <3>1, <4>1 DEF RequestsInv
    <3>2. CASE s \notin Callers
      <4>1. s[1] \in Panels /\ open[s[1]] /\ (s = <<s[1], "ui">> \/ s = <<s[1], "adapter">>)
        BY <2>1, <3>2, BusyIsOpen
      <4>2. lastTransactionId >= 1
        BY <1>0, <2>1 DEF RequestsInv
      <4>3. PICK p \in Panels, th \in Threads : s = <<p, th>>
        BY <3>2, SlotFacts
      <4>4. CASE th = "ui"
        <5>1. s[2] # "adapter" /\ s[1] = p /\ s = <<p, "ui">>
          BY <4>3, <4>4
        <5>2. last # Null => list[p] # << >> /\ LastOf(list[p]) = last
          BY <1>0, <2>1, <5>1 DEF RequestsInv
        <5> QED BY <3>2, <4>1, <4>2, <5>1, <5>2
      <4>5. CASE th = "adapter"
        <5>1. last = Null
          BY <1>0, <4>3, <4>5 DEF RequestsInv
        <5> QED BY <4>1, <4>2, <5>1
      <4> QED BY <4>4, <4>5 DEF Threads
    <3> QED BY <3>1, <3>2
  <2>3. last # Null => last \in 1..lastTransactionId
    <3> HAVE last # Null
    <3>1. CASE s \in Callers
      BY <1>0, <2>2, <3>1 DEF PanelShowsWalletTransactions
    <3>2. CASE s \notin Callers
      <4>1. s[1] \in Panels
        BY <2>1, <3>2, BusyIsOpen
      <4>2. list[s[1]] \in Seq(Positions) /\ StrictlyDescending(list[s[1]])
        BY <1>0, <4>1 DEF TypeOK, PanelListOrdered
      <4>3. last \in RangeOf(list[s[1]])
        BY <2>2, <3>2, <4>2, FirstLastFacts
      <4> QED BY <1>0, <4>1, <4>3 DEF PanelShowsWalletTransactions
    <3> QED BY <3>1, <3>2
  <2>4. last \in Positions \cup {Null}
    BY <1>c DEF FetchType
  <2>5. /\ r \in FetchType /\ r.pc = "sent" /\ r.last = last
        /\ r.lt \in 1..lastTransactionId
        /\ last # Null => r.lt = last
    <3> DEFINE lt == IF last = Null THEN lastTransactionId ELSE last
    <3>1. lt \in 1..lastTransactionId /\ lt \in Positions
      BY <1>a, <2>2, <2>3 DEF Positions
    <3>2. r = [pc |-> "sent", last |-> last, lt |-> lt]
      BY DEF Sent
    <3> HIDE DEF lt, last, r
    <3>3. r \in FetchType /\ r.pc = "sent" /\ r.last = last /\ r.lt = lt
      BY <2>4, <3>1, <3>2 DEF FetchType
    <3> QED BY <3>1, <3>3 DEF lt
  <2> HIDE DEF last, r
  <2>6. UNCHANGED <<open, list, transactions, lastTransactionId>>
    BY <2>1 DEF walletVars, panelVars
  <2>7. fetch' \in [Slots -> FetchType] /\ RequestsInv'
    BY <2>1, <2>2, <2>5, <2>6, SlotInv
  <2>8. TypeOK'
    BY <1>0, <2>1, <2>7 DEF TypeOK, walletVars, panelVars
  <2> QED BY <1>a, <2>6, <2>7, <2>8, ListsStay DEF IInv
<1>13. ASSUME NEW s \in Slots, Answer(s)
       PROVE  IInv'
  <2> DEFINE last == fetch[s].last
             ts == Fresh(last, fetch[s].lt, transactions)
  <2>1. /\ fetch[s].pc = "sent" /\ Deliver(s, ts)
        /\ transactions' = AddAndSort(transactions, ts)
        /\ UNCHANGED <<chain, lastTransactionId, connected, refreshing, open, allTransactionLoaded>>
    BY <1>13 DEF Answer
  <2>2. transactions \in Seq(Positions) /\ StrictlyDescending(transactions)
    BY <1>0 DEF TypeOK, WalletListOrdered
  <2>3. /\ fetch[s].lt \in 1..lastTransactionId /\ fetch[s].lt \in Positions
        /\ last \in Positions \cup {Null}
    <3>1. fetch[s].lt \in 1..lastTransactionId
      BY <1>0, <2>1 DEF RequestsInv
    <3> QED BY <1>a, <1>c, <3>1 DEF FetchType, Positions
  <2>4. /\ ts \in Seq(Positions)
        /\ StrictlyDescending(ts)
        /\ \A i \in DOMAIN ts :
             /\ ts[i] \in 1..fetch[s].lt
             /\ ts[i] = ts[1] - i + 1
             /\ last = Null => ts[i] > FirstOf(transactions)
             /\ last # Null /\ transactions # << >> => ts[i] < LastOf(transactions)
    BY <2>2, <2>3, FreshFacts
  <2> HIDE DEF ts
  <2>5. s \notin Callers /\ last # Null =>
          /\ s[1] \in Panels
          /\ list[s[1]] \in Seq(Positions) /\ StrictlyDescending(list[s[1]])
          /\ last \in RangeOf(list[s[1]])
    <3> HAVE s \notin Callers /\ last # Null
    <3>1. s[1] \in Panels /\ (s = <<s[1], "ui">> \/ s = <<s[1], "adapter">>)
      BY <2>1, BusyIsOpen
    <3>2. list[s[1]] # << >> /\ LastOf(list[s[1]]) = last
      BY <1>0, <2>1, <3>1 DEF RequestsInv
    <3>3. list[s[1]] \in Seq(Positions) /\ StrictlyDescending(list[s[1]])
      BY <1>0, <3>1 DEF TypeOK, PanelListOrdered
    <3> QED BY <3>1, <3>2, <3>3, FirstLastFacts
  <2>6. last # Null => transactions # << >>
    <3> HAVE last # Null
    <3>1. last \in RangeOf(transactions)
      BY <1>0, <2>1, <2>5 DEF RequestsInv, PanelShowsWalletTransactions
    <3> QED BY <3>1 DEF RangeOf
  <2>7. s \notin Callers /\ last # Null =>
          \A i \in DOMAIN list[s[1]], j \in DOMAIN ts : list[s[1]][i] > ts[j]
    <3> SUFFICES ASSUME s \notin Callers, last # Null,
                        NEW i \in DOMAIN list[s[1]], NEW j \in DOMAIN ts
                 PROVE  list[s[1]][i] > ts[j]
      OBVIOUS
    <3>1. list[s[1]][i] \in RangeOf(transactions)
      BY <1>0, <2>5 DEF PanelShowsWalletTransactions, RangeOf
    <3>2. PICK k \in DOMAIN transactions : transactions[k] = list[s[1]][i]
      BY <3>1 DEF RangeOf
    <3>3. transactions[k] >= LastOf(transactions) /\ transactions[k] \in Positions
          /\ LastOf(transactions) \in Positions
      BY <2>2, <2>6, FirstLastFacts
    <3>4. ts[j] < LastOf(transactions) /\ ts[j] \in Positions
      BY <2>4, <2>6
    <3> QED BY <3>2, <3>3, <3>4 DEF Positions
  <2>8. /\ transactions' \in Seq(Positions)
        /\ StrictlyDescending(transactions')
        /\ RangeOf(transactions') = RangeOf(transactions) \cup RangeOf(ts)
    BY <2>1, <2>2, <2>4, <2>6, AddAndSortFacts
  <2>9. last = Null => \A i \in DOMAIN ts : ts[i] = ts[1] - i + 1
    BY <2>4
  <2>10. /\ list' \in [Panels -> Seq(Positions)]
         /\ fetch' \in [Slots -> FetchType]
         /\ PanelListOrdered'
         /\ \A p \in Panels : RangeOf(list'[p]) \subseteq RangeOf(transactions')
         /\ RequestsInv'
    BY <2>1, <2>4, <2>7, <2>8, <2>9, DeliverInv
  <2>11. TypeOK'
    BY <1>0, <2>1, <2>8, <2>10 DEF TypeOK
  <2>12. WalletListOrdered'
    BY <2>8 DEF WalletListOrdered
  <2>13. RangeOf(ts) \subseteq 1..lastTransactionId
    BY <1>a, <2>3, <2>4 DEF RangeOf
  <2>14. PanelShowsWalletTransactions'
    BY <1>0, <2>1, <2>8, <2>10, <2>13 DEF PanelShowsWalletTransactions
  <2> QED BY <2>10, <2>11, <2>12, <2>14 DEF IInv
<1>14. ASSUME NEW s \in Slots, QueryFails(s)
       PROVE  IInv'
  <2> DEFINE r == IF s \in Callers THEN Idle ELSE Done(fetch[s].last)
  <2>1. /\ fetch[s].pc = "sent" /\ fetch' = [fetch EXCEPT ![s] = r]
        /\ allTransactionLoaded' = IF s \in Callers THEN allTransactionLoaded
                                   ELSE [allTransactionLoaded EXCEPT ![s[1]] = TRUE]
        /\ UNCHANGED <<walletVars, open, list>>
    BY <1>14 DEF QueryFails
  <2>2. /\ r \in FetchType /\ r.pc \in {"idle", "done"}
        /\ r.last = Null \/ r.last = fetch[s].last
    BY <1>c DEF Idle, Done, FetchType, Null
  <2>3. /\ s \notin Callers => open[s[1]]
        /\ s[2] = "adapter" => r.last = Null
    <3>1. CASE s \in Callers
      BY <3>1 DEF Callers
    <3>2. CASE s \notin Callers
      <4>1. PICK p \in Panels, th \in Threads : s = <<p, th>>
        BY <3>2, SlotFacts
      <4>2. s[2] = "adapter" => fetch[s].last = Null
        BY <1>0, <4>1 DEF RequestsInv
      <4> QED BY <2>1, <2>2, <3>2, <4>2, BusyIsOpen
    <3> QED BY <3>1, <3>2
  <2> HIDE DEF r
  <2>4. UNCHANGED <<open, list, transactions, lastTransactionId>>
    BY <2>1 DEF walletVars
  <2>5. fetch' \in [Slots -> FetchType] /\ RequestsInv'
    BY <2>1, <2>2, <2>3, <2>4, SlotInv
  <2>6. allTransactionLoaded' \in [Panels -> BOOLEAN]
    <3>1. allTransactionLoaded \in [Panels -> BOOLEAN]
      BY <1>0 DEF TypeOK
    <3> QED BY <2>1, <3>1
  <2>7. TypeOK'
    BY <1>0, <2>1, <2>5, <2>6 DEF TypeOK, walletVars
  <2> QED BY <1>a, <2>4, <2>5, <2>7, ListsStay DEF IInv
<1>15. ASSUME NEW s \in Slots, EndUpdate(s)
       PROVE  IInv'
  <2>1. /\ fetch[s].pc = "done" /\ fetch' = [fetch EXCEPT ![s] = Idle]
        /\ UNCHANGED <<walletVars, panelVars>>
    BY <1>15 DEF EndUpdate
  <2>2. Idle \in FetchType /\ Idle.pc = "idle" /\ Idle.last = Null
    BY DEF Idle, FetchType, Null
  <2>3. s \notin Callers => open[s[1]]
    BY <2>1, BusyIsOpen
  <2>4. UNCHANGED <<open, list, transactions, lastTransactionId>>
    BY <2>1 DEF walletVars, panelVars
  <2>5. fetch' \in [Slots -> FetchType] /\ RequestsInv'
    BY <2>1, <2>2, <2>3, <2>4, SlotInv
  <2>6. TypeOK'
    BY <1>0, <2>1, <2>5 DEF TypeOK, walletVars, panelVars
  <2> QED BY <1>a, <2>4, <2>5, <2>6, ListsStay DEF IInv
<1>16. CASE UNCHANGED vars
  <2>1. UNCHANGED <<walletVars, panelVars, fetch>>
    BY <1>16 DEF vars
  <2>2. TypeOK'
    BY <1>0, <2>1 DEF TypeOK, walletVars, panelVars
  <2>3. RequestsInv'
    BY <1>0, <1>a, <2>1, QueueInv DEF walletVars, panelVars
  <2> QED BY <1>a, <2>1, <2>2, <2>3, ListsStay DEF IInv, walletVars, panelVars
<1> QED
  BY <1>1, <1>2, <1>3, <1>4, <1>5, <1>6, <1>7, <1>8, <1>9, <1>10, <1>11, <1>12,
     <1>13, <1>14, <1>15, <1>16 DEF Next

-----------------------------------------------------------------------------
(* Theorems *)

\* The inductive invariant holds of every behaviour of the wallet, its panels and
\* the other callers of Wallet.GetTransactions.
THEOREM Invariance == Spec => []IInv
<1> QED BY InitInv, NextInv, PTL DEF Spec

\* Every variable keeps its type: no page holds a position the account does not
\* have, and no request asks for one.
THEOREM TypeCorrect == Spec => []TypeOK
<1>1. IInv => TypeOK
  BY DEF IInv
<1> QED BY <1>1, Invariance, PTL

\* The wallet's list is newest first and without duplicates, for any number of
\* viewers and callers of Wallet.GetTransactions.
THEOREM WalletOrdered == Spec => []WalletListOrdered
<1>1. IInv => WalletListOrdered
  BY DEF IInv
<1> QED BY <1>1, Invariance, PTL

\* So is the list of every panel, which is never sorted.
THEOREM PanelOrdered == Spec => []PanelListOrdered
<1>1. IInv => PanelListOrdered
  BY DEF IInv
<1> QED BY <1>1, Invariance, PTL

\* Panels show only what the wallet's list holds, and that only what the
\* account state has announced.
THEOREM PanelsFollowWallet == Spec => []PanelShowsWalletTransactions
<1>1. IInv => PanelShowsWalletTransactions
  BY DEF IInv
<1> QED BY <1>1, Invariance, PTL

\* Only the UI thread pages down, from the last transaction its panel shows, and
\* every query starts at a position that the account state has announced.
THEOREM RequestsHold == Spec => []RequestsInv
<1>1. IInv => RequestsInv
  BY DEF IInv
<1> QED BY <1>1, Invariance, PTL

-----------------------------------------------------------------------------
(* Growth *)

Grows ==
  /\ RangeOf(transactions) \subseteq RangeOf(transactions')
  /\ \A p \in Panels : RangeOf(list[p]) \subseteq RangeOf(list'[p])

\* Whatever the panel does with an array, it keeps what it shows.
LEMMA AppliedGrows ==
  ASSUME NEW l \in Seq(Positions), NEW ts \in Seq(Positions), NEW last
  PROVE  RangeOf(l) \subseteq RangeOf(Applied(l, last, ts))
<1>1. CASE ts = << >>
  BY <1>1 DEF Applied
<1>2. CASE ts # << >> /\ last = Null /\ l # << >>
  <2> DEFINE k == Min2(Len(ts), Max2(ts[1] - FirstOf(l), 0))
             new == SubSeq(ts, 1, k)
  <2>1. Applied(l, last, ts) = new \o l
    BY <1>2 DEF Applied, Insert
  <2>2. ts[1] \in Int /\ FirstOf(l) \in Int
    BY <1>2, ConstantsAssumption DEF Positions, FirstOf
  <2>3. k \in 0..Len(ts)
    BY <2>2 DEF Min2, Max2
  <2> HIDE DEF k
  <2>4. new \in Seq(Positions)
    BY <2>3
  <2> HIDE DEF new
  <2>5. RangeOf(new \o l) = RangeOf(new) \cup RangeOf(l)
    BY <2>4, ConcatRange
  <2> QED BY <2>1, <2>5
<1>3. CASE ts # << >> /\ ~(last = Null /\ l # << >>)
  <2>1. Applied(l, last, ts) = l \o ts
    BY <1>3 DEF Applied
  <2> QED BY <2>1, ConcatRange
<1> QED BY <1>1, <1>2, <1>3

LEMMA DeliverGrows ==
  ASSUME IInv, NEW s \in Slots, fetch[s] # Idle, NEW ts \in Seq(Positions), Deliver(s, ts),
         RangeOf(transactions) \subseteq RangeOf(transactions')
  PROVE  Grows
<1>1. list \in [Panels -> Seq(Positions)]
  BY DEF IInv, TypeOK
<1>2. CASE s \in Callers
  BY <1>2 DEF Deliver, Grows
<1>3. CASE s \notin Callers
  <2>1. list' = [list EXCEPT ![s[1]] = Applied(@, fetch[s].last, ts)]
    BY <1>3 DEF Deliver
  <2>2. ASSUME NEW p \in Panels
        PROVE  RangeOf(list[p]) \subseteq RangeOf(list'[p])
    <3>1. list'[p] = IF p = s[1] THEN Applied(list[p], fetch[s].last, ts) ELSE list[p]
      BY <1>1, <2>1
    <3>2. RangeOf(list[p]) \subseteq RangeOf(Applied(list[p], fetch[s].last, ts))
      BY <1>1, AppliedGrows
    <3> QED BY <3>1, <3>2
  <2> QED BY <2>2 DEF Grows
<1> QED BY <1>2, <1>3

\* A page from the wallet's list, asked for by a request that is in progress.
LEMMA CachedPageType ==
  ASSUME IInv, NEW s \in Slots, fetch[s].pc = "queued", Cached(fetch[s].last)
  PROVE  CachedPage(fetch[s].last) \in Seq(Positions)
<1> DEFINE index == GetIndex(transactions, fetch[s].last)
           n == Min2(index + PageSize, Len(transactions))
<1>1. transactions \in Seq(Positions)
  BY DEF IInv, TypeOK
<1>2. fetch[s].last \in RangeOf(transactions)
  BY CachedLast
<1>3. index \in DOMAIN transactions
  BY <1>2 DEF RangeOf, GetIndex
<1>4. n \in Nat /\ n <= Len(transactions) /\ index \in Nat
  BY <1>1, <1>3, ConstantsAssumption DEF Min2
<1>5. CachedPage(fetch[s].last) = SubSeq(transactions, index + 1, n)
  BY DEF CachedPage
<1> HIDE DEF index, n
<1> QED BY <1>1, <1>4, <1>5

\* The page that an answer brings, as far as it is kept.
LEMMA AnswerPage ==
  ASSUME IInv, NEW s \in Slots, Answer(s)
  PROVE  \E ts \in Seq(Positions) :
           /\ Deliver(s, ts)
           /\ transactions' = AddAndSort(transactions, ts)
           /\ StrictlyDescending(ts)
           /\ \A i \in DOMAIN ts :
                /\ ts[i] = ts[1] - i + 1
                /\ fetch[s].last = Null => ts[i] > FirstOf(transactions)
                /\ fetch[s].last # Null /\ transactions # << >> => ts[i] < LastOf(transactions)
<1> DEFINE last == fetch[s].last
           lt == fetch[s].lt
           ts == Fresh(last, lt, transactions)
<1>1. /\ fetch[s].pc = "sent" /\ Deliver(s, ts)
      /\ transactions' = AddAndSort(transactions, ts)
  BY DEF Answer
<1>2. transactions \in Seq(Positions) /\ StrictlyDescending(transactions)
  BY DEF IInv, TypeOK, WalletListOrdered
<1>3. lt \in Positions /\ last \in Positions \cup {Null}
  <2>1. lt \in 1..lastTransactionId
    BY <1>1 DEF IInv, RequestsInv
  <2>2. fetch[s] \in FetchType
    BY DEF IInv, TypeOK
  <2>3. lt \in Positions \cup {0} /\ last \in Positions \cup {Null}
    BY <2>2 DEF FetchType
  <2> QED BY ConstantsAssumption, <2>1, <2>3
<1>4. /\ ts \in Seq(Positions)
      /\ StrictlyDescending(ts)
      /\ \A i \in DOMAIN ts :
           /\ ts[i] \in 1..lt
           /\ ts[i] = ts[1] - i + 1
           /\ last = Null => ts[i] > FirstOf(transactions)
           /\ last # Null /\ transactions # << >> => ts[i] < LastOf(transactions)
  BY <1>2, <1>3, FreshFacts
<1> HIDE DEF ts
<1> QED BY <1>1, <1>4

LEMMA NextGrows ==
  ASSUME IInv, [Next]_vars
  PROVE  Grows
<1> USE ConstantsAssumption
<1>0. /\ lastTransactionId \in Nat /\ fetch \in [Slots -> FetchType]
      /\ transactions \in Seq(Positions) /\ StrictlyDescending(transactions)
      /\ list \in [Panels -> Seq(Positions)]
  BY DEF IInv, TypeOK, Positions, WalletListOrdered
<1>1. CASE UNCHANGED <<transactions, list>>
  BY <1>1 DEF Grows
<1>2. ASSUME NEW p \in Panels, OpenPanel(p)
      PROVE  Grows
  <2>1. ~open[p] /\ list' = [list EXCEPT ![p] = transactions] /\ UNCHANGED transactions
    BY <1>2 DEF OpenPanel, walletVars
  <2>2. list[p] = << >>
    BY <2>1 DEF IInv, RequestsInv
  <2>3. \A q \in Panels : list'[q] = IF q = p THEN transactions ELSE list[q]
    BY <1>0, <2>1
  <2>4. RangeOf(<< >>) = {}
    BY DEF RangeOf
  <2> QED BY <2>1, <2>2, <2>3, <2>4 DEF Grows
<1>3. ASSUME NEW s \in Slots, ServeCached(s)
      PROVE  Grows
  <2>1. /\ fetch[s].pc = "queued" /\ Cached(fetch[s].last)
        /\ Deliver(s, CachedPage(fetch[s].last)) /\ UNCHANGED transactions
    BY <1>3 DEF ServeCached, walletVars
  <2>2. fetch[s] # Idle
    BY <2>1 DEF Idle
  <2>3. CachedPage(fetch[s].last) \in Seq(Positions)
    BY <1>0, <1>3, <2>1, CachedPageType
  <2> QED BY <2>1, <2>2, <2>3, DeliverGrows
<1>4. ASSUME NEW s \in Slots, Answer(s)
      PROVE  Grows
  <2>1. PICK ts \in Seq(Positions) :
          /\ Deliver(s, ts)
          /\ transactions' = AddAndSort(transactions, ts)
          /\ StrictlyDescending(ts)
          /\ \A i \in DOMAIN ts :
               /\ ts[i] = ts[1] - i + 1
               /\ fetch[s].last = Null => ts[i] > FirstOf(transactions)
               /\ fetch[s].last # Null /\ transactions # << >> => ts[i] < LastOf(transactions)
    BY <1>4, AnswerPage
  <2>2. fetch[s] # Idle
    BY <1>4 DEF Answer, Idle
  <2>3. \/ \A i \in DOMAIN ts : ts[i] > FirstOf(transactions)
        \/ transactions # << >> /\ \A i \in DOMAIN ts : ts[i] < LastOf(transactions)
    <3>1. CASE fetch[s].last = Null \/ transactions # << >>
      BY <2>1, <3>1
    <3>2. CASE transactions = << >>
      <4>1. FirstOf(transactions) = 0
        BY <3>2 DEF FirstOf, Null
      <4> QED BY <2>1, <4>1 DEF Positions
    <3> QED BY <3>1, <3>2
  <2>4. RangeOf(transactions) \subseteq RangeOf(transactions')
    BY <1>0, <2>1, <2>3, AddAndSortFacts
  <2> QED BY <2>1, <2>2, <2>4, DeliverGrows
<1>5. CASE UNCHANGED vars
  BY <1>1, <1>5 DEF vars, walletVars, panelVars
<1>6. CASE Execute \/ Connect \/ Disconnect \/ RefreshAdapter \/ WalletUpdateFails \/ LoadButton
  BY <1>1, <1>6
    DEF Execute, Connect, Disconnect, RefreshAdapter, WalletUpdateFails, LoadButton,
        walletVars, panelVars
<1>7. CASE WalletUpdate
  BY <1>1, <1>7, Zenon DEF WalletUpdate
<1>8. ASSUME NEW p \in Panels, Scroll(p) \/ BeginUpdate(p) PROVE Grows
  BY <1>1, <1>8 DEF Scroll, BeginUpdate, walletVars, panelVars
<1>9. ASSUME NEW s \in Slots, SendQuery(s) \/ QueryFails(s) \/ EndUpdate(s) PROVE Grows
  BY <1>1, <1>9 DEF SendQuery, QueryFails, EndUpdate, walletVars, panelVars
<1> QED
  BY <1>2, <1>3, <1>4, <1>5, <1>6, <1>7, <1>8, <1>9, Zenon DEF Next

\* No step loses a transaction that the wallet or one of its panels has.
THEOREM ListsOnlyGrow == Spec => OnlyGrows
<1>1. IInv /\ [Next]_vars =>
        [/\ RangeOf(transactions) \subseteq RangeOf(transactions')
         /\ \A p \in Panels : RangeOf(list[p]) \subseteq RangeOf(list'[p])]_vars
  BY NextGrows DEF Grows
<1> QED BY <1>1, Invariance, PTL DEF Spec, OnlyGrows

-----------------------------------------------------------------------------
(* Holes *)

Consecutive(s) == \A i \in 1..(Len(s) - 1) : s[i] = s[i + 1] + 1

\* Two runs that meet are one run.
LEMMA ConcatConsecutive ==
  ASSUME NEW s \in Seq(Positions), NEW t \in Seq(Positions), Consecutive(s), Consecutive(t),
         s # << >> /\ t # << >> => s[Len(s)] = t[1] + 1
  PROVE  Consecutive(s \o t)
<1>1. /\ Len(s \o t) = Len(s) + Len(t) /\ Len(s) \in Nat /\ Len(t) \in Nat
      /\ \A i \in 1..Len(s) : (s \o t)[i] = s[i]
      /\ \A i \in (Len(s) + 1)..(Len(s) + Len(t)) : (s \o t)[i] = t[i - Len(s)]
  OBVIOUS
<1> SUFFICES ASSUME NEW i \in 1..(Len(s \o t) - 1)
             PROVE  (s \o t)[i] = (s \o t)[i + 1] + 1
  BY DEF Consecutive
<1>2. CASE i < Len(s)
  BY <1>1, <1>2 DEF Consecutive
<1>3. CASE i = Len(s)
  BY <1>1, <1>3
<1>4. CASE i > Len(s)
  <2>1. /\ (s \o t)[i] = t[i - Len(s)] /\ (s \o t)[i + 1] = t[(i - Len(s)) + 1]
        /\ i - Len(s) \in 1..(Len(t) - 1)
    BY <1>1, <1>4
  <2> QED BY <2>1 DEF Consecutive
<1> QED BY <1>1, <1>2, <1>3, <1>4

\* A run merged at one end of a run.
LEMMA AddConsecutive ==
  ASSUME NEW s \in Seq(Positions), StrictlyDescending(s), Consecutive(s),
         NEW ts \in Seq(Positions), StrictlyDescending(ts), Consecutive(ts),
         s # << >> /\ ts # << >> => ts[Len(ts)] = s[1] + 1 \/ ts[1] = s[Len(s)] - 1
  PROVE  /\ Consecutive(AddAndSort(s, ts))
         /\ s = << >> => AddAndSort(s, ts) = ts
         /\ s # << >> => AddAndSort(s, ts) # << >> /\ FirstOf(AddAndSort(s, ts)) >= FirstOf(s)
<1> USE ConstantsAssumption
<1>1. CASE s = << >> \/ ts = << >>
  <2>1. AddAndSort(s, ts) = IF s = << >> THEN ts ELSE s
    <3>1. AddAndSort(s, ts) = s \o ts
      BY <1>1 DEF AddAndSort
    <3> QED BY <1>1, <3>1
  <2>2. s # << >> => FirstOf(s) \in Int
    BY DEF FirstOf, Positions
  <2> QED BY <1>1, <2>1, <2>2
<1>2. CASE s # << >> /\ ts # << >>
  <2>1. /\ \A i \in DOMAIN s : s[i] \in Int /\ s[1] >= s[i] /\ s[i] >= s[Len(s)]
        /\ 1 \in DOMAIN s /\ Len(s) \in DOMAIN s /\ FirstOf(s) = s[1]
    BY <1>2, FirstLastFacts DEF Positions
  <2>2. /\ \A i \in DOMAIN ts : ts[i] \in Int /\ ts[1] >= ts[i] /\ ts[i] >= ts[Len(ts)]
        /\ 1 \in DOMAIN ts /\ Len(ts) \in DOMAIN ts
    BY <1>2, FirstLastFacts DEF Positions
  <2>3. CASE ts[Len(ts)] = s[1] + 1
    <3>0. ts[Len(ts)] > s[1] /\ ~(ts[1] < s[Len(s)])
      <4>1. s[1] \in Int /\ s[Len(s)] \in Int /\ ts[1] \in Int /\ ts[Len(ts)] \in Int
        BY <2>1, <2>2
      <4>2. s[1] >= s[Len(s)] /\ ts[1] >= ts[Len(ts)]
        BY <2>1, <2>2
      <4> QED BY <2>3, <4>1, <4>2
    <3>1. AddAndSort(s, ts) = ts \o s
      BY <1>2, <3>0 DEF AddAndSort
    <3>2. Consecutive(ts \o s)
      BY <2>3, ConcatConsecutive
    <3>3. ts \o s # << >> /\ (ts \o s)[1] = ts[1]
      BY <1>2
    <3>4. FirstOf(ts \o s) = ts[1]
      BY <3>3 DEF FirstOf
    <3> QED BY <1>2, <2>1, <2>2, <2>3, <3>1, <3>2, <3>3, <3>4
  <2>4. CASE ts[1] = s[Len(s)] - 1 /\ ts[Len(ts)] # s[1] + 1
    <3>1. AddAndSort(s, ts) = s \o ts
      BY <1>2, <2>1, <2>2, <2>4 DEF AddAndSort
    <3>2. s[Len(s)] = ts[1] + 1
      BY <2>1, <2>2, <2>4
    <3>3. Consecutive(s \o ts)
      BY <3>2, ConcatConsecutive
    <3>4. s \o ts # << >> /\ (s \o ts)[1] = s[1]
      BY <1>2
    <3>5. FirstOf(s \o ts) = s[1]
      BY <3>4 DEF FirstOf
    <3> QED BY <1>2, <2>1, <3>1, <3>3, <3>4, <3>5
  <2> QED BY <1>2, <2>3, <2>4
<1> QED BY <1>1, <1>2

\* What keeps a refresh from leaving a gap: the wallet's first transaction is at
\* most a burst behind the chain, and not older than the history.
NoGap ==
  /\ lastTransactionId = 0 \/ lastTransactionId >= History
  /\ History <= chain
  /\ \A s \in Slots : fetch[s].pc = "sent" /\ fetch[s].last = Null => fetch[s].lt >= History
  /\ transactions # << >> => FirstOf(transactions) >= History
  /\ chain <= MaxBurst + (IF transactions = << >> THEN History ELSE FirstOf(transactions))
  /\ NoHoles

\* No query is sent or answered.
LEMMA NoGapStays ==
  ASSUME NoGap, UNCHANGED <<chain, lastTransactionId, transactions>>,
         \A s \in Slots : fetch'[s] = fetch[s] \/ fetch'[s].pc # "sent"
  PROVE  NoGap'
<1>1. \A s \in Slots : fetch'[s].pc = "sent" /\ fetch'[s].last = Null => fetch'[s].lt >= History
  BY DEF NoGap
<1> QED BY <1>1 DEF NoGap, NoHoles

\* An answer sends no query.
LEMMA SentStays ==
  ASSUME IInv, NoGap, NEW s \in Slots, Answer(s)
  PROVE  \A q \in Slots : fetch'[q].pc = "sent" /\ fetch'[q].last = Null => fetch'[q].lt >= History
<1>1. fetch \in [Slots -> FetchType]
  BY DEF IInv, TypeOK
<1>2. fetch' = [fetch EXCEPT ![s] = IF s \in Callers THEN Idle ELSE Done(@.last)]
  BY DEF Answer, Deliver
<1>3. fetch'[s].pc # "sent" /\ \A q \in Slots : q # s => fetch'[q] = fetch[q]
  BY <1>1, <1>2 DEF Idle, Done
<1> QED BY <1>3 DEF NoGap

\* The wallet's list grows at an end where it meets the page.
LEMMA GapClosed ==
  ASSUME IInv, NoGap, NEW s \in Slots, Answer(s), transactions # << >>,
         Consecutive(transactions'), transactions' # << >>,
         transactions' \in Seq(Positions),
         FirstOf(transactions') >= FirstOf(transactions)
  PROVE  NoGap'
<1>1. UNCHANGED <<chain, lastTransactionId>>
  BY DEF Answer
<1>2. FirstOf(transactions) \in Int /\ FirstOf(transactions') \in Int /\ chain \in Int
      /\ MaxBurst \in Int /\ History \in Int
  BY ConstantsAssumption DEF IInv, TypeOK, FirstOf, Positions
<1>3. /\ FirstOf(transactions') >= History
      /\ chain <= MaxBurst + FirstOf(transactions')
  BY <1>2 DEF NoGap
<1> QED BY <1>1, <1>3, SentStays DEF NoGap, NoHoles, Consecutive

\* An answer leaves no gap: a refresh ends at the wallet's first transaction, an
\* older page begins below its last.
LEMMA AnswerNoGap ==
  ASSUME IInv, NoGap, MaxBurst <= PageSize, NEW s \in Slots, Answer(s)
  PROVE  NoGap'
<1> USE ConstantsAssumption
<1> DEFINE last == fetch[s].last
           lt == fetch[s].lt
           ts == Fresh(last, lt, transactions)
<1>1. /\ fetch[s].pc = "sent" /\ Deliver(s, ts)
      /\ transactions' = AddAndSort(transactions, ts)
      /\ UNCHANGED <<chain, lastTransactionId>>
  BY DEF Answer
<1>2. /\ transactions \in Seq(Positions) /\ StrictlyDescending(transactions)
      /\ Consecutive(transactions)
      /\ chain \in Positions /\ lastTransactionId \in 0..chain
      /\ fetch \in [Slots -> FetchType]
  BY DEF IInv, TypeOK, WalletListOrdered, NoGap, NoHoles, Consecutive
<1>3. lt \in 1..lastTransactionId /\ lt \in Positions /\ last \in Positions \cup {Null}
  <2>1. lt \in 1..lastTransactionId
    BY <1>1 DEF IInv, RequestsInv
  <2>2. fetch[s] \in FetchType
    BY <1>2
  <2>3. lt \in Positions \cup {0} /\ last \in Positions \cup {Null}
    BY <2>2 DEF FetchType
  <2> QED BY <2>1, <2>3
<1>4. /\ ts \in Seq(Positions)
      /\ StrictlyDescending(ts)
      /\ \A i \in DOMAIN ts :
           /\ ts[i] \in 1..lt
           /\ ts[i] = ts[1] - i + 1
           /\ last = Null => ts[i] > FirstOf(transactions)
           /\ last # Null /\ transactions # << >> => ts[i] < LastOf(transactions)
  BY <1>2, <1>3, FreshFacts
<1>5. Consecutive(ts)
  <2> HIDE DEF ts
  <2> SUFFICES ASSUME NEW i \in 1..(Len(ts) - 1) PROVE ts[i] = ts[i + 1] + 1
    BY DEF Consecutive
  <2>1. 1 \in DOMAIN ts /\ i \in DOMAIN ts /\ i + 1 \in DOMAIN ts /\ i \in Int
    BY <1>4
  <2>2. ts[1] \in Int
    BY <1>4, <2>1 DEF Positions
  <2>3. ts[i] = ts[1] - i + 1 /\ ts[i + 1] = ts[1] - (i + 1) + 1
    BY <1>4, <2>1
  <2> QED BY <2>1, <2>2, <2>3
<1>6. transactions # << >> =>
        /\ 1 \in DOMAIN transactions /\ Len(transactions) \in DOMAIN transactions
        /\ FirstOf(transactions) = transactions[1]
        /\ LastOf(transactions) = transactions[Len(transactions)]
        /\ FirstOf(transactions) \in Positions /\ LastOf(transactions) \in Positions
  BY <1>2, FirstLastFacts
<1>7. last # Null => lt = last /\ transactions # << >> /\ last >= LastOf(transactions)
  <2> HAVE last # Null
  <2>1. lt = last
    BY <1>1 DEF IInv, RequestsInv
  <2>2. last \in RangeOf(transactions)
    <3>1. CASE s \in Callers
      BY <1>1, <3>1 DEF IInv, RequestsInv
    <3>2. CASE s \notin Callers
      <4>1. s[1] \in Panels /\ (s = <<s[1], "ui">> \/ s = <<s[1], "adapter">>)
        BY <3>2, SlotFacts DEF Threads
      <4>2. s = <<s[1], "ui">>
        BY <4>1 DEF IInv, RequestsInv
      <4>3. list[s[1]] # << >> /\ LastOf(list[s[1]]) = last
        BY <1>1, <4>1, <4>2 DEF IInv, RequestsInv
      <4>4. list[s[1]] \in Seq(Positions) /\ StrictlyDescending(list[s[1]])
        BY <4>1 DEF IInv, TypeOK, PanelListOrdered
      <4>5. last \in RangeOf(list[s[1]])
        BY <4>3, <4>4, FirstLastFacts
      <4> QED BY <4>1, <4>5 DEF IInv, PanelShowsWalletTransactions
    <3> QED BY <3>1, <3>2
  <2>3. transactions # << >>
    BY <2>2 DEF RangeOf
  <2>4. last >= LastOf(transactions)
    BY <1>2, <2>2, <2>3, FirstLastFacts DEF RangeOf
  <2> QED BY <2>1, <2>3, <2>4
<1>8. transactions' \in Seq(Positions)
  BY NextInv DEF IInv, TypeOK, Next
<1>9. CASE last # Null
  <2> DEFINE hi == Min2(lt, LastOf(transactions) - 1)
             lo == OldestOfPage(lt)
  <2>1. ts = Down(hi, lo)
    BY <1>7, <1>9 DEF Fresh, OlderOf
  <2>2. hi = LastOf(transactions) - 1 /\ hi \in Int /\ hi <= MaxTx
    BY <1>3, <1>6, <1>7, <1>9 DEF Min2, Positions
  <2>3. lo \in Nat \ {0}
    BY <1>3 DEF OldestOfPage, Max2, Positions
  <2> HIDE DEF hi, lo
  <2>4. \A i \in 1..Len(Down(hi, lo)) : Down(hi, lo)[i] = hi - i + 1
    BY <2>2, <2>3, DownFacts
  <2> HIDE DEF ts
  <2>5. ts # << >> => ts[1] = transactions[Len(transactions)] - 1
    <3> HAVE ts # << >>
    <3>1. 1 \in 1..Len(ts)
      BY <1>4
    <3>2. ts[1] = hi - 1 + 1
      BY <2>1, <2>4, <3>1
    <3> QED BY <1>6, <1>7, <1>9, <2>2, <3>2
  <2>6. /\ Consecutive(transactions') /\ transactions' # << >>
        /\ FirstOf(transactions') >= FirstOf(transactions)
    BY <1>1, <1>2, <1>4, <1>5, <1>7, <1>9, <2>5, AddConsecutive
  <2> QED BY <1>1, <1>7, <1>9, <1>8, <2>6, GapClosed
<1>10. CASE last = Null /\ transactions # << >>
  <2> DEFINE lo == Max2(OldestOfPage(lt), FirstOf(transactions) + 1)
  <2>1. ts = Down(lt, lo)
    BY <1>10 DEF Fresh, NewestOf
  <2>2. lo = FirstOf(transactions) + 1
    <3>1. lt <= FirstOf(transactions) + PageSize
      BY <1>2, <1>3, <1>6, <1>10 DEF NoGap, Positions
    <3> QED BY <1>3, <1>6, <1>10, <3>1 DEF OldestOfPage, Max2, Positions
  <2>3. lo \in Nat \ {0} /\ lt \in Int /\ lt <= MaxTx
    BY <1>3, <1>6, <1>10, <2>2 DEF Positions
  <2> HIDE DEF lo
  <2>4. /\ Len(Down(lt, lo)) = Max2(lt - lo + 1, 0)
        /\ \A i \in 1..Len(Down(lt, lo)) : Down(lt, lo)[i] = lt - i + 1
    BY <2>3, DownFacts
  <2> HIDE DEF ts
  <2>5. ts # << >> => ts[Len(ts)] = transactions[1] + 1
    <3> HAVE ts # << >>
    <3>1. Len(ts) \in 1..Len(ts) /\ Len(ts) = lt - lo + 1
      BY <1>4, <2>1, <2>3, <2>4 DEF Max2
    <3>2. ts[Len(ts)] = lt - Len(ts) + 1
      BY <2>1, <2>4, <3>1
    <3> QED BY <1>6, <1>10, <2>2, <2>3, <3>1, <3>2
  <2>6. /\ Consecutive(transactions') /\ transactions' # << >>
        /\ FirstOf(transactions') >= FirstOf(transactions)
    BY <1>1, <1>2, <1>4, <1>5, <1>10, <2>5, AddConsecutive
  <2> QED BY <1>1, <1>10, <1>8, <2>6, GapClosed
<1>11. CASE last = Null /\ transactions = << >>
  <2> DEFINE lo == Max2(OldestOfPage(lt), FirstOf(transactions) + 1)
  <2>1. ts = Down(lt, lo)
    BY <1>11 DEF Fresh, NewestOf
  <2>2. lo \in Nat \ {0} /\ lt \in Int /\ lt <= MaxTx
    BY <1>3, <1>11 DEF OldestOfPage, Max2, FirstOf, Null, Positions
  <2> HIDE DEF lo
  <2>3. \A i \in 1..Len(Down(lt, lo)) : Down(lt, lo)[i] = lt - i + 1
    BY <2>2, DownFacts
  <2>4. lt >= History
    BY <1>1, <1>11 DEF NoGap
  <2> HIDE DEF ts
  <2>5. transactions' = ts
    BY <1>1, <1>2, <1>4, <1>5, <1>11, AddConsecutive
  <2>6. ts # << >> => FirstOf(ts) = lt
    <3> HAVE ts # << >>
    <3>1. 1 \in 1..Len(ts)
      BY <1>4
    <3>2. ts[1] = lt - 1 + 1
      BY <2>1, <2>3, <3>1
    <3> QED BY <2>2, <3>2 DEF FirstOf
  <2>7. chain <= MaxBurst + (IF ts = << >> THEN History ELSE FirstOf(ts))
    BY <1>2, <1>11, <2>2, <2>4, <2>6 DEF NoGap, Positions
  <2> QED BY <1>1, <1>5, <2>4, <2>5, <2>6, <2>7, SentStays DEF NoGap, NoHoles, Consecutive
<1> QED BY <1>9, <1>10, <1>11

LEMMA NextNoGap ==
  ASSUME IInv, NoGap, MaxBurst <= PageSize, [Next]_vars
  PROVE  NoGap'
<1> USE ConstantsAssumption
<1> USE DEF walletVars, panelVars
<1>0. /\ fetch \in [Slots -> FetchType]
      /\ chain \in Int /\ lastTransactionId \in Int
      /\ OpenPanels \in SUBSET Panels
  BY DEF IInv, TypeOK, Positions, OpenPanels
<1>1. CASE Execute
  <2>1. /\ chain' = chain + 1
        /\ chain < MaxBurst + (IF transactions = << >> THEN History ELSE FirstOf(transactions))
        /\ UNCHANGED <<lastTransactionId, transactions, fetch>>
    BY <1>1, Zenon DEF Execute
  <2>2. FirstOf(transactions) \in Int
    BY DEF IInv, TypeOK, FirstOf, Positions, Null
  <2> QED BY <1>0, <2>1, <2>2 DEF NoGap, NoHoles
<1>2. ASSUME NEW P \in SUBSET Panels, NEW loaded, NEW lastId, NEW conn
      PROVE  \A s \in Slots : LET q == QueueNewest(P, loaded, lastId, conn) IN
               q[s] = fetch[s] \/ q[s].pc # "sent"
  BY DEF QueueNewest, Queued
<1>3. CASE Connect
  <2>1. /\ fetch' = QueueNewest(OpenPanels, allTransactionLoaded, lastTransactionId, connected')
        /\ UNCHANGED <<chain, lastTransactionId, transactions>>
    BY <1>3, Zenon DEF Connect, NewestRequested
  <2> QED BY <1>0, <1>2, <2>1, NoGapStays
<1>4. CASE RefreshAdapter
  <2> DEFINE P == {p \in OpenPanels : ~allTransactionLoaded[p] /\ list[p] = << >>}
  <2>1. /\ fetch' = QueueNewest(P, allTransactionLoaded, lastTransactionId, connected)
        /\ UNCHANGED <<chain, lastTransactionId, transactions>>
    BY <1>4, Zenon DEF RefreshAdapter, NewestRequested
  <2>2. P \in SUBSET Panels
    BY <1>0
  <2> HIDE DEF P
  <2> QED BY <1>2, <2>1, <2>2, NoGapStays
<1>5. CASE WalletUpdate
  <2>1. CASE connected /\ StateDiffers
    <3> DEFINE loaded == [p \in Panels |-> allTransactionLoaded[p] /\ ~open[p]]
               q == QueueNewest(OpenPanels, loaded, chain, connected)
    <3>1. /\ lastTransactionId' = chain /\ fetch' = SupportRequested(q)
          /\ UNCHANGED <<chain, transactions>>
      BY <1>5, <2>1 DEF WalletUpdate
    <3> HIDE DEF loaded
    <3>2. \A s \in Slots : q[s] = fetch[s] \/ q[s].pc # "sent"
      BY <1>0, <1>2
    <3> HIDE DEF q
    <3>3. \A s \in Slots : fetch'[s] = q[s] \/ fetch'[s].pc # "sent"
      BY <3>1 DEF SupportRequested, Queued
    <3>4. \A s \in Slots : fetch'[s].pc = "sent" /\ fetch'[s].last = Null => fetch'[s].lt >= History
      BY <3>2, <3>3 DEF NoGap
    <3> QED BY <3>1, <3>4 DEF NoGap, NoHoles
  <2>2. CASE ~(connected /\ StateDiffers)
    <3>1. UNCHANGED <<chain, lastTransactionId, transactions, fetch>>
      BY <1>5, <2>2 DEF WalletUpdate
    <3> QED BY <3>1, NoGapStays
  <2> QED BY <2>1, <2>2
<1>6. CASE Disconnect \/ WalletUpdateFails
  BY <1>6, NoGapStays DEF Disconnect, WalletUpdateFails
<1>7. CASE LoadButton
  <2>1. /\ fetch' = [fetch EXCEPT ![<<"button", "caller">>] = Queued(LastOf(transactions))]
        /\ UNCHANGED <<chain, lastTransactionId, transactions>>
    BY <1>7 DEF LoadButton
  <2>2. \A s \in Slots : fetch'[s] = fetch[s] \/ fetch'[s].pc # "sent"
    BY <1>0, <2>1 DEF Queued
  <2> QED BY <2>1, <2>2, NoGapStays
<1>8. ASSUME NEW p \in Panels, OpenPanel(p) \/ Scroll(p) \/ BeginUpdate(p)
      PROVE  NoGap'
  <2>1. UNCHANGED <<chain, lastTransactionId, transactions>>
    BY <1>8, Zenon DEF OpenPanel, Scroll, BeginUpdate
  <2>2. fetch' = fetch \/ \E f : f.pc # "sent" /\ fetch' = [fetch EXCEPT ![<<p, "ui">>] = f]
    BY <1>8 DEF OpenPanel, Scroll, BeginUpdate, Queued, Checked
  <2>3. ASSUME NEW f, f.pc # "sent", fetch' = [fetch EXCEPT ![<<p, "ui">>] = f]
        PROVE  \A s \in Slots : fetch'[s] = fetch[s] \/ fetch'[s].pc # "sent"
    BY <1>0, <2>3
  <2>4. \A s \in Slots : fetch'[s] = fetch[s] \/ fetch'[s].pc # "sent"
    BY <2>2, <2>3
  <2> QED BY <2>1, <2>4, NoGapStays
<1>9. ASSUME NEW s \in Slots, ServeCached(s) \/ QueryFails(s) \/ EndUpdate(s)
      PROVE  NoGap'
  <2>1. UNCHANGED <<chain, lastTransactionId, transactions>>
    BY <1>9, Zenon DEF ServeCached, QueryFails, EndUpdate
  <2>2. \E f : f.pc # "sent" /\ fetch' = [fetch EXCEPT ![s] = f]
    BY <1>9 DEF ServeCached, Deliver, QueryFails, EndUpdate, Idle, Done
  <2>3. \A q \in Slots : fetch'[q] = fetch[q] \/ fetch'[q].pc # "sent"
    BY <1>0, <2>2
  <2> QED BY <2>1, <2>3, NoGapStays
<1>10. ASSUME NEW s \in Slots, SendQuery(s)
       PROVE  NoGap'
  <2> DEFINE last == fetch[s].last
             r == Sent(last, IF last = Null THEN lastTransactionId ELSE last)
  <2>1. /\ fetch[s].pc = "queued" /\ fetch' = [fetch EXCEPT ![s] = r]
        /\ UNCHANGED <<chain, lastTransactionId, transactions>>
    BY <1>10 DEF SendQuery
  <2>2. lastTransactionId >= History
    BY <1>0, <2>1 DEF NoGap, IInv, RequestsInv
  <2>3. \A q \in Slots : fetch'[q] = IF q = s THEN r ELSE fetch[q]
    BY <1>0, <2>1
  <2>4. r.last = last /\ (last = Null => r.lt = lastTransactionId)
    BY DEF Sent
  <2>5. \A q \in Slots : fetch'[q].pc = "sent" /\ fetch'[q].last = Null => fetch'[q].lt >= History
    BY <2>2, <2>3, <2>4 DEF NoGap
  <2> QED BY <2>1, <2>5 DEF NoGap, NoHoles
<1>11. ASSUME NEW s \in Slots, Answer(s)
       PROVE  NoGap'
  BY <1>11, AnswerNoGap
<1>12. CASE UNCHANGED vars
  BY <1>12, NoGapStays DEF vars
<1> QED
  BY <1>1, <1>3, <1>4, <1>5, <1>6, <1>7, <1>8, <1>9, <1>10, <1>11, <1>12, Zenon DEF Next

\* When at most a page of transactions arrives between two refreshes that are
\* merged, the wallet's list has no holes, whatever its viewers ask for meanwhile.
THEOREM NoHolesHolds == ASSUME MaxBurst <= PageSize PROVE Spec => []NoHoles
<1>1. Init => NoGap
  BY ConstantsAssumption DEF Init, NoGap, NoHoles, Idle
<1>2. IInv /\ NoGap /\ [Next]_vars => NoGap'
  BY NextNoGap
<1>3. NoGap => NoHoles
  BY DEF NoGap
<1> QED BY <1>1, <1>2, <1>3, Invariance, PTL DEF Spec

-----------------------------------------------------------------------------
(* Panels that agree with the wallet *)

LEMMA LengthIsLess ==
  ASSUME NEW a \in Int, NEW b \in Int, NEW n \in Nat, a - n + 1 > b
  PROVE  Min2(n, Max2(a - b, 0)) = n
BY DEF Min2, Max2

\* What a panel does with a page that its request brought is what the wallet does.
LEMMA AppliedIsMerged ==
  ASSUME NEW l \in Seq(Positions), StrictlyDescending(l),
         NEW ts \in Seq(Positions), NEW last,
         \A i \in DOMAIN ts :
           /\ ts[i] = ts[1] - i + 1
           /\ last = Null => ts[i] > FirstOf(l)
           /\ last # Null /\ l # << >> => ts[i] < LastOf(l)
  PROVE  Applied(l, last, ts) = AddAndSort(l, ts)
<1> USE ConstantsAssumption
<1>1. CASE ts = << >>
  <2>1. Applied(l, last, ts) = l /\ AddAndSort(l, ts) = l \o ts
    BY <1>1 DEF Applied, AddAndSort
  <2> QED BY <1>1, <2>1
<1>2. CASE ts # << >> /\ l = << >>
  BY <1>2 DEF Applied, AddAndSort
<1>3. CASE ts # << >> /\ l # << >>
  <2>1. /\ 1 \in DOMAIN ts /\ Len(ts) \in DOMAIN ts /\ Len(ts) \in Nat
        /\ ts[1] \in Int /\ ts[Len(ts)] \in Int
    BY <1>3 DEF Positions
  <2>2. /\ FirstOf(l) = l[1] /\ LastOf(l) = l[Len(l)]
        /\ l[1] \in Int /\ l[Len(l)] \in Int /\ l[1] >= l[Len(l)]
    BY <1>3, FirstLastFacts DEF Positions
  <2>3. ts[Len(ts)] = ts[1] - Len(ts) + 1
    BY <2>1
  <2>4. CASE last = Null
    <3>1. ts[Len(ts)] > l[1] /\ ts[1] > l[1]
      BY <2>1, <2>2, <2>4
    <3>2. Min2(Len(ts), Max2(ts[1] - FirstOf(l), 0)) = Len(ts)
      <4>1. ts[1] - Len(ts) + 1 > FirstOf(l) /\ FirstOf(l) \in Int
        BY <2>2, <2>3, <3>1
      <4> QED BY <2>1, <4>1, LengthIsLess
    <3>3. Applied(l, last, ts) = SubSeq(ts, 1, Len(ts)) \o l
      BY <1>3, <2>4, <3>2 DEF Applied, Insert
    <3>4. SubSeq(ts, 1, Len(ts)) = ts
      OBVIOUS
    <3>5. ~(ts[1] < l[Len(l)])
      <4>1. ts[1] \in Int /\ l[1] \in Int /\ l[Len(l)] \in Int
        BY <2>1, <2>2
      <4>2. ts[1] > l[1] /\ l[1] >= l[Len(l)]
        BY <2>2, <3>1
      <4> QED BY <4>1, <4>2
    <3>6. AddAndSort(l, ts) = ts \o l
      BY <1>3, <3>1, <3>5 DEF AddAndSort
    <3> QED BY <3>3, <3>4, <3>6
  <2>5. CASE last # Null
    <3>1. ts[1] < l[Len(l)] /\ ts[Len(ts)] < l[Len(l)]
      BY <1>3, <2>1, <2>2, <2>5
    <3>2. ~(ts[Len(ts)] > l[1])
      BY <2>1, <2>2, <3>1
    <3>3. AddAndSort(l, ts) = l \o ts
      BY <1>3, <3>1, <3>2 DEF AddAndSort
    <3>4. Applied(l, last, ts) = l \o ts
      BY <1>3, <2>5 DEF Applied
    <3> QED BY <3>3, <3>4
  <2> QED BY <2>4, <2>5
<1> QED BY <1>1, <1>2, <1>3

\* A step that the panel p, which shows the wallet's list, or the wallet makes.
LEMMA NextMatches ==
  ASSUME IInv, [Next]_vars, NEW p \in Panels, open[p], list[p] = transactions,
         \A s \in Slots : s[1] # p => fetch'[s] = fetch[s]
  PROVE  list'[p] = transactions'
<1> USE ConstantsAssumption
<1>0. /\ lastTransactionId \in Nat /\ fetch \in [Slots -> FetchType]
      /\ transactions \in Seq(Positions) /\ StrictlyDescending(transactions)
      /\ list \in [Panels -> Seq(Positions)]
  BY DEF IInv, TypeOK, Positions, WalletListOrdered
<1>1. CASE UNCHANGED <<transactions, list>>
  BY <1>1
<1>2. ASSUME NEW q \in Panels, OpenPanel(q)
      PROVE  list'[p] = transactions'
  <2>1. ~open[q] /\ list' = [list EXCEPT ![q] = transactions] /\ UNCHANGED transactions
    BY <1>2 DEF OpenPanel, walletVars
  <2> QED BY <1>0, <2>1
<1>3. ASSUME NEW s \in Slots, \E ts : Deliver(s, ts), fetch[s].pc \in {"queued", "sent"}
      PROVE  /\ s \notin Callers /\ s[1] = p
             /\ s = <<p, "ui">> \/ s = <<p, "adapter">>
  <2>1. fetch'[s].pc \in {"idle", "done"}
    BY <1>0, <1>3 DEF Deliver, Idle, Done
  <2>2. s[1] = p
    BY <1>3, <2>1
  <2>3. s \notin Callers
    BY <2>2 DEF Callers
  <2> QED BY <2>2, <2>3, SlotFacts DEF Threads
<1>4. ASSUME NEW s \in Slots, ServeCached(s)
      PROVE  FALSE
  <2>1. /\ fetch[s].pc = "queued" /\ Cached(fetch[s].last)
        /\ \E ts : Deliver(s, ts)
    BY <1>4 DEF ServeCached
  <2>2. s = <<p, "ui">> \/ s = <<p, "adapter">>
    BY <1>3, <2>1
  <2>3. fetch[s].last # Null /\ fetch[s].last # LastOf(transactions)
    BY <2>1 DEF Cached
  <2>4. s = <<p, "ui">> /\ LastOf(list[p]) = fetch[s].last
    <3>1. s # <<p, "adapter">>
      BY <2>3 DEF IInv, RequestsInv
    <3>2. s = <<p, "ui">>
      BY <2>2, <3>1
    <3>3. fetch[<<p, "ui">>].pc = "queued" /\ fetch[<<p, "ui">>].last # Null
      BY <2>1, <2>3, <3>2
    <3>4. LastOf(list[p]) = fetch[<<p, "ui">>].last
      BY <3>3 DEF IInv, RequestsInv
    <3> QED BY <3>2, <3>4
  <2> QED BY <2>3, <2>4
<1>5. ASSUME NEW s \in Slots, Answer(s)
      PROVE  list'[p] = transactions'
  <2>1. PICK ts \in Seq(Positions) :
          /\ Deliver(s, ts)
          /\ transactions' = AddAndSort(transactions, ts)
          /\ StrictlyDescending(ts)
          /\ \A i \in DOMAIN ts :
               /\ ts[i] = ts[1] - i + 1
               /\ fetch[s].last = Null => ts[i] > FirstOf(transactions)
               /\ fetch[s].last # Null /\ transactions # << >> => ts[i] < LastOf(transactions)
    BY <1>5, AnswerPage
  <2>2. fetch[s].pc = "sent"
    BY <1>5 DEF Answer
  <2>3. s \notin Callers /\ s[1] = p
    BY <1>3, <2>1, <2>2
  <2>4. list'[p] = Applied(list[p], fetch[s].last, ts)
    BY <1>0, <2>1, <2>3 DEF Deliver
  <2>5. Applied(transactions, fetch[s].last, ts) = AddAndSort(transactions, ts)
    BY <1>0, <2>1, AppliedIsMerged
  <2> QED BY <2>1, <2>4, <2>5
<1>6. CASE UNCHANGED vars
  BY <1>1, <1>6 DEF vars, walletVars, panelVars
<1>7. CASE Execute \/ Connect \/ Disconnect \/ RefreshAdapter \/ WalletUpdateFails \/ LoadButton
  BY <1>1, <1>7
    DEF Execute, Connect, Disconnect, RefreshAdapter, WalletUpdateFails, LoadButton,
        walletVars, panelVars
<1>8. CASE WalletUpdate
  BY <1>1, <1>8, Zenon DEF WalletUpdate
<1>9. ASSUME NEW q \in Panels, Scroll(q) \/ BeginUpdate(q) PROVE list'[p] = transactions'
  BY <1>1, <1>9 DEF Scroll, BeginUpdate, walletVars, panelVars
<1>10. ASSUME NEW s \in Slots, SendQuery(s) \/ QueryFails(s) \/ EndUpdate(s)
       PROVE  list'[p] = transactions'
  BY <1>1, <1>10 DEF SendQuery, QueryFails, EndUpdate, walletVars, panelVars
<1> QED
  BY <1>2, <1>4, <1>5, <1>6, <1>7, <1>8, <1>9, <1>10, Zenon DEF Next

\* A panel that shows exactly the wallet's list goes on to do so: merging a page
\* into the wallet's list (Transactions.Add and Sort) and into the panel's
\* (InsertTransactions, AddTransactions) come to the same.
THEOREM PanelMatches == Spec => PanelMatchesWallet
<1>1. IInv /\ [Next]_vars =>
        [\A p \in Panels :
           /\ open[p] /\ list[p] = transactions
           /\ \A s \in Slots : s[1] # p => fetch'[s] = fetch[s]
           => list'[p] = transactions']_vars
  BY NextMatches
<1> QED BY <1>1, Invariance, PTL DEF Spec, PanelMatchesWallet

=============================================================================
