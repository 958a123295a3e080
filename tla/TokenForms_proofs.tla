-------------------------- MODULE TokenForms_proofs --------------------------
(***************************************************************************)
(* Theorems about TokenForms, for any number of forms of any kinds.  The   *)
(* invariant says where a value that is waited for, an event and a counted *)
(* event come from: each names a value that the reply to some form's       *)
(* message may add to that wallet's list, and for an event, as for what a  *)
(* page shows, a transaction that shows it is executed there.              *)
(***************************************************************************)
EXTENDS TokenForms, TLAPS, FiniteSetTheorems

\* Awaited, whatever the form shows.
Awaitable(f) ==
  LET hash == <<f, "hash">>
      qid == <<f, "qid">>
      InJetton == {"jetton", "owner"} \X {qid, hash}
      IfPresent(w) == (present \cap {w}) \X {qid}
  IN CASE kind[f] \in {"send", "nft"} -> {<<"owner", hash>>}
       [] kind[f] = "transfer" -> InJetton
       [] kind[f] = "burn" -> InJetton \cup IfPresent("minter")
       [] kind[f] = "mint" -> {<<"minter", qid>>, <<"owner", qid>>, <<"owner", hash>>} \cup IfPresent("jetton")
       [] kind[f] \in {"changeOwner", "changeContent"} -> {<<"minter", qid>>, <<"owner", hash>>}
       [] kind[f] = "create" -> {<<"owner", qid>>, <<"owner", hash>>}

WaitsOrigin == \A w \in Wallets : \A v \in waits[w] : <<w, v>> \in Awaitable(v[1])

PagesOrigin == \A w \in Wallets : \A v \in page[w] : Executed(w, v)

\* An event of a wallet and a value is justified.
Real(e) ==
  /\ e \in Awaitable(e[2][1]) /\ Executed(e[1], e[2])
  /\ e[1] = "owner" \/ e[2][2] = "qid"

EventsOrigin == \A e \in events : Real(e)

HeardOrigin == \A f \in Forms : \A e \in heard[f] : Real(e)

IInv ==
  /\ TypeOK
  /\ WaitsOrigin
  /\ PagesOrigin
  /\ EventsOrigin
  /\ HeardOrigin
  /\ DoneMeansExecuted
  /\ CountedInFull
  /\ WaitsShared

-----------------------------------------------------------------------------
(* Facts about the operators *)

\* What a reply adds is awaitable.
LEMMA AwaitedAwaitable ==
  ASSUME TypeOK, NEW f \in Forms
  PROVE  Awaited(f) \subseteq Awaitable(f)
<1>1. kind[f] \in Kinds
  BY ConstantsAssumption DEF TypeOK
<1>a. CASE kind[f] \in {"send", "nft", "create", "changeOwner", "changeContent"}
  BY <1>a DEF Awaited, Awaitable
<1>b. CASE kind[f] = "transfer"
  BY <1>b DEF Awaited, Awaitable
<1>c. CASE kind[f] = "mint"
  BY <1>c DEF Awaited, Awaitable
<1>d. CASE kind[f] = "burn"
  BY <1>d DEF Awaited, Awaitable
<1> QED
  BY <1>1, <1>a, <1>b, <1>c, <1>d DEF Kinds

\* A value awaitable in a wallet names a form.
LEMMA AwaitableTyped ==
  ASSUME TypeOK, NEW f \in Forms
  PROVE  Awaitable(f) \subseteq {e \in Events : e[2][1] = f}
<1>1. kind[f] \in Kinds /\ present \subseteq Wallets
  BY ConstantsAssumption DEF TypeOK, Wallets
<1>a. CASE kind[f] \in {"send", "nft", "create", "changeOwner", "changeContent"}
  BY <1>a DEF Awaitable, Events, Values, Wallets
<1>b. CASE kind[f] = "transfer"
  BY <1>b DEF Awaitable, Events, Values, Wallets
<1>c. CASE kind[f] = "mint"
  BY <1>1, <1>c DEF Awaitable, Events, Values, Wallets
<1>d. CASE kind[f] = "burn"
  BY <1>1, <1>d DEF Awaitable, Events, Values, Wallets
<1> QED
  BY <1>1, <1>a, <1>b, <1>c, <1>d DEF Kinds

\* An event of a form's own message says how far its chain has come.
LEMMA RealDone ==
  ASSUME TypeOK, NEW f \in Forms, NEW w \in Wallets, NEW x \in {"hash", "qid"},
         Executed(w, <<f, x>>)
  PROVE  /\ done[f] >= 1
         /\ kind[f] \in {"create", "changeOwner", "changeContent"} /\ ((x = "qid" /\ w # "owner") \/ (kind[f] = "create" /\ x = "qid")) => done[f] >= 2
         /\ kind[f] = "mint" /\ w = "owner" /\ x = "qid" => done[f] >= 4
         /\ kind[f] = "burn" /\ w = "minter" => done[f] >= 3
         /\ kind[f] = "burn" /\ w = "jetton" => done[f] >= 2
<1>1. PICK n \in 1..done[f] : Shows(w, f, x, n)
  BY DEF Executed
<1>2. done[f] \in Nat /\ done[f] <= Len(Chain(kind[f])) /\ kind[f] \in Kinds
  BY ConstantsAssumption DEF TypeOK
<1>3. n \in Nat /\ n >= 1 /\ n <= done[f]
  BY <1>2
<1>4. Chain(kind[f])[n].at = w /\ x \in Chain(kind[f])[n].values
  BY <1>1 DEF Shows
<1>a. CASE kind[f] \in {"send", "nft", "transfer"}
  BY <1>2, <1>3, <1>a
<1>b. CASE kind[f] = "create"
  BY <1>2, <1>3, <1>4, <1>b DEF Chain, Tx
<1>c. CASE kind[f] \in {"changeOwner", "changeContent"}
  BY <1>2, <1>3, <1>4, <1>c DEF Chain, Tx
<1>d. CASE kind[f] = "mint"
  <2>1. Chain(kind[f])[n] = <<Tx("owner", {"hash"}), Tx("minter", {"qid"}), Tx("jetton", {"qid"}), Tx("owner", {"qid"})>>[n]
    BY <1>d DEF Chain
  <2> QED
    BY <2>1, <1>2, <1>3, <1>4, <1>d DEF Chain, Tx
<1>e. CASE kind[f] = "burn"
  <2>1. Chain(kind[f])[n] = <<Tx("owner", {"hash", "qid"}), Tx("jetton", {"qid"}), Tx("minter", {"qid"}), Tx("owner", {"qid"})>>[n]
    BY <1>e DEF Chain
  <2> QED
    BY <2>1, <1>2, <1>3, <1>4, <1>e DEF Chain, Tx
<1> QED
  BY <1>2, <1>a, <1>b, <1>c, <1>d, <1>e DEF Kinds

\* Sets of at most three elements.
LEMMA SmallSets ==
  /\ Cardinality({}) = 0
  /\ \A a : IsFiniteSet({a}) /\ Cardinality({a}) <= 1
  /\ \A a, b : IsFiniteSet({a, b}) /\ Cardinality({a, b}) <= 2
  /\ \A a, b, c : IsFiniteSet({a, b, c}) /\ Cardinality({a, b, c}) <= 3
<1>1. Cardinality({}) = 0
  BY FS_EmptySet
<1>2. ASSUME NEW a PROVE IsFiniteSet({a}) /\ Cardinality({a}) = 1
  BY FS_Singleton
<1>3. ASSUME NEW S, IsFiniteSet(S), NEW x
      PROVE  IsFiniteSet(S \cup {x}) /\ (Cardinality(S \cup {x}) = Cardinality(S) \/ Cardinality(S \cup {x}) = Cardinality(S) + 1)
  BY <1>3, FS_AddElement
<1>4. ASSUME NEW a, NEW b
      PROVE  IsFiniteSet({a, b}) /\ (Cardinality({a, b}) = 1 \/ Cardinality({a, b}) = 2)
  <2>1. {a, b} = {a} \cup {b}
    OBVIOUS
  <2>2. IsFiniteSet({a}) /\ Cardinality({a}) = 1
    BY <1>2
  <2>3. IsFiniteSet({a} \cup {b}) /\ (Cardinality({a} \cup {b}) = Cardinality({a}) \/ Cardinality({a} \cup {b}) = Cardinality({a}) + 1)
    BY <2>2, <1>3
  <2> QED
    BY <2>1, <2>2, <2>3
<1>5. ASSUME NEW a, NEW b, NEW c
      PROVE  IsFiniteSet({a, b, c}) /\ Cardinality({a, b, c}) <= 3
  <2>1. {a, b, c} = {a, b} \cup {c}
    OBVIOUS
  <2>2. IsFiniteSet({a, b}) /\ (Cardinality({a, b}) = 1 \/ Cardinality({a, b}) = 2)
    BY <1>4
  <2>3. IsFiniteSet({a, b} \cup {c}) /\ (Cardinality({a, b} \cup {c}) = Cardinality({a, b}) \/ Cardinality({a, b} \cup {c}) = Cardinality({a, b}) + 1)
    BY <2>2, <1>3
  <2> QED
    BY <2>1, <2>2, <2>3
<1>6. \A a : IsFiniteSet({a}) /\ Cardinality({a}) <= 1
  BY <1>2
<1>7. \A a, b : IsFiniteSet({a, b}) /\ Cardinality({a, b}) <= 2
  <2> SUFFICES ASSUME NEW a, NEW b PROVE IsFiniteSet({a, b}) /\ Cardinality({a, b}) <= 2
    OBVIOUS
  <2>1. IsFiniteSet({a, b}) /\ (Cardinality({a, b}) = 1 \/ Cardinality({a, b}) = 2)
    BY <1>4
  <2> QED
    BY <2>1
<1> QED
  BY <1>1, <1>6, <1>7, <1>5

\* A set is no larger than a small set that it is a part of.
LEMMA SmallSubsets ==
  ASSUME NEW H, NEW S, IsFiniteSet(S), NEW k \in Nat, Cardinality(S) <= k, H \subseteq S
  PROVE  Cardinality(H) \in Nat /\ Cardinality(H) <= k
BY FS_Subset, FS_CardinalityType

\* A counting form that has heard enough of its own events has heard the one
\* that comes last.
LEMMA CountedEnds ==
  ASSUME TypeOK, NEW f \in Forms, kind[f] \in Counting, NEW H,
         \A e \in H : Real(e) /\ e \in Events /\ e[2][1] = f,
         Cardinality(H) \in Enough(f)
  PROVE  done[f] >= Needed(f)
<1> DEFINE hash == <<f, "hash">>
           qid == <<f, "qid">>
<1>1. \A e \in H : e \in Awaitable(f) /\ (e[1] = "owner" \/ e[2][2] = "qid")
  BY DEF Real
<1>2. ASSUME NEW w \in Wallets, NEW x \in {"hash", "qid"}, <<w, <<f, x>>>> \in H
      PROVE  Executed(w, <<f, x>>)
  BY <1>2 DEF Real
<1>3. {"owner", "minter", "jetton"} \subseteq Wallets
  BY DEF Wallets
<1>a. CASE kind[f] = "nft"
  <2>1. H \subseteq {<<"owner", hash>>}
    BY <1>1, <1>a DEF Awaitable
  <2>2. H # {}
    BY <1>a, SmallSets DEF Enough
  <2>3. done[f] >= 1
    BY <2>1, <2>2, <1>2, <1>3, RealDone
  <2> QED
    BY <2>3, <1>a DEF Needed, Chain
<1>b. CASE kind[f] = "create"
  <2>1. ASSUME <<"owner", qid>> \notin H PROVE FALSE
    <3>1. H \subseteq {<<"owner", hash>>}
      BY <1>1, <1>b, <2>1 DEF Awaitable
    <3>2. Cardinality(H) <= 1
      BY <3>1, SmallSets, SmallSubsets
    <3> QED
      BY <3>2, <1>b DEF Enough
  <2>2. done[f] >= 2
    BY <2>1, <1>2, <1>3, <1>b, RealDone
  <2> QED
    BY <2>2, <1>b DEF Needed, Chain
<1>c. CASE kind[f] = "mint"
  <2>1. ASSUME <<"owner", qid>> \notin H PROVE FALSE
    <3>a. CASE "jetton" \in present
      <4>1. H \subseteq {<<"minter", qid>>, <<"jetton", qid>>, <<"owner", hash>>}
        BY <1>1, <1>c, <2>1 DEF Awaitable
      <4>2. Cardinality(H) <= 3
        BY <4>1, SmallSets, SmallSubsets
      <4> QED
        BY <4>2, <3>a, <1>c DEF Enough
    <3>b. CASE "jetton" \notin present
      <4>1. H \subseteq {<<"minter", qid>>, <<"owner", hash>>}
        BY <1>1, <1>c, <2>1, <3>b DEF Awaitable
      <4>2. Cardinality(H) <= 2
        BY <4>1, SmallSets, SmallSubsets
      <4> QED
        BY <4>2, <3>b, <1>c DEF Enough
    <3> QED
      BY <3>a, <3>b
  <2>2. done[f] >= 4
    BY <2>1, <1>2, <1>3, <1>c, RealDone
  <2> QED
    BY <2>2, <1>c DEF Needed, Chain
<1>d. CASE kind[f] = "burn" /\ "minter" \in present
  <2>1. ASSUME <<"minter", qid>> \notin H PROVE FALSE
    <3>1. H \subseteq {<<"jetton", qid>>, <<"owner", qid>>, <<"owner", hash>>}
      BY <1>1, <1>d, <2>1 DEF Awaitable
    <3>2. Cardinality(H) <= 3
      BY <3>1, SmallSets, SmallSubsets
    <3> QED
      BY <3>2, <1>d DEF Enough
  <2>2. done[f] >= 3
    BY <2>1, <1>2, <1>3, <1>d, RealDone
  <2> QED
    BY <2>2, <1>d DEF Needed
<1>e. CASE kind[f] = "burn" /\ "minter" \notin present
  <2>1. ASSUME <<"jetton", qid>> \notin H PROVE FALSE
    <3>1. H \subseteq {<<"owner", qid>>, <<"owner", hash>>}
      BY <1>1, <1>e, <2>1 DEF Awaitable
    <3>2. Cardinality(H) <= 2
      BY <3>1, SmallSets, SmallSubsets
    <3> QED
      BY <3>2, <1>e DEF Enough
  <2>2. done[f] >= 2
    BY <2>1, <1>2, <1>3, <1>e, RealDone
  <2> QED
    BY <2>2, <1>e DEF Needed
<1> QED
  BY <1>a, <1>b, <1>c, <1>d, <1>e DEF Counting

\* What ends the waiting of a form that does not count is its own transaction.
LEMMA OwnEnds ==
  ASSUME TypeOK, NEW f \in Forms, kind[f] \notin Counting, NEW w \in Wallets, NEW v \in Values,
         Real(<<w, v>>), Ends(f, v)
  PROVE  done[f] >= (IF kind[f] = "changeOwner" THEN 2 ELSE 1)
<1>1. Executed(w, v) /\ <<w, v>> \in Awaitable(v[1])
  BY DEF Real
<1>a. CASE kind[f] = "changeOwner"
  <2>1. v = <<f, "qid">>
    BY <1>a DEF Ends
  <2>2. w # "owner"
    BY <1>1, <2>1, <1>a DEF Awaitable
  <2> QED
    BY <1>1, <2>1, <2>2, <1>a, RealDone
<1>b. CASE kind[f] # "changeOwner"
  <2>1. v = <<f, "hash">>
    BY <1>b DEF Ends
  <2> QED
    BY <1>1, <2>1, <1>b, RealDone
<1> QED
  BY <1>a, <1>b

\* What is executed stays so.
LEMMA ExecutedStable ==
  ASSUME TypeOK, kind' = kind,
         \A f \in Forms : done'[f] \in Nat /\ done'[f] >= done[f],
         NEW w \in Wallets, NEW v \in Values, Executed(w, v)
  PROVE  Executed(w, v)'
<1>1. v[1] \in Forms
  BY DEF Values
<1>2. PICK n \in 1..done[v[1]] : Shows(w, v[1], v[2], n)
  BY DEF Executed
<1>3. n \in 1..done'[v[1]]
  BY <1>1, <1>2 DEF TypeOK
<1>4. Shows(w, v[1], v[2], n)'
  BY <1>2 DEF Shows, Chain, Tx
<1> QED
  BY <1>3, <1>4 DEF Executed

\* What was justified stays so.
LEMMA RealStable ==
  ASSUME TypeOK, kind' = kind, present' = present,
         \A f \in Forms : done'[f] \in Nat /\ done'[f] >= done[f],
         NEW e \in Events, Real(e)
  PROVE  Real(e)'
<1>1. Awaitable(e[2][1])' = Awaitable(e[2][1])
  BY DEF Awaitable
<1>2. e[1] \in Wallets /\ e[2] \in Values
  BY DEF Events
<1>3. Executed(e[1], e[2])'
  BY <1>2, ExecutedStable DEF Real
<1> QED
  BY <1>1, <1>3 DEF Real

\* A step of the panels: pages stay, are answered, or are asked for now.
PanelStep ==
  /\ asking' \subseteq viewed'
  /\ page' \in [Wallets -> SUBSET Values]
  /\ \A w \in Wallets : page'[w] \subseteq page[w] \/ \A v \in page'[w] : Executed(w, v)'

LEMMA AskStep ==
  ASSUME TypeOK, NEW w \in viewed', viewed' \subseteq Wallets, viewed \subseteq viewed', Ask(w)
  PROVE  PanelStep
<1>1. asking' \subseteq viewed'
  BY DEF Ask, TypeOK
<1>2. /\ page' \in [Wallets -> SUBSET Values]
      /\ \A x \in Wallets \ {w} : page'[x] = page[x]
      /\ \A v \in page'[w] : Executed(w, v)'
  BY DEF Ask, TypeOK
<1> QED
  BY <1>1, <1>2 DEF PanelStep

\* The pages stay justified.
LEMMA PagesStable ==
  ASSUME TypeOK, PagesOrigin, kind' = kind, PanelStep,
         \A f \in Forms : done'[f] \in Nat /\ done'[f] >= done[f]
  PROVE  PagesOrigin'
<1> SUFFICES ASSUME NEW w \in Wallets, NEW v \in page'[w] PROVE Executed(w, v)'
  BY DEF PagesOrigin
<1>1. v \in Values
  BY DEF PanelStep
<1>a. CASE v \in page[w]
  BY <1>1, <1>a, ExecutedStable DEF PagesOrigin
<1>b. CASE v \notin page[w]
  BY <1>b DEF PanelStep
<1> QED
  BY <1>a, <1>b

-----------------------------------------------------------------------------
(* The invariant *)

LEMMA InitIInv == Init => IInv
<1> SUFFICES ASSUME Init PROVE IInv
  OBVIOUS
<1>1. TypeOK
  <2>1. kind \in [Forms -> Kinds] /\ \A f \in Forms : Len(Chain(kind[f])) >= 0
    <3>1. ASSUME NEW k \in Kinds PROVE Len(Chain(k)) >= 0
      BY DEF Kinds, Chain, Tx
    <3> QED
      BY <3>1 DEF Init
  <2> QED
    BY <2>1 DEF Init, TypeOK, Wallets, Events
<1>2. WaitsOrigin /\ PagesOrigin /\ EventsOrigin /\ HeardOrigin /\ WaitsShared
  BY DEF Init, WaitsOrigin, PagesOrigin, EventsOrigin, HeardOrigin, WaitsShared, Wallets
<1>3. DoneMeansExecuted /\ CountedInFull
  BY DEF Init, DoneMeansExecuted, CountedInFull
<1> QED
  BY <1>1, <1>2, <1>3 DEF IInv

\* The steps that leave what is waited for, the events and the chain alone, and
\* show no form as completed.
LEMMA QuietStep ==
  ASSUME IInv, TypeOK', PanelStep,
         UNCHANGED <<kind, present, waits, events, done>>,
         \A f \in Forms : heard'[f] \subseteq heard[f] /\ (panel'[f] = "done" => panel[f] = "done" /\ heard'[f] = heard[f])
  PROVE  IInv'
<1>0. TypeOK
  BY DEF IInv
<1>1. \A e : Real(e)' <=> Real(e)
  BY DEF Real, Executed, Shows, Chain, Awaitable, Tx
<1>2. WaitsOrigin'
  BY DEF IInv, WaitsOrigin, Awaitable
<1>3. EventsOrigin' /\ HeardOrigin'
  BY <1>1 DEF IInv, EventsOrigin, HeardOrigin
<1>4. DoneMeansExecuted'
  BY DEF IInv, DoneMeansExecuted
<1>5. CountedInFull'
  BY DEF IInv, CountedInFull, Undisturbed, Needed, Chain, Tx
<1>6. WaitsShared'
  BY DEF IInv, WaitsShared
<1>7. PagesOrigin'
  <2>1. \A f \in Forms : done'[f] \in Nat /\ done'[f] >= done[f]
    BY <1>0 DEF TypeOK
  <2> QED
    BY <2>1, <1>0, PagesStable DEF IInv
<1> QED
  BY <1>2, <1>3, <1>4, <1>5, <1>6, <1>7 DEF IInv

LEMMA ReplyStep ==
  ASSUME IInv, NEW f \in Forms, Reply(f)
  PROVE  IInv'
<1>0. TypeOK
  BY DEF IInv
<1>u. UNCHANGED <<kind, present, viewed, listVars, events, panel, heard, done>>
  BY DEF Reply
<1>w. waits' = [w \in Wallets |-> waits[w] \cup {v \in Values : <<w, v>> \in Awaited(f)}]
  BY DEF Reply
<1>1. TypeOK'
  <2>1. waits' \in [Wallets -> SUBSET Values]
    BY <1>0, <1>w DEF TypeOK
  <2>2. msg' \in [Forms -> {"none", "posted", "accepted", "replied"}]
    BY <1>0 DEF TypeOK, Reply
  <2> QED
    BY <1>0, <1>u, <2>1, <2>2 DEF listVars, TypeOK, Chain, Tx
<1>2. \A e : Real(e)' <=> Real(e)
  BY <1>u DEF Real, Executed, Shows, Chain, Awaitable, Tx
<1>p. PagesOrigin'
  <2>1. \A x \in Wallets, y \in Values : Executed(x, y)' <=> Executed(x, y)
    BY <1>u DEF Executed, Shows, Chain, Tx
  <2>2. page' = page
    BY <1>u DEF listVars
  <2> QED
    BY <2>1, <2>2, <1>0 DEF IInv, PagesOrigin, TypeOK
<1>3. WaitsOrigin'
  <2> SUFFICES ASSUME NEW w \in Wallets, NEW v \in waits'[w] PROVE <<w, v>> \in Awaitable(v[1])'
    BY DEF WaitsOrigin
  <2>1. Awaitable(v[1])' = Awaitable(v[1])
    BY <1>u DEF Awaitable
  <2>a. CASE v \in waits[w]
    BY <2>1, <2>a DEF IInv, WaitsOrigin
  <2>b. CASE v \in Values /\ <<w, v>> \in Awaited(f)
    <3>1. <<w, v>> \in Awaitable(f)
      BY <2>b, <1>0, AwaitedAwaitable
    <3>2. v[1] = f
      BY <3>1, <1>0, AwaitableTyped
    <3> QED
      BY <2>1, <3>1, <3>2
  <2> QED
    BY <1>w, <2>a, <2>b
<1>4. EventsOrigin' /\ HeardOrigin'
  BY <1>2, <1>u DEF IInv, EventsOrigin, HeardOrigin
<1>5. DoneMeansExecuted'
  BY <1>u DEF IInv, DoneMeansExecuted
<1>6. CountedInFull'
  BY <1>u DEF IInv, CountedInFull, Undisturbed, Needed, Chain, Tx
<1>7. WaitsShared'
  <2> SUFFICES ASSUME NEW v \in waits'["jetton"], v[2] = "hash"
               PROVE  v \in waits'["owner"] \/ <<"owner", v>> \in events'
    BY DEF WaitsShared
  <2>0. "jetton" \in Wallets /\ "owner" \in Wallets
    BY DEF Wallets
  <2>a. CASE v \in waits["jetton"]
    BY <2>a, <2>0, <1>u, <1>w DEF IInv, WaitsShared
  <2>b. CASE v \in Values /\ <<"jetton", v>> \in Awaited(f)
    <3>1. <<"owner", v>> \in Awaited(f)
      <4>1. kind[f] \in Kinds
        BY <1>0 DEF TypeOK
      <4>a. CASE kind[f] \in {"send", "nft", "create", "changeOwner", "changeContent"}
        BY <2>b, <4>a DEF Awaited
      <4>b. CASE kind[f] = "transfer"
        BY <2>b, <4>b DEF Awaited
      <4>c. CASE kind[f] = "mint"
        BY <2>b, <4>c DEF Awaited
      <4>d. CASE kind[f] = "burn"
        BY <2>b, <4>d DEF Awaited
      <4> QED
        BY <4>1, <4>a, <4>b, <4>c, <4>d DEF Kinds
    <3> QED
      BY <3>1, <2>0, <2>b, <1>w
  <2> QED
    BY <2>0, <1>w, <2>a, <2>b
<1> QED
  BY <1>1, <1>3, <1>4, <1>5, <1>6, <1>7, <1>p DEF IInv

LEMMA ExecuteStep ==
  ASSUME IInv, NEW f \in Forms, Execute(f)
  PROVE  IInv'
<1>0. TypeOK
  BY DEF IInv
<1>u. UNCHANGED <<kind, present, viewed, shown, waits, events, panel, heard, msg>>
  BY DEF Execute, formVars
<1>w. done' = [done EXCEPT ![f] = @ + 1] /\ done[f] < Len(Chain(kind[f]))
  BY DEF Execute
<1>p. PanelStep
  <2>1. viewed' \subseteq Wallets /\ viewed \subseteq viewed'
    BY <1>0, <1>u DEF TypeOK, Wallets
  <2>a. ASSUME NEW w \in viewed, Ask(w) PROVE PanelStep
    BY <2>1, <2>a, <1>0, AskStep
  <2>b. CASE UNCHANGED <<asking, page>>
    BY <2>b, <1>0, <1>u DEF PanelStep, TypeOK
  <2> QED
    BY <2>a, <2>b DEF Execute
<1>l. ASSUME NEW k \in Kinds PROVE Len(Chain(k)) \in Nat
  BY DEF Kinds, Chain, Tx
<1>1. TypeOK'
  <2>1. done' \in [Forms -> Nat]
    BY <1>0, <1>w DEF TypeOK
  <2>2. \A g \in Forms : done'[g] <= Len(Chain(kind[g]))
    <3>1. Len(Chain(kind[f])) \in Nat
      BY <1>0, <1>l DEF TypeOK
    <3> QED
      BY <1>0, <1>w, <3>1 DEF TypeOK
  <2>3. asking' \subseteq viewed' /\ page' \in [Wallets -> SUBSET Values]
    BY <1>p DEF PanelStep
  <2> QED
    BY <1>0, <1>u, <2>1, <2>2, <2>3 DEF TypeOK, Chain, Tx
<1>2. \A g \in Forms : done'[g] \in Nat /\ done'[g] >= done[g] /\ done[g] \in Nat
  BY <1>0, <1>w DEF TypeOK
<1>3. \A e \in Events : Real(e) => Real(e)'
  BY <1>0, <1>u, <1>2, RealStable
<1>4. WaitsOrigin'
  BY <1>u DEF IInv, WaitsOrigin, Awaitable
<1>5. EventsOrigin' /\ HeardOrigin'
  BY <1>0, <1>3, <1>u DEF IInv, TypeOK, EventsOrigin, HeardOrigin
<1>6. DoneMeansExecuted'
  <2> SUFFICES ASSUME NEW g \in Forms, panel'[g] = "done", kind'[g] \notin Counting
               PROVE  done'[g] >= (IF kind'[g] = "changeOwner" THEN 2 ELSE 1)
    BY DEF DoneMeansExecuted
  <2>1. done[g] >= (IF kind[g] = "changeOwner" THEN 2 ELSE 1)
    BY <1>u DEF IInv, DoneMeansExecuted
  <2> QED
    BY <1>u, <1>2, <2>1
<1>7. CountedInFull'
  <2> SUFFICES ASSUME NEW g \in Forms, panel'[g] = "done", kind'[g] \in Counting, Undisturbed(g)'
               PROVE  done'[g] >= Needed(g)'
    BY DEF CountedInFull
  <2>1. done[g] >= Needed(g)
    BY <1>u DEF IInv, CountedInFull, Undisturbed
  <2>2. Needed(g)' = Needed(g)
    BY <1>u DEF Needed, Chain, Tx
  <2>3. Needed(g) \in Nat
    BY <1>0, <1>l DEF Needed, TypeOK
  <2> QED
    BY <1>2, <2>1, <2>2, <2>3
<1>8. WaitsShared'
  BY <1>u DEF IInv, WaitsShared
<1>9. PagesOrigin'
  BY <1>0, <1>2, <1>p, <1>u, PagesStable DEF IInv
<1> QED
  BY <1>1, <1>4, <1>5, <1>6, <1>7, <1>8, <1>9 DEF IInv

LEMMA UpdateStep ==
  ASSUME IInv, NEW w \in Wallets, UpdateWaitTransactions(w)
  PROVE  IInv'
<1>0. TypeOK
  BY DEF IInv
<1>u. UNCHANGED <<kind, present, viewed, panel, heard, msg, done>>
  BY DEF UpdateWaitTransactions, Answered, formVars
<1>w. /\ waits' = [waits EXCEPT ![w] = @ \ Found(w)]
      /\ events' = events \cup ({w} \X Found(w))
      /\ shown' = [shown EXCEPT ![w] = @ \cup page[w]]
  BY DEF UpdateWaitTransactions
<1>p. PanelStep
  BY <1>0, <1>u DEF UpdateWaitTransactions, Answered, PanelStep, TypeOK
<1>f. Found(w) \subseteq waits[w] /\ waits[w] \subseteq Values
  BY <1>0 DEF Found, TypeOK
<1>1. TypeOK'
  <2>1. waits' \in [Wallets -> SUBSET Values]
    BY <1>0, <1>w DEF TypeOK
  <2>2. events' \subseteq Events
    BY <1>0, <1>w, <1>f DEF TypeOK, Events
  <2>3. /\ asking' \subseteq viewed' /\ page' \in [Wallets -> SUBSET Values]
        /\ shown' \in [Wallets -> SUBSET Values]
    BY <1>0, <1>w, <1>p DEF TypeOK, PanelStep
  <2> QED
    BY <1>0, <1>u, <2>1, <2>2, <2>3 DEF TypeOK, Chain, Tx
<1>2. \A e : Real(e)' <=> Real(e)
  BY <1>u DEF Real, Executed, Shows, Chain, Awaitable, Tx
<1>3. WaitsOrigin'
  BY <1>0, <1>u, <1>w DEF IInv, TypeOK, WaitsOrigin, Awaitable
<1>4. EventsOrigin'
  <2> SUFFICES ASSUME NEW e \in events' PROVE Real(e)
    BY <1>2 DEF EventsOrigin
  <2>a. CASE e \in events
    BY <2>a DEF IInv, EventsOrigin
  <2>b. CASE e \in {w} \X Found(w)
    <3>1. PICK v \in Found(w) : e = <<w, v>>
      BY <2>b
    <3>2. Executed(w, v) /\ (w = "owner" \/ v[2] = "qid") /\ v \in waits[w]
      BY DEF Found, IInv, PagesOrigin
    <3>3. <<w, v>> \in Awaitable(v[1])
      BY <3>2 DEF IInv, WaitsOrigin
    <3> QED
      BY <3>1, <3>2, <3>3 DEF Real
  <2> QED
    BY <1>w, <2>a, <2>b
<1>5. HeardOrigin'
  BY <1>2, <1>u DEF IInv, HeardOrigin
<1>6. DoneMeansExecuted'
  BY <1>u DEF IInv, DoneMeansExecuted
<1>7. CountedInFull'
  BY <1>u DEF IInv, CountedInFull, Undisturbed, Needed, Chain, Tx
<1>8. WaitsShared'
  <2> SUFFICES ASSUME NEW v \in waits'["jetton"], v[2] = "hash"
               PROVE  v \in waits'["owner"] \/ <<"owner", v>> \in events'
    BY DEF WaitsShared
  <2>1. v \in waits["jetton"]
    BY <1>0, <1>w DEF TypeOK, Wallets
  <2>2. v \in waits["owner"] \/ <<"owner", v>> \in events
    BY <2>1 DEF IInv, WaitsShared
  <2>a. CASE w = "owner"
    BY <2>2, <2>a, <1>0, <1>w DEF TypeOK
  <2>b. CASE w # "owner"
    BY <2>2, <2>b, <1>0, <1>w DEF TypeOK, Wallets
  <2> QED
    BY <2>a, <2>b
<1>9. PagesOrigin'
  <2>1. \A f \in Forms : done'[f] \in Nat /\ done'[f] >= done[f]
    BY <1>0, <1>u DEF TypeOK
  <2> QED
    BY <2>1, <1>0, <1>p, <1>u, PagesStable DEF IInv
<1> QED
  BY <1>1, <1>3, <1>4, <1>5, <1>6, <1>7, <1>8, <1>9 DEF IInv

LEMMA CompleteStep ==
  ASSUME IInv, NEW w \in Wallets, NEW v \in Values, TransactionComplete(w, v)
  PROVE  IInv'
<1>0. TypeOK
  BY DEF IInv
<1>u. UNCHANGED <<kind, present, viewed, listVars, msg, done>>
  BY DEF TransactionComplete
<1>w. /\ <<w, v>> \in events
      /\ events' = events \ {<<w, v>>}
      /\ waits' = [waits EXCEPT !["jetton"] = @ \ Forgotten(w, v)]
      /\ heard' = [f \in Forms |-> IF Counts(f, w) THEN heard[f] \cup {<<w, v>>} ELSE heard[f]]
  BY DEF TransactionComplete
<1>p. panel' = [f \in Forms |->
        IF panel[f] = "wait"
           /\ \/ kind[f] \notin Counting /\ Hears(f, w) /\ Ends(f, v)
              \/ Counts(f, w) /\ Cardinality(heard'[f]) \in Enough(f)
          THEN "done" ELSE panel[f]]
  BY DEF TransactionComplete
<1>r. <<w, v>> \in Events /\ Real(<<w, v>>)
  BY <1>w DEF IInv, EventsOrigin, Events
<1>1. TypeOK'
  <2>1. waits' \in [Wallets -> SUBSET Values]
    BY <1>0, <1>w DEF TypeOK
  <2>2. heard' \in [Forms -> SUBSET Events]
    BY <1>0, <1>w, <1>r DEF TypeOK
  <2>3. panel' \in [Forms -> {"unopened", "open", "wait", "error", "done", "closed"}]
    BY <1>0, <1>p DEF TypeOK
  <2>4. events' \subseteq Events
    BY <1>0, <1>w DEF TypeOK
  <2> QED
    BY <1>0, <1>u, <2>1, <2>2, <2>3, <2>4 DEF listVars, TypeOK, Chain, Tx
<1>2. \A e : Real(e)' <=> Real(e)
  BY <1>u DEF Real, Executed, Shows, Chain, Awaitable, Tx
<1>3. WaitsOrigin'
  <2>1. \A x \in Wallets : waits'[x] \subseteq waits[x]
    BY <1>0, <1>w DEF TypeOK
  <2> QED
    BY <2>1, <1>u DEF IInv, WaitsOrigin, Awaitable
<1>4. EventsOrigin'
  BY <1>2, <1>w DEF IInv, EventsOrigin
<1>5. HeardOrigin'
  BY <1>2, <1>r, <1>w DEF IInv, HeardOrigin
<1>6. DoneMeansExecuted'
  <2> SUFFICES ASSUME NEW f \in Forms, panel'[f] = "done", kind'[f] \notin Counting
               PROVE  done[f] >= (IF kind[f] = "changeOwner" THEN 2 ELSE 1)
    BY <1>u DEF DoneMeansExecuted
  <2>a. CASE panel[f] = "done"
    BY <2>a, <1>u DEF IInv, DoneMeansExecuted
  <2>b. CASE panel[f] # "done"
    <3>1. ~Counts(f, w)
      BY <1>u DEF Counts
    <3>2. Ends(f, v)
      BY <2>b, <3>1, <1>p
    <3> QED
      BY <3>2, <1>0, <1>r, <1>u, OwnEnds
  <2> QED
    BY <2>a, <2>b
<1>7. CountedInFull'
  <2> SUFFICES ASSUME NEW f \in Forms, panel'[f] = "done", kind'[f] \in Counting, Undisturbed(f)'
               PROVE  done[f] >= Needed(f)
    BY <1>u DEF CountedInFull, Needed, Chain, Tx
  <2>1. heard[f] \subseteq heard'[f]
    BY <1>w
  <2>2. Undisturbed(f)
    BY <2>1 DEF Undisturbed
  <2>a. CASE panel[f] = "done"
    BY <2>2, <2>a, <1>u DEF IInv, CountedInFull
  <2>b. CASE panel[f] # "done"
    <3>1. Cardinality(heard'[f]) \in Enough(f)
      BY <2>b, <1>u, <1>p
    <3>2. \A e \in heard'[f] : Real(e)
      BY <1>5, <1>2 DEF HeardOrigin
    <3>3. \A e \in heard'[f] : e \in Events
      BY <1>1 DEF TypeOK
    <3>4. \A e \in heard'[f] : e[2][1] = f
      BY DEF Undisturbed
    <3>5. kind[f] \in Counting
      BY <1>u
    <3> QED
      BY <3>1, <3>2, <3>3, <3>4, <3>5, <1>0, CountedEnds
  <2> QED
    BY <2>a, <2>b
<1>8. WaitsShared'
  <2> SUFFICES ASSUME NEW u \in waits'["jetton"], u[2] = "hash"
               PROVE  u \in waits'["owner"] \/ <<"owner", u>> \in events'
    BY DEF WaitsShared
  <2>1. u \in waits["jetton"] /\ u \notin Forgotten(w, v) /\ waits'["owner"] = waits["owner"]
    BY <1>0, <1>w DEF TypeOK, Wallets
  <2>2. u \in waits["owner"] \/ <<"owner", u>> \in events
    BY <2>1 DEF IInv, WaitsShared
  <2>3. <<w, v>> # <<"owner", u>>
    BY <2>1 DEF Forgotten
  <2> QED
    BY <2>1, <2>2, <2>3, <1>w
<1>9. PagesOrigin'
  <2>1. \A x \in Wallets, y \in Values : Executed(x, y)' <=> Executed(x, y)
    BY <1>u DEF Executed, Shows, Chain, Tx
  <2>2. page' = page
    BY <1>u DEF listVars
  <2> QED
    BY <2>1, <2>2, <1>0 DEF IInv, PagesOrigin, TypeOK
<1> QED
  BY <1>1, <1>3, <1>4, <1>5, <1>6, <1>7, <1>8, <1>9 DEF IInv

LEMMA NextIInv == IInv /\ [Next]_vars => IInv'
<1> SUFFICES ASSUME IInv, [Next]_vars PROVE IInv'
  OBVIOUS
<1>0. TypeOK
  BY DEF IInv
<1>1. ASSUME NEW f \in Forms, Open(f) PROVE IInv'
  <2>1. TypeOK'
    BY <1>0, <1>1 DEF Open, walletVars, listVars, TypeOK, Chain, Tx
  <2>2. PanelStep
    BY <1>0, <1>1 DEF Open, walletVars, listVars, TypeOK, PanelStep
  <2> QED
    BY <2>1, <2>2, <1>0, <1>1, QuietStep DEF Open, walletVars, TypeOK
<1>2. ASSUME NEW f \in Forms, Send(f) PROVE IInv'
  <2>1. TypeOK'
    BY <1>0, <1>2 DEF Send, walletVars, listVars, TypeOK, Chain, Tx
  <2>2. PanelStep
    BY <1>0, <1>2 DEF Send, walletVars, listVars, TypeOK, PanelStep
  <2> QED
    BY <2>1, <2>2, <1>0, <1>2, QuietStep DEF Send, walletVars, TypeOK
<1>3. ASSUME NEW f \in Forms, Close(f) PROVE IInv'
  <2>1. TypeOK'
    BY <1>0, <1>3 DEF Close, walletVars, listVars, TypeOK, Chain, Tx
  <2>2. PanelStep
    BY <1>0, <1>3 DEF Close, walletVars, listVars, TypeOK, PanelStep
  <2> QED
    BY <2>1, <2>2, <1>0, <1>3, QuietStep DEF Close, walletVars, TypeOK
<1>4. ASSUME NEW f \in Forms, ReplyFails(f) PROVE IInv'
  <2>1. TypeOK'
    BY <1>0, <1>4 DEF ReplyFails, walletVars, listVars, TypeOK, Chain, Tx
  <2>2. PanelStep
    BY <1>0, <1>4 DEF ReplyFails, walletVars, listVars, TypeOK, PanelStep
  <2> QED
    BY <2>1, <2>2, <1>0, <1>4, QuietStep DEF ReplyFails, walletVars, TypeOK
<1>5. ASSUME NEW f \in Forms, Accept(f) PROVE IInv'
  <2>1. TypeOK'
    BY <1>0, <1>5 DEF Accept, walletVars, listVars, TypeOK, Chain, Tx
  <2>2. PanelStep
    BY <1>0, <1>5 DEF Accept, walletVars, listVars, TypeOK, PanelStep
  <2> QED
    BY <2>1, <2>2, <1>0, <1>5, QuietStep DEF Accept, walletVars, TypeOK
<1>6. ASSUME NEW w \in Wallets, View(w) PROVE IInv'
  <2>1. viewed' = viewed \cup {w} /\ viewed' \subseteq present \cup {"owner"} /\ viewed' \subseteq Wallets
    BY <1>0, <1>6 DEF View, TypeOK, Wallets
  <2>2. PanelStep
    <3>a. CASE Ask(w)
      BY <2>1, <3>a, <1>0, AskStep
    <3>b. CASE UNCHANGED <<asking, page>>
      BY <2>1, <3>b, <1>0 DEF PanelStep, TypeOK
    <3> QED
      BY <3>a, <3>b, <1>6 DEF View
  <2>3. TypeOK'
    BY <2>1, <2>2, <1>0, <1>6 DEF PanelStep, View, formVars, TypeOK, Chain, Tx
  <2> QED
    BY <2>2, <2>3, <1>0, <1>6, QuietStep DEF View, formVars, TypeOK
<1>8. ASSUME NEW w \in Wallets, QueryFails(w) PROVE IInv'
  <2>1. PanelStep
    BY <1>0, <1>8 DEF QueryFails, Answered, PanelStep, TypeOK
  <2>2. TypeOK'
    BY <2>1, <1>0, <1>8 DEF PanelStep, QueryFails, Answered, formVars, TypeOK, Chain, Tx
  <2> QED
    BY <2>1, <2>2, <1>0, <1>8, QuietStep DEF QueryFails, Answered, formVars, TypeOK
<1>7. CASE UNCHANGED vars
  <2>1. TypeOK'
    BY <1>0, <1>7 DEF vars, walletVars, listVars, formVars, TypeOK, Chain, Tx
  <2>2. PanelStep
    BY <1>0, <1>7 DEF vars, walletVars, listVars, TypeOK, PanelStep
  <2> QED
    BY <2>1, <2>2, <1>0, <1>7, QuietStep DEF vars, walletVars, formVars, TypeOK
<1> QED
  BY <1>1, <1>2, <1>3, <1>4, <1>5, <1>6, <1>7, <1>8, ReplyStep, ExecuteStep, UpdateStep, CompleteStep DEF Next

THEOREM Invariance == Spec => []IInv
<1>1. Init => IInv
  BY InitIInv
<1>2. IInv /\ [Next]_vars => IInv'
  BY NextIInv
<1> QED
  BY <1>1, <1>2, PTL DEF Spec

\* Every variable has its type.
THEOREM TypeCorrect == Spec => []TypeOK
<1>1. IInv => TypeOK
  BY DEF IInv
<1> QED
  BY <1>1, Invariance, PTL

\* A form that compares values says "completed" only when its own transaction is
\* executed (SendController, ChangeOwnerForm, ChangeContentForm).
THEOREM DoneMeansExecutedHolds == Spec => []DoneMeansExecuted
<1>1. IInv => DoneMeansExecuted
  BY DEF IInv
<1> QED
  BY <1>1, Invariance, PTL

\* A form that counts events ends with its last transaction when it has counted
\* its own events only (MintCoinsForm, BurnCoinsForm, the creation of tokens).
THEOREM CountedInFullHolds == Spec => []CountedInFull
<1>1. IInv => CountedInFull
  BY DEF IInv
<1> QED
  BY <1>1, Invariance, PTL

\* A JettonWallet and its owner agree on the hashes they wait for
\* (JettonWallet.WaitTransactions_Added, OnTransactionComplete).
THEOREM WaitsSharedHolds == Spec => []WaitsShared
<1>1. IInv => WaitsShared
  BY DEF IInv
<1> QED
  BY <1>1, Invariance, PTL

=============================================================================
