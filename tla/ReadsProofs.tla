---------------------------- MODULE ReadsProofs ----------------------------
(***************************************************************************)
(* Proofs about NodeLoads, for any nodes, callers, times and days, and      *)
(* about NodeQueries, for any nodes and configurations.                     *)
(***************************************************************************)
EXTENDS MCReads, SequenceTheorems, TLAPS

AnyLoad == Load \cup {Idle}
AnyTokens == GrpcTokens \cup {NoTokens}
AnyEntry == Entry \cup {NoEntry}
AnyPurchase == Purchase \cup {NoPurchase}
AnyTime == Time \cup {Never}

-----------------------------------------------------------------------------
LEMMA TimeIsNat == Time \subseteq Nat /\ AnyTime \subseteq Nat /\ AnyTime = 0..MaxTime
  BY BoundsAssumption DEF Time, AnyTime, Never

LEMMA BusyIsLoad ==
  ASSUME TypeOK, NEW c \in Caller, Busy(c) PROVE load[c] \in Load
  BY DEF TypeOK, Busy

LEMMA LoadIsNotIdle == \A l \in Load : l # Idle
<1> SUFFICES ASSUME NEW l \in Load PROVE l.ask # Idle.ask
  OBVIOUS
<1>1. l.ask \in Ask
  BY DEF Load
<1>2. Idle.ask = "nothing"
  BY DEF Idle
<1> QED BY <1>1, <1>2 DEF Ask

LEMMA PartsOfTokens ==
  /\ NoTokens.at = Never /\ NoTokens.empty = TRUE
  /\ \A g \in AnyTokens : g.at \in AnyTime /\ g.empty \in BOOLEAN
<1>1. NoTokens.at = Never /\ NoTokens.empty = TRUE
  BY DEF NoTokens
<1>2. \A g \in GrpcTokens : g.at \in AnyTime /\ g.empty \in BOOLEAN
  BY DEF GrpcTokens, AnyTime
<1>3. Never \in AnyTime
  BY DEF AnyTime
<1> QED BY <1>1, <1>2, <1>3 DEF AnyTokens

LEMMA PartsOfEntry ==
  /\ NoEntry.at = Never
  /\ \A e \in AnyEntry : /\ e.at \in AnyTime /\ e.read \in AnyTime /\ e.types \in AnyTime
                         /\ e.empty \in BOOLEAN
<1>1. NoEntry.at = Never /\ NoEntry.read = Never /\ NoEntry.types = Never /\ NoEntry.empty = TRUE
  BY DEF NoEntry
<1>2. \A e \in Entry : /\ e.at \in AnyTime /\ e.read \in AnyTime /\ e.types \in AnyTime
                       /\ e.empty \in BOOLEAN
  BY DEF Entry, AnyTime
<1>3. Never \in AnyTime
  BY DEF AnyTime
<1> QED BY <1>1, <1>2, <1>3 DEF AnyEntry

LEMMA NewLoadTyped ==
  ASSUME now \in Time, NEW a \in Ask, NEW n \in Node PROVE NewLoad(a, n) \in Load
<1>1. NoTokens \in GrpcTokens \cup {NoTokens} /\ {} \in SUBSET Part
  OBVIOUS
<1> QED BY <1>1 DEF NewLoad, Load, Promise

LEMMA FailedTyped ==
  ASSUME NEW l \in Load PROVE Failed(l) \in Reply
<1>1. NoPurchase \in Purchase \cup {NoPurchase}
  OBVIOUS
<1> QED BY <1>1 DEF Failed, Reply, Load

LEMMA ServedTyped ==
  ASSUME NEW l \in Load, NEW e, e.read \in AnyTime, e.types \in AnyTime, NEW g \in AnyTokens,
         NEW b \in BOOLEAN, NEW d \in BOOLEAN
  PROVE  Served(l, e, g, b, d) \in Reply
<1>1. Failed(l) \in Reply
  BY FailedTyped
<1>2. g.at \in AnyTime
  BY PartsOfTokens
<1> QED BY <1>1, <1>2 DEF Served, Reply, AnyTime

LEMMA BoughtTyped ==
  ASSUME NEW l \in Load, NEW p \in AnyPurchase PROVE Bought(l, p) \in Reply
<1>1. Failed(l) \in Reply
  BY FailedTyped
<1> QED BY <1>1 DEF Bought, Reply, AnyPurchase

LEMMA LoadChangesTyped ==
  ASSUME TypeOK, NEW c \in Caller, NEW l \in AnyLoad, load' = [load EXCEPT ![c] = l]
  PROVE  load' \in [Caller -> AnyLoad]
  BY DEF TypeOK, AnyLoad

\* What AfterPqs makes of a load and of the tokens of the node.
LEMMA AfterPqsTyped ==
  ASSUME TypeOK, NEW c \in Caller, NEW l \in Load,
         NEW e, e.read \in AnyTime, e.types \in AnyTime, e.empty \in BOOLEAN, AfterPqs(c, l, e)
  PROVE  load' \in [Caller -> AnyLoad] /\ replies' \subseteq Reply
<1> DEFINE w == [l EXCEPT !.need = {}, !.waiting = TRUE, !.read = e.read, !.types = e.types]
<1>1. CASE load' = [load EXCEPT ![c] = w] /\ replies' = {}
  <2>1. w \in Load
    BY DEF Load, AnyTime
  <2> HIDE DEF w
  <2> QED BY <1>1, <2>1, LoadChangesTyped DEF AnyLoad
<1>2. ASSUME NEW r \in Reply, End(c, r) PROVE load' \in [Caller -> AnyLoad] /\ replies' \subseteq Reply
  BY <1>2, LoadChangesTyped DEF End, AnyLoad
<1>3. l.grpc \in AnyTokens /\ l.kept \in AnyTokens /\ l.refreshing \in BOOLEAN
  BY DEF Load, AnyTokens
<1>4. /\ Failed(l) \in Reply
      /\ Served(l, e, l.kept, FALSE, FALSE) \in Reply
      /\ Served(l, e, l.grpc, FALSE, TRUE) \in Reply
      /\ Served(l, e, l.grpc, l.refreshing, FALSE) \in Reply
  BY <1>3, FailedTyped, ServedTyped
<1>5. \/ load' = [load EXCEPT ![c] = w] /\ replies' = {}
      \/ End(c, Failed(l))
      \/ End(c, Served(l, e, l.kept, FALSE, FALSE))
      \/ End(c, Served(l, e, l.grpc, FALSE, TRUE))
      \/ End(c, Served(l, e, l.grpc, l.refreshing, FALSE))
  BY Zenon DEF AfterPqs
<1> QED BY <1>1, <1>2, <1>4, <1>5

LEMMA ReadListTyped ==
  ASSUME TypeOK, NEW c \in Caller, NEW l \in Load, l.ask \in Lists, ReadList(c, l)
  PROVE  load' \in [Caller -> AnyLoad] /\ replies' \subseteq Reply
<1> DEFINE e == lists[l.ask][l.node]
           w == [l EXCEPT !.need = PartsOf(l.ask, l.node), !.types = lists["types"][l.node].at]
<1>1. l.node \in Node
  BY DEF Load
<1>2. e \in AnyEntry /\ lists["types"][l.node] \in AnyEntry
  BY <1>1 DEF TypeOK, AnyEntry, Lists
<1>3. CASE AfterPqs(c, l, e)
  <2>1. e.read \in AnyTime /\ e.types \in AnyTime /\ e.empty \in BOOLEAN
    BY <1>2, PartsOfEntry
  <2> HIDE DEF e
  <2> QED BY <1>3, <2>1, AfterPqsTyped
<1>4. CASE load' = [load EXCEPT ![c] = w] /\ replies' = {}
  <2>1. lists["types"][l.node].at \in AnyTime
    BY <1>2, PartsOfEntry
  <2>2. PartsOf(l.ask, l.node) \in SUBSET Part
    BY DEF PartsOf, Part
  <2>3. w \in Load
    BY <2>1, <2>2 DEF Load, AnyTime
  <2> HIDE DEF w
  <2> QED BY <1>4, <2>3, LoadChangesTyped DEF AnyLoad
<1> QED BY <1>3, <1>4 DEF ReadList

LEMMA TokenLoadTyped ==
  ASSUME TypeOK, NEW n \in Node
  PROVE  TokenLoad(n) \in Load /\ TokenLoad(n).ask = "tokens" /\ TokenLoad(n).node = n
<1>1. NewLoad("tokens", n) \in Load
  BY NewLoadTyped DEF TypeOK, Ask
<1>2. grpcTokens[n] \in AnyTokens
  BY DEF TypeOK, AnyTokens
<1>3. NewLoad("tokens", n).ask = "tokens" /\ NewLoad("tokens", n).node = n
  BY DEF NewLoad
<1>4. /\ [NewLoad("tokens", n) EXCEPT !.grpc = grpcTokens[n], !.kept = grpcTokens[n],
                                      !.promise = "kept"] \in Load
      /\ [NewLoad("tokens", n) EXCEPT !.grpc = grpcTokens[n],
                                      !.promise = "pending", !.refreshing = TRUE] \in Load
  BY <1>1, <1>2 DEF Load, AnyTokens, Promise
<1> QED BY <1>1, <1>3, <1>4 DEF TokenLoad, Load

\* The loads and replies when the tokens of a node arrive or fail.
LEMMA SettleTyped ==
  ASSUME TypeOK, NEW n \in Node, NEW s \in {"kept", "failed"}, NEW g \in AnyTokens,
         Settle(n, s, g)
  PROVE  load' \in [Caller -> AnyLoad] /\ replies' \subseteq Reply
<1> DEFINE pending == {c \in Caller : Busy(c) /\ load[c].node = n /\ load[c].promise = "pending"}
           entry(c) == [read |-> load[c].read, types |-> load[c].types]
           then(c) == IF s = "kept" THEN Served(load[c], entry(c), g, FALSE, FALSE)
                      ELSE IF load[c].grpc.empty THEN Failed(load[c])
                      ELSE Served(load[c], entry(c), load[c].grpc, FALSE, TRUE)
<1>1. \A c \in pending : load[c] \in Load
  BY BusyIsLoad
<1>2. ASSUME NEW c \in Caller
      PROVE  (IF c \notin pending THEN load[c]
              ELSE IF load[c].waiting THEN Idle
              ELSE [load[c] EXCEPT !.promise = s, !.kept = g]) \in AnyLoad
  <2>1. CASE c \notin pending
    BY <2>1 DEF TypeOK, AnyLoad
  <2>2. CASE c \in pending
    <3>1. load[c] \in Load
      BY <1>1, <2>2
    <3>2. [load[c] EXCEPT !.promise = s, !.kept = g] \in Load
      BY <3>1 DEF Load, AnyTokens, Promise
    <3> QED BY <2>2, <3>2 DEF AnyLoad
  <2> QED BY <2>1, <2>2
<1>3. ASSUME NEW c \in pending PROVE then(c) \in Reply
  <2>1. load[c] \in Load
    BY <1>1
  <2>2. load[c].grpc \in AnyTokens /\ entry(c).read \in AnyTime /\ entry(c).types \in AnyTime
    BY <2>1 DEF Load, AnyTokens, AnyTime
  <2>3. /\ Failed(load[c]) \in Reply
        /\ Served(load[c], entry(c), g, FALSE, FALSE) \in Reply
        /\ Served(load[c], entry(c), load[c].grpc, FALSE, TRUE) \in Reply
    <3> HIDE DEF entry
    <3> QED BY <2>1, <2>2, FailedTyped, ServedTyped
  <2> QED BY <2>3
<1>4. load' \in [Caller -> AnyLoad]
  BY <1>2 DEF Settle
<1>5. replies' = {then(c) : c \in {d \in pending : load[d].waiting}}
  BY Zenon DEF Settle
<1> QED BY <1>3, <1>4, <1>5

LEMMA TodayIsADay == now \in Time => Today \in Day
  BY DEF Today, Day

LEMMA CallsTyped ==
  ASSUME NEW S, NEW f \in [S -> Nat], NEW k \in S
  PROVE  /\ [f EXCEPT ![k] = @ + 1] \in [S -> Nat]
         /\ f[k] > 0 => [f EXCEPT ![k] = @ - 1] \in [S -> Nat]
  OBVIOUS

LEMMA InitTyped == Init => TypeOK
<1> SUFFICES ASSUME Init PROVE TypeOK
  OBVIOUS
<1>1. now \in Time
  BY BoundsAssumption DEF Init, Time
<1> QED BY <1>1 DEF Init, TypeOK

LEMMA NextTyped == TypeOK /\ [Next]_vars => TypeOK'
<1> SUFFICES ASSUME TypeOK, [Next]_vars PROVE TypeOK'
  OBVIOUS
<1> USE DEF AnyLoad
<1>a. ASSUME NEW c \in Caller, NEW n \in Node, AskTokens(c, n) PROVE TypeOK'
  <2>1. refreshes' \subseteq Node /\ grpcCalls' \in [Node -> Nat]
    BY <1>a, CallsTyped DEF AskTokens, TypeOK
  <2>2. load' \in [Caller -> AnyLoad] /\ replies' \subseteq Reply
    <3>1. TokenLoad(n) \in Load /\ TokenLoad(n).ask \in Lists
      BY TokenLoadTyped DEF Lists
    <3>2. ReadList(c, TokenLoad(n))
      BY <1>a DEF AskTokens
    <3> QED BY <3>1, <3>2, ReadListTyped
  <2> QED BY <1>a, <2>1, <2>2 DEF AskTokens, TypeOK, purchaseVars
<1>b. ASSUME NEW c \in Caller, NEW n \in Node, NEW k \in mix, AskList(c, n, k) PROVE TypeOK'
  <2>1. load' \in [Caller -> AnyLoad] /\ replies' \subseteq Reply
    <3>1. k \in Ask /\ k \in Lists
      BY <1>b DEF AskList, Ask, Lists
    <3>2. NewLoad(k, n) \in Load /\ NewLoad(k, n).ask = k
      BY <3>1, NewLoadTyped DEF TypeOK, NewLoad
    <3>3. ReadList(c, NewLoad(k, n))
      BY <1>b DEF AskList
    <3> QED BY <3>1, <3>2, <3>3, ReadListTyped
  <2> QED BY <1>b, <2>1 DEF AskList, TypeOK, grpcVars, purchaseVars
<1>c. ASSUME NEW c \in Caller, TypesArrive(c) PROVE TypeOK'
  <2> DEFINE l == [load[c] EXCEPT !.need = @ \ {"types"}, !.types = now]
  <2>1. load[c] \in Load
    BY <1>c, BusyIsLoad DEF TypesArrive, Querying
  <2>2. l \in Load /\ load[c].node \in Node
    BY <2>1 DEF Load, TypeOK
  <2>3. load' = [load EXCEPT ![c] = l]
    BY <1>c DEF TypesArrive
  <2>4. load' \in [Caller -> AnyLoad]
    <3> HIDE DEF l
    <3> QED BY <2>2, <2>3, LoadChangesTyped
  <2>5. [at |-> now, read |-> now, types |-> now, empty |-> FALSE] \in Entry
    BY DEF Entry, TypeOK
  <2>6. lists' \in [Lists -> [Node -> Entry \cup {NoEntry}]]
    BY <1>c, <2>2, <2>5 DEF TypesArrive, TypeOK, CachedAt
  <2>7. connection' \in [Node -> {"none", "ready", "rejected"}]
    BY <1>c, <2>2 DEF TypesArrive, Connected, TypeOK
  <2> QED BY <1>c, <2>4, <2>6, <2>7 DEF TypesArrive, TypeOK, grpcVars, purchaseVars
<1>d. ASSUME NEW c \in Caller, RowsArrive(c) \/ OtherArrives(c) PROVE TypeOK'
  <2> DEFINE l(p) == [load[c] EXCEPT !.need = @ \ {p}, !.read = FirstRead(load[c])]
  <2>1. load[c] \in Load
    BY <1>d, BusyIsLoad DEF RowsArrive, OtherArrives, Querying
  <2>2. FirstRead(load[c]) \in AnyTime
    BY <2>1 DEF FirstRead, Load, TypeOK, AnyTime
  <2>3. load[c].node \in Node /\ \A p : l(p) \in Load
    BY <2>1, <2>2 DEF Load, AnyTime
  <2>4. load' = [load EXCEPT ![c] = l("rows")] \/ load' = [load EXCEPT ![c] = l("other")]
    BY <1>d DEF RowsArrive, OtherArrives
  <2>5. load' \in [Caller -> AnyLoad]
    <3> HIDE DEF l
    <3> QED BY <2>3, <2>4, LoadChangesTyped
  <2>6. connection' \in [Node -> {"none", "ready", "rejected"}]
    BY <1>d, <2>3 DEF RowsArrive, OtherArrives, Connected, TypeOK
  <2> QED BY <1>d, <2>5, <2>6 DEF RowsArrive, OtherArrives, TypeOK, grpcVars, purchaseVars
<1>e. ASSUME NEW c \in Caller, ListLoaded(c) PROVE TypeOK'
  <2>1. load[c] \in Load
    BY <1>e, BusyIsLoad DEF ListLoaded
  <2>2. PICK e \in BOOLEAN :
          LET entry == [at |-> CachedAt, read |-> load[c].read, types |-> load[c].types,
                        empty |-> e]
          IN /\ lists' = [lists EXCEPT ![load[c].ask][load[c].node] = entry]
             /\ AfterPqs(c, load[c], entry)
    BY <1>e DEF ListLoaded
  <2> DEFINE entry == [at |-> CachedAt, read |-> load[c].read, types |-> load[c].types,
                       empty |-> e]
  <2>3. entry \in Entry
    BY <2>1 DEF Entry, Load, TypeOK, CachedAt
  <2>4. load[c].node \in Node /\ load[c].ask \in Lists
    BY <1>e, <2>1 DEF ListLoaded, Load, Ask, Lists
  <2>5. lists' \in [Lists -> [Node -> Entry \cup {NoEntry}]]
    <3>1. lists' = [lists EXCEPT ![load[c].ask][load[c].node] = entry]
      BY <2>2
    <3> HIDE DEF entry
    <3> QED BY <2>3, <2>4, <3>1 DEF TypeOK
  <2>6. load' \in [Caller -> AnyLoad] /\ replies' \subseteq Reply
    <3>1. AfterPqs(c, load[c], entry)
      BY <2>2
    <3>2. entry.read \in AnyTime /\ entry.types \in AnyTime /\ entry.empty \in BOOLEAN
      BY <2>1 DEF Load, AnyTime
    <3> HIDE DEF entry
    <3> QED BY <2>1, <3>1, <3>2, AfterPqsTyped
  <2> QED BY <1>e, <2>5, <2>6 DEF ListLoaded, TypeOK, grpcVars, purchaseVars
<1>f. ASSUME NEW c \in Caller, ListFails(c) PROVE TypeOK'
  <2>1. Failed(load[c]) \in Reply
    BY <1>f, BusyIsLoad, FailedTyped DEF ListFails
  <2>2. load' \in [Caller -> AnyLoad] /\ replies' \subseteq Reply
    BY <1>f, <2>1, LoadChangesTyped DEF ListFails, End
  <2> QED BY <1>f, <2>2 DEF ListFails, TypeOK, grpcVars, purchaseVars
<1>g. ASSUME NEW n \in Node, GrpcTokensArrive(n) PROVE TypeOK'
  <2>1. PICK e \in {TRUE, FALSE} :
          /\ grpcTokens' = [grpcTokens EXCEPT ![n] = [at |-> now, empty |-> e]]
          /\ Settle(n, "kept", [at |-> now, empty |-> e])
    BY <1>g DEF GrpcTokensArrive
  <2>2. [at |-> now, empty |-> e] \in GrpcTokens
    BY DEF GrpcTokens, TypeOK
  <2>3. load' \in [Caller -> AnyLoad] /\ replies' \subseteq Reply
    BY <2>1, <2>2, SettleTyped DEF AnyTokens
  <2>4. grpcTokens' \in [Node -> GrpcTokens \cup {NoTokens}]
    BY <2>1, <2>2 DEF TypeOK
  <2>5. refreshes' \subseteq Node /\ grpcCalls' \in [Node -> Nat]
    BY <1>g, CallsTyped DEF GrpcTokensArrive, GrpcEnds, TypeOK
  <2> QED BY <1>g, <2>3, <2>4, <2>5 DEF GrpcTokensArrive, TypeOK, purchaseVars
<1>h. ASSUME NEW n \in Node, GrpcTokensFail(n) PROVE TypeOK'
  <2>1. load' \in [Caller -> AnyLoad] /\ replies' \subseteq Reply
    BY <1>h, SettleTyped DEF GrpcTokensFail, AnyTokens
  <2>2. refreshes' \subseteq Node /\ grpcCalls' \in [Node -> Nat]
    BY <1>h, CallsTyped DEF GrpcTokensFail, GrpcEnds, TypeOK
  <2> QED BY <1>h, <2>1, <2>2 DEF GrpcTokensFail, TypeOK, purchaseVars
<1>i. ASSUME NEW n \in Node, ConnectFails(n) PROVE TypeOK'
  BY <1>i DEF ConnectFails, TypeOK, grpcVars, purchaseVars
<1>j. ASSUME NEW c \in Caller, NEW n \in Node, AskPurchase(c, n) PROVE TypeOK'
  <2> DEFINE l == NewLoad("purchase", n)
             k == <<n, Today>>
  <2>1. l \in Load /\ k \in Key
    BY NewLoadTyped, TodayIsADay DEF TypeOK, Ask, Key
  <2>2. Bought(l, purchases[k]) \in Reply
    BY <2>1, BoughtTyped DEF TypeOK, AnyPurchase
  <2>3. load' \in [Caller -> AnyLoad] /\ replies' \subseteq Reply
    <3>1. \/ End(c, Bought(l, purchases[k]))
          \/ load' = [load EXCEPT ![c] = l] /\ replies' = {}
      BY <1>j DEF AskPurchase
    <3> HIDE DEF l, k
    <3> QED BY <2>1, <2>2, <3>1, LoadChangesTyped DEF End
  <2>4. purchaseRefreshes' \subseteq Key /\ purchaseCalls' \in [Key -> Nat]
         /\ purchases' = purchases
    <3>1. \/ purchaseRefreshes' = purchaseRefreshes /\ purchaseCalls' = purchaseCalls
             /\ purchases' = purchases
          \/ /\ purchaseRefreshes' = purchaseRefreshes \cup {k}
             /\ purchaseCalls' = [purchaseCalls EXCEPT ![k] = @ + 1]
             /\ purchases' = purchases
      BY <1>j DEF AskPurchase, purchaseVars
    <3> HIDE DEF l, k
    <3> QED BY <2>1, <3>1, CallsTyped DEF TypeOK
  <2> QED BY <1>j, <2>3, <2>4 DEF AskPurchase, TypeOK, grpcVars
<1>k. ASSUME NEW k \in Key, PurchaseArrives(k) \/ PurchaseFails(k) PROVE TypeOK'
  <2>1. PICK p \in AnyPurchase :
          /\ AnswerAll(k, p)
          /\ purchases' = purchases \/ purchases' = [purchases EXCEPT ![k] = p]
    <3>1. CASE PurchaseArrives(k)
      <4>1. PICK none \in {TRUE, FALSE} :
              /\ purchases' = [purchases EXCEPT ![k] = [at |-> now, none |-> none]]
              /\ AnswerAll(k, [at |-> now, none |-> none])
        BY <3>1 DEF PurchaseArrives
      <4>2. [at |-> now, none |-> none] \in AnyPurchase
        BY DEF AnyPurchase, Purchase, TypeOK
      <4> QED BY <4>1, <4>2
    <3>2. CASE PurchaseFails(k)
      BY <3>2 DEF PurchaseFails, AnyPurchase
    <3> QED BY <1>k, <3>1, <3>2
  <2>2. load' \in [Caller -> AnyLoad] /\ replies' \subseteq Reply
    <3> DEFINE asked == {c \in Caller : Busy(c) /\ load[c].ask = "purchase"
                                          /\ KeyOf(load[c]) = k}
    <3>1. \A c \in asked : Bought(load[c], p) \in Reply
      BY BusyIsLoad, BoughtTyped
    <3>2. /\ load' = [c \in Caller |-> IF c \in asked THEN Idle ELSE load[c]]
          /\ replies' = {Bought(load[c], p) : c \in asked}
      BY <2>1 DEF AnswerAll
    <3> HIDE DEF asked
    <3> QED BY <3>1, <3>2 DEF TypeOK
  <2>3. purchaseRefreshes' \subseteq Key /\ purchaseCalls' \in [Key -> Nat]
    BY <1>k, CallsTyped DEF PurchaseArrives, PurchaseFails, PurchaseEnds, TypeOK
  <2>4. connection' \in [Node -> {"none", "ready", "rejected"}]
    BY <1>k DEF PurchaseArrives, PurchaseFails, Connected, TypeOK, Key
  <2>5. purchases' \in [Key -> Purchase \cup {NoPurchase}]
    BY <2>1 DEF TypeOK, AnyPurchase
  <2> QED BY <1>k, <2>2, <2>3, <2>4, <2>5 DEF PurchaseArrives, PurchaseFails, TypeOK, grpcVars
<1>l. CASE Tick
  <2>1. now' \in Time
    BY <1>l, BoundsAssumption DEF Tick, Time, TypeOK
  <2> QED BY <1>l, <2>1 DEF Tick, TypeOK, grpcVars, purchaseVars
<1>m. CASE Restart
  BY <1>m DEF Restart, TypeOK
<1>n. CASE UNCHANGED vars
  BY <1>n DEF vars, TypeOK, grpcVars, purchaseVars
<1> QED BY <1>a, <1>b, <1>c, <1>d, <1>e, <1>f, <1>g, <1>h, <1>i, <1>j, <1>k, <1>l, <1>m, <1>n
        DEF Next

THEOREM TypeCorrect == Spec => []TypeOK
<1> QED BY InitTyped, NextTyped, PTL DEF Spec

-----------------------------------------------------------------------------
(* How old what is kept, loaded and served may be.                         *)

\* Read, with its template types, not long before r began.
Recent(r) == /\ r.read + Ttl + MaxLoad > r.since
             /\ r.types + 2 * Ttl + MaxLoad > r.since

EntryOK(e) == e # NoEntry => /\ e.read + MaxLoad >= e.at
                             /\ e.types + Ttl + MaxLoad >= e.at

GrpcFresh(l) == (l.ask = "tokens" /\ l.node \in GrpcNode /\ ~l.refreshing) =>
                  l.grpc.at + Ttl > l.since

LoadOK(l) ==
  /\ l.since <= now /\ now <= l.since + MaxLoad
  /\ l.promise = "kept" => l.kept.at + Ttl > l.since
  /\ GrpcFresh(l)
  /\ l.waiting => Recent(l)
  /\ (~l.waiting /\ l.ask # "purchase") =>
       /\ "types" \in l.need \/ l.types + Ttl > l.since
       /\ "rows" \in l.need \/ l.read # Never
       /\ l.read = Never \/ l.since <= l.read

\* A reply, but for the purchase it tells.
ReplyOK(r) ==
  /\ (r.ask # "purchase" /\ ~r.error) => Recent(r)
  /\ (r.ask = "tokens" /\ r.node \in GrpcNode /\ ~r.error /\ ~r.refreshing) =>
       r.lost \/ r.grpc + Ttl > r.since

EntriesOK == \A k \in Lists, n \in Node : EntryOK(lists[k][n])
LoadsOK == \A c \in Caller : Busy(c) => LoadOK(load[c])
\* The purchase a reply tells is that of the day it was asked for.
Told(bought, r) ==
  r.purchase # NoPurchase => bought[<<r.node, r.since \div DayLength>>] = r.purchase
RepliesOK == \A r \in replies : ReplyOK(r) /\ Told(purchases, r)

AgeInv == TypeOK /\ EntriesOK /\ LoadsOK /\ RepliesOK

-----------------------------------------------------------------------------
LEMMA FreshIsYoung ==
  ASSUME now \in Time, NEW t \in AnyTime, Fresh(t) PROVE t \in Time /\ t + Ttl > now
<1>1. t \in Nat /\ now \in Nat /\ Ttl \in Nat
  BY TimeIsNat, TimesAssumption
<1>2. t # Never /\ now - t < Ttl
  BY DEF Fresh
<1> QED BY <1>1, <1>2 DEF AnyTime

LEMMA LoadTimes ==
  ASSUME NEW l \in Load
  PROVE  /\ l.since \in Nat /\ l.types \in Nat /\ l.read \in Nat
         /\ l.grpc \in AnyTokens /\ l.kept \in AnyTokens
         /\ l.grpc.at \in Nat /\ l.kept.at \in Nat
<1>1. l.since \in Time /\ l.types \in AnyTime /\ l.read \in AnyTime
      /\ l.grpc \in AnyTokens /\ l.kept \in AnyTokens
  BY DEF Load, AnyTime, AnyTokens
<1>2. l.grpc.at \in AnyTime /\ l.kept.at \in AnyTime
  BY <1>1, PartsOfTokens
<1> QED BY <1>1, <1>2, TimeIsNat

LEMMA FailedOK ==
  ASSUME NEW l PROVE ReplyOK(Failed(l)) /\ Failed(l).purchase = NoPurchase
  BY DEF ReplyOK, Failed

\* What is served is recent if the entry is, and says whether its tokens are.
LEMMA ServedOK ==
  ASSUME NEW l \in Load, NEW e, NEW g, NEW b \in BOOLEAN, NEW d \in BOOLEAN,
         e.read + Ttl + MaxLoad > l.since, e.types + 2 * Ttl + MaxLoad > l.since,
         (l.ask = "tokens" /\ l.node \in GrpcNode /\ ~b) => d \/ g.at + Ttl > l.since
  PROVE  ReplyOK(Served(l, e, g, b, d)) /\ Served(l, e, g, b, d).purchase = NoPurchase
<1> DEFINE r == Served(l, e, g, b, d)
<1>1. /\ r.ask = l.ask /\ r.node = l.node /\ r.since = l.since /\ r.read = e.read
      /\ r.types = e.types /\ r.grpc = g.at /\ r.refreshing = b /\ r.lost = d
      /\ r.purchase = NoPurchase
  BY DEF Served, Failed
<1> HIDE DEF r
<1>2. ReplyOK(r)
  BY <1>1 DEF ReplyOK, Recent
<1> QED BY <1>1, <1>2 DEF r

\* One load changes, and nothing else that counts.
LEMMA LoadChangesOK ==
  ASSUME AgeInv, NEW c \in Caller, NEW l \in AnyLoad, load' = [load EXCEPT ![c] = l],
         l # Idle => LoadOK(l), now' = now
  PROVE  LoadsOK'
<1>1. \A d \in Caller : load'[d] = IF d = c THEN l ELSE load[d]
  BY DEF AgeInv, TypeOK
<1>2. ASSUME NEW d \in Caller, load'[d] # Idle PROVE LoadOK(load'[d])
  BY <1>1, <1>2 DEF AgeInv, LoadsOK, Busy
<1> QED BY <1>2 DEF LoadsOK, LoadOK, GrpcFresh, Recent, Busy

\* Every reply of a step is right and tells no purchase.
Unbought == \A r \in replies' : ReplyOK(r) /\ r.purchase = NoPurchase

LEMMA AfterPqsOK ==
  ASSUME AgeInv, NEW c \in Caller, NEW l \in Load, now' = now,
         l.since <= now /\ now <= l.since + MaxLoad,
         l.promise = "kept" => l.kept.at + Ttl > l.since, GrpcFresh(l),
         NEW e, e.read \in AnyTime, e.types \in AnyTime, e.empty \in BOOLEAN,
         e.read + Ttl + MaxLoad > l.since, e.types + 2 * Ttl + MaxLoad > l.since,
         AfterPqs(c, l, e)
  PROVE  LoadsOK' /\ Unbought
<1> DEFINE w == [l EXCEPT !.need = {}, !.waiting = TRUE, !.read = e.read, !.types = e.types]
<1>0. Idle \in AnyLoad
  BY DEF AnyLoad
<1>1. CASE load' = [load EXCEPT ![c] = w] /\ replies' = {}
  <2>1. w \in Load
    BY DEF Load, AnyTime
  <2>2. /\ w.since = l.since /\ w.promise = l.promise /\ w.kept = l.kept /\ w.ask = l.ask
        /\ w.node = l.node /\ w.refreshing = l.refreshing /\ w.grpc = l.grpc
        /\ w.waiting = TRUE /\ w.read = e.read /\ w.types = e.types
    BY DEF Load
  <2> HIDE DEF w
  <2>3. LoadOK(w)
    BY <2>2 DEF LoadOK, GrpcFresh, Recent
  <2> QED BY <1>1, <2>1, <2>3, LoadChangesOK DEF AnyLoad, Unbought
<1>2. ASSUME NEW r, ReplyOK(r), r.purchase = NoPurchase, End(c, r) PROVE LoadsOK' /\ Unbought
  BY <1>0, <1>2, LoadChangesOK DEF End, Unbought
<1>3. /\ ReplyOK(Failed(l)) /\ Failed(l).purchase = NoPurchase
      /\ ReplyOK(Served(l, e, l.grpc, FALSE, TRUE))
      /\ Served(l, e, l.grpc, FALSE, TRUE).purchase = NoPurchase
  BY FailedOK, ServedOK
<1>4. l.promise = "kept" => /\ ReplyOK(Served(l, e, l.kept, FALSE, FALSE))
                            /\ Served(l, e, l.kept, FALSE, FALSE).purchase = NoPurchase
  BY ServedOK
<1>5. /\ ReplyOK(Served(l, e, l.grpc, l.refreshing, FALSE))
      /\ Served(l, e, l.grpc, l.refreshing, FALSE).purchase = NoPurchase
  <2>1. l.refreshing \in BOOLEAN
    BY DEF Load
  <2> QED BY <2>1, ServedOK DEF GrpcFresh
<1>6. \/ load' = [load EXCEPT ![c] = w] /\ replies' = {}
      \/ End(c, Failed(l))
      \/ l.promise = "kept" /\ End(c, Served(l, e, l.kept, FALSE, FALSE))
      \/ End(c, Served(l, e, l.grpc, FALSE, TRUE))
      \/ End(c, Served(l, e, l.grpc, l.refreshing, FALSE))
  BY Zenon DEF AfterPqs
<1> QED BY <1>1, <1>2, <1>3, <1>4, <1>5, <1>6

\* Nothing fresh is missing.
LEMMA FreshEntry ==
  ASSUME AgeInv, NEW k \in Lists, NEW n \in Node, Fresh(lists[k][n].at)
  PROVE  /\ lists[k][n].read + Ttl + MaxLoad > now
         /\ lists[k][n].types + 2 * Ttl + MaxLoad > now
<1> DEFINE e == lists[k][n]
<1>1. e \in AnyEntry
  BY DEF AgeInv, TypeOK, AnyEntry
<1>2. e.at \in AnyTime /\ e.read \in AnyTime /\ e.types \in AnyTime
  BY <1>1, PartsOfEntry
<1>3. e.at \in Time /\ e.at + Ttl > now
  BY <1>2, FreshIsYoung DEF AgeInv, TypeOK
<1>4. e # NoEntry
  BY <1>3, PartsOfEntry DEF Time, Never
<1>5. EntryOK(e)
  BY DEF AgeInv, EntriesOK
<1>6. e.at \in Nat /\ e.read \in Nat /\ e.types \in Nat /\ now \in Nat /\ Ttl \in Nat /\ MaxLoad \in Nat
  BY <1>2, TimeIsNat, TimesAssumption DEF AgeInv, TypeOK
<1> HIDE DEF e
<1>7. e.read + Ttl + MaxLoad > now /\ e.types + 2 * Ttl + MaxLoad > now
  BY <1>3, <1>4, <1>5, <1>6 DEF EntryOK
<1> QED BY <1>7 DEF e

LEMMA ReadListOK ==
  ASSUME AgeInv, NEW c \in Caller, NEW l \in Load, l.ask \in Lists, now' = now,
         l.since = now, l.promise = "kept" => l.kept.at + Ttl > l.since, GrpcFresh(l),
         l.read = Never, ~l.waiting, ReadList(c, l)
  PROVE  LoadsOK' /\ Unbought
<1> DEFINE e == lists[l.ask][l.node]
           t == lists["types"][l.node].at
           w == [l EXCEPT !.need = PartsOf(l.ask, l.node), !.types = t]
<1>0. l.node \in Node /\ "types" \in Lists /\ now \in Nat /\ MaxLoad \in Nat
      /\ Ttl \in Nat \ {0}
  BY TimeIsNat, TimesAssumption DEF Load, Lists, AgeInv, TypeOK
<1>1. CASE Fresh(e.at) /\ AfterPqs(c, l, e)
  <2>1. e \in AnyEntry
    BY <1>0 DEF AgeInv, TypeOK, AnyEntry
  <2>2. e.read \in AnyTime /\ e.types \in AnyTime /\ e.empty \in BOOLEAN
    BY <2>1, PartsOfEntry
  <2>3. e.read + Ttl + MaxLoad > l.since /\ e.types + 2 * Ttl + MaxLoad > l.since
    BY <1>0, <1>1, FreshEntry
  <2>4. l.since <= now /\ now <= l.since + MaxLoad
    BY <1>0
  <2> HIDE DEF e
  <2> QED BY <1>1, <2>2, <2>3, <2>4, AfterPqsOK
<1>2. CASE load' = [load EXCEPT ![c] = w] /\ replies' = {}
  <2>1. lists["types"][l.node] \in AnyEntry
    BY <1>0 DEF AgeInv, TypeOK, AnyEntry
  <2>2. t \in AnyTime
    BY <2>1, PartsOfEntry
  <2>3. PartsOf(l.ask, l.node) \in SUBSET Part /\ "rows" \in PartsOf(l.ask, l.node)
    BY DEF PartsOf, Part
  <2>4. "types" \in PartsOf(l.ask, l.node) \/ t + Ttl > now
    BY <2>2, FreshIsYoung DEF PartsOf, AgeInv, TypeOK
  <2>5. w \in Load
    BY <2>2, <2>3 DEF Load, AnyTime
  <2>6. /\ w.since = now /\ w.promise = l.promise /\ w.kept = l.kept /\ w.ask = l.ask
        /\ w.node = l.node /\ w.refreshing = l.refreshing /\ w.grpc = l.grpc
        /\ w.waiting = l.waiting /\ w.read = Never /\ w.types = t
        /\ w.need = PartsOf(l.ask, l.node)
    BY DEF Load
  <2> HIDE DEF w, t
  <2>7. LoadOK(w)
    BY <1>0, <2>3, <2>4, <2>6 DEF LoadOK, GrpcFresh
  <2> QED BY <1>2, <2>5, <2>7, LoadChangesOK DEF AnyLoad, Unbought
<1> QED BY <1>1, <1>2 DEF ReadList

LEMMA SettleOK ==
  ASSUME AgeInv, NEW n \in Node, NEW s \in {"kept", "failed"}, NEW g \in AnyTokens,
         s = "kept" => g.at = now, now' = now, Settle(n, s, g)
  PROVE  LoadsOK' /\ Unbought
<1> DEFINE pending == {c \in Caller : Busy(c) /\ load[c].node = n /\ load[c].promise = "pending"}
           entry(c) == [read |-> load[c].read, types |-> load[c].types]
           then(c) == IF s = "kept" THEN Served(load[c], entry(c), g, FALSE, FALSE)
                      ELSE IF load[c].grpc.empty THEN Failed(load[c])
                      ELSE Served(load[c], entry(c), load[c].grpc, FALSE, TRUE)
<1>0. now \in Nat /\ Ttl \in Nat \ {0} /\ MaxLoad \in Nat
  BY TimeIsNat, TimesAssumption DEF AgeInv, TypeOK
<1>1. \A c \in pending : load[c] \in Load /\ LoadOK(load[c])
  BY BusyIsLoad DEF AgeInv, LoadsOK
<1>2. ASSUME NEW c \in Caller, load'[c] # Idle PROVE LoadOK(load'[c])
  <2>1. load'[c] = IF c \notin pending THEN load[c]
                   ELSE IF load[c].waiting THEN Idle
                   ELSE [load[c] EXCEPT !.promise = s, !.kept = g]
    BY DEF Settle
  <2>2. CASE c \notin pending
    BY <1>2, <2>1, <2>2 DEF AgeInv, LoadsOK, Busy
  <2>3. CASE c \in pending
    <3> DEFINE w == [load[c] EXCEPT !.promise = s, !.kept = g]
    <3>1. load[c] \in Load /\ LoadOK(load[c]) /\ load'[c] = w
      BY <1>1, <1>2, <2>1, <2>3
    <3>2. /\ w.since = load[c].since /\ w.promise = s /\ w.kept = g
          /\ w.ask = load[c].ask /\ w.node = load[c].node
          /\ w.refreshing = load[c].refreshing /\ w.grpc = load[c].grpc
          /\ w.waiting = load[c].waiting /\ w.read = load[c].read /\ w.types = load[c].types
          /\ w.need = load[c].need
      BY <3>1 DEF Load
    <3>3. load[c].since \in Nat
      BY <3>1, LoadTimes
    <3> HIDE DEF w
    <3>4. LoadOK(w)
      BY <1>0, <3>1, <3>2, <3>3 DEF LoadOK, GrpcFresh, Recent
    <3> QED BY <3>1, <3>4
  <2> QED BY <2>2, <2>3
<1>3. LoadsOK'
  BY <1>2 DEF LoadsOK, LoadOK, GrpcFresh, Recent, Busy
<1>4. ASSUME NEW c \in pending, load[c].waiting
      PROVE  ReplyOK(then(c)) /\ then(c).purchase = NoPurchase
  <2>1. load[c] \in Load /\ LoadOK(load[c])
    BY <1>1
  <2>2. entry(c).read = load[c].read /\ entry(c).types = load[c].types
    OBVIOUS
  <2>3. Recent(load[c]) /\ load[c].since <= now /\ load[c].since \in Nat
    BY <1>4, <2>1, LoadTimes DEF LoadOK
  <2>4. /\ entry(c).read + Ttl + MaxLoad > load[c].since
        /\ entry(c).types + 2 * Ttl + MaxLoad > load[c].since
    BY <2>2, <2>3 DEF Recent
  <2>5. s = "kept" => g.at + Ttl > load[c].since
    BY <1>0, <2>3
  <2> HIDE DEF entry
  <2>6. /\ ReplyOK(Failed(load[c])) /\ Failed(load[c]).purchase = NoPurchase
        /\ ReplyOK(Served(load[c], entry(c), load[c].grpc, FALSE, TRUE))
        /\ Served(load[c], entry(c), load[c].grpc, FALSE, TRUE).purchase = NoPurchase
    BY <2>1, <2>4, FailedOK, ServedOK
  <2>7. s = "kept" => /\ ReplyOK(Served(load[c], entry(c), g, FALSE, FALSE))
                      /\ Served(load[c], entry(c), g, FALSE, FALSE).purchase = NoPurchase
    BY <2>1, <2>4, <2>5, ServedOK
  <2> QED BY <2>6, <2>7
<1>5. replies' = {then(c) : c \in {d \in pending : load[d].waiting}}
  BY Zenon DEF Settle
<1>6. Unbought
  <2> HIDE DEF pending, then
  <2> QED BY <1>4, <1>5 DEF Unbought
<1> QED BY <1>3, <1>6

LEMMA InitAge == Init => AgeInv
<1> SUFFICES ASSUME Init PROVE AgeInv
  OBVIOUS
<1>1. EntriesOK
  BY DEF Init, EntriesOK, EntryOK
<1>2. LoadsOK /\ RepliesOK
  BY DEF Init, LoadsOK, RepliesOK, Busy
<1> QED BY <1>1, <1>2, InitTyped DEF AgeInv

\* What the loads do not touch stays right.
LEMMA EntriesKept == ASSUME EntriesOK, lists' = lists PROVE EntriesOK'
  BY DEF EntriesOK, EntryOK

LEMMA NewLoadOK ==
  ASSUME AgeInv, NEW a \in Ask, NEW n \in Node
  PROVE  LET l == NewLoad(a, n) IN
         /\ l \in Load /\ l.ask = a /\ l.node = n /\ l.since = now /\ l.read = Never /\ ~l.waiting
         /\ l.promise = "no promise" /\ (a # "tokens" => GrpcFresh(l))
  BY NewLoadTyped DEF NewLoad, GrpcFresh, AgeInv, TypeOK

LEMMA TokenLoadOK ==
  ASSUME AgeInv, NEW n \in Node
  PROVE  LET l == TokenLoad(n) IN
         /\ l.since = now /\ l.read = Never /\ ~l.waiting
         /\ l.promise = "kept" => l.kept.at + Ttl > l.since
         /\ GrpcFresh(l)
         /\ l.promise = "pending" => n \in GrpcNode /\ ~Fresh(grpcTokens[n].at)
<1> DEFINE a == NewLoad("tokens", n)
           b == [a EXCEPT !.grpc = grpcTokens[n], !.kept = grpcTokens[n], !.promise = "kept"]
           d == [a EXCEPT !.grpc = grpcTokens[n], !.promise = "pending", !.refreshing = TRUE]
<1>1. /\ a \in Load /\ a.ask = "tokens" /\ a.node = n /\ a.since = now /\ a.read = Never
      /\ ~a.waiting /\ a.promise = "no promise"
  <2>1. "tokens" \in Ask
    BY DEF Ask
  <2> QED BY <2>1, NewLoadOK
<1>2. /\ b.ask = "tokens" /\ b.node = n /\ b.since = now /\ b.read = Never /\ ~b.waiting
      /\ b.promise = "kept" /\ b.grpc = grpcTokens[n] /\ b.kept = grpcTokens[n]
  BY <1>1 DEF Load
<1>3. /\ d.ask = "tokens" /\ d.node = n /\ d.since = now /\ d.read = Never /\ ~d.waiting
      /\ d.promise = "pending" /\ d.refreshing
  BY <1>1 DEF Load
<1>4. grpcTokens[n].at \in AnyTime /\ now \in Time
  BY PartsOfTokens DEF AgeInv, TypeOK, AnyTokens
<1>5. TokenLoad(n) = IF n \notin GrpcNode THEN a ELSE IF Fresh(grpcTokens[n].at) THEN b ELSE d
  BY DEF TokenLoad
<1> HIDE DEF a, b, d
<1>6. CASE n \notin GrpcNode
  BY <1>1, <1>5, <1>6 DEF GrpcFresh
<1>7. CASE n \in GrpcNode /\ Fresh(grpcTokens[n].at)
  BY <1>2, <1>4, <1>5, <1>7, FreshIsYoung DEF GrpcFresh
<1>8. CASE n \in GrpcNode /\ ~Fresh(grpcTokens[n].at)
  BY <1>3, <1>5, <1>8 DEF GrpcFresh
<1> QED BY <1>6, <1>7, <1>8

LEMMA ArrivedOK ==
  ASSUME AgeInv, NEW c \in Caller, Busy(c), NEW p \in {"rows", "other"}, now' = now,
         load' = [load EXCEPT ![c].need = @ \ {p}, ![c].read = FirstRead(load[c])]
  PROVE  LoadsOK'
<1> DEFINE w == [load[c] EXCEPT !.need = @ \ {p}, !.read = FirstRead(load[c])]
<1>1. load[c] \in Load /\ LoadOK(load[c])
  BY BusyIsLoad DEF AgeInv, LoadsOK
<1>2. now \in Time /\ now \in Nat /\ now # Never
  BY TimeIsNat DEF AgeInv, TypeOK, Time, Never
<1>3. w \in Load
  BY <1>1, <1>2 DEF Load, FirstRead
<1>4. /\ w.since = load[c].since /\ w.promise = load[c].promise /\ w.kept = load[c].kept
      /\ w.ask = load[c].ask /\ w.node = load[c].node /\ w.types = load[c].types
      /\ w.refreshing = load[c].refreshing /\ w.grpc = load[c].grpc
      /\ w.waiting = load[c].waiting /\ w.need = load[c].need \ {p}
      /\ w.read = IF load[c].read = Never THEN now ELSE load[c].read
  BY <1>1 DEF Load, FirstRead
<1>5. load[c].since \in Nat /\ load[c].read \in Nat /\ load[c].types \in Nat
      /\ MaxLoad \in Nat /\ Ttl \in Nat
  BY <1>1, LoadTimes, TimesAssumption
<1>6. load' = [load EXCEPT ![c] = w]
  OBVIOUS
<1> HIDE DEF w
<1>7. LoadOK(w)
  <2>1. CASE load[c].read = Never
    BY <1>1, <1>2, <1>4, <1>5, <2>1 DEF LoadOK, GrpcFresh, Recent, Never
  <2>2. CASE load[c].read # Never
    BY <1>1, <1>2, <1>4, <1>5, <2>2 DEF LoadOK, GrpcFresh, Recent, Never
  <2> QED BY <2>1, <2>2
<1> QED BY <1>3, <1>6, <1>7, LoadChangesOK DEF AnyLoad

LEMMA NextAge == AgeInv /\ [Next]_vars => AgeInv'
<1> SUFFICES ASSUME AgeInv, [Next]_vars PROVE AgeInv'
  OBVIOUS
<1>0. TypeOK /\ TypeOK' /\ EntriesOK /\ LoadsOK /\ RepliesOK
  BY NextTyped DEF AgeInv
<1>1. Unbought => RepliesOK'
  BY DEF Unbought, RepliesOK, ReplyOK, Recent, Told
<1>2. replies' = {} => RepliesOK'
  BY DEF RepliesOK
<1>a. ASSUME NEW c \in Caller, NEW n \in Node, AskTokens(c, n) PROVE AgeInv'
  <2>1. TokenLoad(n) \in Load /\ TokenLoad(n).ask \in Lists
    BY <1>0, TokenLoadTyped DEF Lists
  <2>2. ReadList(c, TokenLoad(n)) /\ now' = now /\ lists' = lists
    BY <1>a DEF AskTokens
  <2>3. LoadsOK' /\ Unbought
    BY <2>1, <2>2, TokenLoadOK, ReadListOK
  <2> QED BY <1>0, <1>1, <2>2, <2>3, EntriesKept DEF AgeInv
<1>b. ASSUME NEW c \in Caller, NEW n \in Node, NEW k \in mix, AskList(c, n, k) PROVE AgeInv'
  <2>1. k \in Ask /\ k \in Lists /\ k # "tokens"
    BY <1>b DEF AskList, Ask, Lists
  <2>2. ReadList(c, NewLoad(k, n)) /\ now' = now /\ lists' = lists
    BY <1>b DEF AskList
  <2>3. LoadsOK' /\ Unbought
    BY <2>1, <2>2, NewLoadOK, ReadListOK
  <2> QED BY <1>0, <1>1, <2>2, <2>3, EntriesKept DEF AgeInv
<1>c. ASSUME NEW c \in Caller, TypesArrive(c) PROVE AgeInv'
  <2> DEFINE w == [load[c] EXCEPT !.need = @ \ {"types"}, !.types = now]
  <2>1. load[c] \in Load /\ LoadOK(load[c])
    BY <1>0, <1>c, BusyIsLoad DEF TypesArrive, Querying, LoadsOK
  <2>2. now \in Time /\ now \in Nat /\ MaxLoad \in Nat /\ Ttl \in Nat \ {0}
    BY <1>0, TimeIsNat, TimesAssumption DEF TypeOK
  <2>3. w \in Load /\ load[c].node \in Node
    BY <2>1, <2>2 DEF Load
  <2>4. /\ w.since = load[c].since /\ w.promise = load[c].promise /\ w.kept = load[c].kept
        /\ w.ask = load[c].ask /\ w.node = load[c].node /\ w.types = now
        /\ w.refreshing = load[c].refreshing /\ w.grpc = load[c].grpc
        /\ w.waiting = load[c].waiting /\ w.need = load[c].need \ {"types"}
        /\ w.read = load[c].read
    BY <2>1 DEF Load
  <2>5. load[c].since \in Nat /\ load[c].read \in Nat /\ load[c].types \in Nat
    BY <2>1, LoadTimes
  <2>6. load' = [load EXCEPT ![c] = w] /\ now' = now /\ replies' = {}
    BY <1>c DEF TypesArrive
  <2> HIDE DEF w
  <2>7. LoadOK(w)
    BY <2>1, <2>2, <2>4, <2>5 DEF LoadOK, GrpcFresh, Recent
  <2>8. LoadsOK'
    BY <2>3, <2>6, <2>7, LoadChangesOK DEF AnyLoad
  <2>9. EntriesOK'
    <3> DEFINE e == [at |-> now, read |-> now, types |-> now, empty |-> FALSE]
    <3>1. lists' = [lists EXCEPT !["types"][load[c].node] = e]
      BY <1>c DEF TypesArrive, CachedAt
    <3>2. EntryOK(e)
      BY <2>2 DEF EntryOK
    <3> HIDE DEF e
    <3>3. \A k \in Lists, n \in Node : lists'[k][n] = e \/ lists'[k][n] = lists[k][n]
      BY <1>0, <2>3, <3>1 DEF TypeOK
    <3> QED BY <1>0, <3>2, <3>3 DEF EntriesOK, EntryOK
  <2> QED BY <1>0, <1>2, <2>6, <2>8, <2>9 DEF AgeInv
<1>d. ASSUME NEW c \in Caller, RowsArrive(c) \/ OtherArrives(c) PROVE AgeInv'
  <2>1. Busy(c) /\ now' = now /\ lists' = lists /\ replies' = {}
    BY <1>d DEF RowsArrive, OtherArrives, Querying
  <2>2. LoadsOK'
    BY <1>d, <2>1, ArrivedOK DEF RowsArrive, OtherArrives
  <2> QED BY <1>0, <1>2, <2>1, <2>2, EntriesKept DEF AgeInv
<1>e. ASSUME NEW c \in Caller, ListLoaded(c) PROVE AgeInv'
  <2> DEFINE l == load[c]
  <2>1. l \in Load /\ LoadOK(l)
    BY <1>0, <1>e, BusyIsLoad DEF ListLoaded, LoadsOK
  <2>2. l.need = {} /\ ~l.waiting /\ l.ask # "purchase" /\ now' = now
    BY <1>e DEF ListLoaded
  <2>3. PICK b \in BOOLEAN :
          LET entry == [at |-> CachedAt, read |-> l.read, types |-> l.types, empty |-> b]
          IN lists' = [lists EXCEPT ![l.ask][l.node] = entry] /\ AfterPqs(c, l, entry)
    BY <1>e DEF ListLoaded
  <2> DEFINE e == [at |-> CachedAt, read |-> l.read, types |-> l.types, empty |-> b]
  <2>4. /\ lists' = [lists EXCEPT ![l.ask][l.node] = e] /\ AfterPqs(c, l, e)
        /\ e.at = now /\ e.read = l.read /\ e.types = l.types /\ e.empty = b
    BY <2>3 DEF CachedAt
  <2>5. /\ l.since \in Nat /\ l.read \in Nat /\ l.types \in Nat /\ now \in Nat
        /\ MaxLoad \in Nat /\ Ttl \in Nat \ {0}
    BY <1>0, <2>1, LoadTimes, TimeIsNat, TimesAssumption DEF TypeOK
  <2>6. l.node \in Node /\ l.ask \in Lists /\ l.read \in AnyTime /\ l.types \in AnyTime
    BY <2>1, <2>2 DEF Load, Ask, Lists, AnyTime
  <2> HIDE DEF e, l
  <2>7. l.types + Ttl > l.since /\ l.since <= l.read /\ l.since <= now /\ now <= l.since + MaxLoad
    BY <2>1, <2>2 DEF LoadOK
  <2>8. e.read + Ttl + MaxLoad > l.since /\ e.types + 2 * Ttl + MaxLoad > l.since
    BY <2>4, <2>5, <2>7
  <2>9. LoadsOK' /\ Unbought
    <3>1. (l.promise = "kept" => l.kept.at + Ttl > l.since) /\ GrpcFresh(l)
      BY <2>1 DEF LoadOK
    <3>2. e.read \in AnyTime /\ e.types \in AnyTime /\ e.empty \in BOOLEAN
      BY <2>4, <2>6
    <3> QED BY <2>1, <2>2, <2>4, <2>7, <2>8, <3>1, <3>2, AfterPqsOK
  <2>10. EntriesOK'
    <3>1. EntryOK(e)
      BY <2>4, <2>5, <2>7 DEF EntryOK
    <3>2. \A k \in Lists, n \in Node : lists'[k][n] = e \/ lists'[k][n] = lists[k][n]
      BY <1>0, <2>4, <2>6 DEF TypeOK
    <3> QED BY <1>0, <3>1, <3>2 DEF EntriesOK, EntryOK
  <2> QED BY <1>0, <1>1, <2>9, <2>10 DEF AgeInv
<1>f. ASSUME NEW c \in Caller, ListFails(c) PROVE AgeInv'
  <2>1. Unbought
    BY <1>f, FailedOK DEF ListFails, End, Unbought
  <2>2. LoadsOK'
    BY <1>f, LoadChangesOK DEF ListFails, End, AnyLoad
  <2> QED BY <1>0, <1>1, <1>f, <2>1, <2>2, EntriesKept DEF AgeInv, ListFails
<1>g. ASSUME NEW n \in Node, GrpcTokensArrive(n) PROVE AgeInv'
  <2>1. PICK e \in {TRUE, FALSE} : Settle(n, "kept", [at |-> now, empty |-> e])
    BY <1>g DEF GrpcTokensArrive
  <2>2. [at |-> now, empty |-> e] \in AnyTokens /\ [at |-> now, empty |-> e].at = now
    BY <1>0 DEF AnyTokens, GrpcTokens, TypeOK
  <2>3. now' = now /\ lists' = lists
    BY <1>g DEF GrpcTokensArrive
  <2>4. LoadsOK' /\ Unbought
    BY <2>1, <2>2, <2>3, SettleOK
  <2> QED BY <1>0, <1>1, <2>3, <2>4, EntriesKept DEF AgeInv
<1>h. ASSUME NEW n \in Node, GrpcTokensFail(n) PROVE AgeInv'
  <2>1. Settle(n, "failed", NoTokens) /\ now' = now /\ lists' = lists
    BY <1>h DEF GrpcTokensFail
  <2>2. LoadsOK' /\ Unbought
    BY <2>1, SettleOK DEF AnyTokens
  <2> QED BY <1>0, <1>1, <2>1, <2>2, EntriesKept DEF AgeInv
<1>i. ASSUME NEW n \in Node, ConnectFails(n) PROVE AgeInv'
  <2>1. now' = now /\ lists' = lists /\ load' = load /\ replies' = {}
    BY <1>i DEF ConnectFails
  <2>2. LoadsOK'
    BY <1>0, <2>1 DEF LoadsOK, LoadOK, GrpcFresh, Recent, Busy
  <2> QED BY <1>0, <1>2, <2>1, <2>2, EntriesKept DEF AgeInv
<1>j. ASSUME NEW c \in Caller, NEW n \in Node, AskPurchase(c, n) PROVE AgeInv'
  <2> DEFINE l == NewLoad("purchase", n)
  <2>1. now' = now /\ lists' = lists
    BY <1>j DEF AskPurchase
  <2>2. l \in Load /\ l.ask = "purchase" /\ l.since = now /\ ~l.waiting /\ l.promise = "no promise"
    BY <1>0, NewLoadTyped DEF NewLoad, TypeOK, Ask
  <2>3. now \in Nat /\ MaxLoad \in Nat
    BY <1>0, TimeIsNat, TimesAssumption DEF TypeOK
  <2>4. LoadOK(l)
    <3> HIDE DEF l
    <3>1. l.since <= now /\ now <= l.since + MaxLoad
      <4>1. l.since = now
        BY <2>2
      <4>2. now <= now /\ now <= now + MaxLoad
        BY <2>3
      <4> QED BY <4>1, <4>2
    <3>2. l.promise # "kept" /\ GrpcFresh(l)
      BY <2>2 DEF GrpcFresh
    <3> QED BY <2>2, <3>1, <3>2 DEF LoadOK
  <2> DEFINE p == purchases[<<n, Today>>]
  <2>5. /\ End(c, Bought(l, p)) \/ (load' = [load EXCEPT ![c] = l] /\ replies' = {})
        /\ purchases' = purchases
    BY <1>j DEF AskPurchase, purchaseVars
  <2>6. ReplyOK(Bought(l, p)) /\ Told(purchases, Bought(l, p))
    <3>1. /\ Bought(l, p).purchase = p /\ Bought(l, p).node = n /\ Bought(l, p).since = now
          /\ Bought(l, p).ask = "purchase"
      BY DEF Bought, Failed, NewLoad
    <3>2. p = purchases[<<n, now \div DayLength>>]
      BY DEF Today
    <3> HIDE DEF l, p
    <3> QED BY <3>1, <3>2 DEF ReplyOK, Told
  <2> HIDE DEF p
  <2> HIDE DEF l
  <2>7. LoadsOK'
    BY <2>1, <2>2, <2>4, <2>5, LoadChangesOK DEF End, AnyLoad
  <2>8. RepliesOK'
    BY <2>5, <2>6 DEF End, RepliesOK, ReplyOK, Recent, Told
  <2> QED BY <1>0, <2>1, <2>7, <2>8, EntriesKept DEF AgeInv
<1>k. ASSUME NEW k \in Key, PurchaseArrives(k) \/ PurchaseFails(k) PROVE AgeInv'
  <2>1. now' = now /\ lists' = lists
    BY <1>k DEF PurchaseArrives, PurchaseFails
  <2>2. PICK p : AnswerAll(k, p) /\ (p = NoPurchase \/ purchases'[k] = p)
    BY <1>0, <1>k DEF PurchaseArrives, PurchaseFails, TypeOK
  <2> DEFINE asked == {c \in Caller : Busy(c) /\ load[c].ask = "purchase" /\ KeyOf(load[c]) = k}
  <2>3. /\ load' = [c \in Caller |-> IF c \in asked THEN Idle ELSE load[c]]
        /\ replies' = {Bought(load[c], p) : c \in asked}
    BY <2>2 DEF AnswerAll
  <2>4. ASSUME NEW c \in asked
      PROVE  ReplyOK(Bought(load[c], p)) /\ Told(purchases', Bought(load[c], p))
    <3> DEFINE r == Bought(load[c], p)
    <3>1. /\ r.purchase = p /\ r.node = load[c].node /\ r.since = load[c].since
          /\ r.ask = "purchase"
      BY DEF Bought, Failed
    <3>2. <<load[c].node, load[c].since \div DayLength>> = k
      BY DEF KeyOf, DayOf
    <3>3. ReplyOK(r)
      <4> HIDE DEF r
      <4> QED BY <3>1 DEF ReplyOK
    <3>4. r.purchase # NoPurchase => purchases'[<<r.node, r.since \div DayLength>>] = r.purchase
      <4> HIDE DEF r
      <4> QED BY <2>2, <3>1, <3>2
    <3> QED BY <3>3, <3>4 DEF Told
  <2> HIDE DEF asked
  <2>5. LoadsOK'
    <3>1. \A c \in Caller : load'[c] # Idle => load'[c] = load[c] /\ Busy(c)
      BY <2>3 DEF Busy
    <3> QED BY <1>0, <2>1, <3>1 DEF LoadsOK, LoadOK, GrpcFresh, Recent, Busy
  <2>6. RepliesOK'
    BY <2>3, <2>4 DEF RepliesOK, ReplyOK, Recent, Told
  <2> QED BY <1>0, <2>1, <2>5, <2>6, EntriesKept DEF AgeInv
<1>l. CASE Tick
  <2>1. /\ now' = now + 1 /\ lists' = lists /\ load' = load /\ replies' = {}
        /\ \A c \in Caller : Busy(c) => now - load[c].since < MaxLoad
    BY <1>l DEF Tick
  <2>2. now \in Nat /\ MaxLoad \in Nat
    BY <1>0, TimeIsNat, TimesAssumption DEF TypeOK
  <2>3. \A c \in Caller : Busy(c) => load[c].since \in Nat
    BY <1>0, BusyIsLoad, LoadTimes
  <2>4. \A c \in Caller : Busy(c) => load[c].since <= now' /\ now' <= load[c].since + MaxLoad
    BY <1>0, <2>1, <2>2, <2>3 DEF LoadsOK, LoadOK
  <2>5. LoadsOK'
    BY <1>0, <2>1, <2>4 DEF LoadsOK, LoadOK, GrpcFresh, Recent, Busy
  <2> QED BY <1>0, <1>2, <2>1, <2>5, EntriesKept DEF AgeInv
<1>m. CASE Restart
  <2>1. /\ \A k \in Lists, n \in Node : lists'[k][n] = NoEntry
        /\ \A c \in Caller : load'[c] = Idle
        /\ replies' = {}
    BY <1>m DEF Restart
  <2> QED BY <1>0, <1>2, <2>1 DEF AgeInv, EntriesOK, EntryOK, LoadsOK, Busy
<1>n. CASE UNCHANGED vars
  <2>1. /\ now' = now /\ lists' = lists /\ load' = load /\ replies' = replies
        /\ purchases' = purchases
    BY <1>n DEF vars, purchaseVars
  <2>2. LoadsOK' /\ RepliesOK'
    BY <1>0, <2>1 DEF LoadsOK, LoadOK, GrpcFresh, Recent, Busy, RepliesOK, ReplyOK, Told
  <2> QED BY <1>0, <2>1, <2>2, EntriesKept DEF AgeInv
<1> QED BY <1>a, <1>b, <1>c, <1>d, <1>e, <1>f, <1>g, <1>h, <1>i, <1>j, <1>k, <1>l, <1>m, <1>n
        DEF Next

THEOREM AgesAreBounded == Spec => []AgeInv
<1> QED BY InitAge, NextAge, PTL DEF Spec

(* A list that is served was read at most a TTL and a load ago, and its       *)
(* template types a TTL before (ServedListIsRecent).                          *)
THEOREM ServedListsAreRecent == Spec => []ServedListIsRecent
<1>1. AgeInv => ServedListIsRecent
  BY DEF AgeInv, RepliesOK, ReplyOK, Recent, ServedListIsRecent
<1> QED BY <1>1, AgesAreBounded, PTL

(* Tokens that are not "refreshing" are those of the last TTL, unless the     *)
(* load that was waited for failed (SettledTokensAreFresh).                   *)
THEOREM SettledTokensAreRecent == Spec => []SettledTokensAreFresh
<1>1. AgeInv => SettledTokensAreFresh
  BY DEF AgeInv, RepliesOK, ReplyOK, SettledTokensAreFresh
<1> QED BY <1>1, AgesAreBounded, PTL

(* Whoever asks for a node's purchase on one day is told the same, across     *)
(* joined loads, failures, midnight and restarts (PurchasesOfADayAgree).      *)
THEOREM PurchasesAgree == Spec => []PurchasesOfADayAgree
<1>1. AgeInv => PurchasesOfADayAgree
  BY DEF AgeInv, RepliesOK, Told, PurchasesOfADayAgree
<1> QED BY <1>1, AgesAreBounded, PTL

-----------------------------------------------------------------------------
(* One load at a time.                                                     *)

\* The maps of loads in progress hold exactly those.
CountInv ==
  /\ \A n \in Node : grpcCalls[n] = IF n \in refreshes THEN 1 ELSE 0
  /\ \A k \in Key : purchaseCalls[k] = IF k \in purchaseRefreshes THEN 1 ELSE 0

GrpcBegins(n) == /\ MustRefresh(n)
                 /\ refreshes' = refreshes \cup {n}
                 /\ grpcCalls' = [grpcCalls EXCEPT ![n] = @ + 1]
                 /\ grpcTokens' = grpcTokens
GrpcSettles(n) == /\ GrpcEnds(n)
                  /\ \/ grpcTokens' = grpcTokens
                     \/ \E g \in GrpcTokens : grpcTokens' = [grpcTokens EXCEPT ![n] = g]

\* What a step does to the gRPC loads.
LEMMA GrpcCases ==
  ASSUME TypeOK, [Next]_vars
  PROVE  \/ UNCHANGED grpcVars
         \/ \E n \in Node : GrpcBegins(n) \/ GrpcSettles(n)
         \/ Restart
<1>1. ASSUME NEW c \in Caller, NEW n \in Node, AskTokens(c, n)
      PROVE  UNCHANGED grpcVars \/ GrpcBegins(n)
  BY <1>1 DEF AskTokens, GrpcBegins, grpcVars
<1>2. ASSUME NEW n \in Node, GrpcTokensArrive(n) PROVE GrpcSettles(n)
  <2>1. \A e \in {TRUE, FALSE} : [at |-> now, empty |-> e] \in GrpcTokens
    BY DEF GrpcTokens, TypeOK
  <2> QED BY <1>2, <2>1 DEF GrpcTokensArrive, GrpcSettles
<1>3. ASSUME NEW n \in Node, GrpcTokensFail(n) PROVE GrpcSettles(n)
  BY <1>3 DEF GrpcTokensFail, GrpcSettles
<1>4. ASSUME NEW c \in Caller, NEW n \in Node,
             AskPurchase(c, n) \/ \E k \in mix : AskList(c, n, k)
      PROVE  UNCHANGED grpcVars
  BY <1>4 DEF AskPurchase, AskList
<1>5. ASSUME NEW c \in Caller, \/ TypesArrive(c) \/ RowsArrive(c) \/ OtherArrives(c)
                               \/ ListLoaded(c) \/ ListFails(c)
      PROVE  UNCHANGED grpcVars
  BY <1>5 DEF TypesArrive, RowsArrive, OtherArrives, ListLoaded, ListFails
<1>6. ASSUME NEW n \in Node, ConnectFails(n) PROVE UNCHANGED grpcVars
  BY <1>6 DEF ConnectFails
<1>7. ASSUME NEW k \in Key, PurchaseArrives(k) \/ PurchaseFails(k) PROVE UNCHANGED grpcVars
  BY <1>7 DEF PurchaseArrives, PurchaseFails
<1>8. CASE Tick \/ UNCHANGED vars
  BY <1>8 DEF Tick, vars
<1> QED BY <1>1, <1>2, <1>3, <1>4, <1>5, <1>6, <1>7, <1>8 DEF Next

PurchaseBegins(k) == /\ ~Known(k) /\ k \notin purchaseRefreshes
                     /\ purchaseRefreshes' = purchaseRefreshes \cup {k}
                     /\ purchaseCalls' = [purchaseCalls EXCEPT ![k] = @ + 1]
                     /\ purchases' = purchases
PurchaseSettles(k) == /\ PurchaseEnds(k)
                      /\ \/ purchases' = purchases
                         \/ \E p \in Purchase : purchases' = [purchases EXCEPT ![k] = p]

LEMMA PurchaseCases ==
  ASSUME TypeOK, [Next]_vars
  PROVE  \/ UNCHANGED purchaseVars
         \/ \E k \in Key : PurchaseBegins(k) \/ PurchaseSettles(k)
         \/ Restart
<1>1. ASSUME NEW c \in Caller, NEW n \in Node, AskPurchase(c, n)
      PROVE  UNCHANGED purchaseVars \/ \E k \in Key : PurchaseBegins(k)
  <2>1. <<n, Today>> \in Key
    BY TodayIsADay DEF TypeOK, Key
  <2>2. UNCHANGED purchaseVars \/ PurchaseBegins(<<n, Today>>)
    BY <1>1 DEF AskPurchase, PurchaseBegins, purchaseVars
  <2> QED BY <2>1, <2>2
<1>2. ASSUME NEW k \in Key, PurchaseArrives(k) PROVE PurchaseSettles(k)
  <2>1. \A b \in {TRUE, FALSE} : [at |-> now, none |-> b] \in Purchase
    BY DEF Purchase, TypeOK
  <2> QED BY <1>2, <2>1 DEF PurchaseArrives, PurchaseSettles
<1>3. ASSUME NEW k \in Key, PurchaseFails(k) PROVE PurchaseSettles(k)
  BY <1>3 DEF PurchaseFails, PurchaseSettles
<1>4. ASSUME NEW c \in Caller, NEW n \in Node,
             AskTokens(c, n) \/ \E k \in mix : AskList(c, n, k)
      PROVE  UNCHANGED purchaseVars
  BY <1>4 DEF AskTokens, AskList
<1>5. ASSUME NEW c \in Caller, \/ TypesArrive(c) \/ RowsArrive(c) \/ OtherArrives(c)
                               \/ ListLoaded(c) \/ ListFails(c)
      PROVE  UNCHANGED purchaseVars
  BY <1>5 DEF TypesArrive, RowsArrive, OtherArrives, ListLoaded, ListFails
<1>6. ASSUME NEW n \in Node, GrpcTokensArrive(n) \/ GrpcTokensFail(n) \/ ConnectFails(n)
      PROVE  UNCHANGED purchaseVars
  BY <1>6 DEF GrpcTokensArrive, GrpcTokensFail, ConnectFails
<1>7. CASE Tick \/ UNCHANGED vars
  BY <1>7 DEF Tick, vars
<1> QED BY <1>1, <1>2, <1>3, <1>4, <1>5, <1>6, <1>7 DEF Next

LEMMA InitCounts == Init => CountInv
  BY DEF Init, CountInv

LEMMA NextCounts == TypeOK /\ CountInv /\ [Next]_vars => CountInv'
<1> SUFFICES ASSUME TypeOK, CountInv, [Next]_vars PROVE CountInv'
  OBVIOUS
<1>0. grpcCalls \in [Node -> Nat] /\ purchaseCalls \in [Key -> Nat]
  BY DEF TypeOK
<1>1. \A n \in Node : grpcCalls'[n] = IF n \in refreshes' THEN 1 ELSE 0
  <2>1. CASE UNCHANGED grpcVars
    BY <2>1 DEF CountInv, grpcVars
  <2>2. ASSUME NEW m \in Node, GrpcBegins(m)
        PROVE  \A n \in Node : grpcCalls'[n] = IF n \in refreshes' THEN 1 ELSE 0
    BY <1>0, <2>2 DEF GrpcBegins, MustRefresh, CountInv
  <2>3. ASSUME NEW m \in Node, GrpcSettles(m)
        PROVE  \A n \in Node : grpcCalls'[n] = IF n \in refreshes' THEN 1 ELSE 0
    BY <1>0, <2>3 DEF GrpcSettles, GrpcEnds, CountInv
  <2>4. CASE Restart
    BY <2>4 DEF Restart
  <2> QED BY <2>1, <2>2, <2>3, <2>4, GrpcCases
<1>2. \A k \in Key : purchaseCalls'[k] = IF k \in purchaseRefreshes' THEN 1 ELSE 0
  <2>1. CASE UNCHANGED purchaseVars
    BY <2>1 DEF CountInv, purchaseVars
  <2>2. ASSUME NEW m \in Key, PurchaseBegins(m)
        PROVE  \A k \in Key : purchaseCalls'[k] = IF k \in purchaseRefreshes' THEN 1 ELSE 0
    BY <1>0, <2>2 DEF PurchaseBegins, CountInv
  <2>3. ASSUME NEW m \in Key, PurchaseSettles(m)
        PROVE  \A k \in Key : purchaseCalls'[k] = IF k \in purchaseRefreshes' THEN 1 ELSE 0
    BY <1>0, <2>3 DEF PurchaseSettles, PurchaseEnds, CountInv
  <2>4. CASE Restart
    BY <2>4 DEF Restart
  <2> QED BY <2>1, <2>2, <2>3, <2>4, PurchaseCases
<1> QED BY <1>1, <1>2 DEF CountInv

LEMMA GrpcStepIsShared ==
  ASSUME TypeOK, CountInv, [Next]_vars, NEW n \in Node
  PROVE  GrpcLoad(n)!Next
<1> USE DEF GrpcLoad!Next
<1>0. /\ grpcCalls \in [Node -> Nat] /\ grpcTokens \in [Node -> GrpcTokens \cup {NoTokens}]
      /\ grpcCalls[n] \in {0, 1}
  BY DEF TypeOK, CountInv
<1>1. CASE UNCHANGED grpcVars
  BY <1>1 DEF GrpcLoad!Age, grpcVars
<1>2. ASSUME NEW m \in Node, GrpcBegins(m) PROVE GrpcLoad(n)!Next
  <2>1. CASE m = n
    BY <1>0, <1>2, <2>1 DEF GrpcLoad!Begin, GrpcBegins, MustRefresh, CountInv
  <2>2. CASE m # n
    BY <1>0, <1>2, <2>2 DEF GrpcLoad!Age, GrpcBegins
  <2> QED BY <2>1, <2>2
<1>3. ASSUME NEW m \in Node, GrpcSettles(m) PROVE GrpcLoad(n)!Next
  <2>1. CASE m = n /\ grpcTokens' = grpcTokens
    BY <1>0, <1>3, <2>1 DEF GrpcLoad!Fail, GrpcSettles, GrpcEnds
  <2>2. CASE m = n /\ \E g \in GrpcTokens : grpcTokens' = [grpcTokens EXCEPT ![n] = g]
    BY <1>0, <1>3, <2>2 DEF GrpcLoad!Succeed, GrpcSettles, GrpcEnds
  <2>3. CASE m # n
    BY <1>0, <1>3, <2>3 DEF GrpcLoad!Age, GrpcSettles, GrpcEnds
  <2> QED BY <1>3, <2>1, <2>2, <2>3 DEF GrpcSettles
<1>4. CASE Restart
  BY <1>4 DEF GrpcLoad!Restart, Restart
<1> QED BY <1>1, <1>2, <1>3, <1>4, GrpcCases

LEMMA PurchaseStepIsShared ==
  ASSUME TypeOK, CountInv, [Next]_vars, NEW k \in Key
  PROVE  PurchaseLoad(k)!Next
<1> USE DEF PurchaseLoad!Next
<1>0. /\ purchaseCalls \in [Key -> Nat] /\ purchases \in [Key -> Purchase \cup {NoPurchase}]
      /\ purchaseCalls[k] \in {0, 1}
  BY DEF TypeOK, CountInv
<1>1. CASE UNCHANGED purchaseVars
  BY <1>1 DEF PurchaseLoad!Age, purchaseVars
<1>2. ASSUME NEW m \in Key, PurchaseBegins(m) PROVE PurchaseLoad(k)!Next
  <2>1. CASE m = k
    BY <1>0, <1>2, <2>1 DEF PurchaseLoad!Begin, PurchaseBegins, Known, CountInv
  <2>2. CASE m # k
    BY <1>0, <1>2, <2>2 DEF PurchaseLoad!Age, PurchaseBegins
  <2> QED BY <2>1, <2>2
<1>3. ASSUME NEW m \in Key, PurchaseSettles(m) PROVE PurchaseLoad(k)!Next
  <2>1. CASE m = k /\ purchases' = purchases
    BY <1>0, <1>3, <2>1 DEF PurchaseLoad!Fail, PurchaseSettles, PurchaseEnds
  <2>2. CASE m = k /\ \E p \in Purchase : purchases' = [purchases EXCEPT ![k] = p]
    BY <1>0, <1>3, <2>2 DEF PurchaseLoad!Succeed, PurchaseSettles, PurchaseEnds
  <2>3. CASE m # k
    BY <1>0, <1>3, <2>3 DEF PurchaseLoad!Age, PurchaseSettles, PurchaseEnds
  <2> QED BY <1>3, <2>1, <2>2, <2>3 DEF PurchaseSettles
<1>4. CASE Restart
  BY <1>4 DEF PurchaseLoad!Restart, Restart
<1> QED BY <1>1, <1>2, <1>3, <1>4, PurchaseCases

(* The gRPC tokens of a node are a shared load, for every node                *)
(* (GrpcTokensAreShared).                                                     *)
THEOREM GrpcTokensShareLoads == Spec => GrpcTokensAreShared
<1>1. Init => \A n \in Node : GrpcLoad(n)!Init
  BY DEF Init, GrpcLoad!Init, NoTokens, Fresh
<1>2. TypeOK /\ CountInv /\ [Next]_vars =>
        \A n \in Node : [GrpcLoad(n)!Next]_(GrpcLoad(n)!vars)
  BY GrpcStepIsShared
<1> QED BY <1>1, <1>2, InitTyped, NextTyped, InitCounts, NextCounts, PTL
        DEF Spec, GrpcTokensAreShared

(* The purchase of every day and node is one (PurchasesAreShared).            *)
THEOREM PurchasesShareLoads == Spec => PurchasesAreShared
<1>1. Init => \A k \in Key : PurchaseLoad(k)!Init
  BY DEF Init, PurchaseLoad!Init
<1>2. TypeOK /\ CountInv /\ [Next]_vars =>
        \A k \in Key : [PurchaseLoad(k)!Next]_(PurchaseLoad(k)!vars)
  BY PurchaseStepIsShared
<1> QED BY <1>1, <1>2, InitTyped, NextTyped, InitCounts, NextCounts, PTL
        DEF Spec, PurchasesAreShared

-----------------------------------------------------------------------------
(* Nobody waits for nothing.                                               *)

\* l waits, if it does, for a load among those counted by g and p.
WaitOK(l, g, p) == /\ l.promise = "pending" => g[l.node] > 0
                   /\ l.waiting => l.promise = "pending"
                   /\ l.ask = "purchase" => p[KeyOf(l)] > 0

WaitInv == \A c \in Caller : Busy(c) => WaitOK(load[c], grpcCalls, purchaseCalls)

LEMMA LoadChangesWait ==
  ASSUME TypeOK, WaitInv, NEW c \in Caller, NEW l, load' = [load EXCEPT ![c] = l],
         l # Idle => WaitOK(l, grpcCalls', purchaseCalls'),
         \A n \in Node : grpcCalls[n] > 0 => grpcCalls'[n] > 0,
         \A k \in Key : purchaseCalls[k] > 0 => purchaseCalls'[k] > 0
  PROVE  WaitInv'
<1>1. \A d \in Caller : load'[d] = IF d = c THEN l ELSE load[d]
  BY DEF TypeOK
<1>2. ASSUME NEW d \in Caller, d # c, load[d] # Idle
      PROVE  WaitOK(load[d], grpcCalls', purchaseCalls')
  <2>1. load[d] \in Load /\ WaitOK(load[d], grpcCalls, purchaseCalls)
    BY <1>2, BusyIsLoad DEF WaitInv, Busy
  <2>2. load[d].node \in Node /\ KeyOf(load[d]) \in Key
    BY <2>1 DEF Load, KeyOf, Key, DayOf, Day
  <2> QED BY <2>1, <2>2 DEF WaitOK
<1>3. \A d \in Caller : load'[d] # Idle => WaitOK(load'[d], grpcCalls', purchaseCalls')
  BY <1>1, <1>2
<1> QED BY <1>3 DEF WaitInv, Busy

LEMMA AfterPqsWaits ==
  ASSUME NEW c \in Caller, NEW l \in Load, l.ask # "purchase", NEW e,
         l.promise = "pending" => grpcCalls'[l.node] > 0, AfterPqs(c, l, e)
  PROVE  \E w : load' = [load EXCEPT ![c] = w] /\ (w # Idle => WaitOK(w, grpcCalls', purchaseCalls'))
<1> DEFINE w == [l EXCEPT !.need = {}, !.waiting = TRUE, !.read = e.read, !.types = e.types]
<1>1. CASE load' = [load EXCEPT ![c] = w] /\ l.promise = "pending"
  <2>1. w.promise = l.promise /\ w.node = l.node /\ w.ask = l.ask
    BY DEF Load
  <2> HIDE DEF w
  <2>2. WaitOK(w, grpcCalls', purchaseCalls')
    BY <1>1, <2>1 DEF WaitOK
  <2> QED BY <1>1, <2>2
<1>2. CASE load' = [load EXCEPT ![c] = Idle]
  BY <1>2
<1>3. \/ load' = [load EXCEPT ![c] = w] /\ l.promise = "pending"
      \/ load' = [load EXCEPT ![c] = Idle]
  BY Zenon DEF AfterPqs, End
<1> QED BY <1>1, <1>2, <1>3

LEMMA ReadListWaits ==
  ASSUME NEW c \in Caller, NEW l \in Load, l.ask # "purchase", ~l.waiting,
         l.promise = "pending" => grpcCalls'[l.node] > 0, ReadList(c, l)
  PROVE  \E w : load' = [load EXCEPT ![c] = w] /\ (w # Idle => WaitOK(w, grpcCalls', purchaseCalls'))
<1> DEFINE w == [l EXCEPT !.need = PartsOf(l.ask, l.node), !.types = lists["types"][l.node].at]
<1>1. CASE AfterPqs(c, l, lists[l.ask][l.node])
  BY <1>1, AfterPqsWaits
<1>2. CASE load' = [load EXCEPT ![c] = w]
  <2>1. w.promise = l.promise /\ w.node = l.node /\ w.ask = l.ask /\ w.waiting = l.waiting
    BY DEF Load
  <2> HIDE DEF w
  <2>2. WaitOK(w, grpcCalls', purchaseCalls')
    BY <2>1 DEF WaitOK
  <2> QED BY <1>2, <2>2
<1> QED BY <1>1, <1>2 DEF ReadList

LEMMA SettleWaits ==
  ASSUME TypeOK, CountInv, WaitInv, NEW n \in Node, NEW s \in {"kept", "failed"}, NEW g,
         GrpcEnds(n), Settle(n, s, g), UNCHANGED purchaseCalls
  PROVE  WaitInv'
<1> SUFFICES ASSUME NEW c \in Caller, load'[c] # Idle
             PROVE  WaitOK(load'[c], grpcCalls', purchaseCalls')
  BY DEF WaitInv, Busy
<1>0. grpcCalls \in [Node -> Nat]
  BY DEF TypeOK
<1> DEFINE waits == Busy(c) /\ load[c].node = n /\ load[c].promise = "pending"
           w == [load[c] EXCEPT !.promise = s, !.kept = g]
<1>1. load'[c] = IF ~waits THEN load[c] ELSE IF load[c].waiting THEN Idle ELSE w
  BY DEF Settle
<1>2. load[c] # Idle
  BY <1>1 DEF Busy
<1>3. load[c] \in Load /\ WaitOK(load[c], grpcCalls, purchaseCalls)
  BY <1>2, BusyIsLoad DEF WaitInv, Busy
<1>4. CASE waits
  <2>1. load'[c] = w /\ ~load[c].waiting
    BY <1>1, <1>4
  <2>2. /\ w.promise = s /\ w.waiting = load[c].waiting /\ w.ask = load[c].ask
        /\ w.node = load[c].node /\ w.since = load[c].since
    BY <1>3 DEF Load
  <2>3. KeyOf(w) = KeyOf(load[c])
    BY <2>2 DEF KeyOf, DayOf
  <2> HIDE DEF w
  <2> QED BY <1>3, <2>1, <2>2, <2>3 DEF WaitOK
<1>5. CASE ~waits
  <2>1. load'[c] = load[c]
    BY <1>1, <1>5
  <2>2. load[c].promise = "pending" => load[c].node # n
    BY <1>2, <1>5 DEF Busy
  <2>3. load[c].node \in Node
    BY <1>3 DEF Load
  <2>4. load[c].node # n => grpcCalls'[load[c].node] = grpcCalls[load[c].node]
    BY <1>0, <2>3 DEF GrpcEnds
  <2> QED BY <1>3, <2>1, <2>2, <2>4 DEF WaitOK
<1> QED BY <1>4, <1>5

LEMMA InitWaits == Init => WaitInv
  BY DEF Init, WaitInv, Busy

LEMMA NextWaits == TypeOK /\ CountInv /\ WaitInv /\ [Next]_vars => WaitInv'
<1> SUFFICES ASSUME TypeOK, CountInv, WaitInv, [Next]_vars PROVE WaitInv'
  OBVIOUS
<1>0. grpcCalls \in [Node -> Nat] /\ purchaseCalls \in [Key -> Nat]
  BY DEF TypeOK
<1>a. ASSUME NEW c \in Caller, NEW n \in Node, AskTokens(c, n) PROVE WaitInv'
  <2>1. TokenLoad(n) \in Load /\ TokenLoad(n).ask = "tokens" /\ TokenLoad(n).node = n
    BY TokenLoadTyped
  <2>2. ~TokenLoad(n).waiting
    <3>1. ~NewLoad("tokens", n).waiting /\ NewLoad("tokens", n) \in Load
      BY NewLoadTyped DEF NewLoad, TypeOK, Ask
    <3>2. /\ ~[NewLoad("tokens", n) EXCEPT !.grpc = grpcTokens[n], !.kept = grpcTokens[n],
                                           !.promise = "kept"].waiting
          /\ ~[NewLoad("tokens", n) EXCEPT !.grpc = grpcTokens[n], !.promise = "pending",
                                           !.refreshing = TRUE].waiting
      BY <3>1 DEF Load
    <3> QED BY <3>1, <3>2 DEF TokenLoad
  <2>3. TokenLoad(n).promise = "pending" => n \in GrpcNode /\ ~Fresh(grpcTokens[n].at)
    <3>1. NewLoad("tokens", n).promise = "no promise" /\ NewLoad("tokens", n) \in Load
      BY NewLoadTyped DEF NewLoad, TypeOK, Ask
    <3>2. [NewLoad("tokens", n) EXCEPT !.grpc = grpcTokens[n], !.kept = grpcTokens[n],
                                      !.promise = "kept"].promise = "kept"
      BY <3>1 DEF Load
    <3> QED BY <3>1, <3>2 DEF TokenLoad
  <2>4. TokenLoad(n).promise = "pending" => grpcCalls'[n] > 0
    BY <1>0, <1>a, <2>3 DEF AskTokens, MustRefresh, CountInv
  <2>5. \A m \in Node : grpcCalls[m] > 0 => grpcCalls'[m] > 0
    BY <1>0, <1>a DEF AskTokens
  <2>6. purchaseCalls' = purchaseCalls /\ ReadList(c, TokenLoad(n))
    BY <1>a DEF AskTokens, purchaseVars
  <2>7. PICK w : /\ load' = [load EXCEPT ![c] = w]
                 /\ w # Idle => WaitOK(w, grpcCalls', purchaseCalls')
    BY <2>1, <2>2, <2>4, <2>6, ReadListWaits
  <2> QED BY <2>5, <2>6, <2>7, LoadChangesWait
<1>b. ASSUME NEW c \in Caller, NEW n \in Node, NEW k \in mix, AskList(c, n, k) PROVE WaitInv'
  <2>1. k \in Ask /\ k # "purchase"
    BY <1>b DEF AskList, Ask
  <2> DEFINE l == NewLoad(k, n)
  <2>2. l \in Load /\ l.ask = k /\ ~l.waiting /\ l.promise = "no promise"
    BY <2>1, NewLoadTyped DEF NewLoad, TypeOK
  <2>3. ReadList(c, l) /\ grpcCalls' = grpcCalls /\ purchaseCalls' = purchaseCalls
    BY <1>b DEF AskList, grpcVars, purchaseVars
  <2> HIDE DEF l
  <2>4. PICK w : /\ load' = [load EXCEPT ![c] = w]
                 /\ w # Idle => WaitOK(w, grpcCalls', purchaseCalls')
    BY <2>1, <2>2, <2>3, ReadListWaits
  <2> QED BY <2>3, <2>4, LoadChangesWait
<1>c. ASSUME NEW c \in Caller, TypesArrive(c) \/ RowsArrive(c) \/ OtherArrives(c) PROVE WaitInv'
  <2>1. load[c] \in Load /\ WaitOK(load[c], grpcCalls, purchaseCalls)
    BY <1>c, BusyIsLoad DEF TypesArrive, RowsArrive, OtherArrives, Querying, WaitInv
  <2>2. grpcCalls' = grpcCalls /\ purchaseCalls' = purchaseCalls
    BY <1>c DEF TypesArrive, RowsArrive, OtherArrives, grpcVars, purchaseVars
  <2>3. PICK need, types, read :
          load' = [load EXCEPT ![c] = [load[c] EXCEPT !.need = need, !.types = types, !.read = read]]
    <3>1. CASE TypesArrive(c)
      <4>1. load' = [load EXCEPT ![c] = [load[c] EXCEPT !.need = @ \ {"types"}, !.types = now,
                                                       !.read = load[c].read]]
        BY <2>1, <3>1 DEF TypesArrive, Load
      <4> QED BY <4>1
    <3>2. CASE RowsArrive(c)
      <4>1. load' = [load EXCEPT ![c] = [load[c] EXCEPT !.need = @ \ {"rows"},
                                           !.types = load[c].types, !.read = FirstRead(load[c])]]
        BY <2>1, <3>2 DEF RowsArrive, Load
      <4> QED BY <4>1
    <3>3. CASE OtherArrives(c)
      <4>1. load' = [load EXCEPT ![c] = [load[c] EXCEPT !.need = @ \ {"other"},
                                           !.types = load[c].types, !.read = FirstRead(load[c])]]
        BY <2>1, <3>3 DEF OtherArrives, Load
      <4> QED BY <4>1
    <3> QED BY <1>c, <3>1, <3>2, <3>3
  <2> DEFINE w == [load[c] EXCEPT !.need = need, !.types = types, !.read = read]
  <2>4. /\ w.promise = load[c].promise /\ w.waiting = load[c].waiting /\ w.ask = load[c].ask
        /\ w.node = load[c].node /\ w.since = load[c].since
    BY <2>1 DEF Load
  <2>5. load' = [load EXCEPT ![c] = w]
    BY <2>3
  <2> HIDE DEF w
  <2>6. WaitOK(w, grpcCalls', purchaseCalls')
    BY <2>1, <2>2, <2>4 DEF WaitOK, KeyOf, DayOf
  <2> QED BY <2>2, <2>5, <2>6, LoadChangesWait
<1>d. ASSUME NEW c \in Caller, ListLoaded(c) PROVE WaitInv'
  <2>1. load[c] \in Load /\ WaitOK(load[c], grpcCalls, purchaseCalls)
    BY <1>d, BusyIsLoad DEF ListLoaded, WaitInv
  <2>2. load[c].ask # "purchase" /\ grpcCalls' = grpcCalls /\ purchaseCalls' = purchaseCalls
    BY <1>d DEF ListLoaded, grpcVars, purchaseVars
  <2>3. \E e : AfterPqs(c, load[c], e)
    BY <1>d DEF ListLoaded
  <2>4. PICK w : /\ load' = [load EXCEPT ![c] = w]
                 /\ w # Idle => WaitOK(w, grpcCalls', purchaseCalls')
    BY <2>1, <2>2, <2>3, AfterPqsWaits DEF WaitOK
  <2> QED BY <2>2, <2>4, LoadChangesWait
<1>e. ASSUME NEW c \in Caller, ListFails(c) PROVE WaitInv'
  BY <1>e, LoadChangesWait DEF ListFails, End, grpcVars, purchaseVars
<1>f. ASSUME NEW n \in Node, GrpcTokensArrive(n) \/ GrpcTokensFail(n) PROVE WaitInv'
  BY <1>f, SettleWaits DEF GrpcTokensArrive, GrpcTokensFail, purchaseVars
<1>g. ASSUME NEW c \in Caller, NEW n \in Node, AskPurchase(c, n) PROVE WaitInv'
  <2> DEFINE l == NewLoad("purchase", n)
             k == <<n, Today>>
  <2>1. grpcCalls' = grpcCalls /\ k \in Key
    BY <1>g, TodayIsADay DEF AskPurchase, grpcVars, TypeOK, Key
  <2>2. l.promise = "no promise" /\ ~l.waiting /\ KeyOf(l) = k
    BY DEF NewLoad, KeyOf, DayOf, Today
  <2>3. CASE Known(k)
    <3>1. load' = [load EXCEPT ![c] = Idle] /\ purchaseCalls' = purchaseCalls
      BY <1>g, <2>3 DEF AskPurchase, End, purchaseVars
    <3> QED BY <2>1, <3>1, LoadChangesWait
  <2>4. CASE ~Known(k)
    <3>1. /\ load' = [load EXCEPT ![c] = l]
          /\ IF k \in purchaseRefreshes THEN purchaseCalls' = purchaseCalls
             ELSE purchaseCalls' = [purchaseCalls EXCEPT ![k] = @ + 1]
      BY <1>g, <2>4 DEF AskPurchase, purchaseVars
    <3> HIDE DEF l, k
    <3>2. purchaseCalls'[k] > 0 /\ \A m \in Key : purchaseCalls[m] > 0 => purchaseCalls'[m] > 0
      BY <1>0, <2>1, <3>1 DEF CountInv
    <3>3. WaitOK(l, grpcCalls', purchaseCalls')
      BY <2>2, <3>2 DEF WaitOK
    <3> QED BY <2>1, <3>1, <3>2, <3>3, LoadChangesWait
  <2> QED BY <2>3, <2>4
<1>h. ASSUME NEW k \in Key, PurchaseArrives(k) \/ PurchaseFails(k) PROVE WaitInv'
  <2>1. PICK p : AnswerAll(k, p)
    BY <1>h DEF PurchaseArrives, PurchaseFails
  <2>2. grpcCalls' = grpcCalls /\ PurchaseEnds(k)
    BY <1>h DEF PurchaseArrives, PurchaseFails, grpcVars
  <2>3. ASSUME NEW c \in Caller, load'[c] # Idle
        PROVE  WaitOK(load'[c], grpcCalls', purchaseCalls')
    <3>1. /\ load'[c] = load[c] /\ load[c] # Idle
          /\ ~(load[c].ask = "purchase" /\ KeyOf(load[c]) = k)
      BY <2>1, <2>3 DEF AnswerAll, Busy
    <3>2. load[c] \in Load /\ WaitOK(load[c], grpcCalls, purchaseCalls)
      BY <3>1, BusyIsLoad DEF WaitInv, Busy
    <3>3. KeyOf(load[c]) \in Key
      BY <3>2 DEF Load, KeyOf, Key, DayOf, Day
    <3>4. KeyOf(load[c]) # k => purchaseCalls'[KeyOf(load[c])] = purchaseCalls[KeyOf(load[c])]
      BY <1>0, <2>2, <3>3 DEF PurchaseEnds
    <3> QED BY <2>2, <3>1, <3>2, <3>4 DEF WaitOK
  <2> QED BY <2>3 DEF WaitInv, Busy
<1>i. CASE Restart
  BY <1>i DEF Restart, WaitInv, Busy
<1>j. CASE Tick \/ (\E n \in Node : ConnectFails(n)) \/ UNCHANGED vars
  <2>1. load' = load /\ grpcCalls' = grpcCalls /\ purchaseCalls' = purchaseCalls
    BY <1>j DEF Tick, ConnectFails, vars, grpcVars, purchaseVars
  <2> QED BY <2>1 DEF WaitInv, Busy
<1> QED BY <1>a, <1>b, <1>c, <1>d, <1>e, <1>f, <1>g, <1>h, <1>i, <1>j DEF Next

(* Whoever waits, waits for a load that is in progress (WaitersHaveALoad).    *)
THEOREM NobodyWaitsForNothing == Spec => []WaitersHaveALoad
<1>1. WaitInv => WaitersHaveALoad
  BY DEF WaitInv, WaitOK, WaitersHaveALoad
<1> QED BY <1>1, InitTyped, NextTyped, InitCounts, NextCounts, InitWaits, NextWaits, PTL DEF Spec

(* The detailed loads implement the abstract one (LoadsAreShared).            *)
THEOREM LoadsShared == Spec => LoadsAreShared
  BY GrpcTokensShareLoads, PurchasesShareLoads, PTL DEF LoadsAreShared

-----------------------------------------------------------------------------
(* Requests put to several nodes (NodeQueries).  What a reply says at the   *)
(* end rests on what was settled before: QueriesInv keeps, for the kinds    *)
(* that need it, what an earlier question must have shown for the request   *)
(* to go on.                                                                *)

Said == (SUBSET Queries!Item) \cup {Queries!Failed, Queries!NotAsked}
Positions == DOMAIN Queries!Route(kind)

QueriesOK ==
  /\ answers \in [Queries!Sources -> [Peer -> Said]]
  /\ asking \subseteq Peer
  /\ kind = "nothing" => reply = Queries!NoReply
  /\ kind # "nothing" =>
       /\ kind \in Queries!AllKinds
       /\ at \in Positions
       /\ asking # {}

Untold(s) == Queries!Asked(s) = {}

\* Only nodes of the request are asked anything, and nothing that its route has not come to.
AskedInv ==
  kind # "nothing" =>
    /\ \A s \in Queries!Sources : Queries!Asked(s) \subseteq asking
    /\ \A s \in Queries!Sources : (\A i \in Positions : i <= at => Queries!Route(kind)[i] # s) => Untold(s)

\* Where tokens are not found, it was a node that said so.
TokensInv ==
  (kind \in Queries!TokenKinds /\ Queries!Source = "grpcTokens") => Queries!Ok("tokens") # {}
NamespaceInv ==
  (kind \in Queries!NamespaceKinds /\ at > 2) => Queries!MatchingParties # {}
UpdateInv == (kind = "update" /\ at > 1) => Queries!WithAsked("detail") # {}

\* Fingerprints are asked of PQS when gRPC could not be asked, has failed, or has answered for everyone.
FingerprintsInv ==
  kind = "fingerprints" =>
    /\ ~Queries!Needed("fingerprints") => Untold("fingerprints")
    /\ (Queries!Needed("fingerprints") /\ at = 2) =>
          Queries!Bad("fingerprints") # {} \/ Queries!Asked("fingerprints") = asking

HistoryInv == AskedInv /\ TokensInv /\ NamespaceInv /\ UpdateInv /\ FingerprintsInv

ReplyInv == FailureIsNotAbsence /\ FingerprintsOfOneSource
QueriesInv == QueriesOK /\ HistoryInv /\ ReplyInv

LEMMA AfterFind ==
  ASSUME NEW t \in Seq(Queries!Sources)
  PROVE  LET r == Queries!Find \o t IN
         /\ r \in Seq(Queries!Sources) /\ Len(r) = Len(t) + 2
         /\ r[1] = "tokens" /\ r[2] = "grpcTokens"
         /\ \A i \in 3..(Len(t) + 2) : r[i] = t[i - 2]
<1> DEFINE s == Queries!Find
<1>1. s \in Seq(Queries!Sources) /\ Len(s) = 2 /\ s[1] = "tokens" /\ s[2] = "grpcTokens"
  BY DEF Queries!Find, Queries!Sources
<1> HIDE DEF s
<1>2. /\ s \o t \in Seq(Queries!Sources) /\ Len(s \o t) = Len(s) + Len(t)
      /\ \A i \in 1..(Len(s) + Len(t)) :
           (s \o t)[i] = IF i <= Len(s) THEN s[i] ELSE t[i - Len(s)]
  BY <1>1, ConcatProperties
<1>3. Len(t) \in Nat
  OBVIOUS
<1>4. (s \o t)[1] = s[1] /\ (s \o t)[2] = s[2]
  BY <1>1, <1>2, <1>3
<1>5. ASSUME NEW i \in 3..(Len(t) + 2) PROVE (s \o t)[i] = t[i - 2]
  BY <1>1, <1>2, <1>3
<1> QED
  BY <1>1, <1>2, <1>3, <1>4, <1>5 DEF s

LEMMA TokenRoutes ==
  /\ LET r == Queries!Holders IN
     /\ r \in Seq(Queries!Sources) /\ Len(r) = 3
     /\ r[1] = "tokens" /\ r[2] = "grpcTokens" /\ r[3] = "holders"
  /\ LET r == Queries!TokenTransfers IN
     /\ r \in Seq(Queries!Sources) /\ Len(r) = 5
     /\ r[1] = "tokens" /\ r[2] = "grpcTokens"
     /\ r[3] = "transfers" /\ r[4] = "holders" /\ r[5] = "created"
  /\ LET r == Queries!TokenDetail IN
     /\ r \in Seq(Queries!Sources) /\ Len(r) = 7
     /\ r[1] = "tokens" /\ r[2] = "grpcTokens" /\ r[3] = "tokens" /\ r[4] = "grpcTokens"
     /\ r[5] = "transfers" /\ r[6] = "holders" /\ r[7] = "created"
<1> DEFINE H == <<"holders">>
           T == <<"transfers", "holders", "created">>
           R == Queries!TokenTransfers
           D == Queries!TokenDetail
<1>1. H \in Seq(Queries!Sources) /\ Len(H) = 1 /\ H[1] = "holders"
  BY DEF Queries!Sources
<1>2. /\ T \in Seq(Queries!Sources) /\ Len(T) = 3
      /\ T[1] = "transfers" /\ T[2] = "holders" /\ T[3] = "created"
  BY DEF Queries!Sources
<1>3. Queries!Holders = Queries!Find \o H /\ R = Queries!Find \o T /\ D = Queries!Find \o R
  BY DEF Queries!Holders, Queries!TokenTransfers, Queries!TokenDetail
<1> HIDE DEF H, T, R, D
<1> DEFINE Q == Queries!Holders
<1> HIDE DEF Q
<1>4. /\ Q \in Seq(Queries!Sources) /\ Len(Q) = 3
      /\ Q[1] = "tokens" /\ Q[2] = "grpcTokens" /\ Q[3] = "holders"
  <2>1. /\ Q \in Seq(Queries!Sources) /\ Len(Q) = Len(H) + 2
        /\ Q[1] = "tokens" /\ Q[2] = "grpcTokens"
        /\ \A i \in 3..(Len(H) + 2) : Q[i] = H[i - 2]
    BY <1>1, <1>3, AfterFind DEF Q
  <2>2. Q[3] = H[1]
    BY <1>1, <2>1
  <2> QED
    BY <1>1, <2>1, <2>2
<1>5. /\ R \in Seq(Queries!Sources) /\ Len(R) = 5
      /\ R[1] = "tokens" /\ R[2] = "grpcTokens"
      /\ R[3] = "transfers" /\ R[4] = "holders" /\ R[5] = "created"
  <2>1. /\ R \in Seq(Queries!Sources) /\ Len(R) = Len(T) + 2
        /\ R[1] = "tokens" /\ R[2] = "grpcTokens"
        /\ \A i \in 3..(Len(T) + 2) : R[i] = T[i - 2]
    BY <1>2, <1>3, AfterFind
  <2>2. R[3] = T[1] /\ R[4] = T[2] /\ R[5] = T[3]
    BY <1>2, <2>1
  <2> QED
    BY <1>2, <2>1, <2>2
<1>6. /\ D \in Seq(Queries!Sources) /\ Len(D) = 7
      /\ D[1] = "tokens" /\ D[2] = "grpcTokens" /\ D[3] = "tokens" /\ D[4] = "grpcTokens"
      /\ D[5] = "transfers" /\ D[6] = "holders" /\ D[7] = "created"
  <2>1. /\ D \in Seq(Queries!Sources) /\ Len(D) = Len(R) + 2
        /\ D[1] = "tokens" /\ D[2] = "grpcTokens"
        /\ \A i \in 3..(Len(R) + 2) : D[i] = R[i - 2]
    BY <1>3, <1>5, AfterFind
  <2>2. D[3] = R[1] /\ D[4] = R[2] /\ D[5] = R[3] /\ D[6] = R[4] /\ D[7] = R[5]
    BY <1>5, <2>1
  <2> QED
    BY <1>5, <2>1, <2>2
<1> QED
  BY <1>4, <1>5, <1>6 DEF Q, R, D

\* What the proofs need of the routes.
RouteOK(k, r) ==
  /\ r \in Seq(Queries!Sources) /\ Len(r) > 0
  /\ r[1] # "grpcTokens"
  /\ \A i \in 1..(Len(r) - 1) : r[i + 1] = "grpcTokens" => r[i] = "tokens"
  /\ \A i \in 1..Len(r) :
       /\ r[i] = "fingerprints" => k = "fingerprints" /\ i = 1
       /\ r[i] \in {"tokens", "grpcTokens", "holders", "created"} => k \in Queries!TokenKinds
       /\ r[i] = "detail" => k = "update" /\ i = 1
       /\ r[i] = "contract" => k = "contract"
       /\ r[i] = "transfers" => k \in Queries!TokenKinds \cup {"transfers", "transfer"}
  /\ k \in {"transfers", "transfer"} => r[1] = "transfers" /\ Len(r) = 1
  /\ k \in Queries!NamespaceKinds =>
       r[2] = "local" /\ \A i \in 3..Len(r) : r[i] \notin {"parties", "local"}
  /\ k = "fingerprints" => Len(r) = 2 /\ r[1] = "fingerprints" /\ r[2] = "parties"
  /\ k = "update" => r[1] = "detail" /\ Len(r) > 1
  /\ LET last == r[Len(r)] IN
     /\ k = "active parties" => last = "parties"
     /\ k = "local parties" => last = "local"
     /\ k = "tokens" => last = "tokens"
     /\ k = "holders" => last = "holders"
     /\ k \in {"token transfers", "token"} => last = "created"
     /\ k = "contract" => last = "contract"
     /\ k = "participant status" => last = "status"
     /\ k = "traffic purchases" => last = "purchases"
     /\ k = "namespace parties" => Len(r) = 2
     /\ k = "namespace" => Len(r) > 2

LEMMA RoutesAre == \A k \in Queries!AllKinds : RouteOK(k, Queries!Route(k))
<1>1. RouteOK("recent parties", Queries!Route("recent parties"))
  <2> DEFINE r == Queries!Route("recent parties")
  <2>1. r = <<"recent">>
    BY DEF Queries!Route, Queries!RecentParties
  <2> SUFFICES RouteOK("recent parties", r)
    OBVIOUS
  <2> HIDE DEF r
  <2>2. /\ r \in Seq(Queries!Sources) /\ Len(r) = 1
        /\ r[1] = "recent"
    BY <2>1 DEF Queries!Sources
  <2>3. \A i \in 1..Len(r) : i \in {1}
    BY <2>2
  <2> QED
    BY <2>2, <2>3 DEF RouteOK, Queries!NamespaceKinds, Queries!TokenKinds
<1>2. RouteOK("active parties", Queries!Route("active parties"))
  <2> DEFINE r == Queries!Route("active parties")
  <2>1. r = <<"parties">>
    BY DEF Queries!Route, Queries!ActiveParties
  <2> SUFFICES RouteOK("active parties", r)
    OBVIOUS
  <2> HIDE DEF r
  <2>2. /\ r \in Seq(Queries!Sources) /\ Len(r) = 1
        /\ r[1] = "parties"
    BY <2>1 DEF Queries!Sources
  <2>3. \A i \in 1..Len(r) : i \in {1}
    BY <2>2
  <2> QED
    BY <2>2, <2>3 DEF RouteOK, Queries!NamespaceKinds, Queries!TokenKinds
<1>3. RouteOK("local parties", Queries!Route("local parties"))
  <2> DEFINE r == Queries!Route("local parties")
  <2>1. r = <<"local">>
    BY DEF Queries!Route, Queries!LocalParties
  <2> SUFFICES RouteOK("local parties", r)
    OBVIOUS
  <2> HIDE DEF r
  <2>2. /\ r \in Seq(Queries!Sources) /\ Len(r) = 1
        /\ r[1] = "local"
    BY <2>1 DEF Queries!Sources
  <2>3. \A i \in 1..Len(r) : i \in {1}
    BY <2>2
  <2> QED
    BY <2>2, <2>3 DEF RouteOK, Queries!NamespaceKinds, Queries!TokenKinds
<1>4. RouteOK("tokens", Queries!Route("tokens"))
  <2> DEFINE r == Queries!Route("tokens")
  <2>1. r = <<"tokens">>
    BY DEF Queries!Route, Queries!Tokens
  <2> SUFFICES RouteOK("tokens", r)
    OBVIOUS
  <2> HIDE DEF r
  <2>2. /\ r \in Seq(Queries!Sources) /\ Len(r) = 1
        /\ r[1] = "tokens"
    BY <2>1 DEF Queries!Sources
  <2>3. \A i \in 1..Len(r) : i \in {1}
    BY <2>2
  <2> QED
    BY <2>2, <2>3 DEF RouteOK, Queries!NamespaceKinds, Queries!TokenKinds
<1>5. RouteOK("transfers", Queries!Route("transfers"))
  <2> DEFINE r == Queries!Route("transfers")
  <2>1. r = <<"transfers">>
    BY DEF Queries!Route, Queries!Transfers
  <2> SUFFICES RouteOK("transfers", r)
    OBVIOUS
  <2> HIDE DEF r
  <2>2. /\ r \in Seq(Queries!Sources) /\ Len(r) = 1
        /\ r[1] = "transfers"
    BY <2>1 DEF Queries!Sources
  <2>3. \A i \in 1..Len(r) : i \in {1}
    BY <2>2
  <2> QED
    BY <2>2, <2>3 DEF RouteOK, Queries!NamespaceKinds, Queries!TokenKinds
<1>6. RouteOK("transfer", Queries!Route("transfer"))
  <2> DEFINE r == Queries!Route("transfer")
  <2>1. r = <<"transfers">>
    BY DEF Queries!Route, Queries!Transfers
  <2> SUFFICES RouteOK("transfer", r)
    OBVIOUS
  <2> HIDE DEF r
  <2>2. /\ r \in Seq(Queries!Sources) /\ Len(r) = 1
        /\ r[1] = "transfers"
    BY <2>1 DEF Queries!Sources
  <2>3. \A i \in 1..Len(r) : i \in {1}
    BY <2>2
  <2> QED
    BY <2>2, <2>3 DEF RouteOK, Queries!NamespaceKinds, Queries!TokenKinds
<1>7. RouteOK("contract", Queries!Route("contract"))
  <2> DEFINE r == Queries!Route("contract")
  <2>1. r = <<"contract">>
    BY DEF Queries!Route, Queries!Contract
  <2> SUFFICES RouteOK("contract", r)
    OBVIOUS
  <2> HIDE DEF r
  <2>2. /\ r \in Seq(Queries!Sources) /\ Len(r) = 1
        /\ r[1] = "contract"
    BY <2>1 DEF Queries!Sources
  <2>3. \A i \in 1..Len(r) : i \in {1}
    BY <2>2
  <2> QED
    BY <2>2, <2>3 DEF RouteOK, Queries!NamespaceKinds, Queries!TokenKinds
<1>8. RouteOK("participant status", Queries!Route("participant status"))
  <2> DEFINE r == Queries!Route("participant status")
  <2>1. r = <<"status">>
    BY DEF Queries!Route, Queries!ParticipantStatus
  <2> SUFFICES RouteOK("participant status", r)
    OBVIOUS
  <2> HIDE DEF r
  <2>2. /\ r \in Seq(Queries!Sources) /\ Len(r) = 1
        /\ r[1] = "status"
    BY <2>1 DEF Queries!Sources
  <2>3. \A i \in 1..Len(r) : i \in {1}
    BY <2>2
  <2> QED
    BY <2>2, <2>3 DEF RouteOK, Queries!NamespaceKinds, Queries!TokenKinds
<1>9. RouteOK("search", Queries!Route("search"))
  <2> DEFINE r == Queries!Route("search")
  <2>1. r = <<"updates", "contracts", "parties">>
    BY DEF Queries!Route, Queries!Search
  <2> SUFFICES RouteOK("search", r)
    OBVIOUS
  <2> HIDE DEF r
  <2>2. /\ r \in Seq(Queries!Sources) /\ Len(r) = 3
        /\ r[1] = "updates" /\ r[2] = "contracts" /\ r[3] = "parties"
    BY <2>1 DEF Queries!Sources
  <2>3. \A i \in 1..Len(r) : i \in {1, 2, 3}
    BY <2>2
  <2> QED
    BY <2>2, <2>3 DEF RouteOK, Queries!NamespaceKinds, Queries!TokenKinds
<1>10. RouteOK("fingerprints", Queries!Route("fingerprints"))
  <2> DEFINE r == Queries!Route("fingerprints")
  <2>1. r = <<"fingerprints", "parties">>
    BY DEF Queries!Route, Queries!Fingerprints
  <2> SUFFICES RouteOK("fingerprints", r)
    OBVIOUS
  <2> HIDE DEF r
  <2>2. /\ r \in Seq(Queries!Sources) /\ Len(r) = 2
        /\ r[1] = "fingerprints" /\ r[2] = "parties"
    BY <2>1 DEF Queries!Sources
  <2>3. \A i \in 1..Len(r) : i \in {1, 2}
    BY <2>2
  <2> QED
    BY <2>2, <2>3 DEF RouteOK, Queries!NamespaceKinds, Queries!TokenKinds
<1>11. RouteOK("party", Queries!Route("party"))
  <2> DEFINE r == Queries!Route("party")
  <2>1. r = <<"parties", "updates", "contracts", "local", "topology">>
    BY DEF Queries!Route, Queries!Party
  <2> SUFFICES RouteOK("party", r)
    OBVIOUS
  <2> HIDE DEF r
  <2>2. /\ r \in Seq(Queries!Sources) /\ Len(r) = 5
        /\ r[1] = "parties" /\ r[2] = "updates" /\ r[3] = "contracts" /\ r[4] = "local"
        /\ r[5] = "topology"
    BY <2>1 DEF Queries!Sources
  <2>3. \A i \in 1..Len(r) : i \in {1, 2, 3, 4, 5}
    BY <2>2
  <2> QED
    BY <2>2, <2>3 DEF RouteOK, Queries!NamespaceKinds, Queries!TokenKinds
<1>12. RouteOK("party topology", Queries!Route("party topology"))
  <2> DEFINE r == Queries!Route("party topology")
  <2>1. r = <<"parties", "local", "topology">>
    BY DEF Queries!Route, Queries!PartyTopology
  <2> SUFFICES RouteOK("party topology", r)
    OBVIOUS
  <2> HIDE DEF r
  <2>2. /\ r \in Seq(Queries!Sources) /\ Len(r) = 3
        /\ r[1] = "parties" /\ r[2] = "local" /\ r[3] = "topology"
    BY <2>1 DEF Queries!Sources
  <2>3. \A i \in 1..Len(r) : i \in {1, 2, 3}
    BY <2>2
  <2> QED
    BY <2>2, <2>3 DEF RouteOK, Queries!NamespaceKinds, Queries!TokenKinds
<1>13. RouteOK("namespace", Queries!Route("namespace"))
  <2> DEFINE r == Queries!Route("namespace")
  <2>1. r = <<"parties", "local", "updates", "contracts", "topology">>
    BY DEF Queries!Route, Queries!Namespace
  <2> SUFFICES RouteOK("namespace", r)
    OBVIOUS
  <2> HIDE DEF r
  <2>2. /\ r \in Seq(Queries!Sources) /\ Len(r) = 5
        /\ r[1] = "parties" /\ r[2] = "local" /\ r[3] = "updates" /\ r[4] = "contracts"
        /\ r[5] = "topology"
    BY <2>1 DEF Queries!Sources
  <2>3. \A i \in 1..Len(r) : i \in {1, 2, 3, 4, 5}
    BY <2>2
  <2> QED
    BY <2>2, <2>3 DEF RouteOK, Queries!NamespaceKinds, Queries!TokenKinds
<1>14. RouteOK("namespace parties", Queries!Route("namespace parties"))
  <2> DEFINE r == Queries!Route("namespace parties")
  <2>1. r = <<"parties", "local">>
    BY DEF Queries!Route, Queries!NamespaceParties
  <2> SUFFICES RouteOK("namespace parties", r)
    OBVIOUS
  <2> HIDE DEF r
  <2>2. /\ r \in Seq(Queries!Sources) /\ Len(r) = 2
        /\ r[1] = "parties" /\ r[2] = "local"
    BY <2>1 DEF Queries!Sources
  <2>3. \A i \in 1..Len(r) : i \in {1, 2}
    BY <2>2
  <2> QED
    BY <2>2, <2>3 DEF RouteOK, Queries!NamespaceKinds, Queries!TokenKinds
<1>15. RouteOK("traffic purchases", Queries!Route("traffic purchases"))
  <2> DEFINE r == Queries!Route("traffic purchases")
  <2>1. r = <<"states", "purchases">>
    BY DEF Queries!Route, Queries!TrafficPurchases
  <2> SUFFICES RouteOK("traffic purchases", r)
    OBVIOUS
  <2> HIDE DEF r
  <2>2. /\ r \in Seq(Queries!Sources) /\ Len(r) = 2
        /\ r[1] = "states" /\ r[2] = "purchases"
    BY <2>1 DEF Queries!Sources
  <2>3. \A i \in 1..Len(r) : i \in {1, 2}
    BY <2>2
  <2> QED
    BY <2>2, <2>3 DEF RouteOK, Queries!NamespaceKinds, Queries!TokenKinds
<1>16. RouteOK("update", Queries!Route("update"))
  <2> DEFINE r == Queries!Route("update")
  <2>1. r = <<"detail", "parties", "events", "coupon">>
    BY DEF Queries!Route, Queries!Update
  <2> SUFFICES RouteOK("update", r)
    OBVIOUS
  <2> HIDE DEF r
  <2>2. /\ r \in Seq(Queries!Sources) /\ Len(r) = 4
        /\ r[1] = "detail" /\ r[2] = "parties" /\ r[3] = "events" /\ r[4] = "coupon"
    BY <2>1 DEF Queries!Sources
  <2>3. \A i \in 1..Len(r) : i \in {1, 2, 3, 4}
    BY <2>2
  <2> QED
    BY <2>2, <2>3 DEF RouteOK, Queries!NamespaceKinds, Queries!TokenKinds
<1>17. RouteOK("holders", Queries!Route("holders"))
  <2> DEFINE r == Queries!Route("holders")
  <2>1. r = Queries!Holders
    BY DEF Queries!Route
  <2> SUFFICES RouteOK("holders", r)
    OBVIOUS
  <2> HIDE DEF r
  <2>2. /\ r \in Seq(Queries!Sources) /\ Len(r) = 3
        /\ r[1] = "tokens" /\ r[2] = "grpcTokens" /\ r[3] = "holders"
    BY <2>1, TokenRoutes
  <2>3. \A i \in 1..Len(r) : i \in {1, 2, 3}
    BY <2>2
  <2> QED
    BY <2>2, <2>3 DEF RouteOK, Queries!NamespaceKinds, Queries!TokenKinds
<1>18. RouteOK("token transfers", Queries!Route("token transfers"))
  <2> DEFINE r == Queries!Route("token transfers")
  <2>1. r = Queries!TokenTransfers
    BY DEF Queries!Route
  <2> SUFFICES RouteOK("token transfers", r)
    OBVIOUS
  <2> HIDE DEF r
  <2>2. /\ r \in Seq(Queries!Sources) /\ Len(r) = 5
        /\ r[1] = "tokens" /\ r[2] = "grpcTokens" /\ r[3] = "transfers" /\ r[4] = "holders"
        /\ r[5] = "created"
    BY <2>1, TokenRoutes
  <2>3. \A i \in 1..Len(r) : i \in {1, 2, 3, 4, 5}
    BY <2>2
  <2> QED
    BY <2>2, <2>3 DEF RouteOK, Queries!NamespaceKinds, Queries!TokenKinds
<1>19. RouteOK("token", Queries!Route("token"))
  <2> DEFINE r == Queries!Route("token")
  <2>1. r = Queries!TokenDetail
    BY DEF Queries!Route
  <2> SUFFICES RouteOK("token", r)
    OBVIOUS
  <2> HIDE DEF r
  <2>2. /\ r \in Seq(Queries!Sources) /\ Len(r) = 7
        /\ r[1] = "tokens" /\ r[2] = "grpcTokens" /\ r[3] = "tokens" /\ r[4] = "grpcTokens"
        /\ r[5] = "transfers" /\ r[6] = "holders" /\ r[7] = "created"
    BY <2>1, TokenRoutes
  <2>3. \A i \in 1..Len(r) : i \in {1, 2, 3, 4, 5, 6, 7}
    BY <2>2
  <2> QED
    BY <2>2, <2>3 DEF RouteOK, Queries!NamespaceKinds, Queries!TokenKinds
<1> QED
  BY <1>1, <1>2, <1>3, <1>4, <1>5, <1>6, <1>7, <1>8, <1>9, <1>10, <1>11,
     <1>12, <1>13, <1>14, <1>15, <1>16, <1>17, <1>18, <1>19 DEF Queries!AllKinds

Last == Queries!Route(kind)[Len(Queries!Route(kind))]

\* The question being asked.
LEMMA SourceIs ==
  ASSUME QueriesOK, kind # "nothing"
  PROVE  /\ Queries!Route(kind) \in Seq(Queries!Sources) /\ Positions = 1..Len(Queries!Route(kind))
         /\ at \in Nat /\ 1 <= at /\ at <= Len(Queries!Route(kind))
         /\ Queries!Source = Queries!Route(kind)[at] /\ Queries!Source \in Queries!Sources
         /\ RouteOK(kind, Queries!Route(kind))
<1> DEFINE r == Queries!Route(kind)
<1>1. RouteOK(kind, r) /\ at \in DOMAIN r
  BY RoutesAre DEF QueriesOK, Positions
<1>2. r \in Seq(Queries!Sources)
  BY <1>1 DEF RouteOK
<1> HIDE DEF r
<1>3. DOMAIN r = 1..Len(r) /\ Len(r) \in Nat
  BY <1>2
<1>4. at \in 1..Len(r) /\ r[at] \in Queries!Sources
  BY <1>1, <1>2, <1>3
<1> QED
  BY <1>1, <1>2, <1>3, <1>4 DEF r, Positions, Queries!Source

\* What is said of a question depends on its own answers alone.
LEMMA Unasked ==
  ASSUME NEW s \in Queries!Sources, answers'[s] = answers[s]
  PROVE  /\ Queries!Asked(s)' = Queries!Asked(s) /\ Queries!Bad(s)' = Queries!Bad(s)
         /\ Queries!Ok(s)' = Queries!Ok(s) /\ Queries!Heard(s)' = Queries!Heard(s)
         /\ Queries!WithAsked(s)' = Queries!WithAsked(s)
<1>1. Queries!Asked(s)' = Queries!Asked(s) /\ Queries!Bad(s)' = Queries!Bad(s)
  BY DEF Queries!Asked, Queries!Bad
<1>2. Queries!Ok(s)' = Queries!Ok(s)
  BY <1>1 DEF Queries!Ok
<1>3. \A n : Queries!Named(s, n)' = Queries!Named(s, n)
  BY <1>2 DEF Queries!Named
<1> QED
  BY <1>1, <1>2, <1>3 DEF Queries!Heard, Queries!WithAsked

LEMMA OkIs ==
  ASSUME NEW s \in Queries!Sources
  PROVE  /\ Queries!Bad(s) \subseteq Queries!Asked(s)
         /\ Queries!Bad(s) = {} => Queries!Ok(s) = Queries!Asked(s)
         /\ Queries!Ok(s) = {} => Queries!Heard(s) = {}
         /\ Queries!Heard(s) = {} => Queries!WithAsked(s) = {}
         /\ "asked" \in Queries!Heard(s) <=> Queries!WithAsked(s) # {}
         /\ Queries!WithAsked(s) \subseteq Queries!Asked(s)
         /\ \A n : Queries!Named(s, n) # {} => n \in Queries!Asked(s)
<1>1. Queries!Bad(s) \subseteq Queries!Asked(s)
  BY DEF Queries!Bad, Queries!Asked, Queries!Failed, Queries!NotAsked
<1>2. Queries!Bad(s) = {} => Queries!Ok(s) = Queries!Asked(s)
  BY DEF Queries!Ok
<1>3. Queries!Ok(s) \subseteq Queries!Asked(s)
  BY DEF Queries!Ok
<1>4. Queries!Ok(s) = {} => Queries!Heard(s) = {}
  BY DEF Queries!Heard, Queries!Named
<1>5. Queries!Heard(s) = {} => Queries!WithAsked(s) = {}
  BY DEF Queries!Heard, Queries!WithAsked
<1>6. "asked" \in Queries!Heard(s) <=> Queries!WithAsked(s) # {}
  BY DEF Queries!Heard, Queries!WithAsked
<1>7. \A n : Queries!Named(s, n) # {} => n \in Queries!Asked(s)
  BY <1>3 DEF Queries!Named
<1>8. Queries!WithAsked(s) \subseteq Queries!Asked(s)
  BY <1>7 DEF Queries!WithAsked
<1> QED
  BY <1>1, <1>2, <1>4, <1>5, <1>6, <1>7, <1>8

\* A question is put to nodes of the request.
LEMMA AskedOfThem ==
  ASSUME QueriesOK, AskedInv, kind # "nothing", NEW s \in Queries!Sources
  PROVE  /\ Queries!Addressed(s) \subseteq asking
         /\ s \notin {"topology", "created"} \cup Queries!NeedsGrpc => Queries!Addressed(s) = asking
         /\ s \notin {"topology", "created"} =>
              Queries!Addressed(s) = IF s \in Queries!NeedsGrpc THEN asking \cap GrpcPeer ELSE asking
<1>1. \A t \in Queries!Sources : Queries!Asked(t) \subseteq asking
  BY DEF AskedInv
<1>2. \A t \in {"updates", "contracts", "parties", "local", "holders"} : t \in Queries!Sources
  BY DEF Queries!Sources
<1>3. Queries!Observed \subseteq asking /\ Queries!WithAsked("holders") \subseteq asking
  BY <1>1, <1>2, OkIs DEF Queries!Observed
<1>4. Queries!NamespaceNodes \subseteq asking
  BY <1>1, <1>2, OkIs DEF Queries!NamespaceNodes
<1> QED
  BY <1>3, <1>4 DEF Queries!Addressed

\* A question that was put is answered when it is settled.
LEMMA SettledIs ==
  ASSUME QueriesOK, AskedInv, Queries!Settled, Queries!Needed(Queries!Source)
  PROVE  /\ kind # "nothing" /\ reply = Queries!NoReply
         /\ \/ Queries!Source = "fingerprints" /\ Queries!Bad("fingerprints") # {}
            \/ Queries!Addressed(Queries!Source) \subseteq Queries!Asked(Queries!Source)
<1>1. kind # "nothing" /\ reply = Queries!NoReply
  BY DEF Queries!Settled, Queries!Busy
<1>2. Queries!Addressed(Queries!Source) \subseteq Peer
  BY <1>1, SourceIs, AskedOfThem DEF QueriesOK
<1> QED
  BY <1>1, <1>2 DEF Queries!Settled, Queries!GivenUp, Queries!Awaited, Queries!Asked

LEMMA RequestKeeps ==
  ASSUME NEW k \in Queries!AllKinds, Queries!Request(k), PeersAssumption
  PROVE  QueriesInv'
<1> DEFINE r == Queries!Route(k)
<1>1. /\ kind' = k /\ asking' \in Queries!Scopes(k) /\ at' = 1
      /\ answers' = Queries!NothingAsked /\ reply' = Queries!NoReply
  BY DEF Queries!Request
<1>2. asking' \subseteq Peer /\ asking' # {}
  <2>1. \A a \in Queries!Scopes(k) : a \subseteq Peer /\ a # {}
    <3>1. \A a \in Configured : a \subseteq Peer /\ a # {}
      BY DEF PeersAssumption
    <3>2. \A a \in {{n} : n \in Peer} : a \subseteq Peer /\ a # {}
      OBVIOUS
    <3>3. \/ Queries!Scopes(k) = Configured
          \/ Queries!Scopes(k) = {{n} : n \in Peer}
          \/ Queries!Scopes(k) = {{n} : n \in Peer} \cup Configured
      BY DEF Queries!Scopes
    <3> QED
      BY <3>1, <3>2, <3>3
  <2> QED
    BY <1>1, <2>1
<1>3. RouteOK(k, r)
  BY RoutesAre
<1> HIDE DEF r
<1>4. 1 \in DOMAIN r /\ r[1] # "grpcTokens"
  <2>1. r \in Seq(Queries!Sources) /\ Len(r) > 0 /\ r[1] # "grpcTokens"
    BY <1>3 DEF RouteOK
  <2> QED
    BY <2>1
<1>5. \A s \in Queries!Sources : Queries!Asked(s)' = {}
  BY <1>1 DEF Queries!NothingAsked, Queries!Asked
<1>6. QueriesOK'
  <2>1. answers' \in [Queries!Sources -> [Peer -> Said]]
    BY <1>1 DEF Queries!NothingAsked, Said
  <2>2. at' \in Positions'
    BY <1>1, <1>4 DEF Positions, r
  <2>3. k # "nothing"
    BY DEF Queries!AllKinds
  <2> QED
    BY <1>1, <1>2, <2>1, <2>2, <2>3 DEF QueriesOK
<1>7. AskedInv'
  BY <1>5 DEF AskedInv, Untold
<1>8. TokensInv'
  <2>1. Queries!Source' = r[1]
    BY <1>1 DEF r, Queries!Source
  <2> QED
    BY <1>4, <2>1 DEF TokensInv
<1>9. NamespaceInv' /\ UpdateInv'
  BY <1>1 DEF NamespaceInv, UpdateInv
<1>10. FingerprintsInv'
  <2>1. Untold("fingerprints")'
    BY <1>5 DEF Untold, Queries!Sources
  <2> QED
    BY <1>1, <2>1 DEF FingerprintsInv
<1>11. ReplyInv'
  BY <1>1 DEF ReplyInv, FailureIsNotAbsence, FingerprintsOfOneSource, Queries!NotFoundIsTrue,
     Queries!EmptyIsNotAFailure, Queries!FingerprintsOfOneSource, Queries!NoReply
<1> QED
  BY <1>6, <1>7, <1>8, <1>9, <1>10, <1>11 DEF QueriesInv, HistoryInv

LEMMA OverKeeps ==
  ASSUME Queries!Over \/ Queries!Init
  PROVE  /\ Queries!Over => QueriesInv'
         /\ Queries!Init => QueriesInv
<1>1. ASSUME Queries!Over PROVE QueriesInv'
  <2>1. /\ kind' = "nothing" /\ asking' = {} /\ answers' = Queries!NothingAsked
        /\ reply' = Queries!NoReply
    BY <1>1 DEF Queries!Over
  <2>2. QueriesOK'
    <3>1. answers' \in [Queries!Sources -> [Peer -> Said]]
      BY <2>1 DEF Queries!NothingAsked, Said
    <3> QED
      BY <2>1, <3>1 DEF QueriesOK
  <2>3. HistoryInv'
    BY <2>1 DEF HistoryInv, AskedInv, TokensInv, NamespaceInv, UpdateInv, FingerprintsInv,
       Queries!TokenKinds, Queries!NamespaceKinds
  <2>4. ReplyInv'
    BY <2>1 DEF ReplyInv, FailureIsNotAbsence, FingerprintsOfOneSource, Queries!NotFoundIsTrue,
       Queries!EmptyIsNotAFailure, Queries!FingerprintsOfOneSource, Queries!NoReply
  <2> QED
    BY <2>2, <2>3, <2>4 DEF QueriesInv
<1>2. ASSUME Queries!Init PROVE QueriesInv
  <2>1. /\ kind = "nothing" /\ asking = {} /\ answers = Queries!NothingAsked
        /\ reply = Queries!NoReply
    BY <1>2 DEF Queries!Init
  <2>2. QueriesOK
    <3>1. answers \in [Queries!Sources -> [Peer -> Said]]
      BY <2>1 DEF Queries!NothingAsked, Said
    <3> QED
      BY <2>1, <3>1 DEF QueriesOK
  <2>3. HistoryInv
    BY <2>1 DEF HistoryInv, AskedInv, TokensInv, NamespaceInv, UpdateInv, FingerprintsInv,
       Queries!TokenKinds, Queries!NamespaceKinds
  <2>4. ReplyInv
    BY <2>1 DEF ReplyInv, FailureIsNotAbsence, FingerprintsOfOneSource, Queries!NotFoundIsTrue,
       Queries!EmptyIsNotAFailure, Queries!FingerprintsOfOneSource, Queries!NoReply
  <2> QED
    BY <2>2, <2>3, <2>4 DEF QueriesInv
<1> QED
  BY <1>1, <1>2

\* An answer, or a failure, changes what is known of the question being asked.
LEMMA AnswerKeeps ==
  ASSUME QueriesInv, NEW n \in Peer, Queries!Answer(n) \/ Queries!Fail(n),
         NEW s \in Queries!Sources, s = Queries!Source
  PROVE  QueriesInv'
<1>1. /\ kind # "nothing" /\ reply = Queries!NoReply /\ Queries!Needed(s) /\ n \in Queries!Addressed(s)
      /\ UNCHANGED <<kind, asking, at, reply>>
  BY DEF Queries!Answer, Queries!Fail, Queries!Busy, Queries!Awaited
<1>2. PICK a \in Said : answers' = [answers EXCEPT ![s][n] = a]
  <2>1. Queries!Says \subseteq Said /\ Queries!Failed \in Said
    BY DEF Queries!Says, Said, Queries!Item
  <2> QED
    BY <2>1 DEF Queries!Answer, Queries!Fail
<1>3. /\ QueriesOK /\ AskedInv /\ TokensInv /\ NamespaceInv /\ UpdateInv /\ FingerprintsInv
  BY DEF QueriesInv, HistoryInv
<1>4. /\ s \in Queries!Sources /\ s = Queries!Route(kind)[at] /\ RouteOK(kind, Queries!Route(kind))
      /\ at \in 1..Len(Queries!Route(kind)) /\ Positions = 1..Len(Queries!Route(kind))
      /\ kind \in Queries!AllKinds
  BY <1>1, <1>3, SourceIs DEF QueriesOK
<1>5. n \in asking
  BY <1>1, <1>3, <1>4, AskedOfThem
<1>6. /\ answers' \in [Queries!Sources -> [Peer -> Said]]
      /\ \A t \in Queries!Sources \ {s} : answers'[t] = answers[t]
      /\ \A m \in Peer \ {n} : answers'[s][m] = answers[s][m]
  BY <1>2, <1>3, <1>4 DEF QueriesOK
<1>7. Queries!Source' = s /\ Positions' = Positions /\ Queries!Route(kind)' = Queries!Route(kind)
  BY <1>1 DEF Queries!Source, Positions
<1>8. \A t \in Queries!Sources \ {s} :
        /\ Queries!Asked(t)' = Queries!Asked(t) /\ Queries!Bad(t)' = Queries!Bad(t)
        /\ Queries!Ok(t)' = Queries!Ok(t) /\ Queries!Heard(t)' = Queries!Heard(t)
        /\ Queries!WithAsked(t)' = Queries!WithAsked(t)
  BY <1>6, Unasked
<1>9. Queries!Asked(s)' \subseteq Queries!Asked(s) \cup {n}
  BY <1>6 DEF Queries!Asked
<1>10. QueriesOK'
  BY <1>1, <1>3, <1>4, <1>6, <1>7 DEF QueriesOK
<1>11. AskedInv'
  <2>1. ASSUME NEW t \in Queries!Sources PROVE Queries!Asked(t)' \subseteq asking
    BY <1>1, <1>3, <1>5, <1>8, <1>9 DEF AskedInv
  <2>2. ASSUME NEW t \in Queries!Sources,
               \A i \in Positions : i <= at => Queries!Route(kind)[i] # t
        PROVE  Queries!Asked(t)' = {}
    <3>1. t # s
      BY <1>4, <2>2
    <3>2. Queries!Asked(t) = {}
      BY <1>1, <1>3, <2>2 DEF AskedInv, Untold
    <3> QED
      BY <1>8, <3>1, <3>2
  <2> QED
    BY <1>1, <1>7, <2>1, <2>2 DEF AskedInv, Untold
<1>12. TokensInv'
  BY <1>1, <1>3, <1>7, <1>8 DEF TokensInv, Queries!Sources
<1>13. NamespaceInv'
  <2>1. CASE kind \in Queries!NamespaceKinds /\ at > 2
    <3>1. s \notin {"parties", "local"}
      <4>1. Len(Queries!Route(kind)) \in Nat
        BY <1>1, <1>3, SourceIs
      <4>2. at \in 3..Len(Queries!Route(kind))
        BY <1>4, <2>1, <4>1
      <4> QED
        BY <1>4, <2>1, <4>2 DEF RouteOK
    <3>2. Queries!MatchingParties' = Queries!MatchingParties
      BY <1>8, <3>1 DEF Queries!MatchingParties, Queries!Sources
    <3> QED
      BY <1>1, <1>3, <2>1, <3>2 DEF NamespaceInv
  <2> QED
    BY <1>1, <2>1 DEF NamespaceInv
<1>14. UpdateInv'
  <2>1. CASE kind = "update" /\ at > 1
    <3>1. s # "detail"
      BY <1>4, <2>1 DEF RouteOK
    <3> QED
      BY <1>1, <1>3, <1>8, <2>1, <3>1 DEF UpdateInv, Queries!Sources
  <2> QED
    BY <1>1, <2>1 DEF UpdateInv
<1>15. FingerprintsInv'
  <2>1. CASE kind = "fingerprints"
    <3>1. Queries!Needed("fingerprints")' = Queries!Needed("fingerprints")
      BY <1>1 DEF Queries!Needed
    <3>2. CASE s = "fingerprints"
      <4>1. at = 1
        BY <1>4, <3>2 DEF RouteOK
      <4> QED
        BY <1>1, <3>1, <3>2, <4>1 DEF FingerprintsInv
    <3>3. CASE s # "fingerprints"
      BY <1>1, <1>3, <1>8, <2>1, <3>1, <3>3 DEF FingerprintsInv, Untold, Queries!Sources
    <3> QED
      BY <3>2, <3>3
  <2> QED
    BY <1>1, <2>1 DEF FingerprintsInv
<1>16. ReplyInv'
  BY <1>1 DEF ReplyInv, FailureIsNotAbsence, FingerprintsOfOneSource, Queries!NotFoundIsTrue,
     Queries!EmptyIsNotAFailure, Queries!FingerprintsOfOneSource, Queries!NoReply
<1> QED
  BY <1>10, <1>11, <1>12, <1>13, <1>14, <1>15, <1>16 DEF QueriesInv, HistoryInv

\* What the answers to a question, when the request goes on, have shown.
LEMMA GoesOnKnowing ==
  ASSUME QueriesInv, Queries!GoesOn
  PROVE  LET s == Queries!Source IN
         /\ s = "tokens" => /\ Queries!Ok(s) # {}
                            /\ kind = "tokens" /\ Queries!Heard(s) = {} => Queries!Bad(s) = {}
         /\ s = "detail" => Queries!WithAsked(s) # {}
         /\ s = "contract" => Queries!WithAsked(s) # {}
         /\ kind \in Queries!NamespaceKinds /\ s = "local" => Queries!MatchingParties # {}
         /\ s = "transfers" /\ kind \in {"transfers", "transfer"} => Queries!Ok(s) # {}
         /\ s = "fingerprints" /\ kind = "fingerprints" /\ Queries!Needed(s) =>
              Queries!Bad(s) # {} \/ Queries!Asked(s) = asking
<1> DEFINE s == Queries!Source
<1>1. /\ Queries!Settled /\ (Queries!Needed(s) => ~Queries!Broken(s)) /\ ~Queries!Missing(s)
      /\ kind # "nothing" /\ QueriesOK /\ AskedInv
  BY DEF Queries!GoesOn, Queries!Settled, Queries!Busy, QueriesInv, HistoryInv
<1>2. s \in Queries!Sources
  BY <1>1, SourceIs
<1>3. asking # {}
  BY <1>1 DEF QueriesOK
<1> HIDE DEF s
<1>4. CASE s = "tokens"
  <2>1. Queries!Needed(s) /\ Queries!Addressed(s) = asking
    BY <1>1, <1>2, <1>4, AskedOfThem DEF Queries!Needed, Queries!NeedsGrpc
  <2>2. asking \subseteq Queries!Asked(s)
    BY <1>1, <1>4, <2>1, SettledIs DEF s
  <2>3. Queries!Heard(s) = {} => Queries!Bad(s) = {}
    BY <1>1, <1>4, <2>1 DEF Queries!Broken, Queries!TokensThrow
  <2> QED
    BY <1>2, <1>3, <1>4, <2>2, <2>3, OkIs DEF s
<1>5. CASE s \in {"detail", "contract"}
  BY <1>1, <1>5 DEF s, Queries!Missing, Queries!UpdateMissing, Queries!ContractMissing
<1>6. CASE s = "local"
  BY <1>1, <1>6 DEF s, Queries!Missing, Queries!NamespaceMissing
<1>7. CASE s = "transfers"
  <2>1. CASE kind \in {"transfers", "transfer"}
    <3>1. Queries!Needed(s)
      BY <1>7 DEF Queries!Needed
    <3> QED
      BY <1>1, <1>7, <3>1 DEF s, Queries!Broken, Queries!TransfersThrow
  <2> QED
    BY <1>7, <2>1 DEF s
<1>8. CASE s = "fingerprints" /\ kind = "fingerprints" /\ Queries!Needed(s)
  <2>1. Queries!Addressed(s) = asking
    BY <1>1, <1>2, <1>8, AskedOfThem DEF Queries!Needed
  <2>2. Queries!Bad(s) # {} \/ asking \subseteq Queries!Asked(s)
    BY <1>1, <1>8, <2>1, SettledIs DEF s
  <2>3. Queries!Asked(s) \subseteq asking
    BY <1>1, <1>2 DEF AskedInv
  <2> QED
    BY <1>8, <2>2, <2>3 DEF s
<1> QED
  BY <1>4, <1>5, <1>6, <1>7, <1>8 DEF s

LEMMA NextQuestionKeeps ==
  ASSUME QueriesInv, Queries!NextQuestion,
         NEW s \in Queries!Sources, s = Queries!Source,
         NEW t \in Queries!Sources, t = Queries!Route(kind)[at + 1]
  PROVE  QueriesInv'
<1> DEFINE r == Queries!Route(kind)
<1>1. /\ Queries!GoesOn /\ at < Len(r) /\ at' = at + 1
      /\ answers' = [answers EXCEPT ![t] = [n \in Peer |-> Queries!NotAsked]]
      /\ UNCHANGED <<kind, asking, reply>>
      /\ kind # "nothing" /\ reply = Queries!NoReply
  BY DEF Queries!NextQuestion, Queries!GoesOn, Queries!Settled, Queries!Busy
<1>2. /\ QueriesOK /\ AskedInv /\ TokensInv /\ NamespaceInv /\ UpdateInv /\ FingerprintsInv
  BY DEF QueriesInv, HistoryInv
<1>3. /\ s = r[at] /\ t = r[at + 1] /\ RouteOK(kind, r) /\ Len(r) \in Nat
      /\ at \in Nat /\ at + 1 \in 1..Len(r) /\ at \in 1..(Len(r) - 1)
      /\ at \in 1..Len(r) /\ Positions = 1..Len(r)
  BY <1>1, <1>2, SourceIs
<1>4. r' = r /\ Positions' = Positions /\ Queries!Source' = t
  BY <1>1, <1>3 DEF Queries!Source, Positions
<1>5. /\ answers' \in [Queries!Sources -> [Peer -> Said]]
      /\ answers'[t] = [n \in Peer |-> Queries!NotAsked]
      /\ \A q \in Queries!Sources \ {t} : answers'[q] = answers[q]
  BY <1>1, <1>2 DEF QueriesOK, Said
<1>6. \A q \in Queries!Sources \ {t} :
        /\ Queries!Asked(q)' = Queries!Asked(q) /\ Queries!Bad(q)' = Queries!Bad(q)
        /\ Queries!Ok(q)' = Queries!Ok(q) /\ Queries!Heard(q)' = Queries!Heard(q)
        /\ Queries!WithAsked(q)' = Queries!WithAsked(q)
  BY <1>5, Unasked
<1>7. Queries!Asked(t)' = {}
  BY <1>5 DEF Queries!Asked
<1> HIDE DEF r
<1>8. QueriesOK'
  BY <1>1, <1>2, <1>3, <1>4, <1>5 DEF QueriesOK
<1>9. AskedInv'
  <2>1. ASSUME NEW q \in Queries!Sources PROVE Queries!Asked(q)' \subseteq asking
    BY <1>1, <1>2, <1>6, <1>7 DEF AskedInv
  <2>2. ASSUME NEW q \in Queries!Sources, \A i \in Positions : i <= at + 1 => r[i] # q
        PROVE  Queries!Asked(q)' = {}
    <3>1. \A i \in Positions : i <= at => r[i] # q
      BY <1>3, <2>2
    <3>2. Queries!Asked(q) = {}
      BY <1>1, <1>2, <3>1 DEF AskedInv, Untold, r
    <3> QED
      BY <1>6, <1>7, <3>2
  <2> QED
    BY <1>1, <1>4, <2>1, <2>2 DEF AskedInv, Untold, r
<1>10. TokensInv'
  <2>1. CASE t = "grpcTokens"
    <3>1. s = "tokens"
      BY <1>3, <2>1 DEF RouteOK
    <3> QED
      BY <1>1, <1>6, <2>1, <3>1, GoesOnKnowing DEF TokensInv
  <2> QED
    BY <1>4, <2>1 DEF TokensInv
<1>11. NamespaceInv'
  <2>1. CASE kind \in Queries!NamespaceKinds /\ at + 1 > 2
    <3>1. at + 1 \in 3..Len(r)
      BY <1>3, <2>1
    <3>2. t \notin {"parties", "local"}
      BY <1>3, <2>1, <3>1 DEF RouteOK
    <3>3. Queries!MatchingParties' = Queries!MatchingParties
      BY <1>6, <3>2 DEF Queries!MatchingParties, Queries!Sources
    <3>4. CASE at = 2
      <4>1. s = "local"
        BY <1>3, <2>1, <3>4 DEF RouteOK
      <4> QED
        BY <1>1, <2>1, <3>3, <4>1, GoesOnKnowing DEF NamespaceInv
    <3>5. CASE at > 2
      BY <1>2, <2>1, <3>3, <3>5 DEF NamespaceInv
    <3> QED
      BY <1>3, <2>1, <3>4, <3>5
  <2> QED
    BY <1>1, <2>1 DEF NamespaceInv
<1>12. UpdateInv'
  <2>1. CASE kind = "update"
    <3>1. t # "detail"
      BY <1>3, <2>1 DEF RouteOK
    <3>2. CASE at = 1
      <4>1. s = "detail"
        BY <1>3, <2>1, <3>2 DEF RouteOK
      <4> QED
        BY <1>1, <1>6, <3>1, <4>1, GoesOnKnowing DEF UpdateInv
    <3>3. CASE at > 1
      BY <1>2, <1>6, <2>1, <3>1, <3>3 DEF UpdateInv, Queries!Sources
    <3> QED
      BY <1>3, <3>2, <3>3
  <2> QED
    BY <1>1, <2>1 DEF UpdateInv
<1>13. FingerprintsInv'
  <2>1. CASE kind = "fingerprints"
    <3>1. Queries!Needed("fingerprints")' = Queries!Needed("fingerprints")
      BY <1>1 DEF Queries!Needed
    <3>2. at = 1 /\ s = "fingerprints" /\ t = "parties"
      <4>1. Len(r) = 2 /\ r[1] = "fingerprints" /\ r[2] = "parties"
        BY <1>3, <2>1 DEF RouteOK
      <4>2. at = 1
        BY <1>3, <4>1
      <4> QED
        BY <1>3, <4>1, <4>2
    <3> QED
      BY <1>1, <1>2, <1>6, <2>1, <3>1, <3>2, GoesOnKnowing DEF FingerprintsInv, Untold
  <2> QED
    BY <1>1, <2>1 DEF FingerprintsInv
<1>14. ReplyInv'
  BY <1>1 DEF ReplyInv, FailureIsNotAbsence, FingerprintsOfOneSource, Queries!NotFoundIsTrue,
     Queries!EmptyIsNotAFailure, Queries!FingerprintsOfOneSource, Queries!NoReply
<1> QED
  BY <1>8, <1>9, <1>10, <1>11, <1>12, <1>13, <1>14 DEF QueriesInv, HistoryInv

\* What a reply says of the request that got it.
LEMMA RepliesSay ==
  ASSUME UNCHANGED <<kind, asking, answers>>
  PROVE  /\ \A s \in Queries!Sources :
              /\ Queries!Asked(s)' = Queries!Asked(s) /\ Queries!Bad(s)' = Queries!Bad(s)
              /\ Queries!Ok(s)' = Queries!Ok(s) /\ Queries!Heard(s)' = Queries!Heard(s)
              /\ Queries!WithAsked(s)' = Queries!WithAsked(s)
              /\ Queries!Addressed(s)' = Queries!Addressed(s)
         /\ Queries!MatchingParties' = Queries!MatchingParties
         /\ Queries!Shown' = Queries!Shown
         /\ at' = at => HistoryInv' = HistoryInv
         /\ at' = at /\ kind # "nothing" => QueriesOK' = QueriesOK
<1>1. \A s \in Queries!Sources :
        /\ Queries!Asked(s)' = Queries!Asked(s) /\ Queries!Bad(s)' = Queries!Bad(s)
        /\ Queries!Ok(s)' = Queries!Ok(s) /\ Queries!Heard(s)' = Queries!Heard(s)
        /\ Queries!WithAsked(s)' = Queries!WithAsked(s)
  BY Unasked
<1>2. \A s \in Queries!Sources : Queries!Addressed(s)' = Queries!Addressed(s)
  <2>1. /\ Queries!Observed' = Queries!Observed
        /\ Queries!WithAsked("holders")' = Queries!WithAsked("holders")
    BY <1>1 DEF Queries!Observed, Queries!Sources
  <2>2. Queries!NamespaceNodes' = Queries!NamespaceNodes
    BY DEF Queries!NamespaceNodes, Queries!Named, Queries!Ok, Queries!Asked, Queries!Bad
  <2> QED
    BY <2>1, <2>2 DEF Queries!Addressed
<1>3. Queries!MatchingParties' = Queries!MatchingParties
  BY <1>1 DEF Queries!MatchingParties, Queries!Sources
<1>4. Queries!Shown' = Queries!Shown
  BY <1>1 DEF Queries!Shown, Queries!FingerprintSource, Queries!TransferSource,
     Queries!DirectTransfers, Queries!Needed, Queries!Sources
<1>5. ASSUME at' = at PROVE HistoryInv' = HistoryInv
  <2>1. AskedInv' = AskedInv
    BY <1>1, <1>5 DEF AskedInv, Untold, Positions
  <2>2. TokensInv' = TokensInv
    BY <1>1, <1>5 DEF TokensInv, Queries!Source, Queries!Sources
  <2>3. NamespaceInv' = NamespaceInv
    BY <1>3, <1>5 DEF NamespaceInv
  <2>4. UpdateInv' = UpdateInv
    BY <1>1, <1>5 DEF UpdateInv, Queries!Sources
  <2>5. FingerprintsInv' = FingerprintsInv
    BY <1>1, <1>5 DEF FingerprintsInv, Untold, Queries!Sources, Queries!Needed
  <2> QED
    BY <2>1, <2>2, <2>3, <2>4, <2>5 DEF HistoryInv
<1>6. ASSUME at' = at, kind # "nothing" PROVE QueriesOK' = QueriesOK
  BY <1>6 DEF QueriesOK, Positions
<1> QED
  BY <1>1, <1>2, <1>3, <1>4, <1>5, <1>6

LEMMA ErrorKeeps ==
  ASSUME QueriesInv, Queries!GiveError
  PROVE  QueriesInv'
<1>1. /\ UNCHANGED <<kind, asking, at, answers>> /\ reply' = Queries!Error /\ kind # "nothing"
  BY DEF Queries!GiveError, Queries!Settled, Queries!Busy
<1>2. reply'.code = "error" /\ reply' # Queries!NoReply
  BY <1>1 DEF Queries!Error, Queries!NotFound, Queries!NoReply
<1>3. QueriesOK' /\ HistoryInv'
  BY <1>1, <1>2, RepliesSay DEF QueriesInv
<1>4. ReplyInv'
  BY <1>2 DEF ReplyInv, FailureIsNotAbsence, FingerprintsOfOneSource, Queries!NotFoundIsTrue,
     Queries!EmptyIsNotAFailure, Queries!FingerprintsOfOneSource
<1> QED
  BY <1>3, <1>4 DEF QueriesInv

\* Nothing is known of a question that is not of the request's route.
LEMMA NotOfTheRoute ==
  ASSUME QueriesInv, kind # "nothing"
  PROVE  /\ kind # "update" => Queries!Heard("detail") = {}
         /\ kind # "contract" => Queries!Heard("contract") = {}
         /\ kind \notin Queries!TokenKinds \cup {"transfers", "transfer"} => Queries!Heard("transfers") = {}
<1>1. QueriesOK /\ AskedInv
  BY DEF QueriesInv, HistoryInv
<1> DEFINE r == Queries!Route(kind)
<1>2. RouteOK(kind, r) /\ Positions = 1..Len(r)
  BY <1>1, SourceIs
<1> HIDE DEF r
<1>3. \A s \in Queries!Sources : (\A i \in Positions : r[i] # s) => Queries!Heard(s) = {}
  <2>1. ASSUME NEW s \in Queries!Sources, \A i \in Positions : r[i] # s PROVE Queries!Heard(s) = {}
    <3>1. Queries!Asked(s) = {}
      BY <1>1, <2>1 DEF AskedInv, Untold, r
    <3> QED
      BY <3>1, OkIs DEF Queries!Ok
  <2> QED
    BY <2>1
<1>4. {"detail", "contract", "transfers"} \subseteq Queries!Sources
  BY DEF Queries!Sources
<1>5. kind # "update" => \A i \in Positions : r[i] # "detail"
  BY <1>2 DEF RouteOK
<1>6. kind # "contract" => \A i \in Positions : r[i] # "contract"
  BY <1>2 DEF RouteOK
<1>7. kind \notin Queries!TokenKinds \cup {"transfers", "transfer"} => \A i \in Positions : r[i] # "transfers"
  BY <1>2 DEF RouteOK
<1> QED
  BY <1>3, <1>4, <1>5, <1>6, <1>7

LEMMA NotFoundKeeps ==
  ASSUME QueriesInv, Queries!GiveNotFound,
         NEW s \in Queries!Sources, s = Queries!Source
  PROVE  QueriesInv'
<1> DEFINE r == Queries!Route(kind)
<1>1. /\ UNCHANGED <<kind, asking, at, answers>> /\ reply' = Queries!NotFound /\ kind # "nothing"
      /\ Queries!Settled /\ (Queries!Needed(s) => ~Queries!Broken(s)) /\ Queries!Missing(s)
  BY DEF Queries!GiveNotFound, Queries!Settled, Queries!Busy
<1>2. reply'.code = "not found"
  BY <1>1 DEF Queries!NotFound
<1>3. QueriesOK' /\ HistoryInv'
  BY <1>1, RepliesSay DEF QueriesInv
<1>4. /\ QueriesOK /\ AskedInv /\ TokensInv
  BY DEF QueriesInv, HistoryInv
<1>5. /\ RouteOK(kind, r) /\ at \in 1..Len(r) /\ s = r[at] /\ Len(r) \in Nat /\ asking # {}
  BY <1>1, <1>4, SourceIs DEF QueriesOK
<1> HIDE DEF r
<1>6. /\ s = "grpcTokens" => kind \in Queries!TokenKinds
      /\ s = "detail" => kind = "update"
      /\ s = "contract" => kind = "contract"
      /\ kind = "transfer" => s = "transfers"
  <2>1. kind = "transfer" => at = 1 /\ r[1] = "transfers"
    <3>1. kind = "transfer" => Len(r) = 1 /\ r[1] = "transfers"
      BY <1>5 DEF RouteOK
    <3>2. ASSUME kind = "transfer" PROVE at = 1
      <4>1. at \in 1..1
        BY <1>5, <3>1, <3>2
      <4> QED
        BY <4>1
    <3> QED
      BY <3>1, <3>2
  <2> QED
    BY <1>5, <2>1 DEF RouteOK
<1>7. /\ kind \notin Queries!TokenKinds \/ kind \notin Queries!NamespaceKinds \cup Queries!PartyKinds
      /\ kind \notin Queries!NamespaceKinds \/ kind \notin Queries!PartyKinds
      /\ kind \in {"transfer", "update", "contract"} =>
           kind \notin Queries!TokenKinds \cup Queries!NamespaceKinds \cup Queries!PartyKinds
  BY DEF Queries!TokenKinds, Queries!NamespaceKinds, Queries!PartyKinds
<1>8. \/ s = "grpcTokens" /\ ~Queries!Found /\ kind \in Queries!TokenKinds
      \/ kind = "transfer" /\ ~Queries!DirectTransfers /\ s = "transfers"
      \/ kind \in Queries!PartyKinds /\ Queries!Observed = {}
      \/ kind \in Queries!NamespaceKinds /\ Queries!MatchingParties = {}
      \/ kind = "update" /\ s = "detail" /\ Queries!WithAsked(s) = {}
      \/ kind = "contract" /\ s = "contract" /\ Queries!WithAsked(s) = {}
  BY <1>1, <1>6 DEF Queries!Missing, Queries!TokenMissing, Queries!TransferMissing, Queries!PartyMissing,
     Queries!NamespaceMissing, Queries!UpdateMissing, Queries!ContractMissing
<1>9. Queries!NotFoundIsTrue'
  <2>1. CASE kind \in Queries!TokenKinds
    <3>1. ~Queries!Found /\ Queries!Ok("tokens") # {}
      BY <1>4, <1>7, <1>8, <2>1 DEF TokensInv
    <3>2. \A q \in {"tokens", "grpcTokens"} : "asked" \notin Queries!Heard(q)'
      BY <1>1, <3>1, RepliesSay DEF Queries!Found, Queries!Sources
    <3>3. Queries!Ok("tokens")' # {}
      BY <1>1, <3>1, RepliesSay DEF Queries!Sources
    <3> QED
      BY <1>1, <1>7, <2>1, <3>2, <3>3 DEF Queries!NotFoundIsTrue
  <2>2. CASE kind \in Queries!PartyKinds
    <3>1. Queries!Observed = {}
      BY <1>7, <1>8, <2>2
    <3>2. \A q \in {"parties", "updates", "contracts", "local"} :
            q \in Queries!Sources /\ Queries!WithAsked(q) = {}
      BY <3>1 DEF Queries!Observed, Queries!Sources
    <3>3. \A q \in {"parties", "updates", "contracts", "local"} : "asked" \notin Queries!Heard(q)'
      BY <1>1, <3>2, RepliesSay, OkIs
    <3> QED
      BY <1>1, <1>7, <2>2, <3>3 DEF Queries!NotFoundIsTrue
  <2>3. CASE kind \in Queries!NamespaceKinds
    <3>1. Queries!MatchingParties = {}
      BY <1>7, <1>8, <2>3
    <3>2. \A q \in {"parties", "local"} : Queries!Heard(q)' = {}
      BY <1>1, <3>1, RepliesSay DEF Queries!MatchingParties, Queries!Sources
    <3> QED
      BY <1>1, <1>7, <2>3, <3>2 DEF Queries!NotFoundIsTrue
  <2>4. CASE kind \in {"transfer", "update", "contract"}
    <3>1. /\ s \in {"transfers", "detail", "contract"} /\ Queries!Needed(s)
          /\ "asked" \notin Queries!Heard(s)
          /\ kind = "transfer" <=> s = "transfers"
          /\ kind = "update" <=> s = "detail"
          /\ kind = "contract" <=> s = "contract"
      BY <1>7, <1>8, <2>4, OkIs DEF Queries!DirectTransfers, Queries!Needed
    <3>2. Queries!Ok(s) # {}
      <4>1. CASE s = "transfers"
        BY <1>1, <3>1, <4>1 DEF Queries!Broken, Queries!TransfersThrow
      <4>2. CASE s \in {"detail", "contract"}
        <5>1. Queries!Bad(s) = {}
          BY <1>1, <3>1, <4>2 DEF Queries!Broken, Queries!OneNodeThrows
        <5>2. Queries!Addressed(s) = asking
          BY <1>1, <1>4, <4>2, AskedOfThem DEF Queries!NeedsGrpc
        <5>3. asking \subseteq Queries!Asked(s)
          BY <1>1, <1>4, <3>1, <4>2, <5>2, SettledIs
        <5> QED
          BY <1>5, <5>1, <5>3, OkIs
      <4> QED
        BY <3>1, <4>1, <4>2
    <3>3. \A q \in {"transfers", "detail", "contract"} : "asked" \notin Queries!Heard(q)
      BY <1>1, <1>7, <2>4, <3>1, NotOfTheRoute
    <3>4. \A q \in {"transfers", "detail", "contract"} : "asked" \notin Queries!Heard(q)'
      BY <1>1, <3>3, RepliesSay DEF Queries!Sources
    <3>5. Queries!Ok(s)' # {}
      BY <1>1, <3>2, RepliesSay
    <3> QED
      BY <1>1, <1>7, <2>4, <3>1, <3>4, <3>5 DEF Queries!NotFoundIsTrue
  <2> QED
    BY <1>8, <2>1, <2>2, <2>3, <2>4
<1>10. ReplyInv'
  BY <1>2, <1>9 DEF ReplyInv, FailureIsNotAbsence, FingerprintsOfOneSource,
     Queries!EmptyIsNotAFailure, Queries!FingerprintsOfOneSource
<1> QED
  BY <1>3, <1>10 DEF QueriesInv

\* A reply names nothing only when nobody asked named anything.
LEMMA EmptyReply ==
  ASSUME QueriesInv, Queries!GiveReply, Queries!ShownItems = {}, kind # "fingerprints",
         NEW s \in Queries!Sources, s = Queries!Source
  PROVE  \/ kind \in {"search", "recent parties"}
         \/ /\ s \in Queries!Shown
            /\ Queries!Ok(s) # {} \/ Queries!Addressed(s) = {} \/
                 (Queries!Bad(s) # {} /\ Queries!Bad(s) \subseteq Queries!SaidToFail)
            /\ kind \in {"tokens", "holders"} => Queries!Bad(s) = {} /\ Queries!Shown = {s}
<1> DEFINE r == Queries!Route(kind)
<1>1. /\ Queries!GoesOn /\ at = Len(r) /\ Queries!Settled /\ kind # "nothing"
      /\ (Queries!Needed(s) => ~Queries!Broken(s)) /\ ~Queries!Missing(s)
  BY DEF Queries!GiveReply, Queries!GoesOn, Queries!Settled, Queries!Busy
<1>2. /\ QueriesOK /\ AskedInv /\ TokensInv /\ NamespaceInv /\ UpdateInv
  BY DEF QueriesInv, HistoryInv
<1>3. /\ RouteOK(kind, r) /\ s = r[Len(r)] /\ Len(r) \in Nat /\ at \in 1..Len(r)
      /\ asking # {} /\ kind \in Queries!AllKinds
  BY <1>1, <1>2, SourceIs DEF QueriesOK
<1> HIDE DEF r
\* The last question was answered by whom it was put to.
<1>4. ASSUME Queries!Needed(s), s # "fingerprints"
      PROVE  Queries!Ok(s) # {} \/ Queries!Addressed(s) = {} \/ Queries!Bad(s) # {}
  <2>1. Queries!Addressed(s) \subseteq Queries!Asked(s)
    BY <1>1, <1>2, <1>4, SettledIs
  <2> QED
    BY <2>1, OkIs
<1>5. CASE kind \in {"active parties", "local parties", "participant status", "traffic purchases"}
  <2>1. s \in {"parties", "local", "status", "purchases"} /\ s \in Queries!Shown
    BY <1>3, <1>5 DEF RouteOK, Queries!Shown, Queries!PartyKinds, Queries!NamespaceKinds
  <2>2. Queries!Needed(s)
    BY <1>5, <2>1 DEF Queries!Needed
  <2>3. Queries!Bad(s) \subseteq Queries!SaidToFail
    BY <1>5, <2>1 DEF Queries!SaidToFail, Queries!EntriesThatFailed
  <2> QED
    BY <1>4, <1>5, <2>1, <2>2, <2>3
<1>6. ~(kind \in Queries!PartyKinds)
  BY DEF Queries!ShownItems, Queries!PartyPage, Queries!PartyKinds, Queries!NamespaceKinds
<1>7. ~(kind \in Queries!NamespaceKinds)
  <2>1. SUFFICES ASSUME kind \in Queries!NamespaceKinds PROVE Queries!MatchingParties # {}
    BY DEF Queries!ShownItems, Queries!PartyKinds, Queries!NamespaceKinds
  <2>2. CASE kind = "namespace parties"
    <3>1. Len(r) = 2 /\ r[2] = "local"
      BY <1>3, <2>1, <2>2 DEF RouteOK
    <3> QED
      BY <1>1, <1>3, <2>1, <3>1, GoesOnKnowing
  <2>3. CASE kind = "namespace"
    <3>1. Len(r) > 2
      BY <1>3, <2>3 DEF RouteOK
    <3> QED
      BY <1>1, <1>2, <2>1, <3>1 DEF NamespaceInv
  <2> QED
    BY <2>1, <2>2, <2>3 DEF Queries!NamespaceKinds
<1>8. kind \notin Queries!PartyKinds \cup Queries!NamespaceKinds \cup {"search"} =>
        \A q \in Queries!Shown : Queries!Heard(q) = {}
  BY DEF Queries!ShownItems
<1>9. CASE kind \in {"tokens", "holders"}
  <2>1. s = kind /\ Queries!Shown = {s}
    BY <1>3, <1>9 DEF RouteOK, Queries!Shown, Queries!PartyKinds, Queries!NamespaceKinds
  <2>2. Queries!Heard(s) = {}
    BY <1>6, <1>7, <1>8, <1>9, <2>1
  <2>3. Queries!Needed(s)
    BY <1>9, <2>1 DEF Queries!Needed
  <2>4. Queries!Bad(s) = {}
    BY <1>1, <1>9, <2>1, <2>2, <2>3, OkIs DEF Queries!Broken, Queries!TokensThrow, Queries!HoldersThrow
  <2> QED
    BY <1>4, <1>9, <2>1, <2>3, <2>4
<1>10. CASE kind \in {"transfers", "transfer"}
  <2>1. s = "transfers" /\ Queries!Shown = {s}
    BY <1>3, <1>10 DEF RouteOK, Queries!Shown, Queries!PartyKinds, Queries!NamespaceKinds
  <2> QED
    BY <1>1, <1>10, <2>1, GoesOnKnowing
<1>11. CASE kind \in {"token transfers", "token"}
  <2>1. s = "created" /\ Queries!Shown = {Queries!TransferSource}
    BY <1>3, <1>11 DEF RouteOK, Queries!Shown, Queries!PartyKinds, Queries!NamespaceKinds
  <2>2. Queries!Heard(Queries!TransferSource) = {}
    BY <1>6, <1>7, <1>8, <1>11, <2>1
  <2>3. ~Queries!DirectTransfers /\ Queries!TransferSource = "created"
    BY <2>2 DEF Queries!TransferSource, Queries!DirectTransfers
  <2>4. Queries!Needed(s)
    BY <1>11, <2>1, <2>3 DEF Queries!Needed
  <2>5. Queries!Bad(s) = {}
    BY <1>1, <2>1, <2>4 DEF Queries!Broken, Queries!RecoveryThrows
  <2> QED
    BY <1>4, <1>11, <2>1, <2>3, <2>4, <2>5
<1>12. kind # "update"
  <2>1. SUFFICES ASSUME kind = "update" PROVE FALSE
    OBVIOUS
  <2>2. Queries!Shown = {"detail"} /\ "detail" \in Queries!Sources
    BY <2>1 DEF Queries!Shown, Queries!PartyKinds, Queries!NamespaceKinds, Queries!Sources
  <2>3. Len(r) > 1
    BY <1>3, <2>1 DEF RouteOK
  <2>4. Queries!WithAsked("detail") # {}
    BY <1>1, <1>2, <2>1, <2>3 DEF UpdateInv
  <2> QED
    BY <1>6, <1>7, <1>8, <2>1, <2>2, <2>4, OkIs
<1>13. kind # "contract"
  <2>1. SUFFICES ASSUME kind = "contract" PROVE FALSE
    OBVIOUS
  <2>2. s = "contract" /\ Queries!Shown = {s}
    BY <1>3, <2>1 DEF RouteOK, Queries!Shown, Queries!PartyKinds, Queries!NamespaceKinds
  <2> QED
    BY <1>1, <1>6, <1>7, <1>8, <2>1, <2>2, OkIs, GoesOnKnowing
<1> QED
  BY <1>3, <1>5, <1>6, <1>7, <1>9, <1>10, <1>11, <1>12, <1>13
     DEF Queries!AllKinds, Queries!PartyKinds, Queries!NamespaceKinds

LEMMA ReplyKeeps ==
  ASSUME QueriesInv, Queries!GiveReply,
         NEW s \in Queries!Sources, s = Queries!Source
  PROVE  QueriesInv'
<1> DEFINE r == Queries!Route(kind)
<1>1. /\ UNCHANGED <<kind, asking, at, answers>> /\ reply' = Queries!Answered
      /\ Queries!GoesOn /\ at = Len(r) /\ Queries!Settled /\ kind # "nothing"
  BY DEF Queries!GiveReply, Queries!GoesOn, Queries!Settled, Queries!Busy
<1>2. /\ reply'.code = "ok" /\ reply'.items = Queries!ShownItems
      /\ reply'.failed = Queries!SaidToFail /\ reply'.status = Queries!StatusOfGroups
  BY <1>1 DEF Queries!Answered
<1>3. QueriesOK' /\ HistoryInv'
  BY <1>1, RepliesSay DEF QueriesInv
<1>4. /\ QueriesOK /\ AskedInv /\ FingerprintsInv
  BY DEF QueriesInv, HistoryInv
<1>5. RouteOK(kind, r) /\ s = r[Len(r)] /\ Len(r) \in Nat /\ asking # {} /\ kind \in Queries!AllKinds
  BY <1>1, <1>4, SourceIs DEF QueriesOK
<1> HIDE DEF r
<1>6. Queries!EmptyIsNotAFailure'
  <2>1. SUFFICES ASSUME reply'.items = {}, kind # "fingerprints"
                 PROVE  /\ \/ \E q \in Queries!Shown' : Queries!Ok(q)' # {} \/ Queries!Addressed(q)' = {}
                           \/ reply'.failed # {} \/ reply'.status # <<>>
                        /\ kind \in {"tokens", "holders"} => \A q \in Queries!Shown' : Queries!Bad(q)' = {}
    BY <1>1 DEF Queries!EmptyIsNotAFailure
  <2>2. CASE kind \in {"search", "recent parties"}
    <3>1. PICK G \in {{"recent"}, Queries!SearchGroups} :
            Queries!StatusOfGroups = [q \in G |-> Queries!NodeStatus(Queries!Bad(q), Queries!Ok(q))]
      BY <2>2 DEF Queries!StatusOfGroups
    <3>2. DOMAIN reply'.status = G /\ G # {}
      BY <1>2, <3>1 DEF Queries!SearchGroups
    <3>3. reply'.status # <<>>
      <4>1. DOMAIN <<>> = {}
        OBVIOUS
      <4> QED
        BY <3>2, <4>1
    <3> QED
      BY <2>2, <3>3
  <2>3. CASE kind \notin {"search", "recent parties"}
    <3>1. /\ s \in Queries!Shown
          /\ Queries!Ok(s) # {} \/ Queries!Addressed(s) = {} \/
               (Queries!Bad(s) # {} /\ Queries!Bad(s) \subseteq Queries!SaidToFail)
          /\ kind \in {"tokens", "holders"} => Queries!Bad(s) = {} /\ Queries!Shown = {s}
      BY <1>2, <2>1, <2>3, EmptyReply
    <3> QED
      BY <1>1, <1>2, <3>1, RepliesSay
  <2> QED
    BY <2>2, <2>3
<1>7. Queries!FingerprintsOfOneSource'
  <2>1. SUFFICES ASSUME kind = "fingerprints"
                 PROVE  \/ Queries!Ok("fingerprints")' = asking /\ reply'.items = Queries!Heard("fingerprints")'
                        \/ Queries!Asked("parties")' = asking /\ reply'.items = Queries!Heard("parties")'
    BY <1>1 DEF Queries!FingerprintsOfOneSource
  <2>2. at = 2 /\ s = "parties" /\ "fingerprints" \in Queries!Sources /\ "parties" \in Queries!Sources
    BY <1>1, <1>5, <2>1 DEF RouteOK, Queries!Sources
  <2>3. reply'.items = Queries!Heard(Queries!FingerprintSource)
    BY <1>2, <2>1 DEF Queries!ShownItems, Queries!Shown, Queries!PartyKinds, Queries!NamespaceKinds
  <2>4. Queries!Bad("fingerprints") \subseteq asking /\ Queries!Asked("parties") \subseteq asking
    BY <1>1, <1>4, <2>2, OkIs DEF AskedInv
  <2>5. CASE Queries!Needed("fingerprints") /\ Queries!Bad("fingerprints") = {}
    <3>1. Queries!FingerprintSource = "fingerprints"
      BY <2>5 DEF Queries!FingerprintSource
    <3>2. Queries!Ok("fingerprints") = asking
      BY <1>4, <2>1, <2>2, <2>5, OkIs DEF FingerprintsInv
    <3> QED
      BY <1>1, <2>2, <2>3, <3>1, <3>2, RepliesSay
  <2>6. CASE ~(Queries!Needed("fingerprints") /\ Queries!Bad("fingerprints") = {})
    <3>1. Queries!FingerprintSource = "parties"
      BY <2>6 DEF Queries!FingerprintSource
    <3>2. Queries!Ok("fingerprints") # asking
      BY <1>4, <1>5, <2>1, <2>4, <2>6 DEF FingerprintsInv, Untold, Queries!Ok
    <3>3. Queries!Needed("parties")
      BY <2>1, <3>2 DEF Queries!Needed
    <3>4. Queries!Addressed("parties") = asking
      BY <1>1, <1>4, <2>2, AskedOfThem DEF Queries!NeedsGrpc
    <3>5. asking \subseteq Queries!Asked("parties")
      BY <1>1, <1>4, <2>2, <3>3, <3>4, SettledIs
    <3> QED
      BY <1>1, <2>2, <2>3, <2>4, <3>1, <3>5, RepliesSay
  <2> QED
    BY <2>5, <2>6
<1>8. ReplyInv'
  BY <1>2, <1>6, <1>7 DEF ReplyInv, FailureIsNotAbsence, FingerprintsOfOneSource, Queries!NotFoundIsTrue
<1> QED
  BY <1>3, <1>8 DEF QueriesInv

LEMMA QueriesKept ==
  ASSUME QueriesInv, [Queries!Next]_Queries!vars, PeersAssumption
  PROVE  QueriesInv'
<1>1. CASE UNCHANGED Queries!vars
  <2>1. UNCHANGED <<kind, asking, at, answers, reply>>
    BY <1>1 DEF Queries!vars
  <2>2. CASE kind # "nothing"
    <3>1. QueriesOK' /\ HistoryInv'
      BY <2>1, <2>2, RepliesSay DEF QueriesInv
    <3>2. ReplyInv'
      <4>1. Queries!NotFoundIsTrue' = Queries!NotFoundIsTrue
        <5>1. /\ \A q : Queries!Heard(q)' = Queries!Heard(q)
              /\ \A q : Queries!Ok(q)' = Queries!Ok(q)
          BY <2>1 DEF Queries!Heard, Queries!Named, Queries!Ok, Queries!Asked, Queries!Bad
        <5> QED
          BY <2>1, <5>1 DEF Queries!NotFoundIsTrue
      <4>2. Queries!EmptyIsNotAFailure' = Queries!EmptyIsNotAFailure
        <5>1. \A q : Queries!Ok(q)' = Queries!Ok(q) /\ Queries!Bad(q)' = Queries!Bad(q)
          BY <2>1 DEF Queries!Ok, Queries!Asked, Queries!Bad
        <5>2. \A q : Queries!Addressed(q)' = Queries!Addressed(q)
          BY <2>1 DEF Queries!Addressed, Queries!Observed, Queries!NamespaceNodes, Queries!WithAsked,
             Queries!Named, Queries!Ok, Queries!Asked, Queries!Bad
        <5>3. Queries!Shown' = Queries!Shown
          BY <2>1, RepliesSay
        <5> QED
          BY <2>1, <5>1, <5>2, <5>3 DEF Queries!EmptyIsNotAFailure
      <4>3. FingerprintsOfOneSource'
        BY <2>1, RepliesSay
           DEF QueriesInv, ReplyInv, FingerprintsOfOneSource, Queries!FingerprintsOfOneSource, Queries!Sources
      <4> QED
        BY <4>1, <4>2, <4>3 DEF QueriesInv, ReplyInv, FailureIsNotAbsence
    <3> QED
      BY <3>1, <3>2 DEF QueriesInv
  <2>3. CASE kind = "nothing"
    <3>1. reply = Queries!NoReply
      BY <2>3 DEF QueriesInv, QueriesOK
    <3>2. QueriesOK'
      BY <2>1, <2>3 DEF QueriesInv, QueriesOK
    <3>3. HistoryInv'
      BY <2>1, <2>3 DEF HistoryInv, AskedInv, TokensInv, NamespaceInv, UpdateInv, FingerprintsInv,
         Queries!TokenKinds, Queries!NamespaceKinds
    <3>4. ReplyInv'
      BY <2>1, <3>1 DEF ReplyInv, FailureIsNotAbsence, FingerprintsOfOneSource, Queries!NotFoundIsTrue,
         Queries!EmptyIsNotAFailure, Queries!FingerprintsOfOneSource, Queries!NoReply
    <3> QED
      BY <3>2, <3>3, <3>4 DEF QueriesInv
  <2> QED
    BY <2>2, <2>3
<1>2. CASE \E k \in Queries!AllKinds : Queries!Request(k)
  BY <1>2, RequestKeeps
<1>3. CASE Queries!Over
  BY <1>3, OverKeeps
<1>4. ASSUME kind # "nothing"
      PROVE  Queries!Source \in Queries!Sources
  BY <1>4, SourceIs DEF QueriesInv
<1>5. CASE \E n \in Peer : Queries!Answer(n) \/ Queries!Fail(n)
  BY <1>4, <1>5, AnswerKeeps DEF Queries!Answer, Queries!Fail, Queries!Busy
<1>6. CASE Queries!GiveError
  BY <1>6, ErrorKeeps
<1>7. CASE Queries!GiveNotFound
  BY <1>4, <1>7, NotFoundKeeps DEF Queries!GiveNotFound, Queries!Settled, Queries!Busy
<1>8. CASE Queries!GiveReply
  BY <1>4, <1>8, ReplyKeeps DEF Queries!GiveReply, Queries!GoesOn, Queries!Settled, Queries!Busy
<1>9. CASE Queries!NextQuestion
  <2>1. kind # "nothing" /\ at < Len(Queries!Route(kind))
    BY <1>9 DEF Queries!NextQuestion, Queries!GoesOn, Queries!Settled, Queries!Busy
  <2>2. Queries!Route(kind)[at + 1] \in Queries!Sources
    <3> DEFINE r == Queries!Route(kind)
    <3>1. r \in Seq(Queries!Sources) /\ at \in Nat /\ at < Len(r)
      BY <2>1, SourceIs DEF QueriesInv
    <3> HIDE DEF r
    <3>2. at + 1 \in 1..Len(r)
      BY <3>1
    <3>3. r[at + 1] \in Queries!Sources
      BY <3>1, <3>2
    <3> QED
      BY <3>3 DEF r
  <2> QED
    BY <1>4, <1>9, <2>1, <2>2, NextQuestionKeeps
<1> QED
  BY <1>1, <1>2, <1>3, <1>5, <1>6, <1>7, <1>8, <1>9 DEF Queries!Next

(* The inductive invariant of a request: nobody is asked who is not asked about, a question is *)
(* known only once the route has come to it, and what let the request go on still holds.       *)
THEOREM QueriesInvariant == Queries!Spec => []QueriesInv
<1>1. Queries!Init => QueriesInv
  BY OverKeeps
<1>2. QueriesInv /\ [Queries!Next]_Queries!vars => QueriesInv'
  BY QueriesKept, PeersAssumption
<1> QED
  BY <1>1, <1>2, PTL DEF Queries!Spec

(* A 404 is said only of what no node named, and a reply without an entry is not the news of    *)
(* nodes that could not be read.                                                                *)
THEOREM Absences == Queries!Spec => []FailureIsNotAbsence
<1>1. QueriesInv => FailureIsNotAbsence
  BY DEF QueriesInv, ReplyInv
<1> QED
  BY <1>1, QueriesInvariant, PTL

(* A list of fingerprints is what every node said through gRPC, or what their PQS said.         *)
THEOREM FingerprintLists == Queries!Spec => []FingerprintsOfOneSource
<1>1. QueriesInv => FingerprintsOfOneSource
  BY DEF QueriesInv, ReplyInv
<1> QED
  BY <1>1, QueriesInvariant, PTL

-----------------------------------------------------------------------------
(* Each behaviour of caches and requests together is one of each of them, so what is
   proved of the two holds of MCSpec: all that is checked of it. *)
THEOREM ReadsAreOfComponents ==
  MCSpec => /\ Spec /\ Queries!Spec /\ LoadsAreShared
            /\ [](/\ ServedListIsRecent /\ SettledTokensAreFresh
                  /\ FailureIsNotAbsence /\ FingerprintsOfOneSource)
<1>1. MCInit => Init /\ Queries!Init
  BY DEF MCInit
<1>2. [MCNext]_<<reading, vars, queryVars>> => [Next]_vars /\ [Queries!Next]_(Queries!vars)
  <2> SUFFICES ASSUME [MCNext]_<<reading, vars, queryVars>>
               PROVE  (Next \/ UNCHANGED vars) /\ (Queries!Next \/ UNCHANGED queryVars)
    BY DEF queryVars, Queries!vars
  <2> QED BY DEF MCNext
<1>3. MCSpec => Spec /\ Queries!Spec
  BY <1>1, <1>2, PTL DEF MCSpec, Spec, Queries!Spec
<1> QED BY <1>3, ServedListsAreRecent, SettledTokensAreRecent, LoadsShared, Absences,
           FingerprintLists, PTL
=============================================================================
