----------------------------- MODULE NodeLoads -----------------------------
(***************************************************************************)
(* What the backend remembers of a node between requests                   *)
(* (backend/src/pqs/pqs-summary.service.ts): the lists of observed tokens, *)
(* token holders and token transfers and the token template types they are *)
(* queried with, each kept for TOKEN_TRANSFER_CACHE_TTL_MS; the tokens the *)
(* gRPC services report, served stale while one load at a time renews      *)
(* them; and the node's latest traffic purchase of a UTC day, kept in      *)
(* SQLite (package-cache.service.ts).                                      *)
(*                                                                         *)
(* A caller is one load of one node on behalf of a request.  Its parts are *)
(* the awaits of the load.  The content of a list is represented by the    *)
(* time its source was read.                                               *)
(***************************************************************************)
EXTENDS Naturals, FiniteSets

CONSTANTS Node,
          GrpcNode,     \* nodes in mode pqs_with_grpc
          Caller,       \* loads in progress at once
          Mixes,        \* bound: what callers ask for at the same time
          Ttl,          \* TOKEN_TRANSFER_CACHE_TTL_MS
          DayLength,
          MaxLoad,      \* the longest a load lasts
          MaxTime       \* bound: the clock

ASSUME NodesAssumption == GrpcNode \subseteq Node
ASSUME MixesAssumption == Mixes \subseteq SUBSET {"tokens", "holders", "transfers", "purchase"}
ASSUME TimesAssumption == /\ Ttl \in Nat \ {0}
                          /\ DayLength \in Nat \ {0}
                          /\ MaxLoad \in Nat
ASSUME BoundsAssumption == MaxTime \in Nat \ {0}

Ask == {"tokens", "holders", "transfers", "purchase"}
Lists == {"types", "tokens", "holders", "transfers"}
Time == 1..MaxTime
Never == 0
Day == {t \div DayLength : t \in Time}

\* A list in memory: when it was stored, when the first of its sources and
\* when the template types it was queried with were read.
Entry == [at : Time, read : Time \cup {Never}, types : Time \cup {Never}, empty : BOOLEAN]
NoEntry == [at |-> Never, read |-> Never, types |-> Never, empty |-> TRUE]

\* Tokens from gRPC: when they were stored, which is when they were read.
GrpcTokens == [at : Time, empty : BOOLEAN]
NoTokens == [at |-> Never, empty |-> TRUE]

\* The purchase of a day: a row says when it was read and that there was none.
Purchase == [at : Time, none : BOOLEAN]
NoPurchase == [at |-> Never, none |-> TRUE]

Part == {"types", "rows", "other"}

\* promise: the gRPC load the caller holds on to, or what came of it.
Promise == {"no promise", "pending", "failed"}
Load == [ask : Ask, node : Node, since : Time, need : SUBSET Part,
         types : Time \cup {Never}, read : Time \cup {Never},
         promise : Promise \cup {"kept"}, grpc : GrpcTokens \cup {NoTokens},
         kept : GrpcTokens \cup {NoTokens}, refreshing : BOOLEAN,
         waiting : BOOLEAN]
Idle == [ask |-> "nothing"]

\* lost: the caller waited for a gRPC load that failed.
Reply == [ask : Ask, node : Node, since : Time, error : BOOLEAN,
          read : Time \cup {Never}, types : Time \cup {Never},
          grpc : Time \cup {Never}, refreshing : BOOLEAN, lost : BOOLEAN,
          purchase : Purchase \cup {NoPurchase}]

VARIABLES
  mix,         \* what callers ask for, a member of Mixes
  now,
  lists,       \* tokenTemplateTypesByNode, observedTokensByNode, ...
  grpcTokens,  \* grpcObservedTokensByNode
  refreshes,   \* nodes in grpcObservedTokenRefreshesByNode
  grpcCalls,   \* per node: fetchHoldingV2Tokens calls in progress
  purchases,   \* the table node_traffic_purchase_cache
  purchaseRefreshes,  \* keys of latestTrafficPurchaseRefreshes
  purchaseCalls,      \* per key: purchase queries in progress
  connection,  \* PqsManagerFactory.managers: "none", "ready" or "rejected"
  load,        \* per caller: its load
  replies      \* the replies of the last step

grpcVars == <<grpcTokens, refreshes, grpcCalls>>
purchaseVars == <<purchases, purchaseRefreshes, purchaseCalls>>
vars == <<mix, now, lists, grpcVars, purchaseVars, connection, load, replies>>

-----------------------------------------------------------------------------
CachedAt == now
Fresh(at) == at # Never /\ now - at < Ttl

Today == now \div DayLength
Key == Node \X Day

NewLoad(a, n) ==
  [ask |-> a, node |-> n, since |-> now, need |-> {}, types |-> Never,
   read |-> Never, promise |-> "no promise", grpc |-> NoTokens,
   kept |-> NoTokens, refreshing |-> FALSE, waiting |-> FALSE]

Failed(l) ==
  [ask |-> l.ask, node |-> l.node, since |-> l.since, error |-> TRUE,
   read |-> Never, types |-> Never, grpc |-> Never, refreshing |-> FALSE,
   lost |-> FALSE, purchase |-> NoPurchase]

\* A list answered, with the gRPC tokens g merged into it.
Served(l, e, g, isRefreshing, isLost) ==
  [Failed(l) EXCEPT !.error = FALSE, !.read = e.read, !.types = e.types,
                    !.grpc = g.at, !.refreshing = isRefreshing, !.lost = isLost]

Bought(l, p) == [Failed(l) EXCEPT !.error = FALSE, !.purchase = p]

End(c, r) == /\ load' = [load EXCEPT ![c] = Idle]
             /\ replies' = {r}

\* loadCachedObservedTokens after the PQS tokens e: what the caller does with
\* the gRPC tokens it took hold of before.
AfterPqs(c, l, e) ==
  CASE e.empty /\ l.promise = "pending" ->
         /\ load' = [load EXCEPT ![c] =
              [l EXCEPT !.need = {}, !.waiting = TRUE, !.read = e.read,
                        !.types = e.types]]
         /\ replies' = {}
    [] e.empty /\ l.promise = "kept" -> End(c, Served(l, e, l.kept, FALSE, FALSE))
    [] e.empty /\ l.promise = "failed" ->
         End(c, IF l.grpc.empty THEN Failed(l)
                ELSE Served(l, e, l.grpc, FALSE, TRUE))
    [] OTHER -> End(c, Served(l, e, l.grpc, l.refreshing, FALSE))

-----------------------------------------------------------------------------
Init ==
  /\ mix \in Mixes
  /\ now = 1
  /\ lists = [k \in Lists |-> [n \in Node |-> NoEntry]]
  /\ grpcTokens = [n \in Node |-> NoTokens]
  /\ refreshes = {}
  /\ grpcCalls = [n \in Node |-> 0]
  /\ purchases = [k \in Key |-> NoPurchase]
  /\ purchaseRefreshes = {}
  /\ purchaseCalls = [k \in Key |-> 0]
  /\ connection = [n \in Node |-> "none"]
  /\ load = [c \in Caller |-> Idle]
  /\ replies = {}

Busy(c) == load[c] # Idle

\* The parts a load of list k is made of.  holders asks gRPC only if it can,
\* the template types are asked for only if what is kept of them is too old.
PartsOf(k, n) ==
  {"rows"} \cup (IF k = "holders" /\ n \notin GrpcNode THEN {} ELSE {"other"})
           \cup (IF Fresh(lists["types"][n].at) THEN {} ELSE {"types"})

\* Mutant of ReadList: an entry does not age.
ReadForever(c, l) ==
  LET e == lists[l.ask][l.node] IN
    IF e # NoEntry THEN AfterPqs(c, l, e)
    ELSE /\ load' = [load EXCEPT ![c] =
               [l EXCEPT !.need = PartsOf(l.ask, l.node),
                         !.types = lists["types"][l.node].at]]
         /\ replies' = {}

\* loadCachedPqsObservedTokens, loadCachedTokenHolders,
\* loadCachedTokenTransfers up to the first await.
ReadList(c, l) ==
  LET e == lists[l.ask][l.node] IN
    IF Fresh(e.at) THEN AfterPqs(c, l, e)
    ELSE /\ load' = [load EXCEPT ![c] =
               [l EXCEPT !.need = PartsOf(l.ask, l.node),
                         !.types = lists["types"][l.node].at]]
         /\ replies' = {}

AskList(c, n, k) ==
  /\ ~Busy(c)
  /\ k \in mix \cap {"holders", "transfers"}
  /\ ReadList(c, NewLoad(k, n))
  /\ UNCHANGED <<mix, now, lists, grpcVars, purchaseVars, connection>>

\* Mutant of MustRefresh: tokens are renewed however young they are.
MustRefreshAlways(n) == n \in GrpcNode /\ n \notin refreshes
MustRefresh(n) ==
  n \in GrpcNode /\ ~Fresh(grpcTokens[n].at) /\ n \notin refreshes

\* Mutant of TokenLoad: what is kept is handed out as if it were fresh.
TokenLoadSettled(n) ==
  [NewLoad("tokens", n) EXCEPT
     !.grpc = grpcTokens[n],
     !.kept = grpcTokens[n],
     !.promise = IF n \in GrpcNode THEN "kept" ELSE "no promise"]

\* What loadGrpcObservedTokens returns.
TokenLoad(n) ==
  IF n \notin GrpcNode THEN NewLoad("tokens", n)
  ELSE IF Fresh(grpcTokens[n].at)
  THEN [NewLoad("tokens", n) EXCEPT !.grpc = grpcTokens[n],
                                    !.kept = grpcTokens[n], !.promise = "kept"]
  ELSE [NewLoad("tokens", n) EXCEPT !.grpc = grpcTokens[n],
                                    !.promise = "pending", !.refreshing = TRUE]

\* loadCachedObservedTokens: the gRPC load is started first, and not awaited.
AskTokens(c, n) ==
  /\ ~Busy(c)
  /\ "tokens" \in mix
  /\ IF MustRefresh(n)
     THEN /\ refreshes' = refreshes \cup {n}
          /\ grpcCalls' = [grpcCalls EXCEPT ![n] = @ + 1]
     ELSE UNCHANGED <<refreshes, grpcCalls>>
  /\ ReadList(c, TokenLoad(n))
  /\ UNCHANGED <<mix, now, lists, grpcTokens, purchaseVars, connection>>

Reachable(n) == connection[n] # "rejected"
Connected(n) == connection' = [connection EXCEPT ![n] = "ready"]

\* The query part p of load l is under way.
Querying(c, p) == Busy(c) /\ p \in load[c].need

FirstRead(l) == IF l.read = Never THEN now ELSE l.read

\* loadCachedTokenTemplateTypes: the types are kept for every list.
TypesArrive(c) ==
  /\ Querying(c, "types")
  /\ Reachable(load[c].node) /\ Connected(load[c].node)
  /\ lists' = [lists EXCEPT !["types"][load[c].node] =
       [at |-> CachedAt, read |-> now, types |-> now, empty |-> FALSE]]
  /\ load' = [load EXCEPT ![c].need = @ \ {"types"}, ![c].types = now]
  /\ UNCHANGED <<mix, now, grpcVars, purchaseVars>>
  /\ replies' = {}

RowsArrive(c) ==
  /\ Querying(c, "rows") /\ "types" \notin load[c].need
  /\ Reachable(load[c].node) /\ Connected(load[c].node)
  /\ load' = [load EXCEPT ![c].need = @ \ {"rows"}, ![c].read = FirstRead(load[c])]
  /\ UNCHANGED <<mix, now, lists, grpcVars, purchaseVars>>
  /\ replies' = {}

\* Tokens: the built-in token; holders: the gRPC holders, at once with the
\* rows.  Transfers: the CIP-112 movements, after the rows.
OtherArrives(c) ==
  /\ Querying(c, "other")
  /\ load[c].ask = "transfers" => load[c].need = {"other"}
  /\ IF load[c].ask = "holders" THEN UNCHANGED connection
     ELSE Reachable(load[c].node) /\ Connected(load[c].node)
  /\ load' = [load EXCEPT ![c].need = @ \ {"other"}, ![c].read = FirstRead(load[c])]
  /\ UNCHANGED <<mix, now, lists, grpcVars, purchaseVars>>
  /\ replies' = {}

\* The rows are decoded and merged; the list is kept from now on.
ListLoaded(c) ==
  /\ Busy(c) /\ load[c].need = {} /\ ~load[c].waiting
  /\ load[c].ask # "purchase"
  /\ \E e \in (IF load[c].ask = "tokens" THEN {TRUE, FALSE} ELSE {FALSE}) :
       LET l == load[c]
           entry == [at |-> CachedAt, read |-> l.read, types |-> l.types, empty |-> e]
       IN /\ lists' = [lists EXCEPT ![l.ask][l.node] = entry]
          /\ AfterPqs(c, l, entry)
  /\ UNCHANGED <<mix, now, grpcVars, purchaseVars, connection>>

\* A part fails, and with it the load; the other parts' answers are dropped.
ListFails(c) ==
  /\ Busy(c) /\ load[c].need # {}
  /\ End(c, Failed(load[c]))
  /\ UNCHANGED <<mix, now, lists, grpcVars, purchaseVars, connection>>

\* createManager rejects; the rejected promise stays in the map.
ConnectFails(n) ==
  /\ connection[n] = "none"
  /\ \E c \in Caller : Busy(c) /\ load[c].node = n /\ ~load[c].waiting
  /\ connection' = [connection EXCEPT ![n] = "rejected"]
  /\ UNCHANGED <<mix, now, lists, grpcVars, purchaseVars, load>>
  /\ replies' = {}

-----------------------------------------------------------------------------
(* Tokens from gRPC.                                                       *)

\* Callers of node n whose promise settles: to s for those still loading,
\* into a reply for those who wait.
Settle(n, s, g) ==
  LET pending == {c \in Caller : Busy(c) /\ load[c].node = n
                                  /\ load[c].promise = "pending"}
      entry(c) == [read |-> load[c].read, types |-> load[c].types]
  IN /\ load' = [c \in Caller |->
          IF c \notin pending THEN load[c]
          ELSE IF load[c].waiting THEN Idle
          ELSE [load[c] EXCEPT !.promise = s, !.kept = g]]
     /\ replies' =
          {IF s = "kept" THEN Served(load[c], entry(c), g, FALSE, FALSE)
           ELSE IF load[c].grpc.empty THEN Failed(load[c])
           ELSE Served(load[c], entry(c), load[c].grpc, FALSE, TRUE) :
             c \in {d \in pending : load[d].waiting}}

GrpcEnds(n) == /\ grpcCalls[n] > 0
               /\ grpcCalls' = [grpcCalls EXCEPT ![n] = @ - 1]
               /\ refreshes' = refreshes \ {n}

GrpcTokensArrive(n) ==
  /\ GrpcEnds(n)
  /\ \E e \in {TRUE, FALSE} :
       /\ grpcTokens' = [grpcTokens EXCEPT ![n] = [at |-> now, empty |-> e]]
       /\ Settle(n, "kept", [at |-> now, empty |-> e])
  /\ UNCHANGED <<mix, now, lists, purchaseVars, connection>>

GrpcTokensFail(n) ==
  /\ GrpcEnds(n)
  /\ Settle(n, "failed", NoTokens)
  /\ UNCHANGED <<mix, now, lists, grpcTokens, purchaseVars, connection>>

-----------------------------------------------------------------------------
(* The traffic purchase of a day.                                          *)

DayOf(l) == l.since \div DayLength
KeyOf(l) == <<l.node, DayOf(l)>>

Known(k) == purchases[k] # NoPurchase

\* latestTrafficPurchase: the row of the day, the load in progress, or a load.
AskPurchase(c, n) ==
  /\ ~Busy(c)
  /\ "purchase" \in mix
  /\ LET l == NewLoad("purchase", n)  k == <<n, Today>> IN
       IF Known(k)
       THEN /\ End(c, Bought(l, purchases[k]))
            /\ UNCHANGED purchaseVars
       ELSE /\ load' = [load EXCEPT ![c] = l]
            /\ IF k \in purchaseRefreshes THEN UNCHANGED purchaseVars
               ELSE /\ purchaseRefreshes' = purchaseRefreshes \cup {k}
                    /\ purchaseCalls' = [purchaseCalls EXCEPT ![k] = @ + 1]
                    /\ UNCHANGED purchases
            /\ replies' = {}
  /\ UNCHANGED <<mix, now, lists, grpcVars, connection>>

\* Everyone who asked on that day is answered.
AnswerAll(k, p) ==
  LET asked == {c \in Caller : Busy(c) /\ load[c].ask = "purchase"
                                /\ KeyOf(load[c]) = k}
  IN /\ load' = [c \in Caller |-> IF c \in asked THEN Idle ELSE load[c]]
     /\ replies' = {Bought(load[c], p) : c \in asked}

PurchaseEnds(k) == /\ purchaseCalls[k] > 0
                   /\ purchaseCalls' = [purchaseCalls EXCEPT ![k] = @ - 1]
                   /\ purchaseRefreshes' = purchaseRefreshes \ {k}

PurchaseArrives(k) ==
  /\ PurchaseEnds(k)
  /\ Reachable(k[1]) /\ Connected(k[1])
  /\ \E none \in {TRUE, FALSE} :
       /\ purchases' = [purchases EXCEPT ![k] = [at |-> now, none |-> none]]
       /\ AnswerAll(k, [at |-> now, none |-> none])
  /\ UNCHANGED <<mix, now, lists, grpcVars>>

\* The failure is answered with no purchase and not remembered.
PurchaseFails(k) ==
  /\ PurchaseEnds(k)
  /\ AnswerAll(k, NoPurchase)
  /\ UNCHANGED <<mix, now, lists, grpcVars, purchases, connection>>

-----------------------------------------------------------------------------
\* Nothing lasts longer than MaxLoad.
Tick ==
  /\ now < MaxTime
  /\ \A c \in Caller : Busy(c) => now - load[c].since < MaxLoad
  /\ now' = now + 1
  /\ UNCHANGED <<mix, lists, grpcVars, purchaseVars, connection, load>>
  /\ replies' = {}

\* The backend starts anew: only the table survives.
Restart ==
  /\ lists' = [k \in Lists |-> [n \in Node |-> NoEntry]]
  /\ grpcTokens' = [n \in Node |-> NoTokens]
  /\ refreshes' = {} /\ purchaseRefreshes' = {}
  /\ grpcCalls' = [n \in Node |-> 0]
  /\ purchaseCalls' = [k \in Key |-> 0]
  /\ connection' = [n \in Node |-> "none"]
  /\ load' = [c \in Caller |-> Idle]
  /\ replies' = {}
  /\ UNCHANGED <<mix, now, purchases>>

Next ==
  \/ \E c \in Caller, n \in Node :
       AskTokens(c, n) \/ AskPurchase(c, n) \/ \E k \in mix : AskList(c, n, k)
  \/ \E c \in Caller :
       \/ TypesArrive(c) \/ RowsArrive(c) \/ OtherArrives(c)
       \/ ListLoaded(c) \/ ListFails(c)
  \/ \E n \in Node : GrpcTokensArrive(n) \/ GrpcTokensFail(n) \/ ConnectFails(n)
  \/ \E k \in Key : PurchaseArrives(k) \/ PurchaseFails(k)
  \/ Tick \/ Restart

Spec == Init /\ [][Next]_vars
-----------------------------------------------------------------------------
\* Every variable has its type.
TypeOK ==
  /\ mix \in Mixes
  /\ now \in Time
  /\ lists \in [Lists -> [Node -> Entry \cup {NoEntry}]]
  /\ grpcTokens \in [Node -> GrpcTokens \cup {NoTokens}]
  /\ refreshes \subseteq Node
  /\ grpcCalls \in [Node -> Nat]
  /\ purchases \in [Key -> Purchase \cup {NoPurchase}]
  /\ purchaseRefreshes \subseteq Key
  /\ purchaseCalls \in [Key -> Nat]
  /\ connection \in [Node -> {"none", "ready", "rejected"}]
  /\ load \in [Caller -> Load \cup {Idle}]
  /\ replies \subseteq Reply

\* Whoever waits, waits for a load in progress: nobody is left behind by a load
\* that failed, that ended before they began to wait, or that was another's
\* (pqs-summary.service.ts:3126-3155, 6506-6521, 6577-6602).
WaitersHaveALoad ==
  \A c \in Caller : Busy(c) =>
    /\ load[c].promise = "pending" => grpcCalls[load[c].node] > 0
    /\ load[c].waiting => load[c].promise = "pending"
    /\ load[c].ask = "purchase" => purchaseCalls[KeyOf(load[c])] > 0

\* A list that is served was read at most a TTL and a load ago, and so were,
\* once more, the template types it was queried with: two caches one above the
\* other and loads of any length do not add up to more, and a load that
\* finishes late does not make its list look younger
\* (pqs-summary.service.ts:6532-6550, 6713-6749, 6842-6876, 6971-6988).
ServedListIsRecent ==
  \A r \in replies :
    r.ask # "purchase" /\ ~r.error =>
      /\ r.read + Ttl + MaxLoad > r.since
      /\ r.types + 2 * Ttl + MaxLoad > r.since

\* A list of tokens that does not say "refreshing" holds what gRPC reported
\* within the last TTL, unless the load it waited for failed: a client that
\* polls until "refreshing" is gone ends with the renewed list
\* (pqs-summary.service.ts:6503-6530).
SettledTokensAreFresh ==
  \A r \in replies :
    (r.ask = "tokens" /\ r.node \in GrpcNode /\ ~r.error
        /\ ~r.refreshing) => r.lost \/ r.grpc + Ttl > r.since

\* Whoever asks for a node's purchase on one day is told the same, across
\* loads that are joined, fail or cross midnight, and across restarts: the
\* estimates of one day rest on one purchase
\* (pqs-summary.service.ts:3118-3157, package-cache.service.ts:150-220).
PurchasesOfADayAgree ==
  \A r \in replies : r.purchase # NoPurchase =>
      purchases[<<r.node, r.since \div DayLength>>] = r.purchase

GrpcLoad(n) == INSTANCE SharedLoad WITH
  Value <- GrpcTokens, NoValue <- NoTokens, held <- grpcTokens[n],
  usable <- Fresh(grpcTokens[n].at), loads <- grpcCalls[n]
PurchaseLoad(k) == INSTANCE SharedLoad WITH
  Value <- Purchase, NoValue <- NoPurchase, held <- purchases[k],
  usable <- purchases[k] # NoPurchase, loads <- purchaseCalls[k]

\* The gRPC tokens of a node are a shared load: one at a time, begun only when
\* what is kept is too old, and a failure keeps the last good tokens
\* (pqs-summary.service.ts:6552-6603).
GrpcTokensAreShared ==
  /\ \A n \in Node : GrpcLoad(n)!Init
  /\ [][\A n \in Node : [GrpcLoad(n)!Next]_(GrpcLoad(n)!vars)]_vars

\* The purchase of a day is a shared load that is never done again once it has
\* succeeded, with or without a purchase (pqs-summary.service.ts:3104-3158).
PurchasesAreShared ==
  /\ \A k \in Key : PurchaseLoad(k)!Init
  /\ [][\A k \in Key : [PurchaseLoad(k)!Next]_(PurchaseLoad(k)!vars)]_vars

\* Both kinds of load are shared loads, whoever asks, whatever fails and
\* whenever the process starts again.
LoadsAreShared == GrpcTokensAreShared /\ PurchasesAreShared
=============================================================================
