----------------------------- MODULE MergedFeed -----------------------------
(***************************************************************************)
(* The paged feeds merged over every node's PQS database: recent updates   *)
(* (fetchGlobalRecentUpdates), contracts (fetchGlobalContracts) and        *)
(* traffic purchases (fetchGlobalTrafficPurchases), all in                 *)
(* src/backend/src/pqs/pqs-summary.service.ts.                             *)
(*                                                                         *)
(* A request reads the nodes in rounds.  A round queries every node that   *)
(* is not exhausted, concurrently, for its next older page; when all have  *)
(* settled the rows are merged, sorted and cut at the request's cursor,    *)
(* and the request either replies or starts another round.  Whatever its   *)
(* cursor, a request reads every node from its newest row.  PQS keeps      *)
(* ingesting meanwhile, and one node may lag behind another, so a row that *)
(* arrives late can be older than rows already read elsewhere.             *)
(*                                                                         *)
(* A row is a node and a record time.  The rows of one node have distinct  *)
(* times, so the string order of offsets and ids, the last criterion of    *)
(* the comparators, never decides.  Rows are those that pass the request's *)
(* filters.  Node identifiers are ordered as the comparators order them.   *)
(***************************************************************************)
EXTENDS Integers, FiniteSets

CONSTANTS N,            \* number of nodes the request covers
          Limit,        \* rows in a page of the feed
          PurchaseCap,  \* most rows a node's purchase query returns
          Feeds,        \* the feeds a client may open
          MaxTime,      \* bound: record times
          MaxArrivals,  \* bound: rows ingested after the start
          MaxFailures   \* bound: queries that fail

ASSUME SizesAssumption == /\ N \in Nat \ {0}
                          /\ Limit \in Nat \ {0}
                          /\ PurchaseCap \in Nat \ {0}
ASSUME CappedPageFillsFeed == PurchaseCap >= Limit
ASSUME FeedsAssumption == Feeds \subseteq {"updates", "contracts", "purchases"}
ASSUME BoundsAssumption == /\ MaxTime \in Nat \ {0}
                           /\ MaxArrivals \in Nat
                           /\ MaxFailures \in Nat

Nodes == 1..N
Row == [time: 1..MaxTime, node: Nodes]
NoRow == [time |-> 0, node |-> 0]      \* an absent cursor
Cursor == Row \cup {NoRow}
Direction == {"newest", "older", "newer"}
Outcome == {"none", "page", "error"}

VARIABLES
  rows,         \* the rows in the nodes' databases
  feed,         \* the feed the client reads
  \* the request being served, or the last one served
  direction,
  cursor,       \* the decoded before or after cursor
  busy,         \* whether it is still being served
  pending,      \* nodes whose query of this round has not settled
  answered,     \* nodes whose query of this round succeeded
  nextBefore,   \* per node: where its next page starts
  exhausted,    \* nodes not to be queried again
  merged,       \* rows received
  silent,       \* nodes a query of this request failed on
  seen,         \* the rows in the databases when the request arrived
  \* what the client holds
  page, before, after, outcome,
  left,         \* the page an Older button left behind, {} if none
  arrivals, failures

requestVars == <<direction, cursor, seen>>
localVars == <<pending, answered, nextBefore, exhausted, merged>>
clientVars == <<page, before, after, outcome, left>>
vars == <<rows, feed, requestVars, busy, localVars, silent, clientVars,
          arrivals, failures>>

-----------------------------------------------------------------------------
(* The order of a feed and the pages cut from it.                          *)

\* compareGlobalMergedUpdates(r, s) < 0: r stands before s in the feed.
Precedes(r, s) ==
  \/ r.time > s.time
  \/ r.time = s.time /\ r.node < s.node

\* slice(0, k) of the sorted set.
Newest(S, k) == {r \in S : Cardinality({s \in S : Precedes(s, r)}) < k}
\* slice(-k) of the sorted set.
Oldest(S, k) == {r \in S : Cardinality({s \in S : Precedes(r, s)}) < k}
First(S) == CHOOSE r \in S : \A s \in S \ {r} : Precedes(r, s)
Last(S) == CHOOSE r \in S : \A s \in S \ {r} : Precedes(s, r)

PageSize ==
  CASE feed = "updates" -> Limit + 1
    [] feed = "contracts" -> 2 * Limit
    [] OTHER -> IF 2 * Limit < PurchaseCap THEN 2 * Limit ELSE PurchaseCap

RowsOf(n, S) == {r \in S : r.node = n}

\* Mutant of Older: the start of the page is not passed to the query.
OlderFromTheTop(n) == RowsOf(n, rows)

\* The rows the query of node n ranges over: all of them on the first round,
\* those older than the last row received afterwards.
Older(n) ==
  {r \in RowsOf(n, rows) : nextBefore[n] = NoRow \/ Precedes(nextBefore[n], r)}
NodePage(n) == Newest(Older(n), PageSize)
MoreOn(n) == Cardinality(Older(n)) > PageSize

\* The rows received that lie on the asked side of the cursor.
Filtered ==
  CASE direction = "older" -> {r \in merged : Precedes(cursor, r)}
    [] direction = "newer" -> {r \in merged : Precedes(r, cursor)}
    [] OTHER -> merged
\* Mutant of HasMore: off by one.
HasTwoMore == Cardinality(Filtered) > Limit + 1
HasMore == Cardinality(Filtered) > Limit

\* Every node was read down to the after cursor or to its end.
ReachedAfter ==
  \A n \in Nodes \ exhausted : \E r \in RowsOf(n, merged) : ~Precedes(r, cursor)

Done ==
  \/ exhausted = Nodes
  \/ IF feed = "updates" /\ direction = "newer" THEN ReachedAfter ELSE HasMore

\* Mutants of PageOf: the wrong end of the sorted rows is kept.
PageFromTheEnd == Oldest(Filtered, Limit)
PageFromTheTop == Newest(Filtered, Limit)
PageOf ==
  IF feed = "updates" /\ direction = "newer"
  THEN Oldest(Filtered, Limit)
  ELSE Newest(Filtered, Limit)

-----------------------------------------------------------------------------
NoLocals == /\ pending = {}
            /\ answered = {}
            /\ nextBefore = [n \in Nodes |-> NoRow]
            /\ exhausted = {}
            /\ merged = {}

Init ==
  /\ rows \in SUBSET Row
  /\ feed \in Feeds
  /\ direction = "newest" /\ cursor = NoRow /\ seen = {}
  /\ busy = FALSE
  /\ NoLocals
  /\ silent = {}
  /\ page = {} /\ before = NoRow /\ after = NoRow /\ outcome = "none"
  /\ left = {}
  /\ arrivals = 0 /\ failures = 0

\* Locals of a request that ends die with it.
DropLocals == /\ pending' = {}
              /\ answered' = {}
              /\ nextBefore' = [n \in Nodes |-> NoRow]
              /\ exhausted' = {}
              /\ merged' = {}

\* PQS ingests a row; each node's rows arrive in the order of their times.
Ingest(n, t) ==
  /\ arrivals < MaxArrivals
  /\ \A r \in RowsOf(n, rows) : r.time < t
  /\ rows' = rows \cup {[time |-> t, node |-> n]}
  /\ arrivals' = arrivals + 1
  /\ UNCHANGED <<feed, requestVars, busy, localVars, silent, clientVars,
                 failures>>

Begin(d, c) ==
  /\ ~busy
  /\ busy' = TRUE
  /\ direction' = d /\ cursor' = c /\ seen' = rows
  /\ pending' = Nodes
  /\ silent' = {}
  /\ UNCHANGED <<rows, feed, answered, nextBefore, exhausted, merged,
                 clientVars, arrivals, failures>>

OpenFeed == Begin("newest", NoRow)
ShowOlder == before # NoRow /\ Begin("older", before)
ShowNewer == after # NoRow /\ Begin("newer", after)

\* A node's query succeeds.  The code merges the answers of a round once all
\* of them have settled; nothing reads them before that.
Answer(n) ==
  /\ n \in pending
  /\ pending' = pending \ {n}
  /\ answered' = answered \cup {n}
  /\ merged' = merged \cup NodePage(n)
  /\ IF MoreOn(n)
     THEN /\ nextBefore' = [nextBefore EXCEPT ![n] = Last(NodePage(n))]
          /\ exhausted' = exhausted
     ELSE /\ nextBefore' = [nextBefore EXCEPT ![n] = NoRow]
          /\ exhausted' = exhausted \cup {n}
  /\ UNCHANGED <<rows, feed, requestVars, busy, silent, clientVars,
                 arrivals, failures>>

\* A node's query fails: the node is given up for the rest of the request.
Reject(n) ==
  /\ n \in pending
  /\ failures < MaxFailures
  /\ failures' = failures + 1
  /\ pending' = pending \ {n}
  /\ exhausted' = exhausted \cup {n}
  /\ silent' = silent \cup {n}
  /\ UNCHANGED <<rows, feed, requestVars, busy, answered, nextBefore, merged,
                 clientVars, arrivals>>

Settled == busy /\ pending = {}

\* Every query of the round failed.  Purchases report it per node instead.
RoundFailed == answered = {} /\ feed # "purchases"

Throw ==
  /\ Settled
  /\ RoundFailed
  /\ busy' = FALSE
  /\ outcome' = "error"
  /\ DropLocals
  /\ UNCHANGED <<rows, feed, requestVars, silent, page, before, after, left,
                 arrivals, failures>>

NextRound ==
  /\ Settled
  /\ ~RoundFailed
  /\ ~Done
  /\ pending' = Nodes \ exhausted
  /\ answered' = {}
  /\ UNCHANGED <<rows, feed, requestVars, busy, nextBefore, exhausted, merged,
                 silent, clientVars, arrivals, failures>>

NextBeforeOf(P) ==
  IF P # {} /\ (direction = "newer" \/ HasMore) THEN Last(P) ELSE NoRow
NextAfterOf(P) ==
  IF P # {} /\ (direction = "older" \/ (direction = "newer" /\ HasMore))
  THEN First(P) ELSE NoRow

Reply ==
  /\ Settled
  /\ ~RoundFailed
  /\ Done
  /\ busy' = FALSE
  /\ outcome' = "page"
  /\ page' = PageOf
  /\ before' = NextBeforeOf(PageOf)
  /\ after' = NextAfterOf(PageOf)
  /\ left' = IF direction = "older" THEN page ELSE {}
  /\ DropLocals
  /\ UNCHANGED <<rows, feed, requestVars, silent, arrivals, failures>>

Next ==
  \/ OpenFeed \/ ShowOlder \/ ShowNewer
  \/ \E n \in Nodes : Answer(n) \/ Reject(n)
  \/ Throw \/ NextRound \/ Reply
  \/ \E n \in Nodes, t \in 1..MaxTime : Ingest(n, t)

Fairness ==
  /\ \A n \in Nodes : WF_vars(Answer(n) \/ Reject(n))
  /\ WF_vars(Throw \/ NextRound \/ Reply)

Spec == Init /\ [][Next]_vars
FairSpec == Spec /\ Fairness
-----------------------------------------------------------------------------
\* Every variable has its type; a page is never longer than asked.
TypeOK ==
  /\ rows \subseteq Row /\ seen \subseteq Row /\ merged \subseteq Row
  /\ page \subseteq Row /\ left \subseteq Row
  /\ Cardinality(page) <= Limit
  /\ feed \in Feeds
  /\ direction \in Direction
  /\ cursor \in Cursor /\ before \in Cursor /\ after \in Cursor
  /\ busy \in BOOLEAN
  /\ pending \subseteq Nodes /\ answered \subseteq Nodes
  /\ exhausted \subseteq Nodes /\ silent \subseteq Nodes
  /\ nextBefore \in [Nodes -> Cursor]
  /\ outcome \in Outcome
  /\ arrivals \in 0..MaxArrivals /\ failures \in 0..MaxFailures

\* The rows the request had to account for: present when it arrived, on nodes
\* none of whose queries failed.
Owed == {r \in seen : r.node \notin silent}

Served == ~busy /\ outcome = "page"

\* What a request knows of node n between two of its queries: an exhausted
\* node has given every row, a node not reached yet none, and a node that has
\* more has given its newest rows down to nextBefore[n], at least a page.
ScanOf(n) ==
  /\ n \in exhausted \ silent => RowsOf(n, seen) \subseteq merged
  /\ (n \notin exhausted /\ nextBefore[n] = NoRow)
       => n \in pending /\ RowsOf(n, merged) = {}
  /\ nextBefore[n] # NoRow =>
       /\ \A r \in RowsOf(n, seen) : Precedes(nextBefore[n], r) \/ r \in merged
       /\ \A r \in RowsOf(n, merged) : ~Precedes(nextBefore[n], r)
       /\ Cardinality(RowsOf(n, merged)) >= Limit

\* The inductive invariant of a request: the scan of every node, the locals of
\* a request only while it is served, and the pagers of the page shown
\* (pqs-summary.service.ts:3347-3488).
ScanInv ==
  /\ seen \subseteq rows /\ merged \subseteq rows
  /\ ~busy => NoLocals
  /\ busy => /\ silent \subseteq exhausted
             /\ pending \cap exhausted = {}
             /\ pending \cap answered = {}
             /\ \A n \in Nodes : ScanOf(n)
  /\ busy /\ direction = "older" => cursor = before /\ before # NoRow
  /\ busy /\ direction = "newer" => cursor = after /\ after # NoRow
  /\ before # NoRow => \A p \in page : p = before \/ Precedes(p, before)
  /\ after # NoRow => \A p \in page : p = after \/ Precedes(after, p)

\* While a request is served, the rows it holds of a node that answered are
\* that node's newest rows without a hole, down to the row its next page
\* starts from: paging by offset loses no row of the node, however many rounds
\* are needed and whatever is ingested between them
\* (pqs-summary.service.ts:3461-3462).
NoHoleInScan ==
  \A r \in Owed :
    (busy /\ r \notin merged /\ (r.node \in answered \/ r.node \in exhausted))
      => nextBefore[r.node] # NoRow /\ Precedes(nextBefore[r.node], r)

\* The page a feed opens with is the newest of all nodes: a row that was there
\* when the request arrived is left out only if the page is full of rows that
\* stand before it, although each node is asked for one page only and rows
\* arrive while the nodes answer (pqs-summary.service.ts:3338-3342).
OpenedPageIsNewest ==
  Served /\ direction = "newest" =>
    \A r \in Owed \ page : /\ Cardinality(page) = Limit
                           /\ \A p \in page : Precedes(p, r)

\* Newer in the updates feed shows the rows next to the cursor: a row on the
\* newer side of it is left out only if the page is full of rows that stand
\* between the two (pqs-summary.service.ts:3471-3492).
NewerPageIsAdjacent ==
  Served /\ feed = "updates" /\ direction = "newer" =>
    \A r \in Owed \ page :
      Precedes(r, cursor) => /\ Cardinality(page) = Limit
                             /\ \A p \in page : Precedes(r, p)

\* A page without a cursor ends the feed: when no Older is offered, every row
\* of the answering nodes on the older side of what was asked is on the page,
\* and when Newer led to a page that offers no Newer, every row on the newer
\* side is (pqs-summary.service.ts:3496-3509, 5387-5399).
DisabledPagerIsTheEnd ==
  Served => \A r \in Owed \ page :
    /\ (direction # "newer" /\ before = NoRow)
         => direction = "older" /\ ~Precedes(cursor, r)
    /\ (direction = "newer" /\ after = NoRow) => ~Precedes(r, cursor)

\* Browsing never turns back on itself: an Older page holds only rows that
\* stand after every row of the page it was asked from, a Newer page only rows
\* that stand before them, in whatever order rows were ingested
\* (pqs-summary.service.ts:3355-3371).
PagesMoveOn ==
  [][\A p \in page, q \in page' :
       (Reply /\ direction # "newest") =>
         IF direction = "older" THEN Precedes(p, q) ELSE Precedes(q, p)]_vars

\* The page of node n that is asked for next starts further down.
MovesDown(n) ==
  /\ nextBefore'[n] # NoRow
  /\ nextBefore[n] = NoRow \/ Precedes(nextBefore[n], nextBefore'[n])

\* No round of a request is in vain: a node that answers or fails is either not
\* asked again or asked further down, a node that was given up stays so, and
\* there is another round only while some node is left to ask.  There being
\* finitely many rows, this bounds the rounds of a loop that has no bound of
\* its own, whatever is ingested meanwhile
\* (pqs-summary.service.ts:3376-3488).
RequestsMoveOn ==
  [][busy /\ busy' =>
       /\ exhausted \subseteq exhausted'
       /\ \A n \in pending \ pending' : n \in exhausted' \/ MovesDown(n)
       /\ \A n \in Nodes \ (pending \ pending') : nextBefore'[n] = nextBefore[n]
       /\ \/ pending' \subseteq pending
          \/ pending = {} /\ pending' # {} /\ pending' \cap exhausted' = {}]_vars

\* A request ends, with a page or an error, although nodes that lag behind are
\* read over and over until their cursors reach the asked rows
\* (pqs-summary.service.ts:3376-3488).
EveryRequestEnds == busy ~> ~busy

-----------------------------------------------------------------------------
(* The abstract specification.                                             *)

\* When every query of a round failed, some node is known to have failed.
FailureKnown == busy /\ pending = {} /\ answered = {} => silent # {}

Pager == INSTANCE FeedPager WITH Size <- Cardinality

\* The feeds, with their rounds, merges and cursors per node, implement a pager
\* that answers each request at once from the rows of all nodes
\* (pqs-summary.service.ts:2867, 3312, 5220).
ImplementsFeedPager == Pager!PagerSpec

=============================================================================
