# Canton Explorer: TLA+ models, checks and proofs

Canton Explorer is a read-only explorer over several Canton participants. A
NestJS backend reads each node's PQS database (PostgreSQL) and, where one is
configured, its gRPC services; a Vue frontend shows what the backend holds. This
directory models the parts of it whose correctness depends on the order of
things: concurrent requests, outages, crashes, stale reads, answers that
overtake each other, and long answers put together while the ledger moves on.
Paths below are relative to the repository.

## The system

| Part | State it keeps | Operations | Talks to | What is hard | What makes it correct | Module |
| --- | --- | --- | --- | --- | --- | --- |
| Index installer (`backend/src/indexes`) | migration table and indexes in PostgreSQL, an advisory lock | `indexes apply`, `repair`, `inspect` | PostgreSQL only | several invocations, failure or death between any two statements, a catalogue others change | a recorded migration is indexed; nothing is dropped but broken indexes, by repair; every run ends | `IndexInstaller`, `MigrationLedger` |
| Polling orchestrator and node cache (`orchestrator`, `cache`, `domain/node-health.ts`) | snapshot and activity series per node, timers | bootstrap loop, `refreshNode`, status, activity record and backfill | PQS summary, gRPC operations, package sync | overlapping refreshes, partial outages, two readings of one ledger at two moments, counters that start over | healthy means fresh; no update lost; recovery after an outage; the ledger shown goes back only where a refresh was overtaken | `NodePoller` |
| Package pipeline (`packages`, decoding in `pqs/pqs-summary.service.ts`) | SQLite tables `packages` and `node_packages`, in-memory registry, time of the last sync per node | sync when due, refresh by id, inspect, decode with one retry | gRPC and PQS package listings | verdicts remembered for ever, two sources with a fallback, loops outside transactions, restarts | cache and registry agree; a refreshed package is found; everything held is cached in the end | `PackagePipeline` |
| Value decoder and type trees (`packages/daml-value-decoder.service.ts`, `package-registry.service.ts`) | none | decode bytes against a package, draw the tree of a type | registry | types across packages, type variables, recursion, packages that are missing | the value is read as what it is, whole, and fits the tree beside it | `DamlTypes` |
| Merged feeds (`pqs/pqs-summary.service.ts`) | none | updates, contracts, purchases, merged over nodes by cursor | PQS | a node that fails or is denser than the others | pages neither skip nor repeat what every node answered; requests end | `MergedFeed`, `FeedPager` |
| Queries of one node (same file) | none | updates of a filter in widening windows, contracts by key, a party's contracts | PQS | candidates cut too early, contracts of one update, ledger moving between pages | the page is that of all matching rows; a walk is complete | `CandidateWindow`, `ContractPages` |
| Token lists (same file) | none | movements, holders and tokens, merged over nodes, paged | PQS, gRPC | the same movement told by several nodes, logged or inferred | every row once, every amount once | `TokenLists` |
| Token and traffic caches (same file, `packages/package-cache.service.ts`) | in-memory entries with a time to live, loads in flight, daily purchase table | cached reads, single-flight loads | PQS, gRPC, SQLite | shared loads that fail, caches on caches, `finally` blocks that delete a load | bounded age, one load at a time, no failure remembered | `NodeLoads`, `SharedLoad` |
| PQS connection factory | a promise per node | get | PQS | a rejected promise is kept | - | `NodeLoads` |
| HTTP handlers that ask several nodes (`api`, same service) | none | search, parties, namespaces, tokens, updates, contracts, status, purchases | PQS, gRPC | each node may fail in each phase | a failure is not told as absence; fingerprints have one source | `NodeQueries` |
| gRPC client and operations (`grpc`) | none between calls | nine operations, one client each | participants | paged listings, fallbacks, tolerated errors, a participant that moves on | complete listings, holdings of one moment | `GrpcCalls` |
| Debugger (`debugger`) | session store, artifacts per session, the SDK import | create, simulate, step, list, dispose | gRPC, package sync | lazily created store, sessions half created, restarts | an answered session can be found until disposed; a replay sees its own moment | `Debugger`, `DebugSessions` |
| Price and traffic estimate (`market`, `traffic`) | price history, five minutes | history, nearest day, estimate | exchanges | gaps, day boundaries, rounding | nearest day within the limit, right cents | `PriceEstimates` |
| Frontend pages and browsers (`frontend/src/composables`, `components`, `views`) | what a section shows, a generation in most | load, page, filter, navigate, redirect, poll | HTTP API | answers out of order, cursors of another list, several browsers in one address | a settled section answers its address | `Pages`, `PartiesPage`, `AddressQuery`, `DebuggerView` |
| Command line, configuration, rendering, tooling | - | - | - | - | - | none |

The parts meet in few places. The orchestrator calls PQS and gRPC, stores a
snapshot, then calls the package sync, then the activity cache. The sync and the
decoders share the SQLite tables and the registry. The installer meets the
backend only in PostgreSQL. The frontend talks to the backend by HTTP alone, and
relies of the debugger's sessions only on what `DebugSessions` says. All
backend code runs on one event loop, and so does the page in a browser: a
function is atomic between two `await`s, and that is where the models cut it
into actions. The installer is a process of its own, and each of its awaited
statements is an action.

## Modules

| Module | Models | Theorems in | Instantiated for TLC by |
| --- | --- | --- | --- |
| `IndexInstaller` | `reconcilePqsIndexes` and the catalogue its invocations share | `IndexInstallerProofs` | `MCIndexInstaller` |
| `MigrationLedger` | abstract: what the installer's table and reports promise | (refined by `IndexInstaller`) | `MCIndexInstaller` |
| `NodePoller` | `NodePollerService`, `NodeCacheService`, `computeNodeStatus` | `NodePollerProofs` | `MCNodePoller` |
| `PackagePipeline` | `PackageSyncService`, `PackageCacheService`, `PackageRegistryService`, refresh and retry of the decoders | `PackagePipelineProofs` | `MCPackagePipeline` |
| `DamlTypes` | `DamlValueDecoderService`, the type trees of the registry | - | `MCPackagePipeline` |
| `MergedFeed` | the requests of three paged feeds over all nodes, and a client who pages | `MergedFeedProofs` | `MCMergedFeed` |
| `FeedPager` | abstract: a page of the rows of all nodes, with its two cursors | (refined by `MergedFeed`) | `MCMergedFeed` |
| `PriceEstimates` | `TrafficCostEstimateService`, `CantonCoinPriceService`, providers | `MergedFeedProofs` | `MCMergedFeed` |
| `NodeLoads` | the caches of lists, of gRPC tokens and of the daily purchase | `ReadsProofs` | `MCReads` |
| `SharedLoad` | abstract: a value many requests share | (refined by `NodeLoads`) | `MCReads` |
| `NodeQueries` | nineteen kinds of request that ask several nodes in phases | `ReadsProofs` | `MCReads` |
| `Debugger` | `DebuggerService`: creating, finding and disposing of sessions | `DebuggerProofs` | `MCDebugger` |
| `DebugSessions` | abstract: what is promised of sessions | (refined by `Debugger`) | `MCDebugger` |
| `DebuggerView` | the debugger page, above `DebugSessions` | `DebuggerProofs` | `MCDebugger` |
| `Pages` | the routed pages, the loads of their sections, redirects, polling | `PagesProofs` | `MCPages` |
| `PartiesPage` | the page of parties and namespaces | `PagesProofs` | `MCPages` |
| `AddressQuery` | filters of several browsers in one address | `PagesProofs` | `MCPages` |
| `CandidateWindow` | `queryRecentUpdateMetaRows`: windows of candidates | `AnswersProofs` | `MCAnswers` |
| `ContractPages` | `fetchNodeContracts`, `fetchPartyContracts` | `AnswersProofs` | `MCAnswers` |
| `GrpcCalls` | `GrpcOperationsService` against a participant that moves on | `AnswersProofs` | `MCAnswers` |
| `TokenLists` | movements, holders and tokens: derived, merged, paged | `AnswersProofs` | `MCAnswers` |

Definitions named `Mutant of X` in a comment are faulty variants of `X`. No
specification uses them: each shows that one property notices one plausible
mistake.

Composition. Components that interact are composed: tasks of sync and decoding
with tables and registry in `PackagePipeline`, poller with cache in `NodePoller`,
four caches with the connection in `NodeLoads`, page with abstract sessions in
`DebuggerView`, feed with client in `MergedFeed`. An MC module that holds several
components without shared state has a selector, `reading`, `showing`,
`debugging`, `mounted` or `answering`, which is chosen at the start and never
changes: each behaviour is of one of them, the others stand still. This keeps
the number of states to the sum and loses nothing, since none of them reads what
another writes.

### IndexInstaller and MigrationLedger

`idx` is the PostgreSQL catalogue restricted to Explorer's index names: an index
is absent, ready, invalid (broken, or still being built) or in conflict (it has
another definition), which is what `toIndexStatus` tells apart. `recorded` is
the migration table, `lock` the advisory lock, `pc` the statement each
invocation is at. `plan`, `applied`, `newly`, `version`, `seen` and `todo` are
the local variables of `reconcilePqsIndexes`; `seen` is `currentRows`, read once
per migration, and everything the inner loop does is decided from it. A build is
two actions, because `create index concurrently` shows an invalid index in
the catalogue before it is ready. Every statement may fail (`StatementFails`),
the process may die anywhere (`Crash`, in a build with either outcome), and an
unlock that fails turns success into failure. The environment attaches
partitions and, if `OperatorRaces` allows, changes Explorer's index names while
a run holds the lock. The queries of one inspection (shape, two partition lists,
index rows) are one action: partitions only grow and no decision depends on
which of the queries a change fell between.

Left out: the order of statements within a migration, SQL text, sizes and plans
that `inspect` prints. `inspect` itself takes no lock and changes nothing.

`MigrationLedger` is what a reader of the migration table, or of a run's report,
may rely on. Its state is the partitions, the ready indexes, the recorded
versions and, of each run, how far it is, what it surveyed and how it ended. Runs
work one at a time; a ready index stays; a version is recorded once, and when all
that it calls for is ready; a run tells of success only when nothing that it
surveyed is left to build or to record. The mapping (`Ledger`) hides the lock, the
statements, broken and conflicting indexes and the operator, whose steps are
stutters. `ImplementsMigrationLedger` is checked with operators who interfere.

### NodePoller

A pass is one call of `refreshNode`; `pass[r].stage` is the `await` it is at
(`Promise.all`, package sync, backfill). `BeginRefresh` reads the previous
snapshot and the timestamp, as the code does before its first `await`;
`StoreSnapshot` is everything up to the sync, including the status;
`RecordAfterSync`, `SeedFromBackfill` and `RecordAfterBackfill` are the three
ways a refresh ends. A ledger summary or service info is represented by the time
its source produced it, and a count where the code computes with it. `history`
is the activity map; `baseline` is an auxiliary variable, the updates that
precede the first bucket of a series, so that what the series says can be
compared with what PQS holds. `Overlap = FALSE` states the assumption that a
refresh is shorter than the polling interval; the code does not enforce it, and
only a run relies on it, no theorem. A refresh is `Overtaken` when another has
stored a newer ledger since it began: such a one may take the snapshot back, which
is all that `LedgerGoesBackOnlyOvertaken` allows.

### PackagePipeline

`presence` and `blobs` are the tables `node_packages` and `packages`, `loaded`
is the registry's `packageCache`. A task is one running sync or decode request;
its stages are the `await`s of `syncNodePackages`, `syncPackagesById`,
`fetchPackages` and `refreshPackageForNode`. SQLite calls are synchronous, so an
upsert loop belongs to the action of the answer that led to it; a restart may
fall between two of its rows, and `Restart` writes any subset of them. Upserts
never delete, so `presence` only grows. Bytes are represented by whether the
loader accepts them (`Corrupt`). The PQS side of `fetchPackages` returns no
bytes (`pqs-package.service.ts`), so what is downloaded comes over gRPC.

### MergedFeed and FeedPager

`fetchGlobalRecentUpdates`, `fetchGlobalContracts` and
`fetchGlobalTrafficPurchases` share one shape, so one module models them:
`nextBefore`, `exhausted` and `merged` are the local variables `nextCursors`,
`exhaustedNodes` and the list of merged rows, a round ends when `pending` is
empty, and `Throw`, `NextRound` and `Reply` are what follows
`Promise.allSettled`. The feeds differ in `PageSize`, in when a request stops
reading (`Done`), in which end of the rows it keeps (`PageOf`) and in whether a
round of failures is an error (`RoundFailed`). The code merges a round's answers
after the last of them has settled and reads none before, so `Answer` merges its
own; the query itself sees the rows of that moment, which is what matters while
`Ingest` adds rows. `page`, `before` and `after` are what the client holds:
the rows and the cursors behind its Older and Newer buttons. Auxiliary
variables, which no action's guard reads, are `seen` (rows present when the
request arrived), `silent` (nodes a query failed on) and `left` (the page an
Older button left).

A row is a node and a time. The rows of one node have distinct times, so that
offsets and identifiers, the last and textual criterion of the comparators,
decide nothing; two nodes may have rows of one time. Contracts without a time
are not modelled. Filters choose the rows the model speaks of; a `nodeIds` filter
chooses the nodes. One client sends one request at a time, since a request shares
nothing with another but the databases. How a node's query collects its page
(it fetches growing windows of candidates when filters drop many) is abstracted
to the page it returns.

`FeedPager` is the same feed for somebody who does not know that nodes are read in
rounds: a request is answered at one moment, by a page of the rows all nodes hold
or by an error. What it promises of a page (`Serve`): its rows are on the side
that was asked for, no more than the page size, and a page that is not full leaves
out nothing that was there at the request on a node that did not fail
(`OfAskedRows`); the opened page, and a newer page of updates, leave out only what
lies beyond them (`NextToCursor`); each cursor is that of the row at its end of
the page, and where a pager is missing nothing is left out (`PagersFit`). There is
an error only if some node failed, and never for purchases (`Refuse`). The mapping
(`Pager`) keeps the variables of the same names and hides `merged`, `nextBefore`,
`exhausted`, `pending` and `answered`: rounds are stutters. That an older page
leaves out only what lies beyond it is not promised, since it is not so (see
Noticed); TLC refutes a `FeedPager` that says it.

### DamlTypes

A type is an operator with arguments, which are places in the table of the
package that wrote it (`internedTypes`); a value is a tree. `Typed` and
`TypeNode` follow `decodeTypedValue` and `buildTypeNode`: both resolve type
variables through a binding, the tree follows synonyms and marks a definition
as recursive under its own name, the decoder puts a unit where it cannot read
on. `stored` are the cached packages and `missing` the verdicts `missing_package`
the registry remembers, so that `Readable` is what the readers find. A package is
stored by a sync, which does not tell the registry (`StorePackage`), or by the
refresh of a decode, which makes it forget its verdict on the template's own
package and on no other (`Refresh`). `Inspect` asks for a type tree between
decodes; `DecodeContract` and `DecodeExercise` decode, refresh and decode once
more (`Attempt`); `Restart` empties the registry. `Whole` is the reference definition of a value
read as what it is. The operators are recursive, which is why this module holds
no theorem. The programs are `Recursive` (through a list and through an
interface), `Generic`, `Synonym`, `Imported`, `Nested` and `Wrapped` in
`MCPackagePipeline`. `PlainTypesAreRead` says when the decoder is right, once
every package is stored and none is remembered as missing
(`PlainApplications`: no argument is written in another package's table, no
parameter inside another's argument; for fields under their names, no synonyms)
and when the tree beside the value is one the value fits (`ParametersDiffer`: no
two types have a parameter of the same name, which `Wrapped` does not meet); see
Noticed for the rest.

### NodeLoads and SharedLoad

A caller is a load of one node on behalf of one request; its parts are the
`await`s, and the content of a list is the time at which its source was read.
`lists` are the TTL caches of lists and of template types (the latter feed
the former), `grpcTokens` with `refreshes` and `grpcCalls` the tokens served
stale while one load renews them, `purchases` the SQLite table of daily
purchases with `purchaseRefreshes`, `connection` the promise of
`PqsManagerFactory`. Time passes, calls fail, the backend restarts. `MaxLoad`
bounds how long a load lasts, which `ServedListIsRecent` speaks of. `SharedLoad`
is the abstract specification: a value held, one load at a time, begun only
without a usable value, replaced only by a load that ends. `GrpcTokensAreShared`
and `PurchasesAreShared` are the two refinements, by node and by node and day.

### NodeQueries

A request of one of nineteen kinds goes through phases (`Route`), in each of
which it asks every node at once (`Needed` decides whom) and waits for all. A
node's answer is the set of the things asked for that it reports, or a failure;
`Broken` says which failures end the request, `Missing` when there is no such
thing, and `GiveError`, `GiveNotFound` and `GiveReply` what follows.
Rows are represented by whether they are about what was asked.

### CandidateWindow, ContractPages, TokenLists

`CandidateWindow` is `queryRecentUpdateMetaRows`: a filter is a set of sources,
each query reads the nearest `window` updates by source and kind, and doubles
the window until no update outside it could belong on the page. Updates arrive
between queries. `ContractPages` walks through the contracts of one node by a
key that tells the contracts of one update apart, and through those of a party
on several nodes by offset, while contracts are created and archived.
`TokenLists` derives the movements of an update from what each node sees of it
(logged by either side, or inferred from creations and exercises), merges them
and the holders and tokens of all nodes, and pages through the result while
nodes fail, keep what they saw, and the ledger goes on. Holders are merged by a
fold over what the nodes observed (`MergeHolder`), the types of movement asked
for are chosen when a list is opened. The variables of a walk (`standing`,
`shown`, `again`) are auxiliary.

### GrpcCalls

Each operation is a sequence of calls, in order or side by side as under
`Promise.all`; `world` is the participant offset by offset, and every call is
answered from its last state. Page tokens, the offset that holdings are pinned
at, the admin listing of packages with its fallback, tolerated errors of the
three readings of topology and the disposal of the client are in the actions;
fields of the replies are not. The topology of a party is two lists, of its hosts
and of its keys: each has aggregated rows of its own, one store tells the raw rows
of both, and `TopologyRows` merges each list with its raw rows apart from the other.

### Debugger, DebugSessions, DebuggerView

`Debugger` follows `createSession` and `createSimulatedSession` from the import
of the SDK to the stored session through all stages, each of which may fail;
`sdk` is `sdkModulesPromise`, `store` and `held` the session store of the
service and the stores that running calls were given, `artifacts` the map beside
it, `open` the clients not yet disposed of. `Quiet` makes a continuation whose
promise is settled run before any outside answer, as the event loop does: this
is what keeps a second store from replacing one that holds an answered session.
The refinement maps what `DebugSessions` calls known to `Kept`: of the sessions
somebody was told of, those that the service would find now, in the store it looks
into and among its artifacts. A store that replaced another would take sessions
out of it without a disposal.
`archivedAt` and `readable` are the ledger, for what a replay reads of it.
`DebuggerView` has the page: a load of the session guarded by a generation,
steps, jumps, refreshes and simulations that are not guarded, a load of events,
and `SyncRoute`, which writes session and step into the address. Navigation to an
address without a replay clears session and events, unless a new simulation was
begun (`simulating`, the ref `showNewSimulation`): then only the templates are
loaded and the session stays on the page under the bare address. `error` also
stands for the message shown in place of a session.

### Pages, PartiesPage, AddressQuery

`Pages` describes each section of each routed page by four facts taken from its
component: what makes it load, whether answers are guarded by a generation,
whether the old page stays while the next one loads, and who keeps its query.
The user navigates, filters, pages and retries; answers come in any order;
a party's page knows its nodes only after they were loaded, and until then asks
without the filter by node its address names (`NodeFilter`, `InEffect`), so that a
cursor may be one of the unfiltered list (`Cursors`); `tokens` sets the timer that
asks again; an old link (`legacy`) is resolved by a
search and redirected. `PartiesPage` has the three modes of the page of parties
over a selection of nodes, with the node list arriving late. `AddressQuery` has
the filters of one or two browsers under prefixed keys of one query: an edit
reads, clears and rewrites the keys of its browser, navigation reads them again,
and nodes become known only after the address was read.

### PriceEstimates

`closes` is what two venues report by day, 0 for no candle; `cache` are the
histories by the day they end before. Estimating fetches or reuses a history,
takes the nearest day both venues know and rounds to cents; `today` moves.
Prices are twice the median, so that halves stay whole.

## Runs

| Run | Question | Result |
| --- | --- | --- |
| `installer_attach` | Two invocations while partitions of both kinds appear and an operator touches an index between runs: what may a run touch, and when? | `CleanWhileReconciling`, `OnlyRepairDrops` hold |
| `installer_race` | The operator acts at any moment: are recorded migrations indexed, what do table and reports promise, does every run end? | `RecordedVersionsAreIndexed`, `ImplementsMigrationLedger` (the refinement; it implies `SuccessMeansReady`), `RunTerminates` hold |
| `poller_serial` | One node with gRPC, no overlap, outages, commits, a PQS that starts over: do snapshot and history tell the truth? | `HealthyIsFresh`, `NoUpdateUncounted` hold |
| `poller_overlap` | Two refreshes of a node at once: does the snapshot recover, and what may it fall back to? | `SnapshotRecovers`, `LedgerGoesBackOnlyOvertaken` hold |
| `packages` | Uploads, outages, a restart in the middle of a sync, verdicts read meanwhile: do tables, registry and answers agree, and is everything cached in the end? Types across packages: are values read as what they are? | `StoredPackageDecodes`, `VerdictsHaveBytes`, `PlainTypesAreRead`, `SyncCatchesUp` hold |
| `packages_partial` | Is what counts as decoded decoded in full? | `DecodedIsWhole` violated |
| `feed_pages` | Two nodes, three feeds, a row ingested and a query failing at any moment: do pages skip or end too early, does every request end? Which day prices an update? | `OpenedPageIsNewest`, `NewerPageIsAdjacent`, `ImplementsFeedPager` (the refinement; it implies `DisabledPagerIsTheEnd`), `EveryRequestEnds`, `EstimatesAreOfNearestDay` hold |
| `reads` | Two loads at once, failures, time, restarts: how old may an answer be, who loads? Requests over two nodes, either of which fails: what may a failure hide? | `ServedListIsRecent`, `SettledTokensAreFresh`, `LoadsAreShared` (the refinement of `SharedLoad`), `FailureIsNotAbsence`, `FingerprintsOfOneSource` hold |
| `debugger` | Two callers, failure at every stage, restarts, a late archive; and the page with answers that overtake each other: do session, events and address agree? | `ReplaySeesItsMoment`, `EventsAreOfShownSession`, `SettledAddressIsShown`, `ImplementsDebugSessions` (the refinement) hold |
| `debugger_stale` | Does an answer stay with the address it was asked under? | `ShownSessionIsOfTheAddress` violated |
| `pages` | Every page, navigation and answers in any order: what does a page at rest show, what does its address say? | `SettledSectionAnswersTheAddress`, `CursorIsOfTheList`, `RefreshingListIsAskedOnce`, `RedirectsWhereAsked`, `PartiesPageAgrees`, `AddressTellsTheFilters`, `EditsChangeOneFilter` hold |
| `answers` | Answers put together from many calls and queries while the participant goes on: are they complete, and counted once? | `ListingsAreComplete`, `HoldingsOfOneMoment`, `TopologyRowsAgree`, `PageIsOfAllMatching`, `WalksAreComplete`, `RowsCountOnce` hold |

Bounds, and why they are enough:

- Installer: two invocations, since the lock and every decision are pairwise;
  `installer_attach` has one contract partition present and one of each kind to
  be attached, so that some migrations have indexes before, some only after, and
  migration 003 exists in one run and is empty in others; one index name the
  operator touches, between runs (`installer_attach`) or at any moment.
- Poller: two time steps, hence two buckets, and a retention of one make pruning
  happen; two commits and one re-initialisation suffice for a lost update and a
  falling counter; two refreshes are what overlap means. `MaxTime`,
  `MaxCommits`, `MaxResets` bound the environment only. `SnapshotRecovers` is
  about one node, whose refreshes are the only ones that touch its snapshot.
- Packages: two packages let one be corrupt and let a download be partial; one
  task, beside which verdicts are read (`Inspect`) and the sources change at any
  point; one restart falls at every point. The theorems cover any number of
  tasks. `SyncCatchesUp` needs one node, whose interval is the only one that
  matters to it. Type programs: two packages, a library and a user of it, suffice
  for a place read in the wrong table; lists nest two deep (`MaxDepth`), which
  covers a recursive type that goes round once more.
- Feeds: a page of one row over nodes of up to three rows makes queries of two
  rows (updates, contracts) and of one (purchases, cut by `PurchaseCap`), so a
  node is exhausted in its first, second or third round; two nodes let one be
  denser, lag or fail. Prices: three days with a gap limit of two have a day
  with neighbours on both sides and one too far; a price of 2 over 16 gives
  halves of a cent.
- Reads: times to live of two steps and loads of one over four steps of the
  clock let an entry, the types below it and a slow load expire one after the
  other, and cross one midnight (`DayLength`). One node: caches of two nodes
  share nothing. `Mixes` has one kind of list at a time; kinds meet only in the
  types. Requests go to two nodes that both have gRPC, or of which one has: every
  mixture of sources a request tells apart.
- Debugger: two callers make the race for the store, two sessions and three
  stores are what two restarts may leave; two nodes let a probe fail and the
  next succeed. The page has two loads of its session and one action, of which
  two at most are under way at once (`OneIsFree`), so that every pair of answers
  comes in both orders; the two callers and the two loads are symmetric, and no property
  tells them apart.
- Pages: two requests of a section under way, two subjects and three filters, one
  of them by node, make an answer old in each of the ways it can be; the second section of a page is
  paged but not filtered. Two known nodes and a foreign one let a node be named
  in an address before, or without, being offered.
- Answers: two kinds, two parties and three filters over four updates with a page
  of one row make windows of two, four and eight, of which the first may cut each
  source; two offsets after the first let a participant change between any two
  of three calls; a party has keys only where it has hosts, and a threshold to tell
  from another only where somebody is listed; four updates and contracts make pages
  end inside an update;
  two nodes and three views of an update make a movement logged here and inferred
  there; two contracts of two amounts and two parties make holders change places
  between pages. The views and the bound of each list are named in `MCAnswers`
  (`SomeViews`, `FewItems`).

Deadlock is checked except in `debugger`, `debugger_stale` and `answers`, where
everything that is bounded may be used up (all sessions named, all updates
made). Symmetry is used in `debugger` only, whose properties include no
liveness.

## Fairness

- Installer: `WF` on the steps of each invocation (each awaited statement
  returns or rejects) and `SF` on taking the lock (PostgreSQL queues the waiters
  of an advisory lock). No fairness on starting, failing or crashing.
- Poller: `WF` on the continuation after an answer (the event loop runs what is
  ready) and `WF` on answers of nodes in `Responsive` only, because PQS queries
  have no timeout. `SF` on the timer and the bootstrap: an interval keeps
  firing; `SF` instead of `WF` because the model bounds the refreshes in flight
  by `Pass` and the code does not.
- Packages: `WF` on each task's next step, because gRPC calls and queries end
  or fail, `WF` on the interval, `SF` on starting a due sync, for the same reason
  as above.
- Feeds: `WF` on each query's settling, with an answer or an error. This is an
  assumption on PostgreSQL: the code sets no timeout. `WF` on the continuation
  of a settled round (the event loop). No fairness on clients or ingestion.
- The other specifications state safety only. What they wait for is an answer
  over the network, for which neither browser nor backend sets a time; that a
  wait ends would be an assumption and nothing else.

## Proofs

Every invariant, action property and refinement the passing runs check is a
theorem, but for `PlainTypesAreRead`. The theorems hold for every value of the constants that
meets the named assumptions of the modules, which say no more than the comments
of the constants do: bounds and sizes are numbers, pages have at least one row,
a request is configured for at least one node (`PeersAssumption`,
`NodesAssumption`), a page has a filter to choose that is not one by node (`FilterAssumption`), prices
and purchases are positive (`PricesAssumption`), parts of an update are numbered
(`ListsAssumption`). `CappedPageFillsFeed` says that a purchase query may return
at least as many rows as a page of the feed has; see the end of Noticed. Two
theorems state an assumption of their own: `RunsAreClean` and `RepairDropsOnly`
are for `OperatorRaces = FALSE`, that is, operators who leave Explorer's indexes
alone while a run holds the lock.

Four abstract specifications are implemented: `MigrationLedger`
(`LedgerIsImplemented`), `FeedPager` (`PagerIsImplemented`), `SharedLoad`
(`LoadsShared`) and `DebugSessions` (`SessionsAreImplemented`).

Where an MC module holds several components, a theorem is about the component's
own specification (`Calls!Spec`, `Prices!Spec` and so on; `Walks` takes both
specifications its property is about). That the selector adds nothing but which of
them moves is proved as well: `AnswersAreOfComponents`, `DebuggerIsOfComponents`,
`ReadsAreOfComponents`, `FeedIsOfComponents` and `PagesAreOfComponents` show that
each behaviour of the composition TLC explores is one of each component, and so
has every safety property its run checks. For `MCPackagePipeline` there is no such
theorem, since it reaches the recursive operators of `DamlTypes`.

- `IndexInstallerProofs`: `Spec => []IInv`. That a recorded version is indexed
  is not inductive: it must be known that only the lock's holder is in the loop
  (`LockInv`), that the plan covers the partitions present at the start
  (`PlanInv`), that the rows read at the start of a migration still separate
  ready indexes from the others although operators interfere (`SeenInv`: they
  never touch a ready one, and no other installer runs), and that the migrations
  already walked are complete (`DoneInv`). `RecordedVersionsIndexed`,
  `SuccessReady` and `ReadyIndexesStay` (no step takes a ready index away)
  follow. Without races `ReadInv` holds as well: of the indexes a run has still
  to handle, the rows it read say what is there, and what repair drops is broken.
  From it `RunsAreClean` and `RepairDropsOnly`. `LedgerIsImplemented` needs
  besides what the migration table and the runs say of each other (`TableInv`): a
  run in the loop knows just the versions that are recorded, it has recorded those
  it left behind, and it is recording one that is not. Each action is then one
  step of the ledger or a stutter; where an index becomes ready, another reader
  sees that one index more and nothing else (`ReaderSeesOne`,
  `ReaderSeesNothing`). From the same invariants `SuccessLasts`: what a run that
  told of success has recorded and built stays so, whatever later runs fail at.
- `NodePollerProofs`: `Spec => []FreshInv`. `HealthyIsFresh` needs that an
  answer is not older than the refresh that asked for it (`AnswersInv`) and that
  the bootstrap loop has one refresh at a time (`BootInv`). `LedgerHolds` is
  the action property `LedgerGoesBackOnlyOvertaken` with any number of refreshes in
  flight: no reading is of the future, and what a refresh read of the last snapshot
  is not newer than the refresh (`LedgerInv`), so that one whose source answered
  stores what is newer than it, and one whose source failed carries over what it
  read, which only another refresh can have replaced. None of the theorems assumes
  that refreshes do not overlap. `CountedInv` is what
  the history needs, with overlap too: a count a refresh has still to record is
  one that PQS reported, so no more than its total (`AnswersCounted`), and the
  samples are well formed; from it `UpdatesCounted` and `PollerTypes`. Its
  arithmetic is about sums of samples, which the module defines as folds over
  sequences: `FoldExists` shows that such a fold exists for a sequence of any
  length, as a least counterexample to the contrary, and `SumsOf`, `MergedAdds`
  and `KeptAreSamples` are what the steps use of it. `RecoveryIsKept` and
  `HealthyStaysHealthy` are what `SnapshotRecovers` comes to without fairness; they
  need that a refresh was told what its sources said no earlier than it began
  (`AnswersInv`), not that refreshes end in order.
- `PackagePipelineProofs`: `Spec => []PipelineInv`. `StoredPackageDecodes` needs
  that a task which has stored its package and cleared the registry keeps both
  until its second attempt, whatever others load meanwhile (`StoredInv`);
  `StoredPackagesListed` needs that what is being downloaded is on record
  already (`ListedInv`), because a restart may interrupt the storing.
- `MergedFeedProofs`: `Spec => [](TypeOK /\ ScanInv)`. A page cut from what was
  merged is the page cut from all the nodes hold only because each node's rows
  were received from its newest on without a hole (`ScanOf`), at least a page of
  them unless it is exhausted. With that, a row that was not received stands
  behind a page's worth of rows of its own node, and so behind every row of the
  page: a fact about ranks in the order of the feed, which bounds the
  cardinality of a set by that of one that contains it and needs no induction.
  `ScanHasNoHole`, `OpenedPageNewest`, `NewerPageAdjacent`, `DisabledPagerEnds`
  and `BrowsingMovesOn` follow, for any number of nodes, page size and amount of
  ingestion and failures. `PagerIsImplemented` puts them together: a reply is one
  `Serve` (`ReplyServes`), for which a page shorter than asked for must be all
  there is (`ShortPageIsTheRest`), and a round without any answer knows of a
  failed node (`FailureStep`), which makes an error a `Refuse`. `EstimatesOfNearestDay` is about `PriceEstimates`, for
  any number of days, gap, prices and costs: `PricesInv` is the property with the
  types, and the step that estimates needs a fact about division, that the cents
  it gives are never further from the exact quotient than a half.
- `AnswersProofs` has four parts. Windows: `Spec => []WindowInv`, for any filter,
  number of parties, page size, cursor and arrivals. The step is in `Answer`: a
  matching update that is not among the candidates was cut off by a full window
  of some source, whose last candidate is nearer; so either the window is widened,
  or the page is full of candidates at least as near. Operations of a
  participant: `CallsInv` says which calls an operation has still out
  (`CallsMade`) and, for each operation, what was heard so far: a listing holds
  all that stood and came before its token (`ListingInv`), the holdings of the
  parties read are each of one moment, and those of the party being read of the
  pinned one (`HoldingsInv`), and of hosts and keys each for itself, aggregated rows
  have no threshold, name only synchronizers they were at, and once their listing
  has answered all those they were at throughout; raw rows name one synchronizer and
  the threshold it had (`TopologyInv`), references come from
  the admin listing or its fallback (`RefsInv`). Walks through contracts:
  `WalkInv`, neither page nor walk goes past its cursors, and what the walk of a
  node leaves out lies beyond (`NodeWalk`, `PartyWalk`). Token lists: `TokensInv`
  adds that nodes tell alike of a contract (`Agreed`), and `RowWalk` is the walk.
  Rows are folds over finite sets that take an arbitrary element first;
  `FoldAgrees` shows that whatever function satisfies the recursion agrees with
  one that exists, `SumsAdd` that the order is no matter, and `MergeAdds` that
  merging counts each contract of a holder once. The theorems are for any nodes,
  views, amounts and page size.
- `ReadsProofs`: `AgeInv` bounds the age of each entry, of what each running
  load holds and of each reply together; that a reply is recent is not inductive,
  since it may come from an entry that was written by a load from types of another
  entry. `ServedListsAreRecent`, `SettledTokensAreRecent` and `PurchasesAgree`
  follow. `CountInv` says that there is a load in progress exactly while it is
  on record, without which a `finally` block could clear another's record; with
  it `GrpcTokensShareLoads`, `PurchasesShareLoads` and `LoadsShared` show that
  each step is a step of `SharedLoad` or a stutter. `WaitInv` gives
  `NobodyWaitsForNothing`. Second part, the requests over several nodes:
  `QueriesInv`. That a failure is not told as absence depends on the phases
  behind the one that replies, so `HistoryInv` keeps what earlier phases left:
  whom they asked, that a later phase has heard nothing yet (`AskedInv`), that
  parties of a namespace or an update were found before their details were asked
  for, and why fingerprints went to PQS (`FingerprintsInv`). The reply is then a
  split over the nineteen kinds. `Absences` and `FingerprintLists`, for any number
  of nodes.
- `DebuggerProofs`: `Typed`; `SessionsInv` adds `OneStore`, that while a session
  has been answered nobody is about to create another store, and that answered
  sessions are found (`AnsweredSessionsAreFound`). `SessionsAreImplemented` is
  the refinement of `DebugSessions`, mapped from what the service finds (`Kept`):
  that the step which stores a session adds just that one, and that the step which
  makes a store takes none away, are consequences of `OneStore`; disposal is
  `Drop`, restart `DropAll`, everything else a stutter. `ReplaysSeeTheirMoment`
  shows that no step teaches a replay anything newer (`NothingRead`).
  Second part, the page above the abstract sessions: `ViewInv`, with types. That
  the settled address is shown needs that a context set aside means a load is
  under way (`PendingInv`) and that a session is shown only at an address that
  asks for one (`ContextInv`); `EventsInv` bounds what the list of events and its
  load may be of. `EventsOfShown` and `SettledAddress`.
- `PagesProofs`: `PagesInv` for the sections. That a settled section answers its
  address needs that a load which still counts asked for what the address says
  now (`AskedInv`) and that a section which is not settled shows that answer, or
  nothing, or, where pages are kept, a page of the same subject (`DataInv`). Cursors
  are taken with the filters they are used with, but for a filter by node that was
  not in effect yet (`AddressInv`); a list that says
  refreshing has a timer or a reload, never both (`EnrichmentInv`); an old link
  counts only while it is open (`ResolvingInv`). What the
  sections of the routed pages are built of is gone through once (`LoadersFit`),
  and the actions use no more than that. `PartiesInv` is about the page of parties: until the nodes are known
  nothing is chosen, and what is asked or shown of namespaces is of the chosen
  nodes and key. `AddressesInv` is about filters in the address: what a browser
  reads back from the keys it wrote are the filters it wrote, and no browser
  writes another's keys; from it `AddressTells` and, as an action property,
  `EditsAreOfOneFilter`.

The liveness properties need fairness and `ENABLED`, which the prover does not
have. What each of them rests on besides, that steps lead forward and nothing
undoes them, is an action property and proved:

| Property (TLC) | Its safety half (theorem) |
| --- | --- |
| `RunTerminates` | `InstallersMoveOn`: each step of a run takes it further in the order part, migration, index, statement, and no step of another run or of the environment moves it |
| `SnapshotRecovers` | `RecoveryIsKept`, `HealthyStaysHealthy`: once the refreshes that saw a failure have ended, every snapshot stored of a reachable node is healthy, also when refreshes overlap |
| `SyncCatchesUp` | `WholeSyncsComplete`: while a participant is reachable and holds all packages, its syncs stay on course, and one that ends, other than by a restart, leaves no package out |
| `EveryRequestEnds` | `RoundsMoveOn`: a node that answers or fails is not asked again or is asked strictly further down, and a new round begins only while some node is left |

Only model-checked: these four liveness properties themselves;
and `PlainTypesAreRead`, because `DamlTypes` follows types by
recursive operators, and what such an operator yields is an induction over types
that the installed provers cannot be given.

## Findings

1. An answer to a simulation, step, jump or refresh is put on the debugger page
   although the reader has opened another replay: a session of one update under
   the address of another (`debugger_stale`;
   `frontend/src/views/DebuggerView.vue:458`), against
   `docs/superpowers/plans/2026-08-13-independent-section-loading-implementation.md:19`.
2. A part of a value that cannot be read becomes a unit and the value counts as
   decoded; a missing package is then never asked for (`packages_partial`;
   `backend/src/packages/daml-value-decoder.service.ts:304`), against
   `docs/superpowers/specs/2026-07-02-generic-dar-decoder-design.md:12`.

## Noticed

Disagreements met while modelling, without a run of their own. Each is a
behaviour of the modules unless it says otherwise.

Installer and poller:

- `repair` reads the catalogue at `pqs-index-installer.ts:635` and drops by name
  at line 662: an index replaced in between by one with another definition is
  dropped, against `README.md:131-132`.
- A failed installer run keeps the migrations it recorded before it failed,
  against `docs/superpowers/specs/2026-08-14-pqs-index-installer-design.md:51-52`;
  rerunning is safe all the same.
- `node-poller.service.ts:146` seeds the history with an earlier count and later
  buckets, so an update in between is counted twice
  (`docs/superpowers/specs/2026-07-02-pqs-activity-bucket-cache-design.md:109`).
- The bootstrap awaits each node and sets no timeout (line 40): a node that never
  answers keeps the later ones unpolled, against
  `docs/superpowers/specs/2026-07-01-canton-node-explorer-design.md:225`.
- With overlapping refreshes one that was overtaken overwrites a newer snapshot
  (`LedgerGoesBackOnlyOvertaken` says no more than that is in the code), and the
  series may hold a bucket twice. `computeNodeStatus` never returns `down`.

Packages:

- The registry keeps `missing_package` for the life of the process
  (`package-registry.service.ts:242`) unless a decode refreshed the package,
  against `2026-07-02-generic-dar-decoder-design.md:400-403`. A sync stores a
  package and does not tell the registry (`package-sync.service.ts:86`, `:142`),
  and a decode refreshes the template's own package only
  (`pqs-summary.service.ts:8441`): a type of another package that was asked for too
  early stays unread until a restart. `PlainTypesAreRead` is stated for a registry
  that remembers nothing as missing.
- `node_packages` rows are never deleted (`package-cache.service.ts:66`).
- Arguments of a type stay places in the table of the package that applied it,
  and are looked up in the table of the package that defined it: generic types
  across packages are read as other types. A parameter inside an argument gives a
  unit. Type trees bind parameters by name, and mark `Box (Box Int)` as
  recursive: where a type with a parameter applies another whose parameter has the
  same name, the variable is bound to itself and the tree ends in a bare type
  variable, which no value fits (`package-registry.service.ts:561-582`, program
  `Wrapped`). The decoder reads such a value right.

Feeds, lists and caches:

- Older skips rows of a denser node, so Newer does not lead back
  (`pqs-summary.service.ts:3483`), as `backend/test/pqs/pqs-summary.service.spec.ts:4262`
  has it for one node. Newer of contracts and purchases shows the newest page,
  not the adjacent one (line 5382); the same cut is in the pages of tokens,
  holders, transfers and a party's contracts. `NewerPageIsAdjacent` is therefore
  about updates, and walks are stated downward where the code walks only
  downward.
- A party's contracts are paged by `offset < before`: contracts of an update cut
  by the end of a page are lost, and reading stops as soon as one node gives
  enough rows. `WalkIsComplete` promises completeness for one node.
- A request throws when all queries of one round fail, although nodes exhausted
  earlier have answered (line 3419).
- Movements without a row id are merged when they look alike; a log of a receiver
  alone makes a node guess a creation beside another's logged row; an update
  with both a transfer and a mint lists one creation twice. `LegsComeOnce` is
  stated for logged legs.
- Holders are paged by a cursor that carries the amount, which changes between
  pages; a cursor that is not found falls to the first or last page.
- A rejected connection is kept for ever (`pqs-manager.factory.ts:46`).
- A page of purchases larger than the cap of a node's query would not meet
  `CappedPageFillsFeed`, and the service does not refuse such a limit.

Participants and requests:

- The page of a party or namespace answers 404 when every node failed; the
  fallback of fingerprints swallows failures. Both are left out of
  `NotFoundIsTrue` and `EmptyIsNotAFailure` and named there.
- Holdings are pinned to an offset party by party, not across parties. Raw
  topology is read from the first store of a synchronizer only. Calls under
  `Promise.all` go on after their client was disposed of.
- The price history that ends today is kept under tomorrow's day while today's
  candle still forms, and a history both venues failed to give is kept for five
  minutes. The estimate takes the nearest day, while
  `docs/superpowers/specs/2026-07-27-traffic-cost-usd-estimate-design.md` has the
  price of the day of purchase.

Debugger and pages:

- Two first sessions make two stores; only a session nobody was told of is lost
  by it. A failed import of the SDK is kept. A session that was shown
  stays under the bare address of the debugger when a new simulation was begun
  before (`DebuggerView.vue:1215`), although going back to the list clears it
  (`frontend/src/views/DebuggerView.test.ts:511`). The page never disposes of its
  sessions (`debugger.service.ts:341` is not called). An unreadable DAR directory
  or a failed import leaves one client open.
- Search, activity, template and module pages do not count generations: the last
  answer to arrive is shown (`useActivityHistory.ts:16`).
  `SettledSectionAnswersTheAddress` is about sections that do.
- A retry of `useSectionLoad` repeats a create. Three browsers load again on every
  navigation of the query they share. The settings page may never load traffic
  when node status keeps coming first (`SettingsView.vue:107`).
- A filter mode chosen without a party is lost in the browser of updates, and kept
  beside the address in that of contracts. A node named in an address but not
  offered is dropped by the next edit of nodes; "all" of few offered nodes means
  all of more later. The party page asks without its node filter until the nodes
  have arrived, and a page turned before that keeps its cursor when the filter
  comes into effect (`UpdatesBrowser.vue:148`, `:520`, `:569`; likewise
  `ContractsBrowser.vue`): a cursor of the list of all nodes, used with the list
  of some.

## Plan

Done: installer, poller, packages, feeds (first part); caches, multi-node
requests, debugger and its page, pages, addresses, candidate windows, contract
walks, token lists, gRPC operations, types and decoding, price estimates
(second part); proofs of every safety property that the runs check, but for
that of the types (third part); abstract specifications of the installer and of the
feeds, so that four are implemented, the safety halves of the liveness properties
and the compositions (fourth part).

Left, in this order:

1. The poller and the package sync in one module: today the sync is one step of
   a refresh in `NodePoller` and a task of its own in `PackagePipeline`.
2. `DamlTypes`: reading generic types across packages against a reference
   definition of substitution, once the code resolves arguments in the table of
   the package that wrote them; and the plain part of it as a recursive function
   of the depth, which theorems could be about.

## Not modelled

- Command line, configuration, HTTP parsing of limits and repeated parameters:
  sequential, read once, no state.
- SQL text, column mapping, formatting and the layout of protobuf messages and
  archives: data, not control. The decoder is modelled from the decoded tables
  on.
- What the Daml SDK computes when a session is stepped: it is not in this
  repository; the model has that a step changes the session, or fails.
- Rendering, HTTP wrappers of the frontend, health polling of the header,
  screenshots, DAR builders and container files: no state whose order matters.
- Closing of connections at shutdown: `app-bootstrap.ts` does not enable the
  hooks that would call it.
