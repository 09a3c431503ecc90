------------------------------- MODULE Pages -------------------------------
(***************************************************************************)
(* The pages of the frontend and the sections they load.  The router mounts *)
(* one page at a time and keeps it mounted when only the address changes;    *)
(* the page's watches then load its sections anew while answers to earlier   *)
(* addresses are still on their way.  An address is what the path names and  *)
(* one query, which the two sections of a page share.                        *)
(***************************************************************************)
EXTENDS Naturals, Sequences

CONSTANTS Subject,  \* what a path names: a party, a token, a package, a search
          Filter,   \* filters and page size of a list
          NodeFilter,  \* those by node, which a party's page alone has
          Slot      \* bound: requests of a section under way

\* A list can be asked for as it is by default, which is of all nodes.
ASSUME FilterAssumption == NodeFilter \subseteq Filter /\ Filter \ NodeFilter # {}

Section == {1, 2}

\* What makes a section load anew, whether its answers are guarded by a generation,
\* whether a page of it stays until the next one is there, and who keeps the query.
Loader(watch, guarded, keeps, list) ==
  [watch |-> watch, guarded |-> guarded, keeps |-> keeps, list |-> list]
Detail == Loader("subject", TRUE, FALSE, "none")
OnMount == Loader("mount", FALSE, FALSE, "none")

\* Browsers compare the keys of their own query, or load on every navigation.
UpdatesBrowser == Loader("own", TRUE, FALSE, "routed")
ContractsBrowser == Loader("own", TRUE, FALSE, "routed")
TokenTransfersBrowser == Loader("any", TRUE, FALSE, "routed")
TokensList == Loader("any", TRUE, FALSE, "routed")
TokenHolders == Loader("any", TRUE, TRUE, "routed")
NamespaceParties == Loader("own", TRUE, TRUE, "local")
TrafficPurchases == Loader("own", TRUE, FALSE, "local")

\* Sections of one subject, guarded or not.
PackageSections == Detail
NodeSections == Detail
SearchResults == Loader("subject", FALSE, TRUE, "none")
ActivityHistory == Loader("subject", FALSE, TRUE, "none")
TemplateDetail == Loader("subject", FALSE, FALSE, "none")
ModuleDetail == Loader("subject", FALSE, FALSE, "none")

\* Loaded when the page is mounted, never again.
UpdateDetail == OnMount
ContractDetail == OnMount
TokenTransferDetail == OnMount
PackageFamily == OnMount
CantonCoin == OnMount

NodeStatus == Loader("poll", TRUE, TRUE, "none")
NodeTraffic == Loader("poll", TRUE, TRUE, "none")

\* router: the page of every path; browsers stand on pages of their own as well.
Sections ==
  [party |-> <<UpdatesBrowser, ContractsBrowser>>,
   tokens |-> <<TokensList, TokenTransfersBrowser>>,
   token |-> <<TokenHolders, TokenTransfersBrowser>>,
   namespace |-> <<NamespaceParties>>, traffic |-> <<TrafficPurchases>>,
   package |-> <<PackageSections>>, node |-> <<NodeSections>>,
   search |-> <<SearchResults>>, activity |-> <<ActivityHistory>>,
   template |-> <<TemplateDetail>>, module |-> <<ModuleDetail>>,
   update |-> <<UpdateDetail>>, contract |-> <<ContractDetail>>,
   transfer |-> <<TokenTransferDetail>>, family |-> <<PackageFamily>>,
   coin |-> <<CantonCoin>>, settings |-> <<NodeStatus, NodeTraffic>>, legacy |-> <<>>]
Page == DOMAIN Sections

\* What the path of p may name; these pages' paths name nothing.
Subjects(p) == IF p \in {"tokens", "settings", "traffic", "coin"}
               THEN {CHOOSE x \in Subject : TRUE} ELSE Subject

Default == CHOOSE f \in Filter \ NodeFilter : TRUE

\* The filters of section s on page p.  Bounds: the second list is only paged, and a
\* filter by node stands alone.
Filters(p, s) == IF s = 2 THEN {Default} ELSE IF p = "party" THEN Filter
                 ELSE Filter \ NodeFilter

\* readNodeFilters: what f asks for when the nodes are known, and before.
InEffect(f, known) == IF known \/ f \notin NodeFilter THEN f ELSE Default
NodeKey(f) == IF f \in NodeFilter THEN f ELSE "none"

NoCursor == [subject |-> "none", filter |-> "none"]
CursorOf(sub, f) == [subject |-> sub, filter |-> f]
First(f) == [filter |-> f, cursor |-> NoCursor]
NoQuery == [s \in Section |-> First(Default)]
NoData == [subject |-> "none", query |-> First("none"), options |-> FALSE]
Free == [state |-> "free", attempt |-> 1, asked |-> NoData]
Empty == [data |-> NoData, refreshing |-> FALSE, error |-> FALSE, loading |-> FALSE,
          runs |-> [r \in Slot |-> Free]]
NotResolving == [state |-> "free", subject |-> "none"]

VARIABLES
  page, subject, query,
  options,    \* party page: the nodes to filter by are known
  section,    \* per section: data, error, loading and its requests under way
  timer,      \* tokens page: enrichmentReloadTimer is set
  scheduled,  \* tokens page: enrichmentReloadScheduled
  reloaded,   \* that timer has fired since the list was last asked for anew
  resolving   \* legacy page: searches under way, by slot

Has(s) == s \in DOMAIN Sections[page]
Is(s, field, value) == Has(s) /\ Sections[page][s][field] = value
IsList(s) == Is(s, "list", "routed") \/ Is(s, "list", "local")
IsGuarded(s) == Is(s, "guarded", TRUE) /\ ~Is(s, "watch", "poll")

address == <<page, subject, query, options>>
enrichment == <<timer, scheduled, reloaded>>
vars == <<address, section, enrichment, resolving>>

-----------------------------------------------------------------------------
(* One section: useSectionLoad, or the plain loaders of unguarded pages.      *)

\* What the loader of section s reads from the address.
Ask(s) == [subject |-> subject, query |-> query[s], options |-> options]

Superseded(x) ==
  [x EXCEPT !.runs = [r \in Slot |-> IF @[r].state = "current"
                                     THEN [@[r] EXCEPT !.state = "stale", !.attempt = 1]
                                     ELSE @[r]]]

\* Bound: a load supersedes others only once those superseded before have ended.
HasRoom(x) == /\ \E r \in Slot : x.runs[r].state = "free"
              /\ \A s \in Section, r \in Slot : section[s].runs[r].state # "stale"

Running(x, asked) ==
  LET r == CHOOSE r \in Slot : x.runs[r].state = "free"
  IN [x EXCEPT !.loading = TRUE, !.error = FALSE,
               !.runs[r] = [state |-> "current", attempt |-> 1, asked |-> asked]]

Load(x, asked) == Running(Superseded(x), asked)

Reset(x) == [Superseded(x) EXCEPT !.data = NoData, !.refreshing = FALSE,
                                  !.error = FALSE, !.loading = FALSE]

\* Without a generation nothing is superseded; what was shown may be cleared first.
LoadUnguarded(x, keeps, asked) ==
  Running(IF keeps THEN x ELSE [x EXCEPT !.data = NoData], asked)

-----------------------------------------------------------------------------
(* The address and its watches.                                              *)

\* Cursors are kept in addresses together with what they were given for, or with a
\* filter by node that was not in effect yet.
Cursors(sub, f) ==
  {NoCursor} \cup {CursorOf(sub, InEffect(f, known)) : known \in BOOLEAN}
Bookmarked(p, s, sub) == UNION {[filter : {f}, cursor : Cursors(sub, f)] : f \in Filters(p, s)}
Queries(p, sub) ==
  IF Sections[p] = <<>> \/ Sections[p][1].list # "routed" THEN {NoQuery}
  ELSE {<<a, b>> : a \in Bookmarked(p, 1, sub), b \in Bookmarked(p, 2, sub)}

\* Whether the change of the address makes section s load.
Watched(s) ==
  \/ subject' # subject /\ ~Is(s, "watch", "mount")
  \/ Is(s, "watch", "own") /\ <<query'[s], options'>> # <<query[s], options>>
  \/ Is(s, "watch", "any") /\ query' # query

Reloads(s) ==
  LET keeps == Is(s, "keeps", TRUE)
  IN IF ~IsGuarded(s) THEN LoadUnguarded(section[s], keeps, Ask(s)')
     ELSE IF keeps /\ subject' = subject THEN Load(section[s], Ask(s)')
     ELSE Load(Reset(section[s]), Ask(s)')

\* clearEnrichmentReload.
ClearEnrichment == timer' = FALSE /\ scheduled' = FALSE /\ reloaded' = FALSE

FollowAddress ==
  LET Changed == {s \in DOMAIN Sections[page] : Watched(s)}
  IN /\ \A s \in Changed : HasRoom(section[s])
     /\ section' = [s \in Section |-> IF s \in Changed THEN Reloads(s) ELSE section[s]]
     /\ IF page = "tokens" /\ 1 \in Changed THEN ClearEnrichment ELSE UNCHANGED enrichment

-----------------------------------------------------------------------------
\* Setup of page p; the node status of the settings loads before the traffic.
Mounted(p) ==
  [s \in Section |-> IF s \in DOMAIN Sections[p] /\ ~(p = "settings" /\ s = 2)
                     THEN Load(Empty, Ask(s)') ELSE Empty]

\* onBeforeUnmount bumps the sequence of the legacy page.
Left == [r \in Slot |-> IF resolving[r].state = "current"
                        THEN [resolving[r] EXCEPT !.state = "stale"] ELSE resolving[r]]

\* resolveLegacyTransaction.
Resolve(sub, before) ==
  \E r \in Slot : /\ before[r].state = "free"
                  /\ resolving' = [before EXCEPT ![r] = [state |-> "current", subject |-> sub]]

Mount(p, sub, q) ==
  /\ page' = p /\ subject' = sub /\ query' = q /\ options' = FALSE
  /\ section' = Mounted(p)
  /\ ClearEnrichment

Init == /\ page = "search" /\ subject \in Subject
        /\ query = NoQuery
        /\ options = FALSE
        /\ section = [s \in Section |-> IF s = 1 THEN Load(Empty, Ask(1)) ELSE Empty]
        /\ timer = FALSE /\ scheduled = FALSE /\ reloaded = FALSE
        /\ resolving = [r \in Slot |-> NotResolving]

\* A link or the menu leads to another page; a bookmark is followed as if its query
\* were navigated to next.
Open(p, sub) ==
  /\ p # page
  /\ Queries(p, sub) # {NoQuery} => Left = [r \in Slot |-> NotResolving]  \* bound
  /\ Mount(p, sub, NoQuery)
  /\ IF p = "legacy" THEN Resolve(sub, Left) ELSE resolving' = Left

\* The address changes under the mounted page: a link to the like of it, Back, a
\* bookmark.  The cursors a namespace page keeps are dropped.
Navigate(sub, q) ==
  /\ q \in Queries(page, sub)
  /\ page' = page /\ subject' = sub
  /\ IF Is(1, "list", "routed") THEN query' = q /\ <<sub, q>> # <<subject, query>>
                                ELSE query' = NoQuery /\ sub # subject
  /\ options' = (options /\ sub = subject)
  /\ IF page = "legacy" THEN Resolve(sub, Left) ELSE UNCHANGED resolving
  /\ FollowAddress

Stay == UNCHANGED <<page, subject, options, resolving>>

\* The filter by node of an address can be changed only once the nodes are known.
KeepsUnknownNodes(s, f) ==
  page = "party" /\ ~options => NodeKey(f) = NodeKey(query[s].filter)

\* Mutant of SetFilter: the cursor stays in the query.
SetFilterKeepingCursor(s, f) ==
  /\ IsList(s)
  /\ f # query[s].filter /\ KeepsUnknownNodes(s, f)
  /\ query' = [query EXCEPT ![s].filter = f]
  /\ Stay /\ FollowAddress

\* A filter or the page size is set: clearManagedKeys, buildQuery, pushQuery.
SetFilter(s, f) ==
  /\ IsList(s)
  /\ First(f) # query[s] /\ KeepsUnknownNodes(s, f)
  /\ query' = [query EXCEPT ![s] = First(f)]
  /\ Stay /\ FollowAddress

\* nextBefore and nextAfter are those of the list that was asked for, by the filters
\* in effect then.  Lists that keep their page have no filters, and no cursor depends
\* on a page size.
CursorShown(s) ==
  LET shown == section[s].data
  IN CursorOf(shown.subject, IF Is(s, "keeps", TRUE) THEN query[s].filter
                             ELSE InEffect(shown.query.filter, shown.options))

\* Older and newer lead on from the page shown, and wait while one is loading.
TurnPage(s) ==
  /\ IsList(s)
  /\ section[s].data # NoData /\ ~section[s].loading
  /\ query' = [query EXCEPT ![s].cursor = CursorShown(s)]
  /\ query' # query
  /\ Stay /\ FollowAddress

\* The nodes of a party arrive; without them a filter by node asks for all.
OptionsArrive ==
  /\ page = "party" /\ ~options
  /\ options' = TRUE
  /\ UNCHANGED <<page, subject, query, resolving>>
  /\ FollowAddress

\* The Retry button beside an error.
Retry(s) ==
  /\ IsGuarded(s) /\ section[s].error /\ HasRoom(section[s])
  /\ section' = [section EXCEPT ![s] = Load(@, Ask(s))]
  /\ UNCHANGED <<address, enrichment, resolving>>

-----------------------------------------------------------------------------
(* Answers.                                                                  *)
Ended(x, r) == [x EXCEPT !.runs[r] = Free, !.loading = FALSE]
Shows(x, r) == [Ended(x, r) EXCEPT !.data = x.runs[r].asked]

\* Mutant of Answered: without the generation, the last answer is shown.
AnsweredInAnyOrder(s, r) ==
  IF section[s].runs[r].state = "free" THEN {} ELSE {Shows(section[s], r)}

\* The guarded answer: only the last run's counts.
Answered(s, r) ==
  CASE section[s].runs[r].state = "current" -> {Shows(section[s], r)}
    [] section[s].runs[r].state = "stale" -> {[section[s] EXCEPT !.runs[r] = Free]}
    [] OTHER -> {}

\* A failed run is repeated once, for the address of then.
Failed(s, r) ==
  LET x == section[s] IN
  CASE x.runs[r].state = "stale" -> {[x EXCEPT !.runs[r] = Free]}
    [] x.runs[r].state = "current" /\ x.runs[r].attempt = 1 ->
         {[x EXCEPT !.runs[r].attempt = 2, !.runs[r].asked = Ask(s)]}
    [] x.runs[r].state = "current" /\ x.runs[r].attempt = 2 ->
         {[Ended(x, r) EXCEPT !.error = TRUE]}
    [] OTHER -> {}

\* Without a generation every answer counts, and a failure at once.
AnsweredUnguarded(s, r) ==
  IF section[s].runs[r].state = "free" THEN {}
  ELSE {Shows(section[s], r),
        [Ended(section[s], r) EXCEPT !.error = TRUE,
                                     !.data = IF page = "search" THEN NoData ELSE @]}

\* Mutant of ScheduleEnrichment: every refreshing answer sets the timer.
ScheduleEnrichmentAlways(refreshing) ==
  /\ timer' = (timer \/ refreshing)
  /\ scheduled' = (scheduled \/ refreshing)
  /\ UNCHANGED reloaded

\* scheduleEnrichmentReload.
ScheduleEnrichment(refreshing) ==
  /\ timer' = (timer \/ (refreshing /\ ~scheduled))
  /\ scheduled' = (scheduled \/ refreshing)
  /\ UNCHANGED reloaded

\* The list of tokens is answered; it says whether it is being refreshed.
TokensArrive(r) ==
  /\ page = "tokens"
  /\ \E x \in Answered(1, r), refreshing \in BOOLEAN :
       IF x.data # NoData /\ ~x.loading /\ section[1].runs[r].state = "current"
       THEN /\ section' = [section EXCEPT ![1] = [x EXCEPT !.refreshing = refreshing]]
            /\ ScheduleEnrichment(refreshing)
       ELSE section' = [section EXCEPT ![1] = x] /\ UNCHANGED enrichment
  /\ UNCHANGED <<address, resolving>>

SectionAnswers(s, r) ==
  /\ IsGuarded(s) \/ (page = "settings" /\ s = 2)
  /\ ~(page = "tokens" /\ s = 1)
  /\ \E x \in Answered(s, r) : section' = [section EXCEPT ![s] = x]
  /\ UNCHANGED <<address, enrichment, resolving>>

SectionFails(s, r) ==
  /\ IsGuarded(s) \/ (page = "settings" /\ s = 2)
  /\ \E x \in Failed(s, r) : section' = [section EXCEPT ![s] = x]
  /\ UNCHANGED <<address, enrichment, resolving>>

UnguardedAnswers(r) ==
  /\ Is(1, "guarded", FALSE)
  /\ \E x \in AnsweredUnguarded(1, r) : section' = [section EXCEPT ![1] = x]
  /\ UNCHANGED <<address, enrichment, resolving>>

\* One reload a second after a refreshing answer; the list stays meanwhile.
EnrichmentReload ==
  /\ page = "tokens" /\ timer /\ HasRoom(section[1])
  /\ timer' = FALSE /\ reloaded' = TRUE
  /\ section' = [section EXCEPT ![1] = Load(@, Ask(1))]
  /\ UNCHANGED <<address, scheduled, resolving>>

-----------------------------------------------------------------------------
(* The settings page polls the node status every 15 seconds.                 *)
Busy(x) == \E r \in Slot : x.runs[r].state # "free"

\* loadNodes, by the timer or by Retry; requestInFlight keeps it to one.
PollStatus ==
  /\ page = "settings" /\ ~Busy(section[1])
  /\ section' = [section EXCEPT ![1] = Load(@, Ask(1))]
  /\ UNCHANGED <<address, enrichment, resolving>>

\* Once the status is in, or an earlier one is kept, each node's traffic loads.
StatusEnds(r) ==
  /\ page = "settings"
  /\ \E x \in Answered(1, r) \cup Failed(1, r) :
       LET Loads == ~x.loading /\ x.data # NoData
       IN /\ Loads => HasRoom(section[2])
          /\ section' = [s \in Section |-> IF s = 1 THEN x
                                           ELSE IF Loads THEN Load(section[2], Ask(2))
                                           ELSE section[2]]
  /\ UNCHANGED <<address, enrichment, resolving>>

-----------------------------------------------------------------------------
(* The legacy page looks an update up and moves on to it, or to the search.   *)
Redirected(p, r) ==
  /\ Mount(p, resolving[r].subject, NoQuery)
  /\ resolving' = [Left EXCEPT ![r] = NotResolving]

Resolved(r) ==
  /\ resolving[r].state = "current"
  /\ Redirected("update", r) \/ Redirected("search", r)

\* Mutant of ResolveFails: a failure always leads to the search.
ResolveFailsAnyway(r) == resolving[r].state # "free" /\ Redirected("search", r)

ResolveFails(r) == resolving[r].state = "current" /\ Redirected("search", r)

ResolvedLate(r) ==
  /\ resolving[r].state = "stale"
  /\ resolving' = [resolving EXCEPT ![r] = NotResolving]
  /\ UNCHANGED <<address, section, enrichment>>

-----------------------------------------------------------------------------
User ==
  \/ \E p \in Page : \E sub \in Subjects(p) : Open(p, sub)
  \/ \E sub \in Subjects(page) : \E q \in Queries(page, sub) : Navigate(sub, q)
  \/ \E s \in Section : Retry(s) \/ TurnPage(s) \/ \E f \in Filters(page, s) : SetFilter(s, f)

Answer ==
  \/ OptionsArrive \/ EnrichmentReload \/ PollStatus
  \/ \E s \in Section, r \in Slot : SectionAnswers(s, r) \/ SectionFails(s, r)
  \/ \E r \in Slot : \/ TokensArrive(r) \/ UnguardedAnswers(r) \/ StatusEnds(r)
                     \/ Resolved(r) \/ ResolveFails(r) \/ ResolvedLate(r)

Next == User \/ Answer

Spec == Init /\ [][Next]_vars
-----------------------------------------------------------------------------
(* A page that guards its sections shows, once they are settled, an error or *)
(* the answer to the address it stands at, whatever order answers came in.   *)
SettledSectionAnswersTheAddress ==
  \A s \in Section : (IsGuarded(s) /\ ~section[s].loading) =>
                      section[s].error \/ section[s].data = Ask(s)

(* A cursor is used only for the list it was given for, with its filters.  A  *)
(* filter by node may have joined since, for a page turned before the nodes   *)
(* of a party were known; no other filter may.                                *)
CursorIsOfTheList ==
  \A s \in Section : query[s].cursor \in Cursors(subject, query[s].filter)

(* A token list that says it is being refreshed is asked for again, and the  *)
(* page asks no more than once on its own.                                    *)
RefreshingListIsAskedOnce ==
  (page = "tokens" /\ ~section[1].loading /\ section[1].refreshing) => timer # reloaded

(* An old link leads to the update it names, and only while its page is      *)
(* still open: an answer after the reader has moved on moves nobody.          *)
RedirectsWhereAsked ==
  [][\A r \in Slot :
       (resolving[r].state # "free" /\ resolving'[r].state = "free" /\ page' # page)
         => page = "legacy" /\ subject' = subject]_vars
=============================================================================
