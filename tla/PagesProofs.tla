----------------------------- MODULE PagesProofs -----------------------------
(***************************************************************************)
(* Proofs about the pages of the frontend, for any subjects, filters and    *)
(* numbers of requests under way.                                           *)
(***************************************************************************)
EXTENDS MCPages, FiniteSetTheorems, TLAPS

-----------------------------------------------------------------------------
(* Types *)
ACursor == [subject : Subject \cup {"none"}, filter : Filter \cup {"none"}]
AListQuery == [filter : Filter, cursor : ACursor]
AnAddress == [subject : Subject, query : AListQuery, options : BOOLEAN]
ARun == [state : {"free", "current", "stale"}, attempt : {1, 2}, asked : AnAddress \cup {NoData}]
ASection == [data : AnAddress \cup {NoData}, refreshing : BOOLEAN, error : BOOLEAN,
             loading : BOOLEAN, runs : [Slot -> ARun]]

AddressOK == /\ page \in Page /\ subject \in Subject
             /\ query \in [Section -> AListQuery] /\ options \in BOOLEAN

PagesOK == /\ AddressOK
           /\ section \in [Section -> ASection]
           /\ timer \in BOOLEAN /\ scheduled \in BOOLEAN /\ reloaded \in BOOLEAN
           /\ resolving \in [Slot -> [state : {"free", "current", "stale"},
                                      subject : Subject \cup {"none"}]]

-----------------------------------------------------------------------------
(* What the properties of a page rest on. *)

\* Only the party page learns which nodes to filter by; pages without a list have no query.
AddressInv == /\ options => page = "party"
              /\ (\A s \in Section : ~IsList(s)) => query = NoQuery
              /\ CursorIsOfTheList

\* A guarded section that keeps no page shows the answer to the address or nothing;
\* one that does shows at least its subject.
DataInv ==
  \A s \in Section : IsGuarded(s) =>
    \/ section[s].data = NoData
    \/ section[s].data = Ask(s)
    \/ Is(s, "keeps", TRUE) /\ section[s].data.subject = subject

\* The last run asks for the address of now.
AskedInv ==
  \A s \in Section : IsGuarded(s) =>
    \A r \in Slot : section[s].runs[r].state = "current" => section[s].runs[r].asked = Ask(s)

SectionInv == DataInv /\ AskedInv /\ SettledSectionAnswersTheAddress

\* A reload is scheduled while its timer runs and, until the list is asked anew, after it.
EnrichmentInv == /\ scheduled <=> (timer \/ reloaded)
                 /\ ~(timer /\ reloaded)
                 /\ (page = "tokens" /\ section[1].refreshing) => scheduled

\* An old link is looked up for the page that is open.
ResolvingInv ==
  \A r \in Slot : resolving[r].state = "current" => page = "legacy" /\ resolving[r].subject = subject

PagesInv == AddressInv /\ SectionInv /\ EnrichmentInv /\ ResolvingInv

-----------------------------------------------------------------------------
\* How sections are built: what makes a list is guarded and follows its query, and a
\* page with nodes to filter by compares the keys of its own.
Fits(p, l) ==
  /\ l.guarded \in BOOLEAN /\ l.keeps \in BOOLEAN
  /\ l.watch \in {"mount", "subject", "own", "any", "poll"}
  /\ l.list \in {"none", "routed", "local"}
  /\ l.guarded => l.watch # "mount"
  /\ l.list # "none" => l.guarded /\ l.watch \in {"own", "any"}
  /\ l.watch = "any" => p # "party"

LEMMA LoadersFit ==
  /\ \A l \in {UpdatesBrowser, ContractsBrowser, NamespaceParties, TrafficPurchases} :
       \A p \in Page : Fits(p, l) /\ l.watch # "subject"
  /\ \A l \in {TokenTransfersBrowser, TokensList, TokenHolders} :
       \A p \in Page \ {"party"} : Fits(p, l) /\ l.watch # "subject"
  /\ \A l \in {PackageSections, NodeSections, SearchResults, ActivityHistory, TemplateDetail,
               ModuleDetail, UpdateDetail, ContractDetail, TokenTransferDetail, PackageFamily,
               CantonCoin} : \A p \in Page : Fits(p, l) /\ l.list = "none"
  /\ \A l \in {NodeStatus, NodeTraffic} : \A p \in Page : Fits(p, l) /\ l.watch # "subject"
  BY DEF Fits, Loader, Detail, OnMount, UpdatesBrowser, ContractsBrowser,
     TokenTransfersBrowser, TokensList, TokenHolders, NamespaceParties, TrafficPurchases,
     PackageSections, NodeSections, SearchResults, ActivityHistory, TemplateDetail, ModuleDetail,
     UpdateDetail, ContractDetail, TokenTransferDetail, PackageFamily, CantonCoin, NodeStatus,
     NodeTraffic

LEMMA SectionFacts ==
  ASSUME NEW p \in Page
  PROVE  /\ DOMAIN Sections[p] \subseteq Section
         /\ Sections[p] = <<>> \/ 1 \in DOMAIN Sections[p]
         /\ \A s \in DOMAIN Sections[p] :
              /\ Fits(p, Sections[p][s])
              /\ Sections[p][s].watch = "subject" =>
                   \A t \in DOMAIN Sections[p] : Sections[p][t].list = "none"
<1>1. Page = {"party", "tokens", "token", "namespace", "traffic", "package", "node", "search",
              "activity", "template", "module", "update", "contract", "transfer", "family", "coin",
              "settings", "legacy"}
  BY DEF Page, Sections
<1>2. CASE p = "party"
  <2>1. Sections["party"] = <<UpdatesBrowser, ContractsBrowser>>
    BY DEF Sections
  <2> QED BY <1>2, <2>1, LoadersFit DEF Section
<1>3. CASE p \in {"tokens", "token"}
  <2>1. \E l, m \in {TokenTransfersBrowser, TokensList, TokenHolders} : Sections[p] = <<l, m>>
    <3>1. /\ Sections["tokens"] = <<TokensList, TokenTransfersBrowser>>
          /\ Sections["token"] = <<TokenHolders, TokenTransfersBrowser>>
      BY DEF Sections
    <3> QED BY <1>3, <3>1
  <2> QED BY <1>3, <2>1, LoadersFit DEF Section
<1>4. CASE p \in {"namespace", "traffic"}
  <2>1. \E l \in {NamespaceParties, TrafficPurchases} : Sections[p] = <<l>>
    <3>1. /\ Sections["namespace"] = <<NamespaceParties>>
          /\ Sections["traffic"] = <<TrafficPurchases>>
      BY DEF Sections
    <3> QED BY <1>4, <3>1
  <2> QED BY <2>1, LoadersFit DEF Section
<1>5. CASE p = "settings"
  <2>1. Sections["settings"] = <<NodeStatus, NodeTraffic>>
    BY DEF Sections
  <2> QED BY <1>5, <2>1, LoadersFit DEF Section
<1>6. CASE p = "legacy"
  <2>1. Sections["legacy"] = <<>>
    BY DEF Sections
  <2> QED BY <1>6, <2>1
<1>7. CASE p \notin {"party", "tokens", "token", "namespace", "traffic", "settings", "legacy"}
  <2>1. \E l \in {PackageSections, NodeSections, SearchResults, ActivityHistory, TemplateDetail,
                  ModuleDetail, UpdateDetail, ContractDetail, TokenTransferDetail, PackageFamily,
                  CantonCoin} : Sections[p] = <<l>>
    <3>1. /\ Sections["package"] = <<PackageSections>> /\ Sections["node"] = <<NodeSections>>
          /\ Sections["search"] = <<SearchResults>> /\ Sections["activity"] = <<ActivityHistory>>
          /\ Sections["template"] = <<TemplateDetail>> /\ Sections["module"] = <<ModuleDetail>>
          /\ Sections["update"] = <<UpdateDetail>> /\ Sections["contract"] = <<ContractDetail>>
          /\ Sections["transfer"] = <<TokenTransferDetail>> /\ Sections["coin"] = <<CantonCoin>>
          /\ Sections["family"] = <<PackageFamily>>
      BY DEF Sections
    <3> QED BY <1>1, <1>7, <3>1
  <2> QED BY <2>1, LoadersFit DEF Section
<1> QED BY <1>2, <1>3, <1>4, <1>5, <1>6, <1>7
-----------------------------------------------------------------------------
(* What happens to one section *)

LEMMA FreeTyped == Free \in ARun /\ Free.state = "free"
  BY DEF Free, ARun

LEMMA NoDataTyped == NoData \in AnAddress \cup {NoData}
  OBVIOUS

LEMMA EmptyTyped ==
  /\ Empty \in ASection /\ Empty.data = NoData /\ Empty.refreshing = FALSE
  /\ \A r \in Slot : Empty.runs[r].state = "free"
  BY FreeTyped DEF Empty, ASection

\* The current run of x, if there is one, asks for a.
AsksFor(x, a) == \A r \in Slot : x.runs[r].state = "current" => x.runs[r].asked = a

LEMMA SupersededDoes ==
  ASSUME NEW x \in ASection
  PROVE  /\ Superseded(x) \in ASection
         /\ \A r \in Slot : Superseded(x).runs[r].state # "current"
         /\ Superseded(x).data = x.data /\ Superseded(x).refreshing = x.refreshing
<1> DEFINE f == [r \in Slot |-> IF x.runs[r].state = "current"
                                THEN [x.runs[r] EXCEPT !.state = "stale", !.attempt = 1]
                                ELSE x.runs[r]]
<1>1. Superseded(x) = [x EXCEPT !.runs = f]
  BY DEF Superseded
<1>2. ASSUME NEW r \in Slot PROVE f[r] \in ARun /\ f[r].state # "current"
  BY DEF ASection, ARun
<1>3. f \in [Slot -> ARun]
  BY <1>2
<1> HIDE DEF f
<1> QED BY <1>1, <1>2, <1>3 DEF ASection

LEMMA RunningDoes ==
  ASSUME NEW x \in ASection, NEW a \in AnAddress
  PROVE  /\ Running(x, a) \in ASection
         /\ Running(x, a).loading
         /\ Running(x, a).data = x.data /\ Running(x, a).refreshing = x.refreshing
         /\ (\A r \in Slot : x.runs[r].state # "current") => AsksFor(Running(x, a), a)
<1> DEFINE q == [state |-> "current", attempt |-> 1, asked |-> a]
           r0 == CHOOSE r \in Slot : x.runs[r].state = "free"
           f == [x.runs EXCEPT ![r0] = q]
<1>1. q \in ARun /\ q.asked = a
  BY DEF ARun
<1>2. Running(x, a) = [x EXCEPT !.loading = TRUE, !.error = FALSE, !.runs = f]
  BY DEF Running, ASection
<1>3. f \in [Slot -> ARun] /\ \A r \in Slot : f[r] = IF r = r0 THEN q ELSE x.runs[r]
  BY <1>1 DEF ASection
<1> HIDE DEF f, q, r0
<1>4. (\A r \in Slot : x.runs[r].state # "current") =>
        AsksFor([x EXCEPT !.loading = TRUE, !.error = FALSE, !.runs = f], a)
  BY <1>1, <1>3 DEF AsksFor, ASection
<1> QED BY <1>2, <1>3, <1>4 DEF ASection

LEMMA LoadDoes ==
  ASSUME NEW x \in ASection, NEW a \in AnAddress
  PROVE  /\ Load(x, a) \in ASection
         /\ Load(x, a).loading /\ AsksFor(Load(x, a), a)
         /\ Load(x, a).data = x.data /\ Load(x, a).refreshing = x.refreshing
  BY SupersededDoes, RunningDoes DEF Load

LEMMA ResetDoes ==
  ASSUME NEW x \in ASection
  PROVE  Reset(x) \in ASection /\ Reset(x).data = NoData /\ Reset(x).refreshing = FALSE
<1> DEFINE y == Superseded(x)
<1>1. y \in ASection
  BY SupersededDoes
<1>2. Reset(x) = [y EXCEPT !.data = NoData, !.refreshing = FALSE, !.error = FALSE, !.loading = FALSE]
  BY DEF Reset
<1> HIDE DEF y
<1> QED BY <1>1, <1>2 DEF ASection

\* Without a generation the section keeps its type; nothing more is said of it.
LEMMA LoadUnguardedTyped ==
  ASSUME NEW x \in ASection, NEW keeps \in BOOLEAN, NEW a \in AnAddress
  PROVE  LoadUnguarded(x, keeps, a) \in ASection
<1>1. [x EXCEPT !.data = NoData] \in ASection
  BY DEF ASection
<1> QED BY <1>1, RunningDoes DEF LoadUnguarded

\* A run ends, is shown, or goes on.
LEMMA EndedDoes ==
  ASSUME NEW x \in ASection, NEW r \in Slot
  PROVE  /\ Ended(x, r) \in ASection /\ ~Ended(x, r).loading
         /\ Ended(x, r).data = x.data /\ Ended(x, r).error = x.error
         /\ Ended(x, r).refreshing = x.refreshing
         /\ \A q \in Slot : Ended(x, r).runs[q] = IF q = r THEN Free ELSE x.runs[q]
  BY FreeTyped DEF Ended, ASection

LEMMA ShowsDoes ==
  ASSUME NEW x \in ASection, NEW r \in Slot
  PROVE  /\ Shows(x, r) \in ASection /\ ~Shows(x, r).loading
         /\ Shows(x, r).data = x.runs[r].asked /\ Shows(x, r).error = x.error
         /\ Shows(x, r).refreshing = x.refreshing
         /\ \A q \in Slot : Shows(x, r).runs[q] = IF q = r THEN Free ELSE x.runs[q]
<1>1. x.runs[r].asked \in AnAddress \cup {NoData}
  BY DEF ASection, ARun
<1> QED BY <1>1, EndedDoes DEF Shows, ASection

LEMMA DroppedDoes ==
  ASSUME NEW x \in ASection, NEW r \in Slot
  PROVE  LET y == [x EXCEPT !.runs[r] = Free]
         IN /\ y \in ASection /\ y.loading = x.loading /\ y.data = x.data /\ y.error = x.error
            /\ y.refreshing = x.refreshing
            /\ \A q \in Slot : y.runs[q] = IF q = r THEN Free ELSE x.runs[q]
  BY FreeTyped DEF ASection
-----------------------------------------------------------------------------
(* The address and what reloads with it *)

LEMMA NoCursorTyped == NoCursor \in ACursor
  BY DEF NoCursor, ACursor

LEMMA DefaultTyped == Default \in Filter
  BY FilterAssumption DEF Default

LEMMA FiltersTyped == ASSUME NEW p, NEW s, NEW f \in Filters(p, s) PROVE f \in Filter
  BY DefaultTyped DEF Filters

\* A cursor of a list is of the list as it is filtered, or as it is by default.
LEMMA CursorsTyped ==
  ASSUME NEW sub \in Subject, NEW f \in Filter
  PROVE  /\ Cursors(sub, f) \subseteq ACursor
         /\ NoCursor \in Cursors(sub, f)
         /\ CursorOf(sub, f) \in Cursors(sub, f)
         /\ \A known \in BOOLEAN : CursorOf(sub, InEffect(f, known)) \in Cursors(sub, f)
<1>1. InEffect(f, TRUE) = f /\ \A known \in BOOLEAN : InEffect(f, known) \in Filter
  BY DefaultTyped DEF InEffect
<1>2. \A known \in BOOLEAN : CursorOf(sub, InEffect(f, known)) \in ACursor
  BY <1>1 DEF CursorOf, ACursor
<1>3. CursorOf(sub, f) = CursorOf(sub, InEffect(f, TRUE))
  BY <1>1
<1> QED BY <1>2, <1>3, NoCursorTyped DEF Cursors

LEMMA NoQueryTyped ==
  NoQuery \in [Section -> AListQuery] /\ \A s \in Section : NoQuery[s].cursor = NoCursor
  BY NoCursorTyped, DefaultTyped DEF NoQuery, First, AListQuery

LEMMA AskTyped ==
  ASSUME NEW s \in Section
  PROVE  (AddressOK => Ask(s) \in AnAddress) /\ (AddressOK' => Ask(s)' \in AnAddress)
  BY DEF AddressOK, Ask, AnAddress

\* What a guarded section of page p is like.
LEMMA GuardedFacts ==
  ASSUME page \in Page, NEW s \in Section, IsGuarded(s)
  PROVE  /\ s \in DOMAIN Sections[page]
         /\ Is(s, "watch", "subject") \/ Is(s, "watch", "own") \/ Is(s, "watch", "any")
         /\ Is(s, "watch", "any") => page # "party"
         /\ Is(s, "watch", "subject") => \A t \in Section : ~IsList(t)
         /\ ~Is(s, "watch", "mount") /\ page # "settings"
<1>1. s \in DOMAIN Sections[page] /\ Sections[page][s].guarded = TRUE /\ Sections[page][s].watch # "poll"
  BY DEF IsGuarded, Is, Has
<1>2. Fits(page, Sections[page][s])
  BY <1>1, SectionFacts
<1>3. Sections[page][s].watch = "subject" => \A t \in Section : ~IsList(t)
  BY <1>1, SectionFacts DEF IsList, Is, Has
<1>4. page # "settings"
  <2>1. SUFFICES ASSUME page = "settings" PROVE FALSE
    OBVIOUS
  <2>2. Sections[page] = <<NodeStatus, NodeTraffic>>
    BY <2>1 DEF Sections
  <2> QED BY <1>1, <2>2 DEF NodeStatus, NodeTraffic, Loader, Section
<1> QED BY <1>1, <1>2, <1>3, <1>4 DEF Is, Has, Fits

LEMMA TokensFacts ==
  ASSUME page = "tokens"
  PROVE  1 \in DOMAIN Sections[page] /\ IsGuarded(1) /\ ~Is(1, "keeps", TRUE) /\ IsList(1)
<1>1. Sections[page] = <<TokensList, TokenTransfersBrowser>>
  BY DEF Sections
<1> QED BY <1>1 DEF IsGuarded, IsList, Is, Has, TokensList, TokenTransfersBrowser, Loader

LEMMA SamePage ==
  ASSUME page' = page, NEW s
  PROVE  /\ IsGuarded(s)' = IsGuarded(s) /\ IsList(s)' = IsList(s)
         /\ Is(s, "keeps", TRUE)' = Is(s, "keeps", TRUE)
  BY DEF IsGuarded, IsList, Is, Has

\* A section that is loaded anew is loading for the address, and shows nothing that is not of it.
LEMMA ReloadsDoes ==
  ASSUME PagesOK, AddressOK', NEW s \in Section
  PROVE  /\ Reloads(s) \in ASection
         /\ IsGuarded(s) =>
              /\ Reloads(s).loading /\ AsksFor(Reloads(s), Ask(s)')
              /\ \/ Reloads(s).data = NoData
                 \/ /\ Is(s, "keeps", TRUE) /\ subject' = subject
                    /\ Reloads(s).data = section[s].data
              /\ ~Is(s, "keeps", TRUE) => ~Reloads(s).refreshing
<1> DEFINE x == section[s]
           a == Ask(s)'
<1>1. x \in ASection /\ a \in AnAddress
  BY AskTyped DEF PagesOK
<1>2. Is(s, "keeps", TRUE) \in BOOLEAN
  BY DEF Is
<1> HIDE DEF x, a
<1>3. Reloads(s) = IF ~IsGuarded(s) THEN LoadUnguarded(x, Is(s, "keeps", TRUE), a)
                   ELSE IF Is(s, "keeps", TRUE) /\ subject' = subject THEN Load(x, a)
                   ELSE Load(Reset(x), a)
  BY DEF Reloads, x, a
<1>4. CASE ~IsGuarded(s)
  BY <1>1, <1>2, <1>3, <1>4, LoadUnguardedTyped
<1>5. CASE IsGuarded(s) /\ Is(s, "keeps", TRUE) /\ subject' = subject
  <2>1. Reloads(s) = Load(x, a)
    BY <1>3, <1>5
  <2>2. /\ Load(x, a) \in ASection /\ Load(x, a).loading /\ AsksFor(Load(x, a), a)
        /\ Load(x, a).data = x.data
    BY <1>1, LoadDoes
  <2>3. x.data = section[s].data /\ a = Ask(s)'
    BY DEF x, a
  <2> QED BY <1>5, <2>1, <2>2, <2>3
<1>6. CASE IsGuarded(s) /\ ~(Is(s, "keeps", TRUE) /\ subject' = subject)
  <2>1. Reset(x) \in ASection /\ Reset(x).data = NoData /\ Reset(x).refreshing = FALSE
    BY <1>1, ResetDoes
  <2>2. Reloads(s) = Load(Reset(x), a)
    BY <1>3, <1>6
  <2>3. /\ Load(Reset(x), a) \in ASection /\ Load(Reset(x), a).loading
        /\ AsksFor(Load(Reset(x), a), a) /\ Load(Reset(x), a).data = NoData
        /\ Load(Reset(x), a).refreshing = FALSE
    BY <1>1, <2>1, LoadDoes
  <2>4. a = Ask(s)'
    BY DEF a
  <2> QED BY <2>2, <2>3, <2>4
<1> QED BY <1>4, <1>5, <1>6

\* What is guarded and does not reload asks what it asked before.
LEMMA UnwatchedAsksTheSame ==
  ASSUME PagesOK, AddressInv, AddressOK', AddressInv', page' = page,
         NEW s \in Section, IsGuarded(s), ~Watched(s)
  PROVE  Ask(s)' = Ask(s) /\ subject' = subject
<1>1. subject' = subject
  BY GuardedFacts DEF PagesOK, AddressOK, Watched
<1>2. CASE Is(s, "watch", "own")
  BY <1>1, <1>2 DEF Watched, Ask
<1>3. CASE Is(s, "watch", "any")
  <2>1. query' = query
    BY <1>3 DEF Watched
  <2>2. options = FALSE /\ options' = FALSE
    BY <1>3, GuardedFacts DEF PagesOK, AddressOK, AddressInv
  <2> QED BY <1>1, <2>1, <2>2 DEF Ask
<1>4. CASE Is(s, "watch", "subject")
  <2>1. \A t \in Section : ~IsList(t) /\ ~IsList(t)'
    BY <1>4, GuardedFacts, SamePage DEF PagesOK, AddressOK
  <2>2. query = NoQuery /\ query' = NoQuery
    BY <2>1 DEF AddressInv
  <2>3. page # "party"
    <3>1. page = "party" => Sections[page] = <<UpdatesBrowser, ContractsBrowser>>
      BY DEF Sections
    <3> QED BY <1>4, <3>1 DEF Is, Has, Section, UpdatesBrowser, ContractsBrowser, Loader
  <2>4. options = FALSE /\ options' = FALSE
    BY <2>3 DEF PagesOK, AddressOK, AddressInv
  <2> QED BY <1>1, <2>2, <2>4 DEF Ask, NoQuery
<1> QED BY <1>2, <1>3, <1>4, GuardedFacts DEF PagesOK, AddressOK

\* The sections after a change of the address agree with it.
LEMMA FollowKeeps ==
  ASSUME PagesOK, PagesInv, AddressOK', AddressInv', page' = page, FollowAddress
  PROVE  /\ section' \in [Section -> ASection]
         /\ timer' \in BOOLEAN /\ scheduled' \in BOOLEAN /\ reloaded' \in BOOLEAN
         /\ SectionInv' /\ EnrichmentInv'
<1> DEFINE Changed == {s \in DOMAIN Sections[page] : Watched(s)}
<1>0. page \in Page
  BY DEF PagesOK, AddressOK
<1>1. /\ section' = [s \in Section |-> IF s \in Changed THEN Reloads(s) ELSE section[s]]
      /\ IF page = "tokens" /\ 1 \in Changed THEN ClearEnrichment ELSE UNCHANGED enrichment
  BY DEF FollowAddress
<1>2. section' \in [Section -> ASection]
  BY <1>1, ReloadsDoes DEF PagesOK
<1>3. timer' \in BOOLEAN /\ scheduled' \in BOOLEAN /\ reloaded' \in BOOLEAN
  BY <1>1 DEF PagesOK, ClearEnrichment, enrichment
<1>4. ASSUME NEW s \in Section, IsGuarded(s)
      PROVE  /\ \/ section'[s].data = NoData \/ section'[s].data = Ask(s)'
                \/ Is(s, "keeps", TRUE) /\ section'[s].data.subject = subject'
             /\ AsksFor(section'[s], Ask(s)')
             /\ ~section'[s].loading => section'[s].error \/ section'[s].data = Ask(s)'
  <2>1. CASE s \in Changed
    <3>1. section'[s] = Reloads(s)
      BY <1>1, <2>1
    <3>2. \/ section[s].data = NoData \/ section[s].data = Ask(s)
          \/ Is(s, "keeps", TRUE) /\ section[s].data.subject = subject
      BY <1>4 DEF PagesInv, SectionInv, DataInv
    <3>3. section[s].data = Ask(s) => section[s].data.subject = subject
      BY DEF Ask
    <3> QED BY <1>4, <3>1, <3>2, <3>3, ReloadsDoes
  <2>2. CASE s \notin Changed
    <3>1. section'[s] = section[s]
      BY <1>1, <2>2
    <3>2. ~Watched(s)
      BY <1>0, <1>4, <2>2, GuardedFacts
    <3>3. Ask(s)' = Ask(s) /\ subject' = subject
      BY <1>4, <3>2, UnwatchedAsksTheSame DEF PagesInv
    <3> QED BY <1>4, <3>1, <3>3
            DEF PagesInv, SectionInv, DataInv, AskedInv, AsksFor, SettledSectionAnswersTheAddress
  <2> QED BY <2>1, <2>2
<1>5. SectionInv'
  BY <1>4, SamePage DEF SectionInv, DataInv, AskedInv, AsksFor, SettledSectionAnswersTheAddress
<1>6. EnrichmentInv'
  <2>1. CASE page = "tokens" /\ 1 \in Changed
    <3>1. ~timer' /\ ~scheduled' /\ ~reloaded'
      BY <1>1, <2>1 DEF ClearEnrichment
    <3>2. ~section'[1].refreshing
      BY <1>1, <2>1, TokensFacts, ReloadsDoes DEF Section
    <3> QED BY <3>1, <3>2 DEF EnrichmentInv
  <2>2. CASE ~(page = "tokens" /\ 1 \in Changed)
    <3>1. UNCHANGED enrichment
      BY <1>1, <2>2
    <3>2. page = "tokens" => section'[1] = section[1]
      BY <1>1, <2>2 DEF Section
    <3> QED BY <3>1, <3>2 DEF EnrichmentInv, PagesInv, enrichment
  <2> QED BY <2>1, <2>2
<1> QED BY <1>2, <1>3, <1>5, <1>6
-----------------------------------------------------------------------------
(* Another page *)

\* A page that is mounted asks for what its address names.
LEMMA MountKeeps ==
  ASSUME NEW p \in Page, NEW sub \in Subject, Mount(p, sub, NoQuery)
  PROVE  /\ AddressOK' /\ section' \in [Section -> ASection]
         /\ timer' \in BOOLEAN /\ scheduled' \in BOOLEAN /\ reloaded' \in BOOLEAN
         /\ AddressInv' /\ SectionInv' /\ EnrichmentInv'
<1>1. /\ page' = p /\ subject' = sub /\ query' = NoQuery /\ options' = FALSE
      /\ section' = Mounted(p) /\ timer' = FALSE /\ scheduled' = FALSE /\ reloaded' = FALSE
  BY DEF Mount, ClearEnrichment
<1>2. AddressOK' /\ AddressInv'
  BY <1>1, NoQueryTyped DEF AddressOK, AddressInv, CursorIsOfTheList, Cursors
<1>3. ASSUME NEW s \in Section
      PROVE  /\ section'[s] \in ASection
             /\ section'[s].data = NoData /\ ~section'[s].refreshing
             /\ IsGuarded(s)' => section'[s].loading /\ AsksFor(section'[s], Ask(s)')
  <2> DEFINE a == Ask(s)'
  <2>1. a \in AnAddress
    BY <1>2, AskTyped
  <2>2. section'[s] = IF s \in DOMAIN Sections[p] /\ ~(p = "settings" /\ s = 2)
                      THEN Load(Empty, a) ELSE Empty
    BY <1>1 DEF Mounted
  <2>3. IsGuarded(s)' => s \in DOMAIN Sections[p] /\ ~(p = "settings" /\ s = 2)
    <3>1. Sections["settings"] = <<NodeStatus, NodeTraffic>>
      BY DEF Sections
    <3> QED BY <1>1, <3>1 DEF IsGuarded, Is, Has, NodeTraffic, Loader
  <2>4. a = Ask(s)'
    OBVIOUS
  <2> HIDE DEF a
  <2>5. /\ Load(Empty, a) \in ASection /\ Load(Empty, a).loading /\ AsksFor(Load(Empty, a), a)
        /\ Load(Empty, a).data = NoData /\ ~Load(Empty, a).refreshing
    BY <2>1, LoadDoes, EmptyTyped
  <2> QED BY <2>2, <2>3, <2>4, <2>5, EmptyTyped
<1>4. section' \in [Section -> ASection]
  BY <1>1, <1>3 DEF Mounted
<1>5. SectionInv'
  BY <1>3 DEF SectionInv, DataInv, AskedInv, AsksFor, SettledSectionAnswersTheAddress
<1>6. EnrichmentInv'
  BY <1>1, <1>3 DEF EnrichmentInv, Section
<1> QED BY <1>1, <1>2, <1>4, <1>5, <1>6

LEMMA SubjectsTyped == ASSUME NEW p, Subject # {} PROVE Subjects(p) \subseteq Subject
  BY DEF Subjects

ResolvingOK == resolving \in [Slot -> [state : {"free", "current", "stale"},
                                       subject : Subject \cup {"none"}]]

LEMMA LeftDoes ==
  ASSUME PagesOK
  PROVE  /\ Left \in [Slot -> [state : {"free", "current", "stale"},
                               subject : Subject \cup {"none"}]]
         /\ \A r \in Slot : /\ Left[r].state # "current"
                            /\ Left[r].state = "free" <=> resolving[r].state = "free"
<1>1. ASSUME NEW r \in Slot
      PROVE  /\ Left[r] \in [state : {"free", "current", "stale"}, subject : Subject \cup {"none"}]
             /\ Left[r].state # "current"
             /\ Left[r].state = "free" <=> resolving[r].state = "free"
  <2>1. resolving[r] \in [state : {"free", "current", "stale"}, subject : Subject \cup {"none"}]
    BY DEF PagesOK
  <2> QED BY <2>1 DEF Left
<1> QED BY <1>1 DEF Left

\* The legacy page has asked for its subject, and nobody is waited for on behalf of another page.
LEMMA ResolveDoes ==
  ASSUME PagesOK, NEW sub \in Subject, Resolve(sub, Left), page' = "legacy", subject' = sub
  PROVE  /\ ResolvingOK' /\ ResolvingInv'
         /\ \A r \in Slot : resolving[r].state # "free" => resolving'[r].state # "free"
<1>1. PICK r0 \in Slot : /\ Left[r0].state = "free"
                         /\ resolving' = [Left EXCEPT ![r0] = [state |-> "current", subject |-> sub]]
  BY DEF Resolve
<1>2. \A r \in Slot : resolving'[r] = IF r = r0 THEN [state |-> "current", subject |-> sub] ELSE Left[r]
  BY <1>1, LeftDoes
<1>3. ResolvingOK'
  BY <1>1, LeftDoes DEF ResolvingOK
<1> QED BY <1>1, <1>2, <1>3, LeftDoes DEF ResolvingInv

LEMMA LeavesDoes ==
  ASSUME PagesOK, resolving' = Left
  PROVE  /\ ResolvingOK' /\ ResolvingInv'
         /\ \A r \in Slot : resolving[r].state # "free" => resolving'[r].state # "free"
  BY LeftDoes DEF ResolvingOK, ResolvingInv

LEMMA OpenKeeps ==
  ASSUME PagesOK, PagesInv, NEW p \in Page, NEW sub \in Subjects(p), Open(p, sub)
  PROVE  PagesOK' /\ PagesInv'
<1>1. sub \in Subject
  BY SubjectsTyped DEF PagesOK, AddressOK
<1>2. Mount(p, sub, NoQuery)
  BY DEF Open
<1>3. ResolvingOK' /\ ResolvingInv'
  BY <1>1, <1>2, ResolveDoes, LeavesDoes DEF Open, Mount
<1> QED BY <1>1, <1>2, <1>3, MountKeeps DEF PagesOK, PagesInv, ResolvingOK

LEMMA RedirectedKeeps ==
  ASSUME PagesOK, PagesInv, NEW p \in {"update", "search"}, NEW r \in Slot,
         resolving[r].state = "current", Redirected(p, r)
  PROVE  PagesOK' /\ PagesInv'
<1>1. p \in Page /\ resolving[r].subject \in Subject
  BY DEF PagesInv, ResolvingInv, PagesOK, AddressOK, Page, Sections
<1>2. resolving' = [Left EXCEPT ![r] = NotResolving]
  BY DEF Redirected
<1>3. ResolvingOK' /\ ResolvingInv'
  BY <1>2, LeftDoes DEF ResolvingOK, ResolvingInv, NotResolving
<1> QED BY <1>1, <1>3, MountKeeps DEF Redirected, PagesOK, PagesInv, ResolvingOK
-----------------------------------------------------------------------------
(* The address changes under the page *)

LEMMA QueriesTyped ==
  ASSUME NEW p \in Page, NEW sub \in Subject, NEW q \in Queries(p, sub)
  PROVE  /\ q \in [Section -> AListQuery]
         /\ \A s \in Section : q[s].cursor \in Cursors(sub, q[s].filter)
         /\ (Sections[p] = <<>> \/ Sections[p][1].list # "routed") => q = NoQuery
<1>1. ASSUME NEW s \in Section, NEW b \in Bookmarked(p, s, sub)
      PROVE  b \in AListQuery /\ b.cursor \in Cursors(sub, b.filter)
  <2>1. PICK f \in Filters(p, s) : b \in [filter : {f}, cursor : Cursors(sub, f)]
    BY DEF Bookmarked
  <2> QED BY <2>1, FiltersTyped, CursorsTyped DEF AListQuery
<1>2. CASE Sections[p] = <<>> \/ Sections[p][1].list # "routed"
  BY <1>2, NoQueryTyped DEF Queries, Cursors
<1>3. CASE ~(Sections[p] = <<>> \/ Sections[p][1].list # "routed")
  <2>1. PICK a \in Bookmarked(p, 1, sub), b \in Bookmarked(p, 2, sub) : q = <<a, b>>
    BY <1>3 DEF Queries
  <2> QED BY <1>1, <1>3, <2>1 DEF Section
<1> QED BY <1>2, <1>3

\* Without a list there is nothing but the first page of everything.
LEMMA UnlistedFacts ==
  ASSUME page \in Page, \A s \in Section : ~IsList(s)
  PROVE  Sections[page] = <<>> \/ Sections[page][1].list # "routed"
<1>1. Sections[page] = <<>> \/ 1 \in DOMAIN Sections[page]
  BY SectionFacts
<1> QED BY <1>1 DEF IsList, Is, Has, Section

LEMMA NavigateKeeps ==
  ASSUME PagesOK, PagesInv, NEW sub \in Subjects(page), NEW q \in Queries(page, sub),
         Navigate(sub, q)
  PROVE  PagesOK' /\ PagesInv'
<1>1. sub \in Subject /\ page \in Page
  BY SubjectsTyped DEF PagesOK, AddressOK
<1>2. /\ page' = page /\ subject' = sub /\ options' = (options /\ sub = subject)
      /\ query' \in {q, NoQuery} /\ FollowAddress
  BY DEF Navigate
<1>3. AddressOK'
  BY <1>1, <1>2, QueriesTyped, NoQueryTyped DEF PagesOK, AddressOK
<1>4. AddressInv'
  <2>1. (\A s \in Section : ~IsList(s)') => query' = NoQuery
    BY <1>1, <1>2, QueriesTyped, UnlistedFacts, SamePage
  <2>2. CursorIsOfTheList'
    BY <1>1, <1>2, QueriesTyped, NoQueryTyped DEF CursorIsOfTheList, Cursors
  <2> QED BY <1>2, <2>1, <2>2 DEF AddressInv, PagesInv
<1>5. ResolvingOK' /\ ResolvingInv'
  <2>1. CASE page = "legacy"
    BY <1>1, <1>2, <2>1, ResolveDoes DEF Navigate
  <2>2. CASE page # "legacy"
    BY <1>2, <2>2 DEF Navigate, PagesOK, PagesInv, ResolvingOK, ResolvingInv
  <2> QED BY <2>1, <2>2
<1> QED BY <1>2, <1>3, <1>4, <1>5, FollowKeeps DEF PagesOK, PagesInv, ResolvingOK

\* The query of one list changes, and nothing else of the address.
LEMMA QueryChanges ==
  ASSUME PagesOK, PagesInv, NEW s \in Section, IsList(s), NEW e \in AListQuery,
         e.cursor \in Cursors(subject, e.filter),
         query' = [query EXCEPT ![s] = e], Stay, FollowAddress
  PROVE  PagesOK' /\ PagesInv'
<1>1. UNCHANGED <<page, subject, options, resolving>>
  BY DEF Stay
<1>2. AddressOK'
  BY <1>1 DEF PagesOK, AddressOK
<1>3. AddressInv'
  <2>1. \A t \in Section : query'[t] = IF t = s THEN e ELSE query[t]
    BY DEF PagesOK, AddressOK
  <2>2. IsList(s)'
    BY <1>1, SamePage
  <2>3. CursorIsOfTheList'
    BY <1>1, <2>1 DEF PagesInv, AddressInv, CursorIsOfTheList
  <2> QED BY <1>1, <2>2, <2>3 DEF PagesInv, AddressInv
<1>4. ResolvingOK' /\ ResolvingInv'
  BY <1>1 DEF PagesOK, PagesInv, ResolvingOK, ResolvingInv
<1> QED BY <1>1, <1>2, <1>3, <1>4, FollowKeeps DEF PagesOK, PagesInv, ResolvingOK

LEMMA SetFilterKeeps ==
  ASSUME PagesOK, PagesInv, NEW s \in Section, NEW f \in Filters(page, s), SetFilter(s, f)
  PROVE  PagesOK' /\ PagesInv'
<1>1. f \in Filter
  BY FiltersTyped
<1>2. First(f) \in AListQuery /\ First(f).cursor \in Cursors(subject, First(f).filter)
  BY <1>1, NoCursorTyped DEF First, AListQuery, Cursors
<1> QED BY <1>2, QueryChanges DEF SetFilter

\* A page is turned from one of the subject and the query of the address, by the filters
\* that were in effect for it.
LEMMA TurnPageKeeps ==
  ASSUME PagesOK, PagesInv, NEW s \in Section, TurnPage(s)
  PROVE  PagesOK' /\ PagesInv'
<1> DEFINE e == [query[s] EXCEPT !.cursor = CursorShown(s)]
<1>1. IsList(s) /\ section[s].data # NoData /\ Stay /\ FollowAddress
  BY DEF TurnPage
<1>2. query[s] \in AListQuery
  BY DEF PagesOK, AddressOK
<1>3. query' = [query EXCEPT ![s] = e]
  BY <1>2 DEF TurnPage, PagesOK, AddressOK
<1>4. IsGuarded(s)
  <2>1. s \in DOMAIN Sections[page] /\ Sections[page][s].list \in {"routed", "local"}
    BY <1>1 DEF IsList, Is, Has
  <2>2. Sections[page][s].guarded /\ Sections[page][s].watch \in {"own", "any"}
    BY <2>1, SectionFacts DEF PagesOK, AddressOK, Fits
  <2>3. Sections[page][s].guarded = TRUE
    BY <2>1, <2>2, SectionFacts DEF PagesOK, AddressOK, Fits
  <2> QED BY <2>1, <2>2, <2>3 DEF IsGuarded, Is, Has
<1>5. \/ section[s].data = Ask(s)
      \/ Is(s, "keeps", TRUE) /\ section[s].data.subject = subject
  BY <1>1, <1>4 DEF PagesInv, SectionInv, DataInv
<1>6. CursorShown(s) \in Cursors(subject, query[s].filter)
  <2>0. Ask(s).subject = subject /\ Ask(s).query = query[s] /\ Ask(s).options = options
    BY DEF Ask
  <2>1. section[s].data.subject = subject
    BY <1>5, <2>0
  <2>2. ~Is(s, "keeps", TRUE) =>
          section[s].data.query = query[s] /\ section[s].data.options = options
    BY <1>5, <2>0
  <2>3. options \in BOOLEAN /\ subject \in Subject /\ query[s].filter \in Filter
    BY <1>2 DEF PagesOK, AddressOK, AListQuery
  <2> QED BY <2>1, <2>2, <2>3, CursorsTyped DEF CursorShown
<1>7. /\ e \in AListQuery
      /\ e.cursor \in Cursors(subject, e.filter)
  BY <1>2, <1>6, CursorsTyped DEF AListQuery, PagesOK, AddressOK
<1> HIDE DEF e
<1> QED BY <1>1, <1>3, <1>7, QueryChanges

LEMMA OptionsArriveKeeps ==
  ASSUME PagesOK, PagesInv, OptionsArrive
  PROVE  PagesOK' /\ PagesInv'
<1>1. /\ page = "party" /\ options' = TRUE /\ UNCHANGED <<page, subject, query, resolving>>
      /\ FollowAddress
  BY DEF OptionsArrive
<1>2. AddressOK'
  BY <1>1 DEF PagesOK, AddressOK
<1>3. AddressInv'
  BY <1>1, SamePage DEF PagesInv, AddressInv, CursorIsOfTheList
<1>4. ResolvingOK' /\ ResolvingInv'
  BY <1>1 DEF PagesOK, PagesInv, ResolvingOK, ResolvingInv
<1> QED BY <1>1, <1>2, <1>3, <1>4, FollowKeeps DEF PagesOK, PagesInv, ResolvingOK
-----------------------------------------------------------------------------
(* Answers and what they lead to, at one address *)

\* What a section may become without a change of the address.
Agrees(s, x) ==
  /\ x \in ASection
  /\ IsGuarded(s) => /\ x.data \in {section[s].data, Ask(s)}
                     /\ AsksFor(x, Ask(s))
                     /\ ~x.loading => x.error \/ x.data = Ask(s)

LEMMA SectionKeeps ==
  ASSUME PagesOK, PagesInv, UNCHANGED <<address, resolving>>,
         \A s \in Section : Agrees(s, section'[s]), section' \in [Section -> ASection],
         timer' \in BOOLEAN, scheduled' \in BOOLEAN, reloaded' \in BOOLEAN, EnrichmentInv'
  PROVE  PagesOK' /\ PagesInv'
<1>1. UNCHANGED <<page, subject, query, options, resolving>>
  BY DEF address
<1>2. PagesOK'
  BY <1>1 DEF PagesOK, AddressOK
<1>3. AddressInv' /\ ResolvingInv'
  BY <1>1, SamePage DEF PagesInv, AddressInv, CursorIsOfTheList, ResolvingInv
<1>4. \A s \in Section : Ask(s)' = Ask(s)
  BY <1>1 DEF Ask
<1>5. ASSUME NEW s \in Section, IsGuarded(s)
      PROVE  /\ \/ section'[s].data = NoData \/ section'[s].data = Ask(s)'
                \/ Is(s, "keeps", TRUE) /\ section'[s].data.subject = subject'
             /\ AsksFor(section'[s], Ask(s)')
             /\ ~section'[s].loading => section'[s].error \/ section'[s].data = Ask(s)'
  <2>1. \/ section[s].data = NoData \/ section[s].data = Ask(s)
        \/ Is(s, "keeps", TRUE) /\ section[s].data.subject = subject
    BY <1>5 DEF PagesInv, SectionInv, DataInv
  <2> QED BY <1>1, <1>4, <1>5, <2>1 DEF Agrees
<1>6. SectionInv'
  BY <1>1, <1>5, SamePage DEF SectionInv, DataInv, AskedInv, AsksFor, SettledSectionAnswersTheAddress
<1> QED BY <1>2, <1>3, <1>6 DEF PagesInv

LEMMA SectionAgrees ==
  ASSUME PagesOK, PagesInv, NEW s \in Section
  PROVE  /\ section[s] \in ASection /\ Agrees(s, section[s])
         /\ Ask(s) \in AnAddress
  BY AskTyped
  DEF PagesOK, PagesInv, SectionInv, AskedInv, AsksFor, SettledSectionAnswersTheAddress, Agrees

\* One section changes and the enrichment of the tokens does not.
LEMMA OneSectionKeeps ==
  ASSUME PagesOK, PagesInv, UNCHANGED <<address, enrichment, resolving>>,
         NEW s \in Section, NEW x, Agrees(s, x), x.refreshing = section[s].refreshing,
         section' = [section EXCEPT ![s] = x]
  PROVE  PagesOK' /\ PagesInv'
<1>1. \A t \in Section : section'[t] = IF t = s THEN x ELSE section[t]
  BY DEF PagesOK
<1>2. section' \in [Section -> ASection]
  BY DEF PagesOK, Agrees
<1>3. UNCHANGED <<page, timer, scheduled, reloaded>>
  BY DEF address, enrichment
<1>4. EnrichmentInv'
  BY <1>1, <1>3 DEF PagesInv, EnrichmentInv, Section
<1>5. \A t \in Section : Agrees(t, section'[t])
  BY <1>1, SectionAgrees
<1>6. timer' \in BOOLEAN /\ scheduled' \in BOOLEAN /\ reloaded' \in BOOLEAN
  BY <1>3 DEF PagesOK
<1>7. UNCHANGED <<address, resolving>>
  OBVIOUS
<1> QED BY <1>2, <1>4, <1>5, <1>6, <1>7, SectionKeeps

\* A load at the same address.
LEMMA LoadAgrees ==
  ASSUME PagesOK, PagesInv, NEW s \in Section
  PROVE  /\ Agrees(s, Load(section[s], Ask(s)))
         /\ Load(section[s], Ask(s)).refreshing = section[s].refreshing
  BY SectionAgrees, LoadDoes DEF Agrees

LEMMA AnsweredAgrees ==
  ASSUME PagesOK, PagesInv, NEW s \in Section, NEW r \in Slot, NEW x \in Answered(s, r)
  PROVE  /\ Agrees(s, x) /\ x.refreshing = section[s].refreshing
         /\ section[s].runs[r].state # "current" => x.data = section[s].data /\ x.loading = section[s].loading
<1>1. section[s] \in ASection /\ Agrees(s, section[s]) /\ Free.state = "free"
  BY SectionAgrees, FreeTyped
<1>2. CASE section[s].runs[r].state = "current"
  <2>1. x = Shows(section[s], r)
    BY <1>2 DEF Answered
  <2>2. IsGuarded(s) => section[s].runs[r].asked = Ask(s)
    BY <1>1, <1>2 DEF Agrees, AsksFor
  <2> QED BY <1>1, <1>2, <2>1, <2>2, ShowsDoes DEF Agrees, AsksFor
<1>3. CASE section[s].runs[r].state # "current"
  <2>1. section[s].runs[r].state = "stale" /\ x = [section[s] EXCEPT !.runs[r] = Free]
    BY <1>3 DEF Answered
  <2> QED BY <1>1, <1>3, <2>1, DroppedDoes DEF Agrees, AsksFor
<1> QED BY <1>2, <1>3

LEMMA FailedAgrees ==
  ASSUME PagesOK, PagesInv, NEW s \in Section, NEW r \in Slot, NEW x \in Failed(s, r)
  PROVE  Agrees(s, x) /\ x.refreshing = section[s].refreshing
<1> DEFINE y == section[s]
<1>1. y \in ASection /\ Agrees(s, y) /\ Ask(s) \in AnAddress /\ Free.state = "free"
  BY SectionAgrees, FreeTyped
<1>2. y.data = section[s].data /\ y.refreshing = section[s].refreshing
  OBVIOUS
<1>3. \/ x = [y EXCEPT !.runs[r] = Free]
      \/ y.runs[r].state = "current" /\ x = [y EXCEPT !.runs[r].attempt = 2, !.runs[r].asked = Ask(s)]
      \/ y.runs[r].state = "current" /\ x = [Ended(y, r) EXCEPT !.error = TRUE]
  BY DEF Failed
<1> HIDE DEF y
<1>4. CASE x = [y EXCEPT !.runs[r] = Free]
  BY <1>1, <1>2, <1>4, DroppedDoes DEF Agrees, AsksFor
<1>5. CASE /\ y.runs[r].state = "current"
           /\ x = [y EXCEPT !.runs[r].attempt = 2, !.runs[r].asked = Ask(s)]
  <2>1. y.runs[r] \in ARun
    BY <1>1 DEF ASection
  <2>2. [y.runs[r] EXCEPT !.attempt = 2, !.asked = Ask(s)] \in ARun
    BY <1>1, <2>1 DEF ARun
  <2>3. x = [y EXCEPT !.runs = [y.runs EXCEPT ![r] = [y.runs[r] EXCEPT !.attempt = 2, !.asked = Ask(s)]]]
    BY <1>1, <1>5 DEF ASection, ARun
  <2>4. /\ x \in ASection /\ x.data = y.data /\ x.refreshing = y.refreshing
        /\ x.loading = y.loading /\ x.error = y.error
    BY <1>1, <2>2, <2>3 DEF ASection
  <2>5. x.runs = [y.runs EXCEPT ![r] = [y.runs[r] EXCEPT !.attempt = 2, !.asked = Ask(s)]]
    BY <1>1, <2>3 DEF ASection
  <2>6. \A q \in Slot : x.runs[q] = IF q = r THEN [y.runs[r] EXCEPT !.attempt = 2, !.asked = Ask(s)]
                                    ELSE y.runs[q]
    BY <1>1, <2>5 DEF ASection
  <2>7. [y.runs[r] EXCEPT !.attempt = 2, !.asked = Ask(s)].asked = Ask(s)
    BY <2>1 DEF ARun
  <2> QED BY <1>1, <1>2, <2>4, <2>6, <2>7 DEF Agrees, AsksFor
<1>6. CASE x = [Ended(y, r) EXCEPT !.error = TRUE]
  <2> DEFINE z == Ended(y, r)
  <2>1. /\ z \in ASection /\ z.data = y.data /\ z.refreshing = y.refreshing
        /\ \A q \in Slot : z.runs[q] = IF q = r THEN Free ELSE y.runs[q]
    BY <1>1, EndedDoes
  <2>2. x = [z EXCEPT !.error = TRUE]
    BY <1>6
  <2> HIDE DEF z
  <2>3. /\ x \in ASection /\ x.data = z.data /\ x.refreshing = z.refreshing /\ x.runs = z.runs
        /\ x.error
    BY <2>1, <2>2 DEF ASection
  <2> QED BY <1>1, <1>2, <2>1, <2>3 DEF Agrees, AsksFor
<1> QED BY <1>3, <1>4, <1>5, <1>6
LEMMA AnswersKeep ==
  ASSUME PagesOK, PagesInv, NEW s \in Section, NEW r \in Slot,
         SectionAnswers(s, r) \/ SectionFails(s, r)
  PROVE  PagesOK' /\ PagesInv'
<1>1. PICK x \in Answered(s, r) \cup Failed(s, r) : section' = [section EXCEPT ![s] = x]
  BY DEF SectionAnswers, SectionFails
<1>2. UNCHANGED <<address, enrichment, resolving>>
  BY DEF SectionAnswers, SectionFails
<1>3. Agrees(s, x) /\ x.refreshing = section[s].refreshing
  BY AnsweredAgrees, FailedAgrees
<1> QED BY <1>1, <1>2, <1>3, OneSectionKeeps

LEMMA RetryKeeps ==
  ASSUME PagesOK, PagesInv, NEW s \in Section, Retry(s)
  PROVE  PagesOK' /\ PagesInv'
<1>1. section' = [section EXCEPT ![s] = Load(section[s], Ask(s))]
  BY DEF Retry
<1>2. UNCHANGED <<address, enrichment, resolving>>
  BY DEF Retry
<1> QED BY <1>1, <1>2, LoadAgrees, OneSectionKeeps

\* The list of tokens is there: it is asked for again if it says so, but once.
LEMMA TokensArriveKeeps ==
  ASSUME PagesOK, PagesInv, NEW r \in Slot, TokensArrive(r)
  PROVE  PagesOK' /\ PagesInv'
<1>1. page = "tokens" /\ UNCHANGED <<address, resolving>> /\ 1 \in Section
  BY DEF TokensArrive, Section
<1>2. PICK x \in Answered(1, r), b \in BOOLEAN :
        IF x.data # NoData /\ ~x.loading /\ section[1].runs[r].state = "current"
        THEN /\ section' = [section EXCEPT ![1] = [x EXCEPT !.refreshing = b]]
             /\ ScheduleEnrichment(b)
        ELSE section' = [section EXCEPT ![1] = x] /\ UNCHANGED enrichment
  BY DEF TokensArrive
<1>3. Agrees(1, x) /\ x.refreshing = section[1].refreshing
  BY <1>1, AnsweredAgrees
<1>4. CASE x.data # NoData /\ ~x.loading /\ section[1].runs[r].state = "current"
  <2> DEFINE z == [x EXCEPT !.refreshing = b]
  <2>1. /\ z \in ASection /\ z.refreshing = b /\ z.data = x.data /\ z.runs = x.runs
        /\ z.loading = x.loading /\ z.error = x.error
    BY <1>3 DEF Agrees, ASection
  <2>2. section' = [section EXCEPT ![1] = z] /\ ScheduleEnrichment(b)
    BY <1>2, <1>4
  <2> HIDE DEF z
  <2>3. Agrees(1, z)
    BY <1>3, <2>1 DEF Agrees, AsksFor
  <2>4. \A s \in Section : section'[s] = IF s = 1 THEN z ELSE section[s]
    BY <2>2 DEF PagesOK
  <2>5. section' \in [Section -> ASection]
    BY <2>1, <2>2 DEF PagesOK
  <2>6. \A s \in Section : Agrees(s, section'[s])
    BY <2>3, <2>4, SectionAgrees
  <2>7. /\ timer' = (timer \/ (b /\ ~scheduled)) /\ scheduled' = (scheduled \/ b)
        /\ reloaded' = reloaded
    BY <2>2 DEF ScheduleEnrichment
  <2>8. timer' \in BOOLEAN /\ scheduled' \in BOOLEAN /\ reloaded' \in BOOLEAN
    BY <2>7 DEF PagesOK
  <2>9. EnrichmentInv'
    <3>1. section'[1].refreshing = b
      BY <1>1, <2>1, <2>4
    <3> QED BY <2>7, <3>1 DEF PagesInv, EnrichmentInv, PagesOK
  <2> QED BY <1>1, <2>5, <2>6, <2>8, <2>9, SectionKeeps
<1>5. CASE ~(x.data # NoData /\ ~x.loading /\ section[1].runs[r].state = "current")
  <2>1. section' = [section EXCEPT ![1] = x] /\ UNCHANGED <<address, enrichment, resolving>>
    BY <1>1, <1>2, <1>5
  <2> QED BY <1>1, <1>3, <2>1, OneSectionKeeps
<1> QED BY <1>4, <1>5

LEMMA EnrichmentReloadKeeps ==
  ASSUME PagesOK, PagesInv, EnrichmentReload
  PROVE  PagesOK' /\ PagesInv'
<1> DEFINE x == Load(section[1], Ask(1))
<1>1. /\ page = "tokens" /\ timer /\ timer' = FALSE /\ reloaded' = TRUE
      /\ section' = [section EXCEPT ![1] = x]
      /\ UNCHANGED <<address, scheduled, resolving>> /\ 1 \in Section
  BY DEF EnrichmentReload, Section
<1>2. Agrees(1, x) /\ x.refreshing = section[1].refreshing
  BY <1>1, LoadAgrees
<1> HIDE DEF x
<1>3. \A s \in Section : section'[s] = IF s = 1 THEN x ELSE section[s]
  BY <1>1 DEF PagesOK
<1>4. section' \in [Section -> ASection]
  BY <1>1, <1>2 DEF PagesOK, Agrees
<1>5. \A s \in Section : Agrees(s, section'[s])
  BY <1>2, <1>3, SectionAgrees
<1>6. timer' \in BOOLEAN /\ scheduled' \in BOOLEAN /\ reloaded' \in BOOLEAN
  BY <1>1 DEF PagesOK
<1>7. EnrichmentInv'
  BY <1>1 DEF PagesInv, EnrichmentInv
<1>8. UNCHANGED <<address, resolving>>
  BY <1>1
<1> QED BY <1>4, <1>5, <1>6, <1>7, <1>8, SectionKeeps

\* Pages that count no generations, and the page that polls: their sections keep their types.
LEMMA UnguardedKeeps ==
  ASSUME PagesOK, PagesInv, NEW r \in Slot, UnguardedAnswers(r)
  PROVE  PagesOK' /\ PagesInv'
<1> DEFINE y == section[1]
<1>1. 1 \in Section /\ y \in ASection /\ ~IsGuarded(1) /\ UNCHANGED <<address, enrichment, resolving>>
  BY SectionAgrees DEF UnguardedAnswers, IsGuarded, Is, Section
<1>2. PICK x \in AnsweredUnguarded(1, r) : section' = [section EXCEPT ![1] = x]
  BY DEF UnguardedAnswers
<1>3. \/ x = Shows(y, r)
      \/ x = [Ended(y, r) EXCEPT !.error = TRUE,
                                 !.data = IF page = "search" THEN NoData ELSE Ended(y, r).data]
  BY <1>2 DEF AnsweredUnguarded
<1>4. y.refreshing = section[1].refreshing
  OBVIOUS
<1> HIDE DEF y
<1>5. x \in ASection /\ x.refreshing = y.refreshing
  <2>1. Shows(y, r) \in ASection /\ Shows(y, r).refreshing = y.refreshing
    BY <1>1, ShowsDoes
  <2> DEFINE z == Ended(y, r)
             d == IF page = "search" THEN NoData ELSE z.data
  <2>2. z \in ASection /\ z.refreshing = y.refreshing
    BY <1>1, EndedDoes
  <2>3. x = Shows(y, r) \/ x = [z EXCEPT !.error = TRUE, !.data = d]
    BY <1>3
  <2>4. d \in AnAddress \cup {NoData}
    BY <2>2 DEF ASection
  <2> HIDE DEF z, d
  <2> QED BY <2>1, <2>2, <2>3, <2>4 DEF ASection
<1>6. Agrees(1, x)
  BY <1>1, <1>5 DEF Agrees
<1> QED BY <1>1, <1>2, <1>4, <1>5, <1>6, OneSectionKeeps

LEMMA PollStatusKeeps ==
  ASSUME PagesOK, PagesInv, PollStatus
  PROVE  PagesOK' /\ PagesInv'
<1>1. /\ section' = [section EXCEPT ![1] = Load(section[1], Ask(1))] /\ 1 \in Section
      /\ UNCHANGED <<address, enrichment, resolving>>
  BY DEF PollStatus, Section
<1> QED BY <1>1, LoadAgrees, OneSectionKeeps

LEMMA StatusEndsKeeps ==
  ASSUME PagesOK, PagesInv, NEW r \in Slot, StatusEnds(r)
  PROVE  PagesOK' /\ PagesInv'
<1>1. page = "settings" /\ UNCHANGED <<address, enrichment, resolving>> /\ 1 \in Section /\ 2 \in Section
  BY DEF StatusEnds, Section
<1>2. PICK x \in Answered(1, r) \cup Failed(1, r) :
        \/ section' = [s \in Section |-> IF s = 1 THEN x ELSE Load(section[2], Ask(2))]
        \/ section' = [s \in Section |-> IF s = 1 THEN x ELSE section[2]]
  BY DEF StatusEnds
<1>3. Agrees(1, x) /\ Agrees(2, Load(section[2], Ask(2))) /\ Agrees(2, section[2])
  BY <1>1, AnsweredAgrees, FailedAgrees, LoadAgrees, SectionAgrees
<1>4. \A s \in Section : Agrees(s, section'[s])
  BY <1>2, <1>3 DEF Section
<1>5. section' \in [Section -> ASection]
  BY <1>2, <1>3 DEF Agrees
<1>6. UNCHANGED <<page, timer, scheduled, reloaded>>
  BY <1>1 DEF address, enrichment
<1>7. EnrichmentInv'
  BY <1>1, <1>6 DEF PagesInv, EnrichmentInv
<1>8. timer' \in BOOLEAN /\ scheduled' \in BOOLEAN /\ reloaded' \in BOOLEAN
  BY <1>6 DEF PagesOK
<1>9. UNCHANGED <<address, resolving>>
  BY <1>1
<1> QED BY <1>4, <1>5, <1>7, <1>8, <1>9, SectionKeeps

LEMMA ResolvedLateKeeps ==
  ASSUME PagesOK, PagesInv, NEW r \in Slot, ResolvedLate(r)
  PROVE  PagesOK' /\ PagesInv'
<1>1. /\ resolving' = [resolving EXCEPT ![r] = NotResolving]
      /\ UNCHANGED <<address, section, enrichment>>
  BY DEF ResolvedLate
<1>2. UNCHANGED <<page, subject, query, options, section, timer, scheduled, reloaded>>
  BY <1>1 DEF address, enrichment
<1>3. ResolvingOK' /\ ResolvingInv'
  BY <1>1, <1>2 DEF PagesOK, PagesInv, ResolvingOK, ResolvingInv, NotResolving
<1>4. PagesOK'
  BY <1>2, <1>3 DEF PagesOK, AddressOK, ResolvingOK
<1>5. AddressInv' /\ SectionInv' /\ EnrichmentInv'
  BY <1>2 DEF PagesInv, AddressInv, CursorIsOfTheList, SectionInv, DataInv, AskedInv,
              SettledSectionAnswersTheAddress, EnrichmentInv, IsGuarded, IsList, Is, Has, Ask
<1> QED BY <1>3, <1>4, <1>5 DEF PagesInv

-----------------------------------------------------------------------------
LEMMA InitKeeps == ASSUME Init PROVE PagesOK /\ PagesInv
<1> DEFINE a == Ask(1)
<1>1. /\ page = "search" /\ subject \in Subject /\ query = NoQuery /\ options = FALSE
      /\ section = [s \in Section |-> IF s = 1 THEN Load(Empty, a) ELSE Empty]
      /\ timer = FALSE /\ scheduled = FALSE /\ reloaded = FALSE
      /\ resolving = [r \in Slot |-> NotResolving]
  BY DEF Init
<1>2. page \in Page
  BY <1>1 DEF Page, Sections
<1>3. AddressOK
  BY <1>1, <1>2, NoQueryTyped DEF AddressOK
<1>4. a \in AnAddress
  BY <1>3, AskTyped DEF Section
<1> HIDE DEF a
<1>5. Load(Empty, a) \in ASection
  BY <1>4, EmptyTyped, LoadDoes
<1>6. PagesOK
  BY <1>1, <1>3, <1>5, EmptyTyped DEF PagesOK, NotResolving
<1>7. AddressInv
  BY <1>1, NoQueryTyped DEF AddressInv, CursorIsOfTheList, Cursors
<1>8. \A s \in Section : ~IsGuarded(s)
  <2>1. Sections[page] = <<SearchResults>>
    BY <1>1 DEF Sections
  <2> QED BY <2>1 DEF IsGuarded, Is, Has, SearchResults, Loader
<1>9. SectionInv
  BY <1>8 DEF SectionInv, DataInv, AskedInv, SettledSectionAnswersTheAddress
<1>10. EnrichmentInv /\ ResolvingInv
  BY <1>1 DEF EnrichmentInv, ResolvingInv, NotResolving
<1> QED BY <1>6, <1>7, <1>9, <1>10 DEF PagesInv

LEMMA NextKeeps ==
  ASSUME PagesOK, PagesInv, [Next]_vars PROVE PagesOK' /\ PagesInv'
<1>1. CASE User
  BY <1>1, OpenKeeps, NavigateKeeps, RetryKeeps, TurnPageKeeps, SetFilterKeeps DEF User
<1>2. ASSUME NEW r \in Slot, Resolved(r) \/ ResolveFails(r) PROVE PagesOK' /\ PagesInv'
  BY <1>2, RedirectedKeeps DEF Resolved, ResolveFails
<1>3. CASE Answer
  BY <1>2, <1>3, OptionsArriveKeeps, EnrichmentReloadKeeps, PollStatusKeeps, AnswersKeep,
     TokensArriveKeeps, UnguardedKeeps, StatusEndsKeeps, ResolvedLateKeeps DEF Answer
<1>4. CASE UNCHANGED vars
  <2>1. UNCHANGED <<address, enrichment, resolving>> /\ section' = section
    BY <1>4 DEF vars
  <2>2. UNCHANGED <<page, subject, query, options, timer, scheduled, reloaded>>
    BY <2>1 DEF address, enrichment
  <2> QED BY <2>1, <2>2
          DEF PagesOK, AddressOK, PagesInv, AddressInv, CursorIsOfTheList, SectionInv, DataInv,
              AskedInv, SettledSectionAnswersTheAddress, EnrichmentInv, ResolvingInv, IsGuarded,
              IsList, Is, Has, Ask
<1> QED BY <1>1, <1>3, <1>4 DEF Next

(* Every variable of the pages keeps its type, and what their properties rest on
   holds in every reachable state. *)
THEOREM PagesInvariant == Spec => [](PagesOK /\ PagesInv)
<1>1. Init => PagesOK /\ PagesInv
  BY InitKeeps
<1>2. PagesOK /\ PagesInv /\ [Next]_vars => (PagesOK /\ PagesInv)'
  BY NextKeeps
<1> QED BY <1>1, <1>2, PTL DEF Spec

(* A guarded section that is settled shows an error or the answer to the address the
   page stands at, in whatever order answers came in. *)
THEOREM SettledSections == Spec => []SettledSectionAnswersTheAddress
<1>1. PagesOK /\ PagesInv => SettledSectionAnswersTheAddress
  BY DEF PagesInv, SectionInv
<1> QED BY <1>1, PagesInvariant, PTL

(* A cursor is used for no other list, subject or filters than those it was given for, but
   for a filter by node that was not in effect when it was given. *)
THEOREM CursorsAreOfTheirList == Spec => []CursorIsOfTheList
<1>1. PagesOK /\ PagesInv => CursorIsOfTheList
  BY DEF PagesInv, AddressInv
<1> QED BY <1>1, PagesInvariant, PTL

(* A list of tokens that says it is being refreshed is asked for again, once. *)
THEOREM RefreshingListsAskedOnce == Spec => []RefreshingListIsAskedOnce
<1>1. PagesOK /\ PagesInv => RefreshingListIsAskedOnce
  BY DEF PagesOK, PagesInv, EnrichmentInv, RefreshingListIsAskedOnce
<1> QED BY <1>1, PagesInvariant, PTL
\* A step that leads elsewhere was asked for by the reader, or is the answer to the search
\* of the page that is open.
LEMMA MovesOn ==
  ASSUME PagesOK, PagesInv, Next, NEW r \in Slot, page' # page,
         resolving[r].state # "free", resolving'[r].state = "free"
  PROVE  page = "legacy" /\ subject' = subject
<1>1. ASSUME NEW p \in Page, NEW sub \in Subjects(p), Open(p, sub) PROVE FALSE
  <2>1. sub \in Subject
    BY SubjectsTyped DEF PagesOK, AddressOK
  <2>2. page' = p /\ subject' = sub
    BY <1>1 DEF Open, Mount
  <2> QED BY <1>1, <2>1, <2>2, ResolveDoes, LeavesDoes DEF Open
<1>2. ASSUME NEW q \in Slot, Resolved(q) \/ ResolveFails(q)
      PROVE  page = "legacy" /\ subject' = subject
  <2>1. resolving[q].state = "current" /\ subject' = resolving[q].subject
    BY <1>2 DEF Resolved, ResolveFails, Redirected, Mount
  <2> QED BY <2>1 DEF PagesInv, ResolvingInv
<1>3. (\A p \in Page : \A sub \in Subjects(p) : ~Open(p, sub)) /\ User => page' = page
  BY DEF User, Navigate, Retry, TurnPage, SetFilter, Stay, address
<1>4. (\A q \in Slot : ~Resolved(q) /\ ~ResolveFails(q)) /\ Answer => page' = page
  BY DEF Answer, OptionsArrive, EnrichmentReload, PollStatus, SectionAnswers, SectionFails,
         TokensArrive, UnguardedAnswers, StatusEnds, ResolvedLate, address
<1> QED BY <1>1, <1>2, <1>3, <1>4 DEF Next

(* An old link leads to the update it names, and only while its page is open: an answer
   after the reader has moved on moves nobody. *)
THEOREM RedirectsAsked == Spec => RedirectsWhereAsked
<1> DEFINE A == \A r \in Slot :
                  (resolving[r].state # "free" /\ resolving'[r].state = "free" /\ page' # page)
                    => page = "legacy" /\ subject' = subject
<1>1. PagesOK /\ PagesInv /\ [Next]_vars => [A]_vars
  BY MovesOn
<1>2. RedirectsWhereAsked <=> [][A]_vars
  BY DEF RedirectsWhereAsked
<1> HIDE DEF A
<1> QED BY <1>1, <1>2, PagesInvariant, PTL DEF Spec
-----------------------------------------------------------------------------
(* The page of parties (PartiesPage), for any nodes and keys. *)

Told == {"empty", "loading", "told", "failed"}

PartiesOK == /\ nodes \in {"loading", "again", "failed", "known"}
             /\ mode \in Parties!Mode
             /\ queried \subseteq Node /\ filter \subseteq Node /\ key \in Parties!Keys
             /\ parties \in [Parties!PartyMode -> [Node -> Told]]

\* A list of namespaces, asked for or shown, is of the nodes and the key chosen.
OfTheChoice(l) == l = Parties!NoList \/ (l.nodes = filter /\ l.key = key)

\* Until the nodes are known nothing is chosen and no page can be turned; outside of its
\* mode nothing is asked or shown of namespaces.
PartiesInv ==
  /\ nodes # "known" => filter = {} /\ {partyCursor, cursor} = {Parties!NoCursor}
  /\ (nodes # "known" \/ mode # "fingerprints") =>
       ~nsError /\ nsAsk = Parties!NoList /\ ns = Parties!NoList
  /\ OfTheChoice(nsAsk) /\ OfTheChoice(ns)
  /\ PartiesPageAgrees

LEMMA LoadedForDoes ==
  ASSUME NEW m \in Parties!PartyMode, NEW f
  PROVE  /\ Parties!LoadedFor(m, f) \in [Parties!PartyMode -> [Node -> Told]]
         /\ Parties!Cleared \in [Parties!PartyMode -> [Node -> Told]]
         /\ \A n \in Parties!NodesOf(m, f) \cap Node : Parties!LoadedFor(m, f)[m][n] = "loading"
<1>1. Parties!Cleared \in [Parties!PartyMode -> [Node -> Told]]
  BY DEF Parties!Cleared, Told
<1> DEFINE g == [n \in Node |-> IF n \in Parties!NodesOf(m, f) THEN "loading" ELSE "empty"]
<1>2. g \in [Node -> Told]
  BY DEF Told
<1>3. Parties!LoadedFor(m, f) = [Parties!Cleared EXCEPT ![m] = g]
  BY DEF Parties!LoadedFor
<1>4. \A n \in Parties!NodesOf(m, f) \cap Node : g[n] = "loading"
  OBVIOUS
<1> HIDE DEF g
<1> QED BY <1>1, <1>2, <1>3, <1>4

\* Namespaces are asked for anew, of what is chosen then.
LEMMA LoadNamespacesDoes ==
  ASSUME Parties!LoadNamespaces
  PROVE  /\ ns' = Parties!NoList /\ nsError' = FALSE
         /\ OfTheChoice(nsAsk)' /\ OfTheChoice(ns)'
         /\ filter' = {} => nsAsk' = Parties!NoList
         /\ filter' # {} => nsAsk' = Parties!Wanted'
  BY DEF Parties!LoadNamespaces, Parties!ResetNamespaces, Parties!Wanted, OfTheChoice

LEMMA DropNamespacesDoes ==
  ASSUME Parties!DropNamespaces
  PROVE  /\ ns' = Parties!NoList /\ nsError' = FALSE /\ nsAsk' = Parties!NoList
         /\ OfTheChoice(nsAsk)' /\ OfTheChoice(ns)'
  BY DEF Parties!DropNamespaces, Parties!ResetNamespaces, OfTheChoice

LEMMA SelectModeKeeps ==
  ASSUME PartiesOK, PartiesInv, NEW m \in Parties!Mode, Parties!SelectMode(m)
  PROVE  PartiesOK' /\ PartiesInv'
<1>1. mode' = m /\ UNCHANGED <<nodes, queried, filter, key>>
  BY DEF Parties!SelectMode
<1>2. CASE m = "fingerprints"
  <2>1. /\ cursor' = Parties!NoCursor /\ Parties!LoadNamespaces
        /\ UNCHANGED <<partyCursor, parties>>
    BY <1>1, <1>2 DEF Parties!SelectMode, Parties!LoadMode
  <2>2. PartiesOK'
    BY <1>1, <2>1 DEF PartiesOK
  <2>3. PartiesPageAgrees'
    BY <1>1, <1>2, <2>1, LoadNamespacesDoes
    DEF PartiesPageAgrees, Parties!SelectedNodesAreTold, Parties!NamespacesAnswerTheChoice,
        Parties!PagesAreOfTheList
  <2> QED BY <1>1, <1>2, <2>1, <2>2, <2>3, LoadNamespacesDoes DEF PartiesInv
<1>3. CASE m # "fingerprints"
  <2>1. /\ partyCursor' = Parties!NoCursor /\ Parties!DropNamespaces
        /\ parties' = Parties!LoadedFor(m, filter) /\ UNCHANGED cursor
    BY <1>1, <1>3 DEF Parties!SelectMode, Parties!LoadMode
  <2>2. m \in Parties!PartyMode
    BY <1>3 DEF Parties!Mode, Parties!PartyMode
  <2>3. PartiesOK'
    BY <1>1, <2>1, <2>2, LoadedForDoes DEF PartiesOK
  <2>4. Parties!SelectedNodesAreTold'
    <3>1. filter \subseteq Node
      BY DEF PartiesOK
    <3> QED BY <1>1, <2>1, <2>2, <3>1, LoadedForDoes
            DEF Parties!SelectedNodesAreTold, Parties!NodesFor, Parties!NodesOf
  <2>5. PartiesPageAgrees'
    BY <1>1, <1>3, <2>1, <2>4
    DEF PartiesPageAgrees, Parties!NamespacesAnswerTheChoice, Parties!PagesAreOfTheList
  <2> QED BY <1>1, <1>3, <2>1, <2>3, <2>5, DropNamespacesDoes DEF PartiesInv
<1> QED BY <1>2, <1>3
LEMMA SelectNodesKeeps ==
  ASSUME PartiesOK, PartiesInv, NEW N \in SUBSET Node, Parties!SelectNodes(N)
  PROVE  PartiesOK' /\ PartiesInv'
<1>1. queried' = N /\ UNCHANGED <<nodes, mode, key>>
  BY DEF Parties!SelectNodes
<1>2. CASE nodes # "known"
  <2>1. UNCHANGED <<filter, parties, partyCursor, cursor, ns, nsError, nsAsk, nsLate>>
    BY <1>2 DEF Parties!SelectNodes, Parties!space
  <2> QED BY <1>1, <1>2, <2>1
          DEF PartiesOK, PartiesInv, OfTheChoice, PartiesPageAgrees, Parties!SelectedNodesAreTold,
              Parties!NamespacesAnswerTheChoice, Parties!PagesAreOfTheList
<1>3. CASE nodes = "known"
  <2>1. /\ filter' = N /\ partyCursor' = Parties!NoCursor /\ cursor' = Parties!NoCursor
        /\ IF mode = "fingerprints" THEN Parties!LoadNamespaces /\ parties' = Parties!Cleared
           ELSE Parties!DropNamespaces /\ parties' = Parties!LoadedFor(mode, filter')
    BY <1>1, <1>3 DEF Parties!SelectNodes, Parties!FollowQuery, Parties!LoadMode
  <2>2. Parties!PagesAreOfTheList'
    BY <2>1 DEF Parties!PagesAreOfTheList
  <2>3. CASE mode = "fingerprints"
    <3>1. PartiesOK'
      <4>1. Parties!Cleared \in [Parties!PartyMode -> [Node -> Told]]
        BY DEF Parties!Cleared, Told
      <4> QED BY <1>1, <2>1, <2>3, <4>1 DEF PartiesOK
    <3>2. PartiesPageAgrees'
      BY <1>1, <2>1, <2>2, <2>3, LoadNamespacesDoes
      DEF PartiesPageAgrees, Parties!SelectedNodesAreTold, Parties!NamespacesAnswerTheChoice
    <3> QED BY <1>1, <1>3, <2>1, <2>3, <3>1, <3>2, LoadNamespacesDoes DEF PartiesInv
  <2>4. CASE mode # "fingerprints"
    <3>1. mode \in Parties!PartyMode
      BY <2>4 DEF PartiesOK, Parties!Mode, Parties!PartyMode
    <3>2. PartiesOK'
      BY <1>1, <2>1, <2>4, <3>1, LoadedForDoes DEF PartiesOK
    <3>3. Parties!SelectedNodesAreTold'
      BY <1>1, <2>1, <2>4, <3>1, LoadedForDoes
      DEF Parties!SelectedNodesAreTold, Parties!NodesFor, Parties!NodesOf
    <3>4. PartiesPageAgrees'
      BY <1>1, <2>2, <2>4, <3>3 DEF PartiesPageAgrees, Parties!NamespacesAnswerTheChoice
    <3> QED BY <1>1, <1>3, <2>1, <2>4, <3>2, <3>4, DropNamespacesDoes DEF PartiesInv
  <2> QED BY <2>3, <2>4
<1> QED BY <1>2, <1>3

\* Pages and filters of the namespaces: they are asked for at once.
LEMMA NamespacesKeep ==
  ASSUME PartiesOK, PartiesInv, UNCHANGED <<nodes, mode, queried, filter, parties, partyCursor>>,
         mode = "fingerprints", key' \in Parties!Keys, Parties!LoadNamespaces,
         cursor' \in {Parties!NoCursor, [nodes |-> filter, key |-> key']},
         nodes # "known" => cursor' = Parties!NoCursor
  PROVE  PartiesOK' /\ PartiesInv'
<1>1. PartiesOK'
  BY DEF PartiesOK
<1>2. PartiesPageAgrees'
  BY LoadNamespacesDoes
  DEF PartiesPageAgrees, Parties!SelectedNodesAreTold, Parties!NamespacesAnswerTheChoice,
      Parties!PagesAreOfTheList
<1> QED BY <1>1, <1>2, LoadNamespacesDoes DEF PartiesInv

LEMMA TurnNamespacePageKeeps ==
  ASSUME PartiesOK, PartiesInv, Parties!TurnNamespacePage
  PROVE  PartiesOK' /\ PartiesInv'
<1>1. /\ mode = "fingerprints" /\ ns # Parties!NoList /\ Parties!LoadNamespaces
      /\ cursor' = [nodes |-> ns.nodes, key |-> ns.key]
      /\ UNCHANGED <<nodes, mode, queried, filter, key, parties, partyCursor>>
  BY DEF Parties!TurnNamespacePage, Parties!view
<1>2. ns.nodes = filter /\ ns.key = key /\ nodes = "known" /\ key' \in Parties!Keys
  BY <1>1 DEF PartiesInv, OfTheChoice, PartiesOK
<1> QED BY <1>1, <1>2, NamespacesKeep

LEMMA FilterNamespacesKeeps ==
  ASSUME PartiesOK, PartiesInv, NEW k \in Parties!Keys, Parties!FilterNamespaces(k)
  PROVE  PartiesOK' /\ PartiesInv'
  BY NamespacesKeep DEF Parties!FilterNamespaces

\* What arrives of the parties of one node.
LEMMA PartiesArriveKeeps ==
  ASSUME PartiesOK, PartiesInv, NEW m \in Parties!PartyMode, NEW n \in Node,
         NEW x \in Told \ {"empty"}, parties' = [parties EXCEPT ![m][n] = x],
         UNCHANGED <<nodes, mode, queried, filter, key, partyCursor, cursor, ns, nsError, nsAsk>>
  PROVE  PartiesOK' /\ PartiesInv'
<1>1. \A a \in Parties!PartyMode, b \in Node :
        parties'[a][b] = IF a = m /\ b = n THEN x ELSE parties[a][b]
  BY DEF PartiesOK
<1>2. PartiesOK'
  BY DEF PartiesOK
<1>3. Parties!SelectedNodesAreTold'
  <2>1. mode # "fingerprints" => mode \in Parties!PartyMode
    BY DEF PartiesOK, Parties!Mode, Parties!PartyMode
  <2> QED BY <1>1, <2>1
          DEF PartiesOK, PartiesInv, PartiesPageAgrees, Parties!SelectedNodesAreTold,
              Parties!NodesFor, Parties!NodesOf, Told
<1>4. PartiesInv'
  BY <1>3 DEF PartiesInv, PartiesPageAgrees, Parties!NamespacesAnswerTheChoice,
              Parties!PagesAreOfTheList, Parties!Wanted, OfTheChoice
<1> QED BY <1>2, <1>4

LEMMA TurnPartyPageKeeps ==
  ASSUME PartiesOK, PartiesInv, Parties!TurnPartyPage
  PROVE  PartiesOK' /\ PartiesInv'
<1>1. /\ mode # "fingerprints" /\ partyCursor' = [nodes |-> filter, key |-> mode]
      /\ UNCHANGED <<nodes, mode, queried, filter, key, parties, cursor, ns, nsError, nsAsk>>
  BY DEF Parties!TurnPartyPage, Parties!view, Parties!space
<1>2. nodes = "known"
  BY DEF Parties!TurnPartyPage, Parties!NodesFor, Parties!NodesOf, PartiesInv
<1> QED BY <1>1, <1>2
        DEF PartiesOK, PartiesInv, OfTheChoice, PartiesPageAgrees, Parties!SelectedNodesAreTold,
            Parties!NamespacesAnswerTheChoice, Parties!PagesAreOfTheList, Parties!NodesFor

\* The nodes are known: what was selected before is loaded now, unless it is already.
LEMMA NodesArriveKeeps ==
  ASSUME PartiesOK, PartiesInv, Parties!NodesArrive
  PROVE  PartiesOK' /\ PartiesInv'
<1>1. /\ nodes' = "known" /\ nodes # "known" /\ filter' = queried
      /\ UNCHANGED <<mode, queried, key, partyCursor, cursor>>
  BY DEF Parties!NodesArrive
<1>2. Parties!PagesAreOfTheList'
  BY <1>1 DEF PartiesInv, Parties!PagesAreOfTheList
<1>3. CASE mode = "fingerprints"
  <2>1. Parties!LoadNamespaces /\ UNCHANGED parties
    BY <1>3 DEF Parties!NodesArrive
  <2>2. PartiesPageAgrees'
    BY <1>1, <1>2, <1>3, <2>1, LoadNamespacesDoes
    DEF PartiesPageAgrees, Parties!SelectedNodesAreTold, Parties!NamespacesAnswerTheChoice
  <2> QED BY <1>1, <1>3, <2>1, <2>2, LoadNamespacesDoes DEF PartiesOK, PartiesInv
<1>4. CASE mode # "fingerprints"
  <2> DEFINE g == [n \in Node |-> IF /\ n \in Parties!NodesOf(mode, filter')
                                     /\ parties[mode][n] \in {"empty", "failed"}
                                  THEN "loading" ELSE parties[mode][n]]
  <2>1. parties' = [parties EXCEPT ![mode] = g] /\ UNCHANGED <<ns, nsError, nsAsk, nsLate>>
    BY <1>4 DEF Parties!NodesArrive
  <2>2. mode \in Parties!PartyMode
    BY <1>4 DEF PartiesOK, Parties!Mode, Parties!PartyMode
  <2>3. g \in [Node -> Told] /\ \A n \in Parties!NodesOf(mode, filter') \cap Node : g[n] # "empty"
    BY <2>2 DEF PartiesOK, Told
  <2> HIDE DEF g
  <2>4. PartiesOK'
    BY <1>1, <2>1, <2>2, <2>3 DEF PartiesOK
  <2>5. parties'[mode] = g
    BY <2>1, <2>2 DEF PartiesOK
  <2>6. Parties!SelectedNodesAreTold'
    BY <1>1, <2>3, <2>4, <2>5
    DEF PartiesOK, Parties!SelectedNodesAreTold, Parties!NodesFor, Parties!NodesOf
  <2>7. PartiesPageAgrees'
    BY <1>1, <1>2, <1>4, <2>6 DEF PartiesPageAgrees, Parties!NamespacesAnswerTheChoice
  <2> QED BY <1>1, <1>4, <2>1, <2>4, <2>7 DEF PartiesInv, OfTheChoice
<1> QED BY <1>3, <1>4

\* Answers about namespaces, and the node list failing or being asked for again.
LEMMA PartiesAnswersKeep ==
  ASSUME PartiesOK, PartiesInv,
         \/ Parties!RetryNamespaces \/ Parties!RetryNodes \/ Parties!NodesFail
         \/ Parties!NamespacesArrive \/ Parties!NamespacesFail \/ Parties!LateNamespaces
  PROVE  PartiesOK' /\ PartiesInv'
<1>1. UNCHANGED <<mode, queried, filter, key, parties, partyCursor, cursor>>
  BY DEF Parties!RetryNamespaces, Parties!RetryNodes, Parties!NodesFail, Parties!NamespacesArrive,
         Parties!NamespacesFail, Parties!LateNamespaces, Parties!view, Parties!space
<1>2. PartiesOK'
  BY <1>1 DEF PartiesOK, Parties!RetryNamespaces, Parties!RetryNodes, Parties!NodesFail,
              Parties!NamespacesArrive, Parties!NamespacesFail, Parties!LateNamespaces
<1>3. nodes' = nodes \/ (nodes # "known" /\ nodes' # "known" /\ UNCHANGED <<ns, nsError, nsAsk>>)
  BY DEF Parties!RetryNamespaces, Parties!RetryNodes, Parties!NodesFail, Parties!NamespacesArrive,
         Parties!NamespacesFail, Parties!LateNamespaces, Parties!space
<1>4. \/ nsError /\ nsError' = FALSE /\ nsAsk' = Parties!Wanted /\ ns' = ns
      \/ UNCHANGED <<ns, nsError, nsAsk>>
      \/ nsAsk # Parties!NoList /\ nsAsk' = Parties!NoList /\ ns' = nsAsk /\ nsError' = nsError
      \/ nsAsk # Parties!NoList /\ nsAsk' = Parties!NoList /\ ns' = ns /\ nsError' = TRUE
  BY DEF Parties!RetryNamespaces, Parties!RetryNodes, Parties!NodesFail, Parties!NamespacesArrive,
         Parties!NamespacesFail, Parties!LateNamespaces, Parties!space
<1>5. Parties!Wanted' = Parties!Wanted
  BY <1>1 DEF Parties!Wanted
<1>6. PartiesPageAgrees'
  BY <1>1, <1>3, <1>4, <1>5
  DEF PartiesInv, PartiesPageAgrees, Parties!SelectedNodesAreTold, Parties!NodesFor,
      Parties!NamespacesAnswerTheChoice, Parties!PagesAreOfTheList
<1>7. Parties!Wanted.nodes = filter /\ Parties!Wanted.key = key
  BY DEF Parties!Wanted
<1> QED BY <1>1, <1>2, <1>3, <1>4, <1>6, <1>7 DEF PartiesInv, OfTheChoice
LEMMA PartiesNextKeeps ==
  ASSUME PartiesOK, PartiesInv, [Parties!Next]_Parties!vars PROVE PartiesOK' /\ PartiesInv'
<1>1. ASSUME NEW n \in Node, Parties!RetryParties(n) PROVE PartiesOK' /\ PartiesInv'
  <2>1. mode \in Parties!PartyMode /\ "loading" \in Told \ {"empty"}
    BY <1>1 DEF Parties!RetryParties, PartiesOK, Parties!Mode, Parties!PartyMode, Told
  <2> QED BY <1>1, <2>1, PartiesArriveKeeps DEF Parties!RetryParties, Parties!view, Parties!space
<1>2. ASSUME NEW m \in Parties!PartyMode, NEW n \in Node, Parties!PartiesArrive(m, n)
      PROVE  PartiesOK' /\ PartiesInv'
  <2>1. PICK x \in {"told", "failed"} : parties' = [parties EXCEPT ![m][n] = x]
    BY <1>2 DEF Parties!PartiesArrive
  <2>2. x \in Told \ {"empty"}
    BY DEF Told
  <2> QED BY <1>2, <2>1, <2>2, PartiesArriveKeeps DEF Parties!PartiesArrive, Parties!view, Parties!space
<1>3. CASE UNCHANGED Parties!vars
  BY <1>3 DEF Parties!vars, Parties!view, Parties!space, PartiesOK, PartiesInv, OfTheChoice,
              PartiesPageAgrees, Parties!SelectedNodesAreTold, Parties!NodesFor,
              Parties!NamespacesAnswerTheChoice, Parties!PagesAreOfTheList, Parties!Wanted
<1> QED BY <1>1, <1>2, <1>3, SelectModeKeeps, SelectNodesKeeps, TurnPartyPageKeeps,
           TurnNamespacePageKeeps, FilterNamespacesKeeps, NodesArriveKeeps, PartiesAnswersKeep
        DEF Parties!Next

(* The page of parties agrees with the choice made on it: whatever order the node list,
   the answers and the reader's choices come in, no node chosen is left unasked, no
   namespaces of another choice are shown, and no page is of another list. *)
THEOREM PartiesPageInvariant == Parties!Spec => []PartiesPageAgrees
<1>1. Parties!Init => PartiesOK /\ PartiesInv
  BY DEF Parties!Init, PartiesOK, PartiesInv, OfTheChoice, PartiesPageAgrees, Parties!Mode, Told,
         Parties!SelectedNodesAreTold, Parties!NamespacesAnswerTheChoice,
         Parties!PagesAreOfTheList, Parties!Keys
<1>2. PartiesOK /\ PartiesInv /\ [Parties!Next]_Parties!vars => (PartiesOK /\ PartiesInv)'
  BY PartiesNextKeeps
<1>3. PartiesInv => PartiesPageAgrees
  BY DEF PartiesInv
<1> QED BY <1>1, <1>2, <1>3, PTL DEF Parties!Spec
-----------------------------------------------------------------------------
(* What an address tells (AddressQuery), for any nodes and any query. *)

Base == {"cursor", "node", "party", "partyMode", "list", "status", "limit"}
FieldOf(x) == IF x = "partyMode" THEN "mode" ELSE x

\* buildQuery by keys: which of them are written, and which are cleared before.
Writes(b, g, x) ==
  \/ x = "cursor" /\ g.cursor # {}
  \/ x = "node" /\ Addresses!HasNodes(b) /\ g.node # offered
  \/ x \in {"party", "partyMode"} /\ Addresses!HasParties(b) /\ g.party # {}
  \/ x = "list" /\ g.list # {}
  \/ x = "status" /\ Addresses!HasStatus(b) /\ g.status # {"all"}
  \/ x = "limit" /\ g.limit # {15}
Manages(b, x) == x # "node" \/ Addresses!HasNodes(b)

\* Filters of a browser that an address can tell.
Proper(b, g) ==
  /\ DOMAIN g = Addresses!Field /\ g = [f \in DOMAIN g |-> g[f]]
  /\ g.node \subseteq offered /\ (~Addresses!ListsNodes(b) => g.node = {})
  /\ ~Addresses!HasParties(b) => g.party = {}
  /\ g.mode # {} /\ g.limit # {} /\ g.status # {}
  /\ ~Addresses!Lists(b) => g.list = {}
  /\ ~Addresses!HasStatus(b) => g.status = {"all"}

\* The browsers of a view have keys of their own.
LEMMA PrefixesDiffer ==
  ASSUME NEW b \in Addresses!Browsers, NEW c \in Addresses!Browsers, b.prefix = c.prefix
  PROVE  b = c
<1>1. ASSUME NEW k, NEW p PROVE Addresses!Browser(k, p).prefix = p
  BY DEF Addresses!Browser
<1>2. ASSUME NEW k, NEW p, Addresses!Browsers = {Addresses!Browser(k, p)} PROVE b = c
  BY <1>2
<1>3. ASSUME NEW k, NEW p, NEW l, NEW r, p # r,
             Addresses!Browsers = {Addresses!Browser(k, p), Addresses!Browser(l, r)}
      PROVE  b = c
  BY <1>1, <1>3
<1>4. CASE view = "party"
  BY <1>3, <1>4 DEF Addresses!Browsers, Addresses!BrowsersOf
<1>5. CASE view \in {"contracts", "updates"}
  BY <1>2, <1>5 DEF Addresses!Browsers, Addresses!BrowsersOf
<1>6. CASE view = "tokens"
  BY <1>3, <1>6 DEF Addresses!Browsers, Addresses!BrowsersOf
<1>7. CASE view \notin {"party", "contracts", "updates", "tokens"}
  BY <1>3, <1>7 DEF Addresses!Browsers, Addresses!BrowsersOf
<1> QED BY <1>4, <1>5, <1>6, <1>7

LEMMA KeysDiffer ==
  ASSUME NEW b, NEW c, NEW x, NEW y, Addresses!QueryKey(b, x) = Addresses!QueryKey(c, y)
  PROVE  b.prefix = c.prefix /\ x = y
  BY DEF Addresses!QueryKey

LEMMA SameFilters ==
  ASSUME NEW g, NEW h, DOMAIN g = Addresses!Field, DOMAIN h = Addresses!Field,
         g = [f \in DOMAIN g |-> g[f]], h = [f \in DOMAIN h |-> h[f]],
         \A f \in Addresses!Field : g[f] = h[f]
  PROVE  g = h
<1>1. [f \in Addresses!Field |-> g[f]] = [f \in Addresses!Field |-> h[f]]
  OBVIOUS
<1> QED BY <1>1

LEMMA WrittenIs ==
  ASSUME NEW b, NEW g
  PROVE  Addresses!Written(b, g) =
           {<<Addresses!QueryKey(b, x), g[FieldOf(x)]>> : x \in {y \in Base : Writes(b, g, y)}}
<1> DEFINE W == {<<Addresses!QueryKey(b, x), g[FieldOf(x)]>> : x \in {y \in Base : Writes(b, g, y)}}
<1>1. ASSUME NEW e \in W PROVE e \in Addresses!Written(b, g)
  BY <1>1 DEF Base, FieldOf, Writes, Addresses!Written
<1>2. ASSUME NEW e \in Addresses!Written(b, g) PROVE e \in W
  BY <1>2 DEF Base, FieldOf, Writes, Addresses!Written
<1> QED BY <1>1, <1>2

LEMMA ManagedIs ==
  ASSUME NEW b, NEW k
  PROVE  k \in Addresses!Managed(b) <=>
           \/ \E x \in Base : Manages(b, x) /\ k = Addresses!QueryKey(b, x)
           \/ b.prefix = "" /\ b.kind \in {"updates", "contracts"} /\ k = <<"", "mode">>
  BY DEF Addresses!Managed, Base, Manages
LEMMA WrittenIsManaged ==
  ASSUME NEW b, NEW g, NEW x \in Base, Writes(b, g, x) PROVE Manages(b, x)
  BY DEF Writes, Manages

\* What an edit leaves in the address.
LEMMA BuildDoes ==
  ASSUME NEW b, NEW g
  PROVE  LET q == Addresses!Build(b, g)
         IN /\ \A x \in Base : LET k == Addresses!QueryKey(b, x) IN
                 /\ Writes(b, g, x) => k \in DOMAIN q /\ q[k] = g[FieldOf(x)]
                 /\ Manages(b, x) /\ ~Writes(b, g, x) => k \notin DOMAIN q
            /\ \A k : k \notin Addresses!Managed(b) =>
                 /\ k \in DOMAIN q <=> k \in DOMAIN told
                 /\ k \in DOMAIN told => q[k] = told[k]
<1> DEFINE q == Addresses!Build(b, g)
           kept == {<<k, told[k]>> : k \in DOMAIN told \ Addresses!Managed(b)}
           W == Addresses!Written(b, g)
           all == kept \cup W
<1>1. DOMAIN q = {e[1] : e \in all} /\ \A k \in DOMAIN q : q[k] = (CHOOSE e \in all : e[1] = k)[2]
  BY DEF Addresses!Build
<1>2. \A e : e \in W <=> \E x \in Base : Writes(b, g, x) /\ e = <<Addresses!QueryKey(b, x), g[FieldOf(x)]>>
  BY WrittenIs
<1>3. \A e : e \in kept <=> \E k \in DOMAIN told : k \notin Addresses!Managed(b) /\ e = <<k, told[k]>>
  OBVIOUS
<1>4. \A x \in Base : Writes(b, g, x) => Addresses!QueryKey(b, x) \in Addresses!Managed(b)
  BY ManagedIs, WrittenIsManaged
<1>5. \A e, d \in all : e[1] = d[1] => e = d
  BY <1>2, <1>3, <1>4, KeysDiffer
<1> HIDE DEF q, kept, W
<1>6. \A e \in all : e[1] \in DOMAIN q /\ q[e[1]] = e[2]
  BY <1>1, <1>5
<1>7. ASSUME NEW x \in Base, Writes(b, g, x)
      PROVE  Addresses!QueryKey(b, x) \in DOMAIN q /\ q[Addresses!QueryKey(b, x)] = g[FieldOf(x)]
  <2> DEFINE e == <<Addresses!QueryKey(b, x), g[FieldOf(x)]>>
  <2>1. e \in W
    BY <1>2, <1>7
  <2>2. e[1] = Addresses!QueryKey(b, x) /\ e[2] = g[FieldOf(x)]
    OBVIOUS
  <2> QED BY <1>6, <2>1, <2>2
<1>8. ASSUME NEW x \in Base, Manages(b, x), ~Writes(b, g, x)
      PROVE  Addresses!QueryKey(b, x) \notin DOMAIN q
  <2>1. Addresses!QueryKey(b, x) \in Addresses!Managed(b)
    BY <1>8, ManagedIs
  <2>2. SUFFICES ASSUME NEW e \in all, e[1] = Addresses!QueryKey(b, x) PROVE FALSE
    BY <1>1
  <2> QED BY <1>2, <1>3, <1>8, <2>1, <2>2, KeysDiffer
<1>9. ASSUME NEW k, k \notin Addresses!Managed(b)
      PROVE  /\ k \in DOMAIN q <=> k \in DOMAIN told
             /\ k \in DOMAIN told => q[k] = told[k]
  <2>1. ASSUME k \in DOMAIN told PROVE k \in DOMAIN q /\ q[k] = told[k]
    <3> DEFINE e == <<k, told[k]>>
    <3>1. e \in kept
      BY <1>3, <1>9, <2>1
    <3>2. e[1] = k /\ e[2] = told[k]
      OBVIOUS
    <3> QED BY <1>6, <3>1, <3>2
  <2>2. ASSUME k \in DOMAIN q PROVE k \in DOMAIN told
    BY <1>1, <1>2, <1>3, <1>4, <1>9, <2>2
  <2> QED BY <2>1, <2>2
<1> QED BY <1>7, <1>8, <1>9 DEF q

\* Reading gives filters that an address can tell.
LEMMA ReadIsProper == ASSUME NEW b, NEW q PROVE Proper(b, Addresses!Read(b, q))
<1> DEFINE r == Addresses!Read(b, q)
<1>1. DOMAIN r = Addresses!Field /\ r = [f \in DOMAIN r |-> r[f]]
  BY DEF Addresses!Read, Addresses!Field
<1>2. r.node \subseteq offered /\ (~Addresses!ListsNodes(b) => r.node = {})
  BY DEF Addresses!Read, Addresses!NodesRead, Addresses!NodesReadOf
<1>3. ~Addresses!HasParties(b) => r.party = {}
  BY DEF Addresses!Read, Addresses!PartiesRead
<1>4. r.mode # {}
  BY DEF Addresses!Read, Addresses!ModeRead
<1>5. r.limit # {}
  BY DEF Addresses!Read, Addresses!LimitRead
<1>6. r.status # {} /\ (~Addresses!HasStatus(b) => r.status = {"all"})
  BY DEF Addresses!Read, Addresses!StatusRead
<1>7. ~Addresses!Lists(b) => r.list = {}
  BY DEF Addresses!Read
<1> QED BY <1>1, <1>2, <1>3, <1>4, <1>5, <1>6, <1>7 DEF Proper

\* An address that is built from filters is read as these filters.
LEMMA RoundTrip ==
  ASSUME NEW b, NEW g, Proper(b, g)
  PROVE  Addresses!Effective(Addresses!Read(b, Addresses!Build(b, g))) = Addresses!Effective(g)
<1> DEFINE q == Addresses!Build(b, g)
           r == Addresses!Read(b, q)
           H(x) == Addresses!Held(q, Addresses!QueryKey(b, x))
<1>1. \A x \in Base : Manages(b, x) => H(x) = IF Writes(b, g, x) THEN g[FieldOf(x)] ELSE {}
  BY BuildDoes DEF Addresses!Held
<1>2. /\ Manages(b, "node") /\ ~Writes(b, g, "node") => Addresses!QueryKey(b, "node") \notin DOMAIN q
      /\ Writes(b, g, "node") => Addresses!QueryKey(b, "node") \in DOMAIN q
  BY BuildDoes DEF Base
<1> HIDE DEF q
<1>3. r.node = g.node
  BY <1>1, <1>2 DEF Proper, Base, FieldOf, Writes, Manages, Addresses!Read, Addresses!NodesRead,
     Addresses!NodesReadOf, Addresses!HasNodes
<1>4. r.party = g.party
  BY <1>1 DEF Proper, Base, FieldOf, Writes, Manages, Addresses!Read, Addresses!PartiesRead
<1>5. g.party # {} => r.mode = g.mode
  BY <1>1 DEF Proper, Base, FieldOf, Writes, Manages, Addresses!Read, Addresses!ModeRead
<1>6. r.list = g.list
  BY <1>1 DEF Proper, Base, FieldOf, Writes, Manages, Addresses!Read
<1>7. r.status = g.status
  BY <1>1 DEF Proper, Base, FieldOf, Writes, Manages, Addresses!Read, Addresses!StatusRead
<1>8. r.limit = g.limit
  BY <1>1 DEF Proper, Base, FieldOf, Writes, Manages, Addresses!Read, Addresses!LimitRead
<1>9. r.cursor = g.cursor
  BY <1>1 DEF Proper, Base, FieldOf, Writes, Manages, Addresses!Read
<1>10. Proper(b, r)
  BY ReadIsProper
<1> HIDE DEF r
<1>11. Proper(b, Addresses!Effective(g)) /\ Proper(b, Addresses!Effective(r))
  BY <1>10 DEF Proper, Addresses!Effective, Addresses!Field
<1>12. \A f \in Addresses!Field : Addresses!Effective(g)[f] = Addresses!Effective(r)[f]
  BY <1>3, <1>4, <1>5, <1>6, <1>7, <1>8, <1>9, <1>10 DEF Proper, Addresses!Effective, Addresses!Field
<1>13. Addresses!Effective(r) = Addresses!Effective(g)
  BY <1>11, <1>12, SameFilters DEF Proper
<1> QED BY <1>13 DEF q, r

\* Filters that stand beside the address are such as an address can tell.
RefsOK == /\ DOMAIN refs = Addresses!Browsers /\ refs = [b \in DOMAIN refs |-> refs[b]]
          /\ \A b \in Addresses!Browsers : Proper(b, refs[b])
AddressesInv == RefsOK /\ Addresses!AddressTellsTheFilters

LEMMA InForceIs ==
  ASSUME NEW b \in Addresses!Browsers, RefsOK
  PROVE  /\ Proper(b, Addresses!InForce(b))
         /\ \A f \in Addresses!Field :
              Addresses!InForce(b)[f] = IF f \in Addresses!Kept(b) THEN refs[b][f]
                                        ELSE Addresses!Read(b, told)[f]
<1> DEFINE g == Addresses!InForce(b)
           r == Addresses!Read(b, told)
<1>1. Proper(b, r) /\ Proper(b, refs[b])
  BY ReadIsProper DEF RefsOK
<1>2. g = [f \in Addresses!Field |-> IF f \in Addresses!Kept(b) THEN refs[b][f] ELSE r[f]]
  BY <1>1 DEF Addresses!InForce, Proper
<1> HIDE DEF g, r
<1>3. Proper(b, g)
  BY <1>1, <1>2 DEF Proper, Addresses!Field
<1> QED BY <1>2, <1>3 DEF g, r

\* Filters in force are told field by field.
LEMMA InForceStays == ASSUME RefsOK', view' = view, NEW b \in Addresses!Browsers
                      PROVE  DOMAIN Addresses!InForce(b)' = Addresses!Field
<1>1. DOMAIN refs'[b] = Addresses!Field
  BY DEF RefsOK, Proper, Addresses!Browsers, Addresses!Field
<1> QED BY <1>1 DEF Addresses!InForce

\* A new address is read again by every browser.
LEMMA PushKeeps ==
  ASSUME RefsOK, NEW q, NEW r, Addresses!Push(q, r), q # told
  PROVE  /\ AddressesInv'
         /\ \A b \in Addresses!Browsers :
              /\ Addresses!InForce(b)' = Addresses!Read(b, q)
              /\ Addresses!Read(b, told)' = Addresses!Read(b, q)
<1>1. told' = q /\ refs' = Addresses!Synced(q) /\ view' = view /\ offered' = offered
  BY DEF Addresses!Push
<1>2. Addresses!Browsers' = Addresses!Browsers
  BY <1>1 DEF Addresses!Browsers
<1>3. \A b : Addresses!Read(b, told)' = Addresses!Read(b, q)
  BY <1>1 DEF Addresses!Read, Addresses!NodesRead
<1>4. \A b \in Addresses!Browsers : refs'[b] = Addresses!Read(b, q)
  BY <1>1 DEF Addresses!Synced
<1>5. ASSUME NEW b \in Addresses!Browsers PROVE Proper(b, refs[b])'
  <2>1. refs'[b] = Addresses!Read(b, q)
    BY <1>4
  <2>2. Proper(b, Addresses!Read(b, q))
    BY ReadIsProper
  <2> QED BY <1>1, <2>1, <2>2
          DEF Proper, Addresses!ListsNodes, Addresses!HasParties, Addresses!HasStatus,
              Addresses!Lists, Addresses!Field
<1>6. DOMAIN refs' = Addresses!Browsers /\ refs' = [b \in DOMAIN refs' |-> refs'[b]]
  BY <1>1 DEF Addresses!Synced
<1>7. RefsOK'
  BY <1>2, <1>5, <1>6 DEF RefsOK
<1>8. ASSUME NEW b \in Addresses!Browsers PROVE Addresses!InForce(b)' = Addresses!Read(b, q)
  <2> DEFINE read == Addresses!Read(b, q)
  <2>1. Proper(b, read) /\ refs'[b] = read /\ Addresses!Read(b, told)' = read
    BY <1>3, <1>4, ReadIsProper
  <2>2. Addresses!InForce(b)' = [f \in DOMAIN read |-> IF f \in Addresses!Kept(b) THEN read[f] ELSE read[f]]
    BY <2>1 DEF Addresses!InForce, Addresses!Kept
  <2> HIDE DEF read
  <2> QED BY <2>1, <2>2 DEF Proper, read
<1>9. Addresses!AddressTellsTheFilters'
  BY <1>2, <1>3, <1>8 DEF Addresses!AddressTellsTheFilters, Addresses!Effective
<1> QED BY <1>3, <1>7, <1>8, <1>9 DEF AddressesInv

\* What one browser writes, another does not read.
LEMMA OthersReadTheSame ==
  ASSUME NEW b \in Addresses!Browsers, NEW c \in Addresses!Browsers, b # c, NEW g
  PROVE  Addresses!Read(c, Addresses!Build(b, g)) = Addresses!Read(c, told)
<1> DEFINE q == Addresses!Build(b, g)
<1>1. b.prefix # c.prefix
  BY PrefixesDiffer
<1> DEFINE modeKey == <<"", "mode">>
<1>2. ASSUME NEW x \in Base PROVE Addresses!QueryKey(c, x) \notin Addresses!Managed(b)
  <2>1. \A y \in Base : Addresses!QueryKey(c, x) # Addresses!QueryKey(b, y)
    BY <1>1, KeysDiffer
  <2>2. b.prefix = "" => Addresses!QueryKey(c, x) # modeKey
    BY <1>1 DEF Addresses!QueryKey
  <2> QED BY <2>1, <2>2, ManagedIs
<1>3. c.prefix = "" => modeKey \notin Addresses!Managed(b)
  <2>1. \A y \in Base : b.prefix # "" => modeKey # Addresses!QueryKey(b, y)
    BY DEF Addresses!QueryKey
  <2> HIDE DEF modeKey
  <2>2. modeKey \in Addresses!Managed(b) =>
          (\E x \in Base : Manages(b, x) /\ modeKey = Addresses!QueryKey(b, x)) \/ b.prefix = ""
    BY ManagedIs
  <2> QED BY <1>1, <2>1, <2>2
<1>4. \A x \in Base : LET k == Addresses!QueryKey(c, x) IN
        /\ k \in DOMAIN q <=> k \in DOMAIN told
        /\ Addresses!Held(q, k) = Addresses!Held(told, k)
  BY <1>2, BuildDoes DEF Addresses!Held
<1>5. c.prefix = "" => Addresses!Held(q, modeKey) = Addresses!Held(told, modeKey)
  <2>1. \A k : k \notin Addresses!Managed(b) =>
          (k \in DOMAIN q <=> k \in DOMAIN told) /\ (k \in DOMAIN told => q[k] = told[k])
    BY BuildDoes
  <2> HIDE DEF q, modeKey
  <2> QED BY <1>3, <2>1 DEF Addresses!Held
<1> HIDE DEF q
<1>6. Addresses!Read(c, q) = Addresses!Read(c, told)
  <2>1. Addresses!NodesRead(c, q) = Addresses!NodesRead(c, told)
    BY <1>4 DEF Base, Addresses!NodesRead, Addresses!NodesReadOf
  <2>2. Addresses!PartiesRead(c, q) = Addresses!PartiesRead(c, told)
    BY <1>4 DEF Base, Addresses!PartiesRead
  <2>3. Addresses!ModeRead(c, q) = Addresses!ModeRead(c, told)
    BY <1>4, <1>5, <2>2 DEF Base, Addresses!ModeRead
  <2>4. Addresses!StatusRead(c, q) = Addresses!StatusRead(c, told)
    BY <1>4 DEF Base, Addresses!StatusRead
  <2>5. Addresses!LimitRead(c, q) = Addresses!LimitRead(c, told)
    BY <1>4 DEF Base, Addresses!LimitRead
  <2> QED BY <1>4, <2>1, <2>2, <2>3, <2>4, <2>5 DEF Base, Addresses!Read
<1> QED BY <1>6 DEF q

\* An edit sets one filter and clears the cursor, and gives filters that an address can tell.
LEMMA EditDoes ==
  ASSUME RefsOK, NEW b \in Addresses!Browsers, NEW f \in Addresses!Field,
         NEW v \in Addresses!Values(b, f), Addresses!Edit(b, f, v)
  PROVE  \E g : /\ Proper(b, g) /\ g[f] = v
                /\ \A h \in Addresses!Field \ {f, "cursor"} : g[h] = Addresses!InForce(b)[h]
                /\ Addresses!Push(Addresses!Build(b, g),
                     IF f \in Addresses!Kept(b) THEN [refs EXCEPT ![b][f] = v] ELSE refs)
<1> DEFINE i == Addresses!InForce(b)
           to == [i EXCEPT ![f] = v]
           g == IF f = "cursor" THEN to ELSE [to EXCEPT !.cursor = {}]
<1>1. Addresses!Push(Addresses!Build(b, g),
                     IF f \in Addresses!Kept(b) THEN [refs EXCEPT ![b][f] = v] ELSE refs)
  BY DEF Addresses!Edit
<1>2. Proper(b, i)
  BY InForceIs
<1> HIDE DEF i
<1>3. /\ DOMAIN g = Addresses!Field /\ g = [h \in DOMAIN g |-> g[h]] /\ g[f] = v
      /\ \A h \in Addresses!Field \ {f, "cursor"} : g[h] = i[h]
  BY <1>2 DEF Proper
<1> HIDE DEF g
<1>4. \A h \in Addresses!Field \ {"cursor"} : g[h] = IF h = f THEN v ELSE i[h]
  BY <1>3
<1>5. g.node \subseteq offered /\ (~Addresses!ListsNodes(b) => g.node = {})
  <2>1. f = "node" => v \subseteq offered /\ Addresses!ListsNodes(b)
    BY DEF Addresses!Values, Addresses!HasNodes
  <2> QED BY <1>2, <1>4, <2>1 DEF Proper, Addresses!Field
<1>6. ~Addresses!HasParties(b) => g.party = {}
  <2>1. f = "party" => Addresses!HasParties(b)
    BY DEF Addresses!Values
  <2> QED BY <1>2, <1>4, <2>1 DEF Proper, Addresses!Field
<1>7. g.mode # {} /\ g.limit # {} /\ g.status # {}
  <2>1. f \in {"mode", "limit", "status"} => v # {}
    <3>1. f = "mode" => v # {}
      BY DEF Addresses!Values
    <3>2. f = "limit" => v # {}
      BY DEF Addresses!Values
    <3>3. f = "status" => v # {}
      BY DEF Addresses!Values
    <3> QED BY <3>1, <3>2, <3>3
  <2> QED BY <1>2, <1>4, <2>1 DEF Proper, Addresses!Field
<1>8. ~Addresses!Lists(b) => g.list = {}
  <2>1. f = "list" => Addresses!Lists(b)
    BY DEF Addresses!Values
  <2> QED BY <1>2, <1>4, <2>1 DEF Proper, Addresses!Field
<1>9. ~Addresses!HasStatus(b) => g.status = {"all"}
  <2>1. f = "status" => Addresses!HasStatus(b)
    BY DEF Addresses!Values
  <2> QED BY <1>2, <1>4, <2>1 DEF Proper, Addresses!Field
<1>10. Proper(b, g)
  BY <1>3, <1>5, <1>6, <1>7, <1>8, <1>9 DEF Proper
<1> QED BY <1>1, <1>3, <1>10 DEF i

LEMMA ProperByFields ==
  ASSUME NEW b, NEW g, NEW h, NEW d, Proper(b, g), Proper(b, h),
         DOMAIN d = Addresses!Field, d = [f \in DOMAIN d |-> d[f]],
         \A f \in Addresses!Field : d[f] = g[f] \/ d[f] = h[f]
  PROVE  Proper(b, d)
  BY DEF Proper, Addresses!Field

\* A filter set beside an address that tells it already.
LEMMA SetKeeps ==
  ASSUME AddressesInv, NEW b \in Addresses!Browsers, NEW f \in Addresses!Kept(b), NEW v,
         NEW g, Proper(b, g), g[f] = v,
         \A h \in Addresses!Field \ {f, "cursor"} : g[h] = Addresses!InForce(b)[h],
         Addresses!Effective(Addresses!Read(b, told)) = Addresses!Effective(g),
         refs' = [refs EXCEPT ![b][f] = v], UNCHANGED <<view, told, offered>>
  PROVE  /\ AddressesInv'
         /\ \A c \in Addresses!Browsers \ {b} : Addresses!InForce(c)' = Addresses!InForce(c)
         /\ \A h \in Addresses!Field \ {f} : Addresses!InForce(b)'[h] = Addresses!InForce(b)[h]
<1> DEFINE e == [refs[b] EXCEPT ![f] = v]
<1>1. RefsOK
  BY DEF AddressesInv
<1>2. Addresses!Kept(b) \subseteq Addresses!Field \ {"cursor", "limit"}
  BY DEF Addresses!Kept, Addresses!Field
<1>3. refs' = [refs EXCEPT ![b] = e] /\ refs'[b] = e /\ DOMAIN refs' = DOMAIN refs
  BY <1>1 DEF RefsOK
<1>4. /\ DOMAIN e = Addresses!Field /\ e = [h \in DOMAIN e |-> e[h]]
      /\ \A h \in Addresses!Field : e[h] = IF h = f THEN v ELSE refs[b][h]
  BY <1>1, <1>2 DEF RefsOK, Proper
<1> HIDE DEF e
<1>5. Addresses!Browsers' = Addresses!Browsers
  BY DEF Addresses!Browsers
<1>6. Proper(b, e)
  BY <1>1, <1>2, <1>4, ProperByFields DEF RefsOK
<1>7. RefsOK'
  <2>1. \A c \in Addresses!Browsers \ {b} : refs'[c] = refs[c] /\ Proper(c, refs[c])
    BY <1>1, <1>3 DEF RefsOK
  <2>2. \A c \in Addresses!Browsers : Proper(c, refs'[c])
    BY <1>3, <1>6, <2>1
  <2>3. ASSUME NEW c \in Addresses!Browsers PROVE Proper(c, refs[c])'
    BY <2>2 DEF Proper, Addresses!ListsNodes, Addresses!HasParties, Addresses!HasStatus,
                Addresses!Lists, Addresses!Field
  <2>4. refs' = [c \in DOMAIN refs' |-> refs'[c]]
    BY <1>1, <1>3 DEF RefsOK
  <2> QED BY <1>1, <1>3, <1>5, <2>3, <2>4 DEF RefsOK
<1>8. ASSUME NEW c PROVE Addresses!Read(c, told)' = Addresses!Read(c, told)
  BY DEF Addresses!Read, Addresses!NodesRead
<1>9. ASSUME NEW c \in Addresses!Browsers \ {b} PROVE Addresses!InForce(c)' = Addresses!InForce(c)
  <2>1. refs'[c] = refs[c]
    BY <1>1, <1>3 DEF RefsOK
  <2> QED BY <1>8, <2>1 DEF Addresses!InForce, Addresses!Kept
<1>10. Addresses!InForce(b)' = [h \in Addresses!Field |-> IF h \in Addresses!Kept(b) THEN e[h]
                                                        ELSE Addresses!Read(b, told)[h]]
  BY <1>3, <1>4, <1>8 DEF Addresses!InForce, Addresses!Kept
<1>11. /\ Proper(b, Addresses!InForce(b))
       /\ \A h \in Addresses!Field :
              Addresses!InForce(b)[h] = IF h \in Addresses!Kept(b) THEN refs[b][h]
                                        ELSE Addresses!Read(b, told)[h]
  BY <1>1, InForceIs
<1>12. \A h \in Addresses!Field \ {f} : Addresses!InForce(b)'[h] = Addresses!InForce(b)[h]
  BY <1>4, <1>10, <1>11
<1>13. Addresses!Effective(Addresses!InForce(b)') = Addresses!Effective(Addresses!Read(b, told))
  <2> DEFINE r == Addresses!Read(b, told)
             i == Addresses!InForce(b)'
  <2>1. Proper(b, r)
    BY ReadIsProper
  <2>2. \A h \in Addresses!Field : i[h] = IF h \in Addresses!Kept(b) THEN g[h] ELSE r[h]
    BY <1>2, <1>4, <1>10, <1>11
  <2>3. DOMAIN i = Addresses!Field /\ i = [h \in DOMAIN i |-> i[h]]
    BY <1>10
  <2> HIDE DEF r, i
  <2>4. Addresses!Effective(r) = Addresses!Effective(g)
    BY DEF r
  <2>5. r.party = g.party /\ \A h \in Addresses!Field \ {"mode"} : r[h] = g[h]
    BY <2>1, <2>4 DEF Proper, Addresses!Effective, Addresses!Field
  <2>6. r.party # {} => r.mode = g.mode
    BY <2>4, <2>5 DEF Proper, Addresses!Effective, Addresses!Field
  <2>7. i.party = r.party /\ (\A h \in Addresses!Field \ {"mode"} : i[h] = r[h])
        /\ (r.party # {} => i.mode = r.mode)
    BY <2>2, <2>5, <2>6 DEF Addresses!Field
  <2>8. /\ DOMAIN Addresses!Effective(i) = Addresses!Field
        /\ DOMAIN Addresses!Effective(r) = Addresses!Field
        /\ Addresses!Effective(i) = [h \in DOMAIN Addresses!Effective(i) |-> Addresses!Effective(i)[h]]
        /\ Addresses!Effective(r) = [h \in DOMAIN Addresses!Effective(r) |-> Addresses!Effective(r)[h]]
    BY <2>1, <2>3 DEF Proper, Addresses!Effective
  <2>9. \A h \in Addresses!Field : Addresses!Effective(i)[h] = Addresses!Effective(r)[h]
    BY <2>1, <2>3, <2>7 DEF Proper, Addresses!Effective, Addresses!Field
  <2>10. Addresses!Effective(i) = Addresses!Effective(r)
    BY <2>8, <2>9, SameFilters
  <2> QED BY <2>10 DEF i, r
<1>14. Addresses!AddressTellsTheFilters'
  <2>1. ASSUME NEW c \in Addresses!Browsers
        PROVE  Addresses!Effective(Addresses!InForce(c)') = Addresses!Effective(Addresses!Read(c, told))
    BY <1>9, <1>13 DEF AddressesInv, Addresses!AddressTellsTheFilters
  <2> QED BY <1>5, <1>8, <2>1 DEF Addresses!AddressTellsTheFilters, Addresses!Effective
<1> QED BY <1>7, <1>9, <1>12, <1>14 DEF AddressesInv

LEMMA StutterKeeps ==
  ASSUME AddressesInv, UNCHANGED <<view, told, offered, refs>>
  PROVE  /\ AddressesInv'
         /\ \A b : Addresses!Effective(Addresses!InForce(b))' = Addresses!Effective(Addresses!InForce(b))
<1>1. ASSUME NEW b
      PROVE  /\ Addresses!Read(b, told)' = Addresses!Read(b, told)
             /\ Addresses!InForce(b)' = Addresses!InForce(b)
  BY DEF Addresses!InForce, Addresses!Read, Addresses!NodesRead
<1>2. ASSUME NEW b
      PROVE  /\ Addresses!Effective(Addresses!InForce(b))' = Addresses!Effective(Addresses!InForce(b))
             /\ Addresses!Effective(Addresses!Read(b, told))' = Addresses!Effective(Addresses!Read(b, told))
  BY <1>1 DEF Addresses!Effective
<1>3. Addresses!Browsers' = Addresses!Browsers
  BY DEF Addresses!Browsers
<1>4. RefsOK'
  BY <1>3 DEF AddressesInv, RefsOK, Proper, Addresses!Field
<1>5. Addresses!AddressTellsTheFilters'
  BY <1>2, <1>3 DEF AddressesInv, Addresses!AddressTellsTheFilters
<1> QED BY <1>2, <1>4, <1>5 DEF AddressesInv

\* What an edit does to the filters in force, of its browser and of others.
LEMMA EditKeeps ==
  ASSUME AddressesInv, NEW b \in Addresses!Browsers, NEW f \in Addresses!Field,
         NEW v \in Addresses!Values(b, f), Addresses!Edit(b, f, v)
  PROVE  /\ AddressesInv'
         /\ \A c \in Addresses!Browsers \ {b} :
              Addresses!Effective(Addresses!InForce(c))' = Addresses!Effective(Addresses!InForce(c))
         /\ \A h \in Addresses!Field \ {f, "cursor", "mode"} :
              Addresses!Effective(Addresses!InForce(b))'[h] = Addresses!Effective(Addresses!InForce(b))[h]
<1>1. RefsOK
  BY DEF AddressesInv
<1> DEFINE r == IF f \in Addresses!Kept(b) THEN [refs EXCEPT ![b][f] = v] ELSE refs
<1>2. PICK g : /\ Proper(b, g) /\ g[f] = v
               /\ \A h \in Addresses!Field \ {f, "cursor"} : g[h] = Addresses!InForce(b)[h]
               /\ Addresses!Push(Addresses!Build(b, g), r)
  BY <1>1, EditDoes
<1> DEFINE q == Addresses!Build(b, g)
<1>3. Addresses!Effective(Addresses!Read(b, q)) = Addresses!Effective(g)
  BY <1>2, RoundTrip
<1>4. \A c \in Addresses!Browsers \ {b} : Addresses!Read(c, q) = Addresses!Read(c, told)
  BY OthersReadTheSame
<1>5. view' = view /\ offered' = offered
  BY <1>2 DEF Addresses!Push
<1>6. \A d : DOMAIN d = Addresses!Field =>
        \A h \in Addresses!Field \ {"mode"} : Addresses!Effective(d)[h] = d[h]
  BY DEF Addresses!Effective, Addresses!Field
<1>7. DOMAIN g = Addresses!Field /\ DOMAIN Addresses!InForce(b) = Addresses!Field
  BY <1>1, <1>2, InForceIs DEF Proper
<1> HIDE DEF q, r
<1>8. CASE q # told
  <2>1. /\ AddressesInv'
        /\ \A c \in Addresses!Browsers : Addresses!InForce(c)' = Addresses!Read(c, q)
    BY <1>1, <1>2, <1>8, PushKeeps DEF q
  <2>2. \A c \in Addresses!Browsers :
          Addresses!Effective(Addresses!InForce(c))' = Addresses!Effective(Addresses!Read(c, q))
    BY <2>1 DEF Addresses!Effective
  <2>3. \A c \in Addresses!Browsers \ {b} :
          Addresses!Effective(Addresses!InForce(c))' = Addresses!Effective(Addresses!InForce(c))
    BY <1>4, <2>2 DEF AddressesInv, Addresses!AddressTellsTheFilters
  <2>4. ASSUME NEW h \in Addresses!Field \ {f, "cursor", "mode"}
        PROVE  Addresses!Effective(Addresses!InForce(b))'[h] = Addresses!Effective(Addresses!InForce(b))[h]
    BY <1>2, <1>3, <1>6, <1>7, <2>2
  <2> QED BY <2>1, <2>3, <2>4
<1>9. CASE q = told
  <2>1. told' = told /\ refs' = r
    BY <1>2, <1>9 DEF Addresses!Push, q
  <2>2. CASE f \in Addresses!Kept(b)
    <3>1. refs' = [refs EXCEPT ![b][f] = v]
      BY <2>1, <2>2 DEF r
    <3>2. /\ AddressesInv'
          /\ \A c \in Addresses!Browsers \ {b} : Addresses!InForce(c)' = Addresses!InForce(c)
          /\ \A h \in Addresses!Field \ {f} : Addresses!InForce(b)'[h] = Addresses!InForce(b)[h]
      BY <1>2, <1>3, <1>5, <1>9, <2>1, <2>2, <3>1, SetKeeps
    <3>3. DOMAIN Addresses!InForce(b)' = Addresses!Field
      BY <1>5, <3>2, InForceStays DEF AddressesInv
    <3>4. Addresses!Effective(Addresses!InForce(b))' = Addresses!Effective(Addresses!InForce(b)')
      BY DEF Addresses!Effective
    <3>5. \A h \in Addresses!Field \ {f, "cursor", "mode"} :
            Addresses!Effective(Addresses!InForce(b)')[h] = Addresses!Effective(Addresses!InForce(b))[h]
      BY <1>6, <1>7, <3>2, <3>3
    <3> QED BY <3>2, <3>4, <3>5 DEF Addresses!Effective
  <2>3. CASE f \notin Addresses!Kept(b)
    <3>1. UNCHANGED <<view, told, offered, refs>>
      BY <1>5, <2>1, <2>3 DEF r
    <3> QED BY <3>1, StutterKeeps
  <2> QED BY <2>2, <2>3
<1> QED BY <1>8, <1>9

LEMMA AtMostOne == ASSUME NEW S, NEW x, S \subseteq {x} PROVE Cardinality(S) <= 1
<1>1. CASE S = {}
  BY <1>1, FS_EmptySet
<1>2. CASE S = {x}
  BY <1>2, FS_Singleton
<1> QED BY <1>1, <1>2

LEMMA SameCardinality == ASSUME NEW S PROVE Addresses!Cardinality(S) = Cardinality(S)
  BY DEF Addresses!Cardinality, Cardinality

LEMMA NodesKeepEffective ==
  ASSUME NEW b, NEW g, NEW h, NEW w, Proper(b, g), Proper(b, h),
         Addresses!Effective(g) = Addresses!Effective(h)
  PROVE  Addresses!Effective([g EXCEPT !.node = w]) = Addresses!Effective([h EXCEPT !.node = w])
<1> DEFINE c == [g EXCEPT !.node = w]
           d == [h EXCEPT !.node = w]
<1>1. g.party = h.party /\ \A f \in Addresses!Field \ {"mode"} : g[f] = h[f]
  BY DEF Proper, Addresses!Effective, Addresses!Field
<1>2. g.party # {} => g.mode = h.mode
  BY <1>1 DEF Proper, Addresses!Effective, Addresses!Field
<1>3. /\ DOMAIN c = Addresses!Field /\ c = [f \in DOMAIN c |-> c[f]]
      /\ DOMAIN d = Addresses!Field /\ d = [f \in DOMAIN d |-> d[f]]
  BY DEF Proper
<1>4. /\ \A f \in Addresses!Field : c[f] = IF f = "node" THEN w ELSE g[f]
      /\ \A f \in Addresses!Field : d[f] = IF f = "node" THEN w ELSE h[f]
  BY DEF Proper, Addresses!Field
<1> HIDE DEF c, d
<1>5. /\ DOMAIN Addresses!Effective(c) = Addresses!Field
      /\ DOMAIN Addresses!Effective(d) = Addresses!Field
      /\ Addresses!Effective(c) = [f \in DOMAIN Addresses!Effective(c) |-> Addresses!Effective(c)[f]]
      /\ Addresses!Effective(d) = [f \in DOMAIN Addresses!Effective(d) |-> Addresses!Effective(d)[f]]
  BY <1>3 DEF Addresses!Effective
<1>6. \A f \in Addresses!Field : Addresses!Effective(c)[f] = Addresses!Effective(d)[f]
  BY <1>1, <1>2, <1>3, <1>4 DEF Addresses!Effective, Addresses!Field
<1>7. Addresses!Effective(c) = Addresses!Effective(d)
  BY <1>5, <1>6, SameFilters
<1> QED BY <1>7 DEF c, d

\* More nodes to choose from: every browser reads its nodes again.
LEMMA AddressNodesKeep == ASSUME AddressesInv, Addresses!NodesArrive PROVE AddressesInv'
<1>1. PICK N \in SUBSET Node :
        /\ offered \subseteq N /\ offered' = N
        /\ refs' = [b \in Addresses!Browsers |-> [refs[b] EXCEPT !.node = Addresses!NodesReadOf(b, told, N)]]
  BY DEF Addresses!NodesArrive
<1>2. view' = view /\ told' = told /\ Addresses!Browsers' = Addresses!Browsers
  BY DEF Addresses!NodesArrive, Addresses!Browsers
<1>3. RefsOK
  BY DEF AddressesInv
<1>4. ASSUME NEW b \in Addresses!Browsers
      PROVE  /\ Proper(b, refs[b])'
             /\ Addresses!Effective(Addresses!InForce(b))' = Addresses!Effective(Addresses!Read(b, told))'
  <2> DEFINE d == refs[b]
             w == Addresses!NodesReadOf(b, told, N)
             e == [d EXCEPT !.node = w]
             r == Addresses!Read(b, told)
             i == Addresses!InForce(b)
  <2>1. refs'[b] = e
    BY <1>1
  <2>2. Proper(b, d) /\ Proper(b, r)
    BY <1>3, ReadIsProper DEF RefsOK
  <2>3. w \subseteq N /\ (~Addresses!ListsNodes(b) => w = {})
    BY DEF Addresses!NodesReadOf
  <2>4. Addresses!Read(b, told)' = [r EXCEPT !.node = w]
    <3>1. Addresses!Read(b, told)' =
            [node |-> w, party |-> Addresses!PartiesRead(b, told), mode |-> Addresses!ModeRead(b, told),
             list |-> IF Addresses!Lists(b)
                        THEN Addresses!Held(told, Addresses!QueryKey(b, "list")) ELSE {},
             status |-> Addresses!StatusRead(b, told), limit |-> Addresses!LimitRead(b, told),
             cursor |-> Addresses!Held(told, Addresses!QueryKey(b, "cursor"))]
      BY <1>1, <1>2 DEF Addresses!Read, Addresses!NodesRead
    <3> HIDE DEF w
    <3> QED BY <3>1 DEF Addresses!Read
  <2>5. /\ Proper(b, i)
        /\ \A h \in Addresses!Field : i[h] = IF h \in Addresses!Kept(b) THEN d[h] ELSE r[h]
    BY <1>3, InForceIs
  <2>6. Addresses!Effective(i) = Addresses!Effective(r)
    BY DEF AddressesInv, Addresses!AddressTellsTheFilters
  <2>7. Addresses!InForce(b)' = [h \in DOMAIN e |-> IF h \in Addresses!Kept(b) THEN e[h]
                                                  ELSE [r EXCEPT !.node = w][h]]
    BY <2>1, <2>4 DEF Addresses!InForce, Addresses!Kept
  <2> HIDE DEF d, w, r, i
  <2>8. Proper(b, refs[b])'
    <3>1. /\ DOMAIN e = Addresses!Field /\ e = [h \in DOMAIN e |-> e[h]]
          /\ \A h \in Addresses!Field : e[h] = IF h = "node" THEN w ELSE d[h]
      BY <2>2 DEF Proper, e, Addresses!Field
    <3> HIDE DEF e
    <3> QED BY <1>1, <2>1, <2>2, <2>3, <3>1
            DEF Proper, Addresses!ListsNodes, Addresses!HasParties, Addresses!HasStatus,
                Addresses!Lists, Addresses!Field
  <2>9. Addresses!InForce(b)' = [i EXCEPT !.node = w]
    <3> DEFINE j == Addresses!InForce(b)'
               l == [i EXCEPT !.node = w]
    <3>1. DOMAIN j = Addresses!Field /\ j = [h \in DOMAIN j |-> j[h]]
      BY <2>2, <2>7 DEF Proper
    <3>2. DOMAIN l = Addresses!Field /\ l = [h \in DOMAIN l |-> l[h]]
      BY <2>5 DEF Proper
    <3>3. \A h \in Addresses!Field : j[h] = l[h]
      BY <2>2, <2>5, <2>7 DEF Proper, Addresses!Field
    <3> HIDE DEF j, l
    <3>4. j = l
      BY <3>1, <3>2, <3>3, SameFilters
    <3> QED BY <3>4 DEF j, l
  <2>10. Addresses!Effective([i EXCEPT !.node = w]) = Addresses!Effective([r EXCEPT !.node = w])
    BY <2>2, <2>5, <2>6, NodesKeepEffective
  <2>11. Addresses!Effective(Addresses!InForce(b)') = Addresses!Effective(Addresses!Read(b, told)')
    BY <2>4, <2>9, <2>10
  <2> QED BY <2>8, <2>11 DEF Addresses!Effective
<1>5. DOMAIN refs' = Addresses!Browsers /\ refs' = [b \in DOMAIN refs' |-> refs'[b]]
  BY <1>1
<1>6. RefsOK'
  BY <1>2, <1>4, <1>5 DEF RefsOK
<1>7. Addresses!AddressTellsTheFilters'
  BY <1>2, <1>4 DEF Addresses!AddressTellsTheFilters
<1> QED BY <1>6, <1>7 DEF AddressesInv

LEMMA AddressNextKeeps ==
  ASSUME AddressesInv, [Addresses!Next]_Addresses!vars
  PROVE  AddressesInv'
<1>1. CASE Addresses!EditAny
  BY <1>1, EditKeeps DEF Addresses!EditAny, Addresses!EditOf
<1>2. CASE Addresses!Navigate
  BY <1>2, PushKeeps DEF AddressesInv, Addresses!Navigate
<1>3. CASE UNCHANGED Addresses!vars
  BY <1>3, StutterKeeps DEF Addresses!vars
<1> QED BY <1>1, <1>2, <1>3, AddressNodesKeep DEF Addresses!Next

LEMMA AddressInitHolds == Addresses!Init => AddressesInv
<1> SUFFICES ASSUME Addresses!Init PROVE AddressesInv
  OBVIOUS
<1>1. DOMAIN refs = Addresses!Browsers /\ refs = [b \in DOMAIN refs |-> refs[b]]
      /\ \A b \in Addresses!Browsers : refs[b] = Addresses!Read(b, told)
  BY DEF Addresses!Init
<1>2. RefsOK
  BY <1>1, ReadIsProper DEF RefsOK
<1>3. ASSUME NEW b \in Addresses!Browsers PROVE Addresses!InForce(b) = Addresses!Read(b, told)
  <2> DEFINE g == Addresses!InForce(b)
             r == Addresses!Read(b, told)
  <2>1. Proper(b, g) /\ Proper(b, r) /\ \A f \in Addresses!Field : g[f] = r[f]
    BY <1>1, <1>2, InForceIs, ReadIsProper
  <2> HIDE DEF g, r
  <2>2. g = r
    BY <2>1, SameFilters DEF Proper
  <2> QED BY <2>2 DEF g, r
<1> QED BY <1>2, <1>3 DEF AddressesInv, Addresses!AddressTellsTheFilters

LEMMA AddressInvariant == Addresses!Spec => []AddressesInv
<1>1. AddressesInv /\ [Addresses!Next]_Addresses!vars => AddressesInv'
  BY AddressNextKeeps
<1> QED BY <1>1, AddressInitHolds, PTL DEF Addresses!Spec

(* The address tells the filters in force: whatever is edited, whichever browser of the
   page keeps filters beside it and whatever nodes arrive, opening it again lists the same. *)
THEOREM AddressTells == Addresses!Spec => []AddressTellsTheFilters
<1>1. AddressesInv => AddressTellsTheFilters
  BY DEF AddressesInv, AddressTellsTheFilters
<1> QED BY <1>1, AddressInvariant, PTL

(* An edit changes one filter of one browser: those of another on the page stay. *)
THEOREM EditsAreOfOneFilter == Addresses!Spec => EditsChangeOneFilter
<1> DEFINE D(b) == {f \in Addresses!Field : Addresses!Effective(Addresses!InForce(b))'[f]
                                         # Addresses!Effective(Addresses!InForce(b))[f]}
           A == (<<told, refs>>' # <<told, refs>> /\ ~Addresses!NodesArrive /\ ~Addresses!Navigate) =>
                  LET Changed(b) == {f \in Addresses!Field : Addresses!Effective(Addresses!InForce(b))'[f]
                                                           # Addresses!Effective(Addresses!InForce(b))[f]}
                  IN /\ Addresses!Cardinality({b \in Addresses!Browsers : Changed(b) # {}}) <= 1
                     /\ \A b \in Addresses!Browsers :
                          Addresses!Cardinality(Changed(b) \ {"cursor", "mode"}) <= 1
<1>1. ASSUME AddressesInv, [Addresses!Next]_Addresses!vars PROVE [A]_Addresses!vars
  <2>1. SUFFICES ASSUME Addresses!EditAny PROVE A
    BY <1>1 DEF Addresses!Next, Addresses!vars
  <2>2. PICK b \in Addresses!Browsers, f \in Addresses!Field :
          \E v \in Addresses!Values(b, f) : Addresses!Edit(b, f, v)
    BY <2>1 DEF Addresses!EditAny, Addresses!EditOf
  <2>3. \A c \in Addresses!Browsers \ {b} : D(c) = {}
    BY <1>1, <2>2, EditKeeps
  <2>4. D(b) \ {"cursor", "mode"} \subseteq {f}
    BY <1>1, <2>2, EditKeeps
  <2> HIDE DEF D
  <2>5. {c \in Addresses!Browsers : D(c) # {}} \subseteq {b}
    BY <2>3
  <2>6. Addresses!Cardinality({c \in Addresses!Browsers : D(c) # {}}) <= 1
    BY <2>5, AtMostOne, SameCardinality
  <2>7. \A c \in Addresses!Browsers : Addresses!Cardinality(D(c) \ {"cursor", "mode"}) <= 1
    BY <2>3, <2>4, AtMostOne, SameCardinality
  <2> QED BY <2>6, <2>7 DEF D
<1> QED BY <1>1, AddressInvariant, PTL
        DEF EditsChangeOneFilter, Addresses!EditsChangeOneFilter, Addresses!Spec

-----------------------------------------------------------------------------
(* Each behaviour of the three models of pages together is one of each of them, so what
   is proved of the three holds of MCSpec: all that is checked of it. *)
THEOREM PagesAreOfComponents ==
  MCSpec => /\ Spec /\ Parties!Spec /\ Addresses!Spec
            /\ RedirectsWhereAsked /\ EditsChangeOneFilter
            /\ [](/\ SettledSectionAnswersTheAddress /\ CursorIsOfTheList
                  /\ RefreshingListIsAskedOnce /\ PartiesPageAgrees /\ AddressTellsTheFilters)
<1>1. MCInit => Init /\ Parties!Init /\ Addresses!Init
  BY DEF MCInit
<1>2. [MCNext]_<<vars, mounted, partyVars, addressVars>> =>
        [Next]_vars /\ [Parties!Next]_(Parties!vars) /\ [Addresses!Next]_(Addresses!vars)
  <2> SUFFICES ASSUME [MCNext]_<<vars, mounted, partyVars, addressVars>>
               PROVE  /\ Next \/ UNCHANGED vars
                      /\ Parties!Next \/ UNCHANGED partyVars
                      /\ Addresses!Next \/ UNCHANGED addressVars
    BY DEF partyVars, Parties!vars, Parties!view, Parties!space, addressVars, Addresses!vars
  <2> QED BY DEF MCNext
<1>3. MCSpec => Spec /\ Parties!Spec /\ Addresses!Spec
  BY <1>1, <1>2, PTL DEF MCSpec, Spec, Parties!Spec, Addresses!Spec
<1> QED BY <1>3, SettledSections, CursorsAreOfTheirList, RefreshingListsAskedOnce, RedirectsAsked,
           PartiesPageInvariant, AddressTells, EditsAreOfOneFilter, PTL
=============================================================================
