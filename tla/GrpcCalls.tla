------------------------------ MODULE GrpcCalls ------------------------------
(***************************************************************************)
(* The operations of GrpcOperationsService.  Each opens a client of its own, *)
(* makes its calls one after the other or, under Promise.all, side by side,  *)
(* and disposes the client however it ends.  The participant goes on while   *)
(* an operation asks it: every call is answered from the world of its moment.*)
(***************************************************************************)
EXTENDS Naturals, Sequences, FiniteSets

CONSTANTS Party,         \* numbers: parties are listed in their order
          Contract,      \* holdings
          Synchronizer,
          Member,        \* participants that host a party, and the keys that sign for it
          Package,
          MaxOffset      \* bound: changes of the participant

Operation == {"info", "status", "local", "fingerprints", "holdings", "topology",
         "traffic", "refs", "packages"}
Lists == {"hosts", "keys"}
Nobody == [l \in Lists |-> [s \in Synchronizer |-> [on |-> {}, threshold |-> 1]]]
Call(n, x) == [name |-> n, of |-> x]
Local == Call("local", 0)

VARIABLES
  kind,       \* the operation of this behaviour
  world,      \* the participant, offset by offset
  vetted,     \* the package of the holding interface is known to it
  admin,      \* it has the admin listing of packages
  client,     \* "none", "open" or "disposed"
  calls,      \* calls under way
  listed, token,          \* local parties: listed, and up to where
  pinned, given,          \* holdings: the offset a party is read at, and how far
  found,                  \* holdings read, by party
  hosting, owning, raw,   \* topology: aggregated hosts and keys, raw rows of both
  stores,                 \* stores not yet read
  refs,       \* times a package is listed
  missed,     \* a failure was tolerated
  answer      \* "none", "told", "failed", or "unvetted" for the empty answer

listing == <<listed, token>>
walk == <<pinned, given, found>>
topology == <<hosting, owning, raw, stores>>
data == <<listing, walk, topology, refs, missed>>
setting == <<kind, world, vetted, admin>>
vars == <<setting, client, calls, data, answer>>

Now == world[Len(world)]
Span == DOMAIN world

-----------------------------------------------------------------------------
(* The participant.                                                          *)
Quiet == [local |-> {}, sees |-> [c \in Contract |-> {}], mapped |-> Nobody,
          admin |-> {}, known |-> {}]

\* Bound: a party has keys only where it has hosts.
Mappings ==
  {h \in [Lists -> [Synchronizer -> [on : SUBSET Member, threshold : {1, 2}]]] :
     \A s \in Synchronizer :
       /\ h["hosts"][s].on = {} => h["keys"][s].on = {}
       /\ \A l \in Lists : h[l][s].on = {} => h[l][s].threshold = 1}

\* Bound: only what the operation asks about is there and changes.
Worlds ==
  CASE kind \in {"local", "fingerprints"} -> {[Quiet EXCEPT !.local = l] : l \in SUBSET Party}
    [] kind = "holdings" -> {[Quiet EXCEPT !.local = Party, !.sees = f] :
                               f \in [Contract -> SUBSET Party]}
    [] kind = "topology" -> {[Quiet EXCEPT !.mapped = h] : h \in Mappings}
    [] kind = "refs" -> {[Quiet EXCEPT !.admin = l.admin, !.known = l.known] :
                           l \in [admin : SUBSET Package, known : SUBSET Package]}
    [] OTHER -> {[Quiet EXCEPT !.admin = Package]}

NoRows == [l \in Lists |-> {}]
NoOperation ==
  /\ listed = {} /\ token = 0 /\ pinned = 0 /\ given = {} /\ found = {}
  /\ hosting = {} /\ owning = {} /\ raw = NoRows /\ stores = {}
  /\ refs = [p \in Package |-> 0] /\ missed = FALSE

Init == /\ kind \in Operation
        /\ world \in {<<w>> : w \in Worlds}
        /\ vetted \in BOOLEAN /\ (kind # "holdings" => vetted)
        /\ admin \in BOOLEAN /\ (kind # "refs" => admin)
        /\ client = "none" /\ calls = {}
        /\ NoOperation /\ answer = "none"

\* The span of an operation: what went before and after it does not matter.
Change ==
  /\ client = "open" /\ Len(world) < MaxOffset
  /\ \E w \in Worlds \ {Now} : world' = Append(world, w)
  /\ UNCHANGED <<kind, vetted, admin, client, calls, data, answer>>

-----------------------------------------------------------------------------
(* One operation: withClient.                                                *)

\* The calls an operation begins with.
FirstCalls ==
  CASE kind = "info" -> {Call("health", 0), Call("version", 0)}
    [] kind \in {"status", "traffic"} -> {Call("status", 0)}
    [] kind \in {"local", "holdings"} -> {Local}
    [] kind = "fingerprints" -> {Call("parties", 0), Local}
    [] kind = "topology" -> {Call("parties", 0), Call("owners", 0), Call("stores", 0)}
    [] kind = "refs" -> {Call("admin", 0)}
    [] kind = "packages" -> {Call("package", p) : p \in Package}

Open ==
  /\ client = "none"
  /\ client' = "open" /\ calls' = FirstCalls
  /\ UNCHANGED <<setting, data, answer>>

\* The channel's credentials are missing from the environment.
OpenFails ==
  /\ client = "none"
  /\ client' = "disposed" /\ answer' = "failed"
  /\ UNCHANGED <<setting, calls, data>>

\* Every call has ended: the answer is put together and the client disposed.
Finish ==
  /\ client = "open" /\ calls = {}
  /\ client' = "disposed" /\ answer' = "told"
  /\ UNCHANGED <<setting, calls, data>>

\* Calls whose failure is caught where they are made.
Tolerated == {"version", "known", "stores", "raw"}

\* The first failure under Promise.all ends the operation and disposes the client;
\* what the other calls bring is nobody's.
CallFails(c) ==
  /\ c \in calls /\ c.name \notin Tolerated
  /\ ~(c.name = "admin" /\ ~admin) /\ (c.name = "contracts" => vetted)
  /\ client' = "disposed" /\ calls' = {} /\ answer' = "failed"
  /\ UNCHANGED <<setting, data>>

\* isMissingHoldingV2PackageError: a participant without the package holds nothing.
PackageUnknown(c) ==
  /\ c \in calls /\ c.name = "contracts" /\ ~vetted
  /\ client' = "disposed" /\ calls' = {} /\ answer' = "unvetted"
  /\ UNCHANGED <<setting, data>>

Continue(c, next) == calls' = (calls \ {c}) \cup next

-----------------------------------------------------------------------------
(* listLocalPartiesWithClient: the known parties, page by page.               *)
Least(S) == CHOOSE x \in S : \A y \in S : x <= y
Beyond(t) == {p \in Party : p > t}

\* What follows the listing: the holdings of its first party.
AfterLocal(all) ==
  IF kind = "holdings" /\ all # {} THEN {Call("contracts", Least(all))} ELSE {}

\* Mutant of LocalPage: the token of the next page is not followed.
LocalPageOnly(c) ==
  /\ c = Local /\ c \in calls
  /\ listed' = listed \cup (Now.local \cap {Least(Beyond(token))})
  /\ Continue(c, AfterLocal(listed'))
  /\ UNCHANGED <<setting, client, token, walk, topology, refs, missed, answer>>

\* Bound: a page holds one party.
LocalPage(c) ==
  /\ c = Local /\ c \in calls
  /\ LET p == Least(Beyond(token))
     IN /\ listed' = listed \cup (Now.local \cap {p})
        /\ token' = p
        /\ Continue(c, IF Beyond(p) = {} THEN AfterLocal(listed') ELSE {Local})
  /\ UNCHANGED <<setting, client, walk, topology, refs, missed, answer>>

-----------------------------------------------------------------------------
(* fetchHoldingV2ActiveContracts: party by party, page by page, each party at *)
(* the offset its first page was answered for.                               *)
SeenBy(p, o) == {x \in Contract : p \in world[o].sees[x]}

\* Mutant of Offset: every page is asked for the present.
OffsetOfNow == Len(world)
Offset == IF pinned = 0 THEN Len(world) ELSE pinned

\* Bound: a page holds one contract.
ContractsPage(c) ==
  /\ c \in calls /\ c.name = "contracts" /\ vetted
  /\ LET p == c.of
         left == SeenBy(p, Offset) \ given
         more == {q \in listed : q > p}
     IN \E page \in {x \in SUBSET left : Cardinality(x) = IF left = {} THEN 0 ELSE 1} :
          /\ found' = found \cup {<<p, x>> : x \in page}
          /\ IF left \ page # {}
             THEN /\ given' = given \cup page /\ pinned' = Offset
                  /\ UNCHANGED calls
             ELSE /\ given' = {} /\ pinned' = 0
                  /\ Continue(c, IF more = {} THEN {} ELSE {Call("contracts", Least(more))})
  /\ UNCHANGED <<setting, client, listing, topology, refs, missed, answer>>

-----------------------------------------------------------------------------
(* fetchPartyTopology: the aggregated hosts and keys, and the raw mappings of *)
(* the first synchronizer that has any, which tell of both.                  *)
Row(m, t, ss) == [id |-> m, threshold |-> t, synchronizers |-> ss]
On(l, m) == {s \in Synchronizer : m \in Now.mapped[l][s].on}
Aggregated(l) == {Row(m, 0, On(l, m)) : m \in {x \in Member : On(l, x) # {}}}

\* Mutant of RawRows: mappings are not marked with the store they were read from.
RawRowsUnmarked(s) ==
  [l \in Lists |-> {Row(m, Now.mapped[l][s].threshold, {}) : m \in Now.mapped[l][s].on}]

\* extractRawTopologySynchronizerId marks the mappings of a store.
RawRows(s) ==
  [l \in Lists |-> {Row(m, Now.mapped[l][s].threshold, {s}) : m \in Now.mapped[l][s].on}]

\* mergePartyTopologyParticipants and mergePartyTopologyKeyMappings: one row by id; the
\* aggregated rows have no threshold.
MergeRows(rows) ==
  {LET same == {r \in rows : r.id = m}
   IN Row(m, IF \E r \in same : r.threshold # 0
             THEN (CHOOSE r \in same : r.threshold # 0).threshold ELSE 0,
          UNION {r.synchronizers : r \in same})
    : m \in {r.id : r \in rows}}

\* partyToParticipants and partyToKeyMappings.
TopologyRows(l) == MergeRows((IF l = "hosts" THEN hosting ELSE owning) \cup raw[l])

HostsListed(c) ==
  /\ c \in calls /\ c.name = "parties" /\ Continue(c, {})
  /\ hosting' = IF kind = "topology" THEN Aggregated("hosts") ELSE {}
  /\ UNCHANGED <<setting, client, listing, walk, owning, raw, stores, refs, missed, answer>>

KeysListed(c) ==
  /\ c \in calls /\ c.name = "owners" /\ Continue(c, {})
  /\ owning' = Aggregated("keys")
  /\ UNCHANGED <<setting, client, listing, walk, hosting, raw, stores, refs, missed, answer>>

\* tryListRawPartyToParticipant asks store after store.
AskStores(c, left) ==
  /\ stores' = left
  /\ IF left = {} THEN Continue(c, {})
     ELSE \E s \in left : Continue(c, {Call("raw", s)})

StoresListed(c) ==
  /\ c \in calls /\ c.name = "stores" /\ AskStores(c, Synchronizer)
  /\ UNCHANGED <<setting, client, listing, walk, hosting, owning, raw, refs, missed, answer>>

RawListed(c) ==
  /\ c \in calls /\ c.name = "raw"
  /\ raw' = RawRows(c.of)
  /\ IF raw' = NoRows THEN AskStores(c, stores \ {c.of}) ELSE Continue(c, {}) /\ stores' = {}
  /\ UNCHANGED <<setting, client, listing, walk, hosting, owning, refs, missed, answer>>

RawFails(c) ==
  /\ c \in calls /\ c.name = "raw" /\ missed' = TRUE
  /\ AskStores(c, stores \ {c.of})
  /\ UNCHANGED <<setting, client, listing, walk, hosting, owning, raw, refs, answer>>

StoresFail(c) ==
  /\ c \in calls /\ c.name = "stores" /\ missed' = TRUE /\ Continue(c, {})
  /\ UNCHANGED <<setting, client, listing, walk, topology, refs, answer>>

-----------------------------------------------------------------------------
(* fetchPackageRefs and fetchPackagesByRefs.                                 *)
AdminListed(c) ==
  /\ c \in calls /\ c.name = "admin" /\ admin
  /\ refs' = [p \in Package |-> IF p \in Now.admin THEN 1 ELSE 0]
  /\ Continue(c, {Call("known", 0)})
  /\ UNCHANGED <<setting, client, listing, walk, topology, missed, answer>>

\* shouldFallbackToLedgerPackageListing.
AdminAbsent(c) ==
  /\ c \in calls /\ c.name = "admin" /\ ~admin
  /\ Continue(c, {Call("ledger", 0)})
  /\ UNCHANGED <<setting, client, data, answer>>

KnownListed(c) ==
  /\ c \in calls /\ c.name = "known" /\ Continue(c, {})
  /\ refs' = [p \in Package |-> IF refs[p] = 0 /\ p \in Now.known THEN 1 ELSE refs[p]]
  /\ UNCHANGED <<setting, client, listing, walk, topology, missed, answer>>

KnownFails(c) ==
  /\ c \in calls /\ c.name = "known" /\ missed' = TRUE /\ Continue(c, {})
  /\ UNCHANGED <<setting, client, listing, walk, topology, refs, answer>>

\* The ledger's listing has ids only: each archive is fetched for its name.
LedgerListed(c) ==
  /\ c \in calls /\ c.name = "ledger"
  /\ Continue(c, {Call("package", p) : p \in Now.admin})
  /\ UNCHANGED <<setting, client, data, answer>>

PackageRead(c) ==
  /\ c \in calls /\ c.name = "package" /\ Continue(c, {})
  /\ refs' = [refs EXCEPT ![c.of] = 1]
  /\ UNCHANGED <<setting, client, listing, walk, topology, missed, answer>>

-----------------------------------------------------------------------------
(* Health, status and traffic.                                               *)
HealthTold(c) ==
  /\ c \in calls /\ c.name \in {"health", "version"} /\ Continue(c, {})
  /\ UNCHANGED <<setting, client, data, answer>>

VersionFails(c) ==
  /\ c \in calls /\ c.name = "version" /\ missed' = TRUE /\ Continue(c, {})
  /\ UNCHANGED <<setting, client, listing, walk, topology, refs, answer>>

\* The traffic state is asked of every synchronizer connected to.
StatusTold(c) ==
  /\ c \in calls /\ c.name = "status"
  /\ \E connected \in IF kind = "traffic" THEN SUBSET Synchronizer ELSE {{}} :
       Continue(c, {Call("traffic", s) : s \in connected})
  /\ UNCHANGED <<setting, client, data, answer>>

TrafficTold(c) ==
  /\ c \in calls /\ c.name = "traffic" /\ Continue(c, {})
  /\ UNCHANGED <<setting, client, data, answer>>

-----------------------------------------------------------------------------
Answered ==
  \E c \in calls :
    \/ LocalPage(c) \/ ContractsPage(c) \/ PackageUnknown(c)
    \/ HostsListed(c) \/ KeysListed(c) \/ StoresListed(c) \/ RawListed(c)
    \/ AdminListed(c) \/ AdminAbsent(c) \/ KnownListed(c) \/ LedgerListed(c) \/ PackageRead(c)
    \/ HealthTold(c) \/ StatusTold(c) \/ TrafficTold(c)
    \/ CallFails(c) \/ RawFails(c) \/ StoresFail(c) \/ KnownFails(c) \/ VersionFails(c)

Next == Change \/ Open \/ OpenFails \/ Finish \/ Answered

Spec == Init /\ [][Next]_vars
-----------------------------------------------------------------------------
Told(k) == answer = "told" /\ kind = k

(* Every party that was local all along is listed, and no party that never   *)
(* was: listLocalParties pages through a list that changes meanwhile.        *)
LocalPartiesAreComplete ==
  \A k \in {"local", "fingerprints"} : Told(k) =>
    /\ \A p \in Party : (\A o \in Span : p \in world[o].local) => p \in listed
    /\ \A p \in listed : \E o \in Span : p \in world[o].local

(* The holdings of a party are those it had at one moment of the reading, all *)
(* of them, however many pages that took and whatever moved meanwhile.        *)
HoldingsOfOneMoment ==
  Told("holdings") =>
    \A p \in listed : \E o \in Span : {x \in Contract : <<p, x>> \in found} = SeenBy(p, o)

(* In the topology of a party every host, and apart from them every key, has  *)
(* one row.  It names the synchronizers the host or key was at all along, and  *)
(* no other than it was at while the participant was asked; its threshold is   *)
(* one that held at a synchronizer it names.                                  *)
TopologyRowsAgree ==
  Told("topology") =>
    \A l \in Lists :
      /\ \A r, q \in TopologyRows(l) : r.id = q.id => r = q
      /\ \A m \in Member, s \in Synchronizer :
           (\A o \in Span : m \in world[o].mapped[l][s].on)
             => \E r \in TopologyRows(l) : r.id = m /\ s \in r.synchronizers
      /\ \A r \in TopologyRows(l) : \A s \in r.synchronizers :
           \E o \in Span : r.id \in world[o].mapped[l][s].on
      /\ \A r \in TopologyRows(l) : r.threshold # 0 =>
           \E s \in r.synchronizers, o \in Span :
             /\ r.id \in world[o].mapped[l][s].on
             /\ world[o].mapped[l][s].threshold = r.threshold

(* Package references name every package once, and leave out none that the   *)
(* admin listing, or the known listing where it answered, had all along.     *)
RefsAreComplete ==
  Told("refs") =>
    \A p \in Package :
      /\ refs[p] <= 1
      /\ (\A o \in Span : p \in world[o].admin) => refs[p] = 1
      /\ (admin /\ ~missed /\ \A o \in Span : p \in world[o].known) => refs[p] = 1

(* Both listings are whole.                                                  *)
ListingsAreComplete == LocalPartiesAreComplete /\ RefsAreComplete
=============================================================================
