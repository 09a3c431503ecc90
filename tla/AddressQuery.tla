----------------------------- MODULE AddressQuery -----------------------------
(***************************************************************************)
(* Filters in the address.  The browsers of a page keep their filters, page   *)
(* size and cursor in the query of one address, each under keys of its own    *)
(* (queryKey).  An edit rewrites the keys of its browser (clearManagedKeys,   *)
(* buildQuery); a new address is read again (syncFiltersFromRoute).           *)
(***************************************************************************)
EXTENDS Naturals, FiniteSets, TLC

CONSTANTS
  Known,    \* nodes a page may offer to choose from
  Foreign   \* a node an old address may name

VARIABLES
  view,       \* the page: which browsers it has
  address,    \* the query: keys to what they hold
  offered,    \* nodes known so far
  refs        \* by browser: filters kept beside the address

vars == <<view, address, offered, refs>>

\* The views: the kind of each browser and its prefix.
Browser(k, p) == [kind |-> k, prefix |-> p]
BrowsersOf(v) ==
  CASE v = "party" -> {Browser("updates", "updates"), Browser("contracts", "contracts")}
    [] v = "contracts" -> {Browser("contracts", "")}
    [] v = "updates" -> {Browser("updates", "")}
    [] v = "tokens" -> {Browser("tokens", "tokens"), Browser("transfers", "")}
    [] OTHER -> {Browser("holders", "holders"), Browser("transfers", "transfers")}
Browsers == BrowsersOf(view)

\* showPartyFilters, statusFilteringEnabled, nodeFilteringEnabled.
HasParties(b) == b.kind \in {"updates", "contracts"} /\ b.prefix = ""
HasStatus(b) == b.kind = "contracts" /\ b.prefix = ""
ListsNodes(b) == b.kind = "contracts" \/ (b.kind = "updates" /\ b.prefix # "")
HasNodes(b) == ListsNodes(b) /\ offered # {}

\* Mutant of QueryKey: one set of keys for every browser.
QueryKeyUnprefixed(b, base) == <<"", base>>

\* queryKey.
QueryKey(b, base) == <<b.prefix, base>>

\* What the address holds under a key: a set of values, empty where there is no key.
Held(q, k) == IF k \in DOMAIN q THEN q[k] ELSE {}

-----------------------------------------------------------------------------
(* Reading.  "list" stands for the filters that are read and written alike:  *)
(* templates and hidden Splice, senders, receivers, types and amounts of      *)
(* transfers, names and issuers of tokens.                                   *)
Lists(b) == b.kind # "holders"

\* readNodeFilters, among the nodes N the page offers.
NodesReadOf(b, q, N) ==
  IF ~ListsNodes(b) THEN {}
  ELSE IF QueryKey(b, "node") \notin DOMAIN q THEN N
  ELSE Held(q, QueryKey(b, "node")) \cap N
NodesRead(b, q) == NodesReadOf(b, q, offered)

PartiesRead(b, q) == IF HasParties(b) THEN Held(q, QueryKey(b, "party")) ELSE {}

\* activeFilterMode: the key of the browser, or that of an older address.
ModeRead(b, q) ==
  IF Held(q, QueryKey(b, "partyMode")) # {} THEN Held(q, QueryKey(b, "partyMode"))
  ELSE IF b.prefix = "" /\ PartiesRead(b, q) # {} /\ Held(q, <<"", "mode">>) = {"and"} THEN {"and"}
  ELSE {"or"}

StatusRead(b, q) ==
  IF HasStatus(b) /\ Held(q, QueryKey(b, "status")) # {} THEN Held(q, QueryKey(b, "status")) ELSE {"all"}

\* normalizePageSize.
LimitRead(b, q) == IF Held(q, QueryKey(b, "limit")) = {} THEN {15} ELSE Held(q, QueryKey(b, "limit"))

Read(b, q) ==
  [node |-> NodesRead(b, q), party |-> PartiesRead(b, q), mode |-> ModeRead(b, q),
   list |-> IF Lists(b) THEN Held(q, QueryKey(b, "list")) ELSE {}, status |-> StatusRead(b, q),
   limit |-> LimitRead(b, q), cursor |-> Held(q, QueryKey(b, "cursor"))]

\* Contracts keep their filters in refs, updates only the nodes; pages and cursors are the address's.
Kept(b) ==
  CASE b.kind = "contracts" -> {"node", "party", "mode", "list", "status"}
    [] b.kind = "updates" -> {"node"}
    [] OTHER -> {}
InForce(b) ==
  [f \in DOMAIN refs[b] |-> IF f \in Kept(b) THEN refs[b][f] ELSE Read(b, address)[f]]

-----------------------------------------------------------------------------
(* Writing.                                                                  *)

\* clearManagedKeys.
Managed(b) ==
  {QueryKey(b, base) : base \in {"cursor", "limit", "list", "party", "partyMode", "status"}}
    \cup (IF HasNodes(b) THEN {QueryKey(b, "node")} ELSE {})
    \cup (IF b.prefix = "" /\ b.kind \in {"updates", "contracts"} THEN {<<"", "mode">>} ELSE {})

\* buildQuery: what is as by default has no key.
Written(b, f) ==
  (IF f.cursor # {} THEN {<<QueryKey(b, "cursor"), f.cursor>>} ELSE {})
    \cup (IF HasNodes(b) /\ f.node # offered THEN {<<QueryKey(b, "node"), f.node>>} ELSE {})
    \cup (IF HasParties(b) /\ f.party # {}
            THEN {<<QueryKey(b, "party"), f.party>>, <<QueryKey(b, "partyMode"), f.mode>>} ELSE {})
    \cup (IF f.list # {} THEN {<<QueryKey(b, "list"), f.list>>} ELSE {})
    \cup (IF HasStatus(b) /\ f.status # {"all"} THEN {<<QueryKey(b, "status"), f.status>>} ELSE {})
    \cup (IF f.limit # {15} THEN {<<QueryKey(b, "limit"), f.limit>>} ELSE {})

Build(b, f) ==
  LET kept == {<<k, address[k]>> : k \in DOMAIN address \ Managed(b)}
      all == kept \cup Written(b, f)
  IN [k \in {e[1] : e \in all} |-> (CHOOSE e \in all : e[1] = k)[2]]

\* Mutant of Synced: the nodes are not read again.
SyncedButNodes(q) == [b \in Browsers |-> [Read(b, q) EXCEPT !.node = refs[b].node]]

\* syncFiltersFromRoute.
Synced(q) == [b \in Browsers |-> Read(b, q)]

\* router.push: the watches run when the address has changed.
Push(q, r) ==
  /\ address' = q
  /\ refs' = (IF q = address THEN r ELSE Synced(q))
  /\ UNCHANGED <<view, offered>>

\* An edit: the filter in force is set at once, and the cursor goes.
Edit(b, f, v) ==
  LET to == [InForce(b) EXCEPT ![f] = v]
      filters == IF f = "cursor" THEN to ELSE [to EXCEPT !.cursor = {}]
  IN Push(Build(b, filters), IF f \in Kept(b) THEN [refs EXCEPT ![b][f] = v] ELSE refs)

Values(b, f) ==
  CASE f = "node" -> IF HasNodes(b) THEN SUBSET offered ELSE {}
    [] f = "party" -> IF HasParties(b) THEN SUBSET {"p1"} ELSE {}
    [] f = "mode" -> IF HasParties(b) THEN {{"and"}, {"or"}} ELSE {}
    [] f = "list" -> IF Lists(b) THEN SUBSET {"x"} ELSE {}
    [] f = "status" -> IF HasStatus(b) THEN {{"all"}, {"active"}} ELSE {}
    [] f = "limit" -> {{15}, {30}}
    [] OTHER -> {{"older"}}

Field == {"node", "party", "mode", "list", "status", "limit", "cursor"}

EditOf(b, f) == \E v \in Values(b, f) : Edit(b, f, v)

-----------------------------------------------------------------------------
Links == {<<>>, (<<"", "party">> :> {"p1"} @@ <<"", "mode">> :> {"and"}),
          (<<"updates", "node">> :> {Foreign})}

Init ==
  /\ view \in {"party", "contracts", "updates", "tokens", "token"}
  /\ address \in Links /\ offered = {}
  /\ refs = [b \in Browsers |-> Read(b, address)]

\* The nodes of a page arrive, or more of them when they are asked for again.
NodesArrive ==
  /\ \E N \in SUBSET Known :
       /\ offered \subseteq N /\ offered # N /\ offered' = N
       /\ refs' = [b \in Browsers |-> [refs[b] EXCEPT !.node = NodesReadOf(b, address, N)]]
  /\ UNCHANGED <<view, address>>

\* Back, forward, or a link.
Navigate == \E q \in Links : q # address /\ Push(q, refs)

EditAny == \E b \in Browsers, f \in Field : EditOf(b, f)
Next == EditAny \/ NodesArrive \/ Navigate

Spec == Init /\ [][Next]_vars
-----------------------------------------------------------------------------
\* How several parties are joined says nothing of none.
Effective(f) == IF f.party = {} THEN [f EXCEPT !.mode = {"or"}] ELSE f

(* The address tells the filters in force: whoever opens it again sees the    *)
(* same list, though one browser keeps filters beside it and others edit it.  *)
AddressTellsTheFilters ==
  \A b \in Browsers : Effective(InForce(b)) = Effective(Read(b, address))

(* An edit changes the filters of one browser: those of another on the page  *)
(* stay, and so does its place in the list.  Of the browser's own filters it  *)
(* changes one, except that the way parties are joined goes with the parties. *)
EditsChangeOneFilter ==
  [][(<<address, refs>>' # <<address, refs>> /\ ~NodesArrive /\ ~Navigate) =>
       LET Changed(b) == {f \in Field : Effective(InForce(b))'[f] # Effective(InForce(b))[f]}
       IN /\ Cardinality({b \in Browsers : Changed(b) # {}}) <= 1
          /\ \A b \in Browsers : Cardinality(Changed(b) \ {"cursor", "mode"}) <= 1]_vars
=============================================================================
