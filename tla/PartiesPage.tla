----------------------------- MODULE PartiesPage -----------------------------
(***************************************************************************)
(* The page of parties (frontend/src/views/PartiesView.vue): three modes     *)
(* over a selection of nodes.  Active and local parties are loaded node by   *)
(* node and merged and paged on the page; namespaces are paged by the        *)
(* backend for all selected nodes at once.                                   *)
(***************************************************************************)
EXTENDS Naturals, FiniteSets

CONSTANTS Node,      \* the configured nodes
          GrpcNode,  \* those with gRPC
          Key        \* public keys namespaces are filtered by

Mode == {"active", "all", "fingerprints"}
PartyMode == {"active", "all"}
AnyKey == "any"
Keys == Key \cup {AnyKey}
NoCursor == [nodes |-> {}, key |-> "none"]
List == [nodes : SUBSET Node, key : Keys]
NoList == [nodes |-> {}, key |-> "none", cursor |-> NoCursor]

VARIABLES
  nodes,       \* the node list: "loading", "again", "failed" or "known"
  mode,        \* selectedMode
  queried,     \* the nodes the address selects
  filter,      \* activeNodeFilters
  parties,     \* the section of a mode and a node: "empty", "loading", "told", "failed"
  partyCursor, \* the mode and nodes whose merged list the page is in
  key, cursor, \* namespaces: activeNamespaceFilter and the cursor
  ns,          \* namespaces shown: what was asked for them
  nsError, nsAsk, nsLate  \* error, the request under way and a superseded one

view == <<mode, queried, filter, key>>
space == <<cursor, ns, nsError, nsAsk, nsLate>>
vars == <<nodes, view, parties, partyCursor, space>>

-----------------------------------------------------------------------------
Init == /\ nodes = "loading" /\ mode = "active"
        /\ queried \in SUBSET Node
        /\ filter = {}
        /\ parties = [m \in PartyMode |-> [n \in Node |-> "empty"]]
        /\ partyCursor = NoCursor /\ key = AnyKey /\ cursor = NoCursor
        /\ ns = NoList /\ nsError = FALSE /\ nsAsk = NoList /\ nsLate = NoList

\* nodesForMode: local parties are asked of nodes with gRPC only.
NodesOf(m, f) == IF m = "all" THEN f \cap GrpcNode ELSE f
NodesFor(m) == NodesOf(m, filter)

\* What fetchPartyFingerprints is asked now.
Wanted == [nodes |-> filter, key |-> key, cursor |-> cursor]

\* Bound: one superseded request of namespaces.
Quiet == nsAsk # NoList => nsLate = NoList
Supersede == nsLate' = IF nsAsk # NoList THEN nsAsk ELSE nsLate

ResetNamespaces == /\ Quiet /\ Supersede
                   /\ ns' = NoList /\ nsError' = FALSE

\* loadNamespaces: nothing is asked without a node.
LoadNamespaces ==
  /\ ResetNamespaces
  /\ nsAsk' = IF filter' = {} THEN NoList ELSE Wanted'

DropNamespaces == ResetNamespaces /\ nsAsk' = NoList

\* clearPartyResults, and the forced load of a mode's nodes.
Cleared == [m \in PartyMode |-> [n \in Node |-> "empty"]]
LoadedFor(m, f) == [Cleared EXCEPT ![m] = [n \in Node |-> IF n \in NodesOf(m, f) THEN "loading"
                                                          ELSE "empty"]]

\* ensureAllNodesPartiesLoaded, forced.
LoadMode ==
  IF mode' = "fingerprints" THEN LoadNamespaces /\ UNCHANGED parties
  ELSE DropNamespaces /\ parties' = LoadedFor(mode', filter')

-----------------------------------------------------------------------------
(* What the user does.                                                       *)

\* selectMode.
SelectMode(m) ==
  /\ mode' = m
  /\ UNCHANGED <<nodes, queried, filter, key>>
  /\ IF m = "fingerprints" THEN cursor' = NoCursor /\ UNCHANGED partyCursor
                           ELSE partyCursor' = NoCursor /\ UNCHANGED cursor
  /\ LoadMode

\* Mutant of FollowQuery: results are cleared, and nothing is loaded.
FollowQueryWithoutLoad ==
  /\ filter' = queried'
  /\ partyCursor' = NoCursor /\ cursor' = NoCursor
  /\ parties' = Cleared /\ DropNamespaces

\* syncNodeFiltersFromRoute.
FollowQuery ==
  /\ filter' = queried'
  /\ partyCursor' = NoCursor /\ cursor' = NoCursor
  /\ IF mode' = "fingerprints" THEN LoadNamespaces /\ parties' = Cleared ELSE LoadMode

\* setNodeFilters, Back or a link: until the nodes are known nothing follows it.
SelectNodes(s) ==
  /\ s # queried
  /\ queried' = s
  /\ UNCHANGED <<nodes, mode, key>>
  /\ IF nodes = "known" THEN FollowQuery
     ELSE UNCHANGED <<filter, parties, partyCursor, space>>

\* The merged parties are paged on the page itself.
TurnPartyPage ==
  /\ mode # "fingerprints"
  /\ \E n \in NodesFor(mode) : parties[mode][n] = "told"
  /\ partyCursor' = [nodes |-> filter, key |-> mode]
  /\ UNCHANGED <<nodes, view, parties, space>>

\* showOlderNamespaces and showNewerNamespaces.
TurnNamespacePage ==
  /\ mode = "fingerprints" /\ ns # NoList
  /\ cursor' = [nodes |-> ns.nodes, key |-> ns.key]
  /\ UNCHANGED <<nodes, view, parties, partyCursor>>
  /\ LoadNamespaces

\* applyNamespaceAdvancedFilter and clearNamespaceAdvancedFilter.
FilterNamespaces(k) ==
  /\ mode = "fingerprints" /\ key' = k /\ cursor' = NoCursor
  /\ UNCHANGED <<nodes, mode, queried, filter, parties, partyCursor>>
  /\ LoadNamespaces

RetryNamespaces ==
  /\ nsError /\ nsError' = FALSE /\ nsAsk' = Wanted
  /\ UNCHANGED <<nodes, view, parties, partyCursor, cursor, ns, nsLate>>

RetryParties(n) ==
  /\ mode # "fingerprints" /\ n \in NodesFor(mode) /\ parties[mode][n] = "failed"
  /\ parties' = [parties EXCEPT ![mode][n] = "loading"]
  /\ UNCHANGED <<nodes, view, partyCursor, space>>

RetryNodes ==
  /\ nodes = "failed" /\ nodes' = "loading"
  /\ UNCHANGED <<view, parties, partyCursor, space>>

-----------------------------------------------------------------------------
(* What arrives.                                                             *)

\* loadNodes; its parties are not loaded again where they are there or on their way.
NodesArrive ==
  /\ nodes \in {"loading", "again"} /\ nodes' = "known"
  /\ filter' = queried
  /\ UNCHANGED <<mode, queried, key, partyCursor, cursor>>
  /\ IF mode = "fingerprints" THEN LoadNamespaces /\ UNCHANGED parties
     ELSE /\ parties' = [parties EXCEPT ![mode] =
                           [n \in Node |-> IF n \in NodesOf(mode, filter') /\ @[n] \in {"empty", "failed"}
                                           THEN "loading" ELSE @[n]]]
          /\ UNCHANGED <<ns, nsError, nsAsk, nsLate>>

\* fetchWithOneRetry.
NodesFail ==
  /\ nodes \in {"loading", "again"}
  /\ nodes' = IF nodes = "loading" THEN "again" ELSE "failed"
  /\ UNCHANGED <<view, parties, partyCursor, space>>

\* A section asks twice before it fails.
PartiesArrive(m, n) ==
  /\ parties[m][n] = "loading"
  /\ \E x \in {"told", "failed"} : parties' = [parties EXCEPT ![m][n] = x]
  /\ UNCHANGED <<nodes, view, partyCursor, space>>

NamespacesArrive ==
  /\ nsAsk # NoList /\ nsAsk' = NoList
  /\ ns' = nsAsk /\ UNCHANGED nsError
  /\ UNCHANGED <<nodes, view, parties, partyCursor, cursor, nsLate>>

NamespacesFail ==
  /\ nsAsk # NoList /\ nsAsk' = NoList
  /\ nsError' = TRUE /\ UNCHANGED ns
  /\ UNCHANGED <<nodes, view, parties, partyCursor, cursor, nsLate>>

\* A superseded answer is dropped.
LateNamespaces ==
  /\ nsLate # NoList /\ nsLate' = NoList
  /\ UNCHANGED <<nodes, view, parties, partyCursor, cursor, ns, nsError, nsAsk>>

Next ==
  \/ \E m \in Mode : SelectMode(m)
  \/ \E s \in SUBSET Node : SelectNodes(s)
  \/ TurnPartyPage \/ TurnNamespacePage
  \/ \E k \in Keys : FilterNamespaces(k)
  \/ RetryNamespaces \/ RetryNodes \/ (\E n \in Node : RetryParties(n))
  \/ NodesArrive \/ NodesFail
  \/ \E m \in PartyMode, n \in Node : PartiesArrive(m, n)
  \/ NamespacesArrive \/ NamespacesFail \/ LateNamespaces

Spec == Init /\ [][Next]_vars
-----------------------------------------------------------------------------
(* Every node selected for a mode that lists parties is being asked, has     *)
(* answered or has failed: clearing the results never leaves a gap.           *)
SelectedNodesAreTold ==
  (nodes = "known" /\ mode # "fingerprints") =>
    \A n \in NodesFor(mode) : parties[mode][n] # "empty"

(* Namespaces shown are those of the nodes, the key and the page chosen, and *)
(* none are missing once the request has ended.                              *)
NamespacesAnswerTheChoice ==
  (nodes = "known" /\ mode = "fingerprints" /\ filter # {}) =>
    nsAsk = Wanted \/ nsError \/ (nsAsk = NoList /\ ns = Wanted)

(* A page is kept only within the list it belongs to.                        *)
PagesAreOfTheList ==
  /\ mode # "fingerprints" => partyCursor \in {NoCursor, [nodes |-> filter, key |-> mode]}
  /\ mode = "fingerprints" => cursor \in {NoCursor, [nodes |-> filter, key |-> key]}
=============================================================================
