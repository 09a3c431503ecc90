---------------------------- MODULE NodeQueries ----------------------------
(***************************************************************************)
(* A request that asks several nodes and merges what they say              *)
(* (backend/src/pqs/pqs-summary.service.ts behind                          *)
(* backend/src/api/nodes.controller.ts).  It goes through phases; in a     *)
(* phase it puts one question to every node at once and waits for all of   *)
(* them to answer or fail.  Kinds of requests differ in their questions,   *)
(* in which failures they survive, and in when they answer 404.            *)
(*                                                                         *)
(* A request is about one thing, a party, a namespace, a token or an       *)
(* update: "asked".  "other" stands for anything else a node reports; for  *)
(* a namespace both are parties of it.                                     *)
(***************************************************************************)
EXTENDS Naturals, Sequences

CONSTANTS Node,
          GrpcNode,   \* nodes in mode pqs_with_grpc
          Configured  \* the lists of nodes the backend may be started with

Item == {"asked", "other"}
Failed == {"failed"}
NotAsked == {"not asked"}

Sources == {"updates", "contracts", "parties", "recent", "local", "topology",
            "tokens", "grpcTokens", "transfers", "holders", "created",
            "fingerprints", "detail", "events", "coupon", "contract", "status",
            "states", "purchases"}

(* The questions of each kind, in order.  Some are skipped: see Needed.    *)
Search == <<"updates", "contracts", "parties">>
RecentParties == <<"recent">>
ActiveParties == <<"parties">>
LocalParties == <<"local">>
Fingerprints == <<"fingerprints", "parties">>
Party == <<"parties", "updates", "contracts", "local", "topology">>
PartyTopology == <<"parties", "local", "topology">>
Namespace == <<"parties", "local", "updates", "contracts", "topology">>
NamespaceParties == <<"parties", "local">>
Find == <<"tokens", "grpcTokens">>
Tokens == <<"tokens">>
Holders == Find \o <<"holders">>
Transfers == <<"transfers">>
TokenTransfers == Find \o <<"transfers", "holders", "created">>
TokenDetail == Find \o TokenTransfers
Update == <<"detail", "parties", "events", "coupon">>
Contract == <<"contract">>
ParticipantStatus == <<"status">>
TrafficPurchases == <<"states", "purchases">>

Route(k) ==
  CASE k = "search" -> Search
    [] k = "recent parties" -> RecentParties
    [] k = "active parties" -> ActiveParties
    [] k = "local parties" -> LocalParties
    [] k = "fingerprints" -> Fingerprints
    [] k = "party" -> Party
    [] k = "party topology" -> PartyTopology
    [] k = "namespace" -> Namespace
    [] k = "namespace parties" -> NamespaceParties
    [] k = "tokens" -> Tokens
    [] k = "holders" -> Holders
    [] k = "transfers" -> Transfers
    [] k = "transfer" -> Transfers
    [] k = "token transfers" -> TokenTransfers
    [] k = "token" -> TokenDetail
    [] k = "update" -> Update
    [] k = "contract" -> Contract
    [] k = "participant status" -> ParticipantStatus
    [] k = "traffic purchases" -> TrafficPurchases

AllKinds == {"search", "recent parties", "active parties", "local parties",
             "fingerprints", "party", "party topology", "namespace",
             "namespace parties", "tokens", "holders", "transfers", "transfer",
             "token transfers", "token", "update", "contract",
             "participant status", "traffic purchases"}

\* status: what each group of the reply says of the nodes.
SearchGroups == {"updates", "contracts", "parties"}
Statuses == UNION {[S -> {"ok", "partial", "failed"}] : S \in {{}, {"recent"}, SearchGroups}}
Reply == [code : {"ok", "not found", "error"}, items : SUBSET Item,
          status : Statuses, failed : SUBSET Node]
NoReply == [code |-> "none"]

VARIABLES
  kind,      \* the request, "nothing" before the first
  asking,    \* the nodes it is about: nodeIds, or the one node of a path
  at,        \* which question of its route is being asked
  answers,   \* per source and node: NotAsked, Failed or the items it named
  reply

vars == <<kind, asking, at, answers, reply>>

-----------------------------------------------------------------------------
Source == Route(kind)[at]
Asked(s) == {n \in Node : answers[s][n] # NotAsked}
Bad(s) == {n \in Node : answers[s][n] = Failed}
Ok(s) == Asked(s) \ Bad(s)
Named(s, n) == IF n \in Ok(s) THEN answers[s][n] ELSE {}
Heard(s) == UNION {Named(s, n) : n \in Node}
WithAsked(s) == {n \in Node : "asked" \in Named(s, n)}

\* Mutant of Observed: a node is dropped when its recent updates fail.
ObservedByUpdates ==
  WithAsked("updates") \cup
  {n \in WithAsked("contracts") \cup WithAsked("parties") \cup WithAsked("local") :
     n \notin Bad("updates")}

\* nodesById of fetchPartySectionData: whoever knows the party by any source.
Observed == WithAsked("updates") \cup WithAsked("contracts")
              \cup WithAsked("parties") \cup WithAsked("local")

\* partiesById of fetchNamespaceSectionData, as nodes and as parties.
NamespaceNodes ==
  {n \in Node : \E s \in {"parties", "local", "updates", "contracts"} : Named(s, n) # {}}
MatchingParties == Heard("parties") \cup Heard("local")

\* findObservedToken: the merged lists, else what gRPC reports.
Found == "asked" \in Heard("tokens") \cup Heard("grpcTokens")

DirectTransfers == "asked" \in Heard("transfers")

\* listLocalParties, loadGrpcObservedTokens and fetchTrafficStates have nothing
\* to ask of a node without gRPC; nor has what asks for its status.
NeedsGrpc == {"local", "topology", "grpcTokens", "fingerprints", "status", "states"}

\* The nodes a question is put to.
Addressed(s) ==
  LET known == CASE s = "topology" /\ kind = "namespace" -> NamespaceNodes
                 [] s = "topology" /\ kind # "namespace" -> Observed
                 [] s = "created" -> WithAsked("holders")
                 [] OTHER -> asking
  IN IF s \in NeedsGrpc THEN known \cap GrpcNode ELSE known

TokenKinds == {"tokens", "holders", "token transfers", "token"}
NamespaceKinds == {"namespace", "namespace parties"}
PartyKinds == {"party", "party topology"}

\* Fingerprints are asked for by gRPC if every node has it, and of PQS unless
\* every node answered; gRPC is asked for a token no list has, holders for
\* transfers no list has, a coupon of an update whose events have one.
Needed(s) ==
  CASE s = "fingerprints" -> asking \subseteq GrpcNode
    [] s = "parties" /\ kind = "fingerprints" -> Ok("fingerprints") # asking
    [] s = "grpcTokens" -> ~Found
    [] s \in {"holders", "created"} /\ kind # "holders" -> ~DirectTransfers
    [] s = "coupon" -> Heard("events") # {}
    [] OTHER -> TRUE

(* The answers to question s make the request fail.                        *)

TokensThrow(s) == s = "tokens" /\ Heard(s) = {} /\ Bad(s) # {}
HoldersThrow(s) ==
  s = "holders" /\ kind = "holders" /\ WithAsked(s) = {} /\ Bad(s) # {}
TransfersThrow(s) == s = "transfers" /\ Ok(s) = {}
RecoveryThrows(s) == s = "created" /\ Bad(s) # {}
FeedsThrow(s) == kind = "namespace" /\ s \in {"updates", "contracts"} /\ Ok(s) = {}
OneNodeThrows(s) == kind \in {"update", "contract"} /\ Bad(s) # {}

Broken(s) == \/ TokensThrow(s) \/ HoldersThrow(s) \/ TransfersThrow(s)
             \/ RecoveryThrows(s) \/ FeedsThrow(s) \/ OneNodeThrows(s)

(* The answers up to question s show that there is no such thing: the      *)
(* controller turns "... not found" into a 404.                            *)

TokenMissing(s) == s = "grpcTokens" /\ ~Found
TransferMissing == kind = "transfer" /\ ~DirectTransfers
PartyMissing(s) == kind \in PartyKinds /\ s = "local" /\ Observed = {}
NamespaceMissing(s) ==
  kind \in NamespaceKinds /\ s = "local" /\ MatchingParties = {}
UpdateMissing(s) == s = "detail" /\ WithAsked(s) = {}
ContractMissing(s) == s = "contract" /\ WithAsked(s) = {}

Missing(s) == \/ TokenMissing(s) \/ TransferMissing \/ PartyMissing(s)
              \/ NamespaceMissing(s) \/ UpdateMissing(s) \/ ContractMissing(s)

(* The reply.                                                              *)

\* resolveNodeSearchStatus, and the status of fetchRecentActiveParties.
NodeStatus(bad, ok) ==
  IF bad = {} THEN "ok" ELSE IF ok # {} THEN "partial" ELSE "failed"

\* Mutant of FingerprintSource: one node's answer is enough.
FingerprintSourceIfAny ==
  IF Ok("fingerprints") # {} THEN "fingerprints" ELSE "parties"

\* The source a list of fingerprints comes from.
FingerprintSource == IF Needed("fingerprints") /\ Bad("fingerprints") = {}
                     THEN "fingerprints" ELSE "parties"

\* The sources whose answers the reply of the request is made of.
TransferSource == IF DirectTransfers THEN "transfers" ELSE "created"
Shown ==
  CASE kind = "search" -> SearchGroups
    [] kind = "recent parties" -> {"recent"}
    [] kind = "active parties" -> {"parties"}
    [] kind = "local parties" -> {"local"}
    [] kind = "fingerprints" -> {FingerprintSource}
    [] kind \in PartyKinds \cup NamespaceKinds -> {"parties", "updates", "contracts", "local"}
    [] kind = "tokens" -> {"tokens"}
    [] kind = "holders" -> {"holders"}
    [] kind \in {"transfers", "transfer"} -> {"transfers"}
    [] kind \in {"token transfers", "token"} -> {TransferSource}
    [] kind = "update" -> {"detail"}
    [] kind = "contract" -> {"contract"}
    [] kind = "participant status" -> {"status"}
    [] kind = "traffic purchases" -> {"states", "purchases"}

SearchItems == (UNION {Heard(s) : s \in SearchGroups}) \ {"other"}
PartyPage == {"asked"}
ShownItems ==
  CASE kind = "search" -> SearchItems
    [] kind \in NamespaceKinds -> MatchingParties
    [] kind \in PartyKinds -> PartyPage
    [] OTHER -> UNION {Heard(s) : s \in Shown}

\* Nodes the reply itself reports as failed: by the status or the error of the
\* node's entry, by a warning, or by the status of its topology.
EntriesThatFailed == UNION {Bad(s) : s \in Shown}
SaidToFail ==
  CASE kind \in {"search", "active parties", "local parties", "participant status",
                 "traffic purchases"} -> EntriesThatFailed
    [] kind \in {"party", "party topology", "namespace"} -> Bad("topology")
    [] OTHER -> {}

\* The groups of a search, and the count of recent parties, have a status each.
StatusOfGroups ==
  [s \in (CASE kind = "search" -> SearchGroups
            [] kind = "recent parties" -> {"recent"}
            [] OTHER -> {}) |-> NodeStatus(Bad(s), Ok(s))]

Answered == [code |-> "ok", items |-> ShownItems, status |-> StatusOfGroups,
             failed |-> SaidToFail]
NotFound == [code |-> "not found", items |-> {}, status |-> <<>>, failed |-> {}]
Error == [NotFound EXCEPT !.code = "error"]
-----------------------------------------------------------------------------
NothingAsked == [s \in Sources |-> [n \in Node |-> NotAsked]]

Init == /\ kind = "nothing"
        /\ asking = {}
        /\ at = 0
        /\ answers = NothingAsked
        /\ reply = NoReply

\* Requests for one node name it in their path; the others are put to all
\* the nodes of the configuration.
Scopes(k) ==
  CASE k \in {"update", "contract", "participant status", "traffic purchases"} ->
         {{n} : n \in Node}
    [] k = "fingerprints" -> {{n} : n \in Node} \cup Configured
    [] OTHER -> Configured

Request(k) ==
  /\ kind = "nothing"
  /\ kind' = k
  /\ \E ns \in Scopes(k) : asking' = ns
  /\ at' = 1
  /\ answers' = NothingAsked
  /\ reply' = NoReply

Busy == kind # "nothing" /\ reply = NoReply
Awaited == {n \in Addressed(Source) : answers[Source][n] = NotAsked}

\* What a node may name; where nothing but the asked thing is looked for, the
\* other is not told apart, and a topology is of parties already named.
LooksForAsked ==
  \/ kind \in PartyKinds \cup {"search", "namespace", "transfer", "update", "contract"}
  \/ kind \in TokenKinds /\ Source # "tokens"
Says == CASE Source = "topology" -> {{}}
          [] Source # "topology" /\ LooksForAsked -> SUBSET {"asked"}
          [] OTHER -> SUBSET Item

\* Promise.all of the fingerprints gives up at the first failure.
GivenUp == Source = "fingerprints" /\ Bad("fingerprints") # {}

Answer(n) ==
  /\ Busy /\ Needed(Source) /\ ~GivenUp
  /\ n \in Awaited
  /\ \E said \in Says : answers' = [answers EXCEPT ![Source][n] = said]
  /\ UNCHANGED <<kind, asking, at, reply>>

Fail(n) ==
  /\ Busy /\ Needed(Source) /\ ~GivenUp
  /\ n \in Awaited
  /\ answers' = [answers EXCEPT ![Source][n] = Failed]
  /\ UNCHANGED <<kind, asking, at, reply>>

Settled == Busy /\ (~Needed(Source) \/ GivenUp \/ Awaited = {})

GiveError ==
  /\ Settled /\ Needed(Source) /\ Broken(Source)
  /\ reply' = Error
  /\ UNCHANGED <<kind, asking, at, answers>>

GiveNotFound ==
  /\ Settled /\ (Needed(Source) => ~Broken(Source)) /\ Missing(Source)
  /\ reply' = NotFound
  /\ UNCHANGED <<kind, asking, at, answers>>

GoesOn == Settled /\ (Needed(Source) => ~Broken(Source)) /\ ~Missing(Source)

\* The next question; one that was asked before is asked anew.
NextQuestion ==
  /\ GoesOn /\ at < Len(Route(kind))
  /\ at' = at + 1
  /\ answers' = [answers EXCEPT ![Route(kind)[at + 1]] = [n \in Node |-> NotAsked]]
  /\ UNCHANGED <<kind, asking, reply>>

GiveReply ==
  /\ GoesOn /\ at = Len(Route(kind))
  /\ reply' = Answered
  /\ UNCHANGED <<kind, asking, at, answers>>

\* A request leaves nothing behind for the next.
Over ==
  /\ reply # NoReply
  /\ kind' = "nothing" /\ asking' = {} /\ at' = 0
  /\ answers' = NothingAsked /\ reply' = NoReply

Next == \/ \E k \in AllKinds : Request(k)
        \/ \E n \in Node : Answer(n) \/ Fail(n)
        \/ GiveError \/ GiveNotFound \/ NextQuestion \/ GiveReply \/ Over

Spec == Init /\ [][Next]_vars
-----------------------------------------------------------------------------

(* 404 is said only of what no node named when it was asked for the last   *)
(* time: the node whose other queries failed counts.  A token, a holder or *)
(* a transfer is missing only if some node was there to say so; the page   *)
(* of a party or a namespace makes no such promise.                        *)
NotFoundIsTrue ==
  reply.code = "not found" =>
    CASE kind \in PartyKinds ->
           \A s \in {"parties", "updates", "contracts", "local"} :
             "asked" \notin Heard(s)
      [] kind \in NamespaceKinds ->
           \A s \in {"parties", "local"} : Heard(s) = {}
      [] kind \in TokenKinds ->
           /\ \A s \in {"tokens", "grpcTokens"} : "asked" \notin Heard(s)
           /\ Ok("tokens") # {}
      [] OTHER -> LET found == {"transfers", "detail", "contract"} IN
                  /\ \A s \in found : "asked" \notin Heard(s)
                  /\ \E s \in found : Ok(s) # {}

(* An answer without a single entry is news of an empty ledger, not of     *)
(* nodes that could not be read: some node answered, or the reply itself   *)
(* says who failed, or there was no node to ask; where tokens or holders   *)
(* are listed, none failed.                                                *)
(* Fingerprints are left out: their fallback swallows the failures.        *)
EmptyIsNotAFailure ==
  (reply.code = "ok" /\ reply.items = {} /\ kind # "fingerprints") =>
    /\ \/ \E s \in Shown : Ok(s) # {} \/ Addressed(s) = {}
       \/ reply.failed # {} \/ reply.status # <<>>
    /\ kind \in {"tokens", "holders"} => \A s \in Shown : Bad(s) = {}

(* "so the global result uses one consistent source": a list of            *)
(* fingerprints is what every node asked said through gRPC, or what the    *)
(* nodes' PQS said, never some of both.                                    *)
FingerprintsOfOneSource ==
  (reply.code = "ok" /\ kind = "fingerprints") =>
    \/ Ok("fingerprints") = asking /\ reply.items = Heard("fingerprints")
    \/ Asked("parties") = asking /\ reply.items = Heard("parties")

=============================================================================
