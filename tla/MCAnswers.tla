---- MODULE MCAnswers ----
(* What the backend puts together from several readings.  The updates of a filter,
   the operations of one participant, the pages of contracts and the lists of tokens
   share no state: each behaviour is of one of them. *)
EXTENDS CandidateWindow

CONSTANTS Contract, Synchronizer, Member, Package, MaxOffset,
          Node, MaxUpdates, MaxContracts,
          Views, Amounts, MaxItems, Untimed   \* of TokenLists

\* Nodes, and the parties of a list, are numbered; nodes: z.array(nodeSchema).min(1)
\* (backend/src/config/node-config.schema.ts).
ASSUME NodesAssumption == Node \subseteq Nat \ {0} /\ Node # {} /\ IsFiniteSet(Node)

\* Events 5 and 6 of an update are its creations.
ASSUME ListsAssumption == Amounts \subseteq Int /\ \A v \in Views : v.creates \subseteq {5, 6}

VARIABLES
  answering,
  kind, world, vetted, admin, client, calls, listed, token, pinned, given, found,
  hosting, owning, raw, stores, refs, missed, answer,
  reader, status, created, archived, clock, contractPage, older, contractNewer,
  dir, standing, shown, again, asked, open, scanned, rows,
  list, sees, last, cache, types, basis, rowPage, rowOlder, rowNewer,
  rowDir, rowStanding, rowShown, rowAgain

callVars == <<kind, world, vetted, admin, client, calls, listed, token, pinned, given,
              found, hosting, owning, raw, stores, refs, missed, answer>>
contractVars == <<reader, status, created, archived, clock, contractPage, older,
                  contractNewer, dir, standing, shown, again, asked, open, scanned, rows>>
rowVars == <<list, sees, last, cache, types, basis, rowPage, rowOlder, rowNewer,
             rowDir, rowStanding, rowShown, rowAgain>>
mcVars == <<answering, vars, callVars, contractVars, rowVars>>

Calls == INSTANCE GrpcCalls WITH Party <- Node

Contracts == INSTANCE ContractPages WITH page <- contractPage, newer <- contractNewer

\* What a node may see of an update: the logs of both sides, of one, creations of both
\* kinds with the exercises that tell a transfer or a mint, or nothing.
View(l, c, e) == [logged |-> l, creates |-> c, exercised |-> e]
SomeViews == {View({1, 2, 3}, {6}, {"Transfer"}), View({3}, {5, 6}, {"Transfer", "Mint"}),
              View({}, {}, {})}

\* By list: updates, contracts or tokens.
FewItems == [movements |-> 2, holders |-> 2, tokens |-> 3]

Tokens ==
  INSTANCE TokenLists WITH
    Party <- Node, kind <- list, page <- rowPage, older <- rowOlder,
    newer <- rowNewer, dir <- rowDir, standing <- rowStanding, shown <- rowShown,
    again <- rowAgain

MCInit ==
  /\ answering \in {"window", "calls", "contracts", "tokens"}
  /\ Init /\ (answering = "window" \/ (filter = {"template"} /\ cursor = 0))
  /\ Calls!Init /\ (answering = "calls" \/ kind = "info")
  /\ Contracts!Init /\ (answering = "contracts" \/ (reader = "party" /\ status = "all"))
  /\ Tokens!Init /\ (answering = "tokens" \/ (list = "movements" /\ types = {}))

MCNext ==
  /\ UNCHANGED answering
  /\ \/ /\ answering = "window" /\ Next
        /\ UNCHANGED <<callVars, contractVars, rowVars>>
     \/ /\ answering = "calls" /\ Calls!Next
        /\ UNCHANGED <<vars, contractVars, rowVars>>
     \/ /\ answering = "contracts" /\ Contracts!Next
        /\ UNCHANGED <<vars, callVars, rowVars>>
     \/ /\ answering = "tokens" /\ Tokens!Next
        /\ UNCHANGED <<vars, callVars, contractVars>>

MCSpec == MCInit /\ [][MCNext]_mcVars

(* GrpcCalls, ListingsAreComplete. *)
ListingsAreComplete == Calls!ListingsAreComplete
(* GrpcCalls, HoldingsOfOneMoment. *)
HoldingsOfOneMoment == Calls!HoldingsOfOneMoment
(* GrpcCalls, TopologyRowsAgree. *)
TopologyRowsAgree == Calls!TopologyRowsAgree
(* Walks through the pages of contracts and of tokens: ContractPages, WalkIsComplete,
   and TokenLists, WalksShowEveryRowOnce. *)
WalksAreComplete == Contracts!WalkIsComplete /\ Tokens!WalksShowEveryRowOnce
(* What a row counts, it counts once: TokenLists, RowsAddUp and LegsComeOnce. *)
RowsCountOnce == Tokens!RowsAddUp /\ Tokens!LegsComeOnce
====
