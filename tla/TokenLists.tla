------------------------------ MODULE TokenLists ------------------------------
(***************************************************************************)
(* Tokens, their holders and their movements: what the nodes saw is merged    *)
(* at every request and a page of it is cut by the order of the list.        *)
(* Nodes see parts of an update, keep what they saw for a while, and may      *)
(* fail to answer; the ledger goes on between two pages.                      *)
(***************************************************************************)
EXTENDS Integers, FiniteSets, FiniteSetsExt

CONSTANTS
  Node, Party,   \* numbers: nodes and parties are listed in their order
  MaxItems,      \* bound: updates, contracts or tokens, by list
  Views,         \* bound: what a node may see of an update
  Amounts,       \* bound: amounts of a contract, 0 for none
  Untimed,       \* updates without a record time
  Limit          \* rows of a page

VARIABLES
  kind,      \* the list: "movements", "holders" or "tokens"
  sees,      \* by node: what it sees, as observations
  last,      \* items the ledger had so far
  cache,     \* by node: the observations it keeps
  types,     \* movement types asked for
  basis,     \* by node: the observations the page was made of
  page, older, newer,            \* rows shown; cursors of the pages beside
  dir, standing, shown, again    \* the walk: its direction, the rows listed at each request,
                                 \* the rows shown, whether one was shown twice

shows == <<basis, page, older, newer>>
walk == <<dir, standing, shown, again>>
vars == <<kind, sees, last, cache, types, shows, walk>>

\* Cursors are sets of one key or none.
Nil == {}

-----------------------------------------------------------------------------
(* Movements: what a node makes of the events of an update it sees: sides of  *)
(* legs in event logs, creations, exercises.                                 *)

\* Events: 1 and 2 log the sender's side of a leg, 3 and 4 the receiver's; 5 creates a share,
\* 6 another holding.
Leg(event) == IF event > 2 THEN event - 2 ELSE event

\* classifyEventLogMovementType: leg 2 moves from the account that mints.
LegType(l) == IF l = 2 THEN "Mint" ELSE "Transfer"

Row(u, event, type) == [update |-> u, event |-> event, type |-> type]

\* extractStandardCip112TokenMovements: the sender's side of each leg.
Logged(u, v) == {Row(u, e, LegType(e)) : e \in v.logged \cap 1..2}

\* inferCip112TokenMovements, buildInferredCip112Movement.
Inferred(u, v) ==
  {Row(u, c, "Create") : c \in IF "Transfer" \in v.exercised \/ v.exercised = {}
                                 THEN v.creates ELSE {}}
  \cup {Row(u, c, "Mint") : c \in IF "Mint" \in v.exercised THEN v.creates \ {5} ELSE {}}

\* extractCip112TokenMovements: guessed only where nothing is logged.
MovementsOf(u, v) == IF Logged(u, v) # {} THEN Logged(u, v) ELSE Inferred(u, v)

-----------------------------------------------------------------------------
(* Lists: observations of several nodes merged.                              *)

\* An observation of a holding: a contract of a party, and its amount, 0 for none.
Holding(c, p, a) == [contract |-> c, party |-> p, amount |-> a]

\* Nodes tell the same of a contract, so that the order in which they are merged is no matter.
Observations(of) == UNION {{[node |-> n, of |-> h] : h \in of[n]} : n \in DOMAIN of}

\* Mutant of AddsTo: a contract counts once for every node that sees it.
AddsToAgain(row, h) == TRUE

\* observedContractIds: a contract counts once.
AddsTo(row, h) == h.contract \notin row.contracts

\* mergeTokenHolders.
MergeHolder(o, rows) ==
  LET mine == {r \in rows : r.party = o.of.party}
  IN IF mine = {}
       THEN rows \cup {[party |-> o.of.party, amount |-> o.of.amount, nodes |-> {o.node},
                        contracts |-> {o.of.contract}]}
       ELSE LET r == CHOOSE x \in mine : TRUE
            IN (rows \ mine) \cup
                 {[r EXCEPT !.nodes = @ \cup {o.node},
                            !.amount = IF AddsTo(r, o.of) THEN @ + o.of.amount ELSE @,
                            !.contracts = @ \cup {o.of.contract}]}

HolderRows(of) ==
  {[party |-> r.party, amount |-> r.amount, nodes |-> r.nodes] :
     r \in FoldSet(MergeHolder, {}, Observations(of))}

\* mergeTokenTransfers, fetchTokens: one row for what several nodes tell alike.
SharedRows(of) ==
  {[key |-> k, nodes |-> {n \in DOMAIN of : k \in of[n]}] : k \in UNION {of[n] : n \in DOMAIN of}}

\* filterTokenTransfers.
Wanted(row) == types = {} \/ row.key.type \in types

Rows(of) ==
  CASE kind = "holders" -> HolderRows(of)
    [] kind = "movements" -> {r \in SharedRows(of) : Wanted(r)}
    [] OTHER -> SharedRows(of)

\* What a cursor keeps of a row.
Key(row) == IF kind = "holders" THEN [party |-> row.party, amount |-> row.amount] ELSE row.key

\* compareGlobalTokenTransfers: rows without a time last, otherwise newest first.
Time(m) == IF m.update \in Untimed THEN 0 ELSE m.update
MovementBefore(m, n) ==
  \/ Time(m) > Time(n)
  \/ Time(m) = Time(n) /\ m.update > n.update
  \/ m.update = n.update /\ (m.event > n.event \/ (m.event = n.event /\ m.type = "Mint" /\ n.type # "Mint"))

\* compareGlobalTokenHolders: the largest first.
HolderBefore(h, i) == h.amount > i.amount \/ (h.amount = i.amount /\ h.party < i.party)

\* compareGlobalTokens: by name.
TokenBefore(s, t) == s < t

Before(k, l) ==
  CASE kind = "movements" -> MovementBefore(k, l)
    [] kind = "holders" -> HolderBefore(k, l)
    [] OTHER -> TokenBefore(k, l)

-----------------------------------------------------------------------------
(* Pages: paginateTokens, paginateTokenHolders, paginateTokenTransfers.      *)

Beyond(list, cursor, up) ==
  {r \in list : \A c \in cursor : IF up THEN Before(Key(r), c) ELSE Before(c, Key(r))}

\* The first rows of what lies beyond the cursor, the rows before it included.
FirstRows(S) == {r \in S : Cardinality({q \in S : Before(Key(q), Key(r))}) < Limit}
Top(P) == {Key(r) : r \in {s \in P : \A q \in P : ~Before(Key(q), Key(s))}}

\* The last row of the page.
LastKey(S) ==
  {Key(r) : r \in {s \in FirstRows(S) : \A q \in FirstRows(S) : ~Before(Key(s), Key(q))}}

\* Promise.allSettled: the nodes that answer make the list.
List(cursor, up, ok) ==
  LET beyond == Beyond(Rows([n \in ok |-> cache[n]]), cursor, up)
      now == FirstRows(beyond)
      more == Cardinality(beyond) > Limit
  IN /\ basis' = [n \in ok |-> cache[n]]
     /\ page' = now
     /\ older' = IF now # {} /\ (up \/ more) THEN LastKey(beyond) ELSE Nil
     /\ newer' = IF now # {} /\ (IF up THEN more ELSE cursor # Nil) THEN Top(now) ELSE Nil

Keys(rows) == {Key(r) : r \in rows}
Listed == Keys(Rows(basis'))

\* Bound: one list is opened, when the ledger has come to any point.
Open(ok) ==
  /\ dir = "none"
  /\ UNCHANGED <<kind, sees, last, cache, types>>
  /\ List(Nil, FALSE, ok)
  /\ dir' = "down" /\ standing' = Listed /\ shown' = Keys(page') /\ again' = FALSE

\* The walk down begins anew where the reader turns round.
TurnOlder(ok) ==
  /\ older # Nil
  /\ List(older, FALSE, ok)
  /\ dir' = "down"
  /\ IF dir = "down" THEN /\ standing' = standing \cap Listed
                          /\ shown' = shown \cup Keys(page')
                          /\ again' = (again \/ shown \cap Keys(page') # {})
                     ELSE /\ standing' = Listed \cap (Keys(page') \cup {k \in Listed : \A c \in older : Before(c, k)})
                          /\ shown' = Keys(page') /\ again' = FALSE
  /\ UNCHANGED <<kind, sees, last, cache, types>>

TurnNewer(ok) ==
  /\ newer # Nil
  /\ List(newer, TRUE, ok)
  /\ dir' = "up" /\ standing' = {} /\ shown' = {} /\ again' = FALSE
  /\ UNCHANGED <<kind, sees, last, cache, types>>

-----------------------------------------------------------------------------
(* The ledger and what the nodes keep of it.                                 *)
Init ==
  /\ kind \in {"movements", "holders", "tokens"}
  /\ sees = [n \in Node |-> {}] /\ last = 0 /\ cache = sees
  /\ types \in IF kind = "movements" THEN {{}, {"Mint"}} ELSE {{}}
  /\ basis = cache /\ page = {} /\ older = Nil /\ newer = Nil
  /\ dir = "none" /\ standing = {} /\ shown = {} /\ again = FALSE

\* An update, a contract or a token is seen by some nodes.
Happen ==
  /\ last < MaxItems[kind] /\ last' = last + 1
  /\ CASE kind = "movements" ->
            \E v \in [Node -> Views] :
              sees' = [n \in Node |-> sees[n] \cup MovementsOf(last', v[n])]
       [] kind = "holders" ->
            \E p \in Party, a \in Amounts, by \in (SUBSET Node) \ {{}} :
              sees' = [n \in Node |-> IF n \in by THEN sees[n] \cup {Holding(last', p, a)} ELSE sees[n]]
       [] OTHER ->
            \E by \in (SUBSET Node) \ {{}} :
              sees' = [n \in Node |-> IF n \in by THEN sees[n] \cup {last'} ELSE sees[n]]
  /\ UNCHANGED <<kind, cache, types, shows, walk>>

\* A holding is archived.
Archive ==
  /\ kind = "holders"
  /\ \E h \in UNION {sees[n] : n \in Node} : sees' = [n \in Node |-> sees[n] \ {h}]
  /\ UNCHANGED <<kind, last, cache, types, shows, walk>>

\* A node's list is read again when it has become old.
Refresh(n) ==
  /\ cache' = [cache EXCEPT ![n] = sees[n]]
  /\ UNCHANGED <<kind, sees, last, types, shows, walk>>

Next ==
  \/ \E ok \in (SUBSET Node) \ {{}} : Open(ok) \/ TurnOlder(ok) \/ TurnNewer(ok)
  \/ \E n \in Node : Refresh(n)
  \/ Happen \/ Archive

Spec == Init /\ [][Next]_vars

-----------------------------------------------------------------------------
(* A walk down shows no row twice, whichever nodes answer it, and at its end  *)
(* has shown every row that was listed, unchanged, at each of its requests.   *)
WalksShowEveryRowOnce == /\ ~again
                         /\ (dir = "down" /\ older = Nil) => standing \subseteq shown

(* A holder's amount counts every contract that some node told of once,      *)
(* however many told of it, and a row names the nodes that told of it.       *)
RowsAddUp ==
  kind = "holders" =>
    \A r \in page :
      LET of == {h \in UNION {basis[n] : n \in DOMAIN basis} : h.party = r.party}
      IN /\ r.amount = MapThenSumSet(LAMBDA h : h.amount, of)
         /\ r.nodes = {n \in DOMAIN basis : basis[n] \cap of # {}}

(* A leg of an update that a node has logged is listed once, however many of  *)
(* its two sides and of the nodes tell of it.                                *)
LegsComeOnce ==
  kind = "movements" =>
    \A r, q \in Rows(basis) :
      (r.key.update = q.key.update /\ Leg(r.key.event) = Leg(q.key.event)
        /\ {r.key.event, q.key.event} \subseteq 1..4) => r = q
=============================================================================
