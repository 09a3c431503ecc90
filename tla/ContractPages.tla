---------------------------- MODULE ContractPages ----------------------------
(***************************************************************************)
(* The contracts of a node, page by page, and those a party sees on several. *)
(* A node's are read by a key that tells the contracts of one update apart   *)
(* (fetchNodeContracts), or by an offset where an older address gives one.   *)
(* A party's are read from every node by offset alone and merged             *)
(* (fetchPartyContracts).  Contracts are created and archived between pages. *)
(***************************************************************************)
EXTENDS Integers, FiniteSets, FiniteSetsExt, Sequences

CONSTANTS
  Node,          \* numbers: nodes are listed in their order
  Limit,         \* rows of a page
  MaxUpdates,    \* bound: updates
  MaxContracts   \* bound: contracts of one node

VARIABLES
  reader,     \* "node" or "party"
  status,     \* of the contracts asked for: "active", "archived" or "all"
  created,    \* by node: the updates its contracts were created in, in order
  archived,   \* contracts <<node, number>> that are archived
  clock,      \* the last update
  page, older, newer,         \* rows shown; cursors of the pages beside, 0 for none
  dir, standing, shown, again, \* the walk: its direction, what it should and did show,
                               \* and whether it showed a contract twice
  asked, open, scanned, rows   \* the party's request: its cursor, the nodes to read on,
                               \* how far they are read, the rows merged

ledger == <<created, archived, clock>>
shows == <<page, older, newer>>
walk == <<dir, standing, shown, again>>
request == <<asked, open, scanned, rows>>
vars == <<reader, status, ledger, shows, walk, request>>

First == Min(Node)
Contracts(n) == {<<n, i>> : i \in DOMAIN created[n]}
UpdateOf(c) == created[c[1]][c[2]]

\* Of S, the n that no more than n - 1 others come before.
Top(S, n, Before(_, _)) == {x \in S : Cardinality({y \in S : Before(y, x)}) < n}

-----------------------------------------------------------------------------
(* The contracts of one node.                                                *)

\* pqsActiveContractsQuery: the status, and (created_at_ix, create_event_pk, contract_id).
Matching ==
  {c \in Contracts(First) : CASE status = "all" -> TRUE
                              [] status = "active" -> c \notin archived
                              [] OTHER -> c \in archived}
Later(c, d) == c[2] > d[2]
Earlier(c, d) == Later(d, c)

\* Cursors: none, the offset of an older address, or the key of a contract.
NoCursor == [kind |-> "none"]
Offset(o) == [kind |-> "legacy", at |-> o]
\* Mutant of Key: the offset alone.
KeyIsOffset(c) == Offset(UpdateOf(c))
Key(c) == [kind |-> "compound", at |-> c]

\* decodeActiveContractCursor, cursor_boundary: an offset stands for its whole update.
Beyond(cursor, up) ==
  {c \in Matching :
     CASE cursor.kind = "none" -> TRUE
       [] cursor.kind = "legacy" -> IF up THEN UpdateOf(c) > cursor.at ELSE UpdateOf(c) < cursor.at
       [] OTHER -> IF up THEN Later(c, cursor.at) ELSE Earlier(c, cursor.at)}

Highest(P) == CHOOSE c \in P : \A d \in P : ~Later(d, c)
Lowest(P) == CHOOSE c \in P : \A d \in P : ~Earlier(d, c)

\* fetchNodeContracts: one row more than asked for tells whether there are more.
Show(cursor, up) ==
  LET beyond == Beyond(cursor, up)
      now == IF up THEN Top(beyond, Limit, Earlier) ELSE Top(beyond, Limit, Later)
      more == Cardinality(beyond) > Limit
  IN /\ page' = now
     /\ older' = IF now # {} /\ (up \/ more) THEN Key(Lowest(now)) ELSE NoCursor
     /\ newer' = IF now # {} /\ (IF up THEN more ELSE cursor # NoCursor)
                   THEN Key(Highest(now)) ELSE NoCursor

OpenNode ==
  \E cursor \in {NoCursor} \cup {Offset(o) : o \in 1..clock}, up \in BOOLEAN :
    /\ reader = "node" /\ (cursor = NoCursor => ~up)
    /\ Show(cursor, up)
    /\ dir' = (IF up THEN "up" ELSE "down")
    /\ standing' = Beyond(cursor, up) /\ shown' = page' /\ again' = FALSE
    /\ UNCHANGED <<reader, status, ledger, request>>

\* A walk begins anew, at the page shown, where the reader turns round.
Walked(up) ==
  LET on == dir = (IF up THEN "up" ELSE "down")
      seen == IF on THEN shown ELSE page
  IN /\ dir' = (IF up THEN "up" ELSE "down")
     /\ shown' = seen \cup page'
     /\ again' = ((on /\ again) \/ seen \cap page' # {})

\* showOlder, showNewer.
Turn(cursor, up) ==
  /\ reader = "node" /\ cursor # NoCursor
  /\ Show(cursor, up) /\ Walked(up)
  /\ standing' = IF dir' = dir THEN standing ELSE (page \cap Matching) \cup Beyond(cursor, up)
  /\ UNCHANGED <<reader, status, ledger, request>>

NodeOlder == Turn(older, FALSE)
NodeNewer == Turn(newer, TRUE)

-----------------------------------------------------------------------------
(* The contracts of a party.                                                 *)

\* compareGlobalMergedContracts.
Precedes(c, d) ==
  \/ UpdateOf(c) > UpdateOf(d)
  \/ UpdateOf(c) = UpdateOf(d) /\ (c[1] < d[1] \/ (c[1] = d[1] /\ c[2] > d[2]))

Nothing == <<0, 0>>
PageSize == IF 2 * Limit > Limit + 1 THEN 2 * Limit ELSE Limit + 1

\* filterContracts: beyond the cursor.
Passes(c) ==
  asked.at = Nothing \/ (IF asked.up THEN Precedes(c, asked.at) ELSE Precedes(asked.at, c))
Filtered(S) == {c \in S : Passes(c)}

\* fetchPartyContracts begins: every node is read from its newest contract.
Ask(cursor, up) ==
  /\ reader = "party" /\ asked = NoCursor
  /\ asked' = [kind |-> "page", at |-> cursor, up |-> up]
  /\ open' = Node /\ scanned' = [n \in Node |-> MaxUpdates + 1] /\ rows' = {}
  /\ UNCHANGED <<reader, status, ledger, shows, walk>>

OpenParty == Ask(Nothing, FALSE)
PartyOlder == older # NoCursor /\ Ask(older.at, FALSE)
PartyNewer == newer # NoCursor /\ Ask(newer.at, TRUE)

\* pqsPartyRecentContractsQuery: those of one update come in any order.
Left(n) == {c \in Contracts(n) : UpdateOf(c) < scanned[n]}
Answers(n) ==
  {R \in SUBSET Left(n) :
     /\ Cardinality(R) = Min({PageSize, Cardinality(Left(n))})
     /\ \A c \in R, d \in Left(n) \ R : UpdateOf(c) >= UpdateOf(d)}
More(n) == Cardinality(Left(n)) > PageSize

\* Every node not read to its end is asked for its next rows; one that rejects is given up.
\* Bound: the nodes of a round answer together.
Round ==
  /\ reader = "party" /\ asked # NoCursor /\ open # {}
  /\ Cardinality(Filtered(rows)) <= Limit
  /\ \E ok \in (SUBSET open) \ {{}} : \E R \in [ok -> UNION {Answers(n) : n \in ok}] :
       /\ \A n \in ok : R[n] \in Answers(n)
       /\ rows' = rows \cup UNION {R[n] : n \in ok}
       /\ open' = {n \in ok : More(n)}
       /\ scanned' = [n \in Node |-> IF n \in open' THEN Min({UpdateOf(c) : c \in R[n]})
                                                    ELSE scanned[n]]
  /\ UNCHANGED <<reader, status, ledger, shows, walk, asked>>

\* Every node of a round rejects: the request fails and the page stays as it is.
RoundFails ==
  /\ reader = "party" /\ asked # NoCursor /\ open # {}
  /\ Cardinality(Filtered(rows)) <= Limit
  /\ asked' = NoCursor /\ open' = {} /\ rows' = {}
  /\ UNCHANGED <<reader, status, ledger, shows, walk, scanned>>

\* Beyond a cursor of newer rows the newest of all are shown.
PartyAnswer ==
  /\ asked # NoCursor
  /\ open = {} \/ Cardinality(Filtered(rows)) > Limit
  /\ LET now == Top(Filtered(rows), Limit, Precedes)
         more == Cardinality(Filtered(rows)) > Limit
         At(c) == [kind |-> "page", at |-> c]
     IN /\ page' = now
        /\ older' = IF now # {} /\ (asked.up \/ more)
                      THEN At(CHOOSE c \in now : \A d \in now : ~Precedes(c, d)) ELSE NoCursor
        /\ newer' = IF now # {} /\ (IF asked.up THEN more ELSE asked.at # Nothing)
                      THEN At(CHOOSE c \in now : \A d \in now : ~Precedes(d, c)) ELSE NoCursor
  /\ IF asked.at = Nothing THEN dir' = "down" /\ shown' = page' /\ again' = FALSE
                           ELSE Walked(asked.up)
  /\ asked' = NoCursor /\ open' = {} /\ rows' = {}
  /\ UNCHANGED <<reader, status, ledger, standing, scanned>>

-----------------------------------------------------------------------------
Init ==
  /\ reader \in {"node", "party"} /\ status \in {"active", "archived", "all"}
  /\ reader = "party" => status = "all"
  /\ created = [n \in Node |-> <<>>] /\ archived = {} /\ clock = 0
  /\ page = {} /\ older = NoCursor /\ newer = NoCursor
  /\ dir = "down" /\ standing = {} /\ shown = {} /\ again = FALSE
  /\ asked = NoCursor /\ open = {} /\ scanned = [n \in Node |-> 0] /\ rows = {}

\* An update creates a contract or two on a node.  Bound: a node's contracts are read on the first.
Create ==
  /\ clock < MaxUpdates
  /\ clock' = clock + 1
  /\ \E n \in Node, k \in 1..2 :
       /\ reader = "node" => n = First
       /\ Len(created[n]) + k <= MaxContracts
       /\ created' = [created EXCEPT ![n] = @ \o [i \in 1..k |-> clock']]
  /\ UNCHANGED <<reader, status, archived, shows, walk, request>>

\* Only a node's contracts are told apart by it.
Archive ==
  /\ reader = "node"
  /\ \E c \in Contracts(First) \ archived :
       /\ archived' = archived \cup {c}
       /\ standing' = IF status = "active" THEN standing \ {c} ELSE standing
  /\ UNCHANGED <<reader, status, created, clock, shows, dir, shown, again, request>>

Next == \/ OpenNode \/ NodeOlder \/ NodeNewer
        \/ OpenParty \/ PartyOlder \/ PartyNewer \/ Round \/ RoundFails \/ PartyAnswer
        \/ Create \/ Archive

Spec == Init /\ [][Next]_vars

-----------------------------------------------------------------------------
(* No walk shows a contract twice, whichever nodes answer it, and a walk over  *)
(* one node that comes to the end, in either direction and from any cursor,   *)
(* has shown every contract that was there from its first page on: none falls *)
(* between two pages, though contracts of one update share an offset and      *)
(* others come and go meanwhile.                                             *)
WalkIsComplete ==
  /\ ~again
  /\ (reader = "node" /\ (IF dir = "down" THEN older ELSE newer) = NoCursor) => standing \subseteq shown
=============================================================================
