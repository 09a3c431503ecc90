--------------------------- MODULE CandidateWindow ---------------------------
(***************************************************************************)
(* The updates of one node that match a filter (queryRecentUpdateMetaRows).  *)
(* A filter is a set of sources: a template, everything visible beside       *)
(* Splice, parties.  An update matches a source if it has an event of some   *)
(* kind of its.  The query reads, by source and kind, only a window of the   *)
(* nearest updates; it is repeated with windows of twice the size while an   *)
(* update outside a window could belong on the page.  New updates arrive     *)
(* between one query and the next.                                           *)
(***************************************************************************)
EXTENDS Integers, FiniteSets

CONSTANTS
  Kind,         \* contracts created, contracts archived, choices exercised
  Party,
  Filters,      \* bound: the filters asked for
  Limit,        \* rows of a page
  Cursors,      \* bound: updates a page may lie before or after
  MaxPosition   \* bound: updates

Source == {"template", "visible"} \cup Party
Position == 1..MaxPosition

ASSUME LimitAssumption == Limit \in Nat \ {0}
\* Without a filter no candidates are read.
ASSUME FiltersAssumption == Filters \subseteq (SUBSET Source) \ {{}}
ASSUME CursorsAssumption == Cursors \subseteq Nat
ASSUME MaxPositionAssumption == MaxPosition \in Nat
ASSUME PartiesAreOthers == {"template", "visible"} \cap Party = {}

VARIABLES
  events,   \* the updates with events of a source and kind
  latest,   \* the last update of the ledger
  filter,   \* the sources asked for
  all,      \* of several parties, all must match
  cursor,   \* 0, or the update the page lies before or after
  newer,    \* the page lies after the cursor
  window,   \* candidateLimit
  page      \* the answer, or the empty record

ledger == <<events, latest>>
request == <<filter, all, cursor, newer>>
vars == <<ledger, request, window, page>>

-----------------------------------------------------------------------------
\* x comes before y on the page.
Precedes(x, y) == IF newer THEN x < y ELSE x > y

\* The first n of S, and what they leave out.
Top(S, n) == {x \in S : Cardinality({y \in S : Precedes(y, x)}) < n}

\* buildPqsUpdateCandidateWindow: what lies beyond the cursor.
Beyond == {x \in Position : cursor # 0 => Precedes(cursor, x)}

Parties == filter \cap Party

Union(s) == UNION {events[s][k] : k \in Kind}

\* One event of the source is enough; parties match one by one or all together.
MatchesParties(x) ==
  IF all THEN \A p \in Parties : x \in Union(p)
         ELSE Parties # {} => \E p \in Parties : x \in Union(p)
Matching ==
  {x \in Beyond : /\ \A s \in filter \ Party : x \in Union(s)
                  /\ MatchesParties(x)}

-----------------------------------------------------------------------------
(* One query: pqsRecentUpdatesQuery.                                         *)

\* buildPqsUpdateEventCandidateBranch: one source and kind, within what it is asked for.
Branch(s, k, within) == events[s][k] \cap Beyond \cap within
Taken(s, k, within) == Top(Branch(s, k, within), window)
LeftOut(s, k, within) == Branch(s, k, within) \ Taken(s, k, within)

\* buildPqsUpdateEventCandidateSet.
Candidates(s, within) == UNION {Taken(s, k, within) : k \in Kind}

\* The sets parties are looked for in.
Common == {x \in Position : \A s \in filter \ Party : x \in Candidates(s, Position)}
PartyCandidates(p) == Candidates(p, Common)

\* buildPqsUpdateCandidateCte: parties joined or intersected, then all filters.
OfParties ==
  IF Parties = {} THEN Position
  ELSE IF all THEN {x \in Position : \A p \in Parties : x \in PartyCandidates(p)}
       ELSE UNION {PartyCandidates(p) : p \in Parties}
Result == Common \cap OfParties

\* Mutant of Excluded: the parties' windows do not count.
ExcludedBySources == UNION {LeftOut(s, k, Position) : s \in filter \ Party, k \in Kind}

\* candidate_progress: updates that some window of the query leaves out.
Excluded ==
  (UNION {LeftOut(s, k, Position) : s \in filter \ Party, k \in Kind})
    \cup (UNION {LeftOut(p, k, Common) : p \in Parties, k \in Kind})

-----------------------------------------------------------------------------
Init == /\ events = [s \in Source |-> [k \in Kind |-> {}]] /\ latest = 0
        /\ filter \in Filters
        /\ all \in BOOLEAN /\ (Cardinality(Parties) < 2 => all)
        /\ cursor \in Cursors \cup {0}
        /\ newer \in BOOLEAN /\ (cursor = 0 => ~newer)
        /\ window = Limit + 1 /\ page = {}

\* The ledger goes on; only what is filtered for matters.
Arrive ==
  /\ latest < MaxPosition /\ window # 0
  /\ latest' = latest + 1
  /\ \E by \in [filter -> {{}} \cup {{k} : k \in Kind}] :
       events' = [s \in Source |-> [k \in Kind |->
                    IF s \in filter /\ k \in by[s] THEN events[s][k] \cup {latest'}
                                                   ELSE events[s][k]]]
  /\ UNCHANGED <<request, window, page>>

\* The boundary row of the page, and whether what was left out could go before it.
Full == Cardinality(Top(Result, Limit + 1)) = Limit + 1
Outranked == \E x \in Excluded : \E y \in Top(Result, Limit) : Precedes(x, y)

\* Nothing was left out, or nothing that could go before the last row of a full page.
Settles == Excluded = {} \/ (Full /\ ~Outranked)

Answer ==
  /\ window # 0 /\ Settles
  /\ page' = Top(Result, Limit + 1)
  /\ window' = 0
  /\ UNCHANGED <<ledger, request>>

Widen ==
  /\ window # 0 /\ ~Settles
  /\ window' = 2 * window
  /\ UNCHANGED <<ledger, request, page>>

Next == Arrive \/ Answer \/ Widen

Spec == Init /\ [][Next]_vars
-----------------------------------------------------------------------------
(* The page that is answered is that of all matching updates, not just of the *)
(* candidates that were read, and it has a row more exactly when there are    *)
(* more.                                                                     *)
PageIsOfAllMatching ==
  window = 0 =>
    /\ Top(page, Limit) = Top(Matching, Limit)
    /\ (Cardinality(page) > Limit) <=> (Cardinality(Matching) > Limit)
=============================================================================
