------------------------------ MODULE FeedPager ------------------------------
(***************************************************************************)
(* What the merged feeds promise to whoever pages through them, with no    *)
(* word of nodes being read in rounds: a request is answered by one page   *)
(* of the rows all nodes hold, or by an error if some node failed.  The    *)
(* page tells by its length and its cursors what it leaves out.            *)
(* MergedFeed implements this.                                             *)
(***************************************************************************)
EXTENDS Naturals

CONSTANTS
  Row,             \* the rows there may be; each is of a node
  Nodes, Limit, Feeds,
  NoRow,           \* an absent cursor
  Precedes(_, _),  \* the order of the feed, newest first
  Size(_)          \* the number of rows in a set

VARIABLES
  rows, feed,
  direction, cursor, seen,     \* the request: what is asked, and what there was
  busy, silent,                \* whether it is being served; nodes that failed it
  page, before, after, outcome \* what the client holds

asked == <<direction, cursor, seen>>
held == <<page, before, after, outcome>>
pagerVars == <<rows, feed, asked, busy, silent, held>>

PagerInit ==
  /\ rows \in SUBSET Row
  /\ feed \in Feeds
  /\ direction = "newest" /\ cursor = NoRow /\ seen = {}
  /\ busy = FALSE /\ silent = {}
  /\ page = {} /\ before = NoRow /\ after = NoRow /\ outcome = "none"

Arrive ==
  /\ \E r \in Row : rows' = rows \cup {r}
  /\ UNCHANGED <<feed, asked, busy, silent, held>>

\* The pagers of the page ask for what lies beyond it.
Ask ==
  /\ ~busy
  /\ \/ direction' = "newest" /\ cursor' = NoRow
     \/ direction' = "older" /\ before # NoRow /\ cursor' = before
     \/ direction' = "newer" /\ after # NoRow /\ cursor' = after
  /\ seen' = rows
  /\ busy' = TRUE /\ silent' = {}
  /\ UNCHANGED <<rows, feed, held>>

Miss(n) ==
  /\ busy
  /\ silent' = silent \cup {n}
  /\ UNCHANGED <<rows, feed, asked, busy, held>>

\* There is an error only where some node failed, and the page stays.
Refuse ==
  /\ busy
  /\ silent # {} /\ feed # "purchases"
  /\ busy' = FALSE
  /\ outcome' = "error"
  /\ UNCHANGED <<rows, feed, asked, silent, page, before, after>>

-----------------------------------------------------------------------------
Owed(r) == r \in seen /\ r.node \notin silent

OnAskedSide(r) ==
  CASE direction = "older" -> Precedes(cursor, r)
    [] direction = "newer" -> Precedes(r, cursor)
    [] OTHER -> TRUE

LeftOut(P) == {r \in Row \ P : Owed(r) /\ OnAskedSide(r)}

\* A page is cut from the asked side; one that is not full leaves nothing out.
OfAskedRows(P) ==
  /\ P \subseteq rows
  /\ \A p \in P : OnAskedSide(p)
  /\ Size(P) <= Limit
  /\ LeftOut(P) # {} => Size(P) = Limit

\* The page a feed opens with, and a newer page of updates, leave out only what
\* lies beyond them.  (Older pages and newer pages of the other feeds may skip
\* rows of a node that is denser than another.)
NextToCursor(P) ==
  \A r \in LeftOut(P), p \in P :
    /\ direction = "newest" => Precedes(p, r)
    /\ direction = "newer" /\ feed = "updates" => Precedes(r, p)

\* The pagers stand at the ends of the page; a missing one is the end of the feed.
PagersFit(P, b, a) ==
  /\ b # NoRow => b \in P /\ \A p \in P \ {b} : Precedes(p, b)
  /\ a # NoRow => a \in P /\ \A p \in P \ {a} : Precedes(a, p)
  /\ direction # "newer" /\ b = NoRow => LeftOut(P) = {}
  /\ direction = "newer" /\ a = NoRow => LeftOut(P) = {}

Serve ==
  /\ busy
  /\ busy' = FALSE
  /\ outcome' = "page"
  /\ OfAskedRows(page') /\ NextToCursor(page') /\ PagersFit(page', before', after')
  /\ UNCHANGED <<rows, feed, asked, silent>>

PagerNext == Arrive \/ Ask \/ (\E n \in Nodes : Miss(n)) \/ Refuse \/ Serve

PagerSpec == PagerInit /\ [][PagerNext]_pagerVars
=============================================================================
