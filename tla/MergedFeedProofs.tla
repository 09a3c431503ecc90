--------------------------- MODULE MergedFeedProofs ---------------------------
(***************************************************************************)
(* Proofs about the merged feeds, for any number of nodes, any page size   *)
(* and any bounds.  The first part is about the order of a feed: pages are *)
(* cut by rank, and the rank of a row (how many rows stand before it) runs *)
(* through 0, 1, 2, ... without a gap.  The second part is the inductive   *)
(* invariant of a request's scan and the theorems that rest on it.  The    *)
(* third part is about the prices of the updates a feed shows.             *)
(***************************************************************************)
EXTENDS MCMergedFeed, FiniteSetTheorems, FunctionTheorems, WellFoundedInduction, TLAPS

Ahead(S, r) == {s \in S : Precedes(s, r)}
Behind(S, r) == {s \in S : Precedes(r, s)}

-----------------------------------------------------------------------------
(* The order of a feed.                                                    *)

LEMMA RowFinite == IsFiniteSet(Row)
<1> DEFINE D == (1..MaxTime) \X Nodes
           f == [d \in D |-> [time |-> d[1], node |-> d[2]]]
<1>1. IsFiniteSet(D)
  <2>1. 1 \in Int /\ MaxTime \in Int /\ N \in Int
    BY SizesAssumption, BoundsAssumption
  <2>2. IsFiniteSet(1..MaxTime) /\ IsFiniteSet(1..N)
    BY <2>1, FS_Interval
  <2> QED BY <2>2, FS_Product, Zenon DEF Nodes
<1>2. f \in [D -> Row]
  BY DEF Row
<1>3. \A r \in Row : \E d \in D : f[d] = r
  <2> TAKE r \in Row
  <2>1. <<r.time, r.node>> \in D
    BY DEF Row
  <2>2. f[<<r.time, r.node>>] = r
    BY <2>1 DEF Row
  <2> QED BY <2>1, <2>2
<1>4. f \in Surjection(D, Row)
  BY <1>2, <1>3, Zenon DEF Surjection
<1> QED BY <1>1, <1>4, FS_Surjection

LEMMA SubsetFinite ==
  ASSUME NEW S \in SUBSET Row
  PROVE  IsFiniteSet(S) /\ Cardinality(S) \in Nat
BY RowFinite, FS_Subset, FS_CardinalityType

\* compareGlobalMergedUpdates is a strict total order.
LEMMA PrecedesOrder ==
  /\ \A r \in Cursor : ~Precedes(r, r)
  /\ \A r, s, t \in Cursor : Precedes(r, s) /\ Precedes(s, t) => Precedes(r, t)
  /\ \A r, s \in Cursor : r = s \/ Precedes(r, s) \/ Precedes(s, r)
<1>1. \A r \in Cursor : r = [time |-> r.time, node |-> r.node] /\ r.time \in Nat /\ r.node \in Nat
  BY SizesAssumption, BoundsAssumption DEF Cursor, Row, NoRow, Nodes
<1>2. \A r, s \in Cursor : r.time = s.time /\ r.node = s.node => r = s
  BY <1>1
<1> QED BY <1>1, <1>2 DEF Precedes

\* A one-to-one rank below the size of the set takes every value there is, so
\* as many rows as one likes have a rank below that number.
LEMMA RankCount ==
  ASSUME NEW S, IsFiniteSet(S), NEW f \in Injection(S, 0..(Cardinality(S) - 1)),
         NEW k \in Nat
  PROVE  /\ \A i \in 0..(Cardinality(S) - 1) : \E r \in S : f[r] = i
         /\ k <= Cardinality(S) => Cardinality({r \in S : f[r] < k}) = k
         /\ Cardinality(S) <= k => {r \in S : f[r] < k} = S
<1> DEFINE c == Cardinality(S)
           I == 0..(c - 1)
           T == {r \in S : f[r] < k}
           g == [r \in T |-> f[r]]
<1>0. c \in Nat
  BY FS_CardinalityType
<1>1. f \in [S -> I] /\ \A a, b \in S : f[a] = f[b] => a = b
  BY DEF Injection, IsInjective
<1>2. IsFiniteSet(I) /\ Cardinality(I) = c
  BY <1>0, FS_Interval
<1>3. f \in Surjection(S, I)
  BY <1>2, FS_Injection
<1>4. \A i \in I : \E r \in S : f[r] = i
  BY <1>3 DEF Surjection
<1>5. c <= k => T = S
  BY <1>0, <1>1
<1>6. ASSUME k <= c PROVE Cardinality(T) = k
  <2> DEFINE J == 0..(k - 1)
  <2>1. IsFiniteSet(J) /\ Cardinality(J) = k
    BY FS_Interval
  <2>2. g \in [T -> J]
    <3> SUFFICES ASSUME NEW r \in T PROVE f[r] \in J
      OBVIOUS
    <3>1. f[r] \in I /\ f[r] < k
      BY <1>1
    <3> QED BY <3>1, <1>0
  <2>3. \A a, b \in T : g[a] = g[b] => a = b
    BY <1>1
  <2>4. \A j \in J : \E r \in T : g[r] = j
    <3> SUFFICES ASSUME NEW j \in J PROVE \E r \in T : g[r] = j
      OBVIOUS
    <3>1. j \in I /\ j < k
      BY <1>0, <1>6
    <3>2. PICK r \in S : f[r] = j
      BY <1>4, <3>1
    <3>3. r \in T
      BY <3>1, <3>2
    <3> QED BY <3>2, <3>3
  <2>5. IsFiniteSet(T)
    BY FS_Subset
  <2>6. g \in Surjection(T, J) /\ g \in Injection(T, J)
    BY <2>2, <2>3, <2>4, Zenon DEF Surjection, Injection, IsInjective
  <2> QED BY <2>1, <2>5, <2>6, FS_Surjection
<1> QED BY <1>4, <1>5, <1>6

\* Among the rows of S, a row that stands before another has a smaller rank,
\* from the top as from the bottom.
LEMMA AheadGrows ==
  ASSUME NEW S \in SUBSET Row, NEW r \in S, NEW s \in S, Precedes(r, s)
  PROVE  Cardinality(Ahead(S, r)) < Cardinality(Ahead(S, s))
<1>1. Ahead(S, r) \subseteq Ahead(S, s)
  BY PrecedesOrder DEF Ahead, Cursor
<1>2. r \in Ahead(S, s) \ Ahead(S, r)
  BY PrecedesOrder DEF Ahead, Cursor
<1>3. Ahead(S, s) \in SUBSET Row /\ Ahead(S, r) \in SUBSET Row
  BY DEF Ahead
<1> QED BY <1>1, <1>2, <1>3, SubsetFinite, FS_Subset

LEMMA BehindGrows ==
  ASSUME NEW S \in SUBSET Row, NEW r \in S, NEW s \in S, Precedes(r, s)
  PROVE  Cardinality(Behind(S, s)) < Cardinality(Behind(S, r))
<1>1. Behind(S, s) \subseteq Behind(S, r)
  BY PrecedesOrder DEF Behind, Cursor
<1>2. s \in Behind(S, r) \ Behind(S, s)
  BY PrecedesOrder DEF Behind, Cursor
<1>3. Behind(S, s) \in SUBSET Row /\ Behind(S, r) \in SUBSET Row
  BY DEF Behind
<1> QED BY <1>1, <1>2, <1>3, SubsetFinite, FS_Subset

RankIn(S) == [r \in S |-> Cardinality(Ahead(S, r))]
RankFromEnd(S) == [r \in S |-> Cardinality(Behind(S, r))]

LEMMA RanksAreInjective ==
  ASSUME NEW S \in SUBSET Row
  PROVE  /\ RankIn(S) \in Injection(S, 0..(Cardinality(S) - 1))
         /\ RankFromEnd(S) \in Injection(S, 0..(Cardinality(S) - 1))
<1>0. IsFiniteSet(S) /\ Cardinality(S) \in Nat
  BY SubsetFinite
<1>1. ASSUME NEW r \in S
      PROVE  /\ Cardinality(Ahead(S, r)) \in 0..(Cardinality(S) - 1)
             /\ Cardinality(Behind(S, r)) \in 0..(Cardinality(S) - 1)
  <2>1. ~Precedes(r, r)
    BY PrecedesOrder DEF Cursor
  <2>2. Ahead(S, r) \subseteq S \ {r} /\ Behind(S, r) \subseteq S \ {r}
    BY <2>1 DEF Ahead, Behind
  <2>3. IsFiniteSet(S \ {r}) /\ Cardinality(S \ {r}) = Cardinality(S) - 1
    BY <1>0, FS_RemoveElement
  <2>4. /\ Cardinality(Ahead(S, r)) \in Nat
        /\ Cardinality(Behind(S, r)) \in Nat
    BY SubsetFinite DEF Ahead, Behind
  <2>5. /\ Cardinality(Ahead(S, r)) <= Cardinality(S \ {r})
        /\ Cardinality(Behind(S, r)) <= Cardinality(S \ {r})
    BY <2>2, <2>3, FS_Subset
  <2> QED BY <1>0, <2>3, <2>4, <2>5
<1>2. ASSUME NEW r \in S, NEW s \in S, r # s
      PROVE  /\ Cardinality(Ahead(S, r)) # Cardinality(Ahead(S, s))
             /\ Cardinality(Behind(S, r)) # Cardinality(Behind(S, s))
  <2>1. Precedes(r, s) \/ Precedes(s, r)
    BY <1>2, PrecedesOrder DEF Cursor
  <2>2. /\ Cardinality(Ahead(S, r)) \in Int /\ Cardinality(Ahead(S, s)) \in Int
        /\ Cardinality(Behind(S, r)) \in Int /\ Cardinality(Behind(S, s)) \in Int
    BY <1>0, <1>1
  <2>3. CASE Precedes(r, s)
    BY <2>2, <2>3, AheadGrows, BehindGrows
  <2>4. CASE Precedes(s, r)
    BY <2>2, <2>4, AheadGrows, BehindGrows
  <2> QED BY <2>1, <2>3, <2>4
<1>3. /\ RankIn(S) \in [S -> 0..(Cardinality(S) - 1)]
      /\ RankFromEnd(S) \in [S -> 0..(Cardinality(S) - 1)]
  BY <1>1 DEF RankIn, RankFromEnd
<1>4. IsInjective(RankIn(S)) /\ IsInjective(RankFromEnd(S))
  BY <1>2, Zenon DEF RankIn, RankFromEnd, IsInjective
<1> QED BY <1>3, <1>4 DEF Injection

\* slice(0, k): k rows if there are as many, all of them otherwise, and
\* whatever is left out has k rows before it and stands after every row kept.
LEMMA NewestCuts ==
  ASSUME NEW S \in SUBSET Row, NEW k \in Nat
  PROVE  /\ Newest(S, k) \subseteq S
         /\ k <= Cardinality(S) => Cardinality(Newest(S, k)) = k
         /\ Cardinality(S) <= k => Newest(S, k) = S
         /\ Cardinality(Newest(S, k)) <= k
         /\ \A r \in S \ Newest(S, k) : /\ Cardinality(Ahead(S, r)) >= k
                                      /\ \A p \in Newest(S, k) : Precedes(p, r)
<1> DEFINE f == RankIn(S)
<1>1. Newest(S, k) = {r \in S : f[r] < k}
  BY DEF Newest, RankIn, Ahead
<1>2. IsFiniteSet(S) /\ Cardinality(S) \in Nat
  BY SubsetFinite
<1>3. f \in Injection(S, 0..(Cardinality(S) - 1))
  BY RanksAreInjective
<1>4. /\ k <= Cardinality(S) => Cardinality(Newest(S, k)) = k
      /\ Cardinality(S) <= k => Newest(S, k) = S
  <2> HIDE DEF f
  <2>1. /\ k <= Cardinality(S) => Cardinality({r \in S : f[r] < k}) = k
        /\ Cardinality(S) <= k => {r \in S : f[r] < k} = S
    BY <1>2, <1>3, RankCount, Zenon
  <2> QED BY <1>1, <2>1
<1>5. ASSUME NEW r \in S \ Newest(S, k)
      PROVE  /\ Cardinality(Ahead(S, r)) >= k
             /\ \A p \in Newest(S, k) : Precedes(p, r)
  <2>0. \A p \in S : Cardinality(Ahead(S, p)) \in Nat
    BY SubsetFinite DEF Ahead
  <2>1. Cardinality(Ahead(S, r)) >= k
    BY <2>0, <1>5 DEF Newest, Ahead
  <2>2. ASSUME NEW p \in Newest(S, k) PROVE Precedes(p, r)
    <3>1. p \in S /\ Cardinality(Ahead(S, p)) < k
      BY DEF Newest, Ahead
    <3>2. ~Precedes(r, p)
      BY <2>0, <2>1, <3>1, AheadGrows
    <3>3. p # r
      BY <1>5
    <3> QED BY <3>1, <3>2, <3>3, PrecedesOrder DEF Cursor
  <2> QED BY <2>1, <2>2
<1> QED BY <1>1, <1>2, <1>4, <1>5

\* slice(-k), likewise from the other end.
LEMMA OldestCuts ==
  ASSUME NEW S \in SUBSET Row, NEW k \in Nat
  PROVE  /\ Oldest(S, k) \subseteq S
         /\ k <= Cardinality(S) => Cardinality(Oldest(S, k)) = k
         /\ Cardinality(S) <= k => Oldest(S, k) = S
         /\ Cardinality(Oldest(S, k)) <= k
         /\ \A r \in S \ Oldest(S, k) : /\ Cardinality(Behind(S, r)) >= k
                                      /\ \A p \in Oldest(S, k) : Precedes(r, p)
<1> DEFINE f == RankFromEnd(S)
<1>1. Oldest(S, k) = {r \in S : f[r] < k}
  BY DEF Oldest, RankFromEnd, Behind
<1>2. IsFiniteSet(S) /\ Cardinality(S) \in Nat
  BY SubsetFinite
<1>3. f \in Injection(S, 0..(Cardinality(S) - 1))
  BY RanksAreInjective
<1>4. /\ k <= Cardinality(S) => Cardinality(Oldest(S, k)) = k
      /\ Cardinality(S) <= k => Oldest(S, k) = S
  <2> HIDE DEF f
  <2>1. /\ k <= Cardinality(S) => Cardinality({r \in S : f[r] < k}) = k
        /\ Cardinality(S) <= k => {r \in S : f[r] < k} = S
    BY <1>2, <1>3, RankCount, Zenon
  <2> QED BY <1>1, <2>1
<1>5. ASSUME NEW r \in S \ Oldest(S, k)
      PROVE  /\ Cardinality(Behind(S, r)) >= k
             /\ \A p \in Oldest(S, k) : Precedes(r, p)
  <2>0. \A p \in S : Cardinality(Behind(S, p)) \in Nat
    BY SubsetFinite DEF Behind
  <2>1. Cardinality(Behind(S, r)) >= k
    BY <2>0, <1>5 DEF Oldest, Behind
  <2>2. ASSUME NEW p \in Oldest(S, k) PROVE Precedes(r, p)
    <3>1. p \in S /\ Cardinality(Behind(S, p)) < k
      BY DEF Oldest, Behind
    <3>2. ~Precedes(p, r)
      BY <2>0, <2>1, <3>1, BehindGrows
    <3>3. p # r
      BY <1>5
    <3> QED BY <3>1, <3>2, <3>3, PrecedesOrder DEF Cursor
  <2> QED BY <2>1, <2>2
<1> QED BY <1>1, <1>2, <1>4, <1>5

\* A page that is not empty has a first and a last row.
LEMMA FirstAndLast ==
  ASSUME NEW S \in SUBSET Row, S # {}
  PROVE  /\ First(S) \in S /\ \A s \in S \ {First(S)} : Precedes(First(S), s)
         /\ Last(S) \in S /\ \A s \in S \ {Last(S)} : Precedes(s, Last(S))
<1> DEFINE c == Cardinality(S)
<1>1. IsFiniteSet(S) /\ c \in Nat /\ c # 0
  BY SubsetFinite, FS_EmptySet
<1>2. /\ \E r \in S : RankIn(S)[r] = 0
      /\ \E r \in S : RankFromEnd(S)[r] = 0
  <2>1. 0 \in 0..(c - 1) /\ 0 \in Nat
    BY <1>1
  <2>2. /\ RankIn(S) \in Injection(S, 0..(Cardinality(S) - 1))
        /\ RankFromEnd(S) \in Injection(S, 0..(Cardinality(S) - 1))
    BY RanksAreInjective
  <2>3. \A i \in 0..(c - 1) : \E r \in S : RankIn(S)[r] = i
    BY <1>1, <2>1, <2>2, RankCount, Zenon
  <2>4. \A i \in 0..(c - 1) : \E r \in S : RankFromEnd(S)[r] = i
    BY <1>1, <2>1, <2>2, RankCount, Zenon
  <2> QED BY <2>1, <2>3, <2>4, Zenon
<1>3. \E r \in S : \A s \in S \ {r} : Precedes(r, s)
  <2>1. PICK r \in S : Cardinality(Ahead(S, r)) = 0
    BY <1>2 DEF RankIn
  <2>2. Ahead(S, r) = {}
    BY <2>1, SubsetFinite, FS_EmptySet DEF Ahead
  <2> QED BY <2>2, PrecedesOrder DEF Ahead, Cursor
<1>4. \E r \in S : \A s \in S \ {r} : Precedes(s, r)
  <2>1. PICK r \in S : Cardinality(Behind(S, r)) = 0
    BY <1>2 DEF RankFromEnd
  <2>2. Behind(S, r) = {}
    BY <2>1, SubsetFinite, FS_EmptySet DEF Behind
  <2> QED BY <2>2, PrecedesOrder DEF Behind, Cursor
<1>5. First(S) \in S /\ \A s \in S \ {First(S)} : Precedes(First(S), s)
  BY <1>3, Zenon DEF First
<1>6. Last(S) \in S /\ \A s \in S \ {Last(S)} : Precedes(s, Last(S))
  BY <1>4, Zenon DEF Last
<1> QED BY <1>5, <1>6

-----------------------------------------------------------------------------
(* The inductive invariant of a request.                                   *)

IInv == TypeOK /\ ScanInv

LEMMA PageSizeFillsFeed ==
  PageSize \in Nat /\ PageSize >= Limit /\ Limit \in Nat /\ Limit >= 1
BY SizesAssumption, CappedPageFillsFeed DEF PageSize

LEMMA RowNotNoRow == NoRow \notin Row
BY BoundsAssumption DEF Row, NoRow

LEMMA InitIInv == Init => IInv
<1> SUFFICES ASSUME Init PROVE IInv
  OBVIOUS
<1>1. Cardinality({}) = 0
  BY FS_EmptySet
<1>2. TypeOK
  <2>1. Cardinality(page) <= Limit
    BY <1>1, PageSizeFillsFeed DEF Init
  <2>2. nextBefore \in [Nodes -> Cursor]
    BY DEF Init, NoLocals, Cursor
  <2>3. arrivals \in 0..MaxArrivals /\ failures \in 0..MaxFailures
    BY BoundsAssumption DEF Init
  <2>4. rows \subseteq Row /\ seen = {} /\ merged = {} /\ page = {} /\ left = {}
    BY DEF Init, NoLocals
  <2>5. /\ feed \in Feeds /\ direction \in Direction /\ busy \in BOOLEAN
        /\ outcome \in Outcome
        /\ pending = {} /\ answered = {} /\ exhausted = {} /\ silent = {}
    BY DEF Init, NoLocals, Direction, Outcome
  <2>6. cursor \in Cursor /\ before \in Cursor /\ after \in Cursor
    BY DEF Init, Cursor
  <2> QED BY <2>1, <2>2, <2>3, <2>4, <2>5, <2>6 DEF TypeOK
<1>3. ScanInv
  BY DEF Init, NoLocals, ScanInv
<1> QED BY <1>2, <1>3 DEF IInv

\* What the next page of a node looks like, and what it does to its scan.
LEMMA NodePageFacts ==
  ASSUME IInv, NEW n \in Nodes
  PROVE  /\ NodePage(n) \subseteq Older(n) /\ Older(n) \subseteq RowsOf(n, rows)
         /\ Older(n) \in SUBSET Row /\ NodePage(n) \in SUBSET Row
         /\ ~MoreOn(n) => NodePage(n) = Older(n)
         /\ MoreOn(n) => /\ Cardinality(NodePage(n)) >= Limit
                         /\ Last(NodePage(n)) \in NodePage(n)
                         /\ \A p \in NodePage(n) : p = Last(NodePage(n))
                                                 \/ Precedes(p, Last(NodePage(n)))
                         /\ \A r \in Older(n) \ NodePage(n) :
                              Precedes(Last(NodePage(n)), r)
<1>1. Older(n) \subseteq RowsOf(n, rows) /\ Older(n) \in SUBSET Row
  BY DEF Older, RowsOf, IInv, TypeOK
<1>2. Cardinality(Older(n)) \in Nat
  BY <1>1, SubsetFinite
<1>3. /\ NodePage(n) \subseteq Older(n)
      /\ PageSize <= Cardinality(Older(n)) => Cardinality(NodePage(n)) = PageSize
      /\ Cardinality(Older(n)) <= PageSize => NodePage(n) = Older(n)
      /\ \A r \in Older(n) \ NodePage(n) : \A p \in NodePage(n) : Precedes(p, r)
  <2> HIDE DEF PageSize, Older
  <2> QED BY <1>1, PageSizeFillsFeed, NewestCuts DEF NodePage
<1>4. ~MoreOn(n) => NodePage(n) = Older(n)
  BY <1>2, <1>3, PageSizeFillsFeed DEF MoreOn
<1>5. ASSUME MoreOn(n)
      PROVE  /\ Cardinality(NodePage(n)) >= Limit
             /\ NodePage(n) # {}
  BY <1>2, <1>3, <1>5, PageSizeFillsFeed, FS_EmptySet DEF MoreOn
<1>6. NodePage(n) \in SUBSET Row
  BY <1>1, <1>3
<1> QED BY <1>1, <1>3, <1>4, <1>5, <1>6, FirstAndLast

\* The cards of a page that Reply shows.
LEMMA PageFacts ==
  ASSUME IInv
  PROVE  /\ Filtered \subseteq merged /\ Filtered \in SUBSET Row
         /\ PageOf \subseteq Filtered
         /\ Cardinality(PageOf) <= Limit
         /\ Limit <= Cardinality(Filtered) => Cardinality(PageOf) = Limit
         /\ ~HasMore => PageOf = Filtered
<1>1. Filtered \subseteq merged /\ Filtered \in SUBSET Row
  BY DEF Filtered, IInv, TypeOK
<1>2. Cardinality(Filtered) \in Nat
  BY <1>1, SubsetFinite
<1>3. ~HasMore => Cardinality(Filtered) <= Limit
  BY <1>2, PageSizeFillsFeed DEF HasMore
<1>4. PageOf = Newest(Filtered, Limit) \/ PageOf = Oldest(Filtered, Limit)
  BY DEF PageOf
<1> HIDE DEF Filtered
<1> QED BY <1>1, <1>3, <1>4, NewestCuts, OldestCuts, PageSizeFillsFeed

LEMMA PagersOf ==
  ASSUME IInv
  PROVE  /\ NextBeforeOf(PageOf) \in Cursor /\ NextAfterOf(PageOf) \in Cursor
         /\ NextBeforeOf(PageOf) # NoRow =>
              \A p \in PageOf : p = NextBeforeOf(PageOf)
                              \/ Precedes(p, NextBeforeOf(PageOf))
         /\ NextAfterOf(PageOf) # NoRow =>
              \A p \in PageOf : p = NextAfterOf(PageOf)
                              \/ Precedes(NextAfterOf(PageOf), p)
         /\ NextBeforeOf(PageOf) = NoRow
              => PageOf = {} \/ (direction # "newer" /\ ~HasMore)
         /\ (NextAfterOf(PageOf) = NoRow /\ direction = "newer")
              => PageOf = {} \/ ~HasMore
<1> DEFINE P == PageOf
<1>1. P \in SUBSET Row
  BY PageFacts
<1> HIDE DEF P
<1>2. P # {} => /\ First(P) \in Row /\ First(P) # NoRow
                /\ Last(P) \in Row /\ Last(P) # NoRow
                /\ \A p \in P : p = First(P) \/ Precedes(First(P), p)
                /\ \A p \in P : p = Last(P) \/ Precedes(p, Last(P))
  BY <1>1, FirstAndLast, RowNotNoRow
<1>3. /\ NextBeforeOf(P) = Last(P) \/ NextBeforeOf(P) = NoRow
      /\ NextAfterOf(P) = First(P) \/ NextAfterOf(P) = NoRow
      /\ NextBeforeOf(P) # NoRow => P # {} /\ NextBeforeOf(P) = Last(P)
      /\ NextAfterOf(P) # NoRow => P # {} /\ NextAfterOf(P) = First(P)
      /\ (P # {} /\ (direction = "newer" \/ HasMore)) => NextBeforeOf(P) = Last(P)
      /\ (P # {} /\ direction = "newer" /\ HasMore) => NextAfterOf(P) = First(P)
  BY Zenon DEF NextBeforeOf, NextAfterOf
<1>4. NextBeforeOf(P) \in Cursor /\ NextAfterOf(P) \in Cursor
  BY <1>2, <1>3 DEF Cursor
<1>5. /\ NextBeforeOf(P) # NoRow =>
           \A p \in P : p = NextBeforeOf(P) \/ Precedes(p, NextBeforeOf(P))
      /\ NextAfterOf(P) # NoRow =>
           \A p \in P : p = NextAfterOf(P) \/ Precedes(NextAfterOf(P), p)
  BY <1>2, <1>3
<1>6. /\ NextBeforeOf(P) = NoRow => P = {} \/ (direction # "newer" /\ ~HasMore)
      /\ (NextAfterOf(P) = NoRow /\ direction = "newer") => P = {} \/ ~HasMore
  BY <1>2, <1>3
<1> QED BY <1>4, <1>5, <1>6, Zenon DEF P

LEMMA TypeStep == IInv /\ [Next]_vars => TypeOK'
<1> SUFFICES ASSUME IInv, [Next]_vars PROVE TypeOK'
  OBVIOUS
<1> USE DEF IInv, TypeOK
<1>1. ASSUME NEW d \in Direction, NEW c \in Cursor, Begin(d, c) PROVE TypeOK'
  BY <1>1 DEF Begin, clientVars
<1>2. CASE OpenFeed
  BY <1>1, <1>2 DEF OpenFeed, Direction, Cursor
<1>3. CASE ShowOlder
  BY <1>1, <1>3 DEF ShowOlder, Direction
<1>4. CASE ShowNewer
  BY <1>1, <1>4 DEF ShowNewer, Direction
<1>5. ASSUME NEW n \in Nodes, Answer(n) PROVE TypeOK'
  <2>1. merged' \subseteq Row
    BY <1>5, NodePageFacts DEF Answer
  <2>2. nextBefore' \in [Nodes -> Cursor] /\ exhausted' \subseteq Nodes
    <3>1. MoreOn(n) => Last(NodePage(n)) \in Cursor
      BY NodePageFacts DEF Cursor
    <3>2. NoRow \in Cursor
      BY DEF Cursor
    <3> HIDE DEF MoreOn, NodePage, Last
    <3> QED BY <1>5, <3>1, <3>2 DEF Answer
  <2> QED BY <1>5, <2>1, <2>2 DEF Answer, requestVars, clientVars
<1>6. ASSUME NEW n \in Nodes, Reject(n) PROVE TypeOK'
  <2>1. failures' \in 0..MaxFailures
    BY <1>6, BoundsAssumption DEF Reject
  <2> QED BY <1>6, <2>1 DEF Reject, requestVars, clientVars
<1>7. CASE Throw
  BY <1>7 DEF Throw, DropLocals, requestVars, Outcome, Cursor
<1>8. CASE NextRound
  BY <1>8 DEF NextRound, requestVars, clientVars
<1>9. CASE Reply
  <2>1. page' \subseteq Row /\ Cardinality(page') <= Limit
    BY <1>9, PageFacts DEF Reply
  <2>2. before' \in Cursor /\ after' \in Cursor
    BY <1>9, PagersOf DEF Reply
  <2>3. left' \subseteq Row
    BY <1>9 DEF Reply
  <2>4. nextBefore' \in [Nodes -> Cursor]
    BY <1>9 DEF Reply, DropLocals, Cursor
  <2> QED BY <1>9, <2>1, <2>2, <2>3, <2>4 DEF Reply, DropLocals, requestVars, Outcome
<1>10. ASSUME NEW n \in Nodes, NEW t \in 1..MaxTime, Ingest(n, t) PROVE TypeOK'
  <2>1. rows' \subseteq Row
    BY <1>10 DEF Ingest, Row
  <2>2. arrivals' \in 0..MaxArrivals
    BY <1>10, BoundsAssumption DEF Ingest
  <2> QED BY <1>10, <2>1, <2>2 DEF Ingest, requestVars, localVars, clientVars
<1>11. CASE UNCHANGED vars
  BY <1>11 DEF vars, requestVars, localVars, clientVars
<1> QED BY <1>2, <1>3, <1>4, <1>5, <1>6, <1>7, <1>8, <1>9, <1>10, <1>11 DEF Next

\* A successful query of node n extends the scan of n ...
LEMMA AnswerScansOwn ==
  ASSUME IInv, TypeOK', NEW n \in Nodes, Answer(n)
  PROVE  ScanOf(n)'
<1>0. /\ busy /\ n \notin exhausted /\ n \notin answered /\ ScanOf(n)
      /\ seen \subseteq rows /\ rows \subseteq Row /\ merged \subseteq Row
      /\ silent \subseteq exhausted
      /\ nextBefore \in [Nodes -> Cursor]
  BY DEF Answer, IInv, TypeOK, ScanInv, NoLocals
<1>1. /\ merged' = merged \cup NodePage(n) /\ seen' = seen /\ silent' = silent
      /\ merged' \subseteq Row
  BY DEF Answer, requestVars, TypeOK
<1>2. \A r \in RowsOf(n, seen) : r \in Older(n) \/ r \in merged
  BY <1>0 DEF ScanOf, Older, RowsOf
<1>3. CASE ~MoreOn(n)
  <2>1. nextBefore'[n] = NoRow /\ n \in exhausted'
    BY <1>0, <1>3 DEF Answer
  <2>2. RowsOf(n, seen) \subseteq merged'
    BY <1>1, <1>2, <1>3, NodePageFacts
  <2> QED BY <1>1, <2>1, <2>2 DEF ScanOf, RowsOf
<1>4. CASE MoreOn(n)
  <2> DEFINE b == Last(NodePage(n))
  <2>1. nextBefore'[n] = b /\ exhausted' = exhausted
    BY <1>0, <1>4 DEF Answer
  <2>2. /\ Cardinality(NodePage(n)) >= Limit
        /\ b \in NodePage(n) /\ NodePage(n) \in SUBSET Row
        /\ \A p \in NodePage(n) : p = b \/ Precedes(p, b)
        /\ \A r \in Older(n) \ NodePage(n) : Precedes(b, r)
        /\ NodePage(n) \subseteq Older(n) /\ Older(n) \subseteq RowsOf(n, rows)
    BY <1>4, NodePageFacts
  <2>3. b \in Row /\ b # NoRow
    BY <2>2, RowNotNoRow
  <2> HIDE DEF b
  <2>4. \A r \in RowsOf(n, seen') : Precedes(b, r) \/ r \in merged'
    BY <1>1, <1>2, <2>2
  <2>5. \A r \in RowsOf(n, merged') : ~Precedes(b, r)
    <3> SUFFICES ASSUME NEW r \in RowsOf(n, merged') PROVE ~Precedes(b, r)
      OBVIOUS
    <3>1. r \in Row /\ (r \in RowsOf(n, merged) \/ r \in NodePage(n))
      BY <1>1 DEF RowsOf
    <3>2. CASE r \in NodePage(n)
      BY <2>2, <2>3, <3>1, <3>2, PrecedesOrder DEF Cursor
    <3>3. CASE r \in RowsOf(n, merged)
      <4>1. nextBefore[n] # NoRow /\ ~Precedes(nextBefore[n], r)
        BY <1>0, <3>3 DEF ScanOf
      <4>2. Precedes(nextBefore[n], b)
        BY <2>2, <4>1 DEF Older
      <4>3. nextBefore[n] \in Cursor /\ b \in Cursor /\ r \in Cursor
        BY <1>0, <2>3, <3>1 DEF Cursor
      <4> QED BY <4>1, <4>2, <4>3, PrecedesOrder
    <3> QED BY <3>1, <3>2, <3>3
  <2>6. Cardinality(RowsOf(n, merged')) >= Limit
    <3>1. NodePage(n) \subseteq RowsOf(n, merged') /\ RowsOf(n, merged') \in SUBSET Row
      BY <1>1, <2>2 DEF RowsOf
    <3>2. /\ Cardinality(NodePage(n)) \in Nat
          /\ Cardinality(RowsOf(n, merged')) \in Nat
          /\ Cardinality(NodePage(n)) <= Cardinality(RowsOf(n, merged'))
      BY <2>2, <3>1, SubsetFinite, FS_Subset
    <3> QED BY <2>2, <3>2, PageSizeFillsFeed
  <2>7. n \notin exhausted'
    BY <1>0, <2>1
  <2> QED BY <2>1, <2>3, <2>4, <2>5, <2>6, <2>7 DEF ScanOf, RowsOf
<1> QED BY <1>3, <1>4

\* ... and leaves that of the others as it was.
LEMMA AnswerKeepsOthers ==
  ASSUME IInv, TypeOK', NEW n \in Nodes, NEW m \in Nodes, m # n, Answer(n)
  PROVE  ScanOf(m)'
<1>0. busy /\ ScanOf(m)
  BY DEF Answer, IInv, ScanInv, NoLocals
<1>1. RowsOf(m, merged') = RowsOf(m, merged)
  <2>1. NodePage(n) \subseteq RowsOf(n, rows)
    BY NodePageFacts
  <2> QED BY <2>1 DEF Answer, RowsOf
<1>2. /\ merged \subseteq merged' /\ seen' = seen /\ silent' = silent
      /\ nextBefore'[m] = nextBefore[m]
      /\ m \in exhausted' <=> m \in exhausted
      /\ m \in pending' <=> m \in pending
  BY DEF Answer, requestVars, IInv, TypeOK
<1> QED BY <1>0, <1>1, <1>2 DEF ScanOf

LEMMA ScanStep == IInv /\ [Next]_vars /\ TypeOK' => ScanInv'
<1> SUFFICES ASSUME IInv, [Next]_vars, TypeOK' PROVE ScanInv'
  OBVIOUS
<1>0. ScanInv /\ TypeOK
  BY DEF IInv
<1>1. ASSUME NEW d, NEW c, Begin(d, c),
             d = "older" => c = before /\ before # NoRow,
             d = "newer" => c = after /\ after # NoRow
      PROVE  ScanInv'
  <2>1. /\ pending' = Nodes /\ answered' = {} /\ exhausted' = {} /\ merged' = {}
        /\ nextBefore' = [n \in Nodes |-> NoRow] /\ silent' = {} /\ busy'
        /\ seen' = rows /\ rows' = rows /\ direction' = d /\ cursor' = c
        /\ page' = page /\ before' = before /\ after' = after
    BY <1>0, <1>1 DEF Begin, ScanInv, NoLocals, clientVars
  <2>2. \A n \in Nodes : ScanOf(n)'
    BY <2>1 DEF ScanOf, RowsOf
  <2> QED BY <1>0, <1>1, <2>1, <2>2 DEF ScanInv
<1>2. CASE OpenFeed
  BY <1>1, <1>2 DEF OpenFeed
<1>3. CASE ShowOlder
  BY <1>1, <1>3 DEF ShowOlder
<1>4. CASE ShowNewer
  BY <1>1, <1>4 DEF ShowNewer
<1>5. ASSUME NEW n \in Nodes, Answer(n) PROVE ScanInv'
  <2>1. \A m \in Nodes : ScanOf(m)'
    <3> TAKE m \in Nodes
    <3>1. CASE m = n
      BY <1>5, <3>1, AnswerScansOwn
    <3>2. CASE m # n
      BY <1>5, <3>2, AnswerKeepsOthers
    <3> QED BY <3>1, <3>2
  <2>2. merged' \subseteq rows'
    <3>1. NodePage(n) \subseteq RowsOf(n, rows)
      BY NodePageFacts
    <3> QED BY <1>0, <1>5, <3>1 DEF Answer, ScanInv, RowsOf
  <2>3. busy /\ busy' = busy
    BY <1>0, <1>5 DEF Answer, ScanInv, NoLocals
  <2>4. /\ pending' = pending \ {n} /\ answered' = answered \cup {n}
        /\ exhausted' \subseteq exhausted \cup {n} /\ exhausted \subseteq exhausted'
        /\ silent' = silent /\ rows' = rows /\ seen' = seen
        /\ direction' = direction /\ cursor' = cursor
        /\ page' = page /\ before' = before /\ after' = after
    BY <1>5 DEF Answer, requestVars, clientVars
  <2> QED BY <1>0, <2>1, <2>2, <2>3, <2>4 DEF ScanInv
<1>6. ASSUME NEW n \in Nodes, Reject(n) PROVE ScanInv'
  <2>1. busy /\ busy' = busy
    BY <1>0, <1>6 DEF Reject, ScanInv, NoLocals
  <2>2. \A m \in Nodes : ScanOf(m)'
    BY <1>0, <1>6, <2>1 DEF Reject, ScanInv, ScanOf, RowsOf, requestVars
  <2> QED BY <1>0, <1>6, <2>1, <2>2 DEF Reject, ScanInv, requestVars, clientVars
<1>7. CASE Throw
  BY <1>0, <1>7 DEF Throw, DropLocals, NoLocals, ScanInv, requestVars
<1>8. CASE NextRound
  <2>1. busy /\ busy' = busy /\ pending = {}
    BY <1>8 DEF NextRound, Settled
  <2>2. \A m \in Nodes : ScanOf(m)'
    <3> TAKE m \in Nodes
    <3>1. ScanOf(m)
      BY <1>0, <2>1 DEF ScanInv
    <3> QED BY <1>8, <2>1, <3>1 DEF NextRound, ScanOf, RowsOf, requestVars
  <2> QED BY <1>0, <1>8, <2>1, <2>2 DEF NextRound, ScanInv, requestVars, clientVars
<1>9. CASE Reply
  <2>1. /\ ~busy' /\ NoLocals' /\ merged' = {} /\ seen' = seen /\ rows' = rows
        /\ page' = PageOf
        /\ before' = NextBeforeOf(PageOf) /\ after' = NextAfterOf(PageOf)
    BY <1>9 DEF Reply, DropLocals, NoLocals, requestVars
  <2>2. /\ before' # NoRow => \A p \in page' : p = before' \/ Precedes(p, before')
        /\ after' # NoRow => \A p \in page' : p = after' \/ Precedes(after', p)
    BY <2>1, PagersOf, Zenon
  <2> QED BY <1>0, <2>1, <2>2 DEF ScanInv
<1>10. ASSUME NEW n \in Nodes, NEW t \in 1..MaxTime, Ingest(n, t) PROVE ScanInv'
  <2>1. /\ rows \subseteq rows'
        /\ UNCHANGED <<requestVars, busy, localVars, silent, clientVars>>
    BY <1>10 DEF Ingest
  <2>2. /\ NoLocals => NoLocals'
        /\ \A m \in Nodes : ScanOf(m) => ScanOf(m)'
    BY <2>1 DEF requestVars, localVars, NoLocals, ScanOf, RowsOf
  <2> QED BY <1>0, <2>1, <2>2 DEF ScanInv, requestVars, localVars, clientVars
<1>11. CASE UNCHANGED vars
  <2>1. /\ NoLocals => NoLocals'
        /\ \A m \in Nodes : ScanOf(m) => ScanOf(m)'
    BY <1>11 DEF vars, requestVars, localVars, NoLocals, ScanOf, RowsOf
  <2> QED BY <1>0, <1>11, <2>1 DEF ScanInv, vars, requestVars, localVars, clientVars
<1> QED BY <1>2, <1>3, <1>4, <1>5, <1>6, <1>7, <1>8, <1>9, <1>10, <1>11 DEF Next

\* The invariant of the merged feeds (fetchGlobalRecentUpdates,
\* fetchGlobalContracts, fetchGlobalTrafficPurchases): a request knows of every
\* node exactly the newest rows down to where its next page starts.
THEOREM FeedInvariant == Spec => [](TypeOK /\ ScanInv)
<1>1. IInv /\ [Next]_vars => IInv'
  BY TypeStep, ScanStep DEF IInv
<1> QED BY InitIInv, <1>1, PTL DEF Spec, IInv

-----------------------------------------------------------------------------
(* What the pages served show.                                             *)

\* Within a request, the rows of nodes that answered have no hole above the
\* row their next page starts from (fetchRecentUpdates' paging by offset).
THEOREM ScanHasNoHole == Spec => []NoHoleInScan
<1>1. TypeOK /\ ScanInv => NoHoleInScan
  <2> SUFFICES ASSUME TypeOK, ScanInv, NEW r \in Owed, busy, r \notin merged,
                      r.node \in answered \/ r.node \in exhausted
               PROVE  nextBefore[r.node] # NoRow /\ Precedes(nextBefore[r.node], r)
    BY DEF NoHoleInScan
  <2>1. r.node \in Nodes /\ r \in RowsOf(r.node, seen) /\ r.node \notin silent
    BY DEF Owed, RowsOf, TypeOK, Row
  <2>2. ScanOf(r.node) /\ pending \cap answered = {}
    BY <2>1 DEF ScanInv
  <2> QED BY <2>1, <2>2 DEF ScanOf
<1> QED BY FeedInvariant, <1>1, PTL

\* Once the queries of a round have settled, a row not received yet is on a
\* node with more to give, and a page of that node's rows stands before it.
LEMMA UnreadRow ==
  ASSUME IInv, Settled, NEW r \in Owed, r \notin merged
  PROVE  /\ r \in Row /\ r.node \in Nodes \ exhausted
         /\ \A s \in RowsOf(r.node, merged) : Precedes(s, r)
         /\ Cardinality(Ahead(merged, r)) >= Limit
         /\ Cardinality(merged) >= Limit
<1> DEFINE n == r.node
           b == nextBefore[n]
<1>1. r \in Row /\ n \in Nodes /\ r \in RowsOf(n, seen) /\ n \notin silent
  BY DEF Owed, RowsOf, IInv, TypeOK, Row
<1>2. busy /\ pending = {} /\ ScanOf(n) /\ merged \in SUBSET Row
  BY <1>1 DEF Settled, IInv, TypeOK, ScanInv
<1>3. n \notin exhausted /\ b # NoRow
  BY <1>1, <1>2 DEF ScanOf
<1>4. /\ Precedes(b, r)
      /\ \A s \in RowsOf(n, merged) : ~Precedes(b, s)
      /\ Cardinality(RowsOf(n, merged)) >= Limit
  BY <1>1, <1>2, <1>3 DEF ScanOf
<1>5. b \in Cursor /\ r \in Cursor /\ \A s \in RowsOf(n, merged) : s \in Cursor
  BY <1>1, <1>2 DEF IInv, TypeOK, Cursor, RowsOf
<1>6. \A s \in RowsOf(n, merged) : Precedes(s, r)
  <2> HIDE DEF b, n
  <2> TAKE s \in RowsOf(n, merged)
  <2>1. s = b \/ Precedes(s, b)
    BY <1>4, <1>5, PrecedesOrder
  <2> QED BY <1>4, <1>5, <2>1, PrecedesOrder
<1>7. /\ RowsOf(n, merged) \subseteq Ahead(merged, r)
      /\ Ahead(merged, r) \subseteq merged
  BY <1>6 DEF RowsOf, Ahead
<1>8. /\ Cardinality(RowsOf(n, merged)) <= Cardinality(Ahead(merged, r))
      /\ Cardinality(Ahead(merged, r)) <= Cardinality(merged)
      /\ Cardinality(RowsOf(n, merged)) \in Nat
      /\ Cardinality(Ahead(merged, r)) \in Nat /\ Cardinality(merged) \in Nat
  BY <1>2, <1>7, SubsetFinite, FS_Subset DEF RowsOf, Ahead
<1> QED BY <1>1, <1>3, <1>4, <1>6, <1>8, PageSizeFillsFeed

\* Only Reply shows a page; until the next request the page, and what it was
\* asked from, stay as they are.
LEMMA OnlyReplyServes ==
  ASSUME IInv, [Next]_vars
  PROVE  Reply \/ ~Served'
         \/ UNCHANGED <<busy, outcome, requestVars, feed, silent, clientVars>>
<1>0. pending # {} => busy
  BY DEF IInv, ScanInv, NoLocals
<1>1. CASE OpenFeed \/ ShowOlder \/ ShowNewer
  BY <1>1 DEF OpenFeed, ShowOlder, ShowNewer, Begin, Served
<1>2. ASSUME NEW n \in Nodes, Answer(n) \/ Reject(n) PROVE ~Served'
  BY <1>0, <1>2 DEF Answer, Reject, Served
<1>3. CASE Throw
  BY <1>3 DEF Throw, Served
<1>4. CASE NextRound
  BY <1>4 DEF NextRound, Settled, Served
<1>5. ASSUME NEW n \in Nodes, NEW t \in 1..MaxTime, Ingest(n, t)
      PROVE  UNCHANGED <<busy, outcome, requestVars, feed, silent, clientVars>>
  BY <1>5 DEF Ingest, clientVars
<1>6. CASE UNCHANGED vars
  BY <1>6 DEF vars, clientVars
<1> QED BY <1>1, <1>2, <1>3, <1>4, <1>5, <1>6 DEF Next

\* A feed opens with the newest rows of all nodes that answered, each asked for
\* no more rows than a page: the merge of fetchGlobalRecentUpdates,
\* fetchGlobalContracts and fetchGlobalTrafficPurchases without a cursor.
THEOREM OpenedPageNewest == Spec => []OpenedPageIsNewest
<1>1. Init => OpenedPageIsNewest
  BY DEF Init, OpenedPageIsNewest, Served
<1>2. ASSUME IInv, Reply PROVE OpenedPageIsNewest'
  <2> SUFFICES ASSUME direction = "newest", NEW r \in Owed \ PageOf
               PROVE  /\ Cardinality(PageOf) = Limit
                      /\ \A p \in PageOf : Precedes(p, r)
    BY <1>2 DEF Reply, OpenedPageIsNewest, Owed, requestVars
  <2>1. PageOf = Newest(merged, Limit)
    BY DEF PageOf, Filtered
  <2>2. merged \in SUBSET Row /\ Limit \in Nat /\ Settled
    BY <1>2, PageSizeFillsFeed DEF IInv, TypeOK, Reply
  <2>3. CASE r \in merged
    <3>1. /\ Cardinality(Ahead(merged, r)) >= Limit
          /\ \A p \in PageOf : Precedes(p, r)
      BY <2>1, <2>2, <2>3, NewestCuts
    <3>2. Ahead(merged, r) \subseteq merged
      BY DEF Ahead
    <3>3. /\ Cardinality(Ahead(merged, r)) <= Cardinality(merged)
          /\ Cardinality(Ahead(merged, r)) \in Nat /\ Cardinality(merged) \in Nat
      BY <2>2, <3>2, SubsetFinite, FS_Subset
    <3>4. Cardinality(PageOf) = Limit
      BY <2>1, <2>2, <3>1, <3>3, NewestCuts
    <3> QED BY <3>1, <3>4
  <2>4. CASE r \notin merged
    <3>1. /\ r \in Row /\ Cardinality(Ahead(merged, r)) >= Limit
          /\ Cardinality(merged) >= Limit
      BY <1>2, <2>2, <2>4, UnreadRow
    <3>2. Cardinality(PageOf) = Limit
      BY <2>1, <2>2, <3>1, NewestCuts
    <3>3. ASSUME NEW p \in PageOf PROVE Precedes(p, r)
      <4>1. p \in merged /\ p \in Row /\ Cardinality(Ahead(merged, p)) < Limit
        BY <2>1, <2>2 DEF Newest, Ahead
      <4>2. ~Precedes(r, p)
        <5> SUFFICES ASSUME Precedes(r, p) PROVE FALSE
          OBVIOUS
        <5>1. Ahead(merged, r) \subseteq Ahead(merged, p)
          BY <2>2, <3>1, <4>1, PrecedesOrder DEF Ahead, Cursor
        <5>2. /\ Cardinality(Ahead(merged, r)) <= Cardinality(Ahead(merged, p))
              /\ Cardinality(Ahead(merged, r)) \in Nat
              /\ Cardinality(Ahead(merged, p)) \in Nat
          <6>1. Ahead(merged, p) \in SUBSET Row /\ Ahead(merged, r) \in SUBSET Row
            BY <2>2 DEF Ahead
          <6> QED BY <5>1, <6>1, SubsetFinite, FS_Subset
        <5> QED BY <2>2, <3>1, <4>1, <5>2
      <4>3. p # r
        BY <2>4, <4>1
      <4> QED BY <3>1, <4>1, <4>2, <4>3, PrecedesOrder DEF Cursor
    <3> QED BY <3>2, <3>3
  <2> QED BY <2>3, <2>4
<1>3. ASSUME IInv, OpenedPageIsNewest, [Next]_vars PROVE OpenedPageIsNewest'
  BY <1>2, <1>3, OnlyReplyServes
  DEF OpenedPageIsNewest, Owed, Served, requestVars, clientVars
<1>4. Spec => []IInv
  BY FeedInvariant, PTL DEF IInv
<1> QED BY <1>1, <1>3, <1>4, PTL DEF Spec

\* The updates feed stops reading toward newer rows only when it has them all
\* (reachedAfterCursor).
LEMMA NewerRowsAllRead ==
  ASSUME IInv, Settled, Done, feed = "updates", direction = "newer",
         NEW r \in Owed, Precedes(r, cursor)
  PROVE  r \in merged
<1> SUFFICES ASSUME r \notin merged PROVE FALSE
  OBVIOUS
<1>1. /\ r \in Row /\ r.node \in Nodes \ exhausted
      /\ \A s \in RowsOf(r.node, merged) : Precedes(s, r)
  BY UnreadRow
<1>2. ReachedAfter
  BY <1>1 DEF Done
<1>3. PICK s \in RowsOf(r.node, merged) : ~Precedes(s, cursor)
  BY <1>1, <1>2 DEF ReachedAfter
<1>4. s \in Cursor /\ r \in Cursor /\ cursor \in Cursor
  BY <1>1 DEF RowsOf, IInv, TypeOK, Cursor
<1> QED BY <1>1, <1>3, <1>4, PrecedesOrder

LEMMA ExhaustedMeansRead ==
  ASSUME IInv, Settled, exhausted = Nodes
  PROVE  Owed \subseteq merged
<1> SUFFICES ASSUME NEW r \in Owed, r \notin merged PROVE FALSE
  OBVIOUS
<1> QED BY UnreadRow

\* Newer in the updates feed shows the rows next to the cursor
\* (fetchGlobalRecentUpdates, filteredUpdates.slice(-normalizedLimit)).
THEOREM NewerPageAdjacent == Spec => []NewerPageIsAdjacent
<1>1. Init => NewerPageIsAdjacent
  BY DEF Init, NewerPageIsAdjacent, Served
<1>2. ASSUME IInv, Reply PROVE NewerPageIsAdjacent'
  <2> SUFFICES ASSUME feed = "updates", direction = "newer",
                      NEW r \in Owed \ PageOf, Precedes(r, cursor)
               PROVE  /\ Cardinality(PageOf) = Limit
                      /\ \A p \in PageOf : Precedes(r, p)
    BY <1>2 DEF Reply, NewerPageIsAdjacent, Owed, requestVars
  <2>1. PageOf = Oldest(Filtered, Limit)
    BY DEF PageOf
  <2>2. r \in Filtered
    BY <1>2, NewerRowsAllRead DEF Reply, Filtered
  <2>3. Filtered \in SUBSET Row /\ Limit \in Nat
    BY <1>2, PageFacts, PageSizeFillsFeed
  <2> HIDE DEF Filtered
  <2>4. /\ Cardinality(Behind(Filtered, r)) >= Limit
        /\ \A p \in PageOf : Precedes(r, p)
    BY <2>1, <2>2, <2>3, OldestCuts
  <2>5. Behind(Filtered, r) \subseteq Filtered
    BY DEF Behind
  <2>6. /\ Cardinality(Behind(Filtered, r)) <= Cardinality(Filtered)
        /\ Cardinality(Behind(Filtered, r)) \in Nat /\ Cardinality(Filtered) \in Nat
    BY <2>3, <2>5, SubsetFinite, FS_Subset
  <2>7. Cardinality(PageOf) = Limit
    BY <2>1, <2>3, <2>4, <2>6, OldestCuts
  <2> QED BY <2>4, <2>7
<1>3. ASSUME IInv, NewerPageIsAdjacent, [Next]_vars PROVE NewerPageIsAdjacent'
  BY <1>2, <1>3, OnlyReplyServes
  DEF NewerPageIsAdjacent, Owed, Served, requestVars, clientVars
<1>4. Spec => []IInv
  BY FeedInvariant, PTL DEF IInv
<1> QED BY <1>1, <1>3, <1>4, PTL DEF Spec

\* Older and Newer are disabled only where the feed ends (the nextBefore and
\* nextAfter of the three merged feeds).
THEOREM DisabledPagerEnds == Spec => []DisabledPagerIsTheEnd
<1>1. Init => DisabledPagerIsTheEnd
  BY DEF Init, DisabledPagerIsTheEnd, Served
<1>2. ASSUME IInv, Reply PROVE DisabledPagerIsTheEnd'
  <2>1. SUFFICES ASSUME NEW r \in Owed \ PageOf
                 PROVE  /\ (direction # "newer" /\ NextBeforeOf(PageOf) = NoRow)
                              => direction = "older" /\ ~Precedes(cursor, r)
                        /\ (direction = "newer" /\ NextAfterOf(PageOf) = NoRow)
                              => ~Precedes(r, cursor)
    BY <1>2 DEF Reply, DisabledPagerIsTheEnd, Owed, requestVars
  <2>2. Settled /\ Done /\ direction \in Direction
    BY <1>2 DEF Reply, IInv, TypeOK
  <2>3. PageOf = {} => ~HasMore
    <3>1. Cardinality(Filtered) \in Nat
      BY <1>2, PageFacts, SubsetFinite
    <3> QED BY <1>2, <3>1, PageFacts, PageSizeFillsFeed, FS_EmptySet DEF HasMore
  <2>4. ~HasMore => PageOf = Filtered
    BY <1>2, PageFacts
  <2>5. ASSUME direction # "newer", NextBeforeOf(PageOf) = NoRow
        PROVE  direction = "older" /\ ~Precedes(cursor, r)
    <3>1. ~HasMore
      BY <1>2, <2>3, <2>5, PagersOf
    <3>2. r \in merged
      BY <1>2, <2>2, <2>5, <3>1, ExhaustedMeansRead DEF Done
    <3> QED BY <2>2, <2>4, <2>5, <3>1, <3>2 DEF Filtered, Direction
  <2>6. ASSUME direction = "newer", NextAfterOf(PageOf) = NoRow, Precedes(r, cursor)
        PROVE  FALSE
    <3>1. ~HasMore
      BY <1>2, <2>3, <2>6, PagersOf
    <3>2. CASE feed = "updates"
      <4>1. r \in merged
        BY <1>2, <2>2, <2>6, <3>2, NewerRowsAllRead
      <4> QED BY <2>4, <2>6, <3>1, <4>1 DEF Filtered
    <3>3. CASE feed # "updates"
      <4>1. r \in merged
        BY <1>2, <2>2, <3>1, <3>3, ExhaustedMeansRead DEF Done
      <4> QED BY <2>4, <2>6, <3>1, <4>1 DEF Filtered
    <3> QED BY <3>2, <3>3
  <2> QED BY <2>5, <2>6
<1>3. ASSUME IInv, DisabledPagerIsTheEnd, [Next]_vars PROVE DisabledPagerIsTheEnd'
  BY <1>2, <1>3, OnlyReplyServes
  DEF DisabledPagerIsTheEnd, Owed, Served, requestVars, clientVars
<1>4. Spec => []IInv
  BY FeedInvariant, PTL DEF IInv
<1> QED BY <1>1, <1>3, <1>4, PTL DEF Spec

\* Browsing never turns back: the cursor of a page is its last or first row,
\* and the filter keeps what stands strictly beyond it (filterUpdates,
\* filterContracts, filterPurchases).
THEOREM BrowsingMovesOn == Spec => PagesMoveOn
<1>1. ASSUME IInv, [Next]_vars
      PROVE  [\A p \in page, q \in page' :
                (Reply /\ direction # "newest") =>
                  IF direction = "older" THEN Precedes(p, q) ELSE Precedes(q, p)]_vars
  <2> SUFFICES ASSUME Reply, direction # "newest", NEW p \in page, NEW q \in page'
               PROVE  IF direction = "older" THEN Precedes(p, q) ELSE Precedes(q, p)
    OBVIOUS
  <2>1. busy /\ q \in Filtered /\ ScanInv /\ direction \in Direction
    BY <1>1, PageFacts DEF Reply, Settled, IInv, TypeOK
  <2>2. p \in Cursor /\ q \in Cursor /\ cursor \in Cursor
    BY <1>1, <2>1, PageFacts DEF IInv, TypeOK, Cursor
  <2>3. CASE direction = "older"
    <3>1. Precedes(cursor, q) /\ (p = cursor \/ Precedes(p, cursor))
      BY <2>1, <2>3 DEF Filtered, ScanInv
    <3> QED BY <2>2, <2>3, <3>1, PrecedesOrder
  <2>4. CASE direction = "newer"
    <3>1. Precedes(q, cursor) /\ (p = cursor \/ Precedes(cursor, p))
      BY <2>1, <2>4 DEF Filtered, ScanInv
    <3> QED BY <2>2, <2>4, <3>1, PrecedesOrder
  <2> QED BY <2>1, <2>3, <2>4 DEF Direction
<1>2. Spec => []IInv
  BY FeedInvariant, PTL DEF IInv
<1> QED BY <1>1, <1>2, PTL DEF Spec, PagesMoveOn

\* A node that has more is asked further down next.
LEMMA AnswerMovesDown ==
  ASSUME IInv, NEW n \in Nodes, Answer(n)
  PROVE  n \in exhausted' \/ MovesDown(n)
<1>1. CASE ~MoreOn(n)
  BY <1>1 DEF Answer
<1>2. CASE MoreOn(n)
  <2>1. nextBefore'[n] = Last(NodePage(n))
    BY <1>2 DEF Answer, IInv, TypeOK
  <2>2. Last(NodePage(n)) \in Older(n) /\ Older(n) \in SUBSET Row
    BY <1>2, NodePageFacts
  <2> QED BY <2>1, <2>2, RowNotNoRow DEF MovesDown, Older
<1> QED BY <1>1, <1>2

(* MergedFeed, RequestsMoveOn: whatever is ingested meanwhile, no round of a request is in
   vain.  This is the part of EveryRequestEnds that is due to no fairness. *)
THEOREM RoundsMoveOn == Spec => RequestsMoveOn
<1> DEFINE Moves ==
      busy /\ busy' =>
       /\ exhausted \subseteq exhausted'
       /\ \A n \in pending \ pending' : n \in exhausted' \/ MovesDown(n)
       /\ \A n \in Nodes \ (pending \ pending') : nextBefore'[n] = nextBefore[n]
       /\ \/ pending' \subseteq pending
          \/ pending = {} /\ pending' # {} /\ pending' \cap exhausted' = {}
<1>1. IInv /\ [Next]_vars => [Moves]_vars
  <2> SUFFICES ASSUME IInv, Next, busy, busy' PROVE Moves
    OBVIOUS
  <2>1. ASSUME NEW n \in Nodes, Answer(n) PROVE Moves
    <3>1. \A m \in pending \ pending' : m = n
      BY <2>1 DEF Answer
    <3>2. pending \ pending' = {n} /\ exhausted \subseteq exhausted' /\ pending' \subseteq pending
      BY <2>1 DEF Answer
    <3>3. \A m \in Nodes \ {n} : nextBefore'[m] = nextBefore[m]
      BY <2>1 DEF Answer, IInv, TypeOK
    <3> QED BY <2>1, <3>2, <3>3, AnswerMovesDown
  <2>2. ASSUME NEW n \in Nodes, Reject(n) PROVE Moves
    BY <2>2 DEF Reject
  <2>3. CASE NextRound
    <3>1. pending = {} /\ pending' = Nodes \ exhausted /\ UNCHANGED <<nextBefore, exhausted>>
      BY <2>3 DEF NextRound, Settled
    <3>2. exhausted # Nodes /\ exhausted \subseteq Nodes
      BY <2>3 DEF NextRound, Done, IInv, TypeOK
    <3> QED BY <3>1, <3>2
  <2>4. CASE \E n \in Nodes, t \in 1..MaxTime : Ingest(n, t)
    BY <2>4 DEF Ingest, localVars
  <2>5. CASE OpenFeed \/ ShowOlder \/ ShowNewer \/ Throw \/ Reply
    BY <2>5 DEF OpenFeed, ShowOlder, ShowNewer, Begin, Throw, Reply
  <2> QED BY <2>1, <2>2, <2>3, <2>4, <2>5 DEF Next
<1>2. Spec => []IInv
  BY FeedInvariant, PTL DEF IInv
<1> QED BY <1>1, <1>2, PTL DEF Spec, RequestsMoveOn

-----------------------------------------------------------------------------
(* The abstract pager (FeedPager).                                         *)

\* A round asks somebody, so one that nobody answered was failed by somebody.
LEMMA FailureStep == IInv /\ FailureKnown /\ [Next]_vars => FailureKnown'
<1> SUFFICES ASSUME IInv, FailureKnown, [Next]_vars PROVE FailureKnown'
  OBVIOUS
<1>1. 1 \in Nodes
  BY SizesAssumption DEF Nodes
<1>2. CASE OpenFeed \/ ShowOlder \/ ShowNewer
  BY <1>1, <1>2 DEF OpenFeed, ShowOlder, ShowNewer, Begin, FailureKnown
<1>3. ASSUME NEW n \in Nodes, Answer(n) \/ Reject(n) PROVE FailureKnown'
  BY <1>3 DEF Answer, Reject, FailureKnown
<1>4. CASE Throw \/ Reply
  BY <1>4 DEF Throw, Reply, FailureKnown
<1>5. CASE NextRound
  <2>1. exhausted # Nodes /\ exhausted \subseteq Nodes /\ pending' = Nodes \ exhausted
    BY <1>5 DEF NextRound, Done, IInv, TypeOK
  <2> QED BY <2>1 DEF FailureKnown
<1>6. CASE \/ \E n \in Nodes, t \in 1..MaxTime : Ingest(n, t)
           \/ UNCHANGED vars
  BY <1>6 DEF Ingest, vars, localVars, FailureKnown
<1> QED BY <1>2, <1>3, <1>4, <1>5, <1>6 DEF Next

\* Where a page is not full nothing of the asked side is left to read.
LEMMA ShortPageIsTheRest ==
  ASSUME IInv, Reply, Pager!LeftOut(PageOf) # {}
  PROVE  Cardinality(PageOf) = Limit
<1>1. PICK r \in Row : r \notin PageOf /\ r \in Owed /\ Pager!OnAskedSide(r)
  BY DEF Pager!LeftOut, Pager!Owed, Owed
<1>2. Settled /\ Done
  BY DEF Reply
<1>3. CASE HasMore
  <2>1. Cardinality(Filtered) \in Nat
    BY PageFacts, SubsetFinite
  <2>2. Limit <= Cardinality(Filtered)
    BY <1>3, <2>1, SizesAssumption DEF HasMore
  <2> QED BY <2>2, PageFacts
<1>4. CASE ~HasMore
  <2>1. r \notin merged
    BY <1>1, <1>4, PageFacts DEF Filtered, Pager!OnAskedSide
  <2>2. feed = "updates" /\ direction = "newer"
    BY <1>1, <1>2, <1>4, <2>1, ExhaustedMeansRead DEF Done
  <2> QED BY <1>1, <1>2, <2>1, <2>2, NewerRowsAllRead DEF Pager!OnAskedSide
<1> QED BY <1>3, <1>4

LEMMA PagersAreOfPage ==
  ASSUME IInv
  PROVE  /\ NextBeforeOf(PageOf) # NoRow => NextBeforeOf(PageOf) \in PageOf
         /\ NextAfterOf(PageOf) # NoRow => NextAfterOf(PageOf) \in PageOf
<1> DEFINE P == PageOf
<1>1. P \in SUBSET Row
  BY PageFacts
<1> HIDE DEF P
<1>2. P # {} => First(P) \in P /\ Last(P) \in P
  BY <1>1, FirstAndLast
<1>3. /\ NextBeforeOf(P) # NoRow => P # {} /\ NextBeforeOf(P) = Last(P)
      /\ NextAfterOf(P) # NoRow => P # {} /\ NextAfterOf(P) = First(P)
  BY Zenon DEF NextBeforeOf, NextAfterOf
<1> QED BY <1>2, <1>3 DEF P

LEMMA ReplyServes ==
  ASSUME IInv, Reply, OpenedPageIsNewest', NewerPageIsAdjacent', DisabledPagerIsTheEnd'
  PROVE  Pager!Serve
<1>1. /\ busy /\ ~busy' /\ busy' = FALSE /\ outcome' = "page" /\ Served'
      /\ page' = PageOf /\ before' = NextBeforeOf(PageOf) /\ after' = NextAfterOf(PageOf)
      /\ UNCHANGED <<rows, feed, direction, cursor, seen, silent>>
  BY DEF Reply, Settled, Served, requestVars
<1>2. \A r \in Pager!LeftOut(page') : r \in Owed' \ page' /\ Pager!OnAskedSide(r)
  BY <1>1 DEF Pager!LeftOut, Pager!Owed, Owed
<1>3. Pager!OfAskedRows(page')
  <2>1. PageOf \subseteq Filtered /\ Filtered \subseteq merged /\ merged \subseteq rows
    BY PageFacts DEF IInv, ScanInv
  <2>2. \A p \in PageOf : Pager!OnAskedSide(p)
    BY <2>1 DEF Filtered, Pager!OnAskedSide
  <2> QED BY <1>1, <2>1, <2>2, PageFacts, ShortPageIsTheRest DEF Pager!OfAskedRows
<1>4. Pager!NextToCursor(page')
  <2> SUFFICES ASSUME NEW r \in Pager!LeftOut(page'), NEW p \in page'
               PROVE  /\ direction = "newest" => Precedes(p, r)
                      /\ direction = "newer" /\ feed = "updates" => Precedes(r, p)
    BY DEF Pager!NextToCursor
  <2>1. r \in Owed' \ page' /\ Pager!OnAskedSide(r)
    BY <1>2
  <2>2. direction = "newest" => Precedes(p, r)
    BY <1>1, <2>1 DEF OpenedPageIsNewest
  <2>3. direction = "newer" /\ feed = "updates" => Precedes(r, p)
    BY <1>1, <2>1 DEF NewerPageIsAdjacent, Pager!OnAskedSide
  <2> QED BY <2>2, <2>3
<1>5. Pager!PagersFit(page', before', after')
  <2>1. /\ before' # NoRow => before' \in page' /\ \A p \in page' \ {before'} : Precedes(p, before')
        /\ after' # NoRow => after' \in page' /\ \A p \in page' \ {after'} : Precedes(after', p)
    BY <1>1, PagersOf, PagersAreOfPage
  <2>2. ASSUME direction # "newer", before' = NoRow, NEW r \in Pager!LeftOut(page') PROVE FALSE
    BY <1>1, <1>2, <2>2 DEF DisabledPagerIsTheEnd, Pager!OnAskedSide
  <2>3. ASSUME direction = "newer", after' = NoRow, NEW r \in Pager!LeftOut(page') PROVE FALSE
    BY <1>1, <1>2, <2>3 DEF DisabledPagerIsTheEnd, Pager!OnAskedSide
  <2> QED BY <2>1, <2>2, <2>3 DEF Pager!PagersFit
<1> QED BY <1>1, <1>3, <1>4, <1>5 DEF Pager!Serve, Pager!asked

LEMMA PagerStep ==
  ASSUME IInv, FailureKnown, OpenedPageIsNewest', NewerPageIsAdjacent', DisabledPagerIsTheEnd',
         [Next]_vars
  PROVE  [Pager!PagerNext]_(Pager!pagerVars)
<1> USE DEF Pager!pagerVars, Pager!asked, Pager!held, requestVars, clientVars
<1>1. CASE OpenFeed \/ ShowOlder \/ ShowNewer
  BY <1>1 DEF OpenFeed, ShowOlder, ShowNewer, Begin, Pager!Ask, Pager!PagerNext
<1>2. ASSUME NEW n \in Nodes, Answer(n) PROVE UNCHANGED Pager!pagerVars
  BY <1>2 DEF Answer
<1>3. ASSUME NEW n \in Nodes, Reject(n) PROVE Pager!Miss(n)
  <2>1. busy
    BY <1>3 DEF Reject, IInv, ScanInv, NoLocals
  <2> QED BY <1>3, <2>1 DEF Reject, Pager!Miss
<1>4. CASE Throw
  <2>1. busy /\ feed # "purchases" /\ silent # {}
    BY <1>4 DEF Throw, Settled, RoundFailed, FailureKnown
  <2> QED BY <1>4, <2>1 DEF Throw, Pager!Refuse, Pager!PagerNext
<1>5. CASE NextRound
  BY <1>5 DEF NextRound
<1>6. CASE Reply
  BY <1>6, ReplyServes DEF Pager!PagerNext
<1>7. ASSUME NEW n \in Nodes, NEW t \in 1..MaxTime, Ingest(n, t) PROVE Pager!Arrive
  <2>1. [time |-> t, node |-> n] \in Row
    BY DEF Row
  <2> QED BY <1>7, <2>1 DEF Ingest, Pager!Arrive
<1>8. CASE UNCHANGED vars
  BY <1>8 DEF vars
<1> QED BY <1>1, <1>2, <1>3, <1>4, <1>5, <1>6, <1>7, <1>8 DEF Next, Pager!PagerNext

(* FeedPager: the merged feeds, with their rounds and cursors per node, for any
   number of nodes, rows ingested and queries that fail, implement a pager that
   answers each request at once from the rows of all nodes. *)
THEOREM PagerIsImplemented == Spec => ImplementsFeedPager
<1>1. Init => Pager!PagerInit /\ FailureKnown
  BY DEF Init, NoLocals, Pager!PagerInit, FailureKnown
<1>2. /\ IInv /\ FailureKnown
      /\ OpenedPageIsNewest' /\ NewerPageIsAdjacent' /\ DisabledPagerIsTheEnd'
      /\ [Next]_vars
      => [Pager!PagerNext]_(Pager!pagerVars)
  BY PagerStep
<1>3. Spec => []IInv
  BY FeedInvariant, PTL DEF IInv
<1> QED BY <1>1, <1>2, <1>3, FailureStep, OpenedPageNewest, NewerPageAdjacent, DisabledPagerEnds, PTL
        DEF Spec, ImplementsFeedPager, Pager!PagerSpec

-----------------------------------------------------------------------------
(* What an update cost, in dollars (PriceEstimates).                       *)

Venue == {v1, v2}
Histories == [Venue -> [Prices!Day -> Price \cup {0}]]
Costs == [paid : Paid, amulet : Amulet, bought : Bought]

PriceTypes ==
  /\ today \in 2..MaxDay
  /\ closes \in Histories
  /\ cache \in [1..MaxDay + 1 -> [kept : BOOLEAN, closes : Histories]]
PricesInv == PriceTypes /\ EstimatesAreOfNearestDay

LEMMA Numbers ==
  /\ \A p \in Price : p \in Nat /\ p > 0
  /\ \A c \in Costs : c.paid \in Nat /\ c.amulet \in Nat /\ c.bought \in Nat /\ c.bought > 0
<1>1. \A p \in Price : p \in Nat /\ p > 0
  BY PricesAssumption
<1>2. \A p \in Paid : p \in Nat
  BY PricesAssumption
<1>3. \A p \in Amulet : p \in Nat
  BY PricesAssumption
<1>4. \A p \in Bought : p \in Nat /\ p > 0
  BY PricesAssumption
<1> QED
  BY <1>1, <1>2, <1>3, <1>4 DEF Costs

LEMMA NoHistoryTyped ==
  Prices!NoHistory \in Histories /\ Prices!NotKept \in [kept : BOOLEAN, closes : Histories]
BY DEF Prices!NoHistory, Prices!NotKept, Histories, Venue

\* Of days that are near enough there is a nearest one, the earlier of two.
LEMMA ClosestDay ==
  ASSUME NEW history, NEW day \in Prices!Day, Prices!Candidates(history, day) # {}
  PROVE  LET d == Prices!Closest(history, day)
         IN /\ d \in Prices!Candidates(history, day)
            /\ \A e \in Prices!Candidates(history, day) : Prices!Gap(d, day) <= Prices!Gap(e, day)
<1> DEFINE C == Prices!Candidates(history, day)
           far(d) == 2 * Prices!Gap(d, day) + (IF d > day THEN 1 ELSE 0)
           F == {far(d) : d \in C}
<1>1. C \subseteq Prices!Day /\ Prices!Day \subseteq Nat
  <2>1. Prices!Day \subseteq Nat
    BY DEF Prices!Day
  <2>2. C \subseteq Prices!Day
    BY DEF Prices!Candidates
  <2> QED
    BY <2>1, <2>2
<1>2. \A d \in C : Prices!Gap(d, day) \in Nat /\ far(d) \in Nat
  <2> TAKE d \in C
  <2>1. d \in Nat /\ day \in Nat
    BY <1>1
  <2> HIDE DEF C
  <2> QED
    BY <2>1 DEF Prices!Gap
<1>3. PICK n \in F : \A m \in F : ~(m < n)
  <2>1. F \in SUBSET Nat /\ F # {}
    BY <1>2
  <2>2. PICK n \in F : \A m \in F : ~(<<m, n>> \in OpToRel(<, Nat))
    BY <2>1, NatLessThanWellFounded, WFMin
  <2> QED
    BY <2>1, <2>2, Zenon DEF OpToRel
<1>4. PICK d \in C : n = far(d)
  BY <1>3
<1>5. \A e \in C : Prices!Gap(d, day) < Prices!Gap(e, day)
                     \/ (Prices!Gap(d, day) = Prices!Gap(e, day) /\ d <= e)
  <2> TAKE e \in C
  <2>1. ~(far(e) < far(d))
    BY <1>3, <1>4
  <2>2. d \in Nat /\ e \in Nat /\ day \in Nat
    BY <1>1
  <2> QED
    BY <2>1, <2>2 DEF Prices!Gap
<1>6. \E x \in C : \A e \in C : Prices!Gap(x, day) < Prices!Gap(e, day)
                                  \/ (Prices!Gap(x, day) = Prices!Gap(e, day) /\ x <= e)
  BY <1>5
<1>7. /\ Prices!Closest(history, day) \in C
      /\ \A e \in C : Prices!Gap(Prices!Closest(history, day), day) < Prices!Gap(e, day)
                        \/ Prices!Gap(Prices!Closest(history, day), day) = Prices!Gap(e, day)
  BY <1>6 DEF Prices!Closest
<1> QED
  BY <1>2, <1>7

\* Half a cent at most is lost by rounding, and half a cent is rounded up.
LEMMA CentsRounded ==
  ASSUME NEW c \in Costs, NEW price \in Nat
  PROVE  LET off == Prices!Cents(c, price) * Prices!Denominator(c) - Prices!Numerator(c, price)
         IN /\ Prices!Cents(c, price) \in Nat
            /\ 2 * off <= Prices!Denominator(c) /\ -2 * off < Prices!Denominator(c)
<1> DEFINE n == Prices!Numerator(c, price)
           b == c.bought
           q == (n + b) \div (b * 2)
<1>1. n \in Nat /\ b \in Nat /\ b > 0
  <2>1. c.paid \in Nat /\ c.amulet \in Nat /\ b \in Nat /\ b > 0
    BY Numbers
  <2>2. \A x, y \in Nat : x * y \in Nat
    OBVIOUS
  <2>3. c.paid * c.amulet \in Nat
    BY <2>1, <2>2
  <2>4. c.paid * c.amulet * price \in Nat
    BY <2>2, <2>3
  <2> QED
    BY <2>1, <2>2, <2>4 DEF Prices!Numerator
<1>2. Prices!Denominator(c) = b * 2 /\ (b * 2) \div 2 = b
  BY <1>1 DEF Prices!Denominator
<1>3. Prices!Cents(c, price) = q
  BY <1>2 DEF Prices!Cents
<1> HIDE DEF n, b
<1>4. q \in Nat /\ q * (b * 2) <= n + b /\ n + b < q * (b * 2) + b * 2
  <2> DEFINE m == n + b
             k == b * 2
  <2>1. m \in Nat /\ k \in Nat /\ k > 0
    BY <1>1
  <2> HIDE DEF m, k
  <2>2. /\ m \div k \in Nat /\ (m \div k) * k <= m /\ m < (m \div k) * k + k
    BY <2>1
  <2> QED
    BY <2>2 DEF m, k
<1> HIDE DEF q
<1>5. q * (b * 2) - n <= b /\ n - q * (b * 2) < b
  <2>1. q * (b * 2) \in Nat
    BY <1>1, <1>4
  <2> QED
    BY <1>1, <1>4, <2>1
<1> QED
  BY <1>1, <1>2, <1>3, <1>4, <1>5 DEF n

LEMMA PricesBegin == Prices!Init => PricesInv
<1> SUFFICES ASSUME Prices!Init PROVE PricesInv
  OBVIOUS
<1>1. PriceTypes
  BY NoHistoryTyped DEF Prices!Init, PriceTypes, Histories, Venue
<1>2. EstimatesAreOfNearestDay
  BY DEF Prices!Init, Prices!NoEstimate, EstimatesAreOfNearestDay, Prices!EstimatesAreOfNearestDay
<1> QED
  BY <1>1, <1>2 DEF PricesInv

\* What is traded, kept and forgotten between estimates.
LEMMA BetweenEstimates ==
  ASSUME PricesInv,
         \/ \E v \in Venue : Prices!Trade(v)
         \/ Prices!DayEnds
         \/ \E d \in DOMAIN cache : Prices!Expire(d)
  PROVE  PricesInv'
<1>1. PriceTypes
  BY DEF PricesInv
<1>2. estimate' = Prices!NoEstimate
  BY DEF Prices!Trade, Prices!DayEnds, Prices!Expire
<1>3. EstimatesAreOfNearestDay'
  BY <1>2 DEF Prices!NoEstimate, EstimatesAreOfNearestDay, Prices!EstimatesAreOfNearestDay
<1>4. ASSUME NEW v \in Venue, Prices!Trade(v) PROVE PriceTypes'
  <2>1. PICK price \in Price : closes' = [closes EXCEPT ![v][today] = price]
    BY <1>4 DEF Prices!Trade
  <2>2. closes' \in Histories
    BY <1>1, <2>1 DEF PriceTypes, Histories
  <2> QED
    BY <1>1, <1>4, <2>2 DEF PriceTypes, Prices!Trade
<1>5. ASSUME Prices!DayEnds PROVE PriceTypes'
  <2>1. today' \in 2..MaxDay
    BY <1>1, <1>5, PricesAssumption DEF PriceTypes, Prices!DayEnds, PricesAssumption
  <2> QED
    BY <1>1, <1>5, <2>1 DEF PriceTypes, Prices!DayEnds
<1>6. ASSUME NEW d \in DOMAIN cache, Prices!Expire(d) PROVE PriceTypes'
  BY <1>1, <1>6, NoHistoryTyped DEF PriceTypes, Prices!Expire
<1> QED
  BY <1>3, <1>4, <1>5, <1>6 DEF PricesInv

LEMMA FetchedTyped ==
  ASSUME closes \in Histories, NEW end, NEW answering
  PROVE  Prices!Fetched(end, answering) \in Histories
<1>1. \A v \in Venue : Prices!Daily(v, end) \in [Prices!Day -> Price \cup {0}]
  BY DEF Prices!Daily, Histories
<1> QED
  BY <1>1 DEF Prices!Fetched, Histories, Venue

\* Two closes of a day add up.
LEMMA MedianPositive ==
  ASSUME NEW history \in Histories, NEW d \in Prices!Day, \A v \in Venue : history[v][d] > 0
  PROVE  Prices!TwiceMedian(history, d) \in Nat /\ Prices!TwiceMedian(history, d) > 0
<1>1. \E v \in {v1, v2} : \E w \in {v1, v2} \ {v} :
        Prices!TwiceMedian(history, d) = history[v][d] + history[w][d]
  BY PricesAssumption DEF Prices!TwiceMedian, PricesAssumption
<1>2. \A v \in {v1, v2} : history[v][d] \in Nat /\ history[v][d] > 0
  <2> TAKE v \in {v1, v2}
  <2>1. history[v] \in [Prices!Day -> Price \cup {0}]
    BY DEF Histories, Venue
  <2>2. history[v][d] \in Price \cup {0}
    BY <2>1
  <2> QED
    BY <2>2, Numbers DEF Venue
<1> QED
  BY <1>1, <1>2

\* What an estimate tells of the history it was read from.
Estimated(history, day, end, c) ==
  IF Prices!Candidates(history, day) = {}
  THEN [Prices!NoEstimate EXCEPT !.day = day, !.until = end, !.cost = c]
  ELSE LET d == Prices!Closest(history, day)
           price == Prices!TwiceMedian(history, d)
       IN [day |-> day, until |-> end, price |-> price, gap |-> Prices!Gap(d, day),
           cents |-> Prices!Cents(c, price), cost |-> c]

LEMMA KnownDays ==
  ASSUME NEW history \in Histories, NEW day \in Prices!Day, NEW d \in Prices!Day
  PROVE  (\A v \in Venue : history[v][d] \in Price) =>
            d \in Prices!Candidates(history, day) \/ Prices!Gap(d, day) >= MaxGap
<1> SUFFICES ASSUME \A v \in Venue : history[v][d] \in Price, ~(Prices!Gap(d, day) >= MaxGap)
             PROVE  d \in Prices!Candidates(history, day)
  OBVIOUS
<1>1. \A v \in {v1, v2} : history[v][d] > 0
  BY Numbers DEF Venue
<1>2. Prices!Gap(d, day) \in Nat /\ MaxGap \in Nat
  BY PricesAssumption DEF Prices!Gap, Prices!Day
<1> QED
  BY <1>1, <1>2 DEF Prices!Candidates

LEMMA NearestDay ==
  ASSUME NEW day \in Prices!Day, NEW end \in 1..MaxDay + 1, end > day, NEW c \in Costs,
         NEW history \in Histories, cache'[end].closes = history,
         estimate' = Estimated(history, day, end, c)
  PROVE  EstimatesAreOfNearestDay'
<1> DEFINE C == Prices!Candidates(history, day)
           Known(d) == \A v \in Venue : history[v][d] \in Price
<1>1. CASE C = {}
  <2>1. /\ estimate'.day = day /\ estimate'.until = end /\ estimate'.price = 0
    BY <1>1 DEF Estimated, Prices!NoEstimate
  <2>2. \A d \in Prices!Day : Known(d) => Prices!Gap(d, day) >= MaxGap
    BY <1>1, KnownDays
  <2> HIDE DEF C
  <2> QED
    BY <2>1, <2>2 DEF EstimatesAreOfNearestDay, Prices!EstimatesAreOfNearestDay, Venue
<1>2. CASE C # {}
  <2>1. PICK d \in C : /\ d = Prices!Closest(history, day)
                      /\ \A x \in C : Prices!Gap(d, day) <= Prices!Gap(x, day)
    BY <1>2, ClosestDay
  <2>2. PICK price : price = Prices!TwiceMedian(history, d)
    OBVIOUS
  <2>3. estimate' = [day |-> day, until |-> end, price |-> price, gap |-> Prices!Gap(d, day),
                     cents |-> Prices!Cents(c, price), cost |-> c]
    BY <1>2, <2>1, <2>2 DEF Estimated
  <2>4. /\ d \in Prices!Day /\ Prices!Gap(d, day) < MaxGap
        /\ \A v \in Venue : history[v][d] > 0
    BY DEF Prices!Candidates, Venue
  <2>5. price \in Nat /\ price > 0
    BY <2>2, <2>4, MedianPositive
  <2>6. Known(d)
    BY <2>4, PricesAssumption DEF Histories, Venue
  <2>7. \A x \in Prices!Day : Known(x) => Prices!Gap(x, day) >= Prices!Gap(d, day)
    <3> SUFFICES ASSUME NEW x \in Prices!Day, Known(x)
                 PROVE  Prices!Gap(x, day) >= Prices!Gap(d, day)
      OBVIOUS
    <3>1. CASE x \in C
      BY <2>1, <3>1 DEF Prices!Gap, Prices!Day
    <3>2. CASE x \notin C
      <4>1. Prices!Gap(x, day) >= MaxGap
        BY <3>2, KnownDays
      <4> QED
        BY <2>4, <4>1, PricesAssumption DEF Prices!Gap, Prices!Day
    <3> QED
      BY <3>1, <3>2
  <2>8. LET off == Prices!Cents(c, price) * Prices!Denominator(c) - Prices!Numerator(c, price)
        IN 2 * off <= Prices!Denominator(c) /\ -2 * off < Prices!Denominator(c)
    BY <2>5, CentsRounded
  <2> HIDE DEF C
  <2> QED
    BY <2>2, <2>3, <2>4, <2>5, <2>6, <2>7, <2>8
       DEF EstimatesAreOfNearestDay, Prices!EstimatesAreOfNearestDay, Venue
<1> QED
  BY <1>1, <1>2

LEMMA EstimateKeeps ==
  ASSUME PricesInv, NEW day \in 1..today, NEW c \in Costs, Prices!Estimate(day, c)
  PROVE  PricesInv'
<1> DEFINE end == Prices!HistoryEnd(day)
           read(answering) == IF cache[end].kept THEN cache[end].closes
                                                 ELSE Prices!Fetched(end, answering)
<1>1. PICK answering \in SUBSET Venue :
        /\ cache' = [cache EXCEPT ![end] = [kept |-> TRUE, closes |-> read(answering)]]
        /\ estimate' = Estimated(read(answering), day, end, c)
  BY DEF Estimated, Prices!Estimate, Prices!Answering, Venue
<1>2. UNCHANGED <<today, closes>>
  BY DEF Prices!Estimate
<1> HIDE DEF read
<1>3. PICK history : history = read(answering)
  OBVIOUS
<1>4. /\ day \in Prices!Day /\ today \in Nat /\ end \in 1..MaxDay + 1 /\ end > day
  BY PricesAssumption DEF PricesInv, PriceTypes, Prices!Day, Prices!HistoryEnd, PricesAssumption
<1> HIDE DEF end
<1>5. history \in Histories
  BY <1>3, <1>4, FetchedTyped DEF PricesInv, PriceTypes, read
<1>6. PriceTypes'
  BY <1>1, <1>2, <1>3, <1>4, <1>5 DEF PricesInv, PriceTypes
<1>7. cache'[end].closes = history
  BY <1>1, <1>3, <1>4 DEF PricesInv, PriceTypes
<1>8. EstimatesAreOfNearestDay'
  BY <1>1, <1>3, <1>4, <1>5, <1>7, NearestDay
<1> QED
  BY <1>6, <1>8 DEF PricesInv

(* PriceEstimates, EstimatesAreOfNearestDay: for any prices, days and costs, *)
(* an estimate is of the nearest day that both providers know, in a history  *)
(* that reaches the day of the purchase, and is rounded to the nearest cent. *)
THEOREM EstimatesOfNearestDay == Prices!Spec => []EstimatesAreOfNearestDay
<1>1. PricesInv /\ [Prices!Next]_Prices!vars => PricesInv'
  <2> SUFFICES ASSUME PricesInv, [Prices!Next]_Prices!vars PROVE PricesInv'
    OBVIOUS
  <2>1. CASE UNCHANGED Prices!vars
    BY <2>1 DEF Prices!vars, PricesInv, PriceTypes, EstimatesAreOfNearestDay,
                Prices!EstimatesAreOfNearestDay
  <2>2. CASE \/ \E v \in Venue : Prices!Trade(v)
             \/ Prices!DayEnds
             \/ \E d \in DOMAIN cache : Prices!Expire(d)
    BY <2>2, BetweenEstimates
  <2>3. CASE \E day \in 1..today, c \in Costs : Prices!Estimate(day, c)
    BY <2>3, EstimateKeeps
  <2> QED
    BY <2>1, <2>2, <2>3 DEF Prices!Next, Venue, Costs
<1>2. PricesInv => EstimatesAreOfNearestDay
  BY DEF PricesInv
<1> QED
  BY <1>1, <1>2, PricesBegin, PTL DEF Prices!Spec

-----------------------------------------------------------------------------
(* Each behaviour of feed and prices together is one of each of them, so what is proved
   of the two holds of MCSpec: every invariant that is checked of it, and the
   refinement. *)
THEOREM FeedIsOfComponents ==
  MCSpec => /\ Spec /\ Prices!Spec /\ Fairness /\ ImplementsFeedPager
            /\ [](/\ OpenedPageIsNewest /\ NewerPageIsAdjacent /\ DisabledPagerIsTheEnd
                  /\ EstimatesAreOfNearestDay)
<1>1. MCInit => Init /\ Prices!Init
  BY DEF MCInit
<1>2. [MCNext]_<<showing, vars, priceVars>> => [Next]_vars /\ [Prices!Next]_(Prices!vars)
  <2> SUFFICES ASSUME [MCNext]_<<showing, vars, priceVars>>
               PROVE  (Next \/ UNCHANGED vars) /\ (Prices!Next \/ UNCHANGED priceVars)
    BY DEF priceVars, Prices!vars
  <2> QED BY DEF MCNext
<1>3. MCSpec => Spec /\ Prices!Spec /\ Fairness
  BY <1>1, <1>2, PTL DEF MCSpec, Spec, Prices!Spec
<1> QED BY <1>3, OpenedPageNewest, NewerPageAdjacent, DisabledPagerEnds, PagerIsImplemented,
           EstimatesOfNearestDay, PTL
=============================================================================
