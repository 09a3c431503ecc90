------------------------ MODULE AnswersProofs ------------------------
(***************************************************************************)
(* Proofs about answers put together from several readings.  The first     *)
(* part shows that a page of updates is the page of all matching updates,  *)
(* for any templates, parties and kinds of event, any page size and any    *)
(* number of updates that arrive while the window is widened: an update    *)
(* that matches is read or is left out by some window, and the query       *)
(* settles only when nothing left out could stand among the first rows.    *)
(* The second part shows what one operation of a participant tells, for    *)
(* any number of calls and any changes between them: its invariant says    *)
(* what is read up to any moment, and that the rest is still to be called. *)
(* The third part shows that a walk through the pages of contracts misses  *)
(* none and shows none twice: its invariant says that neither page nor     *)
(* walk goes past the cursors, and what is left to show lies beyond them.  *)
(* The fourth part shows the same of tokens, holders and movements, whose  *)
(* lists are merged at every request, and that a holder's row adds up each *)
(* contract once: merging is a fold over observations, of which the lemmas *)
(* say what every order of them makes.                                     *)
(***************************************************************************)
EXTENDS MCAnswers, FiniteSetTheorems, FunctionTheorems, SequenceTheorems,
        WellFoundedInduction, TLAPS

Types ==
  /\ events \in [Source -> [Kind -> SUBSET Position]]
  /\ latest \in Nat
  /\ filter \in SUBSET Source /\ filter # {}
  /\ all \in BOOLEAN /\ newer \in BOOLEAN
  /\ cursor \in Nat
  /\ window \in Nat
  /\ page \in SUBSET Position

WindowInv == Types /\ PageIsOfAllMatching

Ahead(S, x) == {y \in S : Precedes(y, x)}

-----------------------------------------------------------------------------
(* The order of a page.                                                    *)

LEMMA SubsetFinite ==
  ASSUME NEW S \in SUBSET Position
  PROVE  IsFiniteSet(S) /\ Cardinality(S) \in Nat
<1>1. 1 \in Int /\ MaxPosition \in Int
  BY MaxPositionAssumption
<1>2. IsFiniteSet(Position)
  BY <1>1, FS_Interval DEF Position
<1> QED BY <1>2, FS_Subset, FS_CardinalityType

LEMMA PrecedesOrder ==
  /\ \A x \in Position : ~Precedes(x, x)
  /\ \A x, y, z \in Position : Precedes(x, y) /\ Precedes(y, z) => Precedes(x, z)
  /\ \A x, y \in Position : x = y \/ Precedes(x, y) \/ Precedes(y, x)
BY MaxPositionAssumption DEF Precedes, Position

\* A row further down has more rows ahead of it.
LEMMA AheadGrows ==
  ASSUME NEW S \in SUBSET Position, NEW x \in S, NEW y \in S, Precedes(x, y)
  PROVE  Cardinality(Ahead(S, x)) < Cardinality(Ahead(S, y))
<1>1. Ahead(S, x) \subseteq Ahead(S, y) /\ x \in Ahead(S, y) \ Ahead(S, x)
  BY PrecedesOrder DEF Ahead
<1>2. Ahead(S, x) \in SUBSET Position /\ Ahead(S, y) \in SUBSET Position
  BY DEF Ahead
<1> QED BY <1>1, <1>2, SubsetFinite, FS_Subset

LEMMA RankIsInjective ==
  ASSUME NEW S \in SUBSET Position
  PROVE  [x \in S |-> Cardinality(Ahead(S, x))] \in Injection(S, 0..(Cardinality(S) - 1))
<1> DEFINE f == [x \in S |-> Cardinality(Ahead(S, x))]
<1>1. \A x \in S : Cardinality(Ahead(S, x)) \in 0..(Cardinality(S) - 1)
  <2> TAKE x \in S
  <2>1. Ahead(S, x) \in SUBSET S /\ x \notin Ahead(S, x)
    BY PrecedesOrder DEF Ahead
  <2>2. Ahead(S, x) # S
    BY <2>1
  <2>3. /\ Cardinality(Ahead(S, x)) <= Cardinality(S)
        /\ Cardinality(Ahead(S, x)) # Cardinality(S)
    BY <2>1, <2>2, SubsetFinite, FS_Subset
  <2>4. Cardinality(Ahead(S, x)) \in Nat /\ Cardinality(S) \in Nat
    BY <2>1, SubsetFinite
  <2> QED BY <2>3, <2>4
<1>2. \A x, y \in S : f[x] = f[y] => x = y
  <2> SUFFICES ASSUME NEW x \in S, NEW y \in S, f[x] = f[y], x # y PROVE FALSE
    OBVIOUS
  <2>1. Cardinality(Ahead(S, x)) = Cardinality(Ahead(S, y))
    OBVIOUS
  <2>2. Precedes(x, y) \/ Precedes(y, x)
    BY PrecedesOrder
  <2>3. Cardinality(Ahead(S, x)) \in Nat
    BY SubsetFinite DEF Ahead
  <2> QED BY <2>1, <2>2, <2>3, AheadGrows
<1>3. f \in [S -> 0..(Cardinality(S) - 1)]
  BY <1>1
<1> QED BY <1>2, <1>3, Zenon DEF Injection, IsInjective

\* A cut keeps no more rows than asked for, and as many if there are as many.
LEMMA TopSize ==
  ASSUME NEW S \in SUBSET Position, NEW n \in Nat
  PROVE  /\ Top(S, n) \in SUBSET S
         /\ Cardinality(Top(S, n)) <= n
         /\ n <= Cardinality(S) => Cardinality(Top(S, n)) >= n
<1> DEFINE T == Top(S, n)
           f == [x \in S |-> Cardinality(Ahead(S, x))]
           g == [x \in T |-> Cardinality(Ahead(S, x))]
           I == 0..(Cardinality(S) - 1)
           J == 0..(n - 1)
<1>1. T \in SUBSET S /\ T = {x \in S : f[x] < n}
  BY DEF Top, Ahead
<1>2. f \in [S -> I] /\ \A x, y \in S : f[x] = f[y] => x = y
  <2>1. f \in Injection(S, I)
    BY RankIsInjective
  <2> QED BY <2>1, Zenon DEF Injection, IsInjective
<1>3. Cardinality(S) \in Nat /\ IsFiniteSet(S) /\ IsFiniteSet(T) /\ Cardinality(T) \in Nat
  BY <1>1, SubsetFinite
<1>4. /\ IsFiniteSet(J) /\ Cardinality(J) = n
      /\ IsFiniteSet(I) /\ Cardinality(I) = Cardinality(S)
  <2>1. \A m \in Nat : IsFiniteSet(0..(m - 1)) /\ Cardinality(0..(m - 1)) = m
    <3> TAKE m \in Nat
    <3>1. 0 \in Int /\ m - 1 \in Int
      OBVIOUS
    <3>2. IsFiniteSet(0..(m - 1))
      BY <3>1, FS_Interval
    <3>3. Cardinality(0..(m - 1)) = IF 0 > m - 1 THEN 0 ELSE (m - 1) - 0 + 1
      BY <3>1, FS_Interval
    <3> QED BY <3>2, <3>3
  <2>2. IsFiniteSet(I) /\ Cardinality(I) = Cardinality(S)
    BY <1>3, <2>1
  <2> QED BY <2>1, <2>2
<1>5. g \in [T -> J]
  <2> SUFFICES ASSUME NEW x \in T PROVE f[x] \in J
    BY <1>1
  <2>1. f[x] \in I /\ f[x] < n
    BY <1>1, <1>2
  <2> QED BY <2>1, <1>3
<1>6. \A x, y \in T : g[x] = g[y] => x = y
  BY <1>1, <1>2
<1>7. g \in Injection(T, J)
  BY <1>5, <1>6, Zenon DEF Injection, IsInjective
<1>8. Cardinality(T) <= n
  BY <1>4, <1>7, FS_Injection
<1>9. ASSUME n <= Cardinality(S) PROVE Cardinality(T) >= n
  <2>1. f \in Injection(S, I)
    BY RankIsInjective
  <2>2. f \in Surjection(S, I)
    BY <2>1, <1>4, FS_Injection
  <2>3. \A j \in J : \E x \in T : g[x] = j
    <3> TAKE j \in J
    <3>1. j \in I /\ j < n
      BY <1>3, <1>9
    <3>2. PICK x \in S : f[x] = j
      BY <2>2, <3>1 DEF Surjection
    <3>3. x \in T
      BY <1>1, <3>1, <3>2
    <3> QED BY <3>2, <3>3
  <2>4. g \in Surjection(T, J)
    BY <1>5, <2>3, Zenon DEF Surjection
  <2>5. Cardinality(J) <= Cardinality(T)
    BY <2>4, <1>3, FS_Surjection
  <2> QED BY <2>5, <1>4, <1>3
<1> QED BY <1>1, <1>8, <1>9

\* The row that tells whether there is a next page does not change this one.
LEMMA TopOfTop ==
  ASSUME NEW S \in SUBSET Position, NEW n \in Nat
  PROVE  Top(Top(S, n + 1), n) = Top(S, n)
<1> DEFINE T == Top(S, n + 1)
<1>1. \A x \in S : Cardinality(Ahead(S, x)) \in Nat
  BY SubsetFinite DEF Ahead
<1>2. T = {x \in S : Cardinality(Ahead(S, x)) < n + 1}
  BY DEF Top, Ahead
<1>3. Top(S, n) = {x \in S : Cardinality(Ahead(S, x)) < n}
  BY DEF Top, Ahead
<1>4. Top(T, n) = {x \in T : Cardinality(Ahead(T, x)) < n}
  BY DEF Top, Ahead
<1>5. \A x \in T : Ahead(T, x) = Ahead(S, x)
  <2> SUFFICES ASSUME NEW x \in T, NEW y \in S, Precedes(y, x) PROVE y \in T
    BY <1>2 DEF Ahead
  <2>1. x \in S /\ Cardinality(Ahead(S, x)) < n + 1
    BY <1>2
  <2>2. Cardinality(Ahead(S, y)) < Cardinality(Ahead(S, x))
    BY <2>1, AheadGrows
  <2>3. Cardinality(Ahead(S, y)) < n + 1
    BY <1>1, <2>1, <2>2
  <2> QED BY <1>2, <2>3
<1>6. \A x \in S : Cardinality(Ahead(S, x)) < n => Cardinality(Ahead(S, x)) < n + 1
  BY <1>1
<1>7. Top(T, n) = Top(S, n)
  <2> HIDE DEF T
  <2> QED BY <1>2, <1>3, <1>4, <1>5, <1>6
<1> QED BY <1>7

-----------------------------------------------------------------------------
(* What a query reads and what it leaves out.                              *)

LEMMA BranchSplits ==
  ASSUME NEW s, NEW k, NEW within
  PROVE  Taken(s, k, within) \cup LeftOut(s, k, within) = Branch(s, k, within)
<1>1. \A S, n : Top(S, n) \subseteq S
  BY DEF Top
<1>2. Taken(s, k, within) \subseteq Branch(s, k, within)
  BY <1>1 DEF Taken
<1> QED BY <1>2, Zenon DEF LeftOut

\* Every candidate matches, and an update that matches is a candidate unless a
\* window leaves it out.
LEMMA ReadOrLeftOut ==
  ASSUME Types
  PROVE  /\ Result \in SUBSET Matching /\ Matching \in SUBSET Position
         /\ Matching \ Result \subseteq Excluded
<1>1. \A s, within : Candidates(s, within) \subseteq Union(s) \cap Beyond \cap within
  BY BranchSplits DEF Candidates, Union, Branch
<1>2. Result \subseteq Matching
  <2> SUFFICES ASSUME NEW x \in Result PROVE x \in Matching
    OBVIOUS
  <2>1. x \in Common /\ x \in OfParties
    BY DEF Result
  <2>2. \A s \in filter \ Party : x \in Union(s) /\ x \in Beyond
    BY <1>1, <2>1 DEF Common
  <2>3. \A p \in Parties : x \in PartyCandidates(p) => x \in Union(p) /\ x \in Beyond
    BY <1>1 DEF PartyCandidates
  <2>4. MatchesParties(x) /\ (Parties # {} => x \in Beyond)
    BY <2>1, <2>3 DEF OfParties, MatchesParties
  <2>5. x \in Beyond
    BY <2>2, <2>4 DEF Types, Parties
  <2> QED BY <2>2, <2>4, <2>5 DEF Matching
<1>3. ASSUME NEW x \in Matching, x \notin Excluded PROVE x \in Result
  <2>1. x \in Beyond /\ x \in Position
    BY DEF Matching, Beyond
  <2>2. ASSUME NEW s \in filter \ Party PROVE x \in Candidates(s, Position)
    <3>1. PICK k \in Kind : x \in events[s][k]
      BY DEF Matching, Union
    <3>2. x \in Branch(s, k, Position) /\ x \notin LeftOut(s, k, Position)
      BY <1>3, <2>1, <3>1 DEF Branch, Excluded
    <3> QED BY <3>2, BranchSplits DEF Candidates
  <2>3. x \in Common
    BY <2>1, <2>2 DEF Common
  <2>4. ASSUME NEW p \in Parties, x \in Union(p) PROVE x \in PartyCandidates(p)
    <3>1. PICK k \in Kind : x \in events[p][k]
      BY <2>4 DEF Union
    <3>2. x \in Branch(p, k, Common) /\ x \notin LeftOut(p, k, Common)
      BY <1>3, <2>1, <2>3, <3>1 DEF Branch, Excluded
    <3> QED BY <3>2, BranchSplits DEF Candidates, PartyCandidates
  <2>5. MatchesParties(x)
    BY DEF Matching
  <2>6. x \in OfParties
    BY <2>1, <2>4, <2>5 DEF OfParties, MatchesParties
  <2> QED BY <2>3, <2>6 DEF Result
<1>4. Matching \subseteq Position
  BY DEF Matching, Beyond
<1> QED BY <1>2, <1>3, <1>4

\* A query that settles has read the first rows of all that match, and one
\* more if there is one more.
LEMMA SettledPage ==
  ASSUME Types, Settles
  PROVE  LET top == Top(Result, Limit + 1) IN
         /\ top \in SUBSET Position
         /\ Top(top, Limit) = Top(Matching, Limit)
         /\ (Cardinality(top) > Limit) <=> (Cardinality(Matching) > Limit)
<1> DEFINE R == Result
           M == Matching
           top == Top(R, Limit + 1)
<1>1. R \in SUBSET M /\ M \in SUBSET Position /\ M \ R \subseteq Excluded
  BY ReadOrLeftOut
<1>2. Limit \in Nat /\ Limit > 0 /\ Limit + 1 \in Nat
  BY LimitAssumption
<1>3. R \in SUBSET Position
  BY <1>1
<1> HIDE DEF R, M
<1>4. top \in SUBSET R /\ Top(top, Limit) = Top(R, Limit)
  BY <1>2, <1>3, TopSize, TopOfTop
<1>5. /\ Cardinality(top) \in Nat /\ Cardinality(M) \in Nat /\ Cardinality(R) \in Nat
      /\ IsFiniteSet(M)
  BY <1>1, <1>3, <1>4, SubsetFinite
<1>6. CASE Excluded = {}
  <2>1. R = M
    BY <1>1, <1>6
  <2>2. /\ Cardinality(top) <= Cardinality(M)
        /\ Limit + 1 <= Cardinality(M) => Cardinality(top) >= Limit + 1
    BY <1>1, <1>2, <1>4, <1>5, <2>1, TopSize, FS_Subset
  <2>3. (Cardinality(top) > Limit) <=> (Cardinality(M) > Limit)
    BY <2>2, <1>2, <1>5
  <2> QED BY <1>1, <1>4, <2>1, <2>3 DEF R, M
<1>7. CASE Full /\ ~Outranked
  <2>1. Cardinality(top) = Limit + 1
    BY <1>7 DEF Full, R
  <2>2. Cardinality(top) <= Cardinality(R) /\ Cardinality(R) <= Cardinality(M)
    BY <1>1, <1>3, <1>4, <1>5, SubsetFinite, FS_Subset
  <2>3. Cardinality(top) > Limit /\ Cardinality(M) > Limit /\ Limit <= Cardinality(R)
    BY <1>2, <1>5, <2>1, <2>2
  <2>4. \A x \in M \ R : \A y \in Top(R, Limit) : Precedes(y, x)
    <3> TAKE x \in M \ R
    <3> TAKE y \in Top(R, Limit)
    <3>1. y \in R
      BY <1>2, <1>3, TopSize
    <3>2. ~Precedes(x, y)
      BY <1>1, <1>7 DEF Outranked, R
    <3> QED BY <1>1, <3>1, <3>2, PrecedesOrder
  <2>5. Top(R, Limit) \subseteq Top(M, Limit)
    <3> SUFFICES ASSUME NEW y \in Top(R, Limit) PROVE y \in Top(M, Limit)
      OBVIOUS
    <3>1. y \in R /\ y \in M /\ Cardinality(Ahead(R, y)) < Limit
      BY <1>1 DEF Top, Ahead
    <3>2. Ahead(M, y) = Ahead(R, y)
      BY <1>1, <2>4, <3>1, PrecedesOrder DEF Ahead
    <3> QED BY <3>1, <3>2 DEF Top, Ahead
  <2>6. Top(M, Limit) \subseteq Top(R, Limit)
    <3> SUFFICES ASSUME NEW x \in Top(M, Limit) PROVE x \in Top(R, Limit)
      OBVIOUS
    <3>1. x \in M /\ Cardinality(Ahead(M, x)) < Limit
      BY DEF Top, Ahead
    <3>2. IsFiniteSet(Ahead(M, x)) /\ Cardinality(Ahead(M, x)) \in Nat
      BY <1>1, SubsetFinite DEF Ahead
    <3>3. ASSUME x \notin R PROVE FALSE
      <4>1. Top(R, Limit) \in SUBSET Ahead(M, x)
        BY <1>1, <2>4, <3>1, <3>3 DEF Ahead, Top
      <4>2. Cardinality(Top(R, Limit)) <= Cardinality(Ahead(M, x))
        BY <3>2, <4>1, FS_Subset
      <4>3. Cardinality(Top(R, Limit)) >= Limit
        BY <1>2, <1>3, <2>3, TopSize
      <4>4. Cardinality(Top(R, Limit)) \in Nat
        BY <1>3, SubsetFinite DEF Top
      <4> QED BY <1>2, <3>1, <3>2, <4>2, <4>3, <4>4
    <3>4. Ahead(R, x) \in SUBSET Ahead(M, x)
      BY <1>1 DEF Ahead
    <3>5. Cardinality(Ahead(R, x)) <= Cardinality(Ahead(M, x)) /\ Cardinality(Ahead(R, x)) \in Nat
      BY <1>3, <3>2, <3>4, FS_Subset, SubsetFinite DEF Ahead
    <3>6. Cardinality(Ahead(R, x)) < Limit
      BY <1>2, <3>1, <3>2, <3>5
    <3> QED BY <3>3, <3>6 DEF Top, Ahead
  <2> QED BY <1>1, <1>3, <1>4, <2>3, <2>5, <2>6 DEF R, M
<1> QED BY <1>6, <1>7 DEF Settles

-----------------------------------------------------------------------------
(* The invariant.                                                          *)

LEMMA InitWindow == Init => WindowInv
<1> SUFFICES ASSUME Init PROVE WindowInv
  OBVIOUS
<1>1. Types
  BY LimitAssumption, FiltersAssumption, CursorsAssumption DEF Init, Types, request
<1>2. window # 0
  BY LimitAssumption DEF Init
<1> QED BY <1>1, <1>2 DEF WindowInv, PageIsOfAllMatching

LEMMA NextWindow == WindowInv /\ [Next]_vars => WindowInv'
<1> SUFFICES ASSUME WindowInv, [Next]_vars PROVE WindowInv'
  OBVIOUS
<1>0. Types
  BY DEF WindowInv
<1>1. CASE Arrive
  <2>1. latest' \in Position /\ latest' \in Nat
    BY <1>0, <1>1, MaxPositionAssumption DEF Arrive, Types, Position
  <2>2. events' \in [Source -> [Kind -> SUBSET Position]]
    BY <1>0, <1>1, <2>1 DEF Arrive, Types
  <2>3. Types' /\ window' # 0
    BY <1>0, <1>1, <2>1, <2>2 DEF Arrive, Types, request
  <2> QED BY <2>3 DEF WindowInv, PageIsOfAllMatching
<1>2. CASE Answer
  <2>1. Settles /\ page' = Top(Result, Limit + 1) /\ UNCHANGED <<ledger, request>>
    BY <1>2 DEF Answer
  <2>2. page' \in SUBSET Position
    BY <1>0, <2>1, SettledPage
  <2>3. Types'
    BY <1>0, <1>2, <2>1, <2>2 DEF Types, ledger, request, Answer
  <2>4. Matching' = Matching
    BY <2>1 DEF Matching, MatchesParties, Beyond, Union, Parties, Precedes, ledger, request
  <2>5. Top(page, Limit)' = Top(page', Limit) /\ Top(Matching, Limit)' = Top(Matching, Limit)
    BY <2>1, <2>4 DEF Top, Precedes, request
  <2>6. /\ Top(page', Limit) = Top(Matching, Limit)
        /\ (Cardinality(page') > Limit) <=> (Cardinality(Matching) > Limit)
    BY <1>0, <2>1, SettledPage
  <2> QED BY <2>3, <2>4, <2>5, <2>6 DEF WindowInv, PageIsOfAllMatching
<1>3. CASE Widen
  <2>1. Types' /\ window' # 0
    BY <1>0, <1>3 DEF Widen, Types, ledger, request
  <2> QED BY <2>1 DEF WindowInv, PageIsOfAllMatching
<1>4. CASE UNCHANGED vars
  BY <1>4 DEF WindowInv, Types, PageIsOfAllMatching, Matching, MatchesParties, Beyond, Union,
              Parties, Top, Precedes, vars, ledger, request
<1> QED BY <1>1, <1>2, <1>3, <1>4 DEF Next

THEOREM WindowInvariant == Spec => []WindowInv
<1> QED BY InitWindow, NextWindow, PTL DEF Spec

(* The page of updates is the page of all that match, whatever windows the *)
(* candidates were read with (PageIsOfAllMatching).                        *)
THEOREM PageOfAllMatching == Spec => []PageIsOfAllMatching
<1>1. WindowInv => PageIsOfAllMatching
  BY DEF WindowInv
<1> QED BY <1>1, WindowInvariant, PTL

-----------------------------------------------------------------------------
(* One operation asks a participant that goes on meanwhile (GrpcCalls).    *)

LEMMA LeastIs ==
  ASSUME NEW S \in SUBSET Nat, S # {}
  PROVE  Calls!Least(S) \in S /\ \A y \in S : Calls!Least(S) <= y
<1>1. \E x \in S : \A y \in S : x <= y
  <2>1. PICK x \in S : \A y \in S : ~(<<y, x>> \in OpToRel(<, Nat))
    BY NatLessThanWellFounded, WFMin
  <2>2. \A y \in S : ~(y < x)
    BY <2>1, Zenon DEF OpToRel
  <2> QED
    BY <2>2
<1> QED
  BY <1>1 DEF Calls!Least

Some == [local : SUBSET Node, sees : [Contract -> SUBSET Node],
         mapped : [Calls!Lists -> [Synchronizer -> [on : SUBSET Member, threshold : Nat]]],
         admin : SUBSET Package, known : SUBSET Package]

\* What is read counts as long as it may come to be told.
Going == client = "open" \/ answer = "told"
Moments == 1..Len(world)

CallsOK ==
  /\ kind \in Calls!Operation
  /\ world \in Seq(Some) /\ Len(world) > 0
  /\ client = "none" => calls = {} /\ answer = "none" /\ Calls!NoOperation
  /\ client = "disposed" => calls = {}
  /\ answer = "told" => client = "disposed"
  /\ client \in {"none", "open", "disposed"}

\* The calls an operation makes.
CallsOf ==
  CASE kind = "local" -> {Calls!Local}
    [] kind = "fingerprints" -> {Calls!Call("parties", 0), Calls!Local}
    [] kind = "holdings" -> {Calls!Local} \cup {Calls!Call("contracts", p) : p \in Node}
    [] kind = "topology" -> {Calls!Call("parties", 0), Calls!Call("owners", 0), Calls!Call("stores", 0)}
                              \cup {Calls!Call("raw", s) : s \in Synchronizer}
    [] kind = "refs" -> {Calls!Call("admin", 0), Calls!Call("known", 0), Calls!Call("ledger", 0)}
                          \cup {Calls!Call("package", p) : p \in Package}
    [] kind \in {"info", "status", "traffic"} ->
         {Calls!Call("health", 0), Calls!Call("version", 0), Calls!Call("status", 0)}
           \cup {Calls!Call("traffic", s) : s \in Synchronizer}
    [] OTHER -> {Calls!Call("package", p) : p \in Package}

CallsMade == calls \subseteq CallsOf

\* The listing of local parties, up to its token.
ListsParties == kind \in {"local", "fingerprints", "holdings"}
ListingInv ==
  (Going /\ ListsParties) =>
    /\ token \in Nat
    /\ \A p \in listed : p \in Node /\ \E o \in Moments : p \in world[o].local
    /\ \A p \in Node : (p <= token /\ \A o \in Moments : p \in world[o].local) => p \in listed
    /\ (Calls!Beyond(token) = {}) <=> Calls!Local \notin calls

\* Holdings, party by party: those before the one being read are read at one moment.
FoundOf(p) == {x \in Contract : <<p, x>> \in found}
ReadWhole(p) == \E o \in Moments : FoundOf(p) = Calls!SeenBy(p, o)
HoldingsInv ==
  (Going /\ kind = "holdings") =>
    \/ /\ calls = {Calls!Local} /\ found = {} /\ given = {} /\ pinned = 0
    \/ \E p \in listed :
         /\ calls = {Calls!Call("contracts", p)}
         /\ \A q \in listed : (q < p => ReadWhole(q)) /\ (q > p => FoundOf(q) = {})
         /\ FoundOf(p) = given
         /\ pinned = 0 => given = {}
         /\ pinned # 0 => pinned \in Moments /\ given \subseteq Calls!SeenBy(p, pinned)
    \/ /\ calls = {} /\ \A q \in listed : ReadWhole(q)

\* Topology, of the hosts and of the keys: an aggregated row has no threshold, a raw row
\* is of one store, and each was at the synchronizers it names.
Was(m, l, s, o) == m \in world[o].mapped[l][s].on
WasAll(m, l, s) == \A o \in Moments : Was(m, l, s, o)
AggregatedOf(l) == IF l = "hosts" THEN hosting ELSE owning
ListingOf(l) == IF l = "hosts" THEN Calls!Call("parties", 0) ELSE Calls!Call("owners", 0)
RowsWere(told, l) == \A r \in told : \A s \in r.synchronizers : \E o \in Moments : Was(r.id, l, s, o)
RowsTell(told, l) ==
  \A m \in Member, s \in Synchronizer :
    WasAll(m, l, s) => \E r \in told : r.id = m /\ s \in r.synchronizers
RawOK(told, l) ==
  \A r \in told : \E s \in Synchronizer, o \in Moments :
    /\ r.synchronizers = {s} /\ Was(r.id, l, s, o)
    /\ world[o].mapped[l][s].threshold = r.threshold
TopologyInv ==
  (Going /\ kind = "topology") =>
    /\ stores \subseteq Synchronizer
    /\ \A l \in Calls!Lists :
         /\ \A r \in AggregatedOf(l) : r.threshold = 0
         /\ RowsWere(AggregatedOf(l), l)
         /\ ListingOf(l) \notin calls => RowsTell(AggregatedOf(l), l)
         /\ RawOK(raw[l], l)

\* References: by the listing of the admin or of the ledger, then of the known packages.
AdminAll(p) == \A o \in Moments : p \in world[o].admin
KnownAll(p) == \A o \in Moments : p \in world[o].known
RefsInv ==
  (Going /\ kind = "refs") =>
    /\ refs \in [Package -> {0, 1}]
    /\ \/ calls = {Calls!Call("admin", 0)}
       \/ /\ calls = {Calls!Call("known", 0)} /\ admin
          /\ \A p \in Package : AdminAll(p) => refs[p] = 1
       \/ calls = {Calls!Call("ledger", 0)} /\ ~admin
       \/ /\ calls \subseteq {Calls!Call("package", p) : p \in Package} /\ ~admin
          /\ \A p \in Package : AdminAll(p) => refs[p] = 1 \/ Calls!Call("package", p) \in calls
       \/ /\ calls = {} /\ admin
          /\ \A p \in Package : /\ AdminAll(p) => refs[p] = 1
                                /\ ~missed /\ KnownAll(p) => refs[p] = 1

CallsInv == CallsOK /\ CallsMade /\ ListingInv /\ HoldingsInv /\ TopologyInv /\ RefsInv

LEMMA WorldsTyped == Calls!Worlds \subseteq Some
<1>1. Calls!Quiet \in Some
  BY DEF Calls!Quiet, Calls!Nobody, Some
<1>2. \A l \in SUBSET Node : [Calls!Quiet EXCEPT !.local = l] \in Some
  BY <1>1 DEF Some
<1>3. \A f \in [Contract -> SUBSET Node] : [Calls!Quiet EXCEPT !.local = Node, !.sees = f] \in Some
  BY <1>1 DEF Some
<1>4. \A h \in Calls!Mappings : [Calls!Quiet EXCEPT !.mapped = h] \in Some
  <2> TAKE h \in Calls!Mappings
  <2>1. h \in [Calls!Lists -> [Synchronizer -> [on : SUBSET Member, threshold : {1, 2}]]]
    BY DEF Calls!Mappings
  <2>2. ASSUME NEW l \in Calls!Lists
        PROVE  h[l] \in [Synchronizer -> [on : SUBSET Member, threshold : Nat]]
    <3>1. h[l] \in [Synchronizer -> [on : SUBSET Member, threshold : {1, 2}]]
      BY <2>1
    <3>2. ASSUME NEW s \in Synchronizer PROVE h[l][s] \in [on : SUBSET Member, threshold : Nat]
      <4>1. h[l][s] \in [on : SUBSET Member, threshold : {1, 2}]
        BY <3>1
      <4> QED
        BY <4>1
    <3> QED
      BY <3>1, <3>2
  <2>3. h \in [Calls!Lists -> [Synchronizer -> [on : SUBSET Member, threshold : Nat]]]
    BY <2>1, <2>2
  <2> QED
    BY <1>1, <2>3 DEF Some
<1>5. \A l \in [admin : SUBSET Package, known : SUBSET Package] :
        [Calls!Quiet EXCEPT !.admin = l.admin, !.known = l.known] \in Some
  BY <1>1 DEF Some
<1>6. [Calls!Quiet EXCEPT !.admin = Package] \in Some
  BY <1>1 DEF Some
<1>7. CASE kind \in {"local", "fingerprints"}
  <2>1. Calls!Worlds = {[Calls!Quiet EXCEPT !.local = l] : l \in SUBSET Node}
    <3>1. CASE kind = "local"
      BY <3>1 DEF Calls!Worlds
    <3>2. CASE kind = "fingerprints"
      BY <3>2 DEF Calls!Worlds
    <3> QED
      BY <1>7, <3>1, <3>2
  <2> QED
    BY <1>2, <2>1
<1>8. CASE kind = "holdings"
  <2>1. Calls!Worlds = {[Calls!Quiet EXCEPT !.local = Node, !.sees = f] : f \in [Contract -> SUBSET Node]}
    BY <1>8 DEF Calls!Worlds
  <2> QED
    BY <1>3, <2>1
<1>9. CASE kind = "topology"
  <2>1. Calls!Worlds = {[Calls!Quiet EXCEPT !.mapped = h] : h \in Calls!Mappings}
    BY <1>9 DEF Calls!Worlds
  <2> QED
    BY <1>4, <2>1
<1>10. CASE kind = "refs"
  <2>1. Calls!Worlds = {[Calls!Quiet EXCEPT !.admin = l.admin, !.known = l.known] :
                          l \in [admin : SUBSET Package, known : SUBSET Package]}
    BY <1>10 DEF Calls!Worlds
  <2> QED
    BY <1>5, <2>1
<1>11. CASE kind \notin {"local", "fingerprints", "holdings", "topology", "refs"}
  <2>1. Calls!Worlds = {[Calls!Quiet EXCEPT !.admin = Package]}
    <3>1. /\ kind # "local" /\ kind # "fingerprints" /\ kind # "holdings"
          /\ kind # "topology" /\ kind # "refs"
      BY <1>11
    <3> QED
      BY <3>1 DEF Calls!Worlds
  <2> QED
    BY <1>6, <2>1
<1> QED
  BY <1>7, <1>8, <1>9, <1>10, <1>11

\* The moment of a call.
LEMMA NowIs ==
  ASSUME CallsOK
  PROVE  /\ Len(world) \in Moments /\ Calls!Now = world[Len(world)] /\ Calls!Now \in Some
         /\ Moments \subseteq Nat \ {0} /\ Calls!Span = Moments
<1>1. Len(world) \in Nat /\ Len(world) > 0 /\ DOMAIN world = 1..Len(world)
  BY DEF CallsOK
<1>2. Len(world) \in Moments
  BY <1>1 DEF Moments
<1>3. world[Len(world)] \in Some
  BY <1>1, <1>2 DEF CallsOK, Moments
<1> QED
  BY <1>1, <1>2, <1>3 DEF Calls!Now, Calls!Span, Moments

LEMMA WorldGrows ==
  ASSUME CallsOK, NEW w \in Some, world' = Append(world, w)
  PROVE  /\ world' \in Seq(Some) /\ Len(world') = Len(world) + 1
         /\ Moments \subseteq Moments'
         /\ \A o \in Moments : world'[o] = world[o]
<1>1. world \in Seq(Some) /\ Len(world) \in Nat
  BY DEF CallsOK
<1>2. /\ Append(world, w) \in Seq(Some) /\ Len(Append(world, w)) = Len(world) + 1
      /\ \A i \in 1..Len(world) : Append(world, w)[i] = world[i]
  BY <1>1, AppendProperties
<1> QED
  BY <1>1, <1>2 DEF Moments

LEMMA InitCalls == ASSUME Calls!Init PROVE CallsInv
<1>1. PICK w \in Calls!Worlds : world = <<w>>
  BY DEF Calls!Init
<1>2. w \in Some
  BY WorldsTyped
<1>3. world \in Seq(Some) /\ Len(world) > 0
  BY <1>1, <1>2
<1>4. /\ client = "none" /\ answer = "none" /\ calls = {} /\ Calls!NoOperation /\ kind \in Calls!Operation
  BY DEF Calls!Init
<1>5. ~Going
  BY <1>4 DEF Going
<1> QED
  BY <1>3, <1>4, <1>5 DEF CallsInv, CallsOK, CallsMade, ListingInv, HoldingsInv, TopologyInv, RefsInv

\* The participant goes on: what one moment showed stays shown, and less is so all along.
LEMMA ChangeKeeps == ASSUME CallsInv, Calls!Change PROVE CallsInv'
<1>1. PICK w \in Calls!Worlds : world' = Append(world, w)
  BY DEF Calls!Change
<1>2. /\ client = "open" /\ UNCHANGED <<kind, admin, client, calls, listed, token, pinned, given, found>>
      /\ UNCHANGED <<hosting, owning, raw, stores, refs, missed, answer>>
  BY DEF Calls!Change, Calls!data, Calls!listing, Calls!walk, Calls!topology
<1>3. /\ CallsOK /\ CallsMade /\ ListingInv /\ HoldingsInv /\ TopologyInv /\ RefsInv
  BY DEF CallsInv
<1>4. /\ world' \in Seq(Some) /\ Len(world') = Len(world) + 1 /\ Len(world) \in Nat
      /\ Moments \subseteq Moments'
      /\ \A o \in Moments : world'[o] = world[o]
  <2>1. w \in Some
    BY WorldsTyped
  <2>2. /\ world' \in Seq(Some) /\ Len(world') = Len(world) + 1
        /\ Moments \subseteq Moments'
        /\ \A o \in Moments : world'[o] = world[o]
    BY <1>1, <1>3, <2>1, WorldGrows
  <2>3. Len(world) \in Nat
    BY <1>3 DEF CallsOK
  <2> QED
    BY <2>2, <2>3
<1>5. CallsOK' /\ Going' = Going
  BY <1>2, <1>3, <1>4 DEF CallsOK, Going
<1>6. CallsMade'
  BY <1>2, <1>3 DEF CallsMade, CallsOf
<1>7. ListingInv'
  <2>1. \A t : Calls!Beyond(t)' = Calls!Beyond(t)
    BY DEF Calls!Beyond
  <2>2. ListsParties' = ListsParties
    BY <1>2 DEF ListsParties
  <2> QED
    BY <1>2, <1>3, <1>4, <1>5, <2>1, <2>2 DEF ListingInv
<1>8. HoldingsInv'
  <2>1. \A p : \A o \in Moments : Calls!SeenBy(p, o)' = Calls!SeenBy(p, o)
    BY <1>4 DEF Calls!SeenBy
  <2>2. \A p : FoundOf(p)' = FoundOf(p)
    BY <1>2 DEF FoundOf
  <2>3. \A p : ReadWhole(p) => ReadWhole(p)'
    BY <1>4, <2>1, <2>2 DEF ReadWhole
  <2> QED
    BY <1>2, <1>3, <1>4, <1>5, <2>1, <2>2, <2>3 DEF HoldingsInv
<1>9. TopologyInv'
  <2> SUFFICES ASSUME Going, kind = "topology" PROVE TopologyInv'
    BY <1>2, <1>5 DEF TopologyInv
  <2>1. \A m, l, s : \A o \in Moments : Was(m, l, s, o)' = Was(m, l, s, o)
    BY <1>4 DEF Was
  <2>2. \A told, l : /\ RowsWere(told, l) => RowsWere(told, l)'
                     /\ RowsTell(told, l) => RowsTell(told, l)'
                     /\ RawOK(told, l) => RawOK(told, l)'
    BY <1>4, <2>1 DEF RowsWere, RowsTell, RawOK, WasAll
  <2>3. \A l : AggregatedOf(l)' = AggregatedOf(l)
    BY <1>2 DEF AggregatedOf
  <2> QED
    BY <1>2, <1>3, <2>2, <2>3 DEF TopologyInv, ListingOf
<1>10. RefsInv'
  <2>1. \A p : (AdminAll(p)' => AdminAll(p)) /\ (KnownAll(p)' => KnownAll(p))
    BY <1>4 DEF AdminAll, KnownAll
  <2> QED
    BY <1>2, <1>3, <1>5, <2>1 DEF RefsInv
<1> QED
  BY <1>5, <1>6, <1>7, <1>8, <1>9, <1>10 DEF CallsInv

LEMMA OpenKeeps == ASSUME CallsInv, Calls!Open, NodesAssumption PROVE CallsInv'
<1>1. /\ client = "none" /\ client' = "open" /\ calls' = Calls!FirstCalls
      /\ UNCHANGED <<kind, world, admin, listed, token, pinned, given, found>>
      /\ UNCHANGED <<hosting, owning, raw, stores, refs, missed, answer>>
  BY DEF Calls!Open, Calls!setting, Calls!data, Calls!listing, Calls!walk, Calls!topology
<1>2. CallsOK /\ Calls!NoOperation /\ answer = "none"
  BY <1>1 DEF CallsInv, CallsOK
<1>3. CallsOK'
  BY <1>1, <1>2 DEF CallsOK
<1>4. CallsMade'
  BY <1>1, <1>2 DEF CallsMade, CallsOf, Calls!FirstCalls, CallsOK, Calls!Operation
<1>5. ListingInv'
  <2>1. CASE ListsParties
    <3>1. Calls!Beyond(0) # {}
      <4>1. \A p \in Node : p > 0
        BY DEF NodesAssumption
      <4> QED
        BY <4>1 DEF NodesAssumption, Calls!Beyond
    <3>2. Calls!Local \in calls'
      BY <1>1, <2>1 DEF ListsParties, Calls!FirstCalls
    <3>3. \A p \in Node : ~(p <= 0)
      BY DEF NodesAssumption
    <3> QED
      BY <1>1, <1>2, <3>1, <3>2, <3>3 DEF ListingInv, Calls!NoOperation, Calls!Beyond
  <2>2. CASE ~ListsParties
    BY <1>1, <2>2 DEF ListingInv, ListsParties
  <2> QED
    BY <2>1, <2>2
<1>6. HoldingsInv'
  BY <1>1, <1>2 DEF HoldingsInv, Calls!FirstCalls, Calls!NoOperation
<1>7. TopologyInv'
  <2> SUFFICES ASSUME kind = "topology" PROVE TopologyInv'
    BY <1>1 DEF TopologyInv
  <2>1. \A l \in Calls!Lists : ListingOf(l) \in calls'
    BY <1>1 DEF ListingOf, Calls!Lists, Calls!FirstCalls
  <2>2. /\ stores' = {} /\ \A l : AggregatedOf(l)' = {}
        /\ \A l \in Calls!Lists : raw'[l] = {}
    BY <1>1, <1>2 DEF AggregatedOf, Calls!NoOperation, Calls!NoRows
  <2>3. \A l : RowsWere({}, l)' /\ RawOK({}, l)'
    BY DEF RowsWere, RawOK
  <2> QED
    BY <2>1, <2>2, <2>3 DEF TopologyInv, ListingOf
<1>8. RefsInv'
  BY <1>1, <1>2 DEF RefsInv, Calls!FirstCalls, Calls!NoOperation
<1> QED
  BY <1>3, <1>4, <1>5, <1>6, <1>7, <1>8 DEF CallsInv

\* An operation that ends without telling anything.
LEMMA EndKeeps ==
  ASSUME CallsInv, UNCHANGED Calls!setting, calls' = {}, client' = "disposed", answer' # "told"
  PROVE  CallsInv'
<1>1. CallsOK' /\ ~Going'
  BY DEF CallsInv, CallsOK, Going, Calls!setting
<1> QED
  BY <1>1 DEF CallsInv, CallsMade, ListingInv, HoldingsInv, TopologyInv, RefsInv

\* An operation that tells what it read, and one that goes on doing nothing.
LEMMA FinishKeeps ==
  ASSUME CallsInv, Calls!Finish \/ UNCHANGED Calls!vars PROVE CallsInv'
<1>1. /\ UNCHANGED <<kind, world, vetted, admin, calls, listed, token, pinned, given, found>>
      /\ UNCHANGED <<hosting, owning, raw, stores, refs, missed>>
  BY DEF Calls!Finish, Calls!vars, Calls!setting, Calls!data, Calls!listing, Calls!walk, Calls!topology, Calls!listing, Calls!walk, Calls!topology
<1>2. \/ UNCHANGED <<client, answer>>
      \/ client = "open" /\ calls = {} /\ client' = "disposed" /\ answer' = "told"
  BY DEF Calls!Finish, Calls!vars
<1>3. CallsOK' /\ Going' = Going
  BY <1>1, <1>2 DEF CallsInv, CallsOK, Going, Calls!NoOperation
<1>4. CallsMade' = CallsMade
  BY <1>1 DEF CallsMade, CallsOf
<1>5. ListingInv' = ListingInv
  BY <1>1, <1>3 DEF ListingInv, ListsParties, Moments, Calls!Beyond
<1>6. HoldingsInv' = HoldingsInv
  <2>1. \A p, o : Calls!SeenBy(p, o)' = Calls!SeenBy(p, o)
    BY <1>1 DEF Calls!SeenBy
  <2> QED
    BY <1>1, <1>3, <2>1 DEF HoldingsInv, Moments, ReadWhole, FoundOf
<1>7. TopologyInv' = TopologyInv
  BY <1>1, <1>3 DEF TopologyInv, Moments, AggregatedOf, ListingOf, RowsWere, RowsTell, RawOK,
                    Was, WasAll
<1>8. RefsInv' = RefsInv
  BY <1>1, <1>3 DEF RefsInv, AdminAll, KnownAll, Moments
<1> QED
  BY <1>3, <1>4, <1>5, <1>6, <1>7, <1>8 DEF CallsInv

\* Which operations make a call.
LEMMA CallOfKind ==
  ASSUME CallsOK, CallsMade, NEW c \in calls
  PROVE  /\ client = "open" /\ answer # "told" /\ Going
         /\ c.name = "local" => kind \in {"local", "fingerprints", "holdings"} /\ c = Calls!Local
         /\ c.name = "contracts" =>
              kind = "holdings" /\ c.of \in Node /\ c = Calls!Call("contracts", c.of)
         /\ c.name = "parties" =>
              kind \in {"fingerprints", "topology"} /\ c = Calls!Call("parties", 0)
         /\ c.name = "owners" => kind = "topology" /\ c = Calls!Call("owners", 0)
         /\ c.name = "stores" => kind = "topology" /\ c = Calls!Call("stores", 0)
         /\ c.name = "raw" =>
              kind = "topology" /\ c.of \in Synchronizer /\ c = Calls!Call("raw", c.of)
         /\ c.name = "admin" => kind = "refs" /\ c = Calls!Call("admin", 0)
         /\ c.name = "known" => kind = "refs" /\ c = Calls!Call("known", 0)
         /\ c.name = "ledger" => kind = "refs" /\ c = Calls!Call("ledger", 0)
         /\ c.name = "package" =>
              kind \in {"refs", "packages"} /\ c.of \in Package /\ c = Calls!Call("package", c.of)
         /\ c.name \in {"health", "version", "status", "traffic"} =>
              kind \in {"info", "status", "traffic"}
<1>1. client = "open" /\ answer # "told" /\ Going
  BY DEF CallsOK, Going
<1>2. c \in CallsOf /\ kind \in Calls!Operation
  BY DEF CallsOK, CallsMade
<1>3. CASE kind = "local"
  BY <1>1, <1>2, <1>3 DEF CallsOf, Calls!Call, Calls!Local
<1>4. CASE kind = "fingerprints"
  BY <1>1, <1>2, <1>4 DEF CallsOf, Calls!Call, Calls!Local
<1>5. CASE kind = "holdings"
  BY <1>1, <1>2, <1>5 DEF CallsOf, Calls!Call, Calls!Local
<1>6. CASE kind = "topology"
  BY <1>1, <1>2, <1>6 DEF CallsOf, Calls!Call
<1>7. CASE kind = "refs"
  BY <1>1, <1>2, <1>7 DEF CallsOf, Calls!Call
<1>8. CASE kind \in {"info", "status", "traffic"}
  <2>1. c \in {Calls!Call("health", 0), Calls!Call("version", 0), Calls!Call("status", 0)}
               \cup {Calls!Call("traffic", s) : s \in Synchronizer}
    BY <1>2, <1>8 DEF CallsOf
  <2>2. c.name \in {"health", "version", "status", "traffic"}
    BY <2>1 DEF Calls!Call
  <2> QED
    BY <1>1, <1>8, <2>2
<1>9. CASE kind = "packages"
  <2>1. c \in {Calls!Call("package", p) : p \in Package}
    BY <1>2, <1>9 DEF CallsOf
  <2> QED
    BY <1>1, <1>9, <2>1 DEF Calls!Call
<1> QED
  BY <1>2, <1>3, <1>4, <1>5, <1>6, <1>7, <1>8, <1>9 DEF Calls!Operation

\* A call that is answered, and those that follow it.
LEMMA GoesOn ==
  ASSUME CallsOK, CallsMade, NEW c \in calls, UNCHANGED <<Calls!setting, client, answer>>,
         NEW following \in SUBSET CallsOf, calls' = (calls \ {c}) \cup following
  PROVE  CallsOK' /\ CallsMade' /\ Going /\ Going' /\ Moments' = Moments
<1>1. client = "open" /\ answer # "told" /\ Going
  BY CallOfKind
<1>2. UNCHANGED <<kind, world, vetted, admin, client, answer>>
  BY DEF Calls!setting
<1>3. CallsOK' /\ Going'
  BY <1>1, <1>2 DEF CallsOK, Going
<1>4. CallsMade'
  BY <1>2 DEF CallsMade, CallsOf
<1> QED
  BY <1>1, <1>2, <1>3, <1>4 DEF Moments

LEMMA Ends ==
  ASSUME CallsOK, CallsMade, NEW c \in calls, UNCHANGED <<Calls!setting, client, answer>>,
         calls' = calls \ {c}
  PROVE  CallsOK' /\ CallsMade' /\ Going /\ Going' /\ Moments' = Moments
<1>1. {} \in SUBSET CallsOf /\ calls' = (calls \ {c}) \cup {}
  OBVIOUS
<1> QED
  BY <1>1, GoesOn, Zenon

\* What a call does not read stays as it was.
LEMMA ListingStays ==
  ASSUME ListingInv, UNCHANGED <<kind, world, client, answer, listed, token>>,
         (Calls!Local \in calls') <=> (Calls!Local \in calls)
  PROVE  ListingInv'
BY DEF ListingInv, Going, ListsParties, Moments, Calls!Beyond

LEMMA OthersStay ==
  ASSUME kind' = kind
  PROVE  /\ ~ListsParties => ListingInv'
         /\ kind # "holdings" => HoldingsInv'
         /\ kind # "topology" => TopologyInv'
         /\ kind # "refs" => RefsInv'
BY DEF ListsParties, ListingInv, HoldingsInv, TopologyInv, RefsInv

\* The next page of the local parties.
LEMMA LocalPageKeeps ==
  ASSUME CallsInv, NodesAssumption, NEW c \in calls, Calls!LocalPage(c)
  PROVE  CallsInv'
<1> DEFINE p == Calls!Least(Calls!Beyond(token))
           more == IF Calls!Beyond(p) = {} THEN Calls!AfterLocal(listed') ELSE {Calls!Local}
<1>1. /\ c = Calls!Local
      /\ listed' = listed \cup (Calls!Now.local \cap {p}) /\ token' = p
      /\ calls' = (calls \ {c}) \cup more
      /\ UNCHANGED <<Calls!setting, client, answer, pinned, given, found>>
  BY DEF Calls!LocalPage, Calls!Continue, Calls!walk
<1>2. UNCHANGED <<kind, world, vetted, admin>>
  BY <1>1 DEF Calls!setting
<1>3. CallsOK /\ CallsMade /\ ListingInv /\ HoldingsInv
  BY DEF CallsInv
<1>4. Going /\ kind \in {"local", "fingerprints", "holdings"}
  <2>1. c.name = "local"
    BY <1>1 DEF Calls!Local, Calls!Call
  <2> QED
    BY <1>3, <2>1, CallOfKind
<1>5. /\ token \in Nat /\ Calls!Beyond(token) # {}
      /\ \A q \in listed : q \in Node /\ \E o \in Moments : q \in world[o].local
      /\ \A q \in Node : (q <= token /\ \A o \in Moments : q \in world[o].local) => q \in listed
  BY <1>1, <1>3, <1>4 DEF ListingInv, ListsParties
<1>6. p \in Node /\ p \in Nat /\ p > token /\ \A q \in Calls!Beyond(token) : p <= q
  <2>1. Calls!Beyond(token) \in SUBSET Nat
    BY DEF Calls!Beyond, NodesAssumption
  <2>2. p \in Calls!Beyond(token) /\ \A q \in Calls!Beyond(token) : p <= q
    BY <1>5, <2>1, LeastIs
  <2> QED
    BY <2>2 DEF Calls!Beyond, NodesAssumption
<1>7. listed' \subseteq Node
  BY <1>1, <1>5, <1>6
<1>8. more \in SUBSET CallsOf
  <2>1. CASE kind = "holdings" /\ listed' # {}
    <3>1. Calls!Least(listed') \in Node
      BY <1>7, <2>1, LeastIs DEF NodesAssumption
    <3> QED
      BY <2>1, <3>1 DEF CallsOf, Calls!AfterLocal
  <2>2. CASE ~(kind = "holdings" /\ listed' # {})
    BY <1>4, <2>2 DEF CallsOf, Calls!AfterLocal
  <2> QED
    BY <2>1, <2>2
<1> HIDE DEF p, more
<1>9. CallsOK' /\ CallsMade' /\ Going' /\ Moments' = Moments
  BY <1>1, <1>2, <1>3, <1>8, GoesOn
<1>10. Calls!Local \in calls' <=> Calls!Beyond(p) # {}
  <2>1. Calls!Local \notin Calls!AfterLocal(listed')
    BY DEF Calls!AfterLocal, Calls!Local, Calls!Call
  <2> QED
    BY <1>1, <2>1 DEF more
<1>11. ListingInv'
  <2>1. Calls!Beyond(token)' = Calls!Beyond(p)
    BY <1>1 DEF Calls!Beyond
  <2>2. \A q \in listed' : q \in Node /\ \E o \in Moments : q \in world[o].local
    <3>1. Len(world) \in Moments /\ Calls!Now = world[Len(world)]
      BY <1>3, NowIs
    <3> QED
      BY <1>1, <1>5, <1>6, <3>1
  <2>3. \A q \in Node : (q <= p /\ \A o \in Moments : q \in world[o].local) => q \in listed'
    <3> SUFFICES ASSUME NEW q \in Node, q <= p, \A o \in Moments : q \in world[o].local
                 PROVE  q \in listed'
      OBVIOUS
    <3>1. CASE q <= token
      BY <1>1, <1>5, <3>1
    <3>2. CASE q > token
      <4>1. q \in Calls!Beyond(token) /\ q \in Nat
        BY <3>2 DEF Calls!Beyond, NodesAssumption
      <4>2. q = p
        BY <1>6, <4>1
      <4>3. q \in Calls!Now.local
        BY <1>3, NowIs
      <4> QED
        BY <1>1, <4>2, <4>3
    <3>3. q \in Nat /\ token \in Nat
      BY <1>5 DEF NodesAssumption
    <3>4. q <= token \/ q > token
      BY <3>3
    <3> QED
      BY <3>1, <3>2, <3>4
  <2> QED
    BY <1>1, <1>2, <1>6, <1>9, <1>10, <2>1, <2>2, <2>3 DEF ListingInv
<1>12. HoldingsInv'
  <2> SUFFICES ASSUME kind = "holdings" PROVE HoldingsInv'
    BY <1>2, OthersStay
  <2>1. calls = {Calls!Local} /\ found = {} /\ given = {} /\ pinned = 0
    <3>1. Calls!Local \in calls
      BY <1>1
    <3>2. \A q : Calls!Local # Calls!Call("contracts", q)
      BY DEF Calls!Local, Calls!Call
    <3> QED
      BY <1>3, <1>4, <3>1, <3>2 DEF HoldingsInv
  <2>2. calls' = more /\ \A q : FoundOf(q)' = {}
    BY <1>1, <2>1 DEF FoundOf
  <2>3. CASE Calls!Beyond(p) # {}
    <3>1. calls' = {Calls!Local}
      BY <2>2, <2>3 DEF more
    <3> QED
      BY <1>1, <2>1, <3>1 DEF HoldingsInv
  <2>4. CASE Calls!Beyond(p) = {} /\ listed' = {}
    <3>1. calls' = {}
      BY <2>2, <2>4 DEF more, Calls!AfterLocal
    <3> QED
      BY <2>4, <3>1 DEF HoldingsInv
  <2>5. CASE Calls!Beyond(p) = {} /\ listed' # {}
    <3>1. PICK first \in listed' :
            Calls!Least(listed') = first /\ \A q \in listed' : first <= q
      BY <1>7, <2>5, LeastIs DEF NodesAssumption
    <3>2. calls' = {Calls!Call("contracts", first)}
      BY <2>2, <2>5, <3>1 DEF more, Calls!AfterLocal
    <3>3. \A q \in listed' : ~(q < first)
      <4> TAKE q \in listed'
      <4>1. q \in Nat /\ first \in Nat
        BY <1>7 DEF NodesAssumption
      <4> QED
        BY <3>1, <4>1
    <3>4. given' = {} /\ pinned' = 0
      BY <1>1, <2>1
    <3> QED
      BY <2>2, <3>1, <3>2, <3>3, <3>4 DEF HoldingsInv
  <2> QED
    BY <2>3, <2>4, <2>5
<1> QED
  BY <1>2, <1>4, <1>9, <1>11, <1>12, OthersStay DEF CallsInv

\* The next page of a party's holdings.
LEMMA ContractsPageKeeps ==
  ASSUME CallsInv, NodesAssumption, NEW c \in calls, Calls!ContractsPage(c)
  PROVE  CallsInv'
<1> DEFINE p == c.of
           left == Calls!SeenBy(p, Calls!Offset) \ given
           more == {q \in listed : q > p}
           following == IF more = {} THEN {} ELSE {Calls!Call("contracts", Calls!Least(more))}
<1>1. PICK rest \in SUBSET left :
        /\ found' = found \cup {<<p, x>> : x \in rest}
        /\ IF left \ rest # {}
           THEN given' = given \cup rest /\ pinned' = Calls!Offset /\ calls' = calls
           ELSE given' = {} /\ pinned' = 0 /\ calls' = (calls \ {c}) \cup following
  BY DEF Calls!ContractsPage, Calls!Continue
<1>2. UNCHANGED <<kind, world, vetted, admin, client, answer, listed, token>>
  BY DEF Calls!ContractsPage, Calls!setting, Calls!listing
<1>3. CallsOK /\ CallsMade /\ ListingInv /\ HoldingsInv
  BY DEF CallsInv
<1>4. Going /\ kind = "holdings" /\ p \in Node /\ c = Calls!Call("contracts", p)
  <2>1. c.name = "contracts"
    BY DEF Calls!ContractsPage
  <2> QED
    BY <1>3, <2>1, CallOfKind
<1>5. listed \subseteq Node
  BY <1>3, <1>4 DEF ListingInv, ListsParties
<1>6. \A q : Calls!Local # Calls!Call("contracts", q)
  BY DEF Calls!Local, Calls!Call
<1>7. /\ p \in listed /\ calls = {c}
      /\ \A q \in listed : (q < p => ReadWhole(q)) /\ (q > p => FoundOf(q) = {})
      /\ FoundOf(p) = given
      /\ pinned = 0 => given = {}
      /\ pinned # 0 => pinned \in Moments /\ given \subseteq Calls!SeenBy(p, pinned)
  <2>1. PICK r \in listed :
         /\ calls = {Calls!Call("contracts", r)}
         /\ \A q \in listed : (q < r => ReadWhole(q)) /\ (q > r => FoundOf(q) = {})
         /\ FoundOf(r) = given
         /\ pinned = 0 => given = {}
         /\ pinned # 0 => pinned \in Moments /\ given \subseteq Calls!SeenBy(r, pinned)
    BY <1>3, <1>4, <1>6 DEF HoldingsInv
  <2>2. r = p
    BY <1>4, <2>1 DEF Calls!Call
  <2> QED
    BY <1>4, <2>1, <2>2
<1>8. more # {} => Calls!Least(more) \in more /\ \A q \in more : Calls!Least(more) <= q
  <2>1. more \in SUBSET Nat
    BY <1>5 DEF NodesAssumption
  <2> QED
    BY <2>1, LeastIs
<1>9. following \in SUBSET CallsOf
  <2>1. more = {} \/ Calls!Least(more) \in Node
    BY <1>5, <1>8
  <2> QED
    BY <1>4, <2>1 DEF CallsOf
<1>10. /\ Calls!Offset \in Moments /\ given \subseteq Calls!SeenBy(p, Calls!Offset)
       /\ Calls!Offset # 0
  <2>1. Len(world) \in Moments /\ Moments \subseteq Nat \ {0}
    BY <1>3, NowIs
  <2> QED
    BY <1>7, <2>1 DEF Calls!Offset
<1> HIDE DEF p, left, more, following
<1>11. /\ CallsOK' /\ CallsMade' /\ Going' /\ Moments' = Moments
       /\ (Calls!Local \in calls') <=> (Calls!Local \in calls)
  <2>1. CASE left \ rest # {}
    <3>1. calls' = (calls \ {c}) \cup {c} /\ {c} \in SUBSET CallsOf
      BY <1>1, <1>3, <2>1 DEF CallsMade
    <3>2. UNCHANGED <<Calls!setting, client, answer>>
      BY <1>2 DEF Calls!setting
    <3> QED
      BY <1>3, <3>1, <3>2, GoesOn
  <2>2. CASE left \ rest = {}
    <3>1. calls' = (calls \ {c}) \cup following
      BY <1>1, <2>2
    <3>2. UNCHANGED <<Calls!setting, client, answer>>
      BY <1>2 DEF Calls!setting
    <3>3. Calls!Local \notin calls' /\ Calls!Local \notin calls
      BY <1>4, <1>6, <1>7, <3>1 DEF following
    <3> QED
      BY <1>3, <1>9, <3>1, <3>2, <3>3, GoesOn
  <2> QED
    BY <2>1, <2>2
<1>12. ListingInv'
  BY <1>2, <1>3, <1>11, ListingStays
<1>13. /\ \A q : q # p => FoundOf(q)' = FoundOf(q)
       /\ FoundOf(p)' = given \cup rest
  <2>1. rest \subseteq Contract
    BY <1>1 DEF left, Calls!SeenBy
  <2> QED
    BY <1>1, <1>7, <2>1 DEF FoundOf
<1>14. \A q : \A o : Calls!SeenBy(q, o)' = Calls!SeenBy(q, o)
  BY <1>2 DEF Calls!SeenBy
<1>15. \A q : q # p /\ ReadWhole(q) => ReadWhole(q)'
  BY <1>11, <1>13, <1>14 DEF ReadWhole
<1>16. \A q \in listed : /\ q \in Nat /\ p \in Nat
                         /\ q < p => ReadWhole(q)'
                         /\ q > p => FoundOf(q)' = {}
  <2>1. p \in Nat /\ \A q \in listed : q \in Nat
    BY <1>5, <1>7 DEF NodesAssumption
  <2>2. \A q \in listed : (q < p \/ q > p) => q # p
    BY <2>1
  <2> QED
    BY <1>7, <1>13, <1>15, <2>1, <2>2
<1>17. HoldingsInv'
  <2>1. CASE left \ rest # {}
    <3>1. given' = given \cup rest /\ pinned' = Calls!Offset /\ calls' = {c}
      BY <1>1, <1>7, <2>1
    <3>2. given' \subseteq Calls!SeenBy(p, Calls!Offset)
      BY <1>1, <1>10, <3>1 DEF left
    <3> QED
      BY <1>2, <1>4, <1>7, <1>10, <1>11, <1>13, <1>14, <1>16, <3>1, <3>2 DEF HoldingsInv
  <2>2. CASE left \ rest = {}
    <3>1. given' = {} /\ pinned' = 0 /\ calls' = following
      BY <1>1, <1>7, <2>2
    <3>2. FoundOf(p)' = Calls!SeenBy(p, Calls!Offset)
      BY <1>1, <1>10, <1>13, <2>2 DEF left
    <3>3. ReadWhole(p)'
      BY <1>10, <1>11, <1>14, <3>2 DEF ReadWhole
    <3>4. CASE more = {}
      <4>1. \A q \in listed' : ReadWhole(q)'
        <5> TAKE q \in listed'
        <5>1. ~(q > p)
          BY <1>2, <3>4 DEF more
        <5> QED
          BY <1>2, <1>16, <3>3, <5>1
      <4>2. calls' = {}
        BY <3>1, <3>4 DEF following
      <4> QED
        BY <4>1, <4>2 DEF HoldingsInv
    <3>5. CASE more # {}
      <4>1. PICK r \in listed :
              Calls!Least(more) = r /\ r > p /\ \A q \in listed : q > p => r <= q
        BY <1>8, <3>5 DEF more
      <4>2. calls' = {Calls!Call("contracts", r)}
        BY <3>1, <3>5, <4>1 DEF following
      <4>3. \A q \in listed : /\ q < r => ReadWhole(q)'
                              /\ q > r => FoundOf(q)' = {}
        <5> TAKE q \in listed
        <5>1. q \in Nat /\ p \in Nat /\ r \in Nat
          BY <1>16, <4>1
        <5>2. ASSUME q < r PROVE ReadWhole(q)'
          <6>1. ~(q > p)
            BY <4>1, <5>1, <5>2
          <6> QED
            BY <1>16, <3>3, <5>1, <6>1
        <5>3. ASSUME q > r PROVE FoundOf(q)' = {}
          <6>1. q > p
            BY <4>1, <5>1, <5>3
          <6> QED
            BY <1>16, <6>1
        <5> QED
          BY <5>2, <5>3
      <4>4. FoundOf(r)' = {}
        BY <1>16, <4>1
      <4> QED
        BY <1>2, <3>1, <4>1, <4>2, <4>3, <4>4 DEF HoldingsInv
    <3> QED
      BY <3>4, <3>5
  <2> QED
    BY <2>1, <2>2
<1> QED
  BY <1>2, <1>4, <1>11, <1>12, <1>17, OthersStay DEF CallsInv

\* Hosts, keys and stores.
LEMMA AggregatedRows ==
  ASSUME CallsOK, NEW l
  PROVE  /\ \A r \in Calls!Aggregated(l) : r.threshold = 0
         /\ RowsWere(Calls!Aggregated(l), l)
         /\ RowsTell(Calls!Aggregated(l), l)
<1>1. /\ Len(world) \in Moments
      /\ \A m : Calls!On(l, m) = {s \in Synchronizer : Was(m, l, s, Len(world))}
  BY NowIs DEF Calls!On, Was
<1>2. \A m \in Member : Calls!On(l, m) # {} => Calls!Row(m, 0, Calls!On(l, m)) \in Calls!Aggregated(l)
  BY DEF Calls!Aggregated
<1>3. \A r \in Calls!Aggregated(l) : \E m \in Member : r = Calls!Row(m, 0, Calls!On(l, m))
  BY DEF Calls!Aggregated
<1>4. \A m, ss : /\ Calls!Row(m, 0, ss).id = m /\ Calls!Row(m, 0, ss).threshold = 0
                 /\ Calls!Row(m, 0, ss).synchronizers = ss
  BY DEF Calls!Row
<1>5. RowsWere(Calls!Aggregated(l), l)
  <2> SUFFICES ASSUME NEW r \in Calls!Aggregated(l), NEW s \in r.synchronizers
               PROVE  \E o \in Moments : Was(r.id, l, s, o)
    BY DEF RowsWere
  <2>1. PICK m \in Member : r = Calls!Row(m, 0, Calls!On(l, m))
    BY <1>3
  <2>2. r.id = m /\ s \in Calls!On(l, m)
    BY <1>4, <2>1
  <2> QED
    BY <1>1, <2>2
<1>6. RowsTell(Calls!Aggregated(l), l)
  <2> SUFFICES ASSUME NEW m \in Member, NEW s \in Synchronizer, WasAll(m, l, s)
               PROVE  \E r \in Calls!Aggregated(l) : r.id = m /\ s \in r.synchronizers
    BY DEF RowsTell
  <2>1. s \in Calls!On(l, m)
    BY <1>1 DEF WasAll
  <2> QED
    BY <1>2, <1>4, <2>1
<1> QED
  BY <1>3, <1>4, <1>5, <1>6

\* While the participant does not go on, what it was is what it was.
LEMMA WereStays ==
  ASSUME UNCHANGED world, NEW told, NEW l
  PROVE  /\ RowsWere(told, l)' = RowsWere(told, l) /\ RowsTell(told, l)' = RowsTell(told, l)
         /\ RawOK(told, l)' = RawOK(told, l)
BY DEF RowsWere, RowsTell, RawOK, Was, WasAll, Moments

LEMMA HostsListedKeeps ==
  ASSUME CallsInv, NEW c \in calls, Calls!HostsListed(c) PROVE CallsInv'
<1>1. /\ c.name = "parties" /\ calls' = calls \ {c}
      /\ hosting' = IF kind = "topology" THEN Calls!Aggregated("hosts") ELSE {}
      /\ UNCHANGED <<Calls!setting, client, answer, listed, token, owning, raw, stores>>
  BY DEF Calls!HostsListed, Calls!Continue, Calls!listing
<1>2. UNCHANGED <<kind, world>>
  BY <1>1 DEF Calls!setting
<1>3. CallsOK /\ CallsMade /\ ListingInv /\ TopologyInv
  BY DEF CallsInv
<1>4. /\ Going /\ kind \in {"fingerprints", "topology"}
      /\ c = Calls!Call("parties", 0)
  BY <1>1, <1>3, CallOfKind
<1>5. CallsOK' /\ CallsMade' /\ Going' /\ Moments' = Moments
  BY <1>1, <1>3, Ends
<1>6. ListingInv'
  <2>1. c # Calls!Local
    BY <1>4 DEF Calls!Local, Calls!Call
  <2> QED
    BY <1>1, <1>2, <1>3, <2>1, ListingStays
<1>7. TopologyInv'
  <2> SUFFICES ASSUME kind = "topology" PROVE TopologyInv'
    BY <1>2, OthersStay
  <2>1. /\ AggregatedOf("hosts")' = Calls!Aggregated("hosts")
        /\ AggregatedOf("keys")' = AggregatedOf("keys")
    BY <1>1 DEF AggregatedOf
  <2>2. ListingOf("keys") \in calls => ListingOf("keys") \in calls'
    BY <1>1, <1>4 DEF ListingOf, Calls!Call
  <2> QED
    BY <1>1, <1>2, <1>3, <1>4, <2>1, <2>2, AggregatedRows, WereStays
    DEF TopologyInv, Calls!Lists, ListingOf
<1> QED
  BY <1>2, <1>4, <1>5, <1>6, <1>7, OthersStay DEF CallsInv

LEMMA KeysListedKeeps ==
  ASSUME CallsInv, NEW c \in calls, Calls!KeysListed(c) PROVE CallsInv'
<1>1. /\ c.name = "owners" /\ calls' = calls \ {c} /\ owning' = Calls!Aggregated("keys")
      /\ UNCHANGED <<Calls!setting, client, answer, hosting, raw, stores>>
  BY DEF Calls!KeysListed, Calls!Continue
<1>2. UNCHANGED <<kind, world>>
  BY <1>1 DEF Calls!setting
<1>3. CallsOK /\ CallsMade /\ TopologyInv
  BY DEF CallsInv
<1>4. Going /\ kind = "topology" /\ c = Calls!Call("owners", 0)
  BY <1>1, <1>3, CallOfKind
<1>5. CallsOK' /\ CallsMade' /\ Going' /\ Moments' = Moments
  BY <1>1, <1>3, Ends
<1>6. TopologyInv'
  <2>1. /\ AggregatedOf("hosts")' = AggregatedOf("hosts")
        /\ AggregatedOf("keys")' = Calls!Aggregated("keys")
    BY <1>1 DEF AggregatedOf
  <2>2. ListingOf("hosts") \in calls => ListingOf("hosts") \in calls'
    BY <1>1, <1>4 DEF ListingOf, Calls!Call
  <2> QED
    BY <1>1, <1>2, <1>3, <1>4, <2>1, <2>2, AggregatedRows, WereStays
    DEF TopologyInv, Calls!Lists, ListingOf
<1> QED
  BY <1>2, <1>4, <1>5, <1>6, OthersStay DEF CallsInv, ListsParties

\* The stores, one after the other: what an answer adds is of the store it is of.
LEMMA StoreKeeps ==
  ASSUME CallsInv, NEW c \in calls, c.name \in {"stores", "raw"},
         UNCHANGED <<Calls!setting, client, answer, hosting, owning>>,
         NEW following \in SUBSET {Calls!Call("raw", s) : s \in Synchronizer},
         calls' = (calls \ {c}) \cup following,
         raw' = raw \/ (c.name = "raw" /\ raw' = Calls!RawRows(c.of)),
         stores \subseteq Synchronizer => stores' \subseteq Synchronizer
  PROVE  CallsInv'
<1>1. UNCHANGED <<kind, world>>
  BY DEF Calls!setting
<1>2. CallsOK /\ CallsMade /\ TopologyInv
  BY DEF CallsInv
<1>3. /\ Going /\ kind = "topology" /\ c # Calls!Call("parties", 0)
      /\ c.name = "raw" => c.of \in Synchronizer
  <2>1. c # Calls!Call("parties", 0)
    BY DEF Calls!Call
  <2> QED
    BY <1>2, <2>1, CallOfKind
<1>4. following \in SUBSET CallsOf
  BY <1>3 DEF CallsOf
<1>5. CallsOK' /\ CallsMade' /\ Going' /\ Moments' = Moments
  BY <1>2, <1>4, GoesOn
<1>6. \A l \in Calls!Lists : ListingOf(l) \in calls => ListingOf(l) \in calls'
  BY DEF ListingOf, Calls!Lists, Calls!Call
<1>7. \A l \in Calls!Lists : RawOK(raw'[l], l)
  <2>1. CASE raw' = raw
    BY <1>2, <1>3, <2>1 DEF TopologyInv
  <2>2. CASE c.name = "raw" /\ raw' = Calls!RawRows(c.of)
    <3> SUFFICES ASSUME NEW l \in Calls!Lists, NEW r \in raw'[l]
                 PROVE  \E s \in Synchronizer, o \in Moments :
                          /\ r.synchronizers = {s} /\ Was(r.id, l, s, o)
                          /\ world[o].mapped[l][s].threshold = r.threshold
      BY DEF RawOK
    <3>1. Len(world) \in Moments /\ Calls!Now = world[Len(world)]
      BY <1>2, NowIs
    <3>2. /\ r.synchronizers = {c.of} /\ r.id \in Calls!Now.mapped[l][c.of].on
          /\ r.threshold = Calls!Now.mapped[l][c.of].threshold
      BY <2>2 DEF Calls!RawRows, Calls!Row
    <3> QED
      BY <1>3, <2>2, <3>1, <3>2 DEF Was
  <2> QED
    BY <2>1, <2>2
<1>8. TopologyInv'
  <2>1. \A l : AggregatedOf(l)' = AggregatedOf(l)
    BY DEF AggregatedOf
  <2> QED
    BY <1>1, <1>2, <1>3, <1>6, <1>7, <2>1, WereStays DEF TopologyInv, ListingOf
<1> QED
  BY <1>1, <1>3, <1>5, <1>8, OthersStay DEF CallsInv, ListsParties

LEMMA StoresAsked ==
  ASSUME CallsInv, NEW c \in calls, c.name \in {"stores", "raw"},
         UNCHANGED <<Calls!setting, client, answer, hosting, owning>>,
         NEW left \in SUBSET Synchronizer, Calls!AskStores(c, left),
         raw' = raw \/ (c.name = "raw" /\ raw' = Calls!RawRows(c.of))
  PROVE  CallsInv'
<1>1. stores' = left
  BY DEF Calls!AskStores
<1>2. PICK following \in SUBSET {Calls!Call("raw", s) : s \in Synchronizer} :
        calls' = (calls \ {c}) \cup following
  <2>1. CASE left = {}
    BY <2>1 DEF Calls!AskStores, Calls!Continue
  <2>2. CASE left # {}
    <3>1. PICK s \in left : calls' = (calls \ {c}) \cup {Calls!Call("raw", s)}
      BY <2>2 DEF Calls!AskStores, Calls!Continue
    <3> QED
      BY <3>1
  <2> QED
    BY <2>1, <2>2
<1> QED
  BY <1>1, <1>2, StoreKeeps

LEMMA StoresKeep ==
  ASSUME CallsInv, NEW c \in calls,
         \/ Calls!StoresListed(c) \/ Calls!StoresFail(c)
         \/ Calls!RawListed(c) \/ Calls!RawFails(c)
  PROVE  CallsInv'
<1>1. stores \ {c.of} \subseteq Synchronizer
  <2>1. CallsOK /\ CallsMade /\ TopologyInv
    BY DEF CallsInv
  <2>2. c.name \in {"stores", "raw"}
    BY DEF Calls!StoresListed, Calls!StoresFail, Calls!RawListed, Calls!RawFails
  <2>3. Going /\ kind = "topology"
    BY <2>1, <2>2, CallOfKind
  <2> QED
    BY <2>1, <2>3 DEF TopologyInv
<1>2. CASE Calls!StoresListed(c)
  <2>1. /\ c.name = "stores" /\ Calls!AskStores(c, Synchronizer)
        /\ UNCHANGED <<Calls!setting, client, answer, hosting, owning>>
    BY <1>2 DEF Calls!StoresListed
  <2>2. /\ c.name \in {"stores", "raw"}
        /\ raw' = raw \/ (c.name = "raw" /\ raw' = Calls!RawRows(c.of))
    BY <1>2 DEF Calls!StoresListed
  <2>3. Synchronizer \in SUBSET Synchronizer
    OBVIOUS
  <2> QED
    BY <2>1, <2>2, <2>3, StoresAsked, Zenon
<1>3. CASE Calls!RawFails(c)
  <2>1. /\ c.name = "raw" /\ Calls!AskStores(c, stores \ {c.of})
        /\ UNCHANGED <<Calls!setting, client, answer, hosting, owning>>
    BY <1>3 DEF Calls!RawFails
  <2>2. /\ c.name \in {"stores", "raw"}
        /\ raw' = raw \/ (c.name = "raw" /\ raw' = Calls!RawRows(c.of))
    BY <1>3 DEF Calls!RawFails
  <2>3. stores \ {c.of} \in SUBSET Synchronizer
    BY <1>1
  <2> QED
    BY <2>1, <2>2, <2>3, StoresAsked, Zenon
<1>4. CASE Calls!RawListed(c) /\ raw' = Calls!NoRows
  <2>1. /\ c.name = "raw" /\ Calls!AskStores(c, stores \ {c.of})
        /\ UNCHANGED <<Calls!setting, client, answer, hosting, owning>>
        /\ raw' = Calls!RawRows(c.of)
    BY <1>4 DEF Calls!RawListed
  <2> QED
    BY <1>1, <2>1, StoresAsked
<1>5. CASE Calls!RawListed(c) /\ raw' # Calls!NoRows
  <2>1. /\ c.name = "raw" /\ calls' = (calls \ {c}) \cup {} /\ stores' = {}
        /\ UNCHANGED <<Calls!setting, client, answer, hosting, owning>>
        /\ raw' = Calls!RawRows(c.of)
    BY <1>5 DEF Calls!RawListed, Calls!Continue
  <2>2. {} \in SUBSET {Calls!Call("raw", s) : s \in Synchronizer}
    OBVIOUS
  <2>3. stores' \subseteq Synchronizer
    BY <2>1
  <2> QED
    BY <2>1, <2>2, <2>3, StoreKeeps, Zenon
<1>6. CASE Calls!StoresFail(c)
  <2>1. /\ c.name = "stores" /\ calls' = (calls \ {c}) \cup {}
        /\ UNCHANGED <<Calls!setting, client, answer, hosting, owning>>
    BY <1>6 DEF Calls!StoresFail, Calls!Continue, Calls!topology
  <2>2. {} \in SUBSET {Calls!Call("raw", s) : s \in Synchronizer}
    OBVIOUS
  <2>3. stores \subseteq Synchronizer => stores' \subseteq Synchronizer
    BY <1>6 DEF Calls!StoresFail, Calls!topology
  <2>5. raw' = raw \/ (c.name = "raw" /\ raw' = Calls!RawRows(c.of))
    BY <1>6 DEF Calls!StoresFail, Calls!topology
  <2>4. c.name \in {"stores", "raw"}
    BY <2>1
  <2> QED
    BY <2>1, <2>2, <2>3, <2>4, <2>5, StoreKeeps, Zenon
<1> QED
  BY <1>2, <1>3, <1>4, <1>5, <1>6

\* The references of packages.
LEMMA AdminListedKeeps ==
  ASSUME CallsInv, NEW c \in calls, Calls!AdminListed(c) PROVE CallsInv'
<1>1. /\ c.name = "admin" /\ admin
      /\ calls' = (calls \ {c}) \cup {Calls!Call("known", 0)}
      /\ refs' = [p \in Package |-> IF p \in Calls!Now.admin THEN 1 ELSE 0]
      /\ UNCHANGED <<Calls!setting, client, answer>>
  BY DEF Calls!AdminListed, Calls!Continue
<1>2. UNCHANGED <<kind, world, admin>>
  BY <1>1 DEF Calls!setting
<1>3. CallsOK /\ CallsMade /\ RefsInv
  BY DEF CallsInv
<1>4. Going /\ kind = "refs" /\ c = Calls!Call("admin", 0)
  BY <1>1, <1>3, CallOfKind
<1>5. CallsOK' /\ CallsMade' /\ Going' /\ Moments' = Moments
  <2>1. {Calls!Call("known", 0)} \in SUBSET CallsOf
    BY <1>4 DEF CallsOf
  <2> QED
    BY <1>1, <1>3, <2>1, GoesOn
<1>6. RefsInv'
  <2>1. calls' = {Calls!Call("known", 0)}
    BY <1>1, <1>3, <1>4 DEF RefsInv, Calls!Call
  <2>2. \A p \in Package : AdminAll(p)' => refs'[p] = 1
    BY <1>1, <1>2, <1>3, <1>5, NowIs DEF AdminAll
  <2>3. refs' \in [Package -> {0, 1}]
    BY <1>1
  <2> QED
    BY <1>1, <1>2, <2>1, <2>2, <2>3 DEF RefsInv
<1> QED
  BY <1>2, <1>4, <1>5, <1>6, OthersStay DEF CallsInv, ListsParties

LEMMA AdminAbsentKeeps ==
  ASSUME CallsInv, NEW c \in calls, Calls!AdminAbsent(c) PROVE CallsInv'
<1>1. /\ c.name = "admin" /\ ~admin
      /\ calls' = (calls \ {c}) \cup {Calls!Call("ledger", 0)}
      /\ refs' = refs
      /\ UNCHANGED <<Calls!setting, client, answer>>
  BY DEF Calls!AdminAbsent, Calls!Continue, Calls!data
<1>2. UNCHANGED <<kind, world, admin>>
  BY <1>1 DEF Calls!setting
<1>3. CallsOK /\ CallsMade /\ RefsInv
  BY DEF CallsInv
<1>4. Going /\ kind = "refs" /\ c = Calls!Call("admin", 0)
  BY <1>1, <1>3, CallOfKind
<1>5. CallsOK' /\ CallsMade' /\ Going' /\ Moments' = Moments
  <2>1. {Calls!Call("ledger", 0)} \in SUBSET CallsOf
    BY <1>4 DEF CallsOf
  <2> QED
    BY <1>1, <1>3, <2>1, GoesOn
<1>6. RefsInv'
  <2>1. calls' = {Calls!Call("ledger", 0)}
    BY <1>1, <1>3, <1>4 DEF RefsInv, Calls!Call
  <2> QED
    BY <1>1, <1>2, <1>3, <1>4, <2>1 DEF RefsInv
<1> QED
  BY <1>2, <1>4, <1>5, <1>6, OthersStay DEF CallsInv, ListsParties

LEMMA KnownListedKeeps ==
  ASSUME CallsInv, NEW c \in calls, Calls!KnownListed(c) \/ Calls!KnownFails(c) PROVE CallsInv'
<1>1. /\ c.name = "known" /\ calls' = calls \ {c}
      /\ UNCHANGED <<Calls!setting, client, answer>>
      /\ \/ /\ missed' = missed
            /\ refs' = [p \in Package |-> IF refs[p] = 0 /\ p \in Calls!Now.known THEN 1 ELSE refs[p]]
         \/ missed' /\ refs' = refs
  BY DEF Calls!KnownListed, Calls!KnownFails, Calls!Continue
<1>2. UNCHANGED <<kind, world, admin>>
  BY <1>1 DEF Calls!setting
<1>3. CallsOK /\ CallsMade /\ RefsInv
  BY DEF CallsInv
<1>4. Going /\ kind = "refs" /\ c = Calls!Call("known", 0)
  BY <1>1, <1>3, CallOfKind
<1>5. CallsOK' /\ CallsMade' /\ Going' /\ Moments' = Moments
  BY <1>1, <1>3, Ends
<1>6. /\ calls = {c} /\ admin /\ refs \in [Package -> {0, 1}]
      /\ \A p \in Package : AdminAll(p) => refs[p] = 1
  BY <1>3, <1>4 DEF RefsInv, Calls!Call
<1>7. RefsInv'
  <2>1. calls' = {}
    BY <1>1, <1>6
  <2>2. \A p \in Package : (AdminAll(p)' => AdminAll(p)) /\ (KnownAll(p)' => p \in Calls!Now.known)
    BY <1>2, <1>3, <1>5, NowIs DEF AdminAll, KnownAll
  <2>3. /\ refs' \in [Package -> {0, 1}]
        /\ \A p \in Package : refs[p] = 1 => refs'[p] = 1
        /\ \A p \in Package : ~missed' /\ p \in Calls!Now.known => refs'[p] = 1
    BY <1>1, <1>6
  <2>4. \A p \in Package : /\ AdminAll(p)' => refs'[p] = 1
                           /\ ~missed' /\ KnownAll(p)' => refs'[p] = 1
    BY <1>6, <2>2, <2>3
  <2> QED
    BY <1>2, <1>6, <2>1, <2>3, <2>4 DEF RefsInv
<1> QED
  BY <1>2, <1>4, <1>5, <1>7, OthersStay DEF CallsInv, ListsParties

LEMMA LedgerListedKeeps ==
  ASSUME CallsInv, NEW c \in calls, Calls!LedgerListed(c) PROVE CallsInv'
<1> DEFINE archives == {Calls!Call("package", p) : p \in Calls!Now.admin}
<1>1. /\ c.name = "ledger" /\ calls' = (calls \ {c}) \cup archives /\ refs' = refs
      /\ UNCHANGED <<Calls!setting, client, answer>>
  BY DEF Calls!LedgerListed, Calls!Continue, Calls!data
<1>2. UNCHANGED <<kind, world, admin>>
  BY <1>1 DEF Calls!setting
<1>3. CallsOK /\ CallsMade /\ RefsInv
  BY DEF CallsInv
<1>4. Going /\ kind = "refs" /\ c = Calls!Call("ledger", 0)
  BY <1>1, <1>3, CallOfKind
<1>5. archives \subseteq {Calls!Call("package", p) : p \in Package}
  <2>1. Calls!Now.admin \subseteq Package
    BY <1>3, NowIs DEF Some
  <2> QED
    BY <2>1
<1>6. CallsOK' /\ CallsMade' /\ Going' /\ Moments' = Moments
  <2>1. archives \in SUBSET CallsOf
    BY <1>4, <1>5 DEF CallsOf
  <2> HIDE DEF archives
  <2> QED
    BY <1>1, <1>3, <2>1, GoesOn
<1>7. RefsInv'
  <2>1. calls = {c} /\ ~admin /\ refs \in [Package -> {0, 1}]
    BY <1>3, <1>4 DEF RefsInv, Calls!Call
  <2>2. calls' = archives
    BY <1>1, <2>1
  <2>3. \A p \in Package : AdminAll(p)' => Calls!Call("package", p) \in archives
    BY <1>2, <1>3, <1>6, NowIs DEF AdminAll
  <2> HIDE DEF archives
  <2> QED
    BY <1>1, <1>2, <1>5, <2>1, <2>2, <2>3 DEF RefsInv
<1> QED
  BY <1>2, <1>4, <1>6, <1>7, OthersStay DEF CallsInv, ListsParties

LEMMA PackageReadKeeps ==
  ASSUME CallsInv, NEW c \in calls, Calls!PackageRead(c) PROVE CallsInv'
<1>1. /\ c.name = "package" /\ calls' = calls \ {c} /\ refs' = [refs EXCEPT ![c.of] = 1]
      /\ UNCHANGED <<Calls!setting, client, answer>>
  BY DEF Calls!PackageRead, Calls!Continue
<1>2. UNCHANGED <<kind, world, admin>>
  BY <1>1 DEF Calls!setting
<1>3. CallsOK /\ CallsMade /\ RefsInv
  BY DEF CallsInv
<1>4. Going /\ kind \in {"refs", "packages"} /\ c.of \in Package /\ c = Calls!Call("package", c.of)
  BY <1>1, <1>3, CallOfKind
<1>5. CallsOK' /\ CallsMade' /\ Going' /\ Moments' = Moments
  BY <1>1, <1>3, Ends
<1>6. RefsInv'
  <2> SUFFICES ASSUME kind = "refs" PROVE RefsInv'
    BY <1>2, OthersStay
  <2>1. /\ calls \subseteq {Calls!Call("package", p) : p \in Package} /\ ~admin
        /\ \A p \in Package : AdminAll(p) => refs[p] = 1 \/ Calls!Call("package", p) \in calls
        /\ refs \in [Package -> {0, 1}]
    BY <1>1, <1>3, <1>4 DEF RefsInv, Calls!Call
  <2>2. \A p \in Package : AdminAll(p)' => AdminAll(p)
    BY <1>2, <1>5 DEF AdminAll
  <2>3. refs' \in [Package -> {0, 1}]
    BY <1>1, <2>1
  <2>4. \A p \in Package : AdminAll(p)' => refs'[p] = 1 \/ Calls!Call("package", p) \in calls'
    <3> SUFFICES ASSUME NEW p \in Package, AdminAll(p)
                 PROVE  refs'[p] = 1 \/ Calls!Call("package", p) \in calls'
      BY <2>2
    <3>1. CASE p = c.of
      BY <1>1, <2>1, <3>1
    <3>2. CASE p # c.of
      <4>1. Calls!Call("package", p) # c
        BY <3>2 DEF Calls!Call
      <4>2. refs'[p] = refs[p]
        BY <1>1, <2>1, <3>2
      <4> QED
        BY <1>1, <2>1, <4>1, <4>2
    <3> QED
      BY <3>1, <3>2
  <2> QED
    BY <1>1, <1>2, <2>1, <2>3, <2>4 DEF RefsInv
<1> QED
  BY <1>2, <1>4, <1>5, <1>6, OthersStay DEF CallsInv, ListsParties

\* Health, status and traffic.
LEMMA HealthKeeps ==
  ASSUME CallsInv, NEW c \in calls,
         \/ Calls!HealthTold(c) \/ Calls!VersionFails(c)
         \/ Calls!StatusTold(c) \/ Calls!TrafficTold(c)
  PROVE  CallsInv'
<1>1. /\ c.name \in {"health", "version", "status", "traffic"}
      /\ UNCHANGED <<Calls!setting, client, answer>>
      /\ \/ calls' = calls \ {c}
         \/ \E connected \in SUBSET Synchronizer :
              calls' = (calls \ {c}) \cup {Calls!Call("traffic", s) : s \in connected}
  BY DEF Calls!HealthTold, Calls!VersionFails, Calls!StatusTold, Calls!TrafficTold, Calls!Continue
<1>2. UNCHANGED <<kind, world, admin>>
  BY <1>1 DEF Calls!setting
<1>3. CallsOK /\ CallsMade
  BY DEF CallsInv
<1>4. kind \in {"info", "status", "traffic"}
  BY <1>1, <1>3, CallOfKind
<1>5. CallsOK' /\ CallsMade'
  <2>1. CASE calls' = calls \ {c}
    BY <1>1, <1>3, <2>1, Ends
  <2>2. ASSUME NEW connected \in SUBSET Synchronizer,
               calls' = (calls \ {c}) \cup {Calls!Call("traffic", s) : s \in connected}
        PROVE  CallsOK' /\ CallsMade'
    <3>1. {Calls!Call("traffic", s) : s \in connected} \in SUBSET CallsOf
      BY <1>4 DEF CallsOf
    <3> QED
      BY <1>1, <1>3, <2>2, <3>1, GoesOn
  <2> QED
    BY <1>1, <2>1, <2>2
<1> QED
  BY <1>2, <1>4, <1>5, OthersStay DEF CallsInv, ListsParties

LEMMA AnsweredKeeps ==
  ASSUME CallsInv, NodesAssumption, Calls!Answered PROVE CallsInv'
<1> PICK c \in calls :
      \/ Calls!LocalPage(c) \/ Calls!ContractsPage(c) \/ Calls!PackageUnknown(c)
      \/ Calls!HostsListed(c) \/ Calls!KeysListed(c) \/ Calls!StoresListed(c) \/ Calls!RawListed(c)
      \/ Calls!AdminListed(c) \/ Calls!AdminAbsent(c) \/ Calls!KnownListed(c)
      \/ Calls!LedgerListed(c) \/ Calls!PackageRead(c)
      \/ Calls!HealthTold(c) \/ Calls!StatusTold(c) \/ Calls!TrafficTold(c)
      \/ Calls!CallFails(c) \/ Calls!RawFails(c) \/ Calls!StoresFail(c) \/ Calls!KnownFails(c)
      \/ Calls!VersionFails(c)
  BY DEF Calls!Answered
<1>1. CASE Calls!LocalPage(c)
  BY <1>1, LocalPageKeeps
<1>2. CASE Calls!ContractsPage(c)
  BY <1>2, ContractsPageKeeps
<1>3. CASE Calls!HostsListed(c)
  BY <1>3, HostsListedKeeps
<1>4. CASE Calls!KeysListed(c)
  BY <1>4, KeysListedKeeps
<1>5. CASE Calls!StoresListed(c) \/ Calls!RawListed(c) \/ Calls!RawFails(c) \/ Calls!StoresFail(c)
  BY <1>5, StoresKeep
<1>6. CASE Calls!AdminListed(c)
  BY <1>6, AdminListedKeeps
<1>7. CASE Calls!AdminAbsent(c)
  BY <1>7, AdminAbsentKeeps
<1>8. CASE Calls!KnownListed(c) \/ Calls!KnownFails(c)
  BY <1>8, KnownListedKeeps
<1>9. CASE Calls!LedgerListed(c)
  BY <1>9, LedgerListedKeeps
<1>10. CASE Calls!PackageRead(c)
  BY <1>10, PackageReadKeeps
<1>11. CASE \/ Calls!HealthTold(c) \/ Calls!StatusTold(c) \/ Calls!TrafficTold(c)
            \/ Calls!VersionFails(c)
  BY <1>11, HealthKeeps
<1>12. CASE Calls!PackageUnknown(c) \/ Calls!CallFails(c)
  <2>1. UNCHANGED Calls!setting /\ calls' = {} /\ client' = "disposed" /\ answer' # "told"
    BY <1>12 DEF Calls!PackageUnknown, Calls!CallFails
  <2> QED
    BY <2>1, EndKeeps
<1> QED
  BY <1>1, <1>2, <1>3, <1>4, <1>5, <1>6, <1>7, <1>8, <1>9, <1>10, <1>11, <1>12

LEMMA CallsKept ==
  ASSUME CallsInv, NodesAssumption, [Calls!Next]_Calls!vars PROVE CallsInv'
<1>1. CASE Calls!Change
  BY <1>1, ChangeKeeps
<1>2. CASE Calls!Open
  BY <1>2, OpenKeeps
<1>3. CASE Calls!OpenFails
  <2>1. UNCHANGED Calls!setting /\ calls' = {} /\ client' = "disposed" /\ answer' # "told"
    BY <1>3 DEF Calls!OpenFails, CallsInv, CallsOK
  <2> QED
    BY <2>1, EndKeeps
<1>4. CASE Calls!Finish \/ UNCHANGED Calls!vars
  BY <1>4, FinishKeeps
<1>5. CASE Calls!Answered
  BY <1>5, AnsweredKeeps
<1> QED
  BY <1>1, <1>2, <1>3, <1>4, <1>5 DEF Calls!Next

(* What an operation of GrpcOperationsService has read up to any moment, in  *)
(* whatever order its calls end and whatever the participant changes between *)
(* them: the listing of local parties up to its token, the parties whose     *)
(* holdings are read, the rows and the references so far.                    *)
THEOREM CallsInvariant == Calls!Spec => []CallsInv
<1>1. Calls!Init => CallsInv
  BY InitCalls
<1>2. CallsInv /\ [Calls!Next]_Calls!vars => CallsInv'
  BY NodesAssumption, CallsKept
<1> QED
  BY <1>1, <1>2, PTL DEF Calls!Spec

(* GrpcCalls, ListingsAreComplete: whatever the pages and fallbacks, a party *)
(* local all along is listed, and a package listed all along is referred to, *)
(* once.                                                                     *)
THEOREM Listings == Calls!Spec => []ListingsAreComplete
<1>1. CallsInv => ListingsAreComplete
  <2> SUFFICES ASSUME CallsInv PROVE ListingsAreComplete
    OBVIOUS
  <2>1. CallsOK /\ ListingInv /\ RefsInv /\ Calls!Span = Moments
    BY NowIs DEF CallsInv
  <2>2. answer = "told" => calls = {} /\ Going
    BY <2>1 DEF CallsOK, Going
  <2>3. Calls!LocalPartiesAreComplete
    <3> SUFFICES ASSUME NEW k \in {"local", "fingerprints"}, Calls!Told(k)
                 PROVE  /\ \A p \in Node : (\A o \in Moments : p \in world[o].local) => p \in listed
                        /\ \A p \in listed : \E o \in Moments : p \in world[o].local
      BY <2>1 DEF Calls!LocalPartiesAreComplete
    <3>1. calls = {} /\ Going /\ ListsParties
      BY <2>2 DEF Calls!Told, ListsParties
    <3>2. Calls!Beyond(token) = {} /\ token \in Nat
      BY <2>1, <3>1 DEF ListingInv
    <3>3. \A p \in Node : p <= token
      BY <3>2, NodesAssumption DEF Calls!Beyond, NodesAssumption
    <3> QED
      BY <2>1, <3>1, <3>3 DEF ListingInv
  <2>4. Calls!RefsAreComplete
    <3> SUFFICES ASSUME Calls!Told("refs"), NEW p \in Package
                 PROVE  /\ refs[p] <= 1
                        /\ (\A o \in Moments : p \in world[o].admin) => refs[p] = 1
                        /\ (admin /\ ~missed /\ \A o \in Moments : p \in world[o].known) => refs[p] = 1
      BY <2>1 DEF Calls!RefsAreComplete
    <3>1. calls = {} /\ Going /\ kind = "refs"
      BY <2>2 DEF Calls!Told
    <3>2. /\ refs \in [Package -> {0, 1}]
          /\ AdminAll(p) => refs[p] = 1
          /\ admin /\ ~missed /\ KnownAll(p) => refs[p] = 1
      BY <2>1, <3>1 DEF RefsInv
    <3>3. refs[p] <= 1
      BY <3>2
    <3> QED
      BY <3>2, <3>3 DEF AdminAll, KnownAll
  <2> QED
    BY <2>3, <2>4 DEF ListingsAreComplete, Calls!ListingsAreComplete
<1> QED
  BY <1>1, CallsInvariant, PTL

(* GrpcCalls, HoldingsOfOneMoment: the holdings told of a party are those of *)
(* one offset, for any number of parties, contracts and pages.               *)
THEOREM HoldingsRead == Calls!Spec => []HoldingsOfOneMoment
<1>1. CallsInv => HoldingsOfOneMoment
  <2> SUFFICES ASSUME CallsInv, Calls!Told("holdings")
               PROVE  \A p \in listed : \E o \in Moments : FoundOf(p) = Calls!SeenBy(p, o)
    BY NowIs DEF CallsInv, HoldingsOfOneMoment, Calls!HoldingsOfOneMoment, FoundOf
  <2>1. calls = {} /\ Going /\ kind = "holdings" /\ HoldingsInv
    BY DEF CallsInv, CallsOK, Going, Calls!Told
  <2> QED
    BY <2>1 DEF HoldingsInv, ReadWhole
<1> QED
  BY <1>1, CallsInvariant, PTL

\* Rows merged by id.
LEMMA MergedRows ==
  ASSUME NEW every
  PROVE  /\ \A r, q \in Calls!MergeRows(every) : r.id = q.id => r = q
         /\ \A r \in every : \E q \in Calls!MergeRows(every) :
              q.id = r.id /\ r.synchronizers \subseteq q.synchronizers
         /\ \A q \in Calls!MergeRows(every) : \A s \in q.synchronizers :
              \E r \in every : r.id = q.id /\ s \in r.synchronizers
         /\ \A q \in Calls!MergeRows(every) : q.threshold # 0 =>
              \E r \in every : /\ r.id = q.id /\ r.threshold = q.threshold
                              /\ r.synchronizers \subseteq q.synchronizers
<1> DEFINE same(m) == {r \in every : r.id = m}
           limit(m) == IF \E r \in same(m) : r.threshold # 0
                       THEN (CHOOSE r \in same(m) : r.threshold # 0).threshold ELSE 0
           merged(m) == Calls!Row(m, limit(m), UNION {r.synchronizers : r \in same(m)})
<1>1. Calls!MergeRows(every) = {merged(m) : m \in {r.id : r \in every}}
  BY DEF Calls!MergeRows
<1>2. \A m : /\ merged(m).id = m /\ merged(m).threshold = limit(m)
             /\ merged(m).synchronizers = UNION {r.synchronizers : r \in same(m)}
  BY DEF Calls!Row
<1>3. \A m : limit(m) # 0 =>
        \E r \in every : /\ r.id = m /\ r.threshold = limit(m)
                        /\ r.synchronizers \subseteq UNION {x.synchronizers : x \in same(m)}
  <2> SUFFICES ASSUME NEW m, limit(m) # 0
               PROVE  \E r \in every : /\ r.id = m /\ r.threshold = limit(m)
                                      /\ r.synchronizers \subseteq UNION {x.synchronizers : x \in same(m)}
    OBVIOUS
  <2>1. \E r \in same(m) : r.threshold # 0
    OBVIOUS
  <2>2. PICK r \in same(m) : r.threshold = limit(m)
    BY <2>1
  <2>3. r.synchronizers \subseteq UNION {x.synchronizers : x \in same(m)}
    BY <2>2
  <2> QED
    BY <2>2, <2>3
<1> HIDE DEF merged
<1>4. \A q \in Calls!MergeRows(every) : \E r \in every : q = merged(r.id)
  BY <1>1
<1>5. \A r \in every : merged(r.id) \in Calls!MergeRows(every)
  BY <1>1
<1>9. \A r \in every : r.synchronizers \subseteq UNION {x.synchronizers : x \in same(r.id)}
  OBVIOUS
<1>10. \A m : \A s \in UNION {x.synchronizers : x \in same(m)} :
         \E r \in every : r.id = m /\ s \in r.synchronizers
  OBVIOUS
<1> HIDE DEF limit, same
<1>6. \A r, q \in Calls!MergeRows(every) : r.id = q.id => r = q
  BY <1>2, <1>4
<1>7. \A r \in every : \E q \in Calls!MergeRows(every) :
        q.id = r.id /\ r.synchronizers \subseteq q.synchronizers
  BY <1>2, <1>5, <1>9
<1>11. \A q \in Calls!MergeRows(every) : \A s \in q.synchronizers :
         \E r \in every : r.id = q.id /\ s \in r.synchronizers
  BY <1>2, <1>4, <1>10
<1>8. ASSUME NEW q \in Calls!MergeRows(every), q.threshold # 0
      PROVE  \E r \in every : /\ r.id = q.id /\ r.threshold = q.threshold
                              /\ r.synchronizers \subseteq q.synchronizers
  <2>1. PICK x \in every : q = merged(x.id)
    BY <1>4
  <2>2. /\ q.id = x.id /\ q.threshold = limit(x.id)
        /\ q.synchronizers = UNION {r.synchronizers : r \in same(x.id)}
    BY <1>2, <2>1
  <2> QED
    BY <1>3, <1>8, <2>2
<1> QED
  BY <1>6, <1>7, <1>8, <1>11

(* GrpcCalls, TopologyRowsAgree: of the hosts, and apart from them of the    *)
(* keys, one row each, none lost, naming the synchronizers it was at all along *)
(* and no other than it was at, with no threshold that none of them had.      *)
THEOREM TopologyRowsMerged == Calls!Spec => []TopologyRowsAgree
<1>1. CallsInv => TopologyRowsAgree
  <2> SUFFICES ASSUME CallsInv, Calls!Told("topology"), NEW l \in Calls!Lists
               PROVE  /\ \A r, q \in Calls!TopologyRows(l) : r.id = q.id => r = q
                      /\ RowsTell(Calls!TopologyRows(l), l)
                      /\ RowsWere(Calls!TopologyRows(l), l)
                      /\ \A r \in Calls!TopologyRows(l) : r.threshold # 0 =>
                           \E s \in r.synchronizers, o \in Moments :
                             Was(r.id, l, s, o) /\ world[o].mapped[l][s].threshold = r.threshold
    BY NowIs DEF CallsInv, TopologyRowsAgree, Calls!TopologyRowsAgree, RowsTell, RowsWere,
                 WasAll, Was
  <2> DEFINE read == AggregatedOf(l) \cup raw[l]
  <2>1. calls = {} /\ Going /\ kind = "topology" /\ TopologyInv
    BY DEF CallsInv, CallsOK, Going, Calls!Told
  <2>2. Calls!TopologyRows(l) = Calls!MergeRows(read)
    BY DEF Calls!TopologyRows, AggregatedOf
  <2>3. /\ \A r \in AggregatedOf(l) : r.threshold = 0
        /\ RowsWere(AggregatedOf(l), l) /\ RowsTell(AggregatedOf(l), l) /\ RawOK(raw[l], l)
    BY <2>1 DEF TopologyInv
  <2>4. RowsWere(read, l) /\ RowsTell(read, l)
    BY <2>3 DEF RowsWere, RowsTell, RawOK
  <2>5. \A r \in read : r.threshold # 0 => r \in raw[l]
    BY <2>3
  <2> HIDE DEF read
  <2>6. \A r, q \in Calls!TopologyRows(l) : r.id = q.id => r = q
    BY <2>2, MergedRows
  <2>7. RowsTell(Calls!TopologyRows(l), l)
    <3> SUFFICES ASSUME NEW m \in Member, NEW s \in Synchronizer, WasAll(m, l, s)
                 PROVE  \E r \in Calls!TopologyRows(l) : r.id = m /\ s \in r.synchronizers
      BY DEF RowsTell
    <3>1. PICK r \in read : r.id = m /\ s \in r.synchronizers
      BY <2>4 DEF RowsTell
    <3>2. PICK q \in Calls!TopologyRows(l) : q.id = r.id /\ r.synchronizers \subseteq q.synchronizers
      BY <2>2, MergedRows
    <3> QED
      BY <3>1, <3>2
  <2>8. RowsWere(Calls!TopologyRows(l), l)
    <3> SUFFICES ASSUME NEW q \in Calls!TopologyRows(l), NEW s \in q.synchronizers
                 PROVE  \E o \in Moments : Was(q.id, l, s, o)
      BY DEF RowsWere
    <3>1. PICK r \in read : r.id = q.id /\ s \in r.synchronizers
      BY <2>2, MergedRows
    <3> QED
      BY <2>4, <3>1 DEF RowsWere
  <2>9. ASSUME NEW q \in Calls!TopologyRows(l), q.threshold # 0
        PROVE  \E s \in q.synchronizers, o \in Moments :
                 Was(q.id, l, s, o) /\ world[o].mapped[l][s].threshold = q.threshold
    <3>1. PICK r \in read : /\ r.id = q.id /\ r.threshold = q.threshold
                            /\ r.synchronizers \subseteq q.synchronizers
      BY <2>2, <2>9, MergedRows
    <3>2. r \in raw[l]
      BY <2>5, <2>9, <3>1
    <3>3. PICK s \in Synchronizer, o \in Moments :
            /\ r.synchronizers = {s} /\ Was(r.id, l, s, o)
            /\ world[o].mapped[l][s].threshold = r.threshold
      BY <2>3, <3>2 DEF RawOK
    <3>4. s \in q.synchronizers
      BY <3>1, <3>3
    <3> QED
      BY <3>1, <3>3, <3>4
  <2> QED
    BY <2>6, <2>7, <2>8, <2>9
<1> QED
  BY <1>1, CallsInvariant, PTL

-----------------------------------------------------------------------------
(* Rows in an order: what comes first, and what a page cuts off.           *)

Orders(R, S) ==
  /\ \A x \in S : <<x, x>> \notin R
  /\ \A x, y, z \in S : <<x, y>> \in R /\ <<y, z>> \in R => <<x, z>> \in R
  /\ \A x, y, z \in S : <<x, z>> \in R => <<x, y>> \in R \/ <<y, z>> \in R

Before(R, S, x) == {y \in S : <<y, x>> \in R}
FirstOf(R, S, n) == {x \in S : Cardinality(Before(R, S, x)) < n}

LEMMA TotalOrders ==
  ASSUME NEW R, NEW S, \A x \in S : <<x, x>> \notin R,
         \A x, y, z \in S : <<x, y>> \in R /\ <<y, z>> \in R => <<x, z>> \in R,
         \A x, y \in S : x = y \/ <<x, y>> \in R \/ <<y, x>> \in R
  PROVE  Orders(R, S)
BY DEF Orders

\* A row that comes later has more before it.
LEMMA BeforeGrows ==
  ASSUME NEW S, IsFiniteSet(S), NEW R, Orders(R, S), NEW x \in S, NEW y \in S, <<x, y>> \in R
  PROVE  /\ Cardinality(Before(R, S, x)) \in Nat /\ Cardinality(Before(R, S, y)) \in Nat
         /\ Cardinality(Before(R, S, x)) < Cardinality(Before(R, S, y))
<1>1. /\ Before(R, S, x) \subseteq Before(R, S, y)
      /\ x \in Before(R, S, y) /\ x \notin Before(R, S, x)
  BY DEF Before, Orders
<1>2. IsFiniteSet(Before(R, S, x)) /\ IsFiniteSet(Before(R, S, y))
  BY FS_Subset DEF Before
<1> QED
  BY <1>1, <1>2, FS_Subset, FS_CardinalityType

LEMMA FirstOfAll ==
  ASSUME NEW S, IsFiniteSet(S), S # {}, NEW R, Orders(R, S)
  PROVE  \E x \in S : \A y \in S : <<y, x>> \notin R
<1> DEFINE F == {Cardinality(Before(R, S, x)) : x \in S}
<1>1. \A x \in S : Cardinality(Before(R, S, x)) \in Nat
  BY FS_Subset, FS_CardinalityType DEF Before
<1>2. PICK n \in F : \A m \in F : n <= m
  <2>1. F \in SUBSET Nat /\ F # {}
    BY <1>1
  <2> QED
    BY <2>1, LeastIs
<1>3. PICK x \in S : n = Cardinality(Before(R, S, x))
  OBVIOUS
<1>4. \A y \in S : <<y, x>> \notin R
  <2> SUFFICES ASSUME NEW y \in S, <<y, x>> \in R PROVE FALSE
    OBVIOUS
  <2>1. Cardinality(Before(R, S, y)) < Cardinality(Before(R, S, x))
    BY BeforeGrows
  <2>2. Cardinality(Before(R, S, x)) <= Cardinality(Before(R, S, y))
    BY <1>2, <1>3
  <2> QED
    BY <1>1, <2>1, <2>2
<1> QED
  BY <1>4

\* A page is of the first rows, of all of them if there are no more, and of some if there are any.
LEMMA Cut ==
  ASSUME NEW S, IsFiniteSet(S), NEW R, Orders(R, S), NEW n \in Nat \ {0}
  PROVE  /\ FirstOf(R, S, n) \subseteq S
         /\ \A x \in S \ FirstOf(R, S, n), y \in FirstOf(R, S, n) : <<y, x>> \in R
         /\ Cardinality(S) <= n => FirstOf(R, S, n) = S
         /\ S # {} => FirstOf(R, S, n) # {}
<1> DEFINE T == FirstOf(R, S, n)
<1>0. T = {x \in S : Cardinality(Before(R, S, x)) < n}
  BY DEF FirstOf
<1> HIDE DEF T
<1>1. \A x \in S \ T, y \in T : <<y, x>> \in R
  <2> SUFFICES ASSUME NEW x \in S \ T, NEW y \in T, <<y, x>> \notin R PROVE FALSE
    OBVIOUS
  <2>1. x \in S /\ y \in S
    BY <1>0
  <2>2. Before(R, S, x) \subseteq Before(R, S, y)
    BY <2>1 DEF Orders, Before
  <2>3. /\ Cardinality(Before(R, S, x)) <= Cardinality(Before(R, S, y))
        /\ Cardinality(Before(R, S, x)) \in Nat /\ Cardinality(Before(R, S, y)) \in Nat
    <3>1. IsFiniteSet(Before(R, S, x)) /\ IsFiniteSet(Before(R, S, y))
      BY FS_Subset DEF Before
    <3> QED
      BY <2>2, <3>1, FS_Subset, FS_CardinalityType
  <2>4. ~(Cardinality(Before(R, S, x)) < n) /\ Cardinality(Before(R, S, y)) < n
    BY <1>0, <2>1
  <2> QED
    BY <2>3, <2>4
<1>2. ASSUME Cardinality(S) <= n PROVE T = S
  <2> SUFFICES ASSUME NEW x \in S PROVE Cardinality(Before(R, S, x)) < n
    BY <1>0
  <2>1. Before(R, S, x) \subseteq S /\ x \notin Before(R, S, x)
    BY DEF Before, Orders
  <2>2. Cardinality(Before(R, S, x)) < Cardinality(S) /\ Cardinality(S) \in Nat
        /\ Cardinality(Before(R, S, x)) \in Nat
    BY <2>1, FS_Subset, FS_CardinalityType
  <2> QED
    BY <1>2, <2>2
<1>3. ASSUME S # {} PROVE T # {}
  <2>1. PICK x \in S : \A y \in S : <<y, x>> \notin R
    BY <1>3, FirstOfAll
  <2>2. Before(R, S, x) = {}
    BY <2>1 DEF Before
  <2>3. Cardinality(Before(R, S, x)) = 0
    BY <2>2, FS_EmptySet
  <2> QED
    BY <1>0, <2>3
<1> QED
  BY <1>0, <1>1, <1>2, <1>3 DEF T

-----------------------------------------------------------------------------
(* Walks through the pages of contracts (ContractPages).                   *)

All == UNION {Contracts!Contracts(n) : n \in Node}
Mine == Contracts!Contracts(Contracts!First)

\* The two directions of a walk.
Heading(up) == dir = (IF up THEN "up" ELSE "down")
CursorOf(up) == IF up THEN contractNewer ELSE older
Further(up, x, c) == IF up THEN Contracts!Later(x, c) ELSE Contracts!Earlier(x, c)
Follows(up, x, c) == IF up THEN Contracts!Precedes(x, c) ELSE Contracts!Precedes(c, x)

LedgerOK ==
  /\ created \in [Node -> Seq(Nat)] /\ clock \in Nat
  /\ reader \in {"node", "party"} /\ status \in {"active", "archived", "all"}
  /\ dir \in {"up", "down"} /\ ~again /\ open \subseteq Node
  /\ reader = "node" => asked = Contracts!NoCursor

\* Neither page nor walk goes past its cursors, and what the walk leaves out lies beyond.
NodeWalk ==
  reader = "node" =>
    /\ contractPage \subseteq Mine /\ shown \subseteq Mine /\ standing \subseteq Contracts!Matching
    /\ \A up \in BOOLEAN :
         \/ CursorOf(up) = Contracts!NoCursor /\ (Heading(up) => standing \subseteq shown)
         \/ \E c \in Mine :
              /\ CursorOf(up) = Contracts!Key(c)
              /\ \A x \in contractPage : ~Further(up, x, c)
              /\ Heading(up) => /\ \A x \in shown : ~Further(up, x, c)
                                /\ \A x \in standing \ shown : Further(up, x, c)

\* A request begins where the page shown ends.
PartyWalk ==
  reader = "party" =>
    /\ contractPage \subseteq All /\ shown \subseteq All /\ rows \subseteq All
    /\ \A up \in BOOLEAN :
         CursorOf(up) # Contracts!NoCursor =>
           /\ CursorOf(up).at \in All
           /\ \A x \in contractPage : ~Follows(up, x, CursorOf(up).at)
           /\ Heading(up) => \A x \in shown : ~Follows(up, x, CursorOf(up).at)
    /\ asked # Contracts!NoCursor =>
         /\ asked.up \in BOOLEAN
         /\ \/ asked.at = Contracts!Nothing
            \/ CursorOf(asked.up) # Contracts!NoCursor /\ asked.at = CursorOf(asked.up).at

WalkInv == LedgerOK /\ NodeWalk /\ PartyWalk

LEMMA SameCardinality == ASSUME NEW S PROVE Contracts!Cardinality(S) = Cardinality(S)
BY Zenon DEF Contracts!Cardinality, Cardinality, Contracts!IsFiniteSet, IsFiniteSet

\* Contracts have a node and a number there, and are finitely many.
LEMMA ContractsOf ==
  ASSUME LedgerOK, NEW n \in Node
  PROVE  /\ IsFiniteSet(Contracts!Contracts(n))
         /\ \A c \in Contracts!Contracts(n) :
              c[1] = n /\ c[2] \in Nat /\ c = <<n, c[2]>> /\ Contracts!UpdateOf(c) \in Nat
<1> DEFINE D == DOMAIN created[n]
           f == [i \in D |-> <<n, i>>]
<1>1. created[n] \in Seq(Nat) /\ D = 1..Len(created[n]) /\ Len(created[n]) \in Nat
  BY DEF LedgerOK
<1>2. IsFiniteSet(D)
  <2>1. 1 \in Int /\ Len(created[n]) \in Int
    BY <1>1
  <2> QED
    BY <1>1, <2>1, FS_Interval
<1>3. Contracts!Contracts(n) = {<<n, i>> : i \in D}
  BY DEF Contracts!Contracts
<1>4. IsFiniteSet({<<n, i>> : i \in D})
  <2>1. f \in Surjection(D, {<<n, i>> : i \in D})
    BY Zenon DEF Surjection
  <2> QED
    BY <1>2, <2>1, FS_Surjection
<1>5. \A c \in Contracts!Contracts(n) : c[1] = n /\ c[2] \in D /\ c = <<n, c[2]>>
  BY <1>3
<1>6. \A i \in D : i \in Nat /\ created[n][i] \in Nat
  BY <1>1
<1>7. IsFiniteSet(Contracts!Contracts(n))
  BY <1>3, <1>4
<1> HIDE DEF D
<1> QED
  BY <1>5, <1>6, <1>7 DEF Contracts!UpdateOf

LEMMA Layout ==
  ASSUME LedgerOK
  PROVE  /\ Contracts!First \in Node /\ Mine \subseteq All
         /\ \A c \in Mine : c[2] \in Nat /\ c = <<Contracts!First, c[2]>>
         /\ \A c \in All : /\ c[1] \in Nat \ {0} /\ c[2] \in Nat /\ c = <<c[1], c[2]>>
                           /\ Contracts!UpdateOf(c) \in Nat
         /\ \A S \in SUBSET All : IsFiniteSet(S)
<1>1. Contracts!First \in Node
  <2>1. \E x \in Node : \A y \in Node : x <= y
    BY NodesAssumption, LeastIs
  <2> QED
    BY <2>1 DEF Contracts!First, Contracts!Min
<1>2. IsFiniteSet(All)
  <2> DEFINE f == [n \in Node |-> Contracts!Contracts(n)]
             F == {f[n] : n \in Node}
  <2>1. IsFiniteSet(F)
    <3>1. f \in Surjection(Node, F)
      BY Zenon DEF Surjection
    <3> QED
      BY <3>1, NodesAssumption, FS_Surjection
  <2>2. \A T \in F : IsFiniteSet(T)
    BY ContractsOf
  <2>3. IsFiniteSet(UNION F)
    BY <2>1, <2>2, FS_UNION
  <2>4. UNION F = All
    BY DEF All
  <2> QED
    BY <2>3, <2>4
<1>3. \A S \in SUBSET All : IsFiniteSet(S)
  BY <1>2, FS_Subset
<1>4. Mine \subseteq All
  BY <1>1 DEF All, Mine
<1>5. \A c \in Mine : c[2] \in Nat /\ c = <<Contracts!First, c[2]>>
  BY <1>1, ContractsOf DEF Mine
<1>6. \A c \in All : /\ c[1] \in Nat \ {0} /\ c[2] \in Nat /\ c = <<c[1], c[2]>>
                     /\ Contracts!UpdateOf(c) \in Nat
  <2> SUFFICES ASSUME NEW n \in Node, NEW c \in Contracts!Contracts(n)
               PROVE  /\ c[1] \in Nat \ {0} /\ c[2] \in Nat /\ c = <<c[1], c[2]>>
                      /\ Contracts!UpdateOf(c) \in Nat
    BY DEF All
  <2>1. c[1] = n /\ n \in Nat \ {0}
    BY ContractsOf, NodesAssumption
  <2> QED
    BY <2>1, ContractsOf
<1> QED
  BY <1>1, <1>3, <1>4, <1>5, <1>6

\* The three orders.
Newest == {p \in Mine \X Mine : Contracts!Later(p[1], p[2])}
Oldest == {p \in Mine \X Mine : Contracts!Earlier(p[1], p[2])}
Merged == {p \in All \X All : Contracts!Precedes(p[1], p[2])}

LEMMA OrdersAre ==
  ASSUME LedgerOK
  PROVE  Orders(Newest, Mine) /\ Orders(Oldest, Mine) /\ Orders(Merged, All)
<1>1. \A x, y \in Mine : /\ <<x, y>> \in Newest <=> x[2] > y[2]
                         /\ <<x, y>> \in Oldest <=> y[2] > x[2]
                         /\ x[2] \in Nat /\ (x[2] = y[2] => x = y)
  <2>1. \A x, y \in Mine : x[2] \in Nat /\ (x[2] = y[2] => x = y)
    BY Layout
  <2>2. \A x, y \in Mine : /\ <<x, y>> \in Newest <=> x[2] > y[2]
                           /\ <<x, y>> \in Oldest <=> y[2] > x[2]
    BY DEF Newest, Oldest, Contracts!Later, Contracts!Earlier
  <2> QED
    BY <2>1, <2>2
<1>2. Orders(Newest, Mine) /\ Orders(Oldest, Mine)
  <2>1. \A x \in Mine : <<x, x>> \notin Newest /\ <<x, x>> \notin Oldest
    BY <1>1
  <2>2. \A x, y, z \in Mine : /\ <<x, y>> \in Newest /\ <<y, z>> \in Newest => <<x, z>> \in Newest
                              /\ <<x, y>> \in Oldest /\ <<y, z>> \in Oldest => <<x, z>> \in Oldest
    <3> TAKE x, y, z \in Mine
    <3>1. x[2] \in Nat /\ y[2] \in Nat /\ z[2] \in Nat
      BY <1>1
    <3> QED
      BY <1>1, <3>1
  <2>3. \A x, y \in Mine : /\ x = y \/ <<x, y>> \in Newest \/ <<y, x>> \in Newest
                           /\ x = y \/ <<x, y>> \in Oldest \/ <<y, x>> \in Oldest
    <3> TAKE x, y \in Mine
    <3>1. x[2] \in Nat /\ y[2] \in Nat
      BY <1>1
    <3>2. x[2] > y[2] \/ y[2] > x[2] \/ x[2] = y[2]
      BY <3>1
    <3> QED
      BY <1>1, <3>2
  <2> QED
    BY <2>1, <2>2, <2>3, TotalOrders
<1>3. \A x, y \in All :
        /\ <<x, y>> \in Merged <=>
             \/ Contracts!UpdateOf(x) > Contracts!UpdateOf(y)
             \/ /\ Contracts!UpdateOf(x) = Contracts!UpdateOf(y)
                /\ x[1] < y[1] \/ (x[1] = y[1] /\ x[2] > y[2])
        /\ Contracts!UpdateOf(x) \in Nat /\ x[1] \in Nat /\ x[2] \in Nat
        /\ x[1] = y[1] /\ x[2] = y[2] => x = y
  <2>1. \A x, y \in All :
          <<x, y>> \in Merged <=>
             \/ Contracts!UpdateOf(x) > Contracts!UpdateOf(y)
             \/ /\ Contracts!UpdateOf(x) = Contracts!UpdateOf(y)
                /\ x[1] < y[1] \/ (x[1] = y[1] /\ x[2] > y[2])
    BY DEF Merged, Contracts!Precedes
  <2>2. \A x, y \in All :
          /\ Contracts!UpdateOf(x) \in Nat /\ x[1] \in Nat /\ x[2] \in Nat
          /\ x[1] = y[1] /\ x[2] = y[2] => x = y
    BY Layout
  <2> QED
    BY <2>1, <2>2
<1>4. Orders(Merged, All)
  <2>1. \A x \in All : <<x, x>> \notin Merged
    BY <1>3
  <2>2. \A x, y, z \in All : <<x, y>> \in Merged /\ <<y, z>> \in Merged => <<x, z>> \in Merged
    <3> TAKE x, y, z \in All
    <3>1. /\ x[1] \in Nat /\ y[1] \in Nat /\ z[1] \in Nat
          /\ x[2] \in Nat /\ y[2] \in Nat /\ z[2] \in Nat
          /\ Contracts!UpdateOf(x) \in Nat /\ Contracts!UpdateOf(y) \in Nat
          /\ Contracts!UpdateOf(z) \in Nat
      BY <1>3
    <3> QED
      BY <1>3, <3>1
  <2>3. \A x, y \in All : x = y \/ <<x, y>> \in Merged \/ <<y, x>> \in Merged
    <3> SUFFICES ASSUME NEW x \in All, NEW y \in All, <<x, y>> \notin Merged, <<y, x>> \notin Merged
                 PROVE  x = y
      OBVIOUS
    <3>1. /\ x[1] \in Nat /\ y[1] \in Nat /\ x[2] \in Nat /\ y[2] \in Nat
          /\ Contracts!UpdateOf(x) \in Nat /\ Contracts!UpdateOf(y) \in Nat
      BY <1>3
    <3>2. Contracts!UpdateOf(x) = Contracts!UpdateOf(y) /\ x[1] = y[1] /\ x[2] = y[2]
      BY <1>3, <3>1
    <3> QED
      BY <1>3, <3>2
  <2> QED
    BY <2>1, <2>2, <2>3, TotalOrders
<1> QED
  BY <1>2, <1>4

LEMMA OrdersOfPart ==
  ASSUME NEW S, NEW R, Orders(R, S), NEW B \in SUBSET S PROVE Orders(R, B)
BY DEF Orders

\* The rows of a page, and its first and last.
RowsOf(B, up) == IF up THEN Contracts!Top(B, Limit, Contracts!Earlier)
                        ELSE Contracts!Top(B, Limit, Contracts!Later)

LEMMA NodeCut ==
  ASSUME LedgerOK, NEW B \in SUBSET Mine, NEW up \in BOOLEAN
  PROVE  /\ RowsOf(B, up) \subseteq B
         /\ \A x \in B \ RowsOf(B, up), y \in RowsOf(B, up) :
              IF up THEN Contracts!Later(x, y) ELSE Contracts!Earlier(x, y)
         /\ Cardinality(B) <= Limit => RowsOf(B, up) = B
         /\ B # {} => RowsOf(B, up) # {}
<1> DEFINE R == IF up THEN Oldest ELSE Newest
           T == RowsOf(B, up)
<1>1. IsFiniteSet(B) /\ Orders(R, B)
  BY Layout, OrdersAre, OrdersOfPart
<1>2. \A x, y \in B : <<x, y>> \in R <=>
        IF up THEN Contracts!Earlier(x, y) ELSE Contracts!Later(x, y)
  BY DEF Newest, Oldest
<1>3. T = FirstOf(R, B, Limit)
  <2>1. \A x \in B : Before(R, B, x) =
          {y \in B : IF up THEN Contracts!Earlier(y, x) ELSE Contracts!Later(y, x)}
    BY <1>2 DEF Before
  <2>2. CASE up
    BY <2>1, <2>2, SameCardinality DEF Contracts!Top, FirstOf, RowsOf
  <2>3. CASE ~up
    BY <2>1, <2>3, SameCardinality DEF Contracts!Top, FirstOf, RowsOf
  <2> QED
    BY <2>2, <2>3
<1> HIDE DEF R, T
<1>4. /\ T \subseteq B
      /\ \A x \in B \ T, y \in T : <<y, x>> \in R
      /\ Cardinality(B) <= Limit => T = B
      /\ B # {} => T # {}
  <2>1. Limit \in Nat \ {0}
    BY LimitAssumption
  <2> QED
    BY <1>1, <1>3, <2>1, Cut
<1> QED
  BY <1>2, <1>4 DEF Contracts!Earlier, T

LEMMA NodeEnds ==
  ASSUME LedgerOK, NEW T \in SUBSET Mine, T # {}
  PROVE  /\ Contracts!Highest(T) \in T /\ \A x \in T : ~Contracts!Later(x, Contracts!Highest(T))
         /\ Contracts!Lowest(T) \in T /\ \A x \in T : ~Contracts!Earlier(x, Contracts!Lowest(T))
<1>1. IsFiniteSet(T) /\ Orders(Newest, T) /\ Orders(Oldest, T)
  BY Layout, OrdersAre, OrdersOfPart
<1>2. \E x \in T : \A y \in T : ~Contracts!Later(y, x)
  <2>1. PICK x \in T : \A y \in T : <<y, x>> \notin Newest
    BY <1>1, FirstOfAll
  <2> QED
    BY <2>1 DEF Newest
<1>3. \E x \in T : \A y \in T : ~Contracts!Earlier(y, x)
  <2>1. PICK x \in T : \A y \in T : <<y, x>> \notin Oldest
    BY <1>1, FirstOfAll
  <2> QED
    BY <2>1 DEF Oldest
<1> QED
  BY <1>2, <1>3 DEF Contracts!Highest, Contracts!Lowest

-----------------------------------------------------------------------------
\* A page of a node's contracts, and its cursors.
LEMMA ShownPage ==
  ASSUME LedgerOK, NEW from, NEW up \in BOOLEAN, Contracts!Show(from, up)
  PROVE  LET B == Contracts!Beyond(from, up)
         IN /\ B \subseteq Contracts!Matching /\ contractPage' \subseteq B
            /\ \/ CursorOf(up)' = Contracts!NoCursor /\ B \subseteq contractPage'
               \/ \E c \in contractPage' :
                    /\ CursorOf(up)' = Contracts!Key(c)
                    /\ \A x \in contractPage' : ~Further(up, x, c)
                    /\ \A x \in B \ contractPage' : Further(up, x, c)
            /\ \/ CursorOf(~up)' = Contracts!NoCursor
               \/ \E c \in contractPage' :
                    /\ CursorOf(~up)' = Contracts!Key(c)
                    /\ \A x \in contractPage' : ~Further(~up, x, c)
<1> DEFINE B == Contracts!Beyond(from, up)
           T == RowsOf(B, up)
           more == Contracts!Cardinality(B) > Limit
<1>1. B \subseteq Contracts!Matching /\ Contracts!Matching \subseteq Mine
  BY DEF Contracts!Beyond, Contracts!Matching, Mine
<1>2. /\ contractPage' = T
      /\ older' = IF T # {} /\ (up \/ more) THEN Contracts!Key(Contracts!Lowest(T))
                                            ELSE Contracts!NoCursor
      /\ contractNewer' = IF T # {} /\ (IF up THEN more ELSE from # Contracts!NoCursor)
                          THEN Contracts!Key(Contracts!Highest(T)) ELSE Contracts!NoCursor
  BY DEF Contracts!Show, RowsOf
<1>3. PICK P : P = T
  OBVIOUS
<1>4. /\ P \subseteq B
      /\ \A x \in B \ P, y \in P : IF up THEN Contracts!Later(x, y) ELSE Contracts!Earlier(x, y)
      /\ Cardinality(B) <= Limit => P = B
      /\ B # {} => P # {}
  <2>1. B \in SUBSET Mine
    BY <1>1
  <2> HIDE DEF B
  <2> QED
    BY <1>3, <2>1, NodeCut
<1>5. ~more => P = B
  <2>1. Cardinality(B) \in Nat
    BY <1>1, Layout, FS_CardinalityType
  <2> QED
    BY <1>4, <2>1, SameCardinality, LimitAssumption
<1> HIDE DEF more, T, B
<1>6. P # {} => /\ Contracts!Highest(P) \in P /\ \A x \in P : ~Contracts!Later(x, Contracts!Highest(P))
                /\ Contracts!Lowest(P) \in P /\ \A x \in P : ~Contracts!Earlier(x, Contracts!Lowest(P))
  BY <1>1, <1>4, NodeEnds
<1>7. contractPage' = P
  BY <1>2, <1>3
<1>8. CASE up
  <2>1. /\ CursorOf(up)' = IF P # {} /\ more THEN Contracts!Key(Contracts!Highest(P))
                                             ELSE Contracts!NoCursor
        /\ CursorOf(~up)' = IF P # {} THEN Contracts!Key(Contracts!Lowest(P)) ELSE Contracts!NoCursor
    BY <1>2, <1>3, <1>8 DEF CursorOf
  <2> QED
    BY <1>1, <1>4, <1>5, <1>6, <1>7, <1>8, <2>1 DEF B, Further
<1>9. CASE ~up
  <2>1. /\ CursorOf(up)' = IF P # {} /\ more THEN Contracts!Key(Contracts!Lowest(P))
                                             ELSE Contracts!NoCursor
        /\ CursorOf(~up)' = IF P # {} /\ from # Contracts!NoCursor
                            THEN Contracts!Key(Contracts!Highest(P)) ELSE Contracts!NoCursor
    BY <1>2, <1>3, <1>9 DEF CursorOf
  <2> QED
    BY <1>1, <1>4, <1>5, <1>6, <1>7, <1>9, <2>1 DEF B, Further
<1> QED
  BY <1>8, <1>9

\* The ledger is the same after a step, and with it what can be read.
LEMMA SameLedger ==
  ASSUME created' = created, archived' = archived, status' = status
  PROVE  /\ Mine' = Mine /\ All' = All /\ Contracts!Matching' = Contracts!Matching
         /\ \A c : Contracts!UpdateOf(c)' = Contracts!UpdateOf(c)
BY DEF Mine, All, Contracts!Contracts, Contracts!Matching, Contracts!UpdateOf

\* A page shown to one who has seen S, none of which lies beyond the page's rows.
LEMMA Onward ==
  ASSUME LedgerOK, NEW from, NEW up \in BOOLEAN, Contracts!Show(from, up),
         created' = created, archived' = archived, status' = status, Heading(up)',
         NEW S \in SUBSET Mine, shown' = S \cup contractPage',
         standing' \subseteq Contracts!Matching, standing' \ S \subseteq Contracts!Beyond(from, up),
         \A s \in S, b \in Contracts!Beyond(from, up) : ~Further(up, s, b)
  PROVE  NodeWalk'
<1>1. PICK B : B = Contracts!Beyond(from, up)
  OBVIOUS
<1>2. /\ B \subseteq Contracts!Matching /\ contractPage' \subseteq B
      /\ \/ CursorOf(up)' = Contracts!NoCursor /\ B \subseteq contractPage'
         \/ \E c \in contractPage' : /\ CursorOf(up)' = Contracts!Key(c)
                                     /\ \A x \in contractPage' : ~Further(up, x, c)
                                     /\ \A x \in B \ contractPage' : Further(up, x, c)
      /\ \/ CursorOf(~up)' = Contracts!NoCursor
         \/ \E c \in contractPage' : /\ CursorOf(~up)' = Contracts!Key(c)
                                     /\ \A x \in contractPage' : ~Further(~up, x, c)
  BY <1>1, ShownPage
<1>3. Contracts!Matching \subseteq Mine
  BY DEF Contracts!Matching, Mine
<1>4. contractPage' \subseteq Mine /\ shown' \subseteq Mine /\ standing' \subseteq Contracts!Matching'
  BY <1>2, <1>3, SameLedger
<1>5. ~Heading(~up)'
  BY DEF Heading
<1>6. \/ CursorOf(up)' = Contracts!NoCursor /\ (Heading(up)' => standing' \subseteq shown')
      \/ \E c \in Mine : /\ CursorOf(up)' = Contracts!Key(c)
                         /\ \A x \in contractPage' : ~Further(up, x, c)
                         /\ \A x \in shown' : ~Further(up, x, c)
                         /\ \A x \in standing' \ shown' : Further(up, x, c)
  BY <1>1, <1>2, <1>4
<1>7. \/ CursorOf(~up)' = Contracts!NoCursor
      \/ \E c \in Mine : /\ CursorOf(~up)' = Contracts!Key(c)
                         /\ \A x \in contractPage' : ~Further(~up, x, c)
  BY <1>2, <1>4
<1>8. \A u \in BOOLEAN :
        \/ CursorOf(u)' = Contracts!NoCursor /\ (Heading(u)' => standing' \subseteq shown')
        \/ \E c \in Mine :
             /\ CursorOf(u)' = Contracts!Key(c)
             /\ \A x \in contractPage' : ~Further(u, x, c)
             /\ Heading(u)' => /\ \A x \in shown' : ~Further(u, x, c)
                               /\ \A x \in standing' \ shown' : Further(u, x, c)
  <2> SUFFICES ASSUME NEW u \in BOOLEAN
               PROVE  \/ CursorOf(u)' = Contracts!NoCursor /\ (Heading(u)' => standing' \subseteq shown')
                      \/ \E c \in Mine :
                           /\ CursorOf(u)' = Contracts!Key(c)
                           /\ \A x \in contractPage' : ~Further(u, x, c)
                           /\ Heading(u)' => /\ \A x \in shown' : ~Further(u, x, c)
                                             /\ \A x \in standing' \ shown' : Further(u, x, c)
    OBVIOUS
  <2>1. CASE u = up
    BY <1>6, <2>1
  <2>2. CASE u = ~up
    BY <1>5, <1>7, <2>2
  <2> QED
    BY <2>1, <2>2
<1> QED
  BY <1>4, <1>8, SameLedger DEF NodeWalk

LEMMA OpenedKeeps == LedgerOK /\ Contracts!OpenNode => WalkInv'
<1> SUFFICES ASSUME LedgerOK, Contracts!OpenNode PROVE WalkInv'
  OBVIOUS
<1>1. PICK from \in {Contracts!NoCursor} \cup {Contracts!Offset(o) : o \in 1..clock}, up \in BOOLEAN :
        /\ Contracts!Show(from, up)
        /\ dir' = (IF up THEN "up" ELSE "down")
        /\ standing' = Contracts!Beyond(from, up) /\ shown' = contractPage' /\ again' = FALSE
  BY DEF Contracts!OpenNode
<1>2. reader = "node"
  BY DEF Contracts!OpenNode
<1>3. /\ reader' = reader /\ status' = status /\ created' = created /\ archived' = archived
      /\ clock' = clock /\ asked' = asked /\ open' = open
  BY DEF Contracts!OpenNode, Contracts!ledger, Contracts!request
<1>4. LedgerOK'
  BY <1>1, <1>2, <1>3 DEF LedgerOK
<1>5. NodeWalk'
  <2>1. Heading(up)'
    BY <1>1 DEF Heading
  <2>2. standing' \subseteq Contracts!Matching
    BY <1>1 DEF Contracts!Beyond
  <2>3. shown' = {} \cup contractPage' /\ standing' \ {} \subseteq Contracts!Beyond(from, up)
    BY <1>1
  <2>4. PICK S \in SUBSET Mine : S = {}
    OBVIOUS
  <2> QED
    BY <1>1, <1>3, <2>1, <2>2, <2>3, <2>4, Onward
<1> QED
  BY <1>2, <1>3, <1>4, <1>5 DEF WalkInv, PartyWalk

LEMMA TurnKeeps ==
  ASSUME WalkInv, NEW up \in BOOLEAN, Contracts!Turn(CursorOf(up), up)
  PROVE  WalkInv'
<1>1. PICK from : from = CursorOf(up)
  OBVIOUS
<1>2. PICK S : S = IF Heading(up) THEN shown ELSE contractPage
  OBVIOUS
<1>3. /\ reader = "node" /\ from # Contracts!NoCursor /\ Contracts!Show(from, up)
      /\ dir' = (IF up THEN "up" ELSE "down")
      /\ shown' = S \cup contractPage'
      /\ again' = ((Heading(up) /\ again) \/ S \cap contractPage' # {})
      /\ standing' = IF Heading(up) THEN standing
                     ELSE (contractPage \cap Contracts!Matching) \cup Contracts!Beyond(from, up)
      /\ reader' = reader /\ status' = status /\ created' = created /\ archived' = archived
      /\ clock' = clock /\ asked' = asked /\ open' = open
  BY <1>1, <1>2 DEF Contracts!Turn, Contracts!Walked, Contracts!ledger, Contracts!request, Heading
<1>4. LedgerOK
  BY DEF WalkInv
<1>5. PICK c \in Mine : /\ from = Contracts!Key(c)
                        /\ \A x \in contractPage : ~Further(up, x, c)
                        /\ Heading(up) => /\ \A x \in shown : ~Further(up, x, c)
                                          /\ \A x \in standing \ shown : Further(up, x, c)
  BY <1>1, <1>3 DEF WalkInv, NodeWalk
<1>6. contractPage \subseteq Mine /\ shown \subseteq Mine /\ standing \subseteq Contracts!Matching
  BY <1>3 DEF WalkInv, NodeWalk
<1>7. Contracts!Beyond(from, up) = {x \in Contracts!Matching : Further(up, x, c)}
  BY <1>5 DEF Contracts!Beyond, Contracts!Key, Further
<1>8. S \in SUBSET Mine /\ \A s \in S : ~Further(up, s, c)
  BY <1>2, <1>5, <1>6
<1>9. standing' \subseteq Contracts!Matching /\ standing' \ S \subseteq Contracts!Beyond(from, up)
  BY <1>2, <1>3, <1>5, <1>6, <1>7
<1>10. \A s \in S, b \in Contracts!Beyond(from, up) : ~Further(up, s, b)
  <2> SUFFICES ASSUME NEW s \in S, NEW b \in Contracts!Beyond(from, up), Further(up, s, b)
               PROVE  FALSE
    OBVIOUS
  <2>1. b \in Mine /\ Further(up, b, c)
    BY <1>7 DEF Contracts!Matching, Mine
  <2>2. s \in Mine /\ ~Further(up, s, c)
    BY <1>8
  <2>3. s[2] \in Nat /\ b[2] \in Nat /\ c[2] \in Nat
    BY <1>4, <2>1, <2>2, Layout
  <2> QED
    BY <2>1, <2>2, <2>3 DEF Further, Contracts!Later, Contracts!Earlier
<1>11. NodeWalk'
  <2>1. Heading(up)'
    BY <1>3 DEF Heading
  <2> QED
    BY <1>3, <1>4, <1>8, <1>9, <1>10, <2>1, Onward
<1>12. ~again'
  <2>1. contractPage' \subseteq Contracts!Beyond(from, up)
    BY <1>3, <1>4, ShownPage
  <2>2. S \cap contractPage' = {}
    BY <1>7, <1>8, <2>1
  <2> QED
    BY <1>3, <1>4, <2>2 DEF LedgerOK
<1>13. LedgerOK'
  BY <1>3, <1>4, <1>12 DEF LedgerOK
<1> QED
  BY <1>3, <1>11, <1>13 DEF WalkInv, PartyWalk

\* What is created comes to what is there.
LEMMA CreatedMore ==
  ASSUME LedgerOK, Contracts!Create
  PROVE  /\ LedgerOK' /\ Mine \subseteq Mine' /\ All \subseteq All'
         /\ \A c \in All : Contracts!UpdateOf(c)' = Contracts!UpdateOf(c)
         /\ Contracts!Matching \subseteq Contracts!Matching'
<1>1. /\ clock' = clock + 1 /\ archived' = archived /\ reader' = reader /\ status' = status
      /\ dir' = dir /\ again' = again /\ asked' = asked /\ open' = open
  BY DEF Contracts!Create, Contracts!walk, Contracts!request
<1>2. PICK n \in Node, k \in 1..2 : created' = [created EXCEPT ![n] = @ \o [i \in 1..k |-> clock']]
  BY DEF Contracts!Create
<1>3. PICK T : T = [i \in 1..k |-> clock']
  OBVIOUS
<1>4. T \in Seq(Nat) /\ Len(T) = k /\ k \in Nat
  <2>1. clock' \in Nat
    BY <1>1 DEF LedgerOK
  <2>2. k \in Nat
    OBVIOUS
  <2> QED
    BY <1>3, <2>1, <2>2
<1>5. created \in [Node -> Seq(Nat)] /\ created' = [created EXCEPT ![n] = @ \o T]
  BY <1>2, <1>3 DEF LedgerOK
<1>6. \A s \in Seq(Nat) : /\ s \o T \in Seq(Nat) /\ DOMAIN s \subseteq DOMAIN (s \o T)
                          /\ \A i \in DOMAIN s : (s \o T)[i] = s[i]
  BY <1>4
<1>7. /\ created' \in [Node -> Seq(Nat)]
      /\ \A m \in Node : /\ DOMAIN created[m] \subseteq DOMAIN created'[m]
                         /\ \A i \in DOMAIN created[m] : created'[m][i] = created[m][i]
  BY <1>5, <1>6
<1>8. LedgerOK'
  BY <1>1, <1>7 DEF LedgerOK
<1>9. \A m \in Node : Contracts!Contracts(m) \subseteq Contracts!Contracts(m)'
  BY <1>7 DEF Contracts!Contracts
<1>10. All \subseteq All' /\ Mine \subseteq Mine'
  <2>1. Contracts!First \in Node /\ Contracts!First' = Contracts!First
    BY Layout DEF Contracts!First
  <2> QED
    BY <1>9, <2>1 DEF All, Mine
<1>11. \A c \in All : Contracts!UpdateOf(c)' = Contracts!UpdateOf(c)
  <2> SUFFICES ASSUME NEW m \in Node, NEW c \in Contracts!Contracts(m)
               PROVE  created'[c[1]][c[2]] = created[c[1]][c[2]]
    BY DEF All, Contracts!UpdateOf
  <2>1. c[1] = m /\ c[2] \in DOMAIN created[m]
    BY DEF Contracts!Contracts
  <2> QED
    BY <1>7, <2>1
<1>12. Contracts!Matching \subseteq Contracts!Matching'
  BY <1>1, <1>10 DEF Contracts!Matching, Mine
<1> QED
  BY <1>8, <1>10, <1>11, <1>12

LEMMA CreateKeeps == WalkInv /\ Contracts!Create => WalkInv'
<1> SUFFICES ASSUME WalkInv, Contracts!Create PROVE WalkInv'
  OBVIOUS
<1>1. /\ LedgerOK' /\ Mine \subseteq Mine' /\ All \subseteq All'
      /\ \A c \in All : Contracts!UpdateOf(c)' = Contracts!UpdateOf(c)
      /\ Contracts!Matching \subseteq Contracts!Matching'
  BY CreatedMore DEF WalkInv
<1>2. /\ reader' = reader /\ contractPage' = contractPage /\ older' = older
      /\ contractNewer' = contractNewer /\ dir' = dir /\ standing' = standing /\ shown' = shown
      /\ asked' = asked /\ rows' = rows
  BY DEF Contracts!Create, Contracts!shows, Contracts!walk, Contracts!request
<1>3. \A u \in BOOLEAN : CursorOf(u)' = CursorOf(u) /\ Heading(u)' = Heading(u)
  BY <1>2 DEF CursorOf, Heading
<1>4. NodeWalk'
  <2> SUFFICES ASSUME reader = "node", NodeWalk PROVE NodeWalk'
    BY <1>2 DEF WalkInv, NodeWalk
  <2>1. contractPage' \subseteq Mine' /\ shown' \subseteq Mine' /\ standing' \subseteq Contracts!Matching'
    BY <1>1, <1>2 DEF NodeWalk
  <2>2. ASSUME NEW u \in BOOLEAN
        PROVE  \/ CursorOf(u)' = Contracts!NoCursor /\ (Heading(u)' => standing' \subseteq shown')
               \/ \E c \in Mine' :
                    /\ CursorOf(u)' = Contracts!Key(c)
                    /\ \A x \in contractPage' : ~Further(u, x, c)
                    /\ Heading(u)' => /\ \A x \in shown' : ~Further(u, x, c)
                                      /\ \A x \in standing' \ shown' : Further(u, x, c)
    BY <1>1, <1>2, <1>3 DEF NodeWalk
  <2> QED
    BY <2>1, <2>2 DEF NodeWalk
<1>5. PartyWalk'
  <2> SUFFICES ASSUME reader = "party", PartyWalk PROVE PartyWalk'
    BY <1>2 DEF WalkInv, PartyWalk
  <2>1. \A u \in BOOLEAN : \A x, c \in All : Follows(u, x, c)' <=> Follows(u, x, c)
    BY <1>1 DEF Follows, Contracts!Precedes
  <2>2. contractPage' \subseteq All' /\ shown' \subseteq All' /\ rows' \subseteq All'
    BY <1>1, <1>2 DEF PartyWalk
  <2>3. ASSUME NEW u \in BOOLEAN, CursorOf(u)' # Contracts!NoCursor
        PROVE  /\ CursorOf(u)'.at \in All'
               /\ \A x \in contractPage' : ~Follows(u, x, CursorOf(u).at)'
               /\ Heading(u)' => \A x \in shown' : ~Follows(u, x, CursorOf(u).at)'
    <3>1. PICK a : a = CursorOf(u).at
      OBVIOUS
    <3>2. /\ a \in All
          /\ \A x \in contractPage : ~Follows(u, x, a)
          /\ Heading(u) => \A x \in shown : ~Follows(u, x, a)
          /\ contractPage \subseteq All /\ shown \subseteq All
      BY <1>3, <2>3, <3>1 DEF PartyWalk
    <3>3. /\ \A x \in contractPage' : ~Follows(u, x, a)'
          /\ Heading(u)' => \A x \in shown' : ~Follows(u, x, a)'
      BY <1>2, <1>3, <2>1, <3>2
    <3>4. CursorOf(u)'.at = a
      BY <1>3, <3>1
    <3> QED
      BY <1>1, <3>2, <3>3, <3>4 DEF Follows
  <2>4. asked' # Contracts!NoCursor =>
          /\ asked'.up \in BOOLEAN
          /\ \/ asked'.at = Contracts!Nothing
             \/ CursorOf(asked.up)' # Contracts!NoCursor /\ asked'.at = CursorOf(asked.up)'.at
    <3>1. asked # Contracts!NoCursor =>
            /\ asked.up \in BOOLEAN
            /\ \/ asked.at = Contracts!Nothing
               \/ CursorOf(asked.up) # Contracts!NoCursor /\ asked.at = CursorOf(asked.up).at
      BY DEF PartyWalk
    <3>2. asked.up \in BOOLEAN => CursorOf(asked.up)' = CursorOf(asked.up)
      BY <1>2 DEF CursorOf
    <3> QED
      BY <1>2, <3>1, <3>2
  <2> QED
    BY <2>2, <2>3, <2>4 DEF PartyWalk
<1> QED
  BY <1>1, <1>4, <1>5 DEF WalkInv

LEMMA ArchiveKeeps == WalkInv /\ Contracts!Archive => WalkInv'
<1> SUFFICES ASSUME WalkInv, Contracts!Archive PROVE WalkInv'
  OBVIOUS
<1>1. PICK c \in Contracts!Contracts(Contracts!First) \ archived :
        /\ archived' = archived \cup {c}
        /\ standing' = IF status = "active" THEN standing \ {c} ELSE standing
  BY DEF Contracts!Archive
<1>2. /\ reader = "node" /\ reader' = reader /\ status' = status /\ created' = created
      /\ clock' = clock /\ contractPage' = contractPage /\ older' = older
      /\ contractNewer' = contractNewer /\ dir' = dir /\ shown' = shown /\ again' = again
      /\ asked' = asked /\ open' = open
  BY DEF Contracts!Archive, Contracts!shows, Contracts!request
<1>3. LedgerOK /\ NodeWalk
  BY DEF WalkInv
<1>4. LedgerOK'
  BY <1>2, <1>3 DEF LedgerOK
<1>5. Mine' = Mine
  BY <1>2 DEF Mine, Contracts!Contracts
<1>6. \A x \in Contracts!Matching : (x = c /\ status = "active") \/ x \in Contracts!Matching'
  BY <1>1, <1>2, <1>3 DEF Contracts!Matching, Contracts!Contracts, LedgerOK
<1>7. standing' \subseteq Contracts!Matching' /\ standing' \subseteq standing
  BY <1>1, <1>2, <1>3, <1>6 DEF NodeWalk
<1>8. \A u \in BOOLEAN : CursorOf(u)' = CursorOf(u) /\ Heading(u)' = Heading(u)
  BY <1>2 DEF CursorOf, Heading
<1>9. NodeWalk'
  BY <1>2, <1>3, <1>5, <1>7, <1>8 DEF NodeWalk
<1> QED
  BY <1>2, <1>4, <1>9 DEF WalkInv, PartyWalk

\* The walk of a party, where neither ledger nor page changes.
LEMMA RequestKeeps ==
  ASSUME WalkInv, reader = "party",
         UNCHANGED <<reader, status, Contracts!ledger, Contracts!shows, Contracts!walk>>,
         rows' \subseteq All, open' \subseteq Node,
         asked' = Contracts!NoCursor \/
           /\ asked'.up \in BOOLEAN
           /\ \/ asked'.at = Contracts!Nothing
              \/ CursorOf(asked'.up) # Contracts!NoCursor /\ asked'.at = CursorOf(asked'.up).at
  PROVE  WalkInv'
<1>1. /\ reader' = reader /\ status' = status /\ created' = created /\ archived' = archived
      /\ clock' = clock /\ contractPage' = contractPage /\ older' = older
      /\ contractNewer' = contractNewer /\ dir' = dir /\ standing' = standing
      /\ shown' = shown /\ again' = again
  BY DEF Contracts!ledger, Contracts!shows, Contracts!walk
<1>2. All' = All
  BY <1>1, SameLedger
<1>3. \A u \in BOOLEAN : CursorOf(u)' = CursorOf(u) /\ Heading(u)' = Heading(u)
  BY <1>1 DEF CursorOf, Heading
<1>4. \A u \in BOOLEAN : \A x, c : Follows(u, x, c)' <=> Follows(u, x, c)
  BY <1>1 DEF Follows, Contracts!Precedes, Contracts!UpdateOf
<1>5. LedgerOK'
  BY <1>1 DEF WalkInv, LedgerOK
<1>6. PartyWalk'
  <2>1. PartyWalk
    BY DEF WalkInv
  <2>2. ASSUME NEW u \in BOOLEAN, CursorOf(u)' # Contracts!NoCursor
        PROVE  /\ CursorOf(u)'.at \in All'
               /\ \A x \in contractPage' : ~Follows(u, x, CursorOf(u).at)'
               /\ Heading(u)' => \A x \in shown' : ~Follows(u, x, CursorOf(u).at)'
    <3>1. PICK a : a = CursorOf(u).at
      OBVIOUS
    <3>2. /\ a \in All
          /\ \A x \in contractPage : ~Follows(u, x, a)
          /\ Heading(u) => \A x \in shown : ~Follows(u, x, a)
      BY <1>3, <2>1, <2>2, <3>1 DEF PartyWalk
    <3>3. /\ \A x \in contractPage' : ~Follows(u, x, a)'
          /\ Heading(u)' => \A x \in shown' : ~Follows(u, x, a)'
      BY <1>1, <1>3, <1>4, <3>2
    <3>4. CursorOf(u)'.at = a
      BY <1>3, <3>1
    <3> QED
      BY <1>2, <3>2, <3>3, <3>4 DEF Follows
  <2>3. contractPage' \subseteq All' /\ shown' \subseteq All' /\ rows' \subseteq All'
    BY <1>1, <1>2, <2>1 DEF PartyWalk
  <2>4. asked' # Contracts!NoCursor =>
          /\ asked'.up \in BOOLEAN
          /\ \/ asked'.at = Contracts!Nothing
             \/ CursorOf(asked.up)' # Contracts!NoCursor /\ asked'.at = CursorOf(asked.up)'.at
    <3>1. PICK k : k = asked'.up
      OBVIOUS
    <3>2. k \in BOOLEAN => CursorOf(asked.up)' = CursorOf(k)
      BY <1>1, <3>1 DEF CursorOf
    <3> QED
      BY <3>1, <3>2
  <2> QED
    BY <2>2, <2>3, <2>4 DEF PartyWalk
<1> QED
  BY <1>1, <1>5, <1>6 DEF WalkInv, NodeWalk

LEMMA AskKeeps ==
  WalkInv /\ (Contracts!OpenParty \/ Contracts!PartyOlder \/ Contracts!PartyNewer) => WalkInv'
<1> SUFFICES ASSUME WalkInv, Contracts!OpenParty \/ Contracts!PartyOlder \/ Contracts!PartyNewer
             PROVE  WalkInv'
  OBVIOUS
<1>1. PICK at, up :
        /\ up \in BOOLEAN /\ Contracts!Ask(at, up)
        /\ at = Contracts!Nothing \/ (CursorOf(up) # Contracts!NoCursor /\ at = CursorOf(up).at)
  <2>1. CASE Contracts!OpenParty
    <3>1. Contracts!Ask(Contracts!Nothing, FALSE)
      BY <2>1, Zenon DEF Contracts!OpenParty
    <3> QED
      BY <3>1
  <2>2. CASE Contracts!PartyOlder
    <3>1. Contracts!Ask(older.at, FALSE) /\ older # Contracts!NoCursor
      BY <2>2, Zenon DEF Contracts!PartyOlder
    <3>2. CursorOf(FALSE) = older
      BY DEF CursorOf
    <3> QED
      BY <3>1, <3>2
  <2>3. CASE Contracts!PartyNewer
    <3>1. Contracts!Ask(contractNewer.at, TRUE) /\ contractNewer # Contracts!NoCursor
      BY <2>3, Zenon DEF Contracts!PartyNewer
    <3>2. CursorOf(TRUE) = contractNewer
      BY DEF CursorOf
    <3> QED
      BY <3>1, <3>2
  <2> QED
    BY <2>1, <2>2, <2>3
<1>2. /\ reader = "party" /\ asked' = [kind |-> "page", at |-> at, up |-> up] /\ rows' = {}
      /\ open' = Node
      /\ UNCHANGED <<reader, status, Contracts!ledger, Contracts!shows, Contracts!walk>>
  BY <1>1 DEF Contracts!Ask
<1>3. asked'.up = up /\ asked'.at = at
  BY <1>2
<1>4. /\ asked'.up \in BOOLEAN
      /\ \/ asked'.at = Contracts!Nothing
         \/ CursorOf(asked'.up) # Contracts!NoCursor /\ asked'.at = CursorOf(asked'.up).at
  BY <1>1, <1>3
<1> QED
  BY <1>2, <1>4, RequestKeeps

LEMMA RoundKeeps == WalkInv /\ (Contracts!Round \/ Contracts!RoundFails) => WalkInv'
<1> SUFFICES ASSUME WalkInv, Contracts!Round \/ Contracts!RoundFails PROVE WalkInv'
  OBVIOUS
<1>1. reader = "party" /\ UNCHANGED <<reader, status, Contracts!ledger, Contracts!shows, Contracts!walk>>
  BY DEF Contracts!Round, Contracts!RoundFails
<1>2. PartyWalk
  BY DEF WalkInv
<1>3. CASE Contracts!Round
  <2>1. asked' = asked
    BY <1>3 DEF Contracts!Round
  <2>2. PICK ok, R :
          /\ ok \subseteq open
          /\ \A n \in ok : R[n] \in Contracts!Answers(n)
          /\ rows' = rows \cup UNION {R[n] : n \in ok}
          /\ open' = {n \in ok : Contracts!More(n)}
    BY <1>3 DEF Contracts!Round
  <2>3. ok \subseteq Node /\ open' \subseteq Node
    BY <2>2 DEF WalkInv, LedgerOK
  <2>4. \A n \in ok : R[n] \subseteq Contracts!Contracts(n)
    BY <2>2 DEF Contracts!Answers, Contracts!Left
  <2>5. rows' \subseteq All
    BY <1>1, <1>2, <2>2, <2>3, <2>4 DEF PartyWalk, All
  <2>6. asked' # Contracts!NoCursor =>
          /\ asked'.up \in BOOLEAN
          /\ \/ asked'.at = Contracts!Nothing
             \/ CursorOf(asked'.up) # Contracts!NoCursor /\ asked'.at = CursorOf(asked'.up).at
    BY <1>1, <1>2, <2>1 DEF PartyWalk
  <2> QED
    BY <1>1, <2>3, <2>5, <2>6, RequestKeeps
<1>4. CASE Contracts!RoundFails
  <2>1. asked' = Contracts!NoCursor /\ rows' = {} /\ open' = {}
    BY <1>4 DEF Contracts!RoundFails
  <2> QED
    BY <1>1, <2>1, RequestKeeps
<1> QED
  BY <1>3, <1>4

\* The rows a party is answered: the first of those read, with the first and the last of them.
LEMMA AnswerEnds ==
  ASSUME LedgerOK, NEW F \in SUBSET All, NEW T \in SUBSET F, T # {}
  PROVE  /\ \E c \in T : \A d \in T : ~Contracts!Precedes(c, d)
         /\ \E c \in T : \A d \in T : ~Contracts!Precedes(d, c)
<1> DEFINE Back == {p \in All \X All : Contracts!Precedes(p[2], p[1])}
<1>1. IsFiniteSet(T) /\ Orders(Merged, T)
  BY Layout, OrdersAre, OrdersOfPart
<1>2. \A x, y \in T : /\ <<x, y>> \in Back <=> Contracts!Precedes(y, x)
                      /\ <<x, y>> \in Merged <=> Contracts!Precedes(x, y)
  BY DEF Merged
<1>3. Orders(Back, T)
  <2> HIDE DEF Back
  <2> QED
    BY <1>1, <1>2 DEF Orders
<1> HIDE DEF Back
<1>4. PICK c \in T : \A d \in T : <<d, c>> \notin Back
  BY <1>1, <1>3, FirstOfAll
<1>5. PICK e \in T : \A d \in T : <<d, e>> \notin Merged
  BY <1>1, FirstOfAll
<1> QED
  BY <1>2, <1>4, <1>5

LEMMA AnswerKeeps == WalkInv /\ Contracts!PartyAnswer => WalkInv'
<1> SUFFICES ASSUME WalkInv, Contracts!PartyAnswer PROVE WalkInv'
  OBVIOUS
<1> DEFINE At(c) == [kind |-> "page", at |-> c]
           more == Contracts!Cardinality(Contracts!Filtered(rows)) > Limit
<1>1. LedgerOK /\ PartyWalk /\ reader = "party" /\ asked # Contracts!NoCursor
  BY DEF WalkInv, LedgerOK, Contracts!PartyAnswer
<1>2. /\ reader' = reader /\ status' = status /\ created' = created /\ archived' = archived
      /\ clock' = clock /\ asked' = Contracts!NoCursor /\ open' = {} /\ rows' = {}
  BY DEF Contracts!PartyAnswer, Contracts!ledger
<1>3. PICK T : T = Contracts!Top(Contracts!Filtered(rows), Limit, Contracts!Precedes)
  OBVIOUS
<1>4. /\ contractPage' = T
      /\ older' = IF T # {} /\ (asked.up \/ more)
                  THEN At(CHOOSE c \in T : \A d \in T : ~Contracts!Precedes(c, d))
                  ELSE Contracts!NoCursor
      /\ contractNewer' = IF T # {} /\ (IF asked.up THEN more ELSE asked.at # Contracts!Nothing)
                          THEN At(CHOOSE c \in T : \A d \in T : ~Contracts!Precedes(d, c))
                          ELSE Contracts!NoCursor
  BY <1>3 DEF Contracts!PartyAnswer
<1>5. PICK up : up = asked.up
  OBVIOUS
<1>6. up \in BOOLEAN /\ Contracts!Filtered(rows) \subseteq All
  BY <1>1, <1>5 DEF PartyWalk, Contracts!Filtered
<1>7. T \subseteq Contracts!Filtered(rows)
  BY <1>3 DEF Contracts!Top
<1>8. T \subseteq All
  BY <1>6, <1>7
<1>9. T # {} => /\ \E c \in T : \A d \in T : ~Contracts!Precedes(c, d)
                /\ \E c \in T : \A d \in T : ~Contracts!Precedes(d, c)
  BY <1>1, <1>6, <1>7, AnswerEnds
<1> HIDE DEF more
\* Cursors are of rows the page does not go past.
<1>10. \A u \in BOOLEAN :
         \/ CursorOf(u)' = Contracts!NoCursor
         \/ \E c \in T : CursorOf(u)' = At(c) /\ \A x \in T : ~Follows(u, x, c)
  <2>1. \/ older' = Contracts!NoCursor
        \/ \E c \in T : older' = At(c) /\ \A x \in T : ~Contracts!Precedes(c, x)
    BY <1>4, <1>9
  <2>2. \/ contractNewer' = Contracts!NoCursor
        \/ \E c \in T : contractNewer' = At(c) /\ \A x \in T : ~Contracts!Precedes(x, c)
    BY <1>4, <1>9
  <2> HIDE DEF At
  <2> QED
    BY <2>1, <2>2 DEF CursorOf, Follows
\* What was seen of the walk does not go past them either.
<1>11. PICK S : S = IF asked.at = Contracts!Nothing THEN {} ELSE
                    IF Heading(up) THEN shown ELSE contractPage
  OBVIOUS
<1>12. /\ dir' = (IF asked.at # Contracts!Nothing /\ up THEN "up" ELSE "down")
       /\ shown' = S \cup T
       /\ S \cap T = {} => ~again'
  BY <1>1, <1>4, <1>5, <1>11 DEF Contracts!PartyAnswer, Contracts!Walked, Heading, LedgerOK
<1>13. S \subseteq All /\ \A s \in S, x \in T : ~Follows(up, s, x) /\ s # x
  <2>1. CASE asked.at = Contracts!Nothing
    BY <1>11, <2>1
  <2>2. CASE asked.at # Contracts!Nothing
    <3>1. PICK a : a = asked.at
      OBVIOUS
    <3>2. CursorOf(up) # Contracts!NoCursor /\ a = CursorOf(up).at
      BY <1>1, <1>5, <2>2, <3>1 DEF PartyWalk
    <3>3. a \in All /\ S \subseteq All /\ \A s \in S : ~Follows(up, s, a)
      BY <1>1, <1>6, <1>11, <2>2, <3>2 DEF PartyWalk
    <3>4. \A x \in T : Follows(up, x, a)
      BY <1>5, <1>7, <2>2, <3>1 DEF Contracts!Filtered, Contracts!Passes, Follows
    <3>5. \A x, y, z \in All : Follows(up, x, y) /\ Follows(up, y, z) => Follows(up, x, z)
      <4>1. \A x, y, z \in All :
              Contracts!Precedes(x, y) /\ Contracts!Precedes(y, z) => Contracts!Precedes(x, z)
        BY <1>1, OrdersAre DEF Orders, Merged
      <4> QED
        BY <4>1 DEF Follows
    <3> QED
      BY <1>8, <3>3, <3>4, <3>5
  <2> QED
    BY <2>1, <2>2
<1>14. LedgerOK'
  BY <1>1, <1>2, <1>12, <1>13 DEF LedgerOK
<1>15. PartyWalk'
  <2>1. \A u \in BOOLEAN : \A x, c : Follows(u, x, c)' <=> Follows(u, x, c)
    BY <1>2 DEF Follows, Contracts!Precedes, Contracts!UpdateOf
  <2>2. All' = All
    BY <1>2, SameLedger
  <2>3. contractPage' \subseteq All' /\ shown' \subseteq All' /\ rows' \subseteq All'
    BY <1>2, <1>4, <1>8, <1>12, <1>13, <2>2
  <2>4. ASSUME NEW u \in BOOLEAN, CursorOf(u)' # Contracts!NoCursor
        PROVE  /\ CursorOf(u)'.at \in All'
               /\ \A x \in contractPage' : ~Follows(u, x, CursorOf(u).at)'
               /\ Heading(u)' => \A x \in shown' : ~Follows(u, x, CursorOf(u).at)'
    <3>1. PICK c \in T : CursorOf(u)' = At(c) /\ \A x \in T : ~Follows(u, x, c)
      BY <1>10, <2>4
    <3>2. CursorOf(u)'.at = c
      BY <3>1
    <3>3. \A x \in contractPage' : ~Follows(u, x, c)'
      BY <1>4, <2>1, <3>1
    <3>4. Heading(u)' => \A x \in shown' : ~Follows(u, x, c)'
      <4>1. ASSUME Heading(u)' PROVE S = {} \/ u = up
        BY <1>6, <1>11, <1>12, <4>1 DEF Heading
      <4> QED
        BY <1>12, <1>13, <2>1, <3>1, <4>1
    <3> QED
      BY <1>8, <2>2, <3>2, <3>3, <3>4 DEF Follows
  <2> QED
    BY <1>2, <2>3, <2>4 DEF PartyWalk
<1> QED
  BY <1>1, <1>2, <1>14, <1>15 DEF WalkInv, NodeWalk

LEMMA ContractsStep == WalkInv /\ [Contracts!Next]_(Contracts!vars) => WalkInv'
<1> SUFFICES ASSUME WalkInv, [Contracts!Next]_(Contracts!vars) PROVE WalkInv'
  OBVIOUS
<1>1. CASE Contracts!OpenNode
  BY <1>1, OpenedKeeps DEF WalkInv
<1>2. CASE Contracts!NodeOlder
  <2>1. Contracts!Turn(CursorOf(FALSE), FALSE)
    BY <1>2 DEF Contracts!NodeOlder, CursorOf
  <2> QED
    BY <2>1, TurnKeeps
<1>3. CASE Contracts!NodeNewer
  <2>1. Contracts!Turn(CursorOf(TRUE), TRUE)
    BY <1>3 DEF Contracts!NodeNewer, CursorOf
  <2> QED
    BY <2>1, TurnKeeps
<1>4. CASE Contracts!OpenParty \/ Contracts!PartyOlder \/ Contracts!PartyNewer
  BY <1>4, AskKeeps
<1>5. CASE Contracts!Round \/ Contracts!RoundFails
  BY <1>5, RoundKeeps
<1>6. CASE Contracts!PartyAnswer
  BY <1>6, AnswerKeeps
<1>7. CASE Contracts!Create
  BY <1>7, CreateKeeps
<1>8. CASE Contracts!Archive
  BY <1>8, ArchiveKeeps
<1>9. CASE UNCHANGED Contracts!vars
  <2>1. /\ reader' = reader /\ status' = status /\ created' = created /\ archived' = archived
        /\ clock' = clock /\ contractPage' = contractPage /\ older' = older
        /\ contractNewer' = contractNewer /\ dir' = dir /\ standing' = standing
        /\ shown' = shown /\ again' = again /\ asked' = asked /\ open' = open /\ rows' = rows
    BY <1>9 DEF Contracts!vars, Contracts!ledger, Contracts!shows, Contracts!walk, Contracts!request
  <2> QED
    BY <2>1 DEF WalkInv, LedgerOK, NodeWalk, PartyWalk, Mine, All, CursorOf, Heading, Further, Follows,
                Contracts!Matching, Contracts!Contracts, Contracts!UpdateOf, Contracts!Precedes
<1> QED
  BY <1>1, <1>2, <1>3, <1>4, <1>5, <1>6, <1>7, <1>8, <1>9 DEF Contracts!Next

LEMMA ContractsInit == Contracts!Init => WalkInv
<1> SUFFICES ASSUME Contracts!Init PROVE WalkInv
  OBVIOUS
<1>1. \A u : CursorOf(u) = Contracts!NoCursor
  BY DEF Contracts!Init, CursorOf
<1> QED
  BY <1>1 DEF Contracts!Init, WalkInv, LedgerOK, NodeWalk, PartyWalk

\* No walk through the pages of contracts shows one twice, and a walk over one node that comes
\* to the end, in either direction, has shown every contract that stood since its first page
\* (fetchNodeContracts, fetchPartyContracts), whatever is created and archived meanwhile.
THEOREM ContractWalks == Contracts!Spec => []Contracts!WalkIsComplete
<1>1. WalkInv => Contracts!WalkIsComplete
  <2> SUFFICES ASSUME WalkInv PROVE Contracts!WalkIsComplete
    OBVIOUS
  <2>1. ASSUME reader = "node", NEW u \in BOOLEAN, Heading(u), CursorOf(u) = Contracts!NoCursor
        PROVE  standing \subseteq shown
    BY <2>1 DEF WalkInv, NodeWalk, Contracts!NoCursor, Contracts!Key
  <2>2. Heading(dir # "down")
    BY DEF Heading, WalkInv, LedgerOK
  <2> QED
    BY <2>1, <2>2 DEF Contracts!WalkIsComplete, WalkInv, LedgerOK, CursorOf
<1> QED
  BY <1>1, ContractsInit, ContractsStep, PTL DEF Contracts!Spec

-----------------------------------------------------------------------------
(* Folds (FiniteSetsExt): the function that a fold is defined by exists.   *)

\* What G makes of the elements of a set, taken one by one as pick says.
Picks(pick, S) == \A T \in SUBSET S : T # {} => pick[T] \in T
Folds(f, S, base, G, pick) ==
  \A T \in SUBSET S : f[T] = IF T = {} THEN base ELSE G[pick[T]][f[T \ {pick[T]}]]

LEMMA FoldExists ==
  ASSUME NEW S, IsFiniteSet(S), NEW Acc, NEW base \in Acc, NEW G \in [S -> [Acc -> Acc]],
         NEW pick, Picks(pick, S)
  PROVE  \E f \in [SUBSET S -> Acc] : Folds(f, S, base, G, pick)
<1> DEFINE Small(n) == {T \in SUBSET S : Cardinality(T) <= n}
           Step(f, T) == IF T = {} THEN base ELSE G[pick[T]][f[T \ {pick[T]}]]
           Upto(n) == \E f \in [Small(n) -> Acc] : \A T \in Small(n) : f[T] = Step(f, T)
           bad == {n \in Nat : ~Upto(n)}
<1>1. \A T \in SUBSET S : IsFiniteSet(T) /\ Cardinality(T) \in Nat /\ Cardinality(T) <= Cardinality(S)
  BY FS_Subset, FS_CardinalityType
<1>2. \A T \in SUBSET S : T # {} =>
        /\ T \ {pick[T]} \in SUBSET S /\ pick[T] \in S
        /\ Cardinality(T \ {pick[T]}) = Cardinality(T) - 1
  <2> SUFFICES ASSUME NEW T \in SUBSET S, T # {}
               PROVE  /\ T \ {pick[T]} \in SUBSET S /\ pick[T] \in S
                      /\ Cardinality(T \ {pick[T]}) = Cardinality(T) - 1
    OBVIOUS
  <2>1. pick[T] \in T
    BY DEF Picks
  <2>2. Cardinality(T \ {pick[T]}) = Cardinality(T) - 1
    <3>1. IsFiniteSet(T)
      BY <1>1
    <3> QED
      BY <2>1, <3>1, FS_RemoveElement
  <2> QED
    BY <2>1, <2>2
<1>3. Upto(0)
  <2>1. \A T \in Small(0) : T = {}
    BY <1>1, FS_EmptySet
  <2>2. [T \in Small(0) |-> base] \in [Small(0) -> Acc]
    OBVIOUS
  <2> HIDE DEF Small
  <2> QED
    BY <2>1, <2>2
<1>4. ASSUME NEW m \in Nat, Upto(m) PROVE Upto(m + 1)
  <2>1. PICK f \in [Small(m) -> Acc] : \A T \in Small(m) : f[T] = Step(f, T)
    BY <1>4
  <2> DEFINE g == [T \in Small(m + 1) |-> Step(f, T)]
  <2>2. \A T \in Small(m + 1) : T # {} => T \ {pick[T]} \in Small(m) /\ pick[T] \in S
    BY <1>1, <1>2
  <2>3. \A T \in Small(m) : T \in Small(m + 1) /\ g[T] = f[T]
    <3>1. \A T \in Small(m) : T \in Small(m + 1)
      BY <1>1
    <3> HIDE DEF Small, Step
    <3> QED
      BY <2>1, <3>1
  <2> HIDE DEF Small
  <2>4. g \in [Small(m + 1) -> Acc]
    <3> SUFFICES ASSUME NEW T \in Small(m + 1) PROVE Step(f, T) \in Acc
      OBVIOUS
    <3> QED
      BY <2>2
  <2>5. \A T \in Small(m + 1) : g[T] = Step(g, T)
    <3> SUFFICES ASSUME NEW T \in Small(m + 1) PROVE Step(f, T) = Step(g, T)
      OBVIOUS
    <3> HIDE DEF g
    <3> QED
      BY <2>2, <2>3
  <2> HIDE DEF g, Step
  <2> QED
    BY <2>4, <2>5
<1>5. \A n \in Nat : Upto(n)
  <2> SUFFICES ASSUME bad # {} PROVE FALSE
    OBVIOUS
  <2>1. bad \in SUBSET Nat
    OBVIOUS
  <2>2. PICK n \in bad : \A k \in bad : n <= k
    BY <2>1, LeastIs
  <2> HIDE DEF Upto
  <2>3. n # 0 /\ n \in Nat
    BY <1>3, <2>2
  <2>4. n - 1 \in Nat /\ n - 1 \notin bad /\ (n - 1) + 1 = n
    BY <2>2, <2>3
  <2> QED
    BY <1>4, <2>2, <2>4
<1>6. Small(Cardinality(S)) = SUBSET S
  BY <1>1
<1>7. Cardinality(S) \in Nat
  BY <1>1
<1>8. PICK f \in [Small(Cardinality(S)) -> Acc] : \A T \in Small(Cardinality(S)) : f[T] = Step(f, T)
  BY <1>5, <1>7
<1> HIDE DEF Small
<1> QED
  BY <1>6, <1>8 DEF Folds

\* What holds of a set if it holds of the set without any of its elements holds of every finite set.
LEMMA BySmaller ==
  ASSUME NEW S, IsFiniteSet(S), NEW Good,
         \A T \in SUBSET S : (\A x \in T : T \ {x} \in Good) => T \in Good
  PROVE  \A T \in SUBSET S : T \in Good
<1> DEFINE bad == {Cardinality(T) : T \in {T \in SUBSET S : T \notin Good}}
<1> SUFFICES ASSUME NEW R \in SUBSET S, R \notin Good PROVE FALSE
  OBVIOUS
<1>1. \A T \in SUBSET S : IsFiniteSet(T) /\ Cardinality(T) \in Nat
  BY FS_Subset, FS_CardinalityType
<1>2. bad \in SUBSET Nat /\ bad # {}
  BY <1>1
<1>3. PICK n \in bad : \A k \in bad : n <= k
  BY <1>2, LeastIs
<1>4. PICK T \in SUBSET S : T \notin Good /\ n = Cardinality(T)
  BY <1>3
<1>5. PICK x \in T : T \ {x} \notin Good
  BY <1>4
<1>6. Cardinality(T \ {x}) = n - 1 /\ n \in Nat
  BY <1>1, <1>4, FS_RemoveElement
<1>7. T \ {x} \in SUBSET S
  OBVIOUS
<1>8. Cardinality(T \ {x}) \in bad
  BY <1>5, <1>7
<1> HIDE DEF bad
<1>9. n <= Cardinality(T \ {x})
  BY <1>3, <1>8
<1> QED
  BY <1>6, <1>9

\* A fold is unique.
FoldOf(f, S, Acc, base, G, pick) ==
  /\ base \in Acc /\ G \in [S -> [Acc -> Acc]] /\ Picks(pick, S)
  /\ f \in [SUBSET S -> Acc] /\ Folds(f, S, base, G, pick)
FoldsIn(F, S, Acc, base, G, pick) ==
  /\ F[{}] = base
  /\ \A T \in SUBSET S :
       (T # {} /\ F[T \ {pick[T]}] \in Acc) => F[T] = G[pick[T]][F[T \ {pick[T]}]]

LEMMA FoldAgrees ==
  ASSUME NEW S, IsFiniteSet(S), NEW Acc, NEW base, NEW G, NEW pick, NEW f, NEW F,
         FoldOf(f, S, Acc, base, G, pick), FoldsIn(F, S, Acc, base, G, pick)
  PROVE  \A T \in SUBSET S : F[T] = f[T]
<1> DEFINE Good == {T \in SUBSET S : F[T] = f[T]}
<1>1. \A T \in SUBSET S : (\A x \in T : T \ {x} \in Good) => T \in Good
  <2> SUFFICES ASSUME NEW T \in SUBSET S, \A x \in T : T \ {x} \in Good PROVE F[T] = f[T]
    OBVIOUS
  <2>1. CASE T = {}
    BY <2>1 DEF FoldOf, Folds, FoldsIn
  <2>2. CASE T # {}
    <3>1. T \ {pick[T]} \in SUBSET S /\ F[T \ {pick[T]}] = f[T \ {pick[T]}]
      BY <2>2 DEF FoldOf, Picks
    <3>2. f[T] = G[pick[T]][f[T \ {pick[T]}]]
      BY <2>2 DEF FoldOf, Folds
    <3>3. F[T \ {pick[T]}] \in Acc
      BY <3>1 DEF FoldOf
    <3> QED
      BY <2>2, <3>1, <3>2, <3>3 DEF FoldsIn
  <2> QED
    BY <2>1, <2>2
<1> HIDE DEF Good
<1>2. \A T \in SUBSET S : T \in Good
  BY <1>1, BySmaller
<1> QED
  BY <1>2 DEF Good

-----------------------------------------------------------------------------
(* Sums of amounts.                                                        *)

Any(S) == CHOOSE x \in S : TRUE
Sums(S) == CHOOSE f : f = [T \in SUBSET S |->
                             IF T = {} THEN 0 ELSE Any(T).amount + f[T \ {Any(T)}]]

LEMMA TotalIs ==
  ASSUME NEW S PROVE Tokens!MapThenSumSet(LAMBDA h : h.amount, S) = Sums(S)[S]
BY Zenon DEF Tokens!MapThenSumSet, Tokens!MapThenFoldSet, Sums, Any

LEMMA SumsAdd ==
  ASSUME NEW S, IsFiniteSet(S), \A h \in S : h.amount \in Int
  PROVE  /\ \A T \in SUBSET S : Sums(S)[T] \in Int
         /\ Sums(S)[{}] = 0
         /\ \A T \in SUBSET S : \A x \in S \ T : Sums(S)[T \cup {x}] = x.amount + Sums(S)[T]
<1> DEFINE pick == [T \in SUBSET S |-> Any(T)]
           G == [x \in S |-> [a \in Int |-> x.amount + a]]
           Of(f) == [T \in SUBSET S |-> IF T = {} THEN 0 ELSE Any(T).amount + f[T \ {Any(T)}]]
<1>1. \A T \in SUBSET S : T # {} => Any(T) \in T /\ pick[T] = Any(T) /\ pick[T] \in T
  BY DEF Any
<1>2. PICK Z : Z = Int /\ G \in [S -> [Z -> Z]] /\ 0 \in Z
  OBVIOUS
<1>3. PICK f \in [SUBSET S -> Int] : Folds(f, S, 0, G, pick)
  <2>1. Picks(pick, S)
    BY <1>1 DEF Picks
  <2> HIDE DEF G, pick
  <2>2. PICK f \in [SUBSET S -> Z] : Folds(f, S, 0, G, pick)
    BY <1>2, <2>1, FoldExists
  <2> QED
    BY <1>2, <2>2
<1>4. f = Of(f)
  <2>1. \A T \in SUBSET S : f[T] = IF T = {} THEN 0 ELSE Any(T).amount + f[T \ {Any(T)}]
    <3> SUFFICES ASSUME NEW T \in SUBSET S, T # {} PROVE f[T] = Any(T).amount + f[T \ {Any(T)}]
      BY <1>3 DEF Folds
    <3>1. Any(T) \in S /\ f[T \ {Any(T)}] \in Int /\ pick[T] = Any(T)
      BY <1>1
    <3>2. f[T] = G[pick[T]][f[T \ {pick[T]}]]
      BY <1>3 DEF Folds
    <3> HIDE DEF pick
    <3> QED
      BY <3>1, <3>2
  <2> QED
    BY <2>1
<1>5. Sums(S) = Of(Sums(S))
  BY <1>4, Zenon DEF Sums
<1>6. PICK g : g = Sums(S)
  OBVIOUS
<1>7. \A T \in SUBSET S : g[T] = IF T = {} THEN 0 ELSE Any(T).amount + g[T \ {Any(T)}]
  BY <1>5, <1>6
<1> HIDE DEF Of
<1>8. \A T \in SUBSET S : g[T] = f[T]
  <2>1. FoldsIn(g, S, Z, 0, G, pick)
    BY <1>1, <1>2, <1>7 DEF FoldsIn
  <2>2. Picks(pick, S)
    BY <1>1 DEF Picks
  <2>3. f \in [SUBSET S -> Z]
    BY <1>2, <1>3
  <2> HIDE DEF G, pick
  <2>4. FoldOf(f, S, Z, 0, G, pick)
    BY <1>2, <1>3, <2>2, <2>3 DEF FoldOf
  <2> QED
    BY <2>1, <2>4, FoldAgrees
<1>9. \A T \in SUBSET S : g[T] \in Int
  BY <1>8
<1> HIDE DEF G, pick
\* It does not matter which element is taken first.
<1> DEFINE Good == {T \in SUBSET S : \A x \in T : g[T] = x.amount + g[T \ {x}]}
<1>10. \A T \in SUBSET S : (\A x \in T : T \ {x} \in Good) => T \in Good
  <2> SUFFICES ASSUME NEW T \in SUBSET S, \A x \in T : T \ {x} \in Good, NEW x \in T
               PROVE  g[T] = x.amount + g[T \ {x}]
    OBVIOUS
  <2>1. PICK y : y = Any(T)
    OBVIOUS
  <2>2. y \in T /\ g[T] = y.amount + g[T \ {y}]
    BY <1>1, <1>7, <2>1
  <2>3. CASE x = y
    BY <2>2, <2>3
  <2>4. CASE x # y
    <3>1. g[T \ {y}] = x.amount + g[(T \ {y}) \ {x}]
      BY <2>2, <2>4
    <3>2. g[T \ {x}] = y.amount + g[(T \ {x}) \ {y}]
      BY <2>2, <2>4
    <3>3. (T \ {y}) \ {x} = (T \ {x}) \ {y}
      OBVIOUS
    <3>4. /\ x.amount \in Int /\ y.amount \in Int /\ g[(T \ {x}) \ {y}] \in Int
      BY <1>9, <2>2
    <3>5. PICK c : c = g[(T \ {x}) \ {y}]
      OBVIOUS
    <3>6. g[T \ {y}] = x.amount + c /\ g[T \ {x}] = y.amount + c /\ c \in Int
      BY <3>1, <3>2, <3>3, <3>4, <3>5
    <3> HIDE DEF Good
    <3> QED
      BY <2>2, <3>4, <3>6
  <2> QED
    BY <2>3, <2>4
<1>11. \A T \in SUBSET S : T \in Good
  <2> HIDE DEF Good
  <2> QED
    BY <1>10, BySmaller
<1>12. \A T \in SUBSET S : \A x \in S \ T : g[T \cup {x}] = x.amount + g[T]
  <2> TAKE T \in SUBSET S
  <2> TAKE x \in S \ T
  <2>1. T \cup {x} \in Good /\ x \in T \cup {x} /\ (T \cup {x}) \ {x} = T
    BY <1>11
  <2> QED
    BY <2>1
<1>13. g[{}] = 0
  BY <1>7
<1> QED
  BY <1>6, <1>9, <1>12, <1>13

-----------------------------------------------------------------------------
(* Walks through the pages of tokens, holders and movements (TokenLists).   *)

\* A movement on the logged side of a leg is the sender's, and of the leg's type.
Movement ==
  {m \in [update : Nat, event : Nat, type : {"Transfer", "Mint", "Create"}] :
     m.event \in 1..4 => m.event \in 1..2 /\ m.type = Tokens!LegType(m.event)}
Held == [contract : Nat, party : Nat, amount : Int]
Seen == CASE list = "movements" -> Movement [] list = "holders" -> Held [] OTHER -> Nat
RowKey == IF list = "holders" THEN [party : Nat, amount : Int] ELSE Seen

\* What nodes tell.
Telling(of) == \A n \in DOMAIN of : n \in Node /\ of[n] \subseteq Seen /\ IsFiniteSet(of[n])
\* Whoever tells of a contract tells the same.
Told == (UNION {sees[n] : n \in Node}) \cup (UNION {cache[n] : n \in Node})
          \cup (UNION {basis[n] : n \in DOMAIN basis})
Agreed(S) == list = "holders" => \A h, g \in S : h.contract <= last /\ (h.contract = g.contract => h = g)

TokensOK ==
  /\ list \in {"movements", "holders", "tokens"} /\ last \in Nat
  /\ Telling(sees) /\ DOMAIN sees = Node
  /\ Telling(cache) /\ DOMAIN cache = Node
  /\ Telling(basis)
  /\ Agreed(Told)

\* A walk down does not go past its cursor, and what it leaves out lies beyond.
RowWalk ==
  /\ rowDir \in {"none", "down", "up"} /\ ~rowAgain
  /\ rowPage \subseteq Tokens!Rows(basis)
  /\ rowOlder \subseteq RowKey /\ rowShown \subseteq RowKey /\ rowStanding \subseteq RowKey
  /\ rowDir = "none" => rowOlder = {}
  /\ rowDir = "down" =>
       /\ rowOlder = {} => rowStanding \subseteq rowShown
       /\ \A c \in rowOlder : /\ \A x \in rowShown : ~Tokens!Before(c, x)
                              /\ \A x \in rowStanding \ rowShown : Tokens!Before(c, x)

TokensInv == TokensOK /\ RowWalk

-----------------------------------------------------------------------------
(* Holders: what merging the observations of several nodes makes.          *)

Observation == [node : Node, of : Held]
HolderRow == [party : Nat, amount : Int, nodes : SUBSET Node, contracts : SUBSET Nat]
SomeRows == {a \in SUBSET HolderRow : IsFiniteSet(a)}

LEMMA MergeTyped ==
  ASSUME NEW o \in Observation, NEW a \in SomeRows
  PROVE  Tokens!MergeHolder(o, a) \in SomeRows
<1> DEFINE mine == {r \in a : r.party = o.of.party}
           new == [party |-> o.of.party, amount |-> o.of.amount, nodes |-> {o.node},
                   contracts |-> {o.of.contract}]
           r == CHOOSE x \in mine : TRUE
           more == [r EXCEPT !.nodes = @ \cup {o.node},
                             !.amount = IF Tokens!AddsTo(r, o.of) THEN @ + o.of.amount ELSE @,
                             !.contracts = @ \cup {o.of.contract}]
<1>1. Tokens!MergeHolder(o, a) = IF mine = {} THEN a \cup {new} ELSE (a \ mine) \cup {more}
  BY DEF Tokens!MergeHolder
<1>2. o.node \in Node /\ o.of.party \in Nat /\ o.of.amount \in Int /\ o.of.contract \in Nat
  BY DEF Observation, Held
<1>3. new \in HolderRow
  BY <1>2 DEF HolderRow
<1>4. ASSUME mine # {} PROVE more \in HolderRow
  <2>1. r \in HolderRow
    BY <1>4 DEF SomeRows
  <2> HIDE DEF r
  <2>2. r.amount + o.of.amount \in Int
    BY <1>2, <2>1 DEF HolderRow
  <2> QED
    BY <1>2, <2>1, <2>2 DEF HolderRow
<1>5. \A x : IsFiniteSet(a \cup {x}) /\ IsFiniteSet((a \ mine) \cup {x})
  <2>1. IsFiniteSet(a) /\ IsFiniteSet(a \ mine)
    BY FS_Subset DEF SomeRows
  <2> HIDE DEF mine
  <2> QED
    BY <2>1, FS_AddElement
<1> HIDE DEF new, more, mine
<1>6. CASE mine = {}
  BY <1>1, <1>3, <1>5, <1>6 DEF SomeRows
<1>7. CASE mine # {}
  BY <1>1, <1>4, <1>5, <1>7 DEF SomeRows
<1> QED
  BY <1>6, <1>7

Merges(S) == CHOOSE f : f = [T \in SUBSET S |->
                               IF T = {} THEN {} ELSE Tokens!MergeHolder(Any(T), f[T \ {Any(T)}])]

LEMMA MergedIs ==
  ASSUME NEW S PROVE Tokens!FoldSet(Tokens!MergeHolder, {}, S) = Merges(S)[S]
BY Zenon DEF Tokens!FoldSet, Tokens!MapThenFoldSet, Merges, Any

LEMMA MergesAre ==
  ASSUME NEW S \in SUBSET Observation, IsFiniteSet(S)
  PROVE  /\ Merges(S)[{}] = {}
         /\ \A T \in SUBSET S :
              /\ Merges(S)[T] \in SomeRows
              /\ T # {} => /\ Any(T) \in T
                           /\ Merges(S)[T] = Tokens!MergeHolder(Any(T), Merges(S)[T \ {Any(T)}])
<1> DEFINE pick == [T \in SUBSET S |-> Any(T)]
           G == [o \in S |-> [a \in SomeRows |-> Tokens!MergeHolder(o, a)]]
           Of(f) == [T \in SUBSET S |->
                       IF T = {} THEN {} ELSE Tokens!MergeHolder(Any(T), f[T \ {Any(T)}])]
<1>1. \A T \in SUBSET S : T # {} => Any(T) \in T /\ pick[T] = Any(T) /\ pick[T] \in T
  BY DEF Any
<1>2. G \in [S -> [SomeRows -> SomeRows]]
  BY MergeTyped
<1>3. {} \in SomeRows
  BY FS_EmptySet DEF SomeRows
<1>4. Picks(pick, S)
  BY <1>1 DEF Picks
<1>5. PICK f \in [SUBSET S -> SomeRows] : Folds(f, S, {}, G, pick)
  <2> HIDE DEF G, pick
  <2> QED
    BY <1>2, <1>3, <1>4, FoldExists
<1>6. f = Of(f)
  <2>1. \A T \in SUBSET S : f[T] = IF T = {} THEN {} ELSE Tokens!MergeHolder(Any(T), f[T \ {Any(T)}])
    <3> SUFFICES ASSUME NEW T \in SUBSET S, T # {}
                 PROVE  f[T] = Tokens!MergeHolder(Any(T), f[T \ {Any(T)}])
      BY <1>5 DEF Folds
    <3>1. Any(T) \in S /\ f[T \ {Any(T)}] \in SomeRows /\ pick[T] = Any(T)
      BY <1>1
    <3>2. f[T] = G[pick[T]][f[T \ {pick[T]}]]
      BY <1>5 DEF Folds
    <3> HIDE DEF pick
    <3> QED
      BY <3>1, <3>2
  <2> QED
    BY <2>1
<1>7. Merges(S) = Of(Merges(S))
  BY <1>6, Zenon DEF Merges
<1>8. PICK g : g = Merges(S)
  OBVIOUS
<1>9. \A T \in SUBSET S : g[T] = IF T = {} THEN {} ELSE Tokens!MergeHolder(Any(T), g[T \ {Any(T)}])
  BY <1>7, <1>8
<1> HIDE DEF Of
<1>10. \A T \in SUBSET S : g[T] = f[T]
  <2>1. FoldsIn(g, S, SomeRows, {}, G, pick)
    BY <1>1, <1>9 DEF FoldsIn
  <2>2. FoldOf(f, S, SomeRows, {}, G, pick)
    BY <1>2, <1>3, <1>4, <1>5 DEF FoldOf
  <2> HIDE DEF G, pick
  <2> QED
    BY <2>1, <2>2, FoldAgrees
<1> QED
  BY <1>1, <1>8, <1>9, <1>10

\* The holdings of a party among observations.
OfParty(T, p) == {o.of : o \in {o \in T : o.of.party = p}}
AddedUp(S, T, a) ==
  /\ \A r, q \in a : r.party = q.party => r = q
  /\ \A o \in T : \E r \in a : r.party = o.of.party
  /\ \A r \in a : /\ r.contracts = {h.contract : h \in OfParty(T, r.party)}
                  /\ r.nodes = {o.node : o \in {o \in T : o.of.party = r.party}}
                  /\ r.amount = Sums(OfParty(S, r.party))[OfParty(T, r.party)]

LEMMA PartySums ==
  ASSUME NEW S \in SUBSET Observation, IsFiniteSet(S), NEW p
  PROVE  LET P == OfParty(S, p)
         IN /\ Sums(P)[{}] = 0
            /\ \A T \in SUBSET P : \A h \in P \ T : Sums(P)[T \cup {h}] = h.amount + Sums(P)[T]
            /\ \A T \in SUBSET P : Sums(P)[T] \in Int
            /\ IsFiniteSet(P)
<1> DEFINE P == OfParty(S, p)
           Q == {o \in S : o.of.party = p}
           f == [o \in Q |-> o.of]
<1>1. IsFiniteSet(Q)
  BY FS_Subset
<1>2. f \in Surjection(Q, P)
  BY DEF Surjection, OfParty
<1>3. IsFiniteSet(P)
  <2> HIDE DEF f, P, Q
  <2> QED
    BY <1>1, <1>2, FS_Surjection
<1>4. \A h \in P : h.amount \in Int
  BY DEF OfParty, Observation, Held
<1> HIDE DEF P
<1> QED
  BY <1>3, <1>4, SumsAdd DEF P

LEMMA MergeAdds ==
  ASSUME NEW S \in SUBSET Observation, IsFiniteSet(S),
         \A o, u \in S : o.of.contract = u.of.contract => o.of = u.of,
         NEW T \in SUBSET S, NEW y \in S \ T, NEW a \in SomeRows, AddedUp(S, T, a)
  PROVE  AddedUp(S, T \cup {y}, Tokens!MergeHolder(y, a))
<1> DEFINE p == y.of.party
           mine == {r \in a : r.party = p}
           new == [party |-> p, amount |-> y.of.amount, nodes |-> {y.node},
                   contracts |-> {y.of.contract}]
           U == T \cup {y}
<1>1. /\ OfParty(U, p) = OfParty(T, p) \cup {y.of}
      /\ {o.node : o \in {o \in U : o.of.party = p}} = {o.node : o \in {o \in T : o.of.party = p}} \cup {y.node}
      /\ \A q : q # p => /\ OfParty(U, q) = OfParty(T, q)
                         /\ {o \in U : o.of.party = q} = {o \in T : o.of.party = q}
  BY DEF OfParty
<1>2. OfParty(T, p) \in SUBSET OfParty(S, p) /\ y.of \in OfParty(S, p) /\ y.of.amount \in Int
  BY DEF OfParty, Observation, Held
<1>3. PICK s : s = Sums(OfParty(S, p))
  OBVIOUS
<1>4. /\ s[{}] = 0 /\ s[OfParty(T, p)] \in Int
      /\ y.of \notin OfParty(T, p) => s[OfParty(U, p)] = y.of.amount + s[OfParty(T, p)]
  <2>1. PICK P : P = OfParty(S, p)
    OBVIOUS
  <2>2. /\ s[{}] = 0
        /\ \A R \in SUBSET P : \A h \in P \ R : s[R \cup {h}] = h.amount + s[R]
        /\ \A R \in SUBSET P : s[R] \in Int
    BY <1>3, <2>1, PartySums
  <2> QED
    BY <1>1, <1>2, <2>1, <2>2
<1>5. CASE mine = {}
  <2>1. Tokens!MergeHolder(y, a) = a \cup {new}
    BY <1>5 DEF Tokens!MergeHolder
  <2>2. OfParty(T, p) = {} /\ {o \in T : o.of.party = p} = {}
    BY <1>5 DEF AddedUp, OfParty
  <2>3. s[OfParty(U, p)] = y.of.amount
    BY <1>2, <1>4, <2>2
  <2>4. /\ new.party = p /\ new.contracts = {y.of.contract} /\ new.nodes = {y.node}
        /\ new.amount = y.of.amount
    OBVIOUS
  <2> HIDE DEF new, U
  <2>5. \A r, q \in a \cup {new} : r.party = q.party => r = q
    BY <1>5, <2>4 DEF AddedUp
  <2>6. \A o \in U : \E r \in a \cup {new} : r.party = o.of.party
    BY <2>4 DEF AddedUp, U
  <2>7. ASSUME NEW r \in a \cup {new}
        PROVE  /\ r.contracts = {h.contract : h \in OfParty(U, r.party)}
               /\ r.nodes = {o.node : o \in {o \in U : o.of.party = r.party}}
               /\ r.amount = Sums(OfParty(S, r.party))[OfParty(U, r.party)]
    <3>1. CASE r = new
      <4>1. OfParty(U, p) = {y.of} /\ {o.node : o \in {o \in U : o.of.party = p}} = {y.node}
        BY <1>1, <2>2
      <4> QED
        BY <1>3, <2>3, <2>4, <3>1, <4>1
    <3>2. CASE r \in a
      <4>1. r.party # p
        BY <1>5, <3>2
      <4> QED
        BY <1>1, <3>2, <4>1 DEF AddedUp
    <3> QED
      BY <3>1, <3>2
  <2> QED
    BY <2>1, <2>5, <2>6, <2>7 DEF AddedUp, U
<1>6. CASE mine # {}
  <2>1. PICK r : r = CHOOSE x \in mine : TRUE
    OBVIOUS
  <2>2. r \in mine /\ r \in HolderRow
    BY <1>6, <2>1 DEF SomeRows
  <2> DEFINE more == [r EXCEPT !.nodes = @ \cup {y.node},
                               !.amount = IF Tokens!AddsTo(r, y.of) THEN @ + y.of.amount ELSE @,
                               !.contracts = @ \cup {y.of.contract}]
  <2>3. Tokens!MergeHolder(y, a) = (a \ mine) \cup {more}
    BY <1>6, <2>1 DEF Tokens!MergeHolder
  <2>4. /\ more.party = p /\ more.nodes = r.nodes \cup {y.node}
        /\ more.contracts = r.contracts \cup {y.of.contract}
        /\ more.amount = IF y.of.contract \notin r.contracts THEN r.amount + y.of.amount ELSE r.amount
    BY <2>2 DEF HolderRow, Tokens!AddsTo
  <2> HIDE DEF more, U
  <2>5. /\ r.contracts = {h.contract : h \in OfParty(T, p)}
        /\ r.nodes = {o.node : o \in {o \in T : o.of.party = p}}
        /\ r.amount = s[OfParty(T, p)]
    BY <1>3, <2>2 DEF AddedUp
  <2>6. y.of.contract \in r.contracts <=> y.of \in OfParty(T, p)
    BY <2>5 DEF OfParty
  <2>7. more.amount = s[OfParty(U, p)]
    <3>1. CASE y.of \in OfParty(T, p)
      <4>1. OfParty(U, p) = OfParty(T, p)
        BY <1>1, <3>1
      <4> QED
        BY <2>4, <2>5, <2>6, <3>1, <4>1
    <3>2. CASE y.of \notin OfParty(T, p)
      BY <1>2, <1>4, <2>4, <2>5, <2>6, <3>2
    <3> QED
      BY <3>1, <3>2
  <2>8. \A q, u \in (a \ mine) \cup {more} : q.party = u.party => q = u
    BY <2>4 DEF AddedUp
  <2>9. \A o \in U : \E q \in (a \ mine) \cup {more} : q.party = o.of.party
    BY <2>4 DEF AddedUp, U
  <2>10. ASSUME NEW q \in (a \ mine) \cup {more}
         PROVE  /\ q.contracts = {h.contract : h \in OfParty(U, q.party)}
                /\ q.nodes = {o.node : o \in {o \in U : o.of.party = q.party}}
                /\ q.amount = Sums(OfParty(S, q.party))[OfParty(U, q.party)]
    <3>1. CASE q = more
      <4>1. more.contracts = {h.contract : h \in OfParty(U, p)}
        BY <1>1, <2>4, <2>5
      <4>2. more.nodes = {o.node : o \in {o \in U : o.of.party = p}}
        BY <1>1, <2>4, <2>5
      <4> QED
        BY <1>3, <2>4, <2>7, <3>1, <4>1, <4>2
    <3>2. CASE q \in a \ mine
      <4>1. q.party # p
        BY <3>2
      <4> QED
        BY <1>1, <3>2, <4>1 DEF AddedUp
    <3> QED
      BY <3>1, <3>2
  <2> QED
    BY <2>3, <2>8, <2>9, <2>10 DEF AddedUp, U
<1> QED
  BY <1>5, <1>6

\* A row of a holder adds up what the nodes tell of the party's contracts, each of which counts once.
LEMMA HoldersAddUp ==
  ASSUME NEW S \in SUBSET Observation, IsFiniteSet(S),
         \A o, u \in S : o.of.contract = u.of.contract => o.of = u.of
  PROVE  AddedUp(S, S, Merges(S)[S])
<1> DEFINE Good == {T \in SUBSET S : AddedUp(S, T, Merges(S)[T])}
<1>1. \A T \in SUBSET S : (\A x \in T : T \ {x} \in Good) => T \in Good
  <2> SUFFICES ASSUME NEW T \in SUBSET S, \A x \in T : T \ {x} \in Good
               PROVE  AddedUp(S, T, Merges(S)[T])
    OBVIOUS
  <2>1. CASE T = {}
    BY <2>1, MergesAre DEF AddedUp
  <2>2. CASE T # {}
    <3>1. PICK y \in T : Merges(S)[T] = Tokens!MergeHolder(y, Merges(S)[T \ {y}])
      BY <2>2, MergesAre
    <3>2. PICK R \in SUBSET S : R = T \ {y} /\ y \in S \ R /\ R \cup {y} = T
      OBVIOUS
    <3>3. AddedUp(S, R, Merges(S)[R]) /\ Merges(S)[R] \in SomeRows
      BY <3>2, MergesAre
    <3>4. PICK a \in SomeRows : a = Merges(S)[R]
      BY <3>3
    <3>5. AddedUp(S, R, a) /\ y \in S \ R
      BY <3>2, <3>3, <3>4
    <3> HIDE DEF Good
    <3>6. AddedUp(S, R \cup {y}, Tokens!MergeHolder(y, a))
      BY <3>5, MergeAdds
    <3> QED
      BY <3>1, <3>2, <3>4, <3>6
  <2> QED
    BY <2>1, <2>2
<1>2. \A T \in SUBSET S : T \in Good
  <2> HIDE DEF Good
  <2> QED
    BY <1>1, BySmaller
<1> QED
  BY <1>2

LEMMA ObservationsAre ==
  ASSUME NEW of, Telling(of), list = "holders"
  PROVE  Tokens!Observations(of) \in SUBSET Observation /\ IsFiniteSet(Tokens!Observations(of))
<1> DEFINE Of(n) == {[node |-> n, of |-> h] : h \in of[n]}
           F == {Of(n) : n \in DOMAIN of}
<1>1. \A n \in DOMAIN of : n \in Node /\ of[n] \subseteq Held /\ IsFiniteSet(of[n])
  BY DEF Telling, Seen
<1>2. IsFiniteSet(DOMAIN of)
  BY <1>1, NodesAssumption, FS_Subset
<1>3. \A n \in DOMAIN of : IsFiniteSet(Of(n)) /\ Of(n) \subseteq Observation
  <2> SUFFICES ASSUME NEW n \in DOMAIN of PROVE IsFiniteSet(Of(n)) /\ Of(n) \subseteq Observation
    OBVIOUS
  <2>1. [h \in of[n] |-> [node |-> n, of |-> h]] \in Surjection(of[n], Of(n))
    BY DEF Surjection
  <2> HIDE DEF Of
  <2>2. IsFiniteSet(Of(n))
    BY <1>1, <2>1, FS_Surjection
  <2> QED
    BY <1>1, <2>2 DEF Observation, Of
<1>4. IsFiniteSet(F)
  <2>1. [n \in DOMAIN of |-> Of(n)] \in Surjection(DOMAIN of, F)
    BY Zenon DEF Surjection
  <2> HIDE DEF F
  <2> QED
    BY <1>2, <2>1, FS_Surjection
<1>5. \A T \in F : IsFiniteSet(T) /\ T \subseteq Observation
  BY <1>3
<1>6. Tokens!Observations(of) = UNION F
  BY DEF Tokens!Observations
<1>7. IsFiniteSet(UNION F)
  <2> HIDE DEF F
  <2> QED
    BY <1>4, <1>5, FS_UNION
<1> QED
  BY <1>5, <1>6, <1>7

\* Rows are finitely many and have keys.
LEMMA RowsAre ==
  ASSUME NEW of, Telling(of), list \in {"movements", "holders", "tokens"}
  PROVE  IsFiniteSet(Tokens!Rows(of)) /\ \A r \in Tokens!Rows(of) : Tokens!Key(r) \in RowKey
<1>1. CASE list = "holders"
  <2>1. PICK S : S = Tokens!Observations(of)
    OBVIOUS
  <2>2. PICK a \in SomeRows : a = Merges(S)[S]
    BY <1>1, <2>1, ObservationsAre, MergesAre
  <2> DEFINE Shown(r) == [party |-> r.party, amount |-> r.amount, nodes |-> r.nodes]
  <2>3. Tokens!Rows(of) = {Shown(r) : r \in a}
    <3>1. Tokens!FoldSet(Tokens!MergeHolder, {}, S) = a
      BY <2>2, MergedIs
    <3> QED
      BY <1>1, <2>1, <3>1 DEF Tokens!Rows, Tokens!HolderRows
  <2>4. IsFiniteSet({Shown(r) : r \in a})
    <3>1. [r \in a |-> Shown(r)] \in Surjection(a, {Shown(r) : r \in a})
      BY Zenon DEF Surjection
    <3>2. IsFiniteSet(a)
      BY DEF SomeRows
    <3> HIDE DEF Shown
    <3> QED
      BY <3>1, <3>2, FS_Surjection
  <2>5. \A r \in a : Tokens!Key(Shown(r)) \in RowKey
    BY <1>1 DEF SomeRows, HolderRow, Tokens!Key, RowKey
  <2> QED
    BY <2>3, <2>4, <2>5
<1>2. CASE list # "holders"
  <2> DEFINE K == UNION {of[n] : n \in DOMAIN of}
             Row(k) == [key |-> k, nodes |-> {n \in DOMAIN of : k \in of[n]}]
  <2>1. \A n \in DOMAIN of : n \in Node /\ of[n] \subseteq RowKey /\ IsFiniteSet(of[n])
    BY <1>2 DEF Telling, RowKey
  <2>2. IsFiniteSet(DOMAIN of)
    BY <2>1, NodesAssumption, FS_Subset
  <2>3. IsFiniteSet(K) /\ K \subseteq RowKey
    <3> DEFINE F == {of[n] : n \in DOMAIN of}
    <3>1. IsFiniteSet(F)
      <4>1. [n \in DOMAIN of |-> of[n]] \in Surjection(DOMAIN of, F)
        BY Zenon DEF Surjection
      <4> HIDE DEF F
      <4> QED
        BY <2>2, <4>1, FS_Surjection
    <3>2. \A T \in F : IsFiniteSet(T) /\ T \subseteq RowKey
      BY <2>1
    <3>3. IsFiniteSet(UNION F)
      <4> HIDE DEF F
      <4> QED
        BY <3>1, <3>2, FS_UNION
    <3> QED
      BY <3>2, <3>3
  <2>4. IsFiniteSet({Row(k) : k \in K})
    <3>1. [k \in K |-> Row(k)] \in Surjection(K, {Row(k) : k \in K})
      BY Zenon DEF Surjection
    <3> HIDE DEF Row, K
    <3> QED
      BY <2>3, <3>1, FS_Surjection
  <2>5. Tokens!Rows(of) \subseteq {Row(k) : k \in K}
    BY <1>2 DEF Tokens!Rows, Tokens!SharedRows
  <2>6. \A k \in K : Tokens!Key(Row(k)) \in RowKey
    BY <1>2, <2>3 DEF Tokens!Key
  <2> HIDE DEF Row, K
  <2> QED
    BY <2>4, <2>5, <2>6, FS_Subset
<1> QED
  BY <1>1, <1>2

-----------------------------------------------------------------------------
(* Pages of rows.                                                          *)

KeyOrder == {p \in RowKey \X RowKey : Tokens!Before(p[1], p[2])}

LEMMA KeysOrdered ==
  ASSUME list \in {"movements", "holders", "tokens"} PROVE Orders(KeyOrder, RowKey)
<1>1. \A x, y \in RowKey : <<x, y>> \in KeyOrder <=> Tokens!Before(x, y)
  BY DEF KeyOrder
<1>2. CASE list = "tokens"
  <2>1. \A x, y \in RowKey : x \in Nat /\ (<<x, y>> \in KeyOrder <=> x < y)
    BY <1>1, <1>2 DEF RowKey, Seen, Tokens!Before, Tokens!TokenBefore
  <2>2. \A x \in RowKey : <<x, x>> \notin KeyOrder
    BY <2>1
  <2>3. \A x, y, z \in RowKey :
          /\ <<x, y>> \in KeyOrder /\ <<y, z>> \in KeyOrder => <<x, z>> \in KeyOrder
          /\ <<x, z>> \in KeyOrder => <<x, y>> \in KeyOrder \/ <<y, z>> \in KeyOrder
    <3> TAKE x, y, z \in RowKey
    <3>1. x \in Nat /\ y \in Nat /\ z \in Nat
      BY <2>1
    <3> QED
      BY <2>1, <3>1
  <2> QED
    BY <2>2, <2>3, Zenon DEF Orders
<1>3. CASE list = "holders"
  <2>1. \A x, y \in RowKey :
          /\ x.amount \in Int /\ x.party \in Nat
          /\ <<x, y>> \in KeyOrder <=>
               x.amount > y.amount \/ (x.amount = y.amount /\ x.party < y.party)
    BY <1>1, <1>3 DEF RowKey, Tokens!Before, Tokens!HolderBefore
  <2>2. \A x \in RowKey : <<x, x>> \notin KeyOrder
    BY <2>1
  <2>3. \A x, y, z \in RowKey :
          /\ <<x, y>> \in KeyOrder /\ <<y, z>> \in KeyOrder => <<x, z>> \in KeyOrder
          /\ <<x, z>> \in KeyOrder => <<x, y>> \in KeyOrder \/ <<y, z>> \in KeyOrder
    <3> TAKE x, y, z \in RowKey
    <3>1. /\ x.amount \in Int /\ x.party \in Nat /\ y.amount \in Int /\ y.party \in Nat
          /\ z.amount \in Int /\ z.party \in Nat
      BY <2>1
    <3> QED
      BY <2>1, <3>1
  <2> QED
    BY <2>2, <2>3, Zenon DEF Orders
<1>4. CASE list = "movements"
  <2>1. \A x, y \in RowKey :
          /\ x.update \in Nat /\ x.event \in Nat /\ Tokens!Time(x) \in Nat
          /\ x.update = y.update => Tokens!Time(x) = Tokens!Time(y)
          /\ <<x, y>> \in KeyOrder <=>
               \/ Tokens!Time(x) > Tokens!Time(y)
               \/ Tokens!Time(x) = Tokens!Time(y) /\ x.update > y.update
               \/ x.update = y.update
                  /\ (x.event > y.event \/ (x.event = y.event /\ x.type = "Mint" /\ y.type # "Mint"))
    <3>1. \A x \in RowKey : x.update \in Nat /\ x.event \in Nat
      BY <1>4 DEF RowKey, Seen, Movement
    <3>2. \A x, y \in RowKey :
            <<x, y>> \in KeyOrder <=>
               \/ Tokens!Time(x) > Tokens!Time(y)
               \/ Tokens!Time(x) = Tokens!Time(y) /\ x.update > y.update
               \/ x.update = y.update
                  /\ (x.event > y.event \/ (x.event = y.event /\ x.type = "Mint" /\ y.type # "Mint"))
      BY <1>1, <1>4 DEF Tokens!Before, Tokens!MovementBefore
    <3>3. \A x, y \in RowKey : /\ Tokens!Time(x) \in Nat
                               /\ x.update = y.update => Tokens!Time(x) = Tokens!Time(y)
      BY <3>1 DEF Tokens!Time
    <3> QED
      BY <3>1, <3>2, <3>3
  <2>2. \A x \in RowKey : <<x, x>> \notin KeyOrder
    BY <2>1
  <2>3. \A x, y, z \in RowKey :
          <<x, y>> \in KeyOrder /\ <<y, z>> \in KeyOrder => <<x, z>> \in KeyOrder
    <3> TAKE x, y, z \in RowKey
    <3>1. /\ x.update \in Nat /\ x.event \in Nat /\ Tokens!Time(x) \in Nat
          /\ y.update \in Nat /\ y.event \in Nat /\ Tokens!Time(y) \in Nat
          /\ z.update \in Nat /\ z.event \in Nat /\ Tokens!Time(z) \in Nat
      BY <2>1
    <3> QED
      BY <2>1, <3>1
  <2>4. \A x, y, z \in RowKey :
          <<x, z>> \in KeyOrder => <<x, y>> \in KeyOrder \/ <<y, z>> \in KeyOrder
    <3> TAKE x, y, z \in RowKey
    <3>1. /\ x.update \in Nat /\ x.event \in Nat /\ Tokens!Time(x) \in Nat
          /\ y.update \in Nat /\ y.event \in Nat /\ Tokens!Time(y) \in Nat
          /\ z.update \in Nat /\ z.event \in Nat /\ Tokens!Time(z) \in Nat
      BY <2>1
    <3> QED
      BY <2>1, <3>1
  <2> QED
    BY <2>2, <2>3, <2>4, Zenon DEF Orders
<1> QED
  BY <1>2, <1>3, <1>4

RowOrder(S) == {p \in S \X S : Tokens!Before(Tokens!Key(p[1]), Tokens!Key(p[2]))}
RowsBack(S) == {p \in S \X S : Tokens!Before(Tokens!Key(p[2]), Tokens!Key(p[1]))}

LEMMA RowsOrdered ==
  ASSUME list \in {"movements", "holders", "tokens"}, NEW S, \A r \in S : Tokens!Key(r) \in RowKey
  PROVE  Orders(RowOrder(S), S) /\ Orders(RowsBack(S), S)
<1>1. \A x, y \in RowKey : <<x, y>> \in KeyOrder <=> Tokens!Before(x, y)
  BY DEF KeyOrder
<1>2. \A x, y \in S : /\ <<x, y>> \in RowOrder(S) <=> <<Tokens!Key(x), Tokens!Key(y)>> \in KeyOrder
                      /\ <<x, y>> \in RowsBack(S) <=> <<Tokens!Key(y), Tokens!Key(x)>> \in KeyOrder
  <2>1. \A x, y \in S :
          /\ <<x, y>> \in RowOrder(S) <=> Tokens!Before(Tokens!Key(x), Tokens!Key(y))
          /\ <<x, y>> \in RowsBack(S) <=> Tokens!Before(Tokens!Key(y), Tokens!Key(x))
    BY DEF RowOrder, RowsBack
  <2> QED
    BY <1>1, <2>1
<1>3. /\ \A x \in RowKey : <<x, x>> \notin KeyOrder
      /\ \A x, y, z \in RowKey : <<x, y>> \in KeyOrder /\ <<y, z>> \in KeyOrder => <<x, z>> \in KeyOrder
      /\ \A x, y, z \in RowKey : <<x, z>> \in KeyOrder => <<x, y>> \in KeyOrder \/ <<y, z>> \in KeyOrder
  BY KeysOrdered DEF Orders
<1> QED
  BY <1>2, <1>3 DEF Orders

LEMMA CardinalityOfTokens == ASSUME NEW S PROVE Tokens!Cardinality(S) = Cardinality(S)
BY Zenon DEF Tokens!Cardinality, Cardinality, Tokens!IsFiniteSet, IsFiniteSet

\* The page of a list, and the cursor to the older rows.
PageOf(L, cur, up, B, P, old) ==
  /\ B = Tokens!Beyond(L, cur, up) /\ P = Tokens!FirstRows(B)
  /\ old = IF P # {} /\ (up \/ Tokens!Cardinality(B) > Limit) THEN Tokens!LastKey(B) ELSE Tokens!Nil

LEMMA ListedPage ==
  ASSUME list \in {"movements", "holders", "tokens"}, NEW L, IsFiniteSet(L),
         \A r \in L : Tokens!Key(r) \in RowKey, NEW cur, NEW up \in BOOLEAN,
         NEW B, NEW P, NEW old, PageOf(L, cur, up, B, P, old)
  PROVE  /\ B \subseteq L /\ P \subseteq B
         /\ \A c \in old : /\ c \in RowKey /\ \E r \in P : c = Tokens!Key(r)
                           /\ \A r \in P : ~Tokens!Before(c, Tokens!Key(r))
                           /\ \A r \in B \ P : Tokens!Before(c, Tokens!Key(r))
         /\ (old = {} /\ ~up) => B = P
<1>1. B \subseteq L /\ IsFiniteSet(B) /\ \A r \in B : Tokens!Key(r) \in RowKey
  <2>1. B \subseteq L
    BY DEF Tokens!Beyond, PageOf
  <2> QED
    BY <2>1, FS_Subset
<1>2. Orders(RowOrder(B), B) /\ Orders(RowsBack(B), B)
  BY <1>1, RowsOrdered
<1>3. \A x, y \in B : /\ <<x, y>> \in RowOrder(B) <=> Tokens!Before(Tokens!Key(x), Tokens!Key(y))
                      /\ <<x, y>> \in RowsBack(B) <=> Tokens!Before(Tokens!Key(y), Tokens!Key(x))
  BY DEF RowOrder, RowsBack
<1>4. P = FirstOf(RowOrder(B), B, Limit)
  <2>1. \A x \in B : Before(RowOrder(B), B, x) =
                       {q \in B : Tokens!Before(Tokens!Key(q), Tokens!Key(x))}
    BY <1>3 DEF Before
  <2> QED
    BY <2>1, CardinalityOfTokens DEF Tokens!FirstRows, FirstOf, PageOf
<1>5. /\ P \subseteq B
      /\ \A x \in B \ P, y \in P : <<y, x>> \in RowOrder(B)
      /\ Cardinality(B) <= Limit => P = B
      /\ B # {} => P # {}
  <2>1. Limit \in Nat \ {0}
    BY LimitAssumption
  <2> QED
    BY <1>1, <1>2, <1>4, <2>1, Cut
<1>6. ~(Tokens!Cardinality(B) > Limit) => P = B
  <2>1. Cardinality(B) \in Nat
    BY <1>1, FS_CardinalityType
  <2> QED
    BY <1>5, <2>1, CardinalityOfTokens, LimitAssumption
<1>7. P # {} => Tokens!LastKey(B) # {}
  <2> SUFFICES ASSUME P # {} PROVE Tokens!LastKey(B) # {}
    OBVIOUS
  <2>1. IsFiniteSet(P) /\ \A r \in P : Tokens!Key(r) \in RowKey
    BY <1>1, <1>5, FS_Subset
  <2>2. Orders(RowsBack(P), P)
    BY <2>1, RowsOrdered
  <2>3. PICK s \in P : \A q \in P : <<q, s>> \notin RowsBack(P)
    BY <2>1, <2>2, FirstOfAll
  <2>4. \A q \in P : ~Tokens!Before(Tokens!Key(s), Tokens!Key(q))
    BY <2>3 DEF RowsBack
  <2> QED
    BY <2>4 DEF Tokens!LastKey, PageOf
<1>8. \A c \in Tokens!LastKey(B) :
        \E s \in P : c = Tokens!Key(s) /\ \A q \in P : ~Tokens!Before(Tokens!Key(s), Tokens!Key(q))
  BY DEF Tokens!LastKey, PageOf
<1>9. \A c \in Tokens!LastKey(B) :
        /\ c \in RowKey /\ \E r \in P : c = Tokens!Key(r)
        /\ \A r \in P : ~Tokens!Before(c, Tokens!Key(r))
        /\ \A r \in B \ P : Tokens!Before(c, Tokens!Key(r))
  <2> TAKE c \in Tokens!LastKey(B)
  <2>1. PICK s \in P : c = Tokens!Key(s) /\ \A q \in P : ~Tokens!Before(Tokens!Key(s), Tokens!Key(q))
    BY <1>8
  <2>2. s \in B /\ \A r \in B \ P : r \in B /\ <<s, r>> \in RowOrder(B)
    BY <1>5
  <2>3. \A r \in B \ P : Tokens!Before(Tokens!Key(s), Tokens!Key(r))
    BY <1>3, <2>2
  <2> QED
    BY <1>1, <2>1, <2>2, <2>3
<1> QED
  BY <1>1, <1>5, <1>6, <1>7, <1>9 DEF Tokens!Nil, PageOf

-----------------------------------------------------------------------------
(* The steps of a walk, and of the ledger.                                 *)

\* A page of the rows L, of which B lie beyond the cursor.
Shows(cur, up, ok, L, B) ==
  /\ ok \subseteq Node /\ Tokens!List(cur, up, ok)
  /\ L = Tokens!Rows([n \in ok |-> cache[n]]) /\ B = Tokens!Beyond(L, cur, up)

\* Its cursor is the key of one of its rows, between those it shows and the rest.
Shown(up, ok, L, B) ==
  /\ basis' = [n \in ok |-> cache[n]] /\ B \subseteq L /\ rowPage' \subseteq B
  /\ \A r \in L : Tokens!Key(r) \in RowKey
  /\ \A c \in rowOlder' : /\ c \in RowKey /\ \E r \in rowPage' : c = Tokens!Key(r)
                          /\ \A r \in rowPage' : ~Tokens!Before(c, Tokens!Key(r))
                          /\ \A r \in B \ rowPage' : Tokens!Before(c, Tokens!Key(r))
  /\ (rowOlder' = {} /\ ~up) => B = rowPage'

\* What a listing shows and where its cursor stands.
LEMMA Listing ==
  ASSUME TokensOK, NEW cur, NEW up, up \in BOOLEAN, NEW ok, NEW L, NEW B, Shows(cur, up, ok, L, B)
  PROVE  Shown(up, ok, L, B)
<1>0. /\ ok \subseteq Node /\ Tokens!List(cur, up, ok)
      /\ L = Tokens!Rows([n \in ok |-> cache[n]]) /\ B = Tokens!Beyond(L, cur, up)
  BY DEF Shows
<1>1. PICK of : of = [n \in ok |-> cache[n]]
  OBVIOUS
<1>2. Telling(of)
  BY <1>0, <1>1 DEF TokensOK, Telling
<1>3. list \in {"movements", "holders", "tokens"}
  BY DEF TokensOK
<1>4. IsFiniteSet(L) /\ \A r \in L : Tokens!Key(r) \in RowKey
  BY <1>0, <1>1, <1>2, <1>3, RowsAre
<1>5. PICK P, old : PageOf(L, cur, up, B, P, old)
  BY <1>0 DEF PageOf
<1>6. basis' = of /\ rowPage' = P /\ rowOlder' = old
  BY <1>0, <1>1, <1>5 DEF Tokens!List, PageOf
<1>7. /\ B \subseteq L /\ P \subseteq B
      /\ \A c \in old : /\ c \in RowKey /\ \E r \in P : c = Tokens!Key(r)
                        /\ \A r \in P : ~Tokens!Before(c, Tokens!Key(r))
                        /\ \A r \in B \ P : Tokens!Before(c, Tokens!Key(r))
      /\ (old = {} /\ ~up) => B = P
  BY <1>3, <1>4, <1>5, ListedPage
<1> QED
  BY <1>1, <1>4, <1>6, <1>7 DEF Shown

\* The lists stay what they are when one is shown.
LEMMA ListedKeeps ==
  ASSUME TokensOK, NEW cur, NEW up, NEW ok, ok \subseteq Node, Tokens!List(cur, up, ok),
         UNCHANGED <<list, sees, last, cache>>
  PROVE  TokensOK'
<1>1. basis' = [n \in ok |-> cache[n]]
  BY DEF Tokens!List
<1>2. Seen' = Seen
  BY DEF Seen, Movement, Held, Tokens!LegType
<1>3. \A n \in DOMAIN basis' : n \in Node /\ basis'[n] = cache[n]
  BY <1>1
<1>4. Told' \subseteq Told
  <2>1. sees' = sees /\ cache' = cache
    OBVIOUS
  <2>2. \A h \in UNION {basis'[n] : n \in DOMAIN basis'} : h \in UNION {cache[n] : n \in Node}
    BY <1>3
  <2> SUFFICES ASSUME NEW h \in Told' PROVE h \in Told
    OBVIOUS
  <2>3. \/ h \in UNION {sees[n] : n \in Node}
        \/ h \in UNION {cache[n] : n \in Node}
        \/ h \in UNION {basis'[n] : n \in DOMAIN basis'}
    BY <2>1, Zenon DEF Told
  <2> QED
    BY <2>2, <2>3, Zenon DEF Told
<1>5. Telling(basis)'
  BY <1>2, <1>3 DEF TokensOK, Telling
<1> QED
  BY <1>2, <1>4, <1>5 DEF TokensOK, Telling, Agreed

LEMMA SameOrder ==
  ASSUME list' = list
  PROVE  /\ RowKey' = RowKey /\ Seen' = Seen
         /\ \A c, x : Tokens!Before(c, x)' = Tokens!Before(c, x)
         /\ \A r : Tokens!Key(r)' = Tokens!Key(r)
BY DEF RowKey, Seen, Movement, Held, Tokens!LegType, Tokens!Before, Tokens!MovementBefore,
       Tokens!HolderBefore, Tokens!TokenBefore, Tokens!Time, Tokens!Key

\* A page of B shown to one who has seen the rows S, none of which lies beyond the page's.
RowsGoOn(S, B, up) ==
  /\ UNCHANGED <<list, sees, last, cache, types>>
  /\ ~rowAgain' /\ rowDir' \in {"down", "up"} /\ rowStanding' \subseteq RowKey /\ S \subseteq RowKey
  /\ (rowShown' = S \cup Tokens!Keys(rowPage')) \/ rowShown' = {}
  /\ rowDir' = "down" =>
       /\ ~up /\ rowShown' = S \cup Tokens!Keys(rowPage')
       /\ \A x \in rowStanding' \ S : \E r \in B : x = Tokens!Key(r)
       /\ \A s \in S, r \in B : ~Tokens!Before(Tokens!Key(r), s)

LEMMA RowsOnward ==
  ASSUME TokensOK, NEW cur, NEW up, up \in BOOLEAN, NEW ok, NEW L, NEW B,
         Shows(cur, up, ok, L, B), NEW S, RowsGoOn(S, B, up)
  PROVE  TokensInv'
<1>1. /\ basis' = [n \in ok |-> cache[n]] /\ B \subseteq L /\ rowPage' \subseteq B
      /\ \A r \in L : Tokens!Key(r) \in RowKey
      /\ \A c \in rowOlder' : /\ c \in RowKey /\ \E r \in rowPage' : c = Tokens!Key(r)
                              /\ \A r \in rowPage' : ~Tokens!Before(c, Tokens!Key(r))
                              /\ \A r \in B \ rowPage' : Tokens!Before(c, Tokens!Key(r))
      /\ (rowOlder' = {} /\ ~up) => B = rowPage'
  <2>1. Shown(up, ok, L, B)
    BY Listing
  <2> QED
    BY <2>1 DEF Shown
<1>2. TokensOK'
  BY ListedKeeps DEF Shows, RowsGoOn
<1>3. Tokens!Keys(rowPage') = {Tokens!Key(r) : r \in rowPage'}
  BY DEF Tokens!Keys
<1>4. Tokens!Keys(rowPage') \subseteq RowKey
  BY <1>1, <1>3
<1>5. rowDir' = "down" =>
        /\ rowOlder' = {} => rowStanding' \subseteq rowShown'
        /\ \A c \in rowOlder' : /\ \A x \in rowShown' : ~Tokens!Before(c, x)
                                /\ \A x \in rowStanding' \ rowShown' : Tokens!Before(c, x)
  <2> SUFFICES ASSUME rowDir' = "down"
               PROVE  /\ rowOlder' = {} => rowStanding' \subseteq rowShown'
                      /\ \A c \in rowOlder' : /\ \A x \in rowShown' : ~Tokens!Before(c, x)
                                              /\ \A x \in rowStanding' \ rowShown' : Tokens!Before(c, x)
    OBVIOUS
  <2>1. /\ \A x \in rowStanding' \ S : \E r \in B : x = Tokens!Key(r)
        /\ \A s \in S, r \in B : ~Tokens!Before(Tokens!Key(r), s)
        /\ ~up /\ rowShown' = S \cup Tokens!Keys(rowPage')
    BY DEF RowsGoOn
  <2>2. \A x \in rowStanding' \ rowShown' : \E r \in B \ rowPage' : x = Tokens!Key(r)
    BY <1>3, <2>1
  <2>3. rowOlder' = {} => rowStanding' \subseteq rowShown'
    BY <1>1, <2>1, <2>2
  <2>4. \A c \in rowOlder' : \A x \in rowShown' : ~Tokens!Before(c, x)
    BY <1>1, <1>3, <2>1
  <2>5. \A c \in rowOlder' : \A x \in rowStanding' \ rowShown' : Tokens!Before(c, x)
    BY <1>1, <2>2
  <2> QED
    BY <2>3, <2>4, <2>5
<1>6. rowPage' \subseteq Tokens!Rows(basis)'
  <2>1. Tokens!Rows(basis)' = L
    BY <1>1 DEF Shows, RowsGoOn, Tokens!Rows, Tokens!HolderRows, Tokens!SharedRows, Tokens!Wanted
  <2> QED
    BY <1>1, <2>1
<1>7. rowShown' \subseteq RowKey /\ rowOlder' \subseteq RowKey
  BY <1>1, <1>4 DEF RowsGoOn
<1>8. RowWalk'
  <2>1. /\ list' = list /\ ~rowAgain' /\ rowDir' \in {"down", "up"} /\ rowStanding' \subseteq RowKey
    BY DEF RowsGoOn
  <2> QED
    BY <1>5, <1>6, <1>7, <2>1, SameOrder DEF RowWalk
<1> QED
  BY <1>2, <1>8 DEF TokensInv

LEMMA TurnRows ==
  ASSUME TokensInv, NEW ok \in SUBSET Node,
         Tokens!Open(ok) \/ Tokens!TurnOlder(ok) \/ Tokens!TurnNewer(ok)
  PROVE  TokensInv'
<1>1. TokensOK /\ RowWalk
  BY DEF TokensInv
<1>2. /\ UNCHANGED <<list, sees, last, cache, types>>
      /\ rowDir' \in {"down", "up"}
  BY DEF Tokens!Open, Tokens!TurnOlder, Tokens!TurnNewer
<1>3. CASE Tokens!Open(ok)
  <2>0. PICK up \in BOOLEAN : up = FALSE
    OBVIOUS
  <2>01. PICK at : at = Tokens!Nil
    OBVIOUS
  <2>1. PICK L, B : Shows(at, up, ok, L, B)
    BY <1>3, <2>0, <2>01, Zenon DEF Tokens!Open, Shows
  <2>2. /\ rowDir' = "down" /\ rowStanding' = Tokens!Listed /\ rowShown' = Tokens!Keys(rowPage')
        /\ rowAgain' = FALSE
    BY <1>3 DEF Tokens!Open
  <2>3. basis' = [n \in ok |-> cache[n]] /\ \A r \in L : Tokens!Key(r) \in RowKey
    <3>1. Shown(up, ok, L, B)
      BY <1>1, <2>1, Listing
    <3> QED
      BY <3>1 DEF Shown
  <2>4. rowStanding' = {Tokens!Key(r) : r \in L} /\ B = L
    BY <2>0, <2>01, <2>1, <2>2, <2>3 DEF Shows, Tokens!Listed, Tokens!Keys, Tokens!Beyond, Tokens!Nil
  <2>5. PICK S \in SUBSET RowKey : S = {}
    OBVIOUS
  <2>6. rowShown' = S \cup Tokens!Keys(rowPage') /\ rowStanding' \subseteq RowKey
    BY <2>2, <2>3, <2>4, <2>5
  <2> QED
    <3>1. RowsGoOn(S, B, up)
      BY <2>0, <1>2, <2>2, <2>4, <2>5, <2>6 DEF RowsGoOn
    <3> QED
      BY <1>1, <2>1, <3>1, RowsOnward
<1>4. CASE Tokens!TurnNewer(ok)
  <2>0. PICK up \in BOOLEAN : up = TRUE
    OBVIOUS
  <2>01. PICK at : at = rowNewer
    OBVIOUS
  <2>1. PICK L, B : Shows(at, up, ok, L, B)
    BY <1>4, <2>0, <2>01, Zenon DEF Tokens!TurnNewer, Shows
  <2>2. /\ rowDir' = "up" /\ rowStanding' = {} /\ rowShown' = {} /\ rowAgain' = FALSE
    BY <1>4 DEF Tokens!TurnNewer
  <2>3. PICK S \in SUBSET RowKey : S = {}
    OBVIOUS
  <2> QED
    <3>1. RowsGoOn(S, B, up)
      BY <2>0, <1>2, <2>2, <2>3 DEF RowsGoOn
    <3> QED
      BY <1>1, <2>1, <3>1, RowsOnward
<1>5. CASE Tokens!TurnOlder(ok)
  <2>0. PICK up \in BOOLEAN : up = FALSE
    OBVIOUS
  <2>01. PICK at : at = rowOlder
    OBVIOUS
  <2>1. PICK L, B : Shows(at, up, ok, L, B)
    BY <1>5, <2>0, <2>01, Zenon DEF Tokens!TurnOlder, Shows
  <2>2. rowDir' = "down" /\ rowOlder # Tokens!Nil
    BY <1>5 DEF Tokens!TurnOlder
  <2>3. /\ basis' = [n \in ok |-> cache[n]] /\ rowPage' \subseteq B /\ B \subseteq L
        /\ \A r \in L : Tokens!Key(r) \in RowKey
    <3>1. Shown(up, ok, L, B)
      BY <1>1, <2>1, Listing
    <3> QED
      BY <3>1 DEF Shown
  <2>4. Tokens!Listed = {Tokens!Key(r) : r \in L} /\ Tokens!Keys(rowPage') = {Tokens!Key(r) : r \in rowPage'}
    BY <2>1, <2>3 DEF Shows, Tokens!Listed, Tokens!Keys
  <2>5. \A r \in L : r \in B <=> \A c \in rowOlder : Tokens!Before(c, Tokens!Key(r))
    BY <2>0, <2>01, <2>1 DEF Shows, Tokens!Beyond
  <2>6. PICK S : S = IF rowDir = "down" THEN rowShown ELSE {}
    OBVIOUS
  <2>7. S \in SUBSET RowKey /\ rowOlder \subseteq RowKey
    BY <1>1, <2>6 DEF RowWalk
  <2>8. rowShown' = S \cup Tokens!Keys(rowPage')
    BY <1>5, <2>6 DEF Tokens!TurnOlder
  <2>9. rowStanding' \subseteq RowKey
    BY <1>5, <2>3, <2>4 DEF Tokens!TurnOlder
  <2>10. \A x \in rowStanding' \ S : \E r \in B : x = Tokens!Key(r)
    <3>1. CASE rowDir = "down"
      <4>1. \A x \in rowStanding \ S : \A c \in rowOlder : Tokens!Before(c, x)
        BY <1>1, <2>6, <3>1 DEF RowWalk
      <4>2. rowStanding' = rowStanding \cap Tokens!Listed
        BY <1>5, <3>1 DEF Tokens!TurnOlder
      <4> QED
        BY <2>4, <2>5, <4>1, <4>2
    <3>2. CASE rowDir # "down"
      <4>1. rowStanding' = Tokens!Listed \cap
              (Tokens!Keys(rowPage') \cup {k \in Tokens!Listed : \A c \in rowOlder : Tokens!Before(c, k)})
        BY <1>5, <3>2 DEF Tokens!TurnOlder
      <4> QED
        BY <2>3, <2>4, <2>5, <4>1
    <3> QED
      BY <3>1, <3>2
  <2>11. \A s \in S, r \in B : ~Tokens!Before(Tokens!Key(r), s)
    <3> SUFFICES ASSUME NEW s \in S, NEW r \in B, Tokens!Before(Tokens!Key(r), s) PROVE FALSE
      OBVIOUS
    <3>1. PICK c \in rowOlder : c \in RowKey
      BY <2>2, <2>7 DEF Tokens!Nil
    <3>2. Tokens!Before(c, Tokens!Key(r)) /\ Tokens!Key(r) \in RowKey /\ s \in RowKey
      BY <2>3, <2>5, <2>7
    <3>3. ~Tokens!Before(c, s)
      BY <1>1, <2>6 DEF RowWalk
    <3>4. Orders(KeyOrder, RowKey)
      BY <1>1, KeysOrdered DEF TokensOK
    <3>5. <<c, Tokens!Key(r)>> \in KeyOrder /\ <<Tokens!Key(r), s>> \in KeyOrder /\ <<c, s>> \notin KeyOrder
      BY <3>1, <3>2, <3>3 DEF KeyOrder
    <3> QED
      BY <3>1, <3>2, <3>4, <3>5 DEF Orders
  <2>12. ~rowAgain'
    <3>1. S \cap Tokens!Keys(rowPage') = {}
      <4> SUFFICES ASSUME NEW r \in rowPage', Tokens!Key(r) \in S PROVE FALSE
        BY <2>4
      <4>1. PICK c \in rowOlder : Tokens!Before(c, Tokens!Key(r))
        BY <2>2, <2>3, <2>5 DEF Tokens!Nil
      <4> QED
        BY <1>1, <2>6, <4>1 DEF RowWalk
    <3> QED
      BY <1>1, <1>5, <2>6, <3>1 DEF Tokens!TurnOlder, RowWalk
  <2> QED
    <3>1. RowsGoOn(S, B, up)
      BY <2>0, <1>2, <2>2, <2>7, <2>8, <2>9, <2>10, <2>11, <2>12 DEF RowsGoOn
    <3> QED
      BY <1>1, <2>1, <3>1, RowsOnward
<1> QED
  BY <1>3, <1>4, <1>5

\* A step of the ledger leaves what is shown as it is.
LEMMA RowsStay ==
  ASSUME TokensInv, list' = list, types' = types,
         UNCHANGED <<basis, rowPage, rowOlder, rowDir, rowStanding, rowShown, rowAgain>>
  PROVE  RowWalk'
<1>1. Tokens!Rows(basis)' = Tokens!Rows(basis)
  BY DEF Tokens!Rows, Tokens!HolderRows, Tokens!SharedRows, Tokens!Wanted
<1> QED
  BY <1>1, SameOrder DEF TokensInv, RowWalk

-----------------------------------------------------------------------------
(* The ledger and what nodes keep of it.                                   *)

\* A node makes finitely many movements of an update; those it finds logged are the senders'.
LEMMA MovementsAre ==
  ASSUME NEW u \in Nat, NEW v \in Views
  PROVE  Tokens!MovementsOf(u, v) \subseteq Movement /\ IsFiniteSet(Tokens!MovementsOf(u, v))
<1>1. v.creates \subseteq {5, 6}
  BY ListsAssumption
<1>2. \A S \in SUBSET (1..6) : IsFiniteSet(S)
  <2>1. PICK a, b \in Int : a = 1 /\ b = 6
    OBVIOUS
  <2>2. IsFiniteSet(a..b)
    BY FS_Interval
  <2>3. PICK T : T = 1..6 /\ IsFiniteSet(T)
    BY <2>1, <2>2
  <2> QED
    BY <2>3, FS_Subset
<1>3. Tokens!Logged(u, v) \subseteq Movement /\ IsFiniteSet(Tokens!Logged(u, v))
  <2>1. PICK S, T : S = v.logged \cap 1..2 /\ T = Tokens!Logged(u, v)
    OBVIOUS
  <2>2. T = {Tokens!Row(u, e, Tokens!LegType(e)) : e \in S}
    BY <2>1 DEF Tokens!Logged
  <2>3. [e \in S |-> Tokens!Row(u, e, Tokens!LegType(e))] \in Surjection(S, T)
    BY <2>2 DEF Surjection
  <2>4. IsFiniteSet(T)
    <3>1. S \in SUBSET (1..6)
      BY <2>1
    <3> QED
      BY <1>2, <2>3, <3>1, FS_Surjection
  <2>5. \A e \in S : Tokens!Row(u, e, Tokens!LegType(e)) \in Movement
    BY <2>1 DEF Tokens!Row, Tokens!LegType, Movement
  <2> QED
    BY <2>1, <2>2, <2>4, <2>5
<1>4. ASSUME NEW S \in SUBSET {5, 6}, NEW t \in {"Mint", "Create"}, NEW T,
             T = {Tokens!Row(u, c, t) : c \in S}
      PROVE  T \subseteq Movement /\ IsFiniteSet(T)
  <2>1. [c \in S |-> Tokens!Row(u, c, t)] \in Surjection(S, T)
    BY <1>4 DEF Surjection
  <2>2. IsFiniteSet(S)
    BY <1>2
  <2>3. IsFiniteSet(T)
    BY <2>1, <2>2, FS_Surjection
  <2>4. \A c \in S : Tokens!Row(u, c, t) \in Movement
    BY DEF Tokens!Row, Movement
  <2> QED
    BY <1>4, <2>3, <2>4
<1>5. Tokens!Inferred(u, v) \subseteq Movement /\ IsFiniteSet(Tokens!Inferred(u, v))
  <2>1. PICK S, T \in SUBSET {5, 6} :
          /\ S = IF "Transfer" \in v.exercised \/ v.exercised = {} THEN v.creates ELSE {}
          /\ T = IF "Mint" \in v.exercised THEN v.creates \ {5} ELSE {}
    BY <1>1
  <2>2. Tokens!Inferred(u, v) = {Tokens!Row(u, c, "Create") : c \in S} \cup {Tokens!Row(u, c, "Mint") : c \in T}
    BY <2>1 DEF Tokens!Inferred
  <2>3. PICK C, M : C = {Tokens!Row(u, c, "Create") : c \in S} /\ M = {Tokens!Row(u, c, "Mint") : c \in T}
    OBVIOUS
  <2>4. C \subseteq Movement /\ M \subseteq Movement /\ IsFiniteSet(C) /\ IsFiniteSet(M)
    BY <1>4, <2>3
  <2>5. IsFiniteSet(C \cup M)
    BY <2>4, FS_Union
  <2> QED
    BY <2>2, <2>3, <2>4, <2>5
<1> QED
  BY <1>3, <1>5 DEF Tokens!MovementsOf

\* What the nodes see changes; what they keep and what is shown do not.
LEMMA SeesKeeps ==
  ASSUME TokensInv, UNCHANGED <<list, cache, basis>>, last' \in Nat, last <= last',
         DOMAIN sees' = Node, \A n \in Node : sees'[n] \subseteq Seen /\ IsFiniteSet(sees'[n]),
         list = "holders" =>
           \/ \A n \in Node : sees'[n] \subseteq sees[n]
           \/ \E h \in Held : h.contract = last' /\ last' > last
                              /\ \A n \in Node : sees'[n] \subseteq sees[n] \cup {h}
  PROVE  TokensOK'
<1>1. TokensOK
  BY DEF TokensInv
<1>2. Seen' = Seen
  BY SameOrder
<1>3. Telling(sees)' /\ Telling(cache)' /\ Telling(basis)'
  BY <1>1, <1>2 DEF TokensOK, Telling
<1>4. Agreed(Told)'
  <2> SUFFICES ASSUME list = "holders"
               PROVE  \A h, g \in Told' : h.contract <= last' /\ (h.contract = g.contract => h = g)
    BY DEF Agreed
  <2>1. Told \subseteq Held
    BY <1>1 DEF Told, TokensOK, Telling, Seen
  <2>2. \A h \in Told : h.contract \in Nat /\ h.contract <= last
    BY <1>1, <2>1 DEF TokensOK, Agreed, Held
  <2>3. \A h, g \in Told : h.contract = g.contract => h = g
    BY <1>1 DEF TokensOK, Agreed
  <2>4. /\ UNION {cache'[n] : n \in Node} \subseteq Told
        /\ UNION {basis'[n] : n \in DOMAIN basis'} \subseteq Told
        /\ UNION {sees[n] : n \in Node} \subseteq Told
    BY DEF Told
  <2>5. Told' = (UNION {sees'[n] : n \in Node}) \cup (UNION {cache'[n] : n \in Node})
          \cup (UNION {basis'[n] : n \in DOMAIN basis'})
    BY DEF Told
  <2>6. CASE \A n \in Node : sees'[n] \subseteq sees[n]
    <3>1. UNION {sees'[n] : n \in Node} \subseteq Told
      BY <2>4, <2>6
    <3>2. Told' \subseteq Told
      BY <2>4, <2>5, <3>1
    <3> QED
      BY <1>1, <2>2, <2>3, <3>2 DEF TokensOK
  <2>7. CASE \E h \in Held : h.contract = last' /\ last' > last
                             /\ \A n \in Node : sees'[n] \subseteq sees[n] \cup {h}
    <3>1. PICK k \in Held : /\ k.contract = last' /\ last' > last
                            /\ \A n \in Node : sees'[n] \subseteq sees[n] \cup {k}
      BY <2>7
    <3>2. UNION {sees'[n] : n \in Node} \subseteq Told \cup {k}
      BY <2>4, <3>1
    <3>3. Told' \subseteq Told \cup {k}
      BY <2>4, <2>5, <3>2
    <3>4. last \in Nat
      BY <1>1 DEF TokensOK
    <3>5. \A h \in Told : h.contract < k.contract
      BY <2>2, <3>1, <3>4
    <3>6. \A h, g \in Told \cup {k} : h.contract <= last' /\ (h.contract = g.contract => h = g)
      BY <2>2, <2>3, <3>1, <3>4, <3>5
    <3> QED
      BY <3>3, <3>6
  <2> QED
    BY <2>6, <2>7
<1> QED
  BY <1>1, <1>3, <1>4 DEF TokensOK

LEMMA Happens ==
  ASSUME TokensInv, Tokens!Happen
  PROVE  TokensInv'
<1>1. TokensOK /\ RowWalk
  BY DEF TokensInv
<1>2. /\ last' = last + 1
      /\ UNCHANGED <<list, cache, types, basis, rowPage, rowOlder, rowDir, rowStanding, rowShown, rowAgain>>
  BY DEF Tokens!Happen, Tokens!shows, Tokens!walk
<1>3. last \in Nat /\ last' \in Nat /\ last < last'
  BY <1>1, <1>2 DEF TokensOK
<1>4. \A n \in Node : sees[n] \subseteq Seen /\ IsFiniteSet(sees[n])
  BY <1>1 DEF TokensOK, Telling
<1>5. /\ DOMAIN sees' = Node /\ \A n \in Node : sees'[n] \subseteq Seen /\ IsFiniteSet(sees'[n])
      /\ list = "holders" =>
           \E h \in Held : h.contract = last' /\ last' > last
                           /\ \A n \in Node : sees'[n] \subseteq sees[n] \cup {h}
  <2>1. CASE list = "movements"
    <3>1. PICK v \in [Node -> Views] : sees' = [n \in Node |-> sees[n] \cup Tokens!MovementsOf(last', v[n])]
      BY <2>1 DEF Tokens!Happen
    <3>2. \A n \in Node : /\ Tokens!MovementsOf(last', v[n]) \subseteq Seen
                          /\ IsFiniteSet(Tokens!MovementsOf(last', v[n]))
      BY <1>3, <2>1, MovementsAre DEF Seen
    <3> QED
      BY <1>4, <2>1, <3>1, <3>2, FS_Union
  <2>2. CASE list = "holders"
    <3>1. PICK p \in Node, a \in Amounts, by \in (SUBSET Node) \ {{}} :
            sees' = [n \in Node |-> IF n \in by THEN sees[n] \cup {Tokens!Holding(last', p, a)} ELSE sees[n]]
      BY <2>2 DEF Tokens!Happen
    <3>2. PICK h \in Held : h = Tokens!Holding(last', p, a) /\ h.contract = last'
      <4>1. p \in Nat /\ a \in Int
        BY NodesAssumption, ListsAssumption
      <4>2. Tokens!Holding(last', p, a) = [contract |-> last', party |-> p, amount |-> a]
        BY DEF Tokens!Holding
      <4>3. Tokens!Holding(last', p, a) \in Held /\ Tokens!Holding(last', p, a).contract = last'
        BY <1>3, <4>1, <4>2 DEF Held
      <4> QED
        BY <4>3
    <3>3. h \in Seen
      BY <2>2, <3>2 DEF Seen
    <3>4. \A n \in Node : sees'[n] \subseteq sees[n] \cup {h} /\ (sees'[n] = sees[n] \/ sees'[n] = sees[n] \cup {h})
      BY <3>1, <3>2
    <3>5. \A n \in Node : IsFiniteSet(sees'[n])
      <4> SUFFICES ASSUME NEW n \in Node PROVE IsFiniteSet(sees'[n])
        OBVIOUS
      <4>1. IsFiniteSet(sees[n]) /\ IsFiniteSet(sees[n] \cup {h})
        BY <1>4, FS_AddElement
      <4> QED
        BY <3>4, <4>1
    <3> QED
      BY <1>3, <1>4, <3>1, <3>2, <3>3, <3>4, <3>5
  <2>3. CASE list = "tokens"
    <3>1. PICK by \in (SUBSET Node) \ {{}} :
            sees' = [n \in Node |-> IF n \in by THEN sees[n] \cup {last'} ELSE sees[n]]
      BY <2>3 DEF Tokens!Happen
    <3>2. \A n \in Node : sees'[n] = sees[n] \/ sees'[n] = sees[n] \cup {last'}
      BY <3>1
    <3>3. last' \in Seen
      BY <1>3, <2>3 DEF Seen
    <3>4. \A n \in Node : IsFiniteSet(sees'[n])
      <4> SUFFICES ASSUME NEW n \in Node PROVE IsFiniteSet(sees'[n])
        OBVIOUS
      <4>1. IsFiniteSet(sees[n]) /\ IsFiniteSet(sees[n] \cup {last'})
        BY <1>4, FS_AddElement
      <4> QED
        BY <3>2, <4>1
    <3> QED
      BY <1>4, <2>3, <3>1, <3>2, <3>3, <3>4
  <2> QED
    BY <1>1, <2>1, <2>2, <2>3 DEF TokensOK
<1>6. TokensOK'
  BY <1>2, <1>3, <1>5, SeesKeeps
<1>7. RowWalk'
  BY <1>2, RowsStay
<1> QED
  BY <1>6, <1>7 DEF TokensInv

LEMMA Archives ==
  ASSUME TokensInv, Tokens!Archive
  PROVE  TokensInv'
<1>1. TokensOK
  BY DEF TokensInv
<1>2. UNCHANGED <<list, last, cache, types, basis, rowPage, rowOlder, rowDir, rowStanding, rowShown, rowAgain>>
  BY DEF Tokens!Archive, Tokens!shows, Tokens!walk
<1>3. PICK h : sees' = [n \in Node |-> sees[n] \ {h}]
  BY DEF Tokens!Archive
<1>4. \A n \in Node : sees'[n] \subseteq sees[n] /\ sees[n] \subseteq Seen /\ IsFiniteSet(sees[n])
  BY <1>1, <1>3 DEF TokensOK, Telling
<1>5. \A n \in Node : sees'[n] \subseteq Seen /\ IsFiniteSet(sees'[n])
  BY <1>4, FS_Subset
<1>6. last' \in Nat /\ last <= last'
  BY <1>1, <1>2 DEF TokensOK
<1>7. TokensOK'
  BY <1>2, <1>3, <1>4, <1>5, <1>6, SeesKeeps
<1>8. RowWalk'
  BY <1>2, RowsStay
<1> QED
  BY <1>7, <1>8 DEF TokensInv

LEMMA Refreshes ==
  ASSUME TokensInv, NEW n \in Node, Tokens!Refresh(n)
  PROVE  TokensInv'
<1>1. TokensOK
  BY DEF TokensInv
<1>2. /\ UNCHANGED <<list, last, sees, types, basis, rowPage, rowOlder, rowDir, rowStanding, rowShown, rowAgain>>
      /\ cache' = [cache EXCEPT ![n] = sees[n]]
  BY DEF Tokens!Refresh, Tokens!shows, Tokens!walk
<1>3. DOMAIN cache' = Node /\ \A m \in Node : cache'[m] = sees[m] \/ cache'[m] = cache[m]
  BY <1>1, <1>2 DEF TokensOK
<1>4. Seen' = Seen
  BY <1>2, SameOrder
<1>5. Telling(cache)' /\ Telling(sees)' /\ Telling(basis)'
  BY <1>1, <1>2, <1>3, <1>4 DEF TokensOK, Telling
<1>6. Told' \subseteq Told
  <2> SUFFICES ASSUME NEW h \in Told' PROVE h \in Told
    OBVIOUS
  <2>1. \/ h \in UNION {sees[m] : m \in Node}
        \/ h \in UNION {cache'[m] : m \in Node}
        \/ h \in UNION {basis[m] : m \in DOMAIN basis}
    BY <1>2 DEF Told
  <2> QED
    BY <1>3, <2>1 DEF Told
<1>7. TokensOK'
  BY <1>1, <1>2, <1>3, <1>5, <1>6 DEF TokensOK, Agreed
<1>8. RowWalk'
  BY <1>2, RowsStay
<1> QED
  BY <1>7, <1>8 DEF TokensInv

LEMMA TokensInit == ASSUME Tokens!Init PROVE TokensInv
<1>1. /\ list \in {"movements", "holders", "tokens"} /\ last = 0 /\ cache = sees /\ basis = cache
      /\ sees = [n \in Node |-> {}] /\ rowPage = {} /\ rowOlder = {} /\ rowDir = "none"
      /\ rowStanding = {} /\ rowShown = {} /\ rowAgain = FALSE
  BY DEF Tokens!Init, Tokens!Nil
<1>2. Telling(sees) /\ DOMAIN sees = Node
  BY <1>1, FS_EmptySet DEF Telling
<1>3. Told = {}
  BY <1>1 DEF Told
<1>4. TokensOK
  BY <1>1, <1>2, <1>3 DEF TokensOK, Agreed
<1>5. RowWalk
  BY <1>1 DEF RowWalk
<1> QED
  BY <1>4, <1>5 DEF TokensInv

LEMMA TokensStep == ASSUME TokensInv, [Tokens!Next]_Tokens!vars PROVE TokensInv'
<1>1. CASE \E ok \in (SUBSET Node) \ {{}} : Tokens!Open(ok) \/ Tokens!TurnOlder(ok) \/ Tokens!TurnNewer(ok)
  BY <1>1, TurnRows
<1>2. CASE \E n \in Node : Tokens!Refresh(n)
  BY <1>2, Refreshes
<1>3. CASE Tokens!Happen \/ Tokens!Archive
  BY <1>3, Happens, Archives
<1>4. CASE UNCHANGED Tokens!vars
  <2>1. UNCHANGED <<list, sees, last, cache, types, basis, rowPage, rowOlder, rowDir, rowStanding,
                    rowShown, rowAgain>>
    BY <1>4 DEF Tokens!vars, Tokens!shows, Tokens!walk
  <2>2. TokensOK'
    BY <2>1 DEF TokensInv, TokensOK, Telling, Seen, Movement, Held, Tokens!LegType, Told, Agreed
  <2>3. RowWalk'
    BY <2>1, RowsStay
  <2> QED
    BY <2>2, <2>3 DEF TokensInv
<1> QED
  BY <1>1, <1>2, <1>3, <1>4 DEF Tokens!Next

-----------------------------------------------------------------------------
(* What walks show, and what rows count.                                   *)

LEMMA WalkedRows == ASSUME TokensInv PROVE Tokens!WalksShowEveryRowOnce
BY DEF TokensInv, RowWalk, Tokens!WalksShowEveryRowOnce, Tokens!Nil

\* A holder's row is what merging what its page was made of added up.
LEMMA HoldersCount == ASSUME TokensInv PROVE Tokens!RowsAddUp
<1> DEFINE Of(r) == {h \in UNION {basis[n] : n \in DOMAIN basis} : h.party = r.party}
<1> SUFFICES ASSUME list = "holders", NEW r \in rowPage
             PROVE  /\ r.amount = Sums(Of(r))[Of(r)]
                    /\ r.nodes = {n \in DOMAIN basis : basis[n] \cap Of(r) # {}}
  <2>1. ASSUME list = "holders",
               \A r \in rowPage : /\ r.amount = Sums(Of(r))[Of(r)]
                                  /\ r.nodes = {n \in DOMAIN basis : basis[n] \cap Of(r) # {}}
        PROVE  Tokens!RowsAddUp
    BY <2>1, Zenon DEF Tokens!RowsAddUp, Tokens!MapThenSumSet, Tokens!MapThenFoldSet, Sums, Any
  <2> QED
    BY <2>1 DEF Tokens!RowsAddUp
<1>1. TokensOK /\ Telling(basis) /\ r \in Tokens!Rows(basis)
  BY DEF TokensInv, TokensOK, RowWalk
<1>2. PICK S : S = Tokens!Observations(basis)
  OBVIOUS
<1>3. S \in SUBSET Observation /\ IsFiniteSet(S)
  BY <1>1, <1>2, ObservationsAre
<1>4. \A o, u \in S : o.of.contract = u.of.contract => o.of = u.of
  <2>1. \A o \in S : o.of \in Told
    BY <1>2 DEF Tokens!Observations, Told
  <2> QED
    BY <1>1, <2>1 DEF TokensOK, Agreed
<1>5. AddedUp(S, S, Merges(S)[S])
  BY <1>3, <1>4, HoldersAddUp
<1>6. PICK q \in Merges(S)[S] : r = [party |-> q.party, amount |-> q.amount, nodes |-> q.nodes]
  BY <1>1, <1>2, MergedIs DEF Tokens!Rows, Tokens!HolderRows
<1>7. PICK P : P = Of(r)
  OBVIOUS
<1>8. /\ \A o \in S : o.node \in DOMAIN basis /\ o.of \in basis[o.node]
      /\ \A n \in DOMAIN basis : \A h \in basis[n] : \E o \in S : o.node = n /\ o.of = h
  <2>1. \A o \in S : \E n \in DOMAIN basis : \E h \in basis[n] : o = [node |-> n, of |-> h]
    BY <1>2 DEF Tokens!Observations
  <2>2. \A n \in DOMAIN basis : \A h \in basis[n] : [node |-> n, of |-> h] \in S
    BY <1>2 DEF Tokens!Observations
  <2>3. \A n \in DOMAIN basis : \A h \in basis[n] : \E o \in S : o.node = n /\ o.of = h
    <3> TAKE n \in DOMAIN basis
    <3> TAKE h \in basis[n]
    <3>1. PICK o \in S : o = [node |-> n, of |-> h]
      BY <2>2
    <3> QED
      BY <3>1
  <2> QED
    BY <2>1, <2>3
<1>9. \A h : h \in P <=> h.party = r.party /\ \E n \in DOMAIN basis : h \in basis[n]
  BY <1>7
<1>10. OfParty(S, r.party) = P
  BY <1>8, <1>9 DEF OfParty
<1>11. q.party = r.party /\ r.amount = q.amount /\ r.nodes = q.nodes
  BY <1>6
<1>12. /\ q.nodes = {o.node : o \in {o \in S : o.of.party = q.party}}
       /\ q.amount = Sums(OfParty(S, q.party))[OfParty(S, q.party)]
  BY <1>5 DEF AddedUp
<1>13. {o.node : o \in {o \in S : o.of.party = r.party}} = {n \in DOMAIN basis : basis[n] \cap P # {}}
  BY <1>8, <1>9
<1> QED
  BY <1>7, <1>10, <1>11, <1>12, <1>13

\* One side of a logged leg makes a movement, and it is of one type.
LEMMA LegsOnce == ASSUME TokensInv PROVE Tokens!LegsComeOnce
<1> SUFFICES ASSUME list = "movements", NEW r \in Tokens!Rows(basis), NEW q \in Tokens!Rows(basis),
                    r.key.update = q.key.update, Tokens!Leg(r.key.event) = Tokens!Leg(q.key.event),
                    {r.key.event, q.key.event} \subseteq 1..4
             PROVE  r = q
  BY DEF Tokens!LegsComeOnce
<1>1. Telling(basis)
  BY DEF TokensInv, TokensOK
<1>2. r \in Tokens!SharedRows(basis) /\ q \in Tokens!SharedRows(basis)
  BY DEF Tokens!Rows
<1>3. \A s \in Tokens!SharedRows(basis) :
        s.key \in Movement /\ s = [key |-> s.key, nodes |-> {n \in DOMAIN basis : s.key \in basis[n]}]
  BY <1>1 DEF Tokens!SharedRows, Telling, Seen
<1>4. \A m \in {r.key, q.key} : m \in Movement /\ m.event \in 1..2 /\ m.type = Tokens!LegType(m.event)
  BY <1>2, <1>3 DEF Movement
<1>5. r.key.event = q.key.event
  BY <1>4 DEF Tokens!Leg
<1>6. r.key.type = q.key.type
  BY <1>4, <1>5
<1>7. r.key = q.key
  BY <1>4, <1>5, <1>6 DEF Movement
<1> QED
  BY <1>2, <1>3, <1>7

\* Tokens!WalksShowEveryRowOnce: a walk down through a list of tokens, holders or movements shows no
\* row twice, and at its end has shown all that stood in every list it was cut from.
THEOREM RowWalks == Tokens!Spec => []Tokens!WalksShowEveryRowOnce
<1>1. Tokens!Spec => []TokensInv
  BY TokensInit, TokensStep, PTL DEF Tokens!Spec
<1> QED
  BY <1>1, WalkedRows, PTL

\* RowsCountOnce: a holder's row adds up every contract of the party that some node tells of once,
\* and a leg of an update is one row whoever tells of it.
THEOREM RowsCounted == Tokens!Spec => []RowsCountOnce
<1>1. TokensInv => RowsCountOnce
  BY HoldersCount, LegsOnce DEF RowsCountOnce
<1>2. Tokens!Spec => []TokensInv
  BY TokensInit, TokensStep, PTL DEF Tokens!Spec
<1> QED
  BY <1>1, <1>2, PTL

\* WalksAreComplete: the walks through contracts and through tokens, holders and movements.
THEOREM Walks == (Contracts!Spec /\ Tokens!Spec) => []WalksAreComplete
<1>1. Contracts!WalkIsComplete /\ Tokens!WalksShowEveryRowOnce => WalksAreComplete
  BY DEF WalksAreComplete
<1> QED
  BY <1>1, ContractWalks, RowWalks, PTL

-----------------------------------------------------------------------------
(* Each behaviour of the four readings together is one of each of them, so what is
   proved of the four holds of MCSpec: every invariant that is checked of it. *)
THEOREM AnswersAreOfComponents ==
  MCSpec => /\ Spec /\ Calls!Spec /\ Contracts!Spec /\ Tokens!Spec
            /\ [](/\ ListingsAreComplete /\ HoldingsOfOneMoment /\ TopologyRowsAgree
                  /\ PageIsOfAllMatching /\ WalksAreComplete /\ RowsCountOnce)
<1>1. MCInit => Init /\ Calls!Init /\ Contracts!Init /\ Tokens!Init
  BY DEF MCInit
<1>2. [MCNext]_mcVars => /\ [Next]_vars /\ [Calls!Next]_(Calls!vars)
                         /\ [Contracts!Next]_(Contracts!vars) /\ [Tokens!Next]_(Tokens!vars)
  <2> SUFFICES ASSUME [MCNext]_mcVars
               PROVE  /\ Next \/ UNCHANGED vars
                      /\ Calls!Next \/ UNCHANGED callVars
                      /\ Contracts!Next \/ UNCHANGED contractVars
                      /\ Tokens!Next \/ UNCHANGED rowVars
    BY DEF callVars, contractVars, rowVars, Calls!vars, Calls!setting, Calls!data, Calls!listing, Calls!walk, Calls!topology,
           Contracts!vars, Contracts!ledger, Contracts!shows, Contracts!walk, Contracts!request,
           Tokens!vars, Tokens!shows, Tokens!walk
  <2> QED BY DEF MCNext, mcVars
<1>3. MCSpec => Spec /\ Calls!Spec /\ Contracts!Spec /\ Tokens!Spec
  BY <1>1, <1>2, PTL DEF MCSpec, Spec, Calls!Spec, Contracts!Spec, Tokens!Spec
<1> QED BY <1>3, Listings, HoldingsRead, TopologyRowsMerged, PageOfAllMatching, Walks, RowsCounted, PTL
====
