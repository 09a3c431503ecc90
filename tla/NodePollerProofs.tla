-------------------------- MODULE NodePollerProofs --------------------------
(***************************************************************************)
(* Theorems about NodePoller, for every set of nodes, every number of      *)
(* overlapping refreshes and every clock.  FreshInv is inductive, hence a  *)
(* snapshot shown as healthy is never older than its refresh; with what is *)
(* known when refreshes do not overlap, the ledger a snapshot shows never  *)
(* goes back.  CountedInv is inductive with it, hence the buckets of a     *)
(* node account for every update up to the last observed count; it rests   *)
(* on lemmas about sums of samples, which are folds over sequences.        *)
(***************************************************************************)
EXTENDS NodePoller, FiniteSetTheorems, WellFoundedInduction, TLAPS

-----------------------------------------------------------------------------
(* Folds over sequences (FoldLeft): what they are defined by exists.       *)

LEMMA LeastOf ==
  ASSUME NEW S \in SUBSET Nat, S # {}
  PROVE  \E x \in S : \A y \in S : x <= y
<1>1. PICK x \in S : \A y \in S : ~(<<y, x>> \in OpToRel(<, Nat))
  BY NatLessThanWellFounded, WFMin
<1>2. \A y \in S : ~(y < x)
  BY <1>1, Zenon DEF OpToRel
<1> QED
  BY <1>2

LEMMA MaxIs ==
  ASSUME NEW n \in Nat, NEW T \in SUBSET (1..n), T # {}
  PROVE  Max(T) \in T /\ \A y \in T : y <= Max(T)
<1> DEFINE below == {m \in Nat : \A y \in T : y <= m}
<1>1. \A y \in T : y \in Nat /\ y >= 1 /\ y <= n
  OBVIOUS
<1>2. n \in below /\ below \in SUBSET Nat
  BY <1>1
<1>3. PICK m \in below : \A k \in below : m <= k
  BY <1>2, LeastOf
<1>4. m \in Nat /\ \A y \in T : y <= m
  BY <1>3
<1>5. m \in T
  <2> SUFFICES ASSUME m \notin T PROVE FALSE
    OBVIOUS
  <2>1. \A y \in T : y < m
    BY <1>1, <1>4
  <2>2. m - 1 \in Nat
    <3>1. PICK y \in T : y < m
      BY <2>1
    <3> QED
      BY <1>1, <1>4, <3>1
  <2>3. \A y \in T : y <= m - 1
    BY <1>1, <1>4, <2>1
  <2> QED
    BY <1>3, <1>4, <2>2, <2>3
<1> HIDE DEF below
<1> QED
  BY <1>1, <1>4, <1>5 DEF Max

\* What G makes of the elements of a set of positions, the last one last.
Folded(f, T, base, G) ==
  IF T = {} THEN base ELSE G[Max(T)][f[T \ {Max(T)}]]

FoldsIn(f, n, Acc, base, G) ==
  /\ f \in [SUBSET (1..n) -> Acc]
  /\ \A T \in SUBSET (1..n) : f[T] = Folded(f, T, base, G)

LEMMA FoldExists ==
  ASSUME NEW n \in Nat, NEW Acc, NEW base \in Acc, NEW G \in [1..n -> [Acc -> Acc]]
  PROVE  \E f : FoldsIn(f, n, Acc, base, G)
<1> DEFINE Upto(m) == \E f \in [SUBSET (1..m) -> Acc] :
                         \A T \in SUBSET (1..m) : f[T] = Folded(f, T, base, G)
           bad == {m \in 0..n : ~Upto(m)}
<1>1. Upto(0)
  <2>1. SUBSET (1..0) = {{}}
    OBVIOUS
  <2>2. [T \in SUBSET (1..0) |-> base] \in [SUBSET (1..0) -> Acc]
    OBVIOUS
  <2> QED
    BY <2>1, <2>2 DEF Folded
<1>2. ASSUME NEW m \in 0..n, m # n, Upto(m) PROVE Upto(m + 1)
  <2>1. PICK f \in [SUBSET (1..m) -> Acc] : \A T \in SUBSET (1..m) : f[T] = Folded(f, T, base, G)
    BY <1>2
  <2> DEFINE g == [T \in SUBSET (1..(m + 1)) |-> Folded(f, T, base, G)]
  <2>2. \A T \in SUBSET (1..(m + 1)) :
           T # {} => Max(T) \in 1..n /\ T \ {Max(T)} \in SUBSET (1..m)
    <3> SUFFICES ASSUME NEW T \in SUBSET (1..(m + 1)), T # {}
                 PROVE  Max(T) \in 1..n /\ T \ {Max(T)} \in SUBSET (1..m)
      OBVIOUS
    <3>1. m + 1 \in Nat
      OBVIOUS
    <3>2. PICK x \in T : x = Max(T) /\ \A y \in T : y <= x
      BY <3>1, MaxIs
    <3>3. m \in Nat /\ n \in Nat /\ m + 1 <= n /\ \A y \in T : y \in Nat /\ y >= 1 /\ y <= m + 1
      BY <1>2
    <3>4. ASSUME NEW y \in T \ {x} PROVE y \in 1..m
      <4>1. y \in Nat /\ y >= 1 /\ y <= x /\ y # x /\ x \in Nat /\ x <= m + 1
        BY <3>2, <3>3
      <4> QED
        BY <3>3, <4>1
    <3>5. x \in 1..n
      BY <3>3
    <3> QED
      BY <3>2, <3>4, <3>5
  <2>3. SUBSET (1..m) \subseteq SUBSET (1..(m + 1))
    OBVIOUS
  <2>4. g \in [SUBSET (1..(m + 1)) -> Acc]
    <3> SUFFICES ASSUME NEW T \in SUBSET (1..(m + 1)) PROVE Folded(f, T, base, G) \in Acc
      OBVIOUS
    <3> QED
      BY <2>2 DEF Folded
  <2>5. \A T \in SUBSET (1..m) : g[T] = f[T]
    BY <2>1, <2>3
  <2>6. \A T \in SUBSET (1..(m + 1)) : g[T] = Folded(g, T, base, G)
    <3> SUFFICES ASSUME NEW T \in SUBSET (1..(m + 1))
                 PROVE  Folded(f, T, base, G) = Folded(g, T, base, G)
      OBVIOUS
    <3> HIDE DEF g
    <3> QED
      BY <2>2, <2>5 DEF Folded
  <2> HIDE DEF g
  <2> QED
    BY <2>4, <2>6
<1>3. ASSUME bad # {} PROVE FALSE
  <2>1. bad \in SUBSET Nat
    OBVIOUS
  <2>2. PICK m \in bad : \A k \in bad : m <= k
    BY <1>3, <2>1, LeastOf
  <2> HIDE DEF Upto
  <2>3. m # 0 /\ m \in 0..n
    BY <1>1, <2>2
  <2>4. m - 1 \in 0..n /\ m - 1 # n /\ m - 1 \notin bad /\ (m - 1) + 1 = m
    BY <2>2, <2>3
  <2> QED
    BY <1>2, <2>2, <2>4
<1> HIDE DEF Upto
<1>4. Upto(n)
  BY <1>3
<1> QED
  BY <1>4 DEF Upto, FoldsIn

\* The positions up to one of them.
LEMMA Upto ==
  ASSUME NEW n \in Nat, NEW k \in 1..n
  PROVE  /\ 1..k \in SUBSET (1..n) /\ 1..k # {} /\ Max(1..k) = k
         /\ (1..k) \ {k} = 1..(k - 1)
<1>1. 1..k \in SUBSET (1..n) /\ 1..k # {} /\ (1..k) \ {k} = 1..(k - 1)
  OBVIOUS
<1>2. Max(1..k) \in 1..k /\ \A y \in 1..k : y <= Max(1..k)
  BY <1>1, MaxIs
<1> QED
  BY <1>1, <1>2

-----------------------------------------------------------------------------
(* What the samples of a history add up to.                                *)

Sample == [bucket : Bucket, value : Int]

Sums(s) == CHOOSE f : f = [T \in SUBSET DOMAIN s |->
                             IF T = {} THEN 0 ELSE f[T \ {Max(T)}] + s[Max(T)].value]

LEMMA ActivityIs ==
  ASSUME NEW s PROVE Activity(s) = Sums(s)[DOMAIN s]
BY Zenon DEF Activity, FoldLeft, MapThenFoldSet, Sums

\* The sums of the beginnings of a sequence of samples.
SumsUp(g, s) ==
  /\ g \in [0..Len(s) -> Int]
  /\ g[0] = 0
  /\ \A k \in 1..Len(s) : g[k] = g[k - 1] + s[k].value

LEMMA SumsOf ==
  ASSUME NEW s \in Seq(Sample)
  PROVE  \E g : SumsUp(g, s) /\ Activity(s) = g[Len(s)]
<1> DEFINE n == Len(s)
           G == [k \in 1..n |-> [sum \in Int |-> sum + s[k].value]]
           Of(f) == [T \in SUBSET DOMAIN s |->
                       IF T = {} THEN 0 ELSE f[T \ {Max(T)}] + s[Max(T)].value]
<1>1. n \in Nat /\ DOMAIN s = 1..n /\ \A k \in 1..n : s[k].value \in Int
  <2>1. n \in Nat /\ DOMAIN s = 1..n /\ \A k \in 1..n : s[k] \in Sample
    OBVIOUS
  <2>2. \A x \in Sample : x.value \in Int
    BY DEF Sample
  <2> QED
    BY <2>1, <2>2
<1>2. G \in [1..n -> [Int -> Int]]
  BY <1>1
<1>3. PICK f \in [SUBSET (1..n) -> Int] :
        \A T \in SUBSET (1..n) : f[T] = Folded(f, T, 0, G)
  <2>1. PICK Acc : Acc = Int
    OBVIOUS
  <2>2. PICK F : F = G
    OBVIOUS
  <2>3. 0 \in Acc /\ F \in [1..n -> [Acc -> Acc]]
    BY <1>2, <2>1, <2>2
  <2>4. n \in Nat
    BY <1>1
  <2> HIDE DEF G, n, Of
  <2>5. \E f : FoldsIn(f, n, Acc, 0, F)
    BY <2>3, <2>4, FoldExists
  <2> QED
    BY <2>1, <2>2, <2>5 DEF FoldsIn
<1>4. \A T \in SUBSET (1..n) : T # {} => Max(T) \in 1..n /\ T \ {Max(T)} \in SUBSET (1..n)
  BY <1>1, MaxIs
<1>5. f = Of(f)
  <2>1. ASSUME NEW T \in SUBSET (1..n), T # {}
        PROVE  Folded(f, T, 0, G) = f[T \ {Max(T)}] + s[Max(T)].value
    BY <1>4, <2>1 DEF Folded
  <2>2. \A T \in SUBSET DOMAIN s : f[T] = Of(f)[T]
    BY <1>1, <1>3, <2>1 DEF Folded
  <2> QED
    BY <1>1, <1>3, <2>2
<1>6. Sums(s) = Of(Sums(s))
  BY <1>5, Zenon DEF Sums
<1>7. PICK h : h = Sums(s)
  OBVIOUS
<1>8. \A T \in SUBSET (1..n) : h[T] = IF T = {} THEN 0 ELSE h[T \ {Max(T)}] + s[Max(T)].value
  BY <1>1, <1>6, <1>7
<1> DEFINE g == [k \in 0..n |-> h[1..k]]
<1> HIDE DEF G, Of, n
<1>9. g[0] = 0
  <2>1. 1..0 = {} /\ {} \in SUBSET (1..n) /\ 0 \in 0..n
    BY <1>1
  <2>2. h[{}] = 0
    BY <1>8, <2>1
  <2> QED
    BY <2>1, <2>2
<1>10. \A k \in 1..n : g[k] = g[k - 1] + s[k].value
  <2> SUFFICES ASSUME NEW k \in 1..n PROVE g[k] = g[k - 1] + s[k].value
    OBVIOUS
  <2>1. h[1..k] = h[1..(k - 1)] + s[k].value
    <3>1. 1..k \in SUBSET (1..n) /\ 1..k # {} /\ Max(1..k) = k /\ (1..k) \ {k} = 1..(k - 1)
      BY <1>1, Upto
    <3> QED
      BY <1>8, <3>1
  <2> QED
    BY <1>1, <2>1
<1> HIDE DEF g
<1>11. \A k \in 0..n : g[k] \in Int
  <2> DEFINE bad == {k \in 0..n : g[k] \notin Int}
  <2> SUFFICES ASSUME bad # {} PROVE FALSE
    OBVIOUS
  <2>1. bad \in SUBSET Nat
    BY <1>1
  <2>2. PICK k \in bad : \A j \in bad : k <= j
    BY <2>1, LeastOf
  <2>3. k \in 1..n /\ k - 1 \in 0..n /\ k - 1 \notin bad
    BY <1>1, <1>9, <2>2
  <2> QED
    BY <1>1, <1>10, <2>2, <2>3
<1>12. SumsUp(g, s)
  <2>1. g \in [0..n -> Int]
    BY <1>11 DEF g
  <2> QED
    BY <1>9, <1>10, <2>1 DEF SumsUp, n
<1>13. g[n] = h[1..n]
  BY <1>1 DEF g
<1> QED
  BY <1>1, <1>7, <1>12, <1>13, ActivityIs DEF n

\* Sequences with the same values so far have the same sum so far.
LEMMA SumsAgree ==
  ASSUME NEW s \in Seq(Sample), NEW t \in Seq(Sample), NEW g, NEW h, SumsUp(g, s), SumsUp(h, t),
         NEW m \in Nat, m <= Len(s), m <= Len(t),
         \A k \in 1..m : s[k].value = t[k].value
  PROVE  g[m] = h[m]
<1> DEFINE bad == {k \in 0..m : g[k] # h[k]}
<1>0. Len(s) \in Nat /\ Len(t) \in Nat
  OBVIOUS
<1>1. \A k \in bad : k # 0 /\ k - 1 \in 0..m /\ k \in 1..m /\ k \in 1..Len(s) /\ k \in 1..Len(t)
  BY <1>0 DEF SumsUp
<1>2. ASSUME bad # {} PROVE FALSE
  <2>1. bad \in SUBSET Nat
    OBVIOUS
  <2>2. PICK k \in bad : \A j \in bad : k <= j
    BY <1>2, <2>1, LeastOf
  <2>3. k - 1 \notin bad /\ k - 1 \in 0..m
    BY <1>1, <2>2
  <2>4. g[k] = g[k - 1] + s[k].value /\ h[k] = h[k - 1] + t[k].value
    BY <1>1, <2>2 DEF SumsUp
  <2> QED
    BY <1>1, <2>2, <2>3, <2>4
<1> QED
  BY <1>2

LEMMA ActivityIsInt ==
  ASSUME NEW s \in Seq(Sample) PROVE Activity(s) \in Int
<1>1. PICK g : SumsUp(g, s) /\ Activity(s) = g[Len(s)]
  BY SumsOf
<1>2. Len(s) \in 0..Len(s)
  OBVIOUS
<1> QED
  BY <1>1, <1>2 DEF SumsUp

\* Merging a sample adds its value to the sum, in a new bucket or in the last.
LEMMA MergedAdds ==
  ASSUME NEW s \in Seq(Sample), NEW bucket \in Bucket, NEW value \in Int
  PROVE  /\ Merged(s, bucket, value) \in Seq(Sample)
         /\ Activity(Merged(s, bucket, value)) = Activity(s) + value
<1> DEFINE m == Merged(s, bucket, value)
           n == Len(s)
<1>1. n \in Nat /\ \A k \in 1..n : s[k] \in Sample /\ s[k].value \in Int
  <2>1. n \in Nat /\ \A k \in 1..n : s[k] \in Sample
    OBVIOUS
  <2>2. \A x \in Sample : x.value \in Int
    BY DEF Sample
  <2> QED
    BY <2>1, <2>2
<1>2. PICK g : SumsUp(g, s) /\ Activity(s) = g[n]
  BY SumsOf
<1>3. CASE s # <<>> /\ Last(s).bucket = bucket
  <2>1. n \in 1..n
    BY <1>1, <1>3
  <2>2. m = [s EXCEPT ![n] = [s[n] EXCEPT !.value = @ + value]]
    BY <1>3 DEF Merged
  <2>3. [s[n] EXCEPT !.value = @ + value] \in Sample
    <3>1. PICK x \in Sample : x = s[n] /\ x.value \in Int
      BY <1>1, <2>1
    <3>2. x.value + value \in Int
      BY <3>1
    <3>3. [x EXCEPT !.value = @ + value] \in Sample
      BY <3>2 DEF Sample
    <3> QED
      BY <3>1, <3>3
  <2>4. m \in Seq(Sample) /\ Len(m) = n
    BY <2>1, <2>2, <2>3
  <2>5. m[n].value = s[n].value + value /\ \A k \in 1..(n - 1) : m[k].value = s[k].value
    BY <2>1, <2>2 DEF Sample
  <2> HIDE DEF m
  <2>6. PICK h : SumsUp(h, m) /\ Activity(m) = h[n]
    BY <2>4, SumsOf
  <2>7. h[n - 1] = g[n - 1]
    <3>1. n - 1 \in Nat /\ n - 1 <= n
      BY <2>1
    <3> QED
      BY <1>2, <2>4, <2>5, <2>6, <3>1, SumsAgree
  <2>8. g[n - 1] \in Int
    BY <1>2, <2>1 DEF SumsUp
  <2>9. h[n] = h[n - 1] + m[n].value /\ g[n] = g[n - 1] + s[n].value
    BY <1>2, <2>1, <2>4, <2>6 DEF SumsUp
  <2>10. Activity(m) = Activity(s) + value
    BY <1>1, <1>2, <2>1, <2>5, <2>6, <2>7, <2>8, <2>9
  <2> QED
    BY <2>4, <2>10 DEF m
<1>4. CASE ~(s # <<>> /\ Last(s).bucket = bucket)
  <2>1. m = Append(s, [bucket |-> bucket, value |-> value])
    BY <1>4 DEF Merged
  <2>2. m \in Seq(Sample) /\ Len(m) = n + 1
    BY <2>1 DEF Sample
  <2>3. m[n + 1].value = value /\ \A k \in 1..n : m[k].value = s[k].value
    BY <1>1, <2>1
  <2> HIDE DEF m
  <2>4. PICK h : SumsUp(h, m) /\ Activity(m) = h[n + 1]
    BY <2>2, SumsOf
  <2>5. h[n] = g[n]
    <3>1. n <= Len(s) /\ n <= Len(m)
      BY <1>1, <2>2
    <3> QED
      BY <1>1, <1>2, <2>2, <2>3, <2>4, <3>1, SumsAgree
  <2>6. h[n + 1] = h[n] + m[n + 1].value
    <3>1. n + 1 \in 1..Len(m) /\ (n + 1) - 1 = n
      BY <1>1, <2>2
    <3> QED
      BY <2>4, <3>1 DEF SumsUp
  <2>7. Activity(m) = Activity(s) + value
    BY <1>2, <2>3, <2>4, <2>5, <2>6
  <2> QED
    BY <2>2, <2>7 DEF m
<1> QED
  BY <1>3, <1>4

\* Samples left out by a filter are left out of a sequence of samples.
Keeps(s, wanted) ==
  CHOOSE f : f = [T \in SUBSET DOMAIN s |->
                    IF T = {} THEN <<>>
                    ELSE IF s[Max(T)] \in wanted THEN Append(f[T \ {Max(T)}], s[Max(T)])
                    ELSE f[T \ {Max(T)}]]

LEMMA KeptIs ==
  ASSUME NEW s, NEW wanted PROVE Kept(s, wanted) = Keeps(s, wanted)[DOMAIN s]
BY Zenon DEF Kept, FoldLeft, MapThenFoldSet, Keeps

LEMMA KeptAreSamples ==
  ASSUME NEW s \in Seq(Sample), NEW wanted
  PROVE  Kept(s, wanted) \in Seq(Sample)
<1> DEFINE n == Len(s)
           G == [k \in 1..n |-> [kept \in Seq(Sample) |->
                                   IF s[k] \in wanted THEN Append(kept, s[k]) ELSE kept]]
           Of(f) == [T \in SUBSET DOMAIN s |->
                       IF T = {} THEN <<>>
                       ELSE IF s[Max(T)] \in wanted THEN Append(f[T \ {Max(T)}], s[Max(T)])
                       ELSE f[T \ {Max(T)}]]
<1>1. n \in Nat /\ DOMAIN s = 1..n /\ \A k \in 1..n : s[k] \in Sample
  OBVIOUS
<1>2. G \in [1..n -> [Seq(Sample) -> Seq(Sample)]] /\ <<>> \in Seq(Sample)
  BY <1>1
<1>3. PICK f \in [SUBSET (1..n) -> Seq(Sample)] :
        \A T \in SUBSET (1..n) : f[T] = Folded(f, T, <<>>, G)
  <2>1. PICK Acc : Acc = Seq(Sample)
    OBVIOUS
  <2>2. PICK F : F = G
    OBVIOUS
  <2>3. <<>> \in Acc /\ F \in [1..n -> [Acc -> Acc]]
    BY <1>2, <2>1, <2>2
  <2>4. n \in Nat
    BY <1>1
  <2> HIDE DEF G, n, Of
  <2>5. \E f : FoldsIn(f, n, Acc, <<>>, F)
    BY <2>3, <2>4, FoldExists
  <2> QED
    BY <2>1, <2>2, <2>5 DEF FoldsIn
<1>4. \A T \in SUBSET (1..n) : T # {} => Max(T) \in 1..n /\ T \ {Max(T)} \in SUBSET (1..n)
  BY <1>1, MaxIs
<1>5. f = Of(f)
  <2>1. ASSUME NEW T \in SUBSET (1..n), T # {}
        PROVE  Folded(f, T, <<>>, G) = IF s[Max(T)] \in wanted THEN Append(f[T \ {Max(T)}], s[Max(T)])
                                       ELSE f[T \ {Max(T)}]
    BY <1>4, <2>1 DEF Folded
  <2>2. \A T \in SUBSET DOMAIN s : f[T] = Of(f)[T]
    BY <1>1, <1>3, <2>1 DEF Folded
  <2> QED
    BY <1>1, <1>3, <2>2
<1>6. Keeps(s, wanted) = Of(Keeps(s, wanted))
  BY <1>5, Zenon DEF Keeps
<1>7. PICK h : h = Keeps(s, wanted)
  OBVIOUS
<1>8. \A T \in SUBSET (1..n) : h[T] = IF T = {} THEN <<>>
                                      ELSE IF s[Max(T)] \in wanted THEN Append(h[T \ {Max(T)}], s[Max(T)])
                                      ELSE h[T \ {Max(T)}]
  BY <1>1, <1>6, <1>7
<1> HIDE DEF G, Of, n
<1> DEFINE bad == {k \in 0..n : h[1..k] \notin Seq(Sample)}
<1>9. ASSUME bad # {} PROVE FALSE
  <2>1. bad \in SUBSET Nat
    BY <1>1
  <2>2. PICK k \in bad : \A j \in bad : k <= j
    BY <1>9, <2>1, LeastOf
  <2>3. h[1..0] = <<>>
    <3>1. 1..0 = {} /\ {} \in SUBSET (1..n)
      OBVIOUS
    <3>2. h[{}] = <<>>
      BY <1>8, <3>1
    <3> QED
      BY <3>1, <3>2
  <2>4. k \in 1..n /\ k - 1 \in 0..n /\ k - 1 \notin bad
    <3>1. k # 0 /\ k \in 0..n
      BY <1>2, <2>2, <2>3
    <3>2. k \in 1..n /\ k - 1 \in 0..n /\ ~(k <= k - 1)
      BY <1>1, <3>1
    <3> QED
      BY <2>2, <3>2
  <2>5. h[1..k] = IF s[k] \in wanted THEN Append(h[1..(k - 1)], s[k]) ELSE h[1..(k - 1)]
    BY <1>1, <1>8, <2>4, Upto
  <2>6. h[1..(k - 1)] \in Seq(Sample) /\ s[k] \in Sample
    BY <1>1, <2>4
  <2>7. h[1..k] \in Seq(Sample)
    <3>1. PICK b : b = h[1..(k - 1)]
      OBVIOUS
    <3>2. b \in Seq(Sample) /\ Append(b, s[k]) \in Seq(Sample)
      BY <2>6, <3>1
    <3> QED
      BY <2>5, <3>1, <3>2
  <2> QED
    BY <2>2, <2>7
<1>10. h[1..n] \in Seq(Sample)
  BY <1>1, <1>9
<1> QED
  BY <1>1, <1>7, <1>10, KeptIs
-----------------------------------------------------------------------------
(* Refreshes, sources and snapshots.                                      *)

USE PollerAssumption

LEMMA AnswerTypes ==
    /\ Pending \in Answer /\ Failed \in Answer
    /\ \A count, at \in Nat : Ok(count, at) \in Answer
    /\ Pending.kind # "ok" /\ Failed.kind # "ok"
BY DEF Answer, Pending, Failed, Ok

(* The bounds of the clock, as numbers. *)
LEMMA ClockIsNat == SourcesOK => now \in Nat
BY DEF SourcesOK

LEMMA FreshInit == Init => FreshInv
<1> SUFFICES ASSUME Init PROVE FreshInv OBVIOUS
<1>1. SourcesOK
  BY DEF Init, SourcesOK
<1>2. RefreshOK
  BY DEF Init, RefreshOK, Refreshes, IdlePass, NoSnapshot
<1>3. BootInv /\ AnswersInv
  BY DEF Init, BootInv, AnswersInv, Active, IdlePass
<1>4. HealthyIsFresh
  BY DEF Init, HealthyIsFresh
<1> QED BY <1>1, <1>2, <1>3, <1>4 DEF FreshInv

(* A refresh that begins satisfies everything the invariant says of a pass. *)
LEMMA BeginKeeps ==
    ASSUME FreshInv, NEW r \in Pass, NEW n \in Node, NEW boot \in BOOLEAN,
           ~Active(r), BeginRefresh(r, n, boot),
           boot => bootAt <= Len(NodeOrder) /\ n = NodeOrder[bootAt] /\ ~BootPending,
           UNCHANGED <<now, sources, bootAt, timers, cache>>
    PROVE  FreshInv'
<1> DEFINE begun == [stage |-> "fetching", node |-> n, boot |-> boot,
                     timestamp |-> now, previous |-> Previous(n), ledger |-> Pending,
                     service |-> IF n \in GrpcNode THEN Pending ELSE Ok(0, now)]
<1>1. now \in Nat
  BY ClockIsNat DEF FreshInv
<1>2. Previous(n) \in [known : BOOLEAN, ledger : Reading, service : Reading]
  <2>1. snapshots[n] \in Snapshot \union {NoSnapshot}
    BY DEF FreshInv, RefreshOK
  <2> QED BY <2>1 DEF Previous, Snapshot, Reading
<1>3. begun \in FetchingPass
  BY <1>1, <1>2, AnswerTypes DEF FetchingPass
<1>4. pass' = [pass EXCEPT ![r] = begun]
  BY DEF BeginRefresh
<1>5. SourcesOK' /\ HealthyIsFresh'
  BY DEF FreshInv, SourcesOK, HealthyIsFresh, sources, cache
<1>6. RefreshOK'
  BY <1>3, <1>4 DEF FreshInv, RefreshOK, Refreshes, cache
<1>7. \A s \in Pass : pass'[s] = IF s = r THEN begun ELSE pass[s]
  BY <1>4 DEF FreshInv, RefreshOK
<1>8. BootInv'
  BY <1>7 DEF FreshInv, BootInv, Active, BootPending
<1>9. AnswersInv'
  BY <1>1, <1>7, AnswerTypes DEF FreshInv, AnswersInv, Ok
<1> QED BY <1>5, <1>6, <1>8, <1>9 DEF FreshInv

(* Returning from a refresh moves the bootstrap on by one node at most. *)
LEMMA EndKeeps ==
    ASSUME FreshInv, NEW r \in Pass, Active(r), EndRefresh(r), UNCHANGED now
    PROVE  /\ bootAt' \in 1..(Len(NodeOrder) + 1) /\ timers' \in SUBSET Node
           /\ pass' \in [Pass -> Refreshes]
           /\ BootInv' /\ AnswersInv'
<1>1. Len(NodeOrder) \in Nat
  OBVIOUS
<1>2. pass[r] \in FetchingPass \union RecordingPass
  BY DEF FreshInv, RefreshOK, Refreshes, Active, IdlePass
<1>3. pass[r].node \in Node /\ pass[r].boot \in BOOLEAN
  BY <1>2 DEF FetchingPass, RecordingPass
<1>4. pass' = [pass EXCEPT ![r] = IdlePass] /\ pass' \in [Pass -> Refreshes]
  BY DEF FreshInv, RefreshOK, Refreshes, EndRefresh
<1>5. \A s \in Pass : pass'[s] = IF s = r THEN IdlePass ELSE pass[s]
  BY <1>4 DEF FreshInv, RefreshOK
<1>6. AnswersInv'
  BY <1>5 DEF FreshInv, AnswersInv, IdlePass
<1>7. CASE pass[r].boot
  <2>1. bootAt <= Len(NodeOrder) /\ bootAt' = bootAt + 1 /\ timers' = timers \union {pass[r].node}
    BY <1>7 DEF FreshInv, BootInv, EndRefresh
  <2>2. \A s \in Pass : ~(pass'[s].stage # "idle" /\ pass'[s].boot)
    BY <1>5, <1>7 DEF FreshInv, BootInv, Active, IdlePass
  <2>3. BootInv'
    BY <2>2 DEF BootInv, Active
  <2> QED BY <1>1, <1>3, <1>4, <1>6, <2>1, <2>3 DEF FreshInv, RefreshOK
<1>8. CASE ~pass[r].boot
  <2>1. UNCHANGED <<timers, bootAt>>
    BY <1>8 DEF EndRefresh
  <2>2. BootInv'
    BY <1>5, <2>1 DEF FreshInv, BootInv, Active, IdlePass
  <2> QED BY <1>4, <1>6, <2>1, <2>2 DEF FreshInv, RefreshOK
<1> QED BY <1>7, <1>8

(* The environment changes what sources would say, never what they said. *)
LEMMA SourcesKeep ==
    ASSUME FreshInv, Environment
    PROVE  FreshInv'
<1>1. UNCHANGED <<bootAt, timers, pass, snapshots>> /\ now' >= now
  BY ClockIsNat DEF FreshInv, Environment, Tick, Commit, ResetPqs, FlipPqs, FlipGrpc, cache
<1>2. RefreshOK' /\ BootInv' /\ HealthyIsFresh'
  BY <1>1 DEF FreshInv, RefreshOK, BootInv, Active, HealthyIsFresh
<1>3. AnswersInv'
  <2> SUFFICES ASSUME NEW r \in Pass, pass[r].stage = "fetching"
               PROVE  pass[r].timestamp <= now'
    BY <1>1 DEF FreshInv, AnswersInv
  <2>1. pass[r] \in FetchingPass
    BY DEF FreshInv, RefreshOK, Refreshes, RecordingPass, IdlePass
  <2>2. pass[r].timestamp \in Nat /\ pass[r].timestamp <= now
    BY <2>1 DEF FetchingPass, FreshInv, AnswersInv
  <2>3. now \in Nat /\ now' \in Nat
    BY ClockIsNat DEF FreshInv, Environment, Tick, Commit, ResetPqs, FlipPqs, FlipGrpc
  <2> QED BY <1>1, <2>2, <2>3
<1>4. SourcesOK'
  <2>1. CASE Tick
    BY <2>1 DEF Tick, FreshInv, SourcesOK, sources
  <2>2. ASSUME NEW n \in Node, Commit(n) PROVE SourcesOK'
    <3>1. BucketOf(now) \in Bucket => committed' \in [Node -> [Bucket -> Nat]]
      BY <2>2 DEF Commit, FreshInv, SourcesOK
    <3>2. BucketOf(now) \notin Bucket => committed' \in [Node -> [Bucket -> Nat]]
      BY <2>2 DEF Commit, FreshInv, SourcesOK
    <3> QED BY <2>2, <3>1, <3>2 DEF Commit, FreshInv, SourcesOK
  <2>3. ASSUME NEW n \in Node, ResetPqs(n) PROVE SourcesOK'
    BY <2>3 DEF ResetPqs, FreshInv, SourcesOK
  <2>4. ASSUME NEW n \in Node, FlipPqs(n) PROVE SourcesOK'
    BY <2>4 DEF FlipPqs, FreshInv, SourcesOK
  <2>5. ASSUME NEW n \in Node, FlipGrpc(n) PROVE SourcesOK'
    BY <2>5 DEF FlipGrpc, FreshInv, SourcesOK
  <2> QED BY <2>1, <2>2, <2>3, <2>4, <2>5 DEF Environment
<1> QED BY <1>2, <1>3, <1>4 DEF FreshInv

(* An answer carries the time at which it was given. *)
LEMMA AnswersKeep ==
    ASSUME FreshInv, NEW r \in Pass, Answers(r)
    PROVE  FreshInv'
<1>1. pass[r] \in FetchingPass
  BY DEF Answers, PqsAnswers, GrpcAnswers, FreshInv, RefreshOK, Refreshes, RecordingPass, IdlePass
<1>2. UNCHANGED <<now, sources, bootAt, timers, cache>>
  BY DEF Answers, PqsAnswers, GrpcAnswers
<1>3. now \in Nat /\ pass[r].timestamp \in Nat /\ pass[r].timestamp <= now
  BY <1>1, ClockIsNat DEF FreshInv, AnswersInv, FetchingPass
<1>4. total[pass[r].node] \in Nat
  BY <1>1 DEF FetchingPass, FreshInv, SourcesOK
<1>5. PICK answer \in Answer :
        /\ answer.kind = "ok" => answer.at = now
        /\ \/ pass' = [pass EXCEPT ![r].ledger = answer]
           \/ pass' = [pass EXCEPT ![r].service = answer]
  <2>1. CASE PqsAnswers(r)
    BY <1>3, <1>4, <2>1, AnswerTypes DEF PqsAnswers, Ok
  <2>2. CASE GrpcAnswers(r)
    BY <1>3, <2>2, AnswerTypes DEF GrpcAnswers, Ok
  <2> QED BY <2>1, <2>2 DEF Answers
<1>6. /\ pass' \in [Pass -> Refreshes]
      /\ \A s \in Pass : s # r => pass'[s] = pass[s]
      /\ pass'[r].stage = pass[r].stage /\ pass'[r].node = pass[r].node
      /\ pass'[r].boot = pass[r].boot /\ pass'[r].timestamp = pass[r].timestamp
      /\ pass'[r].ledger \in {pass[r].ledger, answer}
      /\ pass'[r].service \in {pass[r].service, answer}
  <2>1. pass \in [Pass -> Refreshes]
    BY DEF FreshInv, RefreshOK
  <2>2. CASE pass' = [pass EXCEPT ![r].ledger = answer]
    <3>1. [pass[r] EXCEPT !.ledger = answer] \in FetchingPass
      BY <1>1 DEF FetchingPass
    <3> QED BY <1>1, <2>1, <2>2, <3>1 DEF Refreshes, FetchingPass
  <2>3. CASE pass' = [pass EXCEPT ![r].service = answer]
    <3>1. [pass[r] EXCEPT !.service = answer] \in FetchingPass
      BY <1>1 DEF FetchingPass
    <3> QED BY <1>1, <2>1, <2>3, <3>1 DEF Refreshes, FetchingPass
  <2> QED BY <1>5, <2>2, <2>3
<1>7. SourcesOK' /\ RefreshOK' /\ HealthyIsFresh'
  BY <1>2, <1>6 DEF FreshInv, SourcesOK, RefreshOK, HealthyIsFresh, sources, cache
<1>8. BootInv'
  BY <1>2, <1>6 DEF FreshInv, BootInv, Active
<1>9. AnswersInv'
  BY <1>2, <1>3, <1>5, <1>6 DEF FreshInv, AnswersInv
<1> QED BY <1>7, <1>8, <1>9 DEF FreshInv

(* A stored snapshot is healthy only when its own refresh was answered. *)
LEMMA StoredIsFresh ==
    ASSUME FreshInv, NEW r \in Pass, StoreSnapshot(r)
    PROVE  /\ snapshots' \in [Node -> Snapshot \union {NoSnapshot}]
           /\ HealthyIsFresh'
<1> DEFINE p == pass[r]
           stored == NewSnapshot(p)
<1>1. p \in FetchingPass
  BY DEF StoreSnapshot, FreshInv, RefreshOK, Refreshes, RecordingPass, IdlePass
<1>2. stored \in Snapshot
  <2>1. stored.status \in Status
    BY DEF NewSnapshot, NodeStatus, Status
  <2>2. Carried(p.ledger, p.previous.ledger) \in Reading
    BY <1>1 DEF FetchingPass, Carried, Reading, Answer, Pending, Failed
  <2>3. Carried(p.service, p.previous.service) \in Reading
    BY <1>1 DEF FetchingPass, Carried, Reading, Answer, Pending, Failed
  <2> QED BY <1>1, <2>1, <2>2, <2>3 DEF NewSnapshot, Snapshot, FetchingPass
<1>3. stored.status = "healthy" =>
        stored.ledger >= stored.checkedAt
        /\ (p.node \in GrpcNode => stored.service >= stored.checkedAt)
  BY <1>1 DEF NewSnapshot, NodeStatus, Carried, FreshInv, AnswersInv, StoreSnapshot
<1>4. snapshots' = [snapshots EXCEPT ![p.node] = stored] /\ p.node \in Node
  BY <1>1 DEF StoreSnapshot, FetchingPass
<1>5. snapshots \in [Node -> Snapshot \union {NoSnapshot}]
  BY DEF FreshInv, RefreshOK
<1> HIDE DEF p, stored
<1>6. \A n \in Node : snapshots'[n] = IF n = p.node THEN stored ELSE snapshots[n]
  BY <1>4, <1>5
<1> QED BY <1>2, <1>3, <1>4, <1>5, <1>6 DEF FreshInv, HealthyIsFresh

LEMMA ContinueKeeps ==
    ASSUME FreshInv, NEW r \in Pass, Continue(r)
    PROVE  FreshInv'
<1>1. Active(r) /\ pass[r] \in FetchingPass \union RecordingPass /\ UNCHANGED <<now, sources>>
  BY DEF Continue, StoreSnapshot, RecordAfterSync, RequestBackfill, SeedFromBackfill,
         RecordAfterBackfill, Active, FreshInv, RefreshOK, Refreshes, IdlePass
<1>2. SourcesOK'
  BY <1>1 DEF FreshInv, SourcesOK, sources
<1>3. ASSUME EndRefresh(r), HealthyIsFresh',
             snapshots' \in [Node -> Snapshot \union {NoSnapshot}]
      PROVE  FreshInv'
  BY <1>1, <1>2, <1>3, EndKeeps DEF FreshInv, RefreshOK
<1>4. ASSUME NEW next \in RecordingPass,
             next.node = pass[r].node, next.boot = pass[r].boot,
             pass' = [pass EXCEPT ![r] = next], UNCHANGED <<bootAt, timers>>, HealthyIsFresh',
             snapshots' \in [Node -> Snapshot \union {NoSnapshot}]
      PROVE  FreshInv'
  <2>1. pass' \in [Pass -> Refreshes] /\ \A s \in Pass : pass'[s] = IF s = r THEN next ELSE pass[s]
    BY <1>4 DEF FreshInv, RefreshOK, Refreshes
  <2>2. RefreshOK'
    BY <1>4, <2>1 DEF FreshInv, RefreshOK
  <2>3. BootInv'
    BY <1>1, <1>4, <2>1 DEF FreshInv, BootInv, Active
  <2>4. AnswersInv'
    BY <1>1, <2>1 DEF FreshInv, AnswersInv, RecordingPass
  <2> QED BY <1>2, <1>4, <2>2, <2>3, <2>4 DEF FreshInv
<1>5. CASE StoreSnapshot(r)
  <2>1. CASE pass[r].ledger.kind = "ok"
    <3> DEFINE next == [stage |-> "syncing", node |-> pass[r].node, boot |-> pass[r].boot,
                        timestamp |-> pass[r].timestamp, ledger |-> pass[r].ledger]
    <3>1. next \in RecordingPass
      BY <1>1 DEF RecordingPass, FetchingPass
    <3> QED BY <1>4, <1>5, <2>1, <3>1, StoredIsFresh DEF StoreSnapshot
  <2>2. CASE pass[r].ledger.kind # "ok"
    BY <1>3, <1>5, <2>2, StoredIsFresh DEF StoreSnapshot
  <2> QED BY <2>1, <2>2
<1>6. CASE RequestBackfill(r)
  <2> DEFINE next == [pass[r] EXCEPT !.stage = "backfilling"]
  <2>1. next \in RecordingPass /\ next.node = pass[r].node /\ next.boot = pass[r].boot
    BY <1>1, <1>6 DEF RequestBackfill, RecordingPass, FetchingPass
  <2>2. pass' = [pass EXCEPT ![r] = next]
    BY <1>6 DEF RequestBackfill
  <2>3. UNCHANGED <<bootAt, timers, snapshots>>
    BY <1>6 DEF RequestBackfill, cache
  <2>4. HealthyIsFresh' /\ snapshots' \in [Node -> Snapshot \union {NoSnapshot}]
    BY <2>3 DEF FreshInv, RefreshOK, HealthyIsFresh
  <2> HIDE DEF next
  <2> QED BY <1>4, <2>1, <2>2, <2>3, <2>4
<1>7. CASE RecordAfterSync(r) \/ SeedFromBackfill(r) \/ RecordAfterBackfill(r)
  <2>1. EndRefresh(r) /\ UNCHANGED snapshots
    BY <1>7 DEF RecordAfterSync, SeedFromBackfill, RecordAfterBackfill
  <2>2. HealthyIsFresh' /\ snapshots' \in [Node -> Snapshot \union {NoSnapshot}]
    BY <2>1 DEF FreshInv, RefreshOK, HealthyIsFresh
  <2> QED BY <1>3, <2>1, <2>2
<1> QED BY <1>5, <1>6, <1>7 DEF Continue

LEMMA FreshStep == FreshInv /\ [Next]_vars => FreshInv'
<1> SUFFICES ASSUME FreshInv, [Next]_vars PROVE FreshInv' OBVIOUS
<1>1. ASSUME NEW r \in Pass, Bootstrap(r) PROVE FreshInv'
  <2>1. bootAt \in 1..Len(NodeOrder) /\ NodeOrder[bootAt] \in Node
    <3>1. bootAt \in 1..(Len(NodeOrder) + 1) /\ Len(NodeOrder) \in Nat
      BY DEF FreshInv, RefreshOK
    <3>2. bootAt \in 1..Len(NodeOrder)
      BY <1>1, <3>1 DEF Bootstrap
    <3> QED BY <3>2
  <2> QED BY <1>1, <2>1, BeginKeeps DEF Bootstrap
<1>2. ASSUME NEW r \in Pass, NEW n \in Node, TimerFires(r, n) PROVE FreshInv'
  BY <1>2, BeginKeeps DEF TimerFires
<1>3. ASSUME NEW r \in Pass, Answers(r) PROVE FreshInv'
  BY <1>3, AnswersKeep
<1>4. ASSUME NEW r \in Pass, Continue(r) PROVE FreshInv'
  BY <1>4, ContinueKeeps
<1>5. CASE Environment
  BY <1>5, SourcesKeep
<1>6. CASE UNCHANGED vars
  BY <1>6 DEF vars, sources, cache, FreshInv, SourcesOK, RefreshOK, BootInv, Active,
              AnswersInv, HealthyIsFresh
<1> QED BY <1>1, <1>2, <1>3, <1>4, <1>5, <1>6 DEF Next

(* FreshInv holds in every reachable state: what the sources, the cache and
   the refreshes in flight hold is well formed, at most one refresh belongs to
   the bootstrap loop, and no answer is older than its refresh. *)
THEOREM PollerInvariant == Spec => []FreshInv
<1> QED BY FreshInit, FreshStep, PTL DEF Spec

(* A snapshot shown as healthy holds what the sources said after its refresh
   began: refreshNode computes the status from the same answers it stores. *)
THEOREM HealthyFresh == Spec => []HealthyIsFresh
<1>1. FreshInv => HealthyIsFresh
  BY DEF FreshInv
<1> QED BY <1>1, PollerInvariant, PTL

-----------------------------------------------------------------------------
(* A node that stays reachable.                                            *)

Recovers(n) == NoFailureHeld(n)' /\ (snapshots'[n] = snapshots[n] \/ Healthy(n)')

(* Whatever becomes of one refresh, the others hold what they held. *)
LEMMA OneRefreshMoves ==
    ASSUME FreshInv, NEW n \in Node, NoFailureHeld(n), NEW r \in Pass, NEW next \in Refreshes,
           pass' = [pass EXCEPT ![r] = next],
           next.stage = "fetching" /\ next.node = n => Failed \notin {next.ledger, next.service}
    PROVE  NoFailureHeld(n)'
<1>1. \A s \in Pass : pass'[s] = IF s = r THEN next ELSE pass[s]
  BY DEF FreshInv, RefreshOK
<1>2. ASSUME NEW s \in Pass, Active(s)', pass'[s].node = n, pass'[s].stage = "fetching"
      PROVE  Failed \notin {pass'[s].ledger, pass'[s].service}
  <2>1. CASE s = r
    BY <1>1, <1>2, <2>1
  <2>2. CASE s # r
    <3>1. pass'[s] = pass[s] /\ Active(s)
      BY <1>1, <1>2, <2>2 DEF Active
    <3> QED BY <1>2, <3>1 DEF NoFailureHeld, InFlight
  <2> QED BY <2>1, <2>2
<1> QED BY <1>2 DEF NoFailureHeld, InFlight

(* A refresh that begins has been told nothing yet. *)
LEMMA BeginRecovers ==
    ASSUME FreshInv, NEW n \in Node, NoFailureHeld(n), NEW r \in Pass, NEW m \in Node,
           NEW boot \in BOOLEAN, BeginRefresh(r, m, boot), UNCHANGED snapshots
    PROVE  Recovers(n)
<1> DEFINE next == [stage |-> "fetching", node |-> m, boot |-> boot,
                    timestamp |-> now, previous |-> Previous(m), ledger |-> Pending,
                    service |-> IF m \in GrpcNode THEN Pending ELSE Ok(0, now)]
<1>1. pass' = [pass EXCEPT ![r] = next]
  BY DEF BeginRefresh
<1>2. Failed \notin {next.ledger, next.service}
  BY DEF Pending, Failed, Ok
<1>3. next \in Refreshes
  <2>1. now \in Nat /\ next.service \in Answer /\ Pending \in Answer
    BY ClockIsNat, AnswerTypes DEF FreshInv, SourcesOK
  <2>2. Previous(m) \in [known : BOOLEAN, ledger : Reading, service : Reading]
    BY DEF Previous, FreshInv, RefreshOK, Snapshot, Reading
  <2> QED BY <2>1, <2>2 DEF Refreshes, FetchingPass
<1> HIDE DEF next
<1> QED BY <1>1, <1>2, <1>3, OneRefreshMoves DEF Recovers

(* What a reachable node tells a refresh is no failure. *)
LEMMA AnswersRecover ==
    ASSUME FreshInv, NEW n \in Node, Reachable(n), NoFailureHeld(n), NEW r \in Pass, Answers(r)
    PROVE  Recovers(n)
<1>1. pass[r] \in FetchingPass /\ pass[r].stage = "fetching" /\ Active(r)
  BY DEF Answers, PqsAnswers, GrpcAnswers, FreshInv, RefreshOK, Refreshes, RecordingPass, IdlePass,
         Active
<1>2. pass[r].node = n => Failed \notin {pass[r].ledger, pass[r].service}
  BY <1>1 DEF NoFailureHeld, InFlight
<1>3. now \in Nat /\ total[pass[r].node] \in Nat
  BY <1>1, ClockIsNat DEF FreshInv, SourcesOK, FetchingPass
<1>4. CASE PqsAnswers(r)
  <2> DEFINE answer == IF up[pass[r].node] THEN Ok(total[pass[r].node], now) ELSE Failed
             next == [pass[r] EXCEPT !.ledger = answer]
  <2>1. pass' = [pass EXCEPT ![r] = next]
    BY <1>4 DEF PqsAnswers
  <2>2. answer \in Answer /\ (pass[r].node = n => answer # Failed)
    BY <1>3, AnswerTypes DEF Reachable, Ok, Failed
  <2> HIDE DEF answer
  <2>3. /\ next \in FetchingPass /\ next.node = pass[r].node
        /\ next.ledger = answer /\ next.service = pass[r].service
    BY <1>1, <2>2 DEF FetchingPass
  <2> HIDE DEF next
  <2> QED BY <1>2, <1>4, <2>1, <2>2, <2>3, OneRefreshMoves DEF Recovers, PqsAnswers, cache, Refreshes
<1>5. CASE GrpcAnswers(r)
  <2> DEFINE answer == IF grpcUp[pass[r].node] THEN Ok(0, now) ELSE Failed
             next == [pass[r] EXCEPT !.service = answer]
  <2>1. pass' = [pass EXCEPT ![r] = next]
    BY <1>5 DEF GrpcAnswers
  <2>2. answer \in Answer /\ (pass[r].node = n => answer # Failed)
    BY <1>3, AnswerTypes DEF Reachable, Ok, Failed
  <2> HIDE DEF answer
  <2>3. /\ next \in FetchingPass /\ next.node = pass[r].node
        /\ next.service = answer /\ next.ledger = pass[r].ledger
    BY <1>1, <2>2 DEF FetchingPass
  <2> HIDE DEF next
  <2> QED BY <1>2, <1>5, <2>1, <2>2, <2>3, OneRefreshMoves DEF Recovers, GrpcAnswers, cache, Refreshes
<1> QED BY <1>4, <1>5 DEF Answers

(* A refresh that was told of no failure stores a healthy snapshot. *)
LEMMA StoreRecovers ==
    ASSUME FreshInv, NEW n \in Node, NoFailureHeld(n), NEW r \in Pass, StoreSnapshot(r)
    PROVE  snapshots'[n] = snapshots[n] \/ Healthy(n)'
<1>1. /\ pass[r] \in FetchingPass /\ Active(r) /\ pass[r].stage = "fetching"
      /\ snapshots' = [snapshots EXCEPT ![pass[r].node] = NewSnapshot(pass[r])]
      /\ pass[r].ledger # Pending /\ pass[r].service # Pending
  BY DEF StoreSnapshot, FreshInv, RefreshOK, Refreshes, RecordingPass, IdlePass, Active
<1>2. CASE pass[r].node # n
  BY <1>1, <1>2 DEF FreshInv, RefreshOK
<1>3. CASE pass[r].node = n
  <2>1. Failed \notin {pass[r].ledger, pass[r].service}
    BY <1>1, <1>3 DEF NoFailureHeld, InFlight
  <2>2. pass[r].ledger.kind = "ok" /\ pass[r].service.kind = "ok"
    BY <1>1, <2>1 DEF FetchingPass, Answer
  <2>3. snapshots'[n] = NewSnapshot(pass[r])
    BY <1>1, <1>3 DEF FreshInv, RefreshOK
  <2>4. NewSnapshot(pass[r]).status = "healthy" /\ NewSnapshot(pass[r]).kind = "snapshot"
    BY <2>2 DEF NewSnapshot, NodeStatus
  <2> QED BY <2>3, <2>4 DEF Healthy, NoSnapshot
<1> QED BY <1>2, <1>3

(* A refresh that goes on or ends holds no failure any more. *)
LEMMA ContinueRecovers ==
    ASSUME FreshInv, NEW n \in Node, NoFailureHeld(n), NEW r \in Pass, Continue(r)
    PROVE  Recovers(n)
<1>1. pass[r] \in FetchingPass \union RecordingPass
  BY DEF Continue, StoreSnapshot, RecordAfterSync, RequestBackfill, SeedFromBackfill,
         RecordAfterBackfill, FreshInv, RefreshOK, Refreshes, IdlePass
<1>2. NoFailureHeld(n)'
  <2>1. CASE EndRefresh(r)
    BY <2>1, OneRefreshMoves DEF EndRefresh, IdlePass, Refreshes
  <2>2. CASE StoreSnapshot(r) /\ pass[r].ledger.kind = "ok"
    <3> DEFINE next == [stage |-> "syncing", node |-> pass[r].node, boot |-> pass[r].boot,
                        timestamp |-> pass[r].timestamp, ledger |-> pass[r].ledger]
    <3>1. pass' = [pass EXCEPT ![r] = next]
      BY <2>2 DEF StoreSnapshot
    <3>2. next \in RecordingPass /\ next.stage # "fetching"
      BY <1>1 DEF FetchingPass, RecordingPass
    <3> HIDE DEF next
    <3> QED BY <3>1, <3>2, OneRefreshMoves DEF Refreshes
  <2>3. CASE RequestBackfill(r)
    <3> DEFINE next == [pass[r] EXCEPT !.stage = "backfilling"]
    <3>1. pass' = [pass EXCEPT ![r] = next] /\ pass[r] \in RecordingPass
      BY <1>1, <2>3 DEF RequestBackfill, FetchingPass
    <3>2. next \in RecordingPass /\ next.stage # "fetching"
      BY <3>1 DEF RecordingPass
    <3> HIDE DEF next
    <3> QED BY <3>1, <3>2, OneRefreshMoves DEF Refreshes
  <2> QED BY <2>1, <2>2, <2>3 DEF Continue, StoreSnapshot, RecordAfterSync, SeedFromBackfill,
             RecordAfterBackfill
<1>3. snapshots'[n] = snapshots[n] \/ Healthy(n)'
  BY StoreRecovers DEF Continue, RecordAfterSync, RequestBackfill, SeedFromBackfill,
     RecordAfterBackfill, cache
<1> QED BY <1>2, <1>3 DEF Recovers

LEMMA RecoveryStep ==
    ASSUME FreshInv, [Next]_vars, NEW n \in Node, Reachable(n), NoFailureHeld(n)
    PROVE  Recovers(n)
<1>1. ASSUME UNCHANGED <<pass, snapshots>> PROVE Recovers(n)
  BY <1>1 DEF Recovers, NoFailureHeld, InFlight, Active
<1>2. ASSUME NEW r \in Pass, Bootstrap(r) PROVE Recovers(n)
  <2>1. NodeOrder[bootAt] \in Node
    BY <1>2 DEF Bootstrap, FreshInv, RefreshOK
  <2> QED BY <1>2, <2>1, BeginRecovers DEF Bootstrap, cache
<1>3. ASSUME NEW r \in Pass, NEW m \in Node, TimerFires(r, m) PROVE Recovers(n)
  BY <1>3, BeginRecovers DEF TimerFires, cache
<1>4. ASSUME NEW r \in Pass, Answers(r) PROVE Recovers(n)
  BY <1>4, AnswersRecover
<1>5. ASSUME NEW r \in Pass, Continue(r) PROVE Recovers(n)
  BY <1>5, ContinueRecovers
<1>6. ASSUME Environment PROVE Recovers(n)
  BY <1>1, <1>6 DEF Environment, Tick, Commit, ResetPqs, FlipPqs, FlipGrpc, cache
<1>7. ASSUME UNCHANGED vars PROVE Recovers(n)
  BY <1>1, <1>7 DEF vars, cache
<1> QED BY <1>2, <1>3, <1>4, <1>5, <1>6, <1>7 DEF Next

(* NodePoller, RecoveryLasts: with any number of refreshes of a node in
   flight, each snapshot stored while the node is reachable is healthy once
   those that saw it fail have ended. *)
THEOREM RecoveryIsKept == Spec => RecoveryLasts
<1>1. FreshInv /\ [Next]_vars =>
        [\A n \in Node : Reachable(n) /\ NoFailureHeld(n) =>
            /\ NoFailureHeld(n)'
            /\ snapshots'[n] = snapshots[n] \/ Healthy(n)']_vars
  BY RecoveryStep DEF Recovers
<1> QED BY <1>1, PollerInvariant, PTL DEF Spec, RecoveryLasts

(* NodePoller, SnapshotRecovers, what of it needs no fairness: a node that is
   shown as healthy, with no failure still to be told, is shown as healthy for
   as long as it stays reachable. *)
THEOREM HealthyStaysHealthy ==
    ASSUME NEW n \in Node
    PROVE  Spec => [](Healthy(n) /\ NoFailureHeld(n) /\ []Reachable(n) => []Healthy(n))
<1> DEFINE Well == Healthy(n) /\ NoFailureHeld(n)
<1>1. FreshInv /\ [Next]_vars /\ Reachable(n) /\ Well => Well'
  <2> SUFFICES ASSUME FreshInv, [Next]_vars, Reachable(n), Well PROVE Well'
    OBVIOUS
  <2>1. Recovers(n)
    BY RecoveryStep
  <2> QED BY <2>1 DEF Recovers, Healthy
<1>2. Well => Healthy(n)
  OBVIOUS
<1>3. Healthy(n) /\ NoFailureHeld(n) => Well
  OBVIOUS
<1> HIDE DEF Well
<1> QED BY <1>1, <1>2, <1>3, PollerInvariant, PTL DEF Spec

-----------------------------------------------------------------------------
(* What becomes of the readings of the ledger, however refreshes overlap.  *)

LEMMA LedgerInit == Init => LedgerInv
  BY DEF Init, LedgerInv, IdlePass

(* A refresh begins and reads what the cache holds. *)
LEMMA BeginLedger ==
    ASSUME FreshInv, LedgerInv, NEW r \in Pass, NEW n \in Node, NEW boot \in BOOLEAN,
           BeginRefresh(r, n, boot), UNCHANGED <<now, cache>>
    PROVE  LedgerInv'
<1> DEFINE begun == [stage |-> "fetching", node |-> n, boot |-> boot,
                     timestamp |-> now, previous |-> Previous(n), ledger |-> Pending,
                     service |-> IF n \in GrpcNode THEN Pending ELSE Ok(0, now)]
<1>1. \A s \in Pass : pass'[s] = IF s = r THEN begun ELSE pass[s]
  BY DEF BeginRefresh, FreshInv, RefreshOK
<1>2. snapshots' = snapshots /\ now' = now
  BY DEF cache
<1>3. Previous(n).ledger <= now
  BY ClockIsNat DEF LedgerInv, Previous, Never, FreshInv
<1>4. begun.ledger.kind # "ok"
  BY AnswerTypes
<1>5. begun.timestamp = now /\ begun.previous = Previous(n)
  OBVIOUS
<1> HIDE DEF begun
<1> QED BY <1>1, <1>2, <1>3, <1>4, <1>5 DEF LedgerInv

(* A refresh that ends, or goes on, holds no new reading. *)
LEMMA GoesOnLedger ==
    ASSUME LedgerInv, UNCHANGED <<now, snapshots>>,
           \A s \in Pass : pass'[s] = pass[s] \/ pass'[s].stage # "fetching"
    PROVE  LedgerInv'
  BY DEF LedgerInv

(* The only step that changes what is shown: it falls back only if another
   refresh stored a newer reading since it read the one before. *)
LEMMA StoreLedger ==
    ASSUME FreshInv, LedgerInv, NEW r \in Pass, StoreSnapshot(r)
    PROVE  /\ LedgerInv'
           /\ \A n \in Node : snapshots[n] # NoSnapshot =>
                \/ snapshots'[n].ledger >= snapshots[n].ledger
                \/ /\ r \in InFlight(n)
                   /\ pass[r].stage = "fetching" /\ pass'[r].stage # "fetching"
                   /\ Overtaken(r)
                   /\ snapshots'[n].ledger >= pass[r].previous.ledger
<1> DEFINE p == pass[r]
           stored == NewSnapshot(p)
<1>1. p \in FetchingPass /\ p.stage = "fetching" /\ p.node \in Node
  BY DEF StoreSnapshot, FreshInv, RefreshOK, Refreshes, RecordingPass, IdlePass, FetchingPass
<1>2. \A n \in Node : snapshots'[n] = IF n = p.node THEN stored ELSE snapshots[n]
  BY <1>1 DEF StoreSnapshot, FreshInv, RefreshOK
<1>3. /\ p.previous.ledger <= p.timestamp
      /\ p.ledger.kind = "ok" => p.ledger.at <= now /\ p.ledger.at >= p.timestamp
      /\ p.timestamp <= now
  BY <1>1 DEF LedgerInv, FreshInv, AnswersInv
<1>4. stored.ledger = IF p.ledger.kind = "ok" THEN p.ledger.at ELSE p.previous.ledger
  BY DEF NewSnapshot, Carried
<1>5. now \in Nat /\ p.timestamp \in Nat /\ p.previous.ledger \in Int /\ p.ledger.at \in Int
  BY <1>1, ClockIsNat DEF FreshInv, FetchingPass, Reading, Never, Answer, Pending, Failed
<1>6. stored.ledger \in Int /\ stored.ledger <= now /\ stored.ledger >= p.previous.ledger
  BY <1>3, <1>4, <1>5
<1>7. \A s \in Pass : pass'[s] = pass[s] \/ pass'[s].stage # "fetching"
  BY DEF StoreSnapshot, EndRefresh, IdlePass, FreshInv, RefreshOK
<1>8. pass'[r].stage # "fetching"
  BY DEF StoreSnapshot, EndRefresh, IdlePass, FreshInv, RefreshOK
<1>9. now' = now /\ r \in InFlight(p.node)
  BY <1>1 DEF StoreSnapshot, InFlight, Active
<1>10. \A n \in Node : snapshots[n] # NoSnapshot => snapshots[n].ledger \in Int
  BY DEF FreshInv, RefreshOK, Snapshot, Reading, Never
<1> HIDE DEF stored
<1>11. ASSUME NEW n \in Node, snapshots[n] # NoSnapshot,
              ~(snapshots'[n].ledger >= snapshots[n].ledger)
       PROVE  /\ r \in InFlight(n)
              /\ pass[r].stage = "fetching" /\ pass'[r].stage # "fetching"
              /\ Overtaken(r)
              /\ snapshots'[n].ledger >= pass[r].previous.ledger
  <2>1. n = p.node /\ snapshots'[n] = stored
    BY <1>2, <1>10, <1>11
  <2>2. p.previous.ledger < snapshots[n].ledger
    BY <1>5, <1>6, <1>10, <1>11, <2>1
  <2> QED BY <1>1, <1>6, <1>8, <1>9, <2>1, <2>2 DEF Overtaken
<1>12. LedgerInv'
  BY <1>2, <1>6, <1>7, <1>9 DEF LedgerInv
<1> QED BY <1>11, <1>12

(* LedgerInv is inductive together with FreshInv. *)
LEMMA LedgerStep ==
    ASSUME FreshInv, LedgerInv, [Next]_vars
    PROVE  LedgerInv'
<1>1. ASSUME NEW r \in Pass, Bootstrap(r) PROVE LedgerInv'
  <2>1. NodeOrder[bootAt] \in Node
    BY <1>1 DEF Bootstrap, FreshInv, RefreshOK
  <2> QED BY <1>1, <2>1, BeginLedger DEF Bootstrap
<1>2. ASSUME NEW r \in Pass, NEW n \in Node, TimerFires(r, n) PROVE LedgerInv'
  BY <1>2, BeginLedger DEF TimerFires
<1>3. ASSUME NEW r \in Pass, Answers(r) PROVE LedgerInv'
  <2>1. pass[r] \in FetchingPass
    BY <1>3 DEF Answers, PqsAnswers, GrpcAnswers, FreshInv, RefreshOK, Refreshes, RecordingPass, IdlePass
  <2>2. UNCHANGED <<now, snapshots>>
    BY <1>3 DEF Answers, PqsAnswers, GrpcAnswers, cache
  <2>3. /\ \A s \in Pass \ {r} : pass'[s] = pass[s]
        /\ pass'[r].stage = pass[r].stage /\ pass'[r].timestamp = pass[r].timestamp
        /\ pass'[r].previous = pass[r].previous
        /\ pass'[r].ledger.kind = "ok" => pass'[r].ledger = pass[r].ledger \/ pass'[r].ledger.at = now
    BY <1>3, <2>1 DEF Answers, PqsAnswers, GrpcAnswers, FreshInv, RefreshOK, FetchingPass, Ok, Failed
  <2>4. now \in Nat
    BY ClockIsNat DEF FreshInv
  <2> QED BY <2>2, <2>3, <2>4 DEF LedgerInv
<1>4. ASSUME NEW r \in Pass, Continue(r), ~StoreSnapshot(r) PROVE LedgerInv'
  <2>1. UNCHANGED <<now, snapshots>>
    BY <1>4 DEF Continue, RecordAfterSync, RequestBackfill, SeedFromBackfill, RecordAfterBackfill, cache
  <2>2. CASE RequestBackfill(r)
    <3>1. pass[r] \in RecordingPass
      BY <2>2 DEF RequestBackfill, FreshInv, RefreshOK, Refreshes, FetchingPass, IdlePass
    <3>2. pass'[r].stage = "backfilling" /\ \A s \in Pass \ {r} : pass'[s] = pass[s]
      BY <2>2, <3>1 DEF RequestBackfill, FreshInv, RefreshOK, RecordingPass
    <3> QED BY <2>1, <3>2, GoesOnLedger
  <2>3. CASE EndRefresh(r)
    <3>1. \A s \in Pass : pass'[s] = pass[s] \/ pass'[s].stage # "fetching"
      BY <2>3 DEF EndRefresh, IdlePass, FreshInv, RefreshOK
    <3> QED BY <2>1, <3>1, GoesOnLedger
  <2> QED BY <1>4, <2>2, <2>3 DEF Continue, RecordAfterSync, SeedFromBackfill, RecordAfterBackfill
<1>5. CASE Environment
  <2>1. UNCHANGED <<pass, snapshots>>
    BY <1>5 DEF Environment, Tick, Commit, ResetPqs, FlipPqs, FlipGrpc, cache
  <2>2. now \in Nat /\ now' \in Nat /\ now' >= now
    BY <1>5, ClockIsNat DEF FreshInv, Environment, Tick, Commit, ResetPqs, FlipPqs, FlipGrpc
  <2>3. \A n \in Node : snapshots[n] # NoSnapshot => snapshots[n].ledger <= now'
    <3> SUFFICES ASSUME NEW n \in Node, snapshots[n] # NoSnapshot PROVE snapshots[n].ledger <= now'
      OBVIOUS
    <3>1. snapshots[n].ledger \in Int /\ snapshots[n].ledger <= now
      BY DEF FreshInv, RefreshOK, Snapshot, Reading, Never, LedgerInv
    <3> QED BY <2>2, <3>1
  <2>4. ASSUME NEW r \in Pass, pass[r].stage = "fetching", pass[r].ledger.kind = "ok"
        PROVE  pass[r].ledger.at <= now'
    <3>1. pass[r] \in FetchingPass
      BY <2>4 DEF FreshInv, RefreshOK, Refreshes, RecordingPass, IdlePass
    <3>2. pass[r].ledger.at \in Nat /\ pass[r].ledger.at <= now
      BY <2>4, <3>1 DEF FetchingPass, Answer, Pending, Failed, LedgerInv
    <3> QED BY <2>2, <3>2
  <2> QED BY <2>1, <2>3, <2>4 DEF LedgerInv
<1>6. CASE UNCHANGED vars
  BY <1>6 DEF vars, cache, LedgerInv
<1> QED BY <1>1, <1>2, <1>3, <1>4, <1>5, <1>6, StoreLedger DEF Next

(* NodePoller, LedgerGoesBackOnlyOvertaken: with any number of refreshes of a
   node in flight, whatever fails, a snapshot shows an older ledger than the
   one before it only if its refresh was overtaken. *)
THEOREM LedgerHolds == Spec => LedgerGoesBackOnlyOvertaken
<1> DEFINE Forward ==
      \A n \in Node : snapshots[n] # NoSnapshot =>
        \/ snapshots'[n].ledger >= snapshots[n].ledger
        \/ \E r \in InFlight(n) :
              /\ pass[r].stage = "fetching" /\ pass'[r].stage # "fetching"
              /\ Overtaken(r)
              /\ snapshots'[n].ledger >= pass[r].previous.ledger
<1>1. FreshInv /\ LedgerInv /\ [Next]_vars => [Forward]_vars
  <2> SUFFICES ASSUME FreshInv, LedgerInv, [Next]_vars PROVE Forward
    OBVIOUS
  <2>1. CASE \E r \in Pass : StoreSnapshot(r)
    <3>1. PICK r \in Pass : StoreSnapshot(r)
      BY <2>1
    <3> QED BY <3>1, StoreLedger
  <2>2. CASE \A r \in Pass : ~StoreSnapshot(r)
    <3>1. snapshots' = snapshots
      BY <2>2 DEF Next, Bootstrap, TimerFires, Answers, PqsAnswers, GrpcAnswers, Continue,
                  RecordAfterSync, RequestBackfill, SeedFromBackfill, RecordAfterBackfill,
                  Environment, Tick, Commit, ResetPqs, FlipPqs, FlipGrpc, vars, cache
    <3>2. \A n \in Node : snapshots[n] # NoSnapshot => snapshots[n].ledger \in Int
      BY DEF FreshInv, RefreshOK, Snapshot, Reading, Never
    <3> QED BY <3>1, <3>2
  <2> QED BY <2>1, <2>2
<1>2. Spec => []LedgerInv
  BY LedgerInit, LedgerStep, PollerInvariant, PTL DEF Spec
<1> QED BY <1>1, <1>2, PollerInvariant, PTL DEF Spec, LedgerGoesBackOnlyOvertaken

-----------------------------------------------------------------------------
(* The activity history counts. *)

LEMMA PrunedAreSamples ==
  ASSUME NEW s \in Seq(Sample) PROVE Pruned(s) \in Seq(Sample)
BY KeptAreSamples DEF Pruned

LEMMA BucketsAreSamples ==
  ASSUME SourcesOK, NEW n \in Node PROVE ActivityBuckets(n) \in Seq(Sample)
<1> DEFINE last == MaxTime \div BucketSpan
           every == [k \in 1..(last + 1) |-> [bucket |-> k - 1, value |-> committed[n][k - 1]]]
<1>1. last \in Nat
  OBVIOUS
<1>2. \A k \in 1..(last + 1) : k - 1 \in Bucket /\ committed[n][k - 1] \in Int
  <2>1. \A k \in 1..(last + 1) : k - 1 \in Bucket
    BY <1>1 DEF Bucket
  <2>2. committed[n] \in [Bucket -> Nat]
    BY DEF SourcesOK
  <2>3. \A k \in 1..(last + 1) : committed[n][k - 1] \in Nat
    <3> HIDE DEF last
    <3> QED
      BY <2>1, <2>2
  <2> HIDE DEF last
  <2> QED
    BY <2>1, <2>3
<1> HIDE DEF last
<1>3. every \in Seq(Sample)
  BY <1>1, <1>2 DEF Sample
<1> QED
  BY <1>3, KeptAreSamples DEF ActivityBuckets, last

(* The bucket of a moment on the clock. *)
LEMMA BucketIs ==
  ASSUME NEW time \in 0..MaxTime PROVE BucketOf(time) \in Bucket
<1>1. time \in Nat /\ time <= MaxTime
  OBVIOUS
<1> QED
  BY <1>1 DEF BucketOf, Bucket

-----------------------------------------------------------------------------
(* Counting updates.                                                       *)

LEMMA CountedInit == Init => CountedInv
BY DEF Init, CountedInv, HistoryOK, AnswersCounted, NoUpdateUncounted, Active, IdlePass, NoSeries

\* What is said of the histories and baselines of nodes.
Histories ==
  [kind : {"series"}, last : Nat, samples : Seq(Sample)]

LEMMA HistoryTypes ==
  HistoryOK <=> history \in [Node -> Histories \union {NoSeries}] /\ baseline \in [Node -> Int]
BY DEF HistoryOK, Histories, Sample

\* Recording the count of a refresh keeps the updates before it counted.
LEMMA RecordCounts ==
  ASSUME CountedInv, NEW n \in Node, NEW time \in 0..MaxTime, NEW count \in Nat,
         RecordActivitySample(n, time, count), resets' = resets
  PROVE  HistoryOK' /\ NoUpdateUncounted'
<1> DEFINE fresh == history[n].kind = "none"
           old == IF fresh THEN <<>> ELSE history[n].samples
           delta == Delta(n, count)
           merged == Merged(old, BucketOf(time), delta)
           base == (IF fresh THEN count ELSE baseline[n]) + Activity(merged) - Activity(Pruned(merged))
<1>1. history \in [Node -> Histories \union {NoSeries}] /\ baseline \in [Node -> Int]
  BY HistoryTypes DEF CountedInv
<1>2. history[n] = NoSeries <=> fresh
  BY <1>1 DEF Histories, NoSeries
<1>3. ~fresh => history[n] \in Histories /\ history[n].last \in Nat /\ history[n].samples \in Seq(Sample)
  BY <1>1, <1>2 DEF Histories
<1>4. old \in Seq(Sample)
  BY <1>3
<1>5. delta \in Int /\ (fresh => delta = 0)
      /\ (~fresh => delta = IF count < history[n].last THEN 0 ELSE count - history[n].last)
  BY <1>3 DEF Delta
<1>6. merged \in Seq(Sample) /\ Activity(merged) = Activity(old) + delta /\ Activity(old) \in Int
  <2> HIDE DEF old, delta
  <2> QED
    BY <1>4, <1>5, BucketIs, MergedAdds, ActivityIsInt
<1>7. Pruned(merged) \in Seq(Sample) /\ Activity(Pruned(merged)) \in Int
  <2> HIDE DEF merged
  <2> QED
    BY <1>6, PrunedAreSamples, ActivityIsInt
<1>8. history' = [history EXCEPT ![n] = Series(count, merged)] /\ baseline' = [baseline EXCEPT ![n] = base]
  BY DEF RecordActivitySample
<1>9. fresh => Activity(old) = 0
  <2>1. <<>> \in Seq(Sample) /\ Len(<<>>) = 0
    OBVIOUS
  <2>2. PICK g : SumsUp(g, <<>>) /\ Activity(<<>>) = g[Len(<<>>)]
    BY <2>1, SumsOf
  <2> QED
    BY <2>1, <2>2 DEF SumsUp
<1>10. Series(count, merged) \in Histories /\ Series(count, merged).last = count
       /\ Series(count, merged).samples = Pruned(merged)
  <2> HIDE DEF merged
  <2> QED
    BY <1>7 DEF Series, Histories
<1>11. base \in Int
       /\ base + Activity(Pruned(merged)) = (IF fresh THEN count ELSE baseline[n] + Activity(old) + delta)
  <2> HIDE DEF merged, old, delta, fresh
  <2>1. PICK b \in Int : b = baseline[n]
    BY <1>1
  <2>2. PICK left \in Int, whole \in Int : left = Activity(Pruned(merged)) /\ whole = Activity(merged)
    BY <1>5, <1>6, <1>7
  <2>3. base = (IF fresh THEN count ELSE b) + whole - left
    BY <2>1, <2>2
  <2>4. whole = IF fresh THEN 0 ELSE Activity(old) + delta
    BY <1>5, <1>6, <1>9, <2>2
  <2>5. PICK before \in Int : before = Activity(old)
    BY <1>6
  <2>6. CASE fresh
    BY <2>1, <2>2, <2>3, <2>4, <2>6
  <2>7. CASE ~fresh
    <3>1. base = b + (before + delta) - left /\ delta \in Int
      BY <1>5, <2>3, <2>4, <2>5, <2>7
    <3> HIDE DEF base
    <3>2. base \in Int /\ base + left = b + before + delta
      BY <3>1
    <3> QED
      BY <2>1, <2>2, <2>5, <2>7, <3>2
  <2> QED
    BY <2>6, <2>7
<1> HIDE DEF merged, base, delta
<1>12. HistoryOK'
  <2>1. history' \in [Node -> Histories \union {NoSeries}] /\ baseline' \in [Node -> Int]
    BY <1>1, <1>8, <1>10, <1>11
  <2> QED
    BY <2>1 DEF HistoryOK, Histories, Sample
<1>13. NoUpdateUncounted'
  <2> SUFFICES ASSUME NEW m \in Node, history'[m] # NoSeries, resets[m] = 0
               PROVE  baseline'[m] + Activity(history'[m].samples) >= history'[m].last
    BY DEF NoUpdateUncounted, Counted
  <2>1. CASE m # n
    <3>1. history'[m] = history[m] /\ baseline'[m] = baseline[m]
      BY <1>1, <1>8, <2>1
    <3> QED
      BY <3>1 DEF CountedInv, NoUpdateUncounted, Counted
  <2>2. CASE m = n
    <3>1. history'[n].last = count /\ baseline'[n] + Activity(history'[n].samples) = base + Activity(Pruned(merged))
      BY <1>1, <1>8, <1>10
    <3>2. CASE fresh
      BY <1>11, <2>2, <3>1, <3>2
    <3>3. CASE ~fresh
      <4>1. baseline[n] + Activity(history[n].samples) >= history[n].last
        BY <1>2, <2>2, <3>3 DEF CountedInv, NoUpdateUncounted, Counted
      <4>2. baseline[n] \in Int /\ old = history[n].samples
        BY <1>1, <3>3
      <4> HIDE DEF old, fresh
      <4>3. PICK b \in Int, before \in Int, l \in Nat, d \in Int :
              b = baseline[n] /\ before = Activity(old) /\ l = history[n].last /\ d = delta
        BY <1>3, <1>5, <1>6, <3>3, <4>2
      <4>4. b + before >= l
        BY <4>1, <4>2, <4>3
      <4>5. d = IF count < l THEN 0 ELSE count - l
        BY <1>5, <3>3, <4>3
      <4>6. b + before + d >= count
        BY <4>4, <4>5
      <4>7. baseline[n] + Activity(old) + delta >= count
        BY <4>3, <4>6
      <4> QED
        BY <1>11, <2>2, <3>1, <3>3, <4>7
    <3> QED
      BY <3>2, <3>3
  <2> QED
    BY <2>1, <2>2
<1> QED
  BY <1>12, <1>13

\* Seeding counts what PQS holds at that moment.
LEMMA SeedCounts ==
  ASSUME CountedInv, NEW n \in Node, NEW count \in Nat, NEW samples \in Seq(Sample),
         SeedActivityHistory(n, count, samples), resets' = resets, total[n] \in Nat,
         resets[n] = 0 => count <= total[n]
  PROVE  HistoryOK' /\ NoUpdateUncounted'
<1>1. history \in [Node -> Histories \union {NoSeries}] /\ baseline \in [Node -> Int]
  BY HistoryTypes DEF CountedInv
<1>2. Pruned(samples) \in Seq(Sample) /\ Activity(Pruned(samples)) \in Int
  BY PrunedAreSamples, ActivityIsInt
<1>3. /\ history' = [history EXCEPT ![n] = Series(count, samples)]
      /\ baseline' = [baseline EXCEPT ![n] = total[n] - Activity(Pruned(samples))]
  BY DEF SeedActivityHistory
<1>4. Series(count, samples) \in Histories /\ Series(count, samples).last = count
      /\ Series(count, samples).samples = Pruned(samples)
  BY <1>2 DEF Series, Histories
<1>5. HistoryOK'
  <2>1. history' \in [Node -> Histories \union {NoSeries}] /\ baseline' \in [Node -> Int]
    BY <1>1, <1>2, <1>3, <1>4
  <2> QED
    BY <2>1 DEF HistoryOK, Histories, Sample
<1>6. NoUpdateUncounted'
  <2> SUFFICES ASSUME NEW m \in Node, history'[m] # NoSeries, resets[m] = 0
               PROVE  baseline'[m] + Activity(history'[m].samples) >= history'[m].last
    BY DEF NoUpdateUncounted, Counted
  <2>1. CASE m # n
    <3>1. history'[m] = history[m] /\ baseline'[m] = baseline[m]
      BY <1>1, <1>3, <2>1
    <3> QED
      BY <3>1 DEF CountedInv, NoUpdateUncounted, Counted
  <2>2. CASE m = n
    <3>1. history'[n].last = count
          /\ baseline'[n] + Activity(history'[n].samples)
               = (total[n] - Activity(Pruned(samples))) + Activity(Pruned(samples))
      BY <1>1, <1>3, <1>4
    <3> QED
      BY <1>2, <2>2, <3>1
  <2> QED
    BY <2>1, <2>2
<1> QED
  BY <1>5, <1>6

\* What a refresh that begins, is answered or moves on holds of the ledger.
LEMMA AnswersStayCounted ==
  ASSUME FreshInv, CountedInv, [Next]_vars
  PROVE  AnswersCounted'
<1>1. now \in Nat /\ now' \in Nat /\ now <= now'
  <2>1. now \in Nat
    BY ClockIsNat DEF FreshInv
  <2>2. ASSUME NEW r \in Pass, Bootstrap(r) \/ (\E n \in Node : TimerFires(r, n)) \/ Answers(r) \/ Continue(r)
        PROVE  now' = now
    BY <2>2 DEF Bootstrap, TimerFires, Answers, PqsAnswers, GrpcAnswers, Continue, StoreSnapshot,
                RecordAfterSync, RequestBackfill, SeedFromBackfill, RecordAfterBackfill
  <2>3. CASE Environment
    BY <2>1, <2>3 DEF Environment, Tick, Commit, ResetPqs, FlipPqs, FlipGrpc
  <2> QED
    BY <2>1, <2>2, <2>3 DEF Next, vars
<1>2. ASSUME NEW r \in Pass, Active(r)
      PROVE  /\ pass[r] \in FetchingPass \union RecordingPass /\ pass[r].node \in Node
             /\ pass[r].timestamp \in Nat /\ pass[r].ledger.count \in Nat
             /\ pass[r].timestamp <= now
             /\ pass[r].stage = "fetching" \/ pass[r].ledger.kind = "ok"
             /\ pass[r].ledger.kind = "ok" /\ resets[pass[r].node] = 0 =>
                   pass[r].ledger.count <= total[pass[r].node]
  <2>1. pass[r] \in FetchingPass \union RecordingPass
    BY <1>2 DEF FreshInv, RefreshOK, Refreshes, Active, IdlePass
  <2>2. pass[r].node \in Node /\ pass[r].timestamp \in Nat /\ pass[r].ledger.count \in Nat
    BY <2>1 DEF FetchingPass, RecordingPass, Answer, Pending, Failed
  <2> QED
    BY <1>2, <2>1, <2>2 DEF CountedInv, AnswersCounted
<1>3. CASE Environment
  <2> SUFFICES ASSUME NEW r \in Pass, Active(r)'
               PROVE  /\ pass'[r].timestamp <= now'
                      /\ pass'[r].stage = "fetching" \/ pass'[r].ledger.kind = "ok"
                      /\ pass'[r].ledger.kind = "ok" /\ resets'[pass'[r].node] = 0 =>
                            pass'[r].ledger.count <= total'[pass'[r].node]
    BY DEF AnswersCounted
  <2>1. pass' = pass /\ Active(r)
    BY <1>3 DEF Environment, Tick, Commit, ResetPqs, FlipPqs, FlipGrpc, Active
  <2> DEFINE n == pass[r].node
  <2>2. /\ total \in [Node -> Nat] /\ resets \in [Node -> Nat]
    BY DEF FreshInv, SourcesOK
  <2>3. resets'[n] = 0 => resets[n] = 0 /\ total'[n] >= total[n]
    <3>1. CASE UNCHANGED <<total, resets>>
      BY <1>2, <2>1, <2>2, <3>1
    <3>2. ASSUME NEW m \in Node, Commit(m) PROVE resets'[n] = 0 => resets[n] = 0 /\ total'[n] >= total[n]
      BY <1>2, <2>1, <2>2, <3>2 DEF Commit
    <3>3. ASSUME NEW m \in Node, ResetPqs(m) PROVE resets'[n] = 0 => resets[n] = 0 /\ total'[n] >= total[n]
      BY <1>2, <2>1, <2>2, <3>3 DEF ResetPqs
    <3> QED
      BY <1>3, <3>1, <3>2, <3>3 DEF Environment, Tick, FlipPqs, FlipGrpc, sources
  <2>4. total'[n] \in Int /\ total[n] \in Int
    <3>1. total' \in [Node -> Int]
      <4>1. CASE total' = total
        BY <2>2, <4>1
      <4>2. ASSUME NEW m \in Node, Commit(m) PROVE total' \in [Node -> Int]
        BY <2>2, <4>2 DEF Commit
      <4>3. ASSUME NEW m \in Node, ResetPqs(m) PROVE total' \in [Node -> Int]
        BY <2>2, <4>3 DEF ResetPqs
      <4> QED
        BY <1>3, <4>1, <4>2, <4>3 DEF Environment, Tick, FlipPqs, FlipGrpc, sources
    <3> QED
      BY <1>2, <2>1, <2>2, <3>1
  <2> QED
    BY <1>1, <1>2, <2>1, <2>3, <2>4
<1>4. ASSUME UNCHANGED <<now, total, resets>>,
             \A r \in Pass : Active(r)' =>
                \/ pass'[r].timestamp = now /\ pass'[r].ledger = Pending /\ pass'[r].stage = "fetching"
                \/ /\ Active(r) /\ pass'[r].node = pass[r].node /\ pass'[r].timestamp = pass[r].timestamp
                   /\ \/ pass'[r].stage = "fetching"
                      \/ pass'[r].ledger = pass[r].ledger /\ pass[r].ledger.kind = "ok"
                   /\ \/ pass'[r].ledger = pass[r].ledger \/ pass'[r].ledger = Failed
                      \/ pass'[r].ledger = Ok(total[pass[r].node], now)
      PROVE  AnswersCounted'
  <2> SUFFICES ASSUME NEW r \in Pass, Active(r)'
               PROVE  /\ pass'[r].timestamp <= now
                      /\ pass'[r].stage = "fetching" \/ pass'[r].ledger.kind = "ok"
                      /\ pass'[r].ledger.kind = "ok" /\ resets[pass'[r].node] = 0 =>
                            pass'[r].ledger.count <= total[pass'[r].node]
    BY <1>4 DEF AnswersCounted
  <2>1. CASE pass'[r].timestamp = now /\ pass'[r].ledger = Pending /\ pass'[r].stage = "fetching"
    BY <1>1, <2>1, AnswerTypes
  <2>2. CASE /\ Active(r) /\ pass'[r].node = pass[r].node /\ pass'[r].timestamp = pass[r].timestamp
             /\ \/ pass'[r].stage = "fetching"
                \/ pass'[r].ledger = pass[r].ledger /\ pass[r].ledger.kind = "ok"
             /\ \/ pass'[r].ledger = pass[r].ledger \/ pass'[r].ledger = Failed
                \/ pass'[r].ledger = Ok(total[pass[r].node], now)
    <3>1. Ok(total[pass[r].node], now).count = total[pass[r].node] /\ total[pass[r].node] \in Nat
      BY <1>2, <2>2 DEF Ok, FreshInv, SourcesOK
    <3> QED
      BY <1>2, <2>2, <3>1, AnswerTypes
  <2> QED
    BY <1>4, <2>1, <2>2
<1>5. pass \in [Pass -> Refreshes] /\ IdlePass.stage = "idle"
  BY DEF FreshInv, RefreshOK, IdlePass
<1>6. ASSUME NEW r \in Pass, NEW n \in Node, NEW boot \in BOOLEAN, BeginRefresh(r, n, boot),
             UNCHANGED <<now, sources>>
      PROVE  AnswersCounted'
  <2>1. \A s \in Pass : s # r => pass'[s] = pass[s]
    BY <1>5, <1>6 DEF BeginRefresh
  <2>2. pass'[r].timestamp = now /\ pass'[r].ledger = Pending /\ pass'[r].stage = "fetching"
    BY <1>5, <1>6 DEF BeginRefresh
  <2> QED
    BY <1>2, <1>4, <1>6, <2>1, <2>2 DEF Active, sources
<1>7. ASSUME NEW r \in Pass, Bootstrap(r) PROVE AnswersCounted'
  <2>1. NodeOrder[bootAt] \in Node
    <3>1. bootAt \in 1..(Len(NodeOrder) + 1) /\ Len(NodeOrder) \in Nat
      BY DEF FreshInv, RefreshOK
    <3>2. bootAt \in 1..Len(NodeOrder)
      BY <1>7, <3>1 DEF Bootstrap
    <3> QED BY <3>2
  <2> QED
    BY <1>6, <1>7, <2>1 DEF Bootstrap
<1>8. ASSUME NEW r \in Pass, NEW n \in Node, TimerFires(r, n) PROVE AnswersCounted'
  BY <1>6, <1>8 DEF TimerFires
<1>9. ASSUME NEW r \in Pass, Answers(r) PROVE AnswersCounted'
  <2>1. Active(r) /\ pass[r] \in FetchingPass
    BY <1>9 DEF Answers, PqsAnswers, GrpcAnswers, FreshInv, RefreshOK, Refreshes, RecordingPass,
                IdlePass, Active
  <2>2. /\ \A s \in Pass : s # r => pass'[s] = pass[s]
        /\ pass'[r].node = pass[r].node /\ pass'[r].timestamp = pass[r].timestamp
        /\ pass'[r].stage = "fetching"
        /\ \/ pass'[r].ledger = pass[r].ledger \/ pass'[r].ledger = Failed
           \/ pass'[r].ledger = Ok(total[pass[r].node], now)
    BY <1>5, <1>9, <2>1 DEF Answers, PqsAnswers, GrpcAnswers, FetchingPass
  <2> QED
    BY <1>2, <1>4, <1>9, <2>1, <2>2 DEF Active, sources, Answers, PqsAnswers, GrpcAnswers
<1>10. ASSUME NEW r \in Pass, Continue(r) PROVE AnswersCounted'
  <2>1. Active(r) /\ UNCHANGED <<now, sources>>
    BY <1>10 DEF Continue, StoreSnapshot, RecordAfterSync, RequestBackfill, SeedFromBackfill,
                 RecordAfterBackfill, Active
  <2>2. CASE EndRefresh(r)
    <3>1. pass'[r] = IdlePass /\ \A s \in Pass : s # r => pass'[s] = pass[s]
      BY <1>5, <2>2 DEF EndRefresh
    <3>2. \A s \in Pass : Active(s)' => s # r /\ Active(s) /\ pass'[s] = pass[s]
      BY <1>5, <3>1 DEF Active
    <3> QED
      BY <1>2, <1>4, <2>1, <3>2 DEF sources
  <2>3. CASE StoreSnapshot(r) /\ ~EndRefresh(r)
    <3>1. /\ \A s \in Pass : s # r => pass'[s] = pass[s]
          /\ pass'[r].node = pass[r].node /\ pass'[r].timestamp = pass[r].timestamp
          /\ pass'[r].ledger = pass[r].ledger /\ pass[r].ledger.kind = "ok"
      BY <1>5, <2>3 DEF StoreSnapshot
    <3> QED
      BY <1>2, <1>4, <2>1, <3>1 DEF Active, sources
  <2>4. CASE RequestBackfill(r)
    <3>1. pass[r] \in RecordingPass
      BY <2>4 DEF RequestBackfill, FreshInv, RefreshOK, Refreshes, FetchingPass, IdlePass
    <3>2. /\ \A s \in Pass : s # r => pass'[s] = pass[s]
          /\ pass'[r].node = pass[r].node /\ pass'[r].timestamp = pass[r].timestamp
          /\ pass'[r].ledger = pass[r].ledger /\ pass[r].ledger.kind = "ok"
      BY <1>2, <1>5, <2>1, <2>4, <3>1 DEF RequestBackfill, RecordingPass
    <3> QED
      BY <1>2, <1>4, <2>1, <3>2 DEF Active, sources
  <2> QED
    BY <1>10, <2>2, <2>3, <2>4 DEF Continue, RecordAfterSync, SeedFromBackfill, RecordAfterBackfill
<1>11. CASE UNCHANGED vars
  BY <1>2, <1>4, <1>11 DEF vars, sources, Active
<1> QED
  BY <1>3, <1>7, <1>8, <1>9, <1>10, <1>11 DEF Next

LEMMA CountedStep == FreshInv /\ FreshInv' /\ CountedInv /\ [Next]_vars => CountedInv'
<1> SUFFICES ASSUME FreshInv, FreshInv', CountedInv, [Next]_vars PROVE CountedInv' OBVIOUS
<1>1. AnswersCounted'
  BY AnswersStayCounted
<1>2. ASSUME NEW r \in Pass, RecordAfterSync(r) \/ RecordAfterBackfill(r) \/ SeedFromBackfill(r)
      PROVE  HistoryOK' /\ NoUpdateUncounted'
  <2>1. pass[r] \in RecordingPass /\ Active(r) /\ resets' = resets
    BY <1>2 DEF RecordAfterSync, RecordAfterBackfill, SeedFromBackfill, FreshInv, RefreshOK,
                Refreshes, FetchingPass, IdlePass, Active, sources
  <2>2. PICK n \in Node, time \in 0..MaxTime, count \in Nat :
          n = pass[r].node /\ time = pass[r].timestamp /\ count = pass[r].ledger.count
    <3>1. pass[r].node \in Node /\ pass[r].timestamp \in Nat /\ pass[r].ledger.count \in Nat
      BY <2>1 DEF RecordingPass, Answer, Pending, Failed
    <3>2. pass[r].timestamp <= now /\ now \in 0..MaxTime
      BY <2>1 DEF CountedInv, AnswersCounted, FreshInv, SourcesOK
    <3>3. pass[r].timestamp \in 0..MaxTime
      BY <3>1, <3>2
    <3> QED
      BY <3>1, <3>3
  <2>3. CASE RecordAfterSync(r) \/ RecordAfterBackfill(r)
    <3>1. RecordActivitySample(n, time, count)
      BY <2>2, <2>3 DEF RecordAfterSync, RecordAfterBackfill
    <3> QED
      BY <2>1, <3>1, RecordCounts
  <2>4. CASE SeedFromBackfill(r)
    <3>1. SeedActivityHistory(n, count, ActivityBuckets(n))
      BY <2>2, <2>4 DEF SeedFromBackfill
    <3>2. ActivityBuckets(n) \in Seq(Sample) /\ total[n] \in Nat
      BY BucketsAreSamples DEF FreshInv, SourcesOK
    <3>3. resets[n] = 0 => count <= total[n]
      <4>1. pass[r].ledger.kind = "ok"
        BY <2>1 DEF RecordingPass, CountedInv, AnswersCounted
      <4> QED
        BY <2>1, <2>2, <4>1 DEF CountedInv, AnswersCounted
    <3> QED
      BY <2>1, <3>1, <3>2, <3>3, SeedCounts
  <2> QED
    BY <1>2, <2>3, <2>4
<1>3. ASSUME UNCHANGED <<history, baseline>>, \A n \in Node : resets'[n] = 0 => resets[n] = 0
      PROVE  HistoryOK' /\ NoUpdateUncounted'
  BY <1>3 DEF CountedInv, HistoryOK, NoUpdateUncounted, Counted
<1>4. UNCHANGED <<history, baseline, resets>> => HistoryOK' /\ NoUpdateUncounted'
  BY <1>3
<1>5. ASSUME NEW n \in Node, ResetPqs(n) PROVE HistoryOK' /\ NoUpdateUncounted'
  <2>1. resets \in [Node -> Nat] /\ UNCHANGED <<history, baseline>>
    BY <1>5 DEF FreshInv, SourcesOK, ResetPqs, cache
  <2> QED
    BY <1>3, <1>5, <2>1 DEF ResetPqs
<1>6. ASSUME NEW r \in Pass, Bootstrap(r) \/ (\E n \in Node : TimerFires(r, n)) \/ Answers(r)
      PROVE  UNCHANGED <<history, baseline, resets>>
  BY <1>6 DEF Bootstrap, TimerFires, Answers, PqsAnswers, GrpcAnswers, sources, cache
<1>7. ASSUME NEW r \in Pass, StoreSnapshot(r) \/ RequestBackfill(r)
      PROVE  UNCHANGED <<history, baseline, resets>>
  BY <1>7 DEF StoreSnapshot, RequestBackfill, sources, cache
<1>8. ASSUME Tick \/ \E n \in Node : Commit(n) \/ FlipPqs(n) \/ FlipGrpc(n)
      PROVE  UNCHANGED <<history, baseline, resets>>
  BY <1>8 DEF Tick, Commit, FlipPqs, FlipGrpc, sources, cache
<1>9. UNCHANGED vars => UNCHANGED <<history, baseline, resets>>
  BY DEF vars, sources, cache
<1>10. HistoryOK' /\ NoUpdateUncounted'
  BY <1>2, <1>4, <1>5, <1>6, <1>7, <1>8, <1>9 DEF Next, Continue, Environment
<1> QED
  BY <1>1, <1>10 DEF CountedInv

(* The types of everything the poller keeps: besides FreshInv, the samples of
   each history fall in buckets of the clock. *)
THEOREM PollerTypes == Spec => []TypeOK
<1>1. FreshInv /\ CountedInv => TypeOK
  BY DEF FreshInv, CountedInv, TypeOK
<1>2. FreshInv /\ CountedInv /\ [Next]_vars => FreshInv' /\ CountedInv'
  BY FreshStep, CountedStep
<1> QED BY <1>1, <1>2, FreshInit, CountedInit, PTL DEF Spec

(* Until PQS starts over, the buckets of a node and what fell out of them add
   up to no less than the last observed count, however polls fail, overlap or
   answer out of order and whenever the backfill runs. *)
THEOREM UpdatesCounted == Spec => []NoUpdateUncounted
<1>1. CountedInv => NoUpdateUncounted
  BY DEF CountedInv
<1>2. FreshInv /\ CountedInv /\ [Next]_vars => FreshInv' /\ CountedInv'
  BY FreshStep, CountedStep
<1> QED BY <1>1, <1>2, FreshInit, CountedInit, PTL DEF Spec
=============================================================================
