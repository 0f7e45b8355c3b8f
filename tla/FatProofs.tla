----------------------------- MODULE FatProofs -----------------------------
(***************************************************************************)
(* Facts about the operators of Fat: what the allocator returns, what it   *)
(* leaves alone, and how anchored heads survive a growing table.           *)
(***************************************************************************)
EXTENDS Fat, FiniteSetTheorems, WellFoundedInduction, TLAPS

\* The minimum of a nonempty set of naturals is its least element.
LEMMA MinOfNaturals ==
    ASSUME NEW S \in SUBSET Nat, S # {}
    PROVE  Min(S) \in S /\ \A x \in S : Min(S) <= x
<1>1. IsWellFoundedOn(OpToRel(<, Nat), Nat)
  BY NatLessThanWellFounded
<1>2. PICK x \in S : \A y \in S : ~ (<<y, x>> \in OpToRel(<, Nat))
  BY <1>1, WFMin
<1>3. ASSUME NEW y \in S
      PROVE  x <= y
  <2>1. CASE y < x
    <3>1. <<y, x>> \in Nat \X Nat /\ <<y, x>>[1] < <<y, x>>[2]
      BY <2>1
    <3>2. <<y, x>> \in OpToRel(<, Nat)
      BY <3>1 DEF OpToRel
    <3> QED
      BY <1>2, <3>2
  <2> QED
    BY <2>1
<1> QED
  BY <1>3 DEF Min

LEMMA ClusterSets ==
    /\ Clusters \in SUBSET Nat
    /\ Stored \in SUBSET Clusters
    /\ IsFiniteSet(Clusters)
    /\ EndOfChain \notin Clusters
    /\ 0 \notin Clusters
    /\ EndOfChain # 0
  BY ClusterCountAssumption, EndOfChainAssumption, FS_Interval DEF Clusters, Stored

\* A chain that exists is a sequence of clusters that the table links.
LEMMA ChainType ==
    ASSUME NEW fat, NEW first, HasChain(fat, first)
    PROVE  /\ Chain(fat, first) \in Seq(Clusters)
           /\ IsChain(fat, Chain(fat, first))
<1> DEFINE s == Chain(fat, first)
<1>1. s \in ChainsFrom(fat, first)
  BY DEF HasChain, Chain
<1>2. IsChain(fat, s)
  BY <1>1 DEF ChainsFrom
<1>3. PICK n \in 1 .. Cardinality(Clusters) : s = Walk(fat, first, n)
  BY <1>1 DEF ChainsFrom
<1>4. n \in Nat
  BY <1>3, ClusterSets, FS_CardinalityType
<1>5. DOMAIN s = 1 .. n /\ s = [k \in 1 .. n |-> s[k]]
  BY <1>3 DEF Walk
<1>7. Len(s) = n
  BY <1>4, <1>5
<1>8. \A k \in 1 .. n : s[k] \in Clusters
  BY <1>2, <1>7 DEF IsChain
<1> HIDE DEF s
<1>9. s \in Seq(Clusters)
  BY <1>4, <1>5, <1>8
<1> QED
  BY <1>2, <1>9 DEF s

-----------------------------------------------------------------------------
\* The allocator finds a cluster when it says it can allocate, and only ever
\* takes free ones.
LEMMA FirstFitFacts ==
    ASSUME NEW fat \in [Clusters -> FatValues], NEW n \in Nat, CanAllocate(fat, n)
    PROVE  /\ FirstFit(fat, n) \in SUBSET Clusters
           /\ FirstFit(fat, n) # {}
           /\ \A c \in FirstFit(fat, n) : fat[c] = 0
<1> DEFINE Free == FreeClusters(fat)
<1>1. Free \in SUBSET Clusters /\ IsFiniteSet(Free)
  BY ClusterSets, FS_Subset DEF FreeClusters
<1>2. Free # {}
  BY FS_EmptySet DEF CanAllocate
<1>3. Min(Free) \in Free /\ \A x \in Free : Min(Free) <= x
  BY <1>1, <1>2, MinOfNaturals, ClusterSets
<1>4. {d \in Free : d < Min(Free)} = {}
  <2>1. Free \in SUBSET Nat
    BY <1>1, ClusterSets
  <2> HIDE DEF Free
  <2>2. ASSUME NEW d \in Free
        PROVE  ~ (d < Min(Free))
    <3>1. d \in Nat /\ Min(Free) \in Nat
      BY <1>3, <2>1
    <3> QED
      BY <1>3, <3>1
  <2> QED
    BY <2>2
<1>5. Min(Free) \in FirstFit(fat, n)
  BY <1>3, <1>4, FS_EmptySet DEF FirstFit, CanAllocate
<1> QED
  BY <1>1, <1>5 DEF FirstFit, FreeClusters

\* Linking clusters of a set yields a table that differs from the old one on
\* that set only, where every entry points to a later cluster of the set or
\* ends the chain.
LEMMA LinkedFacts ==
    ASSUME NEW fat \in [Clusters -> FatValues], NEW S \in SUBSET Clusters
    PROVE  /\ Linked(fat, S) \in [Clusters -> FatValues]
           /\ \A c \in Clusters \ S : Linked(fat, S)[c] = fat[c]
           /\ \A c \in S : \/ Linked(fat, S)[c] = EndOfChain
                           \/ Linked(fat, S)[c] \in S /\ Linked(fat, S)[c] > c
<1>1. ASSUME NEW c \in S, \E d \in S : d > c
      PROVE  LET T == {d \in S : d > c} IN Min(T) \in S /\ Min(T) > c
  <2> DEFINE T == {d \in S : d > c}
  <2>1. T \in SUBSET Nat /\ T # {}
    BY <1>1, ClusterSets
  <2>2. Min(T) \in T
    BY <2>1, MinOfNaturals
  <2> QED
    BY <2>2
<1>2. \A c \in S : \/ Linked(fat, S)[c] = EndOfChain
                   \/ Linked(fat, S)[c] \in S /\ Linked(fat, S)[c] > c
  BY <1>1 DEF Linked
<1>3. \A c \in Clusters \ S : Linked(fat, S)[c] = fat[c]
  BY DEF Linked
<1>4. \A c \in Clusters : Linked(fat, S)[c] \in FatValues
  BY <1>2, <1>3 DEF FatValues
<1> QED
  BY <1>2, <1>3, <1>4 DEF Linked

\* The table after an allocation has the allocated head anchored and differs
\* from the old one in entries that were free.
LEMMA AllocateFacts ==
    ASSUME NEW fat \in [Clusters -> FatValues], NEW n \in Nat, CanAllocate(fat, n)
    PROVE  /\ Allocate(fat, n) \in [Clusters -> FatValues]
           /\ AllocatedHead(fat, n) \in Clusters
           /\ Below(fat, Allocate(fat, n))
           /\ Anchored(Allocate(fat, n), AllocatedHead(fat, n))
<1> DEFINE S == FirstFit(fat, n)
           g == Allocate(fat, n)
           h == AllocatedHead(fat, n)
<1>1. S \in SUBSET Clusters /\ S # {} /\ \A c \in S : fat[c] = 0
  BY FirstFitFacts
<1>2. h \in S
  BY <1>1, MinOfNaturals, ClusterSets DEF AllocatedHead
<1>3. /\ g \in [Clusters -> FatValues]
      /\ \A c \in Clusters \ S : g[c] = fat[c]
      /\ \A c \in S : g[c] = EndOfChain \/ (g[c] \in S /\ g[c] > c)
  BY <1>1, LinkedFacts DEF Allocate
<1>4. Below(fat, g)
  BY <1>1, <1>3, ClusterSets DEF Below
<1>5. ClosedIn(g, S \intersect Stored)
  BY <1>1, <1>3 DEF ClosedIn, Unsaved
<1>6. Anchored(g, h)
  BY <1>1, <1>2, <1>5 DEF Anchored, Unsaved
<1> QED
  BY <1>1, <1>2, <1>3, <1>4, <1>6

\* A head stays anchored while the table grows.
LEMMA AnchoredGrows ==
    ASSUME NEW f, NEW g, NEW h, Below(f, g), Anchored(f, h),
           \A c \in Stored : f[c] \in FatValues
    PROVE  Anchored(g, h)
<1>1. CASE h = 0 \/ h \in Unsaved
  BY <1>1 DEF Anchored
<1>2. ASSUME NEW S \in SUBSET Stored, h \in S, ClosedIn(f, S)
      PROVE  Anchored(g, h)
  <2>1. \A c \in S : f[c] # 0
    BY <1>2, ClusterSets DEF ClosedIn, Unsaved
  <2>2. \A c \in S : g[c] = f[c]
    BY <2>1 DEF Below
  <2>3. ClosedIn(g, S)
    BY <1>2, <2>2 DEF ClosedIn
  <2> QED
    BY <1>2, <2>3 DEF Anchored
<1> QED
  BY <1>1, <1>2 DEF Anchored

-----------------------------------------------------------------------------
(***************************************************************************)
(* A walk is the sequence its recursion describes.                         *)
(***************************************************************************)
IsWalk(w, fat, head, n) ==
    w = [k \in 1 .. n |-> IF k = 1 THEN head ELSE NextCluster(fat, w[k - 1])]

LEMMA WalkExists ==
    ASSUME NEW fat, NEW head, NEW n \in Nat
    PROVE  \E w : IsWalk(w, fat, head, n)
<1> DEFINE Bad == {m \in Nat : ~ \E w : IsWalk(w, fat, head, m)}
<1>1. SUFFICES ASSUME Bad # {} PROVE FALSE
  OBVIOUS
<1>3. PICK m \in Bad : \A x \in Bad : m <= x
  BY <1>1, MinOfNaturals
<1>4. IsWalk([k \in 1 .. 0 |-> head], fat, head, 0)
  BY DEF IsWalk
<1>5. m # 0 /\ m - 1 \in Nat /\ m - 1 \notin Bad
  BY <1>3, <1>4
<1>6. PICK w : IsWalk(w, fat, head, m - 1)
  BY <1>5
<1> DEFINE x == IF m = 1 THEN head ELSE NextCluster(fat, w[m - 1])
           v == [k \in 1 .. m |-> IF k < m THEN w[k] ELSE x]
<1>7. \A k \in 1 .. m - 1 : w[k] = IF k = 1 THEN head ELSE NextCluster(fat, w[k - 1])
  BY <1>6 DEF IsWalk
<1>8. \A k \in 1 .. m : v[k] = IF k = 1 THEN head ELSE NextCluster(fat, v[k - 1])
  BY <1>7, <1>5
<1>9. IsWalk(v, fat, head, m)
  BY <1>8 DEF IsWalk
<1> QED
  BY <1>3, <1>9

LEMMA WalkFacts ==
    ASSUME NEW fat, NEW head, NEW n \in Nat
    PROVE  IsWalk(Walk(fat, head, n), fat, head, n)
<1> DEFINE nth == CHOOSE f : IsWalk(f, fat, head, n)
<1>1. IsWalk(nth, fat, head, n)
  BY WalkExists
<1>2. Walk(fat, head, n) = [k \in 1 .. n |-> nth[k]]
  BY Zenon DEF Walk, IsWalk
<1> HIDE DEF nth
<1>3. Walk(fat, head, n) = nth
  BY <1>1, <1>2 DEF IsWalk
<1> QED
  BY <1>1, <1>3

\* The least element of a set of naturals is its minimum.
LEMMA MinIs ==
    ASSUME NEW S \in SUBSET Nat, NEW m \in S, \A x \in S : m <= x
    PROVE  Min(S) = m
<1>1. Min(S) \in S /\ Min(S) <= m
  BY MinOfNaturals
<1>2. m <= Min(S)
  BY <1>1
<1>3. m \in Nat /\ Min(S) \in Nat
  BY <1>1
<1> QED
  BY <1>1, <1>2, <1>3

-----------------------------------------------------------------------------
(***************************************************************************)
(* Extents: the clusters on the disk that the chain from a head leads      *)
(* through.                                                                *)
(***************************************************************************)
\* The extent of an anchored head holds it, is closed and allocated.
LEMMA ExtentFacts ==
    ASSUME NEW f, NEW h, Anchored(f, h)
    PROVE  /\ Extent(f, h) \in SUBSET Stored
           /\ h \in Stored => h \in Extent(f, h)
           /\ h \notin Stored => Extent(f, h) = {}
           /\ ClosedIn(f, Extent(f, h))
           /\ \A c \in Extent(f, h) : f[c] # 0
<1> DEFINE E == Extent(f, h)
<1>1. E \in SUBSET Stored /\ (h \in Stored => h \in E) /\ (h \notin Stored => E = {})
  BY DEF Extent
<1>2. ASSUME NEW c \in E
      PROVE  f[c] = EndOfChain \/ f[c] \in Unsaved \/ (f[c] \in E /\ f[c] > c)
  <2>1. h \in Stored /\ c \in Stored
    BY DEF Extent
  <2>2. PICK S \in SUBSET Stored : h \in S /\ ClosedIn(f, S)
    BY <2>1, ClusterSets DEF Anchored, Unsaved
  <2>3. c \in S
    BY <2>2 DEF Extent
  <2>4. CASE f[c] \in S /\ f[c] > c
    <3>1. f[c] \in Stored /\ f[c] # EndOfChain /\ f[c] \notin Unsaved
      BY <2>4, ClusterSets DEF Unsaved
    <3>2. ASSUME NEW T \in SUBSET Stored, h \in T, ClosedIn(f, T)
          PROVE  f[c] \in T
      <4>1. c \in T
        BY <3>2 DEF Extent
      <4> QED
        BY <3>1, <3>2, <4>1 DEF ClosedIn
    <3>3. f[c] \in E
      BY <2>1, <3>1, <3>2 DEF Extent
    <3> QED
      BY <2>4, <3>3
  <2> QED
    BY <2>2, <2>3, <2>4 DEF ClosedIn
<1>3. ClosedIn(f, E)
  BY <1>2 DEF ClosedIn
<1>4. \A c \in E : f[c] # 0
  BY <1>1, <1>2, ClusterSets DEF Unsaved
<1> QED
  BY <1>1, <1>3, <1>4

\* It is the least closed set.
LEMMA ExtentLeast ==
    ASSUME NEW f, NEW h, NEW S \in SUBSET Stored, h \in S, ClosedIn(f, S)
    PROVE  Extent(f, h) \subseteq S
  BY DEF Extent

\* The extent of an anchored head stays what it is while the table grows.
LEMMA ExtentGrows ==
    ASSUME NEW f, NEW g, NEW h, Below(f, g), Anchored(f, h)
    PROVE  /\ Extent(g, h) = Extent(f, h)
           /\ \A c \in Extent(f, h) : g[c] = f[c]
<1> DEFINE E == Extent(f, h)
           G == Extent(g, h)
<1>1. /\ E \in SUBSET Stored /\ ClosedIn(f, E)
      /\ h \in Stored => h \in E
      /\ h \notin Stored => E = {} /\ G = {}
      /\ \A c \in E : f[c] # 0
  BY ExtentFacts DEF Extent
<1>2. \A c \in E : g[c] = f[c]
  BY <1>1 DEF Below
<1>3. ClosedIn(g, E)
  BY <1>1, <1>2 DEF ClosedIn
<1>4. CASE h \in Stored
  <2>1. G \subseteq E
    BY <1>1, <1>3, <1>4, ExtentLeast
  <2>2. Anchored(g, h)
    BY <1>1, <1>3, <1>4 DEF Anchored
  <2>3. ClosedIn(g, G) /\ h \in G /\ G \in SUBSET Stored
    BY <1>4, <2>2, ExtentFacts
  <2>4. ClosedIn(f, G)
    BY <1>2, <2>1, <2>3 DEF ClosedIn
  <2>5. E \subseteq G
    BY <2>3, <2>4, ExtentLeast
  <2> QED
    BY <1>2, <2>1, <2>5
<1> QED
  BY <1>1, <1>2, <1>4

\* Tables that agree on the clusters the disk keeps have the same extents.
LEMMA ExtentAgrees ==
    ASSUME NEW f, NEW g, NEW h, \A c \in Stored : f[c] = g[c]
    PROVE  /\ Extent(g, h) = Extent(f, h)
           /\ Anchored(f, h) <=> Anchored(g, h)
<1>1. \A S \in SUBSET Stored : ClosedIn(f, S) <=> ClosedIn(g, S)
  BY DEF ClosedIn
<1> QED
  BY <1>1 DEF Extent, Anchored

-----------------------------------------------------------------------------
(***************************************************************************)
(* A chain passes a set of clusters in ascending order: from its head, the *)
(* least, every cluster leads to the next greater one, if there is one.    *)
(***************************************************************************)
InOrder(f, E, h) ==
    /\ h \in E
    /\ \A c \in E : h <= c
    /\ \A c \in E : f[c] \in E => f[c] > c
    /\ \A c, d \in E : d < c => f[d] \in E /\ f[d] <= c

\* The extent of a head is passed in order.
LEMMA ExtentInOrder ==
    ASSUME NEW f, NEW h \in Stored, Anchored(f, h)
    PROVE  InOrder(f, Extent(f, h), h)
<1> DEFINE E == Extent(f, h)
<1>1. /\ E \in SUBSET Stored /\ E \in SUBSET Nat /\ h \in E /\ h \in Nat
      /\ \A c \in E : c \in Nat
      /\ \A c \in E : f[c] = EndOfChain \/ f[c] \in Unsaved \/ (f[c] \in E /\ f[c] > c)
      /\ \A c \in E : f[c] \in E => f[c] > c
      /\ \A S \in SUBSET Stored : h \in S /\ ClosedIn(f, S) => E \subseteq S
  <2>1. E \in SUBSET Stored /\ h \in E /\ ClosedIn(f, E)
    BY ExtentFacts
  <2>2. E \in SUBSET Nat
    BY <2>1, ClusterSets
  <2>3. \A c \in Stored : c # EndOfChain /\ c \notin Unsaved
    BY ClusterSets DEF Unsaved
  <2>4. \A S \in SUBSET Stored : h \in S /\ ClosedIn(f, S) => E \subseteq S
    BY ExtentLeast
  <2> HIDE DEF E
  <2> QED
    BY <2>1, <2>2, <2>3, <2>4 DEF ClosedIn
<1> HIDE DEF E
\* The head is the least cluster.
<1>2. ASSUME NEW c \in E
      PROVE  h <= c
  <2> DEFINE S == {e \in E : h <= e}
  <2>1. S \in SUBSET Stored /\ h \in S
    <3>1. h <= h
      BY <1>1
    <3> QED
      BY <1>1, <3>1
  <2>2. ASSUME NEW e \in S, f[e] \in E, f[e] > e
        PROVE  f[e] \in S
    <3>1. e \in Nat /\ f[e] \in Nat /\ h <= e /\ h \in Nat
      BY <1>1, <2>2
    <3>2. h <= f[e]
      BY <2>2, <3>1
    <3> QED
      BY <2>2, <3>2
  <2>3. ClosedIn(f, S)
    BY <1>1, <2>2 DEF ClosedIn
  <2> QED
    BY <1>1, <2>1, <2>3
\* Every other cluster has a predecessor.
<1>3. ASSUME NEW c \in E, c # h
      PROVE  \E p \in E : f[p] = c /\ p < c
  <2> SUFFICES ASSUME ~ \E p \in E : f[p] = c /\ p < c
               PROVE  FALSE
    OBVIOUS
  <2> DEFINE S == E \ {c}
  <2>1. S \in SUBSET Stored /\ h \in S
    BY <1>1, <1>3
  <2>2. \A e \in E : f[e] # c
    BY <1>1
  <2>3. ClosedIn(f, S)
    BY <1>1, <2>2 DEF ClosedIn
  <2> QED
    BY <1>1, <2>1, <2>3
\* No cluster is passed over: the least one that is has a predecessor, which
\* is none of the earlier ones.
<1> DEFINE Skips(c, d) == d < c /\ ~ (f[d] \in E /\ f[d] <= c)
           Bad == {c \in E : \E d \in E : Skips(c, d)}
<1>4. Bad = {}
  <2> SUFFICES ASSUME Bad # {} PROVE FALSE
    OBVIOUS
  <2>1. PICK c \in Bad : \A x \in Bad : c <= x
    BY <1>1, MinOfNaturals
  <2>2. PICK d \in E : Skips(c, d)
    BY <2>1
  <2>3. c \in E /\ c # h
    BY <1>1, <1>2, <2>2
  <2>4. PICK p \in E : f[p] = c /\ p < c
    BY <1>3, <2>3
  <2>5. p # d
    BY <1>1, <2>2, <2>3, <2>4
  <2>6. CASE d < p
    <3>1. Skips(p, d)
      <4>1. p \in Nat /\ d \in Nat /\ c \in Nat /\ d < c
        BY <1>1, <2>2, <2>3
      <4>2. ASSUME f[d] \in E, f[d] <= p PROVE FALSE
        <5>1. f[d] \in Nat
          BY <1>1, <4>2
        <5>2. f[d] <= c
          BY <2>4, <4>1, <4>2, <5>1
        <5> QED
          BY <2>2, <4>2, <5>2
      <4> QED
        BY <2>6, <4>2
    <3> QED
      BY <1>1, <2>1, <2>3, <2>4, <3>1
  <2>7. CASE p < d
    <3>1. Skips(d, p)
      BY <1>1, <2>2, <2>3, <2>4, <2>7
    <3> QED
      BY <1>1, <2>1, <2>2, <2>3, <3>1
  <2> QED
    BY <1>1, <2>5, <2>6, <2>7
<1> QED
  BY <1>1, <1>2, <1>4 DEF InOrder, E

\* So are the clusters that the allocator links.
LEMMA LinkedInOrder ==
    ASSUME NEW fat \in [Clusters -> FatValues], NEW S \in SUBSET Clusters, S # {}
    PROVE  InOrder(Linked(fat, S), S, Min(S))
<1> DEFINE g == Linked(fat, S)
<1>1. S \in SUBSET Nat /\ \A c \in S : c # EndOfChain
  BY ClusterSets
<1>2. Min(S) \in S /\ \A c \in S : Min(S) <= c
  BY <1>1, MinOfNaturals
<1>3. \A c \in S : g[c] \in S => g[c] > c
  BY <1>1, LinkedFacts
<1>4. ASSUME NEW c \in S, NEW d \in S, d < c
      PROVE  g[d] \in S /\ g[d] <= c
  <2> DEFINE T == {e \in S : e > d}
  <2>1. T \in SUBSET Nat /\ c \in T
    BY <1>1, <1>4
  <2>2. Min(T) \in T /\ Min(T) <= c
    BY <2>1, MinOfNaturals
  <2>3. g[d] = Min(T)
    BY <1>4 DEF Linked
  <2> QED
    BY <2>2, <2>3
<1> QED
  BY <1>2, <1>3, <1>4 DEF InOrder

\* The places of the clusters in such a set.
LEMMA PlaceType ==
    ASSUME NEW E \in SUBSET Clusters, NEW c
    PROVE  /\ PlaceIn(E, c) \in Nat
           /\ Cardinality(E) \in Nat
           /\ PlaceIn(E, c) <= Cardinality(E)
<1>1. IsFiniteSet(E)
  BY ClusterSets, FS_Subset
<1> QED
  BY <1>1, FS_Subset, FS_CardinalityType DEF PlaceIn

LEMMA FirstPlace ==
    ASSUME NEW f, NEW E \in SUBSET Clusters, NEW h, InOrder(f, E, h)
    PROVE  PlaceIn(E, h) = 1
<1>1. h \in E /\ h \in Nat /\ \A d \in E : d \in Nat /\ h <= d
  BY ClusterSets DEF InOrder
<1>2. \A d \in E : d <= h <=> d = h
  BY <1>1
<1>3. {d \in E : d <= h} = {h}
  BY <1>1, <1>2
<1> QED
  BY <1>3, FS_Singleton DEF PlaceIn

LEMMA NextPlace ==
    ASSUME NEW f, NEW E \in SUBSET Clusters, NEW h, InOrder(f, E, h),
           NEW c \in E, NEW d \in E, f[c] = d
    PROVE  PlaceIn(E, d) = PlaceIn(E, c) + 1
<1> DEFINE L == {e \in E : e <= c}
           M == {e \in E : e <= d}
<1>1. /\ \A e \in E : e \in Nat
      /\ c \in Nat /\ d \in Nat
      /\ IsFiniteSet(E)
  BY ClusterSets, FS_Subset
<1>2. d > c /\ \A e \in E : c < e => d <= e
  BY DEF InOrder
<1>3. \A e \in E : e <= d <=> e <= c \/ e = d
  <2> SUFFICES ASSUME NEW e \in E PROVE e <= d <=> e <= c \/ e = d
    OBVIOUS
  <2>1. e \in Nat
    BY <1>1
  <2> QED
    BY <1>1, <1>2, <2>1
<1>4. ~ (d <= c)
  BY <1>1, <1>2
<1>5. M = L \union {d} /\ d \notin L
  BY <1>3, <1>4
<1>6. IsFiniteSet(L)
  BY <1>1, FS_Subset
<1>7. Cardinality(M) = Cardinality(L) + 1
  BY <1>5, <1>6, FS_AddElement
<1> QED
  BY <1>7 DEF PlaceIn

LEMMA LastPlace ==
    ASSUME NEW f, NEW E \in SUBSET Clusters, NEW h, InOrder(f, E, h),
           NEW c \in E, f[c] \notin E
    PROVE  PlaceIn(E, c) = Cardinality(E)
<1>1. \A d \in E : ~ (c < d)
  BY DEF InOrder
<1>2. c \in Nat /\ \A d \in E : d \in Nat
  BY ClusterSets
<1>3. \A d \in E : d <= c
  BY <1>1, <1>2
<1>4. {d \in E : d <= c} = E
  BY <1>3
<1> QED
  BY <1>4 DEF PlaceIn

\* What Chain returns: a walk from the head along the links, to the marker.
LEMMA ChainFacts ==
    ASSUME NEW f, NEW h, HasChain(f, h)
    PROVE  LET s == Chain(f, h)
           IN  /\ s \in Seq(Clusters)
               /\ Len(s) \in Nat \ {0}
               /\ s[1] = h
               /\ \A k \in 1 .. Len(s) - 1 : f[s[k]] = s[k + 1]
               /\ f[s[Len(s)]] = EndOfChain
<1> DEFINE s == Chain(f, h)
<1>1. s \in Seq(Clusters) /\ IsChain(f, s)
  BY ChainType
<1>2. s \in ChainsFrom(f, h)
  BY DEF HasChain, Chain
<1>3. PICK n \in 1 .. Cardinality(Clusters) : s = Walk(f, h, n)
  BY <1>2 DEF ChainsFrom
<1>4. n \in Nat \ {0} /\ Cardinality(Clusters) \in Nat
  BY ClusterSets, FS_CardinalityType
<1>5. s = [k \in 1 .. n |-> IF k = 1 THEN h ELSE NextCluster(f, s[k - 1])]
  BY <1>3, <1>4, WalkFacts DEF IsWalk
<1> HIDE DEF s
<1>6. DOMAIN s = 1 .. n /\ s[1] = h
  BY <1>4, <1>5
<1>7. Len(s) = n
  BY <1>1, <1>4, <1>6
<1> QED
  BY <1>1, <1>4, <1>6, <1>7 DEF IsChain, s

\* Steps along the links of such a set pass the places in turn.
Passes(w, n, f, E, h) ==
    /\ w[1] = h
    /\ \A k \in 1 .. n - 1 : w[k + 1] = f[w[k]]
    /\ \A k \in 1 .. n : w[k] \in E

LEMMA StepsPassPlaces ==
    ASSUME NEW f, NEW E \in SUBSET Clusters, NEW h, InOrder(f, E, h),
           NEW n \in Nat, NEW w, Passes(w, n, f, E, h)
    PROVE  \A k \in 1 .. n : PlaceIn(E, w[k]) = k
<1> DEFINE Bad == {k \in 1 .. n : PlaceIn(E, w[k]) # k}
<1>1. SUFFICES ASSUME Bad # {} PROVE FALSE
  OBVIOUS
<1>2. Bad \in SUBSET Nat
  OBVIOUS
<1>3. PICK m \in Bad : \A x \in Bad : m <= x
  BY <1>1, <1>2, MinOfNaturals
<1>4. m # 1
  BY <1>3, FirstPlace DEF Passes
<1>5. m - 1 \in 1 .. n - 1 /\ m - 1 \notin Bad
  BY <1>3, <1>4
<1>6. w[m] = f[w[m - 1]] /\ w[m - 1] \in E /\ w[m] \in E
  BY <1>5, <1>3 DEF Passes
<1>7. PlaceIn(E, w[m]) = PlaceIn(E, w[m - 1]) + 1
  BY <1>6, NextPlace
<1> QED
  BY <1>3, <1>5, <1>7

\* A chain from an anchored head passes exactly the clusters of its extent, at
\* their places, and then none that the disk keeps.
LEMMA ChainPassesExtent ==
    ASSUME NEW f, NEW h, HasChain(f, h), Anchored(f, h), \A c \in Unsaved : f[c] \notin Stored
    PROVE  LET s == Chain(f, h)
               E == Extent(f, h)
           IN  /\ \A k \in 1 .. Len(s) : s[k] \in Stored => s[k] \in E /\ PlaceIn(E, s[k]) = k
               /\ \A c \in E : \E k \in 1 .. Len(s) : s[k] = c
               /\ (\E c \in E : f[c] = EndOfChain) => Cardinality(E) = Len(s)
<1> DEFINE s == Chain(f, h)
           E == Extent(f, h)
           n == Len(s)
<1>1. /\ n \in Nat \ {0} /\ s[1] = h
      /\ \A k \in 1 .. n : s[k] \in Clusters
      /\ \A k \in 1 .. n - 1 : f[s[k]] = s[k + 1]
      /\ f[s[n]] = EndOfChain
  BY ChainFacts
<1>2. /\ E \in SUBSET Stored /\ E \in SUBSET Clusters
      /\ h \in Stored => h \in E /\ InOrder(f, E, h)
      /\ h \notin Stored => E = {}
      /\ \A c \in E : f[c] = EndOfChain \/ f[c] \in Unsaved \/ (f[c] \in E /\ f[c] > c)
  <2>1. ClosedIn(f, E)
    BY ExtentFacts
  <2> QED
    BY <2>1, ExtentFacts, ExtentInOrder, ClusterSets DEF ClosedIn
<1> HIDE DEF s, E, n
<1> DEFINE Bad == {k \in 1 .. n : s[k] \in Stored /\ \E j \in 1 .. k : s[j] \notin E}
<1>3. Bad = {}
  <2> SUFFICES ASSUME Bad # {} PROVE FALSE
    OBVIOUS
  <2>1. Bad \in SUBSET Nat
    BY <1>1
  <2> HIDE DEF Bad
  <2>2. PICK k \in Bad : \A x \in Bad : k <= x
    BY <2>1, MinOfNaturals
  <2> USE DEF Bad
  <2>3. k # 1
    BY <1>1, <1>2, <2>2
  <2>4. k - 1 \in 1 .. n - 1 /\ k - 1 \in 1 .. n /\ k - 1 \notin Bad
    BY <1>1, <2>2, <2>3
  <2>5. f[s[k - 1]] = s[k] /\ s[k - 1] \in Clusters
    BY <1>1, <2>4
  <2>6. s[k - 1] \in Stored
    BY <2>2, <2>5 DEF Unsaved
  <2>7. \A j \in 1 .. k - 1 : s[j] \in E
    BY <2>4, <2>6
  <2>8. s[k] \in E
    <3>1. s[k - 1] \in E
      BY <2>4, <2>7
    <3> QED
      BY <1>2, <2>2, <2>5, <3>1, ClusterSets DEF Unsaved
  <2> QED
    BY <2>2, <2>7, <2>8
<1>4. ASSUME NEW k \in 1 .. n, s[k] \in Stored
      PROVE  s[k] \in E /\ PlaceIn(E, s[k]) = k
  <2>1. \A j \in 1 .. k : s[j] \in E
    BY <1>3, <1>4
  <2>2. k \in Nat /\ k \in 1 .. k /\ 1 \in 1 .. k
    BY <1>1
  <2>3. InOrder(f, E, h)
    BY <1>1, <1>2, <2>1, <2>2
  <2>4. \A j \in 1 .. k - 1 : s[j + 1] = f[s[j]]
    BY <1>1, <2>2
  <2>5. E \in SUBSET Clusters /\ s[1] = h /\ k \in Nat
    BY <1>1, <1>2, <2>2
  <2>6. Passes(s, k, f, E, h)
    BY <2>1, <2>4, <2>5 DEF Passes
  <2>7. \A j \in 1 .. k : PlaceIn(E, s[j]) = j
    BY <2>3, <2>5, <2>6, StepsPassPlaces
  <2> QED
    BY <2>1, <2>2, <2>7
<1>5. ASSUME NEW c \in E
      PROVE  \E k \in 1 .. n : s[k] = c
  <2> DEFINE S == {e \in E : \E k \in 1 .. n : s[k] = e}
  <2>1. S \in SUBSET Stored /\ h \in S
    BY <1>1, <1>2
  <2>2. ASSUME NEW e \in S, f[e] \in E, f[e] > e
        PROVE  f[e] \in S
    <3>1. PICK k \in 1 .. n : s[k] = e
      OBVIOUS
    <3>2. k # n
      BY <1>1, <1>2, <2>2, <3>1, ClusterSets
    <3>3. k + 1 \in 1 .. n /\ s[k + 1] = f[e]
      BY <1>1, <3>1, <3>2
    <3> QED
      BY <2>2, <3>3
  <2>3. ClosedIn(f, S)
    BY <1>2, <2>2 DEF ClosedIn
  <2>4. E \subseteq S
    BY <2>1, <2>3, ExtentLeast DEF E
  <2> QED
    BY <2>4
<1>6. ASSUME NEW c \in E, f[c] = EndOfChain
      PROVE  Cardinality(E) = n
  <2>1. PICK k \in 1 .. n : s[k] = c
    BY <1>5
  <2>2. k = n
    BY <1>1, <1>6, <2>1, ClusterSets
  <2>3. PlaceIn(E, c) = n
    BY <1>2, <1>4, <2>1, <2>2
  <2>4. f[c] \notin E
    BY <1>2, <1>6, ClusterSets
  <2> QED
    BY <1>2, <2>3, <2>4, LastPlace
<1> QED
  BY <1>4, <1>5, <1>6 DEF s, E, n

-----------------------------------------------------------------------------
(***************************************************************************)
(* What the allocator hands out: as many clusters as it was asked for, in  *)
(* one chain, which no earlier chain leads into.                           *)
(***************************************************************************)
LEMMA FreeFacts ==
    ASSUME NEW fat
    PROVE  /\ FreeClusters(fat) \in SUBSET Clusters
           /\ FreeClusters(fat) \in SUBSET Nat
           /\ IsFiniteSet(FreeClusters(fat))
           /\ Cardinality(FreeClusters(fat)) \in Nat
           /\ Cardinality(FreeClusters(fat)) <= Cardinality(Clusters)
           /\ Cardinality(Clusters) \in Nat
<1>1. FreeClusters(fat) \in SUBSET Clusters
  BY DEF FreeClusters
<1> QED
  BY <1>1, ClusterSets, FS_Subset, FS_CardinalityType

\* One more free cluster is the next one after those that fit first.
LEMMA NextFit ==
    ASSUME NEW fat, NEW n \in Nat, n < Cardinality(FreeClusters(fat)),
           Cardinality(FirstFit(fat, n)) = n
    PROVE  Cardinality(FirstFit(fat, n + 1)) = n + 1
<1> DEFINE Free == FreeClusters(fat)
           F == FirstFit(fat, n)
           Earlier(c) == {d \in Free : d < c}
<1>1. Free \in SUBSET Nat /\ IsFiniteSet(Free)
  BY FreeFacts
<1>2. F \subseteq Free /\ IsFiniteSet(F)
  BY <1>1, FS_Subset DEF FirstFit
<1>3. \A c \in Free : IsFiniteSet(Earlier(c)) /\ Cardinality(Earlier(c)) \in Nat
  BY <1>1, FS_Subset, FS_CardinalityType
<1>4. \A c \in Free : /\ c \in F <=> Cardinality(Earlier(c)) < n
                      /\ c \in FirstFit(fat, n + 1) <=> Cardinality(Earlier(c)) < n + 1
  BY DEF FirstFit
<1>5. FirstFit(fat, n + 1) \subseteq Free
  BY DEF FirstFit
<1>6. Cardinality(F) = n
  OBVIOUS
<1> HIDE DEF F
<1>7. Free \ F # {}
  <2>1. F # Free
    BY <1>6
  <2> QED
    BY <1>2, <2>1
<1>8. PICK m \in Free \ F : \A x \in Free \ F : m <= x
  BY <1>1, <1>7, MinOfNaturals
<1> HIDE DEF Free
<1>9. ASSUME NEW e \in F
      PROVE  e < m
  <2> SUFFICES ASSUME m <= e PROVE FALSE
    BY <1>1, <1>2, <1>8
  <2>1. Earlier(m) \subseteq Earlier(e)
    <3>1. \A d \in Free : d < m => d < e
      <4>1. m \in Nat /\ e \in Nat /\ \A d \in Free : d \in Nat
        BY <1>1, <1>2, <1>8
      <4> QED
        BY <4>1
    <3> QED
      BY <3>1
  <2>2. Cardinality(Earlier(m)) <= Cardinality(Earlier(e))
    BY <1>2, <1>3, <2>1, FS_Subset
  <2>3. e \in Free /\ Cardinality(Earlier(e)) < n /\ ~ (Cardinality(Earlier(m)) < n)
    BY <1>2, <1>4, <1>8
  <2>4. Cardinality(Earlier(e)) \in Nat /\ Cardinality(Earlier(m)) \in Nat
    BY <1>3, <1>8, <2>3
  <2> HIDE DEF Earlier
  <2> QED
    BY <2>2, <2>3, <2>4
<1>10. Earlier(m) = F
  <2>1. \A d \in Free : d < m => d \in F
    <3>1. m \in Nat /\ \A d \in Free : d \in Nat
      BY <1>1, <1>8
    <3> QED
      BY <1>8, <3>1
  <2> QED
    BY <1>2, <1>9, <2>1
<1>11. ASSUME NEW e \in FirstFit(fat, n + 1), e \notin F, e # m
       PROVE  FALSE
  <2>1. e \in Free /\ m < e
    <3>1. e \in Free
      BY <1>5, <1>11
    <3>2. m <= e
      BY <1>8, <1>11, <3>1
    <3>3. m \in Nat /\ e \in Nat
      BY <1>1, <1>8, <3>1
    <3> QED
      BY <1>11, <3>1, <3>2, <3>3
  <2>2. F \union {m} \subseteq Earlier(e)
    BY <1>1, <1>2, <1>8, <1>9, <2>1
  <2>3. IsFiniteSet(F \union {m}) /\ Cardinality(F \union {m}) = n + 1
    BY <1>2, <1>6, <1>8, FS_AddElement
  <2>4. n + 1 <= Cardinality(Earlier(e))
    BY <1>3, <2>1, <2>2, <2>3, FS_Subset
  <2>5. Cardinality(Earlier(e)) < n + 1 /\ Cardinality(Earlier(e)) \in Nat
    BY <1>3, <1>4, <1>11, <2>1
  <2> HIDE DEF Earlier
  <2> QED
    BY <2>4, <2>5
<1>12. m \in FirstFit(fat, n + 1)
  BY <1>4, <1>6, <1>8, <1>10
<1>13. F \subseteq FirstFit(fat, n + 1)
  <2> SUFFICES ASSUME NEW c \in F PROVE c \in FirstFit(fat, n + 1)
    OBVIOUS
  <2>1. c \in Free /\ Cardinality(Earlier(c)) < n /\ Cardinality(Earlier(c)) \in Nat
    BY <1>2, <1>3, <1>4
  <2>2. Cardinality(Earlier(c)) < n + 1
    <3> HIDE DEF Earlier
    <3> QED
      BY <2>1
  <2> QED
    BY <1>4, <2>1, <2>2
<1>14. FirstFit(fat, n + 1) = F \union {m}
  BY <1>11, <1>12, <1>13
<1> QED
  BY <1>2, <1>6, <1>8, <1>14, FS_AddElement

LEMMA FirstFitSize ==
    ASSUME NEW fat, NEW n \in Nat, n <= Cardinality(FreeClusters(fat))
    PROVE  Cardinality(FirstFit(fat, n)) = n
<1> DEFINE Bad == {m \in 0 .. n : Cardinality(FirstFit(fat, m)) # m}
<1>1. SUFFICES ASSUME Bad # {} PROVE FALSE
  OBVIOUS
<1>2. Bad \in SUBSET Nat
  OBVIOUS
<1>3. PICK m \in Bad : \A x \in Bad : m <= x
  BY <1>1, <1>2, MinOfNaturals
<1>4. m # 0
  <2>1. \A c \in FreeClusters(fat) : Cardinality({d \in FreeClusters(fat) : d < c}) \in Nat
    BY FreeFacts, FS_Subset, FS_CardinalityType
  <2>2. FirstFit(fat, 0) = {}
    BY <2>1 DEF FirstFit
  <2> QED
    BY <1>3, <2>2, FS_EmptySet
<1>5. m - 1 \in 0 .. n /\ m - 1 \notin Bad /\ m - 1 < Cardinality(FreeClusters(fat))
  BY <1>3, <1>4, FreeFacts
<1>6. Cardinality(FirstFit(fat, (m - 1) + 1)) = (m - 1) + 1
  BY <1>5, NextFit
<1> QED
  BY <1>3, <1>6

\* The allocated clusters make a chain of the length asked for.
LEMMA AllocatedChain ==
    ASSUME NEW fat \in [Clusters -> FatValues], NEW n \in Nat, CanAllocate(fat, n)
    PROVE  /\ HasChain(Allocate(fat, n), AllocatedHead(fat, n))
           /\ Len(Chain(Allocate(fat, n), AllocatedHead(fat, n))) = n
           /\ \A k \in 1 .. n :
                Chain(Allocate(fat, n), AllocatedHead(fat, n))[k] \in FirstFit(fat, n)
<1> DEFINE S == FirstFit(fat, n)
           g == Allocate(fat, n)
           h == AllocatedHead(fat, n)
<1>1. /\ S \in SUBSET Clusters /\ S # {} /\ Cardinality(S) = n
      /\ n # 0 /\ n <= Cardinality(Clusters) /\ IsFiniteSet(S)
  <2>1. n # 0 /\ n <= Cardinality(FreeClusters(fat))
    BY DEF CanAllocate
  <2>2. S \in SUBSET Clusters /\ S # {}
    BY FirstFitFacts
  <2> QED
    BY <2>1, <2>2, FirstFitSize, FreeFacts, ClusterSets, FS_Subset
<1>2. InOrder(g, S, h) /\ h \in S
  BY <1>1, LinkedInOrder DEF Allocate, AllocatedHead, InOrder
<1>3. \A c \in S : g[c] = EndOfChain \/ g[c] \in S
  BY <1>1, LinkedFacts DEF Allocate
<1>4. \A c \in S : PlaceIn(S, c) <= n
  BY <1>1, PlaceType
<1> HIDE DEF S, g, h
\* The walk of that length is a chain.
<1> DEFINE w == Walk(g, h, n)
<1>5. w = [k \in 1 .. n |-> IF k = 1 THEN h ELSE NextCluster(g, w[k - 1])]
  BY WalkFacts DEF IsWalk
<1> HIDE DEF w
<1>6. \A k \in 1 .. n : w[k] = IF k = 1 THEN h ELSE NextCluster(g, w[k - 1])
  BY <1>5
<1> DEFINE Bad == {k \in 1 .. n : w[k] \notin S \/ PlaceIn(S, w[k]) # k}
<1>7. Bad = {}
  <2> SUFFICES ASSUME Bad # {} PROVE FALSE
    OBVIOUS
  <2>1. Bad \in SUBSET Nat
    OBVIOUS
  <2> HIDE DEF Bad
  <2>2. PICK k \in Bad : \A x \in Bad : k <= x
    BY <2>1, MinOfNaturals
  <2> USE DEF Bad
  <2>3. w[1] = h
    BY <1>1, <1>6
  <2>4. k # 1
    BY <1>1, <1>2, <2>2, <2>3, FirstPlace
  <2>5. k - 1 \in 1 .. n /\ k - 1 \notin Bad
    BY <2>2, <2>4
  <2>6. w[k - 1] \in S /\ PlaceIn(S, w[k - 1]) = k - 1
    BY <2>5
  <2>7. w[k] = g[w[k - 1]]
    BY <1>1, <1>6, <2>2, <2>4, <2>6 DEF NextCluster
  <2>8. w[k] \in S
    <3>1. ASSUME g[w[k - 1]] \notin S PROVE FALSE
      <4>1. PlaceIn(S, w[k - 1]) = n
        BY <1>1, <1>2, <2>6, <3>1, LastPlace
      <4> QED
        BY <2>2, <2>6, <4>1
    <3> QED
      BY <2>7, <3>1
  <2>9. PlaceIn(S, w[k]) = PlaceIn(S, w[k - 1]) + 1
    BY <1>1, <1>2, <2>6, <2>7, <2>8, NextPlace
  <2> QED
    BY <2>2, <2>6, <2>8, <2>9
<1>8. g[w[n]] = EndOfChain
  <2>1. w[n] \in S /\ PlaceIn(S, w[n]) = n
    BY <1>1, <1>7
  <2>2. ASSUME g[w[n]] \in S PROVE FALSE
    <3>1. PlaceIn(S, g[w[n]]) = n + 1
      BY <1>1, <1>2, <2>1, <2>2, NextPlace
    <3> QED
      BY <1>1, <1>4, <2>2, <3>1
  <2> QED
    BY <1>3, <2>1, <2>2
<1>9. HasChain(g, h)
  <2>1. \A k \in 1 .. n : w[k] \in S /\ w[k] \in Clusters
    BY <1>1, <1>7
  <2>2. Len(w) = n
    BY <1>5
  <2>3. \A k \in 1 .. n - 1 : g[w[k]] = w[k + 1]
    <3> SUFFICES ASSUME NEW k \in 1 .. n - 1 PROVE g[w[k]] = w[k + 1]
      OBVIOUS
    <3>1. k \in 1 .. n /\ k + 1 \in 1 .. n /\ k + 1 # 1 /\ (k + 1) - 1 = k
      OBVIOUS
    <3>2. w[k + 1] = NextCluster(g, w[k])
      BY <1>6, <3>1
    <3> QED
      BY <2>1, <3>1, <3>2 DEF NextCluster
  <2>4. IsChain(g, w)
    BY <1>8, <2>1, <2>2, <2>3 DEF IsChain
  <2>5. n \in 1 .. Cardinality(Clusters)
    BY <1>1, FreeFacts
  <2> QED
    BY <2>4, <2>5 DEF HasChain, ChainsFrom, w
\* Every chain from the head passes the same clusters.
<1> DEFINE s == Chain(g, h)
           l == Len(s)
<1>10. /\ l \in Nat \ {0} /\ s[1] = h
       /\ \A k \in 1 .. l : s[k] \in Clusters
       /\ \A k \in 1 .. l - 1 : s[k + 1] = g[s[k]]
       /\ g[s[l]] = EndOfChain
  BY <1>9, ChainFacts
<1> HIDE DEF s, l
<1> DEFINE Off == {k \in 1 .. l : s[k] \notin S}
<1>11. Off = {}
  <2> SUFFICES ASSUME Off # {} PROVE FALSE
    OBVIOUS
  <2>1. Off \in SUBSET Nat
    BY <1>10
  <2>2. PICK k \in Off : \A x \in Off : k <= x
    BY <2>1, MinOfNaturals
  <2>3. k # 1
    BY <1>2, <1>10, <2>2
  <2>4. k - 1 \in 1 .. l - 1 /\ k - 1 \in 1 .. l /\ k - 1 \notin Off
    BY <1>10, <2>2, <2>3
  <2>5. s[k] = g[s[k - 1]] /\ s[k] \in Clusters
    BY <1>10, <2>2, <2>4
  <2> QED
    BY <1>3, <2>2, <2>4, <2>5, ClusterSets
<1>12. \A k \in 1 .. l : PlaceIn(S, s[k]) = k
  <2>1. \A k \in 1 .. l : s[k] \in S
    BY <1>11
  <2>2. /\ S \in SUBSET Clusters /\ l \in Nat /\ s[1] = h /\ InOrder(g, S, h)
        /\ \A k \in 1 .. l - 1 : s[k + 1] = g[s[k]]
    BY <1>1, <1>2, <1>10
  <2>3. Passes(s, l, g, S, h)
    BY <2>1, <2>2 DEF Passes
  <2> QED
    BY <2>2, <2>3, StepsPassPlaces
<1>13. l = n
  <2>1. s[l] \in S /\ PlaceIn(S, s[l]) = l
    BY <1>10, <1>11, <1>12
  <2>2. g[s[l]] \notin S
    BY <1>1, <1>10, ClusterSets
  <2> QED
    BY <1>1, <1>2, <2>1, <2>2, LastPlace
<1> QED
  BY <1>9, <1>11, <1>13 DEF S, g, h, s, l

\* No earlier chain leads into the allocated clusters, and those the disk does
\* not keep still lead to none that it keeps.
LEMMA AllocatedExtent ==
    ASSUME NEW fat \in [Clusters -> FatValues], NEW n \in Nat, CanAllocate(fat, n)
    PROVE  /\ Extent(Allocate(fat, n), AllocatedHead(fat, n)) \subseteq FirstFit(fat, n)
           /\ \A h : Anchored(fat, h) =>
                /\ h # 0 => h # AllocatedHead(fat, n) \/ h \in Unsaved
                /\ Extent(Allocate(fat, n), h) = Extent(fat, h)
                /\ Extent(fat, h) \intersect FirstFit(fat, n) = {}
           /\ (\A c \in Unsaved : fat[c] \notin Stored) =>
                \A c \in Unsaved : Allocate(fat, n)[c] \notin Stored
<1> DEFINE S == FirstFit(fat, n)
           g == Allocate(fat, n)
           a == AllocatedHead(fat, n)
<1>1. /\ S \in SUBSET Clusters /\ S # {} /\ \A c \in S : fat[c] = 0
      /\ a \in S /\ Below(fat, g)
  BY FirstFitFacts, AllocateFacts, MinOfNaturals, ClusterSets DEF AllocatedHead
<1>2. /\ \A c \in Clusters \ S : g[c] = fat[c]
      /\ \A c \in S : g[c] = EndOfChain \/ (g[c] \in S /\ g[c] > c)
  BY <1>1, LinkedFacts DEF Allocate
<1> HIDE DEF S, g, a
<1>3. Extent(g, a) \subseteq S
  <2>1. CASE a \in Stored
    <3>1. ClosedIn(g, S \intersect Stored)
      BY <1>1, <1>2 DEF ClosedIn, Unsaved
    <3> QED
      BY <1>1, <2>1, <3>1, ExtentLeast
  <2>2. CASE a \notin Stored
    BY <2>2 DEF Extent
  <2> QED
    BY <2>1, <2>2
<1>4. ASSUME NEW h, Anchored(fat, h)
      PROVE  /\ h # 0 => h # a \/ h \in Unsaved
             /\ Extent(g, h) = Extent(fat, h)
             /\ Extent(fat, h) \intersect S = {}
  <2>1. Extent(g, h) = Extent(fat, h)
    BY <1>1, <1>4, ExtentGrows
  <2>2. \A c \in Extent(fat, h) : fat[c] # 0
    BY <1>4, ExtentFacts
  <2>3. h \in Stored => h \in Extent(fat, h)
    BY <1>4, ExtentFacts
  <2>4. h = 0 \/ h \in Unsaved \/ h \in Stored
    BY <1>4 DEF Anchored
  <2> QED
    BY <1>1, <2>1, <2>2, <2>3, <2>4
<1>5. ASSUME \A c \in Unsaved : fat[c] \notin Stored, NEW c \in Unsaved
      PROVE  g[c] \notin Stored
  <2>1. CASE c \in S
    <3>1. \A d \in Stored : d < c /\ d # EndOfChain
      BY ClusterCountAssumption, EndOfChainAssumption DEF Unsaved, Clusters, Stored
    <3>2. c \in Nat /\ \A d \in Stored : d \in Nat
      BY <2>1, <1>1, ClusterSets
    <3>3. \A d \in Stored : ~ (d > c)
      BY <3>1, <3>2
    <3> QED
      BY <1>2, <2>1, <3>1, <3>3
  <2>2. CASE c \notin S
    BY <1>2, <1>5, <2>2 DEF Unsaved
  <2> QED
    BY <2>1, <2>2
<1> QED
  BY <1>3, <1>4, <1>5 DEF S, g, a
=============================================================================
