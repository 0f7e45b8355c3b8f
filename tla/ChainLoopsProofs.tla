-------------------------- MODULE ChainLoopsProofs --------------------------
(***************************************************************************)
(* The loop of _lf12_create_cluster_chain computes Fat's Allocate, and     *)
(* answers "full" exactly when Fat cannot allocate, for every table, every *)
(* number of clusters and every size of a file.  A size that wraps around  *)
(* is never accepted, and what is written into the chain is what is read   *)
(* back from it.                                                           *)
(***************************************************************************)
EXTENDS ChainLoops, FatProofs, SequenceTheorems

\* The free clusters of a table in front of k.
FreeBefore(table, k) == {c \in FreeClusters(table) : c < k}

Counted ==
    pc = "count" =>
        /\ cursor \in 2 .. ClusterCount + 2
        /\ fat = given
        /\ i = 0
        /\ free = Cardinality(FreeBefore(given, cursor))

\* The free clusters passed so far are linked to one another in ascending order;
\* the last of them is not linked yet.
LinkedBefore(k) ==
    /\ \A c \in Clusters : c \notin FreeBefore(given, k) => fat[c] = given[c]
    /\ \A c \in FreeBefore(given, k) :
        IF c = last THEN fat[c] = given[c]
        ELSE /\ fat[c] \in FreeBefore(given, k)
             /\ fat[c] > c
             /\ \A d \in FreeBefore(given, k) : d > c => d >= fat[c]

EndsOf(k) ==
    FreeBefore(given, k) # {} =>
        /\ first \in FreeBefore(given, k)
        /\ last \in FreeBefore(given, k)
        /\ \A d \in FreeBefore(given, k) : first <= d /\ d <= last

Linking ==
    pc = "link" =>
        /\ cursor \in 2 .. ClusterCount + 2
        /\ Want <= Cardinality(FreeClusters(given))
        /\ i = Cardinality(FreeBefore(given, cursor))
        /\ Want = 0 \/ i < Want
        /\ LinkedBefore(cursor)
        /\ EndsOf(cursor)

LoopType ==
    /\ given \in [Clusters -> FatValues]
    /\ fat \in [Clusters -> FatValues]
    /\ size \in Nat

LoopInv == LoopType /\ Counted /\ Linking /\ AllocatesFirstFit /\ FullLeavesTable
-----------------------------------------------------------------------------
LEMMA WantType == ASSUME size \in Nat PROVE Want \in Nat
<1>1. size \div ClusterSize \in Nat
  BY ClusterSizeAssumption
<1> QED
  BY <1>1 DEF Want

LEMMA FreeBeforeFacts ==
    ASSUME NEW k \in Nat
    PROVE  /\ FreeBefore(given, k) \in SUBSET Clusters
           /\ FreeBefore(given, k) \in SUBSET Nat
           /\ IsFiniteSet(FreeBefore(given, k))
           /\ Cardinality(FreeBefore(given, k)) \in Nat
           /\ k = 2 => FreeBefore(given, k) = {}
           /\ k = ClusterCount + 2 => FreeBefore(given, k) = FreeClusters(given)
<1>1. FreeBefore(given, k) \in SUBSET Clusters
  BY DEF FreeBefore, FreeClusters
<1>2. IsFiniteSet(FreeBefore(given, k))
  BY <1>1, ClusterSets, FS_Subset
<1>3. k = 2 => FreeBefore(given, k) = {}
  BY DEF FreeBefore, FreeClusters, Clusters
<1>4. k = ClusterCount + 2 => FreeBefore(given, k) = FreeClusters(given)
  BY ClusterCountAssumption DEF FreeBefore, FreeClusters, Clusters
<1> QED
  BY <1>1, <1>2, <1>3, <1>4, ClusterSets, FS_CardinalityType

\* Passing a cluster adds it to those in front if it is free.
LEMMA FreeBeforeStep ==
    ASSUME NEW k \in Clusters
    PROVE  /\ given[k] = 0 =>
                /\ FreeBefore(given, k + 1) = FreeBefore(given, k) \union {k}
                /\ Cardinality(FreeBefore(given, k + 1)) = Cardinality(FreeBefore(given, k)) + 1
           /\ given[k] # 0 => FreeBefore(given, k + 1) = FreeBefore(given, k)
           /\ \A d \in FreeBefore(given, k) : d < k
<1>1. k \in Nat
  BY ClusterSets
<1>2. \A c \in Clusters : c < k + 1 <=> c < k \/ c = k
  BY <1>1, ClusterSets
<1>3. given[k] = 0 => FreeBefore(given, k + 1) = FreeBefore(given, k) \union {k}
  BY <1>2 DEF FreeBefore, FreeClusters
<1>4. given[k] # 0 => FreeBefore(given, k + 1) = FreeBefore(given, k)
  BY <1>2 DEF FreeBefore, FreeClusters
<1>5. k \notin FreeBefore(given, k) /\ \A d \in FreeBefore(given, k) : d < k
  BY <1>1 DEF FreeBefore
<1>6. IsFiniteSet(FreeBefore(given, k))
  BY <1>1, FreeBeforeFacts
<1> QED
  BY <1>3, <1>4, <1>5, <1>6, FS_AddElement

\* When one cluster is missing and the next one is free, it completes the first
\* fit.
LEMMA FirstFitCompleted ==
    ASSUME NEW k \in Clusters, given[k] = 0, NEW n \in Nat,
           Cardinality(FreeBefore(given, k)) + 1 = n
    PROVE  FirstFit(given, n) = FreeBefore(given, k) \union {k}
<1>1. k \in Nat /\ k + 1 \in Nat
  BY ClusterSets
<1>2. FreeBefore(given, k + 1) = FreeBefore(given, k) \union {k}
      /\ Cardinality(FreeBefore(given, k + 1)) = n
  BY FreeBeforeStep
<1>3. \A c \in FreeClusters(given) : {d \in FreeClusters(given) : d < c} = FreeBefore(given, c)
  BY DEF FreeBefore
<1>4. ASSUME NEW c \in FreeClusters(given), c <= k
      PROVE  Cardinality(FreeBefore(given, c)) < n
  <2>1. c \in Nat
    BY ClusterSets DEF FreeClusters
  <2>2. FreeBefore(given, c) \in SUBSET FreeBefore(given, k)
    <3>1. \A d \in Nat : d < c => d < k
      BY <1>1, <1>4, <2>1
    <3> QED
      BY <3>1, ClusterSets DEF FreeBefore, FreeClusters
  <2>3. Cardinality(FreeBefore(given, c)) <= Cardinality(FreeBefore(given, k))
    BY <1>1, <2>2, FreeBeforeFacts, FS_Subset
  <2>4. Cardinality(FreeBefore(given, c)) \in Nat /\ Cardinality(FreeBefore(given, k)) \in Nat
    BY <1>1, <2>1, FreeBeforeFacts
  <2> QED
    BY <2>3, <2>4
<1>5. ASSUME NEW c \in FreeClusters(given), c > k
      PROVE  ~ (Cardinality(FreeBefore(given, c)) < n)
  <2>1. c \in Nat
    BY ClusterSets DEF FreeClusters
  <2>2. FreeBefore(given, k + 1) \in SUBSET FreeBefore(given, c)
    <3>1. \A d \in Nat : d < k + 1 => d < c
      BY <1>1, <1>5, <2>1
    <3> QED
      BY <3>1, ClusterSets DEF FreeBefore, FreeClusters
  <2>3. n <= Cardinality(FreeBefore(given, c))
    BY <1>2, <2>1, <2>2, FreeBeforeFacts, FS_Subset
  <2>4. Cardinality(FreeBefore(given, c)) \in Nat
    BY <2>1, FreeBeforeFacts
  <2> QED
    BY <2>3, <2>4
<1>6. FirstFit(given, n) = {c \in FreeClusters(given) : c <= k}
  <2>1. \A c \in FreeClusters(given) : c <= k \/ c > k
    BY <1>1, ClusterSets DEF FreeClusters
  <2> QED
    BY <1>3, <1>4, <1>5, <2>1 DEF FirstFit
<1>7. \A c \in FreeClusters(given) : c <= k <=> c < k + 1
  BY <1>1, ClusterSets DEF FreeClusters
<1> QED
  BY <1>2, <1>6, <1>7 DEF FreeBefore
-----------------------------------------------------------------------------
\* One more free cluster is appended: those in front of the next cluster are
\* linked as those before were.
LEMMA AppendKeepsLinks ==
    ASSUME given \in [Clusters -> FatValues], fat \in [Clusters -> FatValues],
           NEW k \in Clusters, given[k] = 0, LinkedBefore(k), EndsOf(k),
           NEW linked \in [Clusters -> FatValues],
           FreeBefore(given, k) # {} => linked = [fat EXCEPT ![last] = k],
           FreeBefore(given, k) = {} => linked = fat
    PROVE  /\ \A c \in Clusters : c \notin FreeBefore(given, k + 1) => linked[c] = given[c]
           /\ linked[k] = given[k]
           /\ \A c \in FreeBefore(given, k) :
                /\ linked[c] \in FreeBefore(given, k + 1)
                /\ linked[c] > c
                /\ \A d \in FreeBefore(given, k + 1) : d > c => d >= linked[c]
<1>1. k \in Nat /\ FreeBefore(given, k) \in SUBSET Clusters /\ FreeBefore(given, k) \in SUBSET Nat
  BY ClusterSets, FreeBeforeFacts
<1>2. FreeBefore(given, k + 1) = FreeBefore(given, k) \union {k} /\ \A d \in FreeBefore(given, k) : d < k
  BY FreeBeforeStep
<1>3. k \notin FreeBefore(given, k)
  BY <1>1, <1>2
<1>4. CASE FreeBefore(given, k) = {}
  BY <1>1, <1>2, <1>4 DEF LinkedBefore
<1>5. CASE FreeBefore(given, k) # {}
  <2>1. /\ last \in FreeBefore(given, k)
        /\ \A d \in FreeBefore(given, k) : d <= last
        /\ linked = [fat EXCEPT ![last] = k]
    BY <1>5 DEF EndsOf
  <2>2. last # k /\ linked[last] = k /\ \A c \in Clusters : c # last => linked[c] = fat[c]
    BY <1>1, <1>3, <2>1
  <2>3. \A c \in Clusters : c \notin FreeBefore(given, k + 1) => linked[c] = given[c]
    BY <1>2, <2>1, <2>2 DEF LinkedBefore
  <2>4. linked[k] = given[k]
    BY <1>3, <2>2 DEF LinkedBefore
  <2>5. ASSUME NEW c \in FreeBefore(given, k)
        PROVE  /\ linked[c] \in FreeBefore(given, k + 1)
               /\ linked[c] > c
               /\ \A d \in FreeBefore(given, k + 1) : d > c => d >= linked[c]
    <3>1. CASE c = last
      <4>1. linked[c] = k /\ k > c
        BY <1>1, <1>2, <2>2, <3>1
      <4>2. ASSUME NEW d \in FreeBefore(given, k), d > c
            PROVE  FALSE
        BY <1>1, <2>1, <3>1, <4>2
      <4> QED
        BY <1>1, <1>2, <4>1, <4>2
    <3>2. CASE c # last
      <4>1. /\ linked[c] = fat[c]
            /\ fat[c] \in FreeBefore(given, k)
            /\ fat[c] > c
            /\ \A d \in FreeBefore(given, k) : d > c => d >= fat[c]
        BY <1>1, <2>2, <3>2 DEF LinkedBefore
      <4>2. fat[c] < k /\ fat[c] \in Nat
        BY <1>1, <1>2, <4>1
      <4> QED
        BY <1>1, <1>2, <4>1, <4>2
    <3> QED
      BY <3>1, <3>2
  <2> QED
    BY <2>3, <2>4, <2>5
<1> QED
  BY <1>4, <1>5

\* The initial table is linked as far as the loop has come: not at all.
LEMMA InitIsInv == Init => LoopInv
<1> SUFFICES ASSUME Init PROVE LoopInv
  OBVIOUS
<1>1. LoopType
  BY TablesAssumption, FileSizesAssumption DEF Init, LoopType
<1>2. Cardinality(FreeBefore(given, 2)) = 0
  BY FreeBeforeFacts, FS_EmptySet
<1>3. Counted
  BY <1>2, ClusterCountAssumption DEF Init, Counted
<1> QED
  BY <1>1, <1>3 DEF Init, LoopInv, Linking, AllocatesFirstFit, Allocated, FullLeavesTable
-----------------------------------------------------------------------------
\* One lemma for every step of the allocation.
LEMMA CountClusterKeeps == LoopInv /\ CountCluster => LoopInv'
<1> SUFFICES ASSUME LoopInv, CountCluster PROVE LoopInv'
  OBVIOUS
<1> USE DEF CountCluster
<1>1. LoopType'
  BY DEF LoopInv, LoopType
<1>2. cursor \in Clusters /\ cursor \in Nat /\ fat = given
      /\ free = Cardinality(FreeBefore(given, cursor)) /\ i = 0
  BY ClusterSets DEF LoopInv, Counted
<1>3. free' = Cardinality(FreeBefore(given, cursor + 1))
  BY <1>2, FreeBeforeStep
<1>4. cursor + 1 \in 2 .. ClusterCount + 2
  BY <1>2, ClusterCountAssumption DEF Clusters
<1>5. Counted'
  BY <1>2, <1>3, <1>4 DEF Counted
<1> QED
  BY <1>1, <1>5 DEF LoopInv, Linking, AllocatesFirstFit, Allocated, FullLeavesTable

LEMMA CompareCountKeeps == LoopInv /\ CompareCount => LoopInv'
<1> SUFFICES ASSUME LoopInv, CompareCount PROVE LoopInv'
  OBVIOUS
<1> USE DEF CompareCount
<1>1. LoopType' /\ Want' = Want
  BY DEF LoopInv, LoopType, Want
<1>2. Want \in Nat
  BY WantType DEF LoopInv, LoopType
<1>3. cursor = ClusterCount + 2
  BY ClusterCountAssumption DEF LoopInv, Counted, Clusters
<1>4. fat = given /\ i = 0 /\ free = Cardinality(FreeClusters(given)) /\ free \in Nat
  BY <1>3, ClusterCountAssumption, FreeBeforeFacts DEF LoopInv, Counted
<1>5. CASE TooFew
  <2>1. ~CanAllocate(given, Want)
    BY <1>2, <1>4, <1>5 DEF TooFew, CanAllocate
  <2> QED
    BY <1>1, <1>4, <1>5, <2>1
       DEF LoopInv, Counted, Linking, AllocatesFirstFit, Allocated, FullLeavesTable
<1>6. CASE ~TooFew
  <2>1. Want <= Cardinality(FreeClusters(given))
    BY <1>2, <1>4, <1>6 DEF TooFew
  <2>2. FreeBefore(given, 2) = {} /\ Cardinality(FreeBefore(given, 2)) = 0
    BY FreeBeforeFacts, FS_EmptySet
  <2>3. LinkedBefore(2) /\ EndsOf(2)
    BY <1>4, <2>2 DEF LinkedBefore, EndsOf
  <2>4. Linking'
    BY <1>1, <1>2, <1>4, <2>1, <2>2, <2>3, ClusterCountAssumption
       DEF Linking, LinkedBefore, EndsOf
  <2> QED
    BY <1>1, <1>6, <2>4 DEF LoopInv, Counted, AllocatesFirstFit, Allocated, FullLeavesTable
<1> QED
  BY <1>5, <1>6

LEMMA SkipClusterKeeps == LoopInv /\ SkipCluster => LoopInv'
<1> SUFFICES ASSUME LoopInv, SkipCluster PROVE LoopInv'
  OBVIOUS
<1> USE DEF SkipCluster
<1>1. LoopType' /\ Want' = Want
  BY DEF LoopInv, LoopType, Want
<1>2. cursor \in Clusters /\ cursor \in Nat /\ cursor + 1 \in 2 .. ClusterCount + 2
  BY ClusterCountAssumption DEF Clusters
<1>3. given[cursor] # 0
  <2>1. cursor \notin FreeBefore(given, cursor)
    BY <1>2 DEF FreeBefore
  <2> QED
    BY <2>1 DEF LoopInv, Linking, LinkedBefore
<1>4. FreeBefore(given, cursor + 1) = FreeBefore(given, cursor)
  BY <1>2, <1>3, FreeBeforeStep
<1>5. Linking'
  BY <1>1, <1>2, <1>4 DEF LoopInv, Linking, LinkedBefore, EndsOf
<1> QED
  BY <1>1, <1>5 DEF LoopInv, Counted, AllocatesFirstFit, Allocated, FullLeavesTable

\* The loop comes to the end of the table for a request of no clusters only.
LEMMA LinkEndsKeeps == LoopInv /\ LinkEnds => LoopInv'
<1> SUFFICES ASSUME LoopInv, LinkEnds PROVE LoopInv'
  OBVIOUS
<1> USE DEF LinkEnds
<1>1. LoopType' /\ Want' = Want
  BY DEF LoopInv, LoopType, Want
<1>2. Want \in Nat
  BY WantType DEF LoopInv, LoopType
<1>3. cursor = ClusterCount + 2 /\ cursor \in Nat
  BY ClusterCountAssumption DEF LoopInv, Linking, Clusters
<1>4. i = Cardinality(FreeClusters(given)) /\ i \in Nat
  BY <1>3, FreeBeforeFacts DEF LoopInv, Linking
<1>5. Want = 0
  BY <1>2, <1>4 DEF LoopInv, Linking
<1>6. \A c \in Clusters : fat[c] = EndOfChain => given[c] = EndOfChain
  <2>1. FreeBefore(given, cursor) \in SUBSET Clusters
    BY <1>3, FreeBeforeFacts
  <2> QED
    BY <2>1, ClusterSets DEF LoopInv, Linking, LinkedBefore
<1> QED
  BY <1>1, <1>2, <1>5, <1>6
     DEF LoopInv, Counted, Linking, AllocatesFirstFit, Allocated, FullLeavesTable, CanAllocate

LEMMA LinkClusterKeeps == LoopInv /\ LinkCluster => LoopInv'
<1> SUFFICES ASSUME LoopInv, LinkCluster PROVE LoopInv'
  OBVIOUS
<1> DEFINE F == FreeBefore(given, cursor)
           G == FreeBefore(given, cursor + 1)
           linked == IF i > 0 THEN [fat EXCEPT ![last] = cursor] ELSE fat
<1>1. /\ Want' = Want /\ given' = given /\ size' = size
      /\ cursor \in Clusters /\ cursor \in Nat
      /\ last' = cursor /\ i' = i + 1
      /\ first' = IF i > 0 THEN first ELSE cursor
  BY ClusterSets DEF LinkCluster, Want
<1>2. Want \in Nat /\ given \in [Clusters -> FatValues] /\ fat \in [Clusters -> FatValues]
  BY WantType DEF LoopInv, LoopType
<1>3. /\ F \in SUBSET Clusters /\ F \in SUBSET Nat /\ IsFiniteSet(F)
      /\ i = Cardinality(F) /\ i \in Nat /\ (i > 0 <=> F # {})
  <2>1. F \in SUBSET Clusters /\ F \in SUBSET Nat /\ IsFiniteSet(F) /\ Cardinality(F) \in Nat
    BY <1>1, FreeBeforeFacts
  <2>2. i = Cardinality(F)
    BY DEF LoopInv, Linking, LinkCluster
  <2> QED
    BY <2>1, <2>2, FS_EmptySet
<1>4. given[cursor] = 0
  <2>1. cursor \notin F
    BY <1>1 DEF FreeBefore
  <2> QED
    BY <1>1, <2>1 DEF LoopInv, Linking, LinkedBefore, LinkCluster
<1>5. G = F \union {cursor} /\ Cardinality(G) = i + 1 /\ \A d \in F : d < cursor
  BY <1>1, <1>3, <1>4, FreeBeforeStep
<1>6. LinkedBefore(cursor) /\ EndsOf(cursor)
  BY DEF LoopInv, Linking, LinkCluster
<1>7. linked \in [Clusters -> FatValues]
  BY <1>1, <1>2 DEF FatValues
<1>8. /\ \A c \in Clusters : c \notin G => linked[c] = given[c]
      /\ linked[cursor] = given[cursor]
      /\ \A c \in F : /\ linked[c] \in G
                       /\ linked[c] > c
                       /\ \A d \in G : d > c => d >= linked[c]
  <2>1. /\ F # {} => linked = [fat EXCEPT ![last] = cursor]
        /\ F = {} => linked = fat
    BY <1>3
  <2> HIDE DEF linked
  <2> QED
    BY <1>1, <1>2, <1>4, <1>6, <1>7, <2>1, AppendKeepsLinks
<1>9. first' \in G /\ \A d \in G : first' <= d /\ d <= cursor
  BY <1>1, <1>3, <1>5, <1>6 DEF EndsOf
<1>10. CASE i + 1 # Want
  <2>1. fat' = linked /\ cursor' = cursor + 1 /\ pc' = "link"
    BY <1>10 DEF LinkCluster, Appended
  <2>2. cursor + 1 \in 2 .. ClusterCount + 2
    BY <1>1, ClusterCountAssumption DEF Clusters
  <2>3. LoopType'
    BY <1>1, <1>2, <1>7, <2>1 DEF LoopInv, LoopType
  <2>4. Want <= Cardinality(FreeClusters(given)) /\ (Want = 0 \/ i' < Want)
    BY <1>1, <1>2, <1>3, <1>10 DEF LoopInv, Linking, LinkCluster
  <2>5. LinkedBefore(cursor)'
    <3>1. \A c \in G : c # cursor => c \in F
      BY <1>5
    <3>2. LinkedBefore(cursor)' <=>
            /\ \A c \in Clusters : c \notin G => linked[c] = given[c]
            /\ \A c \in G :
                IF c = cursor THEN linked[c] = given[c]
                ELSE /\ linked[c] \in G
                     /\ linked[c] > c
                     /\ \A d \in G : d > c => d >= linked[c]
      BY <1>1, <2>1 DEF LinkedBefore
    <3> QED
      BY <1>8, <3>1, <3>2
  <2>6. EndsOf(cursor)'
    BY <1>1, <1>5, <1>9, <2>1 DEF EndsOf
  <2>7. Linking'
    BY <1>1, <1>5, <2>1, <2>2, <2>4, <2>5, <2>6 DEF Linking
  <2> QED
    BY <2>1, <2>3, <2>7
       DEF LoopInv, Counted, AllocatesFirstFit, Allocated, FullLeavesTable
<1>11. CASE i + 1 = Want
  <2>1. fat' = [linked EXCEPT ![cursor] = EndOfChain] /\ pc' = "length"
    BY <1>11 DEF LinkCluster, Appended
  <2>2. FirstFit(given, Want) = G
    BY <1>1, <1>2, <1>3, <1>4, <1>5, <1>11, FirstFitCompleted
  <2>3. CanAllocate(given, Want)
    BY <1>2, <1>3, <1>11 DEF LoopInv, Linking, LinkCluster, CanAllocate
  <2>4. fat' \in [Clusters -> FatValues]
    BY <1>7, <2>1 DEF FatValues
  <2>5. G \in SUBSET Nat /\ G \in SUBSET Clusters
    BY <1>1, <1>3, <1>5
  <2>6. ASSUME NEW c \in Clusters
        PROVE  fat'[c] = Linked(given, G)[c]
    <3>1. CASE c \notin G
      <4>1. c # cursor
        BY <1>5, <3>1
      <4> QED
        BY <1>7, <1>8, <2>1, <3>1, <4>1 DEF Linked
    <3>2. CASE c = cursor
      <4>1. ~ \E d \in G : d > c
        BY <1>1, <1>9, <2>5, <3>2
      <4>2. fat'[c] = EndOfChain /\ c \in G
        BY <1>1, <1>5, <1>7, <2>1, <3>2
      <4> QED
        BY <4>1, <4>2 DEF Linked
    <3>3. CASE c \in F
      <4>1. c # cursor /\ c \in G
        BY <1>1, <1>3, <1>5, <3>3
      <4>2. fat'[c] = linked[c]
        BY <1>7, <2>1, <4>1
      <4> DEFINE T == {d \in G : d > c}
      <4>3. linked[c] \in T /\ \A d \in T : linked[c] <= d
        <5>1. linked[c] \in G /\ linked[c] > c /\ \A d \in G : d > c => d >= linked[c]
          BY <1>8, <3>3
        <5>2. linked[c] \in Nat
          BY <2>5, <5>1
        <5> HIDE DEF linked
        <5> QED
          BY <2>5, <5>1, <5>2
      <4>4. T \in SUBSET Nat
        BY <2>5
      <4>5. Min(T) = linked[c]
        <5> HIDE DEF T, linked
        <5> QED
          BY <4>3, <4>4, MinIs
      <4>6. \E d \in G : d > c
        BY <4>3
      <4> QED
        BY <4>1, <4>2, <4>5, <4>6 DEF Linked
    <3> QED
      BY <1>5, <3>1, <3>2, <3>3
  <2>7. fat' = Allocate(given, Want)
    BY <2>2, <2>4, <2>6 DEF Allocate, Linked
  <2>8. first' = AllocatedHead(given, Want)
    <3>1. Min(G) = first'
      <4> HIDE DEF G
      <4> QED
        BY <1>9, <2>5, MinIs
    <3> QED
      BY <2>2, <3>1 DEF AllocatedHead
  <2>9. AllocatesFirstFit'
    BY <1>1, <2>3, <2>7, <2>8 DEF AllocatesFirstFit
  <2>10. LoopType'
    BY <1>1, <1>2, <2>4 DEF LoopInv, LoopType
  <2> QED
    BY <2>1, <2>9, <2>10 DEF LoopInv, Counted, Linking, FullLeavesTable
<1> QED
  BY <1>10, <1>11

\* The other loops change nothing that the invariant speaks of.
LEMMA OtherLoopsKeep ==
    LoopInv /\ (MeasureChain \/ CheckChain \/ WriteCluster \/ WriteEnds \/ LoadCluster)
        => LoopInv'
<1> SUFFICES ASSUME LoopInv,
                    MeasureChain \/ CheckChain \/ WriteCluster \/ WriteEnds \/ LoadCluster
             PROVE  LoopInv'
  OBVIOUS
<1>1. /\ given' = given /\ size' = size /\ fat' = fat /\ first' = first
      /\ pc \in {"length", "check", "write", "load"}
      /\ pc' \in {"length", "check", "logic", "write", "load", "loaded"}
  BY DEF MeasureChain, CheckChain, WriteCluster, WriteEnds, LoadCluster
<1>2. LoopType' /\ Want' = Want
  BY <1>1 DEF LoopInv, LoopType, Want
<1>3. AllocatesFirstFit'
  BY <1>1, <1>2 DEF LoopInv, AllocatesFirstFit, Allocated
<1> QED
  BY <1>1, <1>2, <1>3 DEF LoopInv, Counted, Linking, FullLeavesTable

LEMMA LoopStepKeeps == LoopInv /\ [Next]_vars => LoopInv'
<1> SUFFICES ASSUME LoopInv, [Next]_vars PROVE LoopInv'
  OBVIOUS
<1>1. CASE UNCHANGED vars
  BY <1>1 DEF vars, LoopInv, LoopType, Counted, Linking, LinkedBefore, EndsOf,
              AllocatesFirstFit, Allocated, FullLeavesTable, Want
<1>2. CASE Next
  BY <1>2, CountClusterKeeps, CompareCountKeeps, LinkClusterKeeps, SkipClusterKeeps,
     LinkEndsKeeps, OtherLoopsKeep DEF Next
<1> QED
  BY <1>1, <1>2

\* _lf12_create_cluster_chain is Fat's Allocate, for every table and every
\* length: Image may take the loop as one step.
THEOREM LoopIsAllocate == Spec => []AllocatesFirstFit
<1>1. LoopInv => AllocatesFirstFit
  BY DEF LoopInv
<1> QED
  BY InitIsInv, LoopStepKeeps, <1>1, PTL DEF Spec

\* The answer "full" is right whenever clusters are asked for, and leaves the
\* table alone.
THEOREM FullIsFull == Spec => []FullLeavesTable
<1>1. LoopInv => FullLeavesTable
  BY DEF LoopInv
<1> QED
  BY InitIsInv, LoopStepKeeps, <1>1, PTL DEF Spec
-----------------------------------------------------------------------------
(***************************************************************************)
(* The loops behind the allocation: the length of the chain, the bytes     *)
(* written to it and the bytes read back.                                  *)
(***************************************************************************)
Taken == FirstFit(given, Want)

\* The n-th cluster of the file, and its first n clusters, zeros at the end.
FileBytes(n) ==
    [k \in 1 .. ClusterSize |->
        IF ClusterSize * (n - 1) + k <= size THEN ClusterSize * (n - 1) + k ELSE 0]

FileUpTo(n) == [k \in 1 .. ClusterSize * n |-> IF k <= size THEN k ELSE 0]

\* The clusters of the chain hold the first n clusters of the file.
WrittenUpTo(n) ==
    /\ DOMAIN blocks = Clusters
    /\ \A c \in Clusters :
        blocks[c] = IF c \in Taken /\ PlaceIn(Taken, c) <= n
                    THEN FileBytes(PlaceIn(Taken, c)) ELSE Junk

Measuring ==
    /\ pc = "length" => cursor \in Taken /\ length = PlaceIn(Taken, cursor)
    /\ pc = "check" => length = Want

Writing ==
    /\ pc \notin {"write", "load", "loaded"} =>
        blocks = [c \in Clusters |-> Junk] /\ written = 0 /\ buffer = <<>>
    /\ pc = "write" =>
        /\ buffer = <<>>
        /\ \E n \in 0 .. Want :
            /\ written = ClusterSize * n
            /\ WrittenUpTo(n)
            /\ n < Want => cursor \in Taken /\ PlaceIn(Taken, cursor) = n + 1

Loading ==
    /\ pc = "load" =>
        /\ WrittenUpTo(Want)
        /\ cursor \in Taken
        /\ buffer = FileUpTo(PlaceIn(Taken, cursor) - 1)
    /\ pc = "loaded" => WrittenUpTo(Want) /\ buffer = FileUpTo(Want)

BytesInv == Measuring /\ Writing /\ Loading /\ TooLongForWidth

\* The file ends in the last cluster of its chain.
LEMMA WantBounds ==
    ASSUME size \in Nat
    PROVE  /\ Want \in Nat
           /\ size <= ClusterSize * Want
           /\ Want > 0 => ClusterSize * (Want - 1) < size
<1> DEFINE q == size \div ClusterSize
           r == size % ClusterSize
<1>1. /\ q \in Nat /\ r \in Nat /\ ClusterSize \in Nat /\ ClusterSize > 0
      /\ size = ClusterSize * q + r /\ r < ClusterSize
  BY ClusterSizeAssumption
<1>2. Want = q + IF r # 0 THEN 1 ELSE 0
  BY DEF Want
<1> HIDE DEF q, r
<1>3. CASE r = 0
  <2>1. Want = q
    BY <1>1, <1>2, <1>3
  <2>2. ClusterSize * (q - 1) = ClusterSize * q - ClusterSize
    BY <1>1
  <2> QED
    BY <1>1, <1>3, <2>1, <2>2
<1>4. CASE r # 0
  <2>1. Want = q + 1
    BY <1>1, <1>2, <1>4
  <2>2. ClusterSize * (q + 1) = ClusterSize * q + ClusterSize /\ (q + 1) - 1 = q
    BY <1>1
  <2> QED
    BY <1>1, <1>4, <2>1, <2>2
<1> QED
  BY <1>3, <1>4

\* A chain of more bytes than a 16-bit variable holds does not fit, whatever its
\* length has wrapped to, and every shorter one does.
LEMMA WidthExact ==
    ASSUME NEW b \in Nat, NEW m \in Nat \ {0}, b <= ClusterSize * m,
           ClusterSize * (m - 1) < b
    PROVE  b <= uint16(ClusterSize * m) /\ b + uint16(ClusterSize) > uint16(ClusterSize * m)
                <=> ClusterSize * m < Width
<1> DEFINE n == ClusterSize * m
           q == n \div Width
           r == n % Width
<1>1. Width \in Nat /\ Width > 0 /\ ClusterSize \in Nat /\ ClusterSize > 0
  BY WidthAssumption, ClusterSizeAssumption, ClusterCountAssumption
<1>2. /\ n \in Nat /\ ClusterSize * (m - 1) = n - ClusterSize
      /\ ClusterSize * (m - 1) \in Nat
  BY <1>1
<1>3. q \in Nat /\ r \in Nat /\ n = Width * q + r /\ r < Width
  <2> HIDE DEF n
  <2> QED
    BY <1>1, <1>2
<1>4. n >= ClusterSize /\ b > n - ClusterSize /\ b <= n /\ b > 0
  BY <1>1, <1>2
<1> HIDE DEF n, q, r
<1>5. CASE n < Width
  <2>1. \A x \in Nat : x < Width => x % Width = x
    BY <1>1
  <2>2. r = n /\ ClusterSize % Width = ClusterSize
    BY <1>1, <1>2, <1>4, <1>5, <2>1 DEF r
  <2> QED
    BY <1>1, <1>2, <1>4, <1>5, <2>2 DEF uint16, n, r
<1>6. CASE n >= Width
  <2> SUFFICES ASSUME b <= r PROVE FALSE
    BY <1>1, <1>2, <1>6 DEF uint16, n, r
  <2>1. Width * q >= Width
    <3>1. q >= 1
      BY <1>1, <1>3, <1>6
    <3>2. \A x \in Nat : x >= 1 => Width * x >= Width
      BY <1>1
    <3> QED
      BY <1>3, <3>1, <3>2
  <2>2. ClusterSize > Width
    <3>1. Width * q \in Nat
      BY <1>1, <1>3
    <3> QED
      BY <1>1, <1>2, <1>3, <1>4, <2>1, <3>1
  <2>3. ClusterSize % Width = 0
    BY <1>1, <2>2, ClusterSizeAssumption
  <2>4. PICK p \in Nat : ClusterSize = Width * p
    <3>1. ClusterSize = Width * (ClusterSize \div Width) + (ClusterSize % Width)
          /\ ClusterSize \div Width \in Nat
      BY <1>1
    <3>2. ClusterSize = Width * (ClusterSize \div Width)
      BY <1>1, <2>3, <3>1
    <3> QED
      BY <3>1, <3>2, Zenon
  <2>5. n = Width * (p * m) /\ p * m \in Nat
    BY <1>1, <2>4 DEF n
  <2>6. \A k, j \in Nat, x \in Nat : Width * k = Width * j + x /\ x < Width => x = 0
    <3> SUFFICES ASSUME NEW k \in Nat, NEW j \in Nat, NEW x \in Nat,
                        Width * k = Width * j + x, x < Width
                 PROVE  x = 0
      OBVIOUS
    <3>1. CASE k <= j
      <4>1. Width * k <= Width * j
        BY <1>1, <3>1
      <4> QED
        BY <1>1, <4>1
    <3>2. CASE k >= j + 1
      <4>1. Width * k >= Width * j + Width
        BY <1>1, <3>2
      <4> QED
        BY <1>1, <4>1
    <3> QED
      BY <3>1, <3>2
  <2>7. r = 0
    BY <1>3, <2>5, <2>6
  <2> QED
    BY <1>4, <2>7
<1> QED
  BY <1>2, <1>1, <1>5, <1>6

\* Every cluster of a set has a place of its own, counted from 1.
LEMMA PlacesDiffer ==
    ASSUME NEW E \in SUBSET Clusters, NEW c \in E
    PROVE  /\ PlaceIn(E, c) \in 1 .. Cardinality(E)
           /\ \A d \in E : PlaceIn(E, d) = PlaceIn(E, c) => d = c
<1>1. IsFiniteSet(E) /\ \A d \in E : d \in Nat
  BY ClusterSets, FS_Subset
<1>2. \A d \in E : IsFiniteSet({e \in E : e <= d})
  BY <1>1, FS_Subset
<1>3. PlaceIn(E, c) # 0
  <2>1. c \in {e \in E : e <= c}
    BY <1>1
  <2> QED
    BY <1>2, <2>1, FS_EmptySet DEF PlaceIn
<1>4. ASSUME NEW x \in E, NEW y \in E, x < y
      PROVE  PlaceIn(E, x) # PlaceIn(E, y)
  <2> DEFINE L == {e \in E : e <= x}
             M == {e \in E : e <= y}
  <2>1. L \in SUBSET M
    <3>1. \A e \in E : e <= x => e <= y
      <4> SUFFICES ASSUME NEW e \in E, e <= x PROVE e <= y
        OBVIOUS
      <4>1. e \in Nat /\ x \in Nat /\ y \in Nat
        BY <1>1
      <4> QED
        BY <1>4, <4>1
    <3> QED
      BY <3>1
  <2>2. y \in M /\ y \notin L
    BY <1>1, <1>4
  <2> HIDE DEF L, M
  <2>3. IsFiniteSet(M)
    BY <1>2 DEF M
  <2>4. Cardinality(M) # Cardinality(L)
    BY <2>1, <2>2, <2>3, FS_Subset
  <2> QED
    BY <2>4 DEF PlaceIn, L, M
<1>5. \A d \in E : d = c \/ d < c \/ c < d
  BY <1>1
<1> QED
  BY <1>3, <1>4, <1>5, PlaceType

\* The chain of an allocation passes its clusters in ascending order.
LEMMA TakenFacts ==
    ASSUME LoopInv, Allocated
    PROVE  /\ Taken \in SUBSET Clusters /\ Cardinality(Taken) = Want /\ Want \in Nat \ {0}
           /\ InOrder(fat, Taken, first)
           /\ \A c \in Taken : fat[c] = EndOfChain \/ fat[c] \in Taken
           /\ EndOfChain \notin Taken
           /\ \A c \in Taken : given[c] = 0
           /\ \A c \in Taken : PlaceIn(Taken, c) \in 1 .. Want
<1>1. /\ given \in [Clusters -> FatValues] /\ Want \in Nat
      /\ CanAllocate(given, Want) /\ fat = Allocate(given, Want)
      /\ first = AllocatedHead(given, Want)
  BY WantType DEF LoopInv, LoopType, AllocatesFirstFit
<1>2. Taken \in SUBSET Clusters /\ Taken # {} /\ \A c \in Taken : given[c] = 0
  BY <1>1, FirstFitFacts DEF Taken
<1>3. Cardinality(Taken) = Want /\ Want # 0
  BY <1>1, FirstFitSize DEF Taken, CanAllocate
<1>4. InOrder(fat, Taken, first)
  BY <1>1, <1>2, LinkedInOrder DEF Taken, Allocate, AllocatedHead
<1>5. \A c \in Taken : fat[c] = EndOfChain \/ fat[c] \in Taken
  BY <1>1, <1>2, LinkedFacts DEF Taken, Allocate
<1>6. EndOfChain \notin Taken
  BY <1>2, ClusterSets
<1> QED
  BY <1>1, <1>2, <1>3, <1>4, <1>5, <1>6, PlacesDiffer

\* It starts with the first place; every cluster but that of the last place leads
\* to the next one.
LEMMA TakenPlaces ==
    ASSUME LoopInv, Allocated
    PROVE  /\ first \in Taken /\ PlaceIn(Taken, first) = 1
           /\ \A c \in Taken :
                IF fat[c] = EndOfChain THEN PlaceIn(Taken, c) = Want
                ELSE fat[c] \in Taken /\ PlaceIn(Taken, fat[c]) = PlaceIn(Taken, c) + 1
<1>1. Taken \in SUBSET Clusters /\ InOrder(fat, Taken, first) /\ Cardinality(Taken) = Want
  BY TakenFacts
<1>2. first \in Taken /\ PlaceIn(Taken, first) = 1
  BY <1>1, FirstPlace DEF InOrder
<1>3. \A c \in Taken : fat[c] \in Taken => PlaceIn(Taken, fat[c]) = PlaceIn(Taken, c) + 1
  BY <1>1, NextPlace
<1>4. \A c \in Taken : fat[c] \notin Taken => PlaceIn(Taken, c) = Want
  BY <1>1, LastPlace
<1> QED
  BY <1>2, <1>3, <1>4, TakenFacts

LEMMA SameTaken == UNCHANGED <<given, size>> => Want' = Want /\ Taken' = Taken
  BY DEF Want, Taken

LEMMA InitBytes == Init => BytesInv
  BY DEF Init, BytesInv, Measuring, Writing, Loading, TooLongForWidth

\* While clusters are counted and linked, no byte is moved.
LEMMA AllocationBytes ==
    LoopInv /\ LoopInv' /\ BytesInv
            /\ (CountCluster \/ CompareCount \/ LinkCluster \/ SkipCluster \/ LinkEnds)
        => BytesInv'
<1> SUFFICES ASSUME LoopInv, LoopInv', BytesInv,
                    CountCluster \/ CompareCount \/ LinkCluster \/ SkipCluster \/ LinkEnds
             PROVE  BytesInv'
  OBVIOUS
<1>1. /\ pc \in {"count", "link"} /\ pc' \in {"count", "link", "full", "length"}
      /\ UNCHANGED <<given, size, blocks, written, buffer>>
      /\ pc' = "length" => cursor' = first' /\ length' = 1
  BY DEF CountCluster, CompareCount, LinkCluster, SkipCluster, LinkEnds
<1>2. Writing' /\ Loading' /\ TooLongForWidth'
  BY <1>1 DEF BytesInv, Writing, Loading, TooLongForWidth
<1>3. ASSUME pc' = "length"
      PROVE  first' \in Taken' /\ PlaceIn(Taken', first') = 1
  <2>1. /\ given' \in [Clusters -> FatValues] /\ Want' \in Nat
        /\ CanAllocate(given', Want') /\ first' = AllocatedHead(given', Want')
    <3>1. given' \in [Clusters -> FatValues] /\ size' \in Nat /\ AllocatesFirstFit'
      BY DEF LoopInv, LoopType
    <3>2. Want' \in Nat
      BY <1>1, <3>1, WantType, SameTaken
    <3> QED
      BY <1>3, <3>1, <3>2 DEF AllocatesFirstFit, Allocated
  <2>2. Taken' \in SUBSET Clusters /\ Taken' # {} /\ Taken' = FirstFit(given', Want')
    BY <2>1, FirstFitFacts DEF Taken
  <2>3. InOrder(Linked(given', Taken'), Taken', first')
    BY <2>1, <2>2, LinkedInOrder DEF AllocatedHead
  <2> QED
    BY <2>2, <2>3, FirstPlace DEF InOrder
<1>4. Measuring'
  BY <1>1, <1>3 DEF Measuring
<1> QED
  BY <1>2, <1>4 DEF BytesInv

LEMMA MeasureBytes == LoopInv /\ BytesInv /\ MeasureChain => BytesInv'
<1> SUFFICES ASSUME LoopInv, BytesInv, MeasureChain PROVE BytesInv'
  OBVIOUS
<1>1. /\ pc = "length" /\ cursor' = fat[cursor]
      /\ IF fat[cursor] # EndOfChain THEN length' = length + 1 /\ pc' = pc
         ELSE pc' = "check" /\ length' = length
      /\ UNCHANGED <<given, size, blocks, written, buffer>>
  BY DEF MeasureChain
<1>2. Want' = Want /\ Taken' = Taken
  BY <1>1, SameTaken
<1>3. cursor \in Taken /\ length = PlaceIn(Taken, cursor)
  BY <1>1 DEF BytesInv, Measuring
<1>4. Measuring'
  BY <1>1, <1>2, <1>3, TakenPlaces DEF Measuring, Allocated
<1>5. Writing' /\ Loading' /\ TooLongForWidth'
  BY <1>1, <1>2 DEF BytesInv, Writing, Loading, TooLongForWidth
<1> QED
  BY <1>4, <1>5 DEF BytesInv

LEMMA CheckBytes == LoopInv /\ BytesInv /\ CheckChain => BytesInv'
<1> SUFFICES ASSUME LoopInv, BytesInv, CheckChain PROVE BytesInv'
  OBVIOUS
<1>1. /\ pc = "check" /\ pc' = (IF FitsChain THEN "write" ELSE "logic") /\ cursor' = first
      /\ UNCHANGED <<given, size, fat, blocks, first, length, written, buffer>>
  BY DEF CheckChain
<1>2. Want' = Want /\ Taken' = Taken
  BY <1>1, SameTaken
<1>3. length = Want /\ Want \in Nat \ {0} /\ size \in Nat
  BY <1>1, TakenFacts DEF BytesInv, Measuring, Allocated, LoopInv, LoopType
<1>4. FitsChain <=> ClusterSize * Want < Width
  <2>1. size <= ClusterSize * Want /\ ClusterSize * (Want - 1) < size
    BY <1>3, WantBounds
  <2> QED
    BY <1>3, <2>1, WidthExact DEF FitsChain, ChainBytes
<1>5. TooLongForWidth'
  <2>1. ClusterSize * Want \in Nat /\ Width \in Nat
    BY <1>3, ClusterSizeAssumption, WidthAssumption
  <2> QED
    BY <1>1, <1>2, <1>4, <2>1 DEF TooLongForWidth
<1>6. blocks = [c \in Clusters |-> Junk] /\ written = 0 /\ buffer = <<>>
  BY <1>1 DEF BytesInv, Writing
<1>7. first \in Taken /\ PlaceIn(Taken, first) = 1
  BY <1>1, TakenPlaces DEF Allocated
<1>8. WrittenUpTo(0)'
  <2>1. \A c \in Taken : ~ (PlaceIn(Taken, c) <= 0)
    BY <1>1, <1>3, TakenFacts DEF Allocated
  <2> QED
    BY <1>1, <1>2, <1>6, <2>1 DEF WrittenUpTo
<1>9. Writing'
  <2>1. 0 \in 0 .. Want /\ written = ClusterSize * 0 /\ 0 < Want
    BY <1>3, <1>6, ClusterSizeAssumption
  <2> QED
    BY <1>1, <1>2, <1>6, <1>7, <1>8, <2>1 DEF Writing
<1> QED
  BY <1>1, <1>5, <1>9 DEF BytesInv, Measuring, Loading

\* The bytes that one more cluster gets are the next ones of the file.
LEMMA WriteBytes == LoopInv /\ BytesInv /\ WriteCluster => BytesInv'
<1> SUFFICES ASSUME LoopInv, BytesInv, WriteCluster PROVE BytesInv'
  OBVIOUS
<1>1. /\ pc = "write" /\ pc' = "write" /\ written < size
      /\ blocks' = [blocks EXCEPT ![cursor] = ClusterBytes]
      /\ written' = uint16(written + ClusterSize)
      /\ cursor' = fat[cursor]
      /\ UNCHANGED <<given, size, fat, buffer>>
  BY DEF WriteCluster
<1>2. Want' = Want /\ Taken' = Taken
  BY <1>1, SameTaken
<1>3. PICK n \in 0 .. Want :
        /\ written = ClusterSize * n
        /\ WrittenUpTo(n)
        /\ n < Want => cursor \in Taken /\ PlaceIn(Taken, cursor) = n + 1
  BY <1>1 DEF BytesInv, Writing
<1>4. /\ Want \in Nat \ {0} /\ n \in Nat /\ size \in Nat /\ size <= ClusterSize * Want
      /\ ClusterSize \in Nat /\ ClusterSize > 0 /\ Width \in Nat
      /\ ClusterSize * Want < Width
  <2>1. Want \in Nat \ {0} /\ size \in Nat
    BY <1>1, TakenFacts DEF Allocated, LoopInv, LoopType
  <2> QED
    BY <1>1, <2>1, WantBounds, ClusterSizeAssumption, WidthAssumption
       DEF BytesInv, TooLongForWidth
<1>5. n < Want
  BY <1>1, <1>3, <1>4
<1>6. cursor \in Taken /\ PlaceIn(Taken, cursor) = n + 1 /\ cursor \in Clusters
  BY <1>1, <1>3, <1>5, TakenFacts DEF Allocated
<1>7. /\ ClusterSize * n \in Nat /\ ClusterSize * Want \in Nat
      /\ ClusterSize * (n + 1) = ClusterSize * n + ClusterSize
      /\ ClusterSize * (n + 1) <= ClusterSize * Want
      /\ (n + 1) - 1 = n
  BY <1>4, <1>5
<1>8. \A x \in Nat : x < Width => uint16(x) = x
  BY <1>4 DEF uint16
<1>9. written' = ClusterSize * (n + 1)
  BY <1>1, <1>3, <1>4, <1>7, <1>8
<1>10. BytesLeft = size - written
  <2>1. size - written \in Nat /\ size - written < Width
    BY <1>1, <1>3, <1>4, <1>7
  <2> QED
    BY <1>8, <2>1 DEF BytesLeft
<1>11. ClusterBytes = FileBytes(n + 1)
  <2> DEFINE w == ClusterSize * n
  <2>1. w \in Nat /\ written = w
    BY <1>3, <1>7
  <2> HIDE DEF w
  <2>2. \A k \in 1 .. ClusterSize : k <= size - w <=> w + k <= size
    BY <1>4, <2>1
  <2>3. FileBytes(n + 1) = [k \in 1 .. ClusterSize |-> IF w + k <= size THEN w + k ELSE 0]
    BY <1>7 DEF FileBytes, w
  <2> QED
    BY <1>10, <2>1, <2>2, <2>3 DEF ClusterBytes
<1>12. WrittenUpTo(n + 1)'
  <2>1. \A c \in Taken : /\ PlaceIn(Taken, c) \in Nat
                         /\ PlaceIn(Taken, c) = n + 1 => c = cursor
    BY <1>1, <1>6, TakenFacts, PlacesDiffer DEF Allocated
  <2>2. ASSUME NEW c \in Clusters
        PROVE  blocks'[c] = IF c \in Taken /\ PlaceIn(Taken, c) <= n + 1
                            THEN FileBytes(PlaceIn(Taken, c)) ELSE Junk
    <3>1. CASE c = cursor
      BY <1>1, <1>3, <1>4, <1>6, <1>11, <3>1 DEF WrittenUpTo
    <3>2. CASE c # cursor
      <4>1. blocks'[c] = blocks[c]
        BY <1>1, <1>3, <3>2 DEF WrittenUpTo
      <4>2. c \in Taken => (PlaceIn(Taken, c) <= n + 1 <=> PlaceIn(Taken, c) <= n)
        BY <1>4, <2>1, <3>2
      <4> QED
        BY <1>3, <4>1, <4>2 DEF WrittenUpTo
    <3> QED
      BY <3>1, <3>2
  <2>3. DOMAIN blocks' = Clusters
    BY <1>1, <1>3 DEF WrittenUpTo
  <2> QED
    BY <1>1, <1>2, <2>2, <2>3 DEF WrittenUpTo, FileBytes
<1>13. n + 1 < Want => cursor' \in Taken /\ PlaceIn(Taken, cursor') = (n + 1) + 1
  BY <1>1, <1>4, <1>6, TakenPlaces DEF Allocated
<1>14. Writing'
  <2>1. n + 1 \in 0 .. Want /\ buffer = <<>>
    BY <1>1, <1>4, <1>5 DEF BytesInv, Writing
  <2> QED
    BY <1>1, <1>2, <1>9, <1>12, <1>13, <2>1 DEF Writing
<1> QED
  BY <1>1, <1>2, <1>4, <1>14 DEF BytesInv, Measuring, Loading, TooLongForWidth

\* The loop ends with the last cluster.
LEMMA WriteEndsBytes == LoopInv /\ BytesInv /\ WriteEnds => BytesInv'
<1> SUFFICES ASSUME LoopInv, BytesInv, WriteEnds PROVE BytesInv'
  OBVIOUS
<1>1. /\ pc = "write" /\ pc' = "load" /\ written >= size /\ cursor' = first
      /\ UNCHANGED <<given, size, blocks, written, buffer>>
  BY DEF WriteEnds
<1>2. Want' = Want /\ Taken' = Taken
  BY <1>1, SameTaken
<1>3. PICK n \in 0 .. Want : written = ClusterSize * n /\ WrittenUpTo(n)
  BY <1>1 DEF BytesInv, Writing
<1>4. /\ Want \in Nat \ {0} /\ size \in Nat /\ ClusterSize * (Want - 1) < size
      /\ ClusterSize \in Nat /\ n \in Nat
  <2>1. Want \in Nat \ {0} /\ size \in Nat
    BY <1>1, TakenFacts DEF Allocated, LoopInv, LoopType
  <2> QED
    BY <2>1, WantBounds, ClusterSizeAssumption
<1>5. n = Want
  <2> SUFFICES ASSUME n <= Want - 1 PROVE FALSE
    BY <1>4
  <2>1. ClusterSize * n <= ClusterSize * (Want - 1)
    BY <1>4
  <2> QED
    BY <1>1, <1>3, <1>4, <2>1
<1>6. WrittenUpTo(Want)'
  BY <1>1, <1>2, <1>3, <1>5 DEF WrittenUpTo, FileBytes
<1>7. first \in Taken /\ PlaceIn(Taken, first) = 1
  BY <1>1, TakenPlaces DEF Allocated
<1>8. FileUpTo(0)' = <<>>
  <2>1. 1 .. ClusterSize * 0 = {}
    BY <1>4
  <2> QED
    BY <2>1 DEF FileUpTo
<1>9. buffer' = <<>>
  BY <1>1 DEF BytesInv, Writing
<1>10. Loading'
  BY <1>1, <1>2, <1>6, <1>7, <1>8, <1>9 DEF Loading
<1> QED
  BY <1>1, <1>2, <1>10 DEF BytesInv, Measuring, Writing, TooLongForWidth

\* Behind the first n clusters of the file comes the next one.
LEMMA FileContinues ==
    ASSUME size \in Nat, NEW n \in Nat
    PROVE  FileUpTo(n) \o FileBytes(n + 1) = FileUpTo(n + 1)
<1> DEFINE w == ClusterSize * n
           C == ClusterSize
           s == FileUpTo(n)
           t == FileBytes(n + 1)
           u == FileUpTo(n + 1)
<1>1. w \in Nat /\ C \in Nat /\ ClusterSize * (n + 1) = w + C /\ (n + 1) - 1 = n
  BY ClusterSizeAssumption
<1>2. /\ s = [k \in 1 .. w |-> IF k <= size THEN k ELSE 0]
      /\ t = [k \in 1 .. C |-> IF w + k <= size THEN w + k ELSE 0]
      /\ u = [k \in 1 .. w + C |-> IF k <= size THEN k ELSE 0]
  BY <1>1 DEF FileUpTo, FileBytes
<1> HIDE DEF w, C, s, t, u
<1>3. s \in Seq(Nat) /\ Len(s) = w /\ t \in Seq(Nat) /\ Len(t) = C /\ u \in Seq(Nat)
      /\ Len(u) = w + C
  BY <1>1, <1>2
<1>4. /\ s \o t \in Seq(Nat) /\ Len(s \o t) = w + C
      /\ \A k \in 1 .. w + C : (s \o t)[k] = IF k <= w THEN s[k] ELSE t[k - w]
  BY <1>3, ConcatProperties
<1>5. ASSUME NEW k \in 1 .. w + C
      PROVE  (s \o t)[k] = u[k]
  <2>1. CASE k <= w
    <3>1. k \in 1 .. w
      BY <1>1, <2>1
    <3> QED
      BY <1>2, <1>4, <2>1, <3>1
  <2>2. CASE ~ (k <= w)
    <3>1. k - w \in 1 .. C /\ w + (k - w) = k
      BY <1>1, <2>2
    <3> QED
      BY <1>2, <1>4, <2>2, <3>1
  <2> QED
    BY <2>1, <2>2
<1>6. s \o t = u
  BY <1>3, <1>4, <1>5, SeqEqual
<1> QED
  BY <1>6 DEF s, t, u

LEMMA LoadBytes == LoopInv /\ BytesInv /\ LoadCluster => BytesInv'
<1> SUFFICES ASSUME LoopInv, BytesInv, LoadCluster PROVE BytesInv'
  OBVIOUS
<1>1. /\ pc = "load" /\ buffer' = buffer \o blocks[cursor] /\ cursor' = fat[cursor]
      /\ pc' = (IF fat[cursor] = EndOfChain THEN "loaded" ELSE "load")
      /\ UNCHANGED <<given, size, fat, blocks, written>>
  BY DEF LoadCluster
<1>2. Want' = Want /\ Taken' = Taken
  BY <1>1, SameTaken
<1> DEFINE p == PlaceIn(Taken, cursor)
<1>3. /\ WrittenUpTo(Want) /\ cursor \in Taken
      /\ buffer = FileUpTo(p - 1)
  BY <1>1 DEF BytesInv, Loading
<1>4. p \in 1 .. Want /\ cursor \in Clusters /\ Want \in Nat /\ size \in Nat
  BY <1>1, <1>3, TakenFacts DEF Allocated, LoopInv, LoopType
<1>5. IF fat[cursor] = EndOfChain THEN p = Want
      ELSE fat[cursor] \in Taken /\ PlaceIn(Taken, fat[cursor]) = p + 1
  BY <1>1, <1>3, TakenPlaces DEF Allocated
<1> HIDE DEF p
<1>6. blocks[cursor] = FileBytes(p)
  BY <1>3, <1>4 DEF WrittenUpTo, p
<1>7. p - 1 \in Nat /\ (p - 1) + 1 = p /\ (p + 1) - 1 = p
  BY <1>4
<1>8. FileUpTo(p - 1) \o FileBytes((p - 1) + 1) = FileUpTo((p - 1) + 1)
  BY <1>4, <1>7, FileContinues
<1>9. buffer' = FileUpTo(p)
  BY <1>1, <1>3, <1>6, <1>7, <1>8
<1>10. WrittenUpTo(Want)'
  BY <1>1, <1>2, <1>3 DEF WrittenUpTo, FileBytes
<1>11. \A m : FileUpTo(m)' = FileUpTo(m)
  BY <1>1 DEF FileUpTo
<1>12. Loading'
  <2>1. CASE fat[cursor] = EndOfChain
    BY <1>1, <1>2, <1>5, <1>9, <1>10, <1>11, <2>1 DEF Loading
  <2>2. CASE fat[cursor] # EndOfChain
    <3>1. pc' = "load" /\ cursor' \in Taken' /\ PlaceIn(Taken', cursor') - 1 = p
      BY <1>1, <1>2, <1>5, <1>7, <2>2
    <3>2. buffer' = FileUpTo(PlaceIn(Taken, cursor) - 1)'
      BY <1>1, <1>9, <3>1 DEF FileUpTo
    <3> QED
      BY <1>10, <3>1, <3>2 DEF Loading
  <2> QED
    BY <2>1, <2>2
<1> QED
  BY <1>1, <1>2, <1>12 DEF BytesInv, Measuring, Writing, TooLongForWidth

LEMMA BytesStepKeeps == LoopInv /\ LoopInv' /\ BytesInv /\ [Next]_vars => BytesInv'
<1> SUFFICES ASSUME LoopInv, LoopInv', BytesInv, [Next]_vars PROVE BytesInv'
  OBVIOUS
<1>1. CASE UNCHANGED vars
  BY <1>1 DEF vars, BytesInv, Measuring, Writing, Loading, TooLongForWidth, WrittenUpTo,
              FileBytes, FileUpTo, Taken, Want
<1>2. CASE Next
  BY <1>2, AllocationBytes, MeasureBytes, CheckBytes, WriteBytes, WriteEndsBytes, LoadBytes
     DEF Next
<1> QED
  BY <1>1, <1>2

LEMMA BytesInvariant == Spec => [](LoopInv /\ BytesInv)
<1>1. Init => LoopInv /\ BytesInv
  BY InitIsInv, InitBytes
<1>2. LoopInv /\ BytesInv /\ [Next]_vars => (LoopInv /\ BytesInv)'
  BY LoopStepKeeps, BytesStepKeeps
<1> QED
  BY <1>1, <1>2, PTL DEF Spec

\* write_to_cluster_chain refuses exactly the files whose chains have more bytes
\* than its 16-bit variables hold.
THEOREM WrappedLengthNeverFits == Spec => []TooLongForWidth
<1>1. LoopInv /\ BytesInv => TooLongForWidth
  BY DEF BytesInv
<1> QED
  BY <1>1, BytesInvariant, PTL

\* load_cluster_chain gives back the file that lf12_create_file was given, and
\* no cluster in use has been written over.
THEOREM FileIsReadBack == Spec => []LoadedIsFile
<1>1. LoopInv /\ BytesInv => LoadedIsFile
  <2> SUFFICES ASSUME LoopInv, BytesInv PROVE LoadedIsFile
    OBVIOUS
  <2>1. ASSUME pc = "loaded"
        PROVE  buffer = [k \in 1 .. Want * ClusterSize |-> IF k <= size THEN k ELSE 0]
    <3>1. Want * ClusterSize = ClusterSize * Want
      BY <2>1, TakenFacts, ClusterSizeAssumption DEF Allocated
    <3> QED
      BY <2>1, <3>1 DEF BytesInv, Loading, FileUpTo
  <2>2. ASSUME NEW c \in Clusters, given[c] # 0
        PROVE  blocks[c] = Junk
    <3>1. CASE pc \notin {"write", "load", "loaded"}
      BY <3>1 DEF BytesInv, Writing
    <3>2. CASE pc \in {"write", "load", "loaded"}
      <4>1. \E n \in 0 .. Want : WrittenUpTo(n)
        <5>1. Want \in 0 .. Want
          BY <3>2, TakenFacts DEF Allocated
        <5> QED
          BY <3>2, <5>1 DEF BytesInv, Writing, Loading
      <4>2. c \notin Taken
        BY <2>2, <3>2, TakenFacts DEF Allocated
      <4> QED
        BY <4>1, <4>2 DEF WrittenUpTo
    <3> QED
      BY <3>1, <3>2
  <2> QED
    BY <2>1, <2>2 DEF LoadedIsFile
<1> QED
  BY <1>1, BytesInvariant, PTL
=============================================================================
