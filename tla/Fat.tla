-------------------------------- MODULE Fat --------------------------------
(***************************************************************************)
(* The file allocation table of a FAT12 image as libfat12 keeps it in      *)
(* memory (libfat12/io.c, libfat12/metadata.c): an array of next-cluster   *)
(* numbers in which 0 means free and the end-of-chain marker ends a chain. *)
(*                                                                         *)
(* The array has room for two clusters more than the table on the disk is  *)
(* read into and written from: lf12_create_root_dir_meta sizes it as       *)
(* LogicalSectors / SectorsPerCluster + 2 while read_fat_entries and       *)
(* create_fat stop at LogicalSectors / SectorsPerCluster.                  *)
(***************************************************************************)
EXTENDS Integers, Sequences, FiniteSets, FiniteSetsExt

CONSTANTS ClusterCount,  \* LogicalSectors / SectorsPerCluster
          EndOfChain     \* the end-of-chain marker, 0xfff

ASSUME ClusterCountAssumption == ClusterCount \in Nat /\ ClusterCount >= 2
ASSUME EndOfChainAssumption == EndOfChain \in Nat /\ EndOfChain > ClusterCount + 1

\* The clusters the allocator hands out: fat_entries[2 .. entry_count - 1].
Clusters == 2 .. (ClusterCount + 1)

\* The clusters whose entry reaches the disk and is read back.
Stored == 2 .. (ClusterCount - 1)

Unsaved == Clusters \ Stored

\* What an entry of the table may hold.
FatValues == Clusters \union {0, EndOfChain}

(***************************************************************************)
(* Allocation: _lf12_create_cluster_chain, first fit in ascending order.   *)
(***************************************************************************)
\* (Variants with a fault: the last cluster of a chain counts as free, or the first.)
FreeClustersAndTails(fat) == {c \in Clusters : fat[c] \in {0, EndOfChain}}

FreeClustersAndHeads(fat) == {c \in Clusters : \A d \in Clusters : fat[d] # c}

FreeClusters(fat) == {c \in Clusters : fat[c] = 0}

\* The n lowest free clusters.
FirstFit(fat, n) ==
    {c \in FreeClusters(fat) :
        Cardinality({d \in FreeClusters(fat) : d < c}) < n}

\* A chain of no clusters is refused as well: the loop then links every free
\* cluster without reaching i == cluster_count and returns 0.
CanAllocate(fat, n) == 0 < n /\ n <= Cardinality(FreeClusters(fat))

\* Link the clusters of S in ascending order, the last one to the marker.
Linked(fat, S) ==
    [c \in Clusters |->
        IF c \notin S THEN fat[c]
        ELSE IF \E d \in S : d > c THEN Min({d \in S : d > c})
        ELSE EndOfChain]

Allocate(fat, n) == Linked(fat, FirstFit(fat, n))

AllocatedHead(fat, n) == Min(FirstFit(fat, n))

(***************************************************************************)
(* Walking a chain: the do ... while loops of load_cluster_chain,          *)
(* erase_cluster_chain and write_to_cluster_chain and the counting loop of *)
(* _lf12_get_cluster_chain_length.  They stop at the marker only; a walk   *)
(* that meets a free entry leaves the table (fat_entries[0] is 0xff0).     *)
(***************************************************************************)
NextCluster(fat, c) == IF c \in Clusters THEN fat[c] ELSE 0

Walk(fat, head, n) ==
    LET nth[k \in 1 .. n] ==
            IF k = 1 THEN head ELSE NextCluster(fat, nth[k - 1])
    IN  [k \in 1 .. n |-> nth[k]]

IsChain(fat, s) ==
    /\ \A k \in 1 .. Len(s) : s[k] \in Clusters
    /\ \A k \in 1 .. Len(s) - 1 : fat[s[k]] = s[k + 1]
    /\ fat[s[Len(s)]] = EndOfChain

\* The chain from head, as a set of at most one sequence.
ChainsFrom(fat, head) ==
    {s \in {Walk(fat, head, n) : n \in 1 .. Cardinality(Clusters)} :
        IsChain(fat, s)}

HasChain(fat, head) == ChainsFrom(fat, head) # {}

Chain(fat, head) == CHOOSE s \in ChainsFrom(fat, head) : TRUE

(***************************************************************************)
(* A head is anchored in a table when the chain from it stays in allocated *)
(* entries, ascends, and so ends at the marker, or leaves the part of the  *)
(* table that the disk keeps.                                              *)
(***************************************************************************)
ClosedIn(fat, S) ==
    \A c \in S :
        \/ fat[c] = EndOfChain
        \/ fat[c] \in Unsaved
        \/ fat[c] \in S /\ fat[c] > c

Anchored(fat, head) ==
    \/ head = 0
    \/ head \in Unsaved
    \/ \E S \in SUBSET Stored : head \in S /\ ClosedIn(fat, S)

\* The clusters on the disk that the chain from a head leads through: the least
\* closed set the head is in.
Extent(fat, head) ==
    {c \in Stored :
        /\ head \in Stored
        /\ \A S \in SUBSET Stored : head \in S /\ ClosedIn(fat, S) => c \in S}

\* The place of a cluster in an extent, which the chain passes in ascending order.
PlaceIn(E, c) == Cardinality({d \in E : d <= c})

\* f agrees with g wherever f has an allocated entry.
Below(f, g) == \A c \in Stored : f[c] # 0 => g[c] = f[c]
=============================================================================
