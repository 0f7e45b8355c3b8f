----------------------------- MODULE ChainLoops -----------------------------
(***************************************************************************)
(* The loops of libfat12/io.c over clusters, one iteration at a time: a    *)
(* chain is allocated for the bytes of a file, the bytes are written to it *)
(* and read back.  Fat and Image take each of these loops as one step      *)
(* (Allocate, StoreFile, ReadTable); here is why they may.                 *)
(*                                                                         *)
(* The file has the bytes 1, 2, ..., size.                                 *)
(***************************************************************************)
EXTENDS Fat

CONSTANTS ClusterSize,  \* bytes in a cluster
          Width,        \* 2^16: what a uint16_t can hold
          Tables,       \* the tables to start from
          FileSizes     \* the sizes of files, in bytes

\* entry_count is a uint16_t, so that neither counter of the allocation wraps.
ASSUME WidthAssumption == Width \in Nat /\ ClusterCount + 2 < Width
\* Sectors and clusters have sizes that are powers of two (main.c): a cluster
\* larger than Width - 1 bytes is a multiple of it.
ASSUME ClusterSizeAssumption ==
    ClusterSize \in Nat \ {0} /\ (ClusterSize < Width \/ ClusterSize % Width = 0)
ASSUME TablesAssumption == Tables \subseteq [Clusters -> FatValues]
ASSUME FileSizesAssumption == FileSizes \subseteq Nat

VARIABLES
    given,    \* fat_entries before the allocation
    size,     \* file_size
    fat,      \* fat_entries
    blocks,   \* the bytes in every cluster of the image
    pc,       \* the loop that runs, or how it ended
    cursor,   \* cluster, j, current_cluster
    free,     \* free_clusters
    i,
    first, last,
    length,   \* chain_length of _lf12_get_cluster_chain_length
    written,  \* written_bytes
    buffer    \* what load_cluster_chain has read

vars == <<given, size, fat, blocks, pc, cursor, free, i, first, last, length,
          written, buffer>>

uint16(n) == n % Width

Junk == [k \in 1 .. ClusterSize |-> -1]

\* cluster_count of lf12_create_file.
Want == size \div ClusterSize + IF size % ClusterSize # 0 THEN 1 ELSE 0

Init ==
    /\ given \in Tables
    /\ size \in FileSizes
    /\ fat = given
    /\ blocks = [c \in Clusters |-> Junk]
    /\ pc = "count"
    /\ cursor = 2
    /\ free = 0
    /\ i = 0
    /\ first = 0
    /\ last = 0
    /\ length = 0
    /\ written = 0
    /\ buffer = <<>>
-----------------------------------------------------------------------------
(***************************************************************************)
(* _lf12_create_cluster_chain.                                             *)
(***************************************************************************)
CountCluster ==
    /\ pc = "count"
    /\ cursor \in Clusters
    /\ free' = IF fat[cursor] = 0 THEN free + 1 ELSE free
    /\ cursor' = cursor + 1
    /\ UNCHANGED <<given, size, fat, blocks, pc, i, first, last, length, written, buffer>>

\* (Variant with a fault: one cluster too few is noticed too late.)
TooFewLate == Want > free + 1

TooFew == Want > free

CompareCount ==
    /\ pc = "count"
    /\ cursor \notin Clusters
    /\ IF TooFew THEN pc' = "full" ELSE pc' = "link"
    /\ cursor' = 2
    /\ UNCHANGED <<given, size, fat, blocks, free, i, first, last, length, written, buffer>>

\* The cluster at the cursor is appended to the chain.  (Variant with a fault:
\* the last cluster does not get the marker.)
AppendedOpen == IF i > 0 THEN [fat EXCEPT ![last] = cursor] ELSE fat

Appended ==
    LET linked == IF i > 0 THEN [fat EXCEPT ![last] = cursor] ELSE fat
    IN  IF i + 1 = Want THEN [linked EXCEPT ![cursor] = EndOfChain] ELSE linked

LinkCluster ==
    /\ pc = "link"
    /\ cursor \in Clusters
    /\ fat[cursor] = 0
    /\ fat' = Appended
    /\ first' = IF i > 0 THEN first ELSE cursor
    /\ last' = cursor
    /\ i' = i + 1
    /\ IF i + 1 = Want
       THEN pc' = "length" /\ cursor' = first' /\ length' = 1
       ELSE cursor' = cursor + 1 /\ UNCHANGED <<pc, length>>
    /\ UNCHANGED <<given, size, blocks, free, written, buffer>>

SkipCluster ==
    /\ pc = "link"
    /\ cursor \in Clusters
    /\ fat[cursor] # 0
    /\ cursor' = cursor + 1
    /\ UNCHANGED <<given, size, fat, blocks, pc, free, i, first, last, length, written, buffer>>

\* The loop is left without a chain of the length asked for: the answer is 0.
LinkEnds ==
    /\ pc = "link"
    /\ cursor \notin Clusters
    /\ pc' = "full"
    /\ UNCHANGED <<given, size, fat, blocks, cursor, free, i, first, last, length, written, buffer>>
-----------------------------------------------------------------------------
(***************************************************************************)
(* write_to_cluster_chain, with _lf12_get_cluster_chain_length.            *)
(***************************************************************************)
MeasureChain ==
    /\ pc = "length"
    /\ cursor' = fat[cursor]
    /\ IF fat[cursor] # EndOfChain
       THEN length' = length + 1 /\ UNCHANGED pc
       ELSE pc' = "check" /\ UNCHANGED length
    /\ UNCHANGED <<given, size, fat, blocks, free, i, first, last, written, buffer>>

ChainBytes == uint16(ClusterSize * length)

\* (Variant with a fault: the length of the chain is wrapped and the size too.)
FitsChainWrapped ==
    uint16(size) <= ChainBytes /\ size + uint16(ClusterSize) > ChainBytes

FitsChain == size <= ChainBytes /\ size + uint16(ClusterSize) > ChainBytes

CheckChain ==
    /\ pc = "check"
    /\ IF FitsChain THEN pc' = "write" ELSE pc' = "logic"
    /\ cursor' = first
    /\ UNCHANGED <<given, size, fat, blocks, free, i, first, last, length, written, buffer>>

BytesLeft == uint16(size - written)

\* The bytes of the file that go to this cluster, zeros after them.  (Variant
\* with a fault: the data pointer stays where it is.)
ClusterBytesAgain == [k \in 1 .. ClusterSize |-> IF k <= BytesLeft THEN k ELSE 0]

ClusterBytes ==
    [k \in 1 .. ClusterSize |-> IF k <= BytesLeft THEN written + k ELSE 0]

WriteCluster ==
    /\ pc = "write"
    /\ written < size
    /\ blocks' = [blocks EXCEPT ![cursor] = ClusterBytes]
    /\ written' = uint16(written + ClusterSize)
    /\ cursor' = fat[cursor]
    /\ UNCHANGED <<given, size, fat, pc, free, i, first, last, length, buffer>>

WriteEnds ==
    /\ pc = "write"
    /\ written >= size
    /\ pc' = "load"
    /\ cursor' = first
    /\ UNCHANGED <<given, size, fat, blocks, free, i, first, last, length, written, buffer>>
-----------------------------------------------------------------------------
(***************************************************************************)
(* load_cluster_chain, when the file is read again.                        *)
(***************************************************************************)
LoadCluster ==
    /\ pc = "load"
    /\ buffer' = buffer \o blocks[cursor]
    /\ cursor' = fat[cursor]
    /\ IF fat[cursor] = EndOfChain THEN pc' = "loaded" ELSE UNCHANGED pc
    /\ UNCHANGED <<given, size, fat, blocks, free, i, first, last, length, written>>

Next ==
    \/ CountCluster \/ CompareCount \/ LinkCluster \/ SkipCluster \/ LinkEnds
    \/ MeasureChain \/ CheckChain \/ WriteCluster \/ WriteEnds \/ LoadCluster

Spec == Init /\ [][Next]_vars
-----------------------------------------------------------------------------
(***************************************************************************)
(* The loops compute what Fat and Image say they do.                       *)
(***************************************************************************)
Allocated == pc \in {"length", "check", "logic", "write", "load", "loaded"}

\* An allocation that succeeds is Fat's Allocate: the lowest free clusters, in
\* ascending order, ended by the marker, and nothing else of the table changed.
AllocatesFirstFit ==
    Allocated =>
        /\ CanAllocate(given, Want)
        /\ fat = Allocate(given, Want)
        /\ first = AllocatedHead(given, Want)

\* The answer "full" is Fat's ~CanAllocate; the table is then as it was, but for
\* a request of no clusters, for which all free clusters have been linked and
\* the chain is not closed.
FullLeavesTable ==
    pc = "full" =>
        /\ ~CanAllocate(given, Want)
        /\ Want > 0 => fat = given
        /\ \A c \in Clusters : fat[c] = EndOfChain => given[c] = EndOfChain

\* A chain is refused as too long exactly when its bytes do not fit a uint16_t:
\* the 16-bit arithmetic of write_to_cluster_chain never lets a chain through
\* whose length it has wrapped, and never refuses a shorter one.
TooLongForWidth ==
    /\ pc = "logic" => ClusterSize * Want >= Width
    /\ pc \in {"write", "load", "loaded"} => ClusterSize * Want < Width

\* What is read back is the file, filled up with zeros to the end of the chain,
\* and no cluster that was in use has been written.
LoadedIsFile ==
    /\ pc = "loaded" =>
        buffer = [k \in 1 .. Want * ClusterSize |-> IF k <= size THEN k ELSE 0]
    /\ \A c \in Clusters : given[c] # 0 => blocks[c] = Junk
=============================================================================
