------------------------- MODULE GeometryProperties -------------------------
(***************************************************************************)
(* What the layout of a new image has to satisfy, and what the comments    *)
(* and the help texts of the program say of it.                            *)
(***************************************************************************)
EXTENDS Geometry

Initialized == phase # "opened"

\* The sectors in front of the data, the root directory in whole sectors.
MetaSectors(b) ==
    b.ReservedForBoot + b.NumberOfFats * b.SectorsPerFat + RootSectors(b)

DataClusters(b) ==
    (b.LogicalSectors - MetaSectors(b)) \div b.SectorsPerCluster

\* The table of two copies with one sector per cluster has an odd number of
\* entries, so that 1.5 times that number is rounded down, and fills its sectors
\* to the last byte.
LastEntryCut(b) ==
    /\ b.NumberOfFats = 2
    /\ b.SectorsPerCluster = 1
    /\ ClustersWithFat(b) % 2 = 1
    /\ ((3 * ClustersWithFat(b)) \div 2) % TableSectorBytes(b) = 0

\* Every cluster of the data area, and the two leading entries, have one and
\* a half bytes in the table, although _f12_sectors_per_fat solves the circular
\* dependency between the table and the data area with truncated doubles.  The
\* one exception (with one sector per cluster and no other option 359 KiB is the
\* smallest) misses half a byte: the highest digit of the last entry.
DataClustersHaveEntries ==
    Initialized /\ MetaSectors(bpb) < bpb.LogicalSectors =>
        IF LastEntryCut(bpb)
        THEN 3 * (DataClusters(bpb) + 2) = 2 * FatSize(bpb) + 1
        ELSE 3 * (DataClusters(bpb) + 2) <= 2 * FatSize(bpb)

\* _lf12_cluster_offset counts the root directory in whole sectors, rounded down,
\* where _f12_sectors_per_fat rounds up, and knows nothing of the end of the image.
\* If the root directory fills its sectors, the clusters that the data area was sized
\* for are just those between the root directory and the end of the image; a chain
\* that gets a higher one, which the allocator has, extends the image.
ClustersFillDataArea ==
    Initialized /\ MetaSectors(bpb) < bpb.LogicalSectors
                /\ RootDirSize(bpb) % bpb.SectorSize = 0 =>
        LET behindLast == DataClusters(bpb) + 2
        IN  /\ ClusterOffset(bpb, 2) >= RootDirOffset(bpb) + RootDirSize(bpb)
            /\ ClusterOffset(bpb, behindLast) <= bpb.LogicalSectors * bpb.SectorSize
            /\ ClusterOffset(bpb, behindLast + 1) > bpb.LogicalSectors * bpb.SectorSize

\* create.c in _f12_initialize_bpb: "The number of root dir entries multiplied with
\* 32 is always a multiple of the sector size."  The defaults of 320 KiB are 48
\* entries and sectors of 2048 bytes.
RootDirectoryFillsSectors == Initialized => RootDirSize(bpb) % bpb.SectorSize = 0

\* The image has the size the user asked for: the sectors of 16 bits hold it
\* and no later write of f12_create reaches beyond the zeros.
ImageHasRequestedSize ==
    phase = "created" => length = VolumeSize(args) * 1024
=============================================================================
