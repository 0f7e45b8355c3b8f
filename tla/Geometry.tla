------------------------------ MODULE Geometry ------------------------------
(***************************************************************************)
(* How f12 create lays out a new image (create.c): the BIOS parameter      *)
(* block guessed from the size and the options of the command line, the    *)
(* size of a file allocation table, and the regions of the image that the  *)
(* creation writes one after the other.  The content of the regions is     *)
(* left out; `length' is the number of bytes the image file has.           *)
(***************************************************************************)
EXTENDS Integers, FiniteSets, FiniteSetsExt

CONSTANTS Arguments,  \* the command lines, records of the options of create
          OutOfRange  \* what a double beyond the range of int converts to:
                      \* undefined in C, on x86 the smallest int

VARIABLES args, phase, bpb, length

vars == <<args, phase, bpb, length>>

MaxVolumeSize == 32768
MaxReserved == 65535

\* The command lines that main.c accepts; an option that was not given is 0.
CommandLine ==
    [size : {0} \union 10 .. MaxVolumeSize,
     sectorSize : {0, 512, 1024, 2048, 4096},
     sectorsPerCluster : {0, 1, 2, 4, 8, 16, 32, 64, 128},
     reserved : 0 .. MaxReserved,
     fats : 0 .. 2,
     rootEntries : {0, 64, 112, 224, 512}]

ASSUME ArgumentsAssumption == Arguments \subseteq CommandLine
ASSUME OutOfRangeAssumption == OutOfRange \subseteq Int

\* The division of C truncates towards zero.
Quotient(a, b) == IF a < 0 THEN -((-a) \div b) ELSE a \div b

CeilDiv(a, b) == Quotient(a + b - 1, b)

(***************************************************************************)
(* The parameters guessed from the size in KiB.  The case 640 has no break *)
(* and takes the values of 360.                                            *)
(***************************************************************************)
Guess(sector, perCluster, root) ==
    [SectorSize |-> sector, SectorsPerCluster |-> perCluster,
     RootDirEntries |-> root]

Guessed(size) ==
    CASE size = 2880             -> Guess(512, 2, 512)
      [] size \in {1440, 1200}   -> Guess(512, 1, 224)
      [] size = 1232             -> Guess(1024, 1, 224)
      [] size \in {720, 640, 360} -> Guess(512, 2, 112)
      [] size = 320              -> Guess(2048, 1, 48)
      [] size = 180              -> Guess(512, 1, 48)
      [] size = 160              -> Guess(512, 1, 16)
      [] OTHER                   -> Guess(512, 4, 512)

Given(option, default) == IF option = 0 THEN default ELSE option

VolumeSize(a) == Given(a.size, 1440)

\* (Variant with a fault: the sectors are counted before the sector size of
\* the command line replaces the guessed one.)
LogicalSectorsGuessed(a, sector) ==
    ((VolumeSize(a) * 1024) \div Guessed(VolumeSize(a)).SectorSize) % 65536

\* LogicalSectors has 16 bits; LargeSectors takes the truncated value.
LogicalSectors(a, sector) == ((VolumeSize(a) * 1024) \div sector) % 65536

Adjusted(a) ==
    LET guess == Guessed(VolumeSize(a))
        sector == Given(a.sectorSize, guess.SectorSize)
    IN  [SectorSize        |-> sector,
         SectorsPerCluster |-> Given(a.sectorsPerCluster,
                                     guess.SectorsPerCluster),
         ReservedForBoot   |-> Given(a.reserved, 1),
         NumberOfFats      |-> Given(a.fats, 2),
         RootDirEntries    |-> Given(a.rootEntries, guess.RootDirEntries),
         LogicalSectors    |-> LogicalSectors(a, sector)]

RootSectors(b) == CeilDiv(b.RootDirEntries * 32, b.SectorSize)

\* clusters_with_fat.  A negative value stands for an unsigned one whose
\* product with 1.5 is beyond the range of int.
ClustersWithFat(b) ==
    CeilDiv(b.LogicalSectors - RootSectors(b) - b.ReservedForBoot,
            b.SectorsPerCluster) + 2

\* 1.5 * clusters_with_fat, converted to int.
TableBytes(b) ==
    IF ClustersWithFat(b) < 0 THEN OutOfRange
    ELSE {(3 * ClustersWithFat(b)) \div 2}

\* sector_size * (1.5 * number_of_fats / cluster_size + 1), converted to int.
TableSectorBytes(b) ==
    b.SectorSize + (3 * b.NumberOfFats) \div (2 * b.SectorsPerCluster)

\* (Variant with a fault: the division rounds down.)
SectorsPerFatRoundedDown(b) ==
    {Quotient(n, TableSectorBytes(b)) % 65536 : n \in TableBytes(b)}

SectorsPerFat(b) ==
    {CeilDiv(n, TableSectorBytes(b)) % 65536 : n \in TableBytes(b)}

InitializedBpbs(a) ==
    LET b == Adjusted(a)
    IN  {[SectorSize        |-> b.SectorSize,
          SectorsPerCluster |-> b.SectorsPerCluster,
          ReservedForBoot   |-> b.ReservedForBoot,
          NumberOfFats      |-> b.NumberOfFats,
          RootDirEntries    |-> b.RootDirEntries,
          LogicalSectors    |-> b.LogicalSectors,
          SectorsPerFat     |-> n] : n \in SectorsPerFat(b)}

(***************************************************************************)
(* Where the parts of the image lie, in bytes.                             *)
(***************************************************************************)
FatSize(b) == b.SectorsPerFat * b.SectorSize

FatOffset(b) == b.SectorSize * b.ReservedForBoot

RootDirOffset(b) ==
    b.SectorSize * (b.NumberOfFats * b.SectorsPerFat + b.ReservedForBoot)

RootDirSize(b) == 32 * b.RootDirEntries

\* (Variant with a fault: the root directory is not skipped.)
ClusterOffsetInRoot(b, cluster) ==
    (cluster - 2) * b.SectorsPerCluster * b.SectorSize + RootDirOffset(b)

\* _lf12_cluster_offset: the root directory is counted in whole sectors,
\* rounded down.
ClusterOffset(b, cluster) ==
    ((cluster - 2) * b.SectorsPerCluster
        + (b.RootDirEntries * 32) \div b.SectorSize) * b.SectorSize
    + RootDirOffset(b)

\* The clusters of the table on the disk: the bounds of the loops of
\* create_fat and read_fat_entries.
TableEntries(b) == b.LogicalSectors \div b.SectorsPerCluster

\* The clusters of the table in memory, fat_entries[0 .. entry_count - 1].
EntryCount(b) == (TableEntries(b) + 2) % 65536

(***************************************************************************)
(* The steps of f12_create.  A write beyond the end extends the image.     *)
(***************************************************************************)
Extended(end) == Max({length, end})

Init ==
    /\ args \in Arguments
    /\ phase = "opened"         \* fopen(device_path, "w") truncates it
    /\ bpb = [SectorSize |-> 0]
    /\ length = 0

InitializeBpb ==
    /\ phase = "opened"
    /\ bpb' \in InitializedBpbs(args)
    /\ phase' = "initialized"
    /\ UNCHANGED <<args, length>>

\* lf12_create_image: LargeSectors sectors of zeros.
FillWithZeros ==
    /\ phase = "initialized"
    /\ length' = bpb.LogicalSectors * bpb.SectorSize
    /\ phase' = "filled"
    /\ UNCHANGED <<args, bpb>>

\* lf12_write_metadata: the parameter block, the tables, the root directory.
WriteBpb ==
    /\ phase = "filled"
    /\ length' = Extended(3 + 59)
    /\ phase' = "described"
    /\ UNCHANGED <<args, bpb>>

WriteFats ==
    /\ phase = "described"
    /\ length' = Extended(FatOffset(bpb) + bpb.NumberOfFats * FatSize(bpb))
    /\ phase' = "tabled"
    /\ UNCHANGED <<args, bpb>>

WriteRootDir ==
    /\ phase = "tabled"
    /\ length' = Extended(RootDirOffset(bpb) + RootDirSize(bpb))
    /\ phase' = "rooted"
    /\ UNCHANGED <<args, bpb>>

\* lf12_install_bootloader: 512 bytes of boot code, then the block again.
InstallBootloader ==
    /\ phase = "rooted"
    /\ length' = Extended(512)
    /\ phase' = "created"
    /\ UNCHANGED <<args, bpb>>

Next ==
    \/ InitializeBpb
    \/ FillWithZeros
    \/ WriteBpb
    \/ WriteFats
    \/ WriteRootDir
    \/ InstallBootloader

Spec == Init /\ [][Next]_vars
=============================================================================
