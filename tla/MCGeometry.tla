----------------------------- MODULE MCGeometry -----------------------------
(***************************************************************************)
(* Command lines of f12 create for TLC; an option that is 0 is not given.  *)
(***************************************************************************)
EXTENDS GeometryProperties

IntMin == {-2147483647 - 1}

Sizes(sizes, sectors, fats, roots) ==
    [size : sizes, sectorSize : sectors, sectorsPerCluster : {0},
     reserved : {0}, fats : fats, rootEntries : roots]

Clustered(sizes, perCluster, reserved) ==
    [size : sizes, sectorSize : {0}, sectorsPerCluster : perCluster,
     reserved : reserved, fats : {0, 1}, rootEntries : {0}]

Floppies == {160, 180, 320, 360, 640, 720, 1200, 1232, 1440, 2880}

\* Every size whose metadata fits, up to the largest floppy disk, the floppy
\* disks with other sectors, clusters and reserved sectors.
UsualArguments ==
    Sizes(18 .. 2900, {0}, {0, 1}, {0, 64, 512})
        \union Clustered(18 .. 2900, {1}, {0})
        \union Sizes(Floppies \union {0}, {512, 1024}, {0, 1, 2}, {64, 224, 512})
        \union Clustered(Floppies, {2, 4, 8, 16, 32, 64, 128}, 1 .. 32)

\* No option but the size.
DefaultArguments == Sizes(18 .. 2900, {0}, {0}, {0})
==============================================================================
