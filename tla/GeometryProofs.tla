--------------------------- MODULE GeometryProofs ---------------------------
(***************************************************************************)
(* The layout that f12 create makes, for every command line that main.c    *)
(* accepts.                                                                *)
(***************************************************************************)
EXTENDS GeometryProperties, TLAPS

\* The parameters that the options and the guesses of create lead to.
Parameters ==
    [SectorSize : {512, 1024, 2048, 4096},
     SectorsPerCluster : {1, 2, 4, 8, 16, 32, 64, 128},
     ReservedForBoot : Nat \ {0},
     NumberOfFats : {1, 2},
     RootDirEntries : {16, 48, 64, 112, 224, 512},
     LogicalSectors : {n \in Nat : n < 65536}]

LEMMA AdjustedType ==
    ASSUME NEW a \in CommandLine
    PROVE  Adjusted(a) \in Parameters
<1> DEFINE g == Guessed(VolumeSize(a))
           s == Given(a.sectorSize, g.SectorSize)
<1>1. /\ a.size \in Nat
      /\ a.sectorSize \in {0, 512, 1024, 2048, 4096}
      /\ a.sectorsPerCluster \in {0, 1, 2, 4, 8, 16, 32, 64, 128}
      /\ a.reserved \in Nat
      /\ a.fats \in 0 .. 2
      /\ a.rootEntries \in {0, 64, 112, 224, 512}
  <2>1. MaxVolumeSize \in Nat /\ MaxReserved \in Nat
    BY DEF MaxVolumeSize, MaxReserved
  <2> QED
    BY <2>1 DEF CommandLine
<1>2. VolumeSize(a) \in Nat
  BY <1>1 DEF VolumeSize, Given
<1>3. /\ g.SectorSize \in {512, 1024, 2048}
      /\ g.SectorsPerCluster \in {1, 2, 4}
      /\ g.RootDirEntries \in {16, 48, 112, 224, 512}
  BY DEF Guessed, Guess
<1> HIDE DEF g
<1>4. s \in {512, 1024, 2048, 4096}
  BY <1>1, <1>3 DEF Given
<1> HIDE DEF s
<1>5. LogicalSectors(a, s) \in Nat /\ LogicalSectors(a, s) < 65536
  <2> DEFINE n == (VolumeSize(a) * 1024) \div s
  <2>1. n \in Int
    BY <1>2, <1>4
  <2> HIDE DEF n
  <2>2. n % 65536 \in Nat /\ n % 65536 < 65536
    BY <2>1
  <2> QED
    BY <2>2 DEF LogicalSectors, n
<1>6. Given(a.sectorsPerCluster, g.SectorsPerCluster) \in {1, 2, 4, 8, 16, 32, 64, 128}
  BY <1>1, <1>3 DEF Given
<1>7. /\ Given(a.reserved, 1) \in Nat \ {0}
      /\ Given(a.fats, 2) \in {1, 2}
      /\ Given(a.rootEntries, g.RootDirEntries) \in {16, 48, 64, 112, 224, 512}
  BY <1>1, <1>3 DEF Given
<1> QED
  BY <1>4, <1>5, <1>6, <1>7 DEF Adjusted, Parameters, g, s

\* A number has one quotient.
LEMMA QuotientUnique ==
    ASSUME NEW x \in Nat, NEW b \in Nat \ {0}, NEW q \in Nat, NEW r \in Nat,
           b * q <= x, x < b * q + b, b * r <= x, x < b * r + b
    PROVE  q = r
<1>1. ASSUME NEW m \in Nat, NEW n \in Nat, b * m <= x, x < b * n + b
      PROVE  m <= n
  <2> SUFFICES ASSUME n + 1 <= m PROVE FALSE
    OBVIOUS
  <2>1. b * (n + 1) = b * n + b
    OBVIOUS
  <2>2. b * (n + 1) <= b * m
    OBVIOUS
  <2>3. b * m \in Nat /\ b * n \in Nat
    OBVIOUS
  <2> QED
    BY <1>1, <2>1, <2>2, <2>3
<1> QED
  BY <1>1

LEMMA CeilDivFacts ==
    ASSUME NEW a \in Nat, NEW b \in Nat \ {0}
    PROVE  LET q == CeilDiv(a, b)
           IN  /\ q \in Nat
               /\ b * q >= a
               /\ b * q < a + b
               /\ a % b = 0 <=> b * q = a
<1> DEFINE q == CeilDiv(a, b)
           r == a \div b
<1>1. q = (a + b - 1) \div b /\ a + b - 1 \in Nat
  BY DEF CeilDiv, Quotient
<1>2. q \in Nat /\ b * q <= a + b - 1 /\ a + b - 1 < b * q + b
  BY <1>1
<1>3. /\ r \in Nat /\ b * r <= a /\ a < b * r + b
      /\ (a % b) = a - b * r
  OBVIOUS
<1> HIDE DEF q, r
<1>4. b * q \in Nat /\ b * q >= a /\ b * q < a + b /\ b * r \in Nat
  BY <1>2, <1>3
<1>5. a % b = 0 => b * q = a
  <2> SUFFICES ASSUME b * r = a PROVE b * q = a
    BY <1>3, <1>4
  <2>1. q = r
    BY <1>1, <1>2, <1>3, <1>4, QuotientUnique
  <2> QED
    BY <2>1
<1>6. b * q = a => a % b = 0
  <2> SUFFICES ASSUME b * q = a PROVE a = b * r
    BY <1>3, <1>4
  <2>1. q = r
    BY <1>2, <1>3, <1>4, QuotientUnique
  <2> QED
    BY <2>1
<1> QED
  BY <1>2, <1>4, <1>5, <1>6 DEF q

\* The equations that define the sectors of a table.
LEMMA BpbFacts ==
    ASSUME NEW a \in CommandLine, NEW b \in InitializedBpbs(a)
    PROVE  /\ b.SectorSize \in {512, 1024, 2048, 4096}
           /\ b.SectorsPerCluster \in {1, 2, 4, 8, 16, 32, 64, 128}
           /\ b.ReservedForBoot \in Nat \ {0}
           /\ b.NumberOfFats \in {1, 2}
           /\ b.RootDirEntries \in Nat \ {0}
           /\ b.LogicalSectors \in Nat /\ b.LogicalSectors < 65536
           /\ b.SectorsPerFat \in SectorsPerFat(b)
<1> DEFINE p == Adjusted(a)
<1>1. p \in Parameters
  BY AdjustedType
<1>2. /\ b.SectorSize = p.SectorSize
      /\ b.SectorsPerCluster = p.SectorsPerCluster
      /\ b.ReservedForBoot = p.ReservedForBoot
      /\ b.NumberOfFats = p.NumberOfFats
      /\ b.RootDirEntries = p.RootDirEntries
      /\ b.LogicalSectors = p.LogicalSectors
      /\ b.SectorsPerFat \in SectorsPerFat(p)
  BY DEF InitializedBpbs
<1> HIDE DEF p
<1>3. SectorsPerFat(b) = SectorsPerFat(p)
  BY <1>2 DEF SectorsPerFat, TableBytes, TableSectorBytes, ClustersWithFat, RootSectors
<1> QED
  BY <1>1, <1>2, <1>3 DEF Parameters
LEMMA CeilDivInt ==
    ASSUME NEW a \in Int, NEW b \in Nat \ {0}
    PROVE  CeilDiv(a, b) \in Int
<1>1. a + b - 1 \in Int /\ -(a + b - 1) \in Int
  OBVIOUS
<1>2. (a + b - 1) \div b \in Int /\ (-(a + b - 1)) \div b \in Int
  BY <1>1
<1> QED
  BY <1>2 DEF CeilDiv, Quotient

LEMMA RootSectorsFacts ==
    ASSUME NEW a \in CommandLine, NEW b \in InitializedBpbs(a)
    PROVE  RootSectors(b) \in Nat
<1>1. b.RootDirEntries * 32 \in Nat /\ b.SectorSize \in Nat \ {0}
  BY BpbFacts
<1> QED
  BY <1>1, CeilDivFacts DEF RootSectors

LEMMA SectorsPerFatType ==
    ASSUME NEW a \in CommandLine, NEW b \in InitializedBpbs(a)
    PROVE  b.SectorsPerFat \in Nat /\ ClustersWithFat(b) \in Int
<1> DEFINE S == b.SectorSize
           c == b.SectorsPerCluster
           F == b.NumberOfFats
           n == b.SectorsPerFat
           N == ClustersWithFat(b)
           K == TableSectorBytes(b)
           T == b.LogicalSectors - RootSectors(b) - b.ReservedForBoot
<1>1. /\ S \in Nat \ {0}
      /\ c \in {1, 2, 4, 8, 16, 32, 64, 128}
      /\ b.ReservedForBoot \in Nat
      /\ F \in {1, 2}
      /\ b.LogicalSectors \in Nat
      /\ n \in SectorsPerFat(b)
      /\ RootSectors(b) \in Nat
  BY BpbFacts, RootSectorsFacts
<1>3. T \in Int
  BY <1>1
<1>4. K \in Nat \ {0}
  <2>1. (3 * F) \div (2 * c) \in Nat
    BY <1>1
  <2> QED
    BY <1>1, <2>1 DEF TableSectorBytes
<1>5. N = CeilDiv(T, c) + 2 /\ N \in Int
  <2>1. N = CeilDiv(T, c) + 2
    BY DEF ClustersWithFat
  <2> HIDE DEF T
  <2>2. CeilDiv(T, c) \in Int
    <3>1. c \in Nat \ {0}
      BY <1>1
    <3> HIDE DEF c
    <3> QED
      BY <1>3, <3>1, CeilDivInt
  <2> QED
    BY <2>1, <2>2
<1>6. \A x \in TableBytes(b) : CeilDiv(x, K) \in Int
  <2>1. (3 * N) \div 2 \in Int
    BY <1>5
  <2>2. \A x \in TableBytes(b) : x \in Int
    BY <2>1, OutOfRangeAssumption DEF TableBytes
  <2> QED
    BY <1>4, <2>2, CeilDivInt
<1> HIDE DEF K, T, N
<1>7. n \in Nat
  <2>1. PICK x \in TableBytes(b) : n = CeilDiv(x, K) % 65536
    BY <1>1 DEF SectorsPerFat, K
  <2>2. CeilDiv(x, K) \in Int
    BY <1>6
  <2> QED
    BY <2>1, <2>2
<1> QED
  BY <1>5, <1>7 DEF N

\* A table has so many sectors, and takes up the sectors of its bytes and of what
\* its copies take away from the data area.
LEMMA TableFacts ==
    ASSUME NEW a \in CommandLine, NEW b \in InitializedBpbs(a),
           MetaSectors(b) < b.LogicalSectors
    PROVE  LET n == b.SectorsPerFat
               N == ClustersWithFat(b)
               K == TableSectorBytes(b)
               T == b.LogicalSectors - RootSectors(b) - b.ReservedForBoot
           IN  /\ n \in Nat /\ N \in Nat /\ T \in Nat /\ K \in Nat \ {0}
               /\ b.NumberOfFats * n < T
               /\ b.SectorsPerCluster * (N - 2) >= T
               /\ b.SectorsPerCluster * (N - 2) < T + b.SectorsPerCluster
               /\ K * n >= (3 * N) \div 2
               /\ K * n = (3 * N) \div 2 <=> ((3 * N) \div 2) % K = 0
<1> DEFINE S == b.SectorSize
           c == b.SectorsPerCluster
           F == b.NumberOfFats
           n == b.SectorsPerFat
           N == ClustersWithFat(b)
           K == TableSectorBytes(b)
           T == b.LogicalSectors - RootSectors(b) - b.ReservedForBoot
           X == (3 * N) \div 2
<1>1. /\ S \in {512, 1024, 2048, 4096}
      /\ c \in {1, 2, 4, 8, 16, 32, 64, 128}
      /\ b.ReservedForBoot \in Nat \ {0}
      /\ F \in {1, 2}
      /\ b.RootDirEntries \in Nat \ {0}
      /\ b.LogicalSectors \in Nat /\ b.LogicalSectors < 65536
      /\ n \in SectorsPerFat(b)
  BY BpbFacts
<1>2. RootSectors(b) \in Nat
  BY RootSectorsFacts
<1>3. T \in Int /\ T < 65536
  BY <1>1, <1>2
<1>4. K \in Nat /\ K >= 512
  <2>1. (3 * F) \div (2 * c) \in Nat
    BY <1>1
  <2> QED
    BY <1>1, <2>1 DEF TableSectorBytes
<1>5. n \in Nat /\ N = CeilDiv(T, c) + 2 /\ N \in Int
  BY SectorsPerFatType DEF ClustersWithFat
<1> HIDE DEF K, T, N
<1>8. F * n < T
  BY <1>1, <1>2, <1>5 DEF MetaSectors, T
<1>9. T \in Nat /\ c \in Nat \ {0}
  BY <1>1, <1>3, <1>5, <1>8
<1>10. N \in Nat /\ c * (N - 2) >= T /\ c * (N - 2) < T + c
  <2> DEFINE q == CeilDiv(T, c)
  <2>1. q \in Nat /\ c * q >= T /\ c * q < T + c
    BY <1>9, CeilDivFacts
  <2> HIDE DEF q
  <2>2. N - 2 = q
    BY <1>5, <2>1 DEF q
  <2> QED
    BY <1>5, <2>1, <2>2
<1>11. N < 65538
  BY <1>1, <1>3, <1>9, <1>10
<1> HIDE DEF X
<1>12. X \in Nat /\ X < 98308
  BY <1>10, <1>11 DEF X
<1>13. TableBytes(b) = {X}
  BY <1>10 DEF TableBytes, X, N
<1> DEFINE q == CeilDiv(X, K)
<1>14. q \in Nat /\ K * q >= X /\ K * q < X + K /\ (X % K = 0 <=> K * q = X)
  BY <1>4, <1>12, CeilDivFacts
<1>15. n = q % 65536
  BY <1>1, <1>13 DEF SectorsPerFat, K
<1> HIDE DEF q
<1>16. q < 65536
  <2> SUFFICES ASSUME q >= 1000 PROVE FALSE
    BY <1>14
  <2>1. K * (q - 1) = K * q - K
    BY <1>4, <1>14
  <2>2. K * (q - 1) >= 512 * (q - 1)
    <3> DEFINE m == q - 1
    <3>1. m \in Nat
      BY <1>14
    <3> HIDE DEF m
    <3>2. K * m >= 512 * m
      BY <1>4, <3>1
    <3> QED
      BY <3>2 DEF m
  <2>3. K * q \in Nat
    BY <1>4, <1>14
  <2> QED
    BY <1>4, <1>12, <1>14, <2>1, <2>2, <2>3
<1>17. n = q
  BY <1>14, <1>15, <1>16
<1> QED
  BY <1>4, <1>5, <1>8, <1>9, <1>10, <1>14, <1>17 DEF X, K, N, T
LEMMA TableCoversData ==
    ASSUME NEW a \in CommandLine, NEW b \in InitializedBpbs(a),
           MetaSectors(b) < b.LogicalSectors
    PROVE  IF LastEntryCut(b)
           THEN 3 * (DataClusters(b) + 2) = 2 * FatSize(b) + 1
           ELSE 3 * (DataClusters(b) + 2) <= 2 * FatSize(b)
<1> DEFINE S == b.SectorSize
           c == b.SectorsPerCluster
           F == b.NumberOfFats
           n == b.SectorsPerFat
           N == ClustersWithFat(b)
           K == TableSectorBytes(b)
           T == b.LogicalSectors - RootSectors(b) - b.ReservedForBoot
           X == (3 * N) \div 2
           D == DataClusters(b)
           t == (3 * F) \div (2 * c)
           P == n * S
<1>1. /\ S \in {512, 1024, 2048, 4096}
      /\ c \in {1, 2, 4, 8, 16, 32, 64, 128}
      /\ F \in {1, 2}
  BY BpbFacts
<1>2. /\ n \in Nat /\ N \in Nat /\ T \in Nat /\ K \in Nat \ {0}
      /\ F * n < T
      /\ c * (N - 2) >= T
      /\ c * (N - 2) < T + c
      /\ K * n >= X
      /\ K * n = X <=> X % K = 0
  BY TableFacts
<1>3. T - F * n = b.LogicalSectors - MetaSectors(b)
  <2>1. /\ b.LogicalSectors \in Nat /\ b.ReservedForBoot \in Nat
        /\ RootSectors(b) \in Nat
    BY BpbFacts, RootSectorsFacts
  <2> QED
    BY <1>1, <1>2, <2>1 DEF MetaSectors
<1>4. D = (T - F * n) \div c
  BY <1>3 DEF DataClusters
<1>5. K = S + t
  BY DEF TableSectorBytes
<1>6. LastEntryCut(b) <=> F = 2 /\ c = 1 /\ N % 2 = 1 /\ X % K = 0
  BY DEF LastEntryCut
<1>7. FatSize(b) = P
  BY DEF FatSize
<1> HIDE DEF S, c, F, n, N, K, T, D, t, P
<1>8. P \in Nat /\ P = n * S
  BY <1>1, <1>2 DEF P
<1>9. 2 * X = IF N % 2 = 1 THEN 3 * N - 1 ELSE 3 * N
  BY <1>2 DEF X
<1> HIDE DEF X
<1>10. X \in Nat
  BY <1>2 DEF X
<1>11. D \in Nat /\ c * D <= T - F * n /\ T - F * n < c * D + c
  BY <1>1, <1>2, <1>4
<1>12. t = IF c = 1 THEN IF F = 2 THEN 3 ELSE 1 ELSE IF c = 2 /\ F = 2 THEN 1 ELSE 0
  BY <1>1 DEF t
<1>13. K * n = P + t * n
  BY <1>1, <1>2, <1>5, <1>8, <1>12
<1>14. n # 0
  <2> SUFFICES ASSUME n = 0 PROVE FALSE
    OBVIOUS
  <2>1. N >= 3
    BY <1>1, <1>2
  <2> QED
    BY <1>2, <1>9, <1>10, <2>1
<1>15. CASE c = 1 /\ F = 2
  <2>1. D = T - 2 * n /\ N - 2 = T
    BY <1>2, <1>11, <1>15
  <2>2. P + 3 * n >= X /\ (P + 3 * n = X <=> X % K = 0)
    BY <1>2, <1>12, <1>13, <1>15
  <2>3. CASE LastEntryCut(b)
    BY <1>2, <1>6, <1>7, <1>8, <1>9, <1>10, <2>1, <2>2, <2>3 DEF D
  <2>4. CASE ~ LastEntryCut(b)
    <3>1. N % 2 = 1 => P + 3 * n > X
      BY <1>2, <1>6, <1>8, <1>10, <1>15, <2>2, <2>4
    <3>2. 2 * P + 6 * n >= 3 * N
      BY <1>2, <1>8, <1>9, <1>10, <2>2, <3>1
    <3> QED
      BY <1>2, <1>7, <1>8, <2>1, <2>4, <3>2 DEF D
  <2> QED
    BY <2>3, <2>4
<1>16. CASE ~ (c = 1 /\ F = 2)
  <2>1. ~ LastEntryCut(b)
    BY <1>6, <1>16
  <2>2. 2 * P + 2 * (t * n) >= 3 * N - 1
    BY <1>2, <1>8, <1>9, <1>10, <1>12, <1>13
  <2>3. c * (D + 2) + F * n <= c * N
    BY <1>1, <1>2, <1>11
  <2>4. 3 * (D + 2) <= 2 * P
    <3>1. CASE c = 1 /\ F = 1
      BY <1>2, <1>8, <1>11, <1>12, <1>14, <2>2, <2>3, <3>1
    <3>2. CASE c = 2 /\ F = 2
      BY <1>2, <1>8, <1>11, <1>12, <1>14, <2>2, <2>3, <3>2
    <3>3. CASE ~ (c = 1 /\ F = 1) /\ ~ (c = 2 /\ F = 2)
      <4>1. 2 * P >= 3 * N - 1
        BY <1>1, <1>2, <1>8, <1>12, <1>16, <2>2, <3>3
      <4>2. F * n >= 1
        BY <1>1, <1>2, <1>14
      <4>3. D + 2 < N
        BY <1>1, <1>2, <1>11, <2>3, <4>2
      <4> QED
        BY <1>2, <1>8, <1>11, <4>1, <4>3
    <3> QED
      BY <3>1, <3>2, <3>3
  <2> QED
    BY <1>7, <2>1, <2>4 DEF D
<1> QED
  BY <1>15, <1>16
-----------------------------------------------------------------------------
Layout ==
    /\ args \in Arguments
    /\ phase \in {"opened", "initialized", "filled", "described", "tabled", "rooted",
                  "created"}
    /\ Initialized => bpb \in InitializedBpbs(args)

LEMMA LayoutInvariant == Spec => []Layout
<1>1. Init => Layout
  BY DEF Init, Layout, Initialized
<1>2. Layout /\ [Next]_vars => Layout'
  <2> SUFFICES ASSUME Layout, [Next]_vars PROVE Layout'
    OBVIOUS
  <2>1. CASE InitializeBpb
    BY <2>1 DEF InitializeBpb, Layout, Initialized
  <2>2. CASE FillWithZeros
    BY <2>2 DEF FillWithZeros, Layout, Initialized
  <2>3. CASE WriteBpb
    BY <2>3 DEF WriteBpb, Layout, Initialized
  <2>4. CASE WriteFats
    BY <2>4 DEF WriteFats, Layout, Initialized
  <2>5. CASE WriteRootDir
    BY <2>5 DEF WriteRootDir, Layout, Initialized
  <2>6. CASE InstallBootloader
    BY <2>6 DEF InstallBootloader, Layout, Initialized
  <2>7. CASE UNCHANGED vars
    BY <2>7 DEF vars, Layout, Initialized
  <2> QED
    BY <2>1, <2>2, <2>3, <2>4, <2>5, <2>6, <2>7 DEF Next
<1> QED
  BY <1>1, <1>2, PTL DEF Spec

\* The table that _f12_sectors_per_fat computes has room for every cluster of the
\* data area, for every command line, but for half a byte in the case named by
\* LastEntryCut.
THEOREM TablesCoverData == Spec => []DataClustersHaveEntries
<1>1. Layout => DataClustersHaveEntries
  BY ArgumentsAssumption, TableCoversData DEF Layout, DataClustersHaveEntries
<1> QED
  BY <1>1, LayoutInvariant, PTL

\* If the root directory fills its sectors, a cluster lies at its place behind
\* the metadata, counted in whole sectors.
LEMMA OffsetInSectors ==
    ASSUME NEW a \in CommandLine, NEW b \in InitializedBpbs(a),
           RootDirSize(b) % b.SectorSize = 0, NEW k \in Int
    PROVE  /\ MetaSectors(b) \in Int
           /\ ClusterOffset(b, k + 2)
                = b.SectorSize * (k * b.SectorsPerCluster + MetaSectors(b))
           /\ RootDirOffset(b) + RootDirSize(b) = b.SectorSize * MetaSectors(b)
<1> DEFINE s == b.SectorSize
           c == b.SectorsPerCluster
           x == RootDirSize(b)
           n == b.NumberOfFats * b.SectorsPerFat + b.ReservedForBoot
           y == x \div s
<1>1. /\ s \in {512, 1024, 2048, 4096}
      /\ c \in {1, 2, 4, 8, 16, 32, 64, 128}
      /\ b.RootDirEntries \in Nat
      /\ b.ReservedForBoot \in Nat
      /\ b.NumberOfFats \in {1, 2}
      /\ b.SectorsPerFat \in Nat
  BY BpbFacts, SectorsPerFatType
<1>2. x \in Nat /\ x = b.RootDirEntries * 32
  BY <1>1 DEF RootDirSize
<1>3. n \in Int
  BY <1>1
<1>4. RootDirOffset(b) = s * n
  BY DEF RootDirOffset
<1>5. ClusterOffset(b, k + 2) = ((k + 2 - 2) * c + y) * s + s * n
  BY <1>2, <1>4 DEF ClusterOffset
<1>6. RootSectors(b) = CeilDiv(x, s)
  BY <1>2 DEF RootSectors
<1>7. MetaSectors(b) = n + RootSectors(b)
  BY <1>1, RootSectorsFacts DEF MetaSectors
<1>8. x % s = 0
  OBVIOUS
<1> HIDE DEF s, c, x, n
<1>9. y \in Nat /\ s * y = x
  BY <1>1, <1>2, <1>8
<1>10. CeilDiv(x, s) = y
  <2> DEFINE q == CeilDiv(x, s)
  <2>1. q \in Nat /\ s * q = x
    <3>1. s \in Nat \ {0} /\ x \in Nat /\ x % s = 0
      BY <1>1, <1>2, <1>8
    <3> QED
      BY <3>1, CeilDivFacts
  <2> HIDE DEF q, y
  <2>2. q = y
    BY <1>1, <1>9, <2>1
  <2> QED
    BY <2>2 DEF q
<1> HIDE DEF y
<1>11. MetaSectors(b) = n + y
  BY <1>6, <1>7, <1>10
<1>12. k * c \in Int
  BY <1>1
<1> DEFINE d == k * c
<1>13. ClusterOffset(b, k + 2) = (d + y) * s + s * n
  <2>1. k + 2 - 2 = k
    OBVIOUS
  <2> QED
    BY <1>5, <2>1
<1> HIDE DEF d
<1>14. d \in Int
  BY <1>12 DEF d
<1>15. (d + y) * s + s * n = s * (d + (n + y))
  BY <1>1, <1>3, <1>9, <1>14
<1>16. s * n + x = s * (n + y)
  BY <1>1, <1>3, <1>9
<1> QED
  BY <1>3, <1>4, <1>9, <1>11, <1>13, <1>15, <1>16 DEF s, c, d, x

\* The clusters that the data area was sized for are those between the root
\* directory and the end of the image, for every command line with which the
\* root directory fills its sectors.
THEOREM ClustersFillImage == Spec => []ClustersFillDataArea
<1>1. Layout => ClustersFillDataArea
  <2> DEFINE s == bpb.SectorSize
             c == bpb.SectorsPerCluster
             L == bpb.LogicalSectors
             M == MetaSectors(bpb)
             D == DataClusters(bpb)
  <2> SUFFICES ASSUME Layout, Initialized, M < L, RootDirSize(bpb) % s = 0
               PROVE  /\ ClusterOffset(bpb, 2) >= RootDirOffset(bpb) + RootDirSize(bpb)
                      /\ ClusterOffset(bpb, D + 2) <= L * s
                      /\ ClusterOffset(bpb, D + 2 + 1) > L * s
    BY DEF ClustersFillDataArea
  <2>1. args \in CommandLine /\ bpb \in InitializedBpbs(args)
    BY ArgumentsAssumption DEF Layout
  <2>2. /\ s \in {512, 1024, 2048, 4096}
        /\ c \in {1, 2, 4, 8, 16, 32, 64, 128}
        /\ L \in Nat
    BY <2>1, BpbFacts
  <2>3. /\ M \in Int
        /\ RootDirOffset(bpb) + RootDirSize(bpb) = s * M
        /\ \A k \in Int : ClusterOffset(bpb, k + 2) = s * (k * c + M)
    BY <2>1, OffsetInSectors
  <2>4. D = (L - M) \div c
    BY DEF DataClusters
  <2> HIDE DEF s, c, L, M, D
  <2>5. D \in Nat /\ D * c <= L - M /\ L - M < D * c + c
    BY <2>2, <2>3, <2>4
  <2>6. ClusterOffset(bpb, 2) = s * M
    <3>1. 0 * c + M = M /\ 0 + 2 = 2
      BY <2>2, <2>3
    <3>2. ClusterOffset(bpb, 0 + 2) = s * (0 * c + M)
      BY <2>3
    <3> QED
      BY <3>1, <3>2
  <2>7. ClusterOffset(bpb, D + 2) <= L * s
    <3> DEFINE u == D * c + M
    <3>1. ClusterOffset(bpb, D + 2) = s * u
      BY <2>3, <2>5
    <3>2. u \in Int /\ u <= L
      BY <2>2, <2>3, <2>5
    <3> HIDE DEF u
    <3> QED
      BY <2>2, <3>1, <3>2
  <2>8. ClusterOffset(bpb, D + 2 + 1) > L * s
    <3> DEFINE u == (D + 1) * c + M
    <3>1. ClusterOffset(bpb, (D + 1) + 2) = s * u
      BY <2>3, <2>5
    <3>2. u \in Int /\ u > L
      BY <2>2, <2>3, <2>5
    <3>3. (D + 1) + 2 = D + 2 + 1
      BY <2>5
    <3> HIDE DEF u
    <3> QED
      BY <2>2, <3>1, <3>2, <3>3
  <2>9. s * M \in Int
    BY <2>2, <2>3
  <2> QED
    BY <2>3, <2>6, <2>7, <2>8, <2>9
<1> QED
  BY <1>1, LayoutInvariant, PTL
\* The size the user asked for is a number of sectors that 16 bits can count, and
\* the metadata fits.
CanHaveSize(a) ==
    /\ (VolumeSize(a) * 1024) % Adjusted(a).SectorSize = 0
    /\ (VolumeSize(a) * 1024) \div Adjusted(a).SectorSize < 65536
    /\ \A b \in InitializedBpbs(a) :
        RootDirOffset(b) + RootDirSize(b) <= b.LogicalSectors * b.SectorSize

\* Once it is filled with zeros the image keeps its length.
LengthKept ==
    phase \notin {"opened", "initialized"} => length = bpb.LogicalSectors * bpb.SectorSize

LEMMA NotExtended ==
    ASSUME NEW end \in Nat, length \in Nat, end <= length
    PROVE  Extended(end) = length
<1>1. \A x \in {length, end} : (\A y \in {length, end} : x >= y) => x = length
  OBVIOUS
<1>2. \A y \in {length, end} : length >= y
  OBVIOUS
<1> QED
  BY <1>1, <1>2 DEF Extended, Max

LEMMA SizeOfSectors ==
    ASSUME NEW a \in CommandLine, CanHaveSize(a), NEW b \in InitializedBpbs(a)
    PROVE  b.LogicalSectors * b.SectorSize = VolumeSize(a) * 1024
<1> DEFINE x == VolumeSize(a) * 1024
           s == b.SectorSize
           y == x \div s
<1>1. /\ s \in {512, 1024, 2048, 4096}
      /\ s = Adjusted(a).SectorSize
      /\ b.LogicalSectors = Adjusted(a).LogicalSectors
  BY BpbFacts DEF InitializedBpbs
<1>2. x \in Nat
  <2>1. MaxVolumeSize \in Nat
    BY DEF MaxVolumeSize
  <2>2. a.size \in Nat
    BY <2>1 DEF CommandLine
  <2> QED
    BY <2>2 DEF VolumeSize, Given
<1>3. b.LogicalSectors = y % 65536
  BY <1>1 DEF Adjusted, LogicalSectors
<1>4. x % s = 0 /\ y < 65536
  BY <1>1 DEF CanHaveSize
<1> HIDE DEF x, s
<1>5. y \in Nat /\ x % s = x - s * y
  BY <1>1, <1>2
<1> HIDE DEF y
<1>6. b.LogicalSectors = y
  BY <1>3, <1>4, <1>5
<1>7. y * s = x
  BY <1>1, <1>2, <1>4, <1>5
<1> QED
  BY <1>6, <1>7 DEF x, s

\* No part of the metadata reaches behind the zeros.
LEMMA PartsInside ==
    ASSUME NEW a \in CommandLine, CanHaveSize(a), NEW b \in InitializedBpbs(a)
    PROVE  LET size == b.LogicalSectors * b.SectorSize
           IN  /\ size \in Nat /\ 512 <= size
               /\ FatOffset(b) + b.NumberOfFats * FatSize(b) \in Nat
               /\ FatOffset(b) + b.NumberOfFats * FatSize(b) <= size
               /\ RootDirOffset(b) + RootDirSize(b) \in Nat
               /\ RootDirOffset(b) + RootDirSize(b) <= size
<1> DEFINE s == b.SectorSize
           r == b.ReservedForBoot
           f == b.NumberOfFats
           n == b.SectorsPerFat
           size == b.LogicalSectors * s
<1>1. /\ s \in {512, 1024, 2048, 4096} /\ r \in Nat \ {0} /\ f \in {1, 2} /\ n \in Nat
      /\ b.RootDirEntries \in Nat /\ b.LogicalSectors \in Nat
  BY BpbFacts, SectorsPerFatType
<1>2. RootDirOffset(b) + RootDirSize(b) <= size
  BY DEF CanHaveSize
<1>3. /\ FatOffset(b) = s * r
      /\ FatSize(b) = n * s
      /\ RootDirOffset(b) = s * (f * n + r)
      /\ RootDirSize(b) = 32 * b.RootDirEntries
  BY DEF FatOffset, FatSize, RootDirOffset, RootDirSize
<1> HIDE DEF s, r, f, n
<1>4. FatOffset(b) + f * FatSize(b) = RootDirOffset(b)
  BY <1>1, <1>3
<1>5. RootDirOffset(b) \in Nat /\ RootDirOffset(b) >= 512 /\ RootDirSize(b) \in Nat
  BY <1>1, <1>3
<1>6. size \in Nat
  BY <1>1
<1> QED
  BY <1>2, <1>4, <1>5, <1>6 DEF s, f

\* create makes an image of the size the user asked for, whenever the size is a
\* number of sectors of 16 bits and the metadata fits: none of its writes goes
\* behind the zeros.
THEOREM ImageGetsRequestedSize ==
    ASSUME \A a \in Arguments : CanHaveSize(a)
    PROVE  Spec => []ImageHasRequestedSize
<1>1. Layout /\ Initialized =>
        LET size == bpb.LogicalSectors * bpb.SectorSize
        IN  /\ size = VolumeSize(args) * 1024
            /\ size \in Nat /\ 512 <= size
            /\ FatOffset(bpb) + bpb.NumberOfFats * FatSize(bpb) \in Nat
            /\ FatOffset(bpb) + bpb.NumberOfFats * FatSize(bpb) <= size
            /\ RootDirOffset(bpb) + RootDirSize(bpb) \in Nat
            /\ RootDirOffset(bpb) + RootDirSize(bpb) <= size
  <2> SUFFICES ASSUME Layout, Initialized
               PROVE  LET size == bpb.LogicalSectors * bpb.SectorSize
                      IN  /\ size = VolumeSize(args) * 1024
                          /\ size \in Nat /\ 512 <= size
                          /\ FatOffset(bpb) + bpb.NumberOfFats * FatSize(bpb) \in Nat
                          /\ FatOffset(bpb) + bpb.NumberOfFats * FatSize(bpb) <= size
                          /\ RootDirOffset(bpb) + RootDirSize(bpb) \in Nat
                          /\ RootDirOffset(bpb) + RootDirSize(bpb) <= size
    OBVIOUS
  <2>1. args \in CommandLine /\ CanHaveSize(args) /\ bpb \in InitializedBpbs(args)
    BY ArgumentsAssumption DEF Layout
  <2> QED
    BY <2>1, SizeOfSectors, PartsInside
<1>2. Init => LengthKept
  BY DEF Init, LengthKept
<1>3. Layout /\ LengthKept /\ [Next]_vars => LengthKept'
  <2> SUFFICES ASSUME Layout, LengthKept, [Next]_vars PROVE LengthKept'
    OBVIOUS
  <2>1. CASE InitializeBpb
    BY <2>1 DEF InitializeBpb, LengthKept
  <2>2. CASE FillWithZeros
    BY <2>2 DEF FillWithZeros, LengthKept
  <2>3. CASE WriteBpb
    <3>1. Initialized /\ length = bpb.LogicalSectors * bpb.SectorSize
      BY <2>3 DEF WriteBpb, LengthKept, Initialized
    <3>2. length \in Nat /\ 3 + 59 <= length
      BY <1>1, <3>1
    <3>3. Extended(3 + 59) = length
      BY <3>2, NotExtended
    <3> QED
      BY <2>3, <3>1, <3>3 DEF WriteBpb, LengthKept
  <2>4. CASE WriteFats
    <3> DEFINE end == FatOffset(bpb) + bpb.NumberOfFats * FatSize(bpb)
    <3>1. Initialized /\ length = bpb.LogicalSectors * bpb.SectorSize
      BY <2>4 DEF WriteFats, LengthKept, Initialized
    <3>2. length \in Nat /\ end \in Nat /\ end <= length
      BY <1>1, <3>1
    <3>3. Extended(end) = length
      BY <3>2, NotExtended
    <3> QED
      BY <2>4, <3>1, <3>3 DEF WriteFats, LengthKept
  <2>5. CASE WriteRootDir
    <3> DEFINE end == RootDirOffset(bpb) + RootDirSize(bpb)
    <3>1. Initialized /\ length = bpb.LogicalSectors * bpb.SectorSize
      BY <2>5 DEF WriteRootDir, LengthKept, Initialized
    <3>2. length \in Nat /\ end \in Nat /\ end <= length
      BY <1>1, <3>1
    <3>3. Extended(end) = length
      BY <3>2, NotExtended
    <3> QED
      BY <2>5, <3>1, <3>3 DEF WriteRootDir, LengthKept
  <2>6. CASE InstallBootloader
    <3>1. Initialized /\ length = bpb.LogicalSectors * bpb.SectorSize
      BY <2>6 DEF InstallBootloader, LengthKept, Initialized
    <3>2. length \in Nat /\ 512 <= length
      BY <1>1, <3>1
    <3>3. Extended(512) = length
      BY <3>2, NotExtended
    <3> QED
      BY <2>6, <3>1, <3>3 DEF InstallBootloader, LengthKept
  <2>7. CASE UNCHANGED vars
    BY <2>7 DEF vars, LengthKept
  <2> QED
    BY <2>1, <2>2, <2>3, <2>4, <2>5, <2>6, <2>7 DEF Next
<1>4. Layout /\ LengthKept => ImageHasRequestedSize
  BY <1>1 DEF LengthKept, ImageHasRequestedSize, Initialized
<1> QED
  BY <1>2, <1>3, <1>4, LayoutInvariant, PTL DEF Spec
=============================================================================
