CONSTANTS
    ClusterCount = 5
    EndOfChain = 4095
    ClusterSize = 4
    Width = 16
    Tables <- AllTables
    FileSizes <- AllSizes
    FatSize = 8
    Entries <- EntryValues
SPECIFICATION FatLoopsSpec
INVARIANTS AllocatesFirstFit FullLeavesTable TooLongForWidth LoadedIsFile PackedSoFar LoadedIsSaved
CHECK_DEADLOCK FALSE
