CONSTANTS
    ClusterCount = 7
    EndOfChain = 99
    NumberOfFats = 2
    RootSlots = 2
    SlotsPerCluster = 2
    DirClusters = 2
    NewDirSlots = 4
    ChainLimit = 3
    a = a
    b = b
    Names = {a, b}
    NoName = NoName
    Dot = Dot
    DotDot = DotDot
    Commands <- DeleteCommands
SPECIFICATION FairSpec
INVARIANT ContentIntactOrErased
PROPERTIES ImplementsFileTree SoundStaysSound DeletionIsLocal EveryCommandEnds
