CONSTANTS
    ClusterCount = 6
    EndOfChain = 99
    NumberOfFats = 2
    RootSlots = 2
    SlotsPerCluster = 4
    DirClusters = 1
    NewDirSlots = 3
    ChainLimit = 3
    a = a
    b = b
    Names = {a, b}
    NoName = NoName
    Dot = Dot
    DotDot = DotDot
    Commands <- MoveCommands
SPECIFICATION Spec
PROPERTIES ImplementsFileTree MoveDownLosesNothing
