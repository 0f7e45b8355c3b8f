CONSTANTS
    Trees <- AllTrees
    Commands <- AllCommands
SPECIFICATION FairSpec
INVARIANTS CopiesInOrder MoveListsOnce  CountsAgree
PROPERTIES WalksEnd
CHECK_DEADLOCK FALSE
