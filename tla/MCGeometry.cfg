CONSTANTS
    OutOfRange <- IntMin
    Arguments <- UsualArguments
SPECIFICATION Spec
INVARIANTS DataClustersHaveEntries ClustersFillDataArea ImageHasRequestedSize
CHECK_DEADLOCK FALSE
