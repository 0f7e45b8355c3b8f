CONSTANTS
    OutOfRange <- IntMin
    Arguments <- DefaultArguments
SPECIFICATION Spec
INVARIANT RootDirectoryFillsSectors
CHECK_DEADLOCK FALSE
