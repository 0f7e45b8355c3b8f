CONSTANTS
    BaseLength = 3
    ExtensionLength = 1
    Chars <- AllChars
    ValidChars <- Valid
    Capital <- Capitals
    MaxLength = 6
    Arguments <- Strings
    Destinations <- DestinationStrings
    Others <- OtherStrings
SPECIFICATION Spec
INVARIANT PathFitsBuffer
CHECK_DEADLOCK FALSE
