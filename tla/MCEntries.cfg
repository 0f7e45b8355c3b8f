CONSTANTS
    BaseLength = 3
    ExtensionLength = 1
    Chars <- AllChars
    ValidChars <- Valid
    Capital <- Capitals
    MaxLength = 6
    Arguments <- Strings
    Destinations <- DestinationStrings
    Others <- OtherStrings
    Instants <- AllInstants
    Landmarks <- SomeInstants
    Delays = {0, 1, 1000}
    Zones <- AllZones
SPECIFICATION EntriesSpec
INVARIANTS SplitIsExact ConversionIsStable LengthExactWithoutBlanks PutsWhereToldTo RelationIsPrefix StampNearMoment ReadsBack StampsKeepOrder
CHECK_DEADLOCK FALSE
