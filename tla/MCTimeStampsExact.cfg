CONSTANTS
    Instants <- AllInstants
    Landmarks <- SomeInstants
    Delays = {0, 1, 1000}
    Zones <- AllZones
SPECIFICATION StampSpec
INVARIANT ReturnsExactTime
CHECK_DEADLOCK FALSE
