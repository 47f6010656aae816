SPECIFICATION Spec
CONSTANTS
    TypeGraphs <- MCTypeGraphs
    MapPins <- MCMapPins
    MapNames <- MCMapNames
    RawIds <- MCRawIds
    MaxOps = 4
    FaultPoints = {"map_info"}
INVARIANT
    HandlesReleased
