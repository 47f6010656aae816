SPECIFICATION Spec
CONSTANTS
    TypeGraphs <- MCTypeGraphs
    MapPins <- MCMapPins
    MapNames <- MCMapNames
    RawIds <- MCRawIds
    MaxOps = 4
    FaultPoints = {"btf_fd", "map_info"}
INVARIANTS
    TypeOK
    OpenedIdsCanonical
