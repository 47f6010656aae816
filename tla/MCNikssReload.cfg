CONSTANTS
    Procs = {p1}
    Ifaces <- MCIfaces
    Driver <- MCDriver
    Objects <- MCObjects
    Numerals <- MCNumerals
    FaultPoints = {"pin"}
    UnloadFirst = FALSE
    MaxOps = 4
SPECIFICATION Spec
INVARIANT DevmapRoutesPorts
