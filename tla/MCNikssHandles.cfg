CONSTANTS
    Procs = {p1}
    Ifaces <- MCIfaces
    Driver <- MCDriver
    Objects <- TernaryObjects
    Numerals <- MCNumerals
    FaultPoints = {}
    UnloadFirst = TRUE
    MaxOps = 4
SPECIFICATION Spec
INVARIANT HandlesReleased
