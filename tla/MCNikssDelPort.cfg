CONSTANTS
    Procs = {p1}
    Ifaces <- MCIfaces
    Driver <- MCDriverRefuses
    Objects <- XdpObjects
    Numerals <- MCNumerals
    FaultPoints = {}
    UnloadFirst = TRUE
    MaxOps = 4
SPECIFICATION Spec
INVARIANT DelPortDetaches
