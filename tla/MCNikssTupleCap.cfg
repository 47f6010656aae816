CONSTANTS
    Procs = {p1}
    Ifaces <- MCIfaces
    Driver <- MCDriver
    Objects <- TupleCapObjects
    Numerals <- MCNumerals
    FaultPoints = {"tuple_update"}
    UnloadFirst = TRUE
    MaxOps = 4
SPECIFICATION Spec
INVARIANT LoadedPipelineComplete
