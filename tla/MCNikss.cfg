CONSTANTS
    Procs = {p1}
    Ifaces <- MCIfaces
    Driver <- MCDriver
    Objects <- MCCoreObjects
    Numerals <- MCNumerals
    FaultPoints = {"load_obj", "pin", "map_info", "init", "xdp_attach", "map_update", "tc", "detach"}
    MaxOps = 4
    UnloadFirst = TRUE

SPECIFICATION Spec

INVARIANT LoadedPipelineComplete
INVARIANT PortsListed
PROPERTY PortBindingRefined
