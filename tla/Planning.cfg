SPECIFICATION PlnSpec
CONSTANTS
    Scenarios = {"plan", "develop", "synthetic", "writeback", "other"}
    PlnChain = 2
    MaxPlnDeaths = 1
INVARIANT ContractsReachGates
CHECK_DEADLOCK FALSE
