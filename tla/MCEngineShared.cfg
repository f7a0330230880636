SPECIFICATION Spec
CONSTANTS
    Steps <- MCSteps
    None = "0"
    Inherited = "1"
    BranchValues <- MCValues
    Flows <- MCShared
    Forks = {}
    NoFork = NoFork
    Traces = {t1}
    Redeliveries = 0
    Admission = {TRUE}
INVARIANTS OneTerminalPerStep
CHECK_DEADLOCK FALSE
