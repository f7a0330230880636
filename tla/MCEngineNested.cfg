SPECIFICATION FairSpec
CONSTANTS
    Steps <- MCSteps
    None = "0"
    Inherited = "1"
    BranchValues <- MCValues
    Flows <- MCNested
    Forks = {}
    NoFork = NoFork
    Traces = {t1}
    Redeliveries = 0
    Admission = {TRUE}
PROPERTIES ParallelCompletes
CHECK_DEADLOCK FALSE
