SPECIFICATION Spec
CONSTANTS
    Steps <- MCSteps
    None = "0"
    Inherited = "1"
    BranchValues <- MCInherited
    Flows <- MCSamples
    Forks = {}
    NoFork = NoFork
    Traces = {t1}
    Redeliveries = 0
    Admission = {TRUE}
INVARIANTS BranchTakesACase
CHECK_DEADLOCK FALSE
