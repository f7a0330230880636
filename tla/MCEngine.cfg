SPECIFICATION FairSpec
CONSTANTS
    Steps <- MCSteps
    None = "0"
    Inherited = "1"
    BranchValues <- MCValues
    Flows <- MCFlows
    Forks = {}
    NoFork = NoFork
    Traces = {t1}
    Redeliveries = 0
    Admission = {TRUE}
INVARIANTS TypeOK OutstandingExact SettledAndQuiet SubmittedOnce Caused WalkIsClosedForm
PROPERTIES Settles
CHECK_DEADLOCK FALSE
