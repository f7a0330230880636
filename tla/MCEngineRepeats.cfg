SPECIFICATION Spec
CONSTANTS
    Steps <- MCSteps
    None = "0"
    Inherited = "1"
    BranchValues <- MCValues
    Flows <- MCSamples
    Forks <- MCForks
    NoFork = NoFork
    Traces = {t1, t2}
    Redeliveries = 2
    Admission = {TRUE, FALSE}
INVARIANTS OutstandingExact NothingForgotten VerdictOfSteps AnsweredOnce
PROPERTIES Irrevocable
CHECK_DEADLOCK FALSE
