SPECIFICATION Spec
CONSTANTS
    Jobs = {j1, j2, j3}
    Keys = {k1, k2}
    MaxConcurrentJobs = 2
    MaxConcurrencyPerKey = 1
    Abortable = {j1, j2, j3}
SYMMETRY Interchangeable
INVARIANTS SlotsExact PermitsExact TerminalTellsFacts
CHECK_DEADLOCK FALSE
