SPECIFICATION Spec
CONSTANTS
    Jobs = {j1, j2}
    Keys = {k1}
    MaxConcurrentJobs = 2
    MaxConcurrencyPerKey = 1
    Abortable = {}
PROPERTIES TimeoutIsDistinct
CHECK_DEADLOCK FALSE
