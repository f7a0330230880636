SPECIFICATION LiveSpec
CONSTANTS
    Jobs = {j1, j2, j3}
    Keys = {k1}
    MaxConcurrentJobs = 3
    MaxConcurrencyPerKey = 1
    Abortable = {j1}
PROPERTIES PlacesKept FirstSignalWins EveryJobEnds
CHECK_DEADLOCK FALSE
