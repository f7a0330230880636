SPECIFICATION HostSpec
CONSTANTS
    MaxWork = 2
    MaxMishaps = 2
INVARIANTS ProjectedWhileConnected
CHECK_DEADLOCK FALSE
