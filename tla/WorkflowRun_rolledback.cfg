\* One run of two writes, one reconnection, and nothing else that fails.
CONSTANTS
    Runs = {r1}
    N = 2
    MaxQueue = 2
    MaxTimeouts = 0
    MaxFaults = 0
    MaxCrashes = 0
    MaxDisconnects = 1
    MaxOthers = 0
    None = None
SPECIFICATION Spec
\* A run ends, and then nothing more may be asked.
CHECK_DEADLOCK FALSE
INVARIANT RolledBackIsUndone
