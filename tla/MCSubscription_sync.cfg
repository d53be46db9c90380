SPECIFICATION Spec
CONSTANTS
    Key = {"sync"}
    Worker = {w1}
    General = {g1, g2}
    Event = {}
    KeyType <- MCKeyType
    Home <- MCHome
    Request <- MCRequest
    QueueSize = 0
    MinSubInterval = 2
    MaxSubDuration = 1
    SptpInterval = 5
    MaxRequests = 2
    MaxCancels = 2
    MaxCtx = 2
    None = None
SYMMETRY Symmetry
CHECK_DEADLOCK FALSE
INVARIANTS
    TypeOK
    NoSurvivor
    RunningHasGoroutine
    NoSilentEnd
    OnlyStopWaits
