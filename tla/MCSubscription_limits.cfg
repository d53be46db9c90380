SPECIFICATION Spec
CONSTANTS
    Key = {"sync"}
    Worker = {w1}
    General = {g1}
    Event = {}
    KeyType <- MCKeyType
    Home <- MCHome
    Request <- MCRequest
    QueueSize = 0
    MinSubInterval = 2
    MaxSubDuration = 1
    SptpInterval = 5
    MaxRequests = 2
    MaxCancels = 0
    MaxCtx = 1
    None = None
INVARIANT LimitsEnforced
