SPECIFICATION FairSpec
CONSTANTS
    Key = {"sync"}
    Worker = {w1}
    General = {g1}
    Event = {}
    KeyType <- MCKeyType
    Home <- MCHome
    Request <- MCValidRequest
    QueueSize = 0
    MinSubInterval = 2
    MaxSubDuration = 1
    SptpInterval = 5
    MaxRequests = 2
    MaxCancels = 2
    MaxCtx = 1
    None = None
CHECK_DEADLOCK FALSE
PROPERTY OrphanEnds
