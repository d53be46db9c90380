SPECIFICATION FairSpec
CONSTANTS
    Key = {"resp", "sptp"}
    Worker = {w1}
    General = {g1}
    Event = {e1}
    KeyType <- MCKeyType
    Home <- MCHome
    Request <- MCValidRequest
    QueueSize = 0
    MinSubInterval = 2
    MaxSubDuration = 1
    SptpInterval = 5
    MaxRequests = 1
    MaxCancels = 2
    MaxCtx = 2
    None = None
CHECK_DEADLOCK FALSE
PROPERTIES
    DrainEnds
    HandlersReturn
    ImplementsService
