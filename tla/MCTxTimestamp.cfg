SPECIFICATION FairSpec
CONSTANTS
    Client = {"s1", "p", "a"}
    Kind <- MCKind
    Handler = {h1, h2}
    SeqMod = 2
    AttemptsTXTS = 2
    MaxPackets = 2
    MaxAsked = 1
    None = None
INVARIANTS
    TypeOK
    FollowUpsConsecutive
    OneSequenceNumber
    TimestampUsedOnce
    PTPTime
    AnswerPaired
PROPERTY WorkerReturns
