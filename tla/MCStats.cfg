SPECIFICATION Spec
CONSTANTS
    ActiveSubs = 2
    MaxEvents = 1
    MaxRounds = 3
    MaxDrains = 1
INVARIANTS
    TypeOK
    NoneReportedTwice
    SubscriptionsCounted
    ReplyNotStale
