SPECIFICATION FairSpec
CONSTANTS
    Context <- MCContext
    Workers = 2
    DrainRounds = 1
INVARIANTS
    TypeOK
    RestFollowsDecision
PROPERTIES
    NoneAbandoned
    KillFileDrains
    UnkillFileServes
    SigtermExits
