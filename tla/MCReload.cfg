SPECIFICATION FairSpec
CONSTANTS
    Sec = 10
    MaxDuration = 65535
    SecondsMod = 256
    Flags <- MCFlags
    MaxWorkers = 2
    MaxBoots = 2
    Contents <- MCContents
    MaxEdits = 1
    SigBuffer = 1
    LogInterval <- MCLogInterval
    DurationField = {1, 3601}
    Time = {3}
    TrueUTCOffset = 370
INVARIANTS
    TypeOK
    DSCPHonoured
    PidFileCurrent
    ConfigValidated
    ClientDerivesUTC
    IntervalAsAsked
CHECK_DEADLOCK FALSE
PROPERTIES
    NoPanic
    StartsOrEnds
    ReloadReaches
