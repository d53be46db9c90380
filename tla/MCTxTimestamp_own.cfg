SPECIFICATION Spec
CONSTANTS
    Client = {"s1"}
    Kind <- MCKind
    Handler = {h1}
    SeqMod = 4
    AttemptsTXTS = 2
    MaxPackets = 3
    MaxAsked = 1
    None = None
INVARIANT OwnTimestamp
