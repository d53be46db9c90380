SPECIFICATION Spec
CONSTANTS
    Context <- MCContext
    Workers = 1
    DrainRounds = 2
INVARIANT SigtermDrained
