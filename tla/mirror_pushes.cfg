SPECIFICATION FairSpec
CONSTANTS
    Scopes <- DefaultScopes
    BatchSize = 1
    MaxRetries = 1
    Threshold = 2
    Nonces = {n1}
    Faults <- EveryFault
    MaxId = 2
    MaxStops = 1
INVARIANT TypeOK
INVARIANT NoGap
PROPERTY WatermarkGrows
PROPERTY PushEnds
PROPERTY Replicates
