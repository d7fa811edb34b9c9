SPECIFICATION FairSpec
CONSTANTS
    Scopes <- DefaultScopes
    BatchSize = 1
    MaxRetries = 1
    Threshold = 2
    Nonces = {n1}
    Faults = {}
    MaxId = 2
    MaxStops = 0
PROPERTY BacklogClears
