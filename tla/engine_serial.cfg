SPECIFICATION FairSpec
CONSTANTS
    Callers = {c1}
    Pumps = {p1, p2}
    Loops = {l1, l2}
    Handles = {h1, h2, h3}
    NoHandle = NoHandle
    NoTask = NoTask
    Faults = {}
INVARIANT TypeOK
INVARIANT ScanOwnsDevice
INVARIANT OneReader
PROPERTY ScanKeepsDevice
PROPERTY EngineSettles
