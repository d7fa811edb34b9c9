SPECIFICATION Spec
CONSTANTS
    Callers = {c1, c2}
    Pumps = {p1, p2}
    Loops = {l1, l2}
    Handles = {h1, h2, h3}
    NoHandle = NoHandle
    NoTask = NoTask
    Faults = {}
SYMMETRY Symmetry
INVARIANT NoOrphan
INVARIANT IdleReleases
PROPERTY StopReleases
