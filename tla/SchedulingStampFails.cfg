\* One process; a stamping UPDATE may fail.
CONSTANTS
    m1 = m1
    e1 = e1
    Monitors = {m1}
    Engines = {e1}
    Intervals = {2}
    BatchLimit = 1
    MaxTime = 4
SPECIFICATION Spec
INVARIANT
    ProbedOnlyIfStamped
