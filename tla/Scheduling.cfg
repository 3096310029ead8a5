\* Two signalnode-core processes on one database; the batch is smaller than
\* the set of monitors.
CONSTANTS
    m1 = m1
    m2 = m2
    m3 = m3
    e1 = e1
    e2 = e2
    Monitors = {m1, m2, m3}
    Engines = {e1, e2}
    Intervals = {1, 2}
    BatchLimit = 2
    MaxTime = 3
SYMMETRY EngineSymmetry
VIEW CurrentClaims
SPECIFICATION Spec
INVARIANTS
    TypeOK
    ClaimsExclusive
    PassedOverInTurn
PROPERTIES
    ImplementsSchedule
