\* One signalnode-core process and one API request at a time, both writing
\* results of the same monitor while its thresholds and channels change.
CONSTANTS
    m1 = m1
    c1 = c1
    core1 = core1
    api1 = api1
    Monitors = {m1}
    Channels = {c1}
    Thresholds <- OneOrTwoDowns
    Statuses = {"active"}
    CoreWriters = {core1}
    ApiWriters = {api1}
    MaxWrites = 3
SPECIFICATION Spec
INVARIANTS
    TypeOK
    FanOutComplete
    OpenedOnEvidence
    AcknowledgedIsDurable
    OneOpenPerWriter
PROPERTIES
    ClosedOnEvidence
