\* One signalnode-core process and the API, never both writing results of one
\* monitor at a time.
CONSTANTS
    m1 = m1
    m2 = m2
    core1 = core1
    api1 = api1
    Monitors = {m1, m2}
    Channels = {}
    Thresholds <- TwoDownsOneUp
    Statuses = {"active", "archived"}
    CoreWriters = {core1}
    ApiWriters = {api1}
    MaxWrites = 3
VIEW Unreported
SPECIFICATION SerialSpec
INVARIANTS
    AtMostOneOpen
    NoMissedCrossing
PROPERTIES
    ImplementsLifecycle
