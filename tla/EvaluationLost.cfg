\* One engine, a statement of the evaluation fails.
CONSTANTS
    m1 = m1
    core1 = core1
    core2 = core2
    api1 = api1
    Monitors = {m1}
    Channels = {}
    Thresholds <- TwoDownsOneUp
    Statuses = {"active"}
    CoreWriters = {core1}
    ApiWriters = {}
    MaxWrites = 2
SPECIFICATION Spec
INVARIANT
    LoggedIsDurable
