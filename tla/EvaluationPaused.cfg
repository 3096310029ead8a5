\* One engine, a monitor paused between its claim and its write.
CONSTANTS
    m1 = m1
    core1 = core1
    core2 = core2
    api1 = api1
    Monitors = {m1}
    Channels = {}
    Thresholds <- TwoDownsOneUp
    Statuses = {"active", "paused"}
    CoreWriters = {core1}
    ApiWriters = {}
    MaxWrites = 3
SPECIFICATION Spec
PROPERTY
    OpenedWhileActive
