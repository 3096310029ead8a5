\* A patch that overlaps the archive of its monitor.
SPECIFICATION MCSpec
CONSTANTS
    Clients = {"one", "two"}
    Scenarios <- MCScenarios
PROPERTIES
    ArchivedIsTerminal
CHECK_DEADLOCK FALSE
