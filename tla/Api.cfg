\* Every integration test of the protected routes; races of two clients.
SPECIFICATION MCSpec
CONSTANTS
    Clients = {"one", "two"}
    Scenarios <- MCScenarios
INVARIANTS
    TypeOK
    WorkspacesHaveTheirOwner
    SlugsAreUnique
    AcknowledgedIsStored
    RowsStayInTheirWorkspace
    AnswersAsTested
PROPERTIES
    WritersBelong
    RevivedOnlyByOverlap
    ImplementsTenancy
    EveryRequestEnds
CHECK_DEADLOCK FALSE
