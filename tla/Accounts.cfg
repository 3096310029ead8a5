\* Every test of auth/mod.rs; races of three clients around the lock.
SPECIFICATION MCSpec
CONSTANTS
    Clients = {"one", "two", "three"}
    Scenarios <- MCScenarios
    Limit = 10
    LockTime = 15
INVARIANTS
    TypeOK
    AccountIsItsCreators
    CountsEveryFailure
    LockFollowsCount
    VerifiedWhileLocked
    AnswersAsTested
PROPERTIES
    OnlyThePasswordUnlocks
CHECK_DEADLOCK FALSE
