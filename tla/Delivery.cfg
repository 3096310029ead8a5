\* Two workers; two targets that work, one that refuses every delivery and an
\* email without SMTP settings: fewer of those than the batch holds.
CONSTANTS
    n1 = n1
    n2 = n2
    refused = refused
    email = email
    w1 = w1
    w2 = w2
    Notifications = {n1, n2, refused, email}
    Unreachable = {refused}
    Skipped = {email}
    Workers = {w1, w2}
    BatchLimit = 3
    MaxCreated = 2
    MaxFaults = 1
SPECIFICATION FairSpec
INVARIANTS
    TypeOK
    SentWasReceived
    OneExtraPerFault
PROPERTIES
    EventuallySent
    SentIsSettled
