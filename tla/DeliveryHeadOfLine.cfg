\* As many rows that cannot be delivered as a batch holds, older than the rest.
CONSTANTS
    n1 = n1
    refused = refused
    email = email
    w1 = w1
    Notifications = {n1, refused, email}
    Unreachable = {refused}
    Skipped = {email}
    Workers = {w1}
    BatchLimit = 2
    MaxCreated = 2
    MaxFaults = 0
SPECIFICATION FairSpec
PROPERTY
    EventuallySent
