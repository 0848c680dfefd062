SPECIFICATION Spec
CONSTANTS
    NoTx = NoTx
    Operator = Operator
    Relays = {r1, r2}
    Orgs = {orgA}
    OrgOf <- OneOrg
    BatchSize = 2
    MaxFaults = 1
    MaxReplays = 1
    Events = {1, 2, 3}
    WellFormed = {1, 3}
    MaxAttempts = 2
SYMMETRY RelaySymmetry
INVARIANTS
    TypeOK
    PublishedReachedBroker
    DuplicatesBounded
PROPERTIES
    NoDoublePublish
    NoOvertaking
