SPECIFICATION MCSpec
CONSTANTS
    Parts = {"workers", "leased", "lane", "consumer", "outbox"}
    w1 = w1
    w2 = w2
    NoTx = NoTx
    Operator = Operator
    Workers = {w1, w2}
    Deliveries = {1, 2}
    Ladder <- OneRung
    ClaimLease = 1
    DeliveryTimeout = 1
    ErrorBudget = 0
    Overdue = 1
    MaxFaults = 1
    MaxToggles = 1
INVARIANTS
    LadderCountsFailures
    DeliveredWasAcked
    LeaseKeepsSingleFlight
    QueueIsFaithful
PROPERTIES
    TerminalFrozen
    DeliveriesEnd
