CONSTANTS
    Requests = {r1, r2, r3}
    Leads = {l1, l2}
    NoLead = NoLead
    MaxAttempts = 2
    MaxDay = 1
    MaxFaults = 1
SPECIFICATION SafetySpec
INVARIANTS
    TypeOK
    AllOrNothing
PROPERTIES
    ImplementsOrderBook
    RetryMeansProgress
SYMMETRY Symmetry
CHECK_DEADLOCK FALSE
