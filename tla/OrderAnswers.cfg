CONSTANTS
    Requests = {r1, r2, r3}
    Leads = {l1}
    NoLead = NoLead
    MaxAttempts = 2
    MaxDay = 0
    MaxFaults = 0
SPECIFICATION Spec
PROPERTIES
    EveryRequestAnswered
CHECK_DEADLOCK FALSE
