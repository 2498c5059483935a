CONSTANTS
    Requests = {r1, r2}
    Nobody = Nobody
    MaxShipments = 2
    MaxExtras = 2
    MaxFaults = 1
    EditInputs <- MCEditInputs
    RefundAmounts = {30, 100}
    CostInputs <- MCCostInputs
    StatusInputs <- MCStatusInputs
    ExtraAmounts = {2, 3}
    InitialOrders <- MCInitialOrders
    InitialReplacements <- MCInitialReplacements
SPECIFICATION Spec
SYMMETRY Symmetry
INVARIANTS
    TypeOK
    RequirementsMet
    BoughtPartHasSheet
    RefundDetailsAgree
PROPERTIES
    LoneRequestBalances
    LoneRequestTouchesOnlyGiven
    LoneRequestKeepsRules
    LoneCostChangeIsLogged
CHECK_DEADLOCK FALSE
