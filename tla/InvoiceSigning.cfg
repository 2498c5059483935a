CONSTANTS
    Requests = {r1, r2}
    Channels = {"email"}
    TokenTTL = 1
    MaxTime = 1
    MaxContent = 2
    MaxTokens = 2
    MaxSigns = 1
SPECIFICATION Spec
INVARIANTS
    TypeOK
    SignedIsBacked
    AuditTrailOrder
    SentIsTrue
    OneInvoicePerOrder
PROPERTIES
    ReplacedLinkStaysDead
SYMMETRY Symmetry
CHECK_DEADLOCK FALSE
