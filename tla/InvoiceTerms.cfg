CONSTANTS
    Requests = {r1}
    Channels = {"email", "sms"}
    TokenTTL = 1
    MaxTime = 2
    MaxContent = 2
    MaxTokens = 2
    MaxSigns = 2
SPECIFICATION Spec
PROPERTIES
    ClonedTextNeedsTerms
CHECK_DEADLOCK FALSE
