CONSTANTS
    Requests = {r1, r2}
    Channels = {"email", "sms"}
    TokenTTL = 1
    MaxTime = 1
    MaxContent = 2
    MaxTokens = 2
    MaxSigns = 2
SPECIFICATION Spec
PROPERTIES
    SignedIsReadOnly
CHECK_DEADLOCK FALSE
