CONSTANTS
    Requests = {r1}
    Channels = {"email", "sms"}
    TokenTTL = 1
    MaxTime = 2
    MaxContent = 3
    MaxTokens = 2
    MaxSigns = 2
SPECIFICATION Spec
PROPERTIES
    ImplementsContract
CHECK_DEADLOCK FALSE
