CONSTANTS
    MaxCalls <- MCCalls
    MaxFaults = 1
    MaxWrites = 2

SPECIFICATION Spec

INVARIANTS
    SignedDocumentIsCurrent
    SuccessIsTrue
    SettledPagesAreCurrent
    NoEmptyPage
    SendsWhatIsShown
    ShownBelongsToChoice
    LoneWorkSucceeds
    StoredAdditionalIsSum
    NoLockOutlivesItsCall
PROPERTY
    BadgeCatchesUp
CHECK_DEADLOCK FALSE
