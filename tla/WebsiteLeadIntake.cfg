CONSTANTS
    Submissions = {s1, s2}
    Attempts = {a1, a2, a3}
    MaxLosses = 2
SPECIFICATION IntakeSpec
INVARIANTS
    IntakeTypeOK
    OneRecordPerSubmission
PROPERTIES
    EveryAttemptDelivers
CHECK_DEADLOCK FALSE
