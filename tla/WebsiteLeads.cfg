CONSTANTS
    Inquiries = {i1}
    Agents = {ann, bob}
    Admins = {boss}
    Nobody = Nobody
    Keep = Keep
    Requests = {r1, r2}
    MaxNotes = 1
SPECIFICATION Spec
SYMMETRY Symmetry
INVARIANTS
    TypeOK
    ConvertedByOwner
PROPERTIES
    ImplementsInbox
    InquiryIsKept
CHECK_DEADLOCK FALSE
