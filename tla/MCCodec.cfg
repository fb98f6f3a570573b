CONSTANTS
    Typed <- Said
    Lengths <- Boundaries
SPECIFICATION Spec
INVARIANTS MailArrives  BytesAgree
CHECK_DEADLOCK FALSE
