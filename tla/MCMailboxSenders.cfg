SPECIFICATION Spec
CONSTANTS
    Senders = {s1, s2}
    mailbox_capacity = 2
    MaxSent = 2
    NDEBUG = FALSE
    NULL = NULL
INVARIANTS AnnouncedIsThere
CHECK_DEADLOCK FALSE
