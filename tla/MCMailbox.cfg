SPECIFICATION FairSpec
CONSTANTS
    Senders = {s1}
    mailbox_capacity = 2
    MaxSent = 5
    NDEBUG = TRUE
    NULL = NULL
INVARIANTS AnnouncedIsThere NoOverwrite InOrder
PROPERTIES Delivered
CHECK_DEADLOCK FALSE
