SPECIFICATION Spec
CONSTANTS
    Sizes = {1, 2}
    Answers = {1}
    FileSize = 2
    Budget = 3
    a1 = a1
    Attachments = {a1}
    Setups <- AllSetups
INVARIANTS
    NothingIsLost
    ContextIsRecoverable
PROPERTY
    SentAttachmentsStay
CHECK_DEADLOCK FALSE
