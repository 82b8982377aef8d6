\* The end of AppInit2, while the message thread runs.
CONSTANTS
    None = None
    NodeThread = {"message", "init"}
    Role <- MCRole
    LowDisk = FALSE
SPECIFICATION NodeSpec
INVARIANTS
    NoDeadlock
CHECK_DEADLOCK FALSE
