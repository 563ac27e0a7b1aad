CONSTANTS
    Callers = {"workflow", "local"}
    Hard = 4
    Soft = 2
    MaxMessages = 3
    MaxTurns = 5
    MaxLost = 1
SPECIFICATION Spec
INVARIANTS CompactionInv NothingHidden ValidRequest
PROPERTIES SummarySettles
\* The user sends a bounded number of messages, the model a bounded number of turns.
CHECK_DEADLOCK FALSE
