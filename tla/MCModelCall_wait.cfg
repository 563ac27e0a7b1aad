\* One request a window; every report is the estimate, so only time frees the budget.
CONSTANTS
    c1 = c1  c2 = c2
    Callers = {c1, c2}
    Estimates <- OneToken
    MaxItems <- NoItems
    Actuals = {1}
    Window = 3
    RPM = 1
    TPM = 9
    Attempts = 1
    Turn = 6
    Idle = 1
    ReasoningIdle = 2
    Waits = {}
SPECIFICATION Spec
INVARIANTS WakesWhenItFits
