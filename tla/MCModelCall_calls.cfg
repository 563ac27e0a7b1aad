CONSTANTS
    c1 = c1  c2 = c2
    Callers = {c1, c2}
    Estimates <- EstimatesOf
    MaxItems <- ItemsOf
    Actuals = {2}
    Window = 1
    RPM = 2
    TPM = 3
    Attempts = 2
    Turn = 3
    Idle = 1
    ReasoningIdle = 2
    Waits = {1, 2}
SPECIFICATION Spec
INVARIANTS CallInv RateKept
PROPERTIES NoHiddenFailure CallEnds
