CONSTANTS
    Calls = {c1, c2}
    Stable = {c1}
    Attempts = 2
    MaxKept = 1
    Starts = 2
SPECIFICATION Spec
INVARIANTS HostInv RunsOnce
PROPERTIES CallsEnd
\* The callers have a bounded number of attempts; then nothing is left to do.
CHECK_DEADLOCK FALSE
