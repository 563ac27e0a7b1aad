CONSTANTS
    Boxes = {b1, b2}
    Files = {f, g}
    MaxVersion = 2
    MaxFailures = 1
    Together = FALSE
SPECIFICATION DiskSpec
INVARIANTS DiskInv ServesWhole
PROPERTIES NeverOlder CallsGetStored
\* Every container may have died.
CHECK_DEADLOCK FALSE
