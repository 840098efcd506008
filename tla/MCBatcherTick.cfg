SPECIFICATION Spec
CONSTANTS
    MaxSizes <- MCMaxSizes
    MaxItems = 6
INVARIANT
    TickIsDue
CHECK_DEADLOCK FALSE
