SPECIFICATION Spec
CONSTANTS
    MinLength = 3
    MaxLength = 5
INVARIANT Transparent
CHECK_DEADLOCK FALSE
