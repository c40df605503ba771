\* The exit code of the script when the tool reports a failed assertion.
SPECIFICATION Spec
CONSTANTS
    Place = {p1, p2}
    NONE = NONE
INVARIANT
    ErrorIsNot0
CHECK_DEADLOCK FALSE
