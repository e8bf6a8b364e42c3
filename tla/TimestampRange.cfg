SPECIFICATION Spec
CONSTANTS
    Modulus = 8
    MaxTime = 26
    Skews <- MCSkews
PROPERTY AccurateOverRange
CHECK_DEADLOCK FALSE
