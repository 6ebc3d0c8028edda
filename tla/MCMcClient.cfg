\* The compliance tests, and all programs of three calls.
CONSTANTS
    Keys <- MCKeys
    Programs <- MCPrograms
SPECIFICATION Spec
INVARIANTS ConnInv TestsPass OwnResponse MultiExact InSync
PROPERTIES CallsReturn
CHECK_DEADLOCK FALSE
