SPECIFICATION Spec
CONSTANTS
    Inputs <- MCInputs
    MaxText = 6
    MaxFile = 7
INVARIANTS TypeOK StripCorrect CommasRepaired
CHECK_DEADLOCK FALSE
