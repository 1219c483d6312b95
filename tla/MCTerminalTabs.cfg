SPECIFICATION Spec
CONSTANTS
    Tabs = {t1, t2}
    MaxLives = 3
    MaxStarts = 2
INVARIANTS TypeOK InputStaysHome NoOtherLeak
PROPERTIES CloseSparesOthers
CHECK_DEADLOCK FALSE
SYMMETRY TabSymmetry
