SPECIFICATION Spec
CONSTANTS
    Hosts = {h1}
    Keys = {k1, k2}
    NoKey = NoKey
    Other = Other
    Questions = 2
    MaxChanges = 1
SYMMETRY Symmetry
INVARIANTS
    TypeOK
    KeysWereConfirmed
    DialogsAreLive
CHECK_DEADLOCK FALSE
