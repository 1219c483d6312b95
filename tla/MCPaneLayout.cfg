SPECIFICATION LayoutSpec
CONSTANTS
    Kinds = {"local", "profile"}
    MaxId = 2
    MaxTabs = 1
    MaxClones = 2
    MaxRare = 3
INVARIANTS LayoutTypeOK PanesAreTabs  RecordIsCurrent
CHECK_DEADLOCK FALSE
