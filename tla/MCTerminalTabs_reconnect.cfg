SPECIFICATION Spec
CONSTANTS
    Tabs = {t1}
    MaxLives = 2
    MaxStarts = 1
PROPERTY InputFollowsReconnect
CHECK_DEADLOCK FALSE
