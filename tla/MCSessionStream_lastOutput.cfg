SPECIFICATION Spec
CONSTANTS
    MaxSessionBufferBytes = 4
    MaxSessionEventBytes = 2
    MaxSessionBatchBytes = 3
    MaxEvents = 2
    MaxOutput = 5
PROPERTIES LastOutputIsShown
CHECK_DEADLOCK FALSE
