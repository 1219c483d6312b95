SPECIFICATION FairSpec
CONSTANTS
    MaxSessionBufferBytes = 3
    MaxSessionEventBytes = 2
    MaxSessionBatchBytes = 2
    MaxEvents = 2
    MaxOutput = 5
INVARIANTS TypeOK RingAccounts
PROPERTIES   LocalExitClosesTab
CHECK_DEADLOCK FALSE
