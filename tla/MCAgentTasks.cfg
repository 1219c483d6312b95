CONSTANTS
    Agents = {a1, a2}
    Scopes = {execute}
    MaxTasks = 2
    MaxAudits = 1
SPECIFICATION FairSpec
INVARIANTS
    TypeOK
    BusyHasWork
PROPERTIES
    LifeSpec
    UnfinishedEnds
