SPECIFICATION Spec
CONSTANTS
    MinLength = 1
    MaxLine = 2
    MaxFetches = 2
    MaxKeys = 4
    Chunks <- Events
    AI = TRUE
    EditorAI = TRUE
    RemoteHistory = TRUE
INVARIANTS
    TypeOK
    SecretsStayLocal
    PanelIsOfNewestFetch
    PredictionsFollowLastCommand
