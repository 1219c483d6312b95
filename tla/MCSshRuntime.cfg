SPECIFICATION FairSpec
CONSTANTS
    Hosts = {h1, h2}
    Ports = {1080}
    Handlers = {r1, r2}
    MaxSessions = 1
INVARIANTS TypeOK ListenersAreOwned ClosedIsGone
PROPERTIES AddressesComeFree
