SPECIFICATION MCSpec
CONSTANTS
    Sessions = {s1, s2}
    s1 = s1
    Sudo = {}
    Dirs = {d1, d2}
    Root = d1
    Files = {f1, f2}
    top = top
    dir = dir
    leaf = leaf
    link = link
    Nodes <- MCNodes
    Children <- MCChildren
    PageSize = 1
    Chunks = 2
    MaxRunning = 2
    Budgets <- MCBudgets
    None = None
INVARIANTS TypeOK PanelShowsWhatItNames AtomicUpload RemovedWhenEmpty
PROPERTIES MutationsStayHome FlagsReleased
CHECK_DEADLOCK FALSE
