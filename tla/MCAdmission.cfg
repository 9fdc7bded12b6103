SPECIFICATION Spec
CONSTANTS
    t1 = t1
    t2 = t2
    Tasks = {t1, t2}
    Runs = 2
    MaxGiven = 2
    MaxListed = 1
    MaxRuns = 2
    MaxEntries = 3
    Sizes = {60000, 75810, 75811, 82703, 134000, 147457, 164000, 300000, 700000}
    GlobalExperts = 5
    LocalExperts = 2
    TopK = 3
    Slots = 3
    Window = 2
    Requests = 2
    AdapterTargets = {"q_proj", "o_proj", "lm_head"}
    RuntimeModules = {"q_proj", "o_proj", "lm_head"}
    MaxChanges = 1
    Payloads <- MCPayloads
    MaxPacks = 2
INVARIANTS
    ReportsTypeOK
    ReportsHonest
    RoutesKept
PROPERTIES
    SolvedIsSolved
SYMMETRY TaskSymmetry
\* Every tool ends.
CHECK_DEADLOCK FALSE
