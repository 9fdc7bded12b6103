SPECIFICATION BenchSpec
CONSTANTS
    Tasks = {t1, t2}
    Runs = 2
    MaxGiven = 1
    MaxListed = 1
INVARIANTS
    TotalIsRunSet
CHECK_DEADLOCK FALSE
