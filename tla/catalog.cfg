SPECIFICATION Spec
CONSTANTS
    d1 = d1
    d2 = d2
    t1 = t1
    t2 = t2
    Databases <- MCDatabases
    Namespaces = {"public", "n1"}
    Tables <- MCTables
    Workloads <- MCWorkloads
    MaxTears = 1
    MaxFiles = 4
    MaxPages = 2
SYMMETRY Symmetry
INVARIANTS
    SavedSurvives
    NothingInvented
    TablesAreApart
CHECK_DEADLOCK FALSE
