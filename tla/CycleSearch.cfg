SPECIFICATION Spec
CONSTANTS
    Ids = {1, 2, 3, 4}
INVARIANTS
    DecidesCyclic
    ReportsACycle
PROPERTIES
    Terminates
CHECK_DEADLOCK FALSE
