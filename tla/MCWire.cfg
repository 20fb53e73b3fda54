SPECIFICATION Spec
CONSTANTS
    None = None
    Scripts <- MCScripts
    Chunks = {4, 7}
    DamagePlaces = {1, 3, 4, 5, 6, 9}
    MaxDamage = 1
INVARIANTS PacketsAsSent
PROPERTIES PayloadsDecode
CHECK_DEADLOCK FALSE
