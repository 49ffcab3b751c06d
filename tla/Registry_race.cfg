CONSTANTS
    Namespace = {n1, n2}
    n1 = n1
    n2 = n2
    Version = {v1, v2}
    v1 = v1
    v2 = v2
    FirstVersion = v1
    Client = {c1, c2}
    c1 = c1
    c2 = c2
    Absent = Absent
    MaxCommands = 4
    MaxEdits = 1
SPECIFICATION Spec
CHECK_DEADLOCK FALSE
INVARIANTS
    TypeOK
    EnableSticks
PROPERTY
    ImplementsCatalog
