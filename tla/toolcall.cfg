\* The timers of server, worker and audit sink against each other.
SPECIFICATION Spec
CONSTANTS
    c1 = c1
    Calls = {c1}
    ExecTimeout = 12
    Margin = 5
    AuditTimeout = 3
    MaxLag = 1
    MaxTime = 20
INVARIANTS
    TypeOK
    NoLateRun
PROPERTIES
    TimeoutIsStructured
