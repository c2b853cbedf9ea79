SPECIFICATION Spec
CONSTANTS
    q1 = q1
    q2 = q2
    t1 = t1
    t2 = t2
    Names = {n1, n2}
    Threads = {t1, t2}
    Procs = {q1, q2}
    ProcOf <- TwoProcesses
    Deleters = {t1}
    Bases <- MCBases
    MaxId = 1
    Backends = {"postgres"}
    ExclusiveDeletes = TRUE
    Columns = {}
    Keys = {}
    SerialSettings = TRUE
    None = None
SYMMETRY Symmetry
INVARIANT TenantIsolation
