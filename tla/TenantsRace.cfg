SPECIFICATION Spec
CONSTANTS
    q1 = q1
    q2 = q2
    t1 = t1
    t2 = t2
    Names = {n1, n2}
    Threads = {t1, t2}
    Procs = {q1}
    ProcOf <- OneProcess
    Deleters = {t1, t2}
    Bases <- MCBases
    MaxId = 2
    Backends = {"sqlite", "postgres"}
    ExclusiveDeletes = TRUE
    Columns = {base_url}
    Keys = {pickup, seller}
    SerialSettings = TRUE
    None = None
SYMMETRY FullSymmetry
INVARIANTS TypeOK TenantIsolation CacheIsCurrent NoOrphanTables StoreIsUsable
PROPERTIES UpdatesAreKept NewTenantStartsEmpty
