SPECIFICATION PythonClientsSpec
CONSTANTS
    PoolSize = 2
    MaxFailures = 2
    PoolTasks = {t1}
    PoolKeys = {k1}
    MaxMembers = 3
    IndexCycle = 2
    MaxReconnects = 2
    AutoReconnect = TRUE
    ManagerTasks = {t1, t2}
    MaxConnects = 3
    GivenIds = {0, 3}
    Iterators = {i1, i2}
    MaxZmqSent = 3
    MaxZmqStarts = 3
INVARIANT ConnectionsTypeOK
INVARIANT PoolSafe
INVARIANT ConnectionsSound
PROPERTY TakenBack
PROPERTY ComesBack
CHECK_DEADLOCK FALSE
