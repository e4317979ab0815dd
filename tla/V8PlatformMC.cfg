CONSTANTS
    MaxIsolates = 2
    Threads = {t1, t2}
    MaxTasks = 2
SPECIFICATION Spec
INVARIANTS
    LiveIsolateRegistered
    PendingExact
    WaiterCalledOnce
    QueueIsOwn
    NoLostWakeup
PROPERTY ReleaseReturns
