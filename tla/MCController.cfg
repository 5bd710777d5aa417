SPECIFICATION Spec
CONSTANTS
    Devices = {d1, d2}
    Senders = {s1, s2}
    Timers = {t1, t2}
    Waiters = {w1, w2}
    NoSender = NoSender
    NoTimer = NoTimer
    MaxEdges = 2
SYMMETRY SymmetricSets
INVARIANTS
    TypeOK
    InputReleased
    LightEntryHasInput
    DevicesMatchEntry
    TemporaryNeedsAgent
    SuspendingHoldsNoInput
    NoWaiterMissed
    PingWatched
    HeartbeatRuns
    DetachedIsLast
PROPERTIES
    UpgradeHonoured
    LeavesClean
