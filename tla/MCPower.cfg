SPECIFICATION MCSpec
CONSTANTS
    Devices = {}
    Senders = {}
    Timers = {t1}
    Waiters = {inhibitor, w1}
    Inhibitor = inhibitor
    NoSender = NoSender
    NoTimer = NoTimer
    MaxEdges = 1
    MaxPipe = 1
    MaxPending = 1
    MaxBus = 3
VIEW Relevant
INVARIANTS
    PowerTypeOK
    KnowsWhetherItSleeps
PROPERTIES
    SuspendsTheGuest
    SuspendIsAnswered
