SPECIFICATION ServerSpec
CONSTANTS
    Conns = {c1, c2}
    Waiters = {c1, c2}
    Senders = {s1, s2}
    Requests = {"IoExit", "TemporaryLightEntry", "ForceIoEntry", "Eof"}
    Timers = {t1}
    Devices = {}
    NoSender = NoSender
    NoTimer = NoTimer
    NoConn = NoConn
    Gone = Gone
    MaxEdges = 1
    MaxInbox = 1
SYMMETRY SymmetricSets
VIEW Relevant
INVARIANTS
    ServerTypeOK
    EntryHasTask
    EntrantCanLeave
    NotToldOver
PROPERTIES
    Spec
