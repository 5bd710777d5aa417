SPECIFICATION FairServerSpec
CONSTANTS
    Conns = {c1}
    Waiters = {c1}
    Senders = {s1}
    Requests = {"IoExit", "TemporaryLightEntry", "Suspend", "Invalid", "Eof"}
    Timers = {t1}
    Devices = {}
    NoSender = NoSender
    NoTimer = NoTimer
    NoConn = NoConn
    Gone = Gone
    MaxEdges = 1
    MaxInbox = 1
PROPERTIES
    EntryEndIsTold
    OrphanEndsAtMessage
    LeftIsDropped
    PingResolved
