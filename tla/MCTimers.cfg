SPECIFICATION Spec
CONSTANTS
    Devices = {d1}
    Senders = {s1}
    Timers = {t1, t2}
    Waiters = {w1}
    NoSender = NoSender
    NoTimer = NoTimer
    MaxEdges = 1
INVARIANTS
    AtMostOneTimer
