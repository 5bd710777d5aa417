SPECIFICATION FairSpec
CONSTANTS
    Disks = {d1, d2}
    Clients = {c1, c2}
    Nobody = Nobody
INVARIANTS
    TypeOK
    NeverPanics
    FileFollowsDisk
    DoneIfAlone
PROPERTIES
    WaitingEnds
