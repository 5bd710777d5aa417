SPECIFICATION Spec
CONSTANTS
    Disks = {d1}
    Clients = {c1, c2}
    Nobody = Nobody
PROPERTIES
    EnterLasts
