SPECIFICATION InputSpec
CONSTANTS
    Keys = {"lctrl", "x"}
    Buttons = {"left"}
    ModifierOf <- MCModifierOf
    NoModifier = NoModifier
    Bindings <- MCBindings
    MaxEvents = 2
    MaxCommands = 2
    Devices = {}
    Senders = {s1}
    Timers = {t1}
    Waiters = {}
    NoSender = NoSender
    NoTimer = NoTimer
    MaxEdges = 1
VIEW Relevant
INVARIANTS
    InputTypeOK
    NoHungKeys
    ExitReleasesKeys
    HotkeysAreHeld
