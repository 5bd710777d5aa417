-------------------------------- MODULE Input --------------------------------
(***************************************************************************)
(* Keys and buttons on their way to the guest during a light entry: the    *)
(* listener that drains libinput, the handler that resolves hotkeys and    *)
(* forwards the rest, and the monitor's command loop that remembers which  *)
(* keys the guest holds; composed with the controller, whose handlers open *)
(* and close the devices and have all keys released.                       *)
(*                                                                         *)
(* Motion and the wheel leave nothing behind in the guest and are left     *)
(* out, and so are keys and buttons the driver has no name for.  libinput  *)
(* and QEMU are external: libinput reports a press and a release in turn   *)
(* and releases what is pressed on a device that is removed; QEMU carries  *)
(* out every input-send-event.                                             *)
(***************************************************************************)
EXTENDS Controller, FiniteSets, SequencesExt

CONSTANTS
    Keys,
    Buttons,
    ModifierOf,  \* the modifier that a key is, or NoModifier
    NoModifier,
    Bindings,    \* machine.hotkeys
    MaxEvents,   \* bound on the events the handler has not seen, at which
                 \* nothing more is typed
    MaxCommands  \* bound on the commands the monitor has not seen

Modifier == {"Alt", "Ctrl", "Shift", "Win"}
Codes == Keys \cup Buttons

ASSUME CodesAssumption == IsFiniteSet(Codes) /\ Keys \cap Buttons = {}
ASSUME ModifierAssumption ==
    NoModifier \notin Modifier /\ ModifierOf \in [Keys -> Modifier \cup {NoModifier}]
ASSUME BindingsAssumption ==
    Bindings \in Seq([modifiers : SUBSET Modifier, key : Keys, action : HotKeyAction])

VARIABLES
    pressed,      \* what libinput takes to be pressed on the open devices
    libinput,     \* the events libinput has for the listener
    inputEvents,  \* the channel from the listener to the handler
    modifiers,    \* KeyboardState
    hotkeys,      \* the hotkeys that the handler is about to call
    monitorQueue, \* the monitor's commands, as far as they are about input
    heldKeys,     \* held_keys
    guest,        \* what is down in the guest
    \* history
    seen,         \* what is down according to the events the handler has seen
    late          \* since the last ReleaseAllKeys, a press was forwarded out of
                  \* light entry or a FullEntry ended a temporary one

stream == <<pressed, libinput, inputEvents>>
handler == <<modifiers, hotkeys, seen>>
monitor == <<heldKeys, guest>>
inputVars == <<stream, handler, monitor, monitorQueue, late>>
allVars == <<vars, inputVars>>

Event == [code : Codes, down : BOOLEAN]
ReleaseAllKeys == [code |-> "ReleaseAllKeys", down |-> FALSE]

ASSUME ReleaseAssumption == "ReleaseAllKeys" \notin Codes

\* In particular nothing is pressed on devices that are closed.
InputTypeOK ==
    /\ pressed \subseteq Codes /\ (grabs = 0 => pressed = {})
    /\ libinput \in Seq(Event) /\ inputEvents \in Seq(Event)
    /\ modifiers \subseteq Modifier
    /\ hotkeys \subseteq DOMAIN Bindings
    /\ monitorQueue \in Seq(Event \cup {ReleaseAllKeys})
    /\ heldKeys \subseteq Keys /\ guest \subseteq Codes
    /\ seen \subseteq Codes /\ late \in BOOLEAN

InputInit ==
    /\ pressed = {} /\ libinput = <<>> /\ inputEvents = <<>>
    /\ modifiers = {} /\ hotkeys = {}
    /\ monitorQueue = <<>> /\ heldKeys = {} /\ guest = {}
    /\ seen = {} /\ late = FALSE

-----------------------------------------------------------------------------
(* libinput and its listener *)

\* One poll of the listener, when libinput's descriptor is ready: libinput reads at
\* most one event, and all it has goes into the channel, the releases of devices
\* removed earlier first.
Listen(news) ==
    /\ inputEvents' = inputEvents \o libinput \o news
    /\ libinput' = <<>>
    /\ UNCHANGED <<vars, handler, monitor, monitorQueue, late>>

HasRoom == Len(inputEvents) + Len(libinput) < MaxEvents

Press(k) ==
    /\ grabs > 0 /\ k \notin pressed /\ HasRoom
    /\ pressed' = pressed \cup {k}
    /\ Listen(<<[code |-> k, down |-> TRUE]>>)

Release(k) ==
    /\ k \in pressed /\ HasRoom
    /\ pressed' = pressed \ {k}
    /\ Listen(<<[code |-> k, down |-> FALSE]>>)

\* A poll that reads no event, as one that was due when the devices were removed.
\* The removal itself does not make the descriptor ready: nothing says that this
\* happens, and the releases may come only with the first event of the next entry.
Flush == libinput # <<>> /\ Listen(<<>>) /\ UNCHANGED pressed

\* Fault: a device is removed with its keys down.
SuspendKeepsPressed == UNCHANGED <<pressed, libinput>>

\* Input::suspend: libinput releases what is pressed on the devices removed.
SuspendInput ==
    /\ pressed' = {}
    /\ \E s \in SetToSeqs(pressed) :
         libinput' = libinput \o [i \in DOMAIN s |-> [code |-> s[i], down |-> FALSE]]

-----------------------------------------------------------------------------
(* What a handler of the controller does to the input *)

Suspends == grabs > 0 /\ grabs' = 0

\* Fault: only io_detach has the keys released.
ReleasesOnDetach == io \in Light /\ io' = "Detached"

\* io_detach and io_force_attach; the latter leaves out a temporary entry.
Releases ==
    /\ io \in Light /\ io' \notin Light
    /\ ~(io = "TemporaryLightEntry" /\ io' = "FullEntry")

EntryChanges ==
    /\ IF Suspends THEN SuspendInput ELSE UNCHANGED <<pressed, libinput>>
    /\ IF Releases
       THEN monitorQueue' = Append(monitorQueue, ReleaseAllKeys) /\ late' = FALSE
       ELSE /\ UNCHANGED monitorQueue
            /\ late' = (late \/ (io = "TemporaryLightEntry" /\ io' = "FullEntry"))

\* Any other handler of the driver.
OthersNext ==
    /\ hotkeys = {}
    /\ Len(monitorQueue) < MaxCommands
    /\ Next
    /\ EntryChanges
    /\ UNCHANGED <<inputEvents, handler, monitor>>

-----------------------------------------------------------------------------
(* The input handler *)

Forward(e) ==
    /\ Len(monitorQueue) < MaxCommands
    /\ monitorQueue' = Append(monitorQueue, e)
    /\ late' = (late \/ (e.down /\ io \notin Light))

\* Fault: the modifier of a key that goes up stays.
ModifiersStay(k, down) == IF down THEN modifiers \cup {ModifierOf[k]} ELSE modifiers

\* One flag for both keys of a modifier, which goes with the first.
ModifiersAfter(k, down) ==
    IF down THEN modifiers \cup {ModifierOf[k]} ELSE modifiers \ {ModifierOf[k]}

Matches(i, k) == Bindings[i].key = k /\ Bindings[i].modifiers \subseteq modifiers

\* Fault: a release triggers hotkeys, too.
TriggeredByBoth(e) == {i \in DOMAIN Bindings : Matches(i, e.code)}

Triggered(e) == IF e.down THEN {i \in DOMAIN Bindings : Matches(i, e.code)} ELSE {}

IsModifier(k) == k \in Keys /\ ModifierOf[k] # NoModifier

\* What triggers a hotkey is not forwarded.
HandleInput ==
    /\ hotkeys = {} /\ inputEvents # <<>>
    /\ inputEvents' = Tail(inputEvents)
    /\ LET e == Head(inputEvents) IN
         /\ seen' = IF e.down THEN seen \cup {e.code} ELSE seen \ {e.code}
         /\ \/ /\ e.code \in Buttons
               /\ Forward(e)
               /\ UNCHANGED <<modifiers, hotkeys>>
            \/ /\ IsModifier(e.code)
               /\ modifiers' = ModifiersAfter(e.code, e.down)
               /\ Forward(e)
               /\ UNCHANGED hotkeys
            \/ /\ e.code \in Keys /\ ~IsModifier(e.code)
               /\ hotkeys' = Triggered(e)
               /\ IF hotkeys' = {} THEN Forward(e) ELSE UNCHANGED <<monitorQueue, late>>
               /\ UNCHANGED modifiers
    /\ UNCHANGED <<vars, pressed, libinput, monitor>>

\* The handler calls the hotkeys in the order of the configuration, with
\* nothing in between.
CallHotkey ==
    /\ \E i \in hotkeys :
         /\ \A j \in hotkeys : i <= j
         /\ Hotkey(Bindings[i].action)
         /\ hotkeys' = hotkeys \ {i}
    /\ EntryChanges
    /\ UNCHANGED <<inputEvents, modifiers, seen, monitor>>

-----------------------------------------------------------------------------
(* The monitor's command loop *)

\* held_keys knows keys only.
Execute ==
    /\ hotkeys = {} /\ monitorQueue # <<>>
    /\ monitorQueue' = Tail(monitorQueue)
    /\ LET e == Head(monitorQueue) IN
         \/ /\ e = ReleaseAllKeys
            /\ guest' = guest \ heldKeys
            /\ heldKeys' = {}
         \/ /\ e # ReleaseAllKeys /\ e.down
            /\ guest' = guest \cup {e.code}
            /\ heldKeys' = heldKeys \cup ({e.code} \cap Keys)
         \/ /\ e # ReleaseAllKeys /\ ~e.down
            /\ guest' = guest \ {e.code}
            /\ heldKeys' = heldKeys \ {e.code}
    /\ UNCHANGED <<vars, stream, handler, late>>

-----------------------------------------------------------------------------
ListenerNext ==
    /\ hotkeys = {}
    /\ Flush \/ \E k \in Codes : Press(k) \/ Release(k)

InputNext == ListenerNext \/ HandleInput \/ CallHotkey \/ Execute \/ OthersNext

InputSpec == Init /\ InputInit /\ [][InputNext]_allVars

-----------------------------------------------------------------------------
(* Safety *)

Delivered == libinput = <<>> /\ inputEvents = <<>> /\ monitorQueue = <<>>

\* libinput.rs:255-256, "to avoid hung keys": whatever was typed around entries
\* and exits, hotkeys that swallow a press and releases that come long after their
\* entry: whenever everything that libinput has reported or will report of removed
\* devices has come through, nothing is down in the guest that is not pressed.
NoHungKeys == Delivered => guest \subseteq pressed

\* controller.rs:295, :364: out of light entry, the guest holds no key as soon as
\* the ReleaseAllKeys is through, without the releases libinput still has.
\* Presses that were on their way, and a temporary entry that a full one ends, are
\* the exceptions.
ExitReleasesKeys ==
    io \notin Light /\ monitorQueue = <<>> /\ ~late => guest \cap Keys = {}

\* hotkeys/mod.rs:61-80: a hotkey is called only when all its modifiers were down
\* as the user typed its key, although devices come and go between the two.
HotkeysAreHeld ==
    \A i \in hotkeys : \A m \in Bindings[i].modifiers :
        \E k \in seen \cap Keys : ModifierOf[k] = m
=============================================================================
