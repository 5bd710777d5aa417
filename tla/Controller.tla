----------------------------- MODULE Controller -----------------------------
(***************************************************************************)
(* The driver's state machine: struct Controller of                        *)
(* windows-gaming/driver/src/controller.rs together with the two things    *)
(* that drive it periodically or by message, the handler of the guest      *)
(* agent's pipe (clientpipe/mod.rs) and its 5 second ping timers.          *)
(*                                                                         *)
(* The driver runs on one thread; a handler runs without interruption, so  *)
(* each handler is one action.  The environment is open: any message of    *)
(* the guest agent (GA), any control command, any hotkey, QEMU's SUSPEND   *)
(* event and any timer tick may come at any time, which is what the driver *)
(* has to expect of a guest that crashes, reboots or suspends as it likes. *)
(*                                                                         *)
(* Commands to QEMU are executed one by one, in order, by one task of      *)
(* monitor/mod.rs; "usb" is the state they leave QEMU in once that queue   *)
(* has drained.                                                            *)
(***************************************************************************)
EXTENDS Integers, Sequences

CONSTANTS
    Devices,   \* the configured usb_devices that are not permanent
    Senders,   \* the channels handed to temporary_entry, one per entry
    Timers,    \* the interval timers spawned for ReportBoot
    Waiters,   \* who may wait for a suspend: connections and the inhibitor
    NoSender,
    NoTimer,
    MaxEdges   \* bound on the mouse edges queued for one entry

ASSUME NoSenderAssumption == NoSender \notin Senders
ASSUME NoTimerAssumption == NoTimer \notin Timers
ASSUME MaxEdgesAssumption == MaxEdges \in Nat \ {0}

VARIABLES
    ga,          \* what the driver believes about the guest agent
    io,          \* io_state
    tempSender,  \* the sender inside IoState::TemporaryLightEntry
    entryChan,   \* what was sent through each of those senders
    grabs,       \* how often resume() opened the input devices
    usb,         \* devices passed through to the guest
    timers,      \* live ping timers
    waiters,     \* suspend_senders
    \* what the last handler wrote to the GA and which power command it
    \* gave to the monitor; nothing here reads it
    toGa,
    toQemu,
    \* history variables: only the properties read them
    pinger,      \* the timer that sent the ping that is waited for
    demoted,     \* io_attach took FullEntry away while the GA was down
    bootInSuspend \* a ReportBoot arrived in state Suspending

entryVars == <<io, tempSender, grabs, usb, demoted>>
ioVars == <<entryVars, entryChan>>
agentVars == <<ga, timers, pinger, bootInSuspend>>
vars == <<ioVars, agentVars, waiters, toGa, toQemu>>

-----------------------------------------------------------------------------
(* Types *)

State == {"Down", "Up", "Pinging", "Suspending", "Suspended",
          "ResumingFull", "ResumingLight"}
IoState == {"Detached", "LightEntry", "TemporaryLightEntry",
            "AwaitingUpgrade", "FullEntry"}
Light == {"LightEntry", "TemporaryLightEntry", "AwaitingUpgrade"}
Alive == {"Up", "Pinging"}

\* HotKeyAction; "Exec" stands for an index that is not configured, too.
HotKeyAction == {"IoUpgrade", "IoEntryForced", "IoExit", "Exec"}

\* Hotkey registration, ReleaseModifiers, SetMousePosition and the
\* clipboard are left out of what is written to the GA.
GaCmdOut == {"Ping", "Suspend", "Shutdown", "nothing"}
PowerCmd == {"SystemWakeup", "SystemPowerdown", "nothing"}
EntryMsg == {"MouseEdged", "TemporaryLightDetached"}

TypeOK ==
    /\ ga \in State
    /\ io \in IoState
    /\ tempSender \in Senders \cup {NoSender}
    /\ entryChan \in [Senders -> Seq(EntryMsg)]
    /\ grabs \in Nat
    /\ usb \subseteq Devices
    /\ timers \subseteq Timers
    /\ waiters \subseteq Waiters
    /\ toGa \in GaCmdOut
    /\ toQemu \in PowerCmd
    /\ pinger \in Timers \cup {NoTimer}
    /\ demoted \in BOOLEAN
    /\ bootInSuspend \in BOOLEAN

Init ==
    /\ ga = "Down"
    /\ io = "Detached"
    /\ tempSender = NoSender
    /\ entryChan = [s \in Senders |-> <<>>]
    /\ grabs = 0
    /\ usb = {}
    /\ timers = {}
    /\ waiters = {}
    /\ toGa = "nothing"
    /\ toQemu = "nothing"
    /\ pinger = NoTimer
    /\ demoted = FALSE
    /\ bootInSuspend = FALSE

-----------------------------------------------------------------------------
(* Entering and leaving.  These say what becomes of ioVars only; the       *)
(* handlers below say the rest.                                            *)

Write(gaCmd, powerCmd) == toGa' = gaCmd /\ toQemu' = powerCmd

Silent == Write("nothing", "nothing")

\* A handler that returns without doing anything.
NoOp == UNCHANGED <<ioVars, agentVars, waiters>> /\ Silent

\* Fault: light_attach resumes the input in every state.
ResumeAlways == grabs' = grabs + 1

\* resume() opens the devices once more; suspend() closes all of them.
ResumeIfDetached == grabs' = IF io = "Detached" THEN grabs + 1 ELSE grabs

\* light_attach past its look at the GA.
EnterLight ==
    /\ ResumeIfDetached
    /\ io' = IF io \in {"Detached", "AwaitingUpgrade"} THEN "LightEntry" ELSE io
    /\ UNCHANGED <<tempSender, entryChan, usb, demoted>>

\* Fault: a temporary entry's input stays open.
ForceAttachKeepsInput ==
    /\ io # "FullEntry"
    /\ io' = "FullEntry"
    /\ tempSender' = NoSender
    /\ grabs' = IF io \in {"LightEntry", "AwaitingUpgrade"} THEN 0 ELSE grabs
    /\ UNCHANGED <<entryChan, usb, demoted>>

\* Fault: the sender survives the entry it was told the end of.
ForceAttachKeepsSender ==
    /\ io = "TemporaryLightEntry"
    /\ io' = "FullEntry"
    /\ grabs' = 0
    /\ entryChan' = [entryChan EXCEPT ![tempSender] =
                        Append(@, "TemporaryLightDetached")]
    /\ UNCHANGED <<tempSender, usb, demoted>>

\* udev_resolve_binding: which devices are there is up to the host.
Resolvable == SUBSET Devices

\* io_force_attach
IoForceAttach ==
    \/ /\ io = "FullEntry"
       /\ UNCHANGED ioVars
    \/ /\ io # "FullEntry"
       /\ io' = "FullEntry"
       /\ tempSender' = NoSender
       /\ grabs' = IF io \in Light THEN 0 ELSE grabs
       /\ entryChan' = IF io = "TemporaryLightEntry"
                       THEN [entryChan EXCEPT ![tempSender] =
                                Append(@, "TemporaryLightDetached")]
                       ELSE entryChan
       /\ \E present \in Resolvable : usb' = usb \cup present
       /\ UNCHANGED demoted

\* Fault: no DeviceDel.
LeaveKeepsDevices ==
    /\ io' = "Detached"
    /\ tempSender' = NoSender
    /\ grabs' = IF io \in Light THEN 0 ELSE grabs
    /\ UNCHANGED <<usb, demoted>>

\* Fault: suspend() closes one set of devices, open or not.
LeaveClosesOne ==
    /\ io' = "Detached"
    /\ tempSender' = NoSender
    /\ grabs' = IF io \in Light THEN grabs - 1 ELSE grabs
    /\ usb' = IF io = "FullEntry" THEN {} ELSE usb
    /\ UNCHANGED demoted

\* io_detach
LeaveEntry ==
    /\ io' = "Detached"
    /\ tempSender' = NoSender
    /\ grabs' = IF io \in Light THEN 0 ELSE grabs
    /\ usb' = IF io = "FullEntry" THEN {} ELSE usb
    /\ UNCHANGED demoted

IoDetach == LeaveEntry /\ UNCHANGED entryChan

\* temporary_exit
LeaveTemporary ==
    \/ io = "TemporaryLightEntry" /\ LeaveEntry
    \/ io # "TemporaryLightEntry" /\ UNCHANGED entryVars

TemporaryExit == LeaveTemporary /\ UNCHANGED entryChan

\* A handler that changes nothing but ioVars.
IoOnly(entry) == entry /\ UNCHANGED <<agentVars, waiters>> /\ Silent

\* Fault: the guest is still held for suspended when it has been woken.
WakeIsForgotten(resuming) ==
    /\ ga = "Suspended"
    /\ Write("nothing", "SystemWakeup")
    /\ UNCHANGED <<ioVars, agentVars, waiters>>

\* SystemWakeup, and the entry waits for the GA to be ready.
WakeForEntry(resuming) ==
    /\ ga = "Suspended"
    /\ ga' = resuming
    /\ Write("nothing", "SystemWakeup")
    /\ UNCHANGED <<ioVars, timers, pinger, bootInSuspend, waiters>>

-----------------------------------------------------------------------------
(* Commands: the control socket and the hotkeys *)

\* Fault: no early return in state Suspending.
LightAttachInSuspending ==
    \/ WakeForEntry("ResumingLight")
    \/ ga # "Suspended" /\ IoOnly(EnterLight)

LightAttach ==
    \/ ga = "Suspending" /\ NoOp
    \/ WakeForEntry("ResumingLight")
    \/ ga \notin {"Suspending", "Suspended"} /\ IoOnly(EnterLight)

\* In state Down: light_attach, then AwaitingUpgrade whatever that did.
AwaitAgent ==
    /\ ga = "Down"
    /\ ResumeIfDetached
    /\ io' = "AwaitingUpgrade"
    /\ tempSender' = NoSender
    /\ demoted' = (demoted \/ io = "FullEntry")
    /\ UNCHANGED <<entryChan, usb>>

IoAttach ==
    \/ ga \in {"ResumingFull", "ResumingLight", "Suspending"} /\ NoOp
    \/ WakeForEntry("ResumingFull")
    \/ IoOnly(AwaitAgent)
    \/ ga \in Alive /\ IoOnly(IoForceAttach)

TryAttach ==
    \/ ga \in Alive /\ IoOnly(IoForceAttach)
    \/ ga \notin Alive /\ NoOp

\* temporary_entry returning true, with a channel nobody uses any more.
TemporaryEntry(s) ==
    /\ ga \in Alive
    /\ io = "Detached"
    /\ entryChan[s] = <<>>
    /\ ResumeIfDetached
    /\ io' = "TemporaryLightEntry"
    /\ tempSender' = s
    /\ UNCHANGED <<entryChan, usb, demoted, agentVars, waiters>>
    /\ Silent

\* Fault: waits for QEMU's event in state Suspended too.
SuspendAlwaysWaits(w) ==
    /\ w \notin waiters
    /\ waiters' = waiters \cup {w}
    /\ UNCHANGED <<ioVars, agentVars>>
    /\ Write("Suspend", "nothing")

\* An actor that waits makes no second call.
Suspend(w) ==
    /\ w \notin waiters
    /\ \/ ga = "Suspended" /\ NoOp
       \/ /\ ga # "Suspended"
          /\ waiters' = waiters \cup {w}
          /\ UNCHANGED <<ioVars, agentVars>>
          /\ Write(IF ga = "Suspending" THEN "nothing" ELSE "Suspend", "nothing")

Shutdown ==
    /\ UNCHANGED <<ioVars, agentVars, waiters>>
    /\ \/ ga \in Alive /\ Write("Shutdown", "nothing")
       \/ ga \notin Alive /\ Write("nothing", "SystemPowerdown")

\* ga_hotkey, called for the GA and for the light-entry keyboard.
Hotkey(action) ==
    \/ action = "Exec" /\ NoOp
    \/ action # "Exec" /\ io = "TemporaryLightEntry" /\ NoOp
    \/ /\ io # "TemporaryLightEntry"
       /\ \/ action = "IoUpgrade" /\ IoAttach
          \/ action = "IoEntryForced" /\ IoOnly(IoForceAttach)
          \/ action = "IoExit" /\ IoOnly(IoDetach)

-----------------------------------------------------------------------------
(* Messages of the guest agent, and the ping timer *)

SpawnTimer == \E t \in Timers \ timers : timers' = timers \cup {t}

\* Fault: an upgrade that waited is forgotten.
BootForgetsUpgrade ==
    /\ ga' = "Up"
    /\ IF ga \in Alive \cup {"Suspending"} THEN UNCHANGED timers ELSE SpawnTimer
    /\ pinger' = NoTimer
    /\ bootInSuspend' = (bootInSuspend \/ ga = "Suspending")
    /\ UNCHANGED <<ioVars, waiters>>
    /\ Silent

\* Fault: only a boot in state Down starts a timer.
BootAfterSuspendUntimed ==
    /\ ga' = "Up"
    /\ IF ga = "Down" THEN SpawnTimer ELSE UNCHANGED timers
    /\ pinger' = NoTimer
    /\ bootInSuspend' = (bootInSuspend \/ ga = "Suspending")
    /\ UNCHANGED <<ioVars, waiters>>
    /\ Silent

\* ga_hello, and the timer its caller spawns when it returns true.  ga is
\* already Up when the entry that waited is made: an upgrade goes to
\* FullEntry, and what Resuming asks for then finds nothing left to do.
ReportBoot ==
    /\ ga' = "Up"
    /\ IF io = "AwaitingUpgrade" \/ ga = "ResumingFull"
       THEN IoForceAttach
       ELSE IF ga = "ResumingLight" THEN EnterLight ELSE UNCHANGED ioVars
    /\ IF ga \in Alive \cup {"Suspending"} THEN UNCHANGED timers ELSE SpawnTimer
    /\ pinger' = NoTimer
    /\ bootInSuspend' = (bootInSuspend \/ ga = "Suspending")
    /\ UNCHANGED waiters
    /\ Silent

GaSuspending ==
    /\ IoDetach
    /\ ga' = "Suspending"
    /\ pinger' = NoTimer
    /\ UNCHANGED <<timers, bootInSuspend, waiters>>
    /\ Silent

Pong ==
    /\ ga' = IF ga = "Pinging" THEN "Up" ELSE ga
    /\ pinger' = NoTimer
    /\ UNCHANGED <<ioVars, timers, bootInSuspend, waiters>>
    /\ Silent

MouseEdged ==
    \/ io # "TemporaryLightEntry" /\ NoOp
    \/ /\ io = "TemporaryLightEntry"
       /\ Len(entryChan[tempSender]) < MaxEdges
       /\ entryChan' = [entryChan EXCEPT ![tempSender] = Append(@, "MouseEdged")]
       /\ UNCHANGED <<entryVars, agentVars, waiters>>
       /\ Silent

\* Fault: the timer ends once it has sent a ping.
TickOnce(t) ==
    /\ t \in timers
    /\ ga = "Up"
    /\ ga' = "Pinging"
    /\ pinger' = t
    /\ timers' = timers \ {t}
    /\ UNCHANGED <<ioVars, bootInSuspend, waiters>>
    /\ Write("Ping", "nothing")

\* Fault: the ping timeout ends a FullEntry only.
TickKeepsTemporary(t) ==
    /\ t \in timers
    /\ \/ /\ ga = "Up"
          /\ ga' = "Pinging"
          /\ pinger' = t
          /\ UNCHANGED <<ioVars, timers>>
       \/ /\ ga = "Pinging"
          /\ ga' = "Down"
          /\ IF io = "FullEntry" THEN IoDetach ELSE UNCHANGED ioVars
          /\ timers' = timers \ {t}
          /\ pinger' = NoTimer
    /\ UNCHANGED <<bootInSuspend, waiters>>
    /\ Silent

\* ga_ping; a timer whose ga_ping returns false is never polled again.
Tick(t) ==
    /\ t \in timers
    /\ \/ /\ ga = "Up"
          /\ ga' = "Pinging"
          /\ pinger' = t
          /\ Write("Ping", "nothing")
          /\ UNCHANGED <<ioVars, timers>>
       \/ /\ ga = "Pinging"
          /\ ga' = "Down"
          /\ IF io \in {"FullEntry", "TemporaryLightEntry"}
             THEN IoDetach
             ELSE UNCHANGED ioVars
          /\ timers' = timers \ {t}
          /\ pinger' = NoTimer
          /\ Silent
       \/ /\ ga \notin Alive
          /\ timers' = timers \ {t}
          /\ UNCHANGED <<ioVars, ga, pinger>>
          /\ Silent
    /\ UNCHANGED <<bootInSuspend, waiters>>

-----------------------------------------------------------------------------
(* QEMU's event, and the task of a temporary entry *)

QemuSuspended ==
    /\ ga' = "Suspended"
    /\ waiters' = {}
    /\ pinger' = NoTimer
    /\ UNCHANGED <<ioVars, timers, bootInSuspend>>
    /\ Silent

\* The task that a temporary entry spawns forwards all that is queued.
EntryPoll(s) ==
    /\ entryChan[s] # <<>>
    /\ entryChan' = [entryChan EXCEPT ![s] = <<>>]
    /\ UNCHANGED <<entryVars, agentVars, waiters>>
    /\ Silent

\* Its .then: the receiver is gone, and temporary_exit ends whichever
\* temporary entry there is.
EntryOver(s) ==
    /\ entryChan' = [entryChan EXCEPT ![s] = <<>>]
    /\ LeaveTemporary
    /\ UNCHANGED <<agentVars, waiters>>
    /\ Silent

-----------------------------------------------------------------------------
ControlNext ==
    \/ IoAttach
    \/ TryAttach
    \/ LightAttach
    \/ IoOnly(IoForceAttach)
    \/ IoOnly(IoDetach)
    \/ IoOnly(TemporaryExit)
    \/ Shutdown
    \/ \E s \in Senders : TemporaryEntry(s)
    \/ \E w \in Waiters : Suspend(w)

AgentNext ==
    \/ ReportBoot
    \/ GaSuspending
    \/ Pong
    \/ MouseEdged
    \/ \E a \in HotKeyAction : Hotkey(a)

TimerNext == \E t \in Timers : Tick(t)

TaskNext == \E s \in Senders : EntryPoll(s) \/ EntryOver(s)

Next == ControlNext \/ AgentNext \/ TimerNext \/ QemuSuspended \/ TaskNext

Spec == Init /\ [][Next]_vars

\* tokio keeps polling a spawned interval timer until its for_each ends.
TimerFairness == \A t \in Timers : WF_vars(Tick(t))

-----------------------------------------------------------------------------
(* Safety *)

\* The host's keyboard and mouse are grabbed only during a light entry:
\* neither a detached user nor one in full entry is locked out of the
\* host by a grab that some sequence of commands, timeouts and boots of
\* the GA left behind (io_detach, io_force_attach, Input::suspend).
InputReleased == io \in {"Detached", "FullEntry"} => grabs = 0

\* A light entry of any kind has its input devices open exactly once,
\* except after io_attach turned a FullEntry into an AwaitingUpgrade
\* (IoAttach in state Down): then it has none.
LightEntryHasInput == io \in Light => grabs = 1 \/ (demoted /\ grabs = 0)

\* Outside of FullEntry no device stays passed through to the guest,
\* again with io_attach in state Down as the only way to break it.
DevicesMatchEntry == io # "FullEntry" => usb = {} \/ demoted

\* An upgrade never waits for a GA that is there: the handlers that make
\* the GA Up (ga_hello, ga_pong) leave no AwaitingUpgrade behind.
UpgradePending == io = "AwaitingUpgrade" => ga \notin Alive \cup {"Suspending"}

\* A temporary entry does not outlive the GA that tells the client about
\* edges of the screen: it ends with the ping timeout and GaSuspending.
TemporaryNeedsAgent ==
    io = "TemporaryLightEntry" => ga \notin {"Down", "Suspending"}

\* While Windows suspends no input device is held, although a command may
\* have forced a FullEntry meanwhile.
SuspendingHoldsNoInput == ga = "Suspending" => grabs = 0

\* Nobody waits for a suspend that has already happened (suspend,
\* qemu_suspended): a waiter left over would wait for the next one.
NoWaiterMissed == ga = "Suspended" => waiters = {}

\* The timer that sent the ping being waited for still runs, so its next
\* tick will notice a GA that does not answer (ga_ping).
PingWatched == ga = "Pinging" => pinger \in timers

\* As long as no ReportBoot arrived in state Suspending, a GA believed to
\* be there is being pinged by some timer (ga_hello's return value).
HeartbeatRuns == ga \in Alive /\ ~bootInSuspend => timers # {}

\* A client is told that its temporary entry ended at most once by the
\* controller, and hears of no mouse edge after that (io_force_attach,
\* mouse_edged).
DetachedIsLast ==
    \A s \in Senders : \A i \in DOMAIN entryChan[s] :
        entryChan[s][i] = "TemporaryLightDetached" =>
            i = Len(entryChan[s]) /\ s # tempSender

\* ga_hello completes an upgrade that waited for the GA.
UpgradeHonoured ==
    [][io = "AwaitingUpgrade" /\ ga' \in Alive => io' = "FullEntry"]_vars

\* Every way out of FullEntry gives the devices back to the host, but for
\* the one through io_attach in state Down.
LeavesClean ==
    [][io = "FullEntry" /\ io' # "FullEntry" =>
         usb' = {} \/ (ga = "Down" /\ io' = "AwaitingUpgrade")]_vars

(* Liveness *)

\* A ping is answered or given up: the controller does not stay Pinging
\* (ga_ping, ga_pong) while its timers keep firing.
PingResolved == ga = "Pinging" ~> ga # "Pinging"

(* What the code's comments say and the code does not do *)

\* controller.rs, ga_hello: "it would be a bug to create a second one".
AtMostOneTimer == \A t, u \in timers : t = u

\* controller.rs, io_detach: "Detaches all configured devices".
DetachDetachesAll == io = "Detached" => usb = {}
=============================================================================
