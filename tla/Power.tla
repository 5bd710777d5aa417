-------------------------------- MODULE Power --------------------------------
(***************************************************************************)
(* Suspending, waking and shutting down: the controller composed with what *)
(* it talks to for that.  These are the guest agent of this repository     *)
(* (guest-agent/src/main.rs) behind its pipe, the Windows it runs on,      *)
(* QEMU's monitor (monitor/mod.rs), and the sleep inhibitor                *)
(* (sleep_inhibitor.rs, dbus.rs) between logind and the controller.        *)
(*                                                                         *)
(* The agent's pipe and QEMU's events are two sockets: each keeps its      *)
(* order, and nothing orders one with the other.  Whoever gives commands   *)
(* stays as open as in Controller, where the commands are all there; those *)
(* that neither wake, suspend nor stop the guest are left out here, as     *)
(* they change nothing but ioVars.                                         *)
(***************************************************************************)
EXTENDS Controller

CONSTANTS
    Inhibitor,  \* the sleep inhibitor, one of the Waiters
    MaxPipe,    \* bound on what is under way to the agent
    MaxPending, \* bound on the power commands, on the events, and on what the
                \* agent has written when it starts
    MaxBus      \* bound on the signals of logind not yet handled

ASSUME InhibitorAssumption == Inhibitor \in Waiters
ASSUME MaxPipeAssumption == {MaxPipe, MaxPending} \subseteq Nat \ {0}
ASSUME MaxBusAssumption == MaxBus \in Nat

VARIABLES
    os,         \* Windows
    agent,      \* the agent's process; "InSuspend" within SetSuspendState
    toAgent,    \* written to the agent and not read by it
    fromAgent,  \* written by the agent and not read by the driver
    qmp,        \* power commands the monitor has not executed
    suspends,   \* SUSPEND events the driver has not seen
    host,       \* logind; "Overdue" when its delay is over
    bus,        \* PrepareForSleep signals, TRUE for the start of a sleep
    fd,         \* the inhibitor's lock
    inhib,      \* the inhibitor's task; "called" while it awaits a suspend
    \* history variables: only the properties read them
    ownWake,    \* Windows once woke other than by SystemWakeup
    slipped,    \* an excuse, see SuspendsWithHost
    lost        \* a Suspend was lost: the agent's end, or a failed call

guestVars == <<os, agent, toAgent, fromAgent, qmp, suspends>>
hostVars == <<host, bus, fd, inhib>>
powerVars == <<vars, guestVars, hostVars, ownWake, slipped, lost>>

ToAgent == GaCmdOut \ {"nothing"}
FromAgent == {"ReportBoot", "Pong"}

PowerTypeOK ==
    /\ os \in {"Running", "Sleeping", "Off"}
    /\ agent \in {"Absent", "Running", "InSuspend"}
    /\ toAgent \in Seq(ToAgent)
    /\ fromAgent \in Seq(FromAgent)
    /\ qmp \in Seq(PowerCmd \ {"nothing"})
    /\ suspends \in Nat
    /\ host \in {"Awake", "Preparing", "Overdue"}
    /\ bus \in Seq(BOOLEAN)
    /\ fd \in {"held", "none"}
    /\ inhib \in {"idle", "called", "panicked"}
    /\ {ownWake, slipped, lost} \subseteq BOOLEAN

\* QEMU has been started, Windows boots, and the lock is taken.
PowerInit ==
    /\ os = "Running"
    /\ agent = "Absent"
    /\ toAgent = <<>>
    /\ fromAgent = <<>>
    /\ qmp = <<>>
    /\ suspends = 0
    /\ host = "Awake"
    /\ bus = <<>>
    /\ fd = "held"
    /\ inhib = "idle"
    /\ ownWake = FALSE
    /\ slipped = FALSE
    /\ lost = FALSE

-----------------------------------------------------------------------------
(* The driver *)

\* run() is over once QEMU is; a panic ends the process.
DriverOver == os = "Off" \/ inhib = "panicked"

\* Fault: the handler's caller sends whatever there is.
SentAlways(queue, msg) == Append(queue, msg)

Sent(queue, msg) == IF msg = "nothing" THEN queue ELSE Append(queue, msg)

\* A handler of the controller, and what it writes.
Driver(handler) ==
    /\ ~DriverOver
    /\ handler
    /\ toAgent' = Sent(toAgent, toGa')
    /\ qmp' = Sent(qmp, toQemu')
    /\ Len(toAgent') <= MaxPipe /\ Len(qmp') <= MaxPending
    /\ UNCHANGED <<os, agent, host, ownWake, slipped, lost>>

\* The control socket, the hotkeys (IoUpgrade is IoAttach) and SIGTERM.
Command ==
    /\ Driver(\/ IoAttach
              \/ LightAttach
              \/ Shutdown
              \/ \E w \in Waiters \ {Inhibitor} : Suspend(w))
    /\ UNCHANGED <<fromAgent, suspends, bus, fd, inhib>>

TimerTicks(t) ==
    /\ Driver(Tick(t))
    /\ UNCHANGED <<fromAgent, suspends, bus, fd, inhib>>

ReadsAgent ==
    /\ fromAgent # <<>>
    /\ Driver(\/ Head(fromAgent) = "ReportBoot" /\ ReportBoot
              \/ Head(fromAgent) = "Pong" /\ Pong)
    /\ fromAgent' = Tail(fromAgent)
    /\ UNCHANGED <<suspends, bus, fd, inhib>>

\* Of all events about power the driver reads SUSPEND, and no WAKEUP.
ReadsSuspend ==
    /\ suspends > 0
    /\ Driver(QemuSuspended)
    /\ suspends' = suspends - 1
    /\ UNCHANGED <<fromAgent, bus, fd, inhib>>

\* Fault: the lock goes as soon as the agent has been asked.
DropsAtOnce ==
    /\ bus # <<>> /\ Head(bus)
    /\ inhib = "idle"
    /\ Driver(Suspend(Inhibitor))
    /\ bus' = Tail(bus)
    /\ fd' = "none"
    /\ inhib' = IF Inhibitor \in waiters' THEN "called" ELSE "idle"
    /\ UNCHANGED <<fromAgent, suspends>>

\* PrepareForSleep(TRUE).  The future of a guest believed to sleep is
\* ready at once, and the lock is dropped in the same poll.
HostWillSleep ==
    /\ bus # <<>> /\ Head(bus)
    /\ inhib = "idle"
    /\ Driver(Suspend(Inhibitor))
    /\ bus' = Tail(bus)
    /\ IF Inhibitor \in waiters'
       THEN inhib' = "called" /\ UNCHANGED fd
       ELSE fd' = "none" /\ UNCHANGED inhib
    /\ UNCHANGED <<fromAgent, suspends>>

\* The future resolves; for_each takes no other signal before.
DropsLock ==
    /\ ~DriverOver
    /\ inhib = "called"
    /\ Inhibitor \notin waiters
    /\ fd' = "none"
    /\ inhib' = "idle"
    /\ UNCHANGED <<vars, guestVars, host, bus, ownWake, slipped, lost>>

\* PrepareForSleep(FALSE).  logind gives no delay lock to somebody who
\* comes when it is about to sleep again, and inhibit() unwraps.
HostWokeUp ==
    /\ ~DriverOver
    /\ bus # <<>> /\ ~Head(bus)
    /\ inhib = "idle"
    /\ bus' = Tail(bus)
    /\ IF host = "Awake"
       THEN fd' = "held" /\ UNCHANGED inhib
       ELSE inhib' = "panicked" /\ UNCHANGED fd
    /\ UNCHANGED <<vars, guestVars, host, ownWake, slipped, lost>>

-----------------------------------------------------------------------------
(* The agent and Windows *)

Environment == UNCHANGED <<vars, hostVars>>

\* It connects and reports, which it does this once.
AgentStarts ==
    /\ os = "Running"
    /\ agent = "Absent"
    /\ Len(fromAgent) < MaxPending
    /\ agent' = "Running"
    /\ fromAgent' = Append(fromAgent, "ReportBoot")
    /\ UNCHANGED <<os, toAgent, qmp, suspends, ownWake, slipped, lost>>
    /\ Environment

\* The agent ends, or Windows reboots.  QEMU keeps what nobody has
\* connected for, so of what was under way the part that had entered the
\* guest, or not left it, may be lost.
AgentEnds ==
    /\ os = "Running"
    /\ agent # "Absent"
    /\ agent' = "Absent"
    /\ \E n \in 0 .. Len(toAgent), m \in 0 .. Len(fromAgent) :
         /\ toAgent' = SubSeq(toAgent, n + 1, Len(toAgent))
         /\ fromAgent' = SubSeq(fromAgent, 1, m)
         /\ lost' = (lost \/ agent = "InSuspend"
                          \/ \E i \in 1 .. n : toAgent[i] = "Suspend")
    /\ UNCHANGED <<os, qmp, suspends, ownWake, slipped>>
    /\ Environment

\* The agent handles one message after the other.
AgentReads(msg) ==
    /\ os = "Running"
    /\ agent = "Running"
    /\ toAgent # <<>>
    /\ Head(toAgent) = msg
    /\ toAgent' = Tail(toAgent)
    /\ UNCHANGED <<qmp, suspends, ownWake, slipped, lost>>
    /\ Environment

AnswersPing ==
    /\ AgentReads("Ping")
    /\ Len(fromAgent) <= MaxPending
    /\ fromAgent' = Append(fromAgent, "Pong")
    /\ UNCHANGED <<os, agent>>

\* Fault: a Suspend is read and nothing done about it.
ForgetsSuspend ==
    /\ AgentReads("Suspend")
    /\ UNCHANGED <<os, agent, fromAgent>>

\* SetSuspendState returns when Windows is awake again, or fails.
CallsSuspend ==
    /\ AgentReads("Suspend")
    /\ agent' = "InSuspend"
    /\ UNCHANGED <<os, fromAgent>>

\* ExitWindowsEx; an error is logged.
CallsShutdown ==
    /\ AgentReads("Shutdown")
    /\ os' \in {"Off", "Running"}
    /\ UNCHANGED <<agent, fromAgent>>

SuspendFails ==
    /\ os = "Running"
    /\ agent = "InSuspend"
    /\ agent' = "Running"
    /\ lost' = TRUE
    /\ UNCHANGED <<os, toAgent, fromAgent, qmp, suspends, ownWake, slipped>>
    /\ Environment

\* By the agent's call, its user's wish or a timer of its own.
WindowsSleeps ==
    /\ os = "Running"
    /\ suspends < MaxPending
    /\ os' = "Sleeping"
    /\ suspends' = suspends + 1
    /\ UNCHANGED <<agent, toAgent, fromAgent, qmp, ownWake, slipped, lost>>
    /\ Environment

WindowsShutsDown ==
    /\ os = "Running"
    /\ os' = "Off"
    /\ UNCHANGED <<agent, toAgent, fromAgent, qmp, suspends, ownWake, slipped, lost>>
    /\ Environment

Resume ==
    /\ os' = "Running"
    /\ agent' = IF agent = "InSuspend" THEN "Running" ELSE agent

WakesOnItsOwn ==
    /\ os = "Sleeping"
    /\ Resume
    /\ ownWake' = TRUE
    /\ UNCHANGED <<toAgent, fromAgent, qmp, suspends, slipped, lost>>
    /\ Environment

-----------------------------------------------------------------------------
(* The monitor's task executes one command after the other.  SystemWakeup  *)
(* does nothing to a running guest, nor SystemPowerdown to a sleeping one. *)

Executes(cmd) ==
    /\ ~DriverOver
    /\ qmp # <<>>
    /\ Head(qmp) = cmd
    /\ qmp' = Tail(qmp)
    /\ UNCHANGED <<toAgent, fromAgent, suspends, ownWake, lost>>
    /\ Environment

SystemWakeup ==
    /\ Executes("SystemWakeup")
    /\ \/ os = "Sleeping" /\ Resume /\ slipped' = (slipped \/ host # "Awake")
       \/ os # "Sleeping" /\ UNCHANGED <<os, agent, slipped>>

SystemPowerdown ==
    /\ Executes("SystemPowerdown")
    /\ os' \in IF os = "Running" THEN {"Running", "Off"} ELSE {os}
    /\ UNCHANGED <<agent, slipped>>

-----------------------------------------------------------------------------
(* logind *)

Logind == UNCHANGED <<vars, guestVars, fd, inhib, ownWake, lost>>

\* Nothing delays a sleep if there is no lock, or if the inhibitor has yet
\* to drop it for the last one.
HostPrepares ==
    /\ host = "Awake"
    /\ Len(bus) + 1 < MaxBus
    /\ host' = "Preparing"
    /\ bus' = Append(bus, TRUE)
    /\ slipped' = (fd = "none" \/ (inhib = "called" /\ Inhibitor \notin waiters))
    /\ Logind

DelayIsOver ==
    /\ host = "Preparing"
    /\ host' = "Overdue"
    /\ UNCHANGED <<bus, slipped>>
    /\ Logind

\* Nobody does anything while the host sleeps, so this wakes it, too.
HostSleeps ==
    /\ \/ host = "Preparing" /\ (fd = "none" \/ DriverOver)
       \/ host = "Overdue"
    /\ host' = "Awake"
    /\ bus' = Append(bus, FALSE)
    /\ slipped' = FALSE
    /\ Logind

-----------------------------------------------------------------------------
InhibitorNext == HostWillSleep \/ DropsLock \/ HostWokeUp

AgentHandles == AnswersPing \/ CallsSuspend \/ CallsShutdown

SuspendCallEnds == agent = "InSuspend" /\ (WindowsSleeps \/ SuspendFails)

MonitorNext == SystemWakeup \/ SystemPowerdown

WindowsNext ==
    \/ AgentStarts \/ AgentEnds \/ AgentHandles
    \/ SuspendFails \/ WindowsSleeps \/ WindowsShutsDown \/ WakesOnItsOwn

LogindNext == HostPrepares \/ DelayIsOver \/ HostSleeps

PowerNext ==
    \/ Command
    \/ \E t \in Timers : TimerTicks(t)
    \/ ReadsAgent
    \/ ReadsSuspend
    \/ InhibitorNext
    \/ MonitorNext
    \/ WindowsNext
    \/ LogindNext

PowerSpec == Init /\ PowerInit /\ [][PowerNext]_powerVars

\* The driver polls what is ready, the agent and Windows do their work, an
\* agent that is not there is started, and logind's delay comes to an end.
\* Nothing is assumed of the inhibitor: dbus.rs:43 and :48 never clear the readiness
\* of a descriptor, so that after its first event no waker is left and it is polled
\* only when something else of the join is.
PowerFairness ==
    /\ \A t \in Timers : WF_powerVars(TimerTicks(t))
    /\ WF_powerVars(ReadsAgent)
    /\ WF_powerVars(ReadsSuspend)
    /\ WF_powerVars(MonitorNext)
    /\ WF_powerVars(AgentStarts)
    /\ SF_powerVars(AgentHandles)
    /\ WF_powerVars(SuspendCallEnds)

FairPowerSpec == PowerSpec /\ PowerFairness

-----------------------------------------------------------------------------
(* Properties *)

\* The driver holds the guest for suspended (and then sends it no Suspend,
\* tells whoever asks that it sleeps, and wakes it for an entry) only
\* while it sleeps, unless Windows once woke without the driver: WAKEUP is
\* not read (monitor/mod.rs), and only an entry or a boot report leaves
\* State::Suspended (controller.rs, io_attach and ga_hello).
KnowsWhetherItSleeps == ga = "Suspended" /\ os = "Running" => ownWake

\* The lock does what it was taken for.  A sleep is excused if the delay
\* ran out, if an entry woke the guest meanwhile, if the lock was not
\* there, or already being dropped, when the sleep began, and for good
\* once Windows woke on its own.
SuspendsWithHost ==
    INSTANCE SuspendWithHost WITH
        host <- IF host = "Awake" THEN "Awake" ELSE "Preparing",
        guest <- IF os = "Running" THEN "Awake" ELSE "Asleep",
        excused <- ownWake \/ slipped \/ host = "Overdue"

SuspendsTheGuest == SuspendsWithHost!Spec

\* A boot report read after the SUSPEND event it was written before: the
\* driver takes the sleeping guest for one that is up.
AsleepUnnoticed == os = "Sleeping" /\ ga # "Suspended" /\ suspends = 0

\* Whoever waits for a suspend (suspend_senders) is answered, unless a
\* Suspend was lost with the agent or in a failed call, or Windows sleeps
\* behind the driver's back.
SuspendIsAnswered ==
    waiters # {} ~> waiters = {} \/ lost \/ AsleepUnnoticed \/ DriverOver
=============================================================================
