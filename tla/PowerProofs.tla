----------------------------- MODULE PowerProofs -----------------------------
(***************************************************************************)
(* What holds of suspending and waking for any number of timers and of     *)
(* those who wait, and for any bounds: the composition implements          *)
(* Controller, the driver knows whether its guest sleeps, and the host     *)
(* goes to sleep only after it.                                            *)
(***************************************************************************)
EXTENDS Power, ControllerProofs, SequenceTheorems

(* The handlers that are called here are the controller's.                 *)

PowerHandlers ==
    \/ IoAttach \/ LightAttach \/ Shutdown
    \/ ReportBoot \/ Pong
    \/ \E t \in Timers : Tick(t)
    \/ \E w \in Waiters : Suspend(w)

\* A step of the composition is a handler, and what it writes, or none.
LEMMA DriverSteps ==
    ASSUME PowerNext
    PROVE  \/ UNCHANGED vars
           \/ /\ \/ PowerHandlers /\ UNCHANGED suspends
                 \/ QemuSuspended /\ suspends > 0 /\ suspends' = suspends - 1
              /\ toAgent' = Sent(toAgent, toGa') /\ qmp' = Sent(qmp, toQemu')
              /\ UNCHANGED <<os, agent, host, ownWake, slipped, lost>>
              /\ ~DriverOver
<1>1. CASE Command
  BY <1>1 DEF Command, Driver, PowerHandlers
<1>2. CASE \E t \in Timers : TimerTicks(t)
  BY <1>2 DEF TimerTicks, Driver, PowerHandlers
<1>3. CASE ReadsAgent
  BY <1>3 DEF ReadsAgent, Driver, PowerHandlers
<1>4. CASE ReadsSuspend
  BY <1>4 DEF ReadsSuspend, Driver
<1>5. CASE InhibitorNext
  BY <1>5, InhibitorAssumption
     DEF InhibitorNext, HostWillSleep, DropsLock, HostWokeUp, Driver, PowerHandlers
<1>6. CASE MonitorNext
  BY <1>6 DEF MonitorNext, SystemWakeup, SystemPowerdown, Executes, Environment
<1>7. CASE WindowsNext
  BY <1>7 DEF WindowsNext, AgentHandles, AnswersPing, CallsSuspend, CallsShutdown, AgentReads,
              AgentStarts, AgentEnds, SuspendFails, WindowsSleeps, WindowsShutsDown,
              WakesOnItsOwn, Environment
<1>8. CASE LogindNext
  BY <1>8 DEF LogindNext, HostPrepares, DelayIsOver, HostSleeps, Logind
<1> QED
  BY <1>1, <1>2, <1>3, <1>4, <1>5, <1>6, <1>7, <1>8 DEF PowerNext

LEMMA HandlerIsNext ==
    ASSUME PowerHandlers \/ QemuSuspended
    PROVE  Next
BY DEF PowerHandlers, Next, ControlNext, AgentNext, TimerNext

\* The composition implements the controller's specification.
THEOREM PowerImplementsController == PowerSpec => Spec
<1>1. [PowerNext]_powerVars => [Next]_vars
  BY DriverSteps, HandlerIsNext DEF powerVars
<1> QED
  BY <1>1, PTL DEF PowerSpec, Spec

-----------------------------------------------------------------------------
(* Types *)

LEMMA SentType ==
    ASSUME NEW S, NEW q \in Seq(S \ {"nothing"}), NEW m \in S
    PROVE  Sent(q, m) \in Seq(S \ {"nothing"})
BY AppendProperties DEF Sent

\* What is left of a queue, at either end.
LEMMA PartType ==
    ASSUME NEW S, NEW q \in Seq(S), NEW n \in 0 .. Len(q)
    PROVE  SubSeq(q, n + 1, Len(q)) \in Seq(S) /\ SubSeq(q, 1, n) \in Seq(S)
<1>1. /\ n + 1 \in Int /\ Len(q) \in Int /\ n \in Int /\ 1 \in Int
      /\ \A i \in n + 1 .. Len(q) : q[i] \in S
      /\ \A i \in 1 .. n : q[i] \in S
  OBVIOUS
<1> QED
  BY <1>1, SubSeqProperties

LEMMA QueueTypes ==
    ASSUME PowerTypeOK, PowerNext, toGa' \in GaCmdOut, toQemu' \in PowerCmd
    PROVE  /\ toAgent' \in Seq(ToAgent)
           /\ fromAgent' \in Seq(FromAgent)
           /\ qmp' \in Seq(PowerCmd \ {"nothing"})
           /\ bus' \in Seq(BOOLEAN)
           /\ suspends' \in Nat
<1> USE DEF PowerTypeOK, ToAgent, FromAgent
<1>0. Sent(toAgent, toGa') \in Seq(ToAgent) /\ Sent(qmp, toQemu') \in Seq(PowerCmd \ {"nothing"})
  BY SentType
<1>1. CASE Command \/ (\E t \in Timers : TimerTicks(t))
  BY <1>0, <1>1 DEF Command, TimerTicks, Driver
<1>2. CASE ReadsAgent
  BY <1>0, <1>2, HeadTailProperties DEF ReadsAgent, Driver
<1>3. CASE ReadsSuspend
  BY <1>0, <1>3 DEF ReadsSuspend, Driver
<1>4. CASE InhibitorNext
  BY <1>0, <1>4, HeadTailProperties
     DEF InhibitorNext, HostWillSleep, DropsLock, HostWokeUp, Driver, guestVars
<1>5. CASE MonitorNext
  <2>1. qmp # <<>> /\ qmp' = Tail(qmp) /\ UNCHANGED <<toAgent, fromAgent, suspends, bus>>
    BY <1>5 DEF MonitorNext, SystemWakeup, SystemPowerdown, Executes, Environment, hostVars
  <2> QED
    BY <2>1, HeadTailProperties
<1>6. CASE WindowsNext
  <2> USE DEF Environment, hostVars
  <2>1. CASE AgentStarts
    BY <2>1, AppendProperties DEF AgentStarts
  <2>2. CASE AgentEnds
    BY <2>2, PartType DEF AgentEnds
  <2>3. CASE AnswersPing
    BY <2>3, AppendProperties, HeadTailProperties DEF AnswersPing, AgentReads
  <2>4. CASE CallsSuspend \/ CallsShutdown
    <3>1. /\ toAgent # <<>> /\ toAgent' = Tail(toAgent)
          /\ UNCHANGED <<fromAgent, qmp, suspends, bus>>
      BY <2>4 DEF CallsSuspend, CallsShutdown, AgentReads
    <3> QED
      BY <3>1, HeadTailProperties
  <2>5. CASE SuspendFails \/ WindowsSleeps \/ WindowsShutsDown \/ WakesOnItsOwn
    BY <2>5 DEF SuspendFails, WindowsSleeps, WindowsShutsDown, WakesOnItsOwn
  <2> QED
    BY <1>6, <2>1, <2>2, <2>3, <2>4, <2>5 DEF WindowsNext, AgentHandles
<1>7. CASE LogindNext
  <2>1. /\ bus' \in {bus, Append(bus, TRUE), Append(bus, FALSE)}
        /\ UNCHANGED <<toAgent, fromAgent, qmp, suspends>>
    BY <1>7 DEF LogindNext, HostPrepares, DelayIsOver, HostSleeps, Logind, guestVars
  <2>2. Append(bus, TRUE) \in Seq(BOOLEAN) /\ Append(bus, FALSE) \in Seq(BOOLEAN)
    BY AppendProperties
  <2> QED
    BY <2>1, <2>2
<1> QED
  BY <1>1, <1>2, <1>3, <1>4, <1>5, <1>6, <1>7 DEF PowerNext

StatesOK ==
    /\ os \in {"Running", "Sleeping", "Off"}
    /\ agent \in {"Absent", "Running", "InSuspend"}
    /\ host \in {"Awake", "Preparing", "Overdue"}
    /\ fd \in {"held", "none"}
    /\ inhib \in {"idle", "called", "panicked"}

LEMMA StateTypes ==
    ASSUME StatesOK, PowerNext
    PROVE  StatesOK'
<1> USE DEF StatesOK
<1>1. CASE Command \/ (\E t \in Timers : TimerTicks(t)) \/ ReadsAgent \/ ReadsSuspend
  BY <1>1 DEF Command, TimerTicks, ReadsAgent, ReadsSuspend, Driver
<1>2. CASE InhibitorNext
  BY <1>2 DEF InhibitorNext, HostWillSleep, DropsLock, HostWokeUp, Driver, guestVars
<1>3. CASE MonitorNext
  BY <1>3 DEF MonitorNext, SystemWakeup, SystemPowerdown, Executes, Environment, hostVars, Resume
<1>4. CASE WindowsNext
  BY <1>4 DEF WindowsNext, AgentHandles, AnswersPing, CallsSuspend, CallsShutdown, AgentReads,
              AgentStarts, AgentEnds, SuspendFails, WindowsSleeps, WindowsShutsDown,
              WakesOnItsOwn, Environment, hostVars, Resume
<1>5. CASE LogindNext
  BY <1>5 DEF LogindNext, HostPrepares, DelayIsOver, HostSleeps, Logind, guestVars
<1> QED
  BY <1>1, <1>2, <1>3, <1>4, <1>5 DEF PowerNext

LEMMA HistoryTypes ==
    ASSUME ownWake \in BOOLEAN, slipped \in BOOLEAN, lost \in BOOLEAN, PowerNext
    PROVE  ownWake' \in BOOLEAN /\ slipped' \in BOOLEAN /\ lost' \in BOOLEAN
<1>1. CASE Command \/ (\E t \in Timers : TimerTicks(t)) \/ ReadsAgent \/ ReadsSuspend
  BY <1>1 DEF Command, TimerTicks, ReadsAgent, ReadsSuspend, Driver
<1>2. CASE InhibitorNext
  BY <1>2 DEF InhibitorNext, HostWillSleep, DropsLock, HostWokeUp, Driver
<1>3. CASE MonitorNext
  BY <1>3 DEF MonitorNext, SystemWakeup, SystemPowerdown, Executes
<1>4. CASE WindowsNext
  <2>1. CASE AgentEnds
    BY <2>1 DEF AgentEnds
  <2>2. CASE WindowsNext /\ ~AgentEnds
    BY <2>2 DEF WindowsNext, AgentHandles, AnswersPing, CallsSuspend, CallsShutdown, AgentReads,
              AgentStarts, SuspendFails, WindowsSleeps, WindowsShutsDown, WakesOnItsOwn
  <2> QED
    BY <1>4, <2>1, <2>2
<1>5. CASE LogindNext
  BY <1>5 DEF LogindNext, HostPrepares, DelayIsOver, HostSleeps, Logind
<1> QED
  BY <1>1, <1>2, <1>3, <1>4, <1>5 DEF PowerNext

\* Every variable of the composition keeps its type; of what the handlers
\* write only commands get on their way.
THEOREM PowerTypeCorrect == PowerSpec => []PowerTypeOK
<1>1. PowerInit => PowerTypeOK
  <2>1. PowerInit => {ownWake, slipped, lost} \subseteq BOOLEAN
    BY DEF PowerInit
  <2>2. <<>> \in Seq(ToAgent) /\ <<>> \in Seq(FromAgent) /\ <<>> \in Seq(BOOLEAN)
        /\ <<>> \in Seq(PowerCmd \ {"nothing"}) /\ 0 \in Nat
    OBVIOUS
  <2> QED
    BY <2>1, <2>2 DEF PowerInit, PowerTypeOK
<1>2. TypeOK' /\ PowerTypeOK /\ [PowerNext]_powerVars => PowerTypeOK'
  <2> SUFFICES ASSUME TypeOK', PowerTypeOK, [PowerNext]_powerVars
               PROVE  PowerTypeOK'
    OBVIOUS
  <2>1. CASE UNCHANGED powerVars
    BY <2>1 DEF powerVars, guestVars, hostVars, PowerTypeOK
  <2>2. CASE PowerNext
    <3>1. StatesOK'
      BY <2>2, StateTypes DEF PowerTypeOK, StatesOK
    <3>2. {ownWake, slipped, lost}' \subseteq BOOLEAN
      BY <2>2, HistoryTypes DEF PowerTypeOK
    <3> QED
      BY <2>2, <3>1, <3>2, QueueTypes DEF PowerTypeOK, StatesOK, TypeOK
  <2> QED
    BY <2>1, <2>2
<1> QED
  BY <1>1, <1>2, PowerImplementsController, TypeCorrect, PTL DEF PowerSpec

-----------------------------------------------------------------------------
(* Whether the guest sleeps                                                *)

WakeOnWay(queue) == \E i \in DOMAIN queue : queue[i] = "SystemWakeup"

OneWake(queue) ==
    \A i, j \in DOMAIN queue : queue[i] = "SystemWakeup" /\ queue[j] = "SystemWakeup" => i = j

\* The one SUSPEND event, the belief and the one SystemWakeup follow each
\* other, and only then the guest runs again.
InTurn ==
    /\ os = "Running" => suspends = 0
    /\ os = "Running" \/ suspends > 0 => ga # "Suspended" /\ ~WakeOnWay(qmp)
    /\ suspends <= 1
    /\ ga = "Suspended" => ~WakeOnWay(qmp)
    /\ OneWake(qmp)

SleepInv == ~ownWake => InTurn

\* Of all handlers only qemu_suspended puts the guest to sleep, and what
\* wakes it takes it for awake.
LEMMA HandlerEffects ==
    ASSUME PowerHandlers
    PROVE  \/ ga = "Suspended" /\ ga' # "Suspended" /\ toQemu' = "SystemWakeup"
           \/ /\ ga' = "Suspended" => ga = "Suspended"
              /\ toQemu' \in {"nothing", "SystemPowerdown"}
<1> USE DEF Silent, Write
<1>0. NoOp => ga' = ga /\ toQemu' = "nothing"
  BY DEF NoOp, agentVars
<1>1. CASE IoAttach \/ LightAttach \/ \E w \in Waiters : Suspend(w)
  BY <1>0, <1>1 DEF IoAttach, LightAttach, Suspend, WakeForEntry, IoOnly, agentVars
<1>2. CASE Shutdown
  BY <1>2 DEF Shutdown, agentVars
<1>3. CASE ReportBoot \/ Pong
  BY <1>3 DEF ReportBoot, Pong
<1>4. CASE \E t \in Timers : Tick(t)
  BY <1>4 DEF Tick
<1> QED
  BY <1>1, <1>2, <1>3, <1>4 DEF PowerHandlers

LEMMA WakeSent ==
    ASSUME NEW q \in Seq(PowerCmd \ {"nothing"}), NEW m \in PowerCmd
    PROVE  /\ m # "SystemWakeup" => /\ WakeOnWay(Sent(q, m)) => WakeOnWay(q)
                                    /\ OneWake(q) => OneWake(Sent(q, m))
           /\ ~WakeOnWay(q) => OneWake(Sent(q, m))
<1>1. CASE m = "nothing"
  BY <1>1 DEF Sent, WakeOnWay, OneWake
<1>2. CASE m # "nothing"
  <2>1. /\ Sent(q, m) = Append(q, m)
        /\ DOMAIN Append(q, m) = DOMAIN q \cup {Len(q) + 1}
        /\ Append(q, m)[Len(q) + 1] = m
        /\ \A i \in DOMAIN q : Append(q, m)[i] = q[i]
    BY <1>2, AppendProperties DEF Sent
  <2> QED
    BY <2>1 DEF WakeOnWay, OneWake
<1> QED
  BY <1>1, <1>2

LEMMA WakeTaken ==
    ASSUME NEW q \in Seq(PowerCmd \ {"nothing"}), q # <<>>
    PROVE  /\ WakeOnWay(Tail(q)) => WakeOnWay(q)
           /\ OneWake(q) => OneWake(Tail(q))
           /\ Head(q) = "SystemWakeup" => /\ WakeOnWay(q)
                                          /\ OneWake(q) => ~WakeOnWay(Tail(q))
<1>1. ASSUME NEW i \in DOMAIN Tail(q)
      PROVE  i \in Nat /\ i + 1 \in DOMAIN q /\ q[i + 1] = Tail(q)[i] /\ i + 1 # 1
  BY HeadTailProperties
<1>2. 1 \in DOMAIN q /\ q[1] = Head(q)
  OBVIOUS
<1>3. ASSUME WakeOnWay(Tail(q)) PROVE WakeOnWay(q)
  BY <1>1, <1>3 DEF WakeOnWay
<1>4. ASSUME OneWake(q) PROVE OneWake(Tail(q))
  <2> SUFFICES ASSUME NEW i \in DOMAIN Tail(q), NEW j \in DOMAIN Tail(q),
                      Tail(q)[i] = "SystemWakeup", Tail(q)[j] = "SystemWakeup"
               PROVE  i = j
    BY DEF OneWake
  <2>1. i + 1 = j + 1
    BY <1>1, <1>4 DEF OneWake
  <2> QED
    BY <1>1, <2>1
<1>5. ASSUME Head(q) = "SystemWakeup", OneWake(q), WakeOnWay(Tail(q)) PROVE FALSE
  <2>1. PICK i \in DOMAIN Tail(q) : Tail(q)[i] = "SystemWakeup"
    BY <1>5 DEF WakeOnWay
  <2>2. i + 1 = 1
    BY <1>1, <1>2, <1>5, <2>1 DEF OneWake
  <2> QED
    BY <1>1, <2>2
<1> QED
  BY <1>2, <1>3, <1>4, <1>5 DEF WakeOnWay

LEMMA DriverKeepsTurn ==
    ASSUME PowerTypeOK, InTurn, TypeOK', UNCHANGED os, qmp' = Sent(qmp, toQemu'),
           \/ PowerHandlers /\ UNCHANGED suspends
           \/ QemuSuspended /\ suspends > 0 /\ suspends' = suspends - 1
    PROVE  InTurn'
<1> USE DEF PowerTypeOK
<1>1. CASE QemuSuspended /\ suspends > 0 /\ suspends' = suspends - 1
  <2>1. qmp' = qmp
    BY <1>1 DEF QemuSuspended, Silent, Write, Sent
  <2>2. suspends = 1 /\ os # "Running" /\ ~WakeOnWay(qmp)
    BY <1>1 DEF InTurn
  <2> QED
    BY <1>1, <2>1, <2>2 DEF InTurn
<1>2. CASE PowerHandlers /\ UNCHANGED suspends
  <2>1. CASE ga = "Suspended" /\ ga' # "Suspended" /\ toQemu' = "SystemWakeup"
    <3>1. os # "Running" /\ suspends = 0 /\ ~WakeOnWay(qmp)
      BY <2>1 DEF InTurn
    <3>2. OneWake(Sent(qmp, toQemu'))
      BY <3>1, WakeSent DEF TypeOK
    <3> QED
      BY <1>2, <2>1, <3>1, <3>2 DEF InTurn
  <2>2. CASE /\ ga' = "Suspended" => ga = "Suspended"
             /\ toQemu' \in {"nothing", "SystemPowerdown"}
    <3>1. /\ WakeOnWay(qmp') => WakeOnWay(qmp)
          /\ OneWake(qmp')
      BY <2>2, WakeSent DEF TypeOK, InTurn
    <3> QED
      BY <1>2, <2>2, <3>1 DEF InTurn
  <2> QED
    BY <1>2, <2>1, <2>2, HandlerEffects
<1> QED
  BY <1>1, <1>2

LEMMA MonitorKeepsTurn ==
    ASSUME PowerTypeOK, InTurn, MonitorNext
    PROVE  InTurn'
<1>1. /\ qmp # <<>> /\ qmp' = Tail(qmp) /\ ~DriverOver
      /\ qmp \in Seq(PowerCmd \ {"nothing"})
      /\ UNCHANGED <<ga, suspends>>
  BY DEF MonitorNext, SystemWakeup, SystemPowerdown, Executes, Environment, vars, agentVars,
         PowerTypeOK
<1>2. /\ WakeOnWay(qmp') => WakeOnWay(qmp)
      /\ OneWake(qmp')
  BY <1>1, WakeTaken DEF InTurn
<1>3. CASE os' = os \/ os' # "Running"
  BY <1>1, <1>2, <1>3 DEF InTurn
<1>4. CASE os' # os /\ os' = "Running"
  <2>1. Head(qmp) = "SystemWakeup"
    BY <1>4 DEF MonitorNext, SystemWakeup, SystemPowerdown, Executes
  <2>2. WakeOnWay(qmp) /\ ~WakeOnWay(qmp')
    BY <1>1, <2>1, WakeTaken DEF InTurn
  <2>3. ~(suspends > 0) /\ ga # "Suspended"
    BY <2>2 DEF InTurn
  <2> QED
    BY <1>1, <1>2, <2>2, <2>3 DEF InTurn, PowerTypeOK
<1> QED
  BY <1>3, <1>4

LEMMA WindowsKeepsTurn ==
    ASSUME PowerTypeOK, InTurn, ~ownWake', WindowsNext
    PROVE  InTurn'
<1>1. UNCHANGED <<ga, qmp>>
  BY DEF WindowsNext, AgentHandles, AnswersPing, CallsSuspend, CallsShutdown, AgentReads,
         AgentStarts, AgentEnds, SuspendFails, WindowsSleeps, WindowsShutsDown,
         WakesOnItsOwn, Environment, vars, agentVars
<1>2. CASE WindowsSleeps
  BY <1>1, <1>2 DEF WindowsSleeps, InTurn, PowerTypeOK
<1>3. CASE WakesOnItsOwn
  BY <1>3 DEF WakesOnItsOwn
<1>4. CASE WindowsNext /\ ~WindowsSleeps /\ ~WakesOnItsOwn
  <2>1. suspends' = suspends /\ (os' = "Running" => os = "Running")
    BY <1>4 DEF WindowsNext, AgentHandles, AnswersPing, CallsSuspend, CallsShutdown, AgentReads,
         AgentStarts, AgentEnds, SuspendFails, WindowsShutsDown
  <2> QED
    BY <1>1, <2>1 DEF InTurn
<1> QED
  BY <1>2, <1>3, <1>4

LEMMA TurnStep ==
    ASSUME PowerTypeOK, TypeOK', SleepInv, PowerNext
    PROVE  SleepInv'
<1> SUFFICES ASSUME ~ownWake' PROVE InTurn'
  BY DEF SleepInv
<1>1. ~ownWake
  <2>1. CASE UNCHANGED ownWake
    BY <2>1
  <2>2. CASE WindowsNext
    BY <2>2 DEF WindowsNext, AgentHandles, AnswersPing, CallsSuspend, CallsShutdown, AgentReads,
         AgentStarts, AgentEnds, SuspendFails, WindowsSleeps, WindowsShutsDown, WakesOnItsOwn
  <2>3. CASE MonitorNext \/ LogindNext \/ DropsLock \/ HostWokeUp
    BY <2>3 DEF MonitorNext, SystemWakeup, SystemPowerdown, Executes, LogindNext, HostPrepares,
         DelayIsOver, HostSleeps, Logind, DropsLock, HostWokeUp
  <2>4. CASE Command \/ (\E t \in Timers : TimerTicks(t)) \/ ReadsAgent \/ ReadsSuspend
             \/ HostWillSleep
    BY <2>4 DEF Command, TimerTicks, ReadsAgent, ReadsSuspend, HostWillSleep, Driver
  <2> QED
    BY <2>2, <2>3, <2>4 DEF PowerNext, InhibitorNext
<1>2. InTurn
  BY <1>1 DEF SleepInv
<1>3. CASE MonitorNext
  BY <1>2, <1>3, MonitorKeepsTurn
<1>4. CASE WindowsNext
  BY <1>2, <1>4, WindowsKeepsTurn
<1>5. CASE LogindNext \/ DropsLock \/ HostWokeUp
  <2>1. UNCHANGED <<ga, qmp, os, suspends>>
    BY <1>5 DEF LogindNext, HostPrepares, DelayIsOver, HostSleeps, Logind, DropsLock, HostWokeUp,
                vars, agentVars, guestVars
  <2> QED
    BY <1>2, <2>1 DEF InTurn
<1>6. CASE Command \/ (\E t \in Timers : TimerTicks(t)) \/ ReadsAgent \/ ReadsSuspend
           \/ HostWillSleep
  <2>1. /\ UNCHANGED os /\ qmp' = Sent(qmp, toQemu')
        /\ \/ PowerHandlers /\ UNCHANGED suspends
           \/ QemuSuspended /\ suspends > 0 /\ suspends' = suspends - 1
    BY <1>6, InhibitorAssumption
       DEF Command, TimerTicks, ReadsAgent, ReadsSuspend, HostWillSleep, Driver, PowerHandlers
  <2> QED
    BY <1>2, <2>1, DriverKeepsTurn
<1> QED
  BY <1>3, <1>4, <1>5, <1>6 DEF PowerNext, InhibitorNext

\* Event, belief and wake-up take turns, as long as Windows wakes for
\* SystemWakeup only.
THEOREM SleepInvariant == PowerSpec => []SleepInv
<1>1. Init /\ PowerInit => SleepInv
  BY DEF Init, PowerInit, SleepInv, InTurn, WakeOnWay, OneWake
<1>2. TypeOK' /\ PowerTypeOK /\ SleepInv /\ [PowerNext]_powerVars => SleepInv'
  <2>1. ASSUME SleepInv, UNCHANGED powerVars PROVE SleepInv'
    BY <2>1 DEF SleepInv, InTurn, WakeOnWay, OneWake, powerVars, vars, agentVars, guestVars
  <2> QED
    BY <2>1, TurnStep
<1> QED
  BY <1>1, <1>2, PowerTypeCorrect, PowerImplementsController, TypeCorrect, PTL DEF PowerSpec

\* The driver never takes a running guest for suspended, unless it woke
\* behind its back.
THEOREM AlwaysKnowsWhetherItSleeps == PowerSpec => []KnowsWhetherItSleeps
<1>1. SleepInv => KnowsWhetherItSleeps
  BY DEF SleepInv, InTurn, KnowsWhetherItSleeps
<1> QED
  BY <1>1, SleepInvariant, PTL

-----------------------------------------------------------------------------
(* The lock                                                                *)

\* Starts and ends of a sleep alternate on the bus, and the last signal
\* says where logind is.
Alternates == \A i, j \in DOMAIN bus : j = i + 1 => bus[j] # bus[i]

\* The next signal that the inhibitor handles is the end of a sleep.
EndIsNext == IF bus = <<>> THEN host # "Awake" ELSE ~bus[1]

BusInv ==
    /\ Alternates
    /\ bus # <<>> => (bus[Len(bus)] <=> host # "Awake")
    /\ inhib = "idle" => (fd = "none" <=> EndIsNext)
    /\ inhib = "called" => EndIsNext
    /\ inhib = "panicked" => fd = "none"

\* Nothing but the end of its delay, or an excuse, lets the host go.
Unlocked == fd = "none" \/ (inhib = "called" /\ Inhibitor \notin waiters)

LockInv ==
    host = "Preparing" /\ Unlocked => os # "Running" \/ ownWake \/ slipped

LEMMA BusTail ==
    ASSUME PowerTypeOK, Alternates, bus # <<>>, bus' = Tail(bus)
    PROVE  /\ Alternates'
           /\ bus' # <<>> => bus'[1] # bus[1] /\ bus'[Len(bus')] = bus[Len(bus)]
           /\ bus' = <<>> => bus[Len(bus)] = bus[1]
<1>1. bus \in Seq(BOOLEAN) /\ Len(bus) \in Nat /\ Len(bus) > 0
  BY DEF PowerTypeOK
<1>2. bus' \in Seq(BOOLEAN) /\ Len(bus') = Len(bus) - 1
      /\ \A i \in 1 .. Len(bus') : bus'[i] = bus[i + 1]
  BY <1>1, HeadTailProperties
<1>3. Alternates'
  <2> SUFFICES ASSUME NEW i \in DOMAIN bus', NEW j \in DOMAIN bus', j = i + 1
               PROVE  bus'[j] # bus'[i]
    BY DEF Alternates
  <2>1. i + 1 \in DOMAIN bus /\ j + 1 \in DOMAIN bus /\ j + 1 = (i + 1) + 1
    BY <1>1, <1>2
  <2>2. bus[j + 1] # bus[i + 1]
    BY <2>1 DEF Alternates
  <2> QED
    BY <1>2, <2>2
<1>4. ASSUME bus' # <<>> PROVE bus'[1] # bus[1] /\ bus'[Len(bus')] = bus[Len(bus)]
  <2>1. Len(bus') > 0 /\ 1 \in DOMAIN bus /\ 2 \in DOMAIN bus
    BY <1>1, <1>2, <1>4
  <2>2. bus[2] # bus[1]
    <3>1. 2 = 1 + 1
      OBVIOUS
    <3> QED
      BY <2>1, <3>1 DEF Alternates
  <2>3. bus'[1] = bus[2] /\ bus'[Len(bus')] = bus[Len(bus') + 1]
    BY <1>1, <1>2, <2>1
  <2>4. Len(bus') + 1 = Len(bus)
    BY <1>1, <1>2
  <2> QED
    BY <2>2, <2>3, <2>4
<1>5. ASSUME bus' = <<>> PROVE bus[Len(bus)] = bus[1]
  <2>1. Len(bus') = 0
    BY <1>2, <1>5, EmptySeq
  <2>2. Len(bus) = 1
    BY <1>1, <1>2, <2>1
  <2> QED
    BY <2>2
<1> QED
  BY <1>3, <1>4, <1>5

LEMMA BusAppend ==
    ASSUME PowerTypeOK, Alternates, NEW b \in BOOLEAN, bus' = Append(bus, b),
           bus # <<>> => bus[Len(bus)] # b
    PROVE  /\ Alternates'
           /\ bus' # <<>> /\ bus'[Len(bus')] = b
           /\ bus # <<>> => bus'[1] = bus[1]
           /\ bus = <<>> => bus'[1] = b
<1>1. bus \in Seq(BOOLEAN) /\ Len(bus) \in Nat /\ (bus # <<>> => Len(bus) > 0)
  BY DEF PowerTypeOK
<1>2. bus' \in Seq(BOOLEAN) /\ Len(bus') = Len(bus) + 1 /\ bus'[Len(bus) + 1] = b
      /\ \A i \in 1 .. Len(bus) : bus'[i] = bus[i]
  BY <1>1, AppendProperties
<1>3. Alternates'
  <2> SUFFICES ASSUME NEW i \in DOMAIN bus', NEW j \in DOMAIN bus', j = i + 1
               PROVE  bus'[j] # bus'[i]
    BY DEF Alternates
  <2>1. CASE j \in DOMAIN bus
    <3>1. i \in DOMAIN bus
      BY <1>1, <1>2, <2>1
    <3>2. bus[j] # bus[i]
      BY <2>1, <3>1 DEF Alternates
    <3> QED
      BY <1>1, <1>2, <2>1, <3>1, <3>2
  <2>2. CASE j \notin DOMAIN bus
    <3>1. j = Len(bus) + 1 /\ i = Len(bus) /\ i \in DOMAIN bus /\ bus # <<>>
      BY <1>1, <1>2, <2>2
    <3> QED
      BY <1>1, <1>2, <3>1
  <2> QED
    BY <2>1, <2>2
<1>4. bus' # <<>> /\ bus'[Len(bus')] = b
  BY <1>1, <1>2
<1>5. ASSUME bus # <<>> PROVE bus'[1] = bus[1]
  BY <1>1, <1>2, <1>5
<1>6. ASSUME bus = <<>> PROVE bus'[1] = b
  BY <1>1, <1>2, <1>6
<1> QED
  BY <1>3, <1>4, <1>5, <1>6

LEMMA InhibitorKeepsBus ==
    ASSUME PowerTypeOK, BusInv, InhibitorNext
    PROVE  BusInv'
<1>0. host' = host /\ (bus # <<>> => Head(bus) = bus[1])
  <2>1. host' = host
    BY DEF InhibitorNext, HostWillSleep, DropsLock, HostWokeUp, Driver
  <2>2. bus # <<>> => Head(bus) = bus[1]
    BY DEF PowerTypeOK
  <2> QED
    BY <2>1, <2>2
<1>1. CASE DropsLock
  <2>1. inhib = "called" /\ bus' = bus /\ fd' = "none" /\ inhib' = "idle"
    BY <1>1 DEF DropsLock
  <2> QED
    BY <1>0, <2>1 DEF BusInv, EndIsNext, Alternates
<1>2. CASE HostWillSleep
  <2>1. bus # <<>> /\ bus' = Tail(bus) /\ inhib = "idle"
    BY <1>2 DEF HostWillSleep
  <2>2. bus[1] = TRUE
    <3>1. Head(bus) /\ Head(bus) \in BOOLEAN
      BY <1>2, <2>1 DEF HostWillSleep, PowerTypeOK
    <3> QED
      BY <1>0, <2>1, <3>1
  <2>3. inhib' = "called" \/ (inhib' = "idle" /\ fd' = "none")
    <3>1. ASSUME Inhibitor \in waiters' PROVE inhib' = "called"
      BY <1>2, <3>1 DEF HostWillSleep
    <3>2. ASSUME Inhibitor \notin waiters' PROVE inhib' = inhib /\ fd' = "none"
      BY <1>2, <3>2 DEF HostWillSleep
    <3> QED
      BY <2>1, <3>1, <3>2
  <2>4. Alternates' /\ (bus' # <<>> => bus'[1] # TRUE /\ bus'[Len(bus')] = bus[Len(bus)])
        /\ (bus' = <<>> => bus[Len(bus)] = TRUE)
    BY <2>1, <2>2, BusTail DEF BusInv
  <2>5. EndIsNext'
    <3>1. bus' # <<>> => bus'[1] \in BOOLEAN
      BY <2>1, HeadTailProperties DEF PowerTypeOK
    <3> QED
      BY <1>0, <2>1, <2>4, <3>1 DEF BusInv, EndIsNext
  <2>6. bus' # <<>> => (bus'[Len(bus')] <=> host' # "Awake")
    BY <1>0, <2>1, <2>4 DEF BusInv
  <2> QED
    BY <2>3, <2>4, <2>5, <2>6 DEF BusInv
<1>3. CASE HostWokeUp
  <2>1. bus # <<>> /\ ~bus[1] /\ bus' = Tail(bus) /\ inhib = "idle"
        /\ \/ host = "Awake" /\ fd' = "held" /\ inhib' = "idle"
           \/ host # "Awake" /\ inhib' = "panicked" /\ fd' = fd
    BY <1>0, <1>3 DEF HostWokeUp
  <2>2. Alternates' /\ (bus' # <<>> => bus'[1] # FALSE /\ bus'[Len(bus')] = bus[Len(bus)])
        /\ (bus' = <<>> => bus[Len(bus)] = bus[1])
    <3>1. bus[1] = FALSE
      <4>1. bus[1] \in BOOLEAN
        BY <2>1 DEF PowerTypeOK
      <4> QED
        BY <2>1, <4>1
    <3> QED
      BY <2>1, <3>1, BusTail DEF BusInv
  <2>3. bus' # <<>> => (bus'[Len(bus')] <=> host' # "Awake")
    BY <1>0, <2>1, <2>2 DEF BusInv
  <2>4. fd = "none"
    BY <2>1 DEF BusInv, EndIsNext
  <2>5. ~EndIsNext' \/ host # "Awake"
    <3>1. bus' # <<>> => bus'[1] \in BOOLEAN
      BY <2>1, HeadTailProperties DEF PowerTypeOK
    <3> QED
      BY <1>0, <2>2, <3>1 DEF EndIsNext
  <2> QED
    BY <2>1, <2>2, <2>3, <2>4, <2>5 DEF BusInv
<1> QED
  BY <1>1, <1>2, <1>3 DEF InhibitorNext

LEMMA LogindKeepsBus ==
    ASSUME PowerTypeOK, BusInv, LogindNext
    PROVE  BusInv'
<1>0. UNCHANGED <<fd, inhib>>
  BY DEF LogindNext, HostPrepares, DelayIsOver, HostSleeps, Logind
<1>1. CASE DelayIsOver
  <2>1. bus' = bus /\ host = "Preparing" /\ host' = "Overdue"
    BY <1>1 DEF DelayIsOver
  <2> QED
    BY <1>0, <2>1 DEF BusInv, EndIsNext, Alternates
<1>2. CASE HostPrepares
  <2>1. bus' = Append(bus, TRUE) /\ host = "Awake" /\ host' = "Preparing"
    BY <1>2 DEF HostPrepares
  <2>2. bus # <<>> => bus[Len(bus)] # TRUE
    BY <2>1 DEF BusInv
  <2>3. /\ Alternates' /\ bus' # <<>> /\ bus'[Len(bus')] = TRUE
        /\ bus # <<>> => bus'[1] = bus[1]
        /\ bus = <<>> => bus'[1] = TRUE
    BY <2>1, <2>2, BusAppend DEF BusInv
  <2>4. EndIsNext' <=> EndIsNext
    BY <2>1, <2>3 DEF EndIsNext
  <2> QED
    BY <1>0, <2>1, <2>3, <2>4 DEF BusInv
<1>3. CASE HostSleeps
  <2>1. bus' = Append(bus, FALSE) /\ host # "Awake" /\ host' = "Awake"
    BY <1>3 DEF HostSleeps
  <2>2. bus # <<>> => bus[Len(bus)] # FALSE
    BY <2>1 DEF BusInv
  <2>3. /\ Alternates' /\ bus' # <<>> /\ bus'[Len(bus')] = FALSE
        /\ bus # <<>> => bus'[1] = bus[1]
        /\ bus = <<>> => bus'[1] = FALSE
    BY <2>1, <2>2, BusAppend DEF BusInv
  <2>4. EndIsNext' <=> EndIsNext
    BY <2>1, <2>3 DEF EndIsNext
  <2> QED
    BY <1>0, <2>1, <2>3, <2>4 DEF BusInv
<1> QED
  BY <1>1, <1>2, <1>3 DEF LogindNext

\* The lock is there whenever the next signal is the start of a sleep, and
\* what panicked had none.
LEMMA BusInvariant == PowerSpec => []BusInv
<1>1. PowerInit => BusInv
  BY DEF PowerInit, BusInv, EndIsNext, Alternates
<1>2. PowerTypeOK /\ BusInv /\ [PowerNext]_powerVars => BusInv'
  <2> SUFFICES ASSUME PowerTypeOK, BusInv, [PowerNext]_powerVars PROVE BusInv'
    OBVIOUS
  <2>1. CASE UNCHANGED <<host, bus, fd, inhib>>
    BY <2>1 DEF BusInv, EndIsNext, Alternates
  <2>2. CASE Command \/ (\E t \in Timers : TimerTicks(t)) \/ ReadsAgent \/ ReadsSuspend
    BY <2>1, <2>2 DEF Command, TimerTicks, ReadsAgent, ReadsSuspend, Driver
  <2>3. CASE MonitorNext \/ WindowsNext
    BY <2>1, <2>3 DEF MonitorNext, SystemWakeup, SystemPowerdown, Executes, WindowsNext,
         AgentHandles, AnswersPing, CallsSuspend, CallsShutdown, AgentReads, AgentStarts,
         AgentEnds, SuspendFails, WindowsSleeps, WindowsShutsDown, WakesOnItsOwn, Environment,
         hostVars
  <2>4. CASE UNCHANGED powerVars
    BY <2>1, <2>4 DEF powerVars, hostVars
  <2> QED
    BY <2>2, <2>3, <2>4, InhibitorKeepsBus, LogindKeepsBus DEF PowerNext
<1> QED
  BY <1>1, <1>2, PowerTypeCorrect, PTL DEF PowerSpec

\* Whom a handler lets wait.
LEMMA WaitersKept ==
    ASSUME PowerHandlers
    PROVE  waiters \subseteq waiters'
<1>0. NoOp => waiters' = waiters
  BY DEF NoOp
<1>1. CASE IoAttach \/ LightAttach
  BY <1>0, <1>1 DEF IoAttach, LightAttach, WakeForEntry, IoOnly
<1>2. CASE Shutdown \/ ReportBoot \/ Pong
  BY <1>2 DEF Shutdown, ReportBoot, Pong
<1>3. CASE \E t \in Timers : Tick(t)
  BY <1>3 DEF Tick
<1>4. CASE \E w \in Waiters : Suspend(w)
  BY <1>0, <1>4 DEF Suspend
<1> QED
  BY <1>1, <1>2, <1>3, <1>4 DEF PowerHandlers

LEMMA InhibitorKeepsLock ==
    ASSUME SleepInv, LockInv, InhibitorNext
    PROVE  LockInv'
<1>0. UNCHANGED <<os, host, ownWake, slipped>>
  BY DEF InhibitorNext, HostWillSleep, DropsLock, HostWokeUp, Driver, guestVars
<1>1. CASE DropsLock
  <2>1. Unlocked
    BY <1>1 DEF DropsLock, Unlocked
  <2> QED
    BY <1>0, <2>1 DEF LockInv
<1>2. CASE HostWillSleep
  <2>1. CASE Inhibitor \in waiters'
    <3>1. fd' = fd
      BY <1>2, <2>1 DEF HostWillSleep
    <3> QED
      BY <1>0, <2>1, <3>1 DEF LockInv, Unlocked
  <2>2. CASE Inhibitor \notin waiters'
    <3>1. Suspend(Inhibitor)
      BY <1>2 DEF HostWillSleep, Driver
    <3>2. ga = "Suspended"
      BY <2>2, <3>1 DEF Suspend
    <3>3. os # "Running" \/ ownWake
      BY <3>2 DEF SleepInv, InTurn
    <3> QED
      BY <1>0, <3>3 DEF LockInv
  <2> QED
    BY <2>1, <2>2
<1>3. CASE HostWokeUp
  <2>1. host = "Awake" \/ (fd' = fd /\ inhib' = "panicked")
    BY <1>3 DEF HostWokeUp
  <2> QED
    BY <1>0, <2>1 DEF LockInv, Unlocked
<1> QED
  BY <1>1, <1>2, <1>3 DEF InhibitorNext

LEMMA LockStep ==
    ASSUME SleepInv, LockInv, PowerNext
    PROVE  LockInv'
<1>1. CASE Command \/ (\E t \in Timers : TimerTicks(t)) \/ ReadsAgent
  <2>1. UNCHANGED <<os, host, ownWake, slipped, fd, inhib>> /\ PowerHandlers
    BY <1>1 DEF Command, TimerTicks, ReadsAgent, Driver, PowerHandlers
  <2>2. waiters \subseteq waiters'
    BY <2>1, WaitersKept
  <2> QED
    BY <2>1, <2>2 DEF LockInv, Unlocked
<1>2. CASE ReadsSuspend
  <2>1. UNCHANGED <<os, host, ownWake, slipped>> /\ suspends > 0
    BY <1>2 DEF ReadsSuspend, Driver
  <2>2. os # "Running" \/ ownWake
    BY <2>1 DEF SleepInv, InTurn
  <2> QED
    BY <2>1, <2>2 DEF LockInv
<1>3. CASE MonitorNext
  <2>1. UNCHANGED <<waiters, host, ownWake, fd, inhib>>
    BY <1>3 DEF MonitorNext, SystemWakeup, SystemPowerdown, Executes, Environment, vars, hostVars
  <2>2. \/ UNCHANGED slipped /\ (os' = "Running" => os = "Running")
        \/ slipped' \/ host = "Awake"
    BY <1>3 DEF MonitorNext, SystemWakeup, SystemPowerdown
  <2> QED
    BY <2>1, <2>2 DEF LockInv, Unlocked
<1>4. CASE WindowsNext
  <2>1. UNCHANGED <<waiters, host, slipped, fd, inhib>>
    BY <1>4 DEF WindowsNext, AgentHandles, AnswersPing, CallsSuspend, CallsShutdown, AgentReads,
         AgentStarts, AgentEnds, SuspendFails, WindowsSleeps, WindowsShutsDown, WakesOnItsOwn,
         Environment, vars, hostVars
  <2>2. ownWake' \/ (UNCHANGED ownWake /\ (os' = "Running" => os = "Running"))
    BY <1>4 DEF WindowsNext, AgentHandles, AnswersPing, CallsSuspend, CallsShutdown, AgentReads,
         AgentStarts, AgentEnds, SuspendFails, WindowsSleeps, WindowsShutsDown, WakesOnItsOwn
  <2> QED
    BY <2>1, <2>2 DEF LockInv, Unlocked
<1>5. CASE LogindNext
  <2>1. UNCHANGED <<waiters, os, ownWake, fd, inhib>>
    BY <1>5 DEF LogindNext, HostPrepares, DelayIsOver, HostSleeps, Logind, vars, guestVars
  <2>2. host' # "Preparing" \/ (slipped' <=> Unlocked)
    BY <1>5 DEF LogindNext, HostPrepares, DelayIsOver, HostSleeps, Unlocked
  <2> QED
    BY <2>1, <2>2 DEF LockInv, Unlocked
<1> QED
  BY <1>1, <1>2, <1>3, <1>4, <1>5, InhibitorKeepsLock DEF PowerNext

\* Where the lock is gone, or about to go, the guest sleeps or there is an
\* excuse.
LEMMA LockInvariant == PowerSpec => []LockInv
<1>1. PowerInit => LockInv
  BY DEF PowerInit, LockInv
<1>2. SleepInv /\ LockInv /\ [PowerNext]_powerVars => LockInv'
  <2>1. ASSUME LockInv, UNCHANGED powerVars PROVE LockInv'
    BY <2>1 DEF LockInv, Unlocked, powerVars, vars, guestVars, hostVars
  <2> QED
    BY <2>1, LockStep
<1> QED
  BY <1>1, <1>2, SleepInvariant, PTL DEF PowerSpec

\* The abstract specification's state.
Ours == <<host, os, ownWake, slipped>>

LEMMA SleepsOnlyAfterGuest ==
    ASSUME PowerTypeOK, BusInv, LockInv, HostSleeps
    PROVE  host = "Overdue" \/ os # "Running" \/ ownWake \/ slipped
<1>1. CASE fd = "none" \/ inhib = "panicked"
  BY <1>1 DEF HostSleeps, BusInv, LockInv, Unlocked
<1>2. CASE os = "Off"
  BY <1>2
<1> QED
  BY <1>1, <1>2 DEF HostSleeps, DriverOver

\* Every step is one of the abstract specification's or none.
LEMMA RefinementStep ==
    ASSUME PowerTypeOK, BusInv, LockInv, PowerNext
    PROVE  SuspendsWithHost!Next \/ UNCHANGED SuspendsWithHost!vars
<1> USE DEF SuspendsWithHost!Next, SuspendsWithHost!vars, SuspendsWithHost!Prepare,
            SuspendsWithHost!Sleep, SuspendsWithHost!GuestGoesToSleep,
            SuspendsWithHost!GuestWakesUp, SuspendsWithHost!Excuse
<1>0. CASE UNCHANGED Ours
  BY <1>0 DEF Ours
<1>1. CASE Command \/ (\E t \in Timers : TimerTicks(t)) \/ ReadsAgent \/ ReadsSuspend
           \/ InhibitorNext
  <2>1. UNCHANGED Ours
    BY <1>1 DEF Command, TimerTicks, ReadsAgent, ReadsSuspend, InhibitorNext, HostWillSleep,
                DropsLock, HostWokeUp, Driver, Ours, guestVars
  <2> QED
    BY <1>0, <2>1
<1>2. CASE MonitorNext
  <2>1. UNCHANGED <<host, ownWake>>
    BY <1>2 DEF MonitorNext, SystemWakeup, SystemPowerdown, Executes, Environment, hostVars
  <2>2. \/ UNCHANGED <<os, slipped>>
        \/ os' = "Running" /\ slipped' = (slipped \/ host # "Awake")
        \/ os' # "Running" /\ UNCHANGED slipped
    BY <1>2 DEF MonitorNext, SystemWakeup, SystemPowerdown, Resume, PowerTypeOK
  <2>3. CASE UNCHANGED <<os, slipped>>
    BY <1>0, <2>1, <2>3 DEF Ours
  <2>4. CASE os' = "Running" /\ slipped' = (slipped \/ host # "Awake")
    BY <2>1, <2>4
  <2>5. CASE os' # "Running" /\ UNCHANGED slipped
    BY <2>1, <2>5
  <2> QED
    BY <2>2, <2>3, <2>4, <2>5
<1>3. CASE WindowsNext
  <2>1. UNCHANGED <<host, slipped>>
    BY <1>3 DEF WindowsNext, AgentHandles, AnswersPing, CallsSuspend, CallsShutdown, AgentReads,
         AgentStarts, AgentEnds, SuspendFails, WindowsSleeps, WindowsShutsDown, WakesOnItsOwn,
         Environment, hostVars
  <2>2. \/ os' = "Running" /\ ownWake' = TRUE
        \/ UNCHANGED <<os, ownWake>>
        \/ os' # "Running" /\ UNCHANGED ownWake
    BY <1>3 DEF WindowsNext, AgentHandles, AnswersPing, CallsSuspend, CallsShutdown, AgentReads,
         AgentStarts, AgentEnds, SuspendFails, WindowsSleeps, WindowsShutsDown, WakesOnItsOwn,
         Resume, PowerTypeOK
  <2>3. CASE os' = "Running" /\ ownWake' = TRUE
    BY <2>1, <2>3
  <2>4. CASE UNCHANGED <<os, ownWake>>
    BY <1>0, <2>1, <2>4 DEF Ours
  <2>5. CASE os' # "Running" /\ UNCHANGED ownWake
    BY <2>1, <2>5
  <2> QED
    BY <2>2, <2>3, <2>4, <2>5
<1>4. CASE HostPrepares
  BY <1>4 DEF HostPrepares, Logind, guestVars
<1>5. CASE DelayIsOver
  BY <1>5 DEF DelayIsOver, Logind, guestVars
<1>6. CASE HostSleeps
  <2>1. /\ host # "Awake" /\ host' = "Awake"
        /\ UNCHANGED <<os, ownWake>>
    BY <1>6 DEF HostSleeps, Logind, guestVars
  <2>2. os # "Running" \/ ownWake \/ slipped \/ host = "Overdue"
    BY <1>6, SleepsOnlyAfterGuest
  <2> QED
    BY <2>1, <2>2
<1> QED
  BY <1>1, <1>2, <1>3, <1>4, <1>5, <1>6 DEF PowerNext, LogindNext

\* The inhibitor keeps its promise to logind, with the excuses that the
\* mapping names, for any number of signals and commands on their way.
THEOREM AlwaysSuspendsTheGuest == PowerSpec => SuspendsTheGuest
<1>1. PowerInit => SuspendsWithHost!Init
  BY DEF PowerInit, SuspendsWithHost!Init
<1>2. PowerTypeOK /\ BusInv /\ LockInv /\ [PowerNext]_powerVars
        => [SuspendsWithHost!Next]_SuspendsWithHost!vars
  <2>1. UNCHANGED powerVars => UNCHANGED SuspendsWithHost!vars
    BY DEF powerVars, guestVars, hostVars, SuspendsWithHost!vars
  <2> QED
    BY <2>1, RefinementStep
<1> QED
  BY <1>1, <1>2, PowerTypeCorrect, BusInvariant, LockInvariant, PTL
     DEF PowerSpec, SuspendsTheGuest, SuspendsWithHost!Spec

-----------------------------------------------------------------------------
(* Whoever waits for a suspend                                             *)

SuspendSent(queue) == \E i \in DOMAIN queue : queue[i] = "Suspend"

\* controller.rs:187 and :352, monitor/mod.rs:113: while somebody waits for a suspend,
\* the command for it is on its way to the agent, in Windows' hands, or QEMU's
\* event is on its way back, whatever boots, pings, entries and wake-ups came in
\* between, unless a Suspend was lost or Windows is off.
SuspendUnderWay ==
    waiters # {} =>
        \/ SuspendSent(toAgent)
        \/ os = "Running" /\ agent = "InSuspend"
        \/ suspends > 0
        \/ lost \/ os = "Off"

\* The agent of this repository never announces that it suspends.
Unannounced == ga # "Suspending"

SuspendInv == Unannounced /\ SuspendUnderWay

LEMMA SuspendStays ==
    ASSUME NEW q \in Seq(ToAgent), NEW m \in GaCmdOut
    PROVE  /\ SuspendSent(q) => SuspendSent(Sent(q, m))
           /\ m = "Suspend" => SuspendSent(Sent(q, m))
<1>1. CASE m = "nothing"
  BY <1>1 DEF Sent
<1>2. CASE m # "nothing"
  <2>1. /\ Sent(q, m) = Append(q, m)
        /\ DOMAIN Append(q, m) = DOMAIN q \cup {Len(q) + 1}
        /\ Append(q, m)[Len(q) + 1] = m
        /\ \A i \in DOMAIN q : Append(q, m)[i] = q[i]
    BY <1>2, AppendProperties DEF Sent, ToAgent
  <2> QED
    BY <2>1 DEF SuspendSent
<1> QED
  BY <1>1, <1>2

\* A handler that lets somebody wait for a suspend asks for one.
LEMMA HandlerAsks ==
    ASSUME Unannounced, PowerHandlers
    PROVE  Unannounced' /\ (waiters' = waiters \/ toGa' = "Suspend")
<1> USE DEF Silent, Write, Unannounced
<1>0. NoOp => ga' = ga /\ waiters' = waiters
  BY DEF NoOp, agentVars
<1>1. CASE IoAttach \/ LightAttach
  BY <1>0, <1>1 DEF IoAttach, LightAttach, WakeForEntry, IoOnly, agentVars
<1>2. CASE Shutdown \/ ReportBoot \/ Pong
  BY <1>2 DEF Shutdown, ReportBoot, Pong, agentVars
<1>3. CASE \E t \in Timers : Tick(t)
  BY <1>3 DEF Tick
<1>4. CASE \E w \in Waiters : Suspend(w)
  BY <1>0, <1>4 DEF Suspend, agentVars
<1> QED
  BY <1>1, <1>2, <1>3, <1>4 DEF PowerHandlers

\* What stays behind when the agent ends, or has read its next message.
LEMMA SuspendLeft ==
    ASSUME NEW q \in Seq(ToAgent), NEW n \in 0 .. Len(q), SuspendSent(q)
    PROVE  SuspendSent(SubSeq(q, n + 1, Len(q))) \/ \E i \in 1 .. n : q[i] = "Suspend"
<1>1. PICK i \in DOMAIN q : q[i] = "Suspend"
  BY DEF SuspendSent
<1>2. CASE i \in 1 .. n
  BY <1>1, <1>2
<1>3. CASE i \notin 1 .. n
  <2> DEFINE r == SubSeq(q, n + 1, Len(q))
  <2>1. i \in Nat /\ n \in Nat /\ Len(q) \in Nat /\ n + 1 <= i /\ i <= Len(q)
    BY <1>1, <1>3
  <2>2. i - n \in 1 .. Len(q) - n /\ (n + 1) + (i - n) - 1 = i
    BY <2>1
  <2>3. DOMAIN r = 1 .. Len(q) - n /\ \A j \in 1 .. Len(q) - n : r[j] = q[(n + 1) + j - 1]
    BY <2>1
  <2>4. r[i - n] = "Suspend"
    BY <1>1, <2>2, <2>3
  <2> QED
    BY <2>2, <2>3, <2>4 DEF SuspendSent
<1> QED
  BY <1>2, <1>3

LEMMA SuspendRead ==
    ASSUME NEW q \in Seq(ToAgent), q # <<>>, SuspendSent(q), Head(q) # "Suspend"
    PROVE  SuspendSent(Tail(q))
<1>1. PICK i \in DOMAIN q : q[i] = "Suspend"
  BY DEF SuspendSent
<1>2. i - 1 \in DOMAIN Tail(q) /\ Tail(q)[i - 1] = q[i]
  BY <1>1
<1> QED
  BY <1>1, <1>2 DEF SuspendSent

LEMMA WindowsKeepsSuspend ==
    ASSUME PowerTypeOK, SuspendUnderWay, WindowsNext
    PROVE  SuspendUnderWay'
<1> USE DEF PowerTypeOK
<1>0. waiters' = waiters
  BY DEF WindowsNext, AgentHandles, AnswersPing, CallsSuspend, CallsShutdown, AgentReads,
         AgentStarts, AgentEnds, SuspendFails, WindowsSleeps, WindowsShutsDown,
         WakesOnItsOwn, Environment, vars
<1> SUFFICES ASSUME waiters # {}
             PROVE  \/ SuspendSent(toAgent)' \/ (os = "Running" /\ agent = "InSuspend")'
                    \/ (suspends > 0)' \/ lost' \/ (os = "Off")'
  BY <1>0 DEF SuspendUnderWay
<1>1. CASE AgentStarts
  BY <1>1 DEF AgentStarts, SuspendUnderWay
<1>2. CASE AgentEnds
  <2>1. PICK n \in 0 .. Len(toAgent) :
          /\ toAgent' = SubSeq(toAgent, n + 1, Len(toAgent))
          /\ lost' = (lost \/ agent = "InSuspend" \/ \E i \in 1 .. n : toAgent[i] = "Suspend")
    BY <1>2 DEF AgentEnds
  <2>2. os = "Running" /\ UNCHANGED suspends
    BY <1>2 DEF AgentEnds
  <2> QED
    BY <2>1, <2>2, SuspendLeft DEF SuspendUnderWay
<1>3. CASE AnswersPing \/ CallsShutdown
  <2>1. /\ toAgent # <<>> /\ Head(toAgent) # "Suspend" /\ toAgent' = Tail(toAgent)
        /\ os = "Running" /\ agent = "Running" /\ UNCHANGED <<suspends, lost>>
    BY <1>3 DEF AnswersPing, CallsShutdown, AgentReads
  <2> QED
    BY <2>1, SuspendRead DEF SuspendUnderWay
<1>4. CASE CallsSuspend
  BY <1>4 DEF CallsSuspend, AgentReads
<1>5. CASE SuspendFails \/ WindowsShutsDown
  BY <1>5 DEF SuspendFails, WindowsShutsDown
<1>6. CASE WindowsSleeps
  BY <1>6 DEF WindowsSleeps
<1>7. CASE WakesOnItsOwn
  BY <1>7 DEF WakesOnItsOwn, SuspendUnderWay
<1> QED
  BY <1>1, <1>2, <1>3, <1>4, <1>5, <1>6, <1>7 DEF WindowsNext, AgentHandles

LEMMA SuspendStep ==
    ASSUME PowerTypeOK, SuspendInv, toGa' \in GaCmdOut, PowerNext
    PROVE  SuspendInv'
<1> USE DEF PowerTypeOK, SuspendInv
<1>1. CASE WindowsNext
  <2>1. ga' = ga
    BY <1>1 DEF WindowsNext, AgentHandles, AnswersPing, CallsSuspend, CallsShutdown, AgentReads,
         AgentStarts, AgentEnds, SuspendFails, WindowsSleeps, WindowsShutsDown,
         WakesOnItsOwn, Environment, vars, agentVars
  <2> QED
    BY <1>1, <2>1, WindowsKeepsSuspend DEF Unannounced
<1>2. CASE MonitorNext
  <2>1. /\ UNCHANGED <<ga, waiters, toAgent, suspends, lost>>
        /\ UNCHANGED <<os, agent>> \/ os = "Sleeping" \/ (os = "Running" /\ os' = "Off")
    BY <1>2 DEF MonitorNext, SystemWakeup, SystemPowerdown, Executes, Environment, vars, agentVars
  <2> QED
    BY <2>1 DEF Unannounced, SuspendUnderWay
<1>3. CASE LogindNext \/ DropsLock \/ HostWokeUp
  <2>1. UNCHANGED <<ga, waiters, guestVars, lost>>
    BY <1>3 DEF LogindNext, HostPrepares, DelayIsOver, HostSleeps, Logind, DropsLock, HostWokeUp,
                vars, agentVars
  <2> QED
    BY <2>1 DEF Unannounced, SuspendUnderWay, guestVars
<1>4. CASE UNCHANGED vars /\ ~WindowsNext /\ ~MonitorNext /\ ~LogindNext /\ ~DropsLock /\ ~HostWokeUp
  <2>1. /\ toAgent' = Sent(toAgent, toGa') /\ UNCHANGED <<os, agent, lost, ga, waiters>>
        /\ suspends' = suspends \/ waiters' = {}
    BY <1>4 DEF PowerNext, InhibitorNext, Command, TimerTicks, ReadsAgent, ReadsSuspend,
                HostWillSleep, Driver, vars, agentVars, QemuSuspended
  <2> QED
    BY <2>1, SuspendStays DEF Unannounced, SuspendUnderWay
<1>5. CASE /\ toAgent' = Sent(toAgent, toGa')
           /\ UNCHANGED <<os, agent, lost>>
           /\ PowerHandlers /\ UNCHANGED suspends
  BY <1>5, HandlerAsks, SuspendStays DEF SuspendUnderWay
<1>6. CASE QemuSuspended
  BY <1>6 DEF QemuSuspended, SuspendUnderWay, Unannounced
<1> QED
  BY <1>1, <1>2, <1>3, <1>4, <1>5, <1>6, DriverSteps

\* The safety of the answer to a suspend: nobody waits for one that nobody has in
\* hand.
THEOREM SuspendAlwaysUnderWay == PowerSpec => []SuspendUnderWay
<1>1. Init /\ PowerInit => SuspendInv
  BY DEF Init, SuspendInv, Unannounced, SuspendUnderWay
<1>2. TypeOK' /\ PowerTypeOK /\ SuspendInv /\ [PowerNext]_powerVars => SuspendInv'
  <2>1. ASSUME SuspendInv, UNCHANGED powerVars PROVE SuspendInv'
    BY <2>1 DEF SuspendInv, Unannounced, SuspendUnderWay, powerVars, vars, agentVars, guestVars
  <2>2. TypeOK' => toGa' \in GaCmdOut
    BY DEF TypeOK
  <2> QED
    BY <2>1, <2>2, SuspendStep
<1>3. SuspendInv => SuspendUnderWay
  BY DEF SuspendInv
<1> QED
  BY <1>1, <1>2, <1>3, PowerTypeCorrect, PowerImplementsController, TypeCorrect, PTL DEF PowerSpec

\* controller.rs:187: who is told that the guest is suspended, the inhibitor among
\* them, is told while it sleeps or is off, unless Windows once woke without the
\* driver.
AnsweredWhileAsleep ==
    [][~(waiters \subseteq waiters') => os # "Running" \/ ownWake]_powerVars

\* sleep_inhibitor.rs:49 and controller.rs:340 rely on it: no answer to a suspend
\* comes early.
THEOREM AlwaysAnsweredWhileAsleep == PowerSpec => AnsweredWhileAsleep
<1> DEFINE A == ~(waiters \subseteq waiters') => os # "Running" \/ ownWake
<1>1. SleepInv /\ PowerNext => A
  <2> SUFFICES ASSUME SleepInv, PowerNext, ~(waiters \subseteq waiters')
               PROVE  os # "Running" \/ ownWake
    OBVIOUS
  <2>1. waiters' # waiters /\ ~PowerHandlers
    BY WaitersKept
  <2>2. suspends > 0
    BY <2>1, DriverSteps DEF vars
  <2> QED
    BY <2>2 DEF SleepInv, InTurn
<1>2. SleepInv /\ [PowerNext]_powerVars => [A]_powerVars
  BY <1>1
<1> QED
  BY <1>2, SleepInvariant, PTL DEF PowerSpec, AnsweredWhileAsleep
=============================================================================
