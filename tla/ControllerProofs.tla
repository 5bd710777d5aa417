-------------------------- MODULE ControllerProofs --------------------------
(***************************************************************************)
(* What Controller promises for every number of devices, timers, waiters   *)
(* and temporary entries, and for every bound on the channels.             *)
(*                                                                         *)
(* The four operators that enter and leave (EnterLight, IoForceAttach,     *)
(* IoDetach, AwaitAgent) are shown once to keep the types of ioVars; the   *)
(* handlers, which are built from them, follow.                            *)
(***************************************************************************)
EXTENDS Controller, TLAPS

IoTypeOK ==
    /\ io \in IoState
    /\ tempSender \in Senders \cup {NoSender}
    /\ entryChan \in [Senders -> Seq(EntryMsg)]
    /\ grabs \in Nat
    /\ usb \subseteq Devices
    /\ demoted \in BOOLEAN

\* The sender is kept exactly as long as the entry it belongs to.
SenderKept == io = "TemporaryLightEntry" <=> tempSender # NoSender

-----------------------------------------------------------------------------
(* Types *)

LEMMA ChannelAppend ==
    ASSUME entryChan \in [Senders -> Seq(EntryMsg)],
           NEW s \in Senders, NEW m \in EntryMsg
    PROVE  [entryChan EXCEPT ![s] = Append(@, m)] \in [Senders -> Seq(EntryMsg)]
<1>1. entryChan[s] \in Seq(EntryMsg)
  OBVIOUS
<1>2. Append(entryChan[s], m) \in Seq(EntryMsg)
  BY <1>1
<1> QED
  BY <1>2

LEMMA EnterLightTypes ==
    ASSUME IoTypeOK, SenderKept, EnterLight
    PROVE  IoTypeOK' /\ SenderKept'
BY DEF IoTypeOK, SenderKept, EnterLight, ResumeIfDetached, IoState

LEMMA IoDetachTypes ==
    ASSUME IoTypeOK, IoDetach
    PROVE  IoTypeOK' /\ SenderKept'
BY DEF IoTypeOK, SenderKept, IoDetach, LeaveEntry, IoState

\* temporary_exit detaches or does nothing.
LEMMA TemporaryExitCases ==
    ASSUME TemporaryExit
    PROVE  IoDetach \/ UNCHANGED ioVars
BY DEF TemporaryExit, LeaveTemporary, IoDetach, ioVars

LEMMA AwaitAgentTypes ==
    ASSUME IoTypeOK, AwaitAgent
    PROVE  IoTypeOK' /\ SenderKept'
BY DEF IoTypeOK, SenderKept, AwaitAgent, ResumeIfDetached, IoState

LEMMA IoForceAttachTypes ==
    ASSUME IoTypeOK, SenderKept, IoForceAttach
    PROVE  IoTypeOK' /\ SenderKept'
<1>1. CASE io = "FullEntry"
  BY <1>1 DEF IoForceAttach, IoTypeOK, SenderKept, ioVars, entryVars
<1>2. CASE io # "FullEntry"
  <2>1. usb' \subseteq Devices
    BY <1>2 DEF IoForceAttach, Resolvable, IoTypeOK
  <2>2. entryChan' \in [Senders -> Seq(EntryMsg)]
    <3>1. CASE io = "TemporaryLightEntry"
      <4>1. tempSender \in Senders
        BY <3>1 DEF IoTypeOK, SenderKept
      <4>2. entryChan' = [entryChan EXCEPT ![tempSender] =
                            Append(@, "TemporaryLightDetached")]
        BY <1>2, <3>1 DEF IoForceAttach
      <4> QED
        BY <4>1, <4>2, ChannelAppend DEF IoTypeOK, EntryMsg
    <3>2. CASE io # "TemporaryLightEntry"
      BY <1>2, <3>2 DEF IoForceAttach, IoTypeOK
    <3> QED
      BY <3>1, <3>2
  <2>3. /\ io' \in IoState
        /\ tempSender' \in Senders \cup {NoSender}
        /\ grabs' \in Nat
        /\ demoted' \in BOOLEAN
        /\ SenderKept'
    BY <1>2 DEF IoForceAttach, IoTypeOK, IoState, SenderKept
  <2> QED
    BY <2>1, <2>2, <2>3 DEF IoTypeOK
<1> QED
  BY <1>1, <1>2

\* The part of TypeOK that is about neither ioVars nor the outputs.
AgentTypeOK ==
    /\ ga \in State
    /\ timers \subseteq Timers
    /\ waiters \subseteq Waiters
    /\ pinger \in Timers \cup {NoTimer}
    /\ bootInSuspend \in BOOLEAN

OutputsOK == toGa \in GaCmdOut /\ toQemu \in PowerCmd

TypeInv == IoTypeOK /\ AgentTypeOK /\ OutputsOK /\ SenderKept

LEMMA StepIo ==
    ASSUME IoTypeOK, SenderKept, Next
    PROVE  IoTypeOK' /\ SenderKept'
<1>0. ASSUME UNCHANGED ioVars PROVE IoTypeOK' /\ SenderKept'
  BY <1>0 DEF IoTypeOK, SenderKept, ioVars, entryVars
<1>1. ASSUME NEW resuming, WakeForEntry(resuming) PROVE UNCHANGED ioVars
  BY <1>1 DEF WakeForEntry
<1>2. CASE IoAttach
  BY <1>0, <1>1, <1>2, AwaitAgentTypes, IoForceAttachTypes DEF IoAttach, IoOnly, NoOp
<1>3. CASE TryAttach
  BY <1>0, <1>3, IoForceAttachTypes DEF TryAttach, IoOnly, NoOp
<1>4. CASE LightAttach
  BY <1>0, <1>1, <1>4, EnterLightTypes DEF LightAttach, IoOnly, NoOp
<1>5. CASE IoOnly(IoForceAttach)
  BY <1>5, IoForceAttachTypes DEF IoOnly
<1>6. CASE IoOnly(IoDetach)
  BY <1>6, IoDetachTypes DEF IoOnly
<1>7. CASE IoOnly(TemporaryExit)
  BY <1>0, <1>7, IoDetachTypes, TemporaryExitCases DEF IoOnly
<1>8. CASE Shutdown
  BY <1>0, <1>8 DEF Shutdown
<1>9. ASSUME NEW s \in Senders, TemporaryEntry(s) PROVE IoTypeOK' /\ SenderKept'
  BY <1>9, NoSenderAssumption
     DEF TemporaryEntry, ResumeIfDetached, IoTypeOK, SenderKept, IoState
<1>10. ASSUME NEW w \in Waiters, Suspend(w) PROVE IoTypeOK' /\ SenderKept'
  BY <1>0, <1>10 DEF Suspend, NoOp
<1>11. CASE ReportBoot
  BY <1>0, <1>11, IoForceAttachTypes, EnterLightTypes DEF ReportBoot
<1>12. CASE GaSuspending
  BY <1>12, IoDetachTypes DEF GaSuspending
<1>13. CASE Pong
  BY <1>0, <1>13 DEF Pong
<1>14. CASE MouseEdged
  <2>1. CASE io = "TemporaryLightEntry"
    <3>1. tempSender \in Senders
      BY <2>1 DEF IoTypeOK, SenderKept
    <3>2. entryChan' = [entryChan EXCEPT ![tempSender] = Append(@, "MouseEdged")]
      BY <1>14, <2>1 DEF MouseEdged, NoOp, entryVars
    <3>3. entryChan' \in [Senders -> Seq(EntryMsg)]
      BY <3>1, <3>2, ChannelAppend DEF IoTypeOK, EntryMsg
    <3> QED
      BY <1>14, <2>1, <3>3 DEF MouseEdged, entryVars, IoTypeOK, SenderKept
  <2>2. CASE io # "TemporaryLightEntry"
    BY <1>0, <1>14, <2>2 DEF MouseEdged, NoOp, ioVars, entryVars
  <2> QED
    BY <2>1, <2>2
<1>15. ASSUME NEW a \in HotKeyAction, Hotkey(a) PROVE IoTypeOK' /\ SenderKept'
  BY <1>0, <1>2, <1>5, <1>6, <1>15 DEF Hotkey, NoOp
<1>16. ASSUME NEW t \in Timers, Tick(t) PROVE IoTypeOK' /\ SenderKept'
  BY <1>0, <1>16, IoDetachTypes DEF Tick
<1>17. CASE QemuSuspended
  BY <1>0, <1>17 DEF QemuSuspended
<1>18. ASSUME NEW s \in Senders, EntryPoll(s) \/ EntryOver(s)
       PROVE  IoTypeOK' /\ SenderKept'
  <2>1. entryChan' = [entryChan EXCEPT ![s] = <<>>]
    BY <1>18 DEF EntryPoll, EntryOver
  <2>2. entryChan' \in [Senders -> Seq(EntryMsg)]
    BY <2>1 DEF IoTypeOK
  <2> QED
    BY <1>18, <2>2 DEF EntryPoll, EntryOver, LeaveTemporary, LeaveEntry, entryVars, IoTypeOK, IoState, SenderKept
<1> QED
  BY <1>2, <1>3, <1>4, <1>5, <1>6, <1>7, <1>8, <1>9, <1>10, <1>11, <1>12, <1>13,
     <1>14, <1>15, <1>16, <1>17, <1>18
     DEF Next, ControlNext, AgentNext, TimerNext, TaskNext

LEMMA StepAgent ==
    ASSUME AgentTypeOK, Next
    PROVE  AgentTypeOK'
<1>0. ASSUME UNCHANGED <<agentVars, waiters>> PROVE AgentTypeOK'
  BY <1>0 DEF AgentTypeOK, agentVars
<1>1. ASSUME NEW resuming \in {"ResumingFull", "ResumingLight"}, WakeForEntry(resuming)
      PROVE  AgentTypeOK'
  BY <1>1 DEF WakeForEntry, AgentTypeOK, State
<1>2. CASE IoAttach
  BY <1>0, <1>1, <1>2 DEF IoAttach, IoOnly, NoOp
<1>3. CASE TryAttach
  BY <1>0, <1>3 DEF TryAttach, IoOnly, NoOp
<1>4. CASE LightAttach
  BY <1>0, <1>1, <1>4 DEF LightAttach, IoOnly, NoOp
<1>5. CASE IoOnly(IoForceAttach) \/ IoOnly(IoDetach) \/ IoOnly(TemporaryExit)
  BY <1>0, <1>5 DEF IoOnly
<1>8. CASE Shutdown
  BY <1>8 DEF Shutdown, AgentTypeOK, agentVars
<1>9. ASSUME NEW s \in Senders, TemporaryEntry(s) PROVE AgentTypeOK'
  BY <1>0, <1>9 DEF TemporaryEntry
<1>10. ASSUME NEW w \in Waiters, Suspend(w) PROVE AgentTypeOK'
  <2>1. CASE ga = "Suspended"
    BY <1>0, <1>10, <2>1 DEF Suspend, NoOp
  <2>2. CASE ga # "Suspended"
    BY <1>10, <2>2 DEF Suspend, AgentTypeOK, agentVars
  <2> QED
    BY <2>1, <2>2
<1>11. CASE ReportBoot
  BY <1>11 DEF ReportBoot, SpawnTimer, AgentTypeOK, State
<1>12. CASE GaSuspending
  BY <1>12 DEF GaSuspending, AgentTypeOK, State
<1>13. CASE Pong
  BY <1>13 DEF Pong, AgentTypeOK, State
<1>14. CASE MouseEdged
  BY <1>0, <1>14 DEF MouseEdged, NoOp, entryVars
<1>15. ASSUME NEW a \in HotKeyAction, Hotkey(a) PROVE AgentTypeOK'
  BY <1>0, <1>2, <1>5, <1>15 DEF Hotkey, NoOp
<1>16. ASSUME NEW t \in Timers, Tick(t) PROVE AgentTypeOK'
  <2>1. CASE ga = "Up"
    BY <1>16, <2>1 DEF Tick, AgentTypeOK, State, Alive
  <2>2. CASE ga # "Up"
    BY <1>16, <2>2 DEF Tick, AgentTypeOK, State, Alive
  <2> QED
    BY <2>1, <2>2
<1>17. CASE QemuSuspended
  BY <1>17 DEF QemuSuspended, AgentTypeOK, State
<1>18. ASSUME NEW s \in Senders, EntryPoll(s) \/ EntryOver(s) PROVE AgentTypeOK'
  BY <1>0, <1>18 DEF EntryPoll, EntryOver
<1> QED
  BY <1>2, <1>3, <1>4, <1>5, <1>8, <1>9, <1>10, <1>11, <1>12, <1>13,
     <1>14, <1>15, <1>16, <1>17, <1>18
     DEF Next, ControlNext, AgentNext, TimerNext, TaskNext

LEMMA StepOutputs ==
    ASSUME Next
    PROVE  toGa' \in GaCmdOut /\ toQemu' \in PowerCmd
<1> USE DEF Silent, Write, GaCmdOut, PowerCmd
<1>0. NoOp => toGa' \in GaCmdOut /\ toQemu' \in PowerCmd
  BY DEF NoOp
<1>1. CASE ControlNext
  BY <1>0, <1>1
     DEF ControlNext, IoAttach, TryAttach, LightAttach, IoOnly, WakeForEntry, Shutdown,
         TemporaryEntry, Suspend
<1>2. CASE AgentNext
  BY <1>0, <1>2
     DEF AgentNext, ReportBoot, GaSuspending, Pong, MouseEdged, Hotkey, IoAttach,
         IoOnly, WakeForEntry
<1>3. CASE TimerNext \/ QemuSuspended \/ TaskNext
  BY <1>3 DEF TimerNext, Tick, QemuSuspended, TaskNext, EntryPoll, EntryOver
<1> QED
  BY <1>1, <1>2, <1>3 DEF Next

LEMMA TypeInvInvariant == Spec => []TypeInv
<1>1. Init => TypeInv
  <2>1. Init => entryChan \in [Senders -> Seq(EntryMsg)]
    BY DEF Init
  <2>2. Init => SenderKept
    BY DEF Init, SenderKept
  <2>3. Init => IoTypeOK
    <3>1. Init => demoted \in BOOLEAN
      BY DEF Init
    <3>2. Init => /\ io \in IoState
                  /\ tempSender \in Senders \cup {NoSender}
                  /\ grabs \in Nat
                  /\ usb \subseteq Devices
      BY DEF Init, IoState
    <3> QED
      BY <2>1, <3>1, <3>2 DEF IoTypeOK
  <2>4. Init => AgentTypeOK
    BY DEF Init, AgentTypeOK, State
  <2> QED
    BY <2>2, <2>3, <2>4 DEF TypeInv, Init, OutputsOK, GaCmdOut, PowerCmd
<1>2. TypeInv /\ [Next]_vars => TypeInv'
  <2>1. CASE Next
    BY <2>1, StepIo, StepAgent, StepOutputs DEF TypeInv, OutputsOK
  <2>2. CASE UNCHANGED vars
    BY <2>2 DEF vars, ioVars, entryVars, agentVars, TypeInv, IoTypeOK, AgentTypeOK, OutputsOK, SenderKept
  <2> QED
    BY <2>1, <2>2
<1> QED
  BY <1>1, <1>2, PTL DEF Spec

\* Every variable keeps its type, whatever the handlers do in whatever order.
THEOREM TypeCorrect == Spec => []TypeOK
<1>1. TypeInv => TypeOK
  BY DEF TypeInv, IoTypeOK, AgentTypeOK, OutputsOK, TypeOK
<1> QED
  BY <1>1, TypeInvInvariant, PTL

-----------------------------------------------------------------------------
(* Entries and the agent.  None of these facts is inductive alone: that a  *)
(* detached user holds no input needs that the entries before it held it   *)
(* once, and that an upgrade does not wait for a GA that is Up needs what  *)
(* every step that makes it Up does with io.                               *)

EntryInv ==
    /\ InputReleased
    /\ LightEntryHasInput
    /\ DevicesMatchEntry
    /\ UpgradePending
    /\ TemporaryNeedsAgent
    /\ SuspendingHoldsNoInput

LEMMA ForceAttachEffect ==
    ASSUME IoTypeOK, InputReleased, IoForceAttach
    PROVE  io' = "FullEntry" /\ grabs' = 0
BY DEF IoTypeOK, IoState, InputReleased, IoForceAttach, Light, ioVars, entryVars

LEMMA StepEntry ==
    ASSUME TypeInv, EntryInv, Next
    PROVE  EntryInv'
<1> USE DEF EntryInv, InputReleased, LightEntryHasInput, DevicesMatchEntry,
            UpgradePending, TemporaryNeedsAgent, SuspendingHoldsNoInput,
            Light, Alive
<1>t. /\ IoTypeOK
      /\ ga \in State
      /\ io \in IoState
      /\ grabs \in Nat
  BY DEF TypeInv, IoTypeOK, AgentTypeOK
<1>0. ASSUME UNCHANGED <<io, grabs, usb, demoted>>, UNCHANGED ga PROVE EntryInv'
  BY <1>0
<1>1. ASSUME NEW resuming \in {"ResumingFull", "ResumingLight"}, WakeForEntry(resuming)
      PROVE  EntryInv'
  BY <1>1 DEF WakeForEntry, ioVars, entryVars
<1>2. CASE IoAttach
  <2>1. CASE IoOnly(AwaitAgent)
    <3>1. /\ ga = "Down" /\ ga' = "Down"
          /\ io' = "AwaitingUpgrade"
          /\ grabs' = IF io = "Detached" THEN grabs + 1 ELSE grabs
          /\ usb' = usb
      BY <2>1 DEF IoOnly, AwaitAgent, ResumeIfDetached, agentVars
    <3>2. demoted' <=> (demoted \/ io = "FullEntry")
      BY <2>1, Zenon DEF IoOnly, AwaitAgent
    <3> QED
      BY <1>t, <3>1, <3>2 DEF IoState
  <2>2. CASE ga \in Alive /\ IoOnly(IoForceAttach)
    BY <1>t, <2>2, ForceAttachEffect DEF IoOnly, agentVars
  <2> QED
    BY <1>0, <1>1, <1>2, <2>1, <2>2 DEF IoAttach, NoOp, ioVars, entryVars, agentVars
<1>3. CASE TryAttach
  BY <1>0, <1>t, <1>3, ForceAttachEffect DEF TryAttach, IoOnly, NoOp, ioVars, entryVars, agentVars
<1>4. CASE LightAttach
  <2>1. CASE ga \notin {"Suspending", "Suspended"} /\ IoOnly(EnterLight)
    BY <1>t, <2>1 DEF IoOnly, EnterLight, ResumeIfDetached, agentVars, IoState
  <2> QED
    BY <1>0, <1>1, <1>4, <2>1 DEF LightAttach, NoOp, ioVars, entryVars, agentVars
<1>5. CASE IoOnly(IoForceAttach)
  BY <1>t, <1>5, ForceAttachEffect DEF IoOnly, agentVars
<1>6. CASE IoOnly(IoDetach)
  BY <1>t, <1>6 DEF IoOnly, IoDetach, LeaveEntry, agentVars, IoState
<1>7. CASE IoOnly(TemporaryExit)
  BY <1>0, <1>6, <1>7, TemporaryExitCases DEF IoOnly, ioVars, entryVars, agentVars
<1>8. CASE Shutdown
  BY <1>8 DEF Shutdown, ioVars, entryVars, agentVars
<1>9. ASSUME NEW s \in Senders, TemporaryEntry(s) PROVE EntryInv'
  BY <1>t, <1>9 DEF TemporaryEntry, ResumeIfDetached, agentVars
<1>10. ASSUME NEW w \in Waiters, Suspend(w) PROVE EntryInv'
  BY <1>10 DEF Suspend, NoOp, ioVars, entryVars, agentVars
<1>11. CASE ReportBoot
  BY <1>t, <1>11
     DEF ReportBoot, IoForceAttach, EnterLight, ResumeIfDetached, ioVars, entryVars, State, IoState
<1>12. CASE GaSuspending
  BY <1>t, <1>12 DEF GaSuspending, IoDetach, LeaveEntry, IoState
<1>13. CASE Pong
  BY <1>t, <1>13 DEF Pong, ioVars, entryVars
<1>14. CASE MouseEdged
  BY <1>0, <1>14 DEF MouseEdged, NoOp, ioVars, entryVars, agentVars
<1>15. ASSUME NEW a \in HotKeyAction, Hotkey(a) PROVE EntryInv'
  BY <1>0, <1>2, <1>5, <1>6, <1>15 DEF Hotkey, NoOp, ioVars, entryVars, agentVars
<1>16. ASSUME NEW t \in Timers, Tick(t) PROVE EntryInv'
  BY <1>t, <1>16 DEF Tick, IoDetach, LeaveEntry, ioVars, entryVars, IoState
<1>17. CASE QemuSuspended
  BY <1>t, <1>17 DEF QemuSuspended, ioVars, entryVars
<1>18. ASSUME NEW s \in Senders, EntryPoll(s) \/ EntryOver(s) PROVE EntryInv'
  BY <1>t, <1>18 DEF EntryPoll, EntryOver, LeaveTemporary, LeaveEntry, entryVars, agentVars
<1> QED
  BY <1>2, <1>3, <1>4, <1>5, <1>6, <1>7, <1>8, <1>9, <1>10, <1>11, <1>12, <1>13,
     <1>14, <1>15, <1>16, <1>17, <1>18
     DEF Next, ControlNext, AgentNext, TimerNext, TaskNext

LEMMA EntryInvariant == Spec => []EntryInv
<1>1. Init => EntryInv
  BY DEF Init, EntryInv, InputReleased, LightEntryHasInput, DevicesMatchEntry,
         UpgradePending, TemporaryNeedsAgent, SuspendingHoldsNoInput, Light, Alive
<1>2. TypeInv /\ EntryInv /\ [Next]_vars => EntryInv'
  <2>1. ASSUME EntryInv, UNCHANGED vars PROVE EntryInv'
    BY <2>1 DEF EntryInv, InputReleased, LightEntryHasInput, DevicesMatchEntry,
         UpgradePending, TemporaryNeedsAgent, SuspendingHoldsNoInput, Light, Alive,
         vars, ioVars, entryVars, agentVars
  <2> QED
    BY <2>1, StepEntry
<1> QED
  BY <1>1, <1>2, TypeInvInvariant, PTL DEF Spec

\* Detached or in full entry, the user always has the host's input devices.
THEOREM InputAlwaysReleased == Spec => []InputReleased
<1>1. EntryInv => InputReleased
  BY DEF EntryInv
<1> QED
  BY <1>1, EntryInvariant, PTL

\* Light entries open the devices once; only a demoted FullEntry has none.
THEOREM LightEntryAlwaysHasInput == Spec => []LightEntryHasInput
<1>1. EntryInv => LightEntryHasInput
  BY DEF EntryInv
<1> QED
  BY <1>1, EntryInvariant, PTL

\* Devices stay with the guest outside FullEntry only after a demotion.
THEOREM DevicesAlwaysMatchEntry == Spec => []DevicesMatchEntry
<1>1. EntryInv => DevicesMatchEntry
  BY DEF EntryInv
<1> QED
  BY <1>1, EntryInvariant, PTL

\* An AwaitingUpgrade never coexists with a GA that could complete it.
THEOREM UpgradeNeverMissed == Spec => []UpgradePending
<1>1. EntryInv => UpgradePending
  BY DEF EntryInv
<1> QED
  BY <1>1, EntryInvariant, PTL

\* A temporary entry ends with the GA that serves it.
THEOREM TemporaryAlwaysHasAgent == Spec => []TemporaryNeedsAgent
<1>1. EntryInv => TemporaryNeedsAgent
  BY DEF EntryInv
<1> QED
  BY <1>1, EntryInvariant, PTL

\* No input device is held while Windows suspends.
THEOREM SuspendingAlwaysHoldsNoInput == Spec => []SuspendingHoldsNoInput
<1>1. EntryInv => SuspendingHoldsNoInput
  BY DEF EntryInv
<1> QED
  BY <1>1, EntryInvariant, PTL

-----------------------------------------------------------------------------
(* Waiters, pings and timers *)

WatchInv == NoWaiterMissed /\ PingWatched /\ HeartbeatRuns

LEMMA StepWatch ==
    ASSUME TypeInv, WatchInv, Next
    PROVE  WatchInv'
<1> USE DEF WatchInv, NoWaiterMissed, PingWatched, HeartbeatRuns, Alive
<1>t. ga \in State /\ timers \subseteq Timers /\ waiters \subseteq Waiters
  BY DEF TypeInv, AgentTypeOK
<1>0. ASSUME UNCHANGED <<agentVars, waiters>> PROVE WatchInv'
  BY <1>0 DEF agentVars
<1>1. ASSUME NEW resuming \in {"ResumingFull", "ResumingLight"}, WakeForEntry(resuming)
      PROVE  WatchInv'
  BY <1>1 DEF WakeForEntry
<1>2. CASE IoAttach
  BY <1>0, <1>1, <1>2 DEF IoAttach, IoOnly, NoOp
<1>3. CASE TryAttach
  BY <1>0, <1>3 DEF TryAttach, IoOnly, NoOp
<1>4. CASE LightAttach
  BY <1>0, <1>1, <1>4 DEF LightAttach, IoOnly, NoOp
<1>5. CASE IoOnly(IoForceAttach) \/ IoOnly(IoDetach) \/ IoOnly(TemporaryExit)
  BY <1>0, <1>5 DEF IoOnly
<1>8. CASE Shutdown
  BY <1>0, <1>8 DEF Shutdown
<1>9. ASSUME NEW s \in Senders, TemporaryEntry(s) PROVE WatchInv'
  BY <1>0, <1>9 DEF TemporaryEntry
<1>10. ASSUME NEW w \in Waiters, Suspend(w) PROVE WatchInv'
  BY <1>0, <1>10 DEF Suspend, NoOp, agentVars
<1>11. CASE ReportBoot
  BY <1>t, <1>11 DEF ReportBoot, SpawnTimer, State
<1>12. CASE GaSuspending
  BY <1>12 DEF GaSuspending
<1>13. CASE Pong
  BY <1>13 DEF Pong
<1>14. CASE MouseEdged
  BY <1>0, <1>14 DEF MouseEdged, NoOp, entryVars
<1>15. ASSUME NEW a \in HotKeyAction, Hotkey(a) PROVE WatchInv'
  BY <1>0, <1>2, <1>5, <1>15 DEF Hotkey, NoOp
<1>16. ASSUME NEW t \in Timers, Tick(t) PROVE WatchInv'
  BY <1>16 DEF Tick
<1>17. CASE QemuSuspended
  BY <1>17 DEF QemuSuspended
<1>18. ASSUME NEW s \in Senders, EntryPoll(s) \/ EntryOver(s) PROVE WatchInv'
  BY <1>0, <1>18 DEF EntryPoll, EntryOver
<1> QED
  BY <1>2, <1>3, <1>4, <1>5, <1>8, <1>9, <1>10, <1>11, <1>12, <1>13,
     <1>14, <1>15, <1>16, <1>17, <1>18
     DEF Next, ControlNext, AgentNext, TimerNext, TaskNext

LEMMA WatchInvariant == Spec => []WatchInv
<1>1. Init => WatchInv
  BY DEF Init, WatchInv, NoWaiterMissed, PingWatched, HeartbeatRuns, Alive
<1>2. TypeInv /\ WatchInv /\ [Next]_vars => WatchInv'
  <2>1. ASSUME WatchInv, UNCHANGED vars PROVE WatchInv'
    BY <2>1 DEF WatchInv, NoWaiterMissed, PingWatched, HeartbeatRuns, Alive, vars, agentVars
  <2> QED
    BY <2>1, StepWatch
<1> QED
  BY <1>1, <1>2, TypeInvInvariant, PTL DEF Spec

\* Nobody waits for a suspend that has already been reported.
THEOREM NoWaiterEverMissed == Spec => []NoWaiterMissed
<1>1. WatchInv => NoWaiterMissed
  BY DEF WatchInv
<1> QED
  BY <1>1, WatchInvariant, PTL

\* The timer behind an unanswered ping is still there to notice it.
THEOREM PingAlwaysWatched == Spec => []PingWatched
<1>1. WatchInv => PingWatched
  BY DEF WatchInv
<1> QED
  BY <1>1, WatchInvariant, PTL

\* A GA believed to be alive is being pinged, unless it booted in Suspending.
THEOREM HeartbeatAlwaysRuns == Spec => []HeartbeatRuns
<1>1. WatchInv => HeartbeatRuns
  BY DEF WatchInv
<1> QED
  BY <1>1, WatchInvariant, PTL

-----------------------------------------------------------------------------
(* What a temporary entry's client is told *)

LEMMA SilenceKept ==
    ASSUME IoTypeOK, DetachedIsLast, UNCHANGED entryChan,
           tempSender' = tempSender \/ tempSender' = NoSender
    PROVE  DetachedIsLast'
BY NoSenderAssumption DEF DetachedIsLast, IoTypeOK

LEMMA ForceAttachTells ==
    ASSUME IoTypeOK, SenderKept, DetachedIsLast, IoForceAttach
    PROVE  DetachedIsLast'
<1>1. CASE io = "FullEntry"
  BY <1>1, SilenceKept DEF IoForceAttach, ioVars, entryVars
<1>2. CASE io \notin {"FullEntry", "TemporaryLightEntry"}
  BY <1>2, SilenceKept DEF IoForceAttach
<1>3. CASE io = "TemporaryLightEntry"
  <2> SUFFICES ASSUME NEW s \in Senders, NEW i \in DOMAIN entryChan'[s],
                      entryChan'[s][i] = "TemporaryLightDetached"
               PROVE  i = Len(entryChan'[s]) /\ s # tempSender'
    BY DEF DetachedIsLast
  <2>1. tempSender \in Senders
    BY <1>3 DEF IoTypeOK, SenderKept
  <2>2. tempSender' = NoSender /\ s # tempSender'
    BY <1>3, NoSenderAssumption DEF IoForceAttach
  <2>3. entryChan' = [entryChan EXCEPT ![tempSender] =
                        Append(@, "TemporaryLightDetached")]
    BY <1>3 DEF IoForceAttach
  <2>4. CASE s # tempSender
    <3>1. entryChan'[s] = entryChan[s]
      BY <2>3, <2>4 DEF IoTypeOK
    <3> QED
      BY <2>2, <3>1 DEF DetachedIsLast
  <2>5. CASE s = tempSender
    <3>1. entryChan[s] \in Seq(EntryMsg)
      BY DEF IoTypeOK
    <3>2. entryChan'[s] = Append(entryChan[s], "TemporaryLightDetached")
      BY <2>3, <2>5 DEF IoTypeOK
    <3>3. \A j \in DOMAIN entryChan[s] : entryChan[s][j] # "TemporaryLightDetached"
      BY <2>5 DEF DetachedIsLast
    <3> QED
      BY <2>2, <3>1, <3>2, <3>3
  <2> QED
    BY <2>4, <2>5
<1> QED
  BY <1>1, <1>2, <1>3

LEMMA StepTells ==
    ASSUME TypeInv, DetachedIsLast, Next
    PROVE  DetachedIsLast'
<1>t. IoTypeOK /\ SenderKept
  BY DEF TypeInv
<1>0. ASSUME UNCHANGED <<tempSender, entryChan>> PROVE DetachedIsLast'
  BY <1>t, <1>0, SilenceKept
<1>a. ASSUME EnterLight \/ IoDetach PROVE DetachedIsLast'
  BY <1>t, <1>a, SilenceKept DEF EnterLight, IoDetach, LeaveEntry
<1>1. ASSUME NEW resuming, WakeForEntry(resuming) PROVE DetachedIsLast'
  BY <1>0, <1>1 DEF WakeForEntry, ioVars, entryVars
<1>2. CASE IoAttach
  <2>1. CASE IoOnly(AwaitAgent)
    BY <1>t, <2>1, SilenceKept DEF IoOnly, AwaitAgent
  <2> QED
    BY <1>t, <1>0, <1>1, <1>2, <2>1, ForceAttachTells DEF IoAttach, IoOnly, NoOp, ioVars, entryVars
<1>3. CASE TryAttach
  BY <1>t, <1>0, <1>3, ForceAttachTells DEF TryAttach, IoOnly, NoOp, ioVars, entryVars
<1>4. CASE LightAttach
  BY <1>0, <1>a, <1>1, <1>4 DEF LightAttach, IoOnly, NoOp, ioVars, entryVars
<1>5. CASE IoOnly(IoForceAttach)
  BY <1>t, <1>5, ForceAttachTells DEF IoOnly
<1>6. CASE IoOnly(IoDetach)
  BY <1>a, <1>6 DEF IoOnly
<1>7. CASE IoOnly(TemporaryExit)
  BY <1>0, <1>a, <1>7, TemporaryExitCases DEF IoOnly, ioVars, entryVars
<1>8. CASE Shutdown
  BY <1>0, <1>8 DEF Shutdown, ioVars, entryVars
<1>9. ASSUME NEW s \in Senders, TemporaryEntry(s) PROVE DetachedIsLast'
  BY <1>9 DEF TemporaryEntry, DetachedIsLast
<1>10. ASSUME NEW w \in Waiters, Suspend(w) PROVE DetachedIsLast'
  BY <1>0, <1>10 DEF Suspend, NoOp, ioVars, entryVars
<1>11. CASE ReportBoot
  BY <1>t, <1>0, <1>a, <1>11, ForceAttachTells DEF ReportBoot, ioVars, entryVars
<1>12. CASE GaSuspending
  BY <1>a, <1>12 DEF GaSuspending
<1>13. CASE Pong
  BY <1>0, <1>13 DEF Pong, ioVars, entryVars
<1>14. CASE MouseEdged
  <2>1. CASE io # "TemporaryLightEntry"
    BY <1>0, <1>14, <2>1 DEF MouseEdged, NoOp, ioVars, entryVars
  <2>2. CASE io = "TemporaryLightEntry"
    <3> SUFFICES ASSUME NEW s \in Senders, NEW i \in DOMAIN entryChan'[s],
                        entryChan'[s][i] = "TemporaryLightDetached"
                 PROVE  i = Len(entryChan'[s]) /\ s # tempSender'
      BY DEF DetachedIsLast
    <3>1. entryChan' = [entryChan EXCEPT ![tempSender] = Append(@, "MouseEdged")]
          /\ tempSender' = tempSender
      BY <1>14, <2>2 DEF MouseEdged, NoOp, entryVars
    <3>2. CASE s # tempSender
      <4>1. entryChan'[s] = entryChan[s]
        BY <1>t, <3>1, <3>2 DEF IoTypeOK
      <4> QED
        BY <3>1, <4>1 DEF DetachedIsLast
    <3>3. CASE s = tempSender
      <4>1. entryChan[s] \in Seq(EntryMsg)
        BY <1>t DEF IoTypeOK
      <4>2. entryChan'[s] = Append(entryChan[s], "MouseEdged")
        BY <1>t, <3>1, <3>3 DEF IoTypeOK
      <4>3. \A j \in DOMAIN entryChan[s] : entryChan[s][j] # "TemporaryLightDetached"
        BY <3>3 DEF DetachedIsLast
      <4> QED
        BY <4>1, <4>2, <4>3
    <3> QED
      BY <3>2, <3>3
  <2> QED
    BY <2>1, <2>2
<1>15. ASSUME NEW a \in HotKeyAction, Hotkey(a) PROVE DetachedIsLast'
  BY <1>0, <1>2, <1>5, <1>6, <1>15 DEF Hotkey, NoOp, ioVars, entryVars
<1>16. ASSUME NEW t \in Timers, Tick(t) PROVE DetachedIsLast'
  BY <1>0, <1>a, <1>16 DEF Tick, ioVars, entryVars
<1>17. CASE QemuSuspended
  BY <1>0, <1>17 DEF QemuSuspended, ioVars, entryVars
<1>18. ASSUME NEW r \in Senders, EntryPoll(r) \/ EntryOver(r)
       PROVE  DetachedIsLast'
  <2>1. /\ entryChan' = [entryChan EXCEPT ![r] = <<>>]
        /\ tempSender' = tempSender \/ tempSender' = NoSender
    BY <1>18 DEF EntryPoll, EntryOver, LeaveTemporary, LeaveEntry, entryVars
  <2>2. \A s \in Senders : entryChan'[s] = entryChan[s] \/ entryChan'[s] = <<>>
    BY <1>t, <2>1 DEF IoTypeOK
  <2> QED
    BY <2>1, <2>2, NoSenderAssumption DEF DetachedIsLast
<1> QED
  BY <1>2, <1>3, <1>4, <1>5, <1>6, <1>7, <1>8, <1>9, <1>10, <1>11, <1>12, <1>13,
     <1>14, <1>15, <1>16, <1>17, <1>18
     DEF Next, ControlNext, AgentNext, TimerNext, TaskNext

\* A client is told once that its entry ended and nothing after that.
THEOREM DetachedAlwaysLast == Spec => []DetachedIsLast
<1>1. Init => DetachedIsLast
  BY DEF Init, DetachedIsLast
<1>2. TypeInv /\ DetachedIsLast /\ [Next]_vars => DetachedIsLast'
  <2>1. CASE UNCHANGED vars
    BY <2>1 DEF vars, ioVars, entryVars, DetachedIsLast
  <2> QED
    BY <2>1, StepTells
<1> QED
  BY <1>1, <1>2, TypeInvInvariant, PTL DEF Spec

-----------------------------------------------------------------------------
(* Action properties *)

LEMMA AliveOnlyByBootOrPong ==
    ASSUME TypeInv, Next, ga \notin Alive, ga' \in Alive
    PROVE  ReportBoot
<1> USE DEF Alive
<1>0. CASE UNCHANGED ga
  BY <1>0
<1>1. ASSUME NEW resuming \in {"ResumingFull", "ResumingLight"}, WakeForEntry(resuming)
      PROVE  FALSE
  BY <1>1 DEF WakeForEntry
<1>2. CASE IoAttach
  BY <1>0, <1>1, <1>2 DEF IoAttach, IoOnly, NoOp, agentVars
<1>3. CASE LightAttach
  BY <1>0, <1>1, <1>3 DEF LightAttach, IoOnly, NoOp, agentVars
<1>4. CASE \/ TryAttach \/ IoOnly(IoForceAttach) \/ IoOnly(IoDetach)
           \/ IoOnly(TemporaryExit) \/ Shutdown
  BY <1>0, <1>4 DEF TryAttach, IoOnly, Shutdown, NoOp, agentVars
<1>5. CASE \/ \E s \in Senders : TemporaryEntry(s)
           \/ \E w \in Waiters : Suspend(w)
  BY <1>0, <1>5 DEF TemporaryEntry, Suspend, NoOp, agentVars
<1>6. CASE GaSuspending \/ Pong \/ MouseEdged \/ QemuSuspended
  BY <1>0, <1>6 DEF GaSuspending, Pong, MouseEdged, NoOp, QemuSuspended, agentVars
<1>7. ASSUME NEW a \in HotKeyAction, Hotkey(a) PROVE ReportBoot
  BY <1>0, <1>2, <1>4, <1>7 DEF Hotkey, NoOp, agentVars
<1>8. ASSUME NEW t \in Timers, Tick(t) PROVE FALSE
  BY <1>8 DEF Tick
<1>9. CASE TaskNext
  BY <1>0, <1>9 DEF TaskNext, EntryPoll, EntryOver, agentVars
<1> QED
  BY <1>2, <1>3, <1>4, <1>5, <1>6, <1>7, <1>8, <1>9
     DEF Next, ControlNext, AgentNext, TimerNext

\* A GA that comes up finds the upgrade that waited for it carried out.
THEOREM UpgradeAlwaysHonoured == Spec => UpgradeHonoured
<1>1. ASSUME TypeInv, EntryInv, Next, io = "AwaitingUpgrade", ga' \in Alive
      PROVE  io' = "FullEntry"
  <2>1. ga \notin Alive
    BY <1>1 DEF EntryInv, UpgradePending
  <2>2. ReportBoot
    BY <1>1, <2>1, AliveOnlyByBootOrPong
  <2>3. IoForceAttach
    BY <1>1, <2>2 DEF ReportBoot
  <2> QED
    BY <1>1, <2>3 DEF IoForceAttach
<1>2. TypeInv /\ EntryInv /\ [Next]_vars =>
        [io = "AwaitingUpgrade" /\ ga' \in Alive => io' = "FullEntry"]_vars
  BY <1>1
<1> QED
  BY <1>2, TypeInvInvariant, EntryInvariant, PTL DEF Spec, UpgradeHonoured

LEMMA LeavingFull ==
    ASSUME Next, io = "FullEntry", io' # "FullEntry"
    PROVE  usb' = {} \/ (ga = "Down" /\ io' = "AwaitingUpgrade")
<1>0. UNCHANGED io => FALSE
  OBVIOUS
<1>a. ~EnterLight /\ ~IoForceAttach
  BY DEF EnterLight, IoForceAttach, ioVars, entryVars
<1>b. IoDetach => usb' = {}
  BY DEF IoDetach, LeaveEntry
<1>1. ASSUME NEW resuming, WakeForEntry(resuming) PROVE FALSE
  BY <1>0, <1>1 DEF WakeForEntry, ioVars, entryVars
<1>2. CASE IoAttach
  BY <1>0, <1>a, <1>1, <1>2 DEF IoAttach, IoOnly, AwaitAgent, NoOp, ioVars, entryVars
<1>3. CASE \/ LightAttach \/ TryAttach \/ IoOnly(IoForceAttach) \/ IoOnly(IoDetach)
           \/ IoOnly(TemporaryExit) \/ Shutdown
  BY <1>0, <1>a, <1>b, <1>1, <1>3, TemporaryExitCases
     DEF LightAttach, TryAttach, IoOnly, Shutdown, NoOp, ioVars, entryVars
<1>4. CASE \/ \E s \in Senders : TemporaryEntry(s)
           \/ \E w \in Waiters : Suspend(w)
  BY <1>0, <1>4 DEF TemporaryEntry, Suspend, NoOp, ioVars, entryVars
<1>5. CASE ReportBoot \/ GaSuspending \/ Pong \/ MouseEdged \/ QemuSuspended
  BY <1>0, <1>a, <1>b, <1>5
     DEF ReportBoot, GaSuspending, Pong, MouseEdged, NoOp, QemuSuspended, ioVars, entryVars
<1>6. ASSUME NEW a \in HotKeyAction, Hotkey(a)
      PROVE  usb' = {} \/ (ga = "Down" /\ io' = "AwaitingUpgrade")
  BY <1>0, <1>2, <1>3, <1>6 DEF Hotkey, NoOp, ioVars, entryVars
<1>7. ASSUME NEW t \in Timers, Tick(t) PROVE usb' = {}
  BY <1>0, <1>b, <1>7 DEF Tick, ioVars, entryVars
<1>8. CASE TaskNext
  BY <1>0, <1>8
     DEF TaskNext, EntryPoll, EntryOver, LeaveTemporary, LeaveEntry, ioVars, entryVars
<1> QED
  BY <1>2, <1>3, <1>4, <1>5, <1>6, <1>7, <1>8
     DEF Next, ControlNext, AgentNext, TimerNext

\* Only io_attach in state Down leaves FullEntry without returning devices.
THEOREM AlwaysLeavesClean == Spec => LeavesClean
<1>1. [Next]_vars => [io = "FullEntry" /\ io' # "FullEntry" =>
         usb' = {} \/ (ga = "Down" /\ io' = "AwaitingUpgrade")]_vars
  BY LeavingFull
<1> QED
  BY <1>1, PTL DEF Spec, LeavesClean
=============================================================================
