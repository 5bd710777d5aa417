------------------------- MODULE ControlServerProofs -------------------------
(***************************************************************************)
(* The control server only uses the controller the way Controller allows,  *)
(* so everything ControllerProofs proves holds of the composition; on top  *)
(* of that, what a temporary entry, its task and its client agree on.      *)
(***************************************************************************)
EXTENDS ControlServer, ControllerProofs

(* Each step of the server is a step of the controller or none of its.     *)

LEMMA NoOpIsNext == NoOp => Next
BY DEF Next, AgentNext, Hotkey, HotKeyAction

LEMMA CallIsNext ==
    ASSUME NEW c \in Conns, NEW cmd, Call(c, cmd)
    PROVE  Next
BY NoOpIsNext, ConnsAssumption DEF Call, Next, ControlNext

LEMMA ServerStepIsNext ==
    ASSUME ServerNext
    PROVE  [Next]_vars
<1>1. ASSUME NEW c \in Conns, ClientNext(c) PROVE UNCHANGED vars
  BY <1>1 DEF ClientNext, Connect, Request
<1>2. ASSUME NEW c \in Conns, ReaderNext(c) PROVE [Next]_vars
  <2>1. ASSUME NEW cmd \in ControlCmdIn, Handle(c, cmd) PROVE Next
    BY <2>1, CallIsNext DEF Handle
  <2>2. ASSUME NEW cmd \in ControlCmdIn, BreakTemporary(c, cmd) PROVE Next
    BY <2>2 DEF BreakTemporary, Next, ControlNext
  <2>3. ASSUME NEW s \in Senders, EnterTemporarily(c, s) PROVE Next
    BY <2>3 DEF EnterTemporarily, Next, ControlNext
  <2>4. CASE RefuseTemporary(c)
    BY <2>4, NoOpIsNext DEF RefuseTemporary
  <2>5. CASE ExitTemporary(c)
    BY <2>5 DEF ExitTemporary, Next, ControlNext
  <2>6. CASE EndOfStream(c)
    BY <2>6 DEF EndOfStream
  <2> QED
    BY <1>2, <2>1, <2>2, <2>3, <2>4, <2>5, <2>6 DEF ReaderNext
<1>3. ASSUME NEW s \in Senders, ForwarderNext(s) PROVE Next
  BY <1>3 DEF ForwarderNext, Forward, FinishTask, Next, TaskNext
<1>4. CASE OthersNext
  BY <1>4 DEF OthersNext, Next, ControlNext
<1> QED
  BY <1>1, <1>2, <1>3, <1>4 DEF ServerNext, WriterFails

\* The composition implements the controller's specification.
THEOREM ServerImplementsController == ServerSpec => Spec
<1>1. Init /\ ServerInit => Init
  OBVIOUS
<1>2. [ServerNext]_allVars => [Next]_vars
  BY ServerStepIsNext DEF allVars
<1> QED
  BY <1>1, <1>2, PTL DEF ServerSpec, Spec

-----------------------------------------------------------------------------
(* Only EnterTemporarily makes a sender current                            *)

SenderLost == tempSender' = tempSender \/ tempSender' = NoSender

LEMMA EntryOperatorsLose ==
    ASSUME \/ EnterLight \/ IoForceAttach \/ IoDetach \/ LeaveTemporary
           \/ AwaitAgent \/ UNCHANGED ioVars
    PROVE  SenderLost
BY DEF SenderLost, EnterLight, IoForceAttach, IoDetach, LeaveEntry, LeaveTemporary,
       AwaitAgent, ioVars, entryVars

LEMMA AttachLoses ==
    ASSUME \/ IoAttach \/ TryAttach \/ LightAttach \/ NoOp \/ IoOnly(IoForceAttach)
           \/ IoOnly(IoDetach) \/ IoOnly(TemporaryExit) \/ Shutdown
    PROVE  SenderLost /\ UNCHANGED waiters
<1>1. ASSUME NEW resuming, WakeForEntry(resuming)
      PROVE  SenderLost /\ UNCHANGED waiters
  BY <1>1, EntryOperatorsLose DEF WakeForEntry
<1>2. NoOp \/ Shutdown => SenderLost /\ UNCHANGED waiters
  BY EntryOperatorsLose DEF NoOp, Shutdown
<1> QED
  BY <1>1, <1>2, EntryOperatorsLose
     DEF IoAttach, TryAttach, LightAttach, IoOnly, TemporaryExit

LEMMA CallLoses ==
    ASSUME NEW c \in Conns, NEW cmd, Call(c, cmd)
    PROVE  SenderLost /\ waiters' \subseteq waiters \cup {c}
<1>1. CASE Suspend(c)
  BY <1>1, EntryOperatorsLose DEF Suspend, NoOp
<1> QED
  BY <1>1, AttachLoses DEF Call

LEMMA OthersLose ==
    ASSUME OthersNext
    PROVE  SenderLost /\ waiters' \cap Conns \subseteq waiters
<1>1. ASSUME NEW w \in Waiters \ Conns, Suspend(w)
      PROVE  SenderLost /\ waiters' \cap Conns \subseteq waiters
  BY <1>1, EntryOperatorsLose DEF Suspend, NoOp
<1>2. CASE AgentNext
  <2>1. ReportBoot => SenderLost /\ UNCHANGED waiters
    BY EntryOperatorsLose DEF ReportBoot
  <2>2. GaSuspending \/ Pong => SenderLost /\ UNCHANGED waiters
    BY EntryOperatorsLose DEF GaSuspending, Pong
  <2>3. MouseEdged => SenderLost /\ UNCHANGED waiters
    BY AttachLoses DEF MouseEdged, entryVars, SenderLost
  <2>4. ASSUME NEW a \in HotKeyAction, Hotkey(a) PROVE SenderLost /\ UNCHANGED waiters
    BY <2>4, AttachLoses DEF Hotkey
  <2> QED
    BY <1>2, <2>1, <2>2, <2>3, <2>4 DEF AgentNext
<1>3. CASE TimerNext
  BY <1>3, EntryOperatorsLose DEF TimerNext, Tick
<1>4. CASE QemuSuspended
  BY <1>4, EntryOperatorsLose DEF QemuSuspended
<1>5. CASE Shutdown
  BY <1>5, AttachLoses
<1> QED
  BY <1>1, <1>2, <1>3, <1>4, <1>5 DEF OthersNext

-----------------------------------------------------------------------------
(* Types *)

LEMMA ReaderTypes ==
    ASSUME ServerTypeOK, NEW c \in Conns, ReaderNext(c)
    PROVE  ServerTypeOK'
<1> USE DEF ServerTypeOK
<1>1. ASSUME NEW what, Reads(c, what) PROVE inbox[c] \in Seq(Wire) /\ inbox[c] # <<>>
  BY <1>1 DEF Reads
<1>2. ASSUME NEW what, Reads(c, what), Consume(c) PROVE inbox' \in [Conns -> Seq(Wire)]
  <2>1. Tail(inbox[c]) \in Seq(Wire)
    BY <1>1, <1>2
  <2> QED
    BY <2>1, <1>2 DEF Consume
<1>3. ASSUME Drop(c) PROVE ServerTypeOK'
  BY <1>3 DEF Drop, ControlCmdOut
<1>4. ASSUME NEW cmd \in ControlCmdIn, Handle(c, cmd) PROVE ServerTypeOK'
  BY <1>2, <1>4 DEF Handle
<1>5. ASSUME NEW cmd \in ControlCmdIn, BreakTemporary(c, cmd) PROVE ServerTypeOK'
  BY <1>3, <1>5 DEF BreakTemporary
<1>6. ASSUME NEW s \in Senders, EnterTemporarily(c, s) PROVE ServerTypeOK'
  <2>1. inbox' \in [Conns -> Seq(Wire)]
    BY <1>2, <1>6 DEF EnterTemporarily
  <2>2. open' = open /\ c \in open /\ tempEntry' = tempEntry \cup {c}
    BY <1>6 DEF EnterTemporarily, Reads
  <2>3. /\ task' \in [Senders -> Conns \cup {NoConn, Gone}]
        /\ said' \in [Conns -> ControlCmdOut \cup {"nothing"}]
    BY <1>6 DEF EnterTemporarily, ControlCmdOut
  <2> QED
    BY <2>1, <2>2, <2>3
<1>7. CASE RefuseTemporary(c) \/ EndOfStream(c)
  BY <1>3, <1>7 DEF RefuseTemporary, EndOfStream
<1>8. CASE ExitTemporary(c)
  BY <1>2, <1>8 DEF ExitTemporary
<1> QED
  BY <1>4, <1>5, <1>6, <1>7, <1>8 DEF ReaderNext

LEMMA ForwarderTypes ==
    ASSUME TypeInv, ServerTypeOK, NEW s \in Senders, ForwarderNext(s)
    PROVE  ServerTypeOK'
<1> USE DEF ServerTypeOK
<1>1. CASE Forward(s)
  <2>1. entryChan[s] \in Seq(EntryMsg) /\ entryChan[s] # <<>>
    BY <1>1 DEF Forward, EntryPoll, TypeInv, IoTypeOK
  <2>2. entryChan[s][Len(entryChan[s])] \in EntryMsg
    BY <2>1
  <2>3. said' \in [Conns -> ControlCmdOut \cup {"nothing"}]
    BY <1>1, <2>2 DEF Forward, ControlCmdOut
  <2> QED
    BY <1>1, <2>3 DEF Forward
<1>2. CASE FinishTask(s)
  BY <1>2 DEF FinishTask, ControlCmdOut, EntryMsg
<1> QED
  BY <1>1, <1>2 DEF ForwarderNext

LEMMA ServerTypes == ServerSpec => []ServerTypeOK
<1>1. ServerInit => ServerTypeOK
  BY DEF ServerInit, ServerTypeOK
<1>2. TypeInv /\ ServerTypeOK /\ [ServerNext]_allVars => ServerTypeOK'
  <2> SUFFICES ASSUME TypeInv, ServerTypeOK, [ServerNext]_allVars PROVE ServerTypeOK'
    OBVIOUS
  <2>1. CASE UNCHANGED serverVars
    BY <2>1 DEF serverVars, ServerTypeOK
  <2>2. ASSUME NEW c \in Conns, Connect(c) PROVE ServerTypeOK'
    BY <2>2 DEF Connect, ServerTypeOK
  <2>3. ASSUME NEW c \in Conns, NEW what \in Requests, Request(c, what)
        PROVE  ServerTypeOK'
    <3>1. Append(inbox[c], what) \in Seq(Wire)
      BY RequestsAssumption DEF ServerTypeOK
    <3> QED
      BY <2>3, <3>1 DEF Request, ServerTypeOK
  <2>4. ASSUME NEW c \in Conns, WriterFails(c) PROVE ServerTypeOK'
    BY <2>4 DEF WriterFails, Drop, ServerTypeOK, ControlCmdOut
  <2> QED
    BY <2>1, <2>2, <2>3, <2>4, ReaderTypes, ForwarderTypes
       DEF ServerNext, ClientNext, OthersNext, allVars
<1> QED
  BY <1>1, <1>2, ServerImplementsController, TypeInvInvariant, PTL DEF ServerSpec

\* The types of the server, and with them of the controller below it.
THEOREM ServerTypeCorrect == ServerSpec => [](ServerTypeOK /\ TypeOK)
BY ServerTypes, ServerImplementsController, TypeCorrect, PTL

-----------------------------------------------------------------------------
(* The current temporary entry: its task, its reader, its client           *)

EntrantInv == EntryHasTask /\ EntrantCanLeave /\ NotToldOver

LEMMA NoEntryNoWorry ==
    ASSUME tempSender' = NoSender
    PROVE  EntrantInv'
BY DEF EntrantInv, EntryHasTask, EntrantCanLeave, NotToldOver

\* The sender stays or goes, and nobody touches its task and its client.
LEMMA EntrantUntouched ==
    ASSUME EntrantInv, SenderLost, UNCHANGED <<tempEntry, task, said>>,
           waiters' \cap tempEntry \subseteq waiters
    PROVE  EntrantInv'
<1>1. CASE tempSender' = NoSender
  BY <1>1, NoEntryNoWorry
<1>2. CASE tempSender' = tempSender
  BY <1>2 DEF EntrantInv, EntryHasTask, EntrantCanLeave, NotToldOver
<1> QED
  BY <1>1, <1>2 DEF SenderLost

\* A connection is dropped, its temporary entry staying behind or not.
LEMMA EntrantDropped ==
    ASSUME TypeInv, ServerTypeOK, EntrantInv, NEW c \in Conns, Drop(c),
           SenderLost, UNCHANGED waiters
    PROVE  EntrantInv'
<1>1. CASE tempSender' = NoSender
  BY <1>1, NoEntryNoWorry
<1>2. CASE tempSender' = tempSender /\ tempSender # NoSender
  <2>1. tempSender \in Senders
    BY <1>2 DEF TypeInv, IoTypeOK
  <2>2. task'[tempSender] = IF task[tempSender] = c THEN Gone ELSE task[tempSender]
    BY <2>1 DEF Drop, ServerTypeOK
  <2>3. task'[tempSender] \in Conns =>
          task'[tempSender] = task[tempSender] /\ task[tempSender] # c
    BY <2>2, NoConnAssumption
  <2>4. EntryHasTask'
    BY <1>2, <2>2, NoConnAssumption DEF EntryHasTask, EntrantInv
  <2>5. EntrantCanLeave'
    BY <1>2, <2>2, <2>3 DEF EntrantInv, EntrantCanLeave, Drop
  <2>6. NotToldOver'
    BY <1>2, <2>2, <2>3 DEF EntrantInv, NotToldOver, Drop, ServerTypeOK
  <2> QED
    BY <2>4, <2>5, <2>6 DEF EntrantInv
<1> QED
  BY <1>1, <1>2 DEF SenderLost

LEMMA ReaderKeepsEntrant ==
    ASSUME TypeInv, ServerTypeOK, EntrantInv, NEW c \in Conns, ReaderNext(c)
    PROVE  EntrantInv'
<1>1. ASSUME NEW cmd \in ControlCmdIn, Handle(c, cmd) PROVE EntrantInv'
  BY <1>1, CallLoses, EntrantUntouched DEF Handle
<1>2. ASSUME NEW cmd \in ControlCmdIn, BreakTemporary(c, cmd) PROVE EntrantInv'
  BY <1>2, AttachLoses, EntrantDropped DEF BreakTemporary
<1>3. ASSUME NEW s \in Senders, EnterTemporarily(c, s) PROVE EntrantInv'
  <2>1. tempSender' = s /\ UNCHANGED waiters
    BY <1>3 DEF EnterTemporarily, TemporaryEntry
  <2>2. task'[s] = c /\ said'[c] = "TemporaryLightAttached"
    BY <1>3 DEF EnterTemporarily, ServerTypeOK
  <2>3. c \in tempEntry' /\ c \notin waiters
    BY <1>3 DEF EnterTemporarily, Reads
  <2> QED
    BY <2>1, <2>2, <2>3, NoConnAssumption
       DEF EntrantInv, EntryHasTask, EntrantCanLeave, NotToldOver
<1>4. CASE RefuseTemporary(c)
  BY <1>4, AttachLoses, EntrantDropped DEF RefuseTemporary
<1>5. CASE ExitTemporary(c)
  <2>1. tempSender' = NoSender
    BY <1>5 DEF ExitTemporary, IoOnly, TemporaryExit, LeaveTemporary, LeaveEntry,
                entryVars, TypeInv, SenderKept
  <2> QED
    BY <2>1, NoEntryNoWorry
<1>6. CASE EndOfStream(c)
  BY <1>6, EntrantDropped DEF EndOfStream, vars, ioVars, entryVars, SenderLost
<1> QED
  BY <1>1, <1>2, <1>3, <1>4, <1>5, <1>6 DEF ReaderNext

LEMMA ForwarderKeepsEntrant ==
    ASSUME TypeInv, ServerTypeOK, DetachedIsLast, EntrantInv,
           NEW s \in Senders, ForwarderNext(s)
    PROVE  EntrantInv'
<1>1. CASE Forward(s)
  <2>1. /\ tempSender = s /\ tempSender' = s /\ task' = task
        /\ UNCHANGED <<tempEntry, waiters>>
    BY <1>1 DEF Forward, EntryPoll, entryVars
  <2>2. entryChan[s] \in Seq(EntryMsg) /\ entryChan[s] # <<>>
    BY <1>1 DEF Forward, EntryPoll, TypeInv, IoTypeOK
  <2>3. entryChan[s][Len(entryChan[s])] # "TemporaryLightDetached"
    BY <2>1, <2>2 DEF DetachedIsLast
  <2>4. said'[task[s]] # "TemporaryLightDetached"
    BY <1>1, <2>3 DEF Forward, ServerTypeOK
  <2> QED
    BY <2>1, <2>4 DEF EntrantInv, EntryHasTask, EntrantCanLeave, NotToldOver
<1>2. CASE FinishTask(s)
  <2>1. tempSender' = NoSender
    BY <1>2 DEF FinishTask, EntryOver, LeaveTemporary, LeaveEntry, entryVars,
                TypeInv, SenderKept
  <2> QED
    BY <2>1, NoEntryNoWorry
<1> QED
  BY <1>1, <1>2 DEF ForwarderNext

LEMMA EntrantInvariant == ServerSpec => []EntrantInv
<1>1. Init /\ ServerInit => EntrantInv
  BY DEF Init, EntrantInv, EntryHasTask, EntrantCanLeave, NotToldOver
<1>2. TypeInv /\ ServerTypeOK /\ DetachedIsLast /\ EntrantInv
        /\ [ServerNext]_allVars => EntrantInv'
  <2> SUFFICES ASSUME TypeInv, ServerTypeOK, DetachedIsLast, EntrantInv,
                      [ServerNext]_allVars
               PROVE  EntrantInv'
    OBVIOUS
  <2>1. CASE UNCHANGED allVars
    BY <2>1, EntrantUntouched
       DEF allVars, serverVars, vars, ioVars, entryVars, SenderLost
  <2>2. ASSUME NEW c \in Conns, ClientNext(c) PROVE EntrantInv'
    BY <2>2, EntrantUntouched
       DEF ClientNext, Connect, Request, vars, ioVars, entryVars, SenderLost
  <2>3. CASE OthersNext
    <3>1. tempEntry \subseteq Conns
      BY DEF ServerTypeOK
    <3>2. SenderLost /\ waiters' \cap Conns \subseteq waiters
      BY <2>3, OthersLose
    <3>3. UNCHANGED <<tempEntry, task, said>>
      BY <2>3 DEF OthersNext, serverVars
    <3> QED
      BY <3>1, <3>2, <3>3, EntrantUntouched
  <2>4. ASSUME NEW c \in Conns, WriterFails(c) PROVE EntrantInv'
    BY <2>4, EntrantDropped DEF WriterFails, vars, ioVars, entryVars, SenderLost
  <2> QED
    BY <2>1, <2>2, <2>3, <2>4, ReaderKeepsEntrant, ForwarderKeepsEntrant DEF ServerNext
<1> QED
  BY <1>1, <1>2, ServerImplementsController, TypeInvInvariant, DetachedAlwaysLast,
     ServerTypes, PTL DEF ServerSpec

\* The channel of the current entry always has its receiver.
THEOREM EntryAlwaysHasTask == ServerSpec => []EntryHasTask
<1>1. EntrantInv => EntryHasTask
  BY DEF EntrantInv
<1> QED
  BY <1>1, EntrantInvariant, PTL

\* The client of a temporary entry can always leave it.
THEOREM EntrantCanAlwaysLeave == ServerSpec => []EntrantCanLeave
<1>1. EntrantInv => EntrantCanLeave
  BY DEF EntrantInv
<1> QED
  BY <1>1, EntrantInvariant, PTL

\* No client is told that its entry is over while it goes on.
THEOREM NeverToldOver == ServerSpec => []NotToldOver
<1>1. EntrantInv => NotToldOver
  BY DEF EntrantInv
<1> QED
  BY <1>1, EntrantInvariant, PTL

-----------------------------------------------------------------------------
(* What a client learns of the end of its entry                            *)

\* A client in the temporary mode, in which every command but IoExit costs
\* it the connection, was last told that its entry is over, or there is
\* still a task to tell it.
ModeIsKnown ==
    \A c \in tempEntry :
        said[c] = "TemporaryLightDetached" \/ \E s \in Senders : task[s] = c

LEMMA DropKeepsMode ==
    ASSUME ServerTypeOK, ModeIsKnown, NEW c \in Conns, Drop(c)
    PROVE  ModeIsKnown'
<1> SUFFICES ASSUME NEW d \in tempEntry, d # c
             PROVE  said'[d] = "TemporaryLightDetached" \/ \E s \in Senders : task'[s] = d
  BY DEF Drop, ModeIsKnown
<1>1. said'[d] = said[d]
  BY DEF Drop, ServerTypeOK
<1>2. \A s \in Senders : task[s] = d => task'[s] = d
  BY DEF Drop, ServerTypeOK
<1> QED
  BY <1>1, <1>2 DEF ModeIsKnown

LEMMA ReaderKeepsMode ==
    ASSUME ServerTypeOK, ModeIsKnown, NEW c \in Conns, ReaderNext(c)
    PROVE  ModeIsKnown'
<1>1. ASSUME Drop(c) PROVE ModeIsKnown'
  BY <1>1, DropKeepsMode
<1> USE DEF ModeIsKnown
<1>0. tempEntry \subseteq Conns
  BY DEF ServerTypeOK
<1>2. ASSUME NEW cmd \in ControlCmdIn, Handle(c, cmd) PROVE ModeIsKnown'
  BY <1>2 DEF Handle
<1>3. ASSUME NEW cmd \in ControlCmdIn, BreakTemporary(c, cmd) PROVE ModeIsKnown'
  BY <1>1, <1>3 DEF BreakTemporary
<1>4. ASSUME NEW s \in Senders, EnterTemporarily(c, s) PROVE ModeIsKnown'
  <2>1. task[s] = NoConn /\ tempEntry' = tempEntry \cup {c}
    BY <1>4 DEF EnterTemporarily
  <2>2. task'[s] = c /\ \A u \in Senders \ {s} : task'[u] = task[u]
    BY <1>4 DEF EnterTemporarily, ServerTypeOK
  <2>3. \A d \in tempEntry \ {c} : said'[d] = said[d]
    BY <1>0, <1>4 DEF EnterTemporarily, ServerTypeOK
  <2>4. NoConn \notin tempEntry
    BY <1>0, NoConnAssumption
  <2> QED
    BY <2>1, <2>2, <2>3, <2>4
<1>5. CASE RefuseTemporary(c) \/ EndOfStream(c)
  BY <1>1, <1>5 DEF RefuseTemporary, EndOfStream
<1>6. CASE ExitTemporary(c)
  BY <1>6 DEF ExitTemporary
<1> QED
  BY <1>2, <1>3, <1>4, <1>5, <1>6 DEF ReaderNext

LEMMA ForwarderKeepsMode ==
    ASSUME ServerTypeOK, ModeIsKnown, NEW s \in Senders, ForwarderNext(s)
    PROVE  ModeIsKnown'
<1> SUFFICES ASSUME NEW c \in tempEntry
             PROVE  said'[c] = "TemporaryLightDetached" \/ \E u \in Senders : task'[u] = c
  BY DEF ModeIsKnown, ForwarderNext, Forward, FinishTask
<1>0. c \in Conns
  BY DEF ServerTypeOK
<1>1. CASE Forward(s)
  BY <1>0, <1>1 DEF Forward, ModeIsKnown, ServerTypeOK
<1>2. CASE FinishTask(s)
  <2>1. CASE task[s] = c
    BY <1>0, <1>2, <2>1 DEF FinishTask
  <2>2. CASE task[s] # c
    BY <1>0, <1>2, <2>2 DEF FinishTask, ModeIsKnown, ServerTypeOK
  <2> QED
    BY <2>1, <2>2
<1> QED
  BY <1>1, <1>2 DEF ForwarderNext

\* No client is left in the temporary mode without having been told that
\* its entry is over, whoever ends it and however late its tasks are polled.
THEOREM ModeIsAlwaysKnown == ServerSpec => []ModeIsKnown
<1>1. ServerInit => ModeIsKnown
  BY DEF ServerInit, ModeIsKnown
<1>2. ServerTypeOK /\ ModeIsKnown /\ [ServerNext]_allVars => ModeIsKnown'
  <2> SUFFICES ASSUME ServerTypeOK, ModeIsKnown, [ServerNext]_allVars
               PROVE  ModeIsKnown'
    OBVIOUS
  <2>1. CASE UNCHANGED <<tempEntry, said, task>>
    BY <2>1 DEF ModeIsKnown
  <2>2. ASSUME NEW c \in Conns, ClientNext(c) PROVE ModeIsKnown'
    BY <2>1, <2>2 DEF ClientNext, Connect, Request
  <2>3. ASSUME NEW c \in Conns, WriterFails(c) PROVE ModeIsKnown'
    BY <2>3, DropKeepsMode DEF WriterFails
  <2> QED
    BY <2>1, <2>2, <2>3, ReaderKeepsMode, ForwarderKeepsMode
       DEF ServerNext, OthersNext, allVars, serverVars
<1> QED
  BY <1>1, <1>2, ServerTypes, PTL DEF ServerSpec

\* An entry that is over stays over as long as its task is there, and that
\* goes only with its client having been told, or after its client.
EndIsFinal ==
    [][\A s \in Senders : task[s] # NoConn /\ tempSender # s =>
         /\ tempSender' # s
         /\ \/ task'[s] = task[s]
            \/ task[s] \notin open' /\ task'[s] = Gone
            \/ /\ task'[s] = NoConn
               /\ task[s] \in Conns => said'[task[s]] = "TemporaryLightDetached"]_allVars

\* What EntryEndIsTold needs besides fairness: nothing undoes the end of a
\* temporary entry before its task has passed it on.
THEOREM EndIsAlwaysFinal == ServerSpec => EndIsFinal
<1> DEFINE Final(s) ==
             /\ tempSender' # s
             /\ \/ task'[s] = task[s]
                \/ task[s] \notin open' /\ task'[s] = Gone
                \/ /\ task'[s] = NoConn
                   /\ task[s] \in Conns => said'[task[s]] = "TemporaryLightDetached"
<1>1. TypeInv /\ ServerTypeOK /\ [ServerNext]_allVars =>
        [\A s \in Senders : task[s] # NoConn /\ tempSender # s => Final(s)]_allVars
  <2> SUFFICES ASSUME TypeInv, ServerTypeOK, ServerNext,
                      NEW s \in Senders, task[s] # NoConn, tempSender # s
               PROVE  Final(s)
    OBVIOUS
  <2>0. s # NoSender
    BY NoSenderAssumption
  <2>1. ASSUME SenderLost, UNCHANGED task PROVE Final(s)
    BY <2>0, <2>1 DEF SenderLost
  <2>2. ASSUME NEW c \in Conns, SenderLost, Drop(c) PROVE Final(s)
    <3>1. tempSender' # s
      BY <2>0, <2>2 DEF SenderLost
    <3>2. c \notin open' /\ task'[s] = IF task[s] = c THEN Gone ELSE task[s]
      BY <2>2 DEF Drop
    <3> QED
      BY <3>1, <3>2
  <2>3. ASSUME NEW c \in Conns, ClientNext(c) PROVE Final(s)
    BY <2>1, <2>3 DEF ClientNext, Connect, Request, vars, ioVars, entryVars, SenderLost
  <2>4. ASSUME NEW c \in Conns, ReaderNext(c) PROVE Final(s)
    <3>1. ASSUME NEW cmd \in ControlCmdIn, Handle(c, cmd) PROVE Final(s)
      BY <2>1, <3>1, CallLoses DEF Handle
    <3>2. ASSUME NEW cmd \in ControlCmdIn, BreakTemporary(c, cmd) PROVE Final(s)
      BY <2>2, <3>2, AttachLoses DEF BreakTemporary
    <3>3. ASSUME NEW u \in Senders, EnterTemporarily(c, u) PROVE Final(s)
      <4>1. u # s /\ tempSender' = u
        BY <3>3 DEF EnterTemporarily, TemporaryEntry
      <4>2. task'[s] = task[s]
        BY <3>3, <4>1 DEF EnterTemporarily, ServerTypeOK
      <4> QED
        BY <4>1, <4>2
    <3>4. CASE RefuseTemporary(c)
      BY <2>2, <3>4, AttachLoses DEF RefuseTemporary
    <3>5. CASE ExitTemporary(c)
      BY <2>1, <3>5, AttachLoses DEF ExitTemporary
    <3>6. CASE EndOfStream(c)
      BY <2>2, <3>6 DEF EndOfStream, vars, ioVars, entryVars, SenderLost
    <3> QED
      BY <2>4, <3>1, <3>2, <3>3, <3>4, <3>5, <3>6 DEF ReaderNext
  <2>5. ASSUME NEW u \in Senders, ForwarderNext(u) PROVE Final(s)
    <3>1. CASE Forward(u)
      BY <2>1, <3>1 DEF Forward, EntryPoll, entryVars, SenderLost
    <3>2. CASE FinishTask(u)
      <4>1. SenderLost
        BY <3>2 DEF FinishTask, EntryOver, LeaveTemporary, LeaveEntry, entryVars, SenderLost
      <4>2. tempSender' # s
        BY <2>0, <4>1 DEF SenderLost
      <4>3. CASE u = s
        BY <3>2, <4>2, <4>3 DEF FinishTask, ServerTypeOK
      <4>4. CASE u # s
        BY <3>2, <4>2, <4>4 DEF FinishTask, ServerTypeOK
      <4> QED
        BY <4>3, <4>4
    <3> QED
      BY <2>5, <3>1, <3>2 DEF ForwarderNext
  <2>6. CASE OthersNext
    BY <2>1, <2>6, OthersLose DEF OthersNext, serverVars
  <2>7. ASSUME NEW c \in Conns, WriterFails(c) PROVE Final(s)
    BY <2>2, <2>7 DEF WriterFails, vars, ioVars, entryVars, SenderLost
  <2> QED
    BY <2>3, <2>4, <2>5, <2>6, <2>7 DEF ServerNext
<1> QED
  BY <1>1, ServerImplementsController, TypeInvInvariant, ServerTypes, PTL
     DEF ServerSpec, EndIsFinal

-----------------------------------------------------------------------------
(* Channels and their tasks, and standstill                                *)

\* Only the channel of the current entry is written to.
OthersQuiet ==
    \A s \in Senders \ {tempSender} :
        entryChan'[s] = entryChan[s] \/ entryChan'[s] = <<>>

LEMMA EntryOperatorsQuiet ==
    ASSUME TypeInv,
           \/ EnterLight \/ IoForceAttach \/ IoDetach \/ AwaitAgent
           \/ TemporaryExit \/ UNCHANGED ioVars
    PROVE  OthersQuiet
<1>1. CASE IoForceAttach
  BY <1>1 DEF IoForceAttach, OthersQuiet, TypeInv, IoTypeOK, ioVars
<1>2. CASE EnterLight \/ IoDetach \/ AwaitAgent \/ TemporaryExit \/ UNCHANGED ioVars
  BY <1>2 DEF EnterLight, IoDetach, AwaitAgent, TemporaryExit, ioVars, OthersQuiet
<1> QED
  BY <1>1, <1>2

LEMMA ControllerQuiet ==
    ASSUME TypeInv, Next
    PROVE  OthersQuiet
<1>1. ASSUME NEW resuming, WakeForEntry(resuming) PROVE OthersQuiet
  BY <1>1, EntryOperatorsQuiet DEF WakeForEntry
<1>2. NoOp => OthersQuiet
  BY EntryOperatorsQuiet DEF NoOp
<1>3. IoAttach \/ TryAttach \/ LightAttach => OthersQuiet
  BY <1>1, <1>2, EntryOperatorsQuiet DEF IoAttach, TryAttach, LightAttach, IoOnly
<1>4. IoOnly(IoForceAttach) \/ IoOnly(IoDetach) \/ IoOnly(TemporaryExit) => OthersQuiet
  BY EntryOperatorsQuiet DEF IoOnly
<1>5. Shutdown \/ QemuSuspended \/ Pong \/ GaSuspending => OthersQuiet
  BY EntryOperatorsQuiet DEF Shutdown, QemuSuspended, Pong, GaSuspending
<1>6. ASSUME NEW s \in Senders, TemporaryEntry(s) PROVE OthersQuiet
  BY <1>6 DEF TemporaryEntry, OthersQuiet
<1>7. ASSUME NEW w \in Waiters, Suspend(w) PROVE OthersQuiet
  BY <1>2, <1>7, EntryOperatorsQuiet DEF Suspend
<1>8. ReportBoot => OthersQuiet
  BY EntryOperatorsQuiet DEF ReportBoot
<1>9. CASE MouseEdged
  <2>1. CASE io # "TemporaryLightEntry"
    BY <1>2, <1>9, <2>1 DEF MouseEdged
  <2>2. CASE io = "TemporaryLightEntry"
    <3>1. entryChan' = [entryChan EXCEPT ![tempSender] = Append(@, "MouseEdged")]
      BY <1>9, <2>2 DEF MouseEdged
    <3> QED
      BY <3>1 DEF OthersQuiet, TypeInv, IoTypeOK
  <2> QED
    BY <2>1, <2>2
<1>10. ASSUME NEW a \in HotKeyAction, Hotkey(a) PROVE OthersQuiet
  BY <1>2, <1>3, <1>4, <1>10 DEF Hotkey
<1>11. ASSUME NEW t \in Timers, Tick(t) PROVE OthersQuiet
  BY <1>11, EntryOperatorsQuiet DEF Tick
<1>12. ASSUME NEW s \in Senders, EntryPoll(s) \/ EntryOver(s) PROVE OthersQuiet
  BY <1>12 DEF EntryPoll, EntryOver, OthersQuiet, TypeInv, IoTypeOK
<1> QED
  BY <1>3, <1>4, <1>5, <1>6, <1>7, <1>8, <1>9, <1>10, <1>11, <1>12
     DEF Next, ControlNext, AgentNext, TimerNext, TaskNext

\* What is in a channel has a task that will read it.
ChannelHasTask == \A s \in Senders : entryChan[s] # <<>> => task[s] # NoConn

\* A task goes only after it has emptied its channel.
LEMMA TaskEmpties ==
    ASSUME TypeInv, ServerTypeOK, ServerNext,
           NEW s \in Senders, task[s] # NoConn, task'[s] = NoConn
    PROVE  entryChan'[s] = <<>>
<1>1. ASSUME NEW c \in Conns, Drop(c) PROVE FALSE
  BY <1>1, NoConnAssumption DEF Drop, ServerTypeOK
<1>2. ASSUME NEW c \in Conns, NEW u \in Senders, EnterTemporarily(c, u) PROVE FALSE
  BY <1>2, NoConnAssumption DEF EnterTemporarily, ServerTypeOK
<1>3. ASSUME NEW c \in Conns, ReaderNext(c) PROVE FALSE
  BY <1>1, <1>2, <1>3 DEF ReaderNext, Handle, BreakTemporary, RefuseTemporary, ExitTemporary, EndOfStream
<1>4. ASSUME NEW c \in Conns, ClientNext(c) PROVE FALSE
  BY <1>4 DEF ClientNext, Connect, Request
<1>5. ASSUME NEW u \in Senders, ForwarderNext(u) PROVE entryChan'[s] = <<>>
  <2>1. FinishTask(u) /\ u = s
    BY <1>5 DEF ForwarderNext, Forward, FinishTask, ServerTypeOK
  <2> QED
    BY <2>1 DEF FinishTask, EntryOver, TypeInv, IoTypeOK
<1> QED
  BY <1>1, <1>3, <1>4, <1>5 DEF ServerNext, WriterFails, OthersNext, serverVars

\* The controller never sends through a channel that nobody reads any more: the
\* unwrap()s of io_force_attach and mouse_edged do not fail, and nothing
\* that it has sent stays unread.
THEOREM ChannelsAlwaysHaveTasks == ServerSpec => []ChannelHasTask
<1>1. Init => ChannelHasTask
  BY DEF Init, ChannelHasTask
<1>2. TypeInv /\ ServerTypeOK /\ EntryHasTask /\ ChannelHasTask /\ [ServerNext]_allVars
        => ChannelHasTask'
  <2> SUFFICES ASSUME TypeInv, ServerTypeOK, EntryHasTask, ChannelHasTask, ServerNext,
                      NEW s \in Senders, entryChan'[s] # <<>>
               PROVE  task'[s] # NoConn
    BY DEF ChannelHasTask, allVars, vars, ioVars, serverVars
  <2>1. OthersQuiet \/ UNCHANGED entryChan
    BY ServerStepIsNext, ControllerQuiet DEF vars, ioVars
  <2>2. entryChan[s] # <<>> \/ s = tempSender
    BY <2>1 DEF OthersQuiet
  <2>3. task[s] # NoConn
    BY <2>2, NoSenderAssumption DEF ChannelHasTask, EntryHasTask
  <2> QED
    BY <2>3, TaskEmpties
<1> QED
  BY <1>1, <1>2, ServerImplementsController, TypeInvInvariant, ServerTypes,
     EntryAlwaysHasTask, PTL DEF ServerSpec

\* Nothing for this connection's reader to do: there is no client, it waits for
\* a suspend, there is nothing to decode, or what there is needs more
\* bytes; or the bound on entries keeps it from another one.
ReaderRests(c) ==
    \/ c \notin open \/ c \in waiters
    \/ inbox[c] = <<>>
    \/ Head(inbox[c]) = "Invalid" /\ ~Ended(c)
    \/ /\ Head(inbox[c]) = "TemporaryLightEntry" /\ c \notin tempEntry
       /\ ga \in Alive /\ io = "Detached"
       /\ \A s \in Senders : task[s] # NoConn \/ entryChan[s] # <<>>

\* Nothing for this task to do.
TaskRests(s) ==
    \/ task[s] = NoConn
    \/ ~TaskOver(s) /\ (task[s] \in Conns => entryChan[s] = <<>>)

\* Nothing of the server is left to be told or to be cleaned up.
AllTold ==
    /\ \A c \in open : Ended(c) => c \in waiters
    /\ \A s \in Senders : entryChan[s] = <<>> /\ (task[s] # NoConn => tempSender = s)

\* Readers and tasks come to a standstill only when every client has been told
\* what there was to tell it, no task is left of an entry that is over, and
\* no connection of a client that has gone, but for those in a suspend.
THEOREM ServerStandsStillOnlyWhenTold ==
    Senders # {} =>
      (ServerSpec => []((\A c \in Conns : ReaderRests(c)) /\ (\A s \in Senders : TaskRests(s)) => AllTold))
<1> SUFFICES ASSUME Senders # {}
             PROVE  ServerSpec => []((\A c \in Conns : ReaderRests(c))
                                      /\ (\A s \in Senders : TaskRests(s)) => AllTold)
  OBVIOUS
<1>1. TypeInv /\ ServerTypeOK /\ ChannelHasTask =>
        ((\A c \in Conns : ReaderRests(c)) /\ (\A s \in Senders : TaskRests(s)) => AllTold)
  <2> SUFFICES ASSUME TypeInv, ServerTypeOK, ChannelHasTask,
                      \A c \in Conns : ReaderRests(c), \A s \in Senders : TaskRests(s)
               PROVE  AllTold
    OBVIOUS
  <2>1. ASSUME NEW s \in Senders PROVE entryChan[s] = <<>> /\ (task[s] # NoConn => tempSender = s)
    BY NoConnAssumption DEF TaskRests, TaskOver, ChannelHasTask, ServerTypeOK
  <2>2. ASSUME NEW c \in open, Ended(c), c \notin waiters PROVE FALSE
    <3>1. PICK s \in Senders : TRUE
      OBVIOUS
    <3>2. c \in Conns /\ inbox[c] # <<>> /\ ReaderRests(c)
      BY <2>2 DEF ServerTypeOK, Ended
    <3>3. io = "Detached" /\ task[s] # NoConn
      BY <2>1, <2>2, <3>2 DEF ReaderRests
    <3>4. tempSender = s
      BY <2>1, <3>3
    <3> QED
      BY <3>3, <3>4, NoSenderAssumption DEF TypeInv, SenderKept
  <2> QED
    BY <2>1, <2>2 DEF AllTold
<1> QED
  BY <1>1, ServerImplementsController, TypeInvInvariant, ServerTypes,
     ChannelsAlwaysHaveTasks, PTL
=============================================================================
