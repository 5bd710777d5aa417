---------------------------- MODULE ControlServer ----------------------------
(***************************************************************************)
(* The control socket of the driver, control/mod.rs, composed with the     *)
(* controller: clients connect, send commands ahead of the answers, and go *)
(* away; each accepted temporary entry spawns a task that forwards what    *)
(* the controller sends through the entry's channel.                       *)
(*                                                                         *)
(* A reader handles one command at a time and calls the controller within  *)
(* the same step.  A Suspend returns a future, and the reader reads no     *)
(* further until it resolves.  The rest of the driver (GA, hotkeys,        *)
(* timers, QEMU, the sleep inhibitor, SIGTERM) stays as open as in         *)
(* Controller.  A connection of Conns is a place for one client after the  *)
(* other, and a sender of Senders one for a temporary entry after the      *)
(* other.                                                                  *)
(***************************************************************************)
EXTENDS Controller

CONSTANTS
    Conns,      \* connections there can be at once
    NoConn,
    Gone,       \* stands for a connection that was dropped
    Requests,   \* what the clients send
    MaxInbox    \* bound on the commands a client sends ahead

ControlCmdIn == {"IoEntry", "TryIoEntry", "LightEntry", "Shutdown", "ForceIoEntry",
                 "IoExit", "Suspend", "TemporaryLightEntry", "BackupMode"}
ControlCmdOut == {"TemporaryLightAttached"} \cup EntryMsg

\* What a client puts on the wire: a command, a byte that is none, the end.
Wire == ControlCmdIn \cup {"Invalid", "Eof"}

ASSUME ConnsAssumption == Conns \subseteq Waiters
ASSUME NoConnAssumption == {NoConn, Gone} \cap Conns = {} /\ NoConn # Gone
ASSUME RequestsAssumption == Requests \subseteq Wire

VARIABLES
    open,       \* the connections that have a client
    inbox,      \* what the client sent and the reader has not decoded
    tempEntry,  \* the readers whose temp_entry flag is set
    task,       \* whose connection an entry's forwarding task writes to
    said        \* the last message handed to the connection's writer, which
                \* sends them in order

serverVars == <<open, inbox, tempEntry, task, said>>
allVars == <<vars, serverVars>>

ServerTypeOK ==
    /\ open \subseteq Conns
    /\ inbox \in [Conns -> Seq(Wire)]
    /\ tempEntry \subseteq open
    /\ task \in [Senders -> Conns \cup {NoConn, Gone}]
    /\ said \in [Conns -> ControlCmdOut \cup {"nothing"}]

ServerInit ==
    /\ open = {}
    /\ inbox = [c \in Conns |-> <<>>]
    /\ tempEntry = {}
    /\ task = [s \in Senders |-> NoConn]
    /\ said = [c \in Conns |-> "nothing"]

-----------------------------------------------------------------------------
(* The clients *)

\* The place of a connection that was dropped in a suspend is free again once the
\* controller has forgotten its waiter.
Connect(c) ==
    /\ c \notin open \cup waiters
    /\ open' = open \cup {c}
    /\ UNCHANGED <<vars, inbox, tempEntry, task, said>>

Ended(c) == inbox[c] # <<>> /\ inbox[c][Len(inbox[c])] = "Eof"

\* A client may always go away, however much it has sent ahead.
Request(c, what) ==
    /\ c \in open
    /\ ~Ended(c)
    /\ what = "Eof" \/ Len(inbox[c]) < MaxInbox
    /\ inbox' = [inbox EXCEPT ![c] = Append(@, what)]
    /\ UNCHANGED <<vars, open, tempEntry, task, said>>

-----------------------------------------------------------------------------
(* The reader *)

\* The reader polls the socket, no future of its own being pending, and
\* decodes a command.
Reads(c, what) ==
    /\ c \in open \ waiters
    /\ inbox[c] # <<>>
    /\ Head(inbox[c]) = what

Consume(c) == inbox' = [inbox EXCEPT ![c] = Tail(@)]

\* Fault: the next client in this place starts in temporary mode.
DropKeepsFlag(c) ==
    /\ open' = open \ {c}
    /\ inbox' = [inbox EXCEPT ![c] = <<>>]
    /\ task' = [s \in Senders |-> IF task[s] = c THEN Gone ELSE task[s]]
    /\ said' = [said EXCEPT ![c] = "nothing"]
    /\ UNCHANGED tempEntry

\* writer.select(reader): the end of the reader drops the writer, too, and
\* with it the receiver that the connection's tasks write to.
Drop(c) ==
    /\ open' = open \ {c}
    /\ inbox' = [inbox EXCEPT ![c] = <<>>]
    /\ tempEntry' = tempEntry \ {c}
    /\ task' = [s \in Senders |-> IF task[s] = c THEN Gone ELSE task[s]]
    /\ said' = [said EXCEPT ![c] = "nothing"]

\* What a command outside of a temporary entry calls.  The two backup
\* commands touch none of the state that is modelled here.
Call(c, cmd) ==
    \/ cmd = "IoEntry" /\ IoAttach
    \/ cmd = "TryIoEntry" /\ TryAttach
    \/ cmd = "LightEntry" /\ LightAttach
    \/ cmd = "Shutdown" /\ Shutdown
    \/ cmd = "ForceIoEntry" /\ IoOnly(IoForceAttach)
    \/ cmd = "IoExit" /\ IoOnly(IoDetach)
    \/ cmd = "Suspend" /\ Suspend(c)
    \/ cmd = "BackupMode" /\ NoOp

Handle(c, cmd) ==
    /\ Reads(c, cmd)
    /\ c \notin tempEntry
    /\ Call(c, cmd)
    /\ Consume(c)
    /\ UNCHANGED <<open, tempEntry, task, said>>

\* Fault: an entry is made temporary whatever entry there is.
EnterOverAnother(c, s) ==
    /\ Reads(c, "TemporaryLightEntry")
    /\ c \notin tempEntry
    /\ task[s] = NoConn
    /\ ga \in Alive
    /\ ResumeIfDetached
    /\ io' = "TemporaryLightEntry"
    /\ tempSender' = s
    /\ UNCHANGED <<entryChan, usb, demoted, agentVars, waiters>>
    /\ Silent
    /\ Consume(c)
    /\ tempEntry' = tempEntry \cup {c}
    /\ task' = [task EXCEPT ![s] = c]
    /\ said' = [said EXCEPT ![c] = "TemporaryLightAttached"]
    /\ UNCHANGED open

EnterTemporarily(c, s) ==
    /\ Reads(c, "TemporaryLightEntry")
    /\ c \notin tempEntry
    /\ task[s] = NoConn
    /\ TemporaryEntry(s)
    /\ Consume(c)
    /\ tempEntry' = tempEntry \cup {c}
    /\ task' = [task EXCEPT ![s] = c]
    /\ said' = [said EXCEPT ![c] = "TemporaryLightAttached"]
    /\ UNCHANGED open

RefuseTemporary(c) ==
    /\ Reads(c, "TemporaryLightEntry")
    /\ c \notin tempEntry
    /\ ga \notin Alive \/ io # "Detached"
    /\ NoOp
    /\ Drop(c)

\* Fault: a temporary entry is left by clearing the flag alone.
ExitForgetsEntry(c) ==
    /\ Reads(c, "IoExit")
    /\ c \in tempEntry
    /\ NoOp
    /\ Consume(c)
    /\ tempEntry' = tempEntry \ {c}
    /\ UNCHANGED <<open, task, said>>

ExitTemporary(c) ==
    /\ Reads(c, "IoExit")
    /\ c \in tempEntry
    /\ IoOnly(TemporaryExit)
    /\ Consume(c)
    /\ tempEntry' = tempEntry \ {c}
    /\ UNCHANGED <<open, task, said>>

\* Any other command in a temporary entry ends the connection, too.
BreakTemporary(c, cmd) ==
    /\ cmd # "IoExit"
    /\ Reads(c, cmd)
    /\ c \in tempEntry
    /\ IoOnly(TemporaryExit)
    /\ Drop(c)

\* Fault: the end of the stream is not noticed behind an invalid byte.
EndOfCleanStream(c) ==
    /\ Reads(c, "Eof")
    /\ UNCHANGED vars
    /\ Drop(c)

\* The end of the stream, at which what cannot be decoded is an error;
\* before it, an invalid byte just hangs the connection.
EndOfStream(c) ==
    /\ Ended(c)
    /\ Reads(c, "Eof") \/ Reads(c, "Invalid")
    /\ UNCHANGED vars
    /\ Drop(c)

\* writer.select(reader): a message that cannot be written to a client that has
\* gone ends the connection, too, with commands still to be read or the reader in
\* a suspend.  When a message was written is not kept, so that any that was handed
\* to the writer may be the one.
WriterFails(c) ==
    /\ c \in open
    /\ Ended(c)
    /\ said[c] # "nothing"
    /\ UNCHANGED vars
    /\ Drop(c)

-----------------------------------------------------------------------------
(* The forwarding tasks *)

\* One poll of for_each passes on all that is queued.
Forward(s) ==
    /\ task[s] \in Conns
    /\ tempSender = s
    /\ EntryPoll(s)
    /\ said' = [said EXCEPT ![task[s]] = entryChan[s][Len(entryChan[s])]]
    /\ UNCHANGED <<open, inbox, tempEntry, task>>

\* Fault: a message that cannot be passed on is ignored.
OverWhenClosed(s) == tempSender # s

\* Fault: only a message that cannot be passed on ends for_each.
OverWhenGone(s) == task[s] = Gone /\ entryChan[s] # <<>>

\* for_each is over once the controller has dropped the sender, or when a
\* message cannot be passed on because the connection is gone.
TaskOver(s) ==
    \/ tempSender # s
    \/ task[s] = Gone /\ entryChan[s] # <<>>

\* Fault: the end of a task leaves the controller alone.
FinishWithoutExit(s) ==
    /\ task[s] # NoConn
    /\ TaskOver(s)
    /\ entryChan' = [entryChan EXCEPT ![s] = <<>>]
    /\ UNCHANGED <<entryVars, agentVars, waiters, toGa, toQemu>>
    /\ said' = [c \in Conns |->
                    IF c = task[s] THEN "TemporaryLightDetached" ELSE said[c]]
    /\ task' = [task EXCEPT ![s] = NoConn]
    /\ UNCHANGED <<open, inbox, tempEntry>>

\* The rest of that poll: what is queued, then the .then of the task.
FinishTask(s) ==
    /\ task[s] # NoConn
    /\ TaskOver(s)
    /\ EntryOver(s)
    /\ said' = [c \in Conns |->
                    IF c = task[s] THEN "TemporaryLightDetached" ELSE said[c]]
    /\ task' = [task EXCEPT ![s] = NoConn]
    /\ UNCHANGED <<open, inbox, tempEntry>>

-----------------------------------------------------------------------------
ClientNext(c) == Connect(c) \/ \E what \in Requests : Request(c, what)

ReaderNext(c) ==
    \/ \E cmd \in ControlCmdIn : Handle(c, cmd) \/ BreakTemporary(c, cmd)
    \/ \E s \in Senders : EnterTemporarily(c, s)
    \/ RefuseTemporary(c)
    \/ ExitTemporary(c)
    \/ EndOfStream(c)

ForwarderNext(s) == Forward(s) \/ FinishTask(s)

\* The rest of the driver, as open as in Controller; Shutdown is SIGTERM.
OthersNext ==
    /\ \/ AgentNext
       \/ TimerNext
       \/ QemuSuspended
       \/ Shutdown
       \/ \E w \in Waiters \ Conns : Suspend(w)
    /\ UNCHANGED serverVars

ServerNext ==
    \/ \E c \in Conns : ClientNext(c) \/ ReaderNext(c) \/ WriterFails(c)
    \/ \E s \in Senders : ForwarderNext(s)
    \/ OthersNext

ServerSpec == Init /\ ServerInit /\ [][ServerNext]_allVars

\* A spawned connection or task is polled whenever it can go on.
ServerFairness ==
    /\ \A c \in Conns : WF_allVars(ReaderNext(c))
    /\ \A s \in Senders : WF_allVars(ForwarderNext(s))

FairServerSpec == ServerSpec /\ ServerFairness /\ TimerFairness

-----------------------------------------------------------------------------
(* Safety *)

\* The receiver of a temporary entry lives as long as the entry, so the
\* unwrap() of mouse_edged and io_force_attach meets no closed channel.
EntryHasTask == tempSender # NoSender => task[tempSender] # NoConn

\* The client of a temporary entry can leave it with IoExit: its reader is
\* in the temporary mode and does not hang in a suspend.
EntrantCanLeave ==
    tempSender # NoSender /\ task[tempSender] \in Conns =>
        task[tempSender] \in tempEntry \ waiters

\* The client of a temporary entry was not told that the entry is over,
\* whatever tasks of earlier entries are still to be polled.
NotToldOver ==
    tempSender # NoSender /\ task[tempSender] \in Conns =>
        said[task[tempSender]] # "TemporaryLightDetached"

(* Liveness *)

\* When the controller ends a temporary entry, the entry's task goes away,
\* the client having been told.
EntryEndIsTold ==
    \A s \in Senders : task[s] # NoConn /\ tempSender # s ~> task[s] = NoConn

\* A client that is gone loses its temporary entry as soon as there is
\* something to tell it.
OrphanEndsAtMessage ==
    \A s \in Senders : task[s] = Gone /\ entryChan[s] # <<>> ~> tempSender # s

\* A connection its client has closed goes away, unless it waits for a
\* suspend that never comes.
LeftIsDropped ==
    \A c \in Conns : c \in open /\ Ended(c) ~> (c \notin open \/ c \in waiters)
=============================================================================
