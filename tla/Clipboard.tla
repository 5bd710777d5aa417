------------------------------- MODULE Clipboard -------------------------------
(***************************************************************************)
(* The clipboard of host and guest: ClipboardGuest composed with the       *)
(* driver's side, which are the clipboard handlers of controller.rs, the   *)
(* relay of clipboard.rs with its listener, responder and command handler, *)
(* and the Wayland selection behind zerocost-clipboard/src/wayland, of     *)
(* which the driver knows what the compositor's events have told it.       *)
(*                                                                         *)
(* The driver takes part in both directions.  When Linux has copied, the   *)
(* guest's clipboard is grabbed and Windows asks for contents; when        *)
(* Windows has, the selection is claimed, with a marker in the offer, and  *)
(* Linux asks.  There is one place for a request of Linux that the guest   *)
(* has to answer (win_clipboard_request).                                  *)
(***************************************************************************)
EXTENDS ClipboardGuest

CONSTANTS
    NoRequest,  \* no request is in that place
    NoRead      \* the command handler reads nothing

VARIABLES
    sel,        \* whose offer is the compositor's selection
    coming,     \* its Selection events, on their way to the driver
    known,      \* current_offer
    selChanged, \* the listener has not seen it
    slot,       \* win_clipboard_request
    grabs,      \* the channel to the grabber
    reads,      \* the channel to the reader
    cmds,       \* both of them feed the command handler
    reading     \* what it is waiting for, and from whom

selVars == <<sel, coming, known, selChanged>>
hostVars == <<selVars, slot, grabs, reads, cmds, reading>>
clipVars == <<guestVars, hostVars>>

Selections == {"None", "App", "Ours"}
LinuxRequest == [who : {"app", "self"}, type : Types, mixed : BOOLEAN]
LinuxRead == [type : Types, from : {"App", "Ours"}]

ASSUME PlacesAssumption == NoRequest \notin LinuxRequest /\ NoRead \notin LinuxRead

ClipboardTypeOK ==
    /\ GuestTypeOK
    /\ sel \in Selections
    /\ coming \in Seq(Selections)
    /\ known \in Selections
    /\ selChanged \in BOOLEAN
    /\ slot \in LinuxRequest \cup {NoRequest}
    /\ grabs \in Nat
    /\ reads \in Seq(Types)
    /\ cmds \in Seq(Message)
    /\ reading \in LinuxRead \cup {NoRead}

ClipboardInit ==
    /\ GuestInit
    /\ sel = "None"
    /\ coming = <<>>
    /\ known = "None"
    /\ selChanged = FALSE
    /\ slot = NoRequest
    /\ grabs = 0
    /\ reads = <<>>
    /\ cmds = <<>>
    /\ reading = NoRead

\* The guest's state is unchanged but for what the driver sends.
Guest == UNCHANGED <<windowsVars, windowVars, sharedVars, mainVars>>

-----------------------------------------------------------------------------
(* Linux *)

\* The compositor has a new selection, and tells its clients.
Selected(whose) ==
    /\ sel' = whose
    /\ coming' = Append(coming, whose)

\* Another application copies, or the one that did goes away.
LinuxCopies ==
    /\ linCopies < MaxCopies
    /\ linCopies' = linCopies + 1
    /\ \E whose \in {"App", "None"} : Selected(whose)
    /\ UNCHANGED <<winCopies, pastes, known, selChanged, slot, grabs, reads, cmds, reading, pipeVars>>
    /\ Guest

\* An answer to an earlier request is to come.
Unanswered ==
    \/ \E i \in DOMAIN toGuest : toGuest[i].kind = "Request"
    \/ main \in {"open", "get"}
    \/ \E i \in DOMAIN toHost : toHost[i].kind = "Contents"

\* Fault: the desired type is always the text.
AsksForText(who, t) ==
    LET text == CHOOSE x \in Types : TRUE IN
    /\ slot' = [who |-> who, type |-> t, mixed |-> Unanswered]
    /\ IF slot # NoRequest /\ slot.who = "self"
       THEN /\ toGuest' = Append(Append(toGuest, Request(text)), Contents(Empty, FALSE))
            /\ reading' = NoRead
       ELSE /\ toGuest' = Append(toGuest, Request(text))
            /\ reading' = IF who = "self" THEN [type |-> t, from |-> "Ours"] ELSE reading

\* read_win_clipboard.  A request that is replaced is dropped and its pipe
\* closed, and if the command handler was reading from that, it has read
\* nothing.
ReadWinClipboard(who, t) ==
    /\ slot' = [who |-> who, type |-> t, mixed |-> Unanswered]
    /\ IF slot # NoRequest /\ slot.who = "self"
       THEN /\ toGuest' = Append(Append(toGuest, Request(t)), Contents(Empty, FALSE))
            /\ reading' = NoRead
       ELSE /\ toGuest' = Append(toGuest, Request(t))
            /\ reading' = IF who = "self" THEN [type |-> t, from |-> "Ours"] ELSE reading

LinuxPastes(t) ==
    /\ pastes < MaxPastes
    /\ sel = "Ours"
    /\ pastes' = pastes + 1
    /\ ReadWinClipboard("app", t)
    /\ UNCHANGED <<winCopies, linCopies, selVars, grabs, reads, cmds, toHost>>
    /\ Guest

-----------------------------------------------------------------------------
(* The relay *)

\* A Selection event.
SelectionArrives ==
    /\ coming # <<>>
    /\ coming' = Tail(coming)
    /\ known' = Head(coming)
    /\ selChanged' = TRUE
    /\ UNCHANGED <<userVars, sel, slot, grabs, reads, cmds, reading, pipeVars>>
    /\ Guest

\* Fault: the listener takes every offer for a foreign one.
ListensToAll ==
    /\ selChanged
    /\ selChanged' = FALSE
    /\ toGuest' = IF known # "None" THEN Append(toGuest, Grab) ELSE toGuest
    /\ UNCHANGED <<userVars, sel, coming, known, slot, grabs, reads, cmds, reading, toHost>>
    /\ Guest

\* The listener: an offer that carries the marker is the driver's own.
Listens ==
    /\ selChanged
    /\ selChanged' = FALSE
    /\ toGuest' = IF known = "App" THEN Append(toGuest, Grab) ELSE toGuest
    /\ UNCHANGED <<userVars, sel, coming, known, slot, grabs, reads, cmds, reading, toHost>>
    /\ Guest

HostReads(kind) ==
    /\ toHost # <<>>
    /\ Head(toHost).kind = kind
    /\ toHost' = Tail(toHost)
    /\ UNCHANGED <<userVars, selVars, cmds>>
    /\ Guest

GuestGrabs ==
    /\ HostReads("Grab")
    /\ grabs' = grabs + 1
    /\ UNCHANGED <<toGuest, slot, reads, reading>>

GuestAsks ==
    /\ HostReads("Request")
    /\ reads' = Append(reads, Head(toHost).type)
    /\ UNCHANGED <<toGuest, slot, grabs, reading>>

\* respond_x11_clipboard, and the responder.  If the request was the
\* command handler's own, that passes the data on to Windows.
GuestAnswers ==
    /\ HostReads("Contents")
    /\ slot' = NoRequest
    /\ IF slot # NoRequest /\ slot.who = "self"
       THEN /\ toGuest' = Append(toGuest, Contents(Head(toHost).type, slot.mixed))
            /\ reading' = NoRead
       ELSE UNCHANGED <<toGuest, reading>>
    /\ UNCHANGED <<grabs, reads>>

\* The grabber is polled before the reader, so a grab overtakes a read
\* that came in the same poll.
ForwardsGrab ==
    /\ grabs > 0
    /\ grabs' = grabs - 1
    /\ cmds' = Append(cmds, Grab)
    /\ UNCHANGED <<userVars, selVars, slot, reads, reading, pipeVars>>
    /\ Guest

ForwardsRead ==
    /\ grabs = 0
    /\ reads # <<>>
    /\ reads' = Tail(reads)
    /\ cmds' = Append(cmds, Request(Head(reads)))
    /\ UNCHANGED <<userVars, selVars, slot, grabs, reading, pipeVars>>
    /\ Guest

\* The command handler handles no command while it reads.
Handles(kind) ==
    /\ reading = NoRead
    /\ cmds # <<>>
    /\ Head(cmds).kind = kind
    /\ cmds' = Tail(cmds)
    /\ UNCHANGED <<userVars, grabs, reads, toHost>>
    /\ Guest

\* What is asked for on the same connection comes after the claim.
Claims ==
    /\ Handles("Grab")
    /\ Selected("Ours")
    /\ UNCHANGED <<known, selChanged, slot, reading, toGuest>>

\* The driver's own offer, when the compositor has replaced it: it closes
\* the pipe at once.
Expired == known = "Ours" /\ coming # <<>>

ReadsNothing == toGuest' = Append(toGuest, Contents(Empty, FALSE)) /\ UNCHANGED <<slot, reading>>

ReadsFromOffer(t) ==
    \/ /\ known = "App"
       /\ reading' = [type |-> t, from |-> "App"]
       /\ UNCHANGED <<slot, toGuest>>
    \/ known = "Ours" /\ ~Expired /\ ReadWinClipboard("self", t)

\* Fault: an empty clipboard is not worth an answer.
ReadsSomething ==
    /\ Handles("Request")
    /\ \/ known = "None" /\ UNCHANGED <<slot, reading, toGuest>>
       \/ Expired /\ ReadsNothing
       \/ ReadsFromOffer(Head(cmds).type)
    /\ UNCHANGED selVars

\* It asks whose offer it knows of, which may be the driver itself.
Reads ==
    /\ Handles("Request")
    /\ \/ (known = "None" \/ Expired) /\ ReadsNothing
       \/ ReadsFromOffer(Head(cmds).type)
    /\ UNCHANGED selVars

\* The application writes the data, or goes away and with it the pipe, as
\* does an offer that the compositor has replaced.
LinuxAnswers ==
    /\ reading # NoRead /\ reading.from = "App"
    /\ reading' = NoRead
    /\ \E d \in {reading.type, Empty} : toGuest' = Append(toGuest, Contents(d, FALSE))
    /\ UNCHANGED <<userVars, selVars, slot, grabs, reads, cmds, toHost>>
    /\ Guest

-----------------------------------------------------------------------------
RelayNext ==
    \/ SelectionArrives \/ Listens
    \/ GuestGrabs \/ GuestAsks \/ GuestAnswers
    \/ ForwardsGrab \/ ForwardsRead
    \/ Claims \/ Reads

LinuxNext == LinuxCopies \/ (\E t \in Types : LinuxPastes(t)) \/ LinuxAnswers

ClipboardNext ==
    \/ GuestNext /\ UNCHANGED hostVars
    \/ RelayNext
    \/ LinuxNext

ClipboardSpec == ClipboardInit /\ [][ClipboardNext]_clipVars

\* Threads and tasks go on when they can, an application that is asked for
\* data answers, and Windows' patience ends.
ClipboardFairness ==
    /\ WF_clipVars(WindowNext /\ UNCHANGED hostVars)
    /\ WF_clipVars(MainNext /\ UNCHANGED hostVars)
    /\ WF_clipVars(WindowsTimesOut /\ UNCHANGED hostVars)
    /\ WF_clipVars(RelayNext)
    /\ WF_clipVars(LinuxAnswers)

FairClipboardSpec == ClipboardSpec /\ ClipboardFairness

-----------------------------------------------------------------------------
(* Safety *)

\* A paste on Linux gets data of the type it asked for, or nothing, unless
\* it was made before the guest had answered an earlier one: then the place
\* is taken over, and the earlier answer goes to the later request
\* (read_win_clipboard, respond_x11_clipboard).
AnswerFits ==
    [][slot # NoRequest /\ slot' = NoRequest =>
         Head(toHost).type \in {slot.type, Empty} \/ slot.mixed]_clipVars

\* A rendering in Windows ends with the answer to this very rendering, even
\* if Windows gave up on it or on another one before: there is one place
\* for a request here, too (outstanding_clipboard_request).  The exception
\* is an answer that was mixed up on its way through Linux.
RenderFits ==
    [][window = "rendering" /\ window' # "rendering" =>
         /\ answer.at = "window"
         /\ answer.type \in {wanted, Empty} \/ answer.mixed]_clipVars

\* No grab comes back to the side that it came from: a side on which
\* nobody has copied keeps what the other side has put there, and never
\* claims to have something (the marker of clipboard.rs, the comparison of
\* the owner in main.rs).
NoEcho ==
    /\ linCopies = 0 => owner # "Ga"
    /\ winCopies = 0 => sel # "Ours"

(* Liveness *)

Quiet ==
    /\ toGuest = <<>> /\ toHost = <<>>
    /\ main = "idle" /\ window = "idle" /\ asked = NoType
    /\ grabs = 0 /\ reads = <<>> /\ cmds = <<>>
    /\ reading = NoRead /\ slot = NoRequest
    /\ ~update /\ ~changed /\ coming = <<>> /\ ~selChanged

\* Once the users stop, everything that they have asked for is answered
\* and the clipboards do not grab each other for ever, unless the agent
\* hangs.
Rests == <>[](Quiet \/ Hung)
=============================================================================
