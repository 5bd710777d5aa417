---------------------------- MODULE ClipboardGuest ----------------------------
(***************************************************************************)
(* The clipboard in the guest: the agent's main thread with its tasks      *)
(* (guest-agent/src/main.rs) and its window thread                         *)
(* (windows-eventloop/src/lib.rs), which share the Windows clipboard       *)
(* (zerocost-clipboard/src/windows) with the applications.                 *)
(*                                                                         *)
(* The tasks of the current_thread runtime, the delay renderers among      *)
(* them, run only while the main thread is not inside a Windows call or    *)
(* waiting for the mutex of delay_renderers.  The window thread handles    *)
(* one message at a time, and a WM_RENDERFORMAT in block_on, with that     *)
(* mutex held until the renderer has delivered; nobody else keeps it.      *)
(*                                                                         *)
(* Every copy offers all Types.  Of data only its type is told apart.      *)
(***************************************************************************)
EXTENDS Integers, Sequences

CONSTANTS
    Types,      \* ClipboardType
    NoType,
    Empty,      \* the answer of somebody who has nothing
    MaxCopies,  \* bound on what the users copy, on either side
    MaxPastes   \* bound on what they paste, on both together

ASSUME TypesAssumption == NoType \notin Types /\ Empty \notin Types
ASSUME BoundsAssumption == MaxCopies \in Nat /\ MaxPastes \in Nat

VARIABLES
    \* the Windows clipboard
    holder,     \* who has it open
    owner,      \* whose contents it has
    avail,      \* the types whose data is there
    delayed,    \* the types to be rendered when somebody asks
    asked,      \* what the holder waits for in GetClipboardData
    taken,      \* the window thread is rendering it
    \* the window thread, and the messages it will get
    window,
    wanted,     \* the type it renders
    update,     \* WM_CLIPBOARDUPDATE
    destroy,    \* WM_DESTROYCLIPBOARD
    \* what the threads share
    renderers,  \* the keys of delay_renderers
    offer,      \* the owner in rx_offers
    current,    \* its sequence number is the clipboard's
    changed,    \* the watching task has not seen it
    answer,     \* the host's, on its way to who renders
    \* the main thread
    main,
    request,    \* the type the host asked for
    fresh,      \* the offer it was asked for is still the clipboard's
    outstanding, \* outstanding_clipboard_request
    \* the clipboard messages of the agent's pipe
    toGuest,
    toHost,
    \* what the users did so far
    winCopies,
    linCopies,
    pastes

windowsVars == <<holder, owner, avail, delayed, asked, taken>>
windowVars == <<window, wanted, update, destroy>>
sharedVars == <<renderers, offer, current, changed, answer>>
mainVars == <<main, request, fresh, outstanding>>
pipeVars == <<toGuest, toHost>>
userVars == <<winCopies, linCopies, pastes>>
guestVars == <<windowsVars, windowVars, sharedVars, mainVars, pipeVars, userVars>>

\* "mixed" is no part of a message: it says that the data may be that of
\* another request, see AnswerFits.
Message ==
    [kind : {"Grab"}, type : {NoType}, mixed : {FALSE}] \cup
    [kind : {"Request"}, type : Types, mixed : {FALSE}] \cup
    [kind : {"Contents"}, type : Types \cup {Empty}, mixed : BOOLEAN]

Grab == [kind |-> "Grab", type |-> NoType, mixed |-> FALSE]
Request(t) == [kind |-> "Request", type |-> t, mixed |-> FALSE]
Contents(d, mixed) == [kind |-> "Contents", type |-> d, mixed |-> mixed]

\* The data of a Contents, with the task behind the renderer or, from
\* there, with the window thread.
NoAnswer == [at |-> "none", type |-> NoType, mixed |-> FALSE]
AnswerAt(where, d, mixed) == [at |-> where, type |-> d, mixed |-> mixed]
HeldAnswer == [at : {"task", "window"}, type : Types \cup {Empty}, mixed : BOOLEAN]

GuestTypeOK ==
    /\ holder \in {"none", "app", "main"}
    /\ owner \in {"None", "App", "Ga"}
    /\ avail \subseteq Types
    /\ delayed \subseteq Types
    /\ asked \in Types \cup {NoType}
    /\ window \in {"idle", "updating", "rendering"}
    /\ wanted \in IF window = "rendering" THEN Types ELSE {NoType}
    /\ renderers \subseteq Types
    /\ offer \in {"None", "App", "Ga"}
    /\ main \in {"idle", "grab", "lock", "open", "get"}
    /\ request \in Types \cup {NoType}
    /\ outstanding \in {NoType, wanted}
    /\ answer \in HeldAnswer \cup {NoAnswer}
    /\ answer # NoAnswer => window = "rendering" /\ outstanding = NoType
    /\ {taken, update, destroy, current, changed, fresh} \subseteq BOOLEAN
    /\ toGuest \in Seq(Message)
    /\ toHost \in Seq(Message)
    /\ winCopies \in 0 .. MaxCopies
    /\ linCopies \in 0 .. MaxCopies
    /\ pastes \in 0 .. MaxPastes

GuestInit ==
    /\ holder = "none"
    /\ owner = "None"
    /\ avail = {}
    /\ delayed = {}
    /\ asked = NoType
    /\ taken = FALSE
    /\ window = "idle"
    /\ wanted = NoType
    /\ update = FALSE
    /\ destroy = FALSE
    /\ renderers = {}
    /\ offer = "None"
    /\ current = TRUE
    /\ changed = FALSE
    /\ answer = NoAnswer
    /\ main = "idle"
    /\ request = NoType
    /\ fresh = FALSE
    /\ outstanding = NoType
    /\ toGuest = <<>>
    /\ toHost = <<>>
    /\ winCopies = 0
    /\ linCopies = 0
    /\ pastes = 0

-----------------------------------------------------------------------------
(* The applications of Windows, and Windows itself *)

\* EmptyClipboard, by whom the contents will be.
EmptyFor(who) ==
    /\ owner' = who
    /\ delayed' = {}
    /\ destroy' = (destroy \/ owner = "Ga")
    /\ current' = FALSE
    /\ fresh' = FALSE

AppCopies ==
    /\ winCopies < MaxCopies
    /\ holder = "none"
    /\ EmptyFor("App")
    /\ avail' = Types
    /\ update' = TRUE
    /\ winCopies' = winCopies + 1
    /\ UNCHANGED <<holder, asked, taken, window, wanted, renderers, offer, changed,
                   answer, main, request, outstanding, pipeVars, linCopies, pastes>>

\* An application asks for what has to be rendered, and keeps the
\* clipboard open until GetClipboardData returns.
AppPastes(t) ==
    /\ pastes < MaxPastes
    /\ holder = "none"
    /\ t \in delayed
    /\ holder' = "app"
    /\ asked' = t
    /\ pastes' = pastes + 1
    /\ UNCHANGED <<owner, avail, delayed, taken, windowVars, sharedVars,
                   mainVars, pipeVars, winCopies, linCopies>>

\* GetClipboardData returns, and whoever asked closes the clipboard; if it
\* was the main thread, it answers the host.
AskerGets(data) ==
    /\ asked' = NoType
    /\ taken' = FALSE
    /\ holder' = "none"
    /\ IF holder = "main"
       THEN /\ toHost' = Append(toHost, Contents(data, FALSE))
            /\ main' = "idle"
            /\ request' = NoType
       ELSE UNCHANGED <<toHost, main, request>>

\* Fault: the window thread gives up, too.
TimesOutBoth ==
    /\ asked # NoType
    /\ delayed' = delayed \ {asked}
    /\ AskerGets(Empty)
    /\ IF taken THEN window' = "idle" /\ wanted' = NoType ELSE UNCHANGED <<window, wanted>>
    /\ UNCHANGED <<owner, avail, update, destroy, sharedVars, fresh, outstanding, toGuest, userVars>>

\* Windows does not wait for ever for a WM_RENDERFORMAT, and removes the
\* format; a thread that is rendering it knows nothing of that.
WindowsTimesOut ==
    /\ asked # NoType
    /\ delayed' = delayed \ {asked}
    /\ AskerGets(Empty)
    /\ UNCHANGED <<owner, avail, windowVars, sharedVars, fresh, outstanding, toGuest, userVars>>

-----------------------------------------------------------------------------
(* The window thread *)

\* WM_CLIPBOARDUPDATE: open() spins until the clipboard can be had, ...
UpdateBegins ==
    /\ window = "idle"
    /\ update
    /\ update' = FALSE
    /\ window' = "updating"
    /\ UNCHANGED <<windowsVars, wanted, destroy, sharedVars, mainVars, pipeVars, userVars>>

\* ... and what is there then is passed to the watchers.
UpdateEnds ==
    /\ window = "updating"
    /\ holder = "none"
    /\ window' = "idle"
    /\ offer' = IF avail \cup delayed = {} THEN "None" ELSE owner
    /\ current' = TRUE
    /\ changed' = TRUE
    /\ UNCHANGED <<windowsVars, wanted, update, destroy, renderers, answer, mainVars,
                   pipeVars, userVars>>

\* Fault: whoever has emptied the clipboard, the renderers go.
DestroyAlways ==
    /\ window = "idle"
    /\ destroy
    /\ destroy' = FALSE
    /\ renderers' = {}
    /\ UNCHANGED <<windowsVars, window, wanted, update, offer, current, changed, answer,
                   mainVars, pipeVars, userVars>>

\* WM_DESTROYCLIPBOARD, which may be old when it is handled.
Destroy ==
    /\ window = "idle"
    /\ destroy
    /\ destroy' = FALSE
    /\ renderers' = IF owner = "Ga" THEN renderers ELSE {}
    /\ UNCHANGED <<windowsVars, window, wanted, update, offer, current, changed, answer,
                   mainVars, pipeVars, userVars>>

\* WM_RENDERFORMAT; without a renderer there is nothing to be done.
RenderBegins ==
    /\ window = "idle"
    /\ asked # NoType
    /\ renderers' = renderers \ {asked}
    /\ IF asked \in renderers
       THEN /\ window' = "rendering"
            /\ wanted' = asked
            /\ taken' = TRUE
            /\ UNCHANGED <<holder, asked, main, request, toHost>>
       ELSE AskerGets(Empty) /\ UNCHANGED <<window, wanted>>
    /\ UNCHANGED <<owner, avail, delayed, update, destroy, offer, current, changed, answer,
                   fresh, outstanding, toGuest, userVars>>

\* SetClipboardData.  Windows refuses what it no longer waits for.  If it
\* waits, then for an application: the main thread's own tasks do not run
\* while it is in GetClipboardData.
Renders ==
    IF taken
    THEN /\ avail' = avail \cup {wanted}
         /\ delayed' = delayed \ {wanted}
         /\ holder' = "none"
         /\ asked' = NoType
         /\ taken' = FALSE
         /\ update' = TRUE
         /\ current' = FALSE
         /\ fresh' = FALSE
    ELSE UNCHANGED <<avail, delayed, holder, asked, taken, update, current, fresh>>

\* block_on returns with the renderer's data.
RenderEnds ==
    /\ answer.at = "window"
    /\ answer' = NoAnswer
    /\ window' = "idle"
    /\ wanted' = NoType
    /\ Renders
    /\ UNCHANGED <<owner, destroy, renderers, offer, changed, main, request, outstanding,
                   pipeVars, userVars>>

-----------------------------------------------------------------------------
(* The main thread's tasks *)

\* Fault: the task that watches does not know its own window.
AnnouncesAll ==
    /\ main = "idle"
    /\ changed
    /\ changed' = FALSE
    /\ toHost' = IF offer # "None" THEN Append(toHost, Grab) ELSE toHost
    /\ UNCHANGED <<windowsVars, windowVars, renderers, offer, current, answer, mainVars,
                   toGuest, userVars>>

\* The task that watches for what others copy.
Announces ==
    /\ main = "idle"
    /\ changed
    /\ changed' = FALSE
    /\ toHost' = IF offer = "App" THEN Append(toHost, Grab) ELSE toHost
    /\ UNCHANGED <<windowsVars, windowVars, renderers, offer, current, answer, mainVars,
                   toGuest, userVars>>

\* Fault: they ask as soon as they are there.
RendererAsksEarly ==
    /\ main = "idle"
    /\ outstanding = NoType
    /\ \E t \in renderers :
         /\ outstanding' = t
         /\ toHost' = Append(toHost, Request(t))
    /\ UNCHANGED <<windowsVars, windowVars, sharedVars, main, request, fresh, toGuest, userVars>>

\* The tasks behind a renderer ask the host.
RendererAsks ==
    /\ main = "idle"
    /\ window = "rendering"
    /\ outstanding = NoType
    /\ answer = NoAnswer
    /\ outstanding' = wanted
    /\ toHost' = Append(toHost, Request(wanted))
    /\ UNCHANGED <<windowsVars, windowVars, sharedVars, main, request, fresh, toGuest, userVars>>

\* What the host has answered goes on to the window thread.
RendererAnswers ==
    /\ main = "idle"
    /\ answer.at = "task"
    /\ answer' = [answer EXCEPT !.at = "window"]
    /\ UNCHANGED <<windowsVars, windowVars, renderers, offer, current, changed, mainVars,
                   pipeVars, userVars>>

-----------------------------------------------------------------------------
(* The main thread's messages, one after the other *)

MainReads(kind) ==
    /\ main = "idle"
    /\ toGuest # <<>>
    /\ Head(toGuest).kind = kind
    /\ toGuest' = Tail(toGuest)

GrabBegins ==
    /\ MainReads("Grab")
    /\ main' = "grab"
    /\ UNCHANGED <<windowsVars, windowVars, sharedVars, request, fresh, outstanding, toHost, userVars>>

\* WindowsClipboard::send: open() spins, clear(), ...
GrabOpens ==
    /\ main = "grab"
    /\ holder = "none"
    /\ holder' = "main"
    /\ EmptyFor("Ga")
    /\ avail' = {}
    /\ main' = "lock"
    /\ UNCHANGED <<asked, taken, window, wanted, update, renderers, offer, changed, answer,
                   request, outstanding, pipeVars, userVars>>

\* ... and the mutex, with the clipboard open.
GrabEnds ==
    /\ main = "lock"
    /\ window # "rendering"
    /\ renderers' = Types
    /\ delayed' = Types
    /\ holder' = "none"
    /\ update' = TRUE
    /\ main' = "idle"
    /\ UNCHANGED <<owner, avail, asked, taken, window, wanted, destroy, offer, current,
                   changed, answer, request, fresh, outstanding, pipeVars, userVars>>

Answer(data) == toHost' = Append(toHost, Contents(data, FALSE))

RequestBegins ==
    /\ MainReads("Request")
    /\ IF offer = "None"
       THEN Answer(Empty) /\ UNCHANGED <<main, request, fresh>>
       ELSE /\ main' = "open"
            /\ request' = Head(toGuest).type
            /\ fresh' = current
            /\ UNCHANGED toHost
    /\ UNCHANGED <<windowsVars, windowVars, sharedVars, outstanding, userVars>>

\* Its offer may have expired while open() was spinning, or before, and
\* the type be gone from the clipboard.
RequestAnswered ==
    /\ main = "open"
    /\ holder = "none"
    /\ ~fresh \/ request \notin delayed
    /\ Answer(IF fresh /\ request \in avail THEN request ELSE Empty)
    /\ main' = "idle"
    /\ request' = NoType
    /\ fresh' = FALSE
    /\ UNCHANGED <<windowsVars, windowVars, sharedVars, outstanding, toGuest, userVars>>

\* What the agent itself has put there is for its own window to render.
RequestAsksItself ==
    /\ main = "open"
    /\ holder = "none"
    /\ fresh /\ request \in delayed
    /\ main' = "get"
    /\ holder' = "main"
    /\ asked' = request
    /\ fresh' = FALSE
    /\ UNCHANGED <<owner, avail, delayed, taken, windowVars, sharedVars, request,
                   outstanding, pipeVars, userVars>>

\* The host's answer is given to the task that has asked.
ContentsArrive ==
    /\ MainReads("Contents")
    /\ outstanding' = NoType
    /\ answer' = IF outstanding = NoType THEN answer
                 ELSE AnswerAt("task", Head(toGuest).type, Head(toGuest).mixed)
    /\ UNCHANGED <<windowsVars, windowVars, renderers, offer, current, changed, main, request,
                   fresh, toHost, userVars>>

-----------------------------------------------------------------------------
WindowNext == UpdateBegins \/ UpdateEnds \/ Destroy \/ RenderBegins \/ RenderEnds

MainNext ==
    \/ Announces \/ RendererAsks \/ RendererAnswers
    \/ GrabBegins \/ GrabOpens \/ GrabEnds
    \/ RequestBegins \/ RequestAnswered \/ RequestAsksItself
    \/ ContentsArrive

UserNext == AppCopies \/ \E t \in Types : AppPastes(t)

GuestNext == WindowNext \/ MainNext \/ WindowsTimesOut \/ UserNext

-----------------------------------------------------------------------------
(* Safety *)

\* What Windows will ask the agent to render, the agent can render: a
\* WM_DESTROYCLIPBOARD that is handled late takes no renderers away that
\* belong to a newer grab (zerocost windows/mod.rs, handle and send).
RenderersKept == delayed \subseteq renderers \cup (IF taken THEN {wanted} ELSE {})

\* The main thread waits for the window thread, which waits for the main
\* thread's tasks: nothing ends that, unless the task has run already.
Hung == main = "lock" /\ window = "rendering" /\ answer.at # "window"

\* raw.rs: "You must not invoke any blocking operations while holding it"
\* - the open clipboard, that is.  Here only for what is never unblocked.
NoBlockingWhileHeld == ~Hung
=============================================================================
