--------------------------- MODULE ClipboardProofs ---------------------------
(***************************************************************************)
(* What holds of the clipboards for any types of data and any number of    *)
(* copies and pastes: types, renderers, echoes, and that no answer takes   *)
(* the place of another one.                                               *)
(***************************************************************************)
EXTENDS Clipboard, SequenceTheorems, TLAPS

USE DEF windowsVars, windowVars, sharedVars, mainVars, pipeVars, userVars,
        guestVars, selVars, hostVars, clipVars, Guest

(* Types                                                                   *)

LEMMA GrabIsMessage == Grab \in Message
BY DEF Grab, Message

LEMMA RequestIsMessage == ASSUME NEW t \in Types PROVE Request(t) \in Message
BY DEF Request, Message

LEMMA ContentsIsMessage ==
    ASSUME NEW d \in Types \cup {Empty}
    PROVE  /\ Contents(d, FALSE) \in Message
           /\ Contents(d, TRUE) \in Message
BY DEF Contents, Message

LEMMA PipeGrows ==
    ASSUME NEW p \in Seq(Message), NEW m \in Message
    PROVE  Append(p, m) \in Seq(Message)
BY AppendProperties

LEMMA PipeShrinks ==
    ASSUME NEW p \in Seq(Message), p # <<>>
    PROVE  Tail(p) \in Seq(Message) /\ Head(p) \in Message
OBVIOUS

\* Only a request carries the type that somebody wants.
LEMMA MessageType ==
    ASSUME NEW m \in Message
    PROVE  /\ m.kind = "Request" => m.type \in Types
           /\ m.kind = "Contents" => m.type \in Types \cup {Empty}
BY DEF Message

LEMMA GuestTypeStep ==
    ASSUME GuestTypeOK, GuestNext
    PROVE  GuestTypeOK'
<1> USE TypesAssumption DEF GuestTypeOK, HeldAnswer, NoAnswer
<1>1. CASE UpdateBegins
  BY <1>1 DEF UpdateBegins
<1>2. CASE UpdateEnds
  BY <1>2 DEF UpdateEnds
<1>3. CASE Destroy
  BY <1>3 DEF Destroy
<1>4. CASE RenderBegins
  BY <1>4, ContentsIsMessage, PipeGrows DEF RenderBegins, AskerGets
<1>5. CASE Announces
  BY <1>5, GrabIsMessage, PipeGrows DEF Announces
<1>6. CASE RendererAsks
  BY <1>6, RequestIsMessage DEF RendererAsks
<1>7. CASE GrabBegins
  BY <1>7 DEF GrabBegins, MainReads
<1>8. CASE GrabOpens
  BY <1>8 DEF GrabOpens, EmptyFor
<1>9. CASE GrabEnds
  BY <1>9 DEF GrabEnds
<1>10. CASE RequestBegins
  BY <1>10, ContentsIsMessage, MessageType, PipeGrows, PipeShrinks DEF RequestBegins, MainReads, Answer
<1>11. CASE RequestAnswered
  BY <1>11, ContentsIsMessage, PipeGrows DEF RequestAnswered, Answer
<1>12. CASE RequestAsksItself
  BY <1>12 DEF RequestAsksItself
<1>13. CASE ContentsArrive
  <2>1. /\ toGuest' \in Seq(Message)
        /\ Head(toGuest).type \in Types \cup {Empty} /\ Head(toGuest).mixed \in BOOLEAN
    BY <1>13, PipeShrinks, MessageType DEF ContentsArrive, MainReads, Message
  <2>2. outstanding # NoType => window = "rendering"
    OBVIOUS
  <2>3. answer' \in HeldAnswer \cup {NoAnswer}
    BY <1>13, <2>1 DEF ContentsArrive, AnswerAt
  <2>4. answer' # NoAnswer => window' = "rendering" /\ outstanding' = NoType
    BY <1>13, <2>2 DEF ContentsArrive
  <2> QED
    BY <1>13, <2>1, <2>3, <2>4 DEF ContentsArrive
<1>17. CASE RenderEnds
  <2>1. answer # NoAnswer
    BY <1>17 DEF RenderEnds
  <2>2. wanted \in Types /\ outstanding = NoType
    BY <2>1
  <2>3. /\ avail' \subseteq Types /\ delayed' \subseteq Types
        /\ holder' \in {"none", "app", "main"}
        /\ asked' \in Types \cup {NoType}
        /\ {taken, update, destroy, current, changed, fresh}' \subseteq BOOLEAN
    BY <1>17, <2>2 DEF RenderEnds, Renders
  <2> QED
    BY <1>17, <2>2, <2>3 DEF RenderEnds
<1>18. CASE RendererAnswers
  BY <1>18 DEF RendererAnswers
<1>14. CASE WindowsTimesOut
  BY <1>14, ContentsIsMessage, PipeGrows DEF WindowsTimesOut, AskerGets
<1>15. CASE AppCopies
  <2>1. destroy' \in BOOLEAN
    BY <1>15 DEF AppCopies, EmptyFor
  <2>2. winCopies' \in 0 .. MaxCopies
    BY <1>15, BoundsAssumption DEF AppCopies
  <2>3. {taken, update, destroy, current, changed, fresh}' \subseteq BOOLEAN
    BY <1>15, <2>1 DEF AppCopies, EmptyFor
  <2> QED
    BY <1>15, <2>2, <2>3 DEF AppCopies, EmptyFor
<1>16. ASSUME NEW t \in Types, AppPastes(t) PROVE GuestTypeOK'
  BY <1>16, BoundsAssumption DEF AppPastes
<1> QED
  BY <1>1, <1>2, <1>3, <1>4, <1>5, <1>6, <1>7, <1>8, <1>9, <1>10, <1>11, <1>12, <1>13, <1>14, <1>15, <1>16, <1>17, <1>18
     DEF GuestNext, WindowNext, MainNext, UserNext

HostTypeOK ==
    /\ sel \in Selections
    /\ coming \in Seq(Selections)
    /\ known \in Selections
    /\ selChanged \in BOOLEAN
    /\ slot \in LinuxRequest \cup {NoRequest}
    /\ grabs \in Nat
    /\ reads \in Seq(Types)
    /\ cmds \in Seq(Message)
    /\ reading \in LinuxRead \cup {NoRead}

LEMMA ReadWinClipboardType ==
    ASSUME ClipboardTypeOK, NEW who \in {"app", "self"}, NEW t \in Types,
           ReadWinClipboard(who, t)
    PROVE  /\ toGuest' \in Seq(Message)
           /\ slot' \in LinuxRequest \cup {NoRequest}
           /\ reading' \in LinuxRead \cup {NoRead}
<1>1. slot' \in LinuxRequest \cup {NoRequest}
  <2>1. Unanswered \in BOOLEAN
    BY DEF Unanswered
  <2> QED
    BY <2>1 DEF ReadWinClipboard, LinuxRequest
<1>2. toGuest' \in Seq(Message)
  <2>1. /\ toGuest \in Seq(Message)
        /\ Request(t) \in Message
        /\ Contents(Empty, FALSE) \in Message
    BY RequestIsMessage, ContentsIsMessage DEF ClipboardTypeOK, GuestTypeOK
  <2> QED
    BY <2>1, PipeGrows DEF ReadWinClipboard
<1>3. reading' \in LinuxRead \cup {NoRead}
  <2>1. reading \in LinuxRead \cup {NoRead}
    BY DEF ClipboardTypeOK
  <2>2. [type |-> t, from |-> "Ours"] \in LinuxRead
    BY DEF LinuxRead
  <2> QED
    BY <2>1, <2>2 DEF ReadWinClipboard
<1> QED
  BY <1>1, <1>2, <1>3

\* The host's steps leave the guest as it is.
LEMMA HostKeepsGuest ==
    ASSUME RelayNext \/ LinuxNext
    PROVE  UNCHANGED <<windowsVars, windowVars, sharedVars, mainVars, winCopies>>
BY DEF RelayNext, LinuxNext, SelectionArrives, Listens, HostReads, GuestGrabs, GuestAsks,
       GuestAnswers, ForwardsGrab, ForwardsRead, Handles, Claims, Reads, LinuxCopies,
       LinuxPastes, LinuxAnswers

\* What the command handler does with a request for contents.
LEMMA ReadsCases ==
    ASSUME ClipboardTypeOK, Reads
    PROVE  /\ Head(cmds).type \in Types /\ cmds' \in Seq(Message)
           /\ \/ ReadsNothing
              \/ reading' = [type |-> Head(cmds).type, from |-> "App"] /\ UNCHANGED <<slot, toGuest>>
              \/ ReadWinClipboard("self", Head(cmds).type)
BY PipeShrinks, MessageType DEF Reads, ReadsFromOffer, Handles, ClipboardTypeOK

LEMMA HostTypeStep ==
    ASSUME ClipboardTypeOK, RelayNext \/ LinuxNext
    PROVE  ClipboardTypeOK'
<1> SUFFICES /\ toGuest' \in Seq(Message)
             /\ toHost' \in Seq(Message)
             /\ linCopies' \in 0 .. MaxCopies
             /\ pastes' \in 0 .. MaxPastes
             /\ HostTypeOK'
  BY HostKeepsGuest DEF ClipboardTypeOK, GuestTypeOK, HostTypeOK
<1> USE DEF ClipboardTypeOK, GuestTypeOK, HostTypeOK
<1>1. CASE Listens
  BY <1>1, GrabIsMessage, PipeGrows DEF Listens
<1>2. CASE GuestGrabs
  BY <1>2, PipeShrinks DEF GuestGrabs, HostReads
<1>3. CASE GuestAsks
  BY <1>3, PipeShrinks, MessageType, AppendProperties DEF GuestAsks, HostReads
<1>4. CASE GuestAnswers
  <2>1. Head(toHost).type \in Types \cup {Empty} /\ toHost' \in Seq(Message)
    BY <1>4, PipeShrinks, MessageType DEF GuestAnswers, HostReads
  <2>2. ASSUME slot # NoRequest
        PROVE  Contents(Head(toHost).type, slot.mixed) \in Message
    BY <2>1, <2>2 DEF LinuxRequest, Contents, Message
  <2> QED
    BY <1>4, <2>1, <2>2, PipeGrows DEF GuestAnswers, HostReads
<1>5. CASE ForwardsGrab
  BY <1>5, GrabIsMessage, PipeGrows DEF ForwardsGrab
<1>6. CASE ForwardsRead
  <2>1. Head(reads) \in Types /\ Tail(reads) \in Seq(Types)
    BY <1>6 DEF ForwardsRead
  <2> QED
    BY <1>6, <2>1, RequestIsMessage, PipeGrows DEF ForwardsRead
<1>7. CASE Claims
  BY <1>7, PipeShrinks, AppendProperties DEF Claims, Selected, Selections, Handles
<1>8. CASE Reads
  <2>1. Head(cmds).type \in Types /\ cmds' \in Seq(Message)
    BY <1>8, ReadsCases
  <2>2. CASE ReadsNothing
    BY <1>8, <2>1, <2>2, ContentsIsMessage, PipeGrows DEF ReadsNothing, Reads, Handles
  <2>3. CASE reading' = [type |-> Head(cmds).type, from |-> "App"] /\ UNCHANGED <<slot, toGuest>>
    BY <1>8, <2>1, <2>3 DEF Reads, Handles, LinuxRead
  <2>4. CASE ReadWinClipboard("self", Head(cmds).type)
    BY <1>8, <2>1, <2>4, ReadWinClipboardType DEF Reads, Handles
  <2> QED
    BY <1>8, <2>2, <2>3, <2>4, ReadsCases
<1>9. CASE LinuxCopies
  <2>1. PICK whose \in {"App", "None"} : Selected(whose)
    BY <1>9 DEF LinuxCopies
  <2> QED
    BY <1>9, <2>1, AppendProperties, BoundsAssumption DEF LinuxCopies, Selected, Selections
<1>10. ASSUME NEW t \in Types, LinuxPastes(t)
       PROVE  /\ toGuest' \in Seq(Message)
              /\ toHost' \in Seq(Message)
              /\ linCopies' \in 0 .. MaxCopies
              /\ pastes' \in 0 .. MaxPastes
              /\ HostTypeOK'
  BY <1>10, ReadWinClipboardType, BoundsAssumption DEF LinuxPastes
<1>12. CASE SelectionArrives
  BY <1>12 DEF SelectionArrives
<1>11. CASE LinuxAnswers
  <2>1. reading.type \in Types
    BY <1>11 DEF LinuxAnswers, LinuxRead
  <2> QED
    BY <1>11, <2>1, ContentsIsMessage, PipeGrows DEF LinuxAnswers
<1> QED
  BY <1>1, <1>2, <1>3, <1>4, <1>5, <1>6, <1>7, <1>8, <1>9, <1>10, <1>11, <1>12
     DEF RelayNext, LinuxNext

LEMMA TypeStep ==
    ASSUME ClipboardTypeOK, [ClipboardNext]_clipVars
    PROVE  ClipboardTypeOK'
<1>1. CASE GuestNext /\ UNCHANGED hostVars
  BY <1>1, GuestTypeStep DEF ClipboardTypeOK
<1>2. CASE RelayNext \/ LinuxNext
  BY <1>2, HostTypeStep
<1>3. CASE UNCHANGED clipVars
  BY <1>3 DEF ClipboardTypeOK, GuestTypeOK
<1> QED
  BY <1>1, <1>2, <1>3 DEF ClipboardNext

\* Every variable of the clipboards keeps its type; the requests carry the
\* types that the window renders or Linux desires.
THEOREM ClipboardTypeCorrect == ClipboardSpec => []ClipboardTypeOK
<1>1. ClipboardInit => ClipboardTypeOK
  <2> SUFFICES ASSUME ClipboardInit PROVE ClipboardTypeOK
    OBVIOUS
  <2>1. GuestTypeOK
    <3>1. /\ winCopies \in 0 .. MaxCopies
          /\ linCopies \in 0 .. MaxCopies
          /\ pastes \in 0 .. MaxPastes
      BY BoundsAssumption DEF ClipboardInit, GuestInit
    <3>2. <<>> \in Seq(Message)
      OBVIOUS
    <3> QED
      BY <3>1, <3>2 DEF ClipboardInit, GuestInit, GuestTypeOK
  <2>2. <<>> \in Seq(Types) /\ <<>> \in Seq(Message) /\ <<>> \in Seq(Selections) /\ 0 \in Nat
    OBVIOUS
  <2> QED
    BY <2>1, <2>2 DEF ClipboardInit, ClipboardTypeOK, Selections
<1> QED
  BY <1>1, TypeStep, PTL DEF ClipboardSpec

-----------------------------------------------------------------------------
(* Who has the clipboard open, and what can be rendered                    *)

Holding ==
    /\ holder = "main" <=> main \in {"lock", "get"}
    /\ asked # NoType <=> holder = "app" \/ main = "get"
    /\ taken => asked = wanted /\ window = "rendering"
    /\ taken /\ main = "get" => answer = NoAnswer

Owning == main = "lock" \/ delayed # {} => owner = "Ga"

GuestInv == Holding /\ Owning /\ RenderersKept

LEMMA GuestStep ==
    ASSUME GuestTypeOK, GuestInv, GuestNext
    PROVE  GuestInv'
<1> USE TypesAssumption DEF GuestTypeOK, GuestInv, Holding, Owning, RenderersKept
<1>1. CASE UpdateBegins
  BY <1>1 DEF UpdateBegins
<1>2. CASE UpdateEnds
  BY <1>2 DEF UpdateEnds
<1>3. CASE Destroy
  BY <1>3 DEF Destroy
<1>4. CASE RenderBegins
  BY <1>4 DEF RenderBegins, AskerGets
<1>5. CASE Announces
  BY <1>5 DEF Announces
<1>6. CASE RendererAsks
  BY <1>6 DEF RendererAsks
<1>7. CASE GrabBegins
  BY <1>7 DEF GrabBegins, MainReads
<1>8. CASE GrabOpens
  BY <1>8 DEF GrabOpens, EmptyFor
<1>9. CASE GrabEnds
  BY <1>9 DEF GrabEnds
<1>10. CASE RequestBegins
  BY <1>10 DEF RequestBegins, MainReads
<1>11. CASE RequestAnswered
  BY <1>11 DEF RequestAnswered
<1>12. CASE RequestAsksItself
  BY <1>12 DEF RequestAsksItself
<1>13. CASE ContentsArrive
  BY <1>13 DEF ContentsArrive, MainReads
<1>17. CASE RenderEnds
  <2>1. answer # NoAnswer /\ UNCHANGED <<owner, renderers, main>>
    BY <1>17 DEF RenderEnds, NoAnswer
  <2>2. CASE taken
    BY <1>17, <2>1, <2>2 DEF RenderEnds, Renders
  <2>3. CASE ~taken
    BY <1>17, <2>1, <2>3 DEF RenderEnds, Renders
  <2> QED
    BY <2>2, <2>3
<1>18. CASE RendererAnswers
  BY <1>18 DEF RendererAnswers
<1>14. CASE WindowsTimesOut
  BY <1>14 DEF WindowsTimesOut, AskerGets
<1>15. CASE AppCopies
  BY <1>15 DEF AppCopies, EmptyFor
<1>16. ASSUME NEW t \in Types, AppPastes(t) PROVE GuestInv'
  BY <1>16 DEF AppPastes
<1> QED
  BY <1>1, <1>2, <1>3, <1>4, <1>5, <1>6, <1>7, <1>8, <1>9, <1>10, <1>11, <1>12, <1>13, <1>14, <1>15, <1>16, <1>17, <1>18
     DEF GuestNext, WindowNext, MainNext, UserNext

\* Who holds and who owns the Windows clipboard, what is rendered, and with
\* whose renderers.
THEOREM GuestInvariant == ClipboardSpec => []GuestInv
<1>1. ClipboardInit => GuestInv
  BY DEF ClipboardInit, GuestInit, GuestInv, Holding, Owning, RenderersKept
<1>2. ClipboardTypeOK /\ GuestInv /\ [ClipboardNext]_clipVars => GuestInv'
  <2> SUFFICES ASSUME ClipboardTypeOK, GuestInv, [ClipboardNext]_clipVars
               PROVE  GuestInv'
    OBVIOUS
  <2>1. CASE GuestNext
    BY <2>1, GuestStep DEF ClipboardTypeOK
  <2>2. CASE UNCHANGED <<windowsVars, windowVars, sharedVars, mainVars>>
    BY <2>2 DEF GuestInv, Holding, Owning, RenderersKept
  <2> QED
    BY <2>1, <2>2, HostKeepsGuest DEF ClipboardNext
<1> QED
  BY <1>1, <1>2, ClipboardTypeCorrect, PTL DEF ClipboardSpec

\* A WM_DESTROYCLIPBOARD handled late, a grab and a rendering in any order
\* leave a renderer for whatever Windows may ask for.
THEOREM RenderersAlwaysKept == ClipboardSpec => []RenderersKept
<1>1. GuestInv => RenderersKept
  BY DEF GuestInv
<1> QED
  BY <1>1, GuestInvariant, PTL

-----------------------------------------------------------------------------
(* Echoes                                                                  *)

Has(pipe, kind) == \E i \in DOMAIN pipe : pipe[i].kind = kind

IsComing(whose) == \E i \in DOMAIN coming : coming[i] = whose

EchoInv ==
    /\ linCopies = 0 =>
         /\ sel # "App" /\ known # "App" /\ ~IsComing("App")
         /\ ~Has(toGuest, "Grab")
         /\ main \notin {"grab", "lock"}
         /\ owner # "Ga"
    /\ winCopies = 0 =>
         /\ owner # "App" /\ offer # "App"
         /\ ~Has(toHost, "Grab")
         /\ grabs = 0
         /\ ~Has(cmds, "Grab")
         /\ sel # "Ours" /\ known # "Ours" /\ ~IsComing("Ours")

LEMMA HasAppend ==
    ASSUME NEW p \in Seq(Message), NEW m \in Message, NEW kind
    PROVE  Has(Append(p, m), kind) <=> Has(p, kind) \/ m.kind = kind
<1>1. ASSUME Has(Append(p, m), kind) PROVE Has(p, kind) \/ m.kind = kind
  BY <1>1, AppendProperties DEF Has
<1>2. ASSUME Has(p, kind) PROVE Has(Append(p, m), kind)
  BY <1>2, AppendProperties DEF Has
<1>3. ASSUME m.kind = kind PROVE Has(Append(p, m), kind)
  <2>1. Len(p) + 1 \in DOMAIN Append(p, m) /\ Append(p, m)[Len(p) + 1] = m
    BY AppendProperties
  <2> QED
    BY <1>3, <2>1 DEF Has
<1> QED
  BY <1>1, <1>2, <1>3

LEMMA HasTail ==
    ASSUME NEW p \in Seq(Message), p # <<>>, NEW kind
    PROVE  /\ Has(Tail(p), kind) => Has(p, kind)
           /\ Head(p).kind = kind => Has(p, kind)
<1>1. ASSUME Has(Tail(p), kind) PROVE Has(p, kind)
  <2>1. PICK i \in DOMAIN Tail(p) : Tail(p)[i].kind = kind
    BY <1>1 DEF Has
  <2>2. i + 1 \in DOMAIN p /\ p[i + 1] = Tail(p)[i]
    BY HeadTailProperties
  <2> QED
    BY <2>1, <2>2 DEF Has
<1>2. 1 \in DOMAIN p /\ p[1] = Head(p)
  OBVIOUS
<1> QED
  BY <1>1, <1>2 DEF Has

\* Only what is selected becomes known.
LEMMA ComingStep ==
    ASSUME ClipboardTypeOK, NEW whose
    PROVE  /\ SelectionArrives => /\ (known' = whose => IsComing(whose))
                                 /\ (IsComing(whose)' => IsComing(whose))
           /\ \A other \in Selections : Selected(other) =>
                /\ sel' = other
                /\ (IsComing(whose)' => IsComing(whose) \/ whose = other)
<1>0. coming \in Seq(Selections)
  BY DEF ClipboardTypeOK
<1>1. ASSUME SelectionArrives
      PROVE  /\ known' = whose => IsComing(whose)
             /\ IsComing(whose)' => IsComing(whose)
  <2>1. coming # <<>> /\ coming' = Tail(coming) /\ known' = Head(coming)
    BY <1>1 DEF SelectionArrives
  <2>2. 1 \in DOMAIN coming /\ coming[1] = Head(coming)
    BY <1>0, <2>1
  <2>3. ASSUME NEW i \in DOMAIN Tail(coming)
        PROVE  i + 1 \in DOMAIN coming /\ coming[i + 1] = Tail(coming)[i]
    BY <1>0, <2>1, <2>3, HeadTailProperties
  <2> QED
    BY <2>1, <2>2, <2>3 DEF IsComing
<1>2. ASSUME NEW other \in Selections, Selected(other)
      PROVE  /\ sel' = other
             /\ IsComing(whose)' => IsComing(whose) \/ whose = other
  BY <1>0, <1>2, AppendProperties DEF Selected, IsComing
<1> QED
  BY <1>1, <1>2

LEMMA SendsGrab ==
    ASSUME NEW p \in Seq(Message)
    PROVE  /\ Append(p, Grab) \in Seq(Message)
           /\ Has(Append(p, Grab), "Grab")
           /\ Has(Append(p, Grab), "Request") <=> Has(p, "Request")
           /\ Has(Append(p, Grab), "Contents") <=> Has(p, "Contents")
<1>1. Grab \in Message /\ Grab.kind = "Grab"
  BY DEF Grab, Message
<1> QED
  BY <1>1, HasAppend, PipeGrows

LEMMA SendsRequest ==
    ASSUME NEW p \in Seq(Message), NEW t \in Types
    PROVE  /\ Append(p, Request(t)) \in Seq(Message)
           /\ Has(Append(p, Request(t)), "Grab") <=> Has(p, "Grab")
           /\ Has(Append(p, Request(t)), "Request")
           /\ Has(Append(p, Request(t)), "Contents") <=> Has(p, "Contents")
<1>1. Request(t) \in Message /\ Request(t).kind = "Request"
  BY DEF Request, Message
<1> QED
  BY <1>1, HasAppend, PipeGrows

LEMMA SendsContents ==
    ASSUME NEW p \in Seq(Message), NEW d \in Types \cup {Empty}
    PROVE  /\ Append(p, Contents(d, FALSE)) \in Seq(Message)
           /\ Has(Append(p, Contents(d, FALSE)), "Grab") <=> Has(p, "Grab")
           /\ Has(Append(p, Contents(d, FALSE)), "Request") <=> Has(p, "Request")
           /\ Has(Append(p, Contents(d, FALSE)), "Contents")
<1>1. Contents(d, FALSE) \in Message /\ Contents(d, FALSE).kind = "Contents"
  BY DEF Contents, Message
<1> QED
  BY <1>1, HasAppend, PipeGrows

\* What AskerGets makes of the pipe.
LEMMA AskerSends ==
    ASSUME ClipboardTypeOK, AskerGets(Empty)
    PROVE  toHost' = toHost \/ toHost' = Append(toHost, Contents(Empty, FALSE))
BY DEF AskerGets

\* What ReadWinClipboard does to the pipe.
LEMMA ReadSends ==
    ASSUME ClipboardTypeOK, NEW who, NEW t \in Types, ReadWinClipboard(who, t)
    PROVE  /\ Append(toGuest, Request(t)) \in Seq(Message)
           /\ \/ toGuest' = Append(toGuest, Request(t))
              \/ toGuest' = Append(Append(toGuest, Request(t)), Contents(Empty, FALSE))
BY SendsRequest DEF ReadWinClipboard, ClipboardTypeOK, GuestTypeOK

LEMMA GuestEchoStep ==
    ASSUME ClipboardTypeOK, EchoInv, GuestNext, UNCHANGED hostVars
    PROVE  EchoInv'
<1> USE DEF ClipboardTypeOK, GuestTypeOK, EchoInv, IsComing
<1>1. CASE UpdateBegins
  BY <1>1 DEF UpdateBegins
<1>2. CASE UpdateEnds
  BY <1>2 DEF UpdateEnds
<1>3. CASE Destroy
  BY <1>3 DEF Destroy
<1>4. CASE RenderBegins
  <2>1. Has(Append(toHost, Contents(Empty, FALSE)), "Grab") => Has(toHost, "Grab")
    BY SendsContents
  <2>2. toHost' \in {toHost, Append(toHost, Contents(Empty, FALSE))}
    BY <1>4 DEF RenderBegins, AskerGets
  <2>3. main' \in {main, "idle"}
    BY <1>4 DEF RenderBegins, AskerGets
  <2> QED
    BY <1>4, <2>1, <2>2, <2>3 DEF RenderBegins
<1>5. CASE Announces
  BY <1>5, SendsGrab DEF Announces
<1>6. CASE RendererAsks
  BY <1>6, SendsRequest DEF RendererAsks
<1>7. CASE GrabBegins
  BY <1>7, HasTail DEF GrabBegins, MainReads
<1>8. CASE GrabOpens
  BY <1>8 DEF GrabOpens, EmptyFor
<1>9. CASE GrabEnds
  BY <1>9 DEF GrabEnds
<1>10. CASE RequestBegins
  <2>1. Has(Append(toHost, Contents(Empty, FALSE)), "Grab") => Has(toHost, "Grab")
    BY SendsContents
  <2>2. toHost' \in {toHost, Append(toHost, Contents(Empty, FALSE))}
    BY <1>10 DEF RequestBegins, Answer
  <2>3. Has(toGuest', "Grab") => Has(toGuest, "Grab")
    BY <1>10, HasTail DEF RequestBegins, MainReads
  <2>4. main' \in {main, "open"}
    BY <1>10 DEF RequestBegins
  <2> QED
    BY <1>10, <2>1, <2>2, <2>3, <2>4 DEF RequestBegins
<1>11. CASE RequestAnswered
  BY <1>11, SendsContents DEF RequestAnswered, Answer
<1>12. CASE RequestAsksItself
  BY <1>12 DEF RequestAsksItself
<1>13. CASE ContentsArrive
  BY <1>13, HasTail DEF ContentsArrive, MainReads
<1>17. CASE RenderEnds
  BY <1>17 DEF RenderEnds, Renders
<1>18. CASE RendererAnswers
  BY <1>18 DEF RendererAnswers
<1>14. CASE WindowsTimesOut
  <2>1. Has(Append(toHost, Contents(Empty, FALSE)), "Grab") => Has(toHost, "Grab")
    BY SendsContents
  <2>2. toHost' \in {toHost, Append(toHost, Contents(Empty, FALSE))}
    BY <1>14 DEF WindowsTimesOut, AskerGets
  <2>3. main' \in {main, "idle"}
    BY <1>14 DEF WindowsTimesOut, AskerGets
  <2> QED
    BY <1>14, <2>1, <2>2, <2>3 DEF WindowsTimesOut
<1>15. CASE AppCopies
  BY <1>15, BoundsAssumption DEF AppCopies, EmptyFor
<1>16. ASSUME NEW t \in Types, AppPastes(t) PROVE EchoInv'
  BY <1>16 DEF AppPastes
<1> QED
  BY <1>1, <1>2, <1>3, <1>4, <1>5, <1>6, <1>7, <1>8, <1>9, <1>10, <1>11, <1>12, <1>13, <1>14, <1>15, <1>16, <1>17, <1>18
     DEF GuestNext, WindowNext, MainNext, UserNext

\* A request of Linux, and what is dropped for it, is no grab.
LEMMA ReadsNoGrab ==
    ASSUME ClipboardTypeOK, NEW who, NEW t \in Types, ReadWinClipboard(who, t)
    PROVE  Has(toGuest', "Grab") <=> Has(toGuest, "Grab")
<1>1. toGuest \in Seq(Message)
  BY DEF ClipboardTypeOK, GuestTypeOK
<1>2. Append(toGuest, Request(t)) \in Seq(Message)
  BY <1>1, SendsRequest
<1>3. Has(Append(toGuest, Request(t)), "Grab") <=> Has(toGuest, "Grab")
  BY <1>1, SendsRequest
<1>4. Has(Append(Append(toGuest, Request(t)), Contents(Empty, FALSE)), "Grab") <=> Has(toGuest, "Grab")
  BY <1>2, <1>3, SendsContents
<1> QED
  BY <1>1, <1>3, <1>4, ReadSends

LEMMA HostEchoStep ==
    ASSUME ClipboardTypeOK, EchoInv, RelayNext \/ LinuxNext
    PROVE  EchoInv'
<1> UNCHANGED <<windowsVars, windowVars, sharedVars, mainVars, winCopies>>
  BY HostKeepsGuest
<1> USE DEF ClipboardTypeOK, GuestTypeOK, EchoInv
<1>c. ASSUME UNCHANGED coming PROVE \A whose : IsComing(whose)' <=> IsComing(whose)
  BY <1>c DEF IsComing
<1>1. CASE Listens
  BY <1>1, <1>c, SendsGrab DEF Listens
<1>2. CASE GuestGrabs
  BY <1>2, <1>c, HasTail DEF GuestGrabs, HostReads
<1>3. CASE GuestAsks
  BY <1>3, <1>c, HasTail DEF GuestAsks, HostReads
<1>4. CASE GuestAnswers
  <2>1. /\ Has(toHost', "Grab") => Has(toHost, "Grab")
        /\ UNCHANGED <<sel, known, coming, grabs, cmds, linCopies>>
    BY <1>4, HasTail DEF GuestAnswers, HostReads
  <2>2. CASE slot # NoRequest /\ slot.who = "self"
    <3>1. Contents(Head(toHost).type, slot.mixed) \in Message
      BY <1>4, <2>2, PipeShrinks, MessageType
         DEF GuestAnswers, HostReads, LinuxRequest, Contents, Message
    <3>2. Contents(Head(toHost).type, slot.mixed).kind = "Contents"
      BY DEF Contents
    <3>3. toGuest' = Append(toGuest, Contents(Head(toHost).type, slot.mixed))
      BY <1>4, <2>2 DEF GuestAnswers
    <3>4. Has(Append(toGuest, Contents(Head(toHost).type, slot.mixed)), "Grab") => Has(toGuest, "Grab")
      BY <3>1, <3>2, HasAppend
    <3> QED
      BY <1>c, <2>1, <3>3, <3>4
  <2> QED
    BY <1>4, <1>c, <2>1, <2>2 DEF GuestAnswers
<1>5. CASE ForwardsGrab
  BY <1>5, <1>c, SendsGrab DEF ForwardsGrab
<1>6. CASE ForwardsRead
  <2>1. Head(reads) \in Types
    BY <1>6 DEF ForwardsRead
  <2> QED
    BY <1>6, <1>c, <2>1, SendsRequest DEF ForwardsRead
<1>7. CASE Claims
  <2>1. Has(cmds, "Grab") /\ (Has(cmds', "Grab") => Has(cmds, "Grab"))
    BY <1>7, HasTail DEF Claims, Handles
  <2>2. sel' = "Ours" /\ (IsComing("App")' => IsComing("App"))
    BY <1>7, ComingStep DEF Claims, Selections
  <2> QED
    BY <1>7, <2>1, <2>2 DEF Claims, Handles
<1>8. CASE Reads
  <2>1. Head(cmds).type \in Types /\ (Has(cmds', "Grab") => Has(cmds, "Grab"))
        /\ UNCHANGED coming
    BY <1>8, HasTail, ReadsCases DEF Reads, Handles
  <2>2. Has(Append(toGuest, Contents(Empty, FALSE)), "Grab") => Has(toGuest, "Grab")
    BY SendsContents
  <2>3. CASE ReadsNothing
    BY <1>8, <2>1, <2>2, <2>3 DEF ReadsNothing, Reads, Handles, IsComing
  <2>4. CASE UNCHANGED <<slot, toGuest>>
    BY <1>8, <2>1, <2>4 DEF Reads, Handles, IsComing
  <2>5. CASE ReadWinClipboard("self", Head(cmds).type)
    <3>1. Has(toGuest', "Grab") <=> Has(toGuest, "Grab")
      BY <2>1, <2>5, ReadsNoGrab
    <3> QED
      BY <1>8, <2>1, <2>5, <3>1 DEF Reads, Handles, IsComing
  <2> QED
    BY <1>8, <2>3, <2>4, <2>5, ReadsCases
<1>9. CASE LinuxCopies
  <2>1. PICK whose \in {"App", "None"} : Selected(whose)
    BY <1>9 DEF LinuxCopies
  <2>2. sel' = whose /\ (IsComing("Ours")' => IsComing("Ours"))
    BY <2>1, ComingStep DEF Selections
  <2>3. linCopies' # 0
    BY <1>9 DEF LinuxCopies
  <2> QED
    BY <1>9, <2>2, <2>3 DEF LinuxCopies
<1>10. ASSUME NEW t \in Types, LinuxPastes(t) PROVE EchoInv'
  BY <1>10, <1>c, ReadsNoGrab DEF LinuxPastes
<1>12. CASE SelectionArrives
  BY <1>12, ComingStep DEF SelectionArrives
<1>11. CASE LinuxAnswers
  <2>1. reading.type \in Types
    BY <1>11 DEF LinuxAnswers, LinuxRead
  <2>2. PICK d \in {reading.type, Empty} : toGuest' = Append(toGuest, Contents(d, FALSE))
    BY <1>11 DEF LinuxAnswers
  <2>3. Has(Append(toGuest, Contents(d, FALSE)), "Grab") => Has(toGuest, "Grab")
    BY <2>1, SendsContents
  <2> QED
    BY <1>11, <1>c, <2>2, <2>3 DEF LinuxAnswers
<1> QED
  BY <1>1, <1>2, <1>3, <1>4, <1>5, <1>6, <1>7, <1>8, <1>9, <1>10, <1>11, <1>12
     DEF RelayNext, LinuxNext

\* No grab is on its way to, or has an effect on, the side that it came
\* from.
THEOREM EchoInvariant == ClipboardSpec => []EchoInv
<1>1. ClipboardInit => EchoInv
  BY DEF ClipboardInit, GuestInit, EchoInv, IsComing, Has
<1>2. ClipboardTypeOK /\ EchoInv /\ [ClipboardNext]_clipVars => EchoInv'
  <2>1. ASSUME EchoInv, UNCHANGED clipVars PROVE EchoInv'
    BY <2>1 DEF EchoInv, IsComing
  <2> QED
    BY <2>1, GuestEchoStep, HostEchoStep DEF ClipboardNext
<1> QED
  BY <1>1, <1>2, ClipboardTypeCorrect, PTL DEF ClipboardSpec

\* A side on which nobody has copied never claims the other side's
\* clipboard.
THEOREM NeverEchoes == ClipboardSpec => []NoEcho
<1>1. EchoInv => NoEcho
  BY DEF EchoInv, NoEcho
<1> QED
  BY <1>1, EchoInvariant, PTL

-----------------------------------------------------------------------------
(* Answers                                                                 *)

Fits(pipe, kind, types) ==
    \A i \in DOMAIN pipe : pipe[i].kind = kind => pipe[i].type \in types

\* All that is under way for Linux, on both pipes and in the main thread, is
\* for t.
AllFor(t) ==
    /\ Fits(toGuest, "Request", {t})
    /\ request \in {NoType, t}
    /\ Fits(toHost, "Contents", {t, Empty})

\* While no later request has taken the place of another one, all that is
\* under way is for this request.
AnswerInv ==
    /\ main \in {"open", "get"} <=> request # NoType
    /\ slot # NoRequest /\ slot.mixed = FALSE => AllFor(slot.type)

LEMMA FitsAppend ==
    ASSUME NEW p \in Seq(Message), NEW m \in Message, NEW kind, NEW types,
           m.kind = kind => m.type \in types, Fits(p, kind, types)
    PROVE  Fits(Append(p, m), kind, types)
BY AppendProperties DEF Fits

LEMMA FitsTail ==
    ASSUME NEW p \in Seq(Message), p # <<>>, NEW kind, NEW types, Fits(p, kind, types)
    PROVE  /\ Fits(Tail(p), kind, types)
           /\ Head(p).kind = kind => Head(p).type \in types
<1>1. ASSUME NEW i \in DOMAIN Tail(p), Tail(p)[i].kind = kind
      PROVE  Tail(p)[i].type \in types
  <2>1. i + 1 \in DOMAIN p /\ p[i + 1] = Tail(p)[i]
    BY HeadTailProperties
  <2> QED
    BY <1>1, <2>1 DEF Fits
<1>2. 1 \in DOMAIN p /\ p[1] = Head(p)
  OBVIOUS
<1> QED
  BY <1>1, <1>2 DEF Fits

\* What is sent leaves what the other pipe and the other kinds are for.
LEMMA FitsSent ==
    ASSUME NEW p \in Seq(Message), NEW t \in Types, NEW kind, NEW types, Fits(p, kind, types)
    PROVE  /\ kind # "Grab" => Fits(Append(p, Grab), kind, types)
           /\ kind # "Request" \/ t \in types => Fits(Append(p, Request(t)), kind, types)
           /\ \A d \in Types \cup {Empty} : kind # "Contents" \/ d \in types =>
                Fits(Append(p, Contents(d, FALSE)), kind, types)
<1>1. Grab \in Message /\ Grab.kind = "Grab"
  BY DEF Grab, Message
<1>2. Request(t) \in Message /\ Request(t).kind = "Request" /\ Request(t).type = t
  BY DEF Request, Message
<1>3. ASSUME NEW d \in Types \cup {Empty}
      PROVE  /\ Contents(d, FALSE) \in Message
             /\ Contents(d, FALSE).kind = "Contents"
             /\ Contents(d, FALSE).type = d
  BY DEF Contents, Message
<1> QED
  BY <1>1, <1>2, <1>3, FitsAppend

LEMMA GuestAnswerStep ==
    ASSUME ClipboardTypeOK, NEW t \in Types, AllFor(t), GuestNext, UNCHANGED hostVars
    PROVE  AllFor(t)'
<1> USE DEF AllFor
<1>0. /\ toHost \in Seq(Message) /\ toGuest \in Seq(Message)
      /\ request \in Types \cup {NoType} /\ wanted \in Types \cup {NoType}
  BY DEF ClipboardTypeOK, GuestTypeOK
<1>s. /\ Fits(Append(toHost, Grab), "Contents", {t, Empty})
      /\ \A d \in Types : Fits(Append(toHost, Request(d)), "Contents", {t, Empty})
      /\ \A d \in {t, Empty} : Fits(Append(toHost, Contents(d, FALSE)), "Contents", {t, Empty})
  BY <1>0, FitsSent
<1>1. CASE UpdateBegins
  BY <1>1 DEF UpdateBegins
<1>2. CASE UpdateEnds
  BY <1>2 DEF UpdateEnds
<1>3. CASE Destroy
  BY <1>3 DEF Destroy
<1>4. CASE RenderBegins
  <2>1. toHost' \in {toHost, Append(toHost, Contents(Empty, FALSE))}
    BY <1>4 DEF RenderBegins, AskerGets
  <2>2. request' \in {request, NoType} /\ toGuest' = toGuest
    BY <1>4 DEF RenderBegins, AskerGets
  <2> QED
    BY <1>s, <2>1, <2>2
<1>5. CASE Announces
  BY <1>5, <1>s DEF Announces
<1>6. CASE RendererAsks
  <2>1. wanted \in Types
    BY <1>6 DEF RendererAsks, ClipboardTypeOK, GuestTypeOK
  <2> QED
    BY <1>6, <1>s, <2>1 DEF RendererAsks
<1>7. CASE GrabBegins
  BY <1>7, <1>0, FitsTail DEF GrabBegins, MainReads
<1>8. CASE GrabOpens
  BY <1>8 DEF GrabOpens, EmptyFor
<1>9. CASE GrabEnds
  BY <1>9 DEF GrabEnds
<1>10. CASE RequestBegins
  <2>1. toHost' \in {toHost, Append(toHost, Contents(Empty, FALSE))}
    BY <1>10 DEF RequestBegins, Answer
  <2>2. Fits(toGuest, "Request", {t})'
    BY <1>10, <1>0, FitsTail DEF RequestBegins, MainReads
  <2>3. Head(toGuest).type = t
    BY <1>10, <1>0, FitsTail DEF RequestBegins, MainReads
  <2>4. request' \in {request, t}
    BY <1>10, <2>3 DEF RequestBegins
  <2> QED
    BY <1>s, <2>1, <2>2, <2>4
<1>11. CASE RequestAnswered
  <2>1. request' = NoType /\ toGuest' = toGuest
    BY <1>11 DEF RequestAnswered
  <2>2. request \in avail => request = t
    BY TypesAssumption DEF ClipboardTypeOK, GuestTypeOK
  <2>3. toHost' \in {Append(toHost, Contents(t, FALSE)), Append(toHost, Contents(Empty, FALSE))}
    BY <1>11, <2>2 DEF RequestAnswered, Answer
  <2> QED
    BY <1>s, <2>1, <2>3
<1>12. CASE RequestAsksItself
  BY <1>12 DEF RequestAsksItself
<1>13. CASE ContentsArrive
  BY <1>13, <1>0, FitsTail DEF ContentsArrive, MainReads
<1>17. CASE RenderEnds
  BY <1>17 DEF RenderEnds, Renders
<1>18. CASE RendererAnswers
  BY <1>18 DEF RendererAnswers
<1>14. CASE WindowsTimesOut
  <2>1. toHost' \in {toHost, Append(toHost, Contents(Empty, FALSE))}
    BY <1>14 DEF WindowsTimesOut, AskerGets
  <2>2. request' \in {request, NoType} /\ toGuest' = toGuest
    BY <1>14 DEF WindowsTimesOut, AskerGets
  <2> QED
    BY <1>s, <2>1, <2>2
<1>15. CASE AppCopies
  BY <1>15 DEF AppCopies, EmptyFor
<1>16. ASSUME NEW u \in Types, AppPastes(u) PROVE AllFor(t)'
  BY <1>16 DEF AppPastes
<1> QED
  BY <1>1, <1>2, <1>3, <1>4, <1>5, <1>6, <1>7, <1>8, <1>9, <1>10, <1>11, <1>12, <1>13, <1>14, <1>15, <1>16, <1>17, <1>18
     DEF GuestNext, WindowNext, MainNext, UserNext

\* The main thread has a request exactly while it answers one.
LEMMA RequestStep ==
    ASSUME ClipboardTypeOK, main \in {"open", "get"} <=> request # NoType, GuestNext
    PROVE  (main \in {"open", "get"} <=> request # NoType)'
<1>1. CASE RequestBegins
  <2>1. Head(toGuest).type \in Types
    BY <1>1, MessageType, PipeShrinks DEF RequestBegins, MainReads, ClipboardTypeOK, GuestTypeOK
  <2> QED
    BY <1>1, <2>1, TypesAssumption DEF RequestBegins, MainReads
<1>2. CASE GuestNext /\ ~RequestBegins
  BY <1>2 DEF GuestNext, WindowNext, MainNext, UserNext, UpdateBegins, UpdateEnds, Destroy,
       RenderBegins, RenderEnds, AskerGets, Announces, RendererAsks, RendererAnswers, GrabBegins,
       MainReads, GrabOpens, GrabEnds, RequestAnswered, RequestAsksItself, ContentsArrive, WindowsTimesOut,
       AppCopies, AppPastes
<1> QED
  BY <1>1, <1>2

\* A request in an empty or quiet place: nothing else is under way.
LEMMA AskedAlone ==
    ASSUME ClipboardTypeOK, main \in {"open", "get"} <=> request # NoType,
           NEW who, NEW t \in Types, ReadWinClipboard(who, t), ~slot'.mixed,
           UNCHANGED <<toHost, request>>
    PROVE  slot'.type = t /\ AllFor(t)'
<1>1. slot'.type = t /\ ~Unanswered
  BY DEF ReadWinClipboard
<1>2. Fits(toGuest, "Request", {t}) /\ request' = NoType /\ Fits(toHost, "Contents", {t, Empty})'
  BY <1>1 DEF Unanswered, Fits
<1>3. toGuest \in Seq(Message)
  BY DEF ClipboardTypeOK, GuestTypeOK
<1>4. Append(toGuest, Request(t)) \in Seq(Message) /\ Fits(Append(toGuest, Request(t)), "Request", {t})
  BY <1>2, <1>3, SendsRequest, FitsSent
<1>5. Fits(Append(Append(toGuest, Request(t)), Contents(Empty, FALSE)), "Request", {t})
  BY <1>4, FitsSent
<1> QED
  BY <1>1, <1>2, <1>4, <1>5, ReadSends DEF AllFor

\* Only the three handlers below change the place.
LEMMA SlotCases ==
    ASSUME ClipboardTypeOK, RelayNext \/ LinuxNext
    PROVE  \/ UNCHANGED slot
           \/ GuestAnswers /\ slot' = NoRequest
           \/ /\ toHost' = toHost
              /\ \E who \in {"app", "self"}, u \in Types : ReadWinClipboard(who, u)
<1>1. CASE Reads
  BY <1>1, ReadsCases DEF ReadsNothing, Reads, Handles
<1>2. CASE (RelayNext \/ LinuxNext) /\ ~Reads
  BY <1>2 DEF RelayNext, LinuxNext, SelectionArrives, Listens, HostReads, GuestGrabs, GuestAsks, GuestAnswers,
       ForwardsGrab, ForwardsRead, Handles, Claims, LinuxCopies, LinuxPastes, LinuxAnswers
<1> QED
  BY <1>1, <1>2

LEMMA HostAnswerStep ==
    ASSUME ClipboardTypeOK, AnswerInv, RelayNext \/ LinuxNext
    PROVE  AnswerInv'
<1>0. /\ UNCHANGED <<main, request>>
      /\ toHost \in Seq(Message) /\ toGuest \in Seq(Message)
  BY HostKeepsGuest DEF ClipboardTypeOK, GuestTypeOK
<1>1. ASSUME UNCHANGED slot,
             NEW t \in Types, AllFor(t)
      PROVE  \/ AllFor(t)'
             \/ /\ toHost' = toHost
                /\ \E who \in {"app", "self"}, u \in Types : ReadWinClipboard(who, u)
  <2> USE <1>0, <1>1 DEF AllFor
  <2>s. /\ Fits(Append(toGuest, Grab), "Request", {t})
        /\ \A d \in Types \cup {Empty} : Fits(Append(toGuest, Contents(d, FALSE)), "Request", {t})
    BY FitsSent
  <2>t. toHost # <<>> => Fits(Tail(toHost), "Contents", {t, Empty})
    BY FitsTail
  <2>1. CASE Listens
    BY <2>1, <2>s DEF Listens
  <2>2. CASE GuestGrabs
    BY <2>2, <2>t DEF GuestGrabs, HostReads
  <2>3. CASE GuestAsks
    BY <2>3, <2>t DEF GuestAsks, HostReads
  <2>4. CASE GuestAnswers
    <3>1. slot = NoRequest
      BY <2>4 DEF GuestAnswers
    <3> QED
      BY <2>4, <3>1, <2>t DEF GuestAnswers, HostReads
  <2>5. CASE ForwardsGrab
    BY <2>5 DEF ForwardsGrab
  <2>6. CASE ForwardsRead
    BY <2>6 DEF ForwardsRead
  <2>7. CASE Claims
    BY <2>7 DEF Claims, Handles
  <2>8. CASE Reads
    BY <2>8, <2>s, ReadsCases DEF ReadsNothing, Reads, Handles
  <2>9. CASE LinuxCopies
    BY <2>9 DEF LinuxCopies
  <2>10. ASSUME NEW u \in Types, LinuxPastes(u)
         PROVE  toHost' = toHost /\ \E who \in {"app", "self"}, v \in Types : ReadWinClipboard(who, v)
    BY <2>10 DEF LinuxPastes
  <2>12. CASE SelectionArrives
    BY <2>12 DEF SelectionArrives
  <2>11. CASE LinuxAnswers
    <3>1. reading.type \in Types
      BY <2>11 DEF LinuxAnswers, ClipboardTypeOK, LinuxRead
    <3> QED
      BY <2>11, <2>s, <3>1 DEF LinuxAnswers
  <2> QED
    BY <2>1, <2>2, <2>3, <2>4, <2>5, <2>6, <2>7, <2>8, <2>9, <2>10, <2>11, <2>12 DEF RelayNext, LinuxNext
<1>2. ASSUME NEW who \in {"app", "self"}, NEW u \in Types, ReadWinClipboard(who, u),
             toHost' = toHost
      PROVE  AnswerInv'
  <2>1. slot'.mixed = FALSE => slot'.type = u /\ AllFor(u)'
    BY <1>0, <1>2, AskedAlone DEF AnswerInv
  <2> QED
    BY <1>0, <2>1 DEF AnswerInv
<1>3. CASE UNCHANGED slot
  <2>1. slot # NoRequest => slot.type \in Types
    BY DEF ClipboardTypeOK, LinuxRequest
  <2> QED
    BY <1>0, <1>1, <1>2, <1>3, <2>1 DEF AnswerInv
<1>4. CASE slot' = NoRequest
  BY <1>0, <1>4 DEF AnswerInv
<1> QED
  BY <1>2, <1>3, <1>4, SlotCases

\* What is under way for Linux is for the request in the place.
THEOREM AnswerInvariant == ClipboardSpec => []AnswerInv
<1>1. ClipboardInit => AnswerInv
  BY DEF ClipboardInit, GuestInit, AnswerInv
<1>2. ClipboardTypeOK /\ AnswerInv /\ [ClipboardNext]_clipVars => AnswerInv'
  <2> SUFFICES ASSUME ClipboardTypeOK, AnswerInv, [ClipboardNext]_clipVars
               PROVE  AnswerInv'
    OBVIOUS
  <2>1. CASE GuestNext /\ UNCHANGED hostVars
    <3>1. slot # NoRequest => slot.type \in Types
      BY DEF ClipboardTypeOK, LinuxRequest
    <3> QED
      BY <2>1, <3>1, GuestAnswerStep, RequestStep DEF AnswerInv
  <2>2. CASE UNCHANGED clipVars
    BY <2>2 DEF AnswerInv, AllFor
  <2> QED
    BY <2>1, <2>2, HostAnswerStep DEF ClipboardNext
<1> QED
  BY <1>1, <1>2, ClipboardTypeCorrect, PTL DEF ClipboardSpec

\* An answer comes with what the request in the place asked for, unless that
\* had taken over the place of an earlier one.
THEOREM AnswersAlwaysFit == ClipboardSpec => AnswerFits
<1>1. ClipboardTypeOK /\ AnswerInv /\ [ClipboardNext]_clipVars =>
        [slot # NoRequest /\ slot' = NoRequest =>
           Head(toHost).type \in {slot.type, Empty} \/ slot.mixed]_clipVars
  <2> SUFFICES ASSUME ClipboardTypeOK, AnswerInv, ClipboardNext,
                      slot # NoRequest, slot' = NoRequest, ~slot.mixed
               PROVE  Head(toHost).type \in {slot.type, Empty}
    OBVIOUS
  <2>1. GuestAnswers
    <3>1. ASSUME NEW who \in {"app", "self"}, NEW u \in Types, ReadWinClipboard(who, u)
          PROVE  FALSE
      <4>1. slot' \in LinuxRequest
        BY <3>1 DEF ReadWinClipboard, LinuxRequest, Unanswered
      <4> QED
        BY <4>1, PlacesAssumption
    <3>2. slot' # slot
      OBVIOUS
    <3> QED
      BY <3>1, <3>2, SlotCases DEF ClipboardNext
  <2>2. toHost \in Seq(Message) /\ toHost # <<>> /\ Head(toHost).kind = "Contents"
    BY <2>1 DEF GuestAnswers, HostReads, ClipboardTypeOK, GuestTypeOK
  <2>3. Fits(toHost, "Contents", {slot.type, Empty})
    BY DEF AnswerInv, AllFor, ClipboardTypeOK, LinuxRequest
  <2> QED
    BY <2>2, <2>3, FitsTail
<1> QED
  BY <1>1, ClipboardTypeCorrect, AnswerInvariant, PTL DEF ClipboardSpec, AnswerFits

-----------------------------------------------------------------------------
(* Renderings                                                              *)

Once(pipe, kind) ==
    \A i, j \in DOMAIN pipe : pipe[i].kind = kind /\ pipe[j].kind = kind => i = j

Only(pipe, kind, messages) ==
    /\ Once(pipe, kind)
    /\ \A i \in DOMAIN pipe : pipe[i].kind = kind => pipe[i] \in messages

\* The request of the rendering, and what answers it.
Asks == {m \in Message : m.type = outstanding}
Answers == {m \in Message : m.mixed \/ m.type \in {outstanding, Empty}}

\* Either is in at most one place.
OneAnswer ==
    LET asking == Has(toHost, "Request")
        queued == reads # <<>>
        forwarded == Has(cmds, "Request")
        reads_ == reading # NoRead
        answered == Has(toGuest, "Contents")
    IN  /\ asking \/ queued \/ forwarded \/ reads_ \/ answered => outstanding # NoType
        /\ asking => ~queued /\ ~forwarded /\ ~reads_ /\ ~answered
        /\ queued => ~forwarded /\ ~reads_ /\ ~answered
        /\ forwarded => ~reads_ /\ ~answered
        /\ reads_ => ~answered

\* The command handler waits for its own request while that is in the place.
OwnRead ==
    /\ slot # NoRequest /\ slot.who = "self" <=> reading # NoRead /\ reading.from = "Ours"
    /\ slot # NoRequest /\ slot.who = "self" => slot.type = reading.type

RenderInv ==
    /\ Only(toHost, "Request", Asks)
    /\ reads \in {<<>>, <<outstanding>>}
    /\ Only(cmds, "Request", Asks)
    /\ reading # NoRead => reading.type = outstanding
    /\ Only(toGuest, "Contents", Answers)
    /\ OneAnswer
    /\ OwnRead

LEMMA OnlyTail ==
    ASSUME NEW p \in Seq(Message), p # <<>>, NEW kind, NEW ms, Only(p, kind, ms)
    PROVE  /\ Only(Tail(p), kind, ms)
           /\ Head(p).kind = kind => Head(p) \in ms /\ ~Has(Tail(p), kind)
<1>1. ASSUME NEW i \in DOMAIN Tail(p)
      PROVE  i \in Nat /\ i + 1 \in DOMAIN p /\ p[i + 1] = Tail(p)[i] /\ i + 1 # 1
  BY HeadTailProperties
<1>2. 1 \in DOMAIN p /\ p[1] = Head(p)
  OBVIOUS
<1>3. Once(Tail(p), kind)
  <2> SUFFICES ASSUME NEW i \in DOMAIN Tail(p), NEW j \in DOMAIN Tail(p),
                      Tail(p)[i].kind = kind, Tail(p)[j].kind = kind
               PROVE  i = j
    BY DEF Once
  <2>1. i + 1 = j + 1
    BY <1>1 DEF Only, Once
  <2> QED
    BY <1>1, <2>1
<1>4. ASSUME NEW i \in DOMAIN Tail(p), Tail(p)[i].kind = kind PROVE Tail(p)[i] \in ms
  BY <1>1, <1>4 DEF Only
<1>5. ASSUME Head(p).kind = kind, Has(Tail(p), kind) PROVE FALSE
  <2>1. PICK i \in DOMAIN Tail(p) : Tail(p)[i].kind = kind
    BY <1>5 DEF Has
  <2>2. i + 1 = 1
    BY <1>1, <1>2, <1>5, <2>1 DEF Only, Once
  <2> QED
    BY <1>1, <2>2
<1> QED
  BY <1>2, <1>3, <1>4, <1>5 DEF Only

LEMMA OnlyAppend ==
    ASSUME NEW p \in Seq(Message), NEW m \in Message, NEW kind, NEW ms
    PROVE  /\ Only(p, kind, ms) /\ m.kind # kind => Only(Append(p, m), kind, ms)
           /\ ~Has(p, kind) /\ m \in ms => Only(Append(p, m), kind, ms)
<1>1. DOMAIN Append(p, m) = DOMAIN p \cup {Len(p) + 1} /\ Append(p, m)[Len(p) + 1] = m
  BY AppendProperties
<1>2. \A i \in DOMAIN p : Append(p, m)[i] = p[i]
  BY AppendProperties
<1> QED
  BY <1>1, <1>2 DEF Only, Once, Has

\* What is not there is all of one kind.
LEMMA OnlyNone ==
    ASSUME NEW p, NEW kind, NEW ms, ~Has(p, kind)
    PROVE  Only(p, kind, ms)
BY DEF Only, Once, Has

\* Most of the guest's steps neither ask for a rendering's data nor take
\* them.
LEMMA GuestFrame ==
    ASSUME ClipboardTypeOK, GuestNext, ~RendererAsks, ~ContentsArrive
    PROVE  /\ UNCHANGED outstanding
           /\ \/ UNCHANGED toGuest
              \/ toGuest # <<>> /\ Head(toGuest).kind # "Contents" /\ toGuest' = Tail(toGuest)
           /\ \/ UNCHANGED toHost
              \/ toHost' = Append(toHost, Grab)
              \/ \E d \in Types \cup {Empty} : toHost' = Append(toHost, Contents(d, FALSE))
<1> USE DEF GuestNext, WindowNext, MainNext, UserNext
<1>1. CASE RenderBegins \/ WindowsTimesOut
  BY <1>1 DEF RenderBegins, WindowsTimesOut, AskerGets
<1>2. CASE RequestBegins
  BY <1>2 DEF RequestBegins, MainReads, Answer
<1>3. CASE RequestAnswered
  BY <1>3 DEF RequestAnswered, Answer, ClipboardTypeOK, GuestTypeOK
<1>4. CASE Announces \/ GrabBegins
  BY <1>4 DEF Announces, GrabBegins, MainReads
<1>5. CASE UpdateBegins \/ UpdateEnds \/ Destroy \/ GrabOpens \/ GrabEnds \/ RequestAsksItself
  BY <1>5 DEF UpdateBegins, UpdateEnds, Destroy, GrabOpens, GrabEnds, RequestAsksItself
<1>7. CASE RenderEnds \/ RendererAnswers
  BY <1>7 DEF RenderEnds, RendererAnswers
<1>6. CASE AppCopies \/ \E t \in Types : AppPastes(t)
  BY <1>6 DEF AppCopies, AppPastes
<1> QED
  BY <1>1, <1>2, <1>3, <1>4, <1>5, <1>6, <1>7

LEMMA GuestRenderStep ==
    ASSUME ClipboardTypeOK, RenderInv, GuestNext, UNCHANGED hostVars
    PROVE  RenderInv'
<1>0. toHost \in Seq(Message) /\ toGuest \in Seq(Message)
  BY DEF ClipboardTypeOK, GuestTypeOK
<1>1. CASE RendererAsks
  <2>1. /\ outstanding = NoType /\ outstanding' = wanted /\ wanted \in Types
        /\ toHost' = Append(toHost, Request(wanted)) /\ UNCHANGED toGuest
    BY <1>1 DEF RendererAsks, ClipboardTypeOK, GuestTypeOK
  <2>2. /\ ~Has(toHost, "Request") /\ reads = <<>> /\ ~Has(cmds, "Request")
        /\ reading = NoRead /\ ~Has(toGuest, "Contents")
    BY <2>1 DEF RenderInv, OneAnswer
  <2>3. Request(wanted) \in Message /\ Request(wanted) \in Asks'
    BY <2>1 DEF Request, Message, Asks
  <2>4. Only(toHost, "Request", Asks)'
    <3>1. Only(toHost, "Request", Asks')
      BY <2>2, OnlyNone
    <3> QED
      BY <1>0, <2>1, <2>2, <2>3, <3>1, OnlyAppend
  <2>5. Only(cmds, "Request", Asks)' /\ Only(toGuest, "Contents", Answers)'
    BY <2>1, <2>2, OnlyNone
  <2>6. OneAnswer'
    BY <2>1, <2>2, TypesAssumption DEF OneAnswer
  <2>7. OwnRead' /\ reads' = <<>> /\ reading' = NoRead
    BY <2>2 DEF RenderInv, OwnRead
  <2> QED
    BY <2>4, <2>5, <2>6, <2>7 DEF RenderInv
<1>2. CASE ContentsArrive
  <2>1. /\ outstanding' = NoType /\ UNCHANGED toHost
        /\ toGuest # <<>> /\ Head(toGuest).kind = "Contents" /\ toGuest' = Tail(toGuest)
    BY <1>2 DEF ContentsArrive, MainReads
  <2>2. Has(toGuest, "Contents") /\ ~Has(toGuest', "Contents")
    BY <1>0, <2>1, HasTail, OnlyTail DEF RenderInv
  <2>3. /\ ~Has(toHost, "Request") /\ reads = <<>> /\ ~Has(cmds, "Request")
        /\ reading = NoRead
    BY <2>2 DEF RenderInv, OneAnswer
  <2>4. Only(toHost, "Request", Asks)' /\ Only(cmds, "Request", Asks)'
        /\ Only(toGuest, "Contents", Answers)'
    BY <2>1, <2>2, <2>3, OnlyNone
  <2>5. OneAnswer'
    BY <2>1, <2>2, <2>3 DEF OneAnswer
  <2>6. OwnRead' /\ reads' = <<>> /\ reading' = NoRead
    BY <2>3 DEF RenderInv, OwnRead
  <2> QED
    BY <2>4, <2>5, <2>6 DEF RenderInv
<1>3. CASE ~RendererAsks /\ ~ContentsArrive
  <2>1. UNCHANGED outstanding
    BY <1>3, GuestFrame
  <2>2. Asks' = Asks /\ Answers' = Answers
    BY <2>1 DEF Asks, Answers
  <2>3. Only(toGuest', "Contents", Answers) /\ (Has(toGuest', "Contents") => Has(toGuest, "Contents"))
    <3>1. Only(toGuest, "Contents", Answers)
      BY DEF RenderInv
    <3>2. ASSUME toGuest # <<>>
          PROVE  /\ Only(Tail(toGuest), "Contents", Answers)
                 /\ Has(Tail(toGuest), "Contents") => Has(toGuest, "Contents")
      BY <1>0, <3>1, <3>2, OnlyTail, HasTail
    <3> QED
      BY <1>3, <3>1, <3>2, GuestFrame
  <2>4. Only(toHost', "Request", Asks) /\ (Has(toHost', "Request") => Has(toHost, "Request"))
    <3>1. Grab \in Message /\ Grab.kind # "Request"
      BY DEF Grab, Message
    <3>2. ASSUME NEW d \in Types \cup {Empty}
          PROVE  Contents(d, FALSE) \in Message /\ Contents(d, FALSE).kind # "Request"
      BY DEF Contents, Message
    <3>0. Only(toHost, "Request", Asks)
      BY DEF RenderInv
    <3>3. /\ Only(Append(toHost, Grab), "Request", Asks)
          /\ Has(Append(toHost, Grab), "Request") => Has(toHost, "Request")
      <4>1. Only(Append(toHost, Grab), "Request", Asks)
        BY <1>0, <3>0, <3>1, OnlyAppend
      <4>2. Has(Append(toHost, Grab), "Request") <=> Has(toHost, "Request")
        BY <1>0, SendsGrab
      <4> QED
        BY <4>1, <4>2
    <3>4. ASSUME NEW d \in Types \cup {Empty}
          PROVE  /\ Only(Append(toHost, Contents(d, FALSE)), "Request", Asks)
                 /\ Has(Append(toHost, Contents(d, FALSE)), "Request") => Has(toHost, "Request")
      <4>1. Only(Append(toHost, Contents(d, FALSE)), "Request", Asks)
        BY <1>0, <3>0, <3>2, OnlyAppend
      <4>2. Has(Append(toHost, Contents(d, FALSE)), "Request") <=> Has(toHost, "Request")
        BY <1>0, SendsContents
      <4> QED
        BY <4>1, <4>2
    <3> QED
      BY <1>3, <3>0, <3>3, <3>4, GuestFrame DEF RenderInv
  <2> QED
    BY <2>1, <2>2, <2>3, <2>4 DEF RenderInv, OneAnswer, OwnRead
<1> QED
  BY <1>1, <1>2, <1>3

\* A message that is not of the kind changes nothing for it.
LEMMA OnlySent ==
    ASSUME NEW p \in Seq(Message), NEW t \in Types, NEW ms, Only(p, "Contents", ms)
    PROVE  /\ Append(p, Grab) \in Seq(Message) /\ Append(p, Request(t)) \in Seq(Message)
           /\ Only(Append(p, Grab), "Contents", ms)
           /\ Has(Append(p, Grab), "Contents") <=> Has(p, "Contents")
           /\ Only(Append(p, Request(t)), "Contents", ms)
           /\ Has(Append(p, Request(t)), "Contents") <=> Has(p, "Contents")
<1>1. Grab \in Message /\ Grab.kind # "Contents"
  BY DEF Grab, Message
<1>2. Request(t) \in Message /\ Request(t).kind # "Contents"
  BY DEF Request, Message
<1>3. Only(Append(p, Grab), "Contents", ms) /\ Only(Append(p, Request(t)), "Contents", ms)
  BY <1>1, <1>2, OnlyAppend
<1> QED
  BY <1>3, SendsGrab, SendsRequest

\* An answer to the rendering, while nothing else is under way for it.
LEMMA Answering ==
    ASSUME NEW p \in Seq(Message), ~Has(p, "Contents"), UNCHANGED outstanding,
           NEW m \in Message, m \in Answers, toGuest' = Append(p, m),
           OwnRead', outstanding # NoType,
           ~Has(toHost', "Request"), ~Has(cmds', "Request"),
           reads' = <<>>, reading' = NoRead
    PROVE  RenderInv'
<1>1. Only(Append(p, m), "Contents", Answers)
  BY OnlyAppend
<1>2. Answers' = Answers
  BY DEF Answers
<1>3. Only(toGuest, "Contents", Answers)'
  BY <1>1, <1>2
<1>4. Only(toHost, "Request", Asks)' /\ Only(cmds, "Request", Asks)'
  BY OnlyNone
<1> QED
  BY <1>3, <1>4 DEF RenderInv, OneAnswer

LEMMA HostRenderStep ==
    ASSUME ClipboardTypeOK, AnswerInv, RenderInv, RelayNext \/ LinuxNext
    PROVE  RenderInv'
<1>0. /\ toHost \in Seq(Message) /\ toGuest \in Seq(Message) /\ cmds \in Seq(Message)
      /\ reads \in Seq(Types) /\ outstanding \in Types \cup {NoType}
      /\ slot # NoRequest => slot.type \in Types /\ slot.mixed \in BOOLEAN
      /\ reading # NoRead => reading.type \in Types
  BY DEF ClipboardTypeOK, GuestTypeOK, LinuxRequest, LinuxRead
<1>o. UNCHANGED outstanding
  BY HostKeepsGuest
<1>a. Asks' = Asks /\ Answers' = Answers
  BY <1>o DEF Asks, Answers
<1>i. /\ Only(toHost, "Request", Asks)
      /\ Only(cmds, "Request", Asks)
      /\ Only(toGuest, "Contents", Answers)
      /\ OneAnswer
      /\ OwnRead
      /\ reads \in {<<>>, <<outstanding>>}
      /\ reading # NoRead => reading.type = outstanding
  BY DEF RenderInv
<1>g. /\ Only(Append(toGuest, Grab), "Contents", Answers)
      /\ Has(Append(toGuest, Grab), "Contents") => Has(toGuest, "Contents")
  <2>1. Grab \in Message /\ Grab.kind # "Contents"
    BY DEF Grab, Message
  <2>2. Only(Append(toGuest, Grab), "Contents", Answers)
    BY <1>0, <1>i, <2>1, OnlyAppend
  <2> QED
    BY <1>0, <2>2, SendsGrab
<1>r. ASSUME NEW t \in Types
      PROVE  /\ Only(Append(toGuest, Request(t)), "Contents", Answers)
             /\ Append(toGuest, Request(t)) \in Seq(Message)
             /\ Has(Append(toGuest, Request(t)), "Contents") <=> Has(toGuest, "Contents")
  BY <1>0, <1>i, OnlySent
<1>e. Contents(Empty, FALSE) \in Message /\ Contents(Empty, FALSE) \in Answers
  BY DEF Contents, Message, Answers
<1>1. CASE Listens
  <2>1. toGuest' \in {toGuest, Append(toGuest, Grab)} /\ UNCHANGED <<toHost, slot, reads, cmds, reading>>
    BY <1>1 DEF Listens
  <2> QED
    BY <1>o, <1>a, <1>i, <1>g, <2>1 DEF RenderInv, OneAnswer, OwnRead
<1>2. CASE GuestGrabs
  <2>1. /\ toHost # <<>> /\ toHost' = Tail(toHost)
        /\ UNCHANGED <<toGuest, slot, reads, cmds, reading>>
    BY <1>2 DEF GuestGrabs, HostReads
  <2>2. Only(Tail(toHost), "Request", Asks) /\ (Has(Tail(toHost), "Request") => Has(toHost, "Request"))
    BY <1>0, <1>i, <2>1, OnlyTail, HasTail
  <2> QED
    BY <1>o, <1>a, <1>i, <2>1, <2>2 DEF RenderInv, OneAnswer, OwnRead
<1>3. CASE GuestAsks
  <2>1. /\ toHost # <<>> /\ toHost' = Tail(toHost) /\ Head(toHost).kind = "Request"
        /\ reads' = Append(reads, Head(toHost).type)
        /\ UNCHANGED <<toGuest, slot, cmds, reading>>
    BY <1>3 DEF GuestAsks, HostReads
  <2>2. Only(Tail(toHost), "Request", Asks) /\ ~Has(Tail(toHost), "Request") /\ Head(toHost) \in Asks
    BY <1>0, <1>i, <2>1, OnlyTail
  <2>3. Has(toHost, "Request")
    BY <1>0, <2>1, HasTail
  <2>4. reads = <<>> /\ ~Has(cmds, "Request") /\ reading = NoRead /\ ~Has(toGuest, "Contents")
        /\ outstanding # NoType
    BY <1>i, <2>3 DEF OneAnswer
  <2>5. reads' = <<outstanding>>
    BY <2>1, <2>2, <2>4 DEF Asks
  <2> QED
    BY <1>o, <1>a, <1>i, <2>1, <2>2, <2>4, <2>5 DEF RenderInv, OneAnswer, OwnRead
<1>4. CASE GuestAnswers
  <2>1. /\ toHost # <<>> /\ toHost' = Tail(toHost) /\ Head(toHost).kind = "Contents"
        /\ slot' = NoRequest /\ UNCHANGED <<reads, cmds>>
    BY <1>4 DEF GuestAnswers, HostReads
  <2>2. Only(Tail(toHost), "Request", Asks) /\ (Has(Tail(toHost), "Request") => Has(toHost, "Request"))
    BY <1>0, <1>i, <2>1, OnlyTail, HasTail
  <2>3. CASE slot # NoRequest /\ slot.who = "self"
    <3>1. /\ reading # NoRead /\ slot.type = outstanding
          /\ toGuest' = Append(toGuest, Contents(Head(toHost).type, slot.mixed))
          /\ reading' = NoRead
      BY <1>4, <1>i, <2>3 DEF GuestAnswers, OwnRead
    <3>2. reads = <<>> /\ ~Has(toHost, "Request") /\ ~Has(cmds, "Request")
          /\ ~Has(toGuest, "Contents") /\ outstanding # NoType
      BY <1>i, <3>1 DEF OneAnswer
    <3>3. Head(toHost).type \in Types \cup {Empty}
      BY <1>0, <2>1, PipeShrinks, MessageType
    <3>4. ~slot.mixed => Head(toHost).type \in {outstanding, Empty}
      <4>1. ASSUME ~slot.mixed PROVE Fits(toHost, "Contents", {slot.type, Empty})
        BY <1>0, <2>3, <4>1 DEF AnswerInv, AllFor
      <4> QED
        BY <1>0, <2>1, <3>1, <4>1, FitsTail
    <3>5. Contents(Head(toHost).type, slot.mixed) \in Message
      BY <1>0, <2>3, <3>3 DEF Contents, Message
    <3>6. Contents(Head(toHost).type, slot.mixed) \in Answers
      BY <3>4, <3>5 DEF Contents, Answers
    <3>7. OwnRead'
      BY <2>1, <3>1 DEF OwnRead
    <3> QED
      BY <1>0, <1>o, <2>1, <2>2, <3>1, <3>2, <3>5, <3>6, <3>7, Answering
  <2>4. CASE ~(slot # NoRequest /\ slot.who = "self")
    <3>1. UNCHANGED <<toGuest, reading>>
      BY <1>4, <2>4 DEF GuestAnswers
    <3> QED
      BY <1>o, <1>a, <1>i, <2>1, <2>2, <2>4, <3>1 DEF RenderInv, OneAnswer, OwnRead
  <2> QED
    BY <2>3, <2>4
<1>5. CASE ForwardsGrab
  <2>1. Grab \in Message /\ Grab.kind # "Request"
    BY DEF Grab, Message
  <2>2. Only(Append(cmds, Grab), "Request", Asks)
    BY <1>0, <1>i, <2>1, OnlyAppend
  <2>3. Has(Append(cmds, Grab), "Request") <=> Has(cmds, "Request")
    BY <1>0, SendsGrab
  <2>4. cmds' = Append(cmds, Grab) /\ UNCHANGED <<toGuest, toHost, slot, reads, reading>>
    BY <1>5 DEF ForwardsGrab
  <2> QED
    BY <1>o, <1>a, <1>i, <2>2, <2>3, <2>4 DEF RenderInv, OneAnswer, OwnRead
<1>6. CASE ForwardsRead
  <2>1. /\ reads # <<>> /\ reads' = Tail(reads) /\ cmds' = Append(cmds, Request(Head(reads)))
        /\ UNCHANGED <<toGuest, toHost, slot, reading>>
    BY <1>6 DEF ForwardsRead
  <2>2. reads' = <<>> /\ Head(reads) = outstanding
    <3>1. reads = <<outstanding>>
      BY <1>i, <2>1
    <3>2. Tail(<<outstanding>>) = <<>> /\ Head(<<outstanding>>) = outstanding
      OBVIOUS
    <3> QED
      BY <2>1, <3>1, <3>2
  <2>3. /\ ~Has(toHost, "Request") /\ ~Has(cmds, "Request") /\ reading = NoRead
        /\ ~Has(toGuest, "Contents") /\ outstanding # NoType
    BY <1>i, <2>1 DEF OneAnswer
  <2>4. Request(outstanding) \in Message /\ Request(outstanding) \in Asks
    BY <1>0, <2>3 DEF Request, Message, Asks
  <2>5. Only(Append(cmds, Request(outstanding)), "Request", Asks)
    BY <1>0, <2>3, <2>4, OnlyAppend
  <2> QED
    BY <1>o, <1>a, <1>i, <2>1, <2>2, <2>3, <2>5 DEF RenderInv, OneAnswer, OwnRead
<1>7. CASE Claims
  <2>1. cmds # <<>> /\ cmds' = Tail(cmds) /\ UNCHANGED <<toGuest, toHost, slot, reads, reading>>
    BY <1>7 DEF Claims, Handles
  <2>2. Only(Tail(cmds), "Request", Asks) /\ (Has(Tail(cmds), "Request") => Has(cmds, "Request"))
    BY <1>0, <1>i, <2>1, OnlyTail, HasTail
  <2> QED
    BY <1>o, <1>a, <1>i, <2>1, <2>2 DEF RenderInv, OneAnswer, OwnRead
<1>8. CASE Reads
  <2>1. /\ reading = NoRead /\ cmds # <<>> /\ cmds' = Tail(cmds) /\ Head(cmds).kind = "Request"
        /\ UNCHANGED <<toHost, reads>>
    BY <1>8 DEF Reads, Handles
  <2>2. Only(Tail(cmds), "Request", Asks) /\ ~Has(Tail(cmds), "Request") /\ Head(cmds) \in Asks
    BY <1>0, <1>i, <2>1, OnlyTail
  <2>3. Has(cmds, "Request")
    BY <1>0, <2>1, HasTail
  <2>4. reads = <<>> /\ ~Has(toHost, "Request") /\ ~Has(toGuest, "Contents") /\ outstanding # NoType
    BY <1>i, <2>3 DEF OneAnswer
  <2>5. Head(cmds).type = outstanding /\ outstanding \in Types
    BY <1>0, <2>2, <2>4 DEF Asks
  <2>6. CASE ReadsNothing
    <3>1. toGuest' = Append(toGuest, Contents(Empty, FALSE)) /\ UNCHANGED <<slot, reading>>
      BY <2>6 DEF ReadsNothing
    <3>2. OwnRead'
      BY <1>i, <2>1, <3>1 DEF OwnRead
    <3> QED
      BY <1>0, <1>e, <1>o, <2>1, <2>2, <2>4, <3>1, <3>2, Answering
  <2>7. CASE reading' = [type |-> Head(cmds).type, from |-> "App"] /\ UNCHANGED <<slot, toGuest>>
    <3>1. reading' = [type |-> outstanding, from |-> "App"] /\ UNCHANGED <<slot, toGuest>>
      BY <2>5, <2>7
    <3>2. ~(slot # NoRequest /\ slot.who = "self")
      BY <1>i, <2>1 DEF OwnRead
    <3> QED
      BY <1>o, <1>a, <1>i, <2>1, <2>2, <2>4, <3>1, <3>2 DEF RenderInv, OneAnswer, OwnRead
  <2>8. CASE ReadWinClipboard("self", Head(cmds).type)
    <3>1. ReadWinClipboard("self", outstanding)
      BY <2>5, <2>8
    <3>2. ~(slot # NoRequest /\ slot.who = "self")
      BY <1>i, <2>1 DEF OwnRead
    <3>3. /\ slot'.who = "self" /\ slot'.type = outstanding
          /\ toGuest' = Append(toGuest, Request(outstanding))
          /\ reading' = [type |-> outstanding, from |-> "Ours"]
          /\ slot' \in LinuxRequest /\ reading' \in LinuxRead
      <4>1. /\ slot' = [who |-> "self", type |-> outstanding, mixed |-> Unanswered]
            /\ toGuest' = Append(toGuest, Request(outstanding))
            /\ reading' = [type |-> outstanding, from |-> "Ours"]
        BY <3>1, <3>2 DEF ReadWinClipboard
      <4>2. Unanswered \in BOOLEAN
        BY DEF Unanswered
      <4> QED
        BY <2>5, <4>1, <4>2 DEF LinuxRequest, LinuxRead
    <3>4. slot' # NoRequest /\ reading' # NoRead
      BY <3>3, PlacesAssumption
    <3>5. OwnRead'
      BY <3>3, <3>4 DEF OwnRead
    <3> QED
      BY <1>o, <1>a, <1>i, <1>r, <2>1, <2>2, <2>4, <2>5, <3>3, <3>4, <3>5 DEF RenderInv, OneAnswer
  <2> QED
    BY <1>8, <2>6, <2>7, <2>8, ReadsCases
<1>9. CASE LinuxCopies
  <2>1. UNCHANGED <<toGuest, toHost, slot, reads, cmds, reading>>
    BY <1>9 DEF LinuxCopies
  <2> QED
    BY <1>o, <1>a, <1>i, <2>1 DEF RenderInv, OneAnswer, OwnRead
<1>10. ASSUME NEW t \in Types, LinuxPastes(t) PROVE RenderInv'
  <2>1. ReadWinClipboard("app", t) /\ UNCHANGED <<toHost, reads, cmds>>
    BY <1>10 DEF LinuxPastes
  <2>2. slot' \in LinuxRequest /\ slot'.who = "app"
    BY <2>1 DEF ReadWinClipboard, LinuxRequest, Unanswered
  <2>3. CASE slot # NoRequest /\ slot.who = "self"
    <3>1. /\ toGuest' = Append(Append(toGuest, Request(t)), Contents(Empty, FALSE))
          /\ reading' = NoRead
      BY <2>1, <2>3 DEF ReadWinClipboard
    <3>2. reading # NoRead
      BY <1>i, <2>3 DEF OwnRead
    <3>3. reads = <<>> /\ ~Has(toHost, "Request") /\ ~Has(cmds, "Request")
          /\ ~Has(toGuest, "Contents") /\ outstanding # NoType
      BY <1>i, <3>2 DEF OneAnswer
    <3>4. ~Has(Append(toGuest, Request(t)), "Contents") /\ Append(toGuest, Request(t)) \in Seq(Message)
      BY <1>r, <3>3
    <3>5. OwnRead'
      BY <2>2, <3>1 DEF OwnRead
    <3> QED
      BY <1>e, <1>o, <2>1, <3>1, <3>3, <3>4, <3>5, Answering
  <2>4. CASE ~(slot # NoRequest /\ slot.who = "self")
    <3>1. toGuest' = Append(toGuest, Request(t)) /\ reading' = reading
      BY <2>1, <2>4 DEF ReadWinClipboard
    <3>2. OwnRead'
      BY <1>i, <2>2, <2>4, <3>1 DEF OwnRead
    <3> QED
      BY <1>o, <1>a, <1>i, <1>r, <2>1, <3>1, <3>2 DEF RenderInv, OneAnswer
  <2> QED
    BY <2>3, <2>4
<1>12. CASE SelectionArrives
  BY <1>12, <1>o, <1>a, <1>i DEF SelectionArrives, RenderInv, OneAnswer, OwnRead
<1>11. CASE LinuxAnswers
  <2>1. PICK d \in {reading.type, Empty} : toGuest' = Append(toGuest, Contents(d, FALSE))
    BY <1>11 DEF LinuxAnswers
  <2>2. reading # NoRead /\ reading.from = "App" /\ reading' = NoRead
        /\ UNCHANGED <<toHost, slot, reads, cmds>>
    BY <1>11 DEF LinuxAnswers
  <2>3. reads = <<>> /\ ~Has(toHost, "Request") /\ ~Has(cmds, "Request")
        /\ ~Has(toGuest, "Contents") /\ outstanding # NoType
    BY <1>i, <2>2 DEF OneAnswer
  <2>4. d \in {outstanding, Empty} /\ outstanding \in Types
    BY <1>0, <1>i, <2>1, <2>2, <2>3
  <2>5. Contents(d, FALSE) \in Message /\ Contents(d, FALSE) \in Answers
    BY <2>4 DEF Contents, Message, Answers
  <2>6. OwnRead'
    BY <1>i, <2>2 DEF OwnRead
  <2> QED
    BY <1>0, <1>o, <2>1, <2>2, <2>3, <2>5, <2>6, Answering
<1> QED
  BY <1>1, <1>2, <1>3, <1>4, <1>5, <1>6, <1>7, <1>8, <1>9, <1>10, <1>11, <1>12
     DEF RelayNext, LinuxNext

\* What is under way for a rendering is for the one that is outstanding.
THEOREM RenderingsInvariant == ClipboardSpec => []RenderInv
<1>1. ClipboardInit => RenderInv
  BY DEF ClipboardInit, GuestInit, RenderInv, Only, Once, Has, OneAnswer, OwnRead
<1>2. ClipboardTypeOK /\ AnswerInv /\ RenderInv /\ [ClipboardNext]_clipVars => RenderInv'
  <2> SUFFICES ASSUME ClipboardTypeOK, AnswerInv, RenderInv, [ClipboardNext]_clipVars
               PROVE  RenderInv'
    OBVIOUS
  <2>1. CASE UNCHANGED clipVars
    BY <2>1 DEF RenderInv, Only, Once, Has, OneAnswer, OwnRead, Asks, Answers
  <2> QED
    BY <2>1, GuestRenderStep, HostRenderStep DEF ClipboardNext
<1> QED
  BY <1>1, <1>2, ClipboardTypeCorrect, AnswerInvariant, PTL DEF ClipboardSpec

\* On its way to the window thread an answer is that of the rendering.
HeldFits == answer # NoAnswer => answer.mixed \/ answer.type \in {wanted, Empty}

LEMMA HeldStep ==
    ASSUME ClipboardTypeOK, RenderInv, HeldFits, [ClipboardNext]_clipVars
    PROVE  HeldFits'
<1>1. CASE ContentsArrive
  <2>1. CASE outstanding = NoType
    BY <1>1, <2>1 DEF ContentsArrive, HeldFits
  <2>2. CASE outstanding # NoType
    <3>1. outstanding = wanted /\ toGuest \in Seq(Message)
      BY <2>2 DEF ClipboardTypeOK, GuestTypeOK
    <3>2. toGuest # <<>> /\ Head(toGuest).kind = "Contents"
      BY <1>1 DEF ContentsArrive, MainReads
    <3>3. Head(toGuest) \in Answers
      BY <3>1, <3>2, OnlyTail DEF RenderInv
    <3>4. /\ answer' = AnswerAt("task", Head(toGuest).type, Head(toGuest).mixed)
          /\ UNCHANGED wanted
      BY <1>1, <2>2 DEF ContentsArrive
    <3> QED
      BY <3>1, <3>3, <3>4 DEF Answers, AnswerAt, HeldFits
  <2> QED
    BY <2>1, <2>2
<1>2. CASE RendererAnswers
  <2>1. answer \in HeldAnswer
    BY <1>2 DEF RendererAnswers, ClipboardTypeOK, GuestTypeOK, NoAnswer
  <2> QED
    BY <1>2, <2>1 DEF RendererAnswers, HeldFits, HeldAnswer, NoAnswer
<1>3. CASE RenderEnds
  BY <1>3 DEF RenderEnds, HeldFits
<1>4. CASE RenderBegins
  BY <1>4 DEF RenderBegins, HeldFits, ClipboardTypeOK, GuestTypeOK
<1>5. CASE UNCHANGED <<answer, wanted>>
  BY <1>5 DEF HeldFits
<1>6. ASSUME GuestNext, ~ContentsArrive, ~RendererAnswers, ~RenderEnds, ~RenderBegins
      PROVE  UNCHANGED <<answer, wanted>>
  BY <1>6 DEF GuestNext, WindowNext, MainNext, UserNext, UpdateBegins, UpdateEnds, Destroy,
       Announces, RendererAsks, GrabBegins, GrabOpens, GrabEnds, RequestBegins,
       RequestAnswered, RequestAsksItself, WindowsTimesOut, AppCopies, AppPastes
<1> QED
  BY <1>1, <1>2, <1>3, <1>4, <1>5, <1>6, HostKeepsGuest DEF ClipboardNext

\* Every rendering in Windows ends with the answer to its own request, and
\* never with one that an earlier rendering has left behind.
THEOREM RenderingsAlwaysFit == ClipboardSpec => RenderFits
<1>1. ClipboardInit => HeldFits
  BY DEF ClipboardInit, GuestInit, HeldFits
<1>2. ClipboardTypeOK /\ RenderInv /\ HeldFits /\ [ClipboardNext]_clipVars => HeldFits'
  BY HeldStep
<1>3. ClipboardTypeOK /\ HeldFits /\ [ClipboardNext]_clipVars =>
        [window = "rendering" /\ window' # "rendering" =>
           /\ answer.at = "window"
           /\ answer.type \in {wanted, Empty} \/ answer.mixed]_clipVars
  <2> SUFFICES ASSUME ClipboardTypeOK, HeldFits, ClipboardNext,
                      window = "rendering", window' # "rendering"
               PROVE  /\ answer.at = "window"
                      /\ answer.type \in {wanted, Empty} \/ answer.mixed
    OBVIOUS
  <2>1. GuestNext
    BY HostKeepsGuest DEF ClipboardNext
  <2>2. RenderEnds
    BY <2>1 DEF GuestNext, WindowNext, MainNext, UserNext, UpdateBegins, UpdateEnds, Destroy,
         RenderBegins, Announces, RendererAsks, RendererAnswers, GrabBegins, GrabOpens, GrabEnds,
         RequestBegins, RequestAnswered, RequestAsksItself, ContentsArrive, WindowsTimesOut,
         AppCopies, AppPastes
  <2>3. answer.at = "window" /\ answer # NoAnswer
    BY <2>2 DEF RenderEnds, NoAnswer
  <2> QED
    BY <2>3 DEF HeldFits
<1> QED
  BY <1>1, <1>2, <1>3, ClipboardTypeCorrect, RenderingsInvariant, PTL DEF ClipboardSpec, RenderFits

-----------------------------------------------------------------------------
(* What is asked for stays under way                                       *)

\* A request of Linux in the place, and a rendering that has been asked
\* for, are where somebody will come across them.
SlotAwaited ==
    slot # NoRequest =>
        \/ Has(toGuest, "Request")
        \/ main \in {"open", "get"}
        \/ Has(toHost, "Contents")

RenderAwaited ==
    outstanding # NoType =>
        \/ Has(toHost, "Request")
        \/ reads # <<>>
        \/ Has(cmds, "Request")
        \/ reading # NoRead
        \/ Has(toGuest, "Contents")

AwaitedInv == SlotAwaited /\ RenderAwaited

\* Reading a message takes no message of another kind away.
LEMMA HasTailStays ==
    ASSUME NEW p \in Seq(Message), p # <<>>, NEW kind, Has(p, kind), Head(p).kind # kind
    PROVE  Has(Tail(p), kind)
<1>1. PICK i \in DOMAIN p : p[i].kind = kind
  BY DEF Has
<1>2. i \in 1 .. Len(p) /\ i # 1
  BY <1>1
<1>3. i - 1 \in DOMAIN Tail(p) /\ Tail(p)[i - 1] = p[i]
  BY <1>2, HeadTailProperties
<1> QED
  BY <1>1, <1>3 DEF Has

\* Whoever asked in GetClipboardData, the host gets its answer.
LEMMA AskerAnswers ==
    ASSUME ClipboardTypeOK, Holding, AskerGets(Empty)
    PROVE  \/ main' \in {"open", "get"} /\ UNCHANGED <<main, toHost>>
           \/ main \notin {"open", "get"} /\ UNCHANGED <<main, toHost>>
           \/ Has(toHost', "Contents")
BY SendsContents DEF AskerGets, Holding, ClipboardTypeOK, GuestTypeOK

LEMMA GuestSlotStep ==
    ASSUME ClipboardTypeOK, GuestInv, SlotAwaited, GuestNext, UNCHANGED hostVars
    PROVE  SlotAwaited'
<1> USE DEF SlotAwaited
<1>0. toHost \in Seq(Message) /\ toGuest \in Seq(Message) /\ UNCHANGED slot
  BY DEF ClipboardTypeOK, GuestTypeOK, hostVars
<1>1. CASE UpdateBegins \/ UpdateEnds \/ Destroy
  BY <1>0, <1>1 DEF UpdateBegins, UpdateEnds, Destroy
<1>2. CASE RenderBegins
  <2>1. AskerGets(Empty) \/ UNCHANGED <<main, toHost>>
    BY <1>2 DEF RenderBegins
  <2>2. UNCHANGED toGuest
    BY <1>2 DEF RenderBegins
  <2> QED
    BY <1>0, <2>1, <2>2, AskerAnswers DEF GuestInv
<1>3. CASE WindowsTimesOut
  <2>1. AskerGets(Empty) /\ UNCHANGED toGuest
    BY <1>3 DEF WindowsTimesOut
  <2> QED
    BY <1>0, <2>1, AskerAnswers DEF GuestInv
<1>4. CASE Announces
  BY <1>0, <1>4, SendsGrab DEF Announces
<1>5. CASE RendererAsks
  <2>1. wanted \in Types
    BY <1>5 DEF RendererAsks, ClipboardTypeOK, GuestTypeOK
  <2> QED
    BY <1>0, <1>5, <2>1, SendsRequest DEF RendererAsks
<1>6. CASE GrabBegins
  <2>1. Has(toGuest, "Request") => Has(toGuest', "Request")
    BY <1>0, <1>6, HasTailStays DEF GrabBegins, MainReads
  <2> QED
    BY <1>0, <1>6, <2>1 DEF GrabBegins, MainReads
<1>7. CASE GrabOpens \/ GrabEnds
  BY <1>0, <1>7 DEF GrabOpens, GrabEnds
<1>8. CASE RequestBegins
  <2>1. Has(Append(toHost, Contents(Empty, FALSE)), "Contents")
    BY <1>0, SendsContents
  <2> QED
    BY <1>8, <2>1 DEF RequestBegins, Answer
<1>9. CASE RequestAnswered
  <2>1. \A d \in Types \cup {Empty} : Has(Append(toHost, Contents(d, FALSE)), "Contents")
    BY <1>0, SendsContents
  <2>2. request \in avail => request \in Types
    BY DEF ClipboardTypeOK, GuestTypeOK
  <2> QED
    BY <1>9, <2>1, <2>2 DEF RequestAnswered, Answer
<1>10. CASE RequestAsksItself
  BY <1>10 DEF RequestAsksItself
<1>11. CASE ContentsArrive
  <2>1. Has(toGuest, "Request") => Has(toGuest', "Request")
    BY <1>0, <1>11, HasTailStays DEF ContentsArrive, MainReads
  <2> QED
    BY <1>0, <1>11, <2>1 DEF ContentsArrive
<1>13. CASE RenderEnds \/ RendererAnswers
  BY <1>0, <1>13 DEF RenderEnds, RendererAnswers
<1>12. CASE UserNext
  BY <1>0, <1>12 DEF UserNext, AppCopies, AppPastes
<1> QED
  BY <1>1, <1>2, <1>3, <1>4, <1>5, <1>6, <1>7, <1>8, <1>9, <1>10, <1>11, <1>12, <1>13
     DEF GuestNext, WindowNext, MainNext

\* A request of Linux is on its way from the moment it is made.
LEMMA AskingIsAwaited ==
    ASSUME ClipboardTypeOK, NEW who, NEW t \in Types, ReadWinClipboard(who, t)
    PROVE  Has(toGuest', "Request")
<1>1. toGuest \in Seq(Message)
  BY DEF ClipboardTypeOK, GuestTypeOK
<1>2. Has(Append(toGuest, Request(t)), "Request") /\ Append(toGuest, Request(t)) \in Seq(Message)
  BY <1>1, SendsRequest
<1>3. Has(Append(Append(toGuest, Request(t)), Contents(Empty, FALSE)), "Request")
  BY <1>2, SendsContents
<1> QED
  BY <1>2, <1>3 DEF ReadWinClipboard

\* The driver only adds to what the guest has to read, and takes an answer
\* of the guest only for the request in the place.
LEMMA HostFrame ==
    ASSUME ClipboardTypeOK, RelayNext \/ LinuxNext
    PROVE  /\ Has(toGuest, "Request") => Has(toGuest', "Request")
           /\ Has(toGuest, "Contents") => Has(toGuest', "Contents")
           /\ GuestAnswers \/ (Has(toHost, "Contents") => Has(toHost', "Contents"))
           /\ GuestAsks \/ (Has(toHost, "Request") => Has(toHost', "Request"))
<1>0. toHost \in Seq(Message) /\ toGuest \in Seq(Message)
  BY DEF ClipboardTypeOK, GuestTypeOK
<1>1. ASSUME NEW m \in Message, NEW kind, Has(toGuest, kind)
      PROVE  Append(toGuest, m) \in Seq(Message) /\ Has(Append(toGuest, m), kind)
  BY <1>0, <1>1, HasAppend, PipeGrows
<1>2. ASSUME NEW m \in Message, NEW n \in Message, NEW kind, Has(toGuest, kind)
      PROVE  Has(Append(Append(toGuest, m), n), kind)
  BY <1>1, <1>2, HasAppend
<1>m. /\ Grab \in Message
      /\ \A t \in Types : Request(t) \in Message
      /\ \A d \in Types \cup {Empty}, b \in BOOLEAN : Contents(d, b) \in Message
  BY DEF Grab, Request, Contents, Message
<1>3. CASE SelectionArrives \/ Listens \/ ForwardsGrab \/ ForwardsRead \/ Claims \/ LinuxCopies
  BY <1>1, <1>3, <1>m DEF SelectionArrives, Listens, ForwardsGrab, ForwardsRead, Claims, Handles, LinuxCopies
<1>4. ASSUME NEW kind \in {"Grab", "Request", "Contents"}, HostReads(kind),
             NEW other, other # kind, Has(toHost, other)
      PROVE  Has(toHost', other)
  BY <1>0, <1>4, HasTailStays DEF HostReads
<1>5. CASE GuestGrabs
  BY <1>4, <1>5 DEF GuestGrabs
<1>6. CASE GuestAsks
  BY <1>4, <1>6 DEF GuestAsks
<1>7. CASE GuestAnswers
  <2>1. Head(toHost).type \in Types \cup {Empty}
    BY <1>0, <1>7, PipeShrinks, MessageType DEF GuestAnswers, HostReads
  <2>2. slot # NoRequest => slot.mixed \in BOOLEAN
    BY DEF ClipboardTypeOK, LinuxRequest
  <2> QED
    BY <1>1, <1>4, <1>7, <1>m, <2>1, <2>2 DEF GuestAnswers
<1>8. ASSUME NEW who, NEW t \in Types, ReadWinClipboard(who, t), UNCHANGED toHost
      PROVE  /\ Has(toGuest, "Request") => Has(toGuest', "Request")
             /\ Has(toGuest, "Contents") => Has(toGuest', "Contents")
  BY <1>1, <1>2, <1>8, <1>m, ReadSends
<1>9. CASE Reads
  <2>1. Head(cmds).type \in Types /\ UNCHANGED toHost
    BY <1>9, ReadsCases DEF Reads, Handles
  <2> QED
    BY <1>1, <1>8, <1>9, <1>m, <2>1, ReadsCases DEF ReadsNothing, GuestAsks, HostReads
<1>10. ASSUME NEW t \in Types, LinuxPastes(t)
       PROVE  /\ Has(toGuest, "Request") => Has(toGuest', "Request")
              /\ Has(toGuest, "Contents") => Has(toGuest', "Contents")
              /\ UNCHANGED toHost
  BY <1>8, <1>10 DEF LinuxPastes
<1>11. CASE LinuxAnswers
  <2>1. reading.type \in Types
    BY <1>11 DEF LinuxAnswers, ClipboardTypeOK, LinuxRead
  <2> QED
    BY <1>1, <1>11, <1>m, <2>1 DEF LinuxAnswers
<1> QED
  BY <1>3, <1>5, <1>6, <1>7, <1>9, <1>10, <1>11 DEF RelayNext, LinuxNext

LEMMA HostSlotStep ==
    ASSUME ClipboardTypeOK, SlotAwaited, RelayNext \/ LinuxNext
    PROVE  SlotAwaited'
<1>1. UNCHANGED main
  BY HostKeepsGuest
<1>2. CASE GuestAnswers
  BY <1>2 DEF GuestAnswers, SlotAwaited
<1>3. CASE ~GuestAnswers /\ UNCHANGED slot
  BY <1>1, <1>3, HostFrame DEF SlotAwaited
<1>4. ASSUME NEW who \in {"app", "self"}, NEW u \in Types, ReadWinClipboard(who, u)
      PROVE  SlotAwaited'
  BY <1>4, AskingIsAwaited DEF SlotAwaited
<1> QED
  BY <1>2, <1>3, <1>4, SlotCases

LEMMA GuestAwaitedStep ==
    ASSUME ClipboardTypeOK, RenderAwaited, GuestNext, UNCHANGED hostVars
    PROVE  RenderAwaited'
<1>0. /\ toHost \in Seq(Message) /\ toGuest \in Seq(Message)
      /\ UNCHANGED <<reads, cmds, reading>>
  BY DEF ClipboardTypeOK, GuestTypeOK, hostVars
<1>1. CASE RendererAsks
  <2>1. wanted \in Types
    BY <1>1 DEF RendererAsks, ClipboardTypeOK, GuestTypeOK
  <2> QED
    BY <1>0, <1>1, <2>1, SendsRequest DEF RendererAsks, RenderAwaited
<1>2. CASE ContentsArrive
  BY <1>2 DEF ContentsArrive, RenderAwaited
<1>3. CASE ~RendererAsks /\ ~ContentsArrive
  <2>1. Has(toGuest, "Contents") => Has(toGuest', "Contents")
    BY <1>0, <1>3, GuestFrame, HasTailStays
  <2>2. Has(toHost, "Request") => Has(toHost', "Request")
    BY <1>0, <1>3, GuestFrame, SendsGrab, SendsContents
  <2> QED
    BY <1>0, <1>3, <2>1, <2>2, GuestFrame DEF RenderAwaited
<1> QED
  BY <1>1, <1>2, <1>3

\* The command handler that asks the driver itself waits for that, unless
\* the place was its own before.
LEMMA ReadIsAwaited ==
    ASSUME ClipboardTypeOK, NEW who, NEW t \in Types, ReadWinClipboard(who, t)
    PROVE  \/ Has(toGuest', "Contents")
           \/ who = "self" /\ reading' # NoRead
           \/ who # "self" /\ UNCHANGED reading
<1>1. toGuest \in Seq(Message)
  BY DEF ClipboardTypeOK, GuestTypeOK
<1>2. Append(toGuest, Request(t)) \in Seq(Message)
  BY <1>1, SendsRequest
<1>3. Has(Append(Append(toGuest, Request(t)), Contents(Empty, FALSE)), "Contents")
  BY <1>2, SendsContents
<1>4. [type |-> t, from |-> "Ours"] # NoRead
  BY PlacesAssumption DEF LinuxRead
<1> QED
  BY <1>3, <1>4 DEF ReadWinClipboard

LEMMA HostAwaitedStep ==
    ASSUME ClipboardTypeOK, RenderAwaited, RelayNext \/ LinuxNext
    PROVE  RenderAwaited'
<1> USE DEF RenderAwaited
<1>0. /\ toHost \in Seq(Message) /\ toGuest \in Seq(Message) /\ cmds \in Seq(Message)
      /\ reads \in Seq(Types) /\ UNCHANGED outstanding
  BY HostKeepsGuest DEF ClipboardTypeOK, GuestTypeOK
<1>1. CASE UNCHANGED <<reads, cmds, reading>> /\ ~GuestAsks
  BY <1>0, <1>1, HostFrame
<1>2. CASE GuestAsks
  <2>1. reads' = Append(reads, Head(toHost).type)
    BY <1>2 DEF GuestAsks
  <2>2. Head(toHost).type \in Types
    BY <1>0, <1>2, PipeShrinks, MessageType DEF GuestAsks, HostReads
  <2>3. reads' # <<>>
    BY <1>0, <2>1, <2>2, AppendProperties
  <2> QED
    BY <2>3
<1>3. CASE GuestAnswers
  <2>1. CASE slot # NoRequest /\ slot.who = "self"
    <3>1. toGuest' = Append(toGuest, Contents(Head(toHost).type, slot.mixed))
      BY <1>3, <2>1 DEF GuestAnswers
    <3>2. Head(toHost).type \in Types \cup {Empty}
      BY <1>0, <1>3, PipeShrinks, MessageType DEF GuestAnswers, HostReads
    <3>3. slot.mixed \in BOOLEAN
      BY <2>1 DEF ClipboardTypeOK, LinuxRequest
    <3>4. /\ Contents(Head(toHost).type, slot.mixed) \in Message
          /\ Contents(Head(toHost).type, slot.mixed).kind = "Contents"
      BY <3>2, <3>3 DEF Contents, Message
    <3> QED
      BY <1>0, <3>1, <3>4, HasAppend
  <2>2. CASE ~(slot # NoRequest /\ slot.who = "self")
    <3>1. UNCHANGED <<reads, cmds, reading>> /\ ~GuestAsks
      BY <1>3, <2>2 DEF GuestAnswers, HostReads, GuestAsks
    <3> QED
      BY <1>1, <3>1
  <2> QED
    BY <2>1, <2>2
<1>4. CASE ForwardsGrab
  <2>1. Has(cmds', "Request") <=> Has(cmds, "Request")
    BY <1>0, <1>4, SendsGrab DEF ForwardsGrab
  <2> QED
    BY <1>0, <1>4, <2>1 DEF ForwardsGrab
<1>5. CASE ForwardsRead
  <2>1. Head(reads) \in Types
    BY <1>0, <1>5 DEF ForwardsRead
  <2>2. Has(cmds', "Request")
    BY <1>0, <1>5, <2>1, SendsRequest DEF ForwardsRead
  <2> QED
    BY <2>2
<1>6. CASE Claims
  <2>1. Has(cmds, "Request") => Has(cmds', "Request")
    BY <1>0, <1>6, HasTailStays DEF Claims, Handles
  <2> QED
    BY <1>0, <1>6, <2>1 DEF Claims, Handles
<1>7. CASE Reads
  <2>1. Head(cmds).type \in Types
    BY <1>7, ReadsCases
  <2>2. Has(Append(toGuest, Contents(Empty, FALSE)), "Contents")
    BY <1>0, SendsContents
  <2>3. [type |-> Head(cmds).type, from |-> "App"] # NoRead
    BY <2>1, PlacesAssumption DEF LinuxRead
  <2>4. Has(toGuest', "Contents") \/ reading' # NoRead
    BY <1>7, <2>1, <2>2, <2>3, ReadIsAwaited, ReadsCases DEF ReadsNothing
  <2> QED
    BY <2>4
<1>8. ASSUME NEW t \in Types, LinuxPastes(t) PROVE RenderAwaited'
  <2>1. ReadWinClipboard("app", t) /\ UNCHANGED <<toHost, reads, cmds>>
    BY <1>8 DEF LinuxPastes
  <2>2. Has(toGuest', "Contents") \/ UNCHANGED reading
    BY <2>1, ReadIsAwaited
  <2> QED
    BY <1>0, <2>1, <2>2, HostFrame
<1>9. CASE LinuxAnswers
  <2>1. reading.type \in Types
    BY <1>9 DEF LinuxAnswers, ClipboardTypeOK, LinuxRead
  <2>2. Has(toGuest', "Contents")
    BY <1>0, <1>9, <2>1, SendsContents DEF LinuxAnswers
  <2> QED
    BY <2>2
<1>10. CASE SelectionArrives \/ Listens \/ GuestGrabs \/ LinuxCopies
  <2>1. UNCHANGED <<reads, cmds, reading>>
    BY <1>10 DEF SelectionArrives, Listens, GuestGrabs, HostReads, LinuxCopies
  <2> QED
    BY <1>1, <1>2, <2>1
<1> QED
  BY <1>2, <1>3, <1>4, <1>5, <1>6, <1>7, <1>8, <1>9, <1>10 DEF RelayNext, LinuxNext

\* Whatever Linux or Windows asks the other side for stays on its way until
\* it is answered, however requests and timeouts overtake each other.
THEOREM NothingLost == ClipboardSpec => []AwaitedInv
<1>1. ClipboardInit => AwaitedInv
  BY DEF ClipboardInit, GuestInit, AwaitedInv, SlotAwaited, RenderAwaited
<1>2. ClipboardTypeOK /\ GuestInv /\ AwaitedInv /\ [ClipboardNext]_clipVars => AwaitedInv'
  <2> SUFFICES ASSUME ClipboardTypeOK, GuestInv, AwaitedInv, [ClipboardNext]_clipVars
               PROVE  AwaitedInv'
    OBVIOUS
  <2>1. CASE GuestNext /\ UNCHANGED hostVars
    BY <2>1, GuestSlotStep, GuestAwaitedStep DEF AwaitedInv
  <2>2. CASE RelayNext \/ LinuxNext
    BY <2>2, HostSlotStep, HostAwaitedStep DEF AwaitedInv
  <2>3. CASE UNCHANGED clipVars
    BY <2>3 DEF AwaitedInv, SlotAwaited, RenderAwaited, Has, clipVars, guestVars, hostVars,
         mainVars, pipeVars
  <2> QED
    BY <2>1, <2>2, <2>3 DEF ClipboardNext
<1> QED
  BY <1>1, <1>2, ClipboardTypeCorrect, GuestInvariant, PTL DEF ClipboardSpec

-----------------------------------------------------------------------------
(* Standstill                                                              *)

\* No thread or task of either side has anything to do, no application is
\* to answer and nobody is to lose patience: the guards of the actions of
\* ClipboardFairness.
NothingToDo ==
    /\ asked = NoType
    /\ window = "idle" => ~update /\ ~destroy
    /\ window = "updating" => holder # "none"
    /\ answer.at # "window"
    /\ main = "idle" =>
         /\ toGuest = <<>>
         /\ ~changed
         /\ window = "rendering" => outstanding # NoType \/ answer # NoAnswer
         /\ answer.at # "task"
    /\ main \in {"grab", "open"} => holder # "none"
    /\ main = "lock" => window = "rendering"
    /\ toHost = <<>>
    /\ coming = <<>> /\ ~selChanged
    /\ grabs = 0
    /\ reads = <<>>
    /\ reading = NoRead => cmds = <<>>
    /\ reading # NoRead => reading.from # "App"

\* The threads, the tasks and the relay stand still only if there is
\* nothing left to be answered, or in the one deadlock that is known: the
\* mutex of the renderers taken with the clipboard open.
THEOREM StandsStillOnlyAtRest == ClipboardSpec => [](NothingToDo => Quiet \/ Hung)
<1>1. ClipboardTypeOK /\ GuestInv /\ AwaitedInv /\ RenderInv =>
        (NothingToDo => Quiet \/ Hung)
  <2> SUFFICES ASSUME ClipboardTypeOK, GuestInv, AwaitedInv, RenderInv, NothingToDo, ~Hung
               PROVE  Quiet
    OBVIOUS
  <2>1. holder = "none" /\ main = "idle"
    BY DEF NothingToDo, GuestInv, Holding, Hung, ClipboardTypeOK, GuestTypeOK
  <2>2. toGuest = <<>> /\ toHost = <<>> /\ reads = <<>>
    BY <2>1 DEF NothingToDo
  <2>3. \A kind : ~Has(<<>>, kind)
    BY DEF Has
  <2>4. slot = NoRequest
    BY <2>1, <2>2, <2>3 DEF AwaitedInv, SlotAwaited
  <2>5. reading = NoRead /\ cmds = <<>>
    BY <2>4 DEF NothingToDo, RenderInv, OwnRead, ClipboardTypeOK, LinuxRead
  <2>6. outstanding = NoType
    BY <2>2, <2>3, <2>5 DEF AwaitedInv, RenderAwaited
  <2>7. window = "idle"
    BY <2>1, <2>6 DEF NothingToDo, ClipboardTypeOK, GuestTypeOK, HeldAnswer
  <2> QED
    BY <2>1, <2>2, <2>4, <2>5, <2>7 DEF NothingToDo, Quiet
<1>2. ClipboardSpec => []RenderInv
  BY RenderingsInvariant
<1> QED
  BY <1>1, <1>2, ClipboardTypeCorrect, GuestInvariant, NothingLost, PTL

\* The deadlock needs a rendering that Windows has given up on: as long as
\* Windows waits, its clipboard is open and the main thread cannot open it.
THEOREM HangsOnlyAfterTimeout == ClipboardSpec => [](Hung => ~taken /\ asked = NoType)
<1>1. ClipboardTypeOK /\ GuestInv => (Hung => ~taken /\ asked = NoType)
  BY TypesAssumption DEF GuestInv, Holding, Hung, ClipboardTypeOK, GuestTypeOK
<1> QED
  BY <1>1, ClipboardTypeCorrect, GuestInvariant, PTL

\* Once it is there, nothing ends it: neither Windows nor the host nor any
\* task of the agent.
THEOREM HangIsForever == ClipboardSpec => [][Hung => Hung']_clipVars
<1>1. ClipboardTypeOK /\ GuestInv /\ [ClipboardNext]_clipVars => [Hung => Hung']_clipVars
  <2> SUFFICES ASSUME ClipboardTypeOK, GuestInv, ClipboardNext, Hung
               PROVE  Hung'
    OBVIOUS
  <2>1. main = "lock" /\ window = "rendering" /\ asked = NoType /\ answer.at # "window"
    BY DEF GuestInv, Holding, Hung, ClipboardTypeOK, GuestTypeOK
  <2>2. CASE GuestNext
    BY <2>1, <2>2 DEF Hung, GuestNext, WindowNext, MainNext, UserNext, UpdateBegins, UpdateEnds,
       Destroy, RenderBegins, RenderEnds, Announces, RendererAsks, RendererAnswers, GrabBegins,
       MainReads, GrabOpens, GrabEnds,
       RequestBegins, RequestAnswered, RequestAsksItself, ContentsArrive, WindowsTimesOut,
       AppCopies, AppPastes
  <2>3. CASE RelayNext \/ LinuxNext
    BY <2>1, <2>3, HostKeepsGuest DEF Hung
  <2> QED
    BY <2>2, <2>3 DEF ClipboardNext
<1> QED
  BY <1>1, ClipboardTypeCorrect, GuestInvariant, PTL DEF ClipboardSpec
=============================================================================
