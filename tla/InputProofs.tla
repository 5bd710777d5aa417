----------------------------- MODULE InputProofs -----------------------------
(***************************************************************************)
(* Keys and buttons for any keyboard, any hotkeys and any number of events *)
(* on their way: the last event of a key that is in one of the queues says *)
(* what becomes of it, and that is what the user does with it.             *)
(***************************************************************************)
EXTENDS Input, ControllerProofs, FiniteSetTheorems

\* The composition implements the controller's specification.
THEOREM InputImplementsController == InputSpec => Spec
<1>1. ASSUME [InputNext]_allVars PROVE [Next]_vars
  <2>1. CASE ListenerNext
    BY <2>1 DEF ListenerNext, Flush, Press, Release, Listen, HasRoom
  <2>2. CASE HandleInput \/ Execute
    BY <2>2 DEF HandleInput, Execute
  <2>3. CASE CallHotkey
    <3>1. PICK i \in hotkeys : Hotkey(Bindings[i].action)
      BY <2>3 DEF CallHotkey
    <3>2. Bindings[i].action \in HotKeyAction \/ NoOp
      BY <3>1 DEF Hotkey, HotKeyAction
    <3> QED
      BY <3>1, <3>2 DEF Next, AgentNext, Hotkey, HotKeyAction
  <2>4. CASE OthersNext
    BY <2>4 DEF OthersNext
  <2> QED
    BY <1>1, <2>1, <2>2, <2>3, <2>4 DEF InputNext, allVars
<1>2. Init /\ InputInit => Init
  OBVIOUS
<1> QED
  BY <1>1, <1>2, PTL DEF InputSpec, Spec

-----------------------------------------------------------------------------
(* What a queue of events makes of a key                                   *)

Concerns(e, k) == e.code = k \/ (e = ReleaseAllKeys /\ k \in Keys)

\* k is down after the events of q if b says that it was before.
DownAfter(q, k, b) ==
    \/ b /\ \A i \in DOMAIN q : ~Concerns(q[i], k)
    \/ \E i \in DOMAIN q :
         /\ Concerns(q[i], k) /\ q[i].down
         /\ \A j \in DOMAIN q : j > i => ~Concerns(q[j], k)

Command == Event \cup {ReleaseAllKeys}

LEMMA EmptyQueue == ASSUME NEW k, NEW b PROVE DownAfter(<<>>, k, b) <=> b
BY DEF DownAfter

LEMMA AppendToQueue ==
    ASSUME NEW q \in Seq(Command), NEW e \in Command, NEW k, NEW b
    PROVE  DownAfter(Append(q, e), k, b) <=>
             IF Concerns(e, k) THEN e.down ELSE DownAfter(q, k, b)
<1> DEFINE r == Append(q, e)
           n == Len(q) + 1
<1>1. DOMAIN r = 1..n /\ DOMAIN q = 1..Len(q) /\ r[n] = e /\ n \in Nat
  OBVIOUS
<1>2. \A i \in DOMAIN q : r[i] = q[i] /\ i # n
  OBVIOUS
<1>3. \A i \in DOMAIN r : i \in DOMAIN q \/ i = n
  BY <1>1
<1>4. n \in DOMAIN r /\ (\A i \in DOMAIN q : i \in DOMAIN r /\ i < n)
  BY <1>1
<1> HIDE DEF r, n
<1>5. CASE Concerns(e, k)
  <2>1. ~\A i \in DOMAIN r : ~Concerns(r[i], k)
    BY <1>1, <1>4, <1>5
  <2>2. ASSUME e.down PROVE DownAfter(r, k, b)
    <3>1. \A j \in DOMAIN r : ~(j > n)
      BY <1>1
    <3> QED
      BY <1>1, <1>4, <1>5, <2>2, <3>1 DEF DownAfter
  <2>3. ASSUME DownAfter(r, k, b) PROVE e.down
    <3>1. PICK i \in DOMAIN r : Concerns(r[i], k) /\ r[i].down
                                /\ \A j \in DOMAIN r : j > i => ~Concerns(r[j], k)
      BY <2>1, <2>3 DEF DownAfter
    <3>2. i = n
      BY <1>1, <1>3, <1>4, <1>5, <3>1
    <3> QED
      BY <1>1, <3>1, <3>2
  <2> QED
    BY <1>5, <2>2, <2>3 DEF r
<1>6. CASE ~Concerns(e, k)
  <2>1. (\A i \in DOMAIN r : ~Concerns(r[i], k)) <=> (\A i \in DOMAIN q : ~Concerns(q[i], k))
    BY <1>1, <1>2, <1>3, <1>4, <1>6
  <2>2. ASSUME NEW i \in DOMAIN q
        PROVE  (\A j \in DOMAIN r : j > i => ~Concerns(r[j], k)) <=>
               (\A j \in DOMAIN q : j > i => ~Concerns(q[j], k))
    BY <1>1, <1>2, <1>3, <1>4, <1>6
  <2>3. DownAfter(r, k, b) <=> DownAfter(q, k, b)
    BY <1>1, <1>2, <1>3, <1>4, <1>6, <2>1, <2>2 DEF DownAfter
  <2> QED
    BY <1>6, <2>3 DEF r
<1> QED
  BY <1>5, <1>6

LEMMA TailOfQueue ==
    ASSUME NEW q \in Seq(Command), q # <<>>, NEW k, NEW b
    PROVE  DownAfter(q, k, b) <=>
             DownAfter(Tail(q), k, IF Concerns(Head(q), k) THEN Head(q).down ELSE b)
<1> DEFINE t == Tail(q)
           e == Head(q)
<1>1. DOMAIN q = 1..Len(q) /\ DOMAIN t = 1..(Len(q) - 1) /\ Len(q) \in Nat /\ Len(q) >= 1 /\ q[1] = e
  OBVIOUS
<1>2. \A i \in DOMAIN t : t[i] = q[i + 1] /\ i + 1 \in DOMAIN q /\ i + 1 > 1
  BY <1>1
<1>3. \A i \in DOMAIN q : i = 1 \/ (i - 1 \in DOMAIN t /\ t[i - 1] = q[i])
  BY <1>1
<1> HIDE DEF t, e
<1>4. (\A j \in DOMAIN q : j > 1 => ~Concerns(q[j], k)) <=> (\A j \in DOMAIN t : ~Concerns(t[j], k))
  BY <1>1, <1>2, <1>3
<1>5. ASSUME NEW i \in DOMAIN t
      PROVE  (\A j \in DOMAIN q : j > i + 1 => ~Concerns(q[j], k)) <=>
             (\A j \in DOMAIN t : j > i => ~Concerns(t[j], k))
  <2>1. ASSUME \A j \in DOMAIN q : j > i + 1 => ~Concerns(q[j], k), NEW j \in DOMAIN t, j > i
        PROVE  ~Concerns(t[j], k)
    BY <1>1, <1>2, <2>1
  <2>2. ASSUME \A j \in DOMAIN t : j > i => ~Concerns(t[j], k), NEW j \in DOMAIN q, j > i + 1
        PROVE  ~Concerns(q[j], k)
    <3>1. j - 1 \in DOMAIN t /\ t[j - 1] = q[j] /\ j - 1 > i
      BY <1>1, <1>3, <2>2
    <3> QED
      BY <2>2, <3>1
  <2> QED
    BY <2>1, <2>2
<1>6. (\A j \in DOMAIN q : ~Concerns(q[j], k)) <=>
        ~Concerns(e, k) /\ \A j \in DOMAIN t : ~Concerns(t[j], k)
  BY <1>1, <1>2, <1>3
<1> DEFINE LastPress(s, i) == Concerns(s[i], k) /\ s[i].down /\ \A j \in DOMAIN s : j > i => ~Concerns(s[j], k)
<1>7. LastPress(q, 1) <=> Concerns(e, k) /\ e.down /\ \A j \in DOMAIN t : ~Concerns(t[j], k)
  BY <1>1, <1>4
<1>8. \A i \in DOMAIN t : LastPress(t, i) <=> LastPress(q, i + 1)
  BY <1>2, <1>5
<1>9. (\E i \in DOMAIN q : LastPress(q, i)) <=> LastPress(q, 1) \/ \E i \in DOMAIN t : LastPress(t, i)
  <2>1. ASSUME NEW i \in DOMAIN q, LastPress(q, i), i # 1 PROVE \E m \in DOMAIN t : LastPress(t, m)
    <3>1. i - 1 \in DOMAIN t /\ (i - 1) + 1 = i
      BY <1>1, <1>3, <2>1
    <3> HIDE DEF LastPress
    <3> QED
      BY <1>8, <2>1, <3>1
  <2>2. 1 \in DOMAIN q
    BY <1>1
  <2> HIDE DEF LastPress
  <2> QED
    BY <1>2, <1>8, <2>1, <2>2
<1>10. \A s, c : DownAfter(s, k, c) <=>
         (c /\ \A j \in DOMAIN s : ~Concerns(s[j], k)) \/ \E i \in DOMAIN s : LastPress(s, i)
  BY DEF DownAfter
<1> HIDE DEF LastPress
<1>11. CASE Concerns(e, k)
  <2>1. DownAfter(q, k, b) <=> DownAfter(t, k, e.down)
    BY <1>6, <1>7, <1>9, <1>10, <1>11
  <2> QED
    BY <1>11, <2>1 DEF t, e
<1>12. CASE ~Concerns(e, k)
  <2>1. DownAfter(q, k, b) <=> DownAfter(t, k, b)
    BY <1>6, <1>7, <1>9, <1>10, <1>12
  <2> QED
    BY <1>12, <2>1 DEF t, e
<1> QED
  BY <1>11, <1>12

\* Releases at the end: what they do not concern stays as it was.
LEMMA ReleasesAtEnd ==
    ASSUME NEW q \in Seq(Command), NEW r \in Seq(Command), NEW k, NEW b,
           \A i \in DOMAIN r : ~r[i].down
    PROVE  DownAfter(q \o r, k, b) =>
             DownAfter(q, k, b) /\ \A i \in DOMAIN r : ~Concerns(r[i], k)
<1> DEFINE s == q \o r
           n == Len(q)
<1>1. /\ DOMAIN s = 1..(n + Len(r)) /\ DOMAIN q = 1..n /\ DOMAIN r = 1..Len(r)
      /\ n \in Nat /\ Len(r) \in Nat
  OBVIOUS
<1>2. \A i \in DOMAIN q : s[i] = q[i] /\ i \in DOMAIN s
  BY <1>1
<1>3. \A i \in DOMAIN r : s[n + i] = r[i] /\ n + i \in DOMAIN s
  BY <1>1
<1>4. \A i \in DOMAIN s : i \in DOMAIN q \/ (i - n \in DOMAIN r /\ s[i] = r[i - n] /\ i > n)
  BY <1>1
<1> HIDE DEF s, n
<1>5. CASE \A i \in DOMAIN s : ~Concerns(s[i], k)
  BY <1>2, <1>3, <1>5 DEF DownAfter, s
<1>6. CASE \E i \in DOMAIN s : /\ Concerns(s[i], k) /\ s[i].down
                               /\ \A j \in DOMAIN s : j > i => ~Concerns(s[j], k)
  <2>1. PICK i \in DOMAIN s : /\ Concerns(s[i], k) /\ s[i].down
                              /\ \A j \in DOMAIN s : j > i => ~Concerns(s[j], k)
    BY <1>6
  <2>2. i \in DOMAIN q
    BY <1>4, <2>1
  <2>3. \A j \in DOMAIN q : j > i => ~Concerns(q[j], k)
    BY <1>2, <2>1
  <2>4. \A j \in DOMAIN r : ~Concerns(r[j], k)
    <3> SUFFICES ASSUME NEW j \in DOMAIN r PROVE n + j > i
      BY <1>3, <2>1
    <3> QED
      BY <1>1, <2>2
  <2> QED
    BY <1>2, <2>1, <2>2, <2>3, <2>4 DEF DownAfter
<1> QED
  BY <1>5, <1>6 DEF DownAfter, s

-----------------------------------------------------------------------------
(* The invariant                                                           *)

\* All events between libinput and the handler.
Pipe == inputEvents \o libinput

\* The user has the last word on every key: what the queues make of it is down
\* only if it is pressed, and the guest's part is not ahead of the handler's.
StreamInv ==
    /\ \A k \in Codes : DownAfter(Pipe, k, k \in seen) => k \in pressed
    /\ \A k \in Codes : DownAfter(monitorQueue, k, k \in guest) => k \in seen
    /\ heldKeys = guest \cap Keys

\* A modifier is in KeyboardState only while one of its keys is down.
ModifierInv == \A m \in modifiers : \E k \in seen \cap Keys : ModifierOf[k] = m

\* Out of light entry the monitor's commands leave no key down.
ExitInv ==
    io \notin Light /\ ~late => \A k \in Keys : ~DownAfter(monitorQueue, k, k \in guest)

IInv == InputTypeOK /\ StreamInv /\ ModifierInv /\ ExitInv /\ HotkeysAreHeld

LEMMA CommandTypes ==
    /\ \A q \in Seq(Event) : q \in Seq(Command)
    /\ \A e \in Event : e \in Command /\ e # ReleaseAllKeys /\ e.code \in Codes
                        /\ \A k \in Codes : Concerns(e, k) <=> e.code = k
    /\ \A k \in Codes : Concerns(ReleaseAllKeys, k) <=> k \in Keys
    /\ ReleaseAllKeys \in Command /\ ~ReleaseAllKeys.down
<1>1. \A e \in Event : e.code \in Codes
  BY DEF Event
<1>2. ReleaseAllKeys.code \notin Codes /\ ~ReleaseAllKeys.down
  BY ReleaseAssumption DEF ReleaseAllKeys
<1>3. \A e \in Event : e \in Command /\ e # ReleaseAllKeys
  BY <1>1, <1>2 DEF Command
<1>4. \A q \in Seq(Event) : q \in Seq(Command)
  BY DEF Command
<1> HIDE DEF ReleaseAllKeys
<1>5. ReleaseAllKeys \in Command
  BY DEF Command
<1> QED
  BY <1>1, <1>2, <1>3, <1>4, <1>5 DEF Concerns

LEMMA InitEstablishes == Init /\ InputInit => IInv
<1> SUFFICES ASSUME Init, InputInit PROVE IInv
  OBVIOUS
<1>1. Pipe = <<>>
  BY DEF InputInit, Pipe
<1>2. ModifierInv /\ HotkeysAreHeld
  BY DEF InputInit, ModifierInv, HotkeysAreHeld
<1>3. InputTypeOK
  <2>1. <<>> \in Seq(Event) /\ <<>> \in Seq(Event \cup {ReleaseAllKeys})
    OBVIOUS
  <2>2. \A S : {} \subseteq S
    OBVIOUS
  <2> QED
    BY <2>1, <2>2 DEF InputInit, InputTypeOK
<1>4. \A k : ~DownAfter(<<>>, k, k \in {})
  BY DEF DownAfter
<1> QED
  BY <1>1, <1>2, <1>3, <1>4 DEF InputInit, IInv, StreamInv, ExitInv

\* Whatever libinput reads, the handler's queue grows by it.
LEMMA ListenGrows ==
    ASSUME InputTypeOK, NEW news \in Seq(Event), Listen(news)
    PROVE  /\ inputEvents' \in Seq(Event) /\ libinput' \in Seq(Event)
           /\ Pipe' = Pipe \o news /\ Pipe \in Seq(Event)
BY DEF InputTypeOK, Listen, Pipe

LEMMA ListenerStep ==
    ASSUME IInv, ListenerNext
    PROVE  IInv'
<1> USE DEF IInv
<1>1. UNCHANGED <<vars, handler, monitor, monitorQueue, late>>
  BY DEF ListenerNext, Flush, Press, Release, Listen, HasRoom
<1>2. ModifierInv' /\ ExitInv' /\ HotkeysAreHeld' /\ (heldKeys = guest \cap Keys)'
  BY <1>1 DEF StreamInv, ModifierInv, ExitInv, HotkeysAreHeld, vars, ioVars, entryVars, handler, monitor
<1>3. (\A k \in Codes : DownAfter(monitorQueue, k, k \in guest) => k \in seen)'
  BY <1>1 DEF StreamInv, handler, monitor
<1>4. CASE Flush
  <2>1. Pipe' = Pipe /\ inputEvents' \in Seq(Event) /\ libinput' \in Seq(Event) /\ UNCHANGED pressed
    <3>1. <<>> \in Seq(Event) /\ Pipe \o <<>> = Pipe
      BY DEF InputTypeOK, Pipe
    <3> QED
      BY <1>4, <3>1, ListenGrows DEF Flush
  <2>2. InputTypeOK'
    BY <1>1, <2>1 DEF InputTypeOK, vars, ioVars, entryVars, handler, monitor
  <2>3. (\A k \in Codes : DownAfter(Pipe, k, k \in seen) => k \in pressed)'
    BY <1>1, <2>1 DEF StreamInv, handler
  <2> QED
    BY <1>2, <1>3, <2>2, <2>3 DEF StreamInv
<1>5. ASSUME NEW k \in Codes, NEW d \in BOOLEAN,
             IF d THEN Press(k) ELSE Release(k)
      PROVE  IInv'
  <2> DEFINE e == [code |-> k, down |-> d]
  <2>1. e \in Event /\ <<e>> \in Seq(Event)
    BY DEF Event
  <2>2. Listen(<<e>>) /\ pressed' = (IF d THEN pressed \cup {k} ELSE pressed \ {k}) /\ (d => grabs > 0)
    BY <1>5 DEF Press, Release
  <2>3. Pipe' = Append(Pipe, e) /\ inputEvents' \in Seq(Event) /\ libinput' \in Seq(Event)
        /\ Pipe \in Seq(Event)
    <3>1. Pipe \in Seq(Event) => Pipe \o <<e>> = Append(Pipe, e)
      BY <2>1
    <3> QED
      BY <2>1, <2>2, <3>1, ListenGrows
  <2>4. InputTypeOK'
    BY <1>1, <2>2, <2>3 DEF InputTypeOK, vars, ioVars, entryVars, handler, monitor
  <2>5. e.code = k /\ e.down = d
    OBVIOUS
  <2> HIDE DEF e
  <2>6. ASSUME NEW c \in Codes, DownAfter(Pipe', c, (c \in seen)') PROVE c \in pressed'
    <3>1. IF Concerns(e, c) THEN e.down ELSE DownAfter(Pipe, c, c \in seen)
      BY <1>1, <2>1, <2>3, <2>6, AppendToQueue, CommandTypes DEF handler
    <3>2. Concerns(e, c) <=> c = k
      BY <2>1, <2>5, CommandTypes
    <3> QED
      BY <2>2, <2>5, <3>1, <3>2 DEF StreamInv
  <2> QED
    BY <1>2, <1>3, <2>4, <2>6 DEF StreamInv
<1> QED
  <2>1. ASSUME NEW k \in Codes, Press(k) PROVE IInv'
    <3>1. IF TRUE THEN Press(k) ELSE Release(k)
      BY <2>1
    <3> QED
      BY <1>5, <3>1
  <2>2. ASSUME NEW k \in Codes, Release(k) PROVE IInv'
    <3>1. IF FALSE THEN Press(k) ELSE Release(k)
      BY <2>2
    <3> QED
      BY <1>5, <3>1
  <2> QED
    BY <1>4, <2>1, <2>2 DEF ListenerNext

-----------------------------------------------------------------------------
(* The handlers of the controller                                          *)

LEMMA SuspendReleases ==
    ASSUME InputTypeOK, SuspendInput, UNCHANGED inputEvents
    PROVE  /\ pressed' = {} /\ libinput' \in Seq(Event)
           /\ \A k, b : DownAfter(Pipe', k, b) =>
                DownAfter(Pipe, k, b) /\ \A c \in pressed : c # k
<1>1. PICK s \in SetToSeqs(pressed) :
        libinput' = libinput \o [i \in DOMAIN s |-> [code |-> s[i], down |-> FALSE]]
  BY DEF SuspendInput
<1>2. IsFiniteSet(pressed) /\ Cardinality(pressed) \in Nat
  BY CodesAssumption, FS_Subset, FS_CardinalityType DEF InputTypeOK
<1> DEFINE n == Cardinality(pressed)
           r == [i \in DOMAIN s |-> [code |-> s[i], down |-> FALSE]]
<1>3. s \in Injection(1..n, pressed) /\ DOMAIN s = 1..n
  BY DEF SetToSeqs, Injection, IsInjective
<1>4. s \in Surjection(1..n, pressed)
  <2>1. Cardinality(1..n) = n
    BY <1>2, FS_Interval
  <2> QED
    BY <1>2, <1>3, <2>1, FS_Injection
<1>5. \A c \in pressed : \E i \in 1..n : s[i] = c
  BY <1>4 DEF Surjection
<1>6. DOMAIN r = 1..n /\ \A i \in 1..n : r[i].code = s[i] /\ ~r[i].down
  BY <1>3
<1>7. r \in Seq(Event)
  <2>1. \A i \in 1..n : s[i] \in Codes
    BY <1>3 DEF Injection, InputTypeOK
  <2>2. r \in [1..n -> Event]
    BY <1>3, <2>1 DEF Event
  <2> QED
    BY <1>2, <2>2
<1>8. pressed' = {} /\ libinput' = libinput \o r
  BY <1>1 DEF SuspendInput
<1> HIDE DEF n, r
<1>9. Pipe \in Seq(Event) /\ Pipe' = Pipe \o r /\ libinput' \in Seq(Event)
  BY <1>7, <1>8 DEF Pipe, InputTypeOK
<1>10. ASSUME NEW k, NEW b, DownAfter(Pipe', k, b)
       PROVE  DownAfter(Pipe, k, b) /\ \A c \in pressed : c # k
  <2>1. DownAfter(Pipe, k, b) /\ \A i \in DOMAIN r : ~Concerns(r[i], k)
    BY <1>6, <1>7, <1>9, <1>10, CommandTypes, ReleasesAtEnd
  <2>2. \A c \in pressed : c # k
    BY <1>5, <1>6, <2>1 DEF Concerns
  <2> QED
    BY <2>1, <2>2
<1> QED
  BY <1>8, <1>9, <1>10

\* Devices that close hand over releases, and ReleaseAllKeys comes behind all that
\* was forwarded.
LEMMA EntryStep ==
    ASSUME IInv, TypeOK, TypeOK', EntryChanges,
           UNCHANGED <<inputEvents, modifiers, seen, monitor>>, hotkeys' \subseteq hotkeys
    PROVE  IInv'
<1> USE DEF IInv
<1>1. /\ pressed' \subseteq Codes /\ (grabs' = 0 => pressed' = {})
      /\ libinput' \in Seq(Event)
      /\ \A k \in Codes : DownAfter(Pipe', k, k \in seen) => k \in pressed'
  <2>1. CASE Suspends
    BY <2>1, SuspendReleases DEF EntryChanges, StreamInv
  <2>2. CASE ~Suspends
    <3>1. UNCHANGED <<pressed, libinput>> /\ Pipe' = Pipe
      BY <2>2 DEF EntryChanges, Pipe
    <3>2. grabs' = 0 => grabs = 0
      BY <2>2 DEF Suspends, TypeOK
    <3> QED
      BY <3>1, <3>2 DEF InputTypeOK, StreamInv
  <2> QED
    BY <2>1, <2>2
<1>2. /\ monitorQueue' \in Seq(Command) /\ late' \in BOOLEAN
      /\ \A k, b : DownAfter(monitorQueue', k, b) => DownAfter(monitorQueue, k, b)
      /\ Releases => \A k \in Keys : \A b : ~DownAfter(monitorQueue', k, b)
  <2>1. CASE Releases
    <3>1. monitorQueue \in Seq(Command) /\ monitorQueue' = Append(monitorQueue, ReleaseAllKeys) /\ late' = FALSE
      BY <2>1 DEF EntryChanges, InputTypeOK, Command
    <3>2. \A k, b : DownAfter(monitorQueue', k, b) => DownAfter(monitorQueue, k, b) /\ ~Concerns(ReleaseAllKeys, k)
      BY <3>1, CommandTypes, AppendToQueue
    <3>3. \A k \in Keys : Concerns(ReleaseAllKeys, k)
      BY DEF Concerns
    <3>4. monitorQueue' \in Seq(Command)
      <4>1. ReleaseAllKeys \in Command
        BY CommandTypes
      <4>2. \A q \in Seq(Command), c \in Command : Append(q, c) \in Seq(Command)
        OBVIOUS
      <4> QED
        BY <3>1, <4>1, <4>2
    <3>5. late' \in BOOLEAN
      BY <3>1
    <3> QED
      BY <3>2, <3>3, <3>4, <3>5
  <2>2. CASE ~Releases
    BY <2>2 DEF EntryChanges, InputTypeOK, Command
  <2> QED
    BY <2>1, <2>2
<1>3. InputTypeOK'
  <2>1. hotkeys' \subseteq DOMAIN Bindings
    BY DEF InputTypeOK
  <2> QED
    BY <1>1, <1>2, <2>1 DEF InputTypeOK, Command, monitor
<1>4. StreamInv'
  BY <1>1, <1>2 DEF StreamInv, monitor
<1>5. ModifierInv' /\ HotkeysAreHeld'
  BY DEF ModifierInv, HotkeysAreHeld
<1>6. ExitInv'
  <2> SUFFICES ASSUME io' \notin Light, ~late', ~Releases
               PROVE  \A k \in Keys : ~DownAfter(monitorQueue', k, k \in guest)
    BY <1>2 DEF ExitInv, monitor
  <2>1. late' = (late \/ (io = "TemporaryLightEntry" /\ io' = "FullEntry"))
    BY DEF EntryChanges
  <2>2. io \notin Light /\ ~late
    BY <2>1 DEF Releases, InputTypeOK
  <2> QED
    BY <1>2, <2>2 DEF ExitInv
<1> QED
  BY <1>3, <1>4, <1>5, <1>6

-----------------------------------------------------------------------------
(* The input handler                                                       *)

\* Forwarding keeps the guest behind the handler, whatever the event.
LEMMA ForwardKeeps ==
    ASSUME IInv, NEW e \in Event, Forward(e), UNCHANGED <<io, guest>>
    PROVE  /\ monitorQueue' \in Seq(Command) /\ late' \in BOOLEAN
           /\ \A k \in Codes : DownAfter(monitorQueue', k, k \in guest) =>
                IF e.code = k THEN e.down ELSE k \in seen
           /\ ExitInv'
<1>1. monitorQueue \in Seq(Command) /\ monitorQueue' = Append(monitorQueue, e)
      /\ late' = (late \/ (e.down /\ io \notin Light))
  BY DEF IInv, InputTypeOK, Forward, Command
<1>2. \A k \in Codes : \A b : DownAfter(monitorQueue', k, b) <=>
        IF e.code = k THEN e.down ELSE DownAfter(monitorQueue, k, b)
  BY <1>1, CommandTypes, AppendToQueue
<1>3. ExitInv'
  BY <1>1, <1>2 DEF ExitInv, IInv, Codes
<1>4. monitorQueue' \in Seq(Command)
  BY <1>1, CommandTypes
<1> QED
  BY <1>1, <1>2, <1>3, <1>4 DEF IInv, StreamInv, InputTypeOK

LEMMA HandlerStep ==
    ASSUME IInv, HandleInput
    PROVE  IInv'
<1> USE DEF IInv
<1> DEFINE e == Head(inputEvents)
<1>1. e \in Event /\ inputEvents' \in Seq(Event) /\ inputEvents # <<>>
  BY DEF HandleInput, InputTypeOK
<1>2. /\ inputEvents' = Tail(inputEvents) /\ hotkeys = {}
      /\ seen' = (IF e.down THEN seen \cup {e.code} ELSE seen \ {e.code})
      /\ UNCHANGED <<vars, pressed, libinput, monitor>>
  BY DEF HandleInput
<1>3. \/ e.code \in Buttons /\ Forward(e) /\ UNCHANGED <<modifiers, hotkeys>>
      \/ /\ IsModifier(e.code) /\ Forward(e) /\ UNCHANGED hotkeys
         /\ modifiers' = ModifiersAfter(e.code, e.down)
      \/ /\ e.code \in Keys /\ ~IsModifier(e.code) /\ UNCHANGED modifiers
         /\ hotkeys' = Triggered(e)
         /\ IF hotkeys' = {} THEN Forward(e) ELSE UNCHANGED <<monitorQueue, late>>
  BY DEF HandleInput
<1>4. Pipe \in Seq(Event) /\ Pipe # <<>> /\ Head(Pipe) = e /\ Tail(Pipe) = Pipe'
  BY <1>1, <1>2 DEF InputTypeOK, Pipe
<1> HIDE DEF e
<1>5. UNCHANGED <<io, grabs, guest, heldKeys>>
  BY <1>2 DEF vars, ioVars, entryVars, monitor
<1>6. \A k \in Codes : DownAfter(Pipe', k, (k \in seen)') => k \in pressed'
  <2> SUFFICES ASSUME NEW k \in Codes, DownAfter(Pipe', k, (k \in seen)') PROVE k \in pressed
    BY <1>2
  <2>1. Concerns(e, k) <=> e.code = k
    BY <1>1, CommandTypes
  <2>2. (k \in seen)' <=> IF Concerns(e, k) THEN e.down ELSE k \in seen
    BY <1>2, <2>1
  <2>3. DownAfter(Pipe, k, k \in seen)
    <3>1. DownAfter(Pipe, k, k \in seen) <=> DownAfter(Pipe', k, IF Concerns(e, k) THEN e.down ELSE k \in seen)
      BY <1>4, CommandTypes, TailOfQueue
    <3>2. CASE (k \in seen)'
      BY <2>2, <3>1, <3>2 DEF DownAfter
    <3>3. CASE ~(k \in seen)'
      BY <2>2, <3>1, <3>3 DEF DownAfter
    <3> QED
      BY <3>2, <3>3
  <2> QED
    BY <2>3 DEF StreamInv
<1>7. \A k \in seen \cap Keys : k # e.code => k \in seen' \cap Keys
  BY <1>2
<1>8. ASSUME Forward(e)
      PROVE  /\ monitorQueue' \in Seq(Command) /\ late' \in BOOLEAN /\ ExitInv'
             /\ \A k \in Codes : DownAfter(monitorQueue', k, (k \in guest)') => k \in seen'
  BY <1>1, <1>2, <1>5, <1>8, ForwardKeeps
<1>9. ASSUME UNCHANGED <<monitorQueue, late>>, e.down
      PROVE  /\ monitorQueue' \in Seq(Command) /\ late' \in BOOLEAN /\ ExitInv'
             /\ \A k \in Codes : DownAfter(monitorQueue', k, (k \in guest)') => k \in seen'
  <2>1. seen \subseteq seen'
    BY <1>2, <1>9
  <2> QED
    BY <1>5, <1>9, <2>1 DEF InputTypeOK, Command, ExitInv, StreamInv
<1>10. /\ modifiers' \subseteq Modifier /\ hotkeys' \subseteq DOMAIN Bindings
       /\ ModifierInv' /\ HotkeysAreHeld'
  <2>1. CASE e.code \in Buttons /\ UNCHANGED <<modifiers, hotkeys>>
    <3>1. seen' \cap Keys = seen \cap Keys
      BY <1>2, <2>1, CodesAssumption
    <3> QED
      BY <1>2, <2>1, <3>1 DEF InputTypeOK, ModifierInv, HotkeysAreHeld
  <2>2. CASE /\ IsModifier(e.code) /\ UNCHANGED hotkeys
             /\ modifiers' = ModifiersAfter(e.code, e.down)
    <3>1. e.code \in Keys /\ ModifierOf[e.code] \in Modifier
      BY <2>2, ModifierAssumption DEF IsModifier
    <3>2. modifiers' \subseteq Modifier /\ hotkeys' = {}
      BY <1>2, <2>2, <3>1 DEF ModifiersAfter, InputTypeOK
    <3>3. ASSUME NEW m \in modifiers' PROVE \E k \in seen' \cap Keys : ModifierOf[k] = m
      <4>1. CASE m = ModifierOf[e.code]
        BY <1>2, <2>2, <3>1, <3>3, <4>1 DEF ModifiersAfter
      <4>2. CASE m # ModifierOf[e.code]
        BY <1>7, <2>2, <3>3, <4>2 DEF ModifiersAfter, ModifierInv
      <4> QED
        BY <4>1, <4>2
    <3> QED
      BY <1>2, <2>2, <3>2, <3>3 DEF InputTypeOK, ModifierInv, HotkeysAreHeld
  <2>3. CASE /\ e.code \in Keys /\ ~IsModifier(e.code) /\ UNCHANGED modifiers
             /\ hotkeys' = Triggered(e)
    <3>1. ASSUME NEW m \in modifiers PROVE \E k \in seen' \cap Keys : ModifierOf[k] = m
      <4>1. PICK k \in seen \cap Keys : ModifierOf[k] = m
        BY <3>1 DEF ModifierInv
      <4>2. m # NoModifier /\ ModifierOf[e.code] = NoModifier
        BY <2>3, <3>1, ModifierAssumption DEF IsModifier, InputTypeOK
      <4> QED
        BY <1>7, <4>1, <4>2
    <3>2. hotkeys' \subseteq DOMAIN Bindings
          /\ \A i \in hotkeys' : Bindings[i].modifiers \subseteq modifiers
      BY <2>3 DEF Triggered, Matches
    <3> QED
      BY <2>3, <3>1, <3>2 DEF InputTypeOK, ModifierInv, HotkeysAreHeld
  <2> QED
    BY <1>3, <2>1, <2>2, <2>3
<1>11. /\ monitorQueue' \in Seq(Command) /\ late' \in BOOLEAN /\ ExitInv'
       /\ \A k \in Codes : DownAfter(monitorQueue', k, (k \in guest)') => k \in seen'
  <2>1. CASE Forward(e)
    BY <1>8, <2>1
  <2>2. CASE hotkeys' # {} /\ hotkeys' = Triggered(e) /\ UNCHANGED <<monitorQueue, late>>
    <3>1. e.down
      BY <2>2 DEF Triggered
    <3> QED
      BY <1>9, <2>2, <3>1
  <2> QED
    BY <1>3, <2>1, <2>2
<1>12. InputTypeOK'
  <2>1. seen' \subseteq Codes
    BY <1>1, <1>2, CommandTypes DEF InputTypeOK
  <2> QED
    BY <1>1, <1>2, <1>5, <1>10, <1>11, <2>1 DEF InputTypeOK, Command
<1>13. StreamInv'
  BY <1>5, <1>6, <1>11 DEF StreamInv
<1> QED
  BY <1>10, <1>11, <1>12, <1>13

-----------------------------------------------------------------------------
(* The monitor                                                             *)

\* A command that is executed moves from the queue to the guest.
LEMMA ExecuteStep ==
    ASSUME IInv, Execute
    PROVE  IInv'
<1> USE DEF IInv
<1> DEFINE e == Head(monitorQueue)
<1>1. /\ monitorQueue \in Seq(Command) /\ monitorQueue # <<>>
      /\ monitorQueue' = Tail(monitorQueue)
  BY DEF Execute, InputTypeOK, Command
<1>2. e \in Command /\ monitorQueue' \in Seq(Command)
  BY <1>1
<1>3. \/ e = ReleaseAllKeys /\ guest' = guest \ heldKeys /\ heldKeys' = {}
      \/ /\ e # ReleaseAllKeys /\ e.down
         /\ guest' = guest \cup {e.code} /\ heldKeys' = heldKeys \cup ({e.code} \cap Keys)
      \/ /\ e # ReleaseAllKeys /\ ~e.down
         /\ guest' = guest \ {e.code} /\ heldKeys' = heldKeys \ {e.code}
  BY DEF Execute
<1>4. \A k, b : DownAfter(monitorQueue, k, b) <=>
        DownAfter(monitorQueue', k, IF Concerns(e, k) THEN e.down ELSE b)
  BY <1>1, TailOfQueue
<1> HIDE DEF e
<1>5. UNCHANGED <<io, grabs, pressed, libinput, inputEvents, modifiers, hotkeys, seen, late>>
  BY DEF Execute, vars, ioVars, entryVars, stream, handler
<1>6. heldKeys = guest \cap Keys /\ guest \subseteq Codes
  BY DEF StreamInv, InputTypeOK
<1>7. ASSUME NEW k \in Codes PROVE k \in guest' <=> IF Concerns(e, k) THEN e.down ELSE k \in guest
  <2>1. CASE e = ReleaseAllKeys
    <3>1. (Concerns(e, k) <=> k \in Keys) /\ ~e.down
      BY <2>1, CommandTypes
    <3> QED
      BY <1>3, <1>6, <2>1, <3>1
  <2>2. CASE e # ReleaseAllKeys
    <3>1. Concerns(e, k) <=> e.code = k
      BY <2>2 DEF Concerns
    <3> QED
      BY <1>3, <2>2, <3>1
  <2> QED
    BY <2>1, <2>2
<1>8. \A k \in Codes : DownAfter(monitorQueue', k, (k \in guest)') <=>
                       DownAfter(monitorQueue, k, k \in guest)
  <2> SUFFICES ASSUME NEW k \in Codes
               PROVE  DownAfter(monitorQueue', k, (k \in guest)') <=>
                      DownAfter(monitorQueue, k, k \in guest)
    OBVIOUS
  <2> DEFINE c == IF Concerns(e, k) THEN e.down ELSE k \in guest
  <2>1. DownAfter(monitorQueue, k, k \in guest) <=> DownAfter(monitorQueue', k, c)
    BY <1>4
  <2>2. (k \in guest)' <=> c
    BY <1>7
  <2> HIDE DEF c
  <2> QED
    BY <2>1, <2>2 DEF DownAfter
<1>9. heldKeys' = guest' \cap Keys /\ guest' \subseteq Codes
  <2>1. CASE e = ReleaseAllKeys
    BY <1>3, <1>6, <2>1
  <2>2. CASE e # ReleaseAllKeys
    <3>1. e.code \in Codes
      BY <1>2, <2>2, CommandTypes DEF Command
    <3> QED
      BY <1>3, <1>6, <2>2, <3>1
  <2> QED
    BY <2>1, <2>2
<1>10. InputTypeOK'
  BY <1>2, <1>5, <1>9 DEF InputTypeOK, Command
<1>11. StreamInv'
  <2>1. Pipe' = Pipe
    BY <1>5 DEF Pipe
  <2> QED
    BY <1>5, <1>8, <1>9, <2>1 DEF StreamInv
<1>12. ExitInv'
  BY <1>5, <1>8 DEF ExitInv, Codes
<1>13. ModifierInv' /\ HotkeysAreHeld'
  BY <1>5 DEF ModifierInv, HotkeysAreHeld
<1> QED
  BY <1>10, <1>11, <1>12, <1>13

-----------------------------------------------------------------------------
(* The theorems                                                            *)

\* InputTypeOK is not inductive as it stands, and neither are the properties: what
\* the queues hold decides what the guest comes to hold.
THEOREM InputInvariant == InputSpec => []IInv
<1>1. Init /\ InputInit => IInv
  BY InitEstablishes
<1>2. ASSUME IInv, TypeOK, TypeOK', [InputNext]_allVars PROVE IInv'
  <2>1. CASE ListenerNext
    BY <1>2, <2>1, ListenerStep
  <2>2. CASE HandleInput
    BY <1>2, <2>2, HandlerStep
  <2>3. CASE CallHotkey
    <3>1. hotkeys' \subseteq hotkeys
          /\ EntryChanges /\ UNCHANGED <<inputEvents, modifiers, seen, monitor>>
      BY <2>3 DEF CallHotkey
    <3> QED
      BY <1>2, <3>1, EntryStep
  <2>4. CASE Execute
    BY <1>2, <2>4, ExecuteStep
  <2>5. CASE OthersNext
    <3>1. hotkeys' \subseteq hotkeys
          /\ EntryChanges /\ UNCHANGED <<inputEvents, modifiers, seen, monitor>>
      BY <2>5 DEF OthersNext, handler
    <3> QED
      BY <1>2, <3>1, EntryStep
  <2>6. CASE UNCHANGED allVars
    <3>1. UNCHANGED <<io, grabs, pressed, libinput, inputEvents, modifiers, hotkeys,
                      monitorQueue, heldKeys, guest, seen, late>>
      BY <2>6 DEF allVars, inputVars, vars, ioVars, entryVars, stream, handler, monitor
    <3> QED
      BY <1>2, <3>1 DEF IInv, InputTypeOK, StreamInv, Pipe, ModifierInv, ExitInv, HotkeysAreHeld
  <2> QED
    BY <1>2, <2>1, <2>2, <2>3, <2>4, <2>5, <2>6 DEF InputNext
<1>3. InputSpec => []TypeOK
  BY InputImplementsController, TypeCorrect, PTL
<1> QED
  BY <1>1, <1>2, <1>3, PTL DEF InputSpec

\* Types, and closed devices have nothing pressed (Input::suspend, libinput.rs).
THEOREM InputTypeCorrect == InputSpec => []InputTypeOK
<1>1. IInv => InputTypeOK
  BY DEF IInv
<1> QED
  BY <1>1, InputInvariant, PTL

\* libinput.rs:255-256: with nothing on its way, the guest holds only what is
\* pressed, however entries, exits, hotkeys and typing were interleaved.
THEOREM NeverHungKeys == InputSpec => []NoHungKeys
<1>1. IInv => NoHungKeys
  <2> SUFFICES ASSUME IInv, Delivered PROVE guest \subseteq pressed
    BY DEF NoHungKeys
  <2>1. Pipe = <<>> /\ monitorQueue = <<>>
    BY DEF Delivered, Pipe
  <2>2. ASSUME NEW k \in guest PROVE k \in pressed
    <3>1. k \in Codes
      BY DEF IInv, InputTypeOK
    <3>2. k \in seen
      <4>1. DownAfter(monitorQueue, k, k \in guest)
        BY <2>1, EmptyQueue
      <4> QED
        BY <3>1, <4>1 DEF IInv, StreamInv
    <3>3. DownAfter(Pipe, k, k \in seen)
      BY <2>1, <3>2, EmptyQueue
    <3> QED
      BY <3>1, <3>3 DEF IInv, StreamInv
  <2> QED
    BY <2>2
<1> QED
  BY <1>1, InputInvariant, PTL

\* io_detach and io_force_attach (controller.rs:285-300, 356-366) leave no key down.
THEOREM ExitAlwaysReleasesKeys == InputSpec => []ExitReleasesKeys
<1>1. IInv => ExitReleasesKeys
  <2> SUFFICES ASSUME IInv, io \notin Light, monitorQueue = <<>>, ~late,
                      NEW k \in guest \cap Keys
               PROVE  FALSE
    BY DEF ExitReleasesKeys
  <2>1. DownAfter(monitorQueue, k, k \in guest)
    BY EmptyQueue
  <2> QED
    BY <2>1 DEF IInv, ExitInv
<1> QED
  BY <1>1, InputInvariant, PTL

\* A hotkey's modifiers were down when it was triggered (hotkeys/mod.rs:61-80).
THEOREM HotkeysAlwaysHeld == InputSpec => []HotkeysAreHeld
<1>1. IInv => HotkeysAreHeld
  BY DEF IInv
<1> QED
  BY <1>1, InputInvariant, PTL
=============================================================================
